------------------------------- MODULE Catalog -------------------------------
(***************************************************************************)
(* The catalogue: server/sysinit.c, which opens and closes it, the         *)
(* analysis of CREATE TABLE and DROP TABLE and the lookups of              *)
(* parser/analyze.c, and what exectutor/execTable.c does for the two.      *)
(*                                                                         *)
(* Every statement is a process of its own, and may die between any two    *)
(* writes to a file. sys_table has one row for a table and sys_attr one    *)
(* for each of its attributes; a row is its table's name and id and, in    *)
(* sys_attr, the attribute (its key, type and length) with its number. All *)
(* other statements only look up: what they find is what the operators     *)
(* below say of the files. The buffers suffice for the catalogue. A heap  *)
(* is saved in one step here; FreeSpace has its writes one by one.         *)
(***************************************************************************)
EXTENDS DataBlocks, FiniteSets

CONSTANTS
  Names,          \* of tables
  Definitions,    \* attribute lists of CREATE TABLE: key and constraints each
  baseTableid,
  MaxId,          \* bound: the last id given to a table
  MaxCrashes,     \* bound: how many processes die
  MaxBlk          \* bound: highest block number of a relation of the catalogue

ASSUME CatalogAssumption ==
  /\ baseTableid \in Nat \ {0} /\ MaxId \in Nat
  /\ MaxCrashes \in Nat /\ MaxBlk \in Nat
  /\ MaxBlk < INValidBlockNumber
  /\ Definitions \subseteq Seq([key : STRING, constraints : Seq(STRING)])

VARIABLES
  pc,        \* "none", "analyze", or what the process does next
  stmt,      \* its statement
  at,        \* what the last scan returned: position in block 0
  rels,      \* "table" and "attr" -> sys_table and sys_attr, as in DataBlocks
  fsmFile,   \* the same -> heap and last block as last saved
  tableId,   \* the id of the next table
  sysFile,   \* the same as last saved; 0 if there is no file
  tables,    \* (history) name -> id and attributes of each table that was
             \* created in order and not dropped
  spoiled,   \* (history) names whose last CREATE or DROP was cut short, and those
             \* created again after that, among rows that were left behind
  lost,      \* (history) names of tables that were created in order but with a row
             \* in a buffer that was not marked, and so not written
  crashes    \* (history) how many processes died

catVars == <<pc, stmt, at, rels, fsmFile, tableId, sysFile, tables, spoiled, lost, crashes>>

Statements ==
  [kind : {"create"}, name : Names, attrs : Definitions]
    \cup [kind : {"drop"}, name : Names, attrs : {<<>>}]
NoStatement == [kind |-> "none", name |-> "none", attrs |-> <<>>]

\* Names of which the rows need not be those of tables.
Unsure == spoiled \cup lost

Keys(attrs) == [i \in DOMAIN attrs |-> attrs[i].key]
Without(f, x) == Restrict(f, DOMAIN f \ {x})

-----------------------------------------------------------------------------
\* Lookups

\* The catalogue's scans never set maxBlockNumbertoScan: they end with block 0.
Scanned(rel) == IF IsValidBlockNumber(rel.max) THEN rel.seen[0] ELSE <<>>

\* execScan with the condition that the name is the one given: where it goes on
\* from a position, and 0 at the end.
Matches(rel, name) ==
  {i \in DOMAIN Scanned(rel) : ~Scanned(rel)[i].deleted /\ Scanned(rel)[i].name = name}
execScan(rel, name, from) ==
  LET ahead == {i \in Matches(rel, name) : i > from}
  IN  IF ahead = {} THEN 0 ELSE Min(ahead)

\* RESET_SEQSCAN
Reset == 0

checkTableNameExist(cat, name) ==
  LET i == execScan(cat["table"], name, Reset)
  IN  IF i = 0 THEN 0 ELSE Scanned(cat["table"])[i].oid

\* (mutant) ends with the first attribute.
FirstAttrOnly(cat, name) ==
  LET rel == cat["attr"]  i == execScan(rel, name, Reset)
  IN  IF i = 0 THEN <<>> ELSE <<Scanned(rel)[i].key>>

\* The scan's loop over the rows of sys_attr, in their order, whatever the numbers in
\* them: attrs[n] are the attributes found in the first n rows.
getRelationAttrs(cat, name) ==
  LET rel == cat["attr"]
      attrs[n \in 0 .. Len(Scanned(rel))] ==
        IF n = 0 THEN <<>>
        ELSE IF n \in Matches(rel, name) THEN Append(attrs[n - 1], Scanned(rel)[n].key)
        ELSE attrs[n - 1]
  IN  attrs[Len(Scanned(rel))]

-----------------------------------------------------------------------------
\* The definition of a table

NoDuplicates(list, kinds) ==
  Cardinality({i \in DOMAIN list : list[i] \in kinds}) <= 1

\* analyze_createTbaleConstraint: of the attribute's own constraints none is
\* repeated. NULL and NOT NULL are one kind, DEFAULT and DEFAULT NULL another.
OwnAccepted(constraints) ==
  \A kinds \in {{"NULL", "NOT NULL"}, {"UNIQUE"}, {"DEFAULT", "DEFAULT NULL"}} :
    NoDuplicates(constraints, kinds)

\* The constraints as they are read: the lists are built in reverse.
Read(attrs) ==
  LET own(i) == [j \in DOMAIN attrs[i].constraints |->
                   [attr |-> i, type |-> Reverse(attrs[i].constraints)[j]]]
  IN  FlattenSeq([i \in DOMAIN attrs |-> own(Len(attrs) + 1 - i)])

\* setkey: no key, of either kind, may be read after the primary key.
KeysAccepted(attrs) ==
  \A i, j \in DOMAIN Read(attrs) :
    i < j /\ Read(attrs)[i].type = "PRIMARY KEY"
      => Read(attrs)[j].type \notin {"PRIMARY KEY", "FOREIGN KEY"}

Having(attrs, type) ==
  {i \in DOMAIN attrs : type \in Range(attrs[i].constraints)}

\* primary_key_attr_index and autoindex when n constraints were read, by type.
INVALID_ATTR_INDEX == 0
IndexRead(attrs, type, n) ==
  LET those == {i \in 1 .. n : Read(attrs)[i].type = type}
  IN  IF those = {} THEN INVALID_ATTR_INDEX ELSE Read(attrs)[Max(those)].attr

\* setauto: no second AUTO may be read.
OneAuto(attrs) ==
  \A i, j \in DOMAIN Read(attrs) :
    i < j /\ Read(attrs)[i].type = "AUTO" => Read(attrs)[j].type # "AUTO"

\* Has analyze_createTbaleConstraint read all constraints of an attribute?
AttributeRead(attrs, n) ==
  n + 1 \in DOMAIN Read(attrs) => Read(attrs)[n + 1].attr # Read(attrs)[n].attr

\* (mutant) the test is left out when no key was read so far.
AutoLateKey(attrs) ==
  /\ OneAuto(attrs)
  /\ \A n \in DOMAIN Read(attrs) :
       LET auto == IndexRead(attrs, "AUTO", n)  key == IndexRead(attrs, "PRIMARY KEY", n)
       IN  AttributeRead(attrs, n)
             => INVALID_ATTR_INDEX \in {auto, key} \/ auto = key

\* What is counted up is tested against the key after each attribute that has
\* constraints, with what was read so far.
AutoAccepted(attrs) ==
  /\ OneAuto(attrs)
  /\ \A n \in DOMAIN Read(attrs) :
       LET auto == IndexRead(attrs, "AUTO", n)  key == IndexRead(attrs, "PRIMARY KEY", n)
       IN  AttributeRead(attrs, n) => auto = INVALID_ATTR_INDEX \/ auto = key

analyze_CreateTableAttrs(attrs) ==
  /\ \A i \in DOMAIN attrs : OwnAccepted(attrs[i].constraints)
  /\ KeysAccepted(attrs) /\ AutoAccepted(attrs)

-----------------------------------------------------------------------------
\* A process begins and ends.

Sys == {"table", "attr"}
NoHeap == [fsh |-> [b \in {} |-> 0], max |-> INValidBlockNumber]

\* Rel_CreateRelation on what the files hold.
Opened(disk, file) == [fsh |-> file.fsh, max |-> file.max, seen |-> disk, disk |-> disk]

Init ==
  /\ pc = "none" /\ stmt = NoStatement /\ at = Reset
  /\ fsmFile = [s \in Sys |-> NoHeap]
  /\ rels = [s \in Sys |-> Opened([b \in {} |-> <<>>], NoHeap)]
  /\ tableId = 0 /\ sysFile = 0
  /\ tables = [n \in {} |-> 0] /\ spoiled = {} /\ lost = {} /\ crashes = 0

initSysTable(statement) ==
  /\ pc = "none" /\ pc' = "analyze" /\ stmt' = statement
  /\ rels' = [s \in Sys |-> Opened(rels[s].disk, fsmFile[s])]
  /\ tableId' = IF sysFile = 0 THEN baseTableid ELSE sysFile
  /\ UNCHANGED <<at, fsmFile, sysFile, tables, spoiled, lost, crashes>>

\* The process is gone, and with it what it did not write.
Gone ==
  /\ pc' = "none" /\ stmt' = NoStatement /\ at' = Reset
  /\ rels' = [s \in Sys |-> Opened(rels[s].disk, fsmFile[s])]
  /\ tableId' = 0

\* Between any two writes.
Crash ==
  /\ pc # "none" /\ Gone
  /\ crashes < MaxCrashes /\ crashes' = crashes + 1
  /\ UNCHANGED <<fsmFile, sysFile, tables, spoiled, lost>>

\* The statement is found good. From here it may leave its table half done.
Accepted(next) ==
  /\ pc' = next
  /\ tables' = Without(tables, stmt.name)
  /\ spoiled' = spoiled \cup {stmt.name} /\ lost' = lost \ {stmt.name}
  /\ UNCHANGED <<rels, fsmFile, tableId, sysFile, crashes>>

\* The table is there or not, or the definition is bad: exit, without a call of
\* destorySysTable.
Refused ==
  /\ pc = "analyze"
  /\ IF stmt.kind = "drop" THEN checkTableNameExist(rels, stmt.name) = 0
     ELSE \/ checkTableNameExist(rels, stmt.name) # 0
          \/ ~analyze_CreateTableAttrs(stmt.attrs)
  /\ Gone /\ UNCHANGED <<fsmFile, sysFile, tables, spoiled, lost, crashes>>

\* A CREATE of a name that an earlier statement left half done, or whose table lost
\* its row, is marked: other rows of the name may be there.
analyze_CreateTable ==
  /\ pc = "analyze" /\ stmt.kind = "create"
  /\ checkTableNameExist(rels, stmt.name) = 0
  /\ analyze_CreateTableAttrs(stmt.attrs)
  /\ tableId <= MaxId
  /\ stmt' = [stmt EXCEPT !.kind = IF stmt.name \in Unsure THEN "recreate" ELSE @]
  /\ at' = Reset /\ Accepted("insert")

analyze_DropTable ==
  /\ pc = "analyze" /\ stmt.kind = "drop"
  /\ checkTableNameExist(rels, stmt.name) # 0
  /\ at' = execScan(rels["table"], stmt.name, Reset)
  /\ Accepted("reset") /\ UNCHANGED stmt

-----------------------------------------------------------------------------
\* execCreateTable

Tup_vInsert(s, row) ==
  \E got \in Rel_GetBlockToInsert(rels[s]) :
    /\ rels' = [rels EXCEPT ![s] = Inserted(got[2], got[1], row)]
    /\ DOMAIN rels'[s].seen \subseteq 0 .. MaxBlk

Row == [oid |-> tableId, name |-> stmt.name, deleted |-> FALSE]
AttrRow(i) == [oid |-> tableId, name |-> stmt.name, deleted |-> FALSE,
               key |-> stmt.attrs[i].key, attrno |-> i - 1]

InsertTableRow ==
  /\ pc = "insert" /\ pc' = "attrs" /\ at' = 0
  /\ Tup_vInsert("table", Row)
  /\ UNCHANGED <<stmt, fsmFile, tableId, sysFile, tables, spoiled, lost, crashes>>

\* at counts the attributes.
InsertAttrRow ==
  /\ pc = "attrs" /\ at < Len(stmt.attrs)
  /\ Tup_vInsert("attr", AttrRow(at + 1))
  /\ at' = at + 1
  /\ UNCHANGED <<pc, stmt, fsmFile, tableId, sysFile, tables, spoiled, lost, crashes>>

\* (mutant) the id is not counted on.
SameId == tableId
NextId == tableId + 1

Created ==
  /\ pc = "attrs" /\ at = Len(stmt.attrs) /\ pc' = "close table"
  /\ tableId' = NextId
  /\ UNCHANGED <<stmt, at, rels, fsmFile, sysFile, tables, spoiled, lost, crashes>>

-----------------------------------------------------------------------------
\* execDropTable

\* (mutant) the scan of sys_table goes on from the row that was found.
GoesOn == at
DropFrom == Reset

\* The scan of sys_attr begins with the process.
DropBegins ==
  /\ pc = "reset" /\ pc' = "drop table" /\ at' = DropFrom
  /\ UNCHANGED <<stmt, rels, fsmFile, tableId, sysFile, tables, spoiled, lost, crashes>>

\* (mutant) the rows of the same id go.
RowsOfId(rel) ==
  {i \in DOMAIN Scanned(rel) :
     /\ ~Scanned(rel)[i].deleted
     /\ Scanned(rel)[i].oid \in {Scanned(rel)[j].oid : j \in Matches(rel, stmt.name)}}
RowsToDrop(rel) == Matches(rel, stmt.name)

\* Tup_cDeleteTuple on each row that execScan returns.
Delete(s) ==
  LET ahead == {i \in RowsToDrop(rels[s]) : i > at}
  IN  /\ ahead # {} /\ at' = Min(ahead)
      /\ rels' = [rels EXCEPT ![s] = Flushed(Flagged(rels[s], 0, Min(ahead)), 0)]
      /\ UNCHANGED <<pc, stmt, fsmFile, tableId, sysFile, tables, spoiled, lost, crashes>>

ScanEnds(s) ==
  /\ \A i \in RowsToDrop(rels[s]) : i <= at
  /\ pc' = IF s = "table" THEN "drop attrs" ELSE "close table"
  /\ at' = Reset
  /\ UNCHANGED <<stmt, rels, fsmFile, tableId, sysFile, tables, spoiled, lost, crashes>>

execDropTable ==
  \/ pc = "drop table" /\ (Delete("table") \/ ScanEnds("table"))
  \/ pc = "drop attrs" /\ (Delete("attr") \/ ScanEnds("attr"))

-----------------------------------------------------------------------------
\* destorySysTable: the heaps one after the other, and then the next id.

Closing(s) == IF s = "table" THEN "close table" ELSE "close attr"

Rel_vDestoryRelation(s) ==
  /\ pc = Closing(s)
  /\ pc' = IF s = "table" THEN "close attr" ELSE "close id"
  /\ fsmFile' = [fsmFile EXCEPT ![s] = [fsh |-> rels[s].fsh, max |-> rels[s].max]]
  /\ UNCHANGED <<stmt, at, rels, tableId, sysFile, tables, spoiled, lost, crashes>>

\* (mutant) the next id is not saved.
IdForgotten == sysFile
SavedId == tableId

\* Was every row that was inserted written to the file?
Written == \A s \in Sys : rels[s].seen = rels[s].disk

destorySysTable ==
  /\ pc = "close id" /\ Gone
  /\ sysFile' = SavedId
  /\ IF stmt.kind = "drop" THEN spoiled' = spoiled \ {stmt.name} /\ UNCHANGED <<tables, lost>>
     ELSE IF stmt.kind = "create"
     THEN /\ tables' = [n \in DOMAIN tables \cup {stmt.name} |->
                IF n = stmt.name THEN [oid |-> tableId - 1, attrs |-> Keys(stmt.attrs)]
                                 ELSE tables[n]]
          /\ spoiled' = spoiled \ {stmt.name}
          /\ lost' = IF Written THEN lost ELSE lost \cup {stmt.name}
     ELSE UNCHANGED <<tables, spoiled, lost>>
  /\ UNCHANGED <<fsmFile, crashes>>

Next ==
  \/ \E statement \in Statements : initSysTable(statement)
  \/ Refused \/ analyze_CreateTable \/ analyze_DropTable
  \/ InsertTableRow \/ InsertAttrRow \/ Created
  \/ DropBegins \/ execDropTable
  \/ \E s \in Sys : Rel_vDestoryRelation(s)
  \/ destorySysTable \/ Crash

Spec == Init /\ [][Next]_catVars

-----------------------------------------------------------------------------
\* Properties

\* Rows of a name in the blocks that a process may come to know, as
\* <<block, position, row>>.
RowsNamed(s, name) ==
  LET disk == rels[s].disk
      known == {b \in DOMAIN disk : IsValidBlockNumber(fsmFile[s].max) /\ b <= fsmFile[s].max}
      of(b) == {i \in DOMAIN disk[b] : ~disk[b][i].deleted /\ disk[b][i].name = name}
  IN  UNION {{<<b, i, disk[b][i]>> : i \in of(b)} : b \in known}
InFirstBlock(name) == \A s \in Sys : \A r \in RowsNamed(s, name) : r[1] = 0

\* Between statements the catalogue answers as the statements that ended in
\* order say, whatever statement on another name was cut short at whatever row: a
\* table is found with its id and all its attributes in their order, a table that
\* was dropped, or never created, is not found and has no attributes. Three kinds
\* of tables are left out: one whose own statement was cut short, until it is
\* dropped in order; one of which a row was lost with an unmarked buffer
\* (block.c:154-165); and one with a row behind the only block that the scans
\* read (sysinit.c:23-39).
LookupsExact ==
  pc = "none" =>
    \A name \in Names \ Unsure :
      IF name \in DOMAIN tables
      THEN InFirstBlock(name)
             => /\ checkTableNameExist(rels, name) = tables[name].oid
                /\ getRelationAttrs(rels, name) = tables[name].attrs
      ELSE checkTableNameExist(rels, name) = 0 /\ getRelationAttrs(rels, name) = <<>>

\* Tables that were created in order never share an id, and with it their files
\* (relation.c:181), nor will the next one get theirs: the id that is saved is
\* above them all (sysinit.c:51-59, 75), even if a process died before it saved.
IdsOnce ==
  /\ \A m, n \in DOMAIN tables : tables[m].oid = tables[n].oid => m = n
  /\ \A n \in DOMAIN tables : tables[n].oid \in baseTableid .. sysFile - 1

\* A definition that is accepted has one primary key at most, and only that is
\* counted up ("there can be only one auto column", "auto column must be defined
\* as a key": analyze.c:949, 963).
AcceptedSound ==
  pc = "insert" =>
    /\ Cardinality(Having(stmt.attrs, "PRIMARY KEY")) <= 1
    /\ Cardinality(Having(stmt.attrs, "AUTO")) <= 1
    /\ Having(stmt.attrs, "AUTO") \subseteq Having(stmt.attrs, "PRIMARY KEY")

\* A statement never touches the rows of another table, in any block that is
\* known, even when ids were given twice after a crash (execTable.c:68-92), nor
\* does a crash.
OnlyItsName ==
  [][\A s \in Sys, name \in Names :
       name # stmt.name => RowsNamed(s, name)' = RowsNamed(s, name)]_catVars
=============================================================================
