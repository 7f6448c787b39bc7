---------------------------- MODULE CatalogProofs ----------------------------
(***************************************************************************)
(* The catalogue for any names, definitions and sizes of blocks, and any   *)
(* number of processes that die: ids are given once, definitions that are  *)
(* accepted are sound, statements keep to the rows of their table, and     *)
(* lookups answer what the statements did.                                 *)
(***************************************************************************)
EXTENDS Catalog, InductionFacts, SequenceTheorems, FiniteSetTheorems

-----------------------------------------------------------------------------
\* Ids

\* The id that the next process starts with.
StartId == IF sysFile = 0 THEN baseTableid ELSE sysFile

\* The code before and behind the count of the id.
Creating == {"insert", "attrs"}
Dropping == {"reset", "drop table", "drop attrs"}
ClosingPcs == {"close table", "close attr", "close id"}

\* A process's next id is the one it started with, until a CREATE is done.
ProcessId ==
  /\ pc \in {"none", "analyze"} \cup Creating \cup Dropping \cup ClosingPcs
  /\ pc \in Creating => stmt.kind # "drop"
  /\ pc \in Dropping => stmt.kind = "drop"
  /\ pc \in {"analyze"} \cup Creating \cup Dropping => tableId = StartId
  /\ pc \in ClosingPcs => tableId = IF stmt.kind = "drop" THEN StartId ELSE StartId + 1

IdInv ==
  /\ sysFile \in Nat /\ (sysFile = 0 \/ sysFile >= baseTableid)
  /\ ProcessId
  /\ IdsOnce

-----------------------------------------------------------------------------

LEMMA InitId == Init => IdInv
<1> SUFFICES ASSUME Init PROVE IdInv OBVIOUS
<1>1. DOMAIN tables = {} BY DEF Init
<1> QED BY <1>1 DEF Init, IdInv, ProcessId, IdsOnce, Creating, Dropping, ClosingPcs

\* The ids of fewer tables are still given once.
LEMMA FewerTables ==
  ASSUME IdsOnce, sysFile' = sysFile, NEW x, tables' = Without(tables, x)
  PROVE  IdsOnce'
<1>1. /\ DOMAIN tables' \subseteq DOMAIN tables
      /\ \A n \in DOMAIN tables' : tables'[n] = tables[n]
  BY DEF Without, Restrict
<1> QED BY <1>1 DEF IdsOnce

LEMMA SameTables ==
  ASSUME IdsOnce, sysFile' = sysFile, tables' = tables
  PROVE  IdsOnce'
BY DEF IdsOnce

\* The process that ends in order has an id that no table has yet, and saves one
\* that is above it.
LEMMA EndKeepsIds ==
  ASSUME IdInv, destorySysTable
  PROVE  IdInv'
<1> USE CatalogAssumption
<1> DEFINE own == IF stmt.kind = "drop" THEN StartId ELSE StartId + 1
<1>1. /\ sysFile \in Nat /\ StartId \in Nat /\ StartId >= baseTableid
      /\ StartId >= sysFile /\ baseTableid \in Nat \ {0}
  BY DEF IdInv, StartId
<1>2. tableId = own
  BY DEF destorySysTable, IdInv, ProcessId, ClosingPcs
<1>3. sysFile' = own /\ pc' = "none"
  BY <1>2 DEF destorySysTable, SavedId, Gone
<1>4. sysFile' \in Nat /\ sysFile' >= baseTableid /\ sysFile' >= sysFile
  BY <1>1, <1>3
<1>5. ProcessId'
  BY <1>3 DEF ProcessId, Creating, Dropping, ClosingPcs
<1>6. \A n \in DOMAIN tables : tables[n].oid \in baseTableid .. sysFile' - 1
  BY <1>1, <1>4 DEF IdInv, IdsOnce
<1>7. IdsOnce'
  <2>1. CASE tables' = tables
    BY <1>6, <2>1 DEF IdInv, IdsOnce
  <2>2. CASE tables' # tables
    <3> DEFINE new == [oid |-> tableId - 1, attrs |-> Keys(stmt.attrs)]
    <3>1. /\ stmt.kind = "create"
          /\ tables' = [n \in DOMAIN tables \cup {stmt.name} |->
                          IF n = stmt.name THEN new ELSE tables[n]]
      BY <2>2 DEF destorySysTable
    <3>2. tableId - 1 = StartId /\ sysFile' = StartId + 1
      BY <1>1, <1>2, <1>3, <3>1
    <3>3. new.oid = StartId BY <3>2
    <3>4. \A n \in DOMAIN tables : tables[n].oid # StartId
      BY <1>1 DEF IdInv, IdsOnce
    <3> HIDE DEF new
    <3>5. \A n \in DOMAIN tables' : tables'[n] = IF n = stmt.name THEN new ELSE tables[n]
      BY <3>1
    <3>6. DOMAIN tables' = DOMAIN tables \cup {stmt.name} BY <3>1
    <3>7. ASSUME NEW m \in DOMAIN tables', NEW n \in DOMAIN tables',
                 tables'[m].oid = tables'[n].oid
          PROVE  m = n
      BY <3>3, <3>4, <3>5, <3>6, <3>7 DEF IdInv, IdsOnce
    <3>8. ASSUME NEW n \in DOMAIN tables'
          PROVE  tables'[n].oid \in baseTableid .. sysFile' - 1
      <4>1. CASE n = stmt.name
        BY <1>1, <3>2, <3>3, <3>5, <4>1
      <4>2. CASE n # stmt.name
        BY <1>6, <3>5, <3>6, <4>2
      <4> QED BY <4>1, <4>2
    <3> QED BY <3>7, <3>8 DEF IdsOnce
  <2> QED BY <2>1, <2>2
<1> QED BY <1>4, <1>5, <1>7 DEF IdInv

-----------------------------------------------------------------------------

LEMMA StepKeepsIds == IdInv /\ [Next]_catVars => IdInv'
<1> SUFFICES ASSUME IdInv, [Next]_catVars PROVE IdInv' OBVIOUS
<1> USE CatalogAssumption DEF Creating, Dropping, ClosingPcs
<1>1. ASSUME NEW statement \in Statements, initSysTable(statement) PROVE IdInv'
  <2>1. IdsOnce' BY <1>1, SameTables DEF initSysTable, IdInv
  <2> QED BY <1>1, <2>1 DEF initSysTable, IdInv, ProcessId, StartId
<1>2. ASSUME Refused \/ Crash PROVE IdInv'
  <2>1. sysFile' = sysFile /\ tables' = tables /\ pc' = "none"
    BY <1>2 DEF Refused, Crash, Gone
  <2>2. IdsOnce' BY <2>1, SameTables DEF IdInv
  <2> QED BY <2>1, <2>2 DEF IdInv, ProcessId
<1>3. ASSUME analyze_CreateTable PROVE IdInv'
  <2>1. stmt'.kind # "drop"
    <3>1. CASE "kind" \in DOMAIN stmt
      BY <1>3, <3>1 DEF analyze_CreateTable
    <3>2. CASE "kind" \notin DOMAIN stmt
      BY <1>3, <3>2 DEF analyze_CreateTable
    <3> QED BY <3>1, <3>2
  <2>2. IdsOnce' BY <1>3, FewerTables DEF analyze_CreateTable, Accepted, IdInv
  <2> QED BY <1>3, <2>1, <2>2 DEF analyze_CreateTable, Accepted, IdInv, ProcessId, StartId
<1>4. ASSUME analyze_DropTable PROVE IdInv'
  <2>1. IdsOnce' BY <1>4, FewerTables DEF analyze_DropTable, Accepted, IdInv
  <2> QED BY <1>4, <2>1 DEF analyze_DropTable, Accepted, IdInv, ProcessId, StartId
<1>5. ASSUME InsertTableRow \/ InsertAttrRow PROVE IdInv'
  <2>1. /\ sysFile' = sysFile /\ tables' = tables /\ tableId' = tableId /\ stmt' = stmt
        /\ pc \in Creating /\ pc' \in Creating
    BY <1>5 DEF InsertTableRow, InsertAttrRow
  <2>2. IdsOnce' BY <2>1, SameTables DEF IdInv
  <2> QED BY <2>1, <2>2 DEF IdInv, ProcessId, StartId
<1>6. ASSUME Created PROVE IdInv'
  <2>1. IdsOnce' BY <1>6, SameTables DEF Created, IdInv
  <2> QED BY <1>6, <2>1 DEF Created, NextId, IdInv, ProcessId, StartId
<1>7. ASSUME DropBegins \/ execDropTable PROVE IdInv'
  <2>1. /\ sysFile' = sysFile /\ tables' = tables /\ tableId' = tableId /\ stmt' = stmt
        /\ pc \in Dropping /\ pc' \in Dropping \cup ClosingPcs
    BY <1>7 DEF DropBegins, execDropTable, Delete, ScanEnds
  <2>2. IdsOnce' BY <2>1, SameTables DEF IdInv
  <2> QED BY <2>1, <2>2 DEF IdInv, ProcessId, StartId
<1>8. ASSUME NEW s \in Sys, Rel_vDestoryRelation(s) PROVE IdInv'
  <2>1. /\ sysFile' = sysFile /\ tables' = tables /\ tableId' = tableId /\ stmt' = stmt
        /\ pc \in ClosingPcs /\ pc' \in ClosingPcs
    BY <1>8 DEF Rel_vDestoryRelation, Closing
  <2>2. IdsOnce' BY <2>1, SameTables DEF IdInv
  <2> QED BY <2>1, <2>2 DEF IdInv, ProcessId, StartId
<1>9. ASSUME UNCHANGED catVars PROVE IdInv'
  <2>1. IdsOnce' BY <1>9, SameTables DEF catVars, IdInv
  <2> QED BY <1>9, <2>1 DEF catVars, IdInv, ProcessId, StartId
<1> QED
  BY <1>1, <1>2, <1>3, <1>4, <1>5, <1>6, <1>7, <1>8, <1>9, EndKeepsIds DEF Next

\* No two tables that were created in order share an id, and the id that is saved
\* is above them all, whatever processes died before (sysinit.c:51-59, 75).
THEOREM IdsGivenOnce == Spec => []IdsOnce
<1>1. IdInv => IdsOnce BY DEF IdInv
<1> QED BY InitId, StepKeepsIds, <1>1, PTL DEF Spec

-----------------------------------------------------------------------------
\* Relations and their files

Blocks == 0 .. MaxBlk
Known(max) == IF IsValidBlockNumber(max) THEN 0 .. max ELSE {}

SysRows ==
  [table |-> [oid : Nat, name : Names, deleted : BOOLEAN],
   attr  |-> [oid : Nat, name : Names, deleted : BOOLEAN, key : STRING, attrno : Nat]]

\* The highest block number of a relation whose file has these blocks.
MaxOK(max, blocks) ==
  max = INValidBlockNumber \/ (max \in Blocks /\ 0 .. max \subseteq blocks)

\* A relation with rows from S, and its heap in the file: what the process appended
\* to the blocks that are known from the file are rows of one name.
RelOK(rel, file, name, S) ==
  /\ rel = [fsh |-> rel.fsh, max |-> rel.max, seen |-> rel.seen, disk |-> rel.disk]
  /\ rel.seen = [b \in DOMAIN rel.disk |-> rel.seen[b]]
  /\ rel.disk = [b \in DOMAIN rel.disk |-> rel.disk[b]]
  /\ DOMAIN rel.disk \subseteq Blocks
  /\ \A b \in DOMAIN rel.disk : rel.seen[b] \in Seq(S) /\ rel.disk[b] \in Seq(S)
  /\ MaxOK(rel.max, DOMAIN rel.disk) /\ MaxOK(file.max, DOMAIN rel.disk)
  /\ Known(file.max) \subseteq Known(rel.max)
  /\ DOMAIN rel.fsh \subseteq Known(rel.max) /\ DOMAIN file.fsh \subseteq Known(file.max)
  /\ \A b \in Known(rel.max) \ Known(file.max) :
       /\ \A i \in DOMAIN rel.seen[b] : rel.seen[b][i].name = name
       /\ \A i \in DOMAIN rel.disk[b] : rel.disk[b][i].name = name

\* The blocks known from the file are as in the file.
AsInFile(rel, file) == \A b \in Known(file.max) : rel.seen[b] = rel.disk[b]

LEMMA KnownBlocks ==
  ASSUME NEW max, NEW blocks, MaxOK(max, blocks)
  PROVE  /\ Known(max) \subseteq blocks /\ Known(max) \subseteq Blocks
         /\ Known(max) \subseteq Nat /\ max \in Nat
         /\ Known(max) = IF max = INValidBlockNumber THEN {} ELSE 0 .. max
         /\ max = INValidBlockNumber \/ max \in Blocks
<1>1. MaxBlk \in Nat /\ INValidBlockNumber \in Nat /\ MaxBlk < INValidBlockNumber
  BY CatalogAssumption, BlockAssumption
<1>2. CASE max = INValidBlockNumber
  BY <1>1, <1>2 DEF Known, IsValidBlockNumber
<1>3. CASE max # INValidBlockNumber
  <2>1. max \in 0 .. MaxBlk /\ 0 .. max \subseteq blocks BY <1>3 DEF MaxOK, Blocks
  <2>2. max < INValidBlockNumber /\ max \in Nat BY <1>1, <2>1
  <2>3. Known(max) = 0 .. max BY <2>2 DEF Known, IsValidBlockNumber
  <2>4. 0 .. max \subseteq 0 .. MaxBlk BY <1>1, <2>1
  <2> QED BY <1>3, <2>1, <2>2, <2>3, <2>4 DEF Blocks
<1> QED BY <1>2, <1>3

\* A relation is opened with what its files hold.
LEMMA OpenedOK ==
  ASSUME NEW rel, NEW file, NEW name, NEW S, NEW other, RelOK(rel, file, name, S)
  PROVE  LET new == Opened(rel.disk, file)
         IN  /\ RelOK(new, file, other, S) /\ AsInFile(new, file)
             /\ new.max = file.max /\ new.disk = rel.disk
BY DEF Opened, RelOK, AsInFile

-----------------------------------------------------------------------------
\* The calls that change a relation

LEMMA FlushedIs ==
  ASSUME NEW fsh, NEW max, NEW seen, NEW disk, NEW b
  PROVE  Flushed([fsh |-> fsh, max |-> max, seen |-> seen, disk |-> disk], b)
           = [fsh |-> fsh, max |-> max, seen |-> seen, disk |-> [disk EXCEPT ![b] = seen[b]]]
BY DEF Flushed

\* A block is appended behind the last one, whatever the file has there.
LEMMA BlockAppended ==
  ASSUME NEW rel, NEW file, NEW name, NEW S, RelOK(rel, file, name, S), AsInFile(rel, file),
         NextBlock(rel.max) \in Blocks
  PROVE  LET new == Rel_AppendNewBlock(rel)
             b   == NextBlock(rel.max)
         IN  /\ RelOK(new, file, name, S) /\ AsInFile(new, file)
             /\ new.max = b /\ b \notin Known(rel.max)
             /\ Known(new.max) = Known(rel.max) \cup {b}
             /\ DOMAIN new.disk = DOMAIN rel.disk \cup {b}
             /\ DOMAIN new.fsh = DOMAIN rel.fsh \cup {b}
             /\ new.seen[b] = <<>> /\ new.disk[b] = <<>>
             /\ \A c \in Known(rel.max) : new.seen[c] = rel.seen[c] /\ new.disk[c] = rel.disk[c]
<1> DEFINE new == Rel_AppendNewBlock(rel)
           b == NextBlock(rel.max)
           blocks == DOMAIN rel.disk
<1>1. /\ Known(rel.max) \subseteq blocks /\ Known(rel.max) \subseteq Nat /\ rel.max \in Nat
      /\ Known(rel.max) = IF rel.max = INValidBlockNumber THEN {} ELSE 0 .. rel.max
      /\ rel.max = INValidBlockNumber \/ rel.max \in Blocks
  BY KnownBlocks DEF RelOK
<1>2. MaxBlk \in Nat /\ INValidBlockNumber \in Nat /\ MaxBlk < INValidBlockNumber
  BY CatalogAssumption, BlockAssumption
<1>3. b = IF rel.max = INValidBlockNumber THEN 0 ELSE rel.max + 1
  <2>1. rel.max \in Blocks => rel.max < INValidBlockNumber /\ rel.max # INValidBlockNumber
    BY <1>2 DEF Blocks
  <2> QED BY <1>1, <1>2, <2>1 DEF NextBlock, IsValidBlockNumber
<1>4. b \in 0 .. MaxBlk /\ b < INValidBlockNumber /\ b # INValidBlockNumber /\ b \in Nat
  BY <1>2 DEF Blocks
<1>5. Known(b) = Known(rel.max) \cup {b} /\ b \notin Known(rel.max)
  <2>1. Known(b) = 0 .. b BY <1>4 DEF Known, IsValidBlockNumber
  <2> QED BY <1>1, <1>3, <2>1
<1>6. new = [fsh |-> Set(rel.fsh, b, Cap), max |-> b,
             seen |-> Set(rel.seen, b, <<>>), disk |-> Set(rel.disk, b, <<>>)]
  BY DEF Rel_AppendNewBlock
<1> HIDE DEF new, b
<1>7. DOMAIN rel.seen = blocks
  <2>1. rel.seen = [c \in blocks |-> rel.seen[c]] BY DEF RelOK
  <2> QED BY <2>1
<1>8. /\ new.seen = [c \in blocks \cup {b} |-> IF c = b THEN <<>> ELSE rel.seen[c]]
      /\ new.disk = [c \in blocks \cup {b} |-> IF c = b THEN <<>> ELSE rel.disk[c]]
      /\ new.max = b /\ DOMAIN new.fsh = DOMAIN rel.fsh \cup {b}
  BY <1>6, <1>7 DEF Set
<1>9. DOMAIN new.disk = blocks \cup {b} BY <1>8
<1>10. \A c \in blocks \cup {b} : new.seen[c] \in Seq(S) /\ new.disk[c] \in Seq(S)
  BY <1>8 DEF RelOK
<1>11. \A c \in Known(rel.max) : new.seen[c] = rel.seen[c] /\ new.disk[c] = rel.disk[c]
  BY <1>1, <1>5, <1>8
<1>12. MaxOK(new.max, DOMAIN new.disk) /\ MaxOK(file.max, DOMAIN new.disk)
  <2>1. 0 .. b \subseteq blocks \cup {b} BY <1>1, <1>3, <1>4
  <2>2. MaxOK(file.max, blocks) BY DEF RelOK
  <2> QED BY <1>4, <1>8, <1>9, <2>1, <2>2 DEF MaxOK, Blocks
<1>13. AsInFile(new, file)
  BY <1>11 DEF AsInFile, RelOK
<1>14. RelOK(new, file, name, S)
  <2>1. new = [fsh |-> new.fsh, max |-> new.max, seen |-> new.seen, disk |-> new.disk]
    BY <1>6
  <2>2. /\ new.seen = [c \in DOMAIN new.disk |-> new.seen[c]]
        /\ new.disk = [c \in DOMAIN new.disk |-> new.disk[c]]
    BY <1>8
  <2>3. DOMAIN new.disk \subseteq Blocks BY <1>4, <1>9 DEF RelOK, Blocks
  <2>4. /\ Known(file.max) \subseteq Known(new.max) /\ DOMAIN new.fsh \subseteq Known(new.max)
        /\ DOMAIN file.fsh \subseteq Known(file.max)
    BY <1>5, <1>8 DEF RelOK
  <2>5. ASSUME NEW c \in Known(new.max) \ Known(file.max)
        PROVE  /\ \A i \in DOMAIN new.seen[c] : new.seen[c][i].name = name
               /\ \A i \in DOMAIN new.disk[c] : new.disk[c][i].name = name
    <3>1. CASE c = b
      <4>1. new.seen[c] = <<>> /\ new.disk[c] = <<>> BY <1>8, <3>1
      <4>2. DOMAIN new.seen[c] = {} /\ DOMAIN new.disk[c] = {} BY <4>1
      <4> QED BY <4>2
    <3>2. CASE c # b
      <4>1. c \in Known(rel.max) \ Known(file.max) BY <1>5, <1>8, <3>2
      <4>2. new.seen[c] = rel.seen[c] /\ new.disk[c] = rel.disk[c] BY <1>11, <4>1
      <4>3. /\ \A i \in DOMAIN rel.seen[c] : rel.seen[c][i].name = name
            /\ \A i \in DOMAIN rel.disk[c] : rel.disk[c][i].name = name
        BY <4>1 DEF RelOK
      <4> QED BY <4>2, <4>3, Zenon
    <3> QED BY <3>1, <3>2
  <2> QED BY <1>9, <1>10, <1>12, <2>1, <2>2, <2>3, <2>4, <2>5 DEF RelOK
<1>15. new.seen[b] = <<>> /\ new.disk[b] = <<>> BY <1>8
<1> QED BY <1>5, <1>8, <1>9, <1>11, <1>13, <1>14, <1>15 DEF new, b

\* The heap gives a block that is known.
LEMMA TakenOK ==
  ASSUME NEW rel, NEW file, NEW name, NEW S, RelOK(rel, file, name, S), AsInFile(rel, file),
         NEW b \in DOMAIN rel.fsh
  PROVE  LET new == Taken(rel, b)
         IN  /\ RelOK(new, file, name, S) /\ AsInFile(new, file)
             /\ new.max = rel.max /\ new.seen = rel.seen /\ new.disk = rel.disk
             /\ b \in Known(rel.max)
<1> DEFINE heap == IF rel.fsh[b] = 1 THEN Restrict(rel.fsh, DOMAIN rel.fsh \ {b})
                                     ELSE [rel.fsh EXCEPT ![b] = @ - 1]
           new == Taken(rel, b)
<1>1. DOMAIN heap \subseteq DOMAIN rel.fsh BY DEF Restrict
<1>2. new = [rel EXCEPT !.fsh = heap] BY DEF Taken
<1> HIDE DEF heap, new
<1>3. rel = [fsh |-> rel.fsh, max |-> rel.max, seen |-> rel.seen, disk |-> rel.disk]
  BY DEF RelOK
<1>4. new = [fsh |-> heap, max |-> rel.max, seen |-> rel.seen, disk |-> rel.disk]
  BY <1>2, <1>3
<1>5. new.fsh = heap /\ new.max = rel.max /\ new.seen = rel.seen /\ new.disk = rel.disk
  BY <1>4
<1>6. RelOK(new, file, name, S)
  BY <1>1, <1>4, <1>5 DEF RelOK
<1> QED BY <1>5, <1>6 DEF new, AsInFile, RelOK

\* A block is set in the buffers, and another one written.
SetAndFlushed(rel, b, x, c) == Flushed([rel EXCEPT !.seen[b] = x], c)

LEMMA SetAndFlushedIs ==
  ASSUME NEW rel, NEW b, NEW c, NEW x,
         rel = [fsh |-> rel.fsh, max |-> rel.max, seen |-> rel.seen, disk |-> rel.disk]
  PROVE  SetAndFlushed(rel, b, x, c) =
           [fsh |-> rel.fsh, max |-> rel.max, seen |-> [rel.seen EXCEPT ![b] = x],
            disk |-> [rel.disk EXCEPT ![c] = [rel.seen EXCEPT ![b] = x][c]]]
<1> DEFINE seen == [rel.seen EXCEPT ![b] = x]
           put == [rel EXCEPT !.seen[b] = x]
<1>1. put = [fsh |-> rel.fsh, max |-> rel.max, seen |-> seen, disk |-> rel.disk]
  <2>1. put = [rel EXCEPT !.seen = seen] OBVIOUS
  <2> HIDE DEF put, seen
  <2> QED BY <2>1, Zenon
<1>2. SetAndFlushed(rel, b, x, c) = Flushed(put, c) BY DEF SetAndFlushed
<1> HIDE DEF put, seen
<1>3. SetAndFlushed(rel, b, x, c) =
        [fsh |-> rel.fsh, max |-> rel.max, seen |-> seen,
         disk |-> [rel.disk EXCEPT ![c] = seen[c]]]
  BY <1>1, <1>2, FlushedIs
<1> QED BY <1>3 DEF seen

AllNamed(list, name) == \A i \in DOMAIN list : list[i].name = name

\* new is rel with list in a block.
IsSet(rel, file, name, S, b, list, new) ==
  /\ RelOK(new, file, name, S) /\ AsInFile(new, file)
  /\ new.max = rel.max /\ new.fsh = rel.fsh
  /\ new.seen = [rel.seen EXCEPT ![b] = list]
  /\ new.disk = [rel.disk EXCEPT ![b] = list]

\* A known block may get other rows, if they have the name or the block is known from
\* the file.
LEMMA BlockSet ==
  ASSUME NEW rel, NEW file, NEW name, NEW S, RelOK(rel, file, name, S), AsInFile(rel, file),
         NEW b \in Known(rel.max), NEW list \in Seq(S),
         b \in Known(file.max) \/ AllNamed(list, name)
  PROVE  IsSet(rel, file, name, S, b, list, SetAndFlushed(rel, b, list, b))
<1> DEFINE blocks == DOMAIN rel.disk
           new == SetAndFlushed(rel, b, list, b)
<1>1. Known(rel.max) \subseteq blocks BY KnownBlocks DEF RelOK
<1>2. b \in blocks BY <1>1
<1>3. /\ rel = [fsh |-> rel.fsh, max |-> rel.max, seen |-> rel.seen, disk |-> rel.disk]
      /\ rel.seen = [c \in blocks |-> rel.seen[c]] /\ rel.disk = [c \in blocks |-> rel.disk[c]]
  BY DEF RelOK
<1>4. [rel.seen EXCEPT ![b] = list][b] = list BY <1>2, <1>3
<1>5. new = [fsh |-> rel.fsh, max |-> rel.max, seen |-> [rel.seen EXCEPT ![b] = list],
             disk |-> [rel.disk EXCEPT ![b] = list]]
  <2>1. new = [fsh |-> rel.fsh, max |-> rel.max, seen |-> [rel.seen EXCEPT ![b] = list],
               disk |-> [rel.disk EXCEPT ![b] = [rel.seen EXCEPT ![b] = list][b]]]
    BY <1>3, SetAndFlushedIs
  <2> HIDE DEF new
  <2> QED BY <1>4, <2>1, Zenon
<1> HIDE DEF new
<1>6. /\ new.seen = [c \in blocks |-> IF c = b THEN list ELSE rel.seen[c]]
      /\ new.disk = [c \in blocks |-> IF c = b THEN list ELSE rel.disk[c]]
      /\ new.max = rel.max /\ new.fsh = rel.fsh
  BY <1>3, <1>5
<1>7. DOMAIN new.disk = blocks BY <1>6
<1>8. AsInFile(new, file)
  <2>1. ASSUME NEW c \in Known(file.max) PROVE new.seen[c] = new.disk[c]
    <3>1. c \in blocks /\ rel.seen[c] = rel.disk[c] BY <1>1 DEF AsInFile, RelOK
    <3> QED BY <1>6, <3>1
  <2> QED BY <2>1 DEF AsInFile
<1>9. ASSUME NEW c \in Known(rel.max) \ Known(file.max)
      PROVE  /\ \A i \in DOMAIN new.seen[c] : new.seen[c][i].name = name
             /\ \A i \in DOMAIN new.disk[c] : new.disk[c][i].name = name
  <2>1. /\ \A i \in DOMAIN rel.seen[c] : rel.seen[c][i].name = name
        /\ \A i \in DOMAIN rel.disk[c] : rel.disk[c][i].name = name
    BY DEF RelOK
  <2>2. CASE c = b
    <3>1. new.seen[c] = list /\ new.disk[c] = list BY <1>2, <1>6, <2>2
    <3>2. \A i \in DOMAIN list : list[i].name = name BY <2>2 DEF AllNamed
    <3> QED BY <3>1, <3>2, Zenon
  <2>3. CASE c # b
    <3>1. c \in blocks BY <1>1
    <3>2. new.seen[c] = rel.seen[c] /\ new.disk[c] = rel.disk[c] BY <1>6, <2>3, <3>1
    <3> QED BY <2>1, <3>2, Zenon
  <2> QED BY <2>2, <2>3
<1>10. RelOK(new, file, name, S)
  <2>1. new = [fsh |-> new.fsh, max |-> new.max, seen |-> new.seen, disk |-> new.disk]
    BY <1>5
  <2>2. \A c \in blocks : new.seen[c] \in Seq(S) /\ new.disk[c] \in Seq(S)
    BY <1>6 DEF RelOK
  <2> QED BY <1>6, <1>7, <1>9, <2>1, <2>2 DEF RelOK
<1>11. new.seen = [rel.seen EXCEPT ![b] = list] /\ new.disk = [rel.disk EXCEPT ![b] = list]
  BY <1>5
<1> HIDE DEF blocks, new
<1> QED BY <1>6, <1>7, <1>8, <1>10, <1>11 DEF blocks, new, IsSet

\* A row of the name is put into a known block.
LEMMA RowPut ==
  ASSUME NEW rel, NEW file, NEW name, NEW S, RelOK(rel, file, name, S), AsInFile(rel, file),
         NEW b \in Known(rel.max), NEW row \in S, row.name = name,
         NEW new, new = SetAndFlushed(rel, b, Append(rel.seen[b], row), b)
  PROVE  /\ RelOK(new, file, name, S) /\ AsInFile(new, file)
         /\ new.max = rel.max
         /\ new.seen = [rel.seen EXCEPT ![b] = Append(rel.seen[b], row)]
<1> DEFINE list == Append(rel.seen[b], row)
<1>1. b \in DOMAIN rel.disk BY KnownBlocks DEF RelOK
<1>2. rel.seen[b] \in Seq(S) BY <1>1 DEF RelOK
<1>3. list \in Seq(S) BY <1>2
<1>4. \A i \in DOMAIN list : list[i] = row \/ (i \in DOMAIN rel.seen[b] /\ list[i] = rel.seen[b][i])
  BY <1>2
<1>5. b \in Known(file.max) \/ AllNamed(list, name)
  <2> HIDE DEF list
  <2> SUFFICES ASSUME b \notin Known(file.max) PROVE \A i \in DOMAIN list : list[i].name = name
    BY DEF AllNamed
  <2>1. \A i \in DOMAIN rel.seen[b] : rel.seen[b][i].name = name BY DEF RelOK
  <2> QED BY <1>4, <2>1
<1>6. new = SetAndFlushed(rel, b, list, b) OBVIOUS
<1> HIDE DEF list
<1>7. IsSet(rel, file, name, S, b, list, SetAndFlushed(rel, b, list, b))
  BY <1>3, <1>5, BlockSet
<1> QED BY <1>6, <1>7 DEF list, IsSet

\* The new block of an insert that found no room gets the row in its buffer only.
LEMMA RowInNewBlock ==
  ASSUME NEW rel, NEW file, NEW name, NEW S, RelOK(rel, file, name, S), AsInFile(rel, file),
         NEW b \in Known(rel.max), NEW row \in S, row.name = name,
         NextBlock(rel.max) \in Blocks
  PROVE  LET grown == Rel_AppendNewBlock(rel)
             m     == NextBlock(rel.max)
             new   == Flushed([grown EXCEPT !.seen[grown.max] = <<row>>], b)
         IN  /\ RelOK(new, file, name, S) /\ AsInFile(new, file)
             /\ new.max = m /\ m \notin Known(rel.max) /\ Known(m) = Known(rel.max) \cup {m}
             /\ new.seen[m] = <<row>>
             /\ \A c \in Known(rel.max) : new.seen[c] = rel.seen[c]
<1> DEFINE grown == Rel_AppendNewBlock(rel)
           m == NextBlock(rel.max)
           new == Flushed([grown EXCEPT !.seen[grown.max] = <<row>>], b)
           blocks == DOMAIN grown.disk
<1>1. /\ RelOK(grown, file, name, S) /\ AsInFile(grown, file)
      /\ grown.max = m /\ m \notin Known(rel.max)
      /\ Known(m) = Known(rel.max) \cup {m}
      /\ blocks = DOMAIN rel.disk \cup {m}
      /\ \A c \in Known(rel.max) : grown.seen[c] = rel.seen[c] /\ grown.disk[c] = rel.disk[c]
      /\ grown.disk[m] = <<>>
  BY BlockAppended
<1>2. Known(rel.max) \subseteq DOMAIN rel.disk BY KnownBlocks DEF RelOK
<1>3. b \in blocks /\ m \in blocks /\ b # m BY <1>1, <1>2
<1> HIDE DEF grown, m, blocks
<1>4. /\ grown = [fsh |-> grown.fsh, max |-> grown.max, seen |-> grown.seen, disk |-> grown.disk]
      /\ grown.seen = [c \in blocks |-> grown.seen[c]]
      /\ grown.disk = [c \in blocks |-> grown.disk[c]]
  BY <1>1 DEF RelOK, blocks
<1>5. new = [fsh |-> grown.fsh, max |-> m, seen |-> [grown.seen EXCEPT ![m] = <<row>>],
             disk |-> [grown.disk EXCEPT ![b] = [grown.seen EXCEPT ![m] = <<row>>][b]]]
  <2>1. new = SetAndFlushed(grown, m, <<row>>, b) BY <1>1 DEF SetAndFlushed
  <2> HIDE DEF new
  <2>2. new = [fsh |-> grown.fsh, max |-> grown.max, seen |-> [grown.seen EXCEPT ![m] = <<row>>],
               disk |-> [grown.disk EXCEPT ![b] = [grown.seen EXCEPT ![m] = <<row>>][b]]]
    BY <1>4, <2>1, SetAndFlushedIs
  <2> QED BY <1>1, <2>2, Zenon
<1>6. [grown.seen EXCEPT ![m] = <<row>>][b] = grown.seen[b] BY <1>3, <1>4
<1> HIDE DEF new
<1>7. /\ new.seen = [c \in blocks |-> IF c = m THEN <<row>> ELSE grown.seen[c]]
      /\ new.disk = [c \in blocks |-> IF c = b THEN grown.seen[b] ELSE grown.disk[c]]
      /\ new.max = m /\ new.fsh = grown.fsh
  BY <1>4, <1>5, <1>6
<1>8. DOMAIN new.disk = blocks BY <1>7
<1>9. new.seen[m] = <<row>> BY <1>3, <1>7
<1>10. \A c \in Known(rel.max) : new.seen[c] = rel.seen[c]
  BY <1>1, <1>2, <1>7 DEF blocks
<1>11. AsInFile(new, file)
  <2>1. ASSUME NEW c \in Known(file.max) PROVE new.seen[c] = new.disk[c]
    <3>1. c \in Known(rel.max) BY DEF RelOK
    <3>2. c \in blocks /\ c # m /\ grown.seen[c] = grown.disk[c]
      BY <1>1, <1>2, <3>1 DEF AsInFile
    <3> QED BY <1>7, <3>2
  <2> QED BY <2>1 DEF AsInFile
<1>12. ASSUME NEW c \in Known(m) \ Known(file.max)
       PROVE  /\ \A i \in DOMAIN new.seen[c] : new.seen[c][i].name = name
              /\ \A i \in DOMAIN new.disk[c] : new.disk[c][i].name = name
  <2>1. /\ \A i \in DOMAIN grown.seen[c] : grown.seen[c][i].name = name
        /\ \A i \in DOMAIN grown.disk[c] : grown.disk[c][i].name = name
    BY <1>1 DEF RelOK
  <2>2. c \in blocks BY <1>1, <1>2
  <2>3. CASE c = m
    <3>1. new.seen[c] = <<row>> /\ new.disk[c] = <<>> BY <1>1, <1>3, <1>7, <2>2, <2>3
    <3>2. /\ \A i \in DOMAIN <<row>> : <<row>>[i].name = name
          /\ DOMAIN <<>> = {}
      OBVIOUS
    <3> QED BY <3>1, <3>2
  <2>4. CASE c # m /\ c # b
    <3>1. new.seen[c] = grown.seen[c] /\ new.disk[c] = grown.disk[c] BY <1>7, <2>2, <2>4
    <3> QED BY <2>1, <3>1, Zenon
  <2>5. CASE c # m /\ c = b
    <3>1. new.seen[c] = grown.seen[c] /\ new.disk[c] = grown.seen[c] BY <1>7, <2>2, <2>5
    <3> QED BY <2>1, <3>1, Zenon
  <2> QED BY <2>3, <2>4, <2>5
<1>13. RelOK(new, file, name, S)
  <2>1. new = [fsh |-> new.fsh, max |-> new.max, seen |-> new.seen, disk |-> new.disk]
    BY <1>5
  <2>2. \A c \in blocks : new.seen[c] \in Seq(S) /\ new.disk[c] \in Seq(S)
    <3>1. <<row>> \in Seq(S) OBVIOUS
    <3>2. \A c \in blocks : grown.seen[c] \in Seq(S) /\ grown.disk[c] \in Seq(S)
      BY <1>1 DEF RelOK, blocks
    <3> QED BY <1>3, <1>7, <3>1, <3>2
  <2>3. /\ blocks \subseteq Blocks /\ MaxOK(m, blocks) /\ MaxOK(file.max, blocks)
        /\ Known(file.max) \subseteq Known(m) /\ DOMAIN grown.fsh \subseteq Known(m)
        /\ DOMAIN file.fsh \subseteq Known(file.max)
    BY <1>1 DEF RelOK, blocks
  <2> QED BY <1>7, <1>8, <1>12, <2>1, <2>2, <2>3 DEF RelOK
<1> QED BY <1>1, <1>7, <1>9, <1>10, <1>11, <1>13 DEF new, grown, m

\* A row was put behind the others of one block, which may be new; the other blocks
\* are as they were.
PutRow(rel, new, row) ==
  /\ Known(rel.max) \subseteq Known(new.max)
  /\ \E b \in Known(new.max) :
       /\ new.seen[b] = IF b \in Known(rel.max) THEN Append(rel.seen[b], row) ELSE <<row>>
       /\ \A c \in Known(rel.max) \ {b} : new.seen[c] = rel.seen[c]
       /\ Known(new.max) \subseteq Known(rel.max) \cup {b}

LEMMA InsertedOK ==
  ASSUME NEW rel, NEW file, NEW name, NEW S, RelOK(rel, file, name, S), AsInFile(rel, file),
         NEW b \in Known(rel.max), NEW row \in S, row.name = name,
         DOMAIN Inserted(rel, b, row).seen \subseteq Blocks
  PROVE  LET new == Inserted(rel, b, row)
         IN  RelOK(new, file, name, S) /\ AsInFile(new, file) /\ PutRow(rel, new, row)
<1> DEFINE new == Inserted(rel, b, row)
<1>0. /\ DOMAIN rel.seen = DOMAIN rel.disk /\ Known(rel.max) \subseteq DOMAIN rel.disk
      /\ b \in DOMAIN rel.seen
  <2>1. rel.seen = [c \in DOMAIN rel.disk |-> rel.seen[c]] BY DEF RelOK
  <2>2. DOMAIN rel.seen = DOMAIN rel.disk BY <2>1
  <2>3. Known(rel.max) \subseteq DOMAIN rel.disk BY KnownBlocks DEF RelOK
  <2> QED BY <2>2, <2>3
<1>1. CASE Len(rel.seen[b]) < Cap
  <2>1. new = SetAndFlushed(rel, b, Append(rel.seen[b], row), b)
    BY <1>1 DEF Inserted, SetAndFlushed
  <2> HIDE DEF new
  <2>2. /\ RelOK(new, file, name, S) /\ AsInFile(new, file)
        /\ new.max = rel.max
        /\ new.seen = [rel.seen EXCEPT ![b] = Append(rel.seen[b], row)]
    BY <2>1, RowPut
  <2>3. new.seen[b] = Append(rel.seen[b], row) BY <1>0, <2>2
  <2>4. \A c \in Known(rel.max) \ {b} : new.seen[c] = rel.seen[c] BY <1>0, <2>2
  <2>5. PutRow(rel, new, row) BY <2>2, <2>3, <2>4 DEF PutRow
  <2> QED BY <2>2, <2>5 DEF new
<1>2. CASE ~(Len(rel.seen[b]) < Cap)
  <2> DEFINE grown == Rel_AppendNewBlock(rel)
             m == NextBlock(rel.max)
  <2>1. new = Flushed([grown EXCEPT !.seen[grown.max] = <<row>>], b) BY <1>2 DEF Inserted
  <2>2. m \in Blocks
    <3>1. grown = [fsh |-> grown.fsh, max |-> grown.max, seen |-> grown.seen, disk |-> grown.disk]
      BY DEF Rel_AppendNewBlock
    <3>2. m \in DOMAIN grown.seen BY DEF Rel_AppendNewBlock, Set
    <3>3. new = SetAndFlushed(grown, grown.max, <<row>>, b) BY <2>1 DEF SetAndFlushed
    <3> HIDE DEF grown, m, new
    <3>4. new.seen = [grown.seen EXCEPT ![grown.max] = <<row>>]
      <4>1. new = [fsh |-> grown.fsh, max |-> grown.max,
                   seen |-> [grown.seen EXCEPT ![grown.max] = <<row>>],
                   disk |-> [grown.disk EXCEPT ![b] = [grown.seen EXCEPT ![grown.max] = <<row>>][b]]]
        BY <3>1, <3>3, SetAndFlushedIs
      <4> QED BY <4>1
    <3>5. m \in DOMAIN new.seen BY <3>2, <3>4
    <3> QED BY <3>5 DEF new
  <2> HIDE DEF new
  <2>3. /\ RelOK(new, file, name, S) /\ AsInFile(new, file)
        /\ new.max = m /\ m \notin Known(rel.max) /\ Known(m) = Known(rel.max) \cup {m}
        /\ new.seen[m] = <<row>>
        /\ \A c \in Known(rel.max) : new.seen[c] = rel.seen[c]
    BY <2>1, <2>2, RowInNewBlock
  <2> HIDE DEF m
  <2>4. PutRow(rel, new, row) BY <2>3 DEF PutRow
  <2> QED BY <2>3, <2>4 DEF new
<1> QED BY <1>1, <1>2

\* Tup_vInsert as a whole.
LEMMA InsertOK ==
  ASSUME NEW rel, NEW file, NEW name, NEW S, RelOK(rel, file, name, S), AsInFile(rel, file),
         NEW got \in Rel_GetBlockToInsert(rel), NEW row \in S, row.name = name,
         DOMAIN Inserted(got[2], got[1], row).seen \subseteq Blocks
  PROVE  LET new == Inserted(got[2], got[1], row)
         IN  RelOK(new, file, name, S) /\ AsInFile(new, file) /\ PutRow(rel, new, row)
<1> DEFINE grown == IF DOMAIN rel.fsh = {} THEN Rel_AppendNewBlock(rel) ELSE rel
<1>1. PICK b \in DOMAIN grown.fsh : got = <<b, Taken(grown, b)>>
  BY DEF Rel_GetBlockToInsert
<1> DEFINE tbl == Taken(grown, b)
           new == Inserted(tbl, b, row)
<1>2. got[1] = b /\ got[2] = tbl BY <1>1
<1>3. new = Inserted(got[2], got[1], row) /\ DOMAIN new.seen \subseteq Blocks
  BY <1>2
<1>4. CASE DOMAIN rel.fsh # {}
  <2>1. grown = rel BY <1>4
  <2> HIDE DEF grown
  <2>2. /\ RelOK(tbl, file, name, S) /\ AsInFile(tbl, file)
        /\ tbl.max = rel.max /\ tbl.seen = rel.seen
        /\ b \in Known(tbl.max)
    BY <2>1, TakenOK
  <2> HIDE DEF tbl
  <2>3. RelOK(new, file, name, S) /\ AsInFile(new, file) /\ PutRow(tbl, new, row)
    BY <1>3, <2>2, InsertedOK
  <2> HIDE DEF new
  <2>4. PutRow(rel, new, row) BY <2>2, <2>3 DEF PutRow
  <2> QED BY <1>3, <2>3, <2>4
<1>5. CASE DOMAIN rel.fsh = {}
  <2> DEFINE m == NextBlock(rel.max)
  <2>1. grown = Rel_AppendNewBlock(rel) BY <1>5
  <2>2. m \in Blocks
    <3>1. m \in DOMAIN grown.seen
      <4>1. m \in DOMAIN Rel_AppendNewBlock(rel).seen BY DEF Rel_AppendNewBlock, Set
      <4> QED BY <2>1, <4>1
    <3>2. grown = [fsh |-> grown.fsh, max |-> grown.max, seen |-> grown.seen, disk |-> grown.disk]
      BY <2>1 DEF Rel_AppendNewBlock
    <3>3. /\ tbl.seen = grown.seen
          /\ tbl = [fsh |-> tbl.fsh, max |-> tbl.max, seen |-> tbl.seen, disk |-> tbl.disk]
      <4> DEFINE heap == IF grown.fsh[b] = 1 THEN Restrict(grown.fsh, DOMAIN grown.fsh \ {b})
                                             ELSE [grown.fsh EXCEPT ![b] = @ - 1]
      <4>1. tbl = [grown EXCEPT !.fsh = heap] BY DEF Taken
      <4> HIDE DEF heap, tbl, grown
      <4>2. tbl = [fsh |-> heap, max |-> grown.max, seen |-> grown.seen, disk |-> grown.disk]
        BY <3>2, <4>1
      <4> QED BY <4>2
    <3>4. DOMAIN tbl.seen \subseteq DOMAIN new.seen
      <4>1. CASE Len(tbl.seen[b]) < Cap
        <5> DEFINE list == Append(tbl.seen[b], row)
        <5>1. new = SetAndFlushed(tbl, b, list, b) BY <4>1 DEF Inserted, SetAndFlushed
        <5> HIDE DEF new, tbl, list
        <5>2. new = [fsh |-> tbl.fsh, max |-> tbl.max, seen |-> [tbl.seen EXCEPT ![b] = list],
                     disk |-> [tbl.disk EXCEPT ![b] = [tbl.seen EXCEPT ![b] = list][b]]]
          BY <3>3, <5>1, SetAndFlushedIs
        <5> QED BY <5>2
      <4>2. CASE ~(Len(tbl.seen[b]) < Cap)
        <5> DEFINE more == Rel_AppendNewBlock(tbl)
        <5>1. new = SetAndFlushed(more, more.max, <<row>>, b)
          BY <4>2 DEF Inserted, SetAndFlushed
        <5>2. /\ more = [fsh |-> more.fsh, max |-> more.max, seen |-> more.seen, disk |-> more.disk]
              /\ DOMAIN tbl.seen \subseteq DOMAIN more.seen
          BY DEF Rel_AppendNewBlock, Set
        <5> HIDE DEF new, more, tbl
        <5>3. new = [fsh |-> more.fsh, max |-> more.max,
                     seen |-> [more.seen EXCEPT ![more.max] = <<row>>],
                     disk |-> [more.disk EXCEPT ![b] =
                                 [more.seen EXCEPT ![more.max] = <<row>>][b]]]
          BY <5>1, <5>2, SetAndFlushedIs
        <5> QED BY <5>2, <5>3
      <4> QED BY <4>1, <4>2
    <3> HIDE DEF new, tbl, m, grown
    <3> QED BY <1>3, <3>1, <3>3, <3>4
  <2>3. /\ RelOK(grown, file, name, S) /\ AsInFile(grown, file)
        /\ grown.max = m /\ m \notin Known(rel.max)
        /\ Known(grown.max) = Known(rel.max) \cup {m}
        /\ DOMAIN grown.fsh = DOMAIN rel.fsh \cup {m}
        /\ grown.seen[m] = <<>>
        /\ \A c \in Known(rel.max) : grown.seen[c] = rel.seen[c]
    BY <2>1, <2>2, BlockAppended
  <2> HIDE DEF grown, m
  <2>4. b = m BY <1>5, <2>3
  <2>5. /\ RelOK(tbl, file, name, S) /\ AsInFile(tbl, file)
        /\ tbl.max = grown.max /\ tbl.seen = grown.seen
        /\ b \in Known(tbl.max)
    BY <2>3, TakenOK
  <2> HIDE DEF tbl
  <2>6. RelOK(new, file, name, S) /\ AsInFile(new, file)
    BY <1>3, <2>5, InsertedOK
  <2>7. Len(tbl.seen[b]) < Cap
    <3>1. Len(<<>>) = 0 /\ Cap \in Nat \ {0} BY BlockAssumption
    <3> QED BY <2>3, <2>4, <2>5, <3>1
  <2>8. /\ new.max = tbl.max
        /\ new.seen = [tbl.seen EXCEPT ![b] = Append(tbl.seen[b], row)]
    <3>1. new = SetAndFlushed(tbl, b, Append(tbl.seen[b], row), b)
      BY <2>7 DEF Inserted, SetAndFlushed
    <3> HIDE DEF new
    <3> QED BY <2>5, <3>1, RowPut
  <2>9. PutRow(rel, new, row)
    <3>1. Append(<<>>, row) = <<row>> OBVIOUS
    <3>2. Known(tbl.max) \subseteq DOMAIN tbl.seen
      <4>1. Known(tbl.max) \subseteq DOMAIN tbl.disk BY <2>5, KnownBlocks DEF RelOK
      <4>2. tbl.seen = [c \in DOMAIN tbl.disk |-> tbl.seen[c]] BY <2>5 DEF RelOK
      <4> QED BY <4>1, <4>2
    <3> HIDE DEF new
    <3>3. new.seen[b] = <<row>>
      <4>1. tbl.seen[b] = <<>> BY <2>3, <2>4, <2>5
      <4>2. new.seen[b] = Append(tbl.seen[b], row) BY <2>5, <2>8, <3>2
      <4> QED BY <3>1, <4>1, <4>2
    <3>4. ASSUME NEW c \in Known(rel.max) PROVE c # b /\ new.seen[c] = rel.seen[c]
      <4>1. c # b /\ c \in Known(tbl.max) BY <2>3, <2>4, <2>5
      <4> QED BY <2>3, <2>5, <2>8, <3>2, <4>1
    <3> QED BY <2>3, <2>4, <2>5, <2>8, <3>3, <3>4 DEF PutRow
  <2> HIDE DEF new
  <2> QED BY <1>3, <2>6, <2>9
<1> QED BY <1>4, <1>5

-----------------------------------------------------------------------------
\* The rows of a name

\* The rows of a name in a block, with their places.
NamedAt(list, name) ==
  {<<i, list[i]>> : i \in {j \in DOMAIN list : ~list[j].deleted /\ list[j].name = name}}

\* The same in all known blocks.
RowsIn(disk, max, name) ==
  UNION {{<<b, x[1], x[2]>> : x \in NamedAt(disk[b], name)} : b \in Known(max)}

LEMMA AppendOther ==
  ASSUME NEW S, NEW list \in Seq(S), NEW row, NEW name, row.name # name
  PROVE  NamedAt(Append(list, row), name) = NamedAt(list, name)
<1> DEFINE more == Append(list, row)
<1>1. /\ DOMAIN list = 1 .. Len(list) /\ DOMAIN more = 1 .. Len(list) + 1 /\ Len(list) \in Nat
      /\ \A i \in DOMAIN list : more[i] = list[i]
      /\ more[Len(list) + 1] = row
  BY AppendProperties
<1> QED BY <1>1 DEF NamedAt

\* The row at a place with its flag set.
FlaggedAt(list, i) == [list EXCEPT ![i].deleted = TRUE]

LEMMA FlaggedAtIs ==
  ASSUME NEW s \in Sys, NEW list \in Seq(SysRows[s]), NEW i \in DOMAIN list
  PROVE  /\ FlaggedAt(list, i) \in Seq(SysRows[s])
         /\ DOMAIN FlaggedAt(list, i) = DOMAIN list
         /\ \A j \in DOMAIN list : j # i => FlaggedAt(list, i)[j] = list[j]
         /\ FlaggedAt(list, i)[i].deleted /\ FlaggedAt(list, i)[i].name = list[i].name
<1> DEFINE row == [list[i] EXCEPT !.deleted = TRUE]
           new == FlaggedAt(list, i)
<1>1. list[i] \in SysRows[s] OBVIOUS
<1>2. row \in SysRows[s] /\ row.deleted /\ row.name = list[i].name
  <2>1. CASE s = "table" BY <1>1, <2>1 DEF SysRows
  <2>2. CASE s = "attr" BY <1>1, <2>2 DEF SysRows
  <2> QED BY <2>1, <2>2 DEF Sys
<1>3. new = [list EXCEPT ![i] = row] BY DEF FlaggedAt
<1> HIDE DEF new, row
<1>4. i \in 1 .. Len(list) /\ DOMAIN list = 1 .. Len(list) OBVIOUS
<1>5. /\ new \in Seq(SysRows[s]) /\ DOMAIN new = DOMAIN list /\ new[i] = row
      /\ \A j \in DOMAIN list : j # i => new[j] = list[j]
  <2> DEFINE S == SysRows[s]
  <2>1. new \in Seq(S) /\ Len(new) = Len(list)
        /\ \A j \in 1 .. Len(list) : new[j] = IF j = i THEN row ELSE list[j]
    <3>1. list \in Seq(S) /\ row \in S BY <1>2
    <3> HIDE DEF S
    <3> QED BY <1>3, <1>4, <3>1, ExceptSeq
  <2>2. DOMAIN new = 1 .. Len(list) BY <2>1
  <2> QED BY <1>4, <2>1, <2>2
<1> QED BY <1>2, <1>5 DEF new

LEMMA FlagOther ==
  ASSUME NEW s \in Sys, NEW list \in Seq(SysRows[s]), NEW i \in DOMAIN list,
         NEW name, list[i].name # name
  PROVE  NamedAt(FlaggedAt(list, i), name) = NamedAt(list, name)
<1> DEFINE new == FlaggedAt(list, i)
<1>1. /\ DOMAIN new = DOMAIN list /\ new[i].name # name
      /\ \A j \in DOMAIN list : j # i => new[j] = list[j]
  BY FlaggedAtIs
<1> HIDE DEF new
<1>2. \A j \in DOMAIN list : (~new[j].deleted /\ new[j].name = name)
                               <=> (~list[j].deleted /\ list[j].name = name)
  BY <1>1
<1>3. \A j \in DOMAIN list : ~list[j].deleted /\ list[j].name = name => new[j] = list[j]
  BY <1>1
<1>4. NamedAt(new, name) = NamedAt(list, name)
  BY <1>1, <1>2, <1>3 DEF NamedAt
<1> QED BY <1>4 DEF new

LEMMA SameRows ==
  ASSUME NEW disk, NEW max, NEW disk2, NEW max2, NEW name,
         Known(max) \subseteq Known(max2),
         \A b \in Known(max) : NamedAt(disk2[b], name) = NamedAt(disk[b], name),
         \A b \in Known(max2) \ Known(max) : NamedAt(disk2[b], name) = {}
  PROVE  RowsIn(disk2, max2, name) = RowsIn(disk, max, name)
BY DEF RowsIn

LEMMA RowsNamedIn ==
  ASSUME NEW rel, NEW file, NEW other, NEW S, RelOK(rel, file, other, S), NEW name
  PROVE  LET known == {b \in DOMAIN rel.disk : IsValidBlockNumber(file.max) /\ b <= file.max}
             of(b) == {i \in DOMAIN rel.disk[b] :
                         ~rel.disk[b][i].deleted /\ rel.disk[b][i].name = name}
         IN  UNION {{<<b, i, rel.disk[b][i]>> : i \in of(b)} : b \in known}
               = RowsIn(rel.disk, file.max, name)
<1> DEFINE known == {b \in DOMAIN rel.disk : IsValidBlockNumber(file.max) /\ b <= file.max}
           of(b) == {i \in DOMAIN rel.disk[b] :
                       ~rel.disk[b][i].deleted /\ rel.disk[b][i].name = name}
<1>1. known = Known(file.max)
  <2>1. /\ Known(file.max) \subseteq DOMAIN rel.disk /\ file.max \in Nat
        /\ DOMAIN rel.disk \subseteq Nat
    BY KnownBlocks DEF RelOK, Blocks
  <2> QED BY <2>1 DEF Known
<1> DEFINE these == UNION {{<<b, i, rel.disk[b][i]>> : i \in of(b)} : b \in known}
           those == RowsIn(rel.disk, file.max, name)
<1>2. ASSUME NEW x \in these PROVE x \in those
  <2>1. PICK b \in known : x \in {<<b, i, rel.disk[b][i]>> : i \in of(b)} OBVIOUS
  <2>2. PICK i \in of(b) : x = <<b, i, rel.disk[b][i]>> BY <2>1
  <2> DEFINE y == <<i, rel.disk[b][i]>>
  <2>3. y \in NamedAt(rel.disk[b], name) BY DEF NamedAt
  <2>4. x = <<b, y[1], y[2]>> BY <2>2
  <2> HIDE DEF y, known
  <2>5. x \in {<<b, z[1], z[2]>> : z \in NamedAt(rel.disk[b], name)} BY <2>3, <2>4
  <2> QED BY <1>1, <2>5 DEF RowsIn
<1>3. ASSUME NEW x \in those PROVE x \in these
  <2>1. PICK b \in Known(file.max) : x \in {<<b, z[1], z[2]>> : z \in NamedAt(rel.disk[b], name)}
    BY DEF RowsIn
  <2>2. PICK z \in NamedAt(rel.disk[b], name) : x = <<b, z[1], z[2]>> BY <2>1
  <2>3. PICK i \in of(b) : z = <<i, rel.disk[b][i]>> BY DEF NamedAt
  <2>4. x = <<b, i, rel.disk[b][i]>> BY <2>2, <2>3
  <2> HIDE DEF known, of
  <2>5. x \in {<<b, j, rel.disk[b][j]>> : j \in of(b)} BY <2>4
  <2> QED BY <1>1, <2>5
<1> HIDE DEF these, those
<1>4. these = those BY <1>2, <1>3
<1> QED BY <1>4 DEF these, those, known, of

LEMMA MinIs ==
  ASSUME NEW S \in SUBSET Nat, S # {}
  PROVE  Min(S) \in S /\ Min(S) \in Nat /\ \A x \in S : Min(S) <= x
<1>1. \E x \in S : \A y \in S : x <= y BY LeastOf
<1> QED BY <1>1 DEF Min

\* The flag of a row in a known block of the file is set, in the buffer and the file.
LEMMA FlaggedOK ==
  ASSUME NEW s \in Sys, NEW rel, NEW file, NEW name,
         RelOK(rel, file, name, SysRows[s]), AsInFile(rel, file), rel.max = file.max,
         NEW b \in Known(rel.max), NEW i \in DOMAIN rel.seen[b]
  PROVE  IsSet(rel, file, name, SysRows[s], b, FlaggedAt(rel.seen[b], i),
               Flushed(Flagged(rel, b, i), b))
<1> DEFINE S == SysRows[s]
           list == rel.seen[b]
           more == FlaggedAt(list, i)
           new == Flushed(Flagged(rel, b, i), b)
<1>1. b \in DOMAIN rel.disk BY KnownBlocks DEF RelOK
<1>2. list \in Seq(S) BY <1>1 DEF RelOK
<1>3. more \in Seq(S) BY <1>2, FlaggedAtIs
<1>4. new = SetAndFlushed(rel, b, more, b)
  BY DEF Flagged, SetAndFlushed, FlaggedAt
<1>5. RelOK(rel, file, name, S) /\ b \in Known(file.max) OBVIOUS
<1> HIDE DEF S, more, new
<1>6. IsSet(rel, file, name, S, b, more, SetAndFlushed(rel, b, more, b))
  BY <1>3, <1>5, BlockSet
<1>7. IsSet(rel, file, name, S, b, more, new) BY <1>4, <1>6
<1> QED BY <1>7 DEF S, more, new

-----------------------------------------------------------------------------
\* What is kept of the relations and the process

\* The statements, with those that are marked as following one that was cut short.
Marked ==
  [kind : {"create", "recreate", "drop"}, name : Names, attrs : Definitions \cup {<<>>}]

StmtOK ==
  /\ at \in Nat
  /\ pc = "attrs" => at <= Len(stmt.attrs)
  /\ pc # "none" => stmt \in Marked
  /\ pc \notin {"none", "analyze"} => stmt.name \in Unsure /\ stmt.name \notin DOMAIN tables
  /\ pc = "none" => rels = [s \in Sys |-> Opened(rels[s].disk, fsmFile[s])]

\* The last blocks that the process knows are those in the file, but where it inserted
\* and did not close the relation yet.
Saved(s) == rels[s].max = fsmFile[s].max
SavedOK ==
  /\ pc \in {"none", "analyze"} \cup Dropping \/ stmt.kind = "drop" => \A s \in Sys : Saved(s)
  /\ pc = "close attr" => Saved("table")
  /\ pc = "close id" => \A s \in Sys : Saved(s)

InFileOK ==
  pc \notin {"close attr", "close id"} \/ stmt.kind = "drop" =>
    \A s \in Sys : AsInFile(rels[s], fsmFile[s])

RelsOK ==
  /\ rels = [s \in Sys |-> rels[s]] /\ fsmFile = [s \in Sys |-> fsmFile[s]]
  /\ \A s \in Sys : RelOK(rels[s], fsmFile[s], stmt.name, SysRows[s])

KeptInv == StmtOK /\ SavedOK /\ InFileOK /\ RelsOK

\* The rows of other names in the files are as they were.
OthersSame ==
  \A s \in Sys, name \in Names :
    name # stmt.name =>
      RowsIn(rels'[s].disk, fsmFile'[s].max, name) = RowsIn(rels[s].disk, fsmFile[s].max, name)

LEMMA InitKept == Init => KeptInv
<1> SUFFICES ASSUME Init PROVE KeptInv OBVIOUS
<1>1. pc = "none" /\ at = 0 /\ stmt.name = "none" BY DEF Init, Reset, NoStatement
<1>2. ASSUME NEW s \in Sys
      PROVE  /\ fsmFile[s] = NoHeap
             /\ rels[s] = [fsh |-> NoHeap.fsh, max |-> NoHeap.max,
                           seen |-> [b \in {} |-> <<>>], disk |-> [b \in {} |-> <<>>]]
  BY DEF Init, Opened
<1>3. Known(NoHeap.max) = {} BY BlockAssumption DEF Known, IsValidBlockNumber, NoHeap
<1>4. ASSUME NEW s \in Sys PROVE RelOK(rels[s], fsmFile[s], stmt.name, SysRows[s])
  BY <1>2, <1>3 DEF RelOK, MaxOK, NoHeap
<1>5. ASSUME NEW s \in Sys
      PROVE  Saved(s) /\ AsInFile(rels[s], fsmFile[s]) /\ rels[s] = Opened(rels[s].disk, fsmFile[s])
  BY <1>2, <1>3 DEF Saved, AsInFile, Opened, NoHeap
<1>6. rels = [s \in Sys |-> rels[s]] /\ fsmFile = [s \in Sys |-> fsmFile[s]] BY DEF Init
<1>7. rels = [s \in Sys |-> Opened(rels[s].disk, fsmFile[s])] BY <1>5, <1>6
<1> QED
  BY <1>1, <1>4, <1>5, <1>6, <1>7 DEF KeptInv, StmtOK, SavedOK, InFileOK, RelsOK, Dropping

\* The process is gone, or another one begins.
LEMMA OpenedKept ==
  ASSUME RelsOK, fsmFile' = fsmFile,
         rels' = [s \in Sys |-> Opened(rels[s].disk, fsmFile[s])]
  PROVE  /\ RelsOK' /\ OthersSame
         /\ \A s \in Sys : Saved(s)' /\ AsInFile(rels[s], fsmFile[s])'
         /\ rels' = [s \in Sys |-> Opened(rels'[s].disk, fsmFile'[s])]
         /\ \A s \in Sys : rels'[s].disk = rels[s].disk
<1>1. ASSUME NEW s \in Sys
      PROVE  /\ RelOK(rels'[s], fsmFile[s], stmt'.name, SysRows[s])
             /\ AsInFile(rels'[s], fsmFile[s])
             /\ rels'[s].max = fsmFile[s].max /\ rels'[s].disk = rels[s].disk
  <2>1. rels'[s] = Opened(rels[s].disk, fsmFile[s]) OBVIOUS
  <2>2. RelOK(rels[s], fsmFile[s], stmt.name, SysRows[s]) BY DEF RelsOK
  <2> DEFINE rel == rels[s]
             S == SysRows[s]
             file == fsmFile[s]
             name == stmt.name
             other == stmt'.name
             new == Opened(rel.disk, file)
  <2> HIDE DEF rel, S, file, name, other
  <2>3. RelOK(new, file, other, S) /\ AsInFile(new, file) /\ new.max = file.max /\ new.disk = rel.disk
    BY <2>2, OpenedOK DEF rel, S, file, name
  <2> HIDE DEF new
  <2> QED BY <2>1, <2>3 DEF new, rel, S, file, other
<1>2. rels' = [s \in Sys |-> rels'[s]] /\ fsmFile' = [s \in Sys |-> fsmFile'[s]]
  BY DEF RelsOK
<1>3. RelsOK' BY <1>1, <1>2 DEF RelsOK
<1>4. OthersSame BY <1>1 DEF OthersSame
<1>5. \A s \in Sys : Saved(s)' /\ AsInFile(rels[s], fsmFile[s])'
  BY <1>1 DEF Saved
<1>6. rels' = [s \in Sys |-> Opened(rels'[s].disk, fsmFile'[s])]
  BY <1>1
<1> QED BY <1>1, <1>3, <1>4, <1>5, <1>6

LEMMA RelsSame ==
  ASSUME RelsOK, rels' = rels, fsmFile' = fsmFile, stmt'.name = stmt.name
  PROVE  RelsOK' /\ OthersSame
BY DEF RelsOK, OthersSame

\* A row of the statement's name is inserted.
LEMMA InsertKept ==
  ASSUME RelsOK, \A t \in Sys : AsInFile(rels[t], fsmFile[t]),
         NEW s \in Sys, NEW row \in SysRows[s], row.name = stmt.name,
         Tup_vInsert(s, row), fsmFile' = fsmFile, stmt' = stmt
  PROVE  /\ RelsOK' /\ OthersSame
         /\ \A t \in Sys : AsInFile(rels'[t], fsmFile'[t])
         /\ \A t \in Sys : t # s => rels'[t] = rels[t]
         /\ PutRow(rels[s], rels'[s], row)
<1> DEFINE new == rels'[s]
           file == fsmFile[s]
           S == SysRows[s]
<1>1. PICK got \in Rel_GetBlockToInsert(rels[s]) :
        /\ rels' = [rels EXCEPT ![s] = Inserted(got[2], got[1], row)]
        /\ DOMAIN rels'[s].seen \subseteq 0 .. MaxBlk
  BY DEF Tup_vInsert
<1>2. rels = [t \in Sys |-> rels[t]] /\ fsmFile = [t \in Sys |-> fsmFile[t]] BY DEF RelsOK
<1>3. /\ new = Inserted(got[2], got[1], row)
      /\ \A t \in Sys : t # s => rels'[t] = rels[t]
      /\ rels' = [t \in Sys |-> rels'[t]]
  BY <1>1, <1>2
<1>4. RelOK(rels[s], file, stmt.name, S) /\ AsInFile(rels[s], file) BY DEF RelsOK
<1>5. DOMAIN Inserted(got[2], got[1], row).seen \subseteq Blocks
  BY <1>1, <1>3 DEF Blocks
<1>6. RelOK(new, file, stmt.name, S) /\ AsInFile(new, file) /\ PutRow(rels[s], new, row)
  <2> DEFINE rel == rels[s]
             name == stmt.name
             ins == Inserted(got[2], got[1], row)
  <2>1. /\ RelOK(rel, file, name, S) /\ AsInFile(rel, file)
        /\ got \in Rel_GetBlockToInsert(rel) /\ row \in S /\ row.name = name
        /\ DOMAIN ins.seen \subseteq Blocks
    BY <1>4, <1>5
  <2> HIDE DEF rel, file, name, S, new
  <2>2. RelOK(ins, file, name, S) /\ AsInFile(ins, file) /\ PutRow(rel, ins, row)
    BY <2>1, InsertOK
  <2> HIDE DEF ins
  <2>3. new = ins BY <1>3 DEF ins
  <2> QED BY <2>2, <2>3 DEF rel, name
<1>7. RelsOK'
  <2>1. ASSUME NEW t \in Sys PROVE RelOK(rels'[t], fsmFile'[t], stmt'.name, SysRows[t])
    <3>1. CASE t = s BY <1>6, <3>1
    <3>2. CASE t # s BY <1>3, <3>2 DEF RelsOK
    <3> QED BY <3>1, <3>2
  <2> QED BY <1>2, <1>3, <2>1 DEF RelsOK
<1>8. ASSUME NEW t \in Sys PROVE AsInFile(rels'[t], fsmFile'[t])
  <2>1. CASE t = s BY <1>6, <2>1
  <2>2. CASE t # s BY <1>3, <2>2
  <2> QED BY <2>1, <2>2
<1>9. OthersSame
  <2> SUFFICES ASSUME NEW t \in Sys, NEW name \in Names, name # stmt.name
               PROVE  RowsIn(rels'[t].disk, fsmFile'[t].max, name)
                        = RowsIn(rels[t].disk, fsmFile[t].max, name)
    BY DEF OthersSame
  <2>1. CASE t # s BY <1>3, <2>1
  <2>2. CASE t = s
    <3>1. ASSUME NEW b \in Known(file.max)
          PROVE  NamedAt(new.disk[b], name) = NamedAt(rels[s].disk[b], name)
      <4>1. b \in Known(rels[s].max) /\ b \in DOMAIN rels[s].disk
        <5>1. Known(file.max) \subseteq Known(rels[s].max)
              /\ MaxOK(rels[s].max, DOMAIN rels[s].disk)
          BY <1>4 DEF RelOK
        <5>2. Known(rels[s].max) \subseteq DOMAIN rels[s].disk BY <5>1, KnownBlocks
        <5> QED BY <5>1, <5>2
      <4>2. new.disk[b] = new.seen[b] /\ rels[s].disk[b] = rels[s].seen[b]
        BY <1>4, <1>6 DEF AsInFile
      <4>3. rels[s].seen[b] \in Seq(S) BY <1>4, <4>1 DEF RelOK
      <4>4. new.seen[b] \in {rels[s].seen[b], Append(rels[s].seen[b], row)}
        BY <1>6, <4>1 DEF PutRow
      <4>5. NamedAt(Append(rels[s].seen[b], row), name) = NamedAt(rels[s].seen[b], name)
        <5> HIDE DEF S
        <5>1. row.name # name BY <2>2
        <5> QED BY <4>3, <5>1, AppendOther
      <4> QED BY <4>2, <4>4, <4>5
    <3> HIDE DEF new
    <3>2. RowsIn(new.disk, file.max, name) = RowsIn(rels[s].disk, file.max, name)
      BY <3>1, SameRows
    <3> QED BY <2>2, <3>2 DEF new
  <2> QED BY <2>1, <2>2
<1> QED BY <1>3, <1>6, <1>7, <1>8, <1>9

\* new is rel with the flag of a row of block 0 set.
IsFlagged(rel, i, new) ==
  /\ new.max = rel.max /\ 0 \in Known(rel.max) /\ i \in DOMAIN rel.seen[0]
  /\ new.seen = [rel.seen EXCEPT ![0] = FlaggedAt(rel.seen[0], i)]

\* The rows that execScan returns are in block 0.
LEMMA ScannedIs ==
  ASSUME NEW rel, NEW file, NEW name, NEW S, RelOK(rel, file, name, S)
  PROVE  /\ Scanned(rel) = IF 0 \in Known(rel.max) THEN rel.seen[0] ELSE <<>>
         /\ Scanned(rel) \in Seq(S) /\ DOMAIN Scanned(rel) = 1 .. Len(Scanned(rel))
         /\ Len(Scanned(rel)) \in Nat
<1>1. /\ Known(rel.max) \subseteq DOMAIN rel.disk /\ rel.max \in Nat
      /\ Known(rel.max) = IF rel.max = INValidBlockNumber THEN {} ELSE 0 .. rel.max
  BY KnownBlocks DEF RelOK
<1>2. Known(rel.max) = IF IsValidBlockNumber(rel.max) THEN 0 .. rel.max ELSE {} BY DEF Known
<1>3. 0 \in Known(rel.max) <=> IsValidBlockNumber(rel.max) BY <1>1, <1>2
<1>4. Scanned(rel) = IF 0 \in Known(rel.max) THEN rel.seen[0] ELSE <<>>
  BY <1>3 DEF Scanned
<1>5. Scanned(rel) \in Seq(S)
  <2>1. 0 \in Known(rel.max) => rel.seen[0] \in Seq(S) BY <1>1 DEF RelOK
  <2>2. <<>> \in Seq(S) OBVIOUS
  <2> QED BY <1>4, <2>1, <2>2
<1> QED BY <1>4, <1>5

\* A row that the scan returns is deleted.
LEMMA DeleteKept ==
  ASSUME RelsOK, \A t \in Sys : AsInFile(rels[t], fsmFile[t]) /\ Saved(t), at \in Nat,
         NEW s \in Sys, Delete(s)
  PROVE  /\ RelsOK' /\ OthersSame /\ at' \in Nat
         /\ \A t \in Sys : AsInFile(rels'[t], fsmFile'[t]) /\ Saved(t)'
         /\ \A t \in Sys : t # s => rels'[t] = rels[t]
         /\ at' \in Matches(rels[s], stmt.name) /\ at < at'
         /\ \A i \in Matches(rels[s], stmt.name) : at < i => at' <= i
         /\ IsFlagged(rels[s], at', rels'[s])
<1> DEFINE rel == rels[s]
           new == rels'[s]
           file == fsmFile[s]
           S == SysRows[s]
           ahead == {i \in RowsToDrop(rel) : i > at}
<1>1. /\ ahead # {} /\ at' = Min(ahead) /\ fsmFile' = fsmFile /\ stmt' = stmt
      /\ rels' = [rels EXCEPT ![s] = Flushed(Flagged(rel, 0, at'), 0)]
  BY DEF Delete
<1>2. rels = [t \in Sys |-> rels[t]] /\ fsmFile = [t \in Sys |-> fsmFile[t]] BY DEF RelsOK
<1>3. /\ new = Flushed(Flagged(rel, 0, at'), 0)
      /\ \A t \in Sys : t # s => rels'[t] = rels[t]
      /\ rels' = [t \in Sys |-> rels'[t]]
  BY <1>1, <1>2
<1>4. RelOK(rel, file, stmt.name, S) /\ AsInFile(rel, file) /\ rel.max = file.max
  BY DEF RelsOK, Saved
<1>5. /\ Scanned(rel) = IF 0 \in Known(rel.max) THEN rel.seen[0] ELSE <<>>
      /\ DOMAIN Scanned(rel) = 1 .. Len(Scanned(rel)) /\ Len(Scanned(rel)) \in Nat
  <2> HIDE DEF rel, file, S
  <2> QED BY <1>4, ScannedIs
<1>6. RowsToDrop(rel) = Matches(rel, stmt.name) /\ Matches(rel, stmt.name) \subseteq DOMAIN Scanned(rel)
  BY DEF RowsToDrop, Matches
<1>7. /\ at' \in ahead /\ at' \in Nat /\ \A i \in ahead : at' <= i
  <2>1. ahead \in SUBSET Nat BY <1>5, <1>6
  <2> HIDE DEF ahead
  <2> QED BY <1>1, <2>1, MinIs
<1>8. at' \in Matches(rel, stmt.name) /\ at < at' /\ \A i \in Matches(rel, stmt.name) : at < i => at' <= i
  BY <1>6, <1>7
<1>9. 0 \in Known(rel.max) /\ at' \in DOMAIN rel.seen[0]
  <2>1. at' \in DOMAIN Scanned(rel) BY <1>6, <1>8
  <2>2. DOMAIN <<>> = {} OBVIOUS
  <2> QED BY <1>5, <2>1, <2>2
<1>10. IsSet(rel, file, stmt.name, S, 0, FlaggedAt(rel.seen[0], at'), new)
  <2> DEFINE name == stmt.name
             i == at'
             set == Flushed(Flagged(rel, 0, i), 0)
  <2>1. /\ RelOK(rel, file, name, SysRows[s]) /\ AsInFile(rel, file) /\ rel.max = file.max
        /\ 0 \in Known(rel.max) /\ i \in DOMAIN rel.seen[0]
    BY <1>4, <1>9
  <2> HIDE DEF rel, file, name, i, new
  <2>2. IsSet(rel, file, name, SysRows[s], 0, FlaggedAt(rel.seen[0], i), set)
    BY <2>1, FlaggedOK
  <2> HIDE DEF set
  <2>3. new = set BY <1>3 DEF set, i
  <2> QED BY <2>2, <2>3 DEF name, i
<1>11. IsFlagged(rel, at', new)
  BY <1>9, <1>10 DEF IsSet, IsFlagged
<1>12. RelOK(new, file, stmt.name, S) /\ AsInFile(new, file) /\ new.max = file.max
  BY <1>4, <1>10 DEF IsSet
<1>13. RelsOK'
  <2>1. ASSUME NEW t \in Sys PROVE RelOK(rels'[t], fsmFile'[t], stmt'.name, SysRows[t])
    <3>1. CASE t = s BY <1>1, <1>12, <3>1
    <3>2. CASE t # s BY <1>1, <1>3, <3>2 DEF RelsOK
    <3> QED BY <3>1, <3>2
  <2> QED BY <1>1, <1>2, <1>3, <2>1 DEF RelsOK
<1>14. ASSUME NEW t \in Sys PROVE AsInFile(rels'[t], fsmFile'[t]) /\ rels'[t].max = fsmFile'[t].max
  <2>1. CASE t = s BY <1>1, <1>12, <2>1
  <2>2. CASE t # s BY <1>1, <1>3, <2>2 DEF Saved
  <2> QED BY <2>1, <2>2
<1>15. OthersSame
  <2> SUFFICES ASSUME NEW t \in Sys, NEW name \in Names, name # stmt.name
               PROVE  RowsIn(rels'[t].disk, fsmFile'[t].max, name)
                        = RowsIn(rels[t].disk, fsmFile[t].max, name)
    BY DEF OthersSame
  <2>1. CASE t # s BY <1>1, <1>3, <2>1
  <2>2. CASE t = s
    <3> DEFINE list == rel.seen[0]
    <3>1. /\ 0 \in DOMAIN rel.disk /\ list \in Seq(S) /\ rel.disk[0] = list
          /\ new.disk = [rel.disk EXCEPT ![0] = FlaggedAt(list, at')]
      <4>1. Known(rel.max) \subseteq DOMAIN rel.disk BY <1>4, KnownBlocks DEF RelOK
      <4>2. list \in Seq(S) BY <1>4, <1>9, <4>1 DEF RelOK
      <4>3. rel.disk[0] = list BY <1>4, <1>9 DEF AsInFile
      <4> QED BY <1>9, <1>10, <4>1, <4>2, <4>3 DEF IsSet
    <3>2. list[at'].name = stmt.name /\ at' \in DOMAIN list
      BY <1>5, <1>8, <1>9 DEF Matches
    <3>3. NamedAt(FlaggedAt(list, at'), name) = NamedAt(list, name)
      <4> HIDE DEF list
      <4> QED BY <3>1, <3>2, FlagOther
    <3>4. ASSUME NEW b \in Known(file.max)
          PROVE  NamedAt(new.disk[b], name) = NamedAt(rel.disk[b], name)
      <4>1. CASE b = 0 BY <3>1, <3>3, <4>1
      <4>2. CASE b # 0 BY <3>1, <4>2
      <4> QED BY <4>1, <4>2
    <3> HIDE DEF new
    <3>5. RowsIn(new.disk, file.max, name) = RowsIn(rel.disk, file.max, name)
      BY <3>4, SameRows
    <3> QED BY <1>1, <2>2, <3>5 DEF new
  <2> QED BY <2>1, <2>2
<1> QED BY <1>3, <1>7, <1>8, <1>11, <1>13, <1>14, <1>15 DEF Saved

\* A relation is closed: its heap is in the file.
LEMMA CloseKept ==
  ASSUME RelsOK, NEW s \in Sys, Rel_vDestoryRelation(s)
  PROVE  /\ RelsOK' /\ OthersSame /\ Saved(s)'
         /\ \A t \in Sys : Saved(t) => Saved(t)'
         /\ \A t \in Sys : Saved(t) /\ AsInFile(rels[t], fsmFile[t]) => AsInFile(rels'[t], fsmFile'[t])
<1> DEFINE rel == rels[s]
           file == fsmFile[s]
           S == SysRows[s]
           name == stmt.name
<1>1. /\ rels' = rels /\ stmt' = stmt
      /\ fsmFile' = [fsmFile EXCEPT ![s] = [fsh |-> rel.fsh, max |-> rel.max]]
  BY DEF Rel_vDestoryRelation
<1>2. rels = [t \in Sys |-> rels[t]] /\ fsmFile = [t \in Sys |-> fsmFile[t]] BY DEF RelsOK
<1>3. /\ fsmFile'[s].max = rel.max /\ fsmFile'[s].fsh = rel.fsh
      /\ \A t \in Sys : t # s => fsmFile'[t] = fsmFile[t]
      /\ fsmFile' = [t \in Sys |-> fsmFile'[t]]
  BY <1>1, <1>2
<1>4. RelOK(rel, file, name, S) BY DEF RelsOK
<1>5. RelOK(rel, fsmFile'[s], name, S)
  <2> DEFINE new == fsmFile'[s]
  <2>1. new.max = rel.max /\ new.fsh = rel.fsh BY <1>3
  <2> HIDE DEF new, rel, file, name, S
  <2>2. RelOK(rel, new, name, S) BY <1>4, <2>1 DEF RelOK
  <2> QED BY <2>2 DEF new
<1>6. RelsOK'
  <2>1. ASSUME NEW t \in Sys PROVE RelOK(rels'[t], fsmFile'[t], stmt'.name, SysRows[t])
    <3>1. CASE t = s BY <1>1, <1>5, <3>1
    <3>2. CASE t # s BY <1>1, <1>3, <3>2 DEF RelsOK
    <3> QED BY <3>1, <3>2
  <2> QED BY <1>1, <1>2, <1>3, <2>1 DEF RelsOK
<1>7. OthersSame
  <2> SUFFICES ASSUME NEW t \in Sys, NEW other \in Names, other # stmt.name
               PROVE  RowsIn(rels'[t].disk, fsmFile'[t].max, other)
                        = RowsIn(rels[t].disk, fsmFile[t].max, other)
    BY DEF OthersSame
  <2>1. CASE t # s BY <1>1, <1>3, <2>1
  <2>2. CASE t = s
    <3>1. Known(file.max) \subseteq Known(rel.max) BY <1>4 DEF RelOK
    <3>2. ASSUME NEW b \in Known(rel.max) \ Known(file.max)
          PROVE  NamedAt(rel.disk[b], other) = {}
      <4>1. \A i \in DOMAIN rel.disk[b] : rel.disk[b][i].name = name BY <1>4 DEF RelOK
      <4> QED BY <4>1 DEF NamedAt
    <3> HIDE DEF rel, file
    <3>3. RowsIn(rel.disk, rel.max, other) = RowsIn(rel.disk, file.max, other)
      BY <3>1, <3>2, SameRows
    <3> QED BY <1>1, <1>3, <2>2, <3>3 DEF rel, file
  <2> QED BY <2>1, <2>2
<1>8. Saved(s)' BY <1>1, <1>3 DEF Saved
<1>9. ASSUME NEW t \in Sys, Saved(t) PROVE Saved(t)'
  <2>1. CASE t = s BY <1>8, <2>1
  <2>2. CASE t # s BY <1>1, <1>3, <1>9, <2>2 DEF Saved
  <2> QED BY <2>1, <2>2
<1>10. ASSUME NEW t \in Sys, Saved(t), AsInFile(rels[t], fsmFile[t])
       PROVE  AsInFile(rels'[t], fsmFile'[t])
  <2>1. fsmFile'[t].max = fsmFile[t].max BY <1>1, <1>9, <1>10 DEF Saved
  <2> QED BY <1>1, <1>10, <2>1 DEF AsInFile
<1> QED BY <1>6, <1>7, <1>8, <1>9, <1>10

Attributes == [key : STRING, constraints : Seq(STRING)]

LEMMA AttrsAre ==
  ASSUME stmt \in Marked
  PROVE  stmt.attrs \in Seq(Attributes) /\ Len(stmt.attrs) \in Nat
<1>1. stmt.attrs \in Definitions \cup {<<>>} BY DEF Marked
<1>2. Definitions \subseteq Seq(Attributes) BY CatalogAssumption DEF Attributes
<1>3. <<>> \in Seq(Attributes) OBVIOUS
<1>4. stmt.attrs \in Seq(Attributes) BY <1>1, <1>2, <1>3
<1> QED BY <1>4

\* The row that is inserted, of the attribute too.
LEMMA RowsAre ==
  ASSUME IdInv, stmt \in Marked, at \in Nat, pc \in Creating
  PROVE  /\ Row \in SysRows["table"] /\ Row.name = stmt.name
         /\ at < Len(stmt.attrs) => /\ AttrRow(at + 1) \in SysRows["attr"]
                                    /\ AttrRow(at + 1).name = stmt.name
<1>1. tableId \in Nat
  BY CatalogAssumption DEF IdInv, ProcessId, StartId, Creating
<1>2. stmt.name \in Names /\ stmt.attrs \in Definitions \cup {<<>>} BY DEF Marked
<1>3. Row \in SysRows["table"] /\ Row.name = stmt.name BY <1>1, <1>2 DEF Row, SysRows
<1>4. ASSUME at < Len(stmt.attrs)
      PROVE  AttrRow(at + 1) \in SysRows["attr"] /\ AttrRow(at + 1).name = stmt.name
  <2>1. stmt.attrs \in Seq(Attributes) /\ Len(stmt.attrs) \in Nat BY AttrsAre
  <2>2. at + 1 \in 1 .. Len(stmt.attrs) BY <1>4, <2>1
  <2>3. stmt.attrs[at + 1].key \in STRING
    <3>1. stmt.attrs[at + 1] \in Attributes BY <2>1, <2>2
    <3> QED BY <3>1 DEF Attributes
  <2>4. at + 1 - 1 \in Nat OBVIOUS
  <2> QED BY <1>1, <1>2, <2>3, <2>4 DEF AttrRow, SysRows
<1> QED BY <1>3, <1>4

LEMMA StepKept == KeptInv /\ IdInv /\ [Next]_catVars => KeptInv' /\ OthersSame
<1> SUFFICES ASSUME KeptInv, IdInv, [Next]_catVars PROVE KeptInv' /\ OthersSame OBVIOUS
<1> USE DEF Creating, Dropping, ClosingPcs
<1>0. StmtOK /\ SavedOK /\ InFileOK /\ RelsOK BY DEF KeptInv
<1>1. ASSUME NEW statement \in Statements, initSysTable(statement)
      PROVE  KeptInv' /\ OthersSame
  <2>1. /\ pc' = "analyze" /\ at' = at /\ fsmFile' = fsmFile /\ stmt' = statement
        /\ rels' = [s \in Sys |-> Opened(rels[s].disk, fsmFile[s])]
    BY <1>1 DEF initSysTable
  <2>2. stmt' \in Marked BY <2>1 DEF Statements, Marked
  <2>3. /\ RelsOK' /\ OthersSame
        /\ \A s \in Sys : Saved(s)' /\ AsInFile(rels[s], fsmFile[s])'
    BY <1>0, <2>1, OpenedKept
  <2>4. StmtOK' BY <1>0, <2>1, <2>2 DEF StmtOK
  <2>5. InFileOK' BY <2>3 DEF InFileOK
  <2>6. SavedOK' BY <2>1, <2>3 DEF SavedOK
  <2> QED BY <2>3, <2>4, <2>5, <2>6 DEF KeptInv
<1>2. ASSUME Gone, fsmFile' = fsmFile PROVE KeptInv' /\ OthersSame
  <2>1. /\ pc' = "none" /\ at' = 0
        /\ rels' = [s \in Sys |-> Opened(rels[s].disk, fsmFile[s])]
    BY <1>2 DEF Gone, Reset
  <2>2. /\ RelsOK' /\ OthersSame
        /\ \A s \in Sys : Saved(s)' /\ AsInFile(rels[s], fsmFile[s])'
        /\ rels' = [s \in Sys |-> Opened(rels'[s].disk, fsmFile'[s])]
    BY <1>0, <1>2, <2>1, OpenedKept
  <2>3. StmtOK' BY <2>1, <2>2 DEF StmtOK
  <2>4. InFileOK' BY <2>2 DEF InFileOK
  <2>5. SavedOK' BY <2>1, <2>2 DEF SavedOK
  <2> QED BY <2>2, <2>3, <2>4, <2>5 DEF KeptInv
<1>3. ASSUME Refused \/ Crash \/ destorySysTable PROVE KeptInv' /\ OthersSame
  BY <1>2, <1>3 DEF Refused, Crash, destorySysTable
<1>4. ASSUME analyze_CreateTable PROVE KeptInv' /\ OthersSame
  <2>1. /\ pc = "analyze" /\ pc' = "insert" /\ at' = 0 /\ rels' = rels /\ fsmFile' = fsmFile
        /\ stmt' = [stmt EXCEPT !.kind = IF stmt.name \in Unsure THEN "recreate" ELSE @]
        /\ stmt.kind = "create"
        /\ tables' = Without(tables, stmt.name) /\ Unsure' = Unsure \cup {stmt.name}
    BY <1>4 DEF Unsure, analyze_CreateTable, Accepted, Reset
  <2>2. stmt \in Marked BY <1>0, <2>1 DEF StmtOK
  <2>3. stmt' \in Marked /\ stmt'.name = stmt.name /\ stmt'.kind # "drop"
    BY <2>1, <2>2 DEF Marked
  <2>4. stmt'.name \notin DOMAIN tables' BY <2>1, <2>3 DEF Without, Restrict
  <2>5. StmtOK' BY <2>1, <2>3, <2>4 DEF StmtOK
  <2>6. RelsOK' /\ OthersSame BY <1>0, <2>1, <2>3, RelsSame
  <2>7. InFileOK' BY <1>0, <2>1 DEF InFileOK
  <2>8. SavedOK' BY <2>1, <2>3 DEF SavedOK
  <2> QED BY <2>5, <2>6, <2>7, <2>8 DEF KeptInv
<1>5. ASSUME analyze_DropTable PROVE KeptInv' /\ OthersSame
  <2>1. /\ pc = "analyze" /\ pc' = "reset" /\ rels' = rels /\ fsmFile' = fsmFile /\ stmt' = stmt
        /\ at' = execScan(rels["table"], stmt.name, 0)
        /\ tables' = Without(tables, stmt.name) /\ Unsure' = Unsure \cup {stmt.name}
    BY <1>5 DEF Unsure, analyze_DropTable, Accepted, Reset
  <2>2. at' \in Nat
    <3> DEFINE ahead == {i \in Matches(rels["table"], stmt.name) : i > 0}
    <3>1. RelOK(rels["table"], fsmFile["table"], stmt.name, SysRows["table"])
      BY <1>0 DEF RelsOK, Sys
    <3>2. ahead \subseteq Nat
      <4> DEFINE rel == rels["table"]
      <4>1. DOMAIN Scanned(rel) = 1 .. Len(Scanned(rel)) /\ Len(Scanned(rel)) \in Nat
        BY <3>1, ScannedIs
      <4> QED BY <4>1 DEF Matches
    <3>3. at' = IF ahead = {} THEN 0 ELSE Min(ahead) BY <2>1 DEF execScan
    <3> HIDE DEF ahead
    <3> QED BY <3>2, <3>3, MinIs
  <2>3. stmt \in Marked BY <1>0, <2>1 DEF StmtOK
  <2>4. stmt'.name \notin DOMAIN tables' BY <2>1 DEF Without, Restrict
  <2>5. StmtOK' BY <2>1, <2>2, <2>3, <2>4 DEF StmtOK
  <2>6. RelsOK' /\ OthersSame BY <1>0, <2>1, RelsSame
  <2>7. InFileOK' BY <1>0, <2>1 DEF InFileOK
  <2>8. SavedOK' BY <1>0, <2>1 DEF SavedOK, Saved
  <2> QED BY <2>5, <2>6, <2>7, <2>8 DEF KeptInv
<1>6. ASSUME InsertTableRow \/ InsertAttrRow PROVE KeptInv' /\ OthersSame
  <2>1. /\ pc \in Creating /\ pc' = "attrs" /\ fsmFile' = fsmFile /\ stmt' = stmt
        /\ tables' = tables /\ Unsure' = Unsure
    BY <1>6 DEF Unsure, InsertTableRow, InsertAttrRow
  <2>2. stmt \in Marked /\ at \in Nat /\ stmt.name \in Unsure /\ stmt.name \notin DOMAIN tables
        /\ stmt.kind # "drop"
    BY <1>0, <2>1 DEF StmtOK, IdInv, ProcessId
  <2>3. Len(stmt.attrs) \in Nat BY <2>2, AttrsAre
  <2>4. at' \in Nat /\ at' <= Len(stmt.attrs)
    BY <1>6, <2>2, <2>3 DEF InsertTableRow, InsertAttrRow
  <2>5. StmtOK' BY <2>1, <2>2, <2>4 DEF StmtOK
  <2>6. \A t \in Sys : AsInFile(rels[t], fsmFile[t]) BY <1>0, <2>1 DEF InFileOK
  <2>7. RelsOK' /\ OthersSame /\ \A t \in Sys : AsInFile(rels'[t], fsmFile'[t])
    <3>1. CASE InsertTableRow
      <4>1. Tup_vInsert("table", Row) BY <3>1 DEF InsertTableRow
      <4>2. Row \in SysRows["table"] /\ Row.name = stmt.name /\ "table" \in Sys
        BY <2>1, <2>2, RowsAre DEF Sys
      <4> HIDE DEF Creating
      <4> QED BY <1>0, <2>1, <2>6, <4>1, <4>2, InsertKept
    <3>2. CASE InsertAttrRow
      <4>1. Tup_vInsert("attr", AttrRow(at + 1)) /\ at < Len(stmt.attrs)
        BY <3>2 DEF InsertAttrRow
      <4>2. AttrRow(at + 1) \in SysRows["attr"] /\ AttrRow(at + 1).name = stmt.name /\ "attr" \in Sys
        BY <2>1, <2>2, <4>1, RowsAre DEF Sys
      <4> QED BY <1>0, <2>1, <2>6, <4>1, <4>2, InsertKept
    <3> QED BY <1>6, <3>1, <3>2
  <2>8. SavedOK' BY <2>1, <2>2 DEF SavedOK
  <2>9. InFileOK' BY <2>7 DEF InFileOK
  <2> QED BY <2>5, <2>7, <2>8, <2>9 DEF KeptInv
<1>7. ASSUME Created \/ DropBegins PROVE KeptInv' /\ OthersSame
  <2>1. /\ pc \in {"attrs", "reset"} /\ pc' \in {"close table", "drop table"}
        /\ at' \in Nat
        /\ pc' = "drop table" => pc = "reset"
        /\ rels' = rels /\ fsmFile' = fsmFile /\ stmt' = stmt /\ tables' = tables /\ Unsure' = Unsure
    <3>1. at \in Nat BY <1>0 DEF StmtOK
    <3>2. CASE Created BY <3>1, <3>2 DEF Unsure, Created
    <3>3. CASE DropBegins BY <3>1, <3>3 DEF Unsure, DropBegins, DropFrom, Reset
    <3> QED BY <1>7, <3>2, <3>3
  <2>2. StmtOK'
    <3>1. /\ at \in Nat /\ stmt \in Marked
          /\ stmt.name \in Unsure /\ stmt.name \notin DOMAIN tables
      BY <1>0, <2>1 DEF StmtOK
    <3>2. pc' \notin {"none", "analyze", "attrs"} BY <2>1
    <3> QED BY <2>1, <3>1, <3>2 DEF StmtOK
  <2>3. RelsOK' /\ OthersSame BY <1>0, <2>1, RelsSame
  <2>4. InFileOK' BY <1>0, <2>1 DEF InFileOK
  <2>5. SavedOK' BY <1>0, <2>1 DEF SavedOK, Saved
  <2> QED BY <2>2, <2>3, <2>4, <2>5 DEF KeptInv
<1>8. ASSUME NEW s \in Sys, pc \in Dropping, Delete(s) PROVE KeptInv' /\ OthersSame
  <2>1. pc' = pc /\ fsmFile' = fsmFile /\ stmt' = stmt /\ tables' = tables /\ Unsure' = Unsure
    BY <1>8 DEF Unsure, Delete
  <2>2. \A t \in Sys : AsInFile(rels[t], fsmFile[t]) /\ Saved(t)
    BY <1>0, <1>8 DEF InFileOK, SavedOK
  <2>3. /\ RelsOK' /\ OthersSame /\ at' \in Nat
        /\ \A t \in Sys : AsInFile(rels'[t], fsmFile'[t]) /\ Saved(t)'
    BY <1>0, <1>8, <2>2, DeleteKept DEF StmtOK
  <2>4. StmtOK' BY <1>0, <1>8, <2>1, <2>3 DEF StmtOK
  <2>5. InFileOK' BY <2>3 DEF InFileOK
  <2>6. SavedOK' BY <2>3 DEF SavedOK, Sys
  <2> QED BY <2>3, <2>4, <2>5, <2>6 DEF KeptInv
<1>9. ASSUME NEW s \in Sys, pc \in Dropping, ScanEnds(s) PROVE KeptInv' /\ OthersSame
  <2>1. /\ pc' \in {"drop attrs", "close table"} /\ fsmFile' = fsmFile /\ stmt' = stmt /\ at' = 0
        /\ rels' = rels /\ tables' = tables /\ Unsure' = Unsure
    BY <1>9 DEF Unsure, ScanEnds, Reset
  <2>2. StmtOK' BY <1>0, <1>9, <2>1 DEF StmtOK
  <2>3. RelsOK' /\ OthersSame BY <1>0, <2>1, RelsSame
  <2>4. InFileOK' BY <1>0, <1>9, <2>1 DEF InFileOK
  <2>5. SavedOK' BY <1>0, <1>9, <2>1 DEF SavedOK, Saved
  <2> QED BY <2>2, <2>3, <2>4, <2>5 DEF KeptInv
<1>10. ASSUME execDropTable PROVE KeptInv' /\ OthersSame
  BY <1>8, <1>9, <1>10 DEF execDropTable, Sys
<1>11. ASSUME NEW s \in Sys, Rel_vDestoryRelation(s) PROVE KeptInv' /\ OthersSame
  <2>1. /\ pc = (IF s = "table" THEN "close table" ELSE "close attr")
        /\ pc' = (IF s = "table" THEN "close attr" ELSE "close id")
        /\ stmt' = stmt /\ at' = at /\ rels' = rels /\ tables' = tables /\ Unsure' = Unsure
    BY <1>11 DEF Unsure, Rel_vDestoryRelation, Closing
  <2>2. /\ RelsOK' /\ OthersSame /\ Saved(s)'
        /\ \A t \in Sys : Saved(t) => Saved(t)'
        /\ \A t \in Sys : Saved(t) /\ AsInFile(rels[t], fsmFile[t])
                            => AsInFile(rels'[t], fsmFile'[t])
    BY <1>0, <1>11, CloseKept
  <2>3. StmtOK' BY <1>0, <2>1 DEF StmtOK
  <2>4. SavedOK'
    <3>1. stmt.kind = "drop" => \A t \in Sys : Saved(t)' BY <1>0, <2>2 DEF SavedOK
    <3>2. s = "table" => Saved("table")' BY <2>2
    <3>3. s = "attr" => \A t \in Sys : Saved(t)'
      <4>1. s = "attr" => Saved("table")' BY <1>0, <2>1, <2>2 DEF SavedOK, Sys
      <4> QED BY <2>2, <4>1 DEF Sys
    <3> QED BY <2>1, <3>1, <3>2, <3>3 DEF SavedOK, Sys
  <2>5. InFileOK'
    <3>1. stmt.kind = "drop" => \A t \in Sys : AsInFile(rels'[t], fsmFile'[t])
      BY <1>0, <2>2 DEF SavedOK, InFileOK
    <3> QED BY <2>1, <3>1 DEF InFileOK, Sys
  <2> QED BY <2>2, <2>3, <2>4, <2>5 DEF KeptInv
<1>12. ASSUME UNCHANGED catVars PROVE KeptInv' /\ OthersSame
  <2>1. /\ pc' = pc /\ at' = at /\ stmt' = stmt /\ rels' = rels /\ fsmFile' = fsmFile
        /\ tables' = tables /\ Unsure' = Unsure
    BY <1>12 DEF Unsure, catVars
  <2>2. RelsOK' /\ OthersSame BY <1>0, <2>1, RelsSame
  <2> QED BY <1>0, <2>1, <2>2 DEF KeptInv, StmtOK, SavedOK, Saved, InFileOK
<1> QED
  BY <1>1, <1>3, <1>4, <1>5, <1>6, <1>7, <1>10, <1>11, <1>12 DEF Next

\* The rows that the property is about are those of the known blocks.
AsNamed == \A s \in Sys, name \in Names :
             RowsNamed(s, name) = RowsIn(rels[s].disk, fsmFile[s].max, name)

LEMMA RowsNamedAre == KeptInv => AsNamed
<1> SUFFICES ASSUME KeptInv, NEW s \in Sys, NEW name \in Names
             PROVE  RowsNamed(s, name) = RowsIn(rels[s].disk, fsmFile[s].max, name)
  BY DEF AsNamed
<1> DEFINE rel == rels[s]
           file == fsmFile[s]
           S == SysRows[s]
           other == stmt.name
<1>1. RelOK(rel, file, other, S) BY DEF KeptInv, RelsOK
<1> HIDE DEF rel, file, S, other
<1>2. LET known == {b \in DOMAIN rel.disk : IsValidBlockNumber(file.max) /\ b <= file.max}
          of(b) == {i \in DOMAIN rel.disk[b] :
                      ~rel.disk[b][i].deleted /\ rel.disk[b][i].name = name}
      IN  UNION {{<<b, i, rel.disk[b][i]>> : i \in of(b)} : b \in known}
            = RowsIn(rel.disk, file.max, name)
  BY <1>1, RowsNamedIn
<1> QED BY <1>2 DEF RowsNamed, rel, file

\* A statement, or a crash, never touches the rows of another table in any block that
\* is known, whatever ids were given twice (execTable.c:68-92).
THEOREM KeepsToItsName == Spec => OnlyItsName
<1>1. AsNamed /\ AsNamed' /\ OthersSame
        => [\A s \in Sys, name \in Names :
              name # stmt.name => RowsNamed(s, name)' = RowsNamed(s, name)]_catVars
  <2> SUFFICES ASSUME AsNamed, AsNamed', OthersSame, NEW s \in Sys, NEW name \in Names,
                      name # stmt.name
               PROVE  RowsNamed(s, name)' = RowsNamed(s, name)
    OBVIOUS
  <2>1. RowsNamed(s, name) = RowsIn(rels[s].disk, fsmFile[s].max, name)
    BY DEF AsNamed
  <2>2. RowsNamed(s, name)' = RowsIn(rels'[s].disk, fsmFile'[s].max, name)
    BY DEF AsNamed
  <2> QED BY <2>1, <2>2 DEF OthersSame
<1> QED
  BY InitId, InitKept, StepKeepsIds, StepKept, RowsNamedAre, <1>1, PTL DEF Spec, OnlyItsName

-----------------------------------------------------------------------------
\* Definitions that are accepted

\* A sequence of all the elements.
LEMMA FlattenHas ==
  ASSUME NEW S, NEW seqs \in Seq(Seq(S))
  PROVE  /\ FlattenSeq(seqs) \in Seq(S)
         /\ \A k \in 1 .. Len(seqs) : \A x \in Range(seqs[k]) : x \in Range(FlattenSeq(seqs))
<1>1. CASE Len(seqs) = 0
  <2>1. FlattenSeq(seqs) = seqs BY <1>1 DEF FlattenSeq
  <2>2. seqs = <<>> BY <1>1, EmptySeq
  <2>3. <<>> \in Seq(S) OBVIOUS
  <2> QED BY <1>1, <2>1, <2>2, <2>3
<1>2. CASE Len(seqs) # 0
  <2> DEFINE L == Len(seqs)
  <2>1. PICK f : /\ f = [i \in 1 .. L |-> IF i = 1 THEN seqs[i] ELSE f[i - 1] \o seqs[i]]
                 /\ FlattenSeq(seqs) = f[L]
    BY <1>2, FlattenIs
  <2>2. L \in Nat \ {0} /\ \A i \in 1 .. L : seqs[i] \in Seq(S) BY <1>2
  <2> HIDE DEF L
  <2>9. \A m \in 1 .. L : f[m] = IF m = 1 THEN seqs[m] ELSE f[m - 1] \o seqs[m]
    BY <2>1
  <2> DEFINE T == {n \in Nat : n \in 1 .. L =>
                     /\ f[n] \in Seq(S)
                     /\ \A k \in 1 .. n : \A x \in Range(seqs[k]) : x \in Range(f[n])}
  <2>3. ASSUME NEW n \in 0 .. L - 1, n \in T PROVE n + 1 \in T
    <3> SUFFICES ASSUME n + 1 \in 1 .. L
                 PROVE  /\ f[n + 1] \in Seq(S)
                        /\ \A k \in 1 .. n + 1 : \A x \in Range(seqs[k]) : x \in Range(f[n + 1])
      BY <2>2
    <3>1. seqs[n + 1] \in Seq(S) BY <2>2
    <3>2. CASE n = 0
      <4>1. f[n + 1] = seqs[n + 1] BY <2>1, <2>2, <3>2
      <4>2. \A k \in 1 .. n + 1 : k = n + 1 BY <3>2
      <4> QED BY <3>1, <4>1, <4>2
    <3>3. CASE n # 0
      <4>1. n \in 1 .. L /\ n + 1 # 1 BY <2>2, <3>3
      <4>2. f[n + 1] = f[n] \o seqs[n + 1]
        <5>1. n + 1 - 1 = n OBVIOUS
        <5> HIDE DEF T
        <5>2. f[n + 1] = IF n + 1 = 1 THEN seqs[n + 1] ELSE f[n + 1 - 1] \o seqs[n + 1]
          BY <2>9
        <5> QED BY <4>1, <5>1, <5>2
      <4>3. /\ f[n] \in Seq(S)
            /\ \A k \in 1 .. n : \A x \in Range(seqs[k]) : x \in Range(f[n])
        BY <2>3, <4>1
      <4> DEFINE s == f[n]
                 t == seqs[n + 1]
      <4>4. /\ s \o t \in Seq(S)
            /\ \A x \in Range(s) : x \in Range(s \o t)
            /\ \A x \in Range(t) : x \in Range(s \o t)
        <5>1. s \in Seq(S) /\ t \in Seq(S) BY <3>1, <4>3
        <5> HIDE DEF s, t
        <5>2. /\ s \o t \in Seq(S) /\ Len(s \o t) = Len(s) + Len(t)
              /\ \A i \in 1 .. Len(s) + Len(t) :
                   (s \o t)[i] = IF i <= Len(s) THEN s[i] ELSE t[i - Len(s)]
          BY <5>1, ConcatProperties
        <5>3. ASSUME NEW x \in Range(s) PROVE x \in Range(s \o t)
          <6>1. PICK i \in 1 .. Len(s) : x = s[i] BY <5>1 DEF Range
          <6>2. i \in 1 .. Len(s) + Len(t) /\ (s \o t)[i] = x BY <5>1, <5>2, <6>1
          <6> QED BY <5>2, <6>2 DEF Range
        <5>4. ASSUME NEW x \in Range(t) PROVE x \in Range(s \o t)
          <6>1. PICK i \in 1 .. Len(t) : x = t[i] BY <5>1 DEF Range
          <6> DEFINE m == Len(s) + i
          <6>2. m \in 1 .. Len(s) + Len(t) /\ ~(m <= Len(s)) /\ m - Len(s) = i BY <5>1
          <6>3. (s \o t)[m] = x BY <5>2, <6>1, <6>2
          <6>4. DOMAIN (s \o t) = 1 .. Len(s) + Len(t) BY <5>2
          <6> HIDE DEF m, T
          <6> QED BY <6>2, <6>3, <6>4 DEF Range
        <5> QED BY <5>2, <5>3, <5>4
      <4>5. \A k \in 1 .. n + 1 : k \in 1 .. n \/ k = n + 1 OBVIOUS
      <4> QED BY <4>2, <4>3, <4>4, <4>5
    <3> QED BY <3>2, <3>3
  <2>4. 0 \in T OBVIOUS
  <2>5. 0 .. L \subseteq T
    <3> HIDE DEF T
    <3> QED BY <2>2, <2>3, <2>4, UpTo
  <2>6. L \in T
    <3> HIDE DEF T
    <3>1. L \in 0 .. L BY <2>2
    <3> QED BY <2>5, <3>1
  <2>7. L \in 1 .. L BY <2>2
  <2>8. f[L] \in Seq(S) /\ \A k \in 1 .. L : \A x \in Range(seqs[k]) : x \in Range(f[L])
    BY <2>6, <2>7
  <2> HIDE DEF T
  <2> QED BY <2>1, <2>8 DEF L
<1> QED BY <1>1, <1>2

Constraint == [attr : Nat, type : STRING]

\* The constraints of attributes, each with the index of its own.
ConstraintsOf(attrs) ==
  {c \in Constraint : c.attr \in DOMAIN attrs /\ c.type \in Range(attrs[c.attr].constraints)}

\* Every constraint of every attribute is read, and no other.
LEMMA ReadHas ==
  ASSUME NEW attrs \in Seq(Attributes)
  PROVE  /\ Read(attrs) \in Seq(ConstraintsOf(attrs))
         /\ \A i \in DOMAIN attrs : \A type \in Range(attrs[i].constraints) :
              \E p \in DOMAIN Read(attrs) : Read(attrs)[p] = [attr |-> i, type |-> type]
<1> DEFINE own(i) == [j \in DOMAIN attrs[i].constraints |->
                        [attr |-> i, type |-> Reverse(attrs[i].constraints)[j]]]
           seqs == [i \in DOMAIN attrs |-> own(Len(attrs) + 1 - i)]
<1>1. Len(attrs) \in Nat /\ DOMAIN attrs = 1 .. Len(attrs) OBVIOUS
<1>2. ASSUME NEW i \in DOMAIN attrs
      PROVE  attrs[i].constraints \in Seq(STRING)
  <2>1. attrs[i] \in Attributes OBVIOUS
  <2> QED BY <2>1 DEF Attributes
<1>3. ASSUME NEW i \in DOMAIN attrs
      PROVE  /\ own(i) \in Seq(ConstraintsOf(attrs))
             /\ \A type \in Range(attrs[i].constraints) : [attr |-> i, type |-> type] \in Range(own(i))
  <2> DEFINE list == attrs[i].constraints
             n == Len(list)
  <2>1. list \in Seq(STRING) BY <1>2
  <2> HIDE DEF list
  <2>2. n \in Nat /\ DOMAIN list = 1 .. n /\ \A j \in 1 .. n : list[j] \in STRING BY <2>1
  <2>3. own(i) = [j \in 1 .. n |-> [attr |-> i, type |-> list[n - j + 1]]]
    BY <2>2 DEF Reverse, list
  <2> HIDE DEF n, own
  <2>4. \A j \in 1 .. n : n - j + 1 \in 1 .. n BY <2>2
  <2>5. ASSUME NEW j \in 1 .. n
        PROVE  [attr |-> i, type |-> list[n - j + 1]] \in ConstraintsOf(attrs)
    <3>1. list[n - j + 1] \in Range(list) /\ list[n - j + 1] \in STRING /\ i \in Nat
      BY <1>1, <2>2, <2>4 DEF Range
    <3> QED BY <3>1 DEF ConstraintsOf, Constraint, list
  <2>6. own(i) \in Seq(ConstraintsOf(attrs))
    <3>1. own(i) \in [1 .. n -> ConstraintsOf(attrs)] BY <2>3, <2>5
    <3> QED BY <2>2, <3>1
  <2>7. ASSUME NEW type \in Range(list) PROVE [attr |-> i, type |-> type] \in Range(own(i))
    <3>1. PICK k \in 1 .. n : type = list[k] BY <2>2 DEF Range
    <3> DEFINE j == n - k + 1
    <3>2. j \in 1 .. n /\ n - j + 1 = k BY <2>2
    <3> HIDE DEF j
    <3>3. own(i)[j] = [attr |-> i, type |-> type] /\ DOMAIN own(i) = 1 .. n
      BY <2>3, <3>1, <3>2
    <3> QED BY <3>2, <3>3 DEF Range
  <2> QED BY <2>6, <2>7 DEF list
<1> HIDE DEF own
<1>4. \A i \in 1 .. Len(attrs) : Len(attrs) + 1 - i \in 1 .. Len(attrs)
                                 /\ Len(attrs) + 1 - (Len(attrs) + 1 - i) = i
  BY <1>1
<1>5. seqs \in Seq(Seq(ConstraintsOf(attrs))) /\ Len(seqs) = Len(attrs)
  <2>1. seqs \in [1 .. Len(attrs) -> Seq(ConstraintsOf(attrs))] BY <1>1, <1>3, <1>4
  <2> HIDE DEF seqs
  <2> QED BY <1>1, <2>1
<1>6. Read(attrs) = FlattenSeq(seqs)
  BY DEF Read, own
<1>7. ASSUME NEW i \in DOMAIN attrs, NEW type \in Range(attrs[i].constraints)
      PROVE  \E p \in DOMAIN Read(attrs) : Read(attrs)[p] = [attr |-> i, type |-> type]
  <2> DEFINE k == Len(attrs) + 1 - i
             x == [attr |-> i, type |-> type]
  <2>1. k \in 1 .. Len(seqs) /\ k \in DOMAIN attrs /\ Len(attrs) + 1 - k = i BY <1>1, <1>4, <1>5
  <2> HIDE DEF k
  <2>2. seqs[k] = own(i) BY <2>1
  <2>3. x \in Range(seqs[k]) BY <1>3, <2>2
  <2> HIDE DEF x, seqs
  <2>4. x \in Range(FlattenSeq(seqs)) BY <1>5, <2>1, <2>3, FlattenHas
  <2>5. x \in Range(Read(attrs)) BY <1>6, <2>4
  <2>6. PICK p \in DOMAIN Read(attrs) : Read(attrs)[p] = x BY <2>5 DEF Range
  <2> QED BY <2>6 DEF x
<1>8. Read(attrs) \in Seq(ConstraintsOf(attrs))
  <2> HIDE DEF seqs
  <2> QED BY <1>5, <1>6, FlattenHas
<1> QED BY <1>7, <1>8

LEMMA AtMostOne ==
  ASSUME NEW S, \A x, y \in S : x = y
  PROVE  Cardinality(S) <= 1
<1>1. CASE S = {} BY <1>1, FS_EmptySet
<1>2. CASE S # {}
  <2>1. PICK x \in S : TRUE BY <1>2
  <2>2. S = {x} BY <2>1
  <2>3. Cardinality({x}) = 1 BY FS_Singleton
  <2> QED BY <2>2, <2>3
<1> QED BY <1>1, <1>2

LEMMA LastIs ==
  ASSUME NEW n \in Nat, NEW S \in SUBSET (1 .. n), S # {}
  PROVE  Max(S) \in S /\ \A x \in S : x <= Max(S)
<1> DEFINE T == {n - x : x \in S}
<1>1. T \in SUBSET Nat /\ T # {} OBVIOUS
<1> HIDE DEF T
<1>2. PICK y \in T : \A z \in T : y <= z BY <1>1, LeastOf
<1>3. PICK x \in S : y = n - x BY DEF T
<1>4. ASSUME NEW w \in S PROVE w <= x
  <2>1. n - w \in T BY DEF T
  <2> QED BY <1>2, <1>3, <2>1
<1>5. \E a \in S : \A b \in S : a >= b BY <1>4
<1> QED BY <1>5 DEF Max

AcceptedOnes(attrs) ==
  /\ Cardinality(Having(attrs, "PRIMARY KEY")) <= 1
  /\ Cardinality(Having(attrs, "AUTO")) <= 1
  /\ Having(attrs, "AUTO") \subseteq Having(attrs, "PRIMARY KEY")

LEMMA AcceptedOnesAre ==
  ASSUME NEW attrs \in Seq(Attributes), analyze_CreateTableAttrs(attrs)
  PROVE  AcceptedOnes(attrs)
<1> DEFINE read == Read(attrs)
<1>1. KeysAccepted(attrs) /\ AutoAccepted(attrs) BY DEF analyze_CreateTableAttrs
<1>2. /\ read \in Seq(ConstraintsOf(attrs))
      /\ \A i \in DOMAIN attrs : \A type \in Range(attrs[i].constraints) :
           \E p \in DOMAIN read : read[p] = [attr |-> i, type |-> type]
  BY ReadHas
<1> HIDE DEF read
<1>3. DOMAIN read = 1 .. Len(read) /\ Len(read) \in Nat BY <1>2
<1>4. ASSUME NEW type, NEW i \in Having(attrs, type)
      PROVE  \E p \in DOMAIN read : read[p] = [attr |-> i, type |-> type]
  BY <1>2 DEF Having
<1>5. ASSUME NEW primary, primary = "PRIMARY KEY",
             NEW i \in Having(attrs, primary), NEW j \in Having(attrs, primary)
      PROVE  i = j
  <2>0. \A p, q \in DOMAIN read : p < q /\ read[p].type = primary => read[q].type # primary
    BY <1>1, <1>5 DEF KeysAccepted, read
  <2>1. PICK p \in DOMAIN read : read[p] = [attr |-> i, type |-> primary] BY <1>4
  <2>2. PICK q \in DOMAIN read : read[q] = [attr |-> j, type |-> primary] BY <1>4
  <2>3. read[p].type = primary /\ read[q].type = primary BY <2>1, <2>2
  <2>4. ~(p < q) /\ ~(q < p) BY <2>0, <2>3
  <2>5. p = q BY <1>3, <2>4
  <2>6. read[p].attr = i /\ read[q].attr = j BY <2>1, <2>2
  <2> QED BY <2>5, <2>6
<1>6. ASSUME NEW auto, auto = "AUTO",
             NEW i \in Having(attrs, auto), NEW j \in Having(attrs, auto)
      PROVE  i = j
  <2>0. \A p, q \in DOMAIN read : p < q /\ read[p].type = auto => read[q].type # auto
    BY <1>1, <1>6 DEF AutoAccepted, OneAuto, read
  <2>1. PICK p \in DOMAIN read : read[p] = [attr |-> i, type |-> auto] BY <1>4
  <2>2. PICK q \in DOMAIN read : read[q] = [attr |-> j, type |-> auto] BY <1>4
  <2>3. read[p].type = auto /\ read[q].type = auto BY <2>1, <2>2
  <2>4. ~(p < q) /\ ~(q < p) BY <2>0, <2>3
  <2>5. p = q BY <1>3, <2>4
  <2>6. read[p].attr = i /\ read[q].attr = j BY <2>1, <2>2
  <2> QED BY <2>5, <2>6
<1>9. ASSUME NEW auto, auto = "AUTO", NEW primary, primary = "PRIMARY KEY",
             NEW i \in Having(attrs, auto)
      PROVE  i \in Having(attrs, primary)
  <2>0. \A p, q \in DOMAIN read : p < q /\ read[p].type = auto => read[q].type # auto
    BY <1>1, <1>9 DEF AutoAccepted, OneAuto, read
  <2>1. PICK p \in DOMAIN read : read[p] = [attr |-> i, type |-> auto] BY <1>4
  <2>2. i # INVALID_ATTR_INDEX
    <3>1. i \in 1 .. Len(attrs) /\ Len(attrs) \in Nat BY DEF Having
    <3> QED BY <3>1 DEF INVALID_ATTR_INDEX
  \* The last constraint of the attribute: there the test is made.
  <2> DEFINE of == {q \in 1 .. Len(read) : read[q].attr = i}
             n == Max(of)
  <2>3. p \in of /\ of \in SUBSET (1 .. Len(read)) BY <1>3, <2>1
  <2>4. n \in of /\ \A q \in of : q <= n
    <3> HIDE DEF of
    <3> QED BY <1>3, <2>3, LastIs
  <2> HIDE DEF n
  <2>5. n \in DOMAIN read /\ read[n].attr = i /\ n \in Nat /\ p <= n BY <1>3, <2>3, <2>4
  <2>6. AttributeRead(attrs, n)
    <3> SUFFICES ASSUME n + 1 \in DOMAIN read, read[n + 1].attr = i PROVE FALSE
      BY <2>5 DEF AttributeRead, read
    <3>1. n + 1 \in of BY <1>3
    <3> QED BY <2>4, <2>5, <3>1
  <2>7. IndexRead(attrs, auto, n) = i
    <3> DEFINE those == {q \in 1 .. n : read[q].type = auto}
               m == Max(those)
    <3>1. p \in those /\ those \in SUBSET (1 .. n) BY <1>3, <2>1, <2>5
    <3>2. m \in those
      <4> HIDE DEF those
      <4> QED BY <2>5, <3>1, LastIs
    <3>3. IndexRead(attrs, auto, n) = read[m].attr
      BY <3>1 DEF IndexRead, read
    <3> HIDE DEF m
    <3>4. m \in DOMAIN read /\ read[m].type = auto BY <1>3, <2>5, <3>2
    <3>5. ~(p < m) /\ ~(m < p)
      BY <2>0, <2>1, <3>4
    <3>6. p = m BY <1>3, <3>4, <3>5
    <3> QED BY <2>1, <3>3, <3>6
  <2>8. IndexRead(attrs, primary, n) = i
    BY <1>1, <1>9, <2>2, <2>5, <2>6, <2>7 DEF AutoAccepted, read
  <2> DEFINE those == {q \in 1 .. n : read[q].type = primary}
             m == Max(those)
  <2>9. those # {} /\ read[m].attr = i BY <2>2, <2>8 DEF IndexRead, read
  <2>10. m \in those
    <3>1. those \in SUBSET (1 .. n) OBVIOUS
    <3> HIDE DEF those
    <3> QED BY <2>5, <2>9, <3>1, LastIs
  <2> HIDE DEF m
  <2>11. m \in DOMAIN read /\ read[m].type = primary BY <1>3, <2>5, <2>10
  <2>12. read[m] \in ConstraintsOf(attrs) BY <1>2, <2>11
  <2> QED BY <2>9, <2>11, <2>12 DEF Having, ConstraintsOf
<1>7. Cardinality(Having(attrs, "PRIMARY KEY")) <= 1 BY <1>5, AtMostOne
<1>8. Cardinality(Having(attrs, "AUTO")) <= 1 BY <1>6, AtMostOne
<1> QED BY <1>7, <1>8, <1>9 DEF AcceptedOnes

\* A definition that is accepted has one primary key at most, and only that is counted
\* up, however many constraints its attributes have and in whatever order they are
\* read (analyze.c:949, 963).
THEOREM AcceptedDefinitions == Spec => []AcceptedSound
<1>1. Init => AcceptedSound BY DEF Init, AcceptedSound
<1>2. AcceptedSound /\ KeptInv /\ [Next]_catVars => AcceptedSound'
  <2> SUFFICES ASSUME AcceptedSound, KeptInv, [Next]_catVars, pc' = "insert"
               PROVE  AcceptedOnes(stmt'.attrs)
    BY DEF AcceptedSound, AcceptedOnes
  <2>1. CASE analyze_CreateTable
    <3>1. /\ stmt \in Marked
          /\ stmt' = [stmt EXCEPT !.kind = IF stmt.name \in Unsure THEN "recreate" ELSE @]
          /\ analyze_CreateTableAttrs(stmt.attrs)
      BY <2>1 DEF analyze_CreateTable, KeptInv, StmtOK
    <3>2. stmt'.attrs = stmt.attrs BY <3>1 DEF Marked
    <3>3. stmt.attrs \in Seq(Attributes) BY <3>1, AttrsAre
    <3> QED BY <3>1, <3>2, <3>3, AcceptedOnesAre
  <2>2. CASE UNCHANGED catVars
    BY <2>2 DEF catVars, AcceptedSound, AcceptedOnes
  <2>3. CASE Next /\ ~analyze_CreateTable
    <3>1. pc' # "insert"
      BY <2>3 DEF Next, initSysTable, Refused, Gone, analyze_DropTable, Accepted, InsertTableRow,
         InsertAttrRow, Created, DropBegins, execDropTable, Delete, ScanEnds,
         Rel_vDestoryRelation, destorySysTable, Crash
    <3> QED BY <3>1
  <2> QED BY <2>1, <2>2, <2>3
<1> QED BY InitId, InitKept, StepKeepsIds, StepKept, <1>1, <1>2, PTL DEF Spec

-----------------------------------------------------------------------------
\* What the lookups return

\* The positions of the rows of a name.
Found(list, name) == {i \in DOMAIN list : ~list[i].deleted /\ list[i].name = name}

\* f[n] are the attributes found in the first n rows.
Collects(f, list, name) ==
  /\ f[0] = <<>>
  /\ \A n \in 1 .. Len(list) :
       f[n] = IF n \in Found(list, name) THEN Append(f[n - 1], list[n].key) ELSE f[n - 1]

AttrRows == SysRows["attr"]
TableRows == SysRows["table"]

LEMMA AttrsAreCollected ==
  ASSUME NEW cat, NEW name, Scanned(cat["attr"]) \in Seq(AttrRows)
  PROVE  \E f : /\ Collects(f, Scanned(cat["attr"]), name)
                /\ getRelationAttrs(cat, name) = f[Len(Scanned(cat["attr"]))]
<1> DEFINE list == Scanned(cat["attr"])
           L == Len(list)
           next(x, n) == IF n \in Matches(cat["attr"], name) THEN Append(x, list[n].key) ELSE x
           Attrs(f) == f = [n \in 0 .. L |->
                              IF n = 0 THEN <<>>
                              ELSE IF n \in Matches(cat["attr"], name)
                                   THEN Append(f[n - 1], list[n].key)
                              ELSE f[n - 1]]
           s == [p \in Seq(STRING) \X Nat |->
                   IF p[2] \in Matches(cat["attr"], name) THEN Append(p[1], list[p[2]].key)
                                                          ELSE p[1]]
<1>1. L \in Nat /\ DOMAIN list = 1 .. L OBVIOUS
<1>2. \A i \in 1 .. L : list[i].key \in STRING
  <2> TAKE i \in 1 .. L
  <2>1. list[i] \in AttrRows BY <1>1
  <2> QED BY <2>1 DEF AttrRows, SysRows
<1>3. Matches(cat["attr"], name) = Found(list, name) BY DEF Matches, Found
<1>4. Found(list, name) \subseteq 1 .. L BY <1>1 DEF Found
<1>5. s \in [Seq(STRING) \X Nat -> Seq(STRING)]
  <2> SUFFICES ASSUME NEW p \in Seq(STRING) \X Nat
               PROVE  (IF p[2] \in Matches(cat["attr"], name)
                       THEN Append(p[1], list[p[2]].key) ELSE p[1]) \in Seq(STRING)
    OBVIOUS
  <2>1. p[1] \in Seq(STRING) OBVIOUS
  <2>2. p[2] \in Matches(cat["attr"], name) => list[p[2]].key \in STRING BY <1>2, <1>3, <1>4
  <2>3. \A key \in STRING : Append(p[1], key) \in Seq(STRING) BY <2>1
  <2> HIDE DEF list
  <2> QED BY <2>1, <2>2, <2>3
<1>6. <<>> \in Seq(STRING) OBVIOUS
<1>7. PICK g \in [0 .. L -> Seq(STRING)] : Iterated(g, L, <<>>, s)
  <2> HIDE DEF s, L
  <2> QED BY <1>1, <1>5, <1>6, IteratedExists
<1>8. g[0] = <<>>
  <2> HIDE DEF s, L
  <2> QED BY <1>1, <1>7 DEF Iterated
<1>9. ASSUME NEW n \in 1 .. L
      PROVE  g[n] = IF n \in Matches(cat["attr"], name) THEN Append(g[n - 1], list[n].key)
                                                        ELSE g[n - 1]
  <2>1. n - 1 \in 0 .. L /\ n \in 0 .. L /\ n # 0 BY <1>1
  <2>2. g[n] = s[<<g[n - 1], n>>]
    <3> HIDE DEF s, L
    <3> QED BY <1>7, <2>1 DEF Iterated
  <2> DEFINE x == <<g[n - 1], n>>
  <2>3. x \in Seq(STRING) \X Nat /\ x[1] = g[n - 1] /\ x[2] = n BY <2>1
  <2> HIDE DEF x
  <2>4. s[x] = IF x[2] \in Matches(cat["attr"], name) THEN Append(x[1], list[x[2]].key)
                                                     ELSE x[1]
    BY <2>3
  <2> HIDE DEF s, L, list
  <2> QED BY <2>2, <2>3, <2>4 DEF x
<1>10. Attrs(g)
  <2> DEFINE val(n) == IF n = 0 THEN <<>>
                       ELSE IF n \in Matches(cat["attr"], name) THEN Append(g[n - 1], list[n].key)
                       ELSE g[n - 1]
  <2>1. ASSUME NEW n \in 0 .. L PROVE g[n] = val(n)
    <3>1. CASE n = 0 BY <1>8, <3>1
    <3>2. CASE n # 0
      <4>1. n \in 1 .. L BY <1>1, <3>2
      <4> HIDE DEF s, L, list
      <4>2. g[n] = IF n \in Matches(cat["attr"], name) THEN Append(g[n - 1], list[n].key)
                                                       ELSE g[n - 1]
        BY <1>9, <4>1
      <4> QED BY <3>2, <4>2
    <3> QED BY <3>1, <3>2
  <2> HIDE DEF val, L, list, s
  <2>2. g = [n \in 0 .. L |-> val(n)] BY <2>1
  <2> QED BY <2>2 DEF val
<1>11. Attrs(CHOOSE h : Attrs(h))
  <2> HIDE DEF Attrs
  <2> QED BY <1>10
<1> DEFINE f == CHOOSE h : Attrs(h)
<1>12. getRelationAttrs(cat, name) = f[L]
  BY Zenon DEF getRelationAttrs
<1>13. Collects(f, list, name)
  <2> HIDE DEF f
  <2>1. Attrs(f) BY <1>11 DEF f
  <2>2. \A n \in 0 .. L : f[n] = IF n = 0 THEN <<>>
                                 ELSE IF n \in Matches(cat["attr"], name)
                                      THEN Append(f[n - 1], list[n].key)
                                 ELSE f[n - 1]
    <3> HIDE DEF L, list
    <3> QED BY <2>1
  <2> HIDE DEF Attrs, list, L
  <2>3. 0 \in 0 .. L /\ \A n \in 1 .. L : n \in 0 .. L /\ n # 0 BY <1>1
  <2>4. f[0] = <<>> BY <2>2, <2>3
  <2>5. \A n \in 1 .. L : f[n] = IF n \in Found(list, name) THEN Append(f[n - 1], list[n].key)
                                                            ELSE f[n - 1]
    BY <1>3, <2>2, <2>3
  <2> QED BY <2>4, <2>5 DEF Collects, L
<1> QED BY <1>12, <1>13

IsList(list) == Len(list) \in Nat /\ DOMAIN list = 1 .. Len(list)

\* What is collected depends on the rows of the name and their places only.
LEMMA CollectsSame ==
  ASSUME NEW f, NEW g, NEW list, NEW list2, NEW name, IsList(list), IsList(list2),
         Collects(f, list, name), Collects(g, list2, name),
         NamedAt(list2, name) = NamedAt(list, name)
  PROVE  f[Len(list)] = g[Len(list2)]
<1> DEFINE L == Len(list)
           M == Len(list2)
           first(n) == IF n <= L THEN n ELSE L
           second(n) == IF n <= M THEN n ELSE M
           T == {n \in Nat : f[first(n)] = g[second(n)]}
<1>1. L \in Nat /\ M \in Nat /\ DOMAIN list = 1 .. L /\ DOMAIN list2 = 1 .. M
  BY DEF IsList
<1>2. ASSUME NEW i PROVE i \in Found(list, name) <=> i \in Found(list2, name)
  <2>1. ASSUME i \in Found(list, name) PROVE i \in Found(list2, name)
    <3>1. <<i, list[i]>> \in NamedAt(list2, name) BY <2>1 DEF Found, NamedAt
    <3> QED BY <3>1 DEF Found, NamedAt
  <2>2. ASSUME i \in Found(list2, name) PROVE i \in Found(list, name)
    <3>1. <<i, list2[i]>> \in NamedAt(list, name) BY <2>2 DEF Found, NamedAt
    <3> QED BY <3>1 DEF Found, NamedAt
  <2> QED BY <2>1, <2>2
<1>3. ASSUME NEW i \in Found(list, name) PROVE list[i] = list2[i]
  <2>1. <<i, list[i]>> \in NamedAt(list2, name) BY DEF Found, NamedAt
  <2> QED BY <2>1 DEF NamedAt
<1>4. Found(list, name) \subseteq 1 .. L /\ Found(list2, name) \subseteq 1 .. M
  BY <1>1 DEF Found
<1>5. \A n \in 1 .. L :
        f[n] = IF n \in Found(list, name) THEN Append(f[n - 1], list[n].key) ELSE f[n - 1]
  BY DEF Collects
<1>6. \A n \in 1 .. M :
        g[n] = IF n \in Found(list2, name) THEN Append(g[n - 1], list2[n].key) ELSE g[n - 1]
  BY DEF Collects
<1>7. f[0] = <<>> /\ g[0] = <<>> BY DEF Collects
<1> HIDE DEF L, M
<1>8. 0 \in T BY <1>1, <1>7
<1>9. ASSUME NEW n \in Nat, n \in T PROVE n + 1 \in T
  <2> DEFINE k == n + 1
  <2>1. f[first(n)] = g[second(n)] BY <1>9
  <2>2. k \in Nat /\ k - 1 = n OBVIOUS
  <2> HIDE DEF k
  <2>3. f[first(k)] = IF k \in Found(list, name) THEN Append(f[first(n)], list[k].key)
                                                 ELSE f[first(n)]
    <3>1. CASE k <= L
      <4>1. first(k) = k /\ first(n) = k - 1 /\ k \in 1 .. L BY <1>1, <2>2, <3>1 DEF k
      <4> QED BY <1>5, <4>1
    <3>2. CASE ~(k <= L)
      <4>1. first(k) = L /\ first(n) = L /\ k \notin 1 .. L BY <1>1, <2>2, <3>2 DEF k
      <4> QED BY <1>4, <4>1
    <3> QED BY <3>1, <3>2
  <2>4. g[second(k)] = IF k \in Found(list2, name) THEN Append(g[second(n)], list2[k].key)
                                                   ELSE g[second(n)]
    <3>1. CASE k <= M
      <4>1. second(k) = k /\ second(n) = k - 1 /\ k \in 1 .. M BY <1>1, <2>2, <3>1 DEF k
      <4> QED BY <1>6, <4>1
    <3>2. CASE ~(k <= M)
      <4>1. second(k) = M /\ second(n) = M /\ k \notin 1 .. M BY <1>1, <2>2, <3>2 DEF k
      <4> QED BY <1>4, <4>1
    <3> QED BY <3>1, <3>2
  <2> HIDE DEF first, second
  <2>5. f[first(k)] = g[second(k)] BY <1>2, <1>3, <2>1, <2>3, <2>4
  <2> QED BY <2>2, <2>5 DEF k
<1>10. L + M \in T
  <2> DEFINE K == L + M
  <2>1. K \in Nat BY <1>1
  <2> HIDE DEF T, K
  <2>2. \A n \in 0 .. K - 1 : n \in T => n + 1 \in T BY <1>9, <2>1
  <2>3. 0 .. K \subseteq T BY <1>8, <2>1, <2>2, UpTo
  <2>4. K \in T BY <2>1, <2>3
  <2> QED BY <2>4 DEF K
<1>11. first(L + M) = L /\ second(L + M) = M BY <1>1
<1> QED BY <1>10, <1>11 DEF L, M

\* Whether and as what a table is found depends on the rows of its name only.
LookAlike(cat, cat2, name) ==
  /\ Scanned(cat["table"]) \in Seq(TableRows) /\ Scanned(cat2["table"]) \in Seq(TableRows)
  /\ Scanned(cat["attr"]) \in Seq(AttrRows) /\ Scanned(cat2["attr"]) \in Seq(AttrRows)
  /\ \A s \in Sys : NamedAt(Scanned(cat2[s]), name) = NamedAt(Scanned(cat[s]), name)
AnswerAlike(cat, cat2, name) ==
  /\ checkTableNameExist(cat2, name) = checkTableNameExist(cat, name)
  /\ getRelationAttrs(cat2, name) = getRelationAttrs(cat, name)
  /\ \A s \in Sys : Matches(cat2[s], name) = Matches(cat[s], name)

LEMMA LookupSame ==
  ASSUME NEW cat, NEW cat2, NEW name, LookAlike(cat, cat2, name)
  PROVE  AnswerAlike(cat, cat2, name)
<1>0. /\ Scanned(cat["table"]) \in Seq(TableRows) /\ Scanned(cat2["table"]) \in Seq(TableRows)
      /\ Scanned(cat["attr"]) \in Seq(AttrRows) /\ Scanned(cat2["attr"]) \in Seq(AttrRows)
      /\ \A s \in Sys : NamedAt(Scanned(cat2[s]), name) = NamedAt(Scanned(cat[s]), name)
  BY DEF LookAlike
<1>1. ASSUME NEW s \in Sys
      PROVE  /\ Matches(cat2[s], name) = Matches(cat[s], name)
             /\ \A i \in Matches(cat[s], name) : Scanned(cat2[s])[i] = Scanned(cat[s])[i]
  <2> DEFINE list == Scanned(cat[s])
             list2 == Scanned(cat2[s])
  <2>1. /\ Matches(cat[s], name) = {i \in DOMAIN list : ~list[i].deleted /\ list[i].name = name}
        /\ Matches(cat2[s], name) = {i \in DOMAIN list2 : ~list2[i].deleted /\ list2[i].name = name}
    BY DEF Matches
  <2>2. NamedAt(list2, name) = NamedAt(list, name) BY <1>0
  <2> HIDE DEF list, list2
  <2>3. ASSUME NEW i \in Matches(cat[s], name)
        PROVE  i \in Matches(cat2[s], name) /\ list2[i] = list[i]
    <3>1. <<i, list[i]>> \in NamedAt(list2, name) BY <2>1, <2>2 DEF NamedAt
    <3> QED BY <2>1, <3>1 DEF NamedAt
  <2>4. ASSUME NEW i \in Matches(cat2[s], name) PROVE i \in Matches(cat[s], name)
    <3>1. <<i, list2[i]>> \in NamedAt(list, name) BY <2>1, <2>2 DEF NamedAt
    <3> QED BY <2>1, <3>1 DEF NamedAt
  <2> QED BY <2>3, <2>4 DEF list, list2
<1>2. checkTableNameExist(cat2, name) = checkTableNameExist(cat, name)
  <2> DEFINE rel == cat["table"]
             rel2 == cat2["table"]
             ahead == {i \in Matches(rel, name) : i > 0}
             k == IF ahead = {} THEN 0 ELSE Min(ahead)
  <2>1. /\ Matches(rel2, name) = Matches(rel, name)
        /\ \A i \in Matches(rel, name) : Scanned(rel2)[i] = Scanned(rel)[i]
    BY <1>1 DEF Sys
  <2>2. execScan(rel2, name, Reset) = k /\ execScan(rel, name, Reset) = k
    BY <2>1 DEF execScan, Reset
  <2>3. k = 0 \/ k \in Matches(rel, name)
    <3>1. ahead \in SUBSET Nat
      <4>1. Matches(rel, name) \subseteq DOMAIN Scanned(rel) BY DEF Matches
      <4>2. DOMAIN Scanned(rel) \subseteq Nat BY <1>0
      <4> QED BY <4>1, <4>2
    <3>2. ahead \subseteq Matches(rel, name) OBVIOUS
    <3> HIDE DEF ahead, rel
    <3>3. ahead # {} => Min(ahead) \in ahead BY <3>1, MinIs
    <3> QED BY <3>2, <3>3
  <2>4. /\ checkTableNameExist(cat2, name) = IF k = 0 THEN 0 ELSE Scanned(rel2)[k].oid
        /\ checkTableNameExist(cat, name) = IF k = 0 THEN 0 ELSE Scanned(rel)[k].oid
    <3> HIDE DEF k
    <3> QED BY <2>2 DEF checkTableNameExist
  <2> HIDE DEF k, rel, rel2
  <2> QED BY <2>1, <2>3, <2>4
<1>3. getRelationAttrs(cat2, name) = getRelationAttrs(cat, name)
  <2> DEFINE list == Scanned(cat["attr"])
             list2 == Scanned(cat2["attr"])
  <2>1. PICK f : Collects(f, list, name) /\ getRelationAttrs(cat, name) = f[Len(list)]
    BY <1>0, AttrsAreCollected
  <2>2. PICK g : Collects(g, list2, name) /\ getRelationAttrs(cat2, name) = g[Len(list2)]
    BY <1>0, AttrsAreCollected
  <2>3. NamedAt(list2, name) = NamedAt(list, name) BY <1>0 DEF Sys
  <2>4. IsList(list) /\ IsList(list2) BY <1>0 DEF IsList
  <2> HIDE DEF list, list2
  <2>5. f[Len(list)] = g[Len(list2)] BY <2>1, <2>2, <2>3, <2>4, CollectsSame
  <2> QED BY <2>1, <2>2, <2>5
<1> QED BY <1>1, <1>2, <1>3 DEF AnswerAlike

\* A name without rows is not found.
LEMMA LookupNone ==
  ASSUME NEW cat, NEW name, Scanned(cat["attr"]) \in Seq(AttrRows)
  PROVE  /\ Matches(cat["table"], name) = {} => checkTableNameExist(cat, name) = 0
         /\ Matches(cat["attr"], name) = {} => getRelationAttrs(cat, name) = <<>>
<1>1. ASSUME Matches(cat["table"], name) = {} PROVE checkTableNameExist(cat, name) = 0
  BY <1>1 DEF checkTableNameExist, execScan
<1>2. ASSUME Matches(cat["attr"], name) = {} PROVE getRelationAttrs(cat, name) = <<>>
  <2> DEFINE list == Scanned(cat["attr"])
             none == <<>>
             g == [n \in 0 .. 0 |-> <<>>]
  <2>1. PICK f : Collects(f, list, name) /\ getRelationAttrs(cat, name) = f[Len(list)]
    BY AttrsAreCollected
  <2>2. IsList(none) /\ Len(none) = 0 /\ DOMAIN none = {} BY DEF IsList
  <2>3. Collects(g, none, name) BY DEF Collects
  <2>4. NamedAt(none, name) = {} BY <2>2 DEF NamedAt
  <2>5. NamedAt(list, name) = {} BY <1>2 DEF NamedAt, Matches
  <2>6. IsList(list) BY DEF IsList
  <2>7. g[0] = <<>> OBVIOUS
  <2> HIDE DEF list, g, none
  <2>8. f[Len(list)] = g[Len(none)]
    <3>1. NamedAt(none, name) = NamedAt(list, name) BY <2>4, <2>5
    <3>2. Collects(f, list, name) BY <2>1
    <3> QED BY <2>2, <2>3, <2>6, <3>1, <3>2, CollectsSame
  <2> QED BY <2>1, <2>2, <2>7, <2>8
<1> QED BY <1>1, <1>2

\* A row of the name is appended to the first block.
AttrAppended(cat, cat2, name, row) ==
  /\ Scanned(cat["attr"]) \in Seq(AttrRows) /\ Scanned(cat2["attr"]) \in Seq(AttrRows)
  /\ row \in AttrRows /\ ~row.deleted /\ row.name = name
  /\ Scanned(cat2["attr"]) = Append(Scanned(cat["attr"]), row)
AttrFound(cat, cat2, name, row) ==
  getRelationAttrs(cat2, name) = Append(getRelationAttrs(cat, name), row.key)

LEMMA LookupAppended ==
  ASSUME NEW cat, NEW cat2, NEW name, NEW row, AttrAppended(cat, cat2, name, row)
  PROVE  AttrFound(cat, cat2, name, row)
<1> DEFINE list == Scanned(cat["attr"])
           more == Scanned(cat2["attr"])
           L == Len(list)
<1>0. /\ Scanned(cat["attr"]) \in Seq(AttrRows) /\ Scanned(cat2["attr"]) \in Seq(AttrRows)
      /\ row \in AttrRows /\ ~row.deleted /\ row.name = name
      /\ Scanned(cat2["attr"]) = Append(Scanned(cat["attr"]), row)
  BY DEF AttrAppended
<1>1. PICK f : Collects(f, list, name) /\ getRelationAttrs(cat, name) = f[Len(list)]
  BY <1>0, AttrsAreCollected
<1>2. PICK g : Collects(g, more, name) /\ getRelationAttrs(cat2, name) = g[Len(more)]
  BY <1>0, AttrsAreCollected
<1>3. list \in Seq(AttrRows) /\ more \in Seq(AttrRows) /\ more = Append(list, row) BY <1>0
<1> HIDE DEF list, more
<1>4. /\ L \in Nat /\ Len(more) = L + 1 /\ DOMAIN list = 1 .. L /\ DOMAIN more = 1 .. L + 1
      /\ \A n \in 1 .. L : more[n] = list[n]
      /\ more[L + 1] = row
  BY <1>3, AppendProperties
<1> HIDE DEF L
<1>5. /\ \A n \in 1 .. L : n \in Found(more, name) <=> n \in Found(list, name)
      /\ L + 1 \in Found(more, name)
  BY <1>0, <1>4 DEF Found
<1>6. /\ g[0] = <<>>
      /\ \A n \in 1 .. L + 1 :
           g[n] = IF n \in Found(more, name) THEN Append(g[n - 1], more[n].key) ELSE g[n - 1]
  BY <1>2, <1>4 DEF Collects
<1>7. Collects(g, list, name)
  <2>1. ASSUME NEW n \in 1 .. L
        PROVE  g[n] = IF n \in Found(list, name) THEN Append(g[n - 1], list[n].key) ELSE g[n - 1]
    <3>1. n \in 1 .. L + 1 BY <1>4
    <3> QED BY <1>4, <1>5, <1>6, <3>1
  <2> QED BY <1>6, <2>1 DEF Collects, L
<1>8. f[L] = g[L]
  <2>1. IsList(list) BY <1>3 DEF IsList
  <2> QED BY <1>1, <1>7, <2>1, CollectsSame DEF L
<1>9. g[L + 1] = Append(g[L], row.key)
  <2>1. L + 1 \in 1 .. L + 1 /\ L + 1 - 1 = L BY <1>4
  <2> DEFINE k == L + 1
  <2>2. k \in 1 .. L + 1 BY <2>1
  <2> HIDE DEF k
  <2>3. g[k] = IF k \in Found(more, name) THEN Append(g[k - 1], more[k].key) ELSE g[k - 1]
    BY <1>6, <2>2
  <2> QED BY <1>4, <1>5, <2>1, <2>3 DEF k
<1> QED BY <1>1, <1>2, <1>4, <1>8, <1>9 DEF L, AttrFound

-----------------------------------------------------------------------------
\* What the lookups find in the files

FileRel(s) == Opened(rels[s].disk, fsmFile[s])
FileCat == [s \in Sys |-> FileRel(s)]

\* The rows of the name, in the blocks that are known, are where the scans read.
FirstOnly(name) ==
  \A s \in Sys : \A x \in RowsIn(rels[s].disk, fsmFile[s].max, name) : x[1] = 0

Answers(cat, name, oid, attrs) ==
  checkTableNameExist(cat, name) = oid /\ getRelationAttrs(cat, name) = attrs

\* A name is found in the files as the statements that ended in order left it.
NameKept(name) ==
  IF name \in DOMAIN tables
  THEN FirstOnly(name) => Answers(FileCat, name, tables[name].oid, tables[name].attrs)
  ELSE \A s \in Sys : Matches(FileCat[s], name) = {}

OthersKept == \A name \in Names \ Unsure : NameKept(name)

\* The rows of the statement's table are where the scans read.
AllFirst(rel, name) == \A b \in Known(rel.max) \ {0} : NamedAt(rel.seen[b], name) = {}
OwnFirst == \A s \in Sys : AllFirst(rels[s], stmt.name)

\* What a CREATE put into the catalogue so far, if no statement of the name was cut short.
CreateKept ==
  stmt.kind = "create" /\ OwnFirst =>
    /\ pc = "insert" => \A s \in Sys : Matches(rels[s], stmt.name) = {}
    /\ pc = "attrs" => Answers(rels, stmt.name, tableId, SubSeq(Keys(stmt.attrs), 1, at))
    /\ pc \in ClosingPcs => Answers(rels, stmt.name, tableId - 1, Keys(stmt.attrs))

\* The rows that a DROP has yet to delete.
DropKept ==
  stmt.kind = "drop" =>
    /\ pc = "drop table" => \A i \in Matches(rels["table"], stmt.name) : i > at
    /\ pc = "drop attrs" => \A i \in Matches(rels["attr"], stmt.name) : i > at
    /\ pc \in {"drop attrs"} \cup ClosingPcs => Matches(rels["table"], stmt.name) = {}
    /\ pc \in ClosingPcs => Matches(rels["attr"], stmt.name) = {}

LookInv == OthersKept /\ CreateKept /\ DropKept

-----------------------------------------------------------------------------

LEMMA OpenedRows ==
  ASSUME NEW rel, NEW file, NEW other, NEW S, RelOK(rel, file, other, S)
  PROVE  /\ Scanned(rel) \in Seq(S) /\ Scanned(Opened(rel.disk, file)) \in Seq(S)
         /\ Scanned(rel) = IF 0 \in Known(rel.max) THEN rel.seen[0] ELSE <<>>
         /\ Scanned(Opened(rel.disk, file)) = IF 0 \in Known(file.max) THEN rel.disk[0] ELSE <<>>
<1> DEFINE open == Opened(rel.disk, file)
<1>1. open.max = file.max /\ open.seen = rel.disk BY DEF Opened
<1>2. RelOK(open, file, other, S) BY OpenedOK
<1> HIDE DEF open
<1>3. /\ Scanned(rel) = IF 0 \in Known(rel.max) THEN rel.seen[0] ELSE <<>>
      /\ Scanned(rel) \in Seq(S)
  BY ScannedIs
<1>4. /\ Scanned(open) = IF 0 \in Known(open.max) THEN open.seen[0] ELSE <<>>
      /\ Scanned(open) \in Seq(S)
  BY <1>2, ScannedIs
<1> QED BY <1>1, <1>3, <1>4 DEF open

\* The rows in the first block, from the rows in all blocks.
FirstOf(rows) == {<<x[2], x[3]>> : x \in {z \in rows : z[1] = 0}}

LEMMA FirstRows ==
  ASSUME NEW rel, NEW file, NEW other, NEW S, RelOK(rel, file, other, S), NEW name
  PROVE  NamedAt(Scanned(Opened(rel.disk, file)), name) = FirstOf(RowsIn(rel.disk, file.max, name))
<1> DEFINE list == Scanned(Opened(rel.disk, file))
           disk == rel.disk
           max == file.max
<1>1. list = IF 0 \in Known(max) THEN disk[0] ELSE <<>> BY OpenedRows
<1>2. NamedAt(<<>>, name) = {} BY DEF NamedAt
<1> HIDE DEF list, disk, max
<1>3. ASSUME NEW y \in NamedAt(list, name) PROVE y \in FirstOf(RowsIn(disk, max, name))
  <2>1. 0 \in Known(max) /\ list = disk[0] BY <1>1, <1>2, <1>3
  <2>2. PICK i \in DOMAIN list : y = <<i, list[i]>> BY DEF NamedAt
  <2> DEFINE x == <<0, y[1], y[2]>>
  <2>3. x \in {<<0, z[1], z[2]>> : z \in NamedAt(disk[0], name)} BY <2>1
  <2>4. x \in RowsIn(disk, max, name)
    <3> HIDE DEF x
    <3> QED BY <2>1, <2>3 DEF RowsIn
  <2>5. x[1] = 0 /\ y = <<x[2], x[3]>> BY <2>2
  <2> HIDE DEF x
  <2> QED BY <2>4, <2>5 DEF FirstOf
<1>4. ASSUME NEW x \in RowsIn(disk, max, name), x[1] = 0
      PROVE  <<x[2], x[3]>> \in NamedAt(list, name)
  <2>1. PICK b \in Known(max) : x \in {<<b, z[1], z[2]>> : z \in NamedAt(disk[b], name)}
    BY DEF RowsIn
  <2>2. PICK z \in NamedAt(disk[b], name) : x = <<b, z[1], z[2]>> BY <2>1
  <2>3. b = 0 /\ x[2] = z[1] /\ x[3] = z[2] BY <1>4, <2>2
  <2>4. PICK i \in DOMAIN disk[b] : z = <<i, disk[b][i]>> BY DEF NamedAt
  <2>5. <<z[1], z[2]>> = z BY <2>4
  <2>6. list = disk[b] BY <1>1, <2>3
  <2> QED BY <2>3, <2>5, <2>6
<1>5. NamedAt(list, name) = FirstOf(RowsIn(disk, max, name))
  BY <1>3, <1>4 DEF FirstOf
<1> QED BY <1>5 DEF list, disk, max

LEMMA CatRows ==
  ASSUME RelsOK, NEW s \in Sys
  PROVE  /\ Scanned(rels[s]) \in Seq(SysRows[s]) /\ Scanned(FileRel(s)) \in Seq(SysRows[s])
         /\ Scanned(rels[s]) = IF 0 \in Known(rels[s].max) THEN rels[s].seen[0] ELSE <<>>
         /\ Scanned(FileRel(s)) = IF 0 \in Known(fsmFile[s].max) THEN rels[s].disk[0] ELSE <<>>
<1> DEFINE rel == rels[s]
           file == fsmFile[s]
           name == stmt.name
           S == SysRows[s]
<1>1. RelOK(rel, file, name, S) BY DEF RelsOK
<1> HIDE DEF rel, file, name, S
<1> QED BY <1>1, OpenedRows DEF rel, file, S, FileRel

\* Where the relation is as in its file the scans read the same.
LEMMA ScannedInFile ==
  ASSUME RelsOK, NEW s \in Sys, Saved(s), AsInFile(rels[s], fsmFile[s])
  PROVE  Scanned(FileRel(s)) = Scanned(rels[s])
BY CatRows DEF Saved, AsInFile

\* A name whose rows in the files stay is found as before.
LEMMA NameStays ==
  ASSUME RelsOK, RelsOK', NEW name, NameKept(name),
         \A s \in Sys : RowsIn(rels'[s].disk, fsmFile'[s].max, name)
                          = RowsIn(rels[s].disk, fsmFile[s].max, name),
         name \in DOMAIN tables' <=> name \in DOMAIN tables,
         name \in DOMAIN tables => tables'[name] = tables[name]
  PROVE  NameKept(name)'
<1> DEFINE cat == FileCat
           cat2 == FileCat'
<1>1. ASSUME NEW s \in Sys
      PROVE  /\ cat[s] = Opened(rels[s].disk, fsmFile[s])
             /\ cat2[s] = Opened(rels'[s].disk, fsmFile'[s])
  BY DEF FileCat, FileRel
<1>2. ASSUME NEW s \in Sys
      PROVE  /\ Scanned(cat[s]) \in Seq(SysRows[s]) /\ Scanned(cat2[s]) \in Seq(SysRows[s])
             /\ NamedAt(Scanned(cat2[s]), name) = NamedAt(Scanned(cat[s]), name)
  <2> DEFINE rel == rels[s]
             file == fsmFile[s]
             other == stmt.name
             rel2 == rels'[s]
             file2 == fsmFile'[s]
             other2 == stmt'.name
             S == SysRows[s]
  <2>1. RelOK(rel, file, other, S) /\ RelOK(rel2, file2, other2, S) BY DEF RelsOK
  <2>2. RowsIn(rel2.disk, file2.max, name) = RowsIn(rel.disk, file.max, name) OBVIOUS
  <2>3. cat[s] = Opened(rel.disk, file) /\ cat2[s] = Opened(rel2.disk, file2) BY <1>1
  <2> HIDE DEF cat, cat2, rel, file, other, rel2, file2, other2, S
  <2>4. Scanned(cat[s]) \in Seq(S) /\ Scanned(cat2[s]) \in Seq(S)
    BY <2>1, <2>3, OpenedRows
  <2>5. NamedAt(Scanned(cat[s]), name) = FirstOf(RowsIn(rel.disk, file.max, name))
    BY <2>1, <2>3, FirstRows
  <2>6. NamedAt(Scanned(cat2[s]), name) = FirstOf(RowsIn(rel2.disk, file2.max, name))
    BY <2>1, <2>3, FirstRows
  <2> QED BY <2>2, <2>4, <2>5, <2>6 DEF S
<1> HIDE DEF cat, cat2
<1>3. /\ checkTableNameExist(cat2, name) = checkTableNameExist(cat, name)
      /\ getRelationAttrs(cat2, name) = getRelationAttrs(cat, name)
      /\ \A s \in Sys : Matches(cat2[s], name) = Matches(cat[s], name)
  <2>1. /\ Scanned(cat["table"]) \in Seq(TableRows) /\ Scanned(cat2["table"]) \in Seq(TableRows)
        /\ Scanned(cat["attr"]) \in Seq(AttrRows) /\ Scanned(cat2["attr"]) \in Seq(AttrRows)
    BY <1>2 DEF Sys, TableRows, AttrRows
  <2>2. LookAlike(cat, cat2, name) BY <1>2, <2>1 DEF LookAlike
  <2>3. AnswerAlike(cat, cat2, name) BY <2>2, LookupSame
  <2> QED BY <2>3 DEF AnswerAlike
<1>4. FirstOnly(name)' <=> FirstOnly(name)
  BY DEF FirstOnly
<1>5. CASE name \in DOMAIN tables
  <2>1. FirstOnly(name) => Answers(cat, name, tables[name].oid, tables[name].attrs)
    BY <1>5 DEF NameKept, cat
  <2>2. FirstOnly(name)' => Answers(cat2, name, tables'[name].oid, tables'[name].attrs)
    BY <1>3, <1>4, <1>5, <2>1 DEF Answers
  <2> QED BY <1>5, <2>2 DEF NameKept, cat2
<1>6. CASE name \notin DOMAIN tables
  <2>1. \A s \in Sys : Matches(cat[s], name) = {} BY <1>6 DEF NameKept, cat
  <2>2. \A s \in Sys : Matches(cat2[s], name) = {} BY <1>3, <2>1
  <2> QED BY <1>6, <2>2 DEF NameKept, cat2
<1> QED BY <1>5, <1>6

\* The other names, in a step that gives or takes no names but the statement's.
LEMMA OthersStay ==
  ASSUME RelsOK, RelsOK', OthersKept, OthersSame,
         \A name \in Names \ Unsure' :
           /\ name \notin Unsure
           /\ name # stmt.name \/ \A s \in Sys : /\ rels'[s].disk = rels[s].disk
                                                 /\ fsmFile'[s] = fsmFile[s]
           /\ name \in DOMAIN tables' <=> name \in DOMAIN tables
           /\ name \in DOMAIN tables => tables'[name] = tables[name]
  PROVE  OthersKept'
<1> SUFFICES ASSUME NEW name \in Names, name \notin Unsure' PROVE NameKept(name)'
  BY DEF OthersKept
<1>1. NameKept(name) BY DEF OthersKept
<1>2. \A s \in Sys : RowsIn(rels'[s].disk, fsmFile'[s].max, name)
                       = RowsIn(rels[s].disk, fsmFile[s].max, name)
  <2>1. CASE name # stmt.name BY <2>1 DEF OthersSame
  <2>2. CASE name = stmt.name BY <2>2
  <2> QED BY <2>1, <2>2
<1>3. /\ name \in DOMAIN tables' <=> name \in DOMAIN tables
      /\ name \in DOMAIN tables => tables'[name] = tables[name]
  OBVIOUS
<1> QED BY <1>1, <1>2, <1>3, NameStays

\* A row of the name that was put where the scans read is the last one that they return;
\* it was put there if no rows of the name are elsewhere.
IsAppended(rel, new, name, row) ==
  Scanned(new) = Append(Scanned(rel), row) /\ AllFirst(rel, name)

LEMMA PutFirst ==
  ASSUME NEW rel, NEW file, NEW new, NEW file2, NEW name, NEW S, NEW row,
         RelOK(rel, file, name, S), RelOK(new, file2, name, S), PutRow(rel, new, row),
         row \in S, ~row.deleted, row.name = name, AllFirst(new, name)
  PROVE  IsAppended(rel, new, name, row)
<1>1. PICK b \in Known(new.max) :
        /\ new.seen[b] = IF b \in Known(rel.max) THEN Append(rel.seen[b], row) ELSE <<row>>
        /\ \A c \in Known(rel.max) \ {b} : new.seen[c] = rel.seen[c]
        /\ Known(new.max) \subseteq Known(rel.max) \cup {b}
  BY DEF PutRow
<1>2. Known(rel.max) \subseteq Known(new.max) BY DEF PutRow
<1>3. b \in Known(rel.max) => rel.seen[b] \in Seq(S)
  <2>1. Known(rel.max) \subseteq DOMAIN rel.disk BY KnownBlocks DEF RelOK
  <2> QED BY <2>1 DEF RelOK
<1>4. b = 0
  <2>1. NamedAt(new.seen[b], name) # {}
    <3> DEFINE list == new.seen[b]
    <3>1. \E i \in DOMAIN list : list[i] = row
      <4>1. CASE b \in Known(rel.max)
        <5> DEFINE old == rel.seen[b]
        <5>1. list = Append(old, row) /\ old \in Seq(S) BY <1>1, <1>3, <4>1
        <5> HIDE DEF list, old
        <5>2. Len(old) + 1 \in DOMAIN list /\ list[Len(old) + 1] = row
          BY <5>1, AppendProperties
        <5> QED BY <5>2
      <4>2. CASE b \notin Known(rel.max)
        <5>1. list = <<row>> BY <1>1, <4>2
        <5> QED BY <5>1
      <4> QED BY <4>1, <4>2
    <3> HIDE DEF list
    <3>2. PICK i \in DOMAIN list : list[i] = row BY <3>1
    <3>3. <<i, list[i]>> \in NamedAt(list, name) BY <3>2 DEF NamedAt
    <3> QED BY <3>3 DEF list
  <2> QED BY <2>1 DEF AllFirst
<1>5. Scanned(new) = new.seen[0]
  BY <1>4, ScannedIs
<1>6. Scanned(rel) = IF 0 \in Known(rel.max) THEN rel.seen[0] ELSE <<>>
  BY ScannedIs
<1>7. Append(<<>>, row) = <<row>> OBVIOUS
<1>8. Scanned(new) = Append(Scanned(rel), row)
  BY <1>1, <1>4, <1>5, <1>6, <1>7
<1>9. ASSUME NEW c \in Known(rel.max) \ {0} PROVE NamedAt(rel.seen[c], name) = {}
  BY <1>1, <1>2, <1>4 DEF AllFirst
<1> QED BY <1>8, <1>9 DEF IsAppended, AllFirst

\* The row of a table without rows is found.
LEMMA LookupFirst ==
  ASSUME NEW cat, NEW cat2, NEW name, NEW row,
         Scanned(cat["table"]) \in Seq(TableRows), row \in TableRows,
         ~row.deleted, row.name = name,
         Scanned(cat2["table"]) = Append(Scanned(cat["table"]), row),
         Matches(cat["table"], name) = {}
  PROVE  checkTableNameExist(cat2, name) = row.oid
<1> DEFINE list == Scanned(cat["table"])
           more == Scanned(cat2["table"])
           rel2 == cat2["table"]
           k == Len(list) + 1
           ahead == {i \in Matches(rel2, name) : i > 0}
<1>1. list \in Seq(TableRows) /\ more = Append(list, row) OBVIOUS
<1>2. \A i \in DOMAIN list : ~(~list[i].deleted /\ list[i].name = name) BY DEF Matches
<1>3. Matches(rel2, name) = {i \in DOMAIN more : ~more[i].deleted /\ more[i].name = name}
  BY DEF Matches
<1> HIDE DEF list, more, rel2
<1>4. /\ Len(list) \in Nat /\ DOMAIN list = 1 .. Len(list) /\ DOMAIN more = 1 .. Len(list) + 1
      /\ \A i \in DOMAIN list : more[i] = list[i]
      /\ more[Len(list) + 1] = row
  BY <1>1, AppendProperties
<1>5. Matches(rel2, name) = {k} BY <1>2, <1>3, <1>4
<1>6. ahead = {k} /\ k \in Nat /\ k # 0 BY <1>4, <1>5
<1> HIDE DEF ahead, k
<1>7. Min(ahead) = k
  <2>1. ahead \in SUBSET Nat /\ ahead # {} BY <1>6
  <2> QED BY <1>6, <2>1, MinIs
<1>8. execScan(rel2, name, Reset) = k
  <2>1. execScan(rel2, name, 0) = IF ahead = {} THEN 0 ELSE Min(ahead)
    BY DEF execScan, ahead
  <2> QED BY <1>6, <1>7, <2>1 DEF Reset
<1>9. checkTableNameExist(cat2, name) = more[k].oid
  BY <1>6, <1>8 DEF checkTableNameExist, rel2, more
<1> QED BY <1>4, <1>9 DEF k

\* A row less is found after its flag was set.
MatchesLess(rel, i, new, name) == Matches(new, name) = Matches(rel, name) \ {i}

LEMMA MatchesFlagged ==
  ASSUME NEW s \in Sys, NEW rel, NEW file, NEW new, NEW file2, NEW name, NEW i,
         RelOK(rel, file, name, SysRows[s]), RelOK(new, file2, name, SysRows[s]),
         IsFlagged(rel, i, new)
  PROVE  MatchesLess(rel, i, new, name)
<1> DEFINE list == rel.seen[0]
           flagged == FlaggedAt(list, i)
<1>1. /\ new.max = rel.max /\ 0 \in Known(rel.max) /\ i \in DOMAIN list
      /\ new.seen = [rel.seen EXCEPT ![0] = flagged]
  BY DEF IsFlagged
<1>2. Scanned(rel) = list /\ list \in Seq(SysRows[s])
  <2> DEFINE S == SysRows[s]
  <2>1. RelOK(rel, file, name, S) OBVIOUS
  <2> HIDE DEF S
  <2>2. /\ Scanned(rel) = IF 0 \in Known(rel.max) THEN rel.seen[0] ELSE <<>>
        /\ Scanned(rel) \in Seq(S)
    BY <2>1, ScannedIs
  <2> QED BY <1>1, <2>2 DEF S
<1>3. Scanned(new) = flagged
  <2> DEFINE S == SysRows[s]
  <2>1. RelOK(new, file2, name, S) OBVIOUS
  <2> HIDE DEF S
  <2>2. Scanned(new) = IF 0 \in Known(new.max) THEN new.seen[0] ELSE <<>>
    BY <2>1, ScannedIs
  <2>3. 0 \in DOMAIN rel.seen
    <3>1. Known(rel.max) \subseteq DOMAIN rel.disk BY KnownBlocks DEF RelOK
    <3>2. rel.seen = [b \in DOMAIN rel.disk |-> rel.seen[b]] BY DEF RelOK
    <3>3. DOMAIN rel.seen = DOMAIN rel.disk BY <3>2
    <3> QED BY <1>1, <3>1, <3>3
  <2> QED BY <1>1, <2>2, <2>3
<1> HIDE DEF list, flagged
<1>4. /\ DOMAIN flagged = DOMAIN list /\ flagged[i].deleted
      /\ \A j \in DOMAIN list : j # i => flagged[j] = list[j]
  BY <1>1, <1>2, FlaggedAtIs DEF flagged
<1> QED BY <1>1, <1>2, <1>3, <1>4 DEF Matches, MatchesLess

LEMMA KeysAre ==
  ASSUME NEW attrs \in Seq(Attributes)
  PROVE  /\ SubSeq(Keys(attrs), 1, 0) = <<>>
         /\ SubSeq(Keys(attrs), 1, Len(attrs)) = Keys(attrs)
         /\ \A n \in Nat : n < Len(attrs) =>
              SubSeq(Keys(attrs), 1, n + 1) = Append(SubSeq(Keys(attrs), 1, n), attrs[n + 1].key)
<1> DEFINE K == Keys(attrs)
           L == Len(attrs)
<1>1. L \in Nat /\ DOMAIN attrs = 1 .. L OBVIOUS
<1>2. \A i \in 1 .. L : attrs[i].key \in STRING
  <2> TAKE i \in 1 .. L
  <2>1. attrs[i] \in Attributes BY <1>1
  <2> QED BY <2>1 DEF Attributes
<1>3. K = [i \in 1 .. L |-> attrs[i].key] BY <1>1 DEF Keys
<1> HIDE DEF K, L
<1>4. K \in Seq(STRING) /\ Len(K) = L
  <2>1. K \in [1 .. L -> STRING] BY <1>2, <1>3
  <2> QED BY <1>1, <2>1
<1>5. SubSeq(K, 1, 0) = <<>> BY SubSeqEmpty
<1>6. SubSeq(K, 1, L) = K BY <1>4, SubSeqFull
<1>7. ASSUME NEW n \in Nat, n < L
      PROVE  SubSeq(K, 1, n + 1) = Append(SubSeq(K, 1, n), attrs[n + 1].key)
  <2> DEFINE k == n + 1
             part == SubSeq(K, 1, n)
  <2>1. 1 \in 1 .. Len(K) /\ k \in 1 .. Len(K) /\ k - 1 = n BY <1>1, <1>4, <1>7
  <2> HIDE DEF k
  <2>2. SubSeq(K, 1, k) = SubSeq(K, 1, k - 1) \o <<K[k]>>
    BY <1>4, <2>1, SubSeqRecursiveSecond
  <2>3. K[k] = attrs[k].key /\ K[k] \in STRING BY <1>2, <1>3, <1>4, <2>1
  <2>4. part \in Seq(STRING)
    <3>1. \A i \in 1 .. n : K[i] \in STRING BY <1>1, <1>2, <1>3, <1>7
    <3> QED BY <3>1, SubSeqProperties
  <2> HIDE DEF part
  <2>5. Append(part, K[k]) = part \o <<K[k]>> BY <2>3, <2>4, AppendIsConcat
  <2> QED BY <2>1, <2>2, <2>3, <2>5 DEF part, k
<1> QED BY <1>5, <1>6, <1>7 DEF K, L

-----------------------------------------------------------------------------
\* Steps of CREATE and DROP

LEMMA InsertTableRowLooks ==
  ASSUME KeptInv, KeptInv', IdInv, CreateKept, InsertTableRow
  PROVE  CreateKept'
<1>1. /\ pc = "insert" /\ pc' = "attrs" /\ at' = 0 /\ Tup_vInsert("table", Row)
      /\ stmt' = stmt /\ fsmFile' = fsmFile /\ tableId' = tableId
  BY DEF InsertTableRow
<1> DEFINE name == stmt.name
<1>2. stmt \in Marked /\ at \in Nat /\ RelsOK /\ RelsOK'
      /\ \A t \in Sys : AsInFile(rels[t], fsmFile[t])
  BY <1>1 DEF KeptInv, StmtOK, InFileOK
<1>3. Row \in TableRows /\ Row.name = name /\ "table" \in Sys /\ "attr" \in Sys
  BY <1>1, <1>2, RowsAre DEF Creating, Sys, TableRows
<1>4. /\ PutRow(rels["table"], rels'["table"], Row)
      /\ rels'["attr"] = rels["attr"]
  <2>1. Row \in SysRows["table"] BY <1>3 DEF TableRows
  <2> QED BY <1>1, <1>2, <1>3, <2>1, InsertKept
<1> SUFFICES ASSUME stmt.kind = "create", OwnFirst'
             PROVE  Answers(rels', name, tableId, SubSeq(Keys(stmt.attrs), 1, 0))
  BY <1>1 DEF CreateKept, ClosingPcs
<1>5. \A s \in Sys : AllFirst(rels'[s], name)
  BY <1>1 DEF OwnFirst
<1>6. IsAppended(rels["table"], rels'["table"], name, Row)
  <2> DEFINE rel == rels["table"]
             new == rels'["table"]
             file == fsmFile["table"]
             file2 == fsmFile'["table"]
             S == SysRows["table"]
             row == Row
  <2>1. RelOK(rel, file, name, S) BY <1>2, <1>3 DEF RelsOK
  <2>2. RelOK(new, file2, name, S)
    <3>1. RelOK(rels'["table"], fsmFile'["table"], stmt'.name, SysRows["table"])
      BY <1>2, <1>3 DEF RelsOK
    <3> QED BY <1>1, <3>1
  <2>3. AllFirst(new, name) BY <1>3, <1>5
  <2>4. PutRow(rel, new, row) /\ row \in S /\ row.name = name BY <1>3, <1>4 DEF TableRows
  <2>5. ~row.deleted BY DEF Row
  <2> HIDE DEF rel, new, file, file2, S, row, name
  <2>6. IsAppended(rel, new, name, row)
    BY <2>1, <2>2, <2>3, <2>4, <2>5, PutFirst
  <2> QED BY <2>6 DEF rel, new, row
<1>7. OwnFirst
  BY <1>3, <1>4, <1>5, <1>6 DEF OwnFirst, IsAppended, Sys
<1>8. Matches(rels["table"], name) = {} /\ Matches(rels["attr"], name) = {}
  BY <1>1, <1>3, <1>7 DEF CreateKept
<1>9. checkTableNameExist(rels', name) = tableId
  <2> DEFINE cat == rels
             cat2 == rels'
             row == Row
  <2>1. Scanned(cat["table"]) \in Seq(TableRows) BY <1>2, <1>3, CatRows DEF TableRows
  <2>2. /\ Scanned(cat2["table"]) = Append(Scanned(cat["table"]), row)
        /\ Matches(cat["table"], name) = {}
        /\ row \in TableRows /\ row.name = name
    BY <1>3, <1>6, <1>8 DEF IsAppended
  <2>3. ~row.deleted /\ row.oid = tableId BY DEF Row
  <2> HIDE DEF cat, cat2, row, name
  <2>4. checkTableNameExist(cat2, name) = row.oid BY <2>1, <2>2, <2>3, LookupFirst
  <2> QED BY <2>3, <2>4 DEF cat2
<1>10. getRelationAttrs(rels', name) = <<>>
  <2> DEFINE cat == rels'
  <2>1. Scanned(cat["attr"]) \in Seq(AttrRows) BY <1>2, <1>3, <1>4, CatRows DEF AttrRows
  <2>2. Matches(cat["attr"], name) = {} BY <1>4, <1>8
  <2> HIDE DEF cat, name
  <2>3. getRelationAttrs(cat, name) = <<>> BY <2>1, <2>2, LookupNone
  <2> QED BY <2>3 DEF cat
<1>11. SubSeq(Keys(stmt.attrs), 1, 0) = <<>>
  BY <1>2, AttrsAre, KeysAre
<1> QED BY <1>9, <1>10, <1>11 DEF Answers

LEMMA InsertAttrRowLooks ==
  ASSUME KeptInv, KeptInv', IdInv, CreateKept, InsertAttrRow
  PROVE  CreateKept'
<1>1. /\ pc = "attrs" /\ pc' = "attrs" /\ at' = at + 1 /\ Tup_vInsert("attr", AttrRow(at + 1))
      /\ stmt' = stmt /\ fsmFile' = fsmFile /\ tableId' = tableId /\ at < Len(stmt.attrs)
  BY DEF InsertAttrRow
<1> DEFINE name == stmt.name
           row == AttrRow(at + 1)
<1>2. stmt \in Marked /\ at \in Nat /\ RelsOK /\ RelsOK'
      /\ \A t \in Sys : AsInFile(rels[t], fsmFile[t])
  BY <1>1 DEF KeptInv, StmtOK, InFileOK
<1>3. row \in AttrRows /\ row.name = name /\ "table" \in Sys /\ "attr" \in Sys
  BY <1>1, <1>2, RowsAre DEF Creating, Sys, AttrRows
<1>4. /\ PutRow(rels["attr"], rels'["attr"], row)
      /\ rels'["table"] = rels["table"]
  <2>1. AttrRow(at + 1) \in SysRows["attr"] BY <1>3 DEF AttrRows
  <2> QED BY <1>1, <1>2, <1>3, <2>1, InsertKept
<1>0. row.key = stmt.attrs[at + 1].key /\ ~row.deleted BY DEF AttrRow
<1> HIDE DEF row
<1> SUFFICES ASSUME stmt.kind = "create", OwnFirst'
             PROVE  Answers(rels', name, tableId, SubSeq(Keys(stmt.attrs), 1, at + 1))
  BY <1>1 DEF CreateKept, ClosingPcs
<1>5. \A s \in Sys : AllFirst(rels'[s], name)
  BY <1>1 DEF OwnFirst
<1>6. IsAppended(rels["attr"], rels'["attr"], name, row)
  <2> DEFINE rel == rels["attr"]
             new == rels'["attr"]
             file == fsmFile["attr"]
             file2 == fsmFile'["attr"]
             S == SysRows["attr"]
  <2>1. RelOK(rel, file, name, S) BY <1>2, <1>3 DEF RelsOK
  <2>2. RelOK(new, file2, name, S)
    <3>1. RelOK(rels'["attr"], fsmFile'["attr"], stmt'.name, SysRows["attr"])
      BY <1>2, <1>3 DEF RelsOK
    <3> QED BY <1>1, <3>1
  <2>3. AllFirst(new, name) BY <1>3, <1>5
  <2>4. PutRow(rel, new, row) /\ row \in S /\ row.name = name BY <1>3, <1>4 DEF AttrRows
  <2> HIDE DEF rel, new, file, file2, S, name
  <2>6. IsAppended(rel, new, name, row)
    BY <1>0, <2>1, <2>2, <2>3, <2>4, PutFirst
  <2> QED BY <2>6 DEF rel, new
<1>7. OwnFirst
  BY <1>3, <1>4, <1>5, <1>6 DEF OwnFirst, IsAppended, Sys
<1>8. Answers(rels, name, tableId, SubSeq(Keys(stmt.attrs), 1, at))
  BY <1>1, <1>7 DEF CreateKept
<1>9. checkTableNameExist(rels', name) = tableId
  BY <1>4, <1>8 DEF Answers, checkTableNameExist
<1>10. getRelationAttrs(rels', name) = Append(getRelationAttrs(rels, name), row.key)
  <2> DEFINE cat == rels
             cat2 == rels'
  <2>1. Scanned(cat["attr"]) \in Seq(AttrRows) BY <1>2, <1>3, CatRows DEF AttrRows
  <2>2. Scanned(cat2["attr"]) = Append(Scanned(cat["attr"]), row) BY <1>6 DEF IsAppended
  <2>3. Scanned(cat2["attr"]) \in Seq(AttrRows) BY <1>3, <2>1, <2>2, AppendProperties
  <2>4. row \in AttrRows /\ ~row.deleted /\ row.name = name BY <1>0, <1>3
  <2> HIDE DEF cat, cat2, name
  <2>5. AttrAppended(cat, cat2, name, row) BY <2>1, <2>2, <2>3, <2>4 DEF AttrAppended
  <2>6. AttrFound(cat, cat2, name, row) BY <2>5, LookupAppended
  <2> QED BY <2>6 DEF AttrFound, cat, cat2
<1>11. SubSeq(Keys(stmt.attrs), 1, at + 1)
         = Append(SubSeq(Keys(stmt.attrs), 1, at), stmt.attrs[at + 1].key)
  BY <1>1, <1>2, AttrsAre, KeysAre
<1> QED BY <1>0, <1>8, <1>9, <1>10, <1>11 DEF Answers

LEMMA PositionsAre ==
  ASSUME RelsOK, NEW s \in Sys, NEW name
  PROVE  Matches(rels[s], name) \subseteq Nat \ {0}
<1> DEFINE list == Scanned(rels[s])
<1>1. list \in Seq(SysRows[s]) BY CatRows
<1>2. DOMAIN list = 1 .. Len(list) /\ Len(list) \in Nat BY <1>1
<1>3. Matches(rels[s], name) \subseteq DOMAIN list BY DEF Matches
<1> HIDE DEF list
<1> QED BY <1>2, <1>3

\* The file of the catalogue that the loop of a DROP is at.
LoopOf(s) == IF s = "table" THEN "drop table" ELSE "drop attrs"

LEMMA DeleteLooks ==
  ASSUME KeptInv, KeptInv', DropKept, NEW s \in Sys, pc = LoopOf(s), Delete(s)
  PROVE  DropKept'
<1> DEFINE name == stmt.name
           k == at'
           rel == rels[s]
           new == rels'[s]
<1>1. pc \in Dropping /\ pc' = pc /\ stmt' = stmt /\ RelsOK /\ RelsOK' /\ at \in Nat
  BY DEF LoopOf, Dropping, Delete, KeptInv, StmtOK
<1>2. \A t \in Sys : AsInFile(rels[t], fsmFile[t]) /\ Saved(t)
  BY <1>1 DEF KeptInv, InFileOK, SavedOK, Dropping
<1>3. /\ k \in Nat /\ k \in Matches(rel, name) /\ at < k
      /\ \A i \in Matches(rel, name) : at < i => k <= i
      /\ IsFlagged(rel, k, new)
      /\ \A t \in Sys : t # s => rels'[t] = rels[t]
  BY <1>1, <1>2, DeleteKept
<1>4. Matches(new, name) = Matches(rel, name) \ {k}
  <2> DEFINE file == fsmFile[s]
             file2 == fsmFile'[s]
  <2>1. RelOK(rel, file, name, SysRows[s]) BY <1>1 DEF RelsOK
  <2>2. RelOK(new, file2, name, SysRows[s])
    <3>1. RelOK(rels'[s], fsmFile'[s], stmt'.name, SysRows[s]) BY <1>1 DEF RelsOK
    <3> QED BY <1>1, <3>1
  <2>3. IsFlagged(rel, k, new) BY <1>3
  <2> HIDE DEF rel, new, file, file2, k, name
  <2>4. MatchesLess(rel, k, new, name) BY <2>1, <2>2, <2>3, MatchesFlagged
  <2> QED BY <2>4 DEF MatchesLess
<1> SUFFICES ASSUME stmt.kind = "drop"
             PROVE  /\ pc = "drop table" => \A i \in Matches(rels'["table"], name) : i > k
                    /\ pc = "drop attrs" => /\ \A i \in Matches(rels'["attr"], name) : i > k
                                            /\ Matches(rels'["table"], name) = {}
  BY <1>1 DEF DropKept, ClosingPcs, Dropping
<1>5. Matches(rel, name) \subseteq Nat BY <1>1, PositionsAre
<1>6. ASSUME \A i \in Matches(rel, name) : i > at
      PROVE  \A i \in Matches(new, name) : i > k
  <2> HIDE DEF rel, new, k, name
  <2> QED BY <1>1, <1>3, <1>4, <1>5, <1>6
<1>7. CASE s = "table"
  BY <1>6, <1>7 DEF DropKept, LoopOf
<1>8. CASE s = "attr"
  <2>1. pc = "drop attrs" BY <1>8 DEF LoopOf
  <2>2. Matches(rels["table"], name) = {} /\ \A i \in Matches(rel, name) : i > at
    BY <1>8, <2>1 DEF DropKept
  <2>3. rels'["table"] = rels["table"] BY <1>3, <1>8 DEF Sys
  <2> QED BY <1>6, <1>8, <2>1, <2>2, <2>3
<1> QED BY <1>7, <1>8 DEF Sys

LEMMA ScanEndsLooks ==
  ASSUME KeptInv, DropKept, NEW s \in Sys, pc = LoopOf(s), ScanEnds(s)
  PROVE  DropKept'
<1> DEFINE name == stmt.name
           rel == rels[s]
<1>1. /\ pc' = (IF s = "table" THEN "drop attrs" ELSE "close table") /\ at' = 0
      /\ stmt' = stmt /\ rels' = rels /\ RelsOK /\ at \in Nat
      /\ \A i \in Matches(rel, name) : i <= at
  BY DEF ScanEnds, Reset, RowsToDrop, KeptInv, StmtOK
<1> SUFFICES ASSUME stmt.kind = "drop"
             PROVE  /\ Matches(rels["table"], name) = {}
                    /\ s = "table" => \A i \in Matches(rels["attr"], name) : i > 0
                    /\ s = "attr" => Matches(rels["attr"], name) = {}
  BY <1>1 DEF DropKept, ClosingPcs, Sys
<1>2. \A t \in Sys : Matches(rels[t], name) \subseteq Nat \ {0} BY <1>1, PositionsAre
<1>3. \A i \in Matches(rel, name) : i > at BY DEF DropKept, LoopOf, Sys
<1>4. Matches(rel, name) = {}
  <2> DEFINE found == Matches(rel, name)
  <2>1. found \subseteq Nat /\ at \in Nat BY <1>1, <1>2
  <2>2. \A i \in found : i > at /\ i <= at BY <1>1, <1>3
  <2> HIDE DEF found
  <2>3. found = {} BY <2>1, <2>2
  <2> QED BY <2>3 DEF found
<1>5. CASE s = "table" BY <1>2, <1>4, <1>5 DEF Sys
<1>6. CASE s = "attr" BY <1>4, <1>6 DEF DropKept, LoopOf
<1> QED BY <1>5, <1>6 DEF Sys

LEMMA DropBeginsLooks ==
  ASSUME KeptInv, DropBegins
  PROVE  DropKept'
<1>1. /\ pc' = "drop table" /\ at' = 0 /\ stmt' = stmt /\ rels' = rels /\ RelsOK
  BY DEF DropBegins, DropFrom, Reset, KeptInv
<1>2. Matches(rels["table"], stmt.name) \subseteq Nat \ {0} BY <1>1, PositionsAre DEF Sys
<1> DEFINE found == Matches(rels["table"], stmt.name)
<1>3. \A i \in found : i > 0
  <2>1. found \subseteq Nat \ {0} BY <1>2
  <2> HIDE DEF found
  <2> QED BY <2>1
<1> QED BY <1>1, <1>3 DEF DropKept, ClosingPcs

\* A CREATE is accepted of a name that no statement left half done: no rows of the
\* name are found.
LEMMA CreateBeginsLooks ==
  ASSUME KeptInv, IdInv, OthersKept, analyze_CreateTable
  PROVE  CreateKept'
<1> DEFINE name == stmt.name
<1>1. /\ pc = "analyze" /\ pc' = "insert" /\ rels' = rels /\ stmt \in Marked /\ RelsOK
      /\ checkTableNameExist(rels, name) = 0
      /\ stmt' = [stmt EXCEPT !.kind = IF stmt.name \in Unsure THEN "recreate" ELSE @]
      /\ stmt.kind = "create"
  BY DEF analyze_CreateTable, Accepted, KeptInv, StmtOK
<1>2. stmt'.name = name /\ name \in Names /\ (stmt'.kind = "create" => name \notin Unsure)
  BY <1>1 DEF Marked
<1> SUFFICES ASSUME name \notin Unsure, OwnFirst'
             PROVE  \A s \in Sys : Matches(rels[s], name) = {}
  BY <1>1, <1>2 DEF CreateKept, ClosingPcs
<1>3. \A s \in Sys : Saved(s) /\ AsInFile(rels[s], fsmFile[s])
  BY <1>1 DEF KeptInv, SavedOK, InFileOK
<1>4. \A s \in Sys : Scanned(FileCat[s]) = Scanned(rels[s])
  BY <1>1, <1>3, ScannedInFile DEF FileCat
<1>5. /\ \A s \in Sys : Matches(FileCat[s], name) = Matches(rels[s], name)
      /\ checkTableNameExist(FileCat, name) = checkTableNameExist(rels, name)
  BY <1>4 DEF Matches, checkTableNameExist, execScan, Sys
<1>6. NameKept(name) BY <1>2 DEF OthersKept
<1>7. CASE name \notin DOMAIN tables BY <1>5, <1>6, <1>7 DEF NameKept
<1>8. CASE name \in DOMAIN tables
  <2>1. FirstOnly(name)
    <3> SUFFICES ASSUME NEW s \in Sys, NEW x \in RowsIn(rels[s].disk, fsmFile[s].max, name)
                 PROVE  x[1] = 0
      BY DEF FirstOnly
    <3>1. AllFirst(rels[s], name) BY <1>1, <1>2 DEF OwnFirst
    <3> DEFINE rel == rels[s]
               max == fsmFile[s].max
    <3>2. /\ rel.max = max /\ \A b \in Known(max) : rel.seen[b] = rel.disk[b]
          /\ \A b \in Known(rel.max) \ {0} : NamedAt(rel.seen[b], name) = {}
      BY <1>3, <3>1 DEF Saved, AsInFile, AllFirst
    <3>3. x \in RowsIn(rel.disk, max, name) OBVIOUS
    <3> HIDE DEF rel, max, name
    <3>4. PICK b \in Known(max) : x \in {<<b, y[1], y[2]>> : y \in NamedAt(rel.disk[b], name)}
      BY <3>3 DEF RowsIn
    <3>5. NamedAt(rel.disk[b], name) # {} /\ x[1] = b BY <3>4
    <3> QED BY <3>2, <3>5
  <2>2. checkTableNameExist(FileCat, name) = tables[name].oid
    BY <1>6, <1>8, <2>1 DEF NameKept, Answers
  <2>3. tables[name].oid \in baseTableid .. sysFile - 1 BY <1>8 DEF IdInv, IdsOnce
  <2>4. FALSE
    <3> DEFINE oid == tables[name].oid
    <3>1. oid = 0 BY <1>1, <1>5, <2>2
    <3>2. oid \in baseTableid .. sysFile - 1 BY <2>3
    <3> HIDE DEF oid
    <3> QED BY <3>1, <3>2, CatalogAssumption DEF IdInv
  <2> QED BY <2>4
<1> QED BY <1>7, <1>8

LEMMA CreatedLooks ==
  ASSUME KeptInv, IdInv, CreateKept, Created
  PROVE  CreateKept'
<1>1. /\ pc = "attrs" /\ pc' = "close table" /\ at = Len(stmt.attrs) /\ tableId' = tableId + 1
      /\ stmt' = stmt /\ rels' = rels /\ stmt \in Marked
  BY DEF Created, NextId, KeptInv, StmtOK
<1>2. tableId \in Nat
  BY <1>1, CatalogAssumption DEF IdInv, ProcessId, StartId, Creating
<1>3. tableId' - 1 = tableId
  <2>1. tableId' = tableId + 1 BY <1>1
  <2> QED BY <1>2, <2>1
<1>4. SubSeq(Keys(stmt.attrs), 1, at) = Keys(stmt.attrs) BY <1>1, AttrsAre, KeysAre
<1> SUFFICES ASSUME stmt.kind = "create", OwnFirst'
             PROVE  Answers(rels, stmt.name, tableId, Keys(stmt.attrs))
  BY <1>1, <1>3 DEF CreateKept, ClosingPcs
<1>5. OwnFirst BY <1>1 DEF OwnFirst
<1> QED BY <1>1, <1>4, <1>5 DEF CreateKept

LEMMA CloseLooks ==
  ASSUME CreateKept, DropKept, NEW s \in Sys, Rel_vDestoryRelation(s)
  PROVE  CreateKept' /\ DropKept'
<1>1. /\ pc \in ClosingPcs /\ pc' \in ClosingPcs
      /\ stmt' = stmt /\ rels' = rels /\ tableId' = tableId
  BY DEF Rel_vDestoryRelation, Closing, ClosingPcs
<1>2. OwnFirst' <=> OwnFirst BY <1>1 DEF OwnFirst
<1>3. CreateKept' BY <1>1, <1>2 DEF CreateKept, ClosingPcs
<1>4. DropKept' BY <1>1 DEF DropKept, ClosingPcs
<1> QED BY <1>3, <1>4

\* Where the relations are as in their files the lookups find the same.
LEMMA SameInFiles ==
  ASSUME RelsOK, \A s \in Sys : Saved(s) /\ AsInFile(rels[s], fsmFile[s]), NEW name
  PROVE  /\ \A s \in Sys : Matches(FileCat[s], name) = Matches(rels[s], name)
         /\ checkTableNameExist(FileCat, name) = checkTableNameExist(rels, name)
         /\ getRelationAttrs(FileCat, name) = getRelationAttrs(rels, name)
<1> DEFINE cat == rels
           cat2 == FileCat
<1>1. \A s \in Sys : Scanned(cat2[s]) = Scanned(cat[s]) BY ScannedInFile DEF FileCat
<1>2. /\ Scanned(cat["table"]) \in Seq(TableRows) /\ Scanned(cat["attr"]) \in Seq(AttrRows)
      /\ "table" \in Sys /\ "attr" \in Sys
  BY CatRows DEF Sys, TableRows, AttrRows
<1> HIDE DEF cat, cat2
<1>3. LookAlike(cat, cat2, name) BY <1>1, <1>2 DEF LookAlike
<1>4. AnswerAlike(cat, cat2, name) BY <1>3, LookupSame
<1> QED BY <1>4 DEF cat, cat2, AnswerAlike

\* The statement ends: from now on its table is found as it left it.
LEMMA EndLooks ==
  ASSUME KeptInv, KeptInv', OthersSame, LookInv, destorySysTable
  PROVE  OthersKept'
<1> DEFINE own == stmt.name
<1>1. /\ pc = "close id" /\ fsmFile' = fsmFile /\ RelsOK /\ RelsOK' /\ own \in Unsure
      /\ own \notin DOMAIN tables
      /\ rels' = [s \in Sys |-> Opened(rels[s].disk, fsmFile[s])]
  BY DEF destorySysTable, Gone, KeptInv, StmtOK
<1>2. \A s \in Sys : rels'[s].disk = rels[s].disk BY <1>1, OpenedKept
<1>3. FileCat' = FileCat
  BY <1>1, <1>2 DEF FileCat, FileRel
<1>4. \A s \in Sys : Saved(s) BY <1>1 DEF KeptInv, SavedOK
<1> DEFINE new == [oid |-> tableId - 1, attrs |-> Keys(stmt.attrs)]
<1>8. /\ \A n : n # own => (n \in Unsure' <=> n \in Unsure)
      /\ \/ tables' = tables
         \/ tables' = [n \in DOMAIN tables \cup {own} |-> IF n = own THEN new ELSE tables[n]]
  BY DEF destorySysTable, Unsure
<1>9. stmt.kind # "drop" /\ own \notin Unsure'
        => /\ stmt.kind = "create" /\ Written
           /\ tables' = [n \in DOMAIN tables \cup {own} |-> IF n = own THEN new ELSE tables[n]]
  BY <1>1 DEF destorySysTable, Unsure
<1>10. new.oid = tableId - 1 /\ new.attrs = Keys(stmt.attrs) OBVIOUS
<1> HIDE DEF new
<1> SUFFICES ASSUME NEW name \in Names, name \notin Unsure' PROVE NameKept(name)'
  BY DEF OthersKept
<1>5. CASE name # own
  <2>1. /\ name \notin Unsure
        /\ name \in DOMAIN tables' <=> name \in DOMAIN tables
        /\ name \in DOMAIN tables => tables'[name] = tables[name]
    <3> HIDE DEF own
    <3> QED BY <1>5, <1>8
  <2>2. NameKept(name) BY <2>1 DEF LookInv, OthersKept
  <2>3. \A s \in Sys : RowsIn(rels'[s].disk, fsmFile'[s].max, name)
                         = RowsIn(rels[s].disk, fsmFile[s].max, name)
    BY <1>1, <1>2
  <2> QED BY <1>1, <2>1, <2>2, <2>3, NameStays
<1>6. CASE name = own /\ stmt.kind = "drop"
  <2>1. name \notin DOMAIN tables' BY <1>1, <1>6 DEF destorySysTable
  <2>2. \A s \in Sys : AsInFile(rels[s], fsmFile[s]) BY <1>6 DEF KeptInv, InFileOK
  <2>3. \A s \in Sys : Matches(rels[s], name) = {}
    BY <1>1, <1>6 DEF LookInv, DropKept, ClosingPcs, Sys
  <2>4. \A s \in Sys : Matches(FileCat[s], name) = {}
    BY <1>1, <1>4, <2>2, <2>3, SameInFiles
  <2> QED BY <1>3, <2>1, <2>4 DEF NameKept
<1>7. CASE name = own /\ stmt.kind # "drop"
  <2>1. /\ stmt.kind = "create" /\ Written
        /\ tables' = [n \in DOMAIN tables \cup {own} |-> IF n = own THEN new ELSE tables[n]]
    BY <1>1, <1>7, <1>9
  <2>2. /\ name \in DOMAIN tables' /\ tables'[name].oid = tableId - 1
        /\ tables'[name].attrs = Keys(stmt.attrs)
    <3> HIDE DEF own
    <3>1. name \in DOMAIN tables' /\ tables'[name] = new BY <1>7, <2>1
    <3> QED BY <1>10, <3>1
  <2>3. \A s \in Sys : AsInFile(rels[s], fsmFile[s]) BY <2>1 DEF Written, AsInFile
  <2> SUFFICES ASSUME FirstOnly(name)'
               PROVE  Answers(FileCat, name, tableId - 1, Keys(stmt.attrs))
    BY <1>3, <2>2 DEF NameKept
  <2>4. OwnFirst
    <3> SUFFICES ASSUME NEW s \in Sys, NEW b \in Known(rels[s].max) \ {0},
                        NEW y \in NamedAt(rels[s].seen[b], name)
                 PROVE  FALSE
      BY <1>7 DEF OwnFirst, AllFirst
    <3> DEFINE disk == rels[s].disk
               max == fsmFile[s].max
    <3>1. rels[s].seen = disk /\ rels[s].max = max BY <1>4, <2>1 DEF Written, Saved
    <3>2. \A x \in RowsIn(disk, max, name) : x[1] = 0 BY <1>1, <1>2 DEF FirstOnly
    <3> DEFINE x == <<b, y[1], y[2]>>
    <3>3. x[1] = b OBVIOUS
    <3> HIDE DEF x
    <3>4. b \in Known(max) /\ y \in NamedAt(disk[b], name) BY <3>1
    <3> HIDE DEF disk, max
    <3>5. x \in {<<b, z[1], z[2]>> : z \in NamedAt(disk[b], name)} BY <3>4 DEF x
    <3>6. x \in RowsIn(disk, max, name) BY <3>4, <3>5 DEF RowsIn
    <3> QED BY <3>2, <3>3, <3>6
  <2>5. Answers(rels, name, tableId - 1, Keys(stmt.attrs))
    BY <1>1, <1>7, <2>1, <2>4 DEF LookInv, CreateKept, ClosingPcs
  <2> QED BY <1>1, <1>4, <2>3, <2>5, SameInFiles DEF Answers
<1> QED BY <1>5, <1>6, <1>7

-----------------------------------------------------------------------------
\* Every step keeps what the lookups find

\* The process is gone, or another one begins.
LEMMA OpenedLooks ==
  ASSUME RelsOK, RelsOK', OthersSame, OthersKept, fsmFile' = fsmFile, pc' \in {"none", "analyze"},
         rels' = [s \in Sys |-> Opened(rels[s].disk, fsmFile[s])],
         tables' = tables, Unsure' = Unsure
  PROVE  LookInv'
<1>1. \A s \in Sys : rels'[s].disk = rels[s].disk BY OpenedKept
<1>2. OthersKept' BY <1>1, OthersStay
<1>3. CreateKept' /\ DropKept' BY DEF CreateKept, DropKept, ClosingPcs
<1> QED BY <1>2, <1>3 DEF LookInv

\* The statement runs: its name is marked.
LEMMA MarkedLooks ==
  ASSUME RelsOK, RelsOK', OthersSame, OthersKept, stmt.name \in Unsure,
         tables' = tables, Unsure' = Unsure
  PROVE  OthersKept'
BY OthersStay

LEMMA AcceptedLooks ==
  ASSUME RelsOK, RelsOK', OthersSame, OthersKept, rels' = rels, fsmFile' = fsmFile,
         tables' = Without(tables, stmt.name), Unsure' = Unsure \cup {stmt.name}
  PROVE  OthersKept'
<1>1. ASSUME NEW name, name # stmt.name
      PROVE  /\ name \in DOMAIN tables' <=> name \in DOMAIN tables
             /\ name \in DOMAIN tables => tables'[name] = tables[name]
  BY <1>1 DEF Without, Restrict
<1> QED BY <1>1, OthersStay

LEMMA InitLooks == Init => LookInv
<1> SUFFICES ASSUME Init PROVE LookInv OBVIOUS
<1>1. pc = "none" /\ DOMAIN tables = {} /\ stmt.kind = "none" BY DEF Init, NoStatement
<1>2. CreateKept /\ DropKept BY <1>1 DEF CreateKept, DropKept
<1>3. ASSUME NEW name \in Names PROVE NameKept(name)
  <2>1. ASSUME NEW s \in Sys PROVE Matches(FileCat[s], name) = {}
    <3>1. FileCat[s].max = INValidBlockNumber
      BY DEF FileCat, FileRel, Opened, Init, NoHeap
    <3> DEFINE rel == FileCat[s]
    <3> HIDE DEF rel
    <3>2. Scanned(rel) = <<>>
      BY <3>1, BlockAssumption DEF Scanned, IsValidBlockNumber, rel
    <3>3. DOMAIN Scanned(rel) = {} BY <3>2
    <3> QED BY <3>3 DEF Matches, rel
  <2> QED BY <1>1, <2>1 DEF NameKept
<1> QED BY <1>2, <1>3 DEF LookInv, OthersKept

LEMMA StepLooks ==
  ASSUME KeptInv, KeptInv', IdInv, OthersSame, LookInv, [Next]_catVars
  PROVE  LookInv'
<1>0. RelsOK /\ RelsOK' /\ OthersKept /\ CreateKept /\ DropKept BY DEF KeptInv, LookInv
<1>1. ASSUME NEW statement \in Statements, initSysTable(statement) PROVE LookInv'
  BY <1>0, <1>1, OpenedLooks DEF Unsure, initSysTable
<1>2. ASSUME Refused \/ Crash PROVE LookInv'
  BY <1>0, <1>2, OpenedLooks DEF Unsure, Refused, Crash, Gone
<1>3. ASSUME analyze_CreateTable PROVE LookInv'
  <2>1. /\ pc' = "insert" /\ rels' = rels /\ fsmFile' = fsmFile
        /\ tables' = Without(tables, stmt.name) /\ Unsure' = Unsure \cup {stmt.name}
    BY <1>3 DEF Unsure, analyze_CreateTable, Accepted
  <2>2. CreateKept' BY <1>0, <1>3, CreateBeginsLooks
  <2>3. DropKept' BY <2>1 DEF DropKept, ClosingPcs
  <2>4. OthersKept' BY <1>0, <2>1, AcceptedLooks
  <2> QED BY <2>2, <2>3, <2>4 DEF LookInv
<1>4. ASSUME analyze_DropTable PROVE LookInv'
  <2>1. /\ pc' = "reset" /\ rels' = rels /\ fsmFile' = fsmFile
        /\ tables' = Without(tables, stmt.name) /\ Unsure' = Unsure \cup {stmt.name}
    BY <1>4 DEF Unsure, analyze_DropTable, Accepted
  <2>2. CreateKept' /\ DropKept' BY <2>1 DEF CreateKept, DropKept, ClosingPcs
  <2>3. OthersKept' BY <1>0, <2>1, AcceptedLooks
  <2> QED BY <2>2, <2>3 DEF LookInv
<1>5. ASSUME pc \in Creating \cup Dropping \cup ClosingPcs, tables' = tables, Unsure' = Unsure
      PROVE  OthersKept'
  <2>1. stmt.name \in Unsure BY <1>5 DEF KeptInv, StmtOK, Creating, Dropping, ClosingPcs
  <2> QED BY <1>0, <1>5, <2>1, MarkedLooks
<1>6. ASSUME InsertTableRow \/ InsertAttrRow \/ Created PROVE LookInv'
  <2>1. pc \in Creating /\ pc' \in {"attrs", "close table"} /\ tables' = tables
        /\ Unsure' = Unsure /\ stmt' = stmt
    BY <1>6 DEF Unsure, InsertTableRow, InsertAttrRow, Created, Creating
  <2>2. CreateKept' BY <1>0, <1>6, InsertTableRowLooks, InsertAttrRowLooks, CreatedLooks
  <2>3. DropKept' BY <2>1 DEF DropKept, IdInv, ProcessId
  <2> QED BY <1>5, <2>1, <2>2, <2>3 DEF LookInv
<1>7. ASSUME DropBegins PROVE LookInv'
  <2>1. pc \in Dropping /\ pc' = "drop table" /\ tables' = tables /\ Unsure' = Unsure
    BY <1>7 DEF Unsure, DropBegins, Dropping
  <2>2. CreateKept' BY <2>1 DEF CreateKept, ClosingPcs
  <2>3. DropKept' BY <1>7, DropBeginsLooks
  <2> QED BY <1>5, <2>1, <2>2, <2>3 DEF LookInv
<1>8. ASSUME NEW s \in Sys, pc = LoopOf(s), Delete(s) \/ ScanEnds(s) PROVE LookInv'
  <2>1. pc \in Dropping /\ stmt' = stmt /\ tables' = tables /\ Unsure' = Unsure
    BY <1>8 DEF Unsure, LoopOf, Delete, ScanEnds, Dropping
  <2>2. CreateKept' BY <2>1 DEF CreateKept, IdInv, ProcessId
  <2>3. DropKept' BY <1>0, <1>8, DeleteLooks, ScanEndsLooks
  <2> QED BY <1>5, <2>1, <2>2, <2>3 DEF LookInv
<1>9. ASSUME execDropTable PROVE LookInv'
  BY <1>8, <1>9 DEF execDropTable, LoopOf, Sys
<1>10. ASSUME NEW s \in Sys, Rel_vDestoryRelation(s) PROVE LookInv'
  <2>1. pc \in ClosingPcs /\ tables' = tables /\ Unsure' = Unsure
    BY <1>10 DEF Unsure, Rel_vDestoryRelation, Closing, ClosingPcs
  <2>2. CreateKept' /\ DropKept' BY <1>0, <1>10, CloseLooks
  <2> QED BY <1>5, <2>1, <2>2 DEF LookInv
<1>11. ASSUME destorySysTable PROVE LookInv'
  <2>1. pc' = "none" BY <1>11 DEF destorySysTable, Gone
  <2>2. CreateKept' /\ DropKept' BY <2>1 DEF CreateKept, DropKept, ClosingPcs
  <2>3. OthersKept' BY <1>11, EndLooks
  <2> QED BY <2>2, <2>3 DEF LookInv
<1>12. ASSUME UNCHANGED catVars PROVE LookInv'
  <2>1. /\ pc' = pc /\ at' = at /\ stmt' = stmt /\ rels' = rels /\ fsmFile' = fsmFile
        /\ tables' = tables /\ Unsure' = Unsure /\ tableId' = tableId
    BY <1>12 DEF Unsure, catVars
  <2>2. OthersKept' BY <1>0, <2>1, OthersStay
  <2>3. CreateKept'
    <3>1. OwnFirst' <=> OwnFirst BY <2>1 DEF OwnFirst
    <3> QED BY <1>0, <2>1, <3>1 DEF CreateKept
  <2>4. DropKept' BY <1>0, <2>1 DEF DropKept
  <2> QED BY <2>2, <2>3, <2>4 DEF LookInv
<1> QED
  BY <1>1, <1>2, <1>3, <1>4, <1>6, <1>7, <1>9, <1>10, <1>11, <1>12 DEF Next

\* Between statements a table that was created in order is found with its id and all its
\* attributes in their order, and one that was dropped, or never created, is not found,
\* whatever statement on another name was cut short at whatever row (analyze.c:967-1058).
\* It is said of tables whose own last statement was not cut short, whose rows were all
\* written and are in the block that the scans read.
THEOREM LookupsAnswer == Spec => []LookupsExact
<1>1. LookInv /\ KeptInv => LookupsExact
  <2> SUFFICES ASSUME LookInv, KeptInv, pc = "none", NEW name \in Names, name \notin Unsure
               PROVE  IF name \in DOMAIN tables
                      THEN InFirstBlock(name)
                             => /\ checkTableNameExist(rels, name) = tables[name].oid
                                /\ getRelationAttrs(rels, name) = tables[name].attrs
                      ELSE /\ checkTableNameExist(rels, name) = 0
                           /\ getRelationAttrs(rels, name) = <<>>
    BY DEF LookupsExact
  <2>1. rels = FileCat /\ RelsOK BY DEF KeptInv, StmtOK, FileCat, FileRel
  <2>2. NameKept(name) BY DEF LookInv, OthersKept
  <2>3. InFirstBlock(name) <=> FirstOnly(name)
    BY RowsNamedAre DEF AsNamed, InFirstBlock, FirstOnly
  <2>4. CASE name \in DOMAIN tables
    BY <2>1, <2>2, <2>3, <2>4 DEF NameKept, Answers
  <2>5. CASE name \notin DOMAIN tables
    <3>1. Matches(rels["table"], name) = {} /\ Matches(rels["attr"], name) = {}
      BY <2>1, <2>2, <2>5 DEF NameKept, Sys
    <3>2. Scanned(rels["attr"]) \in Seq(AttrRows) BY <2>1, CatRows DEF Sys, AttrRows
    <3> DEFINE cat == rels
    <3> HIDE DEF cat
    <3>3. checkTableNameExist(cat, name) = 0 /\ getRelationAttrs(cat, name) = <<>>
      BY <3>1, <3>2, LookupNone DEF cat
    <3> QED BY <2>5, <3>3 DEF cat
  <2> QED BY <2>4, <2>5
<1>2. LookInv /\ KeptInv /\ KeptInv' /\ IdInv /\ OthersSame /\ [Next]_catVars => LookInv'
  BY StepLooks
<1> QED
  BY InitId, InitKept, InitLooks, StepKeepsIds, StepKept, <1>1, <1>2, PTL DEF Spec
=============================================================================
