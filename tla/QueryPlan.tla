------------------------------ MODULE QueryPlan ------------------------------
(***************************************************************************)
(* How a SELECT becomes a tree of executor states, and what the tree gives *)
(* (parser/analyze.c, utils/expr.c, exectutor/exectutor.c).                *)
(*                                                                         *)
(* The tree is Select over the projection to the targets over a left-deep  *)
(* chain of joins over scans, and over a scan lies a projection to the     *)
(* columns that are used if those are not all. The condition starts at the *)
(* top of the joins; optimize_expr moves its conjuncts down and renumbers  *)
(* the columns of what stays.                                              *)
(*                                                                         *)
(* A relation is its place in FROM: a relation is named there once. It     *)
(* holds every row over Values, so that a row is a function from attribute *)
(* numbers, and a row of a join is a function from relations to rows.      *)
(***************************************************************************)
EXTENDS Integers, Sequences, FiniteSetsExt, SequencesExt

CONSTANTS
  Froms,         \* lists of relations, each its attributes' names
  TargetsOf(_),  \* lists of names to select from such a list, or NULL for *
  CondsOf(_),    \* conditions on such a list, or NULL for none
  Values,        \* the values of an attribute
  NULL

VARIABLES
  query,     \* the statement (it does not change)
  relInfo,   \* columnsUsed and columNum of RelationInfo
  plan,      \* the states: child, rels (baseRelation), expr, indexMap
  todo,      \* the calls of optimize_expr that are to be made or to return
  status     \* "parsed", "rejected" (ERROR), "dead", "planned", "done" or "undefined"

planVars == <<query, relInfo, plan, todo, status>>

-----------------------------------------------------------------------------
\* Columns. A name in the statement may say which relation is meant.

relNum == Len(query.from)
Rels == 1 .. relNum
Size(i) == Len(query.from[i])
base(i) == FoldLeft(LAMBDA sum, attrs : sum + Len(attrs), 0, SubSeq(query.from, 1, i - 1))

\* The relations and attribute numbers that a name may stand for.
Denoted(name) ==
  {c \in UNION {{i} \X (0 .. Size(i) - 1) : i \in Rels} :
     name.table \in {NULL, c[1]} /\ query.from[c[1]][c[2] + 1] = name.name}

\* The column a name stands for; the code accepts no other number than one.
getAttrElem(name) == CHOOSE c \in Denoted(name) : TRUE

RECURSIVE Names(_)
Names(cond) ==
  IF cond.op = "column" THEN {cond.name}
  ELSE UNION {Names(cond.args[k]) : k \in DOMAIN cond.args}

-----------------------------------------------------------------------------
\* Expressions: an operator, its operands, and the relations it is about
\* (relsOidArray, which is not updated when operands are taken out). A column
\* also keeps, as a history, what it denotes.

RECURSIVE getExpr(_)
getExpr(cond) ==
  IF cond.op = "column"
  THEN LET c == getAttrElem(cond.name)
       IN  [op |-> "column", id |-> c[2] + base(c[1]), rels |-> {c[1]}, args |-> <<>>,
            of |-> c]
  ELSE IF cond.op = "item"
  THEN [op |-> "item", val |-> cond.val, rels |-> {}, args |-> <<>>]
  ELSE LET args == [k \in DOMAIN cond.args |-> getExpr(cond.args[k])]
       IN  [op |-> cond.op, args |-> args, rels |-> UNION {args[k].rels : k \in DOMAIN args}]

RECURSIVE ExprColumns(_)
ExprColumns(e) ==
  IF e = NULL THEN {}
  ELSE IF e.op = "column" THEN {e}
  ELSE UNION {ExprColumns(e.args[k]) : k \in DOMAIN e.args}

\* (mutant) what was in the state is overwritten.
ConstructAndLast(have, e) == e

ConstructAndExpr(have, e) ==
  [op |-> "AND", args |-> <<have, e>>, rels |-> have.rels \cup e.rels]

checkStateIncludeExpr(rels, e) == e.rels \subseteq rels

\* (mutant) a conjunct that was pushed is not taken out.
RECURSIVE PushCopies(_, _, _)
PushCopies(rels, have, e) ==
  IF e = NULL THEN [have |-> have, rest |-> NULL]
  ELSE IF checkStateIncludeExpr(rels, e)
  THEN [have |-> IF have = NULL THEN e ELSE ConstructAndExpr(have, e), rest |-> NULL]
  ELSE IF e.op = "AND"
  THEN LET left == PushCopies(rels, have, e.args[1])
           right == PushCopies(rels, left.have, e.args[2])
       IN  [have |-> right.have, rest |-> e]
  ELSE [have |-> have, rest |-> e]

\* What a state over rels has after e was pushed to it, and what is left of e.
RECURSIVE push_expr(_, _, _)
push_expr(rels, have, e) ==
  IF e = NULL THEN [have |-> have, rest |-> NULL]
  ELSE IF checkStateIncludeExpr(rels, e)
  THEN [have |-> IF have = NULL THEN e ELSE ConstructAndExpr(have, e), rest |-> NULL]
  ELSE IF e.op = "AND"
  THEN LET left == push_expr(rels, have, e.args[1])
           right == push_expr(rels, left.have, e.args[2])
       IN  [have |-> right.have, rest |-> [e EXCEPT !.args = <<left.rest, right.rest>>]]
  ELSE [have |-> have, rest |-> e]

-----------------------------------------------------------------------------
\* The columns used. One array holds them for all relations, relNum entries
\* for each; the entries of a longer relation reach into those of the next,
\* whose numbers are written later.

Entry(i, j) == (i - 1) * relNum + j
Entries(i) == {Entry(i, j) : j \in 0 .. Size(i) - 1}

\* The relation that the number in an entry was written for.
Owner(x) == Max({i \in Rels : x \in Entries(i)})

Targets == {getAttrElem(query.targets[k]) : k \in DOMAIN query.targets}

\* Entries of the columns of the targets and of the condition; all, for *.
UsedEntries(expr) ==
  IF query.targets = NULL THEN UNION {Entries(i) : i \in Rels}
  ELSE {Entry(c[1], c[2]) : c \in Targets \cup {e.of : e \in ExprColumns(expr)}}

\* Used columns are numbered from 1 within their relation.
Numbered(used) ==
  LET Count(i, j) == Cardinality({k \in 0 .. j : Entry(i, k) \in used})
  IN  [columnsUsed |-> [x \in UNION {Entries(i) : i \in Rels} |->
          IF x \in used THEN Count(Owner(x), x - Entry(Owner(x), 0)) ELSE 0],
       columNum |-> [i \in Rels |-> Count(i, Size(i) - 1)]]

Number(info, i, j) == info.columnsUsed[Entry(i, j)]

\* The columns of the relations from first on that come before those of i.
Offset(info, first, i) == FoldSet(LAMBDA k, sum : sum + info.columNum[k], 0, first .. i - 1)

-----------------------------------------------------------------------------
\* The tree. A state is named by its kind and the relation it adds.

Scan(i) == <<"scan", i>>
Projection(i) == <<"projection", i>>
Join(i) == <<"join", i>>
Select == <<"select", 0>>
Final == <<"projection", 0>>

Narrowed(info, i) == info.columNum[i] < Size(i)
Leaf(info, i) == IF Narrowed(info, i) THEN Projection(i) ELSE Scan(i)
Top(info, i) == IF i = 1 THEN Leaf(info, 1) ELSE Join(i)

State(child, rels, indexMap) ==
  [child |-> child, rels |-> rels, expr |-> NULL, indexMap |-> indexMap]

\* Entry k of the map is the last attribute with that number; 0 if there is none.
NarrowMap(info, i) ==
  [k \in 1 .. info.columNum[i] |->
     Max({0} \cup {j \in 0 .. Size(i) - 1 : Number(info, i, j) = k})]

\* Where the targets are in the rows of the joins.
FinalMap(info) ==
  [k \in DOMAIN query.targets |->
     LET c == getAttrElem(query.targets[k])
     IN  Offset(info, 1, c[1]) + Number(info, c[1], c[2]) - 1]

\* analyze_handleJoin, and the projection and the select state over it. The
\* whole condition is put on the top of the joins.
Tree(info, expr) ==
  LET top == Top(info, relNum)
      first == IF query.targets = NULL THEN top ELSE Final
      nodes == {Scan(i) : i \in Rels} \cup {Projection(i) : i \in {k \in Rels : Narrowed(info, k)}}
                 \cup {Join(i) : i \in 2 .. relNum} \cup {first, Select}
      Made(n) ==
        CASE n = Select -> State(<<first>>, Rels, <<>>)
          [] n = Final -> State(<<top>>, Rels, FinalMap(info))
          [] n[1] = "projection" /\ n[2] > 0 -> State(<<Scan(n[2])>>, {n[2]}, NarrowMap(info, n[2]))
          [] n[1] = "scan" -> State(<<>>, {n[2]}, <<>>)
          [] n[1] = "join" -> State(<<Top(info, n[2] - 1), Leaf(info, n[2])>>, 1 .. n[2], <<>>)
  IN  [n \in nodes |-> IF n = top THEN [Made(n) EXCEPT !.expr = expr] ELSE Made(n)]

Init ==
  /\ \E from \in Froms : \E where \in CondsOf(from), targets \in TargetsOf(from) :
       query = [from |-> from, targets |-> targets, where |-> where]
  /\ relInfo = NULL /\ plan = NULL /\ todo = <<>> /\ status = "parsed"

\* analyze_SelectTable up to the call of optimize_expr. A name that stands for
\* no column or for two is an error. If the first relation has no column that
\* is used, the size of the join's array is divided by a row's length of 0.
analyze_SelectTable ==
  LET names == (IF query.where = NULL THEN {} ELSE Names(query.where))
                 \cup (IF query.targets = NULL THEN {} ELSE Range(query.targets))
      expr == IF query.where = NULL THEN NULL ELSE getExpr(query.where)
      info == Numbered(UsedEntries(expr))
  IN  /\ status = "parsed"
      /\ IF \E name \in names : Cardinality(Denoted(name)) # 1
         THEN status' = "rejected" /\ UNCHANGED <<relInfo, plan, todo>>
         ELSE /\ relInfo' = info
              /\ plan' = Tree(info, expr)
              /\ IF relNum > 1 /\ info.columNum[1] = 0
                 THEN status' = "dead" /\ UNCHANGED todo
                 ELSE status' = "planned" /\ todo' = <<<<"push", Select>>>>
      /\ UNCHANGED query

\* The condition of n is offered to its first child and what is left of it to
\* the second. A condition that is NULL is not offered.
Pushed(tree, n) ==
  FoldLeft(LAMBDA t, c :
             LET p == push_expr(t[c].rels, t[c].expr, t[n].expr)
             IN  [t EXCEPT ![c].expr = p.have, ![n].expr = p.rest],
           tree, tree[n].child)

\* optimize_expr: the condition is pushed down, then the children are optimised,
\* then the columns of what is left are renumbered.
PushDown ==
  /\ status = "planned" /\ todo # <<>> /\ Head(todo)[1] = "push"
  /\ LET n == Head(todo)[2]
     IN  /\ plan' = Pushed(plan, n)
         /\ todo' = [k \in DOMAIN plan[n].child |-> <<"push", plan[n].child[k]>>]
                      \o <<<<"rewrite", n>>>> \o Tail(todo)
  /\ UNCHANGED <<query, relInfo, status>>

\* (mutant) relations before the state's first one are counted.
RECURSIVE RewriteFromFirst(_, _)
RewriteFromFirst(e, first) ==
  IF e = NULL THEN NULL
  ELSE IF e.op = "column"
  THEN [e EXCEPT !.id = Offset(relInfo, 1, e.of[1]) + Number(relInfo, e.of[1], e.of[2]) - 1]
  ELSE [e EXCEPT !.args = [k \in DOMAIN @ |-> RewriteFromFirst(@[k], first)]]

\* A column gets its place among the used columns of the relations from first on.
RECURSIVE rewrite_column_item(_, _)
rewrite_column_item(e, first) ==
  IF e = NULL THEN NULL
  ELSE IF e.op = "column"
  THEN LET i == Max(e.rels)
       IN  [e EXCEPT !.id = Offset(relInfo, first, i) + Number(relInfo, i, @ - base(i)) - 1]
  ELSE [e EXCEPT !.args = [k \in DOMAIN @ |-> rewrite_column_item(@[k], first)]]

Renumber ==
  /\ status = "planned" /\ todo # <<>> /\ Head(todo)[1] = "rewrite"
  /\ LET n == Head(todo)[2]
     IN  plan' = [plan EXCEPT ![n].expr = rewrite_column_item(@, Min(plan[n].rels))]
  /\ todo' = Tail(todo)
  /\ UNCHANGED <<query, relInfo, status>>

-----------------------------------------------------------------------------
\* Running the tree. A row of a state is given by the row of each relation it
\* is made from; RowColumns says which columns it shows.

RECURSIVE RowColumns(_)
RowColumns(n) ==
  CASE n[1] = "scan" -> [j \in 1 .. Size(n[2]) |-> <<n[2], j - 1>>]
    [] n[1] = "projection" ->
         [k \in DOMAIN plan[n].indexMap |-> RowColumns(plan[n].child[1])[plan[n].indexMap[k] + 1]]
    [] n[1] = "join" -> RowColumns(plan[n].child[1]) \o RowColumns(plan[n].child[2])
    [] n[1] = "select" -> RowColumns(plan[n].child[1])

Calculate(op, args) ==
  CASE op = "AND" -> args[1] /\ args[2]
    [] op = "OR" -> args[1] \/ args[2]
    [] op = "EQUAL" -> args[1] = args[2]
    [] op = "LESS" -> args[1] < args[2]

RECURSIVE Expr_Calculate(_, _, _)
Expr_Calculate(e, columns, rows) ==
  IF e = NULL THEN TRUE
  ELSE IF e.op = "column"
  THEN LET c == columns[e.id + 1] IN rows[c[1]][c[2]]
  ELSE IF e.op = "item" THEN e.val
  ELSE Calculate(e.op, [k \in DOMAIN e.args |-> Expr_Calculate(e.args[k], columns, rows)])

TableRows(i) == [0 .. Size(i) - 1 -> Values]

\* checkTuple is asked by scans, joins and the select, not by projections.
RECURSIVE RowsOf(_)
RowsOf(n) ==
  LET child == plan[n].child
      given == CASE n[1] = "scan" -> [{n[2]} -> TableRows(n[2])]
                 [] n[1] = "join" -> {l @@ r : l \in RowsOf(child[1]), r \in RowsOf(child[2])}
                 [] n[1] \in {"projection", "select"} -> RowsOf(child[1])
  IN  IF n[1] = "projection" THEN given
      ELSE {rows \in given : Expr_Calculate(plan[n].expr, RowColumns(n), rows)}

\* Every column of a condition is in the row it is asked of.
InRow(n) ==
  \A e \in ExprColumns(plan[n].expr) : e.id < Len(RowColumns(n))

\* A join of no inner rows gives rows that were never filled.
EmptyInner ==
  \E i \in 2 .. relNum : RowsOf(Top(relInfo, i - 1)) = {} /\ RowsOf(Leaf(relInfo, i)) # {}

\* execSelect: what is printed is RowsOf(Select), in the order of the joins.
execSelect ==
  /\ status = "planned" /\ todo = <<>>
  /\ status' = IF (\A n \in DOMAIN plan : InRow(n)) /\ ~EmptyInner THEN "done" ELSE "undefined"
  /\ UNCHANGED <<query, relInfo, plan, todo>>

Next == analyze_SelectTable \/ PushDown \/ Renumber \/ execSelect
Spec == Init /\ [][Next]_planVars

-----------------------------------------------------------------------------
\* What the statement means.

RECURSIVE Holds(_, _)
Holds(cond, rows) ==
  IF cond.op = "column" THEN LET c == getAttrElem(cond.name) IN rows[c[1]][c[2]]
  ELSE IF cond.op = "item" THEN cond.val
  ELSE Calculate(cond.op, [k \in DOMAIN cond.args |-> Holds(cond.args[k], rows)])

\* The rows of the product of the relations for which the condition holds.
Meant ==
  {rows \in {r \in [Rels -> UNION {TableRows(i) : i \in Rels}] :
               \A i \in Rels : r[i] \in TableRows(i)} :
     query.where = NULL \/ Holds(query.where, rows)}

\* The conjuncts of a condition, in order, each without what renumbering changes.
RECURSIVE Erased(_)
Erased(e) ==
  IF e.op = "column" THEN [e EXCEPT !.id = 0]
  ELSE IF e.op = "item" THEN e
  ELSE [e EXCEPT !.args = [k \in DOMAIN @ |-> Erased(@[k])]]

RECURSIVE Conjuncts(_)
Conjuncts(e) ==
  IF e = NULL THEN <<>>
  ELSE IF e.op = "AND" THEN Conjuncts(e.args[1]) \o Conjuncts(e.args[2])
  ELSE <<Erased(e)>>

\* The entries of two relations do not meet.
Dense == \A i \in 1 .. relNum - 1 : Size(i) <= relNum

\* A scan under a projection keeps the numbers of the columns it tests.
Renumbered(i) ==
  \E e \in ExprColumns(plan[Scan(i)].expr) : Number(relInfo, i, e.of[2]) # e.of[2] + 1

-----------------------------------------------------------------------------
\* Properties

\* While conditions move, no conjunct of the statement is lost or doubled, and
\* none is at a state that lacks a relation it is about (analyze.c:638-671).
ConjunctsKept ==
  (status \in {"planned", "done"} /\ query.where # NULL) =>
    LET all == Conjuncts(getExpr(query.where))
        Placed(c) == {<<n, k>> \in (DOMAIN plan) \X (1 .. Len(all)) :
                        k \in DOMAIN Conjuncts(plan[n].expr) /\ Conjuncts(plan[n].expr)[k] = c}
    IN  \A k \in DOMAIN all :
          /\ Cardinality(Placed(all[k])) = Cardinality({l \in DOMAIN all : all[l] = all[k]})
          /\ \A p \in Placed(all[k]) : all[k].rels \subseteq plan[p[1]].rels

\* When the tree is planned every conjunct is tested as early as it can be: at
\* the scan of its only relation, or at the join that adds its last one.
TestedEarly ==
  (status = "planned" /\ todo = <<>>) =>
    \A n \in DOMAIN plan : \A c \in Range(Conjuncts(plan[n].expr)) :
      n = IF Cardinality(c.rels) <= 1 THEN Scan(Max(c.rels \cup {1})) ELSE Join(Max(c.rels))

\* The columns printed are the targets (analyze.c:408-431), and the rows printed
\* are the rows meant, however conditions were pushed and renumbered, if the
\* entries of the relations do not meet and, for the rows, if no scan tests a
\* column that its projection gives another number.
SelectExact ==
  (status = "done" /\ Dense) =>
    /\ query.targets # NULL =>
         RowColumns(Select) = [k \in DOMAIN query.targets |-> getAttrElem(query.targets[k])]
    /\ (~\E i \in Rels : Renumbered(i)) => RowsOf(Select) = Meant

\* A column of a condition is the number "baseid + incolumn" it has in the row
\* its state tests (analyze.c:568-574).
ColumnsMeant ==
  (status = "done") =>
    \A n \in DOMAIN plan :
      \A e \in ExprColumns(plan[n].expr) : RowColumns(n)[e.id + 1] = e.of
=============================================================================
