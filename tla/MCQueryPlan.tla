----------------------------- MODULE MCQueryPlan -----------------------------
(***************************************************************************)
(* Statements over one to three relations: some targets, and conditions of *)
(* up to three comparisons.                                                *)
(***************************************************************************)
EXTENDS QueryPlan

CONSTANT MCLists   \* which of the lists of relations below

a == "a"
b == "b"
c == "c"
d == "d"
Lists == <<
  <<<<a, b>>>>, <<<<a, b, c>>>>,
  <<<<a, b>>, <<c, d>>>>, <<<<a, b>>, <<b>>>>, <<<<a>>, <<b, c, d>>>>,
  <<<<a, b, c>>, <<d>>>>,
  <<<<a>>, <<b, c>>, <<d>>>> >>

Name(t, n) == [table |-> t, name |-> n]
Columns(from) ==
  UNION {{Name(NULL, from[i][j]) : j \in DOMAIN from[i]} : i \in DOMAIN from}
    \cup {Name(i, from[i][Len(from[i])]) : i \in DOMAIN from}
Col(n) == [op |-> "column", name |-> n, args |-> <<>>]
One == [op |-> "item", val |-> 1, args |-> <<>>]
Op(op, l, r) == [op |-> op, args |-> <<l, r>>]

\* A column equals 1, the first column of a relation is less than the last of
\* another, and 1 < 1.
Last1(from, i) == Name(i, from[i][Len(from[i])])
Atoms(from) ==
  {Op("EQUAL", Col(n), One) : n \in {Name(NULL, from[i][j]) : <<i, j>> \in
       {p \in (DOMAIN from) \X (1 .. 3) : p[2] \in DOMAIN from[p[1]]}}}
    \cup {Op("LESS", Col(Name(i, from[i][1])), Col(Last1(from, k))) :
            <<i, k>> \in {p \in (DOMAIN from) \X (DOMAIN from) : p[1] < p[2]}}
    \cup {Op("LESS", One, One)}
MCConds(from) ==
  LET at == Atoms(from)
      two == {Op(op, x, y) : op \in {"AND", "OR"}, x \in at, y \in at}
  IN  {NULL} \cup at \cup two
        \cup {Op("AND", x, y) : x \in two, y \in at}
MCTargets(from) ==
  {NULL} \cup {<<n>> : n \in Columns(from)}
    \cup {<<Last1(from, Len(from)), Name(1, from[1][1])>>}
MCFroms == {Lists[k] : k \in MCLists}
=============================================================================
