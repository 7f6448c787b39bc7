----------------------------- MODULE MCCatalog -----------------------------
(***************************************************************************)
(* Instances of Catalog for TLC.                                           *)
(***************************************************************************)
EXTENDS Catalog

Attr(key, constraints) == [key |-> key, constraints |-> constraints]

\* One and two attributes, with keys in each order, and ones that are refused.
MCDefinitions ==
  {<<Attr("a", <<>>)>>,
   <<Attr("a", <<"AUTO", "PRIMARY KEY">>), Attr("b", <<"NOT NULL">>)>>,
   <<Attr("a", <<"NULL", "NOT NULL">>)>>,
   <<Attr("a", <<"AUTO">>)>>,
   <<Attr("a", <<"PRIMARY KEY">>), Attr("b", <<"AUTO">>)>>,
   <<Attr("a", <<"AUTO">>), Attr("b", <<"PRIMARY KEY">>)>>,
   <<Attr("a", <<"FOREIGN KEY">>), Attr("b", <<"PRIMARY KEY">>)>>,
   <<Attr("b", <<"PRIMARY KEY">>), Attr("a", <<"FOREIGN KEY">>)>>}
=============================================================================
