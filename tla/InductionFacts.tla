--------------------------- MODULE InductionFacts ---------------------------
(***************************************************************************)
(* Induction on numbers as facts about sets of numbers, functions defined  *)
(* by iteration, and lists that are joined: what the proofs about loops    *)
(* rest on.                                                                *)
(***************************************************************************)
EXTENDS Integers, Sequences, SequencesExt, SequenceTheorems, NaturalsInduction,
        WellFoundedInduction, TLAPS

-----------------------------------------------------------------------------
\* Induction, as a fact about sets, and functions defined by iteration.

LEMMA LeastOf ==
  ASSUME NEW S \in SUBSET Nat, S # {}
  PROVE  \E x \in S : \A y \in S : x <= y
<1>1. PICK x \in S : \A y \in S : ~(<<y, x>> \in OpToRel(<, Nat))
  BY NatLessThanWellFounded, WFMin, Zenon
<1>2. \A y \in S : x <= y
  <2> TAKE y \in S
  <2>1. ~(y < x) BY <1>1 DEF OpToRel
  <2>2. x \in Nat /\ y \in Nat OBVIOUS
  <2> QED BY <2>1, <2>2
<1> QED BY <1>2

LEMMA UpTo ==
  ASSUME NEW L \in Nat, NEW T, 0 \in T, \A n \in 0 .. L - 1 : n \in T => n + 1 \in T
  PROVE  0 .. L \subseteq T
<1> SUFFICES ASSUME (0 .. L) \ T # {} PROVE FALSE OBVIOUS
<1> DEFINE S == (0 .. L) \ T
<1>0. S \in SUBSET Nat /\ S # {} OBVIOUS
<1>1. PICK x \in S : \A y \in S : x <= y
  <2> HIDE DEF S
  <2> QED BY <1>0, LeastOf
<1>2. x # 0 OBVIOUS
<1>3. x - 1 \in 0 .. L - 1 BY <1>2
<1>4. x - 1 \in T BY <1>1, <1>3
<1>5. x - 1 + 1 = x OBVIOUS
<1> QED BY <1>3, <1>4, <1>5

LEMMA Below ==
  ASSUME NEW L \in Nat, NEW T,
         \A n \in 1 .. L : (\A m \in 1 .. n - 1 : m \in T) => n \in T
  PROVE  1 .. L \subseteq T
<1> SUFFICES ASSUME (1 .. L) \ T # {} PROVE FALSE OBVIOUS
<1> DEFINE S == (1 .. L) \ T
<1>0. S \in SUBSET Nat /\ S # {} OBVIOUS
<1>1. PICK x \in S : \A y \in S : x <= y
  <2> HIDE DEF S
  <2> QED BY <1>0, LeastOf
<1>2. \A m \in 1 .. x - 1 : m \in T BY <1>1
<1> QED BY <1>1, <1>2

\* f is defined on 0 .. L by what it is at 0 and how it goes on.
Iterated(f, L, a, s) ==
  f = [n \in 0 .. L |-> IF n = 0 THEN a ELSE s[<<f[n - 1], n>>]]

LEMMA IteratedExists ==
  ASSUME NEW S, NEW a \in S, NEW s \in [S \X Nat -> S], NEW L \in Nat
  PROVE  \E f \in [0 .. L -> S] : Iterated(f, L, a, s)
<1> DEFINE T == {n \in Nat : \E f \in [0 .. n -> S] : Iterated(f, n, a, s)}
<1>1. 0 \in T
  <2> DEFINE g == [n \in 0 .. 0 |-> a]
  <2>1. g \in [0 .. 0 -> S] OBVIOUS
  <2>2. g = [n \in 0 .. 0 |-> IF n = 0 THEN a ELSE s[<<g[n - 1], n>>]] OBVIOUS
  <2> QED BY <2>1, <2>2 DEF Iterated
<1>2. ASSUME NEW n \in 0 .. L - 1, n \in T PROVE n + 1 \in T
  <2>1. PICK f \in [0 .. n -> S] : Iterated(f, n, a, s) BY <1>2
  <2> DEFINE g == [k \in 0 .. n + 1 |-> IF k = n + 1 THEN s[<<f[n], n + 1>>] ELSE f[k]]
  <2>2. g \in [0 .. n + 1 -> S]
    <3>1. s[<<f[n], n + 1>>] \in S OBVIOUS
    <3>2. \A k \in 0 .. n + 1 : k # n + 1 => k \in 0 .. n OBVIOUS
    <3> QED BY <3>1, <3>2
  <2>3. ASSUME NEW k \in 0 .. n + 1
        PROVE  g[k] = IF k = 0 THEN a ELSE s[<<g[k - 1], k>>]
    <3>1. \A m \in 0 .. n : f[m] = IF m = 0 THEN a ELSE s[<<f[m - 1], m>>]
      BY <2>1 DEF Iterated
    <3>2. CASE k = n + 1
      <4>1. k - 1 = n /\ k - 1 \in 0 .. n + 1 /\ k # 0 BY <3>2
      <4>2. g[k - 1] = f[n] BY <4>1
      <4>3. g[k] = s[<<f[n], n + 1>>] BY <3>2
      <4> QED BY <3>2, <4>1, <4>2, <4>3
    <3>3. CASE k # n + 1
      <4>1. k \in 0 .. n BY <3>3
      <4>2. g[k] = f[k] BY <3>3
      <4>3. k # 0 => g[k - 1] = f[k - 1] BY <4>1
      <4> QED BY <3>1, <4>1, <4>2, <4>3
    <3> QED BY <3>2, <3>3
  <2>4. Iterated(g, n + 1, a, s) BY <2>3 DEF Iterated
  <2>5. n + 1 \in Nat OBVIOUS
  <2> QED BY <2>2, <2>4, <2>5
<1>3. 0 .. L \subseteq T
  <2> HIDE DEF T
  <2> QED BY <1>1, <1>2, UpTo
<1>4. L \in T BY <1>3
<1> QED BY <1>4

\* The lists of a list are joined one after the other.
LEMMA FlattenIs ==
  ASSUME NEW S, NEW seqs \in Seq(Seq(S)), Len(seqs) # 0
  PROVE  \E f : /\ f = [i \in 1 .. Len(seqs) |-> IF i = 1 THEN seqs[i] ELSE f[i - 1] \o seqs[i]]
                /\ FlattenSeq(seqs) = f[Len(seqs)]
<1> DEFINE L == Len(seqs)
           Flat(f) == f = [i \in 1 .. L |-> IF i = 1 THEN seqs[i] ELSE f[i - 1] \o seqs[i]]
           s == [p \in Seq(S) \X Nat |-> IF p[2] \in 1 .. L THEN p[1] \o seqs[p[2]] ELSE <<>>]
<1>1. L \in Nat /\ \A i \in 1 .. L : seqs[i] \in Seq(S) OBVIOUS
<1>2. <<>> \in Seq(S) OBVIOUS
<1>3. s \in [Seq(S) \X Nat -> Seq(S)]
  <2>1. ASSUME NEW p \in Seq(S) \X Nat
        PROVE  (IF p[2] \in 1 .. L THEN p[1] \o seqs[p[2]] ELSE <<>>) \in Seq(S)
    <3>1. p[1] \in Seq(S) OBVIOUS
    <3> QED BY <1>1, <1>2, <3>1
  <2> QED BY <2>1
<1>4. PICK g \in [0 .. L -> Seq(S)] : Iterated(g, L, <<>>, s)
  <2> HIDE DEF s, L
  <2> QED BY <1>1, <1>2, <1>3, IteratedExists
<1>5. \A n \in 1 .. L : g[n - 1] \in Seq(S) /\ g[n] = g[n - 1] \o seqs[n]
  <2> TAKE n \in 1 .. L
  <2>1. g[n - 1] \in Seq(S) OBVIOUS
  <2>2. g[n] = s[<<g[n - 1], n>>]
    <3> HIDE DEF s, L
    <3>1. n \in 0 .. L /\ n # 0 BY <1>1
    <3> QED BY <1>4, <3>1 DEF Iterated
  <2>3. s[<<g[n - 1], n>>] = g[n - 1] \o seqs[n]
    <3> DEFINE x == <<g[n - 1], n>>
    <3>1. x \in Seq(S) \X Nat /\ x[1] = g[n - 1] /\ x[2] = n BY <1>1, <2>1
    <3> HIDE DEF x
    <3>2. s[x] = IF x[2] \in 1 .. L THEN x[1] \o seqs[x[2]] ELSE <<>> BY <3>1
    <3> HIDE DEF s, L
    <3>3. s[x] = x[1] \o seqs[x[2]] BY <3>1, <3>2
    <3> QED BY <3>1, <3>3 DEF x
  <2> QED BY <2>1, <2>2, <2>3
<1>6. g[0] = <<>> BY <1>1, <1>4 DEF Iterated
<1> DEFINE f == [n \in 1 .. L |-> g[n]]
<1>7. Flat(f)
  <2> SUFFICES ASSUME NEW i \in 1 .. L
               PROVE  g[i] = IF i = 1 THEN seqs[i] ELSE f[i - 1] \o seqs[i]
    OBVIOUS
  <2>1. CASE i = 1
    <3>1. seqs[1] \in Seq(S) BY <1>1, <2>1
    <3>2. <<>> \o seqs[1] = seqs[1] BY <3>1, ConcatEmptySeq
    <3>3. g[1] = g[0] \o seqs[1]
      <4>1. 1 - 1 = 0 /\ 1 \in 1 .. L BY <2>1
      <4> HIDE DEF L
      <4> QED BY <1>5, <4>1
    <3> QED BY <1>6, <2>1, <3>2, <3>3
  <2>2. CASE i # 1
    <3>1. i - 1 \in 1 .. L BY <2>2
    <3> HIDE DEF L
    <3> QED BY <1>5, <2>2, <3>1
  <2> QED BY <2>1, <2>2
<1>8. Flat(CHOOSE h : Flat(h))
  <2> HIDE DEF Flat
  <2> QED BY <1>7
<1>9. FlattenSeq(seqs) = (CHOOSE h : Flat(h))[L]
  BY Zenon DEF FlattenSeq
<1> QED BY <1>8, <1>9
=============================================================================
