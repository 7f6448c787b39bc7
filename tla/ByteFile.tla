------------------------------- MODULE ByteFile -------------------------------
(***************************************************************************)
(* What a temporary file promises: bytes that are written and read from a  *)
(* place, which goes back to the start when a writer follows a reader or a *)
(* reader a writer. Only the first Window bytes can be read, and only as   *)
(* many as there are; a read that asks for more gives anything, and so do  *)
(* those after it until the next change of direction. Nothing that is read *)
(* changes the bytes.                                                      *)
(***************************************************************************)
EXTENDS Integers, Sequences

CONSTANTS Bytes, Window

VARIABLES
  content,   \* the bytes
  at,        \* how many are before the place
  way,       \* who goes on from there: "write", "read" or "nothing"
  pending,   \* what a write in progress has still to put
  want, got, \* how many bytes a read in progress still needs, and what it has
  sound      \* no read has asked for too much

byteVars == <<content, at, way, pending, want, got, sound>>

Longer(m, n) == IF m < n THEN n ELSE m

\* The bytes f with those of s in the place of what is behind the first p.
Overlay(f, p, s) ==
  [i \in 1 .. Longer(Len(f), p + Len(s)) |->
     IF i \in p + 1 .. p + Len(s) THEN s[i - p] ELSE f[i]]

Init ==
  /\ content \in Seq(Bytes) /\ at = 0 /\ way = "nothing" /\ sound = TRUE
  /\ pending = <<>> /\ want = 0 /\ got = <<>>

Turned(to) ==
  /\ way' = to
  /\ IF way = to THEN UNCHANGED <<at, sound>> ELSE at' = 0 /\ sound' = TRUE

Write ==
  /\ pending = <<>> /\ want = 0
  /\ pending' \in Seq(Bytes) /\ got' = <<>>
  /\ Turned("write") /\ UNCHANGED <<content, want>>

Put ==
  \E n \in 1 .. Len(pending) :
    /\ content' = Overlay(content, at, SubSeq(pending, 1, n))
    /\ at' = at + n
    /\ pending' = SubSeq(pending, n + 1, Len(pending))
    /\ UNCHANGED <<way, want, got, sound>>

Read ==
  /\ pending = <<>> /\ want = 0
  /\ want' \in Nat /\ got' = <<>>
  /\ Turned("read") /\ UNCHANGED <<content, pending>>

Get ==
  /\ sound
  /\ \E n \in 1 .. want :
       /\ at + n <= Window /\ at + n <= Len(content)
       /\ got' = got \o SubSeq(content, at + 1, at + n)
       /\ at' = at + n /\ want' = want - n
  /\ UNCHANGED <<content, way, pending, sound>>

Overreach ==
  /\ sound => at + want > Window \/ at + want > Len(content)
  /\ sound' = FALSE
  /\ UNCHANGED <<content, way, pending>>

Rewind ==
  /\ pending = <<>> /\ want = 0
  /\ at' = 0 /\ way' = "nothing" /\ sound' = TRUE
  /\ UNCHANGED <<content, pending, want, got>>

Next == Write \/ Put \/ Read \/ Get \/ Overreach \/ Rewind

Spec == Init /\ [][Next]_byteVars
=============================================================================
