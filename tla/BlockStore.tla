------------------------------ MODULE BlockStore ------------------------------
(***************************************************************************)
(* What the buffer manager promises its clients: a store of blocks. There  *)
(* are no buffers, flags or hash here. A client that loaded a block sees   *)
(* the content the block has, whoever wrote it last; a write becomes       *)
(* durable at the latest when the store is closed, and a crash takes each  *)
(* block back to its durable content. The exception is a write that was    *)
(* spilled into another block than the one the client opened: the store    *)
(* may forget it whenever it brings in a block.                            *)
(***************************************************************************)
EXTENDS Integers

CONSTANTS
  Blocks,   \* the blocks of all files
  Scans,    \* the scans that read them
  Vals,     \* what a block may contain
  Fresh,    \* the content of a block just added
  Zeroed    \* the block is not there

VARIABLES
  val,      \* the content clients read
  durable,  \* the content a crash leaves
  loose,    \* the blocks whose content was spilled and need not be kept
  hand,     \* {<<block, content>>} the caller sees, or {}
  scan      \* the same for each scan

storeVars == <<val, durable, loose, hand, scan>>

Sees(blk) == {<<blk, val[blk]>>}

Init ==
  /\ val = [blk \in Blocks |-> Zeroed]
  /\ durable = val
  /\ loose = {}
  /\ hand = {}
  /\ scan = [s \in Scans |-> {}]

\* While a block is being brought in, others may become durable, and loose ones
\* fall back to what they were.
BringIn ==
  /\ loose' \subseteq loose
  /\ val' = [blk \in Blocks |-> IF blk \in loose \ loose' THEN durable[blk]
                                                         ELSE val[blk]]
  /\ DOMAIN durable' = Blocks
  /\ \A blk \in Blocks : durable'[blk] \in {durable[blk], val'[blk]}

Open(blk) ==
  /\ val[blk] # Zeroed
  /\ hand' = {<<blk, val'[blk]>>}
  /\ BringIn
  /\ UNCHANGED scan

\* A block is brought in that no client watches.
Pass ==
  /\ hand' \in {hand, {}}
  /\ BringIn
  /\ UNCHANGED scan

\* The content of a block becomes v, also for the scans that see it.
Put(blk, v) ==
  /\ val' = [val EXCEPT ![blk] = v]
  /\ scan' = [s \in Scans |-> IF scan[s] = Sees(blk) THEN {<<blk, v>>} ELSE scan[s]]
  /\ UNCHANGED durable

Write(blk, v) ==
  /\ hand = Sees(blk)
  /\ Put(blk, v)
  /\ hand' = {<<blk, v>>}
  /\ loose' = loose \ {blk}

\* The client wants to write the block `full` it opened, and blk is written.
Spill(full, blk, v) ==
  /\ full # blk /\ hand = Sees(full)
  /\ Put(blk, v)
  /\ loose' = (loose \cup {blk}) \ {full}
  /\ UNCHANGED hand

Sync(blk) ==
  /\ hand = Sees(blk)
  /\ durable' = [durable EXCEPT ![blk] = IF blk \in loose THEN @ ELSE val[blk]]
  /\ hand' = {}
  /\ UNCHANGED <<val, loose, scan>>

Add(blk) ==
  /\ val[blk] = Zeroed
  /\ val' = [val EXCEPT ![blk] = Fresh]
  /\ durable' = [durable EXCEPT ![blk] = Fresh]
  /\ UNCHANGED <<loose, hand, scan>>

ScanTo(s, blk) ==
  /\ val[blk] # Zeroed
  /\ BringIn
  /\ scan' = [scan EXCEPT ![s] = {<<blk, val'[blk]>>}]
  /\ hand' = {}

Forget ==
  /\ val' = durable'
  /\ hand' = {} /\ scan' = [s \in Scans |-> {}]
  /\ loose' = {}

Close ==
  /\ durable' = [blk \in Blocks |-> IF blk \in loose THEN durable[blk] ELSE val[blk]]
  /\ Forget

Crash ==
  /\ UNCHANGED durable
  /\ Forget

Next ==
  \/ \E blk \in Blocks : Open(blk) \/ Sync(blk) \/ Add(blk)
  \/ \E blk \in Blocks, v \in Vals : Write(blk, v)
  \/ \E full, blk \in Blocks, v \in Vals : Spill(full, blk, v)
  \/ Pass
  \/ \E s \in Scans, blk \in Blocks : ScanTo(s, blk)
  \/ Close
  \/ Crash

Spec == Init /\ [][Next]_storeVars
=============================================================================
