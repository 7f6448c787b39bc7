------------------------------- MODULE TempFile -------------------------------
(***************************************************************************)
(* A temporary file: storage/tempFile.c over the file of storage/file.c.   *)
(* One buffer serves for writing and for reading. TMF_Write and TMF_Read   *)
(* are loops, which are modelled by their iterations, since they may not   *)
(* come to an end. curPos and bufferLen are uint. fileEnd, which nothing   *)
(* reads, is left out.                                                     *)
(***************************************************************************)
EXTENDS Integers, Sequences, SequencesExt

CONSTANTS
  TMF_BUFFERSIZE,
  UintRange,    \* uint arithmetic is modulo this number
  Bytes,        \* values of a byte
  Zero,         \* the one that vmalloc0 gives
  Junk,         \* what is read behind the end of the buffer
  MaxLeft,      \* bound: bytes of a file that was left behind
  MaxLen,       \* bound: bytes that a call moves
  MaxFile,      \* bound: bytes of the file
  MaxPos        \* bound: how far reading goes on behind the buffer

ASSUME TempFileAssumption ==
  /\ TMF_BUFFERSIZE \in Nat \ {0}
  /\ UintRange \in Nat /\ TMF_BUFFERSIZE < UintRange /\ MaxPos + MaxLen < UintRange
  /\ MaxLeft \in Nat /\ MaxLen \in Nat /\ MaxFile \in Nat /\ MaxPos \in Nat
  /\ Zero \in Bytes

VARIABLES
  file,        \* the bytes on disk
  filePos,     \* how many of them are before the file's position
  buffer, curPos, bufferLen, state,
  call         \* the call in progress: op, data to write, need and got of a read

tempVars == <<file, filePos, buffer, curPos, bufferLen, state, call>>

Shorter(m, n) == IF m < n THEN m ELSE n
Longer(m, n) == IF m < n THEN n ELSE m

\* write(2) of s at position p, which is never behind the end.
Written(f, p, s) ==
  [i \in 1 .. Longer(Len(f), p + Len(s)) |->
     IF i \in p + 1 .. p + Len(s) THEN s[i - p] ELSE f[i]]

\* memcpy of s into the buffer behind its first p bytes.
Copied(buf, p, s) ==
  [i \in DOMAIN buf |-> IF i \in p + 1 .. p + Len(s) THEN s[i - p] ELSE buf[i]]

\* memcpy of n bytes that follow the first p; some may lie behind the buffer.
CopiedFrom(buf, p, n) ==
  [i \in 1 .. n |-> IF p + i \in DOMAIN buf THEN buf[p + i] ELSE Junk]

NoCall == [op |-> "none", data |-> <<>>, need |-> 0, got |-> <<>>]

\* The file is opened without O_TRUNC: it may have what an earlier process left.
TMF_CreateFile ==
  /\ file \in BoundedSeq(Bytes, MaxLeft) /\ filePos = 0
  /\ buffer = [i \in 1 .. TMF_BUFFERSIZE |-> Zero]
  /\ curPos = 0 /\ bufferLen = 0 /\ state = "nothing"
  /\ call = NoCall

-----------------------------------------------------------------------------
\* (mutant) what is in the buffer is forgotten.
ResetUnflushed == file

\* What the file holds after TMF_BufFlush.
TMF_BufFlush ==
  IF state = "write" THEN Written(file, filePos, SubSeq(buffer, 1, curPos)) ELSE file

\* (mutant) the position is not set back.
ResetKept == curPos

\* curPos after TMF_Reset.
ResetPos == 0

\* TMF_Reset where the direction changes, and the new direction.
Turned(to) ==
  /\ state' = to
  /\ IF state = to THEN UNCHANGED <<file, filePos, curPos, bufferLen>>
     ELSE file' = TMF_BufFlush /\ filePos' = 0 /\ curPos' = ResetPos /\ bufferLen' = 0
  /\ UNCHANGED buffer

TMF_Reset ==
  /\ call.op = "none"
  /\ state' = "nothing"
  /\ file' = TMF_BufFlush /\ filePos' = 0 /\ curPos' = ResetPos /\ bufferLen' = 0
  /\ UNCHANGED <<buffer, call>>

TMF_Write(data) ==
  /\ call.op = "none"
  /\ (IF state = "write" THEN filePos + curPos ELSE 0) + Len(data) <= MaxFile
  /\ Turned("write")
  /\ call' = [NoCall EXCEPT !.op = "write", !.data = data]

TMF_Read(len) ==
  /\ call.op = "none"
  /\ state = "read" => curPos <= MaxPos
  /\ Turned("read")
  /\ call' = [NoCall EXCEPT !.op = "read", !.need = len]

\* The call after n bytes were put into the buffer.
Rest(n) == [call EXCEPT !.data = SubSeq(@, n + 1, Len(@))]

\* (mutant) the buffer's last byte is not used.
RoomButOne == TMF_BUFFERSIZE - curPos - 1
Room == TMF_BUFFERSIZE - curPos

\* An iteration of TMF_Write. bufferLen counts on when the buffer is flushed,
\* so that after the first time every piece is written to the file at once.
WritePiece ==
  LET n == Shorter(Room, Len(call.data))
      filled == Copied(buffer, curPos, SubSeq(call.data, 1, n))
      pos == curPos + n
  IN  /\ call.op = "write" /\ call.data # <<>>
      /\ buffer' = filled
      /\ bufferLen' = (bufferLen + n) % UintRange
      /\ IF bufferLen' >= TMF_BUFFERSIZE
         THEN /\ file' = Written(file, filePos, SubSeq(filled, 1, pos))
              /\ filePos' = filePos + pos /\ curPos' = 0
         ELSE UNCHANGED <<file, filePos>> /\ curPos' = pos
      /\ call' = Rest(n)
      /\ UNCHANGED state

\* An iteration of TMF_Read. TMF_BufRead does not set curPos back, so that only
\* the first buffer of bytes is read as it is in the file, and bufferLen - curPos
\* may wrap round.
ReadPiece ==
  LET more == Shorter(TMF_BUFFERSIZE, Len(file) - filePos)
      refill == curPos >= bufferLen
      buf == IF refill THEN Copied(buffer, 0, SubSeq(file, filePos + 1, filePos + more))
             ELSE buffer
      len == IF refill THEN more ELSE bufferLen
      n == Shorter((len - curPos) % UintRange, call.need)
  IN  /\ call.op = "read" /\ call.need > 0
      /\ buffer' = buf /\ bufferLen' = len
      /\ filePos' = IF refill THEN filePos + more ELSE filePos
      /\ curPos' = curPos + n
      /\ call' = [call EXCEPT !.need = @ - n, !.got = @ \o CopiedFrom(buf, curPos, n)]
      /\ UNCHANGED <<file, state>>

\* The loop is done.
Return ==
  /\ call.op # "none" /\ call.data = <<>> /\ call.need = 0
  /\ call' = [call EXCEPT !.op = "none"]
  /\ UNCHANGED <<file, filePos, buffer, curPos, bufferLen, state>>

Calls ==
  \/ \E data \in BoundedSeq(Bytes, MaxLen) : TMF_Write(data)
  \/ \E len \in 0 .. MaxLen : TMF_Read(len)
  \/ TMF_Reset
Loop == WritePiece \/ ReadPiece \/ Return

Init == TMF_CreateFile
Next == Calls \/ Loop

\* A call runs until it returns.
Spec == Init /\ [][Next]_tempVars /\ WF_tempVars(Loop)

-----------------------------------------------------------------------------
\* Properties

TypeOK ==
  /\ file \in Seq(Bytes) /\ filePos \in 0 .. Len(file)
  /\ buffer \in [1 .. TMF_BUFFERSIZE -> Bytes]
  /\ curPos \in Nat /\ bufferLen \in 0 .. UintRange - 1
  /\ state \in {"write", "read", "nothing"}
  /\ state # "read" => curPos <= TMF_BUFFERSIZE
  /\ state = "nothing" => curPos = 0 /\ filePos = 0
  /\ call \in [op : {"none", "write", "read"}, data : Seq(Bytes), need : Nat,
               got : Seq(Bytes \cup {Junk})]
  /\ call.op = "write" => state = "write" /\ call.need = 0
  /\ call.op = "read" => state = "read" /\ call.data = <<>>
  /\ call.op = "none" => call.data = <<>> /\ call.need = 0

\* A call returns (tempFile.c:61-76, 84-98), unless it reads an empty file, of
\* which TMF_BufRead gets nothing again and again, or what was written since the
\* last turn is more than bufferLen can count.
CallsReturn ==
  (/\ call.op # "none"
   /\ state = "read" => file # <<>>
   /\ state = "write" => filePos + curPos + Len(call.data) < UintRange)
  ~> call.op = "none"

\* What the writer has put, in the file and in the buffer, and where the reader
\* or the writer is.
Put == IF state = "write" THEN SubSeq(buffer, 1, curPos) ELSE <<>>
Bytewise == INSTANCE ByteFile WITH
  Window <- TMF_BUFFERSIZE,
  content <- Written(file, filePos, Put),
  at <- IF state = "write" THEN filePos + curPos ELSE curPos,
  way <- state,
  pending <- call.data,
  want <- call.need,
  got <- call.got,
  sound <- state = "read" => bufferLen = filePos /\ curPos <= bufferLen

\* Through buffer and file the bytes are as ByteFile has them: what is written is
\* there, in its order, across flushes, turns and resets; what is read are those
\* bytes, of the first buffer's length (tempFile.c:54-98).
FileSpec == Bytewise!Spec
=============================================================================
