---------------------------- MODULE CaptureProofs ----------------------------
(***************************************************************************)
(* However parent and child interleave, whatever a pipe holds, and however *)
(* much is written: Cmd.output captures all of it and leaves nothing open, *)
(* nobody waits for ever, and both come to their end, but for what the     *)
(* failed calls among "read" and "wait" are said to spoil.                 *)
(***************************************************************************)
EXTENDS Capture, Descent, SequenceTheorems, TLAPS

\* What was written is in the buffer and then in the pipe, in order.
InOrder ==
    /\ Len(buf) + Len(pipe) = written
    /\ \A k \in 1 .. Len(buf) : buf[k] = k
    /\ \A k \in 1 .. Len(pipe) : pipe[k] = Len(buf) + k

\* There is room for a byte and the terminator whenever the next read begins.
RoomLeft == cap > 1 /\ Len(buf) < cap

Waiting == {"closeWrite", "read", "closeRead", "wait"}

\* What has failed: a call that returns early has failed in its last step, but
\* for a read, which ends the loop.
FaultsOfCall ==
    /\ pc \in {"pipe", "fork", "closeWrite", "read"} => faults = {}
    /\ pc \in {"closeRead", "wait"} => faults \subseteq {"read"}
    /\ pc = "done" => faults \in {{"pipe"}, {"fork"}} \union SUBSET {"read", "wait"}
    /\ call # "output" => "read" \notin faults

\* The child is there from the fork until it is reaped, by a call that reports
\* how it ended; after a failed wait4 it is left to itself.
ChildOfCall ==
    /\ pc \in {"pipe", "fork"} => child = "none"
    /\ pc \in Waiting => child \in {"exec", "run", "exited"}
    /\ faults \in {{"pipe"}, {"fork"}} => child = "none"
    /\ "wait" \in faults => child \in {"exec", "run", "exited"} /\ result = Failed
    /\ pc = "done" /\ faults \subseteq {"read"} => child = "reaped" /\ result = ExitStatusOf(status)

\* Who holds the ends of the pipe.  Once the end of the pipe has been read there
\* is nobody left to write.
HeldEnds ==
    /\ call = "spawn" => readers = {} /\ writers = {} /\ pc # "pipe"
    /\ pc = "pipe" => readers = {} /\ writers = {}
    /\ child = "none" => "child" \notin readers \union writers /\ pipe = <<>>
    /\ child \in {"exited", "reaped"} => "child" \notin readers \union writers
    /\ pc = "fork" /\ call # "spawn" => "parent" \in writers
    /\ call # "spawn" /\ child \in {"exec", "run"} => "child" \in writers
    /\ call = "output" =>
          /\ pc \in {"read", "closeRead", "wait", "done"} => "parent" \notin writers
          /\ pc \in {"wait", "done"} => "parent" \notin readers
          /\ pc \in {"closeRead", "wait", "done"} /\ "read" \notin faults =>
                child \notin {"exec", "run"} /\ pipe = <<>>
    /\ call # "output" => pc \notin {"closeWrite", "read", "closeRead"}

\* The status word tells how the child ended.
StatusTells ==
    child \in {"exited", "reaped"} =>
        \/ fate = <<"noexec", 127>> /\ status = 127 * 256
        \/ \E c \in Codes : fate = <<"exit", c>> /\ status = c * 256
        \/ \E s \in Signals : fate = <<"killed", s>> /\ status \in {s, s + 128}

\* The inductive invariant.
IInv ==
    /\ TypeOK
    /\ call \in {"output", "run", "spawn"} /\ size \in 0 .. MaxSize
    /\ InOrder
    /\ RoomLeft
    /\ FaultsOfCall
    /\ ChildOfCall
    /\ HeldEnds
    /\ StatusTells

\* What lets the parent take its next step, and the child, unless it is killed.
ParentMay ==
    \/ pc \in {"pipe", "fork", "closeWrite", "closeRead"}
    \/ pc = "read" /\ (pipe # <<>> \/ writers = {})
    \/ pc = "wait" /\ child = "exited"
ChildMay ==
    \/ child = "exec"
    \/ child = "run" /\ (written = size \/ Len(pipe) < PipeSize)

\* Before the call has returned, parent and child never both wait: not in output,
\* unless a read has failed, and in run as long as the child writes no more than
\* the pipe holds.
NobodyHangs ==
    pc # "done" /\ ((call = "output" /\ "read" \notin faults) \/ size <= PipeSize) => ParentMay \/ ChildMay

\* What is left to do: the bytes to write, those to read, the steps of the
\* parent, those of the child.
ParentLeft ==
    [pipe |-> 6, fork |-> 5, closeWrite |-> 4, read |-> 3, closeRead |-> 2, wait |-> 1, done |-> 0][pc]
ChildLeft == [none |-> 3, exec |-> 2, run |-> 1, exited |-> 0, reaped |-> 0][child]
Left == <<size - written, Len(pipe), ParentLeft, ChildLeft>>

-----------------------------------------------------------------------------

\* Taking the first n bytes out of the pipe into the buffer keeps the order.
LEMMA Shifted ==
    ASSUME IInv, NEW n \in 1 .. Len(pipe),
           buf' = buf \o SubSeq(pipe, 1, n),
           pipe' = SubSeq(pipe, n + 1, Len(pipe))
    PROVE  /\ buf' \in Seq(1 .. MaxSize) /\ pipe' \in Seq(1 .. MaxSize)
           /\ Len(buf') = Len(buf) + n /\ Len(pipe') = Len(pipe) - n
           /\ \A k \in 1 .. Len(buf') : buf'[k] = k
           /\ \A k \in 1 .. Len(pipe') : pipe'[k] = Len(buf') + k
<1>0. /\ buf \in Seq(1 .. MaxSize) /\ pipe \in Seq(1 .. MaxSize)
      /\ \A k \in 1 .. Len(buf) : buf[k] = k
      /\ \A k \in 1 .. Len(pipe) : pipe[k] = Len(buf) + k
  BY DEF IInv, TypeOK, InOrder
<1> DEFINE first == SubSeq(pipe, 1, n)
<1>1. Len(pipe) \in Nat /\ Len(buf) \in Nat /\ n \in Int
  BY <1>0
<1>2. first \in Seq(1 .. MaxSize) /\ Len(first) = n /\ \A k \in 1 .. n : first[k] = pipe[k]
  <2>1. ASSUME NEW k \in 1 .. n PROVE pipe[k] \in 1 .. MaxSize
    <3>1. k \in 1 .. Len(pipe)
      BY <1>1
    <3> QED BY <1>0, <3>1, ElementOfSeq
  <2>2. /\ first \in Seq(1 .. MaxSize)
        /\ Len(first) = IF 1 <= n THEN n - 1 + 1 ELSE 0
        /\ \A k \in 1 .. n - 1 + 1 : first[k] = pipe[1 + k - 1]
    BY <1>1, <2>1, SubSeqProperties
  <2> QED BY <2>2
<1>3. /\ pipe' \in Seq(1 .. MaxSize)
      /\ Len(pipe') = Len(pipe) - n /\ \A k \in 1 .. Len(pipe) - n : pipe'[k] = pipe[n + k]
  <2>0. ASSUME NEW k \in n + 1 .. Len(pipe) PROVE pipe[k] \in 1 .. MaxSize
    <3>1. k \in 1 .. Len(pipe)
      BY <1>1
    <3> QED BY <1>0, <3>1, ElementOfSeq
  <2>1. n + 1 \in Int /\ Len(pipe) \in Int /\ \A k \in n + 1 .. Len(pipe) : pipe[k] \in 1 .. MaxSize
    BY <1>1, <2>0
  <2>2. /\ pipe' \in Seq(1 .. MaxSize)
        /\ Len(pipe') = IF n + 1 <= Len(pipe) THEN Len(pipe) - (n + 1) + 1 ELSE 0
        /\ \A k \in 1 .. Len(pipe) - (n + 1) + 1 : pipe'[k] = pipe[n + 1 + k - 1]
    BY <2>1, SubSeqProperties
  <2>3. Len(pipe') = Len(pipe) - n
    BY <1>1, <2>2
  <2>4. ASSUME NEW k \in 1 .. Len(pipe) - n
        PROVE  pipe'[k] = pipe[n + k]
    <3>1. k \in 1 .. Len(pipe) - (n + 1) + 1 /\ n + 1 + k - 1 = n + k
      BY <1>1
    <3> QED BY <2>2, <3>1
  <2> QED BY <2>2, <2>3, <2>4
<1> HIDE DEF first
<1>4. /\ buf' \in Seq(1 .. MaxSize) /\ Len(buf') = Len(buf) + n
      /\ \A k \in 1 .. Len(buf) + n : buf'[k] = IF k <= Len(buf) THEN buf[k] ELSE first[k - Len(buf)]
  BY <1>0, <1>2, ConcatProperties DEF first
<1>5. ASSUME NEW k \in 1 .. Len(buf')
      PROVE  buf'[k] = k
  <2>1. CASE k <= Len(buf)
    BY <1>0, <1>1, <1>4, <2>1
  <2>2. CASE k > Len(buf)
    <3>1. k - Len(buf) \in 1 .. n /\ k - Len(buf) \in 1 .. Len(pipe)
      BY <1>1, <1>4, <2>2
    <3>2. buf'[k] = pipe[k - Len(buf)]
      BY <1>1, <1>2, <1>4, <2>2, <3>1
    <3>3. pipe[k - Len(buf)] = Len(buf) + (k - Len(buf))
      BY <1>0, <3>1
    <3> QED BY <1>1, <3>2, <3>3
  <2> QED BY <1>1, <1>4, <2>1, <2>2
<1>6. ASSUME NEW k \in 1 .. Len(pipe')
      PROVE  pipe'[k] = Len(buf') + k
  <2>1. k \in 1 .. Len(pipe) - n /\ n + k \in 1 .. Len(pipe)
    BY <1>1, <1>3
  <2>2. pipe'[k] = Len(buf) + (n + k)
    BY <1>0, <1>3, <2>1
  <2> QED BY <1>1, <1>4, <2>2
<1> QED BY <1>3, <1>4, <1>5, <1>6

\* Nothing has happened yet.
LEMMA Initially == Init => IInv
BY CaptureAssumption DEF Init, IInv, TypeOK, InOrder, RoomLeft, FaultsOfCall, ChildOfCall, HeldEnds,
                         StatusTells, NotYet, Failed, Waiting

\* The status word is decoded as the shell does.
LEMMA Decoded ==
    ASSUME IInv, child \in {"exited", "reaped"}
    PROVE  /\ ExitStatusOf(status) \in 0 .. 255
           /\ ExitStatusOf(status) = IF fate[1] = "killed" THEN 128 + fate[2] ELSE fate[2]
<1> USE DEF ExitStatusOf
<1>1. CASE fate = <<"noexec", 127>> /\ status = 127 * 256
  BY <1>1
<1>2. ASSUME NEW c \in Codes, fate = <<"exit", c>>, status = c * 256
      PROVE  /\ ExitStatusOf(status) \in 0 .. 255
             /\ ExitStatusOf(status) = IF fate[1] = "killed" THEN 128 + fate[2] ELSE fate[2]
  <2>1. c \in 0 .. 255
    BY CaptureAssumption
  <2> QED BY <1>2, <2>1
<1>3. ASSUME NEW s \in Signals, fate = <<"killed", s>>, status \in {s, s + 128}
      PROVE  /\ ExitStatusOf(status) \in 0 .. 255
             /\ ExitStatusOf(status) = IF fate[1] = "killed" THEN 128 + fate[2] ELSE fate[2]
  <2>1. s \in 1 .. 126
    BY CaptureAssumption
  <2> QED BY <1>3, <2>1
<1> QED BY <1>1, <1>2, <1>3 DEF IInv, StatusTells

-----------------------------------------------------------------------------
(* What a step leaves alone, it keeps.                                     *)

\* Order and room are a matter of the buffer and the pipe.
LEMMA BufferKept ==
    ASSUME IInv, UNCHANGED <<size, buf, pipe, written, cap>>
    PROVE  InOrder' /\ RoomLeft'
BY DEF IInv, InOrder, RoomLeft

\* The status of a child that has ended does not change.
LEMMA StatusKept ==
    ASSUME IInv, UNCHANGED <<fate, status>>, child' \in {"exited", "reaped"} => child \in {"exited", "reaped"}
    PROVE  StatusTells'
BY DEF IInv, StatusTells

-----------------------------------------------------------------------------
(* The steps of the parent.                                                *)

\* A pipe is made, and held by the parent.
LEMMA MakePipeKeeps == ASSUME IInv, MakePipe PROVE IInv'
<1> USE DEF MakePipe, request, childVars
<1>1. TypeOK' /\ (call \in {"output", "run", "spawn"} /\ size \in 0 .. MaxSize)'
  BY DEF IInv, TypeOK
<1>2. InOrder' /\ RoomLeft' /\ StatusTells'
  BY BufferKept, StatusKept
<1>3. FaultsOfCall' /\ ChildOfCall'
  BY DEF IInv, FaultsOfCall, ChildOfCall, Waiting
<1>4. HeldEnds'
  BY DEF IInv, HeldEnds, ChildOfCall
<1> QED BY <1>1, <1>2, <1>3, <1>4 DEF IInv

\* Without a pipe there is no child.
LEMMA PipeFailsKeeps == ASSUME IInv, PipeFails PROVE IInv'
<1> USE DEF PipeFails, Return, Failed, NotYet, request, childVars, pipeVars
<1>1. TypeOK' /\ (call \in {"output", "run", "spawn"} /\ size \in 0 .. MaxSize)'
  BY DEF IInv, TypeOK
<1>2. InOrder' /\ RoomLeft' /\ StatusTells'
  BY BufferKept, StatusKept
<1>3. FaultsOfCall' /\ ChildOfCall'
  BY DEF IInv, FaultsOfCall, ChildOfCall, Waiting
<1>4. HeldEnds'
  BY DEF IInv, HeldEnds, ChildOfCall
<1> QED BY <1>1, <1>2, <1>3, <1>4 DEF IInv

\* The child inherits both ends.
LEMMA ForkKeeps == ASSUME IInv, Fork PROVE IInv'
<1> USE DEF Fork, request, Inherit
<1>1. TypeOK' /\ (call \in {"output", "run", "spawn"} /\ size \in 0 .. MaxSize)'
  BY DEF IInv, TypeOK
<1>2. InOrder' /\ RoomLeft' /\ StatusTells'
  BY BufferKept, StatusKept
<1>3. FaultsOfCall' /\ ChildOfCall'
  BY DEF IInv, FaultsOfCall, ChildOfCall, Waiting
<1>4. HeldEnds'
  BY DEF IInv, TypeOK, HeldEnds, ChildOfCall
<1> QED BY <1>1, <1>2, <1>3, <1>4 DEF IInv

\* A failed fork closes both ends again.
LEMMA ForkFailsKeeps == ASSUME IInv, ForkFails PROVE IInv'
<1> USE DEF ForkFails, Return, Failed, NotYet, request, childVars
<1>1. TypeOK' /\ (call \in {"output", "run", "spawn"} /\ size \in 0 .. MaxSize)'
  BY DEF IInv, TypeOK
<1>2. InOrder' /\ RoomLeft' /\ StatusTells'
  BY BufferKept, StatusKept
<1>3. FaultsOfCall' /\ ChildOfCall'
  BY DEF IInv, FaultsOfCall, ChildOfCall, Waiting
<1>4. HeldEnds'
  BY DEF IInv, HeldEnds, ChildOfCall
<1> QED BY <1>1, <1>2, <1>3, <1>4 DEF IInv

\* From here on the child alone can write.
LEMMA CloseWriteKeeps == ASSUME IInv, CloseWrite PROVE IInv'
<1> USE DEF CloseWrite, request, childVars
<1>1. TypeOK' /\ (call \in {"output", "run", "spawn"} /\ size \in 0 .. MaxSize)'
  BY DEF IInv, TypeOK
<1>2. InOrder' /\ RoomLeft' /\ StatusTells'
  BY BufferKept, StatusKept
<1>3. FaultsOfCall' /\ ChildOfCall'
  BY DEF IInv, FaultsOfCall, ChildOfCall, Waiting
<1>4. HeldEnds'
  BY DEF IInv, HeldEnds, ChildOfCall, Waiting
<1> QED BY <1>1, <1>2, <1>3, <1>4 DEF IInv

\* The buffer has room for a byte before every read.
LEMMA SpaceFacts ==
    ASSUME IInv
    PROVE  /\ Space.cap \in Nat /\ Space.cap >= cap
           /\ Space.room \in Nat \ {0} /\ Len(buf) + Space.room < Space.cap
<1>1. Len(buf) \in Nat /\ cap \in Nat /\ cap > 1 /\ Len(buf) < cap
  BY DEF IInv, TypeOK, RoomLeft
<1>2. CASE Len(buf) >= cap - 1
  BY <1>1, <1>2 DEF Space
<1>3. CASE Len(buf) < cap - 1
  BY <1>1, <1>3 DEF Space
<1> QED BY <1>1, <1>2, <1>3

\* A read moves the front of the pipe to the end of the buffer.
LEMMA ReadSomeKeeps == ASSUME IInv, ReadSome PROVE IInv'
<1>1. PICK n \in 1 .. Len(pipe) :
          /\ n <= Space.room
          /\ buf' = buf \o SubSeq(pipe, 1, n)
          /\ pipe' = SubSeq(pipe, n + 1, Len(pipe))
          /\ pc' = "read"
  BY DEF ReadSome, ReadUntil
<1>2. pc = "read" /\ cap' = Space.cap /\ UNCHANGED <<request, result, childVars, readers, writers, faults>>
  BY DEF ReadSome, ReadUntil
<1>3. /\ buf' \in Seq(1 .. MaxSize) /\ pipe' \in Seq(1 .. MaxSize)
      /\ Len(buf') = Len(buf) + n /\ Len(pipe') = Len(pipe) - n
      /\ \A k \in 1 .. Len(buf') : buf'[k] = k
      /\ \A k \in 1 .. Len(pipe') : pipe'[k] = Len(buf') + k
  BY <1>1, Shifted
<1>4. Len(buf) \in Nat /\ Len(pipe) \in Nat /\ PipeSize \in Nat
  BY CaptureAssumption DEF IInv, TypeOK
<1>5. TypeOK' /\ (call \in {"output", "run", "spawn"} /\ size \in 0 .. MaxSize)'
  <2>1. Len(pipe') <= PipeSize
    BY <1>3, <1>4 DEF IInv, TypeOK
  <2> QED BY <1>1, <1>2, <1>3, <2>1, SpaceFacts DEF IInv, TypeOK, request, childVars
<1>6. InOrder'
  <2>1. Len(buf') + Len(pipe') = written'
    BY <1>2, <1>3, <1>4 DEF IInv, InOrder, childVars
  <2> QED BY <1>3, <2>1 DEF InOrder
<1>7. RoomLeft'
  BY <1>1, <1>2, <1>3, <1>4, SpaceFacts DEF IInv, TypeOK, RoomLeft
<1>8. StatusTells' /\ FaultsOfCall' /\ ChildOfCall' /\ HeldEnds'
  BY <1>1, <1>2 DEF IInv, StatusTells, FaultsOfCall, ChildOfCall, HeldEnds, Waiting, request, childVars
<1> QED BY <1>5, <1>6, <1>7, <1>8 DEF IInv

\* The end of the pipe is read once the child has gone and all is read: never
\* because the buffer was full.
LEMMA ReadEOFKeeps == ASSUME IInv, ReadEOF PROVE IInv'
<1> USE DEF ReadEOF, request, childVars, pipeVars
<1>1. pipe = <<>> /\ writers = {}
  BY SpaceFacts
<1>2. TypeOK' /\ (call \in {"output", "run", "spawn"} /\ size \in 0 .. MaxSize)'
  BY SpaceFacts DEF IInv, TypeOK
<1>3. InOrder' /\ StatusTells'
  BY DEF IInv, InOrder, StatusTells
<1>4. RoomLeft'
  <2>1. Len(buf) \in Nat /\ cap \in Nat
    BY DEF IInv, TypeOK
  <2> QED BY <2>1, SpaceFacts DEF IInv, RoomLeft
<1>5. FaultsOfCall' /\ ChildOfCall'
  BY DEF IInv, FaultsOfCall, ChildOfCall, Waiting
<1>6. HeldEnds'
  <2>1. child = "exited"
    BY <1>1 DEF IInv, HeldEnds, ChildOfCall, Waiting
  <2> QED BY <1>1, <2>1 DEF IInv, HeldEnds
<1> QED BY <1>2, <1>3, <1>4, <1>5, <1>6 DEF IInv

\* After a failed read nothing is known of the rest.
LEMMA ReadFailsKeeps == ASSUME IInv, ReadFails PROVE IInv'
<1> USE DEF ReadFails, request, childVars, pipeVars
<1>1. TypeOK' /\ (call \in {"output", "run", "spawn"} /\ size \in 0 .. MaxSize)'
  BY SpaceFacts DEF IInv, TypeOK
<1>2. InOrder' /\ StatusTells'
  BY DEF IInv, InOrder, StatusTells
<1>3. RoomLeft'
  <2>1. Len(buf) \in Nat /\ cap \in Nat
    BY DEF IInv, TypeOK
  <2> QED BY <2>1, SpaceFacts DEF IInv, RoomLeft
<1>4. FaultsOfCall' /\ ChildOfCall'
  BY DEF IInv, FaultsOfCall, ChildOfCall, HeldEnds, Waiting
<1>5. HeldEnds'
  BY DEF IInv, HeldEnds
<1> QED BY <1>1, <1>2, <1>3, <1>4, <1>5 DEF IInv

\* The parent holds no end any more.
LEMMA CloseReadKeeps == ASSUME IInv, CloseRead PROVE IInv'
<1> USE DEF CloseRead, request, childVars
<1>1. TypeOK' /\ (call \in {"output", "run", "spawn"} /\ size \in 0 .. MaxSize)'
  BY DEF IInv, TypeOK
<1>2. InOrder' /\ RoomLeft' /\ StatusTells'
  BY BufferKept, StatusKept
<1>3. FaultsOfCall' /\ ChildOfCall'
  BY DEF IInv, FaultsOfCall, ChildOfCall, Waiting
<1>4. HeldEnds'
  BY DEF IInv, HeldEnds, ChildOfCall, Waiting
<1> QED BY <1>1, <1>2, <1>3, <1>4 DEF IInv

\* The child is reaped, and its status decoded.
LEMMA WaitKeeps == ASSUME IInv, Wait PROVE IInv'
<1> USE DEF Wait, Return, request, pipeVars
<1>1. ExitStatusOf(status) \in 0 .. 255
  BY Decoded
<1>2. TypeOK' /\ (call \in {"output", "run", "spawn"} /\ size \in 0 .. MaxSize)'
  BY <1>1 DEF IInv, TypeOK
<1>3. InOrder' /\ RoomLeft' /\ StatusTells'
  BY BufferKept, StatusKept
<1>4. FaultsOfCall' /\ ChildOfCall'
  BY <1>1 DEF IInv, FaultsOfCall, ChildOfCall, Waiting, Failed, ExitStatusOf
<1>5. HeldEnds'
  BY DEF IInv, HeldEnds
<1> QED BY <1>2, <1>3, <1>4, <1>5 DEF IInv

\* The child may be anywhere, and nothing is known of it.
LEMMA WaitFailsKeeps == ASSUME IInv, WaitFails PROVE IInv'
<1> USE DEF WaitFails, Return, Failed, NotYet, request, childVars, pipeVars
<1>1. TypeOK' /\ (call \in {"output", "run", "spawn"} /\ size \in 0 .. MaxSize)'
  BY DEF IInv, TypeOK
<1>2. InOrder' /\ RoomLeft' /\ StatusTells'
  BY BufferKept, StatusKept
<1>3. FaultsOfCall' /\ ChildOfCall'
  BY DEF IInv, FaultsOfCall, ChildOfCall, Waiting
<1>4. HeldEnds'
  BY DEF IInv, HeldEnds, FaultsOfCall
<1> QED BY <1>1, <1>2, <1>3, <1>4 DEF IInv

-----------------------------------------------------------------------------
(* The steps of the child.                                                 *)

\* However a child ends, it lets go of its ends of the pipe.
LEMMA EndKeeps ==
    ASSUME IInv, child \in {"exec", "run"}, NEW f, NEW word \in Nat, End(f, word),
           \/ f = <<"noexec", 127>> /\ word = 127 * 256
           \/ \E c \in Codes : f = <<"exit", c>> /\ word = c * 256
           \/ \E s \in Signals : f = <<"killed", s>> /\ word \in {s, s + 128}
    PROVE  IInv'
<1> USE DEF End, request
<1>1. TypeOK' /\ (call \in {"output", "run", "spawn"} /\ size \in 0 .. MaxSize)'
  BY DEF IInv, TypeOK
<1>2. InOrder' /\ RoomLeft'
  BY BufferKept
<1>3. StatusTells'
  BY DEF StatusTells
<1>4. FaultsOfCall' /\ ChildOfCall'
  BY DEF IInv, FaultsOfCall, ChildOfCall, Waiting
<1>5. HeldEnds'
  BY DEF IInv, HeldEnds
<1> QED BY <1>1, <1>2, <1>3, <1>4, <1>5 DEF IInv

\* The three ways in which a child ends.
LEMMA EndingsKeep == ASSUME IInv, ExecFails \/ Exit \/ Killed PROVE IInv'
<1>1. CASE ExecFails
  BY <1>1, EndKeeps DEF ExecFails
<1>2. CASE Exit
  <2>1. PICK c \in Codes : child = "run" /\ End(<<"exit", c>>, c * 256)
    BY <1>2 DEF Exit
  <2>2. c * 256 \in Nat
    BY CaptureAssumption
  <2> QED BY <2>1, <2>2, EndKeeps
<1>3. CASE Killed
  <2>1. PICK s \in Signals, core \in {0, 128} : child = "run" /\ End(<<"killed", s>>, s + core)
    BY <1>3 DEF Killed
  <2>2. s + core \in Nat /\ s + core \in {s, s + 128}
    BY CaptureAssumption
  <2> QED BY <2>1, <2>2, EndKeeps
<1> QED BY <1>1, <1>2, <1>3

\* The child becomes another program and keeps what it holds.
LEMMA ExecKeeps == ASSUME IInv, Exec PROVE IInv'
<1> USE DEF Exec, request, pipeVars
<1>1. TypeOK' /\ (call \in {"output", "run", "spawn"} /\ size \in 0 .. MaxSize)'
  BY DEF IInv, TypeOK
<1>2. InOrder' /\ RoomLeft' /\ StatusTells'
  BY BufferKept, StatusKept
<1>3. FaultsOfCall' /\ ChildOfCall' /\ HeldEnds'
  BY DEF IInv, FaultsOfCall, ChildOfCall, HeldEnds, Waiting
<1> QED BY <1>1, <1>2, <1>3 DEF IInv

\* A write puts the next byte behind all others.
LEMMA WriteKeeps == ASSUME IInv, Write PROVE IInv'
<1> USE DEF Write, request
<1>1. Len(buf) \in Nat /\ Len(pipe) \in Nat /\ PipeSize \in Nat /\ written \in Nat /\ size \in Nat
  BY CaptureAssumption DEF IInv, TypeOK
<1>2. written + 1 \in 1 .. MaxSize /\ written + 1 \in 0 .. size
  BY <1>1, CaptureAssumption DEF IInv, TypeOK
<1>3. /\ pipe' \in Seq(1 .. MaxSize) /\ Len(pipe') = Len(pipe) + 1
      /\ \A k \in 1 .. Len(pipe) : pipe'[k] = pipe[k]
      /\ pipe'[Len(pipe) + 1] = written + 1
  BY <1>2, AppendProperties DEF IInv, TypeOK
<1>4. TypeOK' /\ (call \in {"output", "run", "spawn"} /\ size \in 0 .. MaxSize)'
  <2>1. Len(pipe') <= PipeSize
    BY <1>1, <1>3
  <2> QED BY <1>2, <1>3, <2>1 DEF IInv, TypeOK
<1>5. InOrder'
  <2>0. Len(buf) + Len(pipe) = written
    BY DEF IInv, InOrder
  <2>1. Len(buf') + Len(pipe') = written'
    <3>1. buf' = buf /\ written' = written + 1
      OBVIOUS
    <3> QED BY <1>1, <1>3, <2>0, <3>1
  <2>2. ASSUME NEW k \in 1 .. Len(pipe')
        PROVE  pipe'[k] = Len(buf') + k
    <3>1. CASE k = Len(pipe) + 1
      BY <1>1, <1>3, <3>1 DEF IInv, InOrder
    <3>2. CASE k \in 1 .. Len(pipe)
      BY <1>3, <3>2 DEF IInv, InOrder
    <3> QED BY <1>1, <1>3, <3>1, <3>2
  <2> QED BY <2>1, <2>2 DEF IInv, InOrder
<1>6. RoomLeft' /\ StatusTells'
  BY DEF IInv, RoomLeft, StatusTells
<1>7. FaultsOfCall' /\ ChildOfCall'
  BY DEF IInv, FaultsOfCall, ChildOfCall, Waiting
<1>8. HeldEnds'
  <2>1. child = "run" /\ pc \notin {"pipe", "fork"}
    BY DEF IInv, ChildOfCall
  <2>2. call = "output" /\ "read" \notin faults => pc \notin {"closeRead", "wait", "done"}
    BY <2>1 DEF IInv, HeldEnds
  <2> QED BY <2>1, <2>2 DEF IInv, HeldEnds
<1> QED BY <1>4, <1>5, <1>6, <1>7, <1>8 DEF IInv

-----------------------------------------------------------------------------
(* Theorems.                                                               *)

\* All steps together.
LEMMA StepKeeps == IInv /\ [Next]_vars => IInv'
<1>1. ASSUME IInv, UNCHANGED vars
      PROVE  IInv'
  BY <1>1 DEF vars, IInv, TypeOK, InOrder, RoomLeft, FaultsOfCall, ChildOfCall, HeldEnds,
             StatusTells
<1>2. ASSUME IInv, Parent PROVE IInv'
  BY <1>2, MakePipeKeeps, ForkKeeps, CloseWriteKeeps, ReadSomeKeeps, ReadEOFKeeps, CloseReadKeeps, WaitKeeps
     DEF Parent
<1>3. ASSUME IInv, ParentFails PROVE IInv'
  BY <1>3, PipeFailsKeeps, ForkFailsKeeps, ReadFailsKeeps, WaitFailsKeeps DEF ParentFails
<1>4. ASSUME IInv, Child \/ Killed PROVE IInv'
  BY <1>4, EndingsKeep, ExecKeeps, WriteKeeps DEF Child
<1> QED BY <1>1, <1>2, <1>3, <1>4 DEF Next

\* The inductive invariant, the type invariant included, holds however parent and
\* child interleave, for every size of pipe, buffer and output.
THEOREM Invariance == Spec => []IInv
<1> QED BY Initially, StepKeeps, PTL DEF Spec

\* Cmd.output returns all that the child wrote, in order, and every call the
\* exit status as a shell tells it; after a failed read, the beginning of what
\* was written, and after a failed wait4, no status.
THEOREM Captured == Spec => []CapturedAll
<1>1. ASSUME IInv PROVE CapturedAll
  <2> SUFFICES ASSUME pc = "done", faults \subseteq {"read", "wait"} PROVE
          /\ call = "output" => buf = Upto(IF "read" \in faults THEN Len(buf) ELSE written)
          /\ result = IF "wait" \in faults THEN Failed
                      ELSE IF fate[1] = "killed" THEN 128 + fate[2] ELSE fate[2]
    BY DEF CapturedAll
  <2>1. buf = Upto(Len(buf))
    <3>1. buf = [k \in 1 .. Len(buf) |-> buf[k]] /\ \A k \in 1 .. Len(buf) : buf[k] = k
      BY <1>1 DEF IInv, TypeOK, InOrder
    <3> QED BY <3>1 DEF Upto
  <2>2. ASSUME call = "output", "read" \notin faults PROVE Len(buf) = written
    <3>1. pipe = <<>>
      BY <1>1, <2>2 DEF IInv, HeldEnds
    <3> QED BY <1>1, <3>1 DEF IInv, TypeOK, InOrder
  <2>3. CASE "wait" \in faults
    BY <1>1, <2>1, <2>2, <2>3 DEF IInv, ChildOfCall
  <2>4. CASE "wait" \notin faults
    <3>1. child = "reaped" /\ result = ExitStatusOf(status)
      BY <1>1, <2>4 DEF IInv, ChildOfCall
    <3> QED BY <1>1, <2>1, <2>2, <2>4, <3>1, Decoded
  <2> QED BY <2>3, <2>4
<1> QED BY <1>1, Invariance, PTL

\* There is always room for the byte that ends the string.
THEOREM Terminated == Spec => []RoomForTerminator
<1>1. IInv => RoomForTerminator
  BY DEF IInv, RoomLeft, RoomForTerminator
<1> QED BY <1>1, Invariance, PTL

\* Whatever fails, Cmd.output leaves no descriptor open, and no child behind but
\* where wait4 failed.
THEOREM CleanedUp == Spec => []NothingLeaks
<1>1. IInv => NothingLeaks
  BY DEF IInv, FaultsOfCall, HeldEnds, ChildOfCall, NothingLeaks
<1> QED BY <1>1, Invariance, PTL

\* Parent and child never wait for each other: output drains the pipe while the
\* child runs, and has closed its own copy of the write end before it reads.
THEOREM NobodyWaits == Spec => []NobodyHangs
<1>1. ASSUME IInv PROVE NobodyHangs
  <2> SUFFICES ASSUME pc # "done", (call = "output" /\ "read" \notin faults) \/ size <= PipeSize, ~ParentMay
                  PROVE  ChildMay
    BY DEF NobodyHangs
  <2>1. pc \in {"read", "wait"}
    BY <1>1 DEF IInv, TypeOK, ParentMay
  <2>2. child \in {"exec", "run"}
    <3>1. child \in {"exec", "run", "exited"}
      BY <1>1, <2>1 DEF IInv, ChildOfCall, Waiting
    <3>2. CASE pc = "wait"
      BY <3>1, <3>2 DEF ParentMay
    <3>3. CASE pc = "read"
      <4>1. call = "output" /\ writers # {} /\ "parent" \notin writers
        BY <1>1, <3>3 DEF IInv, HeldEnds, ParentMay
      <4>2. "child" \in writers
        BY <1>1, <4>1 DEF IInv, TypeOK
      <4> QED BY <1>1, <3>1, <4>2 DEF IInv, HeldEnds
    <3> QED BY <2>1, <3>2, <3>3
  <2>3. CASE call = "output" /\ "read" \notin faults
    <3>1. pc = "read" /\ pipe = <<>>
      BY <1>1, <2>1, <2>2, <2>3 DEF IInv, HeldEnds, ParentMay
    <3>2. Len(pipe) < PipeSize
      BY <3>1, CaptureAssumption
    <3> QED BY <2>2, <3>2 DEF ChildMay
  <2>4. CASE size <= PipeSize
    <3>1. /\ Len(buf) \in Nat /\ Len(pipe) \in Nat /\ Len(buf) + Len(pipe) = written
          /\ written \in 0 .. size /\ size \in Nat /\ PipeSize \in Nat
      BY <1>1, CaptureAssumption DEF IInv, TypeOK, InOrder
    <3>2. written = size \/ Len(pipe) < PipeSize
      BY <2>4, <3>1
    <3> QED BY <2>2, <3>2 DEF ChildMay
  <2> QED BY <2>3, <2>4
<1> QED BY <1>1, Invariance, PTL

\* Steps that are left are counted in natural numbers.
LEMMA LeftIsMeasure == IInv => Left \in Measure
<1> SUFFICES ASSUME IInv PROVE Left \in Measure
  OBVIOUS
<1>1. size - written \in Nat /\ Len(pipe) \in Nat
  BY CaptureAssumption DEF IInv, TypeOK
<1>2. ParentLeft \in Nat
  BY DEF IInv, TypeOK, ParentLeft
<1>3. ChildLeft \in Nat
  BY DEF IInv, TypeOK, ChildLeft
<1> QED BY <1>1, <1>2, <1>3 DEF Left, Measure

\* A step of the parent, failing or not, takes bytes out of the pipe or brings it nearer to its end.
LEMMA ParentDescends == ASSUME IInv, Parent \/ ParentFails PROVE Below(Left', Left)
<1>1. CASE ReadSome
  <2>1. PICK n \in 1 .. Len(pipe) :
            buf' = buf \o SubSeq(pipe, 1, n) /\ pipe' = SubSeq(pipe, n + 1, Len(pipe))
    BY <1>1 DEF ReadSome, ReadUntil
  <2>2. Len(pipe') = Len(pipe) - n
    BY <2>1, Shifted
  <2>3. Len(pipe) \in Nat
    BY DEF IInv, TypeOK
  <2>4. size' = size /\ written' = written
    BY <1>1 DEF ReadSome, ReadUntil, request, childVars
  <2>5. Len(pipe') < Len(pipe)
    BY <2>2, <2>3
  <2> QED BY <2>4, <2>5 DEF Below, Left
<1>2. CASE MakePipe \/ Fork \/ CloseWrite \/ ReadEOF \/ CloseRead \/ Wait \/ ParentFails
  <2>1. size' = size /\ written' = written /\ pipe' = pipe
    BY <1>2 DEF MakePipe, Fork, CloseWrite, ReadEOF, CloseRead, Wait, ParentFails, PipeFails, ForkFails,
                ReadFails, WaitFails, request, childVars, pipeVars
  <2>2. \/ pc = "pipe" /\ pc' \in {"fork", "done"}
        \/ pc = "fork" /\ pc' \in {"closeWrite", "wait", "done"}
        \/ pc = "closeWrite" /\ pc' = "read"
        \/ pc = "read" /\ pc' = "closeRead"
        \/ pc = "closeRead" /\ pc' = "wait"
        \/ pc = "wait" /\ pc' = "done"
    BY <1>2 DEF MakePipe, Fork, CloseWrite, ReadEOF, CloseRead, Wait, ParentFails, PipeFails, ForkFails,
                ReadFails, WaitFails, Return
  <2>3. ParentLeft' < ParentLeft
    BY <2>2 DEF ParentLeft
  <2> QED BY <2>1, <2>3 DEF Below, Left
<1> QED BY <1>1, <1>2 DEF Parent

\* A step of the child writes a byte or brings it nearer to its end.
LEMMA ChildDescends == ASSUME IInv, Child \/ Killed PROVE Below(Left', Left)
<1>1. CASE Write
  <2>1. size' = size /\ written' = written + 1 /\ written \in 0 .. size /\ size \in Nat
    BY <1>1, CaptureAssumption DEF IInv, TypeOK, Write, request
  <2>2. size' - written' < size - written
    BY <2>1
  <2> QED BY <2>2 DEF Below, Left
<1>2. CASE ExecFails \/ Exec \/ Exit \/ Killed
  <2>1. size' = size /\ written' = written /\ pipe' = pipe /\ pc' = pc
    BY <1>2 DEF ExecFails, Exec, Exit, Killed, End, request, pipeVars
  <2>2. \/ child = "exec" /\ child' \in {"run", "exited"}
        \/ child = "run" /\ child' = "exited"
    BY <1>2 DEF ExecFails, Exec, Exit, Killed, End
  <2>3. ChildLeft' < ChildLeft
    BY <2>2 DEF ChildLeft
  <2>4. ParentLeft' = ParentLeft
    BY <2>1 DEF ParentLeft
  <2> QED BY <2>1, <2>3, <2>4 DEF Below, Left
<1> QED BY <1>1, <1>2 DEF Child

\* Parent and child come to their end, whatever fails and however they interleave:
\* each step leaves fewer bytes to write, fewer to read, or fewer steps to take.
THEOREM Ends == Spec => [](Left \in Measure) /\ [][Below(Left', Left)]_vars
<1>1. IInv /\ [Next]_vars => [Below(Left', Left)]_vars
  BY ParentDescends, ChildDescends DEF Next
<1> QED BY <1>1, LeftIsMeasure, Invariance, PTL DEF Spec
=============================================================================
