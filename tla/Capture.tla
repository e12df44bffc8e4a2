------------------------------ MODULE Capture -------------------------------
(***************************************************************************)
(* Running a command (stdlib/os/exec.hy): Cmd.output, which collects what  *)
(* the child writes through a pipe; Cmd.run with stdout_fd set to a pipe   *)
(* the caller holds; and spawn.  Parent and child are two processes; they  *)
(* meet in the kernel's pipe and in wait4.                                 *)
(*                                                                         *)
(* The child writes the numbers 1 .. size, one at a time, and exits.  Both *)
(* ends of the pipe are inherited by the child (exec.hy marks none         *)
(* close-on-exec), a write blocks while the pipe is full, a read blocks    *)
(* while it is empty and somebody could still write.                       *)
(* Each system call of the parent may fail, and a signal may kill a child  *)
(* that runs.                                                              *)
(***************************************************************************)
EXTENDS Integers, Sequences, FiniteSets

CONSTANTS
    PipeSize,   \* what a pipe holds ("a pipe holds ~64KB")
    InitCap,    \* the size of the first buffer (65536)
    MaxSize,    \* the most a child writes (a bound of the model)
    Codes,      \* exit codes of children
    Signals     \* signals that may kill them

ASSUME CaptureAssumption ==
    /\ PipeSize \in Nat \ {0}
    /\ InitCap \in Nat /\ InitCap > 1
    /\ MaxSize \in Nat
    /\ Codes \subseteq 0 .. 255
    /\ Signals \subseteq 1 .. 126

NotYet == -2    \* no result yet
Failed == -1    \* nil, or -1

VARIABLES
    call,       \* "output", "run" or "spawn"
    stderrFd,   \* the field stderr_fd: "inherit" (-1) or "given"
    size,       \* how much this child will write
    pc,         \* the parent
    result,     \* the status the call reports
    buf, cap,   \* the buffer of the capture and its size
    child,      \* "none", "exec", "run", "exited", "reaped"
    written,    \* how much the child has written
    fate,       \* how it ended
    status,     \* its status word, as wait4 delivers it
    childErr,   \* where its descriptor 2 leads
    pipe,       \* contents of the pipe
    readers, writers,   \* who holds an end of it
    faults      \* which of the parent's system calls failed: "pipe", "fork", "read", "wait"

vars == <<call, stderrFd, size, pc, result, buf, cap, child, written, fate, status, childErr,
          pipe, readers, writers, faults>>

request == <<call, stderrFd, size>>
childVars == <<child, written, fate, status, childErr>>
pipeVars == <<pipe, readers, writers>>

\* spawn leaves stdout alone: nothing goes through a pipe.
Init ==
    /\ call \in {"output", "run", "spawn"}
    /\ stderrFd \in IF call = "spawn" THEN {"inherit"} ELSE {"inherit", "given"}
    /\ size \in IF call = "spawn" THEN {0} ELSE 0 .. MaxSize
    /\ pc = IF call = "spawn" THEN "fork" ELSE "pipe"
    /\ result = NotYet
    /\ buf = <<>>
    /\ cap = InitCap
    /\ child = "none" /\ written = 0 /\ fate = <<>> /\ status = 0 /\ childErr = "inherit"
    /\ pipe = <<>> /\ readers = {} /\ writers = {}
    /\ faults = {}

Return(r) == pc' = "done" /\ result' = r

-----------------------------------------------------------------------------
(* The parent.                                                             *)

MakePipe ==
    /\ pc = "pipe"
    /\ readers' = {"parent"} /\ writers' = {"parent"}
    /\ pc' = "fork"
    /\ UNCHANGED <<request, result, buf, cap, childVars, pipe, faults>>

PipeFails ==
    /\ pc = "pipe"
    /\ faults' = {"pipe"}
    /\ Return(Failed)
    /\ UNCHANGED <<request, buf, cap, childVars, pipeVars>>

\* Cmd.output hands _capture_resolved no stderr descriptor.
ErrFor(c) == IF c = "output" THEN "inherit" ELSE stderrFd

\* (Mutant: a failed fork leaves the pipe open.)
ForkFailsLeaking ==
    /\ pc = "fork"
    /\ faults' = {"fork"}
    /\ Return(Failed)
    /\ UNCHANGED <<request, buf, cap, childVars, pipeVars>>

ForkFails ==
    /\ pc = "fork"
    /\ faults' = {"fork"}
    /\ Return(Failed)
    /\ IF call = "output" THEN readers' = {} /\ writers' = {} ELSE UNCHANGED <<readers, writers>>
    /\ UNCHANGED <<request, buf, cap, childVars, pipe>>

Inherit(ends) == IF ends = {} THEN {} ELSE ends \union {"child"}

Fork ==
    /\ pc = "fork"
    /\ child' = "exec"
    /\ childErr' = ErrFor(call)
    /\ readers' = Inherit(readers)
    /\ writers' = Inherit(writers)
    /\ pc' = IF call = "output" THEN "closeWrite" ELSE "wait"
    /\ UNCHANGED <<request, result, buf, cap, written, fate, status, pipe, faults>>

\* (Mutant: the parent waits for the child before it reads.)
WaitUndrained ==
    /\ pc = "closeWrite"
    /\ writers' = writers \ {"parent"}
    /\ pc' = "wait"
    /\ UNCHANGED <<request, result, buf, cap, childVars, pipe, readers, faults>>

\* "The parent must close its own copy of the write end"
CloseWrite ==
    /\ pc = "closeWrite"
    /\ writers' = writers \ {"parent"}
    /\ pc' = "read"
    /\ UNCHANGED <<request, result, buf, cap, childVars, pipe, readers, faults>>

\* (Mutant: the buffer is read into to the brim and never grows.)
FixedSpace == [cap |-> cap, room |-> cap - Len(buf)]

\* Before each read the buffer doubles when nothing but the terminator's byte
\* is left; the read may fill all but that byte.
Space == LET bytes == IF Len(buf) >= cap - 1 THEN 2 * cap ELSE cap
         IN  [cap |-> bytes, room |-> bytes - 1 - Len(buf)]

\* (Mutant: a short read is taken for the last.)
ReadUntil(last(_)) ==
    /\ pc = "read"
    /\ cap' = Space.cap
    /\ \E n \in 1 .. Len(pipe) :
          /\ n <= Space.room
          /\ buf' = buf \o SubSeq(pipe, 1, n)
          /\ pipe' = SubSeq(pipe, n + 1, Len(pipe))
          /\ pc' = IF last(n) THEN "closeRead" ELSE "read"
    /\ UNCHANGED <<request, result, childVars, readers, writers, faults>>

ReadUntilShort == ReadUntil(LAMBDA n : n < Space.room)

\* A read returns some of what there is.
ReadSome == ReadUntil(LAMBDA n : FALSE)

\* A read returns 0 at the end of the pipe, and when 0 bytes were asked for.
ReadEOF ==
    /\ pc = "read"
    /\ (pipe = <<>> /\ writers = {}) \/ Space.room = 0
    /\ cap' = Space.cap
    /\ pc' = "closeRead"
    /\ UNCHANGED <<request, result, buf, childVars, pipeVars, faults>>

\* A failed read ends the loop as the end of the pipe does ("n <= 0"): what was
\* read so far is returned as if it were all.
ReadFails ==
    /\ pc = "read"
    /\ faults' = faults \union {"read"}
    /\ cap' = Space.cap
    /\ pc' = "closeRead"
    /\ UNCHANGED <<request, result, buf, childVars, pipeVars>>

CloseRead ==
    /\ pc = "closeRead"
    /\ readers' = readers \ {"parent"}
    /\ pc' = "wait"
    /\ UNCHANGED <<request, result, buf, cap, childVars, pipe, writers, faults>>

\* exit_status_of: the exit code, or 128 and the signal (bit 7 says that there
\* is a core dump).
ExitStatusOf(word) ==
    IF word % 128 = 0 THEN (word \div 256) % 256 ELSE 128 + (word % 128)

\* (Mutant: it is reaped only at the end of the pipe.)
WaitForEOF ==
    /\ pc = "wait"
    /\ child = "exited" /\ writers = {}
    /\ child' = "reaped"
    /\ Return(ExitStatusOf(status))
    /\ UNCHANGED <<request, buf, cap, written, fate, status, childErr, pipeVars, faults>>

\* wait: block until the child is gone, decode its status.
Wait ==
    /\ pc = "wait"
    /\ child = "exited"
    /\ child' = "reaped"
    /\ Return(ExitStatusOf(status))
    /\ UNCHANGED <<request, buf, cap, written, fate, status, childErr, pipeVars, faults>>

\* A failed wait4 leaves the child to itself, whatever it is doing.
WaitFails ==
    /\ pc = "wait"
    /\ faults' = faults \union {"wait"}
    /\ Return(Failed)
    /\ UNCHANGED <<request, buf, cap, childVars, pipeVars>>

Parent == MakePipe \/ Fork \/ CloseWrite \/ ReadSome \/ ReadEOF \/ CloseRead \/ Wait

ParentFails == PipeFails \/ ForkFails \/ ReadFails \/ WaitFails

-----------------------------------------------------------------------------
(* The child.                                                              *)

\* The end of a process closes what it held; the kernel encodes how it ended.
End(f, word) ==
    /\ child' = "exited"
    /\ fate' = f
    /\ status' = word
    /\ readers' = readers \ {"child"}
    /\ writers' = writers \ {"child"}
    /\ UNCHANGED <<request, pc, result, buf, cap, written, childErr, pipe, faults>>

\* exec comes back only if execve failed.
ExecFails == child = "exec" /\ End(<<"noexec", 127>>, 127 * 256)

Exec ==
    /\ child = "exec"
    /\ child' = "run"
    /\ UNCHANGED <<request, pc, result, buf, cap, written, fate, status, childErr, pipeVars, faults>>

Write ==
    /\ child = "run"
    /\ written < size
    /\ Len(pipe) < PipeSize
    /\ written' = written + 1
    /\ pipe' = Append(pipe, written + 1)
    /\ UNCHANGED <<request, pc, result, buf, cap, child, fate, status, childErr, readers, writers,
                   faults>>

Exit ==
    /\ child = "run"
    /\ written = size
    /\ \E c \in Codes : End(<<"exit", c>>, c * 256)

Killed ==
    /\ child = "run"
    /\ \E s \in Signals : \E core \in {0, 128} : End(<<"killed", s>>, s + core)

Child == ExecFails \/ Exec \/ Write \/ Exit

Next == Parent \/ ParentFails \/ Child \/ Killed

Spec == Init /\ [][Next]_vars

\* The kernel schedules both processes, and neither stops by itself.  Nothing
\* obliges a call to fail, nor anybody to kill a child: one that is blocked on a
\* full pipe may stay so for ever.
FairSpec == Spec /\ WF_vars(Parent) /\ WF_vars(Child)

-----------------------------------------------------------------------------

TypeOK ==
    /\ pc \in {"pipe", "fork", "closeWrite", "read", "closeRead", "wait", "done"}
    /\ result \in {NotYet, Failed} \union 0 .. 255
    /\ buf \in Seq(1 .. MaxSize)
    /\ cap \in Nat
    /\ child \in {"none", "exec", "run", "exited", "reaped"}
    /\ written \in 0 .. size
    /\ status \in Nat
    /\ pipe \in Seq(1 .. MaxSize) /\ Len(pipe) <= PipeSize
    /\ readers \subseteq {"parent", "child"}
    /\ writers \subseteq {"parent", "child"}
    /\ faults \subseteq {"pipe", "fork", "read", "wait"}

Upto(n) == [k \in 1 .. n |-> k]

\* What output returns is everything the child wrote until it ended, in order,
\* however the reads and the writes interleave and however often the buffer had
\* to grow (after a failed read: the beginning of it); and what the call reports
\* tells how the child ended, as a shell would put it, unless wait4 failed.
CapturedAll ==
    pc = "done" /\ faults \subseteq {"read", "wait"} =>
        /\ call = "output" => buf = Upto(IF "read" \in faults THEN Len(buf) ELSE written)
        /\ result = IF "wait" \in faults THEN Failed
                    ELSE IF fate[1] = "killed" THEN 128 + fate[2] ELSE fate[2]

\* The byte that ends the string always has room.
RoomForTerminator == pc \in {"closeRead", "wait", "done"} => Len(buf) < cap

\* On every way out of output, failures included, the parent holds no end of
\* the pipe; and no child is left unreaped, but where wait4 failed.
NothingLeaks ==
    call = "output" /\ pc = "done" =>
        /\ "parent" \notin readers \union writers
        /\ child \in {"none", "reaped"} \/ "wait" \in faults

\* The parent waits for a child that is blocked on a full pipe.
Stuck == pc = "wait" /\ child = "run" /\ written < size /\ Len(pipe) = PipeSize

\* output returns, whatever the child writes: the pipe is drained while the
\* child runs, and its end is seen.  (After a failed read it is drained no more,
\* and the child, which has inherited the read end, is not even killed by
\* SIGPIPE: then both may wait for ever.)
OutputReturns == (call = "output") ~> (pc = "done" \/ ("read" \in faults /\ Stuck))

\* run and spawn return unless the child fills a pipe that nobody reads.
RunReturns == (call # "output" /\ size <= PipeSize) ~> (pc = "done")

\* "stderr still goes wherever stderr_fd says."
StderrAsAsked == child = "run" => childErr = stderrFd
=============================================================================
