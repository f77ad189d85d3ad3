------------------------------ MODULE Program ------------------------------
(***************************************************************************)
(* Running a command-line tool (popen2.c, Program.cpp): the parent writes  *)
(* the whole input into a pipe, closes it, and reads the output from       *)
(* another pipe until a read returns less than a full chunk.               *)
(*                                                                         *)
(* Bytes are counted, not named: a pipe hands them on in order. An end of  *)
(* a pipe is open as long as a process holds it; popen2 closes ends in the *)
(* child only. The tool itself is outside src/ and may be                  *)
(*   "filter"   reads its input to the end, then writes its output         *)
(*   "stream"   reads and writes as it likes, and ends with its output     *)
(*   "missing"  execv fails; the forked process exits with 99              *)
(***************************************************************************)
EXTENDS Naturals, FiniteSetsExt

CONSTANTS Children,         \* kinds of tools that are run
          Inputs, Outputs,  \* sizes of inputs and of outputs
          Capacity,         \* what a pipe holds (65536 bytes)
          ChunkSize,        \* of getMemoryBufferForStream (16384 bytes)
          AtomicWrite,      \* PIPE_BUF: a pipe does not split a write up to it (4096)
          DescriptorLimit   \* descriptors a process may have beyond its own

ASSUME ChildAssumption == Children \subseteq {"filter", "stream", "missing"}
ASSUME SizeAssumption  == /\ Inputs \subseteq Nat /\ Outputs \subseteq Nat
                          /\ {Capacity, ChunkSize, AtomicWrite} \subseteq Nat \ {0}
                          /\ AtomicWrite <= Capacity
                          /\ DescriptorLimit \in Nat

VARIABLES pc,         \* what the parent does: "idle", "write" or "read"
          call,       \* the tool, its input and its output
          unwritten,  \* input the parent has still to write
          held,       \* ends of this call's pipes, with the process that holds them
          leaked,     \* the parent's descriptors of earlier calls
          child,      \* "none", "forked", "running" or "exited"
          owed,       \* bytes of the write the child is in
          whole,      \* the pipe takes that write at once or not at all
          toChild,    \* bytes in pipe_stdin
          sawEnd,     \* the child has read the end of its input
          produced,   \* bytes the child has written
          fromChild,  \* bytes in pipe_stdout
          size,       \* size of getMemoryBufferForStream
          result      \* "none", "error" or "buffer": what the last call returned

vars == <<pc, call, unwritten, held, leaked, child, owed, whole, toChild, sawEnd,
          produced, fromChild, size, result>>

Ends == {"stdin.read", "stdin.write", "stdout.read", "stdout.write"}
Processes == {"parent", "child"}
Calls == [tool : Children, input : Inputs, output : Outputs]

Holders(end) == {p \in Processes : <<p, end>> \in held}

HeldBy(p) == {h \in held : h[1] = p}

----------------------------------------------------------------------------
(* The parent.                                                             *)

\* What the parent holds stays open when a call returns.
Return(what) ==
    /\ result' = what
    /\ leaked' = leaked + Cardinality({h \in held' : h[1] = "parent"})
    /\ pc' = "idle"

Fresh(c) ==
    /\ call' = c
    /\ unwritten' = c.input
    /\ toChild' = 0 /\ fromChild' = 0
    /\ owed' = 0 /\ produced' = 0 /\ size' = 0
    /\ whole' = FALSE /\ sawEnd' = FALSE

\* popen2 fails after it made some ends: no descriptors for the first pipe, or
\* for the second, or fork fails.
OpenFails(c, ends) ==
    /\ pc = "idle"
    /\ \/ ends = {} /\ leaked + 2 > DescriptorLimit
       \/ ends = {"stdin.read", "stdin.write"}
          /\ leaked + 2 <= DescriptorLimit /\ leaked + 4 > DescriptorLimit
       \/ ends = Ends /\ leaked + 4 <= DescriptorLimit
    /\ Fresh(c)
    /\ held' = {"parent"} \X ends
    /\ child' = "none"
    /\ Return("error")

\* pipe, pipe, fork: both processes hold all ends.
Open(c) ==
    /\ pc = "idle"
    /\ leaked + 4 <= DescriptorLimit
    /\ Fresh(c)
    /\ held' = Processes \X Ends
    /\ child' = "forked"
    /\ pc' = "write"
    /\ result' = "none"
    /\ UNCHANGED leaked

\* How much of the input a write may hand on: what is there room for.
WriteSizes == {n \in 1 .. unwritten : toChild + n <= Capacity}

\* write blocks while the pipe is full. It cannot fail, whatever became of the
\* child: the parent holds the reading end too.
Write ==
    /\ pc = "write"
    /\ \E n \in WriteSizes :
          /\ unwritten' = unwritten - n
          /\ toChild' = toChild + n
    /\ UNCHANGED <<pc, call, held, leaked, child, owed, whole, sawEnd, produced,
                   fromChild, size, result>>

CloseInput ==
    /\ pc = "write" /\ unwritten = 0
    /\ held' = held \ {<<"parent", "stdin.write">>}
    /\ pc' = "read"
    /\ UNCHANGED <<call, unwritten, leaked, child, owed, whole, toChild, sawEnd,
                   produced, fromChild, size, result>>

\* What one read returns: at most a chunk of what is there, and 0 only at the
\* end of the file.
CanRead == fromChild > 0 \/ Holders("stdout.write") = {}

ReadSize == Min({fromChild, ChunkSize})

\* Mutant: the size is updated for full chunks only.
ReadForgettingLast ==
    /\ pc = "read" /\ CanRead
    /\ fromChild' = fromChild - ReadSize
    /\ UNCHANGED held
    /\ IF ReadSize = ChunkSize
       THEN size' = size + ReadSize /\ UNCHANGED <<pc, leaked, result>>
       ELSE Return("buffer") /\ UNCHANGED size
    /\ UNCHANGED <<call, unwritten, child, owed, whole, toChild, sawEnd, produced>>

\* A turn of getMemoryBufferForStream's loop.
Read ==
    /\ pc = "read" /\ CanRead
    /\ size' = size + ReadSize
    /\ fromChild' = fromChild - ReadSize
    /\ UNCHANGED held
    /\ IF ReadSize = ChunkSize THEN UNCHANGED <<pc, leaked, result>>
       ELSE Return("buffer")
    /\ UNCHANGED <<call, unwritten, child, owed, whole, toChild, sawEnd, produced>>

\* A read fails, for instance when a signal interrupts it.
ReadFails ==
    /\ pc = "read"
    /\ UNCHANGED held
    /\ Return("error")
    /\ UNCHANGED <<call, unwritten, child, owed, whole, toChild, sawEnd, produced,
                   fromChild, size>>

----------------------------------------------------------------------------
(* The child. It writes with blocking calls, like the parent.              *)

\* Mutant: the child keeps its copy of the end that the parent writes to.
AfterExecKeeping == held

\* What is still held when execv has succeeded.
AfterExec == held \ {<<"child", "stdin.write">>, <<"child", "stdout.read">>}

Exec ==
    /\ child = "forked"
    /\ IF call.tool = "missing"
       THEN child' = "exited" /\ held' = held \ HeldBy("child")
       ELSE child' = "running" /\ held' = AfterExec
    /\ UNCHANGED <<pc, call, unwritten, leaked, owed, whole, toChild, sawEnd,
                   produced, fromChild, size, result>>

Ready == child = "running" /\ owed = 0

MayAnswer == call.tool = "filter" => sawEnd

\* The input pipe is empty and nobody can write into it.
InputEnds == toChild = 0 /\ Holders("stdin.write") = {}

\* A tool reads what is there, and sees the end once.
ChildReads ==
    /\ Ready
    /\ \/ /\ toChild > 0
          /\ toChild' \in 0 .. toChild - 1
          /\ UNCHANGED sawEnd
       \/ /\ InputEnds /\ ~sawEnd
          /\ sawEnd' = TRUE
          /\ UNCHANGED toChild
    /\ UNCHANGED <<pc, call, unwritten, held, leaked, child, owed, whole, produced,
                   fromChild, size, result>>

\* What the child calls write with.
CallSizes == 1 .. call.output - produced

ChildCallsWrite ==
    /\ Ready /\ MayAnswer
    /\ owed' \in CallSizes
    /\ whole' = (owed' <= AtomicWrite)
    /\ UNCHANGED <<pc, call, unwritten, held, leaked, child, toChild, sawEnd, produced,
                   fromChild, size, result>>

\* How much of it the pipe takes: what there is room for, a small write whole.
PutSizes == {n \in 1 .. owed : (whole => n = owed) /\ fromChild + n <= Capacity}

ChildWrites ==
    /\ child = "running"
    /\ \E n \in PutSizes :
          /\ owed' = owed - n
          /\ produced' = produced + n
          /\ fromChild' = fromChild + n
    /\ whole' = FALSE
    /\ UNCHANGED <<pc, call, unwritten, held, leaked, child, toChild, sawEnd, size, result>>

ChildExits ==
    /\ Ready /\ MayAnswer
    /\ produced = call.output
    /\ child' = "exited"
    /\ held' = held \ HeldBy("child")
    /\ UNCHANGED <<pc, call, unwritten, leaked, owed, whole, toChild, sawEnd,
                   produced, fromChild, size, result>>

----------------------------------------------------------------------------
Init ==
    /\ pc = "idle"
    /\ call \in Calls
    /\ unwritten = 0 /\ toChild = 0 /\ fromChild = 0
    /\ owed = 0 /\ produced = 0 /\ size = 0
    /\ held = {} /\ leaked = 0
    /\ child = "none"
    /\ whole = FALSE /\ sawEnd = FALSE
    /\ result = "none"

\* A call in which the parent goes on; a child the parent has left behind is not
\* followed any further.
Running == Write \/ CloseInput \/ Read

Tool == pc # "idle" /\ (Exec \/ ChildReads \/ ChildCallsWrite \/ ChildWrites \/ ChildExits)

Next ==
    \/ \E c \in Calls : Open(c) \/ \E ends \in SUBSET Ends : OpenFails(c, ends)
    \/ Running \/ ReadFails
    \/ Tool

\* The operating system runs every process that can go on, and a tool that is
\* not waiting in a read or a write goes on.
Fairness == WF_vars(Running) /\ WF_vars(Tool)

Spec == Init /\ [][Next]_vars /\ Fairness

----------------------------------------------------------------------------
\* The types of the state.
TypeOK ==
    /\ pc \in {"idle", "write", "read"}
    /\ call \in Calls
    /\ {unwritten, owed, toChild, produced, fromChild, size, leaked} \subseteq Nat
    /\ held \subseteq Processes \X Ends
    /\ child \in {"none", "forked", "running", "exited"}
    /\ {whole, sawEnd} \subseteq BOOLEAN
    /\ result \in {"none", "error", "buffer"}

\* The guards of the parent's steps, and of the tool's: when Running and Tool are
\* enabled.
ParentGoesOn ==
    \/ pc = "write" /\ (unwritten = 0 \/ WriteSizes # {})
    \/ pc = "read" /\ CanRead

ToolGoesOn ==
    \/ child = "forked"
    \/ Ready /\ (toChild > 0 \/ (InputEnds /\ ~sawEnd))
    \/ Ready /\ MayAnswer /\ (CallSizes # {} \/ produced = call.output)
    \/ child = "running" /\ PutSizes # {}

\* Neither process can take a step.
Stuck == pc # "idle" /\ ~ParentGoesOn /\ ~ToolGoesOn

\* A write of the tool has no room in the pipe.
NoRoom == fromChild = Capacity \/ (whole /\ fromChild + owed > Capacity)

\* A call hangs in three ways only: the tool ended and left the input pipe full;
\* both processes wait in a write, the parent for a full pipe and the tool for
\* one without room; or the tool ended after an output (possibly none) that is a
\* multiple of the chunk, and the parent waits for an end of file that its own
\* end of the pipe holds back.
HangsAreExplained ==
    Stuck =>
        \/ pc = "write" /\ toChild = Capacity /\ child = "exited"
        \/ pc = "write" /\ toChild = Capacity /\ owed > 0 /\ NoRoom
        \/ pc = "read" /\ child = "exited" /\ produced % ChunkSize = 0

\* What runProgram returns is all the tool had written at the last read, none of
\* it left in the pipe. It is shorter than the output only if the tool was still
\* to write the rest, and a size that a full chunk ends on is never returned.
CutsAreExplained ==
    result = "buffer" => /\ size = produced
                         /\ size < call.output => child = "running"
                         /\ size % ChunkSize # 0

\* A call of a tool that reads its input to the end before it answers returns,
\* if the answer is no multiple of the chunk: it sees the end of its input,
\* however long that is, for the writing end is closed in both processes.
FilterReturns ==
    (pc # "idle" /\ call.tool = "filter" /\ call.output % ChunkSize # 0)
        ~> (pc = "idle")

\* "Read output:" (Program.cpp:70): the buffer runProgram returns is the output.
BufferIsOutput == result = "buffer" => size = call.output

=============================================================================
