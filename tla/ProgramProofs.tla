--------------------------- MODULE ProgramProofs ---------------------------
(***************************************************************************)
(* Proofs about Program, for every tool, pipe, chunk and atomic write: what*)
(* a call may return and in which ways it may hang. Both rest on what the  *)
(* code does not close: the parent holds the writing end of the pipe that  *)
(* it reads, so that no read returns before something is written.          *)
(***************************************************************************)
EXTENDS Program, FiniteSetTheorems, TLAPS

\* The parent could write what it waits for.
HoldsItsOwnEnd == pc # "idle" => <<"parent", "stdout.write">> \in held

\* Every byte that was written was read or is in the pipe.
NothingIsLost == pc # "idle" => size + fromChild = produced

\* A write that the pipe takes as a whole is a small one.
SmallWrites == whole => owed <= AtomicWrite

Returned == result = "buffer" => pc = "idle"

ProgramInv ==
    TypeOK /\ HoldsItsOwnEnd /\ NothingIsLost /\ SmallWrites /\ Returned

----------------------------------------------------------------------------
\* What a read returns is in the pipe and fits a chunk; it is the whole pipe
\* unless it fills the chunk.
LEMMA ReadSizes ==
    ASSUME fromChild \in Nat
    PROVE  /\ ReadSize \in 0 .. fromChild /\ ReadSize <= ChunkSize
           /\ ReadSize # ChunkSize => ReadSize = fromChild
  <1>1. ChunkSize \in Nat
    BY SizeAssumption
  <1>2. \E x \in {fromChild, ChunkSize} : \A y \in {fromChild, ChunkSize} : x <= y
    <2>1. CASE fromChild <= ChunkSize
      BY <2>1, <1>1
    <2>2. CASE ~(fromChild <= ChunkSize)
      BY <2>2, <1>1
    <2> QED  BY <2>1, <2>2
  <1>3. /\ ReadSize \in {fromChild, ChunkSize}
        /\ ReadSize <= fromChild /\ ReadSize <= ChunkSize
    BY <1>2 DEF ReadSize, Min
  <1> QED  BY <1>1, <1>3

\* The descriptors that a returning call leaves behind are so many.
LEMMA LeakedType ==
    ASSUME leaked \in Nat, held' \subseteq Processes \X Ends
    PROVE  leaked + Cardinality({h \in held' : h[1] = "parent"}) \in Nat
  <1>1. IsFiniteSet(Processes) /\ IsFiniteSet(Ends)
    <2>1. IsFiniteSet({"parent"}) /\ IsFiniteSet({"child"})
      BY FS_Singleton
    <2>2. Processes = {"parent"} \cup {"child"}
      BY DEF Processes
    <2>3. /\ IsFiniteSet({"stdin.read"}) /\ IsFiniteSet({"stdin.write"})
          /\ IsFiniteSet({"stdout.read"}) /\ IsFiniteSet({"stdout.write"})
      BY FS_Singleton
    <2>4. IsFiniteSet({"stdin.read"} \cup {"stdin.write"})
          /\ IsFiniteSet({"stdout.read"} \cup {"stdout.write"})
      BY <2>3, FS_Union
    <2>5. Ends = ({"stdin.read"} \cup {"stdin.write"}) \cup ({"stdout.read"} \cup {"stdout.write"})
      BY DEF Ends
    <2> QED  BY <2>1, <2>2, <2>4, <2>5, FS_Union
  <1>2. IsFiniteSet(Processes \X Ends)
    BY <1>1, FS_Product
  <1>3. IsFiniteSet({h \in held' : h[1] = "parent"})
    BY <1>2, FS_Subset
  <1> QED  BY <1>3, FS_CardinalityType

LEMMA InitialState == Init => ProgramInv
  <1> SUFFICES ASSUME Init PROVE ProgramInv
    OBVIOUS
  <1>1. TypeOK
    <2>1. {whole, sawEnd} \subseteq BOOLEAN /\ held \subseteq Processes \X Ends
      BY Zenon DEF Init
    <2>2. {unwritten, owed, toChild, produced, fromChild, size, leaked} \subseteq Nat
      BY SMT DEF Init
    <2> QED  BY <2>1, <2>2 DEF Init, TypeOK
  <1>2. pc = "idle" /\ result = "none" /\ ~whole
    BY DEF Init
  <1>3. HoldsItsOwnEnd /\ NothingIsLost /\ SmallWrites /\ Returned
    BY <1>2 DEF HoldsItsOwnEnd, NothingIsLost, SmallWrites, Returned
  <1> QED  BY <1>1, <1>3 DEF ProgramInv

----------------------------------------------------------------------------
(* One lemma for the calls, one for what the parent does, one for the tool.*)

LEMMA CallStep ==
    ASSUME ProgramInv, NEW c \in Calls,
           Open(c) \/ \E ends \in SUBSET Ends : OpenFails(c, ends)
    PROVE  ProgramInv'
  <1>1. c.input \in Nat /\ c.output \in Nat
    BY SizeAssumption DEF Calls
  <1>2. CASE Open(c)
    <2>1. held' \subseteq Processes \X Ends /\ <<"parent", "stdout.write">> \in held'
      BY <1>2 DEF Open, Processes, Ends
    <2>2. TypeOK'
      <3>1. {whole', sawEnd'} \subseteq BOOLEAN
        BY <1>2, Zenon DEF Open, Fresh
      <3>2. {unwritten', owed', toChild', produced', fromChild', size', leaked'} \subseteq Nat
        BY <1>1, <1>2 DEF Open, Fresh, ProgramInv, TypeOK
      <3> QED  BY <1>2, <2>1, <3>1, <3>2 DEF Open, Fresh, TypeOK
    <2>3. Returned'
      <3>1. result' = "none"
        BY <1>2 DEF Open
      <3> QED  BY <3>1 DEF Returned
    <2>4. HoldsItsOwnEnd' /\ NothingIsLost' /\ SmallWrites'
      BY <1>2, <2>1 DEF Open, Fresh, HoldsItsOwnEnd, NothingIsLost, SmallWrites
    <2> QED  BY <2>2, <2>3, <2>4 DEF ProgramInv
  <1>3. ASSUME NEW ends \in SUBSET Ends, OpenFails(c, ends) PROVE ProgramInv'
    <2>1. held' \subseteq Processes \X Ends
      BY <1>3 DEF OpenFails, Processes
    <2>2. leaked' \in Nat
      BY <1>3, <2>1, LeakedType DEF OpenFails, Return, ProgramInv, TypeOK
    <2>3. TypeOK'
      <3>1. {whole', sawEnd'} \subseteq BOOLEAN
        BY <1>3, Zenon DEF OpenFails, Fresh
      <3>2. {unwritten', owed', toChild', produced', fromChild', size', leaked'} \subseteq Nat
        BY <1>1, <1>3, <2>2 DEF OpenFails, Fresh
      <3> QED  BY <1>3, <2>1, <3>1, <3>2 DEF OpenFails, Return, Fresh, TypeOK
    <2>4. pc' = "idle" /\ ~whole'
      BY <1>3 DEF OpenFails, Return, Fresh
    <2>5. /\ HoldsItsOwnEnd' /\ NothingIsLost' /\ SmallWrites' /\ Returned'
      BY <2>4 DEF HoldsItsOwnEnd, NothingIsLost, SmallWrites, Returned
    <2> QED  BY <2>3, <2>5 DEF ProgramInv
  <1> QED  BY <1>2, <1>3

LEMMA ParentStep ==
    ASSUME ProgramInv, Running \/ ReadFails
    PROVE  ProgramInv'
  <1>1. /\ {unwritten, owed, toChild, produced, fromChild, size, leaked} \subseteq Nat
        /\ held \subseteq Processes \X Ends /\ call.output \in Nat
    BY SizeAssumption DEF ProgramInv, TypeOK, Calls
  <1>2. CASE Write
    <2>1. unwritten' \in Nat /\ toChild' \in Nat
      BY <1>1, <1>2 DEF Write, WriteSizes
    <2>2. TypeOK'
      BY <1>1, <1>2, <2>1 DEF Write, ProgramInv, TypeOK
    <2> QED
      BY <1>2, <2>2 DEF Write, ProgramInv, HoldsItsOwnEnd, NothingIsLost, SmallWrites,
                        Returned
  <1>3. CASE CloseInput
    <2>1. TypeOK'
      BY <1>1, <1>3 DEF CloseInput, ProgramInv, TypeOK
    <2> QED
      BY <1>3, <2>1 DEF CloseInput, ProgramInv, HoldsItsOwnEnd, NothingIsLost, SmallWrites,
                        Returned
  <1>4. CASE Read
    <2>1. fromChild > 0
      BY <1>1, <1>4 DEF Read, CanRead, Holders, Processes, ProgramInv, HoldsItsOwnEnd
    <2>2. /\ ReadSize \in 0 .. fromChild
          /\ ReadSize # ChunkSize => ReadSize = fromChild
      BY <1>1, ReadSizes
    <2>3. size' = size + ReadSize /\ fromChild' = fromChild - ReadSize /\ held' = held
      BY <1>4 DEF Read
    <2>4. size' \in Nat /\ fromChild' \in Nat /\ size' + fromChild' = produced
      BY <1>1, <1>4, <2>2, <2>3 DEF Read, ProgramInv, NothingIsLost
    <2>5. leaked' \in Nat
      BY <1>1, <1>4, <2>3, LeakedType DEF Read, Return
    <2>6. TypeOK'
      BY <1>1, <1>4, <2>4, <2>5 DEF Read, Return, ProgramInv, TypeOK
    <2> QED
      BY <1>4, <2>4, <2>6 DEF Read, Return, ProgramInv, HoldsItsOwnEnd, NothingIsLost,
                                    SmallWrites, Returned
  <1>5. CASE ReadFails
    <2>1. leaked' \in Nat
      BY <1>1, <1>5, LeakedType DEF ReadFails, Return
    <2>2. TypeOK'
      BY <1>5, <2>1 DEF ReadFails, Return, ProgramInv, TypeOK
    <2> QED
      BY <1>5, <2>2 DEF ReadFails, Return, ProgramInv, HoldsItsOwnEnd, NothingIsLost,
                        SmallWrites, Returned
  <1> QED  BY <1>2, <1>3, <1>4, <1>5 DEF Running

LEMMA ToolStep ==
    ASSUME ProgramInv, Tool
    PROVE  ProgramInv'
  <1>1. /\ {unwritten, owed, toChild, produced, fromChild, size, leaked} \subseteq Nat
        /\ held \subseteq Processes \X Ends /\ call.output \in Nat
    BY SizeAssumption DEF ProgramInv, TypeOK, Calls
  <1>2. pc # "idle"
    BY DEF Tool
  <1>3. CASE Exec
    <2>1. held' \subseteq held /\ <<"parent", "stdout.write">> \in held'
      BY <1>2, <1>3 DEF Exec, AfterExec, HeldBy, ProgramInv, HoldsItsOwnEnd
    <2>2. TypeOK'
      BY <1>1, <1>3, <2>1 DEF Exec, ProgramInv, TypeOK
    <2> QED
      BY <1>3, <2>1, <2>2 DEF Exec, ProgramInv, HoldsItsOwnEnd, NothingIsLost, SmallWrites,
                              Returned
  <1>4. CASE ChildReads
    <2>1. toChild' \in Nat
      BY <1>1, <1>4 DEF ChildReads
    <2>2. sawEnd' \in BOOLEAN
      BY <1>4, Zenon DEF ChildReads, ProgramInv, TypeOK
    <2>3. TypeOK'
      BY <1>1, <1>4, <2>1, <2>2 DEF ChildReads, ProgramInv, TypeOK
    <2> QED
      BY <1>4, <2>3 DEF ChildReads, ProgramInv, HoldsItsOwnEnd, NothingIsLost, SmallWrites,
                        Returned
  <1>5. CASE ChildCallsWrite
    <2>1. owed' \in Nat
      BY <1>1, <1>5 DEF ChildCallsWrite, CallSizes
    <2>2. (whole' => owed' <= AtomicWrite) /\ whole' \in BOOLEAN
      <3>1. whole' = (owed' <= AtomicWrite)
        BY <1>5, Zenon DEF ChildCallsWrite
      <3>2. AtomicWrite \in Nat
        BY SizeAssumption
      <3>3. (owed' <= AtomicWrite) \in BOOLEAN
        BY <2>1, <3>2
      <3> QED  BY <3>1, <3>3, Zenon
    <2>3. TypeOK'
      <3>1. {whole', sawEnd'} \subseteq BOOLEAN
        BY <1>5, <2>2, Zenon DEF ChildCallsWrite, ProgramInv, TypeOK
      <3> QED  BY <1>1, <1>5, <2>1, <3>1 DEF ChildCallsWrite, ProgramInv, TypeOK
    <2>4. SmallWrites'
      BY <2>2, Zenon DEF SmallWrites
    <2> QED
      BY <1>5, <2>3, <2>4 DEF ChildCallsWrite, ProgramInv, HoldsItsOwnEnd, NothingIsLost,
                              Returned
  <1>6. CASE ChildWrites
    <2>1. PICK n \in 1 .. owed :
             owed' = owed - n /\ produced' = produced + n /\ fromChild' = fromChild + n
      BY <1>6 DEF ChildWrites, PutSizes
    <2>2. owed' \in Nat /\ produced' \in Nat /\ fromChild' \in Nat
      BY <1>1, <2>1
    <2>3. TypeOK'
      <3>1. {whole', sawEnd'} \subseteq BOOLEAN /\ ~whole'
        BY <1>6, Zenon DEF ChildWrites, ProgramInv, TypeOK
      <3> QED  BY <1>1, <1>6, <2>2, <3>1 DEF ChildWrites, ProgramInv, TypeOK
    <2>4. NothingIsLost'
      BY <1>1, <1>2, <1>6, <2>1 DEF ChildWrites, ProgramInv, NothingIsLost
    <2>5. SmallWrites'
      BY <1>6 DEF ChildWrites, SmallWrites
    <2> QED
      BY <1>2, <1>6, <2>3, <2>4, <2>5 DEF ChildWrites, ProgramInv, HoldsItsOwnEnd, Returned
  <1>7. CASE ChildExits
    <2>1. held' \subseteq held /\ <<"parent", "stdout.write">> \in held'
      BY <1>2, <1>7 DEF ChildExits, HeldBy, ProgramInv, HoldsItsOwnEnd
    <2>2. TypeOK'
      BY <1>1, <1>7, <2>1 DEF ChildExits, ProgramInv, TypeOK
    <2> QED
      BY <1>7, <2>1, <2>2 DEF ChildExits, ProgramInv, HoldsItsOwnEnd, NothingIsLost,
                              SmallWrites, Returned
  <1> QED  BY <1>3, <1>4, <1>5, <1>6, <1>7 DEF Tool

----------------------------------------------------------------------------
\* The inductive invariant holds: runProgram loses nothing on the way, and keeps
\* the end that makes it wait for output.
THEOREM ProgramInvariant == Spec => []ProgramInv
  <1>1. Init => ProgramInv
    BY InitialState
  <1>2. ProgramInv /\ [Next]_vars => ProgramInv'
    <2> SUFFICES ASSUME ProgramInv, [Next]_vars PROVE ProgramInv'
      OBVIOUS
    <2>1. CASE \E c \in Calls : Open(c) \/ \E ends \in SUBSET Ends : OpenFails(c, ends)
      BY <2>1, CallStep
    <2>2. CASE Running \/ ReadFails
      BY <2>2, ParentStep
    <2>3. CASE Tool
      BY <2>3, ToolStep
    <2>4. CASE UNCHANGED vars
      BY <2>4 DEF vars, ProgramInv, TypeOK, HoldsItsOwnEnd, NothingIsLost, SmallWrites,
                  Returned
    <2> QED  BY <2>1, <2>2, <2>3, <2>4 DEF Next
  <1> QED  BY <1>1, <1>2, PTL DEF Spec

\* The state keeps its types (popen2.c, Program.cpp).
THEOREM ProgramTypes == Spec => []TypeOK
  <1>1. ProgramInv => TypeOK
    BY DEF ProgramInv
  <1> QED  BY <1>1, ProgramInvariant, PTL

----------------------------------------------------------------------------
(* What a hang depends on: the room in the pipes, who holds the end that   *)
(* the parent writes to, and how much the parent has read.                 *)

PipesHold == toChild <= Capacity /\ fromChild <= Capacity

\* The parent goes on reading after full chunks only.
ReadInChunks ==
    /\ pc = "write" => size = 0
    /\ pc = "read" => \E k \in Nat : size = k * ChunkSize

\* Nobody but a parent that still writes keeps the tool from the end of its input.
InputIsClosed ==
    /\ pc = "read" => <<"parent", "stdin.write">> \notin held
    /\ child # "forked" => <<"child", "stdin.write">> \notin held

ChildIsThere == pc # "idle" => child # "none"

WithinOutput == produced + owed <= call.output

WaitInv == PipesHold /\ ReadInChunks /\ InputIsClosed /\ ChildIsThere /\ WithinOutput

Numbers ==
    /\ {unwritten, owed, toChild, produced, fromChild, size} \subseteq Nat
    /\ call.output \in Nat
    /\ {Capacity, ChunkSize, AtomicWrite} \subseteq Nat \ {0}
    /\ AtomicWrite <= Capacity

LEMMA AreNumbers == ASSUME ProgramInv PROVE Numbers
  BY SizeAssumption DEF ProgramInv, TypeOK, Calls, Numbers

LEMMA Multiples ==
    ASSUME NEW c \in Nat \ {0}
    PROVE  /\ 0 = 0 * c
           /\ \A k \in Nat : k * c + c = (k + 1) * c /\ (k * c) % c = 0
  OBVIOUS

LEMMA WaitInit == Init => WaitInv
  <1> SUFFICES ASSUME Init PROVE WaitInv
    OBVIOUS
  <1>1. Capacity \in Nat /\ call.output \in Nat
    BY SizeAssumption DEF Init, Calls
  <1>2. PipesHold /\ WithinOutput
    BY <1>1 DEF Init, PipesHold, WithinOutput
  <1>3. pc = "idle" /\ held = {}
    BY DEF Init
  <1> QED  BY <1>2, <1>3 DEF WaitInv, ReadInChunks, InputIsClosed, ChildIsThere

LEMMA CallWaits ==
    ASSUME NEW c \in Calls, Open(c) \/ \E ends \in SUBSET Ends : OpenFails(c, ends)
    PROVE  WaitInv'
  <1>1. Capacity \in Nat /\ c.output \in Nat
    BY SizeAssumption DEF Calls
  <1>2. CASE Open(c)
    <2>1. /\ call' = c /\ toChild' = 0 /\ fromChild' = 0 /\ owed' = 0 /\ produced' = 0
          /\ size' = 0 /\ pc' = "write" /\ child' = "forked"
      BY <1>2 DEF Open, Fresh
    <2>2. PipesHold' /\ WithinOutput'
      BY <1>1, <2>1 DEF PipesHold, WithinOutput
    <2> QED  BY <2>1, <2>2 DEF WaitInv, ReadInChunks, InputIsClosed, ChildIsThere
  <1>3. ASSUME NEW ends \in SUBSET Ends, OpenFails(c, ends) PROVE WaitInv'
    <2>1. /\ call' = c /\ toChild' = 0 /\ fromChild' = 0 /\ owed' = 0 /\ produced' = 0
          /\ size' = 0 /\ pc' = "idle"
      BY <1>3 DEF OpenFails, Fresh, Return
    <2>2. held' = {"parent"} \X ends
      BY <1>3 DEF OpenFails
    <2>3. <<"child", "stdin.write">> \notin held'
      BY <2>2
    <2>4. PipesHold' /\ WithinOutput'
      BY <1>1, <2>1 DEF PipesHold, WithinOutput
    <2> QED  BY <2>1, <2>3, <2>4 DEF WaitInv, ReadInChunks, InputIsClosed, ChildIsThere
  <1> QED  BY <1>2, <1>3

LEMMA ParentWaits ==
    ASSUME ProgramInv, WaitInv, Running \/ ReadFails
    PROVE  WaitInv'
  <1>1. Numbers
    BY AreNumbers
  <1>2. CASE Write
    <2>1. toChild' <= Capacity
      BY <1>1, <1>2 DEF Write, WriteSizes, Numbers
    <2> QED
      BY <1>2, <2>1 DEF Write, WaitInv, PipesHold, ReadInChunks, InputIsClosed, ChildIsThere,
                        WithinOutput
  <1>3. CASE CloseInput
    <2>1. pc' = "read" /\ size' = 0 /\ held' = held \ {<<"parent", "stdin.write">>}
      BY <1>3 DEF CloseInput, WaitInv, ReadInChunks
    <2>2. ReadInChunks'
      BY <1>1, <2>1, Multiples DEF ReadInChunks, Numbers
    <2>3. InputIsClosed'
      BY <1>3, <2>1 DEF CloseInput, WaitInv, InputIsClosed
    <2> QED
      BY <1>3, <2>2, <2>3 DEF CloseInput, WaitInv, PipesHold, ChildIsThere, WithinOutput
  <1>4. CASE Read
    <2>1. ReadSize \in 0 .. fromChild /\ ReadSize <= ChunkSize
      BY <1>1, ReadSizes DEF Numbers
    <2>2. fromChild' <= Capacity
      BY <1>1, <1>4, <2>1 DEF Read, WaitInv, PipesHold, Numbers
    <2>3. ReadInChunks'
      <3>1. CASE ReadSize = ChunkSize
        <4>1. pc' = "read" /\ size' = size + ChunkSize
          BY <1>4, <3>1 DEF Read
        <4>2. PICK k \in Nat : size = k * ChunkSize
          BY <1>4 DEF Read, WaitInv, ReadInChunks
        <4>3. size' = (k + 1) * ChunkSize /\ k + 1 \in Nat
          BY <1>1, <4>1, <4>2, Multiples DEF Numbers
        <4> QED  BY <4>1, <4>3 DEF ReadInChunks
      <3>2. CASE ReadSize # ChunkSize
        <4>1. pc' = "idle"
          BY <1>4, <3>2 DEF Read, Return
        <4> QED  BY <4>1 DEF ReadInChunks
      <3> QED  BY <3>1, <3>2
    <2>4. pc' \in {pc, "idle"}
      BY <1>4 DEF Read, Return
    <2> QED
      BY <1>4, <2>2, <2>3, <2>4 DEF Read, WaitInv, PipesHold, InputIsClosed, ChildIsThere,
                                    WithinOutput
  <1>5. CASE ReadFails
    BY <1>5 DEF ReadFails, Return, WaitInv, PipesHold, ReadInChunks, InputIsClosed,
                ChildIsThere, WithinOutput
  <1> QED  BY <1>2, <1>3, <1>4, <1>5 DEF Running

LEMMA ToolWaits ==
    ASSUME ProgramInv, WaitInv, Tool
    PROVE  WaitInv'
  <1>1. Numbers
    BY AreNumbers
  <1>2. pc # "idle"
    BY DEF Tool
  <1>3. CASE Exec
    <2>1. /\ held' \subseteq held /\ <<"child", "stdin.write">> \notin held'
          /\ child' \in {"exited", "running"}
      BY <1>3 DEF Exec, AfterExec, HeldBy
    <2> QED
      BY <1>3, <2>1 DEF Exec, WaitInv, PipesHold, ReadInChunks, InputIsClosed, ChildIsThere,
                        WithinOutput
  <1>4. CASE ChildReads
    <2>1. toChild' <= Capacity
      BY <1>1, <1>4 DEF ChildReads, WaitInv, PipesHold, Numbers
    <2> QED
      BY <1>4, <2>1 DEF ChildReads, WaitInv, PipesHold, ReadInChunks, InputIsClosed,
                        ChildIsThere, WithinOutput
  <1>5. CASE ChildCallsWrite
    <2>1. owed' \in 1 .. call.output - produced
      BY <1>5 DEF ChildCallsWrite, CallSizes
    <2>2. produced + owed' <= call.output
      BY <1>1, <2>1 DEF Numbers
    <2> QED
      BY <1>5, <2>2 DEF ChildCallsWrite, WaitInv, PipesHold, ReadInChunks, InputIsClosed,
                        ChildIsThere, WithinOutput
  <1>6. CASE ChildWrites
    <2>1. PICK n \in 1 .. owed :
             /\ owed' = owed - n /\ produced' = produced + n /\ fromChild' = fromChild + n
             /\ fromChild + n <= Capacity
      BY <1>6 DEF ChildWrites, PutSizes
    <2>2. produced' + owed' <= call.output
      BY <1>1, <2>1 DEF WaitInv, WithinOutput, Numbers
    <2> QED
      BY <1>6, <2>1, <2>2 DEF ChildWrites, WaitInv, PipesHold, ReadInChunks, InputIsClosed,
                              ChildIsThere, WithinOutput
  <1>7. CASE ChildExits
    <2>1. held' \subseteq held /\ child' = "exited" /\ <<"child", "stdin.write">> \notin held'
      BY <1>7 DEF ChildExits, HeldBy
    <2> QED
      BY <1>7, <2>1 DEF ChildExits, WaitInv, PipesHold, ReadInChunks, InputIsClosed,
                        ChildIsThere, WithinOutput
  <1> QED  BY <1>3, <1>4, <1>5, <1>6, <1>7 DEF Tool

----------------------------------------------------------------------------
(* The three ways to hang.                                                 *)

\* A parent that cannot write has filled the pipe. A tool that cannot go on then
\* has ended, or waits in a write for which there is no room: if there is input
\* it would read.
LEMMA StuckWriting ==
    ASSUME ProgramInv, WaitInv, Stuck, pc = "write"
    PROVE  HangsAreExplained
  <1>1. Numbers
    BY AreNumbers
  <1>2. toChild = Capacity /\ toChild > 0
    <2>1. unwritten # 0 /\ WriteSizes = {}
      BY DEF Stuck, ParentGoesOn
    <2>2. 1 \notin WriteSizes /\ 1 \in 1 .. unwritten
      BY <1>1, <2>1 DEF Numbers
    <2>3. ~(toChild + 1 <= Capacity)
      BY <2>2 DEF WriteSizes
    <2> QED  BY <1>1, <2>3 DEF WaitInv, PipesHold, Numbers
  <1>3. child \in {"running", "exited"}
    BY DEF Stuck, ToolGoesOn, WaitInv, ChildIsThere, ProgramInv, TypeOK
  <1>4. CASE child = "running"
    <2>1. owed > 0
      BY <1>1, <1>2, <1>4 DEF Stuck, ToolGoesOn, Ready, Numbers
    <2>2. PutSizes = {}
      BY <1>4 DEF Stuck, ToolGoesOn
    <2>3. NoRoom
      <3>1. CASE whole
        <4>1. owed \notin PutSizes /\ owed \in 1 .. owed
          BY <1>1, <2>1, <2>2 DEF Numbers
        <4>2. ~(fromChild + owed <= Capacity)
          BY <4>1 DEF PutSizes
        <4> QED  BY <1>1, <3>1, <4>2 DEF NoRoom, Numbers
      <3>2. CASE ~whole
        <4>1. 1 \notin PutSizes /\ 1 \in 1 .. owed
          BY <1>1, <2>1, <2>2 DEF Numbers
        <4>2. ~(fromChild + 1 <= Capacity)
          BY <3>2, <4>1 DEF PutSizes
        <4> QED  BY <1>1, <4>2 DEF WaitInv, PipesHold, NoRoom, Numbers
      <3> QED  BY <3>1, <3>2
    <2> QED  BY <1>2, <2>1, <2>3 DEF HangsAreExplained
  <1> QED  BY <1>2, <1>3, <1>4 DEF HangsAreExplained

\* A parent that cannot read waits for output, for it holds the writing end. A
\* tool that runs would see the end of its input, since nobody holds that end
\* any more, and has room for its answer.
LEMMA StuckReading ==
    ASSUME ProgramInv, WaitInv, Stuck, pc = "read"
    PROVE  HangsAreExplained
  <1>1. Numbers
    BY AreNumbers
  <1>2. fromChild = 0
    BY <1>1 DEF Stuck, ParentGoesOn, CanRead, Numbers
  <1>3. child \in {"running", "exited"}
    BY DEF Stuck, ToolGoesOn, WaitInv, ChildIsThere, ProgramInv, TypeOK
  <1>4. child # "running"
    <2> SUFFICES ASSUME child = "running" PROVE FALSE
      OBVIOUS
    <2>1. owed = 0
      <3> SUFFICES ASSUME owed # 0 PROVE FALSE
        OBVIOUS
      <3>1. PutSizes = {}
        BY DEF Stuck, ToolGoesOn
      <3>2. CASE whole
        <4>1. owed <= Capacity
          BY <1>1, <3>2 DEF ProgramInv, SmallWrites, Numbers
        <4>2. owed \in PutSizes
          BY <1>1, <1>2, <4>1 DEF PutSizes, Numbers
        <4> QED  BY <3>1, <4>2
      <3>3. CASE ~whole
        <4>1. 1 \in PutSizes
          BY <1>1, <1>2, <3>3 DEF PutSizes, Numbers
        <4> QED  BY <3>1, <4>1
      <3> QED  BY <3>2, <3>3
    <2>2. Ready
      BY <2>1 DEF Ready
    <2>3. Holders("stdin.write") = {}
      BY DEF Holders, Processes, WaitInv, InputIsClosed
    <2>4. sawEnd
      BY <1>1, <2>2, <2>3 DEF Stuck, ToolGoesOn, InputEnds, Numbers
    <2>5. MayAnswer
      BY <2>4 DEF MayAnswer
    <2>6. CallSizes = {} /\ produced # call.output
      BY <2>2, <2>5 DEF Stuck, ToolGoesOn
    <2>7. 1 <= call.output - produced
      BY <1>1, <2>1, <2>6 DEF WaitInv, WithinOutput, Numbers
    <2>8. 1 \in CallSizes
      BY <1>1, <2>7 DEF CallSizes, Numbers
    <2> QED  BY <2>6, <2>8
  <1>5. produced % ChunkSize = 0
    <2>1. PICK k \in Nat : size = k * ChunkSize
      BY DEF WaitInv, ReadInChunks
    <2>2. size = produced
      BY <1>1, <1>2 DEF ProgramInv, NothingIsLost, Numbers
    <2>3. (k * ChunkSize) % ChunkSize = 0
      BY <1>1, Multiples DEF Numbers
    <2> QED  BY <2>1, <2>2, <2>3
  <1> QED  BY <1>3, <1>4, <1>5 DEF HangsAreExplained

THEOREM WaitInvariant == Spec => [](ProgramInv /\ WaitInv)
  <1> DEFINE Both == ProgramInv /\ WaitInv
  <1>1. Init => Both
    BY InitialState, WaitInit
  <1>2. Both /\ [Next]_vars => Both'
    <2> SUFFICES ASSUME Both, [Next]_vars PROVE Both'
      OBVIOUS
    <2>1. CASE \E c \in Calls : Open(c) \/ \E ends \in SUBSET Ends : OpenFails(c, ends)
      BY <2>1, CallStep, CallWaits
    <2>2. CASE Running \/ ReadFails
      BY <2>2, ParentStep, ParentWaits
    <2>3. CASE Tool
      BY <2>3, ToolStep, ToolWaits
    <2>4. CASE UNCHANGED vars
      BY <2>4 DEF vars, ProgramInv, TypeOK, HoldsItsOwnEnd, NothingIsLost, SmallWrites,
                  Returned, WaitInv, PipesHold, ReadInChunks, InputIsClosed,
                  ChildIsThere, WithinOutput
    <2> QED  BY <2>1, <2>2, <2>3, <2>4 DEF Next
  <1>3. Spec => []Both
    BY <1>1, <1>2, PTL DEF Spec
  <1> QED  BY <1>3

\* runProgram hangs in three ways only, whatever the tool and the sizes: a tool
\* that ended without reading its input, two full pipes, and an output that is
\* a multiple of the chunk.
THEOREM HangsExplained == Spec => []HangsAreExplained
  <1>1. ProgramInv /\ WaitInv => HangsAreExplained
    <2> SUFFICES ASSUME ProgramInv, WaitInv PROVE HangsAreExplained
      OBVIOUS
    <2>1. CASE ~Stuck
      BY <2>1 DEF HangsAreExplained
    <2>2. CASE Stuck
      <3>1. pc \in {"write", "read"}
        BY <2>2 DEF Stuck, ProgramInv, TypeOK
      <3> QED  BY <2>2, <3>1, StuckWriting, StuckReading
    <2> QED  BY <2>1, <2>2
  <1> QED  BY <1>1, WaitInvariant, PTL

----------------------------------------------------------------------------
(* What is returned.                                                       *)

\* A tool has written nothing before it runs, and all of its output when it ends,
\* unless it could not be run.
OutputOfTool ==
    pc # "idle" =>
        /\ child = "forked" => produced = 0
        /\ child = "exited" => produced \in {0, call.output}

OutputInv == OutputOfTool /\ CutsAreExplained

\* A number between two multiples is none.
LEMMA BetweenMultiples ==
    ASSUME NEW c \in Nat \ {0}, NEW k \in Nat, NEW r \in 1 .. c - 1
    PROVE  (k * c + r) % c # 0
  OBVIOUS

\* The last read takes what is in the pipe, for it got less than a chunk.
LEMMA ReadReturns ==
    ASSUME ProgramInv, WaitInv, OutputOfTool, Read
    PROVE  CutsAreExplained'
  <1> SUFFICES ASSUME result' = "buffer"
               PROVE  /\ size' = produced' /\ size' % ChunkSize # 0
                      /\ size' < call'.output => child' = "running"
    BY DEF CutsAreExplained
  <1>1. Numbers
    BY AreNumbers
  <1>2. fromChild > 0
    BY <1>1 DEF Read, CanRead, Holders, Processes, ProgramInv, HoldsItsOwnEnd, Numbers
  <1>3. ReadSize = fromChild /\ ReadSize <= ChunkSize /\ ReadSize # ChunkSize
    BY <1>1, ReadSizes DEF Read, ProgramInv, Returned, Numbers
  <1>4. /\ size' = size + fromChild /\ produced' = produced /\ call' = call /\ child' = child
        /\ pc = "read" /\ size + fromChild = produced
    BY <1>3 DEF Read, ProgramInv, NothingIsLost
  <1>5. size' % ChunkSize # 0
    <2>1. PICK k \in Nat : size = k * ChunkSize
      BY <1>4 DEF WaitInv, ReadInChunks
    <2>2. fromChild \in 1 .. ChunkSize - 1
      BY <1>1, <1>2, <1>3 DEF Numbers
    <2> QED  BY <1>1, <1>4, <2>1, <2>2, BetweenMultiples DEF Numbers
  <1>6. ASSUME size' < call'.output PROVE child' = "running"
    <2>1. produced > 0 /\ produced # call.output
      BY <1>1, <1>2, <1>4, <1>6 DEF Numbers
    <2> QED
      BY <1>4, <2>1 DEF OutputOfTool, WaitInv, ChildIsThere, ProgramInv, TypeOK
  <1> QED  BY <1>4, <1>5, <1>6

LEMMA OutputParent ==
    ASSUME ProgramInv, WaitInv, OutputInv, Running \/ ReadFails
    PROVE  OutputInv'
  <1>1. CASE Write
    BY <1>1 DEF Write, OutputInv, OutputOfTool, CutsAreExplained
  <1>2. CASE CloseInput
    BY <1>2 DEF CloseInput, OutputInv, OutputOfTool, CutsAreExplained
  <1>3. CASE Read
    <2>1. OutputOfTool'
      BY <1>3 DEF Read, Return, OutputInv, OutputOfTool
    <2> QED  BY <1>3, <2>1, ReadReturns DEF OutputInv
  <1>4. CASE ReadFails
    BY <1>4 DEF ReadFails, Return, OutputInv, OutputOfTool, CutsAreExplained
  <1> QED  BY <1>1, <1>2, <1>3, <1>4 DEF Running

LEMMA OutputTool ==
    ASSUME ProgramInv, WaitInv, OutputInv, Tool
    PROVE  OutputInv'
  <1>1. pc # "idle" /\ result # "buffer"
    BY DEF Tool, ProgramInv, Returned
  <1>2. CASE Exec
    BY <1>1, <1>2 DEF Exec, OutputInv, OutputOfTool, CutsAreExplained
  <1>3. CASE ChildReads
    BY <1>1, <1>3 DEF ChildReads, Ready, OutputInv, OutputOfTool, CutsAreExplained
  <1>4. CASE ChildCallsWrite
    BY <1>1, <1>4 DEF ChildCallsWrite, Ready, OutputInv, OutputOfTool, CutsAreExplained
  <1>5. CASE ChildWrites
    BY <1>1, <1>5 DEF ChildWrites, OutputInv, OutputOfTool, CutsAreExplained
  <1>6. CASE ChildExits
    BY <1>1, <1>6 DEF ChildExits, OutputInv, OutputOfTool, CutsAreExplained
  <1> QED  BY <1>2, <1>3, <1>4, <1>5, <1>6 DEF Tool

\* The buffer of runProgram is all the tool had written at the last read, whatever
\* the tool and the sizes: it is short only if the tool was not done, and it never
\* ends with a full chunk.
THEOREM CutsExplained == Spec => []CutsAreExplained
  <1> DEFINE Inv == ProgramInv /\ WaitInv /\ OutputInv
  <1>1. Init => Inv
    <2>1. Init => OutputInv
      BY DEF Init, OutputInv, OutputOfTool, CutsAreExplained
    <2> QED  BY <2>1, InitialState, WaitInit
  <1>2. Inv /\ [Next]_vars => Inv'
    <2> SUFFICES ASSUME Inv, [Next]_vars PROVE Inv'
      OBVIOUS
    <2>1. ASSUME NEW c \in Calls, Open(c) \/ \E ends \in SUBSET Ends : OpenFails(c, ends)
          PROVE  Inv'
      <3>1. OutputInv'
        BY <2>1 DEF Open, OpenFails, Fresh, Return, OutputInv, OutputOfTool, CutsAreExplained
      <3> QED  BY <2>1, <3>1, CallStep, CallWaits
    <2>2. CASE Running \/ ReadFails
      BY <2>2, ParentStep, ParentWaits, OutputParent
    <2>3. CASE Tool
      BY <2>3, ToolStep, ToolWaits, OutputTool
    <2>4. CASE UNCHANGED vars
      BY <2>4 DEF vars, ProgramInv, TypeOK, HoldsItsOwnEnd, NothingIsLost, SmallWrites,
                  Returned, WaitInv, PipesHold, ReadInChunks, InputIsClosed, ChildIsThere,
                  WithinOutput, OutputInv, OutputOfTool, CutsAreExplained
    <2> QED  BY <2>1, <2>2, <2>3, <2>4 DEF Next
  <1>3. Inv => CutsAreExplained
    BY DEF OutputInv
  <1> HIDE DEF Inv
  <1> QED  BY <1>1, <1>2, <1>3, PTL DEF Spec

----------------------------------------------------------------------------
(* Why a call ends unless it hangs: each step takes something from a number*)
(* that cannot go below zero. A byte of the input is moved twice (into the *)
(* pipe and out of it), a byte of the output three times (into a call of   *)
(* write, into the pipe and out of it).                                    *)

StagesOfChild == IF child = "forked" THEN 2 ELSE IF child = "running" THEN 1 ELSE 0
StagesOfParent == IF pc = "write" THEN 1 ELSE 0
EndsToSee == IF sawEnd THEN 0 ELSE 1

BytesToMove == 2 * unwritten + toChild + 3 * (call.output - produced) - owed + fromChild

WorkLeft == BytesToMove + StagesOfChild + StagesOfParent + EndsToSee

\* What a step of the parent or of the tool does to the number.
Progress == pc' = "idle" \/ WorkLeft' < WorkLeft

LEMMA WorkIsNatural ==
    ASSUME ProgramInv, WaitInv
    PROVE  /\ WorkLeft \in Nat /\ BytesToMove \in Nat
           /\ {StagesOfChild, StagesOfParent, EndsToSee} \subseteq Nat
  <1>1. Numbers
    BY AreNumbers
  <1>2. BytesToMove \in Nat
    BY <1>1 DEF Numbers, WaitInv, WithinOutput, BytesToMove
  <1>3. {StagesOfChild, StagesOfParent, EndsToSee} \subseteq Nat
    BY DEF StagesOfChild, StagesOfParent, EndsToSee
  <1> QED  BY <1>2, <1>3 DEF WorkLeft

\* A step that moves bytes and changes no stage, and one that changes a stage only.
LEMMA MovingWorks ==
    ASSUME ProgramInv, WaitInv, BytesToMove' \in Int, BytesToMove' < BytesToMove,
           pc' = pc, child' = child, sawEnd' = sawEnd
    PROVE  Progress
  <1>1. /\ StagesOfChild' = StagesOfChild /\ StagesOfParent' = StagesOfParent
        /\ EndsToSee' = EndsToSee
    BY DEF StagesOfChild, StagesOfParent, EndsToSee
  <1> QED  BY <1>1, WorkIsNatural DEF WorkLeft, Progress

LEMMA StagesWork ==
    ASSUME ProgramInv, WaitInv, BytesToMove' = BytesToMove,
           {StagesOfChild', StagesOfParent', EndsToSee'} \subseteq Int,
           StagesOfChild' + StagesOfParent' + EndsToSee'
              < StagesOfChild + StagesOfParent + EndsToSee
    PROVE  Progress
  BY WorkIsNatural DEF WorkLeft, Progress

LEMMA ParentWorks ==
    ASSUME ProgramInv, WaitInv, Running \/ ReadFails
    PROVE  Progress
  <1>1. Numbers
    BY AreNumbers
  <1>2. CASE Write
    <2>1. PICK n \in 1 .. unwritten : unwritten' = unwritten - n /\ toChild' = toChild + n
      BY <1>2 DEF Write, WriteSizes
    <2>2. /\ call' = call /\ produced' = produced /\ owed' = owed /\ fromChild' = fromChild
          /\ pc' = pc /\ child' = child /\ sawEnd' = sawEnd
      BY <1>2 DEF Write
    <2>3. BytesToMove' \in Int /\ BytesToMove' < BytesToMove
      BY <1>1, <2>1, <2>2 DEF Numbers, BytesToMove
    <2> QED  BY <2>2, <2>3, MovingWorks
  <1>3. CASE CloseInput
    <2>1. BytesToMove' = BytesToMove
      BY <1>3 DEF CloseInput, BytesToMove
    <2>2. /\ StagesOfChild' = StagesOfChild /\ EndsToSee' = EndsToSee
          /\ StagesOfParent = 1 /\ StagesOfParent' = 0
      BY <1>3 DEF CloseInput, StagesOfChild, StagesOfParent, EndsToSee
    <2> QED  BY <2>1, <2>2, StagesWork, WorkIsNatural
  <1>4. CASE Read
    <2>1. CASE ReadSize # ChunkSize
      BY <1>4, <2>1 DEF Read, Return, Progress
    <2>2. CASE ReadSize = ChunkSize
      <3>1. /\ call' = call /\ unwritten' = unwritten /\ toChild' = toChild
            /\ produced' = produced /\ owed' = owed /\ fromChild' = fromChild - ChunkSize
            /\ pc' = pc /\ child' = child /\ sawEnd' = sawEnd
        BY <1>4, <2>2 DEF Read
      <3>2. BytesToMove' \in Int /\ BytesToMove' < BytesToMove
        BY <1>1, <3>1 DEF Numbers, BytesToMove
      <3> QED  BY <3>1, <3>2, MovingWorks
    <2> QED  BY <2>1, <2>2
  <1>5. CASE ReadFails
    BY <1>5 DEF ReadFails, Return, Progress
  <1> QED  BY <1>2, <1>3, <1>4, <1>5 DEF Running

LEMMA ToolWorks ==
    ASSUME ProgramInv, WaitInv, Tool
    PROVE  Progress
  <1>1. Numbers
    BY AreNumbers
  <1>2. CASE Exec
    <2>1. BytesToMove' = BytesToMove
      BY <1>2 DEF Exec, BytesToMove
    <2>2. /\ StagesOfParent' = StagesOfParent /\ EndsToSee' = EndsToSee
          /\ StagesOfChild = 2 /\ StagesOfChild' \in {0, 1}
      BY <1>2 DEF Exec, StagesOfChild, StagesOfParent, EndsToSee
    <2> QED  BY <2>1, <2>2, StagesWork, WorkIsNatural
  <1>3. CASE ChildReads
    <2>1. CASE sawEnd' = sawEnd /\ toChild' \in 0 .. toChild - 1
      <3>1. /\ call' = call /\ unwritten' = unwritten /\ produced' = produced /\ owed' = owed
            /\ fromChild' = fromChild /\ pc' = pc /\ child' = child
        BY <1>3 DEF ChildReads
      <3>2. BytesToMove' \in Int /\ BytesToMove' < BytesToMove
        BY <1>1, <2>1, <3>1 DEF Numbers, BytesToMove
      <3> QED  BY <2>1, <3>1, <3>2, MovingWorks
    <2>2. CASE ~sawEnd /\ sawEnd' /\ toChild' = toChild
      <3>1. BytesToMove' = BytesToMove
        BY <1>3, <2>2 DEF ChildReads, BytesToMove
      <3>2. /\ StagesOfChild' = StagesOfChild /\ StagesOfParent' = StagesOfParent
            /\ EndsToSee = 1 /\ EndsToSee' = 0
        BY <1>3, <2>2 DEF ChildReads, StagesOfChild, StagesOfParent, EndsToSee
      <3> QED  BY <3>1, <3>2, StagesWork, WorkIsNatural
    <2> QED  BY <1>3, <2>1, <2>2 DEF ChildReads
  <1>4. CASE ChildCallsWrite
    <2>1. owed = 0 /\ owed' \in 1 .. call.output - produced
      BY <1>4 DEF ChildCallsWrite, CallSizes, Ready
    <2>2. /\ call' = call /\ unwritten' = unwritten /\ produced' = produced
          /\ toChild' = toChild /\ fromChild' = fromChild
          /\ pc' = pc /\ child' = child /\ sawEnd' = sawEnd
      BY <1>4 DEF ChildCallsWrite
    <2>3. BytesToMove' \in Int /\ BytesToMove' < BytesToMove
      BY <1>1, <2>1, <2>2 DEF Numbers, BytesToMove
    <2> QED  BY <2>2, <2>3, MovingWorks
  <1>5. CASE ChildWrites
    <2>1. PICK n \in 1 .. owed :
             owed' = owed - n /\ produced' = produced + n /\ fromChild' = fromChild + n
      BY <1>5 DEF ChildWrites, PutSizes
    <2>2. /\ call' = call /\ unwritten' = unwritten /\ toChild' = toChild
          /\ pc' = pc /\ child' = child /\ sawEnd' = sawEnd
      BY <1>5 DEF ChildWrites
    <2>3. BytesToMove' \in Int /\ BytesToMove' < BytesToMove
      BY <1>1, <2>1, <2>2 DEF Numbers, BytesToMove
    <2> QED  BY <2>2, <2>3, MovingWorks
  <1>6. CASE ChildExits
    <2>1. BytesToMove' = BytesToMove
      BY <1>6 DEF ChildExits, BytesToMove
    <2>2. /\ StagesOfParent' = StagesOfParent /\ EndsToSee' = EndsToSee
          /\ StagesOfChild = 1 /\ StagesOfChild' = 0
      BY <1>6 DEF ChildExits, Ready, StagesOfChild, StagesOfParent, EndsToSee
    <2> QED  BY <2>1, <2>2, StagesWork, WorkIsNatural
  <1> QED  BY <1>2, <1>3, <1>4, <1>5, <1>6 DEF Tool

\* Once runProgram has been called, every step either returns from it or leaves less
\* to do: a call makes finitely many steps, whatever the tool and the sizes.
CallsMakeProgress == [][pc # "idle" => WorkLeft \in Nat /\ Progress]_vars

THEOREM CallsProgress == Spec => CallsMakeProgress
  <1> DEFINE Step == pc # "idle" => WorkLeft \in Nat /\ Progress
  <1>1. ProgramInv /\ WaitInv /\ [Next]_vars => [Step]_vars
    <2> SUFFICES ASSUME ProgramInv, WaitInv, Next, pc # "idle"
                 PROVE  WorkLeft \in Nat /\ Progress
      OBVIOUS
    <2>1. Running \/ ReadFails \/ Tool
      BY DEF Next, Open, OpenFails
    <2> QED  BY <2>1, WorkIsNatural, ParentWorks, ToolWorks
  <1> HIDE DEF Step
  <1>2. Spec => [][Step]_vars
    BY <1>1, WaitInvariant, PTL DEF Spec
  <1> QED  BY <1>2 DEF CallsMakeProgress, Step

----------------------------------------------------------------------------
(* A tool that reads its input to the end before it answers.               *)

\* The end of the input is seen when the parent has finished writing, and such a
\* tool does nothing else before.
FilterInv ==
    (pc # "idle" /\ call.tool = "filter") =>
        /\ pc = "write" => <<"parent", "stdin.write">> \in held /\ ~sawEnd
        /\ owed > 0 \/ child = "exited" => sawEnd
        /\ child = "exited" => produced = call.output

LEMMA FilterCall ==
    ASSUME ProgramInv, NEW c \in Calls,
           Open(c) \/ \E ends \in SUBSET Ends : OpenFails(c, ends)
    PROVE  FilterInv'
  <1>1. CASE Open(c)
    BY <1>1 DEF Open, Fresh, FilterInv, Processes, Ends
  <1>2. CASE \E ends \in SUBSET Ends : OpenFails(c, ends)
    BY <1>2 DEF OpenFails, Return, FilterInv
  <1> QED  BY <1>1, <1>2

LEMMA FilterParent ==
    ASSUME ProgramInv, FilterInv, Running \/ ReadFails
    PROVE  FilterInv'
  <1>1. CASE Write
    BY <1>1 DEF Write, FilterInv
  <1>2. CASE CloseInput
    BY <1>2 DEF CloseInput, FilterInv
  <1>3. CASE Read
    BY <1>3 DEF Read, Return, FilterInv
  <1>4. CASE ReadFails
    BY <1>4 DEF ReadFails, Return, FilterInv
  <1> QED  BY <1>1, <1>2, <1>3, <1>4 DEF Running

LEMMA FilterTool ==
    ASSUME ProgramInv, FilterInv, Tool
    PROVE  FilterInv'
  <1>1. Numbers
    BY AreNumbers
  <1>2. CASE Exec
    <2>1. /\ call.tool = "filter" => child' = "running"
          /\ <<"parent", "stdin.write">> \in held => <<"parent", "stdin.write">> \in held'
      BY <1>2 DEF Exec, AfterExec, HeldBy
    <2> QED  BY <1>2, <2>1 DEF Exec, FilterInv
  <1>3. CASE ChildReads
    <2>1. sawEnd => sawEnd'
      BY <1>3 DEF ChildReads
    <2>2. <<"parent", "stdin.write">> \in held => sawEnd' = sawEnd
      BY <1>3 DEF ChildReads, InputEnds, Holders, Processes
    <2> QED  BY <1>3, <2>1, <2>2 DEF ChildReads, FilterInv
  <1>4. CASE ChildCallsWrite
    BY <1>4 DEF ChildCallsWrite, Ready, MayAnswer, FilterInv
  <1>5. CASE ChildWrites
    <2>1. owed > 0
      BY <1>1, <1>5 DEF ChildWrites, PutSizes, Numbers
    <2> QED  BY <1>5, <2>1 DEF ChildWrites, FilterInv
  <1>6. CASE ChildExits
    <2>1. <<"parent", "stdin.write">> \in held => <<"parent", "stdin.write">> \in held'
      BY <1>6 DEF ChildExits, HeldBy
    <2> QED  BY <1>6, <2>1 DEF ChildExits, Ready, MayAnswer, FilterInv
  <1> QED  BY <1>2, <1>3, <1>4, <1>5, <1>6 DEF Tool

\* A filter with an output that is no multiple of the chunk always finds the parent or
\* itself able to go on.
FiltersNeverStuck == ~(Stuck /\ call.tool = "filter" /\ call.output % ChunkSize # 0)

\* None of the three ways to hang is open to a tool that reads its input to the end
\* before it answers, however long that is, unless the answer is a multiple of the
\* chunk: with CallsProgress, what FilterReturns says but for the scheduling.
THEOREM FiltersGoOn == Spec => []FiltersNeverStuck
  <1> DEFINE Inv == ProgramInv /\ FilterInv
  <1>1. Init => Inv
    <2>1. Init => FilterInv
      BY DEF Init, FilterInv
    <2> QED  BY <2>1, InitialState
  <1>2. Inv /\ [Next]_vars => Inv'
    <2> SUFFICES ASSUME Inv, [Next]_vars PROVE Inv'
      OBVIOUS
    <2>1. CASE \E c \in Calls : Open(c) \/ \E ends \in SUBSET Ends : OpenFails(c, ends)
      BY <2>1, CallStep, FilterCall
    <2>2. CASE Running \/ ReadFails
      BY <2>2, ParentStep, FilterParent
    <2>3. CASE Tool
      BY <2>3, ToolStep, FilterTool
    <2>4. CASE UNCHANGED vars
      BY <2>4 DEF vars, ProgramInv, TypeOK, HoldsItsOwnEnd, NothingIsLost, SmallWrites,
                  Returned, FilterInv
    <2> QED  BY <2>1, <2>2, <2>3, <2>4 DEF Next
  <1>3. Inv /\ HangsAreExplained => FiltersNeverStuck
    <2> SUFFICES ASSUME Inv, HangsAreExplained, Stuck, call.tool = "filter",
                        call.output % ChunkSize # 0
                 PROVE  FALSE
      BY DEF FiltersNeverStuck
    <2> QED  BY DEF Stuck, HangsAreExplained, FilterInv
  <1> HIDE DEF Inv
  <1>4. Spec => []Inv
    BY <1>1, <1>2, PTL DEF Spec
  <1> QED  BY <1>3, <1>4, HangsExplained, PTL
=============================================================================
