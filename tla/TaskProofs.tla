----------------------------- MODULE TaskProofs -----------------------------
(***************************************************************************)
(* Task's safety properties and its refinement of AbstractTask, for every  *)
(* set of streams, pipe capacity, flow-control window and number of        *)
(* chunks and calls.  TaskInv adds to the types that every chunk between   *)
(* the container and the host has its number and place (Numbered), that a  *)
(* pump has passed on all that it has read (NothingSkipped), and that      *)
(* ExitCode's handler and its answers know one outcome, of a process that  *)
(* has ended (WaitedOnce).                                                 *)
(***************************************************************************)
EXTENDS Task, SequenceTheorems, TLAPS

Taken(s) == written[s] - Left(s)       \* chunks the pump has read
Got(s) == Len(received[s])             \* chunks the host has

(* Between the container and the host every chunk has its place, numbered  *)
(* without a gap: handled by the host, on the wire, in the pump's hand, in *)
(* the pipe.                                                               *)
Counts(q, n) == \A i \in 1..Len(q) : q[i] = n + i
Marked(q, n) ==
  /\ Len(q) > 0 /\ q[Len(q)] = DoneMark
  /\ \A i \in 1..Len(q) - 1 : q[i] = n + i

(* What is under way of a stream is numbered without a gap. *)
Numbered(s) ==
  /\ Counts(received[s], 0)
  /\ IF pump[s] = "await" /\ link /\ ~doneSeen[s]
     THEN Marked(wire[s], Got(s)) ELSE Counts(wire[s], Got(s))
  /\ Counts(pipe[s], Taken(s))

(* While the connection lasts a pump that has not given up has sent all    *)
(* that it has read but what is in its hand, and past EOF that is all      *)
(* there is.                                                               *)
NothingSkipped(s) ==
  /\ Got(s) <= Taken(s)
  /\ ~link => OnWire(s) = 0
  /\ pump[s] \in {"read", "done"} /\ link => Got(s) + OnWire(s) = Taken(s)
  /\ pump[s] = "write" => /\ hand[s] = Taken(s) /\ Got(s) < Taken(s)
                          /\ link => Got(s) + OnWire(s) = Taken(s) - 1
  /\ pump[s] \in {"done", "await"} => Left(s) = 0 /\ ~wopen[s]
  /\ pump[s] = "await" /\ link => doneSeen[s] \/ Got(s) + OnWire(s) = Taken(s) + 1
  /\ pump[s] = "gone" => Got(s) + OnWire(s) <= Taken(s)
  /\ doneSeen[s] => /\ pump[s] \in {"await", "gone"} /\ ~wopen[s]
                    /\ Left(s) = 0 /\ OnWire(s) = 0 /\ Got(s) = Taken(s)

(* waitOnce: what cmd.Wait returned is the outcome of the one wait there   *)
(* was, and everything ExitCode does after it knows that the process ended. *)
WaitedOnce ==
  /\ status = None <=> proc = "running"
  /\ waitRes # None => proc \in {"reaped", "stolen"}
  /\ proc = "reaped" => waitRes = status
  /\ proc = "stolen" => waitRes \in {None, WaitError}
  /\ server = "wait" => waitRes = None
  /\ server \in {"close", "cleanup", "answer"} => waitRes # None
  /\ server # "idle" => queue # <<>>
  /\ ~mounted => waitRes # None
  /\ \A i \in 1..Len(replies) : replies[i] = waitRes /\ waitRes # None

(* What is known of a task at any time. *)
TaskInv ==
  /\ TypeOK /\ WaitedOnce
  /\ \A s \in Streams : Numbered(s) /\ NothingSkipped(s)
-----------------------------------------------------------------------------
(* TaskInv holds when Container.start has returned. *)
LEMMA InitTaskInv == Init => TaskInv
<1> SUFFICES ASSUME Init PROVE TaskInv
  OBVIOUS
<1> USE TaskConstants
<1>1. TaskTypes /\ CallTypes
  BY DEF Init, TaskTypes, CallTypes
<1>2. FlagTypes
  BY Zenon DEF Init, FlagTypes
<1>3. StreamTypes /\ \A s \in Streams : BuffersBounded(s)
  BY DEF Init, StreamTypes, BuffersBounded, Left, OnWire, DoneMark, Chunk
<1>4. ASSUME NEW s \in Streams PROVE Numbered(s) /\ NothingSkipped(s)
  <2>1. Len(received[s]) = 0 /\ Len(wire[s]) = 0 /\ Len(pipe[s]) = 0
    BY DEF Init
  <2>2. written[s] = 0 /\ pump[s] = "read" /\ ~doneSeen[s]
    BY DEF Init
  <2>3. Numbered(s)
    BY <2>1, <2>2 DEF Numbered, Counts
  <2>4. NothingSkipped(s)
    BY <2>1, <2>2 DEF NothingSkipped, Taken, Left, OnWire, Got
  <2>5. QED
    BY <2>3, <2>4
<1>5. WaitedOnce
  BY DEF Init, WaitedOnce
<1>6. QED
  BY <1>1, <1>3, <1>4, <1>5, <1>2 DEF TaskInv, TypeOK

(* No step takes the process, the handler or a flag out of its range. *)
LEMMA StepTaskTypes ==
  ASSUME TaskInv, [Next]_vars
  PROVE  TaskTypes' /\ FlagTypes'
<1> USE TaskConstants
<1> USE DEF TaskInv, TypeOK, TaskTypes, FlagTypes
<1>1. CASE \/ UNCHANGED vars
           \/ \E s \in Streams : ContainerWrites(s) \/ ContainerCloses(s) \/ Pump(s) \/ HostHandles(s)
  <2>1. UNCHANGED <<procVars, link, callVars, stdinVars>>
    BY <1>1 DEF vars, ContainerWrites, ContainerCloses, Pump, PumpReads, PumpWrites, PumpEOF,
       PumpClosed, PumpDone, HostHandles
  <2>2. QED
    BY <2>1 DEF procVars, callVars, stdinVars
<1>2. CASE ContainerReads \/ ContainerExits \/ ReapZombies
  <2>1. TaskTypes'
    BY <1>2 DEF ContainerReads, ContainerExits, ReapZombies, procVars, callVars, stdinVars
  <2>2. FlagTypes'
    BY <1>2, Zenon DEF ContainerReads, ContainerExits, ReapZombies, procVars, callVars, stdinVars
  <2>3. QED
    BY <2>1, <2>2
<1>3. CASE \E m \in {"stdin", "exitCode"} : HostCalls(m)
  BY <1>3 DEF HostCalls, procVars, stdinVars
<1>4. CASE Server
  <2>1. CASE ServeStdin \/ ServeExitCode \/ Answer
    BY <2>1 DEF ServeStdin, ServeExitCode, Answer, procVars, stdinVars
  <2>2. CASE Wait \/ ClosePipes
    BY <2>2 DEF Wait, ClosePipes, procVars, stdinVars
  <2>3. CASE Cleanup
    BY <2>3 DEF Cleanup, procVars, stdinVars
  <2>4. QED
    BY <1>4, <2>1, <2>2, <2>3 DEF Server
<1>5. CASE StdinWrite \/ StdinDone \/ LinkDrops
  <2>1. TaskTypes'
    BY <1>5 DEF StdinWrite, StdinDone, LinkDrops, procVars, callVars, stdinVars
  <2>2. FlagTypes'
    BY <1>5, Zenon DEF StdinWrite, StdinDone, LinkDrops, procVars, callVars, stdinVars
  <2>3. QED
    BY <2>1, <2>2
<1>6. QED
  BY <1>1, <1>2, <1>3, <1>4, <1>5 DEF Next

(* The Task's calls and answers stay what they are. *)
LEMMA StepCallTypes ==
  ASSUME TaskInv, [Next]_vars
  PROVE  CallTypes'
<1> USE DEF TaskInv, TypeOK, CallTypes
<1>1. CASE UNCHANGED <<queue, replies>>
  BY <1>1
<1>2. ASSUME NEW m \in {"stdin", "exitCode"}, HostCalls(m)
      PROVE  CallTypes'
  BY <1>2 DEF HostCalls
<1>3. CASE ServeStdin
  BY <1>3 DEF ServeStdin
<1>4. CASE Answer
  BY <1>4 DEF Answer, WaitedOnce, TaskTypes
<1>5. CASE LinkDrops
  <2>1. PICK n \in 0..Len(queue) : queue' = SubSeq(queue, 1, n)
    BY <1>5 DEF LinkDrops
  <2>2. \A i \in 1..n : queue[i] \in {"stdin", "exitCode"}
    OBVIOUS
  <2>3. queue' \in Seq({"stdin", "exitCode"})
    BY <2>1, <2>2, SubSeqProperties
  <2>4. QED
    BY <1>5, <2>3 DEF LinkDrops
<1>6. QED
  BY <1>1, <1>2, <1>3, <1>4, <1>5
  DEF Next, Server, vars, callVars, ContainerWrites, ContainerCloses, Pump, PumpReads, PumpWrites,
      PumpEOF, PumpClosed, PumpDone, HostHandles, ContainerReads, ContainerExits, ReapZombies,
      ServeExitCode, Wait, ClosePipes, Cleanup, StdinWrite, StdinDone

(* What is in a stream's pipe, hand and wire keeps its type. *)
LEMMA StepStreamTypes ==
  ASSUME TaskInv, [Next]_vars
  PROVE  StreamTypes'
<1> USE TaskConstants
<1> USE DEF TaskInv, TypeOK, StreamTypes, DoneMark, Chunk
<1>1. CASE UNCHANGED <<outVars, ropen, pumpVars, hostVars>>
  BY <1>1 DEF outVars, pumpVars, hostVars
<1>2. ASSUME NEW s \in Streams, ContainerWrites(s)
      PROVE  StreamTypes'
  BY <1>2 DEF ContainerWrites, pumpVars, hostVars
<1>3. ASSUME NEW s \in Streams, ContainerCloses(s)
      PROVE  StreamTypes'
  BY <1>3 DEF ContainerCloses, pumpVars, hostVars
<1>4. ASSUME NEW s \in Streams, PumpReads(s)
      PROVE  StreamTypes'
  BY <1>4 DEF PumpReads, hostVars
<1>5. ASSUME NEW s \in Streams, PumpWrites(s)
      PROVE  StreamTypes'
  <2>1. pump' \in [Streams -> {"read", "write", "done", "await", "gone"}]
    BY <1>5 DEF PumpWrites
  <2>2. hand' \in [Streams -> 0..MaxChunks]
    BY <1>5 DEF PumpWrites
  <2>3. ropen' \in [Streams -> BOOLEAN]
    BY <1>5 DEF PumpWrites
  <2>4. Append(wire[s], hand[s]) \in Seq(0..MaxChunks)
    OBVIOUS
  <2>5. wire' \in [Streams -> Seq(0..MaxChunks)]
    BY <1>5, <2>4 DEF PumpWrites
  <2>6. QED
    BY <1>5, <2>1, <2>5, <2>2, <2>3 DEF PumpWrites, outVars
<1>6. ASSUME NEW s \in Streams, PumpEOF(s) \/ PumpClosed(s)
      PROVE  StreamTypes'
  BY <1>6 DEF PumpEOF, PumpClosed, outVars, hostVars
<1>7. ASSUME NEW s \in Streams, PumpDone(s)
      PROVE  StreamTypes'
  <2>1. pump' \in [Streams -> {"read", "write", "done", "await", "gone"}]
        /\ ropen' \in [Streams -> BOOLEAN]
    BY <1>7 DEF PumpDone
  <2>2. Append(wire[s], DoneMark) \in Seq(0..MaxChunks)
    OBVIOUS
  <2>3. wire' \in [Streams -> Seq(0..MaxChunks)]
    BY <1>7, <2>2 DEF PumpDone
  <2>4. QED
    BY <1>7, <2>1, <2>3 DEF PumpDone, outVars
<1>8. ASSUME NEW s \in Streams, HostHandles(s)
      PROVE  StreamTypes'
  <2>1. wire[s] \in Seq(0..MaxChunks) /\ wire[s] # <<>>
    BY <1>8 DEF HostHandles
  <2>2. Head(wire[s]) \in 0..MaxChunks /\ Tail(wire[s]) \in Seq(0..MaxChunks)
    BY <2>1, HeadTailProperties
  <2>3. CASE Head(wire[s]) = DoneMark
    BY <1>8, <2>2, <2>3 DEF HostHandles, outVars, pumpVars
  <2>4. CASE Head(wire[s]) # DoneMark
    <3>1. Append(received[s], Head(wire[s])) \in Seq(1..MaxChunks)
      BY <2>2, <2>4
    <3>2. QED
      BY <1>8, <2>2, <2>4, <3>1 DEF HostHandles, outVars, pumpVars
  <2>5. QED
    BY <2>3, <2>4
<1>9. CASE ClosePipes
  BY <1>9 DEF ClosePipes, outVars, pumpVars, hostVars
<1>10. CASE LinkDrops
  BY <1>10, EmptySeq DEF LinkDrops, outVars, pumpVars
<1>11. QED
  BY <1>1, <1>2, <1>3, <1>4, <1>5, <1>6, <1>7, <1>8, <1>9, <1>10
  DEF Next, Server, Pump, vars, ContainerReads, ContainerExits, ReapZombies, HostCalls,
      ServeStdin, ServeExitCode, Wait, Cleanup, Answer, StdinWrite, StdinDone

(* A step of one stream's container, pump or host leaves the others alone. *)
LEMMA OtherStream ==
  ASSUME TaskInv, NEW s \in Streams, NEW r \in Streams, r # s,
         ContainerWrites(s) \/ ContainerCloses(s) \/ Pump(s) \/ HostHandles(s)
  PROVE  BuffersBounded(r)' /\ Numbered(r)' /\ NothingSkipped(r)'
<1>1. /\ wopen'[r] = wopen[r] /\ ropen'[r] = ropen[r] /\ doneSeen'[r] = doneSeen[r]
      /\ pump'[r] = pump[r] /\ hand'[r] = hand[r] /\ written'[r] = written[r]
      /\ pipe'[r] = pipe[r] /\ wire'[r] = wire[r] /\ received'[r] = received[r]
      /\ link' = link
  BY DEF TaskInv, TypeOK, StreamTypes, ContainerWrites, ContainerCloses, Pump, PumpReads,
     PumpWrites,
         PumpEOF, PumpClosed, PumpDone, HostHandles, outVars, pumpVars, hostVars
<1>2. BuffersBounded(r) /\ Numbered(r) /\ NothingSkipped(r)
  BY DEF TaskInv, TypeOK
<1>3. QED
  BY <1>1, <1>2 DEF BuffersBounded, Numbered, NothingSkipped, Counts, Marked, Taken, Left,
     OnWire, Got

(* A sequence numbered from n + 1 on stays so when the next is appended. *)
LEMMA CountsAppend ==
  ASSUME NEW q \in Seq(Int), NEW n \in Int, Counts(q, n)
  PROVE  /\ Counts(Append(q, n + Len(q) + 1), n)
         /\ Len(Append(q, n + Len(q) + 1)) = Len(q) + 1
<1> DEFINE a == Append(q, n + Len(q) + 1)
<1>1. /\ Len(a) = Len(q) + 1 /\ a[Len(q) + 1] = n + Len(q) + 1
      /\ \A i \in 1..Len(q) : a[i] = q[i]
  BY AppendProperties
<1> HIDE DEF a
<1>2. ASSUME NEW i \in 1..Len(a) PROVE a[i] = n + i
  <2>1. CASE i = Len(q) + 1
    BY <1>1, <2>1
  <2>2. CASE i # Len(q) + 1
    <3>1. i \in 1..Len(q)
      BY <1>1, <2>2
    <3>2. QED
      BY <1>1, <3>1 DEF Counts
  <2>3. QED
    BY <2>1, <2>2
<1>3. Counts(a, n)
  BY <1>2 DEF Counts
<1>4. QED
  BY <1>1, <1>3 DEF a

(* Taking the first of a numbered sequence leaves one numbered from n + 2. *)
LEMMA CountsTail ==
  ASSUME NEW q \in Seq(Int), NEW n \in Int, Counts(q, n), q # <<>>
  PROVE  Head(q) = n + 1 /\ Counts(Tail(q), n + 1) /\ Len(Tail(q)) = Len(q) - 1 /\ Len(q) \in Nat \ {0}
  BY DEF Counts

(* pumpToByteStream's Done goes behind the numbered Writes. *)
LEMMA MarkedAppend ==
  ASSUME NEW q \in Seq(Int), NEW n \in Int, Counts(q, n)
  PROVE  Marked(Append(q, DoneMark), n) /\ Len(Append(q, DoneMark)) = Len(q) + 1
  BY DEF Counts, Marked, DoneMark

(* Taking a chunk from before the mark leaves the mark behind the rest. *)
LEMMA MarkedTail ==
  ASSUME NEW q \in Seq(Int), NEW n \in Nat, Marked(q, n), Head(q) # DoneMark
  PROVE  Head(q) = n + 1 /\ Marked(Tail(q), n + 1) /\ Len(Tail(q)) = Len(q) - 1 /\ Len(q) \in Nat \ {0}
<1>1. q # <<>> /\ Head(q) = q[1]
  BY DEF Marked
<1>2. Len(q) > 1
  BY <1>1 DEF Marked, DoneMark
<1>3. QED
  BY <1>1, <1>2 DEF Marked, DoneMark

(* When the mark is first, nothing is behind it. *)
LEMMA MarkedEnds ==
  ASSUME NEW q \in Seq(Int), NEW n \in Nat, Marked(q, n), Head(q) = DoneMark
  PROVE  Len(q) = 1 /\ Len(Tail(q)) = 0
<1>1. q # <<>> /\ Head(q) = q[1] /\ Len(q) \in Nat /\ Len(q) > 0
  BY DEF Marked
<1>2. ASSUME NEW m \in Nat, m = Len(q), m # 1, m > 0 PROVE FALSE
  <2>1. 1 \in 1..m - 1
    BY <1>2
  <2>2. q[1] = n + 1
    BY <1>2, <2>1 DEF Marked
  <2>3. QED
    BY <1>1, <2>2 DEF DoneMark
<1>3. Len(q) = 1
  BY <1>1, <1>2
<1>4. QED
  BY <1>1, <1>3

(* Nothing is numbered from anywhere. *)
LEMMA CountsEmpty ==
  ASSUME NEW q, NEW n, Len(q) = 0
  PROVE  Counts(q, n)
  BY DEF Counts

(* The counts of a stream's chunks are numbers. *)
LEMMA StreamCounts ==
  ASSUME TaskInv, NEW s \in Streams
  PROVE  /\ pipe[s] \in Seq(Int) /\ wire[s] \in Seq(Int) /\ received[s] \in Seq(Int)
         /\ written[s] \in Nat /\ Left(s) \in Nat /\ Taken(s) \in Int /\ OnWire(s) \in Nat /\ Got(s) \in Nat
         /\ written[s] = Taken(s) + Left(s)
<1>1. /\ pipe[s] \in Seq(1..MaxChunks) /\ wire[s] \in Seq(0..MaxChunks)
      /\ received[s] \in Seq(1..MaxChunks) /\ written[s] \in 0..MaxChunks
  BY DEF TaskInv, TypeOK, StreamTypes, Chunk
<1>2. pipe[s] \in Seq(Int) /\ wire[s] \in Seq(Int) /\ received[s] \in Seq(Int)
  BY <1>1, TaskConstants, SeqMonotonic
<1>3. Left(s) \in Nat /\ OnWire(s) \in Nat /\ Got(s) \in Nat
  BY <1>2 DEF Left, OnWire, Got
<1>4. written[s] \in Nat
  BY <1>1, TaskConstants
<1>5. QED
  BY <1>2, <1>3, <1>4 DEF Taken

(* Nor does it break the numbering or skip a chunk on its own stream. *)
LEMMA OwnStream ==
  ASSUME TaskInv, NEW s \in Streams,
         ContainerWrites(s) \/ ContainerCloses(s) \/ Pump(s) \/ HostHandles(s)
  PROVE  BuffersBounded(s)' /\ Numbered(s)' /\ NothingSkipped(s)'
<1> USE TaskConstants
<1>1. StreamTypes
  BY DEF TaskInv, TypeOK
<1>2. BuffersBounded(s)
  BY DEF TaskInv, TypeOK
<1>3. Numbered(s)
  BY DEF TaskInv
<1>4. NothingSkipped(s)
  BY DEF TaskInv
<1>5. /\ pipe[s] \in Seq(Int) /\ wire[s] \in Seq(Int) /\ received[s] \in Seq(Int)
      /\ written[s] = Taken(s) + Left(s)
  BY StreamCounts
<1>6. Left(s) \in Nat /\ Taken(s) \in Int /\ OnWire(s) \in Nat /\ Got(s) \in Nat
  BY StreamCounts
<1>7. CASE ContainerWrites(s)
  <2>1. /\ wopen[s] /\ Len(pipe[s]) < PipeCap /\ pipe'[s] = Append(pipe[s], written[s] + 1)
        /\ written'[s] = written[s] + 1
    BY <1>1, <1>7 DEF ContainerWrites, StreamTypes
  <2>2. UNCHANGED <<wopen, pump, hand, wire, received, doneSeen, link>>
    BY <1>7 DEF ContainerWrites, pumpVars, hostVars
  <2>3. written[s] + 1 = Taken(s) + Len(pipe[s]) + 1
    BY <1>5, <1>6 DEF Left
  <2>4. Counts(pipe'[s], Taken(s)) /\ Len(pipe'[s]) = Len(pipe[s]) + 1
    BY <1>3, <1>5, <1>6, <2>1, <2>3, CountsAppend DEF Numbered
  <2>5. Left(s)' = Left(s) + 1
    BY <2>4 DEF Left
  <2>6. Taken(s)' = Taken(s)
    <3>1. written'[s] = Taken(s) + Left(s) + 1
      BY <1>5, <2>1
    <3>2. Taken(s)' = written'[s] - Left(s)'
      BY DEF Taken
    <3>3. QED
      BY <1>6, <2>5, <3>1, <3>2
  <2>7. OnWire(s)' = OnWire(s) /\ Got(s)' = Got(s)
    BY <2>2 DEF OnWire, Got
  <2>8. BuffersBounded(s)'
    BY <1>2, <1>6, <2>1, <2>2, <2>5, <2>7 DEF BuffersBounded, Left
  <2>9. Numbered(s)'
    BY <1>3, <2>2, <2>4, <2>6, <2>7 DEF Numbered
  <2>10. NothingSkipped(s)'
    BY <1>4, <1>6, <2>1, <2>2, <2>5, <2>6, <2>7 DEF NothingSkipped
  <2>11. QED
    BY <2>8, <2>9, <2>10
<1>8. CASE ContainerCloses(s)
  <2>1. ~wopen'[s] /\ UNCHANGED <<written, pipe, pump, hand, wire, received, doneSeen, link>>
    BY <1>1, <1>8 DEF ContainerCloses, StreamTypes, pumpVars, hostVars
  <2>2. Left(s)' = Left(s) /\ Taken(s)' = Taken(s) /\ OnWire(s)' = OnWire(s) /\ Got(s)' = Got(s)
    BY <2>1 DEF Left, Taken, OnWire, Got
  <2>3. QED
    BY <1>2, <1>3, <1>4, <2>1, <2>2 DEF BuffersBounded, Numbered, NothingSkipped
<1>9. CASE PumpReads(s)
  <2>1. /\ pump[s] = "read" /\ pump'[s] = "write" /\ pipe[s] # <<>>
        /\ hand'[s] = Head(pipe[s]) /\ pipe'[s] = Tail(pipe[s])
    BY <1>1, <1>9 DEF PumpReads, StreamTypes
  <2>2. UNCHANGED <<written, wopen, wire, received, doneSeen, link>>
    BY <1>9 DEF PumpReads, hostVars
  <2>3. /\ hand'[s] = Taken(s) + 1 /\ Counts(pipe'[s], Taken(s) + 1)
        /\ Len(pipe'[s]) = Len(pipe[s]) - 1
    BY <1>3, <1>5, <1>6, <2>1, CountsTail DEF Numbered
  <2>4. Left(s)' = Left(s) - 1
    BY <2>3 DEF Left
  <2>5. Taken(s)' = Taken(s) + 1
    BY <1>5, <1>6, <2>2, <2>4 DEF Taken
  <2>6. OnWire(s)' = OnWire(s) /\ Got(s)' = Got(s)
    BY <2>2 DEF OnWire, Got
  <2>7. BuffersBounded(s)'
    BY <1>2, <1>6, <2>1, <2>4, <2>6 DEF BuffersBounded
  <2>8. Numbered(s)'
    BY <1>3, <2>1, <2>2, <2>3, <2>5, <2>6 DEF Numbered
  <2>9. NothingSkipped(s)'
    BY <1>4, <1>6, <2>1, <2>2, <2>3, <2>4, <2>5, <2>6 DEF NothingSkipped
  <2>10. QED
    BY <2>7, <2>8, <2>9
<1>10. CASE PumpWrites(s) /\ link
  <2>1. /\ pump[s] = "write" /\ pump'[s] = "read" /\ Len(wire[s]) < Window
        /\ wire'[s] = Append(wire[s], hand[s])
    BY <1>1, <1>10 DEF PumpWrites, StreamTypes
  <2>2. UNCHANGED <<written, wopen, pipe, received, doneSeen, link>>
    BY <1>10 DEF PumpWrites, outVars
  <2>3. hand[s] = Got(s) + Len(wire[s]) + 1
    BY <1>4, <1>6, <1>10, <2>1 DEF NothingSkipped, OnWire
  <2>4. Counts(wire'[s], Got(s)) /\ Len(wire'[s]) = Len(wire[s]) + 1
    BY <1>3, <1>5, <1>6, <2>1, <2>3, CountsAppend DEF Numbered
  <2>5. OnWire(s)' = OnWire(s) + 1
    BY <2>4 DEF OnWire
  <2>6. Left(s)' = Left(s) /\ Taken(s)' = Taken(s) /\ Got(s)' = Got(s)
    BY <2>2 DEF Left, Taken, Got
  <2>7. BuffersBounded(s)'
    BY <1>2, <1>6, <2>1, <2>5, <2>6 DEF BuffersBounded, OnWire
  <2>8. Numbered(s)'
    BY <1>3, <2>1, <2>2, <2>4, <2>6 DEF Numbered
  <2>9. NothingSkipped(s)'
    <3>1. pump[s] = "write" /\ pump'[s] = "read" /\ link
      BY <1>10, <2>1
    <3>2. QED
      BY <1>4, <1>6, <2>2, <2>5, <2>6, <3>1 DEF NothingSkipped
  <2>10. QED
    BY <2>7, <2>8, <2>9
<1>11. ASSUME (PumpWrites(s) /\ ~link) \/ PumpEOF(s) \/ PumpClosed(s)
       PROVE  BuffersBounded(s)' /\ Numbered(s)' /\ NothingSkipped(s)'
  <2>1. UNCHANGED <<written, wopen, pipe, wire, received, doneSeen, link>>
    BY <1>11 DEF PumpWrites, PumpEOF, PumpClosed, outVars, hostVars
  <2>2. Left(s)' = Left(s) /\ Taken(s)' = Taken(s) /\ OnWire(s)' = OnWire(s) /\ Got(s)' = Got(s)
    BY <2>1 DEF Left, Taken, OnWire, Got
  <2>3. \/ pump[s] = "write" /\ pump'[s] = "gone" /\ ~link
        \/ pump[s] = "read" /\ pump'[s] = "done" /\ Left(s) = 0 /\ ~wopen[s]
        \/ pump[s] = "read" /\ pump'[s] = "gone"
    BY <1>1, <1>11 DEF PumpWrites, PumpEOF, PumpClosed, StreamTypes, Left
  <2>4. BuffersBounded(s)'
    BY <1>2, <1>6, <2>2, <2>3 DEF BuffersBounded
  <2>5. Numbered(s)'
    BY <1>3, <2>1, <2>2, <2>3 DEF Numbered
  <2>6. NothingSkipped(s)'
    BY <1>4, <1>6, <2>1, <2>2, <2>3 DEF NothingSkipped
  <2>7. QED
    BY <2>4, <2>5, <2>6
<1>12. CASE PumpDone(s)
  <2>1. UNCHANGED <<written, wopen, pipe, hand, received, doneSeen, link>>
    BY <1>12 DEF PumpDone, outVars
  <2>2. Left(s)' = Left(s) /\ Taken(s)' = Taken(s) /\ Got(s)' = Got(s)
    BY <2>1 DEF Left, Taken, Got
  <2>3. CASE pump[s] = "done" /\ link
    <3>1. pump'[s] = "await" /\ wire'[s] = Append(wire[s], DoneMark)
      BY <1>1, <1>12, <2>3 DEF PumpDone, StreamTypes
    <3>2. Marked(wire'[s], Got(s)) /\ Len(wire'[s]) = Len(wire[s]) + 1
      BY <1>3, <1>5, <1>6, <2>3, <3>1, MarkedAppend DEF Numbered
    <3>3. OnWire(s)' = OnWire(s) + 1
      BY <3>2 DEF OnWire
    <3>4. ~doneSeen[s]
      BY <1>4, <2>3 DEF NothingSkipped
    <3>5. BuffersBounded(s)'
      BY <1>2, <1>6, <2>2, <2>3, <3>1, <3>3 DEF BuffersBounded
    <3>6. Numbered(s)'
      BY <1>3, <2>1, <2>2, <2>3, <3>1, <3>2, <3>4 DEF Numbered
    <3>7. NothingSkipped(s)'
      BY <1>4, <1>6, <2>1, <2>2, <2>3, <3>1, <3>3, <3>4 DEF NothingSkipped
    <3>8. QED
      BY <3>5, <3>6, <3>7
  <2>4. CASE ~(pump[s] = "done" /\ link)
    <3>1. pump'[s] = "gone" /\ wire' = wire
      BY <1>1, <1>12, <2>4 DEF PumpDone, StreamTypes
    <3>2. \/ pump[s] \in {"done", "await"} /\ ~link
          \/ pump[s] = "await" /\ doneSeen[s]
      BY <1>12, <2>4 DEF PumpDone
    <3>3. OnWire(s) = 0 /\ OnWire(s)' = OnWire(s)
      BY <1>4, <3>1, <3>2 DEF NothingSkipped, OnWire
    <3>4. BuffersBounded(s)'
      BY <1>2, <1>6, <2>2, <3>1, <3>3 DEF BuffersBounded
    <3>5. Numbered(s)'
      BY <1>3, <2>1, <2>2, <3>1, <3>2, <3>3 DEF Numbered
    <3>6. NothingSkipped(s)'
      BY <1>4, <1>6, <2>1, <2>2, <3>1, <3>2, <3>3 DEF NothingSkipped
    <3>7. QED
      BY <3>4, <3>5, <3>6
  <2>5. QED
    BY <2>3, <2>4
<1>13. CASE HostHandles(s)
  <2>1. wire[s] # <<>> /\ wire'[s] = Tail(wire[s])
    BY <1>1, <1>13 DEF HostHandles, StreamTypes
  <2>2. UNCHANGED <<written, wopen, pipe, pump, hand, link>>
    BY <1>13 DEF HostHandles, outVars, pumpVars
  <2>3. Left(s)' = Left(s) /\ Taken(s)' = Taken(s)
    BY <2>2 DEF Left, Taken
  <2>4. OnWire(s) > 0 /\ OnWire(s)' = OnWire(s) - 1 /\ Head(wire[s]) \in Int
    BY <1>5, <2>1 DEF OnWire
  <2>5. BuffersBounded(s)'
    BY <1>2, <1>6, <2>2, <2>3, <2>4 DEF BuffersBounded
  <2>6. ~doneSeen[s] /\ link
    BY <1>4, <1>6, <2>4 DEF NothingSkipped
  <2>7. CASE Head(wire[s]) = DoneMark
    <3>1. doneSeen'[s] /\ received' = received
      BY <1>1, <1>13, <2>7 DEF HostHandles, StreamTypes
    <3>2. Got(s)' = Got(s)
      BY <3>1 DEF Got
    <3>3. pump[s] = "await"
      (* numbered chunks are above Got(s), which is no DoneMark *)
      <4>1. SUFFICES ASSUME pump[s] # "await" PROVE FALSE
        OBVIOUS
      <4>2. Counts(wire[s], Got(s))
        BY <1>3, <4>1 DEF Numbered
      <4>3. Head(wire[s]) = Got(s) + 1
        BY <1>5, <1>6, <2>1, <4>2, CountsTail
      <4>4. QED
        BY <1>6, <2>7, <4>3 DEF DoneMark
    <3>4. Marked(wire[s], Got(s))
      BY <1>3, <2>6, <3>3 DEF Numbered
    <3>5. OnWire(s) = 1 /\ Len(wire'[s]) = 0
      BY <1>5, <1>6, <2>1, <2>7, <3>4, MarkedEnds DEF OnWire
    <3>6. Counts(wire'[s], Got(s))
      BY <3>5, CountsEmpty
    <3>7. Numbered(s)'
      BY <1>3, <2>2, <2>3, <3>1, <3>2, <3>6 DEF Numbered
    <3>8. NothingSkipped(s)'
      BY <1>4, <1>6, <2>2, <2>3, <2>4, <2>6, <3>1, <3>2, <3>3, <3>5 DEF NothingSkipped
    <3>9. QED
      BY <2>5, <3>7, <3>8
  <2>8. CASE Head(wire[s]) # DoneMark
    <3>1. doneSeen' = doneSeen /\ received'[s] = Append(received[s], Head(wire[s]))
      BY <1>1, <1>13, <2>8 DEF HostHandles, StreamTypes
    <3>2. /\ Head(wire[s]) = Got(s) + 1
          /\ IF pump[s] = "await" THEN Marked(wire'[s], Got(s) + 1)
             ELSE Counts(wire'[s], Got(s) + 1)
      BY <1>3, <1>5, <1>6, <2>1, <2>6, <2>8, CountsTail, MarkedTail DEF Numbered
    <3>3. Head(wire[s]) = 0 + Len(received[s]) + 1
      BY <1>6, <3>2 DEF Got
    <3>4. Counts(received'[s], 0) /\ Len(received'[s]) = Len(received[s]) + 1
      BY <1>3, <1>5, <3>1, <3>3, CountsAppend DEF Numbered
    <3>5. Got(s)' = Got(s) + 1
      BY <3>4 DEF Got
    <3>6. Numbered(s)'
      BY <1>3, <2>2, <2>3, <2>6, <3>1, <3>2, <3>4, <3>5 DEF Numbered
    <3>7. pump[s] = "await" => OnWire(s) > 1
      <4>1. SUFFICES ASSUME pump[s] = "await" PROVE OnWire(s) > 1
        OBVIOUS
      <4>2. Len(wire'[s]) > 0
        BY <3>2, <4>1 DEF Marked
      <4>3. QED
        BY <1>6, <2>4, <4>2 DEF OnWire
    <3>8. NothingSkipped(s)'
      <4>1. doneSeen' = doneSeen
        BY <3>1
      <4>2. Got(s) + 1 <= Taken(s) /\ (pump[s] = "write" => Got(s) + 1 < Taken(s))
        BY <1>1, <1>4, <1>6, <2>4, <2>6, <3>7 DEF NothingSkipped, StreamTypes
      <4>3. Got(s)' + OnWire(s)' = Got(s) + OnWire(s)
        BY <1>6, <2>4, <3>5
      <4>4. QED
        BY <1>4, <1>6, <2>2, <2>3, <2>4, <2>6, <3>5, <4>1, <4>2, <4>3 DEF NothingSkipped
    <3>9. QED
      BY <2>5, <3>6, <3>8
  <2>9. QED
    BY <2>7, <2>8
<1>14. QED
  BY <1>7, <1>8, <1>9, <1>10, <1>11, <1>12, <1>13 DEF Pump

(* Every step keeps the numbering and skips nothing, on every stream. *)
LEMMA StepStreams ==
  ASSUME TaskInv, [Next]_vars, NEW r \in Streams
  PROVE  BuffersBounded(r)' /\ Numbered(r)' /\ NothingSkipped(r)'
<1>1. BuffersBounded(r) /\ Numbered(r) /\ NothingSkipped(r)
  BY DEF TaskInv, TypeOK
<1>2. CASE UNCHANGED <<outVars, pumpVars, hostVars, link>>
  <2>1. UNCHANGED <<written, wopen, pipe, pump, hand, wire, received, doneSeen, link>>
    BY <1>2 DEF outVars, pumpVars, hostVars
  <2>2. QED
    BY <1>1, <2>1 DEF BuffersBounded, Numbered, NothingSkipped, Taken, Left, OnWire, Got
<1>3. ASSUME NEW s \in Streams, ContainerWrites(s) \/ ContainerCloses(s) \/ Pump(s) \/ HostHandles(s)
      PROVE  BuffersBounded(r)' /\ Numbered(r)' /\ NothingSkipped(r)'
  BY <1>3, OwnStream, OtherStream
<1>4. CASE LinkDrops
  <2>1. link /\ ~link' /\ wire'[r] = <<>> /\ UNCHANGED <<written, wopen, pipe, pump, hand, received, doneSeen>>
    BY <1>4 DEF LinkDrops, outVars, pumpVars
  <2>2. /\ Left(r)' = Left(r) /\ Taken(r)' = Taken(r) /\ Got(r)' = Got(r)
        /\ OnWire(r)' = 0 /\ Len(wire'[r]) = 0
    BY <2>1 DEF Left, Taken, Got, OnWire
  <2>3. UNCHANGED <<wopen, pump, hand, received, pipe, doneSeen>> /\ ~link'
    BY <2>1
  <2>4. Left(r) \in Nat /\ Taken(r) \in Int /\ OnWire(r) \in Nat /\ Got(r) \in Nat
    BY StreamCounts
  <2>5. BuffersBounded(r)'
    BY <1>1, <2>2, <2>3, <2>4, TaskConstants DEF BuffersBounded
  <2>6. Counts(wire'[r], Got(r))
    BY <2>2, CountsEmpty
  <2>7. Numbered(r)'
    BY <1>1, <2>2, <2>3, <2>6 DEF Numbered
  <2>8. NothingSkipped(r)'
    BY <1>1, <2>2, <2>3, <2>4 DEF NothingSkipped
  <2>9. QED
    BY <2>5, <2>7, <2>8
<1>5. QED
  BY <1>2, <1>3, <1>4
  DEF Next, Server, vars, ContainerReads, ContainerExits, ReapZombies, HostCalls,
      ServeStdin, ServeExitCode, Wait, ClosePipes, Cleanup, Answer, StdinWrite, StdinDone

(* The one wait, what followed it and every answer agree. *)
LEMMA StepWaitedOnce ==
  ASSUME TaskInv, [Next]_vars
  PROVE  WaitedOnce'
<1> USE TaskConstants
<1>1. TaskTypes /\ CallTypes /\ WaitedOnce
  BY DEF TaskInv, TypeOK
<1> USE DEF TaskTypes, CallTypes, WaitedOnce
<1>2. CASE UNCHANGED <<proc, status, callVars>>
  BY <1>1, <1>2 DEF callVars
<1>3. CASE ContainerExits \/ ReapZombies
  BY <1>1, <1>3 DEF ContainerExits, ReapZombies, callVars
<1>4. ASSUME NEW m \in {"stdin", "exitCode"}, HostCalls(m)
      PROVE  WaitedOnce'
  BY <1>1, <1>4 DEF HostCalls, procVars
<1>5. CASE ServeStdin \/ ServeExitCode
  BY <1>1, <1>5 DEF ServeStdin, ServeExitCode, procVars
<1>6. CASE Wait
  BY <1>1, <1>6 DEF Wait
<1>7. CASE ClosePipes \/ Cleanup
  BY <1>1, <1>7 DEF ClosePipes, Cleanup, procVars
<1>8. CASE Answer
  BY <1>1, <1>8 DEF Answer, procVars
<1>9. CASE LinkDrops
  <2>1. UNCHANGED <<proc, status, server, waitRes, replies, mounted>>
    BY <1>9 DEF LinkDrops, procVars
  <2>2. server # "idle" => queue' # <<>>
    <3>1. SUFFICES ASSUME server # "idle" PROVE queue' # <<>>
      OBVIOUS
    <3>2. PICK n \in 1..Len(queue) : queue' = SubSeq(queue, 1, n)
      BY <1>9, <3>1 DEF LinkDrops
    <3>3. Len(queue') = n
      BY <1>1, <3>2, SubSeqProperties
    <3>4. QED
      BY <3>2, <3>3
  <2>3. QED
    BY <1>1, <2>1, <2>2
<1>10. QED
  BY <1>2, <1>3, <1>4, <1>5, <1>6, <1>7, <1>8, <1>9
  DEF Next, Server, vars, procVars, ContainerWrites, ContainerCloses, Pump, PumpReads, PumpWrites,
      PumpEOF, PumpClosed, PumpDone, HostHandles, ContainerReads, StdinWrite, StdinDone

(* TaskInv is inductive. *)
LEMMA StepTaskInv == TaskInv /\ [Next]_vars => TaskInv'
  BY StepTaskTypes, StepCallTypes, StepStreamTypes, StepStreams, StepWaitedOnce DEF TaskInv, TypeOK
-----------------------------------------------------------------------------
(* TaskInv holds whatever container, pumps, reaper, host and link do. *)
LEMMA TaskInvariant == Spec => []TaskInv
  BY InitTaskInv, StepTaskInv, PTL DEF Spec

(* Pipes and flow-control windows are never over-full, and nothing leaves  *)
(* its type: pumps, host, taskServer, reaper and container together.       *)
THEOREM TaskTypeOK == Spec => []TypeOK
<1>1. TaskInv => TypeOK
  BY DEF TaskInv
<1>2. QED
  BY <1>1, TaskInvariant, PTL

(* When the host's stream has handled done, it has all the container wrote *)
(* and ever will: pumpToByteStream calls Done at EOF only, behind all its  *)
(* Writes.                                                                 *)
THEOREM TaskDoneIsComplete == Spec => []DoneIsComplete
<1>1. TaskInv => DoneIsComplete
  <2>1. SUFFICES ASSUME TaskInv, NEW s \in Streams, doneSeen[s]
                 PROVE  Len(received[s]) = written[s] /\ ~wopen[s]
    BY DEF DoneIsComplete
  <2>2. ~wopen[s] /\ Left(s) = 0 /\ Got(s) = Taken(s)
    BY <2>1 DEF TaskInv, NothingSkipped
  <2>3. written[s] = Taken(s) + Left(s) /\ Taken(s) \in Int
    BY <2>1, StreamCounts
  <2>4. QED
    BY <2>2, <2>3 DEF Got
<1>2. QED
  BY <1>1, TaskInvariant, PTL

(* Every answer of ExitCode is the container's exit code, or the wait      *)
(* error if reapZombies took the status.                                   *)
THEOREM TaskExitTruthful == Spec => []ExitTruthful
<1>1. TaskInv => ExitTruthful
  BY TaskConstants DEF TaskInv, TypeOK, TaskTypes, WaitedOnce, ExitTruthful
<1>2. QED
  BY <1>1, TaskInvariant, PTL

(* cleanup runs behind cmd.Wait, so the overlay is not unmounted under a   *)
(* running container.                                                      *)
THEOREM TaskUnmountAfterExit == Spec => []UnmountAfterExit
<1>1. TaskInv => UnmountAfterExit
  BY DEF TaskInv, WaitedOnce, UnmountAfterExit
<1>2. QED
  BY <1>1, TaskInvariant, PTL

(* Before anything has happened the host has been promised nothing else. *)
LEMMA InitPromise == Init => Promise!Init
  BY DEF Init, Promise!Init

(* Every step of a task is a step of its promise or does not show. *)
LEMMA StepPromise ==
  ASSUME TaskInv, [Next]_vars
  PROVE  [Promise!Next]_Promise!vars
<1> USE TaskConstants
<1> USE DEF Promise!vars, Promise!streamVars
<1>1. TaskTypes /\ StreamTypes /\ WaitedOnce
  BY DEF TaskInv, TypeOK
<1>2. ASSUME NEW s \in Streams, ContainerWrites(s)
      PROVE  Promise!Write(s)
  BY <1>2 DEF ContainerWrites, Promise!Write, procVars, hostVars, callVars
<1>3. ASSUME NEW s \in Streams, ContainerCloses(s)
      PROVE  Promise!Close(s)
  BY <1>3 DEF ContainerCloses, Promise!Close, procVars, hostVars, callVars
<1>4. ASSUME ContainerExits
      PROVE  Promise!End
  BY <1>4 DEF ContainerExits, Promise!End, outVars, hostVars, callVars
<1>5. CASE ReapZombies
  BY <1>5 DEF ReapZombies, outVars, hostVars, callVars
<1>6. ASSUME NEW s \in Streams, HostHandles(s)
      PROVE  Promise!Deliver(s) \/ Promise!Complete(s)
  <2>1. Numbered(s) /\ NothingSkipped(s)
    BY DEF TaskInv
  <2>2. /\ wire[s] \in Seq(Int) /\ written[s] = Taken(s) + Left(s)
        /\ Left(s) \in Nat /\ Taken(s) \in Int /\ OnWire(s) \in Nat /\ Got(s) \in Nat
    BY StreamCounts
  <2>3. wire[s] # <<>> /\ UNCHANGED <<proc, written, wopen, waitRes, replies>>
    BY <1>6 DEF HostHandles, procVars, outVars, callVars
  <2>4. OnWire(s) > 0
    BY <2>2, <2>3 DEF OnWire
  <2>5. link /\ ~doneSeen[s]
    BY <2>1, <2>2, <2>4 DEF NothingSkipped
  <2>6. CASE Head(wire[s]) = DoneMark
    <3>1. pump[s] = "await"
      <4>1. SUFFICES ASSUME pump[s] # "await" PROVE FALSE
        OBVIOUS
      <4>2. Counts(wire[s], Got(s))
        BY <2>1, <4>1 DEF Numbered
      <4>3. Head(wire[s]) = Got(s) + 1
        BY <2>2, <2>3, <4>2, CountsTail
      <4>4. QED
        BY <2>2, <2>6, <4>3 DEF DoneMark
    <3>2. Marked(wire[s], Got(s))
      BY <2>1, <2>5, <3>1 DEF Numbered
    <3>3. OnWire(s) = 1
      BY <2>2, <2>6, <3>2, MarkedEnds DEF OnWire
    <3>4. ~wopen[s] /\ Left(s) = 0 /\ Got(s) + OnWire(s) = Taken(s) + 1
      BY <2>1, <2>5, <3>1 DEF NothingSkipped
    <3>5. ~wopen[s] /\ Len(received[s]) = written[s]
      BY <2>2, <3>3, <3>4 DEF Got
    <3>6. QED
      BY <1>6, <2>3, <2>6, <3>5 DEF HostHandles, Promise!Complete
  <2>7. CASE Head(wire[s]) # DoneMark
    <3>1. Head(wire[s]) = Got(s) + 1
      BY <2>1, <2>2, <2>3, <2>5, <2>7, CountsTail, MarkedTail DEF Numbered
    <3>2. received' = [received EXCEPT ![s] = Append(received[s], Len(received[s]) + 1)]
          /\ doneSeen' = doneSeen
      BY <1>6, <2>7, <3>1 DEF HostHandles, Got
    <3>3. Got(s) < Taken(s)
      <4>1. pump[s] = "await" => OnWire(s) > 1
        BY <2>1, <2>2, <2>3, <2>4, <2>5, <2>7, MarkedTail DEF Numbered, OnWire, Marked
      <4>2. QED
        BY <1>1, <2>1, <2>2, <2>4, <2>5, <4>1 DEF NothingSkipped, StreamTypes
    <3>4. Len(received[s]) < written[s]
      BY <2>2, <3>3 DEF Got
    <3>5. QED
      BY <2>3, <2>5, <3>2, <3>4 DEF Promise!Deliver
  <2>8. QED
    BY <2>6, <2>7
<1>7. ASSUME Wait
      PROVE  Promise!Settle
  BY <1>1, <1>7 DEF Wait, Promise!Settle, TaskTypes, WaitedOnce, outVars, hostVars
<1>8. ASSUME Answer
      PROVE  Promise!Answer \/ UNCHANGED Promise!vars
  <2>1. waitRes # None /\ UNCHANGED <<proc, written, wopen, received, doneSeen, waitRes>>
    BY <1>1, <1>8 DEF Answer, WaitedOnce, procVars, outVars, hostVars
  <2>2. replies' = Append(replies, waitRes) \/ replies' = replies
    BY <1>8 DEF Answer
  <2>3. QED
    BY <2>1, <2>2 DEF Promise!Answer
<1>9. CASE UNCHANGED <<proc, written, wopen, received, doneSeen, waitRes, replies>>
  BY <1>9
<1>10. QED
  BY <1>2, <1>3, <1>4, <1>5, <1>6, <1>7, <1>8, <1>9
  DEF Next, Server, Pump, vars, procVars, outVars, hostVars, callVars, PumpReads, PumpWrites,
      PumpEOF,
      PumpClosed, PumpDone, ContainerReads, HostCalls, ServeStdin, ServeExitCode, ClosePipes,
      Cleanup, StdinWrite, StdinDone, LinkDrops, Promise!Next

(* A task keeps the promise made to the host: Task implements              *)
(* AbstractTask.                                                           *)
THEOREM TaskKeepsPromise == Spec => KeepsPromise
<1>1. TaskInv /\ [Next]_vars => [Promise!Next]_Promise!vars
  BY StepPromise
<1>2. QED
  BY <1>1, InitPromise, TaskInvariant, PTL DEF Spec, KeepsPromise, Promise!Spec
=============================================================================
