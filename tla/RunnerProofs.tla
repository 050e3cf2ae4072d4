---------------------------- MODULE RunnerProofs ----------------------------
(***************************************************************************)
(* Runner's safety properties for every channel capacity and every number  *)
(* of deliveries.  RunnerInv adds to the types who holds the lock          *)
(* (LockAccounted), how far a failed Run came (FailureExplained), what a   *)
(* goroutine knows once it has passed "<-procWaitCh" and "<-acceptDone"    *)
(* (TearDownOrder) and where the watcher stands (WatcherOrder).  The types *)
(* are proved part by part: control, flags, channels.  RoutedInOrder is    *)
(* inductive with ChannelOrder, which says what is empty when; its proof   *)
(* is algebra on the concatenation Route.                                  *)
(***************************************************************************)
EXTENDS Runner, SequenceTheorems, TLAPS

(* RunnerInv holds when Run is called. *)
LEMMA InitRunnerInv == Init => RunnerInv
<1> SUFFICES ASSUME Init PROVE RunnerInv
  OBVIOUS
<1>1. ControlTypes
  BY DEF Init, ControlTypes
<1>2. FlagTypes
  BY Zenon DEF Init, FlagTypes
<1>3. ChannelTypes
  BY RunnerConstants DEF Init, ChannelTypes
<1>4. HandsFull /\ LockAccounted /\ FailureExplained /\ TearDownOrder /\ WatcherOrder
  BY DEF Init, HandsFull, LockAccounted, FailureExplained, TearDownOrder, WatcherOrder
<1>5. ChannelOrder
  BY DEF Init, ChannelOrder
<1>6. RoutedInOrder
  <2>1. Route = <<>>
    <3>1. Held(fhand) = <<>> /\ acceptor # "push"
      BY DEF Init, Held
    <3>2. <<>> \o <<>> = <<>>
      OBVIOUS
    <3>3. QED
      BY <3>1, <3>2, Zenon DEF Init, Route
  <2>2. QED
    BY <2>1 DEF Init, RoutedInOrder
<1>7. QED
  BY <1>1, <1>2, <1>3, <1>4, <1>5, <1>6 DEF RunnerInv, TypeOK

(* No step takes a goroutine, a process or the lock to an unknown state. *)
LEMMA StepControlTypes ==
  ASSUME ControlTypes, [Next]_vars
  PROVE  ControlTypes'
<1> USE RunnerConstants, NoConnAssumption
<1> USE DEF ControlTypes, sockVars, acceptVars, lockVars, proxyVars
<1>1. CASE Run
  <2>1. CASE AcquireLock
    BY <2>1 DEF AcquireLock
  <2>2. CASE Prepare
    <3>1. \/ run' = "spawn" /\ UNCHANGED <<failure, lock, releases, closedBy>>
          \/ run' = "failed" /\ failure' = "setup" /\ ReleaseLock
      BY <2>2, Zenon DEF Prepare
    <3>2. UNCHANGED <<mgr, waited, acceptor, rpc, forwarder, watcher, waitCh>>
      BY <2>2 DEF Prepare
    <3>3. QED
      BY <3>1, <3>2 DEF ReleaseLock
  <2>3. CASE Spawn
    BY <2>3 DEF Spawn, ReleaseLock, CloseListener
  <2>4. CASE TakeAccepted
    BY <2>4 DEF TakeAccepted
  <2>5. CASE TakeClosed
    BY <2>5 DEF TakeClosed, ReleaseLock
  <2>6. CASE TakeReady
    BY <2>6 DEF TakeReady
  <2>7. CASE TakeErrorOrCancel
    BY <2>7 DEF TakeErrorOrCancel, SignalManager
  <2>8. CASE TakeExit
    BY <2>8 DEF TakeExit, CloseListener
  <2>9. CASE Reap
    BY <2>9 DEF Reap, CloseListener
  <2>10. CASE Drain
    BY <2>10 DEF Drain, ReleaseLock
  <2>11. CASE Bootstrap
    BY <2>11 DEF Bootstrap, SignalManager
  <2>12. CASE HandOff
    BY <2>12 DEF HandOff
  <2>13. CASE ReturnContext
    BY <2>13 DEF ReturnContext
  <2>14. QED
    BY <1>1, <2>1, <2>2, <2>3, <2>4, <2>5, <2>6, <2>7, <2>8, <2>9, <2>10, <2>11, <2>12,
       <2>13 DEF Run
<1>2. CASE Acceptor
  BY <1>2 DEF Acceptor, Accept, AcceptFails, RecvFD, PushAccepted, AcceptorReturns
<1>3. CASE Forwarder
  BY <1>3 DEF Forwarder, TakeForward, PushForward, CloseProxyCh
<1>4. CASE Watcher
  BY <1>4 DEF Watcher, WatchExit, WatchDrain, WatchClose, WatchSend, Close, CloseListener
<1>5. CASE ManagerExits \/ ContextKills \/ WaitReturns
  BY <1>5 DEF ManagerExits, ContextKills, WaitReturns
<1>6. CASE Cancel \/ ClientKill \/ ClientClose \/ ClientReads
  BY <1>6 DEF Cancel, ClientKill, ClientClose, ClientReads, SignalManager, Close
<1>7. ASSUME NEW k \in Kinds, ManagerSends(k)
      PROVE  ControlTypes'
  BY <1>7 DEF ManagerSends
<1>8. CASE UNCHANGED vars
  BY <1>8 DEF vars
<1>9. QED
  BY <1>1, <1>2, <1>3, <1>4, <1>5, <1>6, <1>7, <1>8 DEF Next

(* Flags stay flags. *)
LEMMA StepFlagTypes ==
  ASSUME FlagTypes, [Next]_vars
  PROVE  FlagTypes'
<1> USE RunnerConstants, NoConnAssumption
<1> USE DEF FlagTypes, sockVars, acceptVars, lockVars, proxyVars
<1>1. CASE Run
  <2>1. CASE AcquireLock
    BY <2>1, Zenon DEF AcquireLock
  <2>2. CASE Prepare
    BY <2>2, Zenon DEF Prepare, ReleaseLock
  <2>3. CASE Spawn
    BY <2>3, Zenon DEF Spawn, ReleaseLock, CloseListener
  <2>4. CASE TakeAccepted
    BY <2>4, Zenon DEF TakeAccepted
  <2>5. CASE TakeClosed
    BY <2>5, Zenon DEF TakeClosed, ReleaseLock
  <2>6. CASE TakeReady
    BY <2>6, Zenon DEF TakeReady
  <2>7. CASE TakeErrorOrCancel
    BY <2>7, Zenon DEF TakeErrorOrCancel, SignalManager
  <2>8. CASE TakeExit
    BY <2>8, Zenon DEF TakeExit, CloseListener
  <2>9. CASE Reap
    BY <2>9, Zenon DEF Reap, CloseListener
  <2>10. CASE Drain
    BY <2>10, Zenon DEF Drain, ReleaseLock
  <2>11. CASE Bootstrap
    BY <2>11, Zenon DEF Bootstrap, SignalManager
  <2>12. CASE HandOff
    BY <2>12, Zenon DEF HandOff
  <2>13. CASE ReturnContext
    BY <2>13, Zenon DEF ReturnContext
  <2>14. QED
    BY <1>1, <2>1, <2>2, <2>3, <2>4, <2>5, <2>6, <2>7, <2>8, <2>9, <2>10, <2>11, <2>12,
       <2>13 DEF Run
<1>2. CASE Acceptor
  BY <1>2, Zenon DEF Acceptor, Accept, AcceptFails, RecvFD, PushAccepted, AcceptorReturns
<1>3. CASE Forwarder
  BY <1>3, Zenon DEF Forwarder, TakeForward, PushForward, CloseProxyCh
<1>4. CASE Watcher
  BY <1>4, Zenon DEF Watcher, WatchExit, WatchDrain, WatchClose, WatchSend, Close, CloseListener
<1>5. CASE ManagerExits \/ ContextKills \/ WaitReturns
  BY <1>5, Zenon DEF ManagerExits, ContextKills, WaitReturns
<1>6. CASE Cancel \/ ClientKill \/ ClientClose \/ ClientReads
  BY <1>6, Zenon DEF Cancel, ClientKill, ClientClose, ClientReads, SignalManager, Close
<1>7. ASSUME NEW k \in Kinds, ManagerSends(k)
      PROVE  FlagTypes'
  BY <1>7, Zenon DEF ManagerSends
<1>8. CASE UNCHANGED vars
  BY <1>8, Zenon DEF vars
<1>9. QED
  BY <1>1, <1>2, <1>3, <1>4, <1>5, <1>6, <1>7, <1>8 DEF Next

(* Connections stay connections on their way through the channels, whose   *)
(* buffers are never exceeded: each send waits for room.                   *)
LEMMA StepChannelTypes ==
  ASSUME ChannelTypes, HandsFull, [Next]_vars
  PROVE  ChannelTypes' /\ HandsFull'
<1> USE RunnerConstants, NoConnAssumption
<1> USE DEF ChannelTypes, HandsFull, sockVars, acceptVars, lockVars, proxyVars
<1>1. CASE Run
  <2>1. CASE AcquireLock
    BY <2>1 DEF AcquireLock
  <2>2. CASE Prepare
    BY <2>2 DEF Prepare, ReleaseLock
  <2>3. CASE Spawn
    <3>1. CloseListener \/ UNCHANGED sockVars
      BY <2>3, Zenon DEF Spawn
    <3>2. acceptor' \in {acceptor, "accept"}
      BY <2>3 DEF Spawn
    <3>3. UNCHANGED <<hand, accepted, acceptCh, agentRWC, pending, proxyVars, proxyCh>>
      BY <2>3 DEF Spawn
    <3>4. CASE CloseListener
      BY <3>2, <3>3, <3>4 DEF CloseListener
    <3>5. CASE UNCHANGED sockVars
      BY <3>2, <3>3, <3>5
    <3>6. QED
      BY <3>1, <3>4, <3>5
  <2>4. CASE TakeAccepted
    <3>1. Head(acceptCh) \in Conn /\ Tail(acceptCh) \in Seq(Conn)
          /\ Len(Tail(acceptCh)) <= AcceptCap
      BY <2>4 DEF TakeAccepted
    <3>2. \/ agentRWC' = Head(acceptCh) /\ UNCHANGED pending
          \/ pending' = Append(pending, Head(acceptCh)) /\ UNCHANGED agentRWC
      BY <2>4, Zenon DEF TakeAccepted
    <3>3. /\ acceptCh' = Tail(acceptCh)
          /\ UNCHANGED <<sockVars, acceptVars, proxyVars, proxyCh>>
      BY <2>4 DEF TakeAccepted
    <3>4. CASE agentRWC' = Head(acceptCh) /\ UNCHANGED pending
      BY <3>1, <3>3, <3>4
    <3>5. CASE pending' = Append(pending, Head(acceptCh)) /\ UNCHANGED agentRWC
      BY <3>1, <3>3, <3>5
    <3>6. QED
      BY <3>2, <3>4, <3>5
  <2>5. CASE TakeClosed
    BY <2>5 DEF TakeClosed, ReleaseLock
  <2>6. CASE TakeReady
    BY <2>6 DEF TakeReady
  <2>7. CASE TakeErrorOrCancel
    BY <2>7 DEF TakeErrorOrCancel, SignalManager
  <2>8. CASE TakeExit
    BY <2>8 DEF TakeExit, CloseListener
  <2>9. CASE Reap
    BY <2>9 DEF Reap, CloseListener
  <2>10. CASE Drain
    BY <2>10 DEF Drain, ReleaseLock
  <2>11. CASE Bootstrap
    BY <2>11 DEF Bootstrap, SignalManager
  <2>12. CASE HandOff
    BY <2>12 DEF HandOff
  <2>13. CASE ReturnContext
    BY <2>13 DEF ReturnContext
  <2>14. QED
    BY <1>1, <2>1, <2>2, <2>3, <2>4, <2>5, <2>6, <2>7, <2>8, <2>9, <2>10, <2>11, <2>12,
       <2>13 DEF Run
<1>2. CASE Acceptor
  <2>1. CASE Accept
    BY <2>1 DEF Accept
  <2>2. CASE AcceptFails
    BY <2>2 DEF AcceptFails
  <2>3. CASE RecvFD
    <3>1. \/ acceptor' = "finish" /\ hand' = NoConn /\ UNCHANGED accepted
          \/ acceptor' = "push" /\ accepted' = Append(accepted, hand) /\ UNCHANGED hand
      BY <2>3, Zenon DEF RecvFD
    <3>2. /\ acceptor = "recv"
          /\ UNCHANGED <<sockVars, acceptCh, agentRWC, pending, proxyVars, proxyCh>>
      BY <2>3 DEF RecvFD
    <3>3. CASE acceptor' = "finish" /\ hand' = NoConn /\ UNCHANGED accepted
      BY <3>2, <3>3
    <3>4. CASE acceptor' = "push" /\ accepted' = Append(accepted, hand) /\ UNCHANGED hand
      BY <3>2, <3>4
    <3>5. QED
      BY <3>1, <3>3, <3>4
  <2>4. CASE PushAccepted
    BY <2>4 DEF PushAccepted
  <2>5. CASE AcceptorReturns
    BY <2>5 DEF AcceptorReturns
  <2>6. QED
    BY <1>2, <2>1, <2>2, <2>3, <2>4, <2>5 DEF Acceptor
<1>3. CASE Forwarder
  <2>1. CASE TakeForward
    BY <2>1 DEF TakeForward
  <2>2. CASE PushForward
    BY <2>2 DEF PushForward
  <2>3. CASE CloseProxyCh
    BY <2>3 DEF CloseProxyCh
  <2>4. QED
    BY <1>3, <2>1, <2>2, <2>3 DEF Forwarder
<1>4. CASE Watcher
  <2>1. CASE WatchExit
    BY <2>1 DEF WatchExit, CloseListener
  <2>2. CASE WatchDrain
    BY <2>2 DEF WatchDrain
  <2>3. CASE WatchClose
    BY <2>3 DEF WatchClose, Close
  <2>4. CASE WatchSend
    BY <2>4 DEF WatchSend
  <2>5. QED
    BY <1>4, <2>1, <2>2, <2>3, <2>4 DEF Watcher
<1>5. CASE ManagerExits \/ ContextKills \/ WaitReturns
  BY <1>5 DEF ManagerExits, ContextKills, WaitReturns
<1>6. CASE Cancel \/ ClientKill \/ ClientClose \/ ClientReads
  <2>1. CASE Cancel
    BY <2>1 DEF Cancel
  <2>2. CASE ClientKill
    BY <2>2 DEF ClientKill
  <2>3. CASE ClientClose
    BY <2>3 DEF ClientClose
  <2>4. CASE ClientReads
    BY <2>4 DEF ClientReads
  <2>5. QED
    BY <1>6, <2>1, <2>2, <2>3, <2>4
<1>7. ASSUME NEW k \in Kinds, ManagerSends(k)
      PROVE  ChannelTypes' /\ HandsFull'
  BY <1>7 DEF ManagerSends, Conn
<1>8. CASE UNCHANGED vars
  BY <1>8 DEF vars
<1>9. QED
  BY <1>1, <1>2, <1>3, <1>4, <1>5, <1>6, <1>7, <1>8 DEF Next

(* Taking the head of one queue to the end of the one before it ...        *)
LEMMA HeadMoves ==
  ASSUME NEW S, NEW a \in Seq(S), NEW q \in Seq(S), q # <<>>
  PROVE  Append(a, Head(q)) \o Tail(q) = a \o q
<1>1. Head(q) \in S /\ Tail(q) \in Seq(S) /\ Len(Tail(q)) = Len(q) - 1 /\ Len(q) \in Nat \ {0}
  OBVIOUS
<1>2. \A i \in 1..Len(Tail(q)) : Tail(q)[i] = q[i + 1]
  BY HeadTailProperties
<1>3. /\ Append(a, Head(q)) \in Seq(S) /\ Len(Append(a, Head(q))) = Len(a) + 1
      /\ \A i \in 1..Len(a) : Append(a, Head(q))[i] = a[i]
      /\ Append(a, Head(q))[Len(a) + 1] = q[1]
  BY <1>1
<1>4. PICK l : l = Append(a, Head(q))
  OBVIOUS
<1>5. PICK t : t = Tail(q)
  OBVIOUS
<1>6. l \o t \in Seq(S) /\ a \o q \in Seq(S) /\ Len(l \o t) = Len(a) + Len(q) /\ Len(a \o q) = Len(a) + Len(q)
  BY <1>1, <1>3, <1>4, <1>5
<1>7. ASSUME NEW i \in 1..(Len(a) + Len(q))
      PROVE  (l \o t)[i] = (a \o q)[i]
  <2>1. (l \o t)[i] = IF i <= Len(l) THEN l[i] ELSE t[i - Len(l)]
    BY <1>1, <1>3, <1>4, <1>5, ConcatProperties
  <2>2. (a \o q)[i] = IF i <= Len(a) THEN a[i] ELSE q[i - Len(a)]
    BY ConcatProperties
  <2>3. CASE i <= Len(a)
    BY <1>3, <1>4, <2>1, <2>2, <2>3
  <2>4. CASE i = Len(a) + 1
    BY <1>3, <1>4, <2>1, <2>2, <2>4
  <2>5. CASE i > Len(a) + 1
    <3>1. i - Len(a) - 1 \in 1..Len(t) /\ i - Len(l) = i - Len(a) - 1
      BY <1>1, <1>3, <1>4, <1>5, <2>5
    <3>2. t[i - Len(a) - 1] = q[i - Len(a)]
      BY <1>2, <1>5, <3>1
    <3>3. QED
      BY <1>3, <1>4, <2>1, <2>2, <2>5, <3>1, <3>2
  <2>6. i <= Len(a) \/ i = Len(a) + 1 \/ i > Len(a) + 1
    <3>1. Len(a) \in Nat /\ Len(q) \in Nat
      OBVIOUS
    <3>2. QED
      BY <3>1
  <2>7. QED
    BY <2>3, <2>4, <2>5, <2>6
<1>8. QED
  BY <1>4, <1>5, <1>6, <1>7, SeqEqual

(* ... leaves their concatenation as it was, and so does appending late.   *)
LEMMA LateAppend ==
  ASSUME NEW S, NEW a \in Seq(S), NEW b \in Seq(S), NEW x \in S
  PROVE  /\ a \o Append(b, x) = Append(a \o b, x)
         /\ (a \o b) \o <<x>> = Append(a \o b, x)
         /\ a \o <<x>> = Append(a, x)
<1>1. <<x>> \in Seq(S) /\ a \o b \in Seq(S)
  OBVIOUS
<1>2. Append(b, x) = b \o <<x>> /\ Append(a \o b, x) = (a \o b) \o <<x>> /\ Append(a, x) = a \o <<x>>
  BY <1>1, AppendIsConcat
<1>3. (a \o b) \o <<x>> = a \o (b \o <<x>>)
  BY <1>1, ConcatAssociative
<1>4. QED
  BY <1>2, <1>3

(* Cutting a piece out of a sequence, and out of a longer one. *)
LEMMA SubSeqAppend ==
  ASSUME NEW S, NEW a \in Seq(S), NEW x \in S, NEW m \in 1..(Len(a) + 1), NEW n \in 0..Len(a)
  PROVE  /\ SubSeq(a, m, n) \in Seq(S)
         /\ SubSeq(Append(a, x), m, n) = SubSeq(a, m, n)
         /\ SubSeq(Append(a, x), m, Len(a) + 1) = Append(SubSeq(a, m, Len(a)), x)
<1>1. PICK l : l = Append(a, x)
  OBVIOUS
<1>2. /\ l \in Seq(S) /\ Len(l) = Len(a) + 1 /\ Len(a) \in Nat
      /\ l[Len(a) + 1] = x /\ \A i \in 1..Len(a) : l[i] = a[i] /\ a[i] \in S
  BY <1>1
<1>3. /\ SubSeq(a, m, n) \in Seq(S) /\ Len(SubSeq(a, m, n)) = IF m <= n THEN n - m + 1 ELSE 0
      /\ \A i \in 1..(n - m + 1) : SubSeq(a, m, n)[i] = a[m + i - 1]
  BY <1>2, SubSeqProperties
<1>4. /\ SubSeq(l, m, n) \in Seq(S) /\ Len(SubSeq(l, m, n)) = IF m <= n THEN n - m + 1 ELSE 0
      /\ \A i \in 1..(n - m + 1) : SubSeq(l, m, n)[i] = l[m + i - 1]
  BY <1>2, SubSeqProperties
<1>5. SubSeq(l, m, n) = SubSeq(a, m, n)
  <2>1. \A i \in 1..Len(SubSeq(l, m, n)) : SubSeq(l, m, n)[i] = SubSeq(a, m, n)[i]
    BY <1>2, <1>3, <1>4
  <2>2. QED
    BY <1>3, <1>4, <2>1, SeqEqual
<1>6. SubSeq(l, m, Len(a) + 1) = SubSeq(l, m, Len(a)) \o <<l[Len(a) + 1]>>
  <2>1. Len(a) + 1 \in m..Len(l) /\ m \in 1..Len(l)
    BY <1>2
  <2>2. QED
    BY <1>2, <2>1, SubSeqRecursiveSecond
<1>7. SubSeq(l, m, Len(a)) = SubSeq(a, m, Len(a)) /\ SubSeq(a, m, Len(a)) \in Seq(S)
  <2>1. /\ SubSeq(a, m, Len(a)) \in Seq(S)
        /\ Len(SubSeq(a, m, Len(a))) = IF m <= Len(a) THEN Len(a) - m + 1 ELSE 0
        /\ \A i \in 1..(Len(a) - m + 1) : SubSeq(a, m, Len(a))[i] = a[m + i - 1]
    BY <1>2, SubSeqProperties
  <2>2. /\ SubSeq(l, m, Len(a)) \in Seq(S)
        /\ Len(SubSeq(l, m, Len(a))) = IF m <= Len(a) THEN Len(a) - m + 1 ELSE 0
        /\ \A i \in 1..(Len(a) - m + 1) : SubSeq(l, m, Len(a))[i] = l[m + i - 1]
    BY <1>2, SubSeqProperties
  <2>3. \A i \in 1..Len(SubSeq(l, m, Len(a))) : SubSeq(l, m, Len(a))[i] = SubSeq(a, m, Len(a))[i]
    BY <1>2, <2>1, <2>2
  <2>4. QED
    BY <2>1, <2>2, <2>3, SeqEqual
<1>8. QED
  BY <1>1, <1>2, <1>3, <1>5, <1>6, <1>7, AppendIsConcat

(* A sequence that loses an element early may grow late. *)
LEMMA RemoveAppend ==
  ASSUME NEW S, NEW a \in Seq(S), NEW x \in S, NEW k \in 1..Len(a)
  PROVE  RemoveAt(Append(a, x), k) = Append(RemoveAt(a, k), x)
<1>1. /\ SubSeq(a, 1, k - 1) \in Seq(S) /\ SubSeq(Append(a, x), 1, k - 1) = SubSeq(a, 1, k - 1)
      /\ SubSeq(a, k + 1, Len(a)) \in Seq(S)
      /\ SubSeq(Append(a, x), k + 1, Len(a) + 1) = Append(SubSeq(a, k + 1, Len(a)), x)
  <2>1. 1 \in 1..(Len(a) + 1) /\ k + 1 \in 1..(Len(a) + 1) /\ k - 1 \in 0..Len(a) /\ Len(a) \in 0..Len(a)
    OBVIOUS
  <2>2. /\ SubSeq(a, 1, k - 1) \in Seq(S)
        /\ SubSeq(Append(a, x), 1, k - 1) = SubSeq(a, 1, k - 1)
    BY <2>1, SubSeqAppend
  <2>3. /\ SubSeq(a, k + 1, Len(a)) \in Seq(S)
        /\ SubSeq(Append(a, x), k + 1, Len(a) + 1) = Append(SubSeq(a, k + 1, Len(a)), x)
    BY <2>1, SubSeqAppend
  <2>4. QED
    BY <2>2, <2>3
<1>2. RemoveAt(Append(a, x), k) = SubSeq(Append(a, x), 1, k - 1) \o SubSeq(Append(a, x), k + 1, Len(a) + 1)
  <2>1. Len(Append(a, x)) = Len(a) + 1
    OBVIOUS
  <2>2. QED
    BY <2>1, Zenon DEF RemoveAt
<1>3. RemoveAt(a, k) = SubSeq(a, 1, k - 1) \o SubSeq(a, k + 1, Len(a))
  BY Zenon DEF RemoveAt
<1>4. \A u, v \in Seq(S) : u \o Append(v, x) = Append(u \o v, x)
  BY LateAppend
<1>5. QED
  BY <1>1, <1>2, <1>3, <1>4, Zenon

(* The head of two queues in a row is the head of the first. *)
LEMMA HeadOfConcat ==
  ASSUME NEW S, NEW a \in Seq(S), NEW b \in Seq(S), a # <<>>
  PROVE  a \o b # <<>> /\ Head(a \o b) = Head(a) /\ Tail(a \o b) = Tail(a) \o b
<1>1. <<Head(a)>> \in Seq(S) /\ Tail(a) \in Seq(S) /\ Tail(a) \o b \in Seq(S) /\ <<>> \in Seq(S)
  OBVIOUS
<1>2. a = <<Head(a)>> \o Tail(a)
  <2>1. Append(<<>>, Head(a)) \o Tail(a) = <<>> \o a
    BY <1>1, HeadMoves
  <2>2. Append(<<>>, Head(a)) = <<Head(a)>> /\ <<>> \o a = a
    BY ConcatEmptySeq
  <2>3. QED
    BY <2>1, <2>2
<1>3. a \o b = <<Head(a)>> \o (Tail(a) \o b)
  BY <1>1, <1>2, ConcatAssociative
<1>4. \A h \in S, r \in Seq(S) : <<h>> \o r # <<>> /\ Head(<<h>> \o r) = h /\ Tail(<<h>> \o r) = r
  OBVIOUS
<1>5. Head(a) \in S
  OBVIOUS
<1>6. QED
  BY <1>1, <1>3, <1>4, <1>5, Zenon

(* The element after a prefix is the head of the rest. *)
LEMMA RemoveHead ==
  ASSUME NEW S, NEW p \in Seq(S), NEW q \in Seq(S), q # <<>>
  PROVE  /\ Len(p) + 1 \in 1..Len(p \o q) /\ (p \o q)[Len(p) + 1] = Head(q)
         /\ \A i \in 1..Len(p) : (p \o q)[i] = p[i]
         /\ RemoveAt(p \o q, Len(p) + 1) = p \o Tail(q)
<1>1. PICK r : r = p \o q
  OBVIOUS
<1>2. r \in Seq(S) /\ Len(r) = Len(p) + Len(q) /\ Len(p) \in Nat /\ Len(q) \in Nat \ {0} /\ Head(q) = q[1]
  BY <1>1
<1>3. \A i \in 1..(Len(p) + Len(q)) : r[i] = IF i <= Len(p) THEN p[i] ELSE q[i - Len(p)]
  BY <1>1, ConcatProperties
<1>4. r[Len(p) + 1] = Head(q) /\ \A i \in 1..Len(p) : r[i] = p[i]
  <2>1. Len(p) + 1 \in 1..(Len(p) + Len(q)) /\ ~(Len(p) + 1 <= Len(p)) /\ (Len(p) + 1) - Len(p) = 1
    BY <1>2
  <2>2. r[Len(p) + 1] = q[(Len(p) + 1) - Len(p)]
    BY <1>3, <2>1
  <2>3. \A i \in 1..Len(p) : i \in 1..(Len(p) + Len(q)) /\ i <= Len(p)
    BY <1>2
  <2>4. QED
    BY <1>2, <1>3, <2>1, <2>2, <2>3
<1>5. SubSeq(r, 1, Len(p)) = p
  <2>1. /\ SubSeq(r, 1, Len(p)) \in Seq(S) /\ Len(SubSeq(r, 1, Len(p))) = Len(p)
        /\ \A i \in 1..Len(p) : SubSeq(r, 1, Len(p))[i] = r[1 + i - 1]
    <3>1. \A i \in 1..Len(p) : r[i] \in S
      BY <1>2
    <3>2. QED
      BY <1>2, <3>1, SubSeqProperties
  <2>2. \A i \in 1..Len(SubSeq(r, 1, Len(p))) : SubSeq(r, 1, Len(p))[i] = p[i]
    BY <1>2, <1>4, <2>1
  <2>3. QED
    BY <2>1, <2>2, SeqEqual
<1>6. SubSeq(r, Len(p) + 2, Len(r)) = Tail(q)
  <2>1. PICK m \in Nat, n \in Nat : m = Len(p) + 2 /\ n = Len(r)
    BY <1>2
  <2>2. \A i \in m..n : r[i] \in S
    BY <1>2, <2>1
  <2>3. /\ SubSeq(r, m, n) \in Seq(S) /\ Len(SubSeq(r, m, n)) = IF m <= n THEN n - m + 1 ELSE 0
        /\ \A i \in 1..(n - m + 1) : SubSeq(r, m, n)[i] = r[m + i - 1]
    BY <2>2, SubSeqProperties
  <2>4. Tail(q) \in Seq(S) /\ Len(Tail(q)) = Len(q) - 1 /\ \A i \in 1..(Len(q) - 1) : Tail(q)[i] = q[i + 1]
    BY HeadTailProperties
  <2>5. Len(SubSeq(r, m, n)) = Len(q) - 1 /\ n - m + 1 = Len(q) - 1
    <3>1. PICK x \in Nat, y \in Nat \ {0} : x = Len(p) /\ y = Len(q)
      BY <1>2
    <3>2. m = x + 2 /\ n = x + y
      BY <1>2, <2>1, <3>1
    <3>3. n - m + 1 = y - 1 /\ (m <= n \/ n - m + 1 = 0)
      BY <3>1, <3>2
    <3>4. QED
      BY <2>3, <3>1, <3>3
  <2>6. ASSUME NEW i \in 1..(Len(q) - 1)
        PROVE  SubSeq(r, m, n)[i] = Tail(q)[i]
    <3>1. /\ m + i - 1 \in 1..(Len(p) + Len(q)) /\ ~(m + i - 1 <= Len(p))
          /\ (m + i - 1) - Len(p) = i + 1
      BY <1>2, <2>1
    <3>2. r[m + i - 1] = q[(m + i - 1) - Len(p)]
      BY <1>3, <3>1
    <3>3. QED
      BY <2>3, <2>4, <2>5, <3>1, <3>2
  <2>7. SubSeq(r, m, n) = Tail(q)
    BY <2>3, <2>4, <2>5, <2>6, SeqEqual
  <2>8. QED
    BY <2>1, <2>7
<1>7. RemoveAt(r, Len(p) + 1) = p \o Tail(q)
  <2>1. (Len(p) + 1) - 1 = Len(p) /\ (Len(p) + 1) + 1 = Len(p) + 2
    BY <1>2
  <2>2. QED
    BY <1>5, <1>6, <2>1, Zenon DEF RemoveAt
<1>8. Len(p) + 1 \in 1..Len(r)
  BY <1>2
<1>9. QED
  BY <1>1, <1>4, <1>7, <1>8

(* Seven steps move connections; no other touches a channel on the way     *)
(* from the acceptor to the client.                                        *)
Moves == \/ TakeAccepted \/ HandOff \/ RecvFD \/ PushAccepted
         \/ TakeForward \/ PushForward \/ ClientReads
(* The connection in the acceptor's hand. *)
Pushing == IF acceptor = "push" THEN <<hand>> ELSE <<>>

(* A step that moves no connection leaves all of them where they are. *)
LEMMA OthersMoveNothing ==
  ASSUME ChannelOrder, [Next]_vars, ~Moves
  PROVE  /\ UNCHANGED <<delivered, proxyCh, fhand, pending, acceptCh, agentRWC, accepted>>
         /\ Pushing' = Pushing
<1> USE DEF sockVars, acceptVars, lockVars, proxyVars, Pushing, Moves
<1>1. CASE Run
  <2>1. CASE Spawn
    BY <2>1 DEF Spawn, ChannelOrder
  <2>2. CASE Run /\ ~Spawn
    BY <2>2 DEF Run, AcquireLock, Prepare, TakeClosed, TakeReady, TakeErrorOrCancel, TakeExit, Reap,
                Drain, Bootstrap, ReturnContext
  <2>3. QED
    BY <1>1, <2>1, <2>2
<1>2. CASE Acceptor
  BY <1>2 DEF Acceptor, Accept, AcceptFails, AcceptorReturns
<1>3. CASE Forwarder \/ Watcher
  BY <1>3 DEF Forwarder, CloseProxyCh, Watcher, WatchExit, WatchDrain, WatchClose, WatchSend
<1>4. CASE ManagerExits \/ ContextKills \/ WaitReturns \/ Cancel \/ ClientKill \/ ClientClose \/ ClientReads
  BY <1>4 DEF ManagerExits, ContextKills, WaitReturns, Cancel, ClientKill, ClientClose
<1>5. ASSUME NEW k \in Kinds, ManagerSends(k)
      PROVE  /\ UNCHANGED <<delivered, proxyCh, fhand, pending, acceptCh, agentRWC, accepted>>
             /\ Pushing' = Pushing
  BY <1>5 DEF ManagerSends
<1>6. CASE UNCHANGED vars
  BY <1>6 DEF vars
<1>7. QED
  BY <1>1, <1>2, <1>3, <1>4, <1>5, <1>6 DEF Next

(* Every step preserves ChannelOrder. *)
LEMMA StepChannelOrder ==
  ASSUME ControlTypes, ChannelTypes, HandsFull, ChannelOrder, [Next]_vars
  PROVE  ChannelOrder'
<1> USE NoConnAssumption
<1> USE DEF ChannelOrder, ControlTypes, ChannelTypes, HandsFull, sockVars, acceptVars, lockVars,
            proxyVars
<1>1. CASE Run
  <2>1. CASE AcquireLock
    BY <2>1 DEF AcquireLock
  <2>2. CASE Prepare
    BY <2>2 DEF Prepare
  <2>3. CASE Spawn
    BY <2>3 DEF Spawn
  <2>4. CASE TakeAccepted
    <3>1. run = "select" /\ UNCHANGED <<run, acceptor, proxyCh, forwarder, fhand, delivered>>
      BY <2>4 DEF TakeAccepted
    <3>2. Head(acceptCh) \in Conn
      BY <2>4 DEF TakeAccepted
    <3>3. CASE Head(acceptCh).kind = "agent" /\ agentRWC = NoConn
      BY <2>4, <3>1, <3>2, <3>3 DEF TakeAccepted
    <3>4. CASE ~(Head(acceptCh).kind = "agent" /\ agentRWC = NoConn)
      <4>1. pending' = Append(pending, Head(acceptCh)) /\ agentRWC' = agentRWC
        BY <2>4, <3>4 DEF TakeAccepted
      <4>2. ASSUME agentRWC = NoConn, NEW i \in 1..Len(pending')
            PROVE  pending'[i].kind # "agent"
        <5>1. /\ Len(pending') = Len(pending) + 1 /\ pending'[Len(pending) + 1] = Head(acceptCh)
              /\ Len(pending) \in Nat /\ \A j \in 1..Len(pending) : pending'[j] = pending[j]
          BY <3>2, <4>1
        <5>2. \A j \in 1..Len(pending) : pending[j].kind # "agent"
          BY <4>2
        <5>3. i \in 1..Len(pending) \/ i = Len(pending) + 1
          BY <5>1
        <5>4. QED
          BY <3>4, <4>2, <5>1, <5>2, <5>3
      <4>3. QED
        BY <3>1, <4>1, <4>2
    <3>5. QED
      BY <3>3, <3>4
  <2>5. CASE TakeClosed \/ TakeReady \/ TakeErrorOrCancel \/ TakeExit \/ Reap \/ Drain
    BY <2>5 DEF TakeClosed, TakeReady, TakeErrorOrCancel, TakeExit, Reap, Drain
  <2>6. CASE Bootstrap
    BY <2>6 DEF Bootstrap
  <2>7. CASE HandOff
    BY <2>7 DEF HandOff
  <2>8. CASE ReturnContext
    BY <2>8 DEF ReturnContext
  <2>9. QED
    BY <1>1, <2>1, <2>2, <2>3, <2>4, <2>5, <2>6, <2>7, <2>8 DEF Run
<1>2. CASE Acceptor
  BY <1>2 DEF Acceptor, Accept, AcceptFails, RecvFD, PushAccepted, AcceptorReturns
<1>3. CASE Forwarder
  BY <1>3 DEF Forwarder, TakeForward, PushForward, CloseProxyCh
<1>4. CASE Watcher
  BY <1>4 DEF Watcher, WatchExit, WatchDrain, WatchClose, WatchSend
<1>5. CASE ManagerExits \/ ContextKills \/ WaitReturns
  BY <1>5 DEF ManagerExits, ContextKills, WaitReturns
<1>6. CASE Cancel \/ ClientKill \/ ClientClose \/ ClientReads
  BY <1>6 DEF Cancel, ClientKill, ClientClose, ClientReads
<1>7. ASSUME NEW k \in Kinds, ManagerSends(k)
      PROVE  ChannelOrder'
  BY <1>7 DEF ManagerSends
<1>8. CASE UNCHANGED vars
  BY <1>8 DEF vars
<1>9. QED
  BY <1>1, <1>2, <1>3, <1>4, <1>5, <1>6, <1>7, <1>8 DEF Next

(* A connection travels from the acceptor to the client without overtaking *)
(* another or being lost: only RecvFD adds one, and only the first agent   *)
(* connection is taken out.                                                *)
LEMMA StepRouted ==
  ASSUME ControlTypes, ChannelTypes, HandsFull, ChannelOrder, RoutedInOrder, [Next]_vars
  PROVE  RoutedInOrder'
<1> USE NoConnAssumption
<1> DEFINE before == delivered \o proxyCh \o Held(fhand)
<1>1. /\ delivered \in Seq(Conn) /\ proxyCh \in Seq(Conn) /\ Held(fhand) \in Seq(Conn)
      /\ pending \in Seq(Conn) /\ acceptCh \in Seq(Conn) /\ Pushing \in Seq(Conn) /\ accepted \in Seq(Conn)
  BY DEF ChannelTypes, HandsFull, Held, Pushing
<1>2. Route = delivered \o proxyCh \o Held(fhand) \o pending \o acceptCh \o Pushing
  BY DEF Route, Pushing
<1>3. Route' = delivered' \o proxyCh' \o Held(fhand)' \o pending' \o acceptCh' \o Pushing'
  BY DEF Route, Pushing
<1>4. /\ delivered \o proxyCh \in Seq(Conn) /\ before \in Seq(Conn) /\ before \o pending \in Seq(Conn)
      /\ before \o pending \o acceptCh \in Seq(Conn)
  BY <1>1
<1>5. ASSUME NEW a \in Seq(Conn), NEW b \in Seq(Conn), NEW x \in Conn
       PROVE  /\ a \o Append(b, x) = Append(a \o b, x)
              /\ a \o Append(b, x) = (a \o b) \o <<x>>
              /\ a \o Append(b, x) \in Seq(Conn)
  <2>1. a \o Append(b, x) = Append(a \o b, x) /\ (a \o b) \o <<x>> = Append(a \o b, x)
    BY LateAppend
  <2>2. Append(b, x) \in Seq(Conn)
    OBVIOUS
  <2>3. a \o Append(b, x) \in Seq(Conn)
    BY <2>2
  <2>4. QED
    BY <2>1, <2>3
<1>6. \A a, q \in Seq(Conn) : q # <<>> => Append(a, Head(q)) \o Tail(q) = a \o q
  BY HeadMoves
<1>7. ASSUME Route' = Route, UNCHANGED <<agentRWC, accepted>>
      PROVE  RoutedInOrder'
  BY <1>7 DEF RoutedInOrder
<1>8. CASE ~Moves
  <2>1. UNCHANGED <<delivered, proxyCh, fhand, pending, acceptCh, agentRWC, accepted>> /\ Pushing' = Pushing
    BY <1>8, OthersMoveNothing
  <2>2. Held(fhand)' = Held(fhand)
    BY <2>1 DEF Held
  <2>3. QED
    BY <1>2, <1>3, <1>7, <2>1, <2>2
<1>9. CASE ClientReads
  <2>1. /\ proxyCh # <<>> /\ delivered' = Append(delivered, Head(proxyCh)) /\ proxyCh' = Tail(proxyCh)
        /\ UNCHANGED <<fhand, pending, acceptCh, agentRWC, accepted, acceptor, hand>>
    BY <1>9 DEF ClientReads, acceptVars
  <2>2. delivered' \o proxyCh' = delivered \o proxyCh
    BY <1>1, <2>1, HeadMoves
  <2>3. Held(fhand)' = Held(fhand) /\ Pushing' = Pushing
    BY <2>1 DEF Held, Pushing
  <2>4. QED
    BY <1>2, <1>3, <1>7, <2>1, <2>2, <2>3
<1>10. CASE PushForward
  <2>1. /\ forwarder = "push" /\ proxyCh' = Append(proxyCh, fhand) /\ fhand' = NoConn
        /\ UNCHANGED <<delivered, pending, acceptCh, agentRWC, accepted, acceptor, hand>>
    BY <1>10 DEF PushForward, acceptVars
  <2>2. fhand \in Conn /\ Held(fhand) = <<fhand>> /\ Held(fhand)' = <<>> /\ Pushing' = Pushing
    BY <2>1 DEF HandsFull, Held, Pushing
  <2>3. delivered \o Append(proxyCh, fhand) = (delivered \o proxyCh) \o <<fhand>>
    BY <1>1, <1>5, <2>2, Zenon
  <2>4. (delivered \o proxyCh) \o <<fhand>> \o <<>> = (delivered \o proxyCh) \o <<fhand>>
    BY <1>4, <2>2, ConcatEmptySeq
  <2>5. QED
    BY <1>2, <1>3, <1>7, <2>1, <2>2, <2>3, <2>4
<1>11. CASE TakeForward
  <2>1. /\ forwarder = "recv" /\ acceptCh # <<>> /\ fhand' = Head(acceptCh) /\ acceptCh' = Tail(acceptCh)
        /\ UNCHANGED <<delivered, proxyCh, pending, agentRWC, accepted, acceptor, hand>>
    BY <1>11 DEF TakeForward, acceptVars
  <2>2. pending = <<>> /\ fhand = NoConn /\ Head(acceptCh) \in Conn /\ Tail(acceptCh) \in Seq(Conn)
    BY <1>1, <2>1 DEF ChannelOrder
  <2>3. Held(fhand) = <<>> /\ Held(fhand)' = <<Head(acceptCh)>> /\ Pushing' = Pushing
    BY <2>1, <2>2 DEF Held, Pushing
  <2>4. PICK x \in Seq(Conn) : x = delivered \o proxyCh
    BY <1>4
  <2>5. x \o <<>> = x /\ x \o <<Head(acceptCh)>> = Append(x, Head(acceptCh))
    BY <2>2, <2>4, ConcatEmptySeq, LateAppend
  <2>6. Append(x, Head(acceptCh)) \in Seq(Conn)
    BY <2>2, <2>4
  <2>7. Append(x, Head(acceptCh)) \o <<>> = Append(x, Head(acceptCh))
    BY <2>6, ConcatEmptySeq
  <2>8. Append(x, Head(acceptCh)) \o Tail(acceptCh) = x \o acceptCh
    BY <1>1, <2>1, <2>4, HeadMoves
  <2>9. x \o <<Head(acceptCh)>> \o <<>> \o Tail(acceptCh) = x \o <<>> \o <<>> \o acceptCh
    BY <2>5, <2>7, <2>8
  <2>10. QED
    BY <1>2, <1>3, <1>7, <2>1, <2>2, <2>3, <2>4, <2>9
<1>12. CASE PushAccepted
  <2>1. /\ acceptor = "push" /\ acceptCh' = Append(acceptCh, hand) /\ acceptor' = "accept"
        /\ UNCHANGED <<delivered, proxyCh, fhand, pending, agentRWC, accepted>>
    BY <1>12 DEF PushAccepted, proxyVars
  <2>2. hand \in Conn /\ Pushing = <<hand>> /\ Pushing' = <<>> /\ Held(fhand)' = Held(fhand)
    BY <2>1 DEF HandsFull, Held, Pushing
  <2>3. PICK x \in Seq(Conn) : x = before \o pending
    BY <1>4
  <2>4. x \o Append(acceptCh, hand) = (x \o acceptCh) \o <<hand>> /\ x \o Append(acceptCh, hand) \in Seq(Conn)
    BY <1>1, <1>5, <2>2, <2>3, Zenon
  <2>5. (x \o Append(acceptCh, hand)) \o <<>> = x \o Append(acceptCh, hand)
    BY <2>4, ConcatEmptySeq
  <2>6. QED
    BY <1>2, <1>3, <1>7, <2>1, <2>2, <2>3, <2>4, <2>5
<1>13. CASE HandOff
  <2>1. /\ run = "handoff" /\ pending # <<>> /\ proxyCh' = Append(proxyCh, Head(pending)) /\ pending' = Tail(pending)
        /\ UNCHANGED <<delivered, fhand, acceptCh, agentRWC, accepted, acceptor, hand>>
    BY <1>13 DEF HandOff, acceptVars, proxyVars
  <2>2. fhand = NoConn /\ Head(pending) \in Conn /\ Tail(pending) \in Seq(Conn)
    BY <1>1, <2>1 DEF ChannelOrder
  <2>3. Held(fhand) = <<>> /\ Held(fhand)' = <<>> /\ Pushing' = Pushing
    BY <2>1, <2>2 DEF Held, Pushing
  <2>4. delivered \o Append(proxyCh, Head(pending)) = Append(delivered \o proxyCh, Head(pending))
    BY <1>1, <2>2, LateAppend
  <2>5. PICK x \in Seq(Conn) : x = delivered \o proxyCh
    BY <1>4
  <2>6. Append(x, Head(pending)) \o <<>> = Append(x, Head(pending)) /\ x \o <<>> = x
    BY <2>2, <2>5, ConcatEmptySeq
  <2>7. Append(x, Head(pending)) \o Tail(pending) = x \o pending
    BY <1>1, <2>1, <2>5, HeadMoves
  <2>8. QED
    BY <1>2, <1>3, <1>7, <2>1, <2>3, <2>4, <2>5, <2>6, <2>7
<1>14. CASE TakeAccepted
  <2>1. /\ run = "select" /\ acceptCh # <<>> /\ acceptCh' = Tail(acceptCh)
        /\ UNCHANGED <<delivered, proxyCh, fhand, accepted, acceptor, hand>>
    BY <1>14 DEF TakeAccepted, acceptVars, proxyVars
  <2>2. Head(acceptCh) \in Conn /\ Tail(acceptCh) \in Seq(Conn)
    BY <1>1, <2>1
  <2>3. Held(fhand)' = Held(fhand) /\ Pushing' = Pushing
    BY <2>1 DEF Held, Pushing
  <2>4. CASE ~(Head(acceptCh).kind = "agent" /\ agentRWC = NoConn)
    <3>1. pending' = Append(pending, Head(acceptCh)) /\ agentRWC' = agentRWC
      BY <1>14, <2>4 DEF TakeAccepted
    <3>2. PICK x \in Seq(Conn) : x = before
      BY <1>4
    <3>3. x \o Append(pending, Head(acceptCh)) = Append(x \o pending, Head(acceptCh))
      BY <1>1, <1>5, <2>2, <3>2, Zenon
    <3>4. Append(x \o pending, Head(acceptCh)) \o Tail(acceptCh) = (x \o pending) \o acceptCh
      BY <1>1, <1>4, <1>6, <2>1, <3>2, Zenon
    <3>5. QED
      BY <1>2, <1>3, <1>7, <2>1, <2>3, <3>1, <3>2, <3>3, <3>4
  <2>5. CASE Head(acceptCh).kind = "agent" /\ agentRWC = NoConn
    <3>1. pending' = pending /\ agentRWC' = Head(acceptCh)
      BY <1>14, <2>5 DEF TakeAccepted
    <3>2. delivered = <<>> /\ proxyCh = <<>> /\ Held(fhand) = <<>>
      BY <2>1 DEF ChannelOrder, Held
    <3>3. before \o pending = pending
      BY <1>1, <3>2, ConcatEmptySeq
    <3>4. accepted = (pending \o acceptCh) \o Pushing /\ Route' = (pending \o Tail(acceptCh)) \o Pushing
      <4>1. Route = accepted
        <5>1. \A k \in 1..Len(accepted) : accepted[k] # NoConn
          BY <1>1
        <5>2. QED
          BY <2>5, <5>1 DEF RoutedInOrder
      <4>2. QED
        BY <1>2, <1>3, <2>1, <2>3, <3>1, <3>3, <4>1
    <3>5. acceptCh \o Pushing \in Seq(Conn)
      BY <1>1
    <3>6. PICK q \in Seq(Conn) : q = acceptCh \o Pushing
      BY <3>5
    <3>7. q # <<>> /\ Head(q) = Head(acceptCh) /\ Tail(q) = Tail(acceptCh) \o Pushing
      BY <1>1, <2>1, <3>6, HeadOfConcat
    <3>8. accepted = pending \o q /\ Route' = pending \o Tail(q)
      <4>1. pending \in Seq(Conn) /\ acceptCh \in Seq(Conn) /\ Pushing \in Seq(Conn) /\ Tail(acceptCh) \in Seq(Conn)
        BY <1>1, <2>2
      <4>2. (pending \o acceptCh) \o Pushing = pending \o (acceptCh \o Pushing)
        BY <4>1, ConcatAssociative
      <4>3. (pending \o Tail(acceptCh)) \o Pushing = pending \o (Tail(acceptCh) \o Pushing)
        BY <4>1, ConcatAssociative
      <4>4. QED
        BY <3>4, <3>6, <3>7, <4>2, <4>3
    <3>9. PICK k : k = Len(pending) + 1
      OBVIOUS
    <3>10. /\ k \in 1..Len(accepted) /\ accepted[k] = Head(q) /\ \A i \in 1..Len(pending) : accepted[i] = pending[i]
          /\ RemoveAt(accepted, k) = pending \o Tail(q)
      <4>1. /\ Len(pending) + 1 \in 1..Len(pending \o q) /\ (pending \o q)[Len(pending) + 1] = Head(q)
            /\ \A i \in 1..Len(pending) : (pending \o q)[i] = pending[i]
            /\ RemoveAt(pending \o q, Len(pending) + 1) = pending \o Tail(q)
        BY <1>1, <3>7, RemoveHead
      <4>2. QED
        BY <3>8, <3>9, <4>1, Zenon
    <3>11. \A i \in 1..(k - 1) : accepted[i].kind # "agent"
      <4>1. Len(pending) \in Nat /\ k - 1 = Len(pending)
        BY <1>1, <3>9
      <4>2. \A i \in 1..Len(pending) : pending[i].kind # "agent"
        BY <2>5 DEF ChannelOrder
      <4>3. QED
        BY <3>10, <4>1, <4>2
    <3>12. QED
      BY <2>1, <2>5, <3>1, <3>7, <3>8, <3>10, <3>11 DEF RoutedInOrder
  <2>6. QED
    BY <2>4, <2>5
<1>15. CASE RecvFD
  <2>1. /\ acceptor = "recv"
        /\ UNCHANGED <<delivered, proxyCh, fhand, pending, acceptCh, agentRWC>>
    BY <1>15 DEF RecvFD, proxyVars
  <2>2. hand \in Conn /\ Pushing = <<>> /\ Held(fhand)' = Held(fhand)
    BY <2>1 DEF HandsFull, Held, Pushing
  <2>3. CASE hand.kind = "broken"
    <3>1. accepted' = accepted /\ acceptor' = "finish"
      BY <1>15, <2>3 DEF RecvFD
    <3>2. Pushing' = <<>>
      BY <3>1 DEF Pushing
    <3>3. QED
      BY <1>2, <1>3, <1>7, <2>1, <2>2, <3>1, <3>2
  <2>4. CASE hand.kind # "broken"
    <3>1. accepted' = Append(accepted, hand) /\ acceptor' = "push" /\ hand' = hand
      BY <1>15, <2>4 DEF RecvFD
    <3>2. PICK x \in Seq(Conn) : x = before \o pending \o acceptCh
      BY <1>4
    <3>3. Route = x /\ Route' = Append(x, hand)
      <4>1. x \o <<>> = x /\ x \o <<hand>> = Append(x, hand)
        BY <2>2, <3>2, ConcatEmptySeq, LateAppend
      <4>2. Pushing' = <<hand>>
        BY <3>1 DEF Pushing
      <4>3. QED
        BY <1>2, <1>3, <2>1, <2>2, <3>2, <4>1, <4>2
    <3>4. CASE agentRWC = NoConn /\ Route = accepted
      BY <2>1, <3>1, <3>3, <3>4 DEF RoutedInOrder
    <3>5. ASSUME NEW k \in 1..Len(accepted), agentRWC = accepted[k], agentRWC.kind = "agent",
                 \A i \in 1..(k - 1) : accepted[i].kind # "agent", Route = RemoveAt(accepted, k)
          PROVE  RoutedInOrder'
      <4>1. /\ Len(accepted') = Len(accepted) + 1 /\ Len(accepted) \in Nat
            /\ \A i \in 1..Len(accepted) : accepted'[i] = accepted[i]
        BY <1>1, <2>2, <3>1
      <4>2. k \in 1..Len(accepted') /\ agentRWC' = accepted'[k]
        BY <2>1, <3>5, <4>1
      <4>3. \A i \in 1..(k - 1) : accepted'[i].kind # "agent"
        BY <3>5, <4>1
      <4>4. Route' = RemoveAt(accepted', k)
        BY <1>1, <2>2, <3>1, <3>3, <3>5, RemoveAppend
      <4>5. QED
        BY <2>1, <3>5, <4>2, <4>3, <4>4 DEF RoutedInOrder
    <3>6. QED
      BY <3>4, <3>5 DEF RoutedInOrder
  <2>5. QED
    BY <2>3, <2>4
<1>16. QED
  BY <1>8, <1>9, <1>10, <1>11, <1>12, <1>13, <1>14, <1>15 DEF Moves

(* Every step preserves the four facts about lock, failure, tear-down and  *)
(* watcher.  The steps of Run matter for the first three, the watcher and  *)
(* Close for the last two; the acceptor and the forwarder touch none.      *)
LEMMA StepOrder ==
  ASSUME RunnerInv, [Next]_vars
  PROVE  LockAccounted' /\ FailureExplained' /\ TearDownOrder' /\ WatcherOrder'
<1> USE RunnerConstants, NoConnAssumption
<1> USE DEF RunnerInv, TypeOK, ControlTypes, LockAccounted, FailureExplained, TearDownOrder,
           WatcherOrder, TornDown, sockVars, acceptVars, lockVars, proxyVars
<1>1. CASE Run
  <2>1. CASE AcquireLock
    BY <2>1 DEF AcquireLock
  <2>2. CASE Prepare
    <3>1. \/ run' = "spawn" /\ UNCHANGED <<failure, lock, releases, closedBy>>
          \/ run' = "failed" /\ failure' = "setup" /\ ReleaseLock
      BY <2>2, Zenon DEF Prepare
    <3>2. run = "prepare" /\ UNCHANGED <<mgr, waited, rpc, watcher, waitCh>>
      BY <2>2 DEF Prepare
    <3>3. QED
      BY <3>1, <3>2 DEF ReleaseLock
  <2>3. CASE Spawn
    BY <2>3 DEF Spawn, ReleaseLock, CloseListener
  <2>4. CASE TakeAccepted
    BY <2>4 DEF TakeAccepted
  <2>5. CASE TakeClosed
    BY <2>5 DEF TakeClosed, ReleaseLock
  <2>6. CASE TakeReady
    BY <2>6 DEF TakeReady
  <2>7. CASE TakeErrorOrCancel
    BY <2>7 DEF TakeErrorOrCancel, SignalManager
  <2>8. CASE TakeExit
    BY <2>8 DEF TakeExit, CloseListener
  <2>9. CASE Reap
    BY <2>9 DEF Reap, CloseListener
  <2>10. CASE Drain
    BY <2>10 DEF Drain, ReleaseLock
  <2>11. CASE Bootstrap
    BY <2>11 DEF Bootstrap, SignalManager
  <2>12. CASE HandOff
    BY <2>12 DEF HandOff
  <2>13. CASE ReturnContext
    BY <2>13 DEF ReturnContext
  <2>14. QED
    BY <1>1, <2>1, <2>2, <2>3, <2>4, <2>5, <2>6, <2>7, <2>8, <2>9, <2>10, <2>11, <2>12,
       <2>13 DEF Run
<1>2. CASE Acceptor
  BY <1>2 DEF Acceptor, Accept, AcceptFails, RecvFD, PushAccepted, AcceptorReturns
<1>3. CASE Forwarder
  BY <1>3 DEF Forwarder, TakeForward, PushForward, CloseProxyCh
<1>4. CASE Watcher
  BY <1>4 DEF Watcher, WatchExit, WatchDrain, WatchClose, WatchSend, Close, CloseListener
<1>5. CASE ManagerExits \/ ContextKills \/ WaitReturns
  BY <1>5 DEF ManagerExits, ContextKills, WaitReturns
<1>6. CASE Cancel \/ ClientKill \/ ClientClose \/ ClientReads
  BY <1>6 DEF Cancel, ClientKill, ClientClose, ClientReads, SignalManager, Close
<1>7. ASSUME NEW k \in Kinds, ManagerSends(k)
      PROVE  LockAccounted' /\ FailureExplained' /\ TearDownOrder' /\ WatcherOrder'
  BY <1>7 DEF ManagerSends
<1>8. CASE UNCHANGED vars
  BY <1>8 DEF vars
<1>9. QED
  BY <1>1, <1>2, <1>3, <1>4, <1>5, <1>6, <1>7, <1>8 DEF Next

(* Every step of Run, its goroutines, vmmanager and the caller preserves   *)
(* RunnerInv.                                                              *)
LEMMA StepRunnerInv == RunnerInv /\ [Next]_vars => RunnerInv'
<1> SUFFICES ASSUME RunnerInv, [Next]_vars
             PROVE  RunnerInv'
  OBVIOUS
<1>1. ControlTypes /\ FlagTypes /\ ChannelTypes /\ HandsFull /\ ChannelOrder /\ RoutedInOrder
  BY DEF RunnerInv, TypeOK
<1>2. ControlTypes' /\ FlagTypes' /\ ChannelTypes' /\ HandsFull'
  BY <1>1, StepControlTypes, StepFlagTypes, StepChannelTypes
<1>3. ChannelOrder' /\ RoutedInOrder'
  BY <1>1, StepChannelOrder, StepRouted
<1>4. LockAccounted' /\ FailureExplained' /\ TearDownOrder' /\ WatcherOrder'
  BY StepOrder
<1>5. QED
  BY <1>2, <1>3, <1>4 DEF RunnerInv, TypeOK

(* RunnerInv holds throughout every run. *)
THEOREM RunnerInvariant == Spec => []RunnerInv
<1>1. QED
  BY InitRunnerInv, StepRunnerInv, PTL DEF Spec

(* The variables of Run keep their types and acceptCh and proxyCh never    *)
(* hold more than their capacity, whatever the capacities are.             *)
THEOREM RunnerTypes == Spec => []TypeOK
<1>1. RunnerInv => TypeOK
  BY DEF RunnerInv
<1>2. QED
  BY <1>1, RunnerInvariant, PTL

(* Connections reach the client in the order they were accepted, none lost *)
(* or doubled, and the agent's RPC gets the first one to the agent port,   *)
(* however the acceptor, Run, the forwarder and the client interleave.     *)
THEOREM RunnerRouted == Spec => []RoutedInOrder
<1>1. RunnerInv => RoutedInOrder
  BY DEF RunnerInv
<1>2. QED
  BY <1>1, RunnerInvariant, PTL

(* lock.Release is called at most once by Run, Close and the watcher       *)
(* together.                                                               *)
THEOREM RunnerReleasesOnce == Spec => []ReleasedOnce
<1>1. RunnerInv => ReleasedOnce
  BY DEF RunnerInv, LockAccounted, ReleasedOnce
<1>2. QED
  BY <1>1, RunnerInvariant, PTL

(* When WaitCh reports the exit, vmmanager is reaped, the readiness socket *)
(* is closed and unlinked, the acceptor has returned, the RPC is closed    *)
(* and the lock released.                                                  *)
THEOREM RunnerReportsLast == Spec => []ExitReportOrder
<1>1. RunnerInv => ExitReportOrder
  BY DEF RunnerInv, TypeOK, ControlTypes, LockAccounted, TearDownOrder, WatcherOrder,
         ExitReportOrder
<1>2. QED
  BY <1>1, RunnerInvariant, PTL

(* While vmmanager or its socket is still there, the VM lock is held,      *)
(* except after an early Close() by the caller and after the return at     *)
(* line 427.                                                               *)
THEOREM RunnerLockCoversRun == Spec => []LockCoversRun
<1>1. RunnerInv => LockCoversRun
  BY DEF RunnerInv, TypeOK, ControlTypes, LockAccounted, FailureExplained, TearDownOrder,
         WatcherOrder, LockCoversRun
<1>2. QED
  BY <1>1, RunnerInvariant, PTL
=============================================================================
