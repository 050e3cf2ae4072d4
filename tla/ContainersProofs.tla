-------------------------- MODULE ContainersProofs --------------------------
(***************************************************************************)
(* Proofs about Containers, for any ids, Containers and number of starts.  *)
(* The properties are about single starts; what makes them inductive is    *)
(* that a start which overlaps no other is the only busy one of its id, so *)
(* that nobody else writes its config.json, stacks or unmounts an overlay  *)
(* at its mount point, or holds its directory under runc-root.             *)
(***************************************************************************)
EXTENDS Containers, SequenceTheorems, FiniteSetTheorems, TLAPS

(* A start has a Container, and a Container an id, from its call on. *)
Known(s) == /\ pc[s] = "none" <=> cont[s] = None
            /\ cont[s] # None => id[cont[s]] # None

(* How far runc can be where a start is. *)
Phases(s) ==
  /\ pc[s] \in {"none", "ensure", "bundle", "lower", "overlay", "exec", "failed"} => runc[s] = "none"
  /\ pc[s] \in {"waited", "done", "kept"} => runc[s] \in {"exited", "refused"}
  /\ runc[s] = "none" => loaded[s] = None

(* Unless ids were crossed, a busy start shares its id with no other. *)
Alone(s) == s \notin crossed /\ Busy(s) => \A t \in Starts \ {s} : IdOf(t) = IdOf(s) => ~Busy(t)

(* runc of this start has not exited. *)
Live(s) == runc[s] \in {"starting", "running"}

(* The bundle of a start that has written it, unless the state disk covers *)
(* it, and the overlay of one that has mounted it, are in place.           *)
Wrote(s) == pc[s] \in {"lower", "overlay", "exec", "reply", "task", "waited"} \/ Live(s)
Mounted(s) == pc[s] \in {"exec", "reply", "task", "waited"} \/ Live(s)

Bundled(s) ==
  \/ config["state"][IdOf(s)] = cont[s]
  \/ config["state"][IdOf(s)] = None /\ config["root"][IdOf(s)] = cont[s] /\ ~virtiofs
OwnConfig(s) == s \notin crossed /\ Wrote(s) => Bundled(s)
OwnTop(s) == s \notin crossed /\ Mounted(s) => Top(IdOf(s)) = s

(* The state disk is blank until it is mounted, and in virtiofs mode it is *)
(* mounted before the bundle is written.                                   *)
MountedFirst ==
  /\ ~stateOn => \A i \in Ids : config["state"][i] = None
  /\ virtiofs => \A s \in Starts : pc[s] \notin {"none", "ensure", "failed"} => stateOn

(* What runc knows of an id belongs to a start that is still there. *)
Owned(i) == runcState[i] # None =>
              IdOf(runcState[i]) = i /\ runc[runcState[i]] \in {"running", "exited"}

(* The starts that account for the overlays of an id. *)
Holders(i) ==
  {s \in Starts : IdOf(s) = i /\ pc[s] \in {"exec", "reply", "task", "waited", "leaked", "kept"}}
Accounted(i) == IsFiniteSet(Holders(i)) /\ Len(overlays[i]) = Cardinality(Holders(i))

(* What is known of every start and id at any time. *)
ContainersInv ==
  /\ TypeOK
  /\ \A s \in Starts : Known(s) /\ Phases(s) /\ Alone(s) /\ OwnConfig(s) /\ OwnTop(s)
  /\ MountedFirst
  /\ \A i \in Ids : Owned(i)
  /\ RunsOwnBundle
(* The mounts are as many as those who made them. *)
OverlayInv == \A i \in Ids : Accounted(i)
-----------------------------------------------------------------------------
(* Every variable keeps its type, and a start its Container and its id.    *)
LEMMA StepTypes ==
  ASSUME TypeOK, \A s \in Starts : Known(s) /\ Phases(s), [Next]_vars
  PROVE  /\ TypeOK' /\ \A s \in Starts : Known(s)'
         /\ \A s \in Starts : pc[s] # "none" =>
              cont'[s] = cont[s] /\ IdOf(s)' = IdOf(s) /\ IdOf(s) \in Ids /\ cont[s] \in Conts
<1> DEFINE Goal == /\ TypeOK' /\ \A s \in Starts : Known(s)'
                   /\ \A s \in Starts : pc[s] # "none" =>
                       cont'[s] = cont[s] /\ IdOf(s)' = IdOf(s) /\ IdOf(s) \in Ids /\ cont[s] \in Conts
<1> USE ContainersConstants DEF TypeOK, Known, IdOf, Body
<1>1. CASE UNCHANGED vars
  BY <1>1 DEF vars, startVars, diskVars, runcVars
<1>2. ASSUME NEW c \in Conts, NEW i \in Ids, Create(c, i)
      PROVE  Goal
  BY <1>2 DEF Create, startVars, diskVars, runcVars
<1>3. ASSUME NEW s \in Starts, NEW c \in Conts, Start(s, c)
      PROVE  Goal
  BY <1>3 DEF Start, startVars, diskVars, runcVars
<1>4. ASSUME NEW s \in Starts, EnsureState(s)
      PROVE  Goal
  BY <1>4 DEF EnsureState, startVars, diskVars, runcVars
<1>5. ASSUME NEW s \in Starts, WriteBundle(s)
      PROVE  Goal
  BY <1>5 DEF WriteBundle, Here, startVars, diskVars, runcVars
<1>6. ASSUME NEW s \in Starts, MountOverlay(s)
      PROVE  Goal
  BY <1>6 DEF MountOverlay, startVars, diskVars, runcVars
<1>7. ASSUME NEW s \in Starts, Exec(s)
      PROVE  Goal
  BY <1>7 DEF Exec, startVars, diskVars, runcVars
<1>8. ASSUME NEW s \in Starts, Reply(s)
      PROVE  Goal
  BY <1>8 DEF Reply, startVars, diskVars, runcVars
<1>9. ASSUME NEW s \in Starts, StartFails(s)
      PROVE  Goal
  BY <1>9 DEF StartFails, startVars, diskVars, runcVars
<1>10. ASSUME NEW s \in Starts, WaitRunc(s)
      PROVE  Goal
  BY <1>10 DEF WaitRunc, startVars, diskVars, runcVars
<1>11. ASSUME NEW s \in Starts, Cleanup(s)
      PROVE  Goal
  <2>1. pc[s] = "waited" /\ IdOf(s) \in Ids /\ cont' = cont /\ id' = id
    BY <1>11 DEF Cleanup, Phases
  <2>2. CASE pc' = [pc EXCEPT ![s] = "kept"] /\ overlays' = overlays
    BY <1>11, <2>1, <2>2 DEF Cleanup, runcVars
  <2>3. CASE /\ pc' = [pc EXCEPT ![s] = "done"]
             /\ overlays' = [overlays EXCEPT ![IdOf(s)] =
                               IF @ = <<>> THEN @ ELSE SubSeq(@, 1, Len(@) - 1)]
    <3>1. overlays' \in [Ids -> Seq(Starts)]
      BY <2>1, <2>3
    <3>2. QED
      BY <1>11, <2>1, <2>3, <3>1 DEF Cleanup, runcVars
  <2>4. QED
    BY <1>11, <2>2, <2>3 DEF Cleanup
<1>12. ASSUME NEW s \in Starts, RuncRuns(s)
      PROVE  Goal
  <2>1. pc[s] # "none" /\ IdOf(s) \in Ids
    BY <1>12 DEF RuncRuns, Phases
  <2>2. Top(IdOf(s)) \in Starts \cup {None}
    BY <2>1 DEF Top
  <2>3. config[Here][IdOf(s)] \in Conts \cup {None}
    BY <2>1 DEF Here
  <2>4. QED
    BY <1>12, <2>1, <2>2, <2>3 DEF RuncRuns, startVars, diskVars
<1>13. ASSUME NEW s \in Starts, RuncRefuses(s)
      PROVE  Goal
  BY <1>13 DEF RuncRefuses, startVars, diskVars, runcVars
<1>14. ASSUME NEW s \in Starts, RuncExits(s)
      PROVE  Goal
  BY <1>14 DEF RuncExits, startVars, diskVars, runcVars
<1>15. ASSUME NEW s \in Starts, RuncKilled(s)
      PROVE  Goal
  BY <1>15 DEF RuncKilled, startVars, diskVars, runcVars
<1>16. QED
  BY <1>1, <1>2, <1>3, <1>4, <1>5, <1>6, <1>7, <1>8, <1>9, <1>10, <1>11, <1>12, <1>13, <1>14,
     <1>15 DEF Next, Runc

(* runc is started by Exec and waited for before the cleanup. *)
LEMMA StepPhases ==
  ASSUME ContainersInv, [Next]_vars
  PROVE  \A s \in Starts : Phases(s)'
<1> DEFINE Goal == \A s \in Starts : Phases(s)'
<1>1. /\ TypeOK' /\ \A s \in Starts : Known(s)'
      /\ \A s \in Starts : pc[s] # "none" =>
           cont'[s] = cont[s] /\ IdOf(s)' = IdOf(s) /\ IdOf(s) \in Ids /\ cont[s] \in Conts
  BY StepTypes DEF ContainersInv
<1> USE <1>1, ContainersConstants DEF ContainersInv, TypeOK, Known, Phases, Body,
        startVars, diskVars, runcVars
<1>2. ASSUME UNCHANGED vars \/ \E c \in Conts, i \in Ids : Create(c, i)
      PROVE  Goal
  BY <1>2 DEF vars, Create
<1>3. ASSUME NEW u \in Starts, NEW c \in Conts, Start(u, c)
      PROVE  Goal
  BY <1>3 DEF Start
<1>4. ASSUME NEW u \in Starts, EnsureState(u) \/ WriteBundle(u) \/ MountOverlay(u)
      PROVE  Goal
  BY <1>4 DEF EnsureState, WriteBundle, MountOverlay
<1>5. ASSUME NEW u \in Starts, Exec(u) \/ Reply(u) \/ StartFails(u)
      PROVE  Goal
  BY <1>5 DEF Exec, Reply, StartFails
<1>6. ASSUME NEW u \in Starts, WaitRunc(u) \/ Cleanup(u)
      PROVE  Goal
  BY <1>6 DEF WaitRunc, Cleanup
<1>7. ASSUME NEW u \in Starts, RuncRuns(u) \/ RuncRefuses(u)
      PROVE  Goal
  <2>1. CASE RuncRuns(u)
    BY <2>1 DEF RuncRuns
  <2>2. CASE RuncRefuses(u)
    BY <2>2 DEF RuncRefuses
  <2>3. QED
    BY <1>7, <2>1, <2>2
<1>8. ASSUME NEW u \in Starts, RuncExits(u) \/ RuncKilled(u)
      PROVE  Goal
  BY <1>8 DEF RuncExits, RuncKilled
<1>9. QED
  BY <1>2, <1>3, <1>4, <1>5, <1>6, <1>7, <1>8 DEF Next, Runc

(* A start becomes busy only by its call, which counts whoever it meets.   *)
LEMMA StepAlone ==
  ASSUME ContainersInv, [Next]_vars
  PROVE  \A s \in Starts : Alone(s)'
<1> DEFINE Goal == \A s \in Starts : Alone(s)'
<1>1. /\ TypeOK' /\ \A s \in Starts : Known(s)'
      /\ \A s \in Starts : pc[s] # "none" =>
           cont'[s] = cont[s] /\ IdOf(s)' = IdOf(s) /\ IdOf(s) \in Ids /\ cont[s] \in Conts
  BY StepTypes DEF ContainersInv
<1> USE <1>1, ContainersConstants DEF ContainersInv, TypeOK, Known, Phases, Body, Alone, Busy, IdOf,
        startVars, diskVars, runcVars
<1>2. ASSUME UNCHANGED vars \/ \E c \in Conts, i \in Ids : Create(c, i)
      PROVE  Goal
  BY <1>2 DEF vars, Create
<1>3. ASSUME NEW u \in Starts, NEW c \in Conts, Start(u, c)
      PROVE  Goal
  BY <1>3 DEF Start
<1>4. ASSUME NEW u \in Starts, EnsureState(u) \/ WriteBundle(u) \/ MountOverlay(u)
      PROVE  Goal
  BY <1>4 DEF EnsureState, WriteBundle, MountOverlay
<1>5. ASSUME NEW u \in Starts, Exec(u) \/ Reply(u) \/ StartFails(u)
      PROVE  Goal
  BY <1>5 DEF Exec, Reply, StartFails
<1>6. ASSUME NEW u \in Starts, WaitRunc(u) \/ Cleanup(u)
      PROVE  Goal
  BY <1>6 DEF WaitRunc, Cleanup
<1>7. ASSUME NEW u \in Starts, RuncRuns(u) \/ RuncRefuses(u)
      PROVE  Goal
  BY <1>7 DEF RuncRuns, RuncRefuses
<1>8. ASSUME NEW u \in Starts, RuncExits(u) \/ RuncKilled(u)
      PROVE  Goal
  BY <1>8 DEF RuncExits, RuncKilled
<1>9. QED
  BY <1>2, <1>3, <1>4, <1>5, <1>6, <1>7, <1>8 DEF Next, Runc

(* The state disk, once mounted, stays so. *)
LEMMA StepMounted ==
  ASSUME ContainersInv, [Next]_vars
  PROVE  MountedFirst'
<1> DEFINE Goal == MountedFirst'
<1>1. /\ TypeOK' /\ \A s \in Starts : Known(s)'
      /\ \A s \in Starts : pc[s] # "none" =>
           cont'[s] = cont[s] /\ IdOf(s)' = IdOf(s) /\ IdOf(s) \in Ids /\ cont[s] \in Conts
  BY StepTypes DEF ContainersInv
<1> USE <1>1, ContainersConstants DEF ContainersInv, TypeOK, Known, Phases, Body, MountedFirst,
                                      Here,
        startVars, diskVars, runcVars
<1>2. ASSUME UNCHANGED vars \/ \E c \in Conts, i \in Ids : Create(c, i)
      PROVE  Goal
  BY <1>2 DEF vars, Create
<1>3. ASSUME NEW u \in Starts, NEW c \in Conts, Start(u, c)
      PROVE  Goal
  BY <1>3 DEF Start
<1>4. ASSUME NEW u \in Starts, EnsureState(u) \/ WriteBundle(u) \/ MountOverlay(u)
      PROVE  Goal
  <2>1. CASE EnsureState(u)
    BY <2>1 DEF EnsureState
  <2>2. CASE WriteBundle(u)
    BY <2>2 DEF WriteBundle
  <2>3. CASE MountOverlay(u)
    BY <2>3 DEF MountOverlay
  <2>4. QED
    BY <1>4, <2>1, <2>2, <2>3
<1>5. ASSUME NEW u \in Starts, Exec(u) \/ Reply(u) \/ StartFails(u)
      PROVE  Goal
  <2>1. CASE Exec(u)
    BY <2>1 DEF Exec
  <2>2. CASE Reply(u)
    BY <2>2 DEF Reply
  <2>3. CASE StartFails(u)
    BY <2>3 DEF StartFails
  <2>4. QED
    BY <1>5, <2>1, <2>2, <2>3
<1>6. ASSUME NEW u \in Starts, WaitRunc(u) \/ Cleanup(u)
      PROVE  Goal
  BY <1>6 DEF WaitRunc, Cleanup
<1>7. ASSUME NEW u \in Starts, RuncRuns(u) \/ RuncRefuses(u)
      PROVE  Goal
  BY <1>7 DEF RuncRuns, RuncRefuses
<1>8. ASSUME NEW u \in Starts, RuncExits(u) \/ RuncKilled(u)
      PROVE  Goal
  <2>1. CASE RuncExits(u)
    BY <2>1 DEF RuncExits
  <2>2. CASE RuncKilled(u)
    BY <2>2 DEF RuncKilled
  <2>3. QED
    BY <1>8, <2>1, <2>2
<1>9. QED
  BY <1>2, <1>3, <1>4, <1>5, <1>6, <1>7, <1>8 DEF Next, Runc

(* A directory under runc-root belongs to a runc that runs or was killed. *)
LEMMA StepOwned ==
  ASSUME ContainersInv, [Next]_vars
  PROVE  \A i \in Ids : Owned(i)'
<1> DEFINE Goal == \A i \in Ids : Owned(i)'
<1>1. /\ TypeOK' /\ \A s \in Starts : Known(s)'
      /\ \A s \in Starts : pc[s] # "none" =>
           cont'[s] = cont[s] /\ IdOf(s)' = IdOf(s) /\ IdOf(s) \in Ids /\ cont[s] \in Conts
  BY StepTypes DEF ContainersInv
<1> USE <1>1, ContainersConstants DEF ContainersInv, TypeOK, Known, Phases, Body, Owned,
        startVars, diskVars, runcVars
<1>2. ASSUME UNCHANGED vars \/ \E c \in Conts, i \in Ids : Create(c, i)
      PROVE  Goal
  BY <1>2 DEF vars, Create
<1>3. ASSUME NEW u \in Starts, NEW c \in Conts, Start(u, c)
      PROVE  Goal
  BY <1>3 DEF Start
<1>4. ASSUME NEW u \in Starts, EnsureState(u) \/ WriteBundle(u) \/ MountOverlay(u)
      PROVE  Goal
  BY <1>4 DEF EnsureState, WriteBundle, MountOverlay
<1>5. ASSUME NEW u \in Starts, Exec(u) \/ Reply(u) \/ StartFails(u)
      PROVE  Goal
  <2>1. CASE Exec(u)
    BY <2>1 DEF Exec
  <2>2. CASE Reply(u)
    BY <2>2 DEF Reply
  <2>3. CASE StartFails(u)
    BY <2>3 DEF StartFails
  <2>4. QED
    BY <1>5, <2>1, <2>2, <2>3
<1>6. ASSUME NEW u \in Starts, WaitRunc(u) \/ Cleanup(u)
      PROVE  Goal
  BY <1>6 DEF WaitRunc, Cleanup
<1>7. ASSUME NEW u \in Starts, RuncRuns(u) \/ RuncRefuses(u)
      PROVE  Goal
  <2>1. CASE RuncRuns(u)
    BY <2>1 DEF RuncRuns
  <2>2. CASE RuncRefuses(u)
    BY <2>2 DEF RuncRefuses
  <2>3. QED
    BY <1>7, <2>1, <2>2
<1>8. ASSUME NEW u \in Starts, RuncExits(u) \/ RuncKilled(u)
      PROVE  Goal
  <2>1. CASE RuncExits(u)
    BY <2>1 DEF RuncExits
  <2>2. CASE RuncKilled(u)
    BY <2>2 DEF RuncKilled
  <2>3. QED
    BY <1>8, <2>1, <2>2
<1>9. QED
  BY <1>2, <1>3, <1>4, <1>5, <1>6, <1>7, <1>8 DEF Next, Runc

(* Only WriteBundle writes a config.json, only MountOverlay and Cleanup    *)
(* change what is stacked, and a start that has overlapped another is      *)
(* counted so for good.                                                    *)
LEMMA WhoWrites ==
  ASSUME TypeOK, [Next]_vars
  PROVE  /\ crossed \subseteq crossed' /\ virtiofs' = virtiofs
         /\ config' = config \/ \E t \in Starts : WriteBundle(t)
         /\ overlays' = overlays \/ \E t \in Starts : MountOverlay(t) \/ Cleanup(t)
         /\ \A s \in Starts : Wrote(s)' => Wrote(s) \/ WriteBundle(s)
         /\ \A s \in Starts : Mounted(s)' => Mounted(s) \/ MountOverlay(s)
<1>1. crossed \subseteq crossed' /\ virtiofs' = virtiofs
  BY DEF Next, Runc, Create, Start, EnsureState, WriteBundle, MountOverlay, Exec, Reply, StartFails,
         WaitRunc, Cleanup, RuncRuns, RuncRefuses, RuncExits, RuncKilled, vars, startVars,
         diskVars, runcVars
<1>2. config' = config \/ \E t \in Starts : WriteBundle(t)
  BY DEF Next, Runc, Create, Start, EnsureState, MountOverlay, Exec, Reply, StartFails,
         WaitRunc, Cleanup, RuncRuns, RuncRefuses, RuncExits, RuncKilled, vars, startVars,
         diskVars, runcVars
<1>3. overlays' = overlays \/ \E t \in Starts : MountOverlay(t) \/ Cleanup(t)
  BY DEF Next, Runc, Create, Start, EnsureState, WriteBundle, Exec, Reply, StartFails,
         WaitRunc, RuncRuns, RuncRefuses, RuncExits, RuncKilled, vars, startVars, diskVars, runcVars
<1>4. \A s \in Starts : Wrote(s)' => Wrote(s) \/ WriteBundle(s)
  BY DEF TypeOK, Body, Wrote, Live, Next, Runc, Create, Start, EnsureState, WriteBundle,
     MountOverlay, Exec, Reply, StartFails,
         WaitRunc, Cleanup, RuncRuns, RuncRefuses, RuncExits, RuncKilled, vars, startVars,
         diskVars, runcVars
<1>5. \A s \in Starts : Mounted(s)' => Mounted(s) \/ MountOverlay(s)
  BY DEF TypeOK, Body, Mounted, Live, Next, Runc, Create, Start, EnsureState, WriteBundle,
     MountOverlay, Exec, Reply, StartFails,
         WaitRunc, Cleanup, RuncRuns, RuncRefuses, RuncExits, RuncKilled, vars, startVars,
         diskVars, runcVars
<1>6. QED
  BY <1>1, <1>2, <1>3, <1>4, <1>5

(* A bundle once written stays while its start is alone with its id. *)
LEMMA StepOwnConfig ==
  ASSUME ContainersInv, [Next]_vars
  PROVE  \A s \in Starts : OwnConfig(s)'
<1> SUFFICES ASSUME NEW s \in Starts, s \notin crossed', Wrote(s)'
             PROVE  Bundled(s)'
  BY DEF OwnConfig
<1>1. s \notin crossed /\ virtiofs' = virtiofs /\ TypeOK /\ Known(s) /\ Phases(s) /\ Alone(s) /\ OwnConfig(s)
  BY WhoWrites DEF ContainersInv
<1>2. Busy(s) /\ pc[s] # "none"
  BY <1>1, WhoWrites DEF Wrote, Live, Busy, Body, WriteBundle, Phases
<1>3. cont'[s] = cont[s] /\ IdOf(s)' = IdOf(s) /\ IdOf(s) \in Ids /\ cont[s] \in Conts
  BY <1>2, StepTypes DEF ContainersInv
<1>4. ASSUME NEW t \in Starts, WriteBundle(t), t = s
      PROVE  Bundled(s)'
  <2>1. config' = [config EXCEPT ![Here][IdOf(s)] = cont[s]]
    BY <1>4 DEF WriteBundle
  <2>2. CASE stateOn
    BY <1>1, <1>3, <2>1, <2>2 DEF Bundled, Here, TypeOK
  <2>3. CASE ~stateOn
    <3>1. config["state"][IdOf(s)] = None /\ ~virtiofs
      BY <1>3, <1>4, <2>3 DEF ContainersInv, MountedFirst, WriteBundle
    <3>2. QED
      BY <1>1, <1>3, <2>1, <2>3, <3>1 DEF Bundled, Here, TypeOK
  <2>4. QED
    BY <2>2, <2>3
<1>5. ASSUME NEW t \in Starts, WriteBundle(t), t # s
      PROVE  Bundled(s)'
  <2>1. IdOf(t) # IdOf(s)
    BY <1>1, <1>2, <1>5 DEF Alone, Busy, Body, WriteBundle
  <2>2. \A f \in {"root", "state"} : config'[f][IdOf(s)] = config[f][IdOf(s)]
    BY <1>1, <1>3, <1>5, <2>1 DEF WriteBundle, TypeOK
  <2>3. Wrote(s)
    BY <1>5, WhoWrites, <1>1 DEF WriteBundle, Wrote, Live, TypeOK
  <2>4. QED
    BY <1>1, <1>3, <2>2, <2>3 DEF OwnConfig, Bundled
<1>6. CASE config' = config /\ Wrote(s)
  BY <1>1, <1>3, <1>6 DEF OwnConfig, Bundled
<1>7. QED
  BY <1>1, <1>4, <1>5, <1>6, WhoWrites

(* The overlay of a start stays on top while the start is alone with its   *)
(* id.                                                                     *)
LEMMA StepOwnTop ==
  ASSUME ContainersInv, [Next]_vars
  PROVE  \A s \in Starts : OwnTop(s)'
<1> SUFFICES ASSUME NEW s \in Starts, s \notin crossed', Mounted(s)'
             PROVE  Top(IdOf(s))' = s
  BY DEF OwnTop
<1>1. s \notin crossed /\ TypeOK /\ Known(s) /\ Phases(s) /\ Alone(s) /\ OwnTop(s)
  BY WhoWrites DEF ContainersInv
<1>2. Busy(s) /\ pc[s] # "none"
  BY <1>1, WhoWrites DEF Mounted, Live, Busy, Body, MountOverlay, Phases
<1>3. IdOf(s)' = IdOf(s) /\ IdOf(s) \in Ids
  BY <1>2, StepTypes DEF ContainersInv
<1>4. ASSUME NEW t \in Starts, MountOverlay(t), t = s
      PROVE  Top(IdOf(s))' = s
  <2>1. overlays'[IdOf(s)] = Append(overlays[IdOf(s)], s) /\ overlays[IdOf(s)] \in Seq(Starts)
    BY <1>1, <1>3, <1>4 DEF MountOverlay, TypeOK
  <2>2. QED
    BY <1>3, <2>1 DEF Top
<1>5. ASSUME NEW t \in Starts, MountOverlay(t) \/ Cleanup(t), t # s
      PROVE  Top(IdOf(s))' = s
  <2>1. IdOf(t) # IdOf(s)
    BY <1>1, <1>2, <1>5 DEF Alone, Busy, Body, MountOverlay, Cleanup
  <2>2. overlays'[IdOf(s)] = overlays[IdOf(s)]
    BY <1>1, <1>3, <1>5, <2>1 DEF MountOverlay, Cleanup, TypeOK
  <2>3. Mounted(s)
    BY <1>5, <1>1 DEF MountOverlay, Cleanup, Mounted, Live, runcVars, TypeOK
  <2>4. QED
    BY <1>1, <1>3, <2>2, <2>3 DEF OwnTop, Top
<1>6. ASSUME NEW t \in Starts, Cleanup(t), t = s
      PROVE  FALSE
  BY <1>1, <1>6 DEF Cleanup, Mounted, Live, Phases, runcVars, TypeOK
<1>7. CASE overlays' = overlays /\ Mounted(s)
  BY <1>1, <1>3, <1>7 DEF OwnTop, Top
<1>8. QED
  BY <1>4, <1>5, <1>6, <1>7, WhoWrites, <1>1

(* runc reads config.json and rootfs once, when it runs the container. *)
LEMMA StepRuns ==
  ASSUME ContainersInv, [Next]_vars
  PROVE  RunsOwnBundle'
<1> DEFINE Goal == RunsOwnBundle'
<1>1. /\ TypeOK' /\ \A s \in Starts : Known(s)'
      /\ \A s \in Starts : pc[s] # "none" =>
           cont'[s] = cont[s] /\ IdOf(s)' = IdOf(s) /\ IdOf(s) \in Ids /\ cont[s] \in Conts
  BY StepTypes DEF ContainersInv
<1> USE <1>1, ContainersConstants DEF ContainersInv, TypeOK, Known, Phases, Body, RunsOwnBundle,
        OwnConfig, OwnTop, Wrote, Mounted, Bundled, Live, MountedFirst, Here,
        startVars, diskVars, runcVars
<1>2. ASSUME UNCHANGED vars \/ \E c \in Conts, i \in Ids : Create(c, i)
      PROVE  Goal
  BY <1>2 DEF vars, Create
<1>3. ASSUME NEW u \in Starts, NEW c \in Conts, Start(u, c)
      PROVE  Goal
  BY <1>3 DEF Start
<1>4. ASSUME NEW u \in Starts, EnsureState(u) \/ WriteBundle(u) \/ MountOverlay(u)
      PROVE  Goal
  BY <1>4 DEF EnsureState, WriteBundle, MountOverlay
<1>5. ASSUME NEW u \in Starts, Exec(u) \/ Reply(u) \/ StartFails(u)
      PROVE  Goal
  BY <1>5 DEF Exec, Reply, StartFails
<1>6. ASSUME NEW u \in Starts, WaitRunc(u) \/ Cleanup(u)
      PROVE  Goal
  BY <1>6 DEF WaitRunc, Cleanup
<1>7. ASSUME NEW u \in Starts, RuncRuns(u) \/ RuncRefuses(u)
      PROVE  Goal
  BY <1>7 DEF RuncRuns, RuncRefuses
<1>8. ASSUME NEW u \in Starts, RuncExits(u) \/ RuncKilled(u)
      PROVE  Goal
  BY <1>8 DEF RuncExits, RuncKilled
<1>9. QED
  BY <1>2, <1>3, <1>4, <1>5, <1>6, <1>7, <1>8 DEF Next, Runc

(* Only a start that mounts its overlay comes to hold one, and only one    *)
(* whose task is cleaned up ceases to.                                     *)
LEMMA StepHolders ==
  ASSUME ContainersInv, [Next]_vars
  PROVE  \/ overlays' = overlays /\ \A i \in Ids : Holders(i)' = Holders(i)
         \/ \E t \in Starts : MountOverlay(t) \/ Cleanup(t)
<1> SUFFICES ASSUME ~\E t \in Starts : MountOverlay(t) \/ Cleanup(t)
             PROVE  overlays' = overlays /\ \A i \in Ids : Holders(i)' = Holders(i)
  OBVIOUS
<1>1. overlays' = overlays
  BY WhoWrites DEF ContainersInv
<1>2. ASSUME NEW s \in Starts
      PROVE  LET holds == {"exec", "reply", "task", "waited", "leaked", "kept"} IN
             /\ pc'[s] \in holds <=> pc[s] \in holds
             /\ pc[s] \in holds => IdOf(s)' = IdOf(s)
  <2>1. TypeOK /\ Known(s)
    BY DEF ContainersInv
  <2>2. pc[s] # "none" => IdOf(s)' = IdOf(s)
    BY StepTypes DEF ContainersInv
  <2>3. QED
    BY <2>1, <2>2 DEF TypeOK, Body, Next, Runc, Create, Start, EnsureState, WriteBundle, Exec,
       Reply, StartFails,
         WaitRunc, RuncRuns, RuncRefuses, RuncExits, RuncKilled, vars, startVars, diskVars, runcVars
<1>3. QED
  BY <1>1, <1>2 DEF Holders

(* The count of overlays follows every mount and every cleanup; a cleanup  *)
(* finds one to unmount because its own start is still counted.            *)
LEMMA StepAccounted ==
  ASSUME ContainersInv, OverlayInv, [Next]_vars
  PROVE  OverlayInv'
<1>1. CASE overlays' = overlays /\ \A i \in Ids : Holders(i)' = Holders(i)
  BY <1>1 DEF OverlayInv, Accounted
<1>2. ASSUME NEW t \in Starts, NEW i \in Ids, MountOverlay(t)
      PROVE  Accounted(i)'
  <2>1. TypeOK /\ Accounted(i) /\ IdOf(t) \in Ids /\ \A s \in Starts : IdOf(s)' = IdOf(s)
    BY <1>2, StepTypes DEF ContainersInv, OverlayInv, MountOverlay, IdOf
  <2>2. CASE i = IdOf(t)
    <3>1. Holders(i)' = Holders(i) \cup {t} /\ t \notin Holders(i)
      BY <1>2, <2>1, <2>2 DEF MountOverlay, Holders, TypeOK
    <3>2. Len(overlays'[i]) = Len(overlays[i]) + 1
      BY <1>2, <2>1, <2>2 DEF MountOverlay, TypeOK
    <3>3. IsFiniteSet(Holders(i)') /\ Cardinality(Holders(i)') = Cardinality(Holders(i)) + 1
      BY <2>1, <3>1, FS_AddElement DEF Accounted
    <3>4. QED
      BY <2>1, <3>2, <3>3 DEF Accounted
  <2>3. CASE i # IdOf(t)
    <3>1. Holders(i)' = Holders(i) /\ overlays'[i] = overlays[i]
      BY <1>2, <2>1, <2>3 DEF MountOverlay, Holders, TypeOK
    <3>2. QED
      BY <2>1, <3>1 DEF Accounted
  <2>4. QED
    BY <2>2, <2>3
<1>3. ASSUME NEW t \in Starts, NEW i \in Ids, Cleanup(t)
      PROVE  Accounted(i)'
  <2>1. TypeOK /\ Accounted(i) /\ IdOf(t) \in Ids /\ \A s \in Starts : IdOf(s)' = IdOf(s)
    BY <1>3, StepTypes DEF ContainersInv, OverlayInv, Cleanup, IdOf
  <2>2. CASE i = IdOf(t) /\ pc' = [pc EXCEPT ![t] = "done"]
    <3>1. Holders(i)' = Holders(i) \ {t} /\ t \in Holders(i)
      BY <1>3, <2>1, <2>2 DEF Cleanup, Holders, TypeOK
    <3>2. IsFiniteSet(Holders(i)') /\ Cardinality(Holders(i)') = Cardinality(Holders(i)) - 1
      BY <2>1, <3>1, FS_RemoveElement DEF Accounted
    <3>3. Cardinality(Holders(i)) # 0 /\ Cardinality(Holders(i)) \in Nat
      BY <2>1, <3>1, FS_EmptySet, FS_CardinalityType DEF Accounted
    <3>4. Len(overlays[i]) # 0 /\ overlays[i] \in Seq(Starts)
      BY <2>1, <3>3 DEF Accounted, TypeOK
    <3>5. pc[t] # "kept" /\ pc'[t] = "done"
      BY <1>3, <2>1, <2>2 DEF Cleanup, TypeOK
    <3>6. overlays'[i] = SubSeq(overlays[i], 1, Len(overlays[i]) - 1)
      BY <1>3, <2>1, <2>2, <3>4, <3>5 DEF Cleanup, TypeOK
    <3>7. Len(overlays'[i]) = Len(overlays[i]) - 1
      BY <3>4, <3>6
    <3>8. QED
      BY <2>1, <3>2, <3>7 DEF Accounted
  <2>3. CASE pc' = [pc EXCEPT ![t] = "kept"]
    <3>1. pc'[t] = "kept" /\ pc[t] = "waited"
      BY <1>3, <2>1, <2>3 DEF Cleanup, TypeOK
    <3>2. Holders(i)' = Holders(i)
      BY <2>1, <2>3, <3>1 DEF Holders, TypeOK
    <3>3. overlays' = overlays
      BY <1>3, <2>1, <3>1 DEF Cleanup, TypeOK
    <3>4. QED
      BY <2>1, <3>2, <3>3 DEF Accounted
  <2>4. CASE i # IdOf(t) /\ pc' = [pc EXCEPT ![t] = "done"]
    <3>1. Holders(i)' = Holders(i) /\ overlays'[i] = overlays[i]
      BY <1>3, <2>1, <2>4 DEF Cleanup, Holders, TypeOK
    <3>2. QED
      BY <2>1, <3>1 DEF Accounted
  <2>5. QED
    BY <1>3, <2>2, <2>3, <2>4 DEF Cleanup
<1>4. QED
  BY <1>1, <1>2, <1>3, StepHolders DEF OverlayInv
-----------------------------------------------------------------------------
(* The invariant holds of a booted agent. *)
LEMMA InitContainersInv == Init => ContainersInv /\ OverlayInv
<1> SUFFICES ASSUME Init
             PROVE  ContainersInv /\ OverlayInv
  OBVIOUS
<1>1. TypeOK
  <2>1. overlays \in [Ids -> Seq(Starts)] /\ virtiofs \in BOOLEAN
    BY DEF Init
  <2>2. config \in [{"root", "state"} -> [Ids -> Conts \cup {None}]]
    BY DEF Init
  <2>3. QED
    BY <2>1, <2>2 DEF Init, TypeOK, Body
<1>2. ASSUME NEW i \in Ids
      PROVE  Accounted(i)
  <2>1. Holders(i) = {} /\ overlays[i] = <<>>
    BY DEF Init, Holders
  <2>2. QED
    BY <2>1, FS_EmptySet DEF Accounted
<1>3. QED
  BY <1>1, <1>2 DEF Init, ContainersInv, OverlayInv, Known, Phases, Alone, Busy, Body,
     OwnConfig, Wrote,
     OwnTop, Mounted, Live, MountedFirst, Owned, RunsOwnBundle

(* The invariant holds of every state. *)
LEMMA ContainersInvariant == Spec => [](ContainersInv /\ OverlayInv)
<1>1. ContainersInv /\ OverlayInv /\ [Next]_vars => (ContainersInv /\ OverlayInv)'
  <2> SUFFICES ASSUME ContainersInv, OverlayInv, [Next]_vars
               PROVE  (ContainersInv /\ OverlayInv)'
    OBVIOUS
  <2>1. TypeOK' /\ \A s \in Starts : Known(s)'
    BY StepTypes DEF ContainersInv
  <2>2. ContainersInv'
    BY <2>1, StepPhases, StepAlone, StepMounted, StepOwned, StepOwnConfig, StepOwnTop, StepRuns
       DEF ContainersInv
  <2>3. QED
    BY <2>2, StepAccounted
<1>2. QED
  BY <1>1, InitContainersInv, PTL DEF Spec

(* Every variable of the agent's container service keeps its type. *)
THEOREM ContainersTypeOK == Spec => []TypeOK
<1>1. ContainersInv => TypeOK
  BY DEF ContainersInv
<1>2. QED
  BY <1>1, ContainersInvariant, PTL

(* A container that overlapped no other start of its id runs the OCI spec  *)
(* and the overlay of its own start.                                       *)
THEOREM ContainersRunOwnBundle == Spec => []RunsOwnBundle
<1>1. ContainersInv => RunsOwnBundle
  BY DEF ContainersInv
<1>2. QED
  BY <1>1, ContainersInvariant, PTL

(* The rootfs of such a container is on top until its runc has ended. *)
THEOREM ContainersRootfsStays == Spec => []RootfsStays
<1>1. ContainersInv => RootfsStays
  BY DEF ContainersInv, OwnTop, Mounted, Live, RootfsStays
<1>2. QED
  BY <1>1, ContainersInvariant, PTL

(* As many overlays are stacked at an id's mount point as starts mounted   *)
(* one whose cleanup has not unmounted one, however many starts share the  *)
(* id and whatever Unmount refuses (container_service.go:203).             *)
THEOREM ContainersOverlays == Spec => []OverlaysAccounted
<1>1. OverlayInv => OverlaysAccounted
  BY DEF OverlayInv, Accounted, Holders, OverlaysAccounted
<1>2. QED
  BY <1>1, ContainersInvariant, PTL

(* runc refuses a start that overlaps no other only because a killed runc  *)
(* left its directory, or, outside virtiofs mode, because the start itself *)
(* put the state disk over its config.json.                                *)
THEOREM ContainersRefused == Spec => RefusedOnlyByLeftovers
<1> DEFINE Leftovers ==
      \A s \in Starts \ crossed :
        runc[s] = "starting" /\ runc'[s] = "refused" =>
          \/ runcState[IdOf(s)] # None /\ runc[runcState[IdOf(s)]] = "exited"
          \/ ~virtiofs /\ config["state"][IdOf(s)] = None /\ config["root"][IdOf(s)] = cont[s]
<1>1. ContainersInv /\ [Next]_vars => [Leftovers]_vars
  <2> SUFFICES ASSUME ContainersInv, [Next]_vars, NEW s \in Starts \ crossed,
                      runc[s] = "starting", runc'[s] = "refused"
               PROVE  \/ runcState[IdOf(s)] # None /\ runc[runcState[IdOf(s)]] = "exited"
                      \/ ~virtiofs /\ config["state"][IdOf(s)] = None /\ config["root"][IdOf(s)] = cont[s]
    OBVIOUS
  <2>1. TypeOK /\ Known(s) /\ Phases(s) /\ Alone(s) /\ OwnConfig(s) /\ MountedFirst
    BY DEF ContainersInv
  <2>2. pc[s] # "none" /\ IdOf(s) \in Ids /\ cont[s] \in Conts
    BY <2>1, ContainersConstants DEF Phases, Known, IdOf, TypeOK
  <2>3. RuncRefuses(s)
    <3>1. \E t \in Starts : Exec(t) \/ Runc(t)
      BY DEF Next, Create, Start, EnsureState, WriteBundle, MountOverlay, Reply, StartFails,
         WaitRunc,
             Cleanup, vars, runcVars
    <3>2. PICK t \in Starts : Exec(t) \/ Runc(t)
      BY <3>1
    <3>3. t = s
      BY <2>1, <3>2 DEF TypeOK, Exec, Runc, RuncRuns, RuncRefuses, RuncExits, RuncKilled
    <3>4. QED
      BY <2>1, <3>2, <3>3 DEF TypeOK, Exec, Runc, RuncRuns, RuncExits, RuncKilled
  <2>4. CASE runcState[IdOf(s)] # None
    <3>1. /\ runcState[IdOf(s)] \in Starts /\ IdOf(runcState[IdOf(s)]) = IdOf(s)
          /\ runc[runcState[IdOf(s)]] \in {"running", "exited"}
      BY <2>1, <2>2, <2>4 DEF ContainersInv, Owned, TypeOK
    <3>2. runc[runcState[IdOf(s)]] # "running"
      BY <2>1, <3>1 DEF Alone, Busy
    <3>3. QED
      BY <2>4, <3>1, <3>2
  <2>5. CASE runcState[IdOf(s)] = None
    <3>1. config[Here][IdOf(s)] = None /\ Bundled(s)
      BY <2>1, <2>3, <2>5 DEF RuncRefuses, OwnConfig, Wrote, Live
    <3>2. QED
      BY <2>1, <2>2, <3>1, ContainersConstants DEF Bundled, Here, MountedFirst
  <2>6. QED
    BY <2>4, <2>5
<1>2. QED
  BY <1>1, ContainersInvariant, PTL DEF Spec, RefusedOnlyByLeftovers
=============================================================================
