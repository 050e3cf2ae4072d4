------------------------------ MODULE Session -------------------------------
(***************************************************************************)
(* The VM from Run to its end as one system: Boot, and over the session it *)
(* establishes either RunContainer (Client), when the launcher was given a *)
(* container image, or calls to the Network and Debug services (Services). *)
(* A session that ends, a VM that stops and a host that dies hit the calls *)
(* wherever they are.                                                      *)
(***************************************************************************)
EXTENDS Client, Services

CONSTANT Callers   \* bound: the VMConfigs whose VM is used once it is ready

vars == <<bootVars, clientVars, serviceVars>>

Init == BootInit /\ ClientInit /\ ServicesInit

(* A step of Boot that ends the session, or leaves it be. *)
BootStep ==
  /\ BootNext
  /\ IF Linked /\ ~Linked' THEN Disconnect ELSE UNCHANGED clientVars
  /\ UNCHANGED serviceVars

(* The launcher runs its container; another caller configures the network  *)
(* it asked for, or else measures.                                         *)
UseVM ==
  \/ cfg.EnableVirtioFS /\ ClientNext /\ UNCHANGED serviceVars
  \/ ~cfg.EnableVirtioFS /\ cfg.EnableNetwork /\ NetworkNext /\ UNCHANGED clientVars
  \/ ~cfg.EnableVirtioFS /\ ~cfg.EnableNetwork /\ DebugNext /\ UNCHANGED clientVars

Next == BootStep \/ (cfg \in Callers /\ UseVM)

Spec == Init /\ [][Next]_vars
-----------------------------------------------------------------------------
(* Every variable of the three parts keeps its type. *)
TypeOK == BootTypeOK /\ ClientTypeOK /\ ServicesTypeOK

(* What travels through the bindings arrives where it belongs: the         *)
(* arguments of a container, its output, and the answers of the services.  *)
ArgumentsArrive == ContainerArgumentsArrive /\ AnswersArrive
-----------------------------------------------------------------------------
(* RunContainer keeps AbstractRun's promise to the launcher, with every    *)
(* call, capability and stream of it, and however the session ends.        *)
Promise == INSTANCE AbstractRun WITH
  Codes <- {"status"}, asked <- req, made <- got,
  printed <- [s \in Streams |-> col[s].printed], ended <- [s \in Streams |-> col[s].done],
  dead <- (run = "dead")
KeepsPromise == Promise!Spec
=============================================================================
