------------------------- MODULE XpumDeviceRefresh -------------------------
(***************************************************************************)
(* The XPUM device refresh controller.                                     *)
(*                                                                         *)
(* Requests are node names.  A request comes from an event of a            *)
(* ResourceSlice or of an xpum pod, from RequeueAfter, or from an error;   *)
(* the ClusterPolicy is read and not watched.  One worker takes a node     *)
(* from the queue, reads mode, slices and pods, and adopts or deletes the  *)
(* node's xpum pod.  Its guards - cooldown, attempts, lost devices - live  *)
(* in memory only.                                                         *)
(***************************************************************************)
EXTENDS Naturals, FiniteSets

CONSTANTS
    Nodes, Devices,     \* GPUs are named within their node
    maxConcurrentXpumRestarts,
    maxXpumRestartAttempts,
    Unstable,           \* nodes whose GPUs, claims and pods others disturb
    MayHappen,          \* the moves of the environment this instance allows
    MayFail,            \* the operator's calls that may fail, and "crash"
    MaxFailures,        \* failing calls and operator restarts
    MaxChanges          \* changes of GPUs, modes and pods by others

ASSUME ConstantsAssumption ==
    /\ IsFiniteSet(Nodes) /\ Nodes # {}
    /\ maxConcurrentXpumRestarts \in Nat \ {0}
    /\ maxXpumRestartAttempts \in Nat \ {0}
    /\ MaxFailures \in Nat /\ MaxChanges \in Nat

Modes == {"OnRecoveredDevice", "Always", "Disabled"}

VARIABLES
    \* the cluster
    device,     \* per node and GPU: absent from the slices, usable, unusable
    pod,        \* the xpum pod of each node
    mode,       \* what restartMode makes of the ClusterPolicy
    \* the controller's memory
    queue,      \* requests, pending ones of RequeueAfter included
    cooling,    \* nodes whose lastRestart is less than the cooldown ago
    attempts,   \* restartAttempts
    lost,       \* lostDevices
    \* the pass in progress
    pc, cur,    \* its next call, and its node
    held,       \* the record to write, when it adopts a pod
    why,        \* the devices that made it restart a pod
    reason,     \* recovered or rebind
    same,       \* the pod it has read still exists
    spent       \* failures and changes so far

memoryVars == <<queue, cooling, attempts, lost>>
passVars == <<pc, cur, held, why, reason, same>>
vars == <<device, pod, mode, memoryVars, passVars, spent>>

PodType ==
    [phase : {"none", "pending", "running", "terminating"},
     allocated : SUBSET Devices,    \* the devices of its monitoring claim
     seen : BOOLEAN,                \* the claim's allocation has reached the cache
     adopted : BOOLEAN,             \* xpumDevicesAnnotation is there
     record : SUBSET Devices]       \* and says this

NoPod == [phase |-> "none", allocated |-> {}, seen |-> FALSE, adopted |-> FALSE,
          record |-> {}]

TypeOK ==
    /\ device \in [Nodes -> [Devices -> {"absent", "usable", "unusable"}]]
    /\ pod \in [Nodes -> PodType]
    /\ mode \in Modes
    /\ queue \in SUBSET Nodes /\ cooling \in SUBSET Nodes
    /\ attempts \in [Nodes -> 0 .. maxXpumRestartAttempts]
    /\ lost \in [Nodes -> SUBSET Devices]
    /\ pc \in {"idle", "adopt", "delete"} /\ cur \in Nodes
    /\ held \in SUBSET Devices /\ why \in SUBSET Devices
    /\ reason \in {"none", "recovered", "rebind"} /\ same \in BOOLEAN
    /\ spent \in [failures : Nat, changes : Nat]

(* The pass is at no node.                                                 *)
Nowhere == CHOOSE n \in Nodes : TRUE

(* An operator starts on a running cluster, where an earlier process may   *)
(* have adopted pods; the informers' first lists queue every node.  The    *)
(* GPUs of the nodes outside Unstable are well from the start.             *)
Init ==
    /\ device \in [Nodes -> [Devices -> {"usable", "unusable"}]]
    /\ \A n \in Nodes \ Unstable, d \in Devices : device[n][d] = "usable"
    /\ \E old \in SUBSET Nodes :
          pod = [n \in Nodes |-> [phase |-> "running", seen |-> TRUE, allocated |-> Devices,
                                  adopted |-> n \in old, record |-> {}]]
    /\ mode \in Modes
    /\ queue = Nodes /\ cooling = {}
    /\ attempts = [n \in Nodes |-> 0] /\ lost = [n \in Nodes |-> {}]
    /\ pc = "idle" /\ cur = Nowhere /\ held = {} /\ why = {}
    /\ reason = "none" /\ same = TRUE
    /\ spent = [failures |-> 0, changes |-> 0]

-----------------------------------------------------------------------------
(* Reading.                                                                *)

Fails(k) ==
    /\ k \in MayFail /\ spent.failures < MaxFailures
    /\ spent' = [spent EXCEPT !.failures = @ + 1]

Works == UNCHANGED spent

(* deviceStates: the published GPUs, and those of them that carry no       *)
(* recovery taint and have a driver xpumd can read.                        *)
published(n) == {d \in Devices : device[n][d] # "absent"}
usable(n) == {d \in Devices : device[n][d] = "usable"}

missingDevices(n) == usable(n) \ pod[n].record

(* trackRebinds: what lostDevices becomes, and the held devices that were  *)
(* lost and are usable again.                                              *)
trackLost(n) ==
    lost[n] \cup {d \in pod[n].record : d \in published(n) \ usable(n)}
rebound(n) == pod[n].record \cap lost[n] \cap usable(n)

restartingXpumPods == {n \in Nodes : pod[n].phase \in {"pending", "terminating"}}

EndPass ==
    /\ pc' = "idle" /\ held' = {} /\ why' = {} /\ reason' = "none" /\ same' = TRUE
    /\ cur' = Nowhere

(* The worker takes node n from the queue.                                 *)
Take(n) ==
    /\ pc = "idle" /\ n \in queue

(* Nothing to watch on n, or the feature is off.                           *)
ForgetNode(n) ==
    /\ Take(n)
    /\ mode = "Disabled" \/ published(n) = {}
    /\ queue' = queue \ {n} /\ cooling' = cooling \ {n}
    /\ attempts' = [attempts EXCEPT ![n] = 0]
    /\ lost' = [lost EXCEPT ![n] = {}]
    /\ Works /\ UNCHANGED <<device, pod, mode, passVars>>

Watches(n) == Take(n) /\ mode # "Disabled" /\ published(n) # {}

(* There is no pod to look at, or it is not Running yet.                   *)
NoRunningPod(n) ==
    /\ Watches(n) /\ pod[n].phase # "running"
    /\ queue' = queue \ {n}
    /\ Works /\ UNCHANGED <<device, pod, mode, cooling, attempts, lost, passVars>>

(* The devices adoptPod takes for given: the allocated ones, unless the    *)
(* slices call them unusable.                                              *)
HeldAtAdoption(n) ==
    {d \in pod[n].allocated : d \notin published(n) \/ d \in usable(n)}

(* adoptPod, up to the patch; without an allocation it tries again later.  *)
AdoptPod(n) ==
    /\ Watches(n) /\ pod[n].phase = "running" /\ ~pod[n].adopted
    /\ IF pod[n].seen
       THEN /\ pc' = "adopt" /\ cur' = n /\ held' = HeldAtAdoption(n)
            /\ queue' = queue \ {n} /\ UNCHANGED <<why, reason, same>>
       ELSE UNCHANGED <<queue, passVars>>
    /\ Works /\ UNCHANGED <<device, pod, mode, cooling, attempts, lost>>

Compares(n) == Watches(n) /\ pod[n].phase = "running" /\ pod[n].adopted

(* Why the pod has to be replaced, if it has to.                           *)
Reason(n) ==
    CASE missingDevices(n) # {} -> "recovered"
      [] missingDevices(n) = {} /\ rebound(n) # {} /\ mode = "Always" -> "rebind"
      [] OTHER -> "none"

(* Nothing is missing: the attempts are forgotten, and so is a rebind that *)
(* the mode leaves to xpumd.                                               *)
Converged(n) ==
    /\ Compares(n) /\ Reason(n) = "none"
    /\ queue' = queue \ {n}
    /\ attempts' = [attempts EXCEPT ![n] = 0]
    /\ lost' = [lost EXCEPT ![n] = trackLost(n) \ rebound(n)]
    /\ Works /\ UNCHANGED <<device, pod, mode, cooling, passVars>>

(* restartPod with its attempts used up; a rebind is consumed.             *)
AbandonRestart(n) ==
    /\ Compares(n) /\ Reason(n) # "none"
    /\ attempts[n] >= maxXpumRestartAttempts
    /\ queue' = queue \ {n}
    /\ lost' = [lost EXCEPT ![n] = trackLost(n) \
                                   IF Reason(n) = "rebind" THEN rebound(n) ELSE {}]
    /\ Works /\ UNCHANGED <<device, pod, mode, cooling, attempts, passVars>>

TooSoon(n) ==
    \/ n \in cooling
    \/ Cardinality(restartingXpumPods) >= maxConcurrentXpumRestarts

(* Variant: a deferred restart waits for the next event.                   *)
DeferRestartAsleep(n) ==
    /\ Compares(n) /\ Reason(n) # "none"
    /\ attempts[n] < maxXpumRestartAttempts /\ TooSoon(n)
    /\ queue' = queue \ {n}
    /\ lost' = [lost EXCEPT ![n] = trackLost(n)]
    /\ Works /\ UNCHANGED <<device, pod, mode, cooling, attempts, passVars>>

(* Variant: a deferred restart consumes the rebind.                        *)
DeferRestartCleared(n) ==
    /\ Compares(n) /\ Reason(n) # "none"
    /\ attempts[n] < maxXpumRestartAttempts /\ TooSoon(n)
    /\ lost' = [lost EXCEPT ![n] = trackLost(n) \ rebound(n)]
    /\ Works /\ UNCHANGED <<device, pod, mode, queue, cooling, attempts, passVars>>

(* restartPod in the cooldown or over the cap: RequeueAfter, and the       *)
(* rebind is kept.                                                         *)
DeferRestart(n) ==
    /\ Compares(n) /\ Reason(n) # "none"
    /\ attempts[n] < maxXpumRestartAttempts /\ TooSoon(n)
    /\ lost' = [lost EXCEPT ![n] = trackLost(n)]
    /\ Works /\ UNCHANGED <<device, pod, mode, queue, cooling, attempts, passVars>>

(* Variant: one restart more than the budget.                              *)
RestartPodOnceMore(n) ==
    /\ Compares(n) /\ Reason(n) # "none"
    /\ attempts[n] <= maxXpumRestartAttempts /\ ~TooSoon(n)
    /\ pc' = "delete" /\ cur' = n /\ reason' = Reason(n)
    /\ why' = IF Reason(n) = "rebind" THEN rebound(n) ELSE missingDevices(n)
    /\ queue' = queue \ {n}
    /\ lost' = [lost EXCEPT ![n] = trackLost(n)]
    /\ Works /\ UNCHANGED <<device, pod, mode, cooling, attempts, held, same>>

(* restartPod, up to the delete.                                           *)
RestartPod(n) ==
    /\ Compares(n) /\ Reason(n) # "none"
    /\ attempts[n] < maxXpumRestartAttempts /\ ~TooSoon(n)
    /\ pc' = "delete" /\ cur' = n /\ reason' = Reason(n)
    /\ why' = IF Reason(n) = "rebind" THEN rebound(n) ELSE missingDevices(n)
    /\ queue' = queue \ {n}
    /\ lost' = [lost EXCEPT ![n] = trackLost(n)]
    /\ Works /\ UNCHANGED <<device, pod, mode, cooling, attempts, held, same>>

(* A list fails: the error puts the node back, before or after             *)
(* trackRebinds has run.                                                   *)
ListFails(n) ==
    /\ Take(n) /\ Fails("list")
    /\ \/ UNCHANGED lost
       \/ /\ Compares(n) /\ Reason(n) # "none"
          /\ attempts[n] < maxXpumRestartAttempts /\ n \notin cooling
          /\ lost' = [lost EXCEPT ![n] = trackLost(n)]
    /\ UNCHANGED <<device, pod, mode, queue, cooling, attempts, passVars>>

-----------------------------------------------------------------------------
(* Acting.                                                                 *)

(* The patch of adoptPod reaches the pod that was read; its event queues   *)
(* the node.                                                               *)
PatchDeviceRecord ==
    /\ pc = "adopt" /\ same
    /\ pod' = [pod EXCEPT ![cur].adopted = TRUE, ![cur].record = held]
    /\ queue' = queue \cup {cur}
    /\ EndPass
    /\ Works /\ UNCHANGED <<device, mode, cooling, attempts, lost>>

(* Variant: whatever pod the node has now is deleted.                      *)
DeletePodOfNode ==
    /\ pc = "delete" /\ pod[cur].phase # "none"
    /\ pod' = [pod EXCEPT ![cur].phase = "terminating"]
    /\ queue' = queue \cup {cur} /\ cooling' = cooling \cup {cur}
    /\ attempts' = [attempts EXCEPT ![cur] = @ + 1]
    /\ lost' = [lost EXCEPT ![cur] = @ \ IF reason = "rebind" THEN why ELSE {}]
    /\ EndPass
    /\ Works /\ UNCHANGED <<device, mode>>

(* The delete, by the name of the pod that was read.                       *)
DeletePod ==
    /\ pc = "delete" /\ same
    /\ pod' = [pod EXCEPT ![cur].phase = "terminating"]
    /\ queue' = queue \cup {cur} /\ cooling' = cooling \cup {cur}
    /\ attempts' = [attempts EXCEPT ![cur] = @ + 1]
    /\ lost' = [lost EXCEPT ![cur] = @ \ IF reason = "rebind" THEN why ELSE {}]
    /\ EndPass
    /\ Works /\ UNCHANGED <<device, mode>>

(* The pod is gone, or the call fails: the error puts the node back.       *)
CallFails ==
    /\ pc \in {"adopt", "delete"}
    /\ \/ ~same /\ Works
       \/ Fails("write")
    /\ queue' = queue \cup {cur}
    /\ EndPass
    /\ UNCHANGED <<device, pod, mode, cooling, attempts, lost>>

(* The process ends; the next one starts with empty maps and lists all.    *)
Crash ==
    /\ Fails("crash")
    /\ queue' = Nodes /\ cooling' = {}
    /\ attempts' = [n \in Nodes |-> 0] /\ lost' = [n \in Nodes |-> {}]
    /\ EndPass
    /\ UNCHANGED <<device, pod, mode>>

-----------------------------------------------------------------------------
(* The environment.  Slice and pod events queue their node.                *)

Changes(k) ==
    /\ k \in MayHappen /\ spent.changes < MaxChanges
    /\ spent' = [spent EXCEPT !.changes = @ + 1]

(* A GPU is tainted, recovers, loses or regains its driver, disappears     *)
(* from the slices or appears.                                             *)
DeviceChanges(n) ==
    /\ n \in Unstable /\ Changes("device")
    /\ \E d \in Devices, s \in {"absent", "usable", "unusable"} :
          device[n][d] # s /\ device' = [device EXCEPT ![n][d] = s]
    /\ queue' = queue \cup {n}
    /\ UNCHANGED <<pod, mode, cooling, attempts, lost, passVars>>

(* The ClusterPolicy changes; no event reaches this controller.            *)
SwitchMode ==
    /\ Changes("mode")
    /\ \E m \in Modes \ {mode} : mode' = m
    /\ UNCHANGED <<device, pod, memoryVars, passVars>>

(* Somebody else deletes the pod: a rollout of the DaemonSet, an eviction. *)
PodDeleted(n) ==
    /\ n \in Unstable /\ Changes("pod") /\ pod[n].phase \in {"pending", "running"}
    /\ pod' = [pod EXCEPT ![n].phase = "terminating"]
    /\ queue' = queue \cup {n}
    /\ UNCHANGED <<device, mode, cooling, attempts, lost, passVars>>

PodGone(n) ==
    /\ pod[n].phase = "terminating"
    /\ pod' = [pod EXCEPT ![n] = NoPod]
    /\ same' = (same /\ (pc = "idle" \/ cur # n))
    /\ queue' = queue \cup {n}
    /\ UNCHANGED <<device, mode, cooling, attempts, lost, pc, cur, held, why, reason, spent>>

(* The DaemonSet controller replaces it.                                   *)
PodCreated(n) ==
    /\ pod[n].phase = "none"
    /\ pod' = [pod EXCEPT ![n].phase = "pending"]
    /\ queue' = queue \cup {n}
    /\ UNCHANGED <<device, mode, cooling, attempts, lost, passVars, spent>>

(* Its claim is allocated, with every published GPU of the node, and its   *)
(* container starts.                                                       *)
PodStarts(n) ==
    /\ pod[n].phase = "pending"
    /\ \E seen \in BOOLEAN :
          /\ (n \in Unstable /\ "lag" \in MayHappen) \/ seen
          /\ pod' = [pod EXCEPT ![n].phase = "running", ![n].allocated = published(n),
                                ![n].seen = seen]
    /\ queue' = queue \cup {n}
    /\ UNCHANGED <<device, mode, cooling, attempts, lost, passVars, spent>>

(* The claim's status reaches the cache; claims are not watched.           *)
ClaimSeen(n) ==
    /\ pod[n].phase = "running" /\ ~pod[n].seen
    /\ pod' = [pod EXCEPT ![n].seen = TRUE]
    /\ UNCHANGED <<device, mode, memoryVars, passVars, spent>>

(* xpumRestartCooldown has passed.                                         *)
CooldownEnds(n) ==
    /\ n \in cooling
    /\ cooling' = cooling \ {n}
    /\ UNCHANGED <<device, pod, mode, queue, attempts, lost, passVars, spent>>

-----------------------------------------------------------------------------
Reconcile(n) ==
    \/ ForgetNode(n) \/ NoRunningPod(n) \/ AdoptPod(n) \/ Converged(n)
    \/ AbandonRestart(n) \/ DeferRestart(n) \/ RestartPod(n)

Continue == PatchDeviceRecord \/ DeletePod \/ CallFails

(* What the cluster does by itself.                                        *)
Proceed(n) ==
    PodGone(n) \/ PodCreated(n) \/ PodStarts(n) \/ ClaimSeen(n) \/ CooldownEnds(n)

Next ==
    \/ \E n \in Nodes : Reconcile(n) \/ ListFails(n) \/ Proceed(n)
    \/ \E n \in Nodes : DeviceChanges(n) \/ PodDeleted(n)
    \/ Continue \/ Crash \/ SwitchMode

Spec == Init /\ [][Next]_vars

(* The queue serves every node that stays in it, a pass goes on, time      *)
(* passes, and the cluster terminates, replaces, starts and reports pods.  *)
FairSpec ==
    /\ Spec
    /\ WF_vars(Continue)
    /\ \A n \in Nodes : SF_vars(Reconcile(n))
    /\ \A n \in Nodes : WF_vars(Proceed(n))

-----------------------------------------------------------------------------
(* Properties.                                                             *)

(* The pod that is deleted is the one that was compared: it is adopted and *)
(* its own record lacks the recovered device, or holds the re-enumerated   *)
(* one, also when the pod was replaced between the comparison and the      *)
(* delete.                                                                 *)
DeletesThePodItRead ==
    [][(DeletePod /\ pod[cur].phase # "terminating") =>
          /\ pod[cur].adopted /\ why # {}
          /\ reason = "recovered" => why \cap pod[cur].record = {}
          /\ reason = "rebind" => why \subseteq pod[cur].record]_vars

(* A usable GPU of a queued node ends up in the record of a running pod,   *)
(* or the node's attempts are used up - through adoption, cooldown, cap,   *)
(* lagging claims, lost calls and restarts of the operator, with no wake-up*)
(* but the events the code subscribes to and the requeues it asks for.     *)
MonitoredOrGivenUp ==
    \A n \in Nodes, d \in Devices :
        (n \in queue /\ mode # "Disabled" /\ device[n][d] = "usable")
            ~> \/ pod[n].phase = "running" /\ pod[n].adopted /\ d \in pod[n].record
               \/ attempts[n] = maxXpumRestartAttempts
               \/ mode = "Disabled" \/ device[n][d] # "usable"

(* Under Always, a held GPU that was lost and is back gets its pod         *)
(* replaced even if cooldown or cap push the restart to a later pass:      *)
(* deferring keeps the edge.  A process that dies forgets it, so the       *)
(* property is about the time after the last failure.                      *)
RebindIsActedOn ==
    \A n \in Unstable, d \in Devices :
        (/\ n \in queue /\ mode = "Always" /\ spent.failures = MaxFailures
         /\ device[n][d] = "usable" /\ d \in lost[n]
         /\ pod[n].phase = "running" /\ pod[n].adopted /\ d \in pod[n].record)
            ~> \/ pod[n].phase # "running"
               \/ attempts[n] = maxXpumRestartAttempts
               \/ mode # "Always" \/ device[n][d] # "usable"
=============================================================================
