---------------------------- MODULE RecoveryPlan ----------------------------
(***************************************************************************)
(* The GPURecoveryPlan controller.                                         *)
(*                                                                         *)
(* One worker (MaxConcurrentReconciles is 1) runs reconcile passes.  A     *)
(* pass reads one plan, works on that copy in memory, and at its end       *)
(* writes the copy's status and then its approvals back.  Between any two  *)
(* steps of a pass the rest of the cluster moves: GPUs fault and heal,     *)
(* Jobs end, workloads come and go, admins edit the plan, the operator's   *)
(* process dies.                                                           *)
(*                                                                         *)
(* status[d], the persisted entry of status.events for GPU d, and          *)
(* events[d], the pass's copy of it, have the same type; a GPU without an  *)
(* event has an entry in state "none".  An event's ID is                   *)
(* <<d, event.idType>>, as generateEventID builds it from node, address    *)
(* and type, and its current Job is named <<d, idType, Len(pastJobs)>>.    *)
(* evt.JobName is that name exactly while the event is in-progress, so it  *)
(* is not a field of its own.                                              *)
(***************************************************************************)
EXTENDS Naturals, Sequences, FiniteSets

CONSTANTS
    Plans, Nodes, Devices,
    NodeOf,             \* the node a GPU sits in
    PlanOf,             \* the plan whose spec.deviceId is the GPU's
    Approvals,          \* positions in spec.approvals, the order of matching
    Grant,              \* what each approval says
    DefaultResetType,   \* spec.defaultResetType
    InitialDrain,       \* plans created with drain.enable
    InitialFirmware,    \* plans created with spec.firmware
    MaxStatusEvents,
    SkipImageVerification,
    OpenShift,
    MayHappen,          \* the moves of the environment this instance allows
    MayFail,            \* the operator's calls that may fail, and "crash"
    MayTaint,           \* the taints each GPU may be given
    MaxFaults,          \* how many times each GPU is given one
    MaxFailures,        \* failing calls and operator restarts
    MaxEdits,           \* admin edits other than to approvals
    MaxAttempts         \* a Job of a later attempt does not fail

ResetTypes == {"sbr", "slot", "amc"}

RecoveryTypes == ResetTypes \cup {"reflash"}

TaintKeys == {"wedged", "survivability"}

EventStates == {"waiting-approval", "blocked", "draining", "in-progress",
                "missing-firmware", "succeeded", "failed"}

NoApproval == 0

EventIds == Devices \X RecoveryTypes

JobNames == Devices \X RecoveryTypes \X Nat

(* An approval names one event, or selects by type and node; "names" is    *)
(* empty for a selector, "types" is empty for an approval of one event.    *)
GrantType ==
    [plan : Plans, names : SUBSET EventIds, types : SUBSET RecoveryTypes,
     nodes : SUBSET Nodes, override : RecoveryTypes \cup {"none"},
     persistent : BOOLEAN]

ASSUME ConstantsAssumption ==
    /\ IsFiniteSet(Devices)
    /\ NodeOf \in [Devices -> Nodes]
    /\ PlanOf \in [Devices -> Plans]
    /\ IsFiniteSet(Approvals) /\ Approvals \subseteq Nat \ {NoApproval}
    /\ Grant \in [Approvals -> GrantType]
    /\ \A a \in Approvals : Grant[a].names = {} \/ Grant[a].types = {}
    /\ DefaultResetType \in ResetTypes
    /\ InitialDrain \subseteq Plans /\ InitialFirmware \subseteq Plans
    /\ MaxStatusEvents \in Nat
    /\ SkipImageVerification \in BOOLEAN /\ OpenShift \in BOOLEAN
    /\ MayTaint \in [Devices -> SUBSET TaintKeys]
    /\ MaxFaults \in [Devices -> Nat]
    /\ MaxFailures \in Nat /\ MaxEdits \in Nat /\ MaxAttempts \in Nat

VARIABLES
    \* the cluster
    taints,     \* device taints the DRA driver publishes in ResourceSlices
    faults,     \* how many taints each GPU has been given
    jobs,       \* the recovery Jobs that exist, by name
    nodeTaint,  \* <<p, n>>: node n carries the drain taint of plan p
    work,       \* evictable workload of a node: none, running, terminating
    claims,     \* GPUs a workload's ResourceClaim reserves
    expired,    \* GPUs whose event has outlived its drain or Job deadline
    \* the plan objects
    plan,       \* live, deleting or gone; and the finalizer
    spec,       \* approvals, firmware, drain.enable, metadata.generation
    status,     \* status.events
    \* the pass in progress
    pc, cur,    \* its next step, and its plan
    events,     \* the working copy of status.events
    snap,       \* the spec it read
    todo,       \* events the current loop has still to visit
    used,       \* consumedIDs, then the approvals the pass marked consumed
    kept,       \* blockedIDs
    pruned,     \* approvals pruneConsumedApprovals dropped
    spent       \* failures and edits so far

clusterVars == <<taints, faults, jobs, nodeTaint, work, claims, expired>>
planVars == <<plan, spec, status>>
loopVars == <<todo, used, kept, pruned>>
passVars == <<pc, cur, events, snap, loopVars>>
vars == <<clusterVars, planVars, passVars, spent>>

-----------------------------------------------------------------------------
(* Types and initial state.                                                *)

Event ==
    [state : EventStates \cup {"none"},
     idType : RecoveryTypes,      \* the type the event's ID embeds
     type : RecoveryTypes,        \* recoveryType.type, after any override
     approval : Approvals \cup {NoApproval},
     heldAt : Nat,                \* imageVerifyGeneration
     pastJobs : Seq(JobNames),
     fault : Nat,                 \* ghost: the fault it was raised for
     rank : Nat]                  \* its place in the list status.events

Job ==
    [state : {"running", "complete", "failed"},
     type : RecoveryTypes,
     late : BOOLEAN,              \* past its deadline and the grace period
     approval : Approvals \cup {NoApproval},  \* ghost: who let it start
     drained : BOOLEAN,           \* ghost: created by processDrains
     fault : Nat]                 \* ghost: the fault it was created for

PlanType == [phase : {"live", "deleting", "gone"}, finalizer : BOOLEAN]

SpecType ==
    [approvals : [Approvals -> {"unused", "active", "consumed", "gone"}],
     firmware : [Plans -> BOOLEAN],
     drain : [Plans -> BOOLEAN],
     generation : [Plans -> Nat]]

NoEvent ==
    [state |-> "none", idType |-> "reflash", type |-> "reflash",
     approval |-> NoApproval, heldAt |-> 0, pastJobs |-> <<>>,
     fault |-> 0, rank |-> 0]

NoEvents == [d \in Devices |-> NoEvent]

InitialSpec ==
    [approvals |-> [a \in Approvals |-> "unused"],
     firmware |-> [p \in Plans |-> p \in InitialFirmware],
     drain |-> [p \in Plans |-> p \in InitialDrain],
     generation |-> [p \in Plans |-> 1]]

Init ==
    /\ taints = [d \in Devices |-> {}]
    /\ faults = [d \in Devices |-> 0]
    /\ jobs = [n \in {} |-> NoEvent]
    /\ nodeTaint = {}
    /\ work = [n \in Nodes |-> "none"]
    /\ claims = {}
    /\ expired = {}
    /\ plan = [p \in Plans |-> [phase |-> "live", finalizer |-> FALSE]]
    /\ spec = InitialSpec
    /\ status = NoEvents
    /\ pc = "idle"
    /\ cur \in Plans
    /\ events = NoEvents
    /\ snap = InitialSpec
    /\ todo = {} /\ used = {} /\ kept = {} /\ pruned = {}
    /\ spent = [failures |-> 0, edits |-> 0]

-----------------------------------------------------------------------------
(* Helpers.                                                                *)

DevicesOf(p) == {d \in Devices : PlanOf[d] = p}

Present == {d \in Devices : events[d].state # "none"}

(* recoveryTypePriority *)
Priority(type) == IF type = "reflash" THEN 2 ELSE 1

(* Variant: no default reset type. *)
DeviceNeedUnset(d) == IF "survivability" \in taints[d] THEN "reflash" ELSE ""

(* taintToDeviceNeed over all of a GPU's taints, with higherPriorityNeed *)
DeviceNeed(d) ==
    IF "survivability" \in taints[d] THEN "reflash" ELSE DefaultResetType

(* States in which an event owns its node. *)
Active == {"draining", "in-progress"}

NeedsDrain(e) == snap.drain[cur] /\ e.type # "reflash"

(* Variant: a draining event does not own its node. *)
NodeBusyWithJob(d) ==
    \E o \in Devices \ {d} : /\ NodeOf[o] = NodeOf[d]
                             /\ events[o].state = "in-progress"

NodeBusyWith(d) ==
    \E o \in Devices \ {d} : /\ NodeOf[o] = NodeOf[d]
                             /\ events[o].state \in Active

RecoveryJobName(d, e) == <<d, e.idType, Len(e.pastJobs)>>

(* Jobs without those in S. *)
JobsWithout(S) == [n \in DOMAIN jobs \ S |-> jobs[n]]

PastJobs(e) == {e.pastJobs[i] : i \in DOMAIN e.pastJobs}

(* Variant: past Jobs are left behind. *)
CurrentEventJob(d, e) ==
    IF e.state = "in-progress" THEN {RecoveryJobName(d, e)} ELSE {}

(* What deleteEventJobs deletes. *)
EventJobs(d, e) ==
    PastJobs(e) \cup IF e.state = "in-progress" THEN {RecoveryJobName(d, e)}
                                                ELSE {}

(* What the kinds in K name fails in this step. *)
Refused(K) ==
    IF K = {} THEN UNCHANGED spent
    ELSE /\ K \subseteq MayFail
         /\ spent.failures < MaxFailures
         /\ spent' = [spent EXCEPT !.failures = @ + 1]

(* The best-effort call k fails on the objects in S. *)
OnSome(k, S) == IF S = {} THEN {} ELSE {k}

(* A write to plan p's spec bumps metadata.generation. *)
Bumped(s, p) == [s EXCEPT !.generation[p] = @ + 1]

EndPass ==
    /\ pc' = "idle"
    /\ events' = NoEvents /\ snap' = InitialSpec
    /\ todo' = {} /\ used' = {} /\ kept' = {} /\ pruned' = {}
    /\ UNCHANGED cur

-----------------------------------------------------------------------------
(* The start of a pass, and handleFinalizer.                               *)

(* Reconcile of a live plan that carries the finalizer. *)
Reconcile(p) ==
    /\ pc = "idle"
    /\ plan[p].phase = "live" /\ plan[p].finalizer
    /\ pc' = "detect"
    /\ cur' = p
    /\ events' = [d \in Devices |-> IF PlanOf[d] = p THEN status[d]
                                                     ELSE NoEvent]
    /\ snap' = spec
    /\ UNCHANGED <<clusterVars, planVars, loopVars, spent>>

(* Reconcile of a live plan that does not: the pass ends with the Update. *)
AddFinalizer(p) ==
    /\ pc = "idle"
    /\ plan[p].phase = "live" /\ ~plan[p].finalizer
    /\ \/ /\ plan' = [plan EXCEPT ![p].finalizer = TRUE]
          /\ UNCHANGED spent
       \/ Refused({"finalizer"}) /\ UNCHANGED plan
    /\ UNCHANGED <<clusterVars, spec, status, passVars>>

JobsOf(p) == {n \in DOMAIN jobs : PlanOf[n[1]] = p}

(* Variant: only the nodes of events on record are looked at. *)
TaintsOnRecord(p) ==
    {t \in nodeTaint : /\ t[1] = p
                       /\ \E d \in DevicesOf(p) : /\ NodeOf[d] = t[2]
                                                  /\ status[d].state # "none"}

(* Variant: nodes that recoveries still want are passed over. *)
IdleTaints(p) ==
    {t \in nodeTaint : /\ t[1] = p
                       /\ \A d \in DevicesOf(p) : \/ NodeOf[d] # t[2]
                                                  \/ status[d].state \notin Active}

(* The taints that carry plan p's name, found by listing the nodes. *)
NodesWithTaint(p) == {t \in nodeTaint : t[1] = p}

(* Variants: no Job is waited for, or ended ones are too. *)
NoRecoveryJobs(p) == {}
AllRecoveryJobs(p) == JobsOf(p)

RunningRecoveryJobs(p) == {n \in JobsOf(p) : jobs[n].state = "running"}

(* Reconcile of a plan being deleted, once none of its Jobs is running.    *)
(* Deleting Jobs and taints is best effort; the finalizer goes regardless. *)
FinalizeDeletion(p) ==
    /\ pc = "idle"
    /\ plan[p].phase = "deleting"
    /\ RunningRecoveryJobs(p) = {}
    /\ \E lost \in SUBSET JobsOf(p),
          stuck \in SUBSET NodesWithTaint(p),
          removed \in BOOLEAN :
         /\ jobs' = JobsWithout(JobsOf(p) \ lost)
         /\ nodeTaint' = (nodeTaint \ NodesWithTaint(p)) \cup stuck
         /\ Refused(OnSome("delete", lost) \cup OnSome("untaint", stuck)
                      \cup IF removed THEN {} ELSE {"finalizer"})
         /\ IF removed
            THEN /\ plan' = [plan EXCEPT ![p] = [phase |-> "gone",
                                                 finalizer |-> FALSE]]
                 /\ status' = [d \in Devices |->
                                 IF PlanOf[d] = p THEN NoEvent ELSE status[d]]
            ELSE UNCHANGED <<plan, status>>
    /\ UNCHANGED <<taints, faults, work, claims, expired, spec, passVars>>

-----------------------------------------------------------------------------
(* syncRecoveryEventsFromSlices.                                           *)

(* addRecoveryEvent *)
AddRecoveryEvent(d) ==
    [NoEvent EXCEPT !.state = "waiting-approval", !.idType = DeviceNeed(d),
                    !.type = DeviceNeed(d), !.fault = faults[d]]

(* Variant: an escalated event keeps its state and approval. *)
EscalateInPlace(d, e) ==
    IF \/ taints[d] = {}
       \/ Priority(DeviceNeed(d)) <= Priority(e.type)
       \/ e.state = "in-progress"
    THEN e ELSE [e EXCEPT !.idType = DeviceNeed(d), !.type = DeviceNeed(d)]

(* Variant: a recovery in progress is escalated, too. *)
EscalateAtOnce(d, e) ==
    IF taints[d] = {} \/ Priority(DeviceNeed(d)) <= Priority(e.type) THEN e
    ELSE [e EXCEPT !.state = "waiting-approval", !.idType = DeviceNeed(d),
                   !.type = DeviceNeed(d), !.approval = NoApproval,
                   !.heldAt = 0]

(* escalateEvent: a new ID and type, back to waiting for an approval. *)
EscalateEvent(d, e) ==
    IF \/ taints[d] = {}
       \/ Priority(DeviceNeed(d)) <= Priority(e.type)
       \/ e.state = "in-progress"
    THEN e
    ELSE [e EXCEPT !.state = "waiting-approval", !.idType = DeviceNeed(d),
                   !.type = DeviceNeed(d), !.approval = NoApproval,
                   !.heldAt = 0]

(* GPUs of the plan that carry a recovery taint (activeKeys). *)
ActiveKeys == {d \in DevicesOf(cur) : taints[d] # {}}

(* The events removeResolvedEvents drops. *)
Resolved == {d \in Present \ ActiveKeys : events[d].state # "in-progress"}

(* Places in the list: events kept stay in order, new ones follow in the   *)
(* order of Go's map iteration, which is any.                              *)
ListOrder(rank, old, new) ==
    /\ \A d \in old \cup new : rank[d] <= Cardinality(old \cup new)
    /\ \A d, o \in old \cup new : d # o => rank[d] # rank[o]
    /\ \A d \in old, o \in new : rank[d] < rank[o]
    /\ \A d, o \in old : events[d].rank < events[o].rank => rank[d] < rank[o]

SyncRecoveryEventsFromSlices ==
    /\ pc = "detect"
    /\ LET retained == Present \ Resolved
           fresh == ActiveKeys \ Present
           doomed == UNION {EventJobs(d, events[d]) : d \in Resolved}
       IN \E lost \in SUBSET (doomed \cap DOMAIN jobs),
             added \in SUBSET fresh,
             rank \in [Devices -> 1..Cardinality(Devices)] :
            /\ added # {} => Cardinality(retained \cup added) <= MaxStatusEvents
            /\ \/ added = fresh
               \/ Cardinality(retained \cup added) >= MaxStatusEvents
            /\ ListOrder(rank, retained, added)
            /\ Refused(OnSome("delete", lost))
            /\ jobs' = JobsWithout(doomed \ lost)
            /\ events' =
                 [d \in Devices |->
                    CASE d \in added ->
                           [AddRecoveryEvent(d) EXCEPT !.rank = rank[d]]
                      [] d \in retained ->
                           [EscalateEvent(d, events[d]) EXCEPT !.rank = rank[d]]
                      [] OTHER -> NoEvent]
            /\ todo' = retained \cup added
    /\ pc' = IF OpenShift THEN "openshift" ELSE "approve"
    /\ UNCHANGED <<taints, faults, nodeTaint, work, claims, expired, planVars,
                   cur, snap, used, kept, pruned>>

(* Listing the ResourceSlices fails: the pass ends with nothing to persist. *)
ListingSlicesFails ==
    /\ pc = "detect"
    /\ Refused({"slices"})
    /\ EndPass
    /\ UNCHANGED <<clusterVars, planVars>>

(* ensureOpenShiftResources; an error skips to the deferred persistPlan. *)
EnsureOpenShiftResources ==
    /\ pc = "openshift"
    /\ \/ pc' = "approve" /\ UNCHANGED <<spent, todo>>
       \/ Refused({"openshift"}) /\ pc' = "status" /\ todo' = {}
    /\ UNCHANGED <<clusterVars, planVars, cur, events, snap, used, kept, pruned>>

-----------------------------------------------------------------------------
(* processApprovals, one step for each event of the list.                  *)

Unconsumed(a) == Grant[a].plan = cur /\ snap.approvals[a] = "active"

(* findExplicitApprovalForEvent *)
ExplicitApprovals(d, e) ==
    {a \in Approvals : Unconsumed(a) /\ <<d, e.idType>> \in Grant[a].names}

(* The entries findMatchingApproval looks for: they name the event, or     *)
(* their selector has the event's present type and its node.               *)
MatchingApprovals(d, e) ==
    {a \in Approvals :
        /\ Unconsumed(a)
        /\ \/ <<d, e.idType>> \in Grant[a].names
           \/ e.type \in Grant[a].types /\ NodeOf[d] \in Grant[a].nodes}

IsFirst(a, S) == a \in S /\ \A b \in S : a <= b

(* Variants: a failed event starts like any other, a blocked one never. *)
StartableOnceMore(d, e) ==
    e.state \in {"waiting-approval", "blocked", "missing-firmware", "failed"}

StartableAfresh(d, e) ==
    \/ e.state \in {"waiting-approval", "missing-firmware"}
    \/ e.state = "failed" /\ ExplicitApprovals(d, e) # {}

(* States from which an approval starts a recovery; a failed event leaves  *)
(* that state only for an approval naming it.                              *)
Startable(d, e) ==
    \/ e.state \in {"waiting-approval", "blocked", "missing-firmware"}
    \/ e.state = "failed" /\ ExplicitApprovals(d, e) # {}

(* applyOverride *)
ApplyOverride(e, override) ==
    IF e.type = "reflash" \/ override \in {"none", "reflash"}
    THEN e ELSE [e EXCEPT !.type = override]

(* The event as approval a leaves it before any further check. *)
Matched(e, a) ==
    LET state == IF e.state = "failed" THEN "waiting-approval" ELSE e.state
    IN ApplyOverride([e EXCEPT !.state = state, !.approval = a],
                     Grant[a].override)

(* The loop reaches d: it is the first event not yet visited. *)
Visits(d) == d \in todo /\ \A o \in todo : events[d].rank <= events[o].rank

Visiting(d) ==
    /\ pc = "approve" /\ Visits(d)
    /\ todo' = todo \ {d}
    /\ UNCHANGED <<taints, faults, nodeTaint, work, claims, planVars,
                   pc, cur, snap, pruned>>

(* Approval a is the one that starts d's recovery in this pass.  A         *)
(* selector does not match a node whose labels cannot be read.             *)
Authorises(a, d) ==
    /\ Startable(d, events[d])
    /\ \/ IsFirst(a, MatchingApprovals(d, events[d]))
       \/ "labels" \in MayFail /\ IsFirst(a, ExplicitApprovals(d, events[d]))

(* No approval: the event stays as it is. *)
NotApproved(d) ==
    /\ Visiting(d)
    /\ \/ /\ \/ ~Startable(d, events[d])
             \/ MatchingApprovals(d, events[d]) = {}
          /\ UNCHANGED spent
       \/ /\ ExplicitApprovals(d, events[d]) = {}
          /\ Refused({"labels"})
    /\ UNCHANGED <<jobs, expired, events, used, kept>>

(* nodeBusyWith and blockEvent *)
BlockEvent(d, a) ==
    /\ Visiting(d) /\ Authorises(a, d)
    /\ NodeBusyWith(d)
    /\ events' = [events EXCEPT ![d] = [Matched(events[d], a)
                                          EXCEPT !.state = "blocked"]]
    /\ kept' = kept \cup {a}
    /\ UNCHANGED <<jobs, expired, used, spent>>

HeldAtThisGeneration(e) == e.heldAt # 0 /\ e.heldAt = snap.generation[cur]

(* ensureImagesUsable says no: verified before at this generation, or the  *)
(* registry says so now and holdForImageFix parks the event.               *)
HoldForImageFix(d, a) ==
    /\ Visiting(d) /\ Authorises(a, d)
    /\ ~NodeBusyWith(d)
    /\ ~SkipImageVerification
    /\ LET e == Matched(events[d], a)
       IN \/ /\ HeldAtThisGeneration(e)
             /\ events' = [events EXCEPT ![d] = e]
             /\ UNCHANGED spent
          \/ /\ ~HeldAtThisGeneration(e)
             /\ Refused({"image"})
             /\ events' = [events EXCEPT ![d] =
                             [e EXCEPT !.state = "waiting-approval",
                                       !.heldAt = snap.generation[cur]]]
    /\ UNCHANGED <<jobs, expired, used, kept>>

(* The images verify and nothing else runs on the node; e is the event as  *)
(* the recovery starts from it.                                            *)
Starting(d, a) ==
    /\ Visiting(d) /\ Authorises(a, d)
    /\ ~NodeBusyWith(d)
    /\ SkipImageVerification \/ ~HeldAtThisGeneration(events[d])

Verified(e, a) ==
    IF SkipImageVerification THEN Matched(e, a)
    ELSE [Matched(e, a) EXCEPT !.heldAt = 0]

Consuming(a) == used' = IF Grant[a].persistent THEN used ELSE used \cup {a}

BeginDrain(d, a) ==
    /\ Starting(d, a)
    /\ LET e == Verified(events[d], a)
       IN /\ NeedsDrain(e)
          /\ events' = [events EXCEPT ![d] = [e EXCEPT !.state = "draining"]]
    /\ expired' = expired \ {d}
    /\ Consuming(a)
    /\ UNCHANGED <<jobs, kept, spent>>

(* Create; a Job of that name that exists already is adopted as it is. *)
CreateOrAdopt(d, e, drained) ==
    LET name == RecoveryJobName(d, e)
        job == [state |-> "running", type |-> e.type, late |-> FALSE,
                approval |-> e.approval, drained |-> drained,
                fault |-> e.fault]
    IN jobs' = IF name \in DOMAIN jobs THEN jobs
               ELSE [n \in DOMAIN jobs \cup {name} |->
                       IF n = name THEN job ELSE jobs[n]]

(* createRecoveryJob for an event that needs no drain. *)
CreateRecoveryJob(d, a) ==
    /\ Starting(d, a)
    /\ LET e == Verified(events[d], a)
       IN /\ ~NeedsDrain(e)
          /\ e.type = "reflash" => snap.firmware[cur]
          /\ CreateOrAdopt(d, e, FALSE)
          /\ events' = [events EXCEPT ![d] = [e EXCEPT !.state = "in-progress"]]
    /\ expired' = expired \ {d}
    /\ Consuming(a)
    /\ UNCHANGED <<kept, spent>>

CreateRecoveryJobFails(d, a) ==
    /\ Starting(d, a)
    /\ LET e == Verified(events[d], a)
       IN /\ ~NeedsDrain(e)
          /\ e.type = "reflash" => snap.firmware[cur]
          /\ Refused({"create"})
          /\ events' = [events EXCEPT ![d] = e]
    /\ UNCHANGED <<jobs, expired, used, kept>>

ParkForFirmware(d, a) ==
    /\ Starting(d, a)
    /\ LET e == Verified(events[d], a)
       IN /\ e.type = "reflash" /\ ~snap.firmware[cur]
          /\ events' = [events EXCEPT ![d] =
                          [e EXCEPT !.state = "missing-firmware"]]
    /\ UNCHANGED <<jobs, expired, used, kept, spent>>

(* Variant: blocked events do not count. *)
UsedIDs == used

(* An approval that still has a blocked event is not consumed. *)
ConsumedIDs == used \ kept

(* The end of the loop; processDrains visits the draining events next. *)
SetApprovalsConsumed ==
    /\ pc = "approve" /\ todo = {}
    /\ pc' = "drain"
    /\ used' = ConsumedIDs
    /\ kept' = {}
    /\ todo' = {d \in Devices : events[d].state = "draining"}
    /\ UNCHANGED <<clusterVars, planVars, cur, events, snap, pruned, spent>>

-----------------------------------------------------------------------------
(* processDrains, one step for each draining event.                        *)

(* Variant: no deadline. *)
NeverStalled(d) == UNCHANGED <<events, jobs, expired>>

(* One pass of the drain that ends without a Job: the event fails once it  *)
(* has been draining for too long.                                         *)
Stalled(d) ==
    /\ events' = IF d \in expired
                 THEN [events EXCEPT ![d].state = "failed"] ELSE events
    /\ UNCHANGED <<jobs, expired>>

(* A workload is asked to leave; a PodDisruptionBudget may say not yet. *)
EvictPods(n) ==
    \/ work' = [work EXCEPT ![n] = IF @ = "none" THEN @ ELSE "terminating"]
    \/ work[n] = "running" /\ "eviction" \in MayHappen /\ UNCHANGED work

Draining(d) ==
    /\ pc = "drain" /\ Visits(d)
    /\ todo' = todo \ {d}
    /\ UNCHANGED <<taints, faults, claims, planVars, pc, cur, snap,
                   used, kept, pruned>>

TaintNode(n) == nodeTaint' = nodeTaint \cup {<<cur, n>>}

Drained(d) == work[NodeOf[d]] = "none" /\ d \notin claims

(* drainNodeForEvent finds pods or claims in the way. *)
DrainWaits(d) ==
    /\ Draining(d)
    /\ TaintNode(NodeOf[d])
    /\ ~Drained(d)
    /\ EvictPods(NodeOf[d])
    /\ Stalled(d)
    /\ UNCHANGED spent

(* drainNodeForEvent returns an error, before or after it set the taint. *)
DrainFails(d) ==
    /\ Draining(d)
    /\ Refused({"drain"})
    /\ \/ UNCHANGED <<nodeTaint, work>>
       \/ TaintNode(NodeOf[d]) /\ EvictPods(NodeOf[d])
    /\ Stalled(d)

(* The node is clear, and the Job is created or cannot be. *)
DrainCompletes(d) ==
    /\ Draining(d)
    /\ TaintNode(NodeOf[d])
    /\ Drained(d)
    /\ \/ /\ CreateOrAdopt(d, events[d], TRUE)
          /\ events' = [events EXCEPT ![d].state = "in-progress"]
          /\ expired' = expired \ {d}
          /\ UNCHANGED spent
       \/ Refused({"create"}) /\ Stalled(d)
    /\ UNCHANGED work

EndDrains ==
    /\ pc = "drain" /\ todo = {}
    /\ pc' = "sync"
    /\ UNCHANGED <<clusterVars, planVars, cur, events, snap, loopVars, spent>>

-----------------------------------------------------------------------------
(* syncJobStatuses.                                                        *)

(* applyJobVerdict and failEventJob *)
Verdict(d, e, state) ==
    [e EXCEPT !.state = state,
              !.pastJobs = Append(@, RecoveryJobName(d, e))]

(* Variant: a Job that does not exist is waited for. *)
JobStatusWhenFound(d, e) ==
    LET name == RecoveryJobName(d, e)
    IN CASE name \notin DOMAIN jobs -> e
         [] name \in DOMAIN jobs /\ jobs[name].state = "complete" ->
              Verdict(d, e, "succeeded")
         [] OTHER -> IF jobs[name].state = "failed" \/ jobs[name].late
                     THEN Verdict(d, e, "failed") ELSE e

JobStatus(d, e) ==
    LET name == RecoveryJobName(d, e)
    IN CASE name \notin DOMAIN jobs ->
              IF d \in expired THEN Verdict(d, e, "failed") ELSE e
         [] name \in DOMAIN jobs /\ jobs[name].state = "complete" ->
              Verdict(d, e, "succeeded")
         [] name \in DOMAIN jobs /\ jobs[name].state = "failed" ->
              Verdict(d, e, "failed")
         [] OTHER ->
              IF jobs[name].late THEN Verdict(d, e, "failed") ELSE e

SyncJobStatuses ==
    /\ pc = "sync"
    /\ \E unread \in SUBSET {d \in Devices : events[d].state = "in-progress"} :
         /\ Refused(OnSome("read", unread))
         /\ events' = [d \in Devices |->
                         IF events[d].state = "in-progress" /\ d \notin unread
                         THEN JobStatus(d, events[d]) ELSE events[d]]
    /\ pc' = "finish"
    /\ UNCHANGED <<clusterVars, planVars, cur, snap, loopVars>>

-----------------------------------------------------------------------------
(* The rest of the pass: pruneConsumedApprovals, reconcileDrainTaints and  *)
(* persistPlan.                                                            *)

(* Consumed one-shot approvals that no event refers to. *)
PruneConsumedApprovals ==
    {a \in Approvals :
        /\ Grant[a].plan = cur /\ ~Grant[a].persistent
        /\ a \in used \/ snap.approvals[a] = "consumed"
        /\ \A d \in Devices : events[d].approval # a}

(* Variants: spec.drain is looked at again, or failed events count. *)
NodesToDrain ==
    {NodeOf[d] : d \in {o \in Devices :
        /\ events[o].state \in Active \cup {"blocked"}
        /\ NeedsDrain(events[o])}}

NodesOfOpenEvents ==
    {NodeOf[d] : d \in {o \in Devices :
        events[o].state \in Active \cup {"blocked", "failed"}}}

(* The nodes whose drain taint reconcileDrainTaints keeps. *)
WantedNodes ==
    {NodeOf[d] : d \in {o \in Devices :
        \/ events[o].state \in Active
        \/ events[o].state = "blocked" /\ NeedsDrain(events[o])}}

ReconcileDrainTaints ==
    /\ pc = "finish"
    /\ pruned' = PruneConsumedApprovals
    /\ LET unwanted == {t \in NodesWithTaint(cur) : t[2] \notin WantedNodes}
       IN \E stuck \in SUBSET unwanted :
            /\ Refused(OnSome("untaint", stuck))
            /\ nodeTaint' = (nodeTaint \ unwanted) \cup stuck
    /\ pc' = "status"
    /\ UNCHANGED <<taints, faults, jobs, work, claims, expired, planVars,
                   cur, events, snap, todo, used, kept>>

(* The status write; its failure does not keep the spec write from being   *)
(* attempted.                                                              *)
PersistStatus ==
    /\ pc = "status"
    /\ pc' = "spec"
    /\ \/ /\ status' = [d \in Devices |-> IF PlanOf[d] = cur THEN events[d]
                                                             ELSE status[d]]
          /\ UNCHANGED spent
       \/ /\ \E d \in DevicesOf(cur) : events[d] # status[d]
          /\ Refused({"status"})
          /\ UNCHANGED status
    /\ UNCHANGED <<clusterVars, plan, spec, cur, events, snap, loopVars>>

(* Variant: nothing is marked consumed. *)
ApplyPruning(approvals) ==
    [a \in Approvals |->
        IF a \in pruned /\ approvals[a] \in {"active", "consumed"}
        THEN "gone" ELSE approvals[a]]

(* approvalChanges.apply on the approvals the API server holds by now. *)
Apply(approvals) ==
    [a \in Approvals |->
        CASE a \in pruned /\ approvals[a] \in {"active", "consumed"} -> "gone"
          [] a \in used \ pruned /\ approvals[a] = "active" -> "consumed"
          [] OTHER -> approvals[a]]

PersistApprovals ==
    /\ pc = "spec"
    /\ LET approvals == Apply(spec.approvals)
       IN \/ /\ spec' = IF approvals = spec.approvals THEN spec
                        ELSE Bumped([spec EXCEPT !.approvals = approvals], cur)
             /\ UNCHANGED spent
          \/ /\ approvals # spec.approvals
             /\ Refused({"spec"})
             /\ UNCHANGED spec
    /\ EndPass
    /\ UNCHANGED <<clusterVars, plan, status>>

(* The operator's process dies: what the pass has not written is lost. *)
Crash ==
    /\ pc # "idle"
    /\ Refused({"crash"})
    /\ EndPass
    /\ UNCHANGED <<clusterVars, planVars>>

-----------------------------------------------------------------------------
(* The DRA driver: device taints.                                          *)

TaintDevice(d, k) ==
    /\ k \in MayTaint[d] \ taints[d]
    /\ faults[d] < MaxFaults[d]
    /\ taints' = [taints EXCEPT ![d] = @ \cup {k}]
    /\ faults' = [faults EXCEPT ![d] = @ + 1]
    /\ UNCHANGED <<jobs, nodeTaint, work, claims, expired, planVars, passVars,
                   spent>>

UntaintDevice(d, k) ==
    /\ "heal" \in MayHappen
    /\ k \in taints[d]
    /\ taints' = [taints EXCEPT ![d] = @ \ {k}]
    /\ UNCHANGED <<faults, jobs, nodeTaint, work, claims, expired, planVars,
                   passVars, spent>>

(* The admin.  Each approval is added once, anywhere in the list.          *)

SetApproval(a, from, to) ==
    /\ plan[Grant[a].plan].phase = "live"
    /\ spec.approvals[a] \in from
    /\ spec' = Bumped([spec EXCEPT !.approvals[a] = to], Grant[a].plan)
    /\ UNCHANGED <<clusterVars, plan, status, passVars, spent>>

AddApproval(a) == SetApproval(a, {"unused"}, "active")

RemoveApproval(a) ==
    /\ "withdraw" \in MayHappen
    /\ SetApproval(a, {"active", "consumed"}, "gone")

Editing(kind) ==
    /\ kind \in MayHappen
    /\ spent.edits < MaxEdits
    /\ spent' = [spent EXCEPT !.edits = @ + 1]

(* The webhook refuses to change spec.firmware under a reflash that runs   *)
(* or is about to (firmwareUpdateActive).                                  *)
EditFirmware(p) ==
    /\ Editing("firmware")
    /\ plan[p].phase = "live"
    /\ \A d \in DevicesOf(p) : status[d].type = "reflash" =>
                               status[d].state \notin {"in-progress", "blocked"}
    /\ spec' = Bumped([spec EXCEPT !.firmware[p] = ~@], p)
    /\ UNCHANGED <<clusterVars, plan, status, passVars>>

EditDrain(p) ==
    /\ Editing("drain")
    /\ plan[p].phase = "live"
    /\ spec' = Bumped([spec EXCEPT !.drain[p] = ~@], p)
    /\ UNCHANGED <<clusterVars, plan, status, passVars>>

(* Deleting a plan without the finalizer removes it at once. *)
DeletePlan(p) ==
    /\ Editing("deletion")
    /\ plan[p].phase = "live"
    /\ plan' = [plan EXCEPT ![p].phase = IF plan[p].finalizer THEN "deleting"
                                                              ELSE "gone"]
    /\ UNCHANGED <<clusterVars, spec, status, passVars>>

(* Somebody else deletes a recovery Job. *)
DeleteJob(n) ==
    /\ Editing("jobs")
    /\ n[3] < MaxAttempts
    /\ jobs' = JobsWithout({n})
    /\ UNCHANGED <<taints, faults, nodeTaint, work, claims, expired, planVars,
                   passVars>>

(* The Job controller.                                                     *)

JobEnds(n, state) ==
    /\ jobs[n].state = "running"
    /\ state = "failed" => n[3] < MaxAttempts
    /\ jobs' = [jobs EXCEPT ![n].state = state]
    /\ UNCHANGED <<taints, faults, nodeTaint, work, claims, expired, planVars,
                   passVars, spent>>

(* A Job outlives its activeDeadlineSeconds and the operator's grace. *)
JobOverdue(n) ==
    /\ "overdue" \in MayHappen
    /\ jobs[n].state = "running" /\ ~jobs[n].late
    /\ n[3] < MaxAttempts
    /\ jobs' = [jobs EXCEPT ![n].late = TRUE]
    /\ UNCHANGED <<taints, faults, nodeTaint, work, claims, expired, planVars,
                   passVars, spent>>

(* The garbage collector removes the Jobs of a plan that is gone. *)
GarbageCollect(p) ==
    /\ plan[p].phase = "gone"
    /\ JobsOf(p) # {}
    /\ jobs' = JobsWithout(JobsOf(p))
    /\ UNCHANGED <<taints, faults, nodeTaint, work, claims, expired, planVars,
                   passVars, spent>>

(* Time: a drain, or the wait for a Job that no longer exists, runs out.   *)
Expire(d) ==
    /\ d \notin expired
    /\ \/ status[d].state = "draining"
       \/ /\ status[d].state = "in-progress"
          /\ RecoveryJobName(d, status[d]) \notin DOMAIN jobs
    /\ expired' = expired \cup {d}
    /\ UNCHANGED <<taints, faults, jobs, nodeTaint, work, claims, planVars,
                   passVars, spent>>

(* Workloads: scheduled on untainted nodes, with claims on healthy GPUs.   *)

ScheduleWorkload(n) ==
    /\ "workload" \in MayHappen
    /\ work[n] = "none"
    /\ \A p \in Plans : <<p, n>> \notin nodeTaint
    /\ work' = [work EXCEPT ![n] = "running"]
    /\ \E S \in SUBSET {d \in Devices : NodeOf[d] = n /\ taints[d] = {}} :
         claims' = claims \cup S
    /\ UNCHANGED <<taints, faults, jobs, nodeTaint, expired, planVars,
                   passVars, spent>>

WorkloadEnds(n) ==
    /\ work[n] # "none"
    /\ work' = [work EXCEPT ![n] = "none"]
    /\ UNCHANGED <<taints, faults, jobs, nodeTaint, claims, expired, planVars,
                   passVars, spent>>

ReleaseClaim(d) ==
    /\ d \in claims /\ work[NodeOf[d]] = "none"
    /\ claims' = claims \ {d}
    /\ UNCHANGED <<taints, faults, jobs, nodeTaint, work, expired, planVars,
                   passVars, spent>>

-----------------------------------------------------------------------------
(* The specification.                                                      *)

(* A step of the operator, other than to begin a pass. *)
PassStep ==
    \/ SyncRecoveryEventsFromSlices
    \/ ListingSlicesFails
    \/ EnsureOpenShiftResources
    \/ \E d \in Devices : NotApproved(d)
    \/ \E d \in Devices, a \in Approvals :
          \/ BlockEvent(d, a)
          \/ HoldForImageFix(d, a)
          \/ BeginDrain(d, a)
          \/ CreateRecoveryJob(d, a)
          \/ CreateRecoveryJobFails(d, a)
          \/ ParkForFirmware(d, a)
    \/ SetApprovalsConsumed
    \/ \E d \in Devices : DrainWaits(d) \/ DrainFails(d) \/ DrainCompletes(d)
    \/ EndDrains
    \/ SyncJobStatuses
    \/ ReconcileDrainTaints
    \/ PersistStatus
    \/ PersistApprovals

BeginPass(p) == Reconcile(p) \/ AddFinalizer(p) \/ FinalizeDeletion(p)

AdminStep ==
    \/ \E a \in Approvals : AddApproval(a) \/ RemoveApproval(a)
    \/ \E p \in Plans : EditFirmware(p) \/ EditDrain(p) \/ DeletePlan(p)
    \/ \E n \in DOMAIN jobs : DeleteJob(n)

ClusterStep ==
    \/ \E d \in Devices, k \in TaintKeys : TaintDevice(d, k) \/ UntaintDevice(d, k)
    \/ \E d \in Devices : Expire(d) \/ ReleaseClaim(d)
    \/ \E n \in DOMAIN jobs :
          \/ \E state \in {"complete", "failed"} : JobEnds(n, state)
          \/ JobOverdue(n)
    \/ \E p \in Plans : GarbageCollect(p)
    \/ \E n \in Nodes : ScheduleWorkload(n) \/ WorkloadEnds(n)

Next ==
    \/ PassStep
    \/ \E p \in Plans : BeginPass(p)
    \/ Crash
    \/ AdminStep
    \/ ClusterStep

Spec == Init /\ [][Next]_vars

(* The work queue serves every plan again and again, a pass once begun     *)
(* goes on, time passes, and every Job the Job controller runs ends, at    *)
(* its activeDeadlineSeconds at the latest.  Nothing is assumed of admins, *)
(* workloads and GPUs.                                                     *)
Fairness ==
    /\ WF_vars(PassStep)
    /\ \A p \in Plans : SF_vars(BeginPass(p))
    /\ \A d \in Devices : WF_vars(Expire(d))
    /\ WF_vars(\E n \in DOMAIN jobs, state \in {"complete", "failed"} :
                  JobEnds(n, state))

FairSpec == Spec /\ Fairness

-----------------------------------------------------------------------------
(* Properties.                                                             *)

(* Every variable keeps its type; in particular an event in the list       *)
(* always has a recovery type and names only Jobs of its own GPU.          *)
TypeOK ==
    /\ taints \in [Devices -> SUBSET TaintKeys]
    /\ faults \in [Devices -> Nat]
    /\ DOMAIN jobs \subseteq JobNames
    /\ jobs \in [DOMAIN jobs -> Job]
    /\ nodeTaint \subseteq Plans \X Nodes
    /\ work \in [Nodes -> {"none", "running", "terminating"}]
    /\ claims \subseteq Devices
    /\ expired \subseteq Devices
    /\ plan \in [Plans -> PlanType]
    /\ spec \in SpecType
    /\ status \in [Devices -> Event]
    /\ pc \in {"idle", "detect", "openshift", "approve", "drain", "sync",
               "finish", "status", "spec"}
    /\ cur \in Plans
    /\ events \in [Devices -> Event]
    /\ snap \in SpecType
    /\ todo \subseteq Devices
    /\ used \subseteq Approvals /\ kept \subseteq Approvals
    /\ pruned \subseteq Approvals
    /\ spent \in [failures : Nat, edits : Nat]

(* No two of a plan's events in the list ev own the same node. *)
OneOwnerIn(ev) ==
    \A d, o \in Devices :
        /\ d # o /\ NodeOf[d] = NodeOf[o] /\ PlanOf[d] = PlanOf[o]
        /\ ev[d].state \in Active
        => ev[o].state \notin Active

(* A plan's status never shows two recoveries that own the same node,      *)
(* whatever writes were lost and whenever the operator was restarted.      *)
OneOwnerPerNode == OneOwnerIn(status)

(* The recovery a Job runs was approved: by an approval of that very event *)
(* (an ID embeds the type), or by a selector for the GPU's node and for    *)
(* that kind of operation.  An approval for a reset never lets a reflash   *)
(* run, however the event was escalated, overridden or re-approved.        *)
Approves(a, d, idType, type) ==
    /\ a \in Approvals
    /\ \/ <<d, idType>> \in Grant[a].names
       \/ /\ NodeOf[d] \in Grant[a].nodes
          /\ \E t \in Grant[a].types : Priority(t) = Priority(type)

JobsAreApproved ==
    \A n \in DOMAIN jobs : Approves(jobs[n].approval, n[1], n[2], jobs[n].type)

(* The events of the list ev that own a node hold an approval of the       *)
(* recovery they are about to run or are running.                          *)
ApprovedIn(ev) ==
    \A d \in Devices :
        ev[d].state \in Active =>
            Approves(ev[d].approval, d, ev[d].idType, ev[d].type)

(* processDrains has only draining events left to visit. *)
VisitsDraining == pc = "drain" => \A d \in todo : events[d].state = "draining"

(* Why the two hold: both are true of the working copy at every step of a  *)
(* pass, not only of what is persisted.                                    *)
RecoveryInv ==
    /\ TypeOK
    /\ OneOwnerIn(status) /\ OneOwnerIn(events)
    /\ ApprovedIn(status) /\ ApprovedIn(events)
    /\ JobsAreApproved
    /\ VisitsDraining

(* A failed event does not move again unless an approval names it, its     *)
(* taint clears, it is escalated to another ID, or its plan goes.          *)
FailedIsTerminal ==
    [][\A d \in Devices :
         /\ status[d].state = "failed"
         /\ status'[d].state # "none"
         /\ status'[d].idType = status[d].idType
         /\ status'[d].state # "failed"
         => \E a \in Approvals : /\ <<d, status[d].idType>> \in Grant[a].names
                                 /\ spec.approvals[a] # "unused"]_status

(* RECOVERY.md, "One recovery per node at a time": no two recovery Jobs    *)
(* run on one node.                                                        *)
OneRecoveryPerNode ==
    \A m, n \in DOMAIN jobs :
        /\ m # n /\ NodeOf[m[1]] = NodeOf[n[1]]
        /\ jobs[m].state = "running"
        => jobs[n].state # "running"

(* While a reset Job that waited for a drain runs, its node is tainted, no *)
(* workload is on it and no claim reserves the GPU.                        *)
ResetsRunOnDrainedNodes ==
    \A n \in DOMAIN jobs :
        jobs[n].drained /\ jobs[n].state = "running" =>
            /\ <<PlanOf[n[1]], NodeOf[n[1]]>> \in nodeTaint
            /\ work[NodeOf[n[1]]] = "none"
            /\ n[1] \notin claims

(* RECOVERY.md, "No automatic retries": the attempts an event has used     *)
(* under its ID do not outnumber the approvals admins gave that cover it.  *)
NoAutomaticRetries ==
    \A d \in Devices :
        LET e == status[d]
            attempts == {i \in DOMAIN e.pastJobs : e.pastJobs[i][2] = e.idType}
        IN Cardinality(attempts) <=
             Cardinality({a \in Approvals :
                            /\ spec.approvals[a] # "unused"
                            /\ Approves(a, d, e.idType, e.type)})

(* handleFinalizer: "no node may be left unschedulable" on behalf of a     *)
(* plan that is gone, whenever it was deleted.                             *)
DeletionLeavesNothing ==
    \A p \in Plans : plan[p].phase = "gone" =>
        \A t \in nodeTaint : t[1] # p

(* RECOVERY.md, blocked: "The approval is kept".  No pass consumes the     *)
(* approval a blocked event waits with.                                    *)
BlockedKeepsApproval ==
    \A d \in Devices :
        pc = "idle" /\ status[d].state = "blocked"
        => spec.approvals[status[d].approval] # "consumed"

(* processApprovals: an event parked in missing-firmware "never started,   *)
(* so its approval stays and fires again once spec.firmware is filled in"; *)
(* ensureImagesUsable says the same of an event held for an image.         *)
ParkedKeepsApproval ==
    \A d \in Devices :
        /\ pc = "idle"
        /\ \/ status[d].state = "missing-firmware"
           \/ status[d].state = "waiting-approval" /\ status[d].heldAt # 0
        => spec.approvals[status[d].approval] # "consumed"

(* A recovery Job is on record in its event: in progress, or among the     *)
(* past Jobs.                                                              *)
OnRecord(n) ==
    LET e == status[n[1]]
    IN \/ e.state = "in-progress" /\ n = RecoveryJobName(n[1], e)
       \/ n \in PastJobs(e)

(* createResetJob adopts a Job that exists: "this is the very Job this     *)
(* attempt wanted".  The Jobs on record in an event were created for the   *)
(* fault it stands for, never left over from an earlier one.               *)
JobsAreTheEventsOwn ==
    \A n \in DOMAIN jobs : OnRecord(n) => jobs[n].fault = status[n[1]].fault

(* persistPlan: "The reconcile still fails, so the lost status is          *)
(* rewritten on the retry".  The first Job of every event comes to be on   *)
(* record, or is deleted.                                                  *)
LostStatusIsRewritten ==
    \A n \in Devices \X RecoveryTypes \X {0} :
        n \in DOMAIN jobs ~> (n \in DOMAIN jobs => OnRecord(n))

(* reconcileDrainTaints: for an event held back by a failed image check    *)
(* there is "no taint until an approval actually starts a recovery".       *)
TaintsServeRecoveries ==
    pc = "idle" =>
        \A t \in nodeTaint :
            \E d \in DevicesOf(t[1]) :
                /\ NodeOf[d] = t[2]
                /\ \/ status[d].state \in Active
                   \/ /\ status[d].state = "blocked"
                      /\ status[d].heldAt # spec.generation[t[1]]

(* handleFinalizer, removeResolvedEvents: a recovery that runs is never    *)
(* cut short; the operator deletes a Job only after it has ended.          *)
RecoveriesAreNotCutShort ==
    [][\A n \in DOMAIN jobs :
         jobs[n].state = "running" => n \in DOMAIN jobs']_jobs

(* NodesWithTaint: a taint outlives a lost status write, "it is still      *)
(* found, and still cleaned up".  Whatever the operator lost, a node's     *)
(* taint comes to be released or to serve an event.                        *)
TaintIsReleased ==
    \A p \in Plans, n \in Nodes :
        <<p, n>> \in nodeTaint ~>
            \/ <<p, n>> \notin nodeTaint
            \/ \E d \in DevicesOf(p) : /\ NodeOf[d] = n
                                       /\ status[d].state \in Active \cup {"blocked"}

(* "A verdict is always reached". *)
VerdictIsReached ==
    \A d \in Devices :
        status[d].state = "in-progress" ~> status[d].state # "in-progress"

(* A drain ends: with a Job, at its deadline, or with its fault. *)
DrainEnds ==
    \A d \in Devices : status[d].state = "draining" ~> status[d].state # "draining"

(* "blocked is active, not stuck: it clears on its own once the node frees *)
(* up" (updatePlanState), unless an admin withdraws the approval.          *)
BlockedResumes ==
    \A d \in Devices :
        status[d].state = "blocked" ~>
            \/ status[d].state # "blocked"
            \/ spec.approvals[status[d].approval] = "gone"

(* A plan being deleted goes away once its Jobs have ended. *)
DeletionCompletes ==
    \A p \in Plans : plan[p].phase = "deleting" ~> plan[p].phase = "gone"

(* What an event says to those who read the status.                        *)
Recorded(e) ==
    [kind |-> IF e.state = "none" THEN "none"
              ELSE IF e.idType = "reflash" THEN "reflash" ELSE "reset",
     stage |-> IF e.state \in {"waiting-approval", "blocked", "missing-firmware"}
               THEN "open" ELSE e.state,
     tried |-> e.pastJobs]

LifecycleOf ==
    INSTANCE RecoveryLifecycle WITH
        record <- [d \in Devices |-> Recorded(status[d])],
        standing <- {p \in Plans : plan[p].phase # "gone"}

(* What the admin reads in status.events is the life of an event that      *)
(* module RecoveryLifecycle lays down, whatever is lost on the way:        *)
(* removeResolvedEvents and escalateEvent leave a recovery in progress     *)
(* alone, applyJobVerdict files its attempt exactly once and under a new   *)
(* name, and processApprovals takes up no event that has succeeded.        *)
ImplementsLifecycle == LifecycleOf!Spec
=============================================================================
