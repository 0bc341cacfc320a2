------------------------- MODULE RecoveryPlanProofs -------------------------
(***************************************************************************)
(* Proofs about RecoveryPlan, for any plans, nodes, GPUs and approvals and *)
(* any bounds.                                                             *)
(***************************************************************************)
EXTENDS RecoveryPlan, TLAPS

-----------------------------------------------------------------------------
(* The operators on events and Jobs keep types.                            *)

(* The entry of a GPU without an event is of type Event. *)
LEMMA NoEventType == NoEvent \in Event
  BY DEF NoEvent, Event, RecoveryTypes, NoApproval

(* The plan's working copy may be reset to the list without events. *)
LEMMA NoEventsType == NoEvents \in [Devices -> Event]
  BY NoEventType DEF NoEvents

(* The spec a plan is created with has its type. *)
LEMMA InitialSpecType == InitialSpec \in SpecType
  BY DEF InitialSpec, SpecType

(* deleteJobByName: removing Jobs leaves a map from Job names to Jobs. *)
LEMMA JobsWithoutType ==
  ASSUME DOMAIN jobs \subseteq JobNames, jobs \in [DOMAIN jobs -> Job], NEW S
  PROVE  /\ DOMAIN JobsWithout(S) \subseteq JobNames
         /\ JobsWithout(S) \in [DOMAIN JobsWithout(S) -> Job]
  BY DEF JobsWithout

(* setEventState keeps an event's type. *)
LEMMA WithStateType ==
  ASSUME NEW e \in Event, NEW s \in EventStates
  PROVE  [e EXCEPT !.state = s] \in Event
  BY DEF Event

(* taintToDeviceNeed always yields a recovery type. *)
LEMMA DeviceNeedType ==
  ASSUME NEW d PROVE DeviceNeed(d) \in RecoveryTypes
  BY ConstantsAssumption DEF DeviceNeed, RecoveryTypes

(* addRecoveryEvent, wherever in the list the event is put. *)
LEMMA AddRecoveryEventType ==
  ASSUME NEW d \in Devices, faults \in [Devices -> Nat], NEW r \in Nat
  PROVE  [AddRecoveryEvent(d) EXCEPT !.rank = r] \in Event
  BY NoEventType, DeviceNeedType, Zenon DEF AddRecoveryEvent, Event, EventStates

(* escalateEvent, wherever in the list the event is. *)
LEMMA EscalateEventType ==
  ASSUME NEW d, NEW e \in Event, NEW r \in Nat
  PROVE  [EscalateEvent(d, e) EXCEPT !.rank = r] \in Event
  BY DeviceNeedType, Zenon DEF EscalateEvent, Event, EventStates, NoApproval

(* An approval and its override leave an event of the same kind. *)
LEMMA MatchedType ==
  ASSUME NEW e \in Event, e.state # "none", NEW a \in Approvals
  PROVE  /\ Matched(e, a) \in Event
         /\ Matched(e, a).state \in EventStates
         /\ Verified(e, a) \in Event
         /\ Verified(e, a).state \in EventStates
  <1>1. Grant[a].override \in RecoveryTypes \cup {"none"}
    BY ConstantsAssumption DEF GrantType
  <1>2. Matched(e, a) \in Event /\ Matched(e, a).state \in EventStates
    BY <1>1, Zenon DEF Matched, ApplyOverride, Event, EventStates
  <1> QED
    BY <1>2, Zenon DEF Verified, Event

(* recoveryJobName is a Job name. *)
LEMMA RecoveryJobNameType ==
  ASSUME NEW d \in Devices, NEW e \in Event
  PROVE  RecoveryJobName(d, e) \in JobNames
  BY DEF RecoveryJobName, Event, JobNames

(* applyJobVerdict and failEventJob keep an event's type. *)
LEMMA JobStatusType ==
  ASSUME NEW d \in Devices, NEW e \in Event
  PROVE  JobStatus(d, e) \in Event
  <1>1. Append(e.pastJobs, RecoveryJobName(d, e)) \in Seq(JobNames)
    BY RecoveryJobNameType DEF Event
  <1>2. ASSUME NEW s \in {"succeeded", "failed"}
        PROVE  Verdict(d, e, s) \in Event
    BY <1>1, Zenon DEF Verdict, Event, EventStates
  <1> QED
    BY <1>2 DEF JobStatus

(* createResetJob and createReflashJob add at most one Job. *)
LEMMA CreateOrAdoptType ==
  ASSUME DOMAIN jobs \subseteq JobNames, jobs \in [DOMAIN jobs -> Job],
         NEW d \in Devices, NEW e \in Event, NEW drained \in BOOLEAN,
         CreateOrAdopt(d, e, drained)
  PROVE  DOMAIN jobs' \subseteq JobNames /\ jobs' \in [DOMAIN jobs' -> Job]
  <1>1. RecoveryJobName(d, e) \in JobNames
    BY RecoveryJobNameType
  <1>2. [state |-> "running", type |-> e.type, late |-> FALSE,
         approval |-> e.approval, drained |-> drained, fault |-> e.fault] \in Job
    BY DEF Event, Job
  <1> QED
    BY <1>1, <1>2 DEF CreateOrAdopt

-----------------------------------------------------------------------------
(* Type correctness.                                                       *)

(* The fields of the pass are reset to values of their types. *)
LEMMA EndPassType ==
  ASSUME TypeOK, EndPass
  PROVE  /\ events' \in [Devices -> Event] /\ snap' \in SpecType
         /\ todo' \subseteq Devices /\ used' \subseteq Approvals
         /\ kept' \subseteq Approvals /\ pruned' \subseteq Approvals
         /\ pc' = "idle" /\ cur' = cur
  BY NoEventsType, InitialSpecType DEF EndPass

(* Counting a failure keeps the type of the counters. *)
LEMMA RefusedType ==
  ASSUME TypeOK, NEW K, Refused(K)
  PROVE  spent' \in [failures : Nat, edits : Nat]
  BY DEF Refused, TypeOK

(* A spec write keeps the type of the spec. *)
LEMMA BumpedType ==
  ASSUME NEW s \in SpecType, NEW p \in Plans
  PROVE  Bumped(s, p) \in SpecType
  BY DEF Bumped, SpecType

(* A visit of processApprovals changes at most these fields. *)
LEMMA VisitingType ==
  ASSUME TypeOK, NEW d, Visiting(d),
         DOMAIN jobs' \subseteq JobNames, jobs' \in [DOMAIN jobs' -> Job],
         expired' \subseteq Devices, events' \in [Devices -> Event],
         used' \subseteq Approvals, kept' \subseteq Approvals,
         spent' \in [failures : Nat, edits : Nat]
  PROVE  TypeOK'
  BY DEF TypeOK, Visiting, planVars

(* So does a visit of processDrains. *)
LEMMA DrainingType ==
  ASSUME TypeOK, NEW d, Draining(d),
         DOMAIN jobs' \subseteq JobNames, jobs' \in [DOMAIN jobs' -> Job],
         nodeTaint' \subseteq Plans \X Nodes,
         work' \in [Nodes -> {"none", "running", "terminating"}],
         expired' \subseteq Devices, events' \in [Devices -> Event],
         spent' \in [failures : Nat, edits : Nat]
  PROVE  TypeOK'
  BY DEF TypeOK, Draining, planVars

(* An event an approval can start is in the list, and so is the approval.  *)
LEMMA AuthorisesType ==
  ASSUME TypeOK, NEW d \in Devices, NEW a, Authorises(a, d)
  PROVE  /\ a \in Approvals /\ a \in MatchingApprovals(d, events[d])
         /\ events[d] \in Event /\ events[d].state # "none"
  BY DEF Authorises, IsFirst, Startable, MatchingApprovals, ExplicitApprovals, TypeOK

(* Init establishes the types. *)
LEMMA TypeInit == Init => TypeOK
  BY ConstantsAssumption, NoEventsType, InitialSpecType DEF Init, TypeOK, PlanType

(* The Jobs of the events that are removed. *)
Doomed == UNION {EventJobs(d, events[d]) : d \in Resolved}

(* What syncRecoveryEventsFromSlices does to Jobs, events and the loop: S  *)
(* are the Jobs it deletes, added the GPUs that get an event.              *)
Detection(S, added, rank) ==
    /\ jobs' = JobsWithout(S)
    /\ events' = [d \in Devices |->
                    CASE d \in added ->
                           [AddRecoveryEvent(d) EXCEPT !.rank = rank[d]]
                      [] d \in Present \ Resolved ->
                           [EscalateEvent(d, events[d]) EXCEPT !.rank = rank[d]]
                      [] OTHER -> NoEvent]
    /\ todo' = (Present \ Resolved) \cup added

(* Places in the list are numbers. *)
LEMMA DetectionStep ==
  ASSUME SyncRecoveryEventsFromSlices
  PROVE  \E S \in SUBSET Doomed, added \in SUBSET Devices,
            rank \in [Devices -> Nat] :
           Detection(S, added, rank)
  <1> DEFINE fresh == ActiveKeys \ Present
  <1>1. PICK lost \in SUBSET (Doomed \cap DOMAIN jobs),
             added \in SUBSET fresh,
             rank \in [Devices -> 1..Cardinality(Devices)] :
          Detection(Doomed \ lost, added, rank)
    BY Zenon DEF SyncRecoveryEventsFromSlices, Detection, Doomed
  <1>2. rank \in [Devices -> Nat]
    OBVIOUS
  <1>3. added \in SUBSET Devices
    BY DEF ActiveKeys, DevicesOf
  <1> QED
    BY <1>1, <1>2, <1>3

(* Every step of a pass keeps the types. *)
LEMMA TypePassStep == TypeOK /\ PassStep => TypeOK'
  <1> SUFFICES ASSUME TypeOK, PassStep PROVE TypeOK'
    OBVIOUS
  <1>1. CASE SyncRecoveryEventsFromSlices
    <2>1. PICK S \in SUBSET Doomed, added \in SUBSET Devices,
               rank \in [Devices -> Nat] :
            Detection(S, added, rank)
      BY <1>1, DetectionStep
    <2>3. events' \in [Devices -> Event]
      BY <2>1, AddRecoveryEventType, EscalateEventType, NoEventType
      DEF Detection, TypeOK
    <2>4. todo' \subseteq Devices
      BY <2>1 DEF Detection, Present
    <2>5. DOMAIN jobs' \subseteq JobNames /\ jobs' \in [DOMAIN jobs' -> Job]
      BY <2>1, JobsWithoutType DEF Detection, TypeOK
    <2>6. spent' \in [failures : Nat, edits : Nat]
      BY <1>1, RefusedType DEF SyncRecoveryEventsFromSlices
    <2>7. pc' \in {"openshift", "approve"}
      BY <1>1 DEF SyncRecoveryEventsFromSlices
    <2> QED
      BY <1>1, <2>3, <2>4, <2>5, <2>6, <2>7
      DEF SyncRecoveryEventsFromSlices, TypeOK, planVars
  <1>2. CASE ListingSlicesFails
    BY <1>2, EndPassType, RefusedType
    DEF ListingSlicesFails, TypeOK, clusterVars, planVars
  <1>3. CASE EnsureOpenShiftResources
    BY <1>3, RefusedType
    DEF EnsureOpenShiftResources, TypeOK, clusterVars, planVars
  <1>4. ASSUME NEW d \in Devices, NotApproved(d) PROVE TypeOK'
    BY <1>4, VisitingType, RefusedType DEF NotApproved, TypeOK
  <1>5. ASSUME NEW d \in Devices, NEW a \in Approvals,
               \/ BlockEvent(d, a) \/ HoldForImageFix(d, a)
               \/ BeginDrain(d, a) \/ CreateRecoveryJob(d, a)
               \/ CreateRecoveryJobFails(d, a) \/ ParkForFirmware(d, a)
        PROVE  TypeOK'
    <2>1. Visiting(d) /\ Authorises(a, d)
      BY <1>5, Zenon DEF BlockEvent, HoldForImageFix, BeginDrain, CreateRecoveryJob,
                  CreateRecoveryJobFails, ParkForFirmware, Starting
    <2>2. /\ events[d] \in Event /\ events[d].state # "none"
          /\ cur \in Plans /\ snap.generation[cur] \in Nat
      BY <2>1, AuthorisesType DEF TypeOK, SpecType
    <2> DEFINE m == Matched(events[d], a)
               v == Verified(events[d], a)
    <2>3. /\ m \in Event /\ m.state \in EventStates
          /\ v \in Event /\ v.state \in EventStates
      BY <2>2, MatchedType
    <2>4. Consuming(a) => used' \subseteq Approvals
      BY DEF Consuming, TypeOK
    <2> HIDE DEF m, v
    <2>5. CASE BlockEvent(d, a)
      <3>1. events' \in [Devices -> Event]
        BY <2>3, <2>5, WithStateType, Zenon DEF BlockEvent, TypeOK, EventStates, m
      <3> QED
        BY <2>1, <2>5, <3>1, VisitingType DEF BlockEvent, TypeOK
    <2>6. CASE HoldForImageFix(d, a)
      <3>1. [m EXCEPT !.state = "waiting-approval",
                      !.heldAt = snap.generation[cur]] \in Event
        BY <2>2, <2>3, Zenon DEF Event, EventStates
      <3>2. events' \in [Devices -> Event]
        BY <2>3, <2>6, <3>1 DEF HoldForImageFix, TypeOK, m
      <3>3. spent' \in [failures : Nat, edits : Nat]
        BY <2>6, RefusedType DEF HoldForImageFix, TypeOK
      <3> QED
        BY <2>1, <2>6, <3>2, <3>3, VisitingType DEF HoldForImageFix, TypeOK
    <2>7. CASE BeginDrain(d, a)
      <3>1. events' \in [Devices -> Event]
        BY <2>3, <2>7, WithStateType, Zenon DEF BeginDrain, TypeOK, EventStates, v
      <3> QED
        BY <2>1, <2>4, <2>7, <3>1, VisitingType DEF BeginDrain, TypeOK
    <2>8. CASE CreateRecoveryJob(d, a)
      <3>1. events' \in [Devices -> Event]
        BY <2>3, <2>8, WithStateType, Zenon DEF CreateRecoveryJob, TypeOK, EventStates, v
      <3>2. DOMAIN jobs' \subseteq JobNames /\ jobs' \in [DOMAIN jobs' -> Job]
        BY <2>3, <2>8, CreateOrAdoptType, Zenon DEF CreateRecoveryJob, TypeOK, v
      <3> QED
        BY <2>1, <2>4, <2>8, <3>1, <3>2, VisitingType
        DEF CreateRecoveryJob, TypeOK
    <2>9. CASE CreateRecoveryJobFails(d, a)
      <3>1. events' \in [Devices -> Event]
        BY <2>3, <2>9 DEF CreateRecoveryJobFails, TypeOK, v
      <3>2. spent' \in [failures : Nat, edits : Nat]
        BY <2>9, RefusedType DEF CreateRecoveryJobFails
      <3> QED
        BY <2>1, <2>9, <3>1, <3>2, VisitingType
        DEF CreateRecoveryJobFails, TypeOK
    <2>10. CASE ParkForFirmware(d, a)
      <3>1. events' \in [Devices -> Event]
        BY <2>3, <2>10, WithStateType, Zenon DEF ParkForFirmware, TypeOK, EventStates, v
      <3> QED
        BY <2>1, <2>10, <3>1, VisitingType DEF ParkForFirmware, TypeOK
    <2> QED
      BY <1>5, <2>5, <2>6, <2>7, <2>8, <2>9, <2>10
  <1>6. CASE SetApprovalsConsumed
    BY <1>6 DEF SetApprovalsConsumed, ConsumedIDs, TypeOK, clusterVars, planVars
  <1>7. ASSUME NEW d \in Devices,
               DrainWaits(d) \/ DrainFails(d) \/ DrainCompletes(d)
        PROVE  TypeOK'
    <2>1. Draining(d)
      BY <1>7, Zenon DEF DrainWaits, DrainFails, DrainCompletes
    <2>2. NodeOf[d] \in Nodes /\ events[d] \in Event
      BY ConstantsAssumption DEF TypeOK
    <2>3. TaintNode(NodeOf[d]) => nodeTaint' \subseteq Plans \X Nodes
      BY <2>2 DEF TaintNode, TypeOK
    <2>4. EvictPods(NodeOf[d]) =>
            work' \in [Nodes -> {"none", "running", "terminating"}]
      BY <2>2 DEF EvictPods, TypeOK
    <2>5. \A s \in EventStates :
            [events EXCEPT ![d].state = s] \in [Devices -> Event]
      BY <2>2, WithStateType DEF TypeOK
    <2>6. Stalled(d) => /\ events' \in [Devices -> Event]
                       /\ UNCHANGED <<jobs, expired>>
      BY <2>5 DEF Stalled, TypeOK, EventStates
    <2>7. CASE DrainWaits(d)
      BY <2>1, <2>3, <2>4, <2>6, <2>7, DrainingType DEF DrainWaits, TypeOK
    <2>8. CASE DrainFails(d)
      BY <2>1, <2>3, <2>4, <2>6, <2>8, DrainingType, RefusedType
      DEF DrainFails, TypeOK
    <2>9. CASE DrainCompletes(d)
      <3>1. CASE /\ CreateOrAdopt(d, events[d], TRUE)
                 /\ events' = [events EXCEPT ![d].state = "in-progress"]
                 /\ expired' = expired \ {d}
                 /\ UNCHANGED spent
        <4>1. DOMAIN jobs' \subseteq JobNames /\ jobs' \in [DOMAIN jobs' -> Job]
          BY <2>2, <3>1, CreateOrAdoptType, Zenon DEF TypeOK
        <4>2. events' \in [Devices -> Event]
          BY <2>5, <3>1 DEF EventStates
        <4> QED
          BY <2>1, <2>3, <2>9, <3>1, <4>1, <4>2, DrainingType
          DEF DrainCompletes, TypeOK
      <3>2. CASE Refused({"create"}) /\ Stalled(d)
        BY <2>1, <2>3, <2>6, <2>9, <3>2, DrainingType, RefusedType
        DEF DrainCompletes, TypeOK
      <3> QED
        BY <2>9, <3>1, <3>2, Zenon DEF DrainCompletes
    <2> QED
      BY <1>7, <2>7, <2>8, <2>9
  <1>8. CASE EndDrains
    BY <1>8 DEF EndDrains, TypeOK, clusterVars, planVars, loopVars
  <1>9. CASE SyncJobStatuses
    <2>1. events' \in [Devices -> Event]
      BY <1>9, JobStatusType DEF SyncJobStatuses, TypeOK
    <2> QED
      BY <1>9, <2>1, RefusedType
      DEF SyncJobStatuses, TypeOK, clusterVars, planVars, loopVars
  <1>10. CASE ReconcileDrainTaints
    <2>1. PruneConsumedApprovals \subseteq Approvals
      BY DEF PruneConsumedApprovals
    <2>2. spent' \in [failures : Nat, edits : Nat]
      BY <1>10, RefusedType DEF ReconcileDrainTaints
    <2>3. nodeTaint' \subseteq Plans \X Nodes
      BY <1>10 DEF ReconcileDrainTaints, NodesWithTaint, TypeOK
    <2> QED
      BY <1>10, <2>1, <2>2, <2>3 DEF ReconcileDrainTaints, TypeOK, planVars
  <1>11. CASE PersistStatus
    BY <1>11, RefusedType
    DEF PersistStatus, TypeOK, clusterVars, loopVars
  <1>12. CASE PersistApprovals
    <2>1. Apply(spec.approvals) \in
            [Approvals -> {"unused", "active", "consumed", "gone"}]
      BY DEF Apply, TypeOK, SpecType
    <2>2. [spec EXCEPT !.approvals = Apply(spec.approvals)] \in SpecType
      BY <2>1 DEF TypeOK, SpecType
    <2>3. spec' \in SpecType /\ spent' \in [failures : Nat, edits : Nat]
      BY <1>12, <2>2, BumpedType, RefusedType DEF PersistApprovals, TypeOK
    <2> QED
      BY <1>12, <2>3, EndPassType DEF PersistApprovals, TypeOK, clusterVars
  <1> QED
    BY <1>1, <1>2, <1>3, <1>4, <1>5, <1>6, <1>7, <1>8, <1>9, <1>10, <1>11,
       <1>12
    DEF PassStep

(* A Job that outlives its deadline is still a Job. *)
LEMMA LateType ==
  ASSUME NEW j \in Job PROVE [j EXCEPT !.late = TRUE] \in Job
  BY Zenon DEF Job

(* The start of a pass, and a restart, keep the types. *)
LEMMA TypeBeginPass ==
  ASSUME TypeOK, (\E p \in Plans : BeginPass(p)) \/ Crash PROVE TypeOK'
  <1>1. ASSUME NEW p \in Plans, Reconcile(p) PROVE TypeOK'
    <2>1. events' \in [Devices -> Event]
      BY <1>1, NoEventType DEF Reconcile, TypeOK
    <2> QED
      BY <1>1, <2>1 DEF Reconcile, TypeOK, clusterVars, planVars, loopVars
  <1>2. ASSUME NEW p \in Plans, AddFinalizer(p) PROVE TypeOK'
    <2>1. plan' \in [Plans -> PlanType]
      <3>1. plan[p] \in PlanType
        BY DEF TypeOK
      <3>2. [plan[p] EXCEPT !.finalizer = TRUE] \in PlanType
        BY <3>1, Zenon DEF PlanType
      <3>3. \/ plan' = [plan EXCEPT ![p] = [plan[p] EXCEPT !.finalizer = TRUE]]
            \/ plan' = plan
        BY <1>2, Zenon DEF AddFinalizer
      <3>4. plan \in [Plans -> PlanType]
        BY DEF TypeOK
      <3> QED
        BY <3>2, <3>3, <3>4, Zenon
    <2> QED
      BY <1>2, <2>1, RefusedType
      DEF AddFinalizer, TypeOK, clusterVars, passVars, loopVars
  <1>3. ASSUME NEW p \in Plans, FinalizeDeletion(p) PROVE TypeOK'
    <2>1. /\ DOMAIN jobs' \subseteq JobNames /\ jobs' \in [DOMAIN jobs' -> Job]
          /\ nodeTaint' \subseteq nodeTaint
          /\ spent' \in [failures : Nat, edits : Nat]
      BY <1>3, JobsWithoutType, RefusedType
      DEF FinalizeDeletion, NodesWithTaint, TypeOK
    <2>2. /\ plan' \in [Plans -> PlanType]
          /\ status' \in [Devices -> Event]
      <3>1. [phase |-> "gone", finalizer |-> FALSE] \in PlanType
        BY DEF PlanType
      <3> QED
        BY <1>3, <3>1, NoEventType, Zenon DEF FinalizeDeletion, TypeOK
    <2> QED
      BY <1>3, <2>1, <2>2, Zenon DEF FinalizeDeletion, TypeOK, passVars, loopVars
  <1>4. CASE Crash
    BY <1>4, EndPassType, RefusedType DEF Crash, TypeOK, clusterVars, planVars
  <1> QED
    BY <1>1, <1>2, <1>3, <1>4 DEF BeginPass

(* The admin's steps keep the types. *)
LEMMA TypeAdminStep ==
  ASSUME TypeOK, AdminStep PROVE TypeOK'
  <1>1. ASSUME NEW kind, Editing(kind)
        PROVE  spent' \in [failures : Nat, edits : Nat]
    BY <1>1 DEF Editing, TypeOK
  <1>2. ASSUME NEW a \in Approvals, NEW from,
               NEW to \in {"active", "gone"}, SetApproval(a, from, to)
        PROVE  TypeOK'
    <2>1. Grant[a].plan \in Plans
      BY ConstantsAssumption DEF GrantType
    <2>2. [spec EXCEPT !.approvals[a] = to] \in SpecType
      BY DEF TypeOK, SpecType
    <2>3. spec' \in SpecType
      BY <1>2, <2>1, <2>2, BumpedType DEF SetApproval
    <2> QED
      BY <1>2, <2>3 DEF SetApproval, TypeOK, clusterVars, passVars, loopVars
  <1>3. ASSUME NEW a \in Approvals, AddApproval(a) \/ RemoveApproval(a)
        PROVE  TypeOK'
    BY <1>2, <1>3 DEF AddApproval, RemoveApproval
  <1>4. ASSUME NEW p \in Plans, EditFirmware(p) \/ EditDrain(p) PROVE TypeOK'
    <2>1. /\ [spec EXCEPT !.firmware[p] = ~@] \in SpecType
          /\ [spec EXCEPT !.drain[p] = ~@] \in SpecType
      BY Zenon DEF TypeOK, SpecType
    <2>2. spec' \in SpecType
      BY <1>4, <2>1, BumpedType DEF EditFirmware, EditDrain
    <2> QED
      BY <1>1, <1>4, <2>2
      DEF EditFirmware, EditDrain, TypeOK, clusterVars, passVars, loopVars
  <1>5. ASSUME NEW p \in Plans, DeletePlan(p) PROVE TypeOK'
    <2>1. plan' \in [Plans -> PlanType]
      <3>1. \A s \in {"deleting", "gone"} : [plan[p] EXCEPT !.phase = s] \in PlanType
        BY DEF TypeOK, PlanType
      <3> QED
        BY <1>5, <3>1 DEF DeletePlan, TypeOK
    <2> QED
      BY <1>1, <1>5, <2>1
      DEF DeletePlan, TypeOK, clusterVars, passVars, loopVars
  <1>6. ASSUME NEW n \in DOMAIN jobs, DeleteJob(n) PROVE TypeOK'
    <2>1. DOMAIN jobs' \subseteq JobNames /\ jobs' \in [DOMAIN jobs' -> Job]
      BY <1>6, JobsWithoutType DEF DeleteJob, TypeOK
    <2> QED
      BY <1>1, <1>6, <2>1, Zenon DEF DeleteJob, TypeOK, planVars, passVars, loopVars
  <1> QED
    BY <1>3, <1>4, <1>5, <1>6 DEF AdminStep

(* The steps of the rest of the cluster keep the types. *)
LEMMA TypeClusterStep ==
  ASSUME TypeOK, ClusterStep PROVE TypeOK'
  <1>1. ASSUME NEW d \in Devices, NEW k \in TaintKeys,
               TaintDevice(d, k) \/ UntaintDevice(d, k)
        PROVE  TypeOK'
    BY <1>1
    DEF TaintDevice, UntaintDevice, TypeOK, planVars, passVars, loopVars
  <1>2. ASSUME NEW d \in Devices, Expire(d) \/ ReleaseClaim(d) PROVE TypeOK'
    BY <1>2 DEF Expire, ReleaseClaim, TypeOK, planVars, passVars, loopVars
  <1>3. ASSUME NEW n \in DOMAIN jobs,
               \/ \E state \in {"complete", "failed"} : JobEnds(n, state)
               \/ JobOverdue(n)
        PROVE  TypeOK'
    <2>1. \A state \in {"complete", "failed"} :
            [jobs[n] EXCEPT !.state = state] \in Job
      BY DEF TypeOK, Job
    <2>2. [jobs[n] EXCEPT !.late = TRUE] \in Job
      BY LateType DEF TypeOK
    <2>3. DOMAIN jobs' = DOMAIN jobs /\ jobs' \in [DOMAIN jobs -> Job]
      BY <1>3, <2>1, <2>2, Zenon DEF JobEnds, JobOverdue, TypeOK
    <2> QED
      BY <1>3, <2>3 DEF JobEnds, JobOverdue, TypeOK, planVars, passVars, loopVars
  <1>4. ASSUME NEW p \in Plans, GarbageCollect(p) PROVE TypeOK'
    <2>1. DOMAIN jobs' \subseteq JobNames /\ jobs' \in [DOMAIN jobs' -> Job]
      BY <1>4, JobsWithoutType DEF GarbageCollect, TypeOK
    <2> QED
      BY <1>4, <2>1 DEF GarbageCollect, TypeOK, planVars, passVars, loopVars
  <1>5. ASSUME NEW n \in Nodes, ScheduleWorkload(n) \/ WorkloadEnds(n)
        PROVE  TypeOK'
    BY <1>5
    DEF ScheduleWorkload, WorkloadEnds, TypeOK, planVars, passVars, loopVars
  <1> QED
    BY <1>1, <1>2, <1>3, <1>4, <1>5 DEF ClusterStep

(* Every step keeps the types. *)
LEMMA TypeStep == TypeOK /\ [Next]_vars => TypeOK'
  <1> SUFFICES ASSUME TypeOK, [Next]_vars PROVE TypeOK'
    OBVIOUS
  <1>1. CASE UNCHANGED vars
    BY <1>1 DEF TypeOK, vars, clusterVars, planVars, passVars, loopVars
  <1> QED
    BY <1>1, TypePassStep, TypeBeginPass, TypeAdminStep, TypeClusterStep DEF Next

(* For any plans, GPUs and approvals, and whatever fails, the controller's *)
(* state keeps its types: in particular every event has a recovery type    *)
(* and every Job a name built from its GPU.                                *)
THEOREM TypeCorrect == Spec => []TypeOK
  BY TypeInit, TypeStep, PTL DEF Spec

-----------------------------------------------------------------------------
(* One owner per node, and no Job without an approval.                     *)

(* Events that own their node now owned it before, with the same approval  *)
(* of the same recovery: nothing new is started.                           *)
NothingStarts ==
    \A d \in Devices :
        events'[d].state \in Active =>
            /\ events[d].state \in Active
            /\ events'[d].approval = events[d].approval
            /\ events'[d].idType = events[d].idType
            /\ events'[d].type = events[d].type

(* A step of the pass that starts nothing keeps the working copy sound. *)
LEMMA NothingStartsKeeps ==
  ASSUME OneOwnerIn(events), ApprovedIn(events), NothingStarts
  PROVE  OneOwnerIn(events)' /\ ApprovedIn(events)'
  <1>1. OneOwnerIn(events)'
    BY DEF NothingStarts, OneOwnerIn
  <1>2. ApprovedIn(events)'
    BY DEF NothingStarts, ApprovedIn
  <1> QED
    BY <1>1, <1>2

(* The Jobs that are left were there before, created alike. *)
NoJobIsAdded ==
    \A n \in DOMAIN jobs' : /\ n \in DOMAIN jobs
                            /\ jobs'[n].approval = jobs[n].approval
                            /\ jobs'[n].type = jobs[n].type

(* Deleting Jobs and recording their verdicts leaves approved ones. *)
LEMMA NoJobIsAddedKeeps ==
  ASSUME JobsAreApproved, NoJobIsAdded PROVE JobsAreApproved'
  BY DEF JobsAreApproved, NoJobIsAdded

(* JobsWithout adds no Job. *)
LEMMA JobsWithoutAddsNone ==
  ASSUME NEW S, jobs' = JobsWithout(S) PROVE NoJobIsAdded
  BY DEF JobsWithout, NoJobIsAdded

(* A list without events owns no node. *)
LEMMA NoEventsOwn ==
  ASSUME NEW ev, ev = NoEvents PROVE OneOwnerIn(ev) /\ ApprovedIn(ev)
  BY DEF NoEvents, NoEvent, Active, OneOwnerIn, ApprovedIn

(* The approval findMatchingApproval picks covers the recovery that is     *)
(* started, also after applyOverride: an override changes one reset into   *)
(* another, never a reset into a reflash.                                  *)
LEMMA MatchApproves ==
  ASSUME TypeOK, NEW d \in Devices, NEW a, Authorises(a, d)
  PROVE  LET v == Verified(events[d], a)
         IN v.approval = a /\ Approves(a, d, v.idType, v.type)
  <1> DEFINE e == events[d]
             m == Matched(e, a)
  <1>1. /\ a \in Approvals /\ e \in Event /\ a \in MatchingApprovals(d, e)
    BY AuthorisesType
  <1>2. Grant[a].override \in RecoveryTypes \cup {"none"}
    BY <1>1, ConstantsAssumption DEF GrantType
  <1>3. /\ m.approval = a /\ m.idType = e.idType
        /\ Priority(m.type) = Priority(e.type)
    BY <1>1, <1>2 DEF Matched, ApplyOverride, Priority, Event, RecoveryTypes
  <1>4. LET v == Verified(e, a)
        IN v.approval = m.approval /\ v.idType = m.idType /\ v.type = m.type
    BY <1>1, MatchedType, AuthorisesType DEF Verified, Event
  <1>5. \/ <<d, e.idType>> \in Grant[a].names
        \/ e.type \in Grant[a].types /\ NodeOf[d] \in Grant[a].nodes
    BY <1>1 DEF MatchingApprovals
  <1> QED
    BY <1>1, <1>3, <1>4, <1>5 DEF Approves

(* createRecoveryJob for an approved event adds an approved Job. *)
LEMMA CreateApproved ==
  ASSUME JobsAreApproved, NEW d \in Devices, NEW e, NEW drained,
         Approves(e.approval, d, e.idType, e.type),
         CreateOrAdopt(d, e, drained)
  PROVE  JobsAreApproved'
  <1> DEFINE name == RecoveryJobName(d, e)
  <1>1. name[1] = d /\ name[2] = e.idType
    BY DEF RecoveryJobName
  <1>2. \A n \in DOMAIN jobs' :
          \/ n \in DOMAIN jobs /\ jobs'[n] = jobs[n]
          \/ n = name /\ jobs'[n].approval = e.approval /\ jobs'[n].type = e.type
    BY DEF CreateOrAdopt
  <1> HIDE DEF name
  <1>3. ASSUME NEW n \in DOMAIN jobs'
        PROVE  Approves(jobs'[n].approval, n[1], n[2], jobs'[n].type)
    BY <1>1, <1>2 DEF JobsAreApproved
  <1> QED
    BY <1>3, Zenon DEF JobsAreApproved, Approves

(* An event may become the owner of its node when nodeBusyWith finds no    *)
(* other and it holds an approval.                                         *)
LEMMA StartKeeps ==
  ASSUME TypeOK, OneOwnerIn(events), ApprovedIn(events),
         NEW d \in Devices, ~NodeBusyWith(d), NEW e,
         Approves(e.approval, d, e.idType, e.type),
         events' = [events EXCEPT ![d] = e]
  PROVE  OneOwnerIn(events)' /\ ApprovedIn(events)'
  <1>1. OneOwnerIn(events)'
    BY DEF TypeOK, NodeBusyWith, OneOwnerIn
  <1>2. ApprovedIn(events)'
    BY DEF TypeOK, ApprovedIn
  <1> QED
    BY <1>1, <1>2

(* Initially there are no events and no Jobs. *)
LEMMA RecoveryInit == Init => RecoveryInv
  <1> SUFFICES ASSUME Init PROVE RecoveryInv
    OBVIOUS
  <1>1. JobsAreApproved
    BY DEF Init, JobsAreApproved
  <1> QED
    BY <1>1, TypeInit, NoEventsOwn DEF Init, RecoveryInv, VisitsDraining

(* What a step has to keep besides the types. *)
Sound ==
    /\ OneOwnerIn(status) /\ OneOwnerIn(events)
    /\ ApprovedIn(status) /\ ApprovedIn(events)
    /\ JobsAreApproved

(* A step that leaves the plan's status alone, starts nothing and adds no  *)
(* Job is harmless.                                                        *)
LEMMA HarmlessStep ==
  ASSUME Sound, NothingStarts, NoJobIsAdded, status' = status PROVE Sound'
  BY NothingStartsKeeps, NoJobIsAddedKeeps
  DEF Sound, OneOwnerIn, ApprovedIn, Approves

(* So is one that changes neither events nor Jobs. *)
LEMMA IdleStep ==
  ASSUME Sound, UNCHANGED <<status, events, jobs>> PROVE Sound'
  BY HarmlessStep DEF NothingStarts, NoJobIsAdded

(* The end of a pass drops the working copy. *)
LEMMA EndPassSound ==
  ASSUME Sound, EndPass, UNCHANGED <<status, jobs>> PROVE Sound'
  <1>1. NothingStarts
    BY DEF EndPass, NothingStarts, NoEvents, NoEvent, Active
  <1> QED
    BY <1>1, HarmlessStep DEF NoJobIsAdded

(* processApprovals keeps the working copy sound at each event it visits. *)
LEMMA ApprovalsSound ==
  ASSUME TypeOK, Sound, NEW d \in Devices, NEW a \in Approvals,
         \/ BlockEvent(d, a) \/ HoldForImageFix(d, a)
         \/ BeginDrain(d, a) \/ CreateRecoveryJob(d, a)
         \/ CreateRecoveryJobFails(d, a) \/ ParkForFirmware(d, a)
  PROVE  Sound'
  <1>1. Visiting(d) /\ Authorises(a, d)
    BY Zenon DEF BlockEvent, HoldForImageFix, BeginDrain, CreateRecoveryJob,
           CreateRecoveryJobFails, ParkForFirmware, Starting
  <1>2. status' = status
    BY <1>1 DEF Visiting, planVars
  <1> DEFINE m == Matched(events[d], a)
             v == Verified(events[d], a)
  <1>3. /\ m \in Event /\ v \in Event
        /\ v.approval = a /\ Approves(a, d, v.idType, v.type)
    BY <1>1, AuthorisesType, MatchedType, MatchApproves
  <1>4. m.state \notin Active /\ v.state \notin Active
    <2>1. events[d].state \notin Active /\ events[d] \in Event
      BY <1>1, AuthorisesType DEF Authorises, Startable, Active
    <2>2. m.state \notin Active
      BY <2>1 DEF Matched, ApplyOverride, Event, Active
    <2> QED
      BY <1>3, <2>2 DEF Verified, Event
  <1> HIDE DEF m, v
  <1>5. CASE BlockEvent(d, a) \/ HoldForImageFix(d, a)
             \/ CreateRecoveryJobFails(d, a) \/ ParkForFirmware(d, a)
    <2>1. jobs' = jobs
      BY <1>5 DEF BlockEvent, HoldForImageFix, CreateRecoveryJobFails,
                  ParkForFirmware
    <2>2. /\ \A s : [m EXCEPT !.state = s].state = s
          /\ \A s : [v EXCEPT !.state = s].state = s
          /\ \A s, g : [m EXCEPT !.state = s, !.heldAt = g].state = s
      BY <1>3 DEF Event
    <2>3. /\ events'[d].state \notin Active
          /\ \A o \in Devices \ {d} : events'[o] = events[o]
      <3>1. CASE BlockEvent(d, a)
        BY <2>2, <3>1 DEF BlockEvent, TypeOK, Active, m
      <3>2. CASE HoldForImageFix(d, a)
        <4> DEFINE h == [m EXCEPT !.state = "waiting-approval",
                                  !.heldAt = snap.generation[cur]]
        <4>1. \/ events' = [events EXCEPT ![d] = m]
              \/ events' = [events EXCEPT ![d] = h]
          BY <3>2 DEF HoldForImageFix, m
        <4>2. h.state \notin Active
          BY <2>2 DEF Active
        <4> HIDE DEF h
        <4> QED
          BY <1>4, <4>1, <4>2 DEF TypeOK
      <3>3. CASE CreateRecoveryJobFails(d, a)
        BY <1>4, <3>3 DEF CreateRecoveryJobFails, TypeOK, v
      <3>4. CASE ParkForFirmware(d, a)
        BY <2>2, <3>4 DEF ParkForFirmware, TypeOK, Active, v
      <3> QED
        BY <1>5, <3>1, <3>2, <3>3, <3>4
    <2>4. NothingStarts
      BY <2>3 DEF NothingStarts
    <2> QED
      BY <1>2, <2>1, <2>4, HarmlessStep DEF NoJobIsAdded
  <1>6. CASE BeginDrain(d, a) \/ CreateRecoveryJob(d, a)
    <2>1. ~NodeBusyWith(d)
      BY <1>6, Zenon DEF BeginDrain, CreateRecoveryJob, Starting
    <2>2. PICK state \in Active :
            events' = [events EXCEPT ![d] = [v EXCEPT !.state = state]]
      BY <1>6, Zenon DEF BeginDrain, CreateRecoveryJob, Active, v
    <2> DEFINE e == [v EXCEPT !.state = state]
    <2>3. e.approval = a /\ e.idType = v.idType /\ e.type = v.type
      BY <1>3 DEF Event
    <2> HIDE DEF e
    <2>4. OneOwnerIn(events)' /\ ApprovedIn(events)'
      BY <1>3, <2>1, <2>2, <2>3, StartKeeps, Zenon DEF Sound, e
    <2>5. JobsAreApproved'
      <3>1. CASE BeginDrain(d, a)
        BY <3>1, Zenon DEF BeginDrain, Sound, JobsAreApproved, Approves
      <3>2. CASE CreateRecoveryJob(d, a)
        BY <1>3, <3>2, CreateApproved, Zenon DEF CreateRecoveryJob, Sound, v
      <3> QED
        BY <1>6, <3>1, <3>2
    <2> QED
      BY <1>2, <2>4, <2>5, Zenon DEF Sound, OneOwnerIn, ApprovedIn, Approves
  <1> QED
    BY <1>5, <1>6

(* processDrains moves an owner on or fails it; its Job has its approval. *)
LEMMA DrainsSound ==
  ASSUME TypeOK, Sound, NEW d \in Devices, events[d].state = "draining",
         DrainWaits(d) \/ DrainFails(d) \/ DrainCompletes(d)
  PROVE  Sound'
  <1>1. status' = status
    BY Zenon DEF DrainWaits, DrainFails, DrainCompletes, Draining, planVars
  <1>2. \A s : LET ev == [events EXCEPT ![d].state = s]
              IN /\ \A o \in Devices \ {d} : ev[o] = events[o]
                 /\ ev[d].approval = events[d].approval
                 /\ ev[d].idType = events[d].idType
                 /\ ev[d].type = events[d].type
    BY DEF TypeOK, Event
  <1>3. (\E s : events' = [events EXCEPT ![d].state = s]) => NothingStarts
    BY <1>2 DEF NothingStarts, Active
  <1>4. CASE Stalled(d)
    BY <1>1, <1>3, <1>4, HarmlessStep, Zenon
    DEF Stalled, NothingStarts, NoJobIsAdded
  <1>5. CASE /\ CreateOrAdopt(d, events[d], TRUE)
             /\ events' = [events EXCEPT ![d].state = "in-progress"]
    <2>1. NothingStarts
      BY <1>3, <1>5, Zenon
    <2>2. Approves(events[d].approval, d, events[d].idType, events[d].type)
      BY DEF Sound, ApprovedIn, Active
    <2>3. JobsAreApproved'
      BY <1>5, <2>2, CreateApproved, Zenon DEF Sound
    <2> QED
      BY <1>1, <2>1, <2>3, NothingStartsKeeps, Zenon
      DEF Sound, OneOwnerIn, ApprovedIn, Approves
  <1> QED
    BY <1>4, <1>5, Zenon DEF DrainWaits, DrainFails, DrainCompletes

(* Every step of a pass is sound. *)
LEMMA SoundPassStep ==
  ASSUME TypeOK, Sound, VisitsDraining, PassStep PROVE Sound'
  <1>1. CASE SyncRecoveryEventsFromSlices
    <2>1. PICK S \in SUBSET Doomed, added \in SUBSET Devices,
               rank \in [Devices -> Nat] :
            Detection(S, added, rank)
      BY <1>1, DetectionStep
    <2>2. ASSUME NEW d \in Devices, NEW r
          PROVE  [AddRecoveryEvent(d) EXCEPT !.rank = r].state \notin Active
      BY DEF AddRecoveryEvent, NoEvent, Active
    <2>3. ASSUME NEW d \in Devices, NEW r,
                 [EscalateEvent(d, events[d]) EXCEPT !.rank = r].state \in Active
          PROVE  LET e == [EscalateEvent(d, events[d]) EXCEPT !.rank = r]
                 IN /\ events[d].state \in Active
                    /\ e.approval = events[d].approval
                    /\ e.idType = events[d].idType
                    /\ e.type = events[d].type
      BY <2>3 DEF EscalateEvent, TypeOK, Event, Active
    <2>4. NoEvent.state \notin Active
      BY DEF NoEvent, Active
    <2>5. NothingStarts
      BY <2>1, <2>2, <2>3, <2>4 DEF Detection, NothingStarts
    <2>6. NoJobIsAdded
      BY <2>1, JobsWithoutAddsNone DEF Detection
    <2> QED
      BY <1>1, <2>5, <2>6, HarmlessStep
      DEF SyncRecoveryEventsFromSlices, planVars
  <1>2. CASE ListingSlicesFails
    BY <1>2, EndPassSound DEF ListingSlicesFails, clusterVars, planVars
  <1>3. CASE EnsureOpenShiftResources
    BY <1>3, IdleStep DEF EnsureOpenShiftResources, clusterVars, planVars
  <1>4. ASSUME NEW d \in Devices, NotApproved(d) PROVE Sound'
    BY <1>4, IdleStep DEF NotApproved, Visiting, planVars
  <1>5. CASE SetApprovalsConsumed
    BY <1>5, IdleStep DEF SetApprovalsConsumed, clusterVars, planVars
  <1>6. ASSUME NEW d \in Devices,
               DrainWaits(d) \/ DrainFails(d) \/ DrainCompletes(d)
        PROVE  Sound'
    <2>1. events[d].state = "draining"
      BY <1>6, Zenon DEF DrainWaits, DrainFails, DrainCompletes, Draining, Visits,
                  VisitsDraining
    <2> QED
      BY <1>6, <2>1, DrainsSound
  <1>7. CASE EndDrains
    BY <1>7, IdleStep DEF EndDrains, clusterVars, planVars
  <1>8. CASE SyncJobStatuses
    <2>1. ASSUME NEW d \in Devices, JobStatus(d, events[d]).state \in Active
          PROVE  JobStatus(d, events[d]) = events[d]
      <3>1. \A s \in {"succeeded", "failed"} :
              Verdict(d, events[d], s).state \notin Active
        BY DEF Verdict, TypeOK, Event, Active
      <3> QED
        BY <2>1, <3>1 DEF JobStatus
    <2>2. NothingStarts
      BY <1>8, <2>1 DEF SyncJobStatuses, NothingStarts
    <2> QED
      BY <1>8, <2>2, HarmlessStep
      DEF SyncJobStatuses, clusterVars, planVars, NoJobIsAdded
  <1>9. CASE ReconcileDrainTaints
    BY <1>9, IdleStep DEF ReconcileDrainTaints, planVars
  <1>10. CASE PersistStatus
    <2>1. \/ status' = status
          \/ status' = [d \in Devices |-> IF PlanOf[d] = cur THEN events[d]
                                                             ELSE status[d]]
      BY <1>10 DEF PersistStatus
    <2>2. OneOwnerIn(status)'
      BY <2>1 DEF Sound, OneOwnerIn
    <2>3. ApprovedIn(status)'
      BY <2>1 DEF Sound, ApprovedIn, Approves
    <2> QED
      BY <1>10, <2>2, <2>3, Zenon
      DEF PersistStatus, clusterVars, Sound, OneOwnerIn, ApprovedIn,
          JobsAreApproved, Approves
  <1>11. CASE PersistApprovals
    BY <1>11, EndPassSound DEF PersistApprovals, clusterVars
  <1> QED
    BY <1>1, <1>2, <1>3, <1>4, <1>5, <1>6, <1>7, <1>8, <1>9, <1>10, <1>11,
       ApprovalsSound
    DEF PassStep

(* The other steps are sound. *)
LEMMA SoundOtherStep ==
  ASSUME TypeOK, Sound,
         \/ \E p \in Plans : BeginPass(p)
         \/ Crash \/ AdminStep \/ ClusterStep \/ UNCHANGED vars
  PROVE  Sound'
  <1>1. ASSUME NEW p \in Plans, Reconcile(p) PROVE Sound'
    <2>1. events' = [d \in Devices |-> IF PlanOf[d] = p THEN status[d]
                                                        ELSE NoEvent]
      BY <1>1, Zenon DEF Reconcile
    <2>2. NoEvent.state \notin Active
      BY DEF NoEvent, Active
    <2>3. OneOwnerIn(events)'
      BY <2>1, <2>2 DEF Sound, OneOwnerIn
    <2>4. ApprovedIn(events)'
      BY <2>1, <2>2 DEF Sound, ApprovedIn, Approves
    <2> QED
      BY <1>1, <2>3, <2>4, Zenon
      DEF Reconcile, clusterVars, planVars, Sound, OneOwnerIn, ApprovedIn,
          JobsAreApproved, Approves
  <1>2. ASSUME NEW p \in Plans, AddFinalizer(p) PROVE Sound'
    BY <1>2, IdleStep DEF AddFinalizer, clusterVars, passVars
  <1>3. ASSUME NEW p \in Plans, FinalizeDeletion(p) PROVE Sound'
    <2>1. JobsAreApproved'
      BY <1>3, JobsWithoutAddsNone, NoJobIsAddedKeeps
      DEF FinalizeDeletion, Sound
    <2>2. \A d \in Devices : status'[d] = status[d] \/ status'[d] = NoEvent
      BY <1>3 DEF FinalizeDeletion
    <2>3. NoEvent.state \notin Active
      BY DEF NoEvent, Active
    <2>4. OneOwnerIn(status)'
      BY <2>2, <2>3 DEF Sound, OneOwnerIn
    <2>5. ApprovedIn(status)'
      BY <2>2, <2>3 DEF Sound, ApprovedIn, Approves
    <2> QED
      BY <1>3, <2>1, <2>4, <2>5, Zenon
      DEF FinalizeDeletion, passVars, Sound, OneOwnerIn, ApprovedIn, Approves
  <1>4. CASE Crash
    BY <1>4, EndPassSound DEF Crash, clusterVars, planVars
  <1>5. CASE AdminStep
    <2>1. ASSUME NEW n \in DOMAIN jobs, DeleteJob(n) PROVE Sound'
      <3>1. NoJobIsAdded
        BY <2>1, JobsWithoutAddsNone DEF DeleteJob
      <3> QED
        BY <2>1, <3>1, HarmlessStep
        DEF DeleteJob, planVars, passVars, NothingStarts
    <2>2. ASSUME NEW a \in Approvals, AddApproval(a) \/ RemoveApproval(a)
          PROVE  Sound'
      BY <2>2, IdleStep
      DEF AddApproval, RemoveApproval, SetApproval, clusterVars, passVars
    <2>3. ASSUME NEW p \in Plans,
                 EditFirmware(p) \/ EditDrain(p) \/ DeletePlan(p)
          PROVE  Sound'
      BY <2>3, IdleStep
      DEF EditFirmware, EditDrain, DeletePlan, clusterVars, passVars
    <2> QED
      BY <1>5, <2>1, <2>2, <2>3 DEF AdminStep
  <1>6. CASE ClusterStep
    <2>1. ASSUME NEW n \in DOMAIN jobs,
                 \/ \E state \in {"complete", "failed"} : JobEnds(n, state)
                 \/ JobOverdue(n)
          PROVE  Sound'
      <3>1. /\ \A s : LET j == [jobs[n] EXCEPT !.state = s]
                      IN j.approval = jobs[n].approval /\ j.type = jobs[n].type
            /\ LET j == [jobs[n] EXCEPT !.late = TRUE]
               IN j.approval = jobs[n].approval /\ j.type = jobs[n].type
        BY DEF TypeOK, Job
      <3>2. /\ DOMAIN jobs' = DOMAIN jobs
            /\ \A m \in DOMAIN jobs \ {n} : jobs'[m] = jobs[m]
            /\ \/ \E s : jobs'[n] = [jobs[n] EXCEPT !.state = s]
               \/ jobs'[n] = [jobs[n] EXCEPT !.late = TRUE]
        BY <2>1, Zenon DEF JobEnds, JobOverdue, TypeOK
      <3>3. /\ jobs'[n].approval = jobs[n].approval
            /\ jobs'[n].type = jobs[n].type
        BY <3>1, <3>2, Zenon
      <3>4. NoJobIsAdded
        BY <3>2, <3>3 DEF NoJobIsAdded
      <3> QED
        BY <2>1, <3>4, HarmlessStep
        DEF JobEnds, JobOverdue, planVars, passVars, NothingStarts
    <2>2. ASSUME NEW p \in Plans, GarbageCollect(p) PROVE Sound'
      <3>1. NoJobIsAdded
        BY <2>2, JobsWithoutAddsNone DEF GarbageCollect
      <3> QED
        BY <2>2, <3>1, HarmlessStep
        DEF GarbageCollect, planVars, passVars, NothingStarts
    <2>3. ASSUME \/ \E d \in Devices, k \in TaintKeys :
                       TaintDevice(d, k) \/ UntaintDevice(d, k)
                 \/ \E d \in Devices : Expire(d) \/ ReleaseClaim(d)
                 \/ \E n \in Nodes : ScheduleWorkload(n) \/ WorkloadEnds(n)
          PROVE  Sound'
      BY <2>3, IdleStep, Zenon
      DEF TaintDevice, UntaintDevice, Expire, ReleaseClaim, ScheduleWorkload,
          WorkloadEnds, planVars, passVars
    <2> QED
      BY <1>6, <2>1, <2>2, <2>3 DEF ClusterStep
  <1>7. CASE UNCHANGED vars
    BY <1>7, IdleStep DEF vars, clusterVars, planVars, passVars
  <1> QED
    BY <1>1, <1>2, <1>3, <1>4, <1>5, <1>6, <1>7 DEF BeginPass

(* beginDrain is the last thing that puts an event into draining before    *)
(* processDrains collects them, and each is visited once.                  *)
LEMMA VisitsDrainingStep ==
  ASSUME TypeOK, VisitsDraining, [Next]_vars PROVE VisitsDraining'
  <1>1. CASE PassStep
    <2>1. CASE SyncRecoveryEventsFromSlices
      BY <2>1 DEF SyncRecoveryEventsFromSlices, VisitsDraining
    <2>2. CASE ListingSlicesFails \/ PersistApprovals
      BY <2>2 DEF ListingSlicesFails, PersistApprovals, EndPass, VisitsDraining
    <2>3. CASE \/ EnsureOpenShiftResources \/ EndDrains \/ SyncJobStatuses
               \/ ReconcileDrainTaints \/ PersistStatus
      BY <2>3
      DEF EnsureOpenShiftResources, EndDrains, SyncJobStatuses,
          ReconcileDrainTaints, PersistStatus, VisitsDraining
    <2>4. CASE \E d \in Devices : Visiting(d)
      BY <2>4 DEF Visiting, VisitsDraining
    <2>5. CASE SetApprovalsConsumed
      BY <2>5 DEF SetApprovalsConsumed, VisitsDraining
    <2>6. ASSUME NEW d \in Devices,
                 DrainWaits(d) \/ DrainFails(d) \/ DrainCompletes(d)
          PROVE  VisitsDraining'
      <3>1. Draining(d)
        BY <2>6, Zenon DEF DrainWaits, DrainFails, DrainCompletes
      <3>2. \A o \in Devices \ {d} : events'[o] = events[o]
        BY <2>6, Zenon
        DEF DrainWaits, DrainFails, DrainCompletes, Stalled, TypeOK
      <3> QED
        BY <3>1, <3>2 DEF Draining, VisitsDraining, TypeOK
    <2>7. ASSUME NEW d \in Devices, NotApproved(d) PROVE VisitsDraining'
      BY <2>4, <2>7 DEF NotApproved
    <2>8. ASSUME NEW d \in Devices, NEW a \in Approvals,
                 \/ BlockEvent(d, a) \/ HoldForImageFix(d, a) \/ BeginDrain(d, a)
                 \/ CreateRecoveryJob(d, a) \/ CreateRecoveryJobFails(d, a)
                 \/ ParkForFirmware(d, a)
          PROVE  VisitsDraining'
      <3>1. CASE BlockEvent(d, a)
        BY <2>4, <3>1 DEF BlockEvent
      <3>2. CASE HoldForImageFix(d, a)
        BY <2>4, <3>2 DEF HoldForImageFix
      <3>3. CASE BeginDrain(d, a) \/ CreateRecoveryJob(d, a) \/ ParkForFirmware(d, a)
        <4>1. Visiting(d)
          BY <3>3, Zenon DEF BeginDrain, CreateRecoveryJob, ParkForFirmware, Starting
        <4> QED
          BY <2>4, <4>1
      <3>4. CASE CreateRecoveryJobFails(d, a)
        <4>1. Visiting(d)
          BY <3>4, Zenon DEF CreateRecoveryJobFails, Starting
        <4> QED
          BY <2>4, <4>1
      <3> QED
        BY <2>8, <3>1, <3>2, <3>3, <3>4
    <2> QED
      BY <1>1, <2>1, <2>2, <2>3, <2>5, <2>6, <2>7, <2>8 DEF PassStep
  <1>2. ASSUME NEW p \in Plans, BeginPass(p) PROVE VisitsDraining'
    BY <1>2
    DEF BeginPass, Reconcile, AddFinalizer, FinalizeDeletion, passVars,
        loopVars, VisitsDraining
  <1>3. CASE Crash
    BY <1>3 DEF Crash, EndPass, VisitsDraining
  <1>4. CASE AdminStep \/ ClusterStep \/ UNCHANGED vars
    <2>1. UNCHANGED passVars
      BY <1>4, Zenon
      DEF AdminStep, AddApproval, RemoveApproval, SetApproval, EditFirmware,
          EditDrain, DeletePlan, DeleteJob, ClusterStep, TaintDevice,
          UntaintDevice, Expire, ReleaseClaim, JobEnds, JobOverdue,
          GarbageCollect, ScheduleWorkload, WorkloadEnds, vars
    <2> QED
      BY <2>1 DEF passVars, loopVars, VisitsDraining
  <1> QED
    BY <1>1, <1>2, <1>3, <1>4 DEF Next

(* RecoveryInv is inductive. *)
LEMMA RecoveryStep == RecoveryInv /\ [Next]_vars => RecoveryInv'
  <1> SUFFICES ASSUME RecoveryInv, [Next]_vars PROVE RecoveryInv'
    OBVIOUS
  <1>1. TypeOK /\ Sound /\ VisitsDraining
    BY DEF RecoveryInv, Sound
  <1>2. TypeOK' /\ VisitsDraining'
    BY <1>1, TypeStep, VisitsDrainingStep
  <1>3. Sound'
    BY <1>1, SoundPassStep, SoundOtherStep DEF Next
  <1> QED
    BY <1>2, <1>3 DEF RecoveryInv, Sound

(* The invariant holds throughout, for any constants. *)
THEOREM RecoveryInvariant == Spec => []RecoveryInv
  BY RecoveryInit, RecoveryStep, PTL DEF Spec

(* nodeBusyWith works: however many GPUs share a node, whatever calls fail *)
(* and whenever the operator restarts, a plan's status never shows two     *)
(* recoveries that own the same node.                                      *)
THEOREM OneOwner == Spec => []OneOwnerPerNode
  <1>1. RecoveryInv => OneOwnerPerNode
    BY DEF RecoveryInv, OneOwnerPerNode
  <1> QED
    BY <1>1, RecoveryInvariant, PTL

(* Every recovery Job was let by an approval of its event or by a selector *)
(* for its node and its kind of operation: escalateEvent, applyOverride    *)
(* and re-approval never turn an approval of a reset into a reflash.       *)
THEOREM NoUnapprovedJob == Spec => []JobsAreApproved
  <1>1. RecoveryInv => JobsAreApproved
    BY DEF RecoveryInv
  <1> QED
    BY <1>1, RecoveryInvariant, PTL

-----------------------------------------------------------------------------
(***************************************************************************)
(* What one step of the GPURecoveryPlan controller and its cluster can do  *)
(* to the events of a plan, persisted and in the working copy of a pass,   *)
(* to the recovery Jobs and to the approvals.  The proofs about histories  *)
(* go by these cases; the first is that failed events stay failed.         *)
(***************************************************************************)

(* What one step does to the working copy of one event.                    *)

(* The event's ID, its past Jobs and its fault are what they were. *)
SameRecovery(d) ==
    /\ events'[d].idType = events[d].idType
    /\ events'[d].pastJobs = events[d].pastJobs
    /\ events'[d].fault = events[d].fault

Stays(d) ==
    /\ SameRecovery(d)
    /\ events'[d].state = events[d].state /\ events'[d].type = events[d].type
    /\ events'[d].approval = events[d].approval /\ events'[d].heldAt = events[d].heldAt

(* removeResolvedEvents, or no event before and after.                     *)
Clears(d) ==
    /\ pc = "detect" /\ events'[d] = NoEvent
    /\ events[d].state # "none" => d \in Resolved

Appears(d) ==
    /\ pc = "detect" /\ PlanOf[d] = cur /\ events[d].state = "none"
    /\ events'[d].state = "waiting-approval" /\ events'[d].pastJobs = <<>>
    /\ events'[d].type = events'[d].idType /\ events'[d].heldAt = 0

Escalates(d) ==
    /\ pc = "detect" /\ events[d].state \notin {"none", "in-progress"}
    /\ Priority(events[d].type) = 1
    /\ events'[d].state = "waiting-approval" /\ events'[d].heldAt = 0
    /\ events'[d].type = "reflash" /\ events'[d].idType = "reflash"
    /\ events'[d].pastJobs = events[d].pastJobs /\ events'[d].fault = events[d].fault

(* processApprovals found approval a for it.                               *)
Answers(d, a) ==
    /\ pc = "approve" /\ pc' = "approve" /\ d \in todo
    /\ Authorises(a, d) /\ SameRecovery(d)
    /\ events'[d].approval = a
    /\ Priority(events'[d].type) = Priority(events[d].type)
    /\ Grant[a].override \in {"none", "reflash"} => events'[d].type = events[d].type
    /\ events'[d].state \in EventStates \ {"failed", "succeeded"}
    /\ "image" \notin MayFail => events'[d].heldAt \in {0, events[d].heldAt}
    /\ events'[d].state = "blocked" => a \in kept' \/ events[d].state = "blocked"
    /\ events'[d].state = "in-progress" => ~NodeBusyWith(d)

(* processDrains took it on.                                               *)
Progresses(d) ==
    /\ pc = "drain" /\ events[d].state = "draining" /\ SameRecovery(d)
    /\ events'[d].state \in {"in-progress", "failed"}
    /\ events'[d].type = events[d].type
    /\ events'[d].approval = events[d].approval /\ events'[d].heldAt = events[d].heldAt

(* syncJobStatuses reached a verdict.                                      *)
IsJudged(d) ==
    /\ pc = "sync" /\ events[d].state = "in-progress"
    /\ \E s \in {"succeeded", "failed"} : events'[d] = Verdict(d, events[d], s)
    /\ RecoveryJobName(d, events[d]) \in DOMAIN jobs =>
         \/ jobs[RecoveryJobName(d, events[d])].state # "running"
         \/ jobs[RecoveryJobName(d, events[d])].late

Moves(d) ==
    \/ Stays(d) \/ Clears(d) \/ Appears(d) \/ Escalates(d)
    \/ \E a \in Approvals : Answers(d, a)
    \/ Progresses(d) \/ IsJudged(d)

(* syncRecoveryEventsFromSlices: S are the Jobs it deletes, all those of   *)
(* the events it removes unless a delete fails; added are GPUs that carry  *)
(* a taint and had no event.                                               *)
LEMMA DetectionOf ==
  ASSUME SyncRecoveryEventsFromSlices
  PROVE  \E S \in SUBSET Doomed, added \in SUBSET (ActiveKeys \ Present),
            rank \in [Devices -> Nat] :
           Detection(S, added, rank) /\ ("delete" \notin MayFail => S = Doomed)
  <1>1. PICK lost \in SUBSET (Doomed \cap DOMAIN jobs),
             added \in SUBSET (ActiveKeys \ Present),
             rank \in [Devices -> 1..Cardinality(Devices)] :
          Detection(Doomed \ lost, added, rank) /\ Refused(OnSome("delete", lost))
    BY Zenon DEF SyncRecoveryEventsFromSlices, Detection, Doomed
  <1>2. rank \in [Devices -> Nat]
    OBVIOUS
  <1>3. "delete" \notin MayFail => lost = {}
    BY <1>1 DEF Refused, OnSome
  <1> QED
    BY <1>1, <1>2, <1>3

(* What it does to one event. *)
LEMMA DetectMoves ==
  ASSUME TypeOK, SyncRecoveryEventsFromSlices, NEW d \in Devices
  PROVE  Moves(d)
  <1>1. PICK S \in SUBSET Doomed, added \in SUBSET (ActiveKeys \ Present),
             rank \in [Devices -> Nat] : Detection(S, added, rank)
    BY DetectionOf
  <1>2. /\ pc = "detect" /\ events[d] \in Event /\ DeviceNeed(d) \in RecoveryTypes
        /\ rank[d] \in Nat
    BY DeviceNeedType DEF SyncRecoveryEventsFromSlices, TypeOK
  <1>3. CASE d \in added
    <2>1. events'[d] = [AddRecoveryEvent(d) EXCEPT !.rank = rank[d]]
      BY <1>1, <1>3 DEF Detection
    <2>2. /\ events'[d].state = "waiting-approval" /\ events'[d].pastJobs = <<>>
          /\ events'[d].type = events'[d].idType /\ events'[d].heldAt = 0
      BY <2>1 DEF AddRecoveryEvent, NoEvent
    <2>3. PlanOf[d] = cur /\ events[d].state = "none"
      BY <1>3 DEF ActiveKeys, DevicesOf, Present
    <2> QED
      BY <1>2, <2>2, <2>3 DEF Moves, Appears
  <1>4. CASE d \notin added /\ d \in Present \ Resolved
    <2>1. events'[d] = [EscalateEvent(d, events[d]) EXCEPT !.rank = rank[d]]
      BY <1>1, <1>4 DEF Detection
    <2>2. CASE EscalateEvent(d, events[d]) = events[d]
      BY <1>2, <2>1, <2>2 DEF Event, Moves, Stays, SameRecovery
    <2>3. CASE EscalateEvent(d, events[d]) # events[d]
      <3> DEFINE e == [events[d] EXCEPT !.state = "waiting-approval", !.idType = DeviceNeed(d),
                                        !.type = DeviceNeed(d), !.approval = NoApproval,
                                        !.heldAt = 0]
      <3>1. /\ EscalateEvent(d, events[d]) = e /\ events[d].state # "in-progress"
            /\ ~(Priority(DeviceNeed(d)) <= Priority(events[d].type))
        BY <2>3 DEF EscalateEvent
      <3>2. DeviceNeed(d) = "reflash" /\ Priority(events[d].type) = 1
        BY <3>1 DEF Priority
      <3>3. /\ e \in Event /\ e.state = "waiting-approval" /\ e.heldAt = 0
            /\ e.type = "reflash" /\ e.idType = "reflash"
            /\ e.pastJobs = events[d].pastJobs /\ e.fault = events[d].fault
        BY <1>2, <3>2, Zenon DEF Event, EventStates, NoApproval
      <3> HIDE DEF e
      <3>4. /\ events'[d].state = "waiting-approval" /\ events'[d].heldAt = 0
            /\ events'[d].type = "reflash" /\ events'[d].idType = "reflash"
            /\ events'[d].pastJobs = events[d].pastJobs /\ events'[d].fault = events[d].fault
        BY <2>1, <3>1, <3>3 DEF Event
      <3>5. events[d].state # "none"
        BY <1>4 DEF Present
      <3> QED
        BY <1>2, <3>1, <3>2, <3>4, <3>5, Zenon DEF Moves, Escalates
    <2> QED
      BY <2>2, <2>3
  <1>5. CASE d \notin added /\ d \notin Present \ Resolved
    <2>1. events'[d] = NoEvent
      BY <1>1, <1>5 DEF Detection
    <2> QED
      BY <1>2, <1>5, <2>1 DEF Moves, Clears, Present
  <1> QED
    BY <1>3, <1>4, <1>5

(* The fields of an event an approval leaves.                              *)
LEMMA MatchedFields ==
  ASSUME TypeOK, NEW d \in Devices, NEW a \in Approvals, Authorises(a, d)
  PROVE  LET e == events[d]
             m == Matched(e, a)
             v == Verified(e, a)
         IN /\ m \in Event /\ m.idType = e.idType /\ m.pastJobs = e.pastJobs
            /\ m.fault = e.fault /\ m.approval = a /\ m.heldAt = e.heldAt
            /\ Priority(m.type) = Priority(e.type)
            /\ Grant[a].override \in {"none", "reflash"} => m.type = e.type
            /\ m.state \in {"waiting-approval", "blocked", "missing-firmware"}
            /\ m.state = "blocked" => e.state = "blocked"
            /\ v \in Event /\ v.idType = e.idType /\ v.pastJobs = e.pastJobs
            /\ v.fault = e.fault /\ v.approval = a /\ v.heldAt \in {0, e.heldAt}
            /\ v.type = m.type /\ v.state = m.state
  <1> DEFINE e == events[d]
             m == Matched(e, a)
             v == Verified(e, a)
             f == [e EXCEPT !.state = IF e.state = "failed" THEN "waiting-approval" ELSE e.state,
                            !.approval = a]
  <1>1. /\ e \in Event /\ Grant[a].override \in RecoveryTypes \cup {"none"}
        /\ e.state \in {"waiting-approval", "blocked", "missing-firmware", "failed"}
        /\ m \in Event /\ v \in Event
    <2>1. e \in Event /\ e.state # "none"
      BY AuthorisesType
    <2>2. Grant[a].override \in RecoveryTypes \cup {"none"}
      BY ConstantsAssumption DEF GrantType
    <2> QED
      BY <2>1, <2>2, MatchedType DEF Authorises, Startable
  <1>2. /\ f \in Event /\ f.idType = e.idType /\ f.pastJobs = e.pastJobs /\ f.type = e.type
        /\ f.fault = e.fault /\ f.approval = a /\ f.heldAt = e.heldAt
        /\ f.state \in {"waiting-approval", "blocked", "missing-firmware"}
        /\ f.state = "blocked" => e.state = "blocked"
    BY <1>1, Zenon DEF Event, EventStates
  <1>3. m = ApplyOverride(f, Grant[a].override)
    BY DEF Matched
  <1> HIDE DEF f
  <1>4. /\ m.idType = e.idType /\ m.pastJobs = e.pastJobs
        /\ m.fault = e.fault /\ m.approval = a /\ m.heldAt = e.heldAt
        /\ m.state = f.state
        /\ m.type = f.type \/ (f.type # "reflash" /\ m.type # "reflash")
        /\ Grant[a].override \in {"none", "reflash"} => m.type = e.type
    <2>1. m = f \/ m = [f EXCEPT !.type = Grant[a].override]
      BY <1>3 DEF ApplyOverride
    <2>2. m # f => Grant[a].override \notin {"none", "reflash"} /\ f.type # "reflash"
      BY <1>3 DEF ApplyOverride
    <2>3. CASE m = f
      BY <1>2, <2>3
    <2>4. CASE m # f
      <3>1. /\ m.idType = f.idType /\ m.pastJobs = f.pastJobs /\ m.fault = f.fault
            /\ m.approval = f.approval /\ m.heldAt = f.heldAt /\ m.state = f.state
            /\ m.type = Grant[a].override
        BY <1>2, <2>1, <2>4 DEF Event
      <3> QED
        BY <1>2, <2>2, <2>4, <3>1
    <2> QED
      BY <2>3, <2>4, Zenon
  <1>5. Priority(m.type) = Priority(e.type)
    BY <1>2, <1>4 DEF Priority
  <1>6. v = m \/ v = [m EXCEPT !.heldAt = 0]
    BY DEF Verified
  <1> HIDE DEF m, v, e
  <1>7. /\ v.idType = e.idType /\ v.pastJobs = e.pastJobs
        /\ v.fault = e.fault /\ v.approval = a /\ v.heldAt \in {0, e.heldAt}
        /\ v.type = m.type /\ v.state = m.state
    BY <1>1, <1>4, <1>6 DEF Event
  <1> QED
    BY <1>1, <1>2, <1>4, <1>5, <1>7, Zenon DEF m, v, e

(* What processApprovals does to the event it visits, and to no other. *)
LEMMA AnswerMoves ==
  ASSUME TypeOK, NEW d \in Devices, NEW a \in Approvals,
         \/ BlockEvent(d, a) \/ HoldForImageFix(d, a) \/ BeginDrain(d, a)
         \/ CreateRecoveryJob(d, a) \/ CreateRecoveryJobFails(d, a) \/ ParkForFirmware(d, a)
  PROVE  /\ Answers(d, a)
         /\ \A o \in Devices \ {d} : events'[o] = events[o]
  <1> DEFINE e == events[d]
             m == Matched(e, a)
             v == Verified(e, a)
  <1>1. Visiting(d) /\ Authorises(a, d)
    BY Zenon DEF BlockEvent, HoldForImageFix, BeginDrain, CreateRecoveryJob,
       CreateRecoveryJobFails, ParkForFirmware, Starting
  <1>2. /\ m \in Event /\ m.idType = e.idType /\ m.pastJobs = e.pastJobs
        /\ m.fault = e.fault /\ m.approval = a /\ m.heldAt = e.heldAt
        /\ Priority(m.type) = Priority(e.type)
        /\ Grant[a].override \in {"none", "reflash"} => m.type = e.type
        /\ m.state \in {"waiting-approval", "blocked", "missing-firmware"}
        /\ m.state = "blocked" => e.state = "blocked"
        /\ v \in Event /\ v.idType = e.idType /\ v.pastJobs = e.pastJobs
        /\ v.fault = e.fault /\ v.approval = a /\ v.heldAt \in {0, e.heldAt}
        /\ v.type = m.type /\ v.state = m.state
    BY <1>1, MatchedFields, Zenon
  <1>3. /\ pc = "approve" /\ pc' = "approve" /\ d \in todo
        /\ events \in [Devices -> Event]
    BY <1>1 DEF Visiting, Visits, TypeOK
  <1>4. \A x, s : x \in Event =>
          LET y == [x EXCEPT !.state = s]
          IN /\ y.state = s /\ y.idType = x.idType /\ y.pastJobs = x.pastJobs
             /\ y.fault = x.fault /\ y.approval = x.approval /\ y.heldAt = x.heldAt
             /\ y.type = x.type
    BY DEF Event
  <1> HIDE DEF m, v
  <1>5. CASE BlockEvent(d, a)
    <2>1. events' = [events EXCEPT ![d] = [m EXCEPT !.state = "blocked"]] /\ a \in kept'
      BY <1>5, Zenon DEF BlockEvent, m
    <2> QED
      BY <1>1, <1>2, <1>3, <1>4, <2>1 DEF Answers, SameRecovery, EventStates
  <1>6. CASE HoldForImageFix(d, a)
    <2>1. \/ events' = [events EXCEPT ![d] = m]
          \/ /\ "image" \in MayFail
             /\ events' = [events EXCEPT ![d] = [m EXCEPT !.state = "waiting-approval",
                                                         !.heldAt = snap.generation[cur]]]
      BY <1>6 DEF HoldForImageFix, Refused, m
    <2>2. CASE events' = [events EXCEPT ![d] = m]
      BY <1>1, <1>2, <1>3, <2>2, Zenon DEF Answers, SameRecovery, EventStates
    <2>3. CASE /\ "image" \in MayFail
               /\ events' = [events EXCEPT ![d] = [m EXCEPT !.state = "waiting-approval",
                                                           !.heldAt = snap.generation[cur]]]
      <3> DEFINE h == [m EXCEPT !.state = "waiting-approval", !.heldAt = snap.generation[cur]]
      <3>1. /\ h.state = "waiting-approval" /\ h.idType = m.idType /\ h.pastJobs = m.pastJobs
            /\ h.fault = m.fault /\ h.approval = m.approval /\ h.type = m.type
        BY <1>2 DEF Event
      <3> HIDE DEF h
      <3>2. events'[d] = h /\ \A o \in Devices \ {d} : events'[o] = events[o]
        BY <1>3, <2>3 DEF h
      <3> QED
        BY <1>1, <1>2, <1>3, <2>3, <3>1, <3>2 DEF Answers, SameRecovery, EventStates
    <2> QED
      BY <2>1, <2>2, <2>3
  <1>7. CASE BeginDrain(d, a) \/ CreateRecoveryJob(d, a) \/ ParkForFirmware(d, a)
    <2>1. PICK s \in {"draining", "in-progress", "missing-firmware"} :
             /\ events' = [events EXCEPT ![d] = [v EXCEPT !.state = s]]
             /\ s = "in-progress" => ~NodeBusyWith(d)
      BY <1>7, Zenon DEF BeginDrain, CreateRecoveryJob, ParkForFirmware, Starting, v
    <2> QED
      BY <1>1, <1>2, <1>3, <1>4, <2>1 DEF Answers, SameRecovery, EventStates
  <1>8. CASE CreateRecoveryJobFails(d, a)
    <2>1. events' = [events EXCEPT ![d] = v]
      BY <1>8, Zenon DEF CreateRecoveryJobFails, v
    <2> QED
      BY <1>1, <1>2, <1>3, <2>1, Zenon DEF Answers, SameRecovery, EventStates
  <1> QED
    BY <1>5, <1>6, <1>7, <1>8

(* What processDrains does to the event it visits, and to no other. *)
LEMMA DrainMoves ==
  ASSUME TypeOK, NEW d \in Devices, events[d].state = "draining",
         DrainWaits(d) \/ DrainFails(d) \/ DrainCompletes(d)
  PROVE  /\ pc = "drain" /\ (Stays(d) \/ Progresses(d))
         /\ \A o \in Devices \ {d} : events'[o] = events[o]
  <1>1. pc = "drain" /\ events \in [Devices -> Event]
    BY Zenon DEF DrainWaits, DrainFails, DrainCompletes, Draining, TypeOK
  <1>2. \/ events' = events
        \/ \E s \in {"in-progress", "failed"} :
              events' = [events EXCEPT ![d] = [events[d] EXCEPT !.state = s]]
    BY Zenon DEF DrainWaits, DrainFails, DrainCompletes, Stalled
  <1>3. CASE events' = events
    BY <1>1, <1>3 DEF Stays, SameRecovery
  <1>4. ASSUME NEW s \in {"in-progress", "failed"},
               events' = [events EXCEPT ![d] = [events[d] EXCEPT !.state = s]]
        PROVE  Progresses(d) /\ \A o \in Devices \ {d} : events'[o] = events[o]
    <2>1. events[d] \in Event
      BY <1>1
    <2>2. events'[d] = [events[d] EXCEPT !.state = s]
      BY <1>1, <1>4
    <2>3. /\ SameRecovery(d) /\ events'[d].state = s /\ events'[d].type = events[d].type
          /\ events'[d].approval = events[d].approval /\ events'[d].heldAt = events[d].heldAt
      BY <2>1, <2>2 DEF Event, SameRecovery
    <2> QED
      BY <1>1, <1>4, <2>3 DEF Progresses
  <1> QED
    BY <1>1, <1>2, <1>3, <1>4

(* What syncJobStatuses does to one event. *)
LEMMA JudgeMoves ==
  ASSUME TypeOK, SyncJobStatuses, NEW d \in Devices PROVE Stays(d) \/ IsJudged(d)
  <1>1. pc = "sync" /\ (events'[d] = events[d]
                          \/ (events[d].state = "in-progress" /\ events'[d] = JobStatus(d, events[d])))
    BY DEF SyncJobStatuses
  <1>2. CASE events'[d] = events[d]
    BY <1>2 DEF Stays, SameRecovery
  <1>3. CASE events[d].state = "in-progress" /\ events'[d] = JobStatus(d, events[d])
    <2> DEFINE name == RecoveryJobName(d, events[d])
    <2>1. \/ events'[d] = events[d]
          \/ /\ \E s \in {"succeeded", "failed"} : events'[d] = Verdict(d, events[d], s)
             /\ name \in DOMAIN jobs => jobs[name].state # "running" \/ jobs[name].late
      BY <1>3 DEF JobStatus
    <2> QED
      BY <1>1, <1>2, <1>3, <2>1 DEF IsJudged
  <1> QED
    BY <1>1, <1>2, <1>3

(* The pass as a step sees it: nothing of it changes, it begins, it ends,  *)
(* or it goes on and moves every event in one of the ways above.           *)
PassIdles == UNCHANGED <<pc, cur, events, snap, todo, used, kept, pruned>>
PassGoesOn ==
    /\ pc # "idle" /\ pc' # "idle" /\ pc' # "detect" /\ PassStep
    /\ UNCHANGED <<cur, snap>>
    /\ \A d \in Devices : Moves(d)

(* Every step is one of those. *)
LEMMA PassMoves ==
  ASSUME RecoveryInv, [Next]_vars
  PROVE  \/ PassIdles
         \/ \E p \in Plans : Reconcile(p)
         \/ EndPass /\ UNCHANGED status /\ (pc \in {"detect", "spec"} \/ "crash" \in MayFail)
         \/ PassGoesOn
  <1>0. TypeOK /\ VisitsDraining
    BY DEF RecoveryInv
  <1>1. CASE AdminStep \/ ClusterStep \/ UNCHANGED vars
    BY <1>1, Zenon
    DEF AdminStep, AddApproval, RemoveApproval, SetApproval, EditFirmware, EditDrain, DeletePlan,
        DeleteJob, ClusterStep, TaintDevice, UntaintDevice, Expire, ReleaseClaim, JobEnds,
        JobOverdue, GarbageCollect, ScheduleWorkload, WorkloadEnds, vars, passVars, loopVars,
        PassIdles
  <1>2. ASSUME NEW p \in Plans, AddFinalizer(p) \/ FinalizeDeletion(p) PROVE PassIdles
    BY <1>2 DEF AddFinalizer, FinalizeDeletion, passVars, loopVars, PassIdles
  <1>3. CASE ListingSlicesFails \/ PersistApprovals \/ Crash
    BY <1>3 DEF ListingSlicesFails, PersistApprovals, Crash, Refused, planVars
  <1>4. ASSUME PassStep, ~ListingSlicesFails, ~PersistApprovals PROVE PassGoesOn
    <2>1. CASE SyncRecoveryEventsFromSlices
      <3>1. \A d \in Devices : Moves(d)
        BY <1>0, <2>1, DetectMoves
      <3> QED
        BY <1>4, <2>1, <3>1 DEF SyncRecoveryEventsFromSlices, PassGoesOn
    <2>2. CASE \/ EnsureOpenShiftResources \/ SetApprovalsConsumed \/ EndDrains
               \/ ReconcileDrainTaints \/ PersistStatus
      <3>1. UNCHANGED events
        BY <2>2 DEF EnsureOpenShiftResources, SetApprovalsConsumed, EndDrains,
           ReconcileDrainTaints, PersistStatus
      <3>2. \A d \in Devices : Moves(d)
        BY <3>1 DEF Moves, Stays, SameRecovery
      <3> QED
        BY <1>4, <2>2, <3>2 DEF EnsureOpenShiftResources, SetApprovalsConsumed, EndDrains,
           ReconcileDrainTaints, PersistStatus, PassGoesOn
    <2>3. ASSUME NEW d \in Devices, NotApproved(d) PROVE PassGoesOn
      <3>1. \A o \in Devices : Moves(o)
        BY <2>3 DEF NotApproved, Moves, Stays, SameRecovery
      <3> QED
        BY <1>4, <2>3, <3>1 DEF NotApproved, Visiting, PassGoesOn
    <2>4. ASSUME NEW d \in Devices, NEW a \in Approvals,
                 \/ BlockEvent(d, a) \/ HoldForImageFix(d, a) \/ BeginDrain(d, a)
                 \/ CreateRecoveryJob(d, a) \/ CreateRecoveryJobFails(d, a)
                 \/ ParkForFirmware(d, a)
          PROVE  PassGoesOn
      <3>1. Answers(d, a) /\ \A o \in Devices \ {d} : events'[o] = events[o]
        BY <1>0, <2>4, AnswerMoves, Zenon
      <3>2. \A o \in Devices : Moves(o)
        BY <3>1, Zenon DEF Moves, Stays, SameRecovery
      <3>3. Visiting(d)
        BY <2>4, Zenon DEF BlockEvent, HoldForImageFix, BeginDrain, CreateRecoveryJob,
           CreateRecoveryJobFails, ParkForFirmware, Starting
      <3> QED
        BY <1>4, <3>2, <3>3 DEF Visiting, PassGoesOn
    <2>5. ASSUME NEW d \in Devices, DrainWaits(d) \/ DrainFails(d) \/ DrainCompletes(d)
          PROVE  PassGoesOn
      <3>1. Draining(d)
        BY <2>5, Zenon DEF DrainWaits, DrainFails, DrainCompletes
      <3>2. events[d].state = "draining"
        BY <1>0, <3>1 DEF Draining, Visits, VisitsDraining
      <3>3. (Stays(d) \/ Progresses(d)) /\ \A o \in Devices \ {d} : events'[o] = events[o]
        BY <1>0, <2>5, <3>2, DrainMoves
      <3>4. \A o \in Devices : Moves(o)
        BY <3>3, Zenon DEF Moves, Stays, SameRecovery
      <3> QED
        BY <1>4, <3>1, <3>4 DEF Draining, PassGoesOn
    <2>6. CASE SyncJobStatuses
      <3>1. \A o \in Devices : Moves(o)
        BY <1>0, <2>6, JudgeMoves DEF Moves
      <3> QED
        BY <1>4, <2>6, <3>1, Zenon DEF SyncJobStatuses, PassGoesOn
    <2> QED
      BY <1>4, <2>1, <2>2, <2>3, <2>4, <2>5, <2>6 DEF PassStep
  <1> QED
    BY <1>1, <1>2, <1>3, <1>4 DEF Next, BeginPass

(* A step of a pass visits one event in a loop, or is one of the others.   *)
LEMMA PassStepCases ==
  ASSUME PassStep
  PROVE  \/ \E d \in Devices : Visiting(d)
         \/ \E d \in Devices :
               Draining(d) /\ (DrainWaits(d) \/ DrainFails(d) \/ DrainCompletes(d))
         \/ SyncRecoveryEventsFromSlices \/ ListingSlicesFails \/ EnsureOpenShiftResources
         \/ SetApprovalsConsumed \/ EndDrains \/ SyncJobStatuses
         \/ ReconcileDrainTaints \/ PersistStatus \/ PersistApprovals
  <1>1. ASSUME NEW d \in Devices, NEW a \in Approvals,
               \/ BlockEvent(d, a) \/ HoldForImageFix(d, a) \/ BeginDrain(d, a)
               \/ CreateRecoveryJob(d, a) \/ CreateRecoveryJobFails(d, a)
               \/ ParkForFirmware(d, a)
        PROVE  Visiting(d)
    BY <1>1, Zenon DEF BlockEvent, HoldForImageFix, BeginDrain, CreateRecoveryJob,
       CreateRecoveryJobFails, ParkForFirmware, Starting
  <1>2. ASSUME NEW d \in Devices, DrainWaits(d) \/ DrainFails(d) \/ DrainCompletes(d)
        PROVE  Draining(d)
    BY <1>2, Zenon DEF DrainWaits, DrainFails, DrainCompletes
  <1>3. ASSUME NEW d \in Devices, NotApproved(d) PROVE Visiting(d)
    BY <1>3 DEF NotApproved
  <1> QED
    BY <1>1, <1>2, <1>3 DEF PassStep

(* What a step does to the persisted events: nothing, or it writes the     *)
(* working copy of the pass, or the plan is gone.                          *)
LEMMA StatusMoves ==
  ASSUME [Next]_vars
  PROVE  \/ UNCHANGED status
         \/ /\ PersistStatus /\ pc = "status" /\ pc' = "spec" /\ UNCHANGED <<cur, events, jobs>>
            /\ status' = [d \in Devices |-> IF PlanOf[d] = cur THEN events[d] ELSE status[d]]
         \/ \E p \in Plans :
               /\ FinalizeDeletion(p) /\ pc = "idle" /\ PassIdles
               /\ status' = [d \in Devices |-> IF PlanOf[d] = p THEN NoEvent ELSE status[d]]
  <1>1. CASE PersistStatus
    BY <1>1 DEF PersistStatus, clusterVars
  <1>2. ASSUME NEW p \in Plans, FinalizeDeletion(p)
        PROVE  \/ UNCHANGED status
               \/ /\ pc = "idle" /\ PassIdles
                  /\ status' = [d \in Devices |-> IF PlanOf[d] = p THEN NoEvent ELSE status[d]]
    BY <1>2 DEF FinalizeDeletion, passVars, loopVars, PassIdles
  <1>3. ASSUME NEW p \in Plans, Reconcile(p) \/ AddFinalizer(p) PROVE UNCHANGED status
    BY <1>3 DEF Reconcile, AddFinalizer, planVars
  <1>4. CASE AdminStep \/ ClusterStep \/ Crash \/ UNCHANGED vars
    BY <1>4, Zenon
    DEF AdminStep, AddApproval, RemoveApproval, SetApproval, EditFirmware, EditDrain, DeletePlan,
        DeleteJob, ClusterStep, TaintDevice, UntaintDevice, Expire, ReleaseClaim, JobEnds,
        JobOverdue, GarbageCollect, ScheduleWorkload, WorkloadEnds, Crash, vars, planVars
  <1>5. ASSUME PassStep, ~PersistStatus PROVE UNCHANGED status
    <2>1. ASSUME NEW d \in Devices, Visiting(d) \/ Draining(d) PROVE UNCHANGED status
      BY <2>1 DEF Visiting, Draining, planVars
    <2>2. CASE \/ SyncRecoveryEventsFromSlices \/ ListingSlicesFails \/ EnsureOpenShiftResources
               \/ SetApprovalsConsumed \/ EndDrains \/ SyncJobStatuses
               \/ ReconcileDrainTaints \/ PersistApprovals
      BY <2>2, Zenon
      DEF SyncRecoveryEventsFromSlices, ListingSlicesFails, EnsureOpenShiftResources,
          SetApprovalsConsumed, EndDrains, SyncJobStatuses, ReconcileDrainTaints,
          PersistApprovals, planVars
    <2> QED
      BY <1>5, <2>1, <2>2, PassStepCases
  <1> QED
    BY <1>1, <1>2, <1>3, <1>4, <1>5 DEF Next, BeginPass

-----------------------------------------------------------------------------
(* What one step does to the Jobs.                                         *)

(* No Job is added, none that has ended runs again, and none turns late    *)
(* but by outliving its deadline.                                          *)
JobsWane ==
    \A n \in DOMAIN jobs' :
        /\ n \in DOMAIN jobs
        /\ jobs'[n].fault = jobs[n].fault /\ jobs'[n].drained = jobs[n].drained
        /\ jobs'[n].state = "running" => jobs[n].state = "running"
        /\ jobs[n].late => jobs'[n].late
        /\ jobs'[n].late => jobs[n].late \/ "overdue" \in MayHappen

(* A recovery of d starts with a Job, a new one unless the name is taken.  *)
Starts(d) ==
    /\ pc \in {"approve", "drain"} /\ pc' = pc /\ UNCHANGED <<cur, work, claims>>
    /\ events[d].state \notin {"none", "in-progress"}
    /\ events'[d].state = "in-progress" /\ SameRecovery(d)
    /\ \A o \in Devices \ {d} : events'[o] = events[o]
    /\ DOMAIN jobs' = DOMAIN jobs \cup {RecoveryJobName(d, events[d])}
    /\ \A n \in DOMAIN jobs : jobs'[n] = jobs[n]
    /\ RecoveryJobName(d, events[d]) \notin DOMAIN jobs
       => LET job == jobs'[RecoveryJobName(d, events[d])]
          IN /\ job.state = "running" /\ ~job.late /\ job.fault = events[d].fault
             /\ job.drained => Drained(d) /\ <<cur, NodeOf[d]>> \in nodeTaint'

(* A Job is added unless its name is taken. *)
LEMMA JobAdded ==
  ASSUME NEW name, NEW job,
         jobs' = IF name \in DOMAIN jobs THEN jobs
                 ELSE [n \in DOMAIN jobs \cup {name} |-> IF n = name THEN job ELSE jobs[n]]
  PROVE  /\ DOMAIN jobs' = DOMAIN jobs \cup {name}
         /\ \A n \in DOMAIN jobs : jobs'[n] = jobs[n]
         /\ name \notin DOMAIN jobs => jobs'[name] = job
  OBVIOUS

(* Deleting Jobs leaves fewer. *)
LEMMA JobsWithoutWane ==
  ASSUME NEW S, jobs' = JobsWithout(S) PROVE JobsWane
  BY DEF JobsWithout, JobsWane

(* So does a Job that ends or outlives its deadline. *)
LEMMA JobEndsWanes ==
  ASSUME TypeOK, NEW n \in DOMAIN jobs,
         (\E state \in {"complete", "failed"} : JobEnds(n, state)) \/ JobOverdue(n)
  PROVE  JobsWane
  <1>1. jobs \in [DOMAIN jobs -> Job] /\ jobs[n] \in Job
    BY DEF TypeOK
  <1>2. ASSUME NEW state \in {"complete", "failed"}, JobEnds(n, state) PROVE JobsWane
    <2>1. jobs' = [jobs EXCEPT ![n] = [jobs[n] EXCEPT !.state = state]]
      BY <1>2, Zenon DEF JobEnds
    <2> DEFINE j == [jobs[n] EXCEPT !.state = state]
    <2>2. /\ j.state = state /\ j.fault = jobs[n].fault /\ j.drained = jobs[n].drained
          /\ j.late = jobs[n].late
      BY <1>1 DEF Job
    <2> HIDE DEF j
    <2> QED
      BY <1>1, <2>1, <2>2 DEF JobsWane, j
  <1>3. CASE JobOverdue(n)
    <2>1. /\ jobs' = [jobs EXCEPT ![n] = [jobs[n] EXCEPT !.late = TRUE]]
          /\ "overdue" \in MayHappen
      BY <1>3, Zenon DEF JobOverdue
    <2> DEFINE j == [jobs[n] EXCEPT !.late = TRUE]
    <2>2. /\ j.state = jobs[n].state /\ j.fault = jobs[n].fault
          /\ j.drained = jobs[n].drained /\ j.late
      BY <1>1, Zenon DEF Job
    <2> HIDE DEF j
    <2> QED
      BY <1>1, <2>1, <2>2 DEF JobsWane, j
  <1> QED
    BY <1>2, <1>3

(* processApprovals starts a recovery that needs no drain. *)
LEMMA CreateStarts ==
  ASSUME TypeOK, NEW d \in Devices, NEW a \in Approvals, CreateRecoveryJob(d, a)
  PROVE  Starts(d)
  <1> DEFINE v == Verified(events[d], a)
  <1>1. Answers(d, a) /\ \A o \in Devices \ {d} : events'[o] = events[o]
    BY AnswerMoves, Zenon
  <1>2. Visiting(d) /\ Authorises(a, d)
    BY Zenon DEF CreateRecoveryJob, Starting
  <1>3. /\ v \in Event /\ v.idType = events[d].idType /\ v.pastJobs = events[d].pastJobs
        /\ v.fault = events[d].fault
    BY <1>2, MatchedFields, Zenon
  <1>4. CreateOrAdopt(d, v, FALSE) /\ events' = [events EXCEPT ![d] = [v EXCEPT !.state = "in-progress"]]
    BY Zenon DEF CreateRecoveryJob
  <1>5. pc = "approve" /\ pc' = "approve" /\ UNCHANGED <<cur, work, claims>>
    BY <1>2 DEF Visiting
  <1>6. events'[d].state = "in-progress" /\ events[d].state \notin {"none", "in-progress"}
    <2>1. [v EXCEPT !.state = "in-progress"].state = "in-progress"
      BY <1>3 DEF Event
    <2> HIDE DEF v
    <2> QED
      BY <1>2, <1>4, <2>1 DEF TypeOK, Authorises, Startable
  <1> HIDE DEF v
  <1> DEFINE name == RecoveryJobName(d, events[d])
             job == [state |-> "running", type |-> v.type, late |-> FALSE,
                     approval |-> v.approval, drained |-> FALSE, fault |-> v.fault]
  <1>7. jobs' = IF name \in DOMAIN jobs THEN jobs
                ELSE [n \in DOMAIN jobs \cup {name} |-> IF n = name THEN job ELSE jobs[n]]
    BY <1>3, <1>4 DEF CreateOrAdopt, RecoveryJobName
  <1>8. job.state = "running" /\ ~job.late /\ job.fault = events[d].fault /\ ~job.drained
    BY <1>3
  <1> HIDE DEF job, name
  <1>9. /\ DOMAIN jobs' = DOMAIN jobs \cup {name}
        /\ \A n \in DOMAIN jobs : jobs'[n] = jobs[n]
        /\ name \notin DOMAIN jobs => jobs'[name] = job
    BY <1>7, JobAdded
  <1> QED
    BY <1>1, <1>5, <1>6, <1>8, <1>9, Zenon DEF Starts, Answers, name

(* processDrains starts one, or waits. *)
LEMMA DrainStarts ==
  ASSUME TypeOK, NEW d \in Devices, events[d].state = "draining",
         DrainWaits(d) \/ DrainFails(d) \/ DrainCompletes(d)
  PROVE  UNCHANGED jobs \/ Starts(d)
  <1>1. CASE Stalled(d)
    BY <1>1 DEF Stalled
  <1>2. ASSUME DrainCompletes(d), CreateOrAdopt(d, events[d], TRUE),
               events' = [events EXCEPT ![d] = [events[d] EXCEPT !.state = "in-progress"]]
        PROVE  Starts(d)
    <2>1. /\ pc = "drain" /\ pc' = "drain" /\ UNCHANGED <<cur, work, claims>>
          /\ Drained(d) /\ <<cur, NodeOf[d]>> \in nodeTaint'
      <3>1. Draining(d) /\ TaintNode(NodeOf[d]) /\ Drained(d) /\ UNCHANGED work
        BY <1>2, Zenon DEF DrainCompletes
      <3> QED
        BY <3>1, Zenon DEF Draining, TaintNode
    <2> DEFINE name == RecoveryJobName(d, events[d])
               job == [state |-> "running", type |-> events[d].type, late |-> FALSE,
                       approval |-> events[d].approval, drained |-> TRUE,
                       fault |-> events[d].fault]
    <2>2. jobs' = IF name \in DOMAIN jobs THEN jobs
                  ELSE [n \in DOMAIN jobs \cup {name} |-> IF n = name THEN job ELSE jobs[n]]
      BY <1>2 DEF CreateOrAdopt
    <2>4. job.state = "running" /\ ~job.late /\ job.fault = events[d].fault
      BY Zenon
    <2> HIDE DEF job, name
    <2>5. /\ DOMAIN jobs' = DOMAIN jobs \cup {name}
          /\ \A n \in DOMAIN jobs : jobs'[n] = jobs[n]
          /\ name \notin DOMAIN jobs => jobs'[name] = job
      BY <2>2, JobAdded
    <2>3. /\ events'[d].state = "in-progress" /\ SameRecovery(d)
          /\ \A o \in Devices \ {d} : events'[o] = events[o]
      <3>1. events \in [Devices -> Event] /\ events[d] \in Event
        BY DEF TypeOK
      <3>2. LET e == [events[d] EXCEPT !.state = "in-progress"]
            IN /\ e.state = "in-progress" /\ e.idType = events[d].idType
               /\ e.pastJobs = events[d].pastJobs /\ e.fault = events[d].fault
        BY <3>1 DEF Event
      <3> QED
        BY <1>2, <3>1, <3>2, Zenon DEF SameRecovery
    <2> QED
      BY <2>1, <2>3, <2>4, <2>5, Zenon DEF Starts, name
  <1> QED
    BY <1>1, <1>2, Zenon DEF DrainWaits, DrainFails, DrainCompletes

(* A step of a pass starts a recovery, or leaves the Jobs alone, but for   *)
(* those removeResolvedEvents deletes.                                     *)
LEMMA PassStepJobs ==
  ASSUME RecoveryInv, PassStep, ~SyncRecoveryEventsFromSlices
  PROVE  UNCHANGED jobs \/ \E d \in Devices : Starts(d)
  <1>0. TypeOK /\ VisitsDraining
    BY DEF RecoveryInv
  <1>2. CASE \/ ListingSlicesFails \/ EnsureOpenShiftResources \/ SetApprovalsConsumed
             \/ EndDrains \/ SyncJobStatuses \/ ReconcileDrainTaints \/ PersistStatus
             \/ PersistApprovals
    BY <1>2, Zenon
    DEF ListingSlicesFails, EnsureOpenShiftResources, SetApprovalsConsumed, EndDrains,
        SyncJobStatuses, ReconcileDrainTaints, PersistStatus, PersistApprovals, clusterVars
  <1>3. ASSUME NEW d \in Devices, NotApproved(d) PROVE UNCHANGED jobs
    BY <1>3 DEF NotApproved
  <1>4. ASSUME NEW d \in Devices, NEW a \in Approvals,
               \/ BlockEvent(d, a) \/ HoldForImageFix(d, a) \/ BeginDrain(d, a)
               \/ CreateRecoveryJobFails(d, a) \/ ParkForFirmware(d, a)
        PROVE  UNCHANGED jobs
    BY <1>4, Zenon DEF BlockEvent, HoldForImageFix, BeginDrain, CreateRecoveryJobFails,
       ParkForFirmware
  <1>5. ASSUME NEW d \in Devices, DrainWaits(d) \/ DrainFails(d) \/ DrainCompletes(d)
        PROVE  UNCHANGED jobs \/ Starts(d)
    <2>1. Draining(d)
      BY <1>5, Zenon DEF DrainWaits, DrainFails, DrainCompletes
    <2>2. events[d].state = "draining"
      BY <1>0, <2>1 DEF Draining, Visits, VisitsDraining
    <2> QED
      BY <1>0, <1>5, <2>2, DrainStarts
  <1> QED
    BY <1>0, <1>2, <1>3, <1>4, <1>5, CreateStarts DEF PassStep

(* Every step starts a recovery with its Job, or adds no Job. *)
LEMMA JobsMove ==
  ASSUME RecoveryInv, [Next]_vars
  PROVE  JobsWane \/ \E d \in Devices : Starts(d)
  <1>0. TypeOK
    BY DEF RecoveryInv
  <1>1. CASE UNCHANGED jobs
    BY <1>1 DEF JobsWane
  <1>2. CASE PassStep
    <2>1. CASE SyncRecoveryEventsFromSlices
      BY <2>1, DetectionOf, JobsWithoutWane DEF Detection
    <2> QED
      BY <1>1, <1>2, <2>1, PassStepJobs
  <1>3. ASSUME NEW p \in Plans, BeginPass(p) PROVE JobsWane
    <2>1. CASE Reconcile(p) \/ AddFinalizer(p)
      BY <2>1 DEF Reconcile, AddFinalizer, clusterVars, JobsWane
    <2>2. CASE FinalizeDeletion(p)
      BY <2>2, JobsWithoutWane DEF FinalizeDeletion
    <2> QED
      BY <1>3, <2>1, <2>2 DEF BeginPass
  <1>4. CASE Crash \/ UNCHANGED vars
    BY <1>1, <1>4 DEF Crash, vars, clusterVars
  <1>5. CASE AdminStep
    BY <1>1, <1>5, JobsWithoutWane, Zenon
    DEF AdminStep, AddApproval, RemoveApproval, SetApproval, EditFirmware, EditDrain, DeletePlan,
        DeleteJob, clusterVars
  <1>6. CASE ClusterStep
    <2>1. ASSUME NEW p \in Plans, GarbageCollect(p) PROVE JobsWane
      BY <2>1, JobsWithoutWane, Zenon DEF GarbageCollect
    <2>2. CASE \/ \E d \in Devices, k \in TaintKeys : TaintDevice(d, k) \/ UntaintDevice(d, k)
               \/ \E d \in Devices : Expire(d) \/ ReleaseClaim(d)
               \/ \E n \in Nodes : ScheduleWorkload(n) \/ WorkloadEnds(n)
      BY <1>1, <2>2, Zenon DEF TaintDevice, UntaintDevice, Expire, ReleaseClaim, ScheduleWorkload,
         WorkloadEnds
    <2> QED
      BY <1>0, <1>6, <2>1, <2>2, JobEndsWanes DEF ClusterStep
  <1> QED
    BY <1>2, <1>3, <1>4, <1>5, <1>6 DEF Next

-----------------------------------------------------------------------------
(* What one step does to the approvals.                                    *)

(* Every write to a plan's spec bumps its metadata.generation. *)
GenerationsGrow == \A p \in Plans : spec'.generation[p] >= spec.generation[p]

(* An admin adds or removes one; a pass marks and prunes them at its end.  *)
LEMMA ApprovalsMove ==
  ASSUME TypeOK, [Next]_vars
  PROVE  /\ GenerationsGrow
         /\ \/ spec'.approvals = spec.approvals
            \/ /\ PassIdles /\ UNCHANGED status
               /\ \E a \in Approvals, to \in {"active", "gone"} :
                     /\ spec'.approvals = [spec.approvals EXCEPT ![a] = to]
                     /\ to = "active" => spec.approvals[a] = "unused"
                     /\ to = "gone" => spec.approvals[a] # "unused"
            \/ /\ pc = "spec" /\ EndPass /\ UNCHANGED status
               /\ spec'.approvals = Apply(spec.approvals)
  <1>1. ASSUME NEW s, s \in SpecType, NEW p \in Plans
        PROVE  /\ Bumped(s, p).approvals = s.approvals
               /\ \A q \in Plans : Bumped(s, p).generation[q] >= s.generation[q]
    <2>1. s.generation \in [Plans -> Nat]
      BY <1>1 DEF SpecType
    <2> DEFINE g == [s.generation EXCEPT ![p] = s.generation[p] + 1]
    <2>2. Bumped(s, p) = [s EXCEPT !.generation = g]
      BY Zenon DEF Bumped
    <2>3. \A q \in Plans : g[q] >= s.generation[q]
      BY <2>1
    <2> HIDE DEF g
    <2>4. Bumped(s, p).generation = g /\ Bumped(s, p).approvals = s.approvals
      BY <1>1, <2>2 DEF SpecType
    <2> QED
      BY <2>3, <2>4
  <1>2. /\ spec \in SpecType /\ cur \in Plans /\ spec.generation \in [Plans -> Nat]
        /\ \A a \in Approvals : Grant[a].plan \in Plans
    BY ConstantsAssumption DEF TypeOK, SpecType, GrantType
  <1>11. CASE UNCHANGED spec
    <2>1. \A p \in Plans : spec.generation[p] \in Nat /\ spec'.generation[p] = spec.generation[p]
      BY <1>2, <1>11
    <2>2. \A p \in Plans : spec'.generation[p] >= spec.generation[p]
      BY <2>1
    <2> QED
      BY <1>11, <2>2 DEF GenerationsGrow
  <1>3. CASE PersistApprovals
    <2>1. /\ pc = "spec" /\ EndPass /\ UNCHANGED status
      BY <1>3 DEF PersistApprovals
    <2> DEFINE s == [spec EXCEPT !.approvals = Apply(spec.approvals)]
    <2>2. spec' = spec \/ spec' = Bumped(s, cur)
      BY <1>3 DEF PersistApprovals
    <2>3. /\ s \in SpecType /\ s.approvals = Apply(spec.approvals)
          /\ s.generation = spec.generation
      <3>1. Apply(spec.approvals) \in [Approvals -> {"unused", "active", "consumed", "gone"}]
        BY <1>2 DEF Apply, SpecType
      <3> QED
        BY <1>2, <3>1 DEF SpecType
    <2> HIDE DEF s
    <2>4. /\ Bumped(s, cur).approvals = s.approvals
          /\ \A q \in Plans : Bumped(s, cur).generation[q] >= s.generation[q]
      BY <1>1, <1>2, <2>3
    <2>5. GenerationsGrow
      BY <1>11, <2>2, <2>3, <2>4 DEF GenerationsGrow
    <2> QED
      BY <2>1, <2>2, <2>3, <2>4, <2>5
  <1>4. ASSUME NEW a \in Approvals, AddApproval(a) \/ RemoveApproval(a)
        PROVE  /\ PassIdles /\ UNCHANGED status /\ GenerationsGrow
               /\ \E to \in {"active", "gone"} :
                    /\ spec'.approvals = [spec.approvals EXCEPT ![a] = to]
                    /\ to = "active" => spec.approvals[a] = "unused"
                    /\ to = "gone" => spec.approvals[a] # "unused"
    <2>1. PICK to \in {"active", "gone"} :
             /\ spec' = Bumped([spec EXCEPT !.approvals = [spec.approvals EXCEPT ![a] = to]],
                               Grant[a].plan)
             /\ to = "active" => spec.approvals[a] = "unused"
             /\ to = "gone" => spec.approvals[a] # "unused"
      <3>1. CASE AddApproval(a)
        BY <3>1, Zenon DEF AddApproval, SetApproval
      <3>2. CASE RemoveApproval(a)
        <4>1. /\ spec' = Bumped([spec EXCEPT !.approvals = [spec.approvals EXCEPT ![a] = "gone"]],
                                Grant[a].plan)
              /\ spec.approvals[a] \in {"active", "consumed"}
          BY <3>2, Zenon DEF RemoveApproval, SetApproval
        <4> QED
          BY <4>1
      <3> QED
        BY <1>4, <3>1, <3>2
    <2> DEFINE s == [spec EXCEPT !.approvals = [spec.approvals EXCEPT ![a] = to]]
    <2>2. /\ s \in SpecType /\ s.approvals = [spec.approvals EXCEPT ![a] = to]
          /\ s.generation = spec.generation
      BY <1>2 DEF SpecType
    <2>4. spec' = Bumped(s, Grant[a].plan)
      BY <2>1
    <2> HIDE DEF s
    <2>5. /\ Bumped(s, Grant[a].plan).approvals = s.approvals
          /\ \A q \in Plans : Bumped(s, Grant[a].plan).generation[q] >= s.generation[q]
      BY <1>1, <1>2, <2>2
    <2>3. PassIdles /\ UNCHANGED status
      BY <1>4 DEF AddApproval, RemoveApproval, SetApproval, passVars, loopVars, PassIdles
    <2>6. GenerationsGrow
      BY <2>2, <2>4, <2>5 DEF GenerationsGrow
    <2> QED
      BY <2>1, <2>2, <2>3, <2>4, <2>5, <2>6
  <1>5. ASSUME NEW p \in Plans, EditFirmware(p) \/ EditDrain(p)
        PROVE  spec'.approvals = spec.approvals /\ GenerationsGrow
    <2>1. \A f : f \in [Plans -> BOOLEAN] => [f EXCEPT ![p] = ~f[p]] \in [Plans -> BOOLEAN]
      BY Zenon
    <2>2. CASE EditFirmware(p)
      <3> DEFINE f == [spec.firmware EXCEPT ![p] = ~spec.firmware[p]]
                 s == [spec EXCEPT !.firmware = f]
      <3>1. spec' = Bumped(s, p)
        BY <2>2, Zenon DEF EditFirmware
      <3>2. f \in [Plans -> BOOLEAN]
        BY <1>2, <2>1 DEF SpecType
      <3> HIDE DEF f
      <3>3. /\ s \in SpecType /\ s.approvals = spec.approvals
            /\ s.generation = spec.generation
        BY <1>2, <3>2 DEF SpecType
      <3> HIDE DEF s
      <3> QED
        BY <1>1, <3>1, <3>3 DEF GenerationsGrow
    <2>3. CASE EditDrain(p)
      <3> DEFINE f == [spec.drain EXCEPT ![p] = ~spec.drain[p]]
                 s == [spec EXCEPT !.drain = f]
      <3>1. spec' = Bumped(s, p)
        BY <2>3, Zenon DEF EditDrain
      <3>2. f \in [Plans -> BOOLEAN]
        BY <1>2, <2>1 DEF SpecType
      <3> HIDE DEF f
      <3>3. /\ s \in SpecType /\ s.approvals = spec.approvals
            /\ s.generation = spec.generation
        BY <1>2, <3>2 DEF SpecType
      <3> HIDE DEF s
      <3> QED
        BY <1>1, <3>1, <3>3 DEF GenerationsGrow
    <2> QED
      BY <1>5, <2>2, <2>3
  <1>6. CASE Crash \/ UNCHANGED vars \/ ClusterStep
    BY <1>6, <1>11 DEF Crash, vars, planVars, ClusterStep, TaintDevice, UntaintDevice, Expire,
       ReleaseClaim, JobEnds, JobOverdue, GarbageCollect, ScheduleWorkload, WorkloadEnds
  <1>7. ASSUME NEW p \in Plans, BeginPass(p) \/ DeletePlan(p) PROVE UNCHANGED spec
    BY <1>7 DEF BeginPass, Reconcile, AddFinalizer, FinalizeDeletion, DeletePlan, planVars
  <1>8. ASSUME NEW n \in DOMAIN jobs, DeleteJob(n) PROVE UNCHANGED spec
    BY <1>8 DEF DeleteJob, planVars
  <1>9. ASSUME PassStep, ~PersistApprovals PROVE UNCHANGED spec
    <2>1. ASSUME NEW d \in Devices, Visiting(d) \/ Draining(d) PROVE UNCHANGED spec
      BY <2>1 DEF Visiting, Draining, planVars
    <2>2. CASE \/ SyncRecoveryEventsFromSlices \/ ListingSlicesFails \/ EnsureOpenShiftResources
               \/ SetApprovalsConsumed \/ EndDrains \/ SyncJobStatuses
               \/ ReconcileDrainTaints \/ PersistStatus
      BY <2>2, Zenon
      DEF SyncRecoveryEventsFromSlices, ListingSlicesFails, EnsureOpenShiftResources,
          SetApprovalsConsumed, EndDrains, SyncJobStatuses, ReconcileDrainTaints,
          PersistStatus, planVars
    <2> QED
      BY <1>9, <2>1, <2>2, PassStepCases
  <1>10. CASE AdminStep
    BY <1>4, <1>5, <1>7, <1>8, <1>10, <1>11, Zenon DEF AdminStep
  <1> QED
    BY <1>3, <1>6, <1>7, <1>9, <1>10, <1>11, Zenon DEF Next

(* An approval once added is never unused again. *)
LEMMA GivenStays ==
  ASSUME TypeOK, [Next]_vars, NEW a \in Approvals, spec.approvals[a] # "unused"
  PROVE  spec'.approvals[a] # "unused"
  <1>1. spec.approvals \in [Approvals -> {"unused", "active", "consumed", "gone"}]
    BY DEF TypeOK, SpecType
  <1>2. Apply(spec.approvals)[a] # "unused"
    BY <1>1 DEF Apply
  <1> QED
    BY <1>1, <1>2, ApprovalsMove, Zenon

-----------------------------------------------------------------------------
(* How a pass goes on, and how the copy and the record are related.        *)

(* The steps of a pass between which it does not end. *)
Continues ==
    \/ /\ pc = "detect" /\ pc' \in {"openshift", "approve"} /\ UNCHANGED <<used, kept>>
       /\ \A d \in Devices \ todo' : events'[d] = NoEvent
    \/ pc = "openshift" /\ pc' = "approve" /\ UNCHANGED <<events, todo, used, kept>>
    \/ pc = "openshift" /\ pc' = "status" /\ UNCHANGED <<events, used, kept>>
    \/ pc = "approve" /\ pc' = "approve" /\ \E d \in Devices : Visiting(d)
    \/ /\ pc = "approve" /\ pc' = "drain" /\ todo = {} /\ UNCHANGED events
       /\ used' = used \ kept
    \/ /\ pc \in {"drain", "sync", "finish", "status"}
       /\ pc' \in {"drain", "sync", "finish", "status", "spec"} /\ UNCHANGED used

(* Those are all of them. *)
LEMMA PassContinues ==
  ASSUME PassStep, pc' # "idle" PROVE Continues
  <1>1. CASE SyncRecoveryEventsFromSlices
    <2>1. pc = "detect" /\ pc' \in {"openshift", "approve"} /\ UNCHANGED <<used, kept>>
      BY <1>1 DEF SyncRecoveryEventsFromSlices
    <2>2. \A d \in Devices \ todo' : events'[d] = NoEvent
      BY <1>1, DetectionOf DEF Detection
    <2> QED
      BY <2>1, <2>2 DEF Continues
  <1>2. CASE EnsureOpenShiftResources
    BY <1>2 DEF EnsureOpenShiftResources, Continues
  <1>3. CASE ListingSlicesFails \/ PersistApprovals
    BY <1>3 DEF ListingSlicesFails, PersistApprovals, EndPass
  <1>4. ASSUME NEW d \in Devices, Visiting(d) PROVE Continues
    BY <1>4 DEF Visiting, Continues
  <1>5. ASSUME NEW d \in Devices, Draining(d) PROVE Continues
    BY <1>5 DEF Draining, Continues
  <1>6. CASE SetApprovalsConsumed
    BY <1>6 DEF SetApprovalsConsumed, ConsumedIDs, Continues
  <1>7. CASE EndDrains \/ SyncJobStatuses \/ ReconcileDrainTaints \/ PersistStatus
    BY <1>7 DEF EndDrains, SyncJobStatuses, ReconcileDrainTaints, PersistStatus, loopVars,
       Continues
  <1> QED
    BY <1>1, <1>2, <1>3, <1>4, <1>5, <1>6, <1>7, PassStepCases

(* A GPU without an event has no past Jobs, either. *)
LEMMA NoEventFields ==
  /\ NoEvent.state = "none" /\ NoEvent.pastJobs = <<>> /\ NoEvent.heldAt = 0
  /\ NoEvent.idType = "reflash" /\ NoEvent.type = "reflash"
  BY DEF NoEvent

(* The fields a verdict leaves, and the Job it files. *)
LEMMA VerdictFields ==
  ASSUME NEW d \in Devices, NEW e \in Event, NEW s
  PROVE  LET v == Verdict(d, e, s)
         IN /\ v.state = s /\ v.idType = e.idType /\ v.type = e.type /\ v.fault = e.fault
            /\ v.approval = e.approval /\ v.heldAt = e.heldAt
            /\ v.pastJobs = Append(e.pastJobs, RecoveryJobName(d, e))
  BY DEF Verdict, Event

(* A verdict leaves an event what it was but for its state, and files its  *)
(* Job.                                                                    *)
LEMMA JudgedFields ==
  ASSUME TypeOK, NEW d \in Devices, IsJudged(d)
  PROVE  /\ events'[d].idType = events[d].idType /\ events'[d].type = events[d].type
         /\ events'[d].fault = events[d].fault /\ events'[d].approval = events[d].approval
         /\ events'[d].heldAt = events[d].heldAt
         /\ events'[d].state \in {"succeeded", "failed"} /\ events[d].state = "in-progress"
  <1>1. events[d] \in Event /\ events[d].state = "in-progress"
    BY DEF TypeOK, IsJudged
  <1>2. PICK s \in {"succeeded", "failed"} : events'[d] = Verdict(d, events[d], s)
    BY DEF IsJudged
  <1> DEFINE v == Verdict(d, events[d], s)
  <1>3. /\ v.state = s /\ v.idType = events[d].idType /\ v.type = events[d].type
        /\ v.fault = events[d].fault /\ v.approval = events[d].approval
        /\ v.heldAt = events[d].heldAt
    BY <1>1 DEF Verdict, Event
  <1>4. events'[d] = v
    BY <1>2
  <1> HIDE DEF v
  <1> QED
    BY <1>1, <1>3, <1>4, Zenon

(* Where the working copy of an event comes from.                          *)
LEMMA EventOrigin ==
  ASSUME RecoveryInv, [Next]_vars, NEW d \in Devices
  PROVE  \/ events'[d] = events[d]
         \/ events'[d] = NoEvent
         \/ UNCHANGED status /\ pc' = "detect" /\ PlanOf[d] = cur' /\ events'[d] = status[d]
         \/ PassGoesOn /\ Moves(d)
  <1>1. ASSUME NEW p \in Plans, Reconcile(p)
        PROVE  \/ events'[d] = NoEvent
               \/ UNCHANGED status /\ pc' = "detect" /\ PlanOf[d] = cur' /\ events'[d] = status[d]
    BY <1>1, Zenon DEF Reconcile, planVars
  <1>2. CASE PassIdles
    BY <1>2 DEF PassIdles
  <1>3. CASE EndPass
    BY <1>3 DEF EndPass, NoEvents
  <1> QED
    BY <1>1, <1>2, <1>3, PassMoves DEF PassGoesOn

(* Where a persisted event comes from. *)
LEMMA StatusOrigin ==
  ASSUME [Next]_vars, NEW d \in Devices, status \in [Devices -> Event]
  PROVE  \/ status'[d] = status[d]
         \/ status'[d] = NoEvent
         \/ PersistStatus /\ pc = "status" /\ PlanOf[d] = cur /\ status'[d] = events[d]
  BY StatusMoves

(* The status write has happened once the approvals are written. *)
Written == pc = "spec" => \A d \in DevicesOf(cur) : status[d] = events[d]

(* It is the step before. *)
LEMMA WrittenStep ==
  ASSUME "status" \notin MayFail, RecoveryInv, Written, [Next]_vars PROVE Written'
  <1>1. CASE PassIdles
    <2>1. pc = "spec" => UNCHANGED status
      BY <1>1, StatusMoves DEF PassIdles
    <2> QED
      BY <1>1, <2>1 DEF PassIdles, Written, DevicesOf
  <1>2. CASE EndPass \/ \E p \in Plans : Reconcile(p)
    BY <1>2 DEF EndPass, Reconcile, Written
  <1>3. CASE PassGoesOn
    <2>1. CASE PersistStatus
      <3>1. /\ status' = [d \in Devices |-> IF PlanOf[d] = cur THEN events[d] ELSE status[d]]
            /\ UNCHANGED <<cur, events>>
        BY <2>1 DEF PersistStatus, Refused
      <3> QED
        BY <3>1 DEF Written, DevicesOf
    <2>2. ASSUME ~PersistStatus PROVE pc' # "spec"
      <3>1. ASSUME NEW d \in Devices, Visiting(d) \/ Draining(d) PROVE pc' \in {"approve", "drain"}
        BY <3>1 DEF Visiting, Draining
      <3>2. CASE \/ SyncRecoveryEventsFromSlices \/ ListingSlicesFails \/ EnsureOpenShiftResources
                 \/ SetApprovalsConsumed \/ EndDrains \/ SyncJobStatuses
                 \/ ReconcileDrainTaints \/ PersistApprovals
        BY <3>2 DEF SyncRecoveryEventsFromSlices, ListingSlicesFails, EnsureOpenShiftResources,
           SetApprovalsConsumed, EndDrains, SyncJobStatuses, ReconcileDrainTaints,
           PersistApprovals, EndPass
      <3> QED
        BY <1>3, <2>2, <3>1, <3>2, PassStepCases DEF PassGoesOn
    <2> QED
      BY <2>1, <2>2 DEF Written
  <1> QED
    BY <1>1, <1>2, <1>3, PassMoves

(* No event is held for an image, and a plan has a generation. *)
NeverHeld ==
    /\ \A d \in Devices : status[d].heldAt = 0 /\ events[d].heldAt = 0
    /\ \A p \in Plans : spec.generation[p] >= 1

(* At first there is no event to hold. *)
LEMMA NeverHeldInit == Init => NeverHeld
  <1>1. Init => \A d \in Devices : status[d].heldAt = 0 /\ events[d].heldAt = 0
    BY NoEventFields DEF Init, NoEvents
  <1>2. Init => \A p \in Plans : spec.generation[p] = 1
    <2>1. InitialSpec.generation = [p \in Plans |-> 1]
      BY DEF InitialSpec
    <2>2. Init => spec = InitialSpec
      BY DEF Init
    <2> HIDE DEF InitialSpec
    <2> QED
      BY <2>1, <2>2
  <1> QED
    BY <1>1, <1>2 DEF NeverHeld

(* Only holdForImageFix holds an event. *)
LEMMA NeverHeldStep ==
  ASSUME "image" \notin MayFail, RecoveryInv, NeverHeld, [Next]_vars PROVE NeverHeld'
  <1>0. TypeOK /\ status \in [Devices -> Event] /\ events \in [Devices -> Event]
    BY DEF RecoveryInv, TypeOK
  <1>1. ASSUME NEW d \in Devices, Moves(d) PROVE events'[d].heldAt = 0
    <2>1. CASE IsJudged(d)
      BY <1>0, <2>1, JudgedFields DEF NeverHeld
    <2>2. CASE Clears(d)
      BY <2>2, NoEventFields DEF Clears
    <2>3. CASE \/ Stays(d) \/ Progresses(d) \/ Appears(d) \/ Escalates(d)
               \/ \E a \in Approvals : Answers(d, a)
      BY <2>3, Zenon DEF Stays, Progresses, Appears, Escalates, Answers, NeverHeld
    <2> QED
      BY <1>1, <2>1, <2>2, <2>3, Zenon DEF Moves
  <1>2. ASSUME NEW d \in Devices PROVE events'[d].heldAt = 0
    BY <1>1, EventOrigin, NoEventFields, Zenon DEF NeverHeld
  <1>3. ASSUME NEW d \in Devices PROVE status'[d].heldAt = 0
    BY <1>0, StatusOrigin, NoEventFields DEF NeverHeld
  <1>4. ASSUME NEW p \in Plans PROVE spec'.generation[p] >= 1
    <2>1. GenerationsGrow
      BY <1>0, ApprovalsMove
    <2>2. spec.generation[p] \in Nat /\ spec'.generation[p] \in Nat
      BY RecoveryStep, Zenon DEF RecoveryInv, TypeOK, SpecType
    <2>3. spec.generation[p] >= 1
      BY DEF NeverHeld
    <2>4. spec'.generation[p] >= spec.generation[p]
      BY <2>1, Zenon DEF GenerationsGrow
    <2> QED
      BY <2>2, <2>3, <2>4
  <1> QED
    BY <1>2, <1>3, <1>4 DEF NeverHeld

-----------------------------------------------------------------------------
(* Failed events.                                                          *)

(* applyOverride and escalateEvent keep the type an event is recovered     *)
(* with of the kind its ID says, a reflash or a reset.                     *)
Kinds(ev) == \A d \in Devices : Priority(ev[d].idType) = Priority(ev[d].type)

(* The working copy has events of the pass's plan only, and starts as what *)
(* is persisted.                                                           *)
CopyOfStatus ==
    /\ \A d \in Devices : events[d].state # "none" => pc # "idle" /\ PlanOf[d] = cur
    /\ pc = "detect" => \A d \in DevicesOf(cur) : events[d] = status[d]

(* An admin gave an approval that names the event.                         *)
Named(d, idType) ==
    \E a \in Approvals : <<d, idType>> \in Grant[a].names /\ spec.approvals[a] # "unused"

(* An event that is failed in what is persisted stands in the working copy *)
(* as failed, resolved, escalated, or named by an approval.                *)
FailedAhead ==
    pc \notin {"idle", "detect"} =>
        \A d \in DevicesOf(cur) :
            status[d].state = "failed" =>
                \/ events[d].state \in {"none", "failed"}
                \/ events[d].idType # status[d].idType
                \/ Named(d, status[d].idType)

FailedInv ==
    /\ Kinds(status) /\ Kinds(events)
    /\ CopyOfStatus
    /\ \A a \in Approvals : snap.approvals[a] # "unused" => spec.approvals[a] # "unused"
    /\ FailedAhead

(* The kinds are kept by every move. *)
LEMMA KindsStep ==
  ASSUME RecoveryInv, Kinds(status), Kinds(events), [Next]_vars
  PROVE  Kinds(status)' /\ Kinds(events)'
  <1>0. TypeOK /\ status \in [Devices -> Event] /\ events \in [Devices -> Event]
    BY DEF RecoveryInv, TypeOK
  <1>1. Priority(NoEvent.idType) = Priority(NoEvent.type)
    BY DEF NoEvent
  <1>2. ASSUME NEW d \in Devices, Moves(d)
        PROVE  Priority(events'[d].idType) = Priority(events'[d].type)
    <2>1. CASE IsJudged(d)
      BY <1>0, <2>1, JudgedFields, Zenon DEF Kinds
    <2>2. CASE Clears(d)
      BY <1>1, <2>2 DEF Clears
    <2>3. CASE Appears(d) \/ Escalates(d)
      BY <2>3 DEF Appears, Escalates
    <2>4. CASE Stays(d) \/ Progresses(d) \/ \E a \in Approvals : Answers(d, a)
      BY <2>4, Zenon DEF Stays, Progresses, Answers, SameRecovery, Kinds
    <2> QED
      BY <1>2, <2>1, <2>2, <2>3, <2>4, Zenon DEF Moves
  <1>3. Kinds(events)'
    BY <1>1, <1>2, EventOrigin, Zenon DEF Kinds
  <1>4. Kinds(status)'
    BY <1>0, <1>1, StatusOrigin DEF Kinds
  <1> QED
    BY <1>3, <1>4

(* Only an event that is there moves, and but for escalateEvent it keeps   *)
(* its ID.                                                                 *)
LEMMA MovedFrom ==
  ASSUME TypeOK, NEW d \in Devices, Moves(d), events'[d].state # "none"
  PROVE  \/ Appears(d)
         \/ Escalates(d)
         \/ events[d].state # "none" /\ events'[d].idType = events[d].idType
  <1>1. CASE IsJudged(d)
    BY <1>1, JudgedFields
  <1>2. ASSUME NEW a \in Approvals, Answers(d, a)
        PROVE  events[d].state # "none" /\ events'[d].idType = events[d].idType
    BY <1>2, AuthorisesType, Zenon DEF Answers, SameRecovery
  <1>3. CASE Clears(d)
    BY <1>3, NoEventFields DEF Clears
  <1>4. CASE Stays(d) \/ Progresses(d)
    BY <1>4, Zenon DEF Stays, Progresses, SameRecovery
  <1> QED
    BY <1>1, <1>2, <1>3, <1>4, Zenon DEF Moves

(* A pass reads its plan's events and works on those only. *)
LEMMA CopyStep ==
  ASSUME RecoveryInv, CopyOfStatus, [Next]_vars PROVE CopyOfStatus'
  <1>0. TypeOK
    BY DEF RecoveryInv
  <1>1. ASSUME NEW p \in Plans, Reconcile(p) PROVE CopyOfStatus'
    <2>1. /\ pc' = "detect" /\ cur' = p /\ UNCHANGED status
          /\ events' = [d \in Devices |-> IF PlanOf[d] = p THEN status[d] ELSE NoEvent]
      BY <1>1 DEF Reconcile, planVars
    <2> QED
      BY <2>1 DEF CopyOfStatus, DevicesOf, NoEvent
  <1>2. CASE EndPass
    BY <1>2 DEF EndPass, NoEvents, NoEvent, CopyOfStatus
  <1>3. CASE PassGoesOn
    <2>1. pc # "idle" /\ pc' \notin {"idle", "detect"} /\ cur' = cur
      BY <1>3 DEF PassGoesOn
    <2>2. ASSUME NEW d \in Devices, events'[d].state # "none" PROVE PlanOf[d] = cur
      <3>1. Moves(d)
        BY <1>3 DEF PassGoesOn
      <3>2. Appears(d) \/ events[d].state # "none"
        BY <1>0, <2>2, <3>1, MovedFrom DEF Escalates
      <3> QED
        BY <3>2 DEF Appears, CopyOfStatus
    <2> QED
      BY <2>1, <2>2 DEF CopyOfStatus
  <1>4. CASE PassIdles
    <2>1. pc = "detect" => UNCHANGED status
      BY <1>4, StatusMoves DEF PassIdles
    <2> QED
      BY <1>4, <2>1 DEF PassIdles, CopyOfStatus, DevicesOf
  <1> QED
    BY <1>1, <1>2, <1>3, <1>4, PassMoves

(* A pass knows of approvals admins gave, no others. *)
LEMMA SnapshotStep ==
  ASSUME RecoveryInv, [Next]_vars, NEW a \in Approvals,
         snap.approvals[a] # "unused" => spec.approvals[a] # "unused",
         snap'.approvals[a] # "unused"
  PROVE  spec'.approvals[a] # "unused"
  <1>0. TypeOK
    BY DEF RecoveryInv
  <1>1. spec.approvals[a] # "unused"
    <2>1. ASSUME NEW p \in Plans, Reconcile(p) PROVE snap' = spec
      BY <2>1 DEF Reconcile
    <2>2. CASE EndPass
      BY <2>2 DEF EndPass, InitialSpec
    <2>3. CASE PassIdles \/ PassGoesOn
      BY <2>3 DEF PassIdles, PassGoesOn
    <2> QED
      BY <2>1, <2>2, <2>3, PassMoves
  <1> QED
    BY <1>0, <1>1, GivenStays

(* processApprovals leaves failed only for an approval that names it. *)
LEMMA FailedAnswered ==
  ASSUME TypeOK, NEW d \in Devices, NEW a, Answers(d, a), events[d].state = "failed",
         \A b \in Approvals : snap.approvals[b] # "unused" => spec.approvals[b] # "unused"
  PROVE  Named(d, events[d].idType)
  <1>1. ExplicitApprovals(d, events[d]) # {}
    BY Zenon DEF Answers, Authorises, Startable
  <1>2. PICK b \in Approvals : Unconsumed(b) /\ <<d, events[d].idType>> \in Grant[b].names
    BY <1>1 DEF ExplicitApprovals
  <1> QED
    BY <1>2 DEF Unconsumed, Named

(* One event of the working copy. *)
LEMMA FailedMoves ==
  ASSUME TypeOK, FailedInv, PassGoesOn, NEW d \in DevicesOf(cur),
         status[d].state = "failed"
  PROVE  \/ events'[d].state \in {"none", "failed"}
         \/ events'[d].idType # status[d].idType
         \/ Named(d, status[d].idType)
  <1>1. d \in Devices /\ Moves(d) /\ pc # "idle"
    BY DEF DevicesOf, PassGoesOn
  <1>2. ASSUME events'[d].state # "none", ~Appears(d), ~Escalates(d)
        PROVE  events[d].state # "none" /\ events'[d].idType = events[d].idType
    BY <1>1, <1>2, MovedFrom
  <1>3. CASE pc = "detect"
    <2>1. events[d] = status[d]
      BY <1>3 DEF FailedInv, CopyOfStatus
    <2>2. ~Appears(d)
      BY <2>1 DEF Appears
    <2>3. CASE Escalates(d)
      <3>1. Priority(status[d].idType) = 1
        BY <1>1, <2>1, <2>3 DEF Escalates, FailedInv, Kinds
      <3>2. Priority(events'[d].idType) = 2
        BY <2>3 DEF Escalates, Priority
      <3> QED
        BY <3>1, <3>2
    <2>4. CASE Stays(d) \/ Clears(d)
      <3>1. CASE Stays(d)
        BY <2>1, <3>1 DEF Stays
      <3>2. CASE Clears(d)
        BY <3>2, NoEventFields DEF Clears
      <3> QED
        BY <2>4, <3>1, <3>2
    <2>5. ~Progresses(d) /\ ~IsJudged(d) /\ \A a \in Approvals : ~Answers(d, a)
      BY <1>3, Zenon DEF Progresses, IsJudged, Answers
    <2> QED
      BY <1>1, <2>2, <2>3, <2>4, <2>5, Zenon DEF Moves
  <1>4. CASE pc # "detect"
    <2>1. \/ events[d].state \in {"none", "failed"}
          \/ events[d].idType # status[d].idType
          \/ Named(d, status[d].idType)
      BY <1>1, <1>4, Zenon DEF FailedInv, FailedAhead
    <2>2. ~Appears(d) /\ ~Escalates(d) /\ ~Clears(d)
      BY <1>4 DEF Appears, Escalates, Clears
    <2>3. CASE events[d].state = "failed" /\ events[d].idType = status[d].idType
      <3>1. ~Progresses(d) /\ ~IsJudged(d)
        BY <2>3, Zenon DEF Progresses, IsJudged
      <3>2. CASE Stays(d)
        BY <2>3, <3>2, Zenon DEF Stays
      <3>3. ASSUME NEW a \in Approvals, Answers(d, a) PROVE Named(d, status[d].idType)
        BY <1>1, <2>3, <3>3, FailedAnswered, Zenon DEF FailedInv
      <3> QED
        BY <1>1, <2>2, <3>1, <3>2, <3>3, Zenon DEF Moves
    <2> QED
      BY <1>2, <2>1, <2>2, <2>3, Zenon
  <1> QED
    BY <1>3, <1>4

(* What is failed stays so, in every way a step can change the two lists.  *)
LEMMA FailedStep ==
  ASSUME RecoveryInv, FailedInv, [Next]_vars PROVE FailedInv'
  <1>0. TypeOK
    BY DEF RecoveryInv
  <1>1. Kinds(status)' /\ Kinds(events)' /\ CopyOfStatus'
    BY KindsStep, CopyStep DEF FailedInv
  <1>2. \A a \in Approvals : snap'.approvals[a] # "unused" => spec'.approvals[a] # "unused"
    BY SnapshotStep DEF FailedInv
  <1> DEFINE NamedNext(d, t) ==
               \E a \in Approvals : <<d, t>> \in Grant[a].names /\ spec'.approvals[a] # "unused"
  <1>3. ASSUME NEW d, NEW t, Named(d, t) PROVE NamedNext(d, t)
    BY <1>0, <1>3, GivenStays DEF Named
  <1>4. FailedAhead'
    <2> SUFFICES ASSUME pc' \notin {"idle", "detect"}, NEW d \in DevicesOf(cur'),
                        status'[d].state = "failed"
                 PROVE  \/ events'[d].state \in {"none", "failed"}
                        \/ events'[d].idType # status'[d].idType
                        \/ NamedNext(d, status'[d].idType)
      BY Zenon DEF FailedAhead, DevicesOf, Named
    <2> HIDE DEF NamedNext
    <2>1. CASE PassIdles
      <3>1. UNCHANGED status /\ cur' = cur /\ pc \notin {"idle", "detect"} /\ events' = events
        BY <2>1, StatusMoves DEF PassIdles
      <3> QED
        BY <1>3, <3>1 DEF FailedInv, FailedAhead
    <2>2. ASSUME NEW p \in Plans, Reconcile(p) PROVE FALSE
      BY <2>2, Zenon DEF Reconcile
    <2>3. CASE EndPass
      BY <2>3 DEF EndPass
    <2>4. CASE PassGoesOn
      <3>1. cur' = cur /\ d \in DevicesOf(cur) /\ d \in Devices /\ pc # "idle" /\ PlanOf[d] = cur
        BY <2>4 DEF PassGoesOn, DevicesOf
      <3>2. CASE UNCHANGED status
        BY <1>0, <1>3, <2>4, <3>1, <3>2, FailedMoves, Zenon
      <3>3. CASE ~UNCHANGED status
        <4>1. status'[d] = events[d] /\ events' = events
          BY <3>1, <3>3, StatusMoves
        <4> QED
          BY <4>1
      <3> QED
        BY <3>2, <3>3
    <2> QED
      BY <2>1, <2>2, <2>3, <2>4, PassMoves, Zenon
  <1> QED
    BY <1>1, <1>2, <1>4 DEF FailedInv

(* A plan starts without events. *)
LEMMA FailedInit == Init => FailedInv
  <1> SUFFICES ASSUME Init PROVE FailedInv
    OBVIOUS
  <1>1. \A d \in Devices : status[d] = NoEvent /\ events[d] = NoEvent
    BY DEF Init, NoEvents
  <1>2. \A a \in Approvals : snap.approvals[a] = "unused"
    BY DEF Init, InitialSpec
  <1>3. Kinds(status) /\ Kinds(events)
    BY <1>1, NoEventFields DEF Kinds
  <1>4. CopyOfStatus
    BY <1>1, NoEventFields, Zenon DEF Init, CopyOfStatus
  <1>5. FailedAhead
    BY Zenon DEF Init, FailedAhead
  <1> QED
    BY <1>2, <1>3, <1>4, <1>5 DEF FailedInv

(* Whatever is lost, an event that is failed on record is so in every      *)
(* working copy, or has a reason not to be.                                *)
THEOREM FailedInvariant == Spec => []FailedInv
  BY FailedInit, FailedStep, RecoveryInvariant, PTL DEF Spec

(* processApprovals and escalateEvent: in the status of a plan a failed    *)
(* event moves on only if an admin's approval names it.                    *)
THEOREM FailedStaysFailed == Spec => FailedIsTerminal
  <1>1. RecoveryInv /\ FailedInv /\ [Next]_vars =>
          [\A d \in Devices :
             /\ status[d].state = "failed"
             /\ status'[d].state # "none"
             /\ status'[d].idType = status[d].idType
             /\ status'[d].state # "failed"
             => \E a \in Approvals : /\ <<d, status[d].idType>> \in Grant[a].names
                                     /\ spec.approvals[a] # "unused"]_status
    <2> SUFFICES ASSUME RecoveryInv, FailedInv, [Next]_vars, NEW d \in Devices,
                        status[d].state = "failed", status'[d].state # "none",
                        status'[d].idType = status[d].idType, status'[d].state # "failed"
                 PROVE  Named(d, status[d].idType)
      BY DEF Named
    <2>1. status \in [Devices -> Event] /\ NoEvent.state = "none"
      BY DEF RecoveryInv, TypeOK, NoEvent
    <2>2. pc = "status" /\ PlanOf[d] = cur /\ status'[d] = events[d]
      BY <2>1, StatusOrigin, Zenon
    <2> QED
      BY <2>2, Zenon DEF FailedInv, FailedAhead, DevicesOf
  <1> QED
    BY <1>1, RecoveryInvariant, FailedInvariant, PTL DEF Spec, FailedIsTerminal

-----------------------------------------------------------------------------
(* What a verdict files.                                                   *)

(* The attempts on record are the GPU's own, numbered in order. *)
InOrder(d, e) ==
    /\ \A n \in PastJobs(e) : n[1] = d /\ n[3] < Len(e.pastJobs)
    /\ e.state = "none" => e.pastJobs = <<>>

(* What the name of a Job says. *)
LEMMA JobNameParts ==
  ASSUME NEW d, NEW e
  PROVE  /\ RecoveryJobName(d, e)[1] = d /\ RecoveryJobName(d, e)[2] = e.idType
         /\ RecoveryJobName(d, e)[3] = Len(e.pastJobs)
  BY DEF RecoveryJobName

(* An event without past Jobs is in order. *)
LEMMA NoPastInOrder ==
  ASSUME NEW d, NEW e, e.pastJobs = <<>> PROVE InOrder(d, e) /\ PastJobs(e) = {}
  BY DEF InOrder, PastJobs

(* applyJobVerdict files the Job with the next number. *)
LEMMA VerdictFiles ==
  ASSUME NEW d \in Devices, NEW e \in Event, NEW s \in {"succeeded", "failed"}
  PROVE  LET v == Verdict(d, e, s)
         IN /\ PastJobs(v) = PastJobs(e) \cup {RecoveryJobName(d, e)}
            /\ Len(v.pastJobs) = Len(e.pastJobs) + 1
            /\ InOrder(d, e) => InOrder(d, v)
  <1> DEFINE v == Verdict(d, e, s)
             name == RecoveryJobName(d, e)
  <1>1. v.pastJobs = Append(e.pastJobs, name) /\ v.state = s
    BY DEF Verdict, Event
  <1>2. e.pastJobs \in Seq(JobNames) /\ name \in JobNames
    BY RecoveryJobNameType, Zenon DEF Event
  <1>3. name[1] = d /\ name[3] = Len(e.pastJobs)
    BY JobNameParts
  <1> HIDE DEF v, name
  <1>4. /\ Len(v.pastJobs) = Len(e.pastJobs) + 1 /\ Len(e.pastJobs) \in Nat
        /\ DOMAIN v.pastJobs = 1..(Len(e.pastJobs) + 1)
        /\ DOMAIN e.pastJobs = 1..Len(e.pastJobs)
        /\ \A i \in 1..Len(e.pastJobs) : v.pastJobs[i] = e.pastJobs[i]
        /\ v.pastJobs[Len(e.pastJobs) + 1] = name
    BY <1>1, <1>2
  <1>5. PastJobs(v) = PastJobs(e) \cup {name}
    <2>1. ASSUME NEW i \in DOMAIN v.pastJobs PROVE v.pastJobs[i] \in PastJobs(e) \cup {name}
      <3>1. CASE i \in DOMAIN e.pastJobs
        BY <1>4, <3>1 DEF PastJobs
      <3>2. CASE i \notin DOMAIN e.pastJobs
        BY <1>4, <3>2
      <3> QED
        BY <3>1, <3>2
    <2>2. ASSUME NEW n \in PastJobs(e) \cup {name} PROVE n \in PastJobs(v)
      BY <1>4, <2>2 DEF PastJobs
    <2> QED
      BY <2>1, <2>2 DEF PastJobs
  <1>6. ASSUME InOrder(d, e) PROVE InOrder(d, v)
    <2>1. \A n \in PastJobs(e) : n[1] = d /\ n[3] < Len(e.pastJobs) /\ n[3] \in Nat
      <3>1. \A n \in PastJobs(e) : n \in JobNames
        BY <1>2 DEF PastJobs
      <3>2. \A n \in JobNames : n[3] \in Nat
        BY DEF JobNames
      <3>3. \A n \in PastJobs(e) : n[1] = d /\ n[3] < Len(e.pastJobs)
        BY <1>6 DEF InOrder
      <3> QED
        BY <3>1, <3>2, <3>3
    <2>2. \A n \in PastJobs(v) : n[1] = d /\ n[3] < Len(v.pastJobs)
      BY <1>3, <1>4, <1>5, <2>1
    <2> QED
      BY <1>1, <2>2 DEF InOrder
  <1> QED
    BY <1>4, <1>5, <1>6, Zenon DEF v, name

=============================================================================
