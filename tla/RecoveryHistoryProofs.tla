------------------------ MODULE RecoveryHistoryProofs -----------------------
(***************************************************************************)
(* What becomes of the recovery Jobs of an event, of the finalizer and of  *)
(* the plans that are deleted; where the controller loses nothing it has   *)
(* decided, that one recovery runs on a node at a time; and that the       *)
(* records of the events live as RecoveryLifecycle says.                   *)
(***************************************************************************)
EXTENDS RecoveryPlanProofs

-----------------------------------------------------------------------------
(* Past Jobs.                                                              *)

(* A Job of that name, if there is one, has ended or is given up on. *)
Ended(n) == n \in DOMAIN jobs => jobs[n].state # "running" \/ jobs[n].late

PastEnded(ev) == \A d \in Devices : \A n \in PastJobs(ev[d]) : Ended(n)

PastInv ==
    /\ \A d \in Devices : InOrder(d, status[d]) /\ InOrder(d, events[d])
    /\ pc # "idle" =>
         \A d \in DevicesOf(cur) :
            events[d].state # "none" => Len(status[d].pastJobs) <= Len(events[d].pastJobs)
    /\ PastEnded(status) /\ PastEnded(events)

(* Past Jobs are kept with their event, dropped with it, or added to.      *)
LEMMA PastMoves ==
  ASSUME TypeOK, NEW d \in Devices, Moves(d)
  PROVE  \/ /\ events'[d].pastJobs = events[d].pastJobs
            /\ events'[d].state = "none" <=> events[d].state = "none"
         \/ /\ pc = "detect" /\ events'[d].pastJobs = <<>>
            /\ events'[d].state = "none" \/ events[d].state = "none"
         \/ \E s \in {"succeeded", "failed"} :
               /\ IsJudged(d) /\ events'[d] = Verdict(d, events[d], s)
  <1>1. CASE Stays(d)
    BY <1>1 DEF Stays, SameRecovery
  <1>2. CASE Clears(d) \/ Appears(d)
    BY <1>2, NoEventFields DEF Clears, Appears
  <1>3. CASE Escalates(d)
    BY <1>3 DEF Escalates
  <1>4. ASSUME NEW a \in Approvals, Answers(d, a)
        PROVE  /\ events'[d].pastJobs = events[d].pastJobs
               /\ events'[d].state # "none" /\ events[d].state # "none"
    BY <1>4, AuthorisesType DEF Answers, SameRecovery, EventStates
  <1>5. CASE Progresses(d)
    BY <1>5 DEF Progresses, SameRecovery
  <1>6. CASE IsJudged(d)
    BY <1>6 DEF IsJudged
  <1> QED
    BY <1>1, <1>2, <1>3, <1>4, <1>5, <1>6 DEF Moves

(* A Job that has ended does not run again under its name, unless it is    *)
(* started anew.                                                           *)
LEMMA EndedStays ==
  ASSUME RecoveryInv, [Next]_vars, NEW n, Ended(n)
  PROVE  \/ Ended(n)'
         \/ \E d \in Devices : Starts(d) /\ n = RecoveryJobName(d, events[d])
  <1>1. CASE JobsWane
    BY <1>1 DEF JobsWane, Ended
  <1>2. ASSUME NEW d \in Devices, Starts(d), n # RecoveryJobName(d, events[d]) PROVE Ended(n)'
    BY <1>2 DEF Starts, Ended
  <1> QED
    BY <1>1, <1>2, JobsMove

(* The lengths of the lists of past Jobs are numbers. *)
LEMMA PastLengths ==
  ASSUME TypeOK, NEW d \in Devices
  PROVE  Len(status[d].pastJobs) \in Nat /\ Len(events[d].pastJobs) \in Nat
  <1>1. status[d] \in Event /\ events[d] \in Event
    BY DEF TypeOK
  <1>2. status[d].pastJobs \in Seq(JobNames) /\ events[d].pastJobs \in Seq(JobNames)
    BY <1>1 DEF Event
  <1> QED
    BY <1>2

(* No attempt has a number that is on record: the Jobs on record stay      *)
(* ended.                                                                  *)
LEMMA OnRecordStaysEnded ==
  ASSUME RecoveryInv, CopyOfStatus, PastInv, [Next]_vars, NEW d \in Devices,
         NEW n \in PastJobs(status[d]) \cup PastJobs(events[d])
  PROVE  Ended(n)'
  <1>1. Ended(n)
    BY DEF PastInv, PastEnded
  <1>2. /\ n[1] = d
        /\ n \in PastJobs(status[d]) => n[3] < Len(status[d].pastJobs)
        /\ n \in PastJobs(events[d]) => n[3] < Len(events[d].pastJobs)
    BY DEF PastInv, InOrder
  <1>3. ASSUME NEW o \in Devices, Starts(o), n = RecoveryJobName(o, events[o]) PROVE FALSE
    <2>0. n[1] = o /\ n[3] = Len(events[o].pastJobs)
      BY <1>3, JobNameParts
    <2>1. o = d /\ n[3] = Len(events[d].pastJobs)
      BY <1>2, <2>0
    <2>2. Len(status[d].pastJobs) \in Nat /\ Len(events[d].pastJobs) \in Nat
      BY PastLengths DEF RecoveryInv
    <2>3. events[d].state # "none" /\ pc # "idle"
      BY <1>3, <2>1 DEF Starts
    <2>4. Len(status[d].pastJobs) <= Len(events[d].pastJobs)
      BY <2>3 DEF CopyOfStatus, PastInv, DevicesOf
    <2> QED
      BY <1>2, <2>1, <2>2, <2>4
  <1> QED
    BY <1>1, <1>3, EndedStays

(* The persisted and the working copy of one event stay in order, with     *)
(* ended Jobs on record.                                                   *)
LEMMA PastOfOne ==
  ASSUME RecoveryInv, CopyOfStatus, PastInv, [Next]_vars, NEW d \in Devices
  PROVE  /\ InOrder(d, status'[d]) /\ InOrder(d, events'[d])
         /\ \A n \in PastJobs(status'[d]) : Ended(n)'
         /\ \A n \in PastJobs(events'[d]) : Ended(n)'
  <1>0. TypeOK /\ status \in [Devices -> Event] /\ events[d] \in Event
    BY DEF RecoveryInv, TypeOK
  <1>1. NoEvent.pastJobs = <<>>
    BY DEF NoEvent
  <1>2. InOrder(d, NoEvent) /\ PastJobs(NoEvent) = {}
    BY <1>1, NoPastInOrder
  <1>3. InOrder(d, status[d]) /\ InOrder(d, events[d])
    BY DEF PastInv
  <1>4. \A n \in PastJobs(status[d]) \cup PastJobs(events[d]) : Ended(n)'
    BY OnRecordStaysEnded
  <1>5. InOrder(d, status'[d]) /\ \A n \in PastJobs(status'[d]) : Ended(n)'
    BY <1>0, <1>2, <1>3, <1>4, StatusOrigin
  <1>6. ASSUME Moves(d)
        PROVE  InOrder(d, events'[d]) /\ \A n \in PastJobs(events'[d]) : Ended(n)'
    <2>1. CASE /\ events'[d].pastJobs = events[d].pastJobs
               /\ events'[d].state = "none" <=> events[d].state = "none"
      BY <1>3, <1>4, <2>1 DEF InOrder, PastJobs
    <2>2. CASE events'[d].pastJobs = <<>>
      BY <2>2, NoPastInOrder
    <2>3. ASSUME NEW s \in {"succeeded", "failed"}, IsJudged(d),
                 events'[d] = Verdict(d, events[d], s)
          PROVE  InOrder(d, events'[d]) /\ \A n \in PastJobs(events'[d]) : Ended(n)'
      <3>0. PICK name : name = RecoveryJobName(d, events[d])
        OBVIOUS
      <3>1. /\ PastJobs(events'[d]) = PastJobs(events[d]) \cup {name}
            /\ InOrder(d, events'[d])
        <4>1. events[d] \in Event /\ InOrder(d, events[d])
          BY <1>0, <1>3
        <4> DEFINE v == Verdict(d, events[d], s)
        <4>2. PastJobs(v) = PastJobs(events[d]) \cup {name} /\ InOrder(d, v)
          BY <3>0, <4>1, VerdictFiles
        <4> HIDE DEF v
        <4>3. events'[d] = v
          BY <2>3 DEF v
        <4> QED
          BY <4>2, <4>3
      <3>2. Ended(name) /\ pc = "sync"
        BY <2>3, <3>0 DEF IsJudged, Ended
      <3>3. \A o \in Devices : ~Starts(o)
        BY <3>2 DEF Starts
      <3>4. Ended(name)'
        BY <3>2, <3>3, EndedStays
      <3> QED
        BY <1>4, <3>1, <3>4
    <2> QED
      BY <1>0, <1>6, <2>1, <2>2, <2>3, PastMoves
  <1>7. InOrder(d, events'[d]) /\ \A n \in PastJobs(events'[d]) : Ended(n)'
    <2>1. CASE events'[d] = events[d] \/ events'[d] = NoEvent \/ events'[d] = status[d]
      BY <1>2, <1>3, <1>4, <2>1
    <2> QED
      BY <1>6, <2>1, EventOrigin
  <1> QED
    BY <1>5, <1>7

(* The working copy has at least the attempts that are persisted. *)
LEMMA AttemptsAhead ==
  ASSUME RecoveryInv, CopyOfStatus, PastInv, [Next]_vars, pc' # "idle",
         NEW d \in DevicesOf(cur'), events'[d].state # "none"
  PROVE  Len(status'[d].pastJobs) <= Len(events'[d].pastJobs)
  <1>0. TypeOK /\ d \in Devices /\ PlanOf[d] = cur' /\ events[d] \in Event
    BY DEF RecoveryInv, TypeOK, DevicesOf
  <1>1. Len(status[d].pastJobs) \in Nat /\ Len(events[d].pastJobs) \in Nat
    BY <1>0, PastLengths
  <1>2. CASE PassIdles
    <2>1. cur' = cur /\ pc # "idle" /\ events' = events /\ UNCHANGED status
      BY <1>2, StatusMoves DEF PassIdles
    <2> QED
      BY <2>1 DEF PastInv
  <1>3. ASSUME NEW p \in Plans, Reconcile(p) PROVE events'[d] = status'[d] /\ UNCHANGED status
    BY <1>0, <1>3 DEF Reconcile, planVars
  <1>4. CASE EndPass
    BY <1>4 DEF EndPass
  <1>5. CASE PassGoesOn
    <2>1. cur' = cur /\ pc # "idle" /\ Moves(d) /\ d \in DevicesOf(cur)
      BY <1>0, <1>5 DEF PassGoesOn
    <2>2. CASE UNCHANGED status
      <3>1. CASE /\ events'[d].pastJobs = events[d].pastJobs
                 /\ events'[d].state = "none" <=> events[d].state = "none"
        BY <2>1, <2>2, <3>1 DEF PastInv
      <3>2. CASE /\ pc = "detect" /\ events'[d].pastJobs = <<>>
                 /\ events'[d].state = "none" \/ events[d].state = "none"
        <4>1. events[d] = status[d] /\ events[d].state = "none"
          BY <2>1, <3>2 DEF CopyOfStatus
        <4>2. status[d].pastJobs = <<>>
          BY <1>0, <4>1 DEF PastInv, InOrder
        <4> QED
          BY <2>2, <3>2, <4>2
      <3>3. ASSUME NEW s \in {"succeeded", "failed"}, IsJudged(d),
                   events'[d] = Verdict(d, events[d], s)
            PROVE  Len(status'[d].pastJobs) <= Len(events'[d].pastJobs)
        <4>1. Len(events'[d].pastJobs) = Len(events[d].pastJobs) + 1
          BY <1>0, <3>3, VerdictFiles
        <4>2. Len(status[d].pastJobs) <= Len(events[d].pastJobs)
          BY <2>1, <3>3 DEF PastInv, IsJudged
        <4> QED
          BY <1>1, <2>2, <4>1, <4>2
      <3> QED
        BY <1>0, <2>1, <3>1, <3>2, <3>3, PastMoves
    <2>3. CASE ~UNCHANGED status
      <3>1. status'[d] = events[d] /\ events' = events
        BY <1>0, <2>1, <2>3, StatusMoves
      <3> QED
        BY <1>1, <3>1
    <2> QED
      BY <2>2, <2>3
  <1>6. CASE events'[d] = status'[d] /\ UNCHANGED status
    BY <1>1, <1>6
  <1> QED
    BY <1>2, <1>3, <1>4, <1>5, <1>6, PassMoves

(* What is on record stays in order through every step. *)
LEMMA PastStep ==
  ASSUME RecoveryInv, CopyOfStatus, PastInv, [Next]_vars PROVE PastInv'
  <1>1. PastEnded(status)' /\ PastEnded(events)'
    BY PastOfOne DEF PastEnded
  <1>2. \A d \in Devices : InOrder(d, status'[d]) /\ InOrder(d, events'[d])
    BY PastOfOne
  <1>3. pc' # "idle" =>
          \A d \in DevicesOf(cur') :
            events'[d].state # "none" => Len(status'[d].pastJobs) <= Len(events'[d].pastJobs)
    BY AttemptsAhead
  <1> QED
    BY <1>1, <1>2, <1>3 DEF PastInv, DevicesOf

(* At first nothing is on record. *)
LEMMA PastInit == Init => PastInv
  <1> SUFFICES ASSUME Init PROVE PastInv
    OBVIOUS
  <1>1. \A d \in Devices : status[d].pastJobs = <<>> /\ events[d].pastJobs = <<>>
    BY DEF Init, NoEvents, NoEvent
  <1>2. \A d \in Devices : /\ InOrder(d, status[d]) /\ InOrder(d, events[d])
                           /\ PastJobs(status[d]) = {} /\ PastJobs(events[d]) = {}
    BY <1>1, NoPastInOrder, Zenon
  <1> QED
    BY <1>2, Zenon DEF Init, PastInv, PastEnded

(* The attempts on record are numbered in order, and a Job that has a      *)
(* place among them never runs again under that name.                      *)
THEOREM PastInvariant == Spec => []PastInv
  <1>1. FailedInv => CopyOfStatus
    BY DEF FailedInv
  <1> QED
    BY <1>1, PastInit, PastStep, RecoveryInvariant, FailedInvariant, PTL DEF Spec

-----------------------------------------------------------------------------
(* The finalizer.                                                          *)

(* handleFinalizer: what a plan has in the cluster, it has only while it   *)
(* carries the finalizer.                                                  *)
FinalizerInv ==
    /\ \A p \in Plans : plan[p].finalizer => plan[p].phase # "gone"
    /\ pc # "idle" => plan[cur].finalizer
    /\ \A n \in DOMAIN jobs : jobs[n].state = "running" => plan[PlanOf[n[1]]].finalizer
    /\ "untaint" \notin MayFail => \A t \in nodeTaint : plan[t[1]].finalizer

(* What one step does to the finalizers: only the end of a deletion takes  *)
(* one away, and a plan never goes while it has one.                       *)
PlansKeepFinalizers ==
    \A p \in Plans :
        /\ plan[p].finalizer => plan'[p].finalizer
        /\ plan'[p].finalizer /\ plan'[p].phase = "gone"
           => plan[p].finalizer /\ plan[p].phase = "gone"

(* No plan goes. *)
PlansStay == \A p \in Plans : plan'[p].phase = "gone" <=> plan[p].phase = "gone"

(* Every step keeps the finalizers, or ends a deletion; and a plan goes    *)
(* only when it is deleted.                                                *)
LEMMA PlansMove ==
  ASSUME TypeOK, [Next]_vars
  PROVE  \/ PlansKeepFinalizers /\ PlansStay
         \/ PlansKeepFinalizers /\ \E p \in Plans : DeletePlan(p)
         \/ \E p \in Plans :
               /\ FinalizeDeletion(p)
               /\ plan' = [plan EXCEPT ![p] = [phase |-> "gone", finalizer |-> FALSE]]
  <1>0. plan \in [Plans -> PlanType]
    BY DEF TypeOK
  <1>1. ASSUME UNCHANGED plan PROVE PlansKeepFinalizers /\ PlansStay
    BY <1>1 DEF PlansKeepFinalizers, PlansStay
  <1>2. ASSUME NEW p \in Plans, AddFinalizer(p) PROVE PlansKeepFinalizers /\ PlansStay
    <2>1. CASE plan' = [plan EXCEPT ![p] = [plan[p] EXCEPT !.finalizer = TRUE]]
      <3>1. /\ [plan[p] EXCEPT !.finalizer = TRUE].finalizer
            /\ [plan[p] EXCEPT !.finalizer = TRUE].phase = "live"
        BY <1>0, <1>2, Zenon DEF AddFinalizer, PlanType
      <3>2. plan[p].phase = "live"
        BY <1>2 DEF AddFinalizer
      <3>3. PlansKeepFinalizers
        BY <1>0, <2>1, <3>1, Zenon DEF PlansKeepFinalizers
      <3>4. PlansStay
        BY <1>0, <2>1, <3>1, <3>2, Zenon DEF PlansStay
      <3> QED
        BY <3>3, <3>4
    <2>2. \/ plan' = [plan EXCEPT ![p] = [plan[p] EXCEPT !.finalizer = TRUE]]
          \/ UNCHANGED plan
      BY <1>2, Zenon DEF AddFinalizer
    <2> QED
      BY <1>1, <2>1, <2>2
  <1>3. ASSUME NEW p \in Plans, DeletePlan(p) PROVE PlansKeepFinalizers
    <2> DEFINE s == IF plan[p].finalizer THEN "deleting" ELSE "gone"
    <2>1. plan' = [plan EXCEPT ![p] = [plan[p] EXCEPT !.phase = s]]
      BY <1>3, Zenon DEF DeletePlan
    <2>2. /\ [plan[p] EXCEPT !.phase = s].phase = s
          /\ [plan[p] EXCEPT !.phase = s].finalizer = plan[p].finalizer
      BY <1>0, Zenon DEF PlanType
    <2>3. plan[p].finalizer => s # "gone"
      OBVIOUS
    <2> HIDE DEF s
    <2> QED
      BY <1>0, <2>1, <2>2, <2>3, Zenon DEF PlansKeepFinalizers
  <1>4. ASSUME NEW p \in Plans, FinalizeDeletion(p)
        PROVE  \/ UNCHANGED plan
               \/ plan' = [plan EXCEPT ![p] = [phase |-> "gone", finalizer |-> FALSE]]
    BY <1>4, Zenon DEF FinalizeDeletion
  <1>5. ASSUME NEW p \in Plans, Reconcile(p) PROVE UNCHANGED plan
    BY <1>5 DEF Reconcile, planVars
  <1>6. CASE Crash \/ UNCHANGED vars \/ ClusterStep
    BY <1>1, <1>6, Zenon DEF Crash, vars, planVars, ClusterStep, TaintDevice, UntaintDevice,
       Expire, ReleaseClaim, JobEnds, JobOverdue, GarbageCollect, ScheduleWorkload, WorkloadEnds
  <1>7. CASE AdminStep
    BY <1>1, <1>3, <1>7, Zenon DEF AdminStep, AddApproval, RemoveApproval, SetApproval,
       EditFirmware, EditDrain, DeleteJob, planVars
  <1>8. CASE PassStep
    <2>1. ASSUME NEW d \in Devices, Visiting(d) \/ Draining(d) PROVE UNCHANGED plan
      BY <2>1 DEF Visiting, Draining, planVars
    <2>2. CASE \/ SyncRecoveryEventsFromSlices \/ ListingSlicesFails \/ EnsureOpenShiftResources
               \/ SetApprovalsConsumed \/ EndDrains \/ SyncJobStatuses
               \/ ReconcileDrainTaints \/ PersistStatus \/ PersistApprovals
      BY <1>1, <2>2, Zenon
      DEF SyncRecoveryEventsFromSlices, ListingSlicesFails, EnsureOpenShiftResources,
          SetApprovalsConsumed, EndDrains, SyncJobStatuses, ReconcileDrainTaints,
          PersistStatus, PersistApprovals, planVars
    <2> QED
      BY <1>1, <1>8, <2>1, <2>2, PassStepCases
  <1> QED
    BY <1>1, <1>2, <1>4, <1>5, <1>6, <1>7, <1>8 DEF Next, BeginPass

(* What one step does to the drain taints: a drain of the pass adds one;   *)
(* reconcileDrainTaints and the end of a deletion take some away.          *)
LEMMA NodeTaintsMove ==
  ASSUME [Next]_vars
  PROVE  \/ UNCHANGED nodeTaint
         \/ nodeTaint' \subseteq nodeTaint /\ ReconcileDrainTaints
         \/ nodeTaint' \subseteq nodeTaint /\ \E p \in Plans : FinalizeDeletion(p)
         \/ /\ pc = "drain" /\ pc' = "drain" /\ UNCHANGED <<cur, status>>
            /\ \E d \in Devices : /\ d \in todo
                                  /\ nodeTaint' = nodeTaint \cup {<<cur, NodeOf[d]>>}
  <1>1. CASE Crash \/ UNCHANGED vars \/ ClusterStep \/ AdminStep
    BY <1>1, Zenon DEF Crash, vars, clusterVars, ClusterStep, TaintDevice, UntaintDevice,
       Expire, ReleaseClaim, JobEnds, JobOverdue, GarbageCollect, ScheduleWorkload, WorkloadEnds,
       AdminStep, AddApproval, RemoveApproval, SetApproval, EditFirmware, EditDrain, DeletePlan,
       DeleteJob
  <1>2. ASSUME NEW p \in Plans, Reconcile(p) \/ AddFinalizer(p) PROVE UNCHANGED nodeTaint
    BY <1>2 DEF Reconcile, AddFinalizer, clusterVars
  <1>3. ASSUME NEW p \in Plans, FinalizeDeletion(p) PROVE nodeTaint' \subseteq nodeTaint
    BY <1>3 DEF FinalizeDeletion, NodesWithTaint
  <1>4. CASE PassStep
    <2>1. ASSUME NEW d \in Devices, Visiting(d) PROVE UNCHANGED nodeTaint
      BY <2>1 DEF Visiting
    <2>2. ASSUME NEW d \in Devices, Draining(d),
                 DrainWaits(d) \/ DrainFails(d) \/ DrainCompletes(d)
          PROVE  \/ UNCHANGED nodeTaint
                 \/ /\ pc = "drain" /\ pc' = "drain" /\ UNCHANGED <<cur, status>>
                    /\ d \in todo /\ nodeTaint' = nodeTaint \cup {<<cur, NodeOf[d]>>}
      <3>1. UNCHANGED nodeTaint \/ TaintNode(NodeOf[d])
        BY <2>2, Zenon DEF DrainWaits, DrainFails, DrainCompletes
      <3> QED
        BY <2>2, <3>1 DEF Draining, Visits, TaintNode, planVars
    <2>3. CASE \/ SyncRecoveryEventsFromSlices \/ ListingSlicesFails \/ EnsureOpenShiftResources
               \/ SetApprovalsConsumed \/ EndDrains \/ SyncJobStatuses
               \/ PersistStatus \/ PersistApprovals
      BY <2>3, Zenon
      DEF SyncRecoveryEventsFromSlices, ListingSlicesFails, EnsureOpenShiftResources,
          SetApprovalsConsumed, EndDrains, SyncJobStatuses,
          PersistStatus, PersistApprovals, clusterVars
    <2>4. CASE ReconcileDrainTaints
      BY <2>4 DEF ReconcileDrainTaints, NodesWithTaint
    <2> QED
      BY <1>4, <2>1, <2>2, <2>3, <2>4, PassStepCases
  <1> QED
    BY <1>1, <1>2, <1>3, <1>4 DEF Next, BeginPass

(* The plan of a running Job, of a pass and of a taint keeps its finalizer. *)
LEMMA FinalizerStep ==
  ASSUME RecoveryInv, CopyOfStatus, FinalizerInv, [Next]_vars PROVE FinalizerInv'
  <1>0. TypeOK /\ plan \in [Plans -> PlanType] /\ cur \in Plans
    BY DEF RecoveryInv, TypeOK
  <1>1. ASSUME NEW p \in Plans, FinalizeDeletion(p),
               plan' = [plan EXCEPT ![p] = [phase |-> "gone", finalizer |-> FALSE]]
        PROVE  FinalizerInv'
    <2>1. /\ plan'[p].finalizer = FALSE /\ \A q \in Plans \ {p} : plan'[q] = plan[q]
          /\ pc = "idle" /\ pc' = "idle" /\ RunningRecoveryJobs(p) = {}
      BY <1>0, <1>1 DEF FinalizeDeletion, passVars
    <2>2. \A q \in Plans : plan'[q].finalizer => plan'[q].phase # "gone"
      BY <2>1 DEF FinalizerInv
    <2>3. ASSUME NEW n \in DOMAIN jobs', jobs'[n].state = "running"
          PROVE  plan'[PlanOf[n[1]]].finalizer
      <3>1. n \in DOMAIN jobs /\ jobs[n].state = "running"
        BY <1>1, <2>3 DEF FinalizeDeletion, JobsWithout
      <3>2. n[1] \in Devices /\ PlanOf[n[1]] \in Plans
        BY <1>0, <3>1, ConstantsAssumption DEF TypeOK, JobNames
      <3>3. PlanOf[n[1]] # p
        BY <2>1, <3>1 DEF RunningRecoveryJobs, JobsOf
      <3> QED
        BY <2>1, <3>1, <3>2, <3>3 DEF FinalizerInv
    <2>4. ASSUME "untaint" \notin MayFail, NEW t \in nodeTaint'
          PROVE  plan'[t[1]].finalizer
      <3>1. t \in nodeTaint /\ t[1] # p
        BY <1>1, <2>4 DEF FinalizeDeletion, Refused, OnSome, NodesWithTaint
      <3>2. t[1] \in Plans
        BY <1>0, <3>1 DEF TypeOK
      <3> QED
        BY <2>1, <2>4, <3>1, <3>2 DEF FinalizerInv
    <2> QED
      BY <2>1, <2>2, <2>3, <2>4 DEF FinalizerInv
  <1>2. CASE PlansKeepFinalizers
    <2>1. \A q \in Plans : plan'[q].finalizer => plan'[q].phase # "gone"
      BY <1>2 DEF PlansKeepFinalizers, FinalizerInv
    <2>2. ASSUME pc' # "idle" PROVE plan'[cur'].finalizer
      <3>1. CASE cur' = cur /\ pc # "idle"
        BY <1>0, <1>2, <3>1 DEF PlansKeepFinalizers, FinalizerInv
      <3>2. ASSUME NEW p \in Plans, Reconcile(p) PROVE plan'[cur'].finalizer
        BY <3>2 DEF Reconcile, planVars
      <3>3. CASE EndPass
        BY <2>2, <3>3 DEF EndPass
      <3>4. CASE PassIdles \/ PassGoesOn
        BY <2>2, <3>1, <3>4 DEF PassIdles, PassGoesOn
      <3> QED
        BY <3>2, <3>3, <3>4, PassMoves
    <2>3. ASSUME NEW n \in DOMAIN jobs', jobs'[n].state = "running"
          PROVE  plan'[PlanOf[n[1]]].finalizer
      <3>1. CASE n \in DOMAIN jobs /\ jobs[n].state = "running"
        <4>1. PlanOf[n[1]] \in Plans
          BY <1>0, <3>1, ConstantsAssumption DEF TypeOK, JobNames
        <4> QED
          BY <1>2, <3>1, <4>1 DEF PlansKeepFinalizers, FinalizerInv
      <3>2. CASE JobsWane
        BY <2>3, <3>1, <3>2 DEF JobsWane
      <3>3. ASSUME NEW d \in Devices, Starts(d) PROVE plan'[PlanOf[n[1]]].finalizer
        <4>1. CASE n \in DOMAIN jobs
          BY <2>3, <3>1, <3>3, <4>1 DEF Starts
        <4>2. CASE n \notin DOMAIN jobs
          <5>1. n = RecoveryJobName(d, events[d]) /\ events[d].state # "none"
            BY <2>3, <3>3, <4>2 DEF Starts
          <5>2. n[1] = d
            BY <5>1 DEF RecoveryJobName
          <5>3. PlanOf[d] = cur /\ pc # "idle"
            BY <5>1 DEF CopyOfStatus
          <5> QED
            BY <1>0, <1>2, <5>2, <5>3 DEF PlansKeepFinalizers, FinalizerInv
        <4> QED
          BY <4>1, <4>2
      <3> QED
        BY <3>2, <3>3, JobsMove
    <2>4. ASSUME "untaint" \notin MayFail, NEW t \in nodeTaint'
          PROVE  plan'[t[1]].finalizer
      <3>1. CASE t \in nodeTaint
        <4>1. t[1] \in Plans /\ plan[t[1]].finalizer
          BY <1>0, <2>4, <3>1 DEF TypeOK, FinalizerInv
        <4> QED
          BY <1>2, <4>1 DEF PlansKeepFinalizers
      <3>2. CASE t \notin nodeTaint
        <4>1. pc = "drain" /\ \E d \in Devices : t = <<cur, NodeOf[d]>>
          BY <2>4, <3>2, NodeTaintsMove
        <4>2. t[1] = cur
          BY <4>1
        <4> QED
          BY <1>0, <1>2, <4>1, <4>2 DEF PlansKeepFinalizers, FinalizerInv
      <3> QED
        BY <3>1, <3>2
    <2> QED
      BY <2>1, <2>2, <2>3, <2>4 DEF FinalizerInv
  <1> QED
    BY <1>0, <1>1, <1>2, PlansMove

(* At first there is nothing to keep a finalizer for. *)
LEMMA FinalizerInit == Init => FinalizerInv
  <1> SUFFICES ASSUME Init PROVE FinalizerInv
    OBVIOUS
  <1>1. \A p \in Plans : plan[p].phase = "live"
    BY DEF Init
  <1> QED
    BY <1>1 DEF Init, FinalizerInv

(* Jobs, taints and passes are those of plans that carry the finalizer.    *)
THEOREM FinalizerInvariant == Spec => []FinalizerInv
  <1>1. FailedInv => CopyOfStatus
    BY DEF FailedInv
  <1> QED
    BY <1>1, FinalizerInit, FinalizerStep, RecoveryInvariant, FailedInvariant, PTL DEF Spec

(* handleFinalizer: unless removing a taint fails, no node is left         *)
(* unschedulable for a plan that is gone, whenever it was deleted and      *)
(* whatever else was lost.                                                 *)
THEOREM DeletionIsClean ==
  ASSUME "untaint" \notin MayFail PROVE Spec => []DeletionLeavesNothing
  <1>1. RecoveryInv /\ FinalizerInv => DeletionLeavesNothing
    BY DEF RecoveryInv, TypeOK, FinalizerInv, DeletionLeavesNothing
  <1> QED
    BY <1>1, RecoveryInvariant, FinalizerInvariant, PTL

-----------------------------------------------------------------------------
(* Recoveries that run.                                                    *)

(* A Job is late only once it outlived its deadline. *)
NoneLate == "overdue" \notin MayHappen => \A n \in DOMAIN jobs : ~jobs[n].late

(* Only the deadline makes one so. *)
LEMMA NoneLateStep ==
  ASSUME RecoveryInv, NoneLate, [Next]_vars PROVE NoneLate'
  <1>1. CASE JobsWane
    BY <1>1 DEF JobsWane, NoneLate
  <1>2. ASSUME NEW d \in Devices, Starts(d) PROVE NoneLate'
    BY <1>2 DEF Starts, NoneLate
  <1> QED
    BY <1>1, <1>2, JobsMove

(* Where nobody else deletes Jobs and none outlives its deadline, a step   *)
(* that deletes one finds it ended.                                        *)
LEMMA DeletedHasEnded ==
  ASSUME {"jobs", "overdue"} \cap MayHappen = {},
         RecoveryInv, PastInv, FinalizerInv, NoneLate, [Next]_vars,
         NEW n \in DOMAIN jobs, jobs[n].state = "running"
  PROVE  n \in DOMAIN jobs'
  <1>0. TypeOK /\ ~jobs[n].late
    BY DEF RecoveryInv, NoneLate
  <1>1. CASE UNCHANGED jobs
    BY <1>1
  <1>2. CASE SyncRecoveryEventsFromSlices
    <2>1. PICK S \in SUBSET Doomed : jobs' = JobsWithout(S)
      BY <1>2, DetectionOf DEF Detection
    <2>2. ASSUME n \in Doomed PROVE FALSE
      <3>1. PICK d \in Resolved : n \in EventJobs(d, events[d])
        BY <2>2 DEF Doomed
      <3>2. d \in Devices /\ n \in PastJobs(events[d])
        BY <3>1 DEF Resolved, Present, EventJobs
      <3>3. Ended(n)
        BY <3>2 DEF PastInv, PastEnded
      <3> QED
        BY <1>0, <3>3 DEF Ended
    <2> QED
      BY <2>1, <2>2 DEF JobsWithout
  <1>3. ASSUME NEW p \in Plans, FinalizeDeletion(p) PROVE n \in DOMAIN jobs'
    <2>1. RunningRecoveryJobs(p) = {} /\ \E S \in SUBSET JobsOf(p) : jobs' = JobsWithout(S)
      BY <1>3 DEF FinalizeDeletion
    <2> QED
      BY <2>1 DEF RunningRecoveryJobs, JobsOf, JobsWithout
  <1>4. ASSUME NEW p \in Plans, GarbageCollect(p) PROVE n \in DOMAIN jobs'
    <2>1. plan[p].phase = "gone" /\ jobs' = JobsWithout(JobsOf(p))
      BY <1>4 DEF GarbageCollect
    <2>2. ~plan[p].finalizer /\ n \notin JobsOf(p)
      BY <2>1 DEF FinalizerInv, JobsOf
    <2> QED
      BY <2>1, <2>2 DEF JobsWithout
  <1>5. \A m \in DOMAIN jobs : ~DeleteJob(m)
    BY DEF DeleteJob, Editing
  <1>6. ASSUME NEW m \in DOMAIN jobs,
               (\E state \in {"complete", "failed"} : JobEnds(m, state)) \/ JobOverdue(m)
        PROVE  n \in DOMAIN jobs'
    <2>1. DOMAIN jobs' = DOMAIN jobs
      BY <1>0, <1>6, Zenon DEF TypeOK, JobEnds, JobOverdue
    <2> QED
      BY <2>1
  <1>7. CASE Crash \/ UNCHANGED vars \/ AdminStep
    BY <1>1, <1>5, <1>7, Zenon DEF Crash, vars, clusterVars, AdminStep, AddApproval,
       RemoveApproval, SetApproval, EditFirmware, EditDrain, DeletePlan
  <1>8. CASE ClusterStep
    <2>1. CASE \/ \E d \in Devices, k \in TaintKeys : TaintDevice(d, k) \/ UntaintDevice(d, k)
               \/ \E d \in Devices : Expire(d) \/ ReleaseClaim(d)
               \/ \E m \in Nodes : ScheduleWorkload(m) \/ WorkloadEnds(m)
      BY <1>1, <2>1, Zenon DEF TaintDevice, UntaintDevice, Expire, ReleaseClaim,
         ScheduleWorkload, WorkloadEnds
    <2> QED
      BY <1>4, <1>6, <1>8, <2>1 DEF ClusterStep
  <1>9. ASSUME NEW p \in Plans, BeginPass(p) PROVE n \in DOMAIN jobs'
    BY <1>1, <1>3, <1>9 DEF BeginPass, Reconcile, AddFinalizer, clusterVars
  <1>10. CASE PassStep
    <2>1. ASSUME ~SyncRecoveryEventsFromSlices
          PROVE  UNCHANGED jobs \/ \E d \in Devices : Starts(d)
      BY <1>10, <2>1, PassStepJobs
    <2> QED
      BY <1>1, <1>2, <2>1, Zenon DEF Starts
  <1> QED
    BY <1>7, <1>8, <1>9, <1>10 DEF Next

(* handleFinalizer, removeResolvedEvents: for any plans and GPUs, whatever *)
(* calls fail and whenever the operator restarts, it deletes a recovery    *)
(* Job only after it has ended, as does the garbage collector.             *)
THEOREM RecoveriesRunToTheirEnd ==
  ASSUME {"jobs", "overdue"} \cap MayHappen = {}
  PROVE  Spec => RecoveriesAreNotCutShort
  <1>1. Init => NoneLate
    BY DEF Init, NoneLate
  <1>2. RecoveryInv /\ PastInv /\ FinalizerInv /\ NoneLate /\ [Next]_vars =>
          [\A n \in DOMAIN jobs : jobs[n].state = "running" => n \in DOMAIN jobs']_jobs
    BY DeletedHasEnded
  <1>3. RecoveryInv /\ NoneLate /\ [Next]_vars => NoneLate'
    BY NoneLateStep
  <1> QED
    BY <1>1, <1>2, <1>3, RecoveryInvariant, PastInvariant, FinalizerInvariant, PTL
    DEF Spec, RecoveriesAreNotCutShort

-----------------------------------------------------------------------------
(* Recoveries on one node.                                                 *)

(* No status write fails and no pass is cut off. *)
NothingLost == {"status", "crash"} \cap MayFail = {}

(* What the controller takes GPU d's event to be: the copy a pass of its   *)
(* plan works on, or what is persisted.                                    *)
Current(d) == IF pc # "idle" /\ PlanOf[d] = cur THEN events[d] ELSE status[d]

(* What a step does to an event, wherever it is held: nothing, or its plan *)
(* is gone, or the pass moves it.                                          *)
LEMMA CurrentMoves ==
  ASSUME NothingLost, RecoveryInv, CopyOfStatus, Written, [Next]_vars, NEW d \in Devices
  PROVE  \/ Current(d)' = Current(d)
         \/ FinalizeDeletion(PlanOf[d]) /\ Current(d)' = NoEvent
         \/ /\ PassGoesOn /\ PlanOf[d] = cur /\ Moves(d)
            /\ Current(d) = events[d] /\ Current(d)' = events'[d]
  <1>0. status \in [Devices -> Event]
    BY DEF RecoveryInv, TypeOK
  <1>1. CASE PassIdles
    <2>1. CASE pc # "idle" /\ PlanOf[d] = cur
      BY <1>1, <2>1 DEF PassIdles, Current
    <2>2. CASE ~(pc # "idle" /\ PlanOf[d] = cur)
      <3>1. Current(d) = status[d] /\ Current(d)' = status'[d]
        BY <1>1, <2>2 DEF PassIdles, Current
      <3>2. \/ status'[d] = status[d]
            \/ FinalizeDeletion(PlanOf[d]) /\ status'[d] = NoEvent
        BY <1>0, <1>1, StatusMoves DEF PassIdles
      <3> QED
        BY <3>1, <3>2
    <2> QED
      BY <2>1, <2>2
  <1>2. ASSUME NEW p \in Plans, Reconcile(p) PROVE Current(d)' = Current(d)
    BY <1>2 DEF Reconcile, planVars, Current
  <1>3. CASE EndPass /\ UNCHANGED status /\ (pc \in {"detect", "spec"} \/ "crash" \in MayFail)
    <2>1. pc \in {"detect", "spec"} /\ pc' = "idle"
      BY <1>3 DEF NothingLost, EndPass
    <2>2. PlanOf[d] = cur => events[d] = status[d]
      BY <2>1 DEF CopyOfStatus, Written, DevicesOf
    <2> QED
      BY <1>3, <2>1, <2>2 DEF Current
  <1>4. CASE PassGoesOn
    <2>1. pc # "idle" /\ pc' # "idle" /\ cur' = cur /\ Moves(d)
      BY <1>4 DEF PassGoesOn
    <2>2. PlanOf[d] # cur => status'[d] = status[d]
      BY <1>0, <2>1, StatusMoves
    <2> QED
      BY <1>4, <2>1, <2>2 DEF Current
  <1> QED
    BY <1>1, <1>2, <1>3, <1>4, PassMoves

-----------------------------------------------------------------------------
(* Whose the running Jobs are.                                             *)

(* A Job that runs is the present attempt of an event in progress. *)
RunsOwn ==
    \A n \in DOMAIN jobs :
        jobs[n].state = "running" =>
            /\ Current(n[1]).state = "in-progress"
            /\ n = RecoveryJobName(n[1], Current(n[1]))

(* While its Job runs within the deadline, a pass leaves an event alone. *)
LEMMA RunningStays ==
  ASSUME TypeOK, NEW d \in Devices, Moves(d), events[d].state = "in-progress",
         NEW n \in DOMAIN jobs, n = RecoveryJobName(d, events[d]),
         jobs[n].state = "running", ~jobs[n].late
  PROVE  Stays(d)
  <1>1. ~Clears(d) /\ ~Appears(d) /\ ~Escalates(d) /\ ~Progresses(d)
    BY DEF Clears, Resolved, Appears, Escalates, Progresses
  <1>2. \A a \in Approvals : ~Answers(d, a)
    BY DEF Answers, Authorises, Startable
  <1>3. ~IsJudged(d)
    BY DEF IsJudged
  <1> QED
    BY <1>1, <1>2, <1>3 DEF Moves

(* A recovery that starts is the present one, with its Job. *)
LEMMA StartsOwn ==
  ASSUME CopyOfStatus, NEW d \in Devices, Starts(d)
  PROVE  /\ PlanOf[d] = cur /\ pc # "idle" /\ Current(d) = events[d]
         /\ Current(d)' = events'[d] /\ events'[d].state = "in-progress"
         /\ RecoveryJobName(d, events'[d]) = RecoveryJobName(d, events[d])
         /\ events'[d].fault = events[d].fault
  <1>1. PlanOf[d] = cur /\ pc # "idle" /\ pc' = pc /\ cur' = cur
    BY Zenon DEF Starts, CopyOfStatus
  <1> QED
    BY <1>1 DEF Starts, SameRecovery, RecoveryJobName, Current

(* A Job that runs stays the present attempt of its event. *)
LEMMA RunsOwnStep ==
  ASSUME NothingLost, "overdue" \notin MayHappen,
         RecoveryInv, CopyOfStatus, Written, NoneLate, RunsOwn, [Next]_vars
  PROVE  RunsOwn'
  <1> SUFFICES ASSUME NEW n \in DOMAIN jobs', jobs'[n].state = "running"
               PROVE  /\ Current(n[1])'.state = "in-progress"
                      /\ n = RecoveryJobName(n[1], Current(n[1])')
    BY DEF RunsOwn, RecoveryJobName
  <1>0. TypeOK
    BY DEF RecoveryInv
  <1>1. CASE n \in DOMAIN jobs /\ jobs[n].state = "running"
    <2>1. /\ n[1] \in Devices /\ ~jobs[n].late
          /\ Current(n[1]).state = "in-progress" /\ n = RecoveryJobName(n[1], Current(n[1]))
      BY <1>0, <1>1 DEF TypeOK, JobNames, NoneLate, RunsOwn
    <2>2. CASE Current(n[1])' = Current(n[1])
      BY <2>1, <2>2
    <2>3. CASE FinalizeDeletion(PlanOf[n[1]])
      <3>1. n \in RunningRecoveryJobs(PlanOf[n[1]])
        BY <1>1 DEF RunningRecoveryJobs, JobsOf
      <3> QED
        BY <2>3, <3>1 DEF FinalizeDeletion
    <2>4. CASE /\ Moves(n[1]) /\ Current(n[1]) = events[n[1]]
               /\ Current(n[1])' = events'[n[1]]
      <3>1. Stays(n[1])
        BY <1>0, <1>1, <2>1, <2>4, RunningStays
      <3> QED
        BY <2>1, <2>4, <3>1 DEF Stays, SameRecovery, RecoveryJobName
    <2> QED
      BY <2>1, <2>2, <2>3, <2>4, CurrentMoves
  <1>2. CASE JobsWane
    BY <1>1, <1>2 DEF JobsWane
  <1>3. ASSUME NEW d \in Devices, Starts(d), n \notin DOMAIN jobs
        PROVE  /\ Current(n[1])'.state = "in-progress"
               /\ n = RecoveryJobName(n[1], Current(n[1])')
    <2>1. n = RecoveryJobName(d, events[d])
      BY <1>3 DEF Starts
    <2>2. n[1] = d
      BY <2>1, JobNameParts
    <2>3. Current(d)'.state = "in-progress" /\ n = RecoveryJobName(d, Current(d)')
      BY <1>3, <2>1, StartsOwn
    <2> QED
      BY <2>2, <2>3
  <1>4. ASSUME NEW d \in Devices, Starts(d), n \in DOMAIN jobs PROVE jobs[n].state = "running"
    BY <1>4 DEF Starts
  <1> QED
    BY <1>1, <1>2, <1>3, <1>4, JobsMove, Zenon

(* What the theorems below need of every state. *)
OwnInv == RecoveryInv /\ FailedInv /\ PastInv /\ FinalizerInv /\ NoneLate /\ Written

(* It holds at first ... *)
LEMMA OwnInit == Init => OwnInv
  <1> SUFFICES ASSUME Init PROVE OwnInv
    OBVIOUS
  <1>1. NoneLate /\ Written
    BY DEF Init, NoneLate, Written
  <1> QED
    BY <1>1, RecoveryInit, FailedInit, PastInit, FinalizerInit DEF OwnInv

(* ... and in every step. *)
LEMMA OwnStep ==
  ASSUME NothingLost, OwnInv, [Next]_vars PROVE OwnInv'
  <1>1. RecoveryInv /\ FailedInv /\ CopyOfStatus /\ PastInv /\ FinalizerInv /\ NoneLate /\ Written
    BY DEF OwnInv, FailedInv
  <1>2. RecoveryInv' /\ FailedInv' /\ PastInv'
    BY <1>1, RecoveryStep, FailedStep, PastStep
  <1>3. FinalizerInv' /\ NoneLate' /\ Written'
    BY <1>1, FinalizerStep, NoneLateStep, WrittenStep DEF NothingLost
  <1> QED
    BY <1>2, <1>3 DEF OwnInv

(* The events of a plan's GPUs, as the controller takes them to be, do not *)
(* own the same node.                                                      *)
LEMMA CurrentOneOwner ==
  ASSUME OneOwnerIn(status), OneOwnerIn(events), NEW d \in Devices, NEW o \in Devices,
         d # o, NodeOf[d] = NodeOf[o], PlanOf[d] = PlanOf[o], Current(d).state \in Active
  PROVE  Current(o).state \notin Active
  BY DEF Current, OneOwnerIn

(* RECOVERY.md, "One recovery per node at a time": where the GPUs of a     *)
(* node are of one plan, no Job outlives its deadline and the controller   *)
(* loses nothing, two recovery Jobs never run on one node, however faults, *)
(* approvals, drains and passes interleave.                                *)
THEOREM OneRecovery ==
  ASSUME {"status", "crash"} \cap MayFail = {}, "overdue" \notin MayHappen,
         \A d, o \in Devices : NodeOf[d] = NodeOf[o] => PlanOf[d] = PlanOf[o]
  PROVE  Spec => []OneRecoveryPerNode
  <1>0. NothingLost
    BY DEF NothingLost
  <1>1. Init => OwnInv /\ RunsOwn
    BY OwnInit DEF Init, RunsOwn
  <1>2. OwnInv /\ RunsOwn /\ [Next]_vars => (OwnInv /\ RunsOwn)'
    BY <1>0, OwnStep, RunsOwnStep, Zenon DEF OwnInv, FailedInv
  <1>3. OwnInv /\ RunsOwn => OneRecoveryPerNode
    <2> SUFFICES ASSUME OwnInv, RunsOwn, NEW m \in DOMAIN jobs, NEW n \in DOMAIN jobs,
                        m # n, NodeOf[m[1]] = NodeOf[n[1]],
                        jobs[m].state = "running", jobs[n].state = "running"
                 PROVE  FALSE
      BY DEF OneRecoveryPerNode
    <2>1. /\ m[1] \in Devices /\ n[1] \in Devices
          /\ OneOwnerIn(status) /\ OneOwnerIn(events)
      BY DEF OwnInv, RecoveryInv, TypeOK, JobNames
    <2>2. /\ Current(m[1]).state = "in-progress" /\ m = RecoveryJobName(m[1], Current(m[1]))
          /\ Current(n[1]).state = "in-progress" /\ n = RecoveryJobName(n[1], Current(n[1]))
      BY DEF RunsOwn
    <2>3. m[1] # n[1]
      BY <2>2
    <2>4. PlanOf[m[1]] = PlanOf[n[1]]
      BY <2>1
    <2> QED
      BY <2>1, <2>2, <2>3, <2>4, CurrentOneOwner DEF Active
  <1> QED
    BY <1>1, <1>2, <1>3, PTL DEF Spec

-----------------------------------------------------------------------------
(* The life of an event, as the status tells it.                           *)

Record ==
    [kind : {"none", "reset", "reflash"},
     stage : {"none", "open", "draining", "in-progress", "succeeded", "failed"},
     tried : Seq(JobNames)]

(* What the status tells of an event is a record. *)
LEMMA RecordedType ==
  ASSUME NEW e \in Event
  PROVE  /\ Recorded(e) \in Record
         /\ Recorded(e).tried = e.pastJobs
         /\ e.state = "none" <=> Recorded(e).kind = "none"
         /\ e.state # "none" => (e.idType = "reflash" <=> Recorded(e).kind = "reflash")
         /\ e.state \in {"waiting-approval", "blocked", "missing-firmware"}
              <=> Recorded(e).stage = "open"
         /\ e.state \notin {"waiting-approval", "blocked", "missing-firmware"}
              => Recorded(e).stage = e.state
  <1>1. /\ e.state \in EventStates \cup {"none"} /\ e.idType \in RecoveryTypes
        /\ e.pastJobs \in Seq(JobNames)
    BY DEF Event
  <1> QED
    BY <1>1 DEF Recorded, Record, EventStates

(* Records with the same fields are the same. *)
LEMMA SameRecord ==
  ASSUME NEW r \in Record, NEW q \in Record,
         q.kind = r.kind, q.stage = r.stage, q.tried = r.tried
  PROVE  q = r
  BY DEF Record

(* No record, and no event. *)
LEMMA NoRecord ==
  /\ LifecycleOf!None \in Record /\ Recorded(NoEvent) = LifecycleOf!None
  /\ LifecycleOf!None.kind = "none" /\ LifecycleOf!None.stage = "none"
  /\ LifecycleOf!None.tried = <<>>
  <1>1. <<>> \in Seq(JobNames)
    OBVIOUS
  <1> QED
    BY <1>1 DEF LifecycleOf!None, Record, Recorded, NoEvent

(* A record with another stage. *)
LEMMA StageSet ==
  ASSUME NEW r \in Record, NEW s \in {"open", "draining", "in-progress", "failed"}, NEW q,
         q = [r EXCEPT !.stage = s]
  PROVE  q \in Record /\ q.kind = r.kind /\ q.stage = s /\ q.tried = r.tried
  BY DEF Record

(* An approval changes the stage of a record that is open or failed. *)
LEMMA ApprovedStage ==
  ASSUME NEW r \in Record, NEW q
  PROVE  q \in LifecycleOf!Approved(r) <=>
           /\ q \in Record /\ q.kind = r.kind /\ q.tried = r.tried
           /\ \/ q.stage = r.stage
              \/ /\ r.stage \in {"open", "failed"}
                 /\ q.stage \in {"open", "draining", "in-progress"}
  <1>1. ASSUME q \in LifecycleOf!Approved(r), q # r
        PROVE  \E s \in {"open", "draining", "in-progress"} :
                 q = [r EXCEPT !.stage = s] /\ r.stage \in {"open", "failed"}
    BY <1>1 DEF LifecycleOf!Approved
  <1>2. ASSUME q \in Record, q.kind = r.kind, q.tried = r.tried, q.stage = r.stage
        PROVE  q \in LifecycleOf!Approved(r)
    <2>1. q = r
      BY <1>2, SameRecord
    <2> QED
      BY <2>1 DEF LifecycleOf!Approved
  <1>3. ASSUME q \in Record, q.kind = r.kind, q.tried = r.tried,
               r.stage \in {"open", "failed"}, q.stage \in {"open", "draining", "in-progress"}
        PROVE  q \in LifecycleOf!Approved(r)
    <2>0. PICK x : x = [r EXCEPT !.stage = q.stage]
      BY Zenon
    <2>1. x \in Record /\ x.kind = r.kind /\ x.stage = q.stage /\ x.tried = r.tried
      BY <1>3, <2>0, StageSet
    <2>2. q = x
      BY <1>3, <2>1, SameRecord
    <2>3. x \in {[r EXCEPT !.stage = t] : t \in {"open", "draining", "in-progress"}}
      BY <1>3, <2>0
    <2> QED
      BY <1>3, <2>2, <2>3 DEF LifecycleOf!Approved
  <1>4. ASSUME NEW s \in {"open", "draining", "in-progress"}, q = [r EXCEPT !.stage = s]
        PROVE  q \in Record /\ q.kind = r.kind /\ q.tried = r.tried /\ q.stage = s
    BY <1>4, StageSet
  <1>5. ASSUME q \in LifecycleOf!Approved(r)
        PROVE  /\ q \in Record /\ q.kind = r.kind /\ q.tried = r.tried
               /\ \/ q.stage = r.stage
                  \/ /\ r.stage \in {"open", "failed"}
                     /\ q.stage \in {"open", "draining", "in-progress"}
    <2>1. CASE q = r
      BY <2>1
    <2>2. CASE q # r
      BY <1>1, <1>4, <1>5, <2>2, Zenon
    <2> QED
      BY <2>1, <2>2
  <1> QED
    BY <1>2, <1>3, <1>5

(* The drain changes the stage of a record that is draining. *)
LEMMA DrainedStage ==
  ASSUME NEW r \in Record, NEW q
  PROVE  q \in LifecycleOf!Drained(r) <=>
           /\ q \in Record /\ q.kind = r.kind /\ q.tried = r.tried
           /\ \/ q.stage = r.stage
              \/ r.stage = "draining" /\ q.stage \in {"in-progress", "failed"}
  <1>1. ASSUME q \in LifecycleOf!Drained(r), q # r
        PROVE  \E s \in {"in-progress", "failed"} :
                 q = [r EXCEPT !.stage = s] /\ r.stage = "draining"
    BY <1>1 DEF LifecycleOf!Drained
  <1>2. ASSUME q \in Record, q.kind = r.kind, q.tried = r.tried, q.stage = r.stage
        PROVE  q \in LifecycleOf!Drained(r)
    <2>1. q = r
      BY <1>2, SameRecord
    <2> QED
      BY <2>1 DEF LifecycleOf!Drained
  <1>3. ASSUME q \in Record, q.kind = r.kind, q.tried = r.tried,
               r.stage = "draining", q.stage \in {"in-progress", "failed"}
        PROVE  q \in LifecycleOf!Drained(r)
    <2>0. PICK x : x = [r EXCEPT !.stage = q.stage]
      BY Zenon
    <2>1. x \in Record /\ x.kind = r.kind /\ x.stage = q.stage /\ x.tried = r.tried
      BY <1>3, <2>0, StageSet
    <2>2. q = x
      BY <1>3, <2>1, SameRecord
    <2>3. x \in {[r EXCEPT !.stage = t] : t \in {"in-progress", "failed"}}
      BY <1>3, <2>0
    <2> QED
      BY <1>3, <2>2, <2>3 DEF LifecycleOf!Drained
  <1>4. ASSUME NEW s \in {"in-progress", "failed"}, q = [r EXCEPT !.stage = s]
        PROVE  q \in Record /\ q.kind = r.kind /\ q.tried = r.tried /\ q.stage = s
    BY <1>4, StageSet
  <1>5. ASSUME q \in LifecycleOf!Drained(r)
        PROVE  /\ q \in Record /\ q.kind = r.kind /\ q.tried = r.tried
               /\ \/ q.stage = r.stage
                  \/ r.stage = "draining" /\ q.stage \in {"in-progress", "failed"}
    <2>1. CASE q = r
      BY <2>1
    <2>2. CASE q # r
      BY <1>1, <1>4, <1>5, <2>2, Zenon
    <2> QED
      BY <2>1, <2>2
  <1> QED
    BY <1>2, <1>3, <1>5

(* A fresh record. *)
LEMMA RaisedRecord ==
  ASSUME NEW k \in {"reset", "reflash"}
  PROVE  /\ LifecycleOf!Raised(k) \in Record
         /\ LifecycleOf!Raised(k).kind = k /\ LifecycleOf!Raised(k).stage = "open"
         /\ LifecycleOf!Raised(k).tried = <<>>
  <1>1. <<>> \in Seq(JobNames)
    OBVIOUS
  <1> QED
    BY <1>1 DEF LifecycleOf!Raised, Record

(* What detection makes of a record is one. *)
LEMMA DetectedType ==
  ASSUME NEW r \in Record, NEW q \in LifecycleOf!Detected(r) PROVE q \in Record
  <1>1. \/ q = r \/ q = LifecycleOf!None
        \/ q = LifecycleOf!Raised("reset") \/ q = LifecycleOf!Raised("reflash")
        \/ q = [r EXCEPT !.kind = "reflash", !.stage = "open"]
    BY DEF LifecycleOf!Detected, LifecycleOf!Escalated
  <1>2. CASE q = LifecycleOf!Raised("reset") \/ q = LifecycleOf!Raised("reflash")
    BY <1>2, RaisedRecord
  <1>3. CASE q = [r EXCEPT !.kind = "reflash", !.stage = "open"]
    BY <1>3, Zenon DEF Record
  <1> QED
    BY <1>1, <1>2, <1>3, NoRecord

(* What is detected may be left at that. *)
LEMMA DetectedIsTakenUp ==
  ASSUME NEW r \in Record, NEW q \in LifecycleOf!Detected(r) PROVE q \in LifecycleOf!TakenUp(r)
  <1>1. q \in LifecycleOf!Approved(q)
    BY DEF LifecycleOf!Approved
  <1> QED
    BY <1>1 DEF LifecycleOf!TakenUp

(* Approvals that take up a record one after the other do no more than one *)
(* of them.                                                                *)
LEMMA TakenUpOnce ==
  ASSUME NEW r \in Record, NEW x \in LifecycleOf!TakenUp(r), NEW q \in LifecycleOf!Approved(x)
  PROVE  q \in LifecycleOf!TakenUp(r) /\ x \in Record
  <1>1. PICK y \in LifecycleOf!Detected(r) : x \in LifecycleOf!Approved(y)
    BY DEF LifecycleOf!TakenUp
  <1>2. y \in Record
    BY <1>1, DetectedType
  <1>3. /\ x \in Record /\ x.kind = y.kind /\ x.tried = y.tried
        /\ \/ x.stage = y.stage
           \/ /\ y.stage \in {"open", "failed"}
              /\ x.stage \in {"open", "draining", "in-progress"}
    BY <1>1, <1>2, ApprovedStage
  <1>4. /\ q \in Record /\ q.kind = x.kind /\ q.tried = x.tried
        /\ \/ q.stage = x.stage
           \/ /\ x.stage \in {"open", "failed"}
              /\ q.stage \in {"open", "draining", "in-progress"}
    BY <1>3, ApprovedStage
  <1>5. q \in LifecycleOf!Approved(y)
    <2>1. /\ q \in Record /\ q.kind = y.kind /\ q.tried = y.tried
          /\ \/ q.stage = y.stage
             \/ /\ y.stage \in {"open", "failed"}
                /\ q.stage \in {"open", "draining", "in-progress"}
      BY <1>3, <1>4
    <2> QED
      BY <1>2, <2>1, ApprovedStage
  <1> QED
    BY <1>1, <1>3, <1>5 DEF LifecycleOf!TakenUp

(* So do the drains of several passes. *)
LEMMA CourseOnce ==
  ASSUME NEW r \in Record, NEW x \in LifecycleOf!Course(r), NEW q \in LifecycleOf!Drained(x)
  PROVE  q \in LifecycleOf!Course(r) /\ x \in Record
  <1>1. PICK y \in LifecycleOf!TakenUp(r) : x \in LifecycleOf!Drained(y)
    BY DEF LifecycleOf!Course
  <1>2. y \in Record
    <2>1. y \in LifecycleOf!Approved(y)
      BY DEF LifecycleOf!Approved
    <2> QED
      BY <1>1, <2>1, TakenUpOnce
  <1>3. /\ x \in Record /\ x.kind = y.kind /\ x.tried = y.tried
        /\ \/ x.stage = y.stage
           \/ y.stage = "draining" /\ x.stage \in {"in-progress", "failed"}
    BY <1>1, <1>2, DrainedStage
  <1>4. /\ q \in Record /\ q.kind = x.kind /\ q.tried = x.tried
        /\ \/ q.stage = x.stage
           \/ x.stage = "draining" /\ q.stage \in {"in-progress", "failed"}
    BY <1>3, DrainedStage
  <1>5. q \in LifecycleOf!Drained(y)
    <2>1. /\ q \in Record /\ q.kind = y.kind /\ q.tried = y.tried
          /\ \/ q.stage = y.stage
             \/ y.stage = "draining" /\ q.stage \in {"in-progress", "failed"}
      BY <1>3, <1>4
    <2> QED
      BY <1>2, <2>1, DrainedStage
  <1> QED
    BY <1>1, <1>3, <1>5 DEF LifecycleOf!Course

(* What is taken up may be left at that, and a record may end its course   *)
(* without a verdict.                                                      *)
LEMMA CourseCovers ==
  ASSUME NEW r
  PROVE  /\ LifecycleOf!TakenUp(r) \subseteq LifecycleOf!Course(r)
         /\ \A q \in LifecycleOf!Course(r) : LifecycleOf!Evolves(r, q)
  <1>1. \A q : q \in LifecycleOf!Drained(q)
    BY DEF LifecycleOf!Drained
  <1>2. LifecycleOf!TakenUp(r) \subseteq LifecycleOf!Course(r)
    BY <1>1 DEF LifecycleOf!Course
  <1>3. \A q \in LifecycleOf!Course(r) : LifecycleOf!Evolves(r, q)
    BY DEF LifecycleOf!Evolves
  <1> QED
    BY <1>2, <1>3

(* An event that only waits says the same as before. *)
LEMMA LifeStays ==
  ASSUME NEW d, Stays(d) PROVE Recorded(events'[d]) = Recorded(events[d])
  BY DEF Stays, SameRecovery, Recorded

(* syncRecoveryEventsFromSlices *)
LEMMA LifeDetected ==
  ASSUME NEW d \in Devices, events[d] \in Event, events'[d] \in Event, Kinds(events),
         InOrder(d, events[d]), Moves(d), pc = "detect"
  PROVE  Recorded(events'[d]) \in LifecycleOf!Detected(Recorded(events[d]))
  <1> DEFINE r == Recorded(events[d])
             q == Recorded(events'[d])
  <1>0. r \in Record /\ q \in Record
    BY RecordedType
  <1>1. CASE Stays(d)
    BY <1>1, LifeStays DEF LifecycleOf!Detected
  <1>2. CASE Clears(d)
    <2>1. q = LifecycleOf!None
      BY <1>2, NoRecord DEF Clears
    <2>2. CASE events[d].state = "none"
      <3>1. r.kind = "none" /\ r.stage = "none" /\ r.tried = <<>>
        BY <2>2 DEF Recorded, InOrder
      <3> HIDE DEF r, q
      <3>2. q = r
        BY <1>0, <2>1, <3>1, NoRecord, SameRecord
      <3>3. q \in LifecycleOf!Detected(r)
        BY <3>2 DEF LifecycleOf!Detected
      <3> QED
        BY <3>3 DEF r, q
    <2>3. CASE events[d].state # "none"
      <3>1. events[d].state # "in-progress"
        BY <1>2, <2>3 DEF Clears, Resolved
      <3>2. r.kind # "none" /\ r.stage # "in-progress"
        BY <2>3, <3>1 DEF Recorded
      <3> HIDE DEF r, q
      <3>3. q \in LifecycleOf!Detected(r)
        BY <2>1, <3>2, NoRecord DEF LifecycleOf!Detected
      <3> QED
        BY <3>3 DEF r, q
    <2> QED
      BY <2>2, <2>3, Zenon
  <1>3. CASE Appears(d)
    <2>1. /\ events[d].state = "none" /\ events[d].pastJobs = <<>>
          /\ events'[d].state = "waiting-approval" /\ events'[d].pastJobs = <<>>
      BY <1>3 DEF Appears, InOrder
    <2>2. r.kind = "none" /\ r.stage = "none" /\ r.tried = <<>>
      BY <2>1, Zenon DEF Recorded
    <2>3. q.kind \in {"reset", "reflash"} /\ q.stage = "open" /\ q.tried = <<>>
      BY <2>1 DEF Recorded
    <2> HIDE DEF r, q
    <2>4. r = LifecycleOf!None
      BY <1>0, <2>2, NoRecord, SameRecord
    <2>5. q = LifecycleOf!Raised(q.kind)
      BY <1>0, <2>3, RaisedRecord, SameRecord, Zenon
    <2>6. q \in {LifecycleOf!Raised("reset"), LifecycleOf!Raised("reflash")}
      BY <2>3, <2>5
    <2>7. q \in LifecycleOf!Detected(r)
      BY <2>2, <2>4, <2>6 DEF LifecycleOf!Detected
    <2> QED
      BY <2>7 DEF r, q
  <1>4. CASE Escalates(d)
    <2>1. events[d].idType # "reflash" /\ events[d].state \notin {"none", "in-progress"}
      BY <1>4 DEF Escalates, Kinds, Priority
    <2>2. /\ events'[d].state = "waiting-approval" /\ events'[d].idType = "reflash"
          /\ events'[d].pastJobs = events[d].pastJobs
      BY <1>4 DEF Escalates
    <2>3. r.kind = "reset" /\ r.stage # "in-progress" /\ r.tried = events[d].pastJobs
      BY <2>1, Zenon DEF Recorded
    <2>4. q.kind = "reflash" /\ q.stage = "open" /\ q.tried = events[d].pastJobs
      BY <2>2 DEF Recorded
    <2> HIDE DEF r, q
    <2>5. PICK x : x = [r EXCEPT !.kind = "reflash", !.stage = "open"]
      OBVIOUS
    <2>6. x \in Record /\ x.kind = "reflash" /\ x.stage = "open" /\ x.tried = r.tried
      BY <1>0, <2>5, Zenon DEF Record
    <2>7. q = x
      BY <1>0, <2>3, <2>4, <2>6, SameRecord
    <2>8. q \in LifecycleOf!Escalated(r)
      BY <2>3, <2>5, <2>7 DEF LifecycleOf!Escalated
    <2>9. r # LifecycleOf!None /\ r.stage # "in-progress"
      BY <2>3, NoRecord
    <2>10. q \in LifecycleOf!Detected(r)
      BY <2>8, <2>9 DEF LifecycleOf!Detected
    <2> QED
      BY <2>10 DEF r, q
  <1> QED
    BY <1>1, <1>2, <1>3, <1>4, Zenon DEF Moves, Answers, Progresses, IsJudged

(* processApprovals *)
LEMMA LifeApproved ==
  ASSUME NEW d \in Devices, events[d] \in Event, events'[d] \in Event, Moves(d),
         pc \in {"openshift", "approve"}
  PROVE  Recorded(events'[d]) \in LifecycleOf!Approved(Recorded(events[d]))
  <1> DEFINE r == Recorded(events[d])
             q == Recorded(events'[d])
  <1>0. r \in Record /\ q \in Record
    BY RecordedType, Zenon
  <1>1. CASE Stays(d)
    BY <1>1, LifeStays DEF LifecycleOf!Approved
  <1>2. ASSUME NEW a \in Approvals, Answers(d, a) PROVE q \in LifecycleOf!Approved(r)
    <2>1. events[d].state \in {"waiting-approval", "blocked", "missing-firmware", "failed"}
      BY <1>2, Zenon DEF Answers, Authorises, Startable
    <2>2. /\ events'[d].state \in {"waiting-approval", "blocked", "missing-firmware",
                                   "draining", "in-progress"}
          /\ events'[d].idType = events[d].idType /\ events'[d].pastJobs = events[d].pastJobs
      BY <1>2, Zenon DEF Answers, SameRecovery, EventStates
    <2>3. r.stage \in {"open", "failed"} /\ q.stage \in {"open", "draining", "in-progress"}
      BY <2>1, <2>2, Zenon DEF Recorded
    <2>4. q.kind = r.kind /\ q.tried = r.tried
      BY <2>1, <2>2 DEF Recorded
    <2> HIDE DEF r, q
    <2> QED
      BY <1>0, <2>3, <2>4, ApprovedStage
  <1> QED
    BY <1>1, <1>2, Zenon DEF Moves, Clears, Appears, Escalates, Progresses, IsJudged

(* processDrains *)
LEMMA LifeDrained ==
  ASSUME NEW d \in Devices, events[d] \in Event, events'[d] \in Event, Moves(d), pc = "drain"
  PROVE  Recorded(events'[d]) \in LifecycleOf!Drained(Recorded(events[d]))
  <1> DEFINE r == Recorded(events[d])
             q == Recorded(events'[d])
  <1>0. r \in Record /\ q \in Record
    BY RecordedType, Zenon
  <1>1. CASE Stays(d)
    BY <1>1, LifeStays DEF LifecycleOf!Drained
  <1>2. CASE Progresses(d)
    <2>1. /\ events[d].state = "draining" /\ events'[d].state \in {"in-progress", "failed"}
          /\ events'[d].idType = events[d].idType /\ events'[d].pastJobs = events[d].pastJobs
      BY <1>2 DEF Progresses, SameRecovery
    <2>2. r.stage = "draining" /\ q.stage \in {"in-progress", "failed"}
      BY <2>1 DEF Recorded
    <2>3. q.kind = r.kind /\ q.tried = r.tried
      BY <2>1 DEF Recorded
    <2> HIDE DEF r, q
    <2>4. q \in LifecycleOf!Drained(r)
      BY <1>0, <2>2, <2>3, DrainedStage
    <2> QED
      BY <2>4 DEF r, q
  <1> QED
    BY <1>1, <1>2, Zenon DEF Moves, Clears, Appears, Escalates, Answers, IsJudged

(* syncJobStatuses: the name of the attempt it files differs from all on   *)
(* file, by its number.                                                    *)
LEMMA LifeJudged ==
  ASSUME NEW d \in Devices, events[d] \in Event, events'[d] \in Event,
         InOrder(d, events[d]), Moves(d), pc = "sync"
  PROVE  \/ Recorded(events'[d]) = Recorded(events[d])
         \/ LifecycleOf!Concluded(Recorded(events[d]), Recorded(events'[d]))
  <1> DEFINE r == Recorded(events[d])
             q == Recorded(events'[d])
  <1>1. CASE Stays(d)
    BY <1>1, LifeStays, Zenon
  <1>2. CASE IsJudged(d)
    <2>1. PICK s \in {"succeeded", "failed"} : events'[d] = Verdict(d, events[d], s)
      BY <1>2 DEF IsJudged
    <2>2. PICK name : name = RecoveryJobName(d, events[d])
      OBVIOUS
    <2>3. /\ events'[d].state = s /\ events'[d].idType = events[d].idType
          /\ events'[d].pastJobs = Append(events[d].pastJobs, name)
      <3>1. LET v == Verdict(d, events[d], s)
            IN  /\ v.state = s /\ v.idType = events[d].idType
                /\ v.pastJobs = Append(events[d].pastJobs, RecoveryJobName(d, events[d]))
        BY VerdictFields
      <3> QED
        BY <2>1, <2>2, <3>1, Zenon
    <2>4. events[d].state = "in-progress"
      BY <1>2 DEF IsJudged
    <2>5. name \in JobNames /\ name[3] = Len(events[d].pastJobs)
      BY <2>2, JobNameParts, RecoveryJobNameType
    <2>6. r.stage = "in-progress" /\ q.stage \in {"succeeded", "failed"} /\ q.kind = r.kind
      BY <2>3, <2>4, Zenon DEF Recorded
    <2>7. r.tried = events[d].pastJobs /\ q.tried = Append(r.tried, name)
      BY <2>3 DEF Recorded
    <2>8. r.tried \in Seq(JobNames)
      BY <2>7 DEF Event
    <2>9. \A i \in DOMAIN r.tried : r.tried[i] # name
      <3>1. ASSUME NEW i \in DOMAIN r.tried PROVE r.tried[i] # name
        <4>1. r.tried[i][3] < Len(events[d].pastJobs)
          BY <2>7, <3>1 DEF InOrder, PastJobs
        <4>2. Len(events[d].pastJobs) \in Nat
          BY <2>7, <2>8
        <4> QED
          BY <2>5, <4>1, <4>2
      <3> QED
        BY <3>1
    <2> HIDE DEF r, q
    <2>10. /\ Len(q.tried) = Len(r.tried) + 1 /\ q.tried[Len(q.tried)] = name
           /\ \A i \in DOMAIN r.tried : q.tried[i] = r.tried[i]
      BY <2>5, <2>7, <2>8
    <2>11. LifecycleOf!Concluded(r, q)
      BY <2>6, <2>9, <2>10 DEF LifecycleOf!Concluded
    <2> QED
      BY <2>11 DEF r, q
  <1> QED
    BY <1>1, <1>2, Zenon DEF Moves, Clears, Appears, Escalates, Answers, Progresses

(* The order of the parts of a pass. *)
LEMMA PassOrder ==
  ASSUME PassStep, pc' # "idle"
  PROVE  \/ pc = "detect" /\ pc' \in {"openshift", "approve"}
         \/ pc \in {"openshift", "approve"} /\ pc' \in {"approve", "drain", "status"}
         \/ pc = "drain" /\ pc' \in {"drain", "sync"}
         \/ pc = "sync" /\ pc' = "finish"
         \/ pc = "finish" /\ pc' = "status"
         \/ pc = "status" /\ pc' = "spec"
  <1>1. ASSUME NEW d \in Devices, Visiting(d) PROVE pc = "approve" /\ pc' = "approve"
    BY <1>1 DEF Visiting
  <1>2. ASSUME NEW d \in Devices, Draining(d) PROVE pc = "drain" /\ pc' = "drain"
    BY <1>2 DEF Draining
  <1>3. CASE SyncRecoveryEventsFromSlices \/ EnsureOpenShiftResources \/ SetApprovalsConsumed
    BY <1>3 DEF SyncRecoveryEventsFromSlices, EnsureOpenShiftResources, SetApprovalsConsumed
  <1>4. CASE EndDrains \/ SyncJobStatuses \/ ReconcileDrainTaints \/ PersistStatus
    BY <1>4 DEF EndDrains, SyncJobStatuses, ReconcileDrainTaints, PersistStatus
  <1>5. CASE ListingSlicesFails \/ PersistApprovals
    BY <1>5 DEF ListingSlicesFails, PersistApprovals, EndPass
  <1> QED
    BY <1>1, <1>2, <1>3, <1>4, <1>5, PassStepCases

(* How far the working copy of an event is ahead of the record, at each    *)
(* part of a pass.                                                         *)
Ahead(at, r, q) ==
    /\ at = "detect" => q = r
    /\ at \in {"openshift", "approve"} => q \in LifecycleOf!TakenUp(r)
    /\ at \in {"drain", "sync"} => q \in LifecycleOf!Course(r)
    /\ at \in {"finish", "status"} => LifecycleOf!Evolves(r, q)

LifeInv ==
    pc # "idle" =>
        \A d \in DevicesOf(cur) : Ahead(pc, Recorded(status[d]), Recorded(events[d]))

(* Each part of a pass takes a record one step further on its course. *)
LEMMA LifeMoves ==
  ASSUME RecoveryInv, RecoveryInv', FailedInv, PastInv, PassGoesOn, NEW d \in DevicesOf(cur),
         Ahead(pc, Recorded(status[d]), Recorded(events[d]))
  PROVE  Ahead(pc', Recorded(status[d]), Recorded(events'[d]))
  <1> DEFINE r == Recorded(status[d])
             x == Recorded(events[d])
             q == Recorded(events'[d])
  <1>0. d \in Devices /\ Moves(d) /\ PassStep /\ pc' # "idle"
    BY DEF PassGoesOn, DevicesOf
  <1>1. events[d] \in Event /\ events'[d] \in Event /\ status[d] \in Event
    BY <1>0 DEF RecoveryInv, TypeOK
  <1>2. r \in Record /\ x \in Record /\ q \in Record
    BY <1>1, RecordedType, Zenon
  <1>3. Kinds(events) /\ InOrder(d, events[d])
    BY <1>0 DEF FailedInv, PastInv
  <1>4. pc = "detect" => q \in LifecycleOf!Detected(x)
    BY <1>0, <1>1, <1>3, LifeDetected, Zenon
  <1>5. pc \in {"openshift", "approve"} => q \in LifecycleOf!Approved(x)
    BY <1>0, <1>1, LifeApproved
  <1>6. pc = "drain" => q \in LifecycleOf!Drained(x)
    BY <1>0, <1>1, LifeDrained
  <1>7. pc = "sync" => q = x \/ LifecycleOf!Concluded(x, q)
    BY <1>0, <1>1, <1>3, LifeJudged
  <1>8. pc \in {"finish", "status"} => q = x
    <2>1. pc \in {"finish", "status"} => Stays(d)
      BY <1>0, Zenon DEF Moves, Clears, Appears, Escalates, Answers, Progresses, IsJudged
    <2> QED
      BY <2>1, LifeStays, Zenon
  <1>9. Ahead(pc, r, x)
    OBVIOUS
  <1> HIDE DEF r, x, q
  <1>10. CASE pc = "detect" /\ pc' \in {"openshift", "approve"}
    <2>1. q \in LifecycleOf!TakenUp(r)
      BY <1>2, <1>4, <1>9, <1>10, DetectedIsTakenUp DEF Ahead
    <2> QED
      BY <1>10, <2>1, Zenon DEF Ahead, r, q
  <1>11. CASE pc \in {"openshift", "approve"} /\ pc' \in {"approve", "drain", "status"}
    <2>1. q \in LifecycleOf!TakenUp(r)
      BY <1>2, <1>5, <1>9, <1>11, TakenUpOnce DEF Ahead
    <2>2. q \in LifecycleOf!Course(r) /\ LifecycleOf!Evolves(r, q)
      BY <2>1, CourseCovers, Zenon
    <2> QED
      BY <1>11, <2>1, <2>2, Zenon DEF Ahead, r, q
  <1>12. CASE pc = "drain" /\ pc' \in {"drain", "sync"}
    <2>1. q \in LifecycleOf!Course(r)
      BY <1>2, <1>6, <1>9, <1>12, CourseOnce, Zenon DEF Ahead
    <2> QED
      BY <1>12, <2>1 DEF Ahead, r, q
  <1>13. CASE pc = "sync" /\ pc' = "finish"
    <2>1. x \in LifecycleOf!Course(r)
      BY <1>9, <1>13, Zenon DEF Ahead
    <2>2. LifecycleOf!Evolves(r, q)
      BY <1>7, <1>13, <2>1 DEF LifecycleOf!Evolves
    <2> QED
      BY <1>13, <2>2 DEF Ahead, r, q
  <1>14. CASE pc = "finish" /\ pc' = "status"
    <2>1. LifecycleOf!Evolves(r, q)
      BY <1>8, <1>9, <1>14 DEF Ahead
    <2> QED
      BY <1>14, <2>1 DEF Ahead, r, q
  <1>15. CASE pc = "status" /\ pc' = "spec"
    BY <1>15 DEF Ahead
  <1> QED
    BY <1>0, <1>10, <1>11, <1>12, <1>13, <1>14, <1>15, PassOrder, Zenon

(* What a pass reads, and what others do meanwhile, keep the copy on its   *)
(* course.                                                                 *)
LEMMA LifeStep ==
  ASSUME RecoveryInv, RecoveryInv', FailedInv, PastInv, LifeInv, [Next]_vars PROVE LifeInv'
  <1> SUFFICES ASSUME pc' # "idle", NEW d \in DevicesOf(cur')
               PROVE  Ahead(pc', Recorded(status'[d]), Recorded(events'[d]))
    BY DEF LifeInv, DevicesOf
  <1>1. CASE PassIdles
    <2>1. UNCHANGED <<status, cur, pc, events>>
      BY <1>1, StatusMoves DEF PassIdles
    <2> QED
      BY <2>1 DEF LifeInv
  <1>2. ASSUME NEW p \in Plans, Reconcile(p)
        PROVE  Ahead(pc', Recorded(status'[d]), Recorded(events'[d]))
    <2>1. pc' = "detect" /\ events'[d] = status'[d]
      BY <1>2, Zenon DEF Reconcile, planVars, DevicesOf
    <2> QED
      BY <2>1 DEF Ahead
  <1>3. CASE EndPass
    BY <1>3 DEF EndPass
  <1>4. CASE PassGoesOn
    <2>1. cur' = cur /\ pc # "idle" /\ d \in DevicesOf(cur)
      BY <1>4 DEF PassGoesOn
    <2>2. CASE UNCHANGED status
      BY <1>4, <2>1, <2>2, LifeMoves DEF LifeInv
    <2>3. CASE ~UNCHANGED status
      <3>1. pc' = "spec"
        BY <2>1, <2>3, StatusMoves
      <3> QED
        BY <3>1 DEF Ahead
    <2> QED
      BY <2>2, <2>3
  <1> QED
    BY <1>1, <1>2, <1>3, <1>4, PassMoves, Zenon

(* handleFinalizer: a plan has events only while it carries the finalizer. *)
KeptInv == \A d \in Devices : status[d].state # "none" => plan[PlanOf[d]].finalizer

(* The end of a deletion takes the plan and its events away together.      *)
LEMMA PlanEnds ==
  ASSUME RecoveryInv, NEW p \in Plans, FinalizeDeletion(p)
  PROVE  \/ UNCHANGED <<plan, status>>
         \/ /\ plan[p].phase = "deleting"
            /\ plan' = [plan EXCEPT ![p] = [phase |-> "gone", finalizer |-> FALSE]]
            /\ status' = [d \in Devices |-> IF PlanOf[d] = p THEN NoEvent ELSE status[d]]
  BY DEF FinalizeDeletion

(* A pass writes events for a plan that carries it. *)
LEMMA KeptStep ==
  ASSUME RecoveryInv, FinalizerInv, KeptInv, [Next]_vars PROVE KeptInv'
  <1>0. /\ plan \in [Plans -> PlanType] /\ status \in [Devices -> Event] /\ cur \in Plans
        /\ PlanOf \in [Devices -> Plans]
    BY ConstantsAssumption DEF RecoveryInv, TypeOK
  <1> SUFFICES ASSUME NEW d \in Devices, status'[d].state # "none"
               PROVE  plan'[PlanOf[d]].finalizer
    BY DEF KeptInv
  <1>1. ASSUME NEW p \in Plans, FinalizeDeletion(p) PROVE plan'[PlanOf[d]].finalizer
    <2>1. CASE UNCHANGED <<plan, status>>
      BY <2>1 DEF KeptInv
    <2>2. CASE /\ plan' = [plan EXCEPT ![p] = [phase |-> "gone", finalizer |-> FALSE]]
               /\ status' = [o \in Devices |-> IF PlanOf[o] = p THEN NoEvent ELSE status[o]]
      <3>1. PlanOf[d] # p /\ status[d].state # "none"
        BY <2>2, NoEventFields
      <3>2. plan'[PlanOf[d]] = plan[PlanOf[d]]
        BY <1>0, <2>2, <3>1
      <3> QED
        BY <3>1, <3>2 DEF KeptInv
    <2> QED
      BY <1>1, <2>1, <2>2, PlanEnds
  <1>2. CASE PlansKeepFinalizers
    <2>1. CASE status'[d] = status[d]
      BY <1>0, <1>2, <2>1 DEF KeptInv, PlansKeepFinalizers
    <2>2. CASE pc = "status" /\ PlanOf[d] = cur
      BY <1>0, <1>2, <2>2 DEF FinalizerInv, PlansKeepFinalizers
    <2> QED
      BY <1>0, <2>1, <2>2, StatusOrigin, NoEventFields
  <1> QED
    BY <1>1, <1>2, PlansMove DEF RecoveryInv

(* At every part of a pass the working copy of an event is as far on the   *)
(* course from the record as the parts before can have taken it; and the   *)
(* records are those of plans that carry the finalizer.                    *)
THEOREM LifeInvariant == Spec => [](LifeInv /\ KeptInv)
  <1>1. Init => LifeInv
    BY DEF Init, LifeInv
  <1>2. Init => KeptInv
    BY NoEventFields DEF Init, NoEvents, KeptInv
  <1> QED
    BY <1>1, <1>2, LifeStep, KeptStep, RecoveryInvariant, FailedInvariant, PastInvariant,
       FinalizerInvariant, PTL DEF Spec

(* What an event that is not there says. *)
LEMMA AbsentRecord ==
  ASSUME NEW d, NEW e \in Event, InOrder(d, e), e.state = "none"
  PROVE  Recorded(e) = LifecycleOf!None
  <1>1. /\ Recorded(e).kind = "none" /\ Recorded(e).stage = "none"
        /\ Recorded(e).tried = <<>>
    BY DEF Recorded, InOrder
  <1> QED
    BY <1>1, RecordedType, NoRecord, SameRecord

(* The status write of a pass shows as a pass of its plan. *)
LEMMA LifePass ==
  ASSUME RecoveryInv, LifeInv, FinalizerInv, PlansStay, pc = "status",
         status' = [d \in Devices |-> IF PlanOf[d] = cur THEN events[d] ELSE status[d]]
  PROVE  LifecycleOf!Pass(cur)
  <1> DEFINE record == [d \in Devices |-> Recorded(status[d])]
             standing == {p \in Plans : plan[p].phase # "gone"}
  <1>1. cur \in standing
    BY DEF FinalizerInv, RecoveryInv, TypeOK
  <1>2. standing' = standing
    BY DEF PlansStay
  <1>3. ASSUME NEW d \in Devices
        PROVE  IF PlanOf[d] = cur
               THEN LifecycleOf!Evolves(Recorded(status[d]), Recorded(status'[d]))
               ELSE Recorded(status'[d]) = Recorded(status[d])
    BY Zenon DEF LifeInv, Ahead, DevicesOf
  <1> QED
    BY <1>1, <1>2, <1>3, Zenon DEF LifecycleOf!Pass

(* The end of a plan shows as one. *)
LEMMA LifeDelete ==
  ASSUME plan \in [Plans -> PlanType], NEW p \in Plans, plan[p].phase # "gone",
         plan'[p].phase = "gone", \A q \in Plans \ {p} : plan'[q] = plan[q],
         \A d \in Devices : Recorded(status'[d]) = IF PlanOf[d] = p THEN LifecycleOf!None
                                                   ELSE Recorded(status[d])
  PROVE  LifecycleOf!Delete(p)
  <1> DEFINE standing == {q \in Plans : plan[q].phase # "gone"}
  <1>1. p \in standing
    OBVIOUS
  <1>2. standing' = standing \ {p}
    OBVIOUS
  <1> QED
    BY <1>1, <1>2 DEF LifecycleOf!Delete

(* An admin's deletion of a plan without the finalizer shows as its end,   *)
(* of any other not at all.                                                *)
LEMMA LifeDeletePlan ==
  ASSUME RecoveryInv, PastInv, KeptInv, NEW p \in Plans, DeletePlan(p)
  PROVE  \/ LifecycleOf!Delete(p)
         \/ PlansStay /\ UNCHANGED status
  <1>0. plan \in [Plans -> PlanType] /\ status \in [Devices -> Event]
    BY DEF RecoveryInv, TypeOK
  <1>1. plan[p].phase = "live" /\ UNCHANGED status
    BY DEF DeletePlan
  <1>2. PICK s : s = IF plan[p].finalizer THEN "deleting" ELSE "gone"
    OBVIOUS
  <1>3. plan' = [plan EXCEPT ![p] = [plan[p] EXCEPT !.phase = s]]
    BY <1>2, Zenon DEF DeletePlan
  <1>4. plan'[p].phase = s /\ \A q \in Plans \ {p} : plan'[q] = plan[q]
    <2>1. [plan[p] EXCEPT !.phase = s].phase = s
      BY <1>0, Zenon DEF PlanType
    <2> QED
      BY <1>0, <1>3, <2>1, Zenon
  <1>5. CASE plan[p].finalizer
    <2>1. s = "deleting"
      BY <1>2, <1>5
    <2> QED
      BY <1>1, <1>4, <2>1 DEF PlansStay
  <1>6. CASE ~plan[p].finalizer
    <2>1. s = "gone"
      BY <1>2, <1>6
    <2>2. ASSUME NEW d \in Devices, PlanOf[d] = p PROVE Recorded(status[d]) = LifecycleOf!None
      <3>1. status[d].state = "none" /\ InOrder(d, status[d]) /\ status[d] \in Event
        BY <1>0, <1>6, <2>2, Zenon DEF KeptInv, PastInv
      <3> QED
        BY <3>1, AbsentRecord
    <2>3. \A d \in Devices : Recorded(status'[d]) = IF PlanOf[d] = p THEN LifecycleOf!None
                                                    ELSE Recorded(status[d])
      BY <1>1, <2>2
    <2> QED
      BY <1>0, <1>1, <1>4, <2>1, <2>3, LifeDelete
  <1> QED
    BY <1>5, <1>6

(* Every step is a pass, the end of a plan, or does not show. *)
LEMMA LifeShows ==
  ASSUME RecoveryInv, LifeInv, KeptInv, PastInv, FinalizerInv, [Next]_vars
  PROVE  \/ \E p \in Plans : LifecycleOf!Pass(p) \/ LifecycleOf!Delete(p)
         \/ PlansStay /\ UNCHANGED status
  <1>0. TypeOK /\ plan \in [Plans -> PlanType] /\ cur \in Plans
    BY DEF RecoveryInv, TypeOK
  <1>1. ASSUME NEW p \in Plans, FinalizeDeletion(p)
        PROVE  LifecycleOf!Delete(p) \/ (PlansStay /\ UNCHANGED status)
    <2>1. CASE UNCHANGED <<plan, status>>
      BY <2>1 DEF PlansStay
    <2>2. CASE /\ plan[p].phase = "deleting"
               /\ plan' = [plan EXCEPT ![p] = [phase |-> "gone", finalizer |-> FALSE]]
               /\ status' = [d \in Devices |-> IF PlanOf[d] = p THEN NoEvent ELSE status[d]]
      <3>1. plan'[p].phase = "gone" /\ \A q \in Plans \ {p} : plan'[q] = plan[q]
        BY <1>0, <2>2
      <3>2. \A d \in Devices : Recorded(status'[d]) = IF PlanOf[d] = p THEN LifecycleOf!None
                                                      ELSE Recorded(status[d])
        BY <2>2, NoRecord
      <3>3. plan[p].phase # "gone"
        BY <2>2
      <3> QED
        BY <1>0, <3>1, <3>2, <3>3, LifeDelete
    <2> QED
      BY <1>1, <2>1, <2>2, PlanEnds
  <1>2. CASE PlansStay
    <2>1. CASE /\ pc = "status"
               /\ status' = [d \in Devices |-> IF PlanOf[d] = cur THEN events[d] ELSE status[d]]
      <3>1. LifecycleOf!Pass(cur)
        BY <1>2, <2>1, LifePass, Zenon
      <3> QED
        BY <1>0, <3>1
    <2> QED
      BY <1>1, <1>2, <2>1, StatusMoves
  <1> QED
    BY <1>0, <1>1, <1>2, LifeDeletePlan, PlansMove

(* persistPlan writes what the life of an event allows: whatever writes    *)
(* are lost, Jobs vanish, calls fail and restarts cut passes off, a        *)
(* recovery in progress is not started over, escalated or dropped but by   *)
(* the end of its plan, its attempt is filed once and under a new name,    *)
(* and what is on file stays there.                                        *)
THEOREM LifeOfAnEvent == Spec => ImplementsLifecycle
  <1>1. Init => LifecycleOf!Init
    <2> SUFFICES ASSUME Init PROVE LifecycleOf!Init
      OBVIOUS
    <2>1. \A d \in Devices : Recorded(status[d]) = LifecycleOf!None
      BY NoRecord, Zenon DEF Init, NoEvents
    <2>2. \A p \in Plans : plan[p].phase = "live"
      BY DEF Init
    <2> QED
      BY <2>1, <2>2 DEF LifecycleOf!Init
  <1>2. RecoveryInv /\ LifeInv /\ KeptInv /\ PastInv /\ FinalizerInv /\ [Next]_vars
          => [LifecycleOf!Next]_LifecycleOf!lifeVars
    <2> SUFFICES ASSUME RecoveryInv, LifeInv, KeptInv, PastInv, FinalizerInv, [Next]_vars
                 PROVE  [LifecycleOf!Next]_LifecycleOf!lifeVars
      OBVIOUS
    <2>1. CASE PlansStay /\ UNCHANGED status
      BY <2>1 DEF PlansStay, LifecycleOf!lifeVars
    <2>2. CASE \E p \in Plans : LifecycleOf!Pass(p) \/ LifecycleOf!Delete(p)
      BY <2>2, Zenon DEF LifecycleOf!Next
    <2> QED
      BY <2>1, <2>2, LifeShows
  <1> QED
    BY <1>1, <1>2, RecoveryInvariant, LifeInvariant, PastInvariant, FinalizerInvariant, PTL
       DEF Spec, ImplementsLifecycle, LifecycleOf!Spec
=============================================================================
