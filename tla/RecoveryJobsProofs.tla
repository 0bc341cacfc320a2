------------------------- MODULE RecoveryJobsProofs -------------------------
(***************************************************************************)
(* What the drained nodes, the recovery Jobs, the drain taints and the     *)
(* approvals of blocked events are to the events, as long as the           *)
(* controller loses nothing it has decided.                                *)
(***************************************************************************)
EXTENDS RecoveryHistoryProofs

-----------------------------------------------------------------------------
(* Drained nodes.                                                          *)

(* A node with a drain taint gets no workload, and a GPU of an empty one   *)
(* no claim.                                                               *)
LEMMA EmptyStays ==
  ASSUME RecoveryInv, [Next]_vars, NEW n \in Nodes, NEW p \in Plans, <<p, n>> \in nodeTaint,
         work[n] = "none"
  PROVE  /\ work'[n] = "none"
         /\ \A d \in Devices : NodeOf[d] = n /\ d \notin claims => d \notin claims'
  <1>0. work \in [Nodes -> {"none", "running", "terminating"}] /\ NodeOf \in [Devices -> Nodes]
    BY ConstantsAssumption DEF RecoveryInv, TypeOK
  <1>1. CASE UNCHANGED <<work, claims>>
    BY <1>1
  <1>2. ASSUME NEW m \in Nodes, ScheduleWorkload(m)
        PROVE  /\ work'[n] = "none"
               /\ \A d \in Devices : NodeOf[d] = n /\ d \notin claims => d \notin claims'
    <2>1. m # n
      BY <1>2 DEF ScheduleWorkload
    <2> QED
      BY <1>0, <1>2, <2>1 DEF ScheduleWorkload
  <1>3. ASSUME NEW m \in Nodes, WorkloadEnds(m) PROVE work'[n] = "none" /\ UNCHANGED claims
    BY <1>0, <1>3 DEF WorkloadEnds
  <1>4. ASSUME NEW d \in Devices, ReleaseClaim(d) PROVE UNCHANGED work /\ claims' \subseteq claims
    BY <1>4 DEF ReleaseClaim
  <1>5. ASSUME NEW d \in Devices, Draining(d),
               DrainWaits(d) \/ DrainFails(d) \/ DrainCompletes(d)
        PROVE  work'[n] = "none" /\ UNCHANGED claims
    <2>1. UNCHANGED work \/ EvictPods(NodeOf[d])
      BY <1>5, Zenon DEF DrainWaits, DrainFails, DrainCompletes
    <2> QED
      BY <1>0, <1>5, <2>1 DEF Draining, EvictPods
  <1>6. CASE Crash \/ UNCHANGED vars \/ AdminStep
    BY <1>1, <1>6, Zenon DEF Crash, vars, clusterVars, AdminStep, AddApproval,
       RemoveApproval, SetApproval, EditFirmware, EditDrain, DeletePlan, DeleteJob
  <1>7. ASSUME NEW q \in Plans, BeginPass(q) PROVE UNCHANGED <<work, claims>>
    BY <1>7 DEF BeginPass, Reconcile, AddFinalizer, FinalizeDeletion, clusterVars
  <1>8. CASE ClusterStep
    <2>1. CASE \/ \E d \in Devices, k \in TaintKeys : TaintDevice(d, k) \/ UntaintDevice(d, k)
               \/ \E d \in Devices : Expire(d)
               \/ \E m \in DOMAIN jobs :
                     (\E state \in {"complete", "failed"} : JobEnds(m, state)) \/ JobOverdue(m)
               \/ \E q \in Plans : GarbageCollect(q)
      BY <1>1, <2>1, Zenon DEF TaintDevice, UntaintDevice, Expire, JobEnds, JobOverdue,
         GarbageCollect
    <2> QED
      BY <1>2, <1>3, <1>4, <1>8, <2>1 DEF ClusterStep
  <1>9. CASE PassStep
    <2>1. ASSUME NEW d \in Devices, Visiting(d) PROVE UNCHANGED <<work, claims>>
      BY <2>1 DEF Visiting
    <2>2. CASE \/ SyncRecoveryEventsFromSlices \/ ListingSlicesFails \/ EnsureOpenShiftResources
               \/ SetApprovalsConsumed \/ EndDrains \/ SyncJobStatuses
               \/ ReconcileDrainTaints \/ PersistStatus \/ PersistApprovals
      BY <1>1, <2>2, Zenon
      DEF SyncRecoveryEventsFromSlices, ListingSlicesFails, EnsureOpenShiftResources,
          SetApprovalsConsumed, EndDrains, SyncJobStatuses, ReconcileDrainTaints,
          PersistStatus, PersistApprovals, clusterVars
    <2> QED
      BY <1>1, <1>5, <1>9, <2>1, <2>2, PassStepCases
  <1> QED
    BY <1>1, <1>6, <1>7, <1>8, <1>9 DEF Next

(* The taint of a node whose recovery is under way stays. *)
LEMMA TaintStays ==
  ASSUME [Next]_vars, NEW d \in Devices, <<PlanOf[d], NodeOf[d]>> \in nodeTaint,
         Current(d).state \in Active, ~FinalizeDeletion(PlanOf[d])
  PROVE  <<PlanOf[d], NodeOf[d]>> \in nodeTaint'
  <1> DEFINE t == <<PlanOf[d], NodeOf[d]>>
  <1>0. t[1] = PlanOf[d] /\ t[2] = NodeOf[d] /\ t \in nodeTaint
    OBVIOUS
  <1> HIDE DEF t
  <1>1. CASE ReconcileDrainTaints
    <2>1. pc = "finish"
      BY <1>1 DEF ReconcileDrainTaints
    <2>2. PlanOf[d] = cur => NodeOf[d] \in WantedNodes
      BY <2>1 DEF Current, WantedNodes
    <2>3. t \notin {u \in NodesWithTaint(cur) : u[2] \notin WantedNodes}
      BY <1>0, <2>2 DEF NodesWithTaint
    <2> QED
      BY <1>0, <1>1, <2>3 DEF ReconcileDrainTaints, t
  <1>2. ASSUME NEW p \in Plans, FinalizeDeletion(p) PROVE t \in nodeTaint'
    <2>1. t \notin NodesWithTaint(p)
      BY <1>0, <1>2 DEF NodesWithTaint
    <2> QED
      BY <1>0, <1>2, <2>1 DEF FinalizeDeletion
  <1> QED
    BY <1>0, <1>1, <1>2, NodeTaintsMove DEF t

(* A reset that waited for a drain keeps its drained node. *)
LEMMA ResetsStep ==
  ASSUME NothingLost, "overdue" \notin MayHappen,
         RecoveryInv, CopyOfStatus, RunsOwn, ResetsRunOnDrainedNodes, [Next]_vars
  PROVE  ResetsRunOnDrainedNodes'
  <1> SUFFICES ASSUME NEW n \in DOMAIN jobs', jobs'[n].drained, jobs'[n].state = "running"
               PROVE  /\ <<PlanOf[n[1]], NodeOf[n[1]]>> \in nodeTaint'
                      /\ work'[NodeOf[n[1]]] = "none"
                      /\ n[1] \notin claims'
    BY DEF ResetsRunOnDrainedNodes
  <1>0. TypeOK
    BY DEF RecoveryInv
  <1>1. CASE n \in DOMAIN jobs /\ jobs[n].drained /\ jobs[n].state = "running"
    <2>1. /\ n[1] \in Devices /\ PlanOf[n[1]] \in Plans /\ NodeOf[n[1]] \in Nodes
          /\ <<PlanOf[n[1]], NodeOf[n[1]]>> \in nodeTaint
          /\ work[NodeOf[n[1]]] = "none" /\ n[1] \notin claims
      BY <1>0, <1>1, ConstantsAssumption DEF TypeOK, JobNames, ResetsRunOnDrainedNodes
    <2>2. work'[NodeOf[n[1]]] = "none" /\ n[1] \notin claims'
      BY <2>1, EmptyStays
    <2>3. ~FinalizeDeletion(PlanOf[n[1]])
      BY <1>1 DEF FinalizeDeletion, RunningRecoveryJobs, JobsOf
    <2>4. Current(n[1]).state \in Active
      BY <1>1 DEF RunsOwn, Active
    <2> QED
      BY <2>1, <2>2, <2>3, <2>4, TaintStays
  <1>2. CASE JobsWane
    BY <1>1, <1>2 DEF JobsWane
  <1>3. ASSUME NEW d \in Devices, Starts(d), n \notin DOMAIN jobs
        PROVE  /\ <<PlanOf[n[1]], NodeOf[n[1]]>> \in nodeTaint'
               /\ work'[NodeOf[n[1]]] = "none"
               /\ n[1] \notin claims'
    <2>1. n = RecoveryJobName(d, events[d])
      BY <1>3 DEF Starts
    <2>2. n[1] = d
      BY <2>1 DEF RecoveryJobName
    <2>3. PlanOf[d] = cur
      BY <1>3, StartsOwn
    <2>4. Drained(d) /\ <<cur, NodeOf[d]>> \in nodeTaint' /\ UNCHANGED <<work, claims>>
      BY <1>3, <2>1 DEF Starts
    <2> QED
      BY <2>2, <2>3, <2>4 DEF Drained
  <1>4. ASSUME NEW d \in Devices, Starts(d), n \in DOMAIN jobs PROVE jobs'[n] = jobs[n]
    BY <1>4 DEF Starts
  <1> QED
    BY <1>1, <1>2, <1>3, <1>4, JobsMove

(* drainNodeForEvent, createResetJob: for any nodes, workloads and claims, *)
(* a reset that waited for a drain runs on a node that is tainted and      *)
(* empty, from its creation to its end, as long as the controller loses    *)
(* nothing and the Job stays within its deadline.                          *)
THEOREM DrainedResets ==
  ASSUME {"status", "crash"} \cap MayFail = {}, "overdue" \notin MayHappen
  PROVE  Spec => []ResetsRunOnDrainedNodes
  <1>0. NothingLost
    BY DEF NothingLost
  <1>1. Init => OwnInv /\ RunsOwn /\ ResetsRunOnDrainedNodes
    BY OwnInit DEF Init, RunsOwn, ResetsRunOnDrainedNodes
  <1>2. OwnInv /\ RunsOwn /\ ResetsRunOnDrainedNodes /\ [Next]_vars
        => (OwnInv /\ RunsOwn /\ ResetsRunOnDrainedNodes)'
    BY <1>0, OwnStep, RunsOwnStep, ResetsStep DEF OwnInv, FailedInv
  <1> QED
    BY <1>1, <1>2, PTL DEF Spec

-----------------------------------------------------------------------------
(* Jobs and faults.                                                        *)

(* An event in the working copy is raised for the fault it has on record. *)
FaultsAgree ==
    pc # "idle" =>
        \A d \in DevicesOf(cur) :
            status[d].state # "none" /\ events[d].state # "none"
            => status[d].fault = events[d].fault

(* A Job that exists is one its event will delete, created for its fault. *)
JobsOwn ==
    \A n \in DOMAIN jobs :
        /\ n \in EventJobs(n[1], Current(n[1]))
        /\ jobs[n].fault = Current(n[1]).fault

(* An event keeps its fault from when it is added. *)
LEMMA MovedFault ==
  ASSUME TypeOK, NEW d \in Devices, Moves(d), events'[d].state # "none", ~Appears(d)
  PROVE  events[d].state # "none" /\ events'[d].fault = events[d].fault
  <1>1. CASE IsJudged(d)
    BY <1>1, JudgedFields
  <1>2. ASSUME NEW a \in Approvals, Answers(d, a)
        PROVE  events[d].state # "none" /\ events'[d].fault = events[d].fault
    BY <1>2, AuthorisesType DEF Answers, SameRecovery
  <1>3. CASE Clears(d)
    BY <1>3 DEF Clears, NoEvent
  <1>4. CASE Stays(d) \/ Progresses(d) \/ Escalates(d)
    BY <1>4 DEF Stays, Progresses, Escalates, SameRecovery
  <1> QED
    BY <1>1, <1>2, <1>3, <1>4 DEF Moves

(* A pass raises no event anew that is on record. *)
LEMMA FaultsStep ==
  ASSUME RecoveryInv, CopyOfStatus, FaultsAgree, [Next]_vars PROVE FaultsAgree'
  <1>0. TypeOK
    BY DEF RecoveryInv
  <1>1. CASE PassIdles
    <2>1. pc # "idle" => UNCHANGED status \/ PersistStatus
      BY <1>1, StatusMoves
    <2>2. ~PersistStatus
      BY <1>1 DEF PassIdles, PersistStatus
    <2> QED
      BY <1>1, <2>1, <2>2 DEF PassIdles, FaultsAgree, DevicesOf
  <1>2. ASSUME NEW p \in Plans, Reconcile(p) PROVE FaultsAgree'
    <2>1. /\ cur' = p /\ UNCHANGED status
          /\ events' = [d \in Devices |-> IF PlanOf[d] = p THEN status[d] ELSE NoEvent]
      BY <1>2 DEF Reconcile, planVars
    <2> QED
      BY <2>1 DEF FaultsAgree, DevicesOf
  <1>3. CASE EndPass
    BY <1>3 DEF EndPass, FaultsAgree
  <1>4. CASE PassGoesOn
    <2> SUFFICES ASSUME NEW d \in Devices, PlanOf[d] = cur,
                        status'[d].state # "none", events'[d].state # "none"
                 PROVE  status'[d].fault = events'[d].fault
      BY <1>4 DEF FaultsAgree, DevicesOf, PassGoesOn
    <2>1. pc # "idle" /\ Moves(d)
      BY <1>4 DEF PassGoesOn
    <2>2. status'[d] = status[d] \/ status'[d] = events'[d]
      BY <2>1, StatusMoves
    <2>3. CASE status'[d] = status[d]
      <3>1. ~Appears(d)
        BY <2>3 DEF Appears, CopyOfStatus, DevicesOf
      <3>2. events[d].state # "none" /\ events'[d].fault = events[d].fault
        BY <1>0, <2>1, <3>1, MovedFault
      <3> QED
        BY <2>1, <2>3, <3>2 DEF FaultsAgree, DevicesOf
    <2> QED
      BY <2>2, <2>3
  <1> QED
    BY <1>1, <1>2, <1>3, <1>4, PassMoves

(* removeResolvedEvents: unless a delete fails, the Jobs of an event go    *)
(* with it, and those of an event that stays are the same.                 *)
LEMMA OwnMoves ==
  ASSUME "delete" \notin MayFail, RecoveryInv, PastInv, PassGoesOn, NEW d \in Devices, Moves(d),
         NEW n \in DOMAIN jobs', n \in EventJobs(d, events[d])
  PROVE  n \in EventJobs(d, events'[d]) /\ events'[d].fault = events[d].fault
  <1>0. TypeOK /\ InOrder(d, events[d])
    BY DEF RecoveryInv, PastInv
  <1>1. events[d].state # "none"
    <2>1. events[d].state = "none" => PastJobs(events[d]) = {}
      BY <1>0, NoPastInOrder DEF InOrder
    <2> QED
      BY <2>1 DEF EventJobs
  <1>2. CASE IsJudged(d)
    <2>1. PICK s \in {"succeeded", "failed"} : events'[d] = Verdict(d, events[d], s)
      BY <1>2 DEF IsJudged
    <2>2. PastJobs(events'[d]) = PastJobs(events[d]) \cup {RecoveryJobName(d, events[d])}
      BY <1>0, <2>1, VerdictFiles DEF TypeOK
    <2>3. events'[d].fault = events[d].fault
      BY <1>0, <2>1, VerdictFields DEF TypeOK
    <2> QED
      BY <2>2, <2>3 DEF EventJobs
  <1>3. CASE Clears(d)
    <2>1. d \in Resolved /\ n \in Doomed
      BY <1>1, <1>3 DEF Clears, Doomed
    <2>2. SyncRecoveryEventsFromSlices
      <3>1. pc = "detect" /\ pc' # "idle" /\ PassStep
        BY <1>3 DEF Clears, PassGoesOn
      <3> QED
        BY <3>1, PassStepCases, Zenon DEF Visiting, Draining, ListingSlicesFails, EndPass,
           EnsureOpenShiftResources, SetApprovalsConsumed, EndDrains, SyncJobStatuses,
           ReconcileDrainTaints, PersistStatus, PersistApprovals
    <2>3. jobs' = JobsWithout(Doomed)
      BY <2>2, DetectionOf DEF Detection
    <2> QED
      BY <2>1, <2>3 DEF JobsWithout
  <1>4. ASSUME NEW a \in Approvals, Answers(d, a)
        PROVE  events[d].state # "in-progress" /\ SameRecovery(d)
    BY <1>4 DEF Answers, Authorises, Startable
  <1>5. CASE Stays(d)
    BY <1>5 DEF Stays, SameRecovery, EventJobs, PastJobs, RecoveryJobName
  <1>6. CASE \/ Escalates(d)
             \/ events[d].state # "in-progress" /\ SameRecovery(d)
    BY <1>6 DEF Escalates, SameRecovery, EventJobs, PastJobs
  <1> QED
    BY <1>1, <1>2, <1>3, <1>4, <1>5, <1>6 DEF Moves, Appears, Progresses

(* No step makes a Job another event's. *)
LEMMA JobsOwnStep ==
  ASSUME NothingLost, "delete" \notin MayFail,
         RecoveryInv, PastInv, CopyOfStatus, Written, JobsOwn, [Next]_vars
  PROVE  JobsOwn'
  <1> SUFFICES ASSUME NEW n \in DOMAIN jobs'
               PROVE  /\ n \in EventJobs(n[1], Current(n[1])')
                      /\ jobs'[n].fault = Current(n[1])'.fault
    BY DEF JobsOwn, EventJobs, PastJobs, RecoveryJobName
  <1>0. TypeOK
    BY DEF RecoveryInv
  <1>1. CASE n \in DOMAIN jobs /\ jobs'[n].fault = jobs[n].fault
    <2>1. /\ n[1] \in Devices /\ n \in EventJobs(n[1], Current(n[1]))
          /\ jobs[n].fault = Current(n[1]).fault
      BY <1>0, <1>1 DEF TypeOK, JobNames, JobsOwn
    <2>2. CASE Current(n[1])' = Current(n[1])
      BY <1>1, <2>1, <2>2
    <2>3. ~FinalizeDeletion(PlanOf[n[1]])
      <3> SUFFICES ASSUME FinalizeDeletion(PlanOf[n[1]]) PROVE FALSE
        OBVIOUS
      <3>1. jobs' = JobsWithout(JobsOf(PlanOf[n[1]]))
        <4>1. PICK lost \in SUBSET JobsOf(PlanOf[n[1]]),
                   stuck \in SUBSET NodesWithTaint(PlanOf[n[1]]), removed \in BOOLEAN :
                /\ jobs' = JobsWithout(JobsOf(PlanOf[n[1]]) \ lost)
                /\ Refused(OnSome("delete", lost) \cup OnSome("untaint", stuck)
                             \cup IF removed THEN {} ELSE {"finalizer"})
          BY Zenon DEF FinalizeDeletion
        <4>2. lost = {}
          <5> DEFINE K == OnSome("untaint", stuck) \cup IF removed THEN {} ELSE {"finalizer"}
          <5>1. Refused(OnSome("delete", lost) \cup K)
            BY <4>1
          <5> HIDE DEF K
          <5> QED
            BY <5>1 DEF Refused, OnSome
        <4> QED
          BY <4>1, <4>2
      <3> QED
        BY <1>1, <3>1 DEF JobsWithout, JobsOf
    <2>4. CASE /\ PassGoesOn /\ Moves(n[1]) /\ Current(n[1]) = events[n[1]]
               /\ Current(n[1])' = events'[n[1]]
      BY <1>1, <2>1, <2>4, OwnMoves
    <2> QED
      BY <2>1, <2>2, <2>3, <2>4, CurrentMoves
  <1>2. CASE JobsWane
    BY <1>1, <1>2 DEF JobsWane
  <1>3. ASSUME NEW d \in Devices, Starts(d), n \notin DOMAIN jobs
        PROVE  /\ n \in EventJobs(n[1], Current(n[1])')
               /\ jobs'[n].fault = Current(n[1])'.fault
    <2>1. n = RecoveryJobName(d, events[d]) /\ jobs'[n].fault = events[d].fault
      BY <1>3 DEF Starts
    <2>2. n[1] = d
      BY <2>1, JobNameParts
    <2>3. /\ Current(d)' = events'[d] /\ events'[d].state = "in-progress"
          /\ RecoveryJobName(d, events'[d]) = RecoveryJobName(d, events[d])
          /\ events'[d].fault = events[d].fault
      BY <1>3, StartsOwn
    <2> QED
      BY <2>1, <2>2, <2>3 DEF EventJobs
  <1>4. ASSUME NEW d \in Devices, Starts(d), n \in DOMAIN jobs PROVE jobs'[n] = jobs[n]
    BY <1>4 DEF Starts
  <1> QED
    BY <1>1, <1>2, <1>3, <1>4, JobsMove

(* createResetJob adopts a Job of the name it wants: for any number of     *)
(* faults, escalations, retries and plan deletions on a GPU, a Job on      *)
(* record in an event was created for that event's fault, as long as no    *)
(* delete fails and the controller loses nothing.                          *)
THEOREM OwnJobs ==
  ASSUME {"status", "crash", "delete"} \cap MayFail = {}
  PROVE  Spec => []JobsAreTheEventsOwn
  <1>0. NothingLost /\ "delete" \notin MayFail
    BY DEF NothingLost
  <1>1. Init => OwnInv /\ FaultsAgree /\ JobsOwn
    BY OwnInit DEF Init, FaultsAgree, JobsOwn
  <1>2. OwnInv /\ FaultsAgree /\ JobsOwn /\ [Next]_vars => (OwnInv /\ FaultsAgree /\ JobsOwn)'
    BY <1>0, OwnStep, FaultsStep, JobsOwnStep DEF OwnInv, FailedInv
  <1>3. OwnInv /\ FaultsAgree /\ JobsOwn => JobsAreTheEventsOwn
    <2> SUFFICES ASSUME OwnInv, FaultsAgree, JobsOwn, NEW n \in DOMAIN jobs, OnRecord(n)
                 PROVE  jobs[n].fault = status[n[1]].fault
      BY DEF JobsAreTheEventsOwn
    <2>1. n[1] \in Devices
      BY DEF OwnInv, RecoveryInv, TypeOK, JobNames
    <2>2. InOrder(n[1], status[n[1]]) /\ InOrder(n[1], events[n[1]])
      BY <2>1 DEF OwnInv, PastInv
    <2>3. /\ n \in EventJobs(n[1], Current(n[1]))
          /\ jobs[n].fault = Current(n[1]).fault
      BY DEF JobsOwn
    <2>4. CASE pc # "idle" /\ PlanOf[n[1]] = cur
      <3>1. Current(n[1]) = events[n[1]]
        BY <2>4 DEF Current
      <3>2. status[n[1]].state # "none"
        BY <2>2, NoPastInOrder DEF OnRecord, InOrder
      <3>3. events[n[1]].state # "none"
        BY <2>2, <2>3, <3>1, NoPastInOrder DEF EventJobs, InOrder
      <3> QED
        BY <2>1, <2>3, <2>4, <3>1, <3>2, <3>3 DEF FaultsAgree, DevicesOf
    <2>5. CASE ~(pc # "idle" /\ PlanOf[n[1]] = cur)
      BY <2>3, <2>5 DEF Current
    <2> QED
      BY <2>4, <2>5
  <1> QED
    BY <1>1, <1>2, <1>3, PTL DEF Spec

-----------------------------------------------------------------------------
(* What the drain taints are for.                                          *)

(* An event of the list ev, of the taint's plan and on its node, owns the  *)
(* node or waits for it.                                                   *)
Serves(ev, t) ==
    \E d \in DevicesOf(t[1]) : NodeOf[d] = t[2] /\ ev[d].state \in Active \cup {"blocked"}

(* Outside of a pass of its plan a taint serves an event on record; once   *)
(* reconcileDrainTaints has run, one the pass is about to record.          *)
TaintsServe ==
    \A t \in nodeTaint :
        /\ t[1] # cur \/ pc \in {"idle", "detect"} => Serves(status, t)
        /\ t[1] = cur /\ pc \in {"status", "spec"} => Serves(events, t)

(* The pass comes to its writes by way of reconcileDrainTaints. *)
LEMMA WritesFollow ==
  ASSUME "openshift" \notin MayFail, PassStep, pc' \in {"status", "spec"}
  PROVE  ReconcileDrainTaints \/ PersistStatus
  <1>1. ASSUME NEW d \in Devices, Visiting(d) \/ Draining(d) PROVE pc' \in {"approve", "drain"}
    BY <1>1 DEF Visiting, Draining
  <1>2. ~EnsureOpenShiftResources
    BY DEF EnsureOpenShiftResources, Refused
  <1>3. CASE \/ SyncRecoveryEventsFromSlices \/ ListingSlicesFails \/ SetApprovalsConsumed
             \/ EndDrains \/ SyncJobStatuses \/ PersistApprovals
    BY <1>3 DEF SyncRecoveryEventsFromSlices, ListingSlicesFails, SetApprovalsConsumed,
       EndDrains, SyncJobStatuses, PersistApprovals, EndPass
  <1> QED
    BY <1>1, <1>2, <1>3, PassStepCases

(* What serves a taint goes on doing so while its events stay. *)
LEMMA ServesAlike ==
  ASSUME NEW ev, NEW ew, NEW t, Serves(ev, t), \A d \in DevicesOf(t[1]) : ew[d] = ev[d]
  PROVE  Serves(ew, t)
  BY DEF Serves

(* reconcileDrainTaints leaves a taint only for an event of its plan. *)
LEMMA ReconciledServe ==
  ASSUME "untaint" \notin MayFail, CopyOfStatus, ReconcileDrainTaints,
         NEW t \in nodeTaint', t[1] = cur
  PROVE  Serves(events, t)
  <1>1. t[2] \in WantedNodes
    <2> DEFINE unwanted == {u \in NodesWithTaint(cur) : u[2] \notin WantedNodes}
    <2>1. PICK stuck \in SUBSET unwanted : /\ Refused(OnSome("untaint", stuck))
                                           /\ nodeTaint' = (nodeTaint \ unwanted) \cup stuck
      BY Zenon DEF ReconcileDrainTaints
    <2>2. stuck = {}
      BY <2>1 DEF Refused, OnSome
    <2> QED
      BY <2>1, <2>2 DEF NodesWithTaint
  <1>2. PICK o \in Devices : NodeOf[o] = t[2] /\ events[o].state \in Active \cup {"blocked"}
    BY <1>1 DEF WantedNodes
  <1>3. PlanOf[o] = cur
    BY <1>2 DEF CopyOfStatus, Active
  <1> QED
    BY <1>2, <1>3 DEF Serves, DevicesOf

(* handleFinalizer leaves none. *)
LEMMA DeletedTaints ==
  ASSUME "untaint" \notin MayFail, NEW p \in Plans, FinalizeDeletion(p), NEW t \in nodeTaint'
  PROVE  t[1] # p /\ t \in nodeTaint
  BY DEF FinalizeDeletion, Refused, OnSome, NodesWithTaint

(* A taint goes on serving an event, on record or in the pass. *)
LEMMA TaintsServeStep ==
  ASSUME NothingLost, {"untaint", "openshift"} \cap MayFail = {},
         RecoveryInv, CopyOfStatus, Written, TaintsServe, [Next]_vars
  PROVE  TaintsServe'
  <1> SUFFICES ASSUME NEW t \in nodeTaint'
               PROVE  /\ t[1] # cur' \/ pc' \in {"idle", "detect"} => Serves(status', t)
                      /\ t[1] = cur' /\ pc' \in {"status", "spec"} => Serves(events', t)
    BY DEF TaintsServe, Serves
  <1>0. status \in [Devices -> Event]
    BY DEF RecoveryInv, TypeOK
  <1>1. \/ t \in nodeTaint
        \/ pc = "drain" /\ pc' = "drain" /\ cur' = cur /\ t[1] = cur
    BY NodeTaintsMove
  <1>2. CASE PassIdles /\ t \in nodeTaint
    <2>1. pc' = pc /\ cur' = cur /\ events' = events
      BY <1>2 DEF PassIdles
    <2>2. CASE UNCHANGED status
      BY <1>2, <2>1, <2>2 DEF TaintsServe
    <2>3. ASSUME NEW p \in Plans, FinalizeDeletion(p), pc = "idle",
                 status' = [d \in Devices |-> IF PlanOf[d] = p THEN NoEvent ELSE status[d]]
          PROVE  Serves(status', t)
      <3>1. t[1] # p
        BY <2>3, DeletedTaints
      <3>2. \A d \in DevicesOf(t[1]) : status'[d] = status[d]
        BY <2>3, <3>1 DEF DevicesOf
      <3>3. Serves(status, t)
        BY <1>2, <2>3 DEF TaintsServe
      <3> QED
        BY <3>2, <3>3, ServesAlike
    <2>4. ~PersistStatus
      BY <1>2 DEF PassIdles, PersistStatus
    <2> QED
      BY <2>1, <2>2, <2>3, <2>4, StatusMoves
  <1>3. ASSUME NEW p \in Plans, Reconcile(p), t \in nodeTaint
        PROVE  pc' = "detect" /\ Serves(status', t)
    BY <1>3 DEF Reconcile, planVars, TaintsServe
  <1>4. ASSUME EndPass, UNCHANGED status, pc \in {"detect", "spec"}, t \in nodeTaint
        PROVE  pc' = "idle" /\ Serves(status', t)
    <2>1. pc' = "idle" /\ status' = status
      BY <1>4 DEF EndPass
    <2>2. CASE t[1] # cur \/ pc = "detect"
      BY <1>4, <2>1, <2>2 DEF TaintsServe
    <2>3. CASE t[1] = cur /\ pc = "spec"
      <3>1. Serves(events, t) /\ \A d \in DevicesOf(t[1]) : status[d] = events[d]
        BY <1>4, <2>3 DEF TaintsServe, Written
      <3>2. Serves(status, t)
        BY <3>1, ServesAlike
      <3> QED
        BY <2>1, <3>2
    <2> QED
      BY <1>4, <2>2, <2>3
  <1>5. CASE PassGoesOn
    <2>1. /\ pc # "idle" /\ pc' \notin {"idle", "detect"} /\ cur' = cur /\ PassStep
      BY <1>5 DEF PassGoesOn
    <2>2. ASSUME t[1] # cur PROVE Serves(status', t)
      <3>1. Serves(status, t)
        BY <1>1, <2>2 DEF TaintsServe
      <3>2. \A d \in DevicesOf(t[1]) : status'[d] = status[d]
        BY <1>0, <2>1, <2>2, StatusMoves DEF DevicesOf
      <3> QED
        BY <3>1, <3>2, ServesAlike
    <2>3. ASSUME t[1] = cur, pc' \in {"status", "spec"} PROVE Serves(events', t)
      <3>1. CASE ReconcileDrainTaints
        <4>1. events' = events
          BY <3>1 DEF ReconcileDrainTaints
        <4> QED
          BY <2>3, <3>1, <4>1, ReconciledServe
      <3>2. CASE PersistStatus
        <4>1. pc = "status" /\ events' = events
          BY <3>2 DEF PersistStatus
        <4> QED
          BY <1>1, <2>3, <4>1 DEF TaintsServe
      <3> QED
        BY <2>1, <2>3, <3>1, <3>2, WritesFollow
    <2> QED
      BY <2>1, <2>2, <2>3
  <1>6. CASE t \notin nodeTaint
    BY <1>1, <1>6
  <1>7. "crash" \notin MayFail
    BY DEF NothingLost
  <1> QED
    BY <1>2, <1>3, <1>4, <1>5, <1>6, <1>7, PassMoves

(* reconcileDrainTaints: for any plans, nodes and GPUs, between passes a   *)
(* node is unschedulable only for a recovery of that plan that is under    *)
(* way there or waits for the node, as long as no untaint, image check,    *)
(* OpenShift object or status write fails and no pass is cut off.          *)
THEOREM TaintsForRecoveries ==
  ASSUME {"status", "crash", "untaint", "openshift", "image"} \cap MayFail = {}
  PROVE  Spec => []TaintsServeRecoveries
  <1>0. /\ NothingLost /\ {"untaint", "openshift"} \cap MayFail = {}
        /\ "image" \notin MayFail
    BY DEF NothingLost
  <1>1. Init => OwnInv /\ NeverHeld /\ TaintsServe
    <2> SUFFICES ASSUME Init PROVE OwnInv /\ NeverHeld /\ TaintsServe
      OBVIOUS
    <2>1. TaintsServe
      BY DEF Init, TaintsServe
    <2> QED
      BY <2>1, OwnInit, NeverHeldInit
  <1>2. OwnInv /\ NeverHeld /\ TaintsServe /\ [Next]_vars
        => (OwnInv /\ NeverHeld /\ TaintsServe)'
    BY <1>0, OwnStep, NeverHeldStep, TaintsServeStep DEF OwnInv, FailedInv
  <1>3. OwnInv /\ NeverHeld /\ TaintsServe => TaintsServeRecoveries
    <2> SUFFICES ASSUME OwnInv, NeverHeld, TaintsServe, pc = "idle", NEW t \in nodeTaint
                 PROVE  \E d \in DevicesOf(t[1]) :
                           /\ NodeOf[d] = t[2]
                           /\ \/ status[d].state \in Active
                              \/ /\ status[d].state = "blocked"
                                 /\ status[d].heldAt # spec.generation[t[1]]
      BY DEF TaintsServeRecoveries
    <2>1. t[1] \in Plans
      BY DEF OwnInv, RecoveryInv, TypeOK
    <2>2. PICK d \in DevicesOf(t[1]) :
            NodeOf[d] = t[2] /\ status[d].state \in Active \cup {"blocked"}
      BY DEF TaintsServe, Serves
    <2>3. status[d].heldAt # spec.generation[t[1]]
      BY <2>1, <2>2 DEF NeverHeld, DevicesOf
    <2> QED
      BY <2>2, <2>3
  <1> QED
    BY <1>1, <1>2, <1>3, PTL DEF Spec

-----------------------------------------------------------------------------
(* Blocked events and their approvals.                                     *)

(* The approval an event of GPU d holds is one for it. *)
Covered(d, e) ==
    /\ e.approval \in Approvals /\ Grant[e.approval].plan = PlanOf[d]
    /\ \/ <<d, e.idType>> \in Grant[e.approval].names
       \/ e.type \in Grant[e.approval].types /\ NodeOf[d] \in Grant[e.approval].nodes

(* A blocked event on record holds an approval for it that is not          *)
(* consumed; so does one in the working copy, as the pass read the spec.   *)
BlockedCovered ==
    /\ \A d \in Devices :
          status[d].state = "blocked" =>
             Covered(d, status[d]) /\ spec.approvals[status[d].approval] # "consumed"
    /\ \A d \in Devices :
          events[d].state = "blocked" =>
             Covered(d, events[d]) /\ snap.approvals[events[d].approval] # "consumed"
    /\ pc # "idle" => \A a \in Approvals : /\ spec.approvals[a] = "consumed"
                                           => snap.approvals[a] = "consumed"

(* The approvals a pass will mark consumed are its plan's, and once the    *)
(* loop of processApprovals is over no blocked event holds one of them.    *)
(* Until then, an event it has left blocked is among blockedIDs.           *)
UsedNotBlocked ==
    /\ \A a \in used : Grant[a].plan = cur /\ snap.approvals[a] = "active"
    /\ pc \in {"idle", "detect", "openshift"} => used = {} /\ kept = {}
    /\ pc \in {"openshift", "approve"} =>
         \A d \in Devices \ todo :
            events[d].state = "blocked" => \/ events[d].approval \in kept
                                           \/ snap.approvals[events[d].approval] # "active"
    /\ pc \in {"drain", "sync", "finish", "status", "spec"} =>
         \A d \in Devices : events[d].state = "blocked" => events[d].approval \notin used

(* What processApprovals makes of the event it visits. *)
Visited(d) ==
    /\ \A o \in Devices \ {d} : events'[o] = events[o]
    /\ kept \subseteq kept'
    /\ \/ /\ events'[d] = events[d] /\ used' = used
          /\ ~Startable(d, events[d]) \/ MatchingApprovals(d, events[d]) = {}
       \/ \E a \in Approvals :
            /\ Startable(d, events[d]) /\ a \in MatchingApprovals(d, events[d])
            /\ used' \subseteq used \cup {a}
            /\ events'[d].state = "blocked" =>
                 /\ events'[d].approval = a /\ a \in kept'
                 /\ events'[d].idType = events[d].idType /\ events'[d].type = events[d].type

(* Approvals keep the type of what they are matched with. *)
NoOtherType == \A a \in Approvals : Grant[a].override \in {"none", "reflash"}

(* processApprovals, where every call succeeds and no event is held. *)
LEMMA VisitMoves ==
  ASSUME {"labels", "create", "image"} \cap MayFail = {}, NoOtherType,
         TypeOK, NeverHeld, PassStep, NEW v \in Devices, Visiting(v)
  PROVE  \E d \in Devices : Visiting(d) /\ Visited(d)
  <1>0. pc = "approve" /\ pc' = "approve"
    BY DEF Visiting
  <1>1. ASSUME NEW d \in Devices, NotApproved(d) PROVE Visiting(d) /\ Visited(d)
    BY <1>1 DEF NotApproved, Visited, Refused
  <1>2. ASSUME NEW d \in Devices, NEW a \in Approvals,
               \/ BlockEvent(d, a) \/ BeginDrain(d, a) \/ CreateRecoveryJob(d, a)
               \/ ParkForFirmware(d, a)
        PROVE  Visiting(d) /\ Visited(d)
    <2>1. Answers(d, a) /\ \A o \in Devices \ {d} : events'[o] = events[o]
      BY <1>2, AnswerMoves, Zenon
    <2>2. Visiting(d) /\ Authorises(a, d)
      BY <1>2, Zenon DEF BlockEvent, BeginDrain, CreateRecoveryJob, ParkForFirmware, Starting
    <2>3. Startable(d, events[d]) /\ a \in MatchingApprovals(d, events[d])
      BY <2>2 DEF Authorises, IsFirst
    <2>4. /\ kept \subseteq kept' /\ used' \subseteq used \cup {a}
          /\ BlockEvent(d, a) => a \in kept'
      BY <1>2, Zenon DEF BlockEvent, BeginDrain, CreateRecoveryJob, ParkForFirmware, Consuming
    <2>5. ASSUME ~BlockEvent(d, a) PROVE events'[d].state # "blocked"
      <3>1. PICK s \in {"draining", "in-progress", "missing-firmware"} :
               events' = [events EXCEPT ![d] = [Verified(events[d], a) EXCEPT !.state = s]]
        BY <1>2, <2>5, Zenon DEF BeginDrain, CreateRecoveryJob, ParkForFirmware
      <3>2. Verified(events[d], a) \in Event
        BY <2>2, MatchedFields, Zenon
      <3>3. [Verified(events[d], a) EXCEPT !.state = s].state = s
        BY <3>2 DEF Event
      <3> QED
        BY <3>1, <3>3 DEF TypeOK
    <2> QED
      BY <2>1, <2>2, <2>3, <2>4, <2>5, Zenon DEF Visited, Answers, SameRecovery, NoOtherType
  <1>3. ASSUME NEW d \in Devices, NEW a \in Approvals, HoldForImageFix(d, a) PROVE FALSE
    <2>1. HeldAtThisGeneration(Matched(events[d], a)) /\ Authorises(a, d)
      BY <1>3 DEF HoldForImageFix, Refused
    <2>2. Matched(events[d], a).heldAt = 0
      <3>1. Matched(events[d], a).heldAt = events[d].heldAt
        BY <2>1, MatchedFields, Zenon
      <3> QED
        BY <3>1 DEF NeverHeld
    <2> QED
      BY <2>1, <2>2 DEF HeldAtThisGeneration
  <1>4. ASSUME NEW d \in Devices, NEW a \in Approvals, CreateRecoveryJobFails(d, a) PROVE FALSE
    BY <1>4 DEF CreateRecoveryJobFails, Refused
  <1>5. ASSUME NEW d \in Devices, DrainWaits(d) \/ DrainFails(d) \/ DrainCompletes(d) PROVE FALSE
    BY <1>0, <1>5 DEF DrainWaits, DrainFails, DrainCompletes, Draining
  <1>6. CASE \/ SyncRecoveryEventsFromSlices \/ ListingSlicesFails \/ EnsureOpenShiftResources
             \/ SetApprovalsConsumed \/ EndDrains \/ SyncJobStatuses
             \/ ReconcileDrainTaints \/ PersistStatus \/ PersistApprovals
    BY <1>0, <1>6 DEF SyncRecoveryEventsFromSlices, ListingSlicesFails,
       EnsureOpenShiftResources, SetApprovalsConsumed, EndDrains, SyncJobStatuses,
       ReconcileDrainTaints, PersistStatus, PersistApprovals
  <1> QED
    BY <1>1, <1>2, <1>3, <1>4, <1>5, <1>6 DEF PassStep

(* Outside of that loop, an event is blocked because it was. *)
LEMMA BlockedStays ==
  ASSUME TypeOK, pc # "approve", NEW d \in Devices, Moves(d), events'[d].state = "blocked"
  PROVE  Stays(d)
  <1>1. ~IsJudged(d)
    BY JudgedFields
  <1>2. ~Clears(d)
    BY NoEventFields DEF Clears
  <1>3. ~Appears(d) /\ ~Escalates(d) /\ ~Progresses(d) /\ \A a \in Approvals : ~Answers(d, a)
    BY DEF Appears, Escalates, Progresses, Answers
  <1> QED
    BY <1>1, <1>2, <1>3 DEF Moves

(* In it, because it was or because an approval covers it. *)
LEMMA BlockedVisited ==
  ASSUME TypeOK, CopyOfStatus, BlockedCovered, NEW d \in Devices, Visiting(d), Visited(d),
         NEW o \in Devices, events'[o].state = "blocked", snap' = snap
  PROVE  Covered(o, events'[o]) /\ snap'.approvals[events'[o].approval] # "consumed"
  <1>1. CASE events'[o] = events[o]
    BY <1>1, Zenon DEF BlockedCovered
  <1>2. ASSUME o = d, Startable(d, events[d]),
               NEW a \in Approvals, a \in MatchingApprovals(d, events[d]),
               events'[d].approval = a, events'[d].idType = events[d].idType,
               events'[d].type = events[d].type
        PROVE  Covered(o, events'[o]) /\ snap'.approvals[events'[o].approval] # "consumed"
    <2>1. Grant[a].plan = cur /\ snap.approvals[a] = "active"
      BY <1>2 DEF MatchingApprovals, Unconsumed
    <2>2. PlanOf[d] = cur
      BY <1>2 DEF Startable, CopyOfStatus
    <2> QED
      BY <1>2, <2>1, <2>2 DEF MatchingApprovals, Covered
  <1> QED
    BY <1>1, <1>2 DEF Visited

(* setApprovalsConsumed leaves out what a blocked event holds. *)
LEMMA UsedStep ==
  ASSUME {"labels", "create", "image"} \cap MayFail = {}, NoOtherType,
         RecoveryInv, CopyOfStatus, NeverHeld, BlockedCovered, UsedNotBlocked, [Next]_vars
  PROVE  UsedNotBlocked'
  <1>0. TypeOK
    BY DEF RecoveryInv
  <1>1. CASE PassIdles
    BY <1>1 DEF PassIdles, UsedNotBlocked
  <1>2. ASSUME NEW p \in Plans, Reconcile(p) PROVE UsedNotBlocked'
    BY <1>2 DEF Reconcile, loopVars, UsedNotBlocked
  <1>3. CASE EndPass
    BY <1>3 DEF EndPass, UsedNotBlocked
  <1>4. CASE PassGoesOn
    <2>0. /\ pc' # "idle" /\ PassStep /\ snap' = snap /\ cur' = cur
          /\ \A d \in Devices : Moves(d)
      BY <1>4 DEF PassGoesOn
    <2>1. CASE /\ pc = "detect" /\ pc' \in {"openshift", "approve"} /\ UNCHANGED <<used, kept>>
               /\ \A d \in Devices \ todo' : events'[d] = NoEvent
      BY <2>0, <2>1, NoEventFields DEF UsedNotBlocked
    <2>2. CASE \/ pc = "openshift" /\ pc' = "approve" /\ UNCHANGED <<events, todo, used, kept>>
               \/ pc = "openshift" /\ pc' = "status" /\ UNCHANGED <<events, used, kept>>
      BY <2>0, <2>2 DEF UsedNotBlocked
    <2>3. ASSUME pc = "approve", pc' = "approve", NEW d \in Devices, Visiting(d), Visited(d)
          PROVE  UsedNotBlocked'
      <3>1. ASSUME NEW a \in used' PROVE Grant[a].plan = cur /\ snap.approvals[a] = "active"
        BY <2>3, Zenon DEF UsedNotBlocked, Visited, MatchingApprovals, Unconsumed
      <3>2. ASSUME NEW o \in Devices \ todo', events'[o].state = "blocked"
            PROVE  \/ events'[o].approval \in kept'
                   \/ snap.approvals[events'[o].approval] # "active"
        <4>1. CASE o # d
          <5>1. o \in Devices \ todo /\ events'[o] = events[o] /\ kept \subseteq kept'
            BY <2>3, <3>2, <4>1 DEF Visiting, Visited
          <5> QED
            BY <2>3, <3>2, <5>1, Zenon DEF UsedNotBlocked
        <4>2. ASSUME o = d, events'[d] = events[d], MatchingApprovals(d, events[d]) = {}
              PROVE  snap.approvals[events'[o].approval] # "active"
          <5>1. Covered(d, events[d]) /\ PlanOf[d] = cur
            BY <3>2, <4>2 DEF BlockedCovered, CopyOfStatus
          <5> QED
            BY <4>2, <5>1 DEF Covered, MatchingApprovals, Unconsumed
        <4>3. events[d].state = "blocked" => Startable(d, events[d])
          BY DEF Startable
        <4> QED
          BY <2>3, <3>2, <4>1, <4>2, <4>3 DEF Visited
      <3> QED
        BY <2>0, <2>3, <3>1, <3>2 DEF UsedNotBlocked
    <2>4. CASE /\ pc = "approve" /\ pc' = "drain" /\ todo = {} /\ UNCHANGED events
               /\ used' = used \ kept
      BY <2>0, <2>4 DEF UsedNotBlocked
    <2>5. CASE /\ pc \in {"drain", "sync", "finish", "status"}
               /\ pc' \in {"drain", "sync", "finish", "status", "spec"} /\ UNCHANGED used
      <3>1. ASSUME NEW d \in Devices, events'[d].state = "blocked"
            PROVE  events[d].state = "blocked" /\ events'[d].approval = events[d].approval
        BY <1>0, <2>0, <2>5, <3>1, BlockedStays DEF Stays
      <3> QED
        BY <2>0, <2>5, <3>1 DEF UsedNotBlocked
    <2>6. ASSUME NEW v \in Devices, Visiting(v), pc = "approve", pc' = "approve"
          PROVE  UsedNotBlocked'
      BY <1>0, <2>0, <2>3, <2>6, VisitMoves
    <2> QED
      BY <2>0, <2>1, <2>2, <2>4, <2>5, <2>6, PassContinues DEF Continues
  <1> QED
    BY <1>1, <1>2, <1>3, <1>4, PassMoves

(* What a step leaves consumed was so, or a pass marked it at its end. *)
LEMMA ConsumedFrom ==
  ASSUME TypeOK, [Next]_vars, NEW a \in Approvals, spec'.approvals[a] = "consumed"
  PROVE  \/ spec.approvals[a] = "consumed"
         \/ pc = "spec" /\ pc' = "idle" /\ a \in used /\ UNCHANGED status
  <1>1. spec.approvals \in [Approvals -> {"unused", "active", "consumed", "gone"}]
    BY DEF TypeOK, SpecType
  <1>2. ASSUME NEW b \in Approvals, NEW to \in {"active", "gone"},
               spec'.approvals = [spec.approvals EXCEPT ![b] = to]
        PROVE  spec.approvals[a] = "consumed"
    BY <1>1, <1>2
  <1>3. ASSUME spec'.approvals = Apply(spec.approvals)
        PROVE  spec.approvals[a] = "consumed" \/ a \in used
    BY <1>3 DEF Apply
  <1> QED
    BY <1>1, <1>2, <1>3, ApprovalsMove, Zenon DEF EndPass

(* The working copy: a blocked event holds an approval the pass read. *)
LEMMA CopyCovered ==
  ASSUME {"labels", "create", "image"} \cap MayFail = {}, NoOtherType,
         RecoveryInv, CopyOfStatus, NeverHeld, BlockedCovered, [Next]_vars,
         NEW d \in Devices, events'[d].state = "blocked"
  PROVE  Covered(d, events'[d]) /\ snap'.approvals[events'[d].approval] # "consumed"
  <1>0. TypeOK
    BY DEF RecoveryInv
  <1>1. CASE PassIdles
    BY <1>1 DEF PassIdles, BlockedCovered
  <1>2. ASSUME NEW p \in Plans, Reconcile(p)
        PROVE  Covered(d, events'[d]) /\ snap'.approvals[events'[d].approval] # "consumed"
    <2>1. events'[d] \in {status[d], NoEvent} /\ snap' = spec
      BY <1>2 DEF Reconcile
    <2> QED
      BY <2>1, NoEventFields DEF BlockedCovered
  <1>3. CASE EndPass
    BY <1>3, NoEventFields DEF EndPass, NoEvents
  <1>4. CASE PassGoesOn /\ pc # "approve"
    <2>1. snap' = snap /\ Stays(d)
      BY <1>0, <1>4, BlockedStays DEF PassGoesOn
    <2>2. Covered(d, events[d]) /\ snap.approvals[events[d].approval] # "consumed"
      BY <2>1 DEF Stays, BlockedCovered
    <2> QED
      BY <2>1, <2>2, Zenon DEF Stays, SameRecovery, Covered
  <1>5. CASE PassGoesOn /\ pc = "approve"
    <2>1. pc' # "idle" /\ PassStep /\ snap' = snap
      BY <1>5 DEF PassGoesOn
    <2>2. CASE UNCHANGED events
      BY <2>1, <2>2, Zenon DEF BlockedCovered
    <2>3. ASSUME NEW v \in Devices, Visiting(v)
          PROVE  Covered(d, events'[d]) /\ snap'.approvals[events'[d].approval] # "consumed"
      <3>1. PICK o \in Devices : Visiting(o) /\ Visited(o)
        BY <1>0, <2>1, <2>3, VisitMoves
      <3> QED
        BY <1>0, <2>1, <3>1, BlockedVisited
    <2> QED
      BY <1>5, <2>1, <2>2, <2>3, PassContinues DEF Continues
  <1> QED
    BY <1>1, <1>2, <1>3, <1>4, <1>5, PassMoves

(* What is persisted: no step consumes the approval a blocked event holds. *)
LEMMA StatusCovered ==
  ASSUME RecoveryInv, Written, BlockedCovered, UsedNotBlocked, [Next]_vars,
         NEW d \in Devices, status'[d].state = "blocked"
  PROVE  Covered(d, status'[d]) /\ spec'.approvals[status'[d].approval] # "consumed"
  <1>0. TypeOK /\ status \in [Devices -> Event]
    BY DEF RecoveryInv, TypeOK
  <1>1. CASE status'[d] = status[d]
    <2> DEFINE a == status[d].approval
    <2>1. Covered(d, status[d]) /\ spec.approvals[a] # "consumed" /\ a \in Approvals
      BY <1>1, Zenon DEF BlockedCovered, Covered
    <2>2. ASSUME pc = "spec" PROVE a \notin used
      <3>1. CASE PlanOf[d] = cur
        BY <1>1, <2>2, <3>1 DEF Written, DevicesOf, UsedNotBlocked
      <3>2. CASE PlanOf[d] # cur
        BY <2>1, <3>2 DEF Covered, UsedNotBlocked
      <3> QED
        BY <3>1, <3>2, Zenon
    <2> HIDE DEF a
    <2>3. spec'.approvals[a] # "consumed"
      BY <1>0, <2>1, <2>2, ConsumedFrom
    <2> QED
      BY <1>1, <2>1, <2>3 DEF a
  <1>2. CASE PersistStatus /\ PlanOf[d] = cur /\ status'[d] = events[d]
    <2>1. Covered(d, events[d]) /\ snap.approvals[events[d].approval] # "consumed"
      BY <1>2, Zenon DEF BlockedCovered
    <2>2. pc # "idle" /\ spec' = spec
      BY <1>2 DEF PersistStatus
    <2> QED
      BY <1>2, <2>1, <2>2, Zenon DEF BlockedCovered, Covered
  <1> QED
    BY <1>0, <1>1, <1>2, StatusOrigin, NoEventFields

(* The pass read of every approval that is consumed by now. *)
LEMMA CoveredStep ==
  ASSUME {"labels", "create", "image"} \cap MayFail = {}, NoOtherType,
         RecoveryInv, CopyOfStatus, NeverHeld, Written, BlockedCovered, UsedNotBlocked,
         [Next]_vars
  PROVE  BlockedCovered'
  <1>0. TypeOK
    BY DEF RecoveryInv
  <1>1. ASSUME pc' # "idle", NEW a \in Approvals, spec'.approvals[a] = "consumed"
        PROVE  snap'.approvals[a] = "consumed"
    <2>1. spec.approvals[a] = "consumed"
      BY <1>0, <1>1, ConsumedFrom
    <2>2. CASE PassIdles \/ PassGoesOn
      BY <1>1, <2>1, <2>2 DEF PassIdles, PassGoesOn, BlockedCovered
    <2>3. ASSUME NEW p \in Plans, Reconcile(p) PROVE snap'.approvals[a] = "consumed"
      BY <2>1, <2>3 DEF Reconcile
    <2> QED
      BY <1>1, <2>2, <2>3, PassMoves, Zenon DEF EndPass
  <1>2. \A d \in Devices : status'[d].state = "blocked" =>
            Covered(d, status'[d]) /\ spec'.approvals[status'[d].approval] # "consumed"
    BY StatusCovered
  <1>3. \A d \in Devices : events'[d].state = "blocked" =>
            Covered(d, events'[d]) /\ snap'.approvals[events'[d].approval] # "consumed"
    BY CopyCovered
  <1> QED
    BY <1>1, <1>2, <1>3, Zenon DEF BlockedCovered, Covered

(* processApprovals, setApprovalsConsumed: for any number of events that   *)
(* share an approval, and however passes, edits and restarts interleave,   *)
(* the approval a blocked event waits with is not consumed under it, as    *)
(* long as no approval overrides the type of a reset and no status write,  *)
(* label read, image check or Job creation fails.                          *)
THEOREM BlockedApprovals ==
  ASSUME {"status", "labels", "create", "image"} \cap MayFail = {},
         \A a \in Approvals : Grant[a].override \in {"none", "reflash"}
  PROVE  Spec => []BlockedKeepsApproval
  <1> DEFINE Inv == /\ RecoveryInv /\ FailedInv /\ NeverHeld /\ Written
                    /\ BlockedCovered /\ UsedNotBlocked
  <1>0. /\ "status" \notin MayFail /\ {"labels", "create", "image"} \cap MayFail = {}
        /\ "image" \notin MayFail /\ NoOtherType
    BY DEF NoOtherType
  <1>1. Init => Inv
    <2> SUFFICES ASSUME Init PROVE Inv
      OBVIOUS
    <2>1. NeverHeld
      BY NeverHeldInit
    <2>2. \A d \in Devices : status[d].state = "none" /\ events[d].state = "none"
      BY NoEventFields DEF Init, NoEvents
    <2>3. BlockedCovered /\ UsedNotBlocked /\ Written
      BY <2>2, Zenon DEF Init, BlockedCovered, UsedNotBlocked, Written
    <2> QED
      BY <2>1, <2>3, RecoveryInit, FailedInit
  <1>2. Inv /\ [Next]_vars => Inv'
    BY <1>0, RecoveryStep, FailedStep, NeverHeldStep, WrittenStep, CoveredStep, UsedStep, Zenon
    DEF FailedInv
  <1>3. Inv => BlockedKeepsApproval
    BY Zenon DEF BlockedCovered, BlockedKeepsApproval
  <1> HIDE DEF Inv
  <1> QED
    BY <1>1, <1>2, <1>3, PTL DEF Spec

=============================================================================
