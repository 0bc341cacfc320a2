------------------------ MODULE FirmwareUpdateProofs ------------------------
(***************************************************************************)
(* The GPUFirmwareUpdate controller keeps its types and its inductive      *)
(* invariant: what the recorded status of an update, the status its pass is*)
(* about to record, and the taints, pods and Jobs of the cluster say of    *)
(* each other.  From it: flashing is undisturbed and of verified images,   *)
(* FirmwareUpdate implements Rollout, and a rollout that is completed has  *)
(* done what it says.                                                      *)
(***************************************************************************)
EXTENDS FirmwareUpdate, TLAPS

-----------------------------------------------------------------------------
(* Types.                                                                  *)

(* The status of a new update has its type. *)
LEMMA NewStatusType == NewStatus \in StatusType
  BY DEF NewStatus, StatusType, States

(* updateJobName is a Job name. *)
LEMMA updateJobNameType ==
  ASSUME NEW u \in Updates, NEW n \in Nodes PROVE updateJobName(u, n) \in JobNames
  BY DEF updateJobName, JobNames

(* A pass that ends leaves its working state typed. *)
LEMMA EndPassType ==
  ASSUME TypeOK, EndPass
  PROVE  /\ pc' \in Steps /\ cur' \in Updates /\ copy' \in StatusType
         /\ todo' \in SUBSET Nodes /\ at' \in SUBSET Nodes
         /\ lastErr' \in BOOLEAN /\ stale' \in BOOLEAN
  BY NewStatusType, Zenon DEF EndPass, TypeOK, Steps

(* So does one that goes on to its status write. *)
LEMMA RecordType ==
  ASSUME NEW c \in StatusType, Record(c)
  PROVE  /\ pc' \in Steps /\ copy' \in StatusType
         /\ todo' \in SUBSET Nodes /\ at' \in SUBSET Nodes
  BY DEF Record, Steps

(* Counting a failure keeps the type of the counters. *)
LEMMA FailsType ==
  ASSUME TypeOK, NEW k, Fails(k) PROVE spent' \in [failures : Nat, edits : Nat]
  BY DEF Fails, TypeOK

(* taintAndDrainNodes leaves a status. *)
LEMMA AfterTaintingType ==
  ASSUME TypeOK, NEW c \in StatusType, NEW err \in BOOLEAN
  PROVE  AfterTainting(c, err) \in StatusType
  <1>1. status[cur].draining \in SUBSET Nodes
    BY DEF TypeOK, StatusType
  <1> QED
    BY <1>1, Zenon DEF AfterTainting, StatusType, States

(* So does untaintNodesAndFinalize. *)
LEMMA AfterUntaintingType ==
  ASSUME NEW c \in StatusType, NEW err PROVE AfterUntainting(c, err) \in StatusType
  BY DEF AfterUntainting, StatusType, States

(* The nodes of a batch are nodes. *)
LEMMA BatchType ==
  ASSUME NEW u \in Updates, NEW b \in Batches(u)
  PROVE  /\ b \in SUBSET Nodes /\ b # {} /\ b \subseteq Candidates(u)
         /\ Candidates(u) \in SUBSET Nodes
         /\ object[u].method # "canary" => b = Candidates(u)
  <1>1. Candidates(u) \in SUBSET Nodes
    BY ConstantsAssumption DEF Candidates
  <1> QED
    BY <1>1 DEF Batches

(* Every status an update may have, with the fields passes replace. *)
LEMMA StatusFields ==
  ASSUME NEW c \in StatusType, NEW s \in States, NEW A \in SUBSET Nodes
  PROVE  /\ [c EXCEPT !.state = s] \in StatusType
         /\ [c EXCEPT !.draining = A] \in StatusType
         /\ [c EXCEPT !.draining = A, !.state = s] \in StatusType
  BY Zenon DEF StatusType

(* The update object keeps its type when the fields that change are edited. *)
LEMMA ObjectFields ==
  ASSUME NEW o \in ObjectType, NEW m \in {"direct", "canary"}
  PROVE  /\ [o EXCEPT !.finalizer = TRUE] \in ObjectType
         /\ \A ph \in {"deleting", "gone"} : [o EXCEPT !.phase = ph] \in ObjectType
         /\ [o EXCEPT !.finalizer = FALSE, !.phase = "gone"] \in ObjectType
         /\ [o EXCEPT !.method = m, !.content = @ + 1] \in ObjectType
  <1>1. o.content \in Nat
    BY Zenon DEF ObjectType
  <1>2. o.content + 1 \in Nat
    BY <1>1
  <1>3. [o EXCEPT !.finalizer = TRUE] \in ObjectType
    BY Zenon DEF ObjectType
  <1>4. \A ph \in {"deleting", "gone"} : [o EXCEPT !.phase = ph] \in ObjectType
    BY SMT DEF ObjectType
  <1>5. [o EXCEPT !.finalizer = FALSE, !.phase = "gone"] \in ObjectType
    BY Zenon DEF ObjectType
  <1> QED
    BY <1>2, <1>3, <1>4, <1>5, Zenon DEF ObjectType

(* The first pass on an update: beginUpdate up to its loop. *)
LEMMA BeginUpdateType ==
  ASSUME TypeOK, NEW u \in Updates, BeginUpdate(u) \/ BeginUpdateFails(u) PROVE TypeOK'
  <1>0. status[u] \in StatusType /\ object[u].content \in Nat /\ Candidates(u) \in SUBSET Nodes
    BY ConstantsAssumption DEF TypeOK, ObjectType, Candidates
  <1>1. CASE BeginUpdate(u)
    <2>1. PICK b \in Batches(u) :
             /\ todo' = b
             /\ copy' = [status[u] EXCEPT !.all = b, !.pending = Candidates(u) \ b,
                                          !.draining = {}, !.vetted = object[u].content]
      BY <1>1, Zenon DEF BeginUpdate
    <2>2. copy' \in StatusType /\ todo' \in SUBSET Nodes
      BY <1>0, <2>1, BatchType, Zenon DEF StatusType
    <2> QED
      BY <1>1, <2>2, Zenon DEF BeginUpdate, Proceeds, Get, Works, TypeOK, Steps, clusterVars
  <1>2. CASE BeginUpdateFails(u)
    <2>1. [status[u] EXCEPT !.state = "error"] \in StatusType
      BY <1>0, StatusFields, Zenon DEF States
    <2>2. /\ pc' \in Steps /\ copy' \in StatusType
          /\ todo' \in SUBSET Nodes /\ at' \in SUBSET Nodes
      BY <1>2, <2>1, RecordType DEF BeginUpdateFails
    <2>3. spent' \in [failures : Nat, edits : Nat]
      BY <1>2, FailsType DEF BeginUpdateFails, Works, TypeOK
    <2> QED
      BY <1>2, <2>2, <2>3, Zenon DEF BeginUpdateFails, Proceeds, Get, TypeOK, clusterVars
  <1> QED BY <1>1, <1>2

(* taintAndDrainNodes: one iteration, tainting and evicting. *)
LEMMA TaintAndDrainType ==
  ASSUME TypeOK, NEW n \in Nodes, EnsureNodeTaint(n) \/ EvictPods(n) PROVE TypeOK'
  <1>1. CASE EnsureNodeTaint(n)
    <2>0. UpdateTaint[cur] \in TaintKeys
      BY DEF TypeOK, TaintKeys
    <2>1. taints' \in [Nodes -> SUBSET TaintKeys]
      <3>1. taints[n] \cup {UpdateTaint[cur]} \in SUBSET TaintKeys
        BY <2>0 DEF TypeOK
      <3>2. \/ taints' = taints
            \/ taints' = [taints EXCEPT ![n] = taints[n] \cup {UpdateTaint[cur]}]
        BY <1>1, Zenon DEF EnsureNodeTaint
      <3> QED
        BY <3>1, <3>2 DEF TypeOK
    <2>2. /\ pc' \in Steps /\ copy' \in StatusType /\ lastErr' \in BOOLEAN
          /\ todo' \in SUBSET Nodes /\ at' \in SUBSET Nodes
      <3>1. AfterTainting(copy, TRUE) \in StatusType
        BY AfterTaintingType, Zenon DEF TypeOK
      <3> QED
        BY <1>1, <3>1, RecordType, Zenon DEF EnsureNodeTaint, TypeOK, Steps
    <2>3. spent' \in [failures : Nat, edits : Nat]
      BY <1>1, FailsType, Zenon DEF EnsureNodeTaint, Works, TypeOK
    <2> QED
      BY <1>1, <2>1, <2>2, <2>3 DEF EnsureNodeTaint, TypeOK
  <1>2. CASE EvictPods(n)
    <2>1. PICK err \in BOOLEAN, listed \in BOOLEAN, evicted \in SUBSET {n} :
             /\ \/ err = lastErr /\ listed /\ Works
                \/ err /\ ~listed /\ evicted = {} /\ Fails("list")
                \/ err /\ listed /\ evicted = {} /\ pods[n] = "running" /\ Fails("evict")
             /\ evicted # {} => pods[n] = "running"
             /\ pods' = [m \in Nodes |-> IF m \in evicted THEN "terminating" ELSE pods[m]]
             /\ lastErr' = err
             /\ LET busy == {m \in {n} : listed /\ pods[m] # "none"}
                    c == [copy EXCEPT !.draining = @ \cup busy]
                IN  IF todo = {}
                    THEN Record(AfterTainting(c, err))
                    ELSE pc' = "taint" /\ copy' = c /\ at' = {} /\ UNCHANGED todo
      BY <1>2, Zenon DEF EvictPods
    <2> DEFINE busy == {m \in {n} : listed /\ pods[m] # "none"}
               c == [copy EXCEPT !.draining = @ \cup busy]
    <2>2. c \in StatusType
      BY Zenon DEF TypeOK, StatusType
    <2>3. AfterTainting(c, err) \in StatusType
      BY <2>2, AfterTaintingType
    <2>4. /\ pc' \in Steps /\ copy' \in StatusType
          /\ todo' \in SUBSET Nodes /\ at' \in SUBSET Nodes
      <3> HIDE DEF c
      <3>1. IF todo = {} THEN Record(AfterTainting(c, err))
            ELSE pc' = "taint" /\ copy' = c /\ at' = {} /\ UNCHANGED todo
        BY <2>1 DEF c
      <3> QED
        BY <2>2, <2>3, <3>1, RecordType DEF TypeOK, Steps
    <2>5. spent' \in [failures : Nat, edits : Nat]
      BY <2>1, FailsType DEF Works, TypeOK
    <2>6. pods' \in [Nodes -> {"none", "running", "terminating"}]
      BY <2>1 DEF TypeOK
    <2> QED
      BY <1>2, <2>1, <2>4, <2>5, <2>6 DEF EvictPods, TypeOK
  <1> QED BY <1>1, <1>2

(* checkForNodeDrainStatus. *)
LEMMA DrainType ==
  ASSUME TypeOK, NEW u \in Updates, CheckForNodeDrainStatus(u) PROVE TypeOK'
  <1> DEFINE remaining == {n \in status[u].draining : pods[n] # "none"}
  <1>1. PICK evicted \in SUBSET {n \in remaining : pods[n] = "running"} :
           /\ pods' = [n \in Nodes |-> IF n \in evicted THEN "terminating" ELSE pods[n]]
           /\ \/ /\ Works
                 /\ Record([status[u] EXCEPT
                               !.draining = remaining,
                               !.state = IF remaining = {} THEN "updating" ELSE @])
              \/ /\ status[u].draining # {} /\ Fails("list")
                 /\ Record([status[u] EXCEPT !.state = "error"])
              \/ /\ \E n \in remaining \ evicted : pods[n] = "running"
                 /\ Fails("evict")
                 /\ Record([status[u] EXCEPT !.state = "error"])
    BY Zenon DEF CheckForNodeDrainStatus
  <1>2. status[u] \in StatusType /\ status[u].state \in States /\ remaining \in SUBSET Nodes
    BY DEF TypeOK, StatusType
  <1>3. /\ [status[u] EXCEPT !.draining = remaining,
                             !.state = IF remaining = {} THEN "updating" ELSE @] \in StatusType
        /\ [status[u] EXCEPT !.state = "error"] \in StatusType
    <2> HIDE DEF remaining
    <2> QED BY <1>2, Zenon DEF StatusType, States
  <1>4. /\ pc' \in Steps /\ copy' \in StatusType
        /\ todo' \in SUBSET Nodes /\ at' \in SUBSET Nodes
    <2> HIDE DEF remaining
    <2> QED BY <1>1, <1>3, RecordType
  <1>5. spent' \in [failures : Nat, edits : Nat]
    <2> HIDE DEF remaining
    <2> QED BY <1>1, FailsType DEF Works, TypeOK
  <1>6. pods' \in [Nodes -> {"none", "running", "terminating"}]
    BY <1>1 DEF TypeOK
  <1> QED
    BY <1>4, <1>5, <1>6, Zenon DEF CheckForNodeDrainStatus, Proceeds, Get, TypeOK

(* startUpdateJobs and continueUpdateJobs. *)
LEMMA UpdateJobsType ==
  ASSUME TypeOK, NEW u \in Updates, StartUpdateJobs(u) \/ ContinueUpdateJobs(u) PROVE TypeOK'
  <1>0. status[u] \in StatusType
    BY DEF TypeOK
  <1>1. CASE StartUpdateJobs(u)
    <2>1. copy' \in StatusType /\ todo' \in SUBSET Nodes /\ pc' \in Steps
      BY <1>0, <1>1 DEF StartUpdateJobs, StatusType, Steps
    <2> QED
      BY <1>1, <2>1, Zenon DEF StartUpdateJobs, Proceeds, Get, Works, TypeOK, clusterVars
  <1>2. CASE ContinueUpdateJobs(u)
    <2> DEFINE succeeded == JobsIn(u, "succeeded") \ status[u].completed
    <2>1. PICK unread \in SUBSET succeeded :
             /\ IF unread = {} THEN Works ELSE Fails("logs")
             /\ LET failed == (JobsIn(u, "failed") \ status[u].completed) \cup unread
                IN  Record([status[u] EXCEPT
                               !.error = failed,
                               !.updating = {},
                               !.completed = @ \cup (succeeded \ unread),
                               !.state = AfterJobs(u, failed)])
      BY <1>2, Zenon DEF ContinueUpdateJobs
    <2> DEFINE failed == (JobsIn(u, "failed") \ status[u].completed) \cup unread
               c == [status[u] EXCEPT !.error = failed, !.updating = {},
                                      !.completed = @ \cup (succeeded \ unread),
                                      !.state = AfterJobs(u, failed)]
    <2>2. succeeded \in SUBSET Nodes /\ failed \in SUBSET Nodes
      BY DEF JobsIn
    <2>3. AfterJobs(u, failed) \in States
      BY Zenon DEF AfterJobs, States
    <2>4. c \in StatusType
      <3> HIDE DEF failed, succeeded
      <3> QED BY <1>0, <2>2, <2>3, Zenon DEF StatusType
    <2>5. Record(c)
      BY <2>1
    <2>6. spent' \in [failures : Nat, edits : Nat]
      BY <2>1, FailsType DEF Works, TypeOK
    <2> HIDE DEF c
    <2> QED
      BY <1>2, <2>4, <2>5, <2>6, RecordType, Zenon
         DEF ContinueUpdateJobs, Proceeds, Get, TypeOK, clusterVars
  <1> QED BY <1>1, <1>2

(* One Job is created, or cannot be. *)
LEMMA CreateUpdateJobType ==
  ASSUME TypeOK, NEW n \in Nodes, CreateUpdateJob(n) PROVE TypeOK'
  <1> DEFINE toUpdate == copy.all \ copy.completed
             c == [copy EXCEPT !.updating = toUpdate,
                               !.jobs = @ \cup {updateJobName(cur, m) : m \in toUpdate}]
  <1>1. copy \in StatusType /\ toUpdate \in SUBSET Nodes /\ cur \in Updates
    BY DEF TypeOK, StatusType
  <1>2. {updateJobName(cur, m) : m \in toUpdate} \in SUBSET JobNames
    BY <1>1, updateJobNameType
  <1>3. c \in StatusType /\ [copy EXCEPT !.state = "error_cleanup"] \in StatusType
    <2> HIDE DEF toUpdate
    <2> QED BY <1>1, <1>2, Zenon DEF StatusType, States
  <1>4. /\ pc' \in Steps /\ copy' \in StatusType
        /\ todo' \in SUBSET Nodes /\ at' \in SUBSET Nodes
    <2>1. \/ Record(c)
          \/ Record([copy EXCEPT !.state = "error_cleanup"])
          \/ todo' = todo \ {n} /\ UNCHANGED <<pc, copy, at>>
      BY DEF CreateUpdateJob
    <2> HIDE DEF c
    <2> QED BY <1>3, <2>1, RecordType DEF TypeOK
  <1>5. jobs' \in [JobNames -> JobType]
    <2>1. UpdateJobObj(cur) \in JobType
      BY DEF UpdateJobObj, JobType, TypeOK, ObjectType
    <2> QED BY <2>1, updateJobNameType DEF CreateUpdateJob, TypeOK
  <1>6. spent' \in [failures : Nat, edits : Nat]
    BY FailsType DEF CreateUpdateJob, Works, TypeOK
  <1> QED
    BY <1>4, <1>5, <1>6 DEF CreateUpdateJob, TypeOK

(* handleCanaryDone, up to its loop. *)
LEMMA CanaryDoneType ==
  ASSUME TypeOK, NEW u \in Updates, HandleCanaryDone(u) PROVE TypeOK'
  <1>0. status[u] \in StatusType /\ status[u].pending \in SUBSET Nodes
    BY DEF TypeOK, StatusType
  <1>1. [status[u] EXCEPT !.state = "cleanup"] \in StatusType
    BY <1>0, StatusFields, Zenon DEF States
  <1>2. [status[u] EXCEPT !.pending = {}, !.all = @ \cup status[u].pending,
                          !.draining = {}] \in StatusType
    BY <1>0, Zenon DEF StatusType
  <1>3. /\ pc' \in Steps /\ copy' \in StatusType /\ todo' \in SUBSET Nodes
        /\ at' \in SUBSET Nodes
    BY <1>0, <1>1, <1>2, RecordType DEF HandleCanaryDone, Proceeds, Get, Steps
  <1> QED
    BY <1>3, Zenon DEF HandleCanaryDone, Proceeds, Get, Works, TypeOK, clusterVars

(* untaintNodesAndFinalize, its start and one iteration. *)
LEMMA UntaintType ==
  ASSUME TypeOK,
         \/ \E u \in Updates : UntaintNodesAndFinalize(u)
         \/ \E n \in Nodes : RemoveNodeTaint(n)
  PROVE  TypeOK'
  <1>1. CASE \E u \in Updates : UntaintNodesAndFinalize(u)
    <2>1. PICK u \in Updates : UntaintNodesAndFinalize(u)
      BY <1>1
    <2>2. status[u] \in StatusType /\ status[u].all \in SUBSET Nodes
      BY DEF TypeOK, StatusType
    <2>3. /\ pc' \in Steps /\ copy' \in StatusType /\ todo' \in SUBSET Nodes
          /\ at' \in SUBSET Nodes
      BY <2>1, <2>2, AfterUntaintingType, RecordType, Zenon
         DEF UntaintNodesAndFinalize, Get, Steps
    <2> QED
      BY <2>1, <2>3, Zenon DEF UntaintNodesAndFinalize, Get, Works, TypeOK, clusterVars
  <1>2. CASE \E n \in Nodes : RemoveNodeTaint(n)
    <2>1. PICK n \in Nodes : RemoveNodeTaint(n)
      BY <1>2
    <2>2. taints' \in [Nodes -> SUBSET TaintKeys]
      BY <2>1 DEF RemoveNodeTaint, TypeOK
    <2>3. AfterUntainting(copy, lastErr') \in StatusType
      BY AfterUntaintingType DEF TypeOK
    <2>4. /\ pc' \in Steps /\ copy' \in StatusType /\ todo' \in SUBSET Nodes
          /\ at' \in SUBSET Nodes
      BY <2>1, <2>3, RecordType DEF RemoveNodeTaint, TypeOK
    <2>5. spent' \in [failures : Nat, edits : Nat] /\ lastErr' \in BOOLEAN
      BY <2>1, FailsType, Zenon DEF RemoveNodeTaint, Works, TypeOK
    <2> QED
      BY <2>1, <2>2, <2>4, <2>5 DEF RemoveNodeTaint, TypeOK
  <1> QED BY <1>1, <1>2

(* The writes at the end of a pass, refused ones included, and a crash. *)
LEMMA WritesType ==
  ASSUME TypeOK,
         PersistStatus \/ AddFinalizer \/ RemoveFinalizer \/ WriteFails \/ Crash
  PROVE  TypeOK'
  <1>1. CASE PersistStatus
    <2>1. status' \in [Updates -> StatusType]
      BY <1>1 DEF PersistStatus, TypeOK
    <2> QED
      BY <1>1, <2>1, EndPassType
         DEF PersistStatus, Works, TypeOK, clusterVars, loopVars, Steps
  <1>2. CASE AddFinalizer
    <2>1. object' \in [Updates -> ObjectType]
      <3>1. [object[cur] EXCEPT !.finalizer = TRUE] \in ObjectType
        BY ObjectFields, Zenon DEF TypeOK
      <3>2. object' = [object EXCEPT ![cur] = [object[cur] EXCEPT !.finalizer = TRUE]]
        BY <1>2, Zenon DEF AddFinalizer
      <3> QED
        BY <3>1, <3>2 DEF TypeOK
    <2> QED
      BY <1>2, <2>1, EndPassType DEF AddFinalizer, Works, TypeOK, clusterVars
  <1>3. CASE RemoveFinalizer
    <2>1. object' \in [Updates -> ObjectType]
      <3>1. [object[cur] EXCEPT !.finalizer = FALSE, !.phase = "gone"] \in ObjectType
        BY ObjectFields, Zenon DEF TypeOK
      <3>2. object' = [object EXCEPT ![cur] =
                         [object[cur] EXCEPT !.finalizer = FALSE, !.phase = "gone"]]
        BY <1>3, Zenon DEF RemoveFinalizer, TypeOK
      <3> QED
        BY <3>1, <3>2 DEF TypeOK
    <2> QED
      BY <1>3, <2>1, EndPassType DEF RemoveFinalizer, Works, TypeOK, clusterVars
  <1>4. CASE WriteFails
    <2>1. spent' \in [failures : Nat, edits : Nat]
      BY <1>4, FailsType DEF WriteFails, Works, TypeOK
    <2> QED
      BY <1>4, <2>1, EndPassType DEF WriteFails, TypeOK, clusterVars
  <1>5. CASE Crash
    BY <1>5, FailsType, EndPassType DEF Crash, TypeOK, clusterVars
  <1> QED BY <1>1, <1>2, <1>3, <1>4, <1>5

(* finalCleanup deletes Jobs. *)
LEMMA FinalCleanupType ==
  ASSUME TypeOK, NEW u \in Updates, FinalCleanup(u) \/ FinalCleanupFails(u) PROVE TypeOK'
  <1>0. NoJob \in JobType
    BY DEF NoJob, JobType
  <1>1. CASE FinalCleanup(u)
    <2>1. jobs' \in [JobNames -> JobType]
      BY <1>0, <1>1 DEF FinalCleanup, TypeOK
    <2> QED
      BY <1>1, <2>1, Zenon DEF FinalCleanup, Get, Works, TypeOK, Steps
  <1>2. CASE FinalCleanupFails(u)
    <2>1. jobs' \in [JobNames -> JobType]
      BY <1>0, <1>2 DEF FinalCleanupFails, TypeOK
    <2> QED
      BY <1>2, <2>1, FailsType DEF FinalCleanupFails, TypeOK, loopVars
  <1> QED BY <1>1, <1>2

(* Admins, the garbage collector, Jobs, pods and nodes. *)
LEMMA EnvironmentType ==
  ASSUME TypeOK, Environment PROVE TypeOK'
  <1>1. ASSUME NEW u \in Updates, SetHold(u) \/ EditSpec(u) \/ Delete(u) PROVE TypeOK'
    <2>1. object' \in [Updates -> ObjectType]
      <3>1. CASE SetHold(u)
        <4>1. object \in [Updates -> ObjectType]
          BY DEF TypeOK
        <4>2. object' = [object EXCEPT ![u] = [object[u] EXCEPT !.hold = ~object[u].hold]]
          BY <3>1, <4>1, Zenon DEF SetHold
        <4>3. [object[u] EXCEPT !.hold = ~object[u].hold] \in ObjectType
          BY <4>1, Zenon DEF ObjectType
        <4> QED
          BY <4>1, <4>2, <4>3, Zenon
      <3>2. CASE EditSpec(u)
        <4>1. PICK m \in Methods :
                 object' = [object EXCEPT ![u].method = m, ![u].content = @ + 1]
          BY <3>2, Zenon DEF EditSpec
        <4>2. object' = [object EXCEPT ![u] = [object[u] EXCEPT !.method = m,
                                                                !.content = @ + 1]]
          BY <4>1, Zenon DEF TypeOK
        <4>3. [object[u] EXCEPT !.method = m, !.content = @ + 1] \in ObjectType
          BY ConstantsAssumption, ObjectFields, Zenon DEF TypeOK
        <4> QED
          BY <4>2, <4>3 DEF TypeOK
      <3>3. CASE Delete(u)
        <4>1. PICK ph \in {"deleting", "gone"} :
                 object' = [object EXCEPT ![u] = [object[u] EXCEPT !.phase = ph]]
          BY <3>3, Zenon DEF Delete
        <4>2. [object[u] EXCEPT !.phase = ph] \in ObjectType
          BY ObjectFields, Zenon DEF TypeOK
        <4> QED
          BY <4>1, <4>2 DEF TypeOK
      <3> QED BY <1>1, <3>1, <3>2, <3>3
    <2>2. spent' \in [failures : Nat, edits : Nat]
      BY <1>1 DEF SetHold, EditSpec, Delete, Counted, Works, TypeOK
    <2>3. Edited(u)
      BY <1>1 DEF SetHold, EditSpec, Delete
    <2> QED
      BY <2>1, <2>2, <2>3 DEF Edited, TypeOK, clusterVars
  <1>2. ASSUME NEW u \in Updates, CollectJobs(u) PROVE TypeOK'
    BY <1>2 DEF CollectJobs, TypeOK, loopVars, NoJob, JobType
  <1>3. ASSUME NEW u \in Updates, NEW n \in Nodes, JobEnds(u, n) PROVE TypeOK'
    <2>1. jobs' \in [JobNames -> JobType]
      <3>1. PICK v \in {"succeeded", "failed"} :
               jobs' = [jobs EXCEPT ![updateJobName(u, n)].state = v]
        BY <1>3, Zenon DEF JobEnds
      <3>2. [jobs[updateJobName(u, n)] EXCEPT !.state = v] \in JobType
        BY updateJobNameType DEF TypeOK, JobType
      <3> QED
        BY <3>1, <3>2, Zenon DEF TypeOK
    <2> QED
      BY <1>3, <2>1 DEF JobEnds, TypeOK, loopVars
  <1>4. ASSUME NEW n \in Nodes, PodStarts(n) \/ PodEnds(n) \/ NodeChanges(n) PROVE TypeOK'
    <2>1. CASE PodStarts(n) \/ PodEnds(n)
      BY <2>1 DEF PodStarts, PodEnds, TypeOK, loopVars
    <2>2. CASE NodeChanges(n)
      <3>1. ready' \in [Nodes -> BOOLEAN]
        BY <2>2, Zenon DEF NodeChanges, TypeOK
      <3>2. spent' \in [failures : Nat, edits : Nat]
        BY <2>2 DEF NodeChanges, Counted, TypeOK
      <3> QED
        BY <2>2, <3>1, <3>2 DEF NodeChanges, TypeOK, loopVars
    <2> QED BY <1>4, <2>1, <2>2
  <1> QED
    BY <1>1, <1>2, <1>3, <1>4 DEF Environment

(* A cluster with updates nobody has reconciled yet is typed. *)
LEMMA TypeInit == Init => TypeOK
  <1> SUFFICES ASSUME Init PROVE TypeOK
    OBVIOUS
  <1>1. object \in [Updates -> ObjectType]
    <2>1. [phase : {"live"}, finalizer : {FALSE}, method : Methods,
           hold : BOOLEAN, content : {0}] \subseteq ObjectType
      <3>1. 0 \in Nat
        OBVIOUS
      <3> QED
        BY <3>1, ConstantsAssumption, Zenon DEF ObjectType
    <2> QED
      BY <2>1, Zenon DEF Init
  <1>2. jobs \in [JobNames -> JobType]
    BY DEF Init, NoJob, JobType
  <1> QED
    BY <1>1, <1>2, NewStatusType, Zenon DEF Init, TypeOK, Steps

(* Every call of a pass, every failure and every move of the cluster keeps *)
(* the types.                                                              *)
LEMMA TypeStep == TypeOK /\ [Next]_vars => TypeOK'
  <1> SUFFICES ASSUME TypeOK, [Next]_vars PROVE TypeOK'
    OBVIOUS
  <1>1. ASSUME NEW u \in Updates, Reconcile(u) PROVE TypeOK'
    BY <1>1, BeginUpdateType, DrainType, UpdateJobsType, CanaryDoneType, UntaintType,
       FinalCleanupType DEF Reconcile
  <1>2. CASE Continue
    BY <1>2, TaintAndDrainType, CreateUpdateJobType, UntaintType, WritesType DEF Continue
  <1>3. CASE UNCHANGED vars
    BY <1>3 DEF vars, clusterVars, loopVars, TypeOK
  <1> QED
    BY <1>1, <1>2, <1>3, FinalCleanupType, WritesType, EnvironmentType DEF Next

(* Every field of the objects, of the cluster and of a pass keeps its      *)
(* type: status.state stays one of the states Reconcile dispatches on.     *)
THEOREM TypeCorrect == Spec => []TypeOK
  BY TypeInit, TypeStep, PTL DEF Spec

-----------------------------------------------------------------------------
(* The inductive invariant.  The first four predicates are about a status  *)
(* s of update u, recorded or about to be recorded.                        *)

(* What the fields of nodeInfos say of each other and of the state. *)
Sound(u, s) ==
    /\ s.completed \subseteq s.all
    /\ s.state = "not_started" => s.all = {}
    /\ s.state \notin {"not_started", "error"} => s.all # {}
    /\ \A j \in s.jobs : j[1] = u
    /\ s.state = "updating" => s.draining = {}
    /\ s.state \in {"not_started", "draining", "canary_done"} => s.updating = {}
    /\ s.state \in {"canary_done", "cleanup", "completed"} => s.completed = s.all
    /\ s.state \in {"cleanup", "completed"} => s.pending = {}

(* The Jobs of u are on nodes of s and flash its content; they run only    *)
(* where s waits for them; and those s waits for are there.                *)
JobMatches(u, s, n) ==
    /\ jobs[updateJobName(u, n)].state # "none"
          => n \in s.all /\ jobs[updateJobName(u, n)].content = s.vetted
    /\ jobs[updateJobName(u, n)].state = "running"
          => \/ s.state \in {"error_cleanup", "error"}
             \/ s.state = "updating" /\ n \in s.all \ s.completed
    /\ s.state = "updating" /\ s.updating # {} /\ n \in s.all \ s.completed
          => \/ jobs[updateJobName(u, n)].state # "none"
             \/ object[u].phase = "gone"

JobsMatch(u, s) == \A n \in Nodes : JobMatches(u, s, n)

(* A node on its way to its Job is tainted, and empty once drained.        *)
Secured(u, s) ==
    /\ OwnTaint(u)
    /\ s.state = "updating" \/ (s.state = "draining" /\ object[u].phase = "live")
    => \A n \in s.all \ s.completed :
          /\ UpdateTaint[u] \in taints[n]
          /\ n \in s.draining \/ pods[n] = "none"

(* The spec is the one the update began with.                              *)
Frozen(u, s) ==
    s.state \in inProgressStates
    => /\ s.vetted = object[u].content
       /\ s.pending # {} => object[u].method = "canary"

(* Writing c over s is a step of the staged rollout, or none.              *)
Staged(u, s, c) ==
    \/ /\ c.state \notin {"completed", "error"}
       /\ c.all = s.all /\ c.pending = s.pending
       /\ s.completed \subseteq c.completed /\ c.completed \subseteq s.all
    \/ /\ c.state \notin {"completed", "error"}
       /\ s.all = {} /\ c.all \cap c.pending = {} /\ c.completed = s.completed
    \/ /\ c.state \notin {"completed", "error"}
       /\ ~object[u].hold /\ s.all # {} /\ s.completed = s.all
       /\ c.all = s.all \cup s.pending /\ c.pending = {} /\ c.completed = s.completed
    \/ /\ c.state = "completed"
       /\ s.all # {} /\ s.completed = s.all /\ s.pending = {}
       /\ c.all = s.all /\ c.pending = s.pending /\ c.completed = s.completed
    \/ /\ c.state = "error" /\ c.completed = s.completed
       /\ \/ c.all = s.all
          \/ s.all = {}
          \/ ~object[u].hold /\ s.completed = s.all /\ c.all = s.all \cup s.pending

(* The loop of taintAndDrainNodes, for the first batch or for the rest.    *)
Tainting ==
    /\ status[cur].state \in {"not_started", "canary_done"}
    /\ copy.state = status[cur].state /\ copy.jobs = status[cur].jobs
    /\ copy.updating = {}
    /\ copy.all # {} /\ status[cur].all \subseteq copy.all
    /\ status[cur].completed = status[cur].all /\ copy.completed = status[cur].completed
    /\ status[cur].state = "not_started"
       => /\ copy.all \cap copy.pending = {}
          /\ \/ stale
             \/ /\ copy.vetted = object[cur].content
                /\ copy.pending # {} => object[cur].method = "canary"
    /\ status[cur].state = "canary_done"
       => /\ copy.vetted = status[cur].vetted /\ copy.pending = {}
          /\ copy.all = status[cur].all \cup status[cur].pending
          /\ stale \/ ~object[cur].hold
    /\ OwnTaint(cur)
       => \A n \in copy.all \ copy.completed :
             \/ n \in todo
             \/ /\ UpdateTaint[cur] \in taints[n]
                /\ n \in at \cup copy.draining \/ pods[n] = "none" \/ lastErr

(* The loop of startUpdateJobs.                                            *)
Creating ==
    /\ copy = status[cur] /\ status[cur].state = "updating"
    /\ todo \subseteq status[cur].all \ status[cur].completed
    /\ \A n \in status[cur].all \ status[cur].completed :
          \/ n \in todo
          \/ jobs[updateJobName(cur, n)].state # "none"
          \/ object[cur].phase = "gone"

(* The loop of untaintNodesAndFinalize.                                    *)
Untainting ==
    /\ copy = status[cur]
    /\ \/ status[cur].state \in {"cleanup", "error_cleanup"}
       \/ /\ status[cur].state \in {"not_started", "draining", "canary_done"}
          /\ object[cur].phase # "live"

(* A status about to be written.                                           *)
Recording ==
    /\ copy.state # "not_started" /\ status[cur].state \notin {"completed", "error"}
    /\ Sound(cur, copy) /\ JobsMatch(cur, copy) /\ Secured(cur, copy)
    /\ stale \/ (Frozen(cur, copy) /\ Staged(cur, status[cur], copy))

Recorded(u) ==
    /\ Sound(u, status[u]) /\ JobsMatch(u, status[u])
    /\ Secured(u, status[u]) /\ Frozen(u, status[u])

FirmwareInv ==
    /\ TypeOK
    /\ \A u \in Updates : Recorded(u)
    /\ pc \in {"taint", "evict"} => Tainting
    /\ pc = "taint" => at = {}
    /\ pc = "create" => Creating
    /\ pc = "untaint" => Untainting
    /\ pc = "record" => Recording

-----------------------------------------------------------------------------
(* What a step leaves of the invariant when it is not a step of a pass on  *)
(* u that creates a Job, untaints or writes.                               *)

CalmNode(u, n) ==
    OwnTaint(u) /\ UpdateTaint[u] \in taints[n]
    => UpdateTaint[u] \in taints'[n] /\ (pods[n] = "none" => pods'[n] = "none")

CalmJob(u, n) ==
    \/ jobs'[updateJobName(u, n)] = jobs[updateJobName(u, n)]
    \/ /\ jobs[updateJobName(u, n)].state = "running"
       /\ jobs'[updateJobName(u, n)].state \in {"succeeded", "failed"}
       /\ jobs'[updateJobName(u, n)].content = jobs[updateJobName(u, n)].content
    \/ /\ jobs'[updateJobName(u, n)].state = "none"
       /\ object'[u].phase = "gone" \/ status[u].state \in {"completed", "error"}

Calm(u) ==
    /\ object[u].phase = "gone" => object'[u].phase = "gone"
    /\ object'[u].phase = "live" => object[u].phase = "live"
    /\ status[u].state \in inProgressStates
       => object'[u].content = object[u].content /\ object'[u].method = object[u].method
    /\ \A n \in Nodes : CalmNode(u, n) /\ CalmJob(u, n)

(* A calm step keeps what the invariant says of a status it leaves alone. *)
LEMMA CalmRecorded ==
  ASSUME TypeOK, NEW u \in Updates, Recorded(u), Calm(u), status'[u] = status[u]
  PROVE  Recorded(u)'
  <1>1. Sound(u, status[u])'
    BY DEF Recorded, Sound
  <1>2. JobsMatch(u, status[u])'
    <2> SUFFICES ASSUME NEW n \in Nodes PROVE JobMatches(u, status[u], n)'
      BY DEF JobsMatch
    <2>1. JobMatches(u, status[u], n) /\ CalmJob(u, n)
      BY DEF Recorded, JobsMatch, Calm
    <2> QED
      BY <2>1 DEF JobMatches, CalmJob, Calm
  <1>3. Secured(u, status[u])'
    <2>1. status[u].all \subseteq Nodes
      BY DEF TypeOK, StatusType
    <2> QED
      BY <2>1 DEF Recorded, Secured, Calm, CalmNode, OwnTaint
  <1>4. Frozen(u, status[u])'
    BY DEF Recorded, Frozen, Calm
  <1> QED
    BY <1>1, <1>2, <1>3, <1>4 DEF Recorded

(* Steps of a pass that touch nothing outside it are calm. *)
LEMMA PassCalm ==
  ASSUME UNCHANGED <<clusterVars, object>>
  PROVE  \A u \in Updates : Calm(u)
  BY DEF Calm, CalmNode, CalmJob, clusterVars

(* A calm step beside a pass keeps what the invariant says of the pass. *)
LEMMA CalmPass ==
  ASSUME FirmwareInv, Calm(cur), UNCHANGED <<status, pc, cur, copy, todo, at, lastErr>>,
         stale => stale',
         \/ stale' \/ pc = "idle"
         \/ /\ object'[cur].content = object[cur].content
            /\ object'[cur].method = object[cur].method
            /\ object'[cur].hold = object[cur].hold
  PROVE  /\ (pc \in {"taint", "evict"} => Tainting)'
         /\ (pc = "taint" => at = {})'
         /\ (pc = "create" => Creating)'
         /\ (pc = "untaint" => Untainting)'
         /\ (pc = "record" => Recording)'
  <1>1. (pc \in {"taint", "evict"} => Tainting)'
    <2> SUFFICES ASSUME pc \in {"taint", "evict"} PROVE Tainting'
      OBVIOUS
    <2>0. Tainting
      BY DEF FirmwareInv
    <2>1. (OwnTaint(cur)
           => \A n \in copy.all \ copy.completed :
                 \/ n \in todo
                 \/ /\ UpdateTaint[cur] \in taints[n]
                    /\ n \in at \cup copy.draining \/ pods[n] = "none" \/ lastErr)'
      <3>1. OwnTaint(cur)' => OwnTaint(cur)
        BY DEF OwnTaint
      <3>2. copy.all \subseteq Nodes
        BY DEF FirmwareInv, TypeOK, StatusType
      <3>3. ASSUME NEW n \in copy.all, OwnTaint(cur) PROVE CalmNode(cur, n)
        BY <3>2 DEF Calm
      <3> QED
        BY <2>0, <3>1, <3>3 DEF Tainting, CalmNode
    <2>2. (status[cur].state = "not_started"
           => /\ copy.all \cap copy.pending = {}
              /\ \/ stale
                 \/ /\ copy.vetted = object[cur].content
                    /\ copy.pending # {} => object[cur].method = "canary")'
      BY <2>0 DEF Tainting
    <2>3. (status[cur].state = "canary_done"
           => /\ copy.vetted = status[cur].vetted /\ copy.pending = {}
              /\ copy.all = status[cur].all \cup status[cur].pending
              /\ stale \/ ~object[cur].hold)'
      BY <2>0 DEF Tainting
    <2> QED
      BY <2>0, <2>1, <2>2, <2>3 DEF Tainting
  <1>2. (pc = "taint" => at = {})'
    BY DEF FirmwareInv
  <1>3. (pc = "create" => Creating)'
    <2> SUFFICES ASSUME pc = "create", Creating PROVE Creating'
      BY DEF FirmwareInv
    <2>1. ASSUME NEW n \in status[cur].all \ status[cur].completed
          PROVE  (\/ n \in todo
                  \/ jobs[updateJobName(cur, n)].state # "none"
                  \/ object[cur].phase = "gone")'
      <3>1. n \in Nodes
        BY DEF FirmwareInv, TypeOK, StatusType
      <3> QED
        BY <3>1 DEF Creating, Calm, CalmJob
    <2> QED
      BY <2>1 DEF Creating
  <1>4. (pc = "untaint" => Untainting)'
    BY DEF FirmwareInv, Untainting, Calm
  <1>5. ASSUME pc = "record" PROVE Recording'
    <2>0. Recording
      BY <1>5 DEF FirmwareInv
    <2>1. Sound(cur, copy)'
      BY <2>0 DEF Recording, Sound
    <2>2. JobsMatch(cur, copy)'
      <3> SUFFICES ASSUME NEW n \in Nodes PROVE JobMatches(cur, copy, n)'
        BY DEF JobsMatch
      <3>1. JobMatches(cur, copy, n) /\ CalmJob(cur, n)
        BY <2>0 DEF Recording, JobsMatch, Calm
      <3> QED
        BY <2>0, <3>1, Zenon DEF Recording, JobMatches, CalmJob, Calm
    <2>3. Secured(cur, copy)'
      <3>1. copy.all \subseteq Nodes
        BY DEF FirmwareInv, TypeOK, StatusType
      <3> QED
        BY <2>0, <3>1 DEF Recording, Secured, Calm, CalmNode, OwnTaint
    <2>4. (stale \/ (Frozen(cur, copy) /\ Staged(cur, status[cur], copy)))'
      BY <1>5, <2>0 DEF Recording, Frozen, Staged
    <2> QED
      BY <2>0, <2>1, <2>2, <2>3, <2>4 DEF Recording
  <1> QED
    BY <1>1, <1>2, <1>3, <1>4, <1>5

(* So it keeps the invariant, whether the pass stands still ... *)
LEMMA CalmInv ==
  ASSUME FirmwareInv, TypeOK', \A u \in Updates : Calm(u),
         UNCHANGED <<status, pc, cur, copy, todo, at, lastErr>>,
         stale => stale',
         \/ stale' \/ pc = "idle"
         \/ /\ object'[cur].content = object[cur].content
            /\ object'[cur].method = object[cur].method
            /\ object'[cur].hold = object[cur].hold
  PROVE  FirmwareInv'
  <1>1. \A u \in Updates : Recorded(u)'
    BY CalmRecorded DEF FirmwareInv
  <1>2. cur \in Updates
    BY DEF FirmwareInv, TypeOK
  <1> QED
    BY <1>1, <1>2, CalmPass, Zenon DEF FirmwareInv

(* ... or is over but for writes that do not concern the status. *)
LEMMA CalmEnd ==
  ASSUME FirmwareInv, TypeOK', \A u \in Updates : Calm(u), UNCHANGED status,
         pc' \in {"idle", "finalizer", "release"}
  PROVE  FirmwareInv'
  <1>1. \A u \in Updates : Recorded(u)'
    BY CalmRecorded DEF FirmwareInv
  <1> QED
    BY <1>1 DEF FirmwareInv

(* Job names of different updates differ. *)
LEMMA JobNamesDiffer ==
  ASSUME NEW u, NEW n, NEW v, NEW m
  PROVE  /\ updateJobName(u, n) = updateJobName(v, m) <=> (u = v /\ n = m)
         /\ updateJobName(u, n)[1] = u
  BY DEF updateJobName

(* An admin's edit makes a pass on the same object stale. *)
LEMMA EditsKeep ==
  ASSUME FirmwareInv, TypeOK', NEW v \in Updates, SetHold(v) \/ EditSpec(v) \/ Delete(v)
  PROVE  FirmwareInv'
  <1>1. Edited(v) /\ \A u \in Updates : u # v => object'[u] = object[u]
    BY Zenon DEF SetHold, EditSpec, Delete, FirmwareInv, TypeOK
  <1>2. /\ object[v].phase = "gone" => object'[v].phase = "gone"
        /\ object'[v].phase = "live" => object[v].phase = "live"
        /\ status[v].state \in inProgressStates
           => object'[v].content = object[v].content /\ object'[v].method = object[v].method
    <2>0. object \in [Updates -> ObjectType] /\ object[v] \in ObjectType
      BY DEF FirmwareInv, TypeOK
    <2>1. CASE SetHold(v)
      BY <2>0, <2>1 DEF SetHold, ObjectType
    <2>2. CASE EditSpec(v)
      <3>1. PICK m \in Methods :
               object' = [object EXCEPT ![v].method = m, ![v].content = @ + 1]
        BY <2>2, Zenon DEF EditSpec
      <3>2. object'[v] = [object[v] EXCEPT !.method = m, !.content = @ + 1]
        BY <2>0, <3>1, Zenon
      <3>3. object'[v].phase = object[v].phase
        BY <2>0, <3>2 DEF ObjectType
      <3> QED
        BY <2>2, <3>3 DEF EditSpec
    <2>3. CASE Delete(v)
      BY <2>0, <2>3 DEF Delete, ObjectType
    <2> QED BY <2>1, <2>2, <2>3
  <1>3. \A u \in Updates : Calm(u)
    BY <1>1, <1>2 DEF Calm, CalmNode, CalmJob, Edited, clusterVars
  <1>4. /\ UNCHANGED <<status, pc, cur, copy, todo, at, lastErr>>
        /\ stale => stale'
        /\ \/ stale' \/ pc = "idle"
           \/ object'[cur] = object[cur]
    BY <1>1, Zenon DEF Edited, FirmwareInv, TypeOK
  <1> QED
    BY <1>3, <1>4, CalmInv

(* Jobs end, and are collected when their owner is gone. *)
LEMMA JobsEndKeep ==
  ASSUME FirmwareInv, TypeOK',
         \/ \E v \in Updates : CollectJobs(v)
         \/ \E v \in Updates, m \in Nodes : JobEnds(v, m)
  PROVE  FirmwareInv'
  <1>0. jobs \in [JobNames -> JobType]
    BY DEF FirmwareInv, TypeOK
  <1>1. UNCHANGED <<taints, ready, pods, object, status, pc, cur, copy, loopVars, spent>>
    BY DEF CollectJobs, JobEnds
  <1>2. \A u \in Updates, n \in Nodes : CalmJob(u, n)
    <2> SUFFICES ASSUME NEW u \in Updates, NEW n \in Nodes PROVE CalmJob(u, n)
      OBVIOUS
    <2>1. ASSUME NEW v \in Updates, CollectJobs(v) PROVE CalmJob(u, n)
      <3>1. jobs'[updateJobName(u, n)] =
              IF u = v THEN NoJob ELSE jobs[updateJobName(u, n)]
        BY <2>1, JobNamesDiffer, updateJobNameType DEF CollectJobs
      <3>2. object'[v].phase = "gone"
        BY <2>1 DEF CollectJobs
      <3>3. CASE u = v
        <4>1. jobs'[updateJobName(u, n)].state = "none"
          BY <3>1, <3>3 DEF NoJob
        <4>2. object'[u].phase = "gone"
          BY <3>2, <3>3
        <4> QED
          BY <4>1, <4>2 DEF CalmJob
      <3>4. CASE u # v
        BY <3>1, <3>4 DEF CalmJob
      <3> QED
        BY <3>3, <3>4
    <2>2. ASSUME NEW v \in Updates, NEW m \in Nodes, JobEnds(v, m) PROVE CalmJob(u, n)
      <3>1. PICK w \in {"succeeded", "failed"} :
               jobs' = [jobs EXCEPT ![updateJobName(v, m)].state = w]
        BY <2>2, Zenon DEF JobEnds
      <3>2. CASE updateJobName(u, n) = updateJobName(v, m)
        <4>1. jobs'[updateJobName(u, n)] = [jobs[updateJobName(u, n)] EXCEPT !.state = w]
          BY <1>0, <3>1, <3>2, updateJobNameType, Zenon
        <4>2. jobs[updateJobName(u, n)] \in JobType
          BY <1>0, updateJobNameType
        <4>3. jobs[updateJobName(u, n)].state = "running"
          BY <2>2, <3>2 DEF JobEnds
        <4> QED
          BY <4>1, <4>2, <4>3 DEF CalmJob, JobType
      <3>3. CASE updateJobName(u, n) # updateJobName(v, m)
        BY <1>0, <3>1, <3>3, updateJobNameType, Zenon DEF CalmJob
      <3> QED BY <3>2, <3>3
    <2> QED
      BY <2>1, <2>2
  <1>3. \A u \in Updates : Calm(u)
    BY <1>1, <1>2 DEF Calm, CalmNode
  <1> QED
    BY <1>1, <1>3, CalmInv DEF loopVars

(* The scheduler respects taints; pods end; nodes lose readiness. *)
LEMMA NodesKeep ==
  ASSUME FirmwareInv, TypeOK', NEW m \in Nodes, PodStarts(m) \/ PodEnds(m) \/ NodeChanges(m)
  PROVE  FirmwareInv'
  <1>1. UNCHANGED <<taints, jobs, object, status, pc, cur, copy, loopVars>>
    BY DEF PodStarts, PodEnds, NodeChanges
  <1>2. \A n \in Nodes : taints[n] # {} /\ pods[n] = "none" => pods'[n] = "none"
    BY DEF PodStarts, PodEnds, NodeChanges, FirmwareInv, TypeOK
  <1>3. \A u \in Updates : Calm(u)
    BY <1>1, <1>2, Zenon DEF Calm, CalmNode, CalmJob
  <1> QED
    BY <1>1, <1>3, CalmInv DEF loopVars

(* Status().Update: the copy is as sound as the status it replaces. *)
LEMMA PersistStatusKeeps ==
  ASSUME FirmwareInv, TypeOK', PersistStatus PROVE FirmwareInv'
  <1>1. /\ status' = [status EXCEPT ![cur] = copy] /\ UNCHANGED <<clusterVars, object>>
        /\ Recording /\ ~stale
    BY DEF PersistStatus, FirmwareInv
  <1>2. pc' \in {"idle", "finalizer"}
    BY Zenon DEF PersistStatus, EndPass
  <1>3. ASSUME NEW u \in Updates PROVE Recorded(u)'
    <2>1. CASE u = cur
      <3>1. status'[u] = copy
        BY <1>1, <2>1 DEF FirmwareInv, TypeOK
      <3>2. Sound(u, copy) /\ JobsMatch(u, copy) /\ Secured(u, copy) /\ Frozen(u, copy)
        BY <1>1, <2>1 DEF Recording
      <3>3. Sound(u, status[u])'
        BY <3>1, <3>2 DEF Sound
      <3>4. JobsMatch(u, status[u])'
        BY <1>1, <3>1, <3>2 DEF JobsMatch, JobMatches, clusterVars
      <3>5. Secured(u, status[u])'
        BY <1>1, <3>1, <3>2 DEF Secured, clusterVars
      <3>6. Frozen(u, status[u])'
        BY <1>1, <3>1, <3>2 DEF Frozen
      <3> QED
        BY <3>3, <3>4, <3>5, <3>6 DEF Recorded
    <2>2. CASE u # cur
      <3>1. status'[u] = status[u]
        BY <1>1, <2>2 DEF FirmwareInv, TypeOK
      <3> QED
        BY <1>1, <3>1, PassCalm, CalmRecorded DEF FirmwareInv
    <2> QED BY <2>1, <2>2
  <1> QED
    BY <1>2, <1>3 DEF FirmwareInv

(* The other writes, refused ones, and the end of the process. *)
LEMMA WritesKeep ==
  ASSUME FirmwareInv, TypeOK', AddFinalizer \/ RemoveFinalizer \/ WriteFails \/ Crash
  PROVE  FirmwareInv'
  <1>1. pc' = "idle" /\ UNCHANGED <<clusterVars, status>>
    BY DEF AddFinalizer, RemoveFinalizer, WriteFails, Crash, EndPass
  <1>2. ASSUME NEW u \in Updates
        PROVE  /\ object'[u].content = object[u].content
               /\ object'[u].method = object[u].method
               /\ object[u].phase = "gone" => object'[u].phase = "gone"
               /\ object'[u].phase = "live" => object[u].phase = "live"
    <2>0. object \in [Updates -> ObjectType]
      BY DEF FirmwareInv, TypeOK
    <2>1. CASE UNCHANGED object
      BY <2>1
    <2>2. CASE AddFinalizer
      BY <2>0, <2>2 DEF AddFinalizer, ObjectType
    <2>3. CASE RemoveFinalizer
      BY <2>0, <2>3 DEF RemoveFinalizer, ObjectType
    <2> QED
      BY <2>1, <2>2, <2>3 DEF WriteFails, Crash
  <1>3. \A u \in Updates : Calm(u)
    BY <1>1, <1>2 DEF Calm, CalmNode, CalmJob, clusterVars
  <1> QED
    BY <1>1, <1>3, CalmEnd

(* finalCleanup deletes Jobs of an update with a verdict only. *)
LEMMA FinalCleanupKeeps ==
  ASSUME FirmwareInv, TypeOK', NEW v \in Updates, FinalCleanup(v) \/ FinalCleanupFails(v)
  PROVE  FirmwareInv'
  <1>1. UNCHANGED <<taints, ready, pods, object, status>>
    BY DEF FinalCleanup, FinalCleanupFails
  <1>2. PICK gone \in SUBSET status[v].jobs :
           jobs' = [j \in JobNames |-> IF j \in gone THEN NoJob ELSE jobs[j]]
    BY DEF FinalCleanup, FinalCleanupFails
  <1>3. /\ status[v].state \in {"completed", "error"}
        /\ \A j \in status[v].jobs : j[1] = v
    BY DEF FinalCleanup, FinalCleanupFails, FirmwareInv, Recorded, Sound
  <1>4. ASSUME NEW u \in Updates, NEW n \in Nodes PROVE CalmJob(u, n)
    <2>1. jobs'[updateJobName(u, n)] =
            IF updateJobName(u, n) \in gone THEN NoJob ELSE jobs[updateJobName(u, n)]
      BY <1>2, updateJobNameType
    <2>2. updateJobName(u, n) \in gone => u = v
      BY <1>2, <1>3, JobNamesDiffer
    <2>3. NoJob.state = "none"
      BY DEF NoJob
    <2>4. CASE updateJobName(u, n) \in gone
      BY <1>3, <2>1, <2>2, <2>3, <2>4 DEF CalmJob
    <2>5. CASE updateJobName(u, n) \notin gone
      BY <2>1, <2>5 DEF CalmJob
    <2> QED
      BY <2>4, <2>5
  <1>5. \A u \in Updates : Calm(u)
    BY <1>1, <1>4 DEF Calm, CalmNode
  <1>6. CASE FinalCleanup(v)
    BY <1>1, <1>5, <1>6, CalmEnd DEF FinalCleanup
  <1>7. CASE FinalCleanupFails(v)
    BY <1>1, <1>5, <1>7, CalmInv, Zenon DEF FinalCleanupFails, loopVars
  <1> QED BY <1>6, <1>7

(* A calm step of a pass keeps the invariant if it keeps what its place in *)
(* the pass calls for.                                                     *)
LEMMA PassStep ==
  ASSUME FirmwareInv, TypeOK', \A u \in Updates : Calm(u), UNCHANGED status,
         \/ pc' \in {"taint", "evict"} /\ Tainting' /\ (pc' = "taint" => at' = {})
         \/ pc' = "create" /\ Creating'
         \/ pc' = "untaint" /\ Untainting'
         \/ pc' = "record" /\ Recording'
  PROVE  FirmwareInv'
  <1>1. \A u \in Updates : Recorded(u)'
    BY CalmRecorded DEF FirmwareInv
  <1> QED
    BY <1>1 DEF FirmwareInv

(* Any status may be given the verdict error. *)
LEMMA ErrorRecording ==
  ASSUME NEW u \in Updates, Recorded(u), cur' = u, UNCHANGED <<jobs, object, status>>,
         status[u].state \notin {"completed", "error"},
         copy'.state = "error" /\ copy'.jobs = status[u].jobs,
         copy'.completed = status[u].completed /\ status[u].all \subseteq copy'.all,
         copy'.vetted = status[u].vetted \/ status[u].all = {},
         (stale \/ Staged(u, status[u], copy))'
  PROVE  Recording'
  <1>1. Sound(u, copy)'
    BY DEF Recorded, Sound
  <1>2. JobsMatch(u, copy)'
    BY Zenon DEF Recorded, JobsMatch, JobMatches
  <1>3. (Secured(u, copy) /\ Frozen(u, copy))'
    BY DEF Secured, Frozen, inProgressStates
  <1> QED
    BY <1>1, <1>2, <1>3 DEF Recording

(* beginUpdate gives up before it has touched a node. *)
LEMMA BeginUpdateFailsKeeps ==
  ASSUME FirmwareInv, TypeOK', NEW u \in Updates, BeginUpdateFails(u) PROVE FirmwareInv'
  <1>1. /\ cur' = u /\ pc' = "record" /\ copy' = [status[u] EXCEPT !.state = "error"]
        /\ UNCHANGED <<clusterVars, object, status>> /\ status[u].state = "not_started"
    BY DEF BeginUpdateFails, Proceeds, Get, Record
  <1>2. status[u] \in StatusType /\ Recorded(u)
    BY DEF FirmwareInv, TypeOK
  <1>3. /\ copy'.state = "error" /\ copy'.all = status[u].all
        /\ copy'.completed = status[u].completed /\ copy'.jobs = status[u].jobs
        /\ copy'.vetted = status[u].vetted
    BY <1>1, <1>2 DEF StatusType
  <1>4. Staged(u, status[u], copy)'
    BY <1>1, <1>3 DEF Staged
  <1>5. Recording'
    BY <1>1, <1>2, <1>3, <1>4, ErrorRecording DEF clusterVars
  <1> QED
    BY <1>1, <1>5, PassCalm, PassStep

(* beginUpdate selects the first batch. *)
LEMMA BeginUpdateKeeps ==
  ASSUME FirmwareInv, TypeOK', NEW u \in Updates, BeginUpdate(u) PROVE FirmwareInv'
  <1>1. /\ cur' = u /\ pc' = "taint" /\ at' = {} /\ status[u].state = "not_started"
        /\ UNCHANGED <<clusterVars, object, status>>
    BY DEF BeginUpdate, Proceeds, Get
  <1>2. PICK b \in Batches(u) :
           /\ todo' = b
           /\ copy' = [status[u] EXCEPT !.all = b, !.pending = Candidates(u) \ b,
                                        !.draining = {}, !.vetted = object[u].content]
    BY Zenon DEF BeginUpdate
  <1>3. status[u] \in StatusType /\ Sound(u, status[u])
    BY DEF FirmwareInv, TypeOK, Recorded
  <1>4. /\ copy'.state = "not_started" /\ copy'.all = b /\ copy'.pending = Candidates(u) \ b
        /\ copy'.vetted = object[u].content /\ copy'.jobs = status[u].jobs
        /\ copy'.completed = status[u].completed /\ copy'.updating = status[u].updating
    BY <1>1, <1>2, <1>3 DEF StatusType
  <1>5. b # {} /\ (object[u].method # "canary" => b = Candidates(u))
    BY BatchType
  <1>6. status[u].all = {} /\ status[u].completed = {} /\ status[u].updating = {}
    BY <1>1, <1>3 DEF Sound
  <1>7. Tainting'
    BY <1>1, <1>2, <1>4, <1>5, <1>6 DEF Tainting
  <1> QED
    BY <1>1, <1>7, PassCalm, PassStep

(* startUpdateJobs up to its loop. *)
LEMMA StartUpdateJobsKeeps ==
  ASSUME FirmwareInv, TypeOK', NEW u \in Updates, StartUpdateJobs(u) PROVE FirmwareInv'
  <1>1. /\ cur' = u /\ status[u].state = "updating" /\ copy' = status[u]
        /\ todo' = status[u].all \ status[u].completed
        /\ pc' = IF todo' = {} THEN "record" ELSE "create"
        /\ UNCHANGED <<clusterVars, object, status>>
    BY DEF StartUpdateJobs, Proceeds, Get
  <1>2. Recorded(u)
    BY DEF FirmwareInv
  <1>3. Recorded(u)'
    BY <1>1, <1>2, PassCalm, CalmRecorded DEF FirmwareInv
  <1>4. Creating'
    BY <1>1 DEF Creating
  <1>5. Staged(u, status[u], copy)'
    BY <1>1, <1>2, Zenon DEF Staged, Recorded, Sound
  <1>6. Recording'
    BY <1>1, <1>3, <1>5, Zenon DEF Recording, Recorded
  <1> QED
    BY <1>1, <1>4, <1>6, PassCalm, PassStep

(* untaintNodesAndFinalize up to its loop. *)
LEMMA UntaintNodesKeeps ==
  ASSUME FirmwareInv, TypeOK', NEW u \in Updates, UntaintNodesAndFinalize(u)
  PROVE  FirmwareInv'
  <1>1. /\ cur' = u /\ UNCHANGED <<clusterVars, object, status>>
        /\ \/ status[u].state \in {"cleanup", "error_cleanup"}
           \/ /\ status[u].state \in {"not_started", "draining", "canary_done"}
              /\ object[u].phase # "live"
    BY Zenon DEF UntaintNodesAndFinalize, Get, DeletedEarly
  <1>2. CASE status[u].all # {}
    <2>1. pc' = "untaint" /\ copy' = status[u]
      BY <1>2, Zenon DEF UntaintNodesAndFinalize
    <2>2. Untainting'
      BY <1>1, <2>1 DEF Untainting
    <2> QED
      BY <1>1, <2>1, <2>2, PassCalm, PassStep
  <1>3. CASE status[u].all = {}
    <2>1. pc' = "record" /\ copy' = AfterUntainting(status[u], FALSE)
      BY <1>3 DEF UntaintNodesAndFinalize, Record
    <2>2. status[u] \in StatusType /\ Recorded(u)
      BY DEF FirmwareInv, TypeOK
    <2>3. /\ copy'.all = status[u].all /\ copy'.completed = status[u].completed
          /\ copy'.jobs = status[u].jobs /\ copy'.vetted = status[u].vetted
          /\ copy'.state = "error"
      BY <1>1, <1>3, <2>1, <2>2 DEF StatusType, AfterUntainting, Recorded, Sound
    <2>4. Staged(u, status[u], copy)'
      BY <1>1, <2>3 DEF Staged
    <2>5. Recording'
      BY <1>1, <2>2, <2>3, <2>4, ErrorRecording, Zenon DEF clusterVars
    <2> QED
      BY <1>1, <2>1, <2>5, PassCalm, PassStep
  <1> QED BY <1>2, <1>3

(* handleCanaryDone: nothing is left, or the rest is promoted. *)
LEMMA HandleCanaryDoneKeeps ==
  ASSUME FirmwareInv, TypeOK', NEW u \in Updates, HandleCanaryDone(u) PROVE FirmwareInv'
  <1>1. /\ cur' = u /\ UNCHANGED <<clusterVars, object, status>> /\ at' = {}
        /\ status[u].state = "canary_done" /\ ~object[u].hold
    BY DEF HandleCanaryDone, Proceeds, Get
  <1>2. status[u] \in StatusType /\ Recorded(u)
    BY DEF FirmwareInv, TypeOK
  <1>3. CASE status[u].pending = {}
    <2>1. pc' = "record" /\ copy' = [status[u] EXCEPT !.state = "cleanup"]
      BY <1>3 DEF HandleCanaryDone, Record
    <2>2. /\ copy'.state = "cleanup" /\ copy'.all = status[u].all
          /\ copy'.pending = status[u].pending /\ copy'.completed = status[u].completed
          /\ copy'.jobs = status[u].jobs /\ copy'.vetted = status[u].vetted
      BY <1>2, <2>1 DEF StatusType
    <2>3. Sound(u, copy)'
      BY <1>1, <1>2, <1>3, <2>2, Zenon DEF Recorded, Sound
    <2>4. JobsMatch(u, copy)'
      BY <1>1, <1>2, <2>2, Zenon DEF Recorded, JobsMatch, JobMatches, clusterVars
    <2>5. (Secured(u, copy) /\ Frozen(u, copy) /\ Staged(u, status[u], copy))'
      BY <1>1, <1>2, <2>2, Zenon DEF Secured, Frozen, Staged, Recorded, Sound, inProgressStates
    <2>6. Recording'
      BY <1>1, <2>2, <2>3, <2>4, <2>5, Zenon DEF Recording
    <2> QED
      BY <1>1, <2>1, <2>6, PassCalm, PassStep
  <1>4. CASE status[u].pending # {}
    <2>1. /\ pc' = "taint" /\ todo' = status[u].pending
          /\ copy' = [status[u] EXCEPT !.pending = {}, !.all = @ \cup status[u].pending,
                                       !.draining = {}]
      BY <1>4 DEF HandleCanaryDone
    <2>2. /\ copy'.state = "canary_done" /\ copy'.all = status[u].all \cup status[u].pending
          /\ copy'.pending = {} /\ copy'.completed = status[u].completed
          /\ copy'.jobs = status[u].jobs /\ copy'.vetted = status[u].vetted
          /\ copy'.updating = status[u].updating
      BY <1>1, <1>2, <2>1 DEF StatusType
    <2>3. status[u].completed = status[u].all /\ status[u].updating = {}
      BY <1>1, <1>2 DEF Recorded, Sound
    <2>4. Tainting'
      BY <1>1, <1>4, <2>1, <2>2, <2>3 DEF Tainting
    <2> QED
      BY <1>1, <2>1, <2>4, PassCalm, PassStep
  <1> QED BY <1>3, <1>4

(* continueUpdateJobs: every Job has ended. *)
LEMMA ContinueUpdateJobsKeeps ==
  ASSUME FirmwareInv, TypeOK', NEW u \in Updates, ContinueUpdateJobs(u) PROVE FirmwareInv'
  <1>1. /\ cur' = u /\ UNCHANGED <<clusterVars, object, status>>
        /\ status[u].state = "updating" /\ status[u].updating # {}
        /\ object[u].phase # "gone"
        /\ JobsIn(u, "running") \ status[u].completed = {}
    BY DEF ContinueUpdateJobs, Proceeds, Get
  <1>2. status[u] \in StatusType /\ Recorded(u)
    BY DEF FirmwareInv, TypeOK
  <1> DEFINE succeeded == JobsIn(u, "succeeded") \ status[u].completed
  <1>3. PICK unread \in SUBSET succeeded :
           LET failed == (JobsIn(u, "failed") \ status[u].completed) \cup unread
           IN  Record([status[u] EXCEPT
                          !.error = failed,
                          !.updating = {},
                          !.completed = @ \cup (succeeded \ unread),
                          !.state = AfterJobs(u, failed)])
    BY Zenon DEF ContinueUpdateJobs
  <1> DEFINE failed == (JobsIn(u, "failed") \ status[u].completed) \cup unread
  <1>4. /\ pc' = "record"
        /\ copy'.state = AfterJobs(u, failed) /\ copy'.all = status[u].all
        /\ copy'.pending = status[u].pending
        /\ copy'.completed = status[u].completed \cup (succeeded \ unread)
        /\ copy'.jobs = status[u].jobs /\ copy'.vetted = status[u].vetted
        /\ copy'.updating = {}
    <2> HIDE DEF succeeded, failed
    <2> QED BY <1>2, <1>3 DEF Record, StatusType, failed
  <1>5. /\ failed # {} => copy'.state = "error_cleanup"
        /\ failed = {} => \/ copy'.state = "canary_done"
                          \/ copy'.state = "cleanup" /\ copy'.pending = {}
    <2>1. status[u].pending # {} => object[u].method = "canary"
      BY <1>1, <1>2, Zenon DEF Recorded, Frozen, inProgressStates
    <2> HIDE DEF failed
    <2> QED BY <1>4, <2>1 DEF AfterJobs
  <1>6. succeeded \subseteq status[u].all
    BY <1>2 DEF Recorded, JobsMatch, JobMatches, JobsIn
  <1>7. ASSUME failed = {} PROVE copy'.completed = status[u].all
    <2>1. ASSUME NEW n \in status[u].all \ status[u].completed PROVE n \in succeeded \ unread
      <3>1. n \in Nodes /\ jobs[updateJobName(u, n)] \in JobType
        BY <1>2, updateJobNameType DEF StatusType, FirmwareInv, TypeOK
      <3>2. jobs[updateJobName(u, n)].state # "none"
        BY <1>1, <1>2, <3>1, Zenon DEF Recorded, JobsMatch, JobMatches
      <3>3. jobs[updateJobName(u, n)].state \notin {"running", "failed"}
        BY <1>1, <1>7, <3>1, Zenon DEF JobsIn
      <3> QED
        BY <1>7, <3>1, <3>2, <3>3 DEF JobsIn, JobType
    <2>2. status[u].completed \subseteq status[u].all
      BY <1>2, Zenon DEF Recorded, Sound
    <2> QED
      BY <1>4, <1>6, <2>1, <2>2
  <1>8. Sound(u, copy)'
    BY <1>1, <1>2, <1>4, <1>5, <1>6, <1>7, Zenon DEF Recorded, Sound
  <1>9. JobsMatch(u, copy)'
    <2> SUFFICES ASSUME NEW n \in Nodes PROVE JobMatches(u, copy, n)'
      BY Zenon DEF JobsMatch
    <2>1. JobMatches(u, status[u], n)
      BY <1>2, Zenon DEF Recorded, JobsMatch
    <2>2. jobs[updateJobName(u, n)].state # "running"
      BY <1>1, <2>1, Zenon DEF JobMatches, JobsIn
    <2> QED
      BY <1>1, <1>4, <1>5, <2>1, <2>2, Zenon DEF JobMatches, clusterVars
  <1>10. (Secured(u, copy) /\ Frozen(u, copy))'
    BY <1>1, <1>2, <1>4, <1>5, Zenon DEF Secured, Frozen, Recorded, inProgressStates
  <1>11. Staged(u, status[u], copy)'
    BY <1>1, <1>2, <1>4, <1>5, <1>6, Zenon DEF Staged, Recorded, Sound
  <1>12. Recording'
    BY <1>1, <1>5, <1>8, <1>9, <1>10, <1>11, Zenon DEF Recording
  <1> QED
    BY <1>1, <1>4, <1>12, PassCalm, PassStep

(* checkForNodeDrainStatus: a node is empty before it leaves the list. *)
LEMMA CheckForNodeDrainStatusKeeps ==
  ASSUME FirmwareInv, TypeOK', NEW u \in Updates, CheckForNodeDrainStatus(u)
  PROVE  FirmwareInv'
  <1>1. /\ cur' = u /\ UNCHANGED <<taints, ready, jobs, object, status>>
        /\ status[u].state = "draining" /\ object[u].phase = "live"
    BY DEF CheckForNodeDrainStatus, Proceeds, Get, DeletedEarly, FirmwareInv, TypeOK, ObjectType
  <1>2. status[u] \in StatusType /\ Recorded(u)
    BY DEF FirmwareInv, TypeOK
  <1> DEFINE remaining == {n \in status[u].draining : pods[n] # "none"}
  <1>3. PICK evicted \in SUBSET {n \in remaining : pods[n] = "running"} :
           /\ pods' = [n \in Nodes |-> IF n \in evicted THEN "terminating" ELSE pods[n]]
           /\ \/ Record([status[u] EXCEPT
                            !.draining = remaining,
                            !.state = IF remaining = {} THEN "updating" ELSE @])
              \/ Record([status[u] EXCEPT !.state = "error"])
    BY Zenon DEF CheckForNodeDrainStatus
  <1>4. \A n \in Nodes : pods[n] = "none" => pods'[n] = "none"
    BY <1>3
  <1>5. \A v \in Updates : Calm(v)
    BY <1>1, <1>4, Zenon DEF Calm, CalmNode, CalmJob
  <1>6. CASE Record([status[u] EXCEPT !.state = "error"])
    <2>1. /\ copy'.state = "error" /\ copy'.all = status[u].all /\ pc' = "record"
          /\ copy'.completed = status[u].completed /\ copy'.jobs = status[u].jobs
          /\ copy'.vetted = status[u].vetted
      BY <1>2, <1>6 DEF StatusType, Record
    <2>2. Staged(u, status[u], copy)'
      BY <1>1, <2>1 DEF Staged
    <2>3. Recording'
      BY <1>1, <1>2, <2>1, <2>2, ErrorRecording, Zenon
    <2> QED
      BY <1>1, <1>5, <2>1, <2>3, PassStep
  <1>7. CASE Record([status[u] EXCEPT
                        !.draining = remaining,
                        !.state = IF remaining = {} THEN "updating" ELSE @])
    <2>1. /\ copy'.state = IF remaining = {} THEN "updating" ELSE "draining"
          /\ copy'.draining = remaining /\ pc' = "record" /\ copy'.all = status[u].all
          /\ copy'.pending = status[u].pending /\ copy'.completed = status[u].completed
          /\ copy'.updating = status[u].updating
          /\ copy'.jobs = status[u].jobs /\ copy'.vetted = status[u].vetted
      <3> HIDE DEF remaining
      <3> QED BY <1>1, <1>2, <1>7 DEF StatusType, Record
    <2>2. Secured(u, copy)'
      <3> SUFFICES ASSUME OwnTaint(u), NEW n \in status[u].all \ status[u].completed
                   PROVE  UpdateTaint[u] \in taints[n] /\ (n \in remaining \/ pods'[n] = "none")
        BY <1>1, <2>1, Zenon DEF Secured, OwnTaint
      <3>1. UpdateTaint[u] \in taints[n] /\ (n \in status[u].draining \/ pods[n] = "none")
        BY <1>1, <1>2 DEF Recorded, Secured
      <3>2. n \in Nodes
        BY <1>2 DEF StatusType
      <3> QED
        BY <1>4, <3>1, <3>2
    <2> HIDE DEF remaining
    <2>3. Sound(u, copy)'
      BY <1>1, <1>2, <2>1 DEF Recorded, Sound
    <2>4. JobsMatch(u, copy)'
      <3> SUFFICES ASSUME NEW n \in Nodes PROVE JobMatches(u, copy, n)'
        BY DEF JobsMatch
      <3>1. JobMatches(u, status[u], n) /\ status[u].updating = {}
        BY <1>1, <1>2, Zenon DEF Recorded, JobsMatch, Sound
      <3> QED
        BY <1>1, <2>1, <3>1 DEF JobMatches
    <2>5. (Frozen(u, copy) /\ Staged(u, status[u], copy))'
      BY <1>1, <1>2, <2>1, Zenon DEF Frozen, Staged, Recorded, Sound, inProgressStates
    <2>6. Recording'
      BY <1>1, <2>1, <2>2, <2>3, <2>4, <2>5 DEF Recording
    <2> QED
      BY <1>1, <1>5, <2>1, <2>6, PassStep, Zenon
  <1> QED BY <1>3, <1>6, <1>7

-----------------------------------------------------------------------------
(* The loops over nodes.                                                   *)

(* EnsureNodeTaint: the node is tainted, or the update has failed. *)
LEMMA EnsureNodeTaintKeeps ==
  ASSUME FirmwareInv, TypeOK', NEW n \in Nodes, EnsureNodeTaint(n) PROVE FirmwareInv'
  <1>1. /\ Tainting /\ pc = "taint" /\ at = {} /\ n \in todo
        /\ UNCHANGED <<ready, pods, jobs, object, status, cur, stale>>
    BY DEF EnsureNodeTaint, FirmwareInv
  <1>2. cur \in Updates /\ copy \in StatusType /\ Recorded(cur)
    BY DEF FirmwareInv, TypeOK
  <1>3. CASE /\ taints' = [taints EXCEPT ![n] = @ \cup {UpdateTaint[cur]}]
             /\ pc' = "evict" /\ at' = {n} /\ todo' = todo \ {n}
             /\ UNCHANGED <<copy, lastErr>>
    <2>1. \A m \in Nodes : taints[m] \subseteq taints'[m]
      BY <1>3 DEF FirmwareInv, TypeOK
    <2>2. UpdateTaint[cur] \in taints'[n]
      BY <1>3 DEF FirmwareInv, TypeOK
    <2>3. \A v \in Updates : Calm(v)
      BY <1>1, <2>1 DEF Calm, CalmNode, CalmJob
    <2>4. copy.all \subseteq Nodes
      BY <1>2 DEF StatusType
    <2>5. (OwnTaint(cur)
           => \A m \in copy.all \ copy.completed :
                 \/ m \in todo
                 \/ /\ UpdateTaint[cur] \in taints[m]
                    /\ m \in at \cup copy.draining \/ pods[m] = "none" \/ lastErr)'
      BY <1>1, <1>3, <2>1, <2>2, <2>4, Zenon DEF Tainting, OwnTaint
    <2>6. Tainting'
      BY <1>1, <1>3, <2>5, Zenon DEF Tainting
    <2> QED
      BY <1>1, <1>3, <2>3, <2>6, PassStep
  <1>4. CASE Record(AfterTainting(copy, TRUE)) /\ UNCHANGED taints
    <2>1. /\ pc' = "record" /\ copy'.state = "error" /\ copy'.all = copy.all
          /\ copy'.completed = copy.completed /\ copy'.jobs = copy.jobs
          /\ copy'.vetted = copy.vetted
      BY <1>2, <1>4 DEF Record, AfterTainting, StatusType
    <2>2. (stale \/ Staged(cur, status[cur], copy))'
      BY <1>1, <1>2, <2>1, Zenon DEF Staged, Tainting, Recorded, Sound
    <2>3. Recording'
      BY <1>1, <1>2, <2>1, <2>2, ErrorRecording, Zenon DEF Tainting, Recorded, Sound
    <2>4. \A v \in Updates : Calm(v)
      BY <1>1, <1>4, PassCalm DEF clusterVars
    <2> QED
      BY <1>1, <2>1, <2>3, <2>4, PassStep, Zenon
  <1> QED
    BY <1>3, <1>4, Zenon DEF EnsureNodeTaint

(* The rest of an iteration of taintAndDrainNodes: a pod that is still     *)
(* there puts the node on the list of draining nodes.                      *)
LEMMA EvictPodsKeeps ==
  ASSUME FirmwareInv, TypeOK', NEW n \in Nodes, EvictPods(n) PROVE FirmwareInv'
  <1>1. /\ Tainting /\ pc = "evict" /\ at = {n}
        /\ UNCHANGED <<taints, ready, jobs, object, status, cur, stale>>
    BY DEF EvictPods, FirmwareInv
  <1>2. cur \in Updates /\ copy \in StatusType /\ Recorded(cur)
    BY DEF FirmwareInv, TypeOK
  <1>3. PICK err \in BOOLEAN, listed \in BOOLEAN, evicted \in SUBSET {n} :
           /\ err \/ (listed /\ err = lastErr)
           /\ evicted # {} => pods[n] = "running"
           /\ pods' = [m \in Nodes |-> IF m \in evicted THEN "terminating" ELSE pods[m]]
           /\ lastErr' = err
           /\ LET busy == {m \in {n} : listed /\ pods[m] # "none"}
                  c == [copy EXCEPT !.draining = @ \cup busy]
              IN  IF todo = {}
                  THEN Record(AfterTainting(c, err))
                  ELSE pc' = "taint" /\ copy' = c /\ at' = {} /\ UNCHANGED todo
    BY Zenon DEF EvictPods
  <1> DEFINE busy == {m \in {n} : listed /\ pods[m] # "none"}
             c == [copy EXCEPT !.draining = @ \cup busy]
  <1>4. \A m \in Nodes : pods[m] = "none" => pods'[m] = "none"
    BY <1>3
  <1>5. \A v \in Updates : Calm(v)
    BY <1>1, <1>4 DEF Calm, CalmNode, CalmJob
  <1>6. /\ c.state = copy.state /\ c.all = copy.all /\ c.pending = copy.pending
        /\ c.completed = copy.completed /\ c.jobs = copy.jobs /\ c.vetted = copy.vetted
        /\ c.updating = copy.updating /\ c.draining = copy.draining \cup busy
        /\ c \in StatusType
    <2>1. busy \in SUBSET Nodes
      OBVIOUS
    <2> HIDE DEF busy
    <2> QED BY <1>2, <2>1 DEF StatusType
  <1>7. OwnTaint(cur)
        => \A m \in copy.all \ copy.completed :
              \/ m \in todo
              \/ /\ UpdateTaint[cur] \in taints[m]
                 /\ m \in c.draining \/ pods'[m] = "none" \/ err
    <2> SUFFICES ASSUME OwnTaint(cur), NEW m \in copy.all \ copy.completed, m \notin todo
                 PROVE  /\ UpdateTaint[cur] \in taints[m]
                        /\ m \in c.draining \/ pods'[m] = "none" \/ err
      OBVIOUS
    <2>1. m \in Nodes
      BY <1>2 DEF StatusType
    <2>2. /\ UpdateTaint[cur] \in taints[m]
          /\ m \in at \cup copy.draining \/ pods[m] = "none" \/ lastErr
      BY <1>1, Zenon DEF Tainting
    <2>3. CASE m = n
      BY <1>3, <1>4, <1>6, <2>1, <2>2, <2>3
    <2>4. CASE m # n
      BY <1>1, <1>3, <1>4, <1>6, <2>1, <2>2, <2>4
    <2> QED BY <2>3, <2>4
  <1> HIDE DEF c, busy
  <1>8. CASE todo # {}
    <2>1. pc' = "taint" /\ copy' = c /\ at' = {} /\ UNCHANGED todo
      BY <1>3, <1>8 DEF c, busy
    <2>2. (OwnTaint(cur)
           => \A m \in copy.all \ copy.completed :
                 \/ m \in todo
                 \/ /\ UpdateTaint[cur] \in taints[m]
                    /\ m \in at \cup copy.draining \/ pods[m] = "none" \/ lastErr)'
      BY <1>1, <1>3, <1>6, <1>7, <2>1 DEF OwnTaint
    <2>3. Tainting'
      BY <1>1, <1>6, <2>1, <2>2, Zenon DEF Tainting
    <2> QED
      BY <1>1, <1>5, <2>1, <2>3, PassStep
  <1>9. CASE todo = {} /\ err
    <2>1. pc' = "record" /\ copy' = AfterTainting(c, TRUE)
      BY <1>3, <1>9 DEF c, busy, Record
    <2>2. /\ copy'.state = "error" /\ copy'.all = copy.all
          /\ copy'.completed = copy.completed /\ copy'.jobs = copy.jobs
          /\ copy'.vetted = copy.vetted
      BY <1>6, <2>1 DEF AfterTainting, StatusType
    <2>3. (stale \/ Staged(cur, status[cur], copy))'
      BY <1>1, <1>2, <2>2, Zenon DEF Staged, Tainting, Recorded, Sound
    <2>4. Recording'
      BY <1>1, <1>2, <2>2, <2>3, ErrorRecording, Zenon DEF Tainting, Recorded, Sound
    <2> QED
      BY <1>1, <1>5, <2>1, <2>4, PassStep
  <1>10. CASE todo = {} /\ ~err
    <2>1. pc' = "record" /\ copy' = AfterTainting(c, FALSE)
      BY <1>3, <1>10, Zenon DEF c, busy, Record
    <2>2. /\ copy'.state = "draining" /\ copy'.all = copy.all
          /\ copy'.pending = copy.pending
          /\ copy'.completed = copy.completed /\ copy'.jobs = copy.jobs
          /\ copy'.vetted = copy.vetted /\ copy'.updating = copy.updating
          /\ copy'.draining = c.draining
      BY <1>6, <2>1 DEF AfterTainting, StatusType
    <2>3. Sound(cur, copy)'
      BY <1>1, <1>2, <2>2, Zenon DEF Recorded, Sound, Tainting
    <2>4. JobsMatch(cur, copy)'
      <3> SUFFICES ASSUME NEW m \in Nodes PROVE JobMatches(cur, copy, m)'
        BY DEF JobsMatch
      <3>1. JobMatches(cur, status[cur], m) /\ Sound(cur, status[cur])
        BY <1>2 DEF Recorded, JobsMatch
      <3>2. /\ jobs[updateJobName(cur, m)].state # "running"
            /\ jobs[updateJobName(cur, m)].state # "none" =>
                  m \in copy.all /\ jobs[updateJobName(cur, m)].content = copy.vetted
        BY <1>1, <3>1, Zenon DEF JobMatches, Tainting, Sound
      <3> QED
        BY <1>1, <2>2, <3>2, Zenon DEF JobMatches
    <2>5. Secured(cur, copy)'
      BY <1>1, <1>7, <1>10, <2>2, Zenon DEF Secured, OwnTaint
    <2>6. (stale \/ (Frozen(cur, copy) /\ Staged(cur, status[cur], copy)))'
      <3>1. CASE status[cur].state = "not_started"
        BY <1>1, <1>2, <2>2, <3>1, Zenon DEF Frozen, Staged, Tainting, Recorded, Sound
      <3>2. CASE status[cur].state = "canary_done"
        BY <1>1, <1>2, <2>2, <3>2, Zenon
           DEF Frozen, Staged, Tainting, Recorded, Sound, inProgressStates
      <3> QED
        BY <1>1, <3>1, <3>2 DEF Tainting
    <2>7. Recording'
      BY <1>1, <2>2, <2>3, <2>4, <2>5, <2>6, Zenon DEF Recording, Tainting
    <2> QED
      BY <1>1, <1>5, <2>1, <2>7, PassStep
  <1> QED BY <1>8, <1>9, <1>10

(* The loop of startUpdateJobs: the Job it creates flashes the content the *)
(* update began with, on a node that is tainted and empty.                 *)
LEMMA CreateUpdateJobKeeps ==
  ASSUME FirmwareInv, TypeOK', NEW n \in Nodes, CreateUpdateJob(n) PROVE FirmwareInv'
  <1>1. /\ Creating /\ pc = "create" /\ n \in todo
        /\ UNCHANGED <<taints, ready, pods, object, status, cur, lastErr, stale>>
    BY DEF CreateUpdateJob, FirmwareInv
  <1>2. cur \in Updates /\ copy \in StatusType /\ Recorded(cur)
    BY DEF FirmwareInv, TypeOK
  <1>3. ASSUME NEW v \in Updates, NEW m \in Nodes, v # cur \/ m # n
        PROVE  jobs'[updateJobName(v, m)] = jobs[updateJobName(v, m)]
    <2>1. updateJobName(v, m) # updateJobName(cur, n)
      BY <1>3, JobNamesDiffer
    <2> QED
      BY <2>1, updateJobNameType, Zenon DEF CreateUpdateJob, FirmwareInv, TypeOK
  <1>4. \/ /\ UNCHANGED jobs /\ Record([copy EXCEPT !.state = "error_cleanup"])
        \/ /\ \/ jobs'[updateJobName(cur, n)] = UpdateJobObj(cur)
              \/ /\ jobs'[updateJobName(cur, n)] = jobs[updateJobName(cur, n)]
                 /\ jobs[updateJobName(cur, n)].state # "none"
           /\ IF todo = {n}
              THEN LET toUpdate == copy.all \ copy.completed
                   IN  Record([copy EXCEPT
                          !.updating = toUpdate,
                          !.jobs = @ \cup {updateJobName(cur, m) : m \in toUpdate}])
              ELSE todo' = todo \ {n} /\ UNCHANGED <<pc, copy, at>>
    BY <1>2, updateJobNameType DEF CreateUpdateJob, FirmwareInv, TypeOK
  <1>5. /\ UpdateJobObj(cur).state = "running"
        /\ UpdateJobObj(cur).content = status[cur].vetted
    BY <1>1, <1>2, Zenon DEF UpdateJobObj, Creating, Recorded, Frozen, inProgressStates
  <1>6. ASSUME NEW m \in Nodes
        PROVE  /\ JobMatches(cur, status[cur], m)'
               /\ jobs[updateJobName(cur, m)].state # "none"
                     => jobs'[updateJobName(cur, m)].state # "none"
    <2>1. JobMatches(cur, status[cur], m)
      BY <1>2 DEF Recorded, JobsMatch
    <2>2. CASE jobs'[updateJobName(cur, m)] = jobs[updateJobName(cur, m)]
      BY <1>1, <2>1, <2>2, Zenon DEF JobMatches
    <2>3. CASE m = n /\ jobs'[updateJobName(cur, n)] = UpdateJobObj(cur)
      BY <1>1, <1>5, <2>3, Zenon DEF JobMatches, Creating
    <2> QED
      BY <1>2, <1>3, <1>4, <2>2, <2>3
  <1>7. \A v \in Updates : Recorded(v)'
    <2> SUFFICES ASSUME NEW v \in Updates PROVE Recorded(v)'
      OBVIOUS
    <2>1. CASE v # cur
      <3>1. Calm(v)
        BY <1>1, <1>3, <2>1, Zenon DEF Calm, CalmNode, CalmJob
      <3> QED
        BY <1>1, <3>1, CalmRecorded DEF FirmwareInv
    <2>2. CASE v = cur
      <3>1. JobsMatch(v, status[v])'
        BY <1>1, <1>6, <2>2 DEF JobsMatch
      <3>2. (Sound(v, status[v]) /\ Secured(v, status[v]) /\ Frozen(v, status[v]))'
        BY <1>1, <1>2, <2>2, Zenon DEF Recorded, Sound, Secured, Frozen
      <3> QED
        BY <3>1, <3>2 DEF Recorded
    <2> QED BY <2>1, <2>2
  <1>8. CASE UNCHANGED jobs /\ Record([copy EXCEPT !.state = "error_cleanup"])
    <2>1. /\ pc' = "record" /\ copy'.state = "error_cleanup" /\ copy'.all = copy.all
          /\ copy'.pending = copy.pending /\ copy'.completed = copy.completed
          /\ copy'.jobs = copy.jobs /\ copy'.vetted = copy.vetted
      BY <1>2, <1>8 DEF Record, StatusType
    <2>2. Sound(cur, copy)'
      BY <1>1, <1>2, <2>1, Zenon DEF Recorded, Sound, Creating
    <2>3. JobsMatch(cur, copy)'
      BY <1>1, <1>2, <1>8, <2>1 DEF Recorded, JobsMatch, JobMatches, Creating
    <2>4. (Secured(cur, copy) /\ Frozen(cur, copy) /\ Staged(cur, status[cur], copy))'
      BY <1>1, <1>2, <2>1, Zenon
         DEF Secured, Frozen, Staged, Creating, Recorded, Sound, inProgressStates
    <2>5. Recording'
      BY <1>1, <2>1, <2>2, <2>3, <2>4, Zenon DEF Recording, Creating
    <2> QED
      BY <1>7, <2>1, <2>5 DEF FirmwareInv
  <1>9. ASSUME jobs'[updateJobName(cur, n)].state # "none",
               NEW m \in status[cur].all \ status[cur].completed
        PROVE  \/ m \in todo \ {n}
               \/ jobs'[updateJobName(cur, m)].state # "none"
               \/ object[cur].phase = "gone"
    <2>1. m \in Nodes
      BY <1>1, <1>2 DEF Creating, StatusType
    <2> QED
      BY <1>1, <1>6, <1>9, <2>1, Zenon DEF Creating
  <1>10. CASE /\ jobs'[updateJobName(cur, n)].state # "none"
              /\ todo # {n} /\ todo' = todo \ {n} /\ UNCHANGED <<pc, copy, at>>
    <2>1. Creating'
      BY <1>1, <1>9, <1>10, Zenon DEF Creating
    <2> QED
      BY <1>1, <1>7, <1>10, <2>1 DEF FirmwareInv
  <1>11. CASE /\ jobs'[updateJobName(cur, n)].state # "none" /\ todo = {n}
              /\ LET toUpdate == copy.all \ copy.completed
                 IN  Record([copy EXCEPT
                        !.updating = toUpdate,
                        !.jobs = @ \cup {updateJobName(cur, m) : m \in toUpdate}])
    <2> DEFINE names == {updateJobName(cur, m) : m \in copy.all \ copy.completed}
    <2>1. /\ pc' = "record" /\ copy'.state = copy.state /\ copy'.all = copy.all
          /\ copy'.pending = copy.pending /\ copy'.completed = copy.completed
          /\ copy'.draining = copy.draining
          /\ copy'.jobs = copy.jobs \cup names /\ copy'.vetted = copy.vetted
      <3> HIDE DEF names
      <3> QED BY <1>2, <1>11 DEF Record, StatusType, names
    <2>2. \A j \in names : j[1] = cur
      BY JobNamesDiffer
    <2> HIDE DEF names
    <2>3. Sound(cur, copy)'
      BY <1>1, <1>2, <2>1, <2>2, Zenon DEF Recorded, Sound, Creating
    <2>4. JobsMatch(cur, copy)'
      <3> SUFFICES ASSUME NEW m \in Nodes PROVE JobMatches(cur, copy, m)'
        BY DEF JobsMatch
      <3>1. JobMatches(cur, status[cur], m)'
        BY <1>6
      <3> QED
        BY <1>1, <1>9, <1>11, <2>1, <3>1 DEF JobMatches, Creating
    <2>5. (Secured(cur, copy) /\ Frozen(cur, copy) /\ Staged(cur, status[cur], copy))'
      BY <1>1, <1>2, <2>1, Zenon
         DEF Secured, Frozen, Staged, Creating, Recorded, Sound, inProgressStates
    <2>6. Recording'
      BY <1>1, <2>1, <2>3, <2>4, <2>5, Zenon DEF Recording, Creating
    <2> QED
      BY <1>7, <2>1, <2>6 DEF FirmwareInv
  <1> QED
    BY <1>4, <1>5, <1>8, <1>10, <1>11

(* The loop of untaintNodesAndFinalize: no Job that this update waits for  *)
(* is left, and other updates have taints of their own.                    *)
LEMMA RemoveNodeTaintKeeps ==
  ASSUME FirmwareInv, TypeOK', NEW n \in Nodes, RemoveNodeTaint(n) PROVE FirmwareInv'
  <1>1. /\ Untainting /\ pc = "untaint" /\ n \in todo
        /\ UNCHANGED <<ready, pods, jobs, object, status, cur, stale>>
    BY DEF RemoveNodeTaint, FirmwareInv
  <1>2. cur \in Updates /\ copy \in StatusType /\ Recorded(cur)
    BY DEF FirmwareInv, TypeOK
  <1>3. \A m \in Nodes : taints[m] \ {UpdateTaint[cur]} \subseteq taints'[m]
    <2>1. \/ taints' = taints
          \/ taints' = [taints EXCEPT ![n] = @ \ {UpdateTaint[cur]}]
      BY Zenon DEF RemoveNodeTaint
    <2>2. DOMAIN taints = Nodes
      BY DEF FirmwareInv, TypeOK
    <2> QED
      BY <2>1, <2>2
  <1>4. \A v \in Updates : Recorded(v)'
    <2> SUFFICES ASSUME NEW v \in Updates PROVE Recorded(v)'
      OBVIOUS
    <2>1. CASE v # cur
      <3>1. Calm(v)
        BY <1>1, <1>2, <1>3, <2>1 DEF Calm, CalmNode, CalmJob, OwnTaint
      <3> QED
        BY <1>1, <3>1, CalmRecorded DEF FirmwareInv
    <2>2. CASE v = cur
      <3>1. Secured(v, status[v])'
        BY <1>1, <2>2, Zenon DEF Secured, Untainting
      <3>2. (Sound(v, status[v]) /\ JobsMatch(v, status[v]) /\ Frozen(v, status[v]))'
        BY <1>1, <1>2, <2>2, Zenon DEF Recorded, Sound, JobsMatch, JobMatches, Frozen
      <3> QED
        BY <3>1, <3>2 DEF Recorded
    <2> QED BY <2>1, <2>2
  <1>5. CASE todo # {n}
    <2>1. UNCHANGED <<pc, copy>>
      BY <1>5 DEF RemoveNodeTaint
    <2>2. Untainting'
      BY <1>1, <2>1 DEF Untainting
    <2> QED
      BY <1>1, <1>4, <2>1, <2>2 DEF FirmwareInv
  <1>6. CASE todo = {n}
    <2>1. pc' = "record" /\ copy' = AfterUntainting(copy, lastErr')
      BY <1>6 DEF RemoveNodeTaint, Record
    <2>2. /\ copy'.all = copy.all /\ copy'.completed = copy.completed
          /\ copy'.pending = copy.pending
          /\ copy'.jobs = copy.jobs /\ copy'.vetted = copy.vetted
          /\ \/ copy'.state = "error"
             \/ copy'.state = "completed" /\ copy.state = "cleanup"
      BY <1>2, <2>1 DEF StatusType, AfterUntainting
    <2>3. CASE copy'.state = "error"
      <3>1. Staged(cur, status[cur], copy)'
        BY <1>1, <2>2, <2>3 DEF Staged, Untainting
      <3>2. Recording'
        BY <1>1, <1>2, <2>2, <2>3, <3>1, ErrorRecording, Zenon DEF Untainting
      <3> QED
        BY <1>4, <2>1, <3>2 DEF FirmwareInv
    <2>4. CASE copy'.state = "completed" /\ copy.state = "cleanup"
      <3>1. (Sound(cur, copy) /\ Secured(cur, copy) /\ Frozen(cur, copy))'
        BY <1>1, <1>2, <2>2, <2>4, Zenon
           DEF Untainting, Recorded, Sound, Secured, Frozen, inProgressStates
      <3>2. JobsMatch(cur, copy)'
        BY <1>1, <1>2, <2>2, <2>4, Zenon DEF Untainting, Recorded, JobsMatch, JobMatches
      <3>3. Staged(cur, status[cur], copy)'
        BY <1>1, <1>2, <2>2, <2>4, Zenon DEF Staged, Untainting, Recorded, Sound
      <3>4. Recording'
        BY <1>1, <2>4, <3>1, <3>2, <3>3, Zenon DEF Recording, Untainting
      <3> QED
        BY <1>4, <2>1, <3>4 DEF FirmwareInv
    <2> QED BY <2>2, <2>3, <2>4
  <1> QED BY <1>5, <1>6

-----------------------------------------------------------------------------
(* The invariant, and what follows from it.                                *)

(* No update has begun: nothing is tainted, recorded or running. *)
LEMMA FirmwareInit == Init => FirmwareInv
  <1> SUFFICES ASSUME Init PROVE FirmwareInv
    OBVIOUS
  <1>1. TypeOK
    BY TypeInit
  <1>2. ASSUME NEW u \in Updates PROVE Recorded(u)
    <2>1. status[u] = NewStatus
      BY DEF Init
    <2>2. ASSUME NEW n \in Nodes PROVE jobs[updateJobName(u, n)].state = "none"
      <3>1. jobs[updateJobName(u, n)] = NoJob
        BY updateJobNameType, Zenon DEF Init
      <3> QED
        BY <3>1 DEF NoJob
    <2>3. /\ status[u].state = "not_started" /\ status[u].all = {}
          /\ status[u].pending = {} /\ status[u].draining = {}
          /\ status[u].updating = {} /\ status[u].completed = {} /\ status[u].jobs = {}
      <3>1. /\ NewStatus.state = "not_started" /\ NewStatus.all = {}
            /\ NewStatus.pending = {} /\ NewStatus.draining = {}
            /\ NewStatus.updating = {} /\ NewStatus.completed = {} /\ NewStatus.jobs = {}
        BY DEF NewStatus
      <3> QED
        BY <2>1, <3>1, Zenon
    <2>4. Sound(u, status[u])
      BY <2>3 DEF Sound
    <2>5. JobsMatch(u, status[u])
      BY <2>2, <2>3 DEF JobsMatch, JobMatches
    <2>6. Secured(u, status[u])
      BY <2>3 DEF Secured
    <2>7. Frozen(u, status[u])
      BY <2>3 DEF Frozen, inProgressStates
    <2> QED
      BY <2>4, <2>5, <2>6, <2>7 DEF Recorded
  <1> QED
    BY <1>1, <1>2 DEF FirmwareInv, Init

(* Every call of a pass, every failure and every move of the cluster keeps *)
(* the invariant.                                                          *)
LEMMA FirmwareStep == FirmwareInv /\ [Next]_vars => FirmwareInv'
  <1> SUFFICES ASSUME FirmwareInv, [Next]_vars PROVE FirmwareInv'
    OBVIOUS
  <1>0. TypeOK'
    BY TypeStep DEF FirmwareInv
  <1>1. ASSUME NEW u \in Updates, Reconcile(u) \/ FinalCleanupFails(u) PROVE FirmwareInv'
    BY <1>0, <1>1, BeginUpdateKeeps, BeginUpdateFailsKeeps, CheckForNodeDrainStatusKeeps,
       StartUpdateJobsKeeps, ContinueUpdateJobsKeeps, HandleCanaryDoneKeeps,
       UntaintNodesKeeps, FinalCleanupKeeps DEF Reconcile
  <1>2. CASE Continue
    BY <1>0, <1>2, EnsureNodeTaintKeeps, EvictPodsKeeps, CreateUpdateJobKeeps,
       RemoveNodeTaintKeeps, PersistStatusKeeps, WritesKeep DEF Continue
  <1>3. CASE Crash
    BY <1>0, <1>3, WritesKeep
  <1>4. CASE Environment
    BY <1>0, <1>4, EditsKeep, JobsEndKeep, NodesKeep DEF Environment
  <1>5. CASE UNCHANGED vars
    <2>1. \A u \in Updates : Calm(u)
      BY <1>5, PassCalm DEF vars
    <2> QED
      BY <1>0, <1>5, <2>1, CalmInv DEF vars, loopVars
  <1> QED
    BY <1>1, <1>2, <1>3, <1>4, <1>5 DEF Next

(* The status an update has recorded, the status a pass is about to record *)
(* and the cluster agree at every step of every pass of the controller.    *)
THEOREM FirmwareInvariant == Spec => []FirmwareInv
  BY FirmwareInit, FirmwareStep, PTL DEF Spec

(* While an update Job runs, its node keeps the update's taint and has no  *)
(* GPU pod, whatever fails, restarts or is edited meanwhile, unless        *)
(* startUpdateJobs gave the update up.                                     *)
THEOREM Undisturbed == Spec => []FlashingIsUndisturbed
  <1>1. FirmwareInv => FlashingIsUndisturbed
    <2> SUFFICES ASSUME FirmwareInv, NEW u \in Updates, NEW n \in Nodes, OwnTaint(u),
                        jobs[updateJobName(u, n)].state = "running",
                        status[u].state \notin {"error_cleanup", "error"}
                 PROVE  Quiet(u, n)
      BY DEF FlashingIsUndisturbed
    <2>1. status[u].state = "updating" /\ n \in status[u].all \ status[u].completed
      BY DEF FirmwareInv, Recorded, JobsMatch, JobMatches
    <2>2. status[u].draining = {}
      BY <2>1, Zenon DEF FirmwareInv, Recorded, Sound
    <2> QED
      BY <2>1, <2>2 DEF FirmwareInv, Recorded, Secured, Quiet
  <1> QED
    BY <1>1, FirmwareInvariant, PTL

(* Every update Job flashes the content that verifyContentImage checked    *)
(* when the update began.                                                  *)
THEOREM FlashesVerified == Spec => []FlashesWhatWasVerified
  <1>1. FirmwareInv => FlashesWhatWasVerified
    BY Zenon DEF FirmwareInv, Recorded, JobsMatch, JobMatches, FlashesWhatWasVerified
  <1> QED
    BY <1>1, FirmwareInvariant, PTL

-----------------------------------------------------------------------------
(* The refinement.                                                         *)

Verdict(s) == IF s.state \in {"completed", "error"} THEN s.state ELSE "open"

(* Only the status write and an admin's hold change what a watcher of the  *)
(* status sees.                                                            *)
LEMMA OnlyWritesShow ==
  ASSUME FirmwareInv, [Next]_vars
  PROVE  \/ PersistStatus
         \/ \E u \in Updates : SetHold(u)
         \/ /\ UNCHANGED status
            /\ \A u \in Updates : object'[u].hold = object[u].hold
  <1>0. object \in [Updates -> ObjectType]
    BY DEF FirmwareInv, TypeOK
  <1>1. CASE UNCHANGED <<object, status>>
    BY <1>1
  <1>2. ASSUME NEW u \in Updates, EditSpec(u)
        PROVE  UNCHANGED status /\ \A v \in Updates : object'[v].hold = object[v].hold
    <2>1. PICK m \in Methods :
             object' = [object EXCEPT ![u].method = m, ![u].content = @ + 1]
      BY <1>2, Zenon DEF EditSpec
    <2>2. ASSUME NEW v \in Updates PROVE object'[v].hold = object[v].hold
      <3>1. object'[v] = object[v]
             \/ object'[v] = [object[v] EXCEPT !.method = m, !.content = @ + 1]
        BY <1>0, <2>1, Zenon
      <3>2. object[v] \in ObjectType
        BY <1>0
      <3> QED
        BY <3>1, <3>2, Zenon DEF ObjectType
    <2> QED
      BY <1>2, <2>2, Zenon DEF EditSpec, Edited
  <1>3. ASSUME NEW u \in Updates, Delete(u)
        PROVE  UNCHANGED status /\ \A v \in Updates : object'[v].hold = object[v].hold
    BY <1>0, <1>3 DEF Delete, Edited, ObjectType
  <1>4. ASSUME AddFinalizer \/ RemoveFinalizer
        PROVE  UNCHANGED status /\ \A v \in Updates : object'[v].hold = object[v].hold
    BY <1>0, <1>4 DEF AddFinalizer, RemoveFinalizer, ObjectType
  <1>5. ASSUME NEW u \in Updates, Reconcile(u) \/ FinalCleanupFails(u)
        PROVE  UNCHANGED <<object, status>>
    BY <1>5, Zenon DEF Reconcile, FinalCleanupFails, BeginUpdate, BeginUpdateFails,
       CheckForNodeDrainStatus, StartUpdateJobs, ContinueUpdateJobs, HandleCanaryDone,
       UntaintNodesAndFinalize, FinalCleanup
  <1>6. ASSUME NEW n \in Nodes,
               EnsureNodeTaint(n) \/ EvictPods(n) \/ CreateUpdateJob(n) \/ RemoveNodeTaint(n)
        PROVE  UNCHANGED <<object, status>>
    BY <1>6, Zenon DEF EnsureNodeTaint, EvictPods, CreateUpdateJob, RemoveNodeTaint
  <1>7. CASE WriteFails \/ Crash \/ UNCHANGED vars
    BY <1>1, <1>7 DEF WriteFails, Crash, vars
  <1>8. CASE \/ \E u \in Updates : CollectJobs(u)
             \/ \E u \in Updates, n \in Nodes : JobEnds(u, n)
             \/ \E n \in Nodes : PodStarts(n) \/ PodEnds(n) \/ NodeChanges(n)
    BY <1>1, <1>8 DEF CollectJobs, JobEnds, PodStarts, PodEnds, NodeChanges
  <1> QED
    BY <1>1, <1>2, <1>3, <1>4, <1>5, <1>6, <1>7, <1>8 DEF Next, Continue, Environment

(* A status that may be written over another is a step of the rollout of   *)
(* that update, or leaves it where it is.                                  *)
LEMMA StagedStep ==
  ASSUME FirmwareInv, PersistStatus, NEW u \in Updates, u = cur
  PROVE  \/ RolloutOf!Verify(u) \/ RolloutOf!Select(u) \/ RolloutOf!Promote(u)
         \/ RolloutOf!Complete(u) \/ RolloutOf!Fail(u)
  <1> DEFINE scope == [v \in Updates |-> status[v].all]
             waiting == [v \in Updates |-> status[v].pending]
             verified == [v \in Updates |-> status[v].completed]
             verdict == [v \in Updates |-> IF status[v].state \in {"completed", "error"}
                                           THEN status[v].state ELSE "open"]
             s == status[u]
  <1>1. /\ copy \in StatusType /\ UNCHANGED object
        /\ status' = [status EXCEPT ![u] = copy] /\ status \in [Updates -> StatusType]
        /\ Staged(u, s, copy) /\ s.state \notin {"completed", "error"}
    BY DEF PersistStatus, FirmwareInv, TypeOK, Recording
  <1>2. /\ scope' = [scope EXCEPT ![u] = copy.all]
        /\ waiting' = [waiting EXCEPT ![u] = copy.pending]
        /\ verified' = [verified EXCEPT ![u] = copy.completed]
        /\ verdict' = [verdict EXCEPT ![u] = Verdict(copy)]
    BY <1>1, Zenon DEF Verdict
  <1>3. /\ scope[u] = s.all /\ waiting[u] = s.pending /\ verified[u] = s.completed
        /\ verdict[u] = "open"
    BY <1>1
  <1>4. /\ copy.all \in SUBSET Nodes /\ copy.pending \in SUBSET Nodes
        /\ copy.completed \in SUBSET Nodes
    BY <1>1 DEF StatusType
  <1>5. /\ copy.all = s.all => scope' = scope
        /\ copy.pending = s.pending => waiting' = waiting
        /\ copy.completed = s.completed => verified' = verified
        /\ copy.state \notin {"completed", "error"} => verdict' = verdict
        /\ [v \in Updates |-> object[v].hold]' = [v \in Updates |-> object[v].hold]
    <2>1. [v \in Updates |-> object[v].hold]' = [v \in Updates |-> object[v].hold]
      BY <1>1
    <2>2. copy.state \notin {"completed", "error"} => Verdict(copy) = "open"
      BY DEF Verdict
    <2> HIDE DEF scope, waiting, verified, verdict
    <2>3. /\ scope = [scope EXCEPT ![u] = scope[u]] /\ waiting = [waiting EXCEPT ![u] = waiting[u]]
          /\ verified = [verified EXCEPT ![u] = verified[u]]
          /\ verdict = [verdict EXCEPT ![u] = verdict[u]]
      BY Zenon DEF scope, waiting, verified, verdict
    <2> QED
      BY <1>2, <1>3, <2>1, <2>2, <2>3
  <1>6. CASE /\ copy.state \notin {"completed", "error"}
             /\ copy.all = s.all /\ copy.pending = s.pending
             /\ s.completed \subseteq copy.completed /\ copy.completed \subseteq s.all
    <2>1. verified' = [verified EXCEPT ![u] = @ \cup copy.completed]
      <3>1. copy.completed = verified[u] \cup copy.completed
        BY <1>3, <1>6
      <3> HIDE DEF verified
      <3> QED
        BY <1>2, <3>1, Zenon
    <2>2. verdict[u] = "open" /\ copy.completed \in SUBSET scope[u]
      BY <1>3, <1>6
    <2>3. UNCHANGED <<scope, waiting, verdict, [v \in Updates |-> object[v].hold]>>
      BY <1>5, <1>6, Zenon
    <2> QED
      BY <2>1, <2>2, <2>3, Zenon DEF RolloutOf!Verify
  <1>7. CASE /\ copy.state \notin {"completed", "error"}
             /\ s.all = {} /\ copy.all \cap copy.pending = {}
             /\ copy.completed = s.completed
    <2>1. verdict[u] = "open" /\ scope[u] = {} /\ copy.all \cap copy.pending = {}
      BY <1>3, <1>7, Zenon
    <2>2. UNCHANGED <<verified, verdict, [v \in Updates |-> object[v].hold]>>
      BY <1>5, <1>7
    <2> HIDE DEF scope, waiting, verified, verdict
    <2>3. \E S, W \in SUBSET Nodes :
             /\ S \cap W = {}
             /\ scope' = [scope EXCEPT ![u] = S]
             /\ waiting' = [waiting EXCEPT ![u] = W]
      BY <1>2, <1>4, <2>1, Zenon
    <2> QED
      BY <2>1, <2>2, <2>3, Zenon
         DEF RolloutOf!Select, scope, waiting, verified, verdict
  <1>8. CASE /\ copy.state \notin {"completed", "error"}
             /\ ~object[u].hold /\ s.all # {} /\ s.completed = s.all
             /\ copy.all = s.all \cup s.pending /\ copy.pending = {}
             /\ copy.completed = s.completed
    BY <1>1, <1>2, <1>3, <1>5, <1>8, Zenon DEF RolloutOf!Promote
  <1>9. CASE /\ copy.state = "completed"
             /\ s.all # {} /\ s.completed = s.all /\ s.pending = {}
             /\ copy.all = s.all /\ copy.pending = s.pending
             /\ copy.completed = s.completed
    BY <1>1, <1>2, <1>3, <1>5, <1>9, Zenon DEF RolloutOf!Complete, Verdict
  <1>10. CASE /\ copy.state = "error" /\ copy.completed = s.completed
              /\ \/ copy.all = s.all
                 \/ s.all = {}
                 \/ ~object[u].hold /\ s.completed = s.all
                                      /\ copy.all = s.all \cup s.pending
    <2>1. verdict' = [verdict EXCEPT ![u] = "error"]
      BY <1>2, <1>10, Zenon DEF Verdict
    <2>2. \/ copy.all = scope[u]
          \/ scope[u] = {}
          \/ /\ ~[v \in Updates |-> object[v].hold][u] /\ verified[u] = scope[u]
             /\ copy.all = scope[u] \cup waiting[u]
      BY <1>1, <1>3, <1>10
    <2>3. UNCHANGED <<verified, [v \in Updates |-> object[v].hold]>>
      BY <1>5, <1>10
    <2> HIDE DEF scope, waiting, verified, verdict
    <2>4. \E S, W \in SUBSET Nodes :
             /\ \/ S = scope[u]
                \/ scope[u] = {}
                \/ /\ ~[v \in Updates |-> object[v].hold][u] /\ verified[u] = scope[u]
                   /\ S = scope[u] \cup waiting[u]
             /\ scope' = [scope EXCEPT ![u] = S]
             /\ waiting' = [waiting EXCEPT ![u] = W]
      BY <1>2, <1>4, <2>2, Zenon
    <2> QED
      BY <1>3, <2>1, <2>3, <2>4, Zenon
         DEF RolloutOf!Fail, scope, waiting, verified, verdict
  <1> QED
    BY <1>1, <1>6, <1>7, <1>8, <1>9, <1>10, Zenon DEF Staged

(* allNodes, pendingNodes, completedNodes and state, as the API server     *)
(* shows them, go through a staged rollout: whatever fails, restarts or is *)
(* edited, the rest is promoted only behind a verified canary that is not  *)
(* held, completion needs every node, and a verdict is final.              *)
THEOREM Refinement == Spec => ImplementsRollout
  <1>1. Init => RolloutOf!Init
    <2> SUFFICES ASSUME Init PROVE RolloutOf!Init
      OBVIOUS
    <2>1. \A u \in Updates : object[u].hold \in BOOLEAN
      <3>1. TypeOK
        BY TypeInit
      <3> QED
        BY <3>1 DEF TypeOK, ObjectType
    <2>2. [u \in Updates |-> object[u].hold] \in [Updates -> BOOLEAN]
      BY <2>1, Zenon
    <2> QED
      BY <2>2 DEF Init, NewStatus, RolloutOf!Init
  <1>2. FirmwareInv /\ [Next]_vars => [RolloutOf!Next]_RolloutOf!rolloutVars
    <2> SUFFICES ASSUME FirmwareInv, [Next]_vars
                 PROVE  [RolloutOf!Next]_RolloutOf!rolloutVars
      OBVIOUS
    <2>1. CASE PersistStatus
      <3>1. PICK u \in Updates : u = cur
        BY DEF FirmwareInv, TypeOK
      <3>2. \/ RolloutOf!Verify(u) \/ RolloutOf!Select(u) \/ RolloutOf!Promote(u)
            \/ RolloutOf!Complete(u) \/ RolloutOf!Fail(u)
        BY <2>1, <3>1, StagedStep
      <3>3. RolloutOf!Next
        BY <3>2, Zenon DEF RolloutOf!Next
      <3> QED
        BY <3>3
    <2>2. ASSUME NEW u \in Updates, SetHold(u) PROVE RolloutOf!Next
      <3> DEFINE held == [v \in Updates |-> object[v].hold]
      <3>1. /\ UNCHANGED status /\ object \in [Updates -> ObjectType]
            /\ object' = [object EXCEPT ![u].hold = ~object[u].hold]
        BY <2>2 DEF SetHold, Edited, FirmwareInv, TypeOK
      <3>2. held' = [held EXCEPT ![u] = ~object[u].hold]
        <4>1. ASSUME NEW v \in Updates
              PROVE  object'[v].hold = IF v = u THEN ~object[u].hold ELSE object[v].hold
          <5>1. object'[v] = IF v = u THEN [object[u] EXCEPT !.hold = ~object[u].hold]
                                      ELSE object[v]
            BY <3>1, Zenon
          <5>2. object[u] \in ObjectType
            BY <3>1
          <5>3. [object[u] EXCEPT !.hold = ~object[u].hold].hold = ~object[u].hold
            BY <5>2, Zenon DEF ObjectType
          <5> QED
            BY <5>1, <5>3, Zenon
        <4> QED
          BY <4>1, Zenon
      <3>3. (~object[u].hold) \in BOOLEAN
        OBVIOUS
      <3>4. RolloutOf!SetHold(u)
        BY <3>1, <3>2, <3>3, Zenon DEF RolloutOf!SetHold
      <3> QED
        BY <3>4, Zenon DEF RolloutOf!Next
    <2>3. CASE /\ UNCHANGED status
               /\ \A u \in Updates : object'[u].hold = object[u].hold
      BY <2>3, Zenon DEF RolloutOf!rolloutVars
    <2> QED
      BY <2>1, <2>2, <2>3, OnlyWritesShow
  <1> QED
    BY <1>1, <1>2, FirmwareInvariant, PTL DEF Spec, ImplementsRollout, RolloutOf!Spec

-----------------------------------------------------------------------------
(* Completion.                                                             *)

JobDone(u, n) == jobs[updateJobName(u, n)].state = "succeeded"
Untainted(u, S) == \A n \in S : UpdateTaint[u] \notin taints[n]

(* Nodes count as completed only with a Job that succeeded; and what an    *)
(* untainting loop has passed without an error is free of the taint.       *)
DoneInv ==
    /\ FirmwareInv
    /\ \A u \in Updates :
          object[u].phase = "live" => \A n \in status[u].completed : JobDone(u, n)
    /\ pc = "record" /\ object[cur].phase = "live" => \A n \in copy.completed : JobDone(cur, n)
    /\ \A u \in Updates :
          OwnTaint(u) /\ status[u].state = "completed" => Untainted(u, status[u].all)
    /\ pc = "untaint" /\ OwnTaint(cur) /\ ~lastErr => Untainted(cur, copy.all \ todo)
    /\ pc = "record" /\ OwnTaint(cur) /\ copy.state = "completed" => Untainted(cur, copy.all)

(* Nobody removes or reruns the successful Job of a live update: Jobs are  *)
(* kept if they exist, and deleted with an update that is going or gone. *)
LEMMA SuccessStays ==
  ASSUME FirmwareInv, [Next]_vars, NEW u \in Updates, object'[u].phase = "live"
  PROVE  /\ object[u].phase = "live"
         /\ \A n \in Nodes : JobDone(u, n) => JobDone(u, n)'
  <1>0. /\ object \in [Updates -> ObjectType] /\ jobs \in [JobNames -> JobType]
        /\ \A n \in Nodes : updateJobName(u, n) \in JobNames
        /\ cur \in Updates
    BY updateJobNameType, Zenon DEF FirmwareInv, TypeOK
  <1>1. CASE UNCHANGED <<object, jobs>>
    BY <1>1 DEF JobDone
  <1>2. ASSUME NEW v \in Updates, SetHold(v) \/ EditSpec(v) \/ Delete(v)
        PROVE  object[u].phase = "live" /\ UNCHANGED jobs
    <2>1. UNCHANGED jobs
      BY <1>2 DEF SetHold, EditSpec, Delete, Edited, clusterVars
    <2>2. object'[u] = object[u] \/ object[u].phase = "live" \/ u = v
      BY <1>0, <1>2, Zenon DEF SetHold, EditSpec, Delete
    <2>3. CASE u = v
      <3>1. CASE SetHold(u)
        <4>1. object' = [object EXCEPT ![u] = [object[u] EXCEPT !.hold = ~object[u].hold]]
          BY <3>1, Zenon DEF SetHold
        <4> QED
          BY <1>0, <2>1, <4>1 DEF ObjectType
      <3>2. CASE EditSpec(u)
        <4>1. PICK m \in Methods :
                 object' = [object EXCEPT ![u] = [object[u] EXCEPT !.method = m,
                                                    !.content = object[u].content + 1]]
          BY <3>2, Zenon DEF EditSpec
        <4> QED
          BY <1>0, <2>1, <4>1 DEF ObjectType
      <3>3. CASE Delete(u)
        BY <2>1, <3>3 DEF Delete
      <3> QED
        BY <1>2, <2>3, <3>1, <3>2, <3>3
    <2> QED
      BY <2>1, <2>2, <2>3
  <1>3. ASSUME AddFinalizer \/ RemoveFinalizer
        PROVE  object[u].phase = "live" /\ UNCHANGED jobs
    <2>1. UNCHANGED jobs
      BY <1>3 DEF AddFinalizer, RemoveFinalizer, clusterVars
    <2>2. CASE AddFinalizer
      <3>1. object' = [object EXCEPT ![cur] = [object[cur] EXCEPT !.finalizer = TRUE]]
        BY <2>2, Zenon DEF AddFinalizer
      <3> QED
        BY <1>0, <2>1, <3>1 DEF ObjectType
    <2>3. CASE RemoveFinalizer
      <3>1. object' = [object EXCEPT ![cur] = [object[cur] EXCEPT !.finalizer = FALSE,
                                                                  !.phase = "gone"]]
        BY <2>3, Zenon DEF RemoveFinalizer
      <3> QED
        BY <1>0, <2>1, <3>1 DEF ObjectType
    <2> QED
      BY <1>3, <2>2, <2>3
  <1>4. ASSUME NEW v \in Updates, FinalCleanup(v) \/ FinalCleanupFails(v)
        PROVE  object[u].phase = "live" /\ \A n \in Nodes : JobDone(u, n) => JobDone(u, n)'
    <2>1. object[v].phase = "deleting" /\ UNCHANGED object
      BY <1>4 DEF FinalCleanup, FinalCleanupFails
    <2>2. PICK gone \in SUBSET status[v].jobs :
             jobs' = [j \in JobNames |-> IF j \in gone THEN NoJob ELSE jobs[j]]
      BY <1>4 DEF FinalCleanup, FinalCleanupFails
    <2>3. \A j \in gone : j[1] = v
      BY Zenon DEF FirmwareInv, Recorded, Sound
    <2>4. \A n \in Nodes : updateJobName(u, n) \notin gone
      BY <2>1, <2>3 DEF updateJobName
    <2> QED
      BY <1>0, <2>1, <2>2, <2>4, Zenon DEF JobDone
  <1>5. ASSUME NEW v \in Updates, CollectJobs(v)
        PROVE  object[u].phase = "live" /\ \A n \in Nodes : JobDone(u, n) => JobDone(u, n)'
    <2>1. \A n \in Nodes : updateJobName(u, n)[1] # v
      BY <1>5 DEF CollectJobs, updateJobName
    <2> QED
      BY <1>0, <1>5, <2>1 DEF CollectJobs, JobDone
  <1>6. ASSUME NEW v \in Updates, NEW m \in Nodes, JobEnds(v, m)
        PROVE  object[u].phase = "live" /\ \A n \in Nodes : JobDone(u, n) => JobDone(u, n)'
    <2>1. PICK w \in {"succeeded", "failed"} :
             jobs' = [jobs EXCEPT ![updateJobName(v, m)] =
                                     [jobs[updateJobName(v, m)] EXCEPT !.state = w]]
      BY <1>6, Zenon DEF JobEnds
    <2>2. jobs[updateJobName(v, m)].state = "running" /\ UNCHANGED object
      BY <1>6 DEF JobEnds
    <2> QED
      BY <1>0, <2>1, <2>2 DEF JobDone
  <1>7. ASSUME NEW m \in Nodes, CreateUpdateJob(m)
        PROVE  object[u].phase = "live" /\ \A n \in Nodes : JobDone(u, n) => JobDone(u, n)'
    <2>1. /\ UNCHANGED object
          /\ \/ UNCHANGED jobs
             \/ \E v : /\ jobs' = [jobs EXCEPT ![updateJobName(cur, m)] = v]
                      /\ \/ jobs[updateJobName(cur, m)].state = "none"
                         \/ v = jobs[updateJobName(cur, m)]
      BY <1>7 DEF CreateUpdateJob
    <2> QED
      BY <1>0, <2>1 DEF JobDone
  <1>8. ASSUME NEW v \in Updates,
               Reconcile(v) /\ ~FinalCleanup(v)
        PROVE  UNCHANGED <<object, jobs>>
    BY <1>8, Zenon DEF Reconcile, BeginUpdate, BeginUpdateFails, CheckForNodeDrainStatus,
       StartUpdateJobs, ContinueUpdateJobs, HandleCanaryDone, UntaintNodesAndFinalize,
       clusterVars
  <1>9. ASSUME NEW n \in Nodes,
               \/ EnsureNodeTaint(n) \/ EvictPods(n) \/ RemoveNodeTaint(n)
               \/ PodStarts(n) \/ PodEnds(n) \/ NodeChanges(n)
        PROVE  UNCHANGED <<object, jobs>>
    BY <1>9, Zenon DEF EnsureNodeTaint, EvictPods, RemoveNodeTaint, PodStarts, PodEnds, NodeChanges
  <1>10. CASE PersistStatus \/ WriteFails \/ Crash \/ UNCHANGED vars
    BY <1>1, <1>10, Zenon DEF PersistStatus, WriteFails, Crash, clusterVars, vars
  <1> QED
    BY <1>1, <1>2, <1>3, <1>4, <1>5, <1>6, <1>7, <1>8, <1>9, <1>10, Zenon
       DEF Next, Continue, Environment, JobDone

(* The copy a pass will record: its completed nodes are those of the       *)
(* object and those continueUpdateJobs just saw succeed, and it says       *)
(* completed only at the end of an untainting loop.                        *)
FreshCopy ==
    /\ \/ copy'.completed = status[cur'].completed
       \/ /\ UNCHANGED jobs
          /\ \A n \in copy'.completed : n \in status[cur'].completed \/ JobDone(cur', n)
    /\ copy'.state = "completed"
       => \/ copy'.all = {}
          \/ /\ pc = "untaint" /\ UNCHANGED cur /\ copy'.all = copy.all /\ ~lastErr'
             /\ \E n \in Nodes : RemoveNodeTaint(n) /\ todo = {n}

(* A pass that comes to its status write from a loop over the nodes. *)
LEMMA LoopsRecord ==
  ASSUME FirmwareInv, NEW n \in Nodes, pc' = "record",
         EnsureNodeTaint(n) \/ EvictPods(n) \/ CreateUpdateJob(n) \/ RemoveNodeTaint(n)
  PROVE  FreshCopy
  <1>0. /\ status \in [Updates -> StatusType] /\ copy \in StatusType /\ cur \in Updates
        /\ pc \in {"taint", "evict"} => copy.completed = status[cur].completed
        /\ pc \in {"create", "untaint"} => copy = status[cur]
        /\ pc \in {"taint", "evict"} => copy.state \in {"not_started", "canary_done"}
        /\ pc = "create" => copy.state = "updating"
    BY Zenon DEF FirmwareInv, TypeOK, Tainting, Creating, Untainting
  <1>1. ASSUME NEW c \in StatusType, NEW err \in BOOLEAN
        PROVE  /\ AfterTainting(c, err).completed = c.completed
               /\ AfterTainting(c, err).state # "completed"
    BY DEF AfterTainting, StatusType
  <1>2. CASE EnsureNodeTaint(n)
    <2>1. copy' = AfterTainting(copy, TRUE) /\ UNCHANGED cur /\ pc = "taint"
      BY <1>2 DEF EnsureNodeTaint, Record
    <2> QED
      BY <1>0, <1>1, <2>1, Zenon DEF FreshCopy
  <1>3. CASE EvictPods(n)
    <2>1. pc = "evict" /\ UNCHANGED cur
      BY <1>3 DEF EvictPods
    <2>2. PICK err \in BOOLEAN, busy \in SUBSET Nodes :
             copy' = AfterTainting([copy EXCEPT !.draining = copy.draining \cup busy], err)
      BY <1>3, Zenon DEF EvictPods, Record
    <2> DEFINE c == [copy EXCEPT !.draining = copy.draining \cup busy]
    <2>3. c \in StatusType /\ c.completed = copy.completed
      BY <1>0 DEF StatusType
    <2> HIDE DEF c
    <2> QED
      BY <1>0, <1>1, <2>1, <2>2, <2>3, Zenon DEF FreshCopy, c
  <1>4. CASE CreateUpdateJob(n)
    <2>1. pc = "create" /\ UNCHANGED cur
      BY <1>4 DEF CreateUpdateJob
    <2>2. \/ copy' = [copy EXCEPT !.state = "error_cleanup"]
          \/ \E up, js : copy' = [copy EXCEPT !.updating = up, !.jobs = js]
      BY <1>4, <2>1, Zenon DEF CreateUpdateJob, Record
    <2>3. copy'.completed = copy.completed /\ copy'.state # "completed"
      BY <1>0, <2>1, <2>2, Zenon DEF StatusType
    <2> QED
      BY <1>0, <2>1, <2>3 DEF FreshCopy
  <1>5. CASE RemoveNodeTaint(n)
    <2>1. pc = "untaint" /\ UNCHANGED cur /\ todo = {n} /\ copy' = AfterUntainting(copy, lastErr')
      BY <1>5 DEF RemoveNodeTaint, Record
    <2>2. /\ copy'.completed = copy.completed /\ copy'.all = copy.all
          /\ copy'.state = "completed" => ~lastErr'
      BY <1>0, <2>1 DEF AfterUntainting, StatusType
    <2> QED
      BY <1>0, <1>5, <2>1, <2>2, Zenon DEF FreshCopy
  <1> QED
    BY <1>2, <1>3, <1>4, <1>5

(* A pass that comes to its status write at once. *)
LEMMA ReconcileRecords ==
  ASSUME FirmwareInv, NEW u \in Updates, Reconcile(u), pc' = "record"
  PROVE  FreshCopy
  <1>0. status[u] \in StatusType
    BY DEF FirmwareInv, TypeOK
  <1>1. cur' = u
    BY Zenon DEF Reconcile, BeginUpdate, BeginUpdateFails, CheckForNodeDrainStatus, StartUpdateJobs,
       ContinueUpdateJobs, HandleCanaryDone, UntaintNodesAndFinalize, FinalCleanup, Proceeds, Get
  <1>2. CASE BeginUpdateFails(u)
    <2>1. copy' = [status[u] EXCEPT !.state = "error"]
      BY <1>2 DEF BeginUpdateFails, Record
    <2> QED
      BY <1>0, <1>1, <2>1 DEF FreshCopy, StatusType
  <1>3. CASE CheckForNodeDrainStatus(u)
    <2>1. \/ copy' = [status[u] EXCEPT !.state = "error"]
          \/ \E d : \/ copy' = [status[u] EXCEPT !.draining = d, !.state = "updating"]
                    \/ copy' = [status[u] EXCEPT !.draining = d, !.state = status[u].state]
      BY <1>3, Zenon DEF CheckForNodeDrainStatus, Record
    <2>2. status[u].state = "draining"
      BY <1>3 DEF CheckForNodeDrainStatus, Proceeds
    <2> QED
      BY <1>0, <1>1, <2>1, <2>2, Zenon DEF FreshCopy, StatusType
  <1>4. CASE StartUpdateJobs(u)
    BY <1>0, <1>1, <1>4, Zenon DEF StartUpdateJobs, Proceeds, FreshCopy
  <1>5. CASE ContinueUpdateJobs(u)
    <2>1. PICK seen \in SUBSET JobsIn(u, "succeeded"), failed \in SUBSET Nodes :
             copy' = [status[u] EXCEPT !.error = failed, !.updating = {},
                                       !.completed = status[u].completed \cup seen,
                                       !.state = AfterJobs(u, failed)]
      BY <1>5, Zenon DEF ContinueUpdateJobs, Record, JobsIn
    <2>2. AfterJobs(u, failed) # "completed"
      BY DEF AfterJobs
    <2>3. copy'.completed = status[u].completed \cup seen /\ copy'.state # "completed"
      BY <1>0, <2>1, <2>2 DEF StatusType
    <2>4. \A n \in seen : JobDone(u, n)
      BY DEF JobsIn, JobDone
    <2>5. UNCHANGED jobs
      BY <1>5 DEF ContinueUpdateJobs, clusterVars
    <2> QED
      BY <1>1, <2>3, <2>4, <2>5, Zenon DEF FreshCopy
  <1>6. CASE HandleCanaryDone(u)
    <2>1. copy' = [status[u] EXCEPT !.state = "cleanup"]
      BY <1>6 DEF HandleCanaryDone, Record
    <2> QED
      BY <1>0, <1>1, <2>1 DEF FreshCopy, StatusType
  <1>7. CASE UntaintNodesAndFinalize(u)
    <2>1. status[u].all = {} /\ copy' = AfterUntainting(status[u], FALSE)
      BY <1>7, Zenon DEF UntaintNodesAndFinalize, Record
    <2> QED
      BY <1>0, <1>1, <2>1 DEF FreshCopy, AfterUntainting, StatusType
  <1> QED
    BY <1>2, <1>3, <1>4, <1>5, <1>6, <1>7 DEF Reconcile, BeginUpdate, FinalCleanup

(* A status write lies ahead because it did before, or because a pass just *)
(* came to it.                                                             *)
LEMMA RecordAhead ==
  ASSUME FirmwareInv, [Next]_vars, pc' = "record"
  PROVE  \/ pc = "record" /\ UNCHANGED <<cur, copy>>
         \/ FreshCopy
  <1>1. CASE \E u \in Updates : Reconcile(u)
    BY <1>1, ReconcileRecords
  <1>2. CASE \E n \in Nodes : EnsureNodeTaint(n) \/ EvictPods(n) \/ CreateUpdateJob(n)
                                 \/ RemoveNodeTaint(n)
    BY <1>2, LoopsRecord
  <1>3. ASSUME PersistStatus \/ AddFinalizer \/ RemoveFinalizer \/ WriteFails \/ Crash
        PROVE  FALSE
    BY <1>3 DEF PersistStatus, AddFinalizer, RemoveFinalizer, WriteFails, Crash, EndPass
  <1>4. CASE Environment \/ (\E u \in Updates : FinalCleanupFails(u)) \/ UNCHANGED vars
    <2> SUFFICES UNCHANGED <<pc, cur, copy>>
      OBVIOUS
    <2> QED
      BY <1>4 DEF Environment, SetHold, EditSpec, Delete, Edited, CollectJobs, JobEnds, PodStarts,
         PodEnds, NodeChanges, FinalCleanupFails, vars
  <1> QED
    BY <1>1, <1>2, <1>3, <1>4 DEF Next, Continue

(* Only the tainting loop of an update adds its taint. *)
LEMMA UntaintedStays ==
  ASSUME FirmwareInv, [Next]_vars, NEW u \in Updates, OwnTaint(u), NEW n \in Nodes,
         UpdateTaint[u] \notin taints[n], ~(pc = "taint" /\ cur = u)
  PROVE  UpdateTaint[u] \notin taints'[n]
  <1>0. taints \in [Nodes -> SUBSET TaintKeys] /\ cur \in Updates
    BY DEF FirmwareInv, TypeOK
  <1>1. CASE UNCHANGED taints
    BY <1>1
  <1>2. ASSUME NEW m \in Nodes, EnsureNodeTaint(m)
        PROVE  UpdateTaint[u] \notin taints'[n]
    <2>1. cur # u
      BY <1>2 DEF EnsureNodeTaint
    <2>2. UpdateTaint[cur] # UpdateTaint[u]
      BY <1>0, <2>1 DEF OwnTaint
    <2>3. UNCHANGED taints \/ taints' = [taints EXCEPT ![m] = taints[m] \cup {UpdateTaint[cur]}]
      BY <1>2, Zenon DEF EnsureNodeTaint
    <2> QED
      BY <1>0, <2>2, <2>3
  <1>3. ASSUME NEW m \in Nodes, RemoveNodeTaint(m)
        PROVE  UpdateTaint[u] \notin taints'[n]
    <2>1. UNCHANGED taints \/ taints' = [taints EXCEPT ![m] = taints[m] \ {UpdateTaint[cur]}]
      BY <1>3 DEF RemoveNodeTaint
    <2> QED
      BY <1>0, <2>1
  <1>4. ASSUME NEW v \in Updates, Reconcile(v) \/ FinalCleanupFails(v)
        PROVE  UNCHANGED taints
    BY <1>4, Zenon DEF Reconcile, FinalCleanupFails, BeginUpdate, BeginUpdateFails,
       CheckForNodeDrainStatus, StartUpdateJobs, ContinueUpdateJobs, HandleCanaryDone,
       UntaintNodesAndFinalize, FinalCleanup, clusterVars
  <1>5. ASSUME NEW m \in Nodes, EvictPods(m) \/ CreateUpdateJob(m)
        PROVE  UNCHANGED taints
    BY <1>5 DEF EvictPods, CreateUpdateJob
  <1>6. CASE PersistStatus \/ AddFinalizer \/ RemoveFinalizer \/ WriteFails \/ Crash
    BY <1>6 DEF PersistStatus, AddFinalizer, RemoveFinalizer, WriteFails, Crash, clusterVars
  <1>7. CASE Environment \/ UNCHANGED vars
    BY <1>7 DEF Environment, SetHold, EditSpec, Delete, Edited, CollectJobs, JobEnds, PodStarts,
       PodEnds, NodeChanges, clusterVars, vars
  <1> QED
    BY <1>1, <1>2, <1>3, <1>4, <1>5, <1>6, <1>7, Zenon DEF Next, Continue

(* An untainting loop goes on, takes a node, or begins. *)
LEMMA UntaintingStep ==
  ASSUME FirmwareInv, [Next]_vars, pc' = "untaint"
  PROVE  \/ pc = "untaint" /\ UNCHANGED <<cur, copy, todo, lastErr>>
         \/ pc = "untaint" /\ \E n \in Nodes : RemoveNodeTaint(n) /\ UNCHANGED copy
                                               /\ todo' = todo \ {n}
         \/ copy'.all = todo'
  <1>1. ASSUME NEW u \in Updates, Reconcile(u)
        PROVE  copy'.all = todo'
    BY <1>1 DEF Reconcile, BeginUpdate, BeginUpdateFails, CheckForNodeDrainStatus,
       StartUpdateJobs, ContinueUpdateJobs, HandleCanaryDone, UntaintNodesAndFinalize,
       FinalCleanup, Record
  <1>2. ASSUME NEW n \in Nodes, RemoveNodeTaint(n)
        PROVE  pc = "untaint" /\ UNCHANGED copy /\ todo' = todo \ {n}
    BY <1>2 DEF RemoveNodeTaint, Record
  <1>3. ASSUME NEW n \in Nodes, EnsureNodeTaint(n) \/ EvictPods(n) \/ CreateUpdateJob(n)
        PROVE  FALSE
    BY <1>3 DEF EnsureNodeTaint, EvictPods, CreateUpdateJob, Record
  <1>4. ASSUME PersistStatus \/ AddFinalizer \/ RemoveFinalizer \/ WriteFails \/ Crash
        PROVE  FALSE
    BY <1>4 DEF PersistStatus, AddFinalizer, RemoveFinalizer, WriteFails, Crash, EndPass
  <1>5. CASE Environment \/ (\E u \in Updates : FinalCleanupFails(u)) \/ UNCHANGED vars
    BY <1>5 DEF Environment, SetHold, EditSpec, Delete, Edited, CollectJobs, JobEnds, PodStarts,
       PodEnds, NodeChanges, FinalCleanupFails, loopVars, vars
  <1> QED
    BY <1>1, <1>2, <1>3, <1>4, <1>5 DEF Next, Continue

(* Every step keeps the invariant. *)
LEMMA DoneStep == DoneInv /\ [Next]_vars => DoneInv'
  <1> SUFFICES ASSUME DoneInv, [Next]_vars PROVE DoneInv'
    OBVIOUS
  <1>0. FirmwareInv /\ FirmwareInv'
    BY FirmwareStep DEF DoneInv
  <1>1. /\ status \in [Updates -> StatusType] /\ copy \in StatusType /\ cur \in Updates
        /\ cur' \in Updates /\ copy' \in StatusType /\ status' \in [Updates -> StatusType]
        /\ taints \in [Nodes -> SUBSET TaintKeys]
    BY <1>0 DEF FirmwareInv, TypeOK
  <1>2. /\ pc = "taint" => status[cur].state \in {"not_started", "canary_done"}
        /\ pc = "untaint" => status[cur] = copy
    BY <1>0, Zenon DEF FirmwareInv, Tainting, Untainting
  <1>3. UNCHANGED status
        \/ (PersistStatus /\ pc = "record" /\ UNCHANGED <<taints, jobs, object>>
              /\ status' = [status EXCEPT ![cur] = copy])
    BY <1>0, OnlyWritesShow DEF PersistStatus, SetHold, Edited, clusterVars
  <1>4. ASSUME NEW u \in Updates, object'[u].phase = "live", NEW n \in status'[u].completed
        PROVE  JobDone(u, n)'
    <2>1. object[u].phase = "live" /\ \A m \in Nodes : JobDone(u, m) => JobDone(u, m)'
      BY <1>0, <1>4, SuccessStays
    <2>2. n \in Nodes
      BY <1>1, <1>4 DEF StatusType
    <2>3. CASE UNCHANGED status
      BY <1>4, <2>1, <2>2, <2>3 DEF DoneInv
    <2>4. CASE pc = "record" /\ status' = [status EXCEPT ![cur] = copy]
      BY <1>1, <1>4, <2>1, <2>2, <2>4, Zenon DEF DoneInv
    <2> QED
      BY <1>3, <2>3, <2>4
  <1>5. ASSUME pc' = "record", object'[cur'].phase = "live", NEW n \in copy'.completed
        PROVE  jobs'[updateJobName(cur', n)].state = "succeeded"
    <2>1. /\ object[cur'].phase = "live"
          /\ \A m \in Nodes : jobs[updateJobName(cur', m)].state = "succeeded"
                               => jobs'[updateJobName(cur', m)].state = "succeeded"
      <3>1. ASSUME NEW u \in Updates, object'[u].phase = "live"
            PROVE  /\ object[u].phase = "live"
                   /\ \A m \in Nodes : jobs[updateJobName(u, m)].state = "succeeded"
                               => jobs'[updateJobName(u, m)].state = "succeeded"
        BY <1>0, <3>1, SuccessStays DEF JobDone
      <3> QED
        BY <1>1, <1>5, <3>1, Zenon
    <2>2. n \in Nodes
      BY <1>1 DEF StatusType
    <2>3. jobs[updateJobName(cur', n)].state = "succeeded"
      <3>1. \A m \in status[cur'].completed : jobs[updateJobName(cur', m)].state = "succeeded"
        BY <1>1, <2>1, Zenon DEF DoneInv, JobDone
      <3>2. CASE pc = "record" /\ UNCHANGED <<cur, copy>>
        BY <2>1, <3>2 DEF DoneInv, JobDone
      <3>3. CASE FreshCopy
        BY <3>1, <3>3 DEF FreshCopy, JobDone
      <3> QED
        BY <1>0, <1>5, <3>2, <3>3, RecordAhead
    <2> QED
      BY <2>1, <2>2, <2>3 DEF JobDone
  <1>6. ASSUME NEW u \in Updates, OwnTaint(u), status'[u].state = "completed",
               NEW n \in status'[u].all
        PROVE  UpdateTaint[u] \notin taints'[n]
    <2>1. n \in Nodes
      BY <1>1 DEF StatusType
    <2>2. CASE UNCHANGED status
      BY <1>0, <1>2, <1>6, <2>1, <2>2, UntaintedStays DEF DoneInv, Untainted
    <2>3. CASE pc = "record" /\ UNCHANGED taints /\ status' = [status EXCEPT ![cur] = copy]
      BY <1>1, <1>6, <2>3 DEF DoneInv, Untainted
    <2> QED
      BY <1>3, <2>2, <2>3
  <1>7. ASSUME NEW n \in Nodes, RemoveNodeTaint(n), ~lastErr', OwnTaint(cur)
        PROVE  UNCHANGED cur /\ \A m \in (copy.all \ todo) \cup {n} : UpdateTaint[cur] \notin taints'[m]
    <2>1. /\ UNCHANGED cur /\ ~lastErr /\ pc = "untaint"
          /\ taints' = [taints EXCEPT ![n] = taints[n] \ {UpdateTaint[cur]}]
      BY <1>7 DEF RemoveNodeTaint
    <2>2. \A m \in copy.all \ todo : UpdateTaint[cur] \notin taints[m]
      BY <1>7, <2>1, Zenon DEF DoneInv, Untainted
    <2>3. copy.all \in SUBSET Nodes
      BY <1>1 DEF StatusType
    <2> QED
      BY <1>1, <2>1, <2>2, <2>3
  <1>8. ASSUME pc' = "untaint", OwnTaint(cur'), ~lastErr', NEW n \in copy'.all \ todo'
        PROVE  UpdateTaint[cur'] \notin taints'[n]
    <2>1. n \in Nodes
      BY <1>1 DEF StatusType
    <2>2. CASE pc = "untaint" /\ UNCHANGED <<cur, copy, todo, lastErr>>
      <3>1. UpdateTaint[cur] \notin taints[n] /\ OwnTaint(cur)
        BY <1>8, <2>2 DEF DoneInv, Untainted
      <3> QED
        BY <1>0, <1>1, <2>1, <2>2, <3>1, UntaintedStays
    <2>3. ASSUME NEW m \in Nodes, RemoveNodeTaint(m), UNCHANGED copy, todo' = todo \ {m}
          PROVE  UpdateTaint[cur'] \notin taints'[n]
      <3>1. UNCHANGED cur
        BY <2>3 DEF RemoveNodeTaint
      <3> QED
        BY <1>7, <1>8, <2>3, <3>1
    <2> QED
      BY <1>0, <1>8, <2>2, <2>3, UntaintingStep
  <1>9. ASSUME pc' = "record", OwnTaint(cur'), copy'.state = "completed", NEW n \in copy'.all
        PROVE  UpdateTaint[cur'] \notin taints'[n]
    <2>1. n \in Nodes
      BY <1>1 DEF StatusType
    <2>2. CASE pc = "record" /\ UNCHANGED <<cur, copy>>
      <3>1. UpdateTaint[cur] \notin taints[n] /\ OwnTaint(cur)
        BY <1>9, <2>2 DEF DoneInv, Untainted
      <3> QED
        BY <1>0, <1>1, <2>1, <2>2, <3>1, UntaintedStays
    <2>3. CASE FreshCopy
      <3>1. PICK m \in Nodes : /\ RemoveNodeTaint(m) /\ todo = {m} /\ ~lastErr'
                               /\ UNCHANGED cur /\ copy'.all = copy.all
        BY <1>9, <2>3 DEF FreshCopy
      <3> QED
        BY <1>7, <1>9, <3>1
    <2> QED
      BY <1>0, <1>9, <2>2, <2>3, RecordAhead
  <1>10. (\A u \in Updates :
            object[u].phase = "live" => \A n \in status[u].completed : JobDone(u, n))'
    BY <1>4
  <1>11. (pc = "record" /\ object[cur].phase = "live"
            => \A n \in copy.completed : JobDone(cur, n))'
    BY <1>5 DEF JobDone
  <1>12. (\A u \in Updates :
            OwnTaint(u) /\ status[u].state = "completed" => Untainted(u, status[u].all))'
    BY <1>6 DEF Untainted, OwnTaint
  <1>13. (pc = "untaint" /\ OwnTaint(cur) /\ ~lastErr => Untainted(cur, copy.all \ todo))'
    BY <1>8 DEF Untainted, OwnTaint
  <1>14. (pc = "record" /\ OwnTaint(cur) /\ copy.state = "completed"
            => Untainted(cur, copy.all))'
    BY <1>9 DEF Untainted, OwnTaint
  <1> QED
    BY <1>0, <1>10, <1>11, <1>12, <1>13, <1>14, Zenon DEF DoneInv

(* No update has begun: nothing is completed. *)
LEMMA DoneInit == Init => DoneInv
  <1> SUFFICES ASSUME Init PROVE DoneInv
    OBVIOUS
  <1>1. FirmwareInv
    BY FirmwareInit
  <1>2. pc = "idle" /\ \A u \in Updates : status[u] = NewStatus
    BY DEF Init
  <1>3. NewStatus.state = "not_started" /\ NewStatus.completed = {}
    BY DEF NewStatus
  <1> QED
    BY <1>1, <1>2, <1>3 DEF DoneInv

(* What status.completed, state completed and a loop without an error say  *)
(* of Jobs and taints always holds.                                        *)
THEOREM DoneInvariant == Spec => []DoneInv
  BY DoneInit, DoneStep, PTL DEF Spec

(* A completed update that is not being deleted has updated every node it  *)
(* selected, with a Job that succeeded, and has taken its taint off all of *)
(* them: untaintNodesAndFinalize reports success only after a loop that    *)
(* met no error, and continueUpdateJobs counts only Jobs that succeeded.   *)
THEOREM CompletedIsUpdated == Spec => []CompletedMeansUpdated
  <1>1. DoneInv => CompletedMeansUpdated
    <2> SUFFICES ASSUME DoneInv, NEW u \in Updates, OwnTaint(u),
                        status[u].state = "completed", object[u].phase = "live",
                        NEW n \in status[u].all \cup status[u].pending
                 PROVE  JobDone(u, n) /\ UpdateTaint[u] \notin taints[n]
      BY DEF CompletedMeansUpdated, JobDone
    <2>1. status[u].completed = status[u].all /\ status[u].pending = {}
      BY Zenon DEF DoneInv, FirmwareInv, Recorded, Sound
    <2> QED
      BY <2>1, Zenon DEF DoneInv, Untainted
  <1> QED
    BY <1>1, DoneInvariant, PTL
=============================================================================
