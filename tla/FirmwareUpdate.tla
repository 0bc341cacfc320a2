--------------------------- MODULE FirmwareUpdate ---------------------------
(***************************************************************************)
(* The GPUFirmwareUpdate controller.                                       *)
(*                                                                         *)
(* One worker runs reconcile passes.  A pass reads the update object,      *)
(* dispatches on status.state, works on its copy of the status and writes  *)
(* it back.  A write with an object that has changed since it was read is  *)
(* refused (optimistic concurrency), after the pass has already tainted,   *)
(* evicted, created or untainted.  Between any two calls of a pass Jobs    *)
(* end, pods come and go, admins edit or delete the object, nodes lose     *)
(* readiness, and the process may die.                                     *)
(*                                                                         *)
(* Lists of node names are sets: the order of a list only decides which    *)
(* candidate becomes the canary, and the informer cache gives no order.    *)
(***************************************************************************)
EXTENDS Naturals, FiniteSets

CONSTANTS
    Updates, Nodes,
    NodeSelector,   \* the nodes spec.nodeSelector matches
    UpdateTaint,    \* spec.updateTaint
    Methods,        \* values of spec.updateMethod this instance uses
    MayHappen,      \* the moves of the environment this instance allows
    MayFail,        \* the operator's calls that may fail, and "crash"
    MaxFailures,    \* failing calls and operator restarts
    MaxEdits        \* changes of an update object and of node readiness

TaintKeys == {UpdateTaint[u] : u \in Updates}

States == {"not_started", "draining", "updating", "canary_done", "cleanup",
           "error_cleanup", "completed", "error"}

(* The states in which ValidateUpdate freezes the spec.                    *)
inProgressStates == {"draining", "updating", "canary_done", "cleanup", "error_cleanup"}

JobNames == Updates \X Nodes

ASSUME ConstantsAssumption ==
    /\ NodeSelector \in [Updates -> SUBSET Nodes]
    /\ Methods \subseteq {"direct", "canary"}
    /\ MaxFailures \in Nat /\ MaxEdits \in Nat

VARIABLES
    \* the cluster
    taints,     \* update taints on each node
    ready,      \* node condition Ready
    pods,       \* GPU workload of a node: none, running, terminating
    jobs,       \* update Jobs, by name
    \* the update objects
    object,     \* phase, finalizer and spec
    status,     \* status.state and status.nodeInfos
    \* the pass in progress
    pc, cur,    \* its next call, and its update
    copy,       \* its copy of the status
    todo, at,   \* nodes the loop has still to visit; the node it is at
    lastErr,    \* the loop met an error
    stale,      \* the object has changed since the pass read it
    spent       \* failures and edits so far

clusterVars == <<taints, ready, pods, jobs>>
loopVars == <<todo, at, lastErr, stale>>
vars == <<clusterVars, object, status, pc, cur, copy, loopVars, spent>>

-----------------------------------------------------------------------------
(* Types and initial state.                                                *)

StatusType ==
    [state : States,
     all : SUBSET Nodes, pending : SUBSET Nodes, draining : SUBSET Nodes,
     updating : SUBSET Nodes, completed : SUBSET Nodes, error : SUBSET Nodes,
     jobs : SUBSET JobNames,
     vetted : Nat]      \* ghost: the content that verifyContentImage saw

ObjectType ==
    [phase : {"live", "deleting", "gone"}, finalizer : BOOLEAN,
     method : {"direct", "canary"}, hold : BOOLEAN,
     content : Nat]     \* spec.content, numbered by its edits

JobType ==
    [state : {"none", "running", "succeeded", "failed"}, content : Nat]

NoJob == [state |-> "none", content |-> 0]

NewStatus ==
    [state |-> "not_started", all |-> {}, pending |-> {}, draining |-> {},
     updating |-> {}, completed |-> {}, error |-> {}, jobs |-> {}, vetted |-> 0]

Steps == {"idle", "taint", "evict", "create", "untaint", "record", "finalizer", "release"}

TypeOK ==
    /\ taints \in [Nodes -> SUBSET TaintKeys]
    /\ ready \in [Nodes -> BOOLEAN]
    /\ pods \in [Nodes -> {"none", "running", "terminating"}]
    /\ jobs \in [JobNames -> JobType]
    /\ object \in [Updates -> ObjectType]
    /\ status \in [Updates -> StatusType]
    /\ pc \in Steps
    /\ cur \in Updates
    /\ copy \in StatusType
    /\ todo \in SUBSET Nodes /\ at \in SUBSET Nodes
    /\ lastErr \in BOOLEAN /\ stale \in BOOLEAN
    /\ spent \in [failures : Nat, edits : Nat]

Init ==
    /\ taints = [n \in Nodes |-> {}]
    /\ ready = [n \in Nodes |-> TRUE]
    /\ pods \in [Nodes -> {"none", "running"}]
    /\ jobs = [j \in JobNames |-> NoJob]
    /\ object \in [Updates -> [phase : {"live"}, finalizer : {FALSE}, method : Methods,
                              hold : BOOLEAN, content : {0}]]
    /\ status = [u \in Updates |-> NewStatus]
    /\ pc = "idle" /\ cur \in Updates /\ copy = NewStatus
    /\ todo = {} /\ at = {} /\ lastErr = FALSE /\ stale = FALSE
    /\ spent = [failures |-> 0, edits |-> 0]

-----------------------------------------------------------------------------
(* Failures and the shape of a pass.                                       *)

(* A call of kind k fails; the budget bounds how often that happens.       *)
Fails(k) ==
    /\ k \in MayFail /\ spent.failures < MaxFailures
    /\ spent' = [spent EXCEPT !.failures = @ + 1]

Works == UNCHANGED spent

(* r.Get at the top of Reconcile.                                          *)
Get(u) ==
    /\ pc = "idle" /\ object[u].phase # "gone"
    /\ cur' = u /\ stale' = FALSE /\ lastErr' = FALSE /\ at' = {}

EndPass ==
    /\ pc' = "idle" /\ copy' = NewStatus /\ todo' = {} /\ at' = {}
    /\ lastErr' = FALSE /\ stale' = FALSE /\ UNCHANGED cur

(* Go on to the status write with the copy c.                              *)
Record(c) ==
    /\ pc' = "record" /\ copy' = c /\ todo' = {} /\ at' = {}

(* Variant: a held canary is not cleaned up when its update is deleted.    *)
DeletedEarlyButHeld(u) ==
    /\ object[u].phase = "deleting"
    /\ status[u].state \in {"not_started", "draining"}

(* A deleted update that has touched no GPU yet is cleaned up at once; one *)
(* that is updating is waited for.                                         *)
DeletedEarly(u) ==
    /\ object[u].phase = "deleting"
    /\ status[u].state \in {"not_started", "draining", "canary_done"}

Proceeds(u, state) ==
    /\ Get(u) /\ status[u].state = state /\ ~DeletedEarly(u)

-----------------------------------------------------------------------------
(* Selecting, tainting and draining.                                       *)

(* selectNodesToUpdate: the matching nodes that are Ready.                 *)
Candidates(u) == {n \in NodeSelector[u] : ready[n]}

(* The first batch: everything, or one canary.                             *)
Batches(u) ==
    IF object[u].method = "canary"
    THEN {{n} : n \in Candidates(u)}
    ELSE {Candidates(u)} \ {{}}

(* updateJobName, createUpdateJobObjForNode: one name per update and node, *)
(* and a Job that flashes the content the object names.                    *)
updateJobName(u, n) == <<u, n>>
UpdateJobObj(u) == [state |-> "running", content |-> object[u].content]

(* The checks before any node is touched: parameters, OpenShift resources, *)
(* content image, the list of nodes, and that a node matches.              *)
BeginUpdateFails(u) ==
    /\ Proceeds(u, "not_started")
    /\ \/ Fails("verify")
       \/ Works /\ Candidates(u) = {}
    /\ Record([status[u] EXCEPT !.state = "error"])
    /\ UNCHANGED <<clusterVars, object, status>>

BeginUpdate(u) ==
    /\ Proceeds(u, "not_started")
    /\ \E batch \in Batches(u) :
          /\ todo' = batch
          /\ copy' = [status[u] EXCEPT !.all = batch,
                                       !.pending = Candidates(u) \ batch,
                                       !.draining = {},
                                       !.vetted = object[u].content]
    /\ pc' = "taint"
    /\ Works /\ UNCHANGED <<clusterVars, object, status>>

(* The copy after taintAndDrainNodes.  The caller in handleCanaryDone      *)
(* keeps the old list of draining nodes when an error came back.           *)
AfterTainting(c, err) ==
    CASE ~err -> [c EXCEPT !.state = "draining"]
      [] err /\ c.state = "not_started" -> [c EXCEPT !.state = "error"]
      [] OTHER -> [c EXCEPT !.state = "error", !.draining = status[cur].draining]

(* EnsureNodeTaint in the loop of taintAndDrainNodes; an error ends the    *)
(* loop.                                                                   *)
EnsureNodeTaint(n) ==
    /\ pc = "taint" /\ n \in todo
    /\ \/ /\ Works
          /\ taints' = [taints EXCEPT ![n] = @ \cup {UpdateTaint[cur]}]
          /\ pc' = "evict" /\ at' = {n} /\ todo' = todo \ {n}
          /\ UNCHANGED <<copy, lastErr>>
       \/ /\ Fails("taint")
          /\ Record(AfterTainting(copy, TRUE)) /\ lastErr' = TRUE
          /\ UNCHANGED taints
    /\ UNCHANGED <<ready, pods, jobs, object, status, cur, stale>>

(* The rest of the iteration for the node just tainted: list its GPU pods  *)
(* and evict them.  A terminating pod is left alone, and a                 *)
(* PodDisruptionBudget may refuse: neither is an error.                    *)
EvictPods(n) ==
    /\ pc = "evict" /\ at = {n}
    /\ \E err, listed \in BOOLEAN, evicted \in SUBSET {n} :
          /\ \/ err = lastErr /\ listed /\ Works
             \/ err /\ ~listed /\ evicted = {} /\ Fails("list")
             \/ err /\ listed /\ evicted = {} /\ pods[n] = "running" /\ Fails("evict")
          /\ evicted # {} => pods[n] = "running"
          /\ pods' = [m \in Nodes |-> IF m \in evicted THEN "terminating" ELSE pods[m]]
          /\ lastErr' = err
          /\ LET busy == {m \in {n} : listed /\ pods[m] # "none"}
                 c == [copy EXCEPT !.draining = @ \cup busy]
             IN  IF todo = {}
                 THEN Record(AfterTainting(c, err))
                 ELSE pc' = "taint" /\ copy' = c /\ at' = {} /\ UNCHANGED todo
    /\ UNCHANGED <<taints, ready, jobs, object, status, cur, stale>>

(* Variant: a node counts as drained as soon as its pods terminate.        *)
CheckForNodeDrainStatusEager(u) ==
    /\ Proceeds(u, "draining")
    /\ LET remaining == {n \in status[u].draining : pods[n] = "running"}
       IN  \E evicted \in SUBSET remaining :
              /\ Works
              /\ pods' = [n \in Nodes |-> IF n \in evicted THEN "terminating" ELSE pods[n]]
              /\ Record([status[u] EXCEPT
                            !.draining = remaining,
                            !.state = IF remaining = {} THEN "updating" ELSE @])
    /\ UNCHANGED <<taints, ready, jobs, object, status>>

(* Each draining node is looked at again and its pods evicted again; the   *)
(* last one that is empty starts the update.                               *)
CheckForNodeDrainStatus(u) ==
    /\ Proceeds(u, "draining")
    /\ LET remaining == {n \in status[u].draining : pods[n] # "none"}
       IN  \E evicted \in SUBSET {n \in remaining : pods[n] = "running"} :
              /\ pods' = [n \in Nodes |-> IF n \in evicted THEN "terminating" ELSE pods[n]]
              /\ \/ /\ Works
                    /\ Record([status[u] EXCEPT
                                  !.draining = remaining,
                                  !.state = IF remaining = {} THEN "updating" ELSE @])
                 \/ /\ status[u].draining # {} /\ Fails("list")
                    /\ Record([status[u] EXCEPT !.state = "error"])
                 \/ /\ \E n \in remaining \ evicted : pods[n] = "running"
                    /\ Fails("evict")
                    /\ Record([status[u] EXCEPT !.state = "error"])
    /\ UNCHANGED <<taints, ready, jobs, object, status>>

-----------------------------------------------------------------------------
(* Updating.                                                               *)

(* startUpdateJobs, up to its loop over the nodes not yet updated.         *)
StartUpdateJobs(u) ==
    /\ Proceeds(u, "updating") /\ status[u].updating = {}
    /\ copy' = status[u] /\ todo' = status[u].all \ status[u].completed
    /\ pc' = IF todo' = {} THEN "record" ELSE "create"
    /\ Works /\ UNCHANGED <<clusterVars, object, status>>

(* One iteration.  A Job that exists is kept.  After the last one the copy *)
(* names the updating nodes and the Jobs; an error leaves both out.        *)
CreateUpdateJob(n) ==
    /\ pc = "create" /\ n \in todo
    /\ \/ /\ Works
          /\ jobs' = [jobs EXCEPT ![updateJobName(cur, n)] =
                         IF @.state = "none" THEN UpdateJobObj(cur) ELSE @]
          /\ IF todo = {n}
             THEN LET toUpdate == copy.all \ copy.completed
                  IN  Record([copy EXCEPT
                                 !.updating = toUpdate,
                                 !.jobs = @ \cup {updateJobName(cur, m) : m \in toUpdate}])
             ELSE todo' = todo \ {n} /\ UNCHANGED <<pc, copy, at>>
       \/ /\ Fails("create")
          /\ Record([copy EXCEPT !.state = "error_cleanup"])
          /\ UNCHANGED jobs
    /\ UNCHANGED <<taints, ready, pods, object, status, cur, lastErr, stale>>

JobsIn(u, state) == {n \in Nodes : jobs[updateJobName(u, n)].state = state}

(* Variant: errors are looked at only once nothing waits behind a canary.  *)
AfterJobsCanaryFirst(u, failed) ==
    CASE object[u].method = "canary" /\ status[u].pending # {} -> "canary_done"
      [] failed # {} /\ status[u].pending = {} -> "error_cleanup"
      [] OTHER -> "cleanup"

(* Where the last finished Job leads.                                      *)
AfterJobs(u, failed) ==
    CASE failed # {} -> "error_cleanup"
      [] failed = {} /\ object[u].method = "canary" /\ status[u].pending # {} -> "canary_done"
      [] OTHER -> "cleanup"

(* Variant: a failed Job counts as one that still runs.                    *)
ContinueUpdateJobsPatiently(u) ==
    /\ Proceeds(u, "updating") /\ status[u].updating # {}
    /\ (JobsIn(u, "running") \cup JobsIn(u, "failed")) \ status[u].completed = {}
    /\ LET updated == JobsIn(u, "succeeded") \ status[u].completed
       IN  Record([status[u] EXCEPT !.updating = {}, !.completed = @ \cup updated,
                                    !.state = AfterJobs(u, {})])
    /\ Works /\ UNCHANGED <<clusterVars, object, status>>

(* continueUpdateJobs.  While a Job runs nothing is written.  A Job whose  *)
(* log cannot be read, or lacks the completion tag, has failed.            *)
ContinueUpdateJobs(u) ==
    /\ Proceeds(u, "updating") /\ status[u].updating # {}
    /\ JobsIn(u, "running") \ status[u].completed = {}
    /\ LET succeeded == JobsIn(u, "succeeded") \ status[u].completed
       IN  \E unread \in SUBSET succeeded :
              /\ IF unread = {} THEN Works ELSE Fails("logs")
              /\ LET failed == (JobsIn(u, "failed") \ status[u].completed) \cup unread
                 IN  Record([status[u] EXCEPT
                                !.error = failed,
                                !.updating = {},
                                !.completed = @ \cup (succeeded \ unread),
                                !.state = AfterJobs(u, failed)])
    /\ UNCHANGED <<clusterVars, object, status>>

(* The rest follows the canary unless it is held; with nothing left the    *)
(* update is over.                                                         *)
HandleCanaryDone(u) ==
    /\ Proceeds(u, "canary_done") /\ ~object[u].hold
    /\ LET remaining == status[u].pending
       IN  IF remaining = {}
           THEN Record([status[u] EXCEPT !.state = "cleanup"])
           ELSE /\ copy' = [status[u] EXCEPT !.pending = {}, !.all = @ \cup remaining,
                                             !.draining = {}]
                /\ todo' = remaining /\ pc' = "taint"
    /\ Works /\ UNCHANGED <<clusterVars, object, status>>

-----------------------------------------------------------------------------
(* Cleaning up, and the writes.                                            *)

(* Variant: taints that could not be removed do not count as errors.       *)
AfterUntaintingAnyway(c, err) ==
    [c EXCEPT !.state = IF c.state # "cleanup" THEN "error" ELSE "completed"]

(* Variant: a state the dispatch of Reconcile does not know.               *)
AfterUntaintingMisspelt(c, err) ==
    [c EXCEPT !.state = IF err \/ c.state # "cleanup" THEN "error" ELSE "complete"]

(* The copy after untaintNodesAndFinalize: only an untainting that began   *)
(* in state cleanup and met no error is a success.                         *)
AfterUntainting(c, err) ==
    [c EXCEPT !.state = IF err \/ c.state # "cleanup" THEN "error" ELSE "completed"]

UntaintNodesAndFinalize(u) ==
    /\ Get(u)
    /\ DeletedEarly(u) \/ status[u].state \in {"cleanup", "error_cleanup"}
    /\ IF status[u].all = {}
       THEN Record(AfterUntainting(status[u], FALSE))
       ELSE copy' = status[u] /\ todo' = status[u].all /\ pc' = "untaint"
    /\ Works /\ UNCHANGED <<clusterVars, object, status>>

(* One iteration; an error is remembered and the loop goes on.             *)
RemoveNodeTaint(n) ==
    /\ pc = "untaint" /\ n \in todo
    /\ \/ /\ Works /\ UNCHANGED lastErr
          /\ taints' = [taints EXCEPT ![n] = @ \ {UpdateTaint[cur]}]
       \/ /\ Fails("untaint") /\ lastErr' = TRUE
          /\ UNCHANGED taints
    /\ IF todo = {n}
       THEN Record(AfterUntainting(copy, lastErr'))
       ELSE todo' = todo \ {n} /\ UNCHANGED <<pc, copy, at>>
    /\ UNCHANGED <<ready, pods, jobs, object, status, cur, stale>>

(* Variant: the write does not carry the resourceVersion that was read.    *)
PersistStatusBlindly ==
    /\ pc = "record" /\ object[cur].phase # "gone"
    /\ status' = [status EXCEPT ![cur] = copy]
    /\ IF status[cur].state = "not_started" /\ copy.state = "draining"
       THEN pc' = "finalizer" /\ UNCHANGED <<cur, copy, loopVars>>
       ELSE EndPass
    /\ Works /\ UNCHANGED <<clusterVars, object>>

(* Status().Update.  The pass that began the update goes on to add the     *)
(* finalizer; every other pass ends here.                                  *)
PersistStatus ==
    /\ pc = "record" /\ ~stale /\ object[cur].phase # "gone"
    /\ status' = [status EXCEPT ![cur] = copy]
    /\ IF status[cur].state = "not_started" /\ copy.state = "draining"
       THEN pc' = "finalizer" /\ UNCHANGED <<cur, copy, loopVars>>
       ELSE EndPass
    /\ Works /\ UNCHANGED <<clusterVars, object>>

AddFinalizer ==
    /\ pc = "finalizer" /\ ~stale /\ object[cur].phase # "gone"
    /\ object' = [object EXCEPT ![cur].finalizer = TRUE]
    /\ EndPass
    /\ Works /\ UNCHANGED <<clusterVars, status>>

(* A write is refused because the object has changed or is gone, or fails. *)
WriteFails ==
    /\ pc \in {"record", "finalizer", "release"}
    /\ \/ Works /\ (stale \/ object[cur].phase = "gone")
       \/ Fails("write")
    /\ EndPass
    /\ UNCHANGED <<clusterVars, object, status>>

(* finalCleanup: the recorded Jobs are deleted, then the finalizer goes.   *)
FinalCleanup(u) ==
    /\ Get(u) /\ object[u].phase = "deleting"
    /\ status[u].state \in {"completed", "error"}
    /\ jobs' = [j \in JobNames |-> IF j \in status[u].jobs THEN NoJob ELSE jobs[j]]
    /\ pc' = "release" /\ copy' = status[u] /\ todo' = {}
    /\ Works /\ UNCHANGED <<taints, ready, pods, object, status>>

(* Deleting a Job fails: the pass ends with some of them gone.             *)
FinalCleanupFails(u) ==
    /\ pc = "idle" /\ object[u].phase = "deleting"
    /\ status[u].state \in {"completed", "error"}
    /\ Fails("deleteJob")
    /\ \E gone \in SUBSET status[u].jobs :
          /\ gone # status[u].jobs
          /\ jobs' = [j \in JobNames |-> IF j \in gone THEN NoJob ELSE jobs[j]]
    /\ UNCHANGED <<taints, ready, pods, object, status, pc, cur, copy, loopVars>>

RemoveFinalizer ==
    /\ pc = "release" /\ ~stale
    /\ object' = [object EXCEPT ![cur].finalizer = FALSE, ![cur].phase = "gone"]
    /\ EndPass
    /\ Works /\ UNCHANGED <<clusterVars, status>>

(* The operator's process ends in the middle of a pass.                    *)
Crash ==
    /\ pc # "idle" /\ Fails("crash")
    /\ EndPass
    /\ UNCHANGED <<clusterVars, object, status>>

-----------------------------------------------------------------------------
(* The environment.                                                        *)

(* An admin's change of update u reaches the API server: a pass on u that  *)
(* has read the object holds an old version of it now.                     *)
Edited(u) ==
    /\ stale' = (stale \/ (pc # "idle" /\ cur = u))
    /\ UNCHANGED <<clusterVars, status, pc, cur, copy, todo, at, lastErr>>

Counted ==
    /\ spent.edits < MaxEdits
    /\ spent' = [spent EXCEPT !.edits = @ + 1]

SetHold(u) ==
    /\ "hold" \in MayHappen /\ object[u].phase # "gone"
    /\ object' = [object EXCEPT ![u].hold = ~@]
    /\ Counted /\ Edited(u)

(* ValidateUpdate accepts a changed method or content only outside         *)
(* inProgressStates.                                                       *)
EditSpec(u) ==
    /\ "spec" \in MayHappen /\ object[u].phase # "gone"
    /\ status[u].state \notin inProgressStates
    /\ \E m \in Methods :
          object' = [object EXCEPT ![u].method = m, ![u].content = @ + 1]
    /\ Counted /\ Edited(u)

(* Without a finalizer a deleted object is gone at once.                   *)
Delete(u) ==
    /\ "delete" \in MayHappen /\ object[u].phase = "live"
    /\ object' = [object EXCEPT ![u].phase =
                     IF object[u].finalizer THEN "deleting" ELSE "gone"]
    /\ Works /\ Edited(u)

(* The garbage collector removes the Jobs of an owner that is gone.        *)
CollectJobs(u) ==
    /\ object[u].phase = "gone"
    /\ jobs' = [j \in JobNames |-> IF j[1] = u THEN NoJob ELSE jobs[j]]
    /\ UNCHANGED <<taints, ready, pods, object, status, pc, cur, copy, loopVars, spent>>

(* activeDeadlineSeconds ends every Job.                                   *)
JobEnds(u, n) ==
    /\ jobs[updateJobName(u, n)].state = "running"
    /\ \E v \in {"succeeded", "failed"} :
          jobs' = [jobs EXCEPT ![updateJobName(u, n)].state = v]
    /\ UNCHANGED <<taints, ready, pods, object, status, pc, cur, copy, loopVars, spent>>

(* The scheduler keeps workload off a node with a NoSchedule taint.        *)
PodStarts(n) ==
    /\ pods[n] = "none" /\ taints[n] = {} /\ ready[n]
    /\ pods' = [pods EXCEPT ![n] = "running"]
    /\ UNCHANGED <<taints, ready, jobs, object, status, pc, cur, copy, loopVars, spent>>

(* A workload ends by itself, or an evicted one is gone.                   *)
PodEnds(n) ==
    /\ pods[n] # "none"
    /\ pods' = [pods EXCEPT ![n] = "none"]
    /\ UNCHANGED <<taints, ready, jobs, object, status, pc, cur, copy, loopVars, spent>>

NodeChanges(n) ==
    /\ "ready" \in MayHappen /\ Counted
    /\ ready' = [ready EXCEPT ![n] = ~@]
    /\ UNCHANGED <<taints, pods, jobs, object, status, pc, cur, copy, loopVars>>

-----------------------------------------------------------------------------
(* The dispatch of Reconcile.                                              *)
Reconcile(u) ==
    \/ BeginUpdate(u) \/ BeginUpdateFails(u)
    \/ CheckForNodeDrainStatus(u)
    \/ StartUpdateJobs(u) \/ ContinueUpdateJobs(u)
    \/ HandleCanaryDone(u)
    \/ UntaintNodesAndFinalize(u)
    \/ FinalCleanup(u)

(* The calls that follow.                                                  *)
Continue ==
    \/ \E n \in Nodes : EnsureNodeTaint(n) \/ EvictPods(n) \/ CreateUpdateJob(n)
                           \/ RemoveNodeTaint(n)
    \/ PersistStatus \/ AddFinalizer \/ RemoveFinalizer \/ WriteFails

Environment ==
    \/ \E u \in Updates : SetHold(u) \/ EditSpec(u) \/ Delete(u) \/ CollectJobs(u)
    \/ \E u \in Updates, n \in Nodes : JobEnds(u, n)
    \/ \E n \in Nodes : PodStarts(n) \/ PodEnds(n) \/ NodeChanges(n)

Next ==
    \/ \E u \in Updates : Reconcile(u) \/ FinalCleanupFails(u)
    \/ Continue
    \/ Crash
    \/ Environment

Spec == Init /\ [][Next]_vars

(* A pass goes on; every update is reconciled again and again, because     *)
(* each state asks for a requeue or is entered by a write that is watched, *)
(* and errors are retried; Jobs end.  Nothing is assumed of admins,        *)
(* workload or evictions.                                                  *)
FairSpec ==
    /\ Spec
    /\ WF_vars(Continue)
    /\ \A u \in Updates : SF_vars(Reconcile(u))
    /\ \A u \in Updates, n \in Nodes : WF_vars(JobEnds(u, n))

-----------------------------------------------------------------------------
(* Properties.                                                             *)

(* No other update uses the taint key of u.                                *)
OwnTaint(u) == \A v \in Updates : UpdateTaint[v] = UpdateTaint[u] => v = u

(* Node n is out of the scheduler's reach for update u, and empty.         *)
Quiet(u, n) == UpdateTaint[u] \in taints[n] /\ pods[n] = "none"

(* While an update Job runs, its node keeps the update's taint and has no  *)
(* GPU pod: the pods were listed after the taint was set, and no path      *)
(* removes the taint before the Jobs are seen to end.  Excepted is an      *)
(* update that startUpdateJobs sent to error_cleanup when a Job could not  *)
(* be created: it untaints nodes whose Jobs, created before, still run.    *)
FlashingIsUndisturbed ==
    \A u \in Updates, n \in Nodes :
        /\ OwnTaint(u) /\ jobs[updateJobName(u, n)].state = "running"
        /\ status[u].state \notin {"error_cleanup", "error"}
        => Quiet(u, n)

(* A Job flashes the content that verifyContentImage checked, although the *)
(* object is read, checked, recorded and used in passes of their own while *)
(* admins may edit it: the edits ValidateUpdate lets through make the      *)
(* status write of the checking pass fail.                                 *)
FlashesWhatWasVerified ==
    \A u \in Updates, n \in Nodes :
        jobs[updateJobName(u, n)].state # "none" /\ status[u].state # "not_started"
        => jobs[updateJobName(u, n)].content = status[u].vetted

(* "completed" means that every selected node runs the new firmware and is *)
(* free again: its Job succeeded and the taint is off.  status.completed   *)
(* is what continueUpdateJobs saw, in one phase or two.                    *)
CompletedMeansUpdated ==
    \A u \in Updates :
        OwnTaint(u) /\ status[u].state = "completed" /\ object[u].phase = "live"
        => \A n \in status[u].all \cup status[u].pending :
              /\ jobs[updateJobName(u, n)].state = "succeeded"
              /\ UpdateTaint[u] \notin taints[n]

(* The status of every update goes through a staged rollout.               *)
RolloutOf ==
    INSTANCE Rollout WITH
        scope <- [u \in Updates |-> status[u].all],
        waiting <- [u \in Updates |-> status[u].pending],
        verified <- [u \in Updates |-> status[u].completed],
        verdict <- [u \in Updates |-> IF status[u].state \in {"completed", "error"}
                                      THEN status[u].state ELSE "open"],
        held <- [u \in Updates |-> object[u].hold]

(* What the admin reads in allNodes, pendingNodes, completedNodes and      *)
(* state is the staged rollout of module Rollout: the rest is promoted     *)
(* only once every node before it is verified and no hold is set, and      *)
(* completion needs every node.                                            *)
ImplementsRollout == RolloutOf!Spec

(* A deleted update does go away, with its Jobs waited for if it was       *)
(* updating: no state swallows the deletion.                               *)
DeletionCompletes ==
    \A u \in Updates : (object[u].phase = "deleting") ~> (object[u].phase = "gone")

(* An update that runs Jobs reaches a decision on them, and a node in      *)
(* cleanup is not left there: only drains and holds may last.              *)
UpdatingEnds ==
    \A u \in Updates :
        (status[u].state \in {"updating", "cleanup", "error_cleanup"})
            ~> (status[u].state \in {"canary_done", "completed", "error"}
                  \/ object[u].phase = "gone")
=============================================================================
