# Verification of the Intel GPU base operator

TLA+ models of the operator's controllers, model-checked with TLC on small
instances and, for the central invariants, proved with TLAPS for every instance.
Covered are the operator's four controllers: GPURecoveryPlan (resets and reflashes
broken GPUs), GPUFirmwareUpdate (rolls firmware out over nodes), the XPUM device
refresh (restarts monitoring pods that miss a GPU) and ClusterPolicy (deploys
drivers, monitoring, queues and the kernel module).

## The system and its parts

| Part | Source | Modelled |
|---|---|---|
| GPURecoveryPlan controller | `internal/controller/gpurecoveryplan/` | `RecoveryPlan`; what it promises: `RecoveryLifecycle` |
| GPURecoveryPlan types, webhook | `api/v1alpha1/gpurecoveryplan_*.go` | states, approvals, firmware lock |
| GPUFirmwareUpdate controller | `internal/controller/gpufirmwareupdate/` | `FirmwareUpdate`; what it promises: `Rollout` |
| GPUFirmwareUpdate types, webhook | `api/v1alpha1/gpufirmwareupdate_*.go` | spec, status, frozen fields |
| XPUM device refresh | `internal/controller/clusterpolicy/xpum_device_refresh.go` | `XpumDeviceRefresh` |
| ClusterPolicy controller and its operands (device plugin, XPU manager, DRA driver, misc, KMM) | `internal/controller/clusterpolicy/` | `ClusterPolicy` |
| ClusterPolicy types, webhook | `api/v1alpha1/clusterpolicy_*.go` | the deciding fields, unique queues |
| Node drain helpers | `internal/controller/common/drain.go` | as used by recovery and firmware update |
| Device taints | `internal/controller/common/gpu.go` | in `RecoveryPlan` |
| OpenShift resources | `common/openshift.go`, `*/openshift.go` | one object per operand in `ClusterPolicy`, a call that may fail elsewhere |
| Content image verifier | `common/contentimage_verifier.go` | only as a call that may fail |
| Entry point, kubectl plugin, generated code, charts | `cmd/`, `api/.../zz_generated*`, `config/`, `charts/` | no |

The controllers meet in the cluster, not in memory: recovery and firmware update
both taint and drain nodes, each with a taint key of its own; the device refresh
replaces pods of the XPU manager that ClusterPolicy deploys; the claims of those
pods hold up ClusterPolicy's removal of the driver. Each module therefore has the
others as part of its environment (pods that come and go, pods deleted by
others, the monitor's claim), and no module composes two controllers.

How recovery works: the DRA driver publishes a taint on a broken GPU in a
ResourceSlice. A reconcile pass turns each tainted GPU of a plan into an *event*
of `status.events`. An admin adds *approvals* to `spec.approvals`, each naming one
event or selecting by type and node, once or persistently. An approved reset
first drains the node (taint, eviction, waiting for ResourceClaims), then runs as
a Job; a reflash runs its Job at once, if `spec.firmware` is there. The Job's
verdict ends the event; the cleared taint removes it. Escalation (a GPU that
needs a reset comes to need a reflash), blocked events (another recovery owns the
node), holds for unusable images, deletion behind a finalizer, and the bookkeeping
of consumed approvals are where the difficulty lies. The state that matters lives
in four places that are written one after another: the Jobs, the node taints, the
plan's status, the plan's spec.

How a firmware update works: a pass selects the ready nodes (all of them, or one
canary with the rest pending), verifies the content image, taints and evicts, and
records `draining`; later passes see the nodes empty, create one Job per node,
collect the Jobs' verdicts, promote the rest after the canary unless
`holdAfterCanary` is set, remove the taints and record `completed` or `error`.

How the device refresh works: the controller writes on each xpum pod which GPUs it
holds (adoption). A usable GPU that is missing from the record, or, in mode
`Always`, one that was lost and came back, gets the pod deleted, so that the
DaemonSet makes a new one, within a cooldown, a cap on concurrent restarts and an
attempt budget. All of these live in memory.

How ClusterPolicy works: a pass runs five sub-controllers in order. An error of
one is kept and the next runs, except during deletion; the finalizer goes when all
have succeeded. Driver and Module are removed only when no GPU claim is allocated.

## Modules

* `RecoveryPlan`, `MCRecoveryPlan` - recovery and the instances of its runs.
  `RecoveryLifecycle` is the abstract specification it implements.
* `RecoveryPlanProofs` - types and the first inductive invariant of recovery; what one
  step can do to an event, to the Jobs and to the approvals; that failed events stay
  failed. Two modules extend it: `RecoveryHistoryProofs` (past Jobs, finalizer,
  deletion, one recovery per node, the life of an event), which `RecoveryJobsProofs`
  extends (drained nodes, the events' own Jobs, what taints are for, the approvals of
  blocked events), and `RecoveryAttemptsProofs` (attempts and approvals).
* `FirmwareUpdate`, `MCFirmwareUpdate`, `FirmwareUpdateProofs` - firmware update, its
  instance, its theorems. `Rollout` is the abstract specification it implements.
* `XpumDeviceRefresh`, `MCXpumDeviceRefresh`, `XpumDeviceRefreshProofs` - the device
  refresh.
* `ClusterPolicy`, `MCClusterPolicy` - the policy controller and its operands.
  `ClusterPolicyCalls` has the lemmas about lists of calls and about sums,
  `ClusterPolicyProofs` the theorems.

### RecoveryPlan: state

| Variables | Code |
|---|---|
| `taints`, `faults` | device taints in ResourceSlices; how many each GPU was given |
| `jobs` | the recovery Jobs, by name `<<gpu, idType, attempt>>` (`recoveryJobName`) |
| `nodeTaint`, `work`, `claims` | a plan's drain taint on a node; its evictable workload; GPUs a claim reserves |
| `expired` | GPUs whose drain or wait for a missing Job ran past its deadline |
| `plan`, `spec`, `status` | the plan object in the API server |
| `pc`, `cur`, `events`, `snap` | the pass: its phase, its plan, its working copy of `status.events`, the spec it read |
| `todo`, `used`, `kept`, `pruned` | the loops: events left to visit, `consumedIDs`, `blockedIDs`, pruned approvals |
| `spent` | how much of the failure and edit budgets has been used |

An event is a record with its state, the type its ID embeds, its present type
(after an override), its approval, `imageVerifyGeneration`, its past Jobs and its
place in the list. Events and Jobs carry ghost fields (which fault
they stand for, who approved, whether a drain came first) that properties read
and no action branches on.

### RecoveryPlan: actions

A pass is cut into steps where other processes can act in between:

| Action | Code |
|---|---|
| `Reconcile`, `AddFinalizer`, `FinalizeDeletion` | `Reconcile`, `handleFinalizer` |
| `SyncRecoveryEventsFromSlices`, `ListingSlicesFails` | `syncRecoveryEventsFromSlices`, `removeResolvedEvents`, `addNewEvents`, `escalateEvent` |
| `EnsureOpenShiftResources` | `ensureOpenShiftResources` |
| `NotApproved`, `BlockEvent`, `HoldForImageFix`, `BeginDrain`, `CreateRecoveryJob`, `CreateRecoveryJobFails`, `ParkForFirmware`, `SetApprovalsConsumed` | one iteration of `processApprovals` each, and its end |
| `DrainWaits`, `DrainFails`, `DrainCompletes`, `EndDrains` | one iteration of `processDrains` each, and its end |
| `SyncJobStatuses` | `syncJobStatuses`, `applyJobVerdict`, `failEventJob` |
| `ReconcileDrainTaints` | `pruneConsumedApprovals`, `reconcileDrainTaints` |
| `PersistStatus`, `PersistApprovals` | the two writes of `persistPlan` |
| `Crash` | the process ends; the working copy is lost |

One worker runs the passes (`MaxConcurrentReconciles` is left at 1), so passes of
two plans alternate and never overlap. The environment - DRA driver, admins, Job
controller, garbage collector, scheduler, kubelet, time - acts between any two
steps. The moves it may make are `MayHappen`; the calls of the operator that may
fail are `MayFail`.

Abstractions: a node's workload is one unit that can be evicted; the two
survivability taints are one; a deadline passes when the model says so; names are
tuples; messages, timestamps and `status.state` (derived, never read back) are
left out; Jobs, nodes and slices are read as they are, without the lag of the
informer cache.

### RecoveryLifecycle

What an admin can rely on who reads nothing but `status.events`. A record has a kind
(reset or reflash), a stage (open, draining, in progress, succeeded, failed) and the
attempts on file; `waiting-approval`, `blocked` and `missing-firmware` are all *open*.
`Pass(p)` writes the records of plan `p`: each goes through detection, approval and
drain in this order (`Course`) and may end with a verdict (`Concluded`). `Delete(p)`
takes the records away with the plan. A recovery in progress therefore is not started
over, escalated or dropped, attempts are filed one at a time under new names and stay,
and a reflash never turns into a reset. Who approves what is left to `JobsAreApproved`,
`FailedIsTerminal` and `NoAutomaticRetries`.

### FirmwareUpdate

| Variables | Code |
|---|---|
| `taints`, `ready`, `pods`, `jobs` | node taints and readiness, GPU pods of a node (one unit), the update Jobs |
| `object`, `status` | a GPUFirmwareUpdate in the API server; `status.vetted` is a ghost: the content that was verified |
| `pc`, `cur`, `copy`, `todo`, `at`, `lastErr`, `stale` | the pass: next call, update, its copy of the status, nodes left and visited, an error kept, whether the object has changed since it was read |

| Action | Code |
|---|---|
| `BeginUpdate`, `BeginUpdateFails`, `EnsureNodeTaint`, `EvictPods` | `beginUpdate`, `selectNodesToUpdate`, `verifyContentImage`, `taintAndDrainNodes` |
| `CheckForNodeDrainStatus` | `checkForNodeDrainStatus` |
| `StartUpdateJobs`, `CreateUpdateJob`, `ContinueUpdateJobs` | `startOrContinueUpdate`, `startUpdateJobs`, `continueUpdateJobs` |
| `HandleCanaryDone` | `handleCanaryDone` |
| `UntaintNodesAndFinalize`, `RemoveNodeTaint` | `untaintNodesAndFinalize` |
| `FinalCleanup`, `FinalCleanupFails`, `RemoveFinalizer` | `finalCleanup` |
| `PersistStatus`, `AddFinalizer`, `WriteFails` | the writes at the end of these; a stale object is refused |

Lists of node names are sets, since their order only decides which node becomes
the canary. Each taint, eviction, Job creation and untaint is a step of its own.

### XpumDeviceRefresh

`device`, `pod`, `mode` are the slices, the xpum pod of each node (with its claim
and record) and the restart mode; `queue`, `cooling`, `attempts`, `lost` the
controller's memory; `pc`, `cur`, `held`, `why`, `reason`, `same` the pass. The
disjuncts of `Reconcile(n)` are the ways through `Reconcile`, `adoptPod`,
`refreshPod` and `restartPod` up to their write (`ForgetNode`, `NoRunningPod`,
`AdoptPod`, `Converged`, `AbandonRestart`, `DeferRestart`, `RestartPod`);
`PatchDeviceRecord`, `DeletePod`, `CallFails`, `ListFails` are the calls. The
environment changes GPUs and modes, deletes, replaces and starts pods, and lets
the cached claim lag.

### ClusterPolicy

`cp` is the policy, `store` the objects of the operands (a queue with its quota, the
xpum DaemonSet with or without the monitor claim), `module` the KMM Module, `claims`
the allocated GPU claims, `capacity` the GPUs the last pass counted; `queued`, `pc`,
`copy`, `err` the pass; `stale`, `late`, `clean` ghosts. One action per sub-controller
(`ReconcileDevicePlugin`, `ReconcileXpuManager`, `ReconcileDRA`, `ReconcileMisc`,
`ReconcileModule`), with the claim checks and the deletes that follow them cut in two
(`RemoveDRA`/`DeleteDRA`, `RemoveModule`/`DeleteModule`), and `AddFinalizer` and
`Finish` around them. What a sub-controller does is a sequence of calls; any one may
fail, which skips the calls after it, and of two calls on one object the later counts.
Objects are abstracted to present or absent; those with a controller reference to the
policy are left out, except the Module. A group of dependency objects (DRA classes,
roles, admission policy) is one call: if it fails, the group counts as absent. DRA and
KMM are enabled.

## Runs

| Run | Shows |
|---|---|
| `recovery_attempts` | two GPUs on a node that fault, heal, recur, escalate, fail and are re-approved, an approval of one event listed before a selector: `OneRecoveryPerNode`, `NoAutomaticRetries`, `JobsAreTheEventsOwn`, `BlockedKeepsApproval`, the refinement `ImplementsLifecycle` |
| `recovery_drain` | workloads, refused evictions, `drain.enable` switched, the plan deleted: `ResetsRunOnDrainedNodes`, `DeletionLeavesNothing`, `TaintsServeRecoveries`, `RecoveriesAreNotCutShort`, and under fairness `DrainEnds`, `BlockedResumes`, `DeletionCompletes` |
| `recovery_faults` | two failures anywhere (lost writes, failing calls, restarts): `TypeOK`, `OneOwnerPerNode`, `JobsAreApproved`, `FailedIsTerminal` |
| `recovery_restart` | one GPU, every failure there is: `TaintIsReleased`, `VerdictIsReached` |
| `firmware_update` | one update, direct or canary, over two nodes; object edited, held, deleted; nodes losing readiness; one failing call or restart anywhere: `TypeOK`, `FlashingIsUndisturbed`, `FlashesWhatWasVerified`, `CompletedMeansUpdated`, the refinement `ImplementsRollout`, and under fairness `DeletionCompletes`, `UpdatingEnds` |
| `xpum_refresh` | two nodes, a restart cap of one; GPUs vanish, break and return, modes change, pods are deleted by others, claims lag, one call fails or the operator restarts: `TypeOK`, `DeletesThePodItRead`, and under fairness `MonitoredOrGivenUp`, `RebindIsActedOn` |
| `cluster_policy` | a policy on OpenShift edited between four specs, deleted, its GPUs claimed and counted anew, one call fails or the operator restarts: `TypeOK`, `NothingWithoutFinalizer`, `CleanMeansDeployed`, `DriversOutliveClaims`, and under fairness `DeletionCompletes`, `SpecIsReached` |

Five runs show where the code and what is written about it disagree; each has an
entry under `findings` in `PROJECT.json`:

| Run | Property violated | In short |
|---|---|---|
| `two_plans` | `OneRecoveryPerNode` | the busy check sees the events of its own plan only |
| `lost_status` | `LostStatusIsRewritten` | after a lost status write the approval is consumed and the Job stays off the record |
| `override_blocked` | `BlockedResumes` | an override applied before blocking hides the event from its selector |
| `shared_approval` | `ParkedKeepsApproval` | a sibling consumes the one-shot selector a parked event waits with |
| `charged_twice` | `NoAutomaticRetries` | a failed event that is re-approved by name is charged to the selector before it: three attempts on two approvals |

So the properties that pass are statements with the scope their run gives them:
`OneRecoveryPerNode`, for instance, holds within a plan while no status write is
lost (with one lost, the Job of `lost_status` is invisible to the busy check);
`OneOwnerPerNode`, about what a plan's status says, holds whatever is lost.
`DeletionLeavesNothing` is checked without failing untaints: `handleFinalizer`
logs such a failure and lets the plan go, and the taint stays. Likewise
`JobsAreTheEventsOwn` is checked without failing Job deletions: `deleteJobByName`
logs the failure, and the Job left behind is adopted when the fault recurs. And
`NoAutomaticRetries` is checked, and proved, for lists that have the approvals naming
an event before the selectors. In the other order (`charged_twice`) a one-shot
selector that is kept for a blocked sibling pays for two attempts of one event: the
entry that names the event only lifts it out of `failed`, and stays.

For the other controllers:

* `FlashingIsUndisturbed` and `CompletedMeansUpdated` are about updates with a taint
  key of their own: the taint carries no value, so two updates with one key share
  it. `FlashingIsUndisturbed` excepts an update in `error_cleanup` or `error`: when a
  Job cannot be created, nodes whose Jobs already run are untainted.
* That every taint of an update goes is *not* claimed: the code leaves taints when
  tainting, evicting or untainting fails (`error` is final), and when the status
  write after tainting is lost and the next pass selects other nodes or the object
  is deleted before it has its finalizer. `FWUPDATE.md:181` says nodes are always
  untainted.
* `CompletedMeansUpdated` supposes Jobs that are listed as they are: a Job missing
  from the list counts neither as remaining nor as failed.
* `MonitoredOrGivenUp` speaks of nodes that are queued. A change of the mode alone
  queues nothing; the refresh does not watch the ClusterPolicy. `RebindIsActedOn`
  speaks of the time after the last failure, since a restart forgets lost devices.
* `NothingWithoutFinalizer` and `CleanMeansDeployed` except what is deleted with its
  error only logged (the SCCs of device plugin and XPU manager, the ResourceFlavor).
  Quotas are shares of the GPUs the last pass counted: nodes and slices are not
  watched. With no GPU counted, older queues stay.
* `DriversOutliveClaims` leaves the window between the claim check and the delete,
  which the code does not close. Without the driver such a claim's pod stays
  Terminating, and the liveness properties except it.

### Bounds

Two GPUs on one node are the least with a busy check, a shared approval and a
blocked event; more nodes add independent copies of this, since events meet
only on a node or through an approval. `MaxFaults` 2 on the first GPU gives
recurrence and escalation. `MaxAttempts` 1 lets an event fail once and be
re-approved: a Job of the second attempt does not fail. `recovery_attempts`, which
counts attempts, has 3, so that an event could fail more often than it has
approvals. Two approvals, a selector for everything and one
that names an event, are enough for first approval, sharing, and re-approval.
`MaxFailures` 2 lets one failure meet the recovery from another. `MaxEdits` 1 bounds
edits other than approvals.
No symmetry is used: the event list is ordered and the two GPUs differ.
`CHECK_DEADLOCK FALSE` stands only where the plan may be deleted, after which the
system really stops.

`firmware_update`: two nodes are the least with a canary and a rest, and with a loop
that fails half-way. One failure and one edit meet at every pair of steps. The
theorems cover any number of updates and nodes. `xpum_refresh`: the second node makes
the cap of one bite and stays well itself, one GPU per node has every way to be lost
and found, one attempt reaches the budget, and two changes let a GPU go and come
back. `cluster_policy`: the four specs of `MCClusterPolicy` differ in every field that
decides, among them one an earlier release admitted and the webhook now refuses (it
names a queue twice); two queues with none, one or three GPUs are the cases of
`divideResources` (nothing, fewer than queues, a remainder). The
runs of firmware update and of the policy say `CHECK_DEADLOCK FALSE` because their
object may be deleted.

### Fairness

`FairSpec` assumes that a pass once begun goes on (`WF` on its steps; a goroutine
is scheduled); that every plan is reconciled again and again (`SF`: `hasActiveJobs`
asks for a requeue while an event is draining, in progress or blocked, an error is
retried with back-off, and the informers resync); that time passes (`WF` on
`Expire`); and that the Job controller ends Jobs (`activeDeadlineSeconds` is set on
each). Nothing is assumed of admins, GPUs, workloads or evictions. Failures are
bounded by `MaxFailures`, so the liveness properties say: once calls stop failing.

`FirmwareUpdate` has the same: passes go on, every update is reconciled again (each
state asks for a requeue or is entered by a watched write), Jobs end. In
`XpumDeviceRefresh` a node is served only while it is in the modelled queue, so a
wake-up the code does not ask for is not assumed; pods start and end, claims reach the
cache, cooldowns pass. In `ClusterPolicy` the worker serves a request that waits; KMM
unloads a Module being deleted, the garbage collector works, and the monitor's pods
end when the DaemonSet no longer wants them. User pods need not end.

## Proofs

The theorems hold for every value of the constants that satisfies the module's
`ConstantsAssumption` (finite sets of GPUs and approvals, functions of the right
types): any GPUs, nodes, plans, updates, queues, specs, approvals and bounds. Where
a theorem needs more, it says so as a hypothesis on what may fail or happen, and the
hypothesis is there because the code does not have the property without it.

### Recovery

| Theorem | States | Hypotheses |
|---|---|---|
| `TypeCorrect` | `TypeOK` | none |
| `OneOwner` | `OneOwnerPerNode` | none |
| `NoUnapprovedJob` | `JobsAreApproved` | none |
| `FailedStaysFailed` | `FailedIsTerminal` | none |
| `DeletionIsClean` | `DeletionLeavesNothing` | untainting does not fail |
| `RecoveriesRunToTheirEnd` | `RecoveriesAreNotCutShort` | nobody deletes Jobs by hand, no Job outlives its deadline |
| `OneRecovery` | `OneRecoveryPerNode` | the GPUs of a node are of one plan; no lost status write, no restart in a pass, no Job outlives its deadline |
| `DrainedResets` | `ResetsRunOnDrainedNodes` | no lost status write, no restart in a pass, no Job outlives its deadline |
| `OwnJobs` | `JobsAreTheEventsOwn` | no lost status write, no restart in a pass, Job deletions succeed |
| `TaintsForRecoveries` | `TaintsServeRecoveries` | no lost status write, no restart in a pass; untainting, OpenShift calls and image checks succeed |
| `BlockedApprovals` | `BlockedKeepsApproval` | no override of a reset's type; status writes, label reads, image checks and Job creations succeed |
| `OneAttemptPerApproval` | `NoAutomaticRetries` | approvals that name an event are one-shot, name no other and come before the selectors (`OneShotInOrder`); no lost write of the approvals, no restart in a pass |
| `LifeOfAnEvent` | `ImplementsLifecycle`: the controller implements the life of an event, with the status of the events as the abstract records | none |

The runs that find a violation drop one of these hypotheses each: `two_plans` the one
plan per node of `OneRecovery`, `override_blocked` the overrides of
`BlockedApprovals`, `charged_twice` the order of `OneShotInOrder`. In `lost_status` a
status write fails. Every other hypothesis is needed as well: dropping it alone, TLC
finds a counterexample on an instance of this size. Some are not obvious.
`TaintsForRecoveries` needs usable images because a blocked event that comes to be held
for its image under a persistent selector stays blocked, and keeps the taint, until the
spec changes. `BlockedApprovals` needs Job creations to succeed because an event that
stays blocked only since its Job could not be made does not keep its approval from the
next event of the same pass.

*`RecoveryInv`.* Neither `OneOwnerPerNode` nor `JobsAreApproved` is inductive: the
status is overwritten by the working copy at the end of a pass, and a Job takes its
approval from the event in that copy. `RecoveryInv` says both of the working copy as
well (`OneOwnerIn(events)`, `ApprovedIn(events)`), says of every event that owns a
node that its approval covers the type it runs, and that the drain loop visits only
draining events (`VisitsDraining`), which is why a Job made there has an approval.
The argument has one step per action. The actions that start a recovery
(`BeginDrain`, `CreateRecoveryJob`) keep one owner because `NodeBusyWith` was false;
they keep the approval because the matching approval names the ID or has the type,
and an override stays among the resets. Escalation takes the state and the approval
away together. All others only move events out of the owning states, or copy lists
between status and working copy.

*What a step can do.* All later proofs go by three lemmas of `RecoveryPlanProofs`
instead of by the actions. `PassMoves`: a step leaves the pass as it is, begins one,
ends one, or is a step of a pass that *moves* each event in one of seven ways
(`Moves`: it stays, clears, appears, escalates, is answered by an approval,
progresses from its drain, is judged). `JobsMove`: a step adds no Job, or starts one
recovery with its Job (`Starts`). `ApprovalsMove`: approvals only go from unused to
active, consumed and gone, and only the last step of a pass consumes them.

*`FailedInv`* relates the working copy to the status it came from: a failed event of
the status is failed, cleared, escalated or named by an approval in the copy. With it
the write at the end of a pass is a step `FailedIsTerminal` allows.

*`PastInv`, `FinalizerInv`.* The past Jobs of an event are numbered in order and a
Job among them has ended or been given up on; the copy has at least the attempts on
record, so a lost write never makes a Job's name reappear for a new attempt. Running
Jobs, passes and taints are those of plans with a finalizer: `FinalizeDeletion` takes
it only when no Job runs and after untainting.

*`RunsOwn`, `TaintsServe`, `JobsOwn`.* The next four theorems are about what the
cluster has, not about the status, and the status lags behind by up to a pass. They
speak of the *current* record of an event (`Current`): the working copy while a pass
of its plan is on, the status otherwise. `NothingLost` (no lost status write, no
restart in a pass) makes the one turn into the other at the end of a pass. Of this
record: a Job that runs is the present attempt of an event in progress (`RunsOwn`),
so two on one node would be two owners; an existing Job is the present or a past
attempt of the event and was created for its fault (`JobsOwn`); a taint serves an event that
needs its node, or the pass has yet to visit `reconcileDrainTaints` (`TaintsServe`).

*`BlockedCovered`, `UsedNotBlocked`.* A blocked event holds an approval that covers it
and that the pass read as active; as long as the loop of `processApprovals` runs, an
event it left blocked has its approval among `blockedIDs`, and after the loop no
consumed approval is held by a blocked event.

*`LifeInv`, `KeptInv`.* For the refinement `LifeOfAnEvent` only the status write of a
pass and the end of a plan change the abstract state. `LifeInv` says at each part of a
pass how far the working copy of an event can be from its record: equal to it when the
pass begins, detected and taken up until the approvals are done (`TakenUp`), on its
course until the Jobs are judged (`Course`), and then a step of its life (`Evolves`).
That the parts add up to no more than one step each is `TakenUpOnce` and `CourseOnce`;
that an attempt is filed under a new name comes from the numbering in `PastInv`. A
pass's plan stands because it has its finalizer (`FinalizerInv`), and a plan without the
finalizer has no records to lose (`KeptInv`). A lost status write or a restart changes
nothing: the record is what it was.

*`Accounts`.* To count attempts against approvals the invariant has to say who paid for
which. An event is `Accounted` for when its attempts under its present ID number at
most the approvals that name it and are used up, or one more if a selector covers it;
an attempt under way counts already; and an event that waits for its next start has
not had the selector's attempt yet, unless an active approval that names it is there for that
start. The status is accounted for by the approvals as they stand - or, between the
two writes of `persistPlan`, is the working copy just written - and the working
copy by the approvals the pass read with those in `consumedIDs` counted as used
(`Charged` says which these can be). A status that was lost stays accounted for, since
approvals are only used up. The order of the list is what makes the loop
charge the naming approval, whenever there is one, and so the selector at most once.

### Firmware update

| Theorem | States |
|---|---|
| `TypeCorrect` | `TypeOK` |
| `Undisturbed` | `FlashingIsUndisturbed` |
| `FlashesVerified` | `FlashesWhatWasVerified` |
| `CompletedIsUpdated` | `CompletedMeansUpdated` |
| `Refinement` | `ImplementsRollout`: the controller implements the staged rollout, with `allNodes`, `pendingNodes`, `completedNodes` and the final states as the abstract state |

None has a hypothesis, and none is inductive, because a pass acts on the cluster first
and writes the status later or never. `FirmwareInv` says of every recorded status that
its fields fit together (`Sound`), that Jobs belong to nodes in scope, flash the
verified content and run only where the status waits for them (`JobsMatch`), that
nodes on the way to their Job are tainted, and empty once they are off the draining
list (`Secured`), and that the spec is still the one the update began with (`Frozen`:
the webhook refuses edits while an update is in progress). Of the pass it says what
each loop has achieved for the nodes it has visited (`Tainting`, `Creating`,
`Untainting`) and that the copy about to be written has all of these and is a step of
the rollout from the recorded status, or will be refused because the object has
changed (`Recording`, `Staged`). Most actions are *calm* for an update: they neither
take its taint nor fill an emptied node nor create its Jobs, and one lemma carries the
invariant over all of them; the proof has a step for each of the others. For the
refinement, only the status write and the edit of the hold change the abstract state;
`Staged` is what makes the write an abstract step. `DoneInv` adds for
`CompletedIsUpdated` that a node counts as completed only with a Job that succeeded,
and that the nodes an untainting loop has passed without an error are free of the
taint, until no node is left and `completed` is written.

### Device refresh

`TypeCorrect` (`TypeOK`, with the attempt budget in it) and `DeletesTheRightPod`
(`DeletesThePodItRead`), both without hypotheses. `RefreshInv` says that from the
comparison to the delete the reason still fits the record of the pod that was read,
as long as it is the same pod (`Decided`): only a pass writes the record, and there is
one worker.

### ClusterPolicy

`TypeCorrect` (`TypeOK`), `NothingOutlivesThePolicy` (`NothingWithoutFinalizer`),
`ClaimsKeepTheirDriver` (`DriversOutliveClaims`) and `CleanIsDeployed`
(`CleanMeansDeployed`), without hypotheses. `PolicyInv` says
that the pass's copy is the policy, or its write will be refused; that a policy being
deleted has its finalizer and one that is gone has none; that a deletion has removed
all the objects its past steps remove (`Removed(pc)`), which is everything when the
finalizer goes; and that the claims at the deletes of driver and Module are only those
allocated after the check (`LateOnly`).

*`DeployInv`.* `CleanMeansDeployed` speaks of the end of a pass, so the invariant has to
say what each point of it has reached: while there was no error and the policy was not
edited (`OnTrack`), every object of the sub-controllers already run (`Handled(pc)`) is
`Settled`: there if the spec asks for it and gone if not, whatever earlier passes left.
Two facts need more than that. The xpum DaemonSet must match the registration mode,
which a later sub-controller could disturb; the lists of calls touch the objects of
their own group only (`ListsSpare`), so none does. And KMM may unload a Module between
the last sub-controller and the end: then the policy is queued again, which is why the
invariant has `queued` beside `ModuleReady`. `ClusterPolicyCalls` proves what each list
of calls leaves when none fails (`KueueSets`, `QueuesSet`, `StaleSets` and their like).
The sum of the quotas is a fold over a set. That the shares of `divideResources` add up
is proved by a smallest counterexample: the subsets of a finite set are well-founded
under inclusion (`SmallestSubset`), and a smallest set of queues with a wrong sum would
have a smaller one, itself without one of its queues (`SharesAddUp`).

### Only model-checked

* The liveness properties (`DrainEnds`, `BlockedResumes`, `VerdictIsReached`,
  `TaintIsReleased`, `DeletionCompletes`, `UpdatingEnds`, `MonitoredOrGivenUp`,
  `RebindIsActedOn`, `SpecIsReached`): fairness is beyond the prover.

TLC also finds `RecoveryInv` true on the instance of `recovery_faults`, `FirmwareInv` on
that of `firmware_update`, `DeployInv` on that of `cluster_policy`, `Charged` and
`Accounts` on that of `recovery_attempts`, and `ImplementsLifecycle` on those of
`recovery_faults`, `recovery_drain` and `recovery_restart`.

## Not modelled

* What DaemonSets, Jobs, SCCs, roles and the OTel configuration contain, field
  validation of the webhooks, messages and derived status texts: decisions on one
  object's data with no state behind them.
* Which pods a drain skips or waits for (`classifyPodForDrain`), the text of event
  IDs and Job names with their hashes: string and label handling.
* The limit `maxStatusEvents` (the instances have fewer faults than places).
* The lag of the informer cache, except where the code refers to it (claims of xpum
  pods, stale objects at a write).
* Several ClusterPolicy objects at once, clusters without DRA or KMM, CPU and memory
  quotas, LocalQueues apart from their ClusterQueue.
* Two controllers in one module: they share nodes and pods only, which each module
  already lets others change at any step.
* Registry I/O, manifests, flags, TLS set-up, the kubectl plugin (its effect on a plan
  is `AddApproval` and `RemoveApproval`), generated code.
