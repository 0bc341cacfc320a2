--------------------------- MODULE ClusterPolicy ---------------------------
(***************************************************************************)
(* The ClusterPolicy controller on a cluster with DRA and KMM.             *)
(*                                                                         *)
(* A pass reads the policy once, then runs five sub-controllers in order:  *)
(* device plugin, XPU manager, DRA driver, misc (Prometheus, NFD, Kueue)   *)
(* and KMM.  Each makes its calls one after another and stops at the first *)
(* error.  The DRA driver and the kernel module are taken away only when   *)
(* no GPU claim is allocated; users, pods and KMM act between that check   *)
(* and the delete, and between any two sub-controllers.                    *)
(***************************************************************************)
EXTENDS Naturals, Sequences, FiniteSets, FiniteSetsExt

CONSTANTS
    Policies,       \* the specs users give the policy
    Queues,         \* names of Kueue ClusterQueues
    Workloads,      \* claims of user pods
    Capacities,     \* how many GPUs nodes and slices may report
    OpenShift,      \* Opts.OpenShift
    CRDs,           \* which of nfd, prometheus, kueue are installed
    MayFail,        \* kinds of failure this instance has
    MaxFailures,    \* failing calls and operator restarts
    MaxEdits,       \* edits of the spec
    MaxClaims       \* allocations to user pods

-----------------------------------------------------------------------------
(* The policy.  KernelModule is absent, or has an empty or a set version.  *)
(* `valid' is the verdict of the webhook that runs now: an earlier release *)
(* may have admitted a spec this one refuses.                              *)
KernelModules == {"none", "plain", "versioned"}

SpecType ==
    [resourceRegistration : {"dp", "dra"}, resourceMonitoring : BOOLEAN,
     prometheusIntegration : BOOLEAN, useNFDLabeling : BOOLEAN,
     enableKueue : BOOLEAN, equalResources : Seq(Queues),
     kernelModule : KernelModules, valid : BOOLEAN]

(* validateKueueSpec: no ClusterQueue twice.                               *)
validateKueueSpec(s) ==
    \A i, j \in DOMAIN s.equalResources :
        s.equalResources[i] = s.equalResources[j] => i = j

(* The objects sub-controllers make and delete.  What has a controller     *)
(* reference to the policy (Module apart) goes with it and is left out.    *)
Operands ==
    {"dpScc", "dp", "xpumScc", "xpum", "draScc", "draDeps", "dra",
     "monitor", "service", "nfd", "flavor"}
Objects == Operands \cup Queues

ASSUME ConstantsAssumption ==
    /\ Policies \subseteq SpecType
    /\ \A s \in Policies : s.valid => validateKueueSpec(s)
    /\ IsFiniteSet(Queues) /\ Queues \cap Operands = {}
    /\ Capacities \subseteq Nat /\ Capacities # {}
    /\ OpenShift \in BOOLEAN
    /\ "monitor" \notin Workloads
    /\ MaxFailures \in Nat /\ MaxEdits \in Nat /\ MaxClaims \in Nat

Claims == Workloads \cup {"monitor"}

VARIABLES
    \* the cluster
    cp,         \* the policy
    store,      \* per object: 0 is absent; a queue has its quota
    module,     \* the KMM Module
    claims,     \* allocated GPU claims
    capacity,   \* GPUs a pass has last counted
    \* the operator
    queued,     \* a request waits
    pc, copy,   \* the pass, and the policy it has read
    err,        \* an error of this pass is still to be returned
    \* ghosts
    stale,      \* the policy was written since the pass read it
    late,       \* claims allocated since the pass last looked
    clean,      \* the last pass saw this spec and returned no error
    spent       \* failures, edits and allocations so far

passVars == <<queued, pc, copy, err>>
vars == <<cp, store, module, claims, capacity, passVars, stale, late, clean, spent>>

WithClaim == 2      \* the xpum DaemonSet refers to the monitor claim template

PolicyType == [life : {"live", "deleting", "gone"}, fin : BOOLEAN, spec : Policies]

SubControllers == {"dp", "xpum", "dra", "misc", "kmm"}

TypeOK ==
    /\ cp \in PolicyType /\ copy \in PolicyType
    /\ store \in [Objects -> Nat]
    /\ \A o \in Objects \ Queues : store[o] <= WithClaim
    /\ \A q \in Queues : \E c \in Capacities : store[q] <= c
    /\ module \in [state : {"none", "present", "deleting"}, versioned : BOOLEAN]
    /\ claims \in SUBSET Claims /\ late \in SUBSET Claims
    /\ capacity \in Nat
    /\ queued \in BOOLEAN /\ err \in BOOLEAN /\ stale \in BOOLEAN /\ clean \in BOOLEAN
    /\ pc \in SubControllers \cup {"idle", "finalizer", "draDelete", "kmmDelete", "finish"}
    /\ spent \in [failures : Nat, edits : Nat, claims : Nat]

(* A policy that was just created, or one that an earlier release admitted *)
(* and put under the finalizer.                                            *)
Init ==
    /\ \E s \in Policies : cp = [life |-> "live", fin |-> ~s.valid, spec |-> s]
    /\ store = [o \in Objects |-> 0]
    /\ module = [state |-> "none", versioned |-> FALSE]
    /\ claims = {} /\ late = {}
    /\ capacity = 0
    /\ queued = TRUE /\ pc = "idle" /\ copy = cp /\ err = FALSE
    /\ stale = FALSE /\ clean = FALSE
    /\ spent = [failures |-> 0, edits |-> 0, claims |-> 0]

-----------------------------------------------------------------------------
(* Calls.                                                                  *)

Fails(k) ==
    /\ k \in MayFail /\ spent.failures < MaxFailures
    /\ spent' = [spent EXCEPT !.failures = @ + 1]

Works == UNCHANGED spent

(* A create, patch or delete; the error of a quiet one is only logged.     *)
Put(o, v) == <<[obj |-> o, val |-> v, quiet |-> FALSE]>>
Del(o) == <<[obj |-> o, val |-> 0, quiet |-> FALSE]>>
TryDel(o) == <<[obj |-> o, val |-> 0, quiet |-> TRUE]>>

(* The store after the calls numbered in P: the last one on an object      *)
(* counts.                                                                 *)
Perform(calls, P) ==
    [o \in Objects |->
        LET mine == {i \in P : calls[i].obj = o}
        IN  IF mine = {} THEN store[o] ELSE calls[Max(mine)].val]

AllOf(calls) == 1 .. Len(calls)

(* All calls are made; errors of quiet ones go unnoticed.                  *)
AllCalls(calls) ==
    \/ Works /\ store' = Perform(calls, AllOf(calls))
    \/ /\ Fails("quiet")
       /\ \E i \in AllOf(calls) :
             calls[i].quiet /\ store' = Perform(calls, AllOf(calls) \ {i})

(* Call k fails, or reading back what the calls have made, and the calls   *)
(* up to last[k] are not made.                                             *)
CallFails(calls, last) ==
    \E k \in 1 .. Len(calls) + 1 :
        /\ k \in AllOf(calls) => ~calls[k].quiet
        /\ store' = Perform(calls, AllOf(calls) \ (k .. last[k]))

(* The first error ends them.                                              *)
FirstError(calls) == [k \in 1 .. Len(calls) + 1 |-> Len(calls)]

(* The pass has read a policy that is being deleted.                       *)
deletion == copy.life = "deleting"

(* The pass ends, and there will be another one: RequeueAfter or an error. *)
Requeue ==
    /\ pc' = "idle" /\ err' = FALSE /\ queued' = TRUE
    /\ UNCHANGED <<copy, clean>>

NextIs(next) == pc' = next /\ UNCHANGED <<queued, copy, err, clean>>

(* Variant: deletion goes on after an error.                               *)
FailedKeepsGoing(next) ==
    pc' = next /\ err' = TRUE /\ UNCHANGED <<queued, copy, clean>>

(* Variant: the error is logged and not returned.                          *)
FailedForgets(next) ==
    IF deletion THEN Requeue ELSE NextIs(next)

(* An error of a sub-controller ends a deletion pass.  Otherwise it is     *)
(* kept to be returned, and the next sub-controller runs.                  *)
Failed(next) ==
    IF deletion THEN Requeue
    ELSE pc' = next /\ err' = TRUE /\ UNCHANGED <<queued, copy, clean>>

-----------------------------------------------------------------------------
(* What each sub-controller does for the policy the pass has read.         *)

isClusterPolicyBeingDeleted == copy.life # "live"

shouldRemoveDRA ==
    isClusterPolicyBeingDeleted \/ copy.spec.resourceRegistration # "dra"
shouldRemoveDevicePlugin ==
    isClusterPolicyBeingDeleted \/ copy.spec.resourceRegistration # "dp"
shouldRemoveXpumd == isClusterPolicyBeingDeleted \/ ~copy.spec.resourceMonitoring

IfOpenShift(calls) == IF OpenShift THEN calls ELSE <<>>

(* The SCC, role, binding and service account of an operand.               *)
EnsureSCC(o) == IfOpenShift(Put(o, 1))
DeleteOpenShiftSCCResources(o) == IfOpenShift(TryDel(o))

DevicePluginCalls ==
    IF shouldRemoveDevicePlugin
    THEN DeleteOpenShiftSCCResources("dpScc") \o Del("dp")
    ELSE EnsureSCC("dpScc") \o Put("dp", 1)

(* The DaemonSet refers to a monitor claim template under DRA.             *)
XpumDaemonSet ==
    Put("xpum", IF copy.spec.resourceRegistration = "dra" THEN WithClaim ELSE 1)

XpuManagerCalls ==
    IF shouldRemoveXpumd
    THEN DeleteOpenShiftSCCResources("xpumScc") \o Del("xpum")
    ELSE EnsureSCC("xpumScc") \o XpumDaemonSet

(* Device classes, admission policy, roles and service account as one.     *)
createDependencyComponentsIfMissing == Put("draDeps", 1)

DRACreateCalls ==
    EnsureSCC("draScc") \o createDependencyComponentsIfMissing \o Put("dra", 1)
DRADeleteCalls == Del("draDeps") \o Del("dra") \o IfOpenShift(Del("draScc"))

PrometheusCalls ==
    IF "prometheus" \notin CRDs THEN <<>>
    ELSE IF copy.spec.resourceMonitoring /\ copy.spec.prometheusIntegration
              /\ ~isClusterPolicyBeingDeleted
         THEN Put("monitor", 1) \o Put("service", 1)
         ELSE Del("monitor") \o Del("service")

NfdCalls ==
    IF "nfd" \notin CRDs THEN <<>>
    ELSE IF copy.spec.useNFDLabeling /\ ~isClusterPolicyBeingDeleted
         THEN Put("nfd", 1) ELSE Del("nfd")

(* Variant: the remainder goes to one queue too many.                      *)
ShareOneTooMany(total, n, i) == total \div n + IF i - 1 <= total % n THEN 1 ELSE 0

(* divideResources: the quota of queue i of n, counted from 1.             *)
Share(total, n, i) == total \div n + IF i - 1 < total % n THEN 1 ELSE 0

queueNames == {copy.spec.equalResources[i] : i \in DOMAIN copy.spec.equalResources}

(* cleanupStaleKueueQueues: a delete per queue that is not expected.       *)
StaleCalls(expected) ==
    LET stales == {q \in Queues \ expected : store[q] # 0}
        order == CHOOSE f \in [1 .. Cardinality(stales) -> stales] :
                    \A i, j \in DOMAIN f : f[i] = f[j] => i = j
    IN  [i \in 1 .. Cardinality(stales) |-> [obj |-> order[i], val |-> 0, quiet |-> FALSE]]

removeKueueCalls == TryDel("flavor") \o StaleCalls({})

modifyResourceFlavor == Put("flavor", 1)

(* modifyClusterQueue for each share; a queue's LocalQueues go with it.    *)
createKueueQueues(c) ==
    LET n == Len(copy.spec.equalResources)
    IN  [i \in 1 .. n |-> [obj |-> copy.spec.equalResources[i],
                           val |-> Share(c, n, i), quiet |-> FALSE]]

(* With c GPUs counted.  When there are none, or their slices cannot       *)
(* be listed, everything stays as it is.                                   *)
KueueCalls(c) ==
    LET n == Len(copy.spec.equalResources)
    IN  IF "kueue" \notin CRDs THEN <<>>
        ELSE IF isClusterPolicyBeingDeleted \/ ~copy.spec.enableKueue THEN removeKueueCalls
        ELSE IF n = 0 THEN StaleCalls({})
        ELSE IF c = 0 THEN <<>>
        ELSE IF c < n THEN modifyResourceFlavor
        ELSE modifyResourceFlavor \o createKueueQueues(c) \o StaleCalls(queueNames)

(* A policy with queues has the GPUs counted.                              *)
CountsResources ==
    /\ "kueue" \in CRDs /\ copy.life = "live" /\ copy.spec.enableKueue
    /\ copy.spec.equalResources # <<>>

(* getDevicePluginResources, getDraResources: what nodes or slices report  *)
(* at this moment; neither is watched.                                     *)
clusterResources == IF CountsResources THEN Capacities ELSE {capacity}

(* divideResources finds fewer GPUs than queues.                           *)
CannotDivide(c) ==
    CountsResources /\ c \in 1 .. Len(copy.spec.equalResources) - 1

-----------------------------------------------------------------------------
(* The pass.                                                               *)

(* Get, and the list of CRDs, which may fail.                              *)
Reconcile ==
    /\ pc = "idle" /\ queued
    /\ copy' = cp /\ stale' = FALSE /\ clean' = FALSE
    /\ \/ /\ Works /\ queued' = FALSE
          /\ pc' = IF cp.life = "live" /\ ~cp.fin THEN "finalizer" ELSE "dp"
       \/ Fails("list") /\ UNCHANGED <<queued, pc>>
    /\ UNCHANGED <<cp, store, module, claims, capacity, err, late>>

(* Variant: a policy being deleted is validated as well.                   *)
ValidateUpdateAlways == copy.spec.valid

(* The webhook's answer to an Update with the policy the pass has read.    *)
ValidateUpdate == deletion \/ copy.spec.valid

(* The Update that adds the finalizer; nothing has been deployed before.   *)
AddFinalizer ==
    /\ pc = "finalizer"
    /\ \/ /\ ~stale /\ ValidateUpdate /\ Works
          /\ cp' = [cp EXCEPT !.fin = TRUE] /\ copy' = [copy EXCEPT !.fin = TRUE]
          /\ queued' = TRUE /\ pc' = "dp" /\ UNCHANGED <<err, clean>>
       \/ /\ stale \/ ~ValidateUpdate
          /\ Works /\ Requeue /\ UNCHANGED cp
       \/ Fails("write") /\ Requeue /\ UNCHANGED cp
    /\ UNCHANGED <<store, module, claims, capacity, stale, late>>

(* A sub-controller that only makes its calls.                             *)
Runs(calls, next) ==
    \/ NextIs(next) /\ AllCalls(calls)
    \/ Fails(pc) /\ Failed(next) /\ CallFails(calls, FirstError(calls))

ReconcileDevicePlugin ==
    /\ pc = "dp" /\ Runs(DevicePluginCalls, "xpum")
    /\ UNCHANGED <<cp, module, claims, capacity, stale, late>>

ReconcileXpuManager ==
    /\ pc = "xpum" /\ Runs(XpuManagerCalls, "dra")
    /\ UNCHANGED <<cp, module, claims, capacity, stale, late>>

ReconcileDRA ==
    /\ pc = "dra" /\ ~shouldRemoveDRA
    /\ Runs(DRACreateCalls, "misc")
    /\ UNCHANGED <<cp, module, claims, capacity, stale, late>>

(* Variant: nobody looks at the claims.                                    *)
CheckClaimsNever(delete) ==
    Works /\ late' = {} /\ NextIs(delete)

(* anyAllocatedResourceClaims: a claim, or a list that fails, ends the     *)
(* pass with RequeueReconcileErr.                                          *)
CheckClaims(delete) ==
    \/ claims = {} /\ Works /\ late' = {} /\ NextIs(delete)
    \/ claims # {} /\ Works /\ Requeue /\ UNCHANGED late
    \/ Fails("list") /\ Requeue /\ UNCHANGED late

RemoveDRA ==
    /\ pc = "dra" /\ shouldRemoveDRA
    /\ CheckClaims("draDelete")
    /\ UNCHANGED <<cp, store, module, claims, capacity, stale>>

DeleteDRA ==
    /\ pc = "draDelete" /\ Runs(DRADeleteCalls, "misc")
    /\ UNCHANGED <<cp, module, claims, capacity, stale, late>>

(* Prometheus, NFD, Kueue; the first error is the last call.  Without a    *)
(* live policy: NFD, Prometheus, Kueue, each in spite of the others.       *)
ReconcileMisc ==
    \E c \in clusterResources :
    LET live == PrometheusCalls \o NfdCalls \o KueueCalls(c)
        gone == NfdCalls \o PrometheusCalls \o KueueCalls(c)
        nfd == Len(NfdCalls)
        prometheus == nfd + Len(PrometheusCalls)
        part == [k \in 1 .. Len(gone) + 1 |->
                    IF k <= nfd THEN nfd ELSE IF k <= prometheus THEN prometheus ELSE Len(gone)]
    IN  /\ pc = "misc"
        /\ capacity' = c
        /\ \/ /\ IF CannotDivide(c) THEN Failed("kmm") ELSE NextIs("kmm")
              /\ AllCalls(IF isClusterPolicyBeingDeleted THEN gone ELSE live)
           \/ /\ Fails("misc") /\ Failed("kmm")
              /\ IF isClusterPolicyBeingDeleted THEN CallFails(gone, part)
                 ELSE CallFails(live, FirstError(live))
        /\ UNCHANGED <<cp, module, claims, stale, late>>

-----------------------------------------------------------------------------
(* KMM.  A policy being deleted keeps its Module, which is garbage         *)
(* collected with it.                                                      *)

WantsNoModule == copy.life = "gone" \/ copy.spec.kernelModule = "none"
WantsVersion == copy.spec.kernelModule = "versioned"

(* Variant: a version is set or unset in place.                            *)
VersionToggledNever == FALSE

(* The Module exists with a version where none is wanted, or the reverse.  *)
VersionToggled ==
    /\ ~WantsNoModule /\ module.state # "none"
    /\ module.versioned # WantsVersion

(* deleteModuleIfExists and recreateOnVersionToggle up to the delete.      *)
RemoveModule ==
    /\ pc = "kmm" /\ module.state # "none" /\ (WantsNoModule \/ VersionToggled)
    /\ IF module.state = "deleting" /\ VersionToggled
       THEN Works /\ NextIs("finish") /\ UNCHANGED late
       ELSE CheckClaims(IF module.state = "deleting" THEN "finish" ELSE "kmmDelete")
    /\ UNCHANGED <<cp, store, module, claims, capacity, stale>>

(* Their delete, or the Get before it, which may fail.                     *)
DeleteModule ==
    /\ pc = "kmmDelete"
    /\ \/ Works /\ NextIs("finish") /\ module' = [module EXCEPT !.state = "deleting"]
       \/ Fails("kmm") /\ Failed("finish") /\ UNCHANGED module
    /\ UNCHANGED <<cp, store, claims, capacity, stale, late>>

(* CreateOrPatch.  KMM's webhook refuses to set or unset the version of a  *)
(* Module; a Module being deleted can be patched to no avail.              *)
ReconcileModule ==
    /\ pc = "kmm" /\ ~VersionToggled /\ (WantsNoModule => module.state = "none")
    /\ \/ /\ Works
          /\ IF WantsNoModule \/ (module.state # "none" /\ module.versioned = WantsVersion)
             THEN NextIs("finish") /\ UNCHANGED module
             ELSE IF module.state = "none"
             THEN /\ module' = [state |-> "present", versioned |-> WantsVersion]
                  /\ NextIs("finish")
             ELSE Failed("finish") /\ UNCHANGED module
       \/ Fails("kmm") /\ Failed("finish") /\ UNCHANGED module
    /\ UNCHANGED <<cp, store, claims, capacity, stale, late>>

(* The pass returns the error it has kept; with none and a policy being    *)
(* deleted it removes the finalizer, and the policy is gone.               *)
Finish ==
    /\ pc = "finish"
    /\ IF deletion
       THEN \/ /\ ~stale /\ ValidateUpdate /\ Works
               /\ cp' = [cp EXCEPT !.life = "gone", !.fin = FALSE]
               /\ Requeue
            \/ (stale \/ ~ValidateUpdate) /\ Works /\ Requeue /\ UNCHANGED cp
            \/ Fails("write") /\ Requeue /\ UNCHANGED cp
       ELSE /\ pc' = "idle" /\ queued' = (queued \/ err) /\ err' = FALSE
            /\ clean' = (~err /\ ~stale /\ copy.life = "live")
            /\ Works /\ UNCHANGED <<cp, copy>>
    /\ UNCHANGED <<store, module, claims, capacity, stale, late>>

(* The process ends.  The next one hears of the policy if there is one.    *)
Crash ==
    /\ Fails("crash")
    /\ pc' = "idle" /\ err' = FALSE /\ queued' = (cp.life # "gone")
    /\ UNCHANGED <<cp, store, module, claims, capacity, copy, stale, late, clean>>

-----------------------------------------------------------------------------
(* The environment.                                                        *)

(* A user edits the policy; the webhook admits valid specs.                *)
EditSpec ==
    /\ cp.life = "live" /\ spent.edits < MaxEdits
    /\ \E s \in Policies \ {cp.spec} : s.valid /\ cp' = [cp EXCEPT !.spec = s]
    /\ spent' = [spent EXCEPT !.edits = @ + 1]
    /\ queued' = TRUE /\ stale' = TRUE /\ clean' = FALSE
    /\ UNCHANGED <<store, module, claims, capacity, pc, copy, err, late>>

(* A user deletes it; without the finalizer it is gone at once.            *)
Delete ==
    /\ cp.life = "live"
    /\ cp' = [cp EXCEPT !.life = IF cp.fin THEN "deleting" ELSE "gone"]
    /\ queued' = TRUE /\ stale' = TRUE /\ clean' = FALSE
    /\ UNCHANGED <<store, module, claims, capacity, pc, copy, err, late, spent>>

(* Events of DRA pods and of the policy's status queue the policy.         *)
Wake ==
    /\ cp.life # "gone" /\ ~queued /\ queued' = TRUE
    /\ UNCHANGED <<cp, store, module, claims, capacity, pc, copy, err, stale, late, clean, spent>>

(* A claim is allocated while the driver publishes GPUs: to a user's pod,  *)
(* or to a pod of the xpum DaemonSet.                                      *)
Allocate(c) ==
    /\ c \notin claims /\ store["dra"] # 0 /\ store["draDeps"] # 0
    /\ IF c = "monitor"
       THEN store["xpum"] = WithClaim /\ Works
       ELSE /\ spent.claims < MaxClaims
            /\ spent' = [spent EXCEPT !.claims = @ + 1]
    /\ claims' = claims \cup {c}
    /\ late' = IF pc \in {"draDelete", "kmmDelete"} THEN late \cup {c} ELSE late
    /\ UNCHANGED <<cp, store, module, capacity, passVars, stale, clean>>

(* Its pod ends; without the driver it stays Terminating.                  *)
Release(c) ==
    /\ c \in claims /\ store["dra"] # 0
    /\ c = "monitor" => store["xpum"] # WithClaim
    /\ claims' = claims \ {c} /\ late' = late \ {c}
    /\ Works /\ UNCHANGED <<cp, store, module, capacity, passVars, stale, clean>>

(* KMM has unloaded the module; the event reaches the policy's queue.      *)
ModuleUnloaded ==
    /\ module.state = "deleting"
    /\ module' = [module EXCEPT !.state = "none"]
    /\ queued' = TRUE
    /\ Works /\ UNCHANGED <<cp, store, claims, capacity, pc, copy, err, stale, late, clean>>

GarbageCollect ==
    /\ cp.life = "gone" /\ module.state = "present"
    /\ module' = [module EXCEPT !.state = "deleting"]
    /\ Works /\ UNCHANGED <<cp, store, claims, capacity, passVars, stale, late, clean>>

Continue ==
    \/ Reconcile \/ AddFinalizer \/ ReconcileDevicePlugin \/ ReconcileXpuManager
    \/ ReconcileDRA \/ RemoveDRA \/ DeleteDRA \/ ReconcileMisc
    \/ RemoveModule \/ DeleteModule \/ ReconcileModule \/ Finish

Environment ==
    \/ EditSpec \/ Delete \/ Wake \/ ModuleUnloaded \/ GarbageCollect
    \/ \E c \in Claims : Allocate(c) \/ Release(c)

Next == Continue \/ Crash \/ Environment

Spec == Init /\ [][Next]_vars

(* The worker serves its queue and goes on with a pass; KMM unloads, the   *)
(* garbage collector collects, and pods the DaemonSet no longer wants end. *)
FairSpec ==
    /\ Spec
    /\ WF_vars(Continue)
    /\ WF_vars(ModuleUnloaded) /\ WF_vars(GarbageCollect)
    /\ WF_vars(Release("monitor"))

-----------------------------------------------------------------------------
(* Properties.                                                             *)

(* The objects whose failing delete is only logged.                        *)
LoggedOnly == {"dpScc", "xpumScc", "flavor"}

(* Nothing is deployed for a policy without the finalizer, before it is    *)
(* added or after it is removed, in whatever order errors, edits, deletion *)
(* and restarts come: no DaemonSet, queue or rule outlives its policy.     *)
(* None of them has an owner reference that would clean it up.             *)
NothingWithoutFinalizer ==
    ~cp.fin => \A o \in Objects \ LoggedOnly : store[o] = 0

(* The objects a spec asks for.                                            *)
Wants(s, o) ==
    \/ o = "dp" /\ s.resourceRegistration = "dp"
    \/ o = "dpScc" /\ s.resourceRegistration = "dp" /\ OpenShift
    \/ o = "xpum" /\ s.resourceMonitoring
    \/ o = "xpumScc" /\ s.resourceMonitoring /\ OpenShift
    \/ o \in {"draDeps", "dra"} /\ s.resourceRegistration = "dra"
    \/ o = "draScc" /\ s.resourceRegistration = "dra" /\ OpenShift
    \/ o \in {"monitor", "service"} /\ s.resourceMonitoring /\ s.prometheusIntegration
         /\ "prometheus" \in CRDs
    \/ o = "nfd" /\ s.useNFDLabeling /\ "nfd" \in CRDs
    \/ /\ s.enableKueue /\ "kueue" \in CRDs /\ capacity > 0
       /\ \E i \in DOMAIN s.equalResources : o \in {"flavor", s.equalResources[i]}

(* Kueue objects of a spec whose last pass found no GPU.                   *)
Unsettled(s, o) ==
    /\ s.enableKueue /\ capacity = 0 /\ s.equalResources # <<>>
    /\ o \in Queues \cup {"flavor"}

(* The quotas of the queues are equal shares of all GPUs.                  *)
EqualShares(Q) ==
    /\ Q # {} => MapThenSumSet(LAMBDA q : store[q], Q) = capacity
    /\ \A q, r \in Q : store[q] <= store[r] + 1

Deployed(s) ==
    /\ \/ module.state = "deleting"
       \/ module.state = "none" /\ s.kernelModule = "none"
       \/ /\ module.state = "present" /\ s.kernelModule # "none"
          /\ module.versioned <=> (s.kernelModule = "versioned")
    /\ \A o \in Objects : IF Wants(s, o) THEN store[o] # 0
                           ELSE o \in LoggedOnly \/ Unsettled(s, o) \/ store[o] = 0
    /\ s.resourceMonitoring =>
          ((store["xpum"] = WithClaim) <=> (s.resourceRegistration = "dra"))
    /\ validateKueueSpec(s) => EqualShares({q \in Queues : Wants(s, q)})

(* When a pass has returned no error and no event waits, the cluster is as *)
(* the spec asks, wherever earlier passes, under other specs, were cut     *)
(* short: one of DRA and device plugin, the right monitor claim, queues    *)
(* that share out every GPU once unless one of them is named twice, no     *)
(* stale object, the Module with its version.  GPUs are those the pass     *)
(* counted.                                                                *)
CleanMeansDeployed == (clean /\ ~queued) => Deployed(cp.spec)

(* The driver and the Module are deleted only when no claim was allocated  *)
(* at the check before.  (A claim allocated after it, while the delete is  *)
(* under way, is not seen.)                                                *)
DriversOutliveClaims ==
    [][(\/ store["dra"] # 0 /\ store'["dra"] = 0
        \/ module.state = "present" /\ module'.state = "deleting")
          => claims \subseteq late]_vars

(* A claim whose driver was deleted after all keeps its pod Terminating.   *)
Stranded == claims # {} /\ store["dra"] = 0

(* A deleted policy goes away with its Module unless a user's claim holds  *)
(* it up.  The claims of the operator's own monitoring pods do not: the    *)
(* XPU manager goes first.  Nor does a spec the webhook would now refuse.  *)
DeletionCompletes ==
    (cp.life = "deleting") ~>
        \/ cp.life = "gone" /\ module.state = "none"
        \/ claims \cap Workloads # {} \/ Stranded

(* Claims that keep a driver or Module the spec no longer wants.           *)
HeldUp(s) ==
    \/ s.resourceRegistration = "dp" /\ (claims \cap Workloads # {} \/ Stranded)
    \/ /\ claims # {} /\ module.state # "none"
       /\ \/ s.kernelModule = "none"
          \/ module.versioned # (s.kernelModule = "versioned")

(* The spec is reached - from any other one, with errors and restarts on   *)
(* the way - unless claims hold the change up or there are fewer GPUs than *)
(* queues.  Recreating a Module relies on the event of its deletion: the   *)
(* RequeueAfter of the sub-controller is dropped.                          *)
SpecIsReached ==
    (cp.life = "live") ~>
        \/ cp.life # "live"
        \/ HeldUp(cp.spec) \/ capacity < Len(cp.spec.equalResources)
        \/ module.state # "deleting" /\ Deployed(cp.spec)
=============================================================================
