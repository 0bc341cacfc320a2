------------------------ MODULE ClusterPolicyProofs ------------------------
(***************************************************************************)
(* Proofs about ClusterPolicy, for any number of Kueue queues, workloads   *)
(* and policies, any set of CRDs and any failures.                         *)
(***************************************************************************)
EXTENDS ClusterPolicyCalls

-----------------------------------------------------------------------------
(* The inductive invariant.                                                *)

AfterPlugin == {"xpum", "dra", "draDelete", "misc", "kmm", "kmmDelete", "finish"}
AfterXpum == {"dra", "draDelete", "misc", "kmm", "kmmDelete", "finish"}
AfterDRA == {"misc", "kmm", "kmmDelete", "finish"}
AfterMisc == {"kmm", "kmmDelete", "finish"}

(* What a deletion pass has removed when it gets to p.                     *)
Removed(p) ==
    (IF p \in AfterPlugin THEN {"dp"} ELSE {})
      \cup (IF p \in AfterXpum THEN {"xpum"} ELSE {})
      \cup (IF p \in AfterDRA THEN DRAObjects ELSE {})
      \cup (IF p \in AfterMisc THEN MiscObjects \ {"flavor"} ELSE {})

(* No claim is allocated but those that came after the last look.          *)
LateOnly ==
    \/ ~cp.fin
    \/ pc \in {"draDelete", "kmmDelete"}
    \/ deletion /\ pc \in AfterDRA
    => claims \subseteq late

PolicyInv ==
    /\ TypeOK
    /\ cp.life = "deleting" => cp.fin
    /\ cp.life = "gone" => ~cp.fin
    /\ copy.life = "gone" => cp.life = "gone"
    /\ pc = "finalizer" => copy.life = "live"
    /\ pc # "idle" /\ ~stale => copy = cp
    /\ pc \notin {"idle", "finalizer"} => cp.fin \/ copy.life = "gone"
    /\ \A o \in Impossible : store[o] = 0
    /\ NothingWithoutFinalizer
    /\ deletion => \A o \in Removed(pc) : store[o] = 0
    /\ LateOnly

(* Nothing is deployed yet, and no pass has begun. *)
LEMMA PolicyInit == Init => PolicyInv
  <1> SUFFICES ASSUME Init PROVE PolicyInv
    OBVIOUS
  <1>1. PICK s \in Policies : cp = [life |-> "live", fin |-> ~s.valid, spec |-> s]
    BY DEF Init
  <1>2. cp \in PolicyType /\ cp.life = "live"
    BY <1>1, Zenon DEF PolicyType
  <1>3. \A o \in Objects : store[o] = 0
    BY DEF Init
  <1>4. Stored
    BY <1>3, ZeroFits DEF Init, Stored
  <1>5. TypeOK
    BY <1>2, <1>4, StoreType, Zenon DEF Init, TypeOK
  <1>6. Impossible \subseteq Objects
    BY DEF Impossible, Objects, Operands
  <1> QED
    BY <1>2, <1>3, <1>5, <1>6
       DEF Init, PolicyInv, NothingWithoutFinalizer, LateOnly, deletion

(* Counting failures, edits and claims. *)
LEMMA SpentType ==
  ASSUME TypeOK, NEW k, Works \/ Fails(k)
  PROVE  spent' \in [failures : Nat, edits : Nat, claims : Nat]
  <1>1. CASE Works
    BY <1>1 DEF TypeOK, Works
  <1>2. CASE Fails(k)
    <2>1. spent.failures + 1 \in Nat
      BY DEF TypeOK
    <2> QED
      BY <1>2, <2>1 DEF TypeOK, Fails
  <1> QED
    BY <1>1, <1>2

Steps == SubControllers \cup {"idle", "finalizer", "draDelete", "kmmDelete", "finish"}

(* However a sub-controller ends, the pass goes on or ends, with the       *)
(* policy it has read; a deletion pass goes on only without an error. *)
LEMMA PassGoesOn ==
  ASSUME TypeOK, NEW next \in Steps, NextIs(next) \/ Failed(next) \/ Requeue
  PROVE  /\ copy' = copy /\ pc' \in {next, "idle"} /\ pc' \in Steps
         /\ queued' \in BOOLEAN /\ err' \in BOOLEAN /\ clean' \in BOOLEAN
         /\ deletion /\ Failed(next) => pc' = "idle"
  BY Zenon DEF NextIs, Failed, Requeue, TypeOK, Steps

(* A step of a pass that keeps the policy and what is removed so far. *)
LEMMA PassKeeps ==
  ASSUME PolicyInv, TypeOK', UNCHANGED <<cp, copy, stale>>,
         pc' = "idle" \/ (pc' # "finalizer" /\ pc \notin {"idle", "finalizer"}),
         \A o \in Impossible : store'[o] = 0,
         ~cp.fin => \A o \in Objects \ LoggedOnly : store'[o] = 0,
         deletion => \A o \in Removed(pc') : store'[o] = 0,
         LateOnly'
  PROVE  PolicyInv'
  <1>1. Impossible' = Impossible /\ Removed(pc)' = Removed(pc')
    BY DEF Impossible, Removed
  <1>2. NothingWithoutFinalizer'
    BY DEF NothingWithoutFinalizer
  <1>3. (deletion => \A o \in Removed(pc) : store[o] = 0)'
    BY <1>1 DEF deletion
  <1>4. (\A o \in Impossible : store[o] = 0)'
    BY <1>1
  <1> QED
    BY <1>2, <1>3, <1>4 DEF PolicyInv

(* A sub-controller that makes calls. *)
LEMMA SubController ==
  ASSUME PolicyInv, pc \notin {"idle", "finalizer"},
         NEW next \in Steps \ {"finalizer", "draDelete", "kmmDelete"}, Stored',
         UNCHANGED <<cp, module, claims, stale, late>>, capacity' \in Nat,
         NEW k, Works \/ Fails(k), NextIs(next) \/ Failed(next),
         \A o \in Impossible : store'[o] = 0,
         isClusterPolicyBeingDeleted => \A o \in Objects : store'[o] \in {0, store[o]},
         deletion /\ ~Failed(next) => \A o \in Removed(next) : store'[o] = 0,
         deletion /\ next \in AfterDRA => claims \subseteq late
  PROVE  PolicyInv'
  <1>0. TypeOK
    BY DEF PolicyInv
  <1>1. /\ copy' = copy /\ pc' \in {next, "idle"} /\ pc' \in Steps
        /\ queued' \in BOOLEAN /\ err' \in BOOLEAN /\ clean' \in BOOLEAN
        /\ deletion /\ Failed(next) => pc' = "idle"
    BY <1>0, PassGoesOn
  <1>2. TypeOK'
    <2>1. spent' \in [failures : Nat, edits : Nat, claims : Nat]
      BY <1>0, SpentType
    <2>2. /\ store' \in [Objects -> Nat]
          /\ \A o \in Objects \ Queues : store'[o] <= WithClaim
          /\ \A q \in Queues : \E c \in Capacities : store'[q] <= c
      BY ConstantsAssumption DEF Stored, Fits, Objects
    <2> QED
      BY <1>0, <1>1, <2>1, <2>2 DEF TypeOK, Steps
  <1>3. ~cp.fin => \A o \in Objects \ LoggedOnly : store'[o] = 0
    BY DEF PolicyInv, NothingWithoutFinalizer, isClusterPolicyBeingDeleted
  <1>4. deletion => \A o \in Removed(pc') : store'[o] = 0
    BY <1>1 DEF Removed, AfterPlugin, AfterXpum, AfterDRA, AfterMisc
  <1>5. LateOnly'
    BY <1>1 DEF LateOnly, PolicyInv, deletion, AfterDRA
  <1> QED
    BY <1>1, <1>2, <1>3, <1>4, <1>5, PassKeeps

(* Objects by sub-controller. *)
LEMMA ObjectGroups ==
  /\ DevicePluginObjects \subseteq Objects /\ XpumObjects \subseteq Objects
  /\ DRAObjects \subseteq Objects /\ MiscObjects \subseteq Objects
  /\ DevicePluginObjects \cap Impossible = {} /\ XpumObjects \cap Impossible = {}
  /\ Impossible \subseteq Objects
  /\ "dp" \notin Queues /\ "xpum" \notin Queues /\ DRAObjects \cap Queues = {}
  BY ConstantsAssumption
     DEF Objects, Operands, DevicePluginObjects, XpumObjects, DRAObjects, MiscObjects,
         Impossible

(* The device plugin. *)
LEMMA DevicePluginStep ==
  ASSUME PolicyInv, ReconcileDevicePlugin
  PROVE  PolicyInv' /\ UNCHANGED module /\ store'["dra"] = store["dra"]
  <1> DEFINE calls == DevicePluginCalls
  <1>0. Stored /\ pc = "dp"
    BY StoreType DEF PolicyInv, ReconcileDevicePlugin
  <1>1. \/ NextIs("xpum") /\ AllCalls(calls)
        \/ Fails(pc) /\ Failed("xpum") /\ CallFails(calls, FirstError(calls))
    BY DEF ReconcileDevicePlugin, Runs
  <1>2. \E k : Works \/ Fails(k)
    BY <1>1 DEF AllCalls
  <1>3. Touches(DevicePluginObjects)
    BY <1>0, <1>1, DevicePluginList, SomeCalls
  <1>4. isClusterPolicyBeingDeleted => \A o \in Objects : store'[o] \in {0, store[o]}
    BY <1>0, <1>1, DevicePluginList, SomeDeletes
  <1>5. deletion /\ ~Failed("xpum") => store'["dp"] = 0
    BY <1>0, <1>1, DevicePluginList, AllDeletes, ObjectGroups
       DEF deletion, isClusterPolicyBeingDeleted, DevicePluginObjects
  <1>6. \A o \in Impossible : store'[o] = 0
    BY <1>3, ObjectGroups DEF Touches, PolicyInv
  <1>7. Removed("xpum") = {"dp"}
    BY DEF Removed, AfterPlugin, AfterXpum, AfterDRA, AfterMisc
  <1>8. PolicyInv'
    BY <1>0, <1>1, <1>2, <1>3, <1>4, <1>5, <1>6, <1>7, SubController
       DEF Touches, ReconcileDevicePlugin, PolicyInv, TypeOK, Steps, SubControllers, AfterDRA
  <1> QED
    BY <1>3, <1>8, ObjectGroups DEF Touches, ReconcileDevicePlugin, DevicePluginObjects, DRAObjects

(* The XPU manager. *)
LEMMA XpuManagerStep ==
  ASSUME PolicyInv, ReconcileXpuManager
  PROVE  PolicyInv' /\ UNCHANGED module /\ store'["dra"] = store["dra"]
  <1> DEFINE calls == XpuManagerCalls
  <1>0. Stored /\ pc = "xpum"
    BY StoreType DEF PolicyInv, ReconcileXpuManager
  <1>1. \/ NextIs("dra") /\ AllCalls(calls)
        \/ Fails(pc) /\ Failed("dra") /\ CallFails(calls, FirstError(calls))
    BY DEF ReconcileXpuManager, Runs
  <1>2. \E k : Works \/ Fails(k)
    BY <1>1 DEF AllCalls
  <1>3. Touches(XpumObjects)
    BY <1>0, <1>1, XpuManagerList, SomeCalls
  <1>4. isClusterPolicyBeingDeleted => \A o \in Objects : store'[o] \in {0, store[o]}
    BY <1>0, <1>1, XpuManagerList, SomeDeletes
  <1>5. deletion /\ ~Failed("dra") => store'["xpum"] = 0 /\ store'["dp"] = 0
    <2>1. deletion /\ ~Failed("dra") => store'["xpum"] = 0
      BY <1>0, <1>1, XpuManagerList, AllDeletes, ObjectGroups
         DEF deletion, isClusterPolicyBeingDeleted, XpumObjects
    <2>2. deletion => store'["dp"] = 0
      BY <1>0, <1>3, ObjectGroups
         DEF Touches, XpumObjects, DevicePluginObjects, PolicyInv, Removed, AfterPlugin
    <2> QED
      BY <2>1, <2>2
  <1>6. \A o \in Impossible : store'[o] = 0
    BY <1>3, ObjectGroups DEF Touches, PolicyInv
  <1>7. Removed("dra") = {"dp", "xpum"}
    BY DEF Removed, AfterPlugin, AfterXpum, AfterDRA, AfterMisc
  <1>8. PolicyInv'
    BY <1>0, <1>1, <1>2, <1>3, <1>4, <1>5, <1>6, <1>7, SubController
       DEF Touches, ReconcileXpuManager, PolicyInv, TypeOK, Steps, SubControllers, AfterDRA
  <1> QED
    BY <1>3, <1>8, ObjectGroups DEF Touches, ReconcileXpuManager, XpumObjects, DRAObjects

(* The DRA driver is made only for a live policy. *)
LEMMA DRAStep ==
  ASSUME PolicyInv, ReconcileDRA
  PROVE  PolicyInv' /\ UNCHANGED module /\ (store["dra"] # 0 => store'["dra"] # 0)
  <1> DEFINE calls == DRACreateCalls
  <1>0. Stored /\ pc = "dra" /\ ~isClusterPolicyBeingDeleted /\ ~deletion
    BY StoreType DEF PolicyInv, ReconcileDRA, shouldRemoveDRA,
                     isClusterPolicyBeingDeleted, deletion
  <1>1. \/ NextIs("misc") /\ AllCalls(calls)
        \/ Fails(pc) /\ Failed("misc") /\ CallFails(calls, FirstError(calls))
    BY DEF ReconcileDRA, Runs
  <1>2. \E k : Works \/ Fails(k)
    BY <1>1 DEF AllCalls
  <1>3. /\ Touches(DRAObjects)
        /\ ~OpenShift => Touches({"draDeps", "dra"})
    BY <1>0, <1>1, DRALists, SomeCalls, Zenon
  <1>4. \A o \in Impossible : store'[o] = 0
    BY <1>3, ObjectGroups DEF Touches, PolicyInv, Impossible, DRAObjects, MiscObjects
  <1>5. PolicyInv'
    BY <1>0, <1>1, <1>2, <1>3, <1>4, SubController
       DEF Touches, ReconcileDRA, PolicyInv, TypeOK, Steps, SubControllers
  <1>6. store["dra"] # 0 => store'["dra"] # 0
    <2>1. PICK P \in SUBSET AllOf(calls) : store' = Perform(calls, P)
      BY <1>1, Zenon DEF AllCalls, CallFails
    <2> DEFINE mine == {i \in P : calls[i].obj = "dra"}
    <2>2. \A i \in P : calls[i].val = 1
      BY DEF DRACreateCalls, EnsureSCC, IfOpenShift, Put,
             createDependencyComponentsIfMissing, AllOf
    <2>3. store'["dra"] = IF mine = {} THEN store["dra"] ELSE calls[Max(mine)].val
      <3>1. "dra" \in Objects
        BY DEF Objects, Operands
      <3> QED
        BY <2>1, <3>1, Zenon DEF Perform
    <2>4. mine # {} => Max(mine) \in mine
      BY DRALists, LastOne, LenProperties, Zenon DEF AllOf
    <2> QED
      BY <2>2, <2>3, <2>4
  <1> QED
    BY <1>5, <1>6 DEF ReconcileDRA

(* Its removal follows the check of the claims. *)
LEMMA DeleteDRAStep ==
  ASSUME PolicyInv, DeleteDRA
  PROVE  PolicyInv' /\ UNCHANGED module /\ claims \subseteq late
  <1> DEFINE calls == DRADeleteCalls
  <1>0. Stored /\ pc = "draDelete" /\ claims \subseteq late
    BY StoreType DEF PolicyInv, DeleteDRA, LateOnly
  <1>1. \/ NextIs("misc") /\ AllCalls(calls)
        \/ Fails(pc) /\ Failed("misc") /\ CallFails(calls, FirstError(calls))
    BY DEF DeleteDRA, Runs
  <1>2. \E k : Works \/ Fails(k)
    BY <1>1 DEF AllCalls
  <1>3. DRADeleteCalls \in Seq(CallsOn(DRAObjects))
    BY DRALists, Widen
  <1>4. Touches(DRAObjects)
    BY <1>0, <1>1, <1>3, SomeCalls
  <1>5. \A o \in Objects : store'[o] \in {0, store[o]}
    BY <1>0, <1>1, DRALists, SomeDeletes
  <1>6. \A o \in Impossible : store'[o] = 0
    BY <1>5, ObjectGroups DEF PolicyInv
  <1>7. ~Failed("misc") => \A o \in DRAObjects : store'[o] = 0
    <2>1. ~Failed("misc") => /\ store'["draDeps"] = 0 /\ store'["dra"] = 0
                             /\ OpenShift => store'["draScc"] = 0
      BY <1>0, <1>1, DRALists, AllDeletes, ObjectGroups DEF DRAObjects
    <2>2. ~OpenShift => store'["draScc"] = 0
      BY <1>6 DEF Impossible
    <2> QED
      BY <2>1, <2>2 DEF DRAObjects
  <1>8. deletion => store'["dp"] = 0 /\ store'["xpum"] = 0
    BY <1>0, <1>5, ObjectGroups
       DEF PolicyInv, Removed, AfterPlugin, AfterXpum, DevicePluginObjects, XpumObjects
  <1>9. Removed("misc") = {"dp", "xpum"} \cup DRAObjects
    BY DEF Removed, AfterPlugin, AfterXpum, AfterDRA, AfterMisc
  <1>10. PolicyInv'
    BY <1>0, <1>1, <1>2, <1>4, <1>5, <1>6, <1>7, <1>8, <1>9, SubController
       DEF Touches, DeleteDRA, PolicyInv, TypeOK, Steps, SubControllers
  <1> QED
    BY <1>0, <1>10 DEF DeleteDRA

(* Prometheus, NFD and Kueue. *)
LEMMA MiscStep ==
  ASSUME PolicyInv, ReconcileMisc
  PROVE  PolicyInv' /\ UNCHANGED module /\ store'["dra"] = store["dra"]
  <1>0. Stored /\ pc = "misc" /\ copy \in PolicyType
    BY StoreType DEF PolicyInv, ReconcileMisc, TypeOK
  <1>1. PICK c \in clusterResources :
           /\ capacity' = c
           /\ \/ /\ NextIs("kmm") \/ Failed("kmm")
                 /\ deletion => NextIs("kmm")
                 /\ AllCalls(IF isClusterPolicyBeingDeleted THEN MiscGone(c) ELSE MiscLive(c))
              \/ /\ Fails("misc") /\ Failed("kmm")
                 /\ \E last : CallFails(IF isClusterPolicyBeingDeleted THEN MiscGone(c)
                                        ELSE MiscLive(c), last)
    <2>1. \A c : CannotDivide(c) => ~deletion
      BY DEF CannotDivide, CountsResources, deletion
    <2> QED
      BY <2>1, Zenon DEF ReconcileMisc, MiscGone, MiscLive
  <1> DEFINE calls == IF isClusterPolicyBeingDeleted THEN MiscGone(c) ELSE MiscLive(c)
  <1>2. \E k : Works \/ Fails(k)
    BY <1>1 DEF AllCalls
  <1>3. Touches(MiscPossible)
    <2>1. calls \in Seq(CallsOn(MiscPossible))
      BY <1>0, MiscLists
    <2> HIDE DEF calls
    <2>2. \E last : AllCalls(calls) \/ CallFails(calls, last)
      BY <1>1 DEF calls
    <2> QED
      BY <1>0, <2>1, <2>2, SomeCalls
  <1>4. isClusterPolicyBeingDeleted => \A o \in Objects : store'[o] \in {0, store[o]}
    <2>1. isClusterPolicyBeingDeleted =>
             /\ MiscGone(c) \in Seq(DeletesOn(MiscPossible))
             /\ \E last : AllCalls(MiscGone(c)) \/ CallFails(MiscGone(c), last)
      BY <1>0, <1>1, MiscLists
    <2> QED
      BY <1>0, <2>1, SomeDeletes
  <1>5. \A o \in Impossible : store'[o] = 0
    BY <1>3, ObjectGroups DEF Touches, MiscPossible, PolicyInv
  <1>6. deletion /\ ~Failed("kmm") => \A o \in MiscObjects \ {"flavor"} : store'[o] = 0
    <2> SUFFICES ASSUME deletion, ~Failed("kmm"), NEW o \in MiscObjects \ {"flavor"}
                 PROVE  store'[o] = 0
      OBVIOUS
    <2>0. isClusterPolicyBeingDeleted /\ o \in Objects
      BY ObjectGroups DEF isClusterPolicyBeingDeleted, deletion
    <2>1. AllCalls(MiscGone(c)) /\ MiscGone(c) \in Seq(DeletesOn(MiscPossible))
      BY <1>0, <1>1, <2>0, MiscLists
    <2>2. CASE o \in Impossible
      BY <1>5, <2>2
    <2>3. CASE o \notin Impossible
      <3>1. o \notin Queues \/ store[o] # 0 => Covers(MiscGone(c), o)
        BY <1>0, <2>0, <2>3, MiscLists DEF MiscPossible
      <3>2. store[o] = 0 => store'[o] = 0
        BY <1>4, <2>0
      <3> QED
        BY <1>0, <2>0, <2>1, <3>1, <3>2, AllDeletes
    <2> QED
      BY <2>2, <2>3
  <1>7. deletion => \A o \in Removed("misc") : store'[o] = 0
    <2>1. Removed("misc") \subseteq Objects
      BY ObjectGroups DEF Removed, AfterPlugin, AfterXpum, AfterDRA, AfterMisc,
                          DevicePluginObjects, XpumObjects
    <2> QED
      BY <1>0, <1>4, <2>1 DEF PolicyInv, deletion, isClusterPolicyBeingDeleted
  <1>8. Removed("kmm") = Removed("misc") \cup (MiscObjects \ {"flavor"})
    BY DEF Removed, AfterPlugin, AfterXpum, AfterDRA, AfterMisc
  <1>9. UNCHANGED <<cp, module, claims, stale, late>> /\ capacity' \in Nat
    BY <1>1, ConstantsAssumption DEF ReconcileMisc, clusterResources, PolicyInv, TypeOK
  <1>10. deletion => claims \subseteq late
    BY <1>0 DEF PolicyInv, LateOnly, AfterDRA
  <1>11. PolicyInv'
    BY <1>0, <1>1, <1>2, <1>3, <1>4, <1>5, <1>6, <1>7, <1>8, <1>9, <1>10, SubController
       DEF Touches, Steps, SubControllers
  <1> QED
    BY <1>3, <1>9, <1>11, ObjectGroups DEF Touches, MiscPossible, MiscObjects, DRAObjects

(* The Module is deleted only where no claim was there at the check. *)
LateModule ==
    module.state = "present" /\ module'.state = "deleting" => claims \subseteq late

(* The check of the claims, before the driver or the Module is deleted. *)
LEMMA CheckClaimsStep ==
  ASSUME PolicyInv, pc \notin {"idle", "finalizer"},
         NEW next \in {"draDelete", "kmmDelete", "finish"},
         next # "draDelete" => pc = "kmm",
         next = "draDelete" => pc = "dra",
         \/ CheckClaims(next)
         \/ next = "finish" /\ Works /\ NextIs("finish") /\ UNCHANGED late,
         UNCHANGED <<cp, store, module, claims, capacity, stale>>
  PROVE  PolicyInv'
  <1>0. TypeOK
    BY DEF PolicyInv
  <1>1. /\ NextIs(next) \/ Requeue
        /\ late' = late \/ (claims = {} /\ late' = {})
        /\ pc' = "idle" \/ claims = {} \/ (next = "finish" /\ late' = late)
    BY Zenon DEF CheckClaims, Requeue
  <1>2. /\ copy' = copy /\ pc' \in {next, "idle"} /\ pc' \in Steps
        /\ queued' \in BOOLEAN /\ err' \in BOOLEAN /\ clean' \in BOOLEAN
    BY <1>0, <1>1, PassGoesOn DEF Steps
  <1>3. \E k : Works \/ Fails(k)
    BY DEF CheckClaims
  <1>4. TypeOK'
    <2>1. spent' \in [failures : Nat, edits : Nat, claims : Nat]
      BY <1>0, <1>3, SpentType
    <2> QED
      BY <1>0, <1>1, <1>2, <2>1 DEF TypeOK, Steps
  <1>5. deletion => \A o \in Removed(pc') : store'[o] = 0
    <2>1. Removed(pc') \subseteq Removed(pc)
      <3>1. CASE pc' = "idle"
        BY <3>1 DEF Removed, AfterPlugin, AfterXpum, AfterDRA, AfterMisc
      <3>2. CASE pc' = "draDelete" /\ pc = "dra"
        BY <3>2 DEF Removed, AfterPlugin, AfterXpum, AfterDRA, AfterMisc
      <3>3. CASE pc' \in {"kmmDelete", "finish"} /\ pc = "kmm"
        BY <3>3 DEF Removed, AfterPlugin, AfterXpum, AfterDRA, AfterMisc
      <3> QED
        BY <1>2, <3>1, <3>2, <3>3
    <2> QED
      BY <2>1 DEF PolicyInv
  <1>6. LateOnly'
    BY <1>1, <1>2 DEF LateOnly, PolicyInv, deletion, AfterDRA
  <1> QED
    BY <1>2, <1>4, <1>5, <1>6, PassKeeps DEF PolicyInv, NothingWithoutFinalizer

(* KMM. *)
LEMMA ModuleStep ==
  ASSUME PolicyInv, DeleteModule \/ ReconcileModule
  PROVE  PolicyInv' /\ LateModule
  <1>0. TypeOK
    BY DEF PolicyInv
  <1>1. /\ pc \in {"kmm", "kmmDelete"} /\ UNCHANGED <<cp, store, claims, capacity, stale, late>>
        /\ NextIs("finish") \/ Failed("finish")
        /\ \E k : Works \/ Fails(k)
    BY Zenon DEF DeleteModule, ReconcileModule
  <1>2. \/ module' = module
        \/ pc = "kmmDelete" /\ module' = [module EXCEPT !.state = "deleting"]
        \/ module' = [state |-> "present", versioned |-> WantsVersion]
    BY Zenon DEF DeleteModule, ReconcileModule
  <1>3. module' \in [state : {"none", "present", "deleting"}, versioned : BOOLEAN]
    <2>1. WantsVersion \in BOOLEAN
      BY DEF WantsVersion
    <2>2. module \in [state : {"none", "present", "deleting"}, versioned : BOOLEAN]
      BY <1>0 DEF TypeOK
    <2>3. [module EXCEPT !.state = "deleting"]
            \in [state : {"none", "present", "deleting"}, versioned : BOOLEAN]
      BY <2>2
    <2>4. [state |-> "present", versioned |-> WantsVersion]
            \in [state : {"none", "present", "deleting"}, versioned : BOOLEAN]
      BY <2>1, Zenon
    <2> QED
      BY <1>2, <2>2, <2>3, <2>4, Zenon
  <1>4. /\ copy' = copy /\ pc' \in {"finish", "idle"} /\ pc' \in Steps
        /\ queued' \in BOOLEAN /\ err' \in BOOLEAN /\ clean' \in BOOLEAN
    BY <1>0, <1>1, PassGoesOn DEF Steps
  <1>5. TypeOK'
    <2>1. spent' \in [failures : Nat, edits : Nat, claims : Nat]
      BY <1>0, <1>1, SpentType
    <2> QED
      BY <1>0, <1>1, <1>3, <1>4, <2>1 DEF TypeOK, Steps
  <1>6. deletion => \A o \in Removed(pc') : store'[o] = 0
    <2>1. Removed(pc') \subseteq Removed(pc)
      BY <1>1, <1>4 DEF Removed, AfterPlugin, AfterXpum, AfterDRA, AfterMisc
    <2> QED
      BY <1>1, <2>1 DEF PolicyInv
  <1>7. LateOnly'
    BY <1>1, <1>4 DEF LateOnly, PolicyInv, deletion, AfterDRA
  <1>8. LateModule
    BY <1>1, <1>2 DEF LateModule, LateOnly, PolicyInv
  <1> QED
    BY <1>1, <1>4, <1>5, <1>6, <1>7, <1>8, PassKeeps DEF PolicyInv, NothingWithoutFinalizer

(* The beginning of a pass: a policy that is not live has its finalizer or *)
(* is gone. *)
LEMMA ReconcileStep ==
  ASSUME PolicyInv, Reconcile
  PROVE  PolicyInv'
  <1>0. TypeOK
    BY DEF PolicyInv
  <1>1. /\ UNCHANGED <<cp, store, module, claims, capacity, err, late>>
        /\ copy' = cp /\ stale' = FALSE /\ clean' = FALSE /\ queued' \in BOOLEAN
        /\ pc = "idle"
        /\ \/ pc' = "idle"
           \/ pc' = "finalizer" /\ cp.life = "live"
           \/ pc' = "dp" /\ (cp.life = "live" => cp.fin)
    BY <1>0, Zenon DEF Reconcile, TypeOK
  <1>2. TypeOK'
    <2>1. spent' \in [failures : Nat, edits : Nat, claims : Nat]
      BY <1>0, SpentType, Zenon DEF Reconcile
    <2> QED
      BY <1>0, <1>1, <2>1, Zenon DEF TypeOK, SubControllers
  <1>3. pc' = "dp" => cp.fin \/ cp.life = "gone"
    BY <1>0, <1>1 DEF PolicyInv, TypeOK, PolicyType
  <1>4. Impossible' = Impossible /\ Removed(pc)' = {}
    BY <1>1 DEF Impossible, Removed, AfterPlugin, AfterXpum, AfterDRA, AfterMisc
  <1>5. LateOnly'
    BY <1>1 DEF PolicyInv, LateOnly, AfterDRA
  <1> QED
    BY <1>1, <1>2, <1>3, <1>4, <1>5 DEF PolicyInv, NothingWithoutFinalizer

(* The finalizer is added to the policy that was read. *)
LEMMA AddFinalizerStep ==
  ASSUME PolicyInv, AddFinalizer
  PROVE  PolicyInv'
  <1>0. TypeOK /\ pc = "finalizer" /\ copy.life = "live"
    BY DEF PolicyInv, AddFinalizer
  <1>1. UNCHANGED <<store, module, claims, capacity, stale, late>>
    BY DEF AddFinalizer
  <1>2. spent' \in [failures : Nat, edits : Nat, claims : Nat]
    <2>1. Works \/ Fails("write")
      BY DEF AddFinalizer
    <2> QED
      BY <1>0, <2>1, SpentType
  <1>3. Impossible' = Impossible /\ Removed("idle") = {} /\ Removed("dp") = {}
    BY DEF Impossible, Removed, AfterPlugin, AfterXpum, AfterDRA, AfterMisc
  <1>4. CASE Requeue /\ UNCHANGED cp
    <2>1. TypeOK'
      BY <1>0, <1>1, <1>2, <1>4, Zenon DEF Requeue, TypeOK
    <2>2. LateOnly'
      BY <1>1, <1>4 DEF PolicyInv, LateOnly, Requeue, AfterDRA
    <2> QED
      BY <1>1, <1>3, <1>4, <2>1, <2>2, PassKeeps DEF Requeue, PolicyInv, NothingWithoutFinalizer
  <1>5. CASE /\ ~stale /\ cp' = [cp EXCEPT !.fin = TRUE] /\ copy' = [copy EXCEPT !.fin = TRUE]
             /\ queued' = TRUE /\ pc' = "dp" /\ UNCHANGED <<err, clean>>
    <2>1. copy = cp /\ cp.life = "live"
      BY <1>0, <1>5 DEF PolicyInv
    <2>2. /\ cp' \in PolicyType /\ copy' = cp' /\ cp'.fin = TRUE /\ cp'.life = "live"
      BY <1>0, <1>5, <2>1, Zenon DEF TypeOK, PolicyType
    <2>3. TypeOK'
      BY <1>0, <1>1, <1>2, <1>5, <2>2, Zenon DEF TypeOK, SubControllers
    <2>4. LateOnly' /\ ~deletion'
      BY <1>5, <2>2, Zenon DEF LateOnly, deletion
    <2> QED
      BY <1>1, <1>3, <1>5, <2>2, <2>3, <2>4, Zenon DEF PolicyInv, NothingWithoutFinalizer
  <1> QED
    BY <1>4, <1>5, Zenon DEF AddFinalizer

(* The end of a pass.  When the finalizer goes, everything has been        *)
(* removed that a policy without it must not leave. *)
LEMMA FinishStep ==
  ASSUME PolicyInv, Finish
  PROVE  PolicyInv'
  <1>0. TypeOK /\ pc = "finish"
    BY DEF PolicyInv, Finish
  <1>1. /\ UNCHANGED <<store, module, claims, capacity, stale, late>>
        /\ pc' = "idle" /\ err' = FALSE /\ copy' = copy
        /\ queued' \in BOOLEAN /\ clean' \in BOOLEAN
    BY <1>0, Zenon DEF Finish, Requeue, TypeOK
  <1>2. spent' \in [failures : Nat, edits : Nat, claims : Nat]
    <2>1. Works \/ Fails("write")
      BY DEF Finish
    <2> QED
      BY <1>0, <2>1, SpentType
  <1>3. Impossible' = Impossible /\ Removed("idle") = {}
    BY DEF Impossible, Removed, AfterPlugin, AfterXpum, AfterDRA, AfterMisc
  <1>4. CASE UNCHANGED cp
    <2>1. TypeOK'
      BY <1>0, <1>1, <1>2, <1>4, Zenon DEF TypeOK
    <2>2. LateOnly'
      BY <1>1, <1>4 DEF PolicyInv, LateOnly, AfterDRA
    <2> QED
      BY <1>1, <1>3, <1>4, <2>1, <2>2, PassKeeps DEF PolicyInv, NothingWithoutFinalizer
  <1>5. CASE /\ deletion /\ ~stale
             /\ cp' = [cp EXCEPT !.life = "gone", !.fin = FALSE]
    <2>1. cp' \in PolicyType /\ cp'.fin = FALSE /\ cp'.life = "gone"
      BY <1>0, <1>5, Zenon DEF TypeOK, PolicyType
    <2>2. TypeOK'
      BY <1>0, <1>1, <1>2, <2>1, Zenon DEF TypeOK
    <2>3. Objects \ LoggedOnly \subseteq Removed("finish")
      BY DEF Objects, Operands, LoggedOnly, Removed, AfterPlugin, AfterXpum, AfterDRA,
             AfterMisc, MiscObjects, DRAObjects
    <2>4. NothingWithoutFinalizer'
      BY <1>0, <1>1, <1>5, <2>3 DEF NothingWithoutFinalizer, PolicyInv
    <2>5. LateOnly'
      BY <1>0, <1>1, <1>5 DEF LateOnly, PolicyInv, AfterDRA
    <2> QED
      BY <1>1, <1>3, <2>1, <2>2, <2>4, <2>5 DEF PolicyInv
  <1> QED
    BY <1>4, <1>5 DEF Finish

(* Users, restarts, KMM and claims.  Without a finalizer there is no       *)
(* driver, and no claim is allocated. *)
LEMMA OutsideStep ==
  ASSUME PolicyInv, Crash \/ Environment \/ UNCHANGED vars
  PROVE  PolicyInv' /\ LateModule /\ store' = store
  <1>0. TypeOK
    BY DEF PolicyInv
  <1>1. CASE Crash
    <2>1. spent' \in [failures : Nat, edits : Nat, claims : Nat]
      BY <1>0, <1>1, SpentType DEF Crash
    <2>2. TypeOK'
      BY <1>0, <1>1, <2>1, Zenon DEF Crash, TypeOK
    <2>3. LateOnly' /\ Removed("idle") = {}
      BY <1>1 DEF Crash, PolicyInv, LateOnly, Removed, AfterPlugin, AfterXpum, AfterDRA, AfterMisc
    <2>4. PolicyInv'
      BY <1>1, <2>2, <2>3, PassKeeps DEF Crash, PolicyInv, NothingWithoutFinalizer
    <2> QED
      BY <1>1, <2>4 DEF Crash, LateModule
  <1>2. CASE EditSpec \/ Delete
    <2>1. /\ UNCHANGED <<store, module, claims, capacity, pc, copy, err, late>>
          /\ queued' = TRUE /\ stale' = TRUE /\ clean' = FALSE
          /\ cp.life = "live"
      BY <1>2 DEF EditSpec, Delete
    <2>2. /\ cp' \in PolicyType /\ cp'.fin = cp.fin
          /\ cp'.life = "deleting" => cp.fin
          /\ cp'.life = "gone" => ~cp.fin
      <3>1. CASE EditSpec
        <4>1. PICK s \in Policies : cp' = [cp EXCEPT !.spec = s]
          BY <3>1 DEF EditSpec
        <4> QED
          BY <1>0, <2>1, <4>1 DEF TypeOK, PolicyType
      <3>2. CASE Delete /\ cp.fin
        <4>1. cp' = [cp EXCEPT !.life = "deleting"]
          BY <3>2 DEF Delete
        <4> QED
          BY <1>0, <3>2, <4>1, Zenon DEF TypeOK, PolicyType
      <3>3. CASE Delete /\ ~cp.fin
        <4>1. cp' = [cp EXCEPT !.life = "gone"]
          BY <3>3 DEF Delete
        <4> QED
          BY <1>0, <3>3, <4>1 DEF TypeOK, PolicyType
      <3> QED
        BY <1>2, <3>1, <3>2, <3>3
    <2>3. spent' \in [failures : Nat, edits : Nat, claims : Nat]
      <3>1. spent.edits + 1 \in Nat
        BY <1>0 DEF TypeOK
      <3> QED
        BY <1>0, <1>2, <3>1 DEF EditSpec, Delete, TypeOK
    <2>4. TypeOK'
      BY <1>0, <2>1, <2>2, <2>3, Zenon DEF TypeOK
    <2>5. LateOnly' /\ NothingWithoutFinalizer' /\ Impossible' = Impossible
          /\ (deletion' => \A o \in Removed(pc)' : store'[o] = 0)
      BY <2>1, <2>2
         DEF PolicyInv, LateOnly, NothingWithoutFinalizer, Impossible, deletion, Removed
    <2> QED
      BY <2>1, <2>2, <2>4, <2>5 DEF PolicyInv, LateModule
  <1>3. ASSUME NEW c \in Claims, Allocate(c) \/ Release(c)
        PROVE  PolicyInv' /\ LateModule /\ store' = store
    <2>1. /\ UNCHANGED <<cp, store, module, capacity, passVars, stale, clean>>
          /\ store["dra"] # 0
          /\ \/ /\ claims' = claims \cup {c}
                /\ late' = IF pc \in {"draDelete", "kmmDelete"} THEN late \cup {c} ELSE late
             \/ claims' = claims \ {c} /\ late' = late \ {c}
      BY <1>3 DEF Allocate, Release
    <2>2. spent' \in [failures : Nat, edits : Nat, claims : Nat]
      <3>1. spent.claims + 1 \in Nat
        BY <1>0 DEF TypeOK
      <3> QED
        BY <1>0, <1>3, <3>1 DEF Allocate, Release, Works, TypeOK
    <2>3. TypeOK'
      <3>1. claims' \in SUBSET Claims /\ late' \in SUBSET Claims
        BY <1>0, <2>1 DEF TypeOK
      <3>2. UNCHANGED <<cp, copy, store, module, capacity, queued, err, stale, clean, pc>>
        BY <2>1 DEF passVars
      <3> QED
        BY <1>0, <2>2, <3>1, <3>2 DEF TypeOK
    <2>4. cp.fin /\ ~(deletion /\ pc \in AfterDRA)
      <3>1. "dra" \in Objects \ LoggedOnly /\ "dra" \in DRAObjects
        BY DEF Objects, Operands, LoggedOnly, DRAObjects
      <3> QED
        BY <2>1, <3>1 DEF PolicyInv, NothingWithoutFinalizer, Removed
    <2>5. LateOnly'
      BY <2>1, <2>4 DEF LateOnly, PolicyInv, passVars, deletion
    <2>6. Impossible' = Impossible /\ Removed(pc)' = Removed(pc)
      BY <2>1 DEF Impossible, Removed, passVars
    <2> QED
      BY <2>1, <2>3, <2>5, <2>6
         DEF PolicyInv, LateModule, NothingWithoutFinalizer, passVars, deletion
  <1>4. CASE Wake \/ ModuleUnloaded \/ GarbageCollect \/ UNCHANGED vars
    <2>1. UNCHANGED <<cp, store, claims, capacity, pc, copy, err, stale, late, clean, spent>>
      BY <1>4 DEF Wake, ModuleUnloaded, GarbageCollect, Works, passVars, vars
    <2>2. /\ queued' \in BOOLEAN
          /\ module' \in [state : {"none", "present", "deleting"}, versioned : BOOLEAN]
      BY <1>0, <1>4, Zenon DEF Wake, ModuleUnloaded, GarbageCollect, passVars, vars, TypeOK
    <2>3. TypeOK'
      BY <1>0, <2>1, <2>2 DEF TypeOK
    <2>4. LateModule
      BY <1>4 DEF Wake, ModuleUnloaded, GarbageCollect, passVars, vars, LateModule, PolicyInv,
                  LateOnly, TypeOK
    <2>5. Impossible' = Impossible /\ Removed(pc)' = Removed(pc)
      BY <2>1 DEF Impossible, Removed
    <2> QED
      BY <2>1, <2>3, <2>4, <2>5 DEF PolicyInv, NothingWithoutFinalizer, LateOnly, deletion
  <1> QED
    BY <1>1, <1>2, <1>3, <1>4 DEF Environment

(* PolicyInv is inductive, and what is deleted is deleted after a check. *)
LEMMA PolicyStep ==
  ASSUME PolicyInv, [Next]_vars
  PROVE  /\ PolicyInv' /\ LateModule
         /\ store["dra"] # 0 /\ store'["dra"] = 0 => claims \subseteq late
  <1>1. CASE Reconcile \/ AddFinalizer \/ Finish
    <2>1. UNCHANGED <<store, module>>
      BY <1>1 DEF Reconcile, AddFinalizer, Finish
    <2> QED
      BY <1>1, <2>1, ReconcileStep, AddFinalizerStep, FinishStep DEF LateModule
  <1>2. CASE ReconcileDevicePlugin \/ ReconcileXpuManager \/ ReconcileDRA \/ ReconcileMisc
    BY <1>2, DevicePluginStep, XpuManagerStep, DRAStep, MiscStep DEF LateModule
  <1>3. CASE DeleteDRA
    BY <1>3, DeleteDRAStep DEF LateModule
  <1>4. CASE RemoveDRA \/ RemoveModule
    <2>1. UNCHANGED <<cp, store, module, claims, capacity, stale>>
      BY <1>4 DEF RemoveDRA, RemoveModule
    <2>2. PolicyInv'
      <3>1. CASE RemoveDRA
        BY <2>1, <3>1, CheckClaimsStep DEF RemoveDRA
      <3>2. CASE RemoveModule
        BY <2>1, <3>2, CheckClaimsStep DEF RemoveModule
      <3> QED
        BY <1>4, <3>1, <3>2
    <2> QED
      BY <2>1, <2>2 DEF LateModule
  <1>5. CASE DeleteModule \/ ReconcileModule
    <2>1. UNCHANGED store
      BY <1>5 DEF DeleteModule, ReconcileModule
    <2> QED
      BY <1>5, <2>1, ModuleStep
  <1>6. CASE Crash \/ Environment \/ UNCHANGED vars
    BY <1>6, OutsideStep
  <1> QED
    BY <1>1, <1>2, <1>3, <1>4, <1>5, <1>6 DEF Next, Continue

-----------------------------------------------------------------------------
(* The invariant holds throughout, for any constants. *)
THEOREM PolicyInvariant == Spec => []PolicyInv
  <1>1. PolicyInv /\ [Next]_vars => PolicyInv'
    BY PolicyStep
  <1> QED
    BY <1>1, PolicyInit, PTL DEF Spec

(* Every variable keeps its type; no quota exceeds what was counted. *)
THEOREM TypeCorrect == Spec => []TypeOK
  <1>1. PolicyInv => TypeOK
    BY DEF PolicyInv
  <1> QED
    BY <1>1, PolicyInvariant, PTL

(* Reconcile deploys nothing before it has added the finalizer, and leaves *)
(* nothing when it removes it, however passes, failures, edits, deletion   *)
(* and restarts follow each other: whatever has no owner reference is gone *)
(* with the policy. *)
THEOREM NothingOutlivesThePolicy == Spec => []NothingWithoutFinalizer
  <1>1. PolicyInv => NothingWithoutFinalizer
    BY DEF PolicyInv
  <1> QED
    BY <1>1, PolicyInvariant, PTL

(* The DRA driver and the kernel module are not taken from a claim that    *)
(* was there when anyAllocatedResourceClaims looked; this holds for the    *)
(* garbage collector too, which knows nothing of claims. *)
THEOREM ClaimsKeepTheirDriver == Spec => DriversOutliveClaims
  <1>1. PolicyInv /\ [Next]_vars =>
          [(\/ store["dra"] # 0 /\ store'["dra"] = 0
            \/ module.state = "present" /\ module'.state = "deleting")
              => claims \subseteq late]_vars
    BY PolicyStep DEF LateModule
  <1> QED
    BY <1>1, PolicyInvariant, PTL DEF Spec, DriversOutliveClaims

-----------------------------------------------------------------------------
(* What a pass without an error has reached.  These definitions take the   *)
(* state they speak of as arguments: the store st, the GPUs counted c, the *)
(* Module m.                                                               *)

(* Wants of spec s.                                                        *)
Asked(s, o, c) ==
    \/ o = "dp" /\ s.resourceRegistration = "dp"
    \/ o = "dpScc" /\ s.resourceRegistration = "dp" /\ OpenShift
    \/ o = "xpum" /\ s.resourceMonitoring
    \/ o = "xpumScc" /\ s.resourceMonitoring /\ OpenShift
    \/ o \in {"draDeps", "dra"} /\ s.resourceRegistration = "dra"
    \/ o = "draScc" /\ s.resourceRegistration = "dra" /\ OpenShift
    \/ o \in {"monitor", "service"} /\ s.resourceMonitoring /\ s.prometheusIntegration
         /\ "prometheus" \in CRDs
    \/ o = "nfd" /\ s.useNFDLabeling /\ "nfd" \in CRDs
    \/ /\ s.enableKueue /\ "kueue" \in CRDs /\ c > 0
       /\ \E i \in DOMAIN s.equalResources : o \in {"flavor", s.equalResources[i]}

(* Unsettled.                                                              *)
Open(s, o, c) ==
    /\ s.enableKueue /\ c = 0 /\ s.equalResources # <<>>
    /\ o \in Queues \cup {"flavor"}

(* Object o with value v is as s asks.                                     *)
Settled(s, o, v, c) ==
    IF Asked(s, o, c) THEN v # 0 ELSE o \in LoggedOnly \/ Open(s, o, c) \/ v = 0

MonitorClaim(s, st) ==
    s.resourceMonitoring => ((st["xpum"] = WithClaim) <=> (s.resourceRegistration = "dra"))

(* EqualShares of the queues that s asks for.                              *)
Shared(s, st, c) ==
    LET Q == {q \in Queues : Asked(s, q, c)}
    IN  validateKueueSpec(s) => /\ Q # {} => SumOf(st, Q) = c
                                /\ \A q, r \in Q : st[q] <= st[r] + 1

ModuleReady(s, m) ==
    \/ m.state = "deleting"
    \/ m.state = "none" /\ s.kernelModule = "none"
    \/ /\ m.state = "present" /\ s.kernelModule # "none"
       /\ m.versioned <=> (s.kernelModule = "versioned")

(* The objects of the sub-controllers before p.                            *)
Handled(p) ==
    (IF p \in AfterPlugin THEN DevicePluginObjects ELSE {})
      \cup (IF p \in AfterXpum THEN XpumObjects ELSE {})
      \cup (IF p \in AfterDRA THEN DRAObjects ELSE {})
      \cup (IF p \in AfterMisc THEN MiscObjects ELSE {})

Reached(s, p, st, c) ==
    /\ \A o \in Handled(p) : Settled(s, o, st[o], c)
    /\ p \in AfterXpum => MonitorClaim(s, st)
    /\ p \in AfterMisc => Shared(s, st, c)

(* The pass may yet end with neither an error nor a stale policy.          *)
OnTrack == pc \notin {"idle", "finalizer"} /\ copy.life = "live" /\ ~err /\ ~stale

(* A Module that KMM has unloaded in the meantime has queued the policy.   *)
DeployInv ==
    /\ OnTrack => /\ Reached(copy.spec, pc, store, capacity)
                  /\ pc = "draDelete" => copy.spec.resourceRegistration # "dra"
                  /\ pc = "finish" => queued \/ ModuleReady(copy.spec, module)
    /\ clean => /\ pc = "idle" /\ cp.life = "live"
                /\ Reached(cp.spec, "finish", store, capacity)
                /\ queued \/ ModuleReady(cp.spec, module)

(* Wants for each kind of object; only those of Kueue depend on the count. *)
LEMMA AskedOf ==
  ASSUME NEW s \in Policies, NEW c
  PROVE  /\ Asked(s, "dp", c) <=> s.resourceRegistration = "dp"
         /\ Asked(s, "dpScc", c) <=> s.resourceRegistration = "dp" /\ OpenShift
         /\ Asked(s, "xpum", c) <=> s.resourceMonitoring
         /\ Asked(s, "xpumScc", c) <=> s.resourceMonitoring /\ OpenShift
         /\ Asked(s, "draDeps", c) <=> s.resourceRegistration = "dra"
         /\ Asked(s, "dra", c) <=> s.resourceRegistration = "dra"
         /\ Asked(s, "draScc", c) <=> s.resourceRegistration = "dra" /\ OpenShift
         /\ \A o \in {"monitor", "service"} :
               Asked(s, o, c) <=> /\ s.resourceMonitoring /\ s.prometheusIntegration
                                  /\ "prometheus" \in CRDs
         /\ Asked(s, "nfd", c) <=> s.useNFDLabeling /\ "nfd" \in CRDs
         /\ Asked(s, "flavor", c) <=> /\ s.enableKueue /\ "kueue" \in CRDs /\ c > 0
                                      /\ Len(s.equalResources) # 0
         /\ \A q \in Queues :
               Asked(s, q, c) <=> /\ s.enableKueue /\ "kueue" \in CRDs /\ c > 0
                                  /\ q \in Names(s.equalResources, Len(s.equalResources))
  <1> DEFINE e == s.equalResources
             kueue(o) == /\ s.enableKueue /\ "kueue" \in CRDs /\ c > 0
                         /\ \E i \in DOMAIN e : o \in {"flavor", e[i]}
  <1>0. /\ e \in Seq(Queues) /\ Len(e) \in Nat /\ DOMAIN e = 1 .. Len(e)
        /\ \A i \in DOMAIN e : e[i] \in Queues
    BY ConstantsAssumption, LenProperties, ElementOfSeq DEF SpecType
  <1>1. \A o \in Operands : o \notin Queues
    BY ConstantsAssumption
  <1>2. \A o \in Operands \ {"flavor"} : ~kueue(o)
    BY <1>0, <1>1
  <1>3. \A q \in Queues : q \notin Operands /\ (kueue(q) <=> /\ s.enableKueue
                             /\ "kueue" \in CRDs /\ c > 0 /\ q \in Names(e, Len(e)))
    BY <1>0, <1>1 DEF Names, Operands
  <1>4. kueue("flavor") <=> s.enableKueue /\ "kueue" \in CRDs /\ c > 0 /\ Len(e) # 0
    BY <1>0
  <1>5. \A o : Asked(s, o, c) <=>
           \/ o = "dp" /\ s.resourceRegistration = "dp"
           \/ o = "dpScc" /\ s.resourceRegistration = "dp" /\ OpenShift
           \/ o = "xpum" /\ s.resourceMonitoring
           \/ o = "xpumScc" /\ s.resourceMonitoring /\ OpenShift
           \/ o \in {"draDeps", "dra"} /\ s.resourceRegistration = "dra"
           \/ o = "draScc" /\ s.resourceRegistration = "dra" /\ OpenShift
           \/ o \in {"monitor", "service"} /\ s.resourceMonitoring /\ s.prometheusIntegration
                /\ "prometheus" \in CRDs
           \/ o = "nfd" /\ s.useNFDLabeling /\ "nfd" \in CRDs
           \/ kueue(o)
    BY Zenon DEF Asked
  <1> HIDE DEF kueue, e
  <1>6. Asked(s, "flavor", c) <=> kueue("flavor")
    BY <1>5
  <1>7. \A q \in Queues : Asked(s, q, c) <=> kueue(q)
    BY <1>3, <1>5 DEF Operands
  <1> QED
    BY <1>2, <1>3, <1>4, <1>5, <1>6, <1>7 DEF Operands, e

(* The sub-controllers in their order; all of them see to every object. *)
LEMMA HandledBy ==
  /\ Handled("dp") = {}
  /\ Handled("xpum") = DevicePluginObjects
  /\ \A p \in {"dra", "draDelete"} : Handled(p) = DevicePluginObjects \cup XpumObjects
  /\ Handled("misc") = DevicePluginObjects \cup XpumObjects \cup DRAObjects
  /\ \A p \in AfterMisc : Handled(p) = Handled("misc") \cup MiscObjects /\ Handled(p) = Objects
  /\ Handled("misc") \subseteq Operands \ {"flavor"}
  <1>1. /\ Handled("dp") = {}
        /\ Handled("xpum") = DevicePluginObjects
        /\ \A p \in {"dra", "draDelete"} : Handled(p) = DevicePluginObjects \cup XpumObjects
        /\ Handled("misc") = DevicePluginObjects \cup XpumObjects \cup DRAObjects
    BY DEF Handled, AfterPlugin, AfterXpum, AfterDRA, AfterMisc
  <1>2. \A p \in AfterMisc : Handled(p) = Handled("misc") \cup MiscObjects
    BY DEF Handled, AfterPlugin, AfterXpum, AfterDRA, AfterMisc
  <1>3. Handled("misc") \cup MiscObjects = Objects
    BY <1>1 DEF DevicePluginObjects, XpumObjects, DRAObjects, MiscObjects, Objects, Operands
  <1>4. Handled("misc") \subseteq Operands \ {"flavor"}
    BY <1>1 DEF DevicePluginObjects, XpumObjects, DRAObjects, Operands
  <1> QED
    BY <1>1, <1>2, <1>3, <1>4

(* Counting GPUs anew unsettles nothing but the objects of Kueue. *)
LEMMA StaysSettled ==
  ASSUME NEW s \in Policies, NEW o \in Operands \ {"flavor"}, NEW v, NEW c, NEW d,
         Settled(s, o, v, c)
  PROVE  Settled(s, o, v, d)
  <1>1. Asked(s, o, c) <=> Asked(s, o, d)
    BY AskedOf DEF Operands
  <1>2. ~Open(s, o, c) /\ ~Open(s, o, d)
    BY ConstantsAssumption DEF Open
  <1> QED
    BY <1>1, <1>2 DEF Settled

(* A step of a pass has to do its part only when no error is returned. *)
LEMMA Onward ==
  ASSUME PolicyInv, DeployInv, pc \notin {"idle", "finalizer"}, NEW next,
         UNCHANGED <<cp, stale>>, NextIs(next) \/ Failed(next) \/ Requeue,
         OnTrack /\ NextIs(next) =>
            /\ Reached(copy.spec, next, store', capacity')
            /\ next = "draDelete" => copy.spec.resourceRegistration # "dra"
            /\ next = "finish" => queued \/ ModuleReady(copy.spec, module')
  PROVE  DeployInv'
  <1>1. ~clean /\ ~clean'
    <2>1. ~clean
      BY DEF DeployInv
    <2>2. clean' = clean
      BY DEF NextIs, Failed, Requeue
    <2> QED
      BY <2>1, <2>2
  <1>2. ASSUME OnTrack' PROVE OnTrack /\ NextIs(next)
    <2>1. ~Requeue
      BY <1>2 DEF Requeue, OnTrack
    <2>2. ~Failed(next)
      BY <1>2, <2>1 DEF Failed, OnTrack
    <2>3. NextIs(next)
      BY <2>1, <2>2
    <2> QED
      BY <1>2, <2>3 DEF NextIs, OnTrack
  <1>3. ASSUME OnTrack'
        PROVE  /\ Reached(copy'.spec, pc', store', capacity')
               /\ pc' = "draDelete" => copy'.spec.resourceRegistration # "dra"
               /\ pc' = "finish" => queued' \/ ModuleReady(copy'.spec, module')
    <2>1. copy' = copy /\ pc' = next /\ queued' = queued
      BY <1>2, <1>3 DEF NextIs
    <2> QED
      BY <1>2, <1>3, <2>1
  <1> QED
    BY <1>1, <1>3 DEF DeployInv

(* A pass that is on track and goes on as such has made all its calls. *)
LEMMA RunsOn ==
  ASSUME PolicyInv, OnTrack, NEW calls, NEW next, Runs(calls, next), NextIs(next)
  PROVE  AllCalls(calls) /\ copy.spec \in Policies /\ ~isClusterPolicyBeingDeleted
  <1>1. ~Failed(next)
    BY DEF Failed, NextIs, OnTrack, deletion
  <1> QED
    BY <1>1 DEF Runs, PolicyInv, TypeOK, PolicyType, OnTrack, isClusterPolicyBeingDeleted

(* The device plugin is there or gone. *)
LEMMA DevicePluginDeploys ==
  ASSUME PolicyInv, DeployInv, ReconcileDevicePlugin
  PROVE  DeployInv'
  <1>0. pc = "dp" /\ Runs(DevicePluginCalls, "xpum") /\ UNCHANGED <<cp, stale>>
    BY DEF ReconcileDevicePlugin
  <1>1. NextIs("xpum") \/ Failed("xpum")
    BY <1>0 DEF Runs
  <1>2. ASSUME OnTrack, NextIs("xpum") PROVE Reached(copy.spec, "xpum", store', capacity')
    <2> DEFINE s == copy.spec
    <2>1. AllCalls(DevicePluginCalls) /\ s \in Policies /\ ~isClusterPolicyBeingDeleted
      BY <1>0, <1>2, RunsOn
    <2>2. /\ "dp" \in Objects /\ "dpScc" \in Objects /\ "dpScc" \in LoggedOnly
          /\ Fits("dp", 1) /\ Fits("dpScc", 1)
      BY ConstantsAssumption DEF Objects, Operands, Fits, WithClaim, LoggedOnly
    <2> HIDE DEF s
    <2>3. ASSUME s.resourceRegistration = "dp"
          PROVE  \A o \in DevicePluginObjects : Settled(s, o, store'[o], capacity')
      <3>1. DevicePluginCalls = EnsureSCC("dpScc") \o Put("dp", 1)
        BY <2>1, <2>3 DEF DevicePluginCalls, shouldRemoveDevicePlugin, s
      <3>2. /\ DevicePluginCalls \in Seq(CallsOn(Objects))
            /\ Sets(DevicePluginCalls, "dp", {1})
            /\ OpenShift => Sets(DevicePluginCalls, "dpScc", {1})
        BY <2>2, <3>1, WithSCC
      <3>3. store'["dp"] \in {1} /\ (OpenShift => store'["dpScc"] \in {1})
        BY <2>1, <2>2, <3>2, AllCallsSet
      <3> QED
        BY <2>1, <2>2, <2>3, <3>3, AskedOf DEF Settled, DevicePluginObjects
    <2>4. ASSUME s.resourceRegistration # "dp"
          PROVE  \A o \in DevicePluginObjects : Settled(s, o, store'[o], capacity')
      <3>1. DevicePluginCalls = DeleteOpenShiftSCCResources("dpScc") \o Del("dp")
        BY <2>1, <2>4 DEF DevicePluginCalls, shouldRemoveDevicePlugin, s
      <3>2. DevicePluginCalls \in Seq(CallsOn(Objects)) /\ Sets(DevicePluginCalls, "dp", {0})
        BY <2>2, <3>1, WithSCC, Zenon
      <3>3. store'["dp"] \in {0}
        BY <2>1, <2>2, <3>2, AllCallsSet
      <3> QED
        BY <2>1, <2>2, <2>4, <3>3, AskedOf DEF Settled, DevicePluginObjects
    <2> QED
      BY <2>3, <2>4, HandledBy DEF Reached, AfterXpum, AfterMisc, s
  <1> QED
    BY <1>0, <1>1, <1>2, Onward

(* What earlier sub-controllers have settled, later ones leave alone. *)
LEMMA EarlierSettled ==
  ASSUME PolicyInv, NEW O, NEW calls \in Seq(CallsOn(O)), AllCalls(calls),
         NEW s \in Policies, Reached(s, pc, store, capacity),
         Handled(pc) \subseteq Operands \ {"flavor"}, Handled(pc) \cap O = {}
  PROVE  \A o \in Handled(pc) : /\ store'[o] = store[o]
                                /\ Settled(s, o, store'[o], capacity')
  <1>1. Touches(O)
    BY StoreType, SomeCalls DEF PolicyInv
  <1>2. ASSUME NEW o \in Handled(pc)
        PROVE  store'[o] = store[o] /\ Settled(s, o, store[o], capacity)
    BY <1>1, <1>2 DEF Touches, Reached, Objects
  <1> QED
    BY <1>2, StaysSettled

(* The XPU manager is there with the right claim, or gone. *)
LEMMA XpuManagerDeploys ==
  ASSUME PolicyInv, DeployInv, ReconcileXpuManager
  PROVE  DeployInv'
  <1>0. pc = "xpum" /\ Runs(XpuManagerCalls, "dra") /\ UNCHANGED <<cp, stale>>
    BY DEF ReconcileXpuManager
  <1>1. NextIs("dra") \/ Failed("dra")
    BY <1>0 DEF Runs
  <1>2. ASSUME OnTrack, NextIs("dra") PROVE Reached(copy.spec, "dra", store', capacity')
    <2> DEFINE s == copy.spec
               v == IF s.resourceRegistration = "dra" THEN WithClaim ELSE 1
    <2>1. AllCalls(XpuManagerCalls) /\ s \in Policies /\ ~isClusterPolicyBeingDeleted
      BY <1>0, <1>2, RunsOn
    <2>2. /\ "xpum" \in Objects /\ "xpumScc" \in Objects /\ "xpumScc" \in LoggedOnly
          /\ Fits("xpumScc", 1) /\ v \in Nat /\ Fits("xpum", v)
      BY ConstantsAssumption DEF Objects, Operands, Fits, WithClaim, LoggedOnly
    <2>3. \A o \in DevicePluginObjects : Settled(s, o, store'[o], capacity')
      <3>1. DevicePluginObjects \subseteq Operands \ {"flavor"}
        BY DEF DevicePluginObjects, Operands
      <3>2. DevicePluginObjects \cap XpumObjects = {}
        BY DEF DevicePluginObjects, XpumObjects
      <3>3. Reached(s, pc, store, capacity)
        BY <1>2 DEF DeployInv
      <3> QED
        BY <1>0, <2>1, <3>1, <3>2, <3>3, XpuManagerList, EarlierSettled, HandledBy
    <2>4. /\ v # 0 /\ (v = WithClaim <=> s.resourceRegistration = "dra")
          /\ XpumDaemonSet = Put("xpum", v)
      <3>1. v # 0 /\ (v = WithClaim <=> s.resourceRegistration = "dra")
        BY DEF WithClaim
      <3>2. XpumDaemonSet = Put("xpum", v)
        BY Zenon DEF XpumDaemonSet
      <3> QED
        BY <3>1, <3>2
    <2> HIDE DEF s, v
    <2>5. ASSUME s.resourceMonitoring
          PROVE  /\ \A o \in XpumObjects : Settled(s, o, store'[o], capacity')
                 /\ MonitorClaim(s, store')
      <3>1. XpuManagerCalls = EnsureSCC("xpumScc") \o Put("xpum", v)
        BY <2>1, <2>4, <2>5 DEF XpuManagerCalls, shouldRemoveXpumd, s
      <3>2. /\ XpuManagerCalls \in Seq(CallsOn(Objects))
            /\ Sets(XpuManagerCalls, "xpum", {v})
            /\ OpenShift => Sets(XpuManagerCalls, "xpumScc", {1})
        BY <2>2, <3>1, WithSCC, Zenon
      <3>3. store'["xpum"] \in {v} /\ (OpenShift => store'["xpumScc"] \in {1})
        BY <2>1, <2>2, <3>2, AllCallsSet
      <3>4. Asked(s, "xpum", capacity') /\ (Asked(s, "xpumScc", capacity') <=> OpenShift)
        BY <2>1, <2>5, AskedOf
      <3>5. \A o \in XpumObjects : Settled(s, o, store'[o], capacity')
        BY <2>2, <2>4, <3>3, <3>4 DEF Settled, XpumObjects
      <3> QED
        BY <2>4, <3>3, <3>5 DEF MonitorClaim
    <2>6. ASSUME ~s.resourceMonitoring
          PROVE  /\ \A o \in XpumObjects : Settled(s, o, store'[o], capacity')
                 /\ MonitorClaim(s, store')
      <3>1. XpuManagerCalls = DeleteOpenShiftSCCResources("xpumScc") \o Del("xpum")
        BY <2>1, <2>6 DEF XpuManagerCalls, shouldRemoveXpumd, s
      <3>2. XpuManagerCalls \in Seq(CallsOn(Objects)) /\ Sets(XpuManagerCalls, "xpum", {0})
        BY <2>2, <3>1, WithSCC, Zenon
      <3>3. store'["xpum"] \in {0}
        BY <2>1, <2>2, <3>2, AllCallsSet
      <3> QED
        BY <2>1, <2>2, <2>6, <3>3, AskedOf DEF Settled, XpumObjects, MonitorClaim
    <2> QED
      BY <2>3, <2>5, <2>6, HandledBy DEF Reached, AfterMisc, s
  <1> QED
    BY <1>0, <1>1, <1>2, Onward

(* What the two earlier sub-controllers have reached. *)
LEMMA DRAFrame ==
  ASSUME PolicyInv, DeployInv, OnTrack, pc \in {"dra", "draDelete"}, copy.spec \in Policies,
         NEW calls \in Seq(CallsOn(DRAObjects)), AllCalls(calls),
         \A o \in DRAObjects : Settled(copy.spec, o, store'[o], capacity')
  PROVE  Reached(copy.spec, "misc", store', capacity')
  <1> DEFINE s == copy.spec
             O == DevicePluginObjects \cup XpumObjects
  <1>1. Handled(pc) = O /\ O \subseteq Operands \ {"flavor"} /\ O \cap DRAObjects = {}
    BY HandledBy DEF DevicePluginObjects, XpumObjects, DRAObjects, Operands
  <1>2. Reached(s, pc, store, capacity)
    BY DEF DeployInv
  <1> HIDE DEF s, O
  <1>3. \A o \in O : store'[o] = store[o] /\ Settled(s, o, store'[o], capacity')
    BY <1>1, <1>2, EarlierSettled DEF s
  <1>4. MonitorClaim(s, store')
    BY <1>2, <1>3 DEF MonitorClaim, Reached, AfterXpum, O, XpumObjects
  <1> QED
    BY <1>3, <1>4, HandledBy DEF Reached, AfterMisc, s, O

(* The DRA driver is there with what it depends on. *)
LEMMA DRADeploys ==
  ASSUME PolicyInv, DeployInv, ReconcileDRA
  PROVE  DeployInv'
  <1>0. /\ pc = "dra" /\ ~shouldRemoveDRA /\ Runs(DRACreateCalls, "misc")
        /\ UNCHANGED <<cp, stale>>
    BY DEF ReconcileDRA
  <1>1. NextIs("misc") \/ Failed("misc")
    BY <1>0 DEF Runs
  <1>2. ASSUME OnTrack, NextIs("misc") PROVE Reached(copy.spec, "misc", store', capacity')
    <2> DEFINE S == CallsOn(DRAObjects)
               scc == EnsureSCC("draScc")
               deps == createDependencyComponentsIfMissing
    <2>1. AllCalls(DRACreateCalls) /\ copy.spec \in Policies
      BY <1>0, <1>2, RunsOn
    <2>2. DRACreateCalls \in Seq(S) /\ DRACreateCalls = (scc \o deps) \o Put("dra", 1)
      BY DRALists DEF DRACreateCalls
    <2>3. scc \in Seq(S) /\ deps \in Seq(S) /\ Put("dra", 1) \in Seq(S)
      <3>1. /\ "dra" \in Objects /\ "draDeps" \in Objects /\ "draScc" \in Objects
            /\ Fits("dra", 1) /\ Fits("draDeps", 1) /\ Fits("draScc", 1)
        BY ConstantsAssumption DEF Objects, Operands, Fits, WithClaim
      <3>2. /\ Put("draScc", 1) \in Seq(S) /\ Put("draDeps", 1) \in Seq(S)
            /\ Put("dra", 1) \in Seq(S)
        BY <3>1, OneCall, Zenon DEF DRAObjects
      <3> HIDE DEF S
      <3> QED
        BY <3>2, EmptySeq DEF EnsureSCC, IfOpenShift, createDependencyComponentsIfMissing
    <2>4. /\ OpenShift => Sets(scc, "draScc", {1})
          /\ Spares(scc, "draDeps") /\ Spares(scc, "dra")
      <3>1. /\ Sets(Put("draScc", 1), "draScc", {1})
            /\ Spares(Put("draScc", 1), "draDeps") /\ Spares(Put("draScc", 1), "dra")
            /\ Spares(<<>>, "draDeps") /\ Spares(<<>>, "dra")
        BY OneCallSets
      <3> QED
        BY <3>1, Zenon DEF EnsureSCC, IfOpenShift
    <2>5. /\ Sets(deps, "draDeps", {1}) /\ Spares(deps, "draScc") /\ Spares(deps, "dra")
          /\ Sets(Put("dra", 1), "dra", {1})
          /\ Spares(Put("dra", 1), "draScc") /\ Spares(Put("dra", 1), "draDeps")
      BY OneCallSets DEF createDependencyComponentsIfMissing
    <2> HIDE DEF S, scc, deps
    <2>6. /\ scc \o deps \in Seq(S)
          /\ OpenShift => Sets(scc \o deps, "draScc", {1})
          /\ Sets(scc \o deps, "draDeps", {1}) /\ Spares(scc \o deps, "dra")
      BY <2>3, <2>4, <2>5, BothLists, BothListsSet
    <2>7. /\ OpenShift => Sets(DRACreateCalls, "draScc", {1})
          /\ Sets(DRACreateCalls, "draDeps", {1}) /\ Sets(DRACreateCalls, "dra", {1})
      BY <2>2, <2>3, <2>5, <2>6, BothListsSet, Zenon
    <2>8. /\ OpenShift => store'["draScc"] \in {1}
          /\ store'["draDeps"] \in {1} /\ store'["dra"] \in {1}
      BY <2>1, <2>2, <2>7, AllCallsSet, ObjectGroups, Zenon DEF DRAObjects
    <2>9. ~OpenShift => store'["draScc"] = 0
      BY DRAStep DEF PolicyInv, Impossible
    <2>10. copy.spec.resourceRegistration = "dra"
      BY <1>0 DEF shouldRemoveDRA
    <2>11. \A o \in DRAObjects : Settled(copy.spec, o, store'[o], capacity')
      <3>1. /\ Asked(copy.spec, "draScc", capacity') <=> OpenShift
            /\ Asked(copy.spec, "draDeps", capacity') /\ Asked(copy.spec, "dra", capacity')
        BY <2>1, <2>10, AskedOf, Zenon
      <3> QED
        BY <2>8, <2>9, <3>1 DEF Settled, DRAObjects
    <2> QED
      BY <1>0, <1>2, <2>1, <2>2, <2>11, DRAFrame, Zenon DEF S
  <1> QED
    BY <1>0, <1>1, <1>2, Onward

(* Or the driver is gone; it was not taken from a policy that wants it. *)
LEMMA DRARemoved ==
  ASSUME PolicyInv, DeployInv, DeleteDRA
  PROVE  DeployInv'
  <1>0. pc = "draDelete" /\ Runs(DRADeleteCalls, "misc") /\ UNCHANGED <<cp, stale>>
    BY DEF DeleteDRA
  <1>1. NextIs("misc") \/ Failed("misc")
    BY <1>0 DEF Runs
  <1>2. ASSUME OnTrack, NextIs("misc") PROVE Reached(copy.spec, "misc", store', capacity')
    <2>1. AllCalls(DRADeleteCalls) /\ copy.spec \in Policies
      BY <1>0, <1>2, RunsOn
    <2>2. DRADeleteCalls \in Seq(CallsOn(DRAObjects))
      BY DRALists, Widen
    <2>3. \A o \in DRAObjects : store'[o] = 0
      <3>1. /\ store'["draDeps"] = 0 /\ store'["dra"] = 0
            /\ OpenShift => store'["draScc"] = 0
        BY <2>1, StoreType, DRALists, AllDeletes, ObjectGroups DEF DRAObjects, PolicyInv
      <3>2. ~OpenShift => store'["draScc"] = 0
        BY DeleteDRAStep DEF PolicyInv, Impossible
      <3> QED
        BY <3>1, <3>2 DEF DRAObjects
    <2>4. \A o \in DRAObjects : Settled(copy.spec, o, store'[o], capacity')
      BY <1>0, <1>2, <2>1, <2>3, AskedOf, Zenon DEF Settled, DRAObjects, DeployInv
    <2> QED
      BY <1>0, <1>2, <2>1, <2>2, <2>4, DRAFrame
  <1> QED
    BY <1>0, <1>1, <1>2, Onward, Zenon

(* The queues and their flavor are as the policy asks, and share out every *)
(* GPU that was counted. *)
LEMMA KueueDeploys ==
  ASSUME PolicyInv, OnTrack, NEW c \in clusterResources, ~CannotDivide(c),
         AllCalls(MiscLive(c)), \A o \in Impossible : store'[o] = 0
  PROVE  /\ \A o \in {"flavor"} \cup Queues : Settled(copy.spec, o, store'[o], c)
         /\ Shared(copy.spec, store', c)
  <1> DEFINE s == copy.spec
             e == s.equalResources
             n == Len(e)
             Own == {"flavor"} \cup Queues
             Q == {q \in Queues : Asked(s, q, c)}
  <1>0. /\ copy \in PolicyType /\ s \in Policies /\ ~isClusterPolicyBeingDeleted
        /\ c \in Nat /\ n \in Nat /\ e \in Seq(Queues)
        /\ Own \subseteq Objects /\ "flavor" \in LoggedOnly
        /\ Names(e, n) \subseteq Queues
    <2>1. /\ copy \in PolicyType /\ s \in Policies /\ ~isClusterPolicyBeingDeleted
      BY DEF PolicyInv, TypeOK, PolicyType, OnTrack, isClusterPolicyBeingDeleted
    <2>2. e \in Seq(Queues) /\ n \in Nat
      BY <2>1, ConstantsAssumption, LenProperties DEF SpecType
    <2>3. c \in Nat
      BY ConstantsAssumption DEF clusterResources, PolicyInv, TypeOK
    <2>4. Own \subseteq Objects /\ "flavor" \in LoggedOnly
      BY DEF Objects, Operands, LoggedOnly
    <2>5. Names(e, n) \subseteq Queues
      BY <2>2, ElementOfSeq DEF Names
    <2> QED
      BY <2>1, <2>2, <2>3, <2>4, <2>5
  <1>1. /\ Asked(s, "flavor", c) <=> s.enableKueue /\ "kueue" \in CRDs /\ c > 0 /\ n # 0
        /\ \A q \in Queues : Asked(s, q, c) <=> /\ s.enableKueue /\ "kueue" \in CRDs /\ c > 0
                                                /\ q \in Names(e, n)
    BY <1>0, AskedOf, Zenon
  <1>2. Q = {} => Shared(s, store', c)
    BY DEF Shared
  <1>3. n = 0 => Names(e, n) = {}
    <2>1. 1 .. 0 = {}
      OBVIOUS
    <2> QED
      BY <2>1, Zenon DEF Names
  <1>4. \A o \in Own : /\ \A V : Sets(KueueCalls(c), o, V) => store'[o] \in V
                       /\ Spares(KueueCalls(c), o) => store'[o] = store[o]
    BY <1>0, MiscSets, AllCallsSet, Zenon
  <1>5. e = <<>> <=> n = 0
    BY <1>0, EmptySeq
  <1> HIDE DEF n, e, s
  <1>6. CASE "kueue" \notin CRDs
    <2>1. \A o \in Own : ~Asked(s, o, c) /\ store'[o] = 0
      BY <1>1, <1>6 DEF Impossible
    <2> QED
      BY <1>2, <2>1, Zenon DEF Settled, s
  <1>7. CASE "kueue" \in CRDs
    <2>0. s.enableKueue /\ c # 0 => c >= n
      <3>1. CASE n = 0
        BY <1>0, <3>1
      <3>2. CASE n # 0
        <4>1. s.enableKueue => CountsResources
          BY <1>5, <1>7, <3>2 DEF CountsResources, OnTrack, s, e
        <4>2. s.enableKueue => c \notin 1 .. n - 1
          BY <4>1 DEF CannotDivide, n, e, s
        <4> QED
          BY <1>0, <4>2
      <3> QED
        BY <3>1, <3>2
    <2>1. /\ s.enableKueue /\ n # 0 /\ c # 0 =>
                /\ Sets(KueueCalls(c), "flavor", {1})
                /\ \A q \in Names(e, n) :
                      Sets(KueueCalls(c), q,
                           {Share(c, n, i) : i \in {j \in 1 .. n : e[j] = q}})
          /\ \A q \in Queues :
                \/ s.enableKueue /\ q \in Names(e, n)
                \/ s.enableKueue /\ n # 0 /\ c = 0
                \/ store[q] = 0 /\ Spares(KueueCalls(c), q)
                \/ Sets(KueueCalls(c), q, {0})
      BY <1>0, <1>7, <2>0, KueueSets, Zenon DEF n, e, s
    <2>2. \A q \in Queues : \/ s.enableKueue /\ q \in Names(e, n)
                            \/ s.enableKueue /\ n # 0 /\ c = 0
                            \/ store'[q] = 0
      BY <1>4, <2>1, Zenon
    <2>3. CASE ~s.enableKueue \/ n = 0
      <3>1. \A q \in Queues : ~Asked(s, q, c) /\ store'[q] = 0
        BY <1>1, <1>3, <2>2, <2>3
      <3>2. ~Asked(s, "flavor", c)
        BY <1>1, <2>3
      <3> QED
        BY <1>0, <1>2, <3>1, <3>2 DEF Settled, s
    <2>4. CASE s.enableKueue /\ n # 0 /\ c = 0
      <3>1. \A o \in Own : ~Asked(s, o, c)
        BY <1>1, <2>4
      <3>2. \A o \in Own : Open(s, o, c)
        BY <1>5, <2>4 DEF Open, e
      <3> QED
        BY <1>2, <3>1, <3>2, Zenon DEF Settled, s
    <2>5. CASE s.enableKueue /\ n # 0 /\ c # 0
      <3>1. store'["flavor"] \in {1}
        BY <1>4, <2>1, <2>5
      <3>2. \A q \in Names(e, n) :
               store'[q] \in {Share(c, n, i) : i \in {j \in 1 .. n : e[j] = q}}
        BY <1>0, <1>4, <2>1, <2>5, Zenon
      <3>3. \A i \in 1 .. n : Share(c, n, i) \in 1 .. c
        BY <1>0, <2>0, <2>5, ShareFits, Zenon
      <3>4. \A q \in Names(e, n) : store'[q] # 0
        BY <1>0, <3>2, <3>3
      <3>5. c > 0
        BY <1>0, <2>5
      <3>6. \A o \in Own : Settled(s, o, store'[o], c)
        <4>1. Settled(s, "flavor", store'["flavor"], c)
          BY <1>1, <1>7, <2>5, <3>1, <3>5 DEF Settled
        <4>2. ASSUME NEW q \in Queues PROVE Settled(s, q, store'[q], c)
          <5>1. CASE q \in Names(e, n)
            BY <3>4, <5>1, <1>1, <1>7, <2>5, <3>5 DEF Settled
          <5>2. CASE q \notin Names(e, n)
            BY <1>1, <2>2, <2>5, <5>2 DEF Settled
          <5> QED
            BY <5>1, <5>2
        <4> QED
          BY <4>1, <4>2
      <3>7. Q = Names(e, n)
        BY <1>0, <1>1, <1>7, <2>5, <3>5
      <3>8. ASSUME validateKueueSpec(s)
            PROVE  /\ SumOf(store', Q) = c
                   /\ \A q, r \in Q : store'[q] <= store'[r] + 1
        <4>1. Distinct(e, n)
          BY <1>0, <3>8, LenProperties DEF validateKueueSpec, Distinct, n, e
        <4>2. \A i \in 1 .. n : store'[e[i]] = Share(c, n, i)
          <5> SUFFICES ASSUME NEW i \in 1 .. n PROVE store'[e[i]] = Share(c, n, i)
            OBVIOUS
          <5>1. e[i] \in Names(e, n)
            BY DEF Names
          <5>2. PICK j \in 1 .. n : e[j] = e[i] /\ store'[e[i]] = Share(c, n, j)
            BY <3>2, <5>1
          <5>3. j = i
            BY <4>1, <5>2 DEF Distinct
          <5> QED
            BY <5>2, <5>3
        <4> HIDE DEF Q
        <4> QED
          BY <1>0, <2>5, <3>7, <4>1, <4>2, EveryGPUOnce
      <3>9. Shared(s, store', c)
        BY <3>8 DEF Shared
      <3> QED
        BY <3>6, <3>9 DEF s
    <2> QED
      BY <2>3, <2>4, <2>5
  <1> QED
    BY <1>6, <1>7

(* Misc. *)
LEMMA MiscDeploys ==
  ASSUME PolicyInv, DeployInv, ReconcileMisc
  PROVE  DeployInv'
  <1>0. pc = "misc" /\ UNCHANGED <<cp, stale>> /\ (NextIs("kmm") \/ Failed("kmm"))
    BY Zenon DEF ReconcileMisc
  <1>1. ASSUME OnTrack, NextIs("kmm") PROVE Reached(copy.spec, "kmm", store', capacity')
    <2> DEFINE s == copy.spec
    <2>0. ~Failed("kmm")
      BY <1>1 DEF Failed, NextIs, OnTrack, deletion
    <2>1. ~isClusterPolicyBeingDeleted /\ copy \in PolicyType /\ s \in Policies
      BY <1>1 DEF PolicyInv, TypeOK, PolicyType, OnTrack, isClusterPolicyBeingDeleted
    <2>2. PICK c \in clusterResources :
             capacity' = c /\ ~CannotDivide(c) /\ AllCalls(MiscLive(c))
      BY <2>0, <2>1, Zenon DEF ReconcileMisc, MiscLive
    <2>3. \A o \in Impossible : store'[o] = 0
      <3>1. Impossible' = Impossible
        BY DEF Impossible
      <3> QED
        BY <3>1, MiscStep DEF PolicyInv
    <2>4. MiscLive(c) \in Seq(CallsOn(MiscObjects))
      BY <2>1, MiscSets
    <2>5. \A o \in Handled("misc") : /\ store'[o] = store[o]
                                     /\ Settled(s, o, store'[o], capacity')
      <3>1. Handled("misc") \cap MiscObjects = {}
        BY HandledBy, ConstantsAssumption
           DEF DevicePluginObjects, XpumObjects, DRAObjects, MiscObjects, Operands
      <3>2. Reached(s, pc, store, capacity)
        BY <1>1 DEF DeployInv
      <3> QED
        BY <1>0, <2>1, <2>2, <2>4, <3>1, <3>2, EarlierSettled, HandledBy, Zenon
    <2>6. MonitorClaim(s, store')
      <3>1. MonitorClaim(s, store)
        BY <1>0, <1>1 DEF DeployInv, Reached, AfterXpum
      <3>2. "xpum" \in Handled("misc")
        BY HandledBy DEF XpumObjects
      <3> QED
        BY <2>5, <3>1, <3>2 DEF MonitorClaim
    <2> HIDE DEF s
    <2>7. \A o \in {"monitor", "service", "nfd"} : Settled(s, o, store'[o], capacity')
      <3>0. "monitor" \in Objects /\ "service" \in Objects /\ "nfd" \in Objects
        BY DEF Objects, Operands
      <3>1. ASSUME NEW o \in {"monitor", "service"} PROVE Settled(s, o, store'[o], capacity')
        <4>1. Asked(s, o, capacity') <=> /\ s.resourceMonitoring /\ s.prometheusIntegration
                                         /\ "prometheus" \in CRDs
          BY <2>1, AskedOf
        <4>2. "prometheus" \in CRDs =>
                 store'[o] \in {IF s.resourceMonitoring /\ s.prometheusIntegration
                                THEN 1 ELSE 0}
          BY <2>1, <2>2, <2>4, <3>0, PrometheusNfdSets, MiscSets, AllCallsSet DEF s
        <4>3. "prometheus" \notin CRDs => store'[o] = 0
          BY <2>3 DEF Impossible
        <4> QED
          BY <4>1, <4>2, <4>3 DEF Settled
      <3>2. Settled(s, "nfd", store'["nfd"], capacity')
        <4>1. Asked(s, "nfd", capacity') <=> s.useNFDLabeling /\ "nfd" \in CRDs
          BY <2>1, AskedOf
        <4>2. "nfd" \in CRDs => store'["nfd"] \in {IF s.useNFDLabeling THEN 1 ELSE 0}
          BY <2>1, <2>2, <2>4, <3>0, PrometheusNfdSets, MiscSets, AllCallsSet DEF s
        <4>3. "nfd" \notin CRDs => store'["nfd"] = 0
          BY <2>3 DEF Impossible
        <4> QED
          BY <4>1, <4>2, <4>3 DEF Settled
      <3> QED
        BY <3>1, <3>2
    <2>8. /\ \A o \in {"flavor"} \cup Queues : Settled(s, o, store'[o], capacity')
          /\ Shared(s, store', capacity')
      BY <1>1, <2>2, <2>3, KueueDeploys DEF s
    <2>9. \A o \in Handled("kmm") : Settled(s, o, store'[o], capacity')
      BY <2>5, <2>7, <2>8, HandledBy, Zenon DEF AfterMisc, MiscObjects
    <2> QED
      BY <2>6, <2>8, <2>9 DEF Reached, s
  <1> QED
    BY <1>0, <1>1, Onward, Zenon

(* The Module: it is as the policy asks, or on its way out. *)
LEMMA ModuleDeploys ==
  ASSUME PolicyInv, DeployInv, DeleteModule \/ ReconcileModule
  PROVE  DeployInv'
  <1>0. /\ pc \in {"kmm", "kmmDelete"} /\ UNCHANGED <<cp, store, capacity, stale>>
        /\ NextIs("finish") \/ Failed("finish")
    BY Zenon DEF DeleteModule, ReconcileModule
  <1>1. ASSUME OnTrack, NextIs("finish")
        PROVE  /\ Reached(copy.spec, "finish", store', capacity')
               /\ ModuleReady(copy.spec, module')
    <2>0. ~Failed("finish") /\ copy.life = "live"
      BY <1>1 DEF Failed, NextIs, OnTrack, deletion
    <2>1. Reached(copy.spec, "finish", store', capacity')
      <3>1. Reached(copy.spec, pc, store, capacity)
        BY <1>1 DEF DeployInv
      <3>2. Handled(pc) = Handled("finish")
        BY <1>0, HandledBy DEF AfterMisc
      <3> QED
        BY <1>0, <3>1, <3>2 DEF Reached, AfterXpum, AfterMisc
    <2>2. module \in [state : {"none", "present", "deleting"}, versioned : BOOLEAN]
          /\ copy.spec.kernelModule \in KernelModules
      BY ConstantsAssumption DEF PolicyInv, TypeOK, PolicyType, SpecType
    <2>3. CASE DeleteModule
      <3>1. module' = [module EXCEPT !.state = "deleting"]
        BY <2>0, <2>3 DEF DeleteModule
      <3> QED
        BY <2>1, <2>2, <3>1 DEF ModuleReady
    <2>4. CASE ReconcileModule
      <3>1. CASE WantsNoModule \/ (module.state # "none" /\ module.versioned = WantsVersion)
        <4>1. module' = module
          BY <2>0, <2>4, <3>1 DEF ReconcileModule
        <4>2. WantsNoModule => module.state = "none" /\ copy.spec.kernelModule = "none"
          BY <2>0, <2>4 DEF ReconcileModule, WantsNoModule
        <4> QED
          BY <2>0, <2>1, <2>2, <3>1, <4>1, <4>2
             DEF ModuleReady, WantsVersion, WantsNoModule, KernelModules
      <3>2. CASE ~(WantsNoModule \/ (module.state # "none" /\ module.versioned = WantsVersion))
        <4>1. module' = [state |-> "present", versioned |-> WantsVersion]
          BY <2>0, <2>4, <3>2, Zenon DEF ReconcileModule
        <4>2. copy.spec.kernelModule # "none"
          BY <3>2 DEF WantsNoModule
        <4>3. module'.state = "present" /\ module'.versioned = WantsVersion
          BY <4>1, Zenon
        <4> QED
          BY <2>1, <4>2, <4>3, Zenon DEF ModuleReady, WantsVersion
      <3> QED
        BY <3>1, <3>2
    <2> QED
      BY <2>3, <2>4
  <1> QED
    BY <1>0, <1>1, Onward, Zenon

(* The looks at the claims: the driver is removed from a live policy only  *)
(* if it is not wanted; a Module being deleted already is waited for. *)
LEMMA ChecksDeploy ==
  ASSUME PolicyInv, DeployInv, RemoveDRA \/ RemoveModule
  PROVE  DeployInv'
  <1>0. UNCHANGED <<cp, store, module, capacity, stale>>
    BY DEF RemoveDRA, RemoveModule
  <1>1. CASE RemoveDRA
    <2>1. pc = "dra" /\ shouldRemoveDRA /\ (NextIs("draDelete") \/ Requeue)
      BY <1>1, Zenon DEF RemoveDRA, CheckClaims
    <2>2. ASSUME OnTrack
          PROVE  /\ Reached(copy.spec, "draDelete", store', capacity')
                 /\ copy.spec.resourceRegistration # "dra"
      <3>1. Reached(copy.spec, "dra", store, capacity)
        BY <2>1, <2>2 DEF DeployInv
      <3>2. Reached(copy.spec, "draDelete", store', capacity')
        BY <1>0, <3>1, HandledBy DEF Reached, AfterXpum, AfterMisc
      <3> QED
        BY <2>1, <2>2, <3>2 DEF shouldRemoveDRA, isClusterPolicyBeingDeleted, OnTrack
    <2>3. UNCHANGED <<cp, stale>> /\ pc \notin {"idle", "finalizer"}
      BY <1>0, <2>1
    <2>4. NextIs("draDelete") \/ Failed("draDelete") \/ Requeue
      BY <2>1
    <2>5. OnTrack /\ NextIs("draDelete")
          => /\ Reached(copy.spec, "draDelete", store', capacity')
             /\ "draDelete" = "draDelete" => copy.spec.resourceRegistration # "dra"
             /\ "draDelete" = "finish" => queued \/ ModuleReady(copy.spec, module')
      BY <2>2
    <2> QED
      BY <2>3, <2>4, <2>5, Onward
  <1>2. CASE RemoveModule
    <2>1. PICK next \in {"kmmDelete", "finish"} :
             /\ pc = "kmm" /\ (NextIs(next) \/ Requeue)
             /\ next = "finish" => module.state = "deleting"
      BY <1>2, Zenon DEF RemoveModule, CheckClaims
    <2>2. ASSUME OnTrack
          PROVE  /\ Reached(copy.spec, next, store', capacity')
                 /\ next = "finish" => ModuleReady(copy.spec, module')
      <3>1. Reached(copy.spec, "kmm", store, capacity)
        BY <2>1, <2>2 DEF DeployInv
      <3>2. Handled(next) = Handled("kmm")
        BY HandledBy DEF AfterMisc
      <3>3. Reached(copy.spec, next, store', capacity')
        BY <1>0, <3>1, <3>2 DEF Reached, AfterXpum, AfterMisc
      <3> QED
        BY <1>0, <2>1, <3>3, Zenon DEF ModuleReady
    <2>3. UNCHANGED <<cp, stale>> /\ pc \notin {"idle", "finalizer"}
      BY <1>0, <2>1
    <2>4. NextIs(next) \/ Failed(next) \/ Requeue
      BY <2>1
    <2> QED
      BY <2>2, <2>3, <2>4, Onward, Zenon
  <1> QED
    BY <1>1, <1>2

(* The beginning and the end of a pass. *)
LEMMA EndsDeploy ==
  ASSUME PolicyInv, DeployInv, Reconcile \/ AddFinalizer \/ Finish
  PROVE  DeployInv'
  <1>0. /\ UNCHANGED <<store, module, capacity>>
        /\ \A s, st, c : Reached(s, "dp", st, c)
    BY HandledBy DEF Reconcile, AddFinalizer, Finish, Reached, AfterXpum, AfterMisc
  <1>1. CASE Reconcile
    <2>1. clean' = FALSE /\ pc' \in {"idle", "finalizer", "dp"}
      BY <1>1, Zenon DEF Reconcile
    <2> QED
      BY <1>0, <2>1 DEF DeployInv, OnTrack
  <1>2. CASE AddFinalizer
    <2>1. pc = "finalizer" /\ clean' = clean /\ pc' \in {"idle", "dp"}
      BY <1>2, Zenon DEF AddFinalizer, Requeue
    <2> QED
      BY <1>0, <2>1, Zenon DEF DeployInv, OnTrack
  <1>3. CASE Finish
    <2>1. pc = "finish" /\ pc' = "idle"
      BY <1>3, Zenon DEF Finish, Requeue
    <2>2. ASSUME clean'
          PROVE  /\ OnTrack /\ copy = cp /\ cp' = cp
                 /\ queued' = (queued \/ err)
      <3>1. ~deletion
        BY <1>3, <2>1, <2>2, Zenon DEF Finish, Requeue, DeployInv
      <3>2. /\ ~err /\ ~stale /\ copy.life = "live" /\ cp' = cp /\ queued' = (queued \/ err)
        BY <1>3, <2>2, <3>1, Zenon DEF Finish
      <3> QED
        BY <2>1, <3>2 DEF OnTrack, PolicyInv
    <2>3. ASSUME clean'
          PROVE  /\ cp'.life = "live" /\ Reached(cp'.spec, "finish", store', capacity')
                 /\ queued' \/ ModuleReady(cp'.spec, module')
      BY <1>0, <2>1, <2>2, <2>3, Zenon DEF DeployInv, OnTrack
    <2> QED
      BY <2>1, <2>3 DEF DeployInv, OnTrack
  <1> QED
    BY <1>1, <1>2, <1>3

(* Whatever happens outside queues the policy, or changes nothing the      *)
(* policy asks for. *)
LEMMA OutsideDeploys ==
  ASSUME PolicyInv, DeployInv, Crash \/ Environment \/ UNCHANGED vars
  PROVE  DeployInv'
  <1>0. UNCHANGED <<store, capacity, copy>>
    BY DEF Crash, Environment, EditSpec, Delete, Wake, ModuleUnloaded, GarbageCollect,
           Allocate, Release, passVars, vars
  <1>1. CASE Crash
    <2>1. UNCHANGED <<cp, module, clean>> /\ pc' = "idle" /\ queued' = (cp.life # "gone")
      BY <1>1 DEF Crash
    <2> QED
      BY <1>0, <2>1, Zenon DEF DeployInv, OnTrack
  <1>2. CASE EditSpec \/ Delete
    <2>1. stale' = TRUE /\ clean' = FALSE
      BY <1>2 DEF EditSpec, Delete
    <2> QED
      BY <2>1 DEF DeployInv, OnTrack
  <1>3. CASE GarbageCollect
    <2>1. /\ cp.life = "gone"
          /\ UNCHANGED <<cp, pc, err, stale, clean>>
      BY <1>3 DEF GarbageCollect, passVars
    <2>2. ~clean /\ ~OnTrack
      BY <2>1, Zenon DEF DeployInv, OnTrack, PolicyInv
    <2> QED
      BY <1>0, <2>1, <2>2 DEF DeployInv, OnTrack
  <1>4. CASE \/ Wake \/ ModuleUnloaded \/ UNCHANGED vars
             \/ \E c \in Claims : Allocate(c) \/ Release(c)
    <2>1. /\ UNCHANGED <<cp, pc, err, stale, clean>>
          /\ queued' = TRUE \/ UNCHANGED <<module, queued>>
      BY <1>4, Zenon DEF Wake, ModuleUnloaded, Allocate, Release, passVars, vars
    <2> QED
      BY <1>0, <2>1 DEF DeployInv, OnTrack
  <1> QED
    BY <1>1, <1>2, <1>3, <1>4 DEF Environment

-----------------------------------------------------------------------------
(* A pass keeps what it has reached, and what the last one has reached     *)
(* stays until the policy is written or queued. *)
THEOREM DeployInvariant == Spec => []DeployInv
  <1>1. Init => DeployInv
    BY DEF Init, DeployInv, OnTrack
  <1>2. PolicyInv /\ DeployInv /\ [Next]_vars => DeployInv'
    BY DevicePluginDeploys, XpuManagerDeploys, DRADeploys, DRARemoved, MiscDeploys,
       ModuleDeploys, ChecksDeploy, EndsDeploy, OutsideDeploys DEF Next, Continue
  <1> QED
    BY <1>1, <1>2, PolicyInvariant, PTL DEF Spec

(* A pass that returned no error for the policy as it is has deployed what *)
(* the spec asks for - every operand, queue, rule and Module of it and     *)
(* none other, with quotas that add up to the GPUs that were counted -     *)
(* whatever earlier passes, cut short under other specs, have left.        *)
THEOREM CleanIsDeployed == Spec => []CleanMeansDeployed
  <1>1. DeployInv => CleanMeansDeployed
    <2> SUFFICES ASSUME DeployInv, clean, ~queued PROVE Deployed(cp.spec)
      BY DEF CleanMeansDeployed
    <2> DEFINE s == cp.spec
               Q == {q \in Queues : Wants(s, q)}
    <2>1. Reached(s, "finish", store, capacity) /\ ModuleReady(s, module)
      BY DEF DeployInv
    <2>2. \A o : (Wants(s, o) <=> Asked(s, o, capacity))
                 /\ (Unsettled(s, o) <=> Open(s, o, capacity))
      BY DEF Wants, Asked, Unsettled, Open
    <2>3. \A o \in Objects : IF Wants(s, o) THEN store[o] # 0
                             ELSE o \in LoggedOnly \/ Unsettled(s, o) \/ store[o] = 0
      BY <2>1, <2>2, HandledBy DEF Reached, Settled, AfterMisc
    <2>4. MonitorClaim(s, store)
      BY <2>1 DEF Reached, AfterXpum
    <2>5. validateKueueSpec(s) => EqualShares(Q)
      <3>1. Q = {q \in Queues : Asked(s, q, capacity)}
        BY <2>2
      <3>2. Shared(s, store, capacity)
        BY <2>1 DEF Reached, AfterMisc
      <3> HIDE DEF Q
      <3>3. validateKueueSpec(s) => /\ Q # {} => SumOf(store, Q) = capacity
                                    /\ \A q, r \in Q : store[q] <= store[r] + 1
        BY <3>1, <3>2 DEF Shared
      <3> QED
        BY <3>3, Zenon DEF EqualShares, SumOf
    <2> QED
      BY <2>1, <2>3, <2>4, <2>5, Zenon DEF Deployed, ModuleReady, MonitorClaim
  <1> QED
    BY <1>1, DeployInvariant, PTL
=============================================================================
