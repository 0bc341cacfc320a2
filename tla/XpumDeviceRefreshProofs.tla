----------------------- MODULE XpumDeviceRefreshProofs ----------------------
(***************************************************************************)
(* Proofs about XpumDeviceRefresh, for any nodes, GPUs, caps, budgets and  *)
(* failures.                                                               *)
(***************************************************************************)
EXTENDS XpumDeviceRefresh, TLAPS

-----------------------------------------------------------------------------
(* The inductive invariant.  Between the comparison in refreshPod and the  *)
(* delete in restartPod, the pod that was read keeps what made the pass    *)
(* decide, for as long as it exists; a replacement never passes for it.    *)
Decided ==
    /\ why # {} /\ reason # "none"
    /\ attempts[cur] < maxXpumRestartAttempts
    /\ same =>
          /\ pod[cur].adopted
          /\ reason = "recovered" => why \cap pod[cur].record = {}
          /\ reason = "rebind" => why \subseteq pod[cur].record

RefreshInv ==
    /\ TypeOK
    /\ pc = "delete" => Decided

-----------------------------------------------------------------------------
(* Types.                                                                  *)

(* The worker's idle node is a node. *)
LEMMA NowhereType == Nowhere \in Nodes
  BY ConstantsAssumption DEF Nowhere

(* A pod's life cycle and its adoption keep its type. *)
LEMMA PodTypes ==
  ASSUME NEW p \in PodType
  PROVE  /\ NoPod \in PodType
         /\ \A s \in {"none", "pending", "running", "terminating"} :
               [p EXCEPT !.phase = s] \in PodType
         /\ \A D \in SUBSET Devices :
               [p EXCEPT !.adopted = TRUE, !.record = D] \in PodType
         /\ [p EXCEPT !.seen = TRUE] \in PodType
  BY Zenon DEF PodType, NoPod

(* The record is written by a pass only. *)
LEMMA RecordKept ==
  ASSUME NEW p \in PodType
  PROVE  /\ \A s : /\ [p EXCEPT !.phase = s].adopted = p.adopted
                   /\ [p EXCEPT !.phase = s].record = p.record
         /\ /\ [p EXCEPT !.seen = TRUE].adopted = p.adopted
            /\ [p EXCEPT !.seen = TRUE].record = p.record
  BY DEF PodType

(* What a pass computes from the slices and the record is sets of GPUs. *)
LEMMA ReadTypes ==
  ASSUME TypeOK, NEW n \in Nodes
  PROVE  /\ published(n) \subseteq Devices
         /\ usable(n) \subseteq published(n)
         /\ HeldAtAdoption(n) \subseteq Devices
         /\ missingDevices(n) \subseteq Devices
         /\ rebound(n) \subseteq Devices
         /\ trackLost(n) \subseteq Devices
  <1>1. pod[n] \in PodType /\ lost[n] \subseteq Devices
    BY DEF TypeOK
  <1>2. pod[n].allocated \subseteq Devices /\ pod[n].record \subseteq Devices
    BY <1>1 DEF PodType
  <1> QED
    BY <1>1, <1>2
    DEF published, usable, HeldAtAdoption, missingDevices, rebound, trackLost

(* The budget of failures is counted, or left alone. *)
LEMMA SpentType ==
  ASSUME TypeOK, NEW k, Fails(k) \/ Works \/ Changes(k)
  PROVE  spent' \in [failures : Nat, changes : Nat]
  BY DEF TypeOK, Fails, Works, Changes

(* The end of a pass resets what the pass has read. *)
LEMMA EndPassType ==
  ASSUME EndPass
  PROVE  /\ pc' = "idle" /\ cur' \in Nodes /\ same' \in BOOLEAN
         /\ held' \subseteq Devices /\ why' \subseteq Devices
         /\ reason' \in {"none", "recovered", "rebind"}
  BY NowhereType DEF EndPass

-----------------------------------------------------------------------------
(* Nothing is decided before the first pass. *)
LEMMA RefreshInit == Init => RefreshInv
  <1> SUFFICES ASSUME Init PROVE RefreshInv
    OBVIOUS
  <1>1. pod \in [Nodes -> PodType]
    BY DEF Init, PodType
  <1>2. attempts \in [Nodes -> 0 .. maxXpumRestartAttempts]
    BY ConstantsAssumption DEF Init
  <1> QED
    BY <1>1, <1>2, NowhereType DEF Init, RefreshInv, TypeOK

(* The ways through a pass up to its write. *)
LEMMA ReconcileStep ==
  ASSUME RefreshInv, NEW n \in Nodes, Reconcile(n) PROVE RefreshInv'
  <1> USE DEF RefreshInv
  <1>0. /\ TypeOK
        /\ spent' \in [failures : Nat, changes : Nat]
    <2>1. Works
      BY Zenon DEF Reconcile, ForgetNode, NoRunningPod, AdoptPod, Converged,
                   AbandonRestart, DeferRestart, RestartPod
    <2> QED
      BY <2>1, SpentType
  <1>1. CASE ForgetNode(n)
    BY <1>0, <1>1, ConstantsAssumption
    DEF ForgetNode, Take, passVars, Decided, TypeOK
  <1>2. CASE NoRunningPod(n)
    BY <1>0, <1>2 DEF NoRunningPod, Watches, Take, passVars, Decided, TypeOK
  <1>3. CASE AdoptPod(n)
    BY <1>0, <1>3, ReadTypes DEF AdoptPod, Watches, Take, passVars, Decided, TypeOK
  <1>4. CASE Converged(n)
    BY <1>0, <1>4, ReadTypes, ConstantsAssumption
    DEF Converged, Compares, Watches, Take, passVars, Decided, TypeOK
  <1>5. CASE AbandonRestart(n)
    BY <1>0, <1>5, ReadTypes
    DEF AbandonRestart, Compares, Watches, Take, passVars, Decided, TypeOK
  <1>6. CASE DeferRestart(n)
    BY <1>0, <1>6, ReadTypes
    DEF DeferRestart, Compares, Watches, Take, passVars, Decided, TypeOK
  <1>7. CASE RestartPod(n)
    <2>1. /\ Reason(n) \in {"recovered", "rebind"}
          /\ Reason(n) = "recovered" => missingDevices(n) # {}
          /\ Reason(n) = "rebind" => rebound(n) # {}
      BY <1>7, Zenon DEF RestartPod, Reason
    <2>2. /\ missingDevices(n) \cap pod[n].record = {}
          /\ rebound(n) \subseteq pod[n].record
      BY DEF missingDevices, rebound
    <2>3. Decided'
      BY <1>0, <1>7, <2>1, <2>2 DEF RestartPod, Compares, Decided, TypeOK
    <2>4. TypeOK'
      BY <1>0, <1>7, <2>1, ReadTypes DEF RestartPod, TypeOK
    <2> QED
      BY <2>3, <2>4
  <1> QED
    BY <1>1, <1>2, <1>3, <1>4, <1>5, <1>6, <1>7 DEF Reconcile

(* The calls that end a pass, and a restart. *)
LEMMA ContinueStep ==
  ASSUME RefreshInv, Continue \/ Crash PROVE RefreshInv'
  <1> USE DEF RefreshInv
  <1>0. TypeOK /\ cur \in Nodes /\ pod[cur] \in PodType
    BY DEF TypeOK
  <1>1. CASE PatchDeviceRecord
    <2>1. pod' = [pod EXCEPT ![cur] = [pod[cur] EXCEPT !.adopted = TRUE, !.record = held]]
      BY <1>1, Zenon DEF PatchDeviceRecord
    <2>2. pod' \in [Nodes -> PodType]
      BY <1>0, <2>1, PodTypes, Zenon DEF TypeOK
    <2> QED
      BY <1>0, <1>1, <2>2, EndPassType DEF PatchDeviceRecord, Works, TypeOK
  <1>2. CASE DeletePod
    <2>1. pod' = [pod EXCEPT ![cur] = [pod[cur] EXCEPT !.phase = "terminating"]]
      BY <1>2, Zenon DEF DeletePod
    <2>2. pod' \in [Nodes -> PodType]
      BY <1>0, <2>1, PodTypes, Zenon DEF TypeOK
    <2>3. attempts[cur] < maxXpumRestartAttempts
      BY <1>2 DEF DeletePod, Decided
    <2>4. attempts' \in [Nodes -> 0 .. maxXpumRestartAttempts]
      BY <1>0, <1>2, <2>3, ConstantsAssumption DEF DeletePod, TypeOK
    <2>5. lost' \in [Nodes -> SUBSET Devices]
      BY <1>0, <1>2 DEF DeletePod, TypeOK
    <2> QED
      BY <1>0, <1>2, <2>2, <2>4, <2>5, EndPassType DEF DeletePod, Works, TypeOK
  <1>3. CASE CallFails
    <2>1. spent' \in [failures : Nat, changes : Nat]
      BY <1>0, <1>3, SpentType DEF CallFails
    <2> QED
      BY <1>0, <1>3, <2>1, EndPassType DEF CallFails, TypeOK
  <1>4. CASE Crash
    <2>1. spent' \in [failures : Nat, changes : Nat]
      BY <1>0, <1>4, SpentType DEF Crash
    <2> QED
      BY <1>0, <1>4, <2>1, EndPassType, ConstantsAssumption DEF Crash, TypeOK
  <1> QED
    BY <1>1, <1>2, <1>3, <1>4 DEF Continue

(* A step outside the pass leaves the pass its decision, if the pod that   *)
(* was read keeps its record or is known to be gone. *)
LEMMA Undecided ==
  ASSUME RefreshInv, TypeOK',
         UNCHANGED <<pc, cur, why, reason, attempts>>,
         pc = "delete" /\ same' =>
            /\ same
            /\ pod'[cur].adopted = pod[cur].adopted
            /\ pod'[cur].record = pod[cur].record
  PROVE  RefreshInv'
  BY DEF RefreshInv, Decided

(* The life of the pods: a pod keeps its record until it is gone. *)
LEMMA PodStep ==
  ASSUME RefreshInv, NEW n \in Nodes,
         PodDeleted(n) \/ PodGone(n) \/ PodCreated(n) \/ PodStarts(n) \/ ClaimSeen(n)
  PROVE  RefreshInv'
  <1>0. TypeOK /\ cur \in Nodes /\ pod[n] \in PodType
    BY DEF RefreshInv, TypeOK
  <1>1. CASE PodGone(n)
    <2>1. pod' \in [Nodes -> PodType]
      BY <1>0, <1>1, PodTypes, Zenon DEF PodGone, TypeOK
    <2>2. TypeOK'
      BY <1>0, <1>1, <2>1 DEF PodGone, TypeOK
    <2>3. pc = "delete" /\ same' => same /\ pod'[cur] = pod[cur]
      BY <1>0, <1>1, Zenon DEF PodGone, TypeOK
    <2> QED
      BY <1>1, <2>2, <2>3, Undecided DEF PodGone
  <1>2. CASE ~PodGone(n)
    <2>1. PICK q \in PodType :
             /\ pod' = [pod EXCEPT ![n] = q]
             /\ q.adopted = pod[n].adopted /\ q.record = pod[n].record
      <3>1. CASE PodDeleted(n)
        <4> DEFINE q0 == [pod[n] EXCEPT !.phase = "terminating"]
        <4>1. pod' = [pod EXCEPT ![n] = q0]
          BY <3>1, Zenon DEF PodDeleted
        <4>2. /\ q0 \in PodType
              /\ q0.adopted = pod[n].adopted /\ q0.record = pod[n].record
          BY <1>0, PodTypes, RecordKept, Zenon
        <4> HIDE DEF q0
        <4> QED
          BY <4>1, <4>2, Zenon
      <3>2. CASE PodCreated(n)
        <4> DEFINE q0 == [pod[n] EXCEPT !.phase = "pending"]
        <4>1. pod' = [pod EXCEPT ![n] = q0]
          BY <3>2, Zenon DEF PodCreated
        <4>2. /\ q0 \in PodType
              /\ q0.adopted = pod[n].adopted /\ q0.record = pod[n].record
          BY <1>0, PodTypes, RecordKept, Zenon
        <4> HIDE DEF q0
        <4> QED
          BY <4>1, <4>2, Zenon
      <3>3. CASE PodStarts(n)
        <4>1. PICK seen \in BOOLEAN :
                 pod' = [pod EXCEPT ![n] = [pod[n] EXCEPT !.phase = "running",
                                              !.allocated = published(n), !.seen = seen]]
          BY <3>3, Zenon DEF PodStarts
        <4>2. PICK D \in SUBSET Devices : D = published(n)
          BY Zenon DEF published
        <4> DEFINE q0(b) == [pod[n] EXCEPT !.phase = "running", !.allocated = D, !.seen = b]
        <4>3. pod' = [pod EXCEPT ![n] = q0(TRUE)] \/ pod' = [pod EXCEPT ![n] = q0(FALSE)]
          BY <4>1, <4>2, Zenon
        <4>4. /\ q0(TRUE) \in PodType
              /\ q0(TRUE).adopted = pod[n].adopted /\ q0(TRUE).record = pod[n].record
          BY <1>0, Zenon DEF PodType
        <4>5. /\ q0(FALSE) \in PodType
              /\ q0(FALSE).adopted = pod[n].adopted /\ q0(FALSE).record = pod[n].record
          BY <1>0, Zenon DEF PodType
        <4> HIDE DEF q0
        <4> QED
          BY <4>3, <4>4, <4>5, Zenon
      <3>4. CASE ClaimSeen(n)
        <4> DEFINE q0 == [pod[n] EXCEPT !.seen = TRUE]
        <4>1. pod' = [pod EXCEPT ![n] = q0]
          BY <3>4, Zenon DEF ClaimSeen
        <4>2. /\ q0 \in PodType
              /\ q0.adopted = pod[n].adopted /\ q0.record = pod[n].record
          BY <1>0, PodTypes, RecordKept, Zenon
        <4> HIDE DEF q0
        <4> QED
          BY <4>1, <4>2, Zenon
      <3> QED
        BY <1>2, <3>1, <3>2, <3>3, <3>4
    <2>2. /\ pod' \in [Nodes -> PodType]
          /\ pod'[cur].adopted = pod[cur].adopted
          /\ pod'[cur].record = pod[cur].record
      BY <1>0, <2>1 DEF TypeOK
    <2>3. spent' \in [failures : Nat, changes : Nat]
      <3>1. Works \/ Changes("pod")
        BY <1>2, Zenon DEF PodDeleted, PodCreated, PodStarts, ClaimSeen, Works
      <3> QED
        BY <1>0, <3>1, SpentType
    <2>4. /\ UNCHANGED <<device, mode, cooling, attempts, lost, passVars>>
          /\ queue' \in {queue, queue \cup {n}}
      BY <1>2, Zenon DEF PodDeleted, PodCreated, PodStarts, ClaimSeen, memoryVars
    <2>5. TypeOK'
      BY <1>0, <2>2, <2>3, <2>4 DEF passVars, TypeOK
    <2> QED
      BY <2>2, <2>4, <2>5, Undecided DEF passVars
  <1> QED
    BY <1>1, <1>2

(* Everything else that happens around a pass, and a list that fails. *)
LEMMA OtherStep ==
  ASSUME RefreshInv, NEW n \in Nodes,
         \/ DeviceChanges(n) \/ SwitchMode \/ CooldownEnds(n) \/ ListFails(n)
         \/ UNCHANGED vars
  PROVE  RefreshInv'
  <1>0. TypeOK
    BY DEF RefreshInv
  <1>1. UNCHANGED <<pod, attempts, passVars>>
    BY Zenon DEF DeviceChanges, SwitchMode, CooldownEnds, ListFails, memoryVars, vars
  <1>2. spent' \in [failures : Nat, changes : Nat]
    <2>1. Works \/ Fails("list") \/ Changes("device") \/ Changes("mode")
      BY Zenon DEF DeviceChanges, SwitchMode, CooldownEnds, ListFails, Works, vars
    <2> QED
      BY <1>0, <2>1, SpentType
  <1>3. TypeOK'
    <2>1. CASE DeviceChanges(n)
      BY <1>0, <1>2, <2>1 DEF DeviceChanges, passVars, TypeOK
    <2>2. CASE SwitchMode
      BY <1>0, <1>2, <2>2 DEF SwitchMode, memoryVars, passVars, TypeOK
    <2>3. CASE CooldownEnds(n)
      BY <1>0, <1>2, <2>3 DEF CooldownEnds, passVars, TypeOK
    <2>4. CASE ListFails(n)
      BY <1>0, <1>2, <2>4, ReadTypes DEF ListFails, passVars, TypeOK
    <2>5. CASE UNCHANGED vars
      BY <1>0, <2>5 DEF vars, memoryVars, passVars, TypeOK
    <2> QED
      BY <2>1, <2>2, <2>3, <2>4, <2>5
  <1> QED
    BY <1>1, <1>3, Undecided DEF passVars

(* RefreshInv is inductive. *)
LEMMA RefreshStep == RefreshInv /\ [Next]_vars => RefreshInv'
  <1> SUFFICES ASSUME RefreshInv, [Next]_vars PROVE RefreshInv'
    OBVIOUS
  <1>1. ASSUME NEW n \in Nodes, Reconcile(n) \/ ListFails(n) PROVE RefreshInv'
    BY <1>1, ReconcileStep, OtherStep
  <1>2. ASSUME NEW n \in Nodes, Proceed(n) PROVE RefreshInv'
    BY <1>2, PodStep, OtherStep DEF Proceed
  <1>3. ASSUME NEW n \in Nodes, DeviceChanges(n) \/ PodDeleted(n) PROVE RefreshInv'
    BY <1>3, PodStep, OtherStep
  <1>4. CASE Continue \/ Crash
    BY <1>4, ContinueStep
  <1>5. CASE SwitchMode \/ UNCHANGED vars
    BY <1>5, OtherStep, NowhereType
  <1> QED
    BY <1>1, <1>2, <1>3, <1>4, <1>5 DEF Next

-----------------------------------------------------------------------------
(* The invariant holds throughout, for any constants. *)
THEOREM RefreshInvariant == Spec => []RefreshInv
  BY RefreshInit, RefreshStep, PTL DEF Spec

(* Every variable keeps its type; in particular restartPod never makes     *)
(* more attempts than maxXpumRestartAttempts, however passes, failing      *)
(* calls, restarts and other people's deletions of pods follow each other. *)
THEOREM TypeCorrect == Spec => []TypeOK
  <1>1. RefreshInv => TypeOK
    BY DEF RefreshInv
  <1> QED
    BY <1>1, RefreshInvariant, PTL

(* restartPod deletes the pod that refreshPod compared and found wanting,  *)
(* for any number of nodes and GPUs and any interleaving with the          *)
(* replacement of pods. *)
THEOREM DeletesTheRightPod == Spec => DeletesThePodItRead
  <1>1. RefreshInv /\ [Next]_vars =>
          [(DeletePod /\ pod[cur].phase # "terminating") =>
             /\ pod[cur].adopted /\ why # {}
             /\ reason = "recovered" => why \cap pod[cur].record = {}
             /\ reason = "rebind" => why \subseteq pod[cur].record]_vars
    BY DEF RefreshInv, Decided, DeletePod
  <1> QED
    BY <1>1, RefreshInvariant, PTL DEF Spec, DeletesThePodItRead
=============================================================================
