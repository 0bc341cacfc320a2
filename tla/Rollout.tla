------------------------------ MODULE Rollout ------------------------------
(***************************************************************************)
(* What a GPUFirmwareUpdate promises the admin who watches its status: a   *)
(* staged rollout.  Nodes are taken into scope; those held back wait until *)
(* every node in scope has been verified as updated and no hold is set;    *)
(* the rollout is complete only when every node it selected is verified;   *)
(* a verdict is final.  FirmwareUpdate implements this specification.      *)
(***************************************************************************)
CONSTANTS Updates, Nodes

VARIABLES
    scope,      \* nodes the update works on: status.nodeInfos.allNodes
    waiting,    \* nodes held back behind the canary: pendingNodes
    verified,   \* nodes seen updated: completedNodes
    verdict,    \* open, completed or error
    held        \* spec.holdAfterCanary

rolloutVars == <<scope, waiting, verified, verdict, held>>

Init ==
    /\ scope = [u \in Updates |-> {}]
    /\ waiting = [u \in Updates |-> {}]
    /\ verified = [u \in Updates |-> {}]
    /\ verdict = [u \in Updates |-> "open"]
    /\ held \in [Updates -> BOOLEAN]

(* An admin sets or lifts the hold.                                        *)
SetHold(u) ==
    /\ \E b \in BOOLEAN : held' = [held EXCEPT ![u] = b]
    /\ UNCHANGED <<scope, waiting, verified, verdict>>

Select(u) ==
    /\ verdict[u] = "open" /\ scope[u] = {}
    /\ \E S, W \in SUBSET Nodes :
          /\ S \cap W = {}
          /\ scope' = [scope EXCEPT ![u] = S]
          /\ waiting' = [waiting EXCEPT ![u] = W]
    /\ UNCHANGED <<verified, verdict, held>>

Verify(u) ==
    /\ verdict[u] = "open"
    /\ \E S \in SUBSET scope[u] :
          verified' = [verified EXCEPT ![u] = @ \cup S]
    /\ UNCHANGED <<scope, waiting, verdict, held>>

(* The rest follows the canary.                                            *)
Promote(u) ==
    /\ verdict[u] = "open" /\ ~held[u]
    /\ scope[u] # {} /\ verified[u] = scope[u]
    /\ scope' = [scope EXCEPT ![u] = @ \cup waiting[u]]
    /\ waiting' = [waiting EXCEPT ![u] = {}]
    /\ UNCHANGED <<verified, verdict, held>>

Complete(u) ==
    /\ verdict[u] = "open"
    /\ scope[u] # {} /\ verified[u] = scope[u] /\ waiting[u] = {}
    /\ verdict' = [verdict EXCEPT ![u] = "completed"]
    /\ UNCHANGED <<scope, waiting, verified, held>>

(* An update may fail at any time, also while it selects or promotes.      *)
Fail(u) ==
    /\ verdict[u] = "open"
    /\ verdict' = [verdict EXCEPT ![u] = "error"]
    /\ \E S, W \in SUBSET Nodes :
          /\ \/ S = scope[u]
             \/ scope[u] = {}
             \/ ~held[u] /\ verified[u] = scope[u]
                         /\ S = scope[u] \cup waiting[u]
          /\ scope' = [scope EXCEPT ![u] = S]
          /\ waiting' = [waiting EXCEPT ![u] = W]
    /\ UNCHANGED <<verified, held>>

Next ==
    \E u \in Updates :
        SetHold(u) \/ Select(u) \/ Verify(u) \/ Promote(u) \/ Complete(u) \/ Fail(u)

Spec == Init /\ [][Next]_rolloutVars
=============================================================================
