--------------------------- MODULE MCRecoveryPlan ---------------------------
(***************************************************************************)
(* Small instances of RecoveryPlan for TLC: where GPUs sit, which plan     *)
(* each belongs to, and what the approvals of a run say.                   *)
(***************************************************************************)
EXTENDS RecoveryPlan

(* Where the GPUs sit. *)
OneNode == [d \in Devices |-> "n1"]
NodeEach == [d \in Devices |-> IF d = "d1" THEN "n1" ELSE "n2"]

(* Whose they are. *)
OnePlan == [d \in Devices |-> "p1"]
PlanEach == [d \in Devices |-> IF d = "d1" THEN "p1" ELSE "p2"]

(* What may befall them, and how often. *)
AnyTaint == [d \in Devices |-> TaintKeys]
Wedged == [d \in Devices |-> {"wedged"}]
SecondWedged ==
    [d \in Devices |-> IF d = "d1" THEN TaintKeys ELSE {"wedged"}]
Survivability == [d \in Devices |-> {"survivability"}]
Once == [d \in Devices |-> 1]
Twice == [d \in Devices |-> 2]
FirstTwice == [d \in Devices |-> IF d = "d1" THEN 2 ELSE 1]

(* Approvals: of one event, or a selector over types on every node. *)
ForEvent(p, d, t) ==
    [plan |-> p, names |-> {<<d, t>>}, types |-> {}, nodes |-> {},
     override |-> "none", persistent |-> FALSE]

ForTypes(p, types) ==
    [plan |-> p, names |-> {}, types |-> types, nodes |-> Nodes,
     override |-> "none", persistent |-> FALSE]

(* A selector for everything, and an approval of one reset. *)
GroupAndOne ==
    [a \in Approvals |-> IF a = 1 THEN ForTypes("p1", RecoveryTypes)
                                  ELSE ForEvent("p1", "d1", "sbr")]

(* The same, in the other order. *)
OneAndGroup ==
    [a \in Approvals |-> IF a = 1 THEN ForEvent("p1", "d1", "sbr")
                                  ELSE ForTypes("p1", RecoveryTypes)]

(* Every plan has a standing approval for everything. *)
Standing ==
    [a \in Approvals |->
        [ForTypes(IF a = 1 THEN "p1" ELSE "p2", RecoveryTypes)
           EXCEPT !.persistent = TRUE]]

(* A standing approval of sbr resets, to be run as amc resets. *)
Overriding ==
    [a \in Approvals |->
        [ForTypes("p1", {"sbr"}) EXCEPT !.persistent = TRUE,
                                        !.override = "amc"]]
=============================================================================
