------------------------- MODULE RecoveryLifecycle -------------------------
(***************************************************************************)
(* What a GPURecoveryPlan promises the admin who watches status.events:    *)
(* the life of a recovery event.  A recovery in progress is not started    *)
(* over, escalated or dropped: it ends in a verdict, which files the       *)
(* attempt, or with its plan.  Attempts are filed one at a time, each      *)
(* under a name of its own, and stay on file as long as the event.  A      *)
(* reset that has succeeded moves only by a worse fault, a reflash that    *)
(* has succeeded not at all, and no reflash turns into a reset.  A plan    *)
(* that is gone has no events.  RecoveryPlan implements this.              *)
(***************************************************************************)
EXTENDS Naturals, Sequences

CONSTANTS Devices, Plans, PlanOf

VARIABLES
    record,     \* the entry of status.events for each GPU
    standing    \* the plans there are

lifeVars == <<record, standing>>

None == [kind |-> "none", stage |-> "none", tried |-> <<>>]

Raised(kind) == [kind |-> kind, stage |-> "open", tried |-> <<>>]

(* A reset may become a reflash, with its past.                            *)
Escalated(r) ==
    IF r.kind = "reset"
    THEN {[r EXCEPT !.kind = "reflash", !.stage = "open"]} ELSE {}

(* A fault is noticed, stays, worsens or is gone; with it goes the record, *)
(* unless its recovery is in progress.                                     *)
Detected(r) ==
    {r} \cup CASE r = None -> {Raised("reset"), Raised("reflash")}
               [] r.stage = "in-progress" -> {}
               [] OTHER -> {None} \cup Escalated(r)

(* An approval takes a recovery up, after a failure too.                   *)
Approved(r) ==
    {r} \cup IF r.stage \in {"open", "failed"}
             THEN {[r EXCEPT !.stage = s] : s \in {"open", "draining", "in-progress"}}
             ELSE {}

(* The node is empty, or the drain has failed.                             *)
Drained(r) ==
    {r} \cup IF r.stage = "draining"
             THEN {[r EXCEPT !.stage = s] : s \in {"in-progress", "failed"}}
             ELSE {}

(* One pass can take a record through all of these, in this order,         *)
TakenUp(r) == UNION {Approved(x) : x \in Detected(r)}

Course(r) == UNION {Drained(x) : x \in TakenUp(r)}

(* and end with the verdict on the attempt.                                *)
Concluded(r, q) ==
    /\ r.stage = "in-progress" /\ q.stage \in {"succeeded", "failed"}
    /\ q.kind = r.kind
    /\ Len(q.tried) = Len(r.tried) + 1
    /\ \A i \in DOMAIN r.tried : /\ q.tried[i] = r.tried[i]
                                 /\ q.tried[i] # q.tried[Len(q.tried)]

Evolves(r, q) == \E x \in Course(r) : q = x \/ Concluded(x, q)

Init ==
    /\ record = [d \in Devices |-> None]
    /\ standing = Plans

(* A pass writes the records of all GPUs of its plan at once.              *)
Pass(p) ==
    /\ p \in standing
    /\ DOMAIN record' = Devices
    /\ \A d \in Devices : IF PlanOf[d] = p THEN Evolves(record[d], record'[d])
                                           ELSE record'[d] = record[d]
    /\ UNCHANGED standing

(* A plan goes, and its records with it.                                   *)
Delete(p) ==
    /\ p \in standing
    /\ record' = [d \in Devices |-> IF PlanOf[d] = p THEN None ELSE record[d]]
    /\ standing' = standing \ {p}

Next == \E p \in Plans : Pass(p) \/ Delete(p)

Spec == Init /\ [][Next]_lifeVars
=============================================================================
