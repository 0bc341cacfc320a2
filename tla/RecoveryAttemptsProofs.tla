----------------------- MODULE RecoveryAttemptsProofs -----------------------
(***************************************************************************)
(* No event is attempted more often than it was approved: how the attempts *)
(* on record are paid for by the approvals that were given.                *)
(***************************************************************************)
EXTENDS RecoveryPlanProofs, FiniteSetTheorems

(* An approval that names an event is not persistent, names no other, and  *)
(* comes before the selectors in spec.approvals.  Selectors may persist.   *)
OneShotInOrder ==
    /\ \A a \in Approvals : Grant[a].names # {} => ~Grant[a].persistent
    /\ \A a \in Approvals : \A x, y \in Grant[a].names : x = y
    /\ \A a, b \in Approvals : Grant[a].names # {} /\ Grant[b].names = {} => a < b

Waiting == {"waiting-approval", "blocked", "missing-firmware"}

(* The attempts of an event under its present ID. *)
Attempts(e) == {i \in DOMAIN e.pastJobs : e.pastJobs[i][2] = e.idType}

(* The approvals that name it, *)
Naming(d, idType) ==
    {a \in Approvals : Grant[a].plan = PlanOf[d] /\ <<d, idType>> \in Grant[a].names}

(* those of them that are used up, where a pass is about to consume S,     *)
SpentOn(approvals, S, d, idType) ==
    {a \in Naming(d, idType) : approvals[a] \in {"consumed", "gone"} \/ a \in S}

(* and whether a selector covers it. *)
Selected(approvals, d, e) ==
    \E b \in Approvals : /\ approvals[b] # "unused" /\ Grant[b].names = {}
                         /\ Approves(b, d, e.idType, e.type)

(* At most one of k attempts was not paid for by an approval that names    *)
(* the event; a selector paid for that one.                                *)
Within(k, approvals, S, d, e) ==
    LET n == Cardinality(SpentOn(approvals, S, d, e.idType))
    IN k <= n \/ (k = n + 1 /\ Selected(approvals, d, e))

(* The attempt that is on counts; and an event that waits for the next has *)
(* spent no selector on the ones before, unless an approval that names it  *)
(* is there for the next.                                                  *)
Accounted(approvals, S, d, e) ==
    LET k == Cardinality(Attempts(e))
    IN /\ Within(k, approvals, S, d, e)
       /\ e.state \in Active => Within(k + 1, approvals, S, d, e)
       /\ e.state \in Waiting =>
            \/ k <= Cardinality(SpentOn(approvals, S, d, e.idType))
            \/ \E a \in Naming(d, e.idType) \ S : approvals[a] = "active"

(* The sets that are counted are finite. *)
LEMMA CountsAreFinite ==
  ASSUME NEW d \in Devices, NEW e \in Event, NEW approvals, NEW S
  PROVE  /\ IsFiniteSet(Attempts(e)) /\ Cardinality(Attempts(e)) \in Nat
         /\ IsFiniteSet(SpentOn(approvals, S, d, e.idType))
         /\ Cardinality(SpentOn(approvals, S, d, e.idType)) \in Nat
  <1>1. /\ DOMAIN e.pastJobs = 1..Len(e.pastJobs) /\ Len(e.pastJobs) \in Nat
    BY DEF Event
  <1>2. IsFiniteSet(1..Len(e.pastJobs))
    BY <1>1, FS_Interval
  <1>3. Attempts(e) \subseteq 1..Len(e.pastJobs)
    BY <1>1 DEF Attempts
  <1>4. SpentOn(approvals, S, d, e.idType) \subseteq Approvals
    BY DEF SpentOn, Naming
  <1> QED
    BY <1>2, <1>3, <1>4, FS_Subset, FS_CardinalityType, ConstantsAssumption

(* An event without attempts that has not started is accounted for. *)
LEMMA NoAttempts ==
  ASSUME NEW d \in Devices, NEW e \in Event, NEW approvals, NEW S,
         Attempts(e) = {}, e.state \notin Active
  PROVE  Accounted(approvals, S, d, e)
  <1>1. Cardinality(Attempts(e)) = 0
    BY FS_EmptySet
  <1>2. Cardinality(SpentOn(approvals, S, d, e.idType)) \in Nat
    BY CountsAreFinite
  <1> QED
    BY <1>1, <1>2 DEF Accounted, Within

(* So is a GPU without an event. *)
LEMMA NoEventAccounted ==
  ASSUME NEW d \in Devices, NEW approvals, NEW S PROVE Accounted(approvals, S, d, NoEvent)
  <1>1. NoEvent.pastJobs = <<>> /\ NoEvent.state = "none" /\ NoEvent \in Event
    BY NoEventFields, NoEventType
  <1> HIDE DEF NoEvent
  <1>2. Attempts(NoEvent) = {}
    BY <1>1 DEF Attempts
  <1>3. NoEvent.state \notin Active
    BY <1>1 DEF Active
  <1> QED
    BY <1>1, <1>2, <1>3, NoAttempts

(* The counts say whether an event is accounted for. *)
LEMMA AccountedBy ==
  ASSUME NEW d, NEW f, NEW approvals, NEW S, NEW k, NEW n,
         k = Cardinality(Attempts(f)), n = Cardinality(SpentOn(approvals, S, d, f.idType)),
         k <= n \/ (k = n + 1 /\ Selected(approvals, d, f)),
         f.state \in Active => k + 1 <= n \/ (k + 1 = n + 1 /\ Selected(approvals, d, f)),
         f.state \in Waiting =>
           k <= n \/ \E a \in Naming(d, f.idType) \ S : approvals[a] = "active"
  PROVE  Accounted(approvals, S, d, f)
  BY DEF Accounted, Within

(* Approvals, of which a pass is about to consume S, become others, of     *)
(* which it is about to consume T: none is taken back, and those that name *)
(* the event and are used up remain so.                                    *)
GoOn(approvals, S, after, T, d, idType) ==
    /\ \A a \in Approvals : approvals[a] # "unused" => after[a] # "unused"
    /\ \A a \in Naming(d, idType) :
         /\ approvals[a] \in {"consumed", "gone"} \/ a \in S
            => after[a] \in {"consumed", "gone"} \/ a \in T
         /\ approvals[a] = "active" /\ a \notin S
            => after[a] \in {"active", "consumed", "gone"}

(* Approvals that go from given to used up leave an event accounted for.   *)
LEMMA AccountedStays ==
  ASSUME NEW d \in Devices, NEW e \in Event, NEW f \in Event,
         NEW approvals, NEW S, NEW after, NEW T,
         Accounted(approvals, S, d, e),
         f.idType = e.idType, Attempts(f) = Attempts(e), Priority(f.type) = Priority(e.type),
         f.state \in Active => e.state \in Active, f.state \in Waiting => e.state \in Waiting,
         GoOn(approvals, S, after, T, d, e.idType)
  PROVE  Accounted(after, T, d, f)
  <1> DEFINE k == Cardinality(Attempts(e))
             P == SpentOn(approvals, S, d, e.idType)
             Q == SpentOn(after, T, d, e.idType)
             m == Cardinality(P)
             n == Cardinality(Q)
  <1>1. /\ k \in Nat /\ m \in Nat /\ n \in Nat /\ IsFiniteSet(P) /\ IsFiniteSet(Q)
        /\ P \subseteq Q
    <2>1. k \in Nat /\ m \in Nat /\ n \in Nat /\ IsFiniteSet(P) /\ IsFiniteSet(Q)
      BY CountsAreFinite
    <2>2. P \subseteq Q
      BY DEF SpentOn, GoOn
    <2> QED
      BY <2>1, <2>2
  <1>2. m <= n
    BY <1>1, FS_Subset
  <1>3. Selected(approvals, d, e) => Selected(after, d, f)
    BY DEF Selected, Approves, GoOn
  <1>4. ASSUME NEW a \in Naming(d, e.idType) \ S, approvals[a] = "active"
        PROVE  m + 1 <= n \/ \E b \in Naming(d, f.idType) \ T : after[b] = "active"
    <2>1. CASE a \notin T /\ after[a] = "active"
      BY <2>1
    <2>2. CASE a \in T \/ after[a] # "active"
      <3>1. a \in Q /\ a \notin P
        BY <1>4, <2>2 DEF SpentOn, GoOn
      <3>2. P \cup {a} \subseteq Q /\ Cardinality(P \cup {a}) = m + 1
        BY <1>1, <3>1, FS_AddElement, Zenon
      <3> HIDE DEF P, Q
      <3>3. Cardinality(P \cup {a}) <= n
        BY <1>1, <3>2, FS_Subset
      <3> QED
        BY <3>2, <3>3
    <2> QED
      BY <2>1, <2>2
  <1>5. /\ k <= m \/ (k = m + 1 /\ Selected(approvals, d, e))
        /\ e.state \in Active => k + 1 <= m \/ (k + 1 = m + 1 /\ Selected(approvals, d, e))
        /\ e.state \in Waiting =>
             \/ k <= m
             \/ \E a \in Naming(d, e.idType) \ S : approvals[a] = "active"
    BY DEF Accounted, Within
  <1> HIDE DEF k, P, Q, m, n
  <1>6. /\ k <= n \/ (k = n + 1 /\ Selected(after, d, f))
        /\ f.state \in Active => k + 1 <= n \/ (k + 1 = n + 1 /\ Selected(after, d, f))
    BY <1>1, <1>2, <1>3, <1>5
  <1>7. f.state \in Waiting =>
             \/ k <= n
             \/ \E a \in Naming(d, f.idType) \ T : after[a] = "active"
    <2>1. CASE k <= m
      BY <1>1, <1>2, <2>1
    <2>2. ASSUME NEW a \in Naming(d, e.idType) \ S, approvals[a] = "active"
          PROVE  k <= n \/ \E b \in Naming(d, f.idType) \ T : after[b] = "active"
      <3>1. CASE m + 1 <= n
        <4>1. k <= m + 1
          BY <1>1, <1>5
        <4> QED
          BY <1>1, <3>1, <4>1
      <3> QED
        BY <1>4, <2>2, <3>1
    <2> QED
      BY <1>5, <2>1, <2>2
  <1> QED
    BY <1>6, <1>7, AccountedBy DEF k, n, Q

(* The approvals a pass will mark consumed are its plan's, and were active *)
(* as it read them; of those that name an event, the loop is past that     *)
(* event, and has not left it blocked.                                     *)
Charged ==
    /\ \A a \in used : Grant[a].plan = cur /\ snap.approvals[a] = "active"
    /\ pc \in {"idle", "detect", "openshift"} => used = {} /\ kept = {}
    /\ pc = "approve" =>
         /\ \A a \in used \cup kept : \A x \in Grant[a].names : x[1] \notin todo
         /\ \A a \in used \cap kept : Grant[a].names = {}

(* Approval a is the first for the event of d: it names it, or is a        *)
(* selector for it and no active approval names it.                        *)
LEMMA AuthorisedBy ==
  ASSUME OneShotInOrder, NEW a \in Approvals, NEW d \in Devices, Authorises(a, d)
  PROVE  /\ Grant[a].plan = cur /\ snap.approvals[a] = "active"
         /\ \/ <<d, events[d].idType>> \in Grant[a].names
            \/ /\ Grant[a].names = {} /\ ExplicitApprovals(d, events[d]) = {}
               /\ Approves(a, d, events[d].idType, events[d].type)
  <1>1. CASE a \in ExplicitApprovals(d, events[d])
    BY <1>1 DEF ExplicitApprovals, Unconsumed
  <1>2. CASE a \notin ExplicitApprovals(d, events[d])
    <2>1. IsFirst(a, MatchingApprovals(d, events[d]))
      BY <1>2 DEF Authorises, IsFirst
    <2>2. /\ Unconsumed(a) /\ events[d].type \in Grant[a].types /\ NodeOf[d] \in Grant[a].nodes
      BY <1>2, <2>1 DEF IsFirst, MatchingApprovals, ExplicitApprovals
    <2>3. Grant[a].names = {}
      BY <2>2, ConstantsAssumption
    <2>4. ASSUME NEW b \in ExplicitApprovals(d, events[d]) PROVE FALSE
      <3>1. b \in MatchingApprovals(d, events[d]) /\ Grant[b].names # {} /\ b \in Approvals
        BY <2>4 DEF ExplicitApprovals, MatchingApprovals
      <3>2. b < a /\ a <= b
        BY <2>1, <2>3, <3>1 DEF IsFirst, OneShotInOrder
      <3>3. a \in Nat /\ b \in Nat
        BY <3>1, ConstantsAssumption
      <3> QED
        BY <3>2, <3>3
    <2> QED
      BY <2>2, <2>3, <2>4 DEF Unconsumed, Approves
  <1> QED
    BY <1>1, <1>2

(* processApprovals finds approval a for the event of d: it starts a       *)
(* recovery and has the approval consumed, unless that is a persistent     *)
(* selector, or it does neither.                                           *)
Charges(d, a) ==
    /\ Authorises(a, d) /\ Answers(d, a)
    /\ \/ used' = used /\ kept' \subseteq kept \cup {a} /\ events'[d].state \in Waiting
       \/ /\ kept' = kept /\ events'[d].state \in Active
          /\ used' = used \cup {a} \/ (used' = used /\ Grant[a].names = {})

(* Those are the cases. *)
LEMMA ChargeMoves ==
  ASSUME OneShotInOrder, TypeOK, PassStep, NEW v \in Devices, Visiting(v)
  PROVE  \E d \in Devices :
            /\ Visiting(d) /\ \A o \in Devices \ {d} : events'[o] = events[o]
            /\ \/ UNCHANGED <<events, used, kept>>
               \/ \E a \in Approvals : Charges(d, a)
  <1>0. pc = "approve" /\ events \in [Devices -> Event]
    BY DEF Visiting, TypeOK
  <1>1. ASSUME NEW d \in Devices, NotApproved(d)
        PROVE  Visiting(d) /\ UNCHANGED <<events, used, kept>>
    BY <1>1 DEF NotApproved
  <1>2. ASSUME NEW d \in Devices, NEW a \in Approvals,
               \/ BlockEvent(d, a) \/ HoldForImageFix(d, a) \/ BeginDrain(d, a)
               \/ CreateRecoveryJob(d, a) \/ CreateRecoveryJobFails(d, a)
               \/ ParkForFirmware(d, a)
        PROVE  Visiting(d) /\ Charges(d, a) /\ \A o \in Devices \ {d} : events'[o] = events[o]
    <2> DEFINE m == Matched(events[d], a)
               w == Verified(events[d], a)
    <2>1. Answers(d, a) /\ \A o \in Devices \ {d} : events'[o] = events[o]
      BY <1>2, AnswerMoves
    <2>2. Visiting(d) /\ Authorises(a, d)
      BY <1>2, Zenon DEF BlockEvent, HoldForImageFix, BeginDrain, CreateRecoveryJob,
         CreateRecoveryJobFails, ParkForFirmware, Starting
    <2>3. m \in Event /\ w \in Event /\ m.state \in Waiting /\ w.state \in Waiting
      <3>1. /\ m \in Event /\ m.state \in {"waiting-approval", "blocked", "missing-firmware"}
            /\ w \in Event /\ w.state = m.state
        BY <2>2, MatchedFields
      <3> QED
        BY <3>1 DEF Waiting
    <2>4. \A x, s : x \in Event => [x EXCEPT !.state = s].state = s
      BY DEF Event
    <2> HIDE DEF m, w
    <2>5. CASE BeginDrain(d, a) \/ CreateRecoveryJob(d, a)
      <3>1. PICK s \in Active : events' = [events EXCEPT ![d] = [w EXCEPT !.state = s]]
        BY <2>5, Zenon DEF BeginDrain, CreateRecoveryJob, Active, w
      <3>2. events'[d].state \in Active
        BY <1>0, <2>3, <2>4, <3>1
      <3>3. /\ kept' = kept
            /\ used' = used \cup {a} \/ (used' = used /\ Grant[a].persistent)
        BY <2>5, Zenon DEF BeginDrain, CreateRecoveryJob, Consuming
      <3>4. Grant[a].persistent => Grant[a].names = {}
        BY DEF OneShotInOrder
      <3> QED
        BY <2>1, <2>2, <3>2, <3>3, <3>4 DEF Charges
    <2>6. CASE BlockEvent(d, a)
      <3>1. events' = [events EXCEPT ![d] = [m EXCEPT !.state = "blocked"]]
        BY <2>6, Zenon DEF BlockEvent, m
      <3>2. events'[d].state \in Waiting
        BY <1>0, <2>3, <2>4, <3>1 DEF Waiting
      <3>3. used' = used /\ kept' \subseteq kept \cup {a}
        BY <2>6 DEF BlockEvent
      <3> QED
        BY <2>1, <2>2, <3>2, <3>3 DEF Charges
    <2>7. CASE ParkForFirmware(d, a) \/ CreateRecoveryJobFails(d, a)
      <3>1. \/ events' = [events EXCEPT ![d] = w]
            \/ events' = [events EXCEPT ![d] = [w EXCEPT !.state = "missing-firmware"]]
        BY <2>7, Zenon DEF ParkForFirmware, CreateRecoveryJobFails, w
      <3>2. events'[d].state \in Waiting
        <4>1. CASE events' = [events EXCEPT ![d] = w]
          BY <1>0, <2>3, <4>1
        <4>2. CASE events' = [events EXCEPT ![d] = [w EXCEPT !.state = "missing-firmware"]]
          BY <1>0, <2>3, <2>4, <4>2 DEF Waiting
        <4> QED
          BY <3>1, <4>1, <4>2
      <3>3. used' = used /\ kept' = kept
        BY <2>7 DEF ParkForFirmware, CreateRecoveryJobFails
      <3> QED
        BY <2>1, <2>2, <3>2, <3>3 DEF Charges
    <2>8. CASE HoldForImageFix(d, a)
      <3>1. \/ events' = [events EXCEPT ![d] = m]
            \/ events' = [events EXCEPT ![d] = [m EXCEPT !.state = "waiting-approval",
                                                        !.heldAt = snap.generation[cur]]]
        BY <2>8 DEF HoldForImageFix, m
      <3>2. [m EXCEPT !.state = "waiting-approval",
                      !.heldAt = snap.generation[cur]].state = "waiting-approval"
        BY <2>3 DEF Event
      <3>3. events'[d].state \in Waiting
        BY <1>0, <2>3, <3>1, <3>2, Zenon DEF Waiting
      <3>4. used' = used /\ kept' = kept
        BY <2>8 DEF HoldForImageFix
      <3> QED
        BY <2>1, <2>2, <3>3, <3>4 DEF Charges
    <2> QED
      BY <1>2, <2>1, <2>2, <2>5, <2>6, <2>7, <2>8
  <1>3. ASSUME NEW d \in Devices, DrainWaits(d) \/ DrainFails(d) \/ DrainCompletes(d) PROVE FALSE
    BY <1>0, <1>3 DEF DrainWaits, DrainFails, DrainCompletes, Draining
  <1>4. CASE \/ SyncRecoveryEventsFromSlices \/ ListingSlicesFails \/ EnsureOpenShiftResources
             \/ SetApprovalsConsumed \/ EndDrains \/ SyncJobStatuses
             \/ ReconcileDrainTaints \/ PersistStatus \/ PersistApprovals
    <2>1. ~SetApprovalsConsumed
      BY DEF Visiting, Visits, SetApprovalsConsumed
    <2> QED
      BY <1>0, <1>4, <2>1 DEF SyncRecoveryEventsFromSlices, ListingSlicesFails,
         EnsureOpenShiftResources, EndDrains, SyncJobStatuses, ReconcileDrainTaints,
         PersistStatus, PersistApprovals
  <1> QED
    BY <1>1, <1>2, <1>3, <1>4 DEF PassStep

(* Every step keeps the charges so. *)
LEMMA ChargedStep ==
  ASSUME OneShotInOrder, RecoveryInv, Charged, [Next]_vars PROVE Charged'
  <1>0. TypeOK
    BY DEF RecoveryInv
  <1>1. CASE PassIdles
    BY <1>1 DEF PassIdles, Charged
  <1>2. ASSUME NEW p \in Plans, Reconcile(p) PROVE Charged'
    BY <1>2 DEF Reconcile, loopVars, Charged
  <1>3. CASE EndPass
    BY <1>3 DEF EndPass, Charged
  <1>4. CASE PassGoesOn
    <2>0. pc' # "idle" /\ pc' # "detect" /\ PassStep /\ snap' = snap /\ cur' = cur
      BY <1>4 DEF PassGoesOn
    <2>1. CASE /\ pc \in {"detect", "openshift"}
               /\ pc' \in {"openshift", "approve", "status"} /\ UNCHANGED <<used, kept>>
      BY <2>0, <2>1 DEF Charged
    <2>2. ASSUME NEW d \in Devices, NEW a \in Approvals, Visiting(d), Charges(d, a)
          PROVE  Charged'
      <3>1. /\ Grant[a].plan = cur /\ snap.approvals[a] = "active"
            /\ Grant[a].names = {} \/ <<d, events[d].idType>> \in Grant[a].names
        BY <2>2, AuthorisedBy DEF Charges
      <3>2. pc = "approve" /\ pc' = "approve" /\ d \in todo /\ todo' = todo \ {d}
        BY <2>2 DEF Visiting, Visits
      <3>3. \A x \in Grant[a].names : x[1] = d
        <4>1. \A x \in Grant[a].names : x = <<d, events[d].idType>>
          BY <3>1 DEF OneShotInOrder
        <4> QED
          BY <4>1
      <3>4. Grant[a].names # {} => a \notin used \cup kept
        BY <3>1, <3>2 DEF Charged
      <3>5. used' \cup kept' \subseteq used \cup kept \cup {a} /\ used' \subseteq used \cup {a}
        BY <2>2 DEF Charges
      <3>6. \A b \in used' \cup kept' : \A x \in Grant[b].names : x[1] \notin todo'
        BY <3>2, <3>3, <3>5 DEF Charged
      <3>7. \A b \in used' \cap kept' : Grant[b].names = {}
        BY <2>2, <3>2, <3>4 DEF Charged, Charges
      <3> QED
        BY <2>0, <3>1, <3>2, <3>5, <3>6, <3>7 DEF Charged
    <2>3. ASSUME NEW d \in Devices, Visiting(d), UNCHANGED <<events, used, kept>>
          PROVE  Charged'
      BY <2>0, <2>3 DEF Visiting, Charged
    <2>4. CASE pc = "approve" /\ pc' = "drain" /\ used' = used \ kept
      BY <2>0, <2>4 DEF Charged
    <2>5. CASE /\ pc \in {"drain", "sync", "finish", "status"}
               /\ pc' \in {"drain", "sync", "finish", "status", "spec"} /\ UNCHANGED used
      BY <2>0, <2>5 DEF Charged
    <2>6. ASSUME NEW v \in Devices, Visiting(v) PROVE Charged'
      BY <1>0, <2>0, <2>2, <2>3, <2>6, ChargeMoves
    <2> QED
      BY <2>0, <2>1, <2>4, <2>5, <2>6, PassContinues DEF Continues
  <1> QED
    BY <1>1, <1>2, <1>3, <1>4, PassMoves

(* Counting in processApprovals: an attempt that consumes an approval      *)
(* naming the event                                                        *)
LEMMA OneMoreSpent ==
  ASSUME NEW k \in Nat, NEW m \in Nat, NEW n, n = m + 1
  PROVE  /\ k <= m => k <= n /\ k + 1 <= n
         /\ k = m + 1 => k <= n /\ k + 1 = n + 1
  OBVIOUS

(* and one that runs on a selector.                                        *)
LEMMA OneMoreSelected ==
  ASSUME NEW k \in Nat, NEW n \in Nat, k <= n
  PROVE  k + 1 <= n \/ k + 1 = n + 1
  OBVIOUS

(* The event that processApprovals visits stays accounted for. *)
LEMMA ChargeAccounted ==
  ASSUME OneShotInOrder, TypeOK, TypeOK', Charged,
         NEW d \in Devices, PlanOf[d] = cur, Visiting(d), NEW a \in Approvals, Charges(d, a),
         Accounted(snap.approvals, used, d, events[d])
  PROVE  Accounted(snap.approvals, used', d, events'[d])
  <1> DEFINE e == events[d]
             f == events'[d]
             P == SpentOn(snap.approvals, used, d, e.idType)
             Q == SpentOn(snap.approvals, used', d, e.idType)
             k == Cardinality(Attempts(e))
             m == Cardinality(P)
             n == Cardinality(Q)
  <1>1. /\ e \in Event /\ f \in Event /\ f.idType = e.idType /\ f.pastJobs = e.pastJobs
        /\ Priority(f.type) = Priority(e.type) /\ pc = "approve" /\ d \in todo
    BY DEF TypeOK, Charges, Answers, SameRecovery
  <1>2. Attempts(f) = Attempts(e)
    BY <1>1 DEF Attempts
  <1>3. k \in Nat /\ m \in Nat /\ n \in Nat /\ IsFiniteSet(P)
    BY <1>1, CountsAreFinite
  <1>4. Selected(snap.approvals, d, e) => Selected(snap.approvals, d, f)
    BY <1>1 DEF Selected, Approves
  <1>5. /\ k <= m \/ (k = m + 1 /\ Selected(snap.approvals, d, e))
        /\ e.state \in Waiting =>
             k <= m \/ \E b \in Naming(d, e.idType) \ used : snap.approvals[b] = "active"
    BY Zenon DEF Accounted, Within
  <1>6. ASSUME <<d, e.idType>> \in Grant[a].names
        PROVE  /\ a \in Naming(d, e.idType) /\ a \notin used
               /\ snap.approvals[a] = "active"
    <2>1. Grant[a].plan = cur /\ snap.approvals[a] = "active"
      BY AuthorisedBy, Zenon DEF Charges
    <2>2. a \in Naming(d, e.idType)
      BY <1>6, <2>1 DEF Naming
    <2>3. <<d, e.idType>>[1] \in todo
      BY <1>1
    <2>4. a \notin used
      BY <1>1, <1>6, <2>3 DEF Charged
    <2> QED
      BY <2>1, <2>2, <2>4
  <1>7. ASSUME used' = used, f.state \in Waiting, <<d, e.idType>> \in Grant[a].names
        PROVE  Accounted(snap.approvals, used', d, f)
    <2>1. f.state \notin Active
      BY <1>7 DEF Waiting, Active
    <2>2. P = Q /\ m = n
      BY <1>7
    <2>3. \E b \in Naming(d, f.idType) \ used' : snap.approvals[b] = "active"
      BY <1>1, <1>6, <1>7
    <2>4. k = Cardinality(Attempts(f)) /\ n = Cardinality(SpentOn(snap.approvals, used', d, f.idType))
      BY <1>1, <1>2
    <2> HIDE DEF e, f, P, Q, k, m, n
    <2> QED
      BY <1>4, <1>5, <2>1, <2>2, <2>3, <2>4, AccountedBy
  <1>8. ASSUME Grant[a].names = {}, ExplicitApprovals(d, e) = {}
        PROVE  e.state \in Waiting /\ \A b \in Naming(d, e.idType) : snap.approvals[b] # "active"
    <2>1. e.state \in Waiting
      BY <1>8, Zenon DEF Charges, Authorises, Startable, Waiting
    <2>2. \A b \in Naming(d, e.idType) : snap.approvals[b] # "active"
      BY <1>8 DEF Naming, ExplicitApprovals, Unconsumed
    <2> QED
      BY <2>1, <2>2
  <1>9. ASSUME used' = used, f.state \in Waiting, e.state \in Waiting
        PROVE  Accounted(snap.approvals, used', d, f)
    <2>1. f.state \notin Active
      BY <1>9 DEF Waiting, Active
    <2>2. GoOn(snap.approvals, used, snap.approvals, used', d, e.idType)
      BY <1>9 DEF GoOn
    <2>3. Accounted(snap.approvals, used, d, e)
      OBVIOUS
    <2> HIDE DEF e, f
    <2> QED
      BY <1>1, <1>2, <1>9, <2>1, <2>2, <2>3, AccountedStays
  <1>10. ASSUME used' = used \cup {a}, f.state \in Active, <<d, e.idType>> \in Grant[a].names
         PROVE  Accounted(snap.approvals, used', d, f)
    <2>1. f.state \notin Waiting
      BY <1>10 DEF Waiting, Active
    <2>2. Q = P \cup {a} /\ a \notin P
      BY <1>6, <1>10 DEF SpentOn
    <2>3. n = m + 1
      BY <1>3, <2>2, FS_AddElement, Zenon
    <2>4. k = Cardinality(Attempts(f)) /\ n = Cardinality(SpentOn(snap.approvals, used', d, f.idType))
      BY <1>1, <1>2
    <2> HIDE DEF e, f, P, Q, k, m, n
    <2>5. /\ k <= n \/ (k = n + 1 /\ Selected(snap.approvals, d, f))
          /\ k + 1 <= n \/ (k + 1 = n + 1 /\ Selected(snap.approvals, d, f))
      <3>0. k \in Nat /\ m \in Nat
        BY <1>3, Zenon
      <3>1. CASE k <= m
        BY <2>3, <3>0, <3>1, OneMoreSpent, Zenon
      <3>2. CASE k = m + 1 /\ Selected(snap.approvals, d, e)
        BY <1>4, <2>3, <3>0, <3>2, OneMoreSpent, Zenon
      <3> QED
        BY <1>5, <3>1, <3>2
    <2> QED
      BY <2>1, <2>4, <2>5, AccountedBy
  <1>11. ASSUME used' \in {used, used \cup {a}}, f.state \in Active, Grant[a].names = {},
                ExplicitApprovals(d, e) = {}, Approves(a, d, e.idType, e.type)
         PROVE  Accounted(snap.approvals, used', d, f)
    <2>1. f.state \notin Waiting
      BY <1>11 DEF Waiting, Active
    <2>2. Q = P
      BY <1>11 DEF SpentOn, Naming
    <2>3. Selected(snap.approvals, d, f)
      <3>1. snap.approvals[a] # "unused"
        BY AuthorisedBy, Zenon DEF Charges
      <3> QED
        BY <1>4, <1>11, <3>1 DEF Selected
    <2>4. k <= m
      BY <1>5, <1>8, <1>11, Zenon
    <2>5. m = n
      BY <2>2, Zenon
    <2>6. k = Cardinality(Attempts(f)) /\ n = Cardinality(SpentOn(snap.approvals, used', d, f.idType))
      BY <1>1, <1>2
    <2> HIDE DEF e, f, P, Q, k, m, n
    <2>7. k <= n /\ (k + 1 <= n \/ k + 1 = n + 1)
      BY <1>3, <2>4, <2>5, OneMoreSelected, Zenon
    <2> QED
      BY <2>1, <2>3, <2>6, <2>7, AccountedBy
  <1>12. \/ used' = used /\ f.state \in Waiting
         \/ used' = used \cup {a} /\ f.state \in Active
         \/ used' = used /\ f.state \in Active /\ Grant[a].names = {}
    BY Zenon DEF Charges
  <1>13. CASE <<d, e.idType>> \in Grant[a].names
    BY <1>7, <1>10, <1>12, <1>13, Zenon
  <1>14. CASE /\ Grant[a].names = {} /\ ExplicitApprovals(d, e) = {}
              /\ Approves(a, d, e.idType, e.type)
    BY <1>8, <1>9, <1>11, <1>12, <1>14
  <1> QED
    BY <1>13, <1>14, AuthorisedBy DEF Charges

(* A reset event has no reflash among its past Jobs. *)
ResetsOnly(e) == e.idType # "reflash" => \A n \in PastJobs(e) : n[2] # "reflash"

(* An event that turns to a reflash never turns back. *)
LEMMA ResetsOnlyStep ==
  ASSUME RecoveryInv, [Next]_vars, \A d \in Devices : ResetsOnly(status[d]) /\ ResetsOnly(events[d])
  PROVE  \A d \in Devices : ResetsOnly(status'[d]) /\ ResetsOnly(events'[d])
  <1>0. TypeOK /\ status \in [Devices -> Event] /\ events \in [Devices -> Event]
    BY DEF RecoveryInv, TypeOK
  <1>1. ResetsOnly(NoEvent)
    BY NoEventFields DEF ResetsOnly
  <1>2. ASSUME NEW d \in Devices, Moves(d) PROVE ResetsOnly(events'[d])
    <2>1. CASE Clears(d)
      BY <1>1, <2>1 DEF Clears
    <2>2. CASE Appears(d)
      BY <2>2, NoPastInOrder DEF Appears, ResetsOnly
    <2>3. CASE Escalates(d)
      BY <2>3 DEF Escalates, ResetsOnly
    <2>4. CASE SameRecovery(d)
      BY <2>4 DEF SameRecovery, ResetsOnly, PastJobs
    <2>5. ASSUME NEW s \in {"succeeded", "failed"}, events'[d] = Verdict(d, events[d], s)
          PROVE  ResetsOnly(events'[d])
      <3> DEFINE e == events[d]
                 name == RecoveryJobName(d, e)
                 v == Verdict(d, e, s)
      <3>0. e \in Event
        BY <1>0
      <3> HIDE DEF e
      <3>1. v.idType = e.idType
        BY <3>0 DEF Verdict, Event
      <3>2. PastJobs(v) = PastJobs(e) \cup {name}
        BY <3>0, VerdictFiles
      <3>3. name[2] = e.idType
        BY DEF RecoveryJobName
      <3>4. ResetsOnly(e) /\ events'[d] = v
        BY <2>5 DEF e
      <3> HIDE DEF v, name
      <3> QED
        BY <3>1, <3>2, <3>3, <3>4 DEF ResetsOnly
    <2> QED
      BY <1>2, <2>1, <2>2, <2>3, <2>4, <2>5, Zenon DEF Moves, Stays, Answers, Progresses, IsJudged
  <1>3. \A d \in Devices : ResetsOnly(events'[d])
    BY <1>1, <1>2, EventOrigin
  <1>4. \A d \in Devices : ResetsOnly(status'[d])
    BY <1>0, <1>1, StatusOrigin
  <1> QED
    BY <1>3, <1>4

(* applyJobVerdict turns the attempt that is on into one on record. *)
LEMMA JudgedAccounted ==
  ASSUME NEW d \in Devices, NEW e \in Event, e.state = "in-progress", NEW approvals, NEW S,
         NEW s \in {"succeeded", "failed"}, Verdict(d, e, s) \in Event,
         Accounted(approvals, S, d, e)
  PROVE  Accounted(approvals, S, d, Verdict(d, e, s))
  <1> DEFINE v == Verdict(d, e, s)
             i == Len(e.pastJobs) + 1
             n == Cardinality(SpentOn(approvals, S, d, e.idType))
             k == Cardinality(Attempts(e))
  <1>1. /\ v.state = s /\ v.idType = e.idType /\ v.type = e.type
        /\ v.pastJobs = Append(e.pastJobs, RecoveryJobName(d, e))
    BY DEF Verdict, Event
  <1>2. /\ e.pastJobs \in Seq(JobNames) /\ RecoveryJobName(d, e) \in JobNames
        /\ RecoveryJobName(d, e)[2] = e.idType
    <2>1. e.pastJobs \in Seq(JobNames) /\ RecoveryJobName(d, e) \in JobNames
      BY RecoveryJobNameType, Zenon DEF Event
    <2>2. RecoveryJobName(d, e)[2] = e.idType
      BY DEF RecoveryJobName
    <2> QED
      BY <2>1, <2>2, Zenon
  <1>3. IsFiniteSet(Attempts(e)) /\ k \in Nat /\ n \in Nat
    BY CountsAreFinite
  <1> HIDE DEF v
  <1>4. /\ DOMAIN e.pastJobs = 1..Len(e.pastJobs) /\ Len(e.pastJobs) \in Nat
        /\ DOMAIN v.pastJobs = 1..i
        /\ \A j \in 1..Len(e.pastJobs) : v.pastJobs[j] = e.pastJobs[j]
        /\ v.pastJobs[i] = RecoveryJobName(d, e)
    <2> DEFINE t == e.pastJobs
               name == RecoveryJobName(d, e)
    <2>1. t \in Seq(JobNames) /\ name \in JobNames /\ v.pastJobs = Append(t, name)
      BY <1>1, <1>2
    <2> HIDE DEF t, name
    <2>2. /\ DOMAIN t = 1..Len(t) /\ Len(t) \in Nat /\ DOMAIN Append(t, name) = 1..(Len(t) + 1)
          /\ \A j \in 1..Len(t) : Append(t, name)[j] = t[j]
          /\ Append(t, name)[Len(t) + 1] = name
      BY <2>1
    <2> QED
      BY <2>1, <2>2 DEF t, name
  <1>5. Attempts(v) = Attempts(e) \cup {i} /\ i \notin Attempts(e)
    <2>1. DOMAIN v.pastJobs = DOMAIN e.pastJobs \cup {i} /\ i \notin DOMAIN e.pastJobs
      <3>1. \A l \in Nat : 1..(l + 1) = 1..l \cup {l + 1} /\ l + 1 \notin 1..l
        OBVIOUS
      <3> QED
        BY <1>4, <3>1
    <2>2. v.pastJobs[i][2] = v.idType
      BY <1>1, <1>2, <1>4
    <2>3. \A j \in DOMAIN e.pastJobs : v.pastJobs[j][2] = e.pastJobs[j][2]
      BY <1>4
    <2> HIDE DEF i
    <2> QED
      BY <1>1, <2>1, <2>2, <2>3 DEF Attempts
  <1>6. Cardinality(Attempts(v)) = k + 1
    BY <1>3, <1>5, FS_AddElement, Zenon
  <1>7. k + 1 <= n \/ (k + 1 = n + 1 /\ Selected(approvals, d, e))
    BY DEF Accounted, Within, Active
  <1>8. Selected(approvals, d, e) => Selected(approvals, d, v)
    BY <1>1, Zenon DEF Selected
  <1>9. v.state \notin Active /\ v.state \notin Waiting
    BY <1>1 DEF Active, Waiting
  <1> QED
    BY <1>1, <1>3, <1>6, <1>7, <1>8, <1>9 DEF Accounted, Within, v

(* A move of an event other than an answer, with the approvals of the pass *)
(* as they are. *)
LEMMA MoveAccounted ==
  ASSUME TypeOK, TypeOK', NEW d \in Devices, Moves(d), pc # "approve",
         Kinds(events), ResetsOnly(events[d]),
         Accounted(snap.approvals, used, d, events[d])
  PROVE  Accounted(snap.approvals, used, d, events'[d])
  <1>1. /\ events[d] \in Event /\ events'[d] \in Event
        /\ snap.approvals \in [Approvals -> {"unused", "active", "consumed", "gone"}]
    BY DEF TypeOK, SpecType
  <1>2. CASE Stays(d) \/ Progresses(d)
    <2>1. /\ SameRecovery(d) /\ events'[d].type = events[d].type
          /\ events'[d].state \in Active => events[d].state \in Active
          /\ events'[d].state \in Waiting => events[d].state \in Waiting
      BY <1>2, Zenon DEF Stays, Progresses, Active, Waiting
    <2>2. events'[d].idType = events[d].idType /\ Attempts(events'[d]) = Attempts(events[d])
      BY <2>1 DEF SameRecovery, Attempts
    <2>3. GoOn(snap.approvals, used, snap.approvals, used, d, events[d].idType)
      BY DEF GoOn
    <2> QED
      BY <1>1, <2>1, <2>2, <2>3, AccountedStays, Zenon
  <1>3. CASE Clears(d) \/ Appears(d)
    <2>1. events'[d].pastJobs = <<>> /\ events'[d].state \in {"none", "waiting-approval"}
      BY <1>3, NoEventFields DEF Clears, Appears
    <2>2. Attempts(events'[d]) = {}
      <3>1. DOMAIN events'[d].pastJobs = {}
        BY <2>1
      <3> QED
        BY <3>1 DEF Attempts
    <2>3. events'[d].state \notin Active
      BY <2>1 DEF Active
    <2> QED
      BY <1>1, <2>2, <2>3, NoAttempts
  <1>4. CASE Escalates(d)
    <2>1. events[d].idType # "reflash"
      <3>1. Priority(events[d].idType) = 1
        BY <1>4 DEF Escalates, Kinds
      <3> QED
        BY <3>1 DEF Priority
    <2>2. \A i \in DOMAIN events[d].pastJobs : events[d].pastJobs[i][2] # "reflash"
      BY <2>1 DEF ResetsOnly, PastJobs
    <2>3. Attempts(events'[d]) = {} /\ events'[d].state \notin Active
      BY <1>4, <2>2 DEF Escalates, Attempts, Active
    <2> QED
      BY <1>1, <2>3, NoAttempts
  <1>5. CASE IsJudged(d)
    BY <1>1, <1>5, JudgedAccounted, Zenon DEF IsJudged
  <1>6. ASSUME NEW a \in Approvals, Answers(d, a) PROVE FALSE
    BY <1>6, Zenon DEF Answers
  <1> QED
    BY <1>2, <1>3, <1>4, <1>5, <1>6, Zenon DEF Moves

(* Every event on record is accounted for by the approvals as they stand,  *)
(* but for those of a pass that has written them and has yet to write its  *)
(* approvals; every event of the working copy by the approvals as the pass *)
(* read them, less those it will mark consumed.                            *)
Accounts ==
    /\ \A d \in Devices : ResetsOnly(status[d]) /\ ResetsOnly(events[d])
    /\ \A d \in Devices : \/ pc = "spec" /\ PlanOf[d] = cur /\ status[d] = events[d]
                          \/ Accounted(spec.approvals, {}, d, status[d])
    /\ pc # "idle" => \A d \in DevicesOf(cur) : Accounted(snap.approvals, used, d, events[d])
    /\ pc # "idle" => \A a \in Approvals : snap.approvals[a] \in {"consumed", "gone"}
                                           => spec.approvals[a] \in {"consumed", "gone"}

(* An approval goes from unused to active, consumed and gone. *)
LEMMA ApprovalsAge ==
  ASSUME TypeOK, [Next]_vars, NEW a \in Approvals
  PROVE  /\ spec.approvals[a] # "unused" => spec'.approvals[a] # "unused"
         /\ spec.approvals[a] \in {"consumed", "gone"} => spec'.approvals[a] \in {"consumed", "gone"}
  <1>1. spec.approvals \in [Approvals -> {"unused", "active", "consumed", "gone"}]
    BY DEF TypeOK, SpecType
  <1>2. ASSUME NEW b \in Approvals, NEW to \in {"active", "gone"},
               spec'.approvals = [spec.approvals EXCEPT ![b] = to],
               to = "active" => spec.approvals[b] = "unused",
               spec.approvals[a] \in {"consumed", "gone"}
        PROVE  spec'.approvals[a] \in {"consumed", "gone"}
    BY <1>1, <1>2
  <1>3. spec.approvals[a] \in {"consumed", "gone"} => Apply(spec.approvals)[a] \in {"consumed", "gone"}
    BY <1>1 DEF Apply
  <1> QED
    BY <1>2, <1>3, ApprovalsMove, GivenStays, Zenon

(* The last step of a pass writes the approvals, if it does not fail. *)
LEMMA ApprovalsWritten ==
  ASSUME {"spec", "crash"} \cap MayFail = {}, TypeOK, [Next]_vars, pc = "spec", pc' = "idle"
  PROVE  spec'.approvals = Apply(spec.approvals) /\ UNCHANGED status
  <1>1. CASE PersistApprovals
    <2> DEFINE s == [spec EXCEPT !.approvals = Apply(spec.approvals)]
    <2>1. /\ UNCHANGED status
          /\ \/ spec' = spec /\ Apply(spec.approvals) = spec.approvals
             \/ spec' = Bumped(s, cur)
      BY <1>1 DEF PersistApprovals, Refused
    <2>2. s \in [approvals : {Apply(spec.approvals)}, firmware : {spec.firmware},
                 drain : {spec.drain}, generation : {spec.generation}]
      BY DEF TypeOK, SpecType
    <2>3. Bumped(s, cur) = [s EXCEPT !.generation = [s.generation EXCEPT ![cur] = @ + 1]]
      BY Zenon DEF Bumped
    <2> HIDE DEF s
    <2>4. Bumped(s, cur).approvals = Apply(spec.approvals)
      BY <2>2, <2>3
    <2> QED
      BY <2>1, <2>4
  <1>2. CASE AdminStep \/ ClusterStep \/ UNCHANGED vars
    BY <1>2, Zenon
    DEF AdminStep, AddApproval, RemoveApproval, SetApproval, EditFirmware, EditDrain, DeletePlan,
        DeleteJob, ClusterStep, TaintDevice, UntaintDevice, Expire, ReleaseClaim, JobEnds,
        JobOverdue, GarbageCollect, ScheduleWorkload, WorkloadEnds, vars, passVars
  <1>3. CASE Crash \/ \E p \in Plans : BeginPass(p)
    BY <1>3 DEF Crash, Refused, BeginPass, Reconcile, AddFinalizer, FinalizeDeletion
  <1>4. ASSUME NEW d \in Devices PROVE ~Visiting(d) /\ ~Draining(d)
    BY DEF Visiting, Draining
  <1>5. CASE PassStep
    BY <1>1, <1>4, <1>5, PassStepCases
    DEF SyncRecoveryEventsFromSlices, ListingSlicesFails, EnsureOpenShiftResources,
        SetApprovalsConsumed, EndDrains, SyncJobStatuses, ReconcileDrainTaints, PersistStatus
  <1> QED
    BY <1>1, <1>2, <1>3, <1>5 DEF Next

(* A step of a pass keeps the working copy accounted for. *)
LEMMA CopyAccounted ==
  ASSUME OneShotInOrder, RecoveryInv, RecoveryInv', Kinds(events), Charged, Accounts, PassGoesOn,
         NEW d \in Devices, PlanOf[d] = cur
  PROVE  Accounted(snap.approvals, used', d, events'[d])
  <1>0. /\ TypeOK /\ TypeOK' /\ pc' # "idle" /\ PassStep /\ Moves(d)
        /\ ResetsOnly(events[d]) /\ Accounted(snap.approvals, used, d, events[d])
    BY Zenon DEF RecoveryInv, PassGoesOn, Accounts, DevicesOf
  <1>1. /\ events[d] \in Event /\ events'[d] \in Event
        /\ snap.approvals \in [Approvals -> {"unused", "active", "consumed", "gone"}]
    BY <1>0 DEF TypeOK, SpecType
  <1>2. CASE pc # "approve" /\ used' = used
    BY <1>0, <1>2, MoveAccounted, Zenon
  <1>3. ASSUME events'[d] = events[d], used \subseteq used'
        PROVE  Accounted(snap.approvals, used', d, events'[d])
    <2>1. GoOn(snap.approvals, used, snap.approvals, used', d, events[d].idType)
      BY <1>3, Zenon DEF GoOn
    <2> QED
      BY <1>0, <1>1, <1>3, <2>1, AccountedStays, Zenon
  <1>4. ASSUME NEW v \in Devices, Visiting(v)
        PROVE  Accounted(snap.approvals, used', d, events'[d])
    <2>1. PICK o \in Devices :
            /\ Visiting(o) /\ \A x \in Devices \ {o} : events'[x] = events[x]
            /\ \/ UNCHANGED <<events, used, kept>>
               \/ \E a \in Approvals : Charges(o, a)
      BY <1>0, <1>4, ChargeMoves, Zenon
    <2>2. CASE UNCHANGED <<events, used, kept>>
      BY <1>3, <2>2
    <2>3. ASSUME NEW a \in Approvals, Charges(o, a)
          PROVE  Accounted(snap.approvals, used', d, events'[d])
      <3>1. CASE o = d
        BY <1>0, <2>1, <2>3, <3>1, ChargeAccounted, Zenon
      <3>2. CASE o # d
        BY <1>3, <2>1, <2>3, <3>2, Zenon DEF Charges
      <3> QED
        BY <3>1, <3>2
    <2> QED
      BY <2>1, <2>2, <2>3, Zenon
  <1>5. CASE pc = "approve" /\ pc' = "drain" /\ UNCHANGED events /\ used' = used \ kept
    <2>1. \A a \in Naming(d, events[d].idType) : a \in used => a \in used'
      BY <1>5, Zenon DEF Naming, Charged
    <2>2. GoOn(snap.approvals, used, snap.approvals, used', d, events[d].idType)
      BY <2>1 DEF GoOn
    <2> QED
      BY <1>0, <1>1, <1>5, <2>2, AccountedStays, Zenon
  <1> QED
    BY <1>0, <1>2, <1>4, <1>5, PassContinues, Zenon DEF Continues

(* What is accounted for has had no more attempts than approvals. *)
LEMMA AttemptsPaid ==
  ASSUME NEW d \in Devices, NEW e \in Event, NEW approvals, NEW S, Accounted(approvals, S, d, e),
         \A a \in Approvals : approvals[a] # "unused" \/ a \in S => spec.approvals[a] # "unused"
  PROVE  Cardinality(Attempts(e)) <=
           Cardinality({a \in Approvals : /\ spec.approvals[a] # "unused"
                                          /\ Approves(a, d, e.idType, e.type)})
  <1> DEFINE P == SpentOn(approvals, S, d, e.idType)
             G == {a \in Approvals : /\ spec.approvals[a] # "unused"
                                     /\ Approves(a, d, e.idType, e.type)}
             k == Cardinality(Attempts(e))
  <1>1. IsFiniteSet(P) /\ k \in Nat /\ Cardinality(P) \in Nat
    BY CountsAreFinite
  <1>2. P \subseteq G
    BY DEF SpentOn, Naming, Approves
  <1>3. IsFiniteSet(G) /\ Cardinality(G) \in Nat
    <2>1. G \subseteq Approvals
      OBVIOUS
    <2> QED
      BY <2>1, FS_Subset, FS_CardinalityType, ConstantsAssumption, Zenon
  <1>4. k <= Cardinality(P) \/ (k = Cardinality(P) + 1 /\ Selected(approvals, d, e))
    BY Zenon DEF Accounted, Within
  <1>5. CASE k <= Cardinality(P)
    <2> HIDE DEF P, G, k
    <2>1. Cardinality(P) <= Cardinality(G)
      BY <1>2, <1>3, FS_Subset
    <2> QED
      <3>1. k <= Cardinality(G)
        BY <1>1, <1>3, <1>5, <2>1
      <3> QED
        BY <3>1 DEF G, k
  <1>6. ASSUME k = Cardinality(P) + 1, NEW b \in Approvals, approvals[b] # "unused",
               Grant[b].names = {}, Approves(b, d, e.idType, e.type)
        PROVE  k <= Cardinality(G)
    <2>1. b \in G /\ b \notin P
      BY <1>6 DEF SpentOn, Naming
    <2> HIDE DEF P, G, k
    <2>2. P \cup {b} \subseteq G /\ Cardinality(P \cup {b}) = k
      BY <1>1, <1>2, <1>6, <2>1, FS_AddElement, Zenon
    <2> QED
      BY <1>3, <2>2, FS_Subset
  <1> QED
    BY <1>4, <1>5, <1>6, Zenon DEF Selected

(* Every step keeps the accounts, if no pass forgets what it consumes.     *)
(* A lost status is still accounted for: consuming pays for no attempt     *)
(* that is on record. *)
LEMMA AccountsStep ==
  ASSUME {"spec", "crash"} \cap MayFail = {}, OneShotInOrder,
         RecoveryInv, RecoveryInv', FailedInv, Charged, Accounts, [Next]_vars
  PROVE  Accounts'
  <1>0. /\ TypeOK /\ status \in [Devices -> Event] /\ status' \in [Devices -> Event]
        /\ events \in [Devices -> Event]
        /\ spec.approvals \in [Approvals -> {"unused", "active", "consumed", "gone"}]
        /\ spec'.approvals \in [Approvals -> {"unused", "active", "consumed", "gone"}]
        /\ snap.approvals \in [Approvals -> {"unused", "active", "consumed", "gone"}]
    BY DEF RecoveryInv, TypeOK, SpecType
  <1>1. \A d \in Devices : ResetsOnly(status'[d]) /\ ResetsOnly(events'[d])
    BY ResetsOnlyStep, Zenon DEF Accounts
  <1>2. ASSUME pc' # "idle", NEW d \in Devices, PlanOf[d] = cur'
        PROVE  Accounted(snap'.approvals, used', d, events'[d])
    <2>1. CASE PassIdles
      BY <1>2, <2>1 DEF PassIdles, Accounts, DevicesOf
    <2>2. ASSUME NEW p \in Plans, Reconcile(p)
          PROVE  Accounted(snap'.approvals, used', d, events'[d])
      <3>1. /\ pc = "idle" /\ used' = used /\ snap' = spec /\ events'[d] = status[d]
        BY <1>2, <2>2 DEF Reconcile, loopVars
      <3>2. used = {} /\ Accounted(spec.approvals, {}, d, status[d])
        BY <3>1 DEF Charged, Accounts
      <3> QED
        BY <3>1, <3>2
    <2>3. CASE PassGoesOn
      <3>1. snap' = snap /\ PlanOf[d] = cur
        BY <1>2, <2>3 DEF PassGoesOn
      <3>2. Accounted(snap.approvals, used', d, events'[d])
        BY <2>3, <3>1, CopyAccounted DEF FailedInv
      <3> QED
        BY <3>1, <3>2
    <2> QED
      BY <1>2, <2>1, <2>2, <2>3, PassMoves, Zenon DEF EndPass
  <1>3. ASSUME pc' # "idle", NEW a \in Approvals, snap'.approvals[a] \in {"consumed", "gone"}
        PROVE  spec'.approvals[a] \in {"consumed", "gone"}
    <2>1. ASSUME NEW p \in Plans, Reconcile(p)
          PROVE  spec.approvals[a] \in {"consumed", "gone"}
      BY <1>3, <2>1 DEF Reconcile
    <2>2. ASSUME PassIdles \/ PassGoesOn PROVE spec.approvals[a] \in {"consumed", "gone"}
      <3>1. snap' = snap /\ pc # "idle"
        BY <1>3, <2>2 DEF PassIdles, PassGoesOn
      <3> QED
        BY <1>3, <3>1, Zenon DEF Accounts
    <2>3. spec.approvals[a] \in {"consumed", "gone"}
      BY <1>3, <2>1, <2>2, PassMoves DEF EndPass
    <2> QED
      BY <1>0, <2>3, ApprovalsAge
  <1>4. ASSUME NEW d \in Devices
        PROVE  \/ pc' = "spec" /\ PlanOf[d] = cur' /\ status'[d] = events'[d]
               \/ Accounted(spec'.approvals, {}, d, status'[d])
    <2>1. CASE status'[d] = status[d] /\ Accounted(spec.approvals, {}, d, status[d])
      <3>1. \A a \in Approvals :
              /\ spec.approvals[a] # "unused" => spec'.approvals[a] # "unused"
              /\ spec.approvals[a] \in {"consumed", "gone"}
                 => spec'.approvals[a] \in {"consumed", "gone"}
        BY <1>0, ApprovalsAge, Zenon
      <3>2. Naming(d, status[d].idType) \subseteq Approvals
        BY DEF Naming
      <3>3. GoOn(spec.approvals, {}, spec'.approvals, {}, d, status[d].idType)
        BY <1>0, <3>1, <3>2 DEF GoOn
      <3> QED
        BY <1>0, <2>1, <3>3, AccountedStays, Zenon
    <2>2. CASE status'[d] = NoEvent
      BY <2>2, NoEventAccounted
    <2>3. CASE PersistStatus /\ PlanOf[d] = cur /\ status'[d] = events[d]
      BY <2>3 DEF PersistStatus
    <2>4. CASE /\ status'[d] = status[d] /\ pc = "spec" /\ PlanOf[d] = cur
               /\ status[d] = events[d]
      <3>1. CASE pc' = "idle"
        <4>1. spec'.approvals = Apply(spec.approvals) /\ events[d] = status[d]
          BY <1>0, <2>4, <3>1, ApprovalsWritten
        <4>2. Accounted(snap.approvals, used, d, events[d])
          BY <2>4, Zenon DEF Accounts, DevicesOf
        <4>3. ASSUME NEW a \in Approvals
              PROVE  /\ snap.approvals[a] # "unused" => spec'.approvals[a] # "unused"
                     /\ snap.approvals[a] \in {"consumed", "gone"} \/ a \in used
                        => spec'.approvals[a] \in {"consumed", "gone"}
          <5>1. /\ snap.approvals[a] # "unused" => spec.approvals[a] # "unused"
                /\ snap.approvals[a] \in {"consumed", "gone"}
                   => spec.approvals[a] \in {"consumed", "gone"}
                /\ a \in used => snap.approvals[a] = "active"
            BY <2>4, Zenon DEF FailedInv, Accounts, Charged
          <5> QED
            BY <1>0, <4>1, <5>1 DEF Apply
        <4>4. Naming(d, status[d].idType) \subseteq Approvals
          BY DEF Naming
        <4>5. \A a \in Naming(d, status[d].idType) :
                snap.approvals[a] = "active" /\ a \notin used
                => spec'.approvals[a] \in {"active", "consumed", "gone"}
          BY <1>0, <4>3, <4>4
        <4>6. GoOn(snap.approvals, used, spec'.approvals, {}, d, events[d].idType)
          BY <4>1, <4>3, <4>4, <4>5 DEF GoOn
        <4>7. Accounted(spec'.approvals, {}, d, events[d])
          BY <1>0, <4>2, <4>6, AccountedStays, Zenon
        <4> QED
          BY <2>4, <4>1, <4>7
      <3>2. CASE PassIdles
        BY <2>4, <3>2 DEF PassIdles
      <3>3. ~PassGoesOn
        BY <2>4, PassContinues DEF PassGoesOn, Continues
      <3>4. \A p \in Plans : ~Reconcile(p)
        BY <2>4, Zenon DEF Reconcile
      <3> QED
        BY <3>1, <3>2, <3>3, <3>4, PassMoves DEF EndPass
    <2> QED
      BY <1>0, <2>1, <2>2, <2>3, <2>4, StatusOrigin, Zenon DEF Accounts
  <1> QED
    BY <1>1, <1>2, <1>3, <1>4 DEF Accounts, DevicesOf

(* processApprovals: for any number of GPUs, approvals and plans, and      *)
(* however passes, edits and Jobs interleave, an event has had no more     *)
(* attempts under its ID than it was given approvals, also where status    *)
(* writes are lost.  This is as long as approvals that name an event are   *)
(* one-shot, name no other and come before the selectors, and consumed     *)
(* approvals are written; charged_twice shows what the order of the list   *)
(* is good for.                                                            *)
THEOREM OneAttemptPerApproval ==
  ASSUME {"spec", "crash"} \cap MayFail = {}, OneShotInOrder
  PROVE  Spec => []NoAutomaticRetries
  <1> DEFINE Inv == RecoveryInv /\ FailedInv /\ Charged /\ Accounts
  <1>1. Init => Inv
    <2> SUFFICES ASSUME Init PROVE Inv
      OBVIOUS
    <2>1. \A d \in Devices : status[d] = NoEvent /\ events[d] = NoEvent
      BY DEF Init, NoEvents
    <2>2. ResetsOnly(NoEvent)
      BY NoEventFields DEF ResetsOnly
    <2>3. \A d \in Devices : Accounted(spec.approvals, {}, d, NoEvent)
      BY NoEventAccounted
    <2>4. Charged /\ Accounts
      BY <2>1, <2>2, <2>3, Zenon DEF Init, Charged, Accounts
    <2> QED
      BY <2>4, RecoveryInit, FailedInit
  <1>2. Inv /\ [Next]_vars => Inv'
    BY RecoveryStep, FailedStep, ChargedStep, AccountsStep
  <1>3. Inv => NoAutomaticRetries
    <2> SUFFICES ASSUME Inv, NEW d \in Devices
                 PROVE  Cardinality(Attempts(status[d])) <=
                          Cardinality({a \in Approvals :
                                         /\ spec.approvals[a] # "unused"
                                         /\ Approves(a, d, status[d].idType, status[d].type)})
      BY DEF NoAutomaticRetries, Attempts
    <2>1. status[d] \in Event
      BY DEF RecoveryInv, TypeOK
    <2>2. CASE Accounted(spec.approvals, {}, d, status[d])
      BY <2>1, <2>2, AttemptsPaid, Zenon
    <2>3. CASE pc = "spec" /\ PlanOf[d] = cur /\ status[d] = events[d]
      <3>1. status[d] = events[d] /\ Accounted(snap.approvals, used, d, events[d])
        BY <2>3, Zenon DEF Accounts, DevicesOf
      <3>2. \A a \in Approvals :
              snap.approvals[a] # "unused" \/ a \in used => spec.approvals[a] # "unused"
        BY DEF FailedInv, Charged
      <3> QED
        BY <2>1, <3>1, <3>2, AttemptsPaid
    <2> QED
      BY <2>2, <2>3, Zenon DEF Accounts
  <1> HIDE DEF Inv
  <1> QED
    BY <1>1, <1>2, <1>3, PTL DEF Spec

=============================================================================
