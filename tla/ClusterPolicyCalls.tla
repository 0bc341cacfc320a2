------------------------- MODULE ClusterPolicyCalls -------------------------
(***************************************************************************)
(* The lists of calls of the sub-controllers of ClusterPolicy: which       *)
(* objects they are on, what they leave when none of them fails and when   *)
(* one does, and that the quotas of Kueue queues add up to all GPUs.       *)
(***************************************************************************)
EXTENDS ClusterPolicy, FiniteSetTheorems, SequenceTheorems, TLAPS

-----------------------------------------------------------------------------
(* Finite sets.                                                            *)

(* No other set of T is within x.                                          *)
Smallest(x, T) == x \in T /\ \A y \in T : y \subseteq x => y = x

(* Among subsets of a finite set there is a smallest one.  This stands in  *)
(* for induction: the smallest counterexample has no smaller one. *)
LEMMA SmallestSubset ==
  ASSUME NEW S, IsFiniteSet(S), NEW T \in SUBSET (SUBSET S), T # {}
  PROVE  \E x : Smallest(x, T)
  <1>1. IsWellFoundedOn(StrictSubsetOrdering(S), SUBSET S)
    BY FS_FiniteSubsetsOfFinite, FS_StrictSubsetOrderingWellFounded, Zenon
  <1>2. \E x \in T : \A y \in T : ~(<<y, x>> \in StrictSubsetOrdering(S))
    BY <1>1, WFMin
  <1> QED
    BY <1>2, Zenon DEF StrictSubsetOrdering, Smallest

(* There is a last one among some of the calls of a list. *)
LEMMA LastOne ==
  ASSUME NEW n \in Nat, NEW S, S \subseteq 1 .. n, S # {}
  PROVE  Max(S) \in S
  <1> DEFINE From(i) == {j \in S : j >= i}
             T == {From(i) : i \in S}
  <1>1. IsFiniteSet(S)
    <2>1. PICK I : I = 1 .. n
      OBVIOUS
    <2>2. IsFiniteSet(I) /\ S \in SUBSET I
      BY <2>1, FS_Interval
    <2> QED
      BY <2>2, FS_Subset, Zenon
  <1>2. T \in SUBSET (SUBSET S) /\ T # {}
    BY Zenon
  <1>3. PICK x : Smallest(x, T)
    <2> HIDE DEF T
    <2> QED
      BY <1>1, <1>2, SmallestSubset, Zenon
  <1>4. PICK i \in S : x = From(i)
    BY <1>3 DEF Smallest
  <1>5. ASSUME NEW j \in S PROVE i >= j
    <2>1. SUFFICES ASSUME j > i PROVE FALSE
      OBVIOUS
    <2>2. From(j) \subseteq From(i)
      <3>1. ASSUME NEW k \in S, k >= j PROVE k >= i
        BY <2>1, <3>1
      <3> QED
        BY <3>1, Zenon
    <2>3. i \in From(i) /\ i \notin From(j)
      BY <2>1
    <2> QED
      BY <1>3, <1>4, <2>2, <2>3, Zenon DEF Smallest
  <1> QED
    BY <1>4, <1>5, Zenon DEF Max

(* The sum of f over a set, and the equation MapThenSumSet solves.         *)
SumOf(f, S) == MapThenSumSet(LAMBDA q : f[q], S)

Sums(g, f, S) ==
    g = [s \in SUBSET S |->
            IF s = {} THEN 0
            ELSE f[CHOOSE x \in s : TRUE] + g[s \ {CHOOSE x \in s : TRUE}]]

(* The sum is what a solution has for the whole set. *)
LEMMA SumIsSolution ==
  ASSUME NEW f, NEW S
  PROVE  SumOf(f, S) = (CHOOSE g : Sums(g, f, S))[S]
  BY DEF SumOf, MapThenSumSet, MapThenFoldSet, Sums

(* One element less, one share less. *)
LEMMA OneShareLess ==
  ASSUME NEW S, IsFiniteSet(S), NEW f, NEW b \in Nat, \A q \in S : f[q] \in {b, b + 1},
         NEW x \in S
  PROVE  b * Cardinality(S) + Cardinality({q \in S : f[q] = b + 1}) =
           f[x] + (b * Cardinality(S \ {x}) + Cardinality({q \in S \ {x} : f[q] = b + 1}))
  <1> DEFINE more == {q \in S : f[q] = b + 1}
             less == {q \in S \ {x} : f[q] = b + 1}
  <1>1. PICK n \in Nat : Cardinality(S) = n + 1 /\ Cardinality(S \ {x}) = n
    <2>1. /\ Cardinality(S \ {x}) = Cardinality(S) - 1 /\ Cardinality(S) \in Nat
          /\ Cardinality(S \ {x}) \in Nat
      BY FS_RemoveElement, FS_CardinalityType
    <2> QED
      BY <2>1
  <1>2. IsFiniteSet(more)
    <2>1. more \in SUBSET S
      OBVIOUS
    <2> QED
      BY <2>1, FS_Subset
  <1>3. PICK m \in Nat, k \in Nat :
           /\ Cardinality(more) = m /\ Cardinality(less) = k
           /\ m = k + (f[x] - b)
    <2>1. less = more \ {x}
      OBVIOUS
    <2> HIDE DEF more, less
    <2>2. /\ IsFiniteSet(less) /\ Cardinality(less) \in Nat /\ Cardinality(more) \in Nat
          /\ Cardinality(less) = IF x \in more THEN Cardinality(more) - 1 ELSE Cardinality(more)
      BY <1>2, <2>1, FS_RemoveElement, FS_CardinalityType
    <2>3. IF x \in more THEN f[x] = b + 1 ELSE f[x] = b
      BY DEF more
    <2> QED
      BY <2>2, <2>3
  <1>4. f[x] \in Nat /\ b * (n + 1) = b * n + b /\ b * n \in Nat
    OBVIOUS
  <1> HIDE DEF more, less
  <1>5. b * Cardinality(S) + Cardinality(more) = f[x] + (b * Cardinality(S \ {x}) + Cardinality(less))
    BY <1>1, <1>3, <1>4
  <1> QED
    BY <1>5 DEF more, less

(* Shares that differ by one at most: the smaller share for each, and one  *)
(* for each larger share. *)
LEMMA SharesAddUp ==
  ASSUME NEW S, IsFiniteSet(S), NEW f, NEW b \in Nat, \A q \in S : f[q] \in {b, b + 1}
  PROVE  SumOf(f, S) = b * Cardinality(S) + Cardinality({q \in S : f[q] = b + 1})
  <1> DEFINE C(s) == b * Cardinality(s) + Cardinality({q \in s : f[q] = b + 1})
             pick(s) == CHOOSE x \in s : TRUE
             closed == [s \in SUBSET S |-> C(s)]
             g == CHOOSE h : Sums(h, f, S)
  <1>1. ASSUME NEW s \in SUBSET S
        PROVE  C(s) = IF s = {} THEN 0 ELSE f[pick(s)] + C(s \ {pick(s)})
    <2>1. CASE s = {}
      <3>1. {q \in s : f[q] = b + 1} = {} /\ Cardinality(s) = 0
        BY <2>1, FS_EmptySet
      <3>2. Cardinality({q \in s : f[q] = b + 1}) = 0
        BY <3>1, FS_EmptySet
      <3> QED
        BY <2>1, <3>1, <3>2
    <2>2. CASE s # {}
      <3>1. pick(s) \in s /\ IsFiniteSet(s) /\ \A q \in s : f[q] \in {b, b + 1}
        BY <2>2, FS_Subset
      <3> HIDE DEF pick
      <3> QED
        BY <2>2, <3>1, OneShareLess
    <2> QED
      BY <2>1, <2>2
  <1> HIDE DEF C
  <1>2. Sums(closed, f, S)
    <2>1. ASSUME NEW s \in SUBSET S
          PROVE  closed[s] = IF s = {} THEN 0 ELSE f[pick(s)] + closed[s \ {pick(s)}]
      <3>1. s \ {pick(s)} \in SUBSET S
        OBVIOUS
      <3> HIDE DEF pick
      <3> QED
        BY <1>1, <3>1
    <2> QED
      BY <2>1, Zenon DEF Sums
  <1>3. Sums(g, f, S)
    BY <1>2, Zenon
  <1> HIDE DEF g, closed
  <1>4. ASSUME NEW s \in SUBSET S
        PROVE  g[s] = IF s = {} THEN 0 ELSE f[pick(s)] + g[s \ {pick(s)}]
    BY <1>3 DEF Sums
  <1>5. \A s \in SUBSET S : g[s] = C(s)
    <2> DEFINE T == {s \in SUBSET S : g[s] # C(s)}
    <2>1. SUFFICES ASSUME T # {} PROVE FALSE
      OBVIOUS
    <2>2. T \in SUBSET (SUBSET S)
      OBVIOUS
    <2>3. PICK s : Smallest(s, T)
      <3> HIDE DEF T
      <3> QED
        BY <2>1, <2>2, SmallestSubset
    <2>4. s \in SUBSET S /\ g[s] # C(s)
      BY <2>3 DEF Smallest
    <2>5. s # {}
      BY <1>1, <1>4, <2>4
    <2>6. PICK x \in s : x = pick(s)
      BY <2>5
    <2>7. s \ {x} \in SUBSET S /\ s \ {x} \notin T
      BY <2>3, <2>4, <2>6 DEF Smallest
    <2>8. g[s \ {x}] = C(s \ {x})
      BY <2>7
    <2> HIDE DEF pick, T
    <2> QED
      BY <1>1, <1>4, <2>4, <2>5, <2>6, <2>8
  <1> QED
    BY <1>5, SumIsSolution, Zenon DEF g, C

(* The first m names of a list; none of them comes twice.                  *)
Names(e, m) == {e[i] : i \in 1 .. m}
Distinct(e, m) == \A i, j \in 1 .. m : e[i] = e[j] => i = j

(* As many names as places, if no name comes twice. *)
LEMMA NamesOnce ==
  ASSUME NEW m \in Nat, NEW e, Distinct(e, m)
  PROVE  IsFiniteSet(Names(e, m)) /\ Cardinality(Names(e, m)) = m
  <1> DEFINE Q == {e[i] : i \in 1 .. m}
             h == [i \in 1 .. m |-> e[i]]
  <1>1. PICK I : I = 1 .. m
    OBVIOUS
  <1>2. IsFiniteSet(I) /\ Cardinality(I) = m
    BY <1>1, FS_Interval
  <1>3. h \in Bijection(I, Q)
    BY <1>1 DEF Bijection, Injection, Surjection, IsInjective, Distinct
  <1> HIDE DEF Q, h
  <1>4. IsFiniteSet(Q) /\ Cardinality(Q) = Cardinality(I)
    BY <1>2, <1>3, FS_Bijection DEF ExistsBijection
  <1> QED
    BY <1>2, <1>4 DEF Q, Names

(* divideResources: the shares of n queues add up to all GPUs. *)
LEMMA EveryGPUOnce ==
  ASSUME NEW n \in Nat \ {0}, NEW c \in Nat, NEW e, NEW f,
         Distinct(e, n), \A i \in 1 .. n : f[e[i]] = Share(c, n, i)
  PROVE  /\ SumOf(f, Names(e, n)) = c
         /\ \A q, r \in Names(e, n) : f[q] <= f[r] + 1
  <1> DEFINE Q == Names(e, n)
             more(b) == {q \in Q : f[q] = b + 1}
  <1>1. PICK b \in Nat, r \in Nat : /\ b = c \div n /\ r = c % n
                                    /\ c = b * n + r /\ r < n
    <2>1. PICK b \in Int, r \in Int : b = c \div n /\ r = c % n
      OBVIOUS
    <2>2. c = n * b + r /\ 0 <= r /\ r < n /\ n * b = b * n
      BY <2>1
    <2>3. b >= 0
      <3>1. b <= -1 => n * b <= -n
        BY <2>1
      <3> QED
        BY <2>1, <2>2, <3>1
    <2>4. b \in Nat /\ r \in Nat /\ c = b * n + r
      BY <2>1, <2>2, <2>3
    <2> QED
      BY <2>1, <2>2, <2>4, Zenon
  <1>2. \A i \in 1 .. n : f[e[i]] = IF i <= r THEN b + 1 ELSE b
    BY <1>1 DEF Share
  <1>3. \A q \in Q : f[q] \in {b, b + 1}
    BY <1>2 DEF Names
  <1>4. IsFiniteSet(Q) /\ Cardinality(Q) = n
    BY NamesOnce
  <1>5. Cardinality(more(b)) = r
    <2>1. more(b) = Names(e, r)
      BY <1>1, <1>2 DEF Names
    <2>2. Distinct(e, r)
      BY <1>1 DEF Distinct
    <2> QED
      BY <2>1, <2>2, NamesOnce
  <1> HIDE DEF Q
  <1>6. SumOf(f, Q) = b * Cardinality(Q) + Cardinality(more(b))
    BY <1>3, <1>4, SharesAddUp
  <1>7. SumOf(f, Q) = c
    BY <1>1, <1>4, <1>5, <1>6, Zenon
  <1>8. \A q, t \in Q : f[q] <= f[t] + 1
    BY <1>3
  <1> QED
    BY <1>7, <1>8 DEF Q

-----------------------------------------------------------------------------
(* Lists of calls.                                                         *)

(* A value an object may have: a flag, or a quota within the capacity.     *)
Fits(o, v) ==
    /\ v \in Nat
    /\ o \in Operands => v <= WithClaim
    /\ o \in Queues => \E c \in Capacities : v <= c

Call == [obj : Objects, val : Nat, quiet : BOOLEAN]

(* The calls on objects of O, which give them values that fit; and those   *)
(* of them that are deletes.  Only objects of LoggedOnly are tried.        *)
CallsOn(O) ==
    {k \in Call : /\ k.obj \in O /\ Fits(k.obj, k.val)
                  /\ k.quiet => k.obj \in LoggedOnly}
DeletesOn(O) == {k \in CallsOn(O) : k.val = 0}

(* One of the calls is a delete of o whose error is returned.              *)
Covers(calls, o) ==
    \E i \in 1 .. Len(calls) :
        calls[i].obj = o /\ calls[i].val = 0 /\ ~calls[i].quiet

(* A list within a set of calls stays within a larger one. *)
LEMMA Widen ==
  ASSUME NEW O, NEW P, O \subseteq P
  PROVE  /\ \A s \in Seq(DeletesOn(O)) : s \in Seq(CallsOn(O)) /\ s \in Seq(DeletesOn(P))
         /\ \A s \in Seq(CallsOn(O)) : s \in Seq(CallsOn(P))
  <1>1. DeletesOn(O) \subseteq CallsOn(O) /\ DeletesOn(O) \subseteq DeletesOn(P)
    BY DEF DeletesOn, CallsOn
  <1>2. CallsOn(O) \subseteq CallsOn(P)
    BY DEF CallsOn
  <1> QED
    BY <1>1, <1>2, SeqMonotonic

(* Zero fits every object. *)
LEMMA ZeroFits == \A o : Fits(o, 0)
  <1>1. \E c \in Capacities : 0 <= c
    <2>1. PICK c \in Capacities : TRUE
      BY ConstantsAssumption, Zenon
    <2>2. c \in Nat
      BY ConstantsAssumption
    <2>3. 0 <= c
      BY <2>2
    <2> QED
      BY <2>3
  <1> QED
    BY <1>1 DEF Fits, WithClaim

(* The list with one call. *)
LEMMA OneCall ==
  ASSUME NEW O, NEW o \in Objects, o \in O
  PROVE  /\ \A v \in Nat : Fits(o, v) => Put(o, v) \in Seq(CallsOn(O))
         /\ Del(o) \in Seq(DeletesOn(O)) /\ Covers(Del(o), o)
         /\ o \in LoggedOnly => TryDel(o) \in Seq(DeletesOn(O))
  <1>1. ASSUME NEW v \in Nat, Fits(o, v) PROVE Put(o, v) \in Seq(CallsOn(O))
    <2>1. [obj |-> o, val |-> v, quiet |-> FALSE] \in CallsOn(O)
      BY <1>1 DEF CallsOn, Call
    <2> QED
      BY <2>1 DEF Put
  <1>2. Del(o) \in Seq(DeletesOn(O))
    <2>1. [obj |-> o, val |-> 0, quiet |-> FALSE] \in DeletesOn(O)
      BY ZeroFits DEF CallsOn, DeletesOn, Call
    <2> QED
      BY <2>1 DEF Del
  <1>3. Covers(Del(o), o)
    BY DEF Covers, Del
  <1>4. ASSUME o \in LoggedOnly PROVE TryDel(o) \in Seq(DeletesOn(O))
    <2>1. [obj |-> o, val |-> 0, quiet |-> TRUE] \in DeletesOn(O)
      BY <1>4, ZeroFits DEF CallsOn, DeletesOn, Call
    <2> QED
      BY <2>1 DEF TryDel
  <1> QED
    BY <1>1, <1>2, <1>3, <1>4

(* One list after another. *)
LEMMA BothLists ==
  ASSUME NEW S, NEW s \in Seq(S), NEW t \in Seq(S)
  PROVE  /\ s \o t \in Seq(S)
         /\ \A o : Covers(s, o) \/ Covers(t, o) => Covers(s \o t, o)
  <1>1. /\ s \o t \in Seq(S) /\ Len(s \o t) = Len(s) + Len(t)
        /\ Len(s) \in Nat /\ Len(t) \in Nat
        /\ \A i \in 1 .. Len(s) + Len(t) :
              (s \o t)[i] = IF i <= Len(s) THEN s[i] ELSE t[i - Len(s)]
    BY ConcatProperties, LenProperties
  <1>2. ASSUME NEW o, Covers(s, o) PROVE Covers(s \o t, o)
    <2>1. PICK i \in 1 .. Len(s) : s[i].obj = o /\ s[i].val = 0 /\ ~s[i].quiet
      BY <1>2 DEF Covers
    <2>2. i \in 1 .. Len(s \o t) /\ (s \o t)[i] = s[i]
      BY <1>1
    <2> QED
      BY <2>1, <2>2 DEF Covers
  <1>3. ASSUME NEW o, Covers(t, o) PROVE Covers(s \o t, o)
    <2>1. PICK i \in 1 .. Len(t) : t[i].obj = o /\ t[i].val = 0 /\ ~t[i].quiet
      BY <1>3 DEF Covers
    <2>2. i + Len(s) \in 1 .. Len(s \o t) /\ (s \o t)[i + Len(s)] = t[i]
      BY <1>1
    <2> QED
      BY <2>1, <2>2 DEF Covers
  <1> QED
    BY <1>1, <1>2, <1>3

(* Operands are on OpenShift only. *)
LEMMA OnOpenShift ==
  ASSUME NEW S, NEW s \in Seq(S)
  PROVE  /\ IfOpenShift(s) \in Seq(S)
         /\ OpenShift => IfOpenShift(s) = s
  BY EmptySeq DEF IfOpenShift

-----------------------------------------------------------------------------
(* The store after some of the calls.                                      *)

Stored == store \in [Objects -> Nat] /\ \A o \in Objects : Fits(o, store[o])

(* What TypeOK says of the store. *)
LEMMA StoreType ==
  /\ TypeOK => Stored
  /\ Stored => /\ store \in [Objects -> Nat]
               /\ \A o \in Objects \ Queues : store[o] <= WithClaim
               /\ \A q \in Queues : \E c \in Capacities : store[q] <= c
  BY ConstantsAssumption DEF TypeOK, Stored, Fits, Objects

(* Calls give values that fit to their own objects and to no other. *)
LEMMA PerformOn ==
  ASSUME Stored, NEW O, NEW calls \in Seq(CallsOn(O)), NEW P \in SUBSET AllOf(calls)
  PROVE  /\ Perform(calls, P) \in [Objects -> Nat]
         /\ \A o \in Objects : Fits(o, Perform(calls, P)[o])
         /\ \A o \in Objects \ O : Perform(calls, P)[o] = store[o]
  <1> DEFINE mine(o) == {i \in P : calls[i].obj = o}
             pick(o) == Max(mine(o))
  <1>0. \A i \in P : calls[i] \in CallsOn(O)
    BY ElementOfSeq DEF AllOf
  <1>1. ASSUME NEW o \in Objects
        PROVE  /\ Perform(calls, P)[o] = IF mine(o) = {} THEN store[o] ELSE calls[pick(o)].val
               /\ mine(o) # {} => /\ pick(o) \in P /\ calls[pick(o)].obj = o
                                  /\ o \in O /\ Fits(o, calls[pick(o)].val)
    <2>1. Perform(calls, P)[o] = IF mine(o) = {} THEN store[o] ELSE calls[pick(o)].val
      BY Zenon DEF Perform
    <2>2. mine(o) # {} => pick(o) \in mine(o)
      BY LastOne, LenProperties, Zenon DEF AllOf
    <2> HIDE DEF pick
    <2>3. mine(o) # {} => pick(o) \in P /\ calls[pick(o)].obj = o
      BY <2>2
    <2>4. mine(o) # {} => calls[pick(o)].obj \in O /\ Fits(calls[pick(o)].obj, calls[pick(o)].val)
      BY <1>0, <2>3 DEF CallsOn
    <2> QED
      BY <2>1, <2>3, <2>4
  <1> HIDE DEF mine, pick
  <1>2. ASSUME NEW o \in Objects PROVE Fits(o, Perform(calls, P)[o])
    BY <1>1, <1>2 DEF Stored
  <1>3. Perform(calls, P) \in [Objects -> Nat]
    <2>1. \E f : Perform(calls, P) = [o \in Objects |-> f[o]]
      <3>1. Perform(calls, P) =
              [o \in Objects |-> [p \in Objects |->
                  IF mine(p) = {} THEN store[p] ELSE calls[pick(p)].val][o]]
        BY SMT DEF Perform, mine, pick
      <3> QED
        BY <3>1, Zenon
    <2> QED
      BY <1>2, <2>1 DEF Fits
  <1> QED
    BY <1>1, <1>2, <1>3

(* Deletes only delete; and if none is missed whose error counts, what the *)
(* list covers is gone. *)
LEMMA PerformDeletes ==
  ASSUME Stored, NEW O, NEW calls \in Seq(DeletesOn(O)), NEW P \in SUBSET AllOf(calls),
         NEW o \in Objects
  PROVE  /\ Perform(calls, P)[o] \in {0, store[o]}
         /\ /\ Covers(calls, o) /\ \A i \in AllOf(calls) \ P : calls[i].quiet
            => Perform(calls, P)[o] = 0
  <1> DEFINE mine == {i \in P : calls[i].obj = o}
             pick == Max(mine)
  <1>0. \A i \in P : calls[i] \in DeletesOn(O)
    BY ElementOfSeq DEF AllOf
  <1>1. Perform(calls, P)[o] = IF mine = {} THEN store[o] ELSE calls[pick].val
    BY Zenon DEF Perform
  <1>2. mine # {} => pick \in mine
    BY LastOne, LenProperties, Zenon DEF AllOf
  <1> HIDE DEF pick
  <1>3. mine # {} => calls[pick].val = 0
    BY <1>0, <1>2 DEF DeletesOn
  <1>4. Covers(calls, o) /\ (\A i \in AllOf(calls) \ P : calls[i].quiet) => mine # {}
    BY DEF Covers, AllOf
  <1> QED
    BY <1>1, <1>3, <1>4

-----------------------------------------------------------------------------
(* The lists of the sub-controllers.                                       *)

DevicePluginObjects == {"dpScc", "dp"}
XpumObjects == {"xpumScc", "xpum"}
DRAObjects == {"draScc", "draDeps", "dra"}
MiscObjects == {"monitor", "service", "nfd", "flavor"} \cup Queues

(* The device plugin's list; a policy being deleted has it removed. *)
LEMMA DevicePluginList ==
  /\ DevicePluginCalls \in Seq(CallsOn(DevicePluginObjects))
  /\ isClusterPolicyBeingDeleted =>
        /\ DevicePluginCalls \in Seq(DeletesOn(DevicePluginObjects))
        /\ Covers(DevicePluginCalls, "dp")
  <1> DEFINE O == DevicePluginObjects
  <1>0. "dp" \in Objects /\ "dpScc" \in Objects /\ Fits("dp", 1) /\ Fits("dpScc", 1)
    BY ConstantsAssumption DEF Objects, Operands, Fits, WithClaim
  <1>1. /\ TryDel("dpScc") \in Seq(DeletesOn(O)) /\ Del("dp") \in Seq(DeletesOn(O))
        /\ Put("dpScc", 1) \in Seq(CallsOn(O)) /\ Put("dp", 1) \in Seq(CallsOn(O))
        /\ Covers(Del("dp"), "dp")
    BY <1>0, OneCall, Zenon DEF DevicePluginObjects, LoggedOnly
  <1> HIDE DEF O
  <1>2. /\ DeleteOpenShiftSCCResources("dpScc") \in Seq(DeletesOn(O))
        /\ EnsureSCC("dpScc") \in Seq(CallsOn(O))
    BY <1>1, OnOpenShift DEF DeleteOpenShiftSCCResources, EnsureSCC
  <1>3. LET gone == DeleteOpenShiftSCCResources("dpScc") \o Del("dp")
        IN  gone \in Seq(DeletesOn(O)) /\ Covers(gone, "dp")
    BY <1>1, <1>2, BothLists
  <1>4. EnsureSCC("dpScc") \o Put("dp", 1) \in Seq(CallsOn(O))
    BY <1>1, <1>2, BothLists
  <1>5. DevicePluginCalls \in Seq(CallsOn(O))
    BY <1>3, <1>4, Widen DEF DevicePluginCalls
  <1> QED
    BY <1>3, <1>5 DEF DevicePluginCalls, shouldRemoveDevicePlugin, O

(* The XPU manager's; its DaemonSet comes with a monitor claim or without. *)
LEMMA XpuManagerList ==
  /\ XpuManagerCalls \in Seq(CallsOn(XpumObjects))
  /\ isClusterPolicyBeingDeleted =>
        /\ XpuManagerCalls \in Seq(DeletesOn(XpumObjects))
        /\ Covers(XpuManagerCalls, "xpum")
  <1> DEFINE O == XpumObjects
  <1>0. /\ "xpum" \in Objects /\ "xpumScc" \in Objects
        /\ Fits("xpum", 1) /\ Fits("xpumScc", 1) /\ Fits("xpum", WithClaim)
        /\ WithClaim \in Nat
    BY ConstantsAssumption DEF Objects, Operands, Fits, WithClaim
  <1>1. /\ TryDel("xpumScc") \in Seq(DeletesOn(O)) /\ Del("xpum") \in Seq(DeletesOn(O))
        /\ Put("xpumScc", 1) \in Seq(CallsOn(O)) /\ Put("xpum", 1) \in Seq(CallsOn(O))
        /\ Put("xpum", WithClaim) \in Seq(CallsOn(O))
        /\ Covers(Del("xpum"), "xpum")
    BY <1>0, OneCall, Zenon DEF XpumObjects, LoggedOnly
  <1> HIDE DEF O
  <1>2. /\ DeleteOpenShiftSCCResources("xpumScc") \in Seq(DeletesOn(O))
        /\ EnsureSCC("xpumScc") \in Seq(CallsOn(O))
        /\ XpumDaemonSet \in Seq(CallsOn(O))
    BY <1>1, OnOpenShift DEF DeleteOpenShiftSCCResources, EnsureSCC, XpumDaemonSet
  <1>3. LET gone == DeleteOpenShiftSCCResources("xpumScc") \o Del("xpum")
        IN  gone \in Seq(DeletesOn(O)) /\ Covers(gone, "xpum")
    BY <1>1, <1>2, BothLists
  <1>4. EnsureSCC("xpumScc") \o XpumDaemonSet \in Seq(CallsOn(O))
    BY <1>2, BothLists
  <1>5. XpuManagerCalls \in Seq(CallsOn(O))
    BY <1>3, <1>4, Widen DEF XpuManagerCalls
  <1> QED
    BY <1>3, <1>5 DEF XpuManagerCalls, shouldRemoveXpumd, O

(* Without OpenShift nothing is done about the driver's SCC. *)
LEMMA DRALists ==
  /\ DRACreateCalls \in Seq(CallsOn(DRAObjects))
  /\ ~OpenShift => DRACreateCalls \in Seq(CallsOn({"draDeps", "dra"}))
  /\ DRADeleteCalls \in Seq(DeletesOn(DRAObjects))
  /\ Covers(DRADeleteCalls, "draDeps") /\ Covers(DRADeleteCalls, "dra")
  /\ OpenShift => Covers(DRADeleteCalls, "draScc")
  <1> DEFINE O == DRAObjects
             N == {"draDeps", "dra"}
  <1>0. /\ "dra" \in Objects /\ "draDeps" \in Objects /\ "draScc" \in Objects
        /\ Fits("dra", 1) /\ Fits("draDeps", 1) /\ Fits("draScc", 1)
    BY ConstantsAssumption DEF Objects, Operands, Fits, WithClaim
  <1>1. /\ Del("draDeps") \in Seq(DeletesOn(O)) /\ Covers(Del("draDeps"), "draDeps")
        /\ Del("dra") \in Seq(DeletesOn(O)) /\ Covers(Del("dra"), "dra")
        /\ Del("draScc") \in Seq(DeletesOn(O)) /\ Covers(Del("draScc"), "draScc")
        /\ Put("draScc", 1) \in Seq(CallsOn(O))
        /\ createDependencyComponentsIfMissing \in Seq(CallsOn(O))
        /\ createDependencyComponentsIfMissing \in Seq(CallsOn(N))
        /\ Put("dra", 1) \in Seq(CallsOn(O)) /\ Put("dra", 1) \in Seq(CallsOn(N))
    BY <1>0, OneCall, Zenon DEF DRAObjects, createDependencyComponentsIfMissing
  <1> HIDE DEF O, N
  <1>2. /\ EnsureSCC("draScc") \in Seq(CallsOn(O))
        /\ ~OpenShift => EnsureSCC("draScc") \in Seq(CallsOn(N))
        /\ IfOpenShift(Del("draScc")) \in Seq(DeletesOn(O))
        /\ OpenShift => Covers(IfOpenShift(Del("draScc")), "draScc")
    BY <1>1, OnOpenShift, EmptySeq DEF EnsureSCC, IfOpenShift
  <1>3. DRACreateCalls \in Seq(CallsOn(O))
    <2>1. EnsureSCC("draScc") \o createDependencyComponentsIfMissing \in Seq(CallsOn(O))
      BY <1>1, <1>2, BothLists
    <2> QED
      BY <1>1, <2>1, BothLists DEF DRACreateCalls
  <1>4. ~OpenShift => DRACreateCalls \in Seq(CallsOn(N))
    <2>1. ~OpenShift => EnsureSCC("draScc") \o createDependencyComponentsIfMissing
                           \in Seq(CallsOn(N))
      BY <1>1, <1>2, BothLists
    <2> QED
      BY <1>1, <2>1, BothLists DEF DRACreateCalls
  <1>5. LET both == Del("draDeps") \o Del("dra")
        IN  both \in Seq(DeletesOn(O)) /\ Covers(both, "draDeps") /\ Covers(both, "dra")
    BY <1>1, BothLists
  <1>6. /\ DRADeleteCalls \in Seq(DeletesOn(O))
        /\ Covers(DRADeleteCalls, "draDeps") /\ Covers(DRADeleteCalls, "dra")
        /\ OpenShift => Covers(DRADeleteCalls, "draScc")
    BY <1>2, <1>5, BothLists, Zenon DEF DRADeleteCalls
  <1> QED
    BY <1>3, <1>4, <1>6 DEF O, N

(* What no list can create here: there is no SCC, or no CRD for it.        *)
Impossible ==
    (IF OpenShift THEN {} ELSE {"draScc"})
      \cup (IF "prometheus" \in CRDs THEN {} ELSE {"monitor", "service"})
      \cup (IF "nfd" \in CRDs THEN {} ELSE {"nfd"})
      \cup (IF "kueue" \in CRDs THEN {} ELSE {"flavor"} \cup Queues)

MiscPossible == MiscObjects \ Impossible

(* Monitor and service are made and removed together. *)
LEMMA PrometheusList ==
  /\ PrometheusCalls \in Seq(CallsOn(MiscPossible))
  /\ isClusterPolicyBeingDeleted => PrometheusCalls \in Seq(DeletesOn(MiscPossible))
  /\ isClusterPolicyBeingDeleted /\ "prometheus" \in CRDs =>
        Covers(PrometheusCalls, "monitor") /\ Covers(PrometheusCalls, "service")
  <1> DEFINE O == MiscPossible
  <1>0. CASE "prometheus" \notin CRDs
    BY <1>0, EmptySeq DEF PrometheusCalls
  <1>1. CASE "prometheus" \in CRDs
    <2>0. /\ "monitor" \in Objects /\ "service" \in Objects
          /\ Fits("monitor", 1) /\ Fits("service", 1)
          /\ "monitor" \in O /\ "service" \in O
      BY <1>1, ConstantsAssumption
         DEF Objects, Operands, Fits, WithClaim, MiscPossible, MiscObjects, Impossible
    <2> HIDE DEF O
    <2>1. /\ Del("monitor") \in Seq(DeletesOn(O)) /\ Covers(Del("monitor"), "monitor")
          /\ Del("service") \in Seq(DeletesOn(O)) /\ Covers(Del("service"), "service")
          /\ Put("monitor", 1) \in Seq(CallsOn(O)) /\ Put("service", 1) \in Seq(CallsOn(O))
      BY <2>0, OneCall, Zenon
    <2>2. LET gone == Del("monitor") \o Del("service")
          IN  /\ gone \in Seq(DeletesOn(O))
              /\ Covers(gone, "monitor") /\ Covers(gone, "service")
      BY <2>1, BothLists
    <2>3. Put("monitor", 1) \o Put("service", 1) \in Seq(CallsOn(O))
      BY <2>1, BothLists
    <2>4. PrometheusCalls \in Seq(CallsOn(O))
      BY <1>1, <2>2, <2>3, Widen DEF PrometheusCalls
    <2> QED
      BY <1>1, <2>2, <2>4 DEF PrometheusCalls, O
  <1> QED
    BY <1>0, <1>1

(* The NodeFeatureRule. *)
LEMMA NfdList ==
  /\ NfdCalls \in Seq(CallsOn(MiscPossible))
  /\ isClusterPolicyBeingDeleted => NfdCalls \in Seq(DeletesOn(MiscPossible))
  /\ isClusterPolicyBeingDeleted /\ "nfd" \in CRDs => Covers(NfdCalls, "nfd")
  <1>0. CASE "nfd" \notin CRDs
    <2>1. NfdCalls = <<>>
      BY <1>0 DEF NfdCalls
    <2> QED
      BY <1>0, <2>1, EmptySeq
  <1>1. CASE "nfd" \in CRDs
    <2>0. "nfd" \in Objects /\ Fits("nfd", 1) /\ "nfd" \in MiscPossible
      BY <1>1, ConstantsAssumption
         DEF Objects, Operands, Fits, WithClaim, MiscPossible, MiscObjects, Impossible
    <2>1. /\ Del("nfd") \in Seq(DeletesOn(MiscPossible)) /\ Covers(Del("nfd"), "nfd")
          /\ Put("nfd", 1) \in Seq(CallsOn(MiscPossible))
      BY <2>0, OneCall
    <2>2. Del("nfd") \in Seq(CallsOn(MiscPossible))
      BY <2>1, Widen
    <2> QED
      BY <1>1, <2>1, <2>2 DEF NfdCalls
  <1> QED
    BY <1>0, <1>1

(* The queues that are there and not expected.                             *)
Stale(expected) == {q \in Queues \ expected : store[q] # 0}

(* cleanupStaleKueueQueues deletes every queue that is there and is not    *)
(* expected. *)
LEMMA StaleList ==
  ASSUME NEW expected
  PROVE  /\ StaleCalls(expected) \in Seq(DeletesOn(Stale(expected)))
         /\ StaleCalls(expected) \in Seq(DeletesOn(Queues))
         /\ \A q \in Queues \ expected : store[q] # 0 => Covers(StaleCalls(expected), q)
  <1> DEFINE stales == Stale(expected)
             n == Cardinality(stales)
             Inj(f) == \A i, j \in DOMAIN f : f[i] = f[j] => i = j
             order == CHOOSE f \in [1 .. n -> stales] : Inj(f)
             calls == [i \in 1 .. n |-> [obj |-> order[i], val |-> 0, quiet |-> FALSE]]
  <1>1. IsFiniteSet(stales) /\ n \in Nat /\ ExistsBijection(1 .. n, stales)
    <2>1. stales \in SUBSET Queues
      BY DEF Stale
    <2>2. IsFiniteSet(stales)
      BY <2>1, ConstantsAssumption, FS_Subset
    <2> QED
      BY <2>2, FS_CardinalityType
  <1>2. StaleCalls(expected) = calls
    BY Zenon DEF StaleCalls, Stale
  <1> HIDE DEF n
  <1>3. \E f \in [1 .. n -> stales] : Inj(f)
    BY <1>1 DEF ExistsBijection, Bijection, Injection, IsInjective
  <1>4. order \in [1 .. n -> stales] /\ Inj(order)
    BY <1>3, Zenon
  <1> HIDE DEF order, stales
  <1>5. \A q \in stales : \E i \in 1 .. n : order[i] = q
    <2>1. order \in Injection(1 .. n, stales)
      BY <1>4 DEF Injection, IsInjective
    <2>2. Cardinality(1 .. n) = n
      BY <1>1, FS_Interval
    <2>3. order \in Surjection(1 .. n, stales)
      BY <1>1, <2>1, <2>2, FS_Injection DEF n
    <2> QED
      BY <2>3 DEF Surjection
  <1>6. /\ calls \in Seq(DeletesOn(stales)) /\ Len(calls) = n
        /\ \A i \in 1 .. n : calls[i] = [obj |-> order[i], val |-> 0, quiet |-> FALSE]
    <2>1. ASSUME NEW i \in 1 .. n
          PROVE  [obj |-> order[i], val |-> 0, quiet |-> FALSE] \in DeletesOn(stales)
      <3>1. order[i] \in stales /\ order[i] \in Objects
        BY <1>4 DEF stales, Stale, Objects
      <3> QED
        BY <3>1, ZeroFits DEF DeletesOn, CallsOn, Call
    <2> QED
      BY <1>1, <2>1
  <1> HIDE DEF calls
  <1>7. ASSUME NEW q \in stales PROVE Covers(calls, q)
    BY <1>5, <1>6 DEF Covers
  <1>8. calls \in Seq(DeletesOn(Queues))
    BY <1>6, Widen DEF stales, Stale
  <1> QED
    BY <1>2, <1>6, <1>7, <1>8 DEF stales, Stale

(* divideResources: a share is at least one GPU and at most all of them. *)
LEMMA ShareFits ==
  ASSUME NEW c \in Nat, NEW n \in Nat \ {0}, c >= n, NEW i \in 1 .. n
  PROVE  Share(c, n, i) \in 1 .. c
  <1>1. PICK q \in Int, r \in Int : q = c \div n /\ r = c % n
    OBVIOUS
  <1>2. c = n * q + r /\ 0 <= r /\ r < n
    BY <1>1
  <1>3. q >= 1
    <2>1. q <= 0 => n * q <= 0
      BY <1>1
    <2> QED
      BY <1>1, <1>2, <2>1
  <1>4. n * q >= q
    BY <1>3
  <1> QED
    BY <1>1, <1>2, <1>3, <1>4 DEF Share

(* Queues with a share each, their flavor, and the queues to be removed. *)
LEMMA KueueList ==
  ASSUME copy \in PolicyType, NEW c \in clusterResources,
         NEW O, "kueue" \in CRDs => "flavor" \in O /\ Queues \subseteq O
  PROVE  /\ KueueCalls(c) \in Seq(CallsOn(O))
         /\ isClusterPolicyBeingDeleted => KueueCalls(c) \in Seq(DeletesOn(O))
         /\ isClusterPolicyBeingDeleted /\ "kueue" \in CRDs =>
               \A q \in Queues : store[q] # 0 => Covers(KueueCalls(c), q)
  <1> DEFINE n == Len(copy.spec.equalResources)
  <1>0. CASE "kueue" \notin CRDs
    <2>1. KueueCalls(c) = <<>>
      BY <1>0 DEF KueueCalls
    <2> QED
      BY <1>0, <2>1, EmptySeq
  <1>1. CASE "kueue" \in CRDs
    <2>1. /\ "flavor" \in Objects /\ Fits("flavor", 1)
          /\ "flavor" \in O /\ Queues \subseteq O
      BY <1>1, ConstantsAssumption DEF Objects, Operands, Fits, WithClaim
    <2>2. /\ TryDel("flavor") \in Seq(DeletesOn(O))
          /\ modifyResourceFlavor \in Seq(CallsOn(O))
      BY <2>1, OneCall, Zenon DEF modifyResourceFlavor, LoggedOnly
    <2>3. \A expected : /\ StaleCalls(expected) \in Seq(DeletesOn(O))
                        /\ StaleCalls(expected) \in Seq(CallsOn(O))
      BY <2>1, StaleList, Widen, Zenon
    <2>4. /\ removeKueueCalls \in Seq(DeletesOn(O)) /\ removeKueueCalls \in Seq(CallsOn(O))
          /\ \A q \in Queues : store[q] # 0 => Covers(removeKueueCalls, q)
      <3>1. \A q \in Queues : store[q] # 0 => Covers(StaleCalls({}), q)
        BY StaleList
      <3>2. /\ removeKueueCalls \in Seq(DeletesOn(O))
            /\ \A q : Covers(StaleCalls({}), q) => Covers(removeKueueCalls, q)
        BY <2>2, <2>3, BothLists DEF removeKueueCalls
      <3> QED
        BY <3>1, <3>2, Widen
    <2>5. CASE isClusterPolicyBeingDeleted \/ ~copy.spec.enableKueue
      <3>1. KueueCalls(c) = removeKueueCalls
        BY <1>1, <2>5 DEF KueueCalls
      <3> QED
        BY <2>4, <3>1
    <2>6. CASE ~isClusterPolicyBeingDeleted /\ copy.spec.enableKueue
      <3>0. n \in Nat /\ copy.spec.equalResources \in Seq(Queues)
        BY ConstantsAssumption, LenProperties DEF PolicyType, SpecType
      <3>1. CASE n = 0
        <4>1. KueueCalls(c) = StaleCalls({})
          BY <1>1, <2>6, <3>1 DEF KueueCalls
        <4> QED
          BY <2>3, <2>6, <4>1
      <3>2. CASE n # 0
        <4>1. c \in Capacities /\ c \in Nat
          <5>1. copy.life = "live"
            BY <2>6 DEF isClusterPolicyBeingDeleted
          <5>2. copy.spec.equalResources # <<>>
            BY <3>2, EmptySeq
          <5> QED
            BY <1>1, <2>6, <5>1, <5>2, ConstantsAssumption
               DEF clusterResources, CountsResources
        <4>2. c >= n => createKueueQueues(c) \in Seq(CallsOn(O))
          <5>1. ASSUME NEW i \in 1 .. n, c >= n
                PROVE  [obj |-> copy.spec.equalResources[i], val |-> Share(c, n, i),
                        quiet |-> FALSE] \in CallsOn(O)
            <6>1. PICK q \in Queues : q = copy.spec.equalResources[i]
              BY <3>0, ElementOfSeq
            <6>2. PICK v \in 1 .. c : v = Share(c, n, i)
              BY <3>0, <3>2, <4>1, <5>1, ShareFits, Zenon
            <6>3. Fits(q, v)
              BY <4>1, <6>1, <6>2, ConstantsAssumption DEF Fits
            <6>4. [obj |-> q, val |-> v, quiet |-> FALSE] \in CallsOn(O)
              BY <2>1, <4>1, <6>3 DEF CallsOn, Call, Objects
            <6> QED
              BY <6>1, <6>2, <6>4
          <5>2. c >= n => [i \in 1 .. n |->
                             [obj |-> copy.spec.equalResources[i], val |-> Share(c, n, i),
                              quiet |-> FALSE]] \in Seq(CallsOn(O))
            BY <3>0, <5>1
          <5> QED
            BY <5>2 DEF createKueueQueues
        <4>3. c >= n => modifyResourceFlavor \o createKueueQueues(c) \o StaleCalls(queueNames)
                           \in Seq(CallsOn(O))
          <5>1. c >= n => modifyResourceFlavor \o createKueueQueues(c) \in Seq(CallsOn(O))
            BY <2>2, <4>2, BothLists
          <5> QED
            BY <2>3, <5>1, BothLists
        <4>4. KueueCalls(c) \in Seq(CallsOn(O))
          <5>1. CASE c >= n
            <6>1. KueueCalls(c) =
                    modifyResourceFlavor \o createKueueQueues(c) \o StaleCalls(queueNames)
              BY <1>1, <2>6, <3>0, <3>2, <4>1, <5>1 DEF KueueCalls
            <6> QED
              BY <4>3, <5>1, <6>1
          <5>2. CASE c < n
            <6>1. KueueCalls(c) = <<>> \/ KueueCalls(c) = modifyResourceFlavor
              BY <1>1, <2>6, <3>2, <5>2 DEF KueueCalls
            <6> QED
              BY <2>2, <6>1, EmptySeq, Zenon
          <5> QED
            BY <3>0, <4>1, <5>1, <5>2
        <4> QED
          BY <2>6, <4>4
      <3> QED
        BY <2>6, <3>1, <3>2
    <2> QED
      BY <2>5, <2>6
  <1> QED
    BY <1>0, <1>1

MiscLive(c) == PrometheusCalls \o NfdCalls \o KueueCalls(c)
MiscGone(c) == NfdCalls \o PrometheusCalls \o KueueCalls(c)

(* The misc sub-controller: a policy being deleted loses every monitor,    *)
(* rule and queue there is. *)
LEMMA MiscLists ==
  ASSUME copy \in PolicyType, NEW c \in clusterResources
  PROVE  /\ MiscLive(c) \in Seq(CallsOn(MiscPossible))
         /\ MiscGone(c) \in Seq(CallsOn(MiscPossible))
         /\ isClusterPolicyBeingDeleted =>
               /\ MiscGone(c) \in Seq(DeletesOn(MiscPossible))
               /\ \A o \in MiscPossible \ {"flavor"} :
                     o \notin Queues \/ store[o] # 0 => Covers(MiscGone(c), o)
  <1>0. "kueue" \in CRDs => "flavor" \in MiscPossible /\ Queues \subseteq MiscPossible
    BY ConstantsAssumption DEF MiscPossible, MiscObjects, Impossible, Operands
  <1>1. MiscLive(c) \in Seq(CallsOn(MiscPossible))
    BY <1>0, PrometheusList, NfdList, KueueList, BothLists DEF MiscLive
  <1>2. MiscGone(c) \in Seq(CallsOn(MiscPossible))
    BY <1>0, PrometheusList, NfdList, KueueList, BothLists DEF MiscGone
  <1>3. ASSUME isClusterPolicyBeingDeleted
        PROVE  /\ MiscGone(c) \in Seq(DeletesOn(MiscPossible))
               /\ \A o \in MiscPossible \ {"flavor"} :
                     o \notin Queues \/ store[o] # 0 => Covers(MiscGone(c), o)
    <2> DEFINE two == NfdCalls \o PrometheusCalls
    <2>1. /\ two \in Seq(DeletesOn(MiscPossible))
          /\ \A o : Covers(NfdCalls, o) \/ Covers(PrometheusCalls, o) => Covers(two, o)
      BY <1>3, PrometheusList, NfdList, BothLists
    <2> HIDE DEF two
    <2>2. /\ MiscGone(c) \in Seq(DeletesOn(MiscPossible))
          /\ \A o : Covers(two, o) \/ Covers(KueueCalls(c), o) => Covers(MiscGone(c), o)
      <3>1. two \o KueueCalls(c) = MiscGone(c)
        BY DEF two, MiscGone
      <3>2. KueueCalls(c) \in Seq(DeletesOn(MiscPossible))
        BY <1>0, <1>3, KueueList
      <3>3. LET both == two \o KueueCalls(c)
            IN  /\ both \in Seq(DeletesOn(MiscPossible))
                /\ \A o : Covers(two, o) \/ Covers(KueueCalls(c), o) => Covers(both, o)
        BY <2>1, <3>2, BothLists
      <3> QED
        BY <3>1, <3>3
    <2>3. ASSUME NEW o \in MiscPossible \ {"flavor"}, o \notin Queues \/ store[o] # 0
          PROVE  Covers(NfdCalls, o) \/ Covers(PrometheusCalls, o) \/ Covers(KueueCalls(c), o)
      <3>1. CASE o \in Queues
        BY <1>0, <1>3, <2>3, <3>1, KueueList DEF MiscPossible, Impossible
      <3>2. CASE o \notin Queues
        BY <1>3, <2>3, <3>2, PrometheusList, NfdList DEF MiscPossible, MiscObjects, Impossible
      <3> QED
        BY <3>1, <3>2
    <2> QED
      BY <2>1, <2>2, <2>3
  <1> QED
    BY <1>1, <1>2, <1>3

-----------------------------------------------------------------------------
(* The calls of a step.                                                    *)

(* The step leaves every object outside O alone.                           *)
Touches(O) == Stored' /\ \A o \in Objects \ O : store'[o] = store[o]

(* Whether all calls are made or one fails, only their objects change. *)
LEMMA SomeCalls ==
  ASSUME Stored, NEW O, NEW calls \in Seq(CallsOn(O)), NEW last,
         AllCalls(calls) \/ CallFails(calls, last)
  PROVE  Touches(O)
  <1>1. PICK P \in SUBSET AllOf(calls) : store' = Perform(calls, P)
    BY Zenon DEF AllCalls, CallFails
  <1> QED
    BY <1>1, PerformOn DEF Touches, Stored

(* Deletes that fail leave an object as it was. *)
LEMMA SomeDeletes ==
  ASSUME Stored, NEW O, NEW calls \in Seq(DeletesOn(O)), NEW last,
         AllCalls(calls) \/ CallFails(calls, last), NEW o \in Objects
  PROVE  store'[o] \in {0, store[o]}
  <1>1. PICK P \in SUBSET AllOf(calls) : store' = Perform(calls, P)
    BY Zenon DEF AllCalls, CallFails
  <1> QED
    BY <1>1, PerformDeletes

(* When all are made and only errors of quiet ones are passed over, what   *)
(* the list covers is gone. *)
LEMMA AllDeletes ==
  ASSUME Stored, NEW O, NEW calls \in Seq(DeletesOn(O)), AllCalls(calls),
         NEW o \in Objects, Covers(calls, o)
  PROVE  store'[o] = 0
  <1>1. PICK P \in SUBSET AllOf(calls) :
           store' = Perform(calls, P) /\ \A i \in AllOf(calls) \ P : calls[i].quiet
    BY Zenon DEF AllCalls
  <1> QED
    BY <1>1, PerformDeletes

-----------------------------------------------------------------------------
(* What a list without errors leaves.                                      *)

(* Some call is on o; all that are give it a value of V and are not quiet. *)
Sets(calls, o, V) ==
    /\ \E i \in AllOf(calls) : calls[i].obj = o
    /\ \A i \in AllOf(calls) : calls[i].obj = o => calls[i].val \in V /\ ~calls[i].quiet

(* No call is on o.                                                        *)
Spares(calls, o) == \A i \in AllOf(calls) : calls[i].obj # o

(* An object is what the list sets it to, or stays as it is. *)
LEMMA AllCallsSet ==
  ASSUME NEW S, NEW calls \in Seq(S), AllCalls(calls), NEW o \in Objects
  PROVE  /\ \A V : Sets(calls, o, V) => store'[o] \in V
         /\ Spares(calls, o) => store'[o] = store[o]
  <1>1. PICK P \in SUBSET AllOf(calls) :
           store' = Perform(calls, P) /\ \A i \in AllOf(calls) \ P : calls[i].quiet
    BY Zenon DEF AllCalls
  <1> DEFINE mine == {i \in P : calls[i].obj = o}
             last == Max(mine)
  <1>2. store'[o] = IF mine = {} THEN store[o] ELSE calls[last].val
    BY <1>1, Zenon DEF Perform
  <1>3. mine # {} => last \in mine
    BY LastOne, LenProperties, Zenon DEF AllOf
  <1> HIDE DEF last
  <1>4. ASSUME NEW V, Sets(calls, o, V) PROVE store'[o] \in V
    <2>1. mine # {}
      BY <1>1, <1>4 DEF Sets
    <2>2. calls[last].val \in V
      BY <1>3, <1>4, <2>1 DEF Sets
    <2> QED
      BY <1>2, <2>1, <2>2
  <1>5. ASSUME Spares(calls, o) PROVE store'[o] = store[o]
    BY <1>2, <1>5 DEF Spares
  <1> QED
    BY <1>4, <1>5

(* One list after another: the second may say the same or nothing. *)
LEMMA BothListsSet ==
  ASSUME NEW S, NEW s \in Seq(S), NEW t \in Seq(S), NEW o
  PROVE  /\ \A V : Sets(s, o, V) /\ Spares(t, o) => Sets(s \o t, o, V)
         /\ \A V : Spares(s, o) /\ Sets(t, o, V) => Sets(s \o t, o, V)
         /\ Spares(s, o) /\ Spares(t, o) => Spares(s \o t, o)
  <1>1. /\ Len(s \o t) = Len(s) + Len(t) /\ Len(s) \in Nat /\ Len(t) \in Nat
        /\ \A i \in 1 .. Len(s) + Len(t) :
              (s \o t)[i] = IF i <= Len(s) THEN s[i] ELSE t[i - Len(s)]
    BY ConcatProperties, LenProperties
  <1>2. \A i \in AllOf(s) : i \in AllOf(s \o t) /\ (s \o t)[i] = s[i]
    BY <1>1 DEF AllOf
  <1>3. \A i \in AllOf(t) : i + Len(s) \in AllOf(s \o t) /\ (s \o t)[i + Len(s)] = t[i]
    BY <1>1 DEF AllOf
  <1>4. \A i \in AllOf(s \o t) : \/ i \in AllOf(s) /\ (s \o t)[i] = s[i]
                                 \/ i - Len(s) \in AllOf(t) /\ (s \o t)[i] = t[i - Len(s)]
    BY <1>1 DEF AllOf
  <1>5. ASSUME NEW V, Sets(s, o, V), Spares(t, o) PROVE Sets(s \o t, o, V)
    <2>1. \E i \in AllOf(s \o t) : (s \o t)[i].obj = o
      BY <1>2, <1>5, Zenon DEF Sets
    <2>2. ASSUME NEW i \in AllOf(s \o t), (s \o t)[i].obj = o
          PROVE  (s \o t)[i].val \in V /\ ~(s \o t)[i].quiet
      BY <1>4, <1>5, <2>2, Zenon DEF Sets, Spares
    <2> QED
      BY <2>1, <2>2, Zenon DEF Sets
  <1>6. ASSUME NEW V, Spares(s, o), Sets(t, o, V) PROVE Sets(s \o t, o, V)
    <2>1. \E i \in AllOf(s \o t) : (s \o t)[i].obj = o
      BY <1>3, <1>6, Zenon DEF Sets
    <2>2. ASSUME NEW i \in AllOf(s \o t), (s \o t)[i].obj = o
          PROVE  (s \o t)[i].val \in V /\ ~(s \o t)[i].quiet
      BY <1>4, <1>6, <2>2, Zenon DEF Sets, Spares
    <2> QED
      BY <2>1, <2>2, Zenon DEF Sets
  <1>7. ASSUME Spares(s, o), Spares(t, o) PROVE Spares(s \o t, o)
    BY <1>4, <1>7, Zenon DEF Spares
  <1> QED
    BY <1>5, <1>6, <1>7

(* The list with one call, and the one with none. *)
LEMMA OneCallSets ==
  /\ \A o, v : Sets(Put(o, v), o, {v})
  /\ \A o : Sets(Del(o), o, {0})
  /\ \A o, p, v : p # o => Spares(Put(o, v), p)
  /\ \A o, p : p # o => Spares(Del(o), p) /\ Spares(TryDel(o), p)
  /\ \A p : Spares(<<>>, p)
  <1>1. \A o, v : Sets(Put(o, v), o, {v}) /\ \A p : p # o => Spares(Put(o, v), p)
    BY DEF Put, Sets, Spares, AllOf
  <1>2. \A o : Sets(Del(o), o, {0}) /\ \A p : p # o => Spares(Del(o), p)
    BY DEF Del, Sets, Spares, AllOf
  <1>3. \A o, p : p # o => Spares(TryDel(o), p)
    BY DEF TryDel, Spares, AllOf
  <1>4. \A p : Spares(<<>>, p)
    BY DEF Spares, AllOf
  <1> QED
    BY <1>1, <1>2, <1>3, <1>4, Zenon

(* The SCC of an operand, and the operand. *)
LEMMA WithSCC ==
  ASSUME NEW scc \in Objects, NEW o \in Objects, scc # o, NEW v \in Nat,
         Fits(scc, 1), Fits(o, v), scc \in LoggedOnly
  PROVE  /\ EnsureSCC(scc) \o Put(o, v) \in Seq(CallsOn(Objects))
         /\ Sets(EnsureSCC(scc) \o Put(o, v), o, {v})
         /\ OpenShift => Sets(EnsureSCC(scc) \o Put(o, v), scc, {1})
         /\ DeleteOpenShiftSCCResources(scc) \o Del(o) \in Seq(CallsOn(Objects))
         /\ Sets(DeleteOpenShiftSCCResources(scc) \o Del(o), o, {0})
  <1> DEFINE S == CallsOn(Objects)
  <1>1. /\ EnsureSCC(scc) \in Seq(S) /\ Put(o, v) \in Seq(S)
        /\ DeleteOpenShiftSCCResources(scc) \in Seq(S) /\ Del(o) \in Seq(S)
    <2>1. /\ Put(scc, 1) \in Seq(S) /\ Put(o, v) \in Seq(S)
          /\ TryDel(scc) \in Seq(DeletesOn(Objects)) /\ Del(o) \in Seq(DeletesOn(Objects))
      BY OneCall, Zenon
    <2>2. TryDel(scc) \in Seq(S) /\ Del(o) \in Seq(S)
      BY <2>1, Widen
    <2> HIDE DEF S
    <2> QED
      BY <2>1, <2>2, EmptySeq DEF EnsureSCC, DeleteOpenShiftSCCResources, IfOpenShift
  <1>2. /\ Spares(EnsureSCC(scc), o) /\ Spares(DeleteOpenShiftSCCResources(scc), o)
        /\ Spares(Put(o, v), scc)
        /\ OpenShift => Sets(EnsureSCC(scc), scc, {1})
    <2>1. /\ Spares(Put(scc, 1), o) /\ Spares(TryDel(scc), o) /\ Spares(<<>>, o)
          /\ Sets(Put(scc, 1), scc, {1}) /\ Spares(Put(o, v), scc)
      BY OneCallSets
    <2> QED
      BY <2>1, Zenon DEF EnsureSCC, DeleteOpenShiftSCCResources, IfOpenShift
  <1> HIDE DEF S
  <1>3. /\ Sets(EnsureSCC(scc) \o Put(o, v), o, {v})
        /\ OpenShift => Sets(EnsureSCC(scc) \o Put(o, v), scc, {1})
    BY <1>1, <1>2, OneCallSets, BothListsSet
  <1>4. Sets(DeleteOpenShiftSCCResources(scc) \o Del(o), o, {0})
    BY <1>1, <1>2, OneCallSets, BothListsSet
  <1>5. /\ EnsureSCC(scc) \o Put(o, v) \in Seq(S)
        /\ DeleteOpenShiftSCCResources(scc) \o Del(o) \in Seq(S)
    BY <1>1, BothLists
  <1> QED
    BY <1>3, <1>4, <1>5 DEF S

(* Lists of the sub-controllers name their own objects only. *)
LEMMA ListsSpare ==
  ASSUME NEW O, NEW o
  PROVE  /\ \A calls \in Seq(CallsOn(O)) : o \notin O => Spares(calls, o)
         /\ \A calls \in Seq(DeletesOn(O)) :
               Covers(calls, o) /\ o \notin LoggedOnly => Sets(calls, o, {0})
  <1>1. ASSUME NEW calls \in Seq(CallsOn(O)), o \notin O PROVE Spares(calls, o)
    <2>1. \A i \in AllOf(calls) : calls[i] \in CallsOn(O)
      BY ElementOfSeq DEF AllOf
    <2> QED
      BY <1>1, <2>1 DEF Spares, CallsOn
  <1>2. ASSUME NEW calls \in Seq(DeletesOn(O)), Covers(calls, o), o \notin LoggedOnly
        PROVE  Sets(calls, o, {0})
    <2>1. \A i \in AllOf(calls) : calls[i] \in DeletesOn(O)
      BY ElementOfSeq DEF AllOf
    <2>2. \E i \in AllOf(calls) : calls[i].obj = o
      BY <1>2 DEF Covers, AllOf
    <2>3. \A i \in AllOf(calls) : calls[i].obj = o => calls[i].val = 0 /\ ~calls[i].quiet
      BY <1>2, <2>1 DEF DeletesOn, CallsOn
    <2> QED
      BY <2>2, <2>3 DEF Sets
  <1> QED
    BY <1>1, <1>2

(* Queues that are not expected are gone or were not there; others are     *)
(* left alone. *)
LEMMA StaleSets ==
  ASSUME NEW expected, NEW q \in Queues
  PROVE  /\ StaleCalls(expected) \in Seq(CallsOn(Queues))
         /\ q \in expected \/ store[q] = 0 => Spares(StaleCalls(expected), q)
         /\ q \notin expected /\ store[q] # 0 => Sets(StaleCalls(expected), q, {0})
         /\ Spares(StaleCalls(expected), "flavor")
  <1> DEFINE calls == StaleCalls(expected)
  <1>1. /\ calls \in Seq(DeletesOn(Stale(expected))) /\ calls \in Seq(DeletesOn(Queues))
        /\ q \notin expected /\ store[q] # 0 => Covers(calls, q)
    BY StaleList
  <1>2. calls \in Seq(CallsOn(Stale(expected))) /\ calls \in Seq(CallsOn(Queues))
    BY <1>1, Widen
  <1>3. q \notin LoggedOnly /\ "flavor" \notin Queues
    BY ConstantsAssumption DEF LoggedOnly, Operands
  <1> HIDE DEF calls
  <1>4. q \in expected \/ store[q] = 0 => Spares(calls, q)
    BY <1>2, ListsSpare DEF Stale
  <1>5. q \notin expected /\ store[q] # 0 => Sets(calls, q, {0})
    BY <1>1, <1>3, ListsSpare
  <1>6. Spares(calls, "flavor")
    BY <1>2, <1>3, ListsSpare
  <1> QED
    BY <1>2, <1>4, <1>5, <1>6 DEF calls

(* createKueueQueues: every queue of the policy with one of the shares of  *)
(* its places. *)
LEMMA QueuesSet ==
  ASSUME copy \in PolicyType, NEW c \in Nat, NEW q \in Queues
  PROVE  LET e == copy.spec.equalResources
             calls == createKueueQueues(c)
         IN  /\ q \in queueNames =>
                   Sets(calls, q, {Share(c, Len(e), i) : i \in {j \in 1 .. Len(e) : e[j] = q}})
             /\ q \notin queueNames => Spares(calls, q)
             /\ Spares(calls, "flavor")
  <1> DEFINE e == copy.spec.equalResources
             n == Len(e)
             calls == createKueueQueues(c)
  <1>0. /\ e \in Seq(Queues) /\ n \in Nat /\ DOMAIN e = 1 .. n
        /\ \A i \in 1 .. n : e[i] \in Queues
    BY ConstantsAssumption, LenProperties, ElementOfSeq DEF PolicyType, SpecType
  <1>1. /\ AllOf(calls) = 1 .. n
        /\ \A i \in 1 .. n : /\ calls[i].obj = e[i] /\ calls[i].val = Share(c, n, i)
                             /\ calls[i].quiet = FALSE
    BY <1>0 DEF createKueueQueues, AllOf
  <1>2. queueNames = {e[i] : i \in 1 .. n}
    BY <1>0 DEF queueNames
  <1>3. "flavor" \notin Queues
    BY ConstantsAssumption DEF Operands
  <1> HIDE DEF calls, n, e
  <1>4. q \in queueNames => Sets(calls, q, {Share(c, n, i) : i \in {j \in 1 .. n : e[j] = q}})
    BY <1>1, <1>2 DEF Sets
  <1>5. /\ q \notin queueNames => Spares(calls, q)
        /\ Spares(calls, "flavor")
    BY <1>0, <1>1, <1>2, <1>3 DEF Spares
  <1> QED
    BY <1>4, <1>5 DEF calls, n, e

(* For a live policy, the list of Kueue gives every queue one of its       *)
(* shares, and removes every other queue; with no GPU it does nothing. *)
LEMMA KueueSets ==
  ASSUME copy \in PolicyType, ~isClusterPolicyBeingDeleted, "kueue" \in CRDs,
         NEW c \in Nat, NEW n \in Nat, n = Len(copy.spec.equalResources),
         copy.spec.enableKueue /\ c # 0 => c >= n
  PROVE  LET s == copy.spec
             e == s.equalResources
             K == KueueCalls(c)
         IN  /\ s.enableKueue /\ n # 0 /\ c # 0 =>
                   /\ Sets(K, "flavor", {1})
                   /\ \A q \in Names(e, n) :
                         Sets(K, q, {Share(c, n, i) : i \in {j \in 1 .. n : e[j] = q}})
             /\ \A q \in Queues :
                   \/ s.enableKueue /\ q \in Names(e, n)
                   \/ s.enableKueue /\ n # 0 /\ c = 0
                   \/ store[q] = 0 /\ Spares(K, q)
                   \/ Sets(K, q, {0})
  <1> DEFINE s == copy.spec
             e == s.equalResources
             K == KueueCalls(c)
  <1>0. /\ e \in Seq(Queues) /\ DOMAIN e = 1 .. n /\ \A i \in 1 .. n : e[i] \in Queues
        /\ queueNames = Names(e, n) /\ Names(e, n) \subseteq Queues
    <2>1. e \in Seq(Queues) /\ DOMAIN e = 1 .. n /\ \A i \in 1 .. n : e[i] \in Queues
      BY ConstantsAssumption, LenProperties, ElementOfSeq DEF PolicyType, SpecType
    <2> QED
      BY <2>1 DEF queueNames, Names
  <1>1. /\ \A q \in Queues : q \notin {"flavor"} /\ q \notin LoggedOnly
        /\ \A expected : StaleCalls(expected) \in Seq(Call)
        /\ modifyResourceFlavor \in Seq(Call) /\ TryDel("flavor") \in Seq(Call)
    <2>1. \A q \in Queues : q \notin {"flavor"} /\ q \notin LoggedOnly
      BY ConstantsAssumption DEF Operands, LoggedOnly
    <2>2. DeletesOn(Queues) \subseteq Call
      BY DEF DeletesOn, CallsOn
    <2>3. \A expected : StaleCalls(expected) \in Seq(Call)
      BY <2>2, StaleList, SeqMonotonic
    <2>4. /\ [obj |-> "flavor", val |-> 1, quiet |-> FALSE] \in Call
          /\ [obj |-> "flavor", val |-> 0, quiet |-> TRUE] \in Call
      BY DEF Call, Objects, Operands
    <2>5. modifyResourceFlavor \in Seq(Call) /\ TryDel("flavor") \in Seq(Call)
      BY <2>4 DEF modifyResourceFlavor, Put, TryDel
    <2> QED
      BY <2>1, <2>3, <2>5
  <1>2. CASE ~s.enableKueue \/ n = 0
    <2>1. K = removeKueueCalls \/ K = StaleCalls({})
      BY <1>2 DEF KueueCalls
    <2>2. ASSUME NEW q \in Queues
          PROVE  \/ store[q] = 0 /\ Spares(StaleCalls({}), q)
                 \/ Sets(StaleCalls({}), q, {0})
      BY StaleSets
    <2>3. ASSUME NEW q \in Queues
          PROVE  \/ store[q] = 0 /\ Spares(removeKueueCalls, q)
                 \/ Sets(removeKueueCalls, q, {0})
      <3>1. Spares(TryDel("flavor"), q)
        BY <1>1, OneCallSets
      <3> QED
        BY <1>1, <2>2, <3>1, BothListsSet DEF removeKueueCalls
    <2> HIDE DEF K
    <2>4. \A q \in Queues : (store[q] = 0 /\ Spares(K, q)) \/ Sets(K, q, {0})
      BY <2>1, <2>2, <2>3
    <2> QED
      BY <1>2, <2>4 DEF K
  <1>3. CASE s.enableKueue /\ n # 0 /\ c # 0
    <2> DEFINE both == modifyResourceFlavor \o createKueueQueues(c)
               shares(q) == {Share(c, n, i) : i \in {j \in 1 .. n : e[j] = q}}
    <2>0. c >= n
      BY <1>3
    <2>1. K = both \o StaleCalls(queueNames)
      BY <1>3, <2>0 DEF KueueCalls
    <2>2. createKueueQueues(c) \in Seq(Call)
      <3>1. \A i \in 1 .. n : Share(c, n, i) \in Nat
        <4>1. \A i \in 1 .. n : Share(c, n, i) \in 1 .. c
          BY <1>3, <2>0, ShareFits, Zenon
        <4> QED
          BY <4>1
      <3>2. \A i \in 1 .. n :
               [obj |-> e[i], val |-> Share(c, n, i), quiet |-> FALSE] \in Call
        BY <1>0, <3>1 DEF Call, Objects
      <3> QED
        BY <3>2 DEF createKueueQueues
    <2>3. both \in Seq(Call)
      BY <1>1, <2>2, BothLists
    <2>4. Sets(modifyResourceFlavor, "flavor", {1})
          /\ \A q \in Queues : Spares(modifyResourceFlavor, q)
      BY <1>1, OneCallSets DEF modifyResourceFlavor
    <2>5. \A q \in Queues : /\ q \in Names(e, n) => Sets(createKueueQueues(c), q, shares(q))
                            /\ q \notin Names(e, n) => Spares(createKueueQueues(c), q)
                            /\ Spares(createKueueQueues(c), "flavor")
      BY <1>0, QueuesSet, Zenon
    <2>6. \A q \in Queues :
             /\ q \in Names(e, n) \/ store[q] = 0 => Spares(StaleCalls(queueNames), q)
             /\ q \notin Names(e, n) /\ store[q] # 0 => Sets(StaleCalls(queueNames), q, {0})
             /\ Spares(StaleCalls(queueNames), "flavor")
      BY <1>0, StaleSets, Zenon
    <2>7. PICK q0 \in Queues : TRUE
      BY <1>0, <1>3
    <2> HIDE DEF shares, K
    <2>8. Sets(both, "flavor", {1})
          /\ \A q \in Queues : /\ q \in Names(e, n) => Sets(both, q, shares(q))
                               /\ q \notin Names(e, n) => Spares(both, q)
      BY <1>1, <2>2, <2>4, <2>5, <2>7, BothListsSet
    <2> HIDE DEF both
    <2>9. Sets(K, "flavor", {1})
      BY <1>1, <2>1, <2>3, <2>6, <2>7, <2>8, BothListsSet
    <2>10. ASSUME NEW q \in Names(e, n) PROVE Sets(K, q, shares(q))
      BY <1>0, <1>1, <2>1, <2>3, <2>6, <2>8, BothListsSet
    <2>11. ASSUME NEW q \in Queues, q \notin Names(e, n)
           PROVE  (store[q] = 0 /\ Spares(K, q)) \/ Sets(K, q, {0})
      BY <1>1, <2>1, <2>3, <2>6, <2>8, <2>11, BothListsSet
    <2> QED
      BY <1>3, <2>9, <2>10, <2>11 DEF K, shares
  <1>4. CASE s.enableKueue /\ n # 0 /\ c = 0
    BY <1>4
  <1> QED
    BY <1>2, <1>3, <1>4

(* Monitor, service and rule of a live policy. *)
LEMMA PrometheusNfdSets ==
  ASSUME ~isClusterPolicyBeingDeleted
  PROVE  /\ \A o \in {"monitor", "service"} : "prometheus" \in CRDs =>
               Sets(PrometheusCalls, o, {IF copy.spec.resourceMonitoring
                                            /\ copy.spec.prometheusIntegration THEN 1 ELSE 0})
         /\ \A o : o \notin {"monitor", "service"} => Spares(PrometheusCalls, o)
         /\ "nfd" \in CRDs =>
               Sets(NfdCalls, "nfd", {IF copy.spec.useNFDLabeling THEN 1 ELSE 0})
         /\ \A o : o # "nfd" => Spares(NfdCalls, o)
  <1> DEFINE made == Put("monitor", 1) \o Put("service", 1)
             gone == Del("monitor") \o Del("service")
  <1>1. /\ Put("monitor", 1) \in Seq(Call) /\ Put("service", 1) \in Seq(Call)
        /\ Del("monitor") \in Seq(Call) /\ Del("service") \in Seq(Call)
    <2>1. \A o \in {"monitor", "service"}, v \in {0, 1} :
             [obj |-> o, val |-> v, quiet |-> FALSE] \in Call
      BY DEF Call, Objects, Operands
    <2> QED
      BY <2>1 DEF Put, Del
  <1>2. /\ \A o \in {"monitor", "service"} : Sets(made, o, {1}) /\ Sets(gone, o, {0})
        /\ \A o : o \notin {"monitor", "service"} => Spares(made, o) /\ Spares(gone, o)
    <2>1. /\ Sets(Put("monitor", 1), "monitor", {1}) /\ Spares(Put("monitor", 1), "service")
          /\ Sets(Put("service", 1), "service", {1}) /\ Spares(Put("service", 1), "monitor")
          /\ Sets(Del("monitor"), "monitor", {0}) /\ Spares(Del("monitor"), "service")
          /\ Sets(Del("service"), "service", {0}) /\ Spares(Del("service"), "monitor")
      BY OneCallSets
    <2>2. /\ Sets(made, "monitor", {1}) /\ Sets(made, "service", {1})
          /\ Sets(gone, "monitor", {0}) /\ Sets(gone, "service", {0})
      BY <1>1, <2>1, BothListsSet
    <2>3. ASSUME NEW o, o \notin {"monitor", "service"}
          PROVE  Spares(made, o) /\ Spares(gone, o)
      <3>1. /\ Spares(Put("monitor", 1), o) /\ Spares(Put("service", 1), o)
            /\ Spares(Del("monitor"), o) /\ Spares(Del("service"), o)
        BY <2>3, OneCallSets
      <3> QED
        BY <1>1, <3>1, BothListsSet
    <2> HIDE DEF made, gone
    <2> QED
      BY <2>2, <2>3
  <1> HIDE DEF made, gone
  <1>3. /\ \A o \in {"monitor", "service"} : "prometheus" \in CRDs =>
              Sets(PrometheusCalls, o, {IF copy.spec.resourceMonitoring
                                           /\ copy.spec.prometheusIntegration THEN 1 ELSE 0})
        /\ \A o : o \notin {"monitor", "service"} => Spares(PrometheusCalls, o)
    <2>1. CASE "prometheus" \notin CRDs
      BY <2>1, OneCallSets DEF PrometheusCalls
    <2>2. CASE /\ "prometheus" \in CRDs
               /\ copy.spec.resourceMonitoring /\ copy.spec.prometheusIntegration
      <3>1. PrometheusCalls = made
        BY <2>2 DEF PrometheusCalls, made
      <3> QED
        BY <1>2, <2>2, <3>1
    <2>3. CASE /\ "prometheus" \in CRDs
               /\ ~(copy.spec.resourceMonitoring /\ copy.spec.prometheusIntegration)
      <3>1. PrometheusCalls = gone
        BY <2>3 DEF PrometheusCalls, gone
      <3> QED
        BY <1>2, <2>3, <3>1
    <2> QED
      BY <2>1, <2>2, <2>3
  <1>4. /\ "nfd" \in CRDs => Sets(NfdCalls, "nfd", {IF copy.spec.useNFDLabeling THEN 1 ELSE 0})
        /\ \A o : o # "nfd" => Spares(NfdCalls, o)
    BY OneCallSets, Zenon DEF NfdCalls
  <1> QED
    BY <1>3, <1>4

(* The three lists have no object in common. *)
LEMMA MiscSets ==
  ASSUME copy \in PolicyType, ~isClusterPolicyBeingDeleted, NEW c \in clusterResources
  PROVE  /\ MiscLive(c) \in Seq(CallsOn(MiscObjects))
         /\ \A o \in {"monitor", "service"} : \A V :
               Sets(PrometheusCalls, o, V) => Sets(MiscLive(c), o, V)
         /\ \A V : Sets(NfdCalls, "nfd", V) => Sets(MiscLive(c), "nfd", V)
         /\ \A o \in {"flavor"} \cup Queues :
               /\ \A V : Sets(KueueCalls(c), o, V) => Sets(MiscLive(c), o, V)
               /\ Spares(KueueCalls(c), o) => Spares(MiscLive(c), o)
  <1> DEFINE S == CallsOn(MiscPossible)
             two == PrometheusCalls \o NfdCalls
             K == KueueCalls(c)
             Own == {"flavor"} \cup Queues
  <1>1. PrometheusCalls \in Seq(S) /\ NfdCalls \in Seq(S) /\ K \in Seq(S)
    <2>1. "kueue" \in CRDs => "flavor" \in MiscPossible /\ Queues \subseteq MiscPossible
      BY ConstantsAssumption DEF MiscPossible, MiscObjects, Impossible, Operands
    <2> QED
      BY <2>1, PrometheusList, NfdList, KueueList
  <1>2. K \in Seq(CallsOn(Own))
    BY KueueList
  <1>3. /\ "monitor" \notin Own /\ "service" \notin Own /\ "nfd" \notin Own
    BY ConstantsAssumption DEF Operands
  <1>4. Spares(K, "monitor") /\ Spares(K, "service") /\ Spares(K, "nfd")
    BY <1>2, <1>3, ListsSpare, Zenon
  <1>5. MiscLive(c) = two \o K /\ MiscLive(c) \in Seq(CallsOn(MiscObjects))
    <2>1. MiscPossible \subseteq MiscObjects
      BY DEF MiscPossible
    <2>2. MiscLive(c) \in Seq(S)
      BY MiscLists
    <2> QED
      BY <2>1, <2>2, Widen, Zenon DEF MiscLive
  <1> HIDE DEF S, K, Own
  <1>6. two \in Seq(S)
    BY <1>1, BothLists
  <1>7. /\ \A o \in {"monitor", "service"} : \A V : Sets(PrometheusCalls, o, V) => Sets(two, o, V)
        /\ \A V : Sets(NfdCalls, "nfd", V) => Sets(two, "nfd", V)
        /\ \A o \in Own : Spares(two, o)
    <2>1. /\ Spares(NfdCalls, "monitor") /\ Spares(NfdCalls, "service")
          /\ Spares(PrometheusCalls, "nfd")
          /\ \A o \in Own : Spares(PrometheusCalls, o) /\ Spares(NfdCalls, o)
      BY <1>3, PrometheusNfdSets
    <2> QED
      BY <1>1, <2>1, BothListsSet
  <1> HIDE DEF two
  <1>8. /\ \A o \in {"monitor", "service"} : \A V :
              Sets(PrometheusCalls, o, V) => Sets(MiscLive(c), o, V)
        /\ \A V : Sets(NfdCalls, "nfd", V) => Sets(MiscLive(c), "nfd", V)
    BY <1>1, <1>4, <1>5, <1>6, <1>7, BothListsSet
  <1>9. \A o \in Own : /\ \A V : Sets(K, o, V) => Sets(MiscLive(c), o, V)
                       /\ Spares(K, o) => Spares(MiscLive(c), o)
    BY <1>1, <1>5, <1>6, <1>7, BothListsSet
  <1> QED
    BY <1>5, <1>8, <1>9 DEF K, Own
=============================================================================
