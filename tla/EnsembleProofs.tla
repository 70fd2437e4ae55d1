---------------------------- MODULE EnsembleProofs ----------------------------
(***************************************************************************)
(* The rate limits of the router under an ensemble and the results of the  *)
(* ensemble, for any templates, providers, orders of priority, limits,     *)
(* windows and replies.                                                    *)
(***************************************************************************)
EXTENDS Ensemble, Sequences, TotalsTheorems, TLAPS

States == {"idle", "calling", "sleeping", "done"}

\* The estimates that wait at a provider, for an answer or before a retry.
At(p) == {t \in Template : pc[t] \in {"calling", "sleeping"} /\ Priority[pos[t]] = p}

Types ==
    /\ calls \in [Provider -> [0 .. DayLen -> Nat]]
    /\ pc \in [Template -> States]
    /\ pos \in [Template -> Nat]
    /\ \A t \in Template : pc[t] \in {"calling", "sleeping"} => pos[t] \in 1 .. Len(Priority)

\* The calls of the last minute, by age, and how many they are in a minute and a day.
Minute(w) == [a \in 0 .. MinuteLen |-> w[a]]
InMinute(p) == Total(Minute(calls[p]))
InDay(p) == Total(calls[p])

\* Whoever waits at a provider may still record a call, so room is kept for it.
Bounded ==
    \A p \in Provider :
        /\ InMinute(p) + Cardinality(At(p)) <= Router!Overshoot(Rpm[p])
        /\ InDay(p) + Cardinality(At(p)) <= Router!Overshoot(Rpd[p])

RateInv == Types /\ Bounded

-----------------------------------------------------------------------------
(* The router's sums and cardinalities are those of this module.           *)

LEMMA SameFinite == \A S : Router!IsFiniteSet(S) <=> IsFiniteSet(S)
BY DEF IsFiniteSet, Router!IsFiniteSet

LEMMA SameCardinality == \A S : Router!Cardinality(S) = Cardinality(S)
BY DEF Cardinality, Router!Cardinality

LEMMA SameTotal == \A f : Router!Total(f) = Total(f)
<1>1. \A f : Router!Units(f) = Units(f)
  BY DEF Units, Router!Units
<1>2. QED
  BY <1>1, SameCardinality DEF Total, Router!Total

\* The windows of can_call.
LEMMA SameWindows ==
    ASSUME NEW p \in Provider
    PROVE  Router!InMinute(p) = InMinute(p) /\ Router!InDay(p) = InDay(p)
BY SameTotal DEF Router!InMinute, Router!InDay, InMinute, InDay, Minute

-----------------------------------------------------------------------------
(* Windows and estimates, as numbers.                                      *)

\* What the proofs use of the assumptions.
LEMMA Constants ==
    /\ IsFiniteSet(Template)
    /\ Priority \in Seq(Provider)
    /\ Rpm \in [Provider -> Nat] /\ Rpd \in [Provider -> Nat]
    /\ MinuteLen \in Nat /\ DayLen \in Nat /\ MinuteLen <= DayLen
BY EnsembleAssumption, SameFinite DEF Router!RouterAssumption

USE Constants

\* The keys of both windows are finitely many.
LEMMA AgesFinite == IsFiniteSet(0 .. MinuteLen) /\ IsFiniteSet(0 .. DayLen)
<1>1. 0 \in Int /\ MinuteLen \in Int /\ DayLen \in Int
  OBVIOUS
<1>2. QED
  BY <1>1, FS_Interval, Zenon

\* The calls of a window, and those of its first minute, are natural numbers.
LEMMA WindowTypes ==
    ASSUME NEW w \in [0 .. DayLen -> Nat]
    PROVE  /\ Minute(w) \in [0 .. MinuteLen -> Nat]
           /\ Total(Minute(w)) \in Nat /\ Total(w) \in Nat
<1>1. Minute(w) \in [0 .. MinuteLen -> Nat]
  BY DEF Minute
<1>2. QED
  BY <1>1, AgesFinite, TotalType

\* One more call in a window.
LEMMA WindowAdd ==
    ASSUME NEW len \in Nat, NEW w \in [0 .. len -> Nat]
    PROVE  Total([w EXCEPT ![0] = @ + 1]) = Total(w) + 1
<1>1. IsFiniteSet(0 .. len) /\ 0 \in 0 .. len
  <2>1. 0 \in Int /\ len \in Int
    OBVIOUS
  <2>2. IsFiniteSet(0 .. len)
    BY <2>1, FS_Interval, Zenon
  <2>3. QED
    BY <2>2
<1>2. \A f \in [0 .. len -> Nat], k \in 0 .. len, n \in Nat :
        Total([f EXCEPT ![k] = @ + n]) = Total(f) + n
  BY <1>1, TotalAdd
<1>3. QED
  BY <1>1, <1>2

\* The templates are finitely many, and so are those at a provider.
LEMMA AtTypes ==
    ASSUME NEW S \in SUBSET Template
    PROVE  /\ IsFiniteSet(S) /\ Cardinality(S) \in Nat
           /\ Cardinality(Template) \in Nat /\ Cardinality(S) <= Cardinality(Template)
BY FS_Subset, FS_CardinalityType

\* What the templates may make of a limit.
LEMMA OvershootValue ==
    ASSUME NEW limit \in Nat
    PROVE  /\ Router!Overshoot(limit) = IF limit = 0 THEN 0 ELSE limit - 1 + Cardinality(Template)
           /\ Router!Overshoot(limit) \in Nat
<1>1. Template \in SUBSET Template
  OBVIOUS
<1>2. Cardinality(Template) \in Nat
  BY <1>1, AtTypes
<1>3. Router!Overshoot(limit) = IF limit = 0 THEN 0 ELSE limit - 1 + Cardinality(Template)
  BY SameCardinality DEF Router!Overshoot
<1>4. QED
  BY <1>2, <1>3

-----------------------------------------------------------------------------
(* The steps of an estimate that record nothing.                           *)

\* Estimates may come to a provider if it had room for a call when they did.
LEMMA ArrivalsBounded ==
    ASSUME RateInv, calls' = calls,
           \A p \in Provider : At(p)' \subseteq At(p) \/ Router!CanCall(p)
    PROVE  Bounded'
<1> SUFFICES ASSUME NEW p \in Provider
             PROVE  /\ InMinute(p)' + Cardinality(At(p)') <= Router!Overshoot(Rpm[p])
                    /\ InDay(p)' + Cardinality(At(p)') <= Router!Overshoot(Rpd[p])
  BY DEF Bounded
<1>1. InMinute(p) \in Nat /\ InDay(p) \in Nat
  BY WindowTypes DEF RateInv, Types, InMinute, InDay
<1>2. InMinute(p)' = InMinute(p) /\ InDay(p)' = InDay(p)
  BY DEF InMinute, InDay, Minute
<1>3. At(p) \in SUBSET Template /\ At(p)' \in SUBSET Template
  BY DEF At
<1>4. /\ Cardinality(At(p)) \in Nat /\ Cardinality(At(p)') \in Nat
      /\ Cardinality(Template) \in Nat /\ Cardinality(At(p)') <= Cardinality(Template)
      /\ IsFiniteSet(At(p))
  BY <1>3, AtTypes
<1>5. /\ InMinute(p) + Cardinality(At(p)) <= Router!Overshoot(Rpm[p])
      /\ InDay(p) + Cardinality(At(p)) <= Router!Overshoot(Rpd[p])
  BY DEF RateInv, Bounded
<1>6. Rpm[p] \in Nat /\ Rpd[p] \in Nat
  OBVIOUS
<1>7. CASE At(p)' \subseteq At(p)
  <2>1. Cardinality(At(p)') <= Cardinality(At(p))
    BY <1>4, <1>7, FS_Subset
  <2>2. Router!Overshoot(Rpm[p]) \in Nat /\ Router!Overshoot(Rpd[p]) \in Nat
    BY <1>6, OvershootValue
  <2>3. QED
    BY <1>1, <1>2, <1>4, <1>5, <2>1, <2>2
<1>8. CASE Router!CanCall(p)
  <2>1. InMinute(p) < Rpm[p] /\ InDay(p) < Rpd[p]
    BY <1>8, SameWindows DEF Router!CanCall
  <2>2. /\ Rpm[p] # 0 /\ Rpd[p] # 0
        /\ InMinute(p) <= Rpm[p] - 1 /\ InDay(p) <= Rpd[p] - 1
    BY <1>1, <1>6, <2>1
  <2>3. /\ Router!Overshoot(Rpm[p]) = Rpm[p] - 1 + Cardinality(Template)
        /\ Router!Overshoot(Rpd[p]) = Rpd[p] - 1 + Cardinality(Template)
    BY <1>6, <2>2, OvershootValue
  <2>4. QED
    BY <1>1, <1>2, <1>4, <1>6, <2>2, <2>3
<1>9. QED
  BY <1>7, <1>8

\* The loop over the providers stops at one that can be called, or ends.
LEMMA RouteBounded ==
    ASSUME RateInv, calls' = calls, NEW t \in Template, NEW from \in Nat \ {0}, NEW window,
           Router!Route(t, from, window)
    PROVE  RateInv'
<1> DEFINE waiting == {i \in from .. Len(Priority) : Router!Waits(i)}
           next == CHOOSE i \in waiting : \A j \in waiting : i <= j
<1>0. Types
  BY DEF RateInv
<1>1. CASE waiting = {}
  <2>1. pc' = [pc EXCEPT ![t] = "done"] /\ pos' = [pos EXCEPT ![t] = 1]
    BY <1>1 DEF Router!Route, Router!Return
  <2>2. Types'
    BY <1>0, <2>1 DEF Types, States
  <2>3. \A p \in Provider : At(p)' \subseteq At(p)
    BY <1>0, <2>1 DEF Types, At
  <2>4. QED
    BY <2>2, <2>3, ArrivalsBounded DEF RateInv
<1>2. CASE waiting # {}
  <2>0. Len(Priority) \in Nat
    OBVIOUS
  <2>1. waiting \in SUBSET Nat
    BY <2>0
  <2>2. \E i \in waiting : \A j \in waiting : i <= j
    BY <2>1, <1>2, LeastExists
  <2>3. next \in waiting
    BY <2>2
  <2>4. /\ pc' = [pc EXCEPT ![t] = IF Router!HasKey(next) THEN "calling" ELSE "sleeping"]
        /\ pos' = [pos EXCEPT ![t] = next]
    BY <1>2 DEF Router!Route
  <2>5. next \in 1 .. Len(Priority) /\ Router!CanCall(Priority[next])
    BY <2>0, <2>3 DEF Router!Waits
  <2> HIDE DEF next
  <2>6. Types'
    <3>1. pc' \in [Template -> States] /\ pos' \in [Template -> Nat]
      BY <1>0, <2>0, <2>4, <2>5, SMTT(30) DEF Types, States
    <3>2. \A u \in Template : pc'[u] \in {"calling", "sleeping"} => pos'[u] \in 1 .. Len(Priority)
      BY <1>0, <2>4, <2>5 DEF Types
    <3>3. QED
      BY <1>0, <3>1, <3>2 DEF Types
  <2>7. \A p \in Provider : At(p)' \subseteq At(p) \/ Router!CanCall(p)
    <3>1. \A p \in Provider : p # Priority[next] => At(p)' \subseteq At(p)
      BY <1>0, <2>4 DEF Types, At
    <3>2. QED
      BY <3>1, <2>5
  <2>8. QED
    BY <2>6, <2>7, ArrivalsBounded DEF RateInv
<1>3. QED
  BY <1>1, <1>2

\* After a failure an estimate stays at its provider, or goes on to the next.
LEMMA AfterFailureBounded ==
    ASSUME RateInv, calls' = calls, NEW t \in Template, pc[t] \in {"calling", "sleeping"},
           NEW n, NEW window, Router!AfterFailure(t, n, window)
    PROVE  RateInv'
<1>0. Types
  BY DEF RateInv
<1>1. pos[t] + 1 \in Nat \ {0}
  <2>1. pos[t] \in Nat
    BY <1>0 DEF Types
  <2>2. QED
    BY <2>1
<1>2. CASE Router!Sleep(t, n)
  <2>1. pc' = [pc EXCEPT ![t] = "sleeping"] /\ pos' = pos
    BY <1>2 DEF Router!Sleep
  <2>2. Types'
    BY <1>0, <2>1 DEF Types, States
  <2>3. \A p \in Provider : At(p)' \subseteq At(p)
    BY <1>0, <2>1 DEF Types, At
  <2>4. QED
    BY <2>2, <2>3, ArrivalsBounded DEF RateInv
<1>3. CASE Router!Route(t, pos[t] + 1, window)
  BY <1>1, <1>3, RouteBounded
<1>4. QED
  BY <1>2, <1>3 DEF Router!AfterFailure

LEMMA WakeBounded ==
    ASSUME RateInv, NEW t \in Template, Router!Wake(t)
    PROVE  RateInv'
<1>0. Types /\ calls' = calls /\ pc[t] = "sleeping"
  BY DEF RateInv, Router!Wake
<1>1. CASE Router!HasKey(pos[t])
  <2>1. pc' = [pc EXCEPT ![t] = "calling"] /\ pos' = pos
    BY <1>1 DEF Router!Wake
  <2>2. Types'
    BY <1>0, <2>1 DEF Types, States
  <2>3. \A p \in Provider : At(p)' \subseteq At(p)
    BY <1>0, <2>1 DEF Types, At
  <2>4. QED
    BY <1>0, <2>2, <2>3, ArrivalsBounded DEF RateInv
<1>2. CASE ~Router!HasKey(pos[t])
  <2>1. Router!AfterFailure(t, attempt[t] + 1, net)
    BY <1>2 DEF Router!Wake
  <2>2. QED
    BY <1>0, <2>1, AfterFailureBounded
<1>3. QED
  BY <1>1, <1>2

-----------------------------------------------------------------------------
(* The steps that move the windows.                                        *)

\* An estimate that records its call leaves the provider at the same time.
LEMMA SuccessBounded ==
    ASSUME RateInv, NEW t \in Template, pc[t] = "calling", NEW result,
           Router!Return(t, result), calls' = Router!Recorded(Priority[pos[t]])
    PROVE  RateInv'
<1>0. Types
  BY DEF RateInv
<1>1. pc' = [pc EXCEPT ![t] = "done"] /\ pos' = [pos EXCEPT ![t] = 1]
  BY DEF Router!Return
<1>2. PICK q \in Provider : q = Priority[pos[t]]
  <2>1. pos[t] \in 1 .. Len(Priority)
    BY <1>0 DEF Types
  <2>2. QED
    BY <2>1
<1>3. calls' = [calls EXCEPT ![q] = [calls[q] EXCEPT ![0] = @ + 1]]
  BY <1>2 DEF Router!Recorded, Router!Counted
<1>4. Types'
  <2>1. 0 \in 0 .. DayLen
    OBVIOUS
  <2>2. calls[q] \in [0 .. DayLen -> Nat]
    BY <1>0, <1>2 DEF Types
  <2>3. [calls[q] EXCEPT ![0] = @ + 1] \in [0 .. DayLen -> Nat]
    BY <2>1, <2>2
  <2>4. calls' \in [Provider -> [0 .. DayLen -> Nat]]
    BY <1>0, <1>3, <2>3 DEF Types
  <2>5. QED
    BY <1>0, <1>1, <2>4 DEF Types, States
<1>5. ASSUME NEW p \in Provider, p # q
      PROVE  /\ At(p)' = At(p)
             /\ InMinute(p)' = InMinute(p) /\ InDay(p)' = InDay(p)
  <2>1. calls'[p] = calls[p]
    BY <1>0, <1>3, <1>5 DEF Types
  <2>2. t \notin At(p)
    BY <1>2, <1>5 DEF At
  <2>3. At(p)' = At(p)
    BY <1>0, <1>1, <2>2 DEF Types, At
  <2>4. QED
    BY <2>1, <2>3 DEF InMinute, InDay, Minute
<1>6. At(q)' = At(q) \ {t}
  BY <1>0, <1>1 DEF Types, At
<1>7. Cardinality(At(q)') = Cardinality(At(q)) - 1 /\ Cardinality(At(q)) \in Nat
  <2>1. At(q) \in SUBSET Template
    BY DEF At
  <2>2. IsFiniteSet(At(q)) /\ Cardinality(At(q)) \in Nat
    BY <2>1, AtTypes
  <2>3. t \in At(q)
    BY <1>2 DEF At
  <2>4. Cardinality(At(q) \ {t}) = Cardinality(At(q)) - 1
    BY <2>2, <2>3, FS_RemoveElement
  <2>5. QED
    BY <1>6, <2>2, <2>4
<1>8. InMinute(q)' = InMinute(q) + 1 /\ InDay(q)' = InDay(q) + 1
  <2> DEFINE w == calls[q]
  <2>1. w \in [0 .. DayLen -> Nat] /\ Minute(w) \in [0 .. MinuteLen -> Nat]
    BY <1>0, <1>2, WindowTypes DEF Types
  <2>2. calls'[q] = [w EXCEPT ![0] = @ + 1]
    BY <1>0, <1>2, <1>3 DEF Types
  <2>3. 0 \in 0 .. DayLen /\ 0 \in 0 .. MinuteLen /\ 1 \in Nat
    OBVIOUS
  <2>4. 0 .. MinuteLen \subseteq 0 .. DayLen
    OBVIOUS
  <2> HIDE DEF w
  <2>5. Minute([w EXCEPT ![0] = @ + 1]) = [Minute(w) EXCEPT ![0] = @ + 1]
    BY <2>1, <2>3, <2>4 DEF Minute
  <2>6. Total([Minute(w) EXCEPT ![0] = @ + 1]) = Total(Minute(w)) + 1
    BY <2>1, WindowAdd
  <2>7. Total([w EXCEPT ![0] = @ + 1]) = Total(w) + 1
    BY <2>1, WindowAdd
  <2>8. InDay(q)' = InDay(q) + 1
    BY <2>2, <2>7 DEF InDay, w
  <2>9. InMinute(q)' = Total(Minute(calls'[q]))
    BY DEF InMinute, Minute
  <2>10. InMinute(q)' = InMinute(q) + 1
    BY <2>2, <2>5, <2>6, <2>9 DEF InMinute, w
  <2>11. QED
    BY <2>8, <2>10
<1>9. InMinute(q) \in Nat /\ InDay(q) \in Nat
  BY <1>0, <1>2, WindowTypes DEF Types, InMinute, InDay
<1>10. /\ InMinute(q)' + Cardinality(At(q)') = InMinute(q) + Cardinality(At(q))
       /\ InDay(q)' + Cardinality(At(q)') = InDay(q) + Cardinality(At(q))
  <2>1. PICK minute, day, waiting, others :
           /\ minute = InMinute(q) /\ day = InDay(q) /\ waiting = Cardinality(At(q))
           /\ others = Cardinality(At(q)')
    OBVIOUS
  <2>2. /\ InMinute(q)' = minute + 1 /\ InDay(q)' = day + 1
        /\ others = waiting - 1 /\ minute \in Nat /\ day \in Nat /\ waiting \in Nat
    BY <1>7, <1>8, <1>9, <2>1, Zenon
  <2>3. (minute + 1) + others = minute + waiting /\ (day + 1) + others = day + waiting
    BY <2>2
  <2>4. QED
    BY <2>1, <2>2, <2>3, Zenon
<1>11. ASSUME NEW p \in Provider
       PROVE  /\ InMinute(p)' + Cardinality(At(p)') <= Router!Overshoot(Rpm[p])
              /\ InDay(p)' + Cardinality(At(p)') <= Router!Overshoot(Rpd[p])
  <2>1. /\ InMinute(p) + Cardinality(At(p)) <= Router!Overshoot(Rpm[p])
        /\ InDay(p) + Cardinality(At(p)) <= Router!Overshoot(Rpd[p])
    BY DEF RateInv, Bounded
  <2>2. CASE p # q
    BY <1>5, <2>1, <2>2, Zenon
  <2>3. CASE p = q
    BY <1>10, <2>1, <2>3, Zenon
  <2>4. QED
    BY <2>2, <2>3
<1>12. Bounded'
  BY <1>11 DEF Bounded
<1>13. QED
  BY <1>4, <1>12 DEF RateInv

\* As time passes the windows can only lose calls.
LEMMA TickBounded ==
    ASSUME RateInv, Router!Tick
    PROVE  RateInv'
<1>0. Types /\ pc' = pc /\ pos' = pos
  BY DEF RateInv, Router!Tick
<1>1. calls' = [p \in Provider |->
                  [a \in 0 .. DayLen |-> IF a = 0 THEN 0 ELSE calls[p][a - 1]]]
  <2>1. \A p \in Provider : DOMAIN calls[p] = 0 .. DayLen
    BY <1>0 DEF Types
  <2>2. QED
    BY <2>1 DEF Router!Tick, Router!Aged
<1>2. Types'
  <2>1. \A p \in Provider :
          [a \in 0 .. DayLen |-> IF a = 0 THEN 0 ELSE calls[p][a - 1]] \in [0 .. DayLen -> Nat]
    BY <1>0 DEF Types
  <2>2. calls' \in [Provider -> [0 .. DayLen -> Nat]]
    BY <1>1, <2>1
  <2>3. QED
    BY <1>0, <2>2 DEF Types
<1>3. ASSUME NEW p \in Provider
      PROVE  /\ InMinute(p)' + Cardinality(At(p)') <= Router!Overshoot(Rpm[p])
             /\ InDay(p)' + Cardinality(At(p)') <= Router!Overshoot(Rpd[p])
  <2> DEFINE w == calls[p]
             aged == [a \in 0 .. DayLen |-> IF a = 0 THEN 0 ELSE w[a - 1]]
  <2>1. w \in [0 .. DayLen -> Nat] /\ Minute(w) \in [0 .. MinuteLen -> Nat]
    BY <1>0, WindowTypes DEF Types
  <2>2. calls'[p] = aged
    BY <1>1
  <2>3. aged \in [0 .. DayLen -> Nat]
    BY <2>1
  <2> HIDE DEF w
  <2>4. Total(aged) <= Total(w)
    BY <2>1, TotalShift
  <2>5. Minute(aged) = [a \in 0 .. MinuteLen |-> IF a = 0 THEN 0 ELSE Minute(w)[a - 1]]
    BY DEF Minute
  <2> HIDE DEF aged
  <2>6. Total(Minute(aged)) <= Total(Minute(w))
    BY <2>1, <2>5, TotalShift
  <2>7. /\ InMinute(p) = Total(Minute(w)) /\ InDay(p) = Total(w)
        /\ InMinute(p)' = Total(Minute(aged)) /\ InDay(p)' = Total(aged)
    BY <2>2 DEF InMinute, InDay, Minute, w
  <2>8. /\ Total(Minute(w)) \in Nat /\ Total(w) \in Nat
        /\ Total(Minute(aged)) \in Nat /\ Total(aged) \in Nat
    BY <2>1, <2>3, WindowTypes
  <2>9. At(p)' = At(p) /\ At(p) \in SUBSET Template
    BY <1>0 DEF At
  <2>10. Cardinality(At(p)) \in Nat
    BY <2>9, AtTypes
  <2>11. /\ InMinute(p) + Cardinality(At(p)) <= Router!Overshoot(Rpm[p])
         /\ InDay(p) + Cardinality(At(p)) <= Router!Overshoot(Rpd[p])
    BY DEF RateInv, Bounded
  <2>12. Router!Overshoot(Rpm[p]) \in Nat /\ Router!Overshoot(Rpd[p]) \in Nat
    BY OvershootValue
  <2>13. QED
    BY <2>4, <2>6, <2>7, <2>8, <2>9, <2>10, <2>11, <2>12
<1>4. Bounded'
  BY <1>3 DEF Bounded
<1>5. QED
  BY <1>2, <1>4 DEF RateInv

-----------------------------------------------------------------------------
(* The whole ensemble.                                                     *)

\* Windows are empty at first and nothing waits.
LEMMA InitBounded == Init => RateInv
<1> SUFFICES ASSUME Init PROVE RateInv
  OBVIOUS
<1>1. /\ calls = [p \in Provider |-> [a \in 0 .. DayLen |-> 0]]
      /\ pc = [t \in Template |-> "idle"] /\ pos = [t \in Template |-> 1]
  BY DEF Init, Router!Init, Router!Empty
<1>2. Types
  BY <1>1 DEF Types, States
<1>3. ASSUME NEW p \in Provider
      PROVE  /\ InMinute(p) = 0 /\ InDay(p) = 0
             /\ Cardinality(At(p)) = 0
             /\ 0 <= Router!Overshoot(Rpm[p]) /\ 0 <= Router!Overshoot(Rpd[p])
  <2>1. calls[p] = [a \in 0 .. DayLen |-> 0]
    BY <1>1
  <2>2. Minute(calls[p]) = [a \in 0 .. MinuteLen |-> 0]
    BY <2>1 DEF Minute
  <2>3. InMinute(p) = 0 /\ InDay(p) = 0
    BY <2>1, <2>2, TotalZero DEF InMinute, InDay
  <2>4. At(p) = {}
    BY <1>1 DEF At
  <2>5. Cardinality(At(p)) = 0
    BY <2>4, FS_EmptySet
  <2>6. Router!Overshoot(Rpm[p]) \in Nat /\ Router!Overshoot(Rpd[p]) \in Nat
    BY OvershootValue
  <2>7. QED
    BY <2>3, <2>5, <2>6
<1>4. QED
  BY <1>2, <1>3 DEF RateInv, Bounded

LEMMA StepBounded ==
    ASSUME RateInv, NEW t \in Template, Router!Start(t) \/ Router!Step(t)
    PROVE  RateInv'
<1>1. CASE Router!Start(t)
  <2>1. Router!Route(t, 1, net) /\ calls' = calls /\ 1 \in Nat \ {0}
    BY <1>1 DEF Router!Start
  <2>2. QED
    BY <2>1, RouteBounded
<1>2. ASSUME pc[t] = "calling", Router!Failure(t) PROVE RateInv'
  <2>1. /\ calls' = calls
        /\ Router!AfterFailure(t, attempt[t], [net EXCEPT ![Priority[pos[t]]] = Router!Counted(@, -1)])
    BY <1>2 DEF Router!Failure
  <2>2. QED
    BY <1>2, <2>1, AfterFailureBounded
<1>3. ASSUME NEW reply \in Replies, Router!Answered(t, reply) PROVE RateInv'
  <2> DEFINE e == Router!Estimate(Priority[pos[t]], reply)
  <2>1. /\ pc[t] = "calling"
        /\ \/ Router!Return(t, e) /\ calls' = Router!Recorded(Priority[pos[t]])
           \/ Router!Failure(t)
    BY <1>3 DEF Router!Answered
  <2>2. QED
    BY <2>1, <1>2, SuccessBounded
<1>4. CASE Router!Refused(t)
  BY <1>2, <1>4 DEF Router!Refused
<1>5. CASE Router!Wake(t)
  BY <1>5, WakeBounded
<1>6. QED
  BY <1>1, <1>3, <1>4, <1>5 DEF Router!Step

\* Steps that leave the trackers and start or end no wait.
LEMMA QuietBounded ==
    ASSUME RateInv, calls' = calls, pos' = pos,
           pc' \in [Template -> States],
           \A t \in Template : pc'[t] \in {"calling", "sleeping"} => pc'[t] = pc[t]
    PROVE  RateInv'
<1>0. Types
  BY DEF RateInv
<1>1. Types'
  BY <1>0 DEF Types
<1>2. \A p \in Provider : At(p)' \subseteq At(p)
  BY DEF At
<1>3. QED
  BY <1>1, <1>2, ArrivalsBounded DEF RateInv

LEMMA NextBounded == RateInv /\ [Next]_vars => RateInv'
<1> SUFFICES ASSUME RateInv, [Next]_vars PROVE RateInv'
  OBVIOUS
<1>0. pc \in [Template -> States]
  BY DEF RateInv, Types
<1>1. CASE Ask
  <2>1. calls' = calls /\ pos' = pos /\ pc' = pc
    BY <1>1 DEF Ask, routerVars
  <2>2. QED
    BY <1>0, <2>1, QuietBounded
<1>2. ASSUME NEW t \in Template, StartEstimate(t) \/ StepEstimate(t) PROVE RateInv'
  BY <1>2, StepBounded DEF StartEstimate, StepEstimate
<1>3. CASE Gather
  <2>1. /\ calls' = calls /\ pos' = pos
        /\ pc' = [t \in Template |-> IF t \in asked THEN "idle" ELSE pc[t]]
    BY <1>3 DEF Gather, Router!Take
  <2>2. /\ pc' \in [Template -> States]
        /\ \A t \in Template : pc'[t] \in {"calling", "sleeping"} => pc'[t] = pc[t]
    BY <1>0, <2>1 DEF States
  <2>3. QED
    BY <2>1, <2>2, QuietBounded
<1>4. CASE Tick
  BY <1>4, TickBounded DEF Tick
<1>5. CASE UNCHANGED vars
  <2>1. calls' = calls /\ pos' = pos /\ pc' = pc
    BY <1>5 DEF vars, routerVars
  <2>2. QED
    BY <1>0, <2>1, QuietBounded
<1>6. QED
  BY <1>1, <1>2, <1>3, <1>4, <1>5 DEF Next

-----------------------------------------------------------------------------

\* The calls a provider's tracker has recorded in a minute, and in a day, exceed
\* its limit by the estimates under way less one at most (can_call and
\* record_call, with awaits between them).
THEOREM RatesBounded == Spec => []RecordedWithinOvershoot
<1>1. RateInv => RecordedWithinOvershoot
  <2> SUFFICES ASSUME RateInv, NEW p \in Provider
               PROVE  /\ InMinute(p) <= Router!Overshoot(Rpm[p])
                      /\ InDay(p) <= Router!Overshoot(Rpd[p])
    BY SameWindows DEF RecordedWithinOvershoot, Router!RecordedWithinOvershoot
  <2>1. InMinute(p) \in Nat /\ InDay(p) \in Nat
    BY WindowTypes DEF RateInv, Types, InMinute, InDay
  <2>2. At(p) \in SUBSET Template
    BY DEF At
  <2>3. Cardinality(At(p)) \in Nat
    BY <2>2, AtTypes
  <2>4. Router!Overshoot(Rpm[p]) \in Nat /\ Router!Overshoot(Rpd[p]) \in Nat
    BY OvershootValue
  <2>5. QED
    BY <2>1, <2>3, <2>4 DEF RateInv, Bounded
<1>2. QED
  BY InitBounded, NextBounded, <1>1, PTL DEF Spec


-----------------------------------------------------------------------------
(* Requests and failures.  A window of history holds requests less         *)
(* failures, so its sum is that of what is above zero less that of what is *)
(* below.                                                                  *)

\* A window up to some age.
Upto(w, k) == [a \in 0 .. k |-> w[a]]

\* Up to every age, the requests that did not fail are calls that were recorded or
\* are among n that are under way.
Covers(c, n, w) ==
    \A k \in 0 .. MinuteLen :
        Total(Router!Above(Upto(w, k))) <= Total(Upto(c, k)) + Total(Router!Below(Upto(w, k))) + n

\* Both parts of a history are windows of natural numbers.
LEMMA PartTypes ==
    ASSUME NEW k \in Nat, NEW f \in [0 .. k -> Int]
    PROVE  /\ Router!Above(f) \in [0 .. k -> Nat] /\ Router!Below(f) \in [0 .. k -> Nat]
           /\ Total(Router!Above(f)) \in Nat /\ Total(Router!Below(f)) \in Nat
<1>1. Router!Above(f) \in [0 .. k -> Nat] /\ Router!Below(f) \in [0 .. k -> Nat]
  BY DEF Router!Above, Router!Below
<1>2. IsFiniteSet(0 .. k)
  <2>1. 0 \in Int /\ k \in Int
    OBVIOUS
  <2>2. QED
    BY <2>1, FS_Interval, Zenon
<1>3. QED
  BY <1>1, <1>2, TotalType

\* One more at age 0 makes the sum of a history one more.
LEMMA PartsAdd ==
    ASSUME NEW k \in Nat, NEW f \in [0 .. k -> Int], NEW g \in [0 .. k -> Int],
           g = [f EXCEPT ![0] = @ + 1]
    PROVE  Total(Router!Above(g)) + Total(Router!Below(f))
              = Total(Router!Above(f)) + Total(Router!Below(g)) + 1
<1>1. /\ Router!Above(f) \in [0 .. k -> Nat] /\ Router!Below(f) \in [0 .. k -> Nat]
      /\ Router!Above(g) \in [0 .. k -> Nat] /\ Router!Below(g) \in [0 .. k -> Nat]
      /\ Total(Router!Above(f)) \in Nat /\ Total(Router!Below(f)) \in Nat
      /\ Total(Router!Above(g)) \in Nat /\ Total(Router!Below(g)) \in Nat
  BY PartTypes
<1>2. 0 \in 0 .. k /\ g[0] = f[0] + 1 /\ f[0] \in Int /\ \A a \in 0 .. k : a # 0 => g[a] = f[a]
  OBVIOUS
<1>3. CASE f[0] >= 0
  <2>1. Router!Above(g) = [Router!Above(f) EXCEPT ![0] = @ + 1]
    <3>1. \A a \in 0 .. k : Router!Above(g)[a] =
                               IF a = 0 THEN Router!Above(f)[a] + 1 ELSE Router!Above(f)[a]
      BY <1>2, <1>3 DEF Router!Above
    <3>2. QED
      BY <1>1, <3>1
  <2>2. Router!Below(g) = Router!Below(f)
    BY <1>2, <1>3 DEF Router!Below
  <2>3. Total(Router!Above(g)) = Total(Router!Above(f)) + 1
    BY <1>1, <2>1, WindowAdd
  <2>4. QED
    BY <1>1, <2>2, <2>3
<1>4. CASE f[0] < 0
  <2>1. Router!Below(f) = [Router!Below(g) EXCEPT ![0] = @ + 1]
    <3>1. \A a \in 0 .. k : Router!Below(f)[a] =
                               IF a = 0 THEN Router!Below(g)[a] + 1 ELSE Router!Below(g)[a]
      BY <1>2, <1>4 DEF Router!Below
    <3>2. QED
      BY <1>1, <3>1
  <2>2. Router!Above(g) = Router!Above(f)
    BY <1>2, <1>4 DEF Router!Above
  <2>3. Total(Router!Below(f)) = Total(Router!Below(g)) + 1
    BY <1>1, <2>1, WindowAdd
  <2>4. QED
    BY <1>1, <2>2, <2>3
<1>5. QED
  BY <1>2, <1>3, <1>4

\* As time passes both parts move to the next age.
LEMMA PartsMoved ==
    ASSUME NEW k \in Nat, NEW f \in [0 .. k -> Int]
    PROVE  /\ Total(Router!Above([a \in 0 .. k + 1 |-> IF a = 0 THEN 0 ELSE f[a - 1]]))
                 = Total(Router!Above(f))
           /\ Total(Router!Below([a \in 0 .. k + 1 |-> IF a = 0 THEN 0 ELSE f[a - 1]]))
                 = Total(Router!Below(f))
<1> DEFINE g == [a \in 0 .. k + 1 |-> IF a = 0 THEN 0 ELSE f[a - 1]]
<1>1. Router!Above(f) \in [0 .. k -> Nat] /\ Router!Below(f) \in [0 .. k -> Nat]
  BY PartTypes
<1>2. Router!Above(g) = [a \in 0 .. k + 1 |-> IF a = 0 THEN 0 ELSE Router!Above(f)[a - 1]]
  BY DEF Router!Above
<1>3. Router!Below(g) = [a \in 0 .. k + 1 |-> IF a = 0 THEN 0 ELSE Router!Below(f)[a - 1]]
  BY DEF Router!Below
<1>4. \A h \in [0 .. k -> Nat] :
         Total([a \in 0 .. k + 1 |-> IF a = 0 THEN 0 ELSE h[a - 1]]) = Total(h)
  BY TotalMoved
<1>5. QED
  BY <1>1, <1>2, <1>3, <1>4

\* The numbers that are compared.
LEMMA CoverTypes ==
    ASSUME NEW c \in [0 .. DayLen -> Nat], NEW w \in [0 .. MinuteLen -> Int],
           NEW k \in 0 .. MinuteLen
    PROVE  /\ k \in Nat /\ Upto(w, k) \in [0 .. k -> Int] /\ Upto(c, k) \in [0 .. k -> Nat]
           /\ Total(Router!Above(Upto(w, k))) \in Nat /\ Total(Router!Below(Upto(w, k))) \in Nat
           /\ Total(Upto(c, k)) \in Nat
<1>1. k \in Nat
  OBVIOUS
<1>2. Upto(w, k) \in [0 .. k -> Int] /\ Upto(c, k) \in [0 .. k -> Nat]
  BY DEF Upto
<1>3. IsFiniteSet(0 .. k)
  <2>1. 0 \in Int /\ k \in Int
    BY <1>1
  <2>2. QED
    BY <2>1, FS_Interval, Zenon
<1>4. QED
  BY <1>1, <1>2, <1>3, PartTypes, TotalType

\* A request is under way, a failure is not any more.
LEMMA CoversRequest ==
    ASSUME NEW c \in [0 .. DayLen -> Nat], NEW w \in [0 .. MinuteLen -> Int],
           NEW u \in [0 .. MinuteLen -> Int], u = [w EXCEPT ![0] = @ + 1], NEW n \in Nat
    PROVE  Covers(c, n, w) <=> Covers(c, n + 1, u)
<1> SUFFICES ASSUME NEW k \in 0 .. MinuteLen
             PROVE  (Total(Router!Above(Upto(w, k)))
                        <= Total(Upto(c, k)) + Total(Router!Below(Upto(w, k))) + n)
                    <=> (Total(Router!Above(Upto(u, k)))
                        <= Total(Upto(c, k)) + Total(Router!Below(Upto(u, k))) + (n + 1))
  BY DEF Covers
<1>1. Upto(w, k) \in [0 .. k -> Int] /\ Upto(u, k) \in [0 .. k -> Int] /\ k \in Nat
  BY CoverTypes
<1>2. Upto(u, k) = [Upto(w, k) EXCEPT ![0] = @ + 1]
  <2>1. \A a \in 0 .. k : Upto(u, k)[a] = IF a = 0 THEN Upto(w, k)[a] + 1 ELSE Upto(w, k)[a]
    BY DEF Upto
  <2>2. QED
    BY <1>1, <2>1
<1>3. /\ Total(Router!Above(Upto(w, k))) \in Nat /\ Total(Router!Below(Upto(w, k))) \in Nat
      /\ Total(Router!Above(Upto(u, k))) \in Nat /\ Total(Router!Below(Upto(u, k))) \in Nat
      /\ Total(Upto(c, k)) \in Nat
  BY CoverTypes
<1>4. Total(Router!Above(Upto(u, k))) + Total(Router!Below(Upto(w, k)))
         = Total(Router!Above(Upto(w, k))) + Total(Router!Below(Upto(u, k))) + 1
  BY <1>1, <1>2, PartsAdd, ZenonT(40)
<1>5. PICK a \in Nat, b \in Nat, x \in Nat, y \in Nat, recorded \in Nat :
           /\ a = Total(Router!Above(Upto(w, k))) /\ b = Total(Router!Below(Upto(w, k)))
           /\ x = Total(Router!Above(Upto(u, k))) /\ y = Total(Router!Below(Upto(u, k)))
           /\ recorded = Total(Upto(c, k))
  BY <1>3
<1>6. x + b = a + y + 1 => (a <= recorded + b + n <=> x <= recorded + y + (n + 1))
  OBVIOUS
<1>7. QED
  BY <1>4, <1>5, <1>6, Zenon

\* A call that is recorded is not under way any more.
LEMMA CoversSuccess ==
    ASSUME NEW c \in [0 .. DayLen -> Nat], NEW w \in [0 .. MinuteLen -> Int],
           NEW d \in [0 .. DayLen -> Nat], d = [c EXCEPT ![0] = @ + 1], NEW n \in Nat,
           Covers(c, n + 1, w)
    PROVE  Covers(d, n, w)
<1> SUFFICES ASSUME NEW k \in 0 .. MinuteLen
             PROVE  Total(Router!Above(Upto(w, k)))
                       <= Total(Upto(d, k)) + Total(Router!Below(Upto(w, k))) + n
  BY DEF Covers
<1>1. Total(Upto(d, k)) = Total(Upto(c, k)) + 1
  <2>1. k \in Nat /\ Upto(c, k) \in [0 .. k -> Nat] /\ Upto(d, k) \in [0 .. k -> Nat]
    BY CoverTypes
  <2>2. Upto(d, k) = [Upto(c, k) EXCEPT ![0] = @ + 1]
    <3>1. \A a \in 0 .. k : Upto(d, k)[a] = IF a = 0 THEN Upto(c, k)[a] + 1 ELSE Upto(c, k)[a]
      BY DEF Upto
    <3>2. QED
      BY <2>1, <3>1
  <2>3. QED
    BY <2>1, <2>2, WindowAdd
<1>2. /\ Total(Router!Above(Upto(w, k))) \in Nat /\ Total(Router!Below(Upto(w, k))) \in Nat
      /\ Total(Upto(c, k)) \in Nat
  BY CoverTypes
<1>3. Total(Router!Above(Upto(w, k)))
         <= Total(Upto(c, k)) + Total(Router!Below(Upto(w, k))) + (n + 1)
  BY DEF Covers
<1>4. PICK a \in Nat, b \in Nat, recorded \in Nat, more \in Nat :
           /\ a = Total(Router!Above(Upto(w, k))) /\ b = Total(Router!Below(Upto(w, k)))
           /\ recorded = Total(Upto(c, k)) /\ more = Total(Upto(d, k))
  BY <1>1, <1>2, SMTT(30)
<1>5. (more = recorded + 1 /\ a <= recorded + b + (n + 1)) => a <= more + b + n
  OBVIOUS
<1>6. QED
  BY <1>1, <1>3, <1>4, <1>5, Zenon

\* As time passes the history and the tracker age alike.
LEMMA CoversAged ==
    ASSUME NEW c \in [0 .. DayLen -> Nat], NEW w \in [0 .. MinuteLen -> Int], NEW n \in Nat,
           NEW d, NEW u,
           d = [a \in 0 .. DayLen |-> IF a = 0 THEN 0 ELSE c[a - 1]],
           u = [a \in 0 .. MinuteLen |-> IF a = 0 THEN 0 ELSE w[a - 1]],
           Covers(c, n, w)
    PROVE  Covers(d, n, u)
<1> SUFFICES ASSUME NEW k \in 0 .. MinuteLen
             PROVE  Total(Router!Above(Upto(u, k)))
                       <= Total(Upto(d, k)) + Total(Router!Below(Upto(u, k))) + n
  BY DEF Covers
<1>0. d \in [0 .. DayLen -> Nat] /\ u \in [0 .. MinuteLen -> Int]
  BY SMTT(30)
<1>1. CASE k = 0
  <2>1. Router!Above(Upto(u, k)) = [a \in 0 .. k |-> 0]
    BY <1>1 DEF Upto, Router!Above
  <2>2. Total(Router!Above(Upto(u, k))) = 0
    BY <2>1, TotalZero
  <2>3. Total(Upto(d, k)) \in Nat /\ Total(Router!Below(Upto(u, k))) \in Nat
    BY <1>0, CoverTypes
  <2>4. QED
    BY <2>2, <2>3
<1>2. CASE k # 0
  <2>1. PICK j \in 0 .. MinuteLen : k = j + 1
    <3>1. k - 1 \in 0 .. MinuteLen /\ k = (k - 1) + 1
      BY <1>2
    <3>2. QED
      BY <3>1
  <2>2. Upto(u, k) = [a \in 0 .. j + 1 |-> IF a = 0 THEN 0 ELSE Upto(w, j)[a - 1]]
    BY <2>1 DEF Upto
  <2>3. Upto(d, k) = [a \in 0 .. j + 1 |-> IF a = 0 THEN 0 ELSE Upto(c, j)[a - 1]]
    BY <2>1 DEF Upto
  <2>4. j \in Nat /\ Upto(w, j) \in [0 .. j -> Int] /\ Upto(c, j) \in [0 .. j -> Nat]
    BY CoverTypes
  <2>5. /\ Total(Router!Above(Upto(u, k))) = Total(Router!Above(Upto(w, j)))
        /\ Total(Router!Below(Upto(u, k))) = Total(Router!Below(Upto(w, j)))
    <3>1. PICK f \in [0 .. j -> Int] : f = Upto(w, j)
      BY <2>4
    <3>2. \A h \in [0 .. j -> Int] :
            /\ Total(Router!Above([a \in 0 .. j + 1 |-> IF a = 0 THEN 0 ELSE h[a - 1]]))
                  = Total(Router!Above(h))
            /\ Total(Router!Below([a \in 0 .. j + 1 |-> IF a = 0 THEN 0 ELSE h[a - 1]]))
                  = Total(Router!Below(h))
      BY <2>4, PartsMoved
    <3>3. Upto(u, k) = [a \in 0 .. j + 1 |-> IF a = 0 THEN 0 ELSE f[a - 1]]
      BY <2>2, <3>1
    <3>4. QED
      BY <3>1, <3>2, <3>3, Zenon
  <2>6. Total(Upto(d, k)) = Total(Upto(c, j))
    <3>1. \A i \in Nat : \A f \in [0 .. i -> Nat] :
            Total([a \in 0 .. i + 1 |-> IF a = 0 THEN 0 ELSE f[a - 1]]) = Total(f)
      BY TotalMoved
    <3>2. PICK f \in [0 .. j -> Nat] : f = Upto(c, j)
      BY <2>4
    <3>3. Upto(d, k) = [a \in 0 .. j + 1 |-> IF a = 0 THEN 0 ELSE f[a - 1]]
      BY <2>3, <3>2
    <3>4. Total(Upto(d, k)) = Total(f)
      BY <2>4, <3>1, <3>3, ZenonT(40)
    <3>5. QED
      BY <3>2, <3>4
  <2>7. Total(Router!Above(Upto(w, j)))
           <= Total(Upto(c, j)) + Total(Router!Below(Upto(w, j))) + n
    BY DEF Covers
  <2>8. QED
    BY <2>5, <2>6, <2>7
<1>3. QED
  BY <1>1, <1>2

\* The estimates that wait for a provider's answer.
Calling(p) == {t \in Template : pc[t] = "calling" /\ Priority[pos[t]] = p}

Histories == [Provider -> [0 .. MinuteLen -> Int]]

Covered == \A p \in Provider : Covers(calls[p], Cardinality(Calling(p)), net[p])

\* The same without an estimate, whose request is not in the histories any more.
CoveredBut(t, windows) ==
    \A p \in Provider : Covers(calls[p], Cardinality(Calling(p) \ {t}), windows[p])

RequestInv == RateInv /\ net \in Histories /\ Covered

\* The numbers of estimates that wait for an answer are natural, and one counts for one.
LEMMA CallingCounts ==
    ASSUME NEW S \in SUBSET Template, NEW t \in Template
    PROVE  /\ Cardinality(S) \in Nat /\ Cardinality(S \ {t}) \in Nat
           /\ t \in S => Cardinality(S) = Cardinality(S \ {t}) + 1
<1>1. IsFiniteSet(S) /\ Cardinality(S) \in Nat
  BY AtTypes
<1>2. S \ {t} \in SUBSET Template
  OBVIOUS
<1>3. Cardinality(S \ {t}) \in Nat
  BY <1>2, AtTypes
<1>4. t \in S => Cardinality(S \ {t}) = Cardinality(S) - 1
  BY <1>1, FS_RemoveElement
<1>5. QED
  BY <1>1, <1>3, <1>4

\* An estimate that makes no request leaves the others covered.
LEMMA LeaveCovered ==
    ASSUME Types, calls' = calls, NEW t \in Template, NEW windows, CoveredBut(t, windows),
           net' = windows, pc' \in [Template -> States], pc'[t] # "calling",
           \A u \in Template : u # t => pc'[u] = pc[u] /\ pos'[u] = pos[u]
    PROVE  Covered'
<1> SUFFICES ASSUME NEW p \in Provider
             PROVE  Covers(calls'[p], Cardinality(Calling(p)'), net'[p])
  BY DEF Covered
<1>1. Calling(p)' = Calling(p) \ {t}
  BY DEF Calling
<1>2. QED
  BY <1>1, Zenon DEF CoveredBut

\* An estimate that makes a request is under way for it.
LEMMA ArriveCovered ==
    ASSUME Types, calls' = calls, NEW t \in Template, NEW i \in 1 .. Len(Priority),
           NEW windows \in Histories, CoveredBut(t, windows), Router!HasKey(i),
           net' = Router!AfterRequest(windows, i), pc' \in [Template -> States],
           pc'[t] = "calling", pos'[t] = i,
           \A u \in Template : u # t => pc'[u] = pc[u] /\ pos'[u] = pos[u]
    PROVE  net' \in Histories /\ Covered'
<1>1. PICK q \in Provider : q = Priority[i]
  OBVIOUS
<1>2. net' = [windows EXCEPT ![q] = [windows[q] EXCEPT ![0] = @ + 1]]
  BY <1>1 DEF Router!AfterRequest, Router!Counted
<1>3. windows[q] \in [0 .. MinuteLen -> Int] /\ 0 \in 0 .. MinuteLen
  BY DEF Histories
<1>4. net' \in Histories
  <2>1. [windows[q] EXCEPT ![0] = @ + 1] \in [0 .. MinuteLen -> Int]
    BY <1>3
  <2>2. QED
    BY <1>2, <2>1 DEF Histories
<1>5. ASSUME NEW p \in Provider
      PROVE  Covers(calls'[p], Cardinality(Calling(p)'), net'[p])
  <2>1. Covers(calls[p], Cardinality(Calling(p) \ {t}), windows[p])
    BY DEF CoveredBut
  <2>2. CASE p # q
    <3>1. Calling(p)' = Calling(p) \ {t}
      BY <1>1, <2>2 DEF Calling
    <3>2. net'[p] = windows[p]
      BY <1>2, <2>2 DEF Histories
    <3>3. QED
      BY <2>1, <3>1, <3>2, Zenon
  <2>3. CASE p = q
    <3>1. /\ t \in Calling(q)' /\ Calling(q)' \ {t} = Calling(q) \ {t}
          /\ Calling(q)' \in SUBSET Template
      BY <1>1 DEF Calling
    <3>2. PICK n \in Nat : n = Cardinality(Calling(q) \ {t})
      BY <3>1, CallingCounts
    <3>3. Cardinality(Calling(q)') = n + 1
      BY <3>1, <3>2, CallingCounts
    <3>4. PICK c \in [0 .. DayLen -> Nat] : c = calls[q]
      BY DEF Types
    <3>5. PICK w \in [0 .. MinuteLen -> Int] : w = windows[q]
      BY <1>3
    <3>6. PICK u \in [0 .. MinuteLen -> Int] : u = [w EXCEPT ![0] = @ + 1]
      <4>1. 0 \in 0 .. MinuteLen /\ w[0] + 1 \in Int
        BY <1>3
      <4>2. [w EXCEPT ![0] = @ + 1] \in [0 .. MinuteLen -> Int]
        BY <4>1
      <4>3. QED
        BY <4>2
    <3>7. net'[q] = u
      BY <1>2, <3>5, <3>6 DEF Histories
    <3>8. Covers(c, n, w)
      BY <2>1, <2>3, <3>2, <3>4, <3>5, Zenon
    <3>9. Covers(c, n + 1, u)
      BY <3>6, <3>8, CoversRequest
    <3>10. QED
      BY <2>3, <3>3, <3>4, <3>7, <3>9, Zenon
  <2>4. QED
    BY <2>2, <2>3
<1>6. QED
  BY <1>4, <1>5 DEF Covered

\* The loop over the providers makes a request or ends, or waits without a key.
LEMMA RouteCovered ==
    ASSUME Types, calls' = calls, NEW t \in Template, NEW from \in Nat \ {0},
           NEW windows \in Histories, CoveredBut(t, windows), Router!Route(t, from, windows)
    PROVE  net' \in Histories /\ Covered'
<1> DEFINE waiting == {i \in from .. Len(Priority) : Router!Waits(i)}
           next == CHOOSE i \in waiting : \A j \in waiting : i <= j
<1>1. CASE waiting = {}
  <2>1. /\ pc' = [pc EXCEPT ![t] = "done"] /\ pos' = [pos EXCEPT ![t] = 1]
        /\ net' = windows
    BY <1>1 DEF Router!Route, Router!Return
  <2>2. /\ pc' \in [Template -> States] /\ pc'[t] # "calling"
        /\ \A u \in Template : u # t => pc'[u] = pc[u] /\ pos'[u] = pos[u]
    BY <2>1 DEF Types, States
  <2>3. Covered'
    BY <2>1, <2>2, LeaveCovered
  <2>4. QED
    BY <2>1, <2>3
<1>2. CASE waiting # {}
  <2>0. Len(Priority) \in Nat
    OBVIOUS
  <2>1. waiting \in SUBSET Nat
    BY <2>0
  <2>2. \E i \in waiting : \A j \in waiting : i <= j
    BY <2>1, <1>2, LeastExists
  <2>3. next \in waiting
    BY <2>2
  <2>4. /\ pc' = [pc EXCEPT ![t] = IF Router!HasKey(next) THEN "calling" ELSE "sleeping"]
        /\ pos' = [pos EXCEPT ![t] = next]
        /\ net' = Router!AfterRequest(windows, next)
    BY <1>2 DEF Router!Route
  <2>5. next \in 1 .. Len(Priority)
    BY <2>0, <2>3
  <2> HIDE DEF next
  <2>6. /\ pc' \in [Template -> States] /\ pos'[t] = next
        /\ \A u \in Template : u # t => pc'[u] = pc[u] /\ pos'[u] = pos[u]
    BY <2>4, <2>5 DEF Types, States
  <2>7. CASE Router!HasKey(next)
    <3>1. pc'[t] = "calling"
      BY <2>4, <2>7 DEF Types
    <3>2. QED
      BY <2>4, <2>5, <2>6, <2>7, <3>1, ArriveCovered
  <2>8. CASE ~Router!HasKey(next)
    <3>1. pc'[t] # "calling" /\ net' = windows
      BY <2>4, <2>8 DEF Types, Router!AfterRequest
    <3>2. Covered'
      BY <2>6, <3>1, LeaveCovered
    <3>3. QED
      BY <3>1, <3>2
  <2>9. QED
    BY <2>7, <2>8
<1>3. QED
  BY <1>1, <1>2

\* After a failure an estimate sleeps, or goes on to the next provider.
LEMMA AfterFailureCovered ==
    ASSUME Types, calls' = calls, NEW t \in Template, NEW n,
           NEW windows \in Histories, CoveredBut(t, windows),
           Router!AfterFailure(t, n, windows)
    PROVE  net' \in Histories /\ Covered'
<1>1. CASE Router!Sleep(t, n) /\ net' = windows
  <2>1. pc' = [pc EXCEPT ![t] = "sleeping"] /\ pos' = pos
    BY <1>1 DEF Router!Sleep
  <2>2. /\ pc' \in [Template -> States] /\ pc'[t] # "calling"
        /\ \A u \in Template : u # t => pc'[u] = pc[u] /\ pos'[u] = pos[u]
    BY <2>1 DEF Types, States
  <2>3. Covered'
    BY <1>1, <2>2, LeaveCovered
  <2>4. QED
    BY <1>1, <2>3
<1>2. CASE Router!Route(t, pos[t] + 1, windows)
  <2>1. PICK from \in Nat \ {0} : from = pos[t] + 1
    <3>1. pos[t] \in Nat
      BY DEF Types
    <3>2. pos[t] + 1 \in Nat \ {0}
      BY <3>1
    <3>3. QED
      BY <3>2
  <2>2. Router!Route(t, from, windows)
    BY <1>2, <2>1
  <2>3. QED
    BY <2>2, RouteCovered
<1>3. QED
  BY <1>1, <1>2 DEF Router!AfterFailure

\* The others stay covered without an estimate that waits for no answer.
LEMMA CoveredWithout ==
    ASSUME Covered, NEW t \in Template, pc[t] # "calling"
    PROVE  CoveredBut(t, net)
<1>1. \A p \in Provider : Calling(p) \ {t} = Calling(p)
  BY DEF Calling
<1>2. QED
  BY <1>1, Zenon DEF Covered, CoveredBut

\* A failure takes a request out of the history and off those under way.
LEMMA FailureCovered ==
    ASSUME RequestInv, NEW t \in Template, pc[t] = "calling", Router!Failure(t)
    PROVE  net' \in Histories /\ Covered'
<1>0. Types /\ net \in Histories /\ Covered
  BY DEF RequestInv, RateInv
<1>1. PICK q \in Provider : q = Priority[pos[t]]
  <2>1. pos[t] \in 1 .. Len(Priority)
    BY <1>0 DEF Types
  <2>2. QED
    BY <2>1
<1>2. PICK windows : windows = [net EXCEPT ![q] = [net[q] EXCEPT ![0] = @ + -1]]
  OBVIOUS
<1>3. calls' = calls /\ Router!AfterFailure(t, attempt[t], windows)
  BY <1>1, <1>2 DEF Router!Failure, Router!Counted
<1>4. net[q] \in [0 .. MinuteLen -> Int] /\ 0 \in 0 .. MinuteLen /\ net[q][0] \in Int
  BY <1>0 DEF Histories
<1>5. PICK u \in [0 .. MinuteLen -> Int] : u = [net[q] EXCEPT ![0] = @ + -1]
  <2>1. [net[q] EXCEPT ![0] = @ + -1] \in [0 .. MinuteLen -> Int]
    BY <1>4
  <2>2. QED
    BY <2>1
<1>6. windows \in Histories /\ windows[q] = u /\ \A p \in Provider : p # q => windows[p] = net[p]
  BY <1>0, <1>2, <1>5 DEF Histories
<1>7. ASSUME NEW p \in Provider
      PROVE  Covers(calls[p], Cardinality(Calling(p) \ {t}), windows[p])
  <2>1. Covers(calls[p], Cardinality(Calling(p)), net[p])
    BY <1>0 DEF Covered
  <2>2. CASE p # q
    <3>1. Calling(p) \ {t} = Calling(p)
      BY <1>1, <2>2 DEF Calling
    <3>2. QED
      BY <1>6, <2>1, <2>2, <3>1, Zenon
  <2>3. CASE p = q
    <3>1. t \in Calling(q) /\ Calling(q) \in SUBSET Template
      BY <1>1 DEF Calling
    <3>2. PICK n \in Nat : n = Cardinality(Calling(q) \ {t})
      BY <3>1, CallingCounts
    <3>3. Cardinality(Calling(q)) = n + 1
      BY <3>1, <3>2, CallingCounts
    <3>4. PICK c \in [0 .. DayLen -> Nat] : c = calls[q]
      BY <1>0 DEF Types
    <3>5. PICK w \in [0 .. MinuteLen -> Int] : w = net[q]
      BY <1>4
    <3>6. w = [u EXCEPT ![0] = @ + 1]
      <4>1. u = [w EXCEPT ![0] = @ + -1] /\ w[0] \in Int /\ 0 \in 0 .. MinuteLen
        BY <1>4, <1>5, <3>5
      <4>2. u[0] = w[0] + -1 /\ \A a \in 0 .. MinuteLen : a # 0 => w[a] = u[a]
        BY <4>1
      <4>3. w[0] = u[0] + 1
        BY <4>1, <4>2
      <4>4. QED
        BY <4>2, <4>3
    <3>7. Covers(c, n + 1, w)
      BY <2>1, <2>3, <3>3, <3>4, <3>5, Zenon
    <3>8. Covers(c, n, u)
      BY <3>6, <3>7, CoversRequest
    <3>9. QED
      BY <1>6, <2>3, <3>2, <3>4, <3>8, Zenon
  <2>4. QED
    BY <2>2, <2>3
<1>8. CoveredBut(t, windows)
  BY <1>7 DEF CoveredBut
<1>9. PICK n : n = attempt[t]
  OBVIOUS
<1>10. Router!AfterFailure(t, n, windows)
  BY <1>3, <1>9
<1>11. QED
  BY <1>0, <1>3, <1>6, <1>8, <1>10, AfterFailureCovered

\* The sleep before a retry ends: another request, or, without a key, a failure.
LEMMA WakeCovered ==
    ASSUME RequestInv, NEW t \in Template, Router!Wake(t)
    PROVE  net' \in Histories /\ Covered'
<1>0. Types /\ net \in Histories /\ Covered /\ calls' = calls /\ pc[t] = "sleeping"
  BY DEF RequestInv, RateInv, Router!Wake
<1>1. PICK windows \in Histories : windows = net
  BY <1>0
<1>2. CoveredBut(t, windows)
  BY <1>0, <1>1, CoveredWithout
<1>3. PICK i \in 1 .. Len(Priority) : i = pos[t]
  BY <1>0 DEF Types
<1>4. CASE Router!HasKey(i)
  <2>1. /\ pc' = [pc EXCEPT ![t] = "calling"] /\ pos' = pos
        /\ net' = Router!AfterRequest(windows, i)
    BY <1>1, <1>3, <1>4 DEF Router!Wake
  <2>2. /\ pc' \in [Template -> States] /\ pc'[t] = "calling" /\ pos'[t] = i
        /\ \A u \in Template : u # t => pc'[u] = pc[u] /\ pos'[u] = pos[u]
    BY <1>0, <1>3, <2>1 DEF Types, States
  <2>3. QED
    BY <1>0, <1>2, <1>4, <2>1, <2>2, ArriveCovered
<1>5. CASE ~Router!HasKey(i)
  <2>1. PICK n : n = attempt[t] + 1
    OBVIOUS
  <2>2. Router!AfterFailure(t, n, windows)
    BY <1>1, <1>3, <1>5, <2>1 DEF Router!Wake
  <2>3. QED
    BY <1>0, <1>2, <2>2, AfterFailureCovered
<1>6. QED
  BY <1>4, <1>5

\* A request that succeeded is recorded and not under way any more.
LEMMA SuccessCovered ==
    ASSUME RequestInv, NEW t \in Template, pc[t] = "calling", NEW result,
           Router!Return(t, result), calls' = Router!Recorded(Priority[pos[t]]), net' = net
    PROVE  net' \in Histories /\ Covered'
<1>0. Types /\ net \in Histories /\ Covered
  BY DEF RequestInv, RateInv
<1>1. pc' = [pc EXCEPT ![t] = "done"] /\ pos' = [pos EXCEPT ![t] = 1]
  BY DEF Router!Return
<1>2. PICK q \in Provider : q = Priority[pos[t]]
  <2>1. pos[t] \in 1 .. Len(Priority)
    BY <1>0 DEF Types
  <2>2. QED
    BY <2>1
<1>3. calls' = [calls EXCEPT ![q] = [calls[q] EXCEPT ![0] = @ + 1]]
  BY <1>2 DEF Router!Recorded, Router!Counted
<1>4. ASSUME NEW p \in Provider
      PROVE  Covers(calls'[p], Cardinality(Calling(p)'), net'[p])
  <2>1. Covers(calls[p], Cardinality(Calling(p)), net[p])
    BY <1>0 DEF Covered
  <2>2. Calling(p)' = Calling(p) \ {t}
    BY <1>0, <1>1 DEF Calling, Types
  <2>3. CASE p # q
    <3>1. Calling(p)' = Calling(p)
      BY <1>2, <2>2, <2>3 DEF Calling
    <3>2. calls'[p] = calls[p]
      BY <1>0, <1>3, <2>3 DEF Types
    <3>3. QED
      BY <2>1, <3>1, <3>2, Zenon
  <2>4. CASE p = q
    <3>1. t \in Calling(q) /\ Calling(q) \in SUBSET Template
      BY <1>2 DEF Calling
    <3>2. PICK n \in Nat : n = Cardinality(Calling(q) \ {t})
      BY <3>1, CallingCounts
    <3>3. Cardinality(Calling(q)) = n + 1
      BY <3>1, <3>2, CallingCounts
    <3>4. PICK c \in [0 .. DayLen -> Nat] : c = calls[q]
      BY <1>0 DEF Types
    <3>5. PICK w \in [0 .. MinuteLen -> Int] : w = net[q]
      BY <1>0 DEF Histories
    <3>6. PICK d \in [0 .. DayLen -> Nat] : d = [c EXCEPT ![0] = @ + 1]
      <4>1. 0 \in 0 .. DayLen /\ c[0] + 1 \in Nat
        BY SMTT(30)
      <4>2. [c EXCEPT ![0] = @ + 1] \in [0 .. DayLen -> Nat]
        BY <4>1
      <4>3. QED
        BY <4>2
    <3>7. calls'[q] = d
      BY <1>0, <1>3, <3>4, <3>6 DEF Types
    <3>8. Covers(c, n + 1, w)
      BY <2>1, <2>4, <3>3, <3>4, <3>5, Zenon
    <3>9. Covers(d, n, w)
      BY <3>6, <3>8, CoversSuccess
    <3>10. QED
      BY <2>2, <2>4, <3>2, <3>5, <3>7, <3>9, Zenon
  <2>5. QED
    BY <2>3, <2>4
<1>5. QED
  BY <1>0, <1>4 DEF Covered

\* As time passes the trackers and the histories age alike.
LEMMA TickCovered ==
    ASSUME RequestInv, Router!Tick
    PROVE  net' \in Histories /\ Covered'
<1>0. Types /\ net \in Histories /\ Covered /\ pc' = pc /\ pos' = pos
  BY DEF RequestInv, RateInv, Router!Tick
<1>1. calls' = [p \in Provider |->
                  [a \in 0 .. DayLen |-> IF a = 0 THEN 0 ELSE calls[p][a - 1]]]
  <2>1. \A p \in Provider : DOMAIN calls[p] = 0 .. DayLen
    BY <1>0 DEF Types
  <2>2. QED
    BY <2>1 DEF Router!Tick, Router!Aged
<1>2. net' = [p \in Provider |->
                [a \in 0 .. MinuteLen |-> IF a = 0 THEN 0 ELSE net[p][a - 1]]]
  <2>1. \A p \in Provider : DOMAIN net[p] = 0 .. MinuteLen
    BY <1>0 DEF Histories
  <2>2. QED
    BY <2>1 DEF Router!Tick, Router!Aged
<1>3. net' \in Histories
  <2>1. \A p \in Provider :
          [a \in 0 .. MinuteLen |-> IF a = 0 THEN 0 ELSE net[p][a - 1]] \in [0 .. MinuteLen -> Int]
    BY <1>0 DEF Histories
  <2>2. QED
    BY <1>2, <2>1 DEF Histories
<1>4. ASSUME NEW p \in Provider
      PROVE  Covers(calls'[p], Cardinality(Calling(p)'), net'[p])
  <2>1. Calling(p)' = Calling(p) /\ Calling(p) \in SUBSET Template
    BY <1>0 DEF Calling
  <2>2. PICK n \in Nat : n = Cardinality(Calling(p))
    BY <2>1, AtTypes
  <2>3. PICK c \in [0 .. DayLen -> Nat] : c = calls[p]
    BY <1>0 DEF Types
  <2>4. PICK w \in [0 .. MinuteLen -> Int] : w = net[p]
    BY <1>0 DEF Histories
  <2>5. PICK d : d = [a \in 0 .. DayLen |-> IF a = 0 THEN 0 ELSE c[a - 1]]
    OBVIOUS
  <2>6. PICK u : u = [a \in 0 .. MinuteLen |-> IF a = 0 THEN 0 ELSE w[a - 1]]
    OBVIOUS
  <2>7. Covers(c, n, w)
    BY <1>0, <2>2, <2>3, <2>4, Zenon DEF Covered
  <2>8. Covers(d, n, u)
    BY <2>5, <2>6, <2>7, CoversAged, Zenon
  <2>9. calls'[p] = d /\ net'[p] = u
    BY <1>1, <1>2, <2>3, <2>4, <2>5, <2>6
  <2>10. QED
    BY <2>1, <2>2, <2>8, <2>9, Zenon
<1>5. QED
  BY <1>3, <1>4 DEF Covered

\* Steps that make and end no request.
LEMMA QuietCovered ==
    ASSUME RequestInv, calls' = calls, net' = net, pos' = pos,
           \A t \in Template : (pc'[t] = "calling") <=> (pc[t] = "calling")
    PROVE  net' \in Histories /\ Covered'
<1>1. \A p \in Provider : Calling(p)' = Calling(p)
  BY DEF Calling
<1>2. QED
  BY <1>1, Zenon DEF RequestInv, Covered

\* Nothing was requested at first.
LEMMA InitCovered == Init => net \in Histories /\ Covered
<1> SUFFICES ASSUME Init PROVE net \in Histories /\ Covered
  OBVIOUS
<1>1. /\ calls = [p \in Provider |-> [a \in 0 .. DayLen |-> 0]]
      /\ net = [p \in Provider |-> [a \in 0 .. MinuteLen |-> 0]]
      /\ pc = [t \in Template |-> "idle"]
  BY DEF Init, Router!Init, Router!Empty
<1>2. net \in Histories
  BY <1>1 DEF Histories
<1>3. ASSUME NEW p \in Provider, NEW k \in 0 .. MinuteLen
      PROVE  Total(Router!Above(Upto(net[p], k)))
                <= Total(Upto(calls[p], k)) + Total(Router!Below(Upto(net[p], k)))
                      + Cardinality(Calling(p))
  <2>1. Calling(p) \in SUBSET Template
    BY DEF Calling
  <2>2. Cardinality(Calling(p)) \in Nat
    BY <2>1, AtTypes
  <2>3. calls[p] \in [0 .. DayLen -> Nat] /\ net[p] \in [0 .. MinuteLen -> Int]
    BY <1>1
  <2>4. Total(Upto(calls[p], k)) \in Nat /\ Total(Router!Below(Upto(net[p], k))) \in Nat
    BY <2>3, CoverTypes
  <2>5. Router!Above(Upto(net[p], k)) = [a \in 0 .. k |-> 0]
    BY <1>1 DEF Upto, Router!Above
  <2>6. Total(Router!Above(Upto(net[p], k))) = 0
    BY <2>5, TotalZero
  <2>7. QED
    BY <2>2, <2>4, <2>6
<1>4. QED
  BY <1>2, <1>3 DEF Covered, Covers

LEMMA NextCovered == RequestInv /\ [Next]_vars => RequestInv'
<1> SUFFICES ASSUME RequestInv, [Next]_vars PROVE RequestInv'
  OBVIOUS
<1>0. Types /\ net \in Histories /\ Covered /\ RateInv
  BY DEF RequestInv, RateInv
<1> DEFINE Kept == net' \in Histories /\ Covered'
<1>1. CASE Ask \/ UNCHANGED vars
  <2>1. calls' = calls /\ net' = net /\ pos' = pos /\ pc' = pc
    BY <1>1 DEF Ask, vars, routerVars
  <2>2. QED
    BY <2>1, QuietCovered, NextBounded, <1>0 DEF RequestInv
<1>2. ASSUME NEW t \in Template, Router!Start(t) PROVE Kept
  <2>1. pc[t] # "calling" /\ calls' = calls
    BY <1>2 DEF Router!Start
  <2>2. PICK windows \in Histories : windows = net
    BY <1>0
  <2>3. CoveredBut(t, windows)
    BY <1>0, <2>1, <2>2, CoveredWithout
  <2>4. Router!Route(t, 1, windows) /\ 1 \in Nat \ {0}
    BY <1>2, <2>2 DEF Router!Start
  <2>5. QED
    BY <1>0, <2>1, <2>3, <2>4, RouteCovered
<1>3. ASSUME NEW t \in Template, NEW reply \in Replies, Router!Answered(t, reply) PROVE Kept
  <2> DEFINE e == Router!Estimate(Priority[pos[t]], reply)
  <2>1. /\ pc[t] = "calling"
        /\ \/ /\ Router!Return(t, e) /\ calls' = Router!Recorded(Priority[pos[t]])
              /\ net' = net
           \/ Router!Failure(t)
    BY <1>3 DEF Router!Answered
  <2>2. QED
    BY <2>1, SuccessCovered, FailureCovered
<1>4. ASSUME NEW t \in Template, Router!Refused(t) PROVE Kept
  BY <1>4, FailureCovered DEF Router!Refused
<1>5. ASSUME NEW t \in Template, Router!Wake(t) PROVE Kept
  BY <1>5, WakeCovered
<1>6. CASE Gather
  <2>1. /\ calls' = calls /\ net' = net /\ pos' = pos
        /\ pc' = [t \in Template |-> IF t \in asked THEN "idle" ELSE pc[t]]
        /\ \A t \in asked : pc[t] = "done"
    BY <1>6 DEF Gather, Router!Take
  <2>2. \A t \in Template : (pc'[t] = "calling") <=> (pc[t] = "calling")
    BY <2>1
  <2>3. QED
    BY <2>1, <2>2, QuietCovered, NextBounded, <1>0 DEF RequestInv
<1>7. CASE Tick
  <2>1. Kept
    BY <1>7, TickCovered DEF Tick
  <2>2. QED
    BY <2>1, NextBounded, <1>0 DEF RequestInv
<1>8. ASSUME NEW t \in Template, StartEstimate(t) \/ StepEstimate(t) PROVE RequestInv'
  <2>1. Kept
    BY <1>2, <1>3, <1>4, <1>5, <1>8 DEF StartEstimate, StepEstimate, Router!Step
  <2>2. QED
    BY <2>1, NextBounded, <1>0 DEF RequestInv
<1>9. QED
  BY <1>1, <1>6, <1>7, <1>8 DEF Next

-----------------------------------------------------------------------------

\* What a provider gets in a minute, less the requests of that minute that failed,
\* exceeds its limit by the estimates under way less one at most (estimate(),
\* which calls can_call before its attempts and record_call after a success).
THEOREM RequestsBounded == Spec => []RequestsWithinOvershoot
<1>1. RequestInv => RequestsWithinOvershoot
  <2> SUFFICES ASSUME RequestInv, NEW p \in Provider
               PROVE  Total(Router!Above(net[p]))
                         <= Router!Overshoot(Rpm[p]) + Total(Router!Below(net[p]))
    BY SameTotal DEF RequestsWithinOvershoot, Router!RequestsWithinOvershoot
  <2>1. /\ net[p] \in [0 .. MinuteLen -> Int] /\ calls[p] \in [0 .. DayLen -> Nat]
        /\ MinuteLen \in 0 .. MinuteLen
    BY DEF RequestInv, RateInv, Types, Histories
  <2>2. Upto(net[p], MinuteLen) = net[p] /\ Upto(calls[p], MinuteLen) = Minute(calls[p])
    BY <2>1 DEF Upto, Minute
  <2>3. Total(Router!Above(net[p]))
           <= InMinute(p) + Total(Router!Below(net[p])) + Cardinality(Calling(p))
    BY <2>1, <2>2 DEF RequestInv, Covered, Covers, InMinute
  <2>4. InMinute(p) + Cardinality(At(p)) <= Router!Overshoot(Rpm[p])
    BY DEF RequestInv, RateInv, Bounded
  <2>5. Calling(p) \subseteq At(p) /\ At(p) \in SUBSET Template /\ Calling(p) \in SUBSET Template
    BY DEF Calling, At
  <2>6. /\ IsFiniteSet(At(p)) /\ Cardinality(At(p)) \in Nat /\ Cardinality(Calling(p)) \in Nat
    BY <2>5, AtTypes
  <2>7. Cardinality(Calling(p)) <= Cardinality(At(p))
    BY <2>5, <2>6, FS_Subset
  <2>8. /\ Total(Router!Above(net[p])) \in Nat /\ Total(Router!Below(net[p])) \in Nat
        /\ InMinute(p) \in Nat
    BY <2>1, PartTypes, WindowTypes DEF InMinute
  <2>9. Router!Overshoot(Rpm[p]) \in Nat
    BY OvershootValue
  <2>10. QED
    BY <2>3, <2>4, <2>6, <2>7, <2>8, <2>9
<1>2. Init => RequestInv
  BY InitBounded, InitCovered DEF RequestInv
<1>3. QED
  BY NextCovered, <1>1, <1>2, PTL DEF Spec

-----------------------------------------------------------------------------
(* Averages and medians, for functions to 0 .. b.                          *)

\* Sets of numbers up to b have a least and a greatest element.
LEMMA Extremes ==
    ASSUME NEW b \in Nat, NEW S \in SUBSET (0 .. b), S # {}
    PROVE  /\ Min(S) \in S /\ \A x \in S : Min(S) <= x
           /\ Max(S) \in S /\ \A x \in S : Max(S) >= x
<1>1. \E x \in S : \A y \in S : x <= y
  <2>1. S \in SUBSET Nat
    OBVIOUS
  <2>2. QED
    BY <2>1, LeastExists
<1>2. \E x \in S : \A y \in S : x >= y
  <2> DEFINE below == {b - x : x \in S}
  <2>1. below \in SUBSET Nat /\ below # {}
    <3>1. \A x \in S : b - x \in Nat
      OBVIOUS
    <3>2. QED
      BY <3>1
  <2>2. PICK i \in below : \A j \in below : i <= j
    BY <2>1, LeastExists
  <2>3. PICK x \in S : i = b - x
    BY <2>2
  <2>4. \A y \in S : x >= y
    <3>1. SUFFICES ASSUME NEW y \in S PROVE x >= y
      OBVIOUS
    <3>2. b - x <= b - y
      BY <2>2, <2>3
    <3>3. QED
      BY <3>2
  <2>5. QED
    BY <2>4
<1>3. QED
  BY <1>1, <1>2 DEF Min, Max

\* Two parts of a set that are larger together than the set have a member in common.
LEMMA PartsMeet ==
    ASSUME NEW D, IsFiniteSet(D), NEW A \in SUBSET D, NEW B \in SUBSET D,
           Cardinality(A) + Cardinality(B) > Cardinality(D)
    PROVE  \E x \in A : x \in B
<1> SUFFICES ASSUME A \cap B = {} PROVE FALSE
  OBVIOUS
<1>1. IsFiniteSet(A) /\ IsFiniteSet(B) /\ A \cup B \in SUBSET D
  BY FS_Subset
<1>2. Cardinality(A \cup B) = Cardinality(A) + Cardinality(B) - Cardinality({})
  BY <1>1, FS_Union
<1>3. Cardinality({}) = 0
  BY FS_EmptySet
<1>4. Cardinality(A \cup B) <= Cardinality(D)
  BY <1>1, FS_Subset
<1>5. Cardinality(A) \in Nat /\ Cardinality(B) \in Nat /\ Cardinality(D) \in Nat
  BY <1>1, FS_CardinalityType
<1>6. QED
  BY <1>2, <1>3, <1>4, <1>5

\* These are natural numbers, and all other keys have a value of v at least.
LEMMA RankTypes ==
    ASSUME NEW D, IsFiniteSet(D), NEW b \in Nat, NEW f \in [D -> 0 .. b], NEW v \in Nat
    PROVE  /\ Smaller(f, v) \in Nat /\ UpTo(f, v) \in Nat /\ Cardinality(D) \in Nat
           /\ Cardinality({x \in D : f[x] >= v}) = Cardinality(D) - Smaller(f, v)
<1> DEFINE low == {x \in D : f[x] < v}
           high == {x \in D : f[x] >= v}
<1>1. DOMAIN f = D /\ low \in SUBSET D /\ {x \in D : f[x] <= v} \in SUBSET D
  OBVIOUS
<1>2. /\ IsFiniteSet(low) /\ Smaller(f, v) = Cardinality(low) /\ Smaller(f, v) \in Nat
      /\ UpTo(f, v) \in Nat /\ Cardinality(D) \in Nat
  BY <1>1, FS_Subset, FS_CardinalityType DEF Smaller, UpTo
<1>3. high = D \ low /\ D \cap low = low
  OBVIOUS
<1> HIDE DEF low, high
<1>4. Cardinality(D \ low) = Cardinality(D) - Cardinality(D \cap low)
  BY FS_Difference
<1>5. QED
  BY <1>2, <1>3, <1>4 DEF high

\* What sorting puts at a rank is there, and has that rank.
LEMMA NthRank ==
    ASSUME NEW D, IsFiniteSet(D), NEW b \in Nat, NEW f \in [D -> 0 .. b],
           NEW k \in Nat, k < Cardinality(D)
    PROVE  /\ Nth(f, k) \in 0 .. b
           /\ Smaller(f, Nth(f, k)) <= k /\ k < UpTo(f, Nth(f, k))
<1> DEFINE reached == {v \in 0 .. b : k < UpTo(f, v)}
<1>1. reached # {}
  <2>1. {x \in D : f[x] <= b} = D /\ DOMAIN f = D /\ b \in 0 .. b
    OBVIOUS
  <2>2. b \in reached
    BY <2>1 DEF UpTo
  <2>3. QED
    BY <2>2
<1>2. PICK v \in reached : \A u \in reached : v <= u
  <2>1. reached \in SUBSET Nat
    OBVIOUS
  <2>2. QED
    BY <1>1, <2>1, LeastExists
<1>3. v \in 0 .. b /\ k < UpTo(f, v)
  OBVIOUS
<1>4. Smaller(f, v) <= k
  <2>1. CASE v = 0
    <3>1. {x \in DOMAIN f : f[x] < v} = {}
      BY <2>1
    <3>2. Smaller(f, v) = 0
      BY <3>1, FS_EmptySet, Zenon DEF Smaller
    <3>3. QED
      BY <3>2
  <2>2. CASE v # 0
    <3>1. v - 1 \in 0 .. b /\ v - 1 \notin reached
      BY <1>2, <1>3, <2>2
    <3>2. ~(k < UpTo(f, v - 1))
      BY <3>1
    <3>3. {x \in DOMAIN f : f[x] < v} = {x \in DOMAIN f : f[x] <= v - 1}
      BY <1>3
    <3>4. Smaller(f, v) = UpTo(f, v - 1)
      BY <3>3 DEF Smaller, UpTo
    <3>5. v - 1 \in Nat
      BY <3>1
    <3>6. UpTo(f, v - 1) \in Nat
      BY <3>5, RankTypes
    <3>7. QED
      BY <3>2, <3>4, <3>6
  <2>3. QED
    BY <2>1, <2>2
<1>5. v \in Range(f)
  <2>1. SUFFICES ASSUME v \notin Range(f) PROVE FALSE
    OBVIOUS
  <2>2. \A x \in DOMAIN f : f[x] # v
    BY <2>1 DEF Range
  <2>3. {x \in DOMAIN f : f[x] < v} = {x \in DOMAIN f : f[x] <= v}
    BY <1>3, <2>2
  <2>4. Smaller(f, v) = UpTo(f, v)
    BY <2>3 DEF Smaller, UpTo
  <2>5. v \in Nat
    BY <1>3
  <2>6. Smaller(f, v) \in Nat
    BY <2>5, RankTypes
  <2>7. QED
    BY <1>3, <1>4, <2>4, <2>6
<1>6. /\ Nth(f, k) \in Range(f)
      /\ Smaller(f, Nth(f, k)) <= k /\ UpTo(f, Nth(f, k)) > k
  BY <1>3, <1>4, <1>5 DEF Nth, Smaller, UpTo
<1>7. Range(f) \subseteq 0 .. b
  BY DEF Range
<1>8. Nth(f, k) \in 0 .. b
  BY <1>6, <1>7
<1>9. UpTo(f, Nth(f, k)) \in Nat
  <2>1. \A u \in Nat : UpTo(f, u) \in Nat
    BY RankTypes
  <2>2. QED
    BY <1>8, <2>1
<1>10. QED
  BY <1>6, <1>8, <1>9

\* A higher rank has no smaller value.
LEMMA NthOrdered ==
    ASSUME NEW D, IsFiniteSet(D), NEW b \in Nat, NEW f \in [D -> 0 .. b],
           NEW k \in Nat, k + 1 < Cardinality(D)
    PROVE  Nth(f, k) <= Nth(f, k + 1)
<1>1. Cardinality(D) \in Nat
  BY FS_CardinalityType
<1>2. /\ Nth(f, k) \in 0 .. b /\ Smaller(f, Nth(f, k)) <= k
      /\ Nth(f, k + 1) \in 0 .. b /\ k + 1 < UpTo(f, Nth(f, k + 1))
  <2>1. k + 1 \in Nat /\ k < Cardinality(D)
    BY <1>1
  <2>2. Nth(f, k) \in 0 .. b /\ Smaller(f, Nth(f, k)) <= k
    BY <2>1, NthRank
  <2>3. Nth(f, k + 1) \in 0 .. b /\ k + 1 < UpTo(f, Nth(f, k + 1))
    BY <2>1, NthRank
  <2>4. QED
    BY <2>2, <2>3
<1>3. PICK lo \in 0 .. b, hi \in 0 .. b : lo = Nth(f, k) /\ hi = Nth(f, k + 1)
  BY <1>2
<1>4. SUFFICES ASSUME hi < lo PROVE FALSE
  BY <1>3
<1>5. Smaller(f, lo) \in Nat /\ UpTo(f, hi) \in Nat
  <2>1. lo \in Nat /\ hi \in Nat
    OBVIOUS
  <2>2. QED
    BY <2>1, RankTypes
<1>6. UpTo(f, hi) <= Smaller(f, lo)
  <2> DEFINE upTo == {x \in DOMAIN f : f[x] <= hi}
             smaller == {x \in DOMAIN f : f[x] < lo}
  <2>1. upTo \subseteq smaller /\ smaller \in SUBSET D
    BY <1>4
  <2>2. IsFiniteSet(smaller)
    BY <2>1, FS_Subset
  <2>3. QED
    <3> HIDE DEF upTo, smaller
    <3>1. Cardinality(upTo) <= Cardinality(smaller)
      BY <2>1, <2>2, FS_Subset
    <3>2. QED
      BY <3>1 DEF upTo, smaller, UpTo, Smaller
<1>7. QED
  BY <1>2, <1>3, <1>5, <1>6

\* Every majority has a value that the median reaches and one that it does not
\* exceed.
LEMMA MedianAmong ==
    ASSUME NEW D, IsFiniteSet(D), NEW b \in Nat, NEW f \in [D -> 0 .. b],
           NEW S \in SUBSET D, 2 * Cardinality(S) > Cardinality(D)
    PROVE  /\ Median(f) \in 0 .. b
           /\ \E x, y \in S : f[x] <= Median(f) /\ Median(f) <= f[y]
<1> DEFINE n == Cardinality(D)
           AtMost(v) == {x \in D : f[x] <= v}
           AtLeast(v) == {x \in D : f[x] >= v}
<1>1. DOMAIN f = D /\ n \in Nat /\ Cardinality(S) \in Nat
  BY FS_Subset, FS_CardinalityType
<1>2. ASSUME NEW v \in 0 .. b
      PROVE  /\ AtMost(v) \in SUBSET D /\ Cardinality(AtMost(v)) = UpTo(f, v)
             /\ AtLeast(v) \in SUBSET D /\ Cardinality(AtLeast(v)) = n - Smaller(f, v)
             /\ UpTo(f, v) \in Nat /\ Smaller(f, v) \in Nat
  <2>1. v \in Nat
    OBVIOUS
  <2>2. /\ Smaller(f, v) \in Nat /\ UpTo(f, v) \in Nat
        /\ Cardinality({x \in D : f[x] >= v}) = Cardinality(D) - Smaller(f, v)
    BY <2>1, RankTypes, ZenonT(40)
  <2>3. Cardinality(AtMost(v)) = UpTo(f, v)
    BY <1>1 DEF UpTo
  <2>4. AtMost(v) \in SUBSET D /\ AtLeast(v) \in SUBSET D
    OBVIOUS
  <2>5. QED
    BY <2>2, <2>3, <2>4
<1>3. ASSUME NEW A \in SUBSET D, Cardinality(S) + Cardinality(A) > n
      PROVE  \E x \in S : x \in A
  BY <1>3, PartsMeet
<1> HIDE DEF n, AtMost, AtLeast
<1>4. CASE n % 2 = 1
  <2>1. PICK k \in Nat : k = n \div 2 /\ n = 2 * k + 1
    <3>1. n \div 2 \in Nat /\ n = 2 * (n \div 2) + 1
      BY <1>1, <1>4
    <3>2. QED
      BY <3>1
  <2>2. PICK v : v = Median(f) /\ v = Nth(f, k)
    BY <1>1, <1>4, <2>1 DEF Median, n
  <2>3. v \in 0 .. b /\ Smaller(f, v) <= k /\ k < UpTo(f, v)
    <3>1. k < Cardinality(D)
      BY <1>1, <2>1 DEF n
    <3>2. QED
      BY <2>2, <3>1, NthRank, ZenonT(40)
  <2>4. Cardinality(S) >= k + 1
    BY <1>1, <2>1 DEF n
  <2>5. \E x \in S : x \in AtMost(v)
    <3>1. Cardinality(AtMost(v)) = UpTo(f, v) /\ UpTo(f, v) \in Nat
      BY <1>2, <2>3
    <3>2. PICK s \in Nat, u \in Nat : s = Cardinality(S) /\ u = UpTo(f, v)
      BY <1>1, <3>1
    <3>3. s >= k + 1 /\ u > k
      BY <2>3, <2>4, <3>2
    <3>4. s + u > 2 * k + 1
      BY <3>3
    <3>5. Cardinality(S) + Cardinality(AtMost(v)) > n
      BY <2>1, <3>1, <3>2, <3>4
    <3>6. QED
      BY <1>2, <1>3, <2>3, <3>5
  <2>6. \E y \in S : y \in AtLeast(v)
    <3>1. Cardinality(AtLeast(v)) = n - Smaller(f, v) /\ Smaller(f, v) \in Nat
      BY <1>2, <2>3
    <3>2. PICK s \in Nat, u \in Nat : s = Cardinality(S) /\ u = Smaller(f, v)
      BY <1>1, <3>1
    <3>3. s >= k + 1 /\ u <= k
      BY <2>3, <2>4, <3>2
    <3>4. s + ((2 * k + 1) - u) > 2 * k + 1
      BY <3>3
    <3>5. Cardinality(S) + Cardinality(AtLeast(v)) > n
      BY <2>1, <3>1, <3>2, <3>4
    <3>6. QED
      BY <1>2, <1>3, <2>3, <3>5
  <2>7. PICK x \in S, y \in S : f[x] <= v /\ v <= f[y]
    BY <2>3, <2>5, <2>6 DEF AtMost, AtLeast
  <2>8. QED
    BY <2>2, <2>3, <2>7
<1>5. CASE n % 2 # 1
  <2>1. PICK k \in Nat : k = n \div 2 /\ n = 2 * k
    <3>1. n \div 2 \in Nat /\ n = 2 * (n \div 2)
      BY <1>1, <1>5
    <3>2. QED
      BY <3>1
  <2>2. PICK j \in Nat : k = j + 1
    <3>1. Cardinality(S) <= n
      BY FS_Subset DEF n
    <3>2. k # 0
      BY <1>1, <2>1, <3>1 DEF n
    <3>3. k - 1 \in Nat /\ k = (k - 1) + 1
      BY <3>2
    <3>4. QED
      BY <3>3
  <2>3. PICK lo, hi : lo = Nth(f, j) /\ hi = Nth(f, k)
    OBVIOUS
  <2>4. Median(f) = (lo + hi) \div 2
    <3>1. k - 1 = j
      BY <2>2
    <3>2. QED
      BY <1>1, <1>5, <2>1, <2>3, <3>1 DEF Median, n
  <2>5. /\ lo \in 0 .. b /\ j < UpTo(f, lo)
        /\ hi \in 0 .. b /\ Smaller(f, hi) <= k
    <3>1. j < Cardinality(D) /\ k < Cardinality(D)
      BY <1>1, <2>1, <2>2 DEF n
    <3>2. QED
      BY <2>3, <3>1, NthRank
  <2>6. lo <= hi
    <3>1. j + 1 < Cardinality(D)
      BY <1>1, <2>1, <2>2 DEF n
    <3>2. QED
      BY <2>2, <2>3, <3>1, NthOrdered
  <2>7. Cardinality(S) >= k + 1
    BY <1>1, <2>1 DEF n
  <2>8. \E x \in S : x \in AtMost(lo)
    <3>1. Cardinality(AtMost(lo)) = UpTo(f, lo) /\ UpTo(f, lo) \in Nat
      BY <1>2, <2>5
    <3>2. Cardinality(S) + Cardinality(AtMost(lo)) > n
      BY <1>1, <2>1, <2>2, <2>5, <2>7, <3>1
    <3>3. QED
      BY <1>2, <1>3, <2>5, <3>2
  <2>9. \E y \in S : y \in AtLeast(hi)
    <3>1. Cardinality(AtLeast(hi)) = n - Smaller(f, hi) /\ Smaller(f, hi) \in Nat
      BY <1>2, <2>5
    <3>2. Cardinality(S) + Cardinality(AtLeast(hi)) > n
      BY <1>1, <2>1, <2>5, <2>7, <3>1
    <3>3. QED
      BY <1>2, <1>3, <2>5, <3>2
  <2>10. lo <= (lo + hi) \div 2 /\ (lo + hi) \div 2 <= hi /\ (lo + hi) \div 2 \in 0 .. b
    BY <2>5, <2>6
  <2>11. PICK x \in S, y \in S : f[x] <= lo /\ hi <= f[y]
    BY <2>5, <2>8, <2>9 DEF AtMost, AtLeast
  <2>12. f[x] \in 0 .. b /\ f[y] \in 0 .. b
    OBVIOUS
  <2>13. f[x] <= Median(f) /\ Median(f) <= f[y] /\ Median(f) \in 0 .. b
    BY <2>4, <2>5, <2>10, <2>11, <2>12
  <2>14. QED
    BY <2>13
<1>6. QED
  BY <1>4, <1>5

\* An average of values of b at most is b at most.
LEMMA AverageWithin ==
    ASSUME NEW D, IsFiniteSet(D), D # {}, NEW b \in Nat, NEW f \in [D -> 0 .. b]
    PROVE  Average(f) \in 0 .. b
<1>1. DOMAIN f = D /\ f \in [D -> Nat]
  OBVIOUS
<1>2. SumOf(f) = Total(f) /\ Total(f) \in Nat
  BY <1>1, SumIsTotal, TotalType
<1>3. Total(f) <= b * Cardinality(D)
  BY TotalAtMost
<1>4. Cardinality(D) \in Nat \ {0}
  BY FS_CardinalityType, FS_EmptySet
<1>5. PICK sum \in Nat, n \in Nat \ {0} : sum = SumOf(f) /\ n = Cardinality(D)
  BY <1>2, <1>4
<1>6. sum <= b * n
  BY <1>2, <1>3, <1>5
<1>7. sum \div n \in 0 .. b
  BY <1>6, SMTT(30)
<1>8. QED
  BY <1>1, <1>5, <1>7 DEF Average

-----------------------------------------------------------------------------
(* What a reply is worth, and where its estimate is in its attempts.       *)

LEMMA OneType == One \in Nat
BY DEF One, Router!One

\* Shrinking a probability toward a half leaves a probability.
LEMMA ShrunkType ==
    ASSUME NEW v \in 0 .. One, NEW percent \in {0, 10, 15, 20}
    PROVE  Router!Shrunk(v, percent) \in 0 .. One
<1>1. One = 10000 /\ Router!Half = 5000
  BY DEF One, Router!One, Router!Half
<1>2. v \in Nat /\ v <= One
  BY <1>1
<1>3. Router!Shrunk(v, percent) = (v * (100 - percent) + 5000 * percent) \div 100
  BY <1>1 DEF Router!Shrunk
<1>4. CASE percent = 0
  BY <1>1, <1>2, <1>3, <1>4
<1>5. CASE percent = 10
  BY <1>1, <1>2, <1>3, <1>5
<1>6. CASE percent = 15
  BY <1>1, <1>2, <1>3, <1>6
<1>7. CASE percent = 20
  BY <1>1, <1>2, <1>3, <1>7
<1>8. QED
  BY <1>4, <1>5, <1>6, <1>7

\* At most two sections are missing.
LEMMA MissingSections ==
    ASSUME NEW S \in SUBSET Router!Section
    PROVE  Cardinality(Router!Section \ S) \in {0, 1, 2}
<1>1. /\ Cardinality({}) = 0 /\ IsFiniteSet({})
      /\ Cardinality({"for"}) = 1 /\ Cardinality({"against"}) = 1
      /\ IsFiniteSet({"for"})
  BY FS_EmptySet, FS_Singleton
<1>2. Cardinality({"for"} \cup {"against"}) = 2
  <2>1. "against" \notin {"for"}
    OBVIOUS
  <2>2. Cardinality({"for"} \cup {"against"}) = Cardinality({"for"}) + 1
    BY <1>1, <2>1, FS_AddElement
  <2>3. QED
    BY <1>1, <2>2
<1>3. \/ Router!Section \ S = {} \/ Router!Section \ S = {"for"}
      \/ Router!Section \ S = {"against"} \/ Router!Section \ S = {"for"} \cup {"against"}
  BY DEF Router!Section
<1>4. QED
  BY <1>1, <1>2, <1>3

\* An estimate of the router is a probability with a positive confidence.
LEMMA EstimateType ==
    ASSUME NEW p, NEW reply \in Replies
    PROVE  Router!Estimate(p, reply) \in Router!Estimates
<1>1. One = 10000 /\ Router!Half = 5000 /\ Router!One = 10000
  BY DEF One, Router!One, Router!Half
<1>2. reply.prob \in Nat /\ reply.sections \in SUBSET Router!Section
  BY EnsembleAssumption DEF Router!RouterAssumption, Router!Reply
<1>3. PICK stated : stated = Router!AtMost(reply.prob, Router!One)
  OBVIOUS
<1>4. stated \in 0 .. One
  <2>1. PICK q \in Nat : q = reply.prob
    BY <1>2
  <2>2. stated = IF q > 10000 THEN 10000 ELSE q
    BY <1>1, <1>3, <2>1 DEF Router!AtMost
  <2>3. QED
    BY <1>1, <2>2
<1>5. PICK missing \in {0, 1, 2} : missing = Cardinality(Router!Section \ reply.sections)
  BY <1>2, MissingSections
<1>6. Router!Penalised(stated, reply) \in 0 .. One
  <2>1. 10 * missing \in {0, 10, 15, 20}
    OBVIOUS
  <2>2. Router!Shrunk(stated, 10 * missing) \in 0 .. One
    BY <1>4, <2>1, ShrunkType
  <2>3. QED
    BY <1>5, <2>2, SameCardinality DEF Router!Penalised
<1>7. PICK prob : prob = Router!ProbabilityOf(p, reply)
  OBVIOUS
<1>8. prob \in 0 .. One
  <2>1. PICK v \in 0 .. One : v = IF p \in WebSearch THEN stated ELSE Router!Penalised(stated, reply)
    BY <1>4, <1>6
  <2>2. Router!Shrunk(v, 15) \in 0 .. One
    BY ShrunkType
  <2>3. QED
    BY <1>3, <1>7, <2>1, <2>2 DEF Router!ProbabilityOf
<1>9. Router!StatedConfidence(prob, reply) \in Nat /\ Router!StatedConfidence(prob, reply) <= 8500
  <2> DEFINE inWords == reply.conf \in {"low", "medium", "high", "other"}
  <2>1. Router!Distance(prob) \in Nat
    BY <1>1, <1>8 DEF Router!Distance
  <2>2. CASE inWords
    <3>1. Router!StatedConfidence(prob, reply) \in {2000, 3000, 5000, 8000}
      BY <2>2 DEF Router!StatedConfidence
    <3>2. QED
      BY <3>1
  <2>3. CASE ~inWords
    <3>1. Router!StatedConfidence(prob, reply)
            = Router!AtMost(Router!AtMost(2 * Router!Distance(prob), 8500)
                              + (IF Busy THEN 1000 ELSE 0), 8500)
      BY <2>3 DEF Router!StatedConfidence
    <3>2. PICK d \in Nat : d = Router!Distance(prob)
      BY <2>1
    <3>3. Router!StatedConfidence(prob, reply)
            = Router!AtMost(Router!AtMost(2 * d, 8500) + (IF Busy THEN 1000 ELSE 0), 8500)
      BY <3>1, <3>2
    <3>4. PICK bonus \in {0, 1000} : bonus = IF Busy THEN 1000 ELSE 0
      OBVIOUS
    <3>5. QED
      BY <3>3, <3>4 DEF Router!AtMost
  <2> HIDE DEF inWords
  <2>4. QED
    BY <2>2, <2>3
<1>10. Router!ConfidenceOf(prob, reply) \in 1 .. One
  <2>1. PICK c : c = Router!StatedConfidence(prob, reply)
    OBVIOUS
  <2>2. c \in Nat /\ c <= 8500
    BY <1>9, <2>1
  <2>3. (IF c < 1500 THEN 500 ELSE c) \in 1 .. One
    BY <1>1, <2>2
  <2>4. QED
    BY <2>1, <2>3 DEF Router!ConfidenceOf
<1>11. QED
  BY <1>7, <1>8, <1>10 DEF Router!Estimate, Router!Estimates, One

\* What an estimate has answered, and how often it has tried: an attempt never
\* exceeds the limit, and who sleeps has another one left.
Tried ==
    /\ attempt \in [Template -> Nat]
    /\ answer \in [Template -> Router!Estimates \cup {NoAnswer}]
    /\ \A t \in Template :
         /\ pc[t] \in {"calling", "sleeping"} => attempt[t] \in 0 .. MaxRetries - 1
         /\ pc[t] = "sleeping" => attempt[t] < MaxRetries - 1

LEMMA ReturnTried ==
    ASSUME Types, Tried, NEW t \in Template, NEW result \in Router!Estimates \cup {NoAnswer},
           Router!Return(t, result)
    PROVE  Tried'
<1>1. /\ pc' = [pc EXCEPT ![t] = "done"]
      /\ answer' = [answer EXCEPT ![t] = result]
      /\ attempt' = [attempt EXCEPT ![t] = 0]
  BY DEF Router!Return
<1>2. answer' \in [Template -> Router!Estimates \cup {NoAnswer}]
  BY <1>1 DEF Tried
<1>3. attempt' \in [Template -> Nat]
  BY <1>1 DEF Tried
<1>4. ASSUME NEW u \in Template
      PROVE  /\ pc'[u] \in {"calling", "sleeping"} => attempt'[u] \in 0 .. MaxRetries - 1
             /\ pc'[u] = "sleeping" => attempt'[u] < MaxRetries - 1
  BY <1>1 DEF Tried, Types
<1>5. QED
  BY <1>2, <1>3, <1>4 DEF Tried

\* An estimate that is at attempt n of a provider, and awaits what pc says.
LEMMA WaitTried ==
    ASSUME Types, Tried, NEW t \in Template, NEW where \in {"calling", "sleeping"},
           NEW n \in 0 .. MaxRetries - 1, where = "sleeping" => n < MaxRetries - 1,
           pc' = [pc EXCEPT ![t] = where], attempt' = [attempt EXCEPT ![t] = n],
           answer' = answer
    PROVE  Tried'
<1>1. n \in Nat
  BY EnsembleAssumption DEF Router!RouterAssumption
<1>2. attempt' \in [Template -> Nat]
  BY <1>1 DEF Tried
<1>3. ASSUME NEW u \in Template
      PROVE  /\ pc'[u] \in {"calling", "sleeping"} => attempt'[u] \in 0 .. MaxRetries - 1
             /\ pc'[u] = "sleeping" => attempt'[u] < MaxRetries - 1
  BY DEF Tried, Types
<1>4. QED
  BY <1>2, <1>3 DEF Tried

LEMMA RouteTried ==
    ASSUME Types, Tried, NEW t \in Template, NEW from \in Nat \ {0}, NEW window,
           Router!Route(t, from, window)
    PROVE  Tried'
<1> DEFINE waiting == {i \in from .. Len(Priority) : Router!Waits(i)}
           next == CHOOSE i \in waiting : \A j \in waiting : i <= j
<1>1. CASE waiting = {}
  <2>1. Router!Return(t, NoAnswer)
    BY <1>1 DEF Router!Route
  <2>2. QED
    BY <2>1, ReturnTried
<1>2. CASE waiting # {}
  <2>1. Len(Priority) \in Nat /\ waiting \in SUBSET Nat
    OBVIOUS
  <2>2. \E i \in waiting : \A j \in waiting : i <= j
    BY <1>2, <2>1, LeastExists
  <2>3. next \in waiting
    BY <2>2
  <2>4. /\ pc' = [pc EXCEPT ![t] = IF Router!HasKey(next) THEN "calling" ELSE "sleeping"]
        /\ attempt' = [attempt EXCEPT ![t] = 0] /\ answer' = answer
    BY <1>2 DEF Router!Route
  <2>5. MaxRetries > 0 /\ (Router!HasKey(next) \/ MaxRetries > 1)
    BY <2>3 DEF Router!Waits
  <2> HIDE DEF next
  <2>6. PICK where \in {"calling", "sleeping"} :
            where = IF Router!HasKey(next) THEN "calling" ELSE "sleeping"
    OBVIOUS
  <2>7. MaxRetries \in Nat
    BY EnsembleAssumption DEF Router!RouterAssumption
  <2>8. 0 \in 0 .. MaxRetries - 1 /\ (where = "sleeping" => 0 < MaxRetries - 1)
    BY <2>5, <2>6, <2>7
  <2>9. QED
    BY <2>4, <2>6, <2>8, WaitTried
<1>3. QED
  BY <1>1, <1>2

LEMMA AfterFailureTried ==
    ASSUME Types, Tried, NEW t \in Template, pc[t] \in {"calling", "sleeping"},
           NEW n \in Nat, NEW window, Router!AfterFailure(t, n, window)
    PROVE  Tried'
<1>1. CASE n < MaxRetries - 1
  <2>1. pc' = [pc EXCEPT ![t] = "sleeping"] /\ attempt' = [attempt EXCEPT ![t] = n] /\ answer' = answer
    BY <1>1 DEF Router!AfterFailure, Router!Sleep
  <2>2. MaxRetries \in Nat
    BY EnsembleAssumption DEF Router!RouterAssumption
  <2>3. n \in 0 .. MaxRetries - 1
    BY <1>1, <2>2
  <2>4. QED
    BY <1>1, <2>1, <2>3, WaitTried
<1>2. CASE ~(n < MaxRetries - 1)
  <2>1. Router!Route(t, pos[t] + 1, window)
    BY <1>2 DEF Router!AfterFailure
  <2>2. pos[t] \in Nat
    BY DEF Types
  <2>3. pos[t] + 1 \in Nat \ {0}
    BY <2>2
  <2>4. QED
    BY <2>1, <2>3, RouteTried
<1>3. QED
  BY <1>1, <1>2

LEMMA StepTried ==
    ASSUME Types, Tried, NEW t \in Template, Router!Start(t) \/ Router!Step(t)
    PROVE  Tried'
<1>1. CASE Router!Start(t)
  <2>1. Router!Route(t, 1, net) /\ 1 \in Nat \ {0}
    BY <1>1 DEF Router!Start
  <2>2. QED
    BY <2>1, RouteTried
<1>2. attempt[t] \in Nat
  BY DEF Tried
<1>3. ASSUME pc[t] = "calling", Router!Failure(t) PROVE Tried'
  <2>1. Router!AfterFailure(t, attempt[t], [net EXCEPT ![Priority[pos[t]]] = Router!Counted(@, -1)])
    BY <1>3 DEF Router!Failure
  <2>2. QED
    BY <1>2, <1>3, <2>1, AfterFailureTried
<1>4. ASSUME NEW reply \in Replies, Router!Answered(t, reply) PROVE Tried'
  <2>1. PICK e \in Router!Estimates : e = Router!Estimate(Priority[pos[t]], reply)
    BY EstimateType
  <2>2. pc[t] = "calling" /\ (Router!Return(t, e) \/ Router!Failure(t))
    BY <1>4, <2>1 DEF Router!Answered
  <2>3. QED
    BY <1>3, <2>2, ReturnTried
<1>5. CASE Router!Refused(t)
  BY <1>3, <1>5 DEF Router!Refused
<1>6. CASE Router!Wake(t)
  <2>1. pc[t] = "sleeping"
    BY <1>6 DEF Router!Wake
  <2>2. CASE Router!HasKey(pos[t])
    <3>1. /\ pc' = [pc EXCEPT ![t] = "calling"]
          /\ attempt' = [attempt EXCEPT ![t] = attempt[t] + 1] /\ answer' = answer
      BY <1>6, <2>2 DEF Router!Wake
    <3>2. attempt[t] < MaxRetries - 1 /\ MaxRetries \in Nat
      BY <2>1, EnsembleAssumption DEF Tried, Router!RouterAssumption
    <3>3. attempt[t] + 1 \in 0 .. MaxRetries - 1
      BY <1>2, <3>2
    <3>4. PICK n \in 0 .. MaxRetries - 1 : n = attempt[t] + 1
      BY <3>3
    <3>5. QED
      BY <3>1, <3>4, WaitTried
  <2>3. CASE ~Router!HasKey(pos[t])
    <3>1. Router!AfterFailure(t, attempt[t] + 1, net)
      BY <1>6, <2>3 DEF Router!Wake
    <3>2. attempt[t] + 1 \in Nat
      BY <1>2
    <3>3. QED
      BY <2>1, <3>1, <3>2, AfterFailureTried
  <2>4. QED
    BY <2>2, <2>3
<1>7. QED
  BY <1>1, <1>4, <1>5, <1>6 DEF Router!Step

-----------------------------------------------------------------------------
(* What is aggregated.                                                     *)

\* The larger of zero and a number, and the smaller of a limit and a number.
LEMMA OfTwo ==
    ASSUME NEW k \in Int, NEW limit \in Nat
    PROVE  /\ Max({0, k}) = IF k > 0 THEN k ELSE 0
           /\ Min({limit, k}) = IF k < limit THEN k ELSE limit
<1>1. \E x \in {0, k} : \A y \in {0, k} : x >= y
  OBVIOUS
<1>2. Max({0, k}) \in {0, k} /\ \A y \in {0, k} : Max({0, k}) >= y
  BY <1>1 DEF Max
<1>3. \E x \in {limit, k} : \A y \in {limit, k} : x <= y
  OBVIOUS
<1>4. Min({limit, k}) \in {limit, k} /\ \A y \in {limit, k} : Min({limit, k}) <= y
  BY <1>3 DEF Min
<1>5. QED
  BY <1>2, <1>4

\* A doubt only takes from a confidence.
LEMMA DoubtType ==
    ASSUME NEW spread \in Nat
    PROVE  Doubt(spread) \in Nat
<1>1. MaxSpread \in Nat
  BY EnsembleAssumption DEF One, Router!One
<1>2. CASE spread > MaxSpread
  <2>1. PICK half \in Nat : half = (spread - MaxSpread) \div 2
    BY <1>1, <1>2
  <2>2. Min({3000, half}) = IF half < 3000 THEN half ELSE 3000
    <3>1. half \in Int /\ 3000 \in Nat
      OBVIOUS
    <3>2. \A k \in Int, limit \in Nat : Min({limit, k}) = IF k < limit THEN k ELSE limit
      BY OfTwo
    <3>3. QED
      BY <3>1, <3>2
  <2>3. QED
    BY <1>2, <2>1, <2>2 DEF Doubt
<1>3. CASE ~(spread > MaxSpread)
  BY <1>3 DEF Doubt
<1>4. QED
  BY <1>2, <1>3

\* The result of an ensemble: estimates that were used, and for the median
\* aggregation their median.
Sound(r) == IsResult(r) /\ (ByMedian => r.prob = Median(r.individual))

\* Some estimate is always used, and the result is one.
LEMMA AggregateSound ==
    ASSUME NEW S \in SUBSET Template, NEW f \in [S -> Router!Estimates]
    PROVE  /\ S = {} => Aggregate(f) = NoAnswer
           /\ S # {} => Sound(Aggregate(f))
<1> DEFINE used == Confident(f)
           probs == [t \in used |-> f[t].prob]
           confs == [t \in used |-> f[t].conf]
           conf == Max({0, Average(confs) - Doubt(Spread(probs))})
<1>1. used \in SUBSET S /\ (used = {} <=> S = {})
  BY DEF Confident
<1>2. CASE S = {}
  BY <1>1, <1>2 DEF Aggregate
<1>3. CASE S # {}
  <2>1. used \in SUBSET Template /\ used # {} /\ IsFiniteSet(used)
    <3>1. used \in SUBSET Template /\ used # {}
      BY <1>1, <1>3
    <3>2. QED
      BY <3>1, AtTypes
  <2>2. One \in Nat /\ One = Router!One
    BY DEF One, Router!One
  <2>3. probs \in [used -> 0 .. One] /\ confs \in [used -> 0 .. One]
    BY <1>1, <2>2 DEF Router!Estimates
  <2>4. Aggregate(f) = [prob |-> IF ByMedian THEN Median(probs) ELSE Average(probs),
                        conf |-> conf, individual |-> probs]
    BY <2>1 DEF Aggregate
  <2> HIDE DEF used
  <2>5. PICK g \in [used -> 0 .. One], h \in [used -> 0 .. One] : g = probs /\ h = confs
    BY <2>3
  <2>6. Average(g) \in 0 .. One /\ Average(h) \in 0 .. One
    BY <2>1, <2>2, AverageWithin
  <2>7. Median(g) \in 0 .. One
    <3>1. Cardinality(used) \in Nat /\ Cardinality(used) # 0 /\ used \in SUBSET used
      BY <2>1, FS_CardinalityType, FS_EmptySet
    <3>2. 2 * Cardinality(used) > Cardinality(used)
      BY <3>1
    <3>3. QED
      BY <2>1, <2>2, <3>1, <3>2, MedianAmong
  <2>8. Spread(g) \in Nat
    <3>1. PICK R : R = Range(g)
      OBVIOUS
    <3>2. R \in SUBSET (0 .. One) /\ R # {}
      BY <2>1, <3>1 DEF Range
    <3>3. Min(R) \in R /\ Max(R) \in R /\ Min(R) <= Max(R)
      BY <2>2, <3>2, Extremes
    <3>4. PICK lo \in 0 .. One, hi \in 0 .. One : lo = Min(R) /\ hi = Max(R)
      BY <3>2, <3>3
    <3>5. hi - lo \in Nat
      BY <2>2, <3>3, <3>4
    <3>6. QED
      BY <3>1, <3>4, <3>5 DEF Spread
  <2>9. conf \in 0 .. One
    <3>1. PICK a \in 0 .. One, d \in Nat : a = Average(h) /\ d = Doubt(Spread(g))
      BY <2>6, <2>8, DoubtType
    <3>2. a - d \in Int
      BY <2>2
    <3>3. Max({0, a - d}) = IF a - d > 0 THEN a - d ELSE 0
      BY <3>2, OfTwo
    <3>4. Max({0, a - d}) \in 0 .. One
      BY <2>2, <3>3
    <3>5. QED
      BY <2>5, <3>1, <3>4
  <2>10. PICK prob \in 0 .. One : prob = IF ByMedian THEN Median(g) ELSE Average(g)
    BY <2>6, <2>7
  <2>11. PICK sure \in 0 .. One : sure = conf
    BY <2>9
  <2>12. PICK r : r = [prob |-> prob, conf |-> sure, individual |-> g]
    OBVIOUS
  <2>13. r \in [prob : 0 .. One, conf : 0 .. One, individual : [used -> 0 .. One]]
    BY <2>12
  <2>14. IsResult(r)
    BY <2>1, <2>13 DEF IsResult
  <2>15. r = Aggregate(f)
    BY <2>4, <2>5, <2>10, <2>11, <2>12
  <2>16. ByMedian => r.prob = Median(r.individual)
    BY <2>10, <2>12
  <2>17. QED
    BY <1>3, <2>14, <2>15, <2>16 DEF Sound
<1>4. QED
  BY <1>2, <1>3

\* The results that an ensemble has gathered.
ResultInv ==
    /\ RateInv /\ Tried
    /\ asked \subseteq Template
    /\ outcome # NoAnswer => Sound(outcome)

\* Gathering aggregates what was answered.
LEMMA GatherSound ==
    ASSUME ResultInv, Gather
    PROVE  /\ Given \in SUBSET Template
           /\ Given = {} => outcome' = NoAnswer
           /\ Given # {} => Sound(outcome')
<1>1. Given \in SUBSET Template
  BY DEF Given, ResultInv
<1>2. [t \in Given |-> answer[t]] \in [Given -> Router!Estimates]
  BY <1>1 DEF Given, ResultInv, Tried
<1>3. PICK S \in SUBSET Template : S = Given
  BY <1>1
<1>4. PICK f \in [S -> Router!Estimates] : f = [t \in Given |-> answer[t]]
  BY <1>2, <1>3
<1>5. outcome' = Aggregate(f)
  BY <1>4 DEF Gather
<1>6. (S = {} => Aggregate(f) = NoAnswer) /\ (S # {} => Sound(Aggregate(f)))
  BY AggregateSound
<1>7. QED
  BY <1>1, <1>3, <1>5, <1>6

LEMMA InitResult == Init => ResultInv
<1> SUFFICES ASSUME Init PROVE ResultInv
  OBVIOUS
<1>1. /\ attempt = [t \in Template |-> 0] /\ answer = [t \in Template |-> NoAnswer]
      /\ pc = [t \in Template |-> "idle"] /\ asked = {} /\ outcome = NoAnswer
  BY DEF Init, Router!Init
<1>2. Tried
  BY <1>1 DEF Tried
<1>3. QED
  BY <1>1, <1>2, InitBounded DEF ResultInv

\* Steps that take no part in an attempt.
LEMMA QuietTried ==
    ASSUME Types, Tried, attempt' = attempt,
           answer' \in [Template -> Router!Estimates \cup {NoAnswer}],
           \A t \in Template : pc'[t] \in {"calling", "sleeping"} => pc'[t] = pc[t]
    PROVE  Tried'
<1>1. attempt' \in [Template -> Nat]
  BY DEF Tried
<1>2. ASSUME NEW t \in Template
      PROVE  /\ pc'[t] \in {"calling", "sleeping"} => attempt'[t] \in 0 .. MaxRetries - 1
             /\ pc'[t] = "sleeping" => attempt'[t] < MaxRetries - 1
  BY DEF Tried
<1>3. QED
  BY <1>1, <1>2 DEF Tried

LEMMA NextResult == ResultInv /\ [Next]_vars => ResultInv'
<1> SUFFICES ASSUME ResultInv, [Next]_vars PROVE ResultInv'
  OBVIOUS
<1>0. /\ RateInv' /\ Types /\ Tried /\ asked \subseteq Template
      /\ answer \in [Template -> Router!Estimates \cup {NoAnswer}]
      /\ outcome # NoAnswer => Sound(outcome)
  BY NextBounded DEF ResultInv, RateInv, Tried
<1>1. CASE Ask
  <2>1. /\ attempt' = attempt /\ answer' = answer /\ pc' = pc
        /\ asked' \in Selections /\ outcome' = NoAnswer
    BY <1>1 DEF Ask, routerVars
  <2>2. Tried'
    BY <1>0, <2>1, QuietTried
  <2>3. asked' \subseteq Template
    BY <2>1 DEF Selections
  <2>4. QED
    BY <1>0, <2>1, <2>2, <2>3 DEF ResultInv
<1>2. ASSUME NEW t \in Template, StartEstimate(t) \/ StepEstimate(t) PROVE ResultInv'
  <2>1. (Router!Start(t) \/ Router!Step(t)) /\ asked' = asked /\ outcome' = outcome
    BY <1>2 DEF StartEstimate, StepEstimate
  <2>2. Tried'
    BY <1>0, <2>1, StepTried
  <2>3. QED
    BY <1>0, <2>1, <2>2 DEF ResultInv, Sound
<1>3. CASE Gather
  <2>1. /\ attempt' = attempt /\ asked' = {}
        /\ pc' = [t \in Template |-> IF t \in asked THEN "idle" ELSE pc[t]]
        /\ answer' = [t \in Template |-> IF t \in asked THEN NoAnswer ELSE answer[t]]
    BY <1>3 DEF Gather, Router!Take
  <2>2. /\ answer' \in [Template -> Router!Estimates \cup {NoAnswer}]
        /\ \A t \in Template : pc'[t] \in {"calling", "sleeping"} => pc'[t] = pc[t]
    BY <1>0, <2>1
  <2>3. Tried'
    BY <1>0, <2>1, <2>2, QuietTried
  <2>4. outcome' # NoAnswer => Sound(outcome')
    BY <1>3, GatherSound
  <2>5. QED
    BY <1>0, <2>1, <2>3, <2>4 DEF ResultInv, Sound
<1>4. CASE Tick \/ UNCHANGED vars
  <2>1. /\ attempt' = attempt /\ answer' = answer /\ pc' = pc
        /\ asked' = asked /\ outcome' = outcome
    BY <1>4 DEF Tick, Router!Tick, vars, routerVars
  <2>2. Tried'
    BY <1>0, <2>1, QuietTried
  <2>3. QED
    BY <1>0, <2>1, <2>2 DEF ResultInv, Sound
<1>5. QED
  BY <1>1, <1>2, <1>3, <1>4 DEF Next

-----------------------------------------------------------------------------

\* Every variable has its type: a result is a probability with a confidence, for
\* any replies, and no attempt exceeds the limit (_call_provider, estimate() and
\* aggregate_estimates).
THEOREM TypeCorrect == Spec => []TypeOK
<1>1. RequestInv /\ ResultInv => TypeOK
  <2> SUFFICES ASSUME RequestInv, ResultInv PROVE TypeOK
    OBVIOUS
  <2>1. Router!TypeOK
    BY DEF RequestInv, ResultInv, RateInv, Types, States, Tried, Histories, Router!TypeOK
  <2>2. QED
    BY <2>1 DEF ResultInv, Sound, TypeOK
<1>2. Init => RequestInv
  BY InitBounded, InitCovered DEF RequestInv
<1>3. QED
  BY NextCovered, InitResult, NextResult, <1>1, <1>2, PTL DEF Spec

\* However the others answer, the median lies between the smallest and the largest
\* estimate of every majority of those used (aggregate_estimates).
THEOREM MedianWithinMajority == Spec => []MedianRobust
<1>1. ResultInv => MedianRobust
  <2> SUFFICES ASSUME ResultInv, ByMedian, outcome # NoAnswer,
                      NEW S \in SUBSET DOMAIN outcome.individual,
                      2 * Cardinality(S) > Cardinality(DOMAIN outcome.individual)
               PROVE  /\ Min({outcome.individual[t] : t \in S}) <= outcome.prob
                      /\ outcome.prob <= Max({outcome.individual[t] : t \in S})
    BY DEF MedianRobust
  <2>1. IsResult(outcome) /\ outcome.prob = Median(outcome.individual)
    BY DEF ResultInv, Sound
  <2>2. PICK D \in SUBSET Template : outcome.individual \in [D -> 0 .. One]
    BY <2>1 DEF IsResult
  <2>3. PICK f \in [D -> 0 .. One] : f = outcome.individual
    BY <2>2
  <2>4. One \in Nat /\ IsFiniteSet(D) /\ DOMAIN f = D
    <3>1. One \in Nat /\ DOMAIN f = D
      BY OneType
    <3>2. QED
      BY <3>1, AtTypes
  <2>5. S \in SUBSET D /\ 2 * Cardinality(S) > Cardinality(D)
    BY <2>3, <2>4
  <2>6. Median(f) \in 0 .. One /\ \E x, y \in S : f[x] <= Median(f) /\ Median(f) <= f[y]
    BY <2>4, <2>5, MedianAmong
  <2>7. PICK m \in 0 .. One : m = Median(f)
    BY <2>6
  <2>8. PICK x \in S, y \in S : f[x] <= m /\ m <= f[y]
    BY <2>6, <2>7
  <2>9. PICK probs : probs = {f[t] : t \in S}
    OBVIOUS
  <2>10. probs \in SUBSET (0 .. One) /\ f[x] \in probs /\ f[y] \in probs
    BY <2>5, <2>9
  <2>11. /\ Min(probs) \in probs /\ Min(probs) <= f[x]
         /\ Max(probs) \in probs /\ Max(probs) >= f[y]
    BY <2>4, <2>10, Extremes
  <2>12. Min(probs) <= m /\ m <= Max(probs)
    <3>1. PICK lo \in 0 .. One, hi \in 0 .. One : lo = Min(probs) /\ hi = Max(probs)
      BY <2>10, <2>11
    <3>2. PICK u \in 0 .. One, v \in 0 .. One : u = f[x] /\ v = f[y]
      BY <2>10
    <3>3. lo <= u /\ u <= m /\ m <= v /\ v <= hi
      BY <2>8, <2>11, <3>1, <3>2
    <3>4. lo <= m /\ m <= hi
      BY <2>4, <3>3
    <3>5. QED
      BY <3>1, <3>4
  <2>13. QED
    BY <2>1, <2>3, <2>7, <2>9, <2>12
<1>2. QED
  BY InitResult, NextResult, <1>1, PTL DEF Spec

\* An ensemble is without a result only when none of its estimates was answered
\* (estimate(), which drops the failures, and aggregate_estimates).
THEOREM OneAnswerIsEnough == Spec => OneAnswerSuffices
<1>1. ResultInv /\ [Next]_vars =>
        [ (asked # {} /\ asked' = {} /\ outcome' = NoAnswer)
            => \A t \in asked : answer[t] = NoAnswer ]_vars
  <2> SUFFICES ASSUME ResultInv, [Next]_vars,
                      asked # {}, asked' = {}, outcome' = NoAnswer
               PROVE  \A t \in asked : answer[t] = NoAnswer
    OBVIOUS
  <2>1. CASE Ask \/ Tick \/ UNCHANGED vars
    BY <2>1 DEF Ask, Tick, vars
  <2>2. ASSUME NEW t \in Template, StartEstimate(t) \/ StepEstimate(t) PROVE FALSE
    BY <2>2 DEF StartEstimate, StepEstimate
  <2>3. CASE Gather
    <3>1. ~Sound(NoAnswer)
      BY EnsembleAssumption DEF Sound
    <3>2. Given = {}
      BY <2>3, <3>1, GatherSound
    <3>3. QED
      BY <3>2 DEF Given
  <2>4. QED
    BY <2>1, <2>2, <2>3 DEF Next
<1>2. QED
  BY InitResult, NextResult, <1>1, PTL DEF Spec, OneAnswerSuffices
=============================================================================
