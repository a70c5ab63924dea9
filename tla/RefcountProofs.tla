--------------------------- MODULE RefcountProofs ---------------------------
(***************************************************************************)
(* The reference counter is right for any set of threads, any finite set   *)
(* of references and any saturation value: CountExact, SoleRelease,        *)
(* FaultsJustified and SaturationSticks.                                   *)
(*                                                                         *)
(* None of them is inductive alone.  What a compare-exchange may rely on   *)
(* is that the caller of increment or decrement_and_test still holds a     *)
(* reference while its loop runs (Custody), so a counter it finds at zero  *)
(* is a dead object's, and that a dead object has no releaser.             *)
(***************************************************************************)
EXTENDS Refcount, FiniteSetTheorems, TLAPS

Custody ==
    /\ \A t \in Threads :
          /\ pc[t] \notin {"decrement_and_test", "fault"} => dropping[t] = None
          /\ dropping[t] # None => owner[dropping[t]] = t
          /\ pc[t] = "increment" => retired \/ Held(t) # {}
          /\ pc[t] = "decrement_and_test" => retired \/ dropping[t] # None
          /\ observed[t] = MAX => value = MAX
    /\ retired => releaser = None

IInv == TypeOK /\ CountExact /\ SoleRelease /\ FaultsJustified /\ Custody

-----------------------------------------------------------------------------
\* The references that exist are finitely many, so they can be counted.
LEMMA LiveFinite == /\ IsFiniteSet(Live)
                    /\ Cardinality(Live) \in Nat
                    /\ Cardinality(Live) = 0 <=> Live = {}
<1>1. Live \subseteq Refs  BY DEF Live
<1>2. IsFiniteSet(Live)  BY <1>1, RefsFinite, FS_Subset
<1>3. QED  BY <1>2, FS_CardinalityType, FS_EmptySet

LEMMA LiveFiniteNext == /\ IsFiniteSet(Live')
                        /\ Cardinality(Live') \in Nat
                        /\ Cardinality(Live') = 0 <=> Live' = {}
<1>1. Live' \subseteq Refs  BY DEF Live
<1>2. IsFiniteSet(Live')  BY <1>1, RefsFinite, FS_Subset
<1>3. QED  BY <1>2, FS_CardinalityType, FS_EmptySet

\* The object starts with one reference, and the counter says so.
LEMMA InitIInv == Init => IInv
<1> SUFFICES ASSUME Init PROVE IInv  OBVIOUS
<1>1. PICK t \in Threads, r \in Refs :
         owner = [q \in Refs |-> IF q = r THEN t ELSE None]
  BY DEF Init
<1>2. Live = {r}  BY <1>1, NoneAssumption DEF Live
<1>3. Cardinality(Live) = 1  BY <1>2, FS_Singleton
<1>4. TypeOK
  <2>1. value \in 0..MAX /\ 0 \in 0..MAX  BY MaxAssumption DEF Init
  <2>2. owner \in [Refs -> Threads \cup {None}]  BY <1>1
  <2>3. QED  BY <2>1, <2>2 DEF Init, TypeOK
<1>5. CountExact /\ SoleRelease /\ FaultsJustified
  BY <1>3, MaxAssumption DEF Init, CountExact, SoleRelease, FaultsJustified
<1>6. Custody  BY MaxAssumption DEF Init, Custody
<1>7. QED  BY <1>4, <1>5, <1>6 DEF IInv

\* A step that leaves the counter and the references alone keeps what
\* relates them.
LEMMA Untouched ==
  ASSUME IInv, TypeOK', UNCHANGED <<value, owner, releaser, retired>>,
         \A t \in Threads : pc'[t] = "fault" => pc[t] = "fault" \/ value = MAX
  PROVE  CountExact' /\ SoleRelease' /\ FaultsJustified'
<1>1. Live' = Live  BY DEF Live
<1>2. QED
  BY <1>1 DEF IInv, CountExact, SoleRelease, FaultsJustified

-----------------------------------------------------------------------------
\* A failed compare-exchange only reloads.
LEMMA ReloadSafe ==
  ASSUME IInv, NEW t \in Threads, Reload(t)
  PROVE  IInv'
<1>1. TypeOK'  BY DEF IInv, TypeOK, Reload
<1>2. CountExact' /\ SoleRelease' /\ FaultsJustified'
  BY <1>1, Untouched DEF Reload
<1>3. Custody'  BY DEF IInv, Custody, Reload, Held
<1>4. QED  BY <1>1, <1>2, <1>3 DEF IInv

\* A call that stops because it observed a saturated value: the value is
\* saturated still.
LEMMA FaultSafe ==
  ASSUME IInv, NEW t \in Threads, FaultSaturated(t)
  PROVE  IInv'
<1>0. value = MAX  BY DEF IInv, Custody, FaultSaturated
<1>1. TypeOK'  BY DEF IInv, TypeOK, FaultSaturated, Fault
<1>2. CountExact' /\ SoleRelease' /\ FaultsJustified'
  BY <1>0, <1>1, Untouched DEF FaultSaturated, Fault, IInv, TypeOK
<1>3. Custody'
  BY DEF IInv, TypeOK, Custody, FaultSaturated, Fault, Held
<1>4. QED  BY <1>1, <1>2, <1>3 DEF IInv

\* The compare-exchange to UINT32_MAX: it succeeds only on an object at its
\* last countable reference or on a dead one.
LEMMA SaturateSafe ==
  ASSUME IInv, NEW t \in Threads, Saturate(t),
         \/ observed[t] = MAX - 1 /\ observed[t] # 0
         \/ /\ observed[t] \in {0, MAX - 1}
            /\ pc[t] \in {"increment", "decrement_and_test"}
  PROVE  IInv'
<1>1. CASE Reload(t)  BY <1>1, ReloadSafe
<1>2. CASE /\ Matches(t)
           /\ value' = MAX
           /\ Fault(t)
           /\ UNCHANGED <<observed, dropping, owner, releaser, retired, returns>>
  <2>1. TypeOK'  BY <1>2, MaxAssumption DEF IInv, TypeOK, Fault
  <2>2. Live' = Live  BY <1>2 DEF Live
  <2>3. retired \/ Cardinality(Live) = MAX - 1
    <3>1. CASE value = 0
      <4>1. Live = {}
        BY <3>1, LiveFinite, MaxAssumption DEF IInv, CountExact
      <4>2. Held(t) = {} /\ dropping[t] = None
        BY <4>1, NoneAssumption DEF IInv, TypeOK, Custody, Live, Held
      <4>3. pc[t] \in {"increment", "decrement_and_test"}
        BY <1>2, <3>1 DEF Matches
      <4>4. QED  BY <4>2, <4>3 DEF IInv, Custody
    <3>2. CASE value # 0
      <4>1. value = MAX - 1  BY <1>2, <3>2 DEF Matches
      <4>2. QED  BY <4>1, MaxAssumption DEF IInv, CountExact
    <3>3. QED  BY <3>1, <3>2
  <2>4. CountExact' /\ SoleRelease' /\ FaultsJustified'
    BY <1>2, <2>2, <2>3 DEF IInv, CountExact, SoleRelease, FaultsJustified
  <2>5. Custody'  BY <1>2 DEF IInv, TypeOK, Custody, Fault, Held
  <2>6. QED  BY <2>1, <2>4, <2>5 DEF IInv
<1>3. QED  BY <1>1, <1>2 DEF Saturate

\* The compare-exchange to observed + 1 adds the reference it counts, and
\* only to an object that has one already.
LEMMA CountUpSafe ==
  ASSUME IInv, NEW t \in Threads, CountUp(t),
         pc[t] \in {"increment", "increment_not_zero"},
         observed[t] \notin {0, MAX - 1, MAX}
  PROVE  IInv'
<1>1. CASE Reload(t)  BY <1>1, ReloadSafe
<1>2. CASE /\ Matches(t)
           /\ value' = observed[t] + 1
           /\ Gain(t)
           /\ Return(t)
           /\ UNCHANGED <<observed, dropping, releaser, retired>>
  <2>1. PICK r \in Refs \ Live : owner' = [owner EXCEPT ![r] = t]
    BY <1>2 DEF Gain
  <2>2. value \in 1..(MAX - 2) /\ value = observed[t] /\ value # MAX
    BY <1>2, MaxAssumption DEF IInv, TypeOK, Matches
  <2>3. Live # {}
    BY <2>2, LiveFinite, MaxAssumption DEF IInv, CountExact
  <2>4. Live' = Live \cup {r}
    BY <2>1, NoneAssumption DEF IInv, TypeOK, Live
  <2>5. Cardinality(Live') = Cardinality(Live) + 1
    BY <2>1, <2>4, LiveFinite, FS_AddElement
  <2>6. TypeOK'
    <3>1. value' \in 0..MAX  BY <1>2, <2>2, MaxAssumption
    <3>2. owner' \in [Refs -> Threads \cup {None}]
      BY <2>1 DEF IInv, TypeOK
    <3>3. returns' \in {0, 1}  BY <1>2 DEF Return, IInv, TypeOK
    <3>4. QED  BY <1>2, <3>1, <3>2, <3>3 DEF IInv, TypeOK, Return
  <2>7. CountExact'
    BY <1>2, <2>2, <2>5, MaxAssumption DEF IInv, CountExact
  <2>8. SoleRelease'  BY <1>2, <2>3 DEF IInv, SoleRelease
  <2>9. FaultsJustified'
    <3>1. value' # MAX  BY <1>2, <2>2, MaxAssumption
    <3>2. \A u \in Threads : pc'[u] # "fault"
      BY <1>2, <2>2 DEF Return, IInv, TypeOK, FaultsJustified
    <3>3. QED  BY <3>1, <3>2 DEF FaultsJustified
  <2>10. Custody'
    <3>1. \A u \in Threads : Held(u) \subseteq Held(u)'
      BY <2>1, NoneAssumption DEF IInv, TypeOK, Held, Live
    <3>2. \A u \in Threads : dropping[u] # None => owner'[dropping[u]] = u
      BY <2>1, NoneAssumption DEF IInv, TypeOK, Custody, Live
    <3>3. \A u \in Threads : observed[u] # MAX
      BY <2>2 DEF IInv, Custody
    <3>4. QED
      BY <1>2, <3>1, <3>2, <3>3 DEF IInv, TypeOK, Custody, Return
  <2>11. QED  BY <2>6, <2>7, <2>8, <2>9, <2>10 DEF IInv
<1>3. QED  BY <1>1, <1>2 DEF CountUp

\* The compare-exchange to observed - 1 removes the reference it uncounts,
\* and the caller becomes the releaser exactly when that was the last one.
LEMMA CountDownSafe ==
  ASSUME IInv, NEW t \in Threads, CountDown(t, observed[t] = 1),
         pc[t] = "decrement_and_test", observed[t] \notin {0, MAX}
  PROVE  IInv'
<1>1. CASE Reload(t)  BY <1>1, ReloadSafe
<1>2. CASE /\ Matches(t)
           /\ value' = observed[t] - 1
           /\ owner' = [r \in Refs |-> IF r = dropping[t] THEN None
                                                        ELSE owner[r]]
           /\ dropping' = [dropping EXCEPT ![t] = None]
           /\ releaser' = IF observed[t] = 1 THEN t ELSE releaser
           /\ Return(t)
           /\ UNCHANGED <<observed, retired>>
  <2>1. value \in 1..(MAX - 1) /\ value = observed[t] /\ value # MAX
    BY <1>2, MaxAssumption DEF IInv, TypeOK, Matches
  <2>2. Cardinality(Live) = value /\ Live # {}
    BY <2>1, LiveFinite, MaxAssumption DEF IInv, CountExact
  <2>3. ~retired /\ releaser = None
    BY <2>2 DEF IInv, SoleRelease
  <2>4. dropping[t] \in Refs /\ owner[dropping[t]] = t
    BY <2>3 DEF IInv, TypeOK, Custody
  <2>5. dropping[t] \in Live /\ Live' = Live \ {dropping[t]}
    BY <1>2, <2>4, NoneAssumption DEF Live
  <2>6. Cardinality(Live') = Cardinality(Live) - 1
    BY <2>5, LiveFinite, FS_RemoveElement
  <2>7. TypeOK'
    <3>1. value' \in 0..MAX  BY <1>2, <2>1, MaxAssumption
    <3>2. owner' \in [Refs -> Threads \cup {None}]
      BY <1>2 DEF IInv, TypeOK
    <3>3. returns' \in {0, 1}  BY <1>2 DEF Return, IInv, TypeOK
    <3>4. releaser' \in Threads \cup {None}  BY <1>2 DEF IInv, TypeOK
    <3>5. QED
      BY <1>2, <3>1, <3>2, <3>3, <3>4 DEF IInv, TypeOK, Return
  <2>8. CountExact'  BY <1>2, <2>1, <2>2, <2>6 DEF CountExact
  <2>9. SoleRelease'
    <3>1. CASE observed[t] = 1
      BY <3>1, <2>1, <2>2, <2>6, LiveFiniteNext DEF SoleRelease
    <3>2. CASE observed[t] # 1
      BY <3>2, <1>2, <2>3 DEF SoleRelease
    <3>3. QED  BY <3>1, <3>2
  <2>10. FaultsJustified'
    <3>1. value' # MAX  BY <1>2, <2>1, MaxAssumption
    <3>2. \A u \in Threads : pc'[u] # "fault"
      BY <1>2, <2>1 DEF Return, IInv, TypeOK, FaultsJustified
    <3>3. QED  BY <3>1, <3>2 DEF FaultsJustified
  <2>11. Custody'
    <3>1. \A u \in Threads \ {t} : Held(u) \subseteq Held(u)'
      BY <1>2, <2>4 DEF Held
    <3>2. \A u \in Threads \ {t} :
             dropping[u] # None => owner'[dropping[u]] = u
      BY <1>2, <2>4 DEF IInv, TypeOK, Custody
    <3>3. \A u \in Threads : observed[u] # MAX
      BY <2>1 DEF IInv, Custody
    <3>4. QED
      BY <1>2, <2>3, <3>1, <3>2, <3>3 DEF IInv, TypeOK, Custody, Return
  <2>12. QED  BY <2>7, <2>8, <2>9, <2>10, <2>11 DEF IInv
<1>3. QED  BY <1>1, <1>2 DEF CountDown

-----------------------------------------------------------------------------
\* The calls load and change nothing else.
LEMMA CallSafe ==
  ASSUME IInv, NEW t \in Threads, Call(t)
  PROVE  IInv'
<1>1. TypeOK'
  BY DEF IInv, TypeOK, Call, CallIncrement, CallIncrementNotZero,
         CallDecrement, Load, Operations, Held
<1>2. CountExact' /\ SoleRelease' /\ FaultsJustified'
  <2>1. \A u \in Threads : pc'[u] = "fault" => pc[u] = "fault"
    BY DEF IInv, TypeOK, Call, CallIncrement, CallIncrementNotZero,
           CallDecrement, Load
  <2>2. UNCHANGED <<value, owner, releaser, retired>>
    BY DEF Call, CallIncrement, CallIncrementNotZero, CallDecrement
  <2>3. QED  BY <1>1, <2>1, <2>2, Untouched
<1>3. Custody'
  <2>1. CASE CallIncrement(t) \/ CallIncrementNotZero(t)
    BY <2>1 DEF IInv, TypeOK, Custody, CallIncrement, CallIncrementNotZero,
                Load, Held
  <2>2. CASE CallDecrement(t)
    BY <2>2, NoneAssumption DEF IInv, TypeOK, Custody, CallDecrement, Load, Held
  <2>3. QED  BY <2>1, <2>2 DEF Call
<1>4. QED  BY <1>1, <1>2, <1>3 DEF IInv

\* The releaser finds the counter at zero and nobody inside a call that
\* counts on a reference, so it may set the counter or retire the object.
LEMMA ReleaserSafe ==
  ASSUME IInv, NEW t \in Threads, Reuse(t) \/ Retire(t)
  PROVE  IInv'
<1>1. releaser = t /\ releaser # None
  BY NoneAssumption DEF Reuse, Set, Retire
<1>2. Live = {} /\ ~retired  BY <1>1 DEF IInv, SoleRelease, Custody
<1>3. Cardinality(Live) = 0  BY <1>2, LiveFinite
<1>4. value # MAX
  BY <1>2, <1>3, MaxAssumption DEF IInv, FaultsJustified
<1>5. \A u \in Threads : /\ Held(u) = {} /\ dropping[u] = None
                         /\ pc[u] \in {"idle", "increment_not_zero"}
                         /\ observed[u] # MAX
  <2>1. \A u \in Threads : Held(u) = {} /\ dropping[u] = None
    BY <1>2, NoneAssumption DEF IInv, TypeOK, Custody, Live, Held
  <2>2. \A u \in Threads : pc[u] # "fault" /\ observed[u] # MAX
    BY <1>4 DEF IInv, FaultsJustified, Custody
  <2>3. QED
    BY <1>2, <2>1, <2>2 DEF IInv, TypeOK, Operations, Custody
<1>6. CASE Retire(t)
  <2>1. TypeOK'  BY <1>6 DEF IInv, TypeOK, Retire
  <2>2. Live' = Live  BY <1>6 DEF Retire, Live
  <2>3. CountExact' /\ SoleRelease' /\ FaultsJustified'
    BY <1>2, <1>6, <2>2
       DEF IInv, CountExact, SoleRelease, FaultsJustified, Retire
  <2>4. Custody'  BY <1>6 DEF IInv, Custody, Retire, Held
  <2>5. QED  BY <2>1, <2>3, <2>4 DEF IInv
<1>7. CASE Reuse(t)
  <2>1. PICK new \in SUBSET Refs : new # {} /\ Set(t, new)
    BY <1>7 DEF Reuse
  <2>2. Live' = new
    BY <2>1, NoneAssumption DEF Set, Live
  <2>3. value' = Cardinality(new) /\ value' \in 0..(MAX - 1) /\ value' # MAX
    BY <2>1, <2>2, LiveFiniteNext, MaxAssumption DEF Set
  <2>4. TypeOK'
    <3>1. value' \in 0..MAX  BY <2>3, MaxAssumption
    <3>2. owner' \in [Refs -> Threads \cup {None}]  BY <2>1 DEF Set
    <3>3. QED  BY <2>1, <3>1, <3>2 DEF Set, IInv, TypeOK
  <2>5. CountExact' /\ SoleRelease' /\ FaultsJustified'
    BY <1>2, <1>5, <2>1, <2>2, <2>3
       DEF CountExact, SoleRelease, FaultsJustified, Set
  <2>6. Custody'  BY <1>2, <1>5, <2>1 DEF Custody, Set
  <2>7. QED  BY <2>4, <2>5, <2>6 DEF IInv
<1>8. QED  BY <1>6, <1>7

\* Every step keeps the invariant.
LEMMA StepIInv == IInv /\ [Next]_vars => IInv'
<1> SUFFICES ASSUME IInv, [Next]_vars PROVE IInv'  OBVIOUS
<1>1. CASE UNCHANGED vars
  BY <1>1 DEF IInv, TypeOK, CountExact, SoleRelease, FaultsJustified, Custody,
              Live, Held, vars
<1>2. ASSUME NEW t \in Threads, Call(t) PROVE IInv'  BY <1>2, CallSafe
<1>3. ASSUME NEW t \in Threads, Increment(t) PROVE IInv'
  <2>1. CASE FaultSaturated(t)  BY <2>1, <1>3, FaultSafe
  <2>2. CASE observed[t] \in {0, MAX - 1} /\ Saturate(t)
    BY <2>2, <1>3, SaturateSafe DEF Increment
  <2>3. CASE observed[t] \notin {0, MAX - 1, MAX} /\ CountUp(t)
    BY <2>3, <1>3, CountUpSafe DEF Increment
  <2>4. QED  BY <1>3, <2>1, <2>2, <2>3 DEF Increment
<1>4. ASSUME NEW t \in Threads, IncrementNotZero(t) PROVE IInv'
  <2>1. CASE FaultSaturated(t)  BY <2>1, <1>4, FaultSafe
  <2>2. CASE observed[t] = MAX - 1 /\ Saturate(t)
    BY <2>2, <1>4, SaturateSafe, MaxAssumption
  <2>3. CASE observed[t] \notin {0, MAX - 1, MAX} /\ CountUp(t)
    BY <2>3, <1>4, CountUpSafe DEF IncrementNotZero
  <2>4. CASE /\ pc[t] = "increment_not_zero"
             /\ Return(t)
             /\ UNCHANGED <<value, observed, dropping, owner, releaser, retired>>
    <3>1. TypeOK'
      <4>1. returns' \in {0, 1}  BY <2>4 DEF Return, IInv, TypeOK
      <4>2. QED  BY <2>4, <4>1 DEF IInv, TypeOK, Return
    <3>2. CountExact' /\ SoleRelease' /\ FaultsJustified'
      BY <2>4, <3>1, Untouched DEF IInv, TypeOK, Return
    <3>3. Custody'  BY <2>4, <1>4 DEF IInv, TypeOK, Custody, Return, Held
    <3>4. QED  BY <3>1, <3>2, <3>3 DEF IInv
  <2>5. QED  BY <1>4, <2>1, <2>2, <2>3, <2>4 DEF IncrementNotZero
<1>5. ASSUME NEW t \in Threads, DecrementAndTest(t) PROVE IInv'
  <2>1. CASE FaultSaturated(t)  BY <2>1, <1>5, FaultSafe
  <2>2. CASE observed[t] = 0 /\ Saturate(t)
    BY <2>2, <1>5, SaturateSafe DEF DecrementAndTest
  <2>3. CASE observed[t] \notin {0, MAX} /\ CountDown(t, observed[t] = 1)
    BY <2>3, <1>5, CountDownSafe DEF DecrementAndTest
  <2>4. QED  BY <1>5, <2>1, <2>2, <2>3 DEF DecrementAndTest
<1>6. ASSUME NEW t \in Threads, Reuse(t) \/ Retire(t) PROVE IInv'
  BY <1>6, ReleaserSafe
<1>7. QED  BY <1>1, <1>2, <1>3, <1>4, <1>5, <1>6 DEF Next, Step

-----------------------------------------------------------------------------
LEMMA Invariance == Spec => []IInv
<1>1. QED  BY InitIInv, StepIInv, PTL DEF Spec

\* The counter equals the number of references until it saturates, for any
\* number of threads inside the compare-exchange loops.
THEOREM CountCorrect == Spec => []CountExact
<1>1. IInv => CountExact  BY DEF IInv
<1>2. QED  BY <1>1, Invariance, PTL

\* Whoever was told that its decrement was the last has the object alone,
\* and a retired object is never revived.
THEOREM ReleaseCorrect == Spec => []SoleRelease
<1>1. IInv => SoleRelease  BY DEF IInv
<1>2. QED  BY <1>1, Invariance, PTL

\* Faults happen on saturated counters only, and saturation only on overflow
\* or on the misuse of a dead object.
THEOREM FaultsCorrect == Spec => []FaultsJustified
<1>1. IInv => FaultsJustified  BY DEF IInv
<1>2. QED  BY <1>1, Invariance, PTL

\* No call, however old the value it observed, moves a saturated counter or
\* a reference counted by it.
THEOREM SaturationCorrect == Spec => SaturationSticks
<1>1. ASSUME IInv, [Next]_vars, value = MAX
      PROVE  value' = MAX /\ UNCHANGED <<owner, releaser>>
  <2>1. CASE UNCHANGED vars  BY <2>1, <1>1 DEF vars
  <2>2. CASE \E t \in Threads : Call(t)
    BY <2>2, <1>1 DEF Call, CallIncrement, CallIncrementNotZero, CallDecrement
  <2>3. ASSUME NEW t \in Threads, Step(t)
        PROVE  value' = MAX /\ UNCHANGED <<owner, releaser>>
    <3>1. CASE Increment(t)
      BY <3>1, <1>1, MaxAssumption
         DEF Increment, FaultSaturated, Saturate, CountUp, Matches, Reload
    <3>2. CASE IncrementNotZero(t)
      BY <3>2, <1>1, MaxAssumption
         DEF IncrementNotZero, FaultSaturated, Saturate, CountUp, Matches, Reload
    <3>3. CASE DecrementAndTest(t)
      BY <3>3, <1>1, MaxAssumption
         DEF DecrementAndTest, FaultSaturated, Saturate, CountDown, Matches, Reload
    <3>4. QED  BY <2>3, <3>1, <3>2, <3>3 DEF Step
  <2>4. ASSUME NEW t \in Threads, Reuse(t) \/ Retire(t) PROVE FALSE
    <3>1. releaser # None  BY <2>4, NoneAssumption DEF Reuse, Set, Retire
    <3>2. Live = {} /\ ~retired
      BY <3>1, <1>1 DEF IInv, SoleRelease, Custody
    <3>3. QED
      BY <3>2, <1>1, LiveFinite, MaxAssumption DEF IInv, FaultsJustified
  <2>5. QED  BY <1>1, <2>1, <2>2, <2>3, <2>4 DEF Next
<1>2. QED  BY <1>1, Invariance, PTL DEF Spec, SaturationSticks

\* The three together, with the types: the contract of the counter.
THEOREM ReferencesCorrect == Spec => []ReferencesExact
<1>1. IInv => ReferencesExact  BY DEF IInv, ReferencesExact
<1>2. QED  BY <1>1, Invariance, PTL
=============================================================================
