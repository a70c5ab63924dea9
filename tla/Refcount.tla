------------------------------ MODULE Refcount ------------------------------
(***************************************************************************)
(* The inline reference counter of the core runtime                        *)
(* (protocol/generated/include/kobox2/core_runtime.h).  Every operation is *)
(* a relaxed load followed by a compare-exchange loop, so a call is        *)
(* several steps and any number of them are under way at once.  One step   *)
(* of a loop body is one action: it either leaves the loop, or stores with *)
(* a compare-exchange that compares with the value observed before.  A     *)
(* failed compare-exchange reloads the observed value.                     *)
(*                                                                         *)
(* A contract fault is a trap: the faulting thread stops for good and the  *)
(* others may still run for a while.                                       *)
(*                                                                         *)
(* The counted object is used the way its callers must use it.  `owner`    *)
(* names the thread that holds each reference; a reference being dropped   *)
(* is still owned until the decrement has stored.  The thread whose        *)
(* decrement returned 1 has the object to itself: it either puts it to use *)
(* again (refcount_set), possibly while lookups of the previous use are    *)
(* still inside increment_not_zero, or retires it.  After that, a thread   *)
(* that kept a stale pointer may still call, which is the misuse the       *)
(* counter is there to stop.                                               *)
(***************************************************************************)
EXTENDS Integers, FiniteSets

CONSTANTS Threads,   \* the threads of the closure
          Refs,      \* names for the references that can exist at once
          None,      \* no thread, no reference
          MAX        \* UINT32_MAX, scaled down

ASSUME MaxAssumption == MAX \in Nat /\ MAX > 1
ASSUME RefsFinite == IsFiniteSet(Refs)
ASSUME NoneAssumption == None \notin Threads /\ None \notin Refs

VARIABLES value,     \* refcount->value
          pc,        \* what each thread is doing
          observed,  \* the local variable `observed` of each thread's call
          dropping,  \* the reference a thread's decrement gives up
          owner,     \* who holds each reference
          releaser,  \* the thread whose decrement returned 1
          retired,   \* the object is gone: calls are misuse now
          returns    \* parity of the number of calls that returned

vars == <<value, pc, observed, dropping, owner, releaser, retired, returns>>

Operations == {"increment", "increment_not_zero", "decrement_and_test"}
Live == {r \in Refs : owner[r] # None}
Held(t) == {r \in Refs : owner[r] = t}

TypeOK ==
    /\ value \in 0..MAX
    /\ pc \in [Threads -> {"idle", "fault"} \cup Operations]
    /\ observed \in [Threads -> 0..MAX]
    /\ dropping \in [Threads -> Refs \cup {None}]
    /\ owner \in [Refs -> Threads \cup {None}]
    /\ releaser \in Threads \cup {None}
    /\ retired \in BOOLEAN
    /\ returns \in {0, 1}

\* The object starts with one reference of one thread (refcount_set(1)).
Init ==
    /\ \E t \in Threads, r \in Refs :
          owner = [q \in Refs |-> IF q = r THEN t ELSE None]
    /\ value = 1
    /\ pc = [t \in Threads |-> "idle"]
    /\ observed = [t \in Threads |-> 0]
    /\ dropping = [t \in Threads |-> None]
    /\ releaser = None
    /\ retired = FALSE
    /\ returns = 0

\* The relaxed load that begins every operation.
Load(t, op) ==
    /\ pc[t] = "idle"
    /\ pc' = [pc EXCEPT ![t] = op]
    /\ observed' = [observed EXCEPT ![t] = value]

\* A holder takes a second reference.
CallIncrement(t) ==
    /\ retired \/ Held(t) # {}
    /\ Load(t, "increment")
    /\ UNCHANGED <<value, dropping, owner, releaser, retired, returns>>

\* A lookup that holds nothing tries to take a reference.
CallIncrementNotZero(t) ==
    /\ releaser # t
    /\ Load(t, "increment_not_zero")
    /\ UNCHANGED <<value, dropping, owner, releaser, retired, returns>>

\* A holder drops one of its references.
CallDecrement(t) ==
    /\ Load(t, "decrement_and_test")
    /\ \/ \E r \in Held(t) : dropping' = [dropping EXCEPT ![t] = r]
       \/ retired /\ UNCHANGED dropping
    /\ UNCHANGED <<value, owner, releaser, retired, returns>>

Fault(t) == pc' = [pc EXCEPT ![t] = "fault"]

Return(t) ==
    /\ pc' = [pc EXCEPT ![t] = "idle"]
    /\ returns' = 1 - returns

\* The new reference that a successful increment gives its caller.
Gain(t) == \E r \in Refs \ Live : owner' = [owner EXCEPT ![r] = t]

\* __atomic_compare_exchange_n, strong: compare, then store or reload.
Matches(t) == value = observed[t]
Reload(t) ==
    /\ ~Matches(t)
    /\ observed' = [observed EXCEPT ![t] = value]
    /\ UNCHANGED <<value, pc, dropping, owner, releaser, retired, returns>>

\* A saturated value was observed: fault without storing.
FaultSaturated(t) ==
    /\ observed[t] = MAX
    /\ Fault(t)
    /\ UNCHANGED <<value, observed, dropping, owner, releaser, retired, returns>>

\* The compare-exchange to UINT32_MAX, then the fault.
Saturate(t) ==
    \/ /\ Matches(t)
       /\ value' = MAX
       /\ Fault(t)
       /\ UNCHANGED <<observed, dropping, owner, releaser, retired, returns>>
    \/ Reload(t)

CountUpBlindly(t) ==
    /\ value' = observed[t] + 1
    /\ Gain(t)
    /\ Return(t)
    /\ UNCHANGED <<observed, dropping, releaser, retired>>

\* The compare-exchange to observed + 1, then the return.
CountUp(t) ==
    \/ /\ Matches(t)
       /\ value' = observed[t] + 1
       /\ Gain(t)
       /\ Return(t)
       /\ UNCHANGED <<observed, dropping, releaser, retired>>
    \/ Reload(t)

IncrementWaits(t) ==
    /\ pc[t] = "increment"
    /\ \/ FaultSaturated(t)
       \/ observed[t] \in {0, MAX - 1} /\ Saturate(t)
       \/ observed[t] \notin {0, MAX - 1, MAX} /\ Matches(t) /\ CountUp(t)

\* kb2_core_refcount_increment
Increment(t) ==
    /\ pc[t] = "increment"
    /\ \/ FaultSaturated(t)
       \/ observed[t] \in {0, MAX - 1} /\ Saturate(t)
       \/ observed[t] \notin {0, MAX - 1, MAX} /\ CountUp(t)

\* kb2_core_refcount_increment_not_zero
IncrementNotZero(t) ==
    /\ pc[t] = "increment_not_zero"
    /\ \/ /\ observed[t] = 0
          /\ Return(t)
          /\ UNCHANGED <<value, observed, dropping, owner, releaser, retired>>
       \/ FaultSaturated(t)
       \/ observed[t] = MAX - 1 /\ Saturate(t)
       \/ observed[t] \notin {0, MAX - 1, MAX} /\ CountUp(t)

\* The decrement has stored: the dropped reference is gone, and the call
\* returns observed == 1.
CountDown(t, last) ==
    \/ /\ Matches(t)
       /\ value' = observed[t] - 1
       /\ owner' = [r \in Refs |-> IF r = dropping[t] THEN None ELSE owner[r]]
       /\ dropping' = [dropping EXCEPT ![t] = None]
       /\ releaser' = IF last THEN t ELSE releaser
       /\ Return(t)
       /\ UNCHANGED <<observed, retired>>
    \/ Reload(t)

\* kb2_core_refcount_decrement_and_test
DecrementAndTest(t) ==
    /\ pc[t] = "decrement_and_test"
    /\ \/ observed[t] = 0 /\ Saturate(t)
       \/ FaultSaturated(t)
       \/ observed[t] \notin {0, MAX} /\ CountDown(t, observed[t] = 1)

\* kb2_core_refcount_set: the releaser puts the object to use again.
Set(t, new) ==
    /\ pc[t] = "idle" /\ releaser = t
    /\ Cardinality(new) < MAX
    /\ value' = Cardinality(new)
    /\ owner' = [r \in Refs |-> IF r \in new THEN t ELSE None]
    /\ releaser' = None
    /\ UNCHANGED <<pc, observed, dropping, retired, returns>>

\* The releaser frees the object for good.
Retire(t) ==
    /\ pc[t] = "idle" /\ releaser = t
    /\ releaser' = None
    /\ retired' = TRUE
    /\ UNCHANGED <<value, pc, observed, dropping, owner, returns>>

Call(t) == CallIncrement(t) \/ CallIncrementNotZero(t) \/ CallDecrement(t)
Step(t) == Increment(t) \/ IncrementNotZero(t) \/ DecrementAndTest(t)
Reuse(t) == \E new \in SUBSET Refs : new # {} /\ Set(t, new)

Next == \E t \in Threads : Call(t) \/ Step(t) \/ Reuse(t) \/ Retire(t)

\* A thread inside an operation keeps running: the loop has no wait in it.
Spec == Init /\ [][Next]_vars /\ \A t \in Threads : WF_vars(Step(t))

-----------------------------------------------------------------------------
\* The value a thread finds in the counter is the number of references that
\* exist, whatever loads and compare-exchanges of other calls fall between
\* its own, until the counter saturates.
CountExact == value # MAX => value = Cardinality(Live)

\* decrement_and_test returns 1 to one thread, only when no reference is left,
\* and none appears while that thread has the object to itself or after it
\* has retired it: increment_not_zero never revives a dead object.
SoleRelease == (releaser # None \/ retired) => Live = {}

\* Saturation is for ever: a call that loaded an older value before the
\* counter reached UINT32_MAX, or begins later, neither stores nor takes,
\* gives up or releases anything.
SaturationSticks ==
    [][value = MAX => value' = MAX /\ UNCHANGED <<owner, releaser>>]_vars

\* A call faults only on a counter that is and stays saturated, and a counter
\* saturates only where the contract says: an increment with UINT32_MAX - 1
\* references in existence, or a call on a dead object.
FaultsJustified ==
    /\ (\E t \in Threads : pc[t] = "fault") => value = MAX
    /\ value = MAX => retired \/ Cardinality(Live) = MAX - 1

\* A counter of core_runtime.h keeps its contract under every interleaving of
\* its loads and compare-exchanges: it counts, it releases once, and it
\* faults only where it must.
ReferencesExact == TypeOK /\ CountExact /\ SoleRelease /\ FaultsJustified

\* The loops are lock-free: while calls are under way, one of them returns
\* or faults.  (A single call may lose its compare-exchange for ever.)
Busy == {t \in Threads : pc[t] \in Operations}
Progress ==
    \A parity \in {0, 1}, n \in 0..Cardinality(Threads) :
       (/\ Busy # {}
        /\ returns = parity
        /\ Cardinality({t \in Threads : pc[t] = "fault"}) = n)
       ~> (\/ Busy = {}
           \/ returns # parity
           \/ Cardinality({t \in Threads : pc[t] = "fault"}) # n)
=============================================================================
