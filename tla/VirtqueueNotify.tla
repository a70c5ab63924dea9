---------------------------- MODULE VirtqueueNotify ----------------------------
(***************************************************************************)
(* The wake-up handshake of the virtqueue engine: publish_index, arm and   *)
(* the event indices (protocol/src/virtqueue.c), on the x86-64 memory      *)
(* operations of protocol/arch/x86_64, with the callers' wait loop of      *)
(* tests/virtqueue_process_test.c.                                         *)
(*                                                                         *)
(* Both endpoints run the same code: each produces one ring, consumes the  *)
(* other, and may sleep until the peer kicks it.  Stores go through a      *)
(* first-in first-out store buffer of the processor and reach memory       *)
(* later; only a fence waits for them.  Every shared location has one      *)
(* writer, and its writer never loads it.                                  *)
(*                                                                         *)
(* What the rings carry is Virtqueue; here a request is only counted.      *)
(***************************************************************************)
EXTENDS Integers, Sequences

CONSTANTS
  IndexModulus,    \* number of values of a ring index (2^16)
  MaxOutstanding   \* max_outstanding

ASSUME NotifyAssumption ==
  /\ IndexModulus \in Nat /\ MaxOutstanding \in Nat
  /\ 0 < MaxOutstanding /\ MaxOutstanding < IndexModulus

Sides == {"driver", "device"}
Peer(e) == IF e = "driver" THEN "device" ELSE "driver"
Indices == 0 .. IndexModulus - 1

VARIABLES
  produced,  \* private: entries published by an endpoint
  consumed,  \* private: entries of the peer it took
  at,        \* where the endpoint stands
  notify,    \* private: a publication of the batch asked for a kick
  buffer,    \* stores of the endpoint that are not in memory yet
  idx,       \* memory: the index of the ring the endpoint produces
  event,     \* memory: the event index it arms
  kick       \* its eventfd is readable

vars == <<produced, consumed, at, notify, buffer, idx, event, kick>>

Distance(from, to) == (to - from) % IndexModulus
Successor(index) == (index + 1) % IndexModulus

(* Requests the driver did not get back, and those the device did not      *)
(* answer: what an endpoint may publish, and what it may wait for.         *)
Outstanding == Distance(consumed["driver"], produced["driver"])
Unanswered == Distance(produced["device"], consumed["device"])
MayProduce(e) == IF e = "driver" THEN Outstanding < MaxOutstanding ELSE Unanswered > 0
MayWait(e) == IF e = "driver" THEN Outstanding > 0 ELSE Unanswered = 0

Init ==
  /\ produced = [e \in Sides |-> 0] /\ consumed = [e \in Sides |-> 0]
  /\ at = [e \in Sides |-> "run"] /\ notify = [e \in Sides |-> FALSE]
  /\ buffer = [e \in Sides |-> <<>>]
  /\ idx = [e \in Sides |-> 0] /\ event = [e \in Sides |-> 0]
  /\ kick = [e \in Sides |-> FALSE]

-----------------------------------------------------------------------------
(***************************************************************************)
(* Memory                                                                  *)
(***************************************************************************)

Store(e, location, value) ==
  buffer' = [buffer EXCEPT ![e] = Append(@, [location |-> location, value |-> value])]

(* The oldest store of an endpoint reaches memory.                         *)
Flush(e) ==
  /\ buffer[e] # <<>>
  /\ LET store == Head(buffer[e]) IN
     /\ idx' = IF store.location = "idx" THEN [idx EXCEPT ![e] = store.value] ELSE idx
     /\ event' = IF store.location = "event" THEN [event EXCEPT ![e] = store.value] ELSE event
  /\ buffer' = [buffer EXCEPT ![e] = Tail(@)]
  /\ UNCHANGED <<produced, consumed, at, notify, kick>>

(* Mutant: the fence does not wait for the stores before it.               *)
FenceNone(e) ==
  /\ at[e] \in {"published", "armed"}
  /\ at' = [at EXCEPT ![e] = IF @ = "published" THEN "event" ELSE "check"]
  /\ UNCHANGED <<produced, consumed, notify, buffer, idx, event, kick>>

Fence(e) ==
  /\ at[e] \in {"published", "armed"}
  /\ buffer[e] = <<>>
  /\ at' = [at EXCEPT ![e] = IF @ = "published" THEN "event" ELSE "check"]
  /\ UNCHANGED <<produced, consumed, notify, buffer, idx, event, kick>>

-----------------------------------------------------------------------------
(***************************************************************************)
(* Producer                                                                *)
(***************************************************************************)

(* publish_index, up to its fence.                                         *)
Publish(e) ==
  /\ at[e] = "run"
  /\ MayProduce(e)
  /\ Store(e, "idx", Successor(produced[e]))
  /\ produced' = [produced EXCEPT ![e] = Successor(@)]
  /\ at' = [at EXCEPT ![e] = "published"]
  /\ UNCHANGED <<consumed, notify, idx, event, kick>>

(* (u16)(next - threshold - 1) < (u16)(next - old), with next = old + 1.   *)
Crossed(next, threshold) == Distance(threshold + 1, next) < 1

(* Mutant: only the last publication of a batch decides about the kick.    *)
LoadEventLast(e) ==
  /\ at[e] = "event"
  /\ notify' = [notify EXCEPT ![e] = Crossed(produced[e], event[Peer(e)])]
  /\ at' = [at EXCEPT ![e] = "run"]
  /\ UNCHANGED <<produced, consumed, buffer, idx, event, kick>>

(* publish_index, after its fence; the caller collects the answers of a    *)
(* batch of publications.                                                  *)
LoadEvent(e) ==
  /\ at[e] = "event"
  /\ notify' = [notify EXCEPT ![e] = @ \/ Crossed(produced[e], event[Peer(e)])]
  /\ at' = [at EXCEPT ![e] = "run"]
  /\ UNCHANGED <<produced, consumed, buffer, idx, event, kick>>

Kick(e) ==
  /\ at[e] = "run"
  /\ notify[e]
  /\ kick' = [kick EXCEPT ![Peer(e)] = TRUE]
  /\ notify' = [notify EXCEPT ![e] = FALSE]
  /\ UNCHANGED <<produced, consumed, at, buffer, idx, event>>

(* Kicks may be redundant.                                                 *)
RedundantKick(e) ==
  /\ at[e] = "run"
  /\ kick' = [kick EXCEPT ![Peer(e)] = TRUE]
  /\ UNCHANGED <<produced, consumed, at, notify, buffer, idx, event>>

-----------------------------------------------------------------------------
(***************************************************************************)
(* Consumer                                                                *)
(***************************************************************************)

Pending(e) == Distance(consumed[e], idx[Peer(e)]) # 0

(* take_available or take_used; an empty ring ends the drain.              *)
Take(e) ==
  /\ (at[e] = "run" /\ Pending(e)) \/ at[e] = "drain"
  /\ consumed' = [consumed EXCEPT ![e] = IF Pending(e) THEN Successor(@) ELSE @]
  /\ at' = [at EXCEPT ![e] = "run"]
  /\ UNCHANGED <<produced, notify, buffer, idx, event, kick>>

(* arm, up to its fence.  The caller kicked and answered what it could;    *)
(* its last look at the ring found it empty, perhaps long ago.             *)
Arm(e) ==
  /\ at[e] = "run"
  /\ MayWait(e)
  /\ ~notify[e]
  /\ Store(e, "event", consumed[e])
  /\ at' = [at EXCEPT ![e] = "armed"]
  /\ UNCHANGED <<produced, consumed, notify, idx, event, kick>>

(* arm, after its fence: ready, or the caller sleeps.                      *)
Recheck(e) ==
  /\ at[e] = "check"
  /\ at' = [at EXCEPT ![e] = IF Pending(e) THEN "drain" ELSE "sleep"]
  /\ UNCHANGED <<produced, consumed, notify, buffer, idx, event, kick>>

(* A wake is not a work item: the caller looks at the ring again.          *)
Wake(e) ==
  /\ at[e] = "sleep"
  /\ kick[e]
  /\ kick' = [kick EXCEPT ![e] = FALSE]
  /\ at' = [at EXCEPT ![e] = "drain"]
  /\ UNCHANGED <<produced, consumed, notify, buffer, idx, event>>

-----------------------------------------------------------------------------

Next ==
  \E e \in Sides :
    \/ Flush(e) \/ Fence(e)
    \/ Publish(e) \/ LoadEvent(e) \/ Kick(e) \/ RedundantKick(e)
    \/ Take(e) \/ Arm(e) \/ Recheck(e) \/ Wake(e)

(* Stores drain, calls return, a batch ends with its kick, a running       *)
(* endpoint looks at its ring, and the device answers.  Nobody has to      *)
(* submit or to wait.                                                      *)
Fairness ==
  /\ \A e \in Sides :
       /\ WF_vars(Flush(e)) /\ WF_vars(Fence(e)) /\ WF_vars(LoadEvent(e))
       /\ WF_vars(Kick(e)) /\ WF_vars(Take(e)) /\ WF_vars(Recheck(e)) /\ WF_vars(Wake(e))
  /\ WF_vars(Publish("device"))

Spec == Init /\ [][Next]_vars /\ Fairness

-----------------------------------------------------------------------------
(***************************************************************************)
(* Properties                                                              *)
(***************************************************************************)

Stores == [location : {"idx", "event"}, value : Indices]

(* A fence leaves at most one store in a buffer.                           *)
TypeOK ==
  /\ produced \in [Sides -> Indices] /\ consumed \in [Sides -> Indices]
  /\ at \in [Sides -> {"run", "published", "event", "armed", "check", "sleep", "drain"}]
  /\ notify \in [Sides -> BOOLEAN] /\ kick \in [Sides -> BOOLEAN]
  /\ buffer \in [Sides -> {<<>>} \cup {<<s>> : s \in Stores}]
  /\ idx \in [Sides -> Indices] /\ event \in [Sides -> Indices]

(* No wake-up is lost: an endpoint sleeps on entries it has not taken only *)
(* while its kick is on the way.  One entry whose publication has not      *)
(* loaded the event index may have asked for none yet.                     *)
NoLostWakeup ==
  \A e \in Sides :
    LET entries == Distance(consumed[e], produced[Peer(e)])
        decided == IF at[Peer(e)] \in {"published", "event"} THEN entries - 1 ELSE entries
    IN  at[e] = "sleep" /\ decided > 0 => kick[e] \/ notify[Peer(e)]

(* The endpoints never wait for each other: while requests are out, some   *)
(* endpoint runs or has its kick.                                          *)
NotBothAsleep ==
  \E e \in Sides : at[e] # "sleep" \/ kick[e]

(* Every request comes back: the driver collects an answer for each entry  *)
(* it published, whoever slept in between.                                 *)
RequestsReturn ==
  \A i \in Indices :
    consumed["driver"] = i /\ produced["driver"] # i ~> consumed["driver"] # i
=============================================================================
