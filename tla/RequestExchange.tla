---------------------------- MODULE RequestExchange ----------------------------
(***************************************************************************)
(* What a virtqueue promises the two endpoints, without rings, indices or  *)
(* descriptors: requests are accepted in the order they were submitted,    *)
(* each is answered at most once, answers may come in any order and are    *)
(* collected in the order they were given, and the driver learns exactly   *)
(* how much the device wrote.                                              *)
(***************************************************************************)
EXTENDS Naturals, Sequences, Functions

CONSTANTS
  Requests,   \* the driver's requests
  Capacity    \* room for the answer of a request

VARIABLES
  submitted,  \* sequence of requests the device has not accepted
  accepted,   \* accepted request -> length written so far
  completed,  \* sequence of answers the driver has not collected
  returned    \* collected request -> length of its answer

exchange == <<submitted, accepted, completed, returned>>

InFlight ==
  Range(submitted) \cup DOMAIN accepted
    \cup {answer.request : answer \in Range(completed)} \cup DOMAIN returned

Without(f, r) == [x \in DOMAIN f \ {r} |-> f[x]]
With(f, r, v) == [x \in DOMAIN f \cup {r} |-> IF x = r THEN v ELSE f[x]]

Init ==
  /\ submitted = <<>> /\ completed = <<>>
  /\ accepted = [r \in {} |-> 0] /\ returned = [r \in {} |-> 0]

Submit(r) ==
  /\ r \notin InFlight
  /\ submitted' = Append(submitted, r)
  /\ UNCHANGED <<accepted, completed, returned>>

Accept ==
  /\ submitted # <<>>
  /\ accepted' = With(accepted, Head(submitted), 0)
  /\ submitted' = Tail(submitted)
  /\ UNCHANGED <<completed, returned>>

(* An accepted request goes back to the head of the queue, unanswered.     *)
Decline(r) ==
  /\ r \in DOMAIN accepted /\ accepted[r] = 0
  /\ submitted' = <<r>> \o submitted
  /\ accepted' = Without(accepted, r)
  /\ UNCHANGED <<completed, returned>>

Write(r) ==
  /\ r \in DOMAIN accepted
  /\ \E n \in accepted[r] + 1 .. Capacity : accepted' = With(accepted, r, n)
  /\ UNCHANGED <<submitted, completed, returned>>

Complete(r) ==
  /\ r \in DOMAIN accepted
  /\ completed' = Append(completed, [request |-> r, length |-> accepted[r]])
  /\ accepted' = Without(accepted, r)
  /\ UNCHANGED <<submitted, returned>>

Collect ==
  /\ completed # <<>>
  /\ returned' = With(returned, Head(completed).request, Head(completed).length)
  /\ completed' = Tail(completed)
  /\ UNCHANGED <<submitted, accepted>>

Release(r) ==
  /\ r \in DOMAIN returned
  /\ returned' = Without(returned, r)
  /\ UNCHANGED <<submitted, accepted, completed>>

Next ==
  \/ \E r \in Requests :
       Submit(r) \/ Decline(r) \/ Write(r) \/ Complete(r) \/ Release(r)
  \/ Accept
  \/ Collect

Spec == Init /\ [][Next]_exchange
=============================================================================
