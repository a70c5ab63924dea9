------------------------------- MODULE TestQueue -------------------------------
(***************************************************************************)
(* The split virtqueue of the test peers                                   *)
(* (protocol/test/src/split_virtqueue.c), used by the reference host and   *)
(* the sandbox child: simpler than the engine the module Virtqueue models, *)
(* it keeps no chains and orders its accesses by acquire and release only. *)
(*                                                                         *)
(* A queue is one record: the rings, indices and event indices in shared   *)
(* memory, then what the driver and the device keep to themselves.  Each   *)
(* side's own copy of the index it produces equals the shared one, which   *)
(* nobody else writes, and is left out.                                    *)
(***************************************************************************)
EXTENDS Integers

CONSTANTS
  QueueSize,      \* KB2_TEST_QUEUE_SIZE
  IndexModulus    \* 2^16 for the ring indices

ASSUME QueueAssumption ==
  /\ QueueSize \in {2^e : e \in 1 .. 15}
  /\ IndexModulus \in Nat
  /\ IndexModulus > QueueSize
  /\ IndexModulus % QueueSize = 0

Slots == 0 .. QueueSize - 1
Indices == 0 .. IndexModulus - 1

Distance(from, to) == (to - from) % IndexModulus
Advance(index) == (index + 1) % IndexModulus

Queues ==
  [avail : [Slots -> Slots], avail_index : Indices, avail_event : Indices,
   used : [Slots -> 0 .. QueueSize], used_index : Indices, used_event : Indices,
   outstanding : SUBSET Slots, used_consumer : Indices,
   available_consumer : Indices]

\* What kb2_test_vq_bind leaves behind when it initializes the rings.
EmptyQueue ==
  [avail |-> [s \in Slots |-> 0], avail_index |-> 0, avail_event |-> 0,
   used |-> [s \in Slots |-> 0], used_index |-> 0, used_event |-> 0,
   outstanding |-> {}, used_consumer |-> 0, available_consumer |-> 0]

NotificationNeeded(event, new, old) ==
  (new - event - 1) % IndexModulus < (new - old) % IndexModulus

-----------------------------------------------------------------------------
(* The driver.  max_outstanding is the queue's size: with less, the host   *)
(* could not publish all its event buffers and would refuse the channel.   *)

\* A head the device still has is published again.
PublishStatusAny(q, head) ==
  IF Distance(q.used_consumer, q.avail_index) >= QueueSize THEN "FULL" ELSE "OK"

PublishStatus(q, head) ==
  CASE Distance(q.used_consumer, q.avail_index) >= QueueSize -> "FULL"
    [] head \in q.outstanding -> "MALFORMED"
    [] OTHER -> "OK"

Published(q, head) ==
  [q EXCEPT !.avail[q.avail_index % QueueSize] = head,
            !.avail_index = Advance(@),
            !.outstanding = @ \cup {head}]

PublishNotifies(q) ==
  NotificationNeeded(q.avail_event, Advance(q.avail_index), q.avail_index)

UsedCount(q) == Distance(q.used_consumer, q.used_index)
UsedId(q) == q.used[q.used_consumer % QueueSize]

TakeUsedStatus(q) ==
  CASE UsedCount(q) = 0 -> "EMPTY"
    [] UsedCount(q) > QueueSize \/ UsedId(q) \notin q.outstanding -> "MALFORMED"
    [] OTHER -> "OK"

\* The entry is consumed, and reported to the device, before it is judged.
UsedTaken(q) ==
  IF UsedCount(q) \in 1 .. QueueSize
  THEN [q EXCEPT !.used_consumer = Advance(@),
                 !.used_event = Advance(q.used_consumer),
                 !.outstanding = @ \ {UsedId(q)}]
  ELSE q

-----------------------------------------------------------------------------
(* The device.                                                             *)

AvailableCount(q) == Distance(q.available_consumer, q.avail_index)
AvailableHead(q) == q.avail[q.available_consumer % QueueSize]

\* The driver is not told how far the device came.
AvailableTakenSilently(q) == [q EXCEPT !.available_consumer = Advance(@)]

\* What a take does when the queue is neither empty nor malformed.
AvailableTaken(q) ==
  [q EXCEPT !.available_consumer = Advance(@),
            !.avail_event = Advance(q.available_consumer)]

\* kb2_test_vq_complete with a head, kb2_test_vq_inject_used_id with any id.
Completed(q, id) ==
  [q EXCEPT !.used[q.used_index % QueueSize] = id, !.used_index = Advance(@)]

CompleteNotifies(q) ==
  NotificationNeeded(q.used_event, Advance(q.used_index), q.used_index)

=============================================================================
