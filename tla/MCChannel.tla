------------------------------ MODULE MCChannel -------------------------------
(***************************************************************************)
(* Channels one or two fields away from two sound ones, envelopes, and     *)
(* every damage of one word.  U32 = 128: addresses are below 16384, and    *)
(* the largest frame just fits a u32 of words.                             *)
(***************************************************************************)
EXTENDS Channel, Variations

Queue(id, role, size, desc, avail, used) ==
  [queue_id |-> id, role |-> role, queue_size |-> size, flags |-> 0,
   descriptor_address |-> desc, available_address |-> avail, used_address |-> used,
   available_notification_id |-> 2 * id, used_notification_id |-> 2 * id + 1,
   max_chain_length |-> 1, max_indirect_length |-> 2, max_outstanding |-> size]

Region(id, rights, base, length) ==
  [region_id |-> id, rights |-> rights, transport_base |-> base, length |-> length]

Base(queues, regions) ==
  [kind |-> "channel", feature_bits |-> 130, channel_id |-> 1, generation |-> 200,
   protocol_id |-> 3, flags |-> DATA, queues |-> queues, regions |-> regions]

Request == Queue(1, REQUEST, 2, 256, 288, 300)
Event == Queue(2, EVENT, 1, 336, 352, 360)
Low == Region(1, RW, 256, 128)
High == Region(2, RW, 384, 64)

Two == Base(<<Request, Event>>, <<Low, High>>)
One == Base(<<Request>>, <<Low>>)
Other == {Base(<<>>, <<Low>>), Base(<<Request>>, <<>>), Base(<<Event>>, <<Low>>),
          Base(<<Request, Event, Queue(3, REQUEST, 1, 384, 400, 408)>>, <<Low, High>>),
          Base(<<Request>>, <<Low, High, Region(3, READ, 0, 16)>>)}

QueueChanges ==
  [queue_id |-> {0, 1}, role |-> {0, 1, 2, 3}, queue_size |-> {0, 1, 3, 4, 8}, flags |-> {1},
   descriptor_address |-> {264, 272, 368, 384, 16352, 16368},
   available_address |-> {289, 296, 316, 358, 16376},
   used_address |-> {0, 302, 304, 376, 16372},
   available_notification_id |-> {0, 3, 4}, used_notification_id |-> {0, 2, 4},
   max_chain_length |-> {0, 2, 3}, max_indirect_length |-> {0, 4, 5},
   max_outstanding |-> {0, 1, 3}]

RegionChanges ==
  [region_id |-> {0, 1, 2}, rights |-> {0, 1, 2, 4},
   transport_base |-> {256, 320, 383, 16256},
   length |-> {0, 127, 129, 160, 16100, 16383}]

ChannelChanges ==
  [feature_bits |-> {0, 2}, channel_id |-> {0}, generation |-> {0}, protocol_id |-> {0},
   flags |-> {0, 1, 3}]

ChangeQueue(c) == ChangeRows(c, "queues", QueueChanges)
ChangeRegion(c) == ChangeRows(c, "regions", RegionChanges)
ChangeHeader(c) == ChangeFields(c, ChannelChanges)

Once(c) == {c} \cup ChangeQueue(c) \cup ChangeRegion(c) \cup ChangeHeader(c)
Twice(c) == UNION {ChangeQueue(d) \cup ChangeRegion(d) : d \in {c} \cup ChangeQueue(c) \cup ChangeRegion(c)}

Envelope(protocol, generation, length, payload) ==
  [kind |-> "envelope", protocol_id |-> protocol, opcode |-> 9, flags |-> 5,
   generation |-> generation, correlation_id |-> 300, payload_length |-> length,
   payload |-> payload]

Envelopes == {Envelope(p, g, n, s) : p \in {0, 3}, g \in {0, 129}, n \in 0 .. 3,
                                     s \in {<<>>, <<7>>, <<7, 8>>}}

MCSources == {[value |-> v, reader |-> v.kind] :
                v \in Once(Two) \cup Twice(Two) \cup Once(One) \cup Other \cup Envelopes}
MCFragile == {[value |-> v, reader |-> v.kind] : v \in {Two, One} \cup Envelopes}
MCNoise == {0, 1, 2, 3, 7, 17, 33, 42, 57, 127}

Init == Transfer!Init(MCSources)
Next == Transfer!Next(MCFragile, MCNoise)
===============================================================================
