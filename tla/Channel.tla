------------------------------- MODULE Channel --------------------------------
(***************************************************************************)
(* Channel descriptors and message envelopes (protocol/src/protocol.c):    *)
(* validation of a channel with its queues and regions, its encoding and   *)
(* its decoding, and the envelope of a message.                            *)
(*                                                                         *)
(* Sizes on the wire are counted in words; ring and region lengths in      *)
(* bytes, as addresses are.                                                *)
(***************************************************************************)
EXTENDS Wire, FiniteSets

CONSTANTS
  QueueSizeMin, QueueSizeMax, MinQueues, MaxQueues, MaxRegions,
  Features,            \* KB2_PROTOCOL_TRANSPORT_FEATURES_REQUIRED
  Abi, Digest,         \* the identity and the schema digest of this build
  Capacity             \* [queues, regions]: of the receiver's arrays

VARIABLES source, frame, phase, result

EVENT == 1
REQUEST == 2
MANAGEMENT == 1
DATA == 2
READ == 1
WRITE == 2
RW == READ + WRITE

HeaderWords == 17
QueueWords == 16
RegionWords == 8
EnvelopeWords == 10

-----------------------------------------------------------------------------
(***************************************************************************)
(* Validation                                                              *)
(***************************************************************************)

RangeValid(base, length) == length # 0 /\ base <= U64Max - length

RangesOverlap(a, n, b, m) == a < AddU64(b, m) /\ b < AddU64(a, n)

(* Mutant: a range may lie in two adjacent regions.                        *)
RangeHasRightsJoined(base, length, rights, regions) ==
  /\ RangeValid(base, length)
  /\ \E i, j \in DOMAIN regions :
       /\ Within(rights, regions[i].rights) /\ Within(rights, regions[j].rights)
       /\ base >= regions[i].transport_base
       /\ AddU64(base, length) <= AddU64(regions[j].transport_base, regions[j].length)

RangeHasRights(base, length, rights, regions) ==
  /\ RangeValid(base, length)
  /\ \E i \in DOMAIN regions :
       /\ Within(rights, regions[i].rights)
       /\ base >= regions[i].transport_base
       /\ AddU64(base, length) <= AddU64(regions[i].transport_base, regions[i].length)

Rings == 1 .. 3

QueueRangeLength(q, ring) ==
  <<16 * q.queue_size, 6 + 2 * q.queue_size, 6 + 8 * q.queue_size>>[ring]

QueueRangeBase(q, ring) ==
  <<q.descriptor_address, q.available_address, q.used_address>>[ring]

ValidateRegions(regions) ==
  \A i \in DOMAIN regions :
    LET r == regions[i] IN
    /\ r.region_id # 0 /\ r.rights # 0 /\ Within(r.rights, RW)
    /\ RangeValid(r.transport_base, r.length)
    /\ \A j \in 1 .. i - 1 :
         /\ r.region_id # regions[j].region_id
         /\ ~RangesOverlap(r.transport_base, r.length,
                           regions[j].transport_base, regions[j].length)

Notifications(q) == {q.available_notification_id, q.used_notification_id}

QueueIdentityUnique(queues, i) ==
  /\ \A j \in 1 .. i - 1 :
       /\ queues[i].queue_id # queues[j].queue_id
       /\ Notifications(queues[i]) \cap Notifications(queues[j]) = {}
  /\ queues[i].available_notification_id # queues[i].used_notification_id

RingsOverlap(p, s, q, r) ==
  RangesOverlap(QueueRangeBase(p, s), QueueRangeLength(p, s),
                QueueRangeBase(q, r), QueueRangeLength(q, r))

QueueRangesUnique(queues, i) ==
  /\ \A s, r \in Rings, j \in 1 .. i - 1 : ~RingsOverlap(queues[i], s, queues[j], r)
  /\ \A s \in Rings : \A r \in 1 .. s - 1 : ~RingsOverlap(queues[i], s, queues[i], r)

ValidQueue(queues, i, regions) ==
  LET q == queues[i] IN
  /\ q.queue_id # 0 /\ q.flags = 0 /\ q.role \in {EVENT, REQUEST}
  /\ q.queue_size \in QueueSizeMin .. QueueSizeMax
  /\ Bits(q.queue_size) \cap Bits(q.queue_size - 1) = {}
  /\ 0 \notin Notifications(q)
  /\ q.max_chain_length \in 1 .. q.queue_size
  /\ q.max_indirect_length \in 1 .. QueueSizeMax
  /\ q.max_outstanding \in 1 .. q.queue_size
  /\ QueueIdentityUnique(queues, i)
  /\ q.descriptor_address % 16 = 0 /\ q.available_address % 2 = 0 /\ q.used_address % 4 = 0
  /\ \A r \in Rings : RangeHasRights(QueueRangeBase(q, r), QueueRangeLength(q, r), RW, regions)
  /\ QueueRangesUnique(queues, i)

WithRole(queues, role) == Cardinality({i \in DOMAIN queues : queues[i].role = role})

ValidateQueues(queues, regions) ==
  /\ \A i \in DOMAIN queues : ValidQueue(queues, i, regions)
  /\ WithRole(queues, EVENT) <= 1 /\ WithRole(queues, REQUEST) >= 1

ValidateModel(c) ==
  /\ Len(c.queues) \in MinQueues .. MaxQueues
  /\ Len(c.regions) \in 1 .. MaxRegions
  /\ c.feature_bits = Features
  /\ 0 \notin {c.channel_id, c.generation, c.protocol_id}
  /\ c.flags \in {MANAGEMENT, DATA}
  /\ ValidateRegions(c.regions)
  /\ ValidateQueues(c.queues, c.regions)

-----------------------------------------------------------------------------
(***************************************************************************)
(* The channel on the wire                                                 *)
(***************************************************************************)

EncodedSize(queue_count, region_count) ==
  LET size == HeaderWords + queue_count * QueueWords + region_count * RegionWords IN
  CASE queue_count \notin MinQueues .. MaxQueues \/ region_count \notin 1 .. MaxRegions ->
         [status |-> "INVALID_ARGUMENT", size |-> 0]
    [] OTHER -> IF size > U32Max THEN [status |-> "OVERFLOW", size |-> 0]
                ELSE [status |-> "OK", size |-> size]

EncodeQueue(q) ==
  <<q.queue_id, q.role, q.queue_size, q.flags>>
  \o StoreU64(q.descriptor_address) \o StoreU64(q.available_address) \o StoreU64(q.used_address)
  \o <<q.available_notification_id, q.used_notification_id, q.max_chain_length,
       q.max_indirect_length, q.max_outstanding, 0>>

EncodeRegion(r) ==
  <<r.region_id, r.rights>> \o StoreU64(r.transport_base) \o StoreU64(r.length) \o <<0, 0>>

EncodeChannel(c) ==
  LET e == EncodedSize(Len(c.queues), Len(c.regions))
      table == HeaderWords + Len(c.queues) * QueueWords
  IN CASE e.status # "OK" -> [status |-> e.status]
       [] e.status = "OK" /\ ~ValidateModel(c) -> [status |-> "MALFORMED"]
       [] OTHER ->
            [status |-> "OK",
             frame |-> <<e.size, Abi, Digest>> \o StoreU64(c.feature_bits)
                       \o StoreU64(c.channel_id) \o StoreU64(c.generation)
                       \o <<c.protocol_id, c.flags, Len(c.queues), Len(c.regions),
                            HeaderWords, table, 0, 0>>
                       \o EncodeTable(c.queues, EncodeQueue)
                       \o EncodeTable(c.regions, EncodeRegion)]

DecodeQueue(b, o) ==
  [queue_id |-> LoadU32(b, o), role |-> LoadU32(b, o + 1), queue_size |-> LoadU32(b, o + 2),
   flags |-> LoadU32(b, o + 3), descriptor_address |-> LoadU64(b, o + 4),
   available_address |-> LoadU64(b, o + 6), used_address |-> LoadU64(b, o + 8),
   available_notification_id |-> LoadU32(b, o + 10),
   used_notification_id |-> LoadU32(b, o + 11), max_chain_length |-> LoadU32(b, o + 12),
   max_indirect_length |-> LoadU32(b, o + 13), max_outstanding |-> LoadU32(b, o + 14)]

(* Mutant: the length is read as a u32.                                    *)
DecodeRegionShort(b, o) ==
  [region_id |-> LoadU32(b, o), rights |-> LoadU32(b, o + 1),
   transport_base |-> LoadU64(b, o + 2), length |-> LoadU32(b, o + 4)]

DecodeRegion(b, o) ==
  [region_id |-> LoadU32(b, o), rights |-> LoadU32(b, o + 1),
   transport_base |-> LoadU64(b, o + 2), length |-> LoadU64(b, o + 4)]

(* The fields of an accepted header; the reserved ones of every record.    *)
DecodedChannel(b, queue_count, region_count) ==
  LET table == LoadU32(b, 14) IN
  [kind |-> "channel",
   feature_bits |-> LoadU64(b, 3), channel_id |-> LoadU64(b, 5), generation |-> LoadU64(b, 7),
   protocol_id |-> LoadU32(b, 9), flags |-> LoadU32(b, 10),
   queues |-> DecodeTable(b, LoadU32(b, 13), queue_count, QueueWords, DecodeQueue),
   regions |-> DecodeTable(b, table, region_count, RegionWords, DecodeRegion)]

ReservedZero(b, queue_count, region_count) ==
  /\ \A i \in 1 .. queue_count : LoadU32(b, LoadU32(b, 13) + QueueWords * i - 1) = 0
  /\ \A i \in 1 .. region_count : LoadU64(b, LoadU32(b, 14) + RegionWords * i - 2) = 0

DecodeChannel(b) ==
  LET queue_count == LoadU32(b, 11)
      region_count == LoadU32(b, 12)
      expected == EncodedSize(queue_count, region_count)
      channel == DecodedChannel(b, queue_count, region_count)
  IN
  IF Len(b) < HeaderWords THEN [status |-> "BUFFER_TOO_SMALL"]
  ELSE IF LoadU32(b, 1) # Abi \/ LoadU32(b, 2) # Digest THEN [status |-> "SCHEMA_MISMATCH"]
  ELSE IF \/ LoadU32(b, 15) # 0 \/ LoadU32(b, 16) # 0
          \/ expected.status # "OK" \/ LoadU32(b, 0) # expected.size
          \/ LoadU32(b, 13) # HeaderWords
          \/ LoadU32(b, 14) # LoadU32(b, 13) + queue_count * QueueWords
  THEN [status |-> "MALFORMED"]
  ELSE IF \/ Len(b) < expected.size
          \/ Capacity.queues < queue_count \/ Capacity.regions < region_count
  THEN [status |-> "BUFFER_TOO_SMALL"]
  ELSE IF ~ReservedZero(b, queue_count, region_count) \/ ~ValidateModel(channel)
  THEN [status |-> "MALFORMED"]
  ELSE [status |-> "OK", value |-> channel]

-----------------------------------------------------------------------------
(***************************************************************************)
(* The envelope of a message, with room words of payload behind it         *)
(***************************************************************************)

EncodeEnvelope(m) ==
  CASE m.protocol_id = 0 \/ m.generation = 0 -> [status |-> "INVALID_ARGUMENT"]
    [] OTHER ->
         IF Len(m.payload) < m.payload_length THEN [status |-> "BUFFER_TOO_SMALL"]
         ELSE [status |-> "OK",
               frame |-> <<m.protocol_id, Abi, m.opcode, m.flags>> \o StoreU64(m.generation)
                         \o StoreU64(m.correlation_id) \o <<m.payload_length, 0>> \o m.payload]

EnvelopeFits(b) == Len(b) >= EnvelopeWords + LoadU32(b, 8)

DecodeEnvelope(b) ==
  CASE Len(b) < EnvelopeWords -> [status |-> "BUFFER_TOO_SMALL"]
    [] Len(b) >= EnvelopeWords /\ LoadU32(b, 1) # Abi -> [status |-> "SCHEMA_MISMATCH"]
    [] OTHER ->
         IF LoadU32(b, 9) # 0 \/ LoadU32(b, 0) = 0 \/ LoadU64(b, 4) = 0
         THEN [status |-> "MALFORMED"]
         ELSE IF ~EnvelopeFits(b) THEN [status |-> "BUFFER_TOO_SMALL"]
         ELSE [status |-> "OK",
               value |-> [kind |-> "envelope", protocol_id |-> LoadU32(b, 0),
                          opcode |-> LoadU32(b, 2), flags |-> LoadU32(b, 3),
                          generation |-> LoadU64(b, 4), correlation_id |-> LoadU64(b, 6),
                          payload_length |-> LoadU32(b, 8),
                          payload |-> SubSeq(b, EnvelopeWords + 1, Len(b))]]

Encode(m) == IF m.kind = "channel" THEN EncodeChannel(m) ELSE EncodeEnvelope(m)
Decode(kind, b) == IF kind = "channel" THEN DecodeChannel(b) ELSE DecodeEnvelope(b)

Short(value) == "BUFFER_TOO_SMALL"

Transfer == INSTANCE Codec

-----------------------------------------------------------------------------
(***************************************************************************)
(* Properties                                                              *)
(***************************************************************************)

(* What kb2_protocol_channel_encode and kb2_protocol_message_envelope_encode *)
(* write is decoded to the same fields.                                     *)
RoundTrip == Transfer!RoundTrip

(* A frame that channel_decode or envelope_decode accepts, damaged or not,  *)
(* is the encoding of what it is decoded to: no two frames mean the same    *)
(* channel, and no reserved or redundant field is ignored.                  *)
Canonical == Transfer!Canonical(FALSE)

Ends(base, length) == [from |-> base, to |-> base + length]
Apart(x, y) == x.to <= y.from \/ y.to <= x.from
RegionSpan(r) == Ends(r.transport_base, r.length)
RingSpan(q, ring) == Ends(QueueRangeBase(q, ring), QueueRangeLength(q, ring))

(* What a channel promises its users, in integers that do not wrap: every   *)
(* address below 2^64, regions and rings apart from one another, every ring *)
(* aligned and inside one region that may be read and written, and every    *)
(* identifier used once.                                                    *)
Sound(c) ==
  LET rings == {<<i, r>> : i \in DOMAIN c.queues, r \in Rings}
      span(x) == RingSpan(c.queues[x[1]], x[2])
      doorbells == [x \in (DOMAIN c.queues) \X {1, 2} |->
                      IF x[2] = 1 THEN c.queues[x[1]].available_notification_id
                      ELSE c.queues[x[1]].used_notification_id]
  IN
  /\ Len(c.queues) \in MinQueues .. MaxQueues /\ Len(c.regions) \in 1 .. MaxRegions
  /\ c.feature_bits = Features /\ c.flags \in {MANAGEMENT, DATA}
  /\ c.channel_id > 0 /\ c.generation > 0 /\ c.protocol_id > 0
  /\ \A i \in DOMAIN c.regions :
       /\ c.regions[i].region_id > 0 /\ c.regions[i].rights \in 1 .. RW
       /\ c.regions[i].length > 0 /\ RegionSpan(c.regions[i]).to <= U64Max
  /\ \A p \in Pairs(c.regions) :
       /\ c.regions[p[1]].region_id # c.regions[p[2]].region_id
       /\ Apart(RegionSpan(c.regions[p[1]]), RegionSpan(c.regions[p[2]]))
  /\ \A x, y \in rings : x # y => Apart(span(x), span(y))
  /\ \A x \in rings :
       /\ span(x).from % <<16, 2, 4>>[x[2]] = 0
       /\ \E i \in DOMAIN c.regions :
            /\ c.regions[i].rights = RW
            /\ RegionSpan(c.regions[i]).from <= span(x).from
            /\ span(x).to <= RegionSpan(c.regions[i]).to
  /\ \A x \in DOMAIN doorbells : doorbells[x] > 0
  /\ \A x, y \in DOMAIN doorbells : x # y => doorbells[x] # doorbells[y]
  /\ \A p \in Pairs(c.queues) : c.queues[p[1]].queue_id # c.queues[p[2]].queue_id
  /\ \A i \in DOMAIN c.queues :
       LET q == c.queues[i] IN
       /\ q.queue_id > 0 /\ q.flags = 0
       /\ \E k \in 0 .. 15 : q.queue_size = 2^k
       /\ QueueSizeMin <= q.queue_size /\ q.queue_size <= QueueSizeMax
       /\ q.max_chain_length \in 1 .. q.queue_size /\ q.max_outstanding \in 1 .. q.queue_size
       /\ q.max_indirect_length \in 1 .. QueueSizeMax
       /\ q.role \in {EVENT, REQUEST}
  /\ \E i \in DOMAIN c.queues : c.queues[i].role = REQUEST
  /\ \A p \in Pairs(c.queues) : ~(c.queues[p[1]].role = EVENT /\ c.queues[p[2]].role = EVENT)

(* kb2_validate_channel_model, with its sums modulo 2^64, accepts exactly   *)
(* the sound channels: encoding refuses all others, and decoding yields     *)
(* none of them.                                                            *)
ValidationExact ==
  LET c == source.value IN
  c.kind = "channel" =>
    /\ phase = "refused" => ~Sound(c)
    /\ phase = "sent" => Sound(c)
    /\ Transfer!Accepted => Sound(result.value)

(* A message that envelope_decode accepts carries as much payload as it     *)
(* says.                                                                    *)
PayloadPresent ==
  source.value.kind = "envelope" /\ Transfer!Accepted =>
    Len(frame) >= EnvelopeWords + result.value.payload_length

===============================================================================
