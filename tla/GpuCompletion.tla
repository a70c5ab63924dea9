---------------------------- MODULE GpuCompletion -----------------------------
(***************************************************************************)
(* GPU sessions and synchronous completions (protocol/src/gpu_session.c,   *)
(* protocol/src/gpu_completion.c): the requests that open and close a      *)
(* session, their completion, and the completions of commands that return  *)
(* inline data, one native object, or a mapping for one of four command    *)
(* sets.  All completions share one header.                                *)
(***************************************************************************)
EXTENDS Wire

CONSTANTS
  Abi, Digest,      \* the identity and the schema digest of this build
  MaxInline,        \* KB2_GPU_MAX_INLINE_BYTES, in words
  Page              \* 4096

VARIABLES source, frame, phase, result

OK == 0
DEVICE_LOST == 15
COMPLETED == 1
INLINE == 7
ATTACHMENT == 9
OUTPUT == 2
READ == 1
WRITE == 2
MEMORY == 1
SYNCOBJ == 6
BORROW == 1
SHARE == 2
MOVE == 3
PRIMARY == 1
RENDER == 2
SESSION_OPEN == 2
SESSION_CLOSE == 3

HeaderWords == 19
ArgumentWords == 8
AttachmentWords == 12
RecordWords == 6
OpenResponseWords == 8

(* record_schema_id of the mapping result of each command set.             *)
MappingRecord == [virtgpu_map |-> 102, mode_map |-> 145, amdgpu_map |-> 104, i915_map |-> 122]
MapKinds == DOMAIN MappingRecord
MappingArgument == 2
MappingRole == 1

-----------------------------------------------------------------------------
(***************************************************************************)
(* Fields                                                                  *)
(***************************************************************************)

Header(session, status, argc, attc, data_length, table, inline_offset, size) ==
  <<size, Abi, Digest>> \o StoreU64(session)
  \o <<status, COMPLETED, argc, 0, attc, data_length,
       HeaderWords, table, table, inline_offset, 0, 0, 0, 0>>

Argument(id, kind, schema, value, count) ==
  <<id, kind, OUTPUT, schema>> \o StoreU64(value) \o <<count, 0>>

AttachmentRecord(a) ==
  <<a.attachment_id, a.object_class>> \o StoreU64(a.exchange_id) \o StoreU64(a.generation)
  \o StoreU64(a.rights) \o <<a.role, a.ownership, a.flags, 0>>

HeaderExpected(b, argc, attc, data_length, table, inline_offset) ==
  Expect(b, 0, <<Len(b), Free, Free, Free, Free, Free, COMPLETED, argc, 0, attc, data_length,
                 HeaderWords, table, table, inline_offset, 0, 0, 0, 0>>)

OwnSchema(b) == LoadU32(b, 1) = Abi /\ LoadU32(b, 2) = Digest
SessionOf(b) == LoadU64(b, 3)
StatusOf(b) == LoadU32(b, 5)

Refuse(status) == [status |-> status]
Accept(value) == [status |-> "OK", value |-> value]
Sent(words) == [status |-> "OK", frame |-> words]

-----------------------------------------------------------------------------
(***************************************************************************)
(* Session requests                                                        *)
(***************************************************************************)

ValidOpen(r) == r.client_id # 0 /\ r.node_type \in {RENDER, PRIMARY}

OpenEncode(r) ==
  IF ~ValidOpen(r) THEN Refuse("INVALID_ARGUMENT")
  ELSE Sent(<<r.node_type, 0>> \o StoreU64(r.client_id) \o <<0, 0>>)

OpenDecode(b) ==
  LET r == [kind |-> "open", node_type |-> LoadU32(b, 0), client_id |-> LoadU64(b, 2)] IN
  IF Len(b) # 6 \/ ~(ValidOpen(r) /\ Expect(b, 0, <<Free, 0, Free, Free, 0, 0>>))
  THEN Refuse("MALFORMED")
  ELSE Accept(r)

CloseEncode(r) ==
  IF r.session_id = 0 THEN Refuse("INVALID_ARGUMENT")
  ELSE Sent(StoreU64(r.session_id) \o <<0, 0>>)

CloseDecode(b) ==
  IF Len(b) # 4 \/ ~(LoadU64(b, 0) # 0 /\ Expect(b, 2, <<0, 0>>))
  THEN Refuse("MALFORMED")
  ELSE Accept([kind |-> "close", session_id |-> LoadU64(b, 0)])

-----------------------------------------------------------------------------
(***************************************************************************)
(* Session completions                                                     *)
(***************************************************************************)

ValidCompletion(c) ==
  /\ c.status <= DEVICE_LOST
  /\ \/ /\ c.opcode = SESSION_OPEN /\ c.status = OK
        /\ c.session_id # 0 /\ c.topology_epoch # 0
     \/ /\ c.opcode = SESSION_OPEN /\ c.status # OK
        /\ c.session_id = 0 /\ c.topology_epoch = 0 /\ c.capabilities = 0
     \/ /\ c.opcode = SESSION_CLOSE
        /\ c.session_id # 0 /\ c.topology_epoch = 0 /\ c.capabilities = 0

SessionPayload(opcode, status) ==
  IF opcode = SESSION_OPEN /\ status = OK THEN OpenResponseWords ELSE 0

SessionEncode(c) ==
  LET payload == SessionPayload(c.opcode, c.status) IN
  IF ~ValidCompletion(c) THEN Refuse("MALFORMED")
  ELSE Sent(Header(c.session_id, c.status, 0, 0, payload, HeaderWords, HeaderWords,
                   HeaderWords + payload)
            \o IF payload = 0 THEN <<>>
               ELSE StoreU64(c.session_id) \o StoreU64(c.topology_epoch)
                    \o StoreU64(c.capabilities) \o <<0, 0>>)

SessionDecode(b, opcode) ==
  LET payload == SessionPayload(opcode, StatusOf(b))
      at(offset) == IF payload = 0 THEN 0 ELSE LoadU64(b, HeaderWords + offset)
      c == [kind |-> "session", opcode |-> opcode, status |-> StatusOf(b),
            session_id |-> SessionOf(b), topology_epoch |-> at(2), capabilities |-> at(4)]
  IN
  IF Len(b) < HeaderWords THEN Refuse("BUFFER_TOO_SMALL")
  ELSE IF ~OwnSchema(b) THEN Refuse("SCHEMA_MISMATCH")
  ELSE IF \/ Len(b) # HeaderWords + payload
          \/ ~HeaderExpected(b, 0, 0, payload, HeaderWords, HeaderWords)
          \/ payload # 0 /\ (at(0) # c.session_id \/ at(6) # 0)
          \/ ~ValidCompletion(c)
  THEN Refuse("MALFORMED")
  ELSE Accept(c)

-----------------------------------------------------------------------------
(***************************************************************************)
(* Inline completions                                                      *)
(***************************************************************************)

Valid(c) ==
  /\ c.session_id # 0 /\ c.status <= DEVICE_LOST /\ Len(c.data) <= MaxInline
  /\ (c.data = <<>>) = (c.record_schema_id = 0)
  /\ c.status = OK \/ c.data = <<>>

InlineOffset(n) == HeaderWords + IF n = 0 THEN 0 ELSE ArgumentWords

InlineEncode(c) ==
  LET n == Len(c.data)
      offset == InlineOffset(n)
  IN
  IF ~Valid(c) THEN Refuse("MALFORMED")
  ELSE Sent(Header(c.session_id, c.status, IF n = 0 THEN 0 ELSE 1, 0, n, offset, offset,
                   offset + n)
            \o (IF n = 0 THEN <<>> ELSE Argument(1, INLINE, c.record_schema_id, 0, n))
            \o c.data)

InlineDecode(b, session) ==
  LET n == LoadU32(b, 10)
      offset == InlineOffset(n)
      c == [kind |-> "inline", session_id |-> SessionOf(b), status |-> StatusOf(b),
            record_schema_id |-> IF n = 0 THEN 0 ELSE LoadU32(b, HeaderWords + 3),
            data |-> SubSeq(b, offset + 1, Len(b))]
  IN
  IF Len(b) < HeaderWords THEN Refuse("BUFFER_TOO_SMALL")
  ELSE IF ~OwnSchema(b) THEN Refuse("SCHEMA_MISMATCH")
  ELSE IF \/ n > MaxInline \/ SessionOf(b) # session \/ Len(b) # offset + n
          \/ ~HeaderExpected(b, IF n = 0 THEN 0 ELSE 1, 0, n, offset, offset)
          \/ n # 0 /\ ~Expect(b, HeaderWords, <<1, INLINE, OUTPUT, Free, 0, 0, n, 0>>)
          \/ ~Valid(c)
  THEN Refuse("MALFORMED")
  ELSE Accept(c)

(* A failed command of any kind completes as an empty inline completion.   *)
Failure(c) == [session_id |-> c.session_id, status |-> c.status, record_schema_id |-> 0,
               data |-> <<>>]

-----------------------------------------------------------------------------
(***************************************************************************)
(* Completions that return a native object                                 *)
(***************************************************************************)

NoAttachment == [attachment_id |-> 0, object_class |-> 0, exchange_id |-> 0, generation |-> 0,
                 rights |-> 0, role |-> 0, ownership |-> 0, flags |-> 0]

AttachmentCompletionValid(c) ==
  LET a == c.attachment IN
  /\ c.session_id # 0 /\ c.status <= DEVICE_LOST
  /\ c.status # OK => c.argument_id = 0 /\ a = NoAttachment
  /\ c.status = OK =>
       /\ 0 \notin {c.argument_id, a.attachment_id, a.exchange_id, a.generation, a.rights, a.role}
       /\ a.object_class \in MEMORY .. SYNCOBJ
       /\ a.ownership \in BORROW .. MOVE /\ a.flags = OUTPUT

AttachmentEncode(c) ==
  LET table == HeaderWords + ArgumentWords
      size == table + AttachmentWords
  IN
  IF ~AttachmentCompletionValid(c) THEN Refuse("MALFORMED")
  ELSE IF c.status # OK THEN InlineEncode(Failure(c))
  ELSE Sent(Header(c.session_id, c.status, 1, 1, 0, table, size, size)
            \o Argument(c.argument_id, ATTACHMENT, 0, c.attachment.attachment_id, 1)
            \o AttachmentRecord(c.attachment))

DecodeAttachment(b, o) ==
  [attachment_id |-> LoadU32(b, o), object_class |-> LoadU32(b, o + 1),
   exchange_id |-> LoadU64(b, o + 2), generation |-> LoadU64(b, o + 4),
   rights |-> LoadU64(b, o + 6), role |-> LoadU32(b, o + 8),
   ownership |-> LoadU32(b, o + 9), flags |-> LoadU32(b, o + 10)]

AttachmentExpected(b, c, table, generation) ==
  /\ Expect(b, HeaderWords, <<Free, ATTACHMENT, OUTPUT, 0, Free, Free, 1, 0>>)
  /\ LoadU64(b, HeaderWords + 4) = c.attachment.attachment_id
  /\ c.attachment.generation = generation /\ LoadU32(b, table + 11) = 0
  /\ AttachmentCompletionValid(c)

(* The error path that attachment and mapping completions share.           *)
DecodeFailure(b, session, AsValue(_)) ==
  LET d == InlineDecode(b, session) IN
  IF d.status = "OK" THEN Accept(AsValue(d.value)) ELSE d

AttachmentDecode(b, session, generation) ==
  LET table == HeaderWords + ArgumentWords
      failed(d) == [kind |-> "attachment", session_id |-> d.session_id, status |-> d.status,
                    argument_id |-> 0, attachment |-> NoAttachment]
      c == [kind |-> "attachment", session_id |-> session, status |-> StatusOf(b),
            argument_id |-> LoadU32(b, HeaderWords), attachment |-> DecodeAttachment(b, table)]
  IN
  IF Len(b) < HeaderWords THEN Refuse("BUFFER_TOO_SMALL")
  ELSE IF StatusOf(b) # OK THEN DecodeFailure(b, session, failed)
  ELSE IF \/ Len(b) # table + AttachmentWords \/ ~OwnSchema(b) \/ SessionOf(b) # session
          \/ ~HeaderExpected(b, 1, 1, 0, table, Len(b))
          \/ ~AttachmentExpected(b, c, table, generation)
  THEN Refuse("MALFORMED")
  ELSE Accept(c)

-----------------------------------------------------------------------------
(***************************************************************************)
(* Completions of the four mapping commands                                *)
(***************************************************************************)

MapValid(c) ==
  /\ c.session_id # 0 /\ c.status <= DEVICE_LOST
  /\ c.status # OK => \A f \in {"mapping_id", "length", "cache_policy", "exchange_id",
                                "generation", "rights"} : c[f] = 0
  /\ c.status = OK =>
       /\ 0 \notin {c.mapping_id, c.length, c.exchange_id, c.generation, c.rights}
       /\ c.mapping_id % Page = 0 /\ c.length % Page = 0
       /\ c.cache_policy <= 2 /\ Within(c.rights, READ + WRITE)

MapTable == HeaderWords + 2 * ArgumentWords
MapInline == MapTable + AttachmentWords

MapEncode(c) ==
  IF ~MapValid(c) THEN Refuse("MALFORMED")
  ELSE IF c.status # OK THEN InlineEncode(Failure(c))
  ELSE Sent(Header(c.session_id, OK, 2, 1, RecordWords, MapTable, MapInline,
                   MapInline + RecordWords)
            \o Argument(1, INLINE, MappingRecord[c.kind], 0, RecordWords)
            \o Argument(MappingArgument, ATTACHMENT, 0, 1, 1)
            \o AttachmentRecord([attachment_id |-> 1, object_class |-> MEMORY,
                 exchange_id |-> c.exchange_id, generation |-> c.generation,
                 rights |-> c.rights, role |-> MappingRole, ownership |-> SHARE,
                 flags |-> OUTPUT])
            \o StoreU64(c.mapping_id) \o StoreU64(c.length) \o <<c.cache_policy, 0>>)

(* Mutant: the record of any mapping command is taken.                     *)
MapExpectedAnyRecord(b, kind, generation) ==
  /\ Expect(b, HeaderWords, <<1, INLINE, OUTPUT, Free, 0, 0, RecordWords, 0,
                              MappingArgument, ATTACHMENT, OUTPUT, 0, 1, 0, 1, 0,
                              1, MEMORY>>)
  /\ LoadU64(b, MapTable + 4) = generation
  /\ Expect(b, MapTable + 8, <<MappingRole, SHARE, OUTPUT, 0, Free, Free, Free, Free, Free, 0>>)

MapExpected(b, kind, generation) ==
  /\ Expect(b, HeaderWords, <<1, INLINE, OUTPUT, MappingRecord[kind], 0, 0, RecordWords, 0,
                              MappingArgument, ATTACHMENT, OUTPUT, 0, 1, 0, 1, 0,
                              1, MEMORY>>)
  /\ LoadU64(b, MapTable + 4) = generation
  /\ Expect(b, MapTable + 8, <<MappingRole, SHARE, OUTPUT, 0, Free, Free, Free, Free, Free, 0>>)

MapDecoded(b, kind, session, generation) ==
  [kind |-> kind, session_id |-> session, status |-> OK,
   mapping_id |-> LoadU64(b, MapInline), length |-> LoadU64(b, MapInline + 2),
   cache_policy |-> LoadU32(b, MapInline + 4), exchange_id |-> LoadU64(b, MapTable + 2),
   generation |-> generation, rights |-> LoadU64(b, MapTable + 6)]

MapDecode(b, kind, session, generation) ==
  LET failed(d) == [kind |-> kind, session_id |-> d.session_id, status |-> d.status,
                    mapping_id |-> 0, length |-> 0, cache_policy |-> 0, exchange_id |-> 0,
                    generation |-> 0, rights |-> 0]
      c == MapDecoded(b, kind, session, generation)
  IN
  IF Len(b) < HeaderWords THEN Refuse("BUFFER_TOO_SMALL")
  ELSE IF StatusOf(b) # OK THEN DecodeFailure(b, session, failed)
  ELSE IF \/ Len(b) # MapInline + RecordWords \/ ~OwnSchema(b) \/ SessionOf(b) # session
          \/ ~HeaderExpected(b, 2, 1, RecordWords, MapTable, MapInline)
          \/ ~MapExpected(b, kind, generation) \/ ~MapValid(c)
  THEN Refuse("MALFORMED")
  ELSE Accept(c)

-----------------------------------------------------------------------------

Encode(c) ==
  CASE c.kind = "open" -> OpenEncode(c)
    [] c.kind = "close" -> CloseEncode(c)
    [] c.kind = "session" -> SessionEncode(c)
    [] c.kind = "inline" -> InlineEncode(c)
    [] c.kind = "attachment" -> AttachmentEncode(c)
    [] c.kind \in MapKinds -> MapEncode(c)

(* A receiver expects a kind, a session, a generation and an opcode.       *)
Decode(r, b) ==
  CASE r.kind = "open" -> OpenDecode(b)
    [] r.kind = "close" -> CloseDecode(b)
    [] r.kind = "session" -> SessionDecode(b, r.opcode)
    [] r.kind = "inline" -> InlineDecode(b, r.session)
    [] r.kind = "attachment" -> AttachmentDecode(b, r.session, r.generation)
    [] r.kind \in MapKinds -> MapDecode(b, r.kind, r.session, r.generation)

Short(c) == IF c.kind \in {"open", "close"} THEN "MALFORMED" ELSE "BUFFER_TOO_SMALL"

Transfer == INSTANCE Codec

-----------------------------------------------------------------------------
(***************************************************************************)
(* Properties                                                              *)
(***************************************************************************)

(* The generation of the object that a completion hands over.              *)
GenerationOf(c) == IF c.kind = "attachment" THEN c.attachment.generation ELSE c.generation
Transfers(c) == c.kind \in MapKinds \cup {"attachment"} /\ c.status = OK

(* What the receiver waits for is what was sent, as far as it says what it *)
(* waits for: all commands that return an object are one kind, and class,  *)
(* role, argument and rights of the object are the caller's to compare.    *)
Awaited(r, c) ==
  /\ r.kind = c.kind
  /\ c.kind \in MapKinds \cup {"attachment", "inline"} => r.session = c.session_id
  /\ Transfers(c) => r.generation = GenerationOf(c)
  /\ c.kind = "session" => r.opcode = c.opcode

(* A session request or completion that reaches the receiver waiting for it *)
(* is decoded to the fields it was encoded from.                            *)
RoundTrip ==
  phase = "delivered" /\ Awaited(source.reader, source.value) =>
    Transfer!Accepted /\ result.value = source.value

(* A frame that a decoder accepts, damaged or meant for another one, is the *)
(* one encoding of what it was decoded to.                                  *)
Canonical == Transfer!Canonical(TRUE)

(* A completion that hands over a native object or a mapping is accepted    *)
(* for the session and the generation it was sent for and for no other, and *)
(* nothing else is taken for one.  Of the mapping commands, "a completion   *)
(* cannot be accepted for the wrong command merely because its fields       *)
(* match"; an object is accepted for any command that returns one.          *)
HandoverExact ==
  phase = "delivered" /\ result.status = "OK" =>
    /\ Transfers(source.value) \/ (source.reader.kind \in MapKinds \cup {"attachment"}
                                   /\ result.value.status = OK)
         => Awaited(source.reader, source.value)
    /\ source.reader.kind \in MapKinds \cup {"attachment", "inline"}
         => source.reader.session = source.value.session_id
===============================================================================
