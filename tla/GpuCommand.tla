----------------------------- MODULE GpuCommand -----------------------------
(***************************************************************************)
(* The GPU command codec (protocol/src/gpu.c): a command of one of the DRM *)
(* command sets, its arguments, the spans of shared memory and the native  *)
(* objects they refer to, and its inline record.  GpuRequest says which    *)
(* commands are valid.  The receiver brings its own generation, profile,   *)
(* queue and regions; none of them is taken from the frame.                *)
(***************************************************************************)
EXTENDS GpuRequest

CONSTANTS
  Abi, Digest       \* the identity and the schema digest of this build

VARIABLES source, frame, phase, result

HeaderWords == 25
ArgumentWords == 8
SpanWords == 10
AttachmentWords == 12

Argument32 == [argument_id |-> 0, kind |-> 1, flags |-> 2, record_schema_id |-> 3, count |-> 6]
Argument64 == [value |-> 4]
ArgumentReserved == 7
Span32 == [span_id |-> 0, region_id |-> 1, rights |-> 6, record_schema_id |-> 7,
           element_count |-> 8, flags |-> 9]
Span64 == [offset |-> 2, length |-> 4]
Attachment32 == [attachment_id |-> 0, object_class |-> 1, role |-> 8, ownership |-> 9,
                 flags |-> 10]
Attachment64 == [exchange_id |-> 2, generation |-> 4, rights |-> 6]
AttachmentReserved == 11

encode_argument(a) == PutFields(ArgumentWords, Argument32, Argument64, a)
encode_span(span) == PutFields(SpanWords, Span32, Span64, span)
encode_attachment(a) == PutFields(AttachmentWords, Attachment32, Attachment64, a)

decode_row(b, offset, size, at32, at64) ==
  GetFields(SubSeq(b, offset + 1, offset + size), at32, at64)
decode_argument(b, offset) == decode_row(b, offset, ArgumentWords, Argument32, Argument64)
decode_span(b, offset) == decode_row(b, offset, SpanWords, Span32, Span64)
decode_attachment(b, offset) ==
  decode_row(b, offset, AttachmentWords, Attachment32, Attachment64)

(* Where the three tables, the inline data and the end of a frame are.     *)
Layout(argc, spanc, attc, inline_length) ==
  LET c == Cursor(<<HeaderWords, argc * ArgumentWords, spanc * SpanWords,
                    attc * AttachmentWords, inline_length>>)
  IN [i \in 1 .. 5 |-> c[i]]

Refuse(status) == [status |-> status]
Accept(value) == [status |-> "OK", value |-> value]
Sent(words) == [status |-> "OK", frame |-> words]

(* Mutant: the deadline is written before the reserved word, not after it. *)
command_encode_shifted(s) ==
  LET at == Layout(Len(s.arguments), Len(s.spans), Len(s.attachments), Len(s.inline)) IN
  IF ~ validate_source(s) THEN Refuse("MALFORMED")
  ELSE Sent(<<at[5], Abi, Digest>> \o StoreU64(s.generation) \o StoreU64(s.session_id)
            \o <<s.command_set_id, s.command_id, s.flags,
                 Len(s.arguments), Len(s.spans), Len(s.attachments), Len(s.inline)>>
            \o SubSeq(at, 1, 4) \o StoreU64(s.deadline_ns) \o <<0, 0, 0, 0, 0>>
            \o EncodeTable(s.arguments, encode_argument) \o EncodeTable(s.spans, encode_span)
            \o EncodeTable(s.attachments, encode_attachment) \o s.inline)

command_encode(s) ==
  LET at == Layout(Len(s.arguments), Len(s.spans), Len(s.attachments), Len(s.inline)) IN
  IF ~ validate_source(s) THEN Refuse("MALFORMED")
  ELSE Sent(<<at[5], Abi, Digest>> \o StoreU64(s.generation) \o StoreU64(s.session_id)
            \o <<s.command_set_id, s.command_id, s.flags,
                 Len(s.arguments), Len(s.spans), Len(s.attachments), Len(s.inline)>>
            \o SubSeq(at, 1, 4) \o <<0>> \o StoreU64(s.deadline_ns) \o <<0, 0, 0, 0>>
            \o EncodeTable(s.arguments, encode_argument) \o EncodeTable(s.spans, encode_span)
            \o EncodeTable(s.attachments, encode_attachment) \o s.inline)

command_offsets_valid(b) ==
  LET count(i) == LoadU32(b, 9 + i)
      at == Layout(count(1), count(2), count(3), count(4))
  IN
  /\ count(1) <= MAX_ARGUMENTS /\ count(2) <= MAX_SPANS /\ count(3) <= MAX_ATTACHMENTS
  /\ count(4) <= MAX_INLINE
  /\ \A i \in 1 .. 4 : LoadU32(b, 13 + i) = at[i]
  /\ Len(b) = at[5] /\ LoadU32(b, 0) = at[5]

(* The tables of a frame whose offsets are valid, as a command of what the *)
(* receiver expects.                                                       *)
CommandOf(reader, b) ==
  LET at(i) == LoadU32(b, 13 + i)
      count(i) == LoadU32(b, 9 + i)
  IN [generation |-> LoadU64(b, 3), session_id |-> LoadU64(b, 5),
      profile_kind |-> reader.profile_kind, queue_class |-> reader.queue_class,
      command_set_id |-> LoadU32(b, 7), command_id |-> LoadU32(b, 8), flags |-> LoadU32(b, 9),
      deadline_ns |-> LoadU64(b, 19),
      arguments |-> DecodeTable(b, at(1), count(1), ArgumentWords, decode_argument),
      spans |-> DecodeTable(b, at(2), count(2), SpanWords, decode_span),
      attachments |-> DecodeTable(b, at(3), count(3), AttachmentWords, decode_attachment),
      inline |-> SubSeq(b, at(4) + 1, Len(b)), regions |-> reader.regions]

(* Mutant: the reserved words of attachments are not looked at.            *)
RowsReservedPartly(b) ==
  \A i \in 0 .. LoadU32(b, 10) - 1 :
    LoadU32(b, LoadU32(b, 14) + i * ArgumentWords + ArgumentReserved) = 0

RowsReserved(b) ==
  /\ \A i \in 0 .. LoadU32(b, 10) - 1 :
       LoadU32(b, LoadU32(b, 14) + i * ArgumentWords + ArgumentReserved) = 0
  /\ \A i \in 0 .. LoadU32(b, 12) - 1 :
       LoadU32(b, LoadU32(b, 16) + i * AttachmentWords + AttachmentReserved) = 0

command_decode(reader, b) ==
  IF reader.generation = 0 \/ ~ profile_kind_valid(reader.profile_kind)
  THEN Refuse("INVALID_ARGUMENT")
  ELSE IF Len(b) < HeaderWords THEN Refuse("BUFFER_TOO_SMALL")
  ELSE IF ~ Expect(b, 1, <<Abi, Digest>>) THEN Refuse("SCHEMA_MISMATCH")
  ELSE IF /\ Expect(b, 18, <<0, Free, Free, 0, 0, 0, 0>>)
          /\ command_offsets_valid(b) /\ RowsReserved(b)
          /\ LoadU64(b, 3) = reader.generation
          /\ validate_source(CommandOf(reader, b))
       THEN Accept(CommandOf(reader, b))
  ELSE Refuse("MALFORMED")

Short(s) == "BUFFER_TOO_SMALL"

-----------------------------------------------------------------------------

Transfer == INSTANCE Codec WITH Encode <- command_encode, Decode <- command_decode

-----------------------------------------------------------------------------
(***************************************************************************)
(* Properties                                                              *)
(***************************************************************************)

Expected(s) == [generation |-> s.generation, profile_kind |-> s.profile_kind,
                queue_class |-> s.queue_class, regions |-> s.regions]

(* A command that is encoded and arrives as it was sent, at the receiver   *)
(* it is meant for, is decoded to the same command: every check of         *)
(* kb2_gpu_command_decode is one kb2_gpu_command_encode has made.          *)
RoundTrip == source.reader = Expected(source.value) => Transfer!RoundTrip

(* kb2_gpu_command_decode accepts only the one frame that encodes the      *)
(* command it returns: no word of the header, of the tables or of the      *)
(* inline data is ignored.                                                 *)
Canonical == Transfer!Canonical(TRUE)

(* In an accepted command every span and every attachment belongs to       *)
(* exactly one argument, an argument describes the span it refers to, and  *)
(* the only other argument is the inline record, which is all of the       *)
(* inline data.                                                            *)
ReferencesExact ==
  Transfer!Accepted =>
    LET s == result.value
        refer(kind, id) == {i \in DOMAIN s.arguments :
                              s.arguments[i].kind = kind /\ s.arguments[i].value = id}
        inline == {i \in DOMAIN s.arguments : s.arguments[i].kind = INLINE}
    IN
    /\ \A i \in DOMAIN s.spans :
         \E a \in DOMAIN s.arguments :
           /\ refer(SPAN, s.spans[i].span_id) = {a}
           /\ s.arguments[a].count = s.spans[i].element_count
           /\ s.arguments[a].record_schema_id = s.spans[i].record_schema_id
    /\ \A i \in DOMAIN s.attachments :
         Cardinality(refer(ATTACHMENT, s.attachments[i].attachment_id)) = 1
    /\ Len(s.arguments) = Cardinality(inline) + Len(s.spans) + Len(s.attachments)
    /\ IF s.inline = <<>> THEN inline = {}
       ELSE \E i \in DOMAIN s.arguments :
              inline = {i} /\ s.arguments[i].value = 0 /\ s.arguments[i].count = Len(s.inline)

(* The spans of an accepted command lie inside regions of the receiver,    *)
(* within their rights, and what is written through one of them is neither *)
(* read nor written through another, also where the sum of an offset and a *)
(* length comes near 2^64.                                                 *)
SpansSafe ==
  Transfer!Accepted =>
    LET spans == result.value.spans
        end(i) == spans[i].offset + spans[i].length
    IN
    /\ \A i \in DOMAIN spans :
         \E r \in DOMAIN source.reader.regions :
           LET region == source.reader.regions[r] IN
           /\ region.region_id = spans[i].region_id /\ end(i) <= region.length
           /\ Within(spans[i].rights, region.rights)
    /\ \A p \in Pairs(spans) :
         \/ spans[p[1]].region_id # spans[p[2]].region_id
         \/ end(p[1]) <= spans[p[2]].offset \/ end(p[2]) <= spans[p[1]].offset
         \/ {spans[p[1]].rights, spans[p[2]].rights} = {READ}

(* The command with n elements in span i, and the one without span i.      *)
Resized(s, i, n) ==
  LET span == s.spans[i] IN
  [s EXCEPT !.spans[i] = [span EXCEPT !.element_count = n,
                                      !.length = n * (span.length \div span.element_count)],
            !.arguments = [a \in DOMAIN @ |->
                             IF @[a].kind = SPAN /\ @[a].value = span.span_id
                             THEN [@[a] EXCEPT !.count = n] ELSE @[a]]]

Without(s, i) ==
  [s EXCEPT !.spans = RemoveAt(@, i),
            !.arguments = SelectSeq(@, LAMBDA a : a.kind # SPAN \/ a.value # s.spans[i].span_id)]

(* No span of s can be longer, shorter or absent with the same inline data. *)
SizesFixed(s) ==
  \A i \in DOMAIN s.spans :
    /\ ~ validate_source(Without(s, i))
    /\ \A n \in {s.spans[i].element_count - 1, s.spans[i].element_count + 1} \ {0} :
         ~ validate_source(Resized(s, i, n))

(* The inline data of an accepted command determines which spans it has    *)
(* and their sizes, so that a driver that takes a count from the inline    *)
(* record finds as many elements behind it.  The chunks of CS and the      *)
(* statistics of GET_STATS are counted by their spans alone; I915 inline   *)
(* data is left to the checks of the I915 bridge.                          *)
InlineDeterminesSpans ==
  Transfer!Accepted =>
    LET s == result.value IN
    s.command_set_id # I915 /\ Name(s) \notin {"CS", "GET_STATS"} => SizesFixed(s)

(* The shape that amdgpu_request_valid requires is the one the generated   *)
(* AMDGPU catalog describes, though no code compares the two: every        *)
(* command with well-formed tables passes both checks or neither.  CS,     *)
(* whose chunks the catalog describes by one row, is not covered.          *)
SchemaCovers ==
  LET s == source.value IN
  /\ s.command_set_id = AMDGPU /\ s.profile_kind = AMDGPU_PROFILE
  /\ command_allowed(s) /\ Name(s) # "CS"
  /\ spans_valid(s.spans, s.regions) /\ attachments_valid(s.attachments, s.generation)
  /\ arguments_valid(s)
  => (amdgpu_shape_valid(s) <=> generic_request_valid(s))
=============================================================================
