----------------------------- MODULE GpuRequest -----------------------------
(***************************************************************************)
(* What makes a GPU command valid (protocol/src/gpu.c): the sender checks  *)
(* it before it encodes a command and the receiver after it has decoded    *)
(* one.  A command s has the fields of kb2_gpu_command_source_t, with its  *)
(* tables as sequences and its inline data as a sequence of words; inline  *)
(* sizes and offsets are counted in words.                                 *)
(***************************************************************************)
EXTENDS Wire, GpuCatalog, FiniteSets

MAX_ARGUMENTS == 256
MAX_SPANS == 128
MAX_ATTACHMENTS == 64
MAX_INLINE == 1024          \* KB2_GPU_MAX_INLINE_BYTES
MAX_REGIONS == 1024

VIRGL_PROFILE == 1
I915_PROFILE == 2
AMDGPU_PROFILE == 3
DISPLAY == 2
EXECUTION == 3
INPUT == 1                  \* a direction, and the flag of a span or an argument
OUTPUT == 2
READ == INPUT               \* a span may be read iff it may be an input
WRITE == OUTPUT
U64 == 1
I64 == 2
BOOL == 3
ENUM == 4
BITSET == 5
OBJECT == 6
INLINE == 7
SPAN == 8
ATTACHMENT == 9
MEMORY == 1
SESSION == 5
SYNCOBJ == 6
BORROW == 1
SHARE == 2
MOVE == 3

-----------------------------------------------------------------------------
(***************************************************************************)
(* Commands                                                                *)
(***************************************************************************)

profile_kind_valid(profile) == profile \in {VIRGL_PROFILE, I915_PROFILE, AMDGPU_PROFILE}

(* The command sets of a profile, and the queue that takes each.           *)
profile_command_set(profile) ==
  [set \in {CORE, MODE, <<VIRTGPU, I915, AMDGPU>>[profile]} |->
     IF set = MODE THEN DISPLAY ELSE EXECUTION]

command_allowed(s) ==
  LET sets == profile_command_set(s.profile_kind) IN
  /\ s.command_set_id \in DOMAIN sets /\ s.queue_class = sets[s.command_set_id]
  /\ s.command_id \in DOMAIN Requests[s.command_set_id]

Contract(s) == request_catalog[s.command_set_id][s.command_id]
Name(s) == Contract(s).name

wait_commands == <<{"SYNCOBJ_WAIT", "SYNCOBJ_TIMELINE_WAIT"}, {"WAIT_VBLANK"}, {"WAIT"}, {},
                   {"GEM_WAIT_IDLE", "WAIT_CS", "WAIT_FENCES", "USERQ_WAIT"}>>

wait_command(s) == Name(s) \in wait_commands[s.command_set_id]

(* A deadline is there for a wait and only for a wait; GEM_WAIT_IDLE takes *)
(* zero for a poll.                                                        *)
deadline_valid(s) ==
  \/ wait_command(s) <=> s.deadline_ns # 0
  \/ s.command_set_id = AMDGPU /\ Name(s) = "GEM_WAIT_IDLE" /\ s.deadline_ns = 0

-----------------------------------------------------------------------------
(***************************************************************************)
(* The tables of a command                                                 *)
(***************************************************************************)

Has(rows, f, id) == \E i \in DOMAIN rows : rows[i][f] = id
The(rows, f, id) == rows[CHOOSE i \in DOMAIN rows : rows[i][f] = id]

Increasing(ids) == \A i \in DOMAIN ids : ids[i] > (IF i = 1 THEN 0 ELSE ids[i - 1])
Distinct(ids) == \A p \in Pairs(ids) : ids[p[1]] # ids[p[2]]
Flags(flags, known) == flags # 0 /\ Within(flags, known)

regions_valid(regions) ==
  /\ Len(regions) <= MAX_REGIONS /\ Distinct(Column(regions, "region_id"))
  /\ \A i \in DOMAIN regions :
       LET r == regions[i] IN r.region_id # 0 /\ r.length # 0 /\ Flags(r.rights, READ + WRITE)

(* Mutant: the ends of two spans are compared without the last unit, as if *)
(* they were inclusive.                                                    *)
spans_overlap_inclusive(left, right) ==
  /\ left.region_id = right.region_id
  /\ left.offset < AddU64(right.offset, right.length) - 1
  /\ right.offset < AddU64(left.offset, left.length) - 1

spans_overlap(left, right) ==
  /\ left.region_id = right.region_id
  /\ left.offset < AddU64(right.offset, right.length)
  /\ right.offset < AddU64(left.offset, left.length)

span_valid(span, regions) ==
  /\ span.length # 0 /\ span.offset <= U64Max - span.length
  /\ Flags(span.rights, READ + WRITE) /\ span.element_count # 0 /\ Flags(span.flags, INPUT + OUTPUT)
  /\ Has(regions, "region_id", span.region_id)
  /\ LET region == The(regions, "region_id", span.region_id) IN
     /\ span.offset <= region.length /\ span.length <= region.length - span.offset
     /\ Within(span.flags, span.rights) /\ Within(span.rights, region.rights)

spans_valid(spans, regions) ==
  /\ Increasing(Column(spans, "span_id"))
  /\ \A i \in DOMAIN spans : span_valid(spans[i], regions)
  /\ \A p \in Pairs(spans) :
       spans_overlap(spans[p[2]], spans[p[1]]) =>
         \A i \in DOMAIN p : ~ Within(WRITE, spans[p[i]].rights)

attachments_valid(attachments, generation) ==
  /\ Increasing(Column(attachments, "attachment_id"))
  /\ Distinct(Column(attachments, "exchange_id"))
  /\ \A i \in DOMAIN attachments :
       LET a == attachments[i] IN
       /\ a.object_class \in MEMORY .. SYNCOBJ /\ a.exchange_id # 0 /\ a.generation = generation
       /\ a.rights # 0 /\ a.ownership \in BORROW .. MOVE /\ a.flags = INPUT

argument_references_valid(s, a) ==
  \/ /\ a.kind \in {U64, I64, ENUM, BITSET} /\ a.record_schema_id = 0 /\ a.count = 1
  \/ /\ a.kind = BOOL /\ a.record_schema_id = 0 /\ a.count = 1 /\ a.value <= 1
  \/ /\ a.kind = OBJECT /\ a.record_schema_id # 0 /\ a.count = 1
  \/ /\ a.kind = INLINE /\ a.count # 0 /\ a.value <= Len(s.inline)
     /\ a.count <= Len(s.inline) - a.value
  \/ /\ a.kind = SPAN /\ a.value <= U32Max /\ Has(s.spans, "span_id", a.value)
     /\ LET span == The(s.spans, "span_id", a.value) IN
        a.count = span.element_count /\ a.record_schema_id = span.record_schema_id
  \/ /\ a.kind = ATTACHMENT /\ a.record_schema_id = 0 /\ a.count = 1 /\ a.value <= U32Max
     /\ Has(s.attachments, "attachment_id", a.value)

arguments_valid(s) ==
  LET referenced(kind, id) ==
        \E i \in DOMAIN s.arguments : s.arguments[i].kind = kind /\ s.arguments[i].value = id
  IN
  /\ Increasing(Column(s.arguments, "argument_id"))
  /\ \A i \in DOMAIN s.arguments :
       Flags(s.arguments[i].flags, INPUT + OUTPUT) /\ argument_references_valid(s, s.arguments[i])
  /\ \A i \in DOMAIN s.spans : referenced(SPAN, s.spans[i].span_id)
  /\ \A i \in DOMAIN s.attachments : referenced(ATTACHMENT, s.attachments[i].attachment_id)

-----------------------------------------------------------------------------
(***************************************************************************)
(* The shape of a request: its arguments are those its catalog row names   *)
(***************************************************************************)

Argument(s, id) == The(s.arguments, "argument_id", id)
HasArgument(s, id) == Has(s.arguments, "argument_id", id)
SpanOf(s, a) == The(s.spans, "span_id", a.value)
AttachmentOf(s, a) == The(s.attachments, "attachment_id", a.value)

(* Argument 1 is the whole inline record; a command without one has no     *)
(* inline data.                                                            *)
inline_argument_valid(s) ==
  LET contract == Contract(s) IN
  /\ Len(s.inline) = contract.words
  /\ HasArgument(s, 1) <=> contract.record # 0
  /\ HasArgument(s, 1) =>
       LET a == Argument(s, 1) IN
       /\ a.kind = INLINE /\ a.flags = INPUT /\ a.record_schema_id = contract.record
       /\ a.value = 0 /\ a.count = contract.words

direction_flags(direction) == <<INPUT, OUTPUT, INPUT + OUTPUT>>[direction]
direction_rights(direction) == <<READ, WRITE, READ + WRITE>>[direction]

span_contract_valid(s, a) ==
  \E c \in span_catalog[s.command_set_id][s.command_id] :
    LET span == SpanOf(s, a) IN
    /\ c.argument = a.argument_id /\ c.record = a.record_schema_id
    /\ a.count \in c.minimum .. c.maximum
    /\ a.flags = direction_flags(c.direction) /\ span.flags = direction_flags(c.direction)
    /\ span.rights = direction_rights(c.direction) /\ span.length = a.count * c.size

attachment_contract_valid(s, a) ==
  \E c \in attachment_catalog[s.command_set_id][s.command_id] :
    LET attachment == AttachmentOf(s, a) IN
    /\ c.argument = a.argument_id /\ c.class = attachment.object_class /\ a.flags = INPUT
    /\ c.role = attachment.role /\ c.ownership = attachment.ownership

(* The arguments other than the inline record that have a given kind.      *)
Others(s, kind) ==
  {a \in {s.arguments[i] : i \in DOMAIN s.arguments} :
     a.kind = kind /\ (a.argument_id # 1 \/ Contract(s).record = 0)}

mandatory_present(s) ==
  /\ \A c \in span_catalog[s.command_set_id][s.command_id] :
       c.minimum # 0 => HasArgument(s, c.argument)
  /\ \A c \in attachment_catalog[s.command_set_id][s.command_id] :
       c.optional = 0 => HasArgument(s, c.argument)

generic_request_valid(s) ==
  LET contract == Contract(s) IN
  /\ Len(s.spans) <= contract.spans /\ Len(s.attachments) <= contract.attachments
  /\ inline_argument_valid(s)
  /\ \A a \in Others(s, SPAN) : span_contract_valid(s, a)
  /\ \A a \in Others(s, ATTACHMENT) : attachment_contract_valid(s, a)
  /\ Cardinality(Others(s, SPAN)) = Len(s.spans)
  /\ Cardinality(Others(s, ATTACHMENT)) = Len(s.attachments)
  /\ Len(s.arguments) = (IF contract.record = 0 THEN 0 ELSE 1) + Len(s.spans) + Len(s.attachments)
  /\ mandatory_present(s)

(* AMDGPU requests are checked against rules written by hand.              *)
Chunk(argument, flags, minimum, maximum, records) ==
  [argument |-> argument, flags |-> flags, minimum |-> minimum, maximum |-> maximum,
   records |-> records]

amdgpu_spans == [
  BO_LIST          |-> {Chunk(2, INPUT, 0, 65536, {108})},
  INFO             |-> {Chunk(2, OUTPUT, 1, 1048576, 124 .. 138)},
  GEM_VA           |-> {Chunk(2, INPUT, 0, 65536, {165})},
  GEM_OP           |-> {Chunk(2, OUTPUT, 0, 65536, {147, 148})},
  WAIT_FENCES      |-> {Chunk(2, INPUT, 1, 65536, {151})},
  USERQ            |-> {Chunk(2, INPUT, 0, 1, 161 .. 163)},
  USERQ_SIGNAL     |-> {Chunk(id, INPUT, 0, 65536, {165}) : id \in 2 .. 4},
  USERQ_WAIT       |-> {Chunk(id, INPUT, 0, 65536, {165}) : id \in {2, 4, 5}}
                       \cup {Chunk(3, INPUT, 0, 65536, {166}), Chunk(6, OUTPUT, 0, 65536, {168})},
  GEM_LIST_HANDLES |-> {Chunk(2, OUTPUT, 0, 65536, {171})}]

amdgpu_attachments == [
  GEM_USERPTR |-> {[class |-> MEMORY, ownership |-> SHARE]},
  SCHED       |-> {[class |-> SESSION, ownership |-> BORROW]}]

RowOf(table, name) == IF name \in DOMAIN table THEN table[name] ELSE {}

amdgpu_argument_valid(s, a, rule) ==
  LET span == SpanOf(s, a) IN
  /\ a.kind = SPAN /\ a.flags = rule.flags /\ a.record_schema_id \in rule.records
  /\ a.count \in rule.minimum .. rule.maximum
  /\ span.flags = rule.flags /\ span.rights = (IF rule.flags = INPUT THEN READ ELSE WRITE)
  /\ span.length = a.count * amdgpu_record_size(a.record_schema_id)

amdgpu_span_valid(s, rule) ==
  IF HasArgument(s, rule.argument)
  THEN amdgpu_argument_valid(s, Argument(s, rule.argument), rule)
  ELSE rule.minimum = 0

amdgpu_attachment_valid(s, rule) ==
  /\ HasArgument(s, 2) /\ Argument(s, 2).kind = ATTACHMENT /\ Argument(s, 2).flags = INPUT
  /\ LET attachment == AttachmentOf(s, Argument(s, 2)) IN
     /\ attachment.object_class = rule.class /\ attachment.ownership = rule.ownership
     /\ attachment.role = 1

amdgpu_cs_spans_valid(s) ==
  /\ Len(s.spans) \in 1 .. 64 /\ Len(s.arguments) = Len(s.spans) + 1 /\ s.attachments = <<>>
  /\ \A i \in DOMAIN s.spans :
       /\ s.arguments[i + 1].argument_id = i + 1
       /\ amdgpu_argument_valid(s, s.arguments[i + 1], Chunk(i + 1, INPUT, 1, 65536, 111 .. 120))

amdgpu_shape_valid(s) ==
  LET rules == RowOf(amdgpu_spans, Name(s))
      objects == RowOf(amdgpu_attachments, Name(s))
      present == {rule \in rules : HasArgument(s, rule.argument)}
  IN
  /\ inline_argument_valid(s)
  /\ IF Name(s) = "CS" THEN amdgpu_cs_spans_valid(s)
     ELSE /\ \A rule \in rules : amdgpu_span_valid(s, rule)
          /\ \A rule \in objects : amdgpu_attachment_valid(s, rule)
          /\ Len(s.spans) = Cardinality(present) /\ Len(s.attachments) = Cardinality(objects)
          /\ Len(s.arguments) = 1 + Cardinality(present) + Cardinality(objects)

-----------------------------------------------------------------------------
(***************************************************************************)
(* The inline data: what its words say of the rest of the request          *)
(***************************************************************************)

Word(s, w) == LoadU32(s.inline, w)
WordBits(s, w) == Bits(Word(s, w))

span_element_count(s, id) == IF HasArgument(s, id) THEN Argument(s, id).count ELSE 0

(* Words that are zero, pairs of a word and the argument it counts, of a   *)
(* word of flags and the known ones, and triples of a word that is zero    *)
(* unless another word has one of some flags.                              *)
Rule(zero, counts, known, unless) ==
  [zero |-> zero, counts |-> counts, known |-> known, unless |-> unless]
Zero(zero) == Rule(zero, {}, {}, {})
Count(zero, counts) == Rule(zero, counts, {}, {})

RuleHolds(s, rule) ==
  /\ \A w \in rule.zero : Word(s, w) = 0
  /\ \A c \in rule.counts : Word(s, c[1]) = span_element_count(s, c[2])
  /\ \A k \in rule.known : Within(Word(s, k[1]), k[2])
  /\ \A u \in rule.unless : Word(s, u[1]) = 0 \/ WordBits(s, u[2]) \cap Bits(u[3]) # {}

core_rules ==
  LET wait == Rule({}, {<<0, 2>>}, {<<1, 15>>}, {<<2, 1, 8>>, <<3, 1, 8>>})
      array == Count({1}, {<<0, 2>>})
  IN [VERSION |-> Count({3}, {<<0, 2>>, <<1, 3>>, <<2, 4>>}),
      GET_UNIQUE |-> array, READ_EVENTS |-> array, SET_CLIENT_NAME |-> array,
      POLL_EVENTS |-> Rule({}, {}, {<<0, 1>>}, {}), GET_CLIENT |-> Zero({1}),
      GEM_CLOSE |-> Zero({1}), GEM_FLINK |-> Zero({1}), SYNCOBJ_DESTROY |-> Zero({1}),
      GEM_OPEN |-> Zero({1}), PRIME_ATTACHMENT_TO_HANDLE |-> Zero({0, 1}),
      SYNCOBJ_CREATE |-> Zero({1}), SYNCOBJ_WAIT |-> wait, SYNCOBJ_TIMELINE_WAIT |-> wait,
      SYNCOBJ_RESET |-> array, SYNCOBJ_SIGNAL |-> array, SYNCOBJ_TIMELINE_SIGNAL |-> array,
      SYNCOBJ_QUERY |-> Rule({}, {<<0, 2>>}, {<<1, 1>>}, {})]

(* A syncobj handle is named iff the fence of a sync file replaces its own. *)
core_request_semantics_valid(s) ==
  Name(s) = "SYNCOBJ_ATTACHMENT_TO_HANDLE" => (0 \in WordBits(s, 0) <=> Word(s, 1) # 0)

mode_rules ==
  LET gamma == Count({}, {<<3, 2>>, <<3, 3>>, <<3, 4>>})
  IN [GET_RESOURCES |-> Count({}, {<<0, 2>>, <<1, 3>>, <<2, 4>>, <<3, 5>>}),
      GET_CRTC |-> Zero({3}), SET_CRTC |-> Count({}, {<<7, 2>>, <<6, 3>>}),
      GET_GAMMA |-> gamma, SET_GAMMA |-> gamma,
      GET_CONNECTOR |-> Rule({7}, {<<3, 2>>, <<4, 3>>, <<5, 4>>}, {<<6, 1>>}, {}),
      CURSOR |-> Rule({9}, {}, {<<2, 3>>}, {}), CURSOR2 |-> Rule({}, {}, {<<2, 3>>}, {}),
      GET_PROPERTY |-> Count({5}, {<<3, 2>>, <<4, 3>>}),
      GET_PROPERTY_BLOB |-> Count({}, {<<3, 2>>}),
      DIRTY_FB |-> Rule({}, {<<5, 2>>}, {<<3, 3>>}, {}),
      PAGE_FLIP |-> Rule({}, {}, {<<4, 15>>}, {<<5, 4, 12>>, <<6, 4, 1>>, <<7, 4, 1>>}),
      CREATE_DUMB |-> Zero({3}), MAP_DUMB |-> Rule({}, {}, {<<1, READ + WRITE>>}, {}),
      GET_PLANE_RESOURCES |-> Count({1}, {<<0, 2>>}), GET_PLANE |-> Count({}, {<<3, 2>>}),
      OBJECT_GET_PROPERTIES |-> Count({5}, {<<4, 2>>}),
      ATOMIC |-> Rule({}, {<<5, 2>>, <<6, 3>>, <<7, 4>>}, {<<4, 1795>>},
                      {<<2, 4, 1>>, <<3, 4, 1>>}),
      ADD_FB2 |-> Zero({2}), CREATE_PROPERTY_BLOB |-> Count({3}, {<<2, 2>>}),
      CREATE_LEASE |-> Count({}, {<<2, 2>>}), LIST_LESSEES |-> Count({1}, {<<0, 2>>}),
      GET_LEASE |-> Count({3}, {<<2, 2>>})]

(* The commands that name objects of a topology carry its epoch.           *)
mode_topology_required(s) ==
  Name(s) \notin {"GET_MAGIC", "AUTH_MAGIC", "SET_MASTER", "DROP_MASTER", "GET_RESOURCES",
                  "CREATE_DUMB", "MAP_DUMB", "DESTROY_DUMB", "GET_PLANE_RESOURCES",
                  "LIST_LESSEES", "REVOKE_LEASE"}

mode_request_semantics_valid(s) ==
  /\ mode_topology_required(s) => LoadU64(s.inline, 0) # 0
  /\ Name(s) = "PAGE_FLIP" => ~ {2, 3} \subseteq WordBits(s, 4)
  /\ Name(s) = "MAP_DUMB" => Word(s, 1) # 0

virtgpu_rules ==
  [MAP |-> Rule({}, {}, {<<1, READ + WRITE>>}, {}),
   EXECBUFFER |-> Rule({}, {<<w, w>> : w \in 2 .. 5}, {<<0, 7>>}, {<<1, 0, 4>>}),
   RESOURCE_CREATE |-> Zero({13}), RESOURCE_INFO |-> Zero({1}),
   WAIT |-> Rule({}, {}, {<<1, 1>>}, {}), GET_CAPS |-> Count({3}, {<<2, 2>>}),
   RESOURCE_CREATE_BLOB |-> Count({5}, {<<4, 2>>}),
   CONTEXT_INIT |-> Rule({}, {<<3, 2>>}, {<<0, 15>>},
                         {<<1, 0, 1>>, <<2, 0, 2>>, <<4, 0, 4>>, <<5, 0, 4>>})]

virtgpu_request_semantics_valid(s) ==
  /\ Name(s) = "MAP" => Word(s, 1) # 0
  /\ Name(s) = "EXECBUFFER" => (0 \in WordBits(s, 0) <=> HasArgument(s, 6))
  /\ Name(s) = "CONTEXT_INIT" => Word(s, 0) # 0 /\ (3 \in WordBits(s, 0) <=> Word(s, 3) # 0)

(* The records that may answer an AMDGPU INFO query.                       *)
info_query_records(query) ==
  CASE query \in {0, 1, 3, 21, 29, 31, 34} -> {124}
    [] query \in {5, 15, 16, 17, 23, 24, 30, 32} -> {125}
    [] query = 2 -> {132}
    [] query = 14 -> {130}
    [] query = 19 -> {127}
    [] query = 20 -> {128}
    [] query = 22 -> {133}
    [] query = 25 -> {129}
    [] query = 26 -> {135}
    [] query = 27 -> {124, 126, 131}
    [] query = 28 -> {134}
    [] query = 33 -> {136}
    [] query = 35 -> {137}
    [] query = 36 -> {138}
    [] OTHER -> {}

amdgpu_rules ==
  [BO_LIST |-> Count({3}, {<<2, 2>>}), INFO |-> Zero({3}), GEM_METADATA |-> Zero({7}),
   GEM_VA |-> Count({13}, {<<3, 2>>}), GEM_OP |-> Count({5}, {<<4, 2>>}),
   GEM_USERPTR |-> Zero({5}), WAIT_FENCES |-> Count({}, {<<0, 2>>}),
   FENCE_TO_HANDLE |-> Zero({7}), SCHED |-> Zero({3}),
   USERQ_SIGNAL |-> Count({}, {<<w, w + 1>> : w \in 1 .. 3}),
   USERQ_WAIT |-> Count({}, {<<w, w + 1>> : w \in 1 .. 5}),
   GEM_LIST_HANDLES |-> Count({1}, {<<0, 2>>})]

amdgpu_request_semantics_valid(s) ==
  LET record == IF s.spans = <<>> THEN 0 ELSE s.spans[1].record_schema_id
      length == IF s.spans = <<>> THEN 0 ELSE s.spans[1].length
  IN
  /\ Name(s) = "CS" => Word(s, 2) = Len(s.spans)
  /\ Name(s) = "INFO" =>
       /\ length <= 1048576 /\ Word(s, 1) = record /\ Word(s, 2) = length
       /\ record \in info_query_records(Word(s, 0))
  /\ Name(s) = "GEM_METADATA" => Word(s, 6) <= 256
  /\ Name(s) = "USERQ" => Word(s, 14) = record /\ Word(s, 15) = length

(* I915 inline data is not looked at here.                                 *)
rules == <<core_rules, mode_rules, virtgpu_rules, [name \in {} |-> Zero({})], amdgpu_rules>>

semantics_valid(s) ==
  /\ Name(s) \in DOMAIN rules[s.command_set_id] => RuleHolds(s, rules[s.command_set_id][Name(s)])
  /\ s.command_set_id = CORE => core_request_semantics_valid(s)
  /\ s.command_set_id = MODE => mode_request_semantics_valid(s)
  /\ s.command_set_id = VIRTGPU => virtgpu_request_semantics_valid(s)
  /\ s.command_set_id = AMDGPU => amdgpu_request_semantics_valid(s)

amdgpu_request_valid(s) == amdgpu_shape_valid(s) /\ semantics_valid(s)

-----------------------------------------------------------------------------

validate_source(s) ==
  /\ s.generation # 0 /\ s.session_id # 0 /\ profile_kind_valid(s.profile_kind) /\ s.flags = 0
  /\ Len(s.arguments) <= MAX_ARGUMENTS /\ Len(s.spans) <= MAX_SPANS
  /\ Len(s.attachments) <= MAX_ATTACHMENTS /\ Len(s.inline) <= MAX_INLINE
  /\ command_allowed(s) /\ deadline_valid(s)
  /\ regions_valid(s.regions) /\ spans_valid(s.spans, s.regions)
  /\ attachments_valid(s.attachments, s.generation) /\ arguments_valid(s)
  /\ IF s.command_set_id = AMDGPU THEN amdgpu_request_valid(s)
     ELSE generic_request_valid(s) /\ semantics_valid(s)
=============================================================================
