------------------------------ MODULE GpuShapes ------------------------------
(***************************************************************************)
(* The record shapes of the GPU drivers (protocol/include/kobox2/          *)
(* *_shape.h): which AMDGPU queries and submissions and which I915 buffer, *)
(* context and execution requests a driver bridge admits.  The bridge is   *)
(* not part of the repository; it is modelled as the sender that builds    *)
(* the command of an admitted request from the generated layouts.          *)
(*                                                                         *)
(* A request is a record whose fields are the values the code loads.       *)
(***************************************************************************)
EXTENDS GpuRequest

VARIABLES input, admitted

vars == <<input, admitted>>

CS_BYTES == 1048576
CS_PARTS == 64
EXEC_BYTES == 1048576
EXEC_FLAGS == 851455    \* 0xcfdff
MAX_EXEC_OBJECTS == 8192
MAX_EXEC_FENCES == 65536
MAX_CONTEXT_PARAMS == 64
MAX_CONTEXT_ENGINES == 4096
ENGINES_PER_PARAM == 64
ENGINES == 10           \* the context parameter that carries a list

-----------------------------------------------------------------------------
(***************************************************************************)
(* AMDGPU                                                                  *)
(***************************************************************************)

info_record(query) ==
  CASE query \in {0, 3, 21, 29, 31, 34} -> 124
    [] query \in {5, 15, 16, 17, 23, 24, 30, 32} -> 125
    [] query = 22 -> 133
    [] query = 2 -> 132
    [] query = 14 -> 130
    [] query = 20 -> 128
    [] query = 25 -> 129
    [] query = 33 -> 136
    [] OTHER -> 0

READ_MMR_REGISTER == 21
MAXIMUM_IBS == 34
VIDEO_CAPS == 33

info_count(query, s) ==
  CASE query = READ_MMR_REGISTER -> s[2] [] query = MAXIMUM_IBS -> 10 [] OTHER -> 1

(* The selectors after those the query takes are zero.                     *)
info_selectors(query) ==
  CASE query = READ_MMR_REGISTER -> 4
    [] query \in {3, 29, VIDEO_CAPS} -> 1
    [] query = 2 -> 2
    [] query = 14 -> 3
    [] OTHER -> 0

info_shape(r) ==
  LET count == info_count(r.query, r.s) IN
  /\ info_record(r.query) # 0
  /\ r.query = READ_MMR_REGISTER => count \in 1 .. 128 /\ r.s[1] <= U32Max - (count - 1)
  /\ r.query = VIDEO_CAPS => r.s[1] <= 1
  /\ \A i \in info_selectors(r.query) + 1 .. 4 : r.s[i] = 0

(* Mutant: one element too many fits.                                      *)
cs_part_beyond(p) ==
  /\ p.record \in 111 .. 120
  /\ LET size == amdgpu_record_size(p.record) IN
     /\ p.count \in 1 .. 65537 /\ p.count <= CS_BYTES \div size /\ p.bytes = size * p.count
     /\ p.offset <= CS_BYTES - p.bytes
  /\ p.record \in {111, 112, 120} => p.count = 1

cs_part_valid(p) ==
  /\ p.record \in 111 .. 120
  /\ LET size == amdgpu_record_size(p.record) IN
     /\ p.count \in 1 .. 65536 /\ p.count <= CS_BYTES \div size /\ p.bytes = size * p.count
     /\ p.offset <= CS_BYTES - p.bytes
  /\ p.record \in {111, 112, 120} => p.count = 1      \* IB, USER_FENCE, GFX_SHADOW

-----------------------------------------------------------------------------
(***************************************************************************)
(* I915                                                                    *)
(***************************************************************************)

(* A row of the table of buffer commands: the command, its ioctl as the    *)
(* direction, the size and the number, and whether a result comes back.    *)
BoRow(command, direction, size, number, result) ==
  [command |-> command, direction |-> direction, size |-> size, number |-> number,
   result |-> result]

bo_rows == {BoRow("GEM_CREATE", 3, 16, 91, TRUE), BoRow("GEM_BUSY", 3, 8, 87, TRUE),
            BoRow("GEM_MADVISE", 3, 12, 102, TRUE), BoRow("GEM_WAIT", 3, 16, 108, TRUE),
            BoRow("GEM_SET_DOMAIN", 1, 12, 95, FALSE), BoRow("GEM_SET_CACHING", 1, 8, 111, FALSE)}

GEM_WAIT_RESULT_SIZE == 24

RequestOf(id) == request_catalog[I915][id]

bo_shape(id, row) ==
  [command |-> id, row |-> row, record |-> RequestOf(id).record, bytes |-> 4 * RequestOf(id).words,
   result_bytes |-> CASE row.command = "GEM_WAIT" -> GEM_WAIT_RESULT_SIZE
                      [] row.command # "GEM_WAIT" /\ row.result -> 4 * RequestOf(id).words
                      [] OTHER -> 0]

(* The shape of a command, and of the first command with an ioctl, as a    *)
(* set of at most one.                                                     *)
bo_shape_command(id) ==
  {bo_shape(id, row) : row \in {r \in bo_rows : r.command = RequestOf(id).name}}

bo_shape_ioctl(direction, size, number) ==
  LET having == {shape \in UNION {bo_shape_command(id) : id \in 5 .. 11} :
                   /\ shape.row.direction = direction /\ shape.row.size = size
                   /\ shape.row.number = number}
  IN {shape \in having : \A other \in having : shape.command <= other.command}

(* What the words of a buffer request must be, from the first.             *)
bo_words == [
  GEM_CREATE |-> <<0 .. U32Max, 0 .. U32Max, {0}, {0}>>,
  GEM_BUSY |-> <<0 .. U32Max, {0}>>,
  GEM_MADVISE |-> <<0 .. U32Max, 0 .. 1, {0}>>,
  GEM_WAIT |-> <<0 .. U32Max, {0}, 0 .. U32Max, 0 .. U32Max>>,
  GEM_SET_DOMAIN |-> <<0 .. U32Max, 0 .. 255, 0 .. 255>>,
  GEM_SET_CACHING |-> <<0 .. U32Max, 0 .. 2>>]

bo_input_valid(r) ==
  \E shape \in bo_shape_command(r.command) :
    /\ 4 * Len(r.words) = shape.bytes
    /\ \A i \in DOMAIN r.words : r.words[i] \in bo_words[shape.row.command][i]

(* The commands from CONTEXT_CREATE to CONTEXT_DESTROY.                    *)
CONTEXT_CREATE == 13
CONTEXT_SETPARAM == 14
CONTEXT_DESTROY == 15

context_header(r) ==
  LET w(i) == LoadU32(r.words, i) IN
  \/ r.command = CONTEXT_DESTROY /\ Len(r.words) = 2 /\ w(1) = 0
  \/ /\ r.command \in {CONTEXT_CREATE, CONTEXT_SETPARAM} /\ Len(r.words) = 4 /\ w(3) = 0
     /\ w(1) <= MAX_CONTEXT_PARAMS /\ w(2) <= MAX_CONTEXT_ENGINES /\ (w(1) = 0 => w(2) = 0)
     /\ IF r.command = CONTEXT_CREATE
        THEN Within(w(0), 3) /\ (w(1) # 0 => 0 \in Bits(w(0)))
        ELSE w(1) = 1

context_scalar(parameter) == parameter \in {4, 5, 6, 8, 9, 11, 12, 13, 14}

(* Whether parameter q may come when the lists before it take next of the  *)
(* engines.                                                                *)
context_param(q, next, engines) ==
  /\ q.reserved = 0
  /\ \/ /\ q.parameter = ENGINES /\ q.value = 0 /\ q.count <= ENGINES_PER_PARAM
        /\ IF q.size = 0 THEN q.first = 0 /\ q.count = 0
           ELSE q.size = 8 + 4 * q.count /\ q.first = next /\ q.count <= engines - next
     \/ context_scalar(q.parameter) /\ q.size = 0 /\ q.first = 0 /\ q.count = 0

(* The engines taken by the parameters before each one.                    *)
context_next(params) ==
  Cursor([i \in DOMAIN params |->
            IF params[i].parameter = ENGINES /\ params[i].size # 0 THEN params[i].count ELSE 0])

context_params(r) ==
  LET next == context_next(r.params) IN
  /\ Len(r.params) <= MAX_CONTEXT_PARAMS /\ r.engines <= MAX_CONTEXT_ENGINES
  /\ r.bytes = 32 * Len(r.params) + 4 * r.engines
  /\ \A i \in DOMAIN r.params : context_param(r.params[i], next[i - 1], r.engines)
  /\ next[Len(r.params)] = r.engines

exec_header(r) ==
  /\ r.objects \in 1 .. MAX_EXEC_OBJECTS /\ r.fences <= MAX_EXEC_FENCES
  /\ Within(r.flags, EXEC_FLAGS) /\ (19 \in Bits(r.flags) \/ r.fences = 0) /\ r.reserved = 0
  /\ r.objects * 40 + r.fences * 8 <= EXEC_BYTES

(* The records behind the header: each object and each fence is one of the *)
(* sets the request gives.                                                 *)
exec_payload(r) ==
  /\ r.objects \in 1 .. MAX_EXEC_OBJECTS /\ r.fences <= MAX_EXEC_FENCES
  /\ r.bytes = r.objects * 40 + r.fences * 8 /\ r.bytes <= EXEC_BYTES
  /\ \A o \in r.object_records :
       o.relocations = 0 /\ Within(o.flags, 255) /\ (5 \in Bits(o.flags) \/ o.padding = 0)
  /\ r.fences = 0 \/ \A flags \in r.fence_flags : Within(flags, 3)

-----------------------------------------------------------------------------
(***************************************************************************)
(* The bridge, from the layouts and the counts the shapes are checked with *)
(***************************************************************************)

Admitted(r) ==
  CASE r.kind = "info" -> info_shape(r)
    [] r.kind = "cs" ->
         Len(r.parts) \in 1 .. CS_PARTS /\ \A i \in DOMAIN r.parts : cs_part_valid(r.parts[i])
    [] r.kind = "bo" -> bo_input_valid(r)
    [] r.kind = "context" ->
         /\ context_header(r)
         /\ r.command # CONTEXT_DESTROY =>
              context_params(r) /\ SubSeq(r.words, 2, 3) = <<Len(r.params), r.engines>>
    [] r.kind = "exec" -> exec_header(r) /\ exec_payload(r)

(* A span of n records for an argument; absent when n is 0.                *)
Part(argument, flags, record, n, size) ==
  IF n = 0 THEN <<>>
  ELSE <<[argument |-> argument, flags |-> flags, record |-> record, n |-> n, size |-> size]>>

Parts(r) ==
  CASE r.kind = "info" ->
         Part(2, OUTPUT, info_record(r.query), info_count(r.query, r.s),
              amdgpu_record_size(info_record(r.query)))
    [] r.kind = "cs" ->
         [i \in DOMAIN r.parts |->
            [argument |-> i + 1, flags |-> INPUT, record |-> r.parts[i].record,
             n |-> r.parts[i].count, size |-> r.parts[i].bytes \div r.parts[i].count]]
    [] r.kind = "exec" ->
         Part(2, INPUT + OUTPUT, 129, r.objects, 40) \o Part(3, INPUT, 130, r.fences, 8)
    [] r.kind = "context" /\ r.command # CONTEXT_DESTROY ->
         Part(2, INPUT, 126, Len(r.params), 32) \o Part(3, INPUT, 127, r.engines, 4)
    [] OTHER -> <<>>

Inline(r) ==
  CASE r.kind = "info" ->
         <<r.query, info_record(r.query),
           info_count(r.query, r.s) * amdgpu_record_size(info_record(r.query)), 0>> \o r.s
    [] r.kind = "cs" -> <<1, 0, Len(r.parts), 0>>
    [] r.kind = "exec" -> <<r.objects, r.fences, 0, 0, r.flags, 0, 0, r.reserved>>
    [] OTHER -> r.words

SpanGap == 2 * CS_BYTES     \* where the spans of a command are apart

Command(r) ==
  LET amdgpu == r.kind \in {"info", "cs"}
      set == IF amdgpu THEN AMDGPU ELSE I915
      id == CASE r.kind = "info" -> 6 [] r.kind = "cs" -> 5 [] r.kind = "exec" -> 16
              [] OTHER -> r.command
      parts == Parts(r)
  IN [generation |-> 1, session_id |-> 1, profile_kind |-> set - 2, queue_class |-> EXECUTION,
      command_set_id |-> set, command_id |-> id, flags |-> 0, deadline_ns |-> 0,
      arguments |->
        <<[argument_id |-> 1, kind |-> INLINE, flags |-> INPUT, value |-> 0,
           record_schema_id |-> request_catalog[set][id].record, count |-> Len(Inline(r))]>>
        \o [i \in DOMAIN parts |->
              [argument_id |-> parts[i].argument, kind |-> SPAN, flags |-> parts[i].flags,
               record_schema_id |-> parts[i].record, value |-> i, count |-> parts[i].n]],
      spans |->
        [i \in DOMAIN parts |->
           [span_id |-> i, region_id |-> 1, offset |-> SpanGap * i, rights |-> parts[i].flags,
            length |-> parts[i].n * parts[i].size, record_schema_id |-> parts[i].record,
            element_count |-> parts[i].n, flags |-> parts[i].flags]],
      attachments |-> <<>>, inline |-> Inline(r),
      regions |-> <<[region_id |-> 1, length |-> U64Max, rights |-> READ + WRITE]>>]

-----------------------------------------------------------------------------

Init(inputs) == input \in inputs /\ admitted = "pending"

(* The bridge looks at the request.                                        *)
Admit == /\ admitted = "pending"
         /\ admitted' = IF Admitted(input) THEN "yes" ELSE "no"
         /\ UNCHANGED input

(* The same request is made again.                                         *)
Again == admitted # "pending" /\ admitted' = "pending" /\ UNCHANGED input

Next == Admit \/ Again

-----------------------------------------------------------------------------
(***************************************************************************)
(* Properties                                                              *)
(***************************************************************************)

(* The command of an admitted request passes all the checks of the command *)
(* codec, whose limits, record identifiers and sizes are written elsewhere *)
(* (gpu.c and the generated catalogs): no admitted request is then refused *)
(* by kb2_gpu_command_encode.                                              *)
AdmittedIsEncodable == admitted = "yes" => validate_source(Command(input))

(* kb2_i915_context_params: "A canonical parameter stream has no peer      *)
(* pointers, no overlap and no unreferenced engines."  Every engine behind *)
(* an admitted stream belongs to the list of exactly one parameter.        *)
EnginesTiled ==
  admitted = "yes" /\ input.kind = "context" /\ input.command # CONTEXT_DESTROY =>
    \A e \in 0 .. input.engines - 1 :
      Cardinality({i \in DOMAIN input.params :
        /\ input.params[i].parameter = ENGINES
        /\ e \in input.params[i].first .. input.params[i].first + input.params[i].count - 1}) = 1

(* The completion contract of the I915 commands: the bytes of the result.  *)
I915ResultBytes == <<8, 16, 16, 8, 16, 16, 8, 12, 24, 0, 0, 16, 8, 0, 0, 16>>

(* The number of each buffer command in the uapi.                          *)
UapiNumber == [GEM_CREATE |-> 27, GEM_BUSY |-> 23, GEM_MADVISE |-> 38, GEM_WAIT |-> 44,
               GEM_SET_DOMAIN |-> 31, GEM_SET_CACHING |-> 47]

(* The buffer shape of an admitted request is the one its ioctl number     *)
(* leads back to, and the number carries the size of the request, the      *)
(* uapi number of the generated layout and a direction that returns data   *)
(* just when the completion contract has a result of result_bytes.         *)
BoShapeAgrees ==
  admitted = "yes" /\ input.kind = "bo" =>
    \A shape \in bo_shape_command(input.command) :
      /\ bo_shape_ioctl(shape.row.direction, shape.row.size, shape.row.number) = {shape}
      /\ shape.row.size = shape.bytes
      /\ shape.row.number = 64 + UapiNumber[shape.row.command]
      /\ shape.result_bytes = I915ResultBytes[shape.command]
      /\ shape.row.direction = 3 <=> shape.result_bytes # 0
=============================================================================
