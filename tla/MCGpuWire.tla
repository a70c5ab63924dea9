------------------------------- MODULE MCGpuWire -------------------------------
(***************************************************************************)
(* The GPU protocols, one of which is chosen at the start, each with its   *)
(* own inputs and its own number of words (U32): commands, completions and *)
(* sync file messages through their codecs, and the requests that the DRM  *)
(* bridge admits before it makes commands of them.                         *)
(***************************************************************************)
EXTENDS Integers, Sequences, Variations

VARIABLES protocol, source, frame, phase, result

vars == <<protocol, source, frame, phase, result>>

Commands == INSTANCE MCGpuCommand WITH U32 <- 4096, Abi <- 11, Digest <- 42

Completions ==
  INSTANCE GpuCompletion WITH U32 <- 256, Abi <- 11, Digest <- 42, MaxInline <- 6, Page <- 4096

SyncFiles == INSTANCE GpuSyncFile WITH U32 <- 256, ErrorMax <- 4095

Shapes == INSTANCE GpuShapes WITH U32 <- 32768, input <- source, admitted <- phase

-----------------------------------------------------------------------------
(* Sync files: requests around a proper one of each opcode, the responses  *)
(* to them, and receivers that wait for one of the others.  A u64 has 16   *)
(* bits, so that every result from -4095 can be told from its u64.         *)

Request(op, session, sync) ==
  [opcode |-> op, token |-> 258, flags |-> IF op = SyncFiles!RELEASE THEN 0 ELSE 3,
   session_id |-> session, sync_file_token |-> sync]
Proper == {Request(SyncFiles!EXPORT, 770, 0), Request(SyncFiles!IMPORT, 0, 770),
           Request(SyncFiles!RELEASE, 0, 0)}

Near(r) == {r} \cup ChangeFields(r, [opcode |-> 4 .. 8, token |-> {0, 1, 259}, flags |-> {0, 770},
                                     session_id |-> {0, 3, 258}, sync_file_token |-> {0, 3, 258}])
Requests == UNION {Near(r) : r \in Proper}
Results == {-4096, -4095, -256, -1, 0, 1, 256}

Asked(r) == [kind |-> "request", request |-> r]
Answer(r, n, t) == [kind |-> "response", request |-> r, result |-> n, exported |-> t]

SyncFileSources ==
  {[value |-> Asked(r), reader |-> [kind |-> "request", opcode |-> op]] :
     r \in Requests, op \in 4 .. 8}
  \cup {[value |-> Answer(r, n, t), reader |-> [kind |-> "response", request |-> r]] :
          r \in Requests, n \in Results, t \in {0, 513}}
  \cup {[value |-> Answer(r, n, t), reader |-> [kind |-> "response", request |-> q]] :
          r \in Proper, q \in Requests, n \in Results, t \in {0, 513}}
SyncFileFragile ==
  {[value |-> Asked(r), reader |-> [kind |-> "request", opcode |-> r.opcode]] : r \in Proper}
  \cup {[value |-> Answer(r, n, t), reader |-> [kind |-> "response", request |-> r]] :
          r \in Proper, n \in {-5, 0}, t \in {0, 513}}
SyncFileNoise == {0, 1, 2, 3, 16, 128, 240, 255}

-----------------------------------------------------------------------------
(* Completions: requests and completions one or two fields away from       *)
(* proper ones, each read by the receiver that waits for it and by all     *)
(* others.  U32 = 256: record identifiers, pages and rights have their     *)
(* real values.                                                            *)

Session == 300
Generation == 5

Open == [kind |-> "open", node_type |-> Completions!RENDER, client_id |-> 259]
Close == [kind |-> "close", session_id |-> Session]
Opened == [kind |-> "session", opcode |-> Completions!SESSION_OPEN, status |-> Completions!OK,
           session_id |-> Session, topology_epoch |-> 513, capabilities |-> 7]
NotOpened == [Opened EXCEPT !.status = 3, !.session_id = 0, !.topology_epoch = 0, !.capabilities = 0]
Closed == [Opened EXCEPT !.opcode = Completions!SESSION_CLOSE, !.topology_epoch = 0, !.capabilities = 0]
Data(words) == [kind |-> "inline", session_id |-> Session, status |-> Completions!OK,
                record_schema_id |-> IF words = <<>> THEN 0 ELSE 102, data |-> words]
Object == [kind |-> "attachment", session_id |-> Session, status |-> Completions!OK, argument_id |-> 2,
           attachment |-> [attachment_id |-> 1, object_class |-> Completions!MEMORY, exchange_id |-> 600,
                           generation |-> Generation, rights |-> 3, role |-> 1,
                           ownership |-> Completions!SHARE, flags |-> Completions!OUTPUT]]
Mapping(kind) == [kind |-> kind, session_id |-> Session, status |-> Completions!OK, mapping_id |-> 8192,
                  length |-> 4096, cache_policy |-> 1, exchange_id |-> 600,
                  generation |-> Generation, rights |-> 3]
Unmapped(kind) == [kind |-> kind, session_id |-> Session, status |-> 15, mapping_id |-> 0,
                   length |-> 0, cache_policy |-> 0, exchange_id |-> 0, generation |-> 0,
                   rights |-> 0]
NoObject == [kind |-> "attachment", session_id |-> Session, status |-> 8, argument_id |-> 0,
             attachment |-> Completions!NoAttachment]

NearCompletion(v) ==
  {v} \cup
  CASE v.kind = "open" -> ChangeFields(v, [node_type |-> 0 .. 3, client_id |-> {0, 1, 256}])
    [] v.kind = "close" -> ChangeFields(v, [session_id |-> {0, 1, 256}])
    [] v.kind = "session" ->
         ChangeFields(v, [opcode |-> 1 .. 4, status |-> {0, 1, 15, 16}, session_id |-> {0, 256},
                          topology_epoch |-> {0, 256}, capabilities |-> {0, 256}])
    [] v.kind = "inline" ->
         ChangeFields(v, [session_id |-> {0, 256}, status |-> {0, 1, 15, 16},
                          record_schema_id |-> {0, 145},
                          data |-> {<<>>, <<9>>, <<9, 8, 7>>, <<9, 8, 7, 6, 5, 4>>,
                                    <<1, 2, 3, 4, 5, 6, 7>>}])
    [] v.kind = "attachment" ->
         ChangeFields(v, [session_id |-> {0, 256}, status |-> {0, 1, 16}, argument_id |-> {0, 1}])
         \cup {[v EXCEPT !.attachment = a] :
                 a \in ChangeFields(v.attachment,
                         [attachment_id |-> {0, 2}, object_class |-> {0, 6, 7},
                          exchange_id |-> {0, 256}, generation |-> {0, 256}, rights |-> {0, 256},
                          role |-> {0, 2}, ownership |-> 0 .. 4, flags |-> 0 .. 3])}
    [] v.kind \in Completions!MapKinds ->
         ChangeFields(v, [session_id |-> {0, 256}, status |-> {0, 1, 15, 16},
                          mapping_id |-> {0, 1, 4096, 4097}, length |-> {0, 2048, 12288},
                          cache_policy |-> 0 .. 3, exchange_id |-> {0, 256},
                          generation |-> {0, 256}, rights |-> {0, 1, 2, 4, 256}])

Bases == {Open, Close, Opened, NotOpened, Closed, Data(<<>>), Data(<<9, 8, 7, 6, 5, 4>>), Object,
          NoObject, Unmapped("mode_map")} \cup {Mapping(k) : k \in Completions!MapKinds}
FarBases == Bases \ {Mapping("mode_map"), Mapping("i915_map")}
CompletionValues == UNION {NearCompletion(v) : v \in UNION {NearCompletion(b) : b \in FarBases}}
          \cup UNION {NearCompletion(b) : b \in Bases}

Kinds == {"open", "close", "session", "inline", "attachment"} \cup Completions!MapKinds
Reader(kind, session, generation, opcode) ==
  [kind |-> kind, session |-> session, generation |-> generation, opcode |-> opcode]
Usual(v) == Reader(v.kind, IF v.kind = "open" THEN Session ELSE v.session_id, Generation,
                   IF v.kind = "session" THEN v.opcode ELSE Completions!SESSION_OPEN)
Others == {Reader(k, s, g, o) : k \in Kinds, s \in {Session, 1}, g \in {Generation, 1},
                                o \in {Completions!SESSION_OPEN, Completions!SESSION_CLOSE}}

CompletionSources == {[value |-> v, reader |-> Usual(v)] : v \in CompletionValues}
             \cup {[value |-> v, reader |-> r] : v \in Bases, r \in Others}
CompletionFragile == {[value |-> v, reader |-> Usual(v)] : v \in Bases}
CompletionNoise == {0, 1, 2, 4, 7, 8, 16, 27, 35, 42, 145, 255}

-----------------------------------------------------------------------------
(* Shapes: requests of every kind at the limits of each check.  U32 =      *)
(* 2^15, so a u64 has 30 bits and all flags and sizes of the shapes their  *)
(* real values.                                                            *)

Info == [kind : {"info"}, query : 0 .. 37,
         s : {<<a, b, c, d>> : a \in {0, 1, 2, Shapes!U32Max - 127, Shapes!U32Max},
                               b \in {0, 1, 2, 128, 129}, c \in 0 .. 1, d \in 0 .. 1}]

PartRecords == 110 .. 121
PartSets == {[record |-> record, count |-> count, offset |-> offset,
              bytes |-> Shapes!amdgpu_record_size(record) * count + off] :
               record \in PartRecords, count \in {0, 1, 2, 65536, 65537},
               offset \in {0, 65536, Shapes!CS_BYTES}, off \in {0, 4}}
Fence == [record |-> 113, count |-> 65536 \div 4, offset |-> 0,
          bytes |-> Shapes!amdgpu_record_size(113) * (65536 \div 4)]
Submissions == [kind : {"cs"}, parts : {<<part>> : part \in PartSets}
                                       \cup {[i \in 1 .. n |-> Fence] : n \in {0, 2, 64, 65}}]

Buffers == [kind : {"bo"}, command : 1 .. 16,
            words : UNION {[1 .. n -> {0, 1, 2, 3, 255, 256}] : n \in 2 .. 4}]

Row(parameter, value, size, first, count, reserved) ==
  [parameter |-> parameter, value |-> value, size |-> size, first |-> first, count |-> count,
   reserved |-> reserved]
Lists == {Row(Shapes!ENGINES, 0, 8 + 4 * count, first, count, 0) : first \in 0 .. 3, count \in 0 .. 3}
ParamRows == Lists \cup {Row(4, 7, 0, 0, 0, 0), Row(7, 7, 0, 0, 0, 0), Row(14, 0, 8, 0, 0, 0),
                    Row(Shapes!ENGINES, 0, 0, 0, 0, 0), Row(Shapes!ENGINES, 0, 0, 0, 1, 0),
                    Row(Shapes!ENGINES, 1, 12, 0, 1, 0), Row(Shapes!ENGINES, 0, 8, 0, 1, 0),
                    Row(Shapes!ENGINES, 0, 12, 0, 1, 1)}
Long == {<<Row(Shapes!ENGINES, 0, 8 + 4 * count, 0, count, 0)>> : count \in {64, 65}}
        \cup {[i \in 1 .. n |-> Row(Shapes!ENGINES, 0, 264, 64 * (i - 1), 64, 0)] : n \in {64, 65}}

Stream(command, flags, params, engines, off) ==
  [kind |-> "context", command |-> command, words |-> <<flags, Len(params), engines, 0>>,
   params |-> params, engines |-> engines, bytes |-> 32 * Len(params) + 4 * engines + off]
Contexts ==
  {Stream(Shapes!CONTEXT_CREATE, 1, params, engines, 0) :
     params \in UNION {[1 .. n -> ParamRows] : n \in 0 .. 2} \cup [1 .. 3 -> Lists],
     engines \in 0 .. 4}
  \cup {Stream(command, flags, params, engines, off) :
          command \in 12 .. 14, flags \in 0 .. 4,
          params \in {<<>>} \cup [1 .. 1 -> Lists] \cup Long,
          engines \in {0, 1, 64, 65, 4096, 4097, 4160}, off \in {0, 4}}
  \cup {[kind |-> "context", command |-> Shapes!CONTEXT_DESTROY, words |-> words, params |-> <<>>,
         engines |-> 0, bytes |-> 0] : words \in {<<1>>, <<1, 0>>, <<1, 1>>, <<1, 0, 0, 0>>}}

ObjectRecords == [relocations : {0, 1}, flags : {0, 32, 255, 256}, padding : {0, 4096}]
Executions ==
  {[kind |-> "exec", objects |-> objects, fences |-> fences, flags |-> flags,
    reserved |-> reserved, object_records |-> {}, fence_flags |-> {3},
    bytes |-> objects * 40 + fences * 8 + off] :
     objects \in {0, 1, 2, 8192, 8193}, fences \in {0, 1, 65536, 65537}, reserved \in 0 .. 1,
     flags \in {0, 512, 2^17, 2^19, Shapes!EXEC_FLAGS, 2^20}, off \in {0, 8}}
  \cup {[kind |-> "exec", objects |-> 2, fences |-> 1, flags |-> 2^19, reserved |-> 0,
         object_records |-> records, fence_flags |-> flags, bytes |-> 88] :
          records \in {{a, b} : a, b \in ObjectRecords}, flags \in {{0}, {1, 2}, {3, 4}}}

ShapeInputs == Info \cup Submissions \cup Buffers \cup Contexts \cup Executions

-----------------------------------------------------------------------------

Init ==
  \/ protocol = "command" /\ Commands!Init
  \/ protocol = "completion" /\ Completions!Transfer!Init(CompletionSources)
  \/ protocol = "sync_file" /\ SyncFiles!Transfer!Init(SyncFileSources)
  \/ protocol = "shape" /\ Shapes!Init(ShapeInputs) /\ frame = <<>> /\ result = [status |-> "NONE"]

Next ==
  /\ UNCHANGED protocol
  /\ \/ protocol = "command" /\ Commands!Next
     \/ protocol = "completion" /\ Completions!Transfer!Next(CompletionFragile, CompletionNoise)
     \/ protocol = "sync_file" /\ SyncFiles!Transfer!Next(SyncFileFragile, SyncFileNoise)
     \/ protocol = "shape" /\ Shapes!Next /\ UNCHANGED <<frame, result>>

Spec == Init /\ [][Next]_vars

-----------------------------------------------------------------------------
(***************************************************************************)
(* Properties                                                              *)
(***************************************************************************)

(* What an encoder of gpu.c, gpu_session.c, gpu_completion.c or            *)
(* gpu_sync_file.h accepts, the decoder of the receiver it was meant for   *)
(* reads back to the same value when the frame arrives as it was sent.     *)
RoundTrip ==
  /\ protocol = "command" => Commands!RoundTrip
  /\ protocol = "completion" => Completions!RoundTrip
  /\ protocol = "sync_file" => SyncFiles!RoundTrip

(* Whatever damaged, cut or extended frame a decoder accepts, is the one   *)
(* encoding of what it is decoded to: no field or reserved word is ignored.*)
Canonical ==
  /\ protocol = "command" => Commands!Canonical
  /\ protocol = "completion" => Completions!Canonical
  /\ protocol = "sync_file" => SyncFiles!Canonical

(* The spans of an accepted command lie inside the receiver's regions,     *)
(* within their rights, and none is written through one and used through   *)
(* another, also near 2^64; every span and attachment belongs to exactly   *)
(* one argument; the inline data determines which spans there are and how  *)
(* long, except in CS, GET_STATS and the I915 commands, whose counts       *)
(* gpu.c does not compare with their spans; and amdgpu_request_valid       *)
(* requires the shape its catalog has.                                     *)
CommandsExact ==
  protocol = "command" =>
    /\ Commands!SpansSafe /\ Commands!ReferencesExact
    /\ Commands!InlineDeterminesSpans /\ Commands!SchemaCovers

(* A completion hands over an object or a mapping only to a receiver that  *)
(* waits for one in its session and generation, and a mapping only to the  *)
(* mapping command of its command set.  An object is not compared with a   *)
(* command: kb2_gpu_attachment_completion_decode is told of none, and      *)
(* takes every class, role, argument and right.  A sync file response is   *)
(* taken only for the request it answers.                                  *)
AnswersExact ==
  /\ protocol = "completion" => Completions!HandoverExact
  /\ protocol = "sync_file" => SyncFiles!AnswersItsRequest

(* No request that the DRM bridge admits is then refused by                *)
(* kb2_gpu_command_encode, whose limits and sizes are written elsewhere;   *)
(* every engine behind an admitted context stream belongs to exactly one   *)
(* parameter; and a buffer command is the one its ioctl number leads to.   *)
AdmittedIsEncodable ==
  protocol = "shape" =>
    Shapes!AdmittedIsEncodable /\ Shapes!EnginesTiled /\ Shapes!BoShapeAgrees
===============================================================================
