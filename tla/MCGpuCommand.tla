---------------------------- MODULE MCGpuCommand ----------------------------
(***************************************************************************)
(* A proper request of each of the 119 commands, with all its spans and    *)
(* with the mandatory ones only, and requests near it.  U32 = 4096: record *)
(* identifiers, flags and sizes have their real values, the longest        *)
(* arrays do not.  Spans are 500 apart in a region that ends at the        *)
(* largest u64, from its start or up to its end.                           *)
(***************************************************************************)
EXTENDS GpuCommand, Variations

Generation == 4100
Top == U64Max - 3000

Region(id, length, rights) == [region_id |-> id, length |-> length, rights |-> rights]
Regions == <<Region(1, U64Max, READ + WRITE), Region(7, 900, READ)>>

(* The spans of a command, one row of the catalog for each argument, and   *)
(* only those that must be there unless all is TRUE.                       *)
SpanRows(set, command, all) ==
  LET rows == {c \in span_catalog[set][command] :
                 /\ all \/ c.minimum # 0
                 /\ \A d \in span_catalog[set][command] :
                      d.argument = c.argument => c.record <= d.record}
  IN SetToSortSeq(rows, LAMBDA c, d : c.argument < d.argument)

ObjectRows(set, command, all) ==
  LET rows == {c \in attachment_catalog[set][command] :
                 /\ all \/ c.optional = 0
                 /\ \A d \in attachment_catalog[set][command] : c.class <= d.class}
  IN SetToSeq(rows)

Words(set, command, spans, objects) ==
  LET contract == request_catalog[set][command]
      name == contract.name
      counted(w) ==
        {s \in DOMAIN spans :
           name \in DOMAIN rules[set] /\ <<w, spans[s].argument>> \in rules[set][name].counts}
      span == spans[1]
  IN [i \in 1 .. contract.words |->
        LET w == i - 1 IN
        CASE counted(w) # {} -> spans[CHOOSE s \in counted(w) : TRUE].n
          [] set = MODE /\ w = 0 /\ name \notin {"GET_RESOURCES", "GET_PLANE_RESOURCES",
                                                 "LIST_LESSEES"} -> 1
          [] name \in {"MAP", "MAP_DUMB"} /\ w = 1 -> 1
          [] set = VIRTGPU /\ name = "EXECBUFFER" /\ w = 0 -> Len(objects)
          [] name = "CONTEXT_INIT" /\ w = 0 -> IF spans = <<>> THEN 1 ELSE 9
          [] name = "CS" /\ w = 2 -> Len(spans)
          [] name \in {"INFO", "USERQ"} /\ spans # <<>> /\ w \in {1, 14} -> span.record
          [] name \in {"INFO", "USERQ"} /\ spans # <<>> /\ w \in {2, 15} -> span.n * span.size
          [] OTHER -> 0]

Request(set, command, spans, objects, start) ==
  LET contract == request_catalog[set][command]
      flags(s) == direction_flags(spans[s].direction)
      inline == [argument_id |-> 1, kind |-> INLINE, flags |-> INPUT,
                 record_schema_id |-> contract.record, value |-> 0, count |-> contract.words]
  IN [generation |-> Generation, session_id |-> 300,
      profile_kind |-> IF set <= MODE THEN AMDGPU_PROFILE ELSE set - 2,
      queue_class |-> IF set = MODE THEN DISPLAY ELSE EXECUTION,
      command_set_id |-> set, command_id |-> command, flags |-> 0,
      deadline_ns |-> IF contract.name \in wait_commands[set] THEN 5000 ELSE 0,
      arguments |->
        (IF contract.record = 0 THEN <<>> ELSE <<inline>>)
        \o [s \in DOMAIN spans |->
              [argument_id |-> spans[s].argument, kind |-> SPAN, flags |-> flags(s),
               record_schema_id |-> spans[s].record, value |-> s, count |-> spans[s].n]]
        \o [o \in DOMAIN objects |->
              [argument_id |-> objects[o].argument, kind |-> ATTACHMENT, flags |-> INPUT,
               record_schema_id |-> 0, value |-> o, count |-> 1]],
      spans |->
        [s \in DOMAIN spans |->
           [span_id |-> s, region_id |-> 1, offset |-> start + 500 * s,
            length |-> spans[s].n * spans[s].size, rights |-> flags(s),
            record_schema_id |-> spans[s].record, element_count |-> spans[s].n,
            flags |-> flags(s)]],
      attachments |->
        [o \in DOMAIN objects |->
           [attachment_id |-> o, object_class |-> objects[o].class, exchange_id |-> 4200 + o,
            generation |-> Generation, rights |-> 1, role |-> objects[o].role,
            ownership |-> objects[o].ownership, flags |-> INPUT]],
      inline |-> Words(set, command, spans, objects), regions |-> Regions]

Sized(rows, n) ==
  [i \in DOMAIN rows |->
     [argument |-> rows[i].argument, direction |-> rows[i].direction, record |-> rows[i].record,
      size |-> rows[i].size, n |-> IF n <= rows[i].maximum THEN n ELSE rows[i].maximum]]

Base(set, command, all, n, start) ==
  Request(set, command, Sized(SpanRows(set, command, all), n), ObjectRows(set, command, all), start)

-----------------------------------------------------------------------------
(* Requests near a proper one. *)

NearInline(s) ==
  {[s EXCEPT !.inline[i] = w] :
     i \in 1 .. Min({16, Len(s.inline)}), w \in {0, 1, 2, 4, 8, 12, 16}}

NearSizes(s) ==
  UNION {{Without(s, i), Resized(s, i, s.spans[i].element_count + 1)} : i \in DOMAIN s.spans}

(* Two arguments that refer to one span. *)
Shared(s) ==
  {[s EXCEPT !.spans = RemoveAt(@, p[2]),
             !.arguments = [a \in DOMAIN @ |->
                              IF @[a].kind = SPAN /\ @[a].value = p[2]
                              THEN [@[a] EXCEPT !.value = p[1]] ELSE @[a]]] : p \in Pairs(s.spans)}

NearHeader(s) ==
  ChangeFields(s, [generation |-> {0, 1}, session_id |-> {0, 4096}, profile_kind |-> 0 .. 4,
                   queue_class |-> 1 .. 3, command_set_id |-> 0 .. 6,
                   command_id |-> {0, s.command_id + 1, 17, 45}, flags |-> {1},
                   deadline_ns |-> {0, 1, 4096},
                   arguments |-> {Append(s.arguments, [s.arguments[1] EXCEPT !.argument_id = 9]),
                                  Append(s.arguments, [s.arguments[1] EXCEPT !.argument_id = 9,
                                                         !.kind = U64, !.record_schema_id = 0,
                                                         !.count = 1])},
                   regions |-> {<<>>, <<Regions[2], Regions[1]>>, <<Regions[1], Regions[1]>>,
                                <<[Regions[1] EXCEPT !.length = 600]>>,
                                <<[Regions[1] EXCEPT !.rights = READ]>>,
                                <<[Regions[1] EXCEPT !.rights = 4]>>}])

NearTables(s) ==
  ChangeRows(s, "arguments", [argument_id |-> {0, 1, 3, 6}, kind |-> 0 .. 10, flags |-> 0 .. 4,
                              record_schema_id |-> {0, 101, 106, 165}, value |-> {0, 1, 2, 4097},
                              count |-> {0, 1, 2, 3}])
  \cup ChangeRows(s, "spans", [span_id |-> {0, 1, 2, 5}, region_id |-> {0, 7, 9},
                               offset |-> {0, s.spans[1].offset + s.spans[1].length - 1,
                                           s.spans[1].offset + s.spans[1].length, U64Max - 1},
                               length |-> {0, 1, 2, 501, U64Max}, rights |-> 0 .. 4,
                               record_schema_id |-> {0, 101, 106}, element_count |-> {0, 1, 3},
                               flags |-> 0 .. 4])
  \cup ChangeRows(s, "attachments", [attachment_id |-> {0, 2}, object_class |-> 0 .. 7,
                                     exchange_id |-> {0, 1}, generation |-> {0, 1},
                                     rights |-> {0, 4096}, role |-> 0 .. 2, ownership |-> 0 .. 4,
                                     flags |-> 0 .. 2])
  \cup UNION {DropRow(s, table) \cup SwapRows(s, table) :
                table \in {"arguments", "spans", "attachments"}}

(* CS requests with one and three chunks of different records. *)
Chunks(records) ==
  [i \in DOMAIN records |->
     [argument |-> i + 1, direction |-> 1, record |-> records[i], n |-> 2,
      size |-> amdgpu_record_size(records[i])]]
Submissions == {Request(AMDGPU, 5, Chunks(records), <<>>, 0) :
                  records \in {<<111>>, <<111, 114, 120>>}}

(* INFO requests for every query and every record. *)
Queries ==
  {LET s == Request(AMDGPU, 6, <<[argument |-> 2, direction |-> 2, record |-> record, n |-> n,
                                  size |-> amdgpu_record_size(record)]>>, <<>>, 0)
   IN [s EXCEPT !.inline[1] = query] : query \in 0 .. 37, record \in 123 .. 139, n \in {1, 2}}

Commands == {c \in Sets \X (1 .. 44) : c[2] \in DOMAIN Requests[c[1]]}
Bases == {Base(c[1], c[2], all, 2, start) : c \in Commands, all \in BOOLEAN, start \in {0, Top}}

(* The requests varied in every field: those with spans in both directions, *)
(* with attachments, with repeated chunks and with no inline record.       *)
Rich == {Base(c[1], c[2], TRUE, 2, 0) :
           c \in {<<CORE, 1>>, <<CORE, 18>>, <<CORE, 23>>, <<MODE, 36>>, <<VIRTGPU, 2>>,
                  <<I915, 16>>, <<AMDGPU, 12>>, <<AMDGPU, 13>>, <<AMDGPU, 17>>, <<AMDGPU, 19>>}}
        \cup Submissions \cup {Base(VIRTGPU, 2, TRUE, 2, Top)}
Plain == {Base(c[1], c[2], TRUE, 2, 0) :
            c \in {<<CORE, 4>>, <<CORE, 9>>, <<MODE, 1>>, <<MODE, 5>>, <<MODE, 24>>, <<I915, 9>>,
                   <<AMDGPU, 8>>}}

Values == Bases \cup Queries
          \cup UNION {NearInline(s) \cup NearSizes(s) \cup Shared(s) :
                        s \in {b \in Bases : b.spans = <<>> \/ b.spans[1].offset < Top}}
          \cup UNION {NearHeader(s) \cup NearTables(s) : s \in Rich}
          \cup UNION {ChangeFields(s, [deadline_ns |-> {0, 1, 4096}, queue_class |-> 1 .. 3]) :
                        s \in Plain}

Readers(s) == ChangeFields(Expected(s),
                [generation |-> {0, 1}, profile_kind |-> 0 .. 4, queue_class |-> 1 .. 3,
                 regions |-> {<<>>, <<Regions[2]>>, <<[Regions[1] EXCEPT !.length = 600]>>,
                              <<[Regions[1] EXCEPT !.rights = READ]>>,
                              <<Regions[1], Regions[1]>>}])

Meant(s) == [value |-> s, reader |-> Expected(s)]

MCSources == {Meant(s) : s \in Values}
             \cup UNION {{[value |-> s, reader |-> r] : r \in Readers(s)} : s \in Rich}
MCFragile == {Meant(s) : s \in Rich \cup Plain}
MCNoise == {0, 1, 2, 8, 27, 4095}

Init == Transfer!Init(MCSources)
Next == Transfer!Next(MCFragile, MCNoise)
=============================================================================
