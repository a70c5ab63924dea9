---------------------------- MODULE ResourceGrant -----------------------------
(***************************************************************************)
(* Resource grants (protocol/src/resource_grant.c): the grant set of one   *)
(* closure generation, its encoding, its decoding, and its check against   *)
(* the resources a closure manifest requires.                              *)
(***************************************************************************)
EXTENDS Wire, FiniteSets

CONSTANTS
  MaxSlots, MaxObjects, MaxHandles,
  Abi, Digest              \* the identity and the schema digest of this build

VARIABLES source, frame, phase, result

ABSENT == 0
PRESENT == 1
CHANNEL == 4
REQUIRED == 1

(* The rights of memory, device, storage, notification and channel.        *)
KnownRights(type) == IF type \in 0 .. CHANNEL THEN <<15, 7, 15, 3, 3>>[type + 1] ELSE 0

HeaderWords == 13
SlotWords == 7
ObjectWords == 8
HandleWords == 4

-----------------------------------------------------------------------------
(***************************************************************************)
(* Encoding                                                                *)
(***************************************************************************)

SlotIndex(slots, id) == BinarySearch(Column(slots, "slot_id"), id)
ObjectIndex(objects, id) == BinarySearch(Column(objects, "object_id"), id)

(* The value of a row before row i, and 0 before the first.                *)
Prior(rows, i, f) == IF i = 1 THEN 0 ELSE rows[i - 1][f]

(* The loops that advance a cursor over the rows that belong to each       *)
(* owner: after[k] rows belong to the first k owners.                      *)
Advance(owners, key, rows) ==
  LET belongs(k, i) == rows[i][key] = owners[k][key]
      after[k \in 0 .. Len(owners)] ==
        IF k = 0 THEN 0
        ELSE CHOOSE n \in after[k - 1] .. Len(rows) :
               /\ \A i \in after[k - 1] + 1 .. n : belongs(k, i)
               /\ n < Len(rows) => ~belongs(k, n + 1)
  IN after

ValidHandles(g) ==
  \A i \in DOMAIN g.handle_bindings :
    LET h == g.handle_bindings[i] IN
    /\ ObjectIndex(g.objects, h.object_id) # NotFound
    /\ h.transfer_handle_index = i - 1
    /\ h.object_id >= Prior(g.handle_bindings, i, "object_id")
    /\ h.object_id = Prior(g.handle_bindings, i, "object_id") =>
         i # 1 /\ h.role > Prior(g.handle_bindings, i, "role")

SourceValid(g) ==
  /\ g.generation # 0 /\ g.closure_manifest_digest # 0
  /\ Len(g.slots) <= MaxSlots /\ Len(g.objects) <= MaxObjects
  /\ Len(g.handle_bindings) <= MaxHandles
  /\ \A i \in DOMAIN g.slots :
       /\ g.slots[i].slot_id > Prior(g.slots, i, "slot_id")
       /\ g.slots[i].resource_type <= CHANNEL /\ g.slots[i].state <= PRESENT
       /\ g.slots[i].interface_schema_digest # 0
  /\ \A i \in DOMAIN g.objects :
       LET o == g.objects[i]
           at == SlotIndex(g.slots, o.slot_id)
       IN /\ at # NotFound /\ o.slot_id >= Prior(g.objects, i, "slot_id")
          /\ o.object_id > Prior(g.objects, i, "object_id") /\ o.granted_rights # 0
          /\ g.slots[at].state = PRESENT
          /\ KnownRights(g.slots[at].resource_type) # 0
          /\ Within(o.granted_rights, KnownRights(g.slots[at].resource_type))
  /\ LET after == Advance(g.slots, "slot_id", g.objects) IN
     /\ \A k \in DOMAIN g.slots :
          /\ g.slots[k].state = ABSENT => after[k] = after[k - 1]
          /\ g.slots[k].state = PRESENT => after[k] # after[k - 1]
     /\ after[Len(g.slots)] = Len(g.objects)
  /\ ValidHandles(g)

EncodedSize(g) ==
  HeaderWords + Len(g.slots) * SlotWords + Len(g.objects) * ObjectWords
  + Len(g.handle_bindings) * HandleWords

EncodeSlot(s, start, count) ==
  <<s.slot_id, s.resource_type, s.state, start, count, 0, s.interface_schema_digest>>

EncodeObject(o, start, count) ==
  <<o.slot_id, 0>> \o StoreU64(o.object_id) \o StoreU64(o.granted_rights) \o <<start, count>>

EncodeHandle(h) == StoreU64(h.object_id) \o <<h.role, h.transfer_handle_index>>

Encode(g) ==
  LET objects == Advance(g.slots, "slot_id", g.objects)
      handles == Advance(g.objects, "object_id", g.handle_bindings)
      object_offset == HeaderWords + Len(g.slots) * SlotWords
      handle_offset == object_offset + Len(g.objects) * ObjectWords
  IN
  IF ~SourceValid(g) \/ EncodedSize(g) > U32Max THEN [status |-> "MALFORMED"]
  ELSE [status |-> "OK",
        frame |->
          <<EncodedSize(g), Abi, Digest>> \o StoreU64(g.generation)
          \o <<g.closure_manifest_digest, Len(g.slots), Len(g.objects), Len(g.handle_bindings),
               HeaderWords, object_offset, handle_offset, 0>>
          \o FlattenSeq([k \in DOMAIN g.slots |->
               EncodeSlot(g.slots[k], objects[k - 1], objects[k] - objects[k - 1])])
          \o FlattenSeq([k \in DOMAIN g.objects |->
               EncodeObject(g.objects[k], handles[k - 1], handles[k] - handles[k - 1])])
          \o EncodeTable(g.handle_bindings, EncodeHandle)]

-----------------------------------------------------------------------------
(***************************************************************************)
(* Decoding: the accessors read one row and refuse a malformed one         *)
(***************************************************************************)

BytesAreZero(b, o) == LoadU32(b, o) = 0

Slot(b, o) ==
  [slot_id |-> LoadU32(b, o), resource_type |-> LoadU32(b, o + 1), state |-> LoadU32(b, o + 2),
   object_start |-> LoadU32(b, o + 3), object_count |-> LoadU32(b, o + 4),
   interface_schema_digest |-> LoadU32(b, o + 6),
   well_formed |->
     /\ LoadU32(b, o) # 0 /\ LoadU32(b, o + 1) <= CHANNEL /\ LoadU32(b, o + 2) <= PRESENT
     /\ LoadU32(b, o + 6) # 0 /\ BytesAreZero(b, o + 5)]

Object(b, o) ==
  [slot_id |-> LoadU32(b, o), object_id |-> LoadU64(b, o + 2),
   granted_rights |-> LoadU64(b, o + 4), handle_start |-> LoadU32(b, o + 6),
   handle_count |-> LoadU32(b, o + 7),
   well_formed |-> /\ LoadU32(b, o) # 0 /\ LoadU64(b, o + 2) # 0 /\ LoadU64(b, o + 4) # 0
                   /\ BytesAreZero(b, o + 1)]

HandleBinding(b, o) ==
  [object_id |-> LoadU64(b, o), role |-> LoadU32(b, o + 2),
   transfer_handle_index |-> LoadU32(b, o + 3)]

(* The three tables follow the header and one another without a gap.       *)
TablesFit(b) ==
  LET count(t) == LoadU32(b, 6 + t)
      size == <<SlotWords, ObjectWords, HandleWords>>
      ends[t \in 0 .. 3] == IF t = 0 THEN HeaderWords ELSE ends[t - 1] + count(t - 1) * size[t]
  IN /\ \A t \in 1 .. 3 :
          /\ count(t - 1) <= <<MaxSlots, MaxObjects, MaxHandles>>[t]
          /\ LoadU32(b, 8 + t) = ends[t - 1]
          /\ ends[t] <= Len(b)
     /\ ends[3] = Len(b)

Decoded(b) ==
  [generation |-> LoadU64(b, 3), closure_manifest_digest |-> LoadU32(b, 5),
   slots |-> DecodeTable(b, LoadU32(b, 9), LoadU32(b, 6), SlotWords, Slot),
   objects |-> DecodeTable(b, LoadU32(b, 10), LoadU32(b, 7), ObjectWords, Object),
   handle_bindings |-> DecodeTable(b, LoadU32(b, 11), LoadU32(b, 8), HandleWords, HandleBinding)]

SlotsValid(g) ==
  LET cursor == Cursor(Column(g.slots, "object_count")) IN
  /\ \A i \in DOMAIN g.slots :
       LET s == g.slots[i] IN
       /\ s.well_formed /\ s.slot_id > Prior(g.slots, i, "slot_id")
       /\ s.object_start = cursor[i - 1]
       /\ s.object_count <= Len(g.objects) - cursor[i - 1]
       /\ s.state = ABSENT => s.object_count = 0
       /\ s.state = PRESENT => s.object_count # 0
       /\ \A k \in cursor[i - 1] + 1 .. cursor[i] :
            g.objects[k].well_formed /\ g.objects[k].slot_id = s.slot_id
  /\ cursor[Len(g.slots)] = Len(g.objects)

RightsKnown(o, slot) ==
  KnownRights(slot.resource_type) # 0 /\ Within(o.granted_rights, KnownRights(slot.resource_type))

ObjectsValid(g) ==
  LET cursor == Cursor(Column(g.objects, "handle_count")) IN
  /\ \A i \in DOMAIN g.objects :
       LET o == g.objects[i]
           at == SlotIndex(g.slots, o.slot_id)
       IN /\ o.well_formed /\ o.slot_id >= Prior(g.objects, i, "slot_id")
          /\ o.object_id > Prior(g.objects, i, "object_id")
          /\ o.handle_start = cursor[i - 1]
          /\ o.handle_count <= Len(g.handle_bindings) - cursor[i - 1]
          /\ at # NotFound /\ g.slots[at].state = PRESENT /\ RightsKnown(o, g.slots[at])
          /\ \A k \in cursor[i - 1] + 1 .. cursor[i] :
               /\ g.handle_bindings[k].object_id # 0
               /\ g.handle_bindings[k].object_id = o.object_id
  /\ cursor[Len(g.objects)] = Len(g.handle_bindings)

(* The grant as its source, without the ranges.                            *)
AsSource(g) ==
  [g EXCEPT !.slots = [i \in DOMAIN @ |->
                         [slot_id |-> @[i].slot_id, resource_type |-> @[i].resource_type,
                          state |-> @[i].state,
                          interface_schema_digest |-> @[i].interface_schema_digest]],
            !.objects = [i \in DOMAIN @ |->
                           [slot_id |-> @[i].slot_id, object_id |-> @[i].object_id,
                            granted_rights |-> @[i].granted_rights]]]

(* Mutant: the rights granted are not compared with the maximum.           *)
SlotMeetsLower(slot, objects, r) ==
  /\ slot.object_count \in r.minimum_count .. r.maximum_count
  /\ \A k \in 1 .. slot.object_count :
       Within(r.required_rights, objects[slot.object_start + k].granted_rights)

SlotMeets(slot, objects, r) ==
  /\ slot.object_count \in r.minimum_count .. r.maximum_count
  /\ \A k \in 1 .. slot.object_count :
       /\ Within(r.required_rights, objects[slot.object_start + k].granted_rights)
       /\ Within(objects[slot.object_start + k].granted_rights, r.maximum_rights)

SlotMatches(slot, r) ==
  /\ slot.slot_id = r.slot_id /\ slot.resource_type = r.type
  /\ slot.interface_schema_digest = r.interface_schema_digest

ValidateManifest(g, manifest) ==
  LET fails(i) == LET s == g.slots[i]
                      r == manifest.resources[i] IN
                  \/ ~SlotMatches(s, r)
                  \/ s.state = ABSENT /\ Within(REQUIRED, r.flags)
                  \/ s.state # ABSENT /\ ~SlotMeets(s, g.objects, r)
      first == CHOOSE i \in DOMAIN g.slots : fails(i) /\ \A j \in 1 .. i - 1 : ~fails(j)
  IN
  IF g.closure_manifest_digest # manifest.digest THEN "SCHEMA_MISMATCH"
  ELSE IF Len(g.slots) # Len(manifest.resources) THEN "MALFORMED"
  ELSE IF \A i \in DOMAIN g.slots : ~fails(i) THEN "OK"
  ELSE IF SlotMatches(g.slots[first], manifest.resources[first]) THEN "MALFORMED"
  ELSE "SCHEMA_MISMATCH"

(* kb2_resource_grant_decode, and the check against the reader's manifest. *)
Decode(manifest, b) ==
  LET g == Decoded(b) IN
  IF Len(b) < HeaderWords THEN [status |-> "BUFFER_TOO_SMALL"]
  ELSE IF Len(b) > U32Max THEN [status |-> "OVERFLOW"]
  ELSE IF LoadU32(b, 1) # Abi \/ LoadU32(b, 2) # Digest THEN [status |-> "SCHEMA_MISMATCH"]
  ELSE IF \/ LoadU32(b, 0) # Len(b) \/ ~BytesAreZero(b, 12) \/ ~TablesFit(b)
          \/ g.generation = 0 \/ g.closure_manifest_digest = 0
          \/ ~SlotsValid(g) \/ ~ObjectsValid(g) \/ ~ValidHandles(g)
  THEN [status |-> "MALFORMED"]
  ELSE [status |-> "OK", value |-> AsSource(g), grant |-> g,
        verdict |-> ValidateManifest(g, manifest)]

Short(value) == "BUFFER_TOO_SMALL"

Transfer == INSTANCE Codec

-----------------------------------------------------------------------------
(***************************************************************************)
(* Properties                                                              *)
(***************************************************************************)

(* A grant that kb2_resource_grant_encode writes is decoded to the same     *)
(* slots, objects and handle bindings, although encoder and decoder check   *)
(* them each in its own way.                                                *)
RoundTrip == Transfer!RoundTrip

(* "The grant set is a bounded canonical little-endian binary object":      *)
(* kb2_resource_grant_decode accepts one frame for one grant.               *)
Canonical == Transfer!Canonical(TRUE)

(* The rules of the grant set, stated over all pairs of rows.               *)
Proper(g) ==
  LET slot(o) == CHOOSE s \in ToSet(g.slots) : s.slot_id = o.slot_id
      ids(rows, f) == {rows[i][f] : i \in DOMAIN rows}
  IN
  /\ g.generation > 0 /\ g.closure_manifest_digest > 0
  /\ Len(g.slots) <= MaxSlots /\ Len(g.objects) <= MaxObjects
  /\ Len(g.handle_bindings) <= MaxHandles
  /\ \A p \in Pairs(g.slots) : g.slots[p[1]].slot_id < g.slots[p[2]].slot_id
  /\ \A s \in ToSet(g.slots) :
       /\ s.slot_id > 0 /\ s.resource_type \in 0 .. CHANNEL /\ s.interface_schema_digest > 0
       /\ s.state = IF s.slot_id \in ids(g.objects, "slot_id") THEN PRESENT ELSE ABSENT
  /\ \A p \in Pairs(g.objects) :
       /\ g.objects[p[1]].slot_id <= g.objects[p[2]].slot_id
       /\ g.objects[p[1]].object_id < g.objects[p[2]].object_id
  /\ \A o \in ToSet(g.objects) :
       /\ o.slot_id \in ids(g.slots, "slot_id") /\ o.object_id > 0
       /\ Bits(o.granted_rights) # {}
       /\ Bits(o.granted_rights) \subseteq Bits(KnownRights(slot(o).resource_type))
  /\ \A p \in Pairs(g.handle_bindings) :
       LET a == g.handle_bindings[p[1]]
           b == g.handle_bindings[p[2]] IN
       a.object_id < b.object_id \/ (a.object_id = b.object_id /\ a.role < b.role)
  /\ \A i \in DOMAIN g.handle_bindings :
       /\ g.handle_bindings[i].object_id \in ids(g.objects, "object_id")
       /\ g.handle_bindings[i].transfer_handle_index = i - 1

(* source_valid, by its cursors and searches, accepts exactly the proper    *)
(* grants, and decoding yields no other.                                    *)
GrantExact ==
  /\ phase = "sent" => Proper(source.value)
  /\ phase = "refused" => ~Proper(source.value)
  /\ Transfer!Accepted => Proper(result.value)

(* The ranges a decoded grant carries select exactly the objects of each    *)
(* slot and exactly the handles of each object.                             *)
RangesExact ==
  Transfer!Accepted =>
    LET g == result.grant IN
    /\ \A s \in ToSet(g.slots) :
         {k \in DOMAIN g.objects : g.objects[k].slot_id = s.slot_id}
           = s.object_start + 1 .. s.object_start + s.object_count
    /\ \A o \in ToSet(g.objects) :
         {k \in DOMAIN g.handle_bindings : g.handle_bindings[k].object_id = o.object_id}
           = o.handle_start + 1 .. o.handle_start + o.handle_count

(* "required_rights subset-of granted_rights subset-of maximum_rights": a   *)
(* grant that kb2_resource_grant_validate_manifest accepts gives every      *)
(* resource of the manifest, and nothing else, within its bounds.           *)
ManifestMet ==
  Transfer!Accepted =>
    LET g == result.value
        m == source.reader
        granted(r) == {o \in ToSet(g.objects) : o.slot_id = r.slot_id}
        absent(r) == r.flags % 2 = 0 /\ granted(r) = {}
        met(r) == /\ Cardinality(granted(r)) \in r.minimum_count .. r.maximum_count
                  /\ granted(r) # {}
                  /\ \A o \in granted(r) :
                       /\ Bits(r.required_rights) \subseteq Bits(o.granted_rights)
                       /\ Bits(o.granted_rights) \subseteq Bits(r.maximum_rights)
    IN result.verdict = "OK" <=>
         /\ g.closure_manifest_digest = m.digest
         /\ Column(g.slots, "slot_id") = Column(m.resources, "slot_id")
         /\ Column(g.slots, "resource_type") = Column(m.resources, "type")
         /\ Column(g.slots, "interface_schema_digest")
              = Column(m.resources, "interface_schema_digest")
         /\ \A r \in ToSet(m.resources) : met(r) \/ absent(r)
===============================================================================
