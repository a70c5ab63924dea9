------------------------------- MODULE Manifest -------------------------------
(***************************************************************************)
(* The packaged closure manifest (protocol/src/closure_manifest.c): six    *)
(* tables and a string table, their encoding and their decoding.           *)
(*                                                                         *)
(* A name is a sequence of characters, each one word of the string table;  *)
(* 0 stands for the characters that a name may not hold.                   *)
(***************************************************************************)
EXTENDS Wire

CONSTANTS
  MaxString,               \* 127 in the code
  MaxRows,                 \* the KB2_CLOSURE_MAX_ limits, one for each table
  Abi, Digest              \* the identity and the schema digest of this build

VARIABLES source, frame, phase, result

ROOT == 1
NATIVE_LINUX == 2
RELOCATABLE_MODULE == 1
SYMBOL_OBJECT == 1
OPTIONAL == 1

TableNames == <<"artifacts", "dependencies", "exports", "imports", "resources", "bindings">>
TableSizes == <<16, 2, 4, 8, 11, 2>>
HeaderWords == 18

-----------------------------------------------------------------------------
(***************************************************************************)
(* Encoding                                                                *)
(***************************************************************************)

StringValid(s) == s # <<>> /\ Len(s) <= MaxString /\ \A i \in DOMAIN s : s[i] # 0

Native(a) == Within(NATIVE_LINUX, a.flags)

SourceValid(m) ==
  /\ m.artifacts # <<>>
  /\ \A t \in DOMAIN TableNames : Len(m[TableNames[t]]) <= MaxRows[t]
  /\ \A i \in DOMAIN m.resources : m.resources[i].interface_schema_digest # 0

LifecycleNames(a) == <<a.init_symbol, a.quiesce_symbol, a.cleanup_symbol>>

StringsValid(m) ==
  /\ \A i \in DOMAIN m.artifacts :
       LET a == m.artifacts[i] IN
       /\ StringValid(a.namespace_name)
       /\ \A k \in 1 .. 3 : IF Native(a) THEN LifecycleNames(a)[k] = <<>>
                            ELSE StringValid(LifecycleNames(a)[k])
  /\ \A i \in DOMAIN m.exports : StringValid(m.exports[i].name)
  /\ \A i \in DOMAIN m.imports :
       StringValid(m.imports[i].consumer_name) /\ StringValid(m.imports[i].provider_name)

(* The strings in the order in which they are appended.                    *)
Strings(m) ==
  LET ofArtifact(a) == <<a.namespace_name>> \o LifecycleNames(a)
      ofExport(e) == <<e.name>>
      ofImport(i) == <<i.consumer_name, i.provider_name>>
  IN EncodeTable(m.artifacts, ofArtifact) \o EncodeTable(m.exports, ofExport)
     \o EncodeTable(m.imports, ofImport)

(* store_string_reference: the offset and the length of string k.          *)
Reference(strings, k) ==
  IF strings[k] = <<>> THEN <<0, 0>>
  ELSE <<Cursor([i \in DOMAIN strings |-> Len(strings[i])])[k - 1], Len(strings[k])>>

(* The offsets of the tables, then of the strings, then the end.           *)
Offsets(counts) ==
  LET o[t \in 1 .. 7] == IF t = 1 THEN HeaderWords ELSE o[t - 1] + counts[t - 1] * TableSizes[t - 1]
  IN o

EncodeArtifact(a, references) ==
  <<a.node_id, a.kind, a.flags, 0>> \o StoreU64(a.content_size) \o <<a.content_digest>>
  \o FlattenSeq(references) \o <<0>>

EncodeDependency(d) == <<d.consumer_node_id, d.provider_node_id>>

EncodeResource(r) ==
  <<r.slot_id, r.type, r.minimum_count, r.maximum_count>> \o StoreU64(r.required_rights)
  \o StoreU64(r.maximum_rights) \o <<r.flags, 0, r.interface_schema_digest>>

EncodeBinding(b) == <<b.slot_id, b.node_id>>

Encode(m) ==
  LET counts == [t \in 1 .. 6 |-> Len(m[TableNames[t]])]
      offsets == Offsets(counts)
      strings == Strings(m)
      references == [k \in DOMAIN strings |-> Reference(strings, k)]
      characters == FlattenSeq(strings)
      size == offsets[7] + Len(characters)
      exports == 4 * counts[1]
      imports == exports + counts[3]
      artifact(i) == EncodeArtifact(m.artifacts[i], SubSeq(references, 4 * i - 3, 4 * i))
      export(i) == <<m.exports[i].node_id, m.exports[i].kind>> \o references[exports + i]
      import(i) == LET r == m.imports[i] IN
                   <<r.consumer_node_id, r.provider_node_id, r.kind, r.flags>>
                   \o references[imports + 2 * i - 1] \o references[imports + 2 * i]
  IN
  IF ~SourceValid(m) \/ ~StringsValid(m) \/ size > U32Max THEN [status |-> "MALFORMED"]
  ELSE [status |-> "OK",
        frame |->
          <<size, Abi, Digest>> \o counts \o SubSeq(offsets, 1, 7) \o <<Len(characters), 0>>
          \o FlattenSeq([i \in 1 .. counts[1] |-> artifact(i)])
          \o EncodeTable(m.dependencies, EncodeDependency)
          \o FlattenSeq([i \in 1 .. counts[3] |-> export(i)])
          \o FlattenSeq([i \in 1 .. counts[4] |-> import(i)])
          \o EncodeTable(m.resources, EncodeResource)
          \o EncodeTable(m.bindings, EncodeBinding)
          \o characters]

-----------------------------------------------------------------------------
(***************************************************************************)
(* Decoding                                                                *)
(***************************************************************************)

Malformed == [well_formed |-> FALSE]

StringInTable(b, offset, length) ==
  offset <= LoadU32(b, 16) /\ length <= LoadU32(b, 16) - offset

(* decoded_string at a reference: a name, or <<>> for a refused one.       *)
DecodedString(b, o) ==
  LET offset == LoadU32(b, o)
      length == LoadU32(b, o + 1)
      first == LoadU32(b, 15) + offset
      string == SubSeq(b, first + 1, first + length)
  IN IF StringInTable(b, offset, length) /\ StringValid(string) THEN string ELSE <<>>

NoReference(b, o) == LoadU32(b, o) = 0 /\ LoadU32(b, o + 1) = 0

Artifact(b, o) ==
  LET a == [node_id |-> LoadU32(b, o), kind |-> LoadU32(b, o + 1), flags |-> LoadU32(b, o + 2),
            content_size |-> LoadU64(b, o + 4), content_digest |-> LoadU32(b, o + 6)]
      native == Within(NATIVE_LINUX, a.flags)
      lifecycle(k) == IF native THEN <<>> ELSE DecodedString(b, o + 7 + 2 * k)
  IN
  IF \/ a.node_id = 0 \/ a.content_size = 0 \/ a.kind > RELOCATABLE_MODULE
     \/ ~Within(a.flags, ROOT + NATIVE_LINUX)
     \/ LoadU32(b, o + 3) # 0 \/ LoadU32(b, o + 15) # 0
     \/ DecodedString(b, o + 7) = <<>>
     \/ \E k \in 1 .. 3 : IF native THEN ~NoReference(b, o + 7 + 2 * k) ELSE lifecycle(k) = <<>>
  THEN Malformed
  ELSE [well_formed |-> TRUE,
        row |-> [node_id |-> a.node_id, kind |-> a.kind, flags |-> a.flags,
                 content_size |-> a.content_size, content_digest |-> a.content_digest,
                 namespace_name |-> DecodedString(b, o + 7), init_symbol |-> lifecycle(1),
                 quiesce_symbol |-> lifecycle(2), cleanup_symbol |-> lifecycle(3)]]

Dependency(b, o) ==
  LET d == [consumer_node_id |-> LoadU32(b, o), provider_node_id |-> LoadU32(b, o + 1)] IN
  IF 0 \in {d.consumer_node_id, d.provider_node_id} \/ d.consumer_node_id = d.provider_node_id
  THEN Malformed ELSE [well_formed |-> TRUE, row |-> d]

Export(b, o) ==
  LET e == [node_id |-> LoadU32(b, o), kind |-> LoadU32(b, o + 1),
            name |-> DecodedString(b, o + 2)] IN
  IF e.node_id = 0 \/ e.kind > SYMBOL_OBJECT \/ e.name = <<>>
  THEN Malformed ELSE [well_formed |-> TRUE, row |-> e]

Import(b, o) ==
  LET i == [consumer_node_id |-> LoadU32(b, o), provider_node_id |-> LoadU32(b, o + 1),
            kind |-> LoadU32(b, o + 2), flags |-> LoadU32(b, o + 3),
            consumer_name |-> DecodedString(b, o + 4),
            provider_name |-> DecodedString(b, o + 6)] IN
  IF \/ i.consumer_node_id = 0 \/ i.consumer_node_id = i.provider_node_id
     \/ i.kind > SYMBOL_OBJECT \/ ~Within(i.flags, OPTIONAL)
     \/ i.consumer_name = <<>> \/ i.provider_name = <<>>
  THEN Malformed ELSE [well_formed |-> TRUE, row |-> i]

Resource(b, o) ==
  LET r == [slot_id |-> LoadU32(b, o), type |-> LoadU32(b, o + 1),
            minimum_count |-> LoadU32(b, o + 2), maximum_count |-> LoadU32(b, o + 3),
            required_rights |-> LoadU64(b, o + 4), maximum_rights |-> LoadU64(b, o + 6),
            flags |-> LoadU32(b, o + 8), interface_schema_digest |-> LoadU32(b, o + 10)] IN
  IF \/ r.slot_id = 0 \/ r.minimum_count > r.maximum_count
     \/ ~Within(r.required_rights, r.maximum_rights)
     \/ r.interface_schema_digest = 0 \/ LoadU32(b, o + 9) # 0
  THEN Malformed ELSE [well_formed |-> TRUE, row |-> r]

Binding(b, o) ==
  LET x == [slot_id |-> LoadU32(b, o), node_id |-> LoadU32(b, o + 1)] IN
  IF x.slot_id = 0 \/ x.node_id = 0 THEN Malformed ELSE [well_formed |-> TRUE, row |-> x]

(* The tables and the strings follow the header without a gap.             *)
TablesFit(b) ==
  LET counts == SubSeq(b, 4, 9)
      ends == Offsets(counts)
  IN /\ \A t \in 1 .. 6 : /\ counts[t] <= MaxRows[t]
                          /\ LoadU32(b, 8 + t) = ends[t]
                          /\ ends[t + 1] <= Len(b)
     /\ counts[1] # 0 /\ LoadU32(b, 15) = ends[7] /\ LoadU32(b, 16) = Len(b) - ends[7]

Table(b, t, Row(_, _)) == DecodeTable(b, LoadU32(b, 8 + t), LoadU32(b, 2 + t), TableSizes[t], Row)

Decoded(b) ==
  [artifacts |-> Table(b, 1, Artifact), dependencies |-> Table(b, 2, Dependency),
   exports |-> Table(b, 3, Export), imports |-> Table(b, 4, Import),
   resources |-> Table(b, 5, Resource), bindings |-> Table(b, 6, Binding)]

(* manifest_has_node, and the node that an import leaves open.             *)
HasNode(m, id) == BinarySearch(Column(m.artifacts, "node_id"), id) # NotFound

NodesKnown(m) ==
  /\ \A d \in ToSet(m.dependencies) :
       HasNode(m, d.consumer_node_id) /\ HasNode(m, d.provider_node_id)
  /\ \A x \in ToSet(m.exports) \cup ToSet(m.bindings) : HasNode(m, x.node_id)
  /\ \A i \in ToSet(m.imports) :
       /\ HasNode(m, i.consumer_node_id)
       /\ i.provider_node_id # 0 => HasNode(m, i.provider_node_id)

Ordered(artifacts) ==
  \A i \in DOMAIN artifacts :
    artifacts[i].node_id > IF i = 1 THEN 0 ELSE artifacts[i - 1].node_id

Decode(reader, b) ==
  LET rows == Decoded(b)
      m == [t \in DOMAIN rows |-> [i \in DOMAIN rows[t] |-> rows[t][i].row]]
  IN
  IF Len(b) < HeaderWords THEN [status |-> "BUFFER_TOO_SMALL"]
  ELSE IF Len(b) > U32Max THEN [status |-> "OVERFLOW"]
  ELSE IF LoadU32(b, 1) # Abi \/ LoadU32(b, 2) # Digest THEN [status |-> "SCHEMA_MISMATCH"]
  ELSE IF LoadU32(b, 0) # Len(b) \/ LoadU32(b, 17) # 0 \/ ~TablesFit(b)
  THEN [status |-> "MALFORMED"]
  ELSE IF \E t \in DOMAIN rows : \E i \in DOMAIN rows[t] : ~rows[t][i].well_formed
  THEN [status |-> "MALFORMED"]
  ELSE IF \/ ~Ordered(m.artifacts) \/ ~NodesKnown(m)
          \/ \A a \in ToSet(m.artifacts) : ~Within(ROOT, a.flags)
  THEN [status |-> "MALFORMED"]
  ELSE [status |-> "OK", value |-> m]

Short(value) == "BUFFER_TOO_SMALL"

Transfer == INSTANCE Codec

-----------------------------------------------------------------------------
(***************************************************************************)
(* Properties                                                              *)
(***************************************************************************)

(* What a receiver may rely on: node IDs in order, a root, names present,   *)
(* every reference to a node resolved.                                      *)
Consistent(m) ==
  LET nodes == {a.node_id : a \in ToSet(m.artifacts)} IN
  /\ m.artifacts # <<>> /\ 0 \notin nodes
  /\ \A p \in Pairs(m.artifacts) : m.artifacts[p[1]].node_id < m.artifacts[p[2]].node_id
  /\ \E a \in ToSet(m.artifacts) : a.flags \in {1, 3}
  /\ \A a \in ToSet(m.artifacts) :
       /\ a.kind \in {0, 1} /\ a.flags \in 0 .. 3 /\ a.content_size > 0
  /\ \A d \in ToSet(m.dependencies) :
       d.consumer_node_id # d.provider_node_id
       /\ {d.consumer_node_id, d.provider_node_id} \subseteq nodes
  /\ \A e \in ToSet(m.exports) : e.node_id \in nodes /\ e.kind \in {0, 1}
  /\ \A i \in ToSet(m.imports) :
       /\ i.consumer_node_id \in nodes /\ i.provider_node_id \in nodes \cup {0}
       /\ i.consumer_node_id # i.provider_node_id
       /\ i.kind \in {0, 1} /\ i.flags \in {0, 1}
  /\ \A r \in ToSet(m.resources) :
       /\ r.slot_id > 0 /\ r.minimum_count <= r.maximum_count
       /\ Bits(r.required_rights) \subseteq Bits(r.maximum_rights)
  /\ \A x \in ToSet(m.bindings) : x.slot_id > 0 /\ x.node_id \in nodes

(* What kb2_closure_manifest_encode wrote is decoded to the same tables if  *)
(* it is consistent, and refused if not: the encoder checks only the names  *)
(* and the counts.                                                          *)
RoundTripConsistent ==
  phase = "delivered" =>
    /\ result.status = "OK" <=> Consistent(source.value)
    /\ result.status = "OK" => result.value = source.value

(* Whatever kb2_closure_manifest_decode accepts, damaged frames whose names *)
(* overlap included, is consistent, can be encoded again, and is then       *)
(* decoded to the same manifest.                                            *)
Recoded ==
  Transfer!Accepted =>
    LET e == Encode(result.value) IN
    /\ Consistent(result.value)
    /\ e.status = "OK"
    /\ Decode(source.reader, e.frame).status = "OK"
    /\ Decode(source.reader, e.frame).value = result.value
===============================================================================
