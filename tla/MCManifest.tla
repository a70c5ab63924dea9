------------------------------ MODULE MCManifest ------------------------------
(***************************************************************************)
(* Manifests up to two changes away from one with a native and an ordinary *)
(* artifact, and every damage of one word of its frame.                    *)
(***************************************************************************)
EXTENDS Manifest, Variations

Main == [node_id |-> 2, kind |-> 1, flags |-> ROOT, content_size |-> 300, content_digest |-> 7,
         namespace_name |-> <<5, 6>>, init_symbol |-> <<7>>, quiesce_symbol |-> <<8>>,
         cleanup_symbol |-> <<9>>]
Library == [node_id |-> 4, kind |-> 0, flags |-> NATIVE_LINUX, content_size |-> 1,
            content_digest |-> 8, namespace_name |-> <<6>>, init_symbol |-> <<>>,
            quiesce_symbol |-> <<>>, cleanup_symbol |-> <<>>]

Base ==
  [artifacts |-> <<Main, Library>>,
   dependencies |-> <<[consumer_node_id |-> 2, provider_node_id |-> 4]>>,
   exports |-> <<[node_id |-> 4, kind |-> 1, name |-> <<5, 5>>]>>,
   imports |-> <<[consumer_node_id |-> 2, provider_node_id |-> 4, kind |-> 1, flags |-> 0,
                  consumer_name |-> <<7, 7>>, provider_name |-> <<5, 5>>]>>,
   resources |-> <<[slot_id |-> 3, type |-> 2, minimum_count |-> 1, maximum_count |-> 2,
                    required_rights |-> 1, maximum_rights |-> 7, flags |-> 1,
                    interface_schema_digest |-> 5]>>,
   bindings |-> <<[slot_id |-> 3, node_id |-> 2]>>]

Names == {<<>>, <<0>>, <<5, 0>>, <<6, 7, 8>>, <<6, 6, 6, 6>>}

ArtifactChanges ==
  [node_id |-> {0, 2, 3, 5}, kind |-> {0, 2}, flags |-> {0, 1, 3, 4}, content_size |-> {0, 256},
   content_digest |-> {0}, namespace_name |-> Names, init_symbol |-> Names,
   quiesce_symbol |-> {<<>>}, cleanup_symbol |-> {<<>>, <<7>>}]
NodeChanges == [consumer_node_id |-> {0, 3, 4}, provider_node_id |-> {0, 2, 5}]
ExportChanges == [node_id |-> {0, 2, 3}, kind |-> {2}, name |-> Names]
ImportChanges == [consumer_node_id |-> {0, 3, 4}, provider_node_id |-> {0, 2, 5}, kind |-> {0, 2},
                  flags |-> {1, 2}, consumer_name |-> Names, provider_name |-> {<<>>}]
ResourceChanges ==
  [slot_id |-> {0}, type |-> {9}, minimum_count |-> {3}, maximum_count |-> {0, 1},
   required_rights |-> {0, 8}, maximum_rights |-> {2, 259}, flags |-> {0},
   interface_schema_digest |-> {0}]
BindingChanges == [slot_id |-> {0, 9}, node_id |-> {0, 3, 4}]

Changed(m) ==
  ChangeRows(m, "artifacts", ArtifactChanges) \cup ChangeRows(m, "dependencies", NodeChanges)
  \cup ChangeRows(m, "exports", ExportChanges) \cup ChangeRows(m, "imports", ImportChanges)
  \cup ChangeRows(m, "resources", ResourceChanges) \cup ChangeRows(m, "bindings", BindingChanges)
  \cup UNION {DropRow(m, t) \cup SwapRows(m, t) : t \in DOMAIN m}

Manifests == {Base} \cup Changed(Base) \cup UNION {Changed(m) : m \in Changed(Base)}

MCSources == {[value |-> m, reader |-> 0] : m \in Manifests}
MCFragile == {[value |-> Base, reader |-> 0]}
MCNoise == {0, 1, 2, 3, 4, 5, 7, 18, 50, 65, 255}

Init == Transfer!Init(MCSources)
Next == Transfer!Next(MCFragile, MCNoise)
===============================================================================
