--------------------------- MODULE MCResourceGrant ----------------------------
(***************************************************************************)
(* Grants up to two changes away from a proper one, read against manifests *)
(* up to one change away from the one it meets, and every damage of one    *)
(* word.                                                                   *)
(***************************************************************************)
EXTENDS ResourceGrant, Variations

SlotRow(id, type, state) ==
  [slot_id |-> id, resource_type |-> type, state |-> state, interface_schema_digest |-> 5]
ObjectRow(slot, id, rights) == [slot_id |-> slot, object_id |-> id, granted_rights |-> rights]
HandleRow(id, role, index) ==
  [object_id |-> id, role |-> role, transfer_handle_index |-> index]

Grant ==
  [generation |-> 129, closure_manifest_digest |-> 9,
   slots |-> <<SlotRow(1, 0, PRESENT), SlotRow(3, 2, ABSENT), SlotRow(4, 1, PRESENT)>>,
   objects |-> <<ObjectRow(1, 130, 3), ObjectRow(1, 131, 7), ObjectRow(4, 200, 1)>>,
   handle_bindings |-> <<HandleRow(130, 0, 0), HandleRow(130, 2, 1), HandleRow(200, 1, 2)>>]

Empty == [Grant EXCEPT !.slots = <<>>, !.objects = <<>>, !.handle_bindings = <<>>]

Resource(id, type, least, most, required, maximum, flags) ==
  [slot_id |-> id, type |-> type, minimum_count |-> least, maximum_count |-> most,
   required_rights |-> required, maximum_rights |-> maximum, flags |-> flags,
   interface_schema_digest |-> 5]

Manifest ==
  [digest |-> 9,
   resources |-> <<Resource(1, 0, 1, 2, 1, 15, 1), Resource(3, 2, 1, 1, 1, 3, 2),
                   Resource(4, 1, 1, 1, 1, 1, 3)>>]

SlotChanges == [slot_id |-> {0, 2, 4}, resource_type |-> {1, 3, 5}, state |-> {0, 1, 2},
                interface_schema_digest |-> {0, 6}]
ObjectChanges == [slot_id |-> {1, 2, 3, 4}, object_id |-> {0, 129, 131, 200},
                  granted_rights |-> {0, 2, 8, 15, 16}]
HandleChanges == [object_id |-> {0, 130, 131, 200}, role |-> {0, 1, 2},
                  transfer_handle_index |-> {0, 3}]
HeaderChanges == [generation |-> {0}, closure_manifest_digest |-> {0, 8}]
ResourceChanges ==
  [slot_id |-> {2}, type |-> {4}, minimum_count |-> {0, 2}, maximum_count |-> {0, 1, 3},
   required_rights |-> {0, 3, 5}, maximum_rights |-> {3, 7}, flags |-> {0, 1, 2},
   interface_schema_digest |-> {6}]

ChangeTables(g) ==
  ChangeRows(g, "slots", SlotChanges) \cup ChangeRows(g, "objects", ObjectChanges)
  \cup ChangeRows(g, "handle_bindings", HandleChanges)
  \cup UNION {DropRow(g, t) \cup SwapRows(g, t) : t \in {"slots", "objects", "handle_bindings"}}

Near == {Grant, Empty} \cup ChangeFields(Grant, HeaderChanges) \cup ChangeTables(Grant)
Grants == Near \cup UNION {ChangeTables(g) : g \in Near}
Manifests == {Manifest} \cup ChangeFields(Manifest, [digest |-> {8}])
             \cup ChangeRows(Manifest, "resources", ResourceChanges)
             \cup DropRow(Manifest, "resources")

MCSources == {[value |-> g, reader |-> Manifest] : g \in Grants}
             \cup {[value |-> g, reader |-> m] : g \in {Grant}, m \in Manifests}
MCFragile == {[value |-> Grant, reader |-> Manifest]}
MCNoise == {0, 1, 2, 3, 4, 5, 10, 13, 34, 58, 127}

Init == Transfer!Init(MCSources)
Next == Transfer!Next(MCFragile, MCNoise)
===============================================================================
