------------------------------ MODULE Variations ------------------------------
(***************************************************************************)
(* Values near a given one, for the inputs of the codec models: a field of *)
(* a record or of a row of one of its tables set to another value, a row   *)
(* dropped, two rows exchanged.                                            *)
(***************************************************************************)
EXTENDS Integers, Sequences, SequencesExt

ChangeFields(r, changes) ==
  UNION {{[r EXCEPT ![f] = v] : v \in changes[f]} : f \in DOMAIN changes}

ChangeRows(r, table, changes) ==
  UNION {{[r EXCEPT ![table][i] = row] : row \in ChangeFields(r[table][i], changes)} :
           i \in DOMAIN r[table]}

DropRow(r, table) ==
  {[r EXCEPT ![table] = RemoveAt(@, i)] : i \in DOMAIN r[table]}

SwapRows(r, table) ==
  {[r EXCEPT ![table] = [@ EXCEPT ![i] = r[table][i + 1], ![i + 1] = r[table][i]]] :
     i \in 1 .. Len(r[table]) - 1}
===============================================================================
