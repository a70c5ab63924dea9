--------------------------- MODULE MCClosureBuilder ---------------------------
(***************************************************************************)
(* Three instances of ClosureBuilder, one of which is chosen at the start. *)
(* "memory": a builder that can be filled and sealed, with a table that    *)
(* grows, one that gets full and two that stay empty,  under an allocator  *)
(* that refuses at any point.  "seal" and "grant": calls that together     *)
(* reach closures which break one rule of the validation, several, or      *)
(* none, in every order of the rows; the first for nodes and symbols, the  *)
(* second for nodes and resources.                                         *)
(***************************************************************************)
EXTENDS Integers

VARIABLES heap, misfree, builder, closures, sealed, status, instance

vars == <<heap, misfree, builder, closures, sealed, status, instance>>

Artifact(n, k, name) == [op |-> "artifact", node |-> n, kind |-> k, digest |-> 1, name |-> name]

Export(n, s, k) == [op |-> "export", node |-> n, symbol |-> s, kind |-> k]

Dependency(c, p) == [op |-> "dependency", consumer |-> c, provider |-> p]

Import(s, f) ==
  [op |-> "import", consumer |-> 2, symbol |-> 1, provider |-> 1, provider_symbol |-> s,
   kind |-> "FUNCTION", flags |-> f]

Channel(f) ==
  [op |-> "resource", slot |-> 1, type |-> "CHANNEL", digest |-> 1, minimum |-> 0,
   maximum |-> 1, required |-> {}, rights |-> {"SEND"}, flags |-> f]

MappedMemory ==
  [op |-> "resource", slot |-> 1, type |-> "MEMORY", digest |-> 1, minimum |-> 1,
   maximum |-> 1, required |-> {"READ"}, rights |-> {"READ", "MAP"},
   flags |-> {"REQUIRED", "RESET_REQUIRED"}]

Native == [op : {"native"}, node : 1 .. 2]
Bindings == [op : {"bind"}, slot : {1}, node : 1 .. 2]
RootCall == [op |-> "root", node |-> 2]
SetLifecycle == [op |-> "lifecycle", node |-> 2, symbols |-> <<1, 1, 1>>]

MemoryCalls ==
  Bindings \cup
  {Artifact(2, "RELOCATABLE_MODULE", 1), RootCall, SetLifecycle,
   Export(2, 3, "FUNCTION"), Export(2, 2, "OBJECT"), Export(2, 1, "FUNCTION"), MappedMemory}

NodeCalls ==
  Native \cup
  {Artifact(2, "RELOCATABLE_MODULE", 2), Artifact(1, "SHARED_PROVIDER", 1),
   Artifact(1, "RELOCATABLE_MODULE", 1), RootCall, Dependency(2, 1)}

SealCalls ==
  NodeCalls \cup
  {Dependency(1, 2), SetLifecycle,
   Export(2, 1, "FUNCTION"), Export(1, 1, "FUNCTION"), Import(1, {}), Import(2, {"OPTIONAL"})}

GrantCalls == NodeCalls \cup Bindings \cup {Channel({}), Channel({"SHARED"}), MappedMemory}

Names == {"artifacts", "dependencies", "exports", "imports", "resources", "bindings"}

Memory ==
  INSTANCE ClosureBuilder WITH
    Calls <- MemoryCalls, InitialCapacity <- 2, AllocatorFails <- TRUE, MaxObjects <- 2,
    MaximumCount <- [t \in Names |-> IF t = "bindings" THEN 1 ELSE 3]

Seal ==
  INSTANCE ClosureBuilder WITH
    Calls <- SealCalls, InitialCapacity <- 8, AllocatorFails <- FALSE, MaxObjects <- 1,
    MaximumCount <- [t \in Names |-> 3]

Grant ==
  INSTANCE ClosureBuilder WITH
    Calls <- GrantCalls, InitialCapacity <- 8, AllocatorFails <- FALSE, MaxObjects <- 1,
    MaximumCount <- [t \in Names |-> 3]

Init == \/ instance = "memory" /\ Memory!Init
        \/ instance = "seal" /\ Seal!Init
        \/ instance = "grant" /\ Grant!Init

Next == /\ \/ instance = "memory" /\ Memory!Next
           \/ instance = "seal" /\ Seal!Next
           \/ instance = "grant" /\ Grant!Next
        /\ UNCHANGED instance

Spec == Init /\ [][Next]_vars

-----------------------------------------------------------------------------

(* Between two calls the live blocks are exactly those the builder and the *)
(* closures own, with the sizes they will be given back with, whichever    *)
(* allocations of kb2_reserve, kb2_validate_storage and kb2_closure_clone  *)
(* were refused on the way.                                                *)
MemoryExact == instance = "memory" => Memory!MemoryExact

(* kb2_closure_builder_seal succeeds exactly on the descriptions that      *)
(* docs/module-closure.md allows, whatever the order of the calls, and     *)
(* leaves no work array behind; a closure reads, for as long as it lives,  *)
(* as what the builder held when it was sealed, in the order of its keys,  *)
(* and is launched as its rows say.                                        *)
SealExact ==
  /\ instance = "seal" =>
       Seal!SealExact /\ Seal!NodeMapExact /\ Seal!SealedFaithful /\ Seal!LaunchAsSealed
  /\ instance = "grant" => Grant!SealExact /\ Grant!SealedFaithful /\ Grant!LaunchAsSealed
  /\ instance = "memory" => Memory!SealedFaithful /\ Memory!LaunchAsSealed

(* A call that does not return OK leaves the builder, what it holds and    *)
(* every closure as they were, so that it can be made again.               *)
FailureChangesNothing == Memory!FailureChangesNothing
=============================================================================
