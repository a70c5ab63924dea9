------------------------------ MODULE ClosureGraph ------------------------------
(***************************************************************************)
(* kb2_validate_graph (src/closure.c): may the dependency graph of a       *)
(* closure be sealed?  The function links the dependency records into      *)
(* adjacency lists, sorts the artifacts topologically, counting those it   *)
(* gets to, and then marks what the roots reach.                           *)
(*                                                                         *)
(* The verdict is all that is used of the sort, so the order of lists and  *)
(* queue is left open: any record, edge or queued artifact may be next.    *)
(* The queue is an array with room for one entry per artifact; queued is   *)
(* the set of its entries, ready the part between queue_begin and          *)
(* queue_end.                                                              *)
(***************************************************************************)
EXTENDS Naturals, FiniteSets

CONSTANTS
  Artifacts,   \* the artifacts of the closure, by index
  Unknown,     \* the index of a node id that no artifact has (SIZE_MAX)
  MaxUnknown   \* bound: records that name such a node id

ASSUME GraphAssumption == IsFiniteSet(Artifacts) /\ Unknown \notin Artifacts

Kinds == {"SHARED_PROVIDER", "RELOCATABLE_MODULE"}

Ends == Artifacts \cup {Unknown}

VARIABLES
  kind,           \* kind of each artifact
  root,           \* the root modules
  dependencies,   \* records <<consumer, provider>>, as indices
  phase,          \* which loop is running
  linked,         \* records in the adjacency lists
  incoming,       \* count per artifact
  queued,         \* artifacts put into the queue
  queue_end,      \* number of entries written to the queue
  ready,          \* artifacts in the queue, not yet taken
  processed,      \* number of artifacts the sort took from the queue
  edges,          \* edges of the artifact taken last, still to be followed
  status

input == <<kind, root, dependencies>>
vars == <<input, phase, linked, incoming, queued, queue_end, ready, processed,
          edges, status>>

(* The builder keeps a dependency at most once and never from a node to    *)
(* itself; kb2_validate_artifacts made sure of a root and of the kind of   *)
(* every root.  Distinct unknown ids are alike.                            *)
Inputs(k, r, d) ==
  /\ k \in [Artifacts -> Kinds]
  /\ r \in SUBSET Artifacts /\ r # {}
  /\ \A a \in r : k[a] = "RELOCATABLE_MODULE"
  /\ d \in SUBSET (Ends \X Ends)
  /\ \A a \in Artifacts : <<a, a>> \notin d

Init ==
  /\ kind \in [Artifacts -> Kinds]
  /\ root \in SUBSET Artifacts
  /\ dependencies \in SUBSET (Ends \X Ends)
  /\ Inputs(kind, root, dependencies)
  /\ Cardinality({d \in dependencies : Unknown \in {d[1], d[2]}}) <= MaxUnknown
  /\ phase = "allocate" /\ linked = {} /\ incoming = [a \in Artifacts |-> 0]
  /\ queued = {} /\ queue_end = 0 /\ ready = {} /\ processed = 0 /\ edges = {}
  /\ status = "NO_MEMORY"

Finish(s) == phase' = "done" /\ status' = s

(* Both ends are known, and a shared provider depends on shared providers  *)
(* only.  (incoming cannot reach UINT32_MAX: the builder takes far fewer   *)
(* dependencies.)                                                          *)
Allowed(d) ==
  /\ d[1] # Unknown /\ d[2] # Unknown
  /\ kind[d[1]] = "SHARED_PROVIDER" => kind[d[2]] = "SHARED_PROVIDER"

(* Six arrays are allocated; if one is missing the status is still         *)
(* NO_MEMORY.                                                              *)
Allocate ==
  /\ phase = "allocate"
  /\ phase' \in {"link", "done"}
  /\ UNCHANGED <<input, linked, incoming, queued, queue_end, ready, processed,
                 edges, status>>

Link ==
  /\ phase = "link"
  /\ \E d \in dependencies \ linked :
       IF Allowed(d)
         THEN /\ linked' = linked \cup {d}
              /\ incoming' = [incoming EXCEPT ![d[2]] = @ + 1]
              /\ UNCHANGED <<phase, status>>
         ELSE Finish("INVALID_CONFIGURATION") /\ UNCHANGED <<linked, incoming>>
  /\ UNCHANGED <<input, queued, queue_end, ready, processed, edges>>

(* The queue starts with the artifacts no one depends on.                  *)
StartSort ==
  LET free == {a \in Artifacts : incoming[a] = 0}
  IN  /\ phase = "link" /\ linked = dependencies
      /\ queued' = free /\ ready' = free /\ queue_end' = Cardinality(free)
      /\ phase' = "sort"
      /\ UNCHANGED <<input, linked, incoming, processed, edges, status>>

(* Mutant: the second loop does not advance queue_begin.                   *)
TakeMarkStuck ==
  /\ phase \in {"sort", "mark"} /\ edges = {}
  /\ \E a \in ready :
       /\ ready' = IF phase = "sort" THEN ready \ {a} ELSE ready
       /\ edges' = {d \in linked : d[1] = a}
  /\ processed' = IF phase = "sort" THEN processed + 1 ELSE processed
  /\ UNCHANGED <<input, phase, linked, incoming, queued, queue_end, status>>

(* Takes the next artifact from the queue, its edges all to be followed.   *)
Take ==
  /\ phase \in {"sort", "mark"} /\ edges = {}
  /\ \E a \in ready :
       /\ ready' = ready \ {a}
       /\ edges' = {d \in linked : d[1] = a}
  /\ processed' = IF phase = "sort" THEN processed + 1 ELSE processed
  /\ UNCHANGED <<input, phase, linked, incoming, queued, queue_end, status>>

Enqueue(a) ==
  /\ queued' = queued \cup {a} /\ ready' = ready \cup {a}
  /\ queue_end' = queue_end + 1

FollowSort ==
  /\ phase = "sort"
  /\ \E d \in edges :
       /\ edges' = edges \ {d}
       /\ incoming' = [incoming EXCEPT ![d[2]] = @ - 1]
       /\ IF incoming[d[2]] = 1 THEN Enqueue(d[2])
                                ELSE UNCHANGED <<queued, ready, queue_end>>
  /\ UNCHANGED <<input, phase, linked, processed, status>>

(* Mutant: the number of artifacts sorted is not looked at.                *)
EndSortUncounted ==
  /\ phase = "sort" /\ edges = {} /\ ready = {}
  /\ queued' = root /\ ready' = root /\ queue_end' = Cardinality(root)
  /\ phase' = "mark"
  /\ UNCHANGED <<input, linked, incoming, processed, edges, status>>

(* All artifacts taken means no cycle; the queue is used again.            *)
EndSort ==
  /\ phase = "sort" /\ edges = {} /\ ready = {}
  /\ IF processed # Cardinality(Artifacts)
       THEN /\ Finish("INVALID_CONFIGURATION")
            /\ UNCHANGED <<queued, ready, queue_end>>
       ELSE /\ queued' = root /\ ready' = root /\ queue_end' = Cardinality(root)
            /\ phase' = "mark" /\ UNCHANGED status
  /\ UNCHANGED <<input, linked, incoming, processed, edges>>

(* reachable[a] is set exactly when a is queued.                           *)
FollowMark ==
  /\ phase = "mark"
  /\ \E d \in edges :
       /\ edges' = edges \ {d}
       /\ IF d[2] \notin queued THEN Enqueue(d[2])
                                ELSE UNCHANGED <<queued, ready, queue_end>>
  /\ UNCHANGED <<input, phase, linked, incoming, processed, status>>

EndMark ==
  /\ phase = "mark" /\ edges = {} /\ ready = {}
  /\ Finish(IF queued = Artifacts THEN "OK" ELSE "INVALID_CONFIGURATION")
  /\ UNCHANGED <<input, linked, incoming, queued, queue_end, ready, processed, edges>>

Next ==
  \/ Allocate \/ Link \/ StartSort \/ Take \/ FollowSort \/ EndSort
  \/ FollowMark \/ EndMark

Spec == Init /\ [][Next]_vars /\ WF_vars(Next)

-----------------------------------------------------------------------------
(***************************************************************************)
(* Properties                                                              *)
(***************************************************************************)

TypeOK ==
  /\ Inputs(kind, root, dependencies)
  /\ phase \in {"allocate", "link", "sort", "mark", "done"}
  /\ linked \in SUBSET (Artifacts \X Artifacts)
  /\ incoming \in [Artifacts -> Nat]
  /\ queued \in SUBSET Artifacts /\ ready \in SUBSET Artifacts
  /\ queue_end \in Nat /\ processed \in Nat
  /\ edges \in SUBSET (Artifacts \X Artifacts)
  /\ status \in {"OK", "NO_MEMORY", "INVALID_CONFIGURATION"}

(* The reference.  A set of artifacts each of which some member depends on *)
(* contains a cycle or is infinite.                                        *)
Cyclic(S) == \A a \in S : \E b \in S : <<b, a>> \in dependencies

Closed(S) == \A d \in dependencies : d[1] \in S => d[2] \in S

(* docs/module-closure.md: "Dependency records form a directed acyclic     *)
(* graph", "Every non-root node is reachable from a root", "Shared         *)
(* providers depend only on other shared providers"; and every record      *)
(* names artifacts of the closure.                                         *)
Acceptable ==
  /\ dependencies \subseteq Artifacts \X Artifacts
  /\ \A d \in dependencies :
       kind[d[1]] = "SHARED_PROVIDER" => kind[d[2]] = "SHARED_PROVIDER"
  /\ \A S \in SUBSET Artifacts : Cyclic(S) => S = {}
  /\ \A S \in SUBSET Artifacts : root \subseteq S /\ Closed(S) => S = Artifacts

(* The verdict is right: a graph is accepted only if it is acceptable and  *)
(* refused as a configuration only if it is not.                           *)
VerdictExact ==
  phase = "done" =>
    /\ status = "OK" => Acceptable
    /\ status = "INVALID_CONFIGURATION" => ~Acceptable

(* The queue array has one entry per artifact and is never written beyond: *)
(* no artifact enters it twice in one of the two passes.                   *)
QueueFits == queue_end <= Cardinality(Artifacts)

(* kb2_validate_graph is right about every graph and stays inside its      *)
(* arrays and counters on the way to its verdict.                          *)
ValidationExact == TypeOK /\ QueueFits /\ VerdictExact

(* The validation comes to an end on every graph.                          *)
Terminates == <>(phase = "done")
=============================================================================
