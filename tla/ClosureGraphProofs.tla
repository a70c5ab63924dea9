-------------------------- MODULE ClosureGraphProofs --------------------------
(***************************************************************************)
(* Proofs about ClosureGraph, for every finite set of artifacts.  The sort *)
(* is right because the count of an artifact is the number of edges into   *)
(* it that are not yet followed, and because no member of a set with a     *)
(* cycle ever enters the queue; the marking because every closed set with  *)
(* the roots contains the queue, which is itself closed in the end.        *)
(***************************************************************************)
EXTENDS ClosureGraph, FiniteSetTheorems, TLAPS

Into(E, a) == {d \in E : d[2] = a}

(* The edges the sort has still to follow.                                 *)
Unfollowed == {d \in linked : d[1] \notin queued \ ready} \cup edges

Acyclic == \A S \in SUBSET Artifacts : Cyclic(S) => S = {}

Shape ==
  /\ TypeOK
  /\ linked \subseteq dependencies /\ edges \subseteq linked
  /\ ready \subseteq queued
  /\ \A d \in linked : kind[d[1]] = "SHARED_PROVIDER" => kind[d[2]] = "SHARED_PROVIDER"
  /\ \A d \in edges : d[1] \in queued \ ready
  /\ queue_end = Cardinality(queued)
  /\ phase # "done" => status = "NO_MEMORY"
  /\ phase \in {"sort", "mark"} => linked = dependencies

Linking ==
  phase \in {"allocate", "link"} =>
    /\ queued = {} /\ edges = {} /\ processed = 0
    /\ \A a \in Artifacts : incoming[a] = Cardinality(Into(linked, a))

Sorting ==
  phase = "sort" =>
    /\ processed = Cardinality(queued \ ready)
    /\ \A a \in Artifacts : incoming[a] = Cardinality(Into(Unfollowed, a))
    /\ \A a \in Artifacts : a \in queued <=> incoming[a] = 0
    /\ \A S \in SUBSET Artifacts : Cyclic(S) => S \cap queued = {}

Marking ==
  phase = "mark" =>
    /\ Acyclic
    /\ root \subseteq queued
    /\ \A S \in SUBSET Artifacts : root \subseteq S /\ Closed(S) => queued \subseteq S
    /\ \A d \in linked \ edges : d[1] \in queued \ ready => d[2] \in queued

GraphInv == Shape /\ Linking /\ Sorting /\ Marking /\ VerdictExact

-----------------------------------------------------------------------------

(* Sets of artifacts and of edges between artifacts are finite.            *)
LEMMA Finite ==
  /\ \A S \in SUBSET Artifacts :
       IsFiniteSet(S) /\ Cardinality(S) \in Nat /\ Cardinality(S) <= Cardinality(Artifacts)
  /\ \A S \in SUBSET Artifacts : Cardinality(S) = Cardinality(Artifacts) => S = Artifacts
  /\ \A E \in SUBSET (Artifacts \X Artifacts) : IsFiniteSet(E) /\ Cardinality(E) \in Nat
<1>1. IsFiniteSet(Artifacts \X Artifacts)
  BY GraphAssumption, FS_Product
<1>2. ASSUME NEW S \in SUBSET Artifacts
      PROVE  /\ IsFiniteSet(S) /\ Cardinality(S) \in Nat
             /\ Cardinality(S) <= Cardinality(Artifacts)
             /\ Cardinality(S) = Cardinality(Artifacts) => S = Artifacts
  BY GraphAssumption, FS_Subset, FS_CardinalityType
<1>3. ASSUME NEW E \in SUBSET (Artifacts \X Artifacts)
      PROVE  IsFiniteSet(E) /\ Cardinality(E) \in Nat
  BY <1>1, FS_Subset, FS_CardinalityType
<1> QED
  BY <1>2, <1>3

(* How the number of edges into an artifact changes with the edges.        *)
LEMMA IntoCount ==
  ASSUME NEW E \in SUBSET (Artifacts \X Artifacts), NEW a \in Artifacts
  PROVE  /\ Cardinality(Into(E, a)) \in Nat
         /\ Cardinality(Into(E, a)) = 0 <=> \A d \in E : d[2] # a
         /\ \A d \in (Artifacts \X Artifacts) \ E :
              Cardinality(Into(E \cup {d}, a)) =
                Cardinality(Into(E, a)) + (IF d[2] = a THEN 1 ELSE 0)
         /\ \A d \in E :
              Cardinality(Into(E \ {d}, a)) =
                Cardinality(Into(E, a)) - (IF d[2] = a THEN 1 ELSE 0)
<1>1. IsFiniteSet(Into(E, a)) /\ Cardinality(Into(E, a)) \in Nat
  <2>1. Into(E, a) \in SUBSET (Artifacts \X Artifacts)
    BY DEF Into
  <2> QED
    BY <2>1, Finite
<1>2. Cardinality(Into(E, a)) = 0 <=> \A d \in E : d[2] # a
  <2>1. Cardinality(Into(E, a)) = 0 <=> Into(E, a) = {}
    BY <1>1, FS_EmptySet
  <2> QED
    BY <2>1 DEF Into
<1>3. ASSUME NEW d \in (Artifacts \X Artifacts) \ E
      PROVE  Cardinality(Into(E \cup {d}, a)) =
               Cardinality(Into(E, a)) + (IF d[2] = a THEN 1 ELSE 0)
  <2>1. CASE d[2] = a
    <3>1. Into(E \cup {d}, a) = Into(E, a) \cup {d} /\ d \notin Into(E, a)
      BY <2>1 DEF Into
    <3> QED
      BY <3>1, <2>1, <1>1, FS_AddElement
  <2>2. CASE d[2] # a
    <3>1. Into(E \cup {d}, a) = Into(E, a)
      BY <2>2 DEF Into
    <3> QED
      BY <3>1, <2>2, <1>1
  <2> QED
    BY <2>1, <2>2
<1>4. ASSUME NEW d \in E
      PROVE  Cardinality(Into(E \ {d}, a)) =
               Cardinality(Into(E, a)) - (IF d[2] = a THEN 1 ELSE 0)
  <2>1. CASE d[2] = a
    <3>1. Into(E \ {d}, a) = Into(E, a) \ {d} /\ d \in Into(E, a)
      BY <2>1 DEF Into
    <3> QED
      BY <3>1, <2>1, <1>1, FS_RemoveElement
  <2>2. CASE d[2] # a
    <3>1. Into(E \ {d}, a) = Into(E, a)
      BY <2>2 DEF Into
    <3> QED
      BY <3>1, <2>2, <1>1
  <2> QED
    BY <2>1, <2>2
<1> QED
  BY <1>1, <1>2, <1>3, <1>4

(* The validation starts with nothing linked or queued.                    *)
LEMMA InitGraph == Init => GraphInv
<1> SUFFICES ASSUME Init PROVE GraphInv
  OBVIOUS
<1>1. Cardinality({}) = 0
  BY FS_EmptySet
<1>2. TypeOK
  BY DEF Init, TypeOK
<1>3. Shape
  BY <1>1, <1>2 DEF Init, Shape
<1>4. \A a \in Artifacts : Into({}, a) = {}
  BY DEF Into
<1>5. Linking
  BY <1>1, <1>4 DEF Init, Linking
<1> QED
  BY <1>3, <1>5 DEF Init, GraphInv, Sorting, Marking, VerdictExact

(* Allocation, and the refusal when it fails.                              *)
LEMMA AllocateGraph == GraphInv /\ Allocate => GraphInv'
<1> SUFFICES ASSUME GraphInv, Allocate PROVE GraphInv'
  OBVIOUS
<1>1. Shape'
  BY DEF GraphInv, Allocate, Shape, TypeOK, Inputs, input
<1>2. Linking'
  BY DEF GraphInv, Allocate, Linking, Into
<1>3. status' = "NO_MEMORY"
  BY DEF GraphInv, Allocate, Shape
<1> QED
  BY <1>1, <1>2, <1>3 DEF GraphInv, Allocate, Sorting, Marking, VerdictExact

(* A record is linked and counted, or it makes the graph unacceptable.     *)
LEMMA LinkGraph == GraphInv /\ Link => GraphInv'
<1> SUFFICES ASSUME GraphInv, Link PROVE GraphInv'
  OBVIOUS
<1> USE DEF GraphInv
<1>1. PICK d \in dependencies \ linked :
        IF Allowed(d)
          THEN /\ linked' = linked \cup {d}
               /\ incoming' = [incoming EXCEPT ![d[2]] = @ + 1]
               /\ UNCHANGED <<phase, status>>
          ELSE Finish("INVALID_CONFIGURATION") /\ UNCHANGED <<linked, incoming>>
  BY DEF Link
<1>2. d \in Ends \X Ends
  BY DEF Shape, TypeOK, Inputs
<1>3. CASE Allowed(d)
  <2>1. d \in (Artifacts \X Artifacts) \ linked
    BY <1>1, <1>2, <1>3 DEF Allowed, Ends
  <2>2. TypeOK'
    BY <1>1, <1>3, <2>1 DEF Link, Shape, TypeOK, Inputs, input
  <2>3. Shape'
    BY <1>1, <1>3, <2>1, <2>2 DEF Link, Shape, Allowed, input
  <2>4. Linking'
    <3>1. ASSUME NEW a \in Artifacts
          PROVE  incoming'[a] = Cardinality(Into(linked', a))
      <4>1. linked \in SUBSET (Artifacts \X Artifacts) /\ incoming \in [Artifacts -> Nat]
        BY DEF Shape, TypeOK
      <4>2. incoming[a] = Cardinality(Into(linked, a))
        BY DEF Link, Linking
      <4>3. Cardinality(Into(linked \cup {d}, a)) =
              Cardinality(Into(linked, a)) + (IF d[2] = a THEN 1 ELSE 0)
        BY <4>1, <2>1, IntoCount
      <4> QED
        BY <1>1, <1>3, <2>1, <4>1, <4>2, <4>3
    <3> QED
      BY <3>1, <1>1, <1>3 DEF Link, Linking, Into
  <2> QED
    BY <2>3, <2>4, <1>1, <1>3 DEF Link, Sorting, Marking, VerdictExact
<1>4. CASE ~Allowed(d)
  <2>1. phase' = "done" /\ status' = "INVALID_CONFIGURATION"
    BY <1>1, <1>4 DEF Finish
  <2>2. Shape'
    BY <1>1, <1>4, <2>1 DEF Link, Shape, TypeOK, Inputs, input
  <2>3. ~Acceptable
    BY <1>1, <1>2, <1>4, GraphAssumption DEF Acceptable, Allowed, Ends
  <2>4. ~Acceptable'
    BY <2>3 DEF Link, Acceptable, Cyclic, Closed, input
  <2> QED
    BY <2>1, <2>2, <2>4 DEF Linking, Sorting, Marking, VerdictExact
<1> QED
  BY <1>3, <1>4

(* The first queue: no edge leads to its members, so none is on a cycle.   *)
LEMMA StartSortGraph == GraphInv /\ StartSort => GraphInv'
<1> SUFFICES ASSUME GraphInv, StartSort PROVE GraphInv'
  OBVIOUS
<1> USE DEF GraphInv
<1> DEFINE free == {a \in Artifacts : incoming[a] = 0}
<1>1. /\ phase = "link" /\ phase' = "sort" /\ linked = dependencies
      /\ queued' = free /\ ready' = free /\ queue_end' = Cardinality(free)
      /\ UNCHANGED <<kind, root, dependencies, linked, incoming, processed, edges, status>>
  BY DEF StartSort, input
<1>2. free \in SUBSET Artifacts /\ Cardinality(free) \in Nat
  BY Finite
<1>3. edges = {} /\ processed = 0
  BY <1>1 DEF Linking
<1>4. Shape'
  BY <1>1, <1>2, <1>3 DEF Shape, TypeOK, Inputs
<1>5. Sorting'
  <2>1. linked \in SUBSET (Artifacts \X Artifacts)
    BY DEF Shape, TypeOK
  <2>2. queued' \ ready' = {} /\ Unfollowed' = linked
    BY <1>1, <1>3 DEF Unfollowed
  <2>3. processed' = Cardinality(queued' \ ready')
    BY <1>1, <1>3, <2>2, FS_EmptySet
  <2>4. \A a \in Artifacts : incoming[a] = Cardinality(Into(linked, a))
    BY <1>1 DEF Linking
  <2>5. ASSUME NEW S \in SUBSET Artifacts, Cyclic(S)', NEW a \in S, a \in free
        PROVE  FALSE
    <3>1. PICK b \in S : <<b, a>> \in linked
      BY <1>1, <2>5 DEF Cyclic
    <3>2. \A d \in linked : d[2] # a
      BY <2>1, <2>4, <2>5, IntoCount
    <3> QED
      BY <3>1, <3>2
  <2>6. \A S \in SUBSET Artifacts : Cyclic(S)' => S \cap queued' = {}
    BY <2>5, <1>1
  <2>7. \A a \in Artifacts : incoming'[a] = Cardinality(Into(Unfollowed', a))
    BY <1>1, <2>2, <2>4
  <2>8. \A a \in Artifacts : a \in queued' <=> incoming'[a] = 0
    BY <1>1
  <2> QED
    BY <2>3, <2>6, <2>7, <2>8 DEF Sorting, Into
<1> QED
  BY <1>1, <1>4, <1>5 DEF Linking, Marking, VerdictExact

(* An artifact leaves the queue and its edges become the ones to follow.   *)
LEMMA TakeGraph == GraphInv /\ Take => GraphInv'
<1> SUFFICES ASSUME GraphInv, Take PROVE GraphInv'
  OBVIOUS
<1> USE DEF GraphInv
<1>1. PICK a \in ready : ready' = ready \ {a} /\ edges' = {d \in linked : d[1] = a}
  BY DEF Take
<1>2. /\ phase \in {"sort", "mark"} /\ edges = {}
      /\ processed' = (IF phase = "sort" THEN processed + 1 ELSE processed)
      /\ UNCHANGED <<kind, root, dependencies, phase, linked, incoming, queued,
                     queue_end, status>>
  BY DEF Take, input
<1>3. Shape'
  BY <1>1, <1>2 DEF Shape, TypeOK, Inputs
<1>4. Sorting'
  <2> SUFFICES ASSUME phase = "sort" PROVE Sorting'
    BY <1>2 DEF Sorting
  <2>1. Unfollowed' = Unfollowed
    BY <1>1, <1>2 DEF Unfollowed, Shape
  <2>2. queued' \ ready' = (queued \ ready) \cup {a} /\ a \notin queued \ ready
    BY <1>1, <1>2 DEF Shape
  <2>3. IsFiniteSet(queued \ ready)
    BY Finite DEF Shape, TypeOK
  <2>4. processed' = Cardinality(queued' \ ready')
    <3>1. Cardinality((queued \ ready) \cup {a}) = Cardinality(queued \ ready) + 1
      BY <2>2, <2>3, FS_AddElement
    <3>2. processed = Cardinality(queued \ ready) /\ processed' = processed + 1
      BY <1>2 DEF Sorting
    <3> QED
      BY <2>2, <3>1, <3>2
  <2>5. \A b \in Artifacts : incoming'[b] = Cardinality(Into(Unfollowed', b))
    BY <1>2, <2>1 DEF Sorting
  <2>6. \A S \in SUBSET Artifacts : Cyclic(S)' => S \cap queued' = {}
    BY <1>2 DEF Sorting, Cyclic
  <2>7. \A b \in Artifacts : b \in queued' <=> incoming'[b] = 0
    BY <1>2 DEF Sorting
  <2> QED
    BY <2>4, <2>5, <2>6, <2>7 DEF Sorting, Into
<1>5. Marking'
  BY <1>1, <1>2 DEF Marking, Acyclic, Cyclic, Closed, Shape
<1> QED
  BY <1>2, <1>3, <1>4, <1>5 DEF Linking, VerdictExact

(* An edge is followed: its target enters the queue with the last edge     *)
(* into it, when all it is needed by is sorted.                            *)
LEMMA FollowSortGraph == GraphInv /\ FollowSort => GraphInv'
<1> SUFFICES ASSUME GraphInv, FollowSort PROVE GraphInv'
  OBVIOUS
<1> USE DEF GraphInv
<1>1. PICK d \in edges :
        /\ edges' = edges \ {d}
        /\ incoming' = [incoming EXCEPT ![d[2]] = @ - 1]
        /\ IF incoming[d[2]] = 1 THEN Enqueue(d[2])
                                 ELSE UNCHANGED <<queued, ready, queue_end>>
  BY DEF FollowSort
<1>2. /\ phase = "sort"
      /\ UNCHANGED <<kind, root, dependencies, phase, linked, processed, status>>
  BY DEF FollowSort, input
<1> DEFINE p == d[2]
<1>3. /\ d \in Artifacts \X Artifacts /\ p \in Artifacts
      /\ d \in linked /\ d[1] \in queued \ ready /\ d \in Unfollowed
      /\ Unfollowed \in SUBSET (Artifacts \X Artifacts)
      /\ incoming \in [Artifacts -> Nat] /\ linked = dependencies
  BY <1>1, <1>2 DEF Shape, TypeOK, Unfollowed
<1>4. \A a \in Artifacts : incoming[a] = Cardinality(Into(Unfollowed, a))
  BY <1>2 DEF Sorting
<1>5. incoming[p] # 0 /\ p \notin queued
  <2>1. incoming[p] # 0
    BY <1>3, <1>4, IntoCount
  <2> QED
    BY <2>1, <1>2, <1>3 DEF Sorting
<1>6. incoming' \in [Artifacts -> Nat] /\ incoming'[p] = incoming[p] - 1
  BY <1>1, <1>3, <1>5
<1>7. queued' \ ready' = queued \ ready
  BY <1>1, <1>5 DEF Enqueue, Shape
<1>8. Unfollowed' = Unfollowed \ {d}
  BY <1>1, <1>2, <1>3, <1>7 DEF Unfollowed
<1>9. queued' = (IF incoming[p] = 1 THEN queued \cup {p} ELSE queued)
  BY <1>1 DEF Enqueue
<1>10. Shape'
  <2>1. IsFiniteSet(queued) /\ Cardinality(queued) \in Nat
    BY Finite DEF Shape, TypeOK
  <2>2. queue_end' = Cardinality(queued') /\ queue_end' \in Nat
    <3>1. CASE incoming[p] = 1
      <4>1. Cardinality(queued \cup {p}) = Cardinality(queued) + 1
        BY <1>5, <2>1, FS_AddElement
      <4> QED
        BY <1>1, <1>9, <3>1, <2>1, <4>1 DEF Enqueue, Shape
    <3>2. CASE incoming[p] # 1
      BY <1>1, <3>2, <2>1 DEF Shape
    <3> QED
      BY <3>1, <3>2
  <2>3. ready' \subseteq queued' /\ queued' \subseteq Artifacts
    BY <1>1, <1>3 DEF Enqueue, Shape, TypeOK
  <2>4. TypeOK'
    BY <1>1, <1>2, <1>6, <2>2, <2>3 DEF Shape, TypeOK, Inputs
  <2> QED
    BY <1>1, <1>2, <1>7, <2>2, <2>3, <2>4 DEF Shape
<1>11. Sorting'
  <2>1. processed' = Cardinality(queued' \ ready')
    BY <1>2, <1>7 DEF Sorting
  <2>2. ASSUME NEW a \in Artifacts
        PROVE  incoming'[a] = Cardinality(Into(Unfollowed', a))
    <3>1. Cardinality(Into(Unfollowed \ {d}, a)) =
            Cardinality(Into(Unfollowed, a)) - (IF p = a THEN 1 ELSE 0)
      BY <1>3, IntoCount
    <3>2. incoming[a] = Cardinality(Into(Unfollowed, a)) /\ incoming[a] \in Nat
      BY <1>3, <1>4
    <3> HIDE DEF p
    <3>3. incoming'[a] = incoming[a] - (IF p = a THEN 1 ELSE 0)
      BY <1>1, <1>3, <3>2 DEF p
    <3> QED
      BY <1>8, <3>1, <3>2, <3>3
  <2>3. \A a \in Artifacts : a \in queued' <=> incoming'[a] = 0
    <3>1. \A a \in Artifacts : a \in queued <=> incoming[a] = 0
      BY <1>2 DEF Sorting
    <3> QED
      BY <1>1, <1>3, <1>5, <1>6, <1>9, <3>1
  <2>4. ASSUME NEW S \in SUBSET Artifacts, Cyclic(S)
        PROVE  S \cap queued' = {}
    <3>1. S \cap queued = {}
      BY <1>2, <2>4 DEF Sorting
    <3>2. ASSUME incoming[p] = 1, p \in S PROVE FALSE
      <4>1. incoming'[p] = 0
        BY <1>6, <3>2
      <4>2. Unfollowed' \in SUBSET (Artifacts \X Artifacts)
        BY <1>3, <1>8
      <4>3. \A e \in Unfollowed' : e[2] # p
        BY <1>3, <2>2, <4>1, <4>2, IntoCount
      <4>4. PICK b \in S : <<b, p>> \in linked
        BY <1>3, <2>4, <3>2 DEF Cyclic
      <4>5. b \notin queued
        BY <3>1
      <4>6. <<b, p>> \in Unfollowed'
        BY <1>2, <1>7, <4>4, <4>5 DEF Unfollowed
      <4> QED
        BY <4>3, <4>6
    <3> QED
      BY <1>9, <3>1, <3>2
  <2>5. \A S \in SUBSET Artifacts : Cyclic(S)' => S \cap queued' = {}
    BY <1>2, <2>4 DEF Cyclic
  <2> QED
    BY <2>1, <2>2, <2>3, <2>5 DEF Sorting, Into
<1> QED
  BY <1>2, <1>10, <1>11 DEF Linking, Marking, VerdictExact

(* The sort ends: what it did not get to is a set with a cycle, and if it  *)
(* got to everything there is none.                                        *)
LEMMA EndSortGraph == GraphInv /\ EndSort => GraphInv'
<1> SUFFICES ASSUME GraphInv, EndSort PROVE GraphInv'
  OBVIOUS
<1> USE DEF GraphInv
<1>1. /\ phase = "sort" /\ edges = {} /\ ready = {} /\ linked = dependencies
      /\ UNCHANGED <<kind, root, dependencies, linked, incoming, processed, edges>>
  BY DEF EndSort, input, Shape
<1>2. /\ queued \in SUBSET Artifacts /\ root \in SUBSET Artifacts
      /\ linked \in SUBSET (Artifacts \X Artifacts)
  BY DEF Shape, TypeOK, Inputs
<1>3. processed = Cardinality(queued)
  <2>1. queued \ ready = queued
    BY <1>1
  <2> QED
    BY <1>1, <2>1 DEF Sorting
<1>4. CASE processed # Cardinality(Artifacts)
  <2>1. /\ phase' = "done" /\ status' = "INVALID_CONFIGURATION"
        /\ UNCHANGED <<queued, ready, queue_end>>
    BY <1>4 DEF EndSort, Finish
  <2>2. Shape'
    BY <1>1, <2>1 DEF Shape, TypeOK, Inputs
  <2> DEFINE S == Artifacts \ queued
  <2>3. S # {}
    BY <1>2, <1>3, <1>4
  <2>4. ASSUME NEW a \in S PROVE \E b \in S : <<b, a>> \in dependencies
    <3>1. Unfollowed \in SUBSET (Artifacts \X Artifacts)
      BY <1>1, <1>2 DEF Unfollowed
    <3>2. Cardinality(Into(Unfollowed, a)) # 0
      BY <1>1 DEF Sorting
    <3>3. PICK d \in Unfollowed : d[2] = a
      BY <3>1, <3>2, IntoCount
    <3>4. d \in dependencies /\ d[1] \in S /\ d = <<d[1], a>>
      BY <1>1, <1>2, <3>1, <3>3 DEF Unfollowed
    <3> QED
      BY <3>4
  <2>5. ~Acceptable
    BY <2>3, <2>4 DEF Acceptable, Cyclic
  <2>6. ~Acceptable'
    BY <2>5, <1>1 DEF Acceptable, Cyclic, Closed
  <2> QED
    BY <2>1, <2>2, <2>6 DEF Linking, Sorting, Marking, VerdictExact
<1>5. CASE processed = Cardinality(Artifacts)
  <2>1. /\ phase' = "mark" /\ status' = status
        /\ queued' = root /\ ready' = root /\ queue_end' = Cardinality(root)
    BY <1>5 DEF EndSort
  <2>2. Cardinality(root) \in Nat
    BY <1>2, Finite
  <2>3. Shape'
    BY <1>1, <1>2, <2>1, <2>2 DEF Shape, TypeOK, Inputs
  <2>4. queued = Artifacts
    BY <1>2, <1>3, <1>5, Finite
  <2>5. \A S \in SUBSET Artifacts : Cyclic(S) => S = {}
    BY <1>1, <2>4 DEF Sorting
  <2>6. Marking'
    BY <1>1, <2>1, <2>5 DEF Marking, Acyclic, Cyclic
  <2> QED
    BY <2>1, <2>3, <2>6 DEF Linking, Sorting, VerdictExact
<1> QED
  BY <1>4, <1>5

(* An edge of a marked artifact is followed: its target is marked, which   *)
(* every closed set with the roots contains.                               *)
LEMMA FollowMarkGraph == GraphInv /\ FollowMark => GraphInv'
<1> SUFFICES ASSUME GraphInv, FollowMark PROVE GraphInv'
  OBVIOUS
<1> USE DEF GraphInv
<1>1. PICK d \in edges :
        /\ edges' = edges \ {d}
        /\ IF d[2] \notin queued THEN Enqueue(d[2])
                                 ELSE UNCHANGED <<queued, ready, queue_end>>
  BY DEF FollowMark
<1>2. /\ phase = "mark"
      /\ UNCHANGED <<kind, root, dependencies, phase, linked, incoming, processed, status>>
  BY DEF FollowMark, input
<1>3. /\ d[2] \in Artifacts /\ d \in dependencies /\ d[1] \in queued
      /\ linked = dependencies
  BY <1>1, <1>2 DEF Shape, TypeOK
<1>4. /\ queued' = queued \cup {d[2]} /\ queued' \ ready' = queued \ ready
      /\ ready' \subseteq queued'
  BY <1>1 DEF Enqueue, Shape
<1>5. Shape'
  <2>1. IsFiniteSet(queued) /\ Cardinality(queued) \in Nat
    BY Finite DEF Shape, TypeOK
  <2>2. queue_end' = Cardinality(queued') /\ queue_end' \in Nat
    <3>1. CASE d[2] \notin queued
      <4>1. Cardinality(queued \cup {d[2]}) = Cardinality(queued) + 1
        BY <3>1, <2>1, FS_AddElement
      <4> QED
        BY <1>1, <1>4, <3>1, <2>1, <4>1 DEF Enqueue, Shape
    <3>2. CASE d[2] \in queued
      BY <1>1, <3>2, <2>1 DEF Shape
    <3> QED
      BY <3>1, <3>2
  <2>3. TypeOK'
    BY <1>1, <1>2, <1>3, <1>4, <2>2 DEF Shape, TypeOK, Inputs
  <2> QED
    BY <1>1, <1>2, <1>4, <2>2, <2>3 DEF Shape
<1>6. Marking'
  <2>1. Acyclic' /\ root' \subseteq queued'
    BY <1>2, <1>4 DEF Marking, Acyclic, Cyclic
  <2>2. ASSUME NEW S \in SUBSET Artifacts, root \subseteq S, Closed(S)
        PROVE  queued' \subseteq S
    <3>1. queued \subseteq S
      BY <1>2, <2>2 DEF Marking
    <3> QED
      BY <1>3, <1>4, <2>2, <3>1 DEF Closed
  <2>3. \A S \in SUBSET Artifacts : root' \subseteq S /\ Closed(S)' => queued' \subseteq S
    BY <1>2, <2>2 DEF Closed
  <2>4. \A e \in linked' \ edges' : e[1] \in queued' \ ready' => e[2] \in queued'
    BY <1>1, <1>2, <1>4 DEF Marking
  <2> QED
    BY <2>1, <2>3, <2>4 DEF Marking
<1> QED
  BY <1>2, <1>5, <1>6 DEF Linking, Sorting, VerdictExact

(* The marking ends: the marked artifacts are the least closed set with    *)
(* the roots.                                                              *)
LEMMA EndMarkGraph == GraphInv /\ EndMark => GraphInv'
<1> SUFFICES ASSUME GraphInv, EndMark PROVE GraphInv'
  OBVIOUS
<1> USE DEF GraphInv
<1>1. /\ phase = "mark" /\ edges = {} /\ ready = {} /\ linked = dependencies
      /\ phase' = "done"
      /\ status' = (IF queued = Artifacts THEN "OK" ELSE "INVALID_CONFIGURATION")
      /\ UNCHANGED <<kind, root, dependencies, linked, incoming, queued, queue_end,
                     ready, processed, edges>>
  BY DEF EndMark, Finish, input, Shape
<1>2. Shape'
  BY <1>1 DEF Shape, TypeOK, Inputs
<1>3. queued \in SUBSET Artifacts /\ dependencies \subseteq Artifacts \X Artifacts
  BY <1>1 DEF Shape, TypeOK
<1>4. root \subseteq queued /\ Closed(queued)
  BY <1>1 DEF Marking, Closed
<1>5. queued = Artifacts => Acceptable
  BY <1>1, <1>3 DEF Marking, Acyclic, Acceptable, Shape
<1>6. queued # Artifacts => ~Acceptable
  BY <1>3, <1>4 DEF Acceptable
<1>7. Acceptable' <=> Acceptable
  BY <1>1 DEF Acceptable, Cyclic, Closed
<1>8. VerdictExact'
  BY <1>1, <1>5, <1>6, <1>7 DEF VerdictExact
<1> QED
  BY <1>1, <1>2, <1>8 DEF Linking, Sorting, Marking

(* A step that changes no variable.                                        *)
LEMMA StutterGraph == GraphInv /\ UNCHANGED vars => GraphInv'
<1> SUFFICES ASSUME GraphInv, UNCHANGED vars PROVE GraphInv'
  OBVIOUS
<1>1. Shape'
  BY DEF GraphInv, Shape, TypeOK, Inputs, vars, input
<1>2. Linking'
  BY DEF GraphInv, Linking, Into, vars, input
<1>3. Sorting'
  <2>1. Unfollowed' = Unfollowed
    BY DEF Unfollowed, vars
  <2> QED
    BY <2>1 DEF GraphInv, Sorting, Cyclic, Into, vars, input
<1>4. Marking'
  BY DEF GraphInv, Marking, Acyclic, Cyclic, Closed, vars, input
<1>5. VerdictExact'
  BY DEF GraphInv, VerdictExact, Acceptable, Cyclic, Closed, vars, input
<1> QED
  BY <1>1, <1>2, <1>3, <1>4, <1>5 DEF GraphInv

(* Every state of kb2_validate_graph satisfies the inductive invariant.    *)
THEOREM GraphInvariant == Spec => []GraphInv
<1>1. Init => GraphInv
  BY InitGraph
<1>2. GraphInv /\ [Next]_vars => GraphInv'
  BY AllocateGraph, LinkGraph, StartSortGraph, TakeGraph, FollowSortGraph, EndSortGraph,
     FollowMarkGraph, EndMarkGraph, StutterGraph DEF Next
<1> QED
  BY <1>1, <1>2, PTL DEF Spec

(* kb2_validate_graph accepts exactly the acceptable graphs, whatever the  *)
(* number of artifacts and whatever they depend on.                        *)
THEOREM VerdictCorrect == Spec => []VerdictExact
<1>1. GraphInv => VerdictExact
  BY DEF GraphInv
<1> QED
  BY <1>1, GraphInvariant, PTL

(* kb2_validate_graph never writes beyond its queue array.                 *)
THEOREM QueueBounded == Spec => []QueueFits
<1>1. GraphInv => QueueFits
  <2> SUFFICES ASSUME GraphInv PROVE QueueFits
    BY Zenon
  <2>1. queued \in SUBSET Artifacts /\ queue_end = Cardinality(queued)
    BY Zenon DEF GraphInv, Shape, TypeOK
  <2> QED  BY <2>1, Finite, Zenon DEF QueueFits
<1> QED
  BY <1>1, GraphInvariant, PTL

(* The variables of kb2_validate_graph keep their types; no count of       *)
(* incoming edges drops below zero.                                        *)
THEOREM GraphTypeCorrect == Spec => []TypeOK
<1>1. GraphInv => TypeOK
  BY DEF GraphInv, Shape
<1> QED
  BY <1>1, GraphInvariant, PTL

(* For every finite graph kb2_validate_graph reaches the right verdict     *)
(* without leaving its arrays.                                             *)
THEOREM ValidationCorrect == Spec => []ValidationExact
BY GraphTypeCorrect, QueueBounded, VerdictCorrect, PTL DEF ValidationExact
=============================================================================
