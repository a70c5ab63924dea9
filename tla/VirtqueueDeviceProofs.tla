---------------------- MODULE VirtqueueDeviceProofs ------------------------
(***************************************************************************)
(* The steps of the device preserve the inductive invariant of             *)
(* VirtqueueProofs, hence so does every step of the queue, and no step     *)
(* changes an entry that is announced and not yet taken.                   *)
(***************************************************************************)
EXTENDS VirtqueueProofs

-----------------------------------------------------------------------------
(***************************************************************************)
(* What the device does, as far as a request and its answer are concerned  *)
(***************************************************************************)

(* No request moves: the device's call begins, ends or fails.              *)
DeviceStill ==
  /\ drv' = drv
  /\ dev'.produced = dev.produced /\ dev'.consumed = dev.consumed
  /\ Unanswered' = Unanswered
  /\ \A o \in Unanswered : dev'.chains[o] = dev.chains[o]

(* take_available copies the oldest request.                               *)
Accepts(o) ==
  /\ drv' = drv /\ dev.consumed # drv.produced
  /\ dev'.produced = dev.produced /\ dev'.consumed = Successor(dev.consumed)
  /\ o \notin Unanswered /\ Unanswered' = Unanswered \cup {o}
  /\ HeadOf(SegmentsAt(dev', o)) = avail.ring[Slot(dev.consumed)]
  /\ dev'.chains[o].written = 0
  /\ \A p \in Unanswered : dev'.chains[p] = dev.chains[p]

(* move_accepted hands a request to another chain object.                  *)
Moves(source, destination) ==
  /\ drv' = drv
  /\ dev'.produced = dev.produced /\ dev'.consumed = dev.consumed
  /\ source \in Unanswered /\ Unanswered' = (Unanswered \ {source}) \cup {destination}
  /\ dev'.chains[destination] = dev.chains[source]
  /\ \A p \in Unanswered \ {source} : dev'.chains[p] = dev.chains[p]

(* The device writes to the answer of a request it holds.                  *)
Writes(o, size) ==
  /\ drv' = drv
  /\ dev'.produced = dev.produced /\ dev'.consumed = dev.consumed
  /\ o \in Unanswered /\ Unanswered' = Unanswered
  /\ dev.chains[o].written + size \in Lengths
  /\ dev'.chains[o].written = dev.chains[o].written + size
  /\ \A p \in Unanswered \ {o} : dev'.chains[p].written = dev.chains[p].written
  /\ \A p \in Unanswered : SegmentsAt(dev', p) = SegmentsAt(dev, p)

(* return_available puts the request taken last back.                      *)
Declines(o) ==
  /\ drv' = drv /\ avail' = avail
  /\ dev'.produced = dev.produced /\ dev'.consumed = Predecessor(dev.consumed)
  /\ Distance(dev'.consumed, drv.produced) = Distance(dev.consumed, drv.produced) + 1
  /\ o \in Unanswered /\ Unanswered' = Unanswered \ {o} /\ dev.chains[o].written = 0
  /\ avail.ring[Slot(dev'.consumed)] = HeadOf(SegmentsAt(dev, o))
  /\ \A p \in Unanswered' : dev'.chains[p] = dev.chains[p]

(* The store of the used index makes an answer visible.                    *)
Completes(o) ==
  /\ drv' = drv
  /\ dev'.produced = Successor(dev.produced) /\ dev'.consumed = dev.consumed
  /\ Distance(drv.consumed, dev'.produced) = Distance(drv.consumed, dev.produced) + 1
  /\ o \in Unanswered /\ Unanswered' = Unanswered \ {o}
  /\ used'.ring = used.ring
  /\ used.ring[Slot(dev.produced)].head = HeadOf(SegmentsAt(dev, o))
  /\ used.ring[Slot(dev.produced)].length = dev.chains[o].written
  /\ dev'.chains = dev.chains

-----------------------------------------------------------------------------
(***************************************************************************)
(* A chain object is handed over                                           *)
(***************************************************************************)

(* The same books under another name for one chain.                        *)
LEMMA MoveBooks ==
  ASSUME NEW objects, None \notin objects, NEW vq \in Endpoints(objects), Books(vq),
         NEW source \in Busy(vq), NEW destination \in objects \ Busy(vq),
         NEW new, new.owned = vq.owned, new.descriptor_owner = vq.descriptor_owner,
         \A h \in Heads : new.slots[h] =
           IF h = HeadOf(SegmentsAt(vq, source)) THEN destination ELSE vq.slots[h],
         DOMAIN new.chains = objects, new.chains[source] = FreeChain,
         new.chains[destination] = vq.chains[source],
         \A o \in objects \ {source, destination} : new.chains[o] = vq.chains[o]
  PROVE  /\ Books(new)
         /\ Busy(new) = (Busy(vq) \ {source}) \cup {destination}
         /\ new.chains[destination] = vq.chains[source]
         /\ \A o \in Busy(vq) \ {source} : new.chains[o] = vq.chains[o]
<1> DEFINE head == HeadOf(SegmentsAt(vq, source))
<1>0. /\ vq.slots \in [Heads -> objects \cup {None}]
      /\ vq.chains \in [objects -> Chains] /\ DOMAIN vq.chains = objects
      /\ Busy(vq) \subseteq objects /\ source \in objects /\ source # destination
  BY EndpointFacts, Zenon DEF Busy
<1> USE <1>0
<1>1. /\ DOMAIN new.chains = objects
      /\ new.chains[destination] = vq.chains[source]
      /\ new.chains[source] = FreeChain
      /\ \A o \in objects \ {source, destination} : new.chains[o] = vq.chains[o]
  BY Zenon
<1> USE <1>1
<1>2. Busy(new) = (Busy(vq) \ {source}) \cup {destination}
  BY DEF Busy, FreeChain
<1>3. /\ SegmentsAt(new, destination) = SegmentsAt(vq, source)
      /\ \A o \in Busy(vq) \ {source} : SegmentsAt(new, o) = SegmentsAt(vq, o)
  BY Zenon DEF SegmentsAt
<1>4. \A p \in Busy(vq) :
        /\ HeadOf(SegmentsAt(vq, p)) \in Heads
        /\ vq.slots[HeadOf(SegmentsAt(vq, p))] = p
        /\ Len(SegmentsAt(vq, p)) \in 1 .. MaxChain
        /\ Cardinality(Descriptors(SegmentsAt(vq, p))) = Len(SegmentsAt(vq, p))
        /\ \A h \in Descriptors(SegmentsAt(vq, p)) :
             vq.descriptor_owner[h] = HeadOf(SegmentsAt(vq, p)) + 1
  BY BusyFacts
<1> USE <1>2
<1>5. IsFiniteSet(Busy(new)) /\ new.owned = Cardinality(Busy(new))
  <2>1. IsFiniteSet(Busy(vq)) /\ vq.owned = Cardinality(Busy(vq))
    BY Zenon DEF Books
  <2> USE <2>1
  <2>2. /\ IsFiniteSet(Busy(vq) \ {source})
        /\ Cardinality(Busy(vq) \ {source}) = Cardinality(Busy(vq)) - 1
    BY Zenon DEF Books, FiniteSetFacts, RemoveCounts
  <2>3. destination \notin Busy(vq) \ {source}
    BY Zenon
  <2> USE <2>2
  <2>4. /\ IsFiniteSet((Busy(vq) \ {source}) \cup {destination})
        /\ Cardinality((Busy(vq) \ {source}) \cup {destination})
             = Cardinality(Busy(vq) \ {source}) + 1
    BY <2>3, Zenon DEF Books, FiniteSetFacts, AddCounts
  <2>5. Cardinality(Busy(vq)) \in Int
    BY DEF Books, FiniteSetFacts, EmptyCounts
  <2> QED  BY <2>4, <2>5
<1> USE <1>3, <1>4
<1>6. \A h \in Heads : new.slots[h] # None =>
        new.slots[h] \in Busy(new) /\ HeadOf(SegmentsAt(new, new.slots[h])) = h
  <2> SUFFICES ASSUME NEW h \in Heads, new.slots[h] # None
               PROVE  new.slots[h] \in Busy(new) /\ HeadOf(SegmentsAt(new, new.slots[h])) = h
    BY Zenon
  <2>1. CASE h = head
    BY <2>1, Zenon
  <2>2. CASE h # head
    <3> USE <2>2
    <3>1. new.slots[h] = vq.slots[h]
      BY Zenon
    <3> USE <3>1
    <3>2. vq.slots[h] \in Busy(vq) /\ HeadOf(SegmentsAt(vq, vq.slots[h])) = h
      BY Zenon DEF Books
    <3> USE <3>2
    <3>3. vq.slots[h] # source
      BY Zenon
    <3> QED  BY <3>3, Zenon
  <2> QED  BY <2>1, <2>2, Zenon
<1>7. \A p \in Busy(new) :
        /\ Len(SegmentsAt(new, p)) \in 1 .. MaxChain
        /\ new.slots[HeadOf(SegmentsAt(new, p))] = p
        /\ Cardinality(Descriptors(SegmentsAt(new, p))) = Len(SegmentsAt(new, p))
        /\ \A h \in Descriptors(SegmentsAt(new, p)) :
             new.descriptor_owner[h] = HeadOf(SegmentsAt(new, p)) + 1
  <2>1. ASSUME NEW p \in Busy(vq) \ {source}
        PROVE  new.slots[HeadOf(SegmentsAt(vq, p))] = p
    <3>1. HeadOf(SegmentsAt(vq, p)) # head
      BY BooksDisjoint
    <3> QED  BY <3>1, Zenon
  <2>2. new.slots[head] = destination
    BY Zenon
  <2> QED  BY <2>1, <2>2
<1>8. \A h \in Heads : new.descriptor_owner[h] # 0 =>
        \E p \in Busy(new) : h \in Descriptors(SegmentsAt(new, p))
  <2> SUFFICES ASSUME NEW h \in Heads, new.descriptor_owner[h] # 0
               PROVE  \E p \in Busy(new) : h \in Descriptors(SegmentsAt(new, p))
    BY Zenon
  <2>1. PICK p \in Busy(vq) : h \in Descriptors(SegmentsAt(vq, p))
    BY Zenon DEF Books
  <2> QED  BY <2>1, Zenon
<1>9. Books(new)
  BY <1>5, <1>6, <1>7, <1>8, Zenon DEF Books
<1> QED  BY <1>9, Zenon

-----------------------------------------------------------------------------
(***************************************************************************)
(* The walk through the descriptor table                                   *)
(***************************************************************************)

(* One step of the walk.                                                   *)
Follow(walk, head, k) ==
  IF k = 1 THEN head
  ELSE IF walk[k - 1] = None \/ desc[walk[k - 1]] = None THEN None
  ELSE desc[walk[k - 1]].next

(* Only one function follows the links from a head.                        *)
LEMMA WalkUnique ==
  ASSUME FiniteSetFacts, NEW head, NEW f, NEW g,
         f = [k \in 1 .. MaxChain + 1 |-> Follow(f, head, k)],
         g = [k \in 1 .. MaxChain + 1 |-> Follow(g, head, k)]
  PROVE  f = g
<1> DEFINE T == {k \in 1 .. MaxChain + 1 : f[k] # g[k]}
<1>1. ASSUME T # {} PROVE FALSE
  <2> USE Sizes
  <2>1. T \subseteq Nat
    OBVIOUS
  <2>2. PICK n \in T : \A m \in T : ~(m < n)
    BY <1>1, <2>1, Zenon DEF FiniteSetFacts, LeastNumber
  <2> USE <2>2
  <2>3. f[n] = Follow(f, head, n) /\ g[n] = Follow(g, head, n)
    BY Zenon
  <2> USE <2>3
  <2>4. CASE n = 1
    BY <2>4, Zenon DEF Follow
  <2>5. CASE n # 1
    <3> USE <2>5
    <3>1. n - 1 \in 1 .. MaxChain + 1 /\ n - 1 < n
      OBVIOUS
    <3>2. f[n - 1] = g[n - 1]
      BY <3>1, Zenon
    <3> QED  BY <3>2, Zenon DEF Follow
  <2> QED  BY <2>4, <2>5, Zenon
<1> QED  BY <1>1, Zenon

(* The walk of read_chain is the one function that follows the links.      *)
LEMMA LinkedFollows ==
  ASSUME FiniteSetFacts, NEW head, NEW g, g = [k \in 1 .. MaxChain + 1 |-> Follow(g, head, k)]
  PROVE  Linked(head) = g
<1> DEFINE walk == Linked(head)
<1>1. walk = [k \in 1 .. MaxChain + 1 |-> Follow(walk, head, k)]
  BY Zenon DEF Linked, Follow
<1> HIDE DEF walk
<1> QED  BY <1>1, WalkUnique DEF walk

(* read_chain reads back what publish wrote.                               *)
LEMMA ReadsBack ==
  ASSUME FiniteSetFacts, NEW segments \in Lists(Segments), Len(segments) # 0, Described(segments)
  PROVE  ReadChain(HeadOf(segments)) = segments
<1> DEFINE n == Len(segments)
           head == HeadOf(segments)
           W == [k \in 1 .. MaxChain + 1 |-> IF k <= n THEN segments[k].descriptor ELSE None]
<1> USE Sizes
<1>0. /\ n \in 1 .. MaxChain /\ n \in Nat /\ MaxChain \in Nat /\ DOMAIN segments = 1 .. n
      /\ \A i \in 1 .. n :
           /\ segments[i] \in Segments /\ segments[i].descriptor \in Heads
           /\ segments[i].chain \in DriverChains /\ segments[i].position \in 1 .. MaxChain
  BY SegmentFacts
<1>1. None \notin Heads
  BY VirtqueueAssumption DEF Heads
<1> USE <1>0
<1>2. \A i \in 1 .. n :
        /\ desc[segments[i].descriptor] # None
        /\ desc[segments[i].descriptor].chain = segments[i].chain
        /\ desc[segments[i].descriptor].position = segments[i].position
        /\ desc[segments[i].descriptor].next
             = IF i < n THEN segments[i + 1].descriptor ELSE None
  <2> SUFFICES ASSUME NEW i \in 1 .. n
               PROVE  /\ desc[segments[i].descriptor] # None
                      /\ desc[segments[i].descriptor].chain = segments[i].chain
                      /\ desc[segments[i].descriptor].position = segments[i].position
                      /\ desc[segments[i].descriptor].next
                           = IF i < n THEN segments[i + 1].descriptor ELSE None
    BY Zenon
  <2> DEFINE next == IF i < n THEN segments[i + 1].descriptor ELSE None
  <2>1. desc[segments[i].descriptor] =
          [chain |-> segments[i].chain, position |-> segments[i].position, next |-> next]
    BY Zenon DEF Described
  <2>2. next \in Heads \cup {None}
    <3>1. i < n => i + 1 \in 1 .. n
      OBVIOUS
    <3> QED  BY <3>1, Zenon
  <2> HIDE DEF next
  <2> USE <2>1
  <2>3. desc[segments[i].descriptor] \in Links
    BY <2>2 DEF Links
  <2>4. desc[segments[i].descriptor] # None
    BY <2>3, NoneAssumption, Zenon
  <2> QED  BY <2>4 DEF next
<1> HIDE DEF n
<1> USE <1>1, <1>2
<1>3. W = [k \in 1 .. MaxChain + 1 |-> Follow(W, head, k)]
  <2> SUFFICES ASSUME NEW k \in 1 .. MaxChain + 1 PROVE W[k] = Follow(W, head, k)
    BY Zenon
  <2>1. CASE k = 1
    BY <2>1 DEF Follow, HeadOf
  <2>2. CASE k # 1
    <3> USE <2>2
    <3>1. k - 1 \in 1 .. MaxChain + 1 /\ k \in Int
      OBVIOUS
    <3> USE <3>1
    <3>2. CASE k - 1 <= n
      <4>1. k - 1 \in 1 .. n /\ W[k - 1] = segments[k - 1].descriptor
        BY <3>2
      <4> USE <4>1
      <4>2. W[k - 1] # None /\ desc[W[k - 1]] # None
        BY Zenon
      <4>3. desc[W[k - 1]].next = IF k - 1 < n THEN segments[(k - 1) + 1].descriptor ELSE None
        BY Zenon
      <4>4. (k - 1) + 1 = k /\ (k - 1 < n <=> k <= n)
        OBVIOUS
      <4> HIDE DEF W
      <4>5. Follow(W, head, k) = desc[W[k - 1]].next
        BY <4>2, Zenon DEF Follow
      <4> QED  BY <4>3, <4>4, <4>5, Zenon DEF W
    <3>3. CASE ~(k - 1 <= n)
      <4>1. W[k - 1] = None /\ W[k] = None
        BY <3>3
      <4> HIDE DEF W
      <4> QED  BY <4>1, Zenon DEF Follow
    <3> QED  BY <3>2, <3>3, Zenon
  <2> QED  BY <2>1, <2>2, Zenon
<1>4. Linked(head) = W
  <2> HIDE DEF W
  <2> QED  BY <1>3, LinkedFollows
<1>5. Cardinality({k \in DOMAIN W : W[k] # None}) = n
  <2>1. {k \in DOMAIN W : W[k] # None} = 1 .. n
    OBVIOUS
  <2>2. Cardinality(1 .. n) = n
    BY Zenon DEF FiniteSetFacts, IntervalCounts
  <2> QED  BY <2>1, <2>2, Zenon
<1>6. \A k \in 1 .. n : W[k] = segments[k].descriptor
  OBVIOUS
<1> HIDE DEF W
<1> USE <1>6
<1>7. \A k \in 1 .. n :
        [descriptor |-> W[k], chain |-> desc[W[k]].chain, position |-> desc[W[k]].position]
          = segments[k]
  <2> SUFFICES ASSUME NEW k \in 1 .. n
               PROVE  [descriptor |-> W[k], chain |-> desc[W[k]].chain,
                       position |-> desc[W[k]].position] = segments[k]
    BY Zenon
  <2>1. /\ W[k] = segments[k].descriptor /\ desc[W[k]].chain = segments[k].chain
        /\ desc[W[k]].position = segments[k].position
    BY Zenon
  <2>2. segments[k] = [descriptor |-> segments[k].descriptor, chain |-> segments[k].chain,
                       position |-> segments[k].position]
    BY Zenon DEF Segments
  <2> QED  BY <2>1, <2>2, Zenon
<1>8. ReadChain(head) =
        [k \in 1 .. n |-> [descriptor |-> W[k], chain |-> desc[W[k]].chain,
                           position |-> desc[W[k]].position]]
  <2>1. ~(n > MaxChain \/ \E k \in 1 .. n : desc[W[k]] = None)
    OBVIOUS
  <2> HIDE DEF head
  <2> QED  BY <1>4, <1>5, <2>1, Zenon DEF ReadChain
<1>9. segments = [k \in 1 .. n |-> segments[k]]
  <2>1. PICK m \in 0 .. MaxChain : segments \in [1 .. m -> Segments]
    BY Zenon DEF Lists
  <2> QED  BY <2>1, Zenon
<1> QED  BY <1>7, <1>8, <1>9

-----------------------------------------------------------------------------
(***************************************************************************)
(* Steps of the device                                                     *)
(***************************************************************************)

(* The same for a step of the device.                                      *)
LEMMA DeviceStages ==
  ASSUME IInv, UNCHANGED <<drv, desc, avail>>,
         dev'.produced = dev.produced, dev'.consumed = dev.consumed,
         \A s \in UsedSlots : used'.ring[s] = used.ring[s],
         \A o \in Unanswered' : \E p \in Unanswered : SegmentsAt(dev', o) = SegmentsAt(dev, p)
  PROVE  Stages'
<1>1. AvailSlots' = AvailSlots /\ UsedSlots' = UsedSlots
  BY Zenon DEF AvailSlots, UsedSlots
<1>2. /\ Submitted' = Submitted /\ StoreHeads' = StoreHeads
      /\ \A o : SegmentsAt(drv', o) = SegmentsAt(drv, o)
  BY Zenon DEF Submitted, StoreHeads, SegmentsAt
<1>3. AvailHeads' = AvailHeads
  BY <1>1, Zenon DEF AvailHeads
<1>4. HeldHeads' \subseteq HeldHeads
  BY Zenon DEF HeldHeads
<1>5. UsedHeads' = UsedHeads
  BY <1>1, Zenon DEF UsedHeads
<1>6. /\ \A s, t \in AvailSlots' : avail'.ring[s] = avail'.ring[t] => s = t
      /\ \A s, t \in UsedSlots' : used'.ring[s].head = used'.ring[t].head => s = t
  BY <1>1 DEF IInv, Stages
<1> USE <1>2
<1>7. /\ StoreHeads' \cap AvailHeads' = {} /\ StoreHeads' \cap HeldHeads' = {}
      /\ StoreHeads' \cap UsedHeads' = {}
      /\ AvailHeads' \cap HeldHeads' = {} /\ AvailHeads' \cap UsedHeads' = {}
      /\ HeldHeads' \cap UsedHeads' = {}
  <2>1. /\ StoreHeads \cap AvailHeads = {} /\ StoreHeads \cap HeldHeads = {}
        /\ StoreHeads \cap UsedHeads = {}
        /\ AvailHeads \cap HeldHeads = {} /\ AvailHeads \cap UsedHeads = {}
        /\ HeldHeads \cap UsedHeads = {}
    BY Zenon DEF IInv, Stages
  <2> QED  BY <1>3, <1>4, <1>5, <2>1, Zenon
<1>8. \A h \in StoreHeads' \cup AvailHeads' \cup HeldHeads' \cup UsedHeads' :
        drv'.slots[h] \in Submitted'
  BY <1>3, <1>4, <1>5, HeadFacts, Zenon
<1>9. \A h \in StoreHeads' \cup AvailHeads' \cup HeldHeads' :
        Described(SegmentsAt(drv, drv.slots[h]))'
  <2> SUFFICES ASSUME NEW h \in StoreHeads \cup AvailHeads \cup HeldHeads
               PROVE  Described(SegmentsAt(drv, drv.slots[h]))'
    BY <1>3, <1>4, Zenon
  <2>1. Described(SegmentsAt(drv, drv.slots[h]))
    BY Zenon DEF IInv, Stages
  <2> QED  BY <2>1, Zenon DEF Described
<1>10. \A o \in Unanswered' :
         SegmentsAt(dev', o) = SegmentsAt(drv', drv'.slots[HeadOf(SegmentsAt(dev', o))])
  BY DEF IInv, Stages
<1> QED  BY <1>6, <1>7, <1>8, <1>9, <1>10, Zenon DEF Stages

(* A step of the device does not concern what the invariant says of the    *)
(* driver, as long as the answer it is reading stays announced.            *)
LEMMA DeviceKeepsDriver ==
  ASSUME IInv, UNCHANGED <<drv, avail>>, drv.at = "read" => drv.consumed # dev'.produced
  PROVE  DriverState' /\ Books(drv)' /\ Submitted' = Submitted
<1>1. DriverState /\ Books(drv)
  BY Zenon DEF IInv
<1> USE <1>1
<1>2. Books(drv)'
  BY Zenon DEF Books, Busy, SegmentsAt
<1>3. Submitted' = Submitted
  BY Zenon DEF Submitted
<1> USE <1>3
<1>4. DriverState'
  BY Zenon DEF DriverState, SegmentsAt
<1> QED  BY <1>2, <1>4, Zenon

(* A step of the device that only changes where its call stands.           *)
LEMMA DeviceMoves ==
  ASSUME IInv, UNCHANGED <<drv, desc, avail>>,
         dev' \in Endpoints(DeviceChains),
         dev'.produced = dev.produced, dev'.consumed = dev.consumed,
         dev'.owned = dev.owned, dev'.slots = dev.slots,
         dev'.descriptor_owner = dev.descriptor_owner, dev'.chains = dev.chains,
         dev'.last_taken = dev.last_taken,
         used' \in [idx : Indices, ring : [Heads -> [head : Heads, length : Lengths]]],
         used'.idx = used.idx, \A s \in UsedSlots : used'.ring[s] = used.ring[s],
         dev'.at = "read" => dev'.chain \in DeviceChains \ Busy(dev) /\ dev.consumed # drv.produced,
         dev'.at = "store" =>
           /\ dev'.chain \in Busy(dev)
           /\ used'.ring[Slot(dev.produced)] =
                [head |-> HeadOf(SegmentsAt(dev, dev'.chain)),
                 length |-> dev.chains[dev'.chain].written],
         dev'.at \in {"event", "published"} <=> dev.at \in {"event", "published"},
         dev'.at \in {"event", "published"} => dev'.chain = dev.chain,
         dev'.at = "published" => dev'.faulted,
         dev'.faulted => "device" \in injected',
         injected \subseteq injected', injected' \subseteq {"driver", "device"}
  PROVE  IInv' /\ DeviceStill
<1>1. TypeOK' /\ NoSpuriousFault'
  BY Zenon DEF IInv, TypeOK, NoSpuriousFault
<1>2. /\ Books(dev)' /\ Busy(dev') = Busy(dev)
      /\ \A o : SegmentsAt(dev', o) = SegmentsAt(dev, o)
  BY BooksOfFields DEF IInv
<1>3. Unanswered' = Unanswered
  BY DEF Unanswered
<1> USE <1>2, <1>3
<1>4. DeviceState'
  <2>1. DeviceState
    BY Zenon DEF IInv
  <2> USE <2>1
  <2>2. dev'.at \in {"store", "event", "published"} => dev'.chain \in Busy(dev)
    BY Zenon DEF DeviceState
  <2> QED  BY <2>2 DEF DeviceState
<1>5. DriverState' /\ Books(drv)' /\ Submitted' = Submitted
  BY DeviceKeepsDriver, Zenon DEF IInv, DriverState
<1> USE <1>5
<1>6. Counts'
  BY Zenon DEF IInv, Counts
<1>7. Stages'
  BY DeviceStages, Zenon
<1> QED  BY <1>1, <1>4, <1>6, <1>7, Zenon DEF IInv, DeviceStill

(* When the device is not in the second half of a completion, it holds     *)
(* exactly the requests between its two counters.                          *)
LEMMA HeldExactly ==
  ASSUME IInv, dev.at \notin {"event", "published"}
  PROVE  /\ Unanswered = Busy(dev)
         /\ dev.owned = Distance(dev.produced, dev.consumed)
<1> USE Facts
<1>1. Busy(dev) \subseteq Unanswered
  BY EndpointFacts DEF IInv, DeviceState, Unanswered, Busy
<1>2. dev.owned = Distance(dev.produced, dev.consumed)
  BY Spaces DEF IInv, Counts
<1> QED  BY <1>1, <1>2, Zenon

(* The driver announces no more than fits: no check of take_available      *)
(* finds anything wrong.                                                   *)
LEMMA TakeAvailableStep ==
  ASSUME IInv, NEW o \in DeviceChains, TakeAvailable(o)
  PROVE  IInv' /\ DeviceStill
<1> USE Facts
<1>0. /\ dev \in Endpoints(DeviceChains) /\ avail.idx = drv.produced
      /\ dev.at = "idle" /\ dev.chains[o].state = "FREE"
  BY Zenon DEF IInv, Counts, TakeAvailable, MayCall
<1> USE <1>0
<1>1. /\ ~(Distance(dev.consumed, avail.idx) > MaxOutstanding)
      /\ ~(dev.owned + Distance(dev.consumed, avail.idx) > MaxOutstanding)
  BY Spaces, HeldExactly, Sizes
<1>2. /\ dev' = [dev EXCEPT !.at = "read", !.chain = o]
      /\ Distance(dev.consumed, drv.produced) # 0
      /\ UNCHANGED <<drv, desc, avail, used, injected>>
  BY <1>1, Zenon DEF TakeAvailable, Goto
<1> USE <1>2
<1>3. /\ dev' \in Endpoints(DeviceChains)
      /\ dev'.produced = dev.produced /\ dev'.consumed = dev.consumed
      /\ dev'.owned = dev.owned /\ dev'.slots = dev.slots
      /\ dev'.descriptor_owner = dev.descriptor_owner /\ dev'.chains = dev.chains
      /\ dev'.last_taken = dev.last_taken
      /\ dev'.at = "read" /\ dev'.chain = o /\ dev'.faulted = dev.faulted
  BY Zenon DEF Endpoints, Steps
<1>4. dev.consumed # drv.produced
  BY Distances, Zenon
<1>5. o \notin Busy(dev)
  BY ChainFacts, Zenon
<1> USE <1>3
<1>6. dev'.faulted => "device" \in injected'
  BY Zenon DEF IInv, NoSpuriousFault
<1>7. injected \subseteq injected' /\ injected' \subseteq {"driver", "device"}
  BY Zenon DEF IInv, TypeOK
<1>8. /\ used' \in [idx : Indices, ring : [Heads -> [head : Heads, length : Lengths]]]
      /\ used'.idx = used.idx /\ used'.ring = used.ring
  BY Zenon
<1> QED  BY <1>4, <1>5, <1>6, <1>7, <1>8, DeviceMoves, Zenon

(* complete: the checks and the ring entry.                                *)
LEMMA CompleteStep ==
  ASSUME IInv, NEW o \in DeviceChains, Complete(o)
  PROVE  IInv' /\ DeviceStill
<1> DEFINE entry == [head |-> HeadOf(SegmentsAt(dev, o)), length |-> dev.chains[o].written]
<1> USE Facts
<1>0. /\ dev \in Endpoints(DeviceChains) /\ Books(dev)
      /\ dev.at = "idle" /\ dev.chains[o].state = "ACCEPTED"
      /\ dev' = [dev EXCEPT !.at = "store", !.chain = o]
      /\ used' = [used EXCEPT !.ring[Slot(dev.produced)] = entry]
      /\ UNCHANGED <<drv, desc, avail, injected>>
  BY Zenon DEF IInv, Complete, MayCall, Owned, Goto, SegmentsAt
<1> USE <1>0
<1>1. o \in Busy(dev) /\ o \in Unanswered
  BY ChainFacts, Zenon DEF Unanswered
<1>2. /\ dev' \in Endpoints(DeviceChains)
      /\ dev'.produced = dev.produced /\ dev'.consumed = dev.consumed
      /\ dev'.owned = dev.owned /\ dev'.slots = dev.slots
      /\ dev'.descriptor_owner = dev.descriptor_owner /\ dev'.chains = dev.chains
      /\ dev'.last_taken = dev.last_taken
      /\ dev'.at = "store" /\ dev'.chain = o /\ dev'.faulted = dev.faulted
  BY Zenon DEF Endpoints, Steps
<1> USE <1>1, Spaces
<1>3. Distance(drv.consumed, dev.produced) < QueueSize
  BY HeldCounted, Sizes
<1>4. Slot(dev.produced) \in Heads /\ Slot(dev.produced) \notin UsedSlots
  BY <1>3, Windows, Zenon DEF UsedSlots
<1>5. entry \in [head : Heads, length : Lengths]
  <2>1. HeadOf(SegmentsAt(dev, o)) \in Heads
    BY BusyFacts, Zenon
  <2>2. dev.chains[o].written \in Lengths
    BY ChainFacts, Zenon
  <2> QED  BY <2>1, <2>2, Zenon
<1> HIDE DEF entry
<1> USE <1>4
<1>6. /\ used' \in [idx : Indices, ring : [Heads -> [head : Heads, length : Lengths]]]
      /\ used'.idx = used.idx /\ used'.ring = [used.ring EXCEPT ![Slot(dev.produced)] = entry]
  BY <1>5, Zenon
<1> USE <1>6
<1>7. /\ \A s \in UsedSlots : used'.ring[s] = used.ring[s]
      /\ used'.ring[Slot(dev.produced)] = entry
  OBVIOUS
<1> USE <1>2
<1>8. dev'.faulted => "device" \in injected'
  BY Zenon DEF IInv, NoSpuriousFault
<1>9. injected \subseteq injected' /\ injected' \subseteq {"driver", "device"}
  BY Zenon DEF IInv, TypeOK
<1> QED  BY <1>7, <1>8, <1>9, DeviceMoves DEF entry

(* A failure of the device's memory, at any point of its calls.            *)
LEMMA DeviceIOStep ==
  ASSUME IInv, DeviceIO
  PROVE  IInv' /\ DeviceStill
<1> USE Facts
<1>0. /\ dev \in Endpoints(DeviceChains) /\ injected' = injected \cup {"device"}
      /\ UNCHANGED <<drv, desc, avail, used>> /\ DeviceState
  BY Zenon DEF IInv, DeviceIO
<1> USE <1>0
<1>1. "device" \in injected' /\ injected \subseteq injected' /\ injected' \subseteq {"driver", "device"}
  BY Zenon DEF IInv, TypeOK
<1>2. /\ used' \in [idx : Indices, ring : [Heads -> [head : Heads, length : Lengths]]]
      /\ used'.idx = used.idx /\ used'.ring = used.ring
  BY Zenon
<1> USE <1>1, <1>2
<1>3. CASE dev' = [dev EXCEPT !.faulted = TRUE]
  <2>1. /\ dev' \in Endpoints(DeviceChains)
        /\ dev'.produced = dev.produced /\ dev'.consumed = dev.consumed
        /\ dev'.owned = dev.owned /\ dev'.slots = dev.slots
        /\ dev'.descriptor_owner = dev.descriptor_owner /\ dev'.chains = dev.chains
        /\ dev'.last_taken = dev.last_taken
        /\ dev'.at = dev.at /\ dev'.chain = dev.chain /\ dev'.faulted = TRUE
    BY <1>3, Zenon DEF Endpoints
  <2> QED  BY <2>1, DeviceMoves, Zenon DEF DeviceState
<1>4. CASE dev' = Fault(dev) /\ (dev.at \in {"store", "read"} \/ MayCall(dev))
  <2> USE <1>4
  <2>1. /\ dev' \in Endpoints(DeviceChains)
        /\ dev'.produced = dev.produced /\ dev'.consumed = dev.consumed
        /\ dev'.owned = dev.owned /\ dev'.slots = dev.slots
        /\ dev'.descriptor_owner = dev.descriptor_owner /\ dev'.chains = dev.chains
        /\ dev'.last_taken = dev.last_taken /\ dev'.at = "idle"
    BY Zenon DEF Fault, Endpoints, Steps
  <2>2. dev.at \notin {"event", "published"}
    BY Zenon DEF MayCall
  <2> QED  BY <2>1, <2>2, DeviceMoves, Zenon
<1>5. CASE dev' = [dev EXCEPT !.faulted = TRUE, !.at = "published"] /\ dev.at = "event"
  <2> USE <1>5
  <2>1. /\ dev' \in Endpoints(DeviceChains)
        /\ dev'.produced = dev.produced /\ dev'.consumed = dev.consumed
        /\ dev'.owned = dev.owned /\ dev'.slots = dev.slots
        /\ dev'.descriptor_owner = dev.descriptor_owner /\ dev'.chains = dev.chains
        /\ dev'.last_taken = dev.last_taken
        /\ dev'.at = "published" /\ dev'.chain = dev.chain /\ dev'.faulted = TRUE
    BY Zenon DEF Endpoints, Steps
  <2> QED  BY <2>1, DeviceMoves, Zenon
<1> QED  BY <1>3, <1>4, <1>5, Zenon DEF DeviceIO, Disturbed

(* A request that is announced can be read back and taken.                 *)
LEMMA RequestReadable ==
  ASSUME IInv, dev.at = "read"
  PROVE  LET head == avail.ring[Slot(dev.consumed)]
             segments == SegmentsAt(drv, drv.slots[head])
         IN  /\ dev.consumed # drv.produced /\ Slot(dev.consumed) \in AvailSlots
             /\ Slot(dev.consumed) \in Heads /\ head \in AvailHeads
             /\ ReadChain(head) = segments
             /\ segments \in Lists(Segments) /\ Len(segments) # 0 /\ HeadOf(segments) = head
             /\ dev.slots[head] = None /\ dev.descriptor_owner[head] = 0
             /\ ValidChain(dev, segments) /\ dev.owned # MaxOutstanding
<1> DEFINE head == avail.ring[Slot(dev.consumed)]
           request == drv.slots[head]
           segments == SegmentsAt(drv, request)
<1>1. dev.consumed # drv.produced
  BY Zenon DEF IInv, DeviceState
<1>2. Distance(dev.consumed, drv.produced) <= QueueSize
  BY Spaces, Sizes
<1>3. Slot(dev.consumed) \in AvailSlots /\ Slot(dev.consumed) \in Heads
  BY <1>1, <1>2, Facts, WindowShrinks DEF AvailSlots
<1>4. head \in AvailHeads
  BY <1>3, Zenon DEF AvailHeads
<1>5. /\ head \in Heads /\ request \in Submitted /\ request \in Busy(drv)
      /\ request \in DriverChains /\ HeadOf(segments) = head
  BY <1>4, HeadFacts, Zenon
<1>6. Described(segments)
  BY <1>4, Zenon DEF IInv, Stages
<1> HIDE DEF head, request
<1>7. /\ segments \in Lists(Segments) /\ Len(segments) \in 1 .. MaxChain
      /\ Cardinality(Descriptors(segments)) = Len(segments)
      /\ head \in Descriptors(segments) /\ Descriptors(segments) \subseteq Heads
  BY <1>5, Facts, BusyFacts DEF IInv
<1>8. Len(segments) # 0
  BY <1>7, Sizes
<1>9. ReadChain(head) = segments
  <2>1. FiniteSetFacts
    BY Zenon DEF IInv, Books
  <2> QED  BY <1>5, <1>6, <1>7, <1>8, <2>1, ReadsBack, Zenon
<1>10. Unanswered = Busy(dev) /\ dev.owned = Distance(dev.produced, dev.consumed)
  BY HeldExactly, Zenon
<1>11. dev.owned # MaxOutstanding
  <2>1. Distance(dev.consumed, drv.produced) # 0
    BY <1>1, Facts, Distances, Zenon
  <2> QED  BY <1>10, <2>1, Spaces, Sizes
(* No chain that the device holds has the same request behind it.          *)
<1>12. ASSUME NEW p \in Busy(dev)
       PROVE  LET held == drv.slots[HeadOf(SegmentsAt(dev, p))] IN
              /\ SegmentsAt(dev, p) = SegmentsAt(drv, held)
              /\ held \in Busy(drv) /\ held \in DriverChains /\ held # request
  <2> DEFINE h == HeadOf(SegmentsAt(dev, p))
  <2>1. h \in HeldHeads
    BY <1>10, Zenon DEF HeldHeads
  <2>2. /\ drv.slots[h] \in Busy(drv) /\ drv.slots[h] \in DriverChains
        /\ HeadOf(SegmentsAt(drv, drv.slots[h])) = h
    BY <2>1, HeadFacts, Zenon
  <2>3. h # head
    BY <1>4, <2>1, Zenon DEF IInv, Stages
  <2> USE <2>2
  <2>4. drv.slots[h] # request
    BY <1>5, <2>3, Zenon
  <2>5. SegmentsAt(dev, p) = SegmentsAt(drv, drv.slots[h])
    BY <1>10, Zenon DEF IInv, Stages
  <2> QED  BY <2>4, <2>5, Zenon
<1>13. \A h \in Descriptors(segments) : dev.descriptor_owner[h] = 0
  <2> SUFFICES ASSUME NEW h \in Descriptors(segments), dev.descriptor_owner[h] # 0
               PROVE  FALSE
    BY Zenon
  <2>1. h \in Heads
    BY <1>7, Zenon
  <2>2. PICK p \in Busy(dev) : h \in Descriptors(SegmentsAt(dev, p))
    BY <2>1, Zenon DEF IInv, Books
  <2> DEFINE held == drv.slots[HeadOf(SegmentsAt(dev, p))]
  <2>3. held \in Busy(drv) /\ held # request /\ h \in Descriptors(SegmentsAt(drv, held))
    BY <1>12, <2>2, Zenon
  <2> HIDE DEF held
  <2> USE <2>3
  <2>4. Descriptors(SegmentsAt(drv, held)) \cap Descriptors(SegmentsAt(drv, request)) # {}
    BY Zenon
  <2> QED  BY <1>5, <2>4, Facts, BooksDisjoint, Zenon DEF IInv
<1>14. dev.slots[head] = None
  <2> SUFFICES ASSUME dev.slots[head] # None PROVE FALSE
    BY Zenon
  <2>1. dev.slots[head] \in Busy(dev) /\ HeadOf(SegmentsAt(dev, dev.slots[head])) = head
    BY <1>5, Zenon DEF IInv, Books
  <2> QED  BY <1>12, <2>1, Zenon DEF request
<1>15. Payload(segments) \cap UNION {Payload(dev.chains[o].segments) : o \in Held(dev)} = {}
  <2>1. \A p \in Busy(drv) : \A r \in Payload(SegmentsAt(drv, p)) : r = p
    BY Facts, EndpointFacts DEF IInv, DriverState, Payload, Busy
  <2>2. ASSUME NEW o \in Held(dev), NEW r \in Payload(SegmentsAt(dev, o))
        PROVE  r # request
    <3>1. o \in Busy(dev)
      BY Facts, EndpointFacts DEF Held, IInv, Books
    <3> QED  BY <1>12, <2>1, <2>2, <3>1, Zenon
  <2>3. \A r \in Payload(segments) : r = request
    BY <1>5, <2>1, Zenon
  <2> QED  BY <2>2, <2>3, Zenon DEF SegmentsAt
<1> USE <1>13, <1>14
<1>16. ValidChain(dev, segments)
  BY <1>5, <1>7, <1>15, Zenon DEF ValidChain
<1> QED  BY <1>1, <1>3, <1>4, <1>5, <1>7, <1>8, <1>9, <1>11, <1>16, Zenon DEF head, request

(* take_available: the entry, the walk through the table and the claim.    *)
LEMMA TakeAvailableReadStep ==
  ASSUME IInv, TakeAvailableRead
  PROVE  IInv' /\ Accepts(dev.chain)
<1> DEFINE c == dev.consumed
           head == avail.ring[Slot(c)]
           segments == SegmentsAt(drv, drv.slots[head])
           o == dev.chain
           new == Claim(dev, o, segments, "ACCEPTED")
<1>0. /\ dev.at = "read" /\ dev \in Endpoints(DeviceChains) /\ Books(dev)
      /\ None \notin DeviceChains /\ UNCHANGED <<drv, desc, avail, used, injected>>
  BY Facts, Zenon DEF IInv, TakeAvailableRead
<1>1. /\ c # drv.produced /\ Slot(c) \in AvailSlots /\ Slot(c) \in Heads
      /\ head \in AvailHeads /\ ReadChain(head) = segments
      /\ segments \in Lists(Segments) /\ Len(segments) # 0 /\ HeadOf(segments) = head
      /\ dev.slots[head] = None /\ dev.descriptor_owner[head] = 0
      /\ ValidChain(dev, segments) /\ dev.owned # MaxOutstanding
  BY <1>0, RequestReadable, Zenon
<1>2. dev' = [[new EXCEPT !.consumed = Successor(new.consumed), !.last_taken = o]
                EXCEPT !.at = "idle", !.chain = None]
  BY <1>1, Zenon DEF TakeAvailableRead, Return, Goto
<1>3. /\ c \in Indices /\ Successor(c) \in Indices /\ Predecessor(Successor(c)) = c
      /\ dev.produced \in Indices /\ drv.produced \in Indices
  BY Facts, Neighbours, Zenon
<1>4. o \in DeviceChains /\ o \notin Busy(dev) /\ dev.chains[o].state = "FREE"
  BY <1>0, ChainFacts, Zenon DEF IInv, DeviceState
<1> HIDE DEF head, segments
<1>5. /\ new \in Endpoints(DeviceChains) /\ Books(new)
      /\ Busy(new) = Busy(dev) \cup {o}
  BY <1>0, <1>1, <1>4, ClaimBooks
<1>6. /\ new.produced = dev.produced /\ new.consumed = c /\ new.faulted = dev.faulted
      /\ new.owned = dev.owned + 1
      /\ new.chains = [dev.chains EXCEPT ![o] =
           [state |-> "ACCEPTED", segments |-> segments, written |-> 0, used_length |-> 0]]
  BY <1>0, Zenon DEF Claim, Endpoints
<1> HIDE DEF new, c, o
<1>7. /\ dev' \in Endpoints(DeviceChains)
      /\ dev'.produced = new.produced /\ dev'.consumed = Successor(c)
      /\ dev'.owned = new.owned /\ dev'.slots = new.slots
      /\ dev'.descriptor_owner = new.descriptor_owner /\ dev'.chains = new.chains
      /\ dev'.last_taken = o /\ dev'.at = "idle" /\ dev'.faulted = new.faulted
  BY <1>2, <1>3, <1>4, <1>5, <1>6, Zenon DEF Endpoints, Steps
<1>8. Books(dev)' /\ Busy(dev') = Busy(dev) \cup {o}
  BY <1>5, <1>7, BooksOfFields, Zenon
<1>9. dev.chains \in [DeviceChains -> Chains]
  BY <1>0, EndpointFacts, Zenon
<1>10. /\ dev'.chains[o].state = "ACCEPTED" /\ SegmentsAt(dev', o) = segments
       /\ dev'.chains[o].written = 0
       /\ \A p \in DeviceChains \ {o} : dev'.chains[p] = dev.chains[p]
  BY <1>4, <1>6, <1>7, <1>9 DEF SegmentsAt
<1>11. /\ Unanswered = Busy(dev) /\ dev.owned = Distance(dev.produced, c)
  BY <1>0, HeldExactly, Zenon DEF c
<1>12. Unanswered' = Unanswered \cup {o} /\ o \notin Unanswered
  BY <1>0, <1>4, <1>7, <1>10, <1>11 DEF Unanswered
<1>13. TypeOK' /\ NoSpuriousFault'
  BY <1>0, <1>6, <1>7, Zenon DEF IInv, TypeOK, NoSpuriousFault
<1>14. DeviceState'
  <2>1. \A p \in DeviceChains : dev'.chains[p].state \in {"FREE", "ACCEPTED"}
    BY <1>10, Zenon DEF IInv, DeviceState
  <2>2. avail'.ring[Slot(Predecessor(dev'.consumed))] = HeadOf(SegmentsAt(dev', dev'.last_taken))
    BY <1>0, <1>1, <1>3, <1>7, <1>10, Zenon DEF head
  <2> QED  BY <1>7, <1>8, <2>1, <2>2, Zenon DEF DeviceState
<1>15. DriverState' /\ Books(drv)' /\ Submitted' = Submitted
  BY <1>0, <1>6, <1>7, DeviceKeepsDriver, Zenon DEF IInv, DriverState
<1>16. /\ Distance(dev.produced, c) \in Nat /\ Distance(c, drv.produced) \in Nat
       /\ Distance(drv.consumed, dev.produced) \in Nat
       /\ Distance(drv.consumed, drv.produced) \in Nat
       /\ Distance(dev.produced, c) + Distance(c, drv.produced) <= QueueSize
       /\ Distance(c, drv.produced) # 0 /\ Distance(c, drv.produced) <= QueueSize
       /\ QueueSize \in Nat /\ IndexModulus \in Nat /\ QueueSize < IndexModulus
  <2>1. Distance(c, drv.produced) # 0
    BY <1>1, <1>3, Distances
  <2> QED  BY <2>1, Spaces, Sizes DEF c
<1>17. /\ Distance(Successor(c), drv.produced) = Distance(c, drv.produced) - 1
       /\ Distance(dev.produced, Successor(c)) = Distance(dev.produced, c) + 1
  <2>1. Distance(dev.produced, c) + 1 < IndexModulus
    BY <1>16
  <2> QED  BY <1>1, <1>3, <2>1, Distances
<1>18. Counts'
  <2>1. Counts
    BY Zenon DEF IInv
  <2> QED  BY <1>0, <1>6, <1>7, <1>11, <1>15, <1>16, <1>17, <2>1 DEF Counts, c
<1>19. /\ AvailSlots = AvailSlots' \cup {Slot(c)} /\ Slot(c) \notin AvailSlots'
       /\ UsedSlots' = UsedSlots
  BY <1>0, <1>1, <1>3, <1>6, <1>7, <1>16, WindowShrinks DEF AvailSlots, UsedSlots, c
<1>20. /\ StoreHeads' = StoreHeads /\ UsedHeads' = UsedHeads
       /\ \A p : SegmentsAt(drv', p) = SegmentsAt(drv, p)
  BY <1>0, <1>19, Zenon DEF StoreHeads, UsedHeads, SegmentsAt
<1>21. AvailHeads' \subseteq AvailHeads /\ head \notin AvailHeads' /\ head \in AvailHeads
  <2>1. \A s \in AvailSlots' : avail.ring[s] # avail.ring[Slot(c)]
    BY <1>1, <1>19, Zenon DEF IInv, Stages
  <2> QED  BY <1>0, <1>1, <1>19, <2>1, Zenon DEF AvailHeads, head
<1>22. HeldHeads' = HeldHeads \cup {head}
  <2>1. \A p \in Unanswered : SegmentsAt(dev', p) = SegmentsAt(dev, p)
    BY <1>10, <1>12, Zenon DEF SegmentsAt, Unanswered
  <2> QED  BY <1>1, <1>10, <1>12, <2>1 DEF HeldHeads
<1>23. Stages'
  <2>1. /\ \A s, t \in AvailSlots' : avail'.ring[s] = avail'.ring[t] => s = t
        /\ \A s, t \in UsedSlots' : used'.ring[s].head = used'.ring[t].head => s = t
    BY <1>0, <1>19, Zenon DEF IInv, Stages
  <2>2. /\ StoreHeads' \cap AvailHeads' = {} /\ StoreHeads' \cap HeldHeads' = {}
        /\ StoreHeads' \cap UsedHeads' = {} /\ AvailHeads' \cap HeldHeads' = {}
        /\ AvailHeads' \cap UsedHeads' = {} /\ HeldHeads' \cap UsedHeads' = {}
    BY <1>20, <1>21, <1>22 DEF IInv, Stages
  <2>3. \A h \in StoreHeads' \cup AvailHeads' \cup HeldHeads' \cup UsedHeads' :
          drv'.slots[h] \in Submitted'
    BY <1>0, <1>15, <1>20, <1>21, <1>22, HeadFacts, Zenon
  <2>4. \A h \in StoreHeads' \cup AvailHeads' \cup HeldHeads' :
          Described(SegmentsAt(drv, drv.slots[h]))'
    <3> SUFFICES ASSUME NEW h \in StoreHeads \cup AvailHeads \cup HeldHeads
                 PROVE  Described(SegmentsAt(drv, drv.slots[h]))'
      BY <1>20, <1>21, <1>22, Zenon
    <3>1. Described(SegmentsAt(drv, drv.slots[h]))
      BY Zenon DEF IInv, Stages
    <3> QED  BY <1>0, <1>20, <3>1, Zenon DEF Described
  <2>5. \A p \in Unanswered' :
          SegmentsAt(dev', p) = SegmentsAt(drv', drv'.slots[HeadOf(SegmentsAt(dev', p))])
    <3> SUFFICES ASSUME NEW p \in Unanswered'
                 PROVE  SegmentsAt(dev', p)
                          = SegmentsAt(drv', drv'.slots[HeadOf(SegmentsAt(dev', p))])
      BY Zenon
    <3>1. CASE p = o
      BY <1>0, <1>1, <1>10, <1>20, <3>1, Zenon DEF segments
    <3>2. CASE p # o
      <4>1. p \in Unanswered /\ SegmentsAt(dev', p) = SegmentsAt(dev, p)
        BY <1>10, <1>12, <3>2, ZenonT(30) DEF SegmentsAt, Unanswered
      <4> QED  BY <1>0, <1>20, <4>1, Zenon DEF IInv, Stages
    <3> QED  BY <3>1, <3>2, Zenon
  <2> QED  BY <2>1, <2>2, <2>3, <2>4, <2>5, Zenon DEF Stages
<1>24. Accepts(o)
  <2>1. \A p \in Unanswered : dev'.chains[p] = dev.chains[p]
    BY <1>10, <1>12, Zenon DEF Unanswered
  <2> QED  BY <1>0, <1>1, <1>6, <1>7, <1>10, <1>12, <2>1, Zenon DEF Accepts, c, head
<1> QED  BY <1>8, <1>13, <1>14, <1>15, <1>18, <1>23, <1>24, Zenon DEF IInv, o

(* move_accepted: one chain object takes over from another.                *)
LEMMA MoveAcceptedStep ==
  ASSUME IInv, NEW source \in DeviceChains, NEW destination \in DeviceChains,
         MoveAccepted(source, destination)
  PROVE  IInv' /\ Moves(source, destination)
<1> DEFINE last == IF dev.last_taken = source THEN destination ELSE dev.last_taken
<1>0. /\ dev \in Endpoints(DeviceChains) /\ Books(dev) /\ None \notin DeviceChains
      /\ dev.at = "idle" /\ dev.chains[source].state = "ACCEPTED"
      /\ dev.chains[destination].state = "FREE"
      /\ UNCHANGED <<drv, desc, avail, used, injected>>
  BY Facts, Zenon DEF IInv, MoveAccepted, MayCall, Owned
<1> USE <1>0
<1>1. source \in Busy(dev) /\ destination \in DeviceChains \ Busy(dev) /\ source # destination
  BY ChainFacts, Zenon
<1> USE <1>1
<1>2. HeadOf(SegmentsAt(dev, source)) \in Heads /\ dev.chains[source] \in Chains
  BY BusyFacts, ChainFacts
<1>3. dev' = [dev EXCEPT !.chains[destination] = dev.chains[source],
                         !.chains[source] = FreeChain,
                         !.slots[HeadOf(SegmentsAt(dev, source))] = destination,
                         !.last_taken = last]
  BY Zenon DEF MoveAccepted, SegmentsAt
<1>4. last \in DeviceChains \cup {None}
  BY EndpointFacts, Zenon
<1> HIDE DEF last
<1>5. FreeChain \in Chains
  <2> USE Sizes
  <2>1. <<>> \in Lists(Segments)
    <3>1. 0 \in 0 .. MaxChain /\ <<>> \in [1 .. 0 -> Segments]
      OBVIOUS
    <3> QED  BY <3>1, Zenon DEF Lists
  <2> QED  BY <2>1 DEF FreeChain, Chains, Lengths
<1>6. dev' \in Endpoints(DeviceChains)
  BY <1>2, <1>3, <1>4, <1>5, Zenon DEF Endpoints
<1>7. /\ dev'.produced = dev.produced /\ dev'.consumed = dev.consumed
      /\ dev'.owned = dev.owned /\ dev'.descriptor_owner = dev.descriptor_owner
      /\ dev'.last_taken = last /\ dev'.at = dev.at /\ dev'.faulted = dev.faulted
  BY <1>3, Zenon DEF Endpoints
<1>8. \A h \in Heads : dev'.slots[h] =
        IF h = HeadOf(SegmentsAt(dev, source)) THEN destination ELSE dev.slots[h]
  <2>1. dev'.slots = [dev.slots EXCEPT ![HeadOf(SegmentsAt(dev, source))] = destination]
    BY <1>3, Zenon DEF Endpoints
  <2> QED  BY <2>1, EndpointFacts, Zenon
<1>9. /\ DOMAIN dev'.chains = DeviceChains /\ dev'.chains[source] = FreeChain
      /\ dev'.chains[destination] = dev.chains[source]
      /\ \A o \in DeviceChains \ {source, destination} : dev'.chains[o] = dev.chains[o]
  <2>1. dev'.chains = [[dev.chains EXCEPT ![destination] = dev.chains[source]]
                         EXCEPT ![source] = FreeChain]
    BY <1>3, Zenon DEF Endpoints
  <2>2. dev.chains \in [DeviceChains -> Chains]
    BY EndpointFacts, Zenon
  <2> QED  BY <2>1, <2>2, Zenon
<1> USE <1>7, <1>9
<1>10. /\ Books(dev')
       /\ Busy(dev') = (Busy(dev) \ {source}) \cup {destination}
       /\ dev'.chains[destination] = dev.chains[source]
       /\ \A o \in Busy(dev) \ {source} : dev'.chains[o] = dev.chains[o]
  BY <1>8, MoveBooks
<1>11. \A o \in DeviceChains : dev'.chains[o].state \in {"FREE", "ACCEPTED"}
  BY DEF IInv, DeviceState, FreeChain
<1> USE <1>6, <1>11
<1>12. /\ Unanswered = Busy(dev) /\ Unanswered' = Busy(dev')
  <2>1. Unanswered = Busy(dev)
    BY HeldExactly, Zenon
  <2>2. DOMAIN dev'.chains = DeviceChains
    BY EndpointFacts, Zenon
  <2>3. Unanswered' = Busy(dev')
    BY <2>2, Zenon DEF Unanswered, Busy
  <2> QED  BY <2>1, <2>3, Zenon
<1>13. TypeOK' /\ NoSpuriousFault'
  BY Zenon DEF IInv, TypeOK, NoSpuriousFault
<1> USE <1>10, <1>12
<1>14. DeviceState'
  <2>1. dev'.last_taken # None =>
          /\ dev'.last_taken \in Busy(dev')
          /\ avail'.ring[Slot(Predecessor(dev'.consumed))]
               = HeadOf(SegmentsAt(dev', dev'.last_taken))
    <3> SUFFICES ASSUME last # None
                 PROVE  /\ last \in Busy(dev')
                        /\ avail.ring[Slot(Predecessor(dev.consumed))]
                             = HeadOf(SegmentsAt(dev', last))
      BY Zenon
    <3>1. /\ dev.last_taken # None /\ dev.last_taken \in Busy(dev)
          /\ avail.ring[Slot(Predecessor(dev.consumed))]
               = HeadOf(SegmentsAt(dev, dev.last_taken))
      BY Zenon DEF IInv, DeviceState, last
    <3> USE <3>1
    <3>2. SegmentsAt(dev', last) = SegmentsAt(dev, dev.last_taken)
      BY Zenon DEF SegmentsAt, last
    <3>3. last \in Busy(dev')
      BY Zenon DEF last
    <3> QED  BY <3>2, <3>3, Zenon
  <2> QED  BY <2>1, Zenon DEF DeviceState
<1>15. DriverState' /\ Books(drv)' /\ Submitted' = Submitted
  BY DeviceKeepsDriver, Zenon DEF IInv, DriverState
<1> USE <1>15
<1>16. Counts'
  BY Zenon DEF IInv, Counts
<1>17. \A o \in Unanswered' : \E p \in Unanswered : SegmentsAt(dev', o) = SegmentsAt(dev, p)
  BY Zenon DEF SegmentsAt
<1>18. Stages'
  BY <1>17, DeviceStages, Zenon
<1>19. Moves(source, destination)
  BY Zenon DEF Moves
<1> QED  BY <1>13, <1>14, <1>16, <1>18, <1>19, Zenon DEF IInv

(* write: the answer grows by what was written.                            *)
LEMMA WriteResponseStep ==
  ASSUME IInv, NEW o \in DeviceChains, NEW size \in 1 .. Capacity, WriteResponse(o, size)
  PROVE  IInv' /\ Writes(o, size)
<1> DEFINE n == dev.chains[o].written + size
<1>0. /\ dev \in Endpoints(DeviceChains) /\ Books(dev)
      /\ dev.at = "idle" /\ dev.chains[o].state = "ACCEPTED"
      /\ size <= Capacity - dev.chains[o].written
      /\ UNCHANGED <<drv, desc, avail, used, injected>>
  BY Facts, Zenon DEF IInv, WriteResponse, MayCall, Owned
<1> USE <1>0
<1>1. dev.chains[o] \in Chains /\ dev.chains[o].written \in Lengths
      /\ dev.chains \in [DeviceChains -> Chains] /\ DOMAIN dev.chains = DeviceChains
  BY ChainFacts, EndpointFacts, Zenon
<1> USE <1>1
<1>2. n \in Lengths
  BY Sizes DEF Lengths
<1>3. dev' = [dev EXCEPT !.chains[o].written = n]
  BY Zenon DEF WriteResponse
<1> HIDE DEF n
<1> USE <1>2
<1>4. /\ dev' \in Endpoints(DeviceChains)
      /\ dev'.produced = dev.produced /\ dev'.consumed = dev.consumed
      /\ dev'.owned = dev.owned /\ dev'.slots = dev.slots
      /\ dev'.descriptor_owner = dev.descriptor_owner
      /\ dev'.last_taken = dev.last_taken
      /\ dev'.at = dev.at /\ dev'.faulted = dev.faulted
      /\ DOMAIN dev'.chains = DeviceChains
      /\ \A p \in DeviceChains : /\ dev'.chains[p].state = dev.chains[p].state
                                 /\ dev'.chains[p].segments = dev.chains[p].segments
      /\ dev'.chains[o].written = n
      /\ \A p \in DeviceChains \ {o} : dev'.chains[p].written = dev.chains[p].written
  <2> DEFINE chain == [dev.chains[o] EXCEPT !.written = n]
  <2>1. /\ chain \in Chains /\ chain.state = dev.chains[o].state
        /\ chain.segments = dev.chains[o].segments /\ chain.written = n
    BY Zenon DEF Chains
  <2>2. dev' = [dev EXCEPT !.chains[o] = chain]
    BY <1>3, Zenon
  <2> HIDE DEF chain
  <2> USE <2>1, <2>2
  <2>3. dev' \in Endpoints(DeviceChains)
    BY Zenon DEF Endpoints
  <2>4. /\ dev'.produced = dev.produced /\ dev'.consumed = dev.consumed
        /\ dev'.owned = dev.owned /\ dev'.slots = dev.slots
        /\ dev'.descriptor_owner = dev.descriptor_owner
        /\ dev'.last_taken = dev.last_taken
        /\ dev'.at = dev.at /\ dev'.faulted = dev.faulted
        /\ dev'.chains = [dev.chains EXCEPT ![o] = chain]
    BY Zenon DEF Endpoints
  <2> QED  BY <2>3, <2>4
<1> USE <1>4
<1>5. /\ Busy(dev') = Busy(dev) /\ Busy(dev) \subseteq DeviceChains
      /\ \A p \in DeviceChains : SegmentsAt(dev', p) = SegmentsAt(dev, p)
  BY Zenon DEF Busy, SegmentsAt
<1> USE <1>5
<1>6. Books(dev)'
  <2>1. \A p \in Busy(dev) : SegmentsAt(dev', p) = SegmentsAt(dev, p)
    BY Zenon
  <2> QED  BY <2>1, BooksOfSegments, Zenon
<1>7. Unanswered' = Unanswered /\ Unanswered \subseteq DeviceChains
  BY Zenon DEF Unanswered
<1>8. TypeOK' /\ NoSpuriousFault'
  BY Zenon DEF IInv, TypeOK, NoSpuriousFault
<1> USE <1>7
<1>9. DeviceState'
  <2>1. DeviceState
    BY Zenon DEF IInv
  <2> QED  BY <2>1, Zenon DEF DeviceState
<1>10. DriverState' /\ Books(drv)' /\ Submitted' = Submitted
  BY DeviceKeepsDriver, Zenon DEF IInv, DriverState
<1> USE <1>10
<1>11. Counts'
  BY Zenon DEF IInv, Counts
<1>12. Stages'
  BY DeviceStages, Zenon
<1>13. Writes(o, size)
  <2>1. o \in Unanswered
    BY Zenon DEF Unanswered
  <2> QED  BY <2>1, Zenon DEF Writes, n
<1> QED  BY <1>6, <1>8, <1>9, <1>11, <1>12, <1>13, Zenon DEF IInv

(* return_available: the chain taken last is dropped and the index steps   *)
(* back.                                                                   *)
LEMMA ReturnAvailableStep ==
  ASSUME IInv, NEW o \in DeviceChains, ReturnAvailable(o)
  PROVE  IInv' /\ Declines(o)
<1> DEFINE c == dev.consumed
           b == Predecessor(c)
           head == HeadOf(SegmentsAt(dev, o))
           new == Drop(dev, o)
<1>0. /\ dev \in Endpoints(DeviceChains) /\ Books(dev) /\ None \notin DeviceChains
      /\ dev.at = "idle" /\ dev.chains[o].state = "ACCEPTED" /\ dev.last_taken = o
      /\ dev' = [new EXCEPT !.consumed = Predecessor(new.consumed)]
      /\ UNCHANGED <<drv, desc, avail, used, injected>>
  BY Facts, Zenon DEF IInv, ReturnAvailable, MayCall, Owned
<1>1. /\ c \in Indices /\ b \in Indices
      /\ dev.produced \in Indices /\ drv.produced \in Indices
  BY Facts, Neighbours, Zenon
<1>2. o \in Busy(dev) /\ o \in Unanswered
  BY <1>0, ChainFacts, Zenon DEF Unanswered
<1>3. /\ new \in Endpoints(DeviceChains) /\ Books(new) /\ Busy(new) = Busy(dev) \ {o}
      /\ \A p \in Busy(new) : SegmentsAt(new, p) = SegmentsAt(dev, p)
  BY <1>0, <1>2, DropBooks
<1>4. /\ new.owned = dev.owned - 1 /\ new.last_taken = None
      /\ new.produced = dev.produced /\ new.consumed = c
      /\ new.faulted = dev.faulted /\ new.at = dev.at
      /\ new.chains = [dev.chains EXCEPT ![o] = FreeChain]
  <2>1. dev \in Endpoints(DeviceChains) /\ dev.last_taken = o /\ o \in DeviceChains
    BY <1>0, Zenon
  <2> QED  BY <2>1, Zenon DEF Drop, Endpoints, c
<1> HIDE DEF new, c, b
<1>5. /\ dev' \in Endpoints(DeviceChains)
      /\ dev'.produced = dev.produced /\ dev'.consumed = b
      /\ dev'.owned = new.owned /\ dev'.slots = new.slots
      /\ dev'.descriptor_owner = new.descriptor_owner /\ dev'.chains = new.chains
      /\ dev'.last_taken = None /\ dev'.at = "idle" /\ dev'.faulted = dev.faulted
  BY <1>0, <1>1, <1>3, <1>4, Zenon DEF Endpoints, b
<1>6. Books(dev)' /\ Busy(dev') = Busy(dev) \ {o}
  BY <1>3, <1>5, BooksOfFields, Zenon
<1>7. dev.chains \in [DeviceChains -> Chains]
  BY <1>0, EndpointFacts, Zenon
<1>8. /\ dev'.chains[o] = FreeChain
      /\ \A p \in DeviceChains \ {o} : dev'.chains[p] = dev.chains[p]
  BY <1>4, <1>5, <1>7, Zenon
<1>9. Unanswered = Busy(dev) /\ dev.owned = Distance(dev.produced, c)
  BY <1>0, HeldExactly, Zenon DEF c
<1>10. Unanswered' = Unanswered \ {o}
  BY <1>0, <1>5, <1>8 DEF Unanswered, FreeChain
<1>11. TypeOK' /\ NoSpuriousFault'
  BY <1>0, <1>5, Zenon DEF IInv, TypeOK, NoSpuriousFault
<1>12. DeviceState'
  <2>1. \A p \in DeviceChains : dev'.chains[p].state \in {"FREE", "ACCEPTED"}
    <3>1. FreeChain.state = "FREE" /\ DeviceState
      BY Zenon DEF IInv, FreeChain
    <3> QED  BY <1>8, <3>1, Zenon DEF DeviceState
  <2> QED  BY <1>5, <2>1, Zenon DEF DeviceState
<1>13. DriverState' /\ Books(drv)' /\ Submitted' = Submitted
  BY <1>0, <1>5, DeviceKeepsDriver, Zenon DEF IInv, DriverState
<1>14. Distance(dev.produced, c) >= 1
  BY <1>2, HeldCounted, Zenon DEF c
<1>15. /\ Distance(dev.produced, c) \in Nat /\ Distance(c, drv.produced) \in Nat
       /\ Distance(drv.consumed, dev.produced) \in Nat
       /\ Distance(drv.consumed, drv.produced) \in Nat
       /\ Distance(c, drv.produced) < QueueSize
       /\ Distance(c, drv.produced) + 1 < IndexModulus
  BY <1>14, Spaces, Sizes DEF c
<1>16. dev.produced # c
  <2>1. Distance(dev.produced, c) # 0
    BY <1>14, <1>15
  <2> QED  BY <1>1, <2>1, Distances, Zenon
<1>17. /\ Distance(b, drv.produced) = Distance(c, drv.produced) + 1
       /\ Distance(dev.produced, b) = Distance(dev.produced, c) - 1
  <2>1. Distance(c, drv.produced) + 1 < IndexModulus
    BY <1>15, Zenon
  <2> QED  BY <1>1, <1>16, <2>1, Distances, Zenon DEF b
<1>18. Counts'
  <2>1. Counts
    BY Zenon DEF IInv
  <2> QED  BY <1>0, <1>4, <1>5, <1>9, <1>13, <1>15, <1>17, <2>1 DEF Counts, c
<1>19. /\ AvailSlots' = AvailSlots \cup {Slot(b)} /\ Slot(b) \notin AvailSlots
       /\ UsedSlots' = UsedSlots
  <2>1. Distance(c, drv.produced) < QueueSize
    BY <1>15, Zenon
  <2> QED  BY <1>0, <1>1, <1>5, <2>1, Windows DEF AvailSlots, UsedSlots, c, b
<1>20. avail.ring[Slot(b)] = head /\ head \in HeldHeads
  BY <1>0, <1>2, Zenon DEF IInv, DeviceState, HeldHeads, b, c
<1>21. /\ StoreHeads' = StoreHeads /\ UsedHeads' = UsedHeads
       /\ \A p : SegmentsAt(drv', p) = SegmentsAt(drv, p)
  BY <1>0, <1>19, Zenon DEF StoreHeads, UsedHeads, SegmentsAt
<1>22. AvailHeads' = AvailHeads \cup {head}
  BY <1>0, <1>19, <1>20, Zenon DEF AvailHeads
<1>23. HeldHeads' \subseteq HeldHeads /\ head \notin HeldHeads'
  <2>1. \A p \in Unanswered' : /\ p \in Unanswered /\ p # o
                               /\ SegmentsAt(dev', p) = SegmentsAt(dev, p)
    BY <1>8, <1>10, Zenon DEF SegmentsAt, Unanswered
  <2> USE <2>1
  <2>2. \A p \in Unanswered' : HeadOf(SegmentsAt(dev, p)) # head
    BY <1>0, <1>2, <1>9, BooksDisjoint, Zenon
  <2> QED  BY <2>2, Zenon DEF HeldHeads
<1> HIDE DEF head
<1>24. Stages'
  <2>0. Stages
    BY Zenon DEF IInv
  <2>1. \A s, t \in AvailSlots' : avail'.ring[s] = avail'.ring[t] => s = t
    <3>1. head \notin AvailHeads
      BY <1>20, <2>0, Zenon DEF Stages
    <3>2. \A s \in AvailSlots : avail.ring[s] # head
      BY <3>1, Zenon DEF AvailHeads
    <3>3. \A s, t \in AvailSlots : avail.ring[s] = avail.ring[t] => s = t
      BY <2>0, Zenon DEF Stages
    <3> QED  BY <1>0, <1>19, <1>20, <3>2, <3>3, Zenon
  <2>2. \A s, t \in UsedSlots' : used'.ring[s].head = used'.ring[t].head => s = t
    BY <1>0, <1>19, <2>0, Zenon DEF Stages
  <2> USE <1>21
  <2>3. /\ StoreHeads' \cap AvailHeads' = {} /\ StoreHeads' \cap HeldHeads' = {}
        /\ StoreHeads' \cap UsedHeads' = {} /\ AvailHeads' \cap HeldHeads' = {}
        /\ AvailHeads' \cap UsedHeads' = {} /\ HeldHeads' \cap UsedHeads' = {}
    BY <1>20, <1>22, <1>23, <2>0 DEF Stages
  <2>4. \A h \in StoreHeads' \cup AvailHeads' \cup HeldHeads' \cup UsedHeads' :
          drv'.slots[h] \in Submitted'
    BY <1>0, <1>13, <1>20, <1>22, <1>23, <2>0, Zenon DEF Stages
  <2>5. \A h \in StoreHeads' \cup AvailHeads' \cup HeldHeads' :
          Described(SegmentsAt(drv, drv.slots[h]))'
    <3> SUFFICES ASSUME NEW h \in StoreHeads \cup AvailHeads \cup HeldHeads
                 PROVE  Described(SegmentsAt(drv, drv.slots[h]))'
      BY <1>20, <1>22, <1>23, Zenon
    <3>1. Described(SegmentsAt(drv, drv.slots[h]))
      BY <2>0, Zenon DEF Stages
    <3> QED  BY <1>0, <3>1, Zenon DEF Described
  <2>6. \A p \in Unanswered' :
          SegmentsAt(dev', p) = SegmentsAt(drv', drv'.slots[HeadOf(SegmentsAt(dev', p))])
    <3> SUFFICES ASSUME NEW p \in Unanswered'
                 PROVE  SegmentsAt(dev', p)
                          = SegmentsAt(drv', drv'.slots[HeadOf(SegmentsAt(dev', p))])
      BY Zenon
    <3>1. p \in Unanswered /\ SegmentsAt(dev', p) = SegmentsAt(dev, p)
      BY <1>8, <1>10, Zenon DEF SegmentsAt, Unanswered
    <3> QED  BY <1>0, <3>1, <2>0, Zenon DEF Stages
  <2> QED  BY <2>1, <2>2, <2>3, <2>4, <2>5, <2>6, Zenon DEF Stages
<1>25. Declines(o)
  <2>1. dev.chains[o].written = 0
    BY Zenon DEF ReturnAvailable
  <2>2. \A p \in Unanswered' : dev'.chains[p] = dev.chains[p]
    BY <1>8, <1>10, Zenon DEF Unanswered
  <2> QED  BY <1>0, <1>2, <1>5, <1>10, <1>17, <1>20, <2>1, <2>2, Zenon DEF Declines, b, c, head
<1> QED  BY <1>6, <1>11, <1>12, <1>13, <1>18, <1>24, <1>25, Zenon DEF IInv

(* complete: the store of the index.                                       *)
LEMMA CompleteStoreStep ==
  ASSUME IInv, CompleteStore
  PROVE  IInv' /\ Completes(dev.chain)
<1> DEFINE p == dev.produced
           b == Successor(p)
           o == dev.chain
           head == HeadOf(SegmentsAt(dev, o))
<1>0. /\ dev \in Endpoints(DeviceChains) /\ Books(dev) /\ dev.at = "store"
      /\ used' = [used EXCEPT !.idx = b]
      /\ dev' = [dev EXCEPT !.produced = b, !.at = "event"]
      /\ UNCHANGED <<drv, desc, avail, injected>>
  BY Facts, Zenon DEF IInv, CompleteStore
<1>1. /\ p \in Indices /\ b \in Indices
      /\ dev.consumed \in Indices /\ drv.consumed \in Indices
  BY Facts, Neighbours, Zenon
<1>2. /\ o \in Busy(dev) /\ used.ring[Slot(p)].head = head
      /\ used.ring[Slot(p)].length = dev.chains[o].written
  BY <1>0 DEF IInv, DeviceState
<1> HIDE DEF p, b, o
<1>3. /\ dev' \in Endpoints(DeviceChains)
      /\ dev'.produced = b /\ dev'.consumed = dev.consumed
      /\ dev'.owned = dev.owned /\ dev'.slots = dev.slots
      /\ dev'.descriptor_owner = dev.descriptor_owner /\ dev'.chains = dev.chains
      /\ dev'.last_taken = dev.last_taken
      /\ dev'.at = "event" /\ dev'.chain = o /\ dev'.faulted = dev.faulted
  BY <1>0, <1>1, Zenon DEF Endpoints, Steps, o
<1>4. /\ Books(dev)' /\ Busy(dev') = Busy(dev)
      /\ \A q : SegmentsAt(dev', q) = SegmentsAt(dev, q)
  <2>1. Books(dev)
    BY <1>0, Zenon
  <2> QED  BY <1>3, <2>1, BooksOfFields, Zenon
<1>5. /\ used' \in [idx : Indices, ring : [Heads -> [head : Heads, length : Lengths]]]
      /\ used'.idx = b /\ used'.ring = used.ring
  BY <1>0, <1>1, Facts, Zenon
<1>6. Unanswered = Busy(dev) /\ dev.owned = Distance(p, dev.consumed)
  BY <1>0, HeldExactly, Zenon DEF p
<1>7. Unanswered' = Unanswered \ {o} /\ o \in Unanswered
  <2>1. Unanswered = {q \in DeviceChains : dev.chains[q].state = "ACCEPTED"}
    BY <1>0, Zenon DEF Unanswered
  <2>2. Unanswered' = {q \in DeviceChains : dev.chains[q].state = "ACCEPTED" /\ q # o}
    BY <1>3, Zenon DEF Unanswered
  <2> QED  BY <1>2, <1>6, <2>1, <2>2, Zenon
<1>8. TypeOK' /\ NoSpuriousFault'
  BY <1>0, <1>3, <1>5, Zenon DEF IInv, TypeOK, NoSpuriousFault
<1>9. DeviceState'
  <2>1. DeviceState
    BY Zenon DEF IInv
  <2> QED  BY <1>0, <1>2, <1>3, <1>4, <1>7, <2>1 DEF DeviceState
<1>10. Distance(p, dev.consumed) >= 1
  BY <1>7, HeldCounted, Zenon DEF p
<1>11. /\ Distance(p, dev.consumed) \in Nat /\ Distance(dev.consumed, drv.produced) \in Nat
       /\ Distance(drv.consumed, p) \in Nat /\ Distance(drv.consumed, drv.produced) \in Nat
       /\ Distance(drv.consumed, p) < QueueSize
       /\ Distance(drv.consumed, p) + 1 < IndexModulus
  BY <1>10, Spaces, Sizes DEF p
<1>12. p # dev.consumed
  <2>1. Distance(p, dev.consumed) # 0
    BY <1>10, <1>11
  <2> QED  BY <1>1, <2>1, Distances, Zenon
<1>13. /\ Distance(drv.consumed, b) = Distance(drv.consumed, p) + 1
       /\ Distance(b, dev.consumed) = Distance(p, dev.consumed) - 1
  <2>1. Distance(drv.consumed, p) + 1 < IndexModulus
    BY <1>11, Zenon
  <2> QED  BY <1>1, <1>12, <2>1, Distances, Zenon DEF b
<1>14. drv.consumed # b
  <2>1. Distance(drv.consumed, b) # 0
    BY <1>11, <1>13
  <2> QED  BY <1>1, <2>1, Distances, Zenon
<1>15. DriverState' /\ Books(drv)' /\ Submitted' = Submitted
  BY <1>0, <1>3, <1>14, DeviceKeepsDriver, Zenon
<1>16. Counts'
  <2>1. Counts
    BY Zenon DEF IInv
  <2> QED  BY <1>0, <1>3, <1>5, <1>6, <1>11, <1>13, <1>15, <2>1 DEF Counts, p
<1>17. /\ UsedSlots' = UsedSlots \cup {Slot(p)} /\ Slot(p) \notin UsedSlots
       /\ AvailSlots' = AvailSlots
  <2>1. Distance(drv.consumed, p) < QueueSize
    BY <1>11, Zenon
  <2> QED  BY <1>0, <1>1, <1>3, <2>1, Windows DEF AvailSlots, UsedSlots, p, b
<1>18. /\ StoreHeads' = StoreHeads /\ AvailHeads' = AvailHeads
       /\ \A q : SegmentsAt(drv', q) = SegmentsAt(drv, q)
  BY <1>0, <1>17, Zenon DEF StoreHeads, AvailHeads, SegmentsAt
<1>19. UsedHeads' = UsedHeads \cup {head} /\ head \in HeldHeads
  BY <1>2, <1>5, <1>7, <1>17, Zenon DEF UsedHeads, HeldHeads
<1>20. HeldHeads' \subseteq HeldHeads /\ head \notin HeldHeads'
  <2>1. \A q \in Unanswered' : q \in Busy(dev) /\ q # o /\ HeadOf(SegmentsAt(dev, q)) # head
    BY <1>0, <1>2, <1>6, <1>7, BooksDisjoint, Zenon
  <2> QED  BY <1>4, <1>7, <2>1, Zenon DEF HeldHeads
<1> HIDE DEF head
<1>21. Stages'
  <2>0. Stages
    BY Zenon DEF IInv
  <2>1. \A s, t \in UsedSlots' : used'.ring[s].head = used'.ring[t].head => s = t
    <3>1. head \notin UsedHeads
      BY <1>19, <2>0, Zenon DEF Stages
    <3>2. \A s \in UsedSlots : used.ring[s].head # head
      BY <3>1, Zenon DEF UsedHeads
    <3>3. \A s, t \in UsedSlots : used.ring[s].head = used.ring[t].head => s = t
      BY <2>0, Zenon DEF Stages
    <3> QED  BY <1>2, <1>5, <1>17, <3>2, <3>3
  <2>2. \A s, t \in AvailSlots' : avail'.ring[s] = avail'.ring[t] => s = t
    BY <1>0, <1>17, <2>0, Zenon DEF Stages
  <2> USE <1>18
  <2>3. /\ StoreHeads' \cap AvailHeads' = {} /\ StoreHeads' \cap HeldHeads' = {}
        /\ StoreHeads' \cap UsedHeads' = {} /\ AvailHeads' \cap HeldHeads' = {}
        /\ AvailHeads' \cap UsedHeads' = {} /\ HeldHeads' \cap UsedHeads' = {}
    BY <1>19, <1>20, <2>0 DEF Stages
  <2>4. \A h \in StoreHeads' \cup AvailHeads' \cup HeldHeads' \cup UsedHeads' :
          drv'.slots[h] \in Submitted'
    BY <1>0, <1>15, <1>19, <1>20, <2>0, Zenon DEF Stages
  <2>5. \A h \in StoreHeads' \cup AvailHeads' \cup HeldHeads' :
          Described(SegmentsAt(drv, drv.slots[h]))'
    <3> SUFFICES ASSUME NEW h \in StoreHeads \cup AvailHeads \cup HeldHeads
                 PROVE  Described(SegmentsAt(drv, drv.slots[h]))'
      BY <1>20, Zenon
    <3>1. Described(SegmentsAt(drv, drv.slots[h]))
      BY <2>0, Zenon DEF Stages
    <3> QED  BY <1>0, <3>1, Zenon DEF Described
  <2>6. \A q \in Unanswered' :
          SegmentsAt(dev', q) = SegmentsAt(drv', drv'.slots[HeadOf(SegmentsAt(dev', q))])
    BY <1>0, <1>4, <1>7, <2>0, Zenon DEF Stages
  <2> QED  BY <2>1, <2>2, <2>3, <2>4, <2>5, <2>6, Zenon DEF Stages
<1>22. Completes(o)
  BY <1>0, <1>2, <1>3, <1>5, <1>7, <1>13, Zenon DEF Completes, p, b, head
<1> QED  BY <1>4, <1>8, <1>9, <1>15, <1>16, <1>21, <1>22, Zenon DEF IInv, o

(* complete: the event suppression read after the store, and the drop.     *)
LEMMA CompleteEventStep ==
  ASSUME IInv, CompleteEvent
  PROVE  IInv' /\ DeviceStill
<1> DEFINE o == dev.chain
           new == Drop(dev, o)
<1>0. /\ dev \in Endpoints(DeviceChains) /\ Books(dev) /\ None \notin DeviceChains
      /\ dev.at = "event" /\ dev' = [new EXCEPT !.at = "idle", !.chain = None]
      /\ UNCHANGED <<drv, desc, avail, used, injected>>
  BY Facts, Zenon DEF IInv, CompleteEvent, Return, Goto
<1>1. o \in Busy(dev) /\ o \in DeviceChains
  BY <1>0, EndpointFacts, Zenon DEF IInv, DeviceState, Busy
<1>2. /\ new \in Endpoints(DeviceChains) /\ Books(new) /\ Busy(new) = Busy(dev) \ {o}
      /\ \A p \in Busy(new) : SegmentsAt(new, p) = SegmentsAt(dev, p)
  BY <1>0, <1>1, DropBooks, Zenon
<1>3. /\ new.owned = dev.owned - 1
      /\ new.last_taken = IF dev.last_taken = o THEN None ELSE dev.last_taken
      /\ new.produced = dev.produced /\ new.consumed = dev.consumed
      /\ new.faulted = dev.faulted
      /\ new.chains = [dev.chains EXCEPT ![o] = FreeChain]
  <2>1. dev \in Endpoints(DeviceChains) /\ o \in DeviceChains
    BY <1>0, <1>1, Zenon
  <2> HIDE DEF o
  <2> QED  BY <2>1, Zenon DEF Drop, Endpoints
<1> HIDE DEF new
<1> USE <1>2
<1>4. /\ dev' \in Endpoints(DeviceChains)
      /\ dev'.produced = new.produced /\ dev'.consumed = new.consumed
      /\ dev'.owned = new.owned /\ dev'.slots = new.slots
      /\ dev'.descriptor_owner = new.descriptor_owner /\ dev'.chains = new.chains
      /\ dev'.last_taken = new.last_taken /\ dev'.at = "idle" /\ dev'.faulted = new.faulted
  BY <1>0, Zenon DEF Endpoints, Steps
<1> USE <1>4
<1>5. Books(dev)' /\ Busy(dev') = Busy(dev) \ {o}
  BY BooksOfFields, Zenon
<1>6. dev.chains \in [DeviceChains -> Chains]
  BY <1>0, EndpointFacts, Zenon
<1> USE <1>3
<1>7. /\ dev'.chains[o] = FreeChain
      /\ \A p \in DeviceChains \ {o} : dev'.chains[p] = dev.chains[p]
  BY <1>1, <1>6
<1> USE <1>7
<1>8. Unanswered' = Unanswered /\ o \notin Unanswered
  BY <1>0, <1>1 DEF Unanswered, FreeChain
<1>9. TypeOK' /\ NoSpuriousFault'
  BY <1>0, Zenon DEF IInv, TypeOK, NoSpuriousFault
<1> USE <1>8
<1>10. \A p \in Unanswered : SegmentsAt(dev', p) = SegmentsAt(dev, p)
  BY Zenon DEF SegmentsAt, Unanswered
<1> USE <1>5, <1>10
<1>11. DeviceState'
  <2>0. DeviceState
    BY Zenon DEF IInv
  <2> USE <2>0
  <2>1. \A p \in DeviceChains : dev'.chains[p].state \in {"FREE", "ACCEPTED"}
    <3>1. FreeChain.state = "FREE"
      BY Zenon DEF FreeChain
    <3> QED  BY <3>1, Zenon DEF DeviceState
  <2>2. dev'.last_taken # None =>
          /\ dev'.last_taken \in Busy(dev')
          /\ dev'.last_taken \in Unanswered' =>
               avail'.ring[Slot(Predecessor(dev'.consumed))]
                 = HeadOf(SegmentsAt(dev', dev'.last_taken))
    <3> SUFFICES ASSUME dev'.last_taken # None
                 PROVE  /\ dev'.last_taken \in Busy(dev')
                        /\ dev'.last_taken \in Unanswered' =>
                             avail'.ring[Slot(Predecessor(dev'.consumed))]
                               = HeadOf(SegmentsAt(dev', dev'.last_taken))
      BY Zenon
    <3>1. dev'.last_taken = dev.last_taken /\ dev.last_taken # o
      BY Zenon
    <3> QED  BY <1>0, <3>1 DEF DeviceState
  <2> QED  BY <2>1, <2>2, Zenon DEF DeviceState
<1>12. DriverState' /\ Books(drv)' /\ Submitted' = Submitted
  BY <1>0, DeviceKeepsDriver, Zenon DEF IInv, DriverState
<1> USE <1>12
<1>13. Counts'
  <2>1. Counts /\ dev.owned \in Int /\ Distance(dev.produced, dev.consumed) \in Int
    BY <1>0, EndpointFacts, Spaces DEF IInv
  <2> QED  BY <1>0, <2>1 DEF Counts
<1>14. Stages'
  BY <1>0, DeviceStages, Zenon
<1>15. DeviceStill
  <2>1. \A p \in Unanswered : dev'.chains[p] = dev.chains[p]
    BY Zenon DEF Unanswered
  <2> QED  BY <1>0, <2>1, Zenon DEF DeviceStill
<1> QED  BY <1>9, <1>11, <1>13, <1>14, <1>15, Zenon DEF IInv

(* Every step keeps the inductive invariant.                               *)
LEMMA NextIInv ==
  ASSUME IInv, [Next]_vars
  PROVE  IInv'
<1>1. CASE UNCHANGED vars
  <2>0. drv' = drv /\ dev' = dev /\ desc' = desc /\ avail' = avail /\ used' = used
        /\ injected' = injected
    BY <1>1, Zenon DEF vars
  <2> USE <2>0
  <2>1. TypeOK' /\ NoSpuriousFault'
    BY Zenon DEF IInv, TypeOK, NoSpuriousFault
  <2>2. Books(drv)' /\ Books(dev)'
    BY Zenon DEF IInv, Books, Busy, SegmentsAt
  <2>3. Submitted' = Submitted /\ Unanswered' = Unanswered /\ Busy(dev') = Busy(dev)
    BY Zenon DEF Submitted, Unanswered
  <2> USE <2>3
  <2>4. DriverState'
    BY Zenon DEF IInv, DriverState, SegmentsAt
  <2>5. DeviceState'
    BY Zenon DEF IInv, DeviceState, SegmentsAt
  <2>6. Counts'
    BY Zenon DEF IInv, Counts
  <2>7. Stages'
    BY DeviceStages, Zenon
  <2> QED  BY <2>1, <2>2, <2>4, <2>5, <2>6, <2>7, Zenon DEF IInv
<1>2. CASE DriverNext
  BY <1>2, PublishStep, PublishStoreStep, PublishEventStep, TakeUsedStep, TakeUsedReadStep,
     ReleaseStep, DriverIOStep, Zenon DEF DriverNext
<1>3. CASE DeviceNext
  BY <1>3, TakeAvailableStep, TakeAvailableReadStep, MoveAcceptedStep, ReturnAvailableStep,
     WriteResponseStep, CompleteStep, CompleteStoreStep, CompleteEventStep, DeviceIOStep, Zenon DEF
     DeviceNext
<1> QED  BY <1>1, <1>2, <1>3, Zenon DEF Next

-----------------------------------------------------------------------------
(***************************************************************************)
(* Announced entries do not change                                         *)
(***************************************************************************)

(* What the index of the available ring covers, and what is behind it.     *)
LEMMA AnnouncedChain ==
  ASSUME IInv, NEW s \in AvailSlots
  PROVE  LET h == avail.ring[s]
             segments == SegmentsAt(drv, drv.slots[h])
         IN  /\ s \in Heads /\ h \in AvailHeads /\ drv.slots[h] \in Submitted
             /\ segments \in Lists(Segments) /\ Len(segments) # 0
             /\ ReadChain(h) = segments
<1> DEFINE h == avail.ring[s]
           r == drv.slots[h]
           segments == SegmentsAt(drv, r)
<1>1. s \in Heads /\ h \in AvailHeads
  BY Spaces, Zenon DEF AvailHeads
<1> USE <1>1
<1>2. r \in Submitted /\ r \in Busy(drv) /\ r \in DriverChains /\ HeadOf(segments) = h
  BY HeadFacts, Zenon
<1>3. Described(segments)
  BY Zenon DEF IInv, Stages
<1> HIDE DEF h, r
<1> USE <1>2
<1>4. segments \in Lists(Segments) /\ Len(segments) # 0
  <2>1. drv \in Endpoints(DriverChains) /\ Books(drv)
    BY Facts, Zenon DEF IInv
  <2> QED  BY <2>1, BusyFacts
<1> USE <1>4
<1>5. ReadChain(h) = segments
  <2>1. FiniteSetFacts
    BY Zenon DEF IInv, Books
  <2> QED  BY <1>3, <2>1, ReadsBack, Zenon
<1> QED  BY <1>5, Zenon DEF h, r

(* No step changes an announced entry, or a descriptor behind one.         *)
LEMMA StepKeepsEntries ==
  ASSUME IInv, Next
  PROVE  /\ \A s \in AvailSlots :
              /\ avail'.ring[s] = avail.ring[s]
              /\ \A h \in Descriptors(ReadChain(avail.ring[s])) : desc'[h] = desc[h]
         /\ \A s \in UsedSlots : used'.ring[s] = used.ring[s]
<1>1. \A s \in AvailSlots :
        /\ s \in Heads /\ avail.ring[s] \in AvailHeads
        /\ ReadChain(avail.ring[s]) = SegmentsAt(drv, drv.slots[avail.ring[s]])
  BY AnnouncedChain, Zenon
<1>2. CASE UNCHANGED <<desc, avail, used>>
  BY <1>2, Zenon
<1>3. ASSUME NEW o \in DriverChains, NEW ds \in Lists(Heads),
             MayPublish(o, SegmentsOf(o, ds)), NEW n \in 0 .. Len(SegmentsOf(o, ds)),
             desc' = WithDescriptors(SegmentsOf(o, ds), n), used' = used,
             NEW s \in AvailSlots, NEW h \in Descriptors(ReadChain(avail.ring[s]))
      PROVE  desc'[h] = desc[h]
  BY <1>1, <1>3, OthersUntouched
<1>4. CASE \E o \in DriverChains, ds \in Lists(Heads) : Publish(o, SegmentsOf(o, ds))
  <2>1. PICK o \in DriverChains, ds \in Lists(Heads) : Publish(o, SegmentsOf(o, ds))
    BY <1>4, Zenon
  <2> DEFINE segments == SegmentsOf(o, ds)
  <2>2. /\ MayPublish(o, segments) /\ desc' = WithDescriptors(segments, Len(segments))
        /\ avail' = [avail EXCEPT !.ring[Slot(drv.produced)] = HeadOf(segments)]
        /\ used' = used
    BY <2>1, Zenon DEF Publish
  <2>3. Len(segments) \in 0 .. Len(segments)
    BY SegmentsOfFacts, SegmentFacts, Sizes
  <2>4. drv.owned # MaxOutstanding
    BY <2>2, Zenon DEF MayPublish
  <2>5. Distance(drv.consumed, drv.produced) < QueueSize
    BY <2>4, Spaces, Sizes
  <2>6. Slot(drv.produced) \in Heads /\ Slot(drv.produced) \notin AvailSlots
    BY <2>5, FreeSlot, Zenon
  <2> HIDE DEF segments
  <2>7. avail'.ring = [avail.ring EXCEPT ![Slot(drv.produced)] = HeadOf(segments)]
    BY <2>2, Facts, Zenon
  <2>8. \A s \in AvailSlots : avail'.ring[s] = avail.ring[s]
    BY <1>1, <2>6, <2>7, Facts, Zenon
  <2> QED  BY <1>3, <2>2, <2>3, <2>8, Zenon DEF segments
<1>5. CASE PublishStore
  <2> USE <1>5
  <2>1. avail'.ring = avail.ring
    BY Facts, Zenon DEF PublishStore
  <2> QED  BY <2>1, Zenon DEF PublishStore
<1> USE <1>2
<1>6. CASE DriverIO
  <2> USE <1>6
  <2>1. UNCHANGED <<avail, used>>
    BY Zenon DEF DriverIO
  <2> USE <2>1
  <2>2. CASE \E o \in DriverChains, ds \in Lists(Heads) :
               /\ MayPublish(o, SegmentsOf(o, ds))
               /\ \E n \in 0 .. Len(SegmentsOf(o, ds)) :
                    desc' = WithDescriptors(SegmentsOf(o, ds), n)
    BY <1>3, <2>2, Zenon
  <2> QED  BY <2>2, Zenon DEF DriverIO
<1>7. CASE \E o \in DeviceChains : Complete(o)
  <2>1. PICK o \in DeviceChains : Complete(o)
    BY <1>7, Zenon
  <2> DEFINE entry == [head |-> HeadOf(dev.chains[o].segments), length |-> dev.chains[o].written]
  <2>2. /\ UNCHANGED <<desc, avail>> /\ used' = [used EXCEPT !.ring[Slot(dev.produced)] = entry]
        /\ dev.at = "idle" /\ dev.chains[o].state = "ACCEPTED"
    BY <2>1, Zenon DEF Complete, MayCall, Owned
  <2>3. o \in Unanswered
    BY <2>2, Zenon DEF Unanswered
  <2>4. Distance(drv.consumed, dev.produced) < QueueSize
    BY <2>3, HeldCounted, Spaces, Sizes
  <2>5. Slot(dev.produced) \in Heads /\ Slot(dev.produced) \notin UsedSlots
    BY <2>4, Facts, Windows, Zenon DEF UsedSlots
  <2> HIDE DEF entry
  <2>6. used'.ring = [used.ring EXCEPT ![Slot(dev.produced)] = entry]
    BY <2>2, Facts, Zenon
  <2>7. \A s \in UsedSlots : used'.ring[s] = used.ring[s]
    BY <2>5, <2>6, Facts, Spaces, Zenon
  <2> QED  BY <2>2, <2>7, Zenon
<1>8. CASE CompleteStore
  <2> USE <1>8
  <2>1. used'.ring = used.ring
    BY Facts, Zenon DEF CompleteStore
  <2> QED  BY <2>1, Zenon DEF CompleteStore
<1> QED  BY <1>4, <1>5, <1>6, <1>7, <1>8, Zenon DEF Next, DriverNext, DeviceNext, PublishEvent,
            TakeUsed, TakeUsedRead, Release, TakeAvailable, TakeAvailableRead, MoveAccepted,
            ReturnAvailable, WriteResponse, CompleteEvent, DeviceIO
=============================================================================
