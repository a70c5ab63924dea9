-------------------------- MODULE VirtqueueProofs --------------------------
(***************************************************************************)
(* The inductive invariant of the virtqueue of protocol/src/virtqueue.c,   *)
(* for any queue size, index width, number of chain objects and chain      *)
(* length, with or without failures of either side's memory: it holds      *)
(* initially, it implies that the books of each endpoint agree, and the    *)
(* driver's steps preserve it. VirtqueueDeviceProofs has the steps of the  *)
(* device, VirtqueueTheorems the theorems.                                 *)
(*                                                                         *)
(* None of the queue's properties is inductive alone. Why the device finds *)
(* a well-formed chain under every entry it takes, and the driver its own  *)
(* request under every answer, needs to know where each submitted request  *)
(* is: between the descriptor writes and the store of the index, in the    *)
(* available ring, held by the device, or in the used ring. IInv says that *)
(* these four stages are disjoint (Stages), that the free-running counters *)
(* measure how many requests are in each (Counts), that the descriptor     *)
(* table still describes the chains of the first three, and that slots,    *)
(* descriptor_owner and owned of each endpoint name exactly its busy       *)
(* chains (Books).                                                         *)
(*                                                                         *)
(* Each action preserves IInv and has one of few effects on requests and   *)
(* answers (DriverStill to Completes below). The refinement follows from   *)
(* the effects alone. A step without arithmetic names Zenon: it needs no   *)
(* types inferred, which is what costs the SMT translation its time here.  *)
(***************************************************************************)
EXTENDS Virtqueue, TLAPS

(* What the proofs use of finite sets and numbers. These facts have nothing *)
(* to do with queues; Books carries them along, so that only the initial   *)
(* state has to establish them.                                            *)
EmptyCounts ==
  /\ IsFiniteSet({}) /\ Cardinality({}) = 0
  /\ \A S : IsFiniteSet(S) => Cardinality(S) \in Nat /\ (Cardinality(S) = 0 <=> S = {})
AddCounts ==
  \A S, x : IsFiniteSet(S) =>
    /\ IsFiniteSet(S \cup {x})
    /\ Cardinality(S \cup {x}) = IF x \in S THEN Cardinality(S) ELSE Cardinality(S) + 1
RemoveCounts ==
  \A S, x : IsFiniteSet(S) =>
    /\ IsFiniteSet(S \ {x})
    /\ Cardinality(S \ {x}) = IF x \in S THEN Cardinality(S) - 1 ELSE Cardinality(S)
SubsetCounts ==
  \A S, T : IsFiniteSet(S) /\ T \subseteq S => IsFiniteSet(T) /\ Cardinality(T) <= Cardinality(S)
IntervalCounts == \A n \in Nat : IsFiniteSet(1 .. n) /\ Cardinality(1 .. n) = n
ListCounts ==
  \A n \in Nat : \A f : Cardinality({f[k] : k \in 1 .. n}) = n =>
    \A i, j \in 1 .. n : f[i] = f[j] => i = j
LeastNumber == \A T : T \subseteq Nat /\ T # {} => \E n \in T : \A m \in T : ~(m < n)
FiniteSetFacts ==
  /\ EmptyCounts /\ AddCounts /\ RemoveCounts /\ SubsetCounts
  /\ IntervalCounts /\ ListCounts /\ LeastNumber

(* The chain objects an endpoint has in use.                               *)
Busy(vq) == {o \in DOMAIN vq.chains : vq.chains[o].state # "FREE"}

SegmentsAt(vq, o) == vq.chains[o].segments

(* What Consistent says, without CHOOSE: slots and busy chains correspond  *)
(* through the head, and descriptor_owner tells the one chain a descriptor *)
(* belongs to.                                                             *)
Books(vq) ==
  /\ FiniteSetFacts
  /\ IsFiniteSet(Busy(vq)) /\ vq.owned = Cardinality(Busy(vq))
  /\ \A h \in Heads : vq.slots[h] # None =>
       vq.slots[h] \in Busy(vq) /\ HeadOf(SegmentsAt(vq, vq.slots[h])) = h
  /\ \A o \in Busy(vq) :
       /\ Len(SegmentsAt(vq, o)) \in 1 .. MaxChain
       /\ vq.slots[HeadOf(SegmentsAt(vq, o))] = o
       /\ Cardinality(Descriptors(SegmentsAt(vq, o))) = Len(SegmentsAt(vq, o))
       /\ \A h \in Descriptors(SegmentsAt(vq, o)) :
            vq.descriptor_owner[h] = HeadOf(SegmentsAt(vq, o)) + 1
  /\ \A h \in Heads : vq.descriptor_owner[h] # 0 =>
       \E o \in Busy(vq) : h \in Descriptors(SegmentsAt(vq, o))

(* The descriptor table holds a chain, linked in its order.                *)
Described(segments) ==
  \A i \in 1 .. Len(segments) :
    desc[segments[i].descriptor] =
      [chain |-> segments[i].chain, position |-> segments[i].position,
       next |-> IF i < Len(segments) THEN segments[i + 1].descriptor ELSE None]

Submitted == {o \in DriverChains : drv.chains[o].state = "SUBMITTED"}

(* Where the four stages of a request are, by the head of its chain.       *)
AvailSlots == Window(dev.consumed, drv.produced)
UsedSlots == Window(drv.consumed, dev.produced)
StoreHeads == {HeadOf(SegmentsAt(drv, o)) : o \in {c \in {drv.chain} : drv.at = "store"}}
AvailHeads == {avail.ring[s] : s \in AvailSlots}
HeldHeads == {HeadOf(SegmentsAt(dev, o)) : o \in Unanswered}
UsedHeads == {used.ring[s].head : s \in UsedSlots}

(* Where a call of the driver stands: the chain it has written is in the   *)
(* next slot of the available ring before the index is stored, and an      *)
(* answer is there before it is read.                                      *)
DriverState ==
  /\ drv.at \in {"idle", "store", "read", "event"}
  /\ \A o \in DriverChains :
       /\ drv.chains[o].state \in {"FREE", "SUBMITTED", "RETURNED"}
       /\ \A i \in DOMAIN SegmentsAt(drv, o) :
            SegmentsAt(drv, o)[i].chain = o /\ SegmentsAt(drv, o)[i].position = i
  /\ drv.at = "store" =>
       /\ drv.chain \in Submitted
       /\ avail.ring[Slot(drv.produced)] = HeadOf(SegmentsAt(drv, drv.chain))
  /\ drv.at = "read" => drv.consumed # dev.produced

(* Where a call of the device stands, and what the chain taken last can be *)
(* given back to.                                                          *)
DeviceState ==
  /\ \A o \in DeviceChains : dev.chains[o].state \in {"FREE", "ACCEPTED"}
  /\ dev.at = "read" =>
       /\ dev.chain \in DeviceChains \ Busy(dev)
       /\ dev.consumed # drv.produced
  /\ dev.at \in {"store", "event", "published"} => dev.chain \in Busy(dev)
  /\ dev.at = "store" =>
       used.ring[Slot(dev.produced)] =
         [head |-> HeadOf(SegmentsAt(dev, dev.chain)), length |-> dev.chains[dev.chain].written]
  /\ dev.at = "published" => dev.faulted
  /\ dev.last_taken # None =>
       /\ dev.last_taken \in Busy(dev)
       /\ dev.last_taken \in Unanswered =>
            avail.ring[Slot(Predecessor(dev.consumed))] = HeadOf(SegmentsAt(dev, dev.last_taken))

(* The counters: the requests announced and not collected are those in the *)
(* three later stages, and the device owns what it has taken and not       *)
(* answered.                                                               *)
Counts ==
  /\ avail.idx = drv.produced /\ used.idx = dev.produced
  /\ Distance(drv.consumed, dev.produced) + Distance(dev.produced, dev.consumed)
       + Distance(dev.consumed, drv.produced) = Distance(drv.consumed, drv.produced)
  /\ Distance(drv.consumed, drv.produced) + (IF drv.at = "store" THEN 1 ELSE 0)
       <= Cardinality(Submitted)
  /\ dev.owned = Distance(dev.produced, dev.consumed)
                  + (IF dev.at \in {"event", "published"} THEN 1 ELSE 0)

(* A head is in one stage and once; behind it is a submitted request,      *)
(* whose descriptors are in the table until it is answered, and the        *)
(* device's copy of a chain is the driver's.                               *)
Stages ==
  /\ \A s, t \in AvailSlots : avail.ring[s] = avail.ring[t] => s = t
  /\ \A s, t \in UsedSlots : used.ring[s].head = used.ring[t].head => s = t
  /\ StoreHeads \cap AvailHeads = {} /\ StoreHeads \cap HeldHeads = {}
  /\ StoreHeads \cap UsedHeads = {} /\ AvailHeads \cap HeldHeads = {}
  /\ AvailHeads \cap UsedHeads = {} /\ HeldHeads \cap UsedHeads = {}
  /\ \A h \in StoreHeads \cup AvailHeads \cup HeldHeads \cup UsedHeads :
       drv.slots[h] \in Submitted
  /\ \A h \in StoreHeads \cup AvailHeads \cup HeldHeads :
       Described(SegmentsAt(drv, drv.slots[h]))
  /\ \A o \in Unanswered :
       SegmentsAt(dev, o) = SegmentsAt(drv, drv.slots[HeadOf(SegmentsAt(dev, o))])

(* The inductive invariant.                                                *)
IInv ==
  /\ TypeOK /\ NoSpuriousFault
  /\ Books(drv) /\ Books(dev)
  /\ DriverState /\ DeviceState /\ Counts /\ Stages

-----------------------------------------------------------------------------
(***************************************************************************)
(* What the driver does, as far as a request and its answer are concerned  *)
(***************************************************************************)

(* No request moves: the driver's call begins, ends or fails.              *)
DriverStill ==
  /\ dev' = dev /\ used' = used
  /\ drv'.produced = drv.produced /\ drv'.consumed = drv.consumed
  /\ \A h \in UsedHeads : drv'.slots[h] = drv.slots[h]
  /\ \A o \in DriverChains :
       \/ drv'.chains[o] = drv.chains[o]
       \/ drv.chains[o].state = "FREE" /\ drv'.chains[o].state = "SUBMITTED"

(* The store of the available index makes a request visible.               *)
Announces ==
  /\ dev' = dev /\ used' = used /\ drv.chain \in Submitted
  /\ avail.ring[Slot(drv.produced)] = HeadOf(SegmentsAt(drv, drv.chain))
  /\ avail'.ring = avail.ring
  /\ drv'.produced = Successor(drv.produced) /\ drv'.consumed = drv.consumed
  /\ Distance(dev.consumed, drv'.produced) = Distance(dev.consumed, drv.produced) + 1
  /\ drv'.slots = drv.slots /\ drv'.chains = drv.chains

(* take_used returns the oldest answer.                                    *)
Collects ==
  LET entry == used.ring[Slot(drv.consumed)]
      o == drv.slots[entry.head]
  IN  /\ dev' = dev /\ used' = used /\ drv.consumed # dev.produced
      /\ drv'.produced = drv.produced /\ drv'.consumed = Successor(drv.consumed)
      /\ drv'.slots = drv.slots
      /\ o \in DriverChains /\ drv.chains[o].state = "SUBMITTED"
      /\ drv'.chains[o].state = "RETURNED" /\ drv'.chains[o].used_length = entry.length
      /\ \A p \in DriverChains \ {o} : drv'.chains[p] = drv.chains[p]

(* release gives a returned chain object up.                               *)
Frees(o) ==
  /\ dev' = dev /\ used' = used
  /\ drv'.produced = drv.produced /\ drv'.consumed = drv.consumed
  /\ \A h \in UsedHeads : drv'.slots[h] = drv.slots[h]
  /\ drv.chains[o].state = "RETURNED" /\ drv'.chains[o].state = "FREE"
  /\ \A p \in DriverChains \ {o} : drv'.chains[p] = drv.chains[p]

-----------------------------------------------------------------------------
(***************************************************************************)
(* Arithmetic of indices and slots                                         *)
(***************************************************************************)

(* The sizes, as numbers.                                                  *)
LEMMA Sizes ==
  /\ QueueSize \in Nat \ {0} /\ IndexModulus \in Nat \ {0} /\ QueueSize < IndexModulus
  /\ MaxOutstanding \in Nat \ {0} /\ MaxOutstanding <= QueueSize
  /\ MaxChain \in Nat \ {0} /\ MaxChain <= QueueSize /\ Capacity \in Nat
BY VirtqueueAssumption

(* Quotient and remainder.                                                 *)
LEMMA Division ==
  ASSUME NEW q \in Nat \ {0}, NEW x \in Int
  PROVE  /\ x % q \in 0 .. q - 1
         /\ x \div q \in Int
         /\ x = (q * (x \div q)) + (x % q)
OBVIOUS

(* A remainder is determined by any decomposition.                         *)
LEMMA DivisionUnique ==
  ASSUME NEW q \in Nat \ {0}, NEW m \in Int, NEW r \in 0 .. q - 1
  PROVE  (q * m + r) % q = r
OBVIOUS

(* Reduction modulo the index width, by at most one subtraction or         *)
(* addition.                                                               *)
LEMMA Remainder ==
  ASSUME NEW n \in Int
  PROVE  /\ n \in 0 .. IndexModulus - 1 => n % IndexModulus = n
         /\ n \in IndexModulus .. 2 * IndexModulus - 1 => n % IndexModulus = n - IndexModulus
         /\ n \in -IndexModulus .. -1 => n % IndexModulus = n + IndexModulus
<1> IndexModulus \in Nat /\ IndexModulus > 0
  BY Sizes
<1>1. n \in 0 .. IndexModulus - 1 => n % IndexModulus = n
  OBVIOUS
<1>2. n \in IndexModulus .. 2 * IndexModulus - 1 => n % IndexModulus = n - IndexModulus
  OBVIOUS
<1>3. n \in -IndexModulus .. -1 => n % IndexModulus = n + IndexModulus
  OBVIOUS
<1> QED  BY <1>1, <1>2, <1>3, Zenon

(* Distances and neighbours of indices without the remainder.              *)
LEMMA IndexValues ==
  ASSUME NEW a \in Indices, NEW b \in Indices
  PROVE  /\ Distance(a, b) = IF a <= b THEN b - a ELSE b - a + IndexModulus
         /\ Successor(a) = IF a = IndexModulus - 1 THEN 0 ELSE a + 1
         /\ Predecessor(a) = IF a = 0 THEN IndexModulus - 1 ELSE a - 1
<1> IndexModulus \in Nat /\ IndexModulus > 0
  BY Sizes
<1>0. a \in Int /\ b \in Int /\ b - a \in Int /\ a + 1 \in Int /\ a - 1 \in Int
  BY DEF Indices
<1> USE <1>0
<1>1. Distance(a, b) = IF a <= b THEN b - a ELSE b - a + IndexModulus
  <2>1. (a <= b => b - a \in 0 .. IndexModulus - 1) /\ (~(a <= b) => b - a \in -IndexModulus .. -1)
    BY DEF Indices
  <2> QED  BY <2>1, Remainder, Zenon DEF Distance
<1>2. Successor(a) = IF a = IndexModulus - 1 THEN 0 ELSE a + 1
  <2>1. /\ a = IndexModulus - 1 => a + 1 \in IndexModulus .. 2 * IndexModulus - 1
        /\ a # IndexModulus - 1 => a + 1 \in 0 .. IndexModulus - 1
    BY DEF Indices
  <2> QED  BY <2>1, Remainder DEF Successor
<1>3. Predecessor(a) = IF a = 0 THEN IndexModulus - 1 ELSE a - 1
  <2>1. /\ a = 0 => a - 1 \in -IndexModulus .. -1
        /\ a # 0 => a - 1 \in 0 .. IndexModulus - 1
    BY DEF Indices
  <2> QED  BY <2>1, Remainder DEF Predecessor
<1> QED  BY <1>1, <1>2, <1>3, Zenon

(* Moving an index by one stays in the width of the index and can be       *)
(* undone.                                                                 *)
LEMMA Neighbours ==
  ASSUME NEW a \in Indices
  PROVE  /\ Successor(a) \in Indices /\ Predecessor(a) \in Indices
         /\ Successor(Predecessor(a)) = a /\ Predecessor(Successor(a)) = a
<1> IndexModulus \in Nat /\ IndexModulus > 0
  BY Sizes
<1>1. Successor(a) \in Indices /\ Predecessor(a) \in Indices
  BY IndexValues DEF Indices
<1> USE <1>1
<1>2. /\ Successor(a) = IF a = IndexModulus - 1 THEN 0 ELSE a + 1
      /\ Predecessor(a) = IF a = 0 THEN IndexModulus - 1 ELSE a - 1
      /\ Successor(Predecessor(a))
           = IF Predecessor(a) = IndexModulus - 1 THEN 0 ELSE Predecessor(a) + 1
      /\ Predecessor(Successor(a))
           = IF Successor(a) = 0 THEN IndexModulus - 1 ELSE Successor(a) - 1
  BY IndexValues, Zenon
<1> QED  BY <1>2 DEF Indices

(* What the proofs use of distances.                                       *)
LEMMA Distances ==
  ASSUME NEW a \in Indices, NEW b \in Indices
  PROVE  /\ Distance(a, b) \in Nat /\ Distance(a, b) < IndexModulus
         /\ Distance(a, b) = 0 <=> a = b
         /\ a # b => Distance(Successor(a), b) = Distance(a, b) - 1
         /\ a # b => Distance(a, Predecessor(b)) = Distance(a, b) - 1
         /\ Distance(a, b) + 1 < IndexModulus =>
              /\ Distance(a, Successor(b)) = Distance(a, b) + 1
              /\ Distance(Predecessor(a), b) = Distance(a, b) + 1
<1> IndexModulus \in Nat /\ IndexModulus > 0
  BY Sizes
<1>1. /\ Successor(a) \in Indices /\ Successor(b) \in Indices
      /\ Predecessor(a) \in Indices /\ Predecessor(b) \in Indices
  BY Neighbours, Zenon
<1> USE <1>1
<1>2. /\ Distance(a, b) = IF a <= b THEN b - a ELSE b - a + IndexModulus
      /\ Distance(Successor(a), b)
           = IF Successor(a) <= b THEN b - Successor(a) ELSE b - Successor(a) + IndexModulus
      /\ Distance(Predecessor(a), b)
           = IF Predecessor(a) <= b THEN b - Predecessor(a) ELSE b - Predecessor(a) + IndexModulus
      /\ Distance(a, Successor(b))
           = IF a <= Successor(b) THEN Successor(b) - a ELSE Successor(b) - a + IndexModulus
      /\ Distance(a, Predecessor(b))
           = IF a <= Predecessor(b) THEN Predecessor(b) - a ELSE Predecessor(b) - a + IndexModulus
  BY IndexValues, Zenon
<1>3. /\ Successor(a) = IF a = IndexModulus - 1 THEN 0 ELSE a + 1
      /\ Predecessor(a) = IF a = 0 THEN IndexModulus - 1 ELSE a - 1
      /\ Successor(b) = IF b = IndexModulus - 1 THEN 0 ELSE b + 1
      /\ Predecessor(b) = IF b = 0 THEN IndexModulus - 1 ELSE b - 1
  BY IndexValues, Zenon
<1> QED  BY <1>2, <1>3 DEF Indices

(* Numbers less than a queue size apart have different slots.              *)
LEMMA SlotApart ==
  ASSUME NEW x \in Int, NEW d \in 1 .. QueueSize - 1
  PROVE  Slot(x) # Slot(x + d)
<1> DEFINE m == x \div QueueSize
           n == (x + d) \div QueueSize
<1>0. QueueSize \in Nat \ {0} /\ d \in Int
  BY Sizes
<1> USE <1>0
<1>1. /\ m \in Int /\ n \in Int /\ Slot(x) \in Int
      /\ x = (QueueSize * m) + Slot(x) /\ x + d = (QueueSize * n) + Slot(x + d)
  BY Division, x + d \in Int DEF Slot
<1> HIDE DEF m, n
<1> SUFFICES ASSUME Slot(x) = Slot(x + d) PROVE FALSE
  BY Zenon
<1> USE <1>1
<1>2. d = QueueSize * (n - m)
  OBVIOUS
<1> USE <1>2
<1>3. n - m > 0
  OBVIOUS
<1>4. QueueSize * (n - m) >= QueueSize
  BY <1>3
<1> QED  BY <1>4

(* The ring size divides the number of index values: an index that wraps   *)
(* goes on in the same slot.                                               *)
LEMMA SlotWrap ==
  ASSUME NEW x \in Int, NEW j \in Int
  PROVE  /\ Slot((x % IndexModulus) + j) = Slot(x + j)
         /\ Slot(x) \in Heads
<1> DEFINE w == x \div IndexModulus
           c == IndexModulus \div QueueSize
           y == (x % IndexModulus) + j
           k == y \div QueueSize
<1>0. QueueSize \in Nat \ {0} /\ IndexModulus \in Nat \ {0}
  BY Sizes, Zenon
<1> USE <1>0
<1>1. w \in Int /\ x % IndexModulus \in Int /\ x = (IndexModulus * w) + (x % IndexModulus)
  BY Division
<1>2. c \in Int /\ IndexModulus = QueueSize * c
  BY Division, VirtqueueAssumption
<1>3. y \in Int
  BY <1>1
<1>4. k \in Int /\ y = (QueueSize * k) + Slot(y) /\ Slot(y) \in 0 .. QueueSize - 1
  BY <1>3, Division, Zenon DEF Slot
<1>5. x + j = (IndexModulus * w) + y
  BY <1>1
<1> HIDE DEF w, c, y, k
<1> USE <1>4
<1>6. x + j = (QueueSize * ((c * w) + k)) + Slot(y)
  <2>1. IndexModulus * w = QueueSize * (c * w)
    BY <1>1, <1>2
  <2>2. QueueSize * ((c * w) + k) = (QueueSize * (c * w)) + (QueueSize * k)
    BY <1>1, <1>2
  <2>3. (QueueSize * (c * w)) \in Int /\ (QueueSize * k) \in Int /\ Slot(y) \in Int
    BY <1>1, <1>2
  <2> QED  BY <1>5, <2>1, <2>2, <2>3
<1>7. (c * w) + k \in Int
  BY <1>1, <1>2
<1>8. (x + j) % QueueSize = Slot(y)
  BY <1>6, <1>7, DivisionUnique, Zenon
<1>9. Slot(x) \in Heads
  BY Division, Zenon DEF Slot, Heads
<1> QED  BY <1>8, <1>9, Zenon DEF Slot, y

(* How a window changes when one of its ends moves by one.                 *)
LEMMA Windows ==
  ASSUME NEW a \in Indices, NEW b \in Indices, Distance(a, b) < QueueSize
  PROVE  /\ Window(a, b) \subseteq Heads /\ Slot(a) \in Heads /\ Slot(b) \in Heads
         /\ Slot(b) \notin Window(a, b)
         /\ Slot(Predecessor(a)) \in Heads /\ Slot(Predecessor(a)) \notin Window(a, b)
         /\ Window(a, Successor(b)) = Window(a, b) \cup {Slot(b)}
         /\ Window(Predecessor(a), b) = Window(a, b) \cup {Slot(Predecessor(a))}
<1> DEFINE n == Distance(a, b)
<1>0. /\ QueueSize \in Nat \ {0} /\ IndexModulus \in Nat \ {0} /\ QueueSize < IndexModulus
      /\ a \in Int /\ b \in Int
  BY Sizes DEF Indices
<1>1. n \in Nat /\ n < QueueSize /\ Distance(a, Successor(b)) = n + 1
      /\ Distance(Predecessor(a), b) = n + 1
  BY <1>0, Distances
<1>2. \A x \in Int : Slot(x) \in Heads
  BY SlotWrap, 0 \in Int, Zenon
<1>3. Slot(b) = Slot(a + n)
  <2>1. b = a + n \/ a + n = b + IndexModulus
    BY <1>0, IndexValues
  <2>2. CASE a + n = b + IndexModulus
    <3>1. b + IndexModulus \in IndexModulus .. 2 * IndexModulus - 1 /\ b + IndexModulus \in Int
      BY <1>0 DEF Indices
    <3> USE <3>1
    <3>2. (b + IndexModulus) % IndexModulus = b
      BY <1>0, Remainder
    <3>3. Slot(((b + IndexModulus) % IndexModulus) + 0) = Slot(b + IndexModulus + 0)
      BY SlotWrap
    <3> QED  BY <1>0, <2>2, <3>2, <3>3
  <2> QED  BY <2>1, <2>2, Zenon
<1>4. \A k \in Int : Slot(Predecessor(a) + k) = Slot(a - 1 + k)
  BY <1>0, SlotWrap, a - 1 \in Int, Zenon DEF Predecessor
<1> HIDE DEF n
<1>5. Window(a, b) = {Slot(a + k) : k \in 0 .. n - 1}
  BY Zenon DEF Window, n
<1>6. \A k \in 0 .. n - 1 : Slot(a + k) # Slot(a + n) /\ Slot(a + k) # Slot(a - 1)
  <2> SUFFICES ASSUME NEW k \in 0 .. n - 1
               PROVE  Slot(a + k) # Slot(a + n) /\ Slot(a + k) # Slot(a - 1)
    BY Zenon
  <2>1. /\ k \in Int /\ n \in Int /\ a + k \in Int /\ a - 1 \in Int
        /\ n - k \in 1 .. QueueSize - 1 /\ k + 1 \in 1 .. QueueSize - 1
        /\ (a + k) + (n - k) = a + n /\ (a - 1) + (k + 1) = a + k
    BY <1>0, <1>1
  <2>2. Slot(a + k) # Slot((a + k) + (n - k)) /\ Slot(a - 1) # Slot((a - 1) + (k + 1))
    BY <2>1, SlotApart, Zenon
  <2> QED  BY <2>1, <2>2, Zenon
<1>7. Slot(Predecessor(a)) = Slot(a - 1)
  <2>1. Predecessor(a) \in Int /\ 0 \in Int
    BY <1>0, Neighbours DEF Indices
  <2>2. Predecessor(a) + 0 = Predecessor(a) /\ a - 1 + 0 = a - 1
    BY <1>0, <2>1
  <2> QED  BY <1>4, <2>1, <2>2, Zenon
<1>8. Window(a, Successor(b)) = Window(a, b) \cup {Slot(b)}
  <2>1. Window(a, Successor(b)) = {Slot(a + k) : k \in 0 .. n}
    BY <1>1 DEF Window
  <2>2. \A k : k \in 0 .. n <=> k \in 0 .. n - 1 \/ k = n
    BY <1>1
  <2> QED  BY <1>3, <1>5, <2>1, <2>2, Zenon
<1> USE <1>7
<1>9. Window(Predecessor(a), b) = Window(a, b) \cup {Slot(Predecessor(a))}
  <2>1. Window(Predecessor(a), b) = {Slot(Predecessor(a) + k) : k \in 0 .. n}
    BY <1>1 DEF Window
  <2>2. \A k \in 0 .. n : Slot(Predecessor(a) + k) = Slot(a - 1 + k)
    BY <1>1, <1>4
  <2>3. \A k \in 0 .. n - 1 : k + 1 \in 0 .. n /\ a - 1 + (k + 1) = a + k
    BY <1>0, <1>1
  <2>4. \A k \in 0 .. n : k = 0 \/ (k - 1 \in 0 .. n - 1 /\ a - 1 + k = a + (k - 1))
    BY <1>0, <1>1
  <2>5. 0 \in 0 .. n /\ a - 1 + 0 = a - 1
    BY <1>0, <1>1
  <2>6. ASSUME NEW s PROVE s \in Window(Predecessor(a), b) => s \in Window(a, b) \cup {Slot(a - 1)}
    BY <1>5, <2>1, <2>2, <2>4, <2>5
  <2>7. ASSUME NEW s PROVE s \in Window(a, b) \cup {Slot(a - 1)} => s \in Window(Predecessor(a), b)
    BY <1>5, <2>1, <2>2, <2>3, <2>5
  <2> QED  BY <2>6, <2>7, Zenon
<1>10. Window(a, b) \subseteq Heads /\ Slot(a) \in Heads /\ Slot(b) \in Heads
       /\ Slot(Predecessor(a)) \in Heads
  <2>1. \A k \in 0 .. n - 1 : a + k \in Int
    BY <1>0, <1>1
  <2>2. a - 1 \in Int
    BY <1>0
  <2> QED  BY <1>0, <1>2, <1>5, <2>1, <2>2, Zenon
<1> QED  BY <1>3, <1>5, <1>6, <1>8, <1>9, <1>10, Zenon

(* The same for an end that moves into the window.                         *)
LEMMA WindowShrinks ==
  ASSUME NEW a \in Indices, NEW b \in Indices, a # b, Distance(a, b) <= QueueSize
  PROVE  /\ Window(a, b) = Window(Successor(a), b) \cup {Slot(a)}
         /\ Slot(a) \notin Window(Successor(a), b)
         /\ Slot(a) \in Heads /\ Window(a, b) \subseteq Heads
<1>1. Successor(a) \in Indices /\ Predecessor(Successor(a)) = a
  BY Neighbours, Zenon
<1>2. Distance(Successor(a), b) < QueueSize
  BY Distances, Sizes
<1> QED  BY <1>1, <1>2, Windows

-----------------------------------------------------------------------------
(***************************************************************************)
(* Chains and the books of an endpoint                                     *)
(***************************************************************************)

(* A list has at most max_chain_length entries.                            *)
LEMMA ListFacts ==
  ASSUME NEW S, NEW s \in Lists(S)
  PROVE  /\ Len(s) \in 0 .. MaxChain /\ DOMAIN s = 1 .. Len(s)
         /\ \A i \in 1 .. Len(s) : s[i] \in S
<1>1. PICK n \in 0 .. MaxChain : s \in [1 .. n -> S]
  BY Zenon DEF Lists
<1> USE <1>1
<1>2. n \in Nat
  BY Sizes
<1>3. s \in Seq(S) /\ Len(s) = n
  BY <1>2
<1> QED  BY <1>3, Zenon

(* The segments of a chain and the heads they use.                         *)
LEMMA SegmentFacts ==
  ASSUME NEW segments \in Lists(Segments)
  PROVE  /\ Len(segments) \in 0 .. MaxChain /\ DOMAIN segments = 1 .. Len(segments)
         /\ \A i \in 1 .. Len(segments) :
              /\ segments[i] \in Segments /\ segments[i].descriptor \in Heads
              /\ segments[i].chain \in DriverChains /\ segments[i].position \in 1 .. MaxChain
         /\ Descriptors(segments) \subseteq Heads
         /\ Len(segments) # 0 =>
              HeadOf(segments) \in Heads /\ HeadOf(segments) \in Descriptors(segments)
<1>1. /\ Len(segments) \in 0 .. MaxChain /\ DOMAIN segments = 1 .. Len(segments)
      /\ \A i \in 1 .. Len(segments) : segments[i] \in Segments
  BY ListFacts, Zenon
<1> USE <1>1
<1>2. \A i \in 1 .. Len(segments) :
        /\ segments[i].descriptor \in Heads
        /\ segments[i].chain \in DriverChains /\ segments[i].position \in 1 .. MaxChain
  BY Zenon DEF Segments
<1>3. Len(segments) # 0 => 1 \in 1 .. Len(segments)
  BY Sizes
<1> QED  BY <1>2, <1>3, Zenon DEF Descriptors, HeadOf

(* The fields of an endpoint have their types.                             *)
LEMMA EndpointFacts ==
  ASSUME NEW objects, NEW vq \in Endpoints(objects)
  PROVE  /\ vq.produced \in Indices /\ vq.consumed \in Indices
         /\ vq.owned \in 0 .. MaxOutstanding
         /\ vq.slots \in [Heads -> objects \cup {None}]
         /\ vq.descriptor_owner \in [Heads -> 0 .. QueueSize]
         /\ vq.last_taken \in objects \cup {None}
         /\ vq.chains \in [objects -> Chains] /\ DOMAIN vq.chains = objects
         /\ vq.faulted \in BOOLEAN /\ vq.at \in Steps /\ vq.chain \in objects \cup {None}
BY Zenon DEF Endpoints

(* The fields of a chain object have their types.                          *)
LEMMA ChainFacts ==
  ASSUME NEW objects, NEW vq \in Endpoints(objects), NEW o \in objects
  PROVE  /\ vq.chains[o] \in Chains
         /\ vq.chains[o].state \in {"FREE", "SUBMITTED", "ACCEPTED", "RETURNED"}
         /\ SegmentsAt(vq, o) \in Lists(Segments)
         /\ vq.chains[o].written \in Lengths /\ vq.chains[o].used_length \in Lengths
         /\ (o \in Busy(vq)) <=> (vq.chains[o].state # "FREE")
         /\ Busy(vq) \subseteq objects
<1>1. vq.chains[o] \in Chains /\ DOMAIN vq.chains = objects
  BY EndpointFacts
<1> QED  BY <1>1, Zenon DEF Chains, SegmentsAt, Busy

(* The chains in the books share no descriptor and no slot.                *)
LEMMA BooksDisjoint ==
  ASSUME NEW objects, NEW vq \in Endpoints(objects), Books(vq),
         NEW o \in Busy(vq), NEW p \in Busy(vq),
         \/ Descriptors(SegmentsAt(vq, o)) \cap Descriptors(SegmentsAt(vq, p)) # {}
         \/ HeadOf(SegmentsAt(vq, o)) = HeadOf(SegmentsAt(vq, p))
  PROVE  o = p
<1>1. o \in objects /\ p \in objects
  BY EndpointFacts, Zenon DEF Busy
<1>2. SegmentsAt(vq, o) \in Lists(Segments) /\ SegmentsAt(vq, p) \in Lists(Segments)
  BY <1>1, ChainFacts, Zenon
<1> USE Sizes
<1>3. Len(SegmentsAt(vq, o)) # 0 /\ Len(SegmentsAt(vq, p)) # 0
  BY DEF Books
<1>4. HeadOf(SegmentsAt(vq, o)) \in Heads /\ HeadOf(SegmentsAt(vq, p)) \in Heads
  BY <1>2, <1>3, SegmentFacts, Zenon
<1>5. HeadOf(SegmentsAt(vq, o)) = HeadOf(SegmentsAt(vq, p))
  <2>1. CASE Descriptors(SegmentsAt(vq, o)) \cap Descriptors(SegmentsAt(vq, p)) # {}
    <3>1. PICK h : h \in Descriptors(SegmentsAt(vq, o)) /\ h \in Descriptors(SegmentsAt(vq, p))
      BY <2>1, Zenon
    <3>2. HeadOf(SegmentsAt(vq, o)) + 1 = HeadOf(SegmentsAt(vq, p)) + 1
      BY <3>1 DEF Books
    <3> QED  BY <1>4, <3>2 DEF Heads
  <2> QED  BY <2>1, Zenon
<1> QED  BY <1>5, Zenon DEF Books

(* The fields of an endpoint after a claim, a drop and a move.             *)
LEMMA ClaimFields ==
  ASSUME NEW objects, NEW vq \in Endpoints(objects), NEW o \in objects,
         NEW segments \in Lists(Segments), Len(segments) # 0, NEW state
  PROVE  LET new == Claim(vq, o, segments, state) IN
         /\ new.slots = [vq.slots EXCEPT ![HeadOf(segments)] = o]
         /\ new.owned = vq.owned + 1
         /\ \A h \in Heads : new.descriptor_owner[h] =
              IF h \in Descriptors(segments) THEN HeadOf(segments) + 1 ELSE vq.descriptor_owner[h]
         /\ new.chains = [vq.chains EXCEPT ![o] =
              [state |-> state, segments |-> segments, written |-> 0, used_length |-> 0]]
         /\ new.produced = vq.produced /\ new.consumed = vq.consumed
         /\ new.last_taken = vq.last_taken /\ new.faulted = vq.faulted
         /\ new.at = vq.at /\ new.chain = vq.chain
<1> DEFINE new == Claim(vq, o, segments, state)
<1>1. new.slots = [vq.slots EXCEPT ![HeadOf(segments)] = o]
  BY Zenon DEF Claim, Endpoints
<1>2. new.owned = vq.owned + 1
  BY Zenon DEF Claim, Endpoints
<1>3. \A h \in Heads : new.descriptor_owner[h] =
        IF h \in Descriptors(segments) THEN HeadOf(segments) + 1 ELSE vq.descriptor_owner[h]
  BY Zenon DEF Claim, Endpoints
<1>4. new.chains = [vq.chains EXCEPT ![o] =
        [state |-> state, segments |-> segments, written |-> 0, used_length |-> 0]]
  BY Zenon DEF Claim, Endpoints
<1>5. /\ new.produced = vq.produced /\ new.consumed = vq.consumed
      /\ new.last_taken = vq.last_taken /\ new.faulted = vq.faulted
      /\ new.at = vq.at /\ new.chain = vq.chain
  BY Zenon DEF Claim, Endpoints
<1> QED  BY <1>1, <1>2, <1>3, <1>4, <1>5, Zenon

(* Claiming a chain keeps an endpoint an endpoint.                         *)
LEMMA ClaimType ==
  ASSUME NEW objects, NEW vq \in Endpoints(objects), NEW o \in objects,
         NEW segments \in Lists(Segments), Len(segments) # 0, vq.owned # MaxOutstanding,
         NEW state \in {"SUBMITTED", "ACCEPTED"}
  PROVE  Claim(vq, o, segments, state) \in Endpoints(objects)
<1> DEFINE c == [state |-> state, segments |-> segments, written |-> 0, used_length |-> 0]
           owner == [h \in Heads |-> IF h \in Descriptors(segments)
                                       THEN HeadOf(segments) + 1 ELSE vq.descriptor_owner[h]]
           n == vq.owned + 1
<1> USE Sizes
<1>1. c \in Chains
  BY DEF Chains, Lengths
<1>2. n \in 0 .. MaxOutstanding
  BY EndpointFacts
<1>3. HeadOf(segments) \in Heads /\ HeadOf(segments) + 1 \in 0 .. QueueSize
  BY SegmentFacts DEF Heads
<1> USE <1>3
<1>4. owner \in [Heads -> 0 .. QueueSize]
  BY EndpointFacts
<1>5. Claim(vq, o, segments, state)
        = [vq EXCEPT !.slots[HeadOf(segments)] = o, !.owned = n,
                     !.descriptor_owner = owner, !.chains[o] = c]
  BY Zenon DEF Claim
<1> HIDE DEF c, owner, n
<1>6. [vq EXCEPT !.slots[HeadOf(segments)] = o, !.owned = n,
                 !.descriptor_owner = owner, !.chains[o] = c] \in Endpoints(objects)
  BY <1>1, <1>2, <1>4, Zenon DEF Endpoints
<1> QED  BY <1>5, <1>6, Zenon

(* The fields of an endpoint after a drop.                                 *)
LEMMA DropFields ==
  ASSUME NEW objects, NEW vq \in Endpoints(objects), NEW o \in objects
  PROVE  LET new == Drop(vq, o) IN
         /\ new.slots = [vq.slots EXCEPT ![HeadOf(SegmentsAt(vq, o))] = None]
         /\ new.owned = vq.owned - 1
         /\ \A h \in Heads : new.descriptor_owner[h] =
              IF h \in Descriptors(SegmentsAt(vq, o)) THEN 0 ELSE vq.descriptor_owner[h]
         /\ new.chains = [vq.chains EXCEPT ![o] = FreeChain]
         /\ new.last_taken = IF vq.last_taken = o THEN None ELSE vq.last_taken
         /\ new.produced = vq.produced /\ new.consumed = vq.consumed
         /\ new.faulted = vq.faulted /\ new.at = vq.at /\ new.chain = vq.chain
<1> DEFINE new == Drop(vq, o)
<1>1. new.slots = [vq.slots EXCEPT ![HeadOf(SegmentsAt(vq, o))] = None]
  BY Zenon DEF Drop, Endpoints, SegmentsAt
<1>2. new.owned = vq.owned - 1
  BY Zenon DEF Drop, Endpoints, SegmentsAt
<1>3. \A h \in Heads : new.descriptor_owner[h] =
        IF h \in Descriptors(SegmentsAt(vq, o)) THEN 0 ELSE vq.descriptor_owner[h]
  BY Zenon DEF Drop, Endpoints, SegmentsAt
<1>4. new.chains = [vq.chains EXCEPT ![o] = FreeChain]
  BY Zenon DEF Drop, Endpoints, SegmentsAt
<1>5. new.last_taken = IF vq.last_taken = o THEN None ELSE vq.last_taken
  BY Zenon DEF Drop, Endpoints, SegmentsAt
<1>6. /\ new.produced = vq.produced /\ new.consumed = vq.consumed
      /\ new.faulted = vq.faulted /\ new.at = vq.at /\ new.chain = vq.chain
  BY Zenon DEF Drop, Endpoints, SegmentsAt
<1> QED  BY <1>1, <1>2, <1>3, <1>4, <1>5, <1>6, Zenon

(* Dropping a chain keeps an endpoint an endpoint.                         *)
LEMMA DropType ==
  ASSUME NEW objects, NEW vq \in Endpoints(objects), NEW o \in objects,
         HeadOf(SegmentsAt(vq, o)) \in Heads, vq.owned # 0
  PROVE  Drop(vq, o) \in Endpoints(objects)
<1> DEFINE owner == [h \in Heads |-> IF h \in Descriptors(SegmentsAt(vq, o))
                                       THEN 0 ELSE vq.descriptor_owner[h]]
           n == vq.owned - 1
           last == IF vq.last_taken = o THEN None ELSE vq.last_taken
<1> USE Sizes
<1>1. FreeChain \in Chains
  <2>1. <<>> \in Lists(Segments)
    <3>1. 0 \in 0 .. MaxChain /\ <<>> \in [1 .. 0 -> Segments]
      OBVIOUS
    <3> QED  BY <3>1, Zenon DEF Lists
  <2> QED  BY <2>1 DEF FreeChain, Chains, Lengths
<1>2. n \in 0 .. MaxOutstanding
  BY EndpointFacts
<1>3. owner \in [Heads -> 0 .. QueueSize]
  BY EndpointFacts
<1>4. last \in objects \cup {None}
  BY EndpointFacts, Zenon
<1>5. Drop(vq, o)
        = [vq EXCEPT !.slots[HeadOf(SegmentsAt(vq, o))] = None, !.owned = n,
                     !.descriptor_owner = owner, !.last_taken = last, !.chains[o] = FreeChain]
  BY Zenon DEF Drop, SegmentsAt
<1> HIDE DEF owner, n, last
<1>6. [vq EXCEPT !.slots[HeadOf(SegmentsAt(vq, o))] = None, !.owned = n,
                 !.descriptor_owner = owner, !.last_taken = last, !.chains[o] = FreeChain]
        \in Endpoints(objects)
  BY <1>1, <1>2, <1>3, <1>4, Zenon DEF Endpoints
<1> QED  BY <1>5, <1>6, Zenon

(* An endpoint that only changes where it stands.                          *)
LEMMA BooksOfFields ==
  ASSUME NEW vq, NEW new, Books(vq), new.owned = vq.owned, new.slots = vq.slots,
         new.descriptor_owner = vq.descriptor_owner, new.chains = vq.chains
  PROVE  Books(new) /\ Busy(new) = Busy(vq) /\ \A o : SegmentsAt(new, o) = SegmentsAt(vq, o)
BY DEF Books, Busy, SegmentsAt

(* An endpoint that changes what a chain has become and no chain's list.   *)
LEMMA BooksOfSegments ==
  ASSUME NEW vq, NEW new, Books(vq), new.owned = vq.owned, new.slots = vq.slots,
         new.descriptor_owner = vq.descriptor_owner, Busy(new) = Busy(vq),
         \A o \in Busy(vq) : SegmentsAt(new, o) = SegmentsAt(vq, o)
  PROVE  Books(new)
BY DEF Books

(* Claiming a free object for a valid chain keeps the books.               *)
LEMMA ClaimBooks ==
  ASSUME NEW objects, None \notin objects, NEW vq \in Endpoints(objects), Books(vq),
         NEW o \in objects, vq.chains[o].state = "FREE", vq.owned # MaxOutstanding,
         NEW segments \in Lists(Segments), Len(segments) # 0, ValidChain(vq, segments),
         NEW state \in {"SUBMITTED", "ACCEPTED"}
  PROVE  LET new == Claim(vq, o, segments, state) IN
         /\ new \in Endpoints(objects) /\ Books(new)
         /\ Busy(new) = Busy(vq) \cup {o} /\ o \notin Busy(vq)
<1> DEFINE new == Claim(vq, o, segments, state)
           head == HeadOf(segments)
<1>0. /\ vq.owned \in 0 .. MaxOutstanding
      /\ vq.slots \in [Heads -> objects \cup {None}]
      /\ vq.descriptor_owner \in [Heads -> 0 .. QueueSize]
      /\ vq.chains \in [objects -> Chains] /\ DOMAIN vq.chains = objects
      /\ Busy(vq) \subseteq objects
  BY EndpointFacts, Zenon DEF Busy
<1>1. /\ new.slots = [vq.slots EXCEPT ![head] = o]
      /\ new.owned = vq.owned + 1
      /\ \A h \in Heads : new.descriptor_owner[h] =
           IF h \in Descriptors(segments) THEN head + 1 ELSE vq.descriptor_owner[h]
      /\ new.chains = [vq.chains EXCEPT ![o] =
           [state |-> state, segments |-> segments, written |-> 0, used_length |-> 0]]
  BY ClaimFields
<1>2. /\ head \in Heads /\ head \in Descriptors(segments) /\ Descriptors(segments) \subseteq Heads
      /\ Len(segments) \in 1 .. MaxChain
  BY SegmentFacts
<1>3. /\ vq.slots[head] = None /\ Cardinality(Descriptors(segments)) = Len(segments)
      /\ \A h \in Descriptors(segments) : vq.descriptor_owner[h] = 0
  BY Zenon DEF ValidChain
<1>5. new \in Endpoints(objects)
  BY ClaimType, Zenon
<1> HIDE DEF new, head
<1>6. Busy(new) = Busy(vq) \cup {o} /\ o \notin Busy(vq)
  BY <1>0, <1>1 DEF Busy
<1>7. /\ SegmentsAt(new, o) = segments
      /\ \A p \in Busy(vq) : p # o /\ SegmentsAt(new, p) = SegmentsAt(vq, p)
  BY <1>0, <1>1, <1>6 DEF SegmentsAt
<1>8. \A p \in Busy(vq) :
        /\ HeadOf(SegmentsAt(vq, p)) \in Heads
        /\ HeadOf(SegmentsAt(vq, p)) \in Descriptors(SegmentsAt(vq, p))
        /\ Descriptors(SegmentsAt(vq, p)) \subseteq Heads
        /\ vq.slots[HeadOf(SegmentsAt(vq, p))] = p
        /\ Len(SegmentsAt(vq, p)) \in 1 .. MaxChain
        /\ Cardinality(Descriptors(SegmentsAt(vq, p))) = Len(SegmentsAt(vq, p))
        /\ \A h \in Descriptors(SegmentsAt(vq, p)) :
             vq.descriptor_owner[h] = HeadOf(SegmentsAt(vq, p)) + 1
  <2> SUFFICES ASSUME NEW p \in Busy(vq)
               PROVE  /\ HeadOf(SegmentsAt(vq, p)) \in Heads
                      /\ HeadOf(SegmentsAt(vq, p)) \in Descriptors(SegmentsAt(vq, p))
                      /\ Descriptors(SegmentsAt(vq, p)) \subseteq Heads
    BY Zenon DEF Books
  <2>1. SegmentsAt(vq, p) \in Lists(Segments) /\ Len(SegmentsAt(vq, p)) # 0
    BY <1>0, ChainFacts, Sizes DEF Books
  <2> QED  BY <2>1, SegmentFacts, Zenon
<1>9. \A p \in Busy(vq) : \A h \in Descriptors(SegmentsAt(vq, p)) :
        h \notin Descriptors(segments)
  BY <1>3, <1>8, Sizes DEF Heads
<1>10. IsFiniteSet(Busy(new)) /\ new.owned = Cardinality(Busy(new))
  <2>1. IsFiniteSet(Busy(vq)) /\ vq.owned = Cardinality(Busy(vq))
    BY Zenon DEF Books
  <2> QED  BY <1>1, <1>6, <2>1 DEF Books, FiniteSetFacts, AddCounts
<1> USE <1>2, <1>7
<1>11. \A h \in Heads : new.slots[h] # None =>
         new.slots[h] \in Busy(new) /\ HeadOf(SegmentsAt(new, new.slots[h])) = h
  <2> SUFFICES ASSUME NEW h \in Heads, new.slots[h] # None
               PROVE  new.slots[h] \in Busy(new) /\ HeadOf(SegmentsAt(new, new.slots[h])) = h
    BY Zenon
  <2>1. CASE h = head
    BY <1>0, <1>1, <1>6, <2>1, Zenon DEF head
  <2>2. CASE h # head
    <3>1. new.slots[h] = vq.slots[h]
      BY <1>0, <1>1, <2>2, Zenon
    <3> USE <3>1
    <3>2. vq.slots[h] \in Busy(vq) /\ HeadOf(SegmentsAt(vq, vq.slots[h])) = h
      BY Zenon DEF Books
    <3> QED  BY <1>6, <3>2, Zenon
  <2> QED  BY <2>1, <2>2, Zenon
<1>12. \A p \in Busy(new) :
         /\ Len(SegmentsAt(new, p)) \in 1 .. MaxChain
         /\ new.slots[HeadOf(SegmentsAt(new, p))] = p
         /\ Cardinality(Descriptors(SegmentsAt(new, p))) = Len(SegmentsAt(new, p))
         /\ \A h \in Descriptors(SegmentsAt(new, p)) :
              new.descriptor_owner[h] = HeadOf(SegmentsAt(new, p)) + 1
  <2>1. ASSUME NEW p \in Busy(vq)
        PROVE  /\ new.slots[HeadOf(SegmentsAt(vq, p))] = p
               /\ \A h \in Descriptors(SegmentsAt(vq, p)) :
                    new.descriptor_owner[h] = HeadOf(SegmentsAt(vq, p)) + 1
    <3> USE <1>9
    <3>1. HeadOf(SegmentsAt(vq, p)) # head
      BY <1>8, Zenon
    <3>2. new.slots[HeadOf(SegmentsAt(vq, p))] = p
      BY <1>0, <1>1, <1>8, <3>1, Zenon
    <3>3. \A h \in Descriptors(SegmentsAt(vq, p)) :
            new.descriptor_owner[h] = HeadOf(SegmentsAt(vq, p)) + 1
      BY <1>1, <1>8, Zenon
    <3> QED  BY <3>2, <3>3, Zenon
  <2>2. /\ new.slots[head] = o
        /\ \A h \in Descriptors(segments) : new.descriptor_owner[h] = head + 1
    BY <1>0, <1>1, Zenon
  <2>3. HeadOf(SegmentsAt(new, o)) = head
    BY Zenon DEF head
  <2> QED  BY <1>3, <1>6, <1>8, <2>1, <2>2, <2>3
<1>13. \A h \in Heads : new.descriptor_owner[h] # 0 =>
         \E p \in Busy(new) : h \in Descriptors(SegmentsAt(new, p))
  <2> SUFFICES ASSUME NEW h \in Heads, new.descriptor_owner[h] # 0
               PROVE  \E p \in Busy(new) : h \in Descriptors(SegmentsAt(new, p))
    BY Zenon
  <2>1. CASE h \in Descriptors(segments)
    BY <1>6, <2>1, Zenon
  <2>2. CASE h \notin Descriptors(segments)
    <3>1. vq.descriptor_owner[h] # 0
      BY <1>1, <2>2, Zenon
    <3>2. PICK p \in Busy(vq) : h \in Descriptors(SegmentsAt(vq, p))
      BY <3>1, Zenon DEF Books
    <3> QED  BY <1>6, <3>2, Zenon
  <2> QED  BY <2>1, <2>2, Zenon
<1>14. Books(new)
  BY <1>10, <1>11, <1>12, <1>13, Zenon DEF Books
<1> QED  BY <1>5, <1>6, <1>14, Zenon DEF new

(* What the books say of one busy chain.                                   *)
LEMMA BusyFacts ==
  ASSUME NEW objects, NEW vq \in Endpoints(objects), Books(vq), NEW o \in Busy(vq)
  PROVE  /\ o \in objects /\ SegmentsAt(vq, o) \in Lists(Segments)
         /\ Len(SegmentsAt(vq, o)) \in 1 .. MaxChain /\ Len(SegmentsAt(vq, o)) # 0
         /\ HeadOf(SegmentsAt(vq, o)) \in Heads
         /\ HeadOf(SegmentsAt(vq, o)) \in Descriptors(SegmentsAt(vq, o))
         /\ Descriptors(SegmentsAt(vq, o)) \subseteq Heads
         /\ vq.slots[HeadOf(SegmentsAt(vq, o))] = o
         /\ Cardinality(Descriptors(SegmentsAt(vq, o))) = Len(SegmentsAt(vq, o))
         /\ \A h \in Descriptors(SegmentsAt(vq, o)) :
              vq.descriptor_owner[h] = HeadOf(SegmentsAt(vq, o)) + 1
         /\ vq.owned # 0
<1>1. o \in objects
  BY EndpointFacts, Zenon DEF Busy
<1>2. /\ Len(SegmentsAt(vq, o)) \in 1 .. MaxChain
      /\ vq.slots[HeadOf(SegmentsAt(vq, o))] = o
      /\ Cardinality(Descriptors(SegmentsAt(vq, o))) = Len(SegmentsAt(vq, o))
      /\ \A h \in Descriptors(SegmentsAt(vq, o)) :
           vq.descriptor_owner[h] = HeadOf(SegmentsAt(vq, o)) + 1
  BY Zenon DEF Books
<1> USE <1>1, <1>2
<1>3. SegmentsAt(vq, o) \in Lists(Segments) /\ Len(SegmentsAt(vq, o)) # 0
  BY ChainFacts, Sizes
<1> USE <1>3
<1>4. /\ HeadOf(SegmentsAt(vq, o)) \in Heads
      /\ HeadOf(SegmentsAt(vq, o)) \in Descriptors(SegmentsAt(vq, o))
      /\ Descriptors(SegmentsAt(vq, o)) \subseteq Heads
  BY SegmentFacts, Zenon
<1>5. vq.owned # 0
  BY Zenon DEF Books, FiniteSetFacts, EmptyCounts
<1> QED  BY <1>4, <1>5, Zenon

(* Dropping a busy chain keeps the books.                                  *)
LEMMA DropBooks ==
  ASSUME NEW objects, None \notin objects, NEW vq \in Endpoints(objects), Books(vq),
         NEW o \in Busy(vq)
  PROVE  LET new == Drop(vq, o) IN
         /\ new \in Endpoints(objects) /\ Books(new)
         /\ Busy(new) = Busy(vq) \ {o}
         /\ \A p \in Busy(new) : SegmentsAt(new, p) = SegmentsAt(vq, p)
<1> DEFINE new == Drop(vq, o)
           head == HeadOf(SegmentsAt(vq, o))
<1>0. /\ vq.owned \in 0 .. MaxOutstanding
      /\ vq.slots \in [Heads -> objects \cup {None}]
      /\ vq.descriptor_owner \in [Heads -> 0 .. QueueSize]
      /\ vq.chains \in [objects -> Chains] /\ DOMAIN vq.chains = objects
      /\ Busy(vq) \subseteq objects
  BY EndpointFacts, Zenon DEF Busy
<1>1. /\ new.slots = [vq.slots EXCEPT ![head] = None]
      /\ new.owned = vq.owned - 1
      /\ \A h \in Heads : new.descriptor_owner[h] =
           IF h \in Descriptors(SegmentsAt(vq, o)) THEN 0 ELSE vq.descriptor_owner[h]
      /\ new.chains = [vq.chains EXCEPT ![o] = FreeChain]
  <2>1. o \in objects
    BY <1>0, Zenon
  <2> QED  BY <2>1, DropFields
<1>2. \A p \in Busy(vq) :
        /\ HeadOf(SegmentsAt(vq, p)) \in Heads
        /\ HeadOf(SegmentsAt(vq, p)) \in Descriptors(SegmentsAt(vq, p))
        /\ Descriptors(SegmentsAt(vq, p)) \subseteq Heads
        /\ vq.slots[HeadOf(SegmentsAt(vq, p))] = p
        /\ Len(SegmentsAt(vq, p)) \in 1 .. MaxChain
        /\ Cardinality(Descriptors(SegmentsAt(vq, p))) = Len(SegmentsAt(vq, p))
        /\ \A h \in Descriptors(SegmentsAt(vq, p)) :
             vq.descriptor_owner[h] = HeadOf(SegmentsAt(vq, p)) + 1
  BY BusyFacts
<1>3. new \in Endpoints(objects)
  BY <1>0, <1>2, BusyFacts, DropType
<1> HIDE DEF new, head
<1> USE <1>1
<1>4. Busy(new) = Busy(vq) \ {o}
  BY <1>0 DEF Busy, FreeChain
<1> USE <1>4
<1>5. \A p \in Busy(new) : p # o /\ SegmentsAt(new, p) = SegmentsAt(vq, p)
  BY <1>0, Zenon DEF SegmentsAt
<1>6. \A p \in Busy(new) : \A h \in Descriptors(SegmentsAt(vq, p)) :
        h \notin Descriptors(SegmentsAt(vq, o))
  BY <1>5, BooksDisjoint, Zenon
<1>7. IsFiniteSet(Busy(new)) /\ new.owned = Cardinality(Busy(new))
  <2>1. IsFiniteSet(Busy(vq)) /\ vq.owned = Cardinality(Busy(vq))
    BY Zenon DEF Books
  <2> QED  BY <2>1 DEF Books, FiniteSetFacts, RemoveCounts
<1>8. head \in Heads /\ head \in Descriptors(SegmentsAt(vq, o)) /\ vq.slots[head] = o
  BY <1>2, Zenon DEF head
<1>9. \A h \in Heads : new.slots[h] # None =>
        new.slots[h] \in Busy(new) /\ HeadOf(SegmentsAt(new, new.slots[h])) = h
  <2> SUFFICES ASSUME NEW h \in Heads, new.slots[h] # None
               PROVE  new.slots[h] \in Busy(new) /\ HeadOf(SegmentsAt(new, new.slots[h])) = h
    BY Zenon
  <2>1. h # head /\ new.slots[h] = vq.slots[h]
    BY <1>0, Zenon
  <2> USE <2>1
  <2>2. vq.slots[h] \in Busy(vq) /\ HeadOf(SegmentsAt(vq, vq.slots[h])) = h
    BY Zenon DEF Books
  <2> USE <2>2
  <2>3. vq.slots[h] # o
    BY Zenon DEF head
  <2> QED  BY <1>5, <2>3, Zenon
<1>10. \A p \in Busy(new) :
         /\ Len(SegmentsAt(new, p)) \in 1 .. MaxChain
         /\ new.slots[HeadOf(SegmentsAt(new, p))] = p
         /\ Cardinality(Descriptors(SegmentsAt(new, p))) = Len(SegmentsAt(new, p))
         /\ \A h \in Descriptors(SegmentsAt(new, p)) :
              new.descriptor_owner[h] = HeadOf(SegmentsAt(new, p)) + 1
  <2> SUFFICES ASSUME NEW p \in Busy(new)
               PROVE  /\ new.slots[HeadOf(SegmentsAt(vq, p))] = p
                      /\ \A h \in Descriptors(SegmentsAt(vq, p)) :
                           new.descriptor_owner[h] = HeadOf(SegmentsAt(vq, p)) + 1
    BY <1>2, <1>5
  <2> USE <1>6
  <2>1. HeadOf(SegmentsAt(vq, p)) # head
    BY <1>2, <1>8, Zenon
  <2>2. new.slots[HeadOf(SegmentsAt(vq, p))] = p
    BY <1>0, <1>2, <2>1, Zenon
  <2>3. \A h \in Descriptors(SegmentsAt(vq, p)) :
          new.descriptor_owner[h] = HeadOf(SegmentsAt(vq, p)) + 1
    BY <1>2, Zenon
  <2> QED  BY <2>2, <2>3, Zenon
<1>11. \A h \in Heads : new.descriptor_owner[h] # 0 =>
         \E p \in Busy(new) : h \in Descriptors(SegmentsAt(new, p))
  <2> SUFFICES ASSUME NEW h \in Heads, new.descriptor_owner[h] # 0
               PROVE  \E p \in Busy(new) : h \in Descriptors(SegmentsAt(new, p))
    BY Zenon
  <2>1. h \notin Descriptors(SegmentsAt(vq, o)) /\ vq.descriptor_owner[h] # 0
    BY Zenon
  <2> USE <2>1
  <2>2. PICK p \in Busy(vq) : h \in Descriptors(SegmentsAt(vq, p))
    BY Zenon DEF Books
  <2> QED  BY <1>5, <2>2, Zenon
<1>12. Books(new)
  BY <1>7, <1>9, <1>10, <1>11, Zenon DEF Books
<1> QED  BY <1>3, <1>5, <1>12, Zenon DEF new

-----------------------------------------------------------------------------
(***************************************************************************)
(* What the invariant says of the current state                            *)
(***************************************************************************)

(* The types of the state, and what separates None from the chain objects. *)
LEMMA Facts ==
  ASSUME IInv
  PROVE  /\ drv \in Endpoints(DriverChains) /\ dev \in Endpoints(DeviceChains)
         /\ None \notin DriverChains /\ None \notin DeviceChains
         /\ drv.produced \in Indices /\ drv.consumed \in Indices
         /\ dev.produced \in Indices /\ dev.consumed \in Indices
         /\ avail \in [idx : Indices, ring : [Heads -> Heads]]
         /\ avail.ring \in [Heads -> Heads]
         /\ used \in [idx : Indices, ring : [Heads -> [head : Heads, length : Lengths]]]
         /\ used.ring \in [Heads -> [head : Heads, length : Lengths]]
         /\ Submitted \subseteq Busy(drv) /\ IsFiniteSet(Submitted)
         /\ Cardinality(Submitted) \in Nat /\ Cardinality(Submitted) <= drv.owned
         /\ Unanswered \subseteq Busy(dev)
<1>1. drv \in Endpoints(DriverChains) /\ dev \in Endpoints(DeviceChains)
  BY Zenon DEF IInv, TypeOK
<1>2. None \notin DriverChains /\ None \notin DeviceChains
  BY VirtqueueAssumption, Zenon
<1> USE <1>1
<1>3. /\ drv.produced \in Indices /\ drv.consumed \in Indices
      /\ dev.produced \in Indices /\ dev.consumed \in Indices
  BY EndpointFacts, Zenon
<1>4. /\ avail \in [idx : Indices, ring : [Heads -> Heads]]
      /\ used \in [idx : Indices, ring : [Heads -> [head : Heads, length : Lengths]]]
  BY Zenon DEF IInv, TypeOK
<1> USE <1>4
<1>5. avail.ring \in [Heads -> Heads] /\ used.ring \in [Heads -> [head : Heads, length : Lengths]]
  BY Zenon
<1>6. Submitted \subseteq Busy(drv) /\ Unanswered \subseteq Busy(dev)
  BY EndpointFacts DEF Submitted, Unanswered, Busy
<1> USE <1>6
<1>7. /\ IsFiniteSet(Submitted) /\ Cardinality(Submitted) \in Nat
      /\ Cardinality(Submitted) <= drv.owned
  <2>1. IsFiniteSet(Busy(drv)) /\ drv.owned = Cardinality(Busy(drv))
    BY Zenon DEF IInv, Books
  <2>2. FiniteSetFacts
    BY Zenon DEF IInv, Books
  <2> QED  BY <2>1, <2>2 DEF FiniteSetFacts, SubsetCounts, EmptyCounts
<1> QED  BY <1>2, <1>3, <1>5, <1>7, Zenon

(* How far apart the four counters are: all requests in flight fit into    *)
(* the rings.                                                              *)
LEMMA Spaces ==
  ASSUME IInv
  PROVE  /\ Distance(drv.consumed, dev.produced) \in Nat
         /\ Distance(dev.produced, dev.consumed) \in Nat
         /\ Distance(dev.consumed, drv.produced) \in Nat
         /\ Distance(drv.consumed, drv.produced) \in Nat
         /\ Distance(drv.consumed, dev.produced) + Distance(dev.produced, dev.consumed)
              + Distance(dev.consumed, drv.produced) = Distance(drv.consumed, drv.produced)
         /\ Distance(drv.consumed, drv.produced) <= Cardinality(Submitted)
         /\ Cardinality(Submitted) \in Nat
         /\ Cardinality(Submitted) <= drv.owned /\ drv.owned \in Nat
         /\ drv.owned <= MaxOutstanding
         /\ AvailSlots \subseteq Heads /\ UsedSlots \subseteq Heads
<1> USE Facts
<1>1. /\ Distance(drv.consumed, dev.produced) \in Nat
      /\ Distance(dev.produced, dev.consumed) \in Nat
      /\ Distance(dev.consumed, drv.produced) \in Nat
      /\ Distance(drv.consumed, drv.produced) \in Nat
  BY Distances, Zenon
<1>2. /\ Distance(drv.consumed, dev.produced) + Distance(dev.produced, dev.consumed)
           + Distance(dev.consumed, drv.produced) = Distance(drv.consumed, drv.produced)
      /\ Distance(drv.consumed, drv.produced) + (IF drv.at = "store" THEN 1 ELSE 0)
           <= Cardinality(Submitted)
  BY Zenon DEF IInv, Counts
<1>3. /\ Cardinality(Submitted) \in Nat /\ Cardinality(Submitted) <= drv.owned
      /\ drv.owned \in 0 .. MaxOutstanding
  BY EndpointFacts, Zenon
<1> USE <1>1, <1>2, <1>3
<1>4. Distance(drv.consumed, drv.produced) <= Cardinality(Submitted)
  OBVIOUS
<1>5. \A x \in Int : Slot(x) \in Heads
  BY SlotWrap, 0 \in Int, Zenon
<1>6. ASSUME NEW a \in Indices, NEW b \in Indices PROVE Window(a, b) \subseteq Heads
  <2>1. Distance(a, b) \in Nat /\ a \in Int
    BY Distances DEF Indices
  <2>2. \A k \in 0 .. Distance(a, b) - 1 : a + k \in Int
    BY <2>1
  <2> QED  BY <1>5, <2>2 DEF Window
<1>7. AvailSlots \subseteq Heads /\ UsedSlots \subseteq Heads
  BY <1>6, Zenon DEF AvailSlots, UsedSlots
<1> QED  BY <1>4, <1>7, Sizes

(* A chain the device has not answered takes a place between the counters. *)
LEMMA HeldCounted ==
  ASSUME IInv, Unanswered # {}
  PROVE  Distance(dev.produced, dev.consumed) >= 1
<1>1. PICK o \in Unanswered : TRUE
  BY Zenon
<1>2. /\ IsFiniteSet(Busy(dev)) /\ dev.owned = Cardinality(Busy(dev))
      /\ o \in Busy(dev) /\ Distance(dev.produced, dev.consumed) \in Nat
      /\ dev.owned = Distance(dev.produced, dev.consumed)
                      + (IF dev.at \in {"event", "published"} THEN 1 ELSE 0)
  BY <1>1, Facts, Spaces, Zenon DEF IInv, Books, Counts
<1> FiniteSetFacts
  BY Zenon DEF IInv, Books
<1>3. IsFiniteSet({o}) /\ Cardinality({o}) = 1
  <2>1. {o} = {} \cup {o} /\ o \notin {}
    BY Zenon
  <2>2. IsFiniteSet({}) /\ Cardinality({}) = 0
    BY Zenon DEF FiniteSetFacts, EmptyCounts
  <2> USE <2>2
  <2>3. /\ IsFiniteSet({} \cup {o})
        /\ Cardinality({} \cup {o}) = IF o \in {} THEN Cardinality({}) ELSE Cardinality({}) + 1
    BY Zenon DEF FiniteSetFacts, AddCounts
  <2> QED  BY <2>1, <2>3
<1> USE <1>3
<1>4. CASE dev.at \in {"event", "published"}
  <2>1. dev.chain \in Busy(dev) /\ dev.chain # o
    BY <1>1, <1>4, Zenon DEF IInv, DeviceState, Unanswered
  <2>2. Cardinality({o} \cup {dev.chain}) = 2
    <3>1. Cardinality({o} \cup {dev.chain})
            = IF dev.chain \in {o} THEN Cardinality({o}) ELSE Cardinality({o}) + 1
      BY Zenon DEF FiniteSetFacts, AddCounts
    <3> QED  BY <2>1, <3>1
  <2>3. Cardinality({o} \cup {dev.chain}) <= Cardinality(Busy(dev))
    BY <1>1, <1>2, <2>1, Zenon DEF FiniteSetFacts, SubsetCounts
  <2> QED  BY <1>2, <1>4, <2>2, <2>3 DEF FiniteSetFacts, EmptyCounts
<1>5. CASE dev.at \notin {"event", "published"}
  <2>1. Cardinality({o}) <= Cardinality(Busy(dev))
    BY <1>2, Zenon DEF FiniteSetFacts, SubsetCounts
  <2> QED  BY <1>2, <1>5, <2>1
<1> QED  BY <1>4, <1>5, Zenon

(* The head of a request in flight leads to its chain.                     *)
LEMMA HeadFacts ==
  ASSUME IInv, NEW h \in StoreHeads \cup AvailHeads \cup HeldHeads \cup UsedHeads
  PROVE  /\ h \in Heads /\ drv.slots[h] \in Submitted /\ drv.slots[h] \in Busy(drv)
         /\ drv.slots[h] \in DriverChains /\ drv.slots[h] # None
         /\ HeadOf(SegmentsAt(drv, drv.slots[h])) = h
<1> USE Facts
<1>1. h \in Heads
  <2>1. CASE h \in StoreHeads
    <3>1. drv.chain \in Busy(drv) /\ h = HeadOf(SegmentsAt(drv, drv.chain))
      BY <2>1, Zenon DEF StoreHeads, IInv, DriverState
    <3> QED  BY <3>1, BusyFacts DEF IInv
  <2> USE Spaces
  <2>2. CASE h \in AvailHeads
    BY <2>2, Zenon DEF AvailHeads
  <2>3. CASE h \in HeldHeads
    <3>1. PICK o \in Unanswered : h = HeadOf(SegmentsAt(dev, o))
      BY <2>3, Zenon DEF HeldHeads
    <3> QED  BY <3>1, BusyFacts, Zenon DEF IInv
  <2>4. CASE h \in UsedHeads
    BY <2>4, Zenon DEF UsedHeads
  <2> QED  BY <2>1, <2>2, <2>3, <2>4, Zenon
<1>2. drv.slots[h] \in Submitted
  BY Zenon DEF IInv, Stages
<1> USE <1>2
<1>3. drv.slots[h] \in Busy(drv) /\ drv.slots[h] \in DriverChains /\ drv.slots[h] # None
  BY Zenon DEF Submitted
<1> USE <1>1, <1>3
<1>4. HeadOf(SegmentsAt(drv, drv.slots[h])) = h
  BY Zenon DEF IInv, Books
<1> QED  BY <1>4, Zenon

-----------------------------------------------------------------------------
(***************************************************************************)
(* Steps of the driver                                                     *)
(***************************************************************************)

(* An endpoint whose memory failed, or whose channel another lane faulted. *)
LEMMA Disturbances ==
  ASSUME NEW objects, NEW vq \in Endpoints(objects), NEW new,
         new = [vq EXCEPT !.faulted = TRUE] \/ new = Fault(vq)
  PROVE  /\ new \in Endpoints(objects)
         /\ new.produced = vq.produced /\ new.consumed = vq.consumed
         /\ new.owned = vq.owned /\ new.slots = vq.slots
         /\ new.descriptor_owner = vq.descriptor_owner
         /\ new.last_taken = vq.last_taken /\ new.chains = vq.chains
         /\ new.at = "idle" \/ (new.at = vq.at /\ new.chain = vq.chain)
<1>1. CASE new = [vq EXCEPT !.faulted = TRUE]
  BY <1>1, Zenon DEF Endpoints
<1>2. CASE new = Fault(vq)
  BY <1>2, Zenon DEF Fault, Endpoints, Steps
<1> QED  BY <1>1, <1>2, Zenon

(* A step of the driver that moves no counter and keeps what is in flight. *)
LEMMA DriverStages ==
  ASSUME IInv, UNCHANGED <<dev, used>>,
         drv'.produced = drv.produced, drv'.consumed = drv.consumed,
         \A s \in AvailSlots : avail'.ring[s] = avail.ring[s],
         \A h \in AvailHeads \cup HeldHeads \cup UsedHeads :
           /\ h \notin StoreHeads'
           /\ drv'.slots[h] = drv.slots[h] /\ drv.slots[h] \in Submitted'
           /\ SegmentsAt(drv', drv.slots[h]) = SegmentsAt(drv, drv.slots[h]),
         \A h \in AvailHeads \cup HeldHeads :
           \A d \in Descriptors(SegmentsAt(drv, drv.slots[h])) : desc'[d] = desc[d],
         \A h \in StoreHeads' :
           drv'.slots[h] \in Submitted' /\ Described(SegmentsAt(drv, drv.slots[h]))'
  PROVE  Stages'
<1>1. AvailSlots' = AvailSlots /\ UsedSlots' = UsedSlots
  BY Zenon DEF AvailSlots, UsedSlots
<1>2. Unanswered' = Unanswered /\ \A o : SegmentsAt(dev', o) = SegmentsAt(dev, o)
  BY Zenon DEF Unanswered, SegmentsAt
<1> USE <1>1
<1>3. AvailHeads' = AvailHeads
  BY Zenon DEF AvailHeads
<1> USE <1>2
<1>4. HeldHeads' = HeldHeads
  BY Zenon DEF HeldHeads
<1>5. UsedHeads' = UsedHeads
  BY Zenon DEF UsedHeads
<1>6. /\ \A s, t \in AvailSlots' : avail'.ring[s] = avail'.ring[t] => s = t
      /\ \A s, t \in UsedSlots' : used'.ring[s].head = used'.ring[t].head => s = t
  BY DEF IInv, Stages
<1> USE <1>3, <1>4, <1>5
<1>7. /\ StoreHeads' \cap AvailHeads' = {} /\ StoreHeads' \cap HeldHeads' = {}
      /\ StoreHeads' \cap UsedHeads' = {}
  BY Zenon
<1>8. /\ AvailHeads' \cap HeldHeads' = {} /\ AvailHeads' \cap UsedHeads' = {}
      /\ HeldHeads' \cap UsedHeads' = {}
  BY Zenon DEF IInv, Stages
<1>9. \A h \in StoreHeads' \cup AvailHeads' \cup HeldHeads' \cup UsedHeads' :
        drv'.slots[h] \in Submitted'
  BY Zenon
<1>10. ASSUME NEW h \in AvailHeads \cup HeldHeads
       PROVE  Described(SegmentsAt(drv, drv.slots[h]))'
  <2> DEFINE segments == SegmentsAt(drv, drv.slots[h])
  <2>1. Described(segments)
    BY Zenon DEF IInv, Stages
  <2>2. segments \in Lists(Segments)
    BY Facts, HeadFacts, BusyFacts DEF IInv
  <2>3. DOMAIN segments = 1 .. Len(segments)
    BY <2>2, SegmentFacts, Zenon
  <2>4. \A i \in 1 .. Len(segments) :
          desc'[segments[i].descriptor] = desc[segments[i].descriptor]
    BY <2>3, Zenon DEF Descriptors
  <2>5. SegmentsAt(drv', drv'.slots[h]) = segments
    BY Zenon
  <2> HIDE DEF segments
  <2>6. \A i \in 1 .. Len(segments) :
          desc'[segments[i].descriptor] =
            [chain |-> segments[i].chain, position |-> segments[i].position,
             next |-> IF i < Len(segments) THEN segments[i + 1].descriptor ELSE None]
    BY <2>1, <2>4, Zenon DEF Described
  <2> QED  BY <2>5, <2>6, Zenon DEF Described
<1>11. \A h \in StoreHeads' \cup AvailHeads' \cup HeldHeads' :
         Described(SegmentsAt(drv, drv.slots[h]))'
  BY <1>10, Zenon
<1>12. \A o \in Unanswered' :
         SegmentsAt(dev', o) = SegmentsAt(drv', drv'.slots[HeadOf(SegmentsAt(dev', o))])
  <2> SUFFICES ASSUME NEW o \in Unanswered
               PROVE  SegmentsAt(dev, o)
                        = SegmentsAt(drv', drv'.slots[HeadOf(SegmentsAt(dev, o))])
    BY Zenon
  <2>1. HeadOf(SegmentsAt(dev, o)) \in HeldHeads
    BY Zenon DEF HeldHeads
  <2>2. SegmentsAt(dev, o) = SegmentsAt(drv, drv.slots[HeadOf(SegmentsAt(dev, o))])
    BY Zenon DEF IInv, Stages
  <2> QED  BY <2>1, <2>2, Zenon
<1> QED  BY <1>6, <1>7, <1>8, <1>9, <1>11, <1>12, Zenon DEF Stages

(* A step of the driver does not concern what the invariant says of the    *)
(* device, as long as it leaves alone the slot return_available would use. *)
LEMMA DriverKeepsDevice ==
  ASSUME IInv, UNCHANGED <<dev, used>>,
         dev.at = "read" => dev.consumed # drv'.produced,
         dev.last_taken \in Unanswered =>
           avail'.ring[Slot(Predecessor(dev.consumed))]
             = avail.ring[Slot(Predecessor(dev.consumed))]
  PROVE  DeviceState' /\ Books(dev)'
<1>1. DeviceState /\ Books(dev)
  BY Zenon DEF IInv
<1> USE <1>1
<1>2. Books(dev)'
  BY Zenon DEF Books, Busy, SegmentsAt
<1>3. Unanswered' = Unanswered /\ Busy(dev)' = Busy(dev)
  BY Zenon DEF Unanswered, Busy
<1>4. DeviceState'
  BY <1>3, Zenon DEF DeviceState, SegmentsAt
<1> QED  BY <1>2, <1>4, Zenon

(* The chain the driver builds from a list of descriptors.                 *)
LEMMA SegmentsOfFacts ==
  ASSUME NEW o \in DriverChains, NEW ds \in Lists(Heads)
  PROVE  LET segments == SegmentsOf(o, ds) IN
         /\ segments \in Lists(Segments) /\ Len(segments) = Len(ds)
         /\ \A i \in DOMAIN segments : segments[i].chain = o /\ segments[i].position = i
<1> DEFINE segments == SegmentsOf(o, ds)
<1>1. PICK n \in 0 .. MaxChain : ds \in [1 .. n -> Heads]
  BY Zenon DEF Lists
<1> USE <1>1
<1>2. n \in Nat /\ MaxChain \in Nat
  BY Sizes
<1> USE <1>2
<1>3. Len(ds) = n /\ DOMAIN ds = 1 .. n
  OBVIOUS
<1>4. \A i \in 1 .. n : [descriptor |-> ds[i], chain |-> o, position |-> i] \in Segments
  BY DEF Segments
<1> USE <1>3
<1>5. segments = [i \in 1 .. n |-> [descriptor |-> ds[i], chain |-> o, position |-> i]]
  BY Zenon DEF SegmentsOf
<1> USE <1>5
<1>6. segments \in [1 .. n -> Segments]
  BY <1>4
<1> USE <1>6
<1>7. Len(segments) = n
  OBVIOUS
<1>8. \A i \in DOMAIN segments : segments[i].chain = o /\ segments[i].position = i
  OBVIOUS
<1> QED  BY <1>7, <1>8, Zenon DEF Lists

(* As many descriptors as segments: no descriptor is used twice.           *)
LEMMA Distinct ==
  ASSUME FiniteSetFacts, NEW segments \in Lists(Segments),
         Cardinality(Descriptors(segments)) = Len(segments),
         NEW i \in 1 .. Len(segments), NEW j \in 1 .. Len(segments),
         segments[i].descriptor = segments[j].descriptor
  PROVE  i = j
<1> DEFINE n == Len(segments)
           f == [k \in 1 .. n |-> segments[k].descriptor]
<1>1. n \in Nat /\ DOMAIN segments = 1 .. n
  BY SegmentFacts, Sizes
<1> USE <1>1
<1>2. {f[k] : k \in 1 .. n} = Descriptors(segments)
  BY Zenon DEF Descriptors
<1>3. f[i] = f[j]
  BY Zenon
<1> HIDE DEF f
<1> QED  BY <1>2, <1>3, Zenon DEF FiniteSetFacts, ListCounts

(* What publish writes into the descriptor table.                          *)
LEMMA Written ==
  ASSUME desc \in [Heads -> {None} \cup Links], NEW segments \in Lists(Segments),
         NEW n \in 0 .. Len(segments)
  PROVE  /\ WithDescriptors(segments, n) \in [Heads -> {None} \cup Links]
         /\ \A h \in Heads \ Descriptors(segments) : WithDescriptors(segments, n)[h] = desc[h]
<1>0. /\ Len(segments) \in Nat /\ n \in Nat /\ DOMAIN segments = 1 .. Len(segments)
      /\ \A i \in 1 .. Len(segments) :
           /\ segments[i].descriptor \in Heads
           /\ segments[i].chain \in DriverChains /\ segments[i].position \in 1 .. MaxChain
  BY SegmentFacts, Sizes
<1>1. \A i \in 1 .. n : i \in 1 .. Len(segments) /\ (i < Len(segments) => i + 1 \in 1 .. Len(segments))
  BY <1>0
<1> DEFINE link(i) == [chain |-> segments[i].chain, position |-> segments[i].position,
                       next |-> IF i < Len(segments) THEN segments[i + 1].descriptor ELSE None]
<1>2. \A i \in 1 .. n : link(i) \in Links
  BY <1>0, <1>1, Zenon DEF Links
<1> HIDE DEF link
<1>3. WithDescriptors(segments, n) =
        [h \in Heads |-> IF \E i \in 1 .. n : segments[i].descriptor = h
                           THEN link(CHOOSE i \in 1 .. n : segments[i].descriptor = h)
                           ELSE desc[h]]
  BY Zenon DEF WithDescriptors, link
<1>4. ASSUME NEW h \in Heads PROVE WithDescriptors(segments, n)[h] \in {None} \cup Links
  <2>1. CASE \E i \in 1 .. n : segments[i].descriptor = h
    <3> USE <2>1
    <3>1. (CHOOSE i \in 1 .. n : segments[i].descriptor = h) \in 1 .. n
      BY Zenon
    <3> QED  BY <1>2, <1>3, <3>1
  <2>2. CASE ~\E i \in 1 .. n : segments[i].descriptor = h
    BY <1>3, <2>2, Zenon
  <2> QED  BY <2>1, <2>2, Zenon
<1>5. ASSUME NEW h \in Heads \ Descriptors(segments)
      PROVE  WithDescriptors(segments, n)[h] = desc[h]
  <2>1. ~\E i \in 1 .. n : segments[i].descriptor = h
    BY <1>0, <1>1, Zenon DEF Descriptors
  <2> QED  BY <1>3, <2>1, Zenon
<1> QED  BY <1>3, <1>4, <1>5, Zenon

(* Once publish has written all of its descriptors, the table describes    *)
(* the chain.                                                              *)
LEMMA WrittenDescribed ==
  ASSUME FiniteSetFacts, NEW segments \in Lists(Segments), Cardinality(Descriptors(segments)) = Len(segments),
         NEW i \in 1 .. Len(segments)
  PROVE  WithDescriptors(segments, Len(segments))[segments[i].descriptor] =
           [chain |-> segments[i].chain, position |-> segments[i].position,
            next |-> IF i < Len(segments) THEN segments[i + 1].descriptor ELSE None]
<1> DEFINE h == segments[i].descriptor
           j == CHOOSE k \in 1 .. Len(segments) : segments[k].descriptor = h
<1>1. h \in Heads
  BY SegmentFacts, Zenon
<1>2. j \in 1 .. Len(segments) /\ segments[j].descriptor = h
  BY Zenon
<1>3. j = i
  <2> HIDE DEF j
  <2> QED  BY <1>2, Distinct, Zenon
<1> QED  BY <1>1, <1>3, Zenon DEF WithDescriptors

(* There is a free slot for the next request, and it is not the one of the *)
(* request that return_available could give back.                          *)
LEMMA FreeSlot ==
  ASSUME IInv, Distance(drv.consumed, drv.produced) < QueueSize
  PROVE  /\ Slot(drv.produced) \in Heads /\ Slot(drv.produced) \notin AvailSlots
         /\ dev.last_taken \in Unanswered =>
              Slot(Predecessor(dev.consumed)) # Slot(drv.produced)
<1> DEFINE a == dev.consumed
           b == drv.produced
<1>1. a \in Indices /\ b \in Indices /\ Predecessor(a) \in Indices
  BY Facts, Neighbours, Zenon
<1> USE Spaces, Sizes
<1>2. Distance(a, b) \in Nat /\ Distance(a, b) < QueueSize
  OBVIOUS
<1> USE <1>1, <1>2
<1>3. /\ Slot(b) \in Heads /\ Slot(b) \notin Window(a, b)
      /\ Window(Predecessor(a), b) = Window(a, b) \cup {Slot(Predecessor(a))}
  BY Windows, Zenon
<1> USE <1>3
<1>4. ASSUME dev.last_taken \in Unanswered PROVE Slot(Predecessor(a)) # Slot(b)
  <2>1. Distance(a, b) + 1 < QueueSize
    BY <1>4, HeldCounted
  <2> USE <2>1
  <2>2. Distance(Predecessor(a), b) = Distance(a, b) + 1
    BY Distances
  <2>3. Slot(b) \notin Window(Predecessor(a), b)
    BY <2>2, Windows
  <2> QED  BY <2>3, Zenon
<1> QED  BY <1>4, Zenon DEF AvailSlots

(* A publication, also one that fails half way, writes no descriptor of a  *)
(* request that is announced or held.                                      *)
LEMMA OthersUntouched ==
  ASSUME IInv, NEW o \in DriverChains, NEW ds \in Lists(Heads),
         MayPublish(o, SegmentsOf(o, ds)), NEW n \in 0 .. Len(SegmentsOf(o, ds)),
         NEW h \in AvailHeads \cup HeldHeads,
         NEW d \in Descriptors(SegmentsAt(drv, drv.slots[h]))
  PROVE  WithDescriptors(SegmentsOf(o, ds), n)[d] = desc[d]
<1> DEFINE segments == SegmentsOf(o, ds)
<1>1. /\ drv \in Endpoints(DriverChains) /\ Books(drv)
      /\ desc \in [Heads -> {None} \cup Links]
  BY Facts, Zenon DEF IInv, TypeOK
<1>2. segments \in Lists(Segments)
  BY SegmentsOfFacts, Zenon
<1>3. \A e \in Descriptors(segments) : drv.descriptor_owner[e] = 0
  BY Zenon DEF MayPublish, ValidChain
<1>4. drv.slots[h] \in Busy(drv)
  BY HeadFacts, Zenon
<1> USE <1>1
<1>5. /\ d \in Heads /\ drv.descriptor_owner[d] = HeadOf(SegmentsAt(drv, drv.slots[h])) + 1
      /\ HeadOf(SegmentsAt(drv, drv.slots[h])) \in Heads
  BY <1>4, BusyFacts
<1> USE <1>5
<1>6. drv.descriptor_owner[d] # 0
  BY Sizes DEF Heads
<1>7. d \in Heads \ Descriptors(segments)
  BY <1>3, <1>6, Zenon
<1> QED  BY <1>2, <1>7, Written, Zenon

(* What a publication that claims its chain o leaves behind, whether it    *)
(* then fails or not.                                                      *)
Claimed(o, segments) ==
  /\ Claim(drv, o, segments, "SUBMITTED") \in Endpoints(DriverChains)
  /\ segments \in Lists(Segments) /\ HeadOf(segments) \in Heads
  /\ Books(drv)' /\ desc' \in [Heads -> {None} \cup Links]
  /\ o \notin Submitted /\ Submitted' = Submitted \cup {o}
  /\ Cardinality(Submitted') = Cardinality(Submitted) + 1
  /\ Distance(drv.consumed, drv.produced) < QueueSize
  /\ SegmentsAt(drv', o) = segments /\ drv'.slots[HeadOf(segments)] = o
  /\ drv'.chains[o].state = "SUBMITTED"
  /\ \A p \in DriverChains \ {o} : drv'.chains[p] = drv.chains[p]
  /\ \A h \in AvailHeads \cup HeldHeads \cup UsedHeads :
       /\ h # HeadOf(segments)
       /\ drv'.slots[h] = drv.slots[h] /\ drv.slots[h] \in Submitted'
       /\ SegmentsAt(drv', drv.slots[h]) = SegmentsAt(drv, drv.slots[h])
  /\ \A h \in AvailHeads \cup HeldHeads :
       \A d \in Descriptors(SegmentsAt(drv, drv.slots[h])) : desc'[d] = desc[d]

LEMMA PublishClaims ==
  ASSUME IInv, UNCHANGED <<dev, used>>, NEW o \in DriverChains, NEW ds \in Lists(Heads),
         MayPublish(o, SegmentsOf(o, ds)),
         drv'.slots = Claim(drv, o, SegmentsOf(o, ds), "SUBMITTED").slots,
         drv'.owned = Claim(drv, o, SegmentsOf(o, ds), "SUBMITTED").owned,
         drv'.descriptor_owner = Claim(drv, o, SegmentsOf(o, ds), "SUBMITTED").descriptor_owner,
         drv'.chains = Claim(drv, o, SegmentsOf(o, ds), "SUBMITTED").chains,
         NEW n \in 0 .. Len(SegmentsOf(o, ds)), desc' = WithDescriptors(SegmentsOf(o, ds), n)
  PROVE  Claimed(o, SegmentsOf(o, ds))
<1> DEFINE segments == SegmentsOf(o, ds)
           new == Claim(drv, o, segments, "SUBMITTED")
           head == HeadOf(segments)
<1>1. /\ drv \in Endpoints(DriverChains) /\ Books(drv) /\ None \notin DriverChains
      /\ desc \in [Heads -> {None} \cup Links]
  BY Facts, Zenon DEF IInv, TypeOK
<1>2. /\ drv.chains[o].state = "FREE" /\ drv.owned # MaxOutstanding
      /\ ValidChain(drv, segments)
  BY Zenon DEF MayPublish
<1>3. segments \in Lists(Segments)
  BY SegmentsOfFacts, Zenon
<1> HIDE DEF segments
<1>4. Len(segments) # 0 /\ drv.slots[head] = None
      /\ \A h \in Descriptors(segments) : drv.descriptor_owner[h] = 0
  BY <1>2, Sizes DEF ValidChain
<1>5. head \in Heads /\ head \in Descriptors(segments)
  BY <1>3, <1>4, SegmentFacts, Zenon
<1>6. /\ new \in Endpoints(DriverChains) /\ Books(new)
      /\ Busy(new) = Busy(drv) \cup {o} /\ o \notin Busy(drv)
  BY <1>1, <1>2, <1>3, <1>4, ClaimBooks, Zenon
<1>7. /\ new.slots = [drv.slots EXCEPT ![head] = o]
      /\ new.chains = [drv.chains EXCEPT ![o] =
           [state |-> "SUBMITTED", segments |-> segments, written |-> 0, used_length |-> 0]]
  BY <1>1, Zenon DEF Claim, Endpoints
<1> HIDE DEF new, head
<1>8. Books(drv)'
  BY <1>6, BooksOfFields, Zenon DEF new, segments
<1>9. /\ drv.slots \in [Heads -> DriverChains \cup {None}]
      /\ DOMAIN drv.chains = DriverChains /\ drv.chains \in [DriverChains -> Chains]
      /\ drv.owned \in 0 .. MaxOutstanding
  BY <1>1, EndpointFacts, Zenon
<1>10. /\ drv'.slots = [drv.slots EXCEPT ![head] = o]
       /\ drv'.chains = [drv.chains EXCEPT ![o] =
            [state |-> "SUBMITTED", segments |-> segments, written |-> 0, used_length |-> 0]]
  BY <1>7, Zenon DEF new, segments
<1>11. /\ SegmentsAt(drv', o) = segments /\ drv'.slots[head] = o
       /\ drv'.chains[o].state = "SUBMITTED"
       /\ \A p \in DriverChains \ {o} : drv'.chains[p] = drv.chains[p]
  BY <1>5, <1>9, <1>10 DEF SegmentsAt
<1>12. o \notin Submitted /\ Submitted' = Submitted \cup {o}
  BY <1>2, <1>11 DEF Submitted
<1>13. Cardinality(Submitted') = Cardinality(Submitted) + 1
  <2>1. FiniteSetFacts
    BY Zenon DEF IInv, Books
  <2> QED  BY <1>12, <2>1, Facts, Zenon DEF FiniteSetFacts, AddCounts
<1>14. Distance(drv.consumed, drv.produced) < QueueSize
  BY <1>2, <1>9, Spaces, Sizes
<1>15. ASSUME NEW h \in AvailHeads \cup HeldHeads \cup UsedHeads
       PROVE  /\ h # head
              /\ drv'.slots[h] = drv.slots[h] /\ drv.slots[h] \in Submitted'
              /\ SegmentsAt(drv', drv.slots[h]) = SegmentsAt(drv, drv.slots[h])
  <2>1. h \in Heads /\ drv.slots[h] \in Submitted /\ drv.slots[h] # None
    BY HeadFacts, Zenon
  <2> USE <2>1
  <2>2. h # head
    BY <1>4, Zenon DEF head
  <2> USE <2>2
  <2>3. drv'.slots[h] = drv.slots[h]
    BY <1>9, <1>10, Zenon
  <2>4. drv.slots[h] \in DriverChains \ {o}
    BY <1>12, Zenon DEF Submitted
  <2> QED  BY <1>11, <1>12, <2>3, <2>4, Zenon DEF SegmentsAt
<1>16. ASSUME NEW h \in AvailHeads \cup HeldHeads,
              NEW d \in Descriptors(SegmentsAt(drv, drv.slots[h]))
       PROVE  desc'[d] = desc[d]
  BY OthersUntouched, Zenon DEF segments
<1>17. desc' \in [Heads -> {None} \cup Links]
  BY <1>1, <1>3, Written, Zenon DEF segments
<1> QED  BY <1>3, <1>5, <1>6, <1>8, <1>11, <1>12, <1>13, <1>14, <1>15, <1>16, <1>17, Zenon DEF
            Claimed, segments, head, new

(* publish: the checks, the claim, the descriptors and the ring entry.     *)
LEMMA PublishStep ==
  ASSUME IInv, NEW o \in DriverChains, NEW ds \in Lists(Heads), Publish(o, SegmentsOf(o, ds))
  PROVE  IInv' /\ DriverStill
<1> DEFINE segments == SegmentsOf(o, ds)
           new == Claim(drv, o, segments, "SUBMITTED")
           head == HeadOf(segments)
<1>0. /\ MayPublish(o, segments) /\ drv' = Goto(new, "store", o)
      /\ desc' = WithDescriptors(segments, Len(segments))
      /\ avail' = [avail EXCEPT !.ring[Slot(drv.produced)] = head]
      /\ dev' = dev /\ used' = used /\ injected' = injected
  BY Zenon DEF Publish
<1>1. /\ segments \in Lists(Segments) /\ drv \in Endpoints(DriverChains)
      /\ drv.chains[o].state = "FREE" /\ drv.owned # MaxOutstanding /\ ValidChain(drv, segments)
      /\ drv.at = "idle" /\ drv.faulted = FALSE
  BY <1>0, SegmentsOfFacts, Facts, EndpointFacts, Zenon DEF MayPublish, MayCall
<1>2. Len(segments) # 0 /\ Cardinality(Descriptors(segments)) = Len(segments)
      /\ Len(segments) \in 0 .. Len(segments)
  BY <1>1, SegmentFacts, Sizes DEF ValidChain
<1>3. /\ new \in Endpoints(DriverChains)
      /\ new.produced = drv.produced /\ new.consumed = drv.consumed
      /\ new.faulted = drv.faulted
  <2>1. new \in Endpoints(DriverChains)
    BY <1>1, <1>2, ClaimType, Zenon
  <2> QED  BY <1>1, <2>1, Zenon DEF Claim, Endpoints
<1> HIDE DEF new
<1>4. /\ drv' \in Endpoints(DriverChains) /\ drv'.at = "store" /\ drv'.chain = o
      /\ drv'.faulted = new.faulted
      /\ drv'.produced = new.produced /\ drv'.consumed = new.consumed
      /\ drv'.owned = new.owned /\ drv'.slots = new.slots
      /\ drv'.descriptor_owner = new.descriptor_owner /\ drv'.chains = new.chains
  BY <1>0, <1>3, Zenon DEF Goto, Endpoints, Steps
<1>5. /\ HeadOf(segments) \in Heads
      /\ Books(drv)' /\ desc' \in [Heads -> {None} \cup Links]
      /\ o \notin Submitted /\ Submitted' = Submitted \cup {o}
      /\ Cardinality(Submitted') = Cardinality(Submitted) + 1
      /\ Distance(drv.consumed, drv.produced) < QueueSize
      /\ SegmentsAt(drv', o) = segments /\ drv'.slots[head] = o
      /\ drv'.chains[o].state = "SUBMITTED"
      /\ \A p \in DriverChains \ {o} : drv'.chains[p] = drv.chains[p]
      /\ \A h \in AvailHeads \cup HeldHeads \cup UsedHeads :
           /\ h # head
           /\ drv'.slots[h] = drv.slots[h] /\ drv.slots[h] \in Submitted'
           /\ SegmentsAt(drv', drv.slots[h]) = SegmentsAt(drv, drv.slots[h])
      /\ \A h \in AvailHeads \cup HeldHeads :
           \A d \in Descriptors(SegmentsAt(drv, drv.slots[h])) : desc'[d] = desc[d]
  <2>1. Claimed(o, segments)
    BY <1>0, <1>2, <1>4, PublishClaims, Zenon DEF new
  <2> QED  BY <2>1, Zenon DEF Claimed, head
<1>6. \A i \in DOMAIN segments : segments[i].chain = o /\ segments[i].position = i
  BY SegmentsOfFacts, Zenon
<1> HIDE DEF segments, head
<1>7. /\ avail'.idx = avail.idx
      /\ avail'.ring = [avail.ring EXCEPT ![Slot(drv.produced)] = head]
      /\ avail' \in [idx : Indices, ring : [Heads -> Heads]]
  <2>1. /\ avail \in [idx : Indices, ring : [Heads -> Heads]] /\ head \in Heads
        /\ Slot(drv.produced) \in Heads
    BY <1>5, Facts, FreeSlot, Zenon DEF head
  <2> QED  BY <1>0, <2>1, Zenon
<1>8. /\ Slot(drv.produced) \in Heads /\ Slot(drv.produced) \notin AvailSlots
      /\ dev.last_taken \in Unanswered =>
           Slot(Predecessor(dev.consumed)) # Slot(drv.produced)
      /\ AvailSlots \subseteq Heads /\ avail.ring \in [Heads -> Heads]
  BY <1>5, FreeSlot, Spaces, Facts, Zenon
<1>9. TypeOK' /\ NoSpuriousFault'
  BY <1>0, <1>1, <1>3, <1>4, <1>5, <1>7, Zenon DEF IInv, TypeOK, NoSpuriousFault
<1>10. DriverState'
  <2>1. DriverState
    BY Zenon DEF IInv
  <2>2. \A p \in DriverChains :
          /\ drv'.chains[p].state \in {"FREE", "SUBMITTED", "RETURNED"}
          /\ \A i \in DOMAIN SegmentsAt(drv', p) :
               SegmentsAt(drv', p)[i].chain = p /\ SegmentsAt(drv', p)[i].position = i
    <3> SUFFICES ASSUME NEW p \in DriverChains
                 PROVE  /\ drv'.chains[p].state \in {"FREE", "SUBMITTED", "RETURNED"}
                        /\ \A i \in DOMAIN SegmentsAt(drv', p) :
                             /\ SegmentsAt(drv', p)[i].chain = p
                             /\ SegmentsAt(drv', p)[i].position = i
      BY Zenon
    <3>1. CASE p = o
      BY <1>5, <1>6, <3>1, Zenon
    <3>2. CASE p # o
      <4>1. drv'.chains[p] = drv.chains[p]
        BY <1>5, <3>2, Zenon
      <4>2. SegmentsAt(drv', p) = SegmentsAt(drv, p)
        BY <4>1, Zenon DEF SegmentsAt
      <4> QED  BY <2>1, <4>1, <4>2, Zenon DEF DriverState
    <3> QED  BY <3>1, <3>2, Zenon
  <2>3. avail'.ring[Slot(drv'.produced)] = HeadOf(SegmentsAt(drv', drv'.chain))
    <3>1. avail'.ring[Slot(drv.produced)] = head
      BY <1>7, <1>8, Zenon
    <3> QED  BY <1>3, <1>4, <1>5, <3>1, Zenon DEF head
  <2> QED  BY <1>4, <1>5, <2>2, <2>3, Zenon DEF DriverState
<1>11. DeviceState' /\ Books(dev)'
  <2>1. dev.at = "read" => dev.consumed # drv'.produced
    BY <1>3, <1>4, Zenon DEF IInv, DeviceState
  <2>2. dev.last_taken \in Unanswered =>
          avail'.ring[Slot(Predecessor(dev.consumed))]
            = avail.ring[Slot(Predecessor(dev.consumed))]
    BY <1>7, <1>8
  <2> QED  BY <1>0, <2>1, <2>2, DriverKeepsDevice, Zenon
<1>12. Counts'
  <2>1. Distance(drv.consumed, drv.produced) <= Cardinality(Submitted)
        /\ Distance(drv.consumed, drv.produced) \in Nat /\ Cardinality(Submitted) \in Nat
    BY Spaces, Facts, Zenon
  <2>2. Counts
    BY Zenon DEF IInv
  <2> QED  BY <1>0, <1>3, <1>4, <1>5, <1>7, <2>1, <2>2 DEF Counts
<1>13. Stages'
  <2>1. StoreHeads' = {head}
    BY <1>4, <1>5 DEF StoreHeads, head
  <2>2. \A s \in AvailSlots : avail'.ring[s] = avail.ring[s]
    BY <1>7, <1>8, Zenon
  <2>3. ASSUME NEW h \in StoreHeads'
        PROVE  drv'.slots[h] \in Submitted' /\ Described(SegmentsAt(drv, drv.slots[h]))'
    <3>1. h = head
      BY <2>1, Zenon
    <3>2. SegmentsAt(drv', drv'.slots[h]) = segments
      BY <1>5, <3>1, Zenon
    <3>3. \A i \in 1 .. Len(segments) :
            desc'[segments[i].descriptor] =
              [chain |-> segments[i].chain, position |-> segments[i].position,
               next |-> IF i < Len(segments) THEN segments[i + 1].descriptor ELSE None]
      <4>1. FiniteSetFacts
        BY Zenon DEF IInv, Books
      <4> QED  BY <1>0, <1>1, <1>2, <4>1, WrittenDescribed, Zenon
    <3>4. drv'.slots[h] \in Submitted'
      BY <1>5, <3>1, Zenon
    <3> QED  BY <3>2, <3>3, <3>4, Zenon DEF Described
  <2> QED  BY <1>0, <1>3, <1>4, <1>5, <2>1, <2>2, <2>3, DriverStages, Zenon
<1>14. DriverStill
  BY <1>0, <1>1, <1>3, <1>4, <1>5 DEF DriverStill
<1> QED  BY <1>5, <1>9, <1>10, <1>11, <1>12, <1>13, <1>14, Zenon DEF IInv

(* A step of the driver that only changes where its call stands.           *)
LEMMA DriverMoves ==
  ASSUME IInv, UNCHANGED <<dev, desc, avail, used>>,
         drv' \in Endpoints(DriverChains),
         drv'.produced = drv.produced, drv'.consumed = drv.consumed,
         drv'.owned = drv.owned, drv'.slots = drv.slots,
         drv'.descriptor_owner = drv.descriptor_owner, drv'.chains = drv.chains,
         drv'.at \in {"idle", "store", "read", "event"},
         drv'.at = "store" => drv.at = "store" /\ drv'.chain = drv.chain,
         drv'.at = "read" => drv.consumed # dev.produced,
         drv'.faulted => "driver" \in injected',
         injected \subseteq injected', injected' \subseteq {"driver", "device"}
  PROVE  IInv' /\ DriverStill
<1>1. TypeOK' /\ NoSpuriousFault'
  BY Zenon DEF IInv, TypeOK, NoSpuriousFault
<1>2. Books(drv)' /\ Submitted' = Submitted /\ \A o : SegmentsAt(drv', o) = SegmentsAt(drv, o)
  BY BooksOfFields, Zenon DEF IInv, Submitted, SegmentsAt
<1> USE <1>2
<1>3. DriverState'
  BY DEF IInv, DriverState
<1>4. DeviceState' /\ Books(dev)'
  BY DriverKeepsDevice, Zenon DEF IInv, DeviceState
<1>5. Counts'
  <2>1. /\ Distance(drv.consumed, drv.produced) \in Nat /\ Cardinality(Submitted) \in Nat
        /\ Distance(drv.consumed, drv.produced) <= Cardinality(Submitted)
    BY Spaces, Zenon
  <2> QED  BY <2>1 DEF IInv, Counts
<1>6. StoreHeads' \subseteq StoreHeads
  BY DEF StoreHeads
<1>7. Stages'
  <2> USE <1>6
  <2>1. \A h \in AvailHeads \cup HeldHeads \cup UsedHeads :
          h \notin StoreHeads' /\ drv.slots[h] \in Submitted'
    BY Zenon DEF IInv, Stages
  <2>2. ASSUME NEW h \in StoreHeads'
        PROVE  drv'.slots[h] \in Submitted' /\ Described(SegmentsAt(drv, drv.slots[h]))'
    <3>1. drv.slots[h] \in Submitted /\ Described(SegmentsAt(drv, drv.slots[h]))
      BY Zenon DEF IInv, Stages
    <3>2. /\ desc' = desc
          /\ SegmentsAt(drv', drv'.slots[h]) = SegmentsAt(drv, drv.slots[h])
      BY Zenon
    <3> QED  BY <3>1, <3>2, Zenon DEF Described
  <2> QED  BY <2>1, <2>2, DriverStages, Zenon
<1> QED  BY <1>1, <1>3, <1>4, <1>5, <1>7, Zenon DEF IInv, DriverStill

(* publish: the store of the index.                                        *)
LEMMA PublishStoreStep ==
  ASSUME IInv, PublishStore
  PROVE  IInv' /\ Announces
<1> DEFINE a == dev.consumed
           b == drv.produced
           head == HeadOf(SegmentsAt(drv, drv.chain))
<1>0. /\ drv.at = "store" /\ drv \in Endpoints(DriverChains)
      /\ avail' = [avail EXCEPT !.idx = Successor(b)]
      /\ drv' = [drv EXCEPT !.produced = Successor(b), !.at = "event"]
      /\ dev' = dev /\ desc' = desc /\ used' = used /\ injected' = injected
  BY Facts, Zenon DEF PublishStore
<1>1. /\ a \in Indices /\ b \in Indices /\ Successor(b) \in Indices
      /\ drv.consumed \in Indices
  BY Facts, Neighbours, Zenon
<1>2. /\ drv' \in Endpoints(DriverChains) /\ drv'.at = "event"
      /\ drv'.produced = Successor(b) /\ drv'.consumed = drv.consumed
      /\ drv'.owned = drv.owned /\ drv'.slots = drv.slots
      /\ drv'.descriptor_owner = drv.descriptor_owner /\ drv'.chains = drv.chains
      /\ drv'.faulted = drv.faulted
  BY <1>0, <1>1, Zenon DEF Endpoints, Steps
<1>3. /\ avail' \in [idx : Indices, ring : [Heads -> Heads]]
      /\ avail'.idx = Successor(b) /\ avail'.ring = avail.ring
  BY <1>0, <1>1, Facts, Zenon
<1> USE <1>2
<1>4. TypeOK' /\ NoSpuriousFault'
  BY <1>0, <1>3, Zenon DEF IInv, TypeOK, NoSpuriousFault
<1>5. Books(drv)' /\ Submitted' = Submitted /\ \A o : SegmentsAt(drv', o) = SegmentsAt(drv, o)
  BY BooksOfFields, Zenon DEF IInv, Submitted, SegmentsAt
<1> USE <1>5
<1>6. DriverState'
  BY DEF IInv, DriverState
<1>7. /\ Distance(drv.consumed, b) \in Nat /\ Cardinality(Submitted) \in Nat
      /\ Distance(drv.consumed, b) + 1 <= Cardinality(Submitted)
      /\ Cardinality(Submitted) <= QueueSize /\ QueueSize < IndexModulus
      /\ Distance(a, b) \in Nat /\ Distance(a, b) <= Distance(drv.consumed, b)
      /\ Distance(drv.consumed, dev.produced) \in Nat
      /\ Distance(dev.produced, a) \in Nat
      /\ QueueSize \in Nat /\ IndexModulus \in Nat
  <2>1. Counts
    BY Zenon DEF IInv
  <2> QED  BY <1>0, <2>1, Spaces, Sizes DEF Counts
<1> USE <1>7
<1>8. /\ Distance(a, Successor(b)) = Distance(a, b) + 1
      /\ Distance(drv.consumed, Successor(b)) = Distance(drv.consumed, b) + 1
  BY <1>1, Distances
<1> USE <1>8
<1>9. DeviceState' /\ Books(dev)'
  <2>1. a # Successor(b)
    BY <1>1, Distances
  <2> QED  BY <1>0, <1>3, <2>1, DriverKeepsDevice, Zenon
<1>10. Counts'
  <2>1. Counts
    BY Zenon DEF IInv
  <2> QED  BY <1>0, <1>3, <2>1 DEF Counts
<1>11. /\ Slot(b) \in Heads /\ Slot(b) \notin AvailSlots
       /\ AvailSlots' = AvailSlots \cup {Slot(b)} /\ UsedSlots' = UsedSlots
  BY <1>0, <1>1, Windows DEF AvailSlots, UsedSlots
<1>12. /\ StoreHeads = {head} /\ StoreHeads' = {} /\ avail.ring[Slot(b)] = head
  <2>1. drv.at = "store" /\ drv'.at # "store" /\ DriverState
    BY <1>0, Zenon DEF IInv
  <2> QED  BY <2>1, Zenon DEF DriverState, StoreHeads
<1> USE <1>11, <1>12
<1>13. AvailHeads' = AvailHeads \cup {head}
  BY <1>3 DEF AvailHeads
<1>14. /\ Unanswered' = Unanswered /\ HeldHeads' = HeldHeads /\ UsedHeads' = UsedHeads
       /\ \A o : SegmentsAt(dev', o) = SegmentsAt(dev, o)
  BY <1>0 DEF Unanswered, HeldHeads, UsedHeads, SegmentsAt
<1> HIDE DEF head
<1>15. Stages'
  <2>1. \A s, t \in AvailSlots' : avail'.ring[s] = avail'.ring[t] => s = t
    <3>1. StoreHeads \cap AvailHeads = {}
      BY Zenon DEF IInv, Stages
    <3>2. \A s \in AvailSlots : avail.ring[s] # head
      BY <3>1 DEF AvailHeads
    <3>3. \A s, t \in AvailSlots : avail.ring[s] = avail.ring[t] => s = t
      BY Zenon DEF IInv, Stages
    <3> QED  BY <1>3, <3>2, <3>3
  <2>2. \A s, t \in UsedSlots' : used'.ring[s].head = used'.ring[t].head => s = t
    BY <1>0 DEF IInv, Stages
  <2> USE <1>13, <1>14
  <2>3. /\ StoreHeads' \cap AvailHeads' = {} /\ StoreHeads' \cap HeldHeads' = {}
        /\ StoreHeads' \cap UsedHeads' = {} /\ AvailHeads' \cap HeldHeads' = {}
        /\ AvailHeads' \cap UsedHeads' = {} /\ HeldHeads' \cap UsedHeads' = {}
    BY Zenon DEF IInv, Stages
  <2>4. \A h \in StoreHeads' \cup AvailHeads' \cup HeldHeads' \cup UsedHeads' :
          drv'.slots[h] \in Submitted'
    BY HeadFacts, Zenon
  <2>5. \A h \in StoreHeads' \cup AvailHeads' \cup HeldHeads' :
          Described(SegmentsAt(drv, drv.slots[h]))'
    <3> SUFFICES ASSUME NEW h \in StoreHeads \cup AvailHeads \cup HeldHeads
                 PROVE  Described(SegmentsAt(drv, drv.slots[h]))'
      BY Zenon
    <3>1. Described(SegmentsAt(drv, drv.slots[h]))
      BY Zenon DEF IInv, Stages
    <3>2. /\ desc' = desc
          /\ SegmentsAt(drv', drv'.slots[h]) = SegmentsAt(drv, drv.slots[h])
      BY <1>0, Zenon
    <3> QED  BY <3>1, <3>2, Zenon DEF Described
  <2>6. \A o \in Unanswered' :
          SegmentsAt(dev', o) = SegmentsAt(drv', drv'.slots[HeadOf(SegmentsAt(dev', o))])
    BY Zenon DEF IInv, Stages
  <2> QED  BY <2>1, <2>2, <2>3, <2>4, <2>5, <2>6, Zenon DEF Stages
<1>16. Announces
  BY <1>0, <1>3, Zenon DEF Announces, IInv, DriverState
<1> QED  BY <1>4, <1>6, <1>9, <1>10, <1>15, <1>16, Zenon DEF IInv

(* publish: the event suppression read after the store.                    *)
LEMMA PublishEventStep ==
  ASSUME IInv, PublishEvent
  PROVE  IInv' /\ DriverStill
<1>1. /\ drv \in Endpoints(DriverChains) /\ drv' = [drv EXCEPT !.at = "idle", !.chain = None]
      /\ UNCHANGED <<dev, desc, avail, used>> /\ injected' = injected
  BY Facts, Zenon DEF PublishEvent, Return, Goto
<1> USE <1>1
<1>2. /\ drv' \in Endpoints(DriverChains)
      /\ drv'.produced = drv.produced /\ drv'.consumed = drv.consumed
      /\ drv'.owned = drv.owned /\ drv'.slots = drv.slots
      /\ drv'.descriptor_owner = drv.descriptor_owner /\ drv'.chains = drv.chains
      /\ drv'.at = "idle" /\ drv'.faulted = drv.faulted
  BY Zenon DEF Endpoints, Steps
<1> USE <1>2
<1>3. drv'.faulted => "driver" \in injected'
  BY Zenon DEF IInv, NoSpuriousFault
<1>4. injected \subseteq injected' /\ injected' \subseteq {"driver", "device"}
  BY Zenon DEF IInv, TypeOK
<1> QED  BY <1>3, <1>4, DriverMoves, Zenon

(* The device answers no more than the driver asked: the checks of         *)
(* pending_index find nothing wrong.                                       *)
LEMMA TakeUsedStep ==
  ASSUME IInv, TakeUsed
  PROVE  IInv' /\ DriverStill
<1> USE Facts
<1>0. drv \in Endpoints(DriverChains) /\ used.idx = dev.produced
  BY Zenon DEF IInv, Counts
<1> USE <1>0
<1>1. /\ ~(Distance(drv.consumed, used.idx) > MaxOutstanding)
      /\ ~(Distance(drv.consumed, used.idx) > Distance(drv.consumed, drv.produced))
  BY Spaces, Sizes
<1>2. /\ drv' = [drv EXCEPT !.at = "read", !.chain = None]
      /\ Distance(drv.consumed, dev.produced) # 0
      /\ UNCHANGED <<dev, desc, avail, used>> /\ injected' = injected
  BY <1>1, Zenon DEF TakeUsed, Goto
<1> USE <1>2
<1>3. /\ drv' \in Endpoints(DriverChains)
      /\ drv'.produced = drv.produced /\ drv'.consumed = drv.consumed
      /\ drv'.owned = drv.owned /\ drv'.slots = drv.slots
      /\ drv'.descriptor_owner = drv.descriptor_owner /\ drv'.chains = drv.chains
      /\ drv'.at = "read" /\ drv'.faulted = drv.faulted
  BY Zenon DEF Endpoints, Steps
<1>4. drv.consumed # dev.produced
  BY Distances, Zenon
<1> USE <1>3
<1>5. drv'.faulted => "driver" \in injected'
  BY Zenon DEF IInv, NoSpuriousFault
<1>6. injected \subseteq injected' /\ injected' \subseteq {"driver", "device"}
  BY Zenon DEF IInv, TypeOK
<1> QED  BY <1>4, <1>5, <1>6, DriverMoves, Zenon

(* The answer names a chain the driver is waiting for.                     *)
LEMMA AnswerExpected ==
  ASSUME IInv, drv.at = "read"
  PROVE  LET entry == used.ring[Slot(drv.consumed)]
             o == drv.slots[entry.head]
         IN  /\ Slot(drv.consumed) \in UsedSlots /\ Slot(drv.consumed) \in Heads
             /\ drv.consumed # dev.produced
             /\ entry.head \in UsedHeads /\ entry.head \in Heads /\ entry.length \in Lengths
             /\ o \in Submitted /\ o \in DriverChains
             /\ Owned(drv, o, "SUBMITTED") /\ entry.length <= Capacity
             /\ HeadOf(SegmentsAt(drv, o)) = entry.head
<1> DEFINE entry == used.ring[Slot(drv.consumed)]
           o == drv.slots[entry.head]
<1>1. drv.consumed # dev.produced
  BY Zenon DEF IInv, DriverState
<1> USE Sizes
<1>2. Distance(drv.consumed, dev.produced) <= QueueSize
  BY Spaces
<1> USE <1>1, Facts
<1>3. Slot(drv.consumed) \in UsedSlots /\ Slot(drv.consumed) \in Heads
  BY <1>2, WindowShrinks DEF UsedSlots
<1> USE <1>3
<1>4. entry.head \in UsedHeads
  BY Zenon DEF UsedHeads
<1>5. entry \in [head : Heads, length : Lengths]
  BY Zenon
<1>6. entry.head \in Heads /\ entry.length \in Lengths
  BY <1>5, Zenon
<1> USE <1>4
<1>7. /\ o \in Submitted /\ o \in DriverChains /\ o \in Busy(drv)
      /\ HeadOf(SegmentsAt(drv, o)) = entry.head
  BY HeadFacts, Zenon
<1> HIDE DEF o, entry
<1> USE <1>7
<1>8. drv.slots[HeadOf(SegmentsAt(drv, o))] = o /\ DOMAIN drv.chains = DriverChains
  BY EndpointFacts, Zenon DEF o
<1>9. Owned(drv, o, "SUBMITTED")
  BY <1>8, Zenon DEF Owned, Submitted, SegmentsAt
<1> USE <1>6
<1>10. entry.length <= Capacity
  BY DEF Lengths
<1> QED  BY <1>9, <1>10, Zenon DEF o, entry

(* take_used: the entry, its checks and the return of the chain.           *)
LEMMA TakeUsedReadStep ==
  ASSUME IInv, TakeUsedRead
  PROVE  IInv' /\ Collects
<1> DEFINE c == drv.consumed
           entry == used.ring[Slot(c)]
           o == drv.slots[entry.head]
<1>0. /\ drv.at = "read" /\ drv \in Endpoints(DriverChains)
      /\ UNCHANGED <<dev, desc, avail, used, injected>>
  BY Facts, Zenon DEF TakeUsedRead
<1>1. /\ Slot(c) \in UsedSlots /\ c # dev.produced /\ entry.head \in UsedHeads
      /\ entry.head \in Heads /\ entry.length \in Lengths
      /\ o \in Submitted /\ o \in DriverChains /\ HeadOf(SegmentsAt(drv, o)) = entry.head
  BY <1>0, AnswerExpected, Zenon
<1>2. drv' = [[drv EXCEPT !.chains[o].state = "RETURNED",
                          !.chains[o].used_length = entry.length,
                          !.consumed = Successor(c)] EXCEPT !.at = "idle", !.chain = None]
  <2>1. Owned(drv, o, "SUBMITTED") /\ entry.length <= Capacity
    BY <1>0, AnswerExpected, Zenon
  <2> QED  BY <2>1, Zenon DEF TakeUsedRead, Return, Goto
<1>3. c \in Indices /\ Successor(c) \in Indices /\ dev.produced \in Indices
      /\ drv.produced \in Indices
  BY Facts, Neighbours, Zenon
<1> HIDE DEF o, entry, c
<1>4. drv.chains[o] \in Chains
  BY <1>0, <1>1, ChainFacts, Zenon
<1>5. /\ drv' \in Endpoints(DriverChains)
      /\ drv'.produced = drv.produced /\ drv'.consumed = Successor(c)
      /\ drv'.owned = drv.owned /\ drv'.slots = drv.slots
      /\ drv'.descriptor_owner = drv.descriptor_owner
      /\ drv'.at = "idle" /\ drv'.faulted = drv.faulted
      /\ DOMAIN drv'.chains = DriverChains
      /\ \A p \in DriverChains \ {o} : drv'.chains[p] = drv.chains[p]
      /\ drv'.chains[o].state = "RETURNED"
      /\ drv'.chains[o].segments = drv.chains[o].segments
      /\ drv'.chains[o].used_length = entry.length
  <2> DEFINE chain == [drv.chains[o] EXCEPT !.state = "RETURNED", !.used_length = entry.length]
  <2> USE <1>4
  <2>1. chain \in Chains
    BY <1>1, Zenon DEF Chains
  <2>2. drv' = [[drv EXCEPT !.chains[o] = chain, !.consumed = Successor(c)]
                  EXCEPT !.at = "idle", !.chain = None]
    BY <1>0, <1>1, <1>2, Zenon DEF Endpoints
  <2>0. chain.state = "RETURNED" /\ chain.segments = drv.chains[o].segments
        /\ chain.used_length = entry.length
    BY Zenon DEF Chains
  <2> HIDE DEF chain
  <2> USE <2>2
  <2>3. drv' \in Endpoints(DriverChains)
    BY <1>0, <1>1, <1>3, <2>1, Zenon DEF Endpoints, Steps
  <2>4. /\ drv'.produced = drv.produced /\ drv'.consumed = Successor(c)
        /\ drv'.owned = drv.owned /\ drv'.slots = drv.slots
        /\ drv'.descriptor_owner = drv.descriptor_owner
        /\ drv'.at = "idle" /\ drv'.faulted = drv.faulted
        /\ drv'.chains = [drv.chains EXCEPT ![o] = chain]
    BY <1>0, Zenon DEF Endpoints
  <2>5. drv.chains \in [DriverChains -> Chains]
    BY <1>0, EndpointFacts, Zenon
  <2> USE <2>4
  <2>6. /\ DOMAIN drv'.chains = DriverChains /\ drv'.chains[o] = chain
        /\ \A p \in DriverChains \ {o} : drv'.chains[p] = drv.chains[p]
    BY <1>1, <2>5
  <2> QED  BY <2>0, <2>3, <2>6, Zenon
<1>7. \A p \in DriverChains : SegmentsAt(drv', p) = SegmentsAt(drv, p)
  BY <1>5, Zenon DEF SegmentsAt
<1>8. drv.chains[o].state = "SUBMITTED" /\ Submitted' = Submitted \ {o}
  BY <1>1, <1>5 DEF Submitted
<1>9. Busy(drv') = Busy(drv) /\ Busy(drv) \subseteq DriverChains
  <2>1. DOMAIN drv.chains = DriverChains
    BY <1>0, EndpointFacts, Zenon
  <2> QED  BY <1>1, <1>5, <1>8, <2>1 DEF Busy
<1>10. TypeOK' /\ NoSpuriousFault'
  BY <1>0, <1>5, Zenon DEF IInv, TypeOK, NoSpuriousFault
<1>11. Books(drv)'
  <2>1. Books(drv)
    BY Zenon DEF IInv
  <2>2. \A p \in Busy(drv) : SegmentsAt(drv', p) = SegmentsAt(drv, p)
    BY <1>7, <1>9, Zenon
  <2> QED  BY <1>5, <1>9, <2>1, <2>2, BooksOfSegments, Zenon
<1>12. DriverState'
  <2>1. DriverState
    BY Zenon DEF IInv
  <2> USE <2>1
  <2>2. \A p \in DriverChains : drv'.chains[p].state \in {"FREE", "SUBMITTED", "RETURNED"}
    <3>1. \A p \in DriverChains : drv.chains[p].state \in {"FREE", "SUBMITTED", "RETURNED"}
      BY Zenon DEF DriverState
    <3> QED  BY <1>5, <3>1, Zenon
  <2>3. \A p \in DriverChains : \A i \in DOMAIN SegmentsAt(drv', p) :
          SegmentsAt(drv', p)[i].chain = p /\ SegmentsAt(drv', p)[i].position = i
    BY <1>7, Zenon DEF DriverState
  <2> QED  BY <1>5, <2>2, <2>3, Zenon DEF DriverState
<1>13. DeviceState' /\ Books(dev)'
  BY <1>0, <1>5, DriverKeepsDevice, Zenon DEF IInv, DeviceState
<1>14. Counts'
  <2>1. Counts
    BY Zenon DEF IInv
  <2>2. c # drv.produced
    <3>1. Distance(c, dev.produced) # 0 /\ Distance(c, dev.produced) \in Nat
      BY <1>1, <1>3, Distances, Zenon
    <3>2. Distance(c, drv.produced) # 0
      BY <3>1, Spaces DEF c
    <3> QED  BY <1>3, <3>2, Distances, Zenon
  <2>3. /\ Distance(Successor(c), dev.produced) = Distance(c, dev.produced) - 1
        /\ Distance(Successor(c), drv.produced) = Distance(c, drv.produced) - 1
    BY <1>1, <1>3, <2>2, Distances, Zenon
  <2>4. Cardinality(Submitted') = Cardinality(Submitted) - 1
    <3>1. FiniteSetFacts
      BY Zenon DEF IInv, Books
    <3> QED  BY <1>1, <1>8, <3>1, Facts, Zenon DEF FiniteSetFacts, RemoveCounts
  <2>5. /\ Distance(c, dev.produced) \in Nat /\ Distance(dev.produced, dev.consumed) \in Nat
        /\ Distance(dev.consumed, drv.produced) \in Nat /\ Distance(c, drv.produced) \in Nat
        /\ Cardinality(Submitted) \in Nat
        /\ Distance(c, drv.produced) <= Cardinality(Submitted)
    BY Spaces, Zenon DEF c
  <2>6. /\ avail.idx = drv.produced /\ used.idx = dev.produced
        /\ Distance(c, dev.produced) + Distance(dev.produced, dev.consumed)
             + Distance(dev.consumed, drv.produced) = Distance(c, drv.produced)
        /\ dev.owned = Distance(dev.produced, dev.consumed)
                        + (IF dev.at \in {"event", "published"} THEN 1 ELSE 0)
    BY <2>1, Zenon DEF Counts, c
  <2>7. /\ Distance(Successor(c), dev.produced) + Distance(dev.produced, dev.consumed)
             + Distance(dev.consumed, drv.produced) = Distance(Successor(c), drv.produced)
        /\ Distance(Successor(c), drv.produced) + 0 <= Cardinality(Submitted')
    BY <2>3, <2>4, <2>5, <2>6
  <2> QED  BY <1>0, <1>5, <2>6, <2>7, Zenon DEF Counts
<1>15. AvailSlots' = AvailSlots /\ UsedSlots = UsedSlots' \cup {Slot(c)} /\ Slot(c) \notin UsedSlots'
  <2>1. Distance(c, dev.produced) <= QueueSize
    BY Spaces, Sizes DEF c
  <2> QED  BY <1>0, <1>1, <1>3, <1>5, <2>1, WindowShrinks, Zenon DEF AvailSlots, UsedSlots, c
<1>16. /\ StoreHeads' = {} /\ AvailHeads' = AvailHeads
       /\ Unanswered' = Unanswered /\ HeldHeads' = HeldHeads
       /\ \A p : SegmentsAt(dev', p) = SegmentsAt(dev, p)
  BY <1>0, <1>5, <1>15, Zenon DEF StoreHeads, AvailHeads, Unanswered, HeldHeads, SegmentsAt
<1>17. UsedHeads' \subseteq UsedHeads /\ entry.head \notin UsedHeads'
  <2>1. \A s \in UsedSlots' : used'.ring[s] = used.ring[s]
    BY <1>0, Zenon
  <2>2. \A s \in UsedSlots' : used.ring[s].head # used.ring[Slot(c)].head
    BY <1>1, <1>15, Zenon DEF IInv, Stages
  <2> QED  BY <1>15, <2>1, <2>2, Zenon DEF UsedHeads, entry
<1>18. ASSUME NEW h \in StoreHeads' \cup AvailHeads' \cup HeldHeads' \cup UsedHeads'
       PROVE  /\ drv'.slots[h] = drv.slots[h] /\ drv'.slots[h] \in Submitted'
              /\ SegmentsAt(drv', drv.slots[h]) = SegmentsAt(drv, drv.slots[h])
  <2>1. h # entry.head
    BY <1>1, <1>16, <1>17 DEF IInv, Stages
  <2>2. drv.slots[h] \in Submitted /\ drv.slots[h] \in DriverChains
        /\ HeadOf(SegmentsAt(drv, drv.slots[h])) = h
    BY <1>16, <1>17, HeadFacts, Zenon
  <2> USE <2>2
  <2>3. drv.slots[h] # o
    BY <1>1, <2>1, Zenon
  <2> QED  BY <1>5, <1>7, <1>8, <2>3, Zenon
<1>19. Stages'
  <2>1. /\ \A s, t \in AvailSlots' : avail'.ring[s] = avail'.ring[t] => s = t
        /\ \A s, t \in UsedSlots' : used'.ring[s].head = used'.ring[t].head => s = t
    BY <1>0, <1>15, Zenon DEF IInv, Stages
  <2>2. /\ StoreHeads' \cap AvailHeads' = {} /\ StoreHeads' \cap HeldHeads' = {}
        /\ StoreHeads' \cap UsedHeads' = {} /\ AvailHeads' \cap HeldHeads' = {}
        /\ AvailHeads' \cap UsedHeads' = {} /\ HeldHeads' \cap UsedHeads' = {}
    BY <1>16, <1>17, Zenon DEF IInv, Stages
  <2>3. \A h \in StoreHeads' \cup AvailHeads' \cup HeldHeads' \cup UsedHeads' :
          drv'.slots[h] \in Submitted'
    BY <1>18, Zenon
  <2>4. \A h \in StoreHeads' \cup AvailHeads' \cup HeldHeads' :
          Described(SegmentsAt(drv, drv.slots[h]))'
    <3> SUFFICES ASSUME NEW h \in AvailHeads' \cup HeldHeads'
                 PROVE  Described(SegmentsAt(drv, drv.slots[h]))'
      BY <1>16, Zenon
    <3>1. Described(SegmentsAt(drv, drv.slots[h]))
      BY <1>16, Zenon DEF IInv, Stages
    <3>2. SegmentsAt(drv', drv'.slots[h]) = SegmentsAt(drv, drv.slots[h])
      BY <1>18, Zenon
    <3> QED  BY <1>0, <3>1, <3>2, Zenon DEF Described
  <2>5. \A p \in Unanswered' :
          SegmentsAt(dev', p) = SegmentsAt(drv', drv'.slots[HeadOf(SegmentsAt(dev', p))])
    <3> SUFFICES ASSUME NEW p \in Unanswered
                 PROVE  SegmentsAt(dev, p)
                          = SegmentsAt(drv', drv'.slots[HeadOf(SegmentsAt(dev, p))])
      BY <1>16, Zenon
    <3>1. HeadOf(SegmentsAt(dev, p)) \in HeldHeads'
      BY <1>16, Zenon DEF HeldHeads
    <3>2. SegmentsAt(dev, p) = SegmentsAt(drv, drv.slots[HeadOf(SegmentsAt(dev, p))])
      BY Zenon DEF IInv, Stages
    <3> QED  BY <1>18, <3>1, <3>2, Zenon
  <2> QED  BY <2>1, <2>2, <2>3, <2>4, <2>5, Zenon DEF Stages
<1>20. Collects
  BY <1>0, <1>1, <1>5, <1>8, Zenon DEF Collects, c, entry, o
<1> QED  BY <1>10, <1>11, <1>12, <1>13, <1>14, <1>19, <1>20, Zenon DEF IInv

(* release: a returned chain object becomes free.                          *)
LEMMA ReleaseStep ==
  ASSUME IInv, NEW o \in DriverChains, Release(o)
  PROVE  IInv' /\ Frees(o)
<1>0. /\ drv \in Endpoints(DriverChains) /\ Books(drv) /\ None \notin DriverChains
      /\ drv.at = "idle" /\ drv.chains[o].state = "RETURNED" /\ drv' = Drop(drv, o)
      /\ UNCHANGED <<dev, desc, avail, used, injected>>
  BY Facts, Zenon DEF IInv, Release, MayCall, Owned
<1> USE <1>0
<1>1. o \in Busy(drv) /\ o \notin Submitted
  BY ChainFacts, Zenon DEF Submitted
<1> USE <1>1
<1>2. /\ drv' \in Endpoints(DriverChains) /\ Books(drv')
      /\ Busy(drv') = Busy(drv) \ {o} /\ drv.slots[HeadOf(SegmentsAt(drv, o))] = o
  <2>1. drv.slots[HeadOf(SegmentsAt(drv, o))] = o
    BY Zenon DEF Books
  <2> QED  BY <2>1, DropBooks, Zenon
<1>3. /\ drv'.slots = [drv.slots EXCEPT ![HeadOf(SegmentsAt(drv, o))] = None]
      /\ drv'.chains = [drv.chains EXCEPT ![o] = FreeChain]
      /\ drv'.produced = drv.produced /\ drv'.consumed = drv.consumed
      /\ drv'.faulted = drv.faulted /\ drv'.at = drv.at
  BY DropFields
<1>4. /\ drv.chains \in [DriverChains -> Chains]
      /\ drv.slots \in [Heads -> DriverChains \cup {None}]
  BY EndpointFacts, Zenon
<1> USE <1>3, <1>4
<1>5. /\ \A p \in DriverChains \ {o} : drv'.chains[p] = drv.chains[p]
      /\ drv'.chains[o] = FreeChain
  BY Zenon
<1> USE <1>5
<1>6. Submitted' = Submitted
  <2>1. FreeChain.state = "FREE"
    BY Zenon DEF FreeChain
  <2> QED  BY <2>1, Zenon DEF Submitted
<1> USE <1>2
<1>7. TypeOK' /\ NoSpuriousFault'
  BY Zenon DEF IInv, TypeOK, NoSpuriousFault
<1>8. DriverState'
  <2>1. DriverState
    BY Zenon DEF IInv
  <2>2. \A p \in DriverChains :
          /\ drv'.chains[p].state \in {"FREE", "SUBMITTED", "RETURNED"}
          /\ \A i \in DOMAIN SegmentsAt(drv', p) :
               SegmentsAt(drv', p)[i].chain = p /\ SegmentsAt(drv', p)[i].position = i
    <3> SUFFICES ASSUME NEW p \in DriverChains
                 PROVE  /\ drv'.chains[p].state \in {"FREE", "SUBMITTED", "RETURNED"}
                        /\ \A i \in DOMAIN SegmentsAt(drv', p) :
                             /\ SegmentsAt(drv', p)[i].chain = p
                             /\ SegmentsAt(drv', p)[i].position = i
      BY Zenon
    <3>1. CASE p = o
      <4>1. /\ FreeChain.state = "FREE" /\ FreeChain.segments = << >>
            /\ drv'.chains[p] = FreeChain
        BY <3>1, Zenon DEF FreeChain
      <4>2. drv'.chains[p].state = "FREE" /\ SegmentsAt(drv', p) = << >>
        BY <4>1, Zenon DEF SegmentsAt
      <4> QED  BY <4>2
    <3>2. CASE p # o
      <4>1. drv'.chains[p] = drv.chains[p]
        BY <3>2, Zenon
      <4>2. SegmentsAt(drv', p) = SegmentsAt(drv, p)
        BY <4>1, Zenon DEF SegmentsAt
      <4>3. /\ drv.chains[p].state \in {"FREE", "SUBMITTED", "RETURNED"}
            /\ \A i \in DOMAIN SegmentsAt(drv, p) :
                 SegmentsAt(drv, p)[i].chain = p /\ SegmentsAt(drv, p)[i].position = i
        BY <2>1, Zenon DEF DriverState
      <4> QED  BY <4>1, <4>2, <4>3
    <3> QED  BY <3>1, <3>2, Zenon
  <2> QED  BY <2>2, Zenon DEF DriverState
<1>9. DeviceState' /\ Books(dev)'
  BY DriverKeepsDevice, Zenon DEF IInv, DeviceState
<1> USE <1>6
<1>10. Counts'
  BY Zenon DEF IInv, Counts
<1>11. StoreHeads' = {}
  BY Zenon DEF StoreHeads
<1>12. ASSUME NEW h \in AvailHeads \cup HeldHeads \cup UsedHeads
       PROVE  /\ drv'.slots[h] = drv.slots[h] /\ drv.slots[h] \in Submitted'
              /\ SegmentsAt(drv', drv.slots[h]) = SegmentsAt(drv, drv.slots[h])
  <2>1. /\ h \in Heads /\ drv.slots[h] \in Submitted /\ drv.slots[h] \in DriverChains
        /\ HeadOf(SegmentsAt(drv, drv.slots[h])) = h
    BY HeadFacts, Zenon
  <2> USE <2>1
  <2>2. drv.slots[h] # o
    BY Zenon
  <2> USE <2>2
  <2>3. drv'.slots[h] = drv.slots[h]
    BY <1>2, Zenon
  <2> QED  BY <2>3, Zenon DEF SegmentsAt
<1> USE <1>12
<1>13. Stages'
  BY <1>11, DriverStages, Zenon
<1>14. Frees(o)
  <2>1. FreeChain.state = "FREE"
    BY Zenon DEF FreeChain
  <2> QED  BY <2>1, Zenon DEF Frees
<1> QED  BY <1>7, <1>8, <1>9, <1>10, <1>13, <1>14, Zenon DEF IInv

(* A failure of the driver's memory, at any point of its calls.            *)
LEMMA DriverIOStep ==
  ASSUME IInv, DriverIO
  PROVE  IInv' /\ DriverStill
<1>0. /\ drv \in Endpoints(DriverChains) /\ injected' = injected \cup {"driver"}
      /\ UNCHANGED <<dev, avail, used>>
  BY Facts, Zenon DEF DriverIO
<1>1. "driver" \in injected' /\ injected \subseteq injected' /\ injected' \subseteq {"driver", "device"}
  BY <1>0, Zenon DEF IInv, TypeOK
<1>2. CASE /\ drv' \in Disturbed(drv) \cup (IF drv.at = "event" THEN {Fault(drv)} ELSE {})
           /\ UNCHANGED desc
  <2> USE <1>2
  <2>1. drv' = [drv EXCEPT !.faulted = TRUE] \/ drv' = Fault(drv)
    BY Zenon DEF Disturbed
  <2>2. /\ drv' \in Endpoints(DriverChains)
        /\ drv'.produced = drv.produced /\ drv'.consumed = drv.consumed
        /\ drv'.owned = drv.owned /\ drv'.slots = drv.slots
        /\ drv'.descriptor_owner = drv.descriptor_owner /\ drv'.chains = drv.chains
        /\ drv'.at = "idle" \/ (drv'.at = drv.at /\ drv'.chain = drv.chain)
    BY <1>0, <2>1, Disturbances
  <2>3. drv.at \in {"idle", "store", "read", "event"}
        /\ (drv.at = "read" => drv.consumed # dev.produced)
    BY Zenon DEF IInv, DriverState
  <2> QED  BY <1>0, <1>1, <2>2, <2>3, DriverMoves, Zenon
<1>3. ASSUME NEW o \in DriverChains, NEW ds \in Lists(Heads),
             MayPublish(o, SegmentsOf(o, ds)),
             drv' = Fault(Claim(drv, o, SegmentsOf(o, ds), "SUBMITTED")),
             NEW n \in 0 .. Len(SegmentsOf(o, ds)),
             desc' = WithDescriptors(SegmentsOf(o, ds), n)
      PROVE  IInv' /\ DriverStill
  <2> DEFINE segments == SegmentsOf(o, ds)
             new == Claim(drv, o, segments, "SUBMITTED")
             head == HeadOf(segments)
  <2>0. \A d, c \in Nat : d <= c => d + 0 <= c + 1
    OBVIOUS
  <2>1. /\ segments \in Lists(Segments) /\ drv.owned # MaxOutstanding
        /\ ValidChain(drv, segments)
        /\ \A i \in DOMAIN segments : segments[i].chain = o /\ segments[i].position = i
    BY <1>3, SegmentsOfFacts, Zenon DEF MayPublish
  <2>2. Len(segments) # 0
    BY <2>1, Sizes DEF ValidChain
  <2>3. new \in Endpoints(DriverChains)
    BY <1>0, <2>1, <2>2, ClaimType, Zenon
  <2>4. new.produced = drv.produced /\ new.consumed = drv.consumed
    BY <1>0, Zenon DEF Claim, Endpoints
  <2> HIDE DEF new
  <2>5. /\ drv' \in Endpoints(DriverChains) /\ drv'.at = "idle"
        /\ drv'.produced = new.produced /\ drv'.consumed = new.consumed
        /\ drv'.owned = new.owned /\ drv'.slots = new.slots
        /\ drv'.descriptor_owner = new.descriptor_owner /\ drv'.chains = new.chains
    <3>1. drv' = Fault(new)
      BY <1>3, Zenon DEF new
    <3> QED  BY <2>3, <3>1, Zenon DEF Fault, Endpoints, Steps
  <2> USE <2>5
  <2>6. /\ Books(drv)' /\ desc' \in [Heads -> {None} \cup Links]
        /\ Submitted' = Submitted \cup {o}
        /\ Cardinality(Submitted') = Cardinality(Submitted) + 1
        /\ SegmentsAt(drv', o) = segments /\ drv'.chains[o].state = "SUBMITTED"
        /\ \A p \in DriverChains \ {o} : drv'.chains[p] = drv.chains[p]
        /\ \A h \in AvailHeads \cup HeldHeads \cup UsedHeads :
             /\ drv'.slots[h] = drv.slots[h] /\ drv.slots[h] \in Submitted'
             /\ SegmentsAt(drv', drv.slots[h]) = SegmentsAt(drv, drv.slots[h])
        /\ \A h \in AvailHeads \cup HeldHeads :
             \A d \in Descriptors(SegmentsAt(drv, drv.slots[h])) : desc'[d] = desc[d]
    <3>1. Claimed(o, segments)
      BY <1>0, <1>3, PublishClaims, Zenon DEF new
    <3> QED  BY <3>1, Zenon DEF Claimed
  <2> HIDE DEF segments
  <2> USE <2>6
  <2>7. TypeOK' /\ NoSpuriousFault'
    BY <1>0, <1>1, Zenon DEF IInv, TypeOK, NoSpuriousFault
  <2>8. DriverState'
    <3>1. DriverState
      BY Zenon DEF IInv
    <3>2. \A p \in DriverChains :
            /\ drv'.chains[p].state \in {"FREE", "SUBMITTED", "RETURNED"}
            /\ \A i \in DOMAIN SegmentsAt(drv', p) :
                 SegmentsAt(drv', p)[i].chain = p /\ SegmentsAt(drv', p)[i].position = i
      <4> SUFFICES ASSUME NEW p \in DriverChains
                   PROVE  /\ drv'.chains[p].state \in {"FREE", "SUBMITTED", "RETURNED"}
                          /\ \A i \in DOMAIN SegmentsAt(drv', p) :
                               /\ SegmentsAt(drv', p)[i].chain = p
                               /\ SegmentsAt(drv', p)[i].position = i
        BY Zenon
      <4>1. CASE p = o
        BY <2>1, <4>1, Zenon
      <4>2. CASE p # o
        <5>1. drv'.chains[p] = drv.chains[p]
          BY <4>2, Zenon
        <5>2. /\ drv.chains[p].state \in {"FREE", "SUBMITTED", "RETURNED"}
              /\ \A i \in DOMAIN SegmentsAt(drv, p) :
                   SegmentsAt(drv, p)[i].chain = p /\ SegmentsAt(drv, p)[i].position = i
          BY <3>1, Zenon DEF DriverState
        <5> QED  BY <5>1, <5>2, Zenon DEF SegmentsAt
      <4> QED  BY <4>1, <4>2, Zenon
    <3> QED  BY <3>2, Zenon DEF DriverState
  <2> USE <2>4
  <2>9. DeviceState' /\ Books(dev)'
    BY <1>0, DriverKeepsDevice, Zenon DEF IInv, DeviceState
  <2>10. Counts'
    <3>1. /\ Distance(drv.consumed, drv.produced) <= Cardinality(Submitted)
          /\ Distance(drv.consumed, drv.produced) \in Nat /\ Cardinality(Submitted) \in Nat
      BY Spaces, Zenon
    <3>2. Distance(drv.consumed, drv.produced) + 0 <= Cardinality(Submitted')
      BY <2>0, <3>1, Zenon
    <3>3. (IF drv'.at = "store" THEN 1 ELSE 0) = 0
      BY Zenon
    <3> QED  BY <1>0, <3>2, <3>3, Zenon DEF IInv, Counts
  <2>11. StoreHeads' = {}
    BY Zenon DEF StoreHeads
  <2>12. Stages'
    BY <1>0, <2>11, DriverStages, Zenon
  <2>13. DriverStill
    BY <1>0, <1>3, Zenon DEF DriverStill, MayPublish
  <2> QED  BY <2>7, <2>8, <2>9, <2>10, <2>12, <2>13, Zenon DEF IInv
<1> QED  BY <1>2, <1>3, Zenon DEF DriverIO

-----------------------------------------------------------------------------
(***************************************************************************)
(* The books agree                                                         *)
(***************************************************************************)

(* Books says what Consistent says.                                        *)
LEMMA BooksConsistent ==
  ASSUME NEW objects, None \notin objects, NEW vq \in Endpoints(objects), Books(vq)
  PROVE  Consistent(vq)
<1> DEFINE busy == Busy(vq)
<1>0. /\ vq.slots \in [Heads -> objects \cup {None}] /\ busy \subseteq objects
      /\ vq.descriptor_owner \in [Heads -> 0 .. QueueSize]
  BY EndpointFacts, Zenon DEF Busy
<1>1. vq.owned = Cardinality(busy)
  BY Zenon DEF Books
<1> USE <1>0, Sizes
<1>2. Held(vq) = busy
  <2>1. ASSUME NEW o \in Held(vq) PROVE o \in busy
    BY <2>1 DEF Held, Books
  <2>2. ASSUME NEW o \in busy PROVE o \in Held(vq)
    <3>1. SegmentsAt(vq, o) \in Lists(Segments) /\ Len(SegmentsAt(vq, o)) # 0
      BY BusyFacts, Zenon
    <3>2. HeadOf(SegmentsAt(vq, o)) \in Heads
      BY <3>1, SegmentFacts, Zenon
    <3> QED  BY <3>2 DEF Held, Books
  <2> QED  BY <2>1, <2>2, Zenon
<1>3. \A h \in Heads : vq.slots[h] # None => HeadOf(vq.chains[vq.slots[h]].segments) = h
  BY Zenon DEF Books, SegmentsAt
<1>4. ASSUME NEW h \in Heads
      PROVE  vq.descriptor_owner[h] =
               IF \E o \in busy : h \in Descriptors(vq.chains[o].segments)
                 THEN 1 + HeadOf(vq.chains[CHOOSE o \in busy :
                                            h \in Descriptors(vq.chains[o].segments)].segments)
                 ELSE 0
  <2> DEFINE p == CHOOSE o \in busy : h \in Descriptors(vq.chains[o].segments)
  <2>1. CASE \E o \in busy : h \in Descriptors(vq.chains[o].segments)
    <3> USE <2>1
    <3>1. p \in busy /\ h \in Descriptors(SegmentsAt(vq, p))
      BY Zenon DEF SegmentsAt
    <3> HIDE DEF p
    <3> USE <3>1
    <3>2. vq.descriptor_owner[h] = HeadOf(SegmentsAt(vq, p)) + 1
      BY Zenon DEF Books
    <3>3. SegmentsAt(vq, p) \in Lists(Segments) /\ Len(SegmentsAt(vq, p)) # 0
      BY BusyFacts, Zenon
    <3>4. HeadOf(SegmentsAt(vq, p)) \in Int
      BY <3>3, SegmentFacts DEF Heads
    <3>5. vq.descriptor_owner[h] = 1 + HeadOf(vq.chains[p].segments)
      BY <3>2, <3>4 DEF SegmentsAt
    <3> QED  BY <3>5, Zenon DEF p
  <2>2. CASE ~\E o \in busy : h \in Descriptors(vq.chains[o].segments)
    BY <2>2, Zenon DEF Books, SegmentsAt
  <2> QED  BY <2>1, <2>2, Zenon
<1> QED  BY <1>1, <1>2, <1>3, <1>4, Zenon DEF Consistent, Busy

(* The invariant contains what OwnershipConsistent says.                   *)
LEMMA BooksAgree ==
  ASSUME IInv
  PROVE  OwnershipConsistent
<1> USE Facts
<1>1. Consistent(drv) /\ Consistent(dev)
  BY BooksConsistent, Zenon DEF IInv
<1>2. ASSUME NEW o \in Unanswered
      PROVE  LET segments == dev.chains[o].segments
                 request == drv.chains[segments[1].chain]
             IN  request.state = "SUBMITTED" /\ request.segments = segments
  <2> DEFINE h == HeadOf(SegmentsAt(dev, o))
             r == drv.slots[h]
  <2>1. h \in HeldHeads /\ SegmentsAt(dev, o) = SegmentsAt(drv, r)
    BY Zenon DEF HeldHeads, IInv, Stages
  <2> USE <2>1
  <2>2. r \in Submitted /\ r \in Busy(drv) /\ r \in DriverChains
    BY HeadFacts, Zenon
  <2> HIDE DEF r
  <2> USE <2>2
  <2>3. 1 \in DOMAIN SegmentsAt(drv, r)
    <3>1. Len(SegmentsAt(drv, r)) \in 1 .. MaxChain /\ SegmentsAt(drv, r) \in Lists(Segments)
      BY ChainFacts, Zenon DEF IInv, Books
    <3> QED  BY <3>1, SegmentFacts, Sizes
  <2>4. SegmentsAt(drv, r)[1].chain = r
    BY <2>3, Zenon DEF IInv, DriverState
  <2> QED  BY <2>4, Zenon DEF SegmentsAt, Submitted
<1>3. SnapshotFaithful
  BY <1>2, Zenon DEF SnapshotFaithful
<1> QED  BY <1>1, <1>3, Zenon DEF OwnershipConsistent, IInv

-----------------------------------------------------------------------------
(***************************************************************************)
(* The invariant holds initially                                           *)
(***************************************************************************)

(* A bound endpoint has no busy chain.                                     *)
LEMMA BoundBooks ==
  ASSUME FiniteSetFacts, NEW objects
  PROVE  /\ Bound(objects) \in Endpoints(objects) /\ Books(Bound(objects))
         /\ Busy(Bound(objects)) = {}
<1> DEFINE vq == Bound(objects)
<1> USE Sizes
<1>1. FreeChain \in Chains
  <2>1. <<>> \in Lists(Segments)
    <3>1. 0 \in 0 .. MaxChain /\ <<>> \in [1 .. 0 -> Segments]
      OBVIOUS
    <3> QED  BY <3>1, Zenon DEF Lists
  <2> QED  BY <2>1 DEF FreeChain, Chains, Lengths
<1>2. 0 \in Indices /\ 0 \in 0 .. MaxOutstanding /\ 0 \in 0 .. QueueSize
  BY DEF Indices
<1>3. vq \in Endpoints(objects)
  BY <1>1, <1>2, Zenon DEF Bound, Endpoints, Steps
<1>4. Busy(vq) = {}
  BY Zenon DEF Busy, Bound, FreeChain
<1>5. vq.owned = 0 /\ \A h \in Heads : vq.slots[h] = None /\ vq.descriptor_owner[h] = 0
  BY Zenon DEF Bound
<1> USE <1>4
<1>6. Books(vq)
  BY <1>5, Zenon DEF Books, FiniteSetFacts, EmptyCounts
<1> QED  BY <1>3, <1>6, Zenon

(* Two bound endpoints and empty rings satisfy the invariant.              *)
LEMMA InitIInv ==
  ASSUME FiniteSetFacts, Init
  PROVE  IInv
<1>1. /\ drv \in Endpoints(DriverChains) /\ Books(drv) /\ Busy(drv) = {}
      /\ dev \in Endpoints(DeviceChains) /\ Books(dev) /\ Busy(dev) = {}
  BY BoundBooks, Zenon DEF Init
<1>2. /\ drv.produced = 0 /\ drv.consumed = 0 /\ drv.at = "idle" /\ drv.faulted = FALSE
      /\ dev.produced = 0 /\ dev.consumed = 0 /\ dev.at = "idle" /\ dev.faulted = FALSE
      /\ dev.owned = 0 /\ dev.last_taken = None
      /\ \A o \in DriverChains : drv.chains[o] = FreeChain
      /\ \A o \in DeviceChains : dev.chains[o] = FreeChain
  BY Zenon DEF Init, Bound
<1>3. 0 \in Indices /\ 0 \in Heads /\ 0 \in Lengths
  BY Sizes DEF Indices, Heads, Lengths
<1> USE <1>1, <1>2, <1>3
<1>4. TypeOK /\ NoSpuriousFault
  BY Zenon DEF Init, TypeOK, NoSpuriousFault
<1>0. FreeChain.state = "FREE"
  BY Zenon DEF FreeChain
<1>5. DriverState
  <2>1. DOMAIN FreeChain.segments = {}
    BY DEF FreeChain
  <2> QED  BY <1>0, <2>1, Zenon DEF DriverState, SegmentsAt
<1>6. DeviceState
  BY <1>0, Zenon DEF DeviceState
<1>7. Submitted = {} /\ Unanswered = {}
  BY <1>0, Zenon DEF Submitted, Unanswered
<1>8. Distance(0, 0) = 0
  BY Distances, Zenon
<1> USE <1>7, <1>8
<1>9. Counts
  BY DEF Init, Counts, FiniteSetFacts, EmptyCounts
<1>10. StoreHeads = {} /\ AvailSlots = {} /\ UsedSlots = {}
  BY DEF StoreHeads, AvailSlots, UsedSlots, Window
<1>11. Stages
  BY <1>10, Zenon DEF Stages, AvailHeads, HeldHeads, UsedHeads
<1> QED  BY <1>4, <1>5, <1>6, <1>9, <1>11, Zenon DEF IInv
=============================================================================
