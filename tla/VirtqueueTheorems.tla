------------------------- MODULE VirtqueueTheorems --------------------------
(***************************************************************************)
(* The theorems about the virtqueue of protocol/src/virtqueue.c, for any   *)
(* queue size, index width, number of chain objects and chain length, with *)
(* or without failures of either side's memory: what the invariant of      *)
(* VirtqueueProofs implies, and what a step is for the requests in flight: *)
(* a step of RequestExchange, or one that leaves requests and answers as   *)
(* they are.                                                               *)
(***************************************************************************)
EXTENDS VirtqueueDeviceProofs, VirtqueueExchange

-----------------------------------------------------------------------------
(***************************************************************************)
(* What the mapped variables of RequestExchange are                        *)
(***************************************************************************)

(* The request behind a chain that the device holds.                       *)
Request(o) == drv.slots[HeadOf(SegmentsAt(dev, o))]

(* What the mapped variables are, in a state with IInv: requests and       *)
(* answers in the order of the rings, and one request for each chain held. *)
QueueIs ==
  /\ Queue \in Seq(DriverChains) /\ Len(Queue) = Distance(dev.consumed, drv.produced)
  /\ \A k \in 1 .. Len(Queue) :
       /\ Slot(dev.consumed + k - 1) \in AvailSlots
       /\ Queue[k] = desc[avail.ring[Slot(dev.consumed + k - 1)]].chain
       /\ Queue[k] = drv.slots[avail.ring[Slot(dev.consumed + k - 1)]]
AnswersAre ==
  /\ Answers \in Seq([request : DriverChains, length : Lengths])
  /\ Len(Answers) = Distance(drv.consumed, dev.produced)
  /\ \A k \in 1 .. Len(Answers) :
       LET entry == used.ring[Slot(drv.consumed + k - 1)] IN
       /\ Slot(drv.consumed + k - 1) \in UsedSlots
       /\ Answers[k] = [request |-> drv.slots[entry.head], length |-> entry.length]
TakenIs ==
  /\ Taken = [r \in DOMAIN Taken |-> Taken[r]]
  /\ DOMAIN Taken = {Request(o) : o \in Unanswered}
  /\ \A o \in Unanswered :
       /\ Request(o) \in DriverChains /\ SegmentsAt(dev, o)[1].chain = Request(o)
       /\ Taken[Request(o)] = dev.chains[o].written
       /\ \A p \in Unanswered : Request(o) = Request(p) => o = p

(* Two functions with the same values are equal.                           *)
LEMMA Extensional ==
  ASSUME NEW S, NEW f, NEW g, f = [x \in S |-> f[x]], g = [x \in S |-> g[x]],
         \A x \in S : f[x] = g[x]
  PROVE  f = g
BY Zenon

(* The k-th announced entry.                                               *)
LEMMA WindowEntries ==
  ASSUME NEW a \in Indices, NEW b \in Indices
  PROVE  /\ \A k \in 1 .. Distance(a, b) : Slot(a + k - 1) \in Window(a, b)
         /\ \A s \in Window(a, b) : \E k \in 1 .. Distance(a, b) : s = Slot(a + k - 1)
<1>1. Distance(a, b) \in Nat /\ a \in Int
  BY Distances DEF Indices
<1> USE <1>1
<1>2. \A k \in 1 .. Distance(a, b) :
        k - 1 \in 0 .. Distance(a, b) - 1 /\ a + (k - 1) = a + k - 1
  OBVIOUS
<1>3. \A j \in 0 .. Distance(a, b) - 1 :
        j + 1 \in 1 .. Distance(a, b) /\ a + (j + 1) - 1 = a + j
  OBVIOUS
<1> HIDE DEF Distance
<1>4. ASSUME NEW k \in 1 .. Distance(a, b) PROVE Slot(a + k - 1) \in Window(a, b)
  BY <1>2, Zenon DEF Window
<1>5. ASSUME NEW s \in Window(a, b)
      PROVE  \E k \in 1 .. Distance(a, b) : s = Slot(a + k - 1)
  <2>1. PICK j \in 0 .. Distance(a, b) - 1 : s = Slot(a + j)
    BY Zenon DEF Window
  <2>2. j + 1 \in 1 .. Distance(a, b) /\ s = Slot(a + (j + 1) - 1)
    BY <1>3, <2>1, Zenon
  <2> QED  BY <2>2, Zenon
<1> QED  BY <1>4, <1>5, Zenon

(* Numbering from the successor and from the predecessor of an index.      *)
LEMMA SlotShift ==
  ASSUME NEW a \in Indices, NEW k \in Int
  PROVE  /\ Slot(Successor(a) + k - 1) = Slot(a + (k + 1) - 1)
         /\ Slot(Predecessor(a) + (k + 1) - 1) = Slot(a + k - 1)
<1>1. /\ a \in Int /\ a + 1 \in Int /\ a - 1 \in Int
      /\ Successor(a) \in Int /\ Predecessor(a) \in Int
  BY Neighbours DEF Indices
<1> USE <1>1
<1>2. Slot(((a + 1) % IndexModulus) + (k - 1)) = Slot((a + 1) + (k - 1))
  BY SlotWrap
<1>3. Slot(((a - 1) % IndexModulus) + k) = Slot((a - 1) + k)
  BY SlotWrap
<1>4. /\ ((a + 1) % IndexModulus) + (k - 1) = Successor(a) + k - 1
      /\ (a + 1) + (k - 1) = a + (k + 1) - 1
      /\ ((a - 1) % IndexModulus) + k = Predecessor(a) + (k + 1) - 1
      /\ (a - 1) + k = a + k - 1
  BY DEF Successor, Predecessor
<1> QED  BY <1>2, <1>3, <1>4, Zenon

(* The slot after the entries between two indices is the later index's.    *)
LEMMA SlotEnd ==
  ASSUME NEW a \in Indices, NEW b \in Indices
  PROVE  Slot(a + (Distance(a, b) + 1) - 1) = Slot(b)
<1>1. a \in Int /\ b \in Int /\ b - a \in Int /\ Distance(a, b) \in Int
  BY Distances DEF Indices
<1> USE <1>1
<1>2. Slot(((b - a) % IndexModulus) + a) = Slot((b - a) + a)
  BY SlotWrap, Zenon
<1>3. /\ ((b - a) % IndexModulus) + a = a + (Distance(a, b) + 1) - 1
      /\ (b - a) + a = b
  BY DEF Distance
<1> QED  BY <1>2, <1>3, Zenon

(* Requests that wait in the ring, by their number.                        *)
LEMMA QueueValues ==
  ASSUME IInv
  PROVE  QueueIs
<1> DEFINE n == Distance(dev.consumed, drv.produced)
           s(k) == Slot(dev.consumed + k - 1)
<1>1. n \in Nat /\ avail.idx = drv.produced
  BY Spaces, Zenon DEF IInv, Counts
<1>2. \A k \in 1 .. n : s(k) \in AvailSlots
  BY Facts, WindowEntries, Zenon DEF AvailSlots
<1> USE <1>1
<1>3. Queue = [k \in 1 .. n |-> desc[avail.ring[s(k)]].chain]
  BY Zenon DEF Queue
<1> HIDE DEF n, s
<1> USE <1>2
<1>4. ASSUME NEW k \in 1 .. n
      PROVE  /\ desc[avail.ring[s(k)]].chain = drv.slots[avail.ring[s(k)]]
             /\ drv.slots[avail.ring[s(k)]] \in DriverChains
  <2> DEFINE h == avail.ring[s(k)]
             r == drv.slots[h]
             segments == SegmentsAt(drv, r)
  <2>1. /\ h \in AvailHeads /\ segments \in Lists(Segments) /\ Len(segments) # 0
    BY AnnouncedChain, Zenon
  <2> USE <2>1
  <2>2. r \in DriverChains /\ HeadOf(segments) = h /\ Described(segments)
    BY HeadFacts, Zenon DEF IInv, Stages
  <2> HIDE DEF h, r
  <2>3. 1 \in 1 .. Len(segments) /\ DOMAIN segments = 1 .. Len(segments)
    BY SegmentFacts, Sizes
  <2> USE <2>2, <2>3
  <2>4. segments[1].chain = r
    BY Zenon DEF IInv, DriverState
  <2>5. desc[segments[1].descriptor].chain = segments[1].chain
    <3> DEFINE next == IF 1 < Len(segments) THEN segments[1 + 1].descriptor ELSE None
    <3>1. desc[segments[1].descriptor] =
            [chain |-> segments[1].chain, position |-> segments[1].position, next |-> next]
      BY Zenon DEF Described
    <3> HIDE DEF next
    <3> QED  BY <3>1
  <2> QED  BY <2>4, <2>5, Zenon DEF HeadOf, h, r
<1> USE <1>4
<1>5. Queue \in Seq(DriverChains) /\ Len(Queue) = n
      /\ \A k \in 1 .. n : Queue[k] = desc[avail.ring[s(k)]].chain
  BY <1>3
<1> QED  BY <1>5, Zenon DEF n, s, QueueIs

(* Answers that wait in the ring, by their number.                         *)
LEMMA AnswerValues ==
  ASSUME IInv
  PROVE  AnswersAre
<1> DEFINE n == Distance(drv.consumed, dev.produced)
           s(k) == Slot(drv.consumed + k - 1)
           answer(k) == [request |-> drv.slots[used.ring[s(k)].head],
                         length |-> used.ring[s(k)].length]
<1> USE Spaces
<1>1. n \in Nat /\ used.idx = dev.produced
  BY Zenon DEF IInv, Counts
<1> USE Facts
<1>2. \A k \in 1 .. n : s(k) \in UsedSlots
  BY WindowEntries, Zenon DEF UsedSlots
<1> USE <1>1
<1>3. Answers = [k \in 1 .. n |-> answer(k)]
  BY Zenon DEF Answers
<1> HIDE DEF n, s
<1> USE <1>2
<1>4. ASSUME NEW k \in 1 .. n
      PROVE  answer(k) \in [request : DriverChains, length : Lengths]
  <2>1. s(k) \in UsedSlots /\ s(k) \in Heads /\ used.ring[s(k)].head \in UsedHeads
    BY Zenon DEF UsedHeads
  <2> USE <2>1
  <2>2. drv.slots[used.ring[s(k)].head] \in DriverChains
    BY HeadFacts, Zenon
  <2>3. used.ring[s(k)].length \in Lengths
    BY Zenon
  <2> QED  BY <2>2, <2>3, Zenon
<1> HIDE DEF answer
<1>5. /\ Answers \in Seq([request : DriverChains, length : Lengths]) /\ Len(Answers) = n
      /\ \A k \in 1 .. n : Answers[k] = answer(k)
  BY <1>3, <1>4
<1> QED  BY <1>5, Zenon DEF n, s, answer, AnswersAre

(* The requests the device holds.                                          *)
LEMMA TakenValues ==
  ASSUME IInv
  PROVE  TakenIs
<1> USE Facts
<1>1. ASSUME NEW o \in Unanswered
      PROVE  /\ Request(o) \in DriverChains /\ SegmentsAt(dev, o)[1].chain = Request(o)
             /\ HeadOf(SegmentsAt(drv, Request(o))) = HeadOf(SegmentsAt(dev, o))
  <2>1. HeadOf(SegmentsAt(dev, o)) \in HeldHeads
    BY Zenon DEF HeldHeads
  <2>2. /\ Request(o) \in DriverChains /\ Request(o) \in Busy(drv)
        /\ SegmentsAt(dev, o) = SegmentsAt(drv, Request(o))
    BY <2>1, HeadFacts, Zenon DEF IInv, Stages, Request
  <2> USE <2>2
  <2>3. 1 \in DOMAIN SegmentsAt(drv, Request(o))
    <3>1. /\ Len(SegmentsAt(drv, Request(o))) \in 1 .. MaxChain
          /\ SegmentsAt(drv, Request(o)) \in Lists(Segments)
      BY ChainFacts, Zenon DEF IInv, Books
    <3> QED  BY <3>1, SegmentFacts, Sizes
  <2>4. SegmentsAt(drv, Request(o))[1].chain = Request(o)
    BY <2>3, Zenon DEF IInv, DriverState
  <2> QED  BY <2>4, Zenon
<1> USE <1>1
<1>2. ASSUME NEW o \in Unanswered, NEW p \in Unanswered, Request(o) = Request(p)
      PROVE  o = p
  <2>1. HeadOf(SegmentsAt(dev, o)) = HeadOf(SegmentsAt(dev, p))
    BY <1>2, Zenon
  <2>2. o \in Busy(dev) /\ p \in Busy(dev)
    BY Zenon
  <2> QED  BY <2>1, <2>2, BooksDisjoint, Zenon DEF IInv
<1>3. DOMAIN Taken = {Request(o) : o \in Unanswered}
  BY Zenon DEF Taken, SegmentsAt
<1> USE <1>2, <1>3
<1>4. ASSUME NEW o \in Unanswered PROVE Taken[Request(o)] = dev.chains[o].written
  <2> DEFINE r == Request(o)
             p == CHOOSE q \in Unanswered : dev.chains[q].segments[1].chain = r
  <2>1. p \in Unanswered /\ dev.chains[p].segments[1].chain = r
    BY Zenon DEF SegmentsAt
  <2>2. Taken[r] = dev.chains[p].written
    BY Zenon DEF Taken
  <2> HIDE DEF p
  <2>3. p = o
    BY <2>1, Zenon DEF SegmentsAt
  <2> QED  BY <2>2, <2>3, Zenon
<1>5. Taken = [r \in DOMAIN Taken |-> Taken[r]]
  <2> DEFINE S == {dev.chains[o].segments[1].chain : o \in Unanswered}
             written(r) == dev.chains[CHOOSE o \in Unanswered :
                                        dev.chains[o].segments[1].chain = r].written
  <2>1. Taken = [r \in S |-> written(r)]
    BY Zenon DEF Taken
  <2> HIDE DEF S, written
  <2> QED  BY <2>1, Zenon
<1> QED  BY <1>4, <1>5, Zenon DEF TakenIs

(* What the mapped variables are in a state of the queue, and in the next. *)
LEMMA Values == IInv => QueueIs /\ AnswersAre /\ TakenIs
BY QueueValues, AnswerValues, TakenValues, Zenon

(* The same of the next state.                                             *)
LEMMA ValuesNext == IInv' => QueueIs' /\ AnswersAre' /\ TakenIs'
BY Values, PTL

(* Two sequences with the same entries are equal.                          *)
LEMMA SameSequence ==
  ASSUME NEW S, NEW s \in Seq(S), NEW t \in Seq(S), Len(s) = Len(t),
         \A k \in 1 .. Len(s) : s[k] = t[k]
  PROVE  s = t
OBVIOUS

(* A request keeps its place in the order of the ring, whatever the step.  *)
LEMMA QueueKeeps ==
  ASSUME IInv, IInv', Next,
         NEW k \in 1 .. Len(Queue), NEW j \in 1 .. Len(Queue'),
         Slot(dev'.consumed + j - 1) = Slot(dev.consumed + k - 1)
  PROVE  Queue'[j] = Queue[k]
<1> DEFINE s == Slot(dev.consumed + k - 1)
           h == avail.ring[s]
           segments == SegmentsAt(drv, drv.slots[h])
<1>1. s \in AvailSlots /\ Queue[k] = desc[h].chain
  BY Values, Zenon DEF QueueIs
<1>2. Queue'[j] = desc'[avail'.ring[s]].chain
  BY ValuesNext, Zenon DEF QueueIs
<1> USE <1>1
<1>3. /\ h \in AvailHeads /\ segments \in Lists(Segments) /\ Len(segments) # 0
      /\ ReadChain(h) = segments
  BY AnnouncedChain, Zenon
<1>4. h \in Descriptors(ReadChain(h))
  BY <1>3, HeadFacts, SegmentFacts, Zenon
<1>5. avail'.ring[s] = h /\ desc'[h] = desc[h]
  BY <1>4, StepKeepsEntries, Zenon
<1> QED  BY <1>2, <1>5, Zenon

(* The queue of requests changes only with its two ends.                   *)
LEMMA QueueSame ==
  ASSUME IInv, IInv', Next, dev'.consumed = dev.consumed, drv'.produced = drv.produced
  PROVE  Queue' = Queue
<1>1. /\ Queue \in Seq(DriverChains) /\ Queue' \in Seq(DriverChains)
      /\ Len(Queue') = Len(Queue)
  BY Values, ValuesNext, Zenon DEF QueueIs
<1> USE <1>1
<1>2. \A k \in 1 .. Len(Queue) : Queue'[k] = Queue[k]
  BY QueueKeeps, Zenon
<1> QED  BY <1>2, SameSequence, Zenon

(* An answer keeps its place too.                                          *)
LEMMA AnswerKeeps ==
  ASSUME IInv, IInv', Next, \A h \in UsedHeads : drv'.slots[h] = drv.slots[h],
         NEW k \in 1 .. Len(Answers), NEW j \in 1 .. Len(Answers'),
         Slot(drv'.consumed + j - 1) = Slot(drv.consumed + k - 1)
  PROVE  Answers'[j] = Answers[k]
<1> DEFINE s == Slot(drv.consumed + k - 1)
<1>1. /\ s \in UsedSlots
      /\ Answers[k] = [request |-> drv.slots[used.ring[s].head], length |-> used.ring[s].length]
  BY Values, Zenon DEF AnswersAre
<1>2. Answers'[j] = [request |-> drv'.slots[used'.ring[s].head], length |-> used'.ring[s].length]
  BY ValuesNext, Zenon DEF AnswersAre
<1> USE <1>1
<1>3. used'.ring[s] = used.ring[s] /\ used.ring[s].head \in UsedHeads
  BY StepKeepsEntries, Zenon DEF UsedHeads
<1> QED  BY <1>2, <1>3, Zenon

(* The queue of answers changes only with its two ends.                    *)
LEMMA AnswersSame ==
  ASSUME IInv, IInv', Next, \A h \in UsedHeads : drv'.slots[h] = drv.slots[h],
         drv'.consumed = drv.consumed, dev'.produced = dev.produced
  PROVE  Answers' = Answers
<1> DEFINE S == [request : DriverChains, length : Lengths]
<1>1. Answers \in Seq(S) /\ Answers' \in Seq(S) /\ Len(Answers') = Len(Answers)
  BY Values, ValuesNext, Zenon DEF AnswersAre
<1> USE <1>1
<1>2. \A k \in 1 .. Len(Answers) : Answers'[k] = Answers[k]
  BY AnswerKeeps, Zenon
<1> HIDE DEF S
<1> QED  BY <1>2, SameSequence, Zenon

(* The accepted requests change only with the device.                      *)
LEMMA TakenSame ==
  ASSUME dev' = dev
  PROVE  Taken' = Taken
<1>1. Unanswered' = Unanswered
  BY Zenon DEF Unanswered
<1> QED  BY <1>1 DEF Taken

Returned == {o \in DriverChains : drv.chains[o].state = "RETURNED"}

(* The requests the driver has back.                                       *)
LEMMA CollectedValues ==
  /\ Collected = [r \in Returned |-> Collected[r]] /\ DOMAIN Collected = Returned
  /\ \A r \in Returned : Collected[r] = drv.chains[r].used_length
  /\ Collected' = [r \in Returned' |-> Collected'[r]] /\ DOMAIN Collected' = Returned'
  /\ \A r \in Returned' : Collected'[r] = drv'.chains[r].used_length
BY Zenon DEF Collected, Returned

(* They change only with the driver's chain objects.                       *)
LEMMA CollectedSame ==
  ASSUME Returned' = Returned,
         \A o \in Returned : drv'.chains[o].used_length = drv.chains[o].used_length
  PROVE  Collected' = Collected
<1>1. \A r \in Returned : Collected'[r] = Collected[r]
  BY CollectedValues, Zenon
<1> QED  BY <1>1, CollectedValues, Extensional, Zenon

Mapped == <<Queue, Taken, Answers, Collected>>

(* Calls of the driver that only begin, end or fail change nothing in the  *)
(* exchange.                                                               *)
LEMMA DriverStutters ==
  ASSUME IInv, IInv', Next, DriverStill
  PROVE  Mapped' = Mapped
<1>1. Queue' = Queue /\ Answers' = Answers
  BY QueueSame, AnswersSame, Zenon DEF DriverStill
<1>2. Taken' = Taken
  BY TakenSame, Zenon DEF DriverStill
<1>3. /\ Returned' = Returned
      /\ \A o \in Returned : drv'.chains[o].used_length = drv.chains[o].used_length
  BY Zenon DEF DriverStill, Returned
<1>4. Collected' = Collected
  BY <1>3, CollectedSame, Zenon
<1> QED  BY <1>1, <1>2, <1>4, Zenon DEF Mapped

(* What the device's steps leave alone.                                    *)
LEMMA DriverSideSame ==
  ASSUME drv' = drv
  PROVE  Collected' = Collected
BY Zenon DEF Collected

(* Chains that keep their segments keep their requests.                    *)
LEMMA RequestSame ==
  ASSUME drv' = drv, NEW o, NEW p, SegmentsAt(dev', o) = SegmentsAt(dev, p)
  PROVE  Request(o)' = Request(p)
BY Zenon DEF Request

(* Calls of the device that only begin, end or fail change nothing in the  *)
(* exchange.                                                               *)
LEMMA DeviceStutters ==
  ASSUME IInv, IInv', Next, DeviceStill
  PROVE  Mapped' = Mapped
<1>0. drv' = drv
  BY Zenon DEF DeviceStill
<1> USE <1>0
<1>1. Queue' = Queue /\ Answers' = Answers /\ Collected' = Collected
  BY QueueSame, AnswersSame, DriverSideSame, Zenon DEF DeviceStill
<1>2. \A o \in Unanswered : Request(o)' = Request(o) /\ dev'.chains[o].written = dev.chains[o].written
  BY RequestSame, Zenon DEF DeviceStill, SegmentsAt
<1>3. Unanswered' = Unanswered
  BY Zenon DEF DeviceStill
<1> USE <1>2, <1>3
<1>4. DOMAIN Taken' = DOMAIN Taken
  BY Values, ValuesNext DEF TakenIs
<1>5. \A r \in DOMAIN Taken : Taken'[r] = Taken[r]
  BY Values, ValuesNext DEF TakenIs
<1>6. Taken' = Taken
  <2>1. Taken = [r \in DOMAIN Taken |-> Taken[r]] /\ Taken' = [r \in DOMAIN Taken' |-> Taken'[r]]
    BY Values, ValuesNext, Zenon DEF TakenIs
  <2> QED  BY <1>4, <1>5, <2>1, Extensional, Zenon
<1> QED  BY <1>1, <1>6, Zenon DEF Mapped

(* A request in the exchange is where its head is.                         *)
LEMMA WhereRequestsAre ==
  ASSUME IInv
  PROVE  /\ \A r \in Range(Queue) : HeadOf(SegmentsAt(drv, r)) \in AvailHeads
         /\ \A r \in DOMAIN Taken : HeadOf(SegmentsAt(drv, r)) \in HeldHeads
         /\ \A a \in Range(Answers) : HeadOf(SegmentsAt(drv, a.request)) \in UsedHeads
<1>1. ASSUME NEW r \in Range(Queue) PROVE HeadOf(SegmentsAt(drv, r)) \in AvailHeads
  <2>1. PICK k \in DOMAIN Queue : r = Queue[k]
    BY Zenon DEF Range
  <2> USE <2>1
  <2>2. k \in 1 .. Len(Queue)
    BY Values DEF QueueIs
  <2> DEFINE h == avail.ring[Slot(dev.consumed + k - 1)]
  <2>3. Slot(dev.consumed + k - 1) \in AvailSlots /\ r = drv.slots[h]
    BY <2>2, Values, Zenon DEF QueueIs
  <2> USE <2>3
  <2>4. h \in AvailHeads
    BY Zenon DEF AvailHeads
  <2> QED  BY <2>4, HeadFacts, Zenon
<1>2. ASSUME NEW r \in DOMAIN Taken PROVE HeadOf(SegmentsAt(drv, r)) \in HeldHeads
  <2>1. PICK o \in Unanswered : r = Request(o)
    BY Values DEF TakenIs
  <2>2. HeadOf(SegmentsAt(dev, o)) \in HeldHeads
    BY Zenon DEF HeldHeads
  <2> QED  BY <2>1, <2>2, HeadFacts, Zenon DEF Request
<1>3. ASSUME NEW a \in Range(Answers) PROVE HeadOf(SegmentsAt(drv, a.request)) \in UsedHeads
  <2>1. PICK k \in DOMAIN Answers : a = Answers[k]
    BY Zenon DEF Range
  <2> USE <2>1
  <2>2. k \in 1 .. Len(Answers)
    BY Values DEF AnswersAre
  <2> DEFINE entry == used.ring[Slot(drv.consumed + k - 1)]
  <2>3. Slot(drv.consumed + k - 1) \in UsedSlots
        /\ a = [request |-> drv.slots[entry.head], length |-> entry.length]
    BY <2>2, Values, Zenon DEF AnswersAre
  <2> USE <2>3
  <2>4. entry.head \in UsedHeads
    BY Zenon DEF UsedHeads
  <2>5. a.request = drv.slots[entry.head]
    OBVIOUS
  <2> QED  BY <2>4, <2>5, HeadFacts, Zenon
<1> QED  BY <1>1, <1>2, <1>3, Zenon

(* The store of the available index submits a request that is not in       *)
(* flight.                                                                 *)
LEMMA AnnouncesSubmits ==
  ASSUME IInv, IInv', Next, Announces, drv.at = "store"
  PROVE  /\ drv.chain \in DriverChains
         /\ drv.chain \notin Range(Queue) \cup DOMAIN Taken
              \cup {answer.request : answer \in Range(Answers)} \cup DOMAIN Collected
         /\ Queue' = Append(Queue, drv.chain)
         /\ Taken' = Taken /\ Answers' = Answers /\ Collected' = Collected
<1> DEFINE r == drv.chain
           n == Len(Queue)
<1>0. /\ dev' = dev /\ drv'.consumed = drv.consumed /\ drv'.slots = drv.slots
      /\ drv'.chains = drv.chains
  BY Zenon DEF Announces
<1>1. r \in DriverChains /\ r \in Submitted /\ HeadOf(SegmentsAt(drv, r)) \in StoreHeads
  BY Zenon DEF Announces, Submitted, StoreHeads
<1> USE <1>1
<1>2. /\ HeadOf(SegmentsAt(drv, r)) \notin AvailHeads
      /\ HeadOf(SegmentsAt(drv, r)) \notin HeldHeads
      /\ HeadOf(SegmentsAt(drv, r)) \notin UsedHeads
  BY Zenon DEF IInv, Stages
<1>3. r \notin DOMAIN Collected
  BY CollectedValues, Zenon DEF Submitted, Returned
<1>4. r \notin Range(Queue) \cup DOMAIN Taken
        \cup {answer.request : answer \in Range(Answers)} \cup DOMAIN Collected
  BY <1>2, <1>3, WhereRequestsAre, Zenon
<1> USE <1>0
<1>5. Taken' = Taken /\ Answers' = Answers
  BY TakenSame, AnswersSame, Zenon
<1>6. Collected' = Collected
  <2>1. Returned' = Returned
    BY Zenon DEF Returned
  <2> QED  BY <2>1, CollectedSame, Zenon
<1>7. /\ Queue \in Seq(DriverChains) /\ n \in Nat /\ Queue' \in Seq(DriverChains)
      /\ n = Distance(dev.consumed, drv.produced) /\ Len(Queue') = n + 1
  BY Values, ValuesNext DEF QueueIs, Announces
<1> USE <1>7
<1>8. \A k \in 1 .. n : Queue'[k] = Queue[k]
  <2> SUFFICES ASSUME NEW k \in 1 .. n PROVE Queue'[k] = Queue[k]
    BY Zenon
  <2>1. k \in 1 .. Len(Queue')
    OBVIOUS
  <2>2. Slot(dev'.consumed + k - 1) = Slot(dev.consumed + k - 1)
    BY Zenon
  <2> QED  BY <2>1, <2>2, QueueKeeps, Zenon
<1>9. Queue'[n + 1] = r
  <2>1. Queue'[n + 1] = drv'.slots[avail'.ring[Slot(dev'.consumed + (n + 1) - 1)]]
    BY ValuesNext DEF QueueIs
  <2> USE Facts
  <2>2. Slot(dev'.consumed + (n + 1) - 1) = Slot(drv.produced)
    <3>1. /\ dev.consumed \in Indices /\ drv.produced \in Indices /\ dev'.consumed = dev.consumed
          /\ n = Distance(dev.consumed, drv.produced)
      BY Zenon
    <3> QED  BY <3>1, SlotEnd
  <2>3. Queue'[n + 1] = drv.slots[HeadOf(SegmentsAt(drv, r))]
    BY <2>1, <2>2, Zenon DEF Announces
  <2>4. r \in Busy(drv)
    BY Zenon
  <2> QED  BY <2>3, <2>4, Zenon DEF IInv, Books
<1>10. Queue' = Append(Queue, r)
  <2>1. Append(Queue, r) \in Seq(DriverChains) /\ Len(Append(Queue, r)) = n + 1
    OBVIOUS
  <2>2. \A k \in 1 .. n + 1 : Queue'[k] = Append(Queue, r)[k]
    BY <1>8, <1>9
  <2> QED  BY <2>1, <2>2, SameSequence, Zenon
<1> QED  BY <1>4, <1>5, <1>6, <1>10, Zenon

(* take_used collects the oldest answer, with its length.                  *)
LEMMA CollectsCollects ==
  ASSUME IInv, IInv', Next, Collects
  PROVE  /\ Answers # <<>> /\ Answers' = Tail(Answers)
         /\ Collected' = Exchange!With(Collected, Head(Answers).request, Head(Answers).length)
         /\ Queue' = Queue /\ Taken' = Taken
<1> DEFINE entry == used.ring[Slot(drv.consumed)]
           r == drv.slots[entry.head]
           n == Len(Answers)
           S == [request : DriverChains, length : Lengths]
<1>0. /\ dev' = dev /\ drv.consumed # dev.produced /\ drv'.produced = drv.produced
      /\ drv'.consumed = Successor(drv.consumed) /\ drv'.slots = drv.slots
      /\ r \in DriverChains /\ drv.chains[r].state = "SUBMITTED"
      /\ drv'.chains[r].state = "RETURNED" /\ drv'.chains[r].used_length = entry.length
      /\ \A p \in DriverChains \ {r} : drv'.chains[p] = drv.chains[p]
  BY Zenon DEF Collects
<1>1. Queue' = Queue /\ Taken' = Taken
  BY <1>0, QueueSame, TakenSame, Zenon
<1>2. /\ drv.consumed \in Indices /\ dev.produced \in Indices
      /\ Distance(drv.consumed, dev.produced) \in Nat
      /\ Distance(Successor(drv.consumed), dev.produced) = Distance(drv.consumed, dev.produced) - 1
  BY <1>0, Facts, Distances, Zenon
<1>3. /\ Answers \in Seq(S) /\ Answers' \in Seq(S)
      /\ n = Distance(drv.consumed, dev.produced) /\ Len(Answers') = n - 1 /\ n \in Nat
  BY <1>0, <1>2, Values, ValuesNext, Zenon DEF AnswersAre
<1>4. n # 0 /\ Answers # <<>>
  <2>1. Distance(drv.consumed, dev.produced) # 0
    BY <1>0, <1>2, Distances, Zenon
  <2> QED  BY <1>3, <2>1, Zenon
<1>5. ASSUME NEW k \in 1 .. n - 1 PROVE Answers'[k] = Answers[k + 1]
  <2>1. k \in 1 .. Len(Answers') /\ k + 1 \in 1 .. Len(Answers) /\ k \in Int
    BY <1>3
  <2> USE <2>1
  <2>2. Slot(drv'.consumed + k - 1) = Slot(drv.consumed + (k + 1) - 1)
    BY <1>0, <1>2, SlotShift, Zenon
  <2> QED  BY <1>0, <2>2, AnswerKeeps, Zenon
<1>6. Head(Answers) = [request |-> r, length |-> entry.length]
  <2>1. 1 \in 1 .. Len(Answers) /\ drv.consumed + 1 - 1 = drv.consumed
    BY <1>2, <1>3, <1>4 DEF Indices
  <2>2. Answers[1] = [request |-> r, length |-> entry.length]
    BY <2>1, Values, Zenon DEF AnswersAre
  <2> QED  BY <1>3, <1>4, <2>2
<1> HIDE DEF S, r, entry
<1>7. Answers' = Tail(Answers)
  <2>1. Tail(Answers) \in Seq(S) /\ Len(Tail(Answers)) = n - 1
        /\ \A k \in 1 .. n - 1 : Tail(Answers)[k] = Answers[k + 1]
    BY <1>3, <1>4
  <2> QED  BY <1>3, <1>5, <2>1, SameSequence, Zenon
<1>8. Returned' = Returned \cup {r} /\ r \notin Returned
  BY <1>0, Zenon DEF Returned
<1>9. Collected' = Exchange!With(Collected, r, entry.length)
  <2> DEFINE g == Exchange!With(Collected, r, entry.length)
  <2>1. /\ g = [x \in Returned' |-> g[x]] /\ g[r] = entry.length
        /\ \A x \in Returned : g[x] = Collected[x]
    BY <1>8, CollectedValues, Zenon DEF Exchange!With
  <2>2. \A x \in Returned : x \in DriverChains \ {r}
    BY <1>8, Zenon DEF Returned
  <2> USE <2>1
  <2>3. \A x \in Returned' : Collected'[x] = g[x]
    BY <1>0, <1>8, <2>2, CollectedValues
  <2> HIDE DEF g
  <2>4. Collected' = g
    BY <2>3, CollectedValues, Extensional
  <2> QED  BY <2>4, Zenon DEF g
<1>10. Head(Answers).request = r /\ Head(Answers).length = entry.length
  BY <1>6
<1> QED  BY <1>1, <1>4, <1>7, <1>9, <1>10, Zenon

(* release ends a request.                                                 *)
LEMMA FreesReleases ==
  ASSUME IInv, IInv', Next, NEW o \in DriverChains, Frees(o)
  PROVE  /\ o \in DOMAIN Collected /\ Collected' = Exchange!Without(Collected, o)
         /\ Queue' = Queue /\ Taken' = Taken /\ Answers' = Answers
<1>0. /\ dev' = dev /\ drv'.produced = drv.produced /\ drv'.consumed = drv.consumed
      /\ \A h \in UsedHeads : drv'.slots[h] = drv.slots[h]
      /\ drv.chains[o].state = "RETURNED" /\ drv'.chains[o].state = "FREE"
      /\ \A p \in DriverChains \ {o} : drv'.chains[p] = drv.chains[p]
  BY Zenon DEF Frees
<1> USE <1>0
<1>1. Queue' = Queue /\ Taken' = Taken /\ Answers' = Answers
  BY QueueSame, TakenSame, AnswersSame, Zenon
<1>2. Returned' = Returned \ {o} /\ o \in Returned
  BY Zenon DEF Returned
<1> DEFINE g == Exchange!Without(Collected, o)
<1> USE <1>2
<1>3. /\ g = [x \in Returned' |-> g[x]]
      /\ \A x \in Returned' : g[x] = Collected[x]
  BY CollectedValues, Zenon DEF Exchange!Without
<1>4. \A x \in Returned' : x \in Returned /\ x \in DriverChains \ {o}
  BY Zenon DEF Returned
<1> USE <1>3
<1>5. \A x \in Returned' : Collected'[x] = g[x]
  BY <1>4, CollectedValues
<1> HIDE DEF g
<1>6. Collected' = g
  BY <1>5, CollectedValues, Extensional
<1> QED  BY <1>1, <1>6, CollectedValues, Zenon DEF g

(* The mapped function of the accepted requests, from its values.          *)
LEMMA TakenBecomes ==
  ASSUME IInv', NEW g, g = [x \in DOMAIN g |-> g[x]],
         DOMAIN g = {Request(o)' : o \in Unanswered'},
         \A o \in Unanswered' : g[Request(o)'] = dev'.chains[o].written
  PROVE  Taken' = g
<1>1. /\ Taken' = [r \in DOMAIN Taken' |-> Taken'[r]]
      /\ DOMAIN Taken' = {Request(o)' : o \in Unanswered'}
      /\ \A o \in Unanswered' : Taken'[Request(o)'] = dev'.chains[o].written
  BY ValuesNext, Zenon DEF TakenIs
<1> USE <1>1
<1>2. DOMAIN g = DOMAIN Taken' /\ \A x \in DOMAIN Taken' : Taken'[x] = g[x]
  OBVIOUS
<1> QED  BY <1>2, Extensional, Zenon

(* take_available accepts the oldest request, with nothing written.        *)
LEMMA AcceptsAccepts ==
  ASSUME IInv, IInv', Next, NEW o, Accepts(o)
  PROVE  /\ Queue # <<>> /\ Queue' = Tail(Queue)
         /\ Taken' = Exchange!With(Taken, Head(Queue), 0)
         /\ Answers' = Answers /\ Collected' = Collected
<1> DEFINE n == Len(Queue)
           r == drv.slots[avail.ring[Slot(dev.consumed)]]
<1>0. /\ drv' = drv /\ dev.consumed # drv.produced /\ dev'.produced = dev.produced
      /\ dev'.consumed = Successor(dev.consumed)
      /\ o \notin Unanswered /\ Unanswered' = Unanswered \cup {o}
      /\ HeadOf(SegmentsAt(dev', o)) = avail.ring[Slot(dev.consumed)]
      /\ dev'.chains[o].written = 0
      /\ \A p \in Unanswered : dev'.chains[p] = dev.chains[p]
  BY Zenon DEF Accepts
<1> USE <1>0
<1>1. Answers' = Answers /\ Collected' = Collected
  BY AnswersSame, DriverSideSame, Zenon
<1>2. /\ dev.consumed \in Indices /\ drv.produced \in Indices
      /\ Distance(dev.consumed, drv.produced) \in Nat
      /\ Distance(Successor(dev.consumed), drv.produced) = Distance(dev.consumed, drv.produced) - 1
  BY Facts, Distances
<1> USE <1>2
<1>3. /\ Queue \in Seq(DriverChains) /\ Queue' \in Seq(DriverChains)
      /\ n = Distance(dev.consumed, drv.produced) /\ Len(Queue') = n - 1 /\ n \in Nat
  BY Values, ValuesNext, Zenon DEF QueueIs
<1> USE <1>3
<1>4. n # 0 /\ Queue # <<>>
  <2>1. Distance(dev.consumed, drv.produced) # 0
    BY Distances, Zenon
  <2> QED  BY <2>1, Zenon
<1>5. ASSUME NEW k \in 1 .. n - 1 PROVE Queue'[k] = Queue[k + 1]
  <2>1. k \in 1 .. Len(Queue') /\ k + 1 \in 1 .. Len(Queue) /\ k \in Int
    OBVIOUS
  <2> USE <2>1
  <2>2. Slot(Successor(dev.consumed) + k - 1) = Slot(dev.consumed + (k + 1) - 1)
    BY SlotShift, Zenon
  <2>3. Slot(dev'.consumed + k - 1) = Slot(dev.consumed + (k + 1) - 1)
    BY <2>2, Zenon
  <2> QED  BY <2>3, QueueKeeps, Zenon
<1> USE <1>4
<1>6. Head(Queue) = r
  <2>1. 1 \in 1 .. Len(Queue) /\ dev.consumed + 1 - 1 = dev.consumed
    BY DEF Indices
  <2>2. Queue[1] = r
    BY <2>1, Values DEF QueueIs
  <2> QED  BY <2>2
<1>7. Queue' = Tail(Queue)
  <2>1. Tail(Queue) \in Seq(DriverChains) /\ Len(Tail(Queue)) = n - 1
        /\ \A k \in 1 .. n - 1 : Tail(Queue)[k] = Queue[k + 1]
    OBVIOUS
  <2> QED  BY <1>5, <2>1, SameSequence
<1>8. /\ Request(o)' = r
      /\ \A p \in Unanswered : Request(p)' = Request(p)
  BY RequestSame, Zenon DEF Request, SegmentsAt
<1> HIDE DEF r
<1> DEFINE g == Exchange!With(Taken, r, 0)
<1>9. /\ DOMAIN Taken = {Request(p) : p \in Unanswered}
      /\ \A p \in Unanswered : Taken[Request(p)] = dev.chains[p].written
  BY Values, Zenon DEF TakenIs
<1>10. /\ g = [x \in DOMAIN g |-> g[x]] /\ DOMAIN g = DOMAIN Taken \cup {r} /\ g[r] = 0
       /\ \A x \in DOMAIN Taken \ {r} : g[x] = Taken[x]
  BY Zenon DEF Exchange!With
<1> HIDE DEF g
<1> USE <1>8
<1>11. \A p \in Unanswered : Request(p)' # r
  <2>1. \A p \in Unanswered : Request(p)' = Request(o)' => p = o
    BY ValuesNext, Zenon DEF TakenIs
  <2> QED  BY <2>1, Zenon
<1> USE <1>9, <1>10
<1>12. DOMAIN g = {Request(p)' : p \in Unanswered'}
  OBVIOUS
<1>13. \A p \in Unanswered' : g[Request(p)'] = dev'.chains[p].written
  <2> SUFFICES ASSUME NEW p \in Unanswered' PROVE g[Request(p)'] = dev'.chains[p].written
    BY Zenon
  <2>1. CASE p = o
    BY <2>1, Zenon
  <2>2. CASE p # o
    <3>1. p \in Unanswered /\ Request(p)' = Request(p) /\ Request(p) # r
          /\ Request(p) \in DOMAIN Taken
      BY <1>11, <2>2, Zenon
    <3> QED  BY <3>1
  <2> QED  BY <2>1, <2>2, Zenon
<1>14. Taken' = g
  BY <1>12, <1>13, TakenBecomes, Zenon
<1> QED  BY <1>1, <1>6, <1>7, <1>14, Zenon DEF g

(* move_accepted changes nothing in the exchange.                          *)
LEMMA MovesStutters ==
  ASSUME IInv, IInv', Next, NEW source, NEW destination, Moves(source, destination)
  PROVE  Mapped' = Mapped
<1>0. /\ drv' = drv /\ dev'.produced = dev.produced /\ dev'.consumed = dev.consumed
      /\ source \in Unanswered /\ Unanswered' = (Unanswered \ {source}) \cup {destination}
      /\ dev'.chains[destination] = dev.chains[source]
      /\ \A p \in Unanswered \ {source} : dev'.chains[p] = dev.chains[p]
  BY Zenon DEF Moves
<1> USE <1>0
<1>1. Queue' = Queue /\ Answers' = Answers /\ Collected' = Collected
  BY QueueSame, AnswersSame, DriverSideSame, Zenon
<1>2. /\ Request(destination)' = Request(source)
      /\ \A p \in Unanswered \ {source} : Request(p)' = Request(p)
  BY RequestSame, Zenon DEF SegmentsAt
<1>3. /\ DOMAIN Taken = {Request(p) : p \in Unanswered}
      /\ Taken = [x \in DOMAIN Taken |-> Taken[x]]
      /\ \A p \in Unanswered : Taken[Request(p)] = dev.chains[p].written
  BY Values, Zenon DEF TakenIs
<1> USE <1>2
<1>4. CASE destination \in Unanswered \ {source}
  <2> USE <1>4
  <2>1. Request(destination)' = Request(destination)
    BY Zenon
  <2>2. Request(destination) = Request(source)
    BY <2>1, Zenon
  <2> QED  BY <2>2, Values, Zenon DEF TakenIs
<1>5. CASE destination \notin Unanswered \ {source}
  <2>1. {Request(p)' : p \in Unanswered'} = {Request(p) : p \in Unanswered}
    BY Zenon
  <2> USE <1>3
  <2>2. \A p \in Unanswered' : Taken[Request(p)'] = dev'.chains[p].written
    <3> SUFFICES ASSUME NEW p \in Unanswered' PROVE Taken[Request(p)'] = dev'.chains[p].written
      BY Zenon
    <3>1. CASE p = destination
      BY <3>1, Zenon
    <3>2. CASE p # destination
      BY <3>2, Zenon
    <3> QED  BY <3>1, <3>2, Zenon
  <2>3. Taken' = Taken
    BY <2>1, <2>2, TakenBecomes, Zenon
  <2> QED  BY <1>1, <2>3, Zenon DEF Mapped
<1> QED  BY <1>4, <1>5, Zenon

(* A write lengthens the answer, within its capacity.                      *)
LEMMA WritesWrites ==
  ASSUME IInv, IInv', Next, NEW o, NEW size \in 1 .. Capacity, Writes(o, size)
  PROVE  /\ Request(o) \in DriverChains /\ Request(o) \in DOMAIN Taken
         /\ \E n \in Taken[Request(o)] + 1 .. Capacity :
              Taken' = Exchange!With(Taken, Request(o), n)
         /\ Queue' = Queue /\ Answers' = Answers /\ Collected' = Collected
<1> DEFINE n == dev.chains[o].written + size
           r == Request(o)
           g == Exchange!With(Taken, r, n)
<1>0. /\ drv' = drv /\ dev'.produced = dev.produced /\ dev'.consumed = dev.consumed
      /\ o \in Unanswered /\ Unanswered' = Unanswered /\ n \in Lengths
      /\ dev'.chains[o].written = n
      /\ \A p \in Unanswered \ {o} : dev'.chains[p].written = dev.chains[p].written
      /\ \A p \in Unanswered : SegmentsAt(dev', p) = SegmentsAt(dev, p)
  BY Zenon DEF Writes
<1> USE <1>0
<1>1. Queue' = Queue /\ Answers' = Answers /\ Collected' = Collected
  BY QueueSame, AnswersSame, DriverSideSame, Zenon
<1>2. \A p \in Unanswered : Request(p)' = Request(p)
  BY RequestSame, Zenon
<1>3. /\ DOMAIN Taken = {Request(p) : p \in Unanswered}
      /\ \A p \in Unanswered : /\ Request(p) \in DriverChains
                               /\ Taken[Request(p)] = dev.chains[p].written
                               /\ Request(p) = Request(o) => p = o
  BY Values, Zenon DEF TakenIs
<1> USE <1>3
<1>4. r \in DOMAIN Taken /\ r \in DriverChains /\ Taken[r] = dev.chains[o].written
  BY Zenon
<1> USE <1>4
<1>5. n \in Taken[r] + 1 .. Capacity
  <2>1. dev.chains[o].written \in Lengths
    BY Facts, ChainFacts DEF Unanswered
  <2> QED  BY <2>1, Sizes DEF Lengths
<1> HIDE DEF n, r
<1>6. /\ g = [x \in DOMAIN g |-> g[x]] /\ DOMAIN g = DOMAIN Taken /\ g[r] = n
      /\ \A x \in DOMAIN Taken \ {r} : g[x] = Taken[x]
  BY Zenon DEF Exchange!With
<1> HIDE DEF g
<1> USE <1>2, <1>6
<1>7. DOMAIN g = {Request(p)' : p \in Unanswered'}
  BY Zenon
<1>8. \A p \in Unanswered' : g[Request(p)'] = dev'.chains[p].written
  <2> SUFFICES ASSUME NEW p \in Unanswered PROVE g[Request(p)] = dev'.chains[p].written
    BY Zenon
  <2>1. CASE p = o
    BY <2>1, Zenon DEF r
  <2>2. CASE p # o
    <3> USE <2>2
    <3>1. Request(p) \in DOMAIN Taken \ {r}
      BY Zenon DEF r
    <3> QED  BY <3>1, Zenon
  <2> QED  BY <2>1, <2>2, Zenon
<1>9. Taken' = g
  BY <1>7, <1>8, TakenBecomes, Zenon
<1> QED  BY <1>1, <1>5, <1>9, Zenon DEF g, r

(* A request that is no longer held has left the accepted ones.            *)
LEMMA LeavesTaken ==
  ASSUME IInv, IInv', drv' = drv, NEW o \in Unanswered, Unanswered' = Unanswered \ {o},
         \A p \in Unanswered' : dev'.chains[p] = dev.chains[p]
  PROVE  Taken' = Exchange!Without(Taken, Request(o))
<1> DEFINE r == Request(o)
           g == Exchange!Without(Taken, r)
<1>1. \A p \in Unanswered' : Request(p)' = Request(p)
  BY RequestSame, Zenon DEF SegmentsAt
<1>2. /\ DOMAIN Taken = {Request(p) : p \in Unanswered}
      /\ \A p \in Unanswered : /\ Taken[Request(p)] = dev.chains[p].written
                               /\ Request(p) = Request(o) => p = o
  BY Values, Zenon DEF TakenIs
<1>3. /\ g = [x \in DOMAIN g |-> g[x]] /\ DOMAIN g = DOMAIN Taken \ {r}
      /\ \A x \in DOMAIN Taken \ {r} : g[x] = Taken[x]
  BY Zenon DEF Exchange!Without
<1> HIDE DEF g
<1> USE <1>1, <1>2, <1>3
<1>4. DOMAIN g = {Request(p)' : p \in Unanswered'}
  BY Zenon
<1>5. \A p \in Unanswered' : g[Request(p)'] = dev'.chains[p].written
  <2> SUFFICES ASSUME NEW p \in Unanswered' PROVE g[Request(p)] = dev.chains[p].written
    BY Zenon
  <2>1. Request(p) \in DOMAIN Taken \ {r}
    BY Zenon
  <2> QED  BY <2>1, Zenon
<1>6. Taken' = g
  BY <1>4, <1>5, TakenBecomes, Zenon
<1> QED  BY <1>6, Zenon DEF g

(* return_available declines a request: it is the oldest again.            *)
LEMMA DeclinesDeclines ==
  ASSUME IInv, IInv', Next, NEW o, Declines(o)
  PROVE  LET r == Request(o) IN
         /\ r \in DriverChains /\ r \in DOMAIN Taken /\ Taken[r] = 0
         /\ Queue' = <<r>> \o Queue /\ Taken' = Exchange!Without(Taken, r)
         /\ Answers' = Answers /\ Collected' = Collected
<1> DEFINE r == Request(o)
           n == Len(Queue)
<1>0. /\ drv' = drv /\ avail' = avail /\ dev'.produced = dev.produced
      /\ dev'.consumed = Predecessor(dev.consumed)
      /\ Distance(dev'.consumed, drv.produced) = Distance(dev.consumed, drv.produced) + 1
      /\ o \in Unanswered /\ Unanswered' = Unanswered \ {o} /\ dev.chains[o].written = 0
      /\ avail.ring[Slot(dev'.consumed)] = HeadOf(SegmentsAt(dev, o))
      /\ \A p \in Unanswered' : dev'.chains[p] = dev.chains[p]
  BY Zenon DEF Declines
<1>1. Answers' = Answers /\ Collected' = Collected
  BY <1>0, AnswersSame, DriverSideSame, Zenon
<1>2. r \in DriverChains /\ r \in DOMAIN Taken /\ Taken[r] = 0
  BY <1>0, Values, Zenon DEF TakenIs
<1>3. Taken' = Exchange!Without(Taken, r)
  BY <1>0, LeavesTaken, Zenon
<1>4. /\ Queue \in Seq(DriverChains) /\ Queue' \in Seq(DriverChains)
      /\ n \in Nat /\ Len(Queue') = n + 1
  BY <1>0, Values, ValuesNext DEF QueueIs
<1>5. ASSUME NEW k \in 1 .. n PROVE Queue'[k + 1] = Queue[k]
  <2>1. k + 1 \in 1 .. Len(Queue') /\ k \in Int
    BY <1>4
  <2>2. dev.consumed \in Indices
    BY Facts, Zenon
  <2> USE <2>1
  <2>3. Slot(Predecessor(dev.consumed) + (k + 1) - 1) = Slot(dev.consumed + k - 1)
    BY <2>2, SlotShift, Zenon
  <2>4. Slot(dev'.consumed + (k + 1) - 1) = Slot(dev.consumed + k - 1)
    BY <1>0, <2>3, Zenon
  <2> QED  BY <2>4, QueueKeeps, Zenon
<1>6. Queue'[1] = r
  <2>1. 1 \in 1 .. Len(Queue')
    BY <1>4
  <2>2. dev'.consumed + 1 - 1 = dev'.consumed
    <3>1. dev'.consumed \in Indices
      BY <1>0, Facts, Neighbours, Zenon
    <3> QED  BY <3>1 DEF Indices
  <2>3. Queue'[1] = drv'.slots[avail'.ring[Slot(dev'.consumed)]]
    BY <2>1, <2>2, ValuesNext, Zenon DEF QueueIs
  <2> QED  BY <1>0, <2>3, Zenon DEF Request
<1> USE <1>2
<1>7. Queue' = <<r>> \o Queue
  <2>1. /\ <<r>> \o Queue \in Seq(DriverChains) /\ Len(<<r>> \o Queue) = n + 1
        /\ (<<r>> \o Queue)[1] = r /\ \A k \in 1 .. n : (<<r>> \o Queue)[k + 1] = Queue[k]
    BY <1>4
  <2> USE <2>1
  <2>2. \A k \in 1 .. n + 1 : Queue'[k] = (<<r>> \o Queue)[k]
    <3> SUFFICES ASSUME NEW k \in 1 .. n + 1 PROVE Queue'[k] = (<<r>> \o Queue)[k]
      BY Zenon
    <3>1. CASE k = 1
      BY <1>6, <3>1, Zenon
    <3>2. CASE k # 1
      <4>1. k - 1 \in 1 .. n /\ (k - 1) + 1 = k
        BY <1>4, <3>2
      <4> QED  BY <1>5, <4>1
    <3> QED  BY <3>1, <3>2, Zenon
  <2> QED  BY <1>4, <2>2, SameSequence, Zenon
<1> QED  BY <1>1, <1>3, <1>7, Zenon

(* The store of the used index answers a request with what was written.    *)
LEMMA CompletesCompletes ==
  ASSUME IInv, IInv', Next, NEW o, Completes(o)
  PROVE  LET r == Request(o) IN
         /\ r \in DriverChains /\ r \in DOMAIN Taken
         /\ Answers' = Append(Answers, [request |-> r, length |-> Taken[r]])
         /\ Taken' = Exchange!Without(Taken, r)
         /\ Queue' = Queue /\ Collected' = Collected
<1> DEFINE r == Request(o)
           n == Len(Answers)
           S == [request : DriverChains, length : Lengths]
           answer == [request |-> r, length |-> Taken[r]]
<1>0. /\ drv' = drv /\ dev'.produced = Successor(dev.produced) /\ dev'.consumed = dev.consumed
      /\ Distance(drv.consumed, dev'.produced) = Distance(drv.consumed, dev.produced) + 1
      /\ o \in Unanswered /\ Unanswered' = Unanswered \ {o} /\ used'.ring = used.ring
      /\ used.ring[Slot(dev.produced)].head = HeadOf(SegmentsAt(dev, o))
      /\ used.ring[Slot(dev.produced)].length = dev.chains[o].written
      /\ dev'.chains = dev.chains
  BY Zenon DEF Completes
<1> USE <1>0
<1>1. Queue' = Queue /\ Collected' = Collected
  BY QueueSame, DriverSideSame, Zenon
<1> USE Facts
<1>2. /\ r \in DriverChains /\ r \in DOMAIN Taken /\ Taken[r] = dev.chains[o].written
      /\ dev.chains[o].written \in Lengths
  BY Values, ChainFacts DEF TakenIs, Unanswered
<1>3. Taken' = Exchange!Without(Taken, r)
  BY LeavesTaken, Zenon
<1> USE <1>2
<1>4. /\ Answers \in Seq(S) /\ Answers' \in Seq(S) /\ answer \in S
      /\ n \in Nat /\ Len(Answers') = n + 1 /\ n = Distance(drv.consumed, dev.produced)
  <2>1. /\ Answers \in Seq(S) /\ n = Distance(drv.consumed, dev.produced)
    BY Values, Zenon DEF AnswersAre
  <2>2. /\ Answers' \in Seq(S) /\ Len(Answers') = Distance(drv'.consumed, dev'.produced)
    BY ValuesNext, Zenon DEF AnswersAre
  <2>3. answer \in S
    BY Zenon
  <2> HIDE DEF S, answer
  <2> USE <2>1
  <2>4. n \in Nat
    OBVIOUS
  <2> QED  BY <2>2, <2>3, <2>4, Zenon
<1> USE <1>4
<1>5. ASSUME NEW k \in 1 .. n PROVE Answers'[k] = Answers[k]
  <2>1. k \in 1 .. Len(Answers')
    OBVIOUS
  <2>2. Slot(drv'.consumed + k - 1) = Slot(drv.consumed + k - 1)
    BY Zenon
  <2> QED  BY <2>1, <2>2, AnswerKeeps, Zenon
<1>6. Answers'[n + 1] = answer
  <2> DEFINE entry == used'.ring[Slot(drv'.consumed + (n + 1) - 1)]
  <2>0. n + 1 \in 1 .. Len(Answers')
    OBVIOUS
  <2>1. Answers'[n + 1] = [request |-> drv'.slots[entry.head], length |-> entry.length]
    BY <2>0, ValuesNext, Zenon DEF AnswersAre
  <2>2. Slot(drv'.consumed + (n + 1) - 1) = Slot(dev.produced)
    <3>1. drv.consumed \in Indices /\ dev.produced \in Indices
      BY Zenon
    <3>2. Slot(drv.consumed + (Distance(drv.consumed, dev.produced) + 1) - 1) = Slot(dev.produced)
      BY <3>1, SlotEnd, Zenon
    <3> QED  BY <3>2, Zenon
  <2>3. drv'.slots[entry.head] = r /\ entry.length = Taken[r]
    BY <2>2, Zenon DEF Request
  <2> HIDE DEF entry
  <2> QED  BY <2>1, <2>3, Zenon
<1> HIDE DEF S, answer
<1>7. Answers' = Append(Answers, answer)
  <2>1. Append(Answers, answer) \in Seq(S) /\ Len(Append(Answers, answer)) = n + 1
    OBVIOUS
  <2>2. \A k \in 1 .. n + 1 : Answers'[k] = Append(Answers, answer)[k]
    BY <1>5, <1>6
  <2> QED  BY <2>1, <2>2, SameSequence, Zenon
<1> QED  BY <1>1, <1>3, <1>7, Zenon DEF answer

-----------------------------------------------------------------------------
(***************************************************************************)
(* The queue implements RequestExchange                                    *)
(***************************************************************************)

(* A step that leaves the four mapped variables alone.                     *)
LEMMA Stuttering ==
  ASSUME Mapped' = Mapped
  PROVE  UNCHANGED Exchange!exchange
  BY Zenon DEF Mapped, Exchange!exchange, Queue, Taken, Answers, Collected

(* The next step as a submission.                                          *)
LEMMA Submitting ==
  ASSUME NEW r \in DriverChains,
         r \notin Range(Queue) \cup DOMAIN Taken
           \cup {answer.request : answer \in Range(Answers)} \cup DOMAIN Collected,
         Queue' = Append(Queue, r),
         Taken' = Taken, Answers' = Answers, Collected' = Collected
  PROVE  Exchange!Next
<1>1. Exchange!Submit(r)
  BY Zenon DEF Exchange!Submit, Exchange!InFlight, Exchange!Range, Range, Queue, Taken, Answers,
     Collected
<1> QED  BY <1>1, Zenon DEF Exchange!Next

(* The next step as an acceptance.                                         *)
LEMMA Accepting ==
  ASSUME Queue # <<>>, Queue' = Tail(Queue), Taken' = Exchange!With(Taken, Head(Queue), 0),
         Answers' = Answers, Collected' = Collected
  PROVE  Exchange!Next
<1>1. Exchange!Accept
  BY Zenon DEF Exchange!Accept, Queue, Taken, Answers, Collected
<1> QED  BY <1>1, Zenon DEF Exchange!Next

(* The next step as a refusal.                                             *)
LEMMA Declining ==
  ASSUME NEW r \in DriverChains, r \in DOMAIN Taken, Taken[r] = 0,
         Queue' = <<r>> \o Queue, Taken' = Exchange!Without(Taken, r),
         Answers' = Answers, Collected' = Collected
  PROVE  Exchange!Next
<1>1. Exchange!Decline(r)
  BY Zenon DEF Exchange!Decline, Queue, Taken, Answers, Collected
<1> QED  BY <1>1, Zenon DEF Exchange!Next

(* The next step as a write.                                               *)
LEMMA Writing ==
  ASSUME NEW r \in DriverChains, r \in DOMAIN Taken,
         \E n \in Taken[r] + 1 .. Capacity : Taken' = Exchange!With(Taken, r, n),
         Queue' = Queue, Answers' = Answers, Collected' = Collected
  PROVE  Exchange!Next
<1>1. Exchange!Write(r)
  BY Zenon DEF Exchange!Write, Queue, Taken, Answers, Collected
<1> QED  BY <1>1, Zenon DEF Exchange!Next

(* The next step as a completion.                                          *)
LEMMA Completing ==
  ASSUME NEW r \in DriverChains, r \in DOMAIN Taken,
         Answers' = Append(Answers, [request |-> r, length |-> Taken[r]]),
         Taken' = Exchange!Without(Taken, r), Queue' = Queue, Collected' = Collected
  PROVE  Exchange!Next
<1>1. Exchange!Complete(r)
  BY Zenon DEF Exchange!Complete, Queue, Taken, Answers, Collected
<1> QED  BY <1>1, Zenon DEF Exchange!Next

(* The next step as a collection.                                          *)
LEMMA Collecting ==
  ASSUME Answers # <<>>, Answers' = Tail(Answers),
         Collected' = Exchange!With(Collected, Head(Answers).request, Head(Answers).length),
         Queue' = Queue, Taken' = Taken
  PROVE  Exchange!Next
<1>1. Exchange!Collect
  BY Zenon DEF Exchange!Collect, Queue, Taken, Answers, Collected
<1> QED  BY <1>1, Zenon DEF Exchange!Next

(* The next step as a release.                                             *)
LEMMA Releasing ==
  ASSUME NEW r \in DriverChains, r \in DOMAIN Collected,
         Collected' = Exchange!Without(Collected, r),
         Queue' = Queue, Taken' = Taken, Answers' = Answers
  PROVE  Exchange!Next
<1>1. Exchange!Release(r)
  BY Zenon DEF Exchange!Release, Queue, Taken, Answers, Collected
<1> QED  BY <1>1, Zenon DEF Exchange!Next

(* An empty queue is an exchange without requests.                         *)
LEMMA InitMaps ==
  ASSUME Init
  PROVE  Exchange!Init
<1>1. /\ dev.consumed = 0 /\ drv.consumed = 0 /\ avail.idx = 0 /\ used.idx = 0
      /\ \A o \in DriverChains : drv.chains[o].state = "FREE"
      /\ \A o \in DeviceChains : dev.chains[o].state = "FREE"
  BY Zenon DEF Init, Bound, FreeChain
<1>2. Distance(0, 0) = 0
  BY Sizes DEF Distance
<1> USE <1>1
<1>3. Queue = <<>> /\ Answers = <<>>
  BY <1>2 DEF Queue, Answers
<1>4. Unanswered = {} /\ {o \in DriverChains : drv.chains[o].state = "RETURNED"} = {}
  BY Zenon DEF Unanswered
<1> USE <1>4
<1>5. Taken = [r \in {} |-> 0]
  BY Zenon DEF Taken
<1>6. Collected = [r \in {} |-> 0]
  BY Zenon DEF Collected
<1> QED  BY <1>3, <1>5, <1>6, Zenon DEF Exchange!Init, Queue, Taken, Answers, Collected

(* Every step of the queue is a step of the exchange, or leaves it alone.  *)
LEMMA StepMaps ==
  ASSUME IInv, [Next]_vars
  PROVE  [Exchange!Next]_Exchange!exchange
<1>0. IInv'
  BY NextIInv, Zenon
<1>1. CASE UNCHANGED vars
  <2>1. drv' = drv /\ dev' = dev /\ desc' = desc /\ avail' = avail /\ used' = used
    BY <1>1, Zenon DEF vars
  <2>2. Mapped' = Mapped
    BY <2>1 DEF Mapped, Queue, Taken, Answers, Collected, Unanswered
  <2> QED  BY <2>2, Stuttering, Zenon
<1> USE <1>0
<1>2. CASE DriverNext
  <2> USE <1>2
  <2>0. Next
    BY Zenon DEF Next
  <2> USE <2>0
  <2>1. ASSUME NEW o \in DriverChains, NEW ds \in Lists(Heads), Publish(o, SegmentsOf(o, ds))
        PROVE  UNCHANGED Exchange!exchange
    <3>1. DriverStill
      BY <2>1, PublishStep, Zenon
    <3>2. Mapped' = Mapped
      BY <3>1, DriverStutters, Zenon
    <3> QED  BY <3>2, Stuttering, Zenon
  <2>2. CASE PublishStore
    <3>1. Announces /\ drv.at = "store"
      BY <2>2, PublishStoreStep, Zenon DEF PublishStore
    <3> QED  BY <3>1, AnnouncesSubmits, Submitting, Zenon
  <2>3. CASE PublishEvent \/ TakeUsed \/ DriverIO
    <3>1. DriverStill
      BY <2>3, PublishEventStep, TakeUsedStep, DriverIOStep, Zenon
    <3>2. Mapped' = Mapped
      BY <3>1, DriverStutters, Zenon
    <3> QED  BY <3>2, Stuttering, Zenon
  <2>4. CASE TakeUsedRead
    <3>1. Collects
      BY <2>4, TakeUsedReadStep, Zenon
    <3> QED  BY <3>1, CollectsCollects, Collecting, Zenon
  <2>5. ASSUME NEW o \in DriverChains, Release(o)
        PROVE  Exchange!Next
    <3>1. Frees(o)
      BY <2>5, ReleaseStep, Zenon
    <3> QED  BY <3>1, FreesReleases, Releasing, Zenon
  <2> QED  BY <2>1, <2>2, <2>3, <2>4, <2>5, Zenon DEF DriverNext
<1>3. CASE DeviceNext
  <2> USE <1>3
  <2>0. Next
    BY Zenon DEF Next
  <2> USE <2>0
  <2>1. CASE TakeAvailableRead
    <3>1. Accepts(dev.chain)
      BY <2>1, TakeAvailableReadStep, Zenon
    <3> QED  BY <3>1, AcceptsAccepts, Accepting, Zenon
  <2>2. ASSUME NEW source \in DeviceChains, NEW destination \in DeviceChains,
               MoveAccepted(source, destination)
        PROVE  UNCHANGED Exchange!exchange
    <3>1. Moves(source, destination)
      BY <2>2, MoveAcceptedStep, Zenon
    <3>2. Mapped' = Mapped
      BY <3>1, MovesStutters, Zenon
    <3> QED  BY <3>2, Stuttering, Zenon
  <2>3. ASSUME NEW o \in DeviceChains, ReturnAvailable(o)
        PROVE  Exchange!Next
    <3>1. Declines(o)
      BY <2>3, ReturnAvailableStep, Zenon
    <3> QED  BY <3>1, DeclinesDeclines, Declining, Zenon
  <2>4. ASSUME NEW o \in DeviceChains, NEW size \in 1 .. Capacity, WriteResponse(o, size)
        PROVE  Exchange!Next
    <3>1. Writes(o, size)
      BY <2>4, WriteResponseStep, Zenon
    <3> QED  BY <3>1, WritesWrites, Writing, Zenon
  <2>5. ASSUME NEW o \in DeviceChains, TakeAvailable(o) \/ Complete(o)
        PROVE  UNCHANGED Exchange!exchange
    <3>1. DeviceStill
      BY <2>5, TakeAvailableStep, CompleteStep, Zenon
    <3>2. Mapped' = Mapped
      BY <3>1, DeviceStutters, Zenon
    <3> QED  BY <3>2, Stuttering, Zenon
  <2>6. CASE CompleteStore
    <3>1. Completes(dev.chain)
      BY <2>6, CompleteStoreStep, Zenon
    <3> QED  BY <3>1, CompletesCompletes, Completing, Zenon
  <2>7. CASE CompleteEvent \/ DeviceIO
    <3>1. DeviceStill
      BY <2>7, CompleteEventStep, DeviceIOStep, Zenon
    <3>2. Mapped' = Mapped
      BY <3>1, DeviceStutters, Zenon
    <3> QED  BY <3>2, Stuttering, Zenon
  <2> QED  BY <2>1, <2>2, <2>3, <2>4, <2>5, <2>6, <2>7, Zenon DEF DeviceNext
<1> QED  BY <1>1, <1>2, <1>3, Zenon DEF Next

-----------------------------------------------------------------------------
(***************************************************************************)
(* The theorems                                                            *)
(***************************************************************************)

INSTANCE FiniteSetTheorems

(* The facts about finite sets and numbers that Books carries.             *)
LEMMA FiniteSets == FiniteSetFacts
<1>1. EmptyCounts
  BY FS_EmptySet, FS_CardinalityType, Zenon DEF EmptyCounts
<1>2. AddCounts
  BY FS_AddElement, Zenon DEF AddCounts
<1>3. RemoveCounts
  BY FS_RemoveElement, Zenon DEF RemoveCounts
<1>4. SubsetCounts
  BY FS_Subset, Zenon DEF SubsetCounts
<1>5. IntervalCounts
  <2> SUFFICES ASSUME NEW n \in Nat
               PROVE  IsFiniteSet(1 .. n) /\ Cardinality(1 .. n) = n
    BY Zenon DEF IntervalCounts
  <2>1. IsFiniteSet(1 .. n) /\ Cardinality(1 .. n) = IF 1 > n THEN 0 ELSE n - 1 + 1
    BY FS_Interval
  <2> QED  BY <2>1
<1> USE <1>5
<1>6. ListCounts
  <2> SUFFICES ASSUME NEW n \in Nat, NEW f, Cardinality({f[k] : k \in 1 .. n}) = n,
                      NEW i \in 1 .. n, NEW j \in 1 .. n, f[i] = f[j]
               PROVE  i = j
    BY Zenon DEF ListCounts
  <2> DEFINE S == 1 .. n
             T == {f[k] : k \in S}
             g == [k \in S |-> f[k]]
  <2>1. IsFiniteSet(S) /\ Cardinality(S) = Cardinality(T)
    BY Zenon DEF IntervalCounts
  <2>2. g \in Surjection(S, T)
    BY Zenon DEF Surjection
  <2>3. g \in Injection(S, T)
    BY <2>1, <2>2, FS_SurjSameCardinalityImpliesInj, Zenon
  <2>4. g[i] = g[j]
    BY Zenon
  <2> HIDE DEF g
  <2> QED  BY <2>3, <2>4, Zenon DEF Injection, IsInjective
<1>7. LeastNumber
  <2> SUFFICES ASSUME NEW T, T \subseteq Nat, T # {}
               PROVE  \E n \in T : \A m \in T : ~(m < n)
    BY Zenon DEF LeastNumber
  <2> DEFINE R == OpToRel(<, Nat)
  <2>1. IsWellFoundedOn(R, Nat)
    BY NatLessThanWellFounded, Zenon
  <2> HIDE DEF R
  <2>2. PICK n \in T : \A m \in T : ~(<<m, n>> \in R)
    BY <2>1, WFMin, Zenon
  <2>3. \A m \in T : m < n => <<m, n>> \in R
    BY Zenon DEF R, OpToRel
  <2> QED  BY <2>2, <2>3, Zenon
<1> QED  BY <1>1, <1>2, <1>3, <1>4, <1>6, <1>7, Zenon DEF FiniteSetFacts

-----------------------------------------------------------------------------

(* IInv is an invariant of the queue, for every queue size, index width,   *)
(* number of chain objects and chain length, whether memory fails or not.  *)
THEOREM Inductive == Spec => []IInv
<1>1. Init => IInv
  BY InitIInv, FiniteSets, Zenon
<1>2. IInv /\ [Next]_vars => IInv'
  BY NextIInv, Zenon
<1> QED  BY <1>1, <1>2, PTL DEF Spec

(* None of the checks of pending_index, take_available, read_chain and     *)
(* take_used ever faults an endpoint whose own memory did not fail.        *)
THEOREM NoEndpointFaultsAlone == Spec => []NoSpuriousFault
<1>1. IInv => NoSpuriousFault
  BY Zenon DEF IInv
<1> QED  BY <1>1, Inductive, PTL

(* slots, descriptor_owner, owned and the chain states agree on each side, *)
(* and what the device works on is the driver's request, not yet returned. *)
THEOREM OwnershipAgrees == Spec => []OwnershipConsistent
<1>1. IInv => OwnershipConsistent
  BY BooksAgree, Zenon
<1> QED  BY <1>1, Inductive, PTL

(* Ring entries and descriptors stay as they are from the store of the     *)
(* index that announces them until the peer consumed them.                 *)
THEOREM AnnouncedEntriesStable == Spec => EntriesStable
<1>1. ASSUME IInv, [Next]_vars
      PROVE  \/ /\ \A s \in Window(dev.consumed, avail.idx) :
                     /\ avail'.ring[s] = avail.ring[s]
                     /\ \A h \in Descriptors(ReadChain(avail.ring[s])) : desc'[h] = desc[h]
                /\ \A s \in Window(drv.consumed, used.idx) : used'.ring[s] = used.ring[s]
             \/ UNCHANGED vars
  <2>1. /\ Window(dev.consumed, avail.idx) = AvailSlots
        /\ Window(drv.consumed, used.idx) = UsedSlots
    BY <1>1, Zenon DEF IInv, Counts, AvailSlots, UsedSlots
  <2> QED  BY <1>1, <2>1, StepKeepsEntries, Zenon
<1> QED  BY <1>1, Inductive, PTL DEF Spec, EntriesStable

(* The two rings, with their free-running indices, descriptor lists and    *)
(* chain objects, implement the exchange: requests are accepted once and   *)
(* in order (take_available, return_available), answered at most once      *)
(* (complete), and collected with exactly the length that was written      *)
(* (take_used), whatever the memory of either side fails to read or write. *)
THEOREM ImplementsRequestExchange == Spec => ImplementsExchange
<1>1. Init => Exchange!Init
  BY InitMaps, Zenon
<1>2. IInv /\ [Next]_vars => [Exchange!Next]_Exchange!exchange
  BY StepMaps, Zenon
<1> QED  BY <1>1, <1>2, Inductive, PTL DEF Spec, ImplementsExchange, Exchange!Spec
=============================================================================
