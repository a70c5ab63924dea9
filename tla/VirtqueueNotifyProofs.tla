------------------------ MODULE VirtqueueNotifyProofs ------------------------
(***************************************************************************)
(* Proofs about VirtqueueNotify, for every number of index values and      *)
(* every max_outstanding below it: its types, NoLostWakeup and             *)
(* NotBothAsleep.  NoLostWakeup is not inductive: whether an endpoint may  *)
(* go to sleep depends on what of the peer's stores is in memory, and      *)
(* whether the peer notices, on the event index it finds there.            *)
(***************************************************************************)
EXTENDS VirtqueueNotify, TLAPS

(* What e has not taken of what its peer published.                        *)
Entries(e) == Distance(consumed[e], produced[Peer(e)])

(* The three parts of the way of a request, and their sum.                 *)
Window ==
  /\ Entries("device") + Unanswered + Entries("driver") = Outstanding
  /\ Outstanding <= MaxOutstanding

Buffered(location, value) == <<[location |-> location, value |-> value]>>

(* Memory lags behind an endpoint by one store, and only before its fence. *)
Memory(e) ==
  \/ buffer[e] = <<>> /\ idx[e] = produced[e]
  \/ /\ at[e] = "published" /\ buffer[e] = Buffered("idx", produced[e])
     /\ Successor(idx[e]) = produced[e] /\ Entries(Peer(e)) > 0
  \/ /\ at[e] = "armed" /\ buffer[e] = Buffered("event", consumed[e])
     /\ idx[e] = produced[e]

(* After its fence an armed endpoint has told how far it is.               *)
Armed(e) ==
  at[e] \in {"check", "sleep"} \/ (at[e] = "armed" /\ buffer[e] = <<>>)
    => event[e] = consumed[e]

(* Who waits has nothing left to say, and has something to wait for.       *)
Waiting(e) ==
  at[e] \in {"armed", "check", "sleep"} =>
    /\ ~notify[e]
    /\ e = "driver" => Outstanding > 0
    /\ e = "device" => Unanswered = 0

Awoken(e) ==
  at[e] = "sleep" /\ ~kick[e] /\ ~notify[Peer(e)] =>
    IF at[Peer(e)] \in {"published", "event"} THEN Entries(e) <= 1 ELSE Entries(e) = 0

IInv ==
  /\ TypeOK /\ Window
  /\ \A e \in Sides : Memory(e) /\ Armed(e) /\ Waiting(e) /\ Awoken(e)

-----------------------------------------------------------------------------
(***************************************************************************)
(* Indices                                                                 *)
(***************************************************************************)

LEMMA Remainder ==
  ASSUME NEW n \in Int
  PROVE  /\ n \in 0 .. IndexModulus - 1 => n % IndexModulus = n
         /\ n \in IndexModulus .. 2 * IndexModulus - 1 => n % IndexModulus = n - IndexModulus
         /\ n \in -IndexModulus .. -1 => n % IndexModulus = n + IndexModulus
<1> IndexModulus \in Nat /\ IndexModulus > 0
  BY NotifyAssumption
<1>1. n \in 0 .. IndexModulus - 1 => n % IndexModulus = n
  OBVIOUS
<1>2. n \in IndexModulus .. 2 * IndexModulus - 1 => n % IndexModulus = n - IndexModulus
  OBVIOUS
<1>3. n \in -IndexModulus .. -1 => n % IndexModulus = n + IndexModulus
  OBVIOUS
<1>q. QED  BY <1>1, <1>2, <1>3

(* The distance without the remainder.                                     *)
LEMMA DistanceValue ==
  ASSUME NEW a \in Indices, NEW b \in Indices
  PROVE  Distance(a, b) = IF a <= b THEN b - a ELSE b - a + IndexModulus
<1> IndexModulus \in Nat /\ IndexModulus > 0
  BY NotifyAssumption
<1>1. a \in Int /\ b \in Int /\ b - a \in Int
  BY DEF Indices
<1>2. CASE a <= b
  <2>1. b - a \in 0 .. IndexModulus - 1
    BY <1>1, <1>2 DEF Indices
  <2> QED  BY <2>1, <1>1, <1>2, Remainder DEF Distance
<1>3. CASE ~(a <= b)
  <2>1. b - a \in -IndexModulus .. -1
    BY <1>1, <1>3 DEF Indices
  <2> QED  BY <2>1, <1>1, <1>3, Remainder DEF Distance
<1> QED  BY <1>2, <1>3

LEMMA SuccessorValue ==
  ASSUME NEW a \in Indices
  PROVE  Successor(a) = IF a = IndexModulus - 1 THEN 0 ELSE a + 1
<1> IndexModulus \in Nat /\ IndexModulus > 0
  BY NotifyAssumption
<1>1. a \in Int /\ a + 1 \in Int
  BY DEF Indices
<1>2. CASE a = IndexModulus - 1
  <2>1. a + 1 \in IndexModulus .. 2 * IndexModulus - 1
    BY <1>1, <1>2 DEF Indices
  <2> QED  BY <2>1, <1>1, <1>2, Remainder DEF Successor
<1>3. CASE a # IndexModulus - 1
  <2>1. a + 1 \in 0 .. IndexModulus - 1
    BY <1>1, <1>3 DEF Indices
  <2> QED  BY <2>1, <1>1, <1>3, Remainder DEF Successor
<1> QED  BY <1>2, <1>3

(* What the proofs below use of the arithmetic of indices.                 *)
LEMMA IndexFacts ==
  ASSUME NEW a \in Indices, NEW b \in Indices
  PROVE  /\ Distance(a, b) \in Indices /\ Successor(a) \in Indices
         /\ Distance(a, b) \in Nat /\ Distance(a, b) < IndexModulus
         /\ Distance(a, b) = 0 <=> a = b
         /\ a # b => Distance(Successor(a), b) = Distance(a, b) - 1
         /\ Distance(a, b) + 1 < IndexModulus => Distance(a, Successor(b)) = Distance(a, b) + 1
         /\ Distance(a, b) + 1 = IndexModulus => Successor(b) = a
         /\ Distance(a, Successor(b)) > 0 => Distance(a, Successor(b)) = Distance(a, b) + 1
<1> IndexModulus \in Nat /\ IndexModulus > 0
  BY NotifyAssumption
<1>1. Successor(a) \in Indices /\ Successor(b) \in Indices
  BY SuccessorValue DEF Indices
<1>2. /\ Distance(a, b) = IF a <= b THEN b - a ELSE b - a + IndexModulus
      /\ Distance(Successor(a), b)
           = IF Successor(a) <= b THEN b - Successor(a) ELSE b - Successor(a) + IndexModulus
      /\ Distance(a, Successor(b))
           = IF a <= Successor(b) THEN Successor(b) - a ELSE Successor(b) - a + IndexModulus
  BY <1>1, DistanceValue
<1>3. /\ Successor(a) = IF a = IndexModulus - 1 THEN 0 ELSE a + 1
      /\ Successor(b) = IF b = IndexModulus - 1 THEN 0 ELSE b + 1
  BY SuccessorValue
<1> QED  BY <1>1, <1>2, <1>3 DEF Indices

(* next - threshold - 1 is below one exactly when next follows threshold.  *)
LEMMA CrossedAtOne ==
  ASSUME NEW next \in Indices, NEW threshold \in Indices
  PROVE  Distance(threshold, next) = 1 => Crossed(next, threshold)
<1> IndexModulus \in Nat /\ IndexModulus > 0
  BY NotifyAssumption
<1> SUFFICES ASSUME Distance(threshold, next) = 1 PROVE Crossed(next, threshold)
  OBVIOUS
<1>1. next - (threshold + 1) \in {0, -IndexModulus}
  BY DistanceValue DEF Indices
<1>2. (next - (threshold + 1)) % IndexModulus = 0
  BY <1>1, Remainder DEF Indices
<1> QED  BY <1>2 DEF Crossed, Distance
-----------------------------------------------------------------------------
(***************************************************************************)
(* Steps                                                                   *)
(***************************************************************************)

LEMMA PeerFacts ==
  ASSUME NEW e \in Sides
  PROVE  /\ Peer(e) \in Sides /\ Peer(Peer(e)) = e /\ Peer(e) # e
         /\ \A x \in Sides : x = e \/ x = Peer(e)
BY DEF Sides, Peer

(* Distances between the endpoints' indices are numbers.                   *)
LEMMA Numbers ==
  ASSUME TypeOK
  PROVE  /\ \A e \in Sides : Entries(e) \in Nat /\ Entries(e) < IndexModulus
         /\ Outstanding \in Nat /\ Unanswered \in Nat
<1>1. \A e \in Sides : consumed[e] \in Indices /\ produced[e] \in Indices
  BY DEF TypeOK
<1>2. "driver" \in Sides /\ "device" \in Sides
  BY DEF Sides
<1> QED
  BY <1>1, <1>2, IndexFacts, PeerFacts DEF Entries, Outstanding, Unanswered

(* Steps that publish and take nothing leave the window as it is.          *)
LEMMA Unmoved ==
  ASSUME IInv, produced' = produced, consumed' = consumed
  PROVE  /\ \A e : Entries(e)' = Entries(e)
         /\ Outstanding' = Outstanding /\ Unanswered' = Unanswered
         /\ Window'
BY DEF IInv, Window, Entries, Outstanding, Unanswered

LEMMA FlushStep ==
  ASSUME IInv, NEW e \in Sides, Flush(e)
  PROVE  IInv'
<1>0. /\ produced' = produced /\ consumed' = consumed /\ at' = at /\ notify' = notify
      /\ kick' = kick /\ buffer[e] # <<>>
  BY DEF Flush
<1>1. TypeOK /\ Memory(e) /\ \A x \in Sides : Memory(x) /\ Armed(x) /\ Waiting(x) /\ Awoken(x)
  BY DEF IInv
<1>2. /\ \A x : Entries(x)' = Entries(x)
      /\ Outstanding' = Outstanding /\ Unanswered' = Unanswered /\ Window'
  BY <1>0, Unmoved
<1>3. produced[e] \in Indices /\ consumed[e] \in Indices
  BY <1>1 DEF TypeOK
<1>4. /\ buffer' = [buffer EXCEPT ![e] = <<>>]
      /\ \/ /\ at[e] = "published" /\ idx' = [idx EXCEPT ![e] = produced[e]] /\ event' = event
         \/ /\ at[e] = "armed" /\ event' = [event EXCEPT ![e] = consumed[e]] /\ idx' = idx
            /\ idx[e] = produced[e]
  <2>1. CASE at[e] = "published" /\ buffer[e] = Buffered("idx", produced[e])
    <3>1. Head(buffer[e]).location = "idx" /\ Head(buffer[e]).value = produced[e]
      BY <2>1 DEF Buffered
    <3>2. Tail(buffer[e]) = <<>>
      BY <2>1 DEF Buffered
    <3> QED  BY <2>1, <3>1, <3>2 DEF Flush
  <2>2. CASE at[e] = "armed" /\ buffer[e] = Buffered("event", consumed[e]) /\ idx[e] = produced[e]
    <3>1. Head(buffer[e]).location = "event" /\ Head(buffer[e]).value = consumed[e]
      BY <2>2 DEF Buffered
    <3>2. Tail(buffer[e]) = <<>>
      BY <2>2 DEF Buffered
    <3> QED  BY <2>2, <3>1, <3>2 DEF Flush
  <2> QED  BY <1>0, <1>1, <2>1, <2>2 DEF Memory
<1>5. TypeOK'
  BY <1>0, <1>1, <1>3, <1>4 DEF TypeOK
<1>6. \A x \in Sides : x # e => buffer'[x] = buffer[x] /\ idx'[x] = idx[x] /\ event'[x] = event[x]
  BY <1>1, <1>4 DEF TypeOK
<1>7. buffer'[e] = <<>> /\ idx'[e] = produced[e] /\ (at[e] = "armed" => event'[e] = consumed[e])
  BY <1>1, <1>4 DEF TypeOK
<1>8. \A x \in Sides : Memory(x)' /\ Armed(x)'
  BY <1>0, <1>1, <1>2, <1>4, <1>6, <1>7 DEF Memory, Armed
<1>9. \A x \in Sides : Waiting(x)' /\ Awoken(x)'
  BY <1>0, <1>1, <1>2 DEF Waiting, Awoken
<1> QED  BY <1>2, <1>5, <1>8, <1>9 DEF IInv

LEMMA FenceStep ==
  ASSUME IInv, NEW e \in Sides, Fence(e)
  PROVE  IInv'
<1>0. /\ produced' = produced /\ consumed' = consumed /\ notify' = notify /\ kick' = kick
      /\ buffer' = buffer /\ idx' = idx /\ event' = event
      /\ at' = [at EXCEPT ![e] = IF @ = "published" THEN "event" ELSE "check"]
      /\ at[e] \in {"published", "armed"} /\ buffer[e] = <<>>
  BY DEF Fence
<1>1. TypeOK /\ \A x \in Sides : Memory(x) /\ Armed(x) /\ Waiting(x) /\ Awoken(x)
  BY DEF IInv
<1>2. /\ \A x : Entries(x)' = Entries(x)
      /\ Outstanding' = Outstanding /\ Unanswered' = Unanswered /\ Window'
  BY <1>0, Unmoved
<1>3. /\ at'[e] = IF at[e] = "published" THEN "event" ELSE "check"
      /\ \A x \in Sides : x # e => at'[x] = at[x]
  BY <1>0, <1>1 DEF TypeOK
<1>4. TypeOK'
  BY <1>0, <1>1 DEF TypeOK
<1>5. \A x \in Sides : Memory(x)' /\ Armed(x)'
  BY <1>0, <1>1, <1>2, <1>3 DEF Memory, Armed, Buffered
<1>6. \A x \in Sides : Waiting(x)'
  BY <1>0, <1>1, <1>2, <1>3 DEF Waiting
<1>7. \A x \in Sides : Awoken(x)'
  BY <1>0, <1>1, <1>2, <1>3, PeerFacts DEF Awoken
<1> QED  BY <1>2, <1>4, <1>5, <1>6, <1>7 DEF IInv

LEMMA PublishStep ==
  ASSUME IInv, NEW e \in Sides, Publish(e)
  PROVE  IInv'
<1> DEFINE p == Peer(e)
<1>0. /\ consumed' = consumed /\ notify' = notify /\ kick' = kick
      /\ idx' = idx /\ event' = event
      /\ produced' = [produced EXCEPT ![e] = Successor(@)]
      /\ at' = [at EXCEPT ![e] = "published"]
      /\ buffer' = [buffer EXCEPT ![e] = Append(@, [location |-> "idx", value |-> Successor(produced[e])])]
      /\ at[e] = "run" /\ MayProduce(e)
  BY DEF Publish, Store
<1>1. TypeOK /\ Window /\ \A x \in Sides : Memory(x) /\ Armed(x) /\ Waiting(x) /\ Awoken(x)
  BY DEF IInv
<1>2. /\ at'[e] = "published" /\ \A x \in Sides : x # e => at'[x] = at[x]
      /\ produced'[e] = Successor(produced[e])
      /\ \A x \in Sides : x # e => produced'[x] = produced[x]
  BY <1>0, <1>1 DEF TypeOK
<1>3. buffer[e] = <<>> /\ idx[e] = produced[e]
  BY <1>0, <1>1 DEF Memory
<1>4. Append(buffer[e], [location |-> "idx", value |-> Successor(produced[e])])
        = Buffered("idx", Successor(produced[e]))
  BY <1>3 DEF Buffered
<1>5. /\ buffer'[e] = Buffered("idx", Successor(produced[e]))
      /\ \A x \in Sides : x # e => buffer'[x] = buffer[x]
  BY <1>0, <1>1, <1>4 DEF TypeOK
<1>6. Successor(produced[e]) \in Indices
  BY <1>1, IndexFacts DEF TypeOK
<1>7. TypeOK'
  <2>1. Buffered("idx", Successor(produced[e])) \in {<<s>> : s \in Stores}
    BY <1>6 DEF Buffered, Stores
  <2> QED  BY <1>0, <1>1, <1>4, <1>6, <2>1 DEF TypeOK
<1>8. /\ Window' /\ Entries(p)' = Entries(p) + 1 /\ Entries(p) \in Nat
      /\ Entries(e)' = Entries(e)
      /\ e = "driver" => Unanswered' = Unanswered
      /\ e = "device" => Outstanding' = Outstanding
  <2>0. /\ MaxOutstanding < IndexModulus /\ MaxOutstanding \in Nat /\ IndexModulus \in Nat
        /\ \A x \in Sides : Entries(x) \in Nat
        /\ Outstanding \in Nat /\ Unanswered \in Nat
    BY NotifyAssumption, Numbers, <1>1
  <2>1. /\ produced["driver"] \in Indices /\ consumed["driver"] \in Indices
        /\ produced["device"] \in Indices /\ consumed["device"] \in Indices
        /\ Peer("driver") = "device" /\ Peer("device") = "driver"
        /\ "driver" \in Sides /\ "device" \in Sides
    BY <1>1 DEF TypeOK, Sides, Peer
  <2>2. CASE e = "driver"
    <3>2. Outstanding < MaxOutstanding
      BY <1>0, <2>2 DEF MayProduce
    <3>3. Entries("device") <= Outstanding
      BY <1>1, <2>0, <2>1 DEF Window
    <3>4. /\ produced'["driver"] = Successor(produced["driver"])
          /\ produced'["device"] = produced["device"]
      BY <1>2, <2>1, <2>2
    <3>5. Entries("device")' = Entries("device") + 1
      <4>1. Distance(consumed["device"], produced["driver"]) + 1 < IndexModulus
        BY <2>0, <2>1, <3>2, <3>3 DEF Entries
      <4>2. Distance(consumed["device"], Successor(produced["driver"]))
              = Distance(consumed["device"], produced["driver"]) + 1
        BY <2>1, <4>1, IndexFacts
      <4> QED  BY <1>0, <2>1, <3>4, <4>2 DEF Entries
    <3>6. Outstanding' = Outstanding + 1
      <4>1. Distance(consumed["driver"], produced["driver"]) + 1 < IndexModulus
        BY <2>0, <3>2 DEF Outstanding
      <4>2. Distance(consumed["driver"], Successor(produced["driver"]))
              = Distance(consumed["driver"], produced["driver"]) + 1
        BY <2>1, <4>1, IndexFacts
      <4> QED  BY <1>0, <3>4, <4>2 DEF Outstanding
    <3>7. Entries("driver")' = Entries("driver") /\ Unanswered' = Unanswered
      BY <1>0, <2>1, <3>4 DEF Entries, Unanswered
    <3> QED
      BY <1>1, <2>0, <2>1, <2>2, <3>2, <3>5, <3>6, <3>7 DEF Window
  <2>3. CASE e = "device"
    <3>2. Unanswered > 0
      BY <1>0, <2>3 DEF MayProduce, Sides
    <3>3. Entries("driver") < MaxOutstanding
      BY <1>1, <2>0, <2>1, <3>2 DEF Window
    <3>4. /\ produced'["device"] = Successor(produced["device"])
          /\ produced'["driver"] = produced["driver"]
      BY <1>2, <2>1, <2>3
    <3>5. Entries("driver")' = Entries("driver") + 1
      <4>1. Distance(consumed["driver"], produced["device"]) + 1 < IndexModulus
        BY <2>0, <2>1, <3>3 DEF Entries
      <4>2. Distance(consumed["driver"], Successor(produced["device"]))
              = Distance(consumed["driver"], produced["device"]) + 1
        BY <2>1, <4>1, IndexFacts
      <4> QED  BY <1>0, <2>1, <3>4, <4>2 DEF Entries
    <3>6. Unanswered' = Unanswered - 1
      BY <1>0, <2>0, <2>1, <3>2, <3>4, IndexFacts DEF Unanswered
    <3>7. Entries("device")' = Entries("device") /\ Outstanding' = Outstanding
      BY <1>0, <2>1, <3>4 DEF Entries, Outstanding
    <3> QED
      BY <1>1, <2>0, <2>1, <2>3, <3>5, <3>6, <3>7 DEF Window
  <2> QED  BY <2>2, <2>3 DEF Sides
<1>9. \A x \in Sides : Memory(x)'
  <2>1. Memory(e)'
    BY <1>0, <1>2, <1>3, <1>5, <1>8 DEF Memory
  <2>2. Memory(p)'
    BY <1>0, <1>1, <1>2, <1>5, <1>8, PeerFacts DEF Memory
  <2> QED  BY <2>1, <2>2, PeerFacts
<1>10. \A x \in Sides : Armed(x)'
  BY <1>0, <1>1, <1>2, <1>5 DEF Armed
<1>11. \A x \in Sides : Waiting(x)'
  <2>1. Waiting(e)'
    BY <1>2 DEF Waiting
  <2>2. Waiting(p)'
    BY <1>0, <1>1, <1>2, <1>8, PeerFacts DEF Waiting, Peer, Sides
  <2> QED  BY <2>1, <2>2, PeerFacts
<1>12. \A x \in Sides : Awoken(x)'
  <2>1. Awoken(e)'
    BY <1>2 DEF Awoken
  <2>2. Awoken(p)'
    BY <1>0, <1>1, <1>2, <1>8, PeerFacts DEF Awoken
  <2> QED  BY <2>1, <2>2, PeerFacts
<1> QED  BY <1>7, <1>8, <1>9, <1>10, <1>11, <1>12 DEF IInv

LEMMA LoadEventStep ==
  ASSUME IInv, NEW e \in Sides, LoadEvent(e)
  PROVE  IInv'
<1> DEFINE p == Peer(e)
<1>0. /\ produced' = produced /\ consumed' = consumed /\ kick' = kick
      /\ buffer' = buffer /\ idx' = idx /\ event' = event
      /\ notify' = [notify EXCEPT ![e] = @ \/ Crossed(produced[e], event[p])]
      /\ at' = [at EXCEPT ![e] = "run"] /\ at[e] = "event"
  BY DEF LoadEvent
<1>1. TypeOK /\ \A x \in Sides : Memory(x) /\ Armed(x) /\ Waiting(x) /\ Awoken(x)
  BY DEF IInv
<1>2. /\ \A x : Entries(x)' = Entries(x)
      /\ Outstanding' = Outstanding /\ Unanswered' = Unanswered /\ Window'
  BY <1>0, Unmoved
<1>3. /\ at'[e] = "run" /\ \A x \in Sides : x # e => at'[x] = at[x]
      /\ \A x \in Sides : x # e => notify'[x] = notify[x]
      /\ notify[e] => notify'[e]
      /\ Crossed(produced[e], event[p]) => notify'[e]
  BY <1>0, <1>1 DEF TypeOK
<1>4. TypeOK'
  <2>1. notify' \in [Sides -> BOOLEAN]
    BY <1>0, <1>1, Zenon DEF TypeOK, Crossed
  <2> QED  BY <1>0, <1>1, <2>1 DEF TypeOK
<1>5. \A x \in Sides : Memory(x)' /\ Armed(x)'
  BY <1>0, <1>1, <1>2, <1>3 DEF Memory, Armed
<1>6. \A x \in Sides : Waiting(x)'
  BY <1>0, <1>1, <1>2, <1>3 DEF Waiting
<1>7. Awoken(p)'
  <2> SUFFICES ASSUME at'[p] = "sleep", ~kick'[p], ~notify'[Peer(p)]
               PROVE  Entries(p)' = 0
    BY <1>3, PeerFacts DEF Awoken
  <2>1. at[p] = "sleep" /\ ~kick[p] /\ ~notify[e] /\ Peer(p) = e /\ p \in Sides
    BY <1>0, <1>3, PeerFacts
  <2>2. Entries(p) <= 1
    BY <1>0, <1>1, <2>1 DEF Awoken
  <2>3. event[p] = consumed[p]
    BY <1>1, <2>1 DEF Armed
  <2>4. ~Crossed(produced[e], event[p])
    BY <1>3, <2>1, PeerFacts
  <2>5. Entries(p) # 1
    BY <1>1, <2>1, <2>3, <2>4, CrossedAtOne DEF Entries, TypeOK
  <2>6. Entries(p) \in Nat
    BY <1>1, <2>1, Numbers
  <2> QED  BY <1>2, <2>2, <2>5, <2>6
<1>8. \A x \in Sides : Awoken(x)'
  BY <1>3, <1>7, PeerFacts DEF Awoken
<1> QED  BY <1>2, <1>4, <1>5, <1>6, <1>8 DEF IInv

(* Kick and RedundantKick.                                                 *)
LEMMA KickStep ==
  ASSUME IInv, NEW e \in Sides, Kick(e) \/ RedundantKick(e)
  PROVE  IInv'
<1> DEFINE p == Peer(e)
<1>0. /\ produced' = produced /\ consumed' = consumed /\ at' = at
      /\ buffer' = buffer /\ idx' = idx /\ event' = event
      /\ kick' = [kick EXCEPT ![p] = TRUE]
      /\ notify' = notify \/ notify' = [notify EXCEPT ![e] = FALSE]
      /\ at[e] = "run"
  BY DEF Kick, RedundantKick
<1>1. TypeOK /\ \A x \in Sides : Memory(x) /\ Armed(x) /\ Waiting(x) /\ Awoken(x)
  BY DEF IInv
<1>2. /\ \A x : Entries(x)' = Entries(x)
      /\ Outstanding' = Outstanding /\ Unanswered' = Unanswered /\ Window'
  BY <1>0, Unmoved
<1>3. TypeOK'
  <2>1. notify' \in [Sides -> BOOLEAN] /\ kick' \in [Sides -> BOOLEAN]
    BY <1>0, <1>1 DEF TypeOK
  <2> QED  BY <1>0, <1>1, <2>1 DEF TypeOK
<1>4. kick'[p] = TRUE
  BY <1>0, <1>1, PeerFacts DEF TypeOK
<1>5. \A x \in Sides : (~notify[x] => ~notify'[x])
  BY <1>0, <1>1 DEF TypeOK
<1>6. \A x \in Sides : Memory(x)' /\ Armed(x)'
  BY <1>0, <1>1, <1>2 DEF Memory, Armed
<1>7. \A x \in Sides : Waiting(x)'
  BY <1>0, <1>1, <1>2, <1>5 DEF Waiting
<1>8. \A x \in Sides : Awoken(x)'
  BY <1>0, <1>4, PeerFacts DEF Awoken
<1> QED  BY <1>2, <1>3, <1>6, <1>7, <1>8 DEF IInv

LEMMA ArmStep ==
  ASSUME IInv, NEW e \in Sides, Arm(e)
  PROVE  IInv'
<1>0. /\ produced' = produced /\ consumed' = consumed /\ notify' = notify /\ kick' = kick
      /\ idx' = idx /\ event' = event
      /\ at' = [at EXCEPT ![e] = "armed"]
      /\ buffer' = [buffer EXCEPT ![e] = Append(@, [location |-> "event", value |-> consumed[e]])]
      /\ at[e] = "run" /\ MayWait(e) /\ ~notify[e]
  BY DEF Arm, Store
<1>1. TypeOK /\ \A x \in Sides : Memory(x) /\ Armed(x) /\ Waiting(x) /\ Awoken(x)
  BY DEF IInv
<1>2. /\ \A x : Entries(x)' = Entries(x)
      /\ Outstanding' = Outstanding /\ Unanswered' = Unanswered /\ Window'
  BY <1>0, Unmoved
<1>3. at'[e] = "armed" /\ \A x \in Sides : x # e => at'[x] = at[x]
  BY <1>0, <1>1 DEF TypeOK
<1>4. buffer[e] = <<>> /\ idx[e] = produced[e] /\ consumed[e] \in Indices
  BY <1>0, <1>1 DEF Memory, TypeOK
<1>5. Append(buffer[e], [location |-> "event", value |-> consumed[e]])
        = Buffered("event", consumed[e])
  BY <1>4 DEF Buffered
<1>6. /\ buffer'[e] = Buffered("event", consumed[e]) /\ buffer'[e] # <<>>
      /\ \A x \in Sides : x # e => buffer'[x] = buffer[x]
  <2>1. Buffered("event", consumed[e]) # <<>>
    BY DEF Buffered
  <2> QED  BY <1>0, <1>1, <1>5, <2>1 DEF TypeOK
<1>7. TypeOK'
  <2>1. Buffered("event", consumed[e]) \in {<<s>> : s \in Stores}
    BY <1>4 DEF Buffered, Stores
  <2> QED  BY <1>0, <1>1, <1>5, <2>1 DEF TypeOK
<1>8. \A x \in Sides : Memory(x)' /\ Armed(x)'
  BY <1>0, <1>1, <1>2, <1>3, <1>4, <1>6 DEF Memory, Armed
<1>9. \A x \in Sides : Waiting(x)'
  BY <1>0, <1>1, <1>2, <1>3 DEF Waiting, MayWait
<1>10. \A x \in Sides : Awoken(x)'
  BY <1>0, <1>1, <1>2, <1>3, PeerFacts DEF Awoken
<1> QED  BY <1>2, <1>7, <1>8, <1>9, <1>10 DEF IInv

LEMMA RecheckStep ==
  ASSUME IInv, NEW e \in Sides, Recheck(e)
  PROVE  IInv'
<1> DEFINE p == Peer(e)
<1>0. /\ produced' = produced /\ consumed' = consumed /\ notify' = notify /\ kick' = kick
      /\ buffer' = buffer /\ idx' = idx /\ event' = event
      /\ at' = [at EXCEPT ![e] = IF Pending(e) THEN "drain" ELSE "sleep"]
      /\ at[e] = "check"
  BY DEF Recheck
<1>1. TypeOK /\ \A x \in Sides : Memory(x) /\ Armed(x) /\ Waiting(x) /\ Awoken(x)
  BY DEF IInv
<1>2. /\ \A x : Entries(x)' = Entries(x)
      /\ Outstanding' = Outstanding /\ Unanswered' = Unanswered /\ Window'
  BY <1>0, Unmoved
<1>3. /\ at'[e] = IF Pending(e) THEN "drain" ELSE "sleep"
      /\ \A x \in Sides : x # e => at'[x] = at[x]
  BY <1>0, <1>1 DEF TypeOK
<1>4. TypeOK'
  BY <1>0, <1>1 DEF TypeOK
<1>5. \A x \in Sides : Memory(x)' /\ Armed(x)'
  BY <1>0, <1>1, <1>2, <1>3 DEF Memory, Armed, Buffered
<1>6. \A x \in Sides : Waiting(x)'
  BY <1>0, <1>1, <1>2, <1>3 DEF Waiting
<1>7. ~Pending(e) => IF at[p] \in {"published", "event"} THEN Entries(e) <= 1 ELSE Entries(e) = 0
  <2> SUFFICES ASSUME ~Pending(e)
               PROVE  IF at[p] \in {"published", "event"} THEN Entries(e) <= 1 ELSE Entries(e) = 0
    OBVIOUS
  <2>1. p \in Sides /\ Peer(p) = e /\ Memory(p)
    BY <1>1, PeerFacts
  <2>2. consumed[e] \in Indices /\ idx[p] \in Indices /\ produced[p] \in Indices
    BY <1>1, <2>1 DEF TypeOK
  <2>3. consumed[e] = idx[p] /\ Distance(consumed[e], idx[p]) = 0
    BY <2>2, IndexFacts DEF Pending
  <2>4. CASE idx[p] = produced[p]
    BY <2>3, <2>4 DEF Entries
  <2>5. CASE at[p] = "published" /\ Successor(idx[p]) = produced[p] /\ Entries(e) > 0
    <3>1. Distance(consumed[e], Successor(idx[p])) > 0
      BY <2>5 DEF Entries
    <3>2. Distance(consumed[e], Successor(idx[p])) = Distance(consumed[e], idx[p]) + 1
      BY <2>2, <3>1, IndexFacts
    <3>3. Entries(e) = 1
      BY <2>3, <2>5, <3>2 DEF Entries
    <3> QED  BY <2>5, <3>3
  <2> QED  BY <2>1, <2>4, <2>5 DEF Memory
<1>8. \A x \in Sides : Awoken(x)'
  <2>1. Awoken(e)'
    BY <1>0, <1>2, <1>3, <1>7, PeerFacts DEF Awoken
  <2>2. Awoken(p)'
    BY <1>0, <1>1, <1>2, <1>3, PeerFacts DEF Awoken
  <2> QED  BY <2>1, <2>2, PeerFacts
<1> QED  BY <1>2, <1>4, <1>5, <1>6, <1>8 DEF IInv

LEMMA WakeStep ==
  ASSUME IInv, NEW e \in Sides, Wake(e)
  PROVE  IInv'
<1>0. /\ produced' = produced /\ consumed' = consumed /\ notify' = notify
      /\ buffer' = buffer /\ idx' = idx /\ event' = event
      /\ at' = [at EXCEPT ![e] = "drain"] /\ kick' = [kick EXCEPT ![e] = FALSE]
      /\ at[e] = "sleep"
  BY DEF Wake
<1>1. TypeOK /\ \A x \in Sides : Memory(x) /\ Armed(x) /\ Waiting(x) /\ Awoken(x)
  BY DEF IInv
<1>2. /\ \A x : Entries(x)' = Entries(x)
      /\ Outstanding' = Outstanding /\ Unanswered' = Unanswered /\ Window'
  BY <1>0, Unmoved
<1>3. /\ at'[e] = "drain"
      /\ \A x \in Sides : x # e => at'[x] = at[x] /\ kick'[x] = kick[x]
  BY <1>0, <1>1 DEF TypeOK
<1>4. TypeOK'
  BY <1>0, <1>1 DEF TypeOK
<1>5. \A x \in Sides : Memory(x)' /\ Armed(x)'
  BY <1>0, <1>1, <1>2, <1>3 DEF Memory, Armed, Buffered
<1>6. \A x \in Sides : Waiting(x)'
  BY <1>0, <1>1, <1>2, <1>3 DEF Waiting
<1>7. \A x \in Sides : Awoken(x)'
  BY <1>0, <1>1, <1>2, <1>3, PeerFacts DEF Awoken
<1> QED  BY <1>2, <1>4, <1>5, <1>6, <1>7 DEF IInv

LEMMA TakeStep ==
  ASSUME IInv, NEW e \in Sides, Take(e)
  PROVE  IInv'
<1> DEFINE p == Peer(e)
<1>0. /\ produced' = produced /\ notify' = notify /\ kick' = kick
      /\ buffer' = buffer /\ idx' = idx /\ event' = event
      /\ consumed' = [consumed EXCEPT ![e] = IF Pending(e) THEN Successor(@) ELSE @]
      /\ at' = [at EXCEPT ![e] = "run"] /\ at[e] \in {"run", "drain"}
  BY DEF Take
<1>1. TypeOK /\ Window /\ \A x \in Sides : Memory(x) /\ Armed(x) /\ Waiting(x) /\ Awoken(x)
  BY DEF IInv
<1>2. /\ at'[e] = "run" /\ \A x \in Sides : x # e => at'[x] = at[x]
      /\ \A x \in Sides : x # e => consumed'[x] = consumed[x]
      /\ consumed'[e] = IF Pending(e) THEN Successor(consumed[e]) ELSE consumed[e]
  BY <1>0, <1>1 DEF TypeOK
<1>3. /\ p \in Sides /\ Peer(p) = e /\ p # e
      /\ \A x \in Sides : x = e \/ x = p
  BY PeerFacts
<1>4. /\ consumed[e] \in Indices /\ produced[p] \in Indices /\ idx[p] \in Indices
      /\ buffer[e] = <<>> /\ idx[e] = produced[e]
  BY <1>0, <1>1, <1>3 DEF TypeOK, Memory
<1>5. CASE ~Pending(e)
  <2>1. consumed' = consumed
    BY <1>0, <1>1, <1>5 DEF TypeOK
  <2>2. /\ \A x : Entries(x)' = Entries(x)
        /\ Outstanding' = Outstanding /\ Unanswered' = Unanswered /\ Window'
    BY <1>0, <2>1, Unmoved
  <2>3. TypeOK'
    BY <1>0, <1>1, <2>1 DEF TypeOK
  <2>4. \A x \in Sides : Memory(x)'
    <3>1. Memory(e)'
      BY <1>0, <1>4, Zenon DEF Memory
    <3>2. Memory(p)'
      BY <1>0, <1>1, <1>2, <1>3, <2>1, <2>2, Zenon DEF Memory
    <3> QED  BY <1>3, <3>1, <3>2, Zenon
  <2>5. \A x \in Sides : Armed(x)'
    BY <1>0, <1>1, <1>2, <2>1 DEF Armed
  <2>6. \A x \in Sides : Waiting(x)'
    BY <1>0, <1>1, <1>2, <2>2 DEF Waiting
  <2>7. \A x \in Sides : Awoken(x)'
    BY <1>0, <1>1, <1>2, <1>3, <2>2 DEF Awoken
  <2> QED  BY <2>2, <2>3, <2>4, <2>5, <2>6, <2>7 DEF IInv
<1>6. CASE Pending(e)
  <2>1. Successor(consumed[e]) \in Indices /\ consumed'[e] = Successor(consumed[e])
    BY <1>2, <1>4, <1>6, IndexFacts
  <2>2. TypeOK'
    BY <1>0, <1>1, <1>6, <2>1 DEF TypeOK
  <2>3. /\ Entries(e) \in Nat /\ Entries(e) > 0
        /\ idx[p] # produced[p] => Entries(e) > 1
    <3>0. Distance(consumed[e], idx[p]) \in Nat
      BY <1>4, IndexFacts
    <3>1. Distance(consumed[e], idx[p]) \in Nat /\ Distance(consumed[e], idx[p]) > 0
      BY <1>6, <3>0 DEF Pending
    <3>2. CASE idx[p] = produced[p]
      BY <3>1, <3>2 DEF Entries
    <3>3. CASE idx[p] # produced[p]
      <4>1. Successor(idx[p]) = produced[p] /\ Entries(e) > 0
        BY <1>1, <1>3, <3>3 DEF Memory
      <4>2. Distance(consumed[e], Successor(idx[p])) > 0
        BY <4>1 DEF Entries
      <4>3. Distance(consumed[e], Successor(idx[p])) = Distance(consumed[e], idx[p]) + 1
        BY <1>4, <4>2, IndexFacts
      <4> QED  BY <3>1, <4>1, <4>3 DEF Entries
    <3> QED  BY <3>2, <3>3
  <2>4. Entries(e)' = Entries(e) - 1
    <3>0. Distance(consumed[e], produced[p]) = 0 <=> consumed[e] = produced[p]
      BY <1>4, IndexFacts
    <3>1. consumed[e] # produced[p]
      BY <2>3, <3>0 DEF Entries
    <3>2. Distance(Successor(consumed[e]), produced[p]) = Distance(consumed[e], produced[p]) - 1
      BY <1>4, <3>1, IndexFacts
    <3> QED  BY <1>0, <2>1, <3>2 DEF Entries
  <2>5. Entries(p)' = Entries(p)
    BY <1>0, <1>2, <1>3 DEF Entries
  <2>6. /\ Window'
        /\ e = "driver" => Unanswered' = Unanswered
        /\ e = "device" => Outstanding' = Outstanding
    <3>0. /\ MaxOutstanding < IndexModulus /\ MaxOutstanding \in Nat /\ IndexModulus \in Nat
          /\ \A x \in Sides : Entries(x) \in Nat
          /\ Outstanding \in Nat /\ Unanswered \in Nat
      BY NotifyAssumption, Numbers, <1>1
    <3>1. /\ produced["driver"] \in Indices /\ consumed["driver"] \in Indices
          /\ produced["device"] \in Indices /\ consumed["device"] \in Indices
          /\ Peer("driver") = "device" /\ Peer("device") = "driver"
          /\ "driver" \in Sides /\ "device" \in Sides
      BY <1>1 DEF TypeOK, Sides, Peer
    <3>2. CASE e = "driver"
      <4>1. Outstanding > 0
        BY <1>1, <2>3, <3>0, <3>1, <3>2 DEF Window
      <4>0. Distance(consumed["driver"], produced["driver"]) = 0
              <=> consumed["driver"] = produced["driver"]
        BY <3>1, IndexFacts
      <4>2. consumed["driver"] # produced["driver"]
        BY <4>0, <4>1 DEF Outstanding
      <4>3. Distance(Successor(consumed["driver"]), produced["driver"])
              = Distance(consumed["driver"], produced["driver"]) - 1
        BY <3>1, <4>2, IndexFacts
      <4>4. Outstanding' = Outstanding - 1
        BY <1>0, <2>1, <3>2, <4>3 DEF Outstanding
      <4>5. Unanswered' = Unanswered
        BY <1>0, <1>2, <3>1, <3>2 DEF Unanswered
      <4> QED  BY <1>1, <2>4, <2>5, <3>0, <3>1, <3>2, <4>4, <4>5 DEF Window
    <3>3. CASE e = "device"
      <4>1. Unanswered + 1 < IndexModulus
        BY <1>1, <2>3, <3>0, <3>1, <3>3 DEF Window
      <4>2. Distance(produced["device"], consumed["device"]) + 1 < IndexModulus
        BY <4>1 DEF Unanswered
      <4>3. Distance(produced["device"], Successor(consumed["device"]))
              = Distance(produced["device"], consumed["device"]) + 1
        BY <3>1, <4>2, IndexFacts
      <4>4. Unanswered' = Unanswered + 1
        BY <1>0, <2>1, <3>3, <4>3 DEF Unanswered
      <4>5. Outstanding' = Outstanding
        BY <1>0, <1>2, <3>1, <3>3 DEF Outstanding
      <4> QED  BY <1>1, <2>4, <2>5, <3>0, <3>1, <3>3, <4>4, <4>5 DEF Window
    <3> QED  BY <3>2, <3>3 DEF Sides
  <2>7. Memory(e)' /\ Armed(e)' /\ Waiting(e)' /\ Awoken(e)'
    BY <1>0, <1>2, <1>4 DEF Memory, Armed, Waiting, Awoken
  <2>8. Memory(p)'
    <3>1. Memory(p)
      BY <1>1, <1>3
    <3>2. (idx[p] # produced[p]) => Entries(e)' > 0
      BY <2>3, <2>4
    <3>3. CASE idx[p] = produced[p] /\ buffer[p] = <<>>
      BY <1>0, <3>3 DEF Memory
    <3>4. CASE /\ at[p] = "published" /\ buffer[p] = Buffered("idx", produced[p])
               /\ Successor(idx[p]) = produced[p]
      <4>1. idx[p] # produced[p]
        BY <1>4, <3>4, SuccessorValue, NotifyAssumption DEF Indices
      <4> QED  BY <1>0, <1>2, <1>3, <3>2, <3>4, <4>1 DEF Memory, Buffered
    <3>5. CASE /\ at[p] = "armed" /\ buffer[p] = Buffered("event", consumed[p])
               /\ idx[p] = produced[p]
      BY <1>0, <1>2, <1>3, <3>5 DEF Memory, Buffered
    <3> QED  BY <3>1, <3>3, <3>4, <3>5 DEF Memory
  <2>9. Armed(p)'
    BY <1>0, <1>1, <1>2, <1>3 DEF Armed
  <2>10. Waiting(p)'
    BY <1>0, <1>1, <1>2, <1>3, <2>6 DEF Waiting, Sides, Peer
  <2>11. Awoken(p)'
    BY <1>0, <1>1, <1>2, <1>3, <2>5 DEF Awoken
  <2> QED
    BY <1>3, <2>2, <2>6, <2>7, <2>8, <2>9, <2>10, <2>11 DEF IInv
<1> QED  BY <1>5, <1>6

-----------------------------------------------------------------------------
(***************************************************************************)
(* Theorems                                                                *)
(***************************************************************************)

LEMMA Initially == Init => IInv
<1> SUFFICES ASSUME Init PROVE IInv
  OBVIOUS
<1>1. 0 \in Indices /\ IndexModulus \in Nat /\ IndexModulus > 0
      /\ MaxOutstanding \in Nat
  BY NotifyAssumption DEF Indices
<1>2. /\ \A e \in Sides : produced[e] = 0 /\ consumed[e] = 0 /\ at[e] = "run"
                          /\ buffer[e] = <<>> /\ idx[e] = 0
  BY DEF Init
<1>3. TypeOK
  BY <1>1 DEF Init, TypeOK
<1>4. Distance(0, 0) = 0
  BY <1>1, IndexFacts
<1>5. /\ \A e \in Sides : Entries(e) = 0
      /\ Outstanding = 0 /\ Unanswered = 0
  BY <1>2, <1>4, PeerFacts DEF Entries, Outstanding, Unanswered, Sides
<1>6. Window
  BY <1>1, <1>5 DEF Window, Sides
<1>7. \A e \in Sides : Memory(e) /\ Armed(e) /\ Waiting(e) /\ Awoken(e)
  BY <1>2 DEF Memory, Armed, Waiting, Awoken
<1> QED  BY <1>3, <1>6, <1>7 DEF IInv

LEMMA Invariance == Spec => []IInv
<1>1. IInv /\ [Next]_vars => IInv'
  <2> SUFFICES ASSUME IInv, [Next]_vars PROVE IInv'
    OBVIOUS
  <2>1. CASE Next
    <3> PICK e \in Sides :
          \/ Flush(e) \/ Fence(e)
          \/ Publish(e) \/ LoadEvent(e) \/ Kick(e) \/ RedundantKick(e)
          \/ Take(e) \/ Arm(e) \/ Recheck(e) \/ Wake(e)
      BY <2>1 DEF Next
    <3> QED
      BY FlushStep, FenceStep, PublishStep, LoadEventStep, KickStep, TakeStep,
         ArmStep, RecheckStep, WakeStep
  <2>2. CASE UNCHANGED vars
    BY <2>2 DEF vars, IInv, TypeOK, Window, Entries, Outstanding, Unanswered,
                Memory, Armed, Waiting, Awoken
  <2> QED  BY <2>1, <2>2
<1> QED  BY <1>1, Initially, PTL DEF Spec

(* Every reachable state has its types; in particular a fence never finds  *)
(* more than one store in a buffer.                                        *)
THEOREM TypeCorrect == Spec => []TypeOK
<1>1. IInv => TypeOK
  BY DEF IInv
<1> QED  BY <1>1, Invariance, PTL

(* publish_index and arm lose no wake-up, whatever the width of the index  *)
(* and the number of outstanding requests: an endpoint that sleeps on an   *)
(* entry whose publication read its event index has its kick, or the peer  *)
(* is about to send it.                                                    *)
THEOREM WakeupsKept == Spec => []NoLostWakeup
<1>1. IInv => NoLostWakeup
  <2> SUFFICES ASSUME IInv, NEW e \in Sides, at[e] = "sleep",
                      ~kick[e], ~notify[Peer(e)]
               PROVE  ~((IF at[Peer(e)] \in {"published", "event"}
                         THEN Entries(e) - 1 ELSE Entries(e)) > 0)
    BY DEF NoLostWakeup, Entries
  <2>1. Entries(e) \in Nat /\ Awoken(e)
    BY Numbers DEF IInv
  <2> QED  BY <2>1 DEF Awoken
<1> QED  BY <1>1, Invariance, PTL

(* The endpoints never wait for each other: of two that sleep, one has its *)
(* kick already.                                                           *)
THEOREM NeverBothAsleep == Spec => []NotBothAsleep
<1>1. IInv => NotBothAsleep
  <2> SUFFICES ASSUME IInv, \A e \in Sides : at[e] = "sleep" /\ ~kick[e]
               PROVE  FALSE
    BY DEF NotBothAsleep
  <2>1. "driver" \in Sides /\ "device" \in Sides
    BY DEF Sides
  <2>2. \A e \in Sides : ~notify[e] /\ Entries(e) = 0
    BY PeerFacts DEF IInv, Waiting, Awoken
  <2>3. Outstanding > 0 /\ Unanswered = 0
    BY <2>1 DEF IInv, Waiting
  <2> QED  BY <2>1, <2>2, <2>3 DEF IInv, Window
<1> QED  BY <1>1, Invariance, PTL
===============================================================================
