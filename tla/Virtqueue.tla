------------------------------- MODULE Virtqueue -------------------------------
(***************************************************************************)
(* The split virtqueue engine (protocol/src/virtqueue.c): one queue, with  *)
(* the driver and the device endpoint running concurrently on the shared   *)
(* descriptor table and the two rings.                                     *)
(*                                                                         *)
(* Each endpoint has one owner, so its calls do not overlap; the calls of  *)
(* the two endpoints do.  A call is one step per access to a shared index; *)
(* the entries and descriptors an index covers are read or written in the  *)
(* step next to it (EntriesStable justifies this).  Ring indices are   *)
(* counted modulo IndexModulus, 2^16 in the code.                          *)
(*                                                                         *)
(* A driver chain stands for its payload memory, so a descriptor holds the *)
(* chain and the position of a segment in it, for address and length.  The *)
(* wake-up handshake is VirtqueueNotify; direct descriptors only.          *)
(***************************************************************************)
EXTENDS Integers, Sequences, FiniteSets

CONSTANTS
  QueueSize,       \* queue_size, a power of two
  IndexModulus,    \* number of values of a ring index (2^16)
  MaxOutstanding,  \* max_outstanding
  MaxChain,        \* max_chain_length
  Capacity,        \* writable bytes of a chain
  DriverChains,    \* chain objects of the driver
  DeviceChains,    \* chain objects of the device
  IOFailures,      \* whether the memory callbacks may fail
  None

ASSUME VirtqueueAssumption ==
  /\ QueueSize \in Nat \ {0} /\ IndexModulus \in Nat
  /\ IndexModulus > QueueSize /\ IndexModulus % QueueSize = 0
  /\ MaxOutstanding \in 1 .. QueueSize
  /\ MaxChain \in 1 .. QueueSize
  /\ Capacity \in Nat
  /\ IOFailures \in BOOLEAN
  /\ None \notin DriverChains \cup DeviceChains \cup Nat

Heads == 0 .. QueueSize - 1
Indices == 0 .. IndexModulus - 1
Lengths == 0 .. Capacity

(* The sequences that max_chain_length allows.                             *)
Lists(S) == UNION {[1 .. n -> S] : n \in 0 .. MaxChain}

(* One segment of a chain: its descriptor and the payload it points to.    *)
Segments == [descriptor : Heads, chain : DriverChains, position : 1 .. MaxChain]

(* A descriptor that was written: its payload and the one that follows.    *)
Links == [chain : DriverChains, position : 1 .. MaxChain, next : Heads \cup {None}]

ASSUME NoneAssumption == None \notin Links

Chains ==
  [state : {"FREE", "SUBMITTED", "ACCEPTED", "RETURNED"},
   segments : Lists(Segments),
   written : Lengths, used_length : Lengths]

(* Where a call in progress stands: before it stores its index ("store"),  *)
(* before it reads what the peer's index covers ("read") or before it      *)
(* loads the event index ("event").  "published" is a completion that      *)
(* failed after its index was stored.                                      *)
Steps == {"idle", "store", "read", "event", "published"}

VARIABLES
  drv,    \* the driver's kb2_vq_t and its chain objects
  dev,    \* the device's
  desc,   \* shared: the descriptor table
  avail,  \* shared: the available ring
  used,   \* shared: the used ring
  injected  \* history: the endpoints whose memory or another lane failed

vars == <<drv, dev, desc, avail, used, injected>>

FreeChain == [state |-> "FREE", segments |-> <<>>, written |-> 0, used_length |-> 0]

Endpoints(objects) ==
  [produced : Indices, consumed : Indices, owned : 0 .. MaxOutstanding,
   slots : [Heads -> objects \cup {None}], descriptor_owner : [Heads -> 0 .. QueueSize],
   last_taken : objects \cup {None}, chains : [objects -> Chains],
   faulted : BOOLEAN, at : Steps, chain : objects \cup {None}]

(* kb2_vq_bind of a fresh generation: both shared indices are zero.        *)
Bound(objects) ==
  [produced |-> 0, consumed |-> 0, owned |-> 0,
   slots |-> [h \in Heads |-> None], descriptor_owner |-> [h \in Heads |-> 0],
   last_taken |-> None, chains |-> [o \in objects |-> FreeChain],
   faulted |-> FALSE, at |-> "idle", chain |-> None]

Init ==
  /\ drv = Bound(DriverChains)
  /\ dev = Bound(DeviceChains)
  /\ desc = [h \in Heads |-> None]
  /\ avail = [idx |-> 0, ring |-> [h \in Heads |-> 0]]
  /\ used = [idx |-> 0, ring |-> [h \in Heads |-> [head |-> 0, length |-> 0]]]
  /\ injected = {}

-----------------------------------------------------------------------------
(***************************************************************************)
(* Helpers                                                                 *)
(***************************************************************************)

Slot(index) == index % QueueSize
Distance(from, to) == (to - from) % IndexModulus

Successor(index) == (index + 1) % IndexModulus
Predecessor(index) == (index - 1) % IndexModulus

HeadOf(segments) == segments[1].descriptor
Descriptors(segments) == {segments[i].descriptor : i \in DOMAIN segments}

Payload(segments) == {segments[i].chain : i \in DOMAIN segments}

(* The chain owning a head in a given state, as owned() checks it.         *)
Owned(vq, o, state) ==
  /\ o \in DOMAIN vq.chains
  /\ vq.chains[o].state = state
  /\ vq.slots[HeadOf(vq.chains[o].segments)] = o

(* The chain objects the slots hold.                                       *)
Held(vq) == {vq.slots[h] : h \in Heads} \ {None}

(* Mutant: descriptors of a chain in flight may be used again.             *)
ValidChainReused(vq, segments) ==
  /\ Len(segments) \in 1 .. MaxChain
  /\ vq.slots[HeadOf(segments)] = None
  /\ Cardinality(Descriptors(segments)) = Len(segments)
  /\ Payload(segments) \cap UNION {Payload(vq.chains[o].segments) : o \in Held(vq)} = {}

(* validate_chain: length, fresh and distinct descriptors, and no payload  *)
(* in common with a chain the endpoint already owns.                       *)
ValidChain(vq, segments) ==
  /\ Len(segments) \in 1 .. MaxChain
  /\ vq.slots[HeadOf(segments)] = None
  /\ Cardinality(Descriptors(segments)) = Len(segments)
  /\ \A h \in Descriptors(segments) : vq.descriptor_owner[h] = 0
  /\ Payload(segments) \cap UNION {Payload(vq.chains[o].segments) : o \in Held(vq)} = {}

Claim(vq, o, segments, state) ==
  LET head == HeadOf(segments) IN
  [vq EXCEPT
     !.slots[head] = o,
     !.owned = @ + 1,
     !.descriptor_owner = [h \in Heads |->
        IF h \in Descriptors(segments) THEN head + 1 ELSE @[h]],
     !.chains[o] = [state |-> state, segments |-> segments,
                    written |-> 0, used_length |-> 0]]

(* The fields of a free chain are never read again: it is cleared.         *)
Drop(vq, o) ==
  LET segments == vq.chains[o].segments IN
  [vq EXCEPT
     !.slots[HeadOf(segments)] = None,
     !.owned = @ - 1,
     !.descriptor_owner = [h \in Heads |->
        IF h \in Descriptors(segments) THEN 0 ELSE @[h]],
     !.last_taken = IF @ = o THEN None ELSE @,
     !.chains[o] = FreeChain]

(* A fault ends the call; ownership stays as it is.                         *)
Fault(vq) == [vq EXCEPT !.faulted = TRUE, !.at = "idle", !.chain = None]

Goto(vq, at, o) == [vq EXCEPT !.at = at, !.chain = o]

Return(vq) == Goto(vq, "idle", None)

(* check(): a call starts only on a channel that is not faulted.           *)
MayCall(vq) == vq.at = "idle" /\ ~vq.faulted

(* An access of the endpoint fails, or another lane faults its channel.    *)
Disturbed(vq) ==
  {[vq EXCEPT !.faulted = TRUE]} \cup
  (IF vq.at \in {"store", "read"} \/ MayCall(vq) THEN {Fault(vq)} ELSE {})

-----------------------------------------------------------------------------
(***************************************************************************)
(* Driver                                                                  *)
(***************************************************************************)

(* The segments of a chain published through the descriptors ds.           *)
SegmentsOf(o, ds) ==
  [i \in DOMAIN ds |-> [descriptor |-> ds[i], chain |-> o, position |-> i]]

(* The descriptor table after the first n segments were written.           *)
WithDescriptors(segments, n) ==
  [h \in Heads |->
     IF \E i \in 1 .. n : segments[i].descriptor = h
       THEN LET i == CHOOSE j \in 1 .. n : segments[j].descriptor = h IN
            [chain |-> segments[i].chain, position |-> segments[i].position,
             next |-> IF i < Len(segments) THEN segments[i + 1].descriptor ELSE None]
       ELSE desc[h]]

MayPublish(o, segments) ==
  /\ MayCall(drv)
  /\ drv.chains[o].state = "FREE"
  /\ drv.owned # MaxOutstanding
  /\ ValidChain(drv, segments)

(* The chain is claimed before the first shared write; descriptors and the *)
(* ring entry are written before the index.                                *)
Publish(o, segments) ==
  /\ MayPublish(o, segments)
  /\ drv' = Goto(Claim(drv, o, segments, "SUBMITTED"), "store", o)
  /\ desc' = WithDescriptors(segments, Len(segments))
  /\ avail' = [avail EXCEPT !.ring[Slot(drv.produced)] = HeadOf(segments)]
  /\ UNCHANGED <<dev, used, injected>>

(* publish_index: the index is stored before it is counted, and a fence    *)
(* and the load of the event index follow.                                 *)
PublishStore ==
  /\ drv.at = "store"
  /\ avail' = [avail EXCEPT !.idx = Successor(drv.produced)]
  /\ drv' = [drv EXCEPT !.produced = Successor(@), !.at = "event"]
  /\ UNCHANGED <<dev, desc, used, injected>>

PublishEvent ==
  /\ drv.at = "event"
  /\ drv' = Return(drv)
  /\ UNCHANGED <<dev, desc, avail, used, injected>>

(* pending_index of the driver: more answers than requests are a fault.    *)
TakeUsed ==
  /\ MayCall(drv)
  /\ LET distance == Distance(drv.consumed, used.idx) IN
     /\ distance # 0
     /\ drv' = IF distance > MaxOutstanding
                   \/ distance > Distance(drv.consumed, drv.produced)
                THEN Fault(drv)
                ELSE Goto(drv, "read", None)
  /\ UNCHANGED <<dev, desc, avail, used, injected>>

TakeUsedRead ==
  /\ drv.at = "read"
  /\ LET entry == used.ring[Slot(drv.consumed)]
         o == drv.slots[entry.head]
     IN  drv' = IF Owned(drv, o, "SUBMITTED") /\ entry.length <= Capacity
                THEN Return([drv EXCEPT !.chains[o].state = "RETURNED",
                                        !.chains[o].used_length = entry.length,
                                        !.consumed = Successor(@)])
                ELSE Fault(drv)
  /\ UNCHANGED <<dev, desc, avail, used, injected>>

Release(o) ==
  /\ MayCall(drv)
  /\ Owned(drv, o, "RETURNED")
  /\ drv' = Drop(drv, o)
  /\ UNCHANGED <<dev, desc, avail, used, injected>>

(* The driver's memory or another lane fails; a publication may fail with  *)
(* the chain claimed and only some descriptors written.                    *)
DriverIO ==
  /\ IOFailures
  /\ \/ /\ drv' \in Disturbed(drv) \cup (IF drv.at = "event" THEN {Fault(drv)} ELSE {})
        /\ UNCHANGED desc
     \/ \E o \in DriverChains, ds \in Lists(Heads) :
          LET segments == SegmentsOf(o, ds) IN
          /\ MayPublish(o, segments)
          /\ drv' = Fault(Claim(drv, o, segments, "SUBMITTED"))
          /\ \E n \in 0 .. Len(segments) : desc' = WithDescriptors(segments, n)
  /\ injected' = injected \cup {"driver"}
  /\ UNCHANGED <<dev, avail, used>>

-----------------------------------------------------------------------------
(***************************************************************************)
(* Device                                                                  *)
(***************************************************************************)

(* The descriptors linked from a head, one for each step of the walk.      *)
Linked(head) ==
  LET walk[k \in 1 .. MaxChain + 1] ==
        IF k = 1 THEN head
        ELSE IF walk[k - 1] = None \/ desc[walk[k - 1]] = None THEN None
        ELSE desc[walk[k - 1]].next
  IN  walk

(* read_chain: the segments linked from a head, or the empty sequence for  *)
(* a list that is not a chain.                                             *)
ReadChain(head) ==
  LET walk == Linked(head)
      count == Cardinality({k \in DOMAIN walk : walk[k] # None})
  IN  IF count > MaxChain \/ \E k \in 1 .. count : desc[walk[k]] = None THEN <<>>
      ELSE [k \in 1 .. count |->
              [descriptor |-> walk[k], chain |-> desc[walk[k]].chain,
               position |-> desc[walk[k]].position]]

(* pending_index of the device, and the check that what is announced fits. *)
TakeAvailable(o) ==
  /\ MayCall(dev)
  /\ dev.chains[o].state = "FREE"
  /\ LET distance == Distance(dev.consumed, avail.idx) IN
     /\ distance # 0
     /\ dev' = IF distance > MaxOutstanding \/ dev.owned + distance > MaxOutstanding
                THEN Fault(dev)
                ELSE Goto(dev, "read", o)
  /\ UNCHANGED <<drv, desc, avail, used, injected>>

TakeAvailableRead ==
  /\ dev.at = "read"
  /\ LET head == avail.ring[Slot(dev.consumed)]
         segments == ReadChain(head)
     IN  dev' = IF /\ dev.slots[head] = None
                   /\ dev.descriptor_owner[head] = 0
                   /\ ValidChain(dev, segments)
                THEN Return([Claim(dev, dev.chain, segments, "ACCEPTED") EXCEPT
                               !.consumed = Successor(@),
                               !.last_taken = dev.chain])
                ELSE Fault(dev)
  /\ UNCHANGED <<drv, desc, avail, used, injected>>

(* Mutant: the slot still names the source.                                *)
MoveAcceptedKeepsSlot(source, destination) ==
  /\ MayCall(dev)
  /\ Owned(dev, source, "ACCEPTED")
  /\ dev.chains[destination].state = "FREE"
  /\ dev' = [dev EXCEPT
       !.chains[destination] = dev.chains[source],
       !.chains[source] = FreeChain,
       !.last_taken = IF @ = source THEN destination ELSE @]
  /\ UNCHANGED <<drv, desc, avail, used, injected>>

(* The accepted snapshot moves to another chain object.                    *)
MoveAccepted(source, destination) ==
  /\ MayCall(dev)
  /\ Owned(dev, source, "ACCEPTED")
  /\ dev.chains[destination].state = "FREE"
  /\ dev' = [dev EXCEPT
       !.chains[destination] = dev.chains[source],
       !.chains[source] = FreeChain,
       !.slots[HeadOf(dev.chains[source].segments)] = destination,
       !.last_taken = IF @ = source THEN destination ELSE @]
  /\ UNCHANGED <<drv, desc, avail, used, injected>>

(* Mutant: any accepted chain may go back, not only the last one taken.    *)
ReturnAvailableAny(o) ==
  /\ MayCall(dev)
  /\ Owned(dev, o, "ACCEPTED")
  /\ dev.chains[o].written = 0
  /\ dev' = [Drop(dev, o) EXCEPT !.consumed = Predecessor(@)]
  /\ UNCHANGED <<drv, desc, avail, used, injected>>

ReturnAvailable(o) ==
  /\ MayCall(dev)
  /\ Owned(dev, o, "ACCEPTED")
  /\ dev.last_taken = o
  /\ dev.chains[o].written = 0
  /\ dev' = [Drop(dev, o) EXCEPT !.consumed = Predecessor(@)]
  /\ UNCHANGED <<drv, desc, avail, used, injected>>

WriteResponse(o, size) ==
  /\ MayCall(dev)
  /\ Owned(dev, o, "ACCEPTED")
  /\ size <= Capacity - dev.chains[o].written
  /\ dev' = [dev EXCEPT !.chains[o].written = @ + size]
  /\ UNCHANGED <<drv, desc, avail, used, injected>>

(* Mutant: the used entry goes to the slot of the wrong counter.           *)
CompleteWrongSlot(o) ==
  /\ MayCall(dev)
  /\ Owned(dev, o, "ACCEPTED")
  /\ dev' = Goto(dev, "store", o)
  /\ used' = [used EXCEPT !.ring[Slot(dev.consumed)] =
                 [head |-> HeadOf(dev.chains[o].segments),
                  length |-> dev.chains[o].written]]
  /\ UNCHANGED <<drv, desc, avail, injected>>

Complete(o) ==
  /\ MayCall(dev)
  /\ Owned(dev, o, "ACCEPTED")
  /\ dev' = Goto(dev, "store", o)
  /\ used' = [used EXCEPT !.ring[Slot(dev.produced)] =
                 [head |-> HeadOf(dev.chains[o].segments),
                  length |-> dev.chains[o].written]]
  /\ UNCHANGED <<drv, desc, avail, injected>>

CompleteStore ==
  /\ dev.at = "store"
  /\ used' = [used EXCEPT !.idx = Successor(dev.produced)]
  /\ dev' = [dev EXCEPT !.produced = Successor(@), !.at = "event"]
  /\ UNCHANGED <<drv, desc, avail, injected>>

(* Only now is the chain the device's no more.                             *)
CompleteEvent ==
  /\ dev.at = "event"
  /\ dev' = Return(Drop(dev, dev.chain))
  /\ UNCHANGED <<drv, desc, avail, used, injected>>

(* A completion whose event load fails is published, yet still owned.      *)
DeviceIO ==
  /\ IOFailures
  /\ dev' \in Disturbed(dev) \cup
       (IF dev.at = "event" THEN {[dev EXCEPT !.faulted = TRUE, !.at = "published"]} ELSE {})
  /\ injected' = injected \cup {"device"}
  /\ UNCHANGED <<drv, desc, avail, used>>

-----------------------------------------------------------------------------

DriverNext ==
  \/ \E o \in DriverChains, ds \in Lists(Heads) : Publish(o, SegmentsOf(o, ds))
  \/ PublishStore
  \/ PublishEvent
  \/ TakeUsed
  \/ TakeUsedRead
  \/ \E o \in DriverChains : Release(o)
  \/ DriverIO

DeviceNext ==
  \/ \E o \in DeviceChains : TakeAvailable(o)
  \/ TakeAvailableRead
  \/ \E source, destination \in DeviceChains : MoveAccepted(source, destination)
  \/ \E o \in DeviceChains : ReturnAvailable(o)
  \/ \E o \in DeviceChains, size \in 1 .. Capacity : WriteResponse(o, size)
  \/ \E o \in DeviceChains : Complete(o)
  \/ CompleteStore
  \/ CompleteEvent
  \/ DeviceIO

Next == DriverNext \/ DeviceNext

Spec == Init /\ [][Next]_vars

-----------------------------------------------------------------------------
(***************************************************************************)
(* Properties                                                              *)
(***************************************************************************)

TypeOK ==
  /\ drv \in Endpoints(DriverChains)
  /\ dev \in Endpoints(DeviceChains)
  /\ desc \in [Heads -> {None} \cup Links]
  /\ avail \in [idx : Indices, ring : [Heads -> Heads]]
  /\ used \in [idx : Indices, ring : [Heads -> [head : Heads, length : Lengths]]]
  /\ injected \subseteq {"driver", "device"}

(* Neither a peer that keeps the protocol nor a failure of the peer faults *)
(* an endpoint: the checks of pending_index, take_available, read_chain    *)
(* and take_used never fire unless this endpoint's own memory failed.      *)
NoSpuriousFault ==
  /\ drv.faulted => "driver" \in injected
  /\ dev.faulted => "device" \in injected

(* slots, descriptor_owner, owned and the state of the chain objects tell  *)
(* one story on each side, through moves, returns and failed calls.        *)
Consistent(vq) ==
  LET busy == {o \in DOMAIN vq.chains : vq.chains[o].state # "FREE"} IN
  /\ vq.owned = Cardinality(busy)
  /\ Held(vq) = busy
  /\ \A h \in Heads : vq.slots[h] # None => HeadOf(vq.chains[vq.slots[h]].segments) = h
  /\ \A h \in Heads : vq.descriptor_owner[h] =
       IF \E o \in busy : h \in Descriptors(vq.chains[o].segments)
         THEN 1 + HeadOf(vq.chains[CHOOSE o \in busy :
                                    h \in Descriptors(vq.chains[o].segments)].segments)
         ELSE 0

(* The device chains that are not answered yet.                            *)
Unanswered ==
  {o \in DeviceChains : /\ dev.chains[o].state = "ACCEPTED"
                        /\ ~(dev.at \in {"event", "published"} /\ dev.chain = o)}

(* What the device works on is what the driver published: its snapshot     *)
(* equals the driver's chain, which the driver has not got back, so the    *)
(* device never reads or writes payload that the driver may reuse.         *)
SnapshotFaithful ==
  \A o \in Unanswered :
    LET segments == dev.chains[o].segments
        request == drv.chains[segments[1].chain]
    IN  request.state = "SUBMITTED" /\ request.segments = segments

(* Both, on every state: each side keeps its own books, and the books of   *)
(* the two sides, which only the rings connect, agree with each other.     *)
OwnershipConsistent ==
  TypeOK /\ Consistent(drv) /\ Consistent(dev) /\ SnapshotFaithful

(* Entries announced and not consumed: those from one index to another.    *)
Window(from, to) == {Slot(from + k) : k \in 0 .. Distance(from, to) - 1}

(* Ring entries and descriptors do not change from the store of the index  *)
(* that announces them until the peer consumed them, although indices wrap *)
(* and return_available moves consumed back; so reading them is as good as *)
(* one step.                                                               *)
EntriesStable ==
  [][/\ \A s \in Window(dev.consumed, avail.idx) :
          /\ avail'.ring[s] = avail.ring[s]
          /\ \A h \in Descriptors(ReadChain(avail.ring[s])) : desc'[h] = desc[h]
     /\ \A s \in Window(drv.consumed, used.idx) : used'.ring[s] = used.ring[s]]_vars
=============================================================================
