-------------------------- MODULE VirtqueueExchange --------------------------
(***************************************************************************)
(* What a client of the virtqueue relies on: requests go to the device and *)
(* their answers come back as RequestExchange says, whatever the rings,    *)
(* the descriptor table and the chain objects do in between.               *)
(***************************************************************************)
EXTENDS Virtqueue, Functions, TLC

(* What a request has become, as RequestExchange sees it: announced and    *)
(* not taken, held by the device with the length written so far, answered  *)
(* and not collected, or returned to the driver.                           *)
Queue ==
  [k \in 1 .. Distance(dev.consumed, avail.idx) |->
     desc[avail.ring[Slot(dev.consumed + k - 1)]].chain]
Taken ==
  [r \in {dev.chains[o].segments[1].chain : o \in Unanswered} |->
     dev.chains[CHOOSE o \in Unanswered : dev.chains[o].segments[1].chain = r].written]
Answers ==
  [k \in 1 .. Distance(drv.consumed, used.idx) |->
     LET entry == used.ring[Slot(drv.consumed + k - 1)] IN
     [request |-> drv.slots[entry.head], length |-> entry.length]]
Collected ==
  [r \in {o \in DriverChains : drv.chains[o].state = "RETURNED"} |-> drv.chains[r].used_length]

(* The queue implements RequestExchange: requests are accepted once and in *)
(* order, answered once, and collected with the length that was written,   *)
(* across index wrap-around and failures of either side.                   *)
Exchange == INSTANCE RequestExchange WITH
  Requests <- DriverChains, submitted <- Queue, accepted <- Taken,
  completed <- Answers, returned <- Collected
ImplementsExchange == Exchange!Spec

(* The chain objects of an endpoint are interchangeable.                   *)
ChainSymmetry == Permutations(DriverChains) \cup Permutations(DeviceChains)
=============================================================================
