---------------------------- MODULE VirtqueueChain ----------------------------
(***************************************************************************)
(* Descriptor chains of the virtqueue engine (protocol/src/virtqueue.c) in *)
(* shared memory: what kb2_vq_publish writes for a chain of direct         *)
(* descriptors, of an indirect table or of both, what read_chain makes of  *)
(* it, and what the copy operations transfer through it.                   *)
(*                                                                         *)
(* The two rings are the queues avail and used here (Virtqueue refines     *)
(* them to indices); shared memory is a function from addresses to words.  *)
(* A word stands for 8 bytes, a descriptor for two words: its address, and *)
(* its length, flags and next packed together.  Words are never cleared,   *)
(* so old descriptors, tables and payloads stay in memory until they are   *)
(* overwritten.                                                            *)
(***************************************************************************)
EXTENDS MappedMemory, SequencesExt

CONSTANTS
  QueueSize, MaxChain, MaxIndirect, MaxOutstanding,  \* of the queue
  Role,         \* "REQUEST" or "EVENT"
  Lane,         \* queue_id
  Regions,      \* [base, length, rights] of the channel
  Rings,        \* [base, length] of every ring of every queue
  DescTable,    \* descriptor_address
  Candidates,   \* the chains the driver's caller may try to publish
  MaxPublished  \* bound on the publications of a generation

VARIABLES
  shared,    \* the words of shared memory
  drv,       \* the driver's slots and descriptor_owner
  dev,       \* the device's
  avail,     \* heads published and not yet taken
  used,      \* [head, length] completed and not yet taken
  faulted,   \* an endpoint faulted its channel; it makes no further call
  published  \* number of publications

vars == <<memory, tables, status, shared, drv, dev, avail, used, faulted, published>>

Heads == 0 .. QueueSize - 1
DescSize == 2
Next_ == 1
Write_ == 2
Indirect_ == 4

Has(flags, bit) == (flags \div bit) % 2 = 1

(* A free slot; a chain that could not be read.                            *)
Free == [state |-> "FREE", head |-> 0, segments |-> <<>>, indirect |-> 0, indirect_length |-> 0,
         indirect_first |-> 0, indirect_descriptor |-> 0, written |-> 0, used_length |-> 0]
Malformed == [Free EXCEPT !.state = "FAULT"]

Bound == [slots |-> [h \in Heads |-> Free], descriptor_owner |-> [h \in Heads |-> 0]]

Owned(vq) == Cardinality({h \in Heads : vq.slots[h].state # "FREE"})

-----------------------------------------------------------------------------
(***************************************************************************)
(* Chains                                                                  *)
(***************************************************************************)

RangesOverlap(a, n, b, m) == n # 0 /\ m # 0 /\ Overlaps(a, n, b, m)

PayloadRange(address, size, rights) ==
  \/ size = 0
  \/ /\ address <= AddressMax - size
     /\ \E r \in Regions : /\ address >= r.base /\ rights \subseteq r.rights
                           /\ Wrap(address + size) <= Wrap(r.base + r.length)
     /\ \A ring \in Rings : ~RangesOverlap(address, size, ring.base, ring.length)
     /\ PayloadAllowed(memory, Lane, address, size, rights)

SegmentsOverlap(s, t) == RangesOverlap(s.address, s.length, t.address, t.length)
TableOverlaps(c, s) == RangesOverlap(s.address, s.length, c.indirect, c.indirect_length)

(* Mutant: the tables of two chains may share memory.                      *)
ChainsOverlapNoTables(a, b) ==
  \/ \E i \in DOMAIN a.segments : TableOverlaps(b, a.segments[i])
  \/ \E j \in DOMAIN b.segments : TableOverlaps(a, b.segments[j])
  \/ \E i \in DOMAIN a.segments, j \in DOMAIN b.segments :
       LET s == a.segments[i] t == b.segments[j] IN
       (s.writable \/ t.writable) /\ SegmentsOverlap(s, t)

ChainsOverlap(a, b) ==
  \/ RangesOverlap(a.indirect, a.indirect_length, b.indirect, b.indirect_length)
  \/ \E i \in DOMAIN a.segments : TableOverlaps(b, a.segments[i])
  \/ \E j \in DOMAIN b.segments : TableOverlaps(a, b.segments[j])
  \/ \E i \in DOMAIN a.segments, j \in DOMAIN b.segments :
       LET s == a.segments[i] t == b.segments[j] IN
       (s.writable \/ t.writable) /\ SegmentsOverlap(s, t)

DirectCount(c) == IF c.indirect_length # 0 THEN c.indirect_first ELSE Len(c.segments)
InTable(c, i) == i > DirectCount(c)

(* The bytes of the readable or of the writable segments.                  *)
Total(c, writable) ==
  FoldLeft(LAMBDA n, s : n + (IF s.writable = writable THEN s.length ELSE 0), 0, c.segments)

(* The indirect table of a chain that has one.                             *)
ValidTable(vq, c) ==
  /\ c.indirect % DescSize = 0 /\ c.indirect_length % DescSize = 0
  /\ c.indirect_length \div DescSize <= MaxIndirect
  /\ c.indirect_first < Len(c.segments)
  /\ c.indirect_descriptor \in Heads
  /\ vq.descriptor_owner[c.indirect_descriptor] = 0
  /\ c.segments[c.indirect_first + 1].descriptor = 0
  /\ PayloadRange(c.indirect, c.indirect_length, {"READ"})

ValidSegment(vq, c, i) ==
  LET s == c.segments[i] IN
  /\ \A j \in 1 .. i - 1 :
       LET p == c.segments[j] IN
       /\ p.writable => s.writable
       /\ InTable(c, i) = InTable(c, j) => s.descriptor # p.descriptor
       /\ ~((s.writable \/ p.writable) /\ SegmentsOverlap(s, p))
  /\ PayloadRange(s.address, s.length, IF s.writable THEN {"WRITE"} ELSE {"READ"})
  /\ ~TableOverlaps(c, s)
  /\ IF InTable(c, i) THEN s.descriptor < c.indirect_length \div DescSize
     ELSE /\ s.descriptor \in Heads /\ vq.descriptor_owner[s.descriptor] = 0
          /\ c.indirect_length # 0 => s.descriptor # c.indirect_descriptor

(* validate_chain.                                                         *)
ValidChain(vq, c) ==
  /\ Len(c.segments) \in 1 .. MaxChain
  /\ c.head \in Heads /\ vq.slots[c.head] = Free /\ vq.descriptor_owner[c.head] = 0
  /\ IF c.indirect_length # 0 THEN ValidTable(vq, c)
     ELSE c.indirect = 0 /\ c.indirect_first = 0 /\ c.indirect_descriptor = 0
  /\ c.head = IF DirectCount(c) = 0 THEN c.indirect_descriptor ELSE c.segments[1].descriptor
  /\ \A i \in DOMAIN c.segments : ValidSegment(vq, c, i)
  /\ Total(c, TRUE) # 0
  /\ (Role = "REQUEST") <=> (Total(c, FALSE) # 0)
  /\ \A h \in Heads : vq.slots[h] # Free => ~ChainsOverlap(c, vq.slots[h])

MainDescriptors(c) ==
  {c.segments[i].descriptor : i \in 1 .. DirectCount(c)}
  \cup (IF c.indirect_length # 0 THEN {c.indirect_descriptor} ELSE {})

SetOwner(vq, c, owner) ==
  [h \in Heads |-> IF h \in MainDescriptors(c) THEN owner ELSE vq.descriptor_owner[h]]

Claim(vq, c, state) ==
  [slots |-> [vq.slots EXCEPT ![c.head] = [c EXCEPT !.state = state]],
   descriptor_owner |-> SetOwner(vq, c, c.head + 1)]

Drop(vq, c) ==
  [slots |-> [vq.slots EXCEPT ![c.head] = Free],
   descriptor_owner |-> SetOwner(vq, c, 0)]

-----------------------------------------------------------------------------
(***************************************************************************)
(* Descriptors and payloads in memory                                      *)
(***************************************************************************)

(* The second word of a descriptor, and back: write_u32, write_u16, ...    *)
Pack(length, flags, next) == length + 16 * flags + 256 * next
Unpack(word) ==
  [length |-> word % 16, flags |-> (word \div 16) % 16, next |-> word \div 256]

(* Words of requests and responses; read as a descriptor, their flags are  *)
(* none the engine knows.                                                  *)
RequestWord(address) == Pack(0, 8, 100 + address)
ResponseWord(head, i) == Pack(i, 8, head)

(* Mutant: the last direct descriptor goes on at the first table entry.    *)
NextOfUnlinked(c, i) ==
  IF i = Len(c.segments) THEN 0 ELSE c.segments[i + 1].descriptor

NextOf(c, i) ==
  IF i = Len(c.segments) THEN 0
  ELSE IF i = DirectCount(c) THEN c.indirect_descriptor
  ELSE c.segments[i + 1].descriptor

(* The descriptor writes of kb2_vq_publish, in order.                      *)
DescriptorWrites(c) ==
  [i \in 1 .. Len(c.segments) |->
     LET s == c.segments[i] IN
     [at |-> (IF InTable(c, i) THEN c.indirect ELSE DescTable) + DescSize * s.descriptor,
      address |-> s.address,
      meta |-> Pack(s.length, (IF s.writable THEN Write_ ELSE 0)
                              + (IF i < Len(c.segments) THEN Next_ ELSE 0), NextOf(c, i))]]
  \o IF c.indirect_length = 0 THEN <<>>
     ELSE <<[at |-> DescTable + DescSize * c.indirect_descriptor, address |-> c.indirect,
             meta |-> Pack(c.indirect_length, Indirect_, 0)]>>

WithDescriptors(words, c) ==
  FoldLeft(LAMBDA m, w : [m EXCEPT ![w.at] = w.address, ![w.at + 1] = w.meta],
           words, DescriptorWrites(c))

WithRequest(words, c) ==
  [a \in DOMAIN words |->
     IF \E i \in DOMAIN c.segments :
          ~c.segments[i].writable /\ a \in Cells(c.segments[i].address, c.segments[i].length)
     THEN RequestWord(a) ELSE words[a]]

Resolved(address, size, right) == Resolve(memory, address, size, {right}) # 0

(* read_chain, from one descriptor on: c is what was read so far.          *)
RECURSIVE ReadFrom(_, _, _, _, _)

ReadFrom(c, table, limit, index, indirect) ==
  LET at == table + DescSize * index
      address == shared[at]
      d == Unpack(shared[at + 1])
  IN
  IF \/ index >= limit \/ Len(c.segments) >= MaxChain
     \/ ~Resolved(at, DescSize, "READ")
     \/ Has(d.flags, 8)
     \/ \E i \in (IF indirect THEN c.indirect_first ELSE 0) + 1 .. Len(c.segments) :
          c.segments[i].descriptor = index
  THEN Malformed
  ELSE IF Has(d.flags, Indirect_)
  THEN IF \/ indirect \/ Has(d.flags, Next_) \/ address % DescSize # 0
          \/ d.length = 0 \/ d.length % DescSize # 0 \/ d.length \div DescSize > MaxIndirect
          \/ ~PayloadRange(address, d.length, {"READ"})
       THEN Malformed
       ELSE ReadFrom([c EXCEPT !.indirect = address, !.indirect_length = d.length,
                        !.indirect_first = Len(c.segments), !.indirect_descriptor = index],
                     address, d.length \div DescSize, 0, TRUE)
  ELSE LET read == [c EXCEPT !.segments = Append(@,
                      [address |-> address, length |-> d.length, descriptor |-> index,
                       writable |-> Has(d.flags, Write_)])]
       IN IF Has(d.flags, Next_) THEN ReadFrom(read, table, limit, d.next, indirect) ELSE read

ReadChain(head) ==
  LET c == ReadFrom([Free EXCEPT !.head = head], DescTable, QueueSize, head, FALSE)
  IN IF c # Malformed /\ ValidChain(dev, c) THEN c ELSE Malformed

(* copy_data: the accesses that transfer size words of the readable or     *)
(* writable stream of a chain, from an offset on.                          *)
RECURSIVE Parts(_, _, _, _)
Parts(segments, writable, offset, size) ==
  IF segments = <<>> \/ size = 0 THEN <<>>
  ELSE LET s == Head(segments)
           part == Min({s.length - offset, size})
       IN IF s.writable # writable THEN Parts(Tail(segments), writable, offset, size)
          ELSE IF offset >= s.length
          THEN Parts(Tail(segments), writable, offset - s.length, size)
          ELSE <<[address |-> s.address + offset, length |-> part]>>
               \o Parts(Tail(segments), writable, 0, size - part)

(* The addresses a copy touches, in order.                                 *)
Touched(parts) ==
  FlattenSeq([i \in DOMAIN parts |->
                [k \in 1 .. parts[i].length |-> parts[i].address + k - 1]])

CopyOut(c, writable, offset, size) ==
  LET at == Touched(Parts(c.segments, writable, offset, size))
  IN [i \in DOMAIN at |-> shared[at[i]]]

-----------------------------------------------------------------------------
(***************************************************************************)
(* Actions                                                                 *)
(***************************************************************************)

Init ==
  /\ MemoryInit
  /\ shared = [a \in Addresses |-> 0]
  /\ drv = Bound /\ dev = Bound /\ avail = <<>> /\ used = <<>>
  /\ faulted = FALSE /\ published = 0

(* Both endpoints register the memory and bind the queue.                  *)
Register == RegisterMemory /\ UNCHANGED <<shared, drv, dev, avail, used, faulted, published>>

(* The host ends a generation without owned chains, and binds the next.    *)
NewGeneration ==
  /\ RetireMemory /\ Owned(drv) = 0 /\ published > 0
  /\ shared' = [a \in Addresses |-> 0]
  /\ faulted' = FALSE /\ published' = 0
  /\ UNCHANGED <<drv, dev, avail, used>>

(* The caller has filled in the request; kb2_vq_publish.                   *)
Publish(c) ==
  /\ status = "OK" /\ ~faulted /\ published < MaxPublished
  /\ Owned(drv) # MaxOutstanding
  /\ ValidChain(drv, c)
  /\ drv' = Claim(drv, c, "SUBMITTED")
  /\ IF \A i \in DOMAIN DescriptorWrites(c) :
          Resolved(DescriptorWrites(c)[i].at, DescSize, "WRITE")
     THEN /\ shared' = WithDescriptors(WithRequest(shared, c), c)
          /\ avail' = Append(avail, c.head)
          /\ UNCHANGED faulted
     ELSE faulted' = TRUE /\ UNCHANGED <<shared, avail>>
  /\ published' = published + 1
  /\ UNCHANGED <<memory, tables, status, dev, used>>

TakeAvailable ==
  /\ ~faulted /\ avail # <<>>
  /\ LET head == Head(avail)
         c == ReadChain(head)
     IN IF dev.slots[head] # Free \/ dev.descriptor_owner[head] # 0 \/ c = Malformed
        THEN faulted' = TRUE /\ UNCHANGED <<dev, avail>>
        ELSE dev' = Claim(dev, c, "ACCEPTED") /\ avail' = Tail(avail) /\ UNCHANGED faulted
  /\ UNCHANGED <<memory, tables, status, shared, drv, used, published>>

(* kb2_vq_write_response of the next size words.                           *)
WriteResponse(head, size) ==
  LET c == dev.slots[head]
      parts == Parts(c.segments, TRUE, c.written, size)
      at == Touched(parts)
  IN
  /\ ~faulted /\ c.state = "ACCEPTED"
  /\ size <= Total(c, TRUE) - c.written
  /\ IF \A i \in DOMAIN parts : Resolved(parts[i].address, parts[i].length, "WRITE")
     THEN /\ shared' = [a \in Addresses |->
               IF \E i \in DOMAIN at : at[i] = a
               THEN ResponseWord(head, c.written + CHOOSE i \in DOMAIN at : at[i] = a)
               ELSE shared[a]]
          /\ dev' = [dev EXCEPT !.slots[head].written = @ + size]
          /\ UNCHANGED faulted
     ELSE faulted' = TRUE /\ UNCHANGED <<shared, dev>>
  /\ UNCHANGED <<memory, tables, status, drv, avail, used, published>>

Complete(head) ==
  LET c == dev.slots[head] IN
  /\ ~faulted /\ c.state = "ACCEPTED"
  /\ used' = Append(used, [head |-> head, length |-> c.written])
  /\ dev' = Drop(dev, c)
  /\ UNCHANGED <<memory, tables, status, shared, drv, avail, faulted, published>>

TakeUsed ==
  /\ ~faulted /\ used # <<>>
  /\ LET u == Head(used)
         c == drv.slots[u.head]
     IN IF c.state # "SUBMITTED" \/ u.length > Total(c, TRUE)
        THEN faulted' = TRUE /\ UNCHANGED <<drv, used>>
        ELSE /\ drv' = [drv EXCEPT !.slots[u.head].state = "RETURNED",
                                   !.slots[u.head].used_length = u.length]
             /\ used' = Tail(used)
             /\ UNCHANGED faulted
  /\ UNCHANGED <<memory, tables, status, shared, dev, avail, published>>

Release(head) ==
  /\ ~faulted /\ drv.slots[head].state = "RETURNED"
  /\ drv' = Drop(drv, drv.slots[head])
  /\ UNCHANGED <<memory, tables, status, shared, dev, avail, used, faulted, published>>

Next ==
  \/ Register \/ NewGeneration
  \/ \E c \in Candidates : Publish(c)
  \/ TakeAvailable \/ TakeUsed
  \/ \E head \in Heads :
       \/ \E size \in 1 .. AddressMax : WriteResponse(head, size)
       \/ Complete(head) \/ Release(head)

Spec == Init /\ [][Next]_vars

-----------------------------------------------------------------------------
(***************************************************************************)
(* Properties                                                              *)
(***************************************************************************)

(* Every chain kb2_vq_publish accepts, read_chain and validate_chain accept *)
(* at the other end, every access to it resolves, and kb2_vq_take_used      *)
(* accepts its completion: two endpoints that keep to the API never fault.  *)
HonestNeverFaults == ~faulted

(* The device's snapshot of a chain is the chain the driver published:      *)
(* segments, order and indirect table, whatever was in memory before and    *)
(* whatever responses were written meanwhile.                               *)
ReadBack ==
  \A h \in Heads :
    dev.slots[h] # Free =>
      dev.slots[h] = [drv.slots[h] EXCEPT !.state = "ACCEPTED", !.written = dev.slots[h].written]

(* The addresses of the readable words of a chain, one segment after the    *)
(* other.                                                                   *)
RequestStream(c) ==
  Touched(SelectSeq(c.segments, LAMBDA s : ~s.writable))

(* kb2_vq_copy_request gives, at any offset and for any size, the part of   *)
(* the request the driver wrote there, across segment boundaries and        *)
(* however many responses to other chains were written since.               *)
RequestIntact ==
  \A h \in Heads :
    dev.slots[h].state = "ACCEPTED" =>
      LET c == dev.slots[h]
          stream == RequestStream(drv.slots[h])
      IN \A offset \in 0 .. Total(c, FALSE) : \A size \in 0 .. Total(c, FALSE) - offset :
           CopyOut(c, FALSE, offset, size)
             = [i \in 1 .. size |-> RequestWord(stream[offset + i])]

(* kb2_vq_copy_response gives, at any offset, the words the device wrote    *)
(* with any number of kb2_vq_write_response calls, in their order.          *)
ResponseIntact ==
  \A h \in Heads :
    drv.slots[h].state = "RETURNED" =>
      LET c == drv.slots[h] IN
      \A offset \in 0 .. c.used_length : \A size \in 0 .. c.used_length - offset :
        CopyOut(c, TRUE, offset, size) = [i \in 1 .. size |-> ResponseWord(h, offset + i)]

(* The three together: chains, requests and responses cross the shared      *)
(* memory unchanged in both directions while other chains are in flight.    *)
ChainsIntact == ReadBack /\ RequestIntact /\ ResponseIntact
=============================================================================
