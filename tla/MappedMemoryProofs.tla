-------------------------- MODULE MappedMemoryProofs --------------------------
(***************************************************************************)
(* Proofs about the mapped-memory backend, for every size of the address   *)
(* space, every set of lanes and all tables.                               *)
(***************************************************************************)
EXTENDS MappedMemory, TLAPS

(* A sum that stays in the address space is not changed by the wrap.       *)
LEMMA WrapIdentity ==
  ASSUME NEW n \in 0 .. AddressMax
  PROVE  Wrap(n) = n
  BY MappedMemoryAssumption DEF Wrap

(* For nonempty ranges that end inside the address space, overlaps() is    *)
(* having an address in common.                                            *)
LEMMA OverlapsExact ==
  ASSUME NEW a \in Nat, NEW m \in Nat \ {0}, a + m <= AddressMax,
         NEW b \in Nat, NEW n \in Nat \ {0}, b + n <= AddressMax
  PROVE  Overlaps(a, m, b, n) <=> Cells(a, m) \cap Cells(b, n) # {}
<1>1. AddressMax \in Nat
  BY MappedMemoryAssumption
<1>2. Overlaps(a, m, b, n) <=> a < b + n /\ b < a + m
  BY <1>1, WrapIdentity DEF Overlaps
<1>3. ASSUME a < b + n, b < a + m
      PROVE  \E x \in Cells(a, m) : x \in Cells(b, n)
  <2>1. CASE a <= b
    BY <2>1, <1>3 DEF Cells
  <2>2. CASE b < a
    BY <2>2, <1>3 DEF Cells
  <2>q. QED  BY <2>1, <2>2
<1>4. ASSUME NEW x \in Cells(a, m), x \in Cells(b, n)
      PROVE  a < b + n /\ b < a + m
  BY <1>4 DEF Cells
<1>q. QED  BY <1>2, <1>3, <1>4

(* A nonempty range that does not wrap.                                    *)
InSpace(base, length) == base \in Nat /\ length \in Nat \ {0} /\ base + length <= AddressMax

(* The end of such a range is computed without wrapping.                   *)
LEMMA EndExact ==
  ASSUME NEW base, NEW length, InSpace(base, length)
  PROVE  Wrap(base + length) = base + length
<1>1. base + length \in 0 .. AddressMax
  BY MappedMemoryAssumption DEF InSpace
<1>q. QED  BY <1>1, WrapIdentity

LEMMA CellsInside ==
  ASSUME NEW a, NEW m, InSpace(a, m), NEW b, NEW n, InSpace(b, n),
         a >= b, a + m <= b + n
  PROVE  Cells(a, m) \subseteq Cells(b, n)
  BY DEF InSpace, Cells

LEMMA CellsBounded ==
  ASSUME NEW base, NEW length, InSpace(base, length)
  PROVE  /\ Cells(base, length) \subseteq 0 .. AddressMax - 1
         /\ base # 0 => Cells(base, length) \subseteq 1 .. AddressMax - 1
  BY MappedMemoryAssumption DEF InSpace, Cells

(* The checks kb2_vq_mapped_memory_init makes of one mapping, written so   *)
(* that they cannot overflow, keep its ranges in the address space.        *)
LEMMA MappingInSpace ==
  ASSUME NEW m \in Mappings, ValidMapping(m)
  PROVE  /\ InSpace(m.transport_base, m.length) /\ InSpace(m.address, m.length)
         /\ m.address # 0
<1>1. AddressMax \in Nat
  BY MappedMemoryAssumption
<1>2. /\ m.transport_base \in 0 .. AddressMax /\ m.length \in 0 .. AddressMax
      /\ m.address \in 0 .. AddressMax
  BY DEF Mappings, Addresses
<1>q. QED  BY <1>1, <1>2 DEF ValidMapping, InSpace

(* The same of one arena.                                                  *)
LEMMA ArenaInSpace ==
  ASSUME NEW a \in Arenas, ValidArena(a)
  PROVE  InSpace(a.transport_base, a.length)
<1>1. AddressMax \in Nat
  BY MappedMemoryAssumption
<1>2. a.transport_base \in 0 .. AddressMax /\ a.length \in 0 .. AddressMax
  BY DEF Arenas, Addresses
<1>q. QED  BY <1>1, <1>2 DEF ValidArena, InSpace

(* What kb2_vq_mapped_memory_init guarantees of the tables it accepts.     *)
LEMMA TablesSound ==
  ASSUME NEW t \in Tables, ValidTables(t.mappings, t.arenas)
  PROVE  /\ \A i \in DOMAIN t.mappings :
              /\ InSpace(t.mappings[i].transport_base, t.mappings[i].length)
              /\ InSpace(t.mappings[i].address, t.mappings[i].length)
              /\ t.mappings[i].address # 0
         /\ \A i \in DOMAIN t.arenas :
              InSpace(t.arenas[i].transport_base, t.arenas[i].length)
         /\ Disjoint(t.mappings, Transport) /\ Disjoint(t.mappings, Native)
         /\ Disjoint(t.arenas, Transport)
         /\ \A i \in DOMAIN t.arenas : \E j \in DOMAIN t.mappings :
              Transport(t.arenas[i]) \subseteq Transport(t.mappings[j])
<1> USE MappedMemoryAssumption
<1>0. AddressMax \in Nat /\ t.mappings \in Seq(Mappings) /\ t.arenas \in Seq(Arenas)
  OBVIOUS
<1>1. ASSUME NEW i \in DOMAIN t.mappings
      PROVE  /\ InSpace(t.mappings[i].transport_base, t.mappings[i].length)
             /\ InSpace(t.mappings[i].address, t.mappings[i].length)
             /\ t.mappings[i].address # 0
  <2>1. t.mappings[i] \in Mappings
    BY <1>0, <1>1
  <2>2. ValidMapping(t.mappings[i])
    BY <1>1 DEF ValidTables
  <2>q. QED  BY <2>1, <2>2, MappingInSpace
<1>2. ASSUME NEW i \in DOMAIN t.arenas
      PROVE  InSpace(t.arenas[i].transport_base, t.arenas[i].length)
  <2>1. t.arenas[i] \in Arenas
    BY <1>0, <1>2
  <2>2. ValidArena(t.arenas[i])
    BY <1>2 DEF ValidTables
  <2>q. QED  BY <2>1, <2>2, ArenaInSpace
<1>3. ASSUME NEW i \in DOMAIN t.mappings, NEW j \in DOMAIN t.mappings, j < i
      PROVE  /\ Transport(t.mappings[i]) \cap Transport(t.mappings[j]) = {}
             /\ Native(t.mappings[i]) \cap Native(t.mappings[j]) = {}
  <2>1. j \in 1 .. i - 1
    BY <1>0, <1>3
  <2>2. ~MappingsOverlap(t.mappings[i], t.mappings[j])
    BY <2>1, <1>3 DEF ValidTables
  <2>3. ~Overlaps(t.mappings[i].transport_base, t.mappings[i].length,
                  t.mappings[j].transport_base, t.mappings[j].length)
    BY <2>2 DEF MappingsOverlap
  <2>4. ~Overlaps(t.mappings[i].address, t.mappings[i].length,
                  t.mappings[j].address, t.mappings[j].length)
    BY <2>2 DEF MappingsOverlap
  <2>5. Transport(t.mappings[i]) \cap Transport(t.mappings[j]) = {}
    BY <2>3, <1>1, <1>3, OverlapsExact DEF Transport, InSpace
  <2>6. Native(t.mappings[i]) \cap Native(t.mappings[j]) = {}
    BY <2>4, <1>1, <1>3, OverlapsExact DEF Native, InSpace
  <2>q. QED  BY <2>5, <2>6
<1>4. ASSUME NEW i \in DOMAIN t.arenas, NEW j \in DOMAIN t.arenas, j < i
      PROVE  Transport(t.arenas[i]) \cap Transport(t.arenas[j]) = {}
  <2>1. j \in 1 .. i - 1
    BY <1>0, <1>4
  <2>2. ~Overlaps(t.arenas[i].transport_base, t.arenas[i].length,
                  t.arenas[j].transport_base, t.arenas[j].length)
    BY <2>1, <1>4 DEF ValidTables, ArenasOverlap
  <2>q. QED  BY <2>2, <1>2, <1>4, OverlapsExact DEF Transport, InSpace
<1>5. ASSUME NEW i \in DOMAIN t.arenas
      PROVE  \E j \in DOMAIN t.mappings :
               Transport(t.arenas[i]) \subseteq Transport(t.mappings[j])
  <2>1. PICK j \in DOMAIN t.mappings : Registered(t.arenas[i], t.mappings[j])
    BY <1>5 DEF ValidTables
  <2>2. /\ InSpace(t.arenas[i].transport_base, t.arenas[i].length)
        /\ InSpace(t.mappings[j].transport_base, t.mappings[j].length)
    BY <1>1, <1>2, <1>5
  <2>3. /\ t.arenas[i].transport_base >= t.mappings[j].transport_base
        /\ t.arenas[i].transport_base + t.arenas[i].length
             <= t.mappings[j].transport_base + t.mappings[j].length
    BY <2>1, <2>2, EndExact DEF Registered
  <2>4. Transport(t.arenas[i]) \subseteq Transport(t.mappings[j])
    BY <2>2, <2>3, CellsInside DEF Transport
  <2>q. QED  BY <2>4
<1>6. DOMAIN t.mappings \subseteq Nat /\ DOMAIN t.arenas \subseteq Nat
  BY <1>0
<1>7. Disjoint(t.mappings, Transport) /\ Disjoint(t.mappings, Native)
  <2>1. ASSUME NEW i \in DOMAIN t.mappings, NEW j \in DOMAIN t.mappings, i # j
        PROVE  /\ Transport(t.mappings[i]) \cap Transport(t.mappings[j]) = {}
               /\ Native(t.mappings[i]) \cap Native(t.mappings[j]) = {}
    <3>1. i < j \/ j < i
      BY <2>1, <1>6
    <3>q. QED  BY <3>1, <1>3
  <2>q. QED  BY <2>1 DEF Disjoint
<1>8. Disjoint(t.arenas, Transport)
  <2>1. ASSUME NEW i \in DOMAIN t.arenas, NEW j \in DOMAIN t.arenas, i # j
        PROVE  Transport(t.arenas[i]) \cap Transport(t.arenas[j]) = {}
    <3>1. i < j \/ j < i
      BY <2>1, <1>6
    <3>q. QED  BY <3>1, <1>4
  <2>q. QED  BY <2>1 DEF Disjoint
<1>q. QED  BY <1>1, <1>2, <1>5, <1>7, <1>8

-----------------------------------------------------------------------------
(***************************************************************************)
(* The inductive invariant: what is registered passed the checks           *)
(***************************************************************************)

MemoryInv ==
  /\ tables \in Tables
  /\ status \in {"NONE", "OK", "INVALID"}
  /\ status # "NONE" => ((status = "OK") <=> ValidTables(tables.mappings, tables.arenas))
  /\ memory = IF status = "OK" THEN tables ELSE Unregistered

LEMMA MemoryInvariant == MemorySpec => []MemoryInv
<1>1. MemoryInit => MemoryInv
  BY DEF MemoryInit, MemoryInv
<1>2. MemoryInv /\ [MemoryNext]_memoryVars => MemoryInv'
  <2> SUFFICES ASSUME MemoryInv, [MemoryNext]_memoryVars PROVE MemoryInv'
    OBVIOUS
  <2>1. CASE RegisterMemory
    BY <2>1 DEF RegisterMemory, MemoryInv
  <2>2. CASE RetireMemory
    BY <2>2 DEF RetireMemory, MemoryInv
  <2>3. CASE UNCHANGED memoryVars
    BY <2>3 DEF memoryVars, MemoryInv
  <2>q. QED  BY <2>1, <2>2, <2>3 DEF MemoryNext
<1>q. QED  BY <1>1, <1>2, PTL DEF MemorySpec

(* A payload an arena authorizes lies inside the arena.                    *)
LEMMA AuthorizedInside ==
  ASSUME NEW mem, NEW lane, NEW a \in Addresses, NEW n \in Addresses, NEW r,
         PayloadAllowed(mem, lane, a, n, r),
         \A i \in DOMAIN mem.arenas :
           InSpace(mem.arenas[i].transport_base, mem.arenas[i].length)
  PROVE  \E i \in DOMAIN mem.arenas :
           /\ mem.arenas[i].queue_id = lane
           /\ Cells(a, n) \subseteq Transport(mem.arenas[i])
<1>1. PICK i \in DOMAIN mem.arenas : Authorizes(mem.arenas[i], lane, a, n, r)
  BY DEF PayloadAllowed
<1>2. InSpace(a, n)
  BY MappedMemoryAssumption DEF PayloadAllowed, InSpace, Addresses
<1>3. InSpace(mem.arenas[i].transport_base, mem.arenas[i].length)
  OBVIOUS
<1>4. /\ mem.arenas[i].queue_id = lane
      /\ a >= mem.arenas[i].transport_base
      /\ a + n <= mem.arenas[i].transport_base + mem.arenas[i].length
  BY <1>1, <1>2, <1>3, EndExact DEF Authorizes
<1>5. Cells(a, n) \subseteq Transport(mem.arenas[i])
  BY <1>2, <1>3, <1>4, CellsInside DEF Transport
<1>q. QED  BY <1>4, <1>5

(* LaneIsolation holds for all tables: what payload_allowed grants to one   *)
(* lane lies in one mapping and is granted to no other lane, because the    *)
(* arenas kb2_vq_mapped_memory_init accepts are disjoint.                   *)
THEOREM LanesIsolated == MemorySpec => []LaneIsolation
<1>1. MemoryInv => LaneIsolation
  <2> SUFFICES ASSUME MemoryInv, NEW p \in Lanes, NEW a \in Addresses, NEW n \in Addresses,
                      NEW r \in SUBSET Rights, PayloadAllowed(memory, p, a, n, r)
               PROVE  /\ \E i \in DOMAIN memory.mappings :
                           Cells(a, n) \subseteq Transport(memory.mappings[i])
                      /\ \A q \in Lanes \ {p}, b, k \in Addresses, s \in SUBSET Rights :
                           PayloadAllowed(memory, q, b, k, s) => Cells(a, n) \cap Cells(b, k) = {}
    BY DEF LaneIsolation
  <2>1. memory = tables /\ tables \in Tables /\ ValidTables(memory.mappings, memory.arenas)
    <3>1. DOMAIN memory.arenas # {}
      BY DEF PayloadAllowed
    <3>2. status = "OK"
      BY <3>1 DEF MemoryInv, Unregistered
    <3>q. QED  BY <3>2 DEF MemoryInv
  <2>2. /\ \A i \in DOMAIN memory.arenas :
              InSpace(memory.arenas[i].transport_base, memory.arenas[i].length)
        /\ Disjoint(memory.arenas, Transport)
        /\ \A i \in DOMAIN memory.arenas : \E j \in DOMAIN memory.mappings :
              Transport(memory.arenas[i]) \subseteq Transport(memory.mappings[j])
    BY <2>1, TablesSound
  <2>3. PICK i \in DOMAIN memory.arenas :
          memory.arenas[i].queue_id = p /\ Cells(a, n) \subseteq Transport(memory.arenas[i])
    BY <2>2, AuthorizedInside
  <2>4. ASSUME NEW q \in Lanes \ {p}, NEW b \in Addresses, NEW k \in Addresses,
               NEW s \in SUBSET Rights, PayloadAllowed(memory, q, b, k, s)
        PROVE  Cells(a, n) \cap Cells(b, k) = {}
    <3>1. PICK j \in DOMAIN memory.arenas :
            memory.arenas[j].queue_id = q /\ Cells(b, k) \subseteq Transport(memory.arenas[j])
      BY <2>2, <2>4, AuthorizedInside
    <3>2. i # j
      BY <2>3, <3>1
    <3>3. Transport(memory.arenas[i]) \cap Transport(memory.arenas[j]) = {}
      BY <2>2, <3>2 DEF Disjoint
    <3>q. QED  BY <2>3, <3>1, <3>3
  <2>q. QED  BY <2>2, <2>3, <2>4
<1>q. QED  BY <1>1, MemoryInvariant, PTL

(* The mapping resolve uses for one address, and what it makes of it.      *)
LEMMA ResolvedByHolder ==
  ASSUME NEW t \in Tables, ValidTables(t.mappings, t.arenas),
         NEW a \in Addresses, NEW r, Resolve(t, a, 1, r) # 0
  PROVE  \E i \in DOMAIN t.mappings :
           /\ a \in Transport(t.mappings[i])
           /\ Resolve(t, a, 1, r) \in Native(t.mappings[i])
           /\ Resolve(t, a, 1, r) - t.mappings[i].address = a - t.mappings[i].transport_base
<1> DEFINE holders == {i \in DOMAIN t.mappings : Holds(t.mappings[i], a, 1, r)}
<1>1. holders # {}
  BY DEF Resolve
<1>2. PICK i \in DOMAIN t.mappings : Holds(t.mappings[i], a, 1, r)
  BY <1>1
<1>3. \A j \in DOMAIN t.mappings :
        /\ InSpace(t.mappings[j].transport_base, t.mappings[j].length)
        /\ InSpace(t.mappings[j].address, t.mappings[j].length)
  BY TablesSound
<1>4. \A j \in holders : a \in Transport(t.mappings[j])
  BY <1>3 DEF Holds, Transport, Cells, InSpace, Addresses
<1>5. holders = {i}
  <2>1. Disjoint(t.mappings, Transport)
    BY TablesSound
  <2>q. QED  BY <1>2, <1>4, <2>1 DEF Disjoint
<1>6. Min(holders) = i
  <2>1. i \in Nat
    BY MappedMemoryAssumption
  <2>q. QED  BY <2>1, <1>5 DEF Min
<1>7. Resolve(t, a, 1, r) = t.mappings[i].address + (a - t.mappings[i].transport_base)
  BY <1>1, <1>6 DEF Resolve
<1>8. a \in Transport(t.mappings[i])
  BY <1>4, <1>5
<1>9. /\ Resolve(t, a, 1, r) \in Native(t.mappings[i])
      /\ Resolve(t, a, 1, r) - t.mappings[i].address = a - t.mappings[i].transport_base
  BY <1>3, <1>7, <1>8 DEF Native, Transport, Cells, InSpace
<1>q. QED  BY <1>8, <1>9

(* ResolveInjective holds for all tables: resolve maps two transport        *)
(* addresses to two native addresses, because the mappings are disjoint in  *)
(* both spaces.                                                             *)
THEOREM ResolutionInjective == MemorySpec => []ResolveInjective
<1>1. MemoryInv => ResolveInjective
  <2> SUFFICES ASSUME MemoryInv, NEW a \in Addresses, NEW r \in SUBSET Rights,
                      Resolve(memory, a, 1, r) # 0,
                      NEW b \in Addresses, NEW s \in SUBSET Rights,
                      Resolve(memory, a, 1, r) = Resolve(memory, b, 1, s)
               PROVE  a = b
    BY DEF ResolveInjective
  <2>1. memory = tables /\ tables \in Tables /\ ValidTables(memory.mappings, memory.arenas)
    <3>1. DOMAIN memory.mappings # {}
      BY DEF Resolve
    <3>2. status = "OK"
      BY <3>1 DEF MemoryInv, Unregistered
    <3>q. QED  BY <3>2 DEF MemoryInv
  <2> DEFINE x == Resolve(memory, a, 1, r)
  <2>2. PICK i \in DOMAIN memory.mappings :
          /\ x \in Native(memory.mappings[i])
          /\ x - memory.mappings[i].address = a - memory.mappings[i].transport_base
    BY <2>1, ResolvedByHolder
  <2>3. PICK j \in DOMAIN memory.mappings :
          /\ x \in Native(memory.mappings[j])
          /\ x - memory.mappings[j].address = b - memory.mappings[j].transport_base
    BY <2>1, ResolvedByHolder
  <2>4. i = j
    BY <2>1, <2>2, <2>3, TablesSound DEF Disjoint
  <2>5. a - memory.mappings[i].transport_base = b - memory.mappings[i].transport_base
    BY <2>2, <2>3, <2>4
  <2>6. memory.mappings[i].transport_base \in Nat
    BY <2>1, TablesSound DEF InSpace
  <2>q. QED  BY <2>5, <2>6 DEF Addresses
<1>q. QED  BY <1>1, MemoryInvariant, PTL

(* A nonempty range whose addresses are all below AddressMax does not wrap. *)
LEMMA CellsInSpace ==
  ASSUME NEW base \in Nat, NEW length \in Nat, Cells(base, length) # {},
         Cells(base, length) \subseteq 0 .. AddressMax - 1
  PROVE  InSpace(base, length)
<1>1. length # 0
  BY DEF Cells
<1>2. base + length - 1 \in Cells(base, length)
  BY <1>1 DEF Cells
<1>3. base + length - 1 <= AddressMax - 1
  BY <1>2, MappedMemoryAssumption
<1>q. QED  BY <1>1, <1>3, MappedMemoryAssumption DEF InSpace

(* Registered() is containment, for ranges that do not wrap.               *)
LEMMA InsideRegistered ==
  ASSUME NEW a, NEW m, InSpace(a.transport_base, a.length), InSpace(m.transport_base, m.length),
         Transport(a) \subseteq Transport(m)
  PROVE  Registered(a, m)
<1>1. /\ a.transport_base \in Transport(a)
      /\ a.transport_base + a.length - 1 \in Transport(a)
  BY DEF Transport, Cells, InSpace
<1>2. /\ a.transport_base \in Cells(m.transport_base, m.length)
      /\ a.transport_base + a.length - 1 \in Cells(m.transport_base, m.length)
  BY <1>1 DEF Transport
<1>3. /\ a.transport_base >= m.transport_base
      /\ a.transport_base + a.length <= m.transport_base + m.length
  BY <1>2 DEF Cells, InSpace
<1>q. QED  BY <1>3, EndExact DEF Registered

(* The reference definition of RegistrationExact.                          *)
Proper(t) ==
  /\ t.mappings # <<>> /\ t.arenas # <<>>
  /\ Disjoint(t.mappings, Transport) /\ Disjoint(t.mappings, Native)
  /\ Disjoint(t.arenas, Transport)
  /\ \A i \in DOMAIN t.mappings :
       LET m == t.mappings[i] IN
       /\ ValidRights(m.local_rights) /\ Transport(m) # {}
       /\ Transport(m) \subseteq 0 .. AddressMax - 1
       /\ Native(m) \subseteq 1 .. AddressMax - 1
  /\ \A i \in DOMAIN t.arenas :
       LET a == t.arenas[i] IN
       /\ ValidRights(a.rights) /\ Transport(a) # {} /\ a.queue_id # 0
       /\ \E j \in DOMAIN t.mappings : Transport(a) \subseteq Transport(t.mappings[j])

LEMMA AcceptedProper ==
  ASSUME NEW t \in Tables, ValidTables(t.mappings, t.arenas)
  PROVE  Proper(t)
<1>1. ASSUME NEW i \in DOMAIN t.mappings
      PROVE  LET m == t.mappings[i] IN
             /\ ValidRights(m.local_rights) /\ Transport(m) # {}
             /\ Transport(m) \subseteq 0 .. AddressMax - 1
             /\ Native(m) \subseteq 1 .. AddressMax - 1
  <2>1. ValidRights(t.mappings[i].local_rights)
    BY <1>1 DEF ValidTables, ValidMapping
  <2>2. /\ InSpace(t.mappings[i].transport_base, t.mappings[i].length)
        /\ InSpace(t.mappings[i].address, t.mappings[i].length)
        /\ t.mappings[i].address # 0
    BY <1>1, TablesSound
  <2>3. t.mappings[i].transport_base \in Transport(t.mappings[i])
    BY <2>2 DEF InSpace, Transport, Cells
  <2>4. /\ Transport(t.mappings[i]) \subseteq 0 .. AddressMax - 1
        /\ Native(t.mappings[i]) \subseteq 1 .. AddressMax - 1
    BY <2>2, CellsBounded DEF Transport, Native
  <2>q. QED  BY <2>1, <2>3, <2>4
<1>2. ASSUME NEW i \in DOMAIN t.arenas
      PROVE  LET a == t.arenas[i] IN
             /\ ValidRights(a.rights) /\ Transport(a) # {} /\ a.queue_id # 0
             /\ \E j \in DOMAIN t.mappings : Transport(a) \subseteq Transport(t.mappings[j])
  <2>1. ValidRights(t.arenas[i].rights) /\ t.arenas[i].queue_id # 0
    BY <1>2 DEF ValidTables, ValidArena
  <2>2. InSpace(t.arenas[i].transport_base, t.arenas[i].length)
    BY <1>2, TablesSound
  <2>3. t.arenas[i].transport_base \in Transport(t.arenas[i])
    BY <2>2 DEF InSpace, Transport, Cells
  <2>4. \E j \in DOMAIN t.mappings : Transport(t.arenas[i]) \subseteq Transport(t.mappings[j])
    BY <1>2, TablesSound
  <2>q. QED  BY <2>1, <2>3, <2>4
<1>3. t.mappings # <<>> /\ t.arenas # <<>>
  BY DEF ValidTables
<1>4. /\ Disjoint(t.mappings, Transport) /\ Disjoint(t.mappings, Native)
      /\ Disjoint(t.arenas, Transport)
  BY TablesSound
<1>q. QED  BY <1>1, <1>2, <1>3, <1>4 DEF Proper

LEMMA ProperAccepted ==
  ASSUME NEW t \in Tables, Proper(t)
  PROVE  ValidTables(t.mappings, t.arenas)
<1>a. AddressMax \in Nat
  BY MappedMemoryAssumption
<1>0. t.mappings \in Seq(Mappings) /\ t.arenas \in Seq(Arenas)
  BY MappedMemoryAssumption
<1> USE <1>a
<1>1. ASSUME NEW i \in DOMAIN t.mappings
      PROVE  /\ InSpace(t.mappings[i].transport_base, t.mappings[i].length)
             /\ InSpace(t.mappings[i].address, t.mappings[i].length)
             /\ ValidMapping(t.mappings[i])
  <2>1. t.mappings[i] \in Mappings
    BY <1>0, <1>1
  <2>2. /\ t.mappings[i].transport_base \in Nat /\ t.mappings[i].length \in Nat
        /\ t.mappings[i].address \in Nat
    BY <2>1 DEF Mappings, Addresses
  <2>3. /\ ValidRights(t.mappings[i].local_rights) /\ Transport(t.mappings[i]) # {}
        /\ Transport(t.mappings[i]) \subseteq 0 .. AddressMax - 1
        /\ Native(t.mappings[i]) \subseteq 1 .. AddressMax - 1
    BY <1>1 DEF Proper
  <2>4. InSpace(t.mappings[i].transport_base, t.mappings[i].length)
    BY <2>2, <2>3, CellsInSpace DEF Transport
  <2>5. t.mappings[i].address \in Native(t.mappings[i])
    BY <2>2, <2>4 DEF Native, Cells, InSpace
  <2>6. Native(t.mappings[i]) # {} /\ Native(t.mappings[i]) \subseteq 0 .. AddressMax - 1
    BY <2>3, <2>5
  <2>7. InSpace(t.mappings[i].address, t.mappings[i].length)
    BY <2>2, <2>6, CellsInSpace DEF Native
  <2>8. t.mappings[i].address # 0
    BY <2>3, <2>5
  <2>9. /\ t.mappings[i].length # 0
        /\ t.mappings[i].transport_base <= AddressMax - t.mappings[i].length
        /\ t.mappings[i].address <= AddressMax - t.mappings[i].length
    BY <2>4, <2>7 DEF InSpace
  <2>q. QED  BY <2>3, <2>4, <2>7, <2>8, <2>9 DEF ValidMapping
<1>2. ASSUME NEW i \in DOMAIN t.arenas
      PROVE  /\ InSpace(t.arenas[i].transport_base, t.arenas[i].length)
             /\ ValidArena(t.arenas[i])
             /\ \E j \in DOMAIN t.mappings : Registered(t.arenas[i], t.mappings[j])
  <2>1. t.arenas[i] \in Arenas
    BY <1>0, <1>2
  <2>2. t.arenas[i].transport_base \in Nat /\ t.arenas[i].length \in Nat
    BY <2>1 DEF Arenas, Addresses
  <2>3. /\ ValidRights(t.arenas[i].rights) /\ Transport(t.arenas[i]) # {}
        /\ t.arenas[i].queue_id # 0
    BY <1>2 DEF Proper
  <2>4. PICK j \in DOMAIN t.mappings : Transport(t.arenas[i]) \subseteq Transport(t.mappings[j])
    BY <1>2 DEF Proper
  <2>5. Transport(t.mappings[j]) \subseteq 0 .. AddressMax - 1
    BY DEF Proper
  <2>6. InSpace(t.arenas[i].transport_base, t.arenas[i].length)
    BY <2>2, <2>3, <2>4, <2>5, CellsInSpace DEF Transport
  <2>7. Registered(t.arenas[i], t.mappings[j])
    BY <2>4, <2>6, <1>1, InsideRegistered
  <2>8. ValidArena(t.arenas[i])
    BY <2>2, <2>3, <2>6 DEF ValidArena, InSpace
  <2>q. QED  BY <2>6, <2>7, <2>8
<1>3. ASSUME NEW i \in DOMAIN t.mappings, NEW j \in 1 .. i - 1
      PROVE  ~MappingsOverlap(t.mappings[i], t.mappings[j])
  <2>1. j \in DOMAIN t.mappings /\ i # j
    BY <1>0, <1>3
  <2>2. /\ Transport(t.mappings[i]) \cap Transport(t.mappings[j]) = {}
        /\ Native(t.mappings[i]) \cap Native(t.mappings[j]) = {}
    BY <1>3, <2>1 DEF Proper, Disjoint
  <2>3. /\ InSpace(t.mappings[j].transport_base, t.mappings[j].length)
        /\ InSpace(t.mappings[j].address, t.mappings[j].length)
    BY <2>1, <1>1
  <2>4. ~Overlaps(t.mappings[i].transport_base, t.mappings[i].length,
                  t.mappings[j].transport_base, t.mappings[j].length)
    BY <2>2, <2>3, <1>1, <1>3, OverlapsExact DEF Transport, InSpace
  <2>5. ~Overlaps(t.mappings[i].address, t.mappings[i].length,
                  t.mappings[j].address, t.mappings[j].length)
    BY <2>2, <2>3, <1>1, <1>3, OverlapsExact DEF Native, InSpace
  <2>q. QED  BY <2>4, <2>5 DEF MappingsOverlap
<1>4. ASSUME NEW i \in DOMAIN t.arenas, NEW j \in 1 .. i - 1
      PROVE  ~ArenasOverlap(t.arenas[i], t.arenas[j])
  <2>1. j \in DOMAIN t.arenas /\ i # j
    BY <1>0, <1>4
  <2>2. Transport(t.arenas[i]) \cap Transport(t.arenas[j]) = {}
    BY <1>4, <2>1 DEF Proper, Disjoint
  <2>3. InSpace(t.arenas[j].transport_base, t.arenas[j].length)
    BY <2>1, <1>2
  <2>q. QED  BY <2>2, <2>3, <1>2, <1>4, OverlapsExact DEF Transport, InSpace, ArenasOverlap
<1>5. t.mappings # <<>> /\ t.arenas # <<>>
  BY DEF Proper
<1>q. QED  BY <1>1, <1>2, <1>3, <1>4, <1>5 DEF ValidTables

(* RegistrationExact holds for all tables: the wrapping comparisons of      *)
(* kb2_vq_mapped_memory_init accept exactly the proper tables.              *)
THEOREM RegistrationCorrect == MemorySpec => []RegistrationExact
<1>1. MemoryInv => RegistrationExact
  <2> SUFFICES ASSUME MemoryInv, status # "NONE"
               PROVE  (status = "OK") <=> Proper(tables)
    BY DEF RegistrationExact, Proper
  <2>1. tables \in Tables /\ ((status = "OK") <=> ValidTables(tables.mappings, tables.arenas))
    BY DEF MemoryInv
  <2>q. QED  BY <2>1, AcceptedProper, ProperAccepted
<1>q. QED  BY <1>1, MemoryInvariant, PTL
=============================================================================
