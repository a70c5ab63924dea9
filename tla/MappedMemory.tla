----------------------------- MODULE MappedMemory -----------------------------
(***************************************************************************)
(* The mapped-memory backend of the virtqueue engine                       *)
(* (protocol/src/virtqueue_memory.c): the OS backend registers the local   *)
(* mappings of transport addresses and the arenas of the lanes once; every *)
(* access of the engine is resolved, and every payload authorized, against *)
(* these two tables.                                                       *)
(*                                                                         *)
(* Transport and native addresses are counted modulo AddressMax + 1, 2^64  *)
(* in the code, and every sum in the code wraps there.                     *)
(***************************************************************************)
EXTENDS Integers, Sequences, FiniteSetsExt

CONSTANTS
  AddressMax,   \* UINT64_MAX and UINTPTR_MAX
  Lanes,        \* queue ids, 0 is not a queue
  Tables        \* the [mappings, arenas] a backend may register

Addresses == 0 .. AddressMax
Rights == {"READ", "WRITE", "OTHER"}

(* kb2_vq_mapping_t and kb2_vq_arena_t.                                    *)
Mappings ==
  [transport_base : Addresses, length : Addresses, address : Addresses,
   local_rights : SUBSET Rights]
Arenas ==
  [queue_id : Lanes \cup {0}, rights : SUBSET Rights,
   transport_base : Addresses, length : Addresses]

ASSUME MappedMemoryAssumption ==
  /\ AddressMax \in Nat
  /\ Lanes \subseteq Nat \ {0}
  /\ \A t \in Tables : t.mappings \in Seq(Mappings) /\ t.arenas \in Seq(Arenas)

VARIABLES
  memory,  \* the registered kb2_vq_mapped_memory_t, or Unregistered
  tables,  \* what the backend registers
  status   \* of the registration, "NONE" before it

memoryVars == <<memory, tables, status>>

Unregistered == [mappings |-> <<>>, arenas |-> <<>>]

-----------------------------------------------------------------------------

Wrap(n) == n % (AddressMax + 1)

ValidRights(rights) == rights # {} /\ rights \subseteq {"READ", "WRITE"}

Overlaps(a, sizeA, b, sizeB) == a < Wrap(b + sizeB) /\ b < Wrap(a + sizeA)

(* Mutant: a range that ends beyond the last address is taken.             *)
ValidMappingWraps(m) ==
  m.address # 0 /\ m.length # 0 /\ ValidRights(m.local_rights)

ValidMapping(m) ==
  /\ m.address # 0 /\ m.length # 0
  /\ m.transport_base <= AddressMax - m.length
  /\ m.address <= AddressMax - m.length
  /\ ValidRights(m.local_rights)

MappingsOverlap(m, n) ==
  \/ Overlaps(m.transport_base, m.length, n.transport_base, n.length)
  \/ Overlaps(m.address, m.length, n.address, n.length)

ValidArena(a) ==
  /\ a.queue_id # 0 /\ a.length # 0
  /\ a.transport_base <= AddressMax - a.length
  /\ ValidRights(a.rights)

Registered(a, m) ==
  /\ a.transport_base >= m.transport_base
  /\ Wrap(a.transport_base + a.length) <= Wrap(m.transport_base + m.length)

ArenasOverlap(a, b) ==
  Overlaps(a.transport_base, a.length, b.transport_base, b.length)

(* The checks of kb2_vq_mapped_memory_init on its two tables.              *)
ValidTables(mappings, arenas) ==
  /\ mappings # <<>> /\ arenas # <<>>
  /\ \A i \in DOMAIN mappings :
       /\ ValidMapping(mappings[i])
       /\ \A j \in 1 .. i - 1 : ~MappingsOverlap(mappings[i], mappings[j])
  /\ \A i \in DOMAIN arenas :
       /\ ValidArena(arenas[i])
       /\ \E j \in DOMAIN mappings : Registered(arenas[i], mappings[j])
       /\ \A j \in 1 .. i - 1 : ~ArenasOverlap(arenas[i], arenas[j])

(* resolve: the native address of a range, 0 (NULL) when no mapping with   *)
(* the rights holds all of it.                                             *)
Holds(m, address, size, rights) ==
  /\ address >= m.transport_base /\ rights \subseteq m.local_rights
  /\ address - m.transport_base <= m.length
  /\ size <= m.length - (address - m.transport_base)

Resolve(mem, address, size, rights) ==
  LET holders == {i \in DOMAIN mem.mappings : Holds(mem.mappings[i], address, size, rights)}
      first == mem.mappings[Min(holders)]
  IN IF holders = {} THEN 0 ELSE first.address + (address - first.transport_base)

(* payload_allowed: one arena of the lane with the rights holds the range. *)
Authorizes(a, lane, address, size, rights) ==
  /\ a.queue_id = lane /\ rights \subseteq a.rights
  /\ address >= a.transport_base
  /\ Wrap(address + size) <= Wrap(a.transport_base + a.length)

PayloadAllowed(mem, lane, address, size, rights) ==
  /\ size # 0 /\ address <= AddressMax - size
  /\ \E i \in DOMAIN mem.arenas : Authorizes(mem.arenas[i], lane, address, size, rights)

-----------------------------------------------------------------------------

MemoryInit == tables \in Tables /\ memory = Unregistered /\ status = "NONE"

(* kb2_vq_mapped_memory_init: a refused registration leaves *out alone.    *)
RegisterMemory ==
  /\ status = "NONE"
  /\ status' = IF ValidTables(tables.mappings, tables.arenas) THEN "OK" ELSE "INVALID"
  /\ memory' = IF status' = "OK" THEN tables ELSE memory
  /\ UNCHANGED tables

(* The host quiesces all users and ends the registration, a lifecycle      *)
(* operation of the host; the next generation registers anew.              *)
RetireMemory ==
  /\ status # "NONE"
  /\ memory' = Unregistered /\ status' = "NONE"
  /\ UNCHANGED tables

MemoryNext == RegisterMemory \/ RetireMemory

MemorySpec == MemoryInit /\ [][MemoryNext]_memoryVars

-----------------------------------------------------------------------------
(***************************************************************************)
(* Properties                                                              *)
(***************************************************************************)

(* The addresses of a range, as mathematical integers.                     *)
Cells(base, length) == base .. base + length - 1

Disjoint(table, In(_)) ==
  \A i, j \in DOMAIN table : i # j => In(table[i]) \cap In(table[j]) = {}

Transport(x) == Cells(x.transport_base, x.length)
Native(x) == Cells(x.address, x.length)

(* kb2_vq_mapped_memory_init accepts exactly the tables it should: nonempty *)
(* ranges inside the address space, mappings disjoint in both spaces,       *)
(* arenas disjoint and each inside one mapping.                             *)
RegistrationExact ==
  LET t == tables IN
  status # "NONE" =>
  ((status = "OK") <=>
    /\ t.mappings # <<>> /\ t.arenas # <<>>
    /\ Disjoint(t.mappings, Transport) /\ Disjoint(t.mappings, Native)
    /\ Disjoint(t.arenas, Transport)
    /\ \A i \in DOMAIN t.mappings :
         LET m == t.mappings[i] IN
         /\ ValidRights(m.local_rights) /\ Transport(m) # {}
         /\ Transport(m) \subseteq 0 .. AddressMax - 1
         /\ Native(m) \subseteq 1 .. AddressMax - 1
    /\ \A i \in DOMAIN t.arenas :
         LET a == t.arenas[i] IN
         /\ ValidRights(a.rights) /\ Transport(a) # {} /\ a.queue_id # 0
         /\ \E j \in DOMAIN t.mappings : Transport(a) \subseteq Transport(t.mappings[j]))

(* What payload_allowed grants a lane is never granted to another one, and  *)
(* lies inside one mapping, so that resolve turns it into one native range. *)
LaneIsolation ==
  \A p \in Lanes, a, n \in Addresses, r \in SUBSET Rights :
    PayloadAllowed(memory, p, a, n, r) =>
    /\ \E i \in DOMAIN memory.mappings :
         Cells(a, n) \subseteq Transport(memory.mappings[i])
    /\ \A q \in Lanes \ {p}, b, k \in Addresses, s \in SUBSET Rights :
         PayloadAllowed(memory, q, b, k, s) => Cells(a, n) \cap Cells(b, k) = {}

(* resolve never gives two transport addresses the same native address: two *)
(* disjoint payloads are disjoint memory.                                   *)
ResolveInjective ==
  \A a \in Addresses, r \in SUBSET Rights :
    Resolve(memory, a, 1, r) # 0 =>
    \A b \in Addresses, s \in SUBSET Rights :
      Resolve(memory, a, 1, r) = Resolve(memory, b, 1, s) => a = b
=============================================================================
