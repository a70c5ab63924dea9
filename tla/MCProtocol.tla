------------------------------ MODULE MCProtocol ------------------------------
(***************************************************************************)
(* The protocol library between host, sandbox and services: one of its     *)
(* codecs, or the registration of mapped memory, is chosen at the start.   *)
(* Each codec has its own inputs and its own number of words (U32) so that *)
(* its u64 fields and their sums reach their limits.                       *)
(***************************************************************************)
EXTENDS MappedMemory, Variations

VARIABLES protocol, source, frame, phase, result, open

codecVars == <<source, frame, phase, result, open>>
vars == <<protocol, codecVars, memoryVars>>

Channels ==
  INSTANCE MCChannel WITH
    U32 <- 128, QueueSizeMin <- 1, QueueSizeMax <- 4, MinQueues <- 1, MaxQueues <- 2,
    MaxRegions <- 2, Features <- 130, Abi <- 11, Digest <- 42,
    Capacity <- [queues |-> 2, regions |-> 2]

Grants ==
  INSTANCE MCResourceGrant WITH
    U32 <- 128, MaxSlots <- 3, MaxObjects <- 3, MaxHandles <- 3, Abi <- 11, Digest <- 42

Manifests ==
  INSTANCE MCManifest WITH
    U32 <- 256, MaxString <- 3, MaxRows <- <<2, 1, 1, 1, 1, 1>>, Abi <- 11, Digest <- 42

Files == INSTANCE MCFilesystem WITH U32 <- 2048, Abi <- 77

Blocks == INSTANCE BlockDevice WITH U32 <- 16, Abi <- 13, MaxDisks <- 3, MaxTransfer <- 5, NameCells <- 3

Boot ==
  INSTANCE Bootstrap WITH
    U32 <- 16, MaxArtifacts <- 2, MaxHandles <- 1, NotificationCount <- 2, BaseCount <- 3,
    Magic <- <<11, 13>>, Capacities <- {1, 6, 7, 8}, datagram <- frame, out <- result

-----------------------------------------------------------------------------
(* Block devices: headers and disks with up to two fields at their limits. *)

Near(r, changes) ==
  {r} \cup UNION {ChangeFields(s, changes) : s \in {r} \cup ChangeFields(r, changes)}

Header == [opcode |-> 2, status |-> 0, count |-> 1, major |-> 3, minor |-> 1, length |-> 4,
           generation |-> 18, sequence |-> 9, diskseq |-> 33, offset |-> 64]
HeaderChanges == [opcode |-> {0, 1, 4, 5}, status |-> {7, 8}, count |-> {0, 3, 4}, length |-> {0, 5, 6},
                  generation |-> {0, 255}, sequence |-> {0, 16}, diskseq |-> {0, 255},
                  offset |-> {0, 255}, major |-> {0, 15}]
Disk == [diskseq |-> 33, bytes |-> 64, major |-> 3, minor |-> 1, logical_block_size |-> 5,
         physical_block_size |-> 6, removable |-> 0, read_only |-> 1, name |-> <<8, 9, 0>>]
DiskChanges == [diskseq |-> {0, 16}, bytes |-> {0, 255}, logical_block_size |-> {0, 1},
                physical_block_size |-> {0}, removable |-> {1, 2}, read_only |-> {0, 2},
                name |-> {<<8, 9, 7>>, <<0, 0, 0>>, <<8, 0, 7>>}, major |-> {0, 15}]

BlockSources ==
  {[value |-> v, reader |-> k] :
     v \in [kind : {"header"}, fields : Near(Header, HeaderChanges)]
           \cup [kind : {"disk"}, fields : Near(Disk, DiskChanges)],
     k \in {"header", "disk"}}
BlockFragile == {[value |-> [kind |-> "header", fields |-> Header], reader |-> "header"],
                 [value |-> [kind |-> "disk", fields |-> Disk], reader |-> "disk"]}

-----------------------------------------------------------------------------
(* Bootstrap messages of two artifacts and one handle at most, and handles. *)

Message == [generation |-> 17, shared_memory_size |-> 64, manifest_size |-> 18, grant_size |-> 33,
            channel_descriptor_size |-> 12, artifact_count |-> 1, resource_handle_count |-> 1,
            notification_count |-> 2, manifest_digest |-> 7, grant_digest |-> 8,
            notification_ids |-> <<3, 4>>]
MessageChanges ==
  [generation |-> {0, 255}, shared_memory_size |-> {0, 11, 12}, manifest_size |-> {0, 16},
   grant_size |-> {0, 255}, channel_descriptor_size |-> {0, 15}, artifact_count |-> {0, 2, 3},
   resource_handle_count |-> {0, 2}, notification_count |-> {0, 1, 3}, manifest_digest |-> {0},
   notification_ids |-> {<<0, 4>>, <<4, 4>>, <<15, 1>>}]

Whole == [kind |-> "bootstrap", value |-> Message, count |-> 7, closed |-> FALSE]
Handles(n) == [kind |-> "handles", value |-> <<>>, count |-> n, closed |-> FALSE]

BootSources ==
  [kind : {"bootstrap"}, value : Near(Message, MessageChanges), count : 6 .. 9, closed : {FALSE}]
  \cup {Handles(n) : n \in 0 .. 9}
  \cup {[Whole EXCEPT !.closed = TRUE], [Handles(2) EXCEPT !.closed = TRUE]}

-----------------------------------------------------------------------------

(* Mapped memory: two mappings, anywhere in the address spaces, and up to  *)
(* two arenas.                                                             *)

RW == {"READ", "WRITE"}
SomeMappings ==
  [transport_base : {0, 3, 5}, length : {0, 2, 3}, address : {0, 2, 4}, local_rights : {RW}]
SomeArenas ==
  [queue_id : Lanes, rights : {RW}, transport_base : {0, 1, 3, 4}, length : {1, 2}]
  \cup [queue_id : {0, 1}, rights : {{}, {"READ"}, {"OTHER"}},
        transport_base : {0}, length : {0, 2}]

MCTables ==
  [mappings : {<<>>} \cup {<<m>> : m \in SomeMappings} \cup (SomeMappings \X SomeMappings),
   arenas : {<<>>} \cup {<<a>> : a \in {x \in SomeArenas : x.length # 1 /\ x.queue_id # 2}}]
  \cup
  [mappings : {<<m>> : m \in SomeMappings} \cup {<<m, n>> : m, n \in
                 {x \in SomeMappings : x.length = 2 /\ x.address # 0}},
   arenas : {<<a, b>> : a \in {x \in SomeArenas : x.rights = RW /\ x.queue_id = 1},
                       b \in {x \in SomeArenas : x.rights = RW}}]

-----------------------------------------------------------------------------

NoTransfer == source = <<>> /\ frame = <<>> /\ phase = "none" /\ result = <<>>
NoRegistration == memory = Unregistered /\ tables = Unregistered /\ status = "NONE"

CodecInit ==
  /\ \/ protocol = "channel" /\ Channels!Init
     \/ protocol = "grant" /\ Grants!Init
     \/ protocol = "manifest" /\ Manifests!Init
     \/ protocol = "filesystem" /\ Files!Init
     \/ protocol = "block" /\ Blocks!Transfer!Init(BlockSources)
     \/ protocol = "bootstrap" /\ Boot!Init(BootSources)
  /\ open = {}

CodecNext ==
  \/ protocol = "channel" /\ Channels!Next /\ UNCHANGED open
  \/ protocol = "grant" /\ Grants!Next /\ UNCHANGED open
  \/ protocol = "manifest" /\ Manifests!Next /\ UNCHANGED open
  \/ protocol = "filesystem" /\ Files!Next /\ UNCHANGED open
  \/ /\ protocol = "block"
     /\ Blocks!Transfer!Next(BlockFragile, {0, 1, 2, 5, 8, 15}) /\ UNCHANGED open
  \/ protocol = "bootstrap" /\ Boot!Next({Whole, Handles(2)}, {0, 1, 2, 5, 7, 8, 15})

Init == \/ protocol = "memory" /\ MemoryInit /\ NoTransfer /\ open = {}
        \/ CodecInit /\ NoRegistration

Next == /\ UNCHANGED protocol
        /\ \/ protocol = "memory" /\ MemoryNext /\ UNCHANGED codecVars
           \/ CodecNext /\ UNCHANGED memoryVars

Spec == Init /\ [][Next]_vars

-----------------------------------------------------------------------------
(***************************************************************************)
(* Properties                                                              *)
(***************************************************************************)

(* What an encoder of protocol.c, resource_grant.c, closure_manifest.c,    *)
(* filesystem.c, block_device.c or bootstrap.c accepts, its decoder reads  *)
(* back to the same value when the frame arrives as it was sent; where a   *)
(* decoder checks more than its encoder does, it refuses exactly what      *)
(* fails those checks.                                                     *)
RoundTrip ==
  /\ protocol = "channel" => Channels!RoundTrip
  /\ protocol = "grant" => Grants!RoundTrip
  /\ protocol = "manifest" => Manifests!RoundTripConsistent
  /\ protocol = "filesystem" => Files!RoundTrip
  /\ protocol = "block" => Blocks!RoundTrip
  /\ protocol = "bootstrap" => Boot!SentIsReceived

(* Whatever damaged, cut or extended frame a decoder accepts is, or begins *)
(* with, the one encoding of what it is decoded to (for a manifest, whose  *)
(* names may overlap, it is consistent and can be encoded again): no       *)
(* field, reserved word or descriptor count is ignored.                    *)
Canonical ==
  /\ protocol = "channel" => Channels!Canonical
  /\ protocol = "grant" => Grants!Canonical
  /\ protocol = "manifest" => Manifests!Recoded
  /\ protocol = "filesystem" => Files!Canonical
  /\ protocol = "block" => Blocks!Canonical
  /\ protocol = "bootstrap" => Boot!AcceptedAsSent

(* kb2_protocol_channel_validate accepts exactly the channels whose rings, *)
(* regions and queues lie apart, inside their regions and within their     *)
(* rights, although it compares sums that may wrap, and the payload of an  *)
(* accepted envelope is in the buffer.                                     *)
ChannelExact ==
  protocol = "channel" => Channels!ValidationExact /\ Channels!PayloadPresent

(* Grants are accepted exactly when every object and handle belongs to one *)
(* slot; the ranges a decoded grant carries select just those; and the     *)
(* check against a manifest is met exactly when every resource gets what   *)
(* it requires, within the rights it may have, and nothing else is given.  *)
GrantsExact ==
  protocol = "grant" => Grants!GrantExact /\ Grants!RangesExact /\ Grants!ManifestMet

(* A filesystem request is encoded exactly when its spans lie apart inside *)
(* the payload and its paths end where they do; an accepted one requires   *)
(* the rights to whatever it, or the open it stands for, changes, reads,   *)
(* creates, looks up or describes, the statx of a device route and of an   *)
(* open excepted; an unknown one has no class; and a client takes a        *)
(* response for its own only if it is.                                     *)
FilesystemExact ==
  protocol = "filesystem" =>
    /\ Files!SpansExact /\ Files!PathsExact
    /\ Files!FailsClosed /\ Files!EffectsCovered
    /\ Files!AnswersRequest

(* "On receive failure, every installed descriptor is closed"              *)
(* (bootstrap.h), and on success every one is in the caller's array.       *)
NoDescriptorLeak == protocol = "bootstrap" => Boot!NoDescriptorLeak
===============================================================================
