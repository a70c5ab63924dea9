------------------------------ MODULE BlockDevice -----------------------------
(***************************************************************************)
(* The block device protocol (protocol/src/block_device.c): the header of  *)
(* requests and responses, and the records of the disks in a snapshot.     *)
(***************************************************************************)
EXTENDS Wire, TLC

CONSTANTS
  Abi,
  MaxDisks, MaxTransfer,
  NameCells              \* 32: the characters of a disk name, one cell each

VARIABLES source, frame, phase, result

SNAPSHOT == 1
FLUSH == 4
UNSUPPORTED == 7

HeaderWords == 16
HeaderU32 == [opcode |-> 1, status |-> 2, count |-> 3, major |-> 12, minor |-> 13, length |-> 14]
HeaderU64 == [generation |-> 4, sequence |-> 6, diskseq |-> 8, offset |-> 10]
HeaderReserved == 15

NameOffset == 10
DiskU32 == [major |-> 4, minor |-> 5, logical_block_size |-> 6, physical_block_size |-> 7,
            removable |-> 8, read_only |-> 9]
DiskU64 == [diskseq |-> 0, bytes |-> 2]
DiskSize == NameOffset + NameCells

Refused == [status |-> "REFUSED"]

ValidOpcode(opcode) == opcode \in SNAPSHOT .. FLUSH
NameTerminated(name) == \E i \in DOMAIN name : name[i] = 0

HeaderValid(h) ==
  /\ ValidOpcode(h.opcode) /\ h.status <= UNSUPPORTED
  /\ h.count <= MaxDisks /\ h.length <= MaxTransfer
  /\ h.generation # 0 /\ h.sequence # 0

HeaderEncode(h) ==
  IF ~HeaderValid(h) THEN Refused
  ELSE [status |-> "OK", frame |-> PutFields(HeaderWords, HeaderU32 @@ [abi |-> 0], HeaderU64,
                                             h @@ [abi |-> Abi])]

(* Mutant: the reserved word is not looked at.                             *)
HeaderDecodeReserved(b) ==
  LET h == GetFields(b, HeaderU32, HeaderU64) IN
  IF Len(b) < HeaderWords \/ LoadU32(b, 0) # Abi \/ ~HeaderValid(h)
  THEN Refused
  ELSE [status |-> "OK", value |-> h]

HeaderDecode(b) ==
  LET h == GetFields(b, HeaderU32, HeaderU64) IN
  IF \/ Len(b) < HeaderWords \/ LoadU32(b, 0) # Abi \/ LoadU32(b, HeaderReserved) # 0
     \/ ~HeaderValid(h)
  THEN Refused
  ELSE [status |-> "OK", value |-> h]

DiskValid(d) ==
  /\ 0 \notin {d.diskseq, d.bytes, d.logical_block_size, d.physical_block_size}
  /\ d.removable <= 1 /\ d.read_only <= 1

DiskEncode(d) ==
  IF ~DiskValid(d) \/ ~NameTerminated(d.name) THEN Refused
  ELSE [status |-> "OK", frame |-> PutFields(NameOffset, DiskU32, DiskU64, d) \o d.name]

NameOf(b) == SubSeq(b, NameOffset + 1, DiskSize)

DiskDecode(b) ==
  LET d == GetFields(b, DiskU32, DiskU64) @@ [name |-> NameOf(b)] IN
  IF Len(b) < DiskSize \/ ~NameTerminated(NameOf(b)) \/ ~DiskValid(d) THEN Refused
  ELSE [status |-> "OK", value |-> d]

Encode(m) == IF m.kind = "header" THEN HeaderEncode(m.fields) ELSE DiskEncode(m.fields)
Decode(kind, b) ==
  LET d == IF kind = "header" THEN HeaderDecode(b) ELSE DiskDecode(b) IN
  IF d.status = "OK" THEN [status |-> "OK", value |-> [kind |-> kind, fields |-> d.value]] ELSE d
Short(m) == "REFUSED"

Transfer == INSTANCE Codec

-----------------------------------------------------------------------------

(* What is encoded is decoded to the same fields when it arrives alone, and *)
(* a disk record that other records follow in a snapshot is decoded to what *)
(* its own bytes say.                                                       *)
RoundTrip ==
  /\ phase = "delivered" /\ source.reader = source.value.kind =>
       Transfer!Accepted /\ result.value = source.value
  /\ phase = "received" /\ IsPrefix(Encode(source.value).frame, frame) =>
       Transfer!Accepted /\ result.value = source.value

(* A record that is accepted begins with the one encoding of what it is     *)
(* decoded to: reserved words are zero, flags are 0 or 1.                   *)
Canonical == Transfer!Canonical(FALSE)
===============================================================================
