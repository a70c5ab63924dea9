------------------------------ MODULE Filesystem ------------------------------
(***************************************************************************)
(* The filesystem service protocol (protocol/src/filesystem.c): requests   *)
(* with their spans, paths and the authority they need, responses, and     *)
(* credentials.  Header words stand for four bytes, the cells that follow  *)
(* a header for one byte; both sizes of a header are multiples of four.    *)
(***************************************************************************)
EXTENDS Wire, TLC

CONSTANT Abi

VARIABLES source, frame, phase, result

RequestWords == 48
ResponseWords == 16
CredentialWords == 20

RequestU32 == [opcode |-> 1, mask |-> 24, uid |-> 25, gid |-> 26, umask |-> 27]
RequestU64 == [generation |-> 2, sequence |-> 4, client |-> 6, credential_generation |-> 8,
               handle |-> 10, second_handle |-> 12, length |-> 16, flags |-> 18, mode |-> 20,
               resolve |-> 22, path_offset |-> 28, path_length |-> 30, second_path_offset |-> 32,
               second_path_length |-> 34, groups_offset |-> 36, groups_length |-> 38,
               data_offset |-> 40, data_length |-> 42, capabilities |-> 44]
RequestOffset == 14      \* the signed field
RequestReserved == 46

ResponseU32 == [opcode |-> 1, service |-> 12]
ResponseU64 == [generation |-> 2, sequence |-> 4, handle |-> 8, data_length |-> 10]
ResponseResult == 6      \* the signed field
ResponseReserved == 13

CredentialU32 == [uid |-> 0, gid |-> 1, euid |-> 2, egid |-> 3, suid |-> 4, sgid |-> 5,
                  fsuid |-> 6, fsgid |-> 7, securebits |-> 16, umask |-> 17]
CredentialU64 == [cap_permitted |-> 8, cap_effective |-> 10, cap_inheritable |-> 12,
                  cap_ambient |-> 14]
CredentialReserved == 18

UmaskMax == 511          \* 0777
ErrorMax == 4095

Refused == [status |-> "REFUSED"]

-----------------------------------------------------------------------------
(***************************************************************************)
(* Operations and the rights they require                                  *)
(***************************************************************************)

Operations ==
  <<"HELLO", "CLIENT_REGISTER", "CLIENT_CREDENTIALS", "CLIENT_UNREGISTER", "SESSION_ATTACH",
    "SESSION_DETACH", "SERVICE_BIND", "DEVICE_ROUTE", "EXEC_OPEN", "EXEC_PATH", "EXEC_SELF",
    "FILE_VMO", "SHARED_FILE_VMO", "OPENAT2", "CLOSE", "DUP", "TRANSFER_DUP", "READ", "PREAD",
    "WRITE", "PWRITE", "POLL", "LSEEK", "GETDENTS64", "STATX", "STATFS", "FCNTL", "FSYNC",
    "FTRUNCATE", "MKDIRAT", "UNLINKAT", "RENAMEAT2", "LINKAT", "SYMLINKAT", "READLINKAT",
    "READLINK_HANDLE", "MKNODAT", "FCHMODAT", "FCHOWNAT", "UTIMENSAT", "FACCESSAT2", "SYNC",
    "SYNCFS", "MEMFD_CREATE">>
OperationOf(opcode) == IF opcode \in DOMAIN Operations THEN Operations[opcode] ELSE "unknown"

OpcodeValid(opcode) == opcode \in 1 .. Len(Operations)

OwnerOperations == {"CLIENT_REGISTER", "CLIENT_CREDENTIALS", "CLIENT_UNREGISTER", "SERVICE_BIND",
                    "EXEC_OPEN"}
FrontendOperations == {"HELLO", "SESSION_ATTACH", "SESSION_DETACH", "TRANSFER_DUP",
                       "SHARED_FILE_VMO", "EXEC_PATH", "EXEC_SELF", "FILE_VMO", "DEVICE_ROUTE"}

(* The rights that do not depend on the operands.                          *)
FixedRights ==
  [READ |-> {"READ"}, PREAD |-> {"READ"}, FILE_VMO |-> {"READ"}, SHARED_FILE_VMO |-> {"READ"},
   EXEC_PATH |-> {"EXEC", "READ"}, EXEC_SELF |-> {"EXEC", "READ"},
   WRITE |-> {"WRITE"}, PWRITE |-> {"WRITE"}, FTRUNCATE |-> {"WRITE"},
   GETDENTS64 |-> {"GETDENTS"}, STATX |-> {"STAT"}, STATFS |-> {"STAT"}, READLINKAT |-> {"STAT"},
   READLINK_HANDLE |-> {"STAT"}, FACCESSAT2 |-> {"LOOKUP"}, MKDIRAT |-> {"CREATE"},
   MKNODAT |-> {"CREATE"}, SYMLINKAT |-> {"CREATE"}, LINKAT |-> {"CREATE"},
   MEMFD_CREATE |-> {"CREATE"}, UNLINKAT |-> {"REMOVE"}, RENAMEAT2 |-> {"RENAME", "REMOVE"},
   FCHMODAT |-> {"SETATTR"}, FCHOWNAT |-> {"SETATTR"}, UTIMENSAT |-> {"SETATTR"},
   DEVICE_ROUTE |-> {"LOOKUP"}, OPENAT2 |-> {"LOOKUP"}]

WritableMapping == 0     \* flag bits of the two mapping operations
ExecutableMapping == 1
SNAPSHOT_QUERY == 1
O_CREAT == 6             \* bits of the open flags
O_TRUNC == 9
O_PATH == 21

(* Mutant: truncation alone needs no right.                                *)
OpenRightsKeepTruncate(flags) ==
  IF O_PATH \in Bits(flags) THEN {}
  ELSE {x \in {"CREATE"} : O_CREAT \in Bits(flags)}
       \cup {x \in {"READ"} : flags % 4 # 1}
       \cup {x \in {"WRITE"} : flags % 4 # 0}

OpenRights(flags) ==
  IF O_PATH \in Bits(flags) THEN {}
  ELSE {x \in {"CREATE"} : O_CREAT \in Bits(flags)}
       \cup {x \in {"READ"} : flags % 4 # 1}
       \cup {x \in {"WRITE"} : O_TRUNC \in Bits(flags) \/ flags % 4 # 0}

OperandRights(op, r) ==
  CASE op \in {"OPENAT2", "DEVICE_ROUTE"} -> OpenRights(r.flags)
    [] op = "SHARED_FILE_VMO" -> {x \in {"WRITE"} : WritableMapping \in Bits(r.flags)}
                                 \cup {x \in {"EXEC"} : ExecutableMapping \in Bits(r.flags)}
    [] op = "FILE_VMO" -> {x \in {"EXEC"} : ExecutableMapping \in Bits(r.flags)}
    [] op = "PREAD" -> {x \in {"STAT"} : r.mode = SNAPSHOT_QUERY}
    [] OTHER -> {}

RequestPolicy(r) ==
  LET op == OperationOf(r.opcode) IN
  [class |-> CASE op \in OwnerOperations -> "OWNER"
               [] op \in FrontendOperations -> "FRONTEND"
               [] op = "unknown" -> "INVALID"
               [] OTHER -> "DATA",
   rights |-> OperandRights(op, r) \cup IF op \in DOMAIN FixedRights THEN FixedRights[op] ELSE {}]

-----------------------------------------------------------------------------
(***************************************************************************)
(* Requests                                                                *)
(***************************************************************************)

Spans(r) == <<[offset |-> r.path_offset, length |-> r.path_length],
              [offset |-> r.second_path_offset, length |-> r.second_path_length],
              [offset |-> r.groups_offset, length |-> r.groups_length],
              [offset |-> r.data_offset, length |-> r.data_length]>>

SpanValid(span, size) ==
  IF span.length = 0 THEN span.offset = 0
  ELSE /\ span.offset >= RequestWords /\ span.offset <= size
       /\ span.length <= size - span.offset

SpansOverlap(spans) ==
  \E p \in Pairs(spans) :
    LET s == spans[p[1]]  t == spans[p[2]] IN
    /\ s.length # 0 /\ t.length # 0
    /\ s.offset < AddU64(t.offset, t.length) /\ t.offset < AddU64(s.offset, s.length)

RequestValid(r, size) ==
  /\ OpcodeValid(r.opcode) /\ r.generation # 0 /\ r.sequence # 0
  /\ Within(r.umask, UmaskMax) /\ size >= RequestWords
  /\ \A i \in DOMAIN Spans(r) : SpanValid(Spans(r)[i], size)
  /\ ~SpansOverlap(Spans(r))
  /\ r.groups_offset % 4 = 0 /\ r.groups_length % 4 = 0

(* The header; the sender lays the payload after it.                       *)
RequestEncode(r, payload) ==
  IF ~RequestValid(r, RequestWords + Len(payload)) THEN Refused
  ELSE LET header == PutFields(RequestWords, RequestU32 @@ [abi |-> 0],
                               RequestU64 @@ [offset |-> RequestOffset],
                               [r EXCEPT !.offset = Unsigned(@)] @@ [abi |-> Abi])
       IN [status |-> "OK", frame |-> header \o payload]

RequestDecode(b) ==
  LET r == GetFields(b, RequestU32, RequestU64)
           @@ [offset |-> Signed(LoadU64(b, RequestOffset))]
  IN
  IF \/ Len(b) < RequestWords \/ LoadU32(b, 0) # Abi \/ LoadU64(b, RequestReserved) # 0
     \/ ~RequestValid(r, Len(b))
  THEN Refused
  ELSE [status |-> "OK", value |-> r]

ValidatePaths(b, r) ==
  /\ RequestValid(r, Len(b))
  /\ \A i \in {1, 2} :
       LET s == Spans(r)[i] IN
       s.length # 0 =>
         /\ LoadU32(b, s.offset + s.length - 1) = 0
         /\ \A k \in 0 .. s.length - 2 : LoadU32(b, s.offset + k) # 0

-----------------------------------------------------------------------------
(***************************************************************************)
(* Responses and credentials                                               *)
(***************************************************************************)

ResponseValid(r) ==
  /\ OpcodeValid(r.opcode) /\ r.generation # 0 /\ r.sequence # 0 /\ r.result >= -ErrorMax
  /\ r.data_length <= U64Max - ResponseWords
  /\ r.result >= 0 \/ (r.handle = 0 /\ r.data_length = 0 /\ r.service = 0)

ResponseEncode(r, payload) ==
  IF ~ResponseValid(r) THEN Refused
  ELSE LET header == PutFields(ResponseWords, ResponseU32 @@ [abi |-> 0],
                               ResponseU64 @@ [result |-> ResponseResult],
                               [r EXCEPT !.result = Unsigned(@)] @@ [abi |-> Abi])
       IN [status |-> "OK", frame |-> header \o payload]

ResultOf(b) == Signed(LoadU64(b, ResponseResult))

ResponseDecode(b) ==
  LET r == GetFields(b, ResponseU32, ResponseU64) @@ [result |-> ResultOf(b)] IN
  IF \/ Len(b) < ResponseWords \/ LoadU32(b, 0) # Abi
     \/ \E w \in ResponseReserved .. ResponseWords - 1 : LoadU32(b, w) # 0
     \/ ~ResponseValid(r) \/ r.data_length # Len(b) - ResponseWords
  THEN Refused
  ELSE [status |-> "OK", value |-> r]

ResponseMatches(response, request) ==
  \A f \in {"opcode", "generation", "sequence"} : response[f] = request[f]

CredentialsEncode(c) ==
  IF ~Within(c.umask, UmaskMax) THEN Refused
  ELSE [status |-> "OK", frame |-> PutFields(CredentialWords, CredentialU32, CredentialU64, c)]

CredentialsDecode(b) ==
  LET c == GetFields(b, CredentialU32, CredentialU64) IN
  IF \/ Len(b) # CredentialWords \/ LoadU64(b, CredentialReserved) # 0
     \/ ~Within(c.umask, UmaskMax)
  THEN Refused
  ELSE [status |-> "OK", value |-> c]

-----------------------------------------------------------------------------

Encode(m) ==
  CASE m.kind = "request" -> RequestEncode(m.fields, m.payload)
    [] m.kind = "response" -> ResponseEncode(m.fields, m.payload)
    [] m.kind = "credentials" -> CredentialsEncode(m.fields)

(* The service decodes a request, validates its paths and looks up what it *)
(* requires; the client compares a response with its request.              *)
Decode(reader, b) ==
  LET d == CASE reader.kind = "request" -> RequestDecode(b)
             [] reader.kind = "response" -> ResponseDecode(b)
             [] reader.kind = "credentials" -> CredentialsDecode(b)
      words == [request |-> RequestWords, response |-> ResponseWords, credentials |-> CredentialWords]
      payload == SubSeq(b, words[reader.kind] + 1, Len(b))
  IN
  IF d.status # "OK" THEN d
  ELSE [status |-> "OK",
        value |-> [kind |-> reader.kind, fields |-> d.value, payload |-> payload],
        paths |-> reader.kind = "request" /\ ValidatePaths(b, d.value),
        matches |-> reader.kind = "response" /\ ResponseMatches(d.value, reader.request),
        policy |-> IF reader.kind = "request" THEN RequestPolicy(d.value) ELSE {}]
Short(m) == "REFUSED"

Transfer == INSTANCE Codec

-----------------------------------------------------------------------------
(***************************************************************************)
(* Properties                                                              *)
(***************************************************************************)

(* A request, or a set of credentials, that is encoded is decoded to the    *)
(* same fields; a response too when it is followed by as many bytes as it   *)
(* says, and it is refused otherwise.                                       *)
RoundTrip ==
  phase = "delivered" /\ source.reader.kind = source.value.kind =>
    IF /\ source.value.kind = "response"
       /\ source.value.fields.data_length # Len(source.value.payload)
    THEN result.status = "REFUSED"
    ELSE Transfer!Accepted /\ result.value = source.value

(* A frame that is accepted, damaged or meant for another decoder, is the   *)
(* one encoding of what it was decoded to: reserved bytes are zero.         *)
Canonical == Transfer!Canonical(TRUE)

(* A client takes a response for the answer to its request only if it was   *)
(* sent for that request, and then a failure hands over nothing.            *)
AnswersRequest ==
  phase = "delivered" /\ source.value.kind = "response" /\ Transfer!Accepted /\ result.matches =>
    /\ \A f \in {"opcode", "generation", "sequence"} :
         source.value.fields[f] = source.reader.request[f]
    /\ result.value.fields.result < 0 =>
         result.value.payload = <<>> /\ result.value.fields.handle = 0

(* The bytes of a span.                                                    *)
Bytes(s) == s.offset .. s.offset + s.length - 1

(* What the document asks of a request: "Spans cannot overlap or escape",   *)
(* an empty one has no place, groups are whole u32s.                        *)
Sound(r, size) ==
  /\ r.opcode \in DOMAIN Operations /\ 0 \notin {r.generation, r.sequence} /\ r.umask <= UmaskMax
  /\ \A i \in DOMAIN Spans(r) :
       LET s == Spans(r)[i] IN
       /\ Bytes(s) \subseteq RequestWords .. size - 1 /\ (s.length = 0 => s.offset = 0)
       /\ \A j \in DOMAIN Spans(r) : i # j => Bytes(s) \cap Bytes(Spans(r)[j]) = {}
  /\ \A edge \in {r.groups_offset, r.groups_offset + r.groups_length} : edge % 4 = 0

(* A request is encoded exactly when its spans lie apart in the payload,    *)
(* also where the sums that the code compares would wrap.                   *)
SpansExact ==
  source.value.kind = "request" /\ phase \in {"sent", "refused"} =>
    (phase = "sent") = Sound(source.value.fields, RequestWords + Len(source.value.payload))

(* The paths of an accepted request are valid exactly when each is a C      *)
(* string that fills its span: "Paths include a final NUL but no embedded   *)
(* NUL".                                                                    *)
PathsExact ==
  Transfer!Accepted /\ source.reader.kind = "request" =>
    LET r == result.value.fields
        text(s) == SubSeq(frame, s.offset + 1, s.offset + s.length)
        nuls(s) == {k \in DOMAIN text(s) : text(s)[k] = 0}
    IN result.paths = (\A i \in {1, 2} : LET s == Spans(r)[i] IN
                                         s.length # 0 => nuls(s) = {s.length})

(* "Unknown operations fail closed": a request that a decoder accepts has a *)
(* class, and one with a class has a known opcode, even before decoding.    *)
FailsClosed ==
  /\ Transfer!Accepted /\ source.reader.kind = "request" =>
       result.policy.class \in {"OWNER", "FRONTEND", "DATA"}
  /\ source.value.kind = "request" =>
       (RequestPolicy(source.value.fields).class = "INVALID")
         = (source.value.fields.opcode \notin DOMAIN Operations)

(* What an operation may do for a client, by the document's table.  A      *)
(* device route stands for the open it follows: the owner "checks the      *)
(* original open's capability requirements".                               *)
Opens(op, r) == op \in {"OPENAT2", "DEVICE_ROUTE"} /\ (r.flags \div 2^O_PATH) % 2 = 0
Changes(op, r) ==
  \/ op \in {"WRITE", "PWRITE", "FTRUNCATE"}
  \/ op = "SHARED_FILE_VMO" /\ r.flags % 2 = 1
  \/ Opens(op, r) /\ (r.flags % 4 \in {1, 2, 3} \/ (r.flags \div 2^O_TRUNC) % 2 = 1)
Observes(op, r) ==
  \/ op \in {"READ", "PREAD", "FILE_VMO", "SHARED_FILE_VMO", "EXEC_PATH", "EXEC_SELF"}
  \/ Opens(op, r) /\ r.flags % 4 \in {0, 2, 3}
Creates(op, r) ==
  \/ op \in {"MKDIRAT", "MKNODAT", "SYMLINKAT", "LINKAT", "MEMFD_CREATE"}
  \/ Opens(op, r) /\ (r.flags \div 2^O_CREAT) % 2 = 1
Describes(op, r) ==
  \/ op \in {"STATX", "STATFS", "READLINKAT", "READLINK_HANDLE"}
  \/ op = "PREAD" /\ r.mode = SNAPSHOT_QUERY
Finds(op) == op \in {"OPENAT2", "DEVICE_ROUTE", "FACCESSAT2"}

(* An operation that changes, reads, creates or describes a file requires  *)
(* WRITE, READ, CREATE or STAT, the same for an open that would allow it,  *)
(* and an open, a route or an access check finds a file only with LOOKUP.  *)
(* Two answers with a statx are excepted.  DEVICE_ROUTE describes the      *)
(* device it found to a client with LOOKUP and the rights of the open, no  *)
(* more, as the schema says: "the same filesystem capability requirements".*)
(* OPENAT2 with a mask is left to the service, which fills the statx with  *)
(* zeros for a client without STAT.                                        *)
EffectsCovered ==
  Transfer!Accepted /\ source.reader.kind = "request" =>
    LET r == result.value.fields
        op == Operations[r.opcode]
        rights == result.policy.rights
    IN /\ Changes(op, r) => "WRITE" \in rights
       /\ Observes(op, r) => "READ" \in rights
       /\ Creates(op, r) => "CREATE" \in rights
       /\ Describes(op, r) => "STAT" \in rights
       /\ Finds(op) => "LOOKUP" \in rights
===============================================================================
