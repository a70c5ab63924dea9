----------------------------- MODULE GpuSyncFile ------------------------------
(***************************************************************************)
(* Owner-control messages about DMA-BUF sync files                         *)
(* (protocol/include/kobox2/gpu_sync_file.h): export, import and release   *)
(* requests, and responses that repeat the request they answer.            *)
(***************************************************************************)
EXTENDS Wire

CONSTANTS
  ErrorMax          \* 4095: results are negated error numbers

VARIABLES source, frame, phase, result

EXPORT == 5
IMPORT == 6
RELEASE == 7

RequestSize(op) ==
  CASE op = EXPORT -> 8 [] op = IMPORT -> 6 [] op = RELEASE -> 2 [] OTHER -> 0
ResponseSize(op) ==
  CASE op = EXPORT -> 10 [] op = IMPORT -> 8 [] op = RELEASE -> 4 [] OTHER -> 0

RequestValid(r) ==
  /\ r.token # 0
  /\ \/ r.opcode = EXPORT /\ r.session_id # 0 /\ r.sync_file_token = 0
     \/ r.opcode = IMPORT /\ r.sync_file_token # 0 /\ r.session_id = 0
     \/ r.opcode = RELEASE /\ r.flags = 0 /\ r.session_id = 0 /\ r.sync_file_token = 0

RequestEncode(r) ==
  IF ~RequestValid(r) THEN [status |-> "MALFORMED"]
  ELSE [status |-> "OK",
        frame |-> StoreU64(r.token) \o
                  CASE r.opcode = EXPORT -> StoreU64(r.flags) \o StoreU64(r.session_id) \o <<0, 0>>
                    [] r.opcode = IMPORT -> StoreU64(r.sync_file_token) \o StoreU64(r.flags)
                    [] OTHER -> <<>>]

RequestDecode(b, op) ==
  LET r == [opcode |-> op, token |-> LoadU64(b, 0),
            flags |-> CASE op = EXPORT -> LoadU64(b, 2) [] op = IMPORT -> LoadU64(b, 4) [] OTHER -> 0,
            session_id |-> IF op = EXPORT THEN LoadU64(b, 4) ELSE 0,
            sync_file_token |-> IF op = IMPORT THEN LoadU64(b, 2) ELSE 0]
  IN
  IF \/ RequestSize(op) = 0 \/ Len(b) # RequestSize(op)
     \/ op = EXPORT /\ LoadU64(b, 6) # 0
     \/ ~RequestValid(r)
  THEN [status |-> "MALFORMED"]
  ELSE [status |-> "OK", value |-> [kind |-> "request", request |-> r]]

(* An export that succeeds, and nothing else, yields a sync file.          *)
ExportedFits(op, status, token) == (token # 0) = (op = EXPORT /\ status = 0)

ResponseEncode(r, status, exported) ==
  IF \/ ~RequestValid(r) \/ status > 0 \/ status < -ErrorMax
     \/ ~ExportedFits(r.opcode, status, exported)
  THEN [status |-> "MALFORMED"]
  ELSE [status |-> "OK",
        frame |-> StoreU64(r.token)
                  \o (CASE r.opcode = EXPORT -> StoreU64(r.flags) \o StoreU64(r.session_id)
                                                \o StoreU64(exported)
                        [] r.opcode = IMPORT -> StoreU64(r.sync_file_token) \o StoreU64(r.flags)
                        [] OTHER -> <<>>)
                  \o StoreU64(Unsigned(status))]

Repeats(b, r) ==
  /\ LoadU64(b, 0) = r.token
  /\ r.opcode = EXPORT => LoadU64(b, 2) = r.flags /\ LoadU64(b, 4) = r.session_id
  /\ r.opcode = IMPORT => LoadU64(b, 2) = r.sync_file_token /\ LoadU64(b, 4) = r.flags

ResultOf(b) == Signed(LoadU64(b, Len(b) - 2))

ResponseDecode(b, r) ==
  LET token == IF r.opcode = EXPORT THEN LoadU64(b, 6) ELSE 0
      status == ResultOf(b)
  IN
  IF \/ ~RequestValid(r) \/ Len(b) # ResponseSize(r.opcode) \/ ~Repeats(b, r)
     \/ status > 0 \/ status < -ErrorMax
     \/ r.opcode = EXPORT /\ ~ExportedFits(r.opcode, status, token)
  THEN [status |-> "MALFORMED"]
  ELSE [status |-> "OK",
        value |-> [kind |-> "response", request |-> r, result |-> status, exported |-> token]]

Encode(m) == IF m.kind = "request" THEN RequestEncode(m.request)
             ELSE ResponseEncode(m.request, m.result, m.exported)
Decode(r, b) == IF r.kind = "request" THEN RequestDecode(b, r.opcode)
                ELSE ResponseDecode(b, r.request)
Short(m) == "MALFORMED"

Transfer == INSTANCE Codec

-----------------------------------------------------------------------------

(* A request read under its opcode, and a response read against the request *)
(* it answers, are decoded to the fields they were encoded from.            *)
RoundTrip ==
  /\ phase = "delivered"
  /\ IF source.value.kind = "request" THEN source.reader.opcode = source.value.request.opcode
     ELSE source.reader.request = source.value.request
  => Transfer!Accepted /\ result.value = source.value

(* A request or response that is accepted, damaged or not, is the one       *)
(* encoding of what it was decoded to.                                      *)
Canonical == Transfer!Canonical(TRUE)

(* A response is taken for the answer to the request that is waiting for    *)
(* one only if it was encoded for a request with the same fields, and then  *)
(* it reports a sync file exactly when an export succeeded.                 *)
AnswersItsRequest ==
  phase = "delivered" /\ source.value.kind = "response" /\ result.status = "OK" =>
    /\ source.reader.request = source.value.request
    /\ (result.value.exported # 0)
         = (source.value.request.opcode = EXPORT /\ result.value.result = 0)
===============================================================================
