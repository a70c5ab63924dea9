-------------------------------- MODULE Codec ---------------------------------
(***************************************************************************)
(* One use of a protocol codec: the sender encodes a value, the frame      *)
(* travels through shared memory or a file of another build, where it may  *)
(* be damaged, cut short or followed by other data, and the receiver       *)
(* decodes what arrives.  Every codec of the repository has this shape;    *)
(* the modules of the codecs instantiate this one.                         *)
(***************************************************************************)
EXTENDS Integers, Sequences

CONSTANTS
  Encode(_),     \* of a value: [status, frame]
  Decode(_, _),  \* of a reader and a frame: [status, value]
  Short(_)       \* of a value: the status when the buffer does not fit it

VARIABLES
  source,    \* [value, reader]: what is sent, and what the receiver expects
  frame, phase, result

vars == <<source, frame, phase, result>>

Pending == [status |-> "NONE"]

Init(sources) ==
  source \in sources /\ frame = <<>> /\ phase = "new" /\ result = Pending

Send ==
  LET e == Encode(source.value) IN
  /\ phase = "new"
  /\ phase' = IF e.status = "OK" THEN "sent" ELSE "refused"
  /\ frame' = IF e.status = "OK" THEN e.frame ELSE <<>>
  /\ result' = [status |-> e.status]
  /\ UNCHANGED source

(* The sender's buffer does not fit the frame: nothing is written.         *)
SendShort ==
  /\ phase = "new" /\ Encode(source.value).status = "OK"
  /\ phase' = "short" /\ result' = [status |-> Short(source.value)]
  /\ UNCHANGED <<source, frame>>

(* Another frame than the one sent arrives; noise is what damage may leave *)
(* in a word.                                                              *)
Arrive(words) ==
  /\ phase = "sent"
  /\ frame' = words /\ phase' = "damaged"
  /\ UNCHANGED <<source, result>>

Damage(noise) == \E i \in DOMAIN frame, w \in noise : Arrive([frame EXCEPT ![i] = w])
Truncate == \E n \in 0 .. Len(frame) - 1 : Arrive(SubSeq(frame, 1, n))
Extend(noise) == \E w \in noise : Arrive(Append(frame, w))

Receive ==
  /\ phase \in {"sent", "damaged"}
  /\ phase' = IF phase = "sent" THEN "delivered" ELSE "received"
  /\ result' = Decode(source.reader, frame)
  /\ UNCHANGED <<source, frame>>

(* The next use.                                                           *)
Again ==
  /\ phase \in {"refused", "short", "delivered", "received"}
  /\ phase' = "new" /\ frame' = <<>> /\ result' = Pending
  /\ UNCHANGED source

(* Only the frames of fragile sources are damaged.                         *)
Next(fragile, noise) ==
  \/ Send \/ SendShort \/ Receive \/ Again
  \/ source \in fragile /\ Damage(noise)
  \/ source \in fragile /\ Truncate
  \/ source \in fragile /\ Extend(noise)

-----------------------------------------------------------------------------

Accepted == phase \in {"delivered", "received"} /\ result.status = "OK"

(* What is encoded and arrives as it was sent is decoded to the same value. *)
RoundTrip == phase = "delivered" => Accepted /\ result.value = source.value

(* A frame is accepted only if it begins with, or is, the one frame that    *)
(* encodes what it is decoded to: no field is ignored and no two frames     *)
(* mean the same.                                                           *)
Canonical(exact) ==
  Accepted =>
    LET e == Encode(result.value) IN
    /\ e.status = "OK" /\ Len(e.frame) <= Len(frame)
    /\ e.frame = SubSeq(frame, 1, Len(e.frame))
    /\ exact => Len(e.frame) = Len(frame)
===============================================================================
