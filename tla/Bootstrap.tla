------------------------------- MODULE Bootstrap -------------------------------
(***************************************************************************)
(* The bootstrap socket (protocol/test/src/bootstrap.c): a datagram whose  *)
(* message describes the sandbox's generation and whose ancillary data     *)
(* carries the descriptors, or, for a native boot, one marker and the      *)
(* descriptors alone.                                                      *)
(*                                                                         *)
(* The kernel installs the descriptors in the receiving process before the *)
(* receiver has looked at anything.  It may put other records before them, *)
(* and install only some of them, with MSG_CTRUNC, when the process has no *)
(* more room.  The message may be of another build, or cut.                *)
(***************************************************************************)
EXTENDS Wire, TLC

CONSTANTS
  MaxArtifacts, MaxHandles, NotificationCount, BaseCount,
  Magic,        \* the two words of KB2_TEST_BOOTSTRAP_MAGIC
  Capacities    \* the room of the caller's array of descriptors

VARIABLES
  source,      \* [kind, value, count, closed]: what is sent
  phase,
  datagram,    \* on the socket
  open,        \* the descriptors installed in the receiver and not closed
  out          \* what the receive returned

vars == <<source, phase, datagram, open, out>>

-----------------------------------------------------------------------------
(* The message.                                                            *)

AtU32 == [channel_descriptor_size |-> 10, artifact_count |-> 11,
          resource_handle_count |-> 12, notification_count |-> 13]
AtU64 == [generation |-> 2, shared_memory_size |-> 4, manifest_size |-> 6, grant_size |-> 8]
AtDescriptorCount == 14
AtReserved0 == 15
AtDigests == [manifest_digest |-> 16, grant_digest |-> 17]
AtIds == 18
AtReserved == AtIds + NotificationCount
MessageWords == AtReserved + 4

MaxTransfer == BaseCount + MaxArtifacts + MaxHandles + NotificationCount

NotificationIdsValid(ids) ==
  /\ \A i \in DOMAIN ids : ids[i] # 0
  /\ \A p \in Pairs(ids) : ids[p[1]] # ids[p[2]]

\* 0 for a message that no number of descriptors fits.
DescriptorCount(b) ==
  IF \/ b.artifact_count \notin 1 .. MaxArtifacts
     \/ b.resource_handle_count > MaxHandles
     \/ b.notification_count # NotificationCount
  THEN 0
  ELSE BaseCount + b.artifact_count + b.resource_handle_count + b.notification_count

SizesValid(b) ==
  /\ 0 \notin {b.generation, b.shared_memory_size, b.manifest_size, b.grant_size,
               b.channel_descriptor_size}
  /\ b.channel_descriptor_size <= b.shared_memory_size

SendValid(b, count) ==
  count = DescriptorCount(b) /\ SizesValid(b) /\ NotificationIdsValid(b.notification_ids)

EncodeMessage(b, count) ==
  LET fixed == PutFields(AtIds, AtU32 @@ AtDigests @@ [count |-> AtDescriptorCount], AtU64,
                         b @@ [count |-> count])
  IN  Magic \o SubSeq(fixed, 3, AtIds) \o b.notification_ids \o <<0, 0, 0, 0>>

Ids(words) == [i \in 1 .. NotificationCount |-> LoadU32(words, AtIds + i - 1)]

DecodedMessage(words) ==
  GetFields(words, AtU32 @@ AtDigests, AtU64) @@ [notification_ids |-> Ids(words)]

-----------------------------------------------------------------------------
(* The kernel: records of ancillary data, the descriptors numbered in the  *)
(* order they are installed.                                               *)

Rights(n) == [type |-> "rights", descriptors |-> [i \in 1 .. n |-> i]]
Credentials == [type |-> "credentials", descriptors |-> <<>>]

Installed(records) == UNION {ToSet(records[i].descriptors) : i \in DOMAIN records}

NoDatagram == [words |-> <<>>, records |-> <<>>, truncated |-> FALSE]
NoOutput == [ok |-> FALSE, descriptors |-> <<>>, count |-> 0, value |-> <<>>]

Init(sources) ==
  /\ source \in sources /\ phase = "new"
  /\ datagram = NoDatagram /\ open = {} /\ out = NoOutput

SendAccepted ==
  /\ ~source.closed
  /\ IF source.kind = "bootstrap" THEN SendValid(source.value, source.count)
     ELSE source.count \in 1 .. MaxTransfer

\* kb2_test_send_bootstrap, kb2_test_send_handles.
Send ==
  /\ phase = "new"
  /\ phase' = IF SendAccepted THEN "sent" ELSE "refused"
  /\ datagram' = IF ~SendAccepted THEN NoDatagram
                 ELSE [words |-> IF source.kind = "bootstrap"
                                 THEN EncodeMessage(source.value, source.count) ELSE <<0>>,
                       records |-> <<Rights(source.count)>>, truncated |-> FALSE]
  /\ UNCHANGED <<source, open, out>>

Change(arrived) ==
  /\ phase \in {"sent", "changed"}
  /\ datagram' = arrived /\ phase' = "changed"
  /\ UNCHANGED <<source, open, out>>

\* The kernel's records: SO_PASSCRED, or descriptors that do not fit.
PassCredentials ==
  /\ \A i \in DOMAIN datagram.records : datagram.records[i].type = "rights"
  /\ \/ Change([datagram EXCEPT !.records = <<Credentials>> \o @])
     \/ Change([datagram EXCEPT !.records = @ \o <<Credentials>>])

InstallSome ==
  /\ phase = "sent"
  /\ \E n \in 0 .. source.count - 1 :
       Change([datagram EXCEPT !.truncated = TRUE,
                               !.records = IF n = 0 THEN <<>> ELSE <<Rights(n)>>])

\* Another build's message, with as many descriptors as it likes; noise is
\* what its words may hold.
ChangeWords(noise) ==
  /\ phase = "sent"
  /\ \/ \E i \in DOMAIN datagram.words, w \in noise :
          Change([datagram EXCEPT !.words[i] = w])
     \/ \E n \in 0 .. Len(datagram.words) - 1 :
          Change([datagram EXCEPT !.words = SubSeq(@, 1, n)])
     \/ \E n \in 1 .. MaxTransfer : Change([datagram EXCEPT !.records = <<Rights(n)>>])

-----------------------------------------------------------------------------
(* The receiver.                                                           *)

NoDescriptor == -1
Unset(capacity) == [i \in 1 .. capacity |-> NoDescriptor]

\* The caller's array with the received descriptors in front.
Filled(capacity, descriptors) ==
  [i \in 1 .. capacity |-> IF i <= Len(descriptors) THEN descriptors[i] ELSE NoDescriptor]

\* Mutant: only a first record of rights is walked.
CloseReceivedRightsFirst(records) ==
  IF records # <<>> /\ records[1].type = "rights" THEN ToSet(records[1].descriptors) ELSE {}

\* What kb2_test_close_received_rights closes: the rights of every record.
CloseReceivedRights(records) ==
  UNION {ToSet(records[i].descriptors) : i \in {j \in DOMAIN records : records[j].type = "rights"}}

RightsUsable(records, capacity) ==
  /\ Len(records) = 1
  /\ records[1].type = "rights"
  /\ Len(records[1].descriptors) <= capacity

\* The checks of kb2_test_receive_bootstrap after recvmsg.
BootstrapUsable(d, capacity) ==
  /\ RightsUsable(d.records, capacity)
  /\ Len(d.words) = MessageWords /\ ~d.truncated
  /\ SubSeq(d.words, 1, 2) = Magic
  /\ LET b == DecodedMessage(d.words)
         count == Len(d.records[1].descriptors)
     IN  /\ SizesValid(b)
         /\ count = DescriptorCount(b)
         /\ count = LoadU32(d.words, AtDescriptorCount)
         /\ NotificationIdsValid(b.notification_ids)
  /\ \A i \in {AtReserved0} \cup (AtReserved .. MessageWords - 1) : LoadU32(d.words, i) = 0

\* A longer datagram is cut to its first byte, with MSG_TRUNC.
HandlesUsable(d, capacity) ==
  /\ d.words = <<0>> /\ ~d.truncated
  /\ RightsUsable(d.records, capacity)
  /\ d.records[1].descriptors # <<>>

\* recvmsg installs; then all of it is handed over, or all of it closed.
Receive(usable, capacity, value) ==
  LET came == IF datagram.records = <<>> THEN <<>> ELSE datagram.records[1].descriptors
  IN  /\ phase \in {"sent", "changed"}
      /\ phase' = IF phase = "sent" THEN "delivered" ELSE "received"
      /\ open' = open \cup (Installed(datagram.records)
                            \ IF usable THEN {} ELSE CloseReceivedRights(datagram.records))
      /\ out' = IF usable
                THEN [ok |-> TRUE, descriptors |-> Filled(capacity, came),
                      count |-> Len(came), value |-> value]
                ELSE [NoOutput EXCEPT !.descriptors = Unset(capacity)]
      /\ UNCHANGED <<source, datagram>>

ReceiveBootstrap ==
  /\ source.kind = "bootstrap"
  /\ \E capacity \in Capacities :
       LET usable == BootstrapUsable(datagram, capacity)
       IN  Receive(usable, capacity, IF usable THEN DecodedMessage(datagram.words) ELSE <<>>)

\* Also of a bootstrap message, by a receiver that expects handles only.
ReceiveHandles ==
  \E capacity \in Capacities : Receive(HandlesUsable(datagram, capacity), capacity, <<>>)

\* Nothing came within five seconds, or recvmsg failed.
ReceiveTimeout ==
  /\ phase = "new"
  /\ \E capacity \in Capacities : out' = [NoOutput EXCEPT !.descriptors = Unset(capacity)]
  /\ phase' = "refused"
  /\ UNCHANGED <<source, datagram, open>>

\* The caller closes what it was handed, and the next message is sent.
CloseDescriptors ==
  /\ phase \in {"refused", "delivered", "received"}
  /\ open' = open \ ToSet(out.descriptors)
  /\ phase' = "new" /\ datagram' = NoDatagram /\ out' = NoOutput
  /\ UNCHANGED source

\* Only the messages of fragile sources are changed.
Next(fragile, noise) ==
  \/ Send \/ PassCredentials \/ InstallSome
  \/ source \in fragile /\ ChangeWords(noise)
  \/ ReceiveBootstrap \/ ReceiveHandles \/ ReceiveTimeout \/ CloseDescriptors

-----------------------------------------------------------------------------
(* Properties.                                                             *)

\* "On receive failure, every installed descriptor is closed" (bootstrap.h),
\* and on success every one is in the caller's array: whatever came, and
\* however often, the receiver's open descriptors are those it was handed.
NoDescriptorLeak ==
  /\ open = ToSet(out.descriptors) \ {NoDescriptor}
  /\ ~out.ok => open = {} /\ out.count = 0
  /\ out.ok => out.count = Len(SelectSeq(out.descriptors, LAMBDA d : d # NoDescriptor))

\* A bootstrap message is accepted only if it is the one message
\* kb2_test_send_bootstrap makes of what it is decoded to and of the
\* descriptors that came with it: sandbox_child.c indexes the descriptors by
\* the counts of the message.
AcceptedAsSent ==
  out.ok /\ out.value # <<>> =>
    /\ SendValid(out.value, out.count)
    /\ datagram.words = EncodeMessage(out.value, out.count)
    /\ out.count <= MaxTransfer

\* What is sent and arrives unchanged is received, if the caller has room and
\* expects its kind.
SentIsReceived ==
  phase = "delivered" /\ Len(out.descriptors) >= source.count =>
    \/ out.ok /\ out.count = source.count
       /\ (source.kind = "bootstrap" => out.value = source.value)
    \/ source.kind = "bootstrap" /\ out.value = <<>>

===============================================================================
