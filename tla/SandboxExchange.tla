---------------------------- MODULE SandboxExchange ----------------------------
(***************************************************************************)
(* The management channel between the reference host                       *)
(* (tests/host/linux_host_transport.c) and the sandbox child               *)
(* (tests/sandbox_child.c): two queues in shared memory, an eventfd per    *)
(* direction of each, and two sequential programs that sleep on them.      *)
(*                                                                         *)
(* The host makes one call at a time and waits five seconds at most for    *)
(* the child's signal; a call that fails is not the last, since nothing in *)
(* the host prevents another.  The child may be slow, may die at any step  *)
(* and is killed by some calls; SIGKILL takes effect a while after kill.   *)
(***************************************************************************)
EXTENDS TestQueue

CONSTANTS
  Plans,        \* what the supervisor and the child may do: see plan
  BatchSizes,   \* the counts echo_batch is called with
  MaxLate       \* bound on timeouts while the child could still answer

ASSUME ExchangeAssumption ==
  /\ BatchSizes \subseteq 1 .. QueueSize
  /\ MaxLate \in Nat

VARIABLES
  request, event,   \* the two queues
  signals,          \* the eventfds that are readable
  memory,           \* descriptors, and request, response and event buffers
  host,             \* the call in progress
  child,            \* the sandbox process
  verdict,          \* what the last call returned
  late,             \* timeouts while the child could still answer
  plan              \* [calls, MaxCorrelation, crash]: the calls that are made,
                    \* UINT64_MAX for next_correlation_id, and whether the
                    \* child may die of itself

exchangeVars == <<request, event, signals, memory, host, child, verdict, late>>

-----------------------------------------------------------------------------
(* Messages, descriptors and calls.                                        *)

\* A decoded message; "next" is the generation after the channel's.
Messages ==
  [opcode : {"NONE", "ECHO", "QUIESCE", "PAUSE_AFTER_ACQUIRE",
             "PAUSE_AFTER_USED", "BAD_USED_ID", "BAD_GENERATION",
             "BAD_ENVELOPE"},
   correlation : 0 .. plan.MaxCorrelation,
   generation : {"own", "next"}, reserved : 0 .. 1]

Message(opcode, correlation) ==
  [opcode |-> opcode, correlation |-> correlation,
   generation |-> "own", reserved |-> 0]

MessageDecodes(message) == message.generation = "own" /\ message.reserved = 0

\* What a descriptor heads: a table of two, the first or second of a direct
\* pair, one segment only, a short first segment, a writable first segment.
Shapes == {"unset", "table", "pair", "tail", "single", "short", "writable"}

KillBefore == "KILL_BEFORE_ACQUIRE"
KillCalls == {KillBefore, "KILL_AFTER_ACQUIRE", "KILL_AFTER_USED"}
MalformedCalls == {"BAD_CHAIN", "BAD_LENGTH", "BAD_RIGHTS"}
RefusedCalls == {"BAD_GENERATION", "BAD_ENVELOPE"}
Scenarios == KillCalls \cup MalformedCalls \cup RefusedCalls \cup {"BAD_USED_ID"}
EchoCalls == {"echo", "echo_indirect", "echo_batch"}
Calls == EchoCalls \cup {"request_quiesce"} \cup Scenarios

RequestOpcode(call) ==
  CASE call \in EchoCalls \cup MalformedCalls -> "ECHO"
    [] call = "request_quiesce" -> "QUIESCE"
    [] call \in {KillBefore, "KILL_AFTER_ACQUIRE"} -> "PAUSE_AFTER_ACQUIRE"
    [] call = "KILL_AFTER_USED" -> "PAUSE_AFTER_USED"
    [] OTHER -> call

AwaitedEvent(call) ==
  CASE call = "receive_ready" -> "READY"
    [] call = "request_quiesce" -> "STOPPED"
    [] call = "KILL_AFTER_ACQUIRE" -> "ACQUIRED"
    [] call = "KILL_AFTER_USED" -> "USED_PUBLISHED"
    [] OTHER -> "FAULT"

\* The first thing a call waits for once its request is published.
FirstWait(call) ==
  CASE call = KillBefore -> "kill"
    [] call \in (KillCalls \cup MalformedCalls) -> "event"
    [] OTHER -> "response"

Stages == {"idle", "publish", "signal", "response", "take", "event", "kill"}

\* From eventfd_wait to the next eventfd_wait the child is awake.
Awake == {"take", "reply", "flush"}
Steps == {"boot", "wait", "used", "quiesced", "stopping", "finish",
          "paused", "exited", "dead"} \cup Awake
Silent == {"paused", "exited", "dead"}

Mapped == child.pc \notin {"boot", "exited", "dead"}

\* Every descriptor, buffer, queue, call and process step keeps its type.
TypeOK ==
  /\ request \in Queues /\ event \in Queues
  /\ signals \subseteq {"event_available", "event_used",
                        "request_available", "request_used"}
  /\ memory.desc \in [Slots -> Shapes]
  /\ memory.message \in [Slots -> Messages]
  /\ memory.response \in [Slots -> Messages]
  /\ host.call \in Calls \cup {"receive_ready"} /\ host.stage \in Stages
  /\ host.index \in 0 .. QueueSize /\ host.count \in 1 .. QueueSize
  /\ host.correlations \in [Slots -> 0 .. plan.MaxCorrelation]
  /\ host.next_correlation_id \in 0 .. plan.MaxCorrelation
  /\ {host.notify, host.running, host.expired, child.notify, child.killed} \subseteq BOOLEAN
  /\ child.pc \in Steps /\ child.head \in Slots /\ child.message \in Messages
  /\ verdict.call \in Calls \cup {"none", "receive_ready"} /\ verdict.ok \in BOOLEAN
  /\ late \in 0 .. MaxLate

\* The correlations of a call not made yet or returned, and the request the
\* child works on while it works on none.
NoCorrelations == [s \in Slots |-> 0]
NoMessage == Message("NONE", 0)

\* All event buffers published; the child launched and sent its bootstrap
\* message, and the host in kb2_test_host_receive_ready.
Init ==
  /\ request = EmptyQueue
  /\ event = [EmptyQueue EXCEPT !.avail = [s \in Slots |-> s],
                                !.avail_index = QueueSize,
                                !.outstanding = Slots]
  /\ signals = {}
  /\ memory = [desc |-> [s \in Slots |-> "unset"],
               message |-> [s \in Slots |-> NoMessage],
               response |-> [s \in Slots |-> NoMessage],
               event |-> [s \in Slots |-> [opcode |-> "NONE", value |-> 0]]]
  /\ host = [call |-> "receive_ready", stage |-> "event", index |-> 0,
             count |-> 1, correlations |-> NoCorrelations,
             next_correlation_id |-> 0, notify |-> FALSE,
             running |-> FALSE, expired |-> FALSE]
  /\ child = [pc |-> "boot", head |-> 0, message |-> NoMessage,
              notify |-> FALSE, killed |-> FALSE]
  /\ verdict = [call |-> "none", ok |-> FALSE]
  /\ late = 0
  /\ plan \in Plans

-----------------------------------------------------------------------------
(* The host.                                                               *)

\* The call returns; receive_ready tells the controller the child runs.
Return(ok, after) ==
  /\ host' = [after EXCEPT !.stage = "idle", !.running = @ \/ ok, !.index = 0,
                           !.count = 1, !.notify = FALSE, !.correlations = NoCorrelations]
  /\ verdict' = [call |-> host.call, ok |-> ok]

Call(call, count) ==
  /\ host.stage = "idle" /\ host.running
  /\ host' = [host EXCEPT !.call = call, !.stage = "publish", !.index = 0,
                          !.count = count]
  /\ UNCHANGED <<request, event, signals, memory, child, verdict, late>>

\* prepare_direct_request, prepare_malformed_request, prepare_indirect_request:
\* what they write, whether or not the slot is still with the child.
Prepared(slot, correlation) ==
  LET message == Message(RequestOpcode(host.call), correlation)
      head == CASE host.call = "echo" -> "pair"
                [] host.call = "BAD_CHAIN" -> "single"
                [] host.call = "BAD_LENGTH" -> "short"
                [] host.call = "BAD_RIGHTS" -> "writable"
                [] OTHER -> "table"
      direct == host.call \in {"echo", "BAD_LENGTH", "BAD_RIGHTS"}
      buffer == IF host.call = "BAD_RIGHTS" THEN "response" ELSE "message"
  IN  [memory EXCEPT
         !.desc = [s \in Slots |-> IF s = slot THEN head
                                   ELSE IF direct /\ s = 1 THEN "tail"
                                   ELSE @[s]],
         ![buffer][slot] = message]

\* One request of the call: prepared, then published if the queue takes it.
Publish ==
  /\ host.stage = "publish"
  /\ LET slot == host.index
         correlation == host.next_correlation_id + 1
         issued == [host EXCEPT !.next_correlation_id = correlation]
     IN  IF host.next_correlation_id = plan.MaxCorrelation
         THEN /\ Return(FALSE, host)
              /\ UNCHANGED <<request, memory>>
         ELSE /\ memory' = Prepared(slot, correlation)
              /\ IF PublishStatus(request, slot) # "OK"
                 THEN /\ Return(FALSE, issued)
                      /\ UNCHANGED request
                 ELSE /\ request' = Published(request, slot)
                      /\ host' = [issued EXCEPT
                           !.index = slot + 1,
                           !.stage = IF slot + 1 < host.count THEN "publish" ELSE "signal",
                           !.correlations[slot] = correlation,
                           !.notify = @ \/ PublishNotifies(request)]
                      /\ UNCHANGED verdict
  /\ UNCHANGED <<event, signals, child, late>>

Signal ==
  /\ host.stage = "signal"
  /\ signals' = IF host.notify /\ host.call # KillBefore
                THEN signals \cup {"request_available"} ELSE signals
  /\ host' = [host EXCEPT !.stage = FirstWait(host.call)]
  /\ UNCHANGED <<request, event, memory, child, verdict, late>>

AwaitResponse ==
  /\ host.stage = "response"
  /\ "request_used" \in signals
  /\ signals' = signals \ {"request_used"}
  /\ host' = [host EXCEPT !.stage = "take", !.index = 0]
  /\ UNCHANGED <<request, event, memory, child, verdict, late>>

ResponseGood(slot) ==
  /\ TakeUsedStatus(request) = "OK"
  /\ UsedId(request) = slot
  /\ MessageDecodes(memory.response[slot])
  /\ memory.response[slot].opcode = RequestOpcode(host.call)
  /\ memory.response[slot].correlation = host.correlations[slot]

\* kb2_test_receive_response, or the bare take of BAD_USED_ID.
TakeResponse ==
  /\ host.stage = "take"
  /\ request' = UsedTaken(request)
  /\ LET good == ResponseGood(host.index)
     IN  CASE host.call = "BAD_USED_ID" -> Return(TakeUsedStatus(request) = "MALFORMED", host)
           [] host.call \in RefusedCalls -> Return(~good, host)
           [] good /\ host.index + 1 < host.count ->
                host' = [host EXCEPT !.index = @ + 1] /\ UNCHANGED verdict
           [] good /\ host.call = "request_quiesce" ->
                host' = [host EXCEPT !.stage = "event"] /\ UNCHANGED verdict
           [] OTHER -> Return(good, host)
  /\ UNCHANGED <<event, signals, memory, child, late>>

\* The event's buffer is not given back to the child.
ReceiveEventKeep ==
  /\ host.stage = "event"
  /\ "event_used" \in signals
  /\ LET taken == UsedTaken(event)
         slot == UsedId(event)
         told == memory.event[slot]
         received == /\ TakeUsedStatus(event) = "OK"
                     /\ told.opcode = AwaitedEvent(host.call)
                     /\ PublishStatus(taken, slot) = "OK"
         good == received /\ (host.call \in KillCalls => told.value = host.correlations[0])
         rest == signals \ {"event_used"}
     IN  /\ event' = taken
         /\ signals' = rest
         /\ IF good /\ host.call \in KillCalls
            THEN host' = [host EXCEPT !.stage = "kill"] /\ UNCHANGED verdict
            ELSE Return(good, host)
  /\ UNCHANGED <<request, memory, child, late>>

\* kb2_test_receive_event and what the call makes of the event's value.
ReceiveEvent ==
  /\ host.stage = "event"
  /\ "event_used" \in signals
  /\ LET taken == UsedTaken(event)
         slot == UsedId(event)
         told == memory.event[slot]
         received == /\ TakeUsedStatus(event) = "OK"
                     /\ told.opcode = AwaitedEvent(host.call)
                     /\ PublishStatus(taken, slot) = "OK"
         good == received /\ (host.call \in KillCalls => told.value = host.correlations[0])
         rest == signals \ {"event_used"}
     IN  /\ event' = IF received THEN Published(taken, slot) ELSE taken
         /\ signals' = IF received /\ PublishNotifies(taken)
                       THEN rest \cup {"event_available"} ELSE rest
         /\ IF good /\ host.call \in KillCalls
            THEN host' = [host EXCEPT !.stage = "kill"] /\ UNCHANGED verdict
            ELSE Return(good, host)
  /\ UNCHANGED <<request, memory, child, late>>

Kill ==
  /\ host.stage = "kill"
  /\ child' = [child EXCEPT !.killed = TRUE]
  /\ Return(TRUE, host)
  /\ UNCHANGED <<request, event, signals, memory, late>>

Awaited == IF host.stage = "response" THEN "request_used" ELSE "event_used"

\* Five seconds pass without the signal: because the child will not send it,
\* or because it is slow.
Expire ==
  /\ host.stage \in {"response", "event"}
  /\ Awaited \notin signals
  /\ child.pc \in Silent \/ late < MaxLate
  /\ late' = IF child.pc \in Silent THEN late ELSE late + 1
  /\ Return(FALSE, [host EXCEPT !.expired = TRUE])
  /\ UNCHANGED <<request, event, signals, memory, child>>

-----------------------------------------------------------------------------
(* The child.                                                              *)

\* send_event; without a free event buffer the child fails.
SendEvent(opcode, value, then, raised) ==
  IF AvailableCount(event) \in 1 .. QueueSize
  THEN LET head == AvailableHead(event)
           taken == AvailableTaken(event)
       IN  /\ event' = Completed(taken, head)
           /\ memory' = [memory EXCEPT !.event[head] = [opcode |-> opcode, value |-> value]]
           /\ signals' = raised \cup
                         IF CompleteNotifies(taken) THEN {"event_used"} ELSE {}
           /\ child' = then
  ELSE /\ child' = [then EXCEPT !.pc = "dead"]
       /\ signals' = raised
       /\ UNCHANGED <<event, memory>>

\* The bootstrap message is received and its package valid, the memory mapped.
ChildReady ==
  /\ child.pc = "boot"
  /\ SendEvent("READY", 0, [child EXCEPT !.pc = "wait"], signals)
  /\ UNCHANGED <<request, host, verdict, late>>

ChildWake ==
  /\ child.pc = "wait"
  /\ "request_available" \in signals
  /\ signals' = signals \ {"request_available"}
  /\ child' = [child EXCEPT !.pc = "take"]
  /\ UNCHANGED <<request, event, memory, host, verdict, late>>

RequestValid(head) ==
  /\ \/ memory.desc[head] = "table"
     \/ memory.desc[head] = "pair" /\ memory.desc[1] = "tail"
  /\ MessageDecodes(memory.message[head])

ChildEmpty ==
  /\ child.pc = "take"
  /\ AvailableCount(request) = 0
  /\ child' = [child EXCEPT !.pc = "flush"]
  /\ UNCHANGED <<request, event, signals, memory, host, verdict, late>>

\* One request taken, and answered at once unless it is to be completed.
ChildTake ==
  /\ child.pc = "take"
  /\ AvailableCount(request) # 0
  /\ LET head == AvailableHead(request)
         taken == AvailableTaken(request)
         message == memory.message[head]
         paused == [child EXCEPT !.pc = "paused", !.notify = FALSE]
         valid == AvailableCount(request) <= QueueSize /\ RequestValid(head)
     IN  CASE ~valid ->
                /\ SendEvent("FAULT", 0, paused, signals)
                /\ request' = IF AvailableCount(request) > QueueSize THEN request ELSE taken
           [] valid /\ message.opcode = "PAUSE_AFTER_ACQUIRE" ->
                /\ SendEvent("ACQUIRED", message.correlation, paused, signals)
                /\ request' = taken
           [] valid /\ message.opcode = "BAD_USED_ID" ->
                /\ request' = Completed(taken, QueueSize)
                /\ signals' = signals \cup
                              IF CompleteNotifies(taken) THEN {"request_used"} ELSE {}
                /\ UNCHANGED <<event, memory, child>>
           [] OTHER ->
                /\ request' = taken
                /\ child' = [child EXCEPT !.pc = "reply", !.head = head,
                                          !.message = message]
                /\ UNCHANGED <<event, signals, memory>>
  /\ UNCHANGED <<host, verdict, late>>

ResponseOf(message) ==
  [message EXCEPT
     !.generation = IF message.opcode = "BAD_GENERATION" THEN "next" ELSE "own",
     !.reserved = IF message.opcode = "BAD_ENVELOPE" THEN 1 ELSE 0]

\* Each completion signalled at once, in the middle of the drain.
ChildReplyEager ==
  /\ child.pc = "reply"
  /\ request' = Completed(request, child.head)
  /\ memory' = [memory EXCEPT !.response[child.head] = ResponseOf(child.message)]
  /\ signals' = IF CompleteNotifies(request) THEN signals \cup {"request_used"} ELSE signals
  /\ child' = [child EXCEPT !.head = 0, !.message = NoMessage, !.pc = "take"]
  /\ UNCHANGED <<event, host, verdict, late>>

\* The response written and completed.
ChildReply ==
  /\ child.pc = "reply"
  /\ request' = Completed(request, child.head)
  /\ memory' = [memory EXCEPT !.response[child.head] = ResponseOf(child.message)]
  /\ child' = [child EXCEPT
       !.notify = @ \/ CompleteNotifies(request),
       !.pc = CASE child.message.opcode = "PAUSE_AFTER_USED" -> "used"
                [] child.message.opcode = "QUIESCE" -> "quiesced"
                [] OTHER -> "take",
       !.head = 0,
       !.message = IF child.message.opcode = "PAUSE_AFTER_USED" THEN @ ELSE NoMessage]
  /\ UNCHANGED <<event, signals, host, verdict, late>>

\* The test of the crash between the completion and its signal.
ChildPauseAfterUsed ==
  /\ child.pc = "used"
  /\ SendEvent("USED_PUBLISHED", child.message.correlation,
               [child EXCEPT !.pc = "paused", !.message = NoMessage,
                              !.notify = FALSE], signals)
  /\ UNCHANGED <<request, host, verdict, late>>

Flushed == IF child.notify THEN signals \cup {"request_used"} ELSE signals

\* The ring was found empty: one signal for all completions.
ChildFlush ==
  /\ child.pc = "flush"
  /\ signals' = Flushed
  /\ child' = [child EXCEPT !.pc = "wait", !.notify = FALSE]
  /\ UNCHANGED <<request, event, memory, host, verdict, late>>

ChildQuiesced ==
  /\ child.pc = "quiesced"
  /\ signals' = Flushed
  /\ child' = [child EXCEPT !.pc = "stopping", !.notify = FALSE]
  /\ UNCHANGED <<request, event, memory, host, verdict, late>>

ChildStopped ==
  /\ child.pc = "stopping"
  /\ SendEvent("STOPPED", 0, [child EXCEPT !.pc = "finish"], signals)
  /\ UNCHANGED <<request, host, verdict, late>>

\* The memory unmapped, the descriptors closed, exit status zero.
ChildExit ==
  /\ child.pc = "finish"
  /\ child' = [child EXCEPT !.pc = "exited"]
  /\ UNCHANGED <<request, event, signals, memory, host, verdict, late>>

\* A signal or a failure of its own ends the process, at any step.
ChildDie ==
  /\ child.pc \notin {"exited", "dead"}
  /\ child.killed \/ plan.crash
  /\ child' = [child EXCEPT !.pc = "dead", !.head = 0, !.message = NoMessage,
                            !.notify = FALSE]
  /\ UNCHANGED <<request, event, signals, memory, host, verdict, late>>

-----------------------------------------------------------------------------
HostCall ==
  \E call \in plan.calls :
    \E count \in IF call = "echo_batch" THEN BatchSizes ELSE {1} : Call(call, count)

HostStep ==
  Publish \/ Signal \/ AwaitResponse \/ TakeResponse \/ ReceiveEvent \/ Kill

ChildStep ==
  \/ ChildReady \/ ChildWake \/ ChildEmpty \/ ChildTake \/ ChildReply
  \/ ChildPauseAfterUsed \/ ChildFlush \/ ChildQuiesced \/ ChildStopped \/ ChildExit

Next ==
  /\ HostCall \/ HostStep \/ Expire \/ ChildStep \/ ChildDie
  /\ UNCHANGED plan

\* The kernel schedules both processes, delivers SIGKILL and ends a poll
\* after its five seconds; nothing forces a call, a crash or slowness.
Fairness ==
  /\ WF_exchangeVars(HostStep)
  /\ WF_exchangeVars(ChildStep)
  /\ WF_exchangeVars(child.killed /\ ChildDie)
  /\ WF_exchangeVars(child.pc \in Silent /\ Expire)

Spec == Init /\ [][Next]_<<exchangeVars, plan>> /\ Fairness

-----------------------------------------------------------------------------
(* Properties.                                                             *)

\* kb2_test_host_echo_batch waits for one signal and then takes all its
\* responses without waiting again: whenever a wait for a response ends, the
\* child has completed every request of the call that is still to be taken.
SignalMeansAnswered ==
  host.stage = "take" => UsedCount(request) >= host.count - host.index

\* kb2_test_vq_publish and kb2_test_vq_take_available order the index and the
\* event index by release and acquire only, which allows a publication and an
\* emptied ring to miss each other.  They never meet: a request is published
\* only while the child is not between two waits.
PublishedToSleeper ==
  [][request'.avail_index # request.avail_index => child.pc \notin Awake]_exchangeVars

\* After a call timed out, no later call takes the late answer, or any answer,
\* for its own; only the call that waits for nothing can still succeed.
LateAnswerUnused ==
  host.expired /\ verdict.ok => verdict.call = KillBefore

\* kb2_test_host_inject_fault stops the child where the scenario's name says:
\* before it took the request, after it took it and before any completion, or
\* after the completion and before the host took it; a malformed request is
\* taken and never completed.
FaultLandsWhereNamed ==
  host.stage = "idle" /\ verdict.ok =>
    /\ verdict.call = KillBefore =>
         AvailableCount(request) = 1
    /\ verdict.call \in {"KILL_AFTER_ACQUIRE"} \cup MalformedCalls =>
         /\ AvailableCount(request) = 0 /\ UsedCount(request) = 0
         /\ request.available_consumer = Advance(request.used_index)
    /\ verdict.call = "KILL_AFTER_USED" =>
         /\ request.available_consumer = request.used_index
         /\ UsedCount(request) = 1

\* A quiesce that succeeds leaves nothing behind in either queue or on the
\* eventfds the two sides wait on, and the child on its way out.
QuiesceDrains ==
  host.stage = "idle" /\ verdict.ok /\ verdict.call = "request_quiesce" =>
    /\ request.outstanding = {} /\ UsedCount(request) = 0 /\ AvailableCount(request) = 0
    /\ UsedCount(event) = 0 /\ event.outstanding = Slots
    /\ signals \subseteq {"event_available"}
    /\ child.pc \in {"finish", "exited", "dead"}

\* What a call reports of the other process is so: the fault is where it is
\* named, the quiesce is complete.
VerdictsExact == TypeOK /\ FaultLandsWhereNamed /\ QuiesceDrains

\* Every call returns: no wake-up is lost between the two programs, although
\* each tells the other only when the event index asks for it.
CallsReturn == host.stage # "idle" ~> host.stage = "idle"

\* docs/test-host.md: "Revocation makes the child unmap and close every
\* transferred handle before it acknowledges and exits."
UnmappedBeforeAcknowledging ==
  (\E s \in Slots : memory.event[s].opcode = "STOPPED") => ~Mapped

=============================================================================
