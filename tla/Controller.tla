------------------------------ MODULE Controller ------------------------------
(***************************************************************************)
(* The lifecycle controller of libkobox2 (src/controller/controller.c).    *)
(*                                                                         *)
(* One controller object owns one sandbox instance.  Every public call     *)
(* takes the object from one state to the next and may leave one host      *)
(* action pending; the host answers it with complete_action.  The caller   *)
(* serialises all calls (include/kobox2/controller.h), so a call is one    *)
(* step.  Nothing is assumed about the host here: it may complete an       *)
(* action late, twice, with the wrong identifiers, or report events of a   *)
(* sandbox that is long gone.                                              *)
(*                                                                         *)
(* A C function that works on the object is an operator on the record that *)
(* holds the object's fields; one that also returns a status yields a      *)
(* record with both.                                                       *)
(***************************************************************************)
EXTENDS Naturals

CONSTANTS
  MaxToken,        \* UINT64_MAX for the action tokens
  MaxGeneration,   \* UINT64_MAX for the sandbox generations
  Closures,        \* sealed closures a caller may configure
  ResetClosures,   \* the closures with a resource that requires reset
  ResourceIds,     \* nonzero resource-set identifiers the host hands out
  SandboxIds,      \* nonzero sandbox identifiers the host hands out
  HostStatuses,    \* the results a host passes to complete_action
  StaleLag         \* bound on how stale a generation or a token may be

Statuses ==
  {"OK", "INVALID_ARGUMENT", "INVALID_STATE", "INVALID_CONFIGURATION",
   "ACTION_PENDING", "STALE_GENERATION", "STALE_ACTION", "NO_MEMORY",
   "RESOURCE_DENIED", "RESOURCE_EXHAUSTED", "HOST_FAILURE",
   "COUNTER_EXHAUSTED"}

ASSUME ControllerAssumption ==
  /\ MaxToken \in Nat \ {0}
  /\ MaxGeneration \in Nat \ {0}
  /\ ResetClosures \subseteq Closures
  /\ "none" \notin Closures
  /\ ResourceIds \subseteq Nat \ {0}
  /\ SandboxIds \subseteq Nat \ {0}
  /\ HostStatuses \subseteq Statuses
  /\ StaleLag \in Nat

States ==
  {"IDLE", "STARTING", "HANDSHAKING", "RUNNING", "STOPPING", "FAULTED"}

ActionTypes ==
  {"ALLOCATE_RESOURCES", "LAUNCH_SANDBOX", "TRANSFER_RESOURCES",
   "QUIESCE_SANDBOX", "TERMINATE_SANDBOX", "REVOKE_RESOURCES",
   "RESET_RESOURCES", "REAP_SANDBOX", "RELEASE_RESOURCES"}

FaultKinds == {"NONE", "PROCESS_EXIT", "PROTOCOL", "HOST_ACTION", "CONTROLLER"}

DigestKinds == {"PROFILE", "CAPABILITY_SET", "CHANNEL_SET"}

LimitKinds ==
  {"SHARED_MEMORY_BYTES", "CHANNEL_COUNT", "QUEUE_COUNT",
   "OUTSTANDING_REQUEST_COUNT"}

Tokens == 0 .. MaxToken
Generations == 0 .. MaxGeneration

(* A fault code is the status or the action type that caused the fault, or *)
(* whatever the host reported ("host").                                    *)
FaultCodes == {"0", "host"} \cup Statuses \cup ActionTypes

(* A digest or a limit that was set is nonzero, so the sets of the kinds   *)
(* set so far are all that the controller can tell apart.                  *)
Configurations ==
  [closure : Closures \cup {"none"}, digests : SUBSET DigestKinds,
   limits : SUBSET LimitKinds, reset_required : BOOLEAN]

Actions ==
  [type : ActionTypes \cup {"NONE"}, token : Tokens, generation : Generations,
   resource_set_id : ResourceIds \cup {0}, sandbox_id : SandboxIds \cup {0},
   configuration : Configurations]

NoConfiguration ==
  [closure |-> "none", digests |-> {}, limits |-> {}, reset_required |-> FALSE]

NoAction ==
  [type |-> "NONE", token |-> 0, generation |-> 0, resource_set_id |-> 0,
   sandbox_id |-> 0, configuration |-> NoConfiguration]

VARIABLES
  ctl,    \* struct kb2_controller
  ret,    \* the status returned by the last call
  done    \* history: what was accomplished in each generation

vars == <<ctl, ret, done>>

(* The events recorded in the history: host actions that succeeded, whether *)
(* the closure asked for a reset, a reported process exit, any failure.     *)
Events == ActionTypes \cup {"RESET_REQUIRED", "PROCESS_EXIT", "FAULT"}

Controllers ==
  [configuration : Configurations, action : Actions, state : States,
   fault_kind : FaultKinds, fault_code : FaultCodes,
   generation : Generations, next_token : Tokens,
   resource_set_id : ResourceIds \cup {0}, sandbox_id : SandboxIds \cup {0},
   resources_allocated : BOOLEAN, resources_revoked : BOOLEAN,
   resources_reset : BOOLEAN, process_started : BOOLEAN,
   process_exited : BOOLEAN, restart_requested : BOOLEAN,
   graceful_stop : BOOLEAN]

-----------------------------------------------------------------------------
(***************************************************************************)
(* Internal functions                                                      *)
(***************************************************************************)

Pending(c) == c.action.type # "NONE"

Returns(c, status) == [ctl |-> c, status |-> status]

SetFault(c, kind, code) ==
  [c EXCEPT !.state = "FAULTED", !.fault_kind = kind, !.fault_code = code]

ClearAction(c) == [c EXCEPT !.action = NoAction]

CarriesResourceSet(type) ==
  type \in {"LAUNCH_SANDBOX", "RESET_RESOURCES", "RELEASE_RESOURCES",
            "TRANSFER_RESOURCES", "QUIESCE_SANDBOX", "REVOKE_RESOURCES"}

CarriesSandbox(type) ==
  type \in {"TRANSFER_RESOURCES", "QUIESCE_SANDBOX", "TERMINATE_SANDBOX",
            "REAP_SANDBOX"}

NewAction(c, type) ==
  [type |-> type,
   token |-> c.next_token + 1,
   generation |-> c.generation,
   resource_set_id |-> IF CarriesResourceSet(type) THEN c.resource_set_id ELSE 0,
   sandbox_id |-> IF CarriesSandbox(type) THEN c.sandbox_id ELSE 0,
   configuration |-> c.configuration]

EmitAction(c, type) ==
  IF c.next_token = MaxToken
    THEN Returns(SetFault(c, "CONTROLLER", "COUNTER_EXHAUSTED"),
                 "COUNTER_EXHAUSTED")
    ELSE Returns([c EXCEPT !.next_token = @ + 1, !.action = NewAction(c, type)],
                 "OK")

ValidConfiguration(cfg) ==
  /\ cfg.closure # "none"
  /\ cfg.digests = DigestKinds
  /\ cfg.limits = LimitKinds

CounterExhausted(c) ==
  c.generation = MaxGeneration \/ c.next_token = MaxToken

(* Mutant: every generation numbers its actions from one.                  *)
BeginStartFreshTokens(c) ==
  IF CounterExhausted(c) THEN Returns(c, "COUNTER_EXHAUSTED")
  ELSE IF ~ValidConfiguration(c.configuration) THEN Returns(c, "INVALID_CONFIGURATION")
  ELSE EmitAction([c EXCEPT !.generation = @ + 1, !.state = "STARTING",
                            !.next_token = 0, !.resources_revoked = FALSE,
                            !.resources_reset = FALSE],
                  "ALLOCATE_RESOURCES")

BeginStart(c) ==
  IF CounterExhausted(c)
    THEN Returns(c, "COUNTER_EXHAUSTED")
  ELSE IF ~ValidConfiguration(c.configuration)
    THEN Returns(c, "INVALID_CONFIGURATION")
  ELSE EmitAction([c EXCEPT !.generation = @ + 1,
                            !.state = "STARTING",
                            !.fault_kind = "NONE",
                            !.fault_code = "0",
                            !.resource_set_id = 0,
                            !.sandbox_id = 0,
                            !.resources_allocated = FALSE,
                            !.resources_revoked = FALSE,
                            !.resources_reset = FALSE,
                            !.process_started = FALSE,
                            !.process_exited = FALSE],
                  "ALLOCATE_RESOURCES")

FinishCleanup(c) ==
  LET idle == [c EXCEPT !.restart_requested = FALSE,
                        !.state = "IDLE",
                        !.fault_kind = "NONE",
                        !.fault_code = "0"]
      start == BeginStart(idle)
  IN  IF ~c.restart_requested
        THEN Returns(idle, "OK")
      ELSE IF start.status # "OK"
        THEN Returns(SetFault(start.ctl, "CONTROLLER", start.status), start.status)
      ELSE start

(* Mutant: the process is reaped before its resources are revoked.         *)
NextCleanupActionReapFirst(c) ==
  IF c.process_started
    THEN EmitAction(c, IF c.graceful_stop THEN "QUIESCE_SANDBOX"
                                          ELSE "TERMINATE_SANDBOX")
  ELSE IF c.process_exited
    THEN EmitAction(c, "REAP_SANDBOX")
  ELSE IF c.resources_allocated /\ ~c.resources_revoked
    THEN EmitAction(c, "REVOKE_RESOURCES")
  ELSE IF c.resources_allocated
    THEN EmitAction(c, "RELEASE_RESOURCES")
  ELSE FinishCleanup(c)

NextCleanupAction(c) ==
  IF c.process_started
    THEN EmitAction(c, IF c.graceful_stop THEN "QUIESCE_SANDBOX"
                                          ELSE "TERMINATE_SANDBOX")
  ELSE IF c.resources_allocated /\ ~c.resources_revoked
    THEN EmitAction(c, "REVOKE_RESOURCES")
  ELSE IF c.resources_allocated /\ c.configuration.reset_required
            /\ ~c.resources_reset
    THEN EmitAction(c, "RESET_RESOURCES")
  ELSE IF c.process_exited
    THEN EmitAction(c, "REAP_SANDBOX")
  ELSE IF c.resources_allocated
    THEN EmitAction(c, "RELEASE_RESOURCES")
  ELSE FinishCleanup(c)

BeginCleanup(c, restart) ==
  NextCleanupAction([c EXCEPT !.graceful_stop = c.state # "FAULTED",
                              !.state = "STOPPING",
                              !.restart_requested = restart])

(* The identifiers a completion must carry: only a successful allocation   *)
(* and a successful launch return one.                                     *)
CompletionIdsValid(type, result, rid, sid) ==
  /\ (rid # 0) <=> (result = "OK" /\ type = "ALLOCATE_RESOURCES")
  /\ (sid # 0) <=> (result = "OK" /\ type = "LAUNCH_SANDBOX")

(* The checks complete_action makes, in its order; "OK" lets it proceed.   *)
CompletionVerdict(c, generation, token, result, rid, sid) ==
  IF result \notin {"OK", "RESOURCE_DENIED", "RESOURCE_EXHAUSTED", "HOST_FAILURE"}
    THEN "INVALID_ARGUMENT"
  ELSE IF ~Pending(c) THEN "INVALID_STATE"
  ELSE IF generation # c.generation THEN "STALE_GENERATION"
  ELSE IF token # c.action.token THEN "STALE_ACTION"
  ELSE IF ~CompletionIdsValid(c.action.type, result, rid, sid)
    THEN "INVALID_ARGUMENT"
  ELSE "OK"

(* What a successful action changes, and the action that follows it.       *)
Succeeded(c, type, rid, sid) ==
  CASE type = "ALLOCATE_RESOURCES" ->
         EmitAction([c EXCEPT !.resource_set_id = rid,
                              !.resources_allocated = TRUE],
                    "LAUNCH_SANDBOX")
    [] type = "LAUNCH_SANDBOX" ->
         EmitAction([c EXCEPT !.sandbox_id = sid, !.process_started = TRUE],
                    "TRANSFER_RESOURCES")
    [] type = "TRANSFER_RESOURCES" ->
         Returns([c EXCEPT !.state = "HANDSHAKING"], "OK")
    [] type \in {"QUIESCE_SANDBOX", "TERMINATE_SANDBOX"} ->
         NextCleanupAction([c EXCEPT !.process_started = FALSE,
                                     !.process_exited = TRUE])
    [] type = "REAP_SANDBOX" ->
         NextCleanupAction([c EXCEPT !.process_exited = FALSE,
                                     !.sandbox_id = 0])
    [] type = "REVOKE_RESOURCES" ->
         NextCleanupAction([c EXCEPT !.resources_revoked = TRUE])
    [] type = "RESET_RESOURCES" ->
         NextCleanupAction([c EXCEPT !.resources_reset = TRUE])
    [] type = "RELEASE_RESOURCES" ->
         NextCleanupAction([c EXCEPT !.resources_allocated = FALSE,
                                     !.resource_set_id = 0])

Completed(c, result, rid, sid) ==
  LET type == c.action.type
      free == ClearAction(c)
  IN  IF result # "OK"
        THEN Returns(SetFault(free, "HOST_ACTION", type), result)
        ELSE Succeeded(free, type, rid, sid)

-----------------------------------------------------------------------------
(***************************************************************************)
(* Public calls                                                            *)
(***************************************************************************)

Init ==
  /\ ctl = [configuration |-> NoConfiguration, action |-> NoAction,
            state |-> "IDLE", fault_kind |-> "NONE", fault_code |-> "0",
            generation |-> 0, next_token |-> 0, resource_set_id |-> 0,
            sandbox_id |-> 0, resources_allocated |-> FALSE,
            resources_revoked |-> FALSE, resources_reset |-> FALSE,
            process_started |-> FALSE, process_exited |-> FALSE,
            restart_requested |-> FALSE, graceful_stop |-> FALSE]
  /\ ret = "OK"
  /\ done = [g \in Generations |-> {}]

Finish(r) == ctl' = r.ctl /\ ret' = r.status

Refuse(status) == ret' = status /\ UNCHANGED ctl

Record(events) ==
  done' = [done EXCEPT ![ctl.generation] = @ \cup events]

(* Mutant: only a running sandbox keeps its configuration.                 *)
ConfigurableUnlessRunning == ctl.state # "RUNNING"

Configurable == ctl.state = "IDLE" /\ ~Pending(ctl)

WithClosure(c, closure) ==
  [c EXCEPT !.configuration =
     [@ EXCEPT !.closure = closure,
               !.reset_required = closure \in ResetClosures]]

(* Mutant: the old closure is destroyed before the new one is cloned.      *)
SetClosureDestroyFirst(closure) ==
  /\ \/ /\ ~Configurable
        /\ Refuse("INVALID_STATE")
     \/ /\ Configurable
        /\ Finish(Returns([ctl EXCEPT !.configuration.closure = "none"], "NO_MEMORY"))
     \/ /\ Configurable
        /\ Finish(Returns(WithClosure(ctl, closure), "OK"))
  /\ UNCHANGED done

(* A closure the allocator has no room for is refused with NO_MEMORY; the  *)
(* clone and the flags derived from it replace the old closure.            *)
SetClosure(closure) ==
  /\ \/ /\ ~Configurable
        /\ Refuse("INVALID_STATE")
     \/ /\ Configurable
        /\ Refuse("NO_MEMORY")
     \/ /\ Configurable
        /\ Finish(Returns(WithClosure(ctl, closure), "OK"))
  /\ UNCHANGED done

SetDigest(kind, zero) ==
  /\ IF kind = "MANIFEST" THEN Refuse("INVALID_ARGUMENT")
     ELSE IF ~Configurable THEN Refuse("INVALID_STATE")
     ELSE IF zero THEN Refuse("INVALID_CONFIGURATION")
     ELSE Finish(Returns([ctl EXCEPT !.configuration.digests = @ \cup {kind}], "OK"))
  /\ UNCHANGED done

SetLimit(kind, zero) ==
  /\ IF ~Configurable THEN Refuse("INVALID_STATE")
     ELSE IF zero THEN Refuse("INVALID_CONFIGURATION")
     ELSE Finish(Returns([ctl EXCEPT !.configuration.limits = @ \cup {kind}], "OK"))
  /\ UNCHANGED done

(* Mutant: a faulted controller can be started without a cleanup.          *)
StartFaulted ==
  /\ IF ctl.state \notin {"IDLE", "FAULTED"} THEN Refuse("INVALID_STATE")
     ELSE Finish(BeginStart(ctl))
  /\ UNCHANGED done

Start ==
  /\ IF ctl.state # "IDLE" THEN Refuse("INVALID_STATE")
     ELSE IF Pending(ctl) THEN Refuse("ACTION_PENDING")
     ELSE Finish(BeginStart(ctl))
  /\ UNCHANGED done

Stoppable == ctl.state \in {"HANDSHAKING", "RUNNING", "FAULTED"}

Stop ==
  /\ IF Pending(ctl) THEN Refuse("ACTION_PENDING")
     ELSE IF ~Stoppable THEN Refuse("INVALID_STATE")
     ELSE Finish(BeginCleanup(ctl, FALSE))
  /\ UNCHANGED done

Restart ==
  /\ IF Pending(ctl) THEN Refuse("ACTION_PENDING")
     ELSE IF ~Stoppable THEN Refuse("INVALID_STATE")
     ELSE Finish(BeginCleanup(ctl, TRUE))
  /\ UNCHANGED done

CompletionEvents(result) ==
  IF result # "OK" THEN {"FAULT"}
  ELSE {ctl.action.type} \cup
       (IF ctl.action.type = "ALLOCATE_RESOURCES" /\ ctl.configuration.reset_required
          THEN {"RESET_REQUIRED"} ELSE {})

CompleteAction(generation, token, result, rid, sid) ==
  LET verdict == CompletionVerdict(ctl, generation, token, result, rid, sid)
  IN  \/ /\ verdict # "OK"
         /\ Refuse(verdict)
         /\ UNCHANGED done
      \/ /\ verdict = "OK"
         /\ Finish(Completed(ctl, result, rid, sid))
         /\ Record(CompletionEvents(result))

ReportReady(generation) ==
  /\ IF generation # ctl.generation THEN Refuse("STALE_GENERATION")
     ELSE IF Pending(ctl) THEN Refuse("ACTION_PENDING")
     ELSE IF ctl.state # "HANDSHAKING" THEN Refuse("INVALID_STATE")
     ELSE Finish(Returns([ctl EXCEPT !.state = "RUNNING"], "OK"))
  /\ UNCHANGED done

(* An exited process is no longer started; it still has to be reaped.      *)
Faulted(c, kind) ==
  SetFault(IF kind = "PROCESS_EXIT"
             THEN [c EXCEPT !.process_started = FALSE, !.process_exited = TRUE]
             ELSE c,
           kind, "host")

(* Mutant: a fault during the handshake is not accepted.                   *)
ReportFaultRunningOnly(generation, kind) ==
  IF generation # ctl.generation
    THEN Refuse("STALE_GENERATION") /\ UNCHANGED done
  ELSE IF Pending(ctl)
    THEN Refuse("ACTION_PENDING") /\ UNCHANGED done
  ELSE IF ctl.state # "RUNNING"
    THEN Refuse("INVALID_STATE") /\ UNCHANGED done
  ELSE /\ Finish(Returns(Faulted(ctl, kind), "OK"))
       /\ Record({"FAULT"} \cup ({kind} \cap {"PROCESS_EXIT"}))

ReportFault(generation, kind) ==
  IF kind \notin {"PROCESS_EXIT", "PROTOCOL"}
    THEN Refuse("INVALID_ARGUMENT") /\ UNCHANGED done
  ELSE IF generation # ctl.generation
    THEN Refuse("STALE_GENERATION") /\ UNCHANGED done
  ELSE IF Pending(ctl)
    THEN Refuse("ACTION_PENDING") /\ UNCHANGED done
  ELSE IF ctl.state \notin {"HANDSHAKING", "RUNNING"}
    THEN Refuse("INVALID_STATE") /\ UNCHANGED done
  ELSE /\ Finish(Returns(Faulted(ctl, kind), "OK"))
       /\ Record({"FAULT"} \cup ({kind} \cap {"PROCESS_EXIT"}))

(* A host may hand back any generation and token.  They are only compared  *)
(* for equality, so the model offers those at most StaleLag away.          *)
Near(n, S) == {x \in S : x <= n + StaleLag /\ n <= x + StaleLag}

Next ==
  \/ \E closure \in Closures : SetClosure(closure)
  \/ \E kind \in DigestKinds \cup {"MANIFEST"}, zero \in BOOLEAN : SetDigest(kind, zero)
  \/ \E kind \in LimitKinds, zero \in BOOLEAN : SetLimit(kind, zero)
  \/ Start
  \/ Stop
  \/ Restart
  \/ \E g \in Near(ctl.generation, Generations), t \in Near(ctl.next_token, Tokens),
        result \in HostStatuses,
        rid \in ResourceIds \cup {0}, sid \in SandboxIds \cup {0} :
       CompleteAction(g, t, result, rid, sid)
  \/ \E g \in Near(ctl.generation, Generations) : ReportReady(g)
  \/ \E g \in Near(ctl.generation, Generations), kind \in FaultKinds : ReportFault(g, kind)

Spec == Init /\ [][Next]_vars

-----------------------------------------------------------------------------
(***************************************************************************)
(* Properties                                                              *)
(***************************************************************************)

TypeOK ==
  /\ ctl \in Controllers
  /\ ret \in Statuses
  /\ done \in [Generations -> SUBSET Events]

Stopped(d) == d \cap {"QUIESCE_SANDBOX", "TERMINATE_SANDBOX", "PROCESS_EXIT"} # {}

Reset(d) == "RESET_REQUIRED" \in d => "RESET_RESOURCES" \in d

Ordered(d) ==
  /\ "REVOKE_RESOURCES" \in d /\ "LAUNCH_SANDBOX" \in d => Stopped(d)
  /\ "RESET_RESOURCES" \in d => "REVOKE_RESOURCES" \in d
  /\ "REAP_SANDBOX" \in d => Stopped(d) /\ "REVOKE_RESOURCES" \in d /\ Reset(d)
  /\ "RELEASE_RESOURCES" \in d =>
       /\ "REVOKE_RESOURCES" \in d
       /\ Reset(d)
       /\ "LAUNCH_SANDBOX" \in d => "REAP_SANDBOX" \in d

(* Cleanup order of docs/host-actions.md, read off the history of every    *)
(* generation and not off the controller's flags: resources are revoked    *)
(* only after a launched process is known to have stopped, reset only      *)
(* after revocation, the process reaped only after the required reset, and *)
(* the resources released only when revoked, reset and without a process,  *)
(* whatever sequence of failures, retries and restarts led there.          *)
TeardownOrder == \A g \in Generations : Ordered(done[g])

(* Everything a generation acquired was given back.                        *)
Balanced(d) ==
  /\ "ALLOCATE_RESOURCES" \in d => "RELEASE_RESOURCES" \in d
  /\ "LAUNCH_SANDBOX" \in d => "REAP_SANDBOX" \in d

(* A generation starts only after all earlier ones gave back what they     *)
(* held, and an idle controller holds nothing: begin_start clears the      *)
(* bookkeeping flags, so anything still held then would be lost for good.  *)
NoGenerationOverlap ==
  \A g \in Generations :
    g < ctl.generation \/ (g = ctl.generation /\ ctl.state = "IDLE")
      => Balanced(done[g])

(* The pending action is the current one: it carries the newest token, the *)
(* current generation, live nonzero identifiers, and a configuration whose *)
(* closure is still the controller's (the action holds a pointer to it,    *)
(* which set_closure would free).                                          *)
PendingActionCurrent ==
  Pending(ctl) =>
    LET a == ctl.action IN
    /\ a.token = ctl.next_token /\ a.token # 0
    /\ a.generation = ctl.generation /\ a.generation # 0
    /\ a.configuration = ctl.configuration
    /\ CarriesResourceSet(a.type) => a.resource_set_id = ctl.resource_set_id
                                     /\ a.resource_set_id # 0
    /\ CarriesSandbox(a.type) => a.sandbox_id = ctl.sandbox_id
                                 /\ a.sandbox_id # 0

(* The controller waits for the host exactly in the two transient states:  *)
(* STARTING or STOPPING without an action would be a state no call leaves, *)
(* and an action left over in a stable state would block every event.      *)
TransientIffPending ==
  Pending(ctl) <=> ctl.state \in {"STARTING", "STOPPING"}

(* Once anything failed in a generation its sandbox is never asked to      *)
(* quiesce again, it is terminated (docs/controller-library.md: "Fault     *)
(* cleanup terminates the process").                                       *)
NoQuiesceAfterFault ==
  ctl.action.type = "QUIESCE_SANDBOX" => "FAULT" \notin done[ctl.generation]

(* The action the host is asked for fits: it exists exactly while the      *)
(* controller waits for it, it is about what the controller has now, and   *)
(* it does not rely on a sandbox that failed.                              *)
ActionFits ==
  TypeOK /\ PendingActionCurrent /\ TransientIffPending /\ NoQuiesceAfterFault

Refusals ==
  {"INVALID_ARGUMENT", "INVALID_STATE", "INVALID_CONFIGURATION",
   "ACTION_PENDING", "STALE_GENERATION", "STALE_ACTION", "NO_MEMORY"}

(* docs/controller-library.md: "Invalid input leaves the controller        *)
(* unchanged", for every refusing status.  The case to worry about is a    *)
(* restart: its begin_start runs after the action was cleared and the old  *)
(* generation torn down, so a configuration refused there would be a       *)
(* refusal that changed nearly everything.                                 *)
InvalidInputChangesNothing ==
  [][ret' \in Refusals => UNCHANGED ctl]_vars

(* No token is issued twice, across generations too, so a completion that  *)
(* is repeated or late can never match an action other than its own.       *)
TokensNeverReused ==
  [][/\ ctl'.next_token >= ctl.next_token
     /\ Pending(ctl)' /\ ctl'.action # ctl.action => ctl'.action.token > ctl.next_token
    ]_vars
=============================================================================
