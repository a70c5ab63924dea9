--------------------------- MODULE ControllerProofs ---------------------------
(***************************************************************************)
(* The lifecycle controller of src/controller/controller.c, alone and with *)
(* the reference host adapter, the sandbox process and the supervisor, for *)
(* every value of the constants.                                           *)
(*                                                                         *)
(* Alone, the controller meets a host that may answer anything. With the   *)
(* adapter its flags have to say what the host has: HostIInv relates the   *)
(* controller's resources to the adapter's and to the state of the         *)
(* process, before, while and after the host carries out an action.        *)
(***************************************************************************)
EXTENDS ControllerHost, TLAPS

-----------------------------------------------------------------------------
(***************************************************************************)
(* Type correctness                                                        *)
(***************************************************************************)

Results == [ctl : Controllers, status : Statuses]

(* Recording a fault keeps the type.                                       *)
LEMMA SetFaultType ==
  ASSUME NEW c \in Controllers, NEW kind \in FaultKinds, NEW code \in FaultCodes
  PROVE  SetFault(c, kind, code) \in Controllers
<1>1. [c EXCEPT !.state = "FAULTED"] \in Controllers
  BY Zenon DEF Controllers, States
<1>2. \A x \in Controllers : [x EXCEPT !.fault_kind = kind] \in Controllers
  BY Zenon DEF Controllers
<1>3. \A x \in Controllers : [x EXCEPT !.fault_code = code] \in Controllers
  BY Zenon DEF Controllers
<1>4. SetFault(c, kind, code) =
        [[[c EXCEPT !.state = "FAULTED"] EXCEPT !.fault_kind = kind] EXCEPT !.fault_code = code]
  BY Zenon DEF SetFault
<1> QED BY <1>1, <1>2, <1>3, <1>4, Zenon

(* Emitting an action keeps the controller well formed and, unless the     *)
(* token counter is exhausted, changes the action and the counter only.    *)
LEMMA EmitActionType ==
  ASSUME NEW c \in Controllers, NEW type \in ActionTypes
  PROVE  EmitAction(c, type) \in Results
<1> USE ControllerAssumption
<1>1. CASE c.next_token = MaxToken
  <2>1. SetFault(c, "CONTROLLER", "COUNTER_EXHAUSTED") \in Controllers
    BY SetFaultType, Zenon DEF FaultKinds, FaultCodes, Statuses
  <2> QED BY <1>1, <2>1, Zenon DEF EmitAction, Results, Returns, Statuses
<1>2. CASE c.next_token # MaxToken
  <2>1. c.next_token + 1 \in Tokens
    BY <1>2 DEF Controllers, Tokens
  <2>2. NewAction(c, type) \in Actions
    BY <2>1, Zenon DEF NewAction, Actions, Controllers
  <2> QED
    BY <1>2, <2>1, <2>2, Zenon DEF EmitAction, Results, Returns, Controllers, Statuses
<1> QED BY <1>1, <1>2, Zenon

(* begin_start returns a controller of the right type.                     *)
LEMMA BeginStartType ==
  ASSUME NEW c \in Controllers
  PROVE  BeginStart(c) \in Results
<1> USE ControllerAssumption
<1>1. CASE CounterExhausted(c) \/ ~ValidConfiguration(c.configuration)
  BY <1>1, Zenon DEF BeginStart, Results, Returns, Statuses
<1>2. CASE ~CounterExhausted(c) /\ ValidConfiguration(c.configuration)
  <2> DEFINE s == [c EXCEPT !.generation = @ + 1,
                            !.state = "STARTING",
                            !.fault_kind = "NONE",
                            !.fault_code = "0",
                            !.resource_set_id = 0,
                            !.sandbox_id = 0,
                            !.resources_allocated = FALSE,
                            !.resources_revoked = FALSE,
                            !.resources_reset = FALSE,
                            !.process_started = FALSE,
                            !.process_exited = FALSE]
  <2>1. c.generation + 1 \in Generations
    BY <1>2 DEF CounterExhausted, Controllers, Generations
  <2>2. s \in Controllers
    BY <2>1, ZenonT(30) DEF Controllers, States, FaultKinds, FaultCodes
  <2>3. BeginStart(c) = EmitAction(s, "ALLOCATE_RESOURCES")
    BY <1>2, Zenon DEF BeginStart
  <2> HIDE DEF s
  <2> QED BY <2>2, <2>3, EmitActionType, Zenon DEF ActionTypes
<1> QED BY <1>1, <1>2, Zenon

(* finish_cleanup returns a controller of the right type.                  *)
LEMMA FinishCleanupType ==
  ASSUME NEW c \in Controllers
  PROVE  FinishCleanup(c) \in Results
<1> DEFINE idle == [c EXCEPT !.restart_requested = FALSE,
                             !.state = "IDLE",
                             !.fault_kind = "NONE",
                             !.fault_code = "0"]
           start == BeginStart(idle)
<1>1. idle \in Controllers
  BY Zenon DEF Controllers, States, FaultKinds, FaultCodes
<1>2. start \in Results
  BY <1>1, BeginStartType, Zenon
<1>3. SetFault(start.ctl, "CONTROLLER", start.status) \in Controllers
  BY <1>2, SetFaultType, Zenon DEF Results, FaultKinds, FaultCodes
<1>4. FinishCleanup(c) = IF ~c.restart_requested THEN Returns(idle, "OK")
        ELSE IF start.status # "OK"
          THEN Returns(SetFault(start.ctl, "CONTROLLER", start.status), start.status)
        ELSE start
  BY Zenon DEF FinishCleanup
<1> HIDE DEF idle, start
<1> QED BY <1>1, <1>2, <1>3, <1>4 DEF Results, Returns, Statuses

(* next_cleanup_action returns a controller of the right type.             *)
LEMMA NextCleanupActionType ==
  ASSUME NEW c \in Controllers
  PROVE  NextCleanupAction(c) \in Results
BY EmitActionType, FinishCleanupType, Zenon DEF NextCleanupAction, ActionTypes

(* begin_cleanup returns a controller of the right type.                   *)
LEMMA BeginCleanupType ==
  ASSUME NEW c \in Controllers, NEW restart \in BOOLEAN
  PROVE  BeginCleanup(c, restart) \in Results
<1>1. [c EXCEPT !.graceful_stop = c.state # "FAULTED",
                !.state = "STOPPING",
                !.restart_requested = restart] \in Controllers
  BY ZenonT(30) DEF Controllers, States
<1> QED BY <1>1, NextCleanupActionType, Zenon DEF BeginCleanup

(* The successful completion of any action keeps the type.                 *)
LEMMA SucceededType ==
  ASSUME NEW c \in Controllers, NEW type \in ActionTypes,
         NEW rid \in ResourceIds \cup {0}, NEW sid \in SandboxIds \cup {0}
  PROVE  Succeeded(c, type, rid, sid) \in Results
<1>1. CASE type = "ALLOCATE_RESOURCES"
  <2>1. [c EXCEPT !.resource_set_id = rid, !.resources_allocated = TRUE] \in Controllers
    BY Zenon DEF Controllers
  <2> QED BY <1>1, <2>1, EmitActionType, Zenon DEF Succeeded, ActionTypes
<1>2. CASE type = "LAUNCH_SANDBOX"
  <2>1. [c EXCEPT !.sandbox_id = sid, !.process_started = TRUE] \in Controllers
    BY Zenon DEF Controllers
  <2> QED BY <1>2, <2>1, EmitActionType, Zenon DEF Succeeded, ActionTypes
<1>3. CASE type = "TRANSFER_RESOURCES"
  BY <1>3, Zenon DEF Succeeded, Controllers, States, Results, Returns, Statuses
<1>4. CASE type \in {"QUIESCE_SANDBOX", "TERMINATE_SANDBOX"}
  <2>1. [c EXCEPT !.process_started = FALSE, !.process_exited = TRUE] \in Controllers
    BY Zenon DEF Controllers
  <2> QED BY <1>4, <2>1, NextCleanupActionType, Zenon DEF Succeeded
<1>5. CASE type = "REAP_SANDBOX"
  <2>1. [c EXCEPT !.process_exited = FALSE, !.sandbox_id = 0] \in Controllers
    BY Zenon DEF Controllers
  <2> QED BY <1>5, <2>1, NextCleanupActionType, Zenon DEF Succeeded
<1>6. CASE type = "REVOKE_RESOURCES"
  <2>1. [c EXCEPT !.resources_revoked = TRUE] \in Controllers
    BY Zenon DEF Controllers
  <2> QED BY <1>6, <2>1, NextCleanupActionType, Zenon DEF Succeeded
<1>7. CASE type = "RESET_RESOURCES"
  <2>1. [c EXCEPT !.resources_reset = TRUE] \in Controllers
    BY Zenon DEF Controllers
  <2> QED BY <1>7, <2>1, NextCleanupActionType, Zenon DEF Succeeded
<1>8. CASE type = "RELEASE_RESOURCES"
  <2>1. [c EXCEPT !.resources_allocated = FALSE, !.resource_set_id = 0] \in Controllers
    BY Zenon DEF Controllers
  <2> QED BY <1>8, <2>1, NextCleanupActionType, Zenon DEF Succeeded
<1> QED
  BY <1>1, <1>2, <1>3, <1>4, <1>5, <1>6, <1>7, <1>8, Zenon DEF ActionTypes

(* The cleared action record has the type of an action.                    *)
LEMMA NoActionType == NoAction \in Actions
BY ControllerAssumption
   DEF NoAction, Actions, NoConfiguration, Configurations, Tokens, Generations

(* kb2_controller_complete_action, past its checks, keeps the type.        *)
LEMMA CompletedType ==
  ASSUME NEW c \in Controllers, Pending(c), NEW result \in Statuses,
         NEW rid \in ResourceIds \cup {0}, NEW sid \in SandboxIds \cup {0}
  PROVE  Completed(c, result, rid, sid) \in Results
<1>1. c.action.type \in ActionTypes
  BY Zenon DEF Controllers, Actions, Pending
<1>2. ClearAction(c) \in Controllers
  BY NoActionType, Zenon DEF ClearAction, Controllers
<1>3. SetFault(ClearAction(c), "HOST_ACTION", c.action.type) \in Controllers
  BY <1>1, <1>2, Zenon DEF SetFault, Controllers, States, FaultKinds, FaultCodes
<1>4. Succeeded(ClearAction(c), c.action.type, rid, sid) \in Results
  BY <1>1, <1>2, SucceededType, Zenon
<1> QED BY <1>3, <1>4, Zenon DEF Completed, Results, Returns

(* Adopting a closure keeps the type of the configuration.                 *)
LEMMA WithClosureType ==
  ASSUME NEW c \in Controllers, NEW closure \in Closures
  PROVE  WithClosure(c, closure) \in Controllers
<1>1. ASSUME NEW reset \in BOOLEAN
      PROVE  [c EXCEPT !.configuration =
                [@ EXCEPT !.closure = closure, !.reset_required = reset]] \in Controllers
  <2>1. [c.configuration EXCEPT !.closure = closure, !.reset_required = reset]
          \in Configurations
    BY Zenon DEF Controllers, Configurations
  <2> QED BY <2>1, Zenon DEF Controllers
<1>2. (closure \in ResetClosures) \in BOOLEAN
  OBVIOUS
<1> QED BY <1>1, <1>2, Zenon DEF WithClosure

(* A freshly created controller has its type.                              *)
LEMMA TypeInitial == Init => TypeOK
<1> USE ControllerAssumption
<1> SUFFICES ASSUME Init PROVE TypeOK BY Zenon
<1>1. ctl \in Controllers
  BY NoActionType DEF Init, Controllers, NoConfiguration, Configurations, States,
                      FaultKinds, FaultCodes, Tokens, Generations
<1> QED BY <1>1, Zenon DEF Init, TypeOK, Statuses

(* No controller call leaves the type.                                     *)
LEMMA TypeInductive == TypeOK /\ [Next]_vars => TypeOK'
<1> USE ControllerAssumption
<1> SUFFICES ASSUME TypeOK, [Next]_vars PROVE TypeOK'
  BY Zenon
<1> USE DEF TypeOK
<1>0. \A r \in Results : Finish(r) => ctl' \in Controllers /\ ret' \in Statuses
  BY Zenon DEF Finish, Results
<1>1. \A status \in Statuses :
        Refuse(status) => ctl' \in Controllers /\ ret' \in Statuses
  BY Zenon DEF Refuse
<1>2. \A events \in SUBSET Events :
        Record(events) => done' \in [Generations -> SUBSET Events]
  BY DEF Record, Controllers
<1>3. \A c \in Controllers : Returns(c, "OK") \in Results
  BY Zenon DEF Returns, Results, Statuses
<1>4. ASSUME NEW closure \in Closures, SetClosure(closure) PROVE TypeOK'
  BY <1>0, <1>1, <1>3, <1>4, WithClosureType, Zenon DEF SetClosure, Statuses
<1>5. ASSUME NEW kind \in DigestKinds \cup {"MANIFEST"}, NEW zero \in BOOLEAN,
             SetDigest(kind, zero)
      PROVE  TypeOK'
  <2>1. kind # "MANIFEST" =>
          [ctl EXCEPT !.configuration.digests = @ \cup {kind}] \in Controllers
    BY Zenon DEF Controllers, Configurations
  <2> QED BY <1>0, <1>1, <1>3, <1>5, <2>1, Zenon DEF SetDigest, Statuses
<1>6. ASSUME NEW kind \in LimitKinds, NEW zero \in BOOLEAN, SetLimit(kind, zero)
      PROVE  TypeOK'
  <2>1. [ctl EXCEPT !.configuration.limits = @ \cup {kind}] \in Controllers
    BY Zenon DEF Controllers, Configurations
  <2> QED BY <1>0, <1>1, <1>3, <1>6, <2>1, Zenon DEF SetLimit, Statuses
<1>7. CASE Start
  BY <1>0, <1>1, <1>7, BeginStartType, Zenon DEF Start, Statuses
<1>8. CASE Stop
  BY <1>0, <1>1, <1>8, BeginCleanupType, Zenon DEF Stop, Statuses
<1>9. CASE Restart
  BY <1>0, <1>1, <1>9, BeginCleanupType, Zenon DEF Restart, Statuses
<1>10. ASSUME NEW g \in Generations, NEW t \in Tokens, NEW result \in HostStatuses,
              NEW rid \in ResourceIds \cup {0}, NEW sid \in SandboxIds \cup {0},
              CompleteAction(g, t, result, rid, sid)
       PROVE  TypeOK'
  <2> DEFINE verdict == CompletionVerdict(ctl, g, t, result, rid, sid)
  <2>1. verdict \in Statuses
    BY Zenon DEF CompletionVerdict, Statuses
  <2>2. CASE verdict # "OK"
    BY <1>1, <1>10, <2>1, <2>2, Zenon DEF CompleteAction
  <2>3. CASE verdict = "OK"
    <3>1. Pending(ctl)
      BY <2>3, Zenon DEF CompletionVerdict
    <3>2. Completed(ctl, result, rid, sid) \in Results
      BY <3>1, CompletedType, Zenon
    <3>3. CompletionEvents(result) \in SUBSET Events
      <4>1. ctl.action.type \in ActionTypes
        BY <3>1, Zenon DEF Controllers, Actions, Pending
      <4> QED BY <4>1, Zenon DEF CompletionEvents, Events
    <3> QED BY <1>0, <1>2, <1>10, <2>3, <3>2, <3>3, Zenon DEF CompleteAction
  <2> QED BY <2>2, <2>3, Zenon
<1>11. ASSUME NEW g \in Generations, ReportReady(g) PROVE TypeOK'
  <2>1. [ctl EXCEPT !.state = "RUNNING"] \in Controllers
    BY Zenon DEF Controllers, States
  <2> QED BY <1>0, <1>1, <1>3, <1>11, <2>1, Zenon DEF ReportReady, Statuses
<1>12. ASSUME NEW g \in Generations, NEW kind \in FaultKinds, ReportFault(g, kind)
       PROVE  TypeOK'
  <2>1. Faulted(ctl, kind) \in Controllers
    <3>1. [ctl EXCEPT !.process_started = FALSE, !.process_exited = TRUE]
            \in Controllers
      BY Zenon DEF Controllers
    <3>2. \A c \in Controllers : SetFault(c, kind, "host") \in Controllers
      BY SetFaultType, Zenon DEF FaultCodes
    <3> QED BY <3>1, <3>2, Zenon DEF Faulted
  <2> QED
    BY <1>0, <1>1, <1>2, <1>3, <1>12, <2>1, Zenon DEF ReportFault, Statuses, Events
<1>13. CASE UNCHANGED vars
  BY <1>13, Zenon DEF vars
<1> QED
  BY <1>4, <1>5, <1>6, <1>7, <1>8, <1>9, <1>10, <1>11, <1>12, <1>13, Zenon DEF Next, Near

(* The fields of the controller, the returned status and the history have  *)
(* their types after every sequence of calls.                              *)
THEOREM TypeCorrect == Spec => []TypeOK
BY TypeInitial, TypeInductive, PTL DEF Spec

-----------------------------------------------------------------------------
(***************************************************************************)
(* The inductive invariant                                                 *)
(*                                                                         *)
(* The properties speak of the history d of a generation, the code decides *)
(* by the flags of the controller: the invariant ties one to the other.    *)
(***************************************************************************)

(* The flags are what the history of the current generation says.          *)
Tracks(c, d) ==
  /\ c.resources_allocated <=> ("ALLOCATE_RESOURCES" \in d /\ "RELEASE_RESOURCES" \notin d)
  /\ (c.process_started \/ c.process_exited)
       <=> ("LAUNCH_SANDBOX" \in d /\ "REAP_SANDBOX" \notin d)
  /\ ~(c.process_started /\ c.process_exited)
  /\ c.process_exited => Stopped(d)
  /\ c.resources_revoked <=> "REVOKE_RESOURCES" \in d
  /\ c.resources_reset <=> "RESET_RESOURCES" \in d
  /\ "LAUNCH_SANDBOX" \in d => "ALLOCATE_RESOURCES" \in d
  /\ "RESET_REQUIRED" \in d => c.configuration.reset_required \/ c.state = "IDLE"
  /\ Ordered(d)

(* The identifiers are those of what is held.                              *)
Identified(c) ==
  /\ c.resources_allocated <=> c.resource_set_id # 0
  /\ (c.process_started \/ c.process_exited) <=> c.sandbox_id # 0

(* What an action presupposes when it is emitted.                          *)
Enabling(c, type, d) ==
  LET cleaned == /\ c.resources_revoked
                 /\ c.configuration.reset_required => c.resources_reset
  IN  /\ type = "ALLOCATE_RESOURCES" => d = {}
      /\ type = "LAUNCH_SANDBOX" =>
           c.resources_allocated /\ d \subseteq {"ALLOCATE_RESOURCES", "RESET_REQUIRED"}
      /\ type \in {"TRANSFER_RESOURCES", "QUIESCE_SANDBOX", "TERMINATE_SANDBOX"} =>
           c.process_started /\ c.resources_allocated
      /\ type = "QUIESCE_SANDBOX" => "FAULT" \notin d
      /\ type = "REVOKE_RESOURCES" =>
           ~c.process_started /\ c.resources_allocated /\ ~c.resources_revoked
      /\ type = "RESET_RESOURCES" =>
           ~c.process_started /\ c.resources_allocated /\ c.resources_revoked
      /\ type = "REAP_SANDBOX" =>
           c.process_exited /\ (c.resources_allocated => cleaned)
      /\ type = "RELEASE_RESOURCES" =>
           c.resources_allocated /\ cleaned /\ ~c.process_started /\ ~c.process_exited

(* What each state of the controller implies.                              *)
Phase(c, d) ==
  /\ c.action.type \in {"ALLOCATE_RESOURCES", "LAUNCH_SANDBOX", "TRANSFER_RESOURCES"}
       <=> c.state = "STARTING"
  /\ Pending(c) <=> c.state \in {"STARTING", "STOPPING"}
  /\ c.state = "IDLE" =>
       ~c.resources_allocated /\ ~c.process_started /\ ~c.process_exited
  /\ c.state \in {"HANDSHAKING", "RUNNING"} => c.process_started
  /\ c.state \in {"STARTING", "HANDSHAKING", "RUNNING"} => "FAULT" \notin d
  /\ c.state = "STOPPING" /\ c.graceful_stop => "FAULT" \notin d
  /\ c.generation = 0 => c.state = "IDLE"
  /\ c.state # "IDLE" => ValidConfiguration(c.configuration)

(* The pending action is a faithful copy of the controller's own fields.   *)
Current(c) ==
  Pending(c) =>
    LET a == c.action IN
    /\ a.token = c.next_token /\ a.token # 0
    /\ a.generation = c.generation
    /\ a.configuration = c.configuration
    /\ a.resource_set_id = IF CarriesResourceSet(a.type) THEN c.resource_set_id ELSE 0
    /\ a.sandbox_id = IF CarriesSandbox(a.type) THEN c.sandbox_id ELSE 0

Sound(c, d) ==
  Tracks(c, d) /\ Identified(c) /\ Enabling(c, c.action.type, d) /\ Phase(c, d) /\ Current(c)

IInv ==
  /\ TypeOK
  /\ Sound(ctl, done[ctl.generation])
  /\ \A g \in Generations :
       /\ g < ctl.generation => Ordered(done[g]) /\ Balanced(done[g])
       /\ g > ctl.generation => done[g] = {}

-----------------------------------------------------------------------------
(***************************************************************************)
(* The internal functions preserve it                                      *)
(***************************************************************************)

(* The fields emit_action leaves alone.                                    *)
SameFields(c, r) ==
  /\ r.configuration = c.configuration
  /\ r.generation = c.generation
  /\ r.resource_set_id = c.resource_set_id
  /\ r.sandbox_id = c.sandbox_id
  /\ r.resources_allocated = c.resources_allocated
  /\ r.resources_revoked = c.resources_revoked
  /\ r.resources_reset = c.resources_reset
  /\ r.process_started = c.process_started
  /\ r.process_exited = c.process_exited
  /\ r.graceful_stop = c.graceful_stop

(* An action pending after a step carries a token issued by that step.     *)
Fresh(c, r) ==
  /\ r.next_token >= c.next_token
  /\ Pending(r) => r.next_token > c.next_token

(* The token counter of a controller is a natural number.                  *)
LEMMA TokenCounter ==
  ASSUME NEW c \in Controllers
  PROVE  c.next_token \in Nat
<1>1. c.next_token \in Tokens
  BY Zenon DEF Controllers
<1> QED BY <1>1, ControllerAssumption DEF Tokens

(* emit_action either faults on an exhausted counter or leaves a           *)
(* current action pending; it touches neither flags nor identities.        *)
LEMMA EmitActionEffect ==
  ASSUME NEW c \in Controllers, NEW type \in ActionTypes,
         NEW r, r = EmitAction(c, type).ctl
  PROVE  /\ SameFields(c, r)
         /\ \/ r.state = "FAULTED" /\ r.action = c.action /\ r.next_token = c.next_token
            \/ /\ r.state = c.state /\ r.action.type = type /\ Current(r)
               /\ r.next_token = c.next_token + 1
<1> USE ControllerAssumption
<1>1. CASE c.next_token = MaxToken
  BY <1>1, Zenon DEF EmitAction, Returns, SetFault, SameFields, Controllers
<1>2. CASE c.next_token # MaxToken
  <2> DEFINE a == NewAction(c, type)
             e == [c EXCEPT !.next_token = @ + 1, !.action = a]
  <2>1. r = e
    BY <1>2, Zenon DEF EmitAction, Returns
  <2>2. /\ SameFields(c, e)
        /\ e.state = c.state
        /\ e.action = a
        /\ e.next_token = c.next_token + 1
    BY Zenon DEF SameFields, Controllers
  <2>3. c.next_token + 1 # 0 /\ c.next_token + 1 > c.next_token
    BY DEF Controllers, Tokens
  <2>4. /\ a.type = type
        /\ a.token = c.next_token + 1
        /\ a.generation = c.generation
        /\ a.configuration = c.configuration
        /\ a.resource_set_id = IF CarriesResourceSet(type) THEN c.resource_set_id ELSE 0
        /\ a.sandbox_id = IF CarriesSandbox(type) THEN c.sandbox_id ELSE 0
    BY Zenon DEF NewAction
  <2> HIDE DEF a, e
  <2> QED BY <2>1, <2>2, <2>3, <2>4, Zenon DEF Current, SameFields
<1> QED BY <1>1, <1>2, Zenon

(* Tracks and Identified read only fields that emit_action leaves alone.   *)
LEMMA TracksSame ==
  ASSUME NEW c, NEW r, NEW d, SameFields(c, r),
         c.state # "IDLE", r.state # "IDLE", Tracks(c, d), Identified(c)
  PROVE  Tracks(r, d) /\ Identified(r)
BY Zenon DEF SameFields, Tracks, Identified

(* An action whose presuppositions hold leaves a sound controller, also    *)
(* when the token counter is exhausted.                                    *)
LEMMA EmitActionSound ==
  ASSUME NEW c \in Controllers, NEW type \in ActionTypes, NEW d,
         ~Pending(c), c.state \in {"STARTING", "STOPPING"}, c.generation # 0,
         c.state = "STARTING"
           <=> type \in {"ALLOCATE_RESOURCES", "LAUNCH_SANDBOX", "TRANSFER_RESOURCES"},
         c.state = "STARTING" \/ c.graceful_stop => "FAULT" \notin d,
         ValidConfiguration(c.configuration),
         Tracks(c, d), Identified(c), Enabling(c, type, d),
         NEW r, r = EmitAction(c, type).ctl
  PROVE  r.generation = c.generation /\ Sound(r, d) /\ Fresh(c, r)
<1>1. /\ SameFields(c, r)
      /\ \/ r.state = "FAULTED" /\ r.action = c.action /\ r.next_token = c.next_token
         \/ /\ r.state = c.state /\ r.action.type = type /\ Current(r)
            /\ r.next_token = c.next_token + 1
  BY EmitActionEffect
<1>0. Fresh(c, r)
  BY <1>1, TokenCounter DEF Fresh, Pending
<1>2. Tracks(r, d) /\ Identified(r)
  BY <1>1, TracksSame, Zenon
<1>3. Enabling(r, type, d)
  BY <1>1, Zenon DEF Enabling, SameFields
<1>4. CASE r.state = "FAULTED" /\ r.action = c.action /\ r.next_token = c.next_token
  <2>1. r.action.type = "NONE"
    BY <1>4, Zenon DEF Pending
  <2> QED
    BY <1>0, <1>1, <1>2, <1>4, <2>1, Zenon DEF Sound, Enabling, Phase, Current, Pending, SameFields
<1>5. CASE r.state = c.state /\ r.action.type = type /\ Current(r)
  <2>1. Phase(r, d)
    BY <1>1, <1>5, Zenon DEF Phase, Pending, SameFields, ActionTypes
  <2> QED BY <1>0, <1>1, <1>2, <1>3, <1>5, <2>1, Zenon DEF Sound, SameFields
<1> QED BY <1>1, <1>4, <1>5, Zenon

HoldsNothing(c) ==
  ~c.resources_allocated /\ ~c.process_started /\ ~c.process_exited

(* The controller stays in its generation, or starts the next one with an  *)
(* empty history after giving everything back.                             *)
Advances(c, r, d) ==
  /\ Fresh(c, r)
  /\ \/ r.generation = c.generation /\ Sound(r, d)
     \/ r.generation = c.generation + 1 /\ Ordered(d) /\ Balanced(d) /\ Sound(r, {})

(* begin_start refuses, or starts a fresh generation.                      *)
LEMMA BeginStartSound ==
  ASSUME NEW c \in Controllers, NEW d, ~Pending(c), Tracks(c, d), HoldsNothing(c),
         NEW r, r = BeginStart(c)
  PROVE  \/ r.ctl = c /\ r.status # "OK"
         \/ /\ r.ctl.generation = c.generation + 1
            /\ r.status = "OK"
            /\ Ordered(d) /\ Balanced(d)
            /\ Sound(r.ctl, {})
            /\ Fresh(c, r.ctl)
<1> USE ControllerAssumption
<1>1. CASE CounterExhausted(c) \/ ~ValidConfiguration(c.configuration)
  BY <1>1, Zenon DEF BeginStart, Returns
<1>2. CASE ~CounterExhausted(c) /\ ValidConfiguration(c.configuration)
  <2> DEFINE s == [c EXCEPT !.generation = @ + 1,
                            !.state = "STARTING",
                            !.fault_kind = "NONE",
                            !.fault_code = "0",
                            !.resource_set_id = 0,
                            !.sandbox_id = 0,
                            !.resources_allocated = FALSE,
                            !.resources_revoked = FALSE,
                            !.resources_reset = FALSE,
                            !.process_started = FALSE,
                            !.process_exited = FALSE]
             type == "ALLOCATE_RESOURCES"
  <2>1. c.generation + 1 \in Generations /\ c.generation + 1 # 0
    BY <1>2 DEF CounterExhausted, Controllers, Generations
  <2>2. s \in Controllers
    BY <2>1, ZenonT(30) DEF Controllers, States, FaultKinds, FaultCodes
  <2>3. /\ s.generation = c.generation + 1 /\ s.state = "STARTING"
        /\ s.next_token = c.next_token /\ s.action = c.action
        /\ s.configuration = c.configuration
        /\ s.resource_set_id = 0 /\ s.sandbox_id = 0
        /\ ~s.resources_allocated /\ ~s.resources_revoked /\ ~s.resources_reset
        /\ ~s.process_started /\ ~s.process_exited
    BY Zenon DEF Controllers
  <2>4. r = EmitAction(s, type)
    BY <1>2, Zenon DEF BeginStart
  <2> HIDE DEF s
  <2>5. Tracks(s, {}) /\ Identified(s) /\ Enabling(s, type, {})
    BY <2>3, Zenon DEF Tracks, Identified, Enabling, Ordered, Stopped
  <2>6. ~Pending(s)
    BY <2>3, Zenon DEF Pending
  <2>7. r.ctl.generation = s.generation /\ Sound(r.ctl, {}) /\ Fresh(s, r.ctl)
    BY <1>2, <2>1, <2>2, <2>3, <2>4, <2>5, <2>6, EmitActionSound, Zenon DEF ActionTypes
  <2>8. r.status = "OK"
    BY <1>2, <2>3, <2>4 DEF EmitAction, Returns, CounterExhausted
  <2>9. Ordered(d) /\ Balanced(d)
    BY Zenon DEF Tracks, HoldsNothing, Balanced
  <2> QED BY <2>3, <2>7, <2>8, <2>9, Zenon DEF Fresh
<1> QED BY <1>1, <1>2, Zenon

(* finish_cleanup, once nothing is held, goes idle, starts the next        *)
(* generation, or faults, and each of these is sound.                      *)
LEMMA FinishCleanupSound ==
  ASSUME NEW c \in Controllers, NEW d, ~Pending(c), c.state = "STOPPING",
         c.generation # 0, ValidConfiguration(c.configuration),
         Tracks(c, d), Identified(c), HoldsNothing(c),
         NEW r, r = FinishCleanup(c).ctl
  PROVE  Advances(c, r, d)
<1> DEFINE idle == [c EXCEPT !.restart_requested = FALSE,
                             !.state = "IDLE",
                             !.fault_kind = "NONE",
                             !.fault_code = "0"]
           start == BeginStart(idle)
           failed == SetFault(idle, "CONTROLLER", start.status)
<1>1. idle \in Controllers
  BY Zenon DEF Controllers, States, FaultKinds, FaultCodes
<1>2. /\ SameFields(c, idle) /\ idle.state = "IDLE" /\ idle.action = c.action
      /\ SameFields(c, failed) /\ failed.state = "FAULTED" /\ failed.action = c.action
      /\ idle.next_token = c.next_token /\ failed.next_token = c.next_token
  BY Zenon DEF SameFields, SetFault, Controllers
<1>3. r = IF ~c.restart_requested THEN idle
          ELSE IF start.status # "OK" THEN SetFault(start.ctl, "CONTROLLER", start.status)
          ELSE start.ctl
  BY Zenon DEF FinishCleanup, Returns
<1>4. \/ start.ctl = idle /\ start.status # "OK"
      \/ /\ start.ctl.generation = idle.generation + 1
         /\ start.status = "OK"
         /\ Ordered(d) /\ Balanced(d)
         /\ Sound(start.ctl, {})
         /\ Fresh(idle, start.ctl)
  <2> HIDE DEF idle
  <2>1. Tracks(idle, d) /\ HoldsNothing(idle) /\ ~Pending(idle)
    BY <1>2, Zenon DEF Tracks, HoldsNothing, Pending, SameFields
  <2> QED BY <1>1, <2>1, BeginStartSound, Zenon
<1> HIDE DEF idle, start, failed
<1>5. c.action.type = "NONE" /\ Fresh(c, idle) /\ Fresh(c, failed)
  BY <1>2 DEF Pending, Fresh, Controllers, Tokens
<1>6. Sound(idle, d)
  BY <1>2, <1>5, Zenon DEF Sound, Tracks, Identified, Enabling, Phase, Current, Pending,
                    HoldsNothing, SameFields
<1>7. Sound(failed, d)
  <2>1. Tracks(failed, d) /\ Identified(failed)
    BY <1>2, TracksSame, Zenon
  <2> QED
    BY <1>2, <1>5, <2>1, Zenon DEF Sound, Enabling, Phase, Current, Pending, SameFields
<1>8. CASE ~c.restart_requested
  BY <1>2, <1>3, <1>5, <1>6, <1>8, Zenon DEF Advances, SameFields
<1>9. CASE c.restart_requested
  BY <1>2, <1>3, <1>4, <1>5, <1>7, <1>9 DEF Advances, SameFields, Fresh, failed
<1> QED BY <1>8, <1>9, Zenon

(* next_cleanup_action keeps the teardown order: what it emits is the      *)
(* first step still owed.                                                  *)
LEMMA NextCleanupActionSound ==
  ASSUME NEW c \in Controllers, NEW d, ~Pending(c), c.state = "STOPPING",
         c.generation # 0, c.graceful_stop => "FAULT" \notin d,
         ValidConfiguration(c.configuration), Tracks(c, d), Identified(c),
         NEW r, r = NextCleanupAction(c).ctl
  PROVE  Advances(c, r, d)
<1> DEFINE cleanup == {"QUIESCE_SANDBOX", "TERMINATE_SANDBOX", "REVOKE_RESOURCES",
                       "RESET_RESOURCES", "REAP_SANDBOX", "RELEASE_RESOURCES"}
<1>1. \/ \E type \in cleanup : r = EmitAction(c, type).ctl /\ Enabling(c, type, d)
      \/ HoldsNothing(c) /\ r = FinishCleanup(c).ctl
  BY Zenon DEF NextCleanupAction, Enabling, HoldsNothing, Tracks, Ordered
<1>2. ASSUME NEW type \in cleanup, r = EmitAction(c, type).ctl, Enabling(c, type, d)
      PROVE  Advances(c, r, d)
  BY <1>2, EmitActionSound DEF Advances, ActionTypes
<1> QED BY <1>1, <1>2, FinishCleanupSound, Zenon

(* A successful action, recorded in the history, leads to a sound          *)
(* controller; the cases are those of complete_action's switch.            *)
LEMMA SucceededSound ==
  ASSUME NEW c \in Controllers, NEW d, Pending(c), Sound(c, d),
         NEW rid \in ResourceIds \cup {0}, NEW sid \in SandboxIds \cup {0},
         NEW type, type = c.action.type, CompletionIdsValid(type, "OK", rid, sid),
         NEW e, e = {type} \cup
                    (IF type = "ALLOCATE_RESOURCES" /\ c.configuration.reset_required
                       THEN {"RESET_REQUIRED"} ELSE {}),
         NEW r, r = Succeeded(ClearAction(c), type, rid, sid).ctl
  PROVE  Advances(c, r, d \cup e)
<1> DEFINE f == ClearAction(c)
           h == d \cup e
<1> USE ControllerAssumption
<1>1. /\ f \in Controllers /\ SameFields(c, f) /\ f.state = c.state /\ ~Pending(f)
      /\ f.next_token = c.next_token
  BY NoActionType, Zenon DEF ClearAction, SameFields, Controllers, Pending, NoAction
<1>2. /\ c.state \in {"STARTING", "STOPPING"} /\ c.generation # 0
      /\ ValidConfiguration(c.configuration)
  BY Zenon DEF Sound, Phase
<1>3. Tracks(f, d) /\ Identified(f)
  <2> HIDE DEF f
  <2> QED BY <1>1, <1>2, TracksSame, Zenon DEF Sound
<1>4. Enabling(f, type, d)
  <2> HIDE DEF f
  <2> QED BY <1>1, Zenon DEF Sound, Enabling, SameFields
<1>5. c.state = "STARTING" \/ f.graceful_stop => "FAULT" \notin d
  <2> HIDE DEF f
  <2> QED BY <1>1, <1>2, Zenon DEF Sound, Phase, SameFields
<1>6. c.state = "STARTING"
        <=> type \in {"ALLOCATE_RESOURCES", "LAUNCH_SANDBOX", "TRANSFER_RESOURCES"}
  BY Zenon DEF Sound, Phase
<1>7. r = Succeeded(f, type, rid, sid).ctl /\ f.generation = c.generation
  BY <1>1, Zenon DEF SameFields
<1>8. type \in ActionTypes
  BY Zenon DEF Controllers, Actions, Pending
<1> HIDE DEF f
<1>9. "FAULT" \in h => "FAULT" \in d
  BY <1>8, Zenon DEF ActionTypes
<1>10. CASE type = "ALLOCATE_RESOURCES"
  <2> DEFINE n == [f EXCEPT !.resource_set_id = rid, !.resources_allocated = TRUE]
  <2>1. /\ n \in Controllers /\ n.resource_set_id = rid /\ n.resources_allocated
        /\ n.state = f.state /\ n.action = f.action /\ n.generation = f.generation
        /\ n.next_token = f.next_token
        /\ n.configuration = f.configuration /\ n.sandbox_id = f.sandbox_id
        /\ n.resources_revoked = f.resources_revoked
        /\ n.resources_reset = f.resources_reset
        /\ n.process_started = f.process_started
        /\ n.process_exited = f.process_exited
        /\ n.graceful_stop = f.graceful_stop
    BY <1>1, Zenon DEF Controllers
  <2>2. r = EmitAction(n, "LAUNCH_SANDBOX").ctl
    BY <1>7, <1>10, Zenon DEF Succeeded
  <2> HIDE DEF n
  <2>3. d = {} /\ h = e
    BY <1>4, <1>10, Zenon DEF Enabling
  <2>4. Tracks(n, h)
    BY <1>1, <1>3, <1>10, <2>1, <2>3, Zenon DEF Tracks, Ordered, Stopped, SameFields
  <2>5. Identified(n)
    BY <1>3, <1>10, <2>1, Zenon DEF Identified, CompletionIdsValid
  <2>6. Enabling(n, "LAUNCH_SANDBOX", h)
    BY <1>10, <2>1, <2>3, Zenon DEF Enabling
  <2>7. ~Pending(n)
    BY <1>1, <2>1, Zenon DEF Pending
  <2>8. /\ n.state = "STARTING" /\ n.generation = c.generation /\ n.generation # 0
        /\ n.next_token = c.next_token /\ ValidConfiguration(n.configuration)
        /\ "FAULT" \notin h
    BY <1>1, <1>2, <1>5, <1>6, <1>9, <1>10, <2>1, Zenon DEF SameFields
  <2>9. "LAUNCH_SANDBOX" \in ActionTypes
    BY Zenon DEF ActionTypes
  <2>10. r.generation = n.generation /\ Sound(r, h) /\ Fresh(n, r)
    BY <2>1, <2>2, <2>4, <2>5, <2>6, <2>7, <2>8, <2>9, EmitActionSound, Zenon
  <2> QED
    BY <2>8, <2>10, Zenon DEF Advances, Fresh
<1>11. CASE type = "LAUNCH_SANDBOX"
  <2> DEFINE n == [f EXCEPT !.sandbox_id = sid, !.process_started = TRUE]
  <2>1. /\ n \in Controllers /\ n.sandbox_id = sid /\ n.process_started
        /\ n.state = f.state /\ n.action = f.action /\ n.generation = f.generation
        /\ n.next_token = f.next_token
        /\ n.configuration = f.configuration /\ n.resource_set_id = f.resource_set_id
        /\ n.resources_allocated = f.resources_allocated
        /\ n.resources_revoked = f.resources_revoked
        /\ n.resources_reset = f.resources_reset
        /\ n.process_exited = f.process_exited
        /\ n.graceful_stop = f.graceful_stop
    BY <1>1, Zenon DEF Controllers
  <2>2. r = EmitAction(n, "TRANSFER_RESOURCES").ctl
    BY <1>7, <1>11, Zenon DEF Succeeded
  <2> HIDE DEF n
  <2>3. /\ d \subseteq {"ALLOCATE_RESOURCES", "RESET_REQUIRED"}
        /\ f.resources_allocated /\ h = d \cup {"LAUNCH_SANDBOX"}
    BY <1>4, <1>11, Zenon DEF Enabling
  <2>4. Tracks(n, h)
    BY <1>1, <1>3, <1>11, <2>1, <2>3, Zenon DEF Tracks, Ordered, Stopped, SameFields
  <2>5. Identified(n)
    BY <1>3, <1>11, <2>1, Zenon DEF Identified, CompletionIdsValid
  <2>6. Enabling(n, "TRANSFER_RESOURCES", h)
    BY <1>11, <2>1, <2>3, Zenon DEF Enabling
  <2>7. ~Pending(n)
    BY <1>1, <2>1, Zenon DEF Pending
  <2>8. /\ n.state = "STARTING" /\ n.generation = c.generation /\ n.generation # 0
        /\ n.next_token = c.next_token /\ ValidConfiguration(n.configuration)
        /\ "FAULT" \notin h
    BY <1>1, <1>2, <1>5, <1>6, <1>9, <1>11, <2>1, Zenon DEF SameFields
  <2>9. "TRANSFER_RESOURCES" \in ActionTypes
    BY Zenon DEF ActionTypes
  <2>10. r.generation = n.generation /\ Sound(r, h) /\ Fresh(n, r)
    BY <2>1, <2>2, <2>4, <2>5, <2>6, <2>7, <2>8, <2>9, EmitActionSound, Zenon
  <2> QED
    BY <2>8, <2>10, Zenon DEF Advances, Fresh
<1>12. CASE type = "TRANSFER_RESOURCES"
  <2>1. /\ SameFields(f, r) /\ r.state = "HANDSHAKING" /\ r.action = f.action
        /\ r.next_token = c.next_token
    BY <1>1, <1>7, <1>12 DEF Succeeded, Returns, SameFields, Controllers
  <2>2. h = d \cup {"TRANSFER_RESOURCES"} /\ r.action.type = "NONE"
    BY <1>1, <1>12, <2>1, Zenon DEF Pending
  <2>3. Tracks(r, h) /\ Identified(r)
    <3>1. Tracks(r, d) /\ Identified(r)
      BY <1>1, <1>2, <1>3, <2>1, TracksSame
    <3> QED BY <2>2, <3>1, Zenon DEF Tracks, Ordered, Stopped, Reset
  <2>4. Phase(r, h)
    BY <1>1, <1>2, <1>4, <1>5, <1>6, <1>7, <1>12, <2>1, <2>2, Zenon
       DEF Phase, Pending, Enabling, SameFields
  <2>5. Enabling(r, r.action.type, h) /\ Current(r)
    BY <2>2, Zenon DEF Enabling, Current, Pending
  <2>6. Fresh(c, r)
    BY <2>1, <2>2, TokenCounter DEF Fresh, Pending
  <2> QED BY <1>7, <2>1, <2>3, <2>4, <2>5, <2>6, Zenon DEF Advances, Sound, SameFields
<1>13. ASSUME NEW n \in Controllers, n.state = f.state, n.action = f.action,
              n.generation = f.generation, n.next_token = f.next_token,
              n.graceful_stop = f.graceful_stop, n.configuration = f.configuration,
              Tracks(n, h), Identified(n), r = NextCleanupAction(n).ctl,
              type \notin {"ALLOCATE_RESOURCES", "LAUNCH_SANDBOX", "TRANSFER_RESOURCES"}
       PROVE  Advances(c, r, h)
  <2>1. /\ n.state = "STOPPING" /\ n.generation # 0 /\ ~Pending(n)
        /\ ValidConfiguration(n.configuration)
    BY <1>1, <1>2, <1>6, <1>7, <1>13, Zenon DEF Pending, SameFields
  <2>2. n.graceful_stop => "FAULT" \notin h
    BY <1>5, <1>9, <1>13, Zenon
  <2>3. Advances(n, r, h)
    BY <1>13, <2>1, <2>2, NextCleanupActionSound, Zenon
  <2> QED BY <1>1, <1>7, <1>13, <2>3, Zenon DEF Advances, Fresh
<1>14. CASE type \in {"QUIESCE_SANDBOX", "TERMINATE_SANDBOX"}
  <2> DEFINE n == [f EXCEPT !.process_started = FALSE, !.process_exited = TRUE]
  <2>1. /\ n \in Controllers /\ ~n.process_started /\ n.process_exited
        /\ n.state = f.state /\ n.action = f.action /\ n.generation = f.generation
        /\ n.next_token = f.next_token
        /\ n.graceful_stop = f.graceful_stop
        /\ n.configuration = f.configuration
        /\ n.resource_set_id = f.resource_set_id
        /\ n.sandbox_id = f.sandbox_id
        /\ n.resources_allocated = f.resources_allocated
        /\ n.resources_revoked = f.resources_revoked
        /\ n.resources_reset = f.resources_reset
    BY <1>1, ZenonT(30) DEF Controllers
  <2>2. r = NextCleanupAction(n).ctl
    BY <1>7, <1>14, Zenon DEF Succeeded
  <2> HIDE DEF n
  <2>3. h = d \cup {type}
    BY <1>14, Zenon
  <2>4. Tracks(n, h)
    BY <1>3, <1>4, <1>14, <2>1, <2>3, Zenon
       DEF Tracks, Enabling, Ordered, Stopped, Reset
  <2>5. Identified(n)
    BY <1>3, <1>4, <1>14, <2>1, Zenon DEF Identified, Enabling
  <2> QED BY <1>13, <1>14, <2>1, <2>2, <2>4, <2>5, Zenon
<1>15. CASE type = "REAP_SANDBOX"
  <2> DEFINE n == [f EXCEPT !.process_exited = FALSE, !.sandbox_id = 0]
  <2>1. /\ n \in Controllers /\ ~n.process_exited /\ n.sandbox_id = 0
        /\ n.state = f.state /\ n.action = f.action /\ n.generation = f.generation
        /\ n.next_token = f.next_token
        /\ n.graceful_stop = f.graceful_stop
        /\ n.configuration = f.configuration
        /\ n.resource_set_id = f.resource_set_id
        /\ n.resources_allocated = f.resources_allocated
        /\ n.resources_revoked = f.resources_revoked
        /\ n.resources_reset = f.resources_reset
        /\ n.process_started = f.process_started
    BY <1>1, Zenon DEF Controllers
  <2>2. r = NextCleanupAction(n).ctl
    BY <1>7, <1>15, Zenon DEF Succeeded
  <2> HIDE DEF n
  <2>3. h = d \cup {type}
    BY <1>15, Zenon
  <2>4. Tracks(n, h)
    BY <1>1, <1>2, <1>3, <1>4, <1>15, <2>1, <2>3, Zenon
       DEF Tracks, Enabling, Ordered, Stopped, Reset
  <2>5. Identified(n)
    BY <1>3, <1>4, <1>15, <2>1, Zenon DEF Identified, Enabling, Tracks
  <2> QED BY <1>13, <1>15, <2>1, <2>2, <2>4, <2>5, Zenon
<1>16. CASE type = "REVOKE_RESOURCES"
  <2> DEFINE n == [f EXCEPT !.resources_revoked = TRUE]
  <2>1. /\ n \in Controllers /\ n.resources_revoked
        /\ n.state = f.state /\ n.action = f.action /\ n.generation = f.generation
        /\ n.next_token = f.next_token
        /\ n.graceful_stop = f.graceful_stop
        /\ n.configuration = f.configuration
        /\ n.resource_set_id = f.resource_set_id
        /\ n.sandbox_id = f.sandbox_id
        /\ n.resources_allocated = f.resources_allocated
        /\ n.resources_reset = f.resources_reset
        /\ n.process_started = f.process_started
        /\ n.process_exited = f.process_exited
    BY <1>1, Zenon DEF Controllers
  <2>2. r = NextCleanupAction(n).ctl
    BY <1>7, <1>16, Zenon DEF Succeeded
  <2> HIDE DEF n
  <2>3. h = d \cup {type}
    BY <1>16, Zenon
  <2>4. Tracks(n, h)
    BY <1>3, <1>4, <1>16, <2>1, <2>3, Zenon
       DEF Tracks, Enabling, Ordered, Stopped, Reset
  <2>5. Identified(n)
    BY <1>3, <1>4, <1>16, <2>1, Zenon DEF Identified, Enabling
  <2> QED BY <1>13, <1>16, <2>1, <2>2, <2>4, <2>5, Zenon
<1>17. CASE type = "RESET_RESOURCES"
  <2> DEFINE n == [f EXCEPT !.resources_reset = TRUE]
  <2>1. /\ n \in Controllers /\ n.resources_reset
        /\ n.state = f.state /\ n.action = f.action /\ n.generation = f.generation
        /\ n.next_token = f.next_token
        /\ n.graceful_stop = f.graceful_stop
        /\ n.configuration = f.configuration
        /\ n.resource_set_id = f.resource_set_id
        /\ n.sandbox_id = f.sandbox_id
        /\ n.resources_allocated = f.resources_allocated
        /\ n.resources_revoked = f.resources_revoked
        /\ n.process_started = f.process_started
        /\ n.process_exited = f.process_exited
    BY <1>1, Zenon DEF Controllers
  <2>2. r = NextCleanupAction(n).ctl
    BY <1>7, <1>17, Zenon DEF Succeeded
  <2> HIDE DEF n
  <2>3. h = d \cup {type}
    BY <1>17, Zenon
  <2>4. Tracks(n, h)
    BY <1>3, <1>4, <1>17, <2>1, <2>3, Zenon
       DEF Tracks, Enabling, Ordered, Stopped, Reset
  <2>5. Identified(n)
    BY <1>3, <1>4, <1>17, <2>1, Zenon DEF Identified, Enabling
  <2> QED BY <1>13, <1>17, <2>1, <2>2, <2>4, <2>5, Zenon
<1>18. CASE type = "RELEASE_RESOURCES"
  <2> DEFINE n == [f EXCEPT !.resources_allocated = FALSE, !.resource_set_id = 0]
  <2>1. /\ n \in Controllers /\ ~n.resources_allocated /\ n.resource_set_id = 0
        /\ n.state = f.state /\ n.action = f.action /\ n.generation = f.generation
        /\ n.next_token = f.next_token
        /\ n.graceful_stop = f.graceful_stop
        /\ n.configuration = f.configuration
        /\ n.sandbox_id = f.sandbox_id
        /\ n.resources_revoked = f.resources_revoked
        /\ n.resources_reset = f.resources_reset
        /\ n.process_started = f.process_started
        /\ n.process_exited = f.process_exited
    BY <1>1, Zenon DEF Controllers
  <2>2. r = NextCleanupAction(n).ctl
    BY <1>7, <1>18, Zenon DEF Succeeded
  <2> HIDE DEF n
  <2>3. h = d \cup {type}
    BY <1>18, Zenon
  <2>4. Tracks(n, h)
    BY <1>1, <1>2, <1>3, <1>4, <1>18, <2>1, <2>3, Zenon
       DEF Tracks, Enabling, Ordered, Stopped, Reset
  <2>5. Identified(n)
    BY <1>3, <1>4, <1>18, <2>1, Zenon DEF Identified, Enabling
  <2> QED BY <1>13, <1>18, <2>1, <2>2, <2>4, <2>5, Zenon
<1> QED
  BY <1>8, <1>10, <1>11, <1>12, <1>14, <1>15, <1>16, <1>17, <1>18, Zenon DEF ActionTypes

-----------------------------------------------------------------------------
(***************************************************************************)
(* The public calls preserve it                                            *)
(***************************************************************************)

LEMMA InitSound == Init => IInv
<1> SUFFICES ASSUME Init PROVE IInv
  BY Zenon
<1>1. TypeOK
  BY TypeInitial, Zenon
<1>2. done[ctl.generation] = {} /\ \A g \in Generations : done[g] = {}
  BY ControllerAssumption DEF Init, Generations
<1>3. Sound(ctl, {})
  BY Zenon DEF Init, NoAction, Sound, Tracks, Identified, Enabling, Phase, Current, Pending,
         Ordered, Stopped, Reset
<1>4. \A g \in Generations : ~(g < ctl.generation)
  BY DEF Init, Generations
<1> QED BY <1>1, <1>2, <1>3, <1>4, Zenon DEF IInv

(* Setting a part of the configuration touches no other field.             *)
LEMMA ConfigureSound ==
  ASSUME NEW c \in Controllers, NEW d, c.state = "IDLE", ~Pending(c), Sound(c, d),
         NEW cfg, NEW r, r = [c EXCEPT !.configuration = cfg]
  PROVE  Advances(c, r, d)
<1>1. /\ r.state = "IDLE" /\ r.action = c.action /\ r.generation = c.generation
      /\ r.next_token = c.next_token /\ r.next_token >= c.next_token
      /\ r.resource_set_id = c.resource_set_id /\ r.sandbox_id = c.sandbox_id
      /\ r.resources_allocated = c.resources_allocated
      /\ r.resources_revoked = c.resources_revoked
      /\ r.resources_reset = c.resources_reset
      /\ r.process_started = c.process_started
      /\ r.process_exited = c.process_exited
  BY DEF Controllers, Tokens
<1>2. c.action.type = "NONE"
  BY Zenon DEF Pending
<1> QED
  BY <1>1, <1>2, Zenon DEF Advances, Fresh, Sound, Tracks, Identified, Enabling, Phase, Current, Pending

(* kb2_controller_complete_action, past its checks, preserves soundness    *)
(* whatever the host answered.                                             *)
LEMMA CompletedSound ==
  ASSUME NEW c \in Controllers, NEW d, Pending(c), Sound(c, d),
         NEW rid \in ResourceIds \cup {0}, NEW sid \in SandboxIds \cup {0},
         NEW result, CompletionIdsValid(c.action.type, result, rid, sid),
         NEW e,
         e = IF result # "OK" THEN {"FAULT"}
             ELSE {c.action.type} \cup
                  (IF c.action.type = "ALLOCATE_RESOURCES" /\ c.configuration.reset_required
                     THEN {"RESET_REQUIRED"} ELSE {}),
         NEW r, r = Completed(c, result, rid, sid).ctl
  PROVE  Advances(c, r, d \cup e)
<1>1. CASE result = "OK"
  <2>1. r = Succeeded(ClearAction(c), c.action.type, rid, sid).ctl
    BY <1>1, Zenon DEF Completed
  <2> QED BY <1>1, <2>1, SucceededSound, Zenon
<1>2. CASE result # "OK"
  <2>1. /\ SameFields(c, r) /\ r.state = "FAULTED" /\ r.action = NoAction
        /\ r.next_token = c.next_token
    BY <1>2, Zenon DEF Completed, Returns, SetFault, ClearAction, SameFields, Controllers
  <2>2. c.state # "IDLE" /\ c.generation # 0 /\ ValidConfiguration(c.configuration)
    BY Zenon DEF Sound, Phase
  <2>3. Tracks(r, d) /\ Identified(r)
    BY <2>1, <2>2, TracksSame, Zenon DEF Sound
  <2>4. Tracks(r, d \cup e)
    BY <1>2, <2>3, Zenon DEF Tracks, Ordered, Stopped, Reset
  <2>5. c.next_token >= c.next_token
    BY DEF Controllers, Tokens
  <2>6. r.action.type = "NONE" /\ ~Pending(r)
    BY <2>1 DEF NoAction, Pending
  <2>7. Enabling(r, r.action.type, d \cup e) /\ Current(r)
    BY <2>6, Zenon DEF Enabling, Current
  <2>8. r.generation = c.generation /\ r.configuration = c.configuration
    BY <2>1, Zenon DEF SameFields
  <2>9. Phase(r, d \cup e)
    BY <2>1, <2>2, <2>6, <2>8, Zenon DEF Phase
  <2>10. Fresh(c, r)
    BY <2>1, <2>5, <2>6, Zenon DEF Fresh
  <2> QED
    BY <2>3, <2>4, <2>7, <2>8, <2>9, <2>10, Zenon DEF Advances, Sound
<1> QED BY <1>1, <1>2, Zenon

(* A step keeps the invariant, and what it changes it changes with a fresh *)
(* token.                                                                  *)
Preserves == IInv' /\ (UNCHANGED ctl \/ Fresh(ctl, ctl'))

(* IInv is inductive: one step per public call.                            *)
LEMMA InductiveStep == IInv /\ [Next]_vars => Preserves
<1> SUFFICES ASSUME IInv, [Next]_vars PROVE Preserves
  BY Zenon
<1> DEFINE d == done[ctl.generation]
<1> USE ControllerAssumption
<1>1. TypeOK /\ TypeOK'
  BY TypeInductive, Zenon DEF IInv
<1>2. ctl \in Controllers /\ ctl.generation \in Generations /\ Sound(ctl, d)
  BY <1>1, Zenon DEF IInv, TypeOK, Controllers
<1>3. ASSUME Advances(ctl, ctl', done'[ctl.generation]),
             \A g \in Generations : g # ctl.generation => done'[g] = done[g]
      PROVE  Preserves
  <2>1. CASE ctl'.generation = ctl.generation /\ Sound(ctl', done'[ctl.generation])
    BY <1>1, <1>2, <1>3, <2>1 DEF Preserves, Advances, IInv, Generations
  <2>2. CASE /\ ctl'.generation = ctl.generation + 1
             /\ Ordered(done'[ctl.generation]) /\ Balanced(done'[ctl.generation])
             /\ Sound(ctl', {})
    <3>1. ctl'.generation \in Generations
      BY <1>1, Zenon DEF TypeOK, Controllers
    <3>2. done'[ctl'.generation] = {}
      BY <1>2, <1>3, <2>2, <3>1 DEF IInv, Generations
    <3>3. \A g \in Generations :
            /\ g < ctl'.generation => g < ctl.generation \/ g = ctl.generation
            /\ g > ctl'.generation => g > ctl.generation
      BY <1>2, <2>2 DEF Generations
    <3> QED
      BY <1>1, <1>2, <1>3, <2>2, <3>2, <3>3 DEF Preserves, Advances, IInv, Generations
  <2> QED BY <1>3, <2>1, <2>2, Zenon DEF Advances
<1>4. ASSUME UNCHANGED ctl, UNCHANGED done PROVE Preserves
  BY <1>1, <1>4, Zenon DEF Preserves, IInv
<1>5. ASSUME Advances(ctl, ctl', d), UNCHANGED done PROVE Preserves
  BY <1>3, <1>5, Zenon
<1>6. ASSUME NEW cfg, Configurable, ctl' = [ctl EXCEPT !.configuration = cfg],
             UNCHANGED done
      PROVE  Preserves
  BY <1>2, <1>5, <1>6, ConfigureSound, Zenon DEF Configurable
<1>7. ASSUME NEW closure \in Closures, SetClosure(closure) PROVE Preserves
  BY <1>4, <1>6, <1>7, Zenon DEF SetClosure, WithClosure, Finish, Refuse, Returns
<1>8. ASSUME NEW kind \in DigestKinds \cup {"MANIFEST"}, NEW zero \in BOOLEAN,
             SetDigest(kind, zero)
      PROVE  Preserves
  BY <1>4, <1>6, <1>8, Zenon DEF SetDigest, Finish, Refuse, Returns
<1>9. ASSUME NEW kind \in LimitKinds, NEW zero \in BOOLEAN, SetLimit(kind, zero)
      PROVE  Preserves
  BY <1>4, <1>6, <1>9, Zenon DEF SetLimit, Finish, Refuse, Returns
<1>10. CASE Start
  <2>1. CASE ctl.state # "IDLE" \/ Pending(ctl)
    BY <1>4, <1>10, <2>1, Zenon DEF Start, Refuse
  <2>2. CASE ctl.state = "IDLE" /\ ~Pending(ctl)
    <3>1. ctl' = BeginStart(ctl).ctl /\ UNCHANGED done
      BY <1>10, <2>2, Zenon DEF Start, Finish
    <3>2. HoldsNothing(ctl) /\ Tracks(ctl, d)
      BY <1>2, <2>2, Zenon DEF Sound, Phase, HoldsNothing
    <3>3. Advances(ctl, ctl', d)
      <4>1. Fresh(ctl, ctl)
        BY <1>2, <2>2, TokenCounter DEF Fresh
      <4> QED BY <1>2, <2>2, <3>1, <3>2, <4>1, BeginStartSound DEF Advances
    <3> QED BY <1>5, <3>1, <3>3, Zenon
  <2> QED BY <2>1, <2>2, Zenon
<1>11. ASSUME NEW restart \in BOOLEAN, ~Pending(ctl), Stoppable,
              ctl' = BeginCleanup(ctl, restart).ctl, UNCHANGED done
       PROVE  Preserves
  <2> DEFINE n == [ctl EXCEPT !.graceful_stop = ctl.state # "FAULTED",
                              !.state = "STOPPING",
                              !.restart_requested = restart]
  <2>1. n \in Controllers
    BY <1>2, ZenonT(30) DEF Controllers, States
  <2>2. /\ n.state = "STOPPING" /\ n.action = ctl.action
        /\ n.next_token = ctl.next_token
        /\ n.generation = ctl.generation /\ n.configuration = ctl.configuration
        /\ n.resource_set_id = ctl.resource_set_id /\ n.sandbox_id = ctl.sandbox_id
        /\ n.resources_allocated = ctl.resources_allocated
        /\ n.resources_revoked = ctl.resources_revoked
        /\ n.resources_reset = ctl.resources_reset
        /\ n.process_started = ctl.process_started
        /\ n.process_exited = ctl.process_exited
    BY <1>2, Zenon DEF Controllers
  <2>3. n.graceful_stop => ctl.state # "FAULTED"
    BY <1>2, Zenon DEF Controllers
  <2>4. ctl' = NextCleanupAction(n).ctl
    BY <1>11, Zenon DEF BeginCleanup
  <2> HIDE DEF n
  <2>5. Tracks(n, d) /\ Identified(n) /\ ~Pending(n)
    BY <1>2, <1>11, <2>2, Zenon DEF Sound, Tracks, Identified, Pending, Stoppable
  <2>6. /\ n.generation # 0 /\ (n.graceful_stop => "FAULT" \notin d)
        /\ ValidConfiguration(n.configuration)
    BY <1>2, <1>11, <2>2, <2>3, Zenon DEF Sound, Phase, Stoppable
  <2>7. Advances(n, ctl', d)
    BY <2>1, <2>2, <2>4, <2>5, <2>6, NextCleanupActionSound, Zenon
  <2> QED BY <1>5, <1>11, <2>2, <2>7, Zenon DEF Advances, Fresh
<1>12. CASE Stop
  BY <1>4, <1>11, <1>12, Zenon DEF Stop, Finish, Refuse
<1>13. CASE Restart
  BY <1>4, <1>11, <1>13, Zenon DEF Restart, Finish, Refuse
<1>14. ASSUME NEW g, NEW t, NEW result \in HostStatuses,
              NEW rid \in ResourceIds \cup {0}, NEW sid \in SandboxIds \cup {0},
              CompleteAction(g, t, result, rid, sid)
       PROVE  Preserves
  <2> DEFINE verdict == CompletionVerdict(ctl, g, t, result, rid, sid)
             e == CompletionEvents(result)
  <2>1. CASE verdict # "OK"
    BY <1>4, <1>14, <2>1, Zenon DEF CompleteAction, Refuse
  <2>2. CASE verdict = "OK"
    <3>1. Pending(ctl) /\ CompletionIdsValid(ctl.action.type, result, rid, sid)
      BY <2>2, Zenon DEF CompletionVerdict
    <3>2. ctl' = Completed(ctl, result, rid, sid).ctl
          /\ done' = [done EXCEPT ![ctl.generation] = d \cup e]
      BY <1>14, <2>2, Zenon DEF CompleteAction, Finish, Record
    <3>3. Advances(ctl, ctl', d \cup e)
      BY <1>2, <3>1, <3>2, CompletedSound, Zenon DEF CompletionEvents
    <3> HIDE DEF e
    <3>4. /\ done'[ctl.generation] = d \cup e
          /\ \A x \in Generations : x # ctl.generation => done'[x] = done[x]
      BY <1>1, <1>2, <3>2, Zenon DEF TypeOK
    <3> QED BY <1>3, <3>3, <3>4, Zenon
  <2> QED BY <2>1, <2>2, Zenon
<1>15. ASSUME NEW g, ReportReady(g) PROVE Preserves
  <2>1. CASE g # ctl.generation \/ Pending(ctl) \/ ctl.state # "HANDSHAKING"
    BY <1>4, <1>15, <2>1, Zenon DEF ReportReady, Refuse
  <2>2. CASE ~Pending(ctl) /\ g = ctl.generation /\ ctl.state = "HANDSHAKING"
    <3>1. ctl' = [ctl EXCEPT !.state = "RUNNING"] /\ UNCHANGED done
      BY <1>15, <2>2, Zenon DEF ReportReady, Finish, Returns
    <3>2. /\ SameFields(ctl, ctl') /\ ctl'.state = "RUNNING" /\ ctl'.action = ctl.action
          /\ ctl'.next_token = ctl.next_token
      BY <1>2, <3>1, Zenon DEF SameFields, Controllers
    <3>3. Tracks(ctl', d) /\ Identified(ctl')
      BY <1>2, <2>2, <3>2, TracksSame, Zenon DEF Sound
    <3>4. Sound(ctl', d)
      BY <1>2, <2>2, <3>2, <3>3, Zenon DEF Sound, Phase, Enabling, Current, Pending, SameFields
    <3>5. Fresh(ctl, ctl')
      BY <1>2, <2>2, <3>2, TokenCounter DEF Fresh, Pending
    <3> QED BY <1>5, <3>1, <3>2, <3>4, <3>5, Zenon DEF Advances, SameFields
  <2> QED BY <2>1, <2>2, Zenon
<1>16. ASSUME NEW g, NEW kind \in FaultKinds, ReportFault(g, kind) PROVE Preserves
  <2> DEFINE e == {"FAULT"} \cup ({kind} \cap {"PROCESS_EXIT"})
             ok == /\ kind \in {"PROCESS_EXIT", "PROTOCOL"} /\ g = ctl.generation
                   /\ ~Pending(ctl) /\ ctl.state \in {"HANDSHAKING", "RUNNING"}
  <2>1. CASE ~ok
    BY <1>4, <1>16, <2>1, Zenon DEF ReportFault, Refuse
  <2>2. CASE ok
    <3>1. ctl' = Faulted(ctl, kind) /\ done' = [done EXCEPT ![ctl.generation] = d \cup e]
      BY <1>16, <2>2, Zenon DEF ReportFault, Finish, Returns, Record
    <3>2. /\ done'[ctl.generation] = d \cup e
          /\ \A x \in Generations : x # ctl.generation => done'[x] = done[x]
      BY <1>1, <1>2, <3>1, Zenon DEF TypeOK
    <3>3. /\ ctl'.state = "FAULTED" /\ ctl'.action = ctl.action
          /\ ctl'.generation = ctl.generation /\ ctl'.configuration = ctl.configuration
          /\ ctl'.next_token = ctl.next_token
          /\ ctl'.resource_set_id = ctl.resource_set_id
          /\ ctl'.sandbox_id = ctl.sandbox_id
          /\ ctl'.resources_allocated = ctl.resources_allocated
          /\ ctl'.resources_revoked = ctl.resources_revoked
          /\ ctl'.resources_reset = ctl.resources_reset
          /\ IF kind = "PROCESS_EXIT"
               THEN ~ctl'.process_started /\ ctl'.process_exited
               ELSE /\ ctl'.process_started = ctl.process_started
                    /\ ctl'.process_exited = ctl.process_exited
      BY <1>2, <3>1, Zenon DEF Faulted, SetFault, Controllers
    <3>4. ctl.process_started /\ ctl.action.type = "NONE" /\ ctl.generation # 0
      BY <1>2, <2>2, Zenon DEF Sound, Phase, Pending
    <3>5. Tracks(ctl', d \cup e)
      BY <1>2, <2>2, <3>3, <3>4, Zenon DEF Sound, Tracks, Ordered, Stopped, Reset
    <3>6. Identified(ctl')
      BY <1>2, <3>3, <3>4, Zenon DEF Sound, Identified
    <3>7. Phase(ctl', d \cup e)
      BY <1>2, <2>2, <3>3, <3>4, Zenon DEF Sound, Phase, Pending
    <3>8. Enabling(ctl', ctl'.action.type, d \cup e) /\ Current(ctl')
      BY <3>3, <3>4, Zenon DEF Enabling, Current, Pending
    <3>9. Fresh(ctl, ctl')
      BY <1>2, <3>3, <3>4, TokenCounter DEF Fresh, Pending
    <3> QED BY <1>3, <3>2, <3>3, <3>5, <3>6, <3>7, <3>8, <3>9, Zenon DEF Advances, Sound
  <2> QED BY <2>1, <2>2, Zenon
<1>17. CASE UNCHANGED vars
  BY <1>4, <1>17, Zenon DEF vars
<1> QED
  BY <1>7, <1>8, <1>9, <1>10, <1>12, <1>13, <1>14, <1>15, <1>16, <1>17, Zenon DEF Next

(* The inductive invariant holds throughout.                               *)
LEMMA Invariance == Spec => []IInv
<1>1. IInv /\ [Next]_vars => IInv'
  BY InductiveStep, Zenon DEF Preserves
<1> QED BY <1>1, InitSound, PTL DEF Spec

-----------------------------------------------------------------------------
(***************************************************************************)
(* The theorems                                                            *)
(***************************************************************************)

(* What the inductive invariant says of a single state.                    *)
LEMMA InvariantImplies ==
  ASSUME IInv
  PROVE  /\ TeardownOrder /\ NoGenerationOverlap /\ TransientIffPending
         /\ NoQuiesceAfterFault /\ PendingActionCurrent
<1>1. TeardownOrder
  <2> SUFFICES ASSUME NEW g \in Generations PROVE Ordered(done[g])
    BY Zenon DEF TeardownOrder
  <2>1. CASE g = ctl.generation
    BY <2>1, Zenon DEF IInv, Sound, Tracks
  <2>2. CASE g > ctl.generation
    BY <2>2, Zenon DEF IInv, Ordered
  <2>3. CASE g < ctl.generation
    BY <2>3, Zenon DEF IInv
  <2>4. ctl.generation \in Generations
    BY Zenon DEF IInv, TypeOK, Controllers
  <2> QED BY <2>1, <2>2, <2>3, <2>4, ControllerAssumption DEF Generations
<1>2. NoGenerationOverlap
  BY Zenon DEF IInv, NoGenerationOverlap, Sound, Phase, Tracks, Balanced
<1>3. TransientIffPending
  BY Zenon DEF IInv, TransientIffPending, Sound, Phase
<1>4. NoQuiesceAfterFault
  BY Zenon DEF IInv, NoQuiesceAfterFault, Sound, Enabling
<1>5. PendingActionCurrent
  <2> SUFFICES ASSUME Pending(ctl) PROVE PendingActionCurrent
    BY Zenon DEF PendingActionCurrent
  <2>1. Current(ctl) /\ Identified(ctl) /\ ctl.generation # 0
    BY Zenon DEF IInv, Sound, Phase
  <2>2. CarriesResourceSet(ctl.action.type) => ctl.resources_allocated
    BY Zenon DEF IInv, Sound, Enabling, CarriesResourceSet
  <2>3. CarriesSandbox(ctl.action.type) => ctl.process_started \/ ctl.process_exited
    BY Zenon DEF IInv, Sound, Enabling, CarriesSandbox
  <2> QED
    BY <2>1, <2>2, <2>3, Zenon DEF PendingActionCurrent, Current, Identified
<1> QED BY <1>1, <1>2, <1>3, <1>4, <1>5, Zenon

(* However actions fail and are retried, in every generation the cleanup   *)
(* of begin_cleanup and next_cleanup_action follows the documented order.  *)
THEOREM TeardownOrdered == Spec => []TeardownOrder
BY InvariantImplies, Invariance, PTL

(* No generation begins, and the controller does not become idle, before   *)
(* everything acquired was released and reaped.                            *)
THEOREM GenerationsDisjoint == Spec => []NoGenerationOverlap
BY InvariantImplies, Invariance, PTL

(* STARTING and STOPPING are exactly the states with an action pending.    *)
THEOREM TransientPending == Spec => []TransientIffPending
BY InvariantImplies, Invariance, PTL

(* A generation in which anything failed is never quiesced.                *)
THEOREM FaultsTerminate == Spec => []NoQuiesceAfterFault
BY InvariantImplies, Invariance, PTL

(* The pending action describes the controller's present state.            *)
THEOREM ActionsCurrent == Spec => []PendingActionCurrent
BY InvariantImplies, Invariance, PTL

(* The pending action, in every state and for every host, fits the state.  *)
THEOREM ActionsFit == Spec => []ActionFits
BY TypeCorrect, ActionsCurrent, TransientPending, FaultsTerminate, PTL DEF ActionFits

(* A token is issued once, so at most one completion matches an action.    *)
THEOREM TokensFresh == Spec => TokensNeverReused
<1>1. IInv /\ [Next]_vars =>
        [/\ ctl'.next_token >= ctl.next_token
         /\ Pending(ctl)' /\ ctl'.action # ctl.action => ctl'.action.token > ctl.next_token
        ]_vars
  <2> SUFFICES ASSUME IInv, [Next]_vars
               PROVE  /\ ctl'.next_token >= ctl.next_token
                      /\ Pending(ctl)' /\ ctl'.action # ctl.action
                           => ctl'.action.token > ctl.next_token
    BY Zenon
  <2>1. IInv' /\ (UNCHANGED ctl \/ Fresh(ctl, ctl'))
    BY InductiveStep, Zenon DEF Preserves
  <2>2. ctl.next_token >= ctl.next_token
    BY DEF IInv, TypeOK, Controllers, Tokens
  <2>3. Pending(ctl)' => ctl'.action.token = ctl'.next_token
    BY <2>1, Zenon DEF IInv, Sound, Current, Pending
  <2> QED BY <2>1, <2>2, <2>3, Zenon DEF Fresh, Pending
<1> QED BY <1>1, Invariance, PTL DEF Spec, TokensNeverReused

(* What runs after a call was accepted succeeds or exhausts a counter.     *)
LEMMA AcceptedStatus ==
  ASSUME NEW c, ValidConfiguration(c.configuration)
  PROVE  /\ \A type : EmitAction(c, type).status \in {"OK", "COUNTER_EXHAUSTED"}
         /\ BeginStart(c).status \in {"OK", "COUNTER_EXHAUSTED"}
BY Zenon DEF EmitAction, BeginStart, Returns

(* A cleanup step is never refused: it succeeds or exhausts a counter.     *)
LEMMA CleanupStatus ==
  ASSUME NEW c \in Controllers, ValidConfiguration(c.configuration)
  PROVE  NextCleanupAction(c).status \in {"OK", "COUNTER_EXHAUSTED"}
<1> DEFINE idle == [c EXCEPT !.restart_requested = FALSE,
                             !.state = "IDLE",
                             !.fault_kind = "NONE",
                             !.fault_code = "0"]
<1>1. idle.configuration = c.configuration
  BY Zenon DEF Controllers
<1>2. FinishCleanup(c).status \in {"OK", BeginStart(idle).status}
  BY Zenon DEF FinishCleanup, Returns
<1> HIDE DEF idle
<1>3. FinishCleanup(c).status \in {"OK", "COUNTER_EXHAUSTED"}
  BY <1>1, <1>2, AcceptedStatus, Zenon
<1> QED BY <1>3, AcceptedStatus, Zenon DEF NextCleanupAction

(* An accepted completion never returns a refusal.                         *)
LEMMA CompletedStatus ==
  ASSUME NEW c \in Controllers, Pending(c), ValidConfiguration(c.configuration),
         NEW result, result \notin Refusals, NEW rid, NEW sid
  PROVE  Completed(c, result, rid, sid).status \notin Refusals
<1> DEFINE f == ClearAction(c)
           type == c.action.type
           n1 == [f EXCEPT !.resource_set_id = rid, !.resources_allocated = TRUE]
           n2 == [f EXCEPT !.sandbox_id = sid, !.process_started = TRUE]
           n3 == [f EXCEPT !.process_started = FALSE, !.process_exited = TRUE]
           n4 == [f EXCEPT !.process_exited = FALSE, !.sandbox_id = 0]
           n5 == [f EXCEPT !.resources_revoked = TRUE]
           n6 == [f EXCEPT !.resources_reset = TRUE]
           n7 == [f EXCEPT !.resources_allocated = FALSE, !.resource_set_id = 0]
<1>1. f \in Controllers /\ f.configuration = c.configuration /\ type \in ActionTypes
  BY NoActionType, Zenon DEF ClearAction, Controllers, Actions, Pending
<1>2. Completed(c, result, rid, sid) =
        IF result # "OK" THEN Returns(SetFault(f, "HOST_ACTION", type), result)
                         ELSE Succeeded(f, type, rid, sid)
  BY Zenon DEF Completed
<1> HIDE DEF f
<1>3. /\ n1.configuration = c.configuration /\ n2.configuration = c.configuration
      /\ n3.configuration = c.configuration /\ n4.configuration = c.configuration
      /\ n5.configuration = c.configuration /\ n6.configuration = c.configuration
      /\ n7.configuration = c.configuration
  BY <1>1, Zenon DEF Controllers
<1>4. /\ n3 \in Controllers /\ n4 \in Controllers /\ n5 \in Controllers
      /\ n6 \in Controllers /\ n7 \in Controllers
  <2>1. n3 \in Controllers /\ n4 \in Controllers
    BY <1>1, ZenonT(30) DEF Controllers
  <2>2. n5 \in Controllers /\ n6 \in Controllers
    BY <1>1, Zenon DEF Controllers
  <2>3. n7 \in Controllers
    BY <1>1, Zenon DEF Controllers
  <2> QED BY <2>1, <2>2, <2>3, Zenon
<1>5. Succeeded(f, type, rid, sid) \in
        {EmitAction(n1, "LAUNCH_SANDBOX"), EmitAction(n2, "TRANSFER_RESOURCES"),
         Returns([f EXCEPT !.state = "HANDSHAKING"], "OK"),
         NextCleanupAction(n3), NextCleanupAction(n4), NextCleanupAction(n5),
         NextCleanupAction(n6), NextCleanupAction(n7)}
  BY <1>1, Zenon DEF Succeeded, ActionTypes
<1> HIDE DEF n1, n2, n3, n4, n5, n6, n7, type
<1>6. Succeeded(f, type, rid, sid).status \in {"OK", "COUNTER_EXHAUSTED"}
  BY <1>3, <1>4, <1>5, AcceptedStatus, CleanupStatus DEF Returns
<1> QED BY <1>2, <1>6 DEF Returns, Refusals

(* A refused call has no effect, whichever call and whatever the reason.   *)
THEOREM RefusalsHarmless == Spec => InvalidInputChangesNothing
<1>1. IInv /\ [Next]_vars => [ret' \in Refusals => UNCHANGED ctl]_vars
  <2> SUFFICES ASSUME IInv, Next, ret' \in Refusals PROVE UNCHANGED ctl
    BY Zenon
  <2>1. /\ ctl \in Controllers
        /\ ctl.state # "IDLE" => ValidConfiguration(ctl.configuration)
        /\ Pending(ctl) => ctl.state # "IDLE"
    BY Zenon DEF IInv, TypeOK, Sound, Phase
  <2>2. \A r : Finish(r) => ctl' = r.ctl /\ ret' = r.status
    BY Zenon DEF Finish
  <2>3. "OK" \notin Refusals /\ "COUNTER_EXHAUSTED" \notin Refusals
    BY Zenon DEF Refusals
  <2>4. ASSUME NEW closure \in Closures, SetClosure(closure) PROVE UNCHANGED ctl
    BY <2>2, <2>3, <2>4 DEF SetClosure, Refuse, Returns
  <2>5. ASSUME NEW kind, NEW zero, SetDigest(kind, zero) PROVE UNCHANGED ctl
    BY <2>2, <2>3, <2>5 DEF SetDigest, Refuse, Returns
  <2>6. ASSUME NEW kind, NEW zero, SetLimit(kind, zero) PROVE UNCHANGED ctl
    BY <2>2, <2>3, <2>6 DEF SetLimit, Refuse, Returns
  <2>7. CASE Start
    <3>1. BeginStart(ctl).status \in Refusals => BeginStart(ctl).ctl = ctl
      BY <2>3, AcceptedStatus, Zenon DEF BeginStart, Returns
    <3> QED BY <2>2, <2>7, <3>1, Zenon DEF Start, Refuse
  <2>8. ASSUME NEW restart \in BOOLEAN, Stoppable
        PROVE  BeginCleanup(ctl, restart).status \notin Refusals
    <3> DEFINE n == [ctl EXCEPT !.graceful_stop = ctl.state # "FAULTED",
                                !.state = "STOPPING",
                                !.restart_requested = restart]
    <3>1. n \in Controllers /\ n.configuration = ctl.configuration
      BY <2>1, Zenon DEF Controllers, States
    <3>2. ValidConfiguration(ctl.configuration)
      BY <2>1, <2>8, Zenon DEF Stoppable
    <3>3. BeginCleanup(ctl, restart) = NextCleanupAction(n)
      BY Zenon DEF BeginCleanup
    <3> HIDE DEF n
    <3> QED BY <2>3, <3>1, <3>2, <3>3, CleanupStatus, Zenon
  <2>9. CASE Stop
    BY <2>2, <2>8, <2>9, Zenon DEF Stop, Refuse
  <2>10. CASE Restart
    BY <2>2, <2>8, <2>10, Zenon DEF Restart, Refuse
  <2>11. ASSUME NEW g, NEW t, NEW result, NEW rid, NEW sid,
                CompleteAction(g, t, result, rid, sid)
         PROVE  UNCHANGED ctl
    <3> DEFINE verdict == CompletionVerdict(ctl, g, t, result, rid, sid)
    <3>1. CASE verdict # "OK"
      BY <2>11, <3>1, Zenon DEF CompleteAction, Refuse
    <3>2. CASE verdict = "OK"
      <4>1. Pending(ctl) /\ result \notin Refusals
        BY <3>2, Zenon DEF CompletionVerdict, Refusals
      <4>2. ret' = Completed(ctl, result, rid, sid).status
        BY <2>11, <3>2, Zenon DEF CompleteAction, Finish
      <4> QED BY <2>1, <4>1, <4>2, CompletedStatus, Zenon
    <3> QED BY <3>1, <3>2, Zenon
  <2>12. ASSUME NEW g, ReportReady(g) PROVE UNCHANGED ctl
    BY <2>2, <2>3, <2>12 DEF ReportReady, Refuse, Returns
  <2>13. ASSUME NEW g, NEW kind, ReportFault(g, kind) PROVE UNCHANGED ctl
    BY <2>2, <2>3, <2>13 DEF ReportFault, Refuse, Returns
  <2> QED
    BY <2>4, <2>5, <2>6, <2>7, <2>9, <2>10, <2>11, <2>12, <2>13, Zenon DEF Next
<1> QED BY <1>1, Invariance, PTL DEF Spec, InvalidInputChangesNothing

-----------------------------------------------------------------------------
(***************************************************************************)
(* The controller and the reference host adapter                           *)
(*                                                                         *)
(* HostAgrees and LiveProcessKeepsMemory are not inductive: between the    *)
(* execution of an action and its report the adapter is one step ahead of  *)
(* the controller.  The invariant states what the controller will believe  *)
(* once it has heard the answer, and that this is how the adapter is.      *)
(***************************************************************************)

(* The adapter has done what it was asked, and the controller does not     *)
(* know yet.                                                               *)
Done(type) == answer.result = "OK" /\ ctl.action.type = type

Allocated ==
  \/ Done("ALLOCATE_RESOURCES")
  \/ ctl.resources_allocated /\ ~Done("RELEASE_RESOURCES")

Launched ==
  \/ Done("LAUNCH_SANDBOX")
  \/ (ctl.process_started \/ ctl.process_exited) /\ ~Done("REAP_SANDBOX")

Alive ==
  \/ Done("LAUNCH_SANDBOX")
  \/ ctl.process_started /\ ~Done("QUIESCE_SANDBOX") /\ ~Done("TERMINATE_SANDBOX")

Revoked == ctl.resources_revoked \/ Done("REVOKE_RESOURCES")

Connected == ctl.state \in {"HANDSHAKING", "RUNNING"} \/ Done("TRANSFER_RESOURCES")

ResourceSet ==
  IF Done("ALLOCATE_RESOURCES") THEN answer.rid
  ELSE IF Done("RELEASE_RESOURCES") THEN 0 ELSE ctl.resource_set_id

Sandbox ==
  IF Done("LAUNCH_SANDBOX") THEN answer.sid
  ELSE IF Done("REAP_SANDBOX") THEN 0 ELSE ctl.sandbox_id

(* The adapter's bookkeeping is what the controller believes or is about   *)
(* to be told.                                                             *)
Agreement ==
  /\ host.resource_set_id = ResourceSet /\ host.sandbox_id = Sandbox
  /\ host.memory <=> Allocated
  /\ Allocated => host.generation = ctl.generation
  /\ host.process <=> Launched
  /\ host.process_fd <=> Launched
  /\ host.resources_revoked <=> Allocated /\ Revoked
  /\ Alive => ~host.process_exited
  /\ host.process_exited => Launched
  /\ host.resources_revoked /\ Launched => host.process_exited
  /\ host.resources_transferred /\ ~host.resources_revoked => Launched
  /\ ~Allocated => ~host.resources_transferred /\ ~host.abnormal_exit_allowed
  /\ Done("LAUNCH_SANDBOX") \/ (ctl.action.type = "TRANSFER_RESOURCES" /\ answer = NoAnswer) =>
       host.bootstrap_socket /\ ~host.resources_transferred
  /\ Connected \/ ctl.action.type = "QUIESCE_SANDBOX" => host.resources_transferred

(* The adapter's process is the kernel's.                                  *)
Kernel ==
  /\ proc # "none" => host.process
  /\ proc \in {"running", "dying"} => ~host.process_exited
  /\ Orphaned => /\ host.process_exited /\ host.resources_revoked
                 /\ ~host.abnormal_exit_allowed

(* An answer is to the pending action, and one complete_action accepts.    *)
Answering ==
  answer # NoAnswer =>
    /\ Pending(ctl) /\ answer.result # "none"
    /\ CompletionIdsValid(ctl.action.type, answer.result, answer.rid, answer.sid)

HostIInv == IInv /\ HostTypeOK /\ Agreement /\ Kernel /\ Answering

-----------------------------------------------------------------------------
(***************************************************************************)
(* What a call leaves of the controller's flags                            *)
(***************************************************************************)

(* What is held, and of what is held whether it was revoked.               *)
Keeps(c, r) ==
  /\ r.resource_set_id = c.resource_set_id /\ r.sandbox_id = c.sandbox_id
  /\ r.resources_allocated = c.resources_allocated
  /\ r.process_started = c.process_started /\ r.process_exited = c.process_exited
  /\ c.resources_allocated =>
       r.resources_revoked = c.resources_revoked /\ r.generation = c.generation

(* begin_start forgets nothing when nothing is held.                       *)
LEMMA BeginStartKeeps ==
  ASSUME NEW c \in Controllers, HoldsNothing(c), Identified(c), NEW r, r = BeginStart(c)
  PROVE  /\ Keeps(c, r.ctl)
         /\ \/ r.ctl = c
            \/ /\ r.ctl.state \in {"STARTING", "FAULTED"}
               /\ r.ctl.action.type \in {c.action.type, "ALLOCATE_RESOURCES"}
<1> USE ControllerAssumption
<1>1. CASE CounterExhausted(c) \/ ~ValidConfiguration(c.configuration)
  BY <1>1, Zenon DEF BeginStart, Returns, Keeps
<1>2. CASE ~CounterExhausted(c) /\ ValidConfiguration(c.configuration)
  <2> DEFINE s == [c EXCEPT !.generation = @ + 1,
                            !.state = "STARTING",
                            !.fault_kind = "NONE",
                            !.fault_code = "0",
                            !.resource_set_id = 0,
                            !.sandbox_id = 0,
                            !.resources_allocated = FALSE,
                            !.resources_revoked = FALSE,
                            !.resources_reset = FALSE,
                            !.process_started = FALSE,
                            !.process_exited = FALSE]
  <2>1. c.generation + 1 \in Generations
    BY <1>2 DEF CounterExhausted, Controllers, Generations
  <2>2. s \in Controllers
    BY <2>1, Zenon DEF Controllers, States, FaultKinds, FaultCodes
  <2>3. /\ s.state = "STARTING" /\ s.action = c.action
        /\ s.resource_set_id = 0 /\ s.sandbox_id = 0 /\ s.resources_allocated = FALSE
        /\ s.process_started = FALSE /\ s.process_exited = FALSE
    BY Zenon DEF Controllers
  <2>4. r = EmitAction(s, "ALLOCATE_RESOURCES")
    BY <1>2, Zenon DEF BeginStart
  <2> HIDE DEF s
  <2>5. /\ SameFields(s, r.ctl)
        /\ \/ r.ctl.state = "FAULTED" /\ r.ctl.action = s.action
           \/ r.ctl.state = s.state /\ r.ctl.action.type = "ALLOCATE_RESOURCES"
    BY <2>2, <2>4, EmitActionEffect DEF ActionTypes
  <2>6. /\ c.resource_set_id = 0 /\ c.sandbox_id = 0 /\ c.resources_allocated = FALSE
        /\ c.process_started = FALSE /\ c.process_exited = FALSE
    BY Zenon DEF HoldsNothing, Identified, Controllers
  <2> QED BY <2>3, <2>5, <2>6, Zenon DEF Keeps, SameFields
<1> QED BY <1>1, <1>2, Zenon

(* next_cleanup_action keeps what is held, in whatever it ends.            *)
LEMMA CleanupKeeps ==
  ASSUME NEW c \in Controllers, ~Pending(c), c.state = "STOPPING", Identified(c),
         NEW r, r = NextCleanupAction(c).ctl
  PROVE  /\ Keeps(c, r) /\ r.state \notin {"HANDSHAKING", "RUNNING"}
         /\ r.action.type # "TRANSFER_RESOURCES"
         /\ r.action.type = "QUIESCE_SANDBOX" => c.process_started /\ c.graceful_stop
<1> DEFINE cleanup == {"QUIESCE_SANDBOX", "TERMINATE_SANDBOX", "REVOKE_RESOURCES",
                       "RESET_RESOURCES", "REAP_SANDBOX", "RELEASE_RESOURCES"}
           idle == [c EXCEPT !.restart_requested = FALSE,
                             !.state = "IDLE",
                             !.fault_kind = "NONE",
                             !.fault_code = "0"]
           start == BeginStart(idle)
<1>0. c.action.type = "NONE"
  BY Zenon DEF Pending
<1>1. \/ \E type \in cleanup :
           /\ r = EmitAction(c, type).ctl
           /\ type = "QUIESCE_SANDBOX" => c.process_started /\ c.graceful_stop
      \/ HoldsNothing(c) /\ r = FinishCleanup(c).ctl
  BY Zenon DEF NextCleanupAction, HoldsNothing
<1>2. ASSUME NEW type \in cleanup, r = EmitAction(c, type).ctl,
             type = "QUIESCE_SANDBOX" => c.process_started /\ c.graceful_stop
      PROVE  /\ Keeps(c, r) /\ r.state \notin {"HANDSHAKING", "RUNNING"}
             /\ r.action.type # "TRANSFER_RESOURCES"
             /\ r.action.type = "QUIESCE_SANDBOX" => c.process_started /\ c.graceful_stop
  <2>1. /\ SameFields(c, r)
        /\ \/ r.state = "FAULTED" /\ r.action = c.action
           \/ r.state = c.state /\ r.action.type = type
    BY <1>2, EmitActionEffect DEF ActionTypes
  <2> QED BY <1>0, <1>2, <2>1, Zenon DEF Keeps, SameFields
<1>3. ASSUME HoldsNothing(c), r = FinishCleanup(c).ctl
      PROVE  Keeps(c, r) /\ r.state \in {"IDLE", "STARTING", "FAULTED"}
             /\ r.action.type \in {"NONE", "ALLOCATE_RESOURCES"}
  <2>1. idle \in Controllers
    BY Zenon DEF Controllers, States, FaultKinds, FaultCodes
  <2>2. SameFields(c, idle) /\ idle.state = "IDLE" /\ idle.action = c.action
    BY Zenon DEF SameFields, Controllers
  <2>3. r = IF ~c.restart_requested THEN idle
            ELSE IF start.status # "OK" THEN SetFault(start.ctl, "CONTROLLER", start.status)
            ELSE start.ctl
    BY <1>3, Zenon DEF FinishCleanup, Returns
  <2>4. start.ctl \in Controllers
    BY <2>1, BeginStartType, Zenon DEF Results
  <2>5. /\ SetFault(start.ctl, "CONTROLLER", start.status).state = "FAULTED"
        /\ SetFault(start.ctl, "CONTROLLER", start.status).action = start.ctl.action
        /\ SameFields(start.ctl, SetFault(start.ctl, "CONTROLLER", start.status))
    BY <2>4, Zenon DEF SetFault, SameFields, Controllers
  <2> HIDE DEF idle
  <2>6. HoldsNothing(idle) /\ Identified(idle)
    BY <1>3, <2>2, Zenon DEF HoldsNothing, Identified, SameFields
  <2>7. /\ Keeps(idle, start.ctl)
        /\ \/ start.ctl = idle
           \/ /\ start.ctl.state \in {"STARTING", "FAULTED"}
              /\ start.ctl.action.type \in {idle.action.type, "ALLOCATE_RESOURCES"}
    BY <2>1, <2>6, BeginStartKeeps, Zenon
  <2> HIDE DEF start
  <2>8. Keeps(c, idle) /\ Keeps(c, start.ctl)
    BY <2>2, <2>7, Zenon DEF Keeps, SameFields
  <2> QED BY <1>0, <2>2, <2>3, <2>5, <2>7, <2>8 DEF Keeps, SameFields
<1> QED BY <1>1, <1>2, <1>3, Zenon

(* A call leaves a controller that knows what there was to know.           *)
Reflects(r) ==
  /\ r.resource_set_id = ResourceSet /\ r.sandbox_id = Sandbox
  /\ r.resources_allocated <=> Allocated
  /\ (r.process_started \/ r.process_exited) <=> Launched
  /\ r.process_started => Alive
  /\ Allocated => r.generation = ctl.generation /\ (r.resources_revoked <=> Revoked)
  /\ r.action.type = "TRANSFER_RESOURCES" => Done("LAUNCH_SANDBOX")
  /\ r.state \in {"HANDSHAKING", "RUNNING"} \/ r.action.type = "QUIESCE_SANDBOX" => Connected

(* Such a call does not disturb the agreement.                             *)
LEMMA CallAgrees ==
  ASSUME Agreement, Kernel, Reflects(ctl'), answer' = NoAnswer, UNCHANGED <<host, proc>>
  PROVE  (Agreement /\ Kernel /\ Answering)'
<1>1. \A type : ~Done(type)'
  BY Zenon DEF Done, NoAnswer
<1>2. Agreement'
  <2>1. /\ ResourceSet' = ResourceSet /\ Sandbox' = Sandbox
        /\ Allocated' <=> Allocated
        /\ Launched' <=> Launched
        /\ Alive' => Alive
        /\ Allocated => ctl'.generation = ctl.generation /\ (Revoked' <=> Revoked)
        /\ (ctl.action.type = "TRANSFER_RESOURCES")' => Done("LAUNCH_SANDBOX")
        /\ Connected' \/ (ctl.action.type = "QUIESCE_SANDBOX")' => Connected
    BY <1>1, Zenon DEF Reflects, ResourceSet, Sandbox, Allocated, Launched, Alive, Revoked, Connected
  <2> QED BY <1>1, <2>1, Zenon DEF Agreement
<1>3. Kernel'
  BY Zenon DEF Kernel, Orphaned
<1> QED BY <1>2, <1>3, Zenon DEF Answering

(* A call made when nothing has been done yet that keeps what is held.     *)
LEMMA KeepsReflects ==
  ASSUME answer.result # "OK", NEW r, Keeps(ctl, r), r.action.type # "TRANSFER_RESOURCES",
         r.state \in {"HANDSHAKING", "RUNNING"} \/ r.action.type = "QUIESCE_SANDBOX"
           => ctl.state \in {"HANDSHAKING", "RUNNING"}
  PROVE  Reflects(r)
<1>1. \A type : ~Done(type)
  BY Zenon DEF Done
<1> QED
  BY <1>1, Zenon DEF Reflects, Keeps, ResourceSet, Sandbox, Allocated, Launched, Alive, Revoked, Connected

-----------------------------------------------------------------------------
(***************************************************************************)
(* The supervisor's calls                                                  *)
(***************************************************************************)

Agree == Agreement /\ Kernel /\ Answering

(* What the invariant says of the controller alone.                        *)
LEMMA ControllerFacts ==
  ASSUME HostIInv
  PROVE  /\ ctl \in Controllers /\ ctl.generation \in Generations
         /\ Tracks(ctl, done[ctl.generation]) /\ Identified(ctl)
         /\ Enabling(ctl, ctl.action.type, done[ctl.generation])
         /\ Phase(ctl, done[ctl.generation]) /\ Current(ctl)
         /\ ~Pending(ctl) => answer = NoAnswer /\ ctl.action.type = "NONE"
BY Zenon DEF HostIInv, IInv, TypeOK, Sound, Answering, Pending, Controllers

(* A call that changes neither side's bookkeeping.                         *)
LEMMA UnchangedAgrees ==
  ASSUME HostIInv, UNCHANGED <<ctl, host, proc, answer>>
  PROVE  Agree'
<1>1. Agreement'
  BY DEF HostIInv, Agreement, Allocated, Launched, Alive, Revoked, Connected, ResourceSet,
         Sandbox, Done
<1> QED BY <1>1, Zenon DEF HostIInv, Agree, Kernel, Orphaned, Answering

(* A call made while nothing is pending that keeps what is held.           *)
LEMMA QuietCallAgrees ==
  ASSUME HostIInv, ~Pending(ctl), Keeps(ctl, ctl'),
         ctl'.action.type # "TRANSFER_RESOURCES",
         ctl'.state \in {"HANDSHAKING", "RUNNING"} \/ ctl'.action.type = "QUIESCE_SANDBOX"
           => ctl.state \in {"HANDSHAKING", "RUNNING"},
         UNCHANGED <<host, proc, answer>>
  PROVE  Agree'
<1>1. answer = NoAnswer
  BY ControllerFacts, Zenon
<1>2. Reflects(ctl')
  BY <1>1, KeepsReflects, Zenon DEF NoAnswer
<1> QED BY <1>1, <1>2, CallAgrees, Zenon DEF HostIInv, Agree

(* kb2_controller_start.                                                   *)
LEMMA StartAgrees ==
  ASSUME HostIInv, StartSandbox
  PROVE  Agree'
<1>1. UNCHANGED <<host, proc, answer>> /\ ~Pending(ctl) /\ Start
  BY Zenon DEF StartSandbox, HostSide
<1>2. CASE UNCHANGED ctl
  BY <1>1, <1>2, UnchangedAgrees, Zenon
<1>3. CASE ctl.state = "IDLE" /\ ctl' = BeginStart(ctl).ctl
  <2>1. HoldsNothing(ctl)
    BY <1>3, ControllerFacts, Zenon DEF Phase, HoldsNothing
  <2>2. /\ Keeps(ctl, ctl')
        /\ \/ ctl' = ctl
           \/ /\ ctl'.state \in {"STARTING", "FAULTED"}
              /\ ctl'.action.type \in {ctl.action.type, "ALLOCATE_RESOURCES"}
    BY <1>3, <2>1, ControllerFacts, BeginStartKeeps, Zenon
  <2> QED BY <1>1, <2>2, ControllerFacts, QuietCallAgrees, Zenon
<1> QED BY <1>1, <1>2, <1>3, Zenon DEF Start, Refuse, Finish

(* begin_cleanup, for kb2_controller_stop and kb2_controller_restart.      *)
LEMMA CleanupAgrees ==
  ASSUME HostIInv, NEW restart \in BOOLEAN, ~Pending(ctl), Stoppable,
         ctl' = BeginCleanup(ctl, restart).ctl, UNCHANGED <<host, proc, answer>>
  PROVE  Agree'
<1> DEFINE n == [ctl EXCEPT !.graceful_stop = ctl.state # "FAULTED",
                            !.state = "STOPPING",
                            !.restart_requested = restart]
<1>0. ctl \in Controllers /\ Identified(ctl)
  BY ControllerFacts, Zenon
<1>1. n \in Controllers
  BY <1>0, Zenon DEF Controllers, States
<1>2. /\ n.state = "STOPPING" /\ n.action = ctl.action
      /\ n.generation = ctl.generation
      /\ n.resource_set_id = ctl.resource_set_id /\ n.sandbox_id = ctl.sandbox_id
      /\ n.resources_allocated = ctl.resources_allocated
      /\ n.resources_revoked = ctl.resources_revoked
      /\ n.process_started = ctl.process_started
      /\ n.process_exited = ctl.process_exited
      /\ n.graceful_stop = (ctl.state # "FAULTED")
  BY <1>0, Zenon DEF Controllers
<1>3. ctl' = NextCleanupAction(n).ctl
  BY Zenon DEF BeginCleanup
<1> HIDE DEF n
<1>4. Identified(n) /\ ~Pending(n)
  BY <1>0, <1>2, Zenon DEF Identified, Pending
<1>5. /\ Keeps(n, ctl') /\ ctl'.state \notin {"HANDSHAKING", "RUNNING"}
      /\ ctl'.action.type # "TRANSFER_RESOURCES"
      /\ ctl'.action.type = "QUIESCE_SANDBOX" => n.process_started /\ n.graceful_stop
  BY <1>1, <1>2, <1>3, <1>4, CleanupKeeps, Zenon
<1>6. Keeps(ctl, ctl')
  BY <1>2, <1>5, Zenon DEF Keeps
<1> QED BY <1>2, <1>5, <1>6, QuietCallAgrees, Zenon DEF Stoppable

(* kb2_controller_stop and kb2_controller_restart.                         *)
LEMMA StopAgrees ==
  ASSUME HostIInv, StopSandbox \/ RestartSandbox
  PROVE  Agree'
<1>1. UNCHANGED <<host, proc, answer>> /\ ~Pending(ctl)
  BY Zenon DEF StopSandbox, RestartSandbox, HostSide
<1>2. \/ UNCHANGED ctl
      \/ Stoppable /\ \E restart \in BOOLEAN : ctl' = BeginCleanup(ctl, restart).ctl
  BY <1>1, Zenon DEF StopSandbox, RestartSandbox, Stop, Restart, Refuse, Finish
<1> QED BY <1>1, <1>2, UnchangedAgrees, CleanupAgrees, Zenon

(* kb2_controller_report_ready.                                            *)
LEMMA ReadyAgrees ==
  ASSUME HostIInv, Ready
  PROVE  Agree'
<1>1. UNCHANGED <<host, proc, answer>> /\ ~Pending(ctl)
  BY Zenon DEF Ready, HostSide
<1>2. CASE UNCHANGED ctl
  BY <1>1, <1>2, UnchangedAgrees, Zenon
<1>3. CASE ctl.state = "HANDSHAKING" /\ ctl' = [ctl EXCEPT !.state = "RUNNING"]
  <2>1. Keeps(ctl, ctl') /\ ctl'.action = ctl.action
    BY <1>3, ControllerFacts, Zenon DEF Keeps, Controllers
  <2> QED BY <1>1, <1>3, <2>1, ControllerFacts, QuietCallAgrees, Zenon
<1> QED BY <1>2, <1>3, Zenon DEF Ready, ReportReady, Refuse, Finish, Returns

(* The calls that configure an idle controller.                            *)
LEMMA ConfigureAgrees ==
  ASSUME HostIInv, Configure
  PROVE  Agree'
<1>1. UNCHANGED <<host, proc, answer>> /\ ctl.state = "IDLE"
  BY Zenon DEF Configure, HostSide
<1>2. UNCHANGED ctl \/ \E cfg : ctl' = [ctl EXCEPT !.configuration = cfg]
  BY Zenon DEF Configure, SetClosure, SetDigest, SetLimit, WithClosure, Refuse, Finish, Returns
<1>3. ~Pending(ctl)
  BY <1>1, ControllerFacts, Zenon DEF Phase
<1>4. ASSUME NEW cfg, ctl' = [ctl EXCEPT !.configuration = cfg]
      PROVE  Agree'
  <2>1. Keeps(ctl, ctl') /\ ctl'.action = ctl.action /\ ctl'.state = ctl.state
    BY <1>4, ControllerFacts, Zenon DEF Keeps, Controllers
  <2> QED BY <1>1, <1>3, <2>1, ControllerFacts, QuietCallAgrees, Zenon
<1> QED BY <1>1, <1>2, <1>4, UnchangedAgrees, Zenon

(* kb2_controller_report_fault: the process may still be running when its  *)
(* exit is reported.                                                       *)
LEMMA DeliverNewsAgrees ==
  ASSUME HostIInv, DeliverNews
  PROVE  Agree'
<1>1. UNCHANGED <<host, proc, answer>>
  BY Zenon DEF DeliverNews
<1>2. \/ UNCHANGED ctl
      \/ /\ ~Pending(ctl) /\ ctl.state \in {"HANDSHAKING", "RUNNING"}
         /\ ctl' = Faulted(ctl, news.kind)
  BY Zenon DEF DeliverNews, ReportFault, Refuse, Finish, Returns
<1>3. ASSUME ~Pending(ctl), ctl.state \in {"HANDSHAKING", "RUNNING"},
             ctl' = Faulted(ctl, news.kind)
      PROVE  Agree'
  <2>1. /\ ctl'.state = "FAULTED" /\ ctl'.action = ctl.action
        /\ ctl'.generation = ctl.generation
        /\ ctl'.resource_set_id = ctl.resource_set_id
        /\ ctl'.sandbox_id = ctl.sandbox_id
        /\ ctl'.resources_allocated = ctl.resources_allocated
        /\ ctl'.resources_revoked = ctl.resources_revoked
        /\ \/ ~ctl'.process_started /\ ctl'.process_exited
           \/ /\ ctl'.process_started = ctl.process_started
              /\ ctl'.process_exited = ctl.process_exited
    BY <1>3, ControllerFacts, Zenon DEF Faulted, SetFault, Controllers
  <2>2. /\ answer = NoAnswer /\ ctl.action.type = "NONE" /\ ctl.process_started
        /\ \A type : ~Done(type)
    BY <1>3, ControllerFacts DEF Phase, Done, NoAnswer
  <2>3. Reflects(ctl')
    BY <2>1, <2>2, Zenon DEF Reflects, ResourceSet, Sandbox, Allocated, Launched, Alive, Revoked
  <2> QED BY <1>1, <2>2, <2>3, CallAgrees, Zenon DEF HostIInv, Agree
<1> QED BY <1>1, <1>2, <1>3, UnchangedAgrees, Zenon

(* A successful completion tells the controller what the adapter did.      *)
LEMMA SuccessReflects ==
  ASSUME HostIInv, Pending(ctl), answer.result = "OK",
         answer.rid \in ResourceIds \cup {0}, answer.sid \in SandboxIds \cup {0},
         CompletionIdsValid(ctl.action.type, "OK", answer.rid, answer.sid),
         NEW r, r = Succeeded(ClearAction(ctl), ctl.action.type, answer.rid, answer.sid).ctl
  PROVE  Reflects(r)
<1> DEFINE f == ClearAction(ctl)
           type == ctl.action.type
<1>0. ctl \in Controllers
  BY ControllerFacts, Zenon
<1>1. f \in Controllers
  BY <1>0, NoActionType, Zenon DEF ClearAction, Controllers
<1>2. /\ SameFields(ctl, f) /\ f.state = ctl.state /\ f.action.type = "NONE"
  BY <1>0, Zenon DEF ClearAction, SameFields, Controllers, NoAction
<1>3. type \in ActionTypes /\ \A t : Done(t) <=> t = type
  BY <1>0, Zenon DEF Controllers, Actions, Pending, Done
<1>4. Enabling(ctl, type, done[ctl.generation]) /\ Identified(ctl)
      /\ Tracks(ctl, done[ctl.generation])
  BY ControllerFacts, Zenon
<1>5. ctl.state = IF type \in {"ALLOCATE_RESOURCES", "LAUNCH_SANDBOX", "TRANSFER_RESOURCES"}
                    THEN "STARTING" ELSE "STOPPING"
  BY ControllerFacts, Zenon DEF Phase
<1>6. r = Succeeded(f, type, answer.rid, answer.sid).ctl
  BY Zenon
<1> HIDE DEF f
<1>7. ASSUME NEW n \in Controllers, n.action.type = "NONE", n.state = "STOPPING",
             Identified(n), ~n.process_started, r = NextCleanupAction(n).ctl
      PROVE  /\ Keeps(n, r) /\ r.state \notin {"HANDSHAKING", "RUNNING"}
             /\ r.action.type \notin {"TRANSFER_RESOURCES", "QUIESCE_SANDBOX"}
  BY <1>7, CleanupKeeps, Zenon DEF Pending
<1>8. CASE type = "ALLOCATE_RESOURCES"
  <2> DEFINE n == [f EXCEPT !.resource_set_id = answer.rid, !.resources_allocated = TRUE]
  <2>1. n \in Controllers
    BY <1>1, Zenon DEF Controllers
  <2>2. /\ n.action = f.action /\ n.state = f.state /\ n.generation = f.generation
        /\ n.resource_set_id = answer.rid /\ n.sandbox_id = f.sandbox_id
        /\ n.resources_allocated = TRUE /\ n.resources_revoked = f.resources_revoked
        /\ n.process_started = f.process_started /\ n.process_exited = f.process_exited
    BY <1>1, Zenon DEF Controllers
  <2>3. r = EmitAction(n, "LAUNCH_SANDBOX").ctl
    BY <1>6, <1>8, Zenon DEF Succeeded
  <2> HIDE DEF n
  <2>4. /\ SameFields(n, r)
        /\ \/ r.state = "FAULTED" /\ r.action = n.action
           \/ r.state = n.state /\ r.action.type = "LAUNCH_SANDBOX"
    BY <2>1, <2>3, EmitActionEffect DEF ActionTypes
  <2>5. /\ ResourceSet = answer.rid /\ Sandbox = ctl.sandbox_id /\ Allocated
        /\ Launched <=> ctl.process_started \/ ctl.process_exited
        /\ Alive <=> ctl.process_started
        /\ Revoked <=> ctl.resources_revoked
    <3>1. /\ Done("ALLOCATE_RESOURCES")
          /\ ~Done("LAUNCH_SANDBOX")
          /\ ~Done("QUIESCE_SANDBOX")
          /\ ~Done("TERMINATE_SANDBOX")
          /\ ~Done("REVOKE_RESOURCES")
          /\ ~Done("REAP_SANDBOX")
          /\ ~Done("RELEASE_RESOURCES")
      BY <1>8, Zenon DEF Done
    <3> QED BY <3>1, Zenon DEF ResourceSet, Sandbox, Allocated, Launched, Alive, Revoked
  <2> QED BY <1>2, <1>5, <1>8, <2>2, <2>4, <2>5 DEF Reflects, SameFields
<1>9. CASE type = "LAUNCH_SANDBOX"
  <2> DEFINE n == [f EXCEPT !.sandbox_id = answer.sid, !.process_started = TRUE]
  <2>1. n \in Controllers
    BY <1>1, Zenon DEF Controllers
  <2>2. /\ n.action = f.action /\ n.state = f.state /\ n.generation = f.generation
        /\ n.resource_set_id = f.resource_set_id /\ n.sandbox_id = answer.sid
        /\ n.resources_allocated = f.resources_allocated
        /\ n.resources_revoked = f.resources_revoked
        /\ n.process_started = TRUE /\ n.process_exited = f.process_exited
    BY <1>1, Zenon DEF Controllers
  <2>3. r = EmitAction(n, "TRANSFER_RESOURCES").ctl
    BY <1>6, <1>9, Zenon DEF Succeeded
  <2> HIDE DEF n
  <2>4. /\ SameFields(n, r)
        /\ \/ r.state = "FAULTED" /\ r.action = n.action
           \/ r.state = n.state /\ r.action.type = "TRANSFER_RESOURCES"
    BY <2>1, <2>3, EmitActionEffect DEF ActionTypes
  <2>5. /\ ResourceSet = ctl.resource_set_id /\ Sandbox = answer.sid
        /\ Allocated <=> ctl.resources_allocated
        /\ Launched /\ Alive /\ Done("LAUNCH_SANDBOX")
        /\ Revoked <=> ctl.resources_revoked
    <3>1. /\ Done("LAUNCH_SANDBOX")
          /\ ~Done("ALLOCATE_RESOURCES")
          /\ ~Done("QUIESCE_SANDBOX")
          /\ ~Done("TERMINATE_SANDBOX")
          /\ ~Done("REVOKE_RESOURCES")
          /\ ~Done("REAP_SANDBOX")
          /\ ~Done("RELEASE_RESOURCES")
      BY <1>9, Zenon DEF Done
    <3> QED BY <3>1, Zenon DEF ResourceSet, Sandbox, Allocated, Launched, Alive, Revoked
  <2> QED BY <1>2, <1>5, <1>9, <2>2, <2>4, <2>5 DEF Reflects, SameFields
<1>10. CASE type = "TRANSFER_RESOURCES"
  <2>1. r = [f EXCEPT !.state = "HANDSHAKING"]
    BY <1>6, <1>10, Zenon DEF Succeeded, Returns
  <2>2. /\ r.action = f.action /\ r.generation = f.generation
        /\ r.resource_set_id = f.resource_set_id /\ r.sandbox_id = f.sandbox_id
        /\ r.resources_allocated = f.resources_allocated
        /\ r.resources_revoked = f.resources_revoked
        /\ r.process_started = f.process_started /\ r.process_exited = f.process_exited
    BY <1>1, <2>1, Zenon DEF Controllers
  <2>3. /\ ResourceSet = ctl.resource_set_id /\ Sandbox = ctl.sandbox_id
        /\ Allocated <=> ctl.resources_allocated
        /\ Launched <=> ctl.process_started \/ ctl.process_exited
        /\ Alive <=> ctl.process_started
        /\ Revoked <=> ctl.resources_revoked
        /\ Connected
    <3>1. /\ Done("TRANSFER_RESOURCES")
          /\ ~Done("ALLOCATE_RESOURCES")
          /\ ~Done("LAUNCH_SANDBOX")
          /\ ~Done("QUIESCE_SANDBOX")
          /\ ~Done("TERMINATE_SANDBOX")
          /\ ~Done("REVOKE_RESOURCES")
          /\ ~Done("REAP_SANDBOX")
          /\ ~Done("RELEASE_RESOURCES")
      BY <1>10, Zenon DEF Done
    <3> QED BY <3>1, Zenon DEF ResourceSet, Sandbox, Allocated, Launched, Alive, Revoked, Connected
  <2> QED BY <1>2, <2>2, <2>3 DEF Reflects, SameFields
<1>11. CASE type \in {"QUIESCE_SANDBOX", "TERMINATE_SANDBOX"}
  <2> DEFINE n == [f EXCEPT !.process_started = FALSE, !.process_exited = TRUE]
  <2>1. n \in Controllers
    BY <1>1, Zenon DEF Controllers
  <2>2. /\ n.action = f.action /\ n.state = f.state /\ n.generation = f.generation
        /\ n.resource_set_id = f.resource_set_id /\ n.sandbox_id = f.sandbox_id
        /\ n.resources_allocated = f.resources_allocated
        /\ n.resources_revoked = f.resources_revoked
        /\ n.process_started = FALSE /\ n.process_exited = TRUE
    BY <1>1, Zenon DEF Controllers
  <2>3. r = NextCleanupAction(n).ctl
    BY <1>6, <1>11, Zenon DEF Succeeded
  <2> HIDE DEF n
  <2>4. ctl.process_started /\ Identified(n)
    BY <1>2, <1>4, <1>11, <2>2, Zenon DEF Enabling, Identified, SameFields
  <2>5. /\ Keeps(n, r) /\ r.state \notin {"HANDSHAKING", "RUNNING"}
        /\ r.action.type \notin {"TRANSFER_RESOURCES", "QUIESCE_SANDBOX"}
    BY <1>2, <1>5, <1>7, <1>11, <2>1, <2>2, <2>3, <2>4, Zenon
  <2>6. /\ ResourceSet = ctl.resource_set_id /\ Sandbox = ctl.sandbox_id
        /\ Allocated <=> ctl.resources_allocated
        /\ Launched
        /\ Revoked <=> ctl.resources_revoked
    <3>1. /\ ~Done("ALLOCATE_RESOURCES")
          /\ ~Done("LAUNCH_SANDBOX")
          /\ ~Done("REVOKE_RESOURCES")
          /\ ~Done("REAP_SANDBOX")
          /\ ~Done("RELEASE_RESOURCES")
      BY <1>11, Zenon DEF Done
    <3> QED BY <3>1, <2>4, Zenon DEF ResourceSet, Sandbox, Allocated, Launched, Revoked
  <2> QED BY <1>2, <2>2, <2>5, <2>6 DEF Reflects, Keeps, SameFields
<1>12. CASE type = "REAP_SANDBOX"
  <2> DEFINE n == [f EXCEPT !.process_exited = FALSE, !.sandbox_id = 0]
  <2>1. n \in Controllers
    BY <1>1, Zenon DEF Controllers
  <2>2. /\ n.action = f.action /\ n.state = f.state /\ n.generation = f.generation
        /\ n.resource_set_id = f.resource_set_id /\ n.sandbox_id = 0
        /\ n.resources_allocated = f.resources_allocated
        /\ n.resources_revoked = f.resources_revoked
        /\ n.process_started = f.process_started /\ n.process_exited = FALSE
    BY <1>1, Zenon DEF Controllers
  <2>3. r = NextCleanupAction(n).ctl
    BY <1>6, <1>12, Zenon DEF Succeeded
  <2> HIDE DEF n
  <2>4. ~ctl.process_started /\ Identified(n)
    BY <1>2, <1>4, <1>12, <2>2, Zenon DEF Enabling, Tracks, Identified, SameFields
  <2>5. /\ Keeps(n, r) /\ r.state \notin {"HANDSHAKING", "RUNNING"}
        /\ r.action.type \notin {"TRANSFER_RESOURCES", "QUIESCE_SANDBOX"}
    BY <1>2, <1>5, <1>7, <1>12, <2>1, <2>2, <2>3, <2>4, Zenon DEF SameFields
  <2>6. /\ ResourceSet = ctl.resource_set_id /\ Sandbox = 0
        /\ Allocated <=> ctl.resources_allocated
        /\ ~Launched
        /\ Revoked <=> ctl.resources_revoked
    <3>1. /\ Done("REAP_SANDBOX")
          /\ ~Done("ALLOCATE_RESOURCES")
          /\ ~Done("LAUNCH_SANDBOX")
          /\ ~Done("REVOKE_RESOURCES")
          /\ ~Done("RELEASE_RESOURCES")
      BY <1>12, Zenon DEF Done
    <3> QED BY <3>1, Zenon DEF ResourceSet, Sandbox, Allocated, Launched, Revoked
  <2> QED BY <1>2, <2>2, <2>4, <2>5, <2>6 DEF Reflects, Keeps, SameFields
<1>13. CASE type \in {"REVOKE_RESOURCES", "RESET_RESOURCES"}
  <2> DEFINE n == IF type = "REVOKE_RESOURCES" THEN [f EXCEPT !.resources_revoked = TRUE]
                                               ELSE [f EXCEPT !.resources_reset = TRUE]
  <2>1. n \in Controllers
    BY <1>1, Zenon DEF Controllers
  <2>2. /\ n.action = f.action /\ n.state = f.state /\ n.generation = f.generation
        /\ n.resource_set_id = f.resource_set_id /\ n.sandbox_id = f.sandbox_id
        /\ n.resources_allocated = f.resources_allocated
        /\ n.resources_revoked <=> type = "REVOKE_RESOURCES" \/ f.resources_revoked
        /\ n.process_started = f.process_started /\ n.process_exited = f.process_exited
    BY <1>1, Zenon DEF Controllers
  <2>3. r = NextCleanupAction(n).ctl
    BY <1>6, <1>13, Zenon DEF Succeeded
  <2> HIDE DEF n
  <2>4. ~ctl.process_started /\ Identified(n)
    BY <1>2, <1>4, <1>13, <2>2, Zenon DEF Enabling, Identified, SameFields
  <2>5. /\ Keeps(n, r) /\ r.state \notin {"HANDSHAKING", "RUNNING"}
        /\ r.action.type \notin {"TRANSFER_RESOURCES", "QUIESCE_SANDBOX"}
    BY <1>2, <1>5, <1>7, <1>13, <2>1, <2>2, <2>3, <2>4, Zenon DEF SameFields
  <2>6. /\ ResourceSet = ctl.resource_set_id /\ Sandbox = ctl.sandbox_id
        /\ Allocated <=> ctl.resources_allocated
        /\ Launched <=> ctl.process_started \/ ctl.process_exited
        /\ Revoked <=> type = "REVOKE_RESOURCES" \/ ctl.resources_revoked
    <3>1. /\ Done("REVOKE_RESOURCES") <=> type = "REVOKE_RESOURCES"
          /\ ~Done("ALLOCATE_RESOURCES")
          /\ ~Done("LAUNCH_SANDBOX")
          /\ ~Done("REAP_SANDBOX")
          /\ ~Done("RELEASE_RESOURCES")
      BY <1>13, Zenon DEF Done
    <3> QED BY <3>1, Zenon DEF ResourceSet, Sandbox, Allocated, Launched, Revoked
  <2> QED BY <1>2, <2>2, <2>4, <2>5, <2>6 DEF Reflects, Keeps, SameFields
<1>14. CASE type = "RELEASE_RESOURCES"
  <2> DEFINE n == [f EXCEPT !.resources_allocated = FALSE, !.resource_set_id = 0]
  <2>1. n \in Controllers
    BY <1>1, Zenon DEF Controllers
  <2>2. /\ n.action = f.action /\ n.state = f.state
        /\ n.resource_set_id = 0 /\ n.sandbox_id = f.sandbox_id
        /\ n.resources_allocated = FALSE
        /\ n.process_started = f.process_started /\ n.process_exited = f.process_exited
    BY <1>1, Zenon DEF Controllers
  <2>3. r = NextCleanupAction(n).ctl
    BY <1>6, <1>14, Zenon DEF Succeeded
  <2> HIDE DEF n
  <2>4. ~ctl.process_started /\ ~ctl.process_exited /\ Identified(n)
    BY <1>2, <1>4, <1>14, <2>2, Zenon DEF Enabling, Identified, SameFields
  <2>5. /\ Keeps(n, r) /\ r.state \notin {"HANDSHAKING", "RUNNING"}
        /\ r.action.type \notin {"TRANSFER_RESOURCES", "QUIESCE_SANDBOX"}
    BY <1>2, <1>5, <1>7, <1>14, <2>1, <2>2, <2>3, <2>4, Zenon DEF SameFields
  <2>6. ResourceSet = 0 /\ Sandbox = ctl.sandbox_id /\ ~Allocated /\ ~Launched
    <3>1. /\ Done("RELEASE_RESOURCES")
          /\ ~Done("ALLOCATE_RESOURCES")
          /\ ~Done("LAUNCH_SANDBOX")
          /\ ~Done("REAP_SANDBOX")
      BY <1>14, Zenon DEF Done
    <3> QED BY <3>1, <2>4, Zenon DEF ResourceSet, Sandbox, Allocated, Launched
  <2> QED BY <1>2, <2>2, <2>4, <2>5, <2>6, Zenon DEF Reflects, Keeps, SameFields
<1> QED BY <1>3, <1>8, <1>9, <1>10, <1>11, <1>12, <1>13, <1>14, Zenon DEF ActionTypes

(* An answer is always accepted by complete_action.                        *)
LEMMA AnswerAccepted ==
  ASSUME HostIInv, answer # NoAnswer
  PROVE  /\ Pending(ctl)
         /\ CompletionIdsValid(ctl.action.type, answer.result, answer.rid, answer.sid)
         /\ answer.rid \in ResourceIds \cup {0} /\ answer.sid \in SandboxIds \cup {0}
         /\ answer.result \in HostStatuses
         /\ CompletionVerdict(ctl, ctl.action.generation, ctl.action.token,
                              answer.result, answer.rid, answer.sid) = "OK"
<1>1. /\ Pending(ctl) /\ answer.result # "none"
      /\ CompletionIdsValid(ctl.action.type, answer.result, answer.rid, answer.sid)
  BY Zenon DEF HostIInv, Answering
<1>2. /\ answer.result \in {"none", "OK", "RESOURCE_DENIED", "RESOURCE_EXHAUSTED",
                            "HOST_FAILURE"}
      /\ answer.rid \in 0 .. MaxId /\ answer.sid \in 0 .. MaxId
  BY Zenon DEF HostIInv, HostTypeOK
<1>3. ctl.action.generation = ctl.generation
  BY <1>1, ControllerFacts, Zenon DEF Current
<1>4. answer.rid \in ResourceIds \cup {0} /\ answer.sid \in SandboxIds \cup {0}
  <2>1. \A x \in 0 .. MaxId : x = 0 \/ x \in 1 .. MaxId
    BY HostAssumption
  <2> QED BY <1>2, <2>1, HostAssumption, Zenon
<1>5. answer.result \in HostStatuses
  BY <1>1, <1>2, HostAssumption, Zenon
<1> QED BY <1>1, <1>2, <1>3, <1>4, <1>5, Zenon DEF CompletionVerdict

(* kb2_controller_complete_action, with the adapter's answer.              *)
LEMMA ReportAgrees ==
  ASSUME HostIInv, Report
  PROVE  Agree'
<1>1. answer # NoAnswer /\ answer' = NoAnswer /\ UNCHANGED <<host, proc>>
  BY Zenon DEF Report
<1>2. ctl' = Completed(ctl, answer.result, answer.rid, answer.sid).ctl
  BY <1>1, AnswerAccepted, Zenon DEF Report, CompleteAction, Finish
<1>3. Reflects(ctl')
  <2>1. CASE answer.result = "OK"
    BY <1>1, <1>2, <2>1, AnswerAccepted, SuccessReflects, Zenon DEF Completed
  <2>2. CASE answer.result # "OK"
    <3>1. /\ Keeps(ctl, ctl') /\ ctl'.state = "FAULTED" /\ ctl'.action = NoAction
      BY <1>2, <2>2, ControllerFacts, Zenon
         DEF Completed, Returns, SetFault, ClearAction, Keeps, Controllers
    <3> QED BY <2>2, <3>1, KeepsReflects DEF NoAction
  <2> QED BY <2>1, <2>2, Zenon
<1> QED BY <1>1, <1>3, CallAgrees, Zenon DEF HostIInv, Agree

-----------------------------------------------------------------------------
(***************************************************************************)
(* The adapter and the process                                             *)
(***************************************************************************)

(* The process ends, by itself or after SIGKILL.                           *)
LEMMA ProcessAgrees ==
  ASSUME HostIInv, ProcessExits \/ ProcessDies
  PROVE  Agree'
<1>1. /\ UNCHANGED <<ctl, host, answer>> /\ proc' \in Zombies
      /\ proc \in {"running", "dying"}
  BY Zenon DEF ProcessExits, ProcessDies, Zombies, vars
<1>2. Agreement' /\ Answering'
  BY <1>1 DEF HostIInv, Agreement, Allocated, Launched, Alive, Revoked, Connected,
              ResourceSet, Sandbox, Done, Answering
<1>3. Kernel'
  BY <1>1, Zenon DEF HostIInv, Kernel, Orphaned, Zombies
<1> QED BY <1>2, <1>3, Zenon DEF Agree

(* kb2_test_host_inject_fault.                                             *)
LEMMA InjectAgrees ==
  ASSUME HostIInv, InjectFault
  PROVE  Agree'
<1>1. /\ UNCHANGED <<ctl, answer>> /\ answer = NoAnswer
      /\ host.resources_transferred /\ ~host.resources_revoked
      /\ proc' \in {proc, Killed}
  BY Zenon DEF InjectFault, vars
<1>2. /\ host'.resource_set_id = host.resource_set_id /\ host'.sandbox_id = host.sandbox_id
      /\ host'.memory = host.memory /\ host'.generation = host.generation
      /\ host'.process = host.process /\ host'.process_fd = host.process_fd
      /\ host'.resources_revoked = host.resources_revoked
      /\ host'.process_exited = host.process_exited
      /\ host'.resources_transferred = host.resources_transferred
      /\ host'.bootstrap_socket = host.bootstrap_socket
  BY Zenon DEF InjectFault, HostIInv, HostTypeOK, Hosts
<1>3. Agreement'
  BY <1>1, <1>2, Zenon DEF HostIInv, Agreement, Allocated, Launched, Alive, Revoked, Connected,
                    ResourceSet, Sandbox, Done
<1>4. Kernel'
  BY <1>1, <1>2, Zenon DEF HostIInv, Kernel, Orphaned, Killed
<1> QED BY <1>1, <1>3, <1>4, Zenon DEF Agree, Answering

(* What the adapter holds when it is asked for an action.                  *)
Held ==
  /\ host.resource_set_id = ctl.resource_set_id /\ host.sandbox_id = ctl.sandbox_id
  /\ host.memory <=> ctl.resources_allocated
  /\ ctl.resources_allocated => host.generation = ctl.generation
  /\ host.process <=> ctl.process_started \/ ctl.process_exited
  /\ host.process_fd <=> ctl.process_started \/ ctl.process_exited
  /\ host.resources_revoked <=> ctl.resources_allocated /\ ctl.resources_revoked
  /\ ctl.process_started => ~host.process_exited
  /\ host.process_exited => ctl.process_started \/ ctl.process_exited
  /\ host.resources_revoked /\ (ctl.process_started \/ ctl.process_exited)
       => host.process_exited
  /\ host.resources_transferred /\ ~host.resources_revoked
       => ctl.process_started \/ ctl.process_exited
  /\ ~ctl.resources_allocated => ~host.resources_transferred /\ ~host.abnormal_exit_allowed
  /\ ctl.action.type = "TRANSFER_RESOURCES" =>
       host.bootstrap_socket /\ ~host.resources_transferred
  /\ ctl.state \in {"HANDSHAKING", "RUNNING"} \/ ctl.action.type = "QUIESCE_SANDBOX"
       => host.resources_transferred

(* Before the answer the two agree outright.                               *)
LEMMA HeldBefore ==
  ASSUME HostIInv, answer = NoAnswer
  PROVE  Held
<1>1. \A type : ~Done(type)
  BY Zenon DEF Done, NoAnswer
<1>2. /\ ResourceSet = ctl.resource_set_id /\ Sandbox = ctl.sandbox_id
      /\ Allocated <=> ctl.resources_allocated
      /\ Launched <=> ctl.process_started \/ ctl.process_exited
      /\ Alive <=> ctl.process_started
      /\ Revoked <=> ctl.resources_revoked
      /\ Connected <=> ctl.state \in {"HANDSHAKING", "RUNNING"}
  BY <1>1, Zenon DEF ResourceSet, Sandbox, Allocated, Launched, Alive, Revoked, Connected
<1> QED BY <1>2, Zenon DEF HostIInv, Agreement, Held

(* What the controller's flags imply of one another.                       *)
LEMMA FlagFacts ==
  ASSUME HostIInv
  PROVE  /\ ctl.process_started \/ ctl.process_exited => ctl.resources_allocated
         /\ ~(ctl.process_started /\ ctl.process_exited)
         /\ ctl.resources_allocated <=> ctl.resource_set_id # 0
         /\ ctl.process_started \/ ctl.process_exited <=> ctl.sandbox_id # 0
BY ControllerFacts, Zenon DEF Tracks, Identified, Ordered

(* What an action presupposes, of the flags alone.                         *)
LEMMA FlagsOfAction ==
  ASSUME HostIInv
  PROVE  LET type == ctl.action.type IN
         /\ type = "ALLOCATE_RESOURCES" =>
              ~ctl.resources_allocated /\ ~ctl.resources_revoked
              /\ ~ctl.process_started /\ ~ctl.process_exited
         /\ type = "LAUNCH_SANDBOX" =>
              ctl.resources_allocated /\ ~ctl.resources_revoked
              /\ ~ctl.process_started /\ ~ctl.process_exited
         /\ type \in {"TRANSFER_RESOURCES", "QUIESCE_SANDBOX", "TERMINATE_SANDBOX"} =>
              ctl.process_started /\ ctl.resources_allocated
         /\ type = "REVOKE_RESOURCES" =>
              ctl.resources_allocated /\ ~ctl.resources_revoked /\ ~ctl.process_started
         /\ type = "RESET_RESOURCES" =>
              ctl.resources_allocated /\ ctl.resources_revoked /\ ~ctl.process_started
         /\ type = "REAP_SANDBOX" =>
              /\ ctl.resources_allocated /\ ctl.resources_revoked
              /\ ctl.process_exited /\ ~ctl.process_started
         /\ type = "RELEASE_RESOURCES" =>
              ctl.resources_allocated /\ ~ctl.process_started /\ ~ctl.process_exited
<1> DEFINE d == done[ctl.generation]
<1>1. Tracks(ctl, d) /\ Enabling(ctl, ctl.action.type, d)
  BY ControllerFacts, Zenon
<1> HIDE DEF d
<1> QED BY <1>1, FlagFacts, Zenon DEF Tracks, Enabling

(* An action that failed, possibly after the transfer had begun or the     *)
(* kill was sent.                                                          *)
LEMMA FailureAgrees ==
  ASSUME HostIInv, Pending(ctl), answer = NoAnswer, UNCHANGED ctl,
         NEW result \in {"RESOURCE_DENIED", "RESOURCE_EXHAUSTED", "HOST_FAILURE"},
         Failure(result),
         host'.resource_set_id = host.resource_set_id,
         host'.sandbox_id = host.sandbox_id,
         host'.memory = host.memory,
         ctl.resources_allocated => host'.generation = host.generation,
         host'.process = host.process, host'.process_fd = host.process_fd,
         host'.resources_revoked = host.resources_revoked,
         host'.process_exited = host.process_exited,
         \/ host'.resources_transferred = host.resources_transferred
         \/ ctl.process_started /\ host'.resources_transferred,
         \/ host'.abnormal_exit_allowed = host.abnormal_exit_allowed
         \/ ctl.resources_allocated,
         Kernel'
  PROVE  Agree'
<1>1. /\ answer' = [result |-> result, rid |-> 0, sid |-> 0]
      /\ \A type : ~Done(type)'
  BY Zenon DEF Failure, Answer, Done
<1>2. Held
  BY HeldBefore, Zenon
<1>3. /\ ResourceSet' = ctl.resource_set_id /\ Sandbox' = ctl.sandbox_id
      /\ Allocated' <=> ctl.resources_allocated
      /\ Launched' <=> ctl.process_started \/ ctl.process_exited
      /\ Alive' <=> ctl.process_started
      /\ Revoked' <=> ctl.resources_revoked
      /\ Connected' <=> ctl.state \in {"HANDSHAKING", "RUNNING"}
  BY <1>1, Zenon DEF ResourceSet, Sandbox, Allocated, Launched, Alive, Revoked, Connected
<1>4. answer' # NoAnswer
  BY <1>1, Zenon DEF NoAnswer
<1>5. Agreement'
  BY <1>1, <1>2, <1>3, <1>4, FlagFacts, Zenon DEF Agreement, Held
<1>6. Answering'
  BY <1>1, Zenon DEF Answering, CompletionIdsValid, Pending
<1> QED BY <1>5, <1>6, Zenon DEF Agree

(* A failure that left everything as it was.                               *)
LEMMA RefusalAgrees ==
  ASSUME HostIInv, Pending(ctl), answer = NoAnswer, UNCHANGED <<ctl, host, proc>>,
         NEW result \in {"RESOURCE_DENIED", "RESOURCE_EXHAUSTED", "HOST_FAILURE"},
         Failure(result)
  PROVE  Agree'
<1>1. Kernel'
  BY Zenon DEF HostIInv, Kernel, Orphaned
<1> QED BY <1>1, FailureAgrees, Zenon

(* The requests the adapter's checks are made of.                          *)
Asked(type) == ctl.action.type = type /\ answer = NoAnswer /\ UNCHANGED ctl

(* Once an action is done, it alone is done.                               *)
LEMMA DoneAlone ==
  ASSUME UNCHANGED ctl, NEW rid, NEW sid, Answer("OK", rid, sid)
  PROVE  /\ answer' = [result |-> "OK", rid |-> rid, sid |-> sid] /\ answer' # NoAnswer
         /\ answer'.rid = rid /\ answer'.sid = sid
         /\ \A type : Done(type)' <=> type = ctl.action.type
BY Zenon DEF Answer, Done, NoAnswer

(* A success is an answer complete_action accepts.                         *)
LEMMA SuccessAnswers ==
  ASSUME UNCHANGED ctl, Pending(ctl), NEW rid, NEW sid, Answer("OK", rid, sid),
         CompletionIdsValid(ctl.action.type, "OK", rid, sid)
  PROVE  Answering'
<1>1. answer' = [result |-> "OK", rid |-> rid, sid |-> sid]
  BY Zenon DEF Answer
<1>2. answer'.result = "OK" /\ answer'.rid = rid /\ answer'.sid = sid
  BY <1>1, Zenon
<1>3. Pending(ctl)' /\ ctl'.action.type = ctl.action.type
  BY Zenon DEF Pending
<1> QED BY <1>2, <1>3, Zenon DEF Answering

(* ALLOCATE_RESOURCES, which may give back what it had built.              *)
LEMMA AllocateAgrees ==
  ASSUME HostIInv, Asked("ALLOCATE_RESOURCES"), HostAllocate(ctl.action)
  PROVE  Agree'
<1> DEFINE packed == [host EXCEPT !.package = TRUE]
           id == host.next_resource_set_id + 1
<1>0. /\ ctl.action.type = "ALLOCATE_RESOURCES" /\ answer = NoAnswer /\ UNCHANGED ctl
      /\ Pending(ctl) /\ UNCHANGED proc
  BY Zenon DEF Asked, Pending, HostAllocate
<1>1. /\ ~ctl.resources_allocated /\ ~ctl.resources_revoked
      /\ ~ctl.process_started /\ ~ctl.process_exited
  BY <1>0, FlagsOfAction, Zenon
<1>2. Held /\ host \in Hosts
  BY <1>0, HeldBefore, Zenon DEF HostIInv, HostTypeOK
<1>3. /\ host.resource_set_id = 0 /\ ~host.memory /\ ~host.process /\ ~host.process_fd
      /\ ~host.resources_revoked /\ ~host.process_exited /\ ~host.resources_transferred
      /\ ~host.abnormal_exit_allowed /\ proc = "none"
  BY <1>1, <1>2, FlagFacts, Zenon DEF Held, HostIInv, Kernel
<1>4. CASE host' \in {packed, ReleaseLocalResources(host)} /\ answer'.result # "OK"
  <2>1. /\ host'.resource_set_id = host.resource_set_id
        /\ host'.sandbox_id = host.sandbox_id
        /\ host'.memory = host.memory
        /\ host'.process = host.process /\ host'.process_fd = host.process_fd
        /\ host'.resources_revoked = host.resources_revoked
        /\ host'.process_exited = host.process_exited
        /\ host'.resources_transferred = host.resources_transferred
        /\ host'.abnormal_exit_allowed = host.abnormal_exit_allowed
    BY <1>2, <1>3, <1>4, Zenon DEF ReleaseLocalResources, Hosts
  <2>2. Kernel'
    BY <1>0, <1>3, <2>1, Zenon DEF Kernel, Orphaned
  <2>3. \E result \in {"RESOURCE_DENIED", "RESOURCE_EXHAUSTED", "HOST_FAILURE"} :
          Failure(result)
    BY <1>4 DEF HostAllocate, Answer
  <2> QED BY <1>0, <1>1, <2>1, <2>2, <2>3, FailureAgrees, Zenon
<1>5. ASSUME Answer("OK", id, 0),
             host' = [packed EXCEPT !.memory = TRUE, !.generation = ctl.action.generation,
                                    !.resource_set_id = id,
                                    !.next_resource_set_id = id]
      PROVE  Agree'
  <2>1. /\ host'.resource_set_id = id /\ host'.memory
        /\ host'.generation = ctl.action.generation
        /\ host'.sandbox_id = host.sandbox_id
        /\ host'.process = host.process /\ host'.process_fd = host.process_fd
        /\ host'.resources_revoked = host.resources_revoked
        /\ host'.process_exited = host.process_exited
        /\ host'.resources_transferred = host.resources_transferred
        /\ host'.abnormal_exit_allowed = host.abnormal_exit_allowed
    BY <1>2, <1>5, Zenon DEF Hosts
  <2>2. answer'.rid = id /\ \A type : Done(type)' <=> type = "ALLOCATE_RESOURCES"
    BY <1>0, <1>5, DoneAlone, Zenon
  <2>3. /\ ResourceSet' = id /\ Sandbox' = ctl.sandbox_id /\ Allocated'
        /\ ~Launched' /\ ~Alive' /\ ~Revoked'
        /\ Connected' <=> ctl.state \in {"HANDSHAKING", "RUNNING"}
    BY <1>0, <1>1, <2>2, Zenon
       DEF ResourceSet, Sandbox, Allocated, Launched, Alive, Revoked, Connected
  <2>4. ctl.action.generation = ctl.generation
    BY <1>0, ControllerFacts, Zenon DEF Current
  <2>5. Agreement'
    BY <1>0, <1>2, <1>3, <2>1, <2>2, <2>3, <2>4, Zenon DEF Agreement, Held
  <2>6. Kernel'
    BY <1>0, <1>3, <2>1, Zenon DEF Kernel, Orphaned
  <2>7. id # 0
    BY <1>2, HostAssumption DEF Hosts
  <2>8. Answering'
    BY <1>0, <1>5, <2>7, SuccessAnswers, Zenon DEF CompletionIdsValid
  <2> QED BY <2>5, <2>6, <2>8, Zenon DEF Agree
<1>6. \/ host' \in {packed, ReleaseLocalResources(host)} /\ answer'.result # "OK"
      \/ /\ Answer("OK", id, 0)
         /\ host' = [packed EXCEPT !.memory = TRUE, !.generation = ctl.action.generation,
                                   !.resource_set_id = id,
                                   !.next_resource_set_id = id]
  BY DEF HostAllocate, Failure, Answer
<1> QED BY <1>4, <1>5, <1>6, Zenon

(* LAUNCH_SANDBOX.                                                         *)
LEMMA LaunchAgrees ==
  ASSUME HostIInv, Asked("LAUNCH_SANDBOX"), HostLaunch
  PROVE  Agree'
<1> DEFINE id == host.next_sandbox_id + 1
<1>0. /\ ctl.action.type = "LAUNCH_SANDBOX" /\ answer = NoAnswer /\ UNCHANGED ctl
      /\ Pending(ctl)
  BY Zenon DEF Asked, Pending
<1>1. /\ ctl.resources_allocated /\ ~ctl.resources_revoked
      /\ ~ctl.process_started /\ ~ctl.process_exited
  BY <1>0, FlagsOfAction, Zenon
<1>2. Held /\ host \in Hosts
  BY <1>0, HeldBefore, Zenon DEF HostIInv, HostTypeOK
<1>3. \/ /\ UNCHANGED <<host, proc>>
         /\ Failure("RESOURCE_EXHAUSTED") \/ Failure("HOST_FAILURE")
      \/ /\ Answer("OK", 0, id) /\ proc' = "running"
         /\ host' = [host EXCEPT !.process = TRUE, !.process_fd = TRUE,
                                 !.bootstrap_socket = TRUE, !.sandbox_id = id,
                                 !.next_sandbox_id = id]
  BY Zenon DEF HostLaunch, Untouched
<1>4. ASSUME Answer("OK", 0, id), proc' = "running",
             host' = [host EXCEPT !.process = TRUE, !.process_fd = TRUE,
                                  !.bootstrap_socket = TRUE, !.sandbox_id = id,
                                  !.next_sandbox_id = id]
      PROVE  Agree'
  <2>1. /\ host'.process /\ host'.process_fd /\ host'.bootstrap_socket
        /\ host'.sandbox_id = id
        /\ host'.resource_set_id = host.resource_set_id /\ host'.memory = host.memory
        /\ host'.generation = host.generation
        /\ host'.resources_revoked = host.resources_revoked
        /\ host'.process_exited = host.process_exited
        /\ host'.resources_transferred = host.resources_transferred
        /\ host'.abnormal_exit_allowed = host.abnormal_exit_allowed
    BY <1>2, <1>4, Zenon DEF Hosts
  <2>2. answer'.sid = id /\ \A type : Done(type)' <=> type = "LAUNCH_SANDBOX"
    BY <1>0, <1>4, DoneAlone, Zenon
  <2>3. /\ ResourceSet' = ctl.resource_set_id /\ Sandbox' = id /\ Allocated'
        /\ Launched' /\ Alive' /\ ~Revoked'
        /\ Connected' <=> ctl.state \in {"HANDSHAKING", "RUNNING"}
    BY <1>0, <1>1, <2>2, Zenon
       DEF ResourceSet, Sandbox, Allocated, Launched, Alive, Revoked, Connected
  <2>4. Agreement'
    BY <1>0, <1>1, <1>2, <2>1, <2>2, <2>3, Zenon DEF Agreement, Held
  <2>5. Kernel'
    BY <1>1, <1>2, <1>4, <2>1, Zenon DEF Kernel, Orphaned, Held
  <2>6. id # 0
    BY <1>2, HostAssumption DEF Hosts
  <2>7. Answering'
    BY <1>0, <1>4, <2>6, SuccessAnswers, Zenon DEF CompletionIdsValid
  <2> QED BY <2>4, <2>5, <2>7, Zenon DEF Agree
<1> QED BY <1>0, <1>3, <1>4, RefusalAgrees, Zenon

(* TRANSFER_RESOURCES, which may fail after it was begun.                  *)
LEMMA TransferAgrees ==
  ASSUME HostIInv, Asked("TRANSFER_RESOURCES"), HostTransfer
  PROVE  Agree'
<1>0. /\ ctl.action.type = "TRANSFER_RESOURCES" /\ answer = NoAnswer /\ UNCHANGED ctl
      /\ Pending(ctl) /\ UNCHANGED proc
  BY Zenon DEF Asked, Pending, HostTransfer
<1>1. ctl.process_started /\ ctl.resources_allocated
  BY <1>0, FlagsOfAction, Zenon
<1>2. Held /\ host \in Hosts
  BY <1>0, HeldBefore, Zenon DEF HostIInv, HostTypeOK
<1>3. /\ \/ Failure("HOST_FAILURE")
         \/ Answer("OK", 0, 0) /\ host'.resources_transferred
      /\ host' \in {host, [host EXCEPT !.resources_transferred = TRUE],
                    [host EXCEPT !.resources_transferred = TRUE, !.bootstrap_socket = FALSE]}
  BY <1>2, Zenon DEF HostTransfer, Hosts
<1>4. /\ host'.resource_set_id = host.resource_set_id
      /\ host'.sandbox_id = host.sandbox_id
      /\ host'.memory = host.memory /\ host'.generation = host.generation
      /\ host'.process = host.process /\ host'.process_fd = host.process_fd
      /\ host'.resources_revoked = host.resources_revoked
      /\ host'.process_exited = host.process_exited
      /\ host'.abnormal_exit_allowed = host.abnormal_exit_allowed
      /\ \/ host'.resources_transferred = host.resources_transferred
         \/ host'.resources_transferred
  BY <1>2, <1>3, Zenon DEF Hosts
<1>5. Kernel'
  BY <1>0, <1>4, Zenon DEF HostIInv, Kernel, Orphaned
<1>6. CASE Failure("HOST_FAILURE")
  BY <1>0, <1>1, <1>4, <1>5, <1>6, FailureAgrees, Zenon
<1>7. CASE Answer("OK", 0, 0) /\ host'.resources_transferred
  <2>1. \A type : Done(type)' <=> type = "TRANSFER_RESOURCES"
    BY <1>0, <1>7, DoneAlone, Zenon
  <2>2. /\ ResourceSet' = ctl.resource_set_id /\ Sandbox' = ctl.sandbox_id /\ Allocated'
        /\ Launched' /\ Alive' /\ answer' # NoAnswer
        /\ Revoked' <=> ctl.resources_revoked
    BY <1>0, <1>1, <1>7, <2>1, DoneAlone, Zenon
       DEF ResourceSet, Sandbox, Allocated, Launched, Alive, Revoked
  <2>3. Agreement'
    BY <1>0, <1>1, <1>2, <1>4, <1>7, <2>1, <2>2, Zenon DEF Agreement, Held
  <2>4. Answering'
    BY <1>0, <1>7, SuccessAnswers, Zenon DEF CompletionIdsValid
  <2> QED BY <1>5, <2>3, <2>4, Zenon DEF Agree
<1> QED BY <1>3, <1>6, <1>7, Zenon

(* QUIESCE_SANDBOX, of a process that may have ended by itself.            *)
LEMMA QuiesceAgrees ==
  ASSUME HostIInv, Asked("QUIESCE_SANDBOX"), HostQuiesce
  PROVE  Agree'
<1>0. /\ ctl.action.type = "QUIESCE_SANDBOX" /\ answer = NoAnswer /\ UNCHANGED ctl
      /\ Pending(ctl)
  BY Zenon DEF Asked, Pending
<1>1. ctl.process_started /\ ctl.resources_allocated
  BY <1>0, FlagsOfAction, Zenon
<1>2. Held /\ host \in Hosts
  BY <1>0, HeldBefore, Zenon DEF HostIInv, HostTypeOK
<1>3. \/ Failure("HOST_FAILURE") /\ UNCHANGED <<host, proc>>
      \/ /\ Answer("OK", 0, 0) /\ proc' \in Zombies
         /\ host' = [host EXCEPT !.process_exited = TRUE, !.bootstrap_socket = FALSE]
  BY Zenon DEF HostQuiesce, WaitProcessFd, Ended
<1>4. ASSUME Answer("OK", 0, 0), proc' \in Zombies,
             host' = [host EXCEPT !.process_exited = TRUE, !.bootstrap_socket = FALSE]
      PROVE  Agree'
  <2>1. /\ host'.process_exited
        /\ host'.resource_set_id = host.resource_set_id
        /\ host'.sandbox_id = host.sandbox_id
        /\ host'.memory = host.memory /\ host'.generation = host.generation
        /\ host'.process = host.process /\ host'.process_fd = host.process_fd
        /\ host'.resources_revoked = host.resources_revoked
        /\ host'.resources_transferred = host.resources_transferred
        /\ host'.abnormal_exit_allowed = host.abnormal_exit_allowed
    BY <1>2, <1>4, Zenon DEF Hosts
  <2>2. \A type : Done(type)' <=> type = "QUIESCE_SANDBOX"
    BY <1>0, <1>4, DoneAlone, Zenon
  <2>3. /\ ResourceSet' = ctl.resource_set_id /\ Sandbox' = ctl.sandbox_id /\ Allocated'
        /\ Launched' /\ ~Alive'
        /\ Revoked' <=> ctl.resources_revoked
        /\ Connected' <=> ctl.state \in {"HANDSHAKING", "RUNNING"}
    BY <1>0, <1>1, <2>2, Zenon
       DEF ResourceSet, Sandbox, Allocated, Launched, Alive, Revoked, Connected
  <2>4. Agreement'
    BY <1>0, <1>1, <1>2, <2>1, <2>2, <2>3, Zenon DEF Agreement, Held
  <2>5. Kernel'
    BY <1>1, <1>2, <1>4, <2>1, Zenon DEF Kernel, Orphaned, Zombies, Held
  <2>6. Answering'
    BY <1>0, <1>4, SuccessAnswers, Zenon DEF CompletionIdsValid
  <2> QED BY <2>4, <2>5, <2>6, Zenon DEF Agree
<1> QED BY <1>0, <1>3, <1>4, RefusalAgrees, Zenon

(* TERMINATE_SANDBOX, which may fail after the kill was sent.              *)
LEMMA TerminateAgrees ==
  ASSUME HostIInv, Asked("TERMINATE_SANDBOX"), HostTerminate
  PROVE  Agree'
<1> DEFINE allowed == [host EXCEPT !.abnormal_exit_allowed = TRUE]
<1>0. /\ ctl.action.type = "TERMINATE_SANDBOX" /\ answer = NoAnswer /\ UNCHANGED ctl
      /\ Pending(ctl)
  BY Zenon DEF Asked, Pending
<1>1. ctl.process_started /\ ctl.resources_allocated
  BY <1>0, FlagsOfAction, Zenon
<1>2. Held /\ host \in Hosts
  BY <1>0, HeldBefore, Zenon DEF HostIInv, HostTypeOK
<1>3. host.process /\ ~host.process_exited /\ proc # "none"
  BY <1>1, <1>2, Zenon DEF Held, HostIInv, Kernel, Orphaned
<1>4. \/ Failure("HOST_FAILURE") /\ UNCHANGED <<host, proc>>
      \/ /\ Failure("HOST_FAILURE") /\ host' = allowed
         /\ proc' \in {"running", "dying"}
      \/ /\ Answer("OK", 0, 0) /\ host' = [allowed EXCEPT !.process_exited = TRUE]
         /\ proc' \notin {"none", "running", "dying"}
  BY <1>3, Zenon DEF HostTerminate, WaitProcessFdFails, WaitProcessFd, Ended, Killed, Zombies
<1>5. ASSUME \/ host' = allowed
             \/ host' = [allowed EXCEPT !.process_exited = TRUE]
      PROVE  /\ host'.resource_set_id = host.resource_set_id
             /\ host'.sandbox_id = host.sandbox_id
             /\ host'.memory = host.memory /\ host'.generation = host.generation
             /\ host'.process = host.process /\ host'.process_fd = host.process_fd
             /\ host'.resources_revoked = host.resources_revoked
             /\ host'.resources_transferred = host.resources_transferred
             /\ host' = allowed => host'.process_exited = host.process_exited
             /\ host' = [allowed EXCEPT !.process_exited = TRUE] => host'.process_exited
  BY <1>2, <1>5, Zenon DEF Hosts
<1> HIDE DEF allowed
<1>6. ASSUME Failure("HOST_FAILURE"), host' = allowed, proc' \in {"running", "dying"}
      PROVE  Agree'
  <2>1. Kernel'
    BY <1>3, <1>5, <1>6, Zenon DEF Kernel, Orphaned
  <2> QED BY <1>0, <1>1, <1>5, <1>6, <2>1, FailureAgrees, Zenon
<1>7. ASSUME Answer("OK", 0, 0), host' = [allowed EXCEPT !.process_exited = TRUE],
             proc' \notin {"none", "running", "dying"}
      PROVE  Agree'
  <2>1. \A type : Done(type)' <=> type = "TERMINATE_SANDBOX"
    BY <1>0, <1>7, DoneAlone, Zenon
  <2>2. /\ ResourceSet' = ctl.resource_set_id /\ Sandbox' = ctl.sandbox_id /\ Allocated'
        /\ Launched' /\ ~Alive'
        /\ Revoked' <=> ctl.resources_revoked
        /\ Connected' <=> ctl.state \in {"HANDSHAKING", "RUNNING"}
    BY <1>0, <1>1, <2>1, Zenon
       DEF ResourceSet, Sandbox, Allocated, Launched, Alive, Revoked, Connected
  <2>3. Agreement'
    BY <1>0, <1>1, <1>2, <1>5, <1>7, <2>1, <2>2, Zenon DEF Agreement, Held
  <2>4. Kernel'
    BY <1>3, <1>5, <1>7, Zenon DEF Kernel, Orphaned
  <2>5. Answering'
    BY <1>0, <1>7, SuccessAnswers, Zenon DEF CompletionIdsValid
  <2> QED BY <2>3, <2>4, <2>5, Zenon DEF Agree
<1> QED BY <1>0, <1>4, <1>6, <1>7, RefusalAgrees, Zenon

(* REVOKE_RESOURCES, which waits for a process not known to be dead.       *)
LEMMA RevokeAgrees ==
  ASSUME HostIInv, Asked("REVOKE_RESOURCES"), HostRevoke
  PROVE  Agree'
<1>0. /\ ctl.action.type = "REVOKE_RESOURCES" /\ answer = NoAnswer /\ UNCHANGED ctl
      /\ Pending(ctl)
  BY Zenon DEF Asked, Pending
<1>1. ctl.resources_allocated /\ ~ctl.resources_revoked /\ ~ctl.process_started
  BY <1>0, FlagsOfAction, Zenon
<1>2. Held /\ host \in Hosts /\ Kernel
  BY <1>0, HeldBefore, Zenon DEF HostIInv, HostTypeOK
<1>3. ~Orphaned /\ (proc = "none" <=> ~host.process)
  BY <1>1, <1>2, Zenon DEF Held, Kernel, Orphaned
<1>4. \/ Failure("HOST_FAILURE") /\ UNCHANGED <<host, proc>>
      \/ /\ Answer("OK", 0, 0)
         /\ host' = [host EXCEPT !.resources_revoked = TRUE,
                                 !.process_exited = host.process]
         /\ proc' \notin {"running", "dying"} /\ (proc' = "none" <=> ~host.process)
  BY <1>2, <1>3, Zenon
     DEF HostRevoke, WaitProcessFdFails, WaitProcessFd, Ended, Zombies, Kernel
<1>5. ASSUME Answer("OK", 0, 0),
             host' = [host EXCEPT !.resources_revoked = TRUE,
                                  !.process_exited = host.process],
             proc' \notin {"running", "dying"}, proc' = "none" <=> ~host.process
      PROVE  Agree'
  <2>1. /\ host'.resources_revoked /\ host'.process_exited = host.process
        /\ host'.resource_set_id = host.resource_set_id
        /\ host'.sandbox_id = host.sandbox_id
        /\ host'.memory = host.memory /\ host'.generation = host.generation
        /\ host'.process = host.process /\ host'.process_fd = host.process_fd
        /\ host'.resources_transferred = host.resources_transferred
        /\ host'.abnormal_exit_allowed = host.abnormal_exit_allowed
    BY <1>2, <1>5, Zenon DEF Hosts
  <2>2. \A type : Done(type)' <=> type = "REVOKE_RESOURCES"
    BY <1>0, <1>5, DoneAlone, Zenon
  <2>3. /\ ResourceSet' = ctl.resource_set_id /\ Sandbox' = ctl.sandbox_id /\ Allocated'
        /\ Launched' <=> ctl.process_started \/ ctl.process_exited
        /\ ~Alive' /\ Revoked'
        /\ Connected' <=> ctl.state \in {"HANDSHAKING", "RUNNING"}
    BY <1>0, <1>1, <2>2, Zenon
       DEF ResourceSet, Sandbox, Allocated, Launched, Alive, Revoked, Connected
  <2>4. Agreement'
    BY <1>0, <1>1, <1>2, <2>1, <2>2, <2>3, Zenon DEF Agreement, Held
  <2>5. Kernel'
    BY <1>5, <2>1, Zenon DEF Kernel, Orphaned
  <2>6. Answering'
    BY <1>0, <1>5, SuccessAnswers, Zenon DEF CompletionIdsValid
  <2> QED BY <2>4, <2>5, <2>6, Zenon DEF Agree
<1> QED BY <1>0, <1>4, <1>5, RefusalAgrees, Zenon

(* RESET_RESOURCES.                                                        *)
LEMMA ResetAgrees ==
  ASSUME HostIInv, Asked("RESET_RESOURCES"), HostReset
  PROVE  Agree'
<1>0. /\ ctl.action.type = "RESET_RESOURCES" /\ answer = NoAnswer /\ UNCHANGED ctl
      /\ Pending(ctl) /\ UNCHANGED <<host, proc>>
  BY Zenon DEF Asked, Pending, HostReset, Untouched
<1>1. CASE Answer("OK", 0, 0)
  <2>1. \A type : Done(type)' <=> type = "RESET_RESOURCES"
    BY <1>0, <1>1, DoneAlone, Zenon
  <2>2. /\ ResourceSet' = ctl.resource_set_id /\ Sandbox' = ctl.sandbox_id
        /\ Allocated' <=> ctl.resources_allocated
        /\ Launched' <=> ctl.process_started \/ ctl.process_exited
        /\ Alive' <=> ctl.process_started
        /\ Revoked' <=> ctl.resources_revoked
        /\ Connected' <=> ctl.state \in {"HANDSHAKING", "RUNNING"}
    BY <1>0, <2>1, Zenon
       DEF ResourceSet, Sandbox, Allocated, Launched, Alive, Revoked, Connected
  <2>3. Agreement'
    BY <1>0, <2>1, <2>2, HeldBefore, Zenon DEF Agreement, Held
  <2>4. Kernel'
    BY <1>0, Zenon DEF HostIInv, Kernel, Orphaned
  <2>5. Answering'
    BY <1>0, <1>1, SuccessAnswers, Zenon DEF CompletionIdsValid
  <2> QED BY <2>3, <2>4, <2>5, Zenon DEF Agree
<1> QED BY <1>0, <1>1, RefusalAgrees, Zenon DEF HostReset

(* REAP_SANDBOX, which may lose the exit status.                           *)
LEMMA ReapAgrees ==
  ASSUME HostIInv, Asked("REAP_SANDBOX"), HostReap
  PROVE  Agree'
<1>0. /\ ctl.action.type = "REAP_SANDBOX" /\ answer = NoAnswer /\ UNCHANGED ctl
      /\ Pending(ctl)
  BY Zenon DEF Asked, Pending
<1>1. /\ ctl.resources_allocated /\ ctl.resources_revoked
      /\ ctl.process_exited /\ ~ctl.process_started
  BY <1>0, FlagsOfAction, Zenon
<1>2. Held /\ host \in Hosts
  BY <1>0, HeldBefore, Zenon DEF HostIInv, HostTypeOK
<1>3. \/ Failure("HOST_FAILURE") /\ UNCHANGED <<host, proc>>
      \/ /\ Failure("HOST_FAILURE") /\ proc' = "none" /\ UNCHANGED host
         /\ ~host.abnormal_exit_allowed
      \/ /\ Answer("OK", 0, 0) /\ proc' = "none"
         /\ host' = [host EXCEPT !.process = FALSE, !.process_exited = FALSE,
                                 !.process_fd = FALSE, !.bootstrap_socket = FALSE,
                                 !.sandbox_id = 0]
  BY Zenon DEF HostReap, ExitAccepted, Untouched
<1>4. ASSUME Failure("HOST_FAILURE"), proc' = "none", UNCHANGED host,
             ~host.abnormal_exit_allowed
      PROVE  Agree'
  <2>1. Kernel'
    BY <1>1, <1>2, <1>4, Zenon DEF Kernel, Orphaned, Held
  <2> QED BY <1>0, <1>4, <2>1, FailureAgrees, Zenon
<1>5. ASSUME Answer("OK", 0, 0), proc' = "none",
             host' = [host EXCEPT !.process = FALSE, !.process_exited = FALSE,
                                  !.process_fd = FALSE, !.bootstrap_socket = FALSE,
                                  !.sandbox_id = 0]
      PROVE  Agree'
  <2>1. /\ ~host'.process /\ ~host'.process_exited /\ ~host'.process_fd
        /\ host'.sandbox_id = 0
        /\ host'.resource_set_id = host.resource_set_id
        /\ host'.memory = host.memory /\ host'.generation = host.generation
        /\ host'.resources_revoked = host.resources_revoked
        /\ host'.resources_transferred = host.resources_transferred
        /\ host'.abnormal_exit_allowed = host.abnormal_exit_allowed
    BY <1>2, <1>5, Zenon DEF Hosts
  <2>2. \A type : Done(type)' <=> type = "REAP_SANDBOX"
    BY <1>0, <1>5, DoneAlone, Zenon
  <2>3. /\ ResourceSet' = ctl.resource_set_id /\ Sandbox' = 0 /\ Allocated'
        /\ ~Launched' /\ ~Alive' /\ Revoked'
        /\ Connected' <=> ctl.state \in {"HANDSHAKING", "RUNNING"}
    BY <1>0, <1>1, <2>2, Zenon
       DEF ResourceSet, Sandbox, Allocated, Launched, Alive, Revoked, Connected
  <2>4. Agreement'
    BY <1>0, <1>1, <1>2, <2>1, <2>2, <2>3, Zenon DEF Agreement, Held
  <2>5. Kernel'
    BY <1>5, <2>1, Zenon DEF Kernel, Orphaned
  <2>6. Answering'
    BY <1>0, <1>5, SuccessAnswers, Zenon DEF CompletionIdsValid
  <2> QED BY <2>4, <2>5, <2>6, Zenon DEF Agree
<1> QED BY <1>0, <1>3, <1>4, <1>5, RefusalAgrees, Zenon

(* RELEASE_RESOURCES.                                                      *)
LEMMA ReleaseAgrees ==
  ASSUME HostIInv, Asked("RELEASE_RESOURCES"), HostRelease
  PROVE  Agree'
<1>0. /\ ctl.action.type = "RELEASE_RESOURCES" /\ answer = NoAnswer /\ UNCHANGED ctl
      /\ Pending(ctl) /\ UNCHANGED proc /\ Answer("OK", 0, 0)
  BY Zenon DEF Asked, Pending, HostRelease
<1>1. ctl.resources_allocated /\ ~ctl.process_started /\ ~ctl.process_exited
  BY <1>0, FlagsOfAction, Zenon
<1>2. Held /\ host \in Hosts
  BY <1>0, HeldBefore, Zenon DEF HostIInv, HostTypeOK
<1>3. ~host.process /\ proc = "none"
  BY <1>1, <1>2, Zenon DEF Held, HostIInv, Kernel
<1>4. /\ host'.resource_set_id = 0 /\ ~host'.memory /\ ~host'.process_fd
      /\ ~host'.resources_transferred /\ ~host'.resources_revoked
      /\ ~host'.abnormal_exit_allowed /\ ~host'.process_exited
      /\ host'.sandbox_id = host.sandbox_id /\ host'.process = host.process
  BY <1>2, Zenon DEF HostRelease, ReleaseLocalResources, Hosts
<1>5. \A type : Done(type)' <=> type = "RELEASE_RESOURCES"
  BY <1>0, DoneAlone, Zenon
<1>6. /\ ResourceSet' = 0 /\ Sandbox' = ctl.sandbox_id /\ ~Allocated'
      /\ ~Launched' /\ ~Alive' /\ ~Connected'
  <2>1. ctl.state \notin {"HANDSHAKING", "RUNNING"}
    BY <1>0, ControllerFacts, Zenon DEF Phase
  <2> QED
    BY <1>0, <1>1, <1>5, <2>1, Zenon DEF ResourceSet, Sandbox, Allocated, Launched, Alive, Connected
<1>7. Agreement'
  BY <1>0, <1>2, <1>3, <1>4, <1>5, <1>6, Zenon DEF Agreement, Held
<1>8. Kernel'
  BY <1>0, <1>3, <1>4, Zenon DEF Kernel, Orphaned
<1>9. Answering'
  BY <1>0, SuccessAnswers, Zenon DEF CompletionIdsValid
<1> QED BY <1>7, <1>8, <1>9, Zenon DEF Agree

(* kb2_test_host_execute.                                                  *)
LEMMA ExecuteAgrees ==
  ASSUME HostIInv, HostExecute
  PROVE  Agree'
<1> DEFINE a == ctl.action
<1>1. Pending(ctl) /\ answer = NoAnswer /\ UNCHANGED ctl
  BY Zenon DEF HostExecute, vars
<1>2. CASE Failure("HOST_FAILURE") /\ Untouched
  BY <1>1, <1>2, RefusalAgrees, Zenon DEF Untouched
<1>3. CASE \/ a.type = "ALLOCATE_RESOURCES" /\ HostAllocate(a)
           \/ a.type = "LAUNCH_SANDBOX" /\ HostLaunch
           \/ a.type = "TRANSFER_RESOURCES" /\ HostTransfer
           \/ a.type = "QUIESCE_SANDBOX" /\ HostQuiesce
           \/ a.type = "REVOKE_RESOURCES" /\ HostRevoke
           \/ a.type = "RESET_RESOURCES" /\ HostReset
           \/ a.type = "TERMINATE_SANDBOX" /\ HostTerminate
           \/ a.type = "REAP_SANDBOX" /\ HostReap
           \/ a.type = "RELEASE_RESOURCES" /\ HostRelease
  BY <1>1, <1>3, AllocateAgrees, LaunchAgrees, TransferAgrees, QuiesceAgrees, RevokeAgrees,
     ResetAgrees, TerminateAgrees, ReapAgrees, ReleaseAgrees, Zenon DEF Asked
<1> QED BY <1>2, <1>3, Zenon DEF HostExecute

-----------------------------------------------------------------------------
(***************************************************************************)
(* Types, and the controller's own invariant, under the composed steps     *)
(***************************************************************************)

(* The adapter's identifiers stay within their counters, whatever it does. *)
LEMMA ExecuteType ==
  ASSUME HostIInv, HostExecute
  PROVE  HostTypeOK'
<1> USE HostAssumption
<1>0. /\ host \in Hosts /\ failures \in 0 .. MaxFailures /\ UNCHANGED <<ctl, news>>
      /\ proc \in {"none", "running", "dying"} \cup Zombies
      /\ ctl.action.generation \in Generations
      /\ news \in [kind : {"NONE", "PROCESS_EXIT", "PROTOCOL"}, generation : Generations]
  BY ControllerFacts, Zenon DEF HostExecute, HostIInv, HostTypeOK, vars, Controllers, Actions
<1>1. failures' \in 0 .. MaxFailures
  <2>1. UNCHANGED failures \/ Fails
    BY Zenon DEF HostExecute, Untouched, HostAllocate, HostLaunch, HostTransfer, HostQuiesce,
           HostRevoke, HostReset, HostTerminate, HostReap, HostRelease, NoReply,
           WaitProcessFd, WaitProcessFdFails
  <2> QED BY <1>0, <2>1 DEF Fails
<1>2. proc' \in {"none", "running", "dying"} \cup Zombies
  BY <1>0, Zenon
     DEF HostExecute, Untouched, HostAllocate, HostLaunch, HostTransfer, HostQuiesce,
         HostRevoke, HostReset, HostTerminate, HostReap, HostRelease,
         WaitProcessFd, WaitProcessFdFails, Ended, Killed, Zombies
<1>3. /\ host.next_resource_set_id # MaxId => host.next_resource_set_id + 1 \in 0 .. MaxId
      /\ host.next_sandbox_id # MaxId => host.next_sandbox_id + 1 \in 0 .. MaxId
  BY <1>0 DEF Hosts
<1>4. host' \in Hosts
  <2>0. 0 \in 0 .. MaxId /\ 0 \in Generations /\ TRUE \in BOOLEAN /\ FALSE \in BOOLEAN
    BY ControllerAssumption DEF Generations
  <2>1. ReleaseLocalResources(host) \in Hosts
    BY <1>0, <2>0, ZenonT(30) DEF ReleaseLocalResources, Hosts
  <2>2. CASE UNCHANGED host
    BY <1>0, <2>2, Zenon
  <2>3. CASE HostAllocate(ctl.action)
    <3> DEFINE packed == [host EXCEPT !.package = TRUE]
               id == host.next_resource_set_id + 1
    <3>1. packed \in Hosts
      BY <1>0, <2>0, Zenon DEF Hosts
    <3>2. \A h \in Hosts, g \in Generations, n \in 0 .. MaxId :
            [h EXCEPT !.memory = TRUE, !.generation = g,
                      !.resource_set_id = n, !.next_resource_set_id = n] \in Hosts
      BY <2>0, Zenon DEF Hosts
    <3>3. \/ host' \in {packed, ReleaseLocalResources(host)}
          \/ /\ host.next_resource_set_id # MaxId
             /\ host' = [packed EXCEPT !.memory = TRUE, !.generation = ctl.action.generation,
                                       !.resource_set_id = id,
                                       !.next_resource_set_id = id]
      BY <2>3, Zenon DEF HostAllocate
    <3>4. host.next_resource_set_id # MaxId => id \in 0 .. MaxId
      BY <1>3, Zenon
    <3> HIDE DEF packed, id
    <3>5. host.next_resource_set_id # MaxId =>
            [packed EXCEPT !.memory = TRUE, !.generation = ctl.action.generation,
                           !.resource_set_id = id, !.next_resource_set_id = id] \in Hosts
      BY <1>0, <3>1, <3>2, <3>4, Zenon
    <3> QED BY <2>1, <3>1, <3>3, <3>5, Zenon
  <2>4. CASE HostLaunch
    <3>1. \A id \in 0 .. MaxId :
            [host EXCEPT !.process = TRUE, !.process_fd = TRUE, !.bootstrap_socket = TRUE,
                         !.sandbox_id = id, !.next_sandbox_id = id] \in Hosts
      BY <1>0, <2>0, Zenon DEF Hosts
    <3> QED BY <1>0, <1>3, <2>4, <3>1, Zenon DEF HostLaunch, Untouched
  <2>5. CASE HostTransfer \/ HostQuiesce
    <3>1. /\ [host EXCEPT !.resources_transferred = TRUE] \in Hosts
          /\ [host EXCEPT !.resources_transferred = TRUE,
                          !.bootstrap_socket = FALSE] \in Hosts
          /\ [host EXCEPT !.process_exited = TRUE, !.bootstrap_socket = FALSE] \in Hosts
      BY <1>0, <2>0, Zenon DEF Hosts
    <3> QED BY <1>0, <2>5, <3>1, Zenon DEF HostTransfer, HostQuiesce
  <2>6. CASE HostTerminate
    <3>1. \A h \in Hosts : /\ [h EXCEPT !.abnormal_exit_allowed = TRUE] \in Hosts
                          /\ [h EXCEPT !.process_exited = TRUE] \in Hosts
      BY <2>0, Zenon DEF Hosts
    <3> QED BY <1>0, <2>6, <3>1, Zenon DEF HostTerminate
  <2>7. CASE HostRevoke
    <3>1. host.process \in BOOLEAN
      BY <1>0, Zenon DEF Hosts
    <3> QED BY <1>0, <2>7, <3>1, Zenon DEF HostRevoke, Hosts
  <2>8. CASE HostReap
    <3>1. [host EXCEPT !.process = FALSE, !.process_exited = FALSE, !.process_fd = FALSE,
                       !.bootstrap_socket = FALSE, !.sandbox_id = 0] \in Hosts
      BY <1>0, <2>0, Zenon DEF Hosts
    <3> QED BY <1>0, <2>8, <3>1, Zenon DEF HostReap, Untouched
  <2> QED
    BY <2>1, <2>2, <2>3, <2>4, <2>5, <2>6, <2>7, <2>8, Zenon
       DEF HostExecute, Untouched, HostReset, HostRelease
<1>5. answer' \in [result : {"none", "OK", "RESOURCE_DENIED", "RESOURCE_EXHAUSTED",
                             "HOST_FAILURE"},
                   rid : 0 .. MaxId, sid : 0 .. MaxId]
  <2>1. \E result \in {"OK", "RESOURCE_DENIED", "RESOURCE_EXHAUSTED", "HOST_FAILURE"},
           rid \in 0 .. MaxId, sid \in 0 .. MaxId : Answer(result, rid, sid)
    <3>1. 0 \in 0 .. MaxId
      OBVIOUS
    <3> QED
      BY <1>3, <3>1, Zenon
         DEF HostExecute, HostAllocate, HostLaunch, HostTransfer, HostQuiesce, HostRevoke,
             HostReset, HostTerminate, HostReap, HostRelease, Failure
  <2> QED BY <2>1 DEF Answer
<1>6. stray' \in BOOLEAN
  <2>1. stray \in BOOLEAN
    BY Zenon DEF HostIInv, HostTypeOK
  <2>2. UNCHANGED stray \/ stray' = TRUE
    BY Zenon DEF HostExecute, HostLaunch
  <2> QED BY <2>1, <2>2, Zenon
<1> QED BY <1>0, <1>1, <1>2, <1>4, <1>5, <1>6, Zenon DEF HostTypeOK

(* The other steps touch the adapter's record at most in one flag.         *)
LEMMA HostTypeInductive ==
  ASSUME HostIInv, HostNext
  PROVE  HostTypeOK'
<1>1. /\ host \in Hosts
      /\ proc \in {"none", "running", "dying"} \cup Zombies
      /\ answer \in [result : {"none", "OK", "RESOURCE_DENIED", "RESOURCE_EXHAUSTED",
                               "HOST_FAILURE"},
                     rid : 0 .. MaxId, sid : 0 .. MaxId]
      /\ news \in [kind : {"NONE", "PROCESS_EXIT", "PROTOCOL"}, generation : Generations]
      /\ failures \in 0 .. MaxFailures /\ stray \in BOOLEAN
  BY Zenon DEF HostIInv, HostTypeOK
<1>2. NoAnswer \in [result : {"none", "OK", "RESOURCE_DENIED", "RESOURCE_EXHAUSTED",
                              "HOST_FAILURE"},
                    rid : 0 .. MaxId, sid : 0 .. MaxId]
  BY HostAssumption DEF NoAnswer
<1>3. NoNews \in [kind : {"NONE", "PROCESS_EXIT", "PROTOCOL"}, generation : Generations]
  BY ControllerAssumption DEF NoNews, Generations
<1>4. CASE HostExecute
  BY <1>4, ExecuteType, Zenon
<1>5. CASE ProcessExits \/ ProcessDies
  BY <1>1, <1>5, Zenon DEF ProcessExits, ProcessDies, HostTypeOK, Zombies
<1>6. CASE Report \/ DeliverNews
  BY <1>1, <1>2, <1>3, <1>6, Zenon DEF Report, DeliverNews, HostTypeOK
<1>7. CASE InjectFault \/ NoticeExit
  <2>1. ctl.generation \in Generations /\ host.generation \in Generations
    BY <1>1, ControllerFacts, Zenon DEF Hosts
  <2>2. [host EXCEPT !.abnormal_exit_allowed = TRUE] \in Hosts
    BY <1>1, Zenon DEF Hosts
  <2>3. host' \in Hosts
    BY <1>1, <1>7, <2>2, Zenon DEF InjectFault, NoticeExit
  <2>4. proc' \in {"none", "running", "dying"} \cup Zombies
    BY <1>1, <1>7, Zenon DEF InjectFault, NoticeExit, Killed
  <2>5. news' \in [kind : {"NONE", "PROCESS_EXIT", "PROTOCOL"}, generation : Generations]
    BY <1>7, <2>1 DEF InjectFault, NoticeExit
  <2> QED BY <1>1, <1>7, <2>3, <2>4, <2>5, Zenon DEF InjectFault, NoticeExit, HostTypeOK
<1>8. CASE UNCHANGED HostSide
  BY <1>1, <1>8, Zenon DEF HostSide, HostTypeOK
<1> QED
  BY <1>4, <1>5, <1>6, <1>7, <1>8, Zenon
     DEF HostNext, Configure, StartSandbox, StopSandbox, RestartSandbox, Ready

(* Every step of the composed system is a controller call the controller's *)
(* own specification allows, or leaves the controller alone.               *)
LEMMA ControllerStep ==
  ASSUME HostIInv, HostNext
  PROVE  IInv'
<1> USE ControllerAssumption
<1>0. IInv /\ ctl.generation \in Generations /\ ctl.next_token \in Tokens
  BY ControllerFacts, Zenon DEF HostIInv, Controllers
<1>1. ctl.generation \in Near(ctl.generation, Generations)
  BY <1>0 DEF Near, Generations
<1>2. CASE [Next]_vars
  BY <1>0, <1>2, InductiveStep, Zenon DEF Preserves
<1>3. CASE Report
  <2>1. answer # NoAnswer
    BY <1>3, Zenon DEF Report
  <2>2. ctl.action.generation = ctl.generation /\ ctl.action.token = ctl.next_token
    BY <2>1, AnswerAccepted, ControllerFacts, Zenon DEF Current
  <2>3. ctl.next_token \in Near(ctl.next_token, Tokens)
    BY <1>0 DEF Near, Tokens
  <2>4. CompleteAction(ctl.generation, ctl.next_token, answer.result, answer.rid, answer.sid)
    BY <1>3, <2>2, Zenon DEF Report
  <2> QED BY <1>1, <1>2, <2>1, <2>3, <2>4, AnswerAccepted, Zenon DEF Next
<1>4. CASE DeliverNews
  <2>1. CASE news.generation = ctl.generation
    <3>1. news.kind \in FaultKinds
      BY Zenon DEF HostIInv, HostTypeOK, FaultKinds
    <3> QED BY <1>1, <1>2, <1>4, <2>1, <3>1, Zenon DEF DeliverNews, Next
  <2>2. CASE news.generation # ctl.generation
    <3>1. UNCHANGED <<ctl, done>> /\ ret' \in Statuses
      BY <1>4, <2>2, Zenon DEF DeliverNews, ReportFault, Refuse, Statuses
    <3> QED BY <1>0, <3>1, Zenon DEF IInv, TypeOK
  <2> QED BY <2>1, <2>2, Zenon
<1>5. CASE Configure
  BY <1>2, <1>5, Zenon DEF Configure, Next
<1>6. CASE StartSandbox \/ StopSandbox \/ RestartSandbox \/ Ready
  BY <1>1, <1>2, <1>6, Zenon DEF StartSandbox, StopSandbox, RestartSandbox, Ready, Next
<1>7. CASE ProcessExits \/ ProcessDies \/ HostExecute \/ InjectFault \/ NoticeExit
  BY <1>2, <1>7, Zenon DEF ProcessExits, ProcessDies, HostExecute, InjectFault, NoticeExit
<1> QED BY <1>3, <1>4, <1>5, <1>6, <1>7, Zenon DEF HostNext

(* The invariant holds of a freshly initialised adapter and controller.    *)
LEMMA HostInitial == HostInitialize => HostIInv
<1> SUFFICES ASSUME HostInitialize PROVE HostIInv
  BY Zenon
<1> USE HostAssumption, ControllerAssumption
<1>1. IInv
  BY InitSound, Zenon DEF HostInitialize
<1>2. /\ ctl.resource_set_id = 0 /\ ctl.sandbox_id = 0 /\ ~ctl.resources_allocated
      /\ ~ctl.process_started /\ ~ctl.process_exited /\ ctl.state = "IDLE"
      /\ ctl.action.type = "NONE" /\ ctl.generation = 0
  BY Zenon DEF HostInitialize, Init, NoAction
<1>3. /\ host.resource_set_id = 0 /\ host.sandbox_id = 0 /\ ~host.memory
      /\ ~host.process /\ ~host.process_fd /\ ~host.resources_revoked
      /\ ~host.process_exited /\ ~host.resources_transferred
      /\ ~host.abnormal_exit_allowed /\ proc = "none" /\ answer = NoAnswer
  BY Zenon DEF HostInitialize
<1>4. HostTypeOK
  <2>1. host \in Hosts
    BY DEF HostInitialize, Hosts, Generations
  <2>2. stray \in BOOLEAN
    BY Zenon DEF HostInitialize
  <2> QED BY <2>1, <2>2 DEF HostInitialize, HostTypeOK, NoAnswer, NoNews, Generations
<1>5. \A type : ~Done(type)
  BY <1>3, Zenon DEF Done, NoAnswer
<1>6. Agreement
  BY <1>2, <1>3, <1>5, Zenon DEF Agreement, Allocated, Launched, Alive, Revoked, Connected,
                          ResourceSet, Sandbox
<1> QED BY <1>1, <1>3, <1>4, <1>6, Zenon DEF HostIInv, Kernel, Orphaned, Answering

(* HostIInv is inductive: one step per action of the composed system.      *)
LEMMA HostInductive == HostIInv /\ [HostNext]_hostVars => HostIInv'
<1> SUFFICES ASSUME HostIInv, [HostNext]_hostVars PROVE HostIInv'
  BY Zenon
<1>1. CASE HostNext
  <2>1. ASSUME NoticeExit PROVE Agree'
    BY <2>1, UnchangedAgrees, Zenon DEF NoticeExit, vars
  <2>2. Agree'
    BY <1>1, <2>1, ProcessAgrees, ExecuteAgrees, ReportAgrees, InjectAgrees,
       DeliverNewsAgrees, ConfigureAgrees, StartAgrees, StopAgrees, ReadyAgrees, Zenon
       DEF HostNext
  <2> QED BY <1>1, <2>2, HostTypeInductive, ControllerStep, Zenon DEF HostIInv, Agree
<1>2. CASE UNCHANGED hostVars
  <2>1. UNCHANGED <<ctl, ret, done, host, proc, answer, news, failures, stray>>
    BY <1>2, Zenon DEF hostVars, vars
  <2>2. IInv'
    BY <2>1, Zenon DEF HostIInv, IInv, TypeOK
  <2> QED BY <2>1, <2>2, UnchangedAgrees, Zenon DEF HostIInv, HostTypeOK, Agree
<1> QED BY <1>1, <1>2, Zenon

(* The invariant of the composed system holds throughout.                  *)
LEMMA HostInvariance == HostSpec => []HostIInv
BY HostInitial, HostInductive, PTL DEF HostSpec

-----------------------------------------------------------------------------
(***************************************************************************)
(* The theorems on the composed system                                     *)
(***************************************************************************)

(* The adapter's checks accept the action the controller asks for, in      *)
(* every order of failures, exits and events; an idle controller has left  *)
(* nothing on the host but a stray child of a failed launch.               *)
THEOREM HostAndControllerAgree == HostSpec => []HostAgrees
<1>1. HostIInv => HostAgrees
  <2> SUFFICES ASSUME HostIInv PROVE HostAgrees
    BY Zenon
  <2> DEFINE a == ctl.action
  <2>1. HostTypeOK /\ (Orphaned => ~host.abnormal_exit_allowed)
    BY Zenon DEF HostIInv, Kernel
  <2>2. ctl.state = "IDLE" => IsReleased /\ proc = "none"
    <3> SUFFICES ASSUME ctl.state = "IDLE" PROVE IsReleased /\ proc = "none"
      BY Zenon
    <3>1. ~ctl.resources_allocated /\ ~ctl.process_started /\ ~ctl.process_exited
          /\ ~Pending(ctl)
      BY ControllerFacts, Zenon DEF Phase
    <3>2. Held
      BY <3>1, ControllerFacts, HeldBefore, Zenon
    <3> QED BY <3>1, <3>2, FlagFacts, Zenon DEF Held, IsReleased, HostIInv, Kernel
  <2>3. ASSUME Pending(ctl), answer = NoAnswer,
               ~(a.type = "QUIESCE_SANDBOX" /\ host.abnormal_exit_allowed)
        PROVE  Accepts(a)
    <3>1. Held
      BY <2>3, HeldBefore, Zenon
    <3>2. /\ a.generation = ctl.generation
          /\ a.resource_set_id = IF CarriesResourceSet(a.type) THEN ctl.resource_set_id ELSE 0
          /\ a.sandbox_id = IF CarriesSandbox(a.type) THEN ctl.sandbox_id ELSE 0
      BY <2>3, ControllerFacts, Zenon DEF Current
    <3>3. a.type \in ActionTypes
      BY <2>3, ControllerFacts, Zenon DEF Controllers, Actions, Pending
    <3>4. CASE a.type = "ALLOCATE_RESOURCES"
      BY <3>1, <3>2, <3>4, FlagsOfAction, FlagFacts, Zenon
         DEF Accepts, CanAllocate, Held, CarriesResourceSet, CarriesSandbox
    <3>5. ASSUME a.type # "ALLOCATE_RESOURCES"
          PROVE  ctl.resources_allocated /\ a.generation = host.generation
      BY <3>1, <3>2, <3>3, <3>5, FlagsOfAction, Zenon DEF Held, ActionTypes
    <3>6. CASE a.type = "LAUNCH_SANDBOX"
      BY <3>1, <3>2, <3>5, <3>6, FlagsOfAction, FlagFacts, Zenon
         DEF Accepts, CanLaunch, Held, CarriesResourceSet, CarriesSandbox
    <3>7. CASE a.type = "TRANSFER_RESOURCES"
      BY <3>1, <3>2, <3>5, <3>7, FlagsOfAction, Zenon
         DEF Accepts, CanTransfer, Held, CarriesResourceSet, CarriesSandbox
    <3>8. CASE a.type = "QUIESCE_SANDBOX"
      BY <2>3, <3>1, <3>2, <3>5, <3>8, FlagsOfAction, Zenon
         DEF Accepts, CanQuiesce, Held, CarriesResourceSet, CarriesSandbox
    <3>9. CASE a.type = "REVOKE_RESOURCES"
      BY <3>1, <3>2, <3>5, <3>9, FlagsOfAction, FlagFacts, Zenon
         DEF Accepts, CanRevoke, Held, CarriesResourceSet, CarriesSandbox
    <3>10. CASE a.type = "RESET_RESOURCES"
      BY <3>1, <3>2, <3>5, <3>10, FlagsOfAction, Zenon
         DEF Accepts, CanReset, Held, CarriesResourceSet, CarriesSandbox
    <3>11. CASE a.type = "TERMINATE_SANDBOX"
      BY <3>1, <3>2, <3>5, <3>11, FlagsOfAction, Zenon
         DEF Accepts, CanTerminate, Held, CarriesResourceSet, CarriesSandbox
    <3>12. CASE a.type = "REAP_SANDBOX"
      BY <3>1, <3>2, <3>5, <3>12, FlagsOfAction, Zenon
         DEF Accepts, CanReap, Held, CarriesResourceSet, CarriesSandbox
    <3>13. CASE a.type = "RELEASE_RESOURCES"
      BY <3>1, <3>2, <3>5, <3>13, FlagsOfAction, Zenon
         DEF Accepts, CanRelease, Held, CarriesResourceSet, CarriesSandbox
    <3> QED
      BY <3>3, <3>4, <3>6, <3>7, <3>8, <3>9, <3>10, <3>11, <3>12, <3>13, Zenon DEF ActionTypes
  <2> QED BY <2>1, <2>2, <2>3, Zenon DEF HostAgrees
<1> QED BY <1>1, HostInvariance, PTL

(* The adapter revokes, resets and unmaps shared memory only after the     *)
(* process is dead, although the controller may believe it dead earlier.   *)
THEOREM MemoryOutlivesProcess == HostSpec => []LiveProcessKeepsMemory
<1>1. HostIInv => LiveProcessKeepsMemory
  <2> SUFFICES ASSUME HostIInv, proc \in {"running", "dying"}
               PROVE  host.process /\ host.memory /\ ~host.resources_revoked
    BY Zenon DEF LiveProcessKeepsMemory
  <2>1. host.process /\ ~host.process_exited
    BY Zenon DEF HostIInv, Kernel
  <2>2. Launched /\ ~host.resources_revoked
    BY <2>1, Zenon DEF HostIInv, Agreement
  <2>3. Allocated
    BY <2>2, FlagFacts, FlagsOfAction, Zenon DEF Allocated, Launched, Done
  <2> QED BY <2>1, <2>2, <2>3, Zenon DEF HostIInv, Agreement
<1> QED BY <1>1, HostInvariance, PTL

(* What the controller guarantees to any host it guarantees to this one.   *)
THEOREM HostedController ==
  HostSpec => [](TeardownOrder /\ NoGenerationOverlap /\ ActionFits)
<1>1. HostIInv => TeardownOrder /\ NoGenerationOverlap /\ ActionFits
  BY InvariantImplies, Zenon DEF HostIInv, IInv, ActionFits
<1> QED BY <1>1, HostInvariance, PTL
=============================================================================
