----------------------------- MODULE ControllerHost -----------------------------
(***************************************************************************)
(* The controller composed with the reference host adapter                 *)
(* (tests/host/linux_host_adapter.c), the sandbox process it spawns and    *)
(* the supervisor that drives both as tests/host_integration_test.c does.  *)
(*                                                                         *)
(* The adapter executes the pending action, which may block, and its       *)
(* answer is handed to the controller by a later call: in between, and at  *)
(* any other time, the process may exit and the supervisor may deliver     *)
(* commands and events.  Every system call may fail; MaxFailures actions   *)
(* fail in all, so that a retry succeeds in the end.                       *)
(***************************************************************************)
EXTENDS Controller

CONSTANTS
  MaxId,        \* UINT64_MAX for the identifiers the adapter hands out
  MaxFailures   \* bound on the actions that fail or time out

ASSUME HostAssumption ==
  /\ MaxId \in Nat \ {0}
  /\ 1 .. MaxId \subseteq ResourceIds \cap SandboxIds
  /\ MaxFailures \in Nat
  /\ {"OK", "RESOURCE_DENIED", "RESOURCE_EXHAUSTED", "HOST_FAILURE"} \subseteq HostStatuses

VARIABLES
  host,      \* kb2_test_host_t; descriptors and the pid by whether they are open
  proc,      \* the sandbox process, as the kernel has it
  answer,    \* the result of the executed action, not yet reported
  news,      \* a fault the supervisor knows of and has not reported
  failures,  \* actions that failed so far
  stray      \* a child was killed in a failed launch and not collected

hostVars == <<vars, host, proc, answer, news, failures, stray>>

Zombies == {"exited", "aborted"}   \* exit status zero, any other end

NoAnswer == [result |-> "none", rid |-> 0, sid |-> 0]
NoNews == [kind |-> "NONE", generation |-> 0]

Hosts ==
  [generation : Generations, resource_set_id : 0 .. MaxId, sandbox_id : 0 .. MaxId,
   next_resource_set_id : 0 .. MaxId, next_sandbox_id : 0 .. MaxId,
   package : BOOLEAN, memory : BOOLEAN, process : BOOLEAN, process_fd : BOOLEAN,
   bootstrap_socket : BOOLEAN, resources_transferred : BOOLEAN,
   resources_revoked : BOOLEAN, abnormal_exit_allowed : BOOLEAN,
   process_exited : BOOLEAN]

HostInitialize ==
  /\ Init
  /\ host = [generation |-> 0, resource_set_id |-> 0, sandbox_id |-> 0,
             next_resource_set_id |-> 0, next_sandbox_id |-> 0,
             package |-> TRUE, memory |-> FALSE, process |-> FALSE,
             process_fd |-> FALSE, bootstrap_socket |-> FALSE,
             resources_transferred |-> FALSE, resources_revoked |-> FALSE,
             abnormal_exit_allowed |-> FALSE, process_exited |-> FALSE]
  /\ proc = "none" /\ answer = NoAnswer /\ news = NoNews /\ failures = 0 /\ stray = FALSE

-----------------------------------------------------------------------------
(***************************************************************************)
(* The sandbox process and the system calls on it                          *)
(***************************************************************************)

(* It may end at any time, by itself or by a crash.                        *)
ProcessExits ==
  /\ proc = "running" /\ proc' \in Zombies
  /\ UNCHANGED <<vars, host, answer, news, failures, stray>>

(* SIGKILL takes effect some time after kill returned.                     *)
ProcessDies ==
  /\ proc = "dying" /\ proc' = "aborted"
  /\ UNCHANGED <<vars, host, answer, news, failures, stray>>

Killed == IF proc = "running" THEN "dying" ELSE proc

Fails == failures < MaxFailures /\ failures' = failures + 1

(* A wait on the process descriptor succeeds once the process p has ended, *)
(* and times out if that takes too long.                                   *)
Ended(p) ==
  CASE p = "running" -> Zombies
    [] p = "dying" -> {"aborted"}
    [] OTHER -> {p}

WaitProcessFd(p) == proc' \in Ended(p) /\ UNCHANGED failures
WaitProcessFdFails(p) == p \in {"running", "dying"} /\ proc' = p /\ Fails

(* A request to a process that is gone gets no reply; one to a live        *)
(* process may time out.                                                   *)
NoReply == IF proc = "running" THEN Fails ELSE UNCHANGED failures

-----------------------------------------------------------------------------
(***************************************************************************)
(* kb2_test_host_execute: the checks of each action type (Can...) and    *)
(* what it does to host, proc, failures and answer when they pass; only a  *)
(* launch may leave a stray child.                                         *)
(***************************************************************************)

Answer(result, rid, sid) == answer' = [result |-> result, rid |-> rid, sid |-> sid]

Failure(result) == Answer(result, 0, 0)

Untouched == UNCHANGED <<host, proc, failures>>

(* Mutant: the flags of the last generation survive.                       *)
ReleaseLocalResourcesKeepsFlags(h) ==
  [h EXCEPT !.package = FALSE, !.memory = FALSE, !.bootstrap_socket = FALSE,
            !.process_fd = FALSE, !.generation = 0, !.resource_set_id = 0]

ReleaseLocalResources(h) ==
  [h EXCEPT !.package = FALSE, !.memory = FALSE, !.bootstrap_socket = FALSE,
            !.process_fd = FALSE, !.generation = 0, !.resource_set_id = 0,
            !.resources_transferred = FALSE, !.resources_revoked = FALSE,
            !.abnormal_exit_allowed = FALSE, !.process_exited = FALSE]

CanAllocate(a) ==
  /\ host.resource_set_id = 0 /\ ~host.memory
  /\ a.resource_set_id = 0 /\ a.sandbox_id = 0

(* A description that is refused leaves the closure package in place; a    *)
(* failure to build something gives everything back.  Which configurations *)
(* the adapter refuses is left open.                                       *)
HostAllocate(a) ==
  LET packed == [host EXCEPT !.package = TRUE]
      id == host.next_resource_set_id + 1
  IN  \/ /\ Fails
         /\ \E result \in {"RESOURCE_DENIED", "RESOURCE_EXHAUSTED", "HOST_FAILURE"} :
              Failure(result)
         /\ host' \in {packed, ReleaseLocalResources(host)}
         /\ UNCHANGED proc
      \/ /\ host.next_resource_set_id = MaxId
         /\ Failure("RESOURCE_EXHAUSTED")
         /\ host' = packed
         /\ UNCHANGED <<proc, failures>>
      \/ /\ host.next_resource_set_id # MaxId
         /\ Answer("OK", id, 0)
         /\ host' = [packed EXCEPT !.memory = TRUE, !.generation = a.generation,
                                   !.resource_set_id = id,
                                   !.next_resource_set_id = id]
         /\ UNCHANGED <<proc, failures>>

CanLaunch(a) ==
  \/ host.next_sandbox_id = MaxId
  \/ /\ host.resource_set_id # 0 /\ ~host.process
     /\ a.resource_set_id = host.resource_set_id /\ a.sandbox_id = 0

(* A child without a process descriptor is killed and waited for before    *)
(* the launch fails; whether the wait collected it in time is not asked.   *)
(* Nothing was sent to it.                                                 *)
HostLaunch ==
  LET id == host.next_sandbox_id + 1
  IN  \/ /\ host.next_sandbox_id = MaxId
         /\ Failure("RESOURCE_EXHAUSTED") /\ Untouched /\ UNCHANGED stray
      \/ /\ host.next_sandbox_id # MaxId /\ Fails
         /\ \/ Failure("RESOURCE_EXHAUSTED") /\ UNCHANGED stray
            \/ Failure("HOST_FAILURE") /\ stray' \in {stray, TRUE}
         /\ UNCHANGED <<host, proc>>
      \/ /\ host.next_sandbox_id # MaxId
         /\ Answer("OK", 0, id)
         /\ host' = [host EXCEPT !.process = TRUE, !.process_fd = TRUE,
                                 !.bootstrap_socket = TRUE, !.sandbox_id = id,
                                 !.next_sandbox_id = id]
         /\ proc' = "running"
         /\ UNCHANGED <<failures, stray>>

CanTransfer(a) ==
  /\ host.bootstrap_socket /\ host.process /\ ~host.resources_transferred
  /\ a.resource_set_id = host.resource_set_id /\ a.sandbox_id = host.sandbox_id

(* The descriptors may not reach the child, or it may not report READY.    *)
HostTransfer ==
  \/ /\ NoReply
     /\ Failure("HOST_FAILURE")
     /\ host' \in {host, [host EXCEPT !.resources_transferred = TRUE]}
     /\ UNCHANGED proc
  \/ /\ proc = "running"
     /\ Answer("OK", 0, 0)
     /\ host' = [host EXCEPT !.resources_transferred = TRUE,
                             !.bootstrap_socket = FALSE]
     /\ UNCHANGED <<proc, failures>>

CanQuiesce(a) ==
  /\ host.resources_transferred /\ ~host.resources_revoked
  /\ ~host.abnormal_exit_allowed /\ host.process /\ host.process_fd
  /\ a.resource_set_id = host.resource_set_id /\ a.sandbox_id = host.sandbox_id

HostQuiesce ==
  \/ /\ NoReply
     /\ Failure("HOST_FAILURE")
     /\ UNCHANGED <<host, proc>>
  \/ /\ proc = "running" /\ WaitProcessFd(proc)
     /\ Answer("OK", 0, 0)
     /\ host' = [host EXCEPT !.process_exited = TRUE, !.bootstrap_socket = FALSE]

CanRevoke(a) ==
  /\ host.resource_set_id # 0 /\ ~host.resources_revoked
  /\ a.resource_set_id = host.resource_set_id /\ a.sandbox_id = 0
  /\ IF host.process THEN host.process_fd
                     ELSE ~host.process_fd /\ ~host.resources_transferred

(* Mutant: the process is taken for dead because the controller said so.   *)
HostRevokeTrusting ==
  /\ Answer("OK", 0, 0)
  /\ host' = [host EXCEPT !.resources_revoked = TRUE,
                          !.process_exited = host.process]
  /\ UNCHANGED <<proc, failures>>

(* A child that exists must be dead before its resources are revoked.      *)
HostRevoke ==
  \/ /\ host.process /\ ~host.process_exited
     /\ WaitProcessFdFails(proc)
     /\ Failure("HOST_FAILURE")
     /\ UNCHANGED host
  \/ /\ IF host.process /\ ~host.process_exited THEN WaitProcessFd(proc)
                                                ELSE UNCHANGED <<proc, failures>>
     /\ Answer("OK", 0, 0)
     /\ host' = [host EXCEPT !.resources_revoked = TRUE,
                             !.process_exited = host.process]

CanReset(a) ==
  /\ host.resources_revoked
  /\ a.resource_set_id = host.resource_set_id /\ a.sandbox_id = 0

HostReset ==
  \/ Fails /\ Failure("HOST_FAILURE") /\ UNCHANGED <<host, proc>>
  \/ Answer("OK", 0, 0) /\ Untouched

CanTerminate(a) ==
  /\ host.process /\ host.process_fd /\ ~host.process_exited
  /\ a.resource_set_id = 0 /\ a.sandbox_id = host.sandbox_id

HostTerminate ==
  LET allowed == [host EXCEPT !.abnormal_exit_allowed = TRUE]
  IN  \/ /\ Fails
         /\ Failure("HOST_FAILURE") /\ UNCHANGED <<host, proc>>
      \/ /\ WaitProcessFdFails(Killed)
         /\ Failure("HOST_FAILURE")
         /\ host' = allowed
      \/ /\ WaitProcessFd(Killed)
         /\ Answer("OK", 0, 0)
         /\ host' = [allowed EXCEPT !.process_exited = TRUE]

CanReap(a) ==
  /\ host.resources_revoked /\ host.process_exited /\ host.process
  /\ a.resource_set_id = 0 /\ a.sandbox_id = host.sandbox_id

ExitAccepted == host.abnormal_exit_allowed \/ proc = "exited"

(* waitpid collects the exit status before the adapter judges it.          *)
HostReap ==
  \/ proc \notin Zombies /\ Failure("HOST_FAILURE") /\ Untouched
  \/ /\ proc \in Zombies /\ ~ExitAccepted
     /\ Failure("HOST_FAILURE")
     /\ proc' = "none"
     /\ UNCHANGED <<host, failures>>
  \/ /\ proc \in Zombies /\ ExitAccepted
     /\ Answer("OK", 0, 0)
     /\ host' = [host EXCEPT !.process = FALSE, !.process_exited = FALSE,
                             !.process_fd = FALSE, !.bootstrap_socket = FALSE,
                             !.sandbox_id = 0]
     /\ proc' = "none"
     /\ UNCHANGED failures

CanRelease(a) ==
  /\ ~host.process
  /\ a.resource_set_id = host.resource_set_id /\ a.sandbox_id = 0

HostRelease ==
  /\ Answer("OK", 0, 0)
  /\ host' = ReleaseLocalResources(host)
  /\ UNCHANGED <<proc, failures>>

(* The checks each operation makes before it does anything.                *)
Accepts(a) ==
  IF a.type = "ALLOCATE_RESOURCES" THEN CanAllocate(a)
  ELSE /\ a.generation = host.generation
       /\ CASE a.type = "LAUNCH_SANDBOX" -> CanLaunch(a)
            [] a.type = "TRANSFER_RESOURCES" -> CanTransfer(a)
            [] a.type = "QUIESCE_SANDBOX" -> CanQuiesce(a)
            [] a.type = "REVOKE_RESOURCES" -> CanRevoke(a)
            [] a.type = "RESET_RESOURCES" -> CanReset(a)
            [] a.type = "TERMINATE_SANDBOX" -> CanTerminate(a)
            [] a.type = "REAP_SANDBOX" -> CanReap(a)
            [] a.type = "RELEASE_RESOURCES" -> CanRelease(a)

HostExecute ==
  LET a == ctl.action IN
  /\ Pending(ctl) /\ answer = NoAnswer
  /\ \/ ~Accepts(a) /\ Failure("HOST_FAILURE") /\ Untouched
     \/ /\ Accepts(a)
        /\ \/ a.type = "ALLOCATE_RESOURCES" /\ HostAllocate(a)
           \/ a.type = "LAUNCH_SANDBOX" /\ HostLaunch
           \/ a.type = "TRANSFER_RESOURCES" /\ HostTransfer
           \/ a.type = "QUIESCE_SANDBOX" /\ HostQuiesce
           \/ a.type = "REVOKE_RESOURCES" /\ HostRevoke
           \/ a.type = "RESET_RESOURCES" /\ HostReset
           \/ a.type = "TERMINATE_SANDBOX" /\ HostTerminate
           \/ a.type = "REAP_SANDBOX" /\ HostReap
           \/ a.type = "RELEASE_RESOURCES" /\ HostRelease
  /\ IF a.type = "LAUNCH_SANDBOX" /\ Accepts(a) THEN TRUE ELSE UNCHANGED stray
  /\ UNCHANGED <<vars, news>>

-----------------------------------------------------------------------------
(***************************************************************************)
(* The supervisor                                                          *)
(***************************************************************************)

HostSide == <<host, proc, answer, news, failures, stray>>

Report ==
  /\ answer # NoAnswer
  /\ CompleteAction(ctl.action.generation, ctl.action.token,
                    answer.result, answer.rid, answer.sid)
  /\ answer' = NoAnswer
  /\ UNCHANGED <<host, proc, news, failures, stray>>

(* kb2_test_host_inject_fault: the adapter kills the process, or sees it   *)
(* break the protocol; either way it no longer expects a clean exit.       *)
InjectFault ==
  /\ host.resources_transferred /\ ~host.resources_revoked
  /\ answer = NoAnswer /\ news = NoNews /\ ~Pending(ctl)
  /\ host' = [host EXCEPT !.abnormal_exit_allowed = TRUE]
  /\ \/ /\ proc' = Killed
        /\ news' = [kind |-> "PROCESS_EXIT", generation |-> ctl.generation]
     \/ /\ UNCHANGED proc
        /\ news' = [kind |-> "PROTOCOL", generation |-> ctl.generation]
  /\ UNCHANGED <<vars, answer, failures, stray>>

(* The process descriptor became readable.                                 *)
NoticeExit ==
  /\ proc \in Zombies /\ host.process_fd /\ ~host.process_exited /\ news = NoNews
  /\ news' = [kind |-> "PROCESS_EXIT", generation |-> host.generation]
  /\ UNCHANGED <<vars, host, proc, answer, failures, stray>>

(* An event refused because an action is pending is delivered again.       *)
DeliverNews ==
  /\ news # NoNews
  /\ ReportFault(news.generation, news.kind)
  /\ news' = IF ret' = "ACTION_PENDING" THEN news ELSE NoNews
  /\ UNCHANGED <<host, proc, answer, failures, stray>>

Configure ==
  /\ ctl.state = "IDLE"
  /\ \/ \E closure \in Closures : SetClosure(closure)
     \/ \E kind \in DigestKinds : SetDigest(kind, FALSE)
     \/ \E kind \in LimitKinds : SetLimit(kind, FALSE)
  /\ UNCHANGED HostSide

(* Commands wait for the pending action (drive_actions runs it to the end).*)
StartSandbox == ~Pending(ctl) /\ Start /\ UNCHANGED HostSide
StopSandbox == ~Pending(ctl) /\ Stop /\ UNCHANGED HostSide
RestartSandbox == ~Pending(ctl) /\ Restart /\ UNCHANGED HostSide
Ready == ~Pending(ctl) /\ ReportReady(ctl.generation) /\ UNCHANGED HostSide

(* A supervisor retries the cleanup of a faulted sandbox.                  *)
RetryCleanup == ctl.state = "FAULTED" /\ StopSandbox

HostNext ==
  \/ ProcessExits \/ ProcessDies
  \/ HostExecute \/ Report
  \/ InjectFault \/ NoticeExit \/ DeliverNews
  \/ Configure \/ StartSandbox \/ StopSandbox \/ RestartSandbox \/ Ready

HostFairness ==
  /\ WF_hostVars(ProcessDies)
  /\ WF_hostVars(HostExecute) /\ WF_hostVars(Report)
  /\ WF_hostVars(NoticeExit) /\ WF_hostVars(DeliverNews)
  /\ WF_hostVars(RetryCleanup)

HostSpec == HostInitialize /\ [][HostNext]_hostVars /\ HostFairness

-----------------------------------------------------------------------------
(***************************************************************************)
(* Properties                                                              *)
(***************************************************************************)

HostTypeOK ==
  /\ host \in Hosts
  /\ proc \in {"none", "running", "dying"} \cup Zombies
  /\ answer \in [result : {"none", "OK", "RESOURCE_DENIED", "RESOURCE_EXHAUSTED",
                           "HOST_FAILURE"},
                 rid : 0 .. MaxId, sid : 0 .. MaxId]
  /\ news \in [kind : {"NONE", "PROCESS_EXIT", "PROTOCOL"}, generation : Generations]
  /\ failures \in 0 .. MaxFailures /\ stray \in BOOLEAN

(* The adapter collected an exit status it did not expect and still holds  *)
(* the process: a reap repeated from here waits for a child that is gone.  *)
Orphaned == host.process /\ proc = "none"

(* kb2_test_host_is_released, less the closure package, which outlives a   *)
(* refused allocation.                                                     *)
IsReleased ==
  /\ host.resource_set_id = 0 /\ host.sandbox_id = 0
  /\ ~host.process /\ ~host.memory

(* Whatever failed before, the two agree on generation, identifiers and    *)
(* what has been done: the adapter's own bookkeeping never refuses the     *)
(* action the controller asks for (except the quiesce of a stop requested  *)
(* before an injected fault was reported); an idle controller has left no  *)
(* process, zombie, memory or identifier on the host, but for a stray      *)
(* child, which was sent nothing; and the adapter loses an exit status     *)
(* only of a process that ended badly without anybody having asked for it. *)
HostAgrees ==
  LET a == ctl.action IN
  /\ HostTypeOK
  /\ Pending(ctl) /\ answer = NoAnswer =>
       Accepts(a) \/ (a.type = "QUIESCE_SANDBOX" /\ host.abnormal_exit_allowed)
  /\ ctl.state = "IDLE" => IsReleased /\ proc = "none"
  /\ Orphaned => ~host.abnormal_exit_allowed

(* A sandbox that can still run, killed or not, keeps its shared memory:   *)
(* nothing is revoked, hence nothing reset or unmapped, under it.  The     *)
(* controller may have been told of its exit before it is dead.            *)
LiveProcessKeepsMemory ==
  proc \in {"running", "dying"} =>
    host.process /\ host.memory /\ ~host.resources_revoked

(* A cleanup that is retried comes to its end: from every fault, every     *)
(* stop and every end of a process by itself, noticed whatever is pending  *)
(* then and even if the report of it is refused, the host gets to the      *)
(* released state, unless the adapter lost the exit status of a crash.     *)
CleanupCompletes ==
  ctl.state \in {"FAULTED", "STOPPING"} \/ proc \in Zombies ~> IsReleased \/ Orphaned
=============================================================================
