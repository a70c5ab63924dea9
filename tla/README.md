# Formal models of kobox2

TLA+ models of kobox2, model-checked with TLC on small instances.  Seven of
them, the controller with its host and the virtqueue with its refinement among
them, are also proved correct with TLAPS for every value of their constants.
`PROJECT.json` maps every definition to the source lines it stands for, and
lists the runs, the theorems and the hazards with the line where each bites.
Paths below are relative to `src/`.

## The system

kobox2 runs Linux modules in separate sandbox processes.

| Part | Source | Modelled by |
|---|---|---|
| Lifecycle controller | `src/controller/controller.c` | `Controller` |
| Reference host adapter, its driver, the process | `tests/host`, `tests/host_integration_test.c` | `ControllerHost` |
| Closure builder, sealed closures | `src/closure.c` | `ClosureBuilder` |
| Validation of the dependency graph | `kb2_validate_graph` in `src/closure.c` | `ClosureGraph` |
| Virtqueue engine: rings and ownership | `protocol/src/virtqueue.c` | `Virtqueue`, abstractly `RequestExchange` |
| Virtqueue engine: wake-ups | `publish_index`, `arm`, `protocol/arch/x86_64` | `VirtqueueNotify` |
| Virtqueue engine: descriptors, indirect tables, copies | `publish`, `read_chain`, `validate_chain`, `copy_data` | `VirtqueueChain` |
| Mapped memory | `protocol/src/virtqueue_memory.c` | `MappedMemory` |
| Test queues, sandbox child, host transport | `protocol/test/src/split_virtqueue.c`, `tests/sandbox_child.c`, `tests/host/linux_host_transport.c` | `TestQueue`, `SandboxExchange` |
| Bootstrap socket | `protocol/test/src/bootstrap.c` | `Bootstrap` |
| Channels and envelopes | `protocol/src/protocol.c` | `Channel` |
| Resource grants | `protocol/src/resource_grant.c` | `ResourceGrant` |
| Closure manifest | `protocol/src/closure_manifest.c` | `Manifest` |
| Filesystem and block services | `protocol/src/filesystem.c`, `block_device.c` | `Filesystem`, `BlockDevice` |
| GPU commands | `protocol/src/gpu.c`, generated catalogs | `GpuCatalog`, `GpuRequest`, `GpuCommand` |
| GPU sessions, completions, sync files | `protocol/src/gpu_session.c`, `gpu_completion.c`, `gpu_sync_file.h` | `GpuCompletion`, `GpuSyncFile` |
| GPU driver record shapes | `protocol/include/kobox2/*_shape.h` | `GpuShapes` |
| Reference counter of the core runtime | `core_runtime.h` | `Refcount` |

A supervisor fills a closure builder, seals it and hands the closure to a
controller.  The controller emits one host action at a time (allocate, launch,
transfer; quiesce or terminate, revoke, reset, reap, release), the host
executes it and completes it with a generation and a token.  At launch the
child receives its description and descriptors over the bootstrap socket.
Data flows through virtqueues in shared memory, whose endpoints are driven by
different processes; the messages in them are written and read by the codecs.

What is hard: failures and retries at every point of start and cleanup;
completions that come late or twice; counters that run out half-way; an
allocation refused in the middle of a copy; two processes on shared memory
with wrapping indices; a completion visible before the device has let go; the
processor reordering the index store and the event load, so that both sides
sleep; an answer that comes after its deadline; address sums that wrap; frames
that another build made or that were cut.

## Modules

**Controller.** The record `ctl` has the fields of `struct kb2_controller`.
Each static C function is an operator on that record, and each public call an
action.  Calls are serialised by contract, so a call is one step; the host is
unconstrained.  `ret` is the status returned and `done` a history of what
succeeded in each generation: the ordering properties are stated on the
history, not on the controller's own flags.  Digests and limits are the sets of
kinds that were set.  `kb2_controller_destroy` ends the object and is not an
action.

**ControllerHost.** `Controller` with the host it talks to.  `host` has the
fields of `kb2_test_host_t`; `proc` is the process as the kernel has it (a
killed process is `dying` until it is dead, a dead one a zombie until its
status is collected).  `Accepts` holds the checks of the nine operations, and
one operator per operation what it does when they pass.  Its result stays in
`answer` until `Report` completes the action, so an exit or an event may come
in between.  Any system call or wait may fail, in `MaxFailures` actions in all.
`stray` is a child that a failed launch killed and did not collect:
`pidfd_open` failed, and the result of the wait after the kill is ignored
(`linux_host_adapter.c:833-843`), so the adapter forgets a process that may not
be dead yet.

**ClosureBuilder.** Every call of `closure.c`, on a heap of blocks that know
the size they were asked for.  A call that allocates carries the set of its
allocations that are refused.  Rows are records of numbers; names and digests
are compared only.  `ValidateStorage` is the whole validation, with its work
arrays; the verdict on the graph is stated as `ClosureGraph` shows it.  The
reference `Documented` is written from docs/module-closure.md over sets of
rows, without any order.

**ClosureGraph.** One action per iteration of the loops of
`kb2_validate_graph`, over a graph chosen by `Init`.  Lists and queue lose
their order, since only the verdict leaves the function; `queue_end` is kept,
since the queue array has no other bound.  The reference `Acceptable` uses no
algorithm.

**RequestExchange, Virtqueue, VirtqueueExchange.** What a queue promises, one
queue, and how the queue implements the promise: requests announced, taken,
answered and collected, read off the rings and the chain objects.  A call is
split at each access to a shared index.  Descriptors and ring entries are
written before the index in one step and read after it in one step;
`EntriesStable` shows that this hides no interleaving.  A chain object stands
for its payload memory.  `DriverIO` and `DeviceIO` are failures of memory
callbacks at any access.  Both endpoints run this engine.

**VirtqueueNotify.** A store enters the endpoint's store buffer and reaches
memory with `Flush`; `Fence` waits for the buffer to drain.  The caller is the
loop of `tests/virtqueue_process_test.c`: batch the publications, kick once,
drain the ring, arm, sleep.

**VirtqueueChain.** Descriptors, indirect tables and payloads in shared words
that are never cleared, so what `publish` writes lies over the remains of
earlier chains and responses.  The rings are queues here.  Every access is
resolved with `MappedMemory`.

**MappedMemory.** Registration, resolution and payload authorization, with all
sums modulo the address space.

**Wire, Codec, Variations.** A frame is a sequence of words.  A word has `U32`
values and a u64 is two words, so small `U32` brings sums and sizes to their
limits.  `Codec` is one use of a codec: encode a source, then deliver the frame
whole, with a word changed, cut or extended, and decode.  The codec modules
(`Channel`, `ResourceGrant`, `Manifest`, `Filesystem`, `BlockDevice`,
`GpuCommand`, `GpuCompletion`, `GpuSyncFile`) give it their encoder and
decoder; their `MC` modules give the inputs: a proper value, and those that
differ from it in one or two fields, rows or counts.

**GpuCatalog, GpuRequest, GpuCommand, GpuShapes.** The catalogs are the
generated tables of all 119 commands.  `GpuRequest` is the validity of a
command, shared by encoder and decoder; `GpuShapes` is the admission of driver
requests, followed by the command a bridge builds of them.

**Bootstrap.** Two processes, a datagram and the kernel, which installs
descriptors before the receiver looks, and perhaps only some of them.

**TestQueue, SandboxExchange.** The host's calls and the child's loop as two
programs over two queues and four eventfds, one step per access to shared
memory.  The host's wait of five seconds may expire when the child is slow,
`MaxLate` times, or silent; the child may die at any step.

**Refcount.** Any number of threads inside the compare-exchange loops of one
counter; `owner` is a history of who holds which reference.

**MCProtocol, MCGpuWire, MCClosureBuilder.** Several of the modules above, or
several instances of one, in one run; the initial state chooses.

## Runs

| Run | Bounds | Question |
|---|---|---|
| `controller` | 16 tokens (two lives of eight actions), 2 generations, a closure with and one without reset, stale generations and tokens at distance 1 | Is cleanup ordered and bookkeeping right under every call sequence and host answer, up to counter exhaustion? |
| `controller_host` | 3 generations, 2 identifiers of each kind, 1 failing action, 32 tokens | Do adapter and controller agree, is a live process left alone, does every cleanup end? |
| `closure_builder` | memory: capacities 2, 3 and 1, two objects, up to two refused allocations per call; two instances of the validation: 3 rows per table | Is every block given back once and with its size, does a failed call change nothing, are exactly the documented closures sealed, as described? |
| `closure_graph` | every graph on 3 artifacts, at most 1 record of an unknown node | Is the verdict right, the queue large enough, and does the validation end? |
| `virtqueue` | queue of 2, indices modulo 4, 2 outstanding, chains of up to 2, 3 chain objects per side, failures on | Does the queue implement `RequestExchange`, without false alarms, when the endpoints interleave and fail? |
| `virtqueue_notify` | indices modulo 4, 2 outstanding | Is a wake-up ever lost, and does every request come back? |
| `virtqueue_chain` | 20 words, queue of 4, chains of 3, tables of 2, 2 outstanding, 2 publications | Is what is published read back, and copied, as it was written, while other chains are in flight? |
| `refcount` | 3 threads, 3 references, saturation at 4 | Does the counter count, release once, saturate and fault only where it must, and does somebody get through? |
| `sandbox_exchange` | queues of 2, indices modulo 4; 5 requests of ordinary traffic, or 2 and every call and fault scenario; 1 late answer | Does a signal mean an answer, is a late answer never taken for another, is what a call reports so, and does every call return? |
| `protocol` | `U32` from 16 to 2048; address space of 8 for the mapped memory | Do codecs and registration accept exactly what they should, bring back what was sent, and lose no descriptor? |
| `gpu` | all 119 commands, some 8900 requests near them, `U32` from 256 to 32768 | The same for the GPU messages; and is every admitted driver request one that can be encoded? |
| `sandbox_unmap` | as `sandbox_exchange` | Expected to fail: see *Disagreements* |

*Controller.* Both counters run out within the bounds, in a start and in the
middle of a cleanup.  Generations and tokens are only compared for equality, so
one stale value on each side is as good as all.

*ControllerHost.* The third generation meets the exhausted identifiers; 32
tokens are more than three lives and a failure use.  Fairness: the adapter and
the supervisor's loop go on (`drive_actions`), a killed process dies, an exit
is noticed and reported, and the cleanup of a faulted sandbox is retried.
Nothing makes a process exit, a sandbox start or a running one stop.
`CleanupCompletes` excepts one case, which `HostAgrees` confines:
`kb2_test_host_reap` collects the exit status before it judges it, so after a
crash nobody asked for the reap fails, and every retry waits for a child that
is gone.  The tests never reach this, since they announce every abnormal exit.
What an idle controller has left on the host excepts a stray child.  Nothing
was sent to it, so it maps none of the memory `LiveProcessKeepsMemory` is about.

*ClosureBuilder.* In the first instance one table grows, one gets full, one
stays empty, and capacities differ from counts; two refusals per call reach
every path that gives back a partial copy.  In the other two, one with symbols
and one with resources, the calls together describe closures that break each
rule alone, several or none, in every order.

*ClosureGraph.* Three artifacts have cycles of two and of three, a provider
needed twice, several roots and unreachable parts.  Fairness: the function
runs on; deadlock is not checked, as the function returns.

*Virtqueue.* Indices wrap at twice the queue size, the smallest value at which
a full and an empty ring differ.  The third chain object is the spare that
`move_accepted` needs.  Chain objects are symmetric.  Deadlock is not checked:
when both endpoints have faulted the queue stops, as it should.

*VirtqueueNotify.* Two outstanding requests make batches; deadlock is checked.
Fairness: store buffers drain, a call that started returns, a batch ends with
its kick, an endpoint that runs looks at its ring, and the device answers what
it accepted.  The processor, the absence of blocking in the engine and the
callers' loop justify these.  Nothing makes the driver submit, makes anybody
wait, or makes a redundant kick happen.

*VirtqueueChain.* The candidates are direct, indirect and split chains over
payloads and tables that overlap each other, with an empty segment; two
publications are enough for one to overwrite what another left or still uses.

*Refcount.* Fairness: each thread that is inside a call goes on, which is what
a scheduler gives.  `Progress` is lock-freedom: some call gets through, not
each.  Deadlock is not checked: faulted threads stop for good.

*SandboxExchange.* Five requests wrap the indices of a queue of two.  Fairness:
host and child go on, a killed child dies, and a wait on a silent child
expires.  Deadlock is not checked, as the exchange ends with the child.

*Codecs.* A decoder reads each field once, so damage of one word, a cut and an
extension at every length reach every check; `Near` inputs that differ in two
fields reach the checks that compare fields.  `Canonical` would miss a check
that only two damaged words together get past.

Two properties stop where the code leaves the question to others:

- `FilesystemExact` asks for the right of every effect of a request, except for
  the statx that two operations may bring along.  `DEVICE_ROUTE` always answers
  with one and needs only the rights of the open it stands for, which is what
  `protocol/schema/filesystem.json:302` and docs/filesystem.md:364-365 ask for.
  `OPENAT2` with a statx mask is granted without `STAT`; the service then
  returns zeroes (docs/filesystem.md:8-18).
- `AnswersExact` says that a completion taken is of the session, and an object
  of the generation, that was waited for, and a mapping also of the command
  set.  The decoder of attachment completions is not told the command, so
  class, role, argument and rights of the object are checked to be well formed
  and left to the caller to compare.

## Disagreements with the documents

`sandbox_unmap`: docs/test-host.md:11-12 says that the child unmaps and closes
every transferred handle before it acknowledges a revocation.  The child sends
its acknowledgement first (`tests/sandbox_child.c:456`) and unmaps on its way
out; the run shows the host seeing the acknowledgement while the memory is
still mapped.

Noted while translating, without a run of their own:

- docs/ring-transport.md:13-14 gives every channel one event queue;
  `protocol/src/protocol.c:229` also accepts a channel with none.
- docs/ring-transport.md:26 gives queue sizes from 16 to 32768;
  `protocol/src/protocol.c:189` accepts every power of two from 1.
- docs/gpu-protocol.md:332-333 says that a wait command carries a deadline;
  `wait_command` (`protocol/src/gpu.c:176`) does not know the I915 wait, which
  is accepted without one and refused with one.  Here the code follows the
  schema: `protocol/schema/gpu_drm_i915.json:802` forbids the deadline.
- docs/gpu-protocol.md:284-286 says that the decoder validates all nested
  counts; `protocol/src/gpu.c:1667` has such checks for the other command sets,
  and none for I915, whose inline counts need not match the spans.

## What is proved

| Module | For all | Theorems |
|---|---|---|
| `ControllerProofs` | counters, closures, identifiers (`ControllerAssumption`) | `TeardownOrdered`, `GenerationsDisjoint`, `ActionsFit`, `TokensFresh`, `RefusalsHarmless`: every property of the `controller` run |
| `ControllerProofs` | also identifiers and failures of the host (`HostAssumption`) | `HostAndControllerAgree`, `MemoryOutlivesProcess`: the safety of the `controller_host` run; `HostedController` |
| `ClosureGraphProofs` | finite sets of artifacts (`GraphAssumption`) | `ValidationCorrect`: verdict, queue bound, types |
| `MappedMemoryProofs` | address widths, lanes and tables (`MappedMemoryAssumption`) | `RegistrationCorrect`, `LanesIsolated`, `ResolutionInjective` |
| `RefcountProofs` | sets of threads, finite sets of references, saturation values above 1 | `ReferencesCorrect`, `SaturationCorrect` |
| `VirtqueueNotifyProofs` | numbers of index values, and outstanding requests below it (`NotifyAssumption`) | `WakeupsKept`, `NeverBothAsleep` |
| `VirtqueueTheorems`, over `VirtqueueProofs` and `VirtqueueDeviceProofs` | queue sizes, index widths, chain objects, chain lengths, with and without failing memory (`VirtqueueAssumption`) | `NoEndpointFaultsAlone`, `OwnershipAgrees`, `AnnouncedEntriesStable`, `ImplementsRequestExchange`: every property of the `virtqueue` run; `Inductive` |

*Controller.* None of the invariants is inductive: the cleanup order speaks of
the history while the code decides by its flags.  `IInv` ties the two together
for the current generation (`Sound`), says that earlier generations are ordered
and balanced, and that later ones are empty.  Each C function has a lemma that
it preserves `Sound`; the step of each public call follows from those.

*ControllerHost.* Agreement is not inductive: between the execution of an action
and its report the adapter is one step ahead of the controller, and after a
kill the controller is ahead of the process.  `HostIInv` therefore states what
the controller will believe once it has heard the answer (`Allocated`,
`Launched`, `Alive`, `ResourceSet`, `Sandbox`), that the adapter's fields are
exactly that (`Agreement`), that the adapter's process is the kernel's
(`Kernel`), and that an answer is one `complete_action` accepts (`Answering`).
It rests on `IInv` of the controller: every step of the composition is a step
of `Controller` or leaves `ctl` alone (`ControllerStep`).  `SuccessReflects`
shows for each of the nine actions that completing it brings the controller to
what was anticipated.

*ClosureGraph.* `GraphInv` says that the count of an artifact is the number of
edges into it still to be followed, that the queue holds exactly the artifacts
with count zero, and that no set with a cycle meets the queue; in the marking,
that every closed set with the roots contains the queue and that every edge
already followed stays in it.  At the end of the sort the artifacts left out
are a set with a cycle, and at the end of the marking the queue is closed, so
both refusals are justified as well.

*MappedMemory.* The tables are set once, so the work is arithmetic: the guards
that come before each wrapping sum keep it below the end of the address space,
where `overlaps` is having an address in common.

*Refcount.* What a compare-exchange may rely on is that the caller of an
increment or decrement still holds a reference while its loop runs, so a
counter it finds at zero is a dead object's (`Custody`).

*VirtqueueNotify.* Whether an endpoint may go to sleep depends on what of the
peer's stores is in memory, and whether the peer notices, on the event index it
finds there.  `IInv` says that memory lags behind an endpoint by one store, and
only before its fence (`Memory`); that an armed endpoint's event index is in
memory after its fence (`Armed`); that who waits has sent its kicks and has
something to wait for (`Waiting`); that of a sleeper without a kick at most the
entry just published is not taken (`Awoken`); and that the entries under way
and unanswered add up to those outstanding (`Window`), without which two
sleepers could wait for nothing.  `IndexFacts` is all the modular arithmetic
the steps use.

*Virtqueue.* Why the device finds a well-formed chain under every entry it
takes, and the driver its own request under every answer, depends on where each
submitted request is: written and not yet stored, in the available ring, held
by the device, or in the used ring.  `IInv` says that these four stages are
disjoint and that the descriptor table still describes the chains of the first
three (`Stages`); that the free-running indices count the requests in each
(`Counts`), which is what makes slots distinct across wrap-around; that slots,
`descriptor_owner` and `owned` name exactly the busy chains (`Books`); and where
each endpoint's call stands (`DriverState`, `DeviceState`).  Every action keeps
`IInv` and has one of a few effects on requests (`Announces`, `Accepts`,
`Completes`, `Collects`, ...), from which the refinement follows without looking
at the action again.  `Books` carries the facts about finite sets that
are needed (`FiniteSetFacts`) along, so that only `FiniteSets` uses the library.
The proof is in three modules: the invariant and the driver's steps, the
device's steps, and the theorems.

Only model-checked:

- all liveness (`CleanupCompletes`, `Terminates`, `RequestsReturn`, `Progress`,
  `CallsReturn`), which is out of the prover's reach;
- the codecs (`MCProtocol`, `MCGpuWire`), the chain walk of `VirtqueueChain` and
  the closure builder, which are recursive or fold over data, so that a proof
  would need induction over data; `RegistrationExact`, which is arithmetic, is
  proved;
- `SandboxExchange`: its invariant would have to relate the program counters of
  host and child to both queues and four signals, and has not been worked out.

## Not modelled

- SHA-256: bit-level arithmetic on long inputs, out of a model checker's reach.
- The layout generator, a build-time program; the constants it generates are
  definitions of the codecs' modules.
- The core runtime beyond the reference counter: an interface with no
  implementation in the repository.
- `amdgpu_info_bridge.h`, a table of names, and `module_progress.h`, an
  enumeration.
- In the virtqueue engine: several queues of one engine and the refusal of a
  stale generation, which compares two numbers at the head of every call.
- In the mapped memory: that an index lies at an even address
  (`virtqueue_memory.c:117` and `:127`).  It fails the access like a failed
  resolution does, and no property depends on which of the two it was.
- In the host adapter: the fixed contents of manifest, grant and channel
  header, `run_fixture`, whose child is not in the repository, and `destroy`.
- In the child: the check of the package's files and digests.
- Accessors, null arguments, and deliberate corruption of a ring by its peer:
  both endpoints run the code that is modelled.
