# A verification project for the Generative Interaction Kernel

The repository is a TypeScript monorepo: a reactive kernel that folds events
into state and emits effects, a Blueprint layer that compiles artifacts to that
kernel, a durable runtime that runs Blueprint transitions over several storage
providers, and faces, transports and adapters around them. These modules model
its control: what concurrent hosts, failing providers, expiring leases and late
answers can do to it.

    tlc -workers 2 -config MCDurableRuntime.cfg MCDurableRuntime
    tlapm DurableRuntimeProofs.tla

Each module `X` has its proofs in `XProofs.tla` where there are any; each run of
section 4 is one `.cfg`.

## 1. Inventory

Paths are relative to the repository root.

| Component | State | Operations | Interacts through |
| --- | --- | --- | --- |
| Durable runtime (`packages/durable-runtime/src/runtime/browser-runtime.ts`) | none of its own; locals across awaits | appendJournal, processEngineWake/runEngine, processQueueLaneItem, readSnapshot, subscribe | provider calls, each an await |
| Providers (`.../storage/{memory,indexed-db,filesystem,cosmos}`) | journal, wake marker, runtime record (state, spec, revision, cursor), transition lease, effects queue | append, acquire, commit, abort, lease, ack, nack, wake read and mark, snapshot reads, invalidations | shared storage; several hosts at once |
| Dispatchers, HTTP server and connectors (`.../storage/*/api`, `.../server`, `.../connectors`) | relay locks, subscriptions | every storage method and provider request, over JSON | requests and answers that can be lost |
| Blueprint transition adapter (`blueprint/src/durable-transition.ts`) | none: a function of state, spec and a batch | transition, applySpecUpdates | called by the runtime between acquire and commit |
| Blueprint worker (`blueprint/src/worker.ts`) and queue processor (`.../queue-processor/queue-processor.ts`) | started, pending, processing, abort controller, retry timer | start, notify, stop, processNext | host notifications, timers, the runtime |
| Kernel (`kernel/src/kernel.ts`) | store, phase, revision, journal, invocations, source run state, mutation queue | dispatch, publish, settleSourceEffect, settleRequestEffect, invocations, patch, restore, compensate | promises queued one behind another; listeners |
| Graph runtime, reducer, derivations, program patches (`kernel/src/graph-runtime.ts`, `reduce.ts`, `derivations.ts`, `program-patch.ts`) | graph status per node, triggers, machines | traverse, hydrate, mutate, reduce, derive, diff | called by the kernel |
| Kernel transport and client (`kernel/src/transport.ts`, `client.ts`; `transports/http-sse`) | log, connected clients, outbound and dispatch queues; the client's replica | attach, replay, broadcast, dispatch, restore, reconnect | messages that can be lost or repeated |
| QueueFace and service host (`face/src/services`) | records, the host's queue, adapters, kill switch | submit, runNext, retry, cancel, tools | kernel effects and external services |
| Control faces (`face/src/live`), React controllers (`adapters/react/src`) | held kernel, outputs, tree, operation queues | emit, whenIdle, reconfigure, subscribe, mount, unmount | the kernel, the durable runtime |
| Blueprint model and lowering (`blueprint/src`) | artifacts, graphs | assemble, lower, patch, materialize, transition | the adapter and the kernel |
| Hosted blueprint reconciler (`blueprint/src/hosted-blueprint-reconciler.ts`, `adapters/react/src/blueprint-host.tsx`) | mounted children | reconcile, stop, mount, project | trees of the parent, a registry |
| Proposal host (`packages/blueprint-agent-host/src`) | receipts | receive, authorize, admit, apply, reject, submit | a store in memory or on the durable runtime, an authority |
| Step orchestrator, authoring provider, evaluators, agent lifecycle profiles | none that two calls share | run, evaluate | kernel effects |

What makes each correct, and what is hard about it:

* **Durable runtime.** Every journalled entry is folded into the state once and
  every effect queued once, although a transition may outlast its lease, be
  abandoned at any await, or be retried by another host; a wake is never lost;
  an effect's outcome is journalled before its message is finished. Hard:
  several hosts, expiry racing a late commit, the append and the acknowledgement
  being two calls, millisecond clocks.
* **Filesystem and Cosmos providers.** The same promises, but an operation is
  several file or document writes: a crash between two of them, a lock released
  by a timer in the middle of a commit, a reply that is lost.
* **Remote access.** A call that passes a client, JSON and a dispatcher is the
  call on the storage itself; a relay lock is the work of one. Hard: lost
  answers, retries, restarts, arguments that JSON cannot say.
* **Queue processor and worker.** A notification is followed by a processing
  cycle; cycles never overlap; stop really stops; work that is left makes
  another cycle. Hard: stop and start while subscribe or a cycle is in flight.
* **Snapshot subscription, sessions.** A listener sees revisions in order and the
  last one in the end, and what is shown belongs to what is mounted. Hard:
  bursts, lossy invalidations, a listener that throws, remounts during a start.
* **Kernel.** Revisions and effect ids are unique, an invocation settles once,
  derivations hold, a graph at rest has seen every change. Hard: settlement,
  cancellation and restoration queued behind each other, failed mutations.
* **Transport.** A client that reconnects converges to the server's state.
* **Service host.** A request settles once across retry, guardrail, timeout and
  cancel, and nothing starts that is no longer authorized.
* **Lowering.** An axis is one chain, a terminal Blueprint uses only what was
  authorized, a patch stays within the policy.
* **Proposal host.** A receipt tells one course of its proposal, although calls
  overlap and writes are interrupted.

PROJECT.json lists the hazards at their lines, with the properties that watch
them, or the reason why none does.

## 2. Plan

| Stage | Modules | Composition | Status |
| --- | --- | --- | --- |
| 1 | `BlueprintTransition`, `DurableRuntime`, abstract `DurableInbox` | runtime over atomic providers, implements the inbox | done |
| 2 | `QueueProcessor`, `BlueprintWorker` | worker loop over an abstract runtime | done |
| 2 | `DurableHosts` | the same loop over `DurableRuntime`, for what must happen in the end | done |
| 3 | `SnapshotSubscription`, `BlueprintSession` | drain, listener, lossy invalidations; the session shows what the subscription tells | done |
| 4 | `FilesystemQueue`, `FilesystemRuntime`, `CosmosRuntime`, `CosmosLibrary` | commits and queues that are several writes, with crashes and lost replies | done |
| 5 | `SourceRuns`, `KernelInvocations`, `KernelProgram`, `ContinuousGraph`, `ProgramPatches` | mutation queue, reduction, graph, algorithms | done |
| 6 | `KernelTransport` | broker, connections, replicas | done |
| 7 | `ServiceHost`, `FaceDrive`, `StorageAccess`, `RemoteRuntime`, `ProposalHost` | those who serve and drive | done |
| 8 | `BlueprintLowering`, `BlueprintProgram`, `HostedBlueprints` | from artifacts to programs and their children | done |
| 9 | `DurableRuntimeProofs`, `KernelInvocationsProofs`, `BlueprintWorkerProofs`, `FilesystemProofs`, `ProvidersProofs` | the lane, wakes, leases and the refinement of the runtime; the worker; the providers that write in several steps | done |
| 10 | `ServicesProofs` (service host, proposals, relay locks, remote runtime, faces), `KernelPartsProofs` (transport, graph), `BlueprintHostingProofs` (subscription, session, hosted children, projection) | what has no RECURSIVE operators | done |
| 11 | declaration checks of service kinds, lowering validators, cell evaluators | operators against reference definitions | later |

## 3. The modules

Variables and definitions keep the names of the source where TLA+ allows it. A
module of a component that shares a run with others prefixes its own (`fs`,
`cs`, `sv`, `sa`, `rr`, `fd`, `tr`, `gr`, `kp`, `se`, `hb`, `ph`). The `MC`
modules hold the instances; those of several components let each part run by
itself while the variables of the others rest.

### BlueprintTransition

Pure operators, from `durable-transition.ts` and the classification of effects
in `worker.ts`. A journal entry is a host event or a settlement of one message.
`Accepted` is the filter over `consumed` (the first settlement of each message
that was not settled before), `Consumed` is what applySpecUpdates adds to
`settledEffectMessageIds`, `Emitting` the events of a batch that queue an effect.
Application state is abstracted to the set of journal positions folded into it:
whatever an event does, doing it twice, skipping it, or losing it changes that
set. `EffectOf` says whether an event emits an effect that settles (a cell
source, a declarative service, a request), one that does not, or none.
Abstracted away: an event emits at most one effect, settlements emit none, and a
batch never fails because of its content (that is a permanent failure, which the
code retries for ever; `TransitionThrows` covers failures that stop).

### DurableRuntime

`browser-runtime.ts` over a provider whose operations are atomic: the memory
provider, and IndexedDB, where each operation is one read-write transaction.
Each await of a provider is one action, so any number of workers interleave
between them.

| Code | Model |
| --- | --- |
| journal entries of journalRef | `journal` |
| requestedAt, processedAt | `wake`; milliseconds as naturals, 0 for null |
| runtime record: revision, cursor, state, spec.settledEffectMessageIds | `checkpoint`; the revision is a counter for a fresh UUID, the cursor a position for an entry id |
| lease token and leaseExpiresAt | `lease`: the worker it was given to, and whether its time is over |
| effects lane | `queue`: id to state, attempt, holder, expired |
| locals of a call across its awaits | `pc`, `wakeSeen`, `snapshot`, `work` |

A token is fresh for each lease in the code; here it is the worker. A worker
has one call at a time and forgets its token when it returns, and it cannot
lease what it already holds without returning first, so the two agree on every
comparison the code makes. Time is the `expired` flags: an abandoned lease
runs out when it likes, a lease whose worker is still running may run out early
at the price of a fault. `Crash` stands for a vanished worker and for a provider
call that throws out of the whole call.

### DurableInbox

What the runtime promises, without leases, workers, wakes or attempts: entries
are folded in whole batches without a gap, with the state defined from the
whole prefix; effects are written by the commit that folded their event; an
effect ends only once its outcome is journalled. `DurableRuntime!Inbox` maps a
message that is neither done nor dead to "pending"; the check is
`ImplementsInbox`.

### DurableHosts

`DurableRuntime` says what a call of the runtime does, this module who makes it:
each host has the worker of `worker.ts`, and nothing calls a worker because there
is work for it.

| Code | Model |
| --- | --- |
| the await of processNext a worker is at | `turn`: rest, engine, lane |
| `pending` of the queue processor, the retry timer | `pending`, `retry` |
| the lane's result says that an outcome was appended | `appended`, until the cycle ends |
| a controller between its append and its notify | `emitted` |
| a cycle that ended in onError, a host that vanished | `cutOff`, until the next cycle begins |

Contention, a message given back and a late acknowledgement set the timer
(`EngineContended`, `LaneRetries`); an appended outcome notifies (`Ends`); a lane
with nothing to lease sets nothing, though a vanished host may hold a message
(`LaneIdle`); a rejected cycle gets nothing (`Rejected`, `queue-processor.ts:32`).
`Called` are the workers that outside hints reach. Workers are always started
here; start and stop are in `BlueprintWorker`.

`EntriesAreApplied` promises that an entry is committed once some worker is going
to look (`WillLook`), and excuses a worker that was cut off and has not been told
again. `EffectsFinish` assumes that one worker is called again and again. Both
provisos are what the code's own scheduling cannot do without, and TLC refutes
the properties when they are dropped.

### QueueProcessor

`createDurableQueueProcessor`, with a start, a subscription, a loop and a stop
that interleave at their awaits. The variables are those of the closure, under
their own names.

| Code | Model |
| --- | --- |
| each AbortController, its signal and its subscription | the number of the start that created it (`controller`, `aborted`, `subscribing`, `cleanups`, `unsubscribe`) |
| the promise `processing` | `processing`, and what runs behind it: `cycles` (calls of processNext) and `finishing` (a loop whose finally block is a microtask away) |
| start, the settlement of its subscribe call | `Start`, `SubscribeSucceeds`, `SubscribeFails` |
| notify, the loop's test, its finally block | `Notified`, `CycleReturns`, `CycleThrows`, `Finally` |
| stop | `Stop` |

processNext is a call that returns or throws at any time. `cycles` is a set so
that an overlap of two cycles could be seen; the guard `LoopMayBegin` is what
excludes it.

### BlueprintWorker

`createBlueprintWorker` extends the queue processor: its cycle is one engine
wake and one queue item, and it owns one retry timer. The runtime behind it is
abstracted to what a cycle can meet there, since `DurableRuntime` has the rest:
a pending wake or none (`wakePending`), a number of deliverable messages
(`lane`), another host in the way or a message to retry (`Trouble`), an error
(`CycleRejects`). Other hosts append and work without notifying this one
(`HostAppends`, `OthersWork`), which is what makes the follow-up matter.
`owed` and `ownWake` are history variables: they only record that a cycle left
work behind, and that the pending wake is the worker's own.

### SnapshotSubscription

`subscribe` of `browser-runtime.ts` with the provider's `readSnapshotChanges`
and the listener that the controller and the tests build,
`applyRuntimeSnapshotChanges`.

| Code | Model |
| --- | --- |
| the provider's revision | `current`, numbered in commit order, 0 for null |
| published invalidations in flight | `hints`; a commit may publish none |
| stopped, revision, drainScheduled, draining | the same names |
| pending | `readPending` |
| a turn of the drain loop | a record of `calls`: reading, answered, listening |
| the loop's finally block | `loopEnds`, `DrainFinally` |
| the subscriber's snapshot | `view`, its revision |

A patch is known by the revisions it leads from and to; a reset by the revision
it carries. A listener rejects when the patch does not start at its snapshot,
and for reasons of its own, before or after it took the changes.

### SourceRuns

Pure operators, from `source-run-state.ts` and the four functions of `kernel.ts`
that change a run state: admission (a request of a source in flight is only
remembered), completion (only of the current request), promotion, and the two
together. Tokens are naturals for ISO timestamps, 0 for null. The clock stands
still in the runs, the worst case: every token is its predecessor plus one.

### KernelInvocations

The mutation queue and the invocation registry of `kernel.ts`, for the sources
of one cell of a program with a graph (without one, a pending request is never
promoted).

| Code | Model |
| --- | --- |
| `blueprintRunState.cells.<cell>.sources` | `runs` |
| `activeInvocations`, its `closed` flag, its aborted signal | `active`, `closed`, `aborted` |
| `mutationQueue` | `queue`, and `mutation` with `step` for the one that runs |
| local `invokes` of the running mutation | `fired` |
| dispatch, publish | `Request`: which sources the evaluation emits is any set, since it depends on their `when` |
| control.emit, the handler returning or throwing | `Emit` |
| cancelInvocation | `Cancel`, and the completion it queues |

A mutation awaits many times. What can happen in between, a cancellation or
another mutation queued, is told apart by two moments: before it changed the
store and after. So it begins, folds and commits, in three steps; it may throw
before or after it folded, and keeps what it folded, as the code has no
rollback. A fold that stops half way is a fold with fewer emissions.
`revoked` is a history variable of the properties. An evaluation emits the
effect of a source once per mutation. Left out here: revisions, patches and
listeners (`KernelTransport`, `FaceDrive`), handlers, machines and compensation
(`KernelProgram`), progress, and invocations that belong to no source. The
removal of a settled invocation, in a finally block a microtask after the
commit, is part of the commit.
### FilesystemQueue, FilesystemRuntime

The filesystem provider, one action per file operation, so that a crash may fall
between any two. `FilesystemQueue` is the lane: a message is a file in one of
four directories, moved by writing the new file and removing the old one, under
a lock file that is taken without waiting. `FilesystemRuntime` is the transition:
acquire with its lease timer, the read of the journal, staged effects, the write
of state and cursor, the promotion of the effects one by one, the wake marker. A wake
request sets the marker's file time to the time of day of the process
(`library/storage.ts:297-309`), so `FsClock` is a set of milliseconds and each
request reads any of them: equal, earlier or later than what is there. `fsNews`
is a history variable: it says whether the last request moved the marker past
everything that was requested, processed or being processed (`IsNews`). Left out:
the order within a lane, dedup keys (they are in `CosmosLibrary`), and the JSON
of the files.

### CosmosRuntime, CosmosLibrary

`CosmosRuntime` is the Cosmos transition: state, lock and wake documents with
etags, a transactional batch that may be applied although its reply is lost, the
lane with its leases; a host has one call at a time, the engine's or the lane's,
as its worker does (`worker.ts:62-76`). `request()` takes the clock's
millisecond, moves it past `processedAt` only, and writes it if the etag has not
changed, `WakeTries` times, after which it gives up and its append throws
(`cosmos/runtime.ts:413-433`); clocks show any of `CsClock`. `lastRequest` is a
history variable: whether the last request was news to the runs under way, was
one they had seen, or was given up. `CosmosLibrary` is the queue of the storage
library with counters and dedup documents, and the relay lock. An etag is the
version that was read; a batch is atomic and refused when any etag in it has
moved.

### StorageAccess, RemoteRuntime

`StorageAccess` has two halves. The operators take every storage method from the
remote client through positional arguments and JSON (which makes null of what is
undefined) to both dispatchers and to the methods, whose defaults stand in for some
of what is missing, and batches. The state machine is the relay lock:
two clients that lose answers, retry, let tenures lapse and fail to release, over
either dispatcher; the filesystem one keeps tokens in memory and forgets them at
a restart. `RemoteRuntime` is the HTTP server of the runtime: appendJournal as
two calls of the provider, an append and a wake request stamped with any
millisecond of `RrClock` (`http.ts:157`), the engine that runs meanwhile, and the
SignalR subscription with its negotiation, its abort listener and its cleanup.
`rrCovered` remembers whether the last request's stamp was one that the engine
had processed or was processing.

### KernelTransport

`transport.ts` and `client.ts`: the broker's bounded log, its dispatch queue and
outbound queue, connections that attach, resume, replay, close and reject at any
moment, and the client's replica. A patch is known by its revision and by the
paths it sets; the state is the revision each path was last set at.

### ContinuousGraph, KernelProgram, ProgramPatches

`ContinuousGraph` is `graph-runtime.ts`: values, signals and streams as tokens,
readiness, the traversal with its budget, invocations that suspend a node,
hydration, and changes of the graph. `KernelProgram` is one mutation of
`kernel.ts` with `reduce.ts` and `derivations.ts`: a stack of frames over
handlers, machines and emitted events, the settlement of derivations in passes,
the effect log, failure and compensation. Expressions are reduced to the leaf
they read. `ProgramPatches` are pure operators: difference and application of
program patches, changes of a graph, feedback components, paths of the store,
shared contexts; a replaceNode names the node it replaces and brings one that may
have another id (`program-patch.ts:24-28`).

Events of a graph have one name in `ContinuousGraph`: an event, from outside or
from an actions node, triggers every node that waits for one. `GraphSafe` speaks
of a graph at rest and excuses three kinds of nodes: those for which a hydration
took over a change before it activated another node (`kernel.ts:1130`, section
7), those whose invocation was cancelled, and those that were ready when an
evaluation threw. Each is excused until it is executed again.

### BlueprintLowering, BlueprintProgram

Pure operators over a Blueprint artifact. `BlueprintLowering`: the axes and
their recipes, what is valid, assembly of fragments and of hosted documents with
the second validation of what was assembled (`blueprint.ts:686-689`), lowering of
services and of projections, authorized capabilities, patches with their policy.
A function that throws yields `Failed`. `BlueprintProgram`: the
document tree of a terminal Blueprint, the graph of its Cells, owners of
handlers, seeds and preflight, one transition, token patterns, impact and
exploration. Node ids are sequences, not texts; messages and JSON schemas are
left out. These two use RECURSIVE operators and are for TLC only.

### BlueprintSession, HostedBlueprints

`BlueprintSession` is a rendered Blueprint: React mounts and unmounts a source,
the controller works through one queue of operations on the durable runtime (or
in memory) and follows its commits, a worker transitions. `HostedBlueprints` has
the reconciler of headless children (one chain of operations, one action per
await) and the projection with which React mounts one hosted Cell, whose
definition is resolved late or never.

### ServiceHost

The service host for one or two requests: submission, the authorization
checkpoints, execution through a cached adapter, retries after errors and after
guardrail violations with their two ceilings, requeueing, agent tools, the kill
switch, deadlines, and a cancel that reads and later writes the record. A value
is trusted by its shape only; `BuiltSnapshots` and `PolicyAnswers` enumerate the
shapes that matter. The last revalidation and the call of the adapter are one
step, `AdapterStarts`: the deadlines are checked synchronously before the call,
and the kill switch is an awaited answer of another party, taken here as of its
arrival, after which only microtasks run (`service-host.ts:760-765`). A switch
that is thrown while its older answer is on the way is not told apart from one
thrown just after the start.

### FaceDrive

Who drives a kernel: `GenUIController`, whose operations wait for one another,
and `ControlFace`, whose calls do not. They share the mutation queue, detached
invocations and their errors. States and trees are known by revisions.

### ProposalHost

`host.ts` of the agent host over both of its stores. A call reads a receipt,
decides and writes it back whole, with awaits in between; the durable write is an
append and a run of the engine, so a call that was interrupted may be committed
later. The authority is external and idempotent by receipt id. Policies are
answers. "patient" callers wait for one another and for what an interrupted call
left in the journal. `StatusModel` are the steps of `status_model` in
`blueprint-agent-host.yaml`, `Follows` those that the code takes: it adds
applying to rejected, which reject accepts (`host.ts:144-147`), also while an
apply is under way or was interrupted after the authority had applied the
proposal. What a receipt may look like is defined from `Follows`, and the
difference to the status model is in section 7.

### The MC modules

`MCDurableRuntime`, `MCDurableHosts` and `MCKernelInvocations` are instances of
one component, the last with one source.
`MCProviders` takes the filesystem provider, the Cosmos provider or the Cosmos
library, those of them that `Providers` names; `MCKernelParts` the transport, the
graph, a program, invocations or the algorithms; `MCBlueprintParts` the worker, a
subscription, a session, children, the projection (these five in
`BlueprintHosting`), lowering or programs; `MCServices` the service host, relay
locks, the remote runtime, storage calls, the faces or proposals. `part` says which; it
never changes. Their properties are named after what the parts share.

### Proof modules

They hold the proofs of section 5, for any number of workers, starts, commits,
requests, messages and failures. `DurableRuntimeProofs` has the types and the
prefix of the journal, then the lane, the leases and the wake;
`BlueprintWorkerProofs` begins with the queue processor, which the worker is;
`FilesystemProofs` is about one directory, and `ProvidersProofs` adds both
Cosmos parts and states what the run `providers` checks; `KernelPartsProofs` has
the graph and the transport, `ServicesProofs` the parts of `MCServices`, for
which it states what the run `services` checks.
`BlueprintHostingProofs` has the subscription, the rendered session, the hosted
children and their projection, and adds the worker for what the run
`blueprint_parts` checks of them together; `KernelInvocationsProofs` stands
alone. Each part begins with its inductive invariant; a lemma named `...Keeps`, `...Kept` or
`...Step` says that an action keeps it.

## 4. The runs

| Run | Instance | What it shows |
| --- | --- | --- |
| `runtime_batches` | 2 workers, 2 host events of either effect kind, 1 fault, memory wake, one clock reading | Two events give batches of one and two, settlements that share a batch with an event, duplicates across batches; one fault gives every single crash, expiry or provider error. The safety invariants and the refinement. |
| `hosts` | 2 workers, one of them hinted from outside, 1 event of either kind, 2 faults, fair, no symmetry | A worker that is going to look applies every entry unless its cycle is rejected, and one that is called again and again finishes every effect. Outcomes are journalled before messages finish, none dies early and leases are honoured. |
| `indexeddb_wake` | as `runtime_batches` with IndexedDB's wake | `NoWakeLost` fails: see Findings. |
| `providers` | 2 hosts; filesystem: 2 entries, 3 messages, 1 fault, clocks of two readings; Cosmos: 2 hosts and an appender, 2 entries, 2 faults, clocks of two readings, updates that give up after 2 conflicts; library: 2 messages of one key, 1 expiry | Effects are queued once unless a commit outlives its lease, what was folded was queued, checkpoint, effects and lock of Cosmos agree, a wake is kept if its request was news and was written, acknowledgements are kept; a lease is honoured; dedup documents, counters and messages agree. |
| `filesystem_commit` | 1 fault | `CommitIsWhole` fails: see Findings. |
| `kernel_parts` | transport: a renderer and two revisions, two renderers and one dispatched, a log of 2 that overflows; graph: six graphs of 2 or 3 nodes; programs: two, with mutations that fail; invocations: a source with 3 requests and a sibling with 1, 1 cancellation, 1 throw; algorithms on enumerated inputs | Replicas, graphs, programs and source requests, each by itself. |
| `transport_reconnect` | one renderer, one revision | `RendererInSync` fails: see Findings. |
| `derivations_stale` | three derivations, one event | `DerivationsHold` fails: see Findings. |
| `kernel_throw` | 1 source, 2 requests, 1 throw | `ClosedIsSettled` fails: see Findings. |
| `blueprint_parts` | worker: 2 starts, 2 notifications, a lane of 2; subscription: 4 commits, 2 failures; session: 2 mounts, 2 entries, 1 rejection; children: 3 trees, 2 rejections; projection: 3 renders; lowering and programs on enumerated inputs | Cycles never overlap, work left behind is arranged for, a patch always continues the listener's view, what is shown belongs to what is mounted, and the algorithms do what they promise. |
| `hosted_outputs` | two Cells | `OutputsOfHostedArrive` fails: see Findings. |
| `services` | host: one request with every choice of options and 2 disturbances, or two requests and 1; locks: 2 clients, 2 resources, 2 troubles; remote runtime: 2 clients, 3 entries, clocks of two readings, 2 troubles; calls: every method, with whatever can be left out, over both dispatchers; faces: four scenarios; proposals: three | Requests are neither forgotten nor stuck nor run too often, nothing starts unauthorized, calls arrive as they were made exactly where the model says they do, the faces see the newest state, receipts tell what happened. |

Bounds and why they are enough. Two workers, hosts or clients are the smallest
number that race, and a third adds no new kind of step, since every conflict in
the code is between the holder of a lease, a lock or an etag and somebody else.
One fault between any two steps shows every single failure; two are needed where
the second meets the recovery from the first (`hosts`, `MaxTroubles`,
`MaxSaTroubles`, `MaxRrTroubles`, `MaxTrips`, patient proposals). Two starts let
an old run end in a new one. Four commits let a reader be none, one and several
behind. Three requests let one be superseded; three trees or renders let an
answer be late by two. One clock reading is the hard case of the memory
provider's wake: every stamp collides. Where clocks of several processes stamp
(`FsClock`, `CsClock`, `RrClock`), two readings let a stamp be equal to the one
before, later, or earlier. `WakeTries` is 5 in the code and 2 in the runs, the
least that lets an update be tried again and give up.
The log of two entries overflows with three revisions. Scenarios of the faces:
2 operations of the controller with 2 invocations and a failure; 1 operation and
1 call with an invocation; 2 calls that listen, with an invocation and a failure;
3 reconfigurations and a failure; outputs are one value of 0..1. Proposals: 4
patient calls with 2 interruptions; 2 overlapping calls, with one interruption
over the durable store, without over the store in memory. The algorithms are
tried on every input of the sets in the MC modules: three tiers, chains of two
recipes, three documents, patches of two operations, two Cells on three slots,
graphs of three nodes. `MaxEvents`, `MaxAttempts`, `MaxToken`, `MaxQueued`,
`MaxCancels`, `MaxFailures`, `MaxLane`, `MaxAppends`, `MaxResyncs`, `MaxRejects`,
`MaxFsWrites`, `MaxSaTokens`, `SvMaxAttempts`, `SvCeiling`, `MaxSettleDepth`,
`AmpleBudget`, `MaxReceipts` bound what their names say. Not covered by a
run: three faults at once in the runtime, and IndexedDB's wake with two clock
readings.

Deadlock is not checked anywhere, because every part rests when there is nothing
to do.

Fairness of the runtime (`HostsFairness`) is that of the worker's own scheduling:
a cycle under way makes its next call, a loop that finds `pending` set begins a
cycle, a controller notifies once its append has returned, a timer that is set
fires, and the clock passes the expiry of a lease nobody will release. A worker
is never called because there is work: notifications are hints that a host
supplies (`durable-runtime.yaml:728`), a cycle that is rejected waits for the
next one (`:485`), and a lane whose only message is in the hands of a vanished
host is idle. Nothing is assumed of failures: the budget bounds them.

Fairness of the other runs is one weak condition each: whatever is under way goes
on, because promises settle, microtasks run and timers fire (`Underway`,
`GoesOn`; polls of a subscription have a condition of their own, as its timer
fires whatever else happens). Nobody has to start, stop, notify, commit, mount,
request, cancel, dispatch or deliver an invalidation: those are other parties.
The adapters of the service host answer, because the code waits for them without
a limit of its own.

Every property has a mutant in PROJECT.json, a plausible slip in one definition
that makes it fail.

## 5. What is proved

For every set of workers and events, every clock, both wake arithmetics, and any
bounds (`DurableRuntimeProofs.tla`, from the named assumptions of the modules):

* `TypeCorrect`: `Spec => []TypeOK`. TypeOK alone is not inductive, since a
  commit writes what it folds out of its batch, so the batch must end inside the
  journal (`SnapshotsBounded`).
* `ExactlyOnce`: `AppliedMatchesPrefix`, `OutboxMatchesPrefix` and
  `LeaseProtectsSnapshot` together. The argument: the holder of a live lease
  holds the stored checkpoint (the lease), its batch starts at the cursor and
  ends later but inside the journal (`BatchesOrdered`), the fold of a batch onto
  the fold of a prefix is the fold of the longer prefix (`BatchExtendsPrefix`),
  and growing the journal changes no prefix (`PrefixStable`). `StepKinds`
  reduces all other steps to "appends one entry", "commits one batch" and
  "touches neither".
* `OutboxExact`: the second of these by itself, which the runs check.

The lane, the leases and the wake of the same runtime:

* `NoOutcomeLost` (`FinishedIsReported`) and `NoEarlyDeath` (`DeadIsExhausted`).
  A worker that is about to acknowledge or to give up knows something that stays
  true although its lease may be gone: the outcome is in the journal
  (`OutcomeJournalled`), or the attempts of the message, of which the worker has
  counted no more than the queue has (`WorkTracked`), are used up
  (`GivesUpExhausted`).
* `TransitionLeaseSafe`, `ItemLeaseSafe`: the action properties
  `TransitionLeaseHonoured` and `ItemLeaseHonoured`.
* `NoWakeIsLost`: `NoWakeLost`, for `Provider = "memory"` and any clock, also one
  that stands still. Its invariant (`WakeInv`): a run whose wake is still the
  newest request has read the whole journal, and later has committed it, so a
  mark that covers the newest request covers every entry. With IndexedDB the
  property fails (section 6), so the assumption cannot go.
* `InboxImplemented`: `ImplementsInbox`, the refinement. Every step is a step of
  `DurableInbox` or a stutter: an append, the commit of a batch that is not empty
  (`BatchesNonEmpty`), a report, or the end of an effect whose outcome the
  lemmas above put in the journal.

For any number of starts and notifications (`BlueprintWorkerProofs.tla`):

* `ProcessorSafe`: `ProcessorTypeOK`, `OneCycle`, `StaleCyclesAborted` and
  `OneSubscription`. `OneCycle` is not inductive: `processing` must be set
  exactly while one cycle runs or one finally block is outstanding
  (`LoopInvariant`), and the current controller must be the only one that is not
  aborted (`ControllerInvariant`).
* `RunsStayApart`: `RunsApart`, the last two of these, which is what the run of
  the worker checks.

For the worker, whose cycles and timer notify the same processor:

* `WorkerOneCycle`: `OneCycle` and `RunsApart` once more. The processor's
  invariant is kept by every step of the worker (`ProcessorKept`): a notification
  from inside a cycle only leaves `pending` behind.
* `FollowUpNeverLost`: `FollowUpArranged`. Inductive together with two facts:
  only a running worker owes a follow-up (`OwedWhileStarted`), and a notification
  of a running worker either begins the cycle that is the follow-up or leaves
  `pending` behind (`NotifiedServesOwed`).

For any number of commits and failures (`BlueprintHostingProofs.tla`):

* `SubscriptionSafe`: `ReadsSerialized`, `PatchContinuesView`,
  `RequestedReadArranged` and `StopReleases`. A patch fits because of three
  facts that hold together: the local revision never passes the listener's
  snapshot, nor that the provider's revision (`RevisionsOrdered`), a turn in
  flight asked for what follows the local revision (`CallCurrent`), and there is
  one turn (`DrainInvariant`).
* `SubscriptionStaysKept`: `SubscriptionKept`, the last two of these.
* `ViewForward`: the action property `ViewNeverReverts`, from the same invariant.

For any mounts, entries, trees, requests, declarations and rejections
(`BlueprintHostingProofs.tla`, assuming that a tree is a function of its paths
and that what stands for no definition is never declared):

* `HostingStaysSafe`: `HostingSafe`, of `HostingSpec`, whose five parts go on one
  at a time. The session: the start of the life that is mounted has subscribed
  or waits in the queue (`FollowHolds`), starts of older lives carry older
  versions and only the first operation of the queue has left its first step
  (`StartsHold`), and what was read last is what is shown or about to be
  (`ShownHolds`). The children: every place of a turn where it awaits has its own
  facts (`TurnHolds`), what is done is as the tree declares it
  (`DoneAsDeclared`), what is live is in the map (`NoChildIsLost`), and, unless a
  call rejected, what is in the map is live or is just being replaced or stopped
  (`AllAlive`). The projection: a resolution that is still active is of what the
  effects ran for last, and while it is, there is neither definition nor error
  (`ResolvesNewest`). The subscription's types need one fact more, that each hint
  belongs to a commit (`SubscriptionTypes`).
* `TreeNeverReverts`: the action property `TreeForward`, from `ShownHolds`: what is
  shown is never ahead of what was read, nor that of what is committed.

For any sources, requests, cancellations and throws (`KernelInvocationsProofs.tla`):

* `OneRequest`: `KernelTypeOK` and `OneRequestAtATime`. The argument is that an
  open invocation is in flight (`ActiveInFlight`), so nothing but its own end
  moves its source on, and that whoever's end is queued or running is no longer
  open (`SpentIsOver`). New invocations carry tokens above every older one
  (`RunsOrdered`, `ActivePast`), so what is spent never opens again
  (`FiredInFlight`). `FoldAdvances` says what a fold does to each run state.
* `NewestStarts`: the action property, from `FoldAdvances`.
* `NoOrphans`: `InFlightUnlessThrown`, inductive together with the invariant: a
  folded settlement has completed the request its invocation leaves behind
  (`FoldedCompletes`), and a cancellation is never rejected.
* `CancelledStaysCancelled`: `RevokedNeverSucceeds`. The settlement of what was
  cancelled while it waited never runs (`RevokedNotSettling`), and as long as an
  invocation is registered, only its own running settlement records it as
  anything but a failure (`CompletedWhileSettling`).

For any processes, messages, entries, crashes and lost leases of a shared
directory (`FilesystemProofs.tla`, assuming only that no process is named
`NoHost`):

* `FilesystemFoldsOnce`: `OneCopy`, `QueuedOnce` and `FoldedIsQueued`. The
  invariant says who holds the lock files (`LocksHold`), which copies the
  operation under way has found and made (`OperationsHold`, `CopiesHold`), that
  what a commit has staged is only staged and in no other commit (`StagedHold`),
  and that it is for the entries the commit read, in order (`CommitsHold`). While
  no commit outlived its lease the one that writes holds the lock and the cursor
  it read is the stored one (`FoldsOnce`), so each entry has one message outside
  of `staged`, and none before the cursor has passed it. `FoldedCovered` is the
  converse: a folded entry is out, is on its way in a commit, or its commit broke
  off after the state was written.
* `FilesystemIsSafe`: `FilesystemSafe`, which adds `FsWakeKept`, for any file
  times, equal and backward ones included: if the last request was news, to the
  marker and to every run under way (`fsNews`), a run that read the last wake has
  read all of the journal (`WakesHold`). A request in the millisecond of a pending
  one is no news, and can be lost: section 7.

For any hosts, entries, clients, keys and messages on Cosmos
(`ProvidersProofs.tla`, assuming only that `NoKey` is no key):

* `CosmosRuntimeSafe`: `CosmosSafe`. A document that is still as a host read it
  bears out what the host concluded from it (`RunHolds`, `LaneHolds`): the cursor
  is the stored one, the effect is still leased by it. A batch is applied only
  then, and writes state, effects and lock together. Its part on wakes is for any
  millisecond clocks and any number of tries: if the last request was written and
  was news to every run under way (`lastRequest`), an entry that is not committed
  has a pending wake. Both conditions are needed: section 7.
* `CosmosLibrarySafe`: `LibrarySafe`. The same for calls of the library
  (`CallsHold`), with the converse of what is checked, that a live message with a
  key has its dedup document (`KeysHeld`), and that no place is beyond the
  counter (`SequencesBehind`).
* `LeasesSafe`: the action property `LeasesHonoured`, of all three parts, from
  their invariants: an item of the directory is taken up by the claim of its only
  copy, only a batch writes the Cosmos cursor, only the holder's settlement ends
  a lease, and the relay lock is replaced only as it was read.

For any keys, clients, mutations, reconnections and failures, a log of any bound
(`KernelPartsProofs.tla`, from `TrAssumption`):

* `ReplicasStaySafe`: `ReplicaSafe`, and `ReplicasGoForward`: the action property
  `ReplicaForward`. The argument is about what a sequence of patches tells. It
  tells a history from a place on (`Tells`) if the first patch of every later
  revision makes this revision out of the one before, and a revision that has no
  patch changes nothing. Of a replica whose patches were not disturbed the
  invariant says that it has the state of its revision, or for a key the value
  that is being written (`ExactReplica`), and that the log tells what follows
  (`LogTells`). A connection that replays has the rest of the log before it
  (`LogLeads`), or, when the log was full and moved on under the replay, the
  outbound queue; one that is open has the queue, which ends where the log ends
  (`OutLeads`). A patch of the queue or the log that is the first one not known
  therefore fits the replica (`PatchFits`), every other one is ignored. When
  nothing is on its way the replica has the log's last revision.

For any graph, modes of tokens, budget, changes of the graph and failures of
evaluations (`KernelPartsProofs.tla`, from `GrAssumption`):

* `GraphStaysSafe`: `GraphSafe`. `ChangesAreSeen` is not inductive, as it is about
  a graph at rest. The invariant says what must hold while a traversal is under
  way: what a node consumed in its newest version is what it was executed with,
  or it is triggered (`ValuesSeen`), also for the node whose evaluation is awaited
  (`AwaitedHolds`), and no traversal ends while a node is ready
  (`NothingReady`). `SightKeeps` says that publishing keeps this, because a token
  that changes gets a version no node has consumed.

For any requests, clients, lock references, patches, callers, scenarios and
bounds (`ServicesProofs.tla`; the specification is that of the run, the parts
one at a time):

* `ServicesStaySafe`: `ServicesSafe`. For the service host the invariant relates
  the place of the call that works on a request to what the store says of it
  (`StatusHolds`) and to the runs that attempts and violations have paid for
  (`RunsHold`); the queue has the waiting requests, each once (`PendingHolds`).
  For proposals it follows every copy of a receipt, in the store, in the journal
  and in the hands of a call (`CopiesHold`): each tells one course, that of the
  status model or one that a rejection ends in the middle of an apply, says what
  was proposed, and what it calls applied was done. The converse, that a rejected
  proposal was not applied, is false (section 7). For callers that wait, the write
  under way is the only one and goes on from what the store has (`PatientHolds`).
* `AccessStaysSafe`: `AccessSafe`. Locks: a token is in the hands of one client,
  and while its tenure lasts it is the lock's (`HoldersAreApart`,
  `MemoryIsOfLocks`). Appends: for clocks that may stand still or go back, an
  answered entry that is not processed has a wake that the running engine cannot
  take for its own, unless the last request's stamp was one it had processed or
  was processing (`EntriesAreArranged`, `rrCovered`). Faces: which
  driver waits for which job of the mutation queue (`QueueHolds`), what a
  reconfiguration that overlaps no other makes of the program (`CallHolds`), what
  a listener has or is about to read (`ListenerHas`), and which invocations a
  controller has waited for (`AnswersHold`).
* `ServicesStepHolds`: the action property `ServicesStep`, from the same
  invariants.

The proof for the transport corrected its model twice. The model's log no longer
dropped anything once the baseline had been put on top of a full log, while the
code drops a patch whenever one too many is there (`transport.ts:143`). And a
patch without content, which `syncExternal` publishes with the revision there is
(`kernel.ts:465`), may overtake the content of that revision in a replay: the
replica takes the revision and ignores the content that follows
(`client.ts:129`), so its patches count as disturbed from then on.

The least element that such arguments need (the first patch of a revision) comes
from the library's `WFMin` and a well-founded order of the naturals.

Only model-checked: what the runs `kernel_parts`, `blueprint_parts` and
`services` check of programs, lowering and of calls through the remote storage.
`KernelProgram`, `ProgramPatches`, `BlueprintLowering` and `BlueprintProgram`
recurse over their data, so what they return for every input is out of the
prover's reach, and with `KernelProgram` the half of `PartsStep` that is about
machines. `CallsExact` is about tables of methods that are spelled out in the
model: it says where a call through client, JSON and dispatcher is the call
itself, and where it is not. So are the liveness properties, which need fairness and ENABLED:
that wakes, effects, reads, retries and requests get somewhere in the end is
checked on the instances of section 4 only. `QueuedOnce` and `FsWakeKept` hold
for commits that keep their lease; what an overrun does is in section 7.

## 6. Findings

Each is a run that fails, with the trace TLC prints.

* `indexeddb_wake`. `indexed-db/runtime.ts:150` moves `requestedAt` past
  `processedAt` but not past the pending request. An append in the same
  millisecond as the pending request, made after the running transition read the
  journal, is covered by the very stamp that transition marks processed, so the
  entry waits for some later append. `docs/sot/gik-public/durable-runtime.yaml:111`
  says "Preserve a newer request written while the engine transition is
  running."; the memory provider does it (`memory.ts:86-90`).
* `filesystem_commit`. The commit stages its effects, writes state and cursor
  (`filesystem/runtime.ts:256`), and promotes the staged effects one by one. A
  promotion takes the lane's lock without waiting, so it throws whenever another
  host leases or acknowledges an item at that moment, and the catch block discards
  effects whose state is written: they never happen. No crash is needed.
  `durable-runtime.yaml:98` says "Atomically commit state, materialized spec,
  specUpdates, cursor, and effects while releasing the lease."
* `transport_reconnect`. `attach` registers a connection before it onboards it
  (`transport.ts:97`). A patch that waits in the outbound queue is sent between
  vocabulary and snapshot, and the client then ignores the snapshot, which has the
  same revision (`client.ts:129`). ADR-0012, line 53, says each patch is broadcast
  to all, "keeping replicas in sync"; the comment at `client.ts:108` says the
  snapshot "always applies".
* `derivations_stale`. A settlement evaluates a derivation once
  (`derivations.ts:98`). One that an input of its own woke in the first pass is
  not evaluated again when a later pass changes another of its dependencies.
  ADR-0033, line 161, calls derivations "continuous relationships" that "should
  hold at all times".
* `hosted_outputs`. A presented hosting Cell emits the outputs of its child from
  a node named after its attachment (`cell-projection.ts:161`, `:304`), while the
  graph listens to events of the bare Cell id. ADR-0043, line 226, says that
  discovery and output bridging are "both already keyed on the bare Cell id".
* `kernel_throw`. A settlement that throws, say because its response does not
  match the schema, deletes the invocation in the finally block, so the catch
  block of the task, which would settle it as a failure, finds nothing
  (`kernel.ts:873`). The source stays in flight for ever and its later requests
  are only remembered.

## 7. Notes on the code

Seen while the code was modelled and kept in the models as the code has them.
They are observations that a reader of the code may want to know; no run is
devoted to them.

Five of them contradict a document as the findings do. The modules state the
document's claim, no cfg names it, and TLC refutes each in seconds when it is
added to the `.cfg` given here as an INVARIANT. What is checked and proved
instead has the exception in its statement.

* `CosmosKeepsNewerRequest`, `FilesystemKeepsNewerRequest` (`MCProviders.cfg`). The
  finding `indexeddb_wake` once more, in the shared providers. Cosmos moves the
  clock's millisecond past `processedAt` only (`cosmos/runtime.ts:430-431`); a
  directory takes the file time for it, whatever the marker says
  (`library/storage.ts:297-309`). In either, an entry appended in the millisecond
  of the request that a run has read, after that run read the journal, is marked
  processed with it, against `durable-runtime.yaml:111`. Cosmos also gives up an
  update after five conflicts (`cosmos/runtime.ts:414`, `:423`): the append then
  throws although its entry is there. `FsWakeKept` and `CsWakeKept` are about
  requests that are news.
* `OneCommitPerRevision` (`MCProviders.cfg`). The timer of a transition lease
  unlocks the directory while its holder is in commit, which looked at token and
  revision once, before it staged (`filesystem/runtime.ts:175`, `:219-232`, `:256`).
  A second host commits from the same revision: entries are folded twice, their
  effects are queued twice, and the cursor may go back. `durable-runtime.yaml:704`
  says "Only one active transition lease may own a runtime namespace." and line 710
  "expectedRevision must equal the persisted revision." `QueuedOnce` is about
  commits that keep their lease.
* `DiffRebuildsTarget` (`MCKernelParts.cfg`). `diffById` has no operation that
  moves an item, so two programs with the same items in another order differ by
  an empty patch. `program-patch.ts:131` says "Produce typed operations that make
  one program structurally equal to another." `DiffReaches` leaves order out.
* `DenialLeavesApplyAlone` (`MCServices.cfg`). reject() refuses final statuses only
  (`host.ts:144-147`), so a receipt that is "applying" becomes rejected, also when
  the authority has applied the proposal and only the answer was lost.
  `blueprint-agent-host.yaml:83` says "denial_flow:
  received|authorized|admitted -> rejected". `TellsOneCourse` adds this step to the
  status model.

The others:

* Durable runtime. A message that a vanished worker has leased is waited for by
  nobody: a lane that cannot lease it is idle, and no timer is set
  (`worker.ts:70-74`); a cycle that is rejected has no follow-up of its own
  (`queue-processor.ts:32`). stop() during an awaited subscribe leaves the cleanup in place
  (`queue-processor.ts:53`; `durable-runtime.yaml:486`). The local revision
  advances after the listener (`browser-runtime.ts:154`; `durable-runtime.yaml:132`
  says before). Two source settlements that overlap each carry all runtime cells
  of the snapshot they started from (`worker.ts:133`).
* Kernel. A cancelled invocation whose settlement is queued is completed twice
  (`kernel.ts:1245`; ADR-0042, lines 48 and 122). Effect ids are used again after
  a failed mutation and in a compensation (`kernel.ts:506`, `:1374`). `reduce`
  follows emitted events without a bound (`reduce.ts:188`).
* Graph. `start` whose seeding yields never triggers the startup nodes
  (`kernel.ts:282`). An evaluation that throws leaves its node "running"
  (`graph-runtime.ts:290-293`). cancelInvocation leaves an invoke node suspended
  (`kernel.ts:1240`). Signals to a suspended node are lost at rest, a hydration
  before the activation hides changes from other nodes, and a removed node keeps
  its trigger.
* Transport. The first attach's baseline runs `init()`, which seeds the machines
  again (`kernel.ts:219-221`). One rejected dispatch or send poisons the dispatch
  queue or skips later connections (`transport.ts:147`, `:168`). Shifting the log
  during a replay skips an entry (`transport.ts:143`). An SSE connection that
  closes during onboarding is never detached (`server.ts:110-115`).
* Service host. A cancel that races with runNext or with a running attempt is
  overwritten by the end of the run, and a stale cancel may overwrite a completed
  record. A rejected adapter promise stays cached (`service-kinds.ts:209`).
* Remote access. The remote client sends null for options that were omitted, and
  the filesystem's dispatcher hands it on (`filesystem/api/dispatch.ts:149`, `:157`,
  `:164`). Default parameters do not replace null, so lease, nack and stage
  without options fail there. `CallsExact` checks the client against both
  dispatchers: over Cosmos each call arrives, over the filesystem exactly those
  whose options are given, and lists written by hand that end before them.
  After a lost answer to "acquire" a filesystem
  relay lock is held until the server restarts. A failure of appendJournal
  between the append and the wake leaves an entry without a wake, and a retry
  appends it twice. The MCP connector does not check isError.
* Faces. Of two reconfigurations that overlap one is lost
  (`controlface.ts:263-275`), and one whose `graph.resume` throws leaves the
  program changed and the Blueprint not. An older tree may be delivered last. The
  error of a detached invocation is thrown at whichever emit or whenIdle comes
  first, and start() swallows it (`controller.ts:33`). `emit` waits for whenIdle
  inside the controller's queue, so a tool that waits for the next emit of the
  user waits for ever. Restoring the program of an adaptive checkpoint does not
  restore the face's Blueprint.
* Blueprint. An isolated tier beside a chain is accepted. An adaptive policy
  without replaceCell can be met by removeCell and addCell. A hosting or
  event-handling Cell attached only to an unreachable slot counts as presented and
  gets no node (`cell-projection.ts:206-213`). Reserved namespaces are checked for
  runtime.state only (`run-transition.ts:467-474`). Nested keys with dots are found
  by the graph and not by the preflight.
* React. An unmount during `worker.start()` leaves the worker running, a failed
  start never subscribes, and a created runtime whose bootstrap append fails is
  never bootstrapped (`react.yaml:94`). useGenUI keeps the tree of the previous
  source. An entry of the reconciler whose replacement failed to mount stays, so
  the same tree does not mount it again. The projection renders the previous
  definition with new inputs for one commit.
* Proposal host. Two overlapping submissions of one proposal may create two
  receipts. A stale write may take a receipt back: the end of an apply overwrites
  the rejection that met it, though a rejected receipt is final. A durable write
  that was refused as busy is committed later.
  `return transition(...)` inside apply's try is not awaited, so a failing write of
  "applied" leaves "applying", from which apply may be repeated.

## 8. Not modelled

PROJECT.json gives the reason per component. In short:

* formatting, messages, JSON schemas, the lowering of expressions, the
  validators and the evaluators of cells: transformations of data without state;
* lifecycle phases and the validation of tool responses in the kernel;
* the declaration checks of service kinds, and preflight, discovery and probing,
  which forward to an adapter;
* the checks of each request by the HTTP server, its routes, and the tools of the
  MCP connector;
* sockets, headers and codecs of HTTP, SSE and MCP: what they can do to a
  connection, which is to fail, close or lose an answer, is in `KernelTransport`,
  `StorageAccess` and `RemoteRuntime`;
* the step orchestrator and the authoring provider, a thin driver of the
  vendored step machine and a flow of three pure steps;
* face catalog, capability and document projections, and the tool profiles of the
  agent lifecycle;
* rendering of leaves, regions and file services, and release scripts.
