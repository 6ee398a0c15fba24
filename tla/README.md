# A verification project for erl_hls

erl_hls compiles bounded Erlang actors to hardware. A `gen_statem`-like
behaviour (`hls_statem`) has two implementations that must agree: a CPU one on
the BEAM, which is the reference, and a scheduler generated as DSLX. A quantum
error-correction decoder ("phi decoder") with a simulated noisy memory is the
main application, run on either one through the same host-side experiment.

This directory holds TLA+ models of the system, TLC configurations that check
them on small instances, and TLAPS proofs, for every instance, about the
mailbox, the actors, the host broker, the message driver, the decoder mesh,
the noise mesh, the topology of both and the memory experiment.
Paths below are relative to the repository.

## 1. Inventory

| component | state it keeps | operations | talks to | what makes it correct |
|---|---|---|---|---|
| `src/runtime/hls_mailbox.erl` | slots, tickets, ages, generation | reserve, cancel, cancel_owner, commit, select, consume, reset, new | values and capabilities held by a controller | capabilities are exact under reuse, replay, reset and rebuild; a selection is oldest-first; no published message is lost |
| `src/api/hls_statem.erl` | lifecycle, phase, data, mailbox, postponed set | connect, cast, processing loop, phase entry | casts to output ports | arrival order, postponement until a boundary, effects in order, stop on overflow |
| `src/backend/xls/xls_statem_codegen.erl` with `priv/xls/lib/axis.x` | registers of `Service`, credit in `ReservedFrame` | entry step, receive, dispatch, grant | AXI-stream frames, egress | implements hls_statem; at most one credit, always backed by a slot |
| `phi_halo_cell.erl` | field, step, round, barrier counters, anyon | five phases | four neighbors, a syndrome cell, the host | lockstep without overrun; every move exactly once |
| `phenom_data_cell.erl`, `phenom_syndrome_cell.erl`, `hls_pauli.erl` | round barrier, Pauli frame, parities, cutoff | rounds of query/report/announce; cutoff, update, query | each other, phi cells, the host | events explain errors; the cutoff is punctual; replies match the frame |
| `phi_memory_experiment.erl` | status rounds, closed and zero steps, correction log, replies | one per event | the runner | no legal order of events is an error; the witness is complete |
| `phi_memory_runner.erl` | result, waiters, timer, monitor | frame, timeout, exit, await | a fabric, callers | one answer for everyone, always |
| `phi_memory_cpu_fabric.erl`, `hls_fabric.erl` | actors, forwarders, route owners | activation, send, register_route | runner, actors | staged start; one live owner per route |
| `hls_gs.erl`, `hls_debug.erl` | pending calls by 8-bit transaction id | call, cast, reply | fabric | replies reach their callers |
| `phi_noise_topology.erl` | none | relations, `correction_update/3` | experiment, topology lowering | relations are mutual; corrections hit the shared qubit |
| shared executor (`xls_statem_codegen.erl`, `xls_topology_scheduler_dslx.erl`, `effect_window.x`) | order and postponed tables of many actors, in-flight set, one completed result; a router's batch, grant and credit debt; the arbiter's owner | boot, startup, capture, issue, execute, retire, admit; route, request, grant, release | state and mailbox RAM, executor, routers | each actor is an hls_statem process of its own; no credit or grant is lost or forged; round robin |
| `experiments/03-async/axismsg_shim` (`axismsg_shim.c`) | two rings of DMA slots, done queues, cursors, a pending buffer per descriptor | write, read, poll, release; DMA callbacks; a work item | system calls, the DMA engines | every message once and in order; no sleeper forgotten; no slot lost |
| `hls_fabric_router.x`, `hls_spatial_router.x`, `axis.x` | packet locks | merge, copy, frame | streams | whole packets, no loss |
| debug server, observer, trace store | trace ring, frozen bank | capture, GET_TRACE | host proxy | a snapshot is consistent |
| topology normalisation, compiler, codecs, numerics | none | pure functions | build time | tested by example; no interleaving |

What is hard here: many small processes exchange messages in barriers, each at
its own pace and with a mailbox of three to five slots, so that a message too
many stops the process and with it the mesh; capabilities and timers outlive
what they refer to; two implementations of one scheduler differ in every
intermediate step; and an experiment has to recognise the moment after which
nothing more will come. `PROJECT.json` lists the hazards with their lines.

## 2. Modules

| module | models | composed with |
|---|---|---|
| `Mailbox` | `hls_mailbox`; one action per operation, `*_result` operators for the reply each call gets | refines `AtomicMailbox` |
| `AtomicMailbox` | what a mailbox promises: credits, one queue, an atomic oldest-first receive | |
| `MailboxProofs` | theorems about `Mailbox` | |
| `Statem` | `hls_statem`'s rules as operators on one actor's runtime record | used by every actor below |
| `StatemActor` | one process on the BEAM with an arbitrary callback; the abstract actor | `Statem` |
| `StatemActorProofs` | theorems about `StatemActor` | |
| `Machine` | proc `Service`, `machine_step` and `ReservedFrame` | refines `StatemActor` |
| `EffectWindow` | the effect routers of the shared schedulers and the arbiter of their lookahead batch; schedulers are seen by their batches only | |
| `GeneratedProofs` | theorems about what the generated procs do: `Machine` and `EffectWindow` | |
| `SharedService` | the scheduler of many actors on one executor, behind its router | `EffectWindow`; refines `StatemActor`, once per actor |
| `PhiMesh` | `phi_halo_cell` on a periodic mesh | `Statem` |
| `PhiMeshProofs` | theorems about `PhiMesh` for every mesh, and about `NoiseTopology` for every distance | |
| `Pauli`, `DataCell`, `SyndromeCell` | `hls_pauli` and the callbacks of the noise cells as operators | |
| `NoiseMesh` | the noise half of the demonstration: staged activation, rounds, cutoff, corrections, queries | `Statem`, `DataCell`, `SyndromeCell` |
| `NoiseMeshProofs` | theorems about `NoiseMesh` | |
| `MemoryExperiment` | the reducer's transitions as operators from state to state and commands | |
| `Closeout` | the reducer between two decoder planes and the data cells | `MemoryExperiment`, `Pauli` |
| `Runner` | `phi_memory_runner` with its timer, monitor and callers | |
| `ExperimentProofs` | theorems about the memory experiment: `Runner` and `Closeout` | |
| `Fabric` | the broker `hls_fabric`: registration, monitors, `'DOWN'`, dispatch of frames; processes that own routes are its environment | |
| `FabricProofs` | theorems about `Fabric` | |
| `NoiseTopology` | relations and `correction_update/3`, as operators on coordinates; no state | |
| `AxisMsg` | the driver's two rings between threads, callbacks, work and the DMA engines | |
| `AxisMsgProofs` | theorems about `AxisMsg` | |
| `MC*` | instances for TLC | |

**Correspondence.** A module keeps the source's names. An action of an actor
module is one activation of its process: `admit_and_process` is
`handle_cast/2` up to the first callback call and `process_messages` is one more
turn of the loop `process_messages/1`, so that other processes interleave
between callback calls; `quiescent` says that the `gen_server` takes its next
message only when the loop has ended. A turn is `process_message/3` with the
phase entry it leads to, effects included. The mailbox of `Statem` is the queue
of `AtomicMailbox` with the postponed flag of each entry; that the real mailbox
is such a queue is what `ImplementsAtomicMailbox` says: a run checks it, and
`MailboxProofs` proves it.

An action of `Machine` is one activation of a DSLX proc. Backpressure is an
activation that has not been taken yet. Its history fields (`entered`, `tried`,
`cause`, `rejected`) are read by the refinement mapping only.

In `SharedService` too an action is one activation of a proc: `boot`, `startup`
and `activate` are those of the service in its three phases, `execute` those of
the executor, `emit` those of its router. `request` is the part of a `RUN`
activation that captures a frame, taken by itself: the register it fills keeps
the frame until an activation admits it, so nothing is gained by capturing
later. `activate` binds the names of the source in their order (result, retire,
admission, issue, selection), each to the one value it has. A callback
concludes anything the generated `dispatch` can return, and an entry returns
any of `EntryEffectLists`. The registers `egress_waiters` are left out because
`egress_ready` is the constant 1. In the mapping to `StatemActor` (`CPU(a)`) a
callback takes effect when its result retires: that is when the machine is
written back and the order and postponed tables change. Messages that were
never tried are the process's inbox, the others its mailbox; numbers are given
at admission, because two producers have no order before it.

`AxisMsg` has one action per critical section of the driver, with the wake-ups
that follow the unlock as actions of their own, so that a thread can look in
between. A thread is at a label (`pc`): asleep for a slot or a message, copying,
about to schedule the work, or posting. The TX and RX mutexes are
`mutex_lock_interruptible`; the two DMA engines and the kernel's work queue are
the environment. A copy from or to user space may fail, and so may preparing or
submitting a descriptor (`fault`, bounded by `MaxFaults`).

Casts between two processes keep their order; casts of different senders
interleave freely (`link[c][s]`). In the CPU fabric a message passes a
forwarder, which keeps the order of its sender for each recipient.

The mailbox of the broker in `Fabric` is the set of messages it may take next:
one call per process, the `'DOWN'` of each monitor whose process has exited,
and the next frame. Its messages come from different senders, between which the
runtime promises no order; the one promise that matters, a process's last call
before the signal of its exit, is a guard of `HandleDown`. `demonitor` with
`flush` therefore is the removal of one element of `monitors`.
`phi_memory_cpu_fabric` repeats the registration and `'DOWN'` handlers.

Definitions with a comment that begins with "Defect" are not part of the
system: each is what a mapped definition would be with a plausible mistake in
the code, and `PROJECT.json` says which property notices it.

**Abstractions.** Field values, pseudo-random numbers and thresholds are
nondeterministic values and coins; layer-zero values are 0 or 1, enough for a
tie, a unique and a shared maximum. Words of a frame are a message record.
Coordinates carried by messages are implied by their sender. `PhiMesh` leaves
out the status message, which is an output only; `Closeout` takes up there. In `NoiseMesh` the history of a cell's bits is
kept as their parities so far, one per round, which is all the properties ask. In `Closeout` a plane
makes a whole step at a time; the interleaving that the reducer sees comes from
the output queues of the cells, which drain in any order.

## 3. Runs

All bounds are constants of the modules; those that bound time are in guards.

| run | instance | what it shows |
|---|---|---|
| `mailbox` | 2 slots, 2 owners, 2 messages, 3 reservations, 2 selections, generations 0-1, one rebuild | every capability ever issued is replayed at any later time: it acts only on its own incarnation; select-then-consume is an atomic oldest-first receive |
| `statem_actor` | capacity 2, 2 phases, 4 messages, 3 entries | any callback, staged or immediate start, overflow: no overtaking, and postponement exactly within an occupancy |
| `machine` | capacity 2, 4 frames, one of them malformed, 3 entries of up to 2 effects | credit conservation, credit liveness, and the hardware implements the CPU actor |
| `effect_window` | 3 routers, batches of one effect and of two of which one is emitted | grants and credits are conserved; a router that asks is granted its turn |
| `shared_service` | 2 actors of capacity 2, 2 producers, 3 messages for one actor (startup and both producers) or one for each, 2 phase entries each | each actor implements the CPU actor; batches are sent on credit; every message is tried unless its actor fails |
| `phi_mesh` | ring of 3 cells, 2 ports, 2 diffusion rounds, u32 of 3 values, capacity 3 | the exchange protocol is safe through the wrap of the step counter, and the mesh never comes to a halt |
| `noise_mesh` | ring of 2 syndromes and 2 data cells, cutoff at 0 or 1, one step more, one correction, 2 queries, capacity 3 | rounds, cutoff, certificate and replies are right, and when all has come to rest no query is unanswered |
| `closeout` | 2 cells, 2 data cells, cutoff 0 or 1, 2 steps, 1 correction per plane | the reducer never rejects a legal order, its witness is complete, and it is never left waiting |
| `runner` | 2 callers, 2 frames | one answer to everyone |
| `runner_fabric_exit` | the same | the finding of section 6 |
| `fabric` | 2 processes, 2 routes, 2 frames per route | one living owner per route, one monitor per owner, whole streams, and a route to spare after each exit, whatever exits when |
| `axis_msg` | 2 threads, RX ring of 3, TX ring of 2, 3 messages each way, 1 fault | messages once and in order, nobody sleeps for ever, buffers keep what is read from them, slots are not lost, every write goes out |

`SomeCellGoesOn` and `EveryQueryAnswered` say what one would expect of liveness
properties, as invariants: a mesh cannot halt, and no state at rest owes an
answer. Each process takes a step whenever it can, so that is what could go
wrong; as invariants they are checked on the full instances with symmetry.

**Why the bounds are enough.** Mailbox: with two slots and three reservations a
slot is reused while a neighbor is live, and one reset plus one rebuild give
every pair (same identity, other generation) and (other identity, same
generation). Actors: two phases and two slots give a postponed message with one
behind it, a change of phase and a repeated one, an overflow by a retained
message. Meshes: a ring has two ports instead of four, so the declared
capacities shrink with it: a decoder cell needs a whole early barrier and one
message (2 + 1 for the ring, the code's 4 + 1 for the torus); one slot fewer
makes `NoCellStops` fail, so the bound is tight. Three cells is the smallest
ring with distinct neighbors and, at one exchange of distance per hop, holds
the greatest spread two neighbors of one cell can have. Time is unbounded in
`phi_mesh` (the step wraps). Noise: two rounds and two queries let a query
meet each phase, a second query meet the reply to the first, and the cutoff
fall before, in and after the round that is running. Effect window: three
contenders are the fewest where one can be passed over while two others take
turns; batches of one and of two effects let a grant come before, at and after
the end of the batch it was asked for. Shared service: three messages to a
mailbox of two let a producer wait for room while the actor is in flight, two
actors let one be issued while the other's result is outstanding and while a
result waits for its credit; two entries give a phase boundary that releases
postponed mail. Driver: three receive slots and three messages let a slot
be done, read, posted and done again while another is pending; two transmit
slots make writers wait; one fault may hit any copy, preparation or
submission. `SlotsAreNotLost` bounds the free slots by those that starting the
device left out (`left_out`), the frames dropped as malformed and the faults, so
one fault is enough to see a slot too many lost. What is left out depends on the
depth, as the cursor of `post_rx_locked` moves with the loop that adds to it: one
slot in the ring of three here, one of the source's eight, up to six in rings of
other depths up to sixteen. What the property excludes is that this loss adds
up. It counts the frames dropped, so it does not exclude that malformed frames
free every posted slot, until a descriptor that still holds a message is read to
its end or closed: that is what the code does. Fabric: two processes
let a dead owner be replaced before its `'DOWN'` is handled; two routes let one
process own two, under two monitors; a process exits once, so no other bound is
needed than that on frames. The proofs lift all three.

**Symmetry** is used in `phi_mesh`, `noise_mesh` and `closeout` (rotations and
reflections of the ring, safety only); runs with a liveness property use none.

**Deadlock** is checked in `phi_mesh` and `axis_msg`, which never stop. The
others do stop: messages, steps or calls are bounded, and an actor may end.

## 4. Fairness

`Machine`: `WF` of a `Service` activation, of taking a credit and of forwarding
a frame: clocked processes with ready channels. `EffectWindow`: `WF` of each
router's activation and of the arbiter's, for the same reason; no scheduler owes
a batch, so `EveryRequestIsGranted` holds even if a batch has no successor.
`SharedService`: `WF` of the service, the executor and the router together;
nothing is asked of the producers. `AxisMsg`: `WF` of the work item, of every callback and of
the engine that transmits what it was given, because the kernel runs them; a
thread that is in a system call goes on unless it sleeps. No one owes a system
call or an arriving frame. `PhiMesh` and `NoiseMesh` state no fairness. `Fabric`: `WF` of handling each
process's call and each process's `'DOWN'`: a `gen_server` takes every message
of its mailbox; nothing is assumed of the processes. `Runner`: `WF` of handling
the next message and of the timer; nothing is assumed of the fabric or of the
callers. `Closeout` needs no fairness: every step uses up a message or a decoder
step, so `CloseoutCompletes` is an invariant of the states where all are used up.

## 5. Proofs

`MailboxProofs` proves, for every capacity, every set of owners, messages and
clause lists and all bounds, that `Spec` implies `[]TypeOK`,
`[]ReservationExact`, `[]ReservationReclaimable`, `[]SelectionStable` and
`NoLostMessage`, and that it implements `AtomicMailbox`
(`ImplementsAtomicMailbox`). The only assumptions are `MailboxAssumption`: a positive
capacity, clause lists that are sequences of sets of messages, and `undefined`
not a message.

None of these is inductive alone. The invariant `IInv` adds

- `SlotsInv`: resident tickets are distinct and below `next_ticket`, ages below
  `next_arrival`, the slot's generation is the mailbox's, and each slot was
  filled by a reservation of the current incarnation that its user still has;
- `ReservationsInv`: no capability comes from a later incarnation, and a ticket
  names one reservation of its incarnation;
- `SelectionsInv`: while the message a selection names is resident it is where
  the selection says, and is still the oldest that the clauses accept. This is
  what makes a deferred consume safe: commits only add younger messages, and
  removals only take candidates away.

`InitInv` and one step lemma per part (`TypeStep`, `SlotsStep`,
`ReservationsStep`, `SelectionsStep`), each with one case per action, give
`Inductive`; the theorems follow from it. `CommitFills` and
`RemovalKeepsSelections` are the two lemmas that carry the argument: a commit
fills exactly the slot of its reservation, and a removal changes no other slot.

The refinement maps the slots to one queue, in the order of their ages, by
a function from positions to slots; every step of the mailbox is a step of the
queue or leaves it alone (`AtomicStep`). The ages are those of the present
incarnation, distinct and below `next_arrival`, so a commit goes to the end of
the queue and a consume takes the first message that the clauses accept.

`FabricProofs` proves, for every set of processes and routes and any number of
frames, `[]TypeOK`, `[]OwnersAreWatched`, `[]GrantedIsOwned`,
`LiveOwnerKeepsRoute` and `[]StreamIsHandedOver`, from `FabricAssumption` alone
(`NoRoute` is no route). `IInv` adds that references are fresh and that a
living owner has been told so (`OwnedIsGranted`): without freshness a new
monitor could be an old one, and without the second a frame could reach a
process that was never granted the route. (`TypeOK` and `LiveOwnerKeepsRoute`
of `Fabric` are proved and have no run of their own.) `NewOwner` is the step both handlers
that give a route away share. The streams need `StreamInv` besides: a process
has only frames of routes granted to it, and a living one has missed none since
its first (`NothingMissed`), so the next frame extends its run.

`AxisMsgProofs` proves, for rings of any depth and any set of threads, number of
messages and of faults, `[]TypeOK`, `[]TxExactlyOnce`, `[]NoSleeperForgotten`,
`[]ReadBufferIsKept`, `[]MessagesInOrder` and `[]SlotsAreNotLost`, from `AxisMsgAssumption` (positive
depths, and two names that are no threads). The
invariant `IndInv` has a part per ring: `TxInv` relates the active slot, the
done queue and the messages sent; `RxInv` says that the slots given to the
engine, those that have landed, the callback's, the done queue's and the
descriptors' pending ones are disjoint, and that a mutex's holder is the one
that posts (`EngineInv`, `CallbackInv`, `DoneInv`, `PendingInv`, `ReaderInv`).
`SleepInv` adds what the wake-ups rest on: a slot in the done queue has the
work scheduled, or a callback still about to schedule it.

The order of messages needs numbers that the driver does not have. While no
fault has happened, `TxOrderInv` says where the messages written, but not yet transmitted are: message `m` is at
`place(m)`, so many slots behind the cursor, and between the cursors there are
no others; `Division`, `Residue` and `PlaceApart` carry the arithmetic of the
ring, and `NextIsFree` shows that a writer who was told of a free slot finds
the one at the cursor. `RxOrderInv` numbers the messages on their way in
(`heard`, `landed`, `received`): the engine, the callback, the done queue, the
descriptors and the readers hold consecutive stretches, each in order, none in
two places. `FreeInv` accounts for every receive slot: the free ones are those
left out at the start, those whose frame was dropped, and one for each fault,
apart from those that the thread which posts is about to use (`OneToPost`,
`SpareInv`). That the one who frees a slot is the one who posts the next,
under the RX mutex (`RxMutexInv`), is what keeps the loss from adding up.

`GeneratedProofs` proves `[]TokensAreConserved` of `EffectWindow`, for any number of schedulers
and any effects of entries, from `EffectWindowAssumption` (at least one
contender). Its invariant `WindowIndInv` adds `HeldForOneReason`: a router holds the
window either because it has returned its batch's credit early or because its
batch is the one that came behind such a one, never both, and only while a batch
is active. Without it a second credit for the same batch, or a batch that ends
without giving the window back, would be possible steps. There is one step lemma
per proc (`ScheduleInv`, `RouteInv`, `ArbitrateInv`); `SelectsCandidate` shows
that the round-robin search finds a contender whenever one is pending. The theorem
is about `EffectWindow`'s own schedulers; that the tokens are conserved when the
batches are those of `SharedService` is model-checked there.

`GeneratedProofs` also proves `[]CreditConserved` of `Machine` for every capacity, callback and all
bounds, from `MachineAssumption` (a positive capacity; the bound on the effects
of an entry is a number). `IndInv` is the property with the types of the
registers and channels. `TokensInOnePlace` opens it into the three places the
token can be, and `TokenIsConserved` closes it again after a step: dispatching
frees a slot and lets the machine issue the token, an arrival or a failure ends
it. Each part of an activation has its lemma (`FinishInv`, `DispatchInv`,
`NoDispatchInv`, `EntryInv`, `ReceiveInv`, `IdleInv`), and so has the adapter
(`LinkInv`).

`StatemActorProofs` proves `[]NoOvertaking` and `[]PostponedThisOccupancy` for
every capacity, set of phases, callback and all bounds, from `StatemAssumption`
and `StatemActorAssumption` (a positive capacity; `repeat_phase` is no phase).
Neither is inductive: `IndInv` adds that the mailbox is in order of arrival
(`Ordered`), that the queue in front of it holds only younger messages
(`QueueInOrder`, `Earlier`), that the history names no message still to come and
no occupancy still to begin (`HistoryIsPast`), and that an actor has handled
nothing before it is connected (`Untouched`). The order is what makes the oldest
eligible message the one whose turn it is, and the empty history of a new
occupancy what makes a boundary safe: everything is released, and nothing has
been tried. `SettledIsScheduled` and `ReleasedIsScheduled` say what a turn and a
boundary make of the mailbox, and `ProcessInv` is the step that a held message
and one just admitted share.

`ExperimentProofs` proves `[]AnswersAgree` of `Runner` for every set of callers and number of
messages, with no assumption. `IndInv` adds that a caller waits in one place, in
the runner's queue, among its waiters or answered (`WaitsInOnePlace`), that
whoever has an answer has the result or the runner's end, while waiters have none
(`AnsweredOnce`), and that a runner that has ended leaves neither waiters nor
messages behind (`EndsEmpty`): without the first, a call delivered twice
would be answered twice.

It also proves both invariants of `Closeout`, `WitnessIsComplete` and
`CloseoutCompletes`, for any decoder cells, data cells and geometry, either
measurement, every cutoff, number of steps and number of corrections, from
`CloseoutAssumption`: a move goes to a cell and corrects a data cell, there are
finitely many of each and at least one, and the run is not over before the
latest cutoff. The reducer sees only what comes out of queues that drain in any
order, while the planes run ahead. `CloseoutInv` relates the two:

- `InOrder`: what a cell has emitted and the reducer not received comes in the
  order of its steps, a correction before the status of its step, and of no step
  the status is missing. So `reached`, the step of a cell's next event, says all
  about what has been received of it.
- `Hears`, while the experiment drains: of each open step the reducer has a status
  of exactly the cells that are beyond it, and a correction that is still to come
  is not in the log. No event of a legal order is taken for a duplicate or for a
  late one, therefore (`CorrectionIsNew`, `StatusIsNew`).
- `Closing`: some cell is still to report the step after the last closed one, and
  what has been emitted is in the log or in a queue.
- `Empties`: a step of the quiet rounds that is not closed yet either left the plane
  empty for good (`Emptied`), or some status of it, received or not, shows an anyon
  (`Shows`). A step that the reducer counts as quiet and empty is one after which
  its plane emits nothing. If the last step is such a step and closed, the reducer
  has not forgotten it.
- `Querying`, afterwards: everything emitted is in the log, no anyon is left, and each
  data cell has the query behind all that it is to be told, or has answered with the
  parity of its corrections (`Answering`).
- `Framed`: a frame and the updates on their way to it add up to the corrections in the
  log, by plane.

Draining, a status may close its round (`RoundClosedInv`) and find a step that both
planes have closed quiet and empty. That step is common to planes at different speeds,
and the one that is ahead has moved on; `Emptied` is what says that it has emitted
nothing since, and `InOrder` that what it had emitted before has been received. The
prover is told so by `Logs`, whose corrections are distinct, and by one lemma per
action. `CloseoutCompletes` needs besides that a plane ends one past its last step
(`StepsBounded`): if the experiment still drained when every queue is empty, the last
step would be closed in both planes and common. That the state is drained at some time
is the remark on fairness in section 4, and is not proved.

`PhiMeshProofs` proves every invariant of `PhiMesh`: `NoCellStops`,
`NeighborsInLockstep`, `EveryFieldCountedOnce`, `SomeCellGoesOn`,
`CorrectionsExplainAnyons` and `ComparisonAgrees`, for every mesh, number of
rounds, field values and width of the step counter, from `PhiMeshAssumption`:
edges have two ends, the neighbors of a cell are distinct and others than itself,
and a mailbox holds one more than a barrier.

The argument cannot be about the cells' counters: `step` wraps, and a counter
that has wrapped does not say how far a cell is ahead of another. The invariant
`IInv` is that *some* numbering `h` of the exchanges that each cell has entered
fits (`Fits`):

- `Lockstep(h)`: the numbers of neighbors differ by at most one;
- `at(r, e)`: phase, step and diffusion round of a cell are those of exchange
  `h[c]` of the loop (`turn`, `index`), modulo the counter's width;
- `OneOfEach`: what a cell has consumed of its present exchange, with what it
  has not consumed yet, is one message of each neighbor that has entered it;
  and of the next exchange, one of each neighbor that is ahead;
- `OneAnswer`: the host's configuration, or the syndrome's event, is owed or
  under way exactly once while a cell waits for it;
- `NothingElse` and `HeldBack`: no other message is under way, and a postponed
  one belongs to the next exchange.

So a cell's mailbox holds at most one early barrier and one message of the
present exchange (`RoomForMessage`), no message is rejected
(`EveryConclusion`), and of the cells with the least number one has something to
handle (`SomeCellIsLast`). `Division`, `Counts` and the lemmas beside them carry
the arithmetic of exchanges; `CastCounts`, `AdmissionCounts` and
`HandlingCounts` say how a step changes the number of messages not consumed
yet; `Turn` is the step of one cell (within an exchange, from one to the next, to
and from a measurement) and `MeshAdmits` that of a mailbox. That two exchanges in
a row have different messages (`Exchanged`) needs a counter of two values at
least, which a u32 is.

The last two properties are about what the messages say, and rest on `IInv`
with one more conjunct, `Accounts`:

- `Explains`: of every cell, connected or not, the anyon and those not consumed
  yet have the parity of `expected`. A message handled or postponed keeps the
  sum (`AnyonJoins`), a measurement adds the same event to both sides, and a move
  takes an anyon from the cell, puts one on the way to the best neighbor and
  changes what is expected of these two cells alone (`CastsExplain`), which are
  different cells reached through one port each.
- `Compares`: no field on the way to a cell or held in its mailbox is `stale`,
  that is other than the present field of the neighbor it names, and the best
  field is the greatest of those seen, with the direction of the only neighbor
  that has it (`Best`). A cell's field changes when it begins to compare. `IInv`
  says that no neighbor has an older field of it, on its way or already compared
  (`NoFieldYet`): each neighbor is about to compare or has just begun to, and
  of that comparison it has no field of a cell that has not entered it. That is
  why the comparison cannot be proved without the numbering.

`TurnExplains` and `TurnCompares` are the step of one cell, over the kinds of turn
that `TurnIs` lists.

The last part of the module is about `NoiseTopology`: for every distance and coordinate the
relations are mutual, `correction_update/3` names the data qubit between the two
syndromes of a move, neighbors are distinct exactly from distance three, and from
there the torus satisfies the assumption on meshes above (`TorusIsAMesh`). The
bipartite graph of syndromes and data cells satisfies that of the noise mesh
already from distance two (`TorusIsANoiseMesh`), where the decoder's does not.
`Remainder` and `Wrapping` say what Erlang's `rem` and `wrap/2` give, one and two
steps from a coordinate (`OneStep`, `TwoSteps`). These are statements about
static data: no run checks them.

`NoiseMeshProofs` proves every invariant of `NoiseMesh`: `NoCellStops`,
`EventsExplainErrors`, `CutoffIsPunctual`, `QuietIsFinal`, `RepliesMatchFrame`
and `EveryQueryAnswered`, for every mesh, set of measurements, number of rounds,
of corrections and of queries, from `NoiseMeshAssumption`: a port's opposite
leads back, the neighbors of a cell are distinct and there are two of them or
more, a mailbox holds two messages, and a counter does not come round within the
rounds of the run (the cutoff is compared with `step` as a number, so this
half of the system, unlike the decoder, does not work through a wrap). Two of
the code's four slots, then, are enough: that there is room is proved,
and that a cell takes what it finds there.

The rounds of two cells at the ends of an edge differ, and the cells of a mesh
may be far apart; what keeps order is that of an edge and a round only one
message is ever under way. `IInv` says which:

- `Edge`: a cell's counters give the rounds that it has `heard` on a port, those
  that are `complete`, and the queries it has cast (`queried`). On the link to
  the data cell there is the query of the round that it has not heard yet,
  on the link back the report that the syndrome has not heard yet, and nothing else.
  What a report carries is the error that the data cell's history has for its
  round, whether or not later rounds have begun.
- `Silent`: no other link has a message.
- `Stage`: a cell is `Configuring`, `Arming` or `Running`, with what its mailbox
  and the host's link have left of the configuration and the cutoff. A running
  cell's `noise_disabled` and `cutoff_armed` are functions of its rounds and
  `first_quiet`: so no cutoff comes too late, and noise stops everywhere
  with the round of the named step: not a round later, and not a round before
  (`CutoffIsPunctual`, whose part about the flag is `DisabledAfterFirstQuiet`).
- `Asking`: the decoder's request, the result it gets for it, and the count of
  both; a syndrome holds at most one request, postponed while it collects. The
  decoder may certify a syndrome exactly if its results, those under way left
  out, have passed the cutoff.
- `Announces`: within a round, the parity and the quiet flag gathered so far are
  those of the data cells it has heard, at the syndrome's round, which is not
  theirs. Summed over the rounds that is `EventsExplainErrors` and, past the
  cutoff, `QuietIsFinal`.
- `Hosted`: the corrections that have not reached a data cell come before the
  queries that have not, its frame is that of the errors and of the corrections
  that have reached it, and each reply was right when it was given and still is: no
  errors and no corrections come after a query (`RepliesMatchFrame`).

Every action is the step of one cell with what it casts (`Casting`), so a step
is proved by kind: `SyndromeStep` and `DataStep` take what a callback concludes
(`SyndromeConfigures` to `SyndromeReleases`, and the like for data cells) and
re-establish the parts for that cell and for the edges at its ports, and those
of other cells follow because nothing of theirs has changed. `Xor`, `OddBit`,
`OddOneMore` and `OddDifference` carry the parities of sets. `EdgeAtRest` is for
`EveryQueryAnswered`: if no cell has anything to take, no edge has a message, and
a data cell with a query to answer has it in its mailbox or at the head of its
link.

Every invariant and action property of a component's specification that a run checks
is proved but those of the shared service. `CloseoutInv` was checked by TLC on the
instance of the run `closeout`, with `Nat` bounded, before it was proved.

Only model-checked: the refinements of `StatemActor` by `Machine` and
`SharedService`, the shared service itself, and all liveness. Liveness under
fairness and the refinements through `SelectSeq` and the other operators that
compute by recursion over sequences are out of the prover's reach.

## 6. A disagreement between code and documentation

`phi_memory_runner.erl:17-19` promises that a fabric exit is reported as
`{error, {fabric_down, Reason}}`. The runner handles a frame by submitting the
resulting commands with `hls_fabric:send/4`, a `gen_server:call`. If the fabric
exits while such a frame is still in the runner's mailbox, ahead of the monitor's
message, the call exits in the runner: it terminates without a result, and the
callers of `await/1` exit with it. The run `runner_fabric_exit` shows the
shortest such history.

Two observations that are not findings: in `gathering`, the clauses that postpone
an early `anyon_move` or the next step's `phenom_anyon` are never needed in the
mesh; and `replying` holds on to its phase after the reply, resuming the round
from there.

## 7. Not modelled, and why

- Compiler, topology normalisation, codecs, numerics: pure functions of static
  data, without interleaving; their results are inputs of the models.
- The placement of actors on shared schedulers (`hls_scheduler_plan`), the
  control broadcast and the external ingress around `SharedService`.
- The driver's `probe` error paths and `remove`: they run when no device is in
  use. The other C code is prototypes, a test harness and a vendored boot
  loader, of which about 69,000 lines are generated register tables
  (`ps7_init*.c`): it has no protocol to model.
- A late cutoff, and experiments longer than the u32 step counter: the
  documentation excludes both (`phi_noise_topology.erl:64`), and the models
  assume that it does.
- The five seconds that `gen_server:call` waits: a fabric that is alive but slower
  than that would end the runner as its exit does in section 6. `Runner`'s
  calls return at once or fail with the fabric's exit, and no property that is
  checked depends on the difference.
- Errors the contract of a behaviour rules out (malformed conclusions, unknown
  ports): they end the process like any stop.
- `init/1` of the runner: its failures precede the experiment.
- That the reducer forgets closed rounds and corrections: it bounds its memory
  and is visible in each handler; only what forgetting too much would break is
  checked.
- Components marked planned in section 8.

## 8. Plan

Done, in this order: mailbox and its proof; actor semantics; generated machine;
decoder mesh; noise mesh; closeout; runner; host fabric and its proof; message
driver and its proof; topology and its proof; effect window and its proof;
shared service; proofs about the runner, the generated machine and the actor;
that the mailbox is a queue; order and slots of the message driver; the
exchanges, anyons and fields of the decoder mesh; the rounds, events, cutoff and
replies of the noise mesh; the witness of the closeout.

What would come next, by its worth:

1. `GsProxy`: 8-bit transaction ids, abandoned callers, unmatched replies.
2. `PairRouter`, `SpatialRouter`, `AxisRx`: packet locks, multicast,
   resynchronisation.
3. `DebugTrace`: snapshot consistency.
