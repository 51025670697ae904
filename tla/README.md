# A TLA+ verification of ParaEGOX

TLA+ models of the control plane and the execution plane of ParaEGOX, checked
with TLC on small instances and, where stated, proved with TLAPS for every value
of the constants. Every definition is translated from the Rust source under
`crates/`; `PROJECT.json` maps each definition to the lines it stands for.

## The system

| Part | Source | State | Operations that change it |
|---|---|---|---|
| Tenure Authority | `paraegox-deployment/src/tenure_authority*` | a store directory: lock file, active snapshot (ledger of issued writer epochs), temporary files | initialize, open, acquire (issue or replay), reconstruct receipt |
| Deployment Controller | `controller_*.rs`, `deployment_process.rs`, `tenure_client.rs`, `runtime_control_client.rs` | a journal snapshot: plans, tenure, apply, query and rollout transactions | eight one-shot commands, each a sequence of commits and one exchange |
| Compiler and planner | `deck.rs`, `planner.rs`, `projection.rs`, `plan.rs`, `envelope.rs` | none (pure) | compile, plan, project |
| Runtime admission and apply control | `paraegox-runtime/src/admission.rs`, `apply_state.rs` | three grow-only replay ledgers; writer fence, prepared and active slice; operation records | admit, fence, prepare, activate |
| Runtime journal and store | `runtime_journal.rs`, `runtime_store.rs` | prepared, active, retiring, recovery and terminal records; clock generation | one transaction kind per control step, migrations |
| Control endpoint, reference owner, recovery | `runtime_control_*.rs`, `runtime_reference_*.rs`, `runtime_ownership.rs`, `recovery.rs` | the listener, live ownership, recovery actions | bootstrap, query, apply, restart convergence |
| Execution plane | `mailbox.rs`, `port_binding.rs`, `dispatcher.rs`, `*_domain.rs`, `executor_budget.rs`, `thread_*.rs`, `process_*.rs`, `card_*.rs`, `core_service.rs`, `task_registry.rs` | bounded queues, routes, permits, workers | offer, begin, finish, expire, drain; prepare, activate, revoke; select, acquire, release; spawn, join, cancel |
| Supervision | `liveness.rs`, `host_watchdog.rs`, `paraegox-runtime-host` | probe and quarantine state, restart ledger | heartbeat, probe, evaluate, restart, quarantine |
| Python worker | `src/paraegox_sdk/worker` | session state | session frames |

The parts interact in one direction: the Controller obtains a *tenure* (a writer
epoch with a signed proof) from the Authority, makes signed apply requests under
it, and the Runtime admits a request only when the proof supersedes the epoch it
has fenced. Every process may crash at any step and is restarted from its store.
Exchanges may be lost, late or repeated.

What is hard: commit-before-send and commit-before-reply across crashes and
power failures; retries of operations that already took effect; values checked at
admission and used after another writer moved the fence; deadlines that pass in
between; grow-only ledgers at their capacity; queues with eviction and expiry in
one call.

## Modules

| Module | Models | Kind |
|---|---|---|
| `TenureLedger` | what the Authority promises: an append-only ledger of epochs | abstract specification |
| `TenureAuthority` | processes, store lock, snapshot publication, crashes and power failures | detailed; implements `TenureLedger` |
| `ControllerTenure` | the acquire-tenure command, its journal transaction and exchange, composed with `TenureLedger` | composition |
| `RuntimeApply` | admission, writer fence, prepare and activate of one target and scope | component |
| `RuntimeJournal` | the durable snapshot of a runtime, its validity, its transactions and their constructors | operators on a record |
| `RuntimeReference` | the process over that journal: start and reassembly, apply, the owner of the loop domain, crashes | composition over `RuntimeJournal` |
| `MailboxState`, `Mailbox` | the bounded queue as a value with one operator per method; one mailbox under every order of calls | component |
| `PortBinding` | the routes of one binding and the mailboxes they lead to | component |
| `Dispatcher` | the weighted deficit policy that picks the next mailbox | algorithm as a state machine |
| `LoopDomainState`, `LoopDomain` | mailboxes, routes and permit ledger of a domain, with the owners of its grants | composition over `MailboxState` |
| `ComponentRuntime` | card instance, callback owner and loop domain under one lifecycle task | composition over `LoopDomainState` |
| `ServiceManager` | the external supervisor, its loop, and the watchdog endpoint of the host | composition |
| `TenureAuthorityProofs`, `TenureLedgerProofs`, `PortBindingProofs` | theorems | proofs |
| `MC*` | model values, symmetry and bounds for TLC | model-checking |

### TenureAuthority

`dir` is the directory as processes see it. `onDisk` is the set of directory
states that a power failure may leave: every create, rename and unlink adds one,
and a directory sync leaves only the current one. A file whose bytes were not
synced is unreadable after a power failure. `pc`, `mem`, `req` and `tmp` are the
state of each process; `replies` and `receipts` remember what left the system.
`CreateTemp`, `SyncTemp`, `Rename` and `SyncDirectory` are the four durable steps
of `publish_atomic`. Errors of the store stop the owner and the process exits, so
they are `ProcessExit`, together with crashes and signals.

### ControllerTenure

`journal[c]` is the tenure transaction of the visible snapshot and `onDisk[c]`
the ones a power failure may leave. One run of the command is a path
`Start* -> Rename -> SyncDirectory -> Send -> ReceiveAnswer | ExchangeUncertain`.
The authority is an instance of `TenureLedger`, which `TenureAuthority` is shown
to implement. It authorises one writer and key only, so two stores stand for a
directory that was initialised again with the same keys.

### RuntimeApply

A request stands for its own digest and a tenure for its own proof digest.
`SubmitFresh` and `SubmitReplay` are `admit_envelope` followed by
`evaluate_writer_fence`, persisted together. `admitted` and `ready` hold values
in memory, so `Prepare` and `Activate` may come at any later time.

### RuntimeJournal and RuntimeReference

A journal is a record. A constructor `try_..._successor` is an operator that
returns the set of its results, empty where the code returns an error:
`Successor` keeps a result only if `validate` accepts it and the rule of its
transaction (`validate_...`) lets it follow the old one. The two are written
apart in the code too, and most of what can go wrong is that a constructor builds
what a rule refuses. An operation stands for its request, slice, nonce and
lineage; the loop domain and the card of a generation, always moved together, are
one resource; a census digest is the set it digests; an instant is its clock
generation and whether it lies past the deadline.

`RuntimeReference` has one action per commit and one per effect of the owner.
`host.pc` is where the process is, `host.token` what it has made. `Crash` is
possible before every step and stands for every owner, clock and store error that
ends the process too. `calls` remembers the `on_start` calls and `refused`
whether the journal refused a successor. A tenure or an admission may be refused
by design, so `Admit` does not set it. A commit is atomic here: how the store
makes it so is modelled in `TenureAuthority`, whose store is built the same way.

What the model shows besides its properties, all as the code has it: a runtime
whose recovery failed is not ready for any fresh request (`bootstrap_readiness`),
although its journal would admit a deactivation; after a crash between a tenure and the
admission made under it, that tenure is spent; a start that timed out after its
intent leaves a token, so the next start ends the process and is made by the
following one.

### Mailbox, LoopDomain, Dispatcher, PortBinding

`MailboxState` is written as operators on a record, one per method, so that
`Mailbox`, `LoopDomain` and `ComponentRuntime` drive the same definitions. An
offer expires, evicts or coalesces and admits in one operator, as in the code.
`Mailbox` adds the holders of in-flight tokens, who may drop one or return with
one that was abandoned. `LoopDomain` adds the permit ledger: `grants` and
`releases` are what callback owners hold, `leaked` what they dropped. Which
eligible mailbox is served is left open there and is the subject of `Dispatcher`,
whose only input is the set of eligible slots of a turn. `PortBinding` reduces a
mailbox to its lifecycle and its number of messages, and takes every epoch a
caller may pass as an input.

### ComponentRuntime

`pc` is the card callback that is awaited. Each future is two actions, the part
before the await and the part after it, and `DropFuture` is the caller letting go
in between. `owner` is the phase of `OwnedComponentLifecycle::run`: any calls
first, then exactly one shutdown.

### ServiceManager

Instants are ages in ticks, saturated one past the longest timeout, so time needs
no bound. A poll is one action: the frames it reads (at most
`MAX_FRAMES_PER_POLL`), the timeouts, the next probe and, on a failure, the
termination and the scheduled restart. A termination may take time and may fail;
an exit is scheduled from the clock reading taken before it, every other failure
from one taken after it, as in `poll_active`. `host` is the process: its endpoint
(`run_host_watchdog_endpoint`), both pipes, and whether it hangs or has exited.
While the host bootstraps, the probe written at spawn is as old as the spawn and
its timeout is `bootstrap_timeout`, so `BootstrapDeadlineExceeded` is never the
failure reported: `ControlUnresponsive` always comes first.

## Runs

| Run | Checks | Bounds |
|---|---|---|
| `tenure_power` | what was given out is never undone; every crash leaves a store that opens | 2 processes, 2 operations, 2 digests, 2 store ids, power failures |
| `tenure_crash` | refinement of `TenureLedger` | as `tenure_power`, crashes only |
| `controller` | ensure-once, commit before send, a first receipt is durable, a committed tenure is eventually reached | 2 stores, one of which may lose power, 2 operation ids, crashes |
| `runtime_apply` | replay ledgers, deadlines, fencing, operation records | requests of two writers, 2 clock generations |
| `runtime_reference` | the journal accepts what a later process makes of every crash; no repeated `on_start` unless the last one succeeded; the journal knows what runs; true lifecycle evidence | 5 requests of 3 tenures, 5 starts of the process, a crash and a deadline before every step |
| `runtime_restart` | expected violation, see Findings | 2 requests, 2 starts |
| `mailbox` | accounting, reported exits, oldest-live dispatch, losses only for an admitted message | 5 messages that collide in id and key, each overflow policy, 4 offers, time 0..3 |
| `loop_domain` | permit ledger and Control reserve, grants and in-flight messages in step, a selection starts, a stopped domain drains | 2 mailboxes, 2 permits of which 1 reserved, 3 offers, time 0..2 |
| `dispatcher` | eligible work is served, bursts yield, no starvation | 2 plans: 3 slots of unequal cost, weight and burst; 5 equal slots (direct rotation) |
| `port_binding` | one installation per epoch, no message left behind | 3 mailboxes, 4 assignments, 4 epochs |
| `component_runtime` | permits, fences and lifecycle in step over dropped futures; internal errors unreachable; the lifecycle task ends with nothing held | 2 mailboxes, 2 offers each, 2 drops, clock overflow |
| `service_manager` | one owned process, restart budget, protocol agreement; a host that keeps its timing is kept, one that failed is reaped or quarantined | timeouts of 2 and 3 ticks, window 4, 2 restarts, 2 generations, 2 frames in the pipe |

The type invariant of a module is checked as a conjunct of its first safety
invariant, or proved (`TenureAuthority`, `PortBinding`). The records of
`RuntimeJournal` have their type checked by `validate` at every commit.

Two processes are enough for every pairwise race on a store, since the lock and
the directory are the only shared state. Two records reach the capacity of the
ledger. Two operation ids are one more than an ensure-once store draws, and what
loses power is a separate store, so that the promises that hold only while power
does are checked of the other one. Five starts let a process crash in the middle
of reassembling what another one left in the middle of reassembling; the five
requests start a slice, deactivate it, start another over the empty head,
deactivate a runtime that has none, and ask for what is not admitted. Liveness
uses no symmetry. In the execution
plane two mailboxes are the least that contend for a permit, and the messages are
chosen to expire before, at and after each other. The restart window is longer
than two backoffs, so the ledger can be pruned, refilled and full within one
window. Deadlock is not checked where the system may stop: an idle store, a closed
component, a binding whose epochs are spent, a watchdog that has ended, a runtime
whose starts are spent.

**Fairness** (`FairSpec` of `ControllerTenure`): the operator repeats the command
until it succeeds (weak fairness of the starts), a step that is possible again and
again is not interrupted every time (strong fairness of commit, send and receive),
and the authority serves what it was sent. The command is one-shot and has no
retry of its own, so the first is an assumption about its operator.

`LoopDomain` assumes, of a domain that stopped accepting, that its owner keeps
dispatching while messages are queued and that grants that are kept are finished
and released; grants that are dropped are excused in the property. `Dispatcher`
assumes only that turns go on. `ComponentRuntime` assumes that the lifecycle task
is polled: its one shutdown call runs and the stop callback ends, which its budget
enforces. `ServiceManager` assumes that the loop of the watchdog binary polls (it
does every poll interval) and that time passes, both only while a failed host is
supervised; nothing is assumed about the host.

## Proofs

`TenureAuthorityProofs` proves, for any number of processes, operations and
records and with power failures, the invariants of `tenure_power`
(`ReturnedIsDurable`, `StoreStaysOpenable`), and that the store has one owner and
only valid snapshots. The inductive invariant adds to them
what each phase of a publication knows: the owner holds the lock, its memory is
the active snapshot until the rename, the successor extends it by one record, and
every state on the disk between rename and sync is the old or the new one.
`TenureLedgerProofs` proves, when power holds, that epochs are never reissued,
that the ledger only grows, and that the authority implements `TenureLedger` (the
rename is the step that appends).

`PortBindingProofs` proves the two invariants of `port_binding`, that at most one
route accepts, and that a retired route leaves a closed mailbox, for any mailboxes, assignments and largest
epoch, from the assumption that an assignment targets a mailbox. They are not
inductive alone: the invariant adds that epochs only grow and bound every route,
that a prepared route targets another mailbox than the active one, and that a
closed mailbox holds none of the binding's messages.

Only model-checked: everything about `ControllerTenure`, `RuntimeApply`,
`RuntimeReference`, `Mailbox`, `LoopDomain`, `Dispatcher`, `ComponentRuntime` and `ServiceManager`,
and liveness (with fairness and ENABLED), which is out of the prover's reach.

## Findings

* `runtime_restart`: a `OneSourceLoop` start over an `EmptyDeactivate` head that
  crashes after its resources were reserved can never be terminalized.
  `try_startup_interrupted_start_terminal_successor` records the tombstones and
  puts the census of all resources into `ExactZero`;
  `validate_exact_zero_commit_census` asks for the census the head was committed
  with. Reassembly fails, now and at every later start, although
  `run_runtime_restart_reassembly` promises that a post-intent reopen is
  terminalized or quarantined. `CommitsAreAccepted` holds with exactly this
  exception (`InterruptedOverEmptyHead`). The existing tests interrupt such a start
  before anything is reserved.

A limit of the stores, which the properties respect: a restarted process adopts
the visible snapshot without a directory sync. After a crash between rename and
sync, the authority may therefore replay a response, and the controller may send a
`Prepared` request, that a power failure can still take back. `ReturnedIsDurable`
speaks of issued responses, and `SentIsRecorded` of machines that keep their power.

## Not modelled, and the plan

In this order:

1. The controller journal: plan, apply, query and rollout transactions, the
   remaining commands, and the stopped migration.
2. The runtime store, the endpoint's bootstrap and query answers, and the runtime
   composed with the controller's apply and query exchanges.
3. Executor budget, thread and process domains with process liveness and the
   worker session; task registry and core service.
4. Planner and deck compiler as operators checked against reference definitions.

Proofs planned: `ControllerTenure` (ensure-once), `RuntimeApply` (fencing and
deadlines), the mailbox accounting and the permit ledger, `ServiceManager` (one
owned process, restart budget), then `RuntimeReference`.

Left out for good: byte codecs, signatures and digests (model values), path and
metadata validation, build-time scripts.
