# Formal model of the oracle price feeder / alarms dispatcher

TLA+ modules, TLC configurations and TLAPS proofs kept beside the source in
`src/`. What follows is the inventory of the system, the plan, and what is
modelled, checked and proved so far.

## 1. Inventory

### Components, their state and operations

| Component | Source | State | Operations |
|---|---|---|---|
| **Broadcaster loop** | `libraries/broadcaster/src/lib.rs` | the signer (exclusively locked, holds the sequence number), the channel receiver, `consecutive_errors: u8` | `run` (receive a package, broadcast it, pace), `broadcast_tx` (sign / broadcast / classify / retry loop), `simulate_and_sign_tx`, `broadcast_with_expiration`, `fetch_sequence_number` |
| Producer tasks | not under `src/` (spec §4.3) | one outstanding package, its feedback channel, its deadline | build a `TxPackage`, send it, await feedback or channel closure |
| Node / chain | external | the account's sequence number, the mempool | simulate, broadcast (code 0 / 32 / other / transport error), account query |
| Standalone alarms dispatcher | `alarms-dispatcher/src/main.rs` | its own signer and sequence number | poll loop over the price and time contracts, `dispatch_alarm` drain loop, `commit_tx` (simulate, sign with gas*11/10, `broadcast_commit`, `tx_confirmed`) |
| chain-comms interact | `chain-comms/src/interact/mod.rs` | the signer's sequence number | `simulate_tx` (rejects simulated gas above the limit), `commit_tx` (bumps the sequence unless DeliverTx is code 13 with zero gas), `commit_tx_with_gas_estimation` (u128 adjustment, u64 saturation), `calculate_fee` |
| ContractTx builder | `chain-comms/src/build_tx/mod.rs` | message list | `add_message`, `is_empty`, `commit` (serialize and sign) |
| Legacy broadcast helpers | `broadcast/src/broadcast.rs` | last signing timestamp, map of result senders | `sleep_between_txs`, `broadcast_and_send_back_tx_hash`, `send_back_tx_hash` |
| Feeder task id | `crates/services/market-data-feeder/src/task/id.rs` | DEX node client cache keyed by network | `dex_node_grpc_var` (network name to environment variable), `into_task` |
| Configuration, wallet, DEX types, errors, log writer | `libraries/supervisor/src/configuration.rs`, `src/cosmos/wallet.rs`, `libraries/dex/src/provider.rs`, `src/provider/base/provider.rs`, `src/errors.rs`, `alarms-dispatcher/src/log.rs` | none that changes at run time | environment reading, key derivation, type declarations |

### How they interact

Tasks hand work to the broadcaster through an unbounded multi-producer
channel of `TxPackage`s; the broadcaster is the only owner of the signer and
so the only writer of the sequence number. Each package carries a one-shot
feedback sender: the broadcaster sends the `TxResponse` on code 0 or another
nonzero code other than 32, and drops the package (closing the channel) when
its expiration fires. Code 32 and transport errors are retried inside the
broadcaster with the same package. The node is reached through remote calls
(simulate, broadcast, account query); its answer decides the sequence
bookkeeping.

The standalone alarms dispatcher is an older, self-contained binary: it owns
its signer directly and runs the poll/drain loop sequentially; every error is
fatal.

### What is hard

* The retry loop of `broadcast_tx` and the interplay of code 32, the error
  budget (`consecutive_errors` modulo 5) and the refetch: the local counter
  is corrected by guesses (bump on code 32) and only resynchronised by the
  budget.
* Unreliable answers: a transport error or an expiration can come after the
  node admitted the transaction; the node can also forget a transaction it
  admitted (mempool eviction), leaving the local counter ahead.
* Interleaving of tasks enqueueing, deadlines firing, and the single loop.
* Fatal paths (signing failure, failed refetch) in the middle of a package.
* Numeric edges of the gas and fee arithmetic (u64/u128, saturation, the
  overflow fallback), the pacing subtraction, and the byte-index scan of
  `dex_node_grpc_var`.

### Properties that make each component correct

* Broadcaster: the signer never gets ahead of the chain unless the node
  forgets a transaction; every package ends (feedback or closure) without
  relying on its deadline; the error budget refetches after five failures
  (spec P3); signed sequence numbers never decrease (spec P1).
* Alarms dispatcher: the local sequence number equals the chain's whenever
  the dispatcher is still running; a contract is left only after a
  non-full batch or an empty status.
* chain-comms: the sequence number is bumped exactly when the chain admitted
  the transaction; the adjusted gas never wraps and the fee never overflows.
* Legacy helpers: no pacing sleep longer than the margin; a result goes to
  the sender that asked.
* `dex_node_grpc_var`: equals a reference definition on all short names.

The `hazards` list of `PROJECT.json` records each hard spot at its line with
the properties that cover it.

## 2. Plan

Order: the transaction pipeline first (the core of the system), then the
other paths that touch a sequence number, then the pure algorithms.

1. **`Broadcaster`** (done): the loop, the tasks (from the spec) and the node
   as environment. `MCBroadcaster` instantiates it. Proofs in
   `BroadcasterProofs`.
2. **`AlarmsDispatcher`** (done): `dispatch_alarms` / `dispatch_alarm` /
   `commit_tx` of `alarms-dispatcher/src/main.rs` with two contracts whose
   pending-alarm counts grow and the node as environment. Proofs in
   `AlarmsDispatcherProofs`.
3. **`ChainCommsCommit`** (done): `simulate_tx`, `commit_tx`,
   `commit_tx_with_gas_estimation`; the conditional `tx_confirmed` against
   CheckTx/DeliverTx shapes. Proofs in `ChainCommsProofs`. `ContractTx`
   (message list, serialisation) is left for later.
4. **`GasArithmetic`** (done): `calculate_fee`, the gas adjustment and the
   11/10 factor as operators at a parametric width, checked against
   reference definitions over all inputs of a small width (`MCPureOperators`)
   and proved at every width (`GasArithmeticProofs`).
5. **`LegacyBroadcast`** (done): `sleep_and_broadcast_tx`,
   `sleep_between_txs`, `broadcast_and_send_back_tx_hash` and
   `send_back_tx_hash`. Proofs in `LegacyBroadcastProofs`.
6. **`DexNodeGrpcVar`** (done; TLC only, induction over data): the scan of
   `dex_node_grpc_var` on sequences of character classes, checked against
   the spec's definition; **`DexTaskCreation`** (done): `into_task` with its
   DEX node client cache, proved in `DexTaskCreationProofs`.
7. **`BroadcasterAbstract`** (done): what the broadcaster promises its
   tasks, with `Broadcaster` shown to implement it by a refinement mapping,
   checked by TLC and proved in TLAPS (`BroadcasterRefinementProofs`).
   The abstract view is the package service, not the sequence number: the
   number can be lowered by a refetch after an eviction (finding 2), so no
   monotone counter is refined.
8. **`AlarmsDispatcherAbstract`** (done): what the alarms dispatcher
   promises the chain, with `AlarmsDispatcher` shown to implement it,
   checked by TLC and proved in TLAPS (`AlarmsDispatcherProofs`).

## 3. Modules

### `Broadcaster.tla`

State (VARIABLES) and where it comes from:

| Variable | Code |
|---|---|
| `queue` | the unbounded channel of `TxPackage`s (a package named by its task) |
| `task`, `deadlinePassed`, `feedback` | the task side: waiting for its package, the package's `TimeBasedExpiration`, the feedback channel |
| `pc`, `current` | the control point of `Broadcast::run` / `broadcast_tx` and the package in hand |
| `signedSeq` | the sequence number inside the signed `raw_tx` |
| `response` | the outcome of `broadcast_with_expiration` |
| `sequence` | the signer's sequence number |
| `consecutiveErrors` | `Broadcast::consecutive_errors` |
| `chainSeq`, `faults`, `evictions` | the node's account sequence and the bounded fault budget |
| `issued` | packages enqueued (bounds the behaviour) |
| `failStreak` | history variable for spec P3: failed attempts since the last success or refetch |

Actions: `Receive` (run's `recv`), `SimulateAndSign` (simulate_and_sign_tx;
a signing error is fatal), `Send` (the node's answer or the expiration),
`ProcessTxResponse` (the `'process` block for a tx code, with its helpers
`IncrementsSequence`, `NextConsecutiveErrors`, `ErrorBudgetExhausted`, the
refetch and its failure, then retry on code 32 or feedback), 
`ProcessTransportError` (break out of `'process`, retry),
`ProcessExpired` (drop the package). Task actions `Enqueue`,
`DeadlinePasses`, `ReceiveFeedback` are modelled from the spec because the
task loop is not under `src/`. Environment: the answers inside `Send`, and
`Evict`. `Done` is the end of a behaviour: the process exited on a fatal
error, the tasks enqueued their last package and the channel is drained, or
the sequence number passed the model's bound `MaxSeq`.

The simulated gas and the fee are abstracted away: they do not influence the
sequence bookkeeping (the sync broadcast answers from CheckTx, before any
contract runs). Durations and logging are left out.

Node behaviour assumed: a transaction signed with the account's current
number is admitted (code 0); any other number gets code 32; independently of
the number the node may answer another error code (not admitted) or the call
may fail at the transport level, possibly after admission; an expiration may
also come after admission. Faults are bounded by `MaxFaults`, evictions by
`MaxEvictions`.

Fairness (`FairSpec`): weak fairness of every step of the loop and of each
task's reading of its feedback. The runtime is cooperative and every await
of the loop resumes (the node answers or the call fails), so the loop is
never stuck; a task blocked on its feedback receiver wakes when a value or a
closure arrives. Deadlines, new packages and evictions get no fairness, so
the liveness property cannot be satisfied by a deadline firing.

### `MCBroadcaster.tla`

Two tasks as model values and a symmetry set over them, used by the two
violation runs only: the `broadcaster` run checks liveness, where TLC's
symmetry reduction is not sound, and runs without it.

### Runs

| Run | cfg | Expect | Shows |
|---|---|---|---|
| broadcaster | `MCBroadcaster.cfg` | pass | `TypeOK`, `SeqNotAhead`, `FeedbackEventuallyReturns`, `ImplementsAbstract`, `SeqMonotonicUntilEviction` (spec P1 up to the first eviction) under `FairSpec` with 2 tasks, 3 packages, 2 faults, 1 eviction |
| broadcaster_error_budget | `MCBroadcaster_budget.cfg` | violation | spec P3 (`ErrorBudgetRefresh`) fails: 5 transport errors, no refetch |
| broadcaster_monotonic | `MCBroadcaster_monotonic.cfg` | violation | spec P1 (`SeqMonotonic`) fails after an eviction |
| pure_operators | `MCPureOperators.cfg` | pass | `AdjustedGasIsExact`, `FeeIsExact`, `MarginNeverLowers` on all 128 values of a 7-bit u64 with ratio 3/2 and price 127/3, and `GrpcVarMatchesReference`, `ScanTerminates` (the insertion loop ends) on every identifier of up to 5 ASCII characters over `a`, `A`, `-` |
| chain_comms_safety | `ChainCommsCommit.cfg` | pass | `TypeOK`, `AdmissionsTracked` over 5 calls, 2 RPC faults, every CheckTx/DeliverTx shape, a 4-bit u64 |
| chain_comms_accounting | `ChainCommsCommit_accounting.cfg` | violation | spec P2 (`SequenceAccounting`) fails: a CheckTx rejection with an empty DeliverTx bumps the counter |
| chain_comms_gas_limit | `ChainCommsCommit_gaslimit.cfg` | violation | spec P5 (`GasWithinLimit`) fails: the adjusted gas exceeds the hard limit |
| alarms_dispatcher | `AlarmsDispatcher.cfg` | pass | `TypeOK`, `SeqInSync`, `AlarmsEventuallyDispatched`, `ImplementsAbstract` (the refinement of `AlarmsDispatcherAbstract`) under weak fairness of the loop, batches of 2, 5 arrivals, every node outcome |
| grpc_var_panic | `MCPureOperators_panic.cfg` | violation | `NeverPanics` fails: an identifier starting with a two-byte character panics |
| dex_task_creation | `MCDexTaskCreation.cfg` | pass | `TasksShareNetworkClient`, `OneClientPerNetwork` with 3 protocols, 3 networks (one whose name panics), 2 failures |
| legacy_broadcast | `LegacyBroadcast.cfg` | pass | `PacingRespected` with 2 senders, 2 requests, margin 2, 5 instants, 1 fault |
| alarms_starvation | `AlarmsDispatcher_starvation.cfg` | violation | `EveryContractPolled` fails when price alarms keep arriving a batch at a time |

Bounds: 2 faults and an eviction let a transport error after admission, an
error code, a failed refetch or signing, and a forgotten admission happen in
one behaviour; 3 packages over two tasks let one task send a second package
while the other's waits, so that queue interleavings and a retry of one
task's package while the other waits occur. `SeqNotAhead` speaks of
behaviours without an eviction (`evictions = 0 =>`), so one run checks it
beside the liveness and refinement properties, which hold with evictions. A refetch needs five failures,
which code 32 streaks after an admission hidden by a transport error or an
eviction provide. TLC's coverage shows every action and every disjunct
firing in the passing runs, the refetch and its failure included. `MaxSeq`
is chosen above any sequence number the correct code can reach (chain
admissions plus at most four code-32 bumps), so `Done`'s bound branch is
only reached by a broken loop.

`pure_operators` enumerates every u64 of a 7-bit width; price 127 makes
`gas * price` exceed a u64 (the mutant that saturates at u64 width fails)
and a simulated gas of 12 in `ChainCommsCommit` (4-bit u64) reaches the u64 saturation
of the adjustment (12 * 3 / 2 = 18 > 15). Five calls with two faults let a
hidden admission, a code-32 catch-up, a code-13 rejection with either
DeliverTx shape and an admitted transaction that fails in DeliverTx occur in
one behaviour (3394 distinct states).

### Findings

* **Transport errors do not count toward the error budget**
  (`lib.rs:244`): the code leaves the `'process` block before
  `consecutive_errors` is touched, so a node failing at the transport level
  never triggers the refetch; spec §4.4 and P3 say they count.
* **The refetch can lower the sequence number** (`lib.rs:264`): after the
  node forgets an admitted transaction the local counter is ahead, code 32
  bumps it further for up to four attempts, and the refetch then lowers it;
  spec P1 (monotonic) does not hold on such a chain.
* **commit_tx bumps the counter after a rejection** (`interact/mod.rs:148`):
  `tx_confirmed` is skipped only when DeliverTx reads code 13 with zero gas;
  a CheckTx rejection answered with an empty DeliverTx (code 0) bumps the
  counter although the chain did not move, and chain-comms never refetches.
  Spec P2 says only code 0 and 32 move it.
* **The adjusted gas is not capped at the hard limit**
  (`interact/mod.rs:187`): the simulated (or fallback) gas is multiplied by
  the adjustment ratio and only saturated at `u64::MAX`; spec P5 says the
  signed gas limit never exceeds the hard limit.
* **The drain loop can starve the other contract**
  (`alarms-dispatcher/src/main.rs:229`): the loop re-dispatches after every
  full batch and the contracts are served one after the other, so alarms of
  the price contract that become due a batch at a time keep the time
  contract from ever being queried. Spec §1 says both are polled
  periodically (the newer runtime gives each contract its own task).

* **`dex_node_grpc_var` panics on a multi-byte first character**
  (`task/id.rs:40`): the search starts with the byte slice `network[1..]`,
  which is not a character boundary when the first character is two bytes
  long (`é…`); spec §6 defines the variable for every network identifier,
  and the function's other bad input, the empty identifier, returns `Err`.

### `DexNodeGrpcVar.tla`, `MCPureOperators.tla`

Operators only. A string is a sequence of character classes (`"a"` ASCII
lowercase, `"A"` ASCII uppercase, `"-"`, `"e"` a two-byte letter) and is
indexed by bytes as the code does: `Width`, `ByteLen`, `Offset` and
`CharBoundaries` say where a slice may start. `Scan` is the `while let` loop
(a slice off a boundary panics; `find` gives the first uppercase letter at
or after the search index; `insert` and resume two bytes further), `GrpcVar`
the whole function (empty identifier `Err`, uppercase, `-` to `_`,
`VAR_SUFFIX`). `GrpcVarReference` is spec §6 written with `FlattenSeq`.
`MCPureOperators` adds to the gas of `MCGasArithmetic` a second constant
variable, the identifier, ranging over `SeqOf(Alphabet, MaxLen)`. `Scan` iterates the loop body `ScanStep` as a
recursive function over `Nat` (no `RECURSIVE` operator), `Len(s)+1` times: each
insertion consumes at least one uppercase letter of the original identifier
and the last iteration finds none, so a correct loop is always `done` by then.
`ScanTerminates` checks that it is; with a resume index one byte short
(`ResumeIndexOffByOne`, a plausible bug of `search_index = index + 1`) the loop
finds the same letter again and never ends. Length 5 over three classes (364
identifiers) covers adjacent uppercase letters, a leading uppercase letter,
dashes and repeated insertions; the panic run adds the two-byte class.

### `DexTaskCreation.tla`, `MCDexTaskCreation.tla`

`IntoTask(p)` is `Id::into_task` for one protocol, with every `?` as an
early return (`Fail`: the admin query, a missing variable, the connection,
`Oracle::new`), the `Entry` match on the client cache (`Cached`), the panic
of `dex_node_grpc_var`, the insertion of a fresh client and `BuildTask`.
Tasks are created one after another (the creation context is borrowed
mutably), so each call is one step. The admin contract's answers and the
set environment variables are chosen in `Init`. Three protocols over three
networks (two sharing nothing, one whose name panics) and two failures let
a failed connection or a failed `Oracle::new` fall between two protocols of
one network. `TasksShareNetworkClient`: every task holds a client connected
for its own network, and tasks of one network share one client.

### `LegacyBroadcast.tla`

The legacy helpers with their caller (not in the repository) as
environment: `Call(r, t)` is the entry of `sleep_and_broadcast_tx` with a
last signing instant `t` (any earlier instant), `Wake` the end of the
sleep, `BroadcastCommit` `broadcast_commit` and `send_back_tx_hash`. `Tick`
moves discrete time; `DropReceiver` is a generator dropping its receiver.
`PacingRespected`: a broadcast happens no earlier than the margin after the
signing (the saturating subtraction of line 45). What `send_back_tx_hash`
does with a result (a live receiver gets it, otherwise a poll task watches
the hash and a dropped receiver is reported) is the two branches of one test
of the code, so it is modelled but no property is stated about it: any
statement of "followed up exactly once" would hold by the shape of that
test. Margin 2 and 5 instants give calls with no wait, a
partial wait and a full wait; two senders with one registered and one not,
a receiver dropped before or after the broadcast, and a fault occur.

### `BroadcasterAbstract.tla` and the refinement

`BroadcasterAbstract` is the service the tasks see: a FIFO queue, one held
package, `Finish` of the held package with `"ok"`, `"codeErr"` or, after its
deadline, `"closed"`, only for a waiting task without unread feedback, and
`Halt`. `Broadcaster` maps onto it by `held <- HeldPackage` (the current
package while the loop signs, sends or processes it) and `halted <- (pc =
"failed")`; everything the node does (signing, code 32 retries, refetch,
evictions) is a stutter. The run `broadcaster` checks
`ImplementsAbstract` (`Abstract!Spec`).

### Proofs (`BroadcasterRefinementProofs.tla`)

* `PackageInvariant`: `Spec => []PackageInv`, where `PackageInv` says that
  the queued and held packages belong to waiting tasks with no unread
  feedback, that the channel holds each task at most once and never the held
  one, that an idle task has neither feedback nor a queued package, and that
  an expired answer comes only after the deadline passed. It
  is what makes the `Finish` steps legal abstract steps.
* `Refinement`: `Spec => ImplementsAbstract`. `Init` maps to the abstract
  `Init`; `RefinementStep` shows that under `TypeOK /\ PackageInv` every step
  maps to an abstract step or a stutter, one case per action
  (`Receive` is `Take`, a handed-back response is `Answer`, `ProcessExpired`
  is `Drop`, a fatal error is `Halt`).

### `GasArithmetic.tla` and `MCGasArithmetic.tla`

Pure operators, one per computation: `AdjustedGasLimit`
(`interact/mod.rs:187-193`: `u128` `checked_mul`, `checked_div`,
`u64::try_from(..).unwrap_or(u64::MAX)`, and `unwrap_or(tx_gas_limit)` when
the product overflows), `FeeAmount` (`calculate_fee`, saturating `u128`
arithmetic) and `GasWithMargin` (`alarms-dispatcher/src/main.rs`:
`gas_used.checked_mul(11)`, `/ 10`, `unwrap_or(gas_used)`). The width is a
constant: `U64Bound` is `u64::MAX + 1` of the model (a power of two), a
`u128` ranges over `0..U64Bound*U64Bound-1`. Each overflow branch is a
comparison with the maximum of its type, so it is reached on small numbers.
`AdjustedGasReference` and `FeeReference` say what the code means to
compute. `MCGasArithmetic` has one variable, the gas, ranging over every
u64 of the model; its properties compare the code's operators with the
references. `GasArithmeticProofs` proves them about it; `MCPureOperators`
extends it and checks them with TLC.

### `AlarmsDispatcher.tla`

| Variable | Code |
|---|---|
| `pc`, `idx` | the control point of `dispatch_alarms` (for loop over `ContractOrder` = price, time; the sleep) and of `dispatch_alarm`; `"stopped"` is the process having returned `Err` from `main` |
| `sequence` | the signer's sequence number, initialised from the fetched account (`prepare_rpc`) |
| `chainSeq` | the account's sequence number on the node |
| `pending` | due alarms held by each contract (environment) |
| `arrivals` | alarms arrived so far, in the bounded runs |

Actions: `QueryStatus` (`query_status` and the `remaining_for_dispatch`
test; a failed query ends the process), `CommitTx` (the whole of
`commit_tx` and the drain test after it: simulate, sign, `broadcast_commit`,
`tx_confirmed` on every answer, decode the `DispatchResponse`, loop again
after `max_alarms` dispatched, else the next contract), `Sleep` (the poll
period), `Arrive(c)` (environment), `Stopped` (the exited process). The node
admits the account's number, may reject, may fail the transaction in
DeliverTx (the simulation is stale when alarms arrived meanwhile, so the gas
can run out) and may fail the RPC call after admission. `CommitTx` is one
step: between its awaits only alarms can arrive, and an arrival changes
neither the outcome nor the bookkeeping of the call in progress.

`AlarmsEventuallyDispatched` is about the dispatcher's loop structure: with
finitely many arrivals, the for loop, the drain loop and the sleep come back
to every contract until its alarms are gone. It is what a `return` in the
for loop after the first contract would break (the mutant
`NextContractBreaks`). With arrivals bounded it cannot show the starvation
of the drain loop; that is the violation run `alarms_starvation`. The model
has one dispatcher, so alarms leave a contract only through its own
transactions and the status read by `query_status` is still true when
`commit_tx` runs; a second dispatcher instance is not in the repository.

### `AlarmsDispatcherAbstract.tla` and the refinement

The service the dispatcher offers the chain, with the for loop, the status
queries, the poll period and the signer abstracted away. Variables
`running`, `chainSeq`, `pending`, `arrivals`; actions `Dispatch(c)` (an
admitted transaction moves the account's sequence number and dispatches a
batch of 1 to `MaxAlarmsGroup` due alarms of `c`; the dispatcher goes on),
`Burn` (an admitted transaction whose result the dispatcher does not learn;
it ends), `Halt` (the process ends without a transaction), `Arrive(c)`.
`AlarmsDispatcher` maps onto it by `running <- (pc # "stopped")`; queries,
the sleep and the for loop are stutters. The run `alarms_dispatcher` checks
`ImplementsAbstract`. It would fail if a DispatchAlarms were committed for a
contract with nothing due, or if the loop went on after a transaction that
failed in DeliverTx (the mutant `ContinuesOnAnyAnswer`).

Sequence numbers wrap at `SeqMod`: they are only compared for equality and
never differ by more than one, so the wrap loses nothing, and it keeps the
unbounded-arrivals run finite. Fairness: weak fairness of the dispatcher
(every await completes, the sleep ends); arrivals get none.

### `ChainCommsCommit.tla`

The caller of `commit_tx_with_gas_estimation`, one call after another.
`SimulateTx` is `simulate_tx` and the start of the estimation: the node
reports a gas from `SimulatedGas`, or the simulation fails, or its gas
exceeds `GasLimit` (`mod.rs:119`); the last two use `FallbackGas`; the result
goes through `AdjustedGasLimit`. `CommitTx` is `commit_tx`: sign with the
current sequence number, `broadcast_commit`, and `tx_confirmed` (bump the
sequence number) unless DeliverTx is code 13 with zero gas (`Confirms`). The
node as environment: CheckTx admits the account's current number (code 0),
rejects another with code 32, may reject any with code 13 or another code;
after a rejection the DeliverTx part is empty (code 0, no gas) or repeats the
CheckTx code with no gas, both shapes being possible depending on the node;
an admitted transaction consumes gas in DeliverTx and may fail there. A
failed RPC call (or a failed fee computation or signing) returns `Err`
without touching the signer, possibly after admission (bounded by
`MaxFaults`). The history variables `hidden` (admissions behind a failed
call), `checkCode` and `signedGas` exist only for the properties. `Done` ends
a behaviour after `MaxCalls` calls.

### Proofs (`BroadcasterProofs.tla`)

* `TypeCorrect`: `Spec => []TypeOK`, one step per action.
* `SeqNotAheadInvariant`: `Spec => []SeqNotAhead`, for every set of tasks and
  every bound. `SeqNotAhead` is not inductive by itself: a `Send` answered
  with code 0 moves the chain, and the following `ProcessTxResponse` bumps
  the local counter; in between the invariant must know that the bump is
  still allowed. The strengthening `SeqNotAheadInductive` adds (under
  `evictions = 0`) that between signing and processing the signed number is
  the local one, and that a response that bumps the counter (code 0 or 32)
  is only processed while the local counter is strictly below the chain's.
  TLC checked it as an invariant before it was proved. The lemma
  `SeqNotAheadStep` proves the inductive step, one case per action.
* `SeqMonotonicBeforeEviction`: `Spec => SeqMonotonicUntilEviction`, the
  action property that, until the first eviction, no signing step lowers
  the signed sequence number. It rests on `SignedNotAbove` (under
  `evictions = 0` the last signed number is not above the local counter,
  checked by TLC first) and on `SeqNotAhead`: the refetch after code 32 takes
  the chain's number, which is never below the local one. This rests on an
  assumption about the node: the model's refetch reads `chainSeq`, the number
  after every admitted transaction, as a node whose account query reflects
  its mempool does. A node that answers from committed state only could
  return a lower number while admitted transactions are still pending, and
  neither the property nor the theorem covers that case.

### Proofs (`AlarmsDispatcherProofs.tla`)

* `TypeCorrect`: `Spec => []TypeOK`, with lemmas on `Confirmed` (stays in
  range), `DispatchedCount` (at most what the contract holds) and the index
  of the for loop.
* `SeqInSyncInvariant`: `Spec => []SeqInSync`. `SeqInSync` is inductive by
  itself (`SeqInSyncStep`): every answered broadcast bumps the signer, and
  in each case where the chain does not move with it (rejection), or moves
  without it (admission behind a failed call), the process stops in the
  same step, because a rejected or failed transaction carries no deliver
  data to decode.
* `Refinement`: `Spec => ImplementsAbstract`. It rests on `CommitHasWork`
  (`pc = "commit"` implies that the contract being served has alarms due),
  inductive relative to `TypeOK` (`CommitHasWorkStep`): the commit follows a
  status with alarms remaining, and only the dispatcher's own transactions
  remove alarms. TLC checked it on the `alarms_dispatcher` instance first.
  `RefinementStep` maps each step, one case per action and, in `CommitTx`,
  per outcome: an executed transaction is `Dispatch` (the lemma
  `DispatchedBatch` bounds the batch), a DeliverTx failure or an admission
  behind a failed call is `Burn`, a rejection or any earlier failure is
  `Halt`.

### Proofs (`ChainCommsProofs.tla`, `GasArithmeticProofs.tla`)

* `ChainCommsProofs.TypeCorrect`: `Spec => []TypeOK` at every width; it rests
  on the lemma `AdjustedGasIsU64` (the adjustment is always a u64: the
  overflow fallback returns a u64, the quotient of naturals is natural, and
  the saturation caps it).
* `AdmissionsTrackedInvariant`: `Spec => []AdmissionsTracked`. The invariant
  is inductive relative to `TypeOK` (`AdmissionsTrackedStep`): an admitted
  transaction consumed gas, so `Confirms` holds and the counter moves with
  the chain; an admission behind a failed call moves `hidden`.
* `GasArithmeticProofs`: `AdjustedGasExact`, `FeeExact`,
  `MarginNeverLowersAlways`, each for every width and ratio. The argument is
  `ProductFitsU128`: `(B-1)*(B-1) <= B*B-1`, so the product of two u64 values
  never overflows a u128, which makes `unwrap_or(tx_gas_limit)` dead code and
  the fee's saturation unreachable.

The provers know no facts about `2^n`: the assumption that `U64Bound` is a
power of two is used by TLC only, and the proofs use its first conjunct
(`U64Bound` is a natural number above one), so they hold for any such bound.

### Proofs (`LegacyBroadcastProofs.tla`)

* `TypeCorrect`: `Spec => []TypeOK`, one step per action; the broadcast
  commit splits into the RPC fault and one case per returned code.
* `PacingRespectedInvariant`: `Spec => []PacingRespected`, through
  `PacingInv`, which adds that a sleeping call wakes exactly `Margin` after
  the signing instant; the lemma `TimeLeftFacts` states what the saturating
  `margin - elapsed` of `sleep_between_txs` returns (in `0..margin`, zero
  exactly when the margin has passed). `ResultOfFacts` (the result a code
  maps to) serves the type proof.

### Proofs (`DexTaskCreationProofs.tla`)

* `TypeCorrect`: `Spec => []TypeOK`.
* `TasksShareNetworkClientInvariant`: `Spec => []TasksShareNetworkClient`,
  through `ClientInv = CacheSound /\ TaskCached`: a cached client was
  connected for the network it is cached under, and a created task holds the
  client cached for its network. `TasksShareNetworkClient` alone is not
  inductive: it says nothing of a cache entry without a task, which the next
  task of that network picks up. The lemma `StepShapes` reduces every step to
  three shapes (nothing moves, a task from the cache, a new client), so the
  inductive step `ClientInvStep` has three cases; the name that
  `dex_node_grpc_var` computes is never expanded.
* `OneClientPerNetworkInvariant`: `Spec => []OneClientPerNetwork`, through
  `ClientCached` (every connected client is the one cached for its network;
  checked by TLC first). Its step `ClientCachedStep` rests on the vacant
  entry of a new connection: an older client of that network would be
  cached there.

Only model-checked: `DexNodeGrpcVar` and its users (`GrpcVarMatchesReference`
and `ScanTerminates` speak of what the loop computes for every identifier,
which is induction over data and beyond the installed provers), the liveness properties (TLAPS does not handle liveness or
ENABLED here), and the violation runs.

Not modelled: the task loop's price queries and oracle messages (I/O);
the simulated gas and the fee inside `Broadcaster` (no influence on the
sequence bookkeeping; the arithmetic is `GasArithmetic`); the `ContractTx`
builder (value construction and protobuf encoding; its one control path, an
`Err` before anything is broadcast, is `ChainCommsCommit`'s failed
`CommitTx`); the caller of the legacy broadcast helpers and what it does
with a request handed back after an `Err` (not in the repository); the
admin and oracle queries of `into_task` (I/O, present only as failures); configuration reading, key derivation, the DEX type declarations, the
error types and the log writer (no state that changes at run time);
durations and logging.
