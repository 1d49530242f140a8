# TokenFuse: TLA+ models, checks and proofs

This directory models the repository's gateway, its replicated ledger and its
hosted control plane, model-checks them with TLC on small instances and proves
with TLAPS, for every value of their parameters, what they promise about money,
crashes, secrets and approvals.
Definitions keep the source's names where TLA+ allows; `PROJECT.json` maps each
one to the lines it stands for.

## 1. The system

The program is an HTTP gateway between agents and LLM providers. A request
belongs to a *run* (`x-fuse-run-id`), may name a parent run, and declares a
budget. Before it goes upstream the gateway *reserves* an estimate against the
run, every ancestor of the run and the business unit; after the response it
*settles* the actual cost. On its way a request passes gates: client keys and
identity, kill switch, DLP, semantic cache, limits and loop detection, WASM policy,
Wardryx decision, budgets, and on the way back the taint firewall. A hosted
Cloud receives telemetry and sends back kills and budget overrides; an optional
raft cluster replicates the run ledger; an MCP broker gates tool calls.

| component | source | state | module |
|---|---|---|---|
| run budget ledger | `core/src/ledger.rs` | run -> budget, reserved, spent, steps, parent, under one mutex | `LedgerOps`, `Ledger` |
| unit budget ledger | `gateway/src/unitledger.rs` | unit -> month window, reserved, spent; Cloud caps under a lock of their own | `UnitOps`, `UnitLedger` |
| request path | `gateway/src/proxy.rs`, `settle.rs` | one task per request: budget read, both reservations, recorded decisions | `RequestPath` |
| client keys, identity map | `gateway/src/clientkeys.rs`, `identitymap.rs`, `keystats.rs`, `keysreport.rs` | two documents, counters per key, a cached report | `Identity`, `KeysReport` |
| runaway detection | `core/src/loops.rs`, `breaker.rs`, `policy.rs` | a run's input history | `Runaway` |
| semantic cache | `core/src/cache.rs` | entries per partition with text, age | `SemanticCache` |
| Wardryx hook | `gateway/src/wardryx.rs` | decisions with their time | `Wardryx` |
| taint firewall, WASM policy input | `core/src/taint.rs`, `gateway/src/firewall.rs`, `wasmpolicy.rs` | labels per run | `Firewall` |
| router, prices, metering | `gateway/src/router.rs`, `pricebook.rs`, `estimate.rs`, `provider.rs` | rules; a buffered response | `Router`, `Prices`, `StreamUsage` |
| MCP broker and scan | `gateway/src/mcpbroker.rs`, `mcpclient.rs`, `mcpcli.rs`, `core/src/mcp*.rs`, `secretbroker.rs` | calls under way, pinned tools; a lock file | `McpBroker`, `McpScan` |
| replicated ledger | `cluster/src/types.rs`, `server.rs`, `gateway/src/raft_ledger.rs` | a replicated `LedgerState` | `RaftLedger`, `ClusterRouting` |
| durable raft log | `cluster/src/redbstore.rs` | redb tables: log, vote, applied state, snapshot | `RaftStorage` |
| trace and telemetry | `gateway/src/sink.rs`, `cloudsink.rs` | buffers, Parquet segments, batches in flight | `Telemetry`, `CloudPollers` |
| Cloud store | `cloud/src/store.rs`, `main.rs` | runs, totals, months, savings, series, incidents, budgets, kills, audit; a JSON file | `CloudStore`, `CloudPersist` |
| Cloud access and push | `cloud/src/http.rs`, `oidc.rs`, `devices.rs`, `push.rs` | devices, pairing codes, nonces, broadcast receivers | `CloudAuth`, `CloudPush` |
| audit trail, event export, evidence | `core/src/audit.rs`, `agent_event.rs`, `compliance.rs`, `cloud/src/audit_sign.rs`, `replay.rs` | chained records | `AuditChain`, `EventLog`, `Compliance` |
| reports over the trace, calendar | `gateway/src/focusexport.rs`, `core/src/outcomes.rs`, `backtest.rs`, `timefmt.rs` | recorded rows | `Economics`, `CivilDate` |

How they interact: the request path calls the two ledgers directly, one lock per
call; the pollers write `AppState.killed`, `cloud_budgets` and the unit overrides
between any two steps of a request; a streamed response is settled by the
`SettleGuard` from the body's task, possibly from its `Drop`; with a cluster the
run ledger's calls become raft proposals whose answers can be lost; settled calls
are recorded into the trace and posted to the Cloud, whose store feeds incidents,
pushes, the event stream and the reports.

What is hard about it:

- a request is a long sequence of short critical sections, so everything it read
  (budget, step count, kill flag, cap, labels, cached decision) may be stale when
  it is used;
- a reservation outlives the function that took it, and must be given back once
  on every way out: gates, refusals, upstream errors, streams that break off,
  clients that leave;
- `settle` recomputes which ancestors to release from the ledger as it is then;
- a month may end between a unit's reserve and its settle, or between reading the
  clock and taking the lock;
- answers, settles, telemetry batches, polls and broadcast events can be lost,
  delayed or reordered;
- the durable log, the Cloud's snapshot, the trace and the event file are written in
  several steps, and a process may die between any two;
- every map of the Cloud is capped, and what a cap evicts must not change totals.

`PROJECT.json` lists these as hazards, each at the line where it bites, with the
properties that would catch it going wrong.

## 2. Modules

Every component has one module (its operations as actions or, where several modules
use them, as operators); section 1's table says which. In each, properties follow
the specification.

- `LedgerOps` and `UnitOps` are the two ledgers as operators on a value. `Ledger`,
  `RequestPath` and `RaftLedger` all use `LedgerOps`, so what the handler and the
  cluster are checked against is the ledger the proofs are about. `Tally` is the sum
  the accounting invariants are stated with.
- `RaftLedger` contains the refinement: with the mapping given there (committed
  state machine as `ledger`, what the log says of each call as `call`),
  `ImplementsLedger` states that it implements `Ledger`'s specification.
- `Router` and `StreamUsage` use `Prices`.
- `GatewayParts` puts `UnitLedger`, `Wardryx`, `Firewall`, `McpBroker`, `KeysReport`,
  `SemanticCache` and `Identity` side by side, `ClusterParts` the modules `RaftLedger`,
  `RaftStorage`, `ClusterRouting` and `EventLog`, `CloudParts` the modules `CloudPersist`,
  `Telemetry`, `CloudAuth` and `Compliance`. The first is extended; the others are
  instantiated under short names (`Hook`, `Wall`, `Broker`, `KeyUse`, `Cached`, `Keyed`;
  `Disk`, `Routing`, `Log`; `Sink`, `Auth`, `Evidence`) with variables of their own. There
  the properties of the parts are stated once, for the runs that check them and the
  theorems that prove them.
- `MCLedger`, `MCRequestPath`, `MCGateway`, `MCCluster`, `MCCloud` and `MCProgress` give the
  instances; section 3 explains how they hold several.
- `Ledger_proofs`, `RequestPath_proofs` and `RaftLedger_proofs` hold the theorems about
  the modules they are named after; `Gateway_proofs`, `Cluster_proofs` and `Cloud_proofs`
  those about the parts in `GatewayParts`, `ClusterParts` and `CloudParts`. What several of
  them need is proved in `Tally` and `LedgerOps` (section 5).

### Correspondence of RequestPath with the handler

`call[c].at` names the access to shared state the task makes next:

| place | action | code |
|---|---|---|
| `idle` | `Arrive` | headers parsed, Cloud budget looked up (`proxy.rs` 172-209); no run id means pass-through |
| `open` | `OpenStep` | `open_run` |
| `kill` | `IdentityMismatch`, `KillCheck` | identity check and kill switch |
| `screen` | `Screen` | DLP and the semantic cache |
| `snapshot`, `policy` | `TakeSnapshot`, `PolicyGate` | `snapshot`, then policy limits, loops, WASM, Wardryx |
| `unit` | `UnitGate` | unit cap, checked or not |
| `reserve`, `refund` | `RunGate`, `RunGateUnchecked`, `Refund` | run budget, and the unit's release when it refuses |
| `send` | `Send`, `UpstreamFails` | `provider.send` |
| `collect` | `Collect`, `UpstreamFails` | the buffered body |
| `release` | `ReleaseUnit` | second half of an error path |
| `stream`, `settle` | `StreamEnds`, `GuardSettle` | the body's end or the guard's `Drop` |
| `settle_unit`, `drop` | `FinishSettle`, `Withhold`, `Finish` | the unit's settle, the record, the firewall, the guard's `Drop` |

`Cancel` is a client that leaves while the handler waits for the PDP, for
`provider.send` or for the buffered body: the future is dropped there.

### Abstractions

- *Money* is an unbounded natural; the code's `i64` microdollars are not wrapped,
  except in `CloudStore`, where additions saturate at `MaxMoney`. Prices are in
  thousandths of a dollar per million tokens, which keeps products in TLC's range.
- *Texts* are classes or short sequences: an agent id is a sequence of segments, a
  prompt a sequence of words, an MCP body a sequence of tokens by kind, a response
  body a sequence of lines of which every byte can be a chunk's end. In
  `RequestPath` what a gate concludes from text is a free choice, its effect on
  control is kept; the gates have modules of their own.
- *Consensus* is openraft's: `RaftLedger` has one committed log which nodes apply at
  their own pace, `RaftStorage` the storage calls openraft makes with the guards it
  promises, `ClusterRouting` its elections. tokio's broadcast channel, the Wardryx
  service, the upstream and wasmtime are external in the same way.
- *Cryptography* is perfect: digests are injective, signatures cannot be made
  without their key.
- *Time* is a counter with the code's windows and lifetimes as small numbers. In `EventLog` the
  wall clock may read anything, so events tie or go back. In
  `CivilDate` an instant is a day and its milliseconds, and the calendar it is
  compared with is counted one day at a time. In `Economics` a row's time is its
  position.
- Shadow and warn differ only in what they log: both are `Mode = "shadow"`.
- `RequestPath` has one month and fixed unit overrides, which `UnitLedger` varies; its
  instances have no run tree, which `Ledger`'s instances and the theorems about
  `RequestPath` cover. A request is counted at every level of its run's chain
  (`Holds`, `SpendReconciles`), and so is a call of `RaftLedger` (`InFlight`,
  `FailedOpen`). One org is modelled in the Cloud's store: orgs share
  nothing but the lock.
- `close_run` is left out: nothing in the program calls it.
- Variables called history in the modules record the past for a property; no guard
  of an action reads them.

## 3. Runs

### How an MC module holds several instances

Except `MCLedger`, each MC module runs several *parts*. `part`, chosen from the
constant `Parts` in the first state, says which one runs; the others stand still. The
parts that a `...Parts` module holds have variables of their own; where only safety is
checked, the other parts share the variables `s1`, `s2`, ... (an unused one is 0). A part
that stands still stays in one initial state, so the state space is the
disjoint union of the parts' and not their product. In `MCProgress`, where liveness
is checked, every part has variables of its own and a property of a part that
stands still holds of its initial state. A part runs alone with, say,
`Parts = {"scan"}`. A property named after a part's modules conjoins the invariants
stated there; TLC's report of a violation names the part in the first state.

### Passing runs

| run | part | instance | shows |
|---|---|---|---|
| `ledger_races` | | 3 calls of 2 runs, or 2 of a line of 3 runs; budgets 1 and 3, amounts 1 and 2, chain limit 2 | reserved and spent are the outstanding and settled money, ceilings hold, steps are distinct |
| `request_path` | `enforce` | 2 requests of 2 runs, 1 capped unit, kills, a Cloud budget, clients that leave at any await | `TypeOK`, `HeadroomAccounted`, `SpendReconciles`, `KilledNeverForwarded` on every way out |
| | `loops` | 2 agents, windows shorter than the conversations, history of 4 | `RunawayContained` |
| | `routes` | the shipped price book and two rule files, 1152 requests | `RoutedAndPriced` |
| | `metering` | 5 bodies cut into chunks of up to 4 bytes, a cap of 11 | `ResponsesMetered` |
| | `dates` | every day from 1899-12-31 to 2101-01-01 | `CalendarAgrees` |
| | `reports` | 3 overlapping calls of 2 runs, a restart, 2 policies | `ReportsReconcile` |
| | `scan` | 2 scans, 8 kinds of reply, 7 sets of options | `ScanHonest` |
| `gateway` | `units` | 3 calls, 2 months, cap 3, override 1 set and lifted in the first month | `TypeOK`, `UnitBooks`, `UnitCapCeiling` |
| | `wardryx` | 2 callers, 3 policies, slow answers and outages | `VerdictsCurrent` |
| | `firewall` | 3 overlapping calls of 2 runs, all modes | `TaintGates` |
| | `broker` | 2 overlapping calls, 5 configurations, 3 tool lists, a vault with a secret that no scanner knows, servers that answer on their own account, events that fail | `BrokeredCallsAccounted` |
| | `keys` | 2 overlapping calls with no row, one or two, 2 readers, slow and failing scans, a restart | `KeyReportsCurrent` |
| | `cache` | 7 questions, partitions of 2, lifetime 1 | `CacheHonest` |
| | `identity` | 8 documents, 2 callers, a restart | `CallsAttributed` |
| `cluster` | `outage` | 3 calls of one run, requests and answers lost | `OutageContained` |
| | `storage` | 2 log entries of 3 kinds, 2 crashes anywhere | `CrashSafe` |
| | `log` | 3 log entries without membership changes, a crash anywhere | `TrailsIntact` (`CrashSafe` of this log) |
| | `routing` | 3 nodes, one joined later and without token | `ReportedIsTrue` (definite errors) |
| | `events` | 2 emitters, 4 events at one moment, 2 failures that leave nothing of their line | `ReportedIsTrue` (one chain of what was written) |
| | `torn` | 3 events, failures that tear lines, a clock that ties or goes back | `TrailsIntact` (replay in order) |
| | `reads` | 2 nodes, either the leader | `AcknowledgedIsRead` |
| | `audit` | 2 entries, separators inside fields, 2 edits of a copy | `TrailsIntact` (manifests) |
| `cloud` | `snapshots` | 3 mutations, a failing save, a crash | `SnapshotSound` |
| | `spend` | 3 rows of 3 runs, every cap at 1 or 2, reloads of a snapshot | `RollupsExact`, `AlertsSurvive` |
| | `incidents` | 4 rows in time, late or unstamped, thresholds of 2; 2 trackers and 2 incidents kept; an operation: a finding under a key of the plane's own, a push, a restart | `IncidentsJustified` |
| | `pushes` | 3 rows and 3 operations: pushes, incidents evicted and opened again, findings, restarts from a snapshot that may be old | `IncidentsJustified` |
| | `nonces`, `actors` | 3 signed requests with 2 nonces kept; 5 tokens, 2 keys, 2 devices | `OperatorsEntitled` |
| | `telemetry` | 2 handlers, 4 records, batches of 2, 2 processes, a disk that fails | `RecordsKept` |
| | `evidence` | 2 events, an audit trail that may be broken | `EvidenceHonest` |
| `progress` | `cluster` | 3 calls of a run and its sub-agent's | `ImplementsLedger`, `ClusterAnswers` |
| | `shadow` | 2 calls in shadow mode, clients leave in mid-stream | `ReservationsReleased`, and nothing is stranded |
| | `routing` | 2 nodes, 3 terms | `ClusterAnswers` |
| | `autosave`, `pollers`, `push`, `stream` | 2 changes and a crash; 1 gateway, a failing poll or crash; a bus of 3 and a bus of 1 event | `ChangesArrive` |

*Why these bounds.* Two calls suffice for a race, and a third for a race with a
settled or refused bystander. Amounts 1 and 2 make estimate and actual cost
differ in both directions; budgets 1 and 3 make one call fit, two fit and two not
fit. Two runs give a leaf and a parent, three with a chain limit of two a level
that reserve and settle must both cut off. Every cap, window and lifetime is
smaller than what the instance's inputs can fill, so eviction, expiry and lag
happen. One crash gives a crash between any two steps, and the recovery after
it; a second one, in the raft storage, a crash during the recovery. The
calendar's range holds all cases of the Gregorian leap rule. The interesting
states are reached: each property is shown to fail under a plausible bug in the
code (section 4). Symmetry is used in `MCLedger`, between the two runs that it does
not name, and in `MCGateway`, between the two callers or readers; no liveness is checked
there. What else is interchangeable is
numbered in the order it begins: calls (`InOrder`), codes, devices, runs that are
changed (`ManyActors`, `R1First`). An override of a unit's cap changes only while
a call is about to read it (`OverrideMatters`), since no other step looks at it. In
`keys` calls come and end in the first two of four moments, so that a fold has time to be cached
and to expire after them, and the process restarts once it has counted one (`KeysInTime`); the
strict mode there is enforce, the only one in which a mismatch leaves a row of its own. In
`spend` a snapshot is taken just before it is loaded (`SavedAtRestart`): an older one is
what an earlier state was, and `incidents` and `pushes` have it.

*Deadlock.* The ledger's run, and the violation runs whose instances never run out
of input, check it. The others say `CHECK_DEADLOCK FALSE`: there calls, rows and
ticks are bounded and the behaviour ends when they are used up. That nothing stops
early is what the properties of `progress` say.

### Violations

Six runs state what a comment or document says and find it violated by what the
code does; `PROJECT.json` quotes the lines.

- `ledger_late_parent`: `settle` walks the chain as it is then. If the parent a child
  names is first opened while the child's call is in flight, the parent's counter
  is decremented by money it never held; the clamp at zero hides it.
- `unit_ledger_delayed`: `rolled` resets on any *different* month, so an operation
  that read the clock before midnight and got the lock late wipes the new month.
  Only `DelayedLocks = TRUE` has it; it needs a race at midnight.
- `request_cancel`: the `SettleGuard` exists only once `provider.send` has answered; a
  client that leaves while the gateway waits drops both reservations unsettled. The
  headroom is stranded, which is conservative (`HeadroomAccounted`).
- `request_override`: the budget is read, then declared; the last writer wins.
- `request_steps`: `max_steps` is judged on a snapshot; racing calls all pass it.
- `cloud_push_lag`: `while let Ok(..) = rx.recv()` ends on `Lagged` as on `Closed`:
  after one burst beyond the bus's capacity nothing is pushed again.

### Further disagreements met while modelling

These follow from the models as well; the models do what the code does, and no
property here says otherwise.

- `gateway/src/raft_ledger.rs:162`: `reserve_unchecked` submits the checked reserve and
  ignores the verdict, so over budget the cluster records nothing
  (`ledger_backend.rs:22`: "record but never block").
- `cluster/src/server.rs:175`: the leader is looked up in the static peer map, so one
  that joined later cannot be forwarded to (`server.rs:165`: "transparently forwarding").
- `cluster/src/main.rs:95`: `serve --init` sends no token, and with `--token` set the node's
  own check refuses it.
- `cloud/src/store.rs:2419`: a detector's queue is trimmed from the front although it is in
  arrival order, so a late old timestamp is counted.
- `cloud/src/store.rs:2514`: an incident evicted at the cap and raised again starts with
  `last_notified_millis` 0 and is pushed again within the window of its last push
  (`store.rs:1789`); so is one whose push is younger than the snapshot a crash falls back to.
- `cloud/src/store.rs:2398`: at the cap on trackers the least recently touched one is given
  up, so a run that others crowd out between its blocks raises no incident.
- `cloud/src/store.rs:1760`: a finding from elsewhere stamps its source on an incident the
  plane opened itself.
- `cloud/src/store.rs:2410`: a threshold above the tracker's cap never trips.
- `cloud/src/main.rs:119`: a failed save does not set the dirty flag again, so the change
  waits for another mutation.
- `cloud/src/http.rs:1605`: replay looks audit entries up by the raw run id, the trail
  stores it with control characters replaced.
- `cloud/src/http.rs:1458`: `ongoing_monitoring` counts incidents other services posted
  (`http.rs:1452`: "the cloud's own incident detectors").
- `core/src/agent_event.rs:391`: after a partly written line the next event is appended to
  it and parses as neither, although `emit` returned `Written`.
- `gateway/src/sink.rs:367`: a process that dies has told the Cloud of calls its trace
  never holds (`cloudsink.rs:6`: "remains the source of truth").
- `gateway/src/wardryx.rs:348`: an entry is dated when its answer arrives, so an edit is
  reflected after the lifetime plus the call's time.
- `gateway/src/proxy.rs:1897`: the cache compares the entities of a text cut at 512
  characters (`cache.rs:10`: "must match exactly").
- `gateway/src/mcpbroker.rs:610`: masking a JSON number, which the server may have added
  itself, leaves text that does not parse, and the answer is then returned as it came,
  secrets included; and a vault secret of a form that `dlp.rs:60` has no pattern for comes back in
  clear when a server echoes it (`mcpbroker.rs:18`: "so a result can't leak a credential").
- `gateway/src/mcpbroker.rs:170`: a gated call whose event is skipped, for an empty agent header, or
  cannot be written goes on without one (`agent_event.rs:183`, `402`).
- `gateway/src/provider.rs:73`: of a response beyond the buffer the part that was kept is
  charged, never the estimate (`provider.rs:64`).
- `gateway/src/pricebook.rs:97`: the fallback's cache rate is below a known model's
  (`pricing.rs:64`: "never under-charge").
- `gateway/src/proxy.rs:1346`: a response is judged with the labels of before the upstream
  call; `proxy.rs:1062`: a streamed response is not judged; `state.rs:217`: a sub-run does not
  inherit its parent's labels (`docs/07-taint-model.md:33`).
- `gateway/src/mcpcli.rs:98`: an error answer with status 200 is an empty list of tools, and
  the scan exits 0 (`main.rs:186`).
- `gateway/src/proxy.rs:635`: rows of refused calls and cache hits share the next call's step
  (`outcomes.rs:20`); after a restart steps start again, so a later tag sorts before an
  earlier one (`outcomes.rs:135`); `backtest.rs:72`: spend includes the estimates of refused
  calls.

### Fairness

| part | assumed | because |
|---|---|---|
| `shadow` | a handler that can take its next step takes it; a response that was asked for ends or fails | tokio polls every ready task; the second half is an assumption about the provider, since the HTTP client has a connect timeout and no other deadline (`provider.rs` 293-303) |
| `cluster` | tasks run (WF), a submitted request is committed in the end (SF: it needs a leader, which may come and go), a leader is elected when there is none | the instance without faults; openraft elects while a quorum is up |
| `routing` | forwarded requests are served, `--init`'s task runs | terms are bounded, so elections stop |
| `autosave` | `Save` and `Start` | the interval loop of `main.rs`; a supervisor restarts the plane |
| `pollers` | each poller polls and applies | interval timers of `cloudsink.rs`, which no failure ends |
| `push`, `stream` | handlers send what they hold; both receivers are scheduled | tokio tasks |

Operators, clients, faults and clocks are never fair. Parts do not mix, so a fairness
condition on a disjunction over the parts (`FairStep`) stands for one in each.

## 4. Mutants

Operators whose comment starts with "Mutant of" are mutated forms of a mapped
definition, each a plausible bug (only the leaf settled, the error path returns early,
a nonce table one too short, a poller that stops at an error). They are used by no
specification; with one in place of its original, TLC finds the property
`PROJECT.json` names for it violated.

## 5. Proofs

All theorems hold for every value of the constants allowed by the modules' `ASSUME`s:
any sets of runs, units and nodes, any number of calls, any budgets, amounts and
chain depth, any number of crashes.

| theorem | under | says |
|---|---|---|
| **`Ledger_proofs`** | | |
| `TypeCorrect` | | `[]TypeOK`: no counter goes negative |
| `StepsAreDistinct` | | `[]StepsDistinct` |
| `ReservedAccounted` | `ParentsFirst` | `[]ReservedIsOutstanding` |
| `SpentAccounted` | `ParentsFirst` | `[]SpentIsSettled` |
| `BudgetHolds` | `ParentsFirst` | `[]BudgetCeiling` |
| **`Gateway_proofs`** | | |
| `UnitTypeCorrect` | | `[]TypeOK`, late locks included |
| `UnitBooksKept` | `~DelayedLocks` | `[]UnitBooks` |
| `UnitCapHolds` | `~DelayedLocks` | `[]UnitCapCeiling` |
| `UnitWindowForward` | `~DelayedLocks` | `WindowOnlyForward`: no entry goes back to a month that is over |
| `VerdictsHold` | `WardryxConstants` | `[]VerdictsCurrent`, and no two held calls share an approval |
| `TaintHolds` | | `[]TaintGates` |
| `BrokerAccounts` | | `[]BrokeredCallsAccounted`, for any vault and any answers |
| `ReportsAreCurrent` | `KeysConstants` | `[]KeyReportsCurrent` |
| `CacheIsHonest` | `CacheConstants` | `[]CacheHonest` |
| `AttributionHolds` | `IdentityConstants` | `[]CallsAttributed` |
| **`RequestPath_proofs`** | | |
| `RequestPathTyped` | | `[]TypeOK` |
| `KillIsHard` | | `[]KilledNeverForwarded` |
| `HeadroomExact` | `ParentsFirst` | `[]HeadroomAccounted`, clients leaving at any await |
| `NothingIsStranded` | clients leave in mid-stream only | `[]NothingStranded`, what `ReservationsReleased` checks in shadow mode |
| `AccountsReconcile` | `ParentsFirst` | `[]SpendReconciles`, wherever clients leave |
| **`RaftLedger_proofs`** | | |
| `ClusterTypeCorrect` | | `[]TypeOK`, in both modes, with faults |
| `ReadsAreCurrent` | | `[][ReadStep]_vars`, what `AcknowledgedIsRead` checks |
| `ClusterIsOneLedger` | enforce mode, no faults | `ImplementsLedger`: the refinement of `Ledger` |
| `OutageBounded` | `ParentsFirst` | `[]ExposureBounded`, with faults |
| `OutageIsContained` | `ParentsFirst` | `[]OutageContained`: this and the types |
| **`Cluster_proofs`** | | |
| `StorageCrashSafe` | | `[]CrashSafe` |
| `StorageForward` | | no step takes the vote, the committed or purged id, the applied state or the snapshot on disk back |
| `ErrorsAreDefinite` | | `[]ErrorsTrue`, the half of `ReportedIsTrue` about forwarded writes |
| `EventsFormOneChain` | `EventLogConstants` | `[]EventsTrue`: with `~Tears`, `ChainUnbroken` and `WrittenIsOnDisk` |
| `ReportsAreTrue` | `EventLogConstants` | `[]ReportedIsTrue`: both |
| `EventsWrittenOnce` | `EventLogConstants` | no event is in two lines, and one written before another was built has the earlier line (`LinesInOrder`), for any clock, torn lines or not |
| **`Cloud_proofs`** | | |
| `SnapshotsSound` | | `[]SnapshotSound` |
| `SnapshotForward` | | no step replaces the snapshot by an earlier state, or removes it |
| `TelemetryKeeps` | | `[]RecordsKept` |
| `OperatorsAreEntitled` | `AuthConstants` | `[]OperatorsEntitled` |
| `EvidenceIsHonest` | `ComplianceConstants` | `[]EvidenceHonest` |

### Assumptions

`ParentsFirst` says that a run is first declared only after the parent it names
(in `Ledger` a constant that guards `Declare`; in `RequestPath` and `RaftLedger` the
hypothesis that in every state an open run's parent is open). The gateway does not
enforce it; `ledger_late_parent` shows what happens without it. `~DelayedLocks`
says that midnight at the end of a month does not fall between an operation's
`now_millis()` and its lock; `unit_ledger_delayed` shows what does. The books of the
request path need nothing of the clients: one that leaves while the gateway waits for
the upstream strands its reservation (`request_cancel`), and `HeadroomExact` says that this
is all it does, since what is reserved is still the sum of what the requests hold,
the stranded ones included; `NothingIsStranded` says when there are none.
`ClusterIsOneLedger` cannot do without `~Faults` (a call that failed open and
settles has no counterpart in the in-process ledger) nor without the enforce mode
(the cluster's `reserve_unchecked` may be refused); `OutageBounded` is what remains
true with faults. `FilesAssumption` says that a missing and a half-written file are
not snapshots.

The definitions named `...Constants` say what kind of thing a module's constants are
(lifetimes are naturals, a ring has room for one nonce, no incident kind is called
like a decision, no two texts are more than 100 percent similar). Two say more. `~Tears`: a write that fails leaves nothing of its
line behind; with torn lines the chain starts again at each (section 3), and
`EventsWrittenOnce` is what remains. `CloudAuth`'s `Sign` lets a device sign at
most `NonceCap` requests within two clock windows; a device that signs more pushes
nonces out of the ring that the clock does not refuse yet.

### Arguments

*`Ledger`.* `Base` is inductive without any assumption: types, closed entries are
empty, a charged call's run and levels are open and its step is no larger than the
run's counter (hence the next step number is fresh). `Books` adds that every open
run's parent is open, that a held call was charged at what is its chain *now*, the
two sums, and the ceiling together with `budget <= peak`. None of the accounting is
inductive alone: `settle` releases at today's chain, so reserved stays equal to the sum only if
today's chain is the one charged at reserve time (`HeldAtChain`); that is kept
because opening a run can only extend the chain of a run whose parent was missing,
which `ParentsOpen` excludes (`ChainStable`). Given that, the released amount is one
summand of the sum, so the clamp at zero never acts and the sum of spent and reserved
moves only by the checked estimate or by a booked overrun. The invariant is stated of
values, not variables, so that `reserve_unchecked` on an unknown run is proved as an
open followed by a charge.

*`UnitLedger`.* `BooksInv` adds to the types that an operation under way has the
current month in hand (`Clocked`), that no entry is ahead of the clock and that no
reservation is ahead of its entry (`Dated`). Without them the books are not
inductive: an entry is reset by the first operation of a new month, and only the
order of the dates makes sure that a call that finds its own month in the entry
reserved in it, and that one that finds another releases nothing.

*`RequestPath`.* Part one is control: `Shape` says at every place of the handler
which reservations a task holds, what its trace may contain and whether it was seen
late. `KillIsHard` follows from it alone. Every action is shown to be of one of three
kinds (the operator's, one that touches no ledger, one that makes one operation on one
ledger and moves the task's shares with it), and part two, money, is proved once per
kind: each counter equals the sum of the shares of the tasks, those of clients that
left included, and moves with the share of the one task that steps; so the
clamp at zero of a settle never acts, and no settle can free what another holds.

*`RaftLedger`.* Part one has the types and how far reads and acknowledgements can have
seen the log. Part two (`Control`) relates the gateway's task, what the state machine
has recorded of its call and which of its requests are still on the wire: that a
settle is on the wire only once, after its task is over, and that a reserve on the wire
was not recorded yet. With it, `StepRefines` maps each commit to the operation of the
in-process ledger and every other step to a stutter. Part three (`Exposure`) is the
strengthening of `ExposureBounded`, which is not inductive: a settle of a call that
failed open releases a reservation that the call may never have made, and so may
release another's. `Lapsed` is what such a call's settle may release or has released
without one; reserved covers the calls in flight but for what lapsed (`Covered`), so
that the budget check of the next reserve still sees all but that much, and what
lapsed is no more than what failed open.

*`CloudPersist`.* `Durable`: store, bytes being written and file are each sound, each
is an earlier state of the one before, and the temporary file is whole when it is
renamed. That a budget is what its last audit entry says is carried as the existence
of a last entry (`Latest`), which is inductive where the `CHOOSE` of `Last` is not.

*`RaftStorage`.* `StorageInv` adds to `CrashSafe` what each transaction under way has
already written (`OperationsUnderWay`), that memory is what the file holds while the
process runs but for an install's snapshot (`MemoryIsStored`) and that state and
snapshot are committed prefixes. That applying a range and then the rest is applying
the whole (`ApplyLog`) is proved by least counterexample; it is what makes replaying
after a crash harmless.

*`ClusterRouting`.* `CommitsSettled`: a write that is still open has not been committed,
and a task that has an answer is not forwarded again.

*`EventLog`.* `InOnePlace`: an event is built, then in one line or in none. `WrittenFirst`: one
that was written before another was built is not in hand any more, and its line, if it
is whole, is before the other's; timestamps do not enter. `OneChain`: the
exporter's link is the last line's hash while it is open, or will be read from the
file when it starts again.

*`Compliance`.* `EvidenceInv`: what each of the four reads has seen occurred, although
it may be gone again by the time of the next, and the audit chain only grows; so a
grade computed from reads of different moments is still backed.

*`Wardryx`.* `HookInv`: a call under way was asked within the timeout, its answer is that of
a policy in force since it was asked, and a cached answer was fresh when it was stored.
A cached verdict serves every request with the same key because the policies whose
answers may be cached depend on nothing else (`KeySuffices`). The proof needs
`Ttl # 0` for an entry to be served at all, which the property now states.

*`Firewall`.* `WallInv`: the labels a call is judged with are at least those of its header
and history and of the run when it was collected, and a run's labels are never
fewer than what its calls brought.

*`McpBroker`.* `BrokerInv`: calls are numbered, so that a decision belongs to one; a gated call
past the gate was decided (in enforce mode, allowed), one before it was not, and its URL is
its server's. What was decided is kept in a history, apart from the events, since an
emission may fail; `EventsTold` relates the two: a decision whose event was written has that
one, and no other event is there. `ResponsesRedacted` is about each answer alone, so nothing
about what servers send is needed.

*`KeysReport`.* `KeysInv`: every fold, in a scan, in the cache or in a report, is of a set of
rows that has everything that was on disk a scan's length before its date. A report's
age is then the cache's lifetime and a scan's. `CountInv`: the counters of a key are the
cardinalities of the calls counted and of those found mismatched. `BalanceInv` relates them to rows:
what a key's calls have recorded, and what those under way may still, is at most two for
each call counted, and refusals, one for each mismatch counted, since the count comes before
the row. So whatever set of rows a fold is of, the counters of any later moment
explain it, up to the rows found at start (`RowsExplained`).

*`SemanticCache`.* `StoreInv`: an entry is a success of an eligible question and lies in its
partition, and entries are numbered in the order of their times. So whatever a full
partition gave up is older than all it keeps, and when one of the kept expires, what was
given up has expired as well: dropping the expired ones leaves the newest that have
not. The clock is read and the lock taken in one step here; calls that swap places
between the two, within a millisecond or so, are in the partition in the other order.

*`Identity`.* `IdentityInv`: a gateway that runs has in force what the documents on disk say,
since they change only while it is down, and while it is down no call is under way;
what is forwarded or recorded carries the number of its start, so that a restart under
other documents leaves earlier rows alone. The counters need the calls that were
counted and not judged yet: a key's mismatches and these together are at most its
calls.

*`Telemetry`.* `SinkInv`: a record that is pending with a handler, in the buffer, in a post
or ingested is in exactly one of these. `NamesUsed`: segment names are of earlier
instances or of smaller sequence numbers. `TraceInv` accounts for each settled record.

*`CloudAuth`.* `EntitledInv` carries, for each device, the code and thereby the admin it came
from. `NonceInv` is a pigeonhole argument: the ring holds the device's last nonces in
the order they were executed; a nonce that left it was followed by `NonceCap` others,
and if the clock still accepted its request these would all have been signed
within two windows, together with it one too many.

*Lemmas.* `Tally` proves what updating one summand does to `Total`, and how sums
compare that compare summand by summand. `Total` is a recursive function and
induction schemas cannot be instantiated here, so each inductive fact is proved by
its least counterexample (`LeastNat`). The lemmas in `LedgerOps` characterise `OpenRun`,
`Reserve` and `Settle` by their effect per run, so that the invariants' proofs do not
open them. The strengthenings were model-checked on small instances first.

### Only model-checked

- Everything temporal beyond safety, since the prover handles neither fairness nor
  `ENABLED`: `ReservationsReleased`, `ClusterAnswers`, `ChangesArrive`. What
  `ReservationsReleased` says besides, that reservations are accounted for and none
  is stranded, is proved (`HeadroomExact`, `NothingIsStranded`), and so is `ReadStep`, which
  `AcknowledgedIsRead` checks of one part of its run (`ReadsAreCurrent`).
- The algorithms over sequences, whose facts need induction over data, what a filter,
  a sort, a parser or a running sum computes for every input: `CalendarAgrees`,
  `ResponsesMetered`, `ScanHonest`, `ReportsReconcile`, `RunawayContained`, `RoutedAndPriced` (the
  cheapest of a filtered list), the replay and manifests in `TrailsIntact` (sorted
  lines, texts with separators), and the Cloud's `RollupsExact`, `IncidentsJustified` and
  `AlertsSurvive` (sorted, trimmed and summed queues).

## 6. Plan

What is left: `CloudStore`, that what a cap evicts stays in the totals, with sums over
the evicted in place of sequences.

## 7. Not modelled

Canonical JSON and OTLP (text formats), the DLP patterns' own matching, wasmtime,
APNs' HTTP/2 client, TLS and the RPC encoding of the cluster, DataFusion, SARIF and
table printing, the terminal dashboard, the web dashboards, SDKs, the wrapper crate
and the radar scanner; a restart of the gateway that forgets taint labels; overflow of
`i64` money outside `CloudStore`; `close_run`. `PROJECT.json` lists each part with
its reason.

## Running

    tlc -workers 2 -config MCLedger.cfg MCLedger
    tlc -workers 2 -config MCCluster.cfg MCCluster
    tlapm Ledger_proofs.tla
    tlapm Cluster_proofs.tla

The passing runs take two to three minutes each.
