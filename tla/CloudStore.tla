----------------------------- MODULE CloudStore -----------------------------
(***************************************************************************)
(* The control plane's store (crates/cloud/src/store.rs) as one org sees   *)
(* it.  First the rollups: what one ingested record adds to the org's      *)
(* runs, totals, months, savings and burn series, the caps that bound each *)
(* of them, and the reads that fold them again; amounts saturate at        *)
(* MaxMoney (i64::MAX).  Then the incident detectors: occurrence trackers  *)
(* per (kind, run) and per agent, the thresholds, and the incidents they   *)
(* open, which are acknowledged, pushed at most once per window, and       *)
(* evicted at a cap.  Then the store itself: batches ingested, central     *)
(* budgets and kills set, incidents acknowledged, reported from elsewhere  *)
(* and pushed, snapshots, and a restart from a snapshot that may be old.   *)
(* Every operation holds the store's one lock; the reads are compared with *)
(* the history.                                                            *)
(***************************************************************************)
EXTENDS Integers, FiniteSets, Sequences, SequencesExt

CONSTANTS
  MaxRuns,      \* MAX_RUNS_PER_ORG
  MaxBreaks,    \* MAX_BREAK_KEYS
  MaxUnits,     \* MAX_UNIT_MONTH_KEYS
  SeriesCap,    \* SERIES_CAP
  MaxBuckets,   \* MAX_SERIES_BUCKETS
  MaxMoney,     \* i64::MAX
  AlertPct,     \* alert_pct in hundredths
  NoName,       \* an empty agent or unit
  BudgetBlocks, LoopRepeats, LoopWindow, SpendPerMin, FanoutRuns, FanoutWindow,  \* IncidentConfig
  SpikeWindow,      \* SPIKE_WINDOW_MS
  TrackerCap,       \* INCIDENT_TRACKER_CAP
  MaxTrackerKeys,   \* MAX_TRACKER_KEYS
  MaxIncidents,     \* MAX_INCIDENTS_PER_ORG
  Records,      \* the rows a gateway may push; a row's ts is its age: 0 means no timestamp
  Runs,
  Budgets,      \* central budgets that may be set
  Findings,     \* <<detector, subject>> that another service may report
  NotifyWindow, \* push.rs DEDUP window
  MonthLength,  \* length of a calendar month on the model's clock
  MaxBatch,     \* bound: rows of a batch
  MaxRows,      \* bound: rows in all
  MaxNow,       \* bound: the clock
  MaxOps        \* bound: operations other than ingest

(* What an instance must satisfy.                                          *)
StoreConstants ==
  /\ {MaxRuns, MaxBreaks, MaxUnits, SeriesCap, MaxBuckets} \subseteq Nat \ {0}
  /\ MaxMoney \in Nat /\ AlertPct \in 0..100
  /\ {BudgetBlocks, LoopRepeats, FanoutRuns} \subseteq Nat
  /\ {TrackerCap, MaxTrackerKeys, MaxIncidents} \subseteq Nat \ {0}

Unassigned == "unassigned"

IsBlocked(d) == d \notin {"allow", "cache_hit"}

BudgetProtection ==
  {"budget_exceeded", "loop_detected", "policy_violation", "wasm_policy", "killed"}

IsKnownDecision(d) ==
  d \in {"allow", "cache_hit", "taint_blocked", "dlp_blocked"} \cup BudgetProtection

Clamp(x) == IF x < 0 THEN 0 ELSE x
Larger(a, b) == IF a < b THEN b ELSE a
SatAdd(a, b) == IF a + b > MaxMoney THEN MaxMoney ELSE a + b
Get(f, k, default) == IF k \in DOMAIN f THEN f[k] ELSE default
Drop(f, k) == [x \in DOMAIN f \ {k} |-> f[x]]

(* Add up value(k), saturating, over a set of keys.                        *)
SatSum(value(_), S) == FoldSet(LAMBDA k, acc : SatAdd(acc, value(k)), 0, S)
Total(value(_), S) == FoldSet(LAMBDA k, acc : acc + value(k), 0, S)

-----------------------------------------------------------------------------
(* RecencyIndex: its keys, the least recently touched first.               *)
Touch(index, k) == Append(SelectSeq(index, LAMBDA x : x # k), k)

EvictOldest(index) == Tail(index)

(* The key evict_oldest_unprotected removes; the oldest of all when every  *)
(* key is protected.                                                       *)
Victim(index, protected) ==
  LET free == SelectSeq(index, LAMBDA k : k \notin protected)
  IN IF free # <<>> THEN Head(free) ELSE Head(index)

-----------------------------------------------------------------------------
(* What the store keeps for an org.                                        *)
EmptyRollup ==
  [runs |-> <<>>, recency |-> <<>>,
   totals |-> [spent |-> 0, calls |-> 0, tools |-> 0],
   decisions |-> <<>>, months |-> <<>>,
   sav |-> [blocked |-> 0, cache |-> 0, router |-> 0, breaks |-> {}, count |-> 0],
   breakRecency |-> <<>>, series |-> <<>>]

NewRun == [spent |-> 0, tools |-> 0, calls |-> 0, hits |-> 0,
           agent |-> NoName, unit |-> NoName, lastSeen |-> 0]

(* A central budget above zero of which alert_pct is spent.                *)
OverAlert(spent, budget) == budget > 0 /\ spent * 100 >= budget * AlertPct

IsAlerting(s, budgets, run) ==
  /\ run \in DOMAIN budgets
  /\ OverAlert(IF run \in DOMAIN s.runs THEN s.runs[run].spent ELSE 0, budgets[run])

\* Mutant of Admit: the victim is simply the least recently touched run.
AdmitPlain(s, run, budgets) ==
  IF run \in DOMAIN s.runs \/ Cardinality(DOMAIN s.runs) < MaxRuns THEN s
  ELSE LET victim == Head(s.recency)
       IN [s EXCEPT !.runs = Drop(s.runs, victim), !.recency = Tail(s.recency)]

(* Make room for a run that is new: the least recently touched run that is *)
(* not alerting goes.                                                      *)
Admit(s, run, budgets) ==
  IF run \in DOMAIN s.runs \/ Cardinality(DOMAIN s.runs) < MaxRuns THEN s
  ELSE LET victim == Victim(s.recency, {k \in DOMAIN s.runs : IsAlerting(s, budgets, k)})
       IN [s EXCEPT !.runs = Drop(s.runs, victim),
                    !.recency = SelectSeq(s.recency, LAMBDA k : k # victim)]

(* The run's aggregate, its recency, the decision tally and the org totals.*)
(* The model and the largest step are kept like agent and lastSeen.        *)
FoldRun(s, r) ==
  LET agg == Get(s.runs, r.run, NewRun)
      paid == IF IsBlocked(r.decision) THEN 0 ELSE Clamp(r.cost)
      tools == IF IsBlocked(r.decision) THEN 0 ELSE r.tools
      new == [spent |-> SatAdd(agg.spent, paid), tools |-> agg.tools + tools,
              calls |-> agg.calls + 1,
              hits |-> agg.hits + IF r.decision = "cache_hit" THEN 1 ELSE 0,
              agent |-> IF r.agent = NoName THEN agg.agent ELSE r.agent,
              unit |-> IF r.unit = NoName THEN agg.unit ELSE r.unit,
              lastSeen |-> Larger(r.ts, agg.lastSeen)]
      tally == IF IsKnownDecision(r.decision)
               THEN (r.decision :> Get(s.decisions, r.decision, 0) + 1) @@ s.decisions
               ELSE s.decisions
  IN [s EXCEPT !.runs = (r.run :> new) @@ s.runs,
               !.recency = Touch(s.recency, r.run),
               !.decisions = tally,
               !.totals = [spent |-> SatAdd(@.spent, paid), calls |-> @.calls + 1,
                           tools |-> @.tools + tools]]

(* The month to date of the record's own unit, by the plane's month; a     *)
(* window of an earlier month starts over, a full map folds into           *)
(* "unassigned".                                                           *)
FoldMonth(s, r, month) ==
  LET own == IF r.unit = NoName THEN Unassigned ELSE r.unit
      unit == IF own \in DOMAIN s.months \/ Cardinality(DOMAIN s.months) < MaxUnits
              THEN own ELSE Unassigned
      fresh == [window |-> month, spent |-> 0, calls |-> 0]
      acc == Get(s.months, unit, fresh)
      cur == IF acc.window = month THEN acc ELSE fresh
      paid == IF IsBlocked(r.decision) THEN 0 ELSE Clamp(r.cost)
  IN [s EXCEPT !.months =
        (unit :> [cur EXCEPT !.calls = @ + 1, !.spent = SatAdd(@, paid)]) @@ s.months]

(* Remember that a run was broken: the set is capped, by its recency index *)
(* where that knows a key (it starts empty after a restart), the count is  *)
(* not.  A hash set gives up any one key.                                  *)
Remembered(sav, index, run) ==
  IF run \in sav.breaks THEN {[sav |-> sav, index |-> Touch(index, run)]}
  ELSE LET full == Cardinality(sav.breaks) >= MaxBreaks
           gone == IF ~full THEN {NoName}
                   ELSE IF index # <<>> THEN {Head(index)} ELSE sav.breaks
           rest == IF full /\ index # <<>> THEN EvictOldest(index) ELSE index
       IN {[sav |-> [sav EXCEPT !.breaks = (@ \ {k}) \cup {run}, !.count = @ + 1],
            index |-> Touch(rest, run)] : k \in gone}

(* Avoided spend of a budget-protection block; what a cache hit and what   *)
(* the router saved.                                                       *)
FoldSavings(s, r) ==
  LET credited == [s.sav EXCEPT
        !.cache = IF r.decision = "cache_hit" THEN SatAdd(@, Clamp(r.saved)) ELSE @,
        !.router = IF r.decision = "allow" THEN SatAdd(@, Clamp(r.saved)) ELSE @]
  IN IF r.decision \notin BudgetProtection THEN {[s EXCEPT !.sav = credited]}
     ELSE {[s EXCEPT !.sav = m.sav, !.breakRecency = m.index] :
             m \in Remembered([credited EXCEPT !.blocked = SatAdd(@, Clamp(r.cost))],
                              s.breakRecency, r.run)}

FoldRecord(s, r, month, budgets) ==
  FoldSavings(FoldMonth(FoldRun(Admit(s, r.run, budgets), r), r, month), r)

(* The burn series keeps every row, blocked ones too.                      *)
PushSeries(series, batch) ==
  LET sample(r) == [ts |-> r.ts, run |-> r.run, cost |-> Clamp(r.cost),
                    blocked |-> IsBlocked(r.decision), tools |-> r.tools]
      all == series \o [i \in DOMAIN batch |-> sample(batch[i])]
  IN SubSeq(all, Larger(1, Len(all) - SeriesCap + 1), Len(all))

(* The batch, record by record, then the series: the possible outcomes.    *)
FoldBatch(s, batch, month, budgets) ==
  LET step(states, r) == UNION {FoldRecord(t, r, month, budgets) : t \in states}
  IN {[t EXCEPT !.series = PushSeries(s.series, batch)] : t \in FoldLeft(step, {s}, batch)}

-----------------------------------------------------------------------------
(* Reads.  Agents and Units fold the retained runs by a key; Units joins   *)
(* the month accumulators, of which a stale window reads as zero.          *)
Summary(s) == [runs |-> Cardinality(DOMAIN s.runs), calls |-> s.totals.calls,
               spent |-> s.totals.spent, tools |-> s.totals.tools]

Rollup(s, runs) == [spent |-> SatSum(LAMBDA r : s.runs[r].spent, runs),
                    calls |-> Total(LAMBDA r : s.runs[r].calls, runs),
                    runs |-> Cardinality(runs)]

Agents(s) == [a \in {s.runs[r].agent : r \in DOMAIN s.runs} |->
                Rollup(s, {r \in DOMAIN s.runs : s.runs[r].agent = a})]

Units(s, month) ==
  LET unitOf(r) == IF s.runs[r].unit = NoName THEN Unassigned ELSE s.runs[r].unit
      current(u) == u \in DOMAIN s.months /\ s.months[u].window = month
  IN [u \in {unitOf(r) : r \in DOMAIN s.runs} \cup DOMAIN s.months |->
        [all |-> Rollup(s, {r \in DOMAIN s.runs : unitOf(r) = u}),
         monthSpent |-> IF current(u) THEN s.months[u].spent ELSE 0,
         monthCalls |-> IF current(u) THEN s.months[u].calls ELSE 0]]

Savings(s) == [blocked |-> s.sav.blocked, cache |-> s.sav.cache, router |-> s.sav.router,
               breaks |-> s.sav.count,
               total |-> SatAdd(SatAdd(s.sav.blocked, s.sav.cache), s.sav.router)]

Alerts(s, budgets) == {run \in DOMAIN budgets : IsAlerting(s, budgets, run)}

(* Burn-rate buckets over a window; at most MaxBuckets, of which the last  *)
(* takes what lies beyond.                                                 *)
Series(series, window, step, now) ==
  LET w == Larger(window, step)
      n == IF w \div step > MaxBuckets THEN MaxBuckets ELSE w \div step
      bucket(t) == LET b == (t - (now - w)) \div step IN IF b > n - 1 THEN n - 1 ELSE b
      at(b) == {i \in DOMAIN series : LET t == series[i].ts IN
                  t >= now - w /\ t <= now /\ bucket(t) = b}
  IN [b \in 0..(n - 1) |-> [cost |-> SatSum(LAMBDA i : series[i].cost, at(b)),
                            calls |-> Cardinality(at(b))]]

-----------------------------------------------------------------------------
\* Mutant of Reloads: the totals are recomputed from the runs that are left.
ReloadsRecount(s) ==
  {[s EXCEPT !.recency = SetToSeq(DOMAIN s.runs), !.breakRecency = <<>>, !.series = <<>>,
             !.totals.spent = SatSum(LAMBDA r : s.runs[r].spent, DOMAIN s.runs)]}

(* load: the recency index is seeded in the order of last_seen (ties in    *)
(* any order); the break index and the series are not kept.                *)
Reloads(s) ==
  {[s EXCEPT !.recency = order, !.breakRecency = <<>>, !.series = <<>>,
             !.sav.count = Larger(@, Cardinality(s.sav.breaks))] :
     order \in {o \in SetToSeqs(DOMAIN s.runs) :
                  \A i, j \in DOMAIN o : i < j => s.runs[o[i]].lastSeen <= s.runs[o[j]].lastSeen}}

(* core::savings::compute_savings over the gateway's trace: the report the *)
(* live rollup stands for.                                                 *)
ComputeSavings(calls) ==
  LET rows(P(_)) == {i \in DOMAIN calls : P(calls[i].decision)}
      protected == rows(LAMBDA d : d \in BudgetProtection)
  IN [blocked |-> Total(LAMBDA i : calls[i].cost, protected),
      breaks |-> Cardinality({calls[i].run : i \in protected}),
      cache |-> Total(LAMBDA i : calls[i].saved, rows(LAMBDA d : d = "cache_hit")),
      router |-> Total(LAMBDA i : calls[i].saved, rows(LAMBDA d : d = "allow"))]

-----------------------------------------------------------------------------
NoSource == "none"

(* "opened" is history: how often each incident has been opened.           *)
EmptyDetectors ==
  [tracker |-> <<>>, trackerRecency |-> <<>>, fanout |-> <<>>, fanoutRecency |-> <<>>,
   incidents |-> <<>>, opened |-> <<>>]

LastN(seq, n) == SubSeq(seq, Larger(1, Len(seq) - n + 1), Len(seq))

(* Give up the least recently touched key before a new one would exceed    *)
(* the cap of a tracker.                                                   *)
MakeRoom(map, index, key) ==
  IF key \in DOMAIN map \/ Cardinality(DOMAIN map) < MaxTrackerKeys \/ index = <<>>
  THEN [map |-> map, index |-> Touch(index, key)]
  ELSE [map |-> Drop(map, Head(index)), index |-> Touch(EvictOldest(index), key)]

(* Only leading timestamps are dropped: the queue is in arrival order.     *)
DropStale(queue, cutoff) ==
  LET kept == {i \in DOMAIN queue : queue[i] >= cutoff}
  IN IF kept = {} THEN <<>> ELSE SubSeq(queue, Min(kept), Len(queue))

(* bump_tracker: note ts under (kind, run); the queue that is counted.     *)
BumpTracker(d, kind, run, ts, cutoff) ==
  LET room == MakeRoom(d.tracker, d.trackerRecency, <<kind, run>>)
      queue == LastN(Append(Get(room.map, <<kind, run>>, <<>>), ts), TrackerCap)
  IN [d EXCEPT !.tracker = (<<kind, run>> :> DropStale(queue, cutoff)) @@ room.map,
               !.trackerRecency = room.index]

(* bump_fanout_tracker: the distinct runs of an agent within the window.   *)
BumpFanout(d, agent, run, ts, cutoff) ==
  LET room == MakeRoom(d.fanout, d.fanoutRecency, agent)
      others == SelectSeq(Get(room.map, agent, <<>>), LAMBDA e : e.run # run)
      queue == LastN(Append(others, [run |-> run, ts |-> ts]), TrackerCap)
  IN [d EXCEPT !.fanout = (agent :> SelectSeq(queue, LAMBDA e : e.ts >= cutoff)) @@ room.map,
               !.fanoutRecency = room.index]

Opening(opened, id) == (id :> Get(opened, id, 0) + 1) @@ opened

\* Mutant of Upserted: a repeated trip starts the incident afresh.
UpsertedAfresh(d, id, agent, ts) ==
  {[d EXCEPT !.incidents = (id :> [agent |-> agent, first |-> ts, last |-> ts, occurrences |-> 1,
                                   acked |-> FALSE, notified |-> 0, source |-> NoSource]) @@ @,
             !.opened = IF id \in DOMAIN d.incidents THEN @ ELSE Opening(@, id)]}

(* upsert_incident: open the incident, or count one more occurrence; at    *)
(* the cap one with the oldest last_seen makes room, and is forgotten.     *)
Upserted(d, id, agent, ts) ==
  LET new == id \notin DOMAIN d.incidents
      full == new /\ Cardinality(DOMAIN d.incidents) >= MaxIncidents
      oldest == {k \in DOMAIN d.incidents : \A j \in DOMAIN d.incidents :
                   d.incidents[k].last <= d.incidents[j].last}
      kept == IF full THEN {Drop(d.incidents, k) : k \in oldest} ELSE {d.incidents}
      fresh == [agent |-> agent, first |-> ts, last |-> ts, occurrences |-> 0,
                acked |-> FALSE, notified |-> 0, source |-> NoSource]
      tripped(inc) == [inc EXCEPT !.occurrences = @ + 1, !.last = Larger(@, ts),
                                  !.agent = IF @ = NoName THEN agent ELSE @]
  IN {[d EXCEPT !.incidents = (id :> tripped(Get(m, id, fresh))) @@ m,
                !.opened = IF new THEN Opening(@, id) ELSE @] : m \in kept}

(* Trip an incident of d when the condition holds.                         *)
Trip(d, condition, id, agent, ts) ==
  IF ~condition THEN {d}
  ELSE Upserted(d, id, agent, ts)

(* No window: timestamps are never negative.                               *)
DetectBudget(d, r, ts) ==
  IF ~(IsKnownDecision(r.decision) /\ r.decision \in BudgetProtection) THEN {d}
  ELSE LET b == BumpTracker(d, "budget_exhausted", r.run, ts, 0)
       IN Trip(b, Len(b.tracker[<<"budget_exhausted", r.run>>]) >= BudgetBlocks,
               <<"budget_exhausted", r.run>>, r.agent, ts)

DetectLoop(d, r, ts, now) ==
  IF ~(IsKnownDecision(r.decision) /\ r.decision = "loop_detected") THEN {d}
  ELSE LET b == BumpTracker(d, "sustained_loop", r.run, ts, now - LoopWindow)
       IN Trip(b, Len(b.tracker[<<"sustained_loop", r.run>>]) >= LoopRepeats,
               <<"sustained_loop", r.run>>, r.agent, ts)

DetectFanout(d, r, ts, now) ==
  IF r.agent = NoName THEN {d}
  ELSE LET b == BumpFanout(d, r.agent, r.run, ts, now - FanoutWindow)
       IN Trip(b, Len(b.fanout[r.agent]) >= FanoutRuns, <<"fanout_explosion", r.agent>>, r.agent, ts)

(* A record without a timestamp is taken to have happened now.             *)
Detect(d, r, now) ==
  LET ts == IF r.ts > 0 THEN r.ts ELSE now
  IN UNION {UNION {DetectFanout(e, r, ts, now) : e \in DetectLoop(c, r, ts, now)} :
              c \in DetectBudget(d, r, ts)}

(* burn_since and the spend_spike detector, on the series after the batch. *)
BurnSince(series, start, now) ==
  SatSum(LAMBDA i : series[i].cost,
         {i \in DOMAIN series : series[i].ts >= start /\ series[i].ts <= now})

DetectSpike(d, series, now) ==
  Trip(d, BurnSince(series, now - SpikeWindow, now) >= SpendPerMin, <<"spend_spike", NoName>>, NoName, now)

DetectBatch(d, batch, series, now) ==
  LET step(ds, r) == UNION {Detect(e, r, now) : e \in ds}
  IN UNION {DetectSpike(e, series, now) : e \in FoldLeft(step, {d}, batch)}

(* record_external_finding: another service's finding, kept like a trip    *)
(* and stamped with its source.                                            *)
ExternalFinding(d, detector, subject, source, now) ==
  {[e EXCEPT !.incidents[<<detector, subject>>].source = source] :
     e \in Upserted(d, <<detector, subject>>, subject, now)}

(* mark_incident_notified: more than the window since the last push.       *)
MayNotify(inc, now, window) == now - inc.notified > window

-----------------------------------------------------------------------------
VARIABLES
  roll, det, budgets,
  now,       \* the plane's clock
  saved,     \* the snapshot file
  trace,     \* history: the rows ingested, each with the time and the epoch of its ingest
  epoch,     \* history: length of trace at the last restart
  pushes,    \* history: the pushes [id, opening, at], in order
  received,  \* rows so far
  ops        \* operations so far

vars == <<roll, det, budgets, now, saved, trace, epoch, pushes, received, ops>>

Month(t) == t \div MonthLength

(* What a snapshot holds; of the history, what it stands for.              *)
Image == [roll |-> roll, incidents |-> det.incidents, budgets |-> budgets,
          trace |-> trace, pushed |-> Len(pushes)]

Init ==
  /\ roll = EmptyRollup
  /\ det = EmptyDetectors
  /\ budgets = <<>>
  /\ now = MonthLength
  /\ trace = <<>>
  /\ epoch = 0
  /\ pushes = <<>>
  /\ saved = Image
  /\ received = 0 /\ ops = 0

Stamped(r) == IF r.ts = 0 THEN r ELSE [r EXCEPT !.ts = now - (r.ts - 1)]

(* ingest: fold the batch and run the detectors on what it became.         *)
Ingest(batch) ==
  /\ received + Len(batch) <= MaxRows /\ received' = received + Len(batch)
  /\ \E s \in FoldBatch(roll, batch, Month(now), budgets) :
       /\ roll' = s
       /\ det' \in DetectBatch(det, batch, s.series, now)
  /\ trace' = trace \o [i \in DOMAIN batch |-> [row |-> batch[i], at |-> now, epoch |-> epoch]]
  /\ UNCHANGED <<budgets, now, saved, epoch, pushes, ops>>

SetBudget(run, micros) ==
  /\ budgets' = (run :> micros) @@ budgets
  /\ UNCHANGED <<roll, det, now, saved, trace, epoch, pushes>>

AckIncident(id) ==
  /\ id \in DOMAIN det.incidents
  /\ det' = [det EXCEPT !.incidents[id].acked = TRUE]
  /\ UNCHANGED <<roll, budgets, now, saved, trace, epoch, pushes>>

RecordExternalFinding(f) ==
  /\ det' \in ExternalFinding(det, f[1], f[2], "idryx", now)
  /\ UNCHANGED <<roll, budgets, now, saved, trace, epoch, pushes>>

(* The push worker asks whether to push an incident, and does if told so.  *)
MarkIncidentNotified(id) ==
  /\ id \in DOMAIN det.incidents
  /\ MayNotify(det.incidents[id], now, NotifyWindow)
  /\ det' = [det EXCEPT !.incidents[id].notified = now]
  /\ pushes' = Append(pushes, [id |-> id, opening |-> det.opened[id], at |-> now])
  /\ UNCHANGED <<roll, budgets, now, saved, trace, epoch>>

(* The autosave task's turn.                                               *)
Save ==
  /\ saved' = Image
  /\ UNCHANGED <<roll, det, budgets, now, trace, epoch, pushes>>

(* A restart from the snapshot, which may have been taken just before it:  *)
(* what is younger is lost, and so are the trackers.  An incident that was *)
(* pushed since counts as opened again.                                    *)
Restart(snapshot) ==
  LET forgotten == {pushes[i].id : i \in snapshot.pushed + 1 .. Len(pushes)}
  IN /\ roll' \in Reloads(snapshot.roll)
     /\ det' = [EmptyDetectors EXCEPT
                  !.incidents = snapshot.incidents,
                  !.opened = [id \in DOMAIN det.opened |->
                                det.opened[id] + IF id \in forgotten THEN 1 ELSE 0]]
     /\ budgets' = snapshot.budgets
     /\ trace' = snapshot.trace
     /\ epoch' = Len(snapshot.trace)
     /\ saved' = snapshot
     /\ UNCHANGED <<now, pushes>>

Operate ==
  /\ ops < MaxOps /\ ops' = ops + 1 /\ UNCHANGED received
  /\ \/ \E run \in Runs, b \in Budgets : SetBudget(run, b)
     \/ \E id \in DOMAIN det.incidents : AckIncident(id)
     \/ \E id \in DOMAIN det.incidents : MarkIncidentNotified(id)
     \/ \E f \in Findings : RecordExternalFinding(f)
     \/ Save
     \/ Restart(saved) \/ Restart(Image)

Tick ==
  /\ now < MaxNow
  /\ now' = now + 1
  /\ UNCHANGED <<roll, det, budgets, saved, trace, epoch, pushes, received, ops>>

Push(batch) == Ingest([i \in DOMAIN batch |-> Stamped(batch[i])])

Batches == UNION {[1..n -> Records] : n \in 1..MaxBatch}

Next ==
  \/ \E batch \in Batches : Push(batch)
  \/ Operate
  \/ Tick

Spec == Init /\ [][Next]_vars

-----------------------------------------------------------------------------
Capped(x) == IF x > MaxMoney THEN MaxMoney ELSE x
Paid(t) == IF IsBlocked(t.row.decision) THEN 0 ELSE Clamp(t.row.cost)
SpendOf(entries) == Capped(Total(LAMBDA i : Paid(trace[i]), entries))

(* The summary is exact over everything ever ingested and not lost with a  *)
(* crash, whatever runs were evicted and whatever restarts happened; what  *)
(* the agents' rollup still shows never exceeds it, and it shows no more   *)
(* runs than the cap.                                                      *)
TotalsExact ==
  /\ Summary(roll).spent = SpendOf(DOMAIN trace)
  /\ Summary(roll).calls = Len(trace)
  /\ Summary(roll).runs <= MaxRuns
  /\ SatSum(LAMBDA a : Agents(roll)[a].spent, DOMAIN Agents(roll)) <= SpendOf(DOMAIN trace)

(* The units' month-to-date columns add up to what was ingested this       *)
(* month, to the call: no unit's spend disappears with an evicted run, a   *)
(* restart or a full map, and a new month starts from zero.                *)
MonthAddsUp ==
  LET units == Units(roll, Month(now))
      mine == {i \in DOMAIN trace : Month(trace[i].at) = Month(now)}
  IN /\ MaxMoney >= Total(LAMBDA i : Paid(trace[i]), DOMAIN trace)
          => Total(LAMBDA u : units[u].monthSpent, DOMAIN units) = SpendOf(mine)
     /\ Total(LAMBDA u : units[u].monthCalls, DOMAIN units) = Cardinality(mine)
     /\ Cardinality(DOMAIN roll.months) <= MaxUnits + 1

(* The live savings are what the savings report computes from the whole    *)
(* trace; the number of broken runs is never less, and the memory that     *)
(* tells runs apart stays within its cap even with a cold index.           *)
SavingsMatchReport ==
  LET live == Savings(roll)
      report == ComputeSavings([i \in DOMAIN trace |->
                  [trace[i].row EXCEPT !.cost = Clamp(@), !.saved = Clamp(@)]])
  IN /\ live.blocked = Capped(report.blocked)
     /\ live.cache = Capped(report.cache) /\ live.router = Capped(report.router)
     /\ live.breaks >= report.breaks
     /\ report.breaks <= MaxBreaks => live.breaks = report.breaks
     /\ Cardinality(roll.sav.breaks) <= MaxBreaks

(* A flood of new runs never takes an alerting run off /v1/alerts while    *)
(* there is a run that does not alert to evict instead.                    *)
AlertStep ==
  \A run \in Alerts(roll, budgets) :
    (Len(trace') > Len(trace) /\ run \in DOMAIN roll.runs /\ run \notin Alerts(roll', budgets'))
      => \A other \in DOMAIN roll.runs \ {run} :
           \/ other \in Alerts(roll, budgets)
           \/ other \notin DOMAIN roll'.runs
           \/ other \in {trace'[i].row.run : i \in Len(trace) + 1 .. Len(trace')}

(* The buckets of the burn series hold every retained sample of the window *)
(* exactly once, however window, step and the cap on buckets divide.       *)
SeriesComplete ==
  \A window \in {2, 3}, step \in {1, 2} :
    LET b == Series(roll.series, window, step, now)
        inWindow == {i \in DOMAIN roll.series :
                       /\ roll.series[i].ts >= now - Larger(window, step)
                       /\ roll.series[i].ts <= now}
    IN Total(LAMBDA k : b[k].calls, DOMAIN b) = Cardinality(inWindow)

-----------------------------------------------------------------------------
Stamp(i) == IF trace[i].row.ts > 0 THEN trace[i].row.ts ELSE trace[i].at
Blocks(run, i, j) == {k \in i..j : trace[k].row.run = run /\ trace[k].row.decision \in BudgetProtection}
Loops(run, i, j) == {k \in i..j : trace[k].row.run = run /\ trace[k].row.decision = "loop_detected"}

(* The tracker keys that rows i to j touch.                                *)
KeysTouched(i, j) ==
  {<<"budget_exhausted", run>> : run \in {r \in Runs : Blocks(r, i, j) # {}}}
    \cup {<<"sustained_loop", run>> : run \in {r \in Runs : Loops(r, i, j) # {}}}

(* IncidentConfig: "budget_exhausted trips at >= this many                 *)
(* budget-protection blocks per run".  Every run with that many since the  *)
(* last restart, and between them no more trackers touched than are kept,  *)
(* has its incident, unless as many others as are kept crowd it out, of    *)
(* which all but the newest were last seen no earlier.                     *)
BlocksRaiseIncident ==
  \A run \in Runs : \A i, j \in Blocks(run, epoch + 1, Len(trace)) :
    (/\ Cardinality(Blocks(run, i, j)) = BudgetBlocks /\ BudgetBlocks <= TrackerCap
     /\ Cardinality(KeysTouched(i, j)) <= MaxTrackerKeys)
      => \/ <<"budget_exhausted", run>> \in DOMAIN det.incidents
         \/ /\ Cardinality(DOMAIN det.incidents) = MaxIncidents
            /\ Cardinality({id \in DOMAIN det.incidents : det.incidents[id].last >= Stamp(j)})
                 >= MaxIncidents - 1

(* Row i completes what the detector counts: the blocks of a run, the      *)
(* loops of a run since one in the window, the runs of an agent last seen  *)
(* in the window, or the cost of the window; all since the last restart.   *)
TrippedBy(id, i) ==
  LET start == trace[i].epoch + 1
      last(run) == LET rows == {k \in start..i : trace[k].row.run = run /\ trace[k].row.agent = id[2]}
                   IN IF rows = {} THEN 0 ELSE Stamp(Max(rows))
      burnt == {k \in start..i : trace[k].row.ts \in trace[i].at - SpikeWindow .. trace[i].at}
  IN CASE id[1] = "budget_exhausted" -> Cardinality(Blocks(id[2], start, i)) >= BudgetBlocks
       [] id[1] = "sustained_loop" ->
            \E k \in start..i : /\ Stamp(k) >= trace[i].at - LoopWindow
                                /\ Cardinality(Loops(id[2], k, i)) >= LoopRepeats
       [] id[1] = "fanout_explosion" ->
            Cardinality({run \in Runs : last(run) >= Larger(1, trace[i].at - FanoutWindow)}) >= FanoutRuns
       [] id[1] = "spend_spike" -> Total(LAMBDA k : Clamp(trace[k].row.cost), burnt) >= SpendPerMin

(* An incident of this plane's own is never made up: the row it was first  *)
(* seen at completed what its detector counts, within the detector's       *)
(* window and since the restart before, even when the incident was evicted *)
(* and opened again, and whatever another service reports under its key.   *)
IncidentsJustified ==
  \A id \in DOMAIN det.incidents : det.incidents[id].source = NoSource =>
    \E i \in DOMAIN trace :
      /\ det.incidents[id].first = IF id[1] = "spend_spike" THEN trace[i].at ELSE Stamp(i)
      /\ TrippedBy(id, i)

(* One opening of an incident is pushed at most once per window, across    *)
(* repeated trips, reports from elsewhere and restarts that do not lose    *)
(* the push.  An incident that was evicted, or whose push was lost in a    *)
(* crash, may be pushed again at once.                                     *)
PushedOncePerWindow ==
  \A i, j \in DOMAIN pushes :
    i < j /\ pushes[i].id = pushes[j].id /\ pushes[i].opening = pushes[j].opening
      => pushes[j].at - pushes[i].at > NotifyWindow
=============================================================================
