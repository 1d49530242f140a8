----------------------------- MODULE Economics -----------------------------
(***************************************************************************)
(* What the call trace says of the money: the rows the gateway records     *)
(* (the sink.record sites of crates/gateway/src/proxy.rs and settle.rs)    *)
(* and the commands that read them back: focus-export                      *)
(* (gateway/src/focusexport.rs), outcomes (core/src/outcomes.rs) and       *)
(* backtest (core/src/backtest.rs).  Calls of a run overlap; the ledger    *)
(* that numbers them is in memory and starts again with the gateway.       *)
(***************************************************************************)
EXTENDS Integers, Sequences, SequencesExt, FiniteSets, Functions, TLC

CONSTANTS
  Calls, Runs, RunOf,   \* calls, runs, and the run of each call
  TagsOf,      \* what X-Fuse-Outcome may say in each call; "" is no tag
  Refusals,    \* the decisions of calls that were not forwarded
  Actual, Estimate,     \* what a call costs, and what it is estimated at
  Policies,    \* [run, step, steps], each a set of at most one limit
  MaxRestarts

(* What an instance must satisfy.                                          *)
EconomicsConstants ==
  /\ Actual \in Nat /\ Estimate \in Nat \ {0} /\ MaxRestarts \in Nat
  /\ RunOf \in [Calls -> Runs]

VARIABLES
  restarts,
  steps,       \* the ledger's step counter of each run
  call,        \* [phase, tag, step]
  rows,        \* the trace, in the order of recording
  charged      \* ghost: [ts, amount] of every settlement

vars == <<restarts, steps, call, rows, charged>>

Init ==
  /\ restarts = 0 /\ steps = [r \in Runs |-> 0]
  /\ call = [c \in Calls |-> [phase |-> "new", tag |-> "", step |-> 0]]
  /\ rows = <<>> /\ charged = <<>>

-----------------------------------------------------------------------------
(* The refusals that record the avoided estimate; the others record zero.  *)
CarriesEstimate == {"killed", "policy_violation", "loop_detected", "wasm_policy", "unit_budget_exceeded", "budget_exceeded"}

(* The clock moves on with every record.                                   *)
Row(c, decision, tokens, cost, step) ==
  [call |-> c, run |-> RunOf[c], decision |-> decision, tokens |-> tokens, cost |-> cost, step |-> step, outcome |-> call[c].tag, ts |-> Len(rows)]

(* The snapshot a call is judged by.                                       *)
Arrive(c, tag) ==
  /\ call[c].phase = "new"
  /\ call' = [call EXCEPT ![c] = [phase |-> "snapshot", tag |-> tag, step |-> steps[RunOf[c]] + 1]]
  /\ UNCHANGED <<restarts, steps, rows, charged>>

(* Every refusal, and a cache hit, records a row with the step the call    *)
(* would have had; the counter does not move.                              *)
Refuse(c, d) ==
  /\ call[c].phase = "snapshot"
  /\ rows' = Append(rows, Row(c, d, 0, IF d \in CarriesEstimate THEN Estimate ELSE 0, call[c].step))
  /\ call' = [call EXCEPT ![c].phase = "done"]
  /\ UNCHANGED <<restarts, steps, charged>>

Reserve(c) ==
  /\ call[c].phase = "snapshot"
  /\ steps' = [steps EXCEPT ![RunOf[c]] = @ + 1]
  /\ call' = [call EXCEPT ![c].phase = "upstream", ![c].step = steps'[RunOf[c]]]
  /\ UNCHANGED <<restarts, rows, charged>>

(* A failed call gives its reservation back and records nothing.           *)
UpstreamFails(c) ==
  /\ call[c].phase = "upstream" /\ call' = [call EXCEPT ![c].phase = "done"]
  /\ UNCHANGED <<restarts, steps, rows, charged>>

(* Settled with the usage that was parsed, or with the estimate when none  *)
(* was; the firewall's verdict on a buffered answer is a second row.       *)
Settle(c, parsed, tainted) ==
  /\ call[c].phase = "upstream" /\ call' = [call EXCEPT ![c].phase = "done"]
  /\ LET cost == IF parsed THEN Actual ELSE Estimate
     IN /\ rows' = rows \o <<Row(c, "allow", IF parsed THEN 1 ELSE 0, cost, call[c].step)>>
                        \o (IF tainted THEN <<Row(c, "taint_blocked", 0, 0, call[c].step)>> ELSE <<>>)
        /\ charged' = Append(charged, [ts |-> Len(rows), amount |-> cost])
  /\ UNCHANGED <<restarts, steps>>

(* The trace stays; the ledger and the calls in flight do not.             *)
Restart ==
  /\ restarts < MaxRestarts /\ restarts' = restarts + 1
  /\ steps' = [r \in Runs |-> 0]
  /\ call' = [c \in Calls |-> IF call[c].phase \in {"new", "done"} THEN call[c] ELSE [call[c] EXCEPT !.phase = "done"]]
  /\ UNCHANGED <<rows, charged>>

Next ==
  \/ Restart
  \/ \E c \in Calls : \/ \E t \in TagsOf[c] : Arrive(c, t)
                      \/ \E d \in Refusals : Refuse(c, d)
                      \/ Reserve(c) \/ UpstreamFails(c)
                      \/ \E parsed, tainted \in BOOLEAN : Settle(c, parsed, tainted)

Spec == Init /\ [][Next]_vars

-----------------------------------------------------------------------------
(* sqlq::query: the files of the trace come in any order, the rows of a    *)
(* file in the order they were recorded; here, two files of any length.    *)
Readings == {SubSeq(rows, k + 1, Len(rows)) \o SubSeq(rows, 1, k) : k \in 1..Len(rows)}

(* load_records, load_calls: both ends of the window are in it.            *)
InWindow(t, from, to) == t >= from /\ t <= to
Load(reading, from, to) == SelectSeq(reading, LAMBDA r : InWindow(r.ts, from, to))

SumOf(Value(_), seq) == FoldLeft(LAMBDA sum, e : sum + Value(e), 0, seq)

\* Mutant of IsBlocked: the reasons of the unit ledger are missing.
IsBlockedOld(decision) ==
  decision \in {"budget_exceeded", "policy_violation", "loop_detected", "killed", "wasm_policy", "taint_blocked", "dlp_blocked"}

(* is_blocked_decision *)
IsBlocked(decision) ==
  decision \in {"budget_exceeded", "policy_violation", "loop_detected", "killed", "wasm_policy", "taint_blocked", "dlp_blocked",
                "unit_budget_exceeded", "identity_mismatch"}

(* to_row: BilledCost, x_blocked and x_cost_basis                          *)
ToRow(r) ==
  [billed |-> IF IsBlocked(r.decision) THEN 0 ELSE r.cost,
   basis |-> IF IsBlocked(r.decision) THEN "blocked" ELSE IF r.tokens = 0 /\ r.cost # 0 THEN "estimated" ELSE "settled"]

(* Rows by step, equal steps as they were read.                            *)
ByStep(calls, run) ==
  LET own == SelectSeq(calls, LAMBDA r : r.run = run)
      before(i, j) == own[i].step < own[j].step \/ (own[i].step = own[j].step /\ i < j)
      order == SortSeq([i \in DOMAIN own |-> i], before)
  IN [i \in DOMAIN order |-> own[order[i]]]

(* compute_outcomes, the first pass                                        *)
Winner(calls, run) ==
  FoldLeft(LAMBDA tag, r : IF r.outcome = "" THEN tag ELSE r.outcome, "", ByStep(calls, run))

(* compute_outcomes, the second: a row for every tag that some run has     *)
ComputeOutcomes(calls) ==
  LET tagOf == [r \in {calls[i].run : i \in DOMAIN calls} |-> Winner(calls, r)]
  IN [tag \in {tagOf[r] : r \in DOMAIN tagOf} |->
       LET own == SelectSeq(calls, LAMBDA r : tagOf[r.run] = tag)
       IN [runs |-> Cardinality({r \in DOMAIN tagOf : tagOf[r] = tag}),
           cost |-> SumOf(LAMBDA r : IF IsBlocked(r.decision) THEN 0 ELSE r.cost, own),
           calls |-> Len(own),
           blocked |-> Len(SelectSeq(own, LAMBDA r : IsBlocked(r.decision)))]]

Exceeds(limit, amount) == \E l \in limit : amount > l

(* backtest: the verdict on the next call of a run                         *)
Judge(p, st, cost) ==
  IF st.stopped \/ (\E l \in p.steps : st.kept >= l) \/ Exceeds(p.run, st.running + cost) THEN "stop"
  ELSE IF Exceeds(p.step, cost) THEN "block" ELSE "keep"

(* backtest, for one run: what is kept, how much of it, and what is saved  *)
Replay(calls, run, p) ==
  FoldLeft(LAMBDA st, r :
    LET v == Judge(p, st, r.cost)
    IN IF v = "keep" THEN [st EXCEPT !.running = @ + r.cost, !.kept = @ + 1, !.verdicts = Append(@, v)]
       ELSE [st EXCEPT !.saved = @ + r.cost, !.stopped = @ \/ v = "stop", !.verdicts = Append(@, v)],
    [running |-> 0, kept |-> 0, saved |-> 0, stopped |-> FALSE, verdicts |-> <<>>], ByStep(calls, run))

(* BacktestReport *)
Backtest(calls, p) ==
  LET runs == {calls[i].run : i \in DOMAIN calls}
      report == [r \in runs |-> Replay(calls, r, p)]
  IN [spent |-> SumOf(LAMBDA r : r.cost, calls),
      saved |-> FoldFunction(+, 0, [r \in runs |-> report[r].saved]),
      blocked |-> FoldFunction(+, 0, [r \in runs |-> Len(report[r].verdicts) - report[r].kept]),
      affected |-> Cardinality({r \in runs : report[r].kept < Len(report[r].verdicts)})]

-----------------------------------------------------------------------------
(* The reports are judged where every call is over; a call that a restart  *)
(* cut off leaves no row.                                                  *)
AtRest == \A c \in Calls : call[c].phase = "done"

(* All of it, and all but the first row and those after the third.         *)
Windows == {<<0, Len(rows)>>, <<1, 2>>}

(* Whatever was refused, served from the cache, settled by estimate or     *)
(* blocked after the fact, and in whatever order the files are read: the   *)
(* money an export bills, and the money the outcomes add up to, is what    *)
(* was charged in the window; and a call is billed once, "estimated"       *)
(* exactly when no usage was parsed.                                       *)
ReportsReconcile ==
  AtRest => \A reading \in Readings, w \in Windows :
    LET calls == Load(reading, w[1], w[2])
        truth == SumOf(LAMBDA s : s.amount, SelectSeq(charged, LAMBDA s : InWindow(s.ts, w[1], w[2])))
        outcomes == ComputeOutcomes(calls)
    IN /\ SumOf(LAMBDA r : ToRow(r).billed, calls) = truth
       /\ FoldFunction(+, 0, [t \in DOMAIN outcomes |-> outcomes[t].cost]) = truth
       /\ \A c \in Calls : Cardinality({i \in DOMAIN calls : calls[i].call = c /\ ToRow(calls[i]).basis # "blocked" /\ ToRow(calls[i]).billed > 0}) <= 1
       /\ \A i \in DOMAIN calls : ToRow(calls[i]).basis = "estimated" => calls[i].decision = "allow" /\ calls[i].cost = Estimate

(* The outcomes count every run and every row once, and a run's tag is     *)
(* the one its highest numbered tagged call gave it, where that call is    *)
(* the only one with its number; the order of the files does not matter.   *)
OutcomesPartition ==
  AtRest => \A reading \in Readings :
    LET outcomes == ComputeOutcomes(reading)
        runs == {reading[i].run : i \in DOMAIN reading}
    IN /\ FoldFunction(+, 0, [t \in DOMAIN outcomes |-> outcomes[t].runs]) = Cardinality(runs)
       /\ FoldFunction(+, 0, [t \in DOMAIN outcomes |-> outcomes[t].calls]) = Len(reading)
       /\ \A i \in DOMAIN reading :
            (/\ reading[i].outcome # ""
             /\ \A j \in DOMAIN reading : reading[j].run = reading[i].run /\ reading[j].outcome \notin {"", reading[i].outcome} => reading[j].step < reading[i].step)
            => Winner(reading, reading[i].run) = reading[i].outcome

(* A policy that is tried on the trace keeps each run within its limits,   *)
(* refuses a call only if the limits are in the way or the run was         *)
(* stopped, and saves exactly what it does not keep.                       *)
BacktestSound ==
  AtRest => \A reading \in Readings, p \in Policies :
    LET runs == {reading[i].run : i \in DOMAIN reading}
        total == Backtest(reading, p)
    IN /\ total.spent - total.saved = FoldFunction(+, 0, [r \in runs |-> Replay(reading, r, p).running])
       /\ \A run \in runs :
            LET ordered == ByStep(reading, run)
                v == Replay(reading, run, p).verdicts
                keptBefore(k) == {i \in 1..(k - 1) : v[i] = "keep"}
                cost(S) == FoldFunction(+, 0, [i \in S |-> ordered[i].cost])
                fits(k) == /\ ~Exceeds(p.run, cost(keptBefore(k)) + ordered[k].cost)
                           /\ \A l \in p.steps : Cardinality(keptBefore(k)) < l
            IN \A k \in DOMAIN v :
                 /\ v[k] = "keep" => fits(k) /\ ~Exceeds(p.step, ordered[k].cost)
                 /\ v[k] # "keep" => Exceeds(p.step, ordered[k].cost) \/ \E j \in 1..k : ~fits(j)
=============================================================================
