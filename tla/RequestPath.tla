---------------------------- MODULE RequestPath ----------------------------
(***************************************************************************)
(* The gateway's request path: the handler `messages` of                   *)
(* crates/gateway/src/proxy.rs with stream_managed, buffered_managed and   *)
(* the SettleGuard of settle.rs, many requests at a time, over the run     *)
(* ledger (LedgerOps) and the unit ledger (UnitOps).                       *)
(*                                                                         *)
(* A request is a task whose steps are its accesses to shared state: every *)
(* access takes a lock for itself, so the steps of other requests, the     *)
(* operator's kills and budget overrides come between any two of them.     *)
(* What a gate concludes from the request's content alone (identity, DLP,  *)
(* cache similarity, loops, WASM, Wardryx, firewall) is a free choice of   *)
(* the environment.  The unit ledger is seen within one month; UnitLedger  *)
(* covers the month boundary.                                              *)
(***************************************************************************)
EXTENDS LedgerOps, UnitOps, Sequences

CONSTANTS
  NumCalls,       \* requests in the behaviour
  Requests,       \* what a request may carry
  NoUnit,         \* no business unit resolved (the empty string)
  Costs,          \* actual costs the provider's usage may price to
  Mode,           \* Policy.mode: "enforce", or "shadow" (shadow and warn)
  MaxSteps,       \* Policy.max_steps
  OverrideBudgets,\* budgets an operator may set in the Cloud
  NoOverride,     \* no Cloud budget for the run
  Disconnects     \* when a client may go away: "midstream" or "anytime"

ASSUME NumCallsAssumption == NumCalls \in Nat
ASSUME NoUnitAssumption == NoUnit \notin Units
ASSUME NoOverrideAssumption == NoOverride \notin Int
ASSUME RequestsAssumption ==
  Requests \subseteq [run : Runs \cup {NoRun}, parent : Runs \cup {NoRun}, budget : Int,
                      unit : Units \cup {NoUnit}, stream : BOOLEAN, estimate : Nat]
ASSUME CostsAssumption == Costs \subseteq Nat
ASSUME ModeAssumption == Mode \in {"enforce", "shadow"}
ASSUME MaxStepsAssumption == MaxSteps \in Nat
ASSUME OverrideBudgetsAssumption == OverrideBudgets \subseteq Int
ASSUME DisconnectsAssumption == Disconnects \in {"midstream", "anytime"}

Calls == 1 .. NumCalls

ThisMonth == 1

VARIABLES
  ledger,     \* the run ledger
  unit,       \* the unit ledger's entries
  killed,     \* AppState.killed
  overrides,  \* AppState.cloud_budgets
  call        \* each request's task

vars == <<ledger, unit, killed, overrides, call>>

(* Where a task stands: the access to shared state it makes next.          *)
Before == {"open", "kill", "screen", "snapshot", "policy", "unit", "reserve"}
Upstream == {"send", "collect", "stream"}
Settling == {"refund", "release", "settle", "settle_unit", "drop"}
Places == {"idle", "over"} \cup Before \cup Upstream \cup Settling

Decisions ==
  {"identity_mismatch", "killed", "dlp_blocked", "cache_hit", "policy_violation",
   "loop_detected", "wasm_policy", "wardryx_deny", "wardryx_hold",
   "unit_budget_exceeded", "budget_exceeded", "allow", "taint_blocked"}

NoRequest ==
  [run |-> NoRun, parent |-> NoRun, budget |-> 0, unit |-> NoUnit, stream |-> FALSE,
   estimate |-> 0]

(* req, budget, steps and actual are the handler's locals; held and        *)
(* unitHeld its Reservation and UnitReservation while they are unsettled;  *)
(* trace the decisions it recorded in the sink, priced at cost.  central   *)
(* tells whether budget came from the Cloud, late whether the run was      *)
(* already killed when the request opened it (history).                    *)
IdleCall ==
  [at |-> "idle", req |-> NoRequest, budget |-> 0, central |-> FALSE, late |-> FALSE,
   steps |-> 0, held |-> FALSE, unitHeld |-> FALSE, actual |-> 0,
   trace |-> << >>, cost |-> 0]

Init ==
  /\ ledger = EmptyLedger
  /\ unit = [u \in Units |-> NoEntry]
  /\ killed = {}
  /\ overrides = [r \in Runs |-> NoOverride]
  /\ call = [c \in Calls |-> IdleCall]

-----------------------------------------------------------------------------
(* The operator, through the pollers: kills accumulate, budgets are        *)
(* replaced wholesale.                                                     *)
Kill(r) ==
  /\ killed' = killed \cup {r}
  /\ UNCHANGED <<ledger, unit, overrides, call>>

SetCloudBudgets(f) ==
  /\ overrides' = f
  /\ UNCHANGED <<ledger, unit, killed, call>>

-----------------------------------------------------------------------------
(* The task's control.                                                     *)
At(c, place) == call[c].at = place
Req(c) == call[c].req
Run(c) == call[c].req.run

Become(c, rec) == call' = [call EXCEPT ![c] = rec]
Goto(c, place) == Become(c, [call[c] EXCEPT !.at = place])
(* Record a decision in the sink and answer the client.                    *)
Answer(c, decision) ==
  Become(c, [call[c] EXCEPT !.at = "over", !.trace = Append(@, decision)])

shared == <<ledger, unit, killed, overrides>>

(* A request with an unknown client key (401) or without a run id          *)
(* (pass-through) touches no ledger.  Otherwise the budget is the Cloud's  *)
(* if there is one, else the header's or the policy's.                     *)
Arrive(c, q) ==
  /\ At(c, "idle")
  /\ Become(c, [IdleCall EXCEPT
       !.at = IF q.run = NoRun THEN "over" ELSE "open",
       !.req = q,
       !.central = q.run # NoRun /\ overrides[q.run] # NoOverride,
       !.budget = IF q.run # NoRun /\ overrides[q.run] # NoOverride
                  THEN overrides[q.run] ELSE q.budget])
  /\ UNCHANGED shared

OpenStep(c) ==
  /\ At(c, "open")
  /\ ledger' = OpenRun(ledger, Run(c), call[c].budget, Req(c).parent)
  /\ Become(c, [call[c] EXCEPT !.at = "kill", !.late = Run(c) \in killed])
  /\ UNCHANGED <<unit, killed, overrides>>

IdentityMismatch(c) ==
  /\ At(c, "kill")
  /\ Answer(c, "identity_mismatch")
  /\ UNCHANGED shared

\* Mutant of KillCheck: the refusal is recorded but the handler does not return.
KillCheckNoReturn(c) ==
  /\ At(c, "kill")
  /\ Become(c, [call[c] EXCEPT !.at = "screen",
       !.trace = IF Run(c) \in killed THEN Append(@, "killed") ELSE @])
  /\ UNCHANGED shared

KillCheck(c) ==
  /\ At(c, "kill")
  /\ IF Run(c) \in killed THEN Answer(c, "killed") ELSE Goto(c, "screen")
  /\ UNCHANGED shared

(* DLP on secrets records its block, DLP on personal data does not.        *)
DlpBlock(c) == Answer(c, "dlp_blocked") \/ Goto(c, "over")

(* Only a buffered request can be served from the semantic cache.          *)
CacheHit(c) == ~Req(c).stream /\ Answer(c, "cache_hit")

Screen(c) ==
  /\ At(c, "screen")
  /\ DlpBlock(c) \/ CacheHit(c) \/ Goto(c, "snapshot")
  /\ UNCHANGED shared

TakeSnapshot(c) ==
  /\ At(c, "snapshot")
  /\ Become(c, [call[c] EXCEPT !.at = "policy", !.steps = ledger[Run(c)].steps])
  /\ UNCHANGED shared

(* evaluate: max_steps against the snapshot, then the per-step cap.        *)
StepsReached(c) == Mode = "enforce" /\ call[c].steps >= MaxSteps

LimitBlock(c) == Mode = "enforce" /\ Answer(c, "policy_violation")

LoopBlock(c) == Mode = "enforce" /\ Answer(c, "loop_detected")

(* A WASM policy and the Wardryx PDP block in any mode of the policy.      *)
WasmBlock(c) == Answer(c, "wasm_policy")

WardryxBlock(c) == Answer(c, "wardryx_deny") \/ Answer(c, "wardryx_hold")

PolicyGate(c) ==
  /\ At(c, "policy")
  /\ \/ LimitBlock(c)
     \/ /\ ~StepsReached(c)
        /\ LoopBlock(c) \/ WasmBlock(c) \/ WardryxBlock(c) \/ Goto(c, "unit")
  /\ UNCHANGED shared

UnitCap(c) == EffectiveCap([u \in Units |-> Uncapped], Req(c).unit)

(* The unit's monthly cap, before the run's budget.                        *)
UnitGate(c) ==
  LET u == Req(c).unit
  IN  /\ At(c, "unit")
      /\ IF u = NoUnit \/ UnitCap(c) = Uncapped
         THEN Goto(c, "reserve") /\ UNCHANGED unit
         ELSE IF Mode = "shadow" \/ UnitFits(unit[u], ThisMonth, Req(c).estimate, UnitCap(c))
         THEN /\ unit' = [unit EXCEPT ![u] = UnitHold(@, ThisMonth, Req(c).estimate)]
              /\ Become(c, [call[c] EXCEPT !.at = "reserve", !.unitHeld = TRUE])
         ELSE /\ unit' = [unit EXCEPT ![u] = Rolled(@, ThisMonth)]
              /\ Answer(c, "unit_budget_exceeded")
      /\ UNCHANGED <<ledger, killed, overrides>>

Reserved(c) == Become(c, [call[c] EXCEPT !.at = "send", !.held = TRUE])

RunGate(c) ==
  /\ At(c, "reserve") /\ Mode = "enforce"
  /\ IF CanReserve(ledger, Run(c), Req(c).estimate)
     THEN ledger' = Reserve(ledger, Run(c), Req(c).estimate) /\ Reserved(c)
     ELSE Goto(c, "refund") /\ UNCHANGED ledger
  /\ UNCHANGED <<unit, killed, overrides>>

RunGateUnchecked(c) ==
  /\ At(c, "reserve") /\ Mode = "shadow"
  /\ ledger' = ReserveUnchecked(ledger, Run(c), Req(c).estimate)
  /\ Reserved(c)
  /\ UNCHANGED <<unit, killed, overrides>>

SettleUnit(c, actual) ==
  unit' = IF call[c].unitHeld
          THEN [unit EXCEPT ![Req(c).unit] =
                  UnitSettle(@, ThisMonth, ThisMonth, Req(c).estimate, actual)]
          ELSE unit

\* Mutant of Refund: a refused call keeps its unit reservation.
RefundNothing(c) ==
  /\ At(c, "refund")
  /\ Answer(c, "budget_exceeded")
  /\ UNCHANGED shared

(* The run's budget refused the call: the unit's reservation is released.  *)
Refund(c) ==
  /\ At(c, "refund")
  /\ SettleUnit(c, 0)
  /\ Become(c, [call[c] EXCEPT !.at = "over", !.unitHeld = FALSE,
                               !.trace = Append(@, "budget_exceeded")])
  /\ UNCHANGED <<ledger, killed, overrides>>

-----------------------------------------------------------------------------
(* Upstream.  provider.send answers, or fails and the call costs nothing.  *)
Send(c) ==
  /\ At(c, "send")
  /\ Goto(c, IF Req(c).stream THEN "stream" ELSE "collect")
  /\ UNCHANGED shared

SettleRun(c, actual) ==
  ledger' = Settle(ledger, Run(c), Req(c).estimate, actual)

\* Mutant of UpstreamFails: the error path returns without settling.
UpstreamFailsKeeps(c) ==
  /\ call[c].at \in {"send", "collect"}
  /\ Goto(c, "over")
  /\ UNCHANGED shared

(* send or collect failed: settle at zero, then the unit, and no record.   *)
UpstreamFails(c) ==
  /\ call[c].at \in {"send", "collect"}
  /\ SettleRun(c, 0)
  /\ Become(c, [call[c] EXCEPT !.at = "release", !.held = FALSE])
  /\ UNCHANGED <<unit, killed, overrides>>

ReleaseUnit(c) ==
  /\ At(c, "release")
  /\ SettleUnit(c, 0)
  /\ Become(c, [call[c] EXCEPT !.at = "over", !.unitHeld = FALSE])
  /\ UNCHANGED <<ledger, killed, overrides>>

(* The body is in: the cost is that of the reported usage, or the reserved *)
(* estimate when none could be parsed.                                     *)
Collect(c, actual) ==
  /\ At(c, "collect")
  /\ SettleRun(c, actual)
  /\ Become(c, [call[c] EXCEPT !.at = "settle_unit", !.held = FALSE, !.actual = actual])
  /\ UNCHANGED <<unit, killed, overrides>>

(* The stream ends, breaks off, or its client goes away: either way the    *)
(* SettleGuard settles with the usage parsed so far, or the estimate.      *)
StreamEnds(c, actual) ==
  /\ At(c, "stream")
  /\ Become(c, [call[c] EXCEPT !.at = "settle", !.actual = actual])
  /\ UNCHANGED shared

(* SettleGuard::settle_now; the reservation is taken out of the guard      *)
(* first.                                                                  *)
GuardSettle(c) ==
  /\ At(c, "settle")
  /\ SettleRun(c, call[c].actual)
  /\ Become(c, [call[c] EXCEPT !.at = "settle_unit", !.held = FALSE])
  /\ UNCHANGED <<unit, killed, overrides>>

(* The call's "allow" record, priced at its cost.                          *)
Recorded(c) ==
  Become(c, [call[c] EXCEPT !.at = "drop", !.unitHeld = FALSE, !.cost = call[c].actual,
                            !.trace = Append(@, "allow")])

\* Mutant of FinishSettle: the unit is charged the estimate.
FinishSettleEstimate(c) ==
  /\ At(c, "settle_unit")
  /\ SettleUnit(c, Req(c).estimate)
  /\ Recorded(c)
  /\ UNCHANGED <<ledger, killed, overrides>>

(* The unit's half of a settle, then the record.                           *)
FinishSettle(c) ==
  /\ At(c, "settle_unit")
  /\ SettleUnit(c, call[c].actual)
  /\ Recorded(c)
  /\ UNCHANGED <<ledger, killed, overrides>>

(* The firewall may still withhold a buffered answer, with a record of its *)
(* own that carries no cost.                                               *)
Withhold(c) ==
  /\ At(c, "drop") /\ ~Req(c).stream
  /\ Answer(c, "taint_blocked")
  /\ UNCHANGED shared

(* End of the handler: the guard's Drop settles if a reservation is still  *)
(* in it.                                                                  *)
Finish(c) ==
  /\ At(c, "drop")
  /\ Goto(c, IF call[c].held THEN "settle" ELSE "over")
  /\ UNCHANGED shared

(* The client goes away and the handler's future is dropped where it       *)
(* waits: for the PDP, for provider.send, or for the buffered body.        *)
Cancel(c) ==
  /\ Disconnects = "anytime"
  /\ call[c].at \in {"policy", "send", "collect"}
  /\ Goto(c, "over")
  /\ UNCHANGED shared

-----------------------------------------------------------------------------
Gates(c) ==
  \/ OpenStep(c)
  \/ IdentityMismatch(c)
  \/ KillCheck(c)
  \/ Screen(c)
  \/ TakeSnapshot(c)
  \/ PolicyGate(c)
  \/ UnitGate(c)
  \/ RunGate(c)
  \/ RunGateUnchecked(c)
  \/ Refund(c)

Serves(c) ==
  \/ Send(c)
  \/ UpstreamFails(c)
  \/ ReleaseUnit(c)
  \/ \E a \in Costs \cup {Req(c).estimate} : Collect(c, a) \/ StreamEnds(c, a)
  \/ GuardSettle(c)
  \/ FinishSettle(c)
  \/ Withhold(c)
  \/ Finish(c)

Next ==
  \/ \E r \in Runs : Kill(r)
  \/ \E f \in [Runs -> OverrideBudgets \cup {NoOverride}] : SetCloudBudgets(f)
  \/ \E c \in Calls :
       \/ \E q \in Requests : Arrive(c, q)
       \/ Gates(c)
       \/ ~At(c, "idle") /\ Serves(c)
       \/ Cancel(c)

Spec == Init /\ [][Next]_vars

(* A handler that can take its next step does; and a response, once        *)
(* requested, ends or fails (the provider's doing: the code sets no        *)
(* deadline on it).                                                        *)
FairSpec ==
  Spec /\ \A c \in Calls : WF_vars(Gates(c)) /\ WF_vars(~At(c, "idle") /\ Serves(c))

-----------------------------------------------------------------------------
(* The shared state and every task stay within their types.                *)
TypeOK ==
  /\ ledger \in Ledgers
  /\ unit \in [Units -> UnitState]
  /\ killed \subseteq Runs
  /\ overrides \in [Runs -> OverrideBudgets \cup {NoOverride}]
  /\ \A c \in Calls :
       /\ call[c].at \in Places
       /\ call[c].req \in Requests \cup {NoRequest}
       /\ call[c].actual \in Nat
       /\ \A i \in 1 .. Len(call[c].trace) : call[c].trace[i] \in Decisions

(* A request counts at every level of its run's chain.                     *)
Holds(c, r) ==
  IF call[c].held /\ r \in Chain(ledger, Run(c)) THEN Req(c).estimate ELSE 0

HoldsUnit(c, u) == IF call[c].unitHeld /\ Req(c).unit = u THEN Req(c).estimate ELSE 0

(* The headroom a request that is over has left behind.                    *)
Stranded(c) == At(c, "over") /\ (call[c].held \/ call[c].unitHeld)

(* No headroom is handed out twice or freed for another, on any way out of *)
(* the handler (gates, refusals, upstream errors, broken streams, clients  *)
(* leaving at any await): a run and a unit have reserved exactly the       *)
(* estimates of the requests that hold a reservation, and the only ones    *)
(* that are over and still do are those nobody waited for, which no record *)
(* in the trace answers.                                                   *)
HeadroomAccounted ==
  /\ \A r \in Runs : ledger[r].reserved = Total([c \in Calls |-> Holds(c, r)], NumCalls)
  /\ \A u \in Units : unit[u].reserved = Total([c \in Calls |-> HoldsUnit(c, u)], NumCalls)
  /\ \A c \in Calls : Stranded(c) => call[c].trace = << >>

(* Clients that leave a response in mid-stream strand no headroom: the     *)
(* SettleGuard settles in their place.                                     *)
NothingStranded == \A c \in Calls : ~Stranded(c)

Quiet == \A c \in Calls : call[c].at \in {"idle", "over"}

Traced(c) == \E i \in 1 .. Len(call[c].trace) : call[c].trace[i] = "allow"

(* Whenever nothing is in flight, the cost on the trace's "allow" records  *)
(* is what the run ledger and the unit ledger say was spent: the three     *)
(* accounts, written at different moments, agree.                          *)
SpendReconciles ==
  Quiet =>
    /\ \A r \in Runs : ledger[r].spent =
         Total([c \in Calls |-> IF Traced(c) /\ r \in Chain(ledger, Run(c))
                                THEN call[c].cost ELSE 0], NumCalls)
    /\ \A u \in Units : BaseCap[u] # Uncapped => unit[u].spent =
         Total([c \in Calls |-> IF Traced(c) /\ Req(c).unit = u
                                THEN call[c].cost ELSE 0], NumCalls)

(* An operator's kill is a hard stop: a request that comes to its run      *)
(* after the kill never reserves and never reaches the provider.           *)
KilledNeverForwarded ==
  \A c \in Calls : call[c].late => ~call[c].held /\ ~Traced(c) /\ call[c].at \notin Upstream

(* Every reservation a request takes is given back, whichever way the      *)
(* response ends.                                                          *)
ReservationsReleased ==
  \A c \in Calls : call[c].held ~> ~call[c].held

(* settle.rs: a guard "guarantees a streaming reservation is always        *)
(* settled", even when the client disconnects: a streamed request that is  *)
(* over holds no reservation.                                              *)
StreamAlwaysSettled ==
  \A c \in Calls : call[c].at = "over" /\ Req(c).stream => ~call[c].held /\ ~call[c].unitHeld

(* docs/11: a Cloud budget is enforced "overriding the client-supplied"    *)
(* header: a request that found a Cloud budget for its run is not admitted *)
(* beyond it.                                                              *)
CentralBudgetEnforced ==
  [][\A c \in Calls :
       Mode = "enforce" /\ call[c].central /\ ~call[c].held /\ call'[c].held
         => Committed(ledger', Run(c)) <= call[c].budget]_vars

(* docs/02: max_steps is a limit in mode enforce: a run is never granted   *)
(* more steps than that.                                                   *)
StepLimit ==
  Mode = "enforce" => \A r \in Runs : ledger[r].steps <= MaxSteps
=============================================================================
