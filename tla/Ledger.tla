------------------------------- MODULE Ledger -------------------------------
(***************************************************************************)
(* Concurrent callers of the budget ledger (crates/core/src/ledger.rs).    *)
(*                                                                         *)
(* Every API call of a run goes through reserve (or reserve_unchecked in   *)
(* the shadow and warn modes) before the upstream request and through      *)
(* settle after it; between the two, other calls open runs, re-declare     *)
(* budgets, reserve and settle.  The ledger's mutex makes each operation   *)
(* atomic, so the interleaving of calls 1 .. NumCalls below is the         *)
(* concurrency there is.                                                   *)
(***************************************************************************)
EXTENDS LedgerOps

CONSTANTS
  NumCalls,      \* calls in the behaviour; each reserves and settles once
  Budgets,       \* budgets a request may declare
  Amounts,       \* estimates and actual costs
  ParentsFirst   \* TRUE: a run is first declared only after its parent is

ASSUME NumCallsAssumption == NumCalls \in Nat
ASSUME BudgetsAssumption == Budgets \subseteq Int
ASSUME AmountsAssumption == Amounts \subseteq Nat
ASSUME ParentsFirstAssumption == ParentsFirst \in BOOLEAN

Calls == 1 .. NumCalls

VARIABLES
  ledger,   \* the ledger's map
  call,     \* each call's reservation and where it stands
  peak,     \* history: the highest budget each run ever had
  overrun   \* history: what was admitted at each run without a budget check
            \* (reserve_unchecked, and the part of an actual cost above its estimate)

vars == <<ledger, call, peak, overrun>>

Phases == {"idle", "held", "refused", "settled"}

(* amount and step are the Reservation; levels are the runs it was charged *)
(* at and actual what it settled for (history); blocked names the level a  *)
(* refusal reports.                                                        *)
CallState ==
  [phase : Phases, run : Runs \cup {NoRun}, amount : Nat, step : Nat,
   levels : SUBSET Runs, actual : Nat, blocked : Runs \cup {NoRun}]

IdleCall == [phase |-> "idle", run |-> NoRun, amount |-> 0, step |-> 0,
             levels |-> {}, actual |-> 0, blocked |-> NoRun]

HeldCall(run, amount, step, levels) ==
  [phase |-> "held", run |-> run, amount |-> amount, step |-> step,
   levels |-> levels, actual |-> 0, blocked |-> NoRun]

RefusedCall(run, amount, blocked) ==
  [phase |-> "refused", run |-> run, amount |-> amount, step |-> 0,
   levels |-> {}, actual |-> 0, blocked |-> blocked]

SettledCall(k, actual) == [k EXCEPT !.phase = "settled", !.actual = actual]

Init ==
  /\ ledger = EmptyLedger
  /\ call = [c \in Calls |-> IdleCall]
  /\ peak = [r \in Runs |-> 0]
  /\ overrun = [r \in Runs |-> 0]

Raise(f, r, v) == [f EXCEPT ![r] = IF v > @ THEN v ELSE @]

AddAt(f, S, v) == [r \in Runs |-> IF r \in S THEN f[r] + v ELSE f[r]]

Declare(run, budget, parent) ==
  /\ ParentsFirst => ledger[run].open \/ parent \in Open(ledger) \cup {NoRun}
  /\ ledger' = OpenRun(ledger, run, budget, parent)
  /\ peak' = Raise(peak, run, budget)
  /\ UNCHANGED <<call, overrun>>

(* The reservation handed to call c by a ledger that became newLedger.     *)
Grant(c, run, amount, newLedger) ==
  call' = [call EXCEPT ![c] =
    HeldCall(run, amount, newLedger[run].steps, Chain(newLedger, run))]

ReserveOk(c, run, estimate) ==
  /\ call[c].phase = "idle"
  /\ CanReserve(ledger, run, estimate)
  /\ ledger' = Reserve(ledger, run, estimate)
  /\ Grant(c, run, estimate, ledger')
  /\ UNCHANGED <<peak, overrun>>

ReserveRefused(c, run, estimate) ==
  /\ call[c].phase = "idle"
  /\ ~CanReserve(ledger, run, estimate)
  /\ call' = [call EXCEPT ![c] =
       RefusedCall(run, estimate,
                   IF ledger[run].open THEN BlockedAt(ledger, run, estimate) ELSE NoRun)]
  /\ UNCHANGED <<ledger, peak, overrun>>

ReserveAnyway(c, run, estimate) ==
  /\ call[c].phase = "idle"
  /\ ledger' = ReserveUnchecked(ledger, run, estimate)
  /\ Grant(c, run, estimate, ledger')
  /\ overrun' = AddAt(overrun, Chain(ledger', run), estimate)
  /\ UNCHANGED peak

SettleCall(c, actual) ==
  /\ call[c].phase = "held"
  /\ ledger' = Settle(ledger, call[c].run, call[c].amount, actual)
  /\ call' = [call EXCEPT ![c] = SettledCall(call[c], actual)]
  /\ overrun' = AddAt(overrun, Chain(ledger, call[c].run),
                      Monus(actual, call[c].amount))
  /\ UNCHANGED peak

Next ==
  \/ \E r \in Runs, b \in Budgets, p \in Runs \cup {NoRun} : Declare(r, b, p)
  \/ \E c \in Calls, r \in Runs, e \in Amounts :
       \/ ReserveOk(c, r, e)
       \/ ReserveRefused(c, r, e)
       \/ ReserveAnyway(c, r, e)
  \/ \E c \in Calls, a \in Amounts : SettleCall(c, a)

Spec == Init /\ [][Next]_vars

-----------------------------------------------------------------------------
(* The ledger, the calls and the history variables stay within their types;*)
(* in particular no counter ever goes negative.                            *)
TypeOK ==
  /\ ledger \in Ledgers
  /\ call \in [Calls -> CallState]
  /\ peak \in [Runs -> Int]
  /\ overrun \in [Runs -> Nat]

(* What a call k holds, and what it has paid, at run r.                    *)
Owed(k, r) == IF k.phase = "held" /\ r \in k.levels THEN k.amount ELSE 0

Paid(k, r) == IF k.phase = "settled" /\ r \in k.levels THEN k.actual ELSE 0

(* RunSnapshot.reserved is what its comment says, at every level of the    *)
(* tree: the estimated cost of the calls reserved there and not yet        *)
(* settled, so headroom is neither lost nor handed out twice.              *)
ReservedIsOutstanding ==
  \A r \in Runs : ledger[r].reserved = Total([c \in Calls |-> Owed(call[c], r)], NumCalls)

(* RunSnapshot.spent is the real cost of the settled calls charged at the  *)
(* run, its own and its sub-agents', each counted once.                    *)
SpentIsSettled ==
  \A r \in Runs : ledger[r].spent = Total([c \in Calls |-> Paid(call[c], r)], NumCalls)

(* The cap of a run tree: at no level do spent and reserved money together *)
(* exceed the highest budget the run ever had, except by what was admitted *)
(* without a check, however reserves, settles and re-declarations          *)
(* interleave.                                                             *)
BudgetCeiling ==
  \A r \in Runs : Committed(ledger, r) <= peak[r] + overrun[r]

(* Racing calls of one run never share a step number: the step counter and *)
(* the reservation are taken under one lock.                               *)
StepsDistinct ==
  \A c, d \in Calls :
    /\ c # d
    /\ call[c].phase \in {"held", "settled"} /\ call[d].phase \in {"held", "settled"}
    /\ call[c].run = call[d].run
    => call[c].step # call[d].step
=============================================================================
