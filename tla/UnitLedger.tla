----------------------------- MODULE UnitLedger -----------------------------
(***************************************************************************)
(* Concurrent callers of the unit ledger (crates/gateway/src/              *)
(* unitledger.rs), the month boundary and the override poller.             *)
(*                                                                         *)
(* An operation is not one step: the caller evaluates now_millis(), then   *)
(* the cap is read under the overrides' lock, then the counters change     *)
(* under the state's lock.  Other calls, the poller and midnight may come  *)
(* in between.                                                             *)
(***************************************************************************)
EXTENDS UnitOps, Tally

CONSTANTS
  NumCalls,      \* calls in the behaviour; each reserves and settles once
  LastMonth,     \* bound on the months that pass
  Amounts,       \* estimates and actual costs
  OverrideCaps,  \* caps a central override may set
  DelayedLocks   \* TRUE: midnight may fall between now_millis() and the lock

ASSUME NumCallsAssumption == NumCalls \in Nat
ASSUME LastMonthAssumption == LastMonth \in Nat \ {0}
ASSUME AmountsAssumption == Amounts \subseteq Nat
ASSUME OverrideCapsAssumption == OverrideCaps \subseteq Nat
ASSUME DelayedLocksAssumption == DelayedLocks \in BOOLEAN

Calls == 1 .. NumCalls

VARIABLES
  month,      \* the wall clock's UTC month
  unit,       \* UnitLedger.state
  overrides,  \* UnitLedger.overrides
  call,       \* each call's progress and reservation
  ceiling,    \* history: the highest cap a reservation of this window was checked against
  overrun     \* history: what the window admitted without a check

vars == <<month, unit, overrides, call, ceiling, overrun>>

Phases == {"idle", "timed", "capped", "held", "settling", "over"}

(* now is the month the current operation's now_millis() saw, window the   *)
(* month the reservation was taken in.                                     *)
CallState ==
  [phase : Phases, unit : Units \cup {Uncapped}, checked : BOOLEAN, amount : Nat,
   now : Nat, cap : Nat, window : Nat, actual : Nat, booked : BOOLEAN]

IdleCall ==
  [phase |-> "idle", unit |-> Uncapped, checked |-> FALSE, amount |-> 0,
   now |-> 0, cap |-> 0, window |-> 0, actual |-> 0, booked |-> FALSE]

Init ==
  /\ month = 1
  /\ unit = [u \in Units |-> NoEntry]
  /\ overrides = [u \in Units |-> Uncapped]
  /\ call = [c \in Calls |-> IdleCall]
  /\ ceiling = [u \in Units |-> 0]
  /\ overrun = [u \in Units |-> 0]

(* Midnight on the last day of the month.                                  *)
NextMonth ==
  /\ month < LastMonth
  /\ DelayedLocks \/ \A c \in Calls : call[c].phase \notin {"timed", "capped", "settling"}
  /\ month' = month + 1
  /\ UNCHANGED <<unit, overrides, call, ceiling, overrun>>

(* set_overrides: the poller replaces the whole map.                       *)
SetOverrides(f) ==
  /\ overrides' = f
  /\ UNCHANGED <<month, unit, call, ceiling, overrun>>

(* try_reserve (checked) or reserve_unchecked is called with now_millis(). *)
BeginReserve(c, u, estimate, checked) ==
  /\ call[c].phase = "idle"
  /\ call' = [call EXCEPT ![c] =
       [phase |-> "timed", unit |-> u, checked |-> checked, amount |-> estimate,
        now |-> month, cap |-> 0, window |-> 0, actual |-> 0, booked |-> FALSE]]
  /\ UNCHANGED <<month, unit, overrides, ceiling, overrun>>

(* effective_cap: without a cap nothing is accounted or settled.           *)
ReadCap(c) ==
  /\ call[c].phase = "timed"
  /\ LET cap == EffectiveCap(overrides, call[c].unit)
     IN  call' = [call EXCEPT ![c] =
           IF cap = Uncapped THEN [@ EXCEPT !.phase = "over"]
           ELSE [@ EXCEPT !.phase = "capped", !.cap = cap]]
  /\ UNCHANGED <<month, unit, overrides, ceiling, overrun>>

(* The entry is rolled to the caller's month; the histories of a window    *)
(* that is reset start afresh.                                             *)
Fresh(c) == unit[call[c].unit].window # call[c].now

Take(c) ==
  LET u == call[c].unit
      base == IF Fresh(c) THEN 0 ELSE overrun[u]
      top == IF Fresh(c) THEN 0 ELSE ceiling[u]
  IN  /\ unit' = [unit EXCEPT ![u] = UnitHold(@, call[c].now, call[c].amount)]
      /\ call' = [call EXCEPT ![c].phase = "held", ![c].window = call[c].now]
      /\ overrun' = [overrun EXCEPT ![u] = IF call[c].checked THEN base ELSE base + call[c].amount]
      /\ ceiling' = [ceiling EXCEPT ![u] = IF call[c].checked /\ call[c].cap > top
                                           THEN call[c].cap ELSE top]

ReserveTaken(c) ==
  /\ call[c].phase = "capped"
  /\ call[c].checked =>
       UnitFits(unit[call[c].unit], call[c].now, call[c].amount, call[c].cap)
  /\ Take(c)
  /\ UNCHANGED <<month, overrides>>

(* A refusal has rolled the window all the same.                           *)
ReserveExceeded(c) ==
  /\ call[c].phase = "capped" /\ call[c].checked
  /\ ~UnitFits(unit[call[c].unit], call[c].now, call[c].amount, call[c].cap)
  /\ unit' = [unit EXCEPT ![call[c].unit] = Rolled(@, call[c].now)]
  /\ call' = [call EXCEPT ![c].phase = "over"]
  /\ overrun' = [overrun EXCEPT ![call[c].unit] = IF Fresh(c) THEN 0 ELSE @]
  /\ ceiling' = [ceiling EXCEPT ![call[c].unit] = IF Fresh(c) THEN 0 ELSE @]
  /\ UNCHANGED <<month, overrides>>

BeginSettle(c, actual) ==
  /\ call[c].phase = "held"
  /\ call' = [call EXCEPT ![c].phase = "settling", ![c].now = month, ![c].actual = actual]
  /\ UNCHANGED <<month, unit, overrides, ceiling, overrun>>

Settle(c) ==
  LET u == call[c].unit
      lands == call[c].window = call[c].now /\ unit[u].window = call[c].window
  IN  /\ call[c].phase = "settling"
      /\ unit' = [unit EXCEPT ![u] =
           UnitSettle(@, call[c].window, call[c].now, call[c].amount, call[c].actual)]
      /\ call' = [call EXCEPT ![c].phase = "over", ![c].booked = lands]
      /\ overrun' = [overrun EXCEPT ![u] =
           IF lands THEN @ + UnitMonus(call[c].actual, call[c].amount) ELSE @]
      /\ UNCHANGED <<month, overrides, ceiling>>

Next ==
  \/ NextMonth
  \/ \E f \in [Units -> OverrideCaps \cup {Uncapped}] : SetOverrides(f)
  \/ \E c \in Calls :
       \/ \E u \in Units, e \in Amounts, k \in BOOLEAN : BeginReserve(c, u, e, k)
       \/ ReadCap(c)
       \/ ReserveTaken(c)
       \/ ReserveExceeded(c)
       \/ \E a \in Amounts : BeginSettle(c, a)
       \/ Settle(c)

Spec == Init /\ [][Next]_vars

-----------------------------------------------------------------------------
(* Counters, clock, overrides and calls stay within their types.           *)
TypeOK ==
  /\ month \in 1 .. LastMonth
  /\ unit \in [Units -> UnitState]
  /\ overrides \in [Units -> OverrideCaps \cup {Uncapped}]
  /\ call \in [Calls -> CallState]
  /\ ceiling \in [Units -> Nat]
  /\ overrun \in [Units -> Nat]

Owed(c, u) ==
  IF /\ call[c].phase \in {"held", "settling"}
     /\ call[c].unit = u /\ call[c].window = unit[u].window
  THEN call[c].amount ELSE 0

Booked(c, u) ==
  IF call[c].booked /\ call[c].unit = u /\ call[c].window = unit[u].window
  THEN call[c].actual ELSE 0

(* What a unit has reserved in the current month is exactly what its calls *)
(* reserved this month and have not settled: a month boundary, a cap that  *)
(* appears, changes or vanishes mid-flight, and refusals leave nothing     *)
(* behind and release nothing that is not theirs.                          *)
UnitReservedIsOutstanding ==
  \A u \in Units : unit[u].window = month =>
    unit[u].reserved = Total([c \in Calls |-> Owed(c, u)], NumCalls)

(* A unit's spend is the cost of the calls that were both reserved and     *)
(* settled in the entry's month, each once; no cost crosses into the next  *)
(* month's fresh counters.                                                 *)
UnitSpentIsBooked ==
  \A u \in Units : unit[u].spent = Total([c \in Calls |-> Booked(c, u)], NumCalls)

(* Both at once: the unit's books for the month.                           *)
UnitBooks == UnitReservedIsOutstanding /\ UnitSpentIsBooked

(* The monthly cap: what a unit has spent and reserved in a window stays   *)
(* within the highest cap its reservations were checked against, plus what *)
(* was admitted without a check.                                           *)
UnitCapCeiling ==
  \A u \in Units : unit[u].spent + unit[u].reserved <= ceiling[u] + overrun[u]

(* unitledger.rs: "Roll the unit's window forward if `now` is in a new     *)
(* month".  The window never moves back to a month that is over.           *)
WindowOnlyForward ==
  [][\A u \in Units : unit'[u].window >= unit[u].window]_vars
=============================================================================
