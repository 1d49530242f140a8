------------------------------ MODULE UnitOps ------------------------------
(***************************************************************************)
(* The operations of the per-business-unit monthly ledger                  *)
(* (crates/gateway/src/unitledger.rs) as pure operators.  A unit's entry   *)
(* belongs to one UTC month; months are numbered 1, 2, ... and window 0    *)
(* stands for "no entry yet".                                              *)
(***************************************************************************)
EXTENDS Integers

CONSTANTS
  Units,      \* business units
  Uncapped,   \* the absent cap (Option::None)
  BaseCap     \* caps from the identity-map file: [Units -> Nat \cup {Uncapped}]

ASSUME UncappedAssumption == Uncapped \notin Nat
ASSUME BaseCapAssumption == BaseCap \in [Units -> Nat \cup {Uncapped}]

UnitState == [window : Nat, reserved : Nat, spent : Nat]

NoEntry == [window |-> 0, reserved |-> 0, spent |-> 0]

(* effective_cap: the central override first, the file's cap second.       *)
EffectiveCap(overrides, u) ==
  IF overrides[u] # Uncapped THEN overrides[u] ELSE BaseCap[u]

(* rolled: an entry of any other month is reset to zero in this month.     *)
Rolled(s, window) ==
  IF s.window = window THEN s
  ELSE [window |-> window, reserved |-> 0, spent |-> 0]

\* Mutant of UnitFits: in-flight reservations are not counted.
UnitFitsSpent(s, window, estimate, cap) == Rolled(s, window).spent + estimate <= cap

UnitFits(s, window, estimate, cap) ==
  Rolled(s, window).spent + Rolled(s, window).reserved + estimate <= cap

UnitHold(s, window, estimate) == [Rolled(s, window) EXCEPT !.reserved = @ + estimate]

UnitMonus(a, b) == IF a > b THEN a - b ELSE 0

\* Mutant of UnitSettle: a settle for another month's reservation is applied.
UnitSettleAnyWindow(s, taken, now, amount, actual) ==
  [s EXCEPT !.reserved = UnitMonus(@, amount), !.spent = @ + actual]

\* Mutant of UnitSettle: releases the actual cost instead of the estimate, unclamped.
UnitSettleReleasesActual(s, taken, now, amount, actual) ==
  IF taken = now /\ s.window = taken
  THEN [s EXCEPT !.reserved = @ - actual, !.spent = @ + actual]
  ELSE s

(* settle: dropped unless the month the reservation was taken in is both   *)
(* the caller's current month and the entry's.                             *)
UnitSettle(s, taken, now, amount, actual) ==
  IF taken = now /\ s.window = taken
  THEN [s EXCEPT !.reserved = UnitMonus(@, amount), !.spent = @ + actual]
  ELSE s
=============================================================================
