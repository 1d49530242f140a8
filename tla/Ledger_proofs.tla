--------------------------- MODULE Ledger_proofs ---------------------------
(***************************************************************************)
(* Proofs about Ledger, for every number of calls, set of runs, budget,    *)
(* amount and chain depth.                                                 *)
(*                                                                         *)
(* The inductive invariant is stated of four values (a ledger L, the calls *)
(* C, the peaks P, the overruns O) rather than of the variables, so that   *)
(* reserve_unchecked, which first opens the run and then charges it, is    *)
(* proved as those two steps.                                              *)
(***************************************************************************)
EXTENDS Ledger

(* Part one: true of the ledger whatever the order runs are declared in.   *)
Typed(L, C, P, O) ==
  /\ L \in Ledgers /\ C \in [Calls -> CallState]
  /\ P \in [Runs -> Int] /\ O \in [Runs -> Nat]

ClosedIsEmpty(L) ==
  \A r \in Runs : ~L[r].open => L[r].reserved = 0 /\ L[r].spent = 0

Charged(k) == k.phase \in {"held", "settled"}

ChargedIsOpen(L, C) ==
  \A c \in Calls : Charged(C[c]) =>
    /\ C[c].run \in Open(L) /\ C[c].levels \subseteq Open(L)
    /\ C[c].step <= L[C[c].run].steps

Distinct(C) ==
  \A c, d \in Calls :
    /\ c # d
    /\ C[c].phase \in {"held", "settled"} /\ C[d].phase \in {"held", "settled"}
    /\ C[c].run = C[d].run
    => C[c].step # C[d].step

Base(L, C, P, O) ==
  Typed(L, C, P, O) /\ ClosedIsEmpty(L) /\ ChargedIsOpen(L, C) /\ Distinct(C)

(* Opening or re-declaring a run preserves part one.                       *)
LEMMA OpenKeepsBase ==
  ASSUME NEW L, NEW C, NEW P, NEW O, Base(L, C, P, O), NEW Q \in [Runs -> Int],
         NEW run \in Runs, NEW budget \in Int, NEW parent \in Runs \cup {NoRun}
  PROVE  Base(OpenRun(L, run, budget, parent), C, Q, O)
<1> DEFINE K == OpenRun(L, run, budget, parent)
<1>1. L \in Ledgers /\ C \in [Calls -> CallState] /\ O \in [Runs -> Nat]
  BY DEF Base, Typed
<1>2. Opens(L, K, run, budget, parent)
  BY <1>1, OpenRunEffect
<1> HIDE DEF K
<1>3. Typed(K, C, Q, O)
  BY <1>1, <1>2 DEF Typed, Opens
<1>4. ClosedIsEmpty(K)
  BY <1>2 DEF ClosedIsEmpty, Base, Opens
<1>5. Open(L) \subseteq Open(K) /\ \A r \in Open(L) : K[r].steps = L[r].steps
  BY <1>2 DEF Open, Opens
<1>6. ChargedIsOpen(K, C)
  BY <1>5 DEF ChargedIsOpen, Base
<1> QED BY <1>3, <1>4, <1>6 DEF Base, K

(* Charging an idle call to an open run preserves part one.                *)
LEMMA ChargeKeepsBase ==
  ASSUME NEW L, NEW C, NEW P, NEW O, Base(L, C, P, O), NEW U \in [Runs -> Nat],
         NEW run \in Open(L), NEW amount \in Nat, NEW c \in Calls, C[c].phase = "idle"
  PROVE  LET M == Reserve(L, run, amount)
         IN  Base(M, [C EXCEPT ![c] = HeldCall(run, amount, M[run].steps, Chain(M, run))], P, U)
<1> DEFINE M == Reserve(L, run, amount)
           D == [C EXCEPT ![c] = HeldCall(run, amount, M[run].steps, Chain(M, run))]
<1>1. L \in Ledgers /\ C \in [Calls -> CallState] /\ P \in [Runs -> Int] /\ run \in Runs
  BY DEF Base, Typed, Open
<1>2. Reserves(L, M, run, amount)
  BY <1>1, ReserveEffect
<1> HIDE DEF M
<1>3. Open(M) = Open(L) /\ Open(M) \subseteq Runs
  BY <1>2 DEF Open, Reserves
<1>4. Chain(M, run) \subseteq Open(M) /\ Chain(L, run) \subseteq Open(L)
  BY ChainIsOpen
<1>5. M[run].steps \in Nat /\ \A r \in Runs : L[r].steps \in Nat
  BY <1>1, <1>2 DEF Ledgers, RunState, Reserves
<1>6. HeldCall(run, amount, M[run].steps, Chain(M, run)) \in CallState
  BY <1>1, <1>3, <1>4, <1>5 DEF HeldCall, CallState, Phases
<1>7. Typed(M, D, P, U)
  <2>1. D \in [Calls -> CallState]
    BY <1>1, <1>6
  <2> HIDE DEF D
  <2> QED BY <1>1, <1>2, <2>1 DEF Typed, Reserves
<1>8. ClosedIsEmpty(M)
  BY <1>2, <1>3, <1>4 DEF ClosedIsEmpty, Base, Open, Reserves
<1>9. /\ \A d \in Calls \ {c} : D[d] = C[d]
      /\ D[c].phase = "held" /\ D[c].run = run /\ D[c].step = M[run].steps
      /\ D[c].levels = Chain(M, run)
  BY <1>1 DEF HeldCall
<1> HIDE DEF D
<1>10. \A d \in Calls \ {c} : Charged(C[d]) =>
         C[d].run \in Open(L) /\ C[d].levels \subseteq Open(L) /\ C[d].step <= L[C[d].run].steps
  BY DEF Base, ChargedIsOpen
<1>11. \A d \in Calls : C[d].step \in Nat
  BY <1>1 DEF CallState
<1>12. ChargedIsOpen(M, D)
  <2> SUFFICES ASSUME NEW d \in Calls, Charged(D[d])
               PROVE  /\ D[d].run \in Open(M) /\ D[d].levels \subseteq Open(M)
                      /\ D[d].step <= M[D[d].run].steps
    BY DEF ChargedIsOpen
  <2>1. CASE d = c
    BY <2>1, <1>3, <1>4, <1>5, <1>9
  <2>2. CASE d # c
    <3>1. D[d] = C[d] /\ C[d].run \in Open(L) /\ C[d].levels \subseteq Open(L)
          /\ C[d].step <= L[C[d].run].steps
      BY <2>2, <1>9, <1>10
    <3>2. C[d].run \in Runs
      BY <3>1 DEF Open
    <3> QED BY <3>1, <3>2, <1>2, <1>3, <1>5, <1>11 DEF Reserves
  <2> QED BY <2>1, <2>2
<1>13. \A d \in Calls \ {c} : Charged(C[d]) /\ C[d].run = run => C[d].step < M[run].steps
  BY <1>1, <1>2, <1>5, <1>10, <1>11 DEF Reserves
<1>14. Distinct(D)
  <2> SUFFICES ASSUME NEW a \in Calls, NEW b \in Calls, a # b,
                      Charged(D[a]), Charged(D[b]), D[a].run = D[b].run
               PROVE  D[a].step # D[b].step
    BY DEF Distinct, Charged
  <2>1. CASE a = c
    BY <2>1, <1>5, <1>9, <1>11, <1>13
  <2>2. CASE b = c
    BY <2>2, <1>5, <1>9, <1>11, <1>13
  <2>3. CASE a # c /\ b # c
    BY <2>3, <1>9 DEF Base, Distinct, Charged
  <2> QED BY <2>1, <2>2, <2>3
<1> QED BY <1>7, <1>8, <1>12, <1>14 DEF Base, D, M

(* A refused call changes nothing of part one.                             *)
LEMMA RefuseKeepsBase ==
  ASSUME NEW L, NEW C, NEW P, NEW O, Base(L, C, P, O),
         NEW c \in Calls, NEW k \in CallState, ~Charged(k)
  PROVE  Base(L, [C EXCEPT ![c] = k], P, O)
<1> DEFINE D == [C EXCEPT ![c] = k]
<1>1. C \in [Calls -> CallState]
  BY DEF Base, Typed
<1>2. D \in [Calls -> CallState] /\ D[c] = k /\ \A d \in Calls \ {c} : D[d] = C[d]
  BY <1>1
<1> HIDE DEF D
<1>3. Typed(L, D, P, O)
  BY <1>2 DEF Base, Typed
<1>4. ChargedIsOpen(L, D)
  BY <1>2 DEF Base, ChargedIsOpen
<1>5. Distinct(D)
  BY <1>2 DEF Base, Distinct, Charged
<1> QED BY <1>3, <1>4, <1>5 DEF Base, D

(* What the record of a settled call keeps of the reservation.             *)
LEMMA SettledCallFields ==
  ASSUME NEW k \in CallState, NEW actual \in Nat
  PROVE  LET z == SettledCall(k, actual)
         IN  /\ z \in CallState /\ z.phase = "settled" /\ z.actual = actual
             /\ z.run = k.run /\ z.amount = k.amount /\ z.step = k.step /\ z.levels = k.levels
<1>1. PICK t : t = [k EXCEPT !.phase = "settled"]
  OBVIOUS
<1>2. /\ t \in CallState /\ t.phase = "settled"
      /\ t.run = k.run /\ t.amount = k.amount /\ t.step = k.step /\ t.levels = k.levels
  BY <1>1 DEF CallState, Phases
<1>3. PICK z : z = [t EXCEPT !.actual = actual]
  OBVIOUS
<1>4. /\ z \in CallState /\ z.phase = t.phase /\ z.actual = actual
      /\ z.run = t.run /\ z.amount = t.amount /\ z.step = t.step /\ z.levels = t.levels
  BY <1>2, <1>3 DEF CallState
<1>5. z = SettledCall(k, actual)
  BY <1>1, <1>3 DEF SettledCall
<1> QED BY <1>2, <1>4, <1>5

(* Settling a held call preserves part one.                                *)
LEMMA SettleKeepsBase ==
  ASSUME NEW L, NEW C, NEW P, NEW O, Base(L, C, P, O), NEW U \in [Runs -> Nat],
         NEW c \in Calls, C[c].phase = "held", NEW actual \in Nat
  PROVE  Base(Settle(L, C[c].run, C[c].amount, actual),
              [C EXCEPT ![c] = SettledCall(C[c], actual)], P, U)
<1> DEFINE M == Settle(L, C[c].run, C[c].amount, actual)
           D == [C EXCEPT ![c] = SettledCall(C[c], actual)]
<1>1. L \in Ledgers /\ C \in [Calls -> CallState] /\ P \in [Runs -> Int]
  BY DEF Base, Typed
<1>2. C[c].run \in Runs /\ C[c].amount \in Nat
  <2>1. C[c].run \in Open(L)
    BY DEF Base, ChargedIsOpen, Charged
  <2>2. C[c].amount \in Nat
    BY <1>1 DEF CallState
  <2> QED BY <2>1, <2>2 DEF Open
<1>3. Settles(L, M, C[c].run, C[c].amount, actual)
  BY <1>1, <1>2, SettleEffect
<1> HIDE DEF M
<1>4. Open(M) = Open(L) /\ \A r \in Runs : M[r].steps = L[r].steps
  BY <1>3 DEF Open, Settles
<1>5. SettledCall(C[c], actual) \in CallState
  BY <1>1, SettledCallFields
<1>6. /\ D \in [Calls -> CallState]
      /\ \A d \in Calls \ {c} : D[d] = C[d]
      /\ D[c] = SettledCall(C[c], actual)
  BY <1>1, <1>5
<1> HIDE DEF D
<1>7. \A d \in Calls :
        /\ Charged(D[d]) <=> Charged(C[d])
        /\ D[d].run = C[d].run /\ D[d].step = C[d].step /\ D[d].levels = C[d].levels
  <2> SUFFICES ASSUME NEW d \in Calls
               PROVE  /\ Charged(D[d]) <=> Charged(C[d])
                      /\ D[d].run = C[d].run /\ D[d].step = C[d].step
                      /\ D[d].levels = C[d].levels
    OBVIOUS
  <2>1. CASE d = c
    BY <2>1, <1>1, <1>6, SettledCallFields DEF Charged
  <2>2. CASE d # c
    BY <2>2, <1>6
  <2> QED BY <2>1, <2>2
<1>8. Typed(M, D, P, U)
  BY <1>1, <1>3, <1>6 DEF Typed, Settles
<1>9. ClosedIsEmpty(M)
  <2>1. Chain(L, C[c].run) \subseteq Open(L)
    BY ChainIsOpen
  <2> QED BY <1>3, <2>1 DEF ClosedIsEmpty, Base, Open, Settles
<1>10. ChargedIsOpen(M, D)
  BY <1>4, <1>7 DEF Base, ChargedIsOpen, Open
<1>11. Distinct(D)
  BY <1>7 DEF Base, Distinct, Charged
<1> QED BY <1>8, <1>9, <1>10, <1>11 DEF Base, D, M

BaseInv == Base(ledger, call, peak, overrun)

(* The initial state satisfies part one.                                   *)
LEMMA InitBase == Init => BaseInv
<1> SUFFICES ASSUME Init PROVE BaseInv
  OBVIOUS
<1>1. Typed(ledger, call, peak, overrun)
  BY DEF Init, Typed, EmptyLedger, Closed, Ledgers, RunState, IdleCall, CallState, Phases
<1>2. ClosedIsEmpty(ledger)
  BY DEF Init, ClosedIsEmpty, EmptyLedger, Closed
<1>3. \A c \in Calls : call[c].phase = "idle"
  BY DEF Init, IdleCall
<1>4. ChargedIsOpen(ledger, call) /\ Distinct(call)
  BY <1>3 DEF ChargedIsOpen, Charged, Distinct
<1> QED BY <1>1, <1>2, <1>4 DEF BaseInv, Base

(* AddAt and Raise stay within the types of the history variables.         *)
LEMMA AddAtType ==
  ASSUME NEW f \in [Runs -> Nat], NEW S, NEW v \in Nat
  PROVE  AddAt(f, S, v) \in [Runs -> Nat]
BY DEF AddAt

(* So does raising one run to a new peak.                                 *)
LEMMA RaiseType ==
  ASSUME NEW g \in [Runs -> Int], NEW r \in Runs, NEW b \in Int
  PROVE  Raise(g, r, b) \in [Runs -> Int]
BY DEF Raise

(* Every step preserves part one.                                          *)
LEMMA NextBase == BaseInv /\ [Next]_vars => BaseInv'
<1> SUFFICES ASSUME BaseInv, [Next]_vars PROVE BaseInv'
  OBVIOUS
<1>0. /\ Base(ledger, call, peak, overrun)
      /\ ledger \in Ledgers /\ call \in [Calls -> CallState]
      /\ peak \in [Runs -> Int] /\ overrun \in [Runs -> Nat]
  BY DEF BaseInv, Base, Typed
<1>1. ASSUME NEW r \in Runs, NEW b \in Budgets, NEW p \in Runs \cup {NoRun}, Declare(r, b, p)
      PROVE  BaseInv'
  <2>1. b \in Int
    BY BudgetsAssumption
  <2>2. peak' \in [Runs -> Int]
    BY <1>0, <1>1, <2>1, RaiseType DEF Declare
  <2>3. Base(OpenRun(ledger, r, b, p), call, peak', overrun)
    BY <1>0, <2>1, <2>2, OpenKeepsBase
  <2> QED BY <1>1, <2>3 DEF Declare, BaseInv
<1>2. ASSUME NEW c \in Calls, NEW r \in Runs, NEW e \in Amounts, ReserveOk(c, r, e)
      PROVE  BaseInv'
  <2>1. e \in Nat /\ r \in Open(ledger) /\ call[c].phase = "idle"
    BY <1>2, AmountsAssumption DEF ReserveOk, CanReserve, Open
  <2>2. /\ ledger' = Reserve(ledger, r, e) /\ peak' = peak /\ overrun' = overrun
        /\ call' = [call EXCEPT ![c] = HeldCall(r, e, ledger'[r].steps, Chain(ledger', r))]
    BY <1>2 DEF ReserveOk, Grant
  <2>3. Base(ledger', call', peak, overrun)
    BY <1>0, <2>1, <2>2, ChargeKeepsBase
  <2> QED BY <2>2, <2>3 DEF BaseInv
<1>3. ASSUME NEW c \in Calls, NEW r \in Runs, NEW e \in Amounts, ReserveRefused(c, r, e)
      PROVE  BaseInv'
  <2> DEFINE b == IF ledger[r].open THEN BlockedAt(ledger, r, e) ELSE NoRun
  <2>1. b \in Runs \cup {NoRun}
    <3>1. CASE ledger[r].open
      <4>1. ExceededLevels(ledger, r, e) # {}
        BY <1>3, <3>1 DEF ReserveRefused, CanReserve
      <4>2. BlockedAt(ledger, r, e) \in Chain(ledger, r)
        BY <4>1, BlockedAtIsExceeded DEF ExceededLevels
      <4> QED BY <3>1, <4>2, ChainIsOpen
    <3>2. CASE ~ledger[r].open
      BY <3>2
    <3> QED BY <3>1, <3>2
  <2>2. /\ ledger' = ledger /\ peak' = peak /\ overrun' = overrun
        /\ call' = [call EXCEPT ![c] = RefusedCall(r, e, b)]
    BY <1>3 DEF ReserveRefused
  <2> HIDE DEF b
  <2>3. RefusedCall(r, e, b) \in CallState /\ ~Charged(RefusedCall(r, e, b))
    BY <2>1, AmountsAssumption DEF RefusedCall, CallState, Phases, Charged
  <2>4. Base(ledger, call', peak, overrun)
    BY <1>0, <2>2, <2>3, RefuseKeepsBase
  <2> QED BY <2>2, <2>4 DEF BaseInv
<1>4. ASSUME NEW c \in Calls, NEW r \in Runs, NEW e \in Amounts, ReserveAnyway(c, r, e)
      PROVE  BaseInv'
  <2> DEFINE K == IF ledger[r].open THEN ledger ELSE OpenRun(ledger, r, 0, NoRun)
  <2>1. e \in Nat /\ call[c].phase = "idle"
    BY <1>4, AmountsAssumption DEF ReserveAnyway
  <2>2. Base(K, call, peak, overrun) /\ r \in Open(K)
    <3>1. CASE ledger[r].open
      BY <3>1, <1>0 DEF Open
    <3>2. CASE ~ledger[r].open
      <4>1. Base(OpenRun(ledger, r, 0, NoRun), call, peak, overrun)
        BY <1>0, OpenKeepsBase
      <4>2. Opens(ledger, OpenRun(ledger, r, 0, NoRun), r, 0, NoRun)
        BY <1>0, OpenRunEffect
      <4> QED BY <3>2, <4>1, <4>2 DEF Opens, Open
    <3> QED BY <3>1, <3>2
  <2>3. /\ ledger' = Reserve(K, r, e) /\ peak' = peak
        /\ overrun' = AddAt(overrun, Chain(ledger', r), e)
        /\ call' = [call EXCEPT ![c] = HeldCall(r, e, ledger'[r].steps, Chain(ledger', r))]
    BY <1>4 DEF ReserveAnyway, ReserveUnchecked, Grant
  <2> HIDE DEF K
  <2>4. overrun' \in [Runs -> Nat]
    BY <1>0, <2>1, <2>3, AddAtType
  <2>5. Base(ledger', call', peak, overrun')
    BY <2>1, <2>2, <2>3, <2>4, ChargeKeepsBase
  <2> QED BY <2>3, <2>5 DEF BaseInv
<1>5. ASSUME NEW c \in Calls, NEW a \in Amounts, SettleCall(c, a)
      PROVE  BaseInv'
  <2>1. a \in Nat /\ call[c].phase = "held" /\ call[c].amount \in Nat
    BY <1>0, <1>5, AmountsAssumption DEF SettleCall, CallState
  <2>2. /\ ledger' = Settle(ledger, call[c].run, call[c].amount, a) /\ peak' = peak
        /\ overrun' = AddAt(overrun, Chain(ledger, call[c].run), Monus(a, call[c].amount))
        /\ call' = [call EXCEPT ![c] = SettledCall(call[c], a)]
    BY <1>5 DEF SettleCall
  <2>3. Monus(a, call[c].amount) \in Nat
    BY <2>1 DEF Monus
  <2>4. overrun' \in [Runs -> Nat]
    BY <1>0, <2>2, <2>3, AddAtType
  <2>5. Base(ledger', call', peak, overrun')
    BY <1>0, <2>1, <2>2, <2>4, SettleKeepsBase
  <2> QED BY <2>2, <2>5 DEF BaseInv
<1>6. CASE UNCHANGED vars
  BY <1>0, <1>6 DEF vars, BaseInv
<1> QED BY <1>1, <1>2, <1>3, <1>4, <1>5, <1>6 DEF Next

(* Part one holds in every reachable state.                                *)
LEMMA BaseAlways == Spec => []BaseInv
BY InitBase, NextBase, PTL DEF Spec

(* The ledger's map, the reservations and the counters stay within their   *)
(* types whatever calls race: no counter goes negative and a refusal       *)
(* always names a run.                                                     *)
THEOREM TypeCorrect == Spec => []TypeOK
<1>1. BaseInv => TypeOK
  BY DEF BaseInv, Base, Typed, TypeOK
<1> QED BY <1>1, BaseAlways, PTL

(* No two calls of a run are handed the same step number by reserve or     *)
(* reserve_unchecked.                                                      *)
THEOREM StepsAreDistinct == Spec => []StepsDistinct
<1>1. BaseInv => StepsDistinct
  BY DEF BaseInv, Base, Distinct, StepsDistinct
<1> QED BY <1>1, BaseAlways, PTL

-----------------------------------------------------------------------------
(***************************************************************************)
(* The accounting and the budget ceiling of the ledger, proved for every   *)
(* value of the constants under ParentsFirst: no run is declared before    *)
(* the parent it names.  (Without it ReservedIsOutstanding is false, and   *)
(* the run on MCLedgerLate shows how.)                                     *)
(*                                                                         *)
(* Settle releases money at the chain as it is when the call settles, so   *)
(* the argument rests on the chain of a call in flight not changing:       *)
(* HeldAtChain, kept because every open run's parent is open already       *)
(* (ParentsOpen), hence opening a run never extends another run's chain.   *)
(* With that, each settle releases exactly what its reserve held, reserved *)
(* is never clamped at zero, and the sum spent + reserved can only grow    *)
(* past a budget by what was admitted without a check.                     *)
(***************************************************************************)
(* What each call holds at a run, and has paid there.                      *)
OwedAt(C, r) == [c \in Calls |-> Owed(C[c], r)]

PaidAt(C, r) == [c \in Calls |-> Paid(C[c], r)]

HeldAtChain(L, C) ==
  \A c \in Calls : C[c].phase = "held" => C[c].levels = Chain(L, C[c].run)

ReservedIs(L, C) == \A r \in Runs : L[r].reserved = Total(OwedAt(C, r), NumCalls)

SpentIs(L, C) == \A r \in Runs : L[r].spent = Total(PaidAt(C, r), NumCalls)

WithinPeak(L, P, O) ==
  \A r \in Runs : /\ L[r].spent + L[r].reserved <= P[r] + O[r]
                  /\ L[r].budget <= P[r] /\ 0 <= P[r]

(* The inductive invariant.                                                *)
Books(L, C, P, O) ==
  /\ Base(L, C, P, O)
  /\ ParentsOpen(L)
  /\ HeldAtChain(L, C)
  /\ ReservedIs(L, C)
  /\ SpentIs(L, C)
  /\ WithinPeak(L, P, O)

(* What the calls hold and have paid at a run are naturals.                *)
LEMMA TallyTypes ==
  ASSUME NEW C \in [Calls -> CallState], NEW r
  PROVE  /\ OwedAt(C, r) \in [1 .. NumCalls -> Nat]
         /\ PaidAt(C, r) \in [1 .. NumCalls -> Nat]
BY DEF OwedAt, PaidAt, Owed, Paid, CallState, Calls

(* Changing one call changes the tallies by what that call contributes.    *)
LEMMA OneCallTally ==
  ASSUME NEW C \in [Calls -> CallState], NEW D \in [Calls -> CallState], NEW r,
         NEW c \in Calls, \A d \in Calls \ {c} : D[d] = C[d]
  PROVE  /\ Total(OwedAt(D, r), NumCalls) =
              Total(OwedAt(C, r), NumCalls) + Owed(D[c], r) - Owed(C[c], r)
         /\ Total(PaidAt(D, r), NumCalls) =
              Total(PaidAt(C, r), NumCalls) + Paid(D[c], r) - Paid(C[c], r)
<1>1. /\ OwedAt(C, r) \in [1 .. NumCalls -> Nat] /\ OwedAt(D, r) \in [1 .. NumCalls -> Nat]
      /\ PaidAt(C, r) \in [1 .. NumCalls -> Nat] /\ PaidAt(D, r) \in [1 .. NumCalls -> Nat]
  BY TallyTypes
<1>2. \A d \in 1 .. NumCalls : d # c => /\ OwedAt(D, r)[d] = OwedAt(C, r)[d]
                                       /\ PaidAt(D, r)[d] = PaidAt(C, r)[d]
  BY DEF OwedAt, PaidAt, Calls
<1>3. /\ OwedAt(D, r)[c] = Owed(D[c], r) /\ OwedAt(C, r)[c] = Owed(C[c], r)
      /\ PaidAt(D, r)[c] = Paid(D[c], r) /\ PaidAt(C, r)[c] = Paid(C[c], r)
  BY DEF OwedAt, PaidAt
<1>4. c \in 1 .. NumCalls /\ NumCalls \in Nat
  BY NumCallsAssumption DEF Calls
<1>5. Total(OwedAt(D, r), NumCalls) =
        Total(OwedAt(C, r), NumCalls) + OwedAt(D, r)[c] - OwedAt(C, r)[c]
  BY <1>1, <1>2, <1>4, TotalUpdate
<1>6. Total(PaidAt(D, r), NumCalls) =
        Total(PaidAt(C, r), NumCalls) + PaidAt(D, r)[c] - PaidAt(C, r)[c]
  BY <1>1, <1>2, <1>4, TotalUpdate
<1> QED BY <1>3, <1>5, <1>6

(* Declaring a run under a known parent preserves the books.               *)
LEMMA OpenKeepsBooks ==
  ASSUME NEW L, NEW C, NEW P, NEW O, Books(L, C, P, O), NEW Q \in [Runs -> Int],
         NEW run \in Runs, NEW budget \in Int, NEW parent \in Runs \cup {NoRun},
         L[run].open \/ parent \in Open(L) \cup {NoRun},
         Q[run] >= budget, \A r \in Runs : Q[r] >= P[r]
  PROVE  Books(OpenRun(L, run, budget, parent), C, Q, O)
<1> DEFINE K == OpenRun(L, run, budget, parent)
<1>1. L \in Ledgers /\ P \in [Runs -> Int] /\ O \in [Runs -> Nat]
  BY DEF Books, Base, Typed
<1>2. Opens(L, K, run, budget, parent)
  BY <1>1, OpenRunEffect
<1>3. Base(K, C, Q, O)
  BY OpenKeepsBase DEF Books
<1> HIDE DEF K
<1>4. /\ Open(K) = Open(L) \cup {run}
      /\ \A r \in Open(L) : K[r].parent = L[r].parent
  BY <1>2 DEF Opens, Open
<1>5. \A r \in Runs : K[r].reserved = L[r].reserved /\ K[r].spent = L[r].spent
  BY <1>2 DEF Opens, Books, Base, ClosedIsEmpty
<1>6. ParentsOpen(K)
  <2> SUFFICES ASSUME NEW r \in Open(K) PROVE K[r].parent \in Open(K) \cup {NoRun}
    BY DEF ParentsOpen
  <2>1. CASE r \in Open(L)
    BY <2>1, <1>4 DEF Books, ParentsOpen
  <2>2. CASE r \notin Open(L)
    <3>1. r = run /\ ~L[run].open
      BY <2>2, <1>4 DEF Open
    <3>2. K[run].parent = parent
      BY <3>1, <1>2 DEF Opens
    <3> QED BY <3>1, <3>2, <1>4
  <2> QED BY <2>1, <2>2
<1>7. HeldAtChain(K, C)
  <2> SUFFICES ASSUME NEW c \in Calls, C[c].phase = "held"
               PROVE  C[c].levels = Chain(K, C[c].run)
    BY DEF HeldAtChain
  <2>1. C[c].run \in Open(L)
    BY DEF Books, Base, ChargedIsOpen, Charged
  <2>2. Chain(K, C[c].run) = Chain(L, C[c].run)
    BY <2>1, <1>4, ChainStable DEF Books
  <2> QED BY <2>2 DEF Books, HeldAtChain
<1>8. ReservedIs(K, C) /\ SpentIs(K, C)
  BY <1>5 DEF ReservedIs, SpentIs, Books
<1>9. WithinPeak(K, Q, O)
  <2> SUFFICES ASSUME NEW r \in Runs
               PROVE  /\ K[r].spent + K[r].reserved <= Q[r] + O[r]
                      /\ K[r].budget <= Q[r] /\ 0 <= Q[r]
    BY DEF WithinPeak
  <2>1. /\ L[r].spent + L[r].reserved <= P[r] + O[r]
        /\ L[r].budget <= P[r] /\ 0 <= P[r] /\ P[r] <= Q[r]
    BY DEF Books, WithinPeak
  <2>2. /\ L[r].spent \in Nat /\ L[r].reserved \in Nat /\ L[r].budget \in Int
        /\ P[r] \in Int /\ Q[r] \in Int /\ O[r] \in Nat
    BY <1>1 DEF Ledgers, RunState
  <2>3. K[r].budget <= Q[r]
    BY <1>2, <2>1, <2>2 DEF Opens
  <2> QED BY <1>5, <2>1, <2>2, <2>3
<1> QED BY <1>3, <1>6, <1>7, <1>8, <1>9 DEF Books, K

(* Charging an idle call at every level of its chain preserves the books,  *)
(* if each level has room for it or books the excess as overrun.           *)
LEMMA ChargeKeepsBooks ==
  ASSUME NEW L, NEW C, NEW P, NEW O, Books(L, C, P, O), NEW U \in [Runs -> Nat],
         NEW run \in Open(L), NEW amount \in Nat, NEW c \in Calls, C[c].phase = "idle",
         \A r \in Runs : U[r] >= O[r],
         \A r \in Chain(L, run) : L[r].spent + L[r].reserved + amount <= P[r] + U[r]
  PROVE  LET M == Reserve(L, run, amount)
         IN  Books(M, [C EXCEPT ![c] = HeldCall(run, amount, M[run].steps, Chain(M, run))], P, U)
<1> DEFINE M == Reserve(L, run, amount)
           D == [C EXCEPT ![c] = HeldCall(run, amount, M[run].steps, Chain(M, run))]
<1>1. /\ L \in Ledgers /\ C \in [Calls -> CallState]
      /\ P \in [Runs -> Int] /\ O \in [Runs -> Nat] /\ run \in Runs
  BY DEF Books, Base, Typed, Open
<1>2. Reserves(L, M, run, amount)
  BY <1>1, ReserveEffect
<1>3. Base(M, D, P, U)
  BY ChargeKeepsBase DEF Books
<1>4. /\ \A d \in Calls \ {c} : D[d] = C[d]
      /\ D[c].phase = "held" /\ D[c].run = run /\ D[c].amount = amount
      /\ D[c].levels = Chain(M, run)
  BY <1>1 DEF HeldCall
<1> HIDE DEF M, D
<1>5. Open(M) = Open(L) /\ \A r \in Open(L) : M[r].parent = L[r].parent
  BY <1>2 DEF Reserves, Open
<1>6. \A x \in Open(L) : Chain(M, x) = Chain(L, x)
  BY <1>5, ChainStable DEF Books
<1>7. ParentsOpen(M)
  BY <1>5 DEF Books, ParentsOpen
<1>8. HeldAtChain(M, D)
  <2> SUFFICES ASSUME NEW d \in Calls, D[d].phase = "held"
               PROVE  D[d].levels = Chain(M, D[d].run)
    BY DEF HeldAtChain
  <2>1. CASE d = c
    BY <2>1, <1>4
  <2>2. CASE d # c
    <3>1. D[d] = C[d] /\ C[d].run \in Open(L) /\ C[d].levels = Chain(L, C[d].run)
      BY <2>2, <1>4 DEF Books, Base, ChargedIsOpen, Charged, HeldAtChain
    <3> QED BY <3>1, <1>6
  <2> QED BY <2>1, <2>2
<1>9. \A r \in Runs : /\ Owed(C[c], r) = 0 /\ Paid(C[c], r) = 0 /\ Paid(D[c], r) = 0
                      /\ Owed(D[c], r) = IF r \in Chain(L, run) THEN amount ELSE 0
  BY <1>4, <1>6 DEF Owed, Paid
<1>10. \A r \in Runs :
         /\ L[r].reserved = Total(OwedAt(C, r), NumCalls) /\ L[r].reserved \in Nat
         /\ L[r].spent = Total(PaidAt(C, r), NumCalls) /\ L[r].spent \in Nat
  BY <1>1 DEF Books, ReservedIs, SpentIs, Ledgers, RunState
<1>11. ReservedIs(M, D) /\ SpentIs(M, D)
  <2> SUFFICES ASSUME NEW r \in Runs
               PROVE  /\ M[r].reserved = Total(OwedAt(D, r), NumCalls)
                      /\ M[r].spent = Total(PaidAt(D, r), NumCalls)
    BY DEF ReservedIs, SpentIs
  <2>1. D \in [Calls -> CallState]
    BY <1>3 DEF Base, Typed
  <2>2. /\ Total(OwedAt(D, r), NumCalls) = L[r].reserved + Owed(D[c], r) - 0
        /\ Total(PaidAt(D, r), NumCalls) = L[r].spent + 0 - 0
    BY <1>1, <1>4, <1>9, <1>10, <2>1, OneCallTally
  <2>3. /\ M[r].spent = L[r].spent
        /\ M[r].reserved = IF r \in Chain(L, run) THEN L[r].reserved + amount ELSE L[r].reserved
    BY <1>2 DEF Reserves
  <2> QED BY <1>9, <1>10, <2>2, <2>3
<1>12. WithinPeak(M, P, U)
  <2> SUFFICES ASSUME NEW r \in Runs
               PROVE  /\ M[r].spent + M[r].reserved <= P[r] + U[r]
                      /\ M[r].budget <= P[r] /\ 0 <= P[r]
    BY DEF WithinPeak
  <2>1. /\ L[r].spent + L[r].reserved <= P[r] + O[r]
        /\ L[r].budget <= P[r] /\ 0 <= P[r] /\ U[r] >= O[r]
    BY DEF Books, WithinPeak
  <2>2. /\ M[r].spent = L[r].spent /\ M[r].budget = L[r].budget
        /\ M[r].reserved = IF r \in Chain(L, run) THEN L[r].reserved + amount ELSE L[r].reserved
    BY <1>2 DEF Reserves
  <2>3. P[r] \in Int /\ U[r] \in Nat /\ O[r] \in Nat
    BY <1>1
  <2>4. CASE r \in Chain(L, run)
    BY <1>10, <2>1, <2>2, <2>3, <2>4
  <2>5. CASE r \notin Chain(L, run)
    BY <1>10, <2>1, <2>2, <2>3, <2>5
  <2> QED BY <2>4, <2>5
<1> QED BY <1>3, <1>7, <1>8, <1>11, <1>12 DEF Books, D, M

(* A refused call was idle and is never charged: the books stay.           *)
LEMMA RefuseKeepsBooks ==
  ASSUME NEW L, NEW C, NEW P, NEW O, Books(L, C, P, O),
         NEW c \in Calls, C[c].phase = "idle", NEW k \in CallState, ~Charged(k)
  PROVE  Books(L, [C EXCEPT ![c] = k], P, O)
<1> DEFINE D == [C EXCEPT ![c] = k]
<1>1. C \in [Calls -> CallState]
  BY DEF Books, Base, Typed
<1>2. D[c] = k /\ \A d \in Calls \ {c} : D[d] = C[d]
  BY <1>1
<1>3. Base(L, D, P, O)
  BY RefuseKeepsBase DEF Books
<1> HIDE DEF D
<1>4. HeldAtChain(L, D)
  BY <1>2 DEF Books, HeldAtChain, Charged
<1>5. \A r \in Runs : OwedAt(D, r) = OwedAt(C, r) /\ PaidAt(D, r) = PaidAt(C, r)
  BY <1>2 DEF OwedAt, PaidAt, Owed, Paid, Charged
<1>6. ReservedIs(L, D) /\ SpentIs(L, D)
  BY <1>5 DEF Books, ReservedIs, SpentIs
<1> QED BY <1>3, <1>4, <1>6 DEF Books, D

(* Settling a held call releases exactly what it holds, books what it      *)
(* cost, and preserves the books if the cost above the estimate is booked  *)
(* as overrun.                                                             *)
LEMMA SettleKeepsBooks ==
  ASSUME NEW L, NEW C, NEW P, NEW O, Books(L, C, P, O), NEW U \in [Runs -> Nat],
         NEW c \in Calls, C[c].phase = "held", NEW actual \in Nat,
         \A r \in Runs : U[r] = IF r \in Chain(L, C[c].run)
                                THEN O[r] + Monus(actual, C[c].amount) ELSE O[r]
  PROVE  Books(Settle(L, C[c].run, C[c].amount, actual),
               [C EXCEPT ![c] = SettledCall(C[c], actual)], P, U)
<1> DEFINE M == Settle(L, C[c].run, C[c].amount, actual)
           D == [C EXCEPT ![c] = SettledCall(C[c], actual)]
           a == C[c].amount
           ch == Chain(L, C[c].run)
<1>1. /\ L \in Ledgers /\ C \in [Calls -> CallState]
      /\ P \in [Runs -> Int] /\ O \in [Runs -> Nat]
  BY DEF Books, Base, Typed
<1>2. C[c].run \in Runs /\ a \in Nat
  <2>1. C[c].run \in Open(L)
    BY DEF Books, Base, ChargedIsOpen, Charged
  <2>2. C[c].amount \in Nat
    BY <1>1 DEF CallState
  <2> QED BY <2>1, <2>2 DEF Open
<1>3. Settles(L, M, C[c].run, C[c].amount, actual)
  BY <1>1, <1>2, SettleEffect
<1>4. Base(M, D, P, U)
  BY SettleKeepsBase DEF Books
<1>5. /\ \A d \in Calls \ {c} : D[d] = C[d]
      /\ D[c].phase = "settled" /\ D[c].actual = actual /\ D[c].levels = C[c].levels
  BY <1>1, SettledCallFields
<1> HIDE DEF M, D
<1>6. Open(M) = Open(L) /\ \A r \in Open(L) : M[r].parent = L[r].parent
  BY <1>3 DEF Settles, Open
<1>7. \A x \in Open(L) : Chain(M, x) = Chain(L, x)
  BY <1>6, ChainStable DEF Books
<1>8. ParentsOpen(M)
  BY <1>6 DEF Books, ParentsOpen
<1>9. HeldAtChain(M, D)
  <2> SUFFICES ASSUME NEW d \in Calls, D[d].phase = "held"
               PROVE  D[d].levels = Chain(M, D[d].run)
    BY DEF HeldAtChain
  <2>1. d # c
    BY <1>5
  <2>2. D[d] = C[d] /\ C[d].run \in Open(L) /\ C[d].levels = Chain(L, C[d].run)
    BY <2>1, <1>5 DEF Books, Base, ChargedIsOpen, Charged, HeldAtChain
  <2> QED BY <2>2, <1>7
<1>10. C[c].levels = ch
  BY DEF Books, HeldAtChain
<1>11. \A r \in Runs : /\ Owed(C[c], r) = IF r \in ch THEN a ELSE 0
                       /\ Owed(D[c], r) = 0 /\ Paid(C[c], r) = 0
                       /\ Paid(D[c], r) = IF r \in ch THEN actual ELSE 0
  <2> HIDE DEF ch
  <2> QED BY <1>5, <1>10 DEF Owed, Paid
<1>12. \A r \in Runs :
         /\ L[r].reserved = Total(OwedAt(C, r), NumCalls) /\ L[r].reserved \in Nat
         /\ L[r].spent = Total(PaidAt(C, r), NumCalls) /\ L[r].spent \in Nat
  BY <1>1 DEF Books, ReservedIs, SpentIs, Ledgers, RunState
<1>13. \A r \in Runs : Owed(C[c], r) <= L[r].reserved
  <2> SUFFICES ASSUME NEW r \in Runs PROVE Owed(C[c], r) <= L[r].reserved
    OBVIOUS
  <2>1. OwedAt(C, r) \in [1 .. NumCalls -> Nat] /\ OwedAt(C, r)[c] = Owed(C[c], r)
    BY <1>1, TallyTypes DEF OwedAt
  <2>2. c \in 1 .. NumCalls /\ NumCalls \in Nat
    BY NumCallsAssumption DEF Calls
  <2>3. OwedAt(C, r)[c] <= Total(OwedAt(C, r), NumCalls)
    BY <2>1, <2>2, TotalAtLeast
  <2> QED BY <1>12, <2>1, <2>3
<1> HIDE DEF a, ch
<1>14. \A r \in Runs :
         /\ M[r].budget = L[r].budget
         /\ M[r].reserved = IF r \in ch THEN L[r].reserved - a ELSE L[r].reserved
         /\ M[r].spent = IF r \in ch THEN L[r].spent + actual ELSE L[r].spent
  <2> SUFFICES ASSUME NEW r \in Runs
               PROVE  /\ M[r].budget = L[r].budget
                      /\ M[r].reserved = IF r \in ch THEN L[r].reserved - a ELSE L[r].reserved
                      /\ M[r].spent = IF r \in ch THEN L[r].spent + actual ELSE L[r].spent
    OBVIOUS
  <2>1. /\ M[r].budget = L[r].budget
        /\ M[r].reserved = IF r \in ch THEN Monus(L[r].reserved, a) ELSE L[r].reserved
        /\ M[r].spent = IF r \in ch THEN L[r].spent + actual ELSE L[r].spent
    BY <1>3 DEF Settles, a, ch
  <2>2. r \in ch => a <= L[r].reserved
    BY <1>11, <1>13
  <2>3. a \in Nat /\ L[r].reserved \in Nat
    BY <1>2, <1>12
  <2>4. r \in ch => Monus(L[r].reserved, a) = L[r].reserved - a
    BY <2>2, <2>3 DEF Monus
  <2> QED BY <2>1, <2>4
<1>15. ReservedIs(M, D) /\ SpentIs(M, D)
  <2> SUFFICES ASSUME NEW r \in Runs
               PROVE  /\ M[r].reserved = Total(OwedAt(D, r), NumCalls)
                      /\ M[r].spent = Total(PaidAt(D, r), NumCalls)
    BY DEF ReservedIs, SpentIs
  <2>1. D \in [Calls -> CallState]
    BY <1>4 DEF Base, Typed
  <2>2. /\ Total(OwedAt(D, r), NumCalls) = L[r].reserved + 0 - Owed(C[c], r)
        /\ Total(PaidAt(D, r), NumCalls) = L[r].spent + Paid(D[c], r) - 0
    BY <1>1, <1>5, <1>11, <1>12, <2>1, OneCallTally
  <2> QED BY <1>2, <1>11, <1>12, <1>14, <2>2
<1>16. WithinPeak(M, P, U)
  <2> SUFFICES ASSUME NEW r \in Runs
               PROVE  /\ M[r].spent + M[r].reserved <= P[r] + U[r]
                      /\ M[r].budget <= P[r] /\ 0 <= P[r]
    BY DEF WithinPeak
  <2>1. /\ L[r].spent + L[r].reserved <= P[r] + O[r]
        /\ L[r].budget <= P[r] /\ 0 <= P[r]
    BY DEF Books, WithinPeak
  <2>2. P[r] \in Int /\ O[r] \in Nat
    BY <1>1
  <2>3. U[r] = IF r \in ch THEN O[r] + Monus(actual, a) ELSE O[r]
    BY DEF a, ch
  <2>4. Monus(actual, a) \in Nat /\ actual - a <= Monus(actual, a)
    BY <1>2 DEF Monus
  <2>5. CASE r \in ch
    BY <1>2, <1>12, <1>14, <2>1, <2>2, <2>3, <2>4, <2>5
  <2>6. CASE r \notin ch
    BY <1>12, <1>14, <2>1, <2>2, <2>3, <2>6
  <2> QED BY <2>5, <2>6
<1> QED BY <1>4, <1>8, <1>9, <1>15, <1>16 DEF Books, D, M

BooksInv == Books(ledger, call, peak, overrun)

(* An empty ledger with idle calls has balanced books.                     *)
LEMMA InitBooks == Init => BooksInv
<1> SUFFICES ASSUME Init PROVE BooksInv
  OBVIOUS
<1>1. Base(ledger, call, peak, overrun)
  BY InitBase DEF BaseInv
<1>2. \A r \in Runs : /\ ~ledger[r].open /\ ledger[r].reserved = 0 /\ ledger[r].spent = 0
                      /\ ledger[r].budget = 0 /\ peak[r] = 0 /\ overrun[r] = 0
  BY DEF Init, EmptyLedger, Closed
<1>3. call \in [Calls -> CallState] /\ \A c \in Calls : call[c].phase = "idle"
  BY <1>1 DEF Base, Typed, Init, IdleCall
<1>4. ParentsOpen(ledger)
  BY <1>2 DEF ParentsOpen, Open
<1>5. HeldAtChain(ledger, call)
  BY <1>3 DEF HeldAtChain
<1>6. ReservedIs(ledger, call) /\ SpentIs(ledger, call)
  <2> SUFFICES ASSUME NEW r \in Runs
               PROVE  /\ ledger[r].reserved = Total(OwedAt(call, r), NumCalls)
                      /\ ledger[r].spent = Total(PaidAt(call, r), NumCalls)
    BY DEF ReservedIs, SpentIs
  <2>1. /\ OwedAt(call, r) \in [1 .. NumCalls -> Nat]
        /\ PaidAt(call, r) \in [1 .. NumCalls -> Nat]
    BY <1>3, TallyTypes
  <2>2. \A i \in 1 .. NumCalls : OwedAt(call, r)[i] = 0 /\ PaidAt(call, r)[i] = 0
    BY <1>3 DEF OwedAt, PaidAt, Owed, Paid, Calls
  <2>3. Total(OwedAt(call, r), NumCalls) = 0 /\ Total(PaidAt(call, r), NumCalls) = 0
    BY <2>1, <2>2, TotalZero, NumCallsAssumption
  <2> QED BY <1>2, <2>3
<1>7. WithinPeak(ledger, peak, overrun)
  <2> SUFFICES ASSUME NEW r \in Runs
               PROVE  /\ ledger[r].spent + ledger[r].reserved <= peak[r] + overrun[r]
                      /\ ledger[r].budget <= peak[r] /\ 0 <= peak[r]
    BY DEF WithinPeak
  <2>1. /\ ledger[r].reserved = 0 /\ ledger[r].spent = 0 /\ ledger[r].budget = 0
        /\ peak[r] = 0 /\ overrun[r] = 0
    BY <1>2
  <2> QED BY <2>1
<1> QED BY <1>1, <1>4, <1>5, <1>6, <1>7 DEF BooksInv, Books

(* Every step keeps the books, if runs are declared after their parents.   *)
LEMMA NextBooks ==
  ASSUME ParentsFirst
  PROVE  BooksInv /\ [Next]_vars => BooksInv'
<1> SUFFICES ASSUME BooksInv, [Next]_vars PROVE BooksInv'
  OBVIOUS
<1>0. /\ Books(ledger, call, peak, overrun)
      /\ ledger \in Ledgers /\ call \in [Calls -> CallState]
      /\ peak \in [Runs -> Int] /\ overrun \in [Runs -> Nat]
  BY DEF BooksInv, Books, Base, Typed
<1>1. ASSUME NEW r \in Runs, NEW b \in Budgets, NEW p \in Runs \cup {NoRun}, Declare(r, b, p)
      PROVE  BooksInv'
  <2>1. b \in Int
    BY BudgetsAssumption
  <2>2. peak' \in [Runs -> Int] /\ peak'[r] >= b /\ \A x \in Runs : peak'[x] >= peak[x]
    BY <1>0, <1>1, <2>1 DEF Declare, Raise
  <2>3. ledger[r].open \/ p \in Open(ledger) \cup {NoRun}
    BY <1>1 DEF Declare
  <2>4. Books(OpenRun(ledger, r, b, p), call, peak', overrun)
    BY <1>0, <2>1, <2>2, <2>3, OpenKeepsBooks
  <2> QED BY <1>1, <2>4 DEF Declare, BooksInv
<1>2. ASSUME NEW c \in Calls, NEW r \in Runs, NEW e \in Amounts, ReserveOk(c, r, e)
      PROVE  BooksInv'
  <2>1. e \in Nat /\ r \in Open(ledger) /\ call[c].phase = "idle"
    BY <1>2, AmountsAssumption DEF ReserveOk, CanReserve, Open
  <2>2. /\ ledger' = Reserve(ledger, r, e) /\ peak' = peak /\ overrun' = overrun
        /\ call' = [call EXCEPT ![c] = HeldCall(r, e, ledger'[r].steps, Chain(ledger', r))]
    BY <1>2 DEF ReserveOk, Grant
  <2>3. ASSUME NEW x \in Chain(ledger, r)
        PROVE  ledger[x].spent + ledger[x].reserved + e <= peak[x] + overrun[x]
    <3>1. x \in Runs
      BY ChainIsOpen
    <3>2. /\ ledger[x].spent \in Nat /\ ledger[x].reserved \in Nat /\ ledger[x].budget \in Int
          /\ peak[x] \in Int /\ overrun[x] \in Nat
      BY <1>0, <3>1 DEF Ledgers, RunState
    <3>3. ledger[x].budget <= peak[x]
      BY <1>0, <3>1 DEF Books, WithinPeak
    <3>4. ~(ledger[x].spent + ledger[x].reserved + e > ledger[x].budget)
      BY <1>2 DEF ReserveOk, CanReserve, ExceededLevels, Committed
    <3> QED BY <2>1, <3>2, <3>3, <3>4
  <2>4. \A x \in Runs : overrun[x] >= overrun[x]
    BY <1>0
  <2>5. Books(ledger', call', peak, overrun)
    BY <1>0, <2>1, <2>2, <2>3, <2>4, ChargeKeepsBooks
  <2> QED BY <2>2, <2>5 DEF BooksInv
<1>3. ASSUME NEW c \in Calls, NEW r \in Runs, NEW e \in Amounts, ReserveRefused(c, r, e)
      PROVE  BooksInv'
  <2> DEFINE b == IF ledger[r].open THEN BlockedAt(ledger, r, e) ELSE NoRun
             k == RefusedCall(r, e, b)
  <2>1. /\ ledger' = ledger /\ peak' = peak /\ overrun' = overrun
        /\ call[c].phase = "idle" /\ call' = [call EXCEPT ![c] = k]
    BY <1>3 DEF ReserveRefused
  <2> HIDE DEF b
  <2>2. ~Charged(k)
    BY DEF RefusedCall, Charged
  <2> HIDE DEF k
  <2>3. call' \in [Calls -> CallState]
    BY <1>0, <1>3, NextBase DEF Books, BaseInv, Base, Typed, Next
  <2>4. k \in CallState
    BY <1>0, <2>1, <2>3
  <2>5. Books(ledger, call', peak, overrun)
    BY <1>0, <2>1, <2>4, <2>2, RefuseKeepsBooks
  <2> QED BY <2>1, <2>5 DEF BooksInv
<1>4. ASSUME NEW c \in Calls, NEW r \in Runs, NEW e \in Amounts, ReserveAnyway(c, r, e)
      PROVE  BooksInv'
  <2> DEFINE K == IF ledger[r].open THEN ledger ELSE OpenRun(ledger, r, 0, NoRun)
  <2>1. e \in Nat /\ call[c].phase = "idle"
    BY <1>4, AmountsAssumption DEF ReserveAnyway
  <2>2. Books(K, call, peak, overrun) /\ r \in Open(K)
    <3>1. CASE ledger[r].open
      BY <3>1, <1>0 DEF Open
    <3>2. CASE ~ledger[r].open
      <4>1. peak[r] >= 0 /\ \A x \in Runs : peak[x] >= peak[x]
        BY <1>0 DEF Books, WithinPeak
      <4>2. Books(OpenRun(ledger, r, 0, NoRun), call, peak, overrun)
        BY <1>0, <4>1, OpenKeepsBooks
      <4>3. Opens(ledger, OpenRun(ledger, r, 0, NoRun), r, 0, NoRun)
        BY <1>0, OpenRunEffect
      <4> QED BY <3>2, <4>2, <4>3 DEF Opens, Open
    <3> QED BY <3>1, <3>2
  <2>3. /\ ledger' = Reserve(K, r, e) /\ peak' = peak
        /\ overrun' = AddAt(overrun, Chain(ledger', r), e)
        /\ call' = [call EXCEPT ![c] = HeldCall(r, e, ledger'[r].steps, Chain(ledger', r))]
    BY <1>4 DEF ReserveAnyway, ReserveUnchecked, Grant
  <2> HIDE DEF K
  <2>4. K \in Ledgers
    BY <2>2 DEF Books, Base, Typed
  <2>5. Chain(ledger', r) = Chain(K, r)
    <3>1. Reserves(K, ledger', r, e)
      BY <2>1, <2>3, <2>4, ReserveEffect
    <3>2. Open(ledger') = Open(K) /\ \A x \in Open(K) : ledger'[x].parent = K[x].parent
      BY <3>1 DEF Reserves, Open
    <3> QED BY <2>2, <3>2, ChainStable DEF Books
  <2>6. overrun' \in [Runs -> Nat] /\ \A x \in Runs : overrun'[x] >= overrun[x]
    BY <1>0, <2>1, <2>3 DEF AddAt
  <2>7. ASSUME NEW x \in Chain(K, r)
        PROVE  K[x].spent + K[x].reserved + e <= peak[x] + overrun'[x]
    <3>1. x \in Runs
      BY ChainIsOpen
    <3>2. /\ K[x].spent \in Nat /\ K[x].reserved \in Nat
          /\ peak[x] \in Int /\ overrun[x] \in Nat
      BY <1>0, <2>4, <3>1 DEF Ledgers, RunState
    <3>3. K[x].spent + K[x].reserved <= peak[x] + overrun[x]
      BY <2>2, <3>1 DEF Books, WithinPeak
    <3>4. overrun'[x] = overrun[x] + e
      BY <2>3, <2>5, <3>1 DEF AddAt
    <3> QED BY <2>1, <3>2, <3>3, <3>4
  <2>8. Books(ledger', call', peak, overrun')
    BY <2>1, <2>2, <2>3, <2>6, <2>7, ChargeKeepsBooks
  <2> QED BY <2>3, <2>8 DEF BooksInv
<1>5. ASSUME NEW c \in Calls, NEW a \in Amounts, SettleCall(c, a)
      PROVE  BooksInv'
  <2>1. a \in Nat /\ call[c].phase = "held" /\ call[c].amount \in Nat
    BY <1>0, <1>5, AmountsAssumption DEF SettleCall, CallState
  <2>2. /\ ledger' = Settle(ledger, call[c].run, call[c].amount, a) /\ peak' = peak
        /\ overrun' = AddAt(overrun, Chain(ledger, call[c].run), Monus(a, call[c].amount))
        /\ call' = [call EXCEPT ![c] = SettledCall(call[c], a)]
    BY <1>5 DEF SettleCall
  <2>3. Monus(a, call[c].amount) \in Nat
    BY <2>1 DEF Monus
  <2>4. /\ overrun' \in [Runs -> Nat]
        /\ \A x \in Runs : overrun'[x] = IF x \in Chain(ledger, call[c].run)
                                         THEN overrun[x] + Monus(a, call[c].amount)
                                         ELSE overrun[x]
    BY <1>0, <2>2, <2>3 DEF AddAt
  <2>5. Books(ledger', call', peak, overrun')
    BY <1>0, <2>1, <2>2, <2>4, SettleKeepsBooks
  <2> QED BY <2>2, <2>5 DEF BooksInv
<1>6. CASE UNCHANGED vars
  BY <1>0, <1>6 DEF vars, BooksInv
<1> QED BY <1>1, <1>2, <1>3, <1>4, <1>5, <1>6 DEF Next

(* The books balance in every reachable state.                             *)
LEMMA BooksAlways ==
  ASSUME ParentsFirst
  PROVE  Spec => []BooksInv
<1>1. BooksInv /\ [Next]_vars => BooksInv'
  BY NextBooks
<1> QED BY <1>1, InitBooks, PTL DEF Spec

(* At every level of a run tree, reserved is exactly the estimates of the  *)
(* calls charged there and not yet settled: a settle releases what its     *)
(* reserve held, at the same levels, and clamps nothing away.              *)
THEOREM ReservedAccounted ==
  ASSUME ParentsFirst
  PROVE  Spec => []ReservedIsOutstanding
<1>1. BooksInv => ReservedIsOutstanding
  BY DEF BooksInv, Books, ReservedIs, OwedAt, ReservedIsOutstanding
<1> QED BY <1>1, BooksAlways, PTL

(* At every level of a run tree, spent is exactly the real cost of the     *)
(* settled calls charged there.                                            *)
THEOREM SpentAccounted ==
  ASSUME ParentsFirst
  PROVE  Spec => []SpentIsSettled
<1>1. BooksInv => SpentIsSettled
  BY DEF BooksInv, Books, SpentIs, PaidAt, SpentIsSettled
<1> QED BY <1>1, BooksAlways, PTL

(* However many calls race for a run tree, spent plus reserved exceeds the *)
(* highest budget a level ever had only by what was admitted without a     *)
(* check at that level.                                                    *)
THEOREM BudgetHolds ==
  ASSUME ParentsFirst
  PROVE  Spec => []BudgetCeiling
<1>1. BooksInv => BudgetCeiling
  BY DEF BooksInv, Books, WithinPeak, Committed, BudgetCeiling
<1> QED BY <1>1, BooksAlways, PTL
=============================================================================
