----------------------------- MODULE LedgerOps -----------------------------
(***************************************************************************)
(* The operations of the in-process budget ledger (crates/core/ledger.rs)  *)
(* as pure operators on a ledger value.  The ledger is a map from run ids  *)
(* to run states guarded by one mutex, so every operation below is one     *)
(* atomic step of whoever calls it; the modules that extend this one say   *)
(* who calls what, and when.                                               *)
(*                                                                         *)
(* A ledger value is a function L on Runs; L[r].open says whether the map  *)
(* holds an entry for r.  Money is a whole number of microdollars.         *)
(*                                                                         *)
(* The lemmas say what each operation does to a ledger, for every set of   *)
(* runs and every chain depth; the proofs about its callers cite them.     *)
(***************************************************************************)
EXTENDS Integers, Tally

CONSTANTS
  Runs,           \* run ids a request may carry
  NoRun,          \* the absent parent (Option::None)
  MaxChainDepth   \* MAX_CHAIN_DEPTH: levels walked up the run tree (64 in the code)

ASSUME NoRunAssumption == NoRun \notin Runs
ASSUME MaxChainDepthAssumption == MaxChainDepth \in Nat \ {0}

RunState ==
  [open : BOOLEAN, budget : Int, reserved : Nat, spent : Nat, steps : Nat,
   parent : Runs \cup {NoRun}]

Ledgers == [Runs -> RunState]

Closed == [open |-> FALSE, budget |-> 0, reserved |-> 0, spent |-> 0,
           steps |-> 0, parent |-> NoRun]

EmptyLedger == [r \in Runs |-> Closed]

Open(L) == {r \in Runs : L[r].open}

(***************************************************************************)
(* open_run: an existing entry only takes the new budget; its counters and *)
(* its parent stay.  A new entry starts at zero under the given parent,    *)
(* which need not exist.                                                   *)
(***************************************************************************)
OpenRun(L, run, budget, parent) ==
  [L EXCEPT ![run] =
     IF L[run].open THEN [L[run] EXCEPT !.budget = budget]
     ELSE [Closed EXCEPT !.open = TRUE, !.budget = budget, !.parent = parent]]

(***************************************************************************)
(* chain: the levels a call on run is charged at.  The code walks from the *)
(* leaf to its ancestors and stops at a run with no entry, at a repetition *)
(* or after MAX_CHAIN_DEPTH levels; the levels it visits are those at the  *)
(* end of a path of parent links between open runs; ReachedIn is the n-th  *)
(* level (at most one run).                                                *)
(***************************************************************************)
ReachedIn(L, run, n) ==
  {r \in Open(L) : \E p \in [1 .. n -> Open(L)] :
     /\ p[1] = run /\ p[n] = r
     /\ \A i \in 1 .. n - 1 : L[p[i]].parent = p[i + 1]}

Chain(L, run) == UNION {ReachedIn(L, run, n) : n \in 1 .. MaxChainDepth}

Committed(L, r) == L[r].spent + L[r].reserved

Monus(a, b) == IF a > b THEN a - b ELSE 0   \* Microusd::saturating_sub

\* Mutant of ExceededLevels: "check spent, then add", blind to calls in flight.
ExceededBySpent(L, run, estimate) ==
  {r \in Chain(L, run) : L[r].spent + estimate > L[r].budget}

ExceededLevels(L, run, estimate) ==
  {r \in Chain(L, run) : Committed(L, r) + estimate > L[r].budget}

(* The level the refusal names: the first one over budget, leaf first.     *)
BlockedAt(L, run, estimate) ==
  LET Over == ExceededLevels(L, run, estimate)
  IN  CHOOSE r \in Over : \E n \in 1 .. MaxChainDepth :
        /\ r \in ReachedIn(L, run, n)
        /\ \A m \in 1 .. n - 1 : ReachedIn(L, run, m) \cap Over = {}

(***************************************************************************)
(* reserve succeeds when the run is known and no level would exceed its    *)
(* budget; it then holds the estimate at every level and counts one step   *)
(* on the leaf.  reserve_unchecked opens an unknown run at zero budget and *)
(* holds the estimate whatever the budgets say.                            *)
(***************************************************************************)
CanReserve(L, run, estimate) ==
  L[run].open /\ ExceededLevels(L, run, estimate) = {}

\* Mutant of Reserve: the step is not counted.
ReserveNoStep(L, run, amount) ==
  LET levels == Chain(L, run)
  IN  [r \in Runs |->
         [L[r] EXCEPT !.reserved = IF r \in levels THEN @ + amount ELSE @]]

Reserve(L, run, amount) ==
  LET levels == Chain(L, run)
  IN  [r \in Runs |->
         [L[r] EXCEPT !.reserved = IF r \in levels THEN @ + amount ELSE @,
                      !.steps = IF r = run THEN @ + 1 ELSE @]]

ReserveUnchecked(L, run, amount) ==
  Reserve(IF L[run].open THEN L ELSE OpenRun(L, run, 0, NoRun), run, amount)

(***************************************************************************)
(* settle: at every level of the chain AS IT IS NOW, release the reserved  *)
(* amount (never below zero) and add the actual cost.                      *)
(***************************************************************************)
\* Mutant of Settle: only the leaf is settled.
SettleLeafOnly(L, run, amount, actual) ==
  [L EXCEPT ![run].reserved = Monus(@, amount), ![run].spent = @ + actual]

\* Mutant of Settle: releases the actual cost instead of the estimate, unclamped.
SettleReleasesActual(L, run, amount, actual) ==
  LET levels == Chain(L, run)
  IN  [r \in Runs |->
         IF r \in levels
         THEN [L[r] EXCEPT !.reserved = @ - actual, !.spent = @ + actual]
         ELSE L[r]]

\* Mutant of Settle: books the estimate as spend.
SettleBooksEstimate(L, run, amount, actual) ==
  LET levels == Chain(L, run)
  IN  [r \in Runs |->
         IF r \in levels
         THEN [L[r] EXCEPT !.reserved = Monus(@, amount), !.spent = @ + amount]
         ELSE L[r]]

Settle(L, run, amount, actual) ==
  LET levels == Chain(L, run)
  IN  [r \in Runs |->
         IF r \in levels
         THEN [L[r] EXCEPT !.reserved = Monus(@, amount), !.spent = @ + actual]
         ELSE L[r]]

-----------------------------------------------------------------------------
(* Every open run's parent is absent or open: what declaring parents first *)
(* buys, and what makes a run's chain stable while calls are in flight.    *)
ParentsOpen(L) == \A r \in Open(L) : L[r].parent \in Open(L) \cup {NoRun}

(* chain visits only runs that have an entry.                              *)
LEMMA ChainIsOpen ==
  ASSUME NEW L, NEW run
  PROVE  Chain(L, run) \subseteq Open(L) /\ Open(L) \subseteq Runs
BY DEF Chain, ReachedIn, Open

(* chain visits the leaf itself.                                           *)
LEMMA LeafInChain ==
  ASSUME NEW L, NEW run \in Open(L)
  PROVE  run \in Chain(L, run)
<1> DEFINE p == [i \in 1 .. 1 |-> run]
<1>1. p \in [1 .. 1 -> Open(L)] /\ p[1] = run
  OBVIOUS
<1>2. run \in ReachedIn(L, run, 1)
  <2> HIDE DEF p
  <2> QED BY <1>1 DEF ReachedIn
<1>3. 1 \in 1 .. MaxChainDepth
  BY MaxChainDepthAssumption
<1> HIDE DEF p
<1> QED BY <1>2, <1>3 DEF Chain

(* A ledger that only gained entries charges a known run at the same       *)
(* levels, if no entry it had waited for a parent to appear.               *)
LEMMA ChainStable ==
  ASSUME NEW L, NEW M, NEW run \in Open(L), ParentsOpen(L),
         Open(L) \subseteq Open(M),
         \A r \in Open(L) : M[r].parent = L[r].parent
  PROVE  Chain(M, run) = Chain(L, run)
<1> SUFFICES ASSUME NEW n \in 1 .. MaxChainDepth
             PROVE  ReachedIn(M, run, n) = ReachedIn(L, run, n)
  BY DEF Chain
<1>0. n \in Nat /\ n >= 1
  BY MaxChainDepthAssumption
<1>1. ReachedIn(L, run, n) \subseteq ReachedIn(M, run, n)
  <2> SUFFICES ASSUME NEW r \in ReachedIn(L, run, n) PROVE r \in ReachedIn(M, run, n)
    OBVIOUS
  <2>1. PICK p \in [1 .. n -> Open(L)] :
          /\ p[1] = run /\ p[n] = r
          /\ \A i \in 1 .. n - 1 : L[p[i]].parent = p[i + 1]
    BY DEF ReachedIn
  <2>2. \A i \in 1 .. n - 1 : p[i] \in Open(L)
    BY <1>0
  <2>3. p \in [1 .. n -> Open(M)]
    OBVIOUS
  <2>4. \A i \in 1 .. n - 1 : M[p[i]].parent = p[i + 1]
    BY <2>1, <2>2
  <2>5. r \in Open(M)
    BY <2>1, <2>3, <1>0
  <2> QED BY <2>1, <2>3, <2>4, <2>5 DEF ReachedIn
<1>2. ReachedIn(M, run, n) \subseteq ReachedIn(L, run, n)
  <2> SUFFICES ASSUME NEW r \in ReachedIn(M, run, n) PROVE r \in ReachedIn(L, run, n)
    OBVIOUS
  <2>1. PICK p \in [1 .. n -> Open(M)] :
          /\ p[1] = run /\ p[n] = r
          /\ \A i \in 1 .. n - 1 : M[p[i]].parent = p[i + 1]
    BY DEF ReachedIn
  <2> DEFINE Bad == {i \in 1 .. n : p[i] \notin Open(L)}
  <2>2. Bad = {}
    <3> SUFFICES ASSUME Bad # {} PROVE FALSE
      OBVIOUS
    <3>1. Bad \subseteq Nat
      OBVIOUS
    <3>2. PICK m \in Bad : \A k \in Bad : m <= k
      <4> HIDE DEF Bad
      <4> QED BY <3>1, LeastNat
    <3>3. m # 1
      BY <2>1
    <3>4. m - 1 \in 1 .. n - 1 /\ m - 1 \in 1 .. n /\ m - 1 \notin Bad
      BY <3>2, <3>3, <1>0
    <3>5. p[m - 1] \in Open(L)
      BY <3>4
    <3>6. M[p[m - 1]].parent = p[m]
      BY <2>1, <3>4
    <3>7. p[m] \in Open(L) \cup {NoRun}
      BY <3>5, <3>6 DEF ParentsOpen
    <3>8. p[m] \in Runs
      BY ChainIsOpen DEF Open
    <3> QED BY <3>7, <3>8, NoRunAssumption
  <2>3. p \in [1 .. n -> Open(L)]
    BY <2>2
  <2>4. \A i \in 1 .. n - 1 : L[p[i]].parent = p[i + 1]
    BY <2>1, <2>3, <1>0
  <2>5. r \in Open(L)
    BY <2>1, <2>3, <1>0
  <2> QED BY <2>1, <2>3, <2>4, <2>5 DEF ReachedIn
<1> QED BY <1>1, <1>2

(* A refusal for want of budget names a level of the run's chain that      *)
(* would be exceeded.                                                      *)
LEMMA BlockedAtIsExceeded ==
  ASSUME NEW L, NEW run, NEW estimate, ExceededLevels(L, run, estimate) # {}
  PROVE  BlockedAt(L, run, estimate) \in ExceededLevels(L, run, estimate)
<1> DEFINE Over == ExceededLevels(L, run, estimate)
           Hit == {n \in 1 .. MaxChainDepth : ReachedIn(L, run, n) \cap Over # {}}
           First(r) == \E n \in 1 .. MaxChainDepth :
                         /\ r \in ReachedIn(L, run, n)
                         /\ \A m \in 1 .. n - 1 : ReachedIn(L, run, m) \cap Over = {}
<1>1. Over \subseteq Chain(L, run)
  BY DEF ExceededLevels
<1> HIDE DEF Over
<1>2. Hit # {}
  BY <1>1 DEF Chain, Over
<1>3. Hit \subseteq Nat
  OBVIOUS
<1>4. PICK n \in Hit : \A m \in Hit : n <= m
  <2> HIDE DEF Hit
  <2> QED BY <1>2, <1>3, LeastNat
<1>5. PICK r \in Over : r \in ReachedIn(L, run, n)
  BY <1>4
<1>6. \A m \in 1 .. n - 1 : ReachedIn(L, run, m) \cap Over = {}
  BY <1>4, MaxChainDepthAssumption
<1>7. \E x \in Over : First(x)
  BY <1>4, <1>5, <1>6
<1>8. BlockedAt(L, run, estimate) = CHOOSE x \in Over : First(x)
  BY DEF BlockedAt, Over
<1> HIDE DEF First
<1>9. (CHOOSE x \in Over : First(x)) \in Over
  BY <1>7, Zenon
<1> QED BY <1>8, <1>9 DEF Over

(* What open_run, reserve and settle do, entry by entry: M is the ledger   *)
(* after the operation on L.                                               *)
Opens(L, M, run, budget, parent) ==
  /\ M \in Ledgers
  /\ \A r \in Runs \ {run} : M[r] = L[r]
  /\ M[run].open /\ M[run].budget = budget
  /\ L[run].open => /\ M[run].reserved = L[run].reserved
                    /\ M[run].spent = L[run].spent
                    /\ M[run].steps = L[run].steps
                    /\ M[run].parent = L[run].parent
  /\ ~L[run].open => /\ M[run].reserved = 0 /\ M[run].spent = 0
                     /\ M[run].steps = 0 /\ M[run].parent = parent

Reserves(L, M, run, amount) ==
  /\ M \in Ledgers
  /\ \A r \in Runs :
       /\ M[r].open = L[r].open /\ M[r].budget = L[r].budget
       /\ M[r].spent = L[r].spent /\ M[r].parent = L[r].parent
       /\ M[r].reserved = IF r \in Chain(L, run) THEN L[r].reserved + amount
                                                 ELSE L[r].reserved
       /\ M[r].steps = IF r = run THEN L[r].steps + 1 ELSE L[r].steps

Settles(L, M, run, amount, actual) ==
  /\ M \in Ledgers
  /\ \A r \in Runs :
       /\ M[r].open = L[r].open /\ M[r].budget = L[r].budget
       /\ M[r].steps = L[r].steps /\ M[r].parent = L[r].parent
       /\ M[r].reserved = IF r \in Chain(L, run) THEN Monus(L[r].reserved, amount)
                                                 ELSE L[r].reserved
       /\ M[r].spent = IF r \in Chain(L, run) THEN L[r].spent + actual ELSE L[r].spent

(* open_run touches its own entry only, and keeps the counters and the     *)
(* parent of an entry that exists.                                         *)
LEMMA OpenRunEffect ==
  ASSUME NEW L \in Ledgers, NEW run \in Runs, NEW budget \in Int,
         NEW parent \in Runs \cup {NoRun}
  PROVE  Opens(L, OpenRun(L, run, budget, parent), run, budget, parent)
BY DEF Opens, OpenRun, Ledgers, RunState, Closed

(* Writing two counters of a run state leaves its other fields alone.      *)
LEMMA TwoCounters ==
  ASSUME NEW s \in RunState, NEW a \in Nat, NEW b \in Nat
  PROVE  /\ [s EXCEPT !.reserved = a, !.steps = b] =
              [open |-> s.open, budget |-> s.budget, reserved |-> a, spent |-> s.spent,
               steps |-> b, parent |-> s.parent]
         /\ [s EXCEPT !.reserved = a, !.spent = b] =
              [open |-> s.open, budget |-> s.budget, reserved |-> a, spent |-> b,
               steps |-> s.steps, parent |-> s.parent]
<1>1. PICK t : t = [s EXCEPT !.reserved = a]
  OBVIOUS
<1>2. t = [open |-> s.open, budget |-> s.budget, reserved |-> a, spent |-> s.spent,
           steps |-> s.steps, parent |-> s.parent]
  BY <1>1 DEF RunState
<1>3. t \in RunState
  BY <1>2 DEF RunState
<1>4. [t EXCEPT !.steps = b] =
        [open |-> t.open, budget |-> t.budget, reserved |-> t.reserved, spent |-> t.spent,
         steps |-> b, parent |-> t.parent]
  BY <1>3 DEF RunState
<1>5. [t EXCEPT !.spent = b] =
        [open |-> t.open, budget |-> t.budget, reserved |-> t.reserved, spent |-> b,
         steps |-> t.steps, parent |-> t.parent]
  BY <1>3 DEF RunState
<1> QED BY <1>1, <1>2, <1>4, <1>5

(* reserve adds the amount at the chain's levels, and one step at the leaf.*)
LEMMA ReserveEffect ==
  ASSUME NEW L \in Ledgers, NEW run \in Runs, NEW amount \in Nat
  PROVE  Reserves(L, Reserve(L, run, amount), run, amount)
<1> DEFINE res(r) == IF r \in Chain(L, run) THEN L[r].reserved + amount ELSE L[r].reserved
           stp(r) == IF r = run THEN L[r].steps + 1 ELSE L[r].steps
           M == Reserve(L, run, amount)
<1>1. M = [r \in Runs |-> [L[r] EXCEPT !.reserved = res(r), !.steps = stp(r)]]
  BY DEF Reserve
<1>2. \A r \in Runs : L[r] \in RunState /\ res(r) \in Nat /\ stp(r) \in Nat
  BY DEF Ledgers, RunState
<1> HIDE DEF res, stp, M
<1>3. M = [r \in Runs |->
            [open |-> L[r].open, budget |-> L[r].budget, reserved |-> res(r),
             spent |-> L[r].spent, steps |-> stp(r), parent |-> L[r].parent]]
  BY <1>1, <1>2, TwoCounters
<1>4. M \in Ledgers
  BY <1>2, <1>3 DEF Ledgers, RunState
<1> QED BY <1>3, <1>4 DEF Reserves, res, stp, M

(* settle moves money from reserved to spent at the chain's levels.        *)
LEMMA SettleEffect ==
  ASSUME NEW L \in Ledgers, NEW run \in Runs, NEW amount \in Nat, NEW actual \in Nat
  PROVE  Settles(L, Settle(L, run, amount, actual), run, amount, actual)
<1> DEFINE res(r) == Monus(L[r].reserved, amount)
           spt(r) == L[r].spent + actual
           M == Settle(L, run, amount, actual)
<1>1. M = [r \in Runs |-> IF r \in Chain(L, run)
                          THEN [L[r] EXCEPT !.reserved = res(r), !.spent = spt(r)]
                          ELSE L[r]]
  BY DEF Settle
<1>2. \A r \in Runs : L[r] \in RunState /\ res(r) \in Nat /\ spt(r) \in Nat
  BY DEF Ledgers, RunState, Monus
<1> HIDE DEF res, spt, M
<1>3. M = [r \in Runs |->
            IF r \in Chain(L, run)
            THEN [open |-> L[r].open, budget |-> L[r].budget, reserved |-> res(r),
                  spent |-> spt(r), steps |-> L[r].steps, parent |-> L[r].parent]
            ELSE L[r]]
  BY <1>1, <1>2, TwoCounters
<1>4. M \in Ledgers
  BY <1>2, <1>3 DEF Ledgers, RunState
<1> QED BY <1>3, <1>4 DEF Settles, res, spt, M
=============================================================================
