--------------------------- MODULE Gateway_proofs ---------------------------
(***************************************************************************)
(* Proofs about parts of the gateway: the unit ledger (UnitLedger), the    *)
(* Wardryx hook (Wardryx), the taint firewall (Firewall), the MCP broker   *)
(* (McpBroker), the key report (KeysReport), the semantic cache            *)
(* (SemanticCache) and the identity map (Identity).  First the unit        *)
(* ledger, for every set of units, number of calls, amount, cap and        *)
(* override, and any number of months.                                     *)
(***************************************************************************)
EXTENDS GatewayParts, Sequences, Tally, FiniteSetTheorems

(* A call under way is on behalf of a unit.                                *)
Assigned == \A c \in Calls : call[c].phase # "idle" => call[c].unit \in Units

(* What a call reads of the overrides is a cap.                            *)
LEMMA EffectiveCapType ==
  ASSUME NEW f \in [Units -> OverrideCaps \cup {Uncapped}], NEW u \in Units
  PROVE  EffectiveCap(f, u) \in Nat \cup {Uncapped}
BY BaseCapAssumption, OverrideCapsAssumption DEF EffectiveCap

(* The operations keep an entry an entry.                                  *)
LEMMA UnitOpsType ==
  ASSUME NEW s \in UnitState, NEW w \in Nat, NEW v \in Nat, NEW a \in Nat, NEW b \in Nat
  PROVE  /\ Rolled(s, w) \in UnitState
         /\ UnitHold(s, w, a) \in UnitState
         /\ UnitSettle(s, v, w, a, b) \in UnitState
         /\ UnitMonus(a, b) \in Nat
<1>1. Rolled(s, w) \in UnitState
  BY DEF Rolled, UnitState
<1>2. UnitHold(s, w, a) \in UnitState
  BY <1>1 DEF UnitHold, UnitState
<1>3. UnitMonus(a, b) \in Nat /\ UnitMonus(s.reserved, a) \in Nat
  BY DEF UnitMonus, UnitState
<1>4. UnitSettle(s, v, w, a, b) \in UnitState
  <2>1. PICK t : t = [s EXCEPT !.reserved = UnitMonus(s.reserved, a)]
    OBVIOUS
  <2>2. t \in UnitState /\ t.spent = s.spent
    BY <1>3, <2>1 DEF UnitState
  <2>3. [t EXCEPT !.spent = s.spent + b] \in UnitState
    BY <2>2 DEF UnitState
  <2> QED BY <2>1, <2>2, <2>3 DEF UnitSettle
<1> QED BY <1>1, <1>2, <1>3, <1>4

(* Part one, for any interleaving, delayed locks included.                 *)
TypeInv == TypeOK /\ Assigned

(* Part one holds at first.                                                *)
LEMMA TypeInit == Init => TypeInv
<1> SUFFICES ASSUME Init PROVE TypeInv
  OBVIOUS
<1>1. IdleCall \in CallState
  BY DEF IdleCall, CallState, Phases
<1>2. NoEntry \in UnitState
  BY DEF NoEntry, UnitState
<1> QED BY <1>1, <1>2, LastMonthAssumption DEF Init, TypeInv, TypeOK, Assigned, IdleCall

(* Every step keeps it.                                                    *)
LEMMA TypeNext == TypeInv /\ [Next]_vars => TypeInv'
<1> SUFFICES ASSUME TypeInv, [Next]_vars PROVE TypeInv'
  OBVIOUS
<1> USE DEF TypeInv, TypeOK, Assigned
<1>1. CASE NextMonth
  BY <1>1, LastMonthAssumption DEF NextMonth
<1>2. ASSUME NEW f \in [Units -> OverrideCaps \cup {Uncapped}], SetOverrides(f)
      PROVE  TypeInv'
  BY <1>2 DEF SetOverrides
<1>3. ASSUME NEW c \in Calls, NEW u \in Units, NEW e \in Amounts, NEW k \in BOOLEAN,
             BeginReserve(c, u, e, k)
      PROVE  TypeInv'
  <2> DEFINE new == [phase |-> "timed", unit |-> u, checked |-> k, amount |-> e, now |-> month,
                     cap |-> 0, window |-> 0, actual |-> 0, booked |-> FALSE]
  <2>1. e \in Nat /\ month \in Nat
    BY AmountsAssumption, LastMonthAssumption
  <2>2. new \in CallState /\ new.unit = u
    BY <2>1 DEF CallState, Phases
  <2>3. call' = [call EXCEPT ![c] = new] /\ UNCHANGED <<month, unit, overrides, ceiling, overrun>>
    BY <1>3 DEF BeginReserve
  <2> HIDE DEF new
  <2> QED BY <2>2, <2>3
<1>4. ASSUME NEW c \in Calls, ReadCap(c) PROVE TypeInv'
  <2>1. EffectiveCap(overrides, call[c].unit) \in Nat \cup {Uncapped}
    BY <1>4, EffectiveCapType DEF ReadCap
  <2>2. call[c] \in CallState /\ call[c].unit \in Units
    BY <1>4 DEF ReadCap
  <2>3. [call[c] EXCEPT !.phase = "over"] \in CallState
    BY <2>2 DEF CallState, Phases
  <2>4. ASSUME NEW x \in Nat PROVE [call[c] EXCEPT !.phase = "capped", !.cap = x] \in CallState
    BY <2>2 DEF CallState, Phases
  <2>5. PICK k \in CallState : k.unit = call[c].unit /\ call' = [call EXCEPT ![c] = k]
    <3>1. CASE EffectiveCap(overrides, call[c].unit) = Uncapped
      BY <1>4, <2>2, <2>3, <3>1 DEF ReadCap, CallState
    <3>2. CASE EffectiveCap(overrides, call[c].unit) # Uncapped
      BY <1>4, <2>1, <2>2, <2>4, <3>2 DEF ReadCap, CallState
    <3> QED BY <3>1, <3>2
  <2> QED BY <1>4, <2>2, <2>5 DEF ReadCap
<1>5. ASSUME NEW c \in Calls, ReserveTaken(c) PROVE TypeInv'
  <2>1. /\ call[c] \in CallState /\ call[c].unit \in Units
        /\ call[c].now \in Nat /\ call[c].amount \in Nat /\ call[c].cap \in Nat
    BY <1>5 DEF ReserveTaken, CallState
  <2>2. UnitHold(unit[call[c].unit], call[c].now, call[c].amount) \in UnitState
    BY <2>1, UnitOpsType
  <2>3. unit' \in [Units -> UnitState]
    BY <1>5, <2>2 DEF ReserveTaken, Take
  <2>4. call' \in [Calls -> CallState] /\ Assigned'
    BY <1>5, <2>1 DEF ReserveTaken, Take, CallState, Phases
  <2>5. overrun' \in [Units -> Nat] /\ ceiling' \in [Units -> Nat]
    BY <1>5, <2>1 DEF ReserveTaken, Take
  <2> QED BY <1>5, <2>3, <2>4, <2>5 DEF ReserveTaken
<1>6. ASSUME NEW c \in Calls, ReserveExceeded(c) PROVE TypeInv'
  <2>1. call[c] \in CallState /\ call[c].unit \in Units /\ call[c].now \in Nat
    BY <1>6 DEF ReserveExceeded, CallState
  <2>2. Rolled(unit[call[c].unit], call[c].now) \in UnitState
    BY <2>1, UnitOpsType
  <2>3. unit' \in [Units -> UnitState]
    BY <1>6, <2>2 DEF ReserveExceeded
  <2>4. call' \in [Calls -> CallState] /\ Assigned'
    BY <1>6, <2>1 DEF ReserveExceeded, CallState, Phases
  <2>5. overrun' \in [Units -> Nat] /\ ceiling' \in [Units -> Nat]
    BY <1>6, <2>1 DEF ReserveExceeded
  <2> QED BY <1>6, <2>3, <2>4, <2>5 DEF ReserveExceeded
<1>7. ASSUME NEW c \in Calls, NEW a \in Amounts, BeginSettle(c, a) PROVE TypeInv'
  <2>1. a \in Nat /\ month \in Nat
    BY AmountsAssumption, LastMonthAssumption
  <2>2. call[c] \in CallState /\ call[c].unit \in Units
    BY <1>7 DEF BeginSettle
  <2>3. PICK t : t = [call[c] EXCEPT !.phase = "settling"]
    OBVIOUS
  <2>4. t \in CallState /\ t.unit = call[c].unit
    BY <2>2, <2>3 DEF CallState, Phases
  <2>5. PICK v : v = [t EXCEPT !.now = month]
    OBVIOUS
  <2>6. v \in CallState /\ v.unit = call[c].unit
    BY <2>1, <2>4, <2>5 DEF CallState
  <2>7. PICK k : k = [v EXCEPT !.actual = a]
    OBVIOUS
  <2>8. k \in CallState /\ k.unit = call[c].unit
    BY <2>1, <2>6, <2>7 DEF CallState
  <2>9. call' = [call EXCEPT ![c] = k]
    BY <1>7, <2>3, <2>5, <2>7 DEF BeginSettle
  <2>10. call' \in [Calls -> CallState] /\ Assigned'
    BY <2>2, <2>8, <2>9
  <2> QED BY <1>7, <2>10 DEF BeginSettle
<1>8. ASSUME NEW c \in Calls, Settle(c) PROVE TypeInv'
  <2>1. /\ call[c] \in CallState /\ call[c].unit \in Units /\ call[c].now \in Nat
        /\ call[c].window \in Nat /\ call[c].amount \in Nat /\ call[c].actual \in Nat
    BY <1>8 DEF Settle, CallState
  <2>2. /\ UnitSettle(unit[call[c].unit], call[c].window, call[c].now, call[c].amount,
                      call[c].actual) \in UnitState
        /\ UnitMonus(call[c].actual, call[c].amount) \in Nat
    BY <2>1, UnitOpsType
  <2>3. unit' \in [Units -> UnitState]
    BY <1>8, <2>2 DEF Settle
  <2>4. call' \in [Calls -> CallState] /\ Assigned'
    BY <1>8, <2>1 DEF Settle, CallState, Phases
  <2>5. overrun' \in [Units -> Nat]
    BY <1>8, <2>1, <2>2 DEF Settle
  <2> QED BY <1>8, <2>3, <2>4, <2>5 DEF Settle
<1>9. CASE UNCHANGED vars
  BY <1>9 DEF vars
<1> QED BY <1>1, <1>2, <1>3, <1>4, <1>5, <1>6, <1>7, <1>8, <1>9 DEF Next

(* The unit ledger's counters never go negative and its clock, caps and    *)
(* calls stay within their types, wherever midnight falls.                 *)
THEOREM UnitTypeCorrect == Spec => []TypeOK
<1>1. TypeInv => TypeOK
  BY DEF TypeInv
<1> QED BY <1>1, TypeInit, TypeNext, PTL DEF Spec

-----------------------------------------------------------------------------
(* Part two, for operations that end in the month their now_millis() saw.  *)

(* An operation under way has the current month in hand.                   *)
Clocked ==
  \A c \in Calls : call[c].phase \in {"timed", "capped", "settling"} => call[c].now = month

(* No entry is ahead of the clock, no reservation ahead of its entry.      *)
Dated ==
  /\ \A u \in Units : unit[u].window <= month
  /\ \A c \in Calls : call[c].booked => call[c].phase = "over"
  /\ \A c \in Calls : call[c].booked \/ call[c].phase \in {"held", "settling"} =>
       call[c].window <= unit[call[c].unit].window

BooksInv == TypeInv /\ Clocked /\ Dated /\ UnitBooks /\ UnitCapCeiling

Owes(u) == [c \in Calls |-> Owed(c, u)]
Books(u) == [c \in Calls |-> Booked(c, u)]

(* What the calls owe and have booked are tallies of naturals.             *)
LEMMA TalliesTyped ==
  ASSUME TypeInv, NEW u \in Units
  PROVE  /\ Owes(u) \in [1 .. NumCalls -> Nat] /\ Books(u) \in [1 .. NumCalls -> Nat]
         /\ Total(Owes(u), NumCalls) \in Nat /\ Total(Books(u), NumCalls) \in Nat
<1>1. \A c \in Calls : Owed(c, u) \in Nat /\ Booked(c, u) \in Nat
  BY DEF TypeInv, TypeOK, CallState, Owed, Booked
<1>2. Owes(u) \in [1 .. NumCalls -> Nat] /\ Books(u) \in [1 .. NumCalls -> Nat]
  BY <1>1 DEF Owes, Books, Calls
<1> QED BY <1>2, TotalNat, NumCallsAssumption

(* A tally with one summand is that summand.                               *)
LEMMA TotalSingle ==
  ASSUME NEW n \in Nat, NEW k \in 1 .. n, NEW g \in [1 .. n -> Nat],
         \A i \in 1 .. n : i # k => g[i] = 0
  PROVE  Total(g, n) = g[k]
<1> DEFINE z == [i \in 1 .. n |-> 0]
<1>1. z \in [1 .. n -> Nat] /\ z[k] = 0 /\ \A i \in 1 .. n : z[i] = 0
  OBVIOUS
<1> HIDE DEF z
<1>2. Total(z, n) = 0
  BY <1>1, TotalZero
<1>3. Total(g, n) = Total(z, n) + g[k] - z[k]
  BY <1>1, TotalUpdate
<1> QED BY <1>1, <1>2, <1>3

(* The books in terms of the two tallies, before and after a step.         *)
LEMMA BooksAsTallies ==
  /\ UnitBooks <=> \A u \in Units :
       /\ unit[u].window = month => unit[u].reserved = Total(Owes(u), NumCalls)
       /\ unit[u].spent = Total(Books(u), NumCalls)
  /\ UnitBooks' <=> \A u \in Units :
       /\ unit'[u].window = month' => unit'[u].reserved = Total(Owes(u)', NumCalls)
       /\ unit'[u].spent = Total(Books(u)', NumCalls)
BY DEF UnitBooks, UnitReservedIsOutstanding, UnitSpentIsBooked, Owes, Books

(* Part two holds at first.                                                *)
LEMMA BooksInit == Init => BooksInv
<1> SUFFICES ASSUME Init PROVE BooksInv
  OBVIOUS
<1>1. TypeInv
  BY TypeInit
<1>2. Clocked /\ Dated /\ UnitCapCeiling
  BY DEF Init, Clocked, Dated, UnitCapCeiling, IdleCall, NoEntry
<1>3. ASSUME NEW u \in Units
      PROVE  unit[u].window # month /\ unit[u].spent = Total(Books(u), NumCalls)
  <2>1. unit[u].window = 0 /\ unit[u].spent = 0 /\ month = 1
    BY DEF Init, NoEntry
  <2>2. \A c \in 1 .. NumCalls : Books(u)[c] = 0
    BY DEF Init, IdleCall, Books, Booked, Calls
  <2>3. Books(u) \in [1 .. NumCalls -> Nat]
    BY <1>1, TalliesTyped
  <2>4. Total(Books(u), NumCalls) = 0
    BY <2>2, <2>3, TotalZero, NumCallsAssumption
  <2> QED BY <2>1, <2>4
<1>4. UnitBooks
  BY <1>3, BooksAsTallies
<1> QED BY <1>1, <1>2, <1>4 DEF BooksInv

(* A step that leaves the entries, the clock and every summand alone keeps *)
(* the books and the ceiling.                                              *)
LEMMA QuietStep ==
  ASSUME UnitBooks, UnitCapCeiling, UNCHANGED <<month, unit, ceiling, overrun>>,
         \A d \in Calls, v \in Units : Owed(d, v)' = Owed(d, v) /\ Booked(d, v)' = Booked(d, v)
  PROVE  UnitBooks' /\ UnitCapCeiling'
<1>1. \A v \in Units : Owes(v)' = Owes(v) /\ Books(v)' = Books(v)
  BY DEF Owes, Books
<1>2. UnitBooks'
  BY <1>1, BooksAsTallies
<1>3. UnitCapCeiling'
  BY DEF UnitCapCeiling
<1> QED BY <1>2, <1>3

(* A step of call c on the entry of its unit u: what the others owe to and *)
(* have booked on the other entries is as before.                          *)
LEMMA EntryStep ==
  ASSUME UnitBooks, UnitCapCeiling, NEW c \in Calls, NEW u \in Units,
         month' = month, call[c].unit = u, call'[c].unit = u,
         \A d \in Calls : d # c => call'[d] = call[d],
         \A v \in Units : v # u =>
           unit'[v] = unit[v] /\ ceiling'[v] = ceiling[v] /\ overrun'[v] = overrun[v],
         unit'[u].window = month => unit'[u].reserved = Total(Owes(u)', NumCalls),
         unit'[u].spent = Total(Books(u)', NumCalls),
         unit'[u].spent + unit'[u].reserved <= ceiling'[u] + overrun'[u]
  PROVE  UnitBooks' /\ UnitCapCeiling'
<1>1. ASSUME NEW v \in Units, v # u
      PROVE  Owes(v)' = Owes(v) /\ Books(v)' = Books(v)
  <2>1. \A d \in Calls : Owed(d, v)' = Owed(d, v) /\ Booked(d, v)' = Booked(d, v)
    BY <1>1 DEF Owed, Booked
  <2> QED BY <2>1 DEF Owes, Books
<1>2. UnitBooks'
  BY <1>1, BooksAsTallies
<1>3. UnitCapCeiling'
  BY DEF UnitCapCeiling
<1> QED BY <1>2, <1>3

(* Within a window, the tallies move by what call c's share moves.         *)
LEMMA SameWindow ==
  ASSUME TypeInv, TypeInv', NEW c \in Calls, NEW u \in Units,
         \A d \in Calls : d # c => call'[d] = call[d],
         unit'[u].window = unit[u].window
  PROVE  /\ Total(Owes(u)', NumCalls) = Total(Owes(u), NumCalls) + Owed(c, u)' - Owed(c, u)
         /\ Total(Books(u)', NumCalls) = Total(Books(u), NumCalls) + Booked(c, u)' - Booked(c, u)
<1>1. /\ Owes(u) \in [1 .. NumCalls -> Nat] /\ Books(u) \in [1 .. NumCalls -> Nat]
      /\ Owes(u)' \in [1 .. NumCalls -> Nat] /\ Books(u)' \in [1 .. NumCalls -> Nat]
  <2>1. \A d \in Calls : Owed(d, u)' \in Nat /\ Booked(d, u)' \in Nat
    BY DEF TypeInv, TypeOK, CallState, Owed, Booked
  <2> QED BY <2>1, TalliesTyped DEF Owes, Books, Calls
<1>2. \A d \in 1 .. NumCalls : d # c =>
        Owes(u)'[d] = Owes(u)[d] /\ Books(u)'[d] = Books(u)[d]
  BY DEF Owes, Books, Owed, Booked, Calls
<1>3. /\ Owes(u)'[c] = Owed(c, u)' /\ Owes(u)[c] = Owed(c, u)
      /\ Books(u)'[c] = Booked(c, u)' /\ Books(u)[c] = Booked(c, u)
  BY DEF Owes, Books
<1>4. c \in 1 .. NumCalls
  BY DEF Calls
<1>5. Total(Owes(u)', NumCalls) = Total(Owes(u), NumCalls) + Owes(u)'[c] - Owes(u)[c]
  BY <1>1, <1>2, <1>4, TotalUpdate, NumCallsAssumption
<1>6. Total(Books(u)', NumCalls) = Total(Books(u), NumCalls) + Books(u)'[c] - Books(u)[c]
  BY <1>1, <1>2, <1>4, TotalUpdate, NumCallsAssumption
<1> QED BY <1>3, <1>5, <1>6

(* When an entry is rolled, no other call has a share in the new window.   *)
LEMMA NewWindow ==
  ASSUME TypeInv, TypeInv', Dated, NEW c \in Calls, NEW u \in Units,
         \A d \in Calls : d # c => call'[d] = call[d],
         unit[u].window # month, unit'[u].window = month
  PROVE  /\ Total(Owes(u)', NumCalls) = Owed(c, u)'
         /\ Total(Books(u)', NumCalls) = Booked(c, u)'
<1>1. Owes(u)' \in [1 .. NumCalls -> Nat] /\ Books(u)' \in [1 .. NumCalls -> Nat]
  <2>1. \A d \in Calls : Owed(d, u)' \in Nat /\ Booked(d, u)' \in Nat
    BY DEF TypeInv, TypeOK, CallState, Owed, Booked
  <2> QED BY <2>1 DEF Owes, Books, Calls
<1>2. ASSUME NEW d \in Calls, d # c PROVE Owed(d, u)' = 0 /\ Booked(d, u)' = 0
  <2>1. unit[u].window \in Nat /\ month \in Nat /\ call[d].window \in Nat
    BY LastMonthAssumption DEF TypeInv, TypeOK, UnitState, CallState
  <2>2. call[d].unit = u /\ (call[d].booked \/ call[d].phase \in {"held", "settling"})
          => call[d].window < month
    BY <2>1 DEF Dated
  <2> QED BY <1>2, <2>1, <2>2 DEF Owed, Booked
<1>3. \A d \in 1 .. NumCalls : d # c => Owes(u)'[d] = 0 /\ Books(u)'[d] = 0
  BY <1>2 DEF Owes, Books, Calls
<1>4. c \in 1 .. NumCalls /\ Owes(u)'[c] = Owed(c, u)' /\ Books(u)'[c] = Booked(c, u)'
  BY DEF Owes, Books, Calls
<1> QED BY <1>1, <1>3, <1>4, TotalSingle, NumCallsAssumption

(* A reservation that is admitted, in a window that goes on or is new.     *)
LEMMA TakenKeepsBooks ==
  ASSUME BooksInv, TypeInv', NEW c \in Calls, ReserveTaken(c)
  PROVE  Clocked' /\ Dated' /\ UnitBooks' /\ UnitCapCeiling'
<1> USE DEF BooksInv
<1>0. PICK u \in Units : u = call[c].unit
  BY DEF ReserveTaken, TypeInv, Assigned
<1>1. /\ call[c].now = month /\ call[c].phase = "capped" /\ ~call[c].booked
      /\ call[c] \in CallState /\ call[c].amount \in Nat /\ call[c].cap \in Nat
      /\ month \in Nat /\ unit[u] \in UnitState /\ ceiling[u] \in Nat /\ overrun[u] \in Nat
      /\ unit[u].window \in Nat /\ unit[u].reserved \in Nat /\ unit[u].spent \in Nat
  BY <1>0, LastMonthAssumption
     DEF ReserveTaken, TypeInv, TypeOK, Assigned, Clocked, Dated, CallState, UnitState
<1>2. /\ call'[c].phase = "held" /\ call'[c].window = month /\ call'[c].unit = u
      /\ call'[c].amount = call[c].amount /\ ~call'[c].booked
      /\ \A d \in Calls : d # c => call'[d] = call[d]
  BY <1>0, <1>1 DEF ReserveTaken, Take, TypeInv, TypeOK, CallState
<1>3. month' = month /\ unit'[u] = UnitHold(unit[u], month, call[c].amount)
  BY <1>0, <1>1 DEF ReserveTaken, Take, TypeInv, TypeOK
<1>4. \A v \in Units : v # u =>
        unit'[v] = unit[v] /\ ceiling'[v] = ceiling[v] /\ overrun'[v] = overrun[v]
  BY <1>0, <1>1 DEF ReserveTaken, Take, TypeInv, TypeOK
<1>5. /\ overrun'[u] = IF call[c].checked THEN (IF unit[u].window # month THEN 0 ELSE overrun[u])
                       ELSE (IF unit[u].window # month THEN 0 ELSE overrun[u]) + call[c].amount
      /\ ceiling'[u] = IF call[c].checked
                          /\ call[c].cap > (IF unit[u].window # month THEN 0 ELSE ceiling[u])
                       THEN call[c].cap ELSE (IF unit[u].window # month THEN 0 ELSE ceiling[u])
  BY <1>0, <1>1 DEF ReserveTaken, Take, Fresh, TypeInv, TypeOK
<1>6. call[c].checked => UnitFits(unit[u], month, call[c].amount, call[c].cap)
  BY <1>0, <1>1 DEF ReserveTaken
<1>7. unit'[u].window = month
  BY <1>1, <1>3 DEF UnitHold, Rolled, UnitState
<1>8. Clocked'
  BY <1>2, <1>3 DEF Clocked
<1>9. Dated'
  <2>1. \A v \in Units : unit'[v].window <= month
    BY <1>1, <1>4, <1>7 DEF Dated
  <2>2. \A d \in Calls : call'[d].booked => call'[d].phase = "over"
    BY <1>2 DEF Dated
  <2>3. ASSUME NEW d \in Calls, call'[d].booked \/ call'[d].phase \in {"held", "settling"}
        PROVE  call'[d].window <= unit'[call'[d].unit].window
    <3>1. CASE d = c
      BY <1>1, <1>2, <1>7, <3>1
    <3>2. CASE d # c
      <4>1. /\ call'[d] = call[d] /\ call[d].window \in Nat /\ call[d].unit \in Units
            /\ call[d].window <= unit[call[d].unit].window
        BY <1>2, <2>3, <3>2 DEF Dated, TypeInv, TypeOK, Assigned, CallState
      <4> QED BY <1>1, <1>4, <1>7, <4>1 DEF Dated
    <3> QED BY <3>1, <3>2
  <2> QED BY <1>3, <2>1, <2>2, <2>3 DEF Dated
<1>10. Owed(c, u)' = call[c].amount /\ Booked(c, u)' = 0
  BY <1>2, <1>7 DEF Owed, Booked
<1>11. /\ unit'[u].reserved = Total(Owes(u)', NumCalls)
       /\ unit'[u].spent = Total(Books(u)', NumCalls)
       /\ unit'[u].spent + unit'[u].reserved <= ceiling'[u] + overrun'[u]
  <2>1. CASE unit[u].window = month
    <3>1. /\ unit'[u].reserved = unit[u].reserved + call[c].amount
          /\ unit'[u].spent = unit[u].spent
      BY <1>1, <1>3, <2>1 DEF UnitHold, Rolled, UnitState
    <3>2. Owed(c, u) = 0 /\ Booked(c, u) = 0
      BY <1>0, <1>1 DEF Owed, Booked
    <3>3. /\ unit[u].reserved = Total(Owes(u), NumCalls)
          /\ unit[u].spent = Total(Books(u), NumCalls)
      BY <1>1, <2>1, BooksAsTallies
    <3>4. /\ Total(Owes(u)', NumCalls) = Total(Owes(u), NumCalls) + Owed(c, u)' - Owed(c, u)
          /\ Total(Books(u)', NumCalls)
               = Total(Books(u), NumCalls) + Booked(c, u)' - Booked(c, u)
      BY <1>1, <1>2, <1>7, <2>1, SameWindow
    <3>5. unit[u].spent + unit[u].reserved <= ceiling[u] + overrun[u]
      BY <1>0, <1>1 DEF UnitCapCeiling
    <3>6. call[c].checked => unit[u].spent + unit[u].reserved + call[c].amount <= call[c].cap
      BY <1>6, <2>1 DEF UnitFits, Rolled
    <3>7. unit'[u].spent + unit'[u].reserved <= ceiling'[u] + overrun'[u]
      BY <1>1, <1>5, <2>1, <3>1, <3>5, <3>6
    <3> QED BY <1>1, <1>10, <3>1, <3>2, <3>3, <3>4, <3>7
  <2>2. CASE unit[u].window # month
    <3>1. unit'[u].reserved = call[c].amount /\ unit'[u].spent = 0
      BY <1>1, <1>3, <2>2 DEF UnitHold, Rolled
    <3>2. /\ Total(Owes(u)', NumCalls) = Owed(c, u)'
          /\ Total(Books(u)', NumCalls) = Booked(c, u)'
      BY <1>1, <1>2, <1>7, <2>2, NewWindow
    <3>3. call[c].checked => call[c].amount <= call[c].cap
      BY <1>1, <1>6, <2>2 DEF UnitFits, Rolled
    <3> QED BY <1>1, <1>5, <1>10, <2>2, <3>1, <3>2, <3>3
  <2> QED BY <2>1, <2>2
<1> QED BY <1>0, <1>2, <1>3, <1>4, <1>8, <1>9, <1>11, EntryStep

(* A refusal rolls the entry and leaves no share behind.                   *)
LEMMA ExceededKeepsBooks ==
  ASSUME BooksInv, TypeInv', NEW c \in Calls, ReserveExceeded(c)
  PROVE  Clocked' /\ Dated' /\ UnitBooks' /\ UnitCapCeiling'
<1> USE DEF BooksInv
<1>0. PICK u \in Units : u = call[c].unit
  BY DEF ReserveExceeded, TypeInv, Assigned
<1>1. /\ call[c].now = month /\ call[c].phase = "capped" /\ ~call[c].booked
      /\ call[c] \in CallState
      /\ month \in Nat /\ unit[u] \in UnitState /\ ceiling[u] \in Nat /\ overrun[u] \in Nat
      /\ unit[u].window \in Nat /\ unit[u].reserved \in Nat /\ unit[u].spent \in Nat
  BY <1>0, LastMonthAssumption
     DEF ReserveExceeded, TypeInv, TypeOK, Assigned, Clocked, Dated, CallState, UnitState
<1>2. /\ call'[c].phase = "over" /\ call'[c].unit = u /\ ~call'[c].booked
      /\ \A d \in Calls : d # c => call'[d] = call[d]
  BY <1>0, <1>1 DEF ReserveExceeded, TypeInv, TypeOK, CallState
<1>3. /\ month' = month /\ unit'[u] = Rolled(unit[u], month)
      /\ \A v \in Units : v # u =>
           unit'[v] = unit[v] /\ ceiling'[v] = ceiling[v] /\ overrun'[v] = overrun[v]
  BY <1>0, <1>1 DEF ReserveExceeded, TypeInv, TypeOK
<1>4. unit'[u].window = month
  BY <1>1, <1>3 DEF Rolled
<1>5. Clocked'
  BY <1>2, <1>3 DEF Clocked
<1>6. Dated'
  <2>1. \A v \in Units : unit'[v].window <= month
    BY <1>1, <1>3, <1>4 DEF Dated
  <2>2. ASSUME NEW d \in Calls, call'[d].booked \/ call'[d].phase \in {"held", "settling"}
        PROVE  /\ call'[d].window <= unit'[call'[d].unit].window
               /\ call'[d].booked => call'[d].phase = "over"
    <3>1. d # c
      BY <1>2, <2>2
    <3>2. /\ call'[d] = call[d] /\ call[d].window \in Nat /\ call[d].unit \in Units
          /\ call[d].window <= unit[call[d].unit].window
          /\ call[d].booked => call[d].phase = "over"
      BY <1>2, <2>2, <3>1 DEF Dated, TypeInv, TypeOK, Assigned, CallState
    <3> QED BY <1>1, <1>3, <1>4, <3>2 DEF Dated
  <2> QED BY <1>3, <2>1, <2>2 DEF Dated
<1>7. /\ Owed(c, u)' = 0 /\ Booked(c, u)' = 0 /\ Owed(c, u) = 0 /\ Booked(c, u) = 0
  BY <1>1, <1>2 DEF Owed, Booked
<1>8. /\ unit'[u].reserved = Total(Owes(u)', NumCalls)
      /\ unit'[u].spent = Total(Books(u)', NumCalls)
      /\ unit'[u].spent + unit'[u].reserved <= ceiling'[u] + overrun'[u]
  <2>1. CASE unit[u].window = month
    <3>1. unit'[u] = unit[u] /\ ceiling'[u] = ceiling[u] /\ overrun'[u] = overrun[u]
      BY <1>0, <1>1, <1>3, <2>1 DEF Rolled, ReserveExceeded, Fresh, TypeInv, TypeOK
    <3>2. /\ Total(Owes(u)', NumCalls) = Total(Owes(u), NumCalls) + Owed(c, u)' - Owed(c, u)
          /\ Total(Books(u)', NumCalls)
               = Total(Books(u), NumCalls) + Booked(c, u)' - Booked(c, u)
      BY <1>2, <1>4, <2>1, SameWindow
    <3>3. /\ unit[u].reserved = Total(Owes(u), NumCalls)
          /\ unit[u].spent = Total(Books(u), NumCalls)
      BY <2>1, BooksAsTallies
    <3>4. unit[u].spent + unit[u].reserved <= ceiling[u] + overrun[u]
      BY DEF UnitCapCeiling
    <3> QED BY <1>1, <1>7, <3>1, <3>2, <3>3, <3>4
  <2>2. CASE unit[u].window # month
    <3>1. unit'[u].reserved = 0 /\ unit'[u].spent = 0 /\ ceiling'[u] = 0 /\ overrun'[u] = 0
      BY <1>0, <1>1, <1>3, <2>2 DEF Rolled, ReserveExceeded, Fresh, TypeInv, TypeOK
    <3>2. /\ Total(Owes(u)', NumCalls) = Owed(c, u)'
          /\ Total(Books(u)', NumCalls) = Booked(c, u)'
      BY <1>2, <1>4, <2>2, NewWindow
    <3> QED BY <1>7, <3>1, <3>2
  <2> QED BY <2>1, <2>2
<1> QED BY <1>0, <1>2, <1>3, <1>5, <1>6, <1>8, EntryStep

(* A settle takes back exactly the call's own share, so the clamp at zero  *)
(* never acts; one for another month changes nothing.                      *)
LEMMA SettleKeepsBooks ==
  ASSUME BooksInv, TypeInv', NEW c \in Calls, Settle(c)
  PROVE  Clocked' /\ Dated' /\ UnitBooks' /\ UnitCapCeiling'
<1> USE DEF BooksInv
<1>0. PICK u \in Units : u = call[c].unit
  BY DEF Settle, TypeInv, Assigned
<1>1. /\ call[c].now = month /\ call[c].phase = "settling" /\ ~call[c].booked
      /\ call[c] \in CallState /\ call[c].window <= unit[u].window
      /\ call[c].window \in Nat /\ call[c].amount \in Nat /\ call[c].actual \in Nat
      /\ month \in Nat /\ unit[u] \in UnitState /\ ceiling[u] \in Nat /\ overrun[u] \in Nat
      /\ unit[u].window \in Nat /\ unit[u].reserved \in Nat /\ unit[u].spent \in Nat
      /\ unit[u].window <= month
  BY <1>0, LastMonthAssumption
     DEF Settle, TypeInv, TypeOK, Assigned, Clocked, Dated, CallState, UnitState
<1>2. PICK lands \in BOOLEAN : lands <=> call[c].window = month /\ unit[u].window = month
  OBVIOUS
<1>3. /\ call'[c].phase = "over" /\ call'[c].unit = u /\ call'[c].window = call[c].window
      /\ call'[c].actual = call[c].actual /\ (call'[c].booked <=> lands)
      /\ \A d \in Calls : d # c => call'[d] = call[d]
  BY <1>0, <1>1, <1>2 DEF Settle, TypeInv, TypeOK, CallState
<1>4. /\ month' = month /\ ceiling' = ceiling
      /\ unit'[u] = UnitSettle(unit[u], call[c].window, month, call[c].amount, call[c].actual)
      /\ \A v \in Units : v # u => unit'[v] = unit[v] /\ overrun'[v] = overrun[v]
  BY <1>0, <1>1 DEF Settle, TypeInv, TypeOK
<1>5. overrun'[u] = IF lands THEN overrun[u] + UnitMonus(call[c].actual, call[c].amount)
                    ELSE overrun[u]
  BY <1>0, <1>1, <1>2 DEF Settle, TypeInv, TypeOK
<1>6. /\ lands => /\ unit'[u].window = month
                  /\ unit'[u].reserved = UnitMonus(unit[u].reserved, call[c].amount)
                  /\ unit'[u].spent = unit[u].spent + call[c].actual
      /\ ~lands => unit'[u] = unit[u]
  BY <1>1, <1>2, <1>4 DEF UnitSettle, UnitState
<1>7. unit'[u].window = unit[u].window
  BY <1>2, <1>6
<1>8. Clocked'
  BY <1>3, <1>4 DEF Clocked
<1>9. Dated'
  <2>1. \A v \in Units : unit'[v].window = unit[v].window
    BY <1>4, <1>7
  <2>2. \A d \in Calls : call'[d].booked => call'[d].phase = "over"
    BY <1>3 DEF Dated
  <2>3. ASSUME NEW d \in Calls, call'[d].booked \/ call'[d].phase \in {"held", "settling"}
        PROVE  call'[d].window <= unit'[call'[d].unit].window
    <3>1. CASE d = c
      BY <1>1, <1>3, <2>1, <3>1
    <3>2. CASE d # c
      BY <1>3, <2>1, <2>3, <3>2 DEF Dated, TypeInv, Assigned
    <3> QED BY <3>1, <3>2
  <2> QED BY <1>4, <2>1, <2>2, <2>3 DEF Dated
<1>10. /\ Total(Owes(u)', NumCalls) = Total(Owes(u), NumCalls) + Owed(c, u)' - Owed(c, u)
       /\ Total(Books(u)', NumCalls) = Total(Books(u), NumCalls) + Booked(c, u)' - Booked(c, u)
  BY <1>3, <1>7, SameWindow
<1>11. /\ unit[u].window = month => unit[u].reserved = Total(Owes(u), NumCalls)
       /\ unit[u].spent = Total(Books(u), NumCalls)
  BY BooksAsTallies
<1>12. unit[u].spent + unit[u].reserved <= ceiling[u] + overrun[u]
  BY DEF UnitCapCeiling
<1>13. Owed(c, u)' = 0 /\ Booked(c, u) = 0 /\ Total(Owes(u), NumCalls) \in Nat
  BY <1>1, <1>3, TalliesTyped DEF Owed, Booked
<1>14. /\ unit'[u].window = month => unit'[u].reserved = Total(Owes(u)', NumCalls)
       /\ unit'[u].spent = Total(Books(u)', NumCalls)
       /\ unit'[u].spent + unit'[u].reserved <= ceiling'[u] + overrun'[u]
  <2>1. CASE lands
    <3>1. Owed(c, u) = call[c].amount /\ Booked(c, u)' = call[c].actual
      BY <1>0, <1>1, <1>2, <1>3, <1>7, <2>1 DEF Owed, Booked
    <3>2. call[c].amount <= unit[u].reserved
      <4>1. Owes(u) \in [1 .. NumCalls -> Nat] /\ c \in 1 .. NumCalls
            /\ Owes(u)[c] = Owed(c, u)
        BY TalliesTyped DEF Owes, Calls
      <4>2. Owes(u)[c] <= Total(Owes(u), NumCalls)
        BY <4>1, TotalAtLeast, NumCallsAssumption
      <4> QED BY <1>2, <1>11, <2>1, <3>1, <4>1, <4>2
    <3>3. unit'[u].reserved = unit[u].reserved - call[c].amount
      BY <1>1, <1>6, <2>1, <3>2 DEF UnitMonus
    <3>4. unit'[u].spent + unit'[u].reserved <= ceiling'[u] + overrun'[u]
      BY <1>1, <1>4, <1>5, <1>6, <1>12, <2>1, <3>3 DEF UnitMonus
    <3> QED BY <1>1, <1>2, <1>6, <1>10, <1>11, <1>13, <2>1, <3>1, <3>3, <3>4
  <2>2. CASE ~lands
    <3>1. Booked(c, u)' = 0 /\ (unit[u].window = month => Owed(c, u) = 0)
      BY <1>2, <1>3, <2>2 DEF Owed, Booked
    <3> QED BY <1>1, <1>4, <1>5, <1>6, <1>10, <1>11, <1>12, <1>13, <2>2, <3>1
  <2> QED BY <2>1, <2>2
<1> QED BY <1>0, <1>3, <1>4, <1>8, <1>9, <1>14, EntryStep

(* Any other step of call c, from a phase without a share or into one with *)
(* the same share.                                                         *)
LEMMA MoveKeepsBooks ==
  ASSUME BooksInv, NEW c \in Calls, UNCHANGED <<month, unit, ceiling, overrun>>,
         \A d \in Calls : d # c => call'[d] = call[d],
         call'[c].phase \in {"timed", "capped", "settling"} => call'[c].now = month,
         ~call'[c].booked, ~call[c].booked,
         \/ /\ call[c].phase \in {"idle", "timed"} /\ call'[c].phase \in {"timed", "capped", "over"}
         \/ /\ call[c].phase = "held" /\ call'[c].phase = "settling"
            /\ call'[c].unit = call[c].unit /\ call'[c].window = call[c].window
            /\ call'[c].amount = call[c].amount
  PROVE  Clocked' /\ Dated' /\ UnitBooks' /\ UnitCapCeiling'
<1> USE DEF BooksInv
<1>1. Clocked'
  BY DEF Clocked
<1>2. Dated'
  <2>1. ASSUME NEW d \in Calls
        PROVE  /\ call'[d].booked => call'[d].phase = "over"
               /\ call'[d].booked \/ call'[d].phase \in {"held", "settling"} =>
                    call'[d].window <= unit[call'[d].unit].window
    <3>1. CASE d = c
      BY <3>1 DEF Dated
    <3>2. CASE d # c
      BY <3>2 DEF Dated
    <3> QED BY <3>1, <3>2
  <2> QED BY <2>1 DEF Dated
<1>3. ASSUME NEW d \in Calls, NEW v \in Units
      PROVE  Owed(d, v)' = Owed(d, v) /\ Booked(d, v)' = Booked(d, v)
  <2>1. CASE d = c
    BY <2>1 DEF Owed, Booked
  <2>2. CASE d # c
    BY <2>2 DEF Owed, Booked
  <2> QED BY <2>1, <2>2
<1> QED BY <1>1, <1>2, <1>3, QuietStep

(* Every step keeps it, when locks are taken in the month they are asked   *)
(* for.                                                                    *)
LEMMA BooksNext == ~DelayedLocks /\ BooksInv /\ [Next]_vars => BooksInv'
<1> SUFFICES ASSUME ~DelayedLocks, BooksInv, [Next]_vars PROVE BooksInv'
  OBVIOUS
<1> USE DEF BooksInv
<1>0. TypeInv'
  BY TypeNext
<1> SUFFICES Clocked' /\ Dated' /\ UnitBooks' /\ UnitCapCeiling'
  BY <1>0
<1>1. CASE NextMonth
  <2>1. /\ month' = month + 1 /\ month \in Nat /\ UNCHANGED <<unit, call, ceiling, overrun>>
        /\ \A c \in Calls : call[c].phase \notin {"timed", "capped", "settling"}
        /\ \A u \in Units : unit[u].window \in Nat /\ unit[u].window <= month
    BY <1>1, LastMonthAssumption DEF NextMonth, TypeInv, TypeOK, UnitState, Dated
  <2>2. Clocked'
    BY <2>1 DEF Clocked
  <2>3. Dated'
    BY <2>1 DEF Dated
  <2>4. \A u \in Units : unit'[u].window # month' /\ Books(u)' = Books(u)
    BY <2>1 DEF Books, Booked
  <2>5. UnitBooks'
    BY <2>1, <2>4, BooksAsTallies
  <2>6. UnitCapCeiling'
    BY <2>1 DEF UnitCapCeiling
  <2> QED BY <2>2, <2>3, <2>5, <2>6
<1>2. ASSUME UNCHANGED <<month, unit, call, ceiling, overrun>>
      PROVE  Clocked' /\ Dated' /\ UnitBooks' /\ UnitCapCeiling'
  <2>1. Clocked' /\ Dated'
    BY <1>2 DEF Clocked, Dated
  <2>2. \A d \in Calls, v \in Units : Owed(d, v)' = Owed(d, v) /\ Booked(d, v)' = Booked(d, v)
    BY <1>2 DEF Owed, Booked
  <2> QED BY <1>2, <2>1, <2>2, QuietStep
<1>3. ASSUME NEW f \in [Units -> OverrideCaps \cup {Uncapped}], SetOverrides(f)
      PROVE  Clocked' /\ Dated' /\ UnitBooks' /\ UnitCapCeiling'
  BY <1>2, <1>3 DEF SetOverrides
<1>4. ASSUME NEW c \in Calls, NEW u \in Units, NEW e \in Amounts, NEW k \in BOOLEAN,
             BeginReserve(c, u, e, k)
      PROVE  Clocked' /\ Dated' /\ UnitBooks' /\ UnitCapCeiling'
  <2>1. /\ call[c].phase = "idle" /\ ~call[c].booked
        /\ call'[c].phase = "timed" /\ call'[c].now = month /\ ~call'[c].booked
        /\ \A d \in Calls : d # c => call'[d] = call[d]
        /\ UNCHANGED <<month, unit, ceiling, overrun>>
    BY <1>4 DEF BeginReserve, Dated, TypeInv, TypeOK
  <2> QED BY <2>1, MoveKeepsBooks
<1>5. ASSUME NEW c \in Calls, ReadCap(c)
      PROVE  Clocked' /\ Dated' /\ UnitBooks' /\ UnitCapCeiling'
  <2>1. /\ call[c].phase = "timed" /\ ~call[c].booked /\ call[c].now = month
        /\ call[c] \in CallState /\ UNCHANGED <<month, unit, ceiling, overrun>>
    BY <1>5 DEF ReadCap, Dated, Clocked, TypeInv, TypeOK
  <2>2. /\ call'[c].phase \in {"capped", "over"} /\ call'[c].now = month /\ ~call'[c].booked
        /\ \A d \in Calls : d # c => call'[d] = call[d]
    BY <1>5, <2>1 DEF ReadCap, TypeInv, TypeOK, CallState
  <2> QED BY <2>1, <2>2, MoveKeepsBooks
<1>6. ASSUME NEW c \in Calls, NEW a \in Amounts, BeginSettle(c, a)
      PROVE  Clocked' /\ Dated' /\ UnitBooks' /\ UnitCapCeiling'
  <2>1. /\ call[c].phase = "held" /\ ~call[c].booked
        /\ call[c] \in CallState /\ UNCHANGED <<month, unit, ceiling, overrun>>
    BY <1>6 DEF BeginSettle, Dated, TypeInv, TypeOK
  <2>2. PICK t : t = [call[c] EXCEPT !.phase = "settling"]
    OBVIOUS
  <2>3. /\ t \in [phase : {"settling"}, unit : Units \cup {Uncapped}, checked : BOOLEAN,
                  amount : Nat, now : Nat, cap : Nat, window : Nat, actual : Nat, booked : BOOLEAN]
        /\ t.unit = call[c].unit /\ t.window = call[c].window
        /\ t.amount = call[c].amount /\ t.booked = call[c].booked
    BY <2>1, <2>2 DEF CallState
  <2>4. call'[c] = [t EXCEPT !.now = month, !.actual = a]
        /\ \A d \in Calls : d # c => call'[d] = call[d]
    BY <1>6, <2>2 DEF BeginSettle, TypeInv, TypeOK
  <2>5. /\ call'[c].phase = "settling" /\ call'[c].now = month /\ call'[c].unit = call[c].unit
        /\ call'[c].window = call[c].window /\ call'[c].amount = call[c].amount
        /\ ~call'[c].booked
    BY <2>1, <2>3, <2>4
  <2> QED BY <2>1, <2>4, <2>5, MoveKeepsBooks
<1>7. CASE UNCHANGED vars
  BY <1>2, <1>7 DEF vars
<1> QED BY <1>0, <1>1, <1>3, <1>4, <1>5, <1>6, <1>7, TakenKeepsBooks, ExceededKeepsBooks,
           SettleKeepsBooks DEF Next

(* Both parts are invariants then.                                         *)
LEMMA BooksAlways == ~DelayedLocks => (Spec => []BooksInv)
<1> SUFFICES ASSUME ~DelayedLocks PROVE Spec => []BooksInv
  OBVIOUS
<1>1. BooksInv /\ [Next]_vars => BooksInv'
  BY BooksNext
<1> QED BY <1>1, BooksInit, PTL DEF Spec

(* Whatever calls, caps, overrides and months come in whatever order, what *)
(* a unit has reserved this month is what its open calls reserved, and     *)
(* what it has spent is the cost of the calls reserved and settled in the  *)
(* entry's month, as long as midnight does not fall between now_millis()   *)
(* and the state's lock.                                                   *)
THEOREM UnitBooksKept == ~DelayedLocks => (Spec => []UnitBooks)
<1> SUFFICES ASSUME ~DelayedLocks PROVE Spec => []UnitBooks
  OBVIOUS
<1>1. BooksInv => UnitBooks
  BY DEF BooksInv
<1>2. Spec => []BooksInv
  BY BooksAlways
<1> QED BY <1>1, <1>2, PTL

(* Under the same condition a unit's month never holds more than the       *)
(* highest cap its reservations were checked against, plus what was        *)
(* admitted without a check.                                               *)
THEOREM UnitCapHolds == ~DelayedLocks => (Spec => []UnitCapCeiling)
<1> SUFFICES ASSUME ~DelayedLocks PROVE Spec => []UnitCapCeiling
  OBVIOUS
<1>1. BooksInv => UnitCapCeiling
  BY DEF BooksInv
<1>2. Spec => []BooksInv
  BY BooksAlways
<1> QED BY <1>1, <1>2, PTL

(* Under the same condition an entry's window never moves back to a month  *)
(* that is over; with a delayed lock it does, which unit_ledger_delayed    *)
(* shows.                                                                  *)
THEOREM UnitWindowForward == ~DelayedLocks => (Spec => WindowOnlyForward)
<1> SUFFICES ASSUME ~DelayedLocks PROVE Spec => WindowOnlyForward
  OBVIOUS
<1>1. ASSUME BooksInv, [Next]_vars
      PROVE  [\A u \in Units : unit'[u].window >= unit[u].window]_vars
  <2> SUFFICES ASSUME NEW u \in Units PROVE unit'[u].window >= unit[u].window
    OBVIOUS
  <2>1. unit[u] \in UnitState /\ unit[u].window \in Nat /\ month \in Nat /\ unit[u].window <= month
    BY <1>1, LastMonthAssumption DEF BooksInv, TypeInv, TypeOK, UnitState, Dated
  <2>2. CASE unit'[u] = unit[u]
    BY <2>1, <2>2
  <2>3. ASSUME NEW c \in Calls, ReserveTaken(c) PROVE unit'[u].window >= unit[u].window
    <3>1. call[c].now = month /\ call[c].amount \in Nat
      BY <1>1, <2>3 DEF ReserveTaken, BooksInv, Clocked, TypeInv, TypeOK, CallState
    <3>2. unit'[u] = UnitHold(unit[u], month, call[c].amount) \/ unit'[u] = unit[u]
      BY <1>1, <2>3, <3>1 DEF ReserveTaken, Take, BooksInv, TypeInv, TypeOK
    <3> QED BY <2>1, <3>1, <3>2 DEF UnitHold, Rolled, UnitState
  <2>4. ASSUME NEW c \in Calls, ReserveExceeded(c) PROVE unit'[u].window >= unit[u].window
    <3>1. call[c].now = month
      BY <1>1, <2>4 DEF ReserveExceeded, BooksInv, Clocked
    <3>2. unit'[u] = Rolled(unit[u], month) \/ unit'[u] = unit[u]
      BY <1>1, <2>4, <3>1 DEF ReserveExceeded, BooksInv, TypeInv, TypeOK
    <3> QED BY <2>1, <3>2 DEF Rolled
  <2>5. ASSUME NEW c \in Calls, Settle(c) PROVE unit'[u].window >= unit[u].window
    <3>1. \/ unit'[u] = unit[u]
          \/ unit'[u] = UnitSettle(unit[u], call[c].window, call[c].now, call[c].amount,
                                   call[c].actual)
      BY <1>1, <2>5 DEF Settle, BooksInv, TypeInv, TypeOK
    <3>2. PICK x, y : \/ unit'[u] = unit[u]
                      \/ unit'[u] = [unit[u] EXCEPT !.reserved = x, !.spent = y]
      BY <3>1, Zenon DEF UnitSettle
    <3>3. [unit[u] EXCEPT !.reserved = x, !.spent = y].window = unit[u].window
      BY <2>1 DEF UnitState
    <3>4. unit'[u].window = unit[u].window
      BY <3>2, <3>3, Zenon
    <3> QED BY <2>1, <3>4
  <2>6. CASE UNCHANGED unit
    BY <2>2, <2>6
  <2> QED BY <1>1, <2>3, <2>4, <2>5, <2>6
          DEF Next, vars, NextMonth, SetOverrides, BeginReserve, ReadCap, BeginSettle
<1>2. Spec => []BooksInv
  BY BooksAlways
<1> QED BY <1>1, <1>2, PTL DEF Spec, WindowOnlyForward

-----------------------------------------------------------------------------
(***************************************************************************)
(* The decision cache in front of the policy service (Wardryx), with any   *)
(* number of overlapping calls, policies and changes of policy, any clock, *)
(* lifetime and timeout.                                                   *)
(***************************************************************************)
(* The policies of a past moment are fixed; the one in force is of this.   *)
HookTyped ==
  /\ now \in Nat \ {0} /\ holds \in Nat
  /\ DOMAIN history = 1 .. now /\ policy \in history[now]
  /\ DOMAIN asking = Callers /\ DOMAIN served = Callers

(* A call under way was asked no longer ago than its timeout.              *)
Waits(c) == asking[c].state = "asked" \/ asking[c].state = "answered"

AskedInTime ==
  \A c \in Callers : Waits(c) =>
    /\ asking[c].q \in Requests
    /\ asking[c].asked \in 1 .. now /\ now <= asking[c].asked + Timeout

(* An answer on its way is that of a policy in force since the call was    *)
(* made.                                                                   *)
AnsweredSince ==
  \A c \in Callers : asking[c].state = "answered" =>
    \E t \in 1 .. now : /\ asking[c].asked <= t
                        /\ \E p \in history[t] : /\ Hook!Evaluate(p, asking[c].q) = asking[c].decision
                                                 /\ Hook!Cacheable(p) = asking[c].cacheable

(* A cached decision is what one policy, in force no longer than an answer *)
(* takes before it was stored, gives every request with this key.          *)
CachedForKey ==
  \A k \in DOMAIN cache :
    /\ cache[k].at \in 1 .. now /\ cache[k].decision # "hold"
    /\ \E t \in 1 .. now : /\ t <= cache[k].at /\ cache[k].at <= t + Timeout
                           /\ \E p \in history[t] : \A q \in Requests :
                                Hook!Key(q) = k => Hook!Evaluate(p, q) = cache[k].decision

HookInv == HookTyped /\ AskedInTime /\ AnsweredSince /\ CachedForKey /\ Hook!VerdictsCurrent

(* What may be cached does not depend on what the key leaves out.          *)
LEMMA KeySuffices ==
  ASSUME NEW p, NEW q, NEW r, Hook!Cacheable(p), Hook!Key(q) = Hook!Key(r)
  PROVE  Hook!Evaluate(p, q) = Hook!Evaluate(p, r)
<1>1. q.tools = r.tools /\ q.attested = r.attested
  BY DEF Hook!Key
<1> QED BY <1>1 DEF Hook!Cacheable, Hook!Evaluate

(* As time passes and policies change, what was current stays so.          *)
HistoryKept ==
  /\ now \in Nat /\ now' \in Nat /\ now <= now'
  /\ DOMAIN history = 1 .. now /\ DOMAIN history' = 1 .. now'
  /\ \A t \in 1 .. now : history[t] \subseteq history'[t]

Within(h, s, age) ==
  \E t \in DOMAIN h : /\ t <= s.at /\ s.at <= t + age
                      /\ \E p \in h[t] : Hook!Evaluate(p, s.q) = s.decision

VerdictsWithin(h, f) ==
  \A c \in Callers : /\ f[c].from = "service" => Within(h, f[c], Timeout)
                     /\ f[c].from = "cache" => Ttl # 0 /\ Within(h, f[c], Ttl - 1 + Timeout)

LEMMA VerdictsAre == /\ Hook!VerdictsCurrent <=> VerdictsWithin(history, served)
                     /\ Hook!VerdictsCurrent' <=> VerdictsWithin(history', served')
BY DEF Hook!VerdictsCurrent, Hook!Current, VerdictsWithin, Within, Hook!Evaluate

LEMMA CurrentKept ==
  ASSUME HistoryKept, NEW s, NEW age, Within(history, s, age)
  PROVE  Within(history', s, age)
BY DEF HistoryKept, Within

LEMMA CachedKept ==
  ASSUME HistoryKept, CachedForKey, UNCHANGED cache
  PROVE  CachedForKey'
<1> SUFFICES ASSUME NEW k \in DOMAIN cache
             PROVE  /\ cache[k].at \in 1 .. now' /\ cache[k].decision # "hold"
                    /\ \E t \in 1 .. now' : /\ t <= cache[k].at /\ cache[k].at <= t + Timeout
                                            /\ \E p \in history'[t] : \A q \in Requests :
                                                 Hook!Key(q) = k => Hook!Evaluate(p, q) = cache[k].decision
  BY DEF CachedForKey, Hook!Key, Hook!Evaluate
<1>1. \A t \in 1 .. now : t \in 1 .. now' /\ history[t] \subseteq history'[t]
  BY DEF HistoryKept
<1>2. cache[k].at \in 1 .. now /\ cache[k].decision # "hold"
  BY DEF CachedForKey
<1>3. PICK t \in 1 .. now : /\ t <= cache[k].at /\ cache[k].at <= t + Timeout
                            /\ \E p \in history[t] : \A q \in Requests :
                                 Hook!Key(q) = k => Hook!Evaluate(p, q) = cache[k].decision
  BY DEF CachedForKey
<1> QED BY <1>1, <1>2, <1>3

LEMMA AnsweredKept ==
  ASSUME HistoryKept, AnsweredSince,
         \A c \in Callers : asking'[c].state = "answered" => asking'[c] = asking[c]
  PROVE  AnsweredSince'
<1> SUFFICES ASSUME NEW c \in Callers, asking'[c].state = "answered"
             PROVE  \E t \in 1 .. now' : /\ asking[c].asked <= t
                                         /\ \E p \in history'[t] : /\ Hook!Evaluate(p, asking[c].q) = asking[c].decision
                                                                   /\ Hook!Cacheable(p) = asking[c].cacheable
  BY DEF AnsweredSince, Hook!Evaluate, Hook!Cacheable
<1>1. PICK t \in 1 .. now : /\ asking[c].asked <= t
                            /\ \E p \in history[t] : /\ Hook!Evaluate(p, asking[c].q) = asking[c].decision
                                                     /\ Hook!Cacheable(p) = asking[c].cacheable
  BY DEF AnsweredSince
<1>2. t \in 1 .. now' /\ history[t] \subseteq history'[t]
  BY DEF HistoryKept
<1> QED BY <1>1, <1>2

LEMMA VerdictsKept ==
  ASSUME HistoryKept, Hook!VerdictsCurrent, UNCHANGED served
  PROVE  Hook!VerdictsCurrent'
BY CurrentKept, VerdictsAre DEF VerdictsWithin

LEMMA HookInvInit ==
  ASSUME Hook!WardryxConstants, Hook!Init
  PROVE  HookInv
<1>1. HookTyped
  BY DEF Hook!Init, HookTyped
<1>2. AskedInTime /\ AnsweredSince
  BY DEF Hook!Init, Hook!NoCall, AskedInTime, AnsweredSince, Waits
<1>3. CachedForKey /\ Hook!VerdictsCurrent
  BY DEF Hook!Init, Hook!Nothing, CachedForKey, Hook!VerdictsCurrent
<1> QED BY <1>1, <1>2, <1>3 DEF HookInv

(* One caller is served, now, with a verdict that is current.              *)
LEMMA ServeKeeps ==
  ASSUME HookTyped, HistoryKept, Hook!VerdictsCurrent, NEW c \in Callers, NEW q, NEW decision, NEW approval, NEW from,
         Hook!Serve(c, q, decision, approval, from),
         NEW age, age = (IF from = "service" THEN Timeout ELSE Ttl - 1 + Timeout),
         from = "cache" => Ttl # 0,
         from \in {"service", "cache"} =>
           \E t \in 1 .. now : /\ t <= now /\ now <= t + age
                               /\ \E p \in history[t] : Hook!Evaluate(p, q) = decision
  PROVE  Hook!VerdictsCurrent'
<1> DEFINE s == [q |-> q, decision |-> decision, approval |-> approval, from |-> from, at |-> now]
<1>1. /\ DOMAIN served = Callers /\ served' = [served EXCEPT ![c] = s]
  BY DEF HookTyped, Hook!Serve
<1>2. s.from = from /\ s.at = now /\ s.q = q /\ s.decision = decision
  OBVIOUS
<1> HIDE DEF s
<1>3. served'[c] = s /\ \A d \in Callers : d # c => served'[d] = served[d]
  BY <1>1
<1>4. from \in {"service", "cache"} => Within(history, s, age)
  BY <1>2 DEF HistoryKept, Within
<1>5. from \in {"service", "cache"} => Within(history', s, age)
  BY <1>4, CurrentKept
<1>6. \A d \in Callers : d # c => /\ served[d].from = "service" => Within(history', served[d], Timeout)
                                  /\ served[d].from = "cache" => Ttl # 0 /\ Within(history', served[d], Ttl - 1 + Timeout)
  BY CurrentKept, VerdictsAre DEF VerdictsWithin
<1>7. ASSUME NEW d \in Callers
      PROVE  /\ served'[d].from = "service" => Within(history', served'[d], Timeout)
             /\ served'[d].from = "cache" => Ttl # 0 /\ Within(history', served'[d], Ttl - 1 + Timeout)
  <2>1. CASE d = c
    BY <1>2, <1>3, <1>5, <2>1
  <2>2. CASE d # c
    BY <1>3, <1>6, <2>2
  <2> QED BY <2>1, <2>2
<1> QED BY <1>7, VerdictsAre DEF VerdictsWithin

LEMMA DecideKeeps ==
  ASSUME Hook!WardryxConstants, HookInv, NEW c \in Callers, NEW q \in Requests, Hook!Decide(c, q)
  PROVE  HookInv'
<1> USE DEF HookInv
<1>1. UNCHANGED <<policy, history, cache, holds, now, changes>> /\ HistoryKept
  BY DEF Hook!Decide, HistoryKept, HookTyped
<1>2. CachedForKey'
  BY <1>1, CachedKept
<1>3. CASE Hook!Fresh(q)
  <2>1. Hook!Serve(c, q, cache[Hook!Key(q)].decision, 0, "cache") /\ UNCHANGED asking
    BY <1>3 DEF Hook!Decide
  <2>2. HookTyped' /\ AskedInTime' /\ AnsweredSince'
    <3>1. HookTyped'
      BY <1>1, <2>1 DEF HookTyped, Hook!Serve
    <3>2. AskedInTime'
      BY <1>1, <2>1 DEF AskedInTime, Waits
    <3> QED BY <1>1, <2>1, <3>1, <3>2, AnsweredKept
  <2> DEFINE k == Hook!Key(q)
             age == Ttl - 1 + Timeout
  <2>3. /\ k \in DOMAIN cache /\ now - cache[k].at < Ttl
        /\ now \in Nat /\ cache[k].at \in 1 .. now /\ Ttl \in Nat /\ Timeout \in Nat
    BY <1>3 DEF Hook!Fresh, CachedForKey, HookTyped, Hook!WardryxConstants
  <2>4. PICK t \in 1 .. now : /\ t <= cache[k].at /\ cache[k].at <= t + Timeout
                              /\ \E p \in history[t] : \A r \in Requests :
                                   Hook!Key(r) = k => Hook!Evaluate(p, r) = cache[k].decision
    BY <2>3 DEF CachedForKey
  <2>5. t <= now /\ now <= t + age /\ Ttl # 0
    BY <2>3, <2>4
  <2>6. \E p \in history[t] : Hook!Evaluate(p, q) = cache[k].decision
    BY <2>4
  <2> HIDE DEF k
  <2>7. Hook!Serve(c, q, cache[k].decision, 0, "cache")
    BY <2>1 DEF k
  <2>8. "cache" # "service"
    OBVIOUS
  <2>9. Hook!VerdictsCurrent'
    BY <1>1, <2>5, <2>6, <2>7, <2>8, ServeKeeps
  <2> QED BY <1>2, <2>2, <2>9
<1>4. CASE ~Hook!Fresh(q)
  <2>1. UNCHANGED served /\ asking' = [asking EXCEPT ![c] = [state |-> "asked", q |-> q, asked |-> now]]
    BY <1>4 DEF Hook!Decide
  <2>2. /\ asking'[c] = [state |-> "asked", q |-> q, asked |-> now]
        /\ \A d \in Callers : d # c => asking'[d] = asking[d]
        /\ DOMAIN asking' = Callers
    BY <2>1 DEF HookTyped
  <2>3. HookTyped'
    BY <1>1, <2>1, <2>2 DEF HookTyped
  <2>4. now \in 1 .. now /\ now <= now + Timeout
    BY DEF HookTyped, Hook!WardryxConstants
  <2>5. AskedInTime'
    BY <1>1, <2>2, <2>4 DEF AskedInTime, Waits
  <2>6. AnsweredSince'
    BY <1>1, <2>2, AnsweredKept
  <2>7. Hook!VerdictsCurrent'
    BY <1>1, <2>1, VerdictsKept
  <2> QED BY <1>2, <2>3, <2>5, <2>6, <2>7
<1> QED BY <1>3, <1>4

LEMMA AnswerKeeps ==
  ASSUME HookInv, NEW c \in Callers, Hook!Answer(c)
  PROVE  HookInv'
<1> DEFINE d == Hook!Evaluate(policy, asking[c].q)
           a == IF d = "hold" THEN holds + 1 ELSE 0
           new == [state |-> "answered", q |-> asking[c].q, asked |-> asking[c].asked,
                   decision |-> d, approval |-> a, cacheable |-> Hook!Cacheable(policy)]
<1> USE DEF HookInv
<1>1. /\ UNCHANGED <<policy, history, cache, served, now>> /\ HistoryKept /\ asking[c].state = "asked"
      /\ asking' = [asking EXCEPT ![c] = new] /\ holds' = IF d = "hold" THEN holds + 1 ELSE holds
  BY DEF Hook!Answer, HistoryKept, HookTyped
<1>2. /\ asking'[c] = new /\ DOMAIN asking' = Callers
      /\ \A e \in Callers : e # c => asking'[e] = asking[e]
  BY <1>1 DEF HookTyped
<1>3. holds' \in Nat
  BY <1>1 DEF HookTyped
<1>4. HookTyped'
  BY <1>1, <1>2, <1>3 DEF HookTyped
<1>5. AskedInTime'
  BY <1>1, <1>2 DEF AskedInTime, Waits
<1>6. AnsweredSince'
  <2>1. asking[c].asked \in 1 .. now /\ now \in 1 .. now /\ asking[c].asked <= now
    BY <1>1 DEF AskedInTime, Waits, HookTyped
  <2>2. policy \in history[now]
    BY DEF HookTyped
  <2>3. ASSUME NEW e \in Callers, asking'[e].state = "answered"
        PROVE  \E t \in 1 .. now : /\ asking'[e].asked <= t
                                   /\ \E p \in history[t] : /\ Hook!Evaluate(p, asking'[e].q) = asking'[e].decision
                                                            /\ Hook!Cacheable(p) = asking'[e].cacheable
    <3>1. CASE e = c
      BY <1>2, <2>1, <2>2, <3>1
    <3>2. CASE e # c
      BY <1>2, <2>3, <3>2 DEF AnsweredSince
    <3> QED BY <3>1, <3>2
  <2> QED BY <1>1, <2>3 DEF AnsweredSince, Hook!Evaluate, Hook!Cacheable
<1>7. CachedForKey' /\ Hook!VerdictsCurrent'
  BY <1>1, CachedKept, VerdictsKept
<1> QED BY <1>4, <1>5, <1>6, <1>7

LEMMA ReceiveKeeps ==
  ASSUME Hook!WardryxConstants, HookInv, NEW c \in Callers, Hook!Receive(c)
  PROVE  HookInv'
<1> DEFINE q == asking[c].q
           d == asking[c].decision
<1> USE DEF HookInv
<1>1. /\ UNCHANGED <<policy, history, holds, now>> /\ HistoryKept /\ asking[c].state = "answered"
      /\ cache' = Hook!Put(q, d, asking[c].cacheable)
      /\ Hook!Serve(c, q, d, asking[c].approval, "service")
      /\ asking' = [asking EXCEPT ![c] = Hook!NoCall]
  BY DEF Hook!Receive, HistoryKept, HookTyped
<1>2. /\ asking'[c].state = "idle" /\ DOMAIN asking' = Callers
      /\ \A e \in Callers : e # c => asking'[e] = asking[e]
  BY <1>1 DEF HookTyped, Hook!NoCall
<1>3. HookTyped'
  BY <1>1, <1>2 DEF HookTyped, Hook!Serve
<1>4. AskedInTime'
  BY <1>1, <1>2 DEF AskedInTime, Waits
<1>5. AnsweredSince'
  BY <1>1, <1>2, AnsweredKept
<1>6. q \in Requests /\ asking[c].asked \in 1 .. now /\ now <= asking[c].asked + Timeout /\ now \in Nat /\ Timeout \in Nat
  BY <1>1 DEF AskedInTime, Waits, HookTyped, Hook!WardryxConstants
<1>a. PICK t \in 1 .. now : /\ asking[c].asked <= t
                            /\ \E p \in history[t] : Hook!Evaluate(p, q) = d /\ Hook!Cacheable(p) = asking[c].cacheable
  BY <1>1 DEF AnsweredSince
<1>7. PICK p \in history[t] : /\ asking[c].asked <= t /\ t \in 1 .. now
                              /\ Hook!Evaluate(p, q) = d /\ Hook!Cacheable(p) = asking[c].cacheable
  BY <1>a
<1>8. t <= now /\ now <= t + Timeout /\ now \in 1 .. now
  BY <1>6, <1>7
<1>9. CachedForKey'
  <2>1. CASE d = "hold" \/ ~asking[c].cacheable
    <3>1. cache' = cache
      BY <1>1, <2>1 DEF Hook!Put
    <3> QED BY <1>1, <3>1, CachedKept
  <2>2. CASE d # "hold" /\ asking[c].cacheable
    <3> DEFINE k == Hook!Key(q)
    <3>1. /\ DOMAIN cache' = DOMAIN cache \cup {k} /\ cache'[k] = [decision |-> d, at |-> now]
          /\ \A l \in DOMAIN cache : l # k => cache'[l] = cache[l]
      BY <1>1, <2>2 DEF Hook!Put, Hook!Stored
    <3>2. \A r \in Requests : Hook!Key(r) = k => Hook!Evaluate(p, r) = d
      BY <1>7, <2>2, KeySuffices
    <3> HIDE DEF k
    <3>3. ASSUME NEW l \in DOMAIN cache'
          PROVE  /\ cache'[l].at \in 1 .. now /\ cache'[l].decision # "hold"
                 /\ \E u \in 1 .. now : /\ u <= cache'[l].at /\ cache'[l].at <= u + Timeout
                                        /\ \E o \in history[u] : \A r \in Requests :
                                             Hook!Key(r) = l => Hook!Evaluate(o, r) = cache'[l].decision
      <4>1. CASE l = k
        BY <1>7, <1>8, <2>2, <3>1, <3>2, <4>1
      <4>2. CASE l # k
        BY <3>1, <4>2 DEF CachedForKey
      <4> QED BY <4>1, <4>2
    <3> QED BY <1>1, <3>3 DEF CachedForKey, Hook!Key, Hook!Evaluate
  <2> QED BY <2>1, <2>2
<1>10. Hook!VerdictsCurrent'
  <2> HIDE DEF q, d
  <2>1. "service" # "cache"
    OBVIOUS
  <2> QED BY <1>1, <1>7, <1>8, <2>1, ServeKeeps
<1> QED BY <1>3, <1>4, <1>5, <1>9, <1>10

LEMMA FallbackKeeps ==
  ASSUME HookInv, NEW c \in Callers, Hook!Fallback(c)
  PROVE  HookInv'
<1> USE DEF HookInv
<1>1. /\ UNCHANGED <<policy, history, cache, holds, now>> /\ HistoryKept
      /\ Hook!Serve(c, asking[c].q, Hook!FallbackDecision, 0, "fallback")
      /\ asking' = [asking EXCEPT ![c] = Hook!NoCall]
  BY DEF Hook!Fallback, HistoryKept, HookTyped
<1>2. /\ asking'[c].state = "idle" /\ DOMAIN asking' = Callers
      /\ \A e \in Callers : e # c => asking'[e] = asking[e]
  BY <1>1 DEF HookTyped, Hook!NoCall
<1>3. HookTyped'
  BY <1>1, <1>2 DEF HookTyped, Hook!Serve
<1>4. AskedInTime'
  BY <1>1, <1>2 DEF AskedInTime, Waits
<1>5. AnsweredSince'
  BY <1>1, <1>2, AnsweredKept
<1>6. Hook!VerdictsCurrent'
  <2>1. "fallback" \notin {"service", "cache"}
    OBVIOUS
  <2> QED BY <1>1, <2>1, ServeKeeps
<1> QED BY <1>1, <1>3, <1>4, <1>5, <1>6, CachedKept

(* Nobody is served: only the clock and the policies move on.              *)
LEMMA TimePasses ==
  ASSUME HookInv, HookTyped', AskedInTime', HistoryKept, UNCHANGED <<cache, asking, served>>
  PROVE  HookInv'
BY CachedKept, AnsweredKept, VerdictsKept DEF HookInv

LEMMA ChangePolicyKeeps ==
  ASSUME HookInv, NEW p \in Policies, Hook!ChangePolicy(p)
  PROVE  HookInv'
<1>1. /\ UNCHANGED <<cache, asking, served, holds, now>> /\ policy' = p
      /\ history' = [history EXCEPT ![now] = history[now] \cup {p}]
  BY DEF Hook!ChangePolicy
<1>2. HookTyped' /\ HistoryKept
  BY <1>1 DEF HookInv, HookTyped, HistoryKept
<1>3. AskedInTime'
  BY <1>1 DEF HookInv, AskedInTime, Waits
<1> QED BY <1>1, <1>2, <1>3, TimePasses

LEMMA HookTickKeeps ==
  ASSUME Hook!WardryxConstants, HookInv, Hook!Tick
  PROVE  HookInv'
<1>1. /\ UNCHANGED <<policy, cache, asking, served, holds>> /\ now' = now + 1
      /\ history' = [t \in 1 .. now + 1 |-> IF t = now + 1 THEN {policy} ELSE history[t]]
      /\ \A c \in Callers : asking[c] # Hook!NoCall => now < asking[c].asked + Timeout
  BY DEF Hook!Tick
<1>2. now \in Nat \ {0} /\ now + 1 \in Nat \ {0} /\ now + 1 \in 1 .. now + 1 /\ \A t \in 1 .. now : t \in 1 .. now + 1 /\ t # now + 1
  BY DEF HookInv, HookTyped
<1>3. HookTyped' /\ HistoryKept
  BY <1>1, <1>2 DEF HookInv, HookTyped, HistoryKept
<1>4. \A c \in Callers : Waits(c) => /\ asking[c].q \in Requests /\ asking[c].asked \in 1 .. now
                                     /\ now < asking[c].asked + Timeout
  BY <1>1 DEF HookInv, AskedInTime, Waits, Hook!NoCall
<1>5. AskedInTime'
  BY <1>1, <1>2, <1>4 DEF AskedInTime, Waits, Hook!WardryxConstants
<1> QED BY <1>1, <1>3, <1>5, TimePasses

LEMMA HookInvStep == Hook!WardryxConstants /\ HookInv /\ [Hook!Next]_Hook!vars => HookInv'
<1> SUFFICES ASSUME Hook!WardryxConstants, HookInv, [Hook!Next]_Hook!vars PROVE HookInv'
  OBVIOUS
<1>1. CASE \E c \in Callers : Hook!Answer(c) \/ Hook!Receive(c) \/ Hook!Fallback(c)
  BY <1>1, AnswerKeeps, ReceiveKeeps, FallbackKeeps
<1>2. CASE \E c \in Callers, q \in Requests : Hook!Decide(c, q)
  BY <1>2, DecideKeeps
<1>3. CASE \E p \in Policies : Hook!ChangePolicy(p)
  BY <1>3, ChangePolicyKeeps
<1>4. CASE Hook!Tick
  BY <1>4, HookTickKeeps
<1>5. CASE UNCHANGED Hook!vars
  <2>1. UNCHANGED <<policy, history, cache, asking, served, holds, now>>
    BY <1>5 DEF Hook!vars
  <2>2. HookTyped' /\ HistoryKept
    BY <2>1 DEF HookInv, HookTyped, HistoryKept
  <2>3. AskedInTime'
    BY <2>1 DEF HookInv, AskedInTime, Waits
  <2> QED BY <2>1, <2>2, <2>3, TimePasses
<1> QED BY <1>1, <1>2, <1>3, <1>4, <1>5 DEF Hook!Next

-----------------------------------------------------------------------------
(* The approvals: each hold has one of its own, whether its answer is on   *)
(* its way or was served.                                                  *)
AnsweredHold(c) == asking[c].state = "answered" /\ asking[c].decision = "hold"
ServedHold(c) == served[c] # Hook!Nothing /\ served[c].decision = "hold"
ServedOther(c) == served[c] # Hook!Nothing /\ served[c].decision # "hold"

ApprovalsOwned ==
  /\ holds \in Nat /\ DOMAIN asking = Callers /\ DOMAIN served = Callers
  /\ \A c \in Callers : /\ AnsweredHold(c) => asking[c].approval \in 1 .. holds
                        /\ ServedHold(c) => served[c].approval \in 1 .. holds
                        /\ ServedOther(c) => served[c].approval = 0
                        /\ asking[c].state = "answered" /\ ~AnsweredHold(c) => asking[c].approval = 0
  /\ \A c, d \in Callers : /\ AnsweredHold(c) /\ AnsweredHold(d) /\ c # d => asking[c].approval # asking[d].approval
                           /\ ServedHold(c) /\ ServedHold(d) /\ c # d => served[c].approval # served[d].approval
                           /\ AnsweredHold(c) /\ ServedHold(d) => asking[c].approval # served[d].approval
  /\ \A k \in DOMAIN cache : cache[k].decision # "hold"

LEMMA ApprovalsEnough == ApprovalsOwned => Hook!HoldsHaveOwnApproval
<1> SUFFICES ASSUME ApprovalsOwned, NEW c \in Callers, ServedHold(c)
             PROVE  /\ served[c].approval # 0
                    /\ \A d \in Callers \ {c} : served[d] # Hook!Nothing => served[d].approval # served[c].approval
  BY DEF Hook!HoldsHaveOwnApproval, ServedHold
<1>1. served[c].approval \in 1 .. holds /\ served[c].approval # 0
  BY DEF ApprovalsOwned
<1>2. \A d \in Callers \ {c} : ServedHold(d) \/ ServedOther(d) \/ served[d] = Hook!Nothing
  BY DEF ServedHold, ServedOther
<1> QED BY <1>1, <1>2 DEF ApprovalsOwned

(* A caller is served without a hold, and its call is over or as it was.   *)
LEMMA ServedNoHold ==
  ASSUME ApprovalsOwned, UNCHANGED holds, NEW c \in Callers, NEW q, NEW decision, NEW from,
         decision # "hold", Hook!Serve(c, q, decision, 0, from),
         UNCHANGED cache, DOMAIN asking' = Callers,
         \A d \in Callers : asking'[d] = asking[d] \/ asking'[d].state # "answered"
  PROVE  ApprovalsOwned'
<1>1. served' = [served EXCEPT ![c] = [q |-> q, decision |-> decision, approval |-> 0, from |-> from, at |-> now]]
  BY DEF Hook!Serve
<1>2. /\ served'[c].decision # "hold" /\ served'[c].approval = 0 /\ DOMAIN served' = Callers
      /\ \A d \in Callers : d # c => served'[d] = served[d]
  BY <1>1 DEF ApprovalsOwned
<1>3. \A d \in Callers : /\ ServedHold(d)' => ServedHold(d) /\ served'[d] = served[d]
                         /\ ServedOther(d)' => served'[d].approval = 0
                         /\ AnsweredHold(d)' => AnsweredHold(d) /\ asking'[d] = asking[d]
                         /\ asking'[d].state = "answered" /\ ~AnsweredHold(d)' => asking'[d].approval = 0
  BY <1>2 DEF ApprovalsOwned, ServedHold, ServedOther, AnsweredHold, Hook!Nothing
<1> QED BY <1>2, <1>3 DEF ApprovalsOwned

(* Nobody is served, and no answer comes.                                  *)
LEMMA ApprovalsUnchanged ==
  ASSUME ApprovalsOwned, UNCHANGED <<holds, served, cache>>, DOMAIN asking' = Callers,
         \A d \in Callers : asking'[d] = asking[d] \/ asking'[d].state # "answered"
  PROVE  ApprovalsOwned'
<1>1. \A d \in Callers : /\ ServedHold(d)' => ServedHold(d)
                         /\ ServedOther(d)' => ServedOther(d)
                         /\ AnsweredHold(d)' => AnsweredHold(d) /\ asking'[d] = asking[d]
                         /\ asking'[d].state = "answered" /\ ~AnsweredHold(d)' => asking'[d].approval = 0
  BY DEF ApprovalsOwned, ServedHold, ServedOther, AnsweredHold, Hook!Nothing
<1> QED BY <1>1 DEF ApprovalsOwned

LEMMA DecideOwns ==
  ASSUME ApprovalsOwned, NEW c \in Callers, NEW q \in Requests, Hook!Decide(c, q)
  PROVE  ApprovalsOwned'
<1>1. CASE Hook!Fresh(q)
  <2> DEFINE d == cache[Hook!Key(q)].decision
  <2>1. UNCHANGED <<holds, cache, asking>> /\ Hook!Serve(c, q, d, 0, "cache") /\ d # "hold"
    BY <1>1 DEF Hook!Decide, Hook!Fresh, ApprovalsOwned
  <2>2. DOMAIN asking' = Callers
    BY <2>1 DEF ApprovalsOwned
  <2> HIDE DEF d
  <2> QED BY <2>1, <2>2, ServedNoHold
<1>2. CASE ~Hook!Fresh(q)
  <2>1. UNCHANGED <<holds, cache, served>> /\ asking' = [asking EXCEPT ![c] = [state |-> "asked", q |-> q, asked |-> now]]
    BY <1>2 DEF Hook!Decide
  <2>2. DOMAIN asking' = Callers /\ \A d \in Callers : asking'[d] = asking[d] \/ asking'[d].state = "asked"
    BY <2>1 DEF ApprovalsOwned
  <2> QED BY <2>1, <2>2, ApprovalsUnchanged
<1> QED BY <1>1, <1>2

LEMMA AnswerOwns ==
  ASSUME ApprovalsOwned, NEW c \in Callers, Hook!Answer(c)
  PROVE  ApprovalsOwned'
<1> DEFINE v == Hook!Evaluate(policy, asking[c].q)
           n == holds + 1
<1>1. /\ UNCHANGED <<cache, served>> /\ holds' = IF v = "hold" THEN n ELSE holds
      /\ asking' = [asking EXCEPT ![c] = [state |-> "answered", q |-> asking[c].q, asked |-> asking[c].asked, decision |-> v,
                                          approval |-> IF v = "hold" THEN n ELSE 0, cacheable |-> Hook!Cacheable(policy)]]
  BY DEF Hook!Answer
<1> HIDE DEF v
<1>2. /\ DOMAIN asking' = Callers /\ asking'[c].state = "answered" /\ asking'[c].decision = v
      /\ asking'[c].approval = IF v = "hold" THEN n ELSE 0
      /\ \A d \in Callers : d # c => asking'[d] = asking[d]
  BY <1>1 DEF ApprovalsOwned
<1>3. /\ holds \in Nat /\ holds' \in Nat /\ \A i \in 1 .. holds : i \in 1 .. holds' /\ i # n
      /\ v = "hold" => n \in 1 .. holds'
  BY <1>1 DEF ApprovalsOwned
<1> HIDE DEF n
<1>4. \A d \in Callers : /\ ServedHold(d)' => ServedHold(d) /\ served[d].approval \in 1 .. holds
                         /\ ServedOther(d)' => ServedOther(d)
                         /\ AnsweredHold(d)' /\ d # c => AnsweredHold(d) /\ asking[d].approval \in 1 .. holds
                         /\ asking'[d].state = "answered" /\ ~AnsweredHold(d)' => asking'[d].approval = 0
                         /\ AnsweredHold(d)' /\ d = c => v = "hold" /\ asking'[d].approval = n
  BY <1>1, <1>2 DEF ApprovalsOwned, ServedHold, ServedOther, AnsweredHold, Hook!Nothing
<1>5. \A d \in Callers : AnsweredHold(d)' /\ d # c => asking'[d].approval # n /\ asking'[d].approval \in 1 .. holds'
  BY <1>2, <1>3, <1>4
<1>6. \A d \in Callers : ServedHold(d)' => served'[d].approval # n /\ served'[d].approval \in 1 .. holds'
  BY <1>1, <1>3, <1>4
<1>7. \A d, e \in Callers : AnsweredHold(d)' /\ AnsweredHold(e)' /\ d # e => asking'[d].approval # asking'[e].approval
  BY <1>2, <1>4, <1>5 DEF ApprovalsOwned
<1>8. \A d, e \in Callers : AnsweredHold(d)' /\ ServedHold(e)' => asking'[d].approval # served'[e].approval
  BY <1>1, <1>2, <1>4, <1>6 DEF ApprovalsOwned
<1> QED BY <1>1, <1>2, <1>3, <1>4, <1>5, <1>6, <1>7, <1>8 DEF ApprovalsOwned

LEMMA ReceiveOwns ==
  ASSUME ApprovalsOwned, NEW c \in Callers, Hook!Receive(c)
  PROVE  ApprovalsOwned'
<1> DEFINE v == asking[c].decision
           a == asking[c].approval
<1>1. /\ UNCHANGED holds /\ asking[c].state = "answered"
      /\ served' = [served EXCEPT ![c] = [q |-> asking[c].q, decision |-> v, approval |-> a, from |-> "service", at |-> now]]
      /\ asking' = [asking EXCEPT ![c] = Hook!NoCall]
      /\ cache' = Hook!Put(asking[c].q, v, asking[c].cacheable)
  BY DEF Hook!Receive, Hook!Serve
<1>2. /\ DOMAIN asking' = Callers /\ asking'[c].state = "idle"
      /\ \A d \in Callers : d # c => asking'[d] = asking[d]
      /\ DOMAIN served' = Callers /\ served'[c].decision = v /\ served'[c].approval = a
      /\ \A d \in Callers : d # c => served'[d] = served[d]
  BY <1>1 DEF ApprovalsOwned, Hook!NoCall
<1>3. \A k \in DOMAIN cache' : cache'[k].decision # "hold"
  <2>1. CASE v = "hold" \/ ~asking[c].cacheable
    BY <1>1, <2>1 DEF Hook!Put, ApprovalsOwned
  <2>2. CASE ~(v = "hold" \/ ~asking[c].cacheable)
    BY <1>1, <2>2 DEF Hook!Put, Hook!Stored, ApprovalsOwned
  <2> QED BY <2>1, <2>2
<1>4. \A d \in Callers : /\ ServedHold(d)' => (d = c /\ AnsweredHold(c)) \/ (d # c /\ ServedHold(d))
                         /\ ServedOther(d)' => (d = c /\ ~AnsweredHold(c)) \/ (d # c /\ ServedOther(d))
                         /\ AnsweredHold(d)' => d # c /\ AnsweredHold(d)
                         /\ asking'[d].state = "answered" /\ ~AnsweredHold(d)' => asking'[d].approval = 0
  BY <1>1, <1>2 DEF ApprovalsOwned, ServedHold, ServedOther, AnsweredHold, Hook!Nothing
<1>5. \A d \in Callers : ServedHold(d)' => served'[d].approval \in 1 .. holds
  BY <1>2, <1>4 DEF ApprovalsOwned
<1>6. \A d \in Callers : ServedOther(d)' => served'[d].approval = 0
  BY <1>1, <1>2, <1>4 DEF ApprovalsOwned
<1>7. \A d, e \in Callers : ServedHold(d)' /\ ServedHold(e)' /\ d # e => served'[d].approval # served'[e].approval
  BY <1>2, <1>4 DEF ApprovalsOwned
<1>8. \A d, e \in Callers : AnsweredHold(d)' /\ ServedHold(e)' => asking'[d].approval # served'[e].approval
  BY <1>2, <1>4 DEF ApprovalsOwned
<1>9. \A d, e \in Callers : AnsweredHold(d)' /\ AnsweredHold(e)' /\ d # e => asking'[d].approval # asking'[e].approval
  BY <1>2, <1>4 DEF ApprovalsOwned
<1>10. \A d \in Callers : AnsweredHold(d)' => asking'[d].approval \in 1 .. holds
  BY <1>2, <1>4 DEF ApprovalsOwned
<1>11. holds \in Nat
  BY DEF ApprovalsOwned
<1> QED BY <1>1, <1>2, <1>3, <1>4, <1>5, <1>6, <1>7, <1>8, <1>9, <1>10, <1>11 DEF ApprovalsOwned

LEMMA ApprovalsStep == ApprovalsOwned /\ [Hook!Next]_Hook!vars => ApprovalsOwned'
<1> SUFFICES ASSUME ApprovalsOwned, [Hook!Next]_Hook!vars PROVE ApprovalsOwned'
  OBVIOUS
<1>1. CASE \E c \in Callers : Hook!Answer(c) \/ Hook!Receive(c)
  BY <1>1, AnswerOwns, ReceiveOwns
<1>2. CASE \E c \in Callers : Hook!Fallback(c)
  <2>1. PICK c \in Callers : Hook!Fallback(c)
    BY <1>2
  <2>2. /\ UNCHANGED <<holds, cache>> /\ Hook!Serve(c, asking[c].q, Hook!FallbackDecision, 0, "fallback")
        /\ Hook!FallbackDecision # "hold" /\ asking' = [asking EXCEPT ![c] = Hook!NoCall]
    BY <2>1 DEF Hook!Fallback, Hook!FallbackDecision
  <2>3. DOMAIN asking' = Callers /\ \A d \in Callers : asking'[d] = asking[d] \/ asking'[d].state # "answered"
    BY <2>2 DEF ApprovalsOwned, Hook!NoCall
  <2> QED BY <2>2, <2>3, ServedNoHold
<1>3. CASE \E c \in Callers, q \in Requests : Hook!Decide(c, q)
  BY <1>3, DecideOwns
<1>4. CASE (\E p \in Policies : Hook!ChangePolicy(p)) \/ Hook!Tick \/ UNCHANGED Hook!vars
  <2>1. UNCHANGED <<holds, served, cache, asking>>
    BY <1>4 DEF Hook!ChangePolicy, Hook!Tick, Hook!vars
  <2>2. DOMAIN asking' = Callers
    BY <2>1 DEF ApprovalsOwned
  <2> QED BY <2>1, <2>2, ApprovalsUnchanged
<1> QED BY <1>1, <1>2, <1>3, <1>4 DEF Hook!Next

(* wardryx.rs, decide, Cache::get and put: however calls overlap and the   *)
(* policy changes, a verdict is that of a policy in force within the       *)
(* timeout of an answer and, from the cache, its lifetime, for this very   *)
(* request; and no two held calls share an approval.                       *)
THEOREM VerdictsHold ==
  ASSUME Hook!WardryxConstants
  PROVE  Hook!Spec => []VerdictsCurrent
<1>1. Hook!Init => HookInv
  BY HookInvInit
<1>2. HookInv /\ [Hook!Next]_Hook!vars => HookInv'
  BY HookInvStep
<1>3. Hook!Init => ApprovalsOwned
  BY DEF Hook!Init, Hook!NoCall, Hook!Nothing, ApprovalsOwned, AnsweredHold, ServedHold, ServedOther
<1>4. HookInv /\ ApprovalsOwned => VerdictsCurrent
  BY ApprovalsEnough DEF HookInv, VerdictsCurrent
<1> QED BY <1>1, <1>2, <1>3, <1>4, ApprovalsStep, PTL DEF Hook!Spec

-----------------------------------------------------------------------------
(***************************************************************************)
(* The taint firewall (Firewall), with any number of calls and runs that   *)
(* overlap, any headers, conversations and answers, and any mode.          *)
(***************************************************************************)
(* The calls and what a run has collected.                                 *)
WallTyped ==
  /\ DOMAIN post = Posts
  /\ DOMAIN taint = Wall!RunIds /\ DOMAIN touched = Wall!RunIds
  /\ \A c \in Posts : RunOf[c] \in Wall!RunIds

(* What a call keeps of the run is no less than it brings itself.          *)
Brings(c) == post[c].header \cup Wall!LabelsFor(Wall!ToolNamesIn(post[c].history))

LabelsKept ==
  mode # "off" => \A c \in Posts : post[c].phase \in {"sent", "released"} => Brings(c) \subseteq post[c].labels

(* What is passed on was judged against that.                              *)
ReleasedJudged ==
  mode = "enforce" => \A c \in Posts \ Streamed : post[c].phase = "released" =>
    ~Wall!Denied(post[c].labels, Wall!CapabilitiesFor(post[c].tools))

WallInv == WallTyped /\ LabelsKept /\ ReleasedJudged /\ Wall!NothingForgotten /\ Wall!SecretsPolicyHonoured

LEMMA WallInvEnough == WallInv => Wall!ContextGatesActions
<1> SUFFICES ASSUME WallInv, mode = "enforce", NEW c \in Posts \ Streamed, post[c].phase = "released",
                    NEW t \in post[c].tools \cap DOMAIN Wall!Capabilities, NEW rule \in Wall!Rules,
                    Wall!Capabilities[t] \in rule.deny
             PROVE  /\ rule.whenAny \cap (post[c].labels \cup post[c].header) = {}
                    /\ \A h \in Wall!ToolNamesIn(post[c].history) :
                         (IF h \in DOMAIN Wall!Sources THEN Wall!Sources[h] ELSE "unclassified") \notin rule.whenAny
  BY DEF Wall!ContextGatesActions
<1>1. Wall!Capabilities[t] \in Wall!CapabilitiesFor(post[c].tools)
  BY DEF Wall!CapabilitiesFor
<1>2. rule.whenAny \cap post[c].labels = {}
  BY <1>1 DEF WallInv, ReleasedJudged, Wall!Denied
<1>3. post[c].header \subseteq post[c].labels
      /\ Wall!LabelsFor(Wall!ToolNamesIn(post[c].history)) \subseteq post[c].labels
  BY DEF WallInv, LabelsKept, Brings
<1>4. \A h \in Wall!ToolNamesIn(post[c].history) :
        (IF h \in DOMAIN Wall!Sources THEN Wall!Sources[h] ELSE "unclassified") \in Wall!LabelsFor(Wall!ToolNamesIn(post[c].history))
  BY DEF Wall!LabelsFor
<1> QED BY <1>2, <1>3, <1>4

LEMMA WallInvInit == Wall!Init => WallInv
<1> SUFFICES ASSUME Wall!Init PROVE WallInv
  OBVIOUS
<1>1. WallTyped /\ \A c \in Posts : post[c].phase = "arrived"
  BY DEF Wall!Init, WallTyped, Wall!RunIds
<1>2. Wall!NothingForgotten
  BY DEF Wall!Init, Wall!NothingForgotten
<1> QED BY <1>1, <1>2 DEF WallInv, LabelsKept, ReleasedJudged, Wall!SecretsPolicyHonoured

(* A context with secrets has the secrets bit, whatever else it holds.     *)
LEMMA SecretsBitSet ==
  ASSUME NEW tools, mode # "off", tools \cap {"vault_read", "read_secret"} # {}
  PROVE  Wall!PolicyBlocks(Wall!TaintBits(tools))
<1> DEFINE labels == Wall!LabelsFor(tools)
           web == Wall!LabelBit(labels, "web", 1)
           file == Wall!LabelBit(labels, "file", 2)
           other == Wall!LabelBit(labels, "unclassified", 8)
           email == Wall!LabelBit(labels, "email", 16)
<1>1. "secrets" \in labels
  <2>1. PICK t \in tools : t = "vault_read" \/ t = "read_secret"
    OBVIOUS
  <2>2. t \in DOMAIN Wall!Sources /\ Wall!Sources[t] = "secrets"
    BY <2>1 DEF Wall!Sources
  <2> QED BY <2>2 DEF Wall!LabelsFor
<1>2. /\ web = 0 \/ web = 1
      /\ file = 0 \/ file = 2
      /\ other = 0 \/ other = 8
      /\ email = 0 \/ email = 16
  BY DEF Wall!LabelBit
<1>3. Wall!TaintBits(tools) = web + file + 4 + other + email
  BY <1>1 DEF Wall!TaintBits, Wall!LabelBit
<1> HIDE DEF web, file, other, email
<1>4. ((web + file + 4 + other + email) \div 4) % 2 = 1
  BY <1>2
<1> QED BY <1>3, <1>4 DEF Wall!PolicyBlocks

(* What a step does to one call.                                           *)
LEMMA BecomesIs ==
  ASSUME WallTyped, NEW c \in Posts, NEW phase, NEW labels, NEW tools, Wall!Becomes(c, phase, labels, tools)
  PROVE  /\ DOMAIN post' = Posts
         /\ post'[c].phase = phase /\ post'[c].labels = labels /\ post'[c].tools = tools
         /\ post'[c].header = post[c].header /\ post'[c].history = post[c].history
         /\ \A d \in Posts : d # c => post'[d] = post[d]
BY DEF WallTyped, Wall!Becomes

(* The WASM policy decides whether the request goes on.                    *)
LEMMA GateKeeps ==
  ASSUME WallInv, NEW c \in Posts, Wall!WasmGate(c)
  PROVE  WallInv'
<1> USE DEF WallInv
<1>1. PICK phase \in {"refused", "admitted"} :
        /\ Wall!Becomes(c, phase, {}, {}) /\ UNCHANGED <<mode, taint, touched>> /\ broken \subseteq broken'
        /\ phase = "admitted" /\ WasmLoaded /\ mode # "off" /\ c \notin broken' =>
             ~Wall!PolicyBlocks(Wall!TaintBits(Wall!ToolNamesIn(post[c].history)))
  BY DEF Wall!WasmGate
<1>2. /\ DOMAIN post' = Posts /\ post'[c].phase = phase
      /\ post'[c].history = post[c].history
      /\ \A d \in Posts : d # c => post'[d] = post[d]
  BY <1>1, BecomesIs
<1>3. WallTyped' /\ Wall!NothingForgotten'
  BY <1>1, <1>2 DEF WallTyped, Wall!RunIds, Wall!NothingForgotten
<1>4. LabelsKept'
  BY <1>1, <1>2 DEF LabelsKept, Brings, Wall!LabelsFor, Wall!ToolNamesIn, Wall!Sources
<1>5. ReleasedJudged'
  BY <1>1, <1>2 DEF ReleasedJudged, Wall!Denied, Wall!CapabilitiesFor, Wall!Capabilities, Wall!Rules
<1>6. Wall!SecretsPolicyHonoured'
  <2>1. WasmLoaded /\ mode # "off" /\ c \notin broken' /\ phase = "admitted" =>
          Wall!ToolNamesIn(post[c].history) \cap {"vault_read", "read_secret"} = {}
    BY <1>1, SecretsBitSet
  <2> QED BY <1>1, <1>2, <2>1 DEF Wall!SecretsPolicyHonoured, Wall!ToolNamesIn
<1> QED BY <1>3, <1>4, <1>5, <1>6

(* Other calls keep what they had, and this one brings what it brought.    *)
LEMMA OthersJudged ==
  ASSUME WallInv, NEW c \in Posts, NEW phase, NEW labels, NEW tools, Wall!Becomes(c, phase, labels, tools),
         UNCHANGED <<mode, broken>>, post[c].phase \in {"admitted", "sent"},
         phase \in {"sent", "released", "blocked", "failed"},
         mode # "off" /\ phase \in {"sent", "released"} => Brings(c) \subseteq labels,
         mode = "enforce" /\ c \notin Streamed /\ phase = "released" => ~Wall!Denied(labels, Wall!CapabilitiesFor(tools))
  PROVE  LabelsKept' /\ ReleasedJudged' /\ Wall!SecretsPolicyHonoured'
<1> USE DEF WallInv
<1>1. /\ DOMAIN post' = Posts
      /\ post'[c].phase = phase /\ post'[c].labels = labels /\ post'[c].tools = tools
      /\ post'[c].header = post[c].header /\ post'[c].history = post[c].history
      /\ \A d \in Posts : d # c => post'[d] = post[d]
  BY BecomesIs
<1>2. LabelsKept'
  <2>1. \A d \in Posts : Brings(d)' = Brings(d)
    BY <1>1 DEF Brings, Wall!LabelsFor, Wall!ToolNamesIn, Wall!Sources
  <2> QED BY <1>1, <2>1 DEF LabelsKept
<1>3. ReleasedJudged'
  <2>1. mode = "enforce" => \A d \in Posts \ Streamed : post'[d].phase = "released" =>
          ~Wall!Denied(post'[d].labels, Wall!CapabilitiesFor(post'[d].tools))
    BY <1>1 DEF ReleasedJudged
  <2> QED BY <2>1 DEF ReleasedJudged, Wall!Denied, Wall!CapabilitiesFor, Wall!Capabilities, Wall!Rules
<1>4. Wall!SecretsPolicyHonoured'
  BY <1>1 DEF Wall!SecretsPolicyHonoured, Wall!ToolNamesIn
<1> QED BY <1>2, <1>3, <1>4

LEMMA CollectKeeps ==
  ASSUME WallInv, NEW c \in Posts, Wall!Collect(c)
  PROVE  WallInv'
<1> USE DEF WallInv
<1> DEFINE r == RunOf[c]
           labels == Brings(c)
<1>1. /\ post[c].phase = "admitted" /\ UNCHANGED <<mode, broken>>
      /\ touched' = [touched EXCEPT ![r] = touched[r] \cup labels]
      /\ mode # "off" => taint' = [taint EXCEPT ![r] = taint[r] \cup labels]
      /\ mode = "off" => taint' = taint
  BY DEF Wall!Collect, Wall!Accumulate, Brings
<1>2. PICK kept : Wall!Becomes(c, "sent", kept, {}) /\ (mode # "off" => labels \subseteq kept)
  BY DEF Wall!Collect, Brings
<1>3. r \in DOMAIN taint /\ r \in DOMAIN touched
  BY DEF WallTyped
<1> HIDE DEF labels, r
<1>4. Wall!NothingForgotten'
  <2>1. mode # "off" => \A s \in Wall!RunIds : taint'[s] = touched'[s]
    BY <1>1, <1>3 DEF Wall!NothingForgotten, WallTyped
  <2> QED BY <1>1, <2>1 DEF Wall!NothingForgotten, Wall!RunIds
<1>5. WallTyped'
  <2>1. DOMAIN post' = Posts
    BY <1>2, BecomesIs
  <2> QED BY <1>1, <2>1 DEF WallTyped, Wall!RunIds
<1>6. LabelsKept' /\ ReleasedJudged' /\ Wall!SecretsPolicyHonoured'
  BY <1>1, <1>2, OthersJudged DEF labels
<1> QED BY <1>4, <1>5, <1>6

LEMMA RespondKeeps ==
  ASSUME WallInv, NEW c \in Posts, NEW blocks, Wall!Respond(c, blocks)
  PROVE  WallInv'
<1> USE DEF WallInv
<1> DEFINE tools == Wall!ToolNamesIn(blocks)
           r == RunOf[c]
           labels == Wall!LabelsFor(tools)
           kept == post[c].labels
<1>1. /\ post[c].phase = "sent" /\ UNCHANGED <<mode, broken>>
      /\ touched' = IF c \notin Streamed /\ post'[c].phase = "released" THEN [touched EXCEPT ![r] = touched[r] \cup labels] ELSE touched
      /\ IF c \in Streamed THEN UNCHANGED taint /\ Wall!Becomes(c, "released", kept, tools) ELSE Wall!Judge(c, tools)
  BY DEF Wall!Respond
<1>2. r \in DOMAIN taint /\ r \in DOMAIN touched /\ (mode # "off" => Brings(c) \subseteq kept)
  BY <1>1 DEF WallTyped, LabelsKept
<1> HIDE DEF tools, r, labels
<1>3. \/ c \in Streamed /\ taint' = taint /\ Wall!Becomes(c, "released", kept, tools)
      \/ c \notin Streamed /\ mode = "off" /\ taint' = taint /\ Wall!Becomes(c, "released", kept, tools)
      \/ c \notin Streamed /\ mode = "enforce" /\ taint' = taint /\ Wall!Becomes(c, "blocked", kept, tools)
      \/ /\ c \notin Streamed /\ mode # "off" /\ Wall!Becomes(c, "released", kept, tools)
         /\ mode = "enforce" => ~Wall!Denied(kept, Wall!CapabilitiesFor(tools))
         /\ taint' = [taint EXCEPT ![r] = taint[r] \cup labels]
  BY <1>1 DEF Wall!Judge, Wall!Accumulate, r, labels
<1> HIDE DEF kept
<1>4. PICK phase \in {"released", "blocked"} :
        /\ Wall!Becomes(c, phase, kept, tools)
        /\ mode = "enforce" /\ c \notin Streamed /\ phase = "released" => ~Wall!Denied(kept, Wall!CapabilitiesFor(tools))
        /\ mode # "off" => taint' = IF c \notin Streamed /\ phase = "released" THEN [taint EXCEPT ![r] = taint[r] \cup labels] ELSE taint
        /\ DOMAIN taint' = DOMAIN taint
  BY <1>3
<1>5. post'[c].phase = phase /\ DOMAIN post' = Posts
  BY <1>4, BecomesIs
<1>6. Wall!NothingForgotten'
  <2>1. mode # "off" => \A s \in Wall!RunIds : taint'[s] = touched'[s]
    BY <1>1, <1>2, <1>4, <1>5 DEF Wall!NothingForgotten, WallTyped
  <2> QED BY <1>1, <2>1 DEF Wall!NothingForgotten, Wall!RunIds
<1>7. WallTyped'
  <2>1. DOMAIN touched' = DOMAIN touched
    BY <1>1
  <2> QED BY <1>4, <1>5, <2>1 DEF WallTyped, Wall!RunIds
<1>8. LabelsKept' /\ ReleasedJudged' /\ Wall!SecretsPolicyHonoured'
  BY <1>1, <1>2, <1>4, OthersJudged
<1> QED BY <1>6, <1>7, <1>8

LEMMA FailsKeeps ==
  ASSUME WallInv, NEW c \in Posts, Wall!Fails(c)
  PROVE  WallInv'
<1> USE DEF WallInv
<1> DEFINE kept == post[c].labels
<1>1. /\ post[c].phase = "sent" /\ UNCHANGED <<mode, taint, broken, touched>> /\ Wall!Becomes(c, "failed", kept, {})
  BY DEF Wall!Fails
<1> HIDE DEF kept
<1>2. DOMAIN post' = Posts
  BY <1>1, BecomesIs
<1>3. WallTyped' /\ Wall!NothingForgotten'
  BY <1>1, <1>2 DEF WallTyped, Wall!RunIds, Wall!NothingForgotten
<1>4. LabelsKept' /\ ReleasedJudged' /\ Wall!SecretsPolicyHonoured'
  BY <1>1, OthersJudged
<1> QED BY <1>3, <1>4

LEMMA WallInvStep == WallInv /\ [Wall!Next]_Wall!vars => WallInv'
<1> SUFFICES ASSUME WallInv, [Wall!Next]_Wall!vars PROVE WallInv'
  OBVIOUS
<1>1. CASE \E c \in Posts : Wall!WasmGate(c) \/ Wall!Collect(c) \/ Wall!Fails(c)
  BY <1>1, GateKeeps, CollectKeeps, FailsKeeps
<1>2. CASE \E c \in Posts, blocks \in Answers : Wall!Respond(c, blocks)
  BY <1>2, RespondKeeps
<1>3. CASE UNCHANGED Wall!vars
  <2>1. UNCHANGED <<mode, taint, post, broken, touched>>
    BY <1>3 DEF Wall!vars
  <2>2. WallTyped' /\ Wall!NothingForgotten'
    BY <2>1 DEF WallInv, WallTyped, Wall!RunIds, Wall!NothingForgotten
  <2>3. LabelsKept' /\ ReleasedJudged'
    BY <2>1 DEF WallInv, LabelsKept, ReleasedJudged, Brings, Wall!LabelsFor, Wall!ToolNamesIn, Wall!Sources,
                Wall!Denied, Wall!CapabilitiesFor, Wall!Capabilities, Wall!Rules
  <2>4. Wall!SecretsPolicyHonoured'
    BY <2>1 DEF WallInv, Wall!SecretsPolicyHonoured, Wall!ToolNamesIn
  <2> QED BY <2>2, <2>3, <2>4 DEF WallInv
<1> QED BY <1>1, <1>2, <1>3 DEF Wall!Next

(* taint.rs, proxy.rs, state.rs, wasmpolicy.rs: whatever calls overlap,    *)
(* what a conversation holds gates what it may do, a run forgets no label, *)
(* and a policy on secrets sees every context that holds them.             *)
THEOREM TaintHolds ==
  Wall!Spec => []TaintGates
<1>1. WallInv => TaintGates
  BY WallInvEnough DEF WallInv, TaintGates, Wall!TaintGates
<1> QED BY <1>1, WallInvInit, WallInvStep, PTL DEF Wall!Spec

-----------------------------------------------------------------------------
(***************************************************************************)
(* The MCP credential broker (McpBroker), with any number of overlapping   *)
(* calls, servers, tools and secrets, whose tool lists and policy change   *)
(* under the calls, and whatever becomes of the events.                    *)
(***************************************************************************)
Active(c) == slot[c].phase \in {"gate", "forward", "answered"}
Decided(n, d) ==
  \E e \in decided : e.n = n /\ (config.wardryx = "enforce" => e.decision = d)

(* A number names one call, and at most one decision of the gate.          *)
CallsNumbered ==
  /\ taken \in Nat /\ DOMAIN slot = Clients
  /\ \A c \in Clients : Active(c) => slot[c].n \in 1 .. taken
  /\ \A c, d \in Clients : Active(c) /\ Active(d) /\ slot[c].n = slot[d].n => c = d
  /\ \A e \in decided : e.n \in 1 .. taken
  /\ \A e, f \in decided : e.n = f.n => e = f

(* A call before the gate is undecided; one beyond it, on the wire or      *)
(* refused by it, has the decision that says so.                           *)
GateLogs ==
  /\ \A c \in Clients : slot[c].phase = "gate" => \A e \in decided : e.n # slot[c].n
  /\ \A c \in Clients : slot[c].phase \in {"forward", "answered"} /\ Broker!Gated(slot[c].req) => Decided(slot[c].n, "allow")
  /\ \A w \in wire : Broker!Gated(w.req) => Decided(w.n, "allow")
  /\ \A r \in replies : /\ r.error # "allow"
                        /\ r.error \in {"deny", "hold"} =>
                             \E e \in decided : e.n = r.n /\ e.decision = r.error

(* A call goes where it asked to; what is no tool call is passed as it is. *)
CallsRouted ==
  /\ \A c \in Clients : Active(c) => /\ slot[c].url \in Broker!Urls(slot[c].req)
                                     /\ slot[c].phase # "answered" /\ slot[c].req.method # "call" =>
                                          slot[c].body = slot[c].req.args
                                     /\ slot[c].req.method # "list" => slot[c].tools = <<>>
  /\ \A w \in wire : /\ w.url \in Broker!Urls(w.req)
                     /\ w.req.method # "call" => w.body = w.req.args

BrokerInv == CallsNumbered /\ GateLogs /\ CallsRouted /\ Broker!PinnedToolsOnly

LEMMA SecretsRouted == BrokerInv => Broker!SecretsReachTheirServer
<1> SUFFICES ASSUME BrokerInv, NEW w \in wire, Broker!Injected(w) # {}
             PROVE  /\ w.url \in Broker!Urls(w.req)
                    /\ config.wardryx = "enforce" /\ w.req.agent # {} => \E d \in decided : d.n = w.n /\ d.decision = "allow"
  BY DEF Broker!SecretsReachTheirServer
<1>1. w.body # w.req.args
  BY DEF Broker!Injected
<1>2. w.req.method = "call"
  BY <1>1 DEF BrokerInv, CallsRouted
<1>3. config.wardryx = "enforce" /\ w.req.agent # {} => Decided(w.n, "allow")
  BY <1>2 DEF BrokerInv, GateLogs, Broker!Gated
<1> QED BY <1>3 DEF BrokerInv, CallsRouted, Decided

(* What was decided and written has its one event, and no event is of an   *)
(* undecided call.                                                         *)
EventsTold ==
  /\ \A d \in decided : IF d.emission = "written" THEN \E e \in audit : Broker!Events(d.n) = {e} /\ e.decision = d.decision
                        ELSE Broker!Events(d.n) = {}
  /\ \A n : Broker!Events(n) # {} => \E d \in decided : d.n = n

LEMMA EventsAreOne == BrokerInv /\ EventsTold => Broker!OneEventPerGatedCall
<1> SUFFICES ASSUME BrokerInv, EventsTold, NEW w \in wire \cup {r \in replies : r.error \in {"deny", "hold"}}, Broker!Gated(w.req)
             PROVE  \E d \in decided :
                      /\ d.n = w.n
                      /\ config.wardryx = "enforce" => (d.decision # "allow" <=> \E r \in replies : r.n = w.n /\ r.error = d.decision)
                      /\ IF d.emission = "written" THEN \E e \in audit : Broker!Events(w.n) = {e} /\ e.decision = d.decision
                         ELSE Broker!Events(w.n) = {}
  BY DEF Broker!OneEventPerGatedCall
<1> USE DEF BrokerInv
<1>1. PICK d \in decided : /\ d.n = w.n
                           /\ w \in wire => (config.wardryx = "enforce" => d.decision = "allow")
                           /\ w \notin wire => w \in replies /\ d.decision = w.error /\ w.error # "allow"
  <2>1. CASE w \in wire
    BY <2>1 DEF GateLogs, Decided
  <2>2. CASE w \notin wire
    <3>1. w \in replies /\ w.error \in {"deny", "hold"}
      BY <2>2
    <3> QED BY <2>2, <3>1 DEF GateLogs
  <2> QED BY <2>1, <2>2
<1>2. \A r \in replies : r.error # "allow"
  BY DEF GateLogs
<1>3. config.wardryx = "enforce" => (d.decision # "allow" <=> \E r \in replies : r.n = w.n /\ r.error = d.decision)
  BY <1>1, <1>2
<1> QED BY <1>1, <1>3 DEF EventsTold

LEMMA BrokerInvInit == Broker!Init => BrokerInv
<1> SUFFICES ASSUME Broker!Init PROVE BrokerInv
  OBVIOUS
<1>1. taken = 0 /\ wire = {} /\ decided = {} /\ replies = {} /\ DOMAIN slot = Clients /\ \A c \in Clients : slot[c].phase = "idle"
  BY DEF Broker!Init, Broker!Idle
<1> QED BY <1>1 DEF BrokerInv, CallsNumbered, GateLogs, CallsRouted, Active, Broker!PinnedToolsOnly

(* What a step does to one slot.                                           *)
LEMMA GoesIs ==
  ASSUME DOMAIN slot = Clients, NEW c \in Clients, NEW phase, NEW n, NEW q, NEW url, NEW body, NEW would, NEW tools,
         Broker!Goes(c, phase, n, q, url, body, would, tools)
  PROVE  /\ DOMAIN slot' = Clients /\ \A d \in Clients : d # c => slot'[d] = slot[d]
         /\ slot'[c] = [phase |-> phase, n |-> n, req |-> q, url |-> url, body |-> body, would |-> would, tools |-> tools]
         /\ slot'[c].phase = phase /\ slot'[c].n = n /\ slot'[c].req = q /\ slot'[c].url = url
         /\ slot'[c].body = body /\ slot'[c].tools = tools
BY DEF Broker!Goes

LEMMA RefuseIs ==
  ASSUME DOMAIN slot = Clients, NEW c \in Clients, NEW n, NEW q, NEW error, Broker!Refuse(c, n, q, error)
  PROVE  /\ DOMAIN slot' = Clients /\ \A d \in Clients : d # c => slot'[d] = slot[d]
         /\ slot'[c].phase = "idle"
         /\ replies' = replies \cup {[n |-> n, req |-> q, error |-> error, body |-> <<>>, tools |-> <<>>, note |-> ""]}
BY DEF Broker!Refuse, Broker!Respond, Broker!Idle

(* A call ends: nothing new goes on the wire, and a refusal of the gate    *)
(* has its event in the decided trail.                                       *)
LEMMA EndKeeps ==
  ASSUME BrokerInv, NEW c \in Clients, NEW r, DOMAIN slot' = Clients, UNCHANGED <<config, wire>>,
         taken' \in Nat, taken <= taken', decided \subseteq decided',
         \A e \in decided' : \/ e \in decided
                           \/ /\ e.n \in 1 .. taken'
                              /\ \A d \in Clients \ {c} : slot[d].phase = "gate" => slot[d].n # e.n,
         \A e, f \in decided' : e.n = f.n => e = f,
         \A d \in Clients : d # c => slot'[d] = slot[d], slot'[c].phase = "idle",
         replies' = replies \cup {r}, r.error # "allow",
         r.error \in {"deny", "hold"} => \E e \in decided' : e.n = r.n /\ e.decision = r.error,
         config.scan = "block" => /\ \A l \in config.lock : \A t \in DOMAIN r.tools \cap DOMAIN l : r.tools[t] = l[t]
                                  /\ \A t \in DOMAIN r.tools : r.tools[t] \notin Poisoned
  PROVE  BrokerInv'
<1> USE DEF BrokerInv
<1>1. \A d \in Clients : Active(d)' => Active(d) /\ d # c /\ slot'[d] = slot[d]
  BY DEF Active
<1>2. taken \in Nat /\ \A n \in 1 .. taken : n \in 1 .. taken'
  BY DEF CallsNumbered
<1>3. CallsNumbered'
  <2>1. \A d \in Clients : Active(d)' => slot'[d].n \in 1 .. taken'
    BY <1>1, <1>2 DEF CallsNumbered
  <2>2. \A d, e \in Clients : Active(d)' /\ Active(e)' /\ slot'[d].n = slot'[e].n => d = e
    BY <1>1 DEF CallsNumbered
  <2>3. \A e \in decided' : e.n \in 1 .. taken'
    BY <1>2 DEF CallsNumbered
  <2> QED BY <2>1, <2>2, <2>3 DEF CallsNumbered
<1>4. \A n, d : Decided(n, d) => \E e \in decided' : e.n = n /\ (config.wardryx = "enforce" => e.decision = d)
  BY DEF Decided
<1>5. GateLogs'
  <2>1. ASSUME NEW d \in Clients, slot'[d].phase = "gate", NEW e \in decided' PROVE e.n # slot'[d].n
    <3>1. d # c /\ slot[d].phase = "gate" /\ slot'[d] = slot[d]
      BY <2>1
    <3>2. CASE e \in decided
      BY <2>1, <3>1, <3>2 DEF GateLogs
    <3>3. CASE e \notin decided
      BY <2>1, <3>1, <3>3
    <3> QED BY <3>2, <3>3
  <2>2. \A d \in Clients : slot'[d].phase \in {"forward", "answered"} /\ Broker!Gated(slot[d].req) => Decided(slot'[d].n, "allow")
    BY DEF GateLogs
  <2>3. \A d \in Clients : slot'[d].phase \in {"forward", "answered"} => slot'[d] = slot[d]
    OBVIOUS
  <2>4. \A x \in replies' : /\ x.error # "allow"
                            /\ x.error \in {"deny", "hold"} => \E e \in decided' : e.n = x.n /\ e.decision = x.error
    BY DEF GateLogs
  <2>5. ASSUME NEW d \in Clients, slot'[d].phase \in {"forward", "answered"}, Broker!Gated(slot[d].req)'
        PROVE  Decided(slot[d].n, "allow")'
    <3>1. slot'[d] = slot[d] /\ Broker!Gated(slot[d].req)
      BY <2>3, <2>5 DEF Broker!Gated
    <3>2. Decided(slot'[d].n, "allow")
      BY <2>2, <2>5, <3>1
    <3>3. \E e \in decided' : e.n = slot'[d].n /\ (config.wardryx = "enforce" => e.decision = "allow")
      BY <1>4, <3>2
    <3> QED BY <3>3 DEF Decided
  <2>6. ASSUME NEW w \in wire, Broker!Gated(w.req)' PROVE Decided(w.n, "allow")'
    <3>1. Broker!Gated(w.req)
      BY <2>6 DEF Broker!Gated
    <3>2. \E e \in decided' : e.n = w.n /\ (config.wardryx = "enforce" => e.decision = "allow")
      BY <1>4, <3>1 DEF GateLogs
    <3> QED BY <3>2 DEF Decided
  <2> QED BY <2>1, <2>4, <2>5, <2>6 DEF GateLogs
<1>6. CallsRouted'
  <2>1. \A d \in Clients : Active(d)' => /\ slot'[d].url \in Broker!Urls(slot'[d].req)
                                         /\ slot'[d].phase # "answered" /\ slot'[d].req.method # "call" => slot'[d].body = slot'[d].req.args
                                         /\ slot'[d].req.method # "list" => slot'[d].tools = <<>>
    BY <1>1 DEF CallsRouted
  <2> QED BY <2>1 DEF CallsRouted, Broker!Urls
<1>7. Broker!PinnedToolsOnly'
  BY DEF Broker!PinnedToolsOnly
<1> QED BY <1>3, <1>5, <1>6, <1>7

LEMMA ScanIs ==
  ASSUME NEW q
  PROVE  /\ Broker!ArgsScan(q)[1] \in {"ok", "raw_secret", "pii"}
         /\ Broker!ArgsScan(q)[1] = "ok" => \/ Broker!ArgsScan(q)[2] = q.args
                                            \/ q.method = "call" /\ Broker!ArgsScan(q)[2] = Broker!Redacted(q.args, Broker!Pii)
BY DEF Broker!ArgsScan

(* A call moves on, to where it was or beyond a gate that let it pass.     *)
LEMMA MoveKeeps ==
  ASSUME BrokerInv, NEW c \in Clients, DOMAIN slot' = Clients, UNCHANGED <<config, replies>>,
         taken' \in Nat, taken <= taken', decided \subseteq decided',
         \A d \in Clients : d # c => slot'[d] = slot[d],
         slot'[c].phase \in {"gate", "forward", "answered"}, slot'[c].n \in 1 .. taken',
         \A d \in Clients \ {c} : Active(d) => slot[d].n # slot'[c].n,
         \A e \in decided' : e \in decided \/ (e.n = slot'[c].n /\ e.n \in 1 .. taken'),
         \A e, f \in decided' : e.n = f.n => e = f,
         slot'[c].phase = "gate" => \A e \in decided' : e.n # slot'[c].n,
         slot'[c].phase # "gate" /\ Broker!Gated(slot'[c].req) =>
           \E e \in decided' : e.n = slot'[c].n /\ (config.wardryx = "enforce" => e.decision = "allow"),
         slot'[c].url \in Broker!Urls(slot'[c].req),
         slot'[c].phase # "answered" /\ slot'[c].req.method # "call" => slot'[c].body = slot'[c].req.args,
         slot'[c].req.method # "list" => slot'[c].tools = <<>>,
         \A w \in wire' : w \in wire \/ (/\ slot'[c].phase = "answered" /\ w.n = slot'[c].n /\ w.req = slot'[c].req
                                         /\ w.url = slot'[c].url /\ (w.req.method # "call" => w.body = w.req.args))
  PROVE  BrokerInv'
<1> USE DEF BrokerInv
<1>1. \A d \in Clients : d # c => (Active(d)' <=> Active(d))
  BY DEF Active
<1>2. taken \in Nat /\ \A n \in 1 .. taken : n \in 1 .. taken'
  BY DEF CallsNumbered
<1>3. CallsNumbered'
  <2>1. \A d \in Clients : Active(d)' => slot'[d].n \in 1 .. taken'
    BY <1>1, <1>2 DEF CallsNumbered
  <2>2. \A d, e \in Clients : Active(d)' /\ Active(e)' /\ slot'[d].n = slot'[e].n => d = e
    BY <1>1 DEF CallsNumbered
  <2>3. \A e \in decided' : e.n \in 1 .. taken'
    BY <1>2 DEF CallsNumbered
  <2> QED BY <2>1, <2>2, <2>3 DEF CallsNumbered
<1>4. \A n, d : Decided(n, d) => \E e \in decided' : e.n = n /\ (config.wardryx = "enforce" => e.decision = d)
  BY DEF Decided
<1>5. GateLogs'
  <2>1. ASSUME NEW d \in Clients, slot'[d].phase = "gate" PROVE \A e \in decided' : e.n # slot'[d].n
    <3>1. CASE d = c
      BY <2>1, <3>1
    <3>2. CASE d # c
      BY <2>1, <3>2 DEF GateLogs, Active
    <3> QED BY <3>1, <3>2
  <2>2. ASSUME NEW d \in Clients, slot'[d].phase \in {"forward", "answered"}, Broker!Gated(slot[d].req)'
        PROVE  Decided(slot[d].n, "allow")'
    <3>1. Broker!Gated(slot'[d].req)
      BY <2>2 DEF Broker!Gated
    <3>2. \E e \in decided' : e.n = slot'[d].n /\ (config.wardryx = "enforce" => e.decision = "allow")
      <4>1. CASE d = c
        BY <2>2, <3>1, <4>1
      <4>2. CASE d # c
        <5>1. Decided(slot'[d].n, "allow")
          BY <2>2, <3>1, <4>2 DEF GateLogs
        <5> QED BY <1>4, <5>1
      <4> QED BY <4>1, <4>2
    <3> QED BY <3>2 DEF Decided
  <2>3. ASSUME NEW w \in wire', Broker!Gated(w.req)' PROVE Decided(w.n, "allow")'
    <3>1. Broker!Gated(w.req)
      BY <2>3 DEF Broker!Gated
    <3>2. \E e \in decided' : e.n = w.n /\ (config.wardryx = "enforce" => e.decision = "allow")
      <4>1. CASE w \in wire
        BY <1>4, <3>1, <4>1 DEF GateLogs
      <4>2. CASE w \notin wire
        BY <3>1, <4>2
      <4> QED BY <4>1, <4>2
    <3> QED BY <3>2 DEF Decided
  <2>4. \A x \in replies : /\ x.error # "allow"
                           /\ x.error \in {"deny", "hold"} => \E e \in decided' : e.n = x.n /\ e.decision = x.error
    BY DEF GateLogs
  <2> QED BY <2>1, <2>2, <2>3, <2>4 DEF GateLogs
<1>6. CallsRouted'
  <2>1. \A d \in Clients : Active(d)' => /\ slot'[d].url \in Broker!Urls(slot'[d].req)
                                         /\ slot'[d].phase # "answered" /\ slot'[d].req.method # "call" => slot'[d].body = slot'[d].req.args
                                         /\ slot'[d].req.method # "list" => slot'[d].tools = <<>>
    BY <1>1 DEF CallsRouted
  <2>2. \A w \in wire' : w.url \in Broker!Urls(w.req) /\ (w.req.method # "call" => w.body = w.req.args)
    BY DEF CallsRouted
  <2> QED BY <2>1, <2>2 DEF CallsRouted, Broker!Urls
<1>7. Broker!PinnedToolsOnly'
  BY DEF Broker!PinnedToolsOnly
<1> QED BY <1>3, <1>5, <1>6, <1>7

LEMMA BrokerReceives ==
  ASSUME BrokerInv, NEW c \in Clients, NEW q \in Rpcs, Broker!Receive(c, q)
  PROVE  BrokerInv'
<1> DEFINE sift == Broker!ArgsScan(q)
<1>1. /\ taken \in Nat /\ taken' = taken + 1 /\ UNCHANGED <<config, wire, decided>> /\ DOMAIN slot = Clients
  BY DEF Broker!Receive, BrokerInv, CallsNumbered
<1>a. PICK n : n = taken'
  OBVIOUS
<1>2. n \in Nat /\ n = taken' /\ taken <= n /\ n \in 1 .. n /\ \A m \in 1 .. taken : m # n
  BY <1>1, <1>a
<1>3. CASE \E error \in {"unknown_upstream", "raw_secret", "pii"} : Broker!Refuse(c, n, q, error)
  <2>1. PICK error \in {"unknown_upstream", "raw_secret", "pii"} : Broker!Refuse(c, n, q, error)
    BY <1>3
  <2>2. PICK r : /\ replies' = replies \cup {r} /\ r.error = error /\ r.tools = <<>>
                 /\ DOMAIN slot' = Clients /\ slot'[c].phase = "idle" /\ \A d \in Clients : d # c => slot'[d] = slot[d]
    <3> DEFINE r == [n |-> n, req |-> q, error |-> error, body |-> <<>>, tools |-> <<>>, note |-> ""]
    <3>1. /\ replies' = replies \cup {r} /\ r.error = error /\ r.tools = <<>>
          /\ slot' = [slot EXCEPT ![c] = Broker!Idle]
      BY <2>1 DEF Broker!Refuse, Broker!Respond
    <3>2. DOMAIN slot' = Clients /\ slot'[c].phase = "idle" /\ \A d \in Clients : d # c => slot'[d] = slot[d]
      BY <1>1, <3>1 DEF Broker!Idle
    <3> QED BY <3>1, <3>2
  <2>3. DOMAIN r.tools = {}
    BY <2>2
  <2>4. error \notin {"allow", "deny", "hold"}
    OBVIOUS
  <2>5. \A e, f \in decided : e.n = f.n => e = f
    BY DEF BrokerInv, CallsNumbered
  <2>6. \A t \in DOMAIN r.tools : FALSE
    BY <2>3
  <2>7. UNCHANGED <<config, wire>> /\ taken' \in Nat /\ taken <= taken' /\ decided' = decided /\ r.error \notin {"allow", "deny", "hold"}
    BY <1>1, <1>2, <2>2, <2>4
  <2>8. config.scan = "block" => /\ \A l \in config.lock : \A t \in DOMAIN r.tools \cap DOMAIN l : r.tools[t] = l[t]
                                 /\ \A t \in DOMAIN r.tools : r.tools[t] \notin Poisoned
    BY <2>6
  <2> QED BY <2>2, <2>5, <2>7, <2>8, EndKeeps
<1>4. CASE /\ UNCHANGED replies /\ sift[1] = "ok"
           /\ \E url \in Broker!Urls(q) : Broker!Goes(c, IF Broker!Gated(q) THEN "gate" ELSE "forward", n, q, url, sift[2], "", <<>>)
  <2> DEFINE phase == IF Broker!Gated(q) THEN "gate" ELSE "forward"
             body == sift[2]
             none == <<>>
             would == ""
  <2>1. PICK url : url \in Broker!Urls(q) /\ Broker!Goes(c, phase, n, q, url, body, would, none)
    BY <1>4
  <2>2. phase \in {"gate", "forward"} /\ (phase = "gate" <=> Broker!Gated(q))
    OBVIOUS
  <2>3. (q.method # "call" => body = q.args) /\ none = <<>>
    BY <1>4, ScanIs
  <2> HIDE DEF phase, sift, body, none, would
  <2>4. /\ DOMAIN slot' = Clients /\ \A d \in Clients : d # c => slot'[d] = slot[d]
        /\ slot'[c].phase = phase /\ slot'[c].n = n /\ slot'[c].req = q /\ slot'[c].url = url
        /\ slot'[c].body = body /\ slot'[c].tools = none
    <3> DEFINE new == [phase |-> phase, n |-> n, req |-> q, url |-> url, body |-> body, would |-> would, tools |-> none]
    <3>1. slot' = [slot EXCEPT ![c] = new]
      BY <2>1 DEF Broker!Goes
    <3>2. new.phase = phase /\ new.n = n /\ new.req = q /\ new.url = url /\ new.body = body /\ new.tools = none
      OBVIOUS
    <3> HIDE DEF new
    <3>3. DOMAIN slot' = Clients /\ slot'[c] = new /\ \A d \in Clients : d # c => slot'[d] = slot[d]
      BY <1>1, <3>1
    <3> QED BY <3>2, <3>3
  <2>5. \A e \in decided : e.n # n
    BY <1>2 DEF BrokerInv, CallsNumbered
  <2>6. \A d \in Clients : Active(d) => slot[d].n # n
    BY <1>2 DEF BrokerInv, CallsNumbered
  <2>7. \A e, f \in decided : e.n = f.n => e = f
    BY DEF BrokerInv, CallsNumbered
  <2>8. /\ slot'[c].phase \in {"gate", "forward", "answered"} /\ slot'[c].n \in 1 .. taken' /\ slot'[c].url \in Broker!Urls(slot'[c].req)
        /\ slot'[c].phase = "gate" => \A e \in decided' : e.n # slot'[c].n
        /\ slot'[c].phase = "gate" <=> Broker!Gated(slot'[c].req)
        /\ \A d \in Clients \ {c} : Active(d) => slot[d].n # slot'[c].n
    BY <1>1, <1>2, <2>1, <2>2, <2>4, <2>5, <2>6
  <2> QED BY <1>1, <1>2, <1>4, <2>3, <2>4, <2>7, <2>8, MoveKeeps
<1> QED BY <1>2, <1>3, <1>4, ScanIs DEF Broker!Receive

LEMMA BrokerForwards ==
  ASSUME BrokerInv, NEW c \in Clients, Broker!Forward(c)
  PROVE  BrokerInv'
<1> DEFINE s == slot[c]
           body == IF s.req.method = "call" THEN Broker!InjectSecrets(s.body) ELSE s.body
           tools == IF s.req.method = "list" THEN listed ELSE <<>>
<1>1. /\ s.phase = "forward" /\ UNCHANGED <<config, decided, replies, taken>>
      /\ wire' = wire \cup {[n |-> s.n, url |-> s.url, req |-> s.req, body |-> body]}
      /\ \E echo \in {<<>>, body}, own \in Own : Broker!Goes(c, "answered", s.n, s.req, s.url, echo \o own, s.would, tools)
  BY DEF Broker!Forward
<1>2. DOMAIN slot = Clients /\ taken \in Nat /\ Active(c)
  BY <1>1 DEF BrokerInv, CallsNumbered, Active
<1>3. /\ s.req.method # "call" => body = s.req.args
      /\ s.req.method # "list" => tools = <<>>
      /\ s.url \in Broker!Urls(s.req)
  BY <1>1, <1>2 DEF BrokerInv, CallsRouted
<1>4. /\ s.n \in 1 .. taken /\ \A d \in Clients \ {c} : Active(d) => slot[d].n # s.n
      /\ \A e, f \in decided : e.n = f.n => e = f
      /\ Broker!Gated(s.req) => \E e \in decided : e.n = s.n /\ (config.wardryx = "enforce" => e.decision = "allow")
  BY <1>1, <1>2 DEF BrokerInv, CallsNumbered, GateLogs, Decided
<1> HIDE DEF body, tools
<1>5. \E answer : Broker!Goes(c, "answered", s.n, s.req, s.url, answer, s.would, tools)
  BY <1>1
<1>6. PICK answer : Broker!Goes(c, "answered", s.n, s.req, s.url, answer, s.would, tools)
  BY <1>5
<1>7. /\ DOMAIN slot' = Clients /\ \A d \in Clients : d # c => slot'[d] = slot[d]
      /\ slot'[c] = [phase |-> "answered", n |-> s.n, req |-> s.req, url |-> s.url, body |-> answer, would |-> s.would, tools |-> tools]
  BY <1>2, <1>6, GoesIs
<1>8. \A w \in wire' : w \in wire \/ (w.n = s.n /\ w.req = s.req /\ w.url = s.url /\ w.body = body)
  BY <1>1
<1>9. taken' \in Nat /\ taken <= taken'
  BY <1>1, <1>2
<1> HIDE DEF s
<1> QED BY <1>1, <1>3, <1>4, <1>7, <1>8, <1>9, MoveKeeps

(* A reply without tools satisfies the pin check.                          *)
LEMMA RefusalEnds ==
  ASSUME BrokerInv, NEW c \in Clients, NEW n, NEW q, NEW error, Broker!Refuse(c, n, q, error), UNCHANGED <<config, wire, taken>>,
         decided \subseteq decided',
         \A e \in decided' : \/ e \in decided
                           \/ /\ e.n \in 1 .. taken'
                              /\ \A d \in Clients \ {c} : slot[d].phase = "gate" => slot[d].n # e.n,
         \A e, f \in decided' : e.n = f.n => e = f,
         error # "allow",
         error \in {"deny", "hold"} => \E e \in decided' : e.n = n /\ e.decision = error
  PROVE  BrokerInv'
<1>1. taken \in Nat /\ DOMAIN slot = Clients
  BY DEF BrokerInv, CallsNumbered
<1> DEFINE r == [n |-> n, req |-> q, error |-> error, body |-> <<>>, tools |-> <<>>, note |-> ""]
<1>2. r.n = n /\ r.error = error /\ r.tools = <<>>
  OBVIOUS
<1>3. DOMAIN slot' = Clients /\ slot'[c].phase = "idle" /\ \A d \in Clients : d # c => slot'[d] = slot[d]
  BY <1>1, RefuseIs
<1>4. replies' = replies \cup {r}
  BY DEF Broker!Refuse, Broker!Respond
<1> HIDE DEF r
<1>5. DOMAIN r.tools = {}
  BY <1>2
<1>6. config.scan = "block" => /\ \A l \in config.lock : \A t \in DOMAIN r.tools \cap DOMAIN l : r.tools[t] = l[t]
                               /\ \A t \in DOMAIN r.tools : r.tools[t] \notin Poisoned
  BY <1>5
<1>7. taken' \in Nat /\ taken <= taken'
  BY <1>1
<1> QED BY <1>2, <1>3, <1>4, <1>6, <1>7, EndKeeps

LEMMA BrokerDecides ==
  ASSUME BrokerInv, NEW c \in Clients, Broker!Decide(c)
  PROVE  BrokerInv'
<1> DEFINE s == slot[c]
           d == Broker!Verdict(s.req.tool)
           would == IF config.wardryx = "shadow" THEN d ELSE ""
           none == <<>>
<1>1. /\ s.phase = "gate" /\ UNCHANGED <<config, wire, taken>>
      /\ \E emission : decided' = decided \cup {[n |-> s.n, decision |-> d, emission |-> emission]}
      /\ \/ config.wardryx = "enforce" /\ d # "allow" /\ Broker!Refuse(c, s.n, s.req, d)
         \/ /\ config.wardryx = "enforce" => d = "allow"
            /\ Broker!Goes(c, "forward", s.n, s.req, s.url, s.body, would, none) /\ UNCHANGED replies
  BY DEF Broker!Decide
<1>2. PICK ev : decided' = decided \cup {ev} /\ ev.n = s.n /\ ev.decision = d
  <2>1. PICK emission : decided' = decided \cup {[n |-> s.n, decision |-> d, emission |-> emission]}
    BY <1>1
  <2> DEFINE new == [n |-> s.n, decision |-> d, emission |-> emission]
  <2>2. decided' = decided \cup {new} /\ new.n = s.n /\ new.decision = d
    BY <2>1
  <2> HIDE DEF new
  <2> QED BY <2>2
<1>3. none = <<>>
  OBVIOUS
<1>4. d \in {"deny", "hold", "allow"}
  BY DEF Broker!Verdict
<1> HIDE DEF d, would, none
<1>5. Active(c) /\ DOMAIN slot = Clients /\ taken \in Nat
  BY <1>1 DEF Active, BrokerInv, CallsNumbered
<1>6. /\ s.n \in 1 .. taken /\ \A b \in Clients \ {c} : Active(b) => slot[b].n # s.n
      /\ s.url \in Broker!Urls(s.req)
      /\ s.req.method # "call" => s.body = s.req.args
      /\ \A e \in decided : e.n # s.n
      /\ \A e, f \in decided : e.n = f.n => e = f
  BY <1>1, <1>5 DEF BrokerInv, CallsNumbered, CallsRouted, GateLogs
<1>7. \A e, f \in decided' : e.n = f.n => e = f
  BY <1>1, <1>2, <1>6
<1>8. CASE config.wardryx = "enforce" /\ d # "allow" /\ Broker!Refuse(c, s.n, s.req, d)
  <2>1. \A e \in decided' : \/ e \in decided
                          \/ /\ e.n \in 1 .. taken'
                             /\ \A b \in Clients \ {c} : slot[b].phase = "gate" => slot[b].n # e.n
    BY <1>1, <1>2, <1>6 DEF Active
  <2>2. \E e \in decided' : e.n = s.n /\ e.decision = d
    BY <1>1, <1>2
  <2>3. decided \subseteq decided' /\ UNCHANGED <<config, wire, taken>>
    BY <1>1, <1>2
  <2> HIDE DEF s
  <2> QED BY <1>7, <1>8, <2>1, <2>2, <2>3, RefusalEnds
<1>9. CASE /\ config.wardryx = "enforce" => d = "allow"
           /\ Broker!Goes(c, "forward", s.n, s.req, s.url, s.body, would, none) /\ UNCHANGED replies
  <2> HIDE DEF s
  <2>1. /\ DOMAIN slot' = Clients /\ \A b \in Clients : b # c => slot'[b] = slot[b]
        /\ slot'[c].phase = "forward" /\ slot'[c].n = s.n /\ slot'[c].req = s.req /\ slot'[c].url = s.url
        /\ slot'[c].body = s.body /\ slot'[c].tools = none
    <3> DEFINE new == [phase |-> "forward", n |-> s.n, req |-> s.req, url |-> s.url, body |-> s.body, would |-> would, tools |-> none]
    <3>1. slot' = [slot EXCEPT ![c] = new]
      BY <1>9 DEF Broker!Goes
    <3>2. new.phase = "forward" /\ new.n = s.n /\ new.req = s.req /\ new.url = s.url /\ new.body = s.body /\ new.tools = none
      OBVIOUS
    <3> HIDE DEF new
    <3>3. DOMAIN slot' = Clients /\ slot'[c] = new /\ \A b \in Clients : b # c => slot'[b] = slot[b]
      BY <1>5, <3>1
    <3> QED BY <3>2, <3>3
  <2>2. taken' \in Nat /\ taken <= taken' /\ UNCHANGED <<config, replies>> /\ decided \subseteq decided' /\ wire' = wire
    BY <1>1, <1>2, <1>5, <1>9
  <2>3. \A e \in decided' : e \in decided \/ (e.n = slot'[c].n /\ e.n \in 1 .. taken')
    BY <1>1, <1>2, <1>6, <2>1
  <2>4. \E e \in decided' : e.n = slot'[c].n /\ (config.wardryx = "enforce" => e.decision = "allow")
    BY <1>1, <1>2, <1>9, <2>1
  <2>5. slot'[c].n \in 1 .. taken' /\ \A b \in Clients \ {c} : Active(b) => slot[b].n # slot'[c].n
    BY <1>1, <1>6, <2>1
  <2>6. /\ slot'[c].url \in Broker!Urls(slot'[c].req) /\ slot'[c].tools = <<>>
        /\ slot'[c].req.method # "call" => slot'[c].body = slot'[c].req.args
    BY <1>3, <1>6, <2>1
  <2> QED BY <1>7, <2>1, <2>2, <2>3, <2>4, <2>5, <2>6, MoveKeeps
<1> QED BY <1>1, <1>8, <1>9

LEMMA BrokerErrors ==
  ASSUME BrokerInv, NEW c \in Clients, Broker!UpstreamError(c)
  PROVE  BrokerInv'
<1>1. Broker!Refuse(c, slot[c].n, slot[c].req, "upstream_error") /\ UNCHANGED <<config, wire, taken, decided>>
  BY DEF Broker!UpstreamError
<1>2. \A e, f \in decided : e.n = f.n => e = f
  BY DEF BrokerInv, CallsNumbered
<1> QED BY <1>1, <1>2, RefusalEnds

LEMMA BrokerReturns ==
  ASSUME BrokerInv, NEW c \in Clients, Broker!Return(c)
  PROVE  BrokerInv'
<1> DEFINE s == slot[c]
           note == IF s.would # "" THEN s.would ELSE IF Broker!Suspect(s) # {} THEN "findings" ELSE ""
           body == Broker!ResponseBody(s)
<1>1. /\ s.phase = "answered" /\ UNCHANGED <<config, wire, taken, decided>>
      /\ \/ \E error \in {"changed_tools", "poisoned_tools", "pii_in_response"} : Broker!Refuse(c, s.n, s.req, error)
         \/ /\ config.scan = "block" => Broker!Drift(s) = {} /\ Broker!Suspect(s) = {}
            /\ Broker!Respond(s.n, s.req, "", body, s.tools, note)
            /\ slot' = [slot EXCEPT ![c] = Broker!Idle]
  BY DEF Broker!Return
<1>2. Active(c) /\ DOMAIN slot = Clients /\ taken \in Nat
  BY <1>1 DEF Active, BrokerInv, CallsNumbered
<1>3. /\ s.n \in 1 .. taken
      /\ s.req.method # "list" => s.tools = <<>>
  BY <1>2 DEF BrokerInv, CallsNumbered, CallsRouted
<1>4. \A e, f \in decided : e.n = f.n => e = f
  BY DEF BrokerInv, CallsNumbered
<1>6. CASE \E error \in {"changed_tools", "poisoned_tools", "pii_in_response"} : Broker!Refuse(c, s.n, s.req, error)
  <2> HIDE DEF s
  <2> QED BY <1>1, <1>4, <1>6, RefusalEnds
<1>7. CASE /\ config.scan = "block" => Broker!Drift(s) = {} /\ Broker!Suspect(s) = {}
           /\ Broker!Respond(s.n, s.req, "", body, s.tools, note)
           /\ slot' = [slot EXCEPT ![c] = Broker!Idle]
  <2>1. config.scan = "block" => /\ \A l \in config.lock : \A t \in DOMAIN s.tools \cap DOMAIN l : s.tools[t] = l[t]
                                 /\ \A t \in DOMAIN s.tools : s.tools[t] \notin Poisoned
    <3>1. CASE s.req.method = "list"
      <4> SUFFICES ASSUME config.scan = "block"
                   PROVE  /\ \A l \in config.lock : \A t \in DOMAIN s.tools \cap DOMAIN l : s.tools[t] = l[t]
                          /\ \A t \in DOMAIN s.tools : s.tools[t] \notin Poisoned
        OBVIOUS
      <4>1. config.scan # "off" /\ Broker!Drift(s) = {} /\ Broker!Suspect(s) = {}
        BY <1>7
      <4>2. \A l \in config.lock : Broker!Changed(s.tools, l) \subseteq Broker!Drift(s)
        BY <3>1, <4>1 DEF Broker!Drift
      <4>3. \A l \in config.lock : \A t : t \notin Broker!Changed(s.tools, l)
        BY <4>1, <4>2
      <4>4. Broker!ScanInjection(s.tools) = {}
        BY <3>1, <4>1 DEF Broker!Suspect
      <4> HIDE DEF s
      <4>5. \A l \in config.lock : \A t \in DOMAIN s.tools \cap DOMAIN l : s.tools[t] = l[t]
        BY <4>3 DEF Broker!Changed
      <4>6. \A t \in DOMAIN s.tools : s.tools[t] \notin Poisoned
        BY <4>4 DEF Broker!ScanInjection
      <4> QED BY <4>5, <4>6
    <3>2. CASE s.req.method # "list"
      <4>1. DOMAIN s.tools = {}
        BY <1>3, <3>2
      <4> QED BY <4>1
    <3> QED BY <3>1, <3>2
  <2> HIDE DEF s, body, note
  <2>2. PICK r : replies' = replies \cup {r} /\ r.error = "" /\ r.tools = s.tools
    <3> DEFINE new == [n |-> s.n, req |-> s.req, error |-> "", body |-> body, tools |-> s.tools, note |-> note]
    <3>1. replies' = replies \cup {new} /\ new.error = "" /\ new.tools = s.tools
      BY <1>7 DEF Broker!Respond
    <3> QED BY <3>1
  <2>3. DOMAIN slot' = Clients /\ slot'[c].phase = "idle" /\ \A d \in Clients : d # c => slot'[d] = slot[d]
    BY <1>2, <1>7 DEF Broker!Idle
  <2>4. taken' \in Nat /\ taken <= taken' /\ UNCHANGED <<config, wire, decided>>
    <3>1. UNCHANGED <<config, wire, taken, decided>>
      BY <1>1
    <3> QED BY <1>2, <3>1
  <2>5. r.error # "allow" /\ r.error \notin {"deny", "hold"}
    BY <2>2
  <2>6. config.scan = "block" => /\ \A l \in config.lock : \A t \in DOMAIN r.tools \cap DOMAIN l : r.tools[t] = l[t]
                                 /\ \A t \in DOMAIN r.tools : r.tools[t] \notin Poisoned
    BY <2>1, <2>2
  <2> QED BY <1>4, <2>2, <2>3, <2>4, <2>5, <2>6, EndKeeps
<1> QED BY <1>1, <1>6, <1>7

LEMMA BrokerInvNext == BrokerInv /\ [Broker!Next]_Broker!vars => BrokerInv'
<1> SUFFICES ASSUME BrokerInv, [Broker!Next]_Broker!vars PROVE BrokerInv'
  OBVIOUS
<1>1. ASSUME NEW c \in Clients, Broker!Decide(c) PROVE BrokerInv'
  BY <1>1, BrokerDecides
<1>2. ASSUME NEW c \in Clients, Broker!Forward(c) PROVE BrokerInv'
  BY <1>2, BrokerForwards
<1>3. ASSUME NEW c \in Clients, Broker!UpstreamError(c) PROVE BrokerInv'
  BY <1>3, BrokerErrors
<1>4. ASSUME NEW c \in Clients, Broker!Return(c) PROVE BrokerInv'
  BY <1>4, BrokerReturns
<1>5. ASSUME NEW c \in Clients, NEW q \in Rpcs, Broker!Receive(c, q) PROVE BrokerInv'
  BY <1>5, BrokerReceives
<1>6. CASE UNCHANGED <<config, slot, wire, decided, replies, taken>>
  <2>1. CallsNumbered' /\ Broker!PinnedToolsOnly'
    BY <1>6 DEF BrokerInv, CallsNumbered, Active, Broker!PinnedToolsOnly
  <2>2. (\A n, d : Decided(n, d)' <=> Decided(n, d)) /\ (\A q : Broker!Gated(q)' <=> Broker!Gated(q))
    BY <1>6 DEF Decided, Broker!Gated
  <2>3. GateLogs'
    BY <1>6, <2>2 DEF BrokerInv, GateLogs
  <2>4. CallsRouted'
    BY <1>6 DEF BrokerInv, CallsRouted, Active, Broker!Urls
  <2> QED BY <2>1, <2>3, <2>4 DEF BrokerInv
<1>7. (\E l \in ToolLists : Broker!ChangeTools(l)) \/ (\E p \in ToolPolicies : Broker!ChangePolicy(p)) \/ UNCHANGED Broker!vars
      => UNCHANGED <<config, slot, wire, decided, replies, taken>>
  BY DEF Broker!ChangeTools, Broker!ChangePolicy, Broker!vars
<1> QED BY <1>1, <1>2, <1>3, <1>4, <1>5, <1>6, <1>7 DEF Broker!Next

(* The events.                                                             *)
LEMMA EventsDecided ==
  ASSUME BrokerInv, EventsTold, NEW c \in Clients, Broker!Decide(c)
  PROVE  EventsTold'
<1> DEFINE s == slot[c]
           d == Broker!Verdict(s.req.tool)
           ev == Broker!ToolCallEvent(s, d)
<1>1. /\ s.phase = "gate"
      /\ \E emission : /\ decided' = decided \cup {[n |-> s.n, decision |-> d, emission |-> emission]}
                       /\ audit' = IF emission = "written" THEN audit \cup {ev} ELSE audit
  BY DEF Broker!Decide
<1>2. PICK new : /\ decided' = decided \cup {new} /\ new.n = s.n /\ new.decision = d
                 /\ audit' = IF new.emission = "written" THEN audit \cup {ev} ELSE audit
  <2>1. PICK emission : /\ decided' = decided \cup {[n |-> s.n, decision |-> d, emission |-> emission]}
                        /\ audit' = IF emission = "written" THEN audit \cup {ev} ELSE audit
    BY <1>1
  <2> DEFINE x == [n |-> s.n, decision |-> d, emission |-> emission]
  <2>2. decided' = decided \cup {x} /\ x.n = s.n /\ x.decision = d /\ x.emission = emission
    BY <2>1
  <2> HIDE DEF x, ev
  <2>3. audit' = IF x.emission = "written" THEN audit \cup {ev} ELSE audit
    BY <2>1, <2>2
  <2> QED BY <2>2, <2>3
<1>3. ev.n = s.n /\ ev.decision = d /\ ev.type = "tool_call"
  BY DEF Broker!ToolCallEvent
<1>4. \A e \in decided : e.n # s.n
  BY <1>1 DEF BrokerInv, GateLogs
<1>5. Broker!Events(s.n) = {}
  BY <1>4 DEF EventsTold
<1> HIDE DEF s, d, ev
<1>a. PICK m : m = s.n
  OBVIOUS
<1>6. \A n : n # m => Broker!Events(n)' = Broker!Events(n)
  BY <1>2, <1>3, <1>a DEF Broker!Events
<1>7. Broker!Events(m)' = IF new.emission = "written" THEN {ev} ELSE {}
  BY <1>2, <1>3, <1>5, <1>a DEF Broker!Events
<1>8. ASSUME NEW x \in decided'
      PROVE  IF x.emission = "written" THEN \E e \in audit' : Broker!Events(x.n)' = {e} /\ e.decision = x.decision
             ELSE Broker!Events(x.n)' = {}
  <2>1. CASE x \in decided
    <3>1. Broker!Events(x.n)' = Broker!Events(x.n)
      BY <1>4, <1>6, <1>a, <2>1
    <3>2. audit \subseteq audit'
      BY <1>2
    <3> QED BY <2>1, <3>1, <3>2 DEF EventsTold
  <2>2. CASE x = new
    <3>1. new.emission = "written" => ev \in audit'
      BY <1>2
    <3> QED BY <1>2, <1>3, <1>7, <1>a, <2>2, <3>1
  <2> QED BY <1>2, <2>1, <2>2
<1>9. ASSUME NEW n, Broker!Events(n)' # {} PROVE \E x \in decided' : x.n = n
  <2>1. CASE n = m
    BY <1>2, <1>a, <2>1
  <2>2. CASE n # m
    BY <1>2, <1>6, <1>9, <2>2 DEF EventsTold
  <2> QED BY <2>1, <2>2
<1> QED BY <1>8, <1>9 DEF EventsTold

LEMMA EventsStay ==
  ASSUME EventsTold, UNCHANGED decided, audit \subseteq audit', \A e \in audit' \ audit : e.type # "tool_call"
  PROVE  EventsTold'
<1>1. \A n : Broker!Events(n)' = Broker!Events(n)
  BY DEF Broker!Events
<1> QED BY <1>1 DEF EventsTold

LEMMA EventsNext == BrokerInv /\ EventsTold /\ [Broker!Next]_Broker!vars => EventsTold'
<1> SUFFICES ASSUME BrokerInv, EventsTold, [Broker!Next]_Broker!vars PROVE EventsTold'
  OBVIOUS
<1>1. ASSUME NEW c \in Clients, Broker!Decide(c) PROVE EventsTold'
  BY <1>1, EventsDecided
<1>2. ASSUME NEW c \in Clients, Broker!Return(c) PROVE EventsTold'
  <2> DEFINE ev == [type |-> "mcp_drift", n |-> slot[c].n, agent |-> slot[c].req.agent, tools |-> Broker!Drift(slot[c])]
  <2>1. UNCHANGED decided /\ (audit' = audit \/ audit' = audit \cup {ev})
    BY <1>2 DEF Broker!Return
  <2>2. ev.type # "tool_call"
    OBVIOUS
  <2> HIDE DEF ev
  <2> QED BY <2>1, <2>2, EventsStay
<1>3. CASE UNCHANGED <<decided, audit>>
  BY <1>3, EventsStay
<1>4. ASSUME NEW c \in Clients, \/ Broker!Forward(c) \/ Broker!UpstreamError(c) \/ \E q \in Rpcs : Broker!Receive(c, q)
      PROVE  UNCHANGED <<decided, audit>>
  BY <1>4 DEF Broker!Forward, Broker!UpstreamError, Broker!Receive
<1>5. (\E l \in ToolLists : Broker!ChangeTools(l)) \/ (\E p \in ToolPolicies : Broker!ChangePolicy(p)) \/ UNCHANGED Broker!vars
      => UNCHANGED <<decided, audit>>
  BY DEF Broker!ChangeTools, Broker!ChangePolicy, Broker!vars
<1> QED BY <1>1, <1>2, <1>3, <1>4, <1>5 DEF Broker!Next

(* Redaction, of whatever a server answers.                                *)
Clean(body) ==
  /\ config.dlp # "off" /\ Broker!Has(body, {"secret"}) => config.pii = "mask" /\ Broker!Has(body, {"number"})
  /\ config.pii = "mask" /\ Broker!Has(body, Broker!Pii) => Broker!Has(body, {"number"})
  /\ config.pii = "block" => ~Broker!Has(body, Broker!Pii)

LEMMA RedactedClean ==
  ASSUME NEW s, config.pii = "block" => ~Broker!Has(s.body, Broker!Pii)
  PROVE  Clean(Broker!ResponseBody(s))
<1> DEFINE kinds == (IF config.dlp # "off" THEN {"secret"} ELSE {}) \cup (IF config.pii = "mask" THEN Broker!Pii ELSE {})
           body == s.body
<1>1. Broker!ResponseBody(s) = Broker!Redacted(body, kinds)
  BY DEF Broker!ResponseBody
<1>2. /\ "secret" \in kinds <=> config.dlp # "off"
      /\ "number" \in kinds <=> config.pii = "mask"
      /\ "pii" \in kinds <=> config.pii = "mask"
  BY DEF Broker!Pii
<1> HIDE DEF body, kinds
<1>3. CASE "number" \in kinds /\ Broker!Has(body, {"number"})
  <2>1. Broker!Redacted(body, kinds) = body
    BY <1>3 DEF Broker!Redacted
  <2>2. config.pii = "mask"
    BY <1>2, <1>3
  <2> QED BY <1>1, <1>3, <2>1, <2>2 DEF Clean
<1>4. CASE ~("number" \in kinds /\ Broker!Has(body, {"number"}))
  <2> DEFINE red == Broker!Redacted(body, kinds)
  <2>1. /\ DOMAIN red = DOMAIN body
        /\ \A i \in DOMAIN body : red[i].kind = IF body[i].kind \in kinds THEN "redacted" ELSE body[i].kind
    BY <1>4 DEF Broker!Redacted
  <2> HIDE DEF red
  <2>2. \A k \in {"secret", "pii", "number"} : Broker!Has(red, {k}) => k \notin kinds /\ Broker!Has(body, {k})
    BY <2>1 DEF Broker!Has
  <2>3. Broker!Has(red, Broker!Pii) => Broker!Has(red, {"pii"}) \/ Broker!Has(red, {"number"})
    BY DEF Broker!Has, Broker!Pii
  <2>4. \A k \in Broker!Pii : Broker!Has(body, {k}) => Broker!Has(body, Broker!Pii)
    BY DEF Broker!Has
  <2>5. config.pii = "mask" => ~Broker!Has(red, Broker!Pii)
    BY <1>2, <2>2, <2>3
  <2>6. config.pii = "block" => ~Broker!Has(red, Broker!Pii)
    BY <2>2, <2>3, <2>4 DEF Broker!Pii, body
  <2>7. config.dlp # "off" => ~Broker!Has(red, {"secret"})
    BY <1>2, <2>2
  <2>8. Clean(red)
    BY <2>5, <2>6, <2>7 DEF Clean
  <2> QED BY <1>1, <2>8 DEF red
<1> QED BY <1>3, <1>4

LEMMA RepliesClean ==
  ASSUME Broker!ResponsesRedacted, UNCHANGED config, NEW r, replies' = replies \cup {r}, Clean(r.body)
  PROVE  Broker!ResponsesRedacted'
BY DEF Broker!ResponsesRedacted, Clean, Broker!Has, Broker!Pii

LEMMA RefusesClean ==
  ASSUME Broker!ResponsesRedacted, NEW c, NEW n, NEW q, NEW error, Broker!Refuse(c, n, q, error), UNCHANGED config
  PROVE  Broker!ResponsesRedacted'
<1> DEFINE r == [n |-> n, req |-> q, error |-> error, body |-> <<>>, tools |-> <<>>, note |-> ""]
<1>1. r.body = <<>> /\ replies' = replies \cup {r}
  BY DEF Broker!Refuse, Broker!Respond
<1> HIDE DEF r
<1>2. Clean(r.body)
  BY <1>1 DEF Clean, Broker!Has
<1> QED BY <1>1, <1>2, RepliesClean

LEMMA CleanNext == Broker!ResponsesRedacted /\ [Broker!Next]_Broker!vars => Broker!ResponsesRedacted'
<1> SUFFICES ASSUME Broker!ResponsesRedacted, [Broker!Next]_Broker!vars PROVE Broker!ResponsesRedacted'
  OBVIOUS
<1>1. CASE UNCHANGED <<config, replies>>
  BY <1>1 DEF Broker!ResponsesRedacted, Broker!Has, Broker!Pii
<1>2. ASSUME NEW c, NEW n, NEW q, NEW error, Broker!Refuse(c, n, q, error), UNCHANGED config PROVE Broker!ResponsesRedacted'
  BY <1>2, RefusesClean
<1>3. ASSUME NEW c \in Clients, NEW q \in Rpcs, Broker!Receive(c, q)
      PROVE  UNCHANGED config /\ (UNCHANGED replies \/ \E error : Broker!Refuse(c, taken', q, error))
  BY <1>3 DEF Broker!Receive
<1>4. ASSUME NEW c \in Clients, Broker!Decide(c)
      PROVE  UNCHANGED config /\ (UNCHANGED replies \/ \E error : Broker!Refuse(c, slot[c].n, slot[c].req, error))
  BY <1>4 DEF Broker!Decide
<1>5. ASSUME NEW c \in Clients, Broker!UpstreamError(c)
      PROVE  UNCHANGED config /\ \E error : Broker!Refuse(c, slot[c].n, slot[c].req, error)
  BY <1>5 DEF Broker!UpstreamError
<1>6. ASSUME NEW c \in Clients, Broker!Forward(c) PROVE UNCHANGED <<config, replies>>
  BY <1>6 DEF Broker!Forward
<1>7. ASSUME NEW c \in Clients, Broker!Return(c) PROVE Broker!ResponsesRedacted'
  <2> DEFINE s == slot[c]
             note == IF s.would # "" THEN s.would ELSE IF Broker!Suspect(s) # {} THEN "findings" ELSE ""
             body == Broker!ResponseBody(s)
             r == [n |-> s.n, req |-> s.req, error |-> "", body |-> body, tools |-> s.tools, note |-> note]
  <2>1. /\ UNCHANGED config
        /\ \/ \E error : Broker!Refuse(c, s.n, s.req, error)
           \/ /\ config.pii = "block" => ~Broker!Has(s.body, Broker!Pii)
              /\ Broker!Respond(s.n, s.req, "", body, s.tools, note)
    BY <1>7 DEF Broker!Return
  <2>2. Broker!Respond(s.n, s.req, "", body, s.tools, note) => replies' = replies \cup {r}
    BY DEF Broker!Respond
  <2>3. r.body = body
    OBVIOUS
  <2>4. (config.pii = "block" => ~Broker!Has(s.body, Broker!Pii)) => Clean(body)
    BY RedactedClean
  <2> HIDE DEF s, note, body, r
  <2> QED BY <1>2, <2>1, <2>2, <2>3, <2>4, RepliesClean
<1>8. (\E l \in ToolLists : Broker!ChangeTools(l)) \/ (\E p \in ToolPolicies : Broker!ChangePolicy(p)) \/ UNCHANGED Broker!vars
      => UNCHANGED <<config, replies>>
  BY DEF Broker!ChangeTools, Broker!ChangePolicy, Broker!vars
<1> QED BY <1>1, <1>2, <1>3, <1>4, <1>5, <1>6, <1>7, <1>8 DEF Broker!Next

(* mcpbroker.rs, process: however the calls of any number of agents        *)
(* overlap with changes of the policy and of the servers' tools, whatever  *)
(* form the secrets have, whatever the servers answer and whichever events *)
(* are lost, a vault secret goes only to the server its call named and     *)
(* only past the gate; each gated call is decided once, what was decided   *)
(* is what became of it, and its event is the one true one or, where the   *)
(* emission did not succeed, none; in block mode no listing differs from   *)
(* its pins; and what the scanners recognise comes back in clear only in   *)
(* an answer that a masked number made unparsable.                         *)
THEOREM BrokerAccounts == Broker!Spec => []BrokeredCallsAccounted
<1>1. Broker!Spec => []BrokerInv
  BY BrokerInvInit, BrokerInvNext, PTL DEF Broker!Spec
<1>2. Broker!Init => EventsTold /\ Broker!ResponsesRedacted
  BY DEF Broker!Init, EventsTold, Broker!Events, Broker!ResponsesRedacted
<1>3. BrokerInv /\ EventsTold /\ Broker!ResponsesRedacted => BrokeredCallsAccounted
  BY SecretsRouted, EventsAreOne DEF BrokerInv, BrokeredCallsAccounted, Broker!BrokeredCallsAccounted
<1> QED BY <1>1, <1>2, <1>3, EventsNext, CleanNext, PTL DEF Broker!Spec


-----------------------------------------------------------------------------
(* The report on client keys (KeysReport), with any keys and readers, any  *)
(* life of the cache and any length of a scan.                             *)

LEMMA ReportCardinality == \A S : KeyUse!Cardinality(S) = Cardinality(S)
BY Zenon DEF KeyUse!Cardinality, Cardinality

Mine(R, k) == {r \in R : r.key = k}
Bad(R, k) == {r \in R : r.key = k /\ r.decision = "identity_mismatch"}

(* The rows on disk and in memory: what is on disk and not inherited is of *)
(* this process.                                                           *)
RowsInv ==
  /\ clk \in Nat \ {0}
  /\ IsFiniteSet(written) /\ IsFiniteSet(inherited) /\ IsFiniteSet(admitted)
  /\ \A r \in written \cup buffered : r.ts \in Nat /\ r.ts <= clk
  /\ written \subseteq inherited \cup admitted /\ buffered \subseteq admitted

(* The calls of this process: a call is in flight once, it was counted,    *)
(* and until it is judged no mismatch was counted for it.                  *)
KeyPhases == {"counted", "judged", "refused", "recorded"}

CallOf(c) == [n |-> c.n, key |-> c.key]

CallsInv ==
  /\ total \in Nat
  /\ IsFiniteSet(inFlight) /\ IsFiniteSet(counted)
  /\ inFlight \subseteq [n : Nat, key : Configured, phase : KeyPhases]
  /\ mismatched \subseteq counted
  /\ \A c \in counted : c.n \in Nat /\ c.n <= total
  /\ \A c \in inFlight : CallOf(c) \in counted /\ c.n <= total /\ (c.phase = "counted" => CallOf(c) \notin mismatched)
  /\ \A c, d \in inFlight : c.n = d.n => c = d

(* The counters are those of the calls of this process.                    *)
CountInv ==
  \A k : /\ KeyUse!Counters(k) \in [calls : Nat, mismatches : Nat, last : Nat]
         /\ KeyUse!Counters(k).calls = Cardinality(Mine(counted, k))
         /\ KeyUse!Counters(k).mismatches = Cardinality(Mine(mismatched, k))

(* Of a key, the rows that are there and those that the calls in flight    *)
(* may still leave are two for each counted call at most, and so are the   *)
(* refusals one for each counted mismatch.                                 *)
InPhase(F, k, P) == {c \in F : c.key = k /\ c.phase \in P}

Rowless == {"counted", "judged", "refused"}

BalanceInv ==
  \A k : /\ Cardinality(Mine(admitted, k)) + 2 * Cardinality(InPhase(inFlight, k, Rowless))
              + Cardinality(InPhase(inFlight, k, {"recorded"})) <= 2 * Cardinality(Mine(counted, k))
         /\ Cardinality(Bad(admitted, k)) + Cardinality(InPhase(inFlight, k, {"refused"}))
              <= Cardinality(Mine(mismatched, k))

(* R has every row that was on disk at time t or before.                   *)
HasUntil(R, t) == \A u \in 1 .. clk : u <= t => past[u] \subseteq R

PastInv ==
  /\ DOMAIN past = 1 .. clk
  /\ \A t \in 1 .. clk : past[t] \subseteq written /\ HasUntil(past[t], t)

(* What a scan found, and what the cache folded.                           *)
ScanInv ==
  \A r \in Readers : \A s \in scan[r] :
    s.began \in Nat /\ s.began <= clk /\ clk <= s.began + MaxScan /\ s.rows \subseteq written /\ HasUntil(s.rows, s.began)

CacheInv ==
  \A c \in folds :
    c.at \in Nat /\ c.at <= clk /\ \E R : R \subseteq written /\ c.fold = KeyUse!Fold(R) /\ HasUntil(R, c.at - MaxScan)

(* A report: the counters, and the rows R its history was folded from.     *)
Entry(f, k) == IF k \in DOMAIN f THEN f[k] ELSE KeyUse!NoHistory

Joined(p, R) ==
  /\ R \subseteq written /\ {r.key : r \in R} \subseteq DOMAIN p.keys
  /\ \A k \in DOMAIN p.keys : p.keys[k].history = Entry(KeyUse!Fold(R), k) /\ p.keys[k].since = KeyUse!Counters(k)
  /\ p.available => HasUntil(R, p.at - (HistoryTtl + MaxScan))

ReportInv == \A p \in reports : p.at \in Nat /\ p.at <= clk /\ \E R : Joined(p, R)

KeysInv == RowsInv /\ CallsInv /\ CountInv /\ BalanceInv /\ PastInv /\ ScanInv /\ CacheInv /\ ReportInv

(* A set of natural numbers that is bounded has a first and a last.        *)
LEMMA FirstAndLast ==
  ASSUME NEW T, T \subseteq Nat, T # {}, NEW n \in Nat, \A x \in T : x <= n
  PROVE  /\ KeyUse!Min(T) \in T /\ \A y \in T : KeyUse!Min(T) <= y
         /\ KeyUse!Max(T) \in T /\ \A y \in T : KeyUse!Max(T) >= y
<1>1. \E x \in T : \A y \in T : x <= y
  BY LeastNat
<1>2. \E x \in T : \A y \in T : x >= y
  <2> DEFINE D == {n - x : x \in T}
  <2>1. D \subseteq Nat /\ D # {}
    <3>1. \A x \in T : x \in Nat /\ x <= n /\ n - x \in Nat
      OBVIOUS
    <3>2. PICK x : x \in T
      OBVIOUS
    <3>3. n - x \in D
      BY <3>2
    <3> QED BY <3>1, <3>3
  <2>2. PICK d \in D : \A y \in D : d <= y
    <3> HIDE DEF D
    <3> QED BY <2>1, LeastNat
  <2>3. PICK x \in T : d = n - x
    BY <2>2, Zenon
  <2>4. \A y \in T : n - x <= n - y
    BY <2>2, <2>3
  <2>5. \A y \in T : x >= y
    BY <2>4
  <2> QED BY <2>5
<1> QED BY <1>1, <1>2 DEF KeyUse!Min, KeyUse!Max

(* What folding a set of rows tells about a key.                           *)
LEMMA Folded ==
  ASSUME RowsInv, NEW R, R \subseteq written, NEW k
  PROVE  /\ DOMAIN KeyUse!Fold(R) = {r.key : r \in R}
         /\ k \in DOMAIN KeyUse!Fold(R) =>
              /\ KeyUse!Fold(R)[k].calls = Cardinality(Mine(R, k))
              /\ KeyUse!Fold(R)[k].mismatches = Cardinality(Bad(R, k))
              /\ \A r \in Mine(R, k) : KeyUse!Fold(R)[k].first <= r.ts /\ KeyUse!Fold(R)[k].last >= r.ts
<1> DEFINE bad == {r \in Mine(R, k) : r.decision = "identity_mismatch"}
           times == {r.ts : r \in Mine(R, k)}
           folded == [calls |-> KeyUse!Cardinality(Mine(R, k)), mismatches |-> KeyUse!Cardinality(bad),
                      first |-> KeyUse!Min(times), last |-> KeyUse!Max(times)]
<1>1. DOMAIN KeyUse!Fold(R) = {r.key : r \in R}
  BY DEF KeyUse!Fold
<1> SUFFICES ASSUME k \in DOMAIN KeyUse!Fold(R)
             PROVE  /\ KeyUse!Fold(R)[k].calls = Cardinality(Mine(R, k))
                    /\ KeyUse!Fold(R)[k].mismatches = Cardinality(Bad(R, k))
                    /\ \A r \in Mine(R, k) : KeyUse!Fold(R)[k].first <= r.ts /\ KeyUse!Fold(R)[k].last >= r.ts
  BY <1>1
<1>2. KeyUse!Fold(R)[k] = folded
  BY <1>1 DEF KeyUse!Fold, Mine
<1>3. /\ folded.calls = Cardinality(Mine(R, k)) /\ folded.mismatches = Cardinality(bad)
      /\ folded.first = KeyUse!Min(times) /\ folded.last = KeyUse!Max(times)
  BY ReportCardinality
<1> HIDE DEF folded
<1>4. bad = Bad(R, k)
  BY DEF Mine, Bad
<1>5. times \subseteq Nat /\ times # {} /\ (\A x \in times : x <= clk) /\ clk \in Nat
  BY <1>1 DEF RowsInv, Mine
<1>6. \A y \in times : KeyUse!Min(times) <= y /\ KeyUse!Max(times) >= y
  <2> HIDE DEF times
  <2> QED BY <1>5, FirstAndLast
<1> QED BY <1>2, <1>3, <1>4, <1>6

(* The parts of a finite set are finite.                                   *)
LEMMA PartsFinite ==
  ASSUME NEW A, IsFiniteSet(A), NEW k
  PROVE  /\ IsFiniteSet(Mine(A, k)) /\ IsFiniteSet(Bad(A, k))
         /\ Cardinality(Mine(A, k)) \in Nat /\ Cardinality(Bad(A, k)) \in Nat
<1>1. IsFiniteSet(Mine(A, k)) /\ IsFiniteSet(Bad(A, k))
  BY FS_Subset DEF Mine, Bad
<1> QED BY <1>1, FS_CardinalityType

LEMMA EmptyParts ==
  ASSUME NEW k
  PROVE  /\ Cardinality(Mine({}, k)) = 0 /\ Cardinality(Bad({}, k)) = 0
         /\ \A P : Cardinality(InPhase({}, k, P)) = 0
<1>1. Mine({}, k) = {} /\ Bad({}, k) = {} /\ \A P : InPhase({}, k, P) = {}
  BY DEF Mine, Bad, InPhase
<1> QED BY <1>1, FS_EmptySet

LEMMA KeysInit == KeyUse!KeysConstants /\ KeyUse!Init => KeysInv
<1> SUFFICES ASSUME KeyUse!KeysConstants, KeyUse!Init PROVE KeysInv
  OBVIOUS
<1>1. /\ buffered = {} /\ written = {} /\ past = <<{}>> /\ stats = <<>> /\ admitted = {} /\ folds = {}
      /\ inFlight = {} /\ inherited = {} /\ counted = {} /\ mismatched = {}
      /\ scan = [r \in Readers |-> {}] /\ reports = {} /\ clk = 1 /\ total = 0
  BY DEF KeyUse!Init
<1>2. RowsInv /\ CallsInv
  BY <1>1, FS_EmptySet DEF RowsInv, CallsInv
<1>3. CountInv
  <2>1. \A k : /\ KeyUse!Counters(k).calls = 0 /\ KeyUse!Counters(k).mismatches = 0
              /\ KeyUse!Counters(k) \in [calls : Nat, mismatches : Nat, last : Nat]
    BY <1>1 DEF KeyUse!Counters
  <2> QED BY <1>1, <2>1, EmptyParts DEF CountInv
<1>4. BalanceInv
  BY <1>1, EmptyParts DEF BalanceInv
<1>5. PastInv
  <2>1. DOMAIN past = 1 .. 1 /\ past[1] = {}
    BY <1>1
  <2> QED BY <1>1, <2>1 DEF PastInv, HasUntil
<1>6. ScanInv /\ CacheInv /\ ReportInv
  BY <1>1 DEF ScanInv, CacheInv, ReportInv
<1> QED BY <1>2, <1>3, <1>4, <1>5, <1>6 DEF KeysInv

(* The clock and the disk go on; no past moment changes.                   *)
Later ==
  /\ clk \in Nat /\ clk' \in Nat /\ clk <= clk'
  /\ written \subseteq written' /\ \A t \in 1 .. clk : past'[t] = past[t]

LEMMA UntilStays ==
  ASSUME Later, NEW R, NEW t \in Int, t <= clk, HasUntil(R, t)
  PROVE  HasUntil(R, t)'
BY DEF Later, HasUntil

LEMMA CacheStays == ASSUME MaxScan \in Nat, Later, CacheInv, folds' = folds PROVE CacheInv'
<1> SUFFICES ASSUME NEW c \in folds
             PROVE  /\ c.at \in Nat /\ c.at <= clk'
                    /\ \E R : R \subseteq written' /\ c.fold = KeyUse!Fold(R) /\ HasUntil(R, c.at - MaxScan)'
  BY DEF CacheInv, HasUntil
<1>1. PICK R : R \subseteq written /\ c.fold = KeyUse!Fold(R) /\ HasUntil(R, c.at - MaxScan)
  BY DEF CacheInv
<1>2. c.at \in Nat /\ c.at <= clk
  BY DEF CacheInv
<1>3. PICK t \in Int : t = c.at - MaxScan /\ t <= clk
  BY <1>2 DEF Later
<1>4. HasUntil(R, t)'
  BY <1>1, <1>3, UntilStays
<1> QED BY <1>1, <1>2, <1>3, <1>4 DEF Later, HasUntil

(* A report joins the counters of this moment with what was folded.        *)
LEMMA ReportServed ==
  ASSUME RowsInv, NEW available, NEW R, R \subseteq written,
         NEW f, DOMAIN f = {r.key : r \in R}, \A k : Entry(f, k) = Entry(KeyUse!Fold(R), k),
         available => HasUntil(R, clk - (HistoryTtl + MaxScan)), reports' = {KeyUse!Report(available, f)},
         UNCHANGED <<written, past, clk, stats>>
  PROVE  ReportInv'
<1> DEFINE keys == [k \in Configured \cup Bound \cup DOMAIN f |->
                      [since |-> KeyUse!Counters(k), history |-> Entry(f, k)]]
           new == [at |-> clk, available |-> available, keys |-> keys]
<1>0. new.at = clk /\ new.available = available /\ new.keys = keys
  OBVIOUS
<1>1. PICK p : p = new /\ reports' = {p}
  BY DEF KeyUse!Report, Entry
<1>2. p.at = clk /\ p.available = available /\ p.keys = keys
  BY <1>0, <1>1
<1>3. /\ DOMAIN keys = Configured \cup Bound \cup DOMAIN f
      /\ \A k \in DOMAIN keys : keys[k].since = KeyUse!Counters(k) /\ keys[k].history = Entry(f, k)
  OBVIOUS
<1> HIDE DEF keys, new
<1>4. p.at \in Nat /\ p.at <= clk'
  BY <1>2 DEF RowsInv
<1>5. \A k : KeyUse!Counters(k)' = KeyUse!Counters(k)
  BY DEF KeyUse!Counters
<1>6. Joined(p, R)'
  <2>1. /\ {r.key : r \in R} \subseteq DOMAIN p.keys
        /\ \A k \in DOMAIN p.keys : p.keys[k].history = Entry(KeyUse!Fold(R), k) /\ p.keys[k].since = KeyUse!Counters(k)
    BY <1>2, <1>3
  <2>2. p.available => HasUntil(R, p.at - (HistoryTtl + MaxScan))
    BY <1>2
  <2> QED BY <1>5, <2>1, <2>2 DEF Joined, HasUntil
<1> QED BY <1>1, <1>4, <1>6 DEF ReportInv

LEMMA AddedOne ==
  ASSUME NEW S, IsFiniteSet(S), NEW x
  PROVE  /\ IsFiniteSet(S \cup {x}) /\ Cardinality(S \cup {x}) \in Nat /\ Cardinality(S) \in Nat
         /\ Cardinality(S \cup {x}) <= Cardinality(S) + 1
         /\ x \notin S => Cardinality(S \cup {x}) = Cardinality(S) + 1
<1>1. IsFiniteSet(S \cup {x}) /\ (x \notin S => Cardinality(S \cup {x}) = Cardinality(S) + 1)
  BY FS_AddElement
<1>2. Cardinality(S) \in Nat /\ Cardinality(S \cup {x}) \in Nat
  BY <1>1, FS_CardinalityType, Zenon
<1>3. CASE x \in S
  <2>1. S \cup {x} = S
    BY <1>3
  <2>2. Cardinality(S \cup {x}) = Cardinality(S)
    BY <2>1
  <2> QED BY <1>1, <1>2, <1>3, <2>2
<1>4. CASE x \notin S
  BY <1>1, <1>2, <1>4
<1> QED BY <1>3, <1>4

(* One more call of a key counts once for it, and so does one more row.    *)
LEMMA OneMore ==
  ASSUME NEW A, IsFiniteSet(A), NEW x, x \notin A, NEW B, B = A \cup {x}, NEW k
  PROVE  /\ Cardinality(Mine(B, k)) = Cardinality(Mine(A, k)) + (IF x.key = k THEN 1 ELSE 0)
         /\ Cardinality(Mine(A, k)) \in Nat /\ Cardinality(Mine(B, k)) \in Nat
<1>1. IsFiniteSet(Mine(A, k)) /\ x \notin Mine(A, k)
  BY PartsFinite DEF Mine
<1>2. Mine(B, k) = IF x.key = k THEN Mine(A, k) \cup {x} ELSE Mine(A, k)
  BY DEF Mine
<1>3. /\ Cardinality(Mine(A, k) \cup {x}) = Cardinality(Mine(A, k)) + 1
      /\ Cardinality(Mine(A, k) \cup {x}) \in Nat /\ Cardinality(Mine(A, k)) \in Nat
  BY <1>1, AddedOne
<1> QED BY <1>2, <1>3

LEMMA OneMoreRow ==
  ASSUME NEW A, IsFiniteSet(A), NEW x, NEW B, B = A \cup {x}, NEW k
  PROVE  /\ Cardinality(Mine(B, k)) <= Cardinality(Mine(A, k)) + (IF x.key = k THEN 1 ELSE 0)
         /\ Cardinality(Bad(B, k)) <= Cardinality(Bad(A, k)) + (IF x.key = k /\ x.decision = "identity_mismatch" THEN 1 ELSE 0)
         /\ Cardinality(Mine(A, k)) \in Nat /\ Cardinality(Bad(A, k)) \in Nat
         /\ Cardinality(Mine(B, k)) \in Nat /\ Cardinality(Bad(B, k)) \in Nat
<1>1. IsFiniteSet(Mine(A, k)) /\ IsFiniteSet(Bad(A, k))
  BY PartsFinite
<1>2. Mine(B, k) = IF x.key = k THEN Mine(A, k) \cup {x} ELSE Mine(A, k)
  BY DEF Mine
<1>3. Bad(B, k) = IF x.key = k /\ x.decision = "identity_mismatch" THEN Bad(A, k) \cup {x} ELSE Bad(A, k)
  BY DEF Bad
<1>4. /\ Cardinality(Mine(A, k) \cup {x}) <= Cardinality(Mine(A, k)) + 1
      /\ Cardinality(Mine(A, k) \cup {x}) \in Nat /\ Cardinality(Mine(A, k)) \in Nat
  BY <1>1, AddedOne
<1>5. /\ Cardinality(Bad(A, k) \cup {x}) <= Cardinality(Bad(A, k)) + 1
      /\ Cardinality(Bad(A, k) \cup {x}) \in Nat /\ Cardinality(Bad(A, k)) \in Nat
  BY <1>1, AddedOne
<1>6. /\ Cardinality(Mine(B, k)) <= Cardinality(Mine(A, k)) + (IF x.key = k THEN 1 ELSE 0)
      /\ Cardinality(Mine(B, k)) \in Nat
  BY <1>2, <1>4
<1>7. /\ Cardinality(Bad(B, k)) <= Cardinality(Bad(A, k)) + (IF x.key = k /\ x.decision = "identity_mismatch" THEN 1 ELSE 0)
      /\ Cardinality(Bad(B, k)) \in Nat
  BY <1>3, <1>5
<1> QED BY <1>4, <1>5, <1>6, <1>7

(* How many calls of a key are in some phase after one is taken away, or   *)
(* one comes.                                                              *)
LEMMA OneLess ==
  ASSUME NEW F, IsFiniteSet(F), NEW c \in F, NEW k, NEW P
  PROVE  /\ IsFiniteSet(F \ {c}) /\ Cardinality(InPhase(F, k, P)) \in Nat /\ Cardinality(InPhase(F \ {c}, k, P)) \in Nat
         /\ Cardinality(InPhase(F \ {c}, k, P)) = Cardinality(InPhase(F, k, P)) - (IF c.key = k /\ c.phase \in P THEN 1 ELSE 0)
<1>1. IsFiniteSet(F \ {c}) /\ IsFiniteSet(InPhase(F, k, P)) /\ IsFiniteSet(InPhase(F \ {c}, k, P))
  BY FS_Subset DEF InPhase
<1>2. InPhase(F \ {c}, k, P) = IF c.key = k /\ c.phase \in P THEN InPhase(F, k, P) \ {c} ELSE InPhase(F, k, P)
  BY DEF InPhase
<1>3. c.key = k /\ c.phase \in P => Cardinality(InPhase(F, k, P) \ {c}) = Cardinality(InPhase(F, k, P)) - 1
  <2>1. c.key = k /\ c.phase \in P => c \in InPhase(F, k, P)
    BY DEF InPhase
  <2> QED BY <1>1, <2>1, FS_RemoveElement
<1> QED BY <1>1, <1>2, <1>3, FS_CardinalityType

LEMMA OneInFlight ==
  ASSUME NEW F, IsFiniteSet(F), NEW x, NEW k, NEW P
  PROVE  /\ IsFiniteSet(F \cup {x}) /\ Cardinality(InPhase(F, k, P)) \in Nat /\ Cardinality(InPhase(F \cup {x}, k, P)) \in Nat
         /\ Cardinality(InPhase(F \cup {x}, k, P)) <= Cardinality(InPhase(F, k, P)) + (IF x.key = k /\ x.phase \in P THEN 1 ELSE 0)
<1>1. IsFiniteSet(F \cup {x}) /\ IsFiniteSet(InPhase(F, k, P))
  BY FS_AddElement, FS_Subset DEF InPhase
<1>2. InPhase(F \cup {x}, k, P) = IF x.key = k /\ x.phase \in P THEN InPhase(F, k, P) \cup {x} ELSE InPhase(F, k, P)
  BY DEF InPhase
<1>3. /\ IsFiniteSet(InPhase(F, k, P) \cup {x}) /\ Cardinality(InPhase(F, k, P) \cup {x}) \in Nat
      /\ Cardinality(InPhase(F, k, P) \cup {x}) <= Cardinality(InPhase(F, k, P)) + 1
  BY <1>1, AddedOne
<1> QED BY <1>1, <1>2, <1>3, FS_CardinalityType

(* A call moves on to another phase.                                       *)
LEMMA OneMoved ==
  ASSUME NEW F, IsFiniteSet(F), NEW c \in F, NEW x, x.key = c.key, NEW k, NEW P
  PROVE  Cardinality(InPhase((F \ {c}) \cup {x}, k, P))
           <= Cardinality(InPhase(F, k, P)) - (IF c.key = k /\ c.phase \in P THEN 1 ELSE 0)
                                            + (IF c.key = k /\ x.phase \in P THEN 1 ELSE 0)
<1>1. PICK G : G = F \ {c} /\ IsFiniteSet(G)
  BY OneLess
<1>2. /\ Cardinality(InPhase(G, k, P)) \in Nat /\ Cardinality(InPhase(F, k, P)) \in Nat
      /\ Cardinality(InPhase(G, k, P)) = Cardinality(InPhase(F, k, P)) - (IF c.key = k /\ c.phase \in P THEN 1 ELSE 0)
  BY <1>1, OneLess
<1>3. /\ Cardinality(InPhase(G \cup {x}, k, P)) \in Nat
      /\ Cardinality(InPhase(G \cup {x}, k, P)) <= Cardinality(InPhase(G, k, P)) + (IF x.key = k /\ x.phase \in P THEN 1 ELSE 0)
  BY <1>1, OneInFlight
<1> QED BY <1>1, <1>2, <1>3

(* A step of a call serves no report and leaves disk, readers and clock.   *)
Quiet == UNCHANGED <<written, past, inherited, folds, scan, clk>> /\ reports' = {}

LEMMA QuietKeeps == ASSUME KeysInv, Quiet PROVE PastInv' /\ ScanInv' /\ CacheInv' /\ ReportInv'
BY DEF KeysInv, Quiet, PastInv, ScanInv, CacheInv, ReportInv, HasUntil

(* The counters after one key's entry is put.                              *)
LEMMA EntryPut ==
  ASSUME NEW k, NEW e, stats' = KeyUse!Put(k, e), NEW y
  PROVE  KeyUse!Counters(y)' = IF y = k THEN e ELSE KeyUse!Counters(y)
<1>1. DOMAIN stats' = DOMAIN stats \cup {k} /\ \A x \in DOMAIN stats' : stats'[x] = IF x = k THEN e ELSE stats[x]
  BY DEF KeyUse!Put
<1> QED BY <1>1 DEF KeyUse!Counters

LEMMA CountKeepsKeys ==
  ASSUME KeyUse!KeysConstants, KeysInv, NEW k \in Configured, KeyUse!Count(k)
  PROVE  KeysInv'
<1>1. PICK m, x, e : /\ m = [n |-> total + 1, key |-> k] /\ x = [n |-> total + 1, key |-> k, phase |-> "counted"]
                     /\ e = [KeyUse!Counters(k) EXCEPT !.calls = @ + 1, !.last = clk]
  OBVIOUS
<1>2. /\ total' = total + 1 /\ counted' = counted \cup {m} /\ inFlight' = inFlight \cup {x} /\ stats' = KeyUse!Put(k, e)
      /\ UNCHANGED <<written, inherited, buffered, admitted, mismatched, clk>>
  BY <1>1 DEF KeyUse!Count, KeyUse!diskVars, KeyUse!readVars
<1>3. Quiet
  BY DEF KeyUse!Count, KeyUse!diskVars, KeyUse!readVars, Quiet, KeyUse!NothingServed
<1>4. /\ m.n = total + 1 /\ m.key = k /\ x.n = total + 1 /\ x.key = k /\ x.phase = "counted" /\ CallOf(x) = m
  BY <1>1 DEF CallOf
<1>5. x \in [n : Nat, key : Configured, phase : KeyPhases] /\ total + 1 \in Nat /\ total \in Nat
  BY <1>1 DEF KeysInv, CallsInv, KeyPhases
<1>6. m \notin counted
  BY <1>4 DEF KeysInv, CallsInv
<1>7. IsFiniteSet(inFlight) /\ IsFiniteSet(counted) /\ IsFiniteSet(admitted)
  BY DEF KeysInv, CallsInv, RowsInv
<1>8. RowsInv'
  BY <1>2 DEF KeysInv, RowsInv
<1>9. CallsInv'
  <2>1. IsFiniteSet(inFlight') /\ IsFiniteSet(counted') /\ inFlight' \subseteq [n : Nat, key : Configured, phase : KeyPhases]
    BY <1>2, <1>5, <1>7, FS_AddElement DEF KeysInv, CallsInv
  <2>2. \A c \in counted' : c.n \in Nat /\ c.n <= total'
    BY <1>2, <1>4, <1>5 DEF KeysInv, CallsInv
  <2>3. \A c \in inFlight' : CallOf(c) \in counted' /\ c.n <= total' /\ (c.phase = "counted" => CallOf(c) \notin mismatched')
    <3>1. CallOf(x) \in counted' /\ x.n <= total' /\ CallOf(x) \notin mismatched
      BY <1>2, <1>4, <1>5, <1>6 DEF KeysInv, CallsInv
    <3>2. \A c \in inFlight : CallOf(c) \in counted' /\ c.n <= total' /\ (c.phase = "counted" => CallOf(c) \notin mismatched)
      BY <1>2, <1>5 DEF KeysInv, CallsInv
    <3> QED BY <1>2, <3>1, <3>2
  <2>4. \A c, d \in inFlight' : c.n = d.n => c = d
    BY <1>2, <1>4, <1>5 DEF KeysInv, CallsInv
  <2>5. mismatched' \subseteq counted' /\ total' \in Nat
    BY <1>2, <1>5 DEF KeysInv, CallsInv
  <2> QED BY <2>1, <2>2, <2>3, <2>4, <2>5 DEF CallsInv
<1>10. ASSUME NEW y
       PROVE  /\ Cardinality(Mine(counted', y)) = Cardinality(Mine(counted, y)) + (IF k = y THEN 1 ELSE 0)
              /\ Cardinality(Mine(counted, y)) \in Nat /\ Cardinality(Mine(counted', y)) \in Nat
  <2>1. PICK A, B : A = counted /\ B = counted'
    OBVIOUS
  <2>2. B = A \cup {m} /\ IsFiniteSet(A) /\ m \notin A
    BY <1>2, <1>6, <1>7, <2>1
  <2>3. /\ Cardinality(Mine(B, y)) = Cardinality(Mine(A, y)) + (IF m.key = y THEN 1 ELSE 0)
        /\ Cardinality(Mine(A, y)) \in Nat /\ Cardinality(Mine(B, y)) \in Nat
    BY <2>2, OneMore
  <2>4. /\ Cardinality(Mine(counted', y)) = Cardinality(Mine(counted, y)) + (IF m.key = y THEN 1 ELSE 0)
        /\ Cardinality(Mine(counted, y)) \in Nat /\ Cardinality(Mine(counted', y)) \in Nat
    BY <2>1, <2>3
  <2> QED BY <1>4, <2>4
<1>11. CountInv'
  <2> SUFFICES ASSUME NEW y
               PROVE  /\ KeyUse!Counters(y)' \in [calls : Nat, mismatches : Nat, last : Nat]
                      /\ KeyUse!Counters(y)'.calls = Cardinality(Mine(counted', y))
                      /\ KeyUse!Counters(y)'.mismatches = Cardinality(Mine(mismatched', y))
    BY DEF CountInv, Mine
  <2>1. KeyUse!Counters(y)' = IF y = k THEN e ELSE KeyUse!Counters(y)
    BY <1>2, EntryPut
  <2>2. /\ KeyUse!Counters(y) \in [calls : Nat, mismatches : Nat, last : Nat]
        /\ KeyUse!Counters(y).calls = Cardinality(Mine(counted, y))
        /\ KeyUse!Counters(y).mismatches = Cardinality(Mine(mismatched, y))
    BY DEF KeysInv, CountInv
  <2>3. /\ y = k => e \in [calls : Nat, mismatches : Nat, last : Nat]
        /\ y = k => e.calls = KeyUse!Counters(y).calls + 1 /\ e.mismatches = KeyUse!Counters(y).mismatches
    <3>1. PICK old \in [calls : Nat, mismatches : Nat, last : Nat] : old = KeyUse!Counters(y)
      BY <2>2
    <3>2. clk \in Nat
      BY DEF KeysInv, RowsInv
    <3>3. PICK new : new = [old EXCEPT !.calls = @ + 1, !.last = clk]
      OBVIOUS
    <3>4. /\ new \in [calls : Nat, mismatches : Nat, last : Nat]
          /\ new.calls = old.calls + 1 /\ new.mismatches = old.mismatches
      <4>1. PICK half : half = [old EXCEPT !.calls = @ + 1]
        OBVIOUS
      <4>2. /\ half \in [calls : Nat, mismatches : Nat, last : Nat]
            /\ half.calls = old.calls + 1 /\ half.mismatches = old.mismatches
        BY <4>1
      <4>3. new = [half EXCEPT !.last = clk]
        BY <3>3, <4>1
      <4> QED BY <3>2, <4>2, <4>3
    <3>5. y = k => e = new
      BY <1>1, <3>1, <3>3
    <3>6. CASE y = k
      <4>1. e = new
        BY <3>5, <3>6
      <4> QED BY <3>1, <3>4, <4>1
    <3> QED BY <3>6
  <2>4. /\ Cardinality(Mine(counted', y)) = Cardinality(Mine(counted, y)) + (IF k = y THEN 1 ELSE 0)
        /\ Mine(mismatched', y) = Mine(mismatched, y)
    BY <1>2, <1>10
  <2>5. CASE y = k
    BY <2>1, <2>2, <2>3, <2>4, <2>5
  <2>6. CASE y # k
    BY <2>1, <2>2, <2>4, <2>6
  <2> QED BY <2>5, <2>6
<1>12. BalanceInv'
  <2> SUFFICES ASSUME NEW y
               PROVE  /\ Cardinality(Mine(admitted', y)) + 2 * Cardinality(InPhase(inFlight', y, Rowless))
                           + Cardinality(InPhase(inFlight', y, {"recorded"})) <= 2 * Cardinality(Mine(counted', y))
                      /\ Cardinality(Bad(admitted', y)) + Cardinality(InPhase(inFlight', y, {"refused"}))
                           <= Cardinality(Mine(mismatched', y))
    BY DEF BalanceInv, Mine, Bad, InPhase
  <2>1. ASSUME NEW P
        PROVE  /\ Cardinality(InPhase(inFlight, y, P)) \in Nat /\ Cardinality(InPhase(inFlight', y, P)) \in Nat
               /\ Cardinality(InPhase(inFlight', y, P)) <= Cardinality(InPhase(inFlight, y, P)) + (IF k = y /\ "counted" \in P THEN 1 ELSE 0)
    <3>1. PICK F, G : F = inFlight /\ G = inFlight'
      OBVIOUS
    <3>2. G = F \cup {x} /\ IsFiniteSet(F)
      BY <1>2, <1>7, <3>1
    <3>3. /\ Cardinality(InPhase(F, y, P)) \in Nat /\ Cardinality(InPhase(G, y, P)) \in Nat
          /\ Cardinality(InPhase(G, y, P)) <= Cardinality(InPhase(F, y, P)) + (IF x.key = y /\ x.phase \in P THEN 1 ELSE 0)
      BY <3>2, OneInFlight
    <3> QED BY <1>4, <3>1, <3>3
  <2>2. /\ Cardinality(InPhase(inFlight', y, Rowless)) <= Cardinality(InPhase(inFlight, y, Rowless)) + (IF k = y THEN 1 ELSE 0)
        /\ Cardinality(InPhase(inFlight', y, {"recorded"})) <= Cardinality(InPhase(inFlight, y, {"recorded"}))
        /\ Cardinality(InPhase(inFlight', y, {"refused"})) <= Cardinality(InPhase(inFlight, y, {"refused"}))
    <3>1. "counted" \in Rowless /\ "counted" \notin {"recorded"} /\ "counted" \notin {"refused"}
      BY DEF Rowless
    <3> QED BY <2>1, <3>1
  <2>3. /\ Cardinality(Mine(admitted, y)) \in Nat /\ Cardinality(Bad(admitted, y)) \in Nat
        /\ Cardinality(Mine(mismatched, y)) \in Nat
    BY <1>7, PartsFinite, FS_Subset DEF KeysInv, CallsInv
  <2>4. /\ Cardinality(Mine(admitted, y)) + 2 * Cardinality(InPhase(inFlight, y, Rowless))
             + Cardinality(InPhase(inFlight, y, {"recorded"})) <= 2 * Cardinality(Mine(counted, y))
        /\ Cardinality(Bad(admitted, y)) + Cardinality(InPhase(inFlight, y, {"refused"})) <= Cardinality(Mine(mismatched, y))
    BY DEF KeysInv, BalanceInv
  <2>5. /\ Cardinality(InPhase(inFlight, y, Rowless)) \in Nat /\ Cardinality(InPhase(inFlight', y, Rowless)) \in Nat
        /\ Cardinality(InPhase(inFlight, y, {"recorded"})) \in Nat /\ Cardinality(InPhase(inFlight', y, {"recorded"})) \in Nat
        /\ Cardinality(InPhase(inFlight, y, {"refused"})) \in Nat /\ Cardinality(InPhase(inFlight', y, {"refused"})) \in Nat
    BY <2>1
  <2>6. Mine(admitted', y) = Mine(admitted, y) /\ Bad(admitted', y) = Bad(admitted, y) /\ Mine(mismatched', y) = Mine(mismatched, y)
    BY <1>2
  <2>7. /\ Cardinality(Mine(counted', y)) = Cardinality(Mine(counted, y)) + (IF k = y THEN 1 ELSE 0)
        /\ Cardinality(Mine(counted, y)) \in Nat /\ Cardinality(Mine(counted', y)) \in Nat
    BY <1>10
  <2> QED BY <2>2, <2>3, <2>4, <2>5, <2>6, <2>7
<1> QED BY <1>3, <1>8, <1>9, <1>11, <1>12, QuietKeeps DEF KeysInv

(* The calls in flight after one moved to another phase.                   *)
LEMMA BecomesKeepsCalls ==
  ASSUME KeysInv, NEW c \in inFlight, NEW phase \in KeyPhases, phase # "counted", inFlight' = KeyUse!Becomes(c, phase),
         UNCHANGED <<total, counted>>, mismatched' \in {mismatched, mismatched \cup {CallOf(c)}}
  PROVE  CallsInv'
<1>1. PICK x : x = [c EXCEPT !.phase = phase] /\ inFlight' = (inFlight \ {c}) \cup {x}
  BY DEF KeyUse!Becomes
<1>2. c \in [n : Nat, key : Configured, phase : KeyPhases] /\ CallOf(c) \in counted /\ c.n <= total
  BY DEF KeysInv, CallsInv
<1>3. x \in [n : Nat, key : Configured, phase : KeyPhases] /\ x.n = c.n /\ x.key = c.key /\ x.phase = phase
  BY <1>1, <1>2
<1>4. CallOf(x) = CallOf(c)
  BY <1>3 DEF CallOf
<1>5. IsFiniteSet(inFlight')
  <2>1. IsFiniteSet(inFlight \ {c})
    BY FS_Subset DEF KeysInv, CallsInv
  <2> QED BY <1>1, <2>1, FS_AddElement
<1>6. inFlight' \subseteq [n : Nat, key : Configured, phase : KeyPhases]
  BY <1>1, <1>3 DEF KeysInv, CallsInv
<1>7. ASSUME NEW d \in inFlight'
      PROVE  CallOf(d) \in counted /\ d.n <= total /\ (d.phase = "counted" => CallOf(d) \notin mismatched')
  <2>1. CASE d = x
    BY <1>2, <1>3, <1>4, <2>1
  <2>2. CASE d \in inFlight \ {c}
    <3>1. d.n # c.n /\ CallOf(d) \in counted /\ d.n <= total /\ (d.phase = "counted" => CallOf(d) \notin mismatched)
      BY <2>2 DEF KeysInv, CallsInv
    <3>2. CallOf(d) # CallOf(c)
      BY <3>1 DEF CallOf
    <3> QED BY <3>1, <3>2
  <2> QED BY <1>1, <2>1, <2>2
<1>8. \A d, f \in inFlight' : d.n = f.n => d = f
  BY <1>1, <1>3 DEF KeysInv, CallsInv
<1>9. mismatched' \subseteq counted'
  BY <1>2 DEF KeysInv, CallsInv
<1> QED BY <1>5, <1>6, <1>7, <1>8, <1>9 DEF KeysInv, CallsInv

LEMMA JudgeKeepsKeys ==
  ASSUME KeyUse!KeysConstants, KeysInv, NEW c \in inFlight, KeyUse!Judge(c)
  PROVE  KeysInv'
<1>1. PICK e : e = [KeyUse!Counters(c.key) EXCEPT !.mismatches = @ + 1]
  OBVIOUS
<1>2. /\ c.phase = "counted" /\ UNCHANGED <<written, inherited, buffered, admitted, counted, clk, total>>
  BY DEF KeyUse!Judge, KeyUse!diskVars, KeyUse!readVars
<1>3. Quiet
  BY DEF KeyUse!Judge, KeyUse!diskVars, KeyUse!readVars, Quiet, KeyUse!NothingServed
<1>4. PICK phase \in {"judged", "refused"} :
        /\ inFlight' = KeyUse!Becomes(c, phase)
        /\ \/ stats' = KeyUse!Put(c.key, e) /\ mismatched' = mismatched \cup {CallOf(c)}
           \/ phase = "judged" /\ UNCHANGED <<stats, mismatched>>
  <2>1. PICK mismatch \in BOOLEAN :
          /\ IF mismatch /\ strict # "off"
             THEN stats' = KeyUse!Put(c.key, e) /\ mismatched' = mismatched \cup {CallOf(c)}
             ELSE UNCHANGED <<stats, mismatched>>
          /\ inFlight' = KeyUse!Becomes(c, IF mismatch /\ strict = "enforce" THEN "refused" ELSE "judged")
    BY <1>1 DEF KeyUse!Judge, KeyUse!diskVars, KeyUse!readVars, CallOf
  <2>2. CASE mismatch /\ strict # "off"
    BY <2>1, <2>2
  <2>3. CASE ~(mismatch /\ strict # "off")
    BY <2>1, <2>3
  <2> QED BY <2>2, <2>3
<1>5. PICK x : x.key = c.key /\ x.phase = phase /\ inFlight' = (inFlight \ {c}) \cup {x}
  <2>1. c \in [n : Nat, key : Configured, phase : KeyPhases]
    BY DEF KeysInv, CallsInv
  <2>2. PICK x : x = [c EXCEPT !.phase = phase]
    OBVIOUS
  <2>3. x.key = c.key /\ x.phase = phase
    BY <2>1, <2>2
  <2> QED BY <1>4, <2>2, <2>3 DEF KeyUse!Becomes
<1>6. CallsInv'
  BY <1>2, <1>4, BecomesKeepsCalls DEF KeyPhases
<1>7. CallOf(c) \notin mismatched /\ CallOf(c).key = c.key /\ IsFiniteSet(mismatched) /\ IsFiniteSet(inFlight)
      /\ IsFiniteSet(admitted) /\ IsFiniteSet(counted)
  BY <1>2, FS_Subset DEF KeysInv, CallsInv, RowsInv, CallOf
<1>8. RowsInv'
  BY <1>2 DEF KeysInv, RowsInv
<1>9. ASSUME NEW y, mismatched' = mismatched \cup {CallOf(c)}
      PROVE  Cardinality(Mine(mismatched', y)) = Cardinality(Mine(mismatched, y)) + (IF c.key = y THEN 1 ELSE 0)
  <2>1. PICK A, B, m : A = mismatched /\ B = mismatched' /\ m = CallOf(c)
    OBVIOUS
  <2>2. B = A \cup {m} /\ IsFiniteSet(A) /\ m \notin A /\ m.key = c.key
    BY <1>7, <1>9, <2>1
  <2>3. Cardinality(Mine(B, y)) = Cardinality(Mine(A, y)) + (IF m.key = y THEN 1 ELSE 0)
    BY <2>2, OneMore
  <2> QED BY <2>1, <2>2, <2>3
<1>10. CountInv'
  <2> SUFFICES ASSUME NEW y
               PROVE  /\ KeyUse!Counters(y)' \in [calls : Nat, mismatches : Nat, last : Nat]
                      /\ KeyUse!Counters(y)'.calls = Cardinality(Mine(counted', y))
                      /\ KeyUse!Counters(y)'.mismatches = Cardinality(Mine(mismatched', y))
    BY DEF CountInv, Mine
  <2>1. /\ KeyUse!Counters(y) \in [calls : Nat, mismatches : Nat, last : Nat]
        /\ KeyUse!Counters(y).calls = Cardinality(Mine(counted, y))
        /\ KeyUse!Counters(y).mismatches = Cardinality(Mine(mismatched, y))
    BY DEF KeysInv, CountInv
  <2>2. CASE stats' = KeyUse!Put(c.key, e) /\ mismatched' = mismatched \cup {CallOf(c)}
    <3>1. KeyUse!Counters(y)' = IF y = c.key THEN e ELSE KeyUse!Counters(y)
      BY <2>2, EntryPut
    <3>2. /\ y = c.key => e \in [calls : Nat, mismatches : Nat, last : Nat]
          /\ y = c.key => e.calls = KeyUse!Counters(y).calls /\ e.mismatches = KeyUse!Counters(y).mismatches + 1
      BY <1>1, <2>1
    <3> QED BY <1>2, <1>9, <2>1, <2>2, <3>1, <3>2
  <2>3. CASE UNCHANGED <<stats, mismatched>>
    BY <1>2, <2>1, <2>3 DEF KeyUse!Counters
  <2> QED BY <1>4, <2>2, <2>3
<1>11. BalanceInv'
  <2> SUFFICES ASSUME NEW y
               PROVE  /\ Cardinality(Mine(admitted', y)) + 2 * Cardinality(InPhase(inFlight', y, Rowless))
                           + Cardinality(InPhase(inFlight', y, {"recorded"})) <= 2 * Cardinality(Mine(counted', y))
                      /\ Cardinality(Bad(admitted', y)) + Cardinality(InPhase(inFlight', y, {"refused"}))
                           <= Cardinality(Mine(mismatched', y))
    BY DEF BalanceInv, Mine, Bad, InPhase
  <2>1. ASSUME NEW P
        PROVE  /\ Cardinality(InPhase(inFlight, y, P)) \in Nat /\ Cardinality(InPhase(inFlight', y, P)) \in Nat
               /\ Cardinality(InPhase(inFlight', y, P)) <=
                    Cardinality(InPhase(inFlight, y, P)) - (IF c.key = y /\ "counted" \in P THEN 1 ELSE 0)
                                                         + (IF c.key = y /\ phase \in P THEN 1 ELSE 0)
    <3>1. Cardinality(InPhase(inFlight, y, P)) \in Nat
      BY <1>7, OneLess
    <3>2. IsFiniteSet(InPhase(inFlight', y, P))
      BY <1>6, FS_Subset DEF CallsInv, InPhase
    <3>3. Cardinality(InPhase(inFlight', y, P)) \in Nat
      BY <3>2, FS_CardinalityType
    <3>4. PICK F, G : F = inFlight /\ G = inFlight'
      OBVIOUS
    <3>5. G = (F \ {c}) \cup {x} /\ IsFiniteSet(F) /\ c \in F
      BY <1>5, <1>7, <3>4
    <3>6. Cardinality(InPhase(G, y, P)) <= Cardinality(InPhase(F, y, P)) - (IF c.key = y /\ c.phase \in P THEN 1 ELSE 0)
                                                                        + (IF c.key = y /\ x.phase \in P THEN 1 ELSE 0)
      BY <1>5, <3>5, OneMoved
    <3> QED BY <1>2, <1>5, <3>1, <3>3, <3>4, <3>6
  <2>2. /\ Cardinality(InPhase(inFlight', y, Rowless)) <= Cardinality(InPhase(inFlight, y, Rowless))
        /\ Cardinality(InPhase(inFlight', y, {"recorded"})) <= Cardinality(InPhase(inFlight, y, {"recorded"}))
        /\ Cardinality(InPhase(inFlight', y, {"refused"}))
             <= Cardinality(InPhase(inFlight, y, {"refused"})) + (IF c.key = y /\ phase = "refused" THEN 1 ELSE 0)
    <3>1. /\ "counted" \in Rowless /\ phase \in Rowless /\ "counted" \notin {"recorded"} /\ phase \notin {"recorded"}
          /\ "counted" \notin {"refused"}
      BY DEF Rowless
    <3> QED BY <2>1, <3>1
  <2>3. /\ Cardinality(Mine(admitted, y)) \in Nat /\ Cardinality(Bad(admitted, y)) \in Nat
        /\ Cardinality(Mine(mismatched, y)) \in Nat /\ Cardinality(Mine(counted, y)) \in Nat
    BY <1>7, PartsFinite
  <2>4. /\ Cardinality(Mine(admitted, y)) + 2 * Cardinality(InPhase(inFlight, y, Rowless))
             + Cardinality(InPhase(inFlight, y, {"recorded"})) <= 2 * Cardinality(Mine(counted, y))
        /\ Cardinality(Bad(admitted, y)) + Cardinality(InPhase(inFlight, y, {"refused"})) <= Cardinality(Mine(mismatched, y))
    BY DEF KeysInv, BalanceInv
  <2>5. /\ Cardinality(InPhase(inFlight, y, Rowless)) \in Nat /\ Cardinality(InPhase(inFlight', y, Rowless)) \in Nat
        /\ Cardinality(InPhase(inFlight, y, {"recorded"})) \in Nat /\ Cardinality(InPhase(inFlight', y, {"recorded"})) \in Nat
        /\ Cardinality(InPhase(inFlight, y, {"refused"})) \in Nat /\ Cardinality(InPhase(inFlight', y, {"refused"})) \in Nat
    BY <2>1
  <2>6. Cardinality(Mine(admitted', y)) + 2 * Cardinality(InPhase(inFlight', y, Rowless))
          + Cardinality(InPhase(inFlight', y, {"recorded"})) <= 2 * Cardinality(Mine(counted', y))
    BY <1>2, <2>2, <2>3, <2>4, <2>5
  <2>7. Cardinality(Bad(admitted', y)) + Cardinality(InPhase(inFlight', y, {"refused"})) <= Cardinality(Mine(mismatched', y))
    <3>1. CASE mismatched' = mismatched \cup {CallOf(c)}
      BY <1>2, <1>9, <2>2, <2>3, <2>4, <2>5, <3>1
    <3>2. CASE phase = "judged" /\ mismatched' = mismatched
      BY <1>2, <2>2, <2>3, <2>4, <2>5, <3>2
    <3> QED BY <1>4, <3>1, <3>2
  <2> QED BY <2>6, <2>7
<1> QED BY <1>3, <1>6, <1>8, <1>10, <1>11, QuietKeeps DEF KeysInv

(* A call that ends.                                                       *)
LEMMA EndKeepsCalls ==
  ASSUME KeysInv, NEW c \in inFlight, inFlight' = inFlight \ {c}, UNCHANGED <<total, counted, mismatched>>
  PROVE  CallsInv'
<1>1. IsFiniteSet(inFlight')
  BY FS_Subset DEF KeysInv, CallsInv
<1> QED BY <1>1 DEF KeysInv, CallsInv

LEMMA LeaveKeepsKeys == ASSUME KeysInv, NEW c \in inFlight, KeyUse!Leave(c) PROVE KeysInv'
<1>1. /\ inFlight' = inFlight \ {c}
      /\ UNCHANGED <<stats, written, inherited, buffered, admitted, counted, mismatched, clk, total>>
  BY DEF KeyUse!Leave, KeyUse!diskVars, KeyUse!readVars
<1>2. Quiet
  BY DEF KeyUse!Leave, KeyUse!diskVars, KeyUse!readVars, Quiet, KeyUse!NothingServed
<1>3. RowsInv' /\ CountInv' /\ CallsInv'
  BY <1>1, EndKeepsCalls DEF KeysInv, RowsInv, CountInv, KeyUse!Counters
<1>4. BalanceInv'
  <2> SUFFICES ASSUME NEW y
               PROVE  /\ Cardinality(Mine(admitted, y)) + 2 * Cardinality(InPhase(inFlight', y, Rowless))
                           + Cardinality(InPhase(inFlight', y, {"recorded"})) <= 2 * Cardinality(Mine(counted, y))
                      /\ Cardinality(Bad(admitted, y)) + Cardinality(InPhase(inFlight', y, {"refused"}))
                           <= Cardinality(Mine(mismatched, y))
    BY <1>1 DEF BalanceInv, InPhase
  <2>1. \A P : /\ Cardinality(InPhase(inFlight, y, P)) \in Nat /\ Cardinality(InPhase(inFlight', y, P)) \in Nat
               /\ Cardinality(InPhase(inFlight', y, P)) <= Cardinality(InPhase(inFlight, y, P))
    <3>1. PICK F : F = inFlight /\ IsFiniteSet(F) /\ c \in F
      BY DEF KeysInv, CallsInv
    <3>2. \A P : /\ Cardinality(InPhase(F, y, P)) \in Nat /\ Cardinality(InPhase(F \ {c}, y, P)) \in Nat
                 /\ Cardinality(InPhase(F \ {c}, y, P)) <= Cardinality(InPhase(F, y, P))
      BY <3>1, OneLess
    <3> QED BY <1>1, <3>1, <3>2
  <2>2. /\ Cardinality(Mine(admitted, y)) \in Nat /\ Cardinality(Bad(admitted, y)) \in Nat
        /\ Cardinality(Mine(mismatched, y)) \in Nat /\ Cardinality(Mine(counted, y)) \in Nat
    BY PartsFinite, FS_Subset DEF KeysInv, RowsInv, CallsInv
  <2>3. /\ Cardinality(Mine(admitted, y)) + 2 * Cardinality(InPhase(inFlight, y, Rowless))
             + Cardinality(InPhase(inFlight, y, {"recorded"})) <= 2 * Cardinality(Mine(counted, y))
        /\ Cardinality(Bad(admitted, y)) + Cardinality(InPhase(inFlight, y, {"refused"})) <= Cardinality(Mine(mismatched, y))
    BY DEF KeysInv, BalanceInv
  <2> QED BY <2>1, <2>2, <2>3
<1> QED BY <1>2, <1>3, <1>4, QuietKeeps DEF KeysInv

LEMMA RecordKeepsKeys == ASSUME KeysInv, NEW c \in inFlight, KeyUse!Record(c) PROVE KeysInv'
<1>1. PICK row : /\ row = [n |-> c.n, part |-> IF c.phase = "recorded" THEN 2 ELSE 1, key |-> c.key, ts |-> clk,
                           decision |-> IF c.phase = "refused" THEN "identity_mismatch" ELSE "ok"]
                 /\ buffered' = buffered \cup {row} /\ admitted' = admitted \cup {row}
  BY DEF KeyUse!Record, KeyUse!diskVars, KeyUse!readVars
<1>2. row.key = c.key /\ row.ts = clk /\ (row.decision = "identity_mismatch" => c.phase = "refused")
  BY <1>1
<1>3. /\ c.phase \in {"refused", "judged", "recorded"}
      /\ inFlight' = IF c.phase = "judged" THEN KeyUse!Becomes(c, "recorded") ELSE inFlight \ {c}
      /\ UNCHANGED <<stats, written, inherited, counted, mismatched, clk, total>>
  BY DEF KeyUse!Record, KeyUse!diskVars, KeyUse!readVars
<1>4. Quiet
  BY DEF KeyUse!Record, KeyUse!diskVars, KeyUse!readVars, Quiet, KeyUse!NothingServed
<1>5. IsFiniteSet(admitted) /\ IsFiniteSet(inFlight) /\ IsFiniteSet(mismatched) /\ IsFiniteSet(counted) /\ clk \in Nat
  BY FS_Subset DEF KeysInv, RowsInv, CallsInv
<1>6. RowsInv'
  <2>1. IsFiniteSet(admitted')
    BY <1>1, <1>5, FS_AddElement
  <2>2. \A r \in written' \cup buffered' : r.ts \in Nat /\ r.ts <= clk
    BY <1>1, <1>2, <1>3, <1>5 DEF KeysInv, RowsInv
  <2>3. written' \subseteq inherited' \cup admitted' /\ buffered' \subseteq admitted'
    BY <1>1, <1>3 DEF KeysInv, RowsInv
  <2> QED BY <1>3, <2>1, <2>2, <2>3 DEF KeysInv, RowsInv
<1>7. CallsInv'
  <2>1. CASE c.phase = "judged"
    BY <1>3, <2>1, BecomesKeepsCalls DEF KeyPhases
  <2>2. CASE c.phase # "judged"
    BY <1>3, <2>2, EndKeepsCalls
  <2> QED BY <2>1, <2>2
<1>8. CountInv'
  BY <1>3 DEF KeysInv, CountInv, KeyUse!Counters
<1>9. BalanceInv'
  <2> SUFFICES ASSUME NEW y
               PROVE  /\ Cardinality(Mine(admitted', y)) + 2 * Cardinality(InPhase(inFlight', y, Rowless))
                           + Cardinality(InPhase(inFlight', y, {"recorded"})) <= 2 * Cardinality(Mine(counted, y))
                      /\ Cardinality(Bad(admitted', y)) + Cardinality(InPhase(inFlight', y, {"refused"}))
                           <= Cardinality(Mine(mismatched, y))
    BY <1>3 DEF BalanceInv, Mine, Bad, InPhase
  <2>1. ASSUME NEW P
        PROVE  /\ Cardinality(InPhase(inFlight, y, P)) \in Nat /\ Cardinality(InPhase(inFlight', y, P)) \in Nat
               /\ Cardinality(InPhase(inFlight', y, P)) <=
                    Cardinality(InPhase(inFlight, y, P)) - (IF c.key = y /\ c.phase \in P THEN 1 ELSE 0)
                      + (IF c.key = y /\ c.phase = "judged" /\ "recorded" \in P THEN 1 ELSE 0)
    <3>1. Cardinality(InPhase(inFlight, y, P)) \in Nat
      BY <1>5, OneLess
    <3>2. IsFiniteSet(InPhase(inFlight', y, P))
      BY <1>7, FS_Subset DEF CallsInv, InPhase
    <3>3. Cardinality(InPhase(inFlight', y, P)) \in Nat
      BY <3>2, FS_CardinalityType
    <3>4. CASE c.phase = "judged"
      <4>1. c \in [n : Nat, key : Configured, phase : KeyPhases]
        BY DEF KeysInv, CallsInv
      <4>2. PICK x : x = [c EXCEPT !.phase = "recorded"]
        OBVIOUS
      <4>3. x.key = c.key /\ x.phase = "recorded"
        BY <4>1, <4>2
      <4>4. inFlight' = (inFlight \ {c}) \cup {x}
        BY <1>3, <3>4, <4>2 DEF KeyUse!Becomes
      <4>5. PICK F, G : F = inFlight /\ G = inFlight'
        OBVIOUS
      <4>6. G = (F \ {c}) \cup {x} /\ IsFiniteSet(F) /\ c \in F
        BY <1>5, <4>4, <4>5
      <4>7. Cardinality(InPhase(G, y, P)) <= Cardinality(InPhase(F, y, P)) - (IF c.key = y /\ c.phase \in P THEN 1 ELSE 0)
                                                                          + (IF c.key = y /\ x.phase \in P THEN 1 ELSE 0)
        BY <4>3, <4>6, OneMoved
      <4> QED BY <3>1, <3>3, <3>4, <4>3, <4>5, <4>7
    <3>5. CASE c.phase # "judged"
      BY <1>3, <1>5, <3>1, <3>3, <3>5, OneLess
    <3> QED BY <3>4, <3>5
  <2>2. /\ "refused" \in Rowless /\ "judged" \in Rowless /\ "recorded" \notin Rowless
        /\ c.phase = "recorded" \/ (c.phase \in Rowless /\ c.phase # "recorded")
    BY <1>3 DEF Rowless
  <2>3. /\ 2 * Cardinality(InPhase(inFlight', y, Rowless)) + Cardinality(InPhase(inFlight', y, {"recorded"}))
             + (IF c.key = y THEN 1 ELSE 0)
             <= 2 * Cardinality(InPhase(inFlight, y, Rowless)) + Cardinality(InPhase(inFlight, y, {"recorded"}))
        /\ Cardinality(InPhase(inFlight', y, {"refused"})) + (IF c.key = y /\ c.phase = "refused" THEN 1 ELSE 0)
             <= Cardinality(InPhase(inFlight, y, {"refused"}))
    <3>1. PICK o \in Nat, o2 \in Nat, h \in Nat, h2 \in Nat :
            /\ o = Cardinality(InPhase(inFlight, y, Rowless)) /\ o2 = Cardinality(InPhase(inFlight', y, Rowless))
            /\ h = Cardinality(InPhase(inFlight, y, {"recorded"})) /\ h2 = Cardinality(InPhase(inFlight', y, {"recorded"}))
      BY <2>1
    <3>2. /\ o2 <= o - (IF c.key = y /\ c.phase \in Rowless THEN 1 ELSE 0)
                     + (IF c.key = y /\ c.phase = "judged" /\ "recorded" \in Rowless THEN 1 ELSE 0)
          /\ h2 <= h - (IF c.key = y /\ c.phase \in {"recorded"} THEN 1 ELSE 0)
                     + (IF c.key = y /\ c.phase = "judged" /\ "recorded" \in {"recorded"} THEN 1 ELSE 0)
      BY <2>1, <3>1
    <3>3. 2 * o2 + h2 + (IF c.key = y THEN 1 ELSE 0) <= 2 * o + h
      <4>1. CASE c.key # y
        BY <3>2, <4>1
      <4>2. CASE c.key = y /\ c.phase = "recorded"
        BY <2>2, <3>2, <4>2
      <4>3. CASE c.key = y /\ c.phase # "recorded"
        BY <2>2, <3>2, <4>3
      <4> QED BY <4>1, <4>2, <4>3
    <3>4. Cardinality(InPhase(inFlight', y, {"refused"})) + (IF c.key = y /\ c.phase = "refused" THEN 1 ELSE 0)
            <= Cardinality(InPhase(inFlight, y, {"refused"}))
      <4>1. "recorded" \notin {"refused"} /\ (c.phase \in {"refused"} <=> c.phase = "refused")
        OBVIOUS
      <4> QED BY <2>1, <4>1
    <3> QED BY <3>1, <3>3, <3>4
  <2>4. /\ Cardinality(Mine(admitted', y)) <= Cardinality(Mine(admitted, y)) + (IF c.key = y THEN 1 ELSE 0)
        /\ Cardinality(Bad(admitted', y)) <= Cardinality(Bad(admitted, y)) + (IF c.key = y /\ c.phase = "refused" THEN 1 ELSE 0)
        /\ Cardinality(Mine(admitted, y)) \in Nat /\ Cardinality(Bad(admitted, y)) \in Nat
        /\ Cardinality(Mine(admitted', y)) \in Nat /\ Cardinality(Bad(admitted', y)) \in Nat
    <3>1. PICK A, B : A = admitted /\ B = admitted'
      OBVIOUS
    <3>2. B = A \cup {row} /\ IsFiniteSet(A)
      BY <1>1, <1>5, <3>1
    <3>3. /\ Cardinality(Mine(B, y)) <= Cardinality(Mine(A, y)) + (IF row.key = y THEN 1 ELSE 0)
          /\ Cardinality(Bad(B, y)) <= Cardinality(Bad(A, y)) + (IF row.key = y /\ row.decision = "identity_mismatch" THEN 1 ELSE 0)
          /\ Cardinality(Mine(A, y)) \in Nat /\ Cardinality(Bad(A, y)) \in Nat
          /\ Cardinality(Mine(B, y)) \in Nat /\ Cardinality(Bad(B, y)) \in Nat
      BY <3>2, OneMoreRow
    <3> QED BY <1>2, <3>1, <3>3
  <2>5. Cardinality(Mine(mismatched, y)) \in Nat /\ Cardinality(Mine(counted, y)) \in Nat
    BY <1>5, PartsFinite
  <2>6. /\ Cardinality(Mine(admitted, y)) + 2 * Cardinality(InPhase(inFlight, y, Rowless))
             + Cardinality(InPhase(inFlight, y, {"recorded"})) <= 2 * Cardinality(Mine(counted, y))
        /\ Cardinality(Bad(admitted, y)) + Cardinality(InPhase(inFlight, y, {"refused"})) <= Cardinality(Mine(mismatched, y))
    BY DEF KeysInv, BalanceInv
  <2>7. /\ Cardinality(InPhase(inFlight, y, Rowless)) \in Nat /\ Cardinality(InPhase(inFlight', y, Rowless)) \in Nat
        /\ Cardinality(InPhase(inFlight, y, {"recorded"})) \in Nat /\ Cardinality(InPhase(inFlight', y, {"recorded"})) \in Nat
        /\ Cardinality(InPhase(inFlight, y, {"refused"})) \in Nat /\ Cardinality(InPhase(inFlight', y, {"refused"})) \in Nat
    BY <2>1
  <2> QED BY <2>3, <2>4, <2>5, <2>6, <2>7
<1> QED BY <1>4, <1>6, <1>7, <1>8, <1>9, QuietKeeps DEF KeysInv

(* A step that leaves the counters alone and only moves rows to the disk.  *)
LEMMA WriteKeepsKeys == ASSUME KeyUse!KeysConstants, KeysInv, KeyUse!Write PROVE KeysInv'
<1>1. /\ written' = written \cup buffered /\ buffered' = {} /\ reports' = {}
      /\ UNCHANGED <<inFlight, past, inherited, stats, admitted, counted, mismatched, folds, scan, clk, total>>
  BY DEF KeyUse!Write, KeyUse!readVars, KeyUse!NothingServed
<1>2. RowsInv'
  <2>1. IsFiniteSet(written')
    BY <1>1, FS_Union, FS_Subset DEF KeysInv, RowsInv
  <2>2. written' \cup buffered' = written \cup buffered
    BY <1>1
  <2> QED BY <1>1, <2>1, <2>2 DEF KeysInv, RowsInv
<1>3. CallsInv' /\ CountInv' /\ BalanceInv'
  BY <1>1 DEF KeysInv, CallsInv, CountInv, BalanceInv, KeyUse!Counters
<1>4. PastInv' /\ ScanInv' /\ ReportInv'
  BY <1>1 DEF KeysInv, PastInv, ScanInv, ReportInv, HasUntil
<1>5. Later /\ MaxScan \in Nat
  BY <1>1 DEF KeysInv, RowsInv, Later, KeyUse!KeysConstants
<1>6. CacheInv'
  BY <1>1, <1>5, CacheStays DEF KeysInv
<1> QED BY <1>2, <1>3, <1>4, <1>6 DEF KeysInv

LEMMA TickKeepsKeys == ASSUME KeyUse!KeysConstants, KeysInv, KeyUse!Tick PROVE KeysInv'
<1>1. /\ clk' = clk + 1 /\ \A r \in Readers : \A s \in scan[r] : clk < s.began + MaxScan
      /\ past' = [t \in 1 .. (clk + 1) |-> IF t = clk + 1 THEN written ELSE past[t]]
      /\ UNCHANGED <<inFlight, buffered, written, inherited, stats, admitted, counted, mismatched, folds, scan, total>>
      /\ reports' = {}
  BY DEF KeyUse!Tick, KeyUse!NothingServed, KeyUse!callVars, KeyUse!readVars
<1>0. clk \in Nat /\ clk + 1 \in Nat
  BY DEF KeysInv, RowsInv
<1>2. RowsInv'
  BY <1>0, <1>1 DEF KeysInv, RowsInv
<1>7. CallsInv' /\ CountInv' /\ BalanceInv'
  BY <1>1 DEF KeysInv, CallsInv, CountInv, BalanceInv, KeyUse!Counters
<1>3. Later /\ MaxScan \in Nat
  BY <1>0, <1>1 DEF Later, KeyUse!KeysConstants
<1>4. PastInv'
  <2>1. DOMAIN past' = 1 .. clk' /\ past'[clk + 1] = written /\ \A t \in 1 .. clk : past'[t] = past[t]
    BY <1>0, <1>1
  <2>2. \A t \in 1 .. clk' : t = clk + 1 \/ t \in 1 .. clk
    BY <1>0, <1>1
  <2>3. \A t \in 1 .. clk' : past'[t] \subseteq written'
    BY <1>1, <2>1, <2>2 DEF KeysInv, PastInv
  <2>4. ASSUME NEW t \in 1 .. clk', NEW u \in 1 .. clk', u <= t PROVE past'[u] \subseteq past'[t]
    <3>1. CASE t = clk + 1
      BY <1>1, <2>1, <2>3, <3>1
    <3>2. CASE t \in 1 .. clk
      <4>1. u \in 1 .. clk
        BY <1>0, <2>2, <2>4, <3>2
      <4> QED BY <2>1, <2>4, <3>2, <4>1 DEF KeysInv, PastInv, HasUntil
    <3> QED BY <2>2, <3>1, <3>2
  <2> QED BY <2>1, <2>3, <2>4 DEF PastInv, HasUntil
<1>5. ScanInv'
  <2> SUFFICES ASSUME NEW r \in Readers, NEW s \in scan[r]
               PROVE  s.began \in Nat /\ s.began <= clk' /\ clk' <= s.began + MaxScan /\ s.rows \subseteq written'
                      /\ HasUntil(s.rows, s.began)'
    BY <1>1 DEF ScanInv, HasUntil
  <2>1. s.began \in Nat /\ s.began <= clk /\ s.rows \subseteq written /\ HasUntil(s.rows, s.began)
    BY DEF KeysInv, ScanInv
  <2>2. HasUntil(s.rows, s.began)'
    <3>1. PICK t, R : t \in Int /\ t = s.began /\ R = s.rows
      BY <2>1
    <3>2. HasUntil(R, t)'
      BY <1>3, <2>1, <3>1, UntilStays
    <3> QED BY <3>1, <3>2
  <2>3. clk < s.began + MaxScan
    BY <1>1
  <2> QED BY <1>0, <1>1, <1>3, <2>1, <2>2, <2>3
<1>6. CacheInv' /\ ReportInv'
  BY <1>1, <1>3, CacheStays DEF KeysInv, ReportInv
<1> QED BY <1>2, <1>4, <1>5, <1>6, <1>7 DEF KeysInv

(* Steps of the readers: rows, counters and clock stay.                    *)
Reading == UNCHANGED <<inFlight, buffered, written, past, inherited, stats, admitted, counted, mismatched, clk, total>>

LEMMA ReadingKeeps ==
  ASSUME KeysInv, Reading
  PROVE  RowsInv' /\ CallsInv' /\ CountInv' /\ BalanceInv' /\ PastInv'
<1>1. RowsInv' /\ PastInv' /\ CallsInv'
  BY DEF KeysInv, Reading, RowsInv, CallsInv, PastInv, HasUntil
<1>2. CountInv' /\ BalanceInv'
  BY DEF KeysInv, Reading, CountInv, BalanceInv, KeyUse!Counters
<1> QED BY <1>1, <1>2

(* What is served without history joins no rows.                           *)
LEMMA UnavailableServed ==
  ASSUME KeysInv, Reading, KeyUse!Serve(FALSE, <<>>)
  PROVE  ReportInv'
<1>1. DOMAIN KeyUse!Fold({}) = {}
  BY DEF KeyUse!Fold
<1>2. DOMAIN <<>> = {r.key : r \in {}} /\ \A k : Entry(<<>>, k) = Entry(KeyUse!Fold({}), k)
  BY <1>1 DEF Entry
<1>3. PICK R, f, available : R = {} /\ f = <<>> /\ available = FALSE
  OBVIOUS
<1>4. /\ DOMAIN f = {r.key : r \in R} /\ \A k : Entry(f, k) = Entry(KeyUse!Fold(R), k)
      /\ R \subseteq written /\ ~available
  BY <1>2, <1>3
<1>5. reports' = {KeyUse!Report(available, f)}
  BY <1>3 DEF KeyUse!Serve
<1> QED BY <1>4, <1>5, ReportServed DEF KeysInv, Reading

(* A fold of what was on disk MaxScan ago when it was made, Ttl ago.       *)
LEMMA FoldServed ==
  ASSUME KeyUse!KeysConstants, KeysInv, Reading, NEW R, R \subseteq written, NEW f, f = KeyUse!Fold(R),
         NEW t \in Int, t >= clk - (HistoryTtl + MaxScan), HasUntil(R, t), KeyUse!Serve(TRUE, f)
  PROVE  ReportInv'
<1>1. DOMAIN f = {r.key : r \in R} /\ \A k : Entry(f, k) = Entry(KeyUse!Fold(R), k)
  BY DEF KeyUse!Fold, Entry
<1>2. HasUntil(R, clk - (HistoryTtl + MaxScan))
  BY DEF HasUntil, KeysInv, RowsInv, KeyUse!KeysConstants
<1>3. PICK available : available = TRUE
  OBVIOUS
<1>4. reports' = {KeyUse!Report(available, f)}
  BY <1>3 DEF KeyUse!Serve
<1> QED BY <1>1, <1>2, <1>4, ReportServed DEF KeysInv, Reading

LEMMA RequestKeepsKeys ==
  ASSUME KeyUse!KeysConstants, KeysInv, NEW r \in Readers, KeyUse!Request(r)
  PROVE  KeysInv'
<1>1. Reading /\ folds' = folds
  BY DEF KeyUse!Request, Reading, KeyUse!callVars, KeyUse!diskVars
<1>2. RowsInv' /\ CallsInv' /\ CountInv' /\ BalanceInv' /\ PastInv' /\ CacheInv'
  BY <1>1, ReadingKeeps DEF KeysInv, Reading, CacheInv, HasUntil
<1>3. CASE KeyUse!Serve(FALSE, <<>>) /\ UNCHANGED scan
  BY <1>1, <1>2, <1>3, UnavailableServed DEF KeysInv, Reading, ScanInv, HasUntil
<1>4. CASE (\E c \in KeyUse!Fresh : KeyUse!Serve(TRUE, c.fold)) /\ UNCHANGED scan
  <2>1. PICK c \in folds : clk - c.at < HistoryTtl /\ KeyUse!Serve(TRUE, c.fold)
    BY <1>4 DEF KeyUse!Fresh
  <2>2. PICK R : R \subseteq written /\ c.fold = KeyUse!Fold(R) /\ HasUntil(R, c.at - MaxScan) /\ c.at \in Nat
    BY DEF KeysInv, CacheInv
  <2>3. PICK t, f : t \in Int /\ t = c.at - MaxScan /\ f = c.fold /\ t >= clk - (HistoryTtl + MaxScan)
    BY <2>1, <2>2 DEF KeysInv, RowsInv, KeyUse!KeysConstants
  <2>4. ReportInv'
    BY <1>1, <2>1, <2>2, <2>3, FoldServed
  <2>5. ScanInv'
    BY <1>1, <1>4 DEF KeysInv, Reading, ScanInv, HasUntil
  <2> QED BY <1>2, <2>4, <2>5 DEF KeysInv
<1>5. CASE scan' = [scan EXCEPT ![r] = {[began |-> clk, rows |-> written]}] /\ KeyUse!NothingServed
  <2>1. ReportInv'
    BY <1>5 DEF KeyUse!NothingServed, ReportInv
  <2> DEFINE new == [began |-> clk, rows |-> written]
  <2>2. new.began = clk /\ new.rows = written
    OBVIOUS
  <2>3. HasUntil(written, clk)
    BY DEF KeysInv, PastInv, HasUntil
  <2>4. ASSUME NEW x \in Readers, NEW s \in scan'[x]
        PROVE  s.began \in Nat /\ s.began <= clk /\ clk <= s.began + MaxScan /\ s.rows \subseteq written /\ HasUntil(s.rows, s.began)
    <3>1. CASE s \in scan[x]
      BY <3>1 DEF KeysInv, ScanInv
    <3>2. CASE s \notin scan[x]
      <4>1. s = new
        BY <1>5, <2>4, <3>2
      <4> QED BY <2>2, <2>3, <4>1 DEF KeysInv, RowsInv, KeyUse!KeysConstants
    <3> QED BY <3>1, <3>2
  <2>5. ScanInv'
    BY <1>1, <2>4 DEF Reading, ScanInv, HasUntil
  <2> QED BY <1>2, <2>1, <2>5 DEF KeysInv
<1> QED BY <1>3, <1>4, <1>5 DEF KeyUse!Request

LEMMA ScanDoneKeepsKeys ==
  ASSUME KeyUse!KeysConstants, KeysInv, NEW r \in Readers, KeyUse!ScanDone(r)
  PROVE  KeysInv'
<1>1. Reading /\ scan' = [scan EXCEPT ![r] = {}]
  BY DEF KeyUse!ScanDone, Reading, KeyUse!callVars, KeyUse!diskVars
<1>2. RowsInv' /\ CallsInv' /\ CountInv' /\ BalanceInv' /\ PastInv'
  BY <1>1, ReadingKeeps
<1>3. ScanInv'
  <2>1. \A x \in Readers : scan'[x] \subseteq scan[x]
    BY <1>1
  <2> QED BY <1>1, <2>1 DEF KeysInv, Reading, ScanInv, HasUntil
<1>4. PICK s \in scan[r] : folds' = {[at |-> clk, fold |-> KeyUse!Fold(s.rows)]} /\ KeyUse!Serve(TRUE, KeyUse!Fold(s.rows))
  BY DEF KeyUse!ScanDone
<1>5. PICK R, f : R = s.rows /\ f = KeyUse!Fold(R)
  OBVIOUS
<1>6. /\ R \subseteq written /\ HasUntil(R, s.began) /\ s.began \in Nat /\ s.began <= clk /\ clk <= s.began + MaxScan
      /\ clk \in Nat /\ HistoryTtl \in Nat /\ MaxScan \in Nat
  BY <1>5 DEF KeysInv, ScanInv, RowsInv, KeyUse!KeysConstants
<1>7. ReportInv'
  <2>1. PICK t \in Int : t = s.began /\ t >= clk - (HistoryTtl + MaxScan)
    BY <1>6
  <2>2. HasUntil(R, t) /\ KeyUse!Serve(TRUE, f)
    BY <1>4, <1>5, <1>6, <2>1
  <2> QED BY <1>1, <1>5, <1>6, <2>1, <2>2, FoldServed
<1>8. CacheInv'
  <2> DEFINE new == [at |-> clk, fold |-> f]
  <2>1. new.at = clk /\ new.fold = f
    OBVIOUS
  <2>2. folds' = {new}
    BY <1>4, <1>5
  <2> HIDE DEF new
  <2>3. HasUntil(R, clk - MaxScan)
    BY <1>6 DEF HasUntil
  <2> QED BY <1>1, <1>5, <1>6, <2>1, <2>2, <2>3 DEF Reading, CacheInv, HasUntil
<1> QED BY <1>2, <1>3, <1>7, <1>8 DEF KeysInv

LEMMA ScanFailsKeepsKeys == ASSUME KeysInv, NEW r \in Readers, KeyUse!ScanFails(r) PROVE KeysInv'
<1>1. Reading /\ scan' = [scan EXCEPT ![r] = {}] /\ folds' = folds /\ KeyUse!Serve(FALSE, <<>>)
  BY DEF KeyUse!ScanFails, Reading, KeyUse!callVars, KeyUse!diskVars
<1>2. \A x \in Readers : scan'[x] \subseteq scan[x]
  BY <1>1
<1>3. ScanInv' /\ CacheInv'
  BY <1>1, <1>2 DEF KeysInv, Reading, ScanInv, CacheInv, HasUntil
<1> QED BY <1>1, <1>3, ReadingKeeps, UnavailableServed DEF KeysInv

LEMMA RestartKeepsKeys == ASSUME KeysInv, KeyUse!Restart PROVE KeysInv'
<1>1. /\ stats' = <<>> /\ inFlight' = {} /\ buffered' = {} /\ counted' = {} /\ mismatched' = {} /\ admitted' = {}
      /\ inherited' = written /\ folds' = {} /\ reports' = {} /\ scan' = [r \in Readers |-> {}]
      /\ UNCHANGED <<written, past, clk, total>>
  BY DEF KeyUse!Restart, KeyUse!NothingServed
<1>2. RowsInv' /\ CallsInv' /\ PastInv'
  BY <1>1, FS_EmptySet DEF KeysInv, RowsInv, CallsInv, PastInv, HasUntil
<1>3. CountInv'
  <2>1. \A k : /\ KeyUse!Counters(k)'.calls = 0 /\ KeyUse!Counters(k)'.mismatches = 0
              /\ KeyUse!Counters(k)' \in [calls : Nat, mismatches : Nat, last : Nat]
    BY <1>1 DEF KeyUse!Counters
  <2>2. \A k : Cardinality(Mine({}, k)) = 0
    BY EmptyParts
  <2> QED BY <1>1, <2>1, <2>2 DEF CountInv, Mine
<1>4. BalanceInv'
  <2>1. \A k : /\ Cardinality(Mine({}, k)) = 0 /\ Cardinality(Bad({}, k)) = 0
              /\ \A P : Cardinality(InPhase({}, k, P)) = 0
    BY EmptyParts
  <2>2. \A k : /\ Mine(admitted, k)' = Mine({}, k) /\ Bad(admitted, k)' = Bad({}, k) /\ Mine(counted, k)' = Mine({}, k)
              /\ Mine(mismatched, k)' = Mine({}, k) /\ \A P : InPhase(inFlight, k, P)' = InPhase({}, k, P)
    BY <1>1 DEF Mine, Bad, InPhase
  <2> QED BY <2>1, <2>2 DEF BalanceInv
<1>5. ScanInv' /\ CacheInv' /\ ReportInv'
  BY <1>1 DEF ScanInv, CacheInv, ReportInv
<1> QED BY <1>2, <1>3, <1>4, <1>5 DEF KeysInv

LEMMA KeysStep == KeyUse!KeysConstants /\ KeysInv /\ [KeyUse!Next]_KeyUse!vars => KeysInv'
<1> SUFFICES ASSUME KeyUse!KeysConstants, KeysInv, [KeyUse!Next]_KeyUse!vars PROVE KeysInv'
  OBVIOUS
<1>1. CASE UNCHANGED KeyUse!vars
  <2>1. Reading /\ UNCHANGED <<folds, scan, reports>>
    BY <1>1 DEF KeyUse!vars, KeyUse!callVars, KeyUse!diskVars, KeyUse!readVars, Reading
  <2>2. ScanInv' /\ CacheInv'
    BY <2>1 DEF KeysInv, Reading, ScanInv, CacheInv, HasUntil
  <2>3. ReportInv'
    BY <2>1 DEF KeysInv, Reading, ReportInv, Joined, HasUntil, KeyUse!Counters
  <2> QED BY <2>1, <2>2, <2>3, ReadingKeeps DEF KeysInv
<1>2. CASE \E k \in Configured : KeyUse!Count(k)
  BY <1>2, CountKeepsKeys
<1>3. CASE \E c \in inFlight : KeyUse!Judge(c) \/ KeyUse!Record(c) \/ KeyUse!Leave(c)
  BY <1>3, JudgeKeepsKeys, RecordKeepsKeys, LeaveKeepsKeys
<1>4. CASE KeyUse!Write \/ KeyUse!Restart \/ KeyUse!Tick
  BY <1>4, WriteKeepsKeys, RestartKeepsKeys, TickKeepsKeys
<1>5. CASE \E r \in Readers : KeyUse!Request(r) \/ KeyUse!ScanDone(r) \/ KeyUse!ScanFails(r)
  BY <1>5, RequestKeepsKeys, ScanDoneKeepsKeys, ScanFailsKeepsKeys
<1> QED BY <1>1, <1>2, <1>3, <1>4, <1>5 DEF KeyUse!Next

LEMMA RecentHistory == KeyUse!KeysConstants /\ KeysInv => KeyUse!HistoryIsRecent
<1> SUFFICES ASSUME KeyUse!KeysConstants, KeysInv, NEW p \in reports, p.available, p.at > HistoryTtl + MaxScan,
                    NEW row \in past[p.at - (HistoryTtl + MaxScan)]
             PROVE  /\ row.key \in DOMAIN p.keys
                    /\ p.keys[row.key].history.first <= row.ts /\ p.keys[row.key].history.last >= row.ts
                    /\ p.keys[row.key].history.calls >=
                         KeyUse!Cardinality({o \in past[p.at - (HistoryTtl + MaxScan)] : o.key = row.key})
  BY DEF KeyUse!HistoryIsRecent
<1>1. PICK R : Joined(p, R)
  BY DEF KeysInv, ReportInv
<1>2. p.at \in Nat /\ p.at <= clk /\ clk \in Nat /\ HistoryTtl \in Nat /\ MaxScan \in Nat /\ RowsInv
  BY DEF KeysInv, ReportInv, RowsInv, KeyUse!KeysConstants
<1>3. PICK t, old, k : t = p.at - (HistoryTtl + MaxScan) /\ old = past[t] /\ k = row.key
  OBVIOUS
<1>4. t \in 1 .. clk /\ row \in old
  BY <1>2, <1>3
<1>5. old \subseteq R /\ R \subseteq written
  BY <1>1, <1>3, <1>4 DEF Joined, HasUntil
<1>6. k \in {r.key : r \in R} /\ k \in DOMAIN p.keys /\ row \in Mine(R, k)
  BY <1>1, <1>3, <1>4, <1>5 DEF Joined, Mine
<1>7. /\ k \in DOMAIN KeyUse!Fold(R) /\ KeyUse!Fold(R)[k].calls = Cardinality(Mine(R, k))
      /\ KeyUse!Fold(R)[k].first <= row.ts /\ KeyUse!Fold(R)[k].last >= row.ts
  BY <1>2, <1>5, <1>6, Folded
<1>8. p.keys[k].history = KeyUse!Fold(R)[k]
  BY <1>1, <1>6, <1>7 DEF Joined, Entry
<1>9. IsFiniteSet(Mine(R, k)) /\ Mine(old, k) \subseteq Mine(R, k)
  BY <1>2, <1>5, FS_Subset DEF RowsInv, Mine
<1>10. Cardinality(Mine(old, k)) <= Cardinality(Mine(R, k)) /\ Cardinality(Mine(old, k)) \in Nat /\ Cardinality(Mine(R, k)) \in Nat
  BY <1>9, FS_Subset, FS_CardinalityType
<1>11. KeyUse!Cardinality({o \in past[p.at - (HistoryTtl + MaxScan)] : o.key = row.key}) = Cardinality(Mine(old, k))
  BY <1>3, ReportCardinality DEF Mine
<1> QED BY <1>3, <1>6, <1>7, <1>8, <1>10, <1>11

(* The rows of a report are older than the process or of its calls.        *)
LEMMA RowsExplained ==
  ASSUME KeysInv, NEW R, R \subseteq written, NEW k
  PROVE  /\ Cardinality(Mine(R, k)) <= Cardinality(Mine(inherited, k)) + 2 * Cardinality(Mine(counted, k))
         /\ Cardinality(Bad(R, k)) <= Cardinality(Bad(inherited, k)) + Cardinality(Mine(mismatched, k))
<1>1. /\ IsFiniteSet(inherited) /\ IsFiniteSet(admitted) /\ IsFiniteSet(inFlight)
      /\ IsFiniteSet(counted) /\ IsFiniteSet(mismatched) /\ R \subseteq inherited \cup admitted
  BY FS_Subset DEF KeysInv, RowsInv, CallsInv
<1>2. ASSUME NEW A, NEW B, NEW C, IsFiniteSet(A), IsFiniteSet(B), C \subseteq A \cup B
      PROVE  Cardinality(C) <= Cardinality(A) + Cardinality(B)
  <2>1. IsFiniteSet(A \cup B) /\ Cardinality(A \cup B) = Cardinality(A) + Cardinality(B) - Cardinality(A \cap B)
    BY <1>2, FS_Union
  <2>2. Cardinality(C) <= Cardinality(A \cup B) /\ IsFiniteSet(C) /\ IsFiniteSet(A \cap B)
    BY <1>2, <2>1, FS_Subset
  <2> QED BY <1>2, <2>1, <2>2, FS_CardinalityType
<1>3. /\ Mine(R, k) \subseteq Mine(inherited, k) \cup Mine(admitted, k)
      /\ Bad(R, k) \subseteq Bad(inherited, k) \cup Bad(admitted, k)
  BY <1>1 DEF Mine, Bad
<1>4. /\ IsFiniteSet(Mine(inherited, k)) /\ IsFiniteSet(Mine(admitted, k))
      /\ IsFiniteSet(Bad(inherited, k)) /\ IsFiniteSet(Bad(admitted, k))
      /\ {Cardinality(Mine(inherited, k)), Cardinality(Mine(admitted, k)), Cardinality(Bad(inherited, k)), Cardinality(Bad(admitted, k)),
          Cardinality(Mine(counted, k)), Cardinality(Mine(mismatched, k))} \subseteq Nat
  BY <1>1, PartsFinite
<1>5. /\ Cardinality(Mine(R, k)) <= Cardinality(Mine(inherited, k)) + Cardinality(Mine(admitted, k))
      /\ Cardinality(Bad(R, k)) <= Cardinality(Bad(inherited, k)) + Cardinality(Bad(admitted, k))
  BY <1>2, <1>3, <1>4
<1>6. IsFiniteSet(Mine(R, k)) /\ IsFiniteSet(Bad(R, k))
  BY <1>3, <1>4, FS_Union, FS_Subset
<1>7. Cardinality(Mine(R, k)) \in Nat /\ Cardinality(Bad(R, k)) \in Nat
  BY <1>6, FS_CardinalityType
<1>8. \A P : Cardinality(InPhase(inFlight, k, P)) \in Nat
  <2>1. \A P : IsFiniteSet(InPhase(inFlight, k, P))
    BY <1>1, FS_Subset DEF InPhase
  <2> QED BY <2>1, FS_CardinalityType
<1>9. /\ Cardinality(Mine(admitted, k)) <= 2 * Cardinality(Mine(counted, k))
      /\ Cardinality(Bad(admitted, k)) <= Cardinality(Mine(mismatched, k))
  <2>1. /\ Cardinality(Mine(admitted, k)) + 2 * Cardinality(InPhase(inFlight, k, Rowless))
             + Cardinality(InPhase(inFlight, k, {"recorded"})) <= 2 * Cardinality(Mine(counted, k))
        /\ Cardinality(Bad(admitted, k)) + Cardinality(InPhase(inFlight, k, {"refused"})) <= Cardinality(Mine(mismatched, k))
    BY DEF KeysInv, BalanceInv
  <2>2. /\ Cardinality(InPhase(inFlight, k, Rowless)) \in Nat /\ Cardinality(InPhase(inFlight, k, {"recorded"})) \in Nat
        /\ Cardinality(InPhase(inFlight, k, {"refused"})) \in Nat
    BY <1>8
  <2> QED BY <1>4, <2>1, <2>2
<1> QED BY <1>4, <1>5, <1>7, <1>9

LEMMA AgreeingCounts == KeysInv => KeyUse!CountsAgree
<1> SUFFICES ASSUME KeysInv, NEW p \in reports, NEW k \in DOMAIN p.keys
             PROVE  /\ p.keys[k].since.mismatches <= p.keys[k].since.calls
                    /\ p.keys[k].history.calls <= Cardinality(Mine(inherited, k)) + 2 * p.keys[k].since.calls
                    /\ p.keys[k].history.mismatches <= Cardinality(Bad(inherited, k)) + p.keys[k].since.mismatches
  <2>1. \A k : /\ {r \in inherited : r.key = k} = Mine(inherited, k)
              /\ {r \in {r \in inherited : r.key = k} : r.decision = "identity_mismatch"} = Bad(inherited, k)
    BY DEF Mine, Bad
  <2> QED BY <2>1, ReportCardinality DEF KeyUse!CountsAgree
<1>1. PICK R : Joined(p, R)
  BY DEF KeysInv, ReportInv
<1>2. /\ p.keys[k].since.calls = Cardinality(Mine(counted, k))
      /\ p.keys[k].since.mismatches = Cardinality(Mine(mismatched, k))
  BY <1>1 DEF Joined, KeysInv, CountInv
<1>3. Cardinality(Mine(mismatched, k)) <= Cardinality(Mine(counted, k))
  <2>1. IsFiniteSet(Mine(counted, k)) /\ Mine(mismatched, k) \subseteq Mine(counted, k)
    BY FS_Subset DEF KeysInv, CallsInv, Mine
  <2> QED BY <2>1, FS_Subset
<1>4. R \subseteq written /\ RowsInv
  BY <1>1 DEF KeysInv, Joined
<1>5. /\ Cardinality(Mine(R, k)) <= Cardinality(Mine(inherited, k)) + 2 * Cardinality(Mine(counted, k))
      /\ Cardinality(Bad(R, k)) <= Cardinality(Bad(inherited, k)) + Cardinality(Mine(mismatched, k))
  BY <1>4, RowsExplained
<1>6. CASE k \in DOMAIN KeyUse!Fold(R)
  <2>1. /\ p.keys[k].history = KeyUse!Fold(R)[k]
        /\ KeyUse!Fold(R)[k].calls = Cardinality(Mine(R, k)) /\ KeyUse!Fold(R)[k].mismatches = Cardinality(Bad(R, k))
    BY <1>1, <1>4, <1>6, Folded DEF Joined, Entry
  <2> QED BY <1>2, <1>3, <1>5, <2>1
<1>7. CASE k \notin DOMAIN KeyUse!Fold(R)
  <2>1. p.keys[k].history.calls = 0 /\ p.keys[k].history.mismatches = 0
    BY <1>1, <1>7 DEF Joined, Entry, KeyUse!NoHistory
  <2>2. /\ Cardinality(Mine(inherited, k)) \in Nat /\ Cardinality(Bad(inherited, k)) \in Nat
        /\ Cardinality(Mine(counted, k)) \in Nat /\ Cardinality(Mine(mismatched, k)) \in Nat
    BY PartsFinite, FS_Subset DEF KeysInv, RowsInv, CallsInv
  <2> QED BY <1>2, <1>3, <2>1, <2>2
<1> QED BY <1>6, <1>7

(* For any keys and readers, any life of the cache and any length of a     *)
(* scan, wherever each call is between its count, its judgement and its    *)
(* rows when a scan begins and when the report is built, with failing      *)
(* scans, restarts and crashes: a report of GET /v1/keys misses no row     *)
(* older than a cache life and a scan, and shows of a key no row and no    *)
(* mismatch that neither its counters nor the rows before this process     *)
(* explain (messages, KeyStats, list_keys, cached_history_fold,            *)
(* build_report).                                                          *)
THEOREM ReportsAreCurrent ==
  ASSUME KeyUse!KeysConstants
  PROVE  KeyUse!Spec => []KeyReportsCurrent
<1>1. KeysInv => KeyReportsCurrent
  BY RecentHistory, AgreeingCounts DEF KeyReportsCurrent, KeyUse!KeyReportsCurrent
<1> QED BY <1>1, KeysInit, KeysStep, PTL DEF KeyUse!Spec

-----------------------------------------------------------------------------
(* The semantic cache (SemanticCache), for any questions, similarity,      *)
(* lifetime and capacity, and any number of overlapping calls.             *)

(* An entry is a success of an eligible question, and the entries are      *)
(* numbered in the order of their times.                                   *)
EntryOf(e) ==
  /\ e.ok /\ e.q \in Questions /\ Cached!Eligible(e.q) /\ e.core = Cached!Core(e.q)
  /\ e.created \in Nat /\ e.created <= hour
  /\ e.nr \in Nat /\ e.nr <= Cached!Cardinality(stored)

InTime(e, f) == (e.nr = f.nr => e = f) /\ (e.nr < f.nr => e.created <= f.created)

StoreInv ==
  /\ hour \in Nat /\ IsFiniteSet(stored)
  /\ waiting \in [Callers -> {<<>>} \cup {<<q>> : q \in Questions}]
  /\ \A e \in stored : EntryOf(e)
  /\ \A e, f \in stored : InTime(e, f)
  /\ \A e \in stored : Cached!Partition(e.q) \in DOMAIN store
  /\ \A p \in DOMAIN store : store[p] \subseteq {e \in stored : Cached!Partition(e.q) = p}
  /\ CacheHonest

LEMMA CacheCardinality == \A S : Cached!Cardinality(S) = Cardinality(S)
BY DEF Cached!Cardinality, Cardinality

(* A set of entries has one that was pushed first.                         *)
LEMMA OldestExists ==
  ASSUME NEW S, S # {}, \A e \in S : e.nr \in Nat
  PROVE  Cached!Oldest(S) \in S /\ \A f \in S : Cached!Oldest(S).nr <= f.nr
<1> DEFINE T == {e.nr : e \in S}
<1>1. T \subseteq Nat /\ T # {}
  OBVIOUS
<1>2. PICK n \in T : \A m \in T : n <= m
  <2> HIDE DEF T
  <2> QED BY <1>1, LeastNat
<1>3. PICK e \in S : e.nr = n
  BY <1>2
<1>4. \A f \in S : e.nr <= f.nr
  BY <1>2, <1>3
<1> QED BY <1>3, <1>4 DEF Cached!Oldest

(* A look-up that matches finds a best match.                              *)
LEMMA BestMatches ==
  ASSUME Cached!CacheConstants, StoreInv, NEW q \in Questions, NEW S \in SUBSET stored,
         Cached!HasMatch(Cached!Core(q), S)
  PROVE  Cached!Best(Cached!Core(q), S) \in S /\ Cached!Matches(Cached!Core(q), Cached!Best(Cached!Core(q), S))
<1> DEFINE core == Cached!Core(q)
           ok == {e \in S : Cached!Matches(core, e)}
           T == {100 - Sim(core, e.core) : e \in ok}
<1>1. ok # {}
  BY DEF Cached!HasMatch
<1>2. \A e \in ok : e.nr \in Nat /\ Sim(core, e.core) \in Int /\ Sim(core, e.core) <= 100
  BY DEF StoreInv, EntryOf, Cached!CacheConstants
<1>3. T \subseteq Nat /\ T # {}
  BY <1>1, <1>2
<1>4. PICK d \in T : \A x \in T : d <= x
  <2> HIDE DEF T
  <2> QED BY <1>3, LeastNat
<1> DEFINE top == {e \in ok : 100 - Sim(core, e.core) = d}
<1>5. top # {} /\ \A e \in top : e.nr \in Nat
  BY <1>2, <1>4
<1>6. Cached!Oldest(top) \in top /\ \A f \in top : Cached!Oldest(top).nr <= f.nr
  <2> HIDE DEF top
  <2> QED BY <1>5, OldestExists
<1>7. \A e \in ok : 100 - Sim(core, e.core) >= d
  BY <1>4
<1>8. \A f \in ok : \/ Sim(core, f.core) < Sim(core, Cached!Oldest(top).core)
                    \/ Sim(core, f.core) = Sim(core, Cached!Oldest(top).core) /\ Cached!Oldest(top).nr <= f.nr
  <2> SUFFICES ASSUME NEW f \in ok
               PROVE  \/ Sim(core, f.core) < Sim(core, Cached!Oldest(top).core)
                      \/ Sim(core, f.core) = Sim(core, Cached!Oldest(top).core) /\ Cached!Oldest(top).nr <= f.nr
    OBVIOUS
  <2>1. CASE f \in top
    BY <1>6, <2>1, <1>2
  <2>2. CASE f \notin top
    BY <1>6, <1>7, <2>2, <1>2
  <2> QED BY <2>1, <2>2
<1>9. Cached!Oldest(top) \in ok
  BY <1>6
<1>10. Cached!Best(core, S) \in ok
  <2> HIDE DEF top, T
  <2>1. \E e \in ok : \A f \in ok : \/ Sim(core, f.core) < Sim(core, e.core)
                                    \/ Sim(core, f.core) = Sim(core, e.core) /\ e.nr <= f.nr
    <3> HIDE DEF ok
    <3> QED BY <1>8, <1>9
  <2> QED BY <2>1, Zenon DEF Cached!Best
<1> QED BY <1>10

LEMMA CacheInit == ASSUME Cached!CacheConstants PROVE Cached!Init => StoreInv
<1> SUFFICES ASSUME Cached!Init PROVE StoreInv
  OBVIOUS
<1>1. IsFiniteSet({})
  BY FS_EmptySet
<1>2. DOMAIN store = {}
  BY DEF Cached!Init
<1> QED BY <1>1, <1>2 DEF Cached!Init, StoreInv, CacheHonest, Cached!HitsAnswerTheQuestion, Cached!NewestKept

(* Dropping what has expired keeps the newest that have not.               *)
LEMMA LiveKeeps ==
  ASSUME Cached!CacheConstants, StoreInv, NEW p
  PROVE  /\ Cached!Live(p) \subseteq {e \in stored : Cached!Partition(e.q) = p}
         /\ \A e \in Cached!Live(p) : hour - e.created <= CacheTtl
         /\ p \in DOMAIN store =>
              /\ Cardinality(Cached!Live(p)) <= Capacity
              /\ \A e \in stored : (Cached!Partition(e.q) = p /\ hour - e.created <= CacheTtl) =>
                   \/ e \in Cached!Live(p)
                   \/ Cardinality(Cached!Live(p)) = Capacity /\ \A f \in Cached!Live(p) : e.nr < f.nr
<1>1. Cached!Live(p) \subseteq {e \in stored : Cached!Partition(e.q) = p}
  BY DEF Cached!Live, Cached!Entries, StoreInv
<1>2. \A e \in Cached!Live(p) : hour - e.created <= CacheTtl
  BY DEF Cached!Live
<1>3. ASSUME p \in DOMAIN store
      PROVE  Cardinality(Cached!Live(p)) <= Capacity
  <2>1. Cached!Live(p) \subseteq store[p] /\ IsFiniteSet(store[p])
    BY <1>3, FS_Subset DEF Cached!Live, Cached!Entries, StoreInv
  <2>2. Cardinality(store[p]) <= Capacity
    BY <1>3, CacheCardinality DEF StoreInv, CacheHonest, Cached!NewestKept
  <2>3. Cardinality(Cached!Live(p)) <= Cardinality(store[p]) /\ IsFiniteSet(Cached!Live(p))
    BY <2>1, FS_Subset
  <2>4. Cardinality(Cached!Live(p)) \in Nat /\ Cardinality(store[p]) \in Nat /\ Capacity \in Nat
    BY <2>1, <2>3, FS_CardinalityType DEF Cached!CacheConstants
  <2> QED BY <2>2, <2>3, <2>4
<1>4. ASSUME p \in DOMAIN store,
             NEW e \in stored, Cached!Partition(e.q) = p, hour - e.created <= CacheTtl,
             e \notin Cached!Live(p)
      PROVE  Cardinality(Cached!Live(p)) = Capacity /\ \A f \in Cached!Live(p) : e.nr < f.nr
  <2>1. Cardinality(store[p]) = Capacity /\ \A f \in store[p] : e.nr < f.nr
    <3>1. e \notin store[p]
      BY <1>4 DEF Cached!Live, Cached!Entries
    <3> QED BY <1>4, <3>1, CacheCardinality DEF StoreInv, CacheHonest, Cached!NewestKept
  <2>2. ASSUME NEW f \in store[p] PROVE hour - f.created <= CacheTtl
    <3>1. f \in stored /\ e.created <= f.created
      BY <1>4, <2>1, <2>2 DEF StoreInv, InTime
    <3>2. e.created \in Nat /\ f.created \in Nat /\ hour \in Nat /\ CacheTtl \in Nat
      BY <3>1 DEF StoreInv, EntryOf, Cached!CacheConstants
    <3> QED BY <1>4, <3>1, <3>2
  <2>3. Cached!Live(p) = store[p]
    BY <1>4, <2>2 DEF Cached!Live, Cached!Entries
  <2> QED BY <2>1, <2>3
<1> QED BY <1>1, <1>2, <1>3, <1>4

(* get: a look-up serves what answers it, or nothing.                      *)
LEMMA LookUpHonest ==
  ASSUME Cached!CacheConstants, StoreInv, NEW c \in Callers, NEW q \in Questions, Cached!LookUp(c, q)
  PROVE  StoreInv'
<1> DEFINE p == Cached!Partition(q)
           live == Cached!Live(p)
           core == Cached!Core(q)
<1>0. hour' = hour /\ stored' = stored /\ waiting \in [Callers -> {<<>>} \cup {<<x>> : x \in Questions}]
  BY DEF Cached!LookUp, StoreInv
<1>1. waiting' \in [Callers -> {<<>>} \cup {<<x>> : x \in Questions}]
  BY <1>0 DEF Cached!LookUp
<1>2. /\ DOMAIN store' = DOMAIN store
      /\ \A x \in DOMAIN store : x # p => store'[x] = store[x]
      /\ p \in DOMAIN store => store'[p] \in {store[p], live}
  BY DEF Cached!LookUp
<1>3. \A x \in DOMAIN store' : store'[x] \subseteq {e \in stored : Cached!Partition(e.q) = x}
  BY <1>2, LiveKeeps DEF StoreInv
<1>7. (\A e \in stored : Cached!Partition(e.q) \in DOMAIN store)'
  <2> SUFFICES ASSUME NEW e \in stored PROVE Cached!Partition(e.q) \in DOMAIN store
    BY <1>0, <1>2 DEF Cached!Partition, Cached!SystemText
  <2> QED BY DEF StoreInv
<1>4. Cached!NewestKept'
  <2> SUFFICES ASSUME NEW x \in DOMAIN store'
               PROVE  /\ Cardinality(store'[x]) <= Capacity
                      /\ \A e \in stored : (Cached!Partition(e.q) = x /\ hour - e.created <= CacheTtl) =>
                           \/ e \in store'[x]
                           \/ Cardinality(store'[x]) = Capacity /\ \A f \in store'[x] : e.nr < f.nr
    BY <1>0, CacheCardinality DEF Cached!NewestKept, Cached!Partition, Cached!SystemText, Cached!Cardinality, Cardinality
  <2>1. CASE store'[x] = store[x]
    BY <1>2, <2>1, CacheCardinality DEF StoreInv, CacheHonest, Cached!NewestKept
  <2>2. CASE x = p /\ store'[x] = live
    <3> HIDE DEF live, p
    <3>1. p \in DOMAIN store /\ live = Cached!Live(p)
      BY <1>2, <2>2 DEF live
    <3> QED BY <2>2, <3>1, LiveKeeps
  <2> QED BY <1>2, <2>1, <2>2
<1>5. Cached!HitsAnswerTheQuestion'
  <2>1. CASE hits' = hits
    BY <1>0, <2>1 DEF StoreInv, CacheHonest, Cached!HitsAnswerTheQuestion
  <2>2. CASE hits' # hits
    <3>1. /\ Cached!Eligible(q) /\ Cached!HasMatch(core, live)
          /\ hits' = hits \cup {[q |-> q, entry |-> Cached!Best(core, live), at |-> hour]}
      BY <2>2 DEF Cached!LookUp
    <3> DEFINE e == Cached!Best(core, live)
    <3>2. live \subseteq stored
      BY LiveKeeps
    <3>3. e \in live /\ Cached!Matches(core, e)
      BY <3>1, <3>2, BestMatches
    <3>4. /\ e \in stored /\ e.ok /\ hour - e.created <= CacheTtl
          /\ Cached!Partition(e.q) = Cached!Partition(q) /\ Cached!Eligible(e.q)
      BY <3>3, LiveKeeps DEF StoreInv, EntryOf
    <3>5. /\ e.q.model = q.model /\ e.q.task = q.task /\ Cached!SystemText(e.q) = Cached!SystemText(q)
          /\ q.tools = {} /\ e.q.tools = {}
      BY <3>1, <3>4 DEF Cached!Partition, Cached!Eligible
    <3>6. Cached!ExtractEntities(e.core) = Cached!ExtractEntities(core) /\ Sim(core, e.core) >= Threshold
      BY <3>3 DEF Cached!Matches
    <3> HIDE DEF e
    <3>7. \A h \in hits' : h \in hits \/ h = [q |-> q, entry |-> e, at |-> hour]
      BY <3>1 DEF e
    <3> QED BY <1>0, <3>4, <3>5, <3>6, <3>7 DEF StoreInv, CacheHonest, Cached!HitsAnswerTheQuestion
  <2> QED BY <2>1, <2>2
<1>6. (\A e \in stored : EntryOf(e))'
  <2> SUFFICES ASSUME NEW e \in stored PROVE EntryOf(e)'
    BY <1>0
  <2>1. EntryOf(e)
    BY DEF StoreInv
  <2> QED BY <1>0, <2>1 DEF EntryOf
<1> QED BY <1>0, <1>1, <1>3, <1>4, <1>5, <1>6, <1>7 DEF StoreInv, CacheHonest, InTime

(* put: a full partition gives up its oldest entry.                        *)
LEMMA TrimKeeps ==
  ASSUME Cached!CacheConstants, NEW S, IsFiniteSet(S), Cardinality(S) <= Capacity,
         NEW e, e \notin S, e.nr \in Nat, \A f \in S : f.nr \in Nat,
         NEW all, all = S \cup {e}, NEW T, T = Cached!Trimmed(all)
  PROVE  /\ T \subseteq all /\ Cardinality(T) <= Capacity
         /\ T # all => Cardinality(T) = Capacity /\ \A x \in all \ T : \A f \in T : x.nr <= f.nr
<1>1. IsFiniteSet(all) /\ Cardinality(all) = Cardinality(S) + 1 /\ Cardinality(S) \in Nat
  BY FS_AddElement, FS_CardinalityType
<1>2. Capacity \in Nat
  BY DEF Cached!CacheConstants
<1>3. Cached!Cardinality(all) = Cardinality(all)
  BY CacheCardinality
<1>4. CASE Cardinality(all) > Capacity
  <2>1. all # {} /\ \A f \in all : f.nr \in Nat
    OBVIOUS
  <2>2. Cached!Oldest(all) \in all /\ \A f \in all : Cached!Oldest(all).nr <= f.nr
    BY <2>1, OldestExists
  <2>3. T = all \ {Cached!Oldest(all)}
    BY <1>3, <1>4 DEF Cached!Trimmed
  <2>4. Cardinality(T) = Cardinality(all) - 1
    BY <1>1, <2>2, <2>3, FS_RemoveElement
  <2>5. Cardinality(T) = Capacity
    BY <1>1, <1>2, <1>4, <2>4
  <2>6. \A x \in all \ T : \A f \in T : x.nr <= f.nr
    BY <2>2, <2>3
  <2>7. Cardinality(T) <= Capacity
    BY <1>2, <2>5, SMT
  <2>8. T \subseteq all
    BY <2>3, Zenon
  <2> QED BY <2>5, <2>6, <2>7, <2>8, Zenon
<1>5. CASE ~(Cardinality(all) > Capacity)
  <2>1. T = all
    BY <1>3, <1>5 DEF Cached!Trimmed
  <2>2. Cardinality(all) <= Capacity
    BY <1>1, <1>2, <1>5
  <2> QED BY <2>1, <2>2
<1> QED BY <1>4, <1>5

(* What a step does that leaves the cache and its entries alone.           *)
LEMMA CacheUntouched ==
  ASSUME StoreInv, UNCHANGED <<hour, hits, store, stored>>,
         waiting' \in [Callers -> {<<>>} \cup {<<x>> : x \in Questions}]
  PROVE  StoreInv'
<1>1. (\A e \in stored : EntryOf(e))'
  <2> SUFFICES ASSUME NEW e \in stored PROVE EntryOf(e)'
    OBVIOUS
  <2>1. EntryOf(e)
    BY DEF StoreInv
  <2> QED BY <2>1 DEF EntryOf
<1>2. (\A e, f \in stored : InTime(e, f))'
  BY DEF StoreInv, InTime
<1>3. CacheHonest'
  BY DEF StoreInv, CacheHonest, Cached!HitsAnswerTheQuestion, Cached!NewestKept
<1> QED BY <1>1, <1>2, <1>3 DEF StoreInv

(* put: the answer of a call that missed is the newest of its partition.   *)
LEMMA CompleteHonest ==
  ASSUME Cached!CacheConstants, StoreInv, NEW c \in Callers, NEW ok \in BOOLEAN, Cached!Complete(c, ok)
  PROVE  StoreInv'
<1> DEFINE q == waiting[c][1]
           new == [core |-> Cached!Core(q), q |-> q, ok |-> ok, created |-> hour, nr |-> Cached!Cardinality(stored) + 1]
           p == Cached!Partition(q)
<1>0. hour' = hour /\ hits' = hits /\ waiting' \in [Callers -> {<<>>} \cup {<<x>> : x \in Questions}]
  BY DEF Cached!Complete, StoreInv
<1>1. q \in Questions
  BY DEF Cached!Complete, StoreInv
<1>2. CASE ~(ok /\ Cached!Eligible(q))
  <2>1. store' = store /\ stored' = stored
    BY <1>2 DEF Cached!Complete
  <2> QED BY <1>0, <2>1, CacheUntouched
<1>3. CASE ok /\ Cached!Eligible(q)
  <2>1. store' = Cached!Put(p, new) /\ stored' = stored \cup {new}
    BY <1>3 DEF Cached!Complete
  <2>2. Cardinality(stored) \in Nat /\ Cached!Cardinality(stored) = Cardinality(stored)
    BY CacheCardinality, FS_CardinalityType DEF StoreInv
  <2>3. \A e \in stored : e.nr \in Nat /\ e.nr < new.nr /\ e.created \in Nat /\ e.created <= hour
    BY <2>2 DEF StoreInv, EntryOf
  <2>4. new \notin stored /\ new.nr \in Nat /\ hour \in Nat
    BY <2>2, <2>3 DEF StoreInv
  <2>5. IsFiniteSet(stored') /\ Cardinality(stored') = Cardinality(stored) + 1
        /\ Cached!Cardinality(stored') = Cardinality(stored')
    <3> HIDE DEF new
    <3> QED BY <2>1, <2>4, FS_AddElement, CacheCardinality DEF StoreInv
  <2>6. (\A e \in stored : EntryOf(e))'
    <3> SUFFICES ASSUME NEW e \in stored' PROVE EntryOf(e)'
      OBVIOUS
    <3>1. CASE e \in stored
      <4>1. EntryOf(e)
        BY <3>1 DEF StoreInv
      <4> QED BY <4>1, <1>0, <2>2, <2>5 DEF EntryOf
    <3>2. CASE e = new
      BY <1>0, <1>1, <1>3, <2>2, <2>4, <2>5, <3>2 DEF EntryOf
    <3> QED BY <2>1, <3>1, <3>2
  <2>7. (\A e, f \in stored : InTime(e, f))'
    <3> SUFFICES ASSUME NEW e \in stored', NEW f \in stored' PROVE InTime(e, f)
      BY DEF InTime
    <3>1. CASE e \in stored /\ f \in stored
      BY <3>1 DEF StoreInv
    <3>2. CASE e = new /\ f \in stored
      BY <2>3, <2>4, <3>2 DEF InTime
    <3>3. CASE e \in stored /\ f = new
      BY <2>3, <2>4, <3>3 DEF InTime
    <3>4. CASE e = new /\ f = new
      BY <2>4, <3>4 DEF InTime
    <3> QED BY <2>1, <3>1, <3>2, <3>3, <3>4
  <2> DEFINE old == Cached!Entries(p)
             T == Cached!Trimmed(old \cup {new})
  <2>8. /\ DOMAIN store' = DOMAIN store \cup {p} /\ store'[p] = T
        /\ \A x \in DOMAIN store : x # p => store'[x] = store[x]
    BY <2>1 DEF Cached!Put
  <2>9. old \subseteq {e \in stored : Cached!Partition(e.q) = p}
    BY DEF Cached!Entries, StoreInv
  <2>10. IsFiniteSet(old) /\ Cardinality(old) <= Capacity
    <3>1. IsFiniteSet(old)
      BY <2>9, FS_Subset DEF StoreInv
    <3>2. CASE p \in DOMAIN store
      BY <3>1, <3>2, CacheCardinality DEF Cached!Entries, StoreInv, CacheHonest, Cached!NewestKept
    <3>3. CASE p \notin DOMAIN store
      <4>1. old = {} /\ Cardinality({}) = 0
        BY <3>3, FS_EmptySet DEF Cached!Entries
      <4> QED BY <3>1, <4>1 DEF Cached!CacheConstants
    <3> QED BY <3>1, <3>2, <3>3
  <2>11. /\ T \subseteq old \cup {new} /\ Cardinality(T) <= Capacity
         /\ T # old \cup {new} => /\ Cardinality(T) = Capacity
                                  /\ \A x \in (old \cup {new}) \ T : \A f \in T : x.nr <= f.nr
    <3>1. new \notin old /\ \A f \in old : f.nr \in Nat
      BY <2>3, <2>4, <2>9
    <3> HIDE DEF old, new
    <3> QED BY <2>4, <2>10, <3>1, TrimKeeps
  <2>12. \A x \in DOMAIN store' : store'[x] \subseteq {e \in stored' : Cached!Partition(e.q) = x}
    <3>1. T \subseteq {e \in stored' : Cached!Partition(e.q) = p}
      <4>1. Cached!Partition(new.q) = p
        OBVIOUS
      <4> HIDE DEF T, p, new, old
      <4> QED BY <2>1, <2>9, <2>11, <4>1
    <3>2. \A x \in DOMAIN store : store[x] \subseteq {e \in stored' : Cached!Partition(e.q) = x}
      BY <2>1 DEF StoreInv
    <3> HIDE DEF T, p
    <3> QED BY <2>8, <3>1, <3>2
  <2>13. Cached!NewestKept'
    <3> SUFFICES ASSUME NEW x \in DOMAIN store'
                 PROVE  /\ Cardinality(store'[x]) <= Capacity
                        /\ \A e \in stored' : (Cached!Partition(e.q) = x /\ hour - e.created <= CacheTtl) =>
                             \/ e \in store'[x]
                             \/ Cardinality(store'[x]) = Capacity /\ \A f \in store'[x] : e.nr < f.nr
      BY <1>0, CacheCardinality DEF Cached!NewestKept, Cached!Partition, Cached!SystemText, Cached!Cardinality, Cardinality
    <3>1. CASE x # p
      <4>1. x \in DOMAIN store /\ store'[x] = store[x] /\ Cached!Partition(new.q) # x
        BY <2>8, <3>1
      <4> HIDE DEF new, p
      <4> QED BY <2>1, <4>1, CacheCardinality DEF StoreInv, CacheHonest, Cached!NewestKept
    <3>2. CASE x = p
      <4>1. ASSUME NEW e \in stored', Cached!Partition(e.q) = p, hour - e.created <= CacheTtl, e \notin T
            PROVE  Cardinality(T) = Capacity /\ \A f \in T : e.nr < f.nr
        <5>1. CASE e \in old \cup {new}
          <6>1. Cardinality(T) = Capacity /\ \A f \in T : e.nr <= f.nr
            <7> HIDE DEF T
            <7> QED BY <2>11, <4>1, <5>1
          <6>2. \A f \in T : f \in stored' /\ e.nr # f.nr /\ e.nr \in Nat /\ f.nr \in Nat
            <7>1. \A f \in T : f \in stored' /\ f # e
              BY <2>1, <2>9, <2>11, <4>1
            <7>2. \A f \in stored' : f.nr \in Nat /\ InTime(e, f)
              BY <2>1, <2>3, <2>4, <2>7, <4>1 DEF InTime
            <7> HIDE DEF T, new
            <7> QED BY <4>1, <7>1, <7>2 DEF InTime
          <6> HIDE DEF T
          <6> QED BY <6>1, <6>2
        <5>2. CASE e \in stored /\ e \notin old
          <6>1. p \in DOMAIN store => Cardinality(old) = Capacity /\ \A f \in old : e.nr < f.nr
            BY <4>1, <5>2, CacheCardinality DEF Cached!Entries, StoreInv, CacheHonest, Cached!NewestKept
          <6>2. Cardinality(old) = Capacity /\ \A f \in old : e.nr < f.nr
            BY <4>1, <5>2, <6>1 DEF StoreInv
          <6>3. e.nr < new.nr
            BY <2>3, <5>2
          <6>4. \A f \in old \cup {new} : e.nr < f.nr
            <7> HIDE DEF new, old
            <7> QED BY <6>2, <6>3
          <6>5. Cardinality(old \cup {new}) = Capacity + 1
            <7>1. new \notin old
              BY <2>4, <2>9
            <7> HIDE DEF new, old
            <7> QED BY <2>10, <6>2, <7>1, FS_AddElement
          <6>6. T # old \cup {new}
            <7>1. Capacity \in Nat
              BY DEF Cached!CacheConstants
            <7> HIDE DEF T, new, old
            <7> QED BY <2>11, <6>5, <7>1
          <6> HIDE DEF T, new, old
          <6> QED BY <2>11, <6>4, <6>6
        <5> QED BY <2>1, <5>1, <5>2
      <4> HIDE DEF T, p
      <4> QED BY <2>8, <2>11, <3>2, <4>1
    <3> QED BY <3>1, <3>2
  <2>14. Cached!HitsAnswerTheQuestion'
    BY <1>0, <2>1 DEF StoreInv, CacheHonest, Cached!HitsAnswerTheQuestion
  <2>15. (\A e \in stored : Cached!Partition(e.q) \in DOMAIN store)'
    <3> SUFFICES ASSUME NEW e \in stored' PROVE Cached!Partition(e.q) \in DOMAIN store'
      BY DEF Cached!Partition, Cached!SystemText
    <3>1. CASE e \in stored
      BY <2>8, <3>1 DEF StoreInv
    <3>2. CASE e = new
      BY <2>8, <3>2
    <3> QED BY <2>1, <3>1, <3>2
  <2> QED BY <1>0, <2>5, <2>6, <2>7, <2>12, <2>13, <2>14, <2>15 DEF StoreInv, CacheHonest
<1> QED BY <1>2, <1>3

(* Time passes: what has not expired yet had not expired before.           *)
LEMMA CacheTicks == ASSUME Cached!CacheConstants, StoreInv, Cached!Tick PROVE StoreInv'
<1>1. /\ hour' = hour + 1 /\ hour \in Nat /\ CacheTtl \in Nat
      /\ UNCHANGED <<store, waiting, hits, stored>>
  BY DEF Cached!Tick, Cached!CacheConstants, StoreInv
<1>2. ASSUME NEW e \in stored PROVE EntryOf(e) /\ EntryOf(e)' /\ (hour' - e.created <= CacheTtl => hour - e.created <= CacheTtl)
  <2>1. EntryOf(e)
    BY DEF StoreInv
  <2>2. hour' - e.created <= CacheTtl => hour - e.created <= CacheTtl
    BY <1>1, <2>1 DEF EntryOf
  <2> QED BY <1>1, <2>1, <2>2 DEF EntryOf
<1>3. (\A e, f \in stored : InTime(e, f))'
  BY <1>1 DEF StoreInv, InTime
<1>4. Cached!HitsAnswerTheQuestion'
  BY <1>1 DEF StoreInv, CacheHonest, Cached!HitsAnswerTheQuestion
<1>5. Cached!NewestKept'
  <2> SUFFICES ASSUME NEW x \in DOMAIN store
               PROVE  /\ Cardinality(store[x]) <= Capacity
                      /\ \A e \in stored : (Cached!Partition(e.q) = x /\ hour' - e.created <= CacheTtl) =>
                           \/ e \in store[x]
                           \/ Cardinality(store[x]) = Capacity /\ \A f \in store[x] : e.nr < f.nr
    BY <1>1, CacheCardinality DEF Cached!NewestKept, Cached!Partition, Cached!SystemText, Cached!Cardinality, Cardinality
  <2> QED BY <1>2, CacheCardinality DEF StoreInv, CacheHonest, Cached!NewestKept
<1>6. (\A e \in stored : Cached!Partition(e.q) \in DOMAIN store)'
  BY <1>1 DEF StoreInv, Cached!Partition, Cached!SystemText
<1>7. (\A p \in DOMAIN store : store[p] \subseteq {e \in stored : Cached!Partition(e.q) = p})'
  BY <1>1 DEF StoreInv, Cached!Partition, Cached!SystemText
<1>8. (\A e \in stored : EntryOf(e))'
  BY <1>1, <1>2
<1> QED BY <1>1, <1>3, <1>4, <1>5, <1>6, <1>7, <1>8 DEF StoreInv, CacheHonest

LEMMA CacheStep == ASSUME Cached!CacheConstants, StoreInv, [Cached!Next]_(Cached!vars) PROVE StoreInv'
<1>1. ASSUME NEW c \in Callers, NEW q \in Questions, Cached!LookUp(c, q) PROVE StoreInv'
  BY <1>1, LookUpHonest
<1>2. ASSUME NEW c \in Callers, NEW ok \in BOOLEAN, Cached!Complete(c, ok) PROVE StoreInv'
  BY <1>2, CompleteHonest
<1>3. CASE Cached!Tick
  BY <1>3, CacheTicks
<1>4. CASE UNCHANGED Cached!vars
  BY <1>4, CacheUntouched DEF StoreInv, Cached!vars
<1> QED BY <1>1, <1>2, <1>3, <1>4 DEF Cached!Next

(* cache.rs (get, put) and its use in proxy.rs: however calls overlap, a   *)
(* hit is a success of the same model, system prompt and task that has not *)
(* expired and matches the question, and a partition holds the newest of   *)
(* what was stored in it, at most as many as its capacity.                 *)
THEOREM CacheIsHonest == ASSUME Cached!CacheConstants PROVE Cached!Spec => []CacheHonest
<1>1. Cached!Init => StoreInv
  BY CacheInit
<1>2. StoreInv /\ [Cached!Next]_(Cached!vars) => StoreInv'
  BY CacheStep
<1>3. StoreInv => CacheHonest
  BY DEF StoreInv
<1> QED BY <1>1, <1>2, <1>3, PTL DEF Cached!Spec

-----------------------------------------------------------------------------
(* Client keys and the identity map (Identity), for any documents, any     *)
(* calls and any number of callers and starts.                             *)

(* While keys are listed, only what a key admitted is under way.           *)
KeyGiven(k) == docs.spec # <<>> => k # ""

(* The gateway runs with what its documents say, or no call is under way.  *)
FromDocuments ==
  \/ gateway = Keyed!Down /\ \A c \in Callers : line[c] = <<>>
  \/ Keyed!Loads(docs) /\ gateway = Keyed!Loaded(docs)

Past(f) == f.epoch \in Nat /\ f.epoch <= starts

(* The calls under way that were counted for a key and are not judged yet. *)
Unjudged(k) == {c \in Callers : line[c] # <<>> /\ line[c][1].key = k}

Counted(k) ==
  /\ tally[k] \in [calls : Nat, mismatches : Nat]
  /\ IsFiniteSet(Unjudged(k)) /\ tally[k].mismatches + Cardinality(Unjudged(k)) <= tally[k].calls

IdentityInv ==
  /\ docs \in Documents /\ starts \in Nat
  /\ FromDocuments
  /\ line = [c \in Callers |-> line[c]]
  /\ \A c \in Callers : line[c] # <<>> =>
       KeyGiven(line[c][1].key) /\ (line[c][1].key # "" => line[c][1].key \in DOMAIN tally)
  /\ \A f \in forwarded : Past(f) /\ (gateway # Keyed!Down /\ f.epoch = starts => KeyGiven(f.key))
  /\ \A r \in records : Past(r)
  /\ Keyed!BoundKeysKeepTheirUnit
  /\ \A k \in DOMAIN tally : Counted(k)
  /\ \A k \in DOMAIN admissions : admissions[k] \in Nat
  /\ Keyed!CountersReconcile

-----------------------------------------------------------------------------
(* What the documents of a running gateway say.                            *)

(* A secret's key is that of its last usable entry.                        *)
LEMMA LastUsable ==
  ASSUME Keyed!IdentityConstants, NEW d \in Documents, NEW s \in {d.spec[i].secret : i \in Keyed!Usable(d.spec)}
  PROVE  Keyed!LastOf(d.spec, s) \in Keyed!Usable(d.spec)
<1> DEFINE same == {i \in Keyed!Usable(d.spec) : d.spec[i].secret = s}
           T == {Len(d.spec) - i : i \in same}
<1>1. Len(d.spec) \in Nat /\ DOMAIN d.spec = 1 .. Len(d.spec) /\ same \subseteq DOMAIN d.spec
  BY DEF Keyed!IdentityConstants, Keyed!Usable
<1>2. \A i \in same : i \in Nat /\ Len(d.spec) - i \in Nat
  <2> HIDE DEF same
  <2> QED BY <1>1
<1>3. T \subseteq Nat /\ T # {}
  BY <1>2
<1>4. PICK x \in T : \A y \in T : x <= y
  <2> HIDE DEF T
  <2> QED BY <1>3, LeastNat
<1>5. PICK i \in same : x = Len(d.spec) - i
  BY <1>4
<1>6. \A j \in same : j <= i
  <2> SUFFICES ASSUME NEW j \in same PROVE j <= i
    OBVIOUS
  <2>1. Len(d.spec) - i <= Len(d.spec) - j
    BY <1>4, <1>5
  <2> HIDE DEF same
  <2> QED BY <1>1, <1>2, <2>1
<1>7. \A j \in Keyed!Usable(d.spec) : d.spec[j].secret = s => j <= i
  BY <1>6
<1>8. i \in Keyed!Usable(d.spec) /\ d.spec[i].secret = s
  BY <1>5
<1> QED BY <1>7, <1>8, Zenon DEF Keyed!LastOf

(* A list of keys that loads admits by its keys, and none of them is blank. *)
LEMMA KeysInForce ==
  ASSUME Keyed!IdentityConstants, docs \in Documents, Keyed!Loads(docs), gateway = Keyed!Loaded(docs), docs.spec # <<>>
  PROVE  gateway.keys # <<>> /\ \A s \in DOMAIN gateway.keys : gateway.keys[s] # ""
<1>1. gateway.keys = Keyed!BySecret(docs.spec)
  BY DEF Keyed!Loaded
<1>2. Keyed!Usable(docs.spec) # {}
  BY DEF Keyed!Loads, Keyed!SpecUsable
<1>3. DOMAIN gateway.keys = {docs.spec[i].secret : i \in Keyed!Usable(docs.spec)}
  BY <1>1 DEF Keyed!BySecret
<1>4. gateway.keys # <<>>
  <2>1. DOMAIN gateway.keys # {}
    BY <1>2, <1>3
  <2>2. DOMAIN <<>> = {}
    OBVIOUS
  <2> QED BY <2>1, <2>2
<1>5. ASSUME NEW s \in DOMAIN gateway.keys PROVE gateway.keys[s] # ""
  <2>1. gateway.keys[s] = docs.spec[Keyed!LastOf(docs.spec, s)].key
    BY <1>1, <1>3, <1>5 DEF Keyed!BySecret
  <2>2. Keyed!LastOf(docs.spec, s) \in Keyed!Usable(docs.spec)
    BY <1>3, <1>5, LastUsable
  <2> QED BY <2>1, <2>2 DEF Keyed!Usable
<1> QED BY <1>4, <1>5

(* Every binding of a map that loads is in force.                          *)
LEMMA MapInForce ==
  ASSUME Keyed!Loads(docs), gateway = Keyed!Loaded(docs), NEW i \in DOMAIN docs.map.keys
  PROVE  /\ docs.map.keys[i].key # "" /\ docs.map.keys[i].key \in DOMAIN gateway.map.keyed
         /\ gateway.map.keyed[docs.map.keys[i].key] = docs.map.keys[i]
<1> DEFINE K == docs.map.keys
<1>1. \A m, n \in DOMAIN K : K[m]["key"] = K[n]["key"] => m = n
  BY DEF Keyed!Loads, Keyed!MapValid, Keyed!Distinct
<1>2. K[i].key # ""
  BY DEF Keyed!Loads, Keyed!MapValid
<1>3. gateway.map.keyed = [k \in {K[n].key : n \in DOMAIN K} |-> K[CHOOSE n \in DOMAIN K : K[n].key = k]]
  BY DEF Keyed!Loaded, Keyed!Build
<1>4. (CHOOSE n \in DOMAIN K : K[n].key = K[i].key) = i
  BY <1>1
<1> QED BY <1>2, <1>3, <1>4

(* The key that a call is admitted by.                                     *)
LEMMA AdmittedByKey ==
  ASSUME Keyed!IdentityConstants, IdentityInv, gateway # Keyed!Down, NEW x, NEW key \in Keyed!KeyOf(x)
  PROVE  KeyGiven(key)
<1>1. Keyed!Loads(docs) /\ gateway = Keyed!Loaded(docs) /\ docs \in Documents
  BY DEF IdentityInv, FromDocuments
<1> SUFFICES ASSUME docs.spec # <<>> PROVE key # ""
  BY DEF KeyGiven
<1>2. gateway.keys # <<>> /\ \A s \in DOMAIN gateway.keys : gateway.keys[s] # ""
  BY <1>1, KeysInForce
<1> QED BY <1>2 DEF Keyed!KeyOf

LEMMA NothingOff == ASSUME Keyed!IdentityConstants, IdentityInv PROVE Keyed!NothingSilentlyOff
<1> SUFFICES ASSUME gateway # Keyed!Down PROVE Keyed!NothingSilentlyOff
  BY DEF Keyed!NothingSilentlyOff
<1>1. Keyed!Loads(docs) /\ gateway = Keyed!Loaded(docs) /\ docs \in Documents
  BY DEF IdentityInv, FromDocuments
<1>2. docs.spec # <<>> => gateway.keys # <<>>
  BY <1>1, KeysInForce
<1>3. \A i \in DOMAIN docs.map.keys : gateway.map.keyed[docs.map.keys[i].key] = docs.map.keys[i]
  BY <1>1, MapInForce
<1>4. \A f \in forwarded : f.epoch = starts /\ docs.spec # <<>> => f.key # ""
  BY DEF IdentityInv, KeyGiven
<1> QED BY <1>2, <1>3, <1>4 DEF Keyed!NothingSilentlyOff

-----------------------------------------------------------------------------
LEMMA IdentityInit == Keyed!Init => IdentityInv
<1> SUFFICES ASSUME Keyed!Init PROVE IdentityInv
  OBVIOUS
<1>1. DOMAIN tally = {} /\ DOMAIN admissions = {}
  BY DEF Keyed!Init
<1> QED BY <1>1 DEF Keyed!Init, IdentityInv, FromDocuments, Keyed!BoundKeysKeepTheirUnit, Keyed!CountersReconcile

(* Documents are edited while the gateway is down.                         *)
LEMMA EditKeeps == ASSUME IdentityInv, NEW d \in Documents, Keyed!Edit(d) PROVE IdentityInv'
<1>1. /\ gateway = Keyed!Down /\ docs' = d
      /\ UNCHANGED <<gateway, tally, line, records, forwarded, admissions, refused, starts, presented>>
  BY DEF Keyed!Edit
<1>2. \A c \in Callers : line[c] = <<>>
  BY <1>1 DEF IdentityInv, FromDocuments, Keyed!Loaded, Keyed!Down
<1>3. (\A k \in DOMAIN tally : Counted(k))'
  BY <1>1 DEF IdentityInv, Counted, Unjudged
<1>4. Keyed!BoundKeysKeepTheirUnit'
  BY <1>1 DEF Keyed!BoundKeysKeepTheirUnit, Keyed!Down
<1>5. Keyed!CountersReconcile'
  BY <1>1 DEF IdentityInv, Keyed!CountersReconcile
<1>6. (\A f \in forwarded : Past(f) /\ (gateway # Keyed!Down /\ f.epoch = starts => KeyGiven(f.key)))'
  BY <1>1 DEF IdentityInv, Past, Keyed!Down
<1>7. (\A r \in records : Past(r))'
  BY <1>1 DEF IdentityInv, Past
<1> QED BY <1>1, <1>2, <1>3, <1>4, <1>5, <1>6, <1>7 DEF IdentityInv, FromDocuments, Keyed!Down

(* Nothing is under way for a key once every call is gone.                 *)
LEMMA NoneUnjudged == ASSUME \A c \in Callers : line[c] = <<>>, NEW k PROVE Unjudged(k) = {}
BY DEF Unjudged

LEMMA StopKeeps == ASSUME IdentityInv, Keyed!Stop PROVE IdentityInv'
<1>1. /\ gateway' = Keyed!Down /\ line' = [c \in Callers |-> <<>>]
      /\ UNCHANGED <<docs, tally, records, forwarded, admissions, refused, starts, presented>>
  BY DEF Keyed!Stop
<1>2. ASSUME NEW k \in DOMAIN tally PROVE Counted(k)'
  <2>1. Unjudged(k)' = {}
    BY <1>1 DEF Unjudged
  <2>2. IsFiniteSet({}) /\ Cardinality({}) = 0
    BY FS_EmptySet
  <2>3. tally[k] \in [calls : Nat, mismatches : Nat] /\ tally[k].mismatches <= tally[k].calls
    <3>1. /\ tally[k] \in [calls : Nat, mismatches : Nat]
          /\ IsFiniteSet(Unjudged(k)) /\ tally[k].mismatches + Cardinality(Unjudged(k)) <= tally[k].calls
      BY DEF IdentityInv, Counted
    <3>2. Cardinality(Unjudged(k)) \in Nat
      BY <3>1, FS_CardinalityType
    <3>3. tally[k].calls \in Nat /\ tally[k].mismatches \in Nat
      BY <3>1
    <3> QED BY <3>1, <3>2, <3>3
  <2> QED BY <1>1, <2>1, <2>2, <2>3 DEF Counted
<1>3. (\A k \in DOMAIN tally : Counted(k))'
  BY <1>1, <1>2
<1>4. Keyed!BoundKeysKeepTheirUnit'
  BY <1>1 DEF Keyed!BoundKeysKeepTheirUnit, Keyed!Down
<1>5. Keyed!CountersReconcile'
  BY <1>1 DEF IdentityInv, Keyed!CountersReconcile
<1>6. (\A f \in forwarded : Past(f) /\ (gateway # Keyed!Down /\ f.epoch = starts => KeyGiven(f.key)))'
  BY <1>1 DEF IdentityInv, Past, Keyed!Down
<1>7. (\A r \in records : Past(r))'
  BY <1>1 DEF IdentityInv, Past
<1>8. FromDocuments'
  BY <1>1 DEF FromDocuments, Keyed!Down
<1> QED BY <1>1, <1>3, <1>4, <1>5, <1>6, <1>7, <1>8 DEF IdentityInv

LEMMA StartKeeps == ASSUME IdentityInv, Keyed!Start PROVE IdentityInv'
<1>1. /\ gateway = Keyed!Down /\ Keyed!Loads(docs) /\ gateway' = Keyed!Loaded(docs)
      /\ starts' = starts + 1 /\ tally' = <<>> /\ admissions' = <<>>
      /\ UNCHANGED <<docs, line, records, forwarded, presented>>
  BY DEF Keyed!Start
<1>2. \A c \in Callers : line[c] = <<>>
  BY <1>1 DEF IdentityInv, FromDocuments, Keyed!Loaded, Keyed!Down
<1>3. DOMAIN tally' = {} /\ DOMAIN admissions' = {}
  BY <1>1
<1>10. starts' \in Nat /\ starts \in Nat
  <2>1. starts \in Nat
    BY DEF IdentityInv
  <2> QED BY <1>1, <2>1
<1>4. \A f \in forwarded \cup records : f.epoch \in Nat /\ f.epoch < starts' /\ starts' \in Nat
  <2>1. \A f \in forwarded \cup records : Past(f)
    BY DEF IdentityInv
  <2> QED BY <1>1, <1>10, <2>1 DEF Past
<1>5. Keyed!BoundKeysKeepTheirUnit'
  BY <1>1, <1>4 DEF Keyed!BoundKeysKeepTheirUnit
<1>6. Keyed!CountersReconcile'
  BY <1>3 DEF Keyed!CountersReconcile
<1>7. (\A f \in forwarded : Past(f) /\ (gateway # Keyed!Down /\ f.epoch = starts => KeyGiven(f.key)))'
  BY <1>1, <1>4 DEF Past
<1>8. (\A r \in records : Past(r))'
  BY <1>1, <1>4 DEF Past
<1>9. FromDocuments'
  <2>1. Keyed!Loads(docs)'
    BY <1>1
  <2>2. gateway' = Keyed!Loaded(docs)'
    BY <1>1
  <2> QED BY <2>1, <2>2 DEF FromDocuments
<1> QED BY <1>1, <1>2, <1>3, <1>5, <1>6, <1>7, <1>8, <1>9, <1>10 DEF IdentityInv

(* The documents of a running gateway do not change.                       *)
LEMMA DocumentsStay == ASSUME FromDocuments, gateway # Keyed!Down, UNCHANGED <<docs, gateway>> PROVE FromDocuments'
<1>1. Keyed!Loads(docs) /\ gateway = Keyed!Loaded(docs)
  BY DEF FromDocuments
<1>2. Keyed!Loads(docs)'
  BY <1>1
<1>3. gateway' = Keyed!Loaded(docs)'
  BY <1>1
<1> QED BY <1>2, <1>3 DEF FromDocuments

LEMMA RunningIsUp == \A d : Keyed!Loaded(d) # Keyed!Down
BY DEF Keyed!Loaded, Keyed!Down

LEMMA RowsStay ==
  ASSUME Keyed!BoundKeysKeepTheirUnit, UNCHANGED <<docs, gateway, starts, records>>
  PROVE  Keyed!BoundKeysKeepTheirUnit'
BY DEF Keyed!BoundKeysKeepTheirUnit, Keyed!PatternMatches, Keyed!Down

(* resolve_client_key and record_call: a call counts for its key.          *)
LEMMA AdmitKeeps ==
  ASSUME Keyed!IdentityConstants, IdentityInv, NEW c \in Callers, NEW x \in Presented, Keyed!Admit(c, x)
  PROVE  IdentityInv'
<1>1. gateway # Keyed!Down /\ line[c] = <<>> /\ UNCHANGED <<docs, gateway, records, starts>>
  BY DEF Keyed!Admit
<1>2. FromDocuments'
  BY <1>1, DocumentsStay DEF IdentityInv
<1>3. Keyed!BoundKeysKeepTheirUnit'
  BY <1>1, RowsStay DEF IdentityInv
<1>4. docs' \in Documents /\ starts' \in Nat /\ starts \in Nat /\ \A r \in records' : Past(r)'
  BY <1>1 DEF IdentityInv, Past
<1>5. CASE Keyed!KeyOf(x) = {}
  <2>1. UNCHANGED <<tally, line, forwarded, admissions>>
    BY <1>5 DEF Keyed!Admit
  <2>2. (\A k \in DOMAIN tally : Counted(k))'
    BY <2>1 DEF IdentityInv, Counted, Unjudged
  <2>3. Keyed!CountersReconcile'
    BY <2>1 DEF IdentityInv, Keyed!CountersReconcile
  <2>4. (\A f \in forwarded : Past(f) /\ (gateway # Keyed!Down /\ f.epoch = starts => KeyGiven(f.key)))'
    BY <1>1, <2>1 DEF IdentityInv, Past, KeyGiven
  <2>5. (\A d \in Callers : line[d] # <<>> =>
           KeyGiven(line[d][1].key) /\ (line[d][1].key # "" => line[d][1].key \in DOMAIN tally))'
    BY <1>1, <2>1 DEF IdentityInv, KeyGiven
  <2> QED BY <1>2, <1>3, <1>4, <2>1, <2>2, <2>3, <2>4, <2>5 DEF IdentityInv
<1>6. CASE Keyed!KeyOf(x) # {}
  <2>1. PICK key \in Keyed!KeyOf(x) :
          /\ tally' = Keyed!RecordCall(key)
          /\ admissions' = Keyed!Put(admissions, key, 1 + (IF key \in DOMAIN admissions THEN admissions[key] ELSE 0))
          /\ IF x.run = ""
             THEN forwarded' = forwarded \cup {[call |-> x, key |-> key, epoch |-> starts]} /\ line' = line
             ELSE line' = [line EXCEPT ![c] = <<[call |-> x, key |-> key]>>] /\ forwarded' = forwarded
    BY <1>6 DEF Keyed!Admit
  <2>2. KeyGiven(key)
    BY <1>1, AdmittedByKey
  <2> DEFINE entry == <<[call |-> x, key |-> key]>>
  <2>3. /\ line = [d \in Callers |-> line[d]] /\ line' = [d \in Callers |-> line'[d]]
        /\ \A d \in Callers : d # c => line'[d] = line[d]
        /\ line'[c] = <<>> \/ line'[c] = entry
    BY <1>1, <2>1 DEF IdentityInv
  <2>4. entry # <<>> /\ entry[1].key = key
    OBVIOUS
  <2>5. \A k : k # key => Unjudged(k)' = Unjudged(k)
    BY <1>1, <2>3, <2>4 DEF Unjudged
  <2>6. c \notin Unjudged(key) /\ (Unjudged(key)' = Unjudged(key) \/ Unjudged(key)' = Unjudged(key) \cup {c})
    <3> HIDE DEF entry
    <3> QED BY <1>1, <2>3, <2>4 DEF Unjudged
  <2>7. \A f \in forwarded' : f \in forwarded \/ f = [call |-> x, key |-> key, epoch |-> starts]
    BY <2>1
  <2>8. (\A f \in forwarded : Past(f) /\ (gateway # Keyed!Down /\ f.epoch = starts => KeyGiven(f.key)))'
    <3>1. \A f \in forwarded : f.epoch \in Nat /\ f.epoch <= starts /\ (f.epoch = starts => KeyGiven(f.key))
      BY <1>1 DEF IdentityInv, Past
    <3>2. \A f \in forwarded' : f.epoch \in Nat /\ f.epoch <= starts /\ (f.epoch = starts => KeyGiven(f.key))
      BY <1>4, <2>2, <2>7, <3>1
    <3> QED BY <1>1, <3>2 DEF Past, KeyGiven
  <2>9. /\ DOMAIN admissions' = DOMAIN admissions \cup {key}
        /\ \A k \in DOMAIN admissions : k # key => admissions'[k] = admissions[k]
        /\ admissions'[key] = 1 + (IF key \in DOMAIN admissions THEN admissions[key] ELSE 0)
    BY <2>1 DEF Keyed!Put
  <2>10. \A k \in DOMAIN admissions' : admissions'[k] \in Nat
    <3>1. \A k \in DOMAIN admissions : admissions[k] \in Nat
      BY DEF IdentityInv
    <3>2. admissions'[key] \in Nat
      BY <2>9, <3>1
    <3> QED BY <2>9, <3>1, <3>2
  <2>11. \A d \in Callers : line'[d] # <<>> =>
           KeyGiven(line'[d][1].key) /\ (line'[d][1].key # "" => line'[d][1].key \in DOMAIN tally \cup {key})
    <3> HIDE DEF entry
    <3> QED BY <2>2, <2>3, <2>4 DEF IdentityInv
  <2>12. CASE key = ""
    <3>1. tally' = tally
      BY <2>1, <2>12 DEF Keyed!RecordCall
    <3>2. "" \notin DOMAIN tally
      BY DEF IdentityInv, Keyed!CountersReconcile
    <3>3. (\A k \in DOMAIN tally : Counted(k))'
      <4>1. \A k \in DOMAIN tally : k # key /\ Counted(k)
        BY <2>12, <3>2 DEF IdentityInv
      <4> QED BY <2>5, <3>1, <4>1 DEF Counted
    <3>4. Keyed!CountersReconcile'
      BY <2>9, <2>12, <3>1, <3>2 DEF IdentityInv, Keyed!CountersReconcile
    <3>5. (\A d \in Callers : line[d] # <<>> =>
             KeyGiven(line[d][1].key) /\ (line[d][1].key # "" => line[d][1].key \in DOMAIN tally))'
      BY <1>1, <2>11, <2>12, <3>1 DEF KeyGiven
    <3> QED BY <1>2, <1>3, <1>4, <2>3, <2>8, <2>10, <3>3, <3>4, <3>5 DEF IdentityInv
  <2>13. CASE key # ""
    <3> DEFINE old == Keyed!Counters(key)
    <3>1. tally' = Keyed!Put(tally, key, [old EXCEPT !.calls = @ + 1])
      BY <2>1, <2>13 DEF Keyed!RecordCall
    <3>2. /\ old \in [calls : Nat, mismatches : Nat] /\ IsFiniteSet(Unjudged(key))
          /\ old.mismatches + Cardinality(Unjudged(key)) <= old.calls
      <4>1. CASE key \in DOMAIN tally
        BY <4>1 DEF IdentityInv, Counted, Keyed!Counters
      <4>2. CASE key \notin DOMAIN tally
        <5>1. Unjudged(key) = {}
          BY <2>13, <4>2 DEF IdentityInv, Unjudged
        <5>2. IsFiniteSet({}) /\ Cardinality({}) = 0
          BY FS_EmptySet
        <5>3. old = [calls |-> 0, mismatches |-> 0]
          BY <4>2 DEF Keyed!Counters
        <5> HIDE DEF old
        <5> QED BY <5>1, <5>2, <5>3
      <4> QED BY <4>1, <4>2
    <3>3. old.calls = IF key \in DOMAIN admissions THEN admissions[key] ELSE 0
      BY <2>13 DEF IdentityInv, Keyed!CountersReconcile, Keyed!Counters
    <3> HIDE DEF old
    <3>4. /\ DOMAIN tally' = DOMAIN tally \cup {key}
          /\ \A k \in DOMAIN tally : k # key => tally'[k] = tally[k]
          /\ tally'[key] = [calls |-> old.calls + 1, mismatches |-> old.mismatches]
      BY <3>1, <3>2 DEF Keyed!Put
    <3>5. IsFiniteSet(Unjudged(key)') /\ Cardinality(Unjudged(key)') <= Cardinality(Unjudged(key)) + 1
          /\ Cardinality(Unjudged(key)') \in Nat /\ Cardinality(Unjudged(key)) \in Nat
      <4>1. CASE Unjudged(key)' = Unjudged(key)
        BY <3>2, <4>1, FS_CardinalityType
      <4>2. CASE Unjudged(key)' = Unjudged(key) \cup {c}
        <5>1. /\ IsFiniteSet(Unjudged(key) \cup {c})
              /\ Cardinality(Unjudged(key) \cup {c}) = Cardinality(Unjudged(key)) + 1
          BY <2>6, <3>2, FS_AddElement
        <5>2. Cardinality(Unjudged(key)) \in Nat
          BY <3>2, FS_CardinalityType
        <5> QED BY <4>2, <5>1, <5>2
      <4> QED BY <2>6, <4>1, <4>2
    <3>6. Counted(key)'
      <4>1. old.calls \in Nat /\ old.mismatches \in Nat
        BY <3>2
      <4>2. old.mismatches + Cardinality(Unjudged(key)') <= old.calls + 1
        BY <3>2, <3>5, <4>1
      <4> QED BY <3>4, <3>5, <4>1, <4>2 DEF Counted
    <3>7. (\A k \in DOMAIN tally : Counted(k))'
      <4> SUFFICES ASSUME NEW k \in DOMAIN tally' PROVE Counted(k)'
        OBVIOUS
      <4>1. CASE k = key
        BY <3>6, <4>1
      <4>2. CASE k # key
        BY <2>5, <3>4, <4>2 DEF IdentityInv, Counted
      <4> QED BY <4>1, <4>2
    <3>8. Keyed!CountersReconcile'
      <4> SUFFICES /\ \A k \in DOMAIN tally' :
                        /\ k # "" /\ k \in DOMAIN admissions' /\ tally'[k].calls = admissions'[k]
                        /\ tally'[k].mismatches <= tally'[k].calls
                   /\ \A k \in DOMAIN admissions' : k # "" => k \in DOMAIN tally'
        BY DEF Keyed!CountersReconcile
      <4>1. Keyed!CountersReconcile
        BY DEF IdentityInv
      <4>2. tally'[key].calls = admissions'[key]
        BY <2>9, <3>2, <3>3, <3>4
      <4>3. tally'[key].mismatches <= tally'[key].calls
        BY <3>2, <3>4, <3>5
      <4> QED BY <2>9, <2>13, <3>4, <4>1, <4>2, <4>3 DEF Keyed!CountersReconcile
    <3>9. (\A d \in Callers : line[d] # <<>> =>
             KeyGiven(line[d][1].key) /\ (line[d][1].key # "" => line[d][1].key \in DOMAIN tally))'
      BY <1>1, <2>11, <3>4 DEF KeyGiven
    <3> QED BY <1>2, <1>3, <1>4, <2>3, <2>8, <2>10, <3>7, <3>8, <3>9 DEF IdentityInv
  <2> QED BY <2>12, <2>13
<1> QED BY <1>5, <1>6

(* resolve and strict mode: a bound key's row has its unit, and an agent   *)
(* outside the binding is not served when that is enforced.                *)
LEMMA RowOfBinding ==
  ASSUME FromDocuments, gateway # Keyed!Down, NEW key, NEW x, NEW decision,
         gateway.strict = "enforce" /\ decision = "ok" => ~Keyed!Mismatch(key, x.agent),
         NEW i \in DOMAIN docs.map.keys, docs.map.keys[i].key = key
  PROVE  /\ Keyed!Unit(key, x.agent) = docs.map.keys[i].unit
         /\ gateway.strict = "enforce" /\ docs.map.keys[i].agents # <<>> /\ decision = "ok" =>
              x.agent # <<>> /\ \E j \in DOMAIN docs.map.keys[i].agents :
                                   Keyed!PatternMatches(docs.map.keys[i].agents[j], x.agent)
<1>1. Keyed!Loads(docs) /\ gateway = Keyed!Loaded(docs)
  BY DEF FromDocuments
<1>2. key # "" /\ key \in DOMAIN gateway.map.keyed /\ gateway.map.keyed[key] = docs.map.keys[i]
  BY <1>1, MapInForce
<1>3. Keyed!Unit(key, x.agent) = docs.map.keys[i].unit
  BY <1>2 DEF Keyed!Unit
<1>4. ASSUME gateway.strict = "enforce", docs.map.keys[i].agents # <<>>, decision = "ok"
      PROVE  x.agent # <<>> /\ \E j \in DOMAIN docs.map.keys[i].agents :
                                  Keyed!PatternMatches(docs.map.keys[i].agents[j], x.agent)
  BY <1>2, <1>4 DEF Keyed!Mismatch
<1> QED BY <1>3, <1>4

LEMMA JudgeKeeps ==
  ASSUME IdentityInv, NEW c \in Callers, Keyed!Judge(c),
         NEW x, x = line[c][1].call, NEW key, key = line[c][1].key
  PROVE  IdentityInv'
<1> DEFINE bad == Keyed!Mismatch(key, x.agent)
           passed == ~(bad /\ gateway.strict = "enforce")
           row == Keyed!Row(key, x, IF passed THEN "ok" ELSE "identity_mismatch")
           sent == [call |-> x, key |-> key, epoch |-> starts]
<1>1. line[c] # <<>> /\ UNCHANGED <<docs, gateway, admissions, starts>>
  BY DEF Keyed!Judge
<1>2. gateway # Keyed!Down /\ FromDocuments
  <2>1. FromDocuments
    BY DEF IdentityInv
  <2> QED BY <1>1, <2>1, RunningIsUp DEF FromDocuments
<1>3. FromDocuments'
  BY <1>1, <1>2, DocumentsStay
<1>4. KeyGiven(key) /\ (key # "" => key \in DOMAIN tally)
  BY <1>1 DEF IdentityInv
<1>5. records' = records \cup {row} /\ (forwarded' = forwarded \/ forwarded' = forwarded \cup {sent})
  BY DEF Keyed!Judge
<1>6. row.epoch = starts /\ row.key = key /\ row.call = x /\ row.unit = Keyed!Unit(key, x.agent)
      /\ (row.decision = "ok" /\ gateway.strict = "enforce" => ~bad)
  BY DEF Keyed!Row
<1>7. /\ line = [d \in Callers |-> line[d]] /\ line' = [d \in Callers |-> line'[d]]
      /\ \A d \in Callers : d # c => line'[d] = line[d]
      /\ line'[c] = <<>>
  BY DEF IdentityInv, Keyed!Judge
<1>8. tally' = tally \/ tally' = Keyed!RecordMismatch(key)
  BY DEF Keyed!Judge
<1>9. docs' \in Documents /\ starts' \in Nat /\ starts \in Nat
  BY <1>1 DEF IdentityInv
<1> HIDE DEF bad, passed, row, sent
<1>10. (\A r \in records : Past(r))'
  <2>1. \A r \in records : r.epoch \in Nat /\ r.epoch <= starts
    BY DEF IdentityInv, Past
  <2>2. \A r \in records' : r.epoch \in Nat /\ r.epoch <= starts
    BY <1>5, <1>6, <1>9, <2>1
  <2> QED BY <1>1, <2>2 DEF Past
<1>11. (\A f \in forwarded : Past(f) /\ (gateway # Keyed!Down /\ f.epoch = starts => KeyGiven(f.key)))'
  <2>1. sent.epoch = starts /\ sent.key = key
    BY DEF sent
  <2>2. \A f \in forwarded : f.epoch \in Nat /\ f.epoch <= starts /\ (f.epoch = starts => KeyGiven(f.key))
    BY <1>2 DEF IdentityInv, Past
  <2>3. \A f \in forwarded' : f.epoch \in Nat /\ f.epoch <= starts /\ (f.epoch = starts => KeyGiven(f.key))
    <3> SUFFICES ASSUME NEW f \in forwarded'
                 PROVE  f.epoch \in Nat /\ f.epoch <= starts /\ (f.epoch = starts => KeyGiven(f.key))
      OBVIOUS
    <3>1. CASE f \in forwarded
      BY <2>2, <3>1
    <3>2. CASE f = sent
      <4>1. f.epoch = starts /\ f.key = key
        BY <2>1, <3>2
      <4>2. f.epoch \in Nat /\ f.epoch <= starts
        BY <1>9, <4>1, SMT
      <4>3. KeyGiven(f.key)
        BY <1>4, <4>1 DEF KeyGiven
      <4> QED BY <4>2, <4>3, Zenon
    <3> QED BY <1>5, <3>1, <3>2
  <2> QED BY <1>1, <2>3 DEF Past, KeyGiven
<1>12. Keyed!BoundKeysKeepTheirUnit'
  <2> SUFFICES ASSUME NEW r \in records', r.epoch = starts, NEW i \in DOMAIN docs.map.keys, docs.map.keys[i].key = r.key
               PROVE  /\ r.unit = docs.map.keys[i].unit
                      /\ gateway.strict = "enforce" /\ docs.map.keys[i].agents # <<>> /\ r.decision = "ok" =>
                           r.call.agent # <<>> /\ \E j \in DOMAIN docs.map.keys[i].agents :
                                                    Keyed!PatternMatches(docs.map.keys[i].agents[j], r.call.agent)
    BY <1>1 DEF Keyed!BoundKeysKeepTheirUnit, Keyed!PatternMatches
  <2>1. CASE r \in records
    BY <1>2, <2>1 DEF IdentityInv, Keyed!BoundKeysKeepTheirUnit
  <2>2. CASE r = row
    <3>1. gateway.strict = "enforce" /\ row.decision = "ok" => ~Keyed!Mismatch(key, x.agent)
      BY <1>6 DEF bad
    <3>2. docs.map.keys[i].key = key
      BY <1>6, <2>2
    <3>3. /\ Keyed!Unit(key, x.agent) = docs.map.keys[i].unit
          /\ gateway.strict = "enforce" /\ docs.map.keys[i].agents # <<>> /\ row.decision = "ok" =>
               x.agent # <<>> /\ \E j \in DOMAIN docs.map.keys[i].agents :
                                    Keyed!PatternMatches(docs.map.keys[i].agents[j], x.agent)
      BY <1>2, <3>1, <3>2, RowOfBinding
    <3> QED BY <1>6, <2>2, <3>3
  <2> QED BY <1>5, <2>1, <2>2
<1>13. \A k : k # key => Unjudged(k)' = Unjudged(k)
  BY <1>7 DEF Unjudged
<1>14. c \in Unjudged(key) /\ Unjudged(key)' = Unjudged(key) \ {c}
  BY <1>1, <1>7 DEF Unjudged
<1>15. /\ DOMAIN tally' = DOMAIN tally
       /\ \A k \in DOMAIN tally : k # key => tally'[k] = tally[k]
       /\ key \in DOMAIN tally =>
            \/ tally'[key] = tally[key]
            \/ tally'[key] = [tally[key] EXCEPT !.mismatches = @ + 1]
  BY <1>4, <1>8 DEF Keyed!RecordMismatch, Keyed!Counters, Keyed!Put
<1>16. ASSUME key \in DOMAIN tally
       PROVE  Counted(key)' /\ tally'[key].calls = tally[key].calls /\ tally'[key].mismatches <= tally'[key].calls
  <2>1. /\ tally[key] \in [calls : Nat, mismatches : Nat]
        /\ IsFiniteSet(Unjudged(key)) /\ tally[key].mismatches + Cardinality(Unjudged(key)) <= tally[key].calls
    BY <1>16 DEF IdentityInv, Counted
  <2>2. /\ IsFiniteSet(Unjudged(key)') /\ Cardinality(Unjudged(key)') = Cardinality(Unjudged(key)) - 1
        /\ Cardinality(Unjudged(key)') \in Nat /\ Cardinality(Unjudged(key)) \in Nat
    BY <1>14, <2>1, FS_RemoveElement, FS_CardinalityType
  <2>3. /\ tally'[key] \in [calls : Nat, mismatches : Nat] /\ tally'[key].calls = tally[key].calls
        /\ tally'[key].mismatches <= tally[key].mismatches + 1
    BY <1>15, <1>16, <2>1
  <2>4. tally'[key].calls \in Nat /\ tally'[key].mismatches \in Nat /\ tally[key].mismatches \in Nat
    BY <2>1, <2>3
  <2>5. tally'[key].mismatches + Cardinality(Unjudged(key)') <= tally'[key].calls
    BY <2>1, <2>2, <2>3, <2>4
  <2>6. tally'[key].mismatches <= tally'[key].calls
    BY <2>2, <2>4, <2>5
  <2>7. Counted(key)'
    BY <1>1, <2>2, <2>3, <2>5 DEF Counted
  <2> QED BY <2>3, <2>6, <2>7
<1>17. (\A k \in DOMAIN tally : Counted(k))'
  <2> SUFFICES ASSUME NEW k \in DOMAIN tally' PROVE Counted(k)'
    OBVIOUS
  <2>1. CASE k = key
    BY <1>15, <1>16, <2>1
  <2>2. CASE k # key
    <3>1. k \in DOMAIN tally /\ Counted(k)
      BY <1>15 DEF IdentityInv
    <3> QED BY <1>13, <1>15, <2>2, <3>1 DEF Counted
  <2> QED BY <2>1, <2>2
<1>18. Keyed!CountersReconcile'
  BY <1>1, <1>15, <1>16 DEF IdentityInv, Keyed!CountersReconcile
<1>19. (\A d \in Callers : line[d] # <<>> =>
          KeyGiven(line[d][1].key) /\ (line[d][1].key # "" => line[d][1].key \in DOMAIN tally))'
  BY <1>1, <1>7, <1>15 DEF IdentityInv, KeyGiven
<1>20. (\A k \in DOMAIN admissions : admissions[k] \in Nat)'
  BY <1>1 DEF IdentityInv
<1> QED BY <1>3, <1>7, <1>9, <1>10, <1>11, <1>12, <1>17, <1>18, <1>19, <1>20 DEF IdentityInv

LEMMA IdentityStays == ASSUME IdentityInv, UNCHANGED Keyed!vars PROVE IdentityInv'
<1>1. UNCHANGED <<docs, gateway, tally, line, records, forwarded, admissions, refused, starts, presented>>
  BY DEF Keyed!vars
<1>2. FromDocuments'
  <2>1. CASE gateway = Keyed!Down
    BY <1>1, <2>1 DEF IdentityInv, FromDocuments, Keyed!Loaded, Keyed!Down
  <2> QED BY <1>1, <2>1, DocumentsStay DEF IdentityInv
<1>3. (\A k \in DOMAIN tally : Counted(k))'
  BY <1>1 DEF IdentityInv, Counted, Unjudged
<1>4. Keyed!BoundKeysKeepTheirUnit'
  BY <1>1, RowsStay DEF IdentityInv
<1>5. Keyed!CountersReconcile'
  BY <1>1 DEF IdentityInv, Keyed!CountersReconcile
<1> QED BY <1>1, <1>2, <1>3, <1>4, <1>5 DEF IdentityInv, Past, KeyGiven, Keyed!Down

LEMMA IdentityStep ==
  ASSUME Keyed!IdentityConstants, IdentityInv, [Keyed!Next]_(Keyed!vars)
  PROVE  IdentityInv'
<1>1. ASSUME NEW d \in Documents, Keyed!Edit(d) PROVE IdentityInv'
  BY <1>1, EditKeeps
<1>2. ASSUME NEW c \in Callers, Keyed!Judge(c) PROVE IdentityInv'
  BY <1>2, JudgeKeeps
<1>3. ASSUME NEW c \in Callers, NEW x \in Presented, Keyed!Admit(c, x) PROVE IdentityInv'
  BY <1>3, AdmitKeeps
<1>4. CASE Keyed!Start
  BY <1>4, StartKeeps
<1>5. CASE Keyed!Stop
  BY <1>5, StopKeeps
<1>6. CASE UNCHANGED Keyed!vars
  BY <1>6, IdentityStays
<1> QED BY <1>1, <1>2, <1>3, <1>4, <1>5, <1>6 DEF Keyed!Next

(* clientkeys.rs, identitymap.rs, keystats.rs and their use in messages:   *)
(* whatever the documents say and however calls, edits and restarts        *)
(* overlap, a gateway that runs has all of its documents in force, a bound *)
(* key's rows carry its unit, in enforce mode for its agents only, and the *)
(* counters of a key are the calls it admitted since the start.            *)
THEOREM AttributionHolds == ASSUME Keyed!IdentityConstants PROVE Keyed!Spec => []CallsAttributed
<1>1. Keyed!Init => IdentityInv
  BY IdentityInit
<1>2. IdentityInv /\ [Keyed!Next]_(Keyed!vars) => IdentityInv'
  BY IdentityStep
<1>3. IdentityInv => CallsAttributed
  BY NothingOff DEF IdentityInv, CallsAttributed
<1> QED BY <1>1, <1>2, <1>3, PTL DEF Keyed!Spec
=============================================================================
