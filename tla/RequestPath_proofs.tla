------------------------ MODULE RequestPath_proofs -------------------------
(***************************************************************************)
(* Proofs about RequestPath, for every number of requests, every tree of   *)
(* runs and every depth of it, all units, caps, budgets and costs.         *)
(***************************************************************************)
EXTENDS RequestPath

ReqState ==
  [run : Runs \cup {NoRun}, parent : Runs \cup {NoRun}, budget : Int,
   unit : Units \cup {NoUnit}, stream : BOOLEAN, estimate : Nat]

CallState ==
  [at : Places, req : ReqState, budget : Int, central : BOOLEAN, late : BOOLEAN,
   steps : Nat, held : BOOLEAN, unitHeld : BOOLEAN, actual : Nat,
   trace : Seq(Decisions), cost : Nat]

-----------------------------------------------------------------------------
(* Part one: what the handler's control alone keeps true.                  *)

(* A task, field by field.                                                 *)
Task(at, req, budget, central, late, steps, held, unitHeld, actual, trace, cost) ==
  [at |-> at, req |-> req, budget |-> budget, central |-> central, late |-> late,
   steps |-> steps, held |-> held, unitHeld |-> unitHeld, actual |-> actual,
   trace |-> trace, cost |-> cost]

(* Writing one field of a task leaves the others alone.                    *)
LEMMA OneField ==
  ASSUME NEW k \in CallState, NEW x
  PROVE  /\ [k EXCEPT !.at = x] = Task(x, k.req, k.budget, k.central, k.late, k.steps,
              k.held, k.unitHeld, k.actual, k.trace, k.cost)
         /\ [k EXCEPT !.late = x] = Task(k.at, k.req, k.budget, k.central, x, k.steps,
              k.held, k.unitHeld, k.actual, k.trace, k.cost)
         /\ [k EXCEPT !.steps = x] = Task(k.at, k.req, k.budget, k.central, k.late, x,
              k.held, k.unitHeld, k.actual, k.trace, k.cost)
         /\ [k EXCEPT !.held = x] = Task(k.at, k.req, k.budget, k.central, k.late, k.steps,
              x, k.unitHeld, k.actual, k.trace, k.cost)
         /\ [k EXCEPT !.unitHeld = x] = Task(k.at, k.req, k.budget, k.central, k.late,
              k.steps, k.held, x, k.actual, k.trace, k.cost)
         /\ [k EXCEPT !.actual = x] = Task(k.at, k.req, k.budget, k.central, k.late,
              k.steps, k.held, k.unitHeld, x, k.trace, k.cost)
         /\ [k EXCEPT !.trace = x] = Task(k.at, k.req, k.budget, k.central, k.late, k.steps,
              k.held, k.unitHeld, k.actual, x, k.cost)
         /\ [k EXCEPT !.cost = x] = Task(k.at, k.req, k.budget, k.central, k.late, k.steps,
              k.held, k.unitHeld, k.actual, k.trace, x)
<1>1. [k EXCEPT !.at = x] = Task(x, k.req, k.budget, k.central, k.late, k.steps, k.held,
        k.unitHeld, k.actual, k.trace, k.cost)
  BY DEF Task, CallState
<1>2. [k EXCEPT !.late = x] = Task(k.at, k.req, k.budget, k.central, x, k.steps, k.held,
        k.unitHeld, k.actual, k.trace, k.cost)
  BY DEF Task, CallState
<1>3. [k EXCEPT !.steps = x] = Task(k.at, k.req, k.budget, k.central, k.late, x, k.held,
        k.unitHeld, k.actual, k.trace, k.cost)
  BY DEF Task, CallState
<1>4. [k EXCEPT !.held = x] = Task(k.at, k.req, k.budget, k.central, k.late, k.steps, x,
        k.unitHeld, k.actual, k.trace, k.cost)
  BY DEF Task, CallState
<1>5. [k EXCEPT !.unitHeld = x] = Task(k.at, k.req, k.budget, k.central, k.late, k.steps,
        k.held, x, k.actual, k.trace, k.cost)
  BY DEF Task, CallState
<1>6. [k EXCEPT !.actual = x] = Task(k.at, k.req, k.budget, k.central, k.late, k.steps,
        k.held, k.unitHeld, x, k.trace, k.cost)
  BY DEF Task, CallState
<1>7. [k EXCEPT !.trace = x] = Task(k.at, k.req, k.budget, k.central, k.late, k.steps,
        k.held, k.unitHeld, k.actual, x, k.cost)
  BY DEF Task, CallState
<1>8. [k EXCEPT !.cost = x] = Task(k.at, k.req, k.budget, k.central, k.late, k.steps,
        k.held, k.unitHeld, k.actual, k.trace, x)
  BY DEF Task, CallState
<1> QED BY <1>1, <1>2, <1>3, <1>4, <1>5, <1>6, <1>7, <1>8

(* A task moves and updates whether its run is killed.                     *)
LEMMA SetLate ==
  ASSUME NEW k \in CallState, NEW p \in Places, NEW x
  PROVE  [k EXCEPT !.at = p, !.late = x] =
           Task(p, k.req, k.budget, k.central, x, k.steps, k.held, k.unitHeld, k.actual,
                k.trace, k.cost)
<1>1. PICK m : m = [k EXCEPT !.at = p]
  OBVIOUS
<1>2. m = Task(p, k.req, k.budget, k.central, k.late, k.steps, k.held, k.unitHeld, k.actual,
        k.trace, k.cost)
  BY <1>1, OneField
<1>3. m \in CallState
  BY <1>2 DEF Task, CallState
<1>4. [m EXCEPT !.late = x] =
        Task(m.at, m.req, m.budget, m.central, x, m.steps, m.held, m.unitHeld, m.actual,
             m.trace, m.cost)
  BY <1>3, OneField
<1> QED BY <1>1, <1>2, <1>4 DEF Task

(* A task moves and updates the steps it saw.                              *)
LEMMA SetSteps ==
  ASSUME NEW k \in CallState, NEW p \in Places, NEW x
  PROVE  [k EXCEPT !.at = p, !.steps = x] =
           Task(p, k.req, k.budget, k.central, k.late, x, k.held, k.unitHeld, k.actual,
                k.trace, k.cost)
<1>1. PICK m : m = [k EXCEPT !.at = p]
  OBVIOUS
<1>2. m = Task(p, k.req, k.budget, k.central, k.late, k.steps, k.held, k.unitHeld, k.actual,
        k.trace, k.cost)
  BY <1>1, OneField
<1>3. m \in CallState
  BY <1>2 DEF Task, CallState
<1>4. [m EXCEPT !.steps = x] =
        Task(m.at, m.req, m.budget, m.central, m.late, x, m.held, m.unitHeld, m.actual,
             m.trace, m.cost)
  BY <1>3, OneField
<1> QED BY <1>1, <1>2, <1>4 DEF Task

(* A task moves and updates its run reservation.                           *)
LEMMA SetHeld ==
  ASSUME NEW k \in CallState, NEW p \in Places, NEW x
  PROVE  [k EXCEPT !.at = p, !.held = x] =
           Task(p, k.req, k.budget, k.central, k.late, k.steps, x, k.unitHeld, k.actual,
                k.trace, k.cost)
<1>1. PICK m : m = [k EXCEPT !.at = p]
  OBVIOUS
<1>2. m = Task(p, k.req, k.budget, k.central, k.late, k.steps, k.held, k.unitHeld, k.actual,
        k.trace, k.cost)
  BY <1>1, OneField
<1>3. m \in CallState
  BY <1>2 DEF Task, CallState
<1>4. [m EXCEPT !.held = x] =
        Task(m.at, m.req, m.budget, m.central, m.late, m.steps, x, m.unitHeld, m.actual,
             m.trace, m.cost)
  BY <1>3, OneField
<1> QED BY <1>1, <1>2, <1>4 DEF Task

(* A task moves and updates its unit reservation.                          *)
LEMMA SetUnitHeld ==
  ASSUME NEW k \in CallState, NEW p \in Places, NEW x
  PROVE  [k EXCEPT !.at = p, !.unitHeld = x] =
           Task(p, k.req, k.budget, k.central, k.late, k.steps, k.held, x, k.actual,
                k.trace, k.cost)
<1>1. PICK m : m = [k EXCEPT !.at = p]
  OBVIOUS
<1>2. m = Task(p, k.req, k.budget, k.central, k.late, k.steps, k.held, k.unitHeld, k.actual,
        k.trace, k.cost)
  BY <1>1, OneField
<1>3. m \in CallState
  BY <1>2 DEF Task, CallState
<1>4. [m EXCEPT !.unitHeld = x] =
        Task(m.at, m.req, m.budget, m.central, m.late, m.steps, m.held, x, m.actual,
             m.trace, m.cost)
  BY <1>3, OneField
<1> QED BY <1>1, <1>2, <1>4 DEF Task

(* A task moves and updates its actual cost.                               *)
LEMMA SetActual ==
  ASSUME NEW k \in CallState, NEW p \in Places, NEW x
  PROVE  [k EXCEPT !.at = p, !.actual = x] =
           Task(p, k.req, k.budget, k.central, k.late, k.steps, k.held, k.unitHeld, x,
                k.trace, k.cost)
<1>1. PICK m : m = [k EXCEPT !.at = p]
  OBVIOUS
<1>2. m = Task(p, k.req, k.budget, k.central, k.late, k.steps, k.held, k.unitHeld, k.actual,
        k.trace, k.cost)
  BY <1>1, OneField
<1>3. m \in CallState
  BY <1>2 DEF Task, CallState
<1>4. [m EXCEPT !.actual = x] =
        Task(m.at, m.req, m.budget, m.central, m.late, m.steps, m.held, m.unitHeld, x,
             m.trace, m.cost)
  BY <1>3, OneField
<1> QED BY <1>1, <1>2, <1>4 DEF Task

(* A task moves and updates its trace.                                     *)
LEMMA SetTrace ==
  ASSUME NEW k \in CallState, NEW p \in Places, NEW x
  PROVE  [k EXCEPT !.at = p, !.trace = x] =
           Task(p, k.req, k.budget, k.central, k.late, k.steps, k.held, k.unitHeld,
                k.actual, x, k.cost)
<1>1. PICK m : m = [k EXCEPT !.at = p]
  OBVIOUS
<1>2. m = Task(p, k.req, k.budget, k.central, k.late, k.steps, k.held, k.unitHeld, k.actual,
        k.trace, k.cost)
  BY <1>1, OneField
<1>3. m \in CallState
  BY <1>2 DEF Task, CallState
<1>4. [m EXCEPT !.trace = x] =
        Task(m.at, m.req, m.budget, m.central, m.late, m.steps, m.held, m.unitHeld,
             m.actual, x, m.cost)
  BY <1>3, OneField
<1> QED BY <1>1, <1>2, <1>4 DEF Task

(* A task moves and updates its run reservation and its actual cost.       *)
LEMMA SetHeldActual ==
  ASSUME NEW k \in CallState, NEW p \in Places, NEW x \in BOOLEAN, NEW y
  PROVE  [k EXCEPT !.at = p, !.held = x, !.actual = y] =
           Task(p, k.req, k.budget, k.central, k.late, k.steps, x, k.unitHeld, y, k.trace,
                k.cost)
<1>1. PICK m : m = [k EXCEPT !.at = p]
  OBVIOUS
<1>2. m = Task(p, k.req, k.budget, k.central, k.late, k.steps, k.held, k.unitHeld, k.actual,
        k.trace, k.cost)
  BY <1>1, OneField
<1>3. m \in CallState
  BY <1>2 DEF Task, CallState
<1>4. PICK o : o = [m EXCEPT !.held = x]
  OBVIOUS
<1>5. o = Task(m.at, m.req, m.budget, m.central, m.late, m.steps, x, m.unitHeld, m.actual,
        m.trace, m.cost)
  BY <1>3, <1>4, OneField
<1>6. o \in CallState
  BY <1>3, <1>5 DEF Task, CallState
<1>7. [o EXCEPT !.actual = y] =
        Task(o.at, o.req, o.budget, o.central, o.late, o.steps, o.held, o.unitHeld, y,
             o.trace, o.cost)
  BY <1>6, OneField
<1>8. [k EXCEPT !.at = p, !.held = x, !.actual = y] = [o EXCEPT !.actual = y]
  BY <1>1, <1>4
<1> QED BY <1>2, <1>5, <1>7, <1>8 DEF Task

(* A task moves and updates its unit reservation and its trace.            *)
LEMMA SetUnitTrace ==
  ASSUME NEW k \in CallState, NEW p \in Places, NEW x \in BOOLEAN, NEW y
  PROVE  [k EXCEPT !.at = p, !.unitHeld = x, !.trace = y] =
           Task(p, k.req, k.budget, k.central, k.late, k.steps, k.held, x, k.actual, y,
                k.cost)
<1>1. PICK m : m = [k EXCEPT !.at = p]
  OBVIOUS
<1>2. m = Task(p, k.req, k.budget, k.central, k.late, k.steps, k.held, k.unitHeld, k.actual,
        k.trace, k.cost)
  BY <1>1, OneField
<1>3. m \in CallState
  BY <1>2 DEF Task, CallState
<1>4. PICK o : o = [m EXCEPT !.unitHeld = x]
  OBVIOUS
<1>5. o = Task(m.at, m.req, m.budget, m.central, m.late, m.steps, m.held, x, m.actual,
        m.trace, m.cost)
  BY <1>3, <1>4, OneField
<1>6. o \in CallState
  BY <1>3, <1>5 DEF Task, CallState
<1>7. [o EXCEPT !.trace = y] =
        Task(o.at, o.req, o.budget, o.central, o.late, o.steps, o.held, o.unitHeld,
             o.actual, y, o.cost)
  BY <1>6, OneField
<1>8. [k EXCEPT !.at = p, !.unitHeld = x, !.trace = y] = [o EXCEPT !.trace = y]
  BY <1>1, <1>4
<1> QED BY <1>2, <1>5, <1>7, <1>8 DEF Task

(* A task moves and updates its unit reservation and the cost on record and its trace.*)
LEMMA SetUnitCostTrace ==
  ASSUME NEW k \in CallState, NEW y, NEW z
  PROVE  [k EXCEPT !.at = "drop", !.unitHeld = FALSE, !.cost = y, !.trace = z] =
           Task("drop", k.req, k.budget, k.central, k.late, k.steps, k.held, FALSE, k.actual, z, y)
<1>1. PICK m : m = [k EXCEPT !.at = "drop"]
  OBVIOUS
<1>2. m = Task("drop", k.req, k.budget, k.central, k.late, k.steps, k.held, k.unitHeld, k.actual,
        k.trace, k.cost)
  BY <1>1, OneField
<1>3. m \in CallState
  BY <1>2 DEF Task, CallState, Places, Settling
<1>4. PICK o : o = [m EXCEPT !.unitHeld = FALSE]
  OBVIOUS
<1>5. o = Task(m.at, m.req, m.budget, m.central, m.late, m.steps, m.held, FALSE, m.actual,
        m.trace, m.cost)
  BY <1>3, <1>4, OneField
<1>6. o \in CallState
  BY <1>3, <1>5 DEF Task, CallState
<1>7. PICK q : q = [o EXCEPT !.cost = y]
  OBVIOUS
<1>8. q = Task(o.at, o.req, o.budget, o.central, o.late, o.steps, o.held, o.unitHeld,
        o.actual, o.trace, y)
  BY <1>6, <1>7, OneField
<1>9. [q EXCEPT !.trace = z] =
        Task(o.at, o.req, o.budget, o.central, o.late, o.steps, o.held, o.unitHeld,
             o.actual, z, y)
  BY <1>6, <1>8 DEF Task, CallState
<1>10. [k EXCEPT !.at = "drop", !.unitHeld = FALSE, !.cost = y, !.trace = z] = [q EXCEPT !.trace = z]
  BY <1>1, <1>4, <1>7
<1> QED BY <1>2, <1>5, <1>9, <1>10 DEF Task

(* A recorded decision adds "allow" to a trace only if it is that.         *)
Allowed(t) == \E i \in 1 .. Len(t) : t[i] = "allow"

(* Appending a decision to a trace makes it an allowed one only if the     *)
(* decision is.                                                            *)
LEMMA AppendAllowed ==
  ASSUME NEW t \in Seq(Decisions), NEW d \in Decisions
  PROVE  /\ Append(t, d) \in Seq(Decisions)
         /\ Allowed(Append(t, d)) <=> Allowed(t) \/ d = "allow"
<1>1. /\ Append(t, d) \in Seq(Decisions) /\ Len(Append(t, d)) = Len(t) + 1 /\ Len(t) \in Nat
      /\ Append(t, d)[Len(t) + 1] = d
      /\ \A i \in 1 .. Len(t) : Append(t, d)[i] = t[i]
  OBVIOUS
<1>2. Allowed(t) => Allowed(Append(t, d))
  BY <1>1 DEF Allowed
<1>3. d = "allow" => Allowed(Append(t, d))
  BY <1>1 DEF Allowed
<1>4. Allowed(Append(t, d)) => Allowed(t) \/ d = "allow"
  <2> SUFFICES ASSUME NEW i \in 1 .. Len(Append(t, d)), Append(t, d)[i] = "allow"
               PROVE  Allowed(t) \/ d = "allow"
    BY DEF Allowed
  <2>1. CASE i = Len(t) + 1
    BY <1>1, <2>1
  <2>2. CASE i # Len(t) + 1
    BY <1>1, <2>2 DEF Allowed
  <2> QED BY <2>1, <2>2
<1> QED BY <1>1, <1>2, <1>3, <1>4

(* The unit a request is charged to has a cap.                             *)
CapsUnit(q) == q.unit # NoUnit /\ BaseCap[q.unit] # Uncapped

(* Where a task has a run reservation, where it has a unit reservation if  *)
(* its unit is capped, and where it may leave them behind.                 *)
Holding == {"send", "collect", "stream", "settle"}
Charged == Holding \cup {"reserve", "refund", "release", "settle_unit"}
Left == IF Disconnects = "anytime" THEN {"over"} ELSE {}

Shape(k) ==
  /\ k.at = "idle" => ~Allowed(k.trace) /\ ~k.late
  /\ k.at \notin {"idle", "over"} \/ k.held => k.req.run \in Runs
  /\ k.at \notin {"drop", "over"} \/ k.held \/ k.unitHeld => k.trace = << >>
  /\ k.at \in Holding => k.held
  /\ k.held => k.at \in Holding \cup Left
  /\ k.at \in Charged => (k.unitHeld <=> CapsUnit(k.req))
  /\ k.unitHeld => CapsUnit(k.req) /\ k.at \in Charged \cup Left
  /\ k.at = "drop" => Allowed(k.trace)
  /\ Allowed(k.trace) => k.at \in {"drop", "over"} /\ k.cost = k.actual /\ k.req.run \in Runs
  /\ k.late => k.at \in {"kill", "over"} /\ ~k.held /\ ~Allowed(k.trace)

Shaped == \A c \in Calls : Shape(call[c])

(* The run of a request being served, served, or left behind has an entry. *)
Opened == \A c \in Calls :
  call[c].at \notin {"idle", "open", "over"} \/ Traced(c) \/ call[c].held
    => ledger[Run(c)].open

LateKilled == \A c \in Calls : call[c].late => Run(c) \in killed

UnitsDated ==
  /\ \A u \in Units : unit[u].window = ThisMonth \/ (unit[u].reserved = 0 /\ unit[u].spent = 0)
  /\ \A c \in Calls : call[c].unitHeld => unit[Req(c).unit].window = ThisMonth

Typed ==
  /\ ledger \in Ledgers
  /\ unit \in [Units -> UnitState]
  /\ killed \subseteq Runs
  /\ overrides \in [Runs -> OverrideBudgets \cup {NoOverride}]
  /\ call \in [Calls -> CallState]

ControlInv == Typed /\ Shaped /\ Opened /\ LateKilled /\ UnitsDated

(* One task moves.                                                         *)
Moved(c) == call' \in [Calls -> CallState] /\ \A d \in Calls : d # c => call'[d] = call[d]

(* A step of one task leaves the others where they are.                    *)
LEMMA BecomeMoves ==
  ASSUME Typed, NEW c \in Calls, NEW k \in CallState, Become(c, k)
  PROVE  Moved(c) /\ call'[c] = k
BY DEF Typed, Become, Moved

(* A step of the handler that touches neither ledger: it arrives, or it    *)
(* moves on with the shares it had.                                        *)
Arrived(k, m) ==
  /\ k.at = "idle" /\ m.at \in {"open", "over"} /\ m.req \in Requests
  /\ ~m.held /\ ~m.unitHeld /\ ~Allowed(m.trace) /\ ~m.late

MovedOn(k, m) ==
  /\ m.req = k.req /\ m.late = k.late /\ m.held = k.held /\ m.unitHeld = k.unitHeld
  /\ Allowed(m.trace) <=> Allowed(k.trace)
  /\ Allowed(k.trace) => m.actual = k.actual
  /\ k.at \notin {"idle", "open", "over", "settle_unit"}
  /\ m.at \notin {"idle", "open", "settle_unit"}

Control(c) ==
  /\ Moved(c) /\ Shape(call'[c]) /\ UNCHANGED shared
  /\ Arrived(call[c], call'[c]) \/ MovedOn(call[c], call'[c])

(* Goto and Answer, the two ways such a step ends.                         *)
LEMMA GotoEffect ==
  ASSUME Typed, NEW c \in Calls, NEW place \in Places, Goto(c, place)
  PROVE  /\ Moved(c)
         /\ call'[c] = Task(place, call[c].req, call[c].budget, call[c].central,
              call[c].late, call[c].steps, call[c].held, call[c].unitHeld, call[c].actual,
              call[c].trace, call[c].cost)
<1>1. call[c] \in CallState
  BY DEF Typed
<1> DEFINE m == Task(place, call[c].req, call[c].budget, call[c].central,
              call[c].late, call[c].steps, call[c].held, call[c].unitHeld, call[c].actual,
              call[c].trace, call[c].cost)
<1>2. [call[c] EXCEPT !.at = place] = m
  BY <1>1, OneField
<1>3. m \in CallState
  BY <1>1 DEF Task, CallState
<1> HIDE DEF m
<1>4. Become(c, m)
  BY <1>2 DEF Goto
<1>5. Moved(c) /\ call'[c] = m
  BY <1>3, <1>4, BecomeMoves
<1> QED BY <1>5 DEF m

(* What answering the client leaves of the task.                           *)
LEMMA AnswerEffect ==
  ASSUME Typed, NEW c \in Calls, NEW d \in Decisions, Answer(c, d)
  PROVE  /\ Moved(c)
         /\ call'[c] = Task("over", call[c].req, call[c].budget, call[c].central,
              call[c].late, call[c].steps, call[c].held, call[c].unitHeld, call[c].actual,
              Append(call[c].trace, d), call[c].cost)
<1>1. call[c] \in CallState /\ "over" \in Places /\ call[c].trace \in Seq(Decisions)
  BY DEF Typed, CallState, Places
<1> DEFINE m == Task("over", call[c].req, call[c].budget, call[c].central,
              call[c].late, call[c].steps, call[c].held, call[c].unitHeld, call[c].actual,
              Append(call[c].trace, d), call[c].cost)
<1>2. [call[c] EXCEPT !.at = "over", !.trace = Append(call[c].trace, d)] = m
  BY <1>1, SetTrace
<1>3. m \in CallState
  BY <1>1, AppendAllowed DEF Task, CallState
<1> HIDE DEF m
<1>4. Become(c, m)
  BY <1>2 DEF Answer
<1>5. Moved(c) /\ call'[c] = m
  BY <1>3, <1>4, BecomeMoves
<1> QED BY <1>5 DEF m

(* A refusal or an answer of a gate, and a move between two places with    *)
(* the same reservations.                                                  *)
LEMMA AnswerControls ==
  ASSUME ControlInv, NEW c \in Calls, NEW d \in Decisions \ {"allow"}, Answer(c, d),
         call[c].at \in {"kill", "screen", "policy", "unit", "drop"},
         call[c].at = "unit" => ~call[c].unitHeld, UNCHANGED shared
  PROVE  Control(c)
<1>1. /\ Moved(c)
      /\ call'[c] = Task("over", call[c].req, call[c].budget, call[c].central,
              call[c].late, call[c].steps, call[c].held, call[c].unitHeld, call[c].actual,
              Append(call[c].trace, d), call[c].cost)
  BY AnswerEffect DEF ControlInv
<1>2. Allowed(Append(call[c].trace, d)) <=> Allowed(call[c].trace)
  BY AppendAllowed DEF ControlInv, Typed, CallState
<1>3. Shape(call[c])
  BY DEF ControlInv, Shaped
<1>4. MovedOn(call[c], call'[c]) /\ Shape(call'[c])
  BY <1>1, <1>2, <1>3 DEF MovedOn, Shape, Task, Holding, Charged, Left
<1> QED BY <1>1, <1>4 DEF Control

(* Moving on to the next gate touches neither ledger.                      *)
LEMMA GotoControls ==
  ASSUME ControlInv, NEW c \in Calls, NEW place \in Places, Goto(c, place), UNCHANGED shared,
         \/ call[c].at = "kill" /\ ~call[c].late /\ place = "screen"
         \/ call[c].at = "screen" /\ place \in {"over", "snapshot"}
         \/ call[c].at = "policy" /\ place = "unit"
         \/ call[c].at = "unit" /\ place = "reserve" /\ ~CapsUnit(Req(c))
         \/ call[c].at = "reserve" /\ place = "refund"
         \/ call[c].at = "send" /\ place \in {"stream", "collect"}
         \/ call[c].at = "drop" /\ place = "over"
         \/ call[c].at \in {"policy", "send", "collect"} /\ place = "over"
            /\ Disconnects = "anytime"
  PROVE  Control(c)
<1>1. /\ Moved(c)
      /\ call'[c] = Task(place, call[c].req, call[c].budget, call[c].central,
              call[c].late, call[c].steps, call[c].held, call[c].unitHeld, call[c].actual,
              call[c].trace, call[c].cost)
  BY GotoEffect DEF ControlInv
<1>2. Shape(call[c]) /\ call[c] \in CallState
  BY DEF ControlInv, Shaped, Typed
<1>3. MovedOn(call[c], call'[c]) /\ Shape(call'[c])
  BY <1>1, <1>2 DEF MovedOn, Shape, Task, Holding, Charged, Left, Req
<1> QED BY <1>1, <1>3 DEF Control

(* A request that arrives has no shares.                                   *)
LEMMA ArriveControls ==
  ASSUME ControlInv, NEW c \in Calls, NEW q \in Requests, Arrive(c, q)
  PROVE  Control(c)
<1> DEFINE place == IF q.run = NoRun THEN "over" ELSE "open"
           central == q.run # NoRun /\ overrides[q.run] # NoOverride
           budget == IF q.run # NoRun /\ overrides[q.run] # NoOverride
                     THEN overrides[q.run] ELSE q.budget
           m == Task(place, q, budget, central, FALSE, 0, FALSE, FALSE, 0, << >>, 0)
<1>1. q \in ReqState /\ call[c].at = "idle"
  BY RequestsAssumption DEF ReqState, Arrive, At
<1>2. place \in Places /\ central \in BOOLEAN /\ budget \in Int
  BY <1>1, OverrideBudgetsAssumption DEF ReqState, Places, Before, ControlInv, Typed
<1>3. [IdleCall EXCEPT !.at = place, !.req = q, !.central = central, !.budget = budget] = m
  <2> HIDE DEF place, central, budget
  <2>1. PICK i : i = [IdleCall EXCEPT !.at = place]
    OBVIOUS
  <2>2. i = Task(place, NoRequest, 0, FALSE, FALSE, 0, FALSE, FALSE, 0, << >>, 0)
    BY <2>1 DEF IdleCall, Task
  <2>3. PICK j : j = [i EXCEPT !.req = q]
    OBVIOUS
  <2>4. j = Task(place, q, 0, FALSE, FALSE, 0, FALSE, FALSE, 0, << >>, 0)
    BY <2>2, <2>3 DEF Task
  <2>5. PICK k : k = [j EXCEPT !.central = central]
    OBVIOUS
  <2>6. k = Task(place, q, 0, central, FALSE, 0, FALSE, FALSE, 0, << >>, 0)
    BY <2>4, <2>5 DEF Task
  <2>7. [k EXCEPT !.budget = budget] =
          Task(place, q, budget, central, FALSE, 0, FALSE, FALSE, 0, << >>, 0)
    <3>1. k \in CallState
      BY <1>1, <1>2, <2>6 DEF Task, CallState
    <3>2. [k EXCEPT !.budget = budget] =
            Task(k.at, k.req, budget, k.central, k.late, k.steps, k.held, k.unitHeld,
                 k.actual, k.trace, k.cost)
      BY <3>1 DEF Task, CallState
    <3> QED BY <2>6, <3>2 DEF Task
  <2>8. [IdleCall EXCEPT !.at = place, !.req = q, !.central = central, !.budget = budget] =
          [k EXCEPT !.budget = budget]
    BY <2>1, <2>3, <2>5
  <2> QED BY <2>7, <2>8
<1>4. m \in CallState
  BY <1>1, <1>2 DEF Task, CallState
<1>5. ~Allowed(<< >>)
  BY DEF Allowed
<1>6. Become(c, m) /\ UNCHANGED shared
  BY <1>3 DEF Arrive
<1>7. Arrived(call[c], m) /\ Shape(m)
  <2>1. place \in {"open", "over"} /\ (place = "open" => q.run \in Runs)
    BY <1>1 DEF ReqState
  <2> HIDE DEF place, central, budget
  <2> QED BY <1>1, <1>5, <2>1 DEF Arrived, Shape, Task, Holding, Charged, Left
<1> HIDE DEF m
<1>8. Moved(c) /\ call'[c] = m
  BY <1>4, <1>6, BecomeMoves DEF ControlInv
<1> QED BY <1>6, <1>7, <1>8 DEF Control

(* Reading the ledger for the policies touches neither ledger.             *)
LEMMA TakeSnapshotControls ==
  ASSUME ControlInv, NEW c \in Calls, TakeSnapshot(c)
  PROVE  Control(c)
<1> DEFINE n == ledger[Run(c)].steps
           m == Task("policy", call[c].req, call[c].budget, call[c].central,
              call[c].late, n, call[c].held, call[c].unitHeld, call[c].actual,
              call[c].trace, call[c].cost)
<1>1. call[c] \in CallState /\ Shape(call[c]) /\ call[c].at = "snapshot" /\ "policy" \in Places
  BY DEF ControlInv, Typed, Shaped, TakeSnapshot, At, Places, Before
<1>2. n \in Nat
  BY <1>1 DEF ControlInv, Typed, Shape, Run, Ledgers, RunState
<1>3. [call[c] EXCEPT !.at = "policy", !.steps = n] = m
  <2> HIDE DEF n
  <2> QED BY <1>1, SetSteps
<1>4. m \in CallState
  BY <1>1, <1>2 DEF Task, CallState
<1>5. Become(c, m) /\ UNCHANGED shared
  BY <1>3 DEF TakeSnapshot
<1>6. MovedOn(call[c], m) /\ Shape(m)
  BY <1>1 DEF MovedOn, Shape, Task, Holding, Charged, Left
<1> HIDE DEF m
<1>7. Moved(c) /\ call'[c] = m
  BY <1>4, <1>5, BecomeMoves DEF ControlInv
<1> QED BY <1>5, <1>6, <1>7 DEF Control

(* The end of a stream settles nothing yet.                                *)
LEMMA StreamEndsControls ==
  ASSUME ControlInv, NEW c \in Calls, NEW a \in Costs \cup {Req(c).estimate}, StreamEnds(c, a)
  PROVE  Control(c)
<1> DEFINE m == Task("settle", call[c].req, call[c].budget, call[c].central,
              call[c].late, call[c].steps, call[c].held, call[c].unitHeld, a,
              call[c].trace, call[c].cost)
<1>1. call[c] \in CallState /\ Shape(call[c]) /\ call[c].at = "stream" /\ "settle" \in Places
  BY DEF ControlInv, Typed, Shaped, StreamEnds, At, Places, Settling
<1>2. a \in Nat
  BY <1>1, CostsAssumption DEF CallState, ReqState, Req
<1>3. [call[c] EXCEPT !.at = "settle", !.actual = a] = m
  BY <1>1, SetActual
<1>4. m \in CallState
  BY <1>1, <1>2 DEF Task, CallState
<1>5. Become(c, m) /\ UNCHANGED shared
  BY <1>3 DEF StreamEnds
<1>6. MovedOn(call[c], m) /\ Shape(m)
  BY <1>1 DEF MovedOn, Shape, Task, Holding, Charged, Left
<1> HIDE DEF m
<1>7. Moved(c) /\ call'[c] = m
  BY <1>4, <1>5, BecomeMoves DEF ControlInv
<1> QED BY <1>5, <1>6, <1>7 DEF Control

(* The steps that change the run ledger: k is the task before, m after.    *)
RunOpened(c, k, m) ==
  /\ k.at = "open" /\ m.at = "kill"
  /\ ~m.held /\ ~m.unitHeld /\ (m.late => k.req.run \in killed)
  /\ k.req.parent \in Runs \cup {NoRun} /\ k.budget \in Int
  /\ ledger' = OpenRun(ledger, k.req.run, k.budget, k.req.parent)
  /\ UNCHANGED unit

RunReserved(c, k, m) ==
  /\ k.at = "reserve" /\ m.at = "send"
  /\ m.held /\ m.unitHeld = k.unitHeld /\ m.late = k.late
  /\ ledger' = Reserve(ledger, k.req.run, k.req.estimate)
  /\ UNCHANGED unit

RunSettled(c, k, m, actual) ==
  /\ k.at \in {"send", "collect", "settle"} /\ k.held
  /\ \/ m.at = "release" /\ actual = 0
     \/ m.at = "settle_unit" /\ m.actual = actual
  /\ ~m.held /\ m.unitHeld = k.unitHeld /\ m.late = k.late
  /\ ledger' = Settle(ledger, k.req.run, k.req.estimate, actual)
  /\ UNCHANGED unit

(* The steps that change the unit ledger.                                  *)
UnitReserved(c, k, m) ==
  /\ k.at = "unit" /\ m.at = "reserve" /\ CapsUnit(k.req)
  /\ m.unitHeld /\ ~m.held /\ m.late = k.late
  /\ unit' = [unit EXCEPT ![k.req.unit] = UnitHold(@, ThisMonth, k.req.estimate)]
  /\ UNCHANGED ledger

UnitRefused(c, k, m) ==
  /\ k.at = "unit" /\ m.at = "over" /\ CapsUnit(k.req)
  /\ ~m.unitHeld /\ ~m.held /\ m.late = k.late
  /\ unit' = [unit EXCEPT ![k.req.unit] = Rolled(@, ThisMonth)]
  /\ UNCHANGED ledger

UnitSettled(c, k, m, actual) ==
  /\ \/ k.at \in {"refund", "release"} /\ m.at = "over" /\ actual = 0
     \/ k.at = "settle_unit" /\ m.at = "drop" /\ m.actual = actual /\ k.actual = actual
  /\ ~m.unitHeld /\ ~m.held /\ m.late = k.late
  /\ unit' = IF k.unitHeld
             THEN [unit EXCEPT ![k.req.unit] =
                     UnitSettle(@, ThisMonth, ThisMonth, k.req.estimate, actual)]
             ELSE unit
  /\ UNCHANGED ledger

LedgerStep(c) ==
  LET k == call[c]
      m == call'[c]
  IN  /\ Moved(c) /\ Shape(m) /\ UNCHANGED <<killed, overrides>>
      /\ m.req = k.req
      /\ Allowed(m.trace) <=> m.at = "drop"
      /\ \/ RunOpened(c, k, m)
         \/ RunReserved(c, k, m)
         \/ \E a \in Nat : RunSettled(c, k, m, a)
         \/ UnitReserved(c, k, m)
         \/ UnitRefused(c, k, m)
         \/ \E a \in Nat : UnitSettled(c, k, m, a)

(* Opening the run is a step of the run ledger.                            *)
LEMMA OpenStepKind ==
  ASSUME ControlInv, NEW c \in Calls, OpenStep(c)
  PROVE  LedgerStep(c)
<1> DEFINE l == Run(c) \in killed
           m == Task("kill", call[c].req, call[c].budget, call[c].central,
              l, call[c].steps, call[c].held, call[c].unitHeld, call[c].actual,
              call[c].trace, call[c].cost)
<1>1. /\ call[c] \in CallState /\ Shape(call[c]) /\ call[c].at = "open" /\ "kill" \in Places
      /\ l \in BOOLEAN
  BY DEF ControlInv, Typed, Shaped, OpenStep, At, Places, Before
<1>2. [call[c] EXCEPT !.at = "kill", !.late = l] = m
  <2> HIDE DEF l
  <2> QED BY <1>1, SetLate
<1>3. m \in CallState
  BY <1>1 DEF Task, CallState
<1>4. /\ Become(c, m) /\ UNCHANGED <<unit, killed, overrides>>
      /\ ledger' = OpenRun(ledger, call[c].req.run, call[c].budget, call[c].req.parent)
  BY <1>2 DEF OpenStep, Run, Req
<1>5. /\ call[c].req.parent \in Runs \cup {NoRun} /\ call[c].budget \in Int
  BY <1>1 DEF CallState, ReqState
<1>6. Shape(m) /\ RunOpened(c, call[c], m) /\ m.req = call[c].req /\ ~Allowed(m.trace)
      /\ m.at # "drop"
  BY <1>1, <1>4, <1>5 DEF RunOpened, Shape, Task, Holding, Charged, Left, Run
<1> HIDE DEF m
<1>7. Moved(c) /\ call'[c] = m
  BY <1>3, <1>4, BecomeMoves DEF ControlInv
<1> QED BY <1>4, <1>6, <1>7 DEF LedgerStep

(* Reserving is one, and the task then holds the reservation.              *)
LEMMA ReserveKind ==
  ASSUME ControlInv, NEW c \in Calls, call[c].at = "reserve", Reserved(c),
         ledger' = Reserve(ledger, Run(c), Req(c).estimate),
         UNCHANGED <<unit, killed, overrides>>
  PROVE  LedgerStep(c)
<1> DEFINE m == Task("send", call[c].req, call[c].budget, call[c].central,
              call[c].late, call[c].steps, TRUE, call[c].unitHeld, call[c].actual,
              call[c].trace, call[c].cost)
<1>1. /\ call[c] \in CallState /\ Shape(call[c]) /\ "send" \in Places
  BY DEF ControlInv, Typed, Shaped, Places, Upstream
<1>2. [call[c] EXCEPT !.at = "send", !.held = TRUE] = m
  BY <1>1, SetHeld
<1>3. m \in CallState
  BY <1>1 DEF Task, CallState
<1>4. Become(c, m)
  BY <1>2 DEF Reserved
<1>5. Shape(m) /\ RunReserved(c, call[c], m) /\ m.req = call[c].req /\ ~Allowed(m.trace)
      /\ m.at # "drop"
  BY <1>1 DEF RunReserved, Shape, Task, Holding, Charged, Left, Run, Req
<1> HIDE DEF m
<1>6. Moved(c) /\ call'[c] = m
  BY <1>3, <1>4, BecomeMoves DEF ControlInv
<1> QED BY <1>5, <1>6 DEF LedgerStep

(* A failing upstream settles the run at zero.                             *)
LEMMA UpstreamFailsKind ==
  ASSUME ControlInv, NEW c \in Calls, UpstreamFails(c)
  PROVE  LedgerStep(c)
<1> DEFINE m == Task("release", call[c].req, call[c].budget, call[c].central,
              call[c].late, call[c].steps, FALSE, call[c].unitHeld, call[c].actual,
              call[c].trace, call[c].cost)
<1>1. /\ call[c] \in CallState /\ Shape(call[c]) /\ "release" \in Places
      /\ call[c].at \in {"send", "collect"}
  BY DEF ControlInv, Typed, Shaped, Places, Settling, UpstreamFails
<1>2. [call[c] EXCEPT !.at = "release", !.held = FALSE] = m
  BY <1>1, SetHeld
<1>3. m \in CallState
  BY <1>1 DEF Task, CallState
<1>4. Become(c, m) /\ UNCHANGED <<unit, killed, overrides>>
      /\ ledger' = Settle(ledger, call[c].req.run, call[c].req.estimate, 0)
  BY <1>2 DEF UpstreamFails, SettleRun, Run, Req
<1>5. Shape(m) /\ RunSettled(c, call[c], m, 0) /\ m.req = call[c].req /\ ~Allowed(m.trace)
      /\ m.at # "drop"
  BY <1>1, <1>4 DEF RunSettled, Shape, Task, Holding, Charged, Left
<1> HIDE DEF m
<1>6. Moved(c) /\ call'[c] = m
  BY <1>3, <1>4, BecomeMoves DEF ControlInv
<1> QED BY <1>4, <1>5, <1>6 DEF LedgerStep

(* A response that was collected is settled in the run ledger.             *)
LEMMA CollectKind ==
  ASSUME ControlInv, NEW c \in Calls, NEW a \in Costs \cup {Req(c).estimate}, Collect(c, a)
  PROVE  LedgerStep(c)
<1> DEFINE m == Task("settle_unit", call[c].req, call[c].budget, call[c].central,
              call[c].late, call[c].steps, FALSE, call[c].unitHeld, a,
              call[c].trace, call[c].cost)
<1>1. /\ call[c] \in CallState /\ Shape(call[c]) /\ "settle_unit" \in Places
      /\ call[c].at = "collect"
  BY DEF ControlInv, Typed, Shaped, Places, Settling, Collect, At
<1>2. a \in Nat
  BY <1>1, CostsAssumption DEF CallState, ReqState, Req
<1>3. [call[c] EXCEPT !.at = "settle_unit", !.held = FALSE, !.actual = a] = m
  BY <1>1, SetHeldActual
<1>4. m \in CallState
  BY <1>1, <1>2 DEF Task, CallState
<1>5. Become(c, m) /\ UNCHANGED <<unit, killed, overrides>>
      /\ ledger' = Settle(ledger, call[c].req.run, call[c].req.estimate, a)
  BY <1>3 DEF Collect, SettleRun, Run, Req
<1>6. Shape(m) /\ RunSettled(c, call[c], m, a) /\ m.req = call[c].req /\ ~Allowed(m.trace)
      /\ m.at # "drop"
  BY <1>1, <1>5 DEF RunSettled, Shape, Task, Holding, Charged, Left
<1> HIDE DEF m
<1>7. Moved(c) /\ call'[c] = m
  BY <1>4, <1>5, BecomeMoves DEF ControlInv
<1> QED BY <1>2, <1>5, <1>6, <1>7 DEF LedgerStep

(* So is a stream, by its guard.                                           *)
LEMMA GuardSettleKind ==
  ASSUME ControlInv, NEW c \in Calls, GuardSettle(c)
  PROVE  LedgerStep(c)
<1> DEFINE m == Task("settle_unit", call[c].req, call[c].budget, call[c].central,
              call[c].late, call[c].steps, FALSE, call[c].unitHeld, call[c].actual,
              call[c].trace, call[c].cost)
<1>1. /\ call[c] \in CallState /\ Shape(call[c]) /\ "settle_unit" \in Places
      /\ call[c].at = "settle" /\ call[c].actual \in Nat
  BY DEF ControlInv, Typed, Shaped, Places, Settling, GuardSettle, At, CallState
<1>2. [call[c] EXCEPT !.at = "settle_unit", !.held = FALSE] = m
  BY <1>1, SetHeld
<1>3. m \in CallState
  BY <1>1 DEF Task, CallState
<1>4. Become(c, m) /\ UNCHANGED <<unit, killed, overrides>>
      /\ ledger' = Settle(ledger, call[c].req.run, call[c].req.estimate, call[c].actual)
  BY <1>2 DEF GuardSettle, SettleRun, Run, Req
<1>5. Shape(m) /\ RunSettled(c, call[c], m, call[c].actual) /\ m.req = call[c].req
      /\ ~Allowed(m.trace) /\ m.at # "drop"
  BY <1>1, <1>4 DEF RunSettled, Shape, Task, Holding, Charged, Left
<1> HIDE DEF m
<1>6. Moved(c) /\ call'[c] = m
  BY <1>3, <1>4, BecomeMoves DEF ControlInv
<1> QED BY <1>1, <1>4, <1>5, <1>6 DEF LedgerStep

(* The unit gate goes on, refuses, or reserves in the unit ledger.         *)
LEMMA UnitGateKind ==
  ASSUME ControlInv, NEW c \in Calls, UnitGate(c)
  PROVE  Control(c) \/ LedgerStep(c)
<1>1. /\ call[c] \in CallState /\ Shape(call[c]) /\ call[c].at = "unit"
      /\ {"reserve", "over"} \subseteq Places /\ call[c].trace \in Seq(Decisions)
      /\ Req(c).unit \in Units \cup {NoUnit}
  BY DEF ControlInv, Typed, Shaped, Places, Before, UnitGate, At, CallState, ReqState, Req
<1>2. Req(c).unit # NoUnit => UnitCap(c) = BaseCap[Req(c).unit]
  BY <1>1 DEF UnitCap, EffectiveCap
<1>3. CASE Req(c).unit = NoUnit \/ UnitCap(c) = Uncapped
  <2>1. ~CapsUnit(Req(c))
    BY <1>2, <1>3 DEF CapsUnit
  <2>2. Goto(c, "reserve") /\ UNCHANGED shared
    BY <1>3 DEF UnitGate, shared
  <2> QED BY <1>1, <2>1, <2>2, GotoControls
<1>4. CASE /\ ~(Req(c).unit = NoUnit \/ UnitCap(c) = Uncapped)
           /\ Mode = "shadow" \/ UnitFits(unit[Req(c).unit], ThisMonth, Req(c).estimate, UnitCap(c))
  <2> DEFINE m == Task("reserve", call[c].req, call[c].budget, call[c].central,
              call[c].late, call[c].steps, call[c].held, TRUE, call[c].actual,
              call[c].trace, call[c].cost)
  <2>1. [call[c] EXCEPT !.at = "reserve", !.unitHeld = TRUE] = m
    BY <1>1, SetUnitHeld
  <2>2. m \in CallState
    BY <1>1 DEF Task, CallState
  <2>3. /\ Become(c, m) /\ UNCHANGED <<ledger, killed, overrides>>
        /\ unit' = [unit EXCEPT ![call[c].req.unit] = UnitHold(@, ThisMonth, call[c].req.estimate)]
    BY <1>4, <2>1 DEF UnitGate, Req
  <2>4. CapsUnit(call[c].req)
    BY <1>2, <1>4 DEF CapsUnit, Req
  <2>5. Shape(m) /\ UnitReserved(c, call[c], m) /\ m.req = call[c].req /\ ~Allowed(m.trace)
        /\ m.at # "drop"
    BY <1>1, <2>3, <2>4 DEF UnitReserved, Shape, Task, Holding, Charged, Left
  <2> HIDE DEF m
  <2>6. Moved(c) /\ call'[c] = m
    BY <2>2, <2>3, BecomeMoves DEF ControlInv
  <2> QED BY <2>3, <2>5, <2>6 DEF LedgerStep
<1>5. CASE /\ ~(Req(c).unit = NoUnit \/ UnitCap(c) = Uncapped)
           /\ ~(Mode = "shadow"
                \/ UnitFits(unit[Req(c).unit], ThisMonth, Req(c).estimate, UnitCap(c)))
  <2>1. /\ Answer(c, "unit_budget_exceeded") /\ UNCHANGED <<ledger, killed, overrides>>
        /\ unit' = [unit EXCEPT ![call[c].req.unit] = Rolled(@, ThisMonth)]
    BY <1>5 DEF UnitGate, Req
  <2>2. CapsUnit(call[c].req) /\ "unit_budget_exceeded" \in Decisions
    BY <1>2, <1>5 DEF CapsUnit, Req, Decisions
  <2>3. /\ Moved(c)
        /\ call'[c] = Task("over", call[c].req, call[c].budget, call[c].central,
              call[c].late, call[c].steps, call[c].held, call[c].unitHeld, call[c].actual,
              Append(call[c].trace, "unit_budget_exceeded"), call[c].cost)
    BY <2>1, <2>2, AnswerEffect DEF ControlInv
  <2>4. Allowed(Append(call[c].trace, "unit_budget_exceeded")) <=> Allowed(call[c].trace)
    BY <1>1, <2>2, AppendAllowed
  <2>5. /\ Shape(call'[c]) /\ UnitRefused(c, call[c], call'[c]) /\ call'[c].req = call[c].req
        /\ ~Allowed(call'[c].trace) /\ call'[c].at # "drop"
    BY <1>1, <2>1, <2>2, <2>3, <2>4 DEF UnitRefused, Shape, Task, Holding, Charged, Left
  <2> QED BY <2>1, <2>3, <2>5 DEF LedgerStep
<1> QED BY <1>3, <1>4, <1>5

(* A run that is refused gives the unit its reservation back.              *)
LEMMA RefundKind ==
  ASSUME ControlInv, NEW c \in Calls, Refund(c)
  PROVE  LedgerStep(c)
<1> DEFINE t == Append(call[c].trace, "budget_exceeded")
           m == Task("over", call[c].req, call[c].budget, call[c].central,
              call[c].late, call[c].steps, call[c].held, FALSE, call[c].actual,
              t, call[c].cost)
<1>1. /\ call[c] \in CallState /\ Shape(call[c]) /\ call[c].at = "refund"
      /\ "over" \in Places /\ call[c].trace \in Seq(Decisions) /\ "budget_exceeded" \in Decisions
  BY DEF ControlInv, Typed, Shaped, Places, Refund, At, CallState, Decisions
<1>2. t \in Seq(Decisions) /\ (Allowed(t) <=> Allowed(call[c].trace))
  BY <1>1, AppendAllowed
<1> HIDE DEF t
<1>3. [call[c] EXCEPT !.at = "over", !.unitHeld = FALSE, !.trace = t] = m
  BY <1>1, SetUnitTrace
<1>4. m \in CallState
  BY <1>1, <1>2 DEF Task, CallState
<1>5. /\ Become(c, m) /\ UNCHANGED <<ledger, killed, overrides>>
      /\ unit' = IF call[c].unitHeld
                 THEN [unit EXCEPT ![call[c].req.unit] =
                         UnitSettle(@, ThisMonth, ThisMonth, call[c].req.estimate, 0)]
                 ELSE unit
  BY <1>3 DEF Refund, SettleUnit, Req, t
<1>6. Shape(m) /\ UnitSettled(c, call[c], m, 0) /\ m.req = call[c].req /\ ~Allowed(m.trace)
      /\ m.at # "drop"
  BY <1>1, <1>2, <1>5 DEF UnitSettled, Shape, Task, Holding, Charged, Left
<1> HIDE DEF m
<1>7. Moved(c) /\ call'[c] = m
  BY <1>4, <1>5, BecomeMoves DEF ControlInv
<1> QED BY <1>5, <1>6, <1>7 DEF LedgerStep

(* A failed upstream gives it back, too.                                   *)
LEMMA ReleaseUnitKind ==
  ASSUME ControlInv, NEW c \in Calls, ReleaseUnit(c)
  PROVE  LedgerStep(c)
<1> DEFINE m == Task("over", call[c].req, call[c].budget, call[c].central,
              call[c].late, call[c].steps, call[c].held, FALSE, call[c].actual,
              call[c].trace, call[c].cost)
<1>1. /\ call[c] \in CallState /\ Shape(call[c]) /\ call[c].at = "release" /\ "over" \in Places
  BY DEF ControlInv, Typed, Shaped, Places, ReleaseUnit, At
<1>2. [call[c] EXCEPT !.at = "over", !.unitHeld = FALSE] = m
  BY <1>1, SetUnitHeld
<1>3. m \in CallState
  BY <1>1 DEF Task, CallState
<1>4. /\ Become(c, m) /\ UNCHANGED <<ledger, killed, overrides>>
      /\ unit' = IF call[c].unitHeld
                 THEN [unit EXCEPT ![call[c].req.unit] =
                         UnitSettle(@, ThisMonth, ThisMonth, call[c].req.estimate, 0)]
                 ELSE unit
  BY <1>2 DEF ReleaseUnit, SettleUnit, Req
<1>5. Shape(m) /\ UnitSettled(c, call[c], m, 0) /\ m.req = call[c].req /\ ~Allowed(m.trace)
      /\ m.at # "drop"
  BY <1>1, <1>4 DEF UnitSettled, Shape, Task, Holding, Charged, Left
<1> HIDE DEF m
<1>6. Moved(c) /\ call'[c] = m
  BY <1>3, <1>4, BecomeMoves DEF ControlInv
<1> QED BY <1>4, <1>5, <1>6 DEF LedgerStep

(* The unit is settled after the run, and the call is traced.              *)
LEMMA FinishSettleKind ==
  ASSUME ControlInv, NEW c \in Calls, FinishSettle(c)
  PROVE  LedgerStep(c)
<1> DEFINE t == Append(call[c].trace, "allow")
           m == Task("drop", call[c].req, call[c].budget, call[c].central,
              call[c].late, call[c].steps, call[c].held, FALSE, call[c].actual,
              t, call[c].actual)
<1>1. /\ call[c] \in CallState /\ Shape(call[c]) /\ call[c].at = "settle_unit"
      /\ "drop" \in Places /\ call[c].trace \in Seq(Decisions) /\ "allow" \in Decisions
      /\ call[c].actual \in Nat
  BY DEF ControlInv, Typed, Shaped, Places, Settling, FinishSettle, At, CallState, Decisions
<1>2. t \in Seq(Decisions) /\ Allowed(t)
  BY <1>1, AppendAllowed
<1> HIDE DEF t
<1>3. [call[c] EXCEPT !.at = "drop", !.unitHeld = FALSE, !.cost = call[c].actual, !.trace = t] = m
  <2>1. PICK k \in CallState, a \in Nat : k = call[c] /\ a = call[c].actual
    BY <1>1
  <2>2. [k EXCEPT !.at = "drop", !.unitHeld = FALSE, !.cost = a, !.trace = t] =
          Task("drop", k.req, k.budget, k.central, k.late, k.steps, k.held, FALSE, k.actual, t, a)
    <3> HIDE DEF m
    <3> QED BY SetUnitCostTrace
  <2> QED BY <2>1, <2>2
<1>4. m \in CallState
  BY <1>1, <1>2 DEF Task, CallState
<1>5. /\ Become(c, m) /\ UNCHANGED <<ledger, killed, overrides>>
      /\ unit' = IF call[c].unitHeld
                 THEN [unit EXCEPT ![call[c].req.unit] =
                         UnitSettle(@, ThisMonth, ThisMonth, call[c].req.estimate, call[c].actual)]
                 ELSE unit
  BY <1>3 DEF FinishSettle, SettleUnit, Recorded, Req, t
<1>6. Shape(m) /\ UnitSettled(c, call[c], m, call[c].actual) /\ m.req = call[c].req
      /\ Allowed(m.trace) /\ m.at = "drop"
  BY <1>1, <1>2, <1>5 DEF UnitSettled, Shape, Task, Holding, Charged, Left
<1> HIDE DEF m
<1>7. Moved(c) /\ call'[c] = m
  BY <1>4, <1>5, BecomeMoves DEF ControlInv
<1> QED BY <1>1, <1>5, <1>6, <1>7 DEF LedgerStep

(* The operator's steps: kills accumulate, budgets are replaced.           *)
Operator ==
  /\ UNCHANGED <<ledger, unit, call>>
  /\ killed \subseteq killed' /\ killed' \subseteq Runs
  /\ overrides' \in [Runs -> OverrideBudgets \cup {NoOverride}]

(* Every step is the operator's, a move of one task, or a change of one    *)
(* ledger together with one task.                                          *)
LEMMA StepKinds ==
  ASSUME ControlInv, [Next]_vars
  PROVE  Operator \/ \E c \in Calls : Control(c) \/ LedgerStep(c)
<1>1. ASSUME NEW r \in Runs, Kill(r) PROVE Operator
  BY <1>1 DEF Operator, Kill, ControlInv, Typed
<1>2. ASSUME NEW f \in [Runs -> OverrideBudgets \cup {NoOverride}], SetCloudBudgets(f)
      PROVE  Operator
  BY <1>2 DEF Operator, SetCloudBudgets, ControlInv, Typed
<1>3. CASE UNCHANGED vars
  BY <1>3 DEF Operator, vars, ControlInv, Typed
<1>4. ASSUME NEW c \in Calls, NEW q \in Requests, Arrive(c, q) PROVE Control(c)
  BY <1>4, ArriveControls
<1>5. ASSUME NEW c \in Calls, Gates(c) PROVE Control(c) \/ LedgerStep(c)
  <2>1. CASE OpenStep(c)
    BY <2>1, OpenStepKind
  <2>2. CASE IdentityMismatch(c)
    BY <2>2, AnswerControls DEF IdentityMismatch, At, Decisions
  <2>3. CASE KillCheck(c)
    <3>1. call[c].at = "kill" /\ UNCHANGED shared
      BY <2>3 DEF KillCheck, At
    <3>2. CASE Run(c) \in killed
      BY <2>3, <3>1, <3>2, AnswerControls DEF KillCheck, Decisions
    <3>3. CASE Run(c) \notin killed
      <4>1. ~call[c].late /\ Goto(c, "screen") /\ "screen" \in Places
        BY <2>3, <3>3 DEF KillCheck, ControlInv, LateKilled, Places, Before
      <4> QED BY <3>1, <4>1, GotoControls
    <3> QED BY <3>2, <3>3
  <2>4. CASE Screen(c)
    <3>1. call[c].at = "screen" /\ UNCHANGED shared
      BY <2>4 DEF Screen, At
    <3>2. \/ \E d \in {"dlp_blocked", "cache_hit"} : Answer(c, d)
          \/ \E p \in {"over", "snapshot"} : Goto(c, p)
      BY <2>4 DEF Screen, DlpBlock, CacheHit
    <3>3. {"dlp_blocked", "cache_hit"} \subseteq Decisions \ {"allow"}
          /\ {"over", "snapshot"} \subseteq Places
      BY DEF Decisions, Places, Before
    <3> QED BY <3>1, <3>2, <3>3, AnswerControls, GotoControls
  <2>5. CASE TakeSnapshot(c)
    BY <2>5, TakeSnapshotControls
  <2>6. CASE PolicyGate(c)
    <3>1. call[c].at = "policy" /\ UNCHANGED shared
      BY <2>6 DEF PolicyGate, At
    <3> DEFINE D == {"policy_violation", "loop_detected", "wasm_policy", "wardryx_deny",
                     "wardryx_hold"}
    <3>2. (\E d \in D : Answer(c, d)) \/ Goto(c, "unit")
      BY <2>6 DEF PolicyGate, LimitBlock, LoopBlock, WasmBlock, WardryxBlock
    <3>3. D \subseteq Decisions \ {"allow"} /\ "unit" \in Places
      BY DEF Decisions, Places, Before
    <3> HIDE DEF D
    <3> QED BY <3>1, <3>2, <3>3, AnswerControls, GotoControls
  <2>7. CASE UnitGate(c)
    BY <2>7, UnitGateKind
  <2>8. CASE RunGate(c)
    <3>1. call[c].at = "reserve" /\ UNCHANGED <<unit, killed, overrides>>
      BY <2>8 DEF RunGate, At
    <3>2. CASE CanReserve(ledger, Run(c), Req(c).estimate)
      BY <2>8, <3>1, <3>2, ReserveKind DEF RunGate
    <3>3. CASE ~CanReserve(ledger, Run(c), Req(c).estimate)
      <4>1. Goto(c, "refund") /\ UNCHANGED shared /\ "refund" \in Places
        BY <2>8, <3>1, <3>3 DEF RunGate, shared, Places, Settling
      <4> QED BY <3>1, <4>1, GotoControls
    <3> QED BY <3>2, <3>3
  <2>9. CASE RunGateUnchecked(c)
    <3>1. call[c].at = "reserve" /\ UNCHANGED <<unit, killed, overrides>> /\ Reserved(c)
      BY <2>9 DEF RunGateUnchecked, At
    <3>2. ledger[Run(c)].open
      BY <3>1 DEF ControlInv, Opened
    <3>3. ledger' = Reserve(ledger, Run(c), Req(c).estimate)
      BY <2>9, <3>2 DEF RunGateUnchecked, ReserveUnchecked
    <3> QED BY <3>1, <3>3, ReserveKind
  <2>10. CASE Refund(c)
    BY <2>10, RefundKind
  <2> QED BY <1>5, <2>1, <2>2, <2>3, <2>4, <2>5, <2>6, <2>7, <2>8, <2>9, <2>10 DEF Gates
<1>6. ASSUME NEW c \in Calls, Serves(c) PROVE Control(c) \/ LedgerStep(c)
  <2>1. CASE Send(c)
    <3>1. call[c].at = "send" /\ UNCHANGED shared /\ {"stream", "collect"} \subseteq Places
      BY <2>1 DEF Send, At, Places, Upstream
    <3>2. Goto(c, "stream") \/ Goto(c, "collect")
      BY <2>1 DEF Send
    <3> QED BY <3>1, <3>2, GotoControls
  <2>2. CASE UpstreamFails(c)
    BY <2>2, UpstreamFailsKind
  <2>3. CASE ReleaseUnit(c)
    BY <2>3, ReleaseUnitKind
  <2>4. ASSUME NEW a \in Costs \cup {Req(c).estimate}, Collect(c, a) PROVE LedgerStep(c)
    BY <2>4, CollectKind
  <2>5. ASSUME NEW a \in Costs \cup {Req(c).estimate}, StreamEnds(c, a) PROVE Control(c)
    BY <2>5, StreamEndsControls
  <2>6. CASE GuardSettle(c)
    BY <2>6, GuardSettleKind
  <2>7. CASE FinishSettle(c)
    BY <2>7, FinishSettleKind
  <2>8. CASE Withhold(c)
    BY <2>8, AnswerControls DEF Withhold, At, Decisions
  <2>9. CASE Finish(c)
    <3>1. call[c].at = "drop" /\ UNCHANGED shared /\ "over" \in Places
      BY <2>9 DEF Finish, At, Places
    <3>2. ~call[c].held
      BY <3>1 DEF ControlInv, Shaped, Shape, Holding, Left
    <3>3. Goto(c, "over")
      BY <2>9, <3>2 DEF Finish
    <3> QED BY <3>1, <3>3, GotoControls
  <2> QED BY <1>6, <2>1, <2>2, <2>3, <2>4, <2>5, <2>6, <2>7, <2>8, <2>9 DEF Serves
<1>7. ASSUME NEW c \in Calls, Cancel(c) PROVE Control(c)
  <2>1. /\ call[c].at \in {"policy", "send", "collect"} /\ Goto(c, "over") /\ UNCHANGED shared
        /\ Disconnects = "anytime" /\ "over" \in Places
    BY <1>7 DEF Cancel, Places
  <2> QED BY <2>1, GotoControls
<1> QED BY <1>1, <1>2, <1>3, <1>4, <1>5, <1>6, <1>7 DEF Next

(* What the unit ledger's operations do to an entry within a month.        *)
LEMMA EntryEffect ==
  ASSUME NEW s \in UnitState, NEW a \in Nat, NEW b \in Nat,
         s.window = ThisMonth \/ (s.reserved = 0 /\ s.spent = 0)
  PROVE  /\ UnitHold(s, ThisMonth, a) =
              [window |-> ThisMonth, reserved |-> s.reserved + a, spent |-> s.spent]
         /\ Rolled(s, ThisMonth) =
              [window |-> ThisMonth, reserved |-> s.reserved, spent |-> s.spent]
         /\ s.window = ThisMonth =>
              UnitSettle(s, ThisMonth, ThisMonth, a, b) =
                [window |-> ThisMonth, reserved |-> UnitMonus(s.reserved, a),
                 spent |-> s.spent + b]
         /\ UnitMonus(s.reserved, a) \in Nat
<1>1. s \in [window : Nat, reserved : Nat, spent : Nat] /\ ThisMonth \in Nat
  BY DEF UnitState, ThisMonth
<1>2. Rolled(s, ThisMonth) = [window |-> ThisMonth, reserved |-> s.reserved, spent |-> s.spent]
  BY <1>1 DEF Rolled
<1>3. UnitHold(s, ThisMonth, a) =
        [window |-> ThisMonth, reserved |-> s.reserved + a, spent |-> s.spent]
  BY <1>1, <1>2 DEF UnitHold
<1>4. UnitMonus(s.reserved, a) \in Nat
  BY <1>1 DEF UnitMonus
<1>5. ASSUME s.window = ThisMonth
      PROVE  UnitSettle(s, ThisMonth, ThisMonth, a, b) =
                [window |-> ThisMonth, reserved |-> UnitMonus(s.reserved, a),
                 spent |-> s.spent + b]
  <2>1. PICK t : t = [s EXCEPT !.reserved = UnitMonus(s.reserved, a)]
    OBVIOUS
  <2>2. t = [window |-> ThisMonth, reserved |-> UnitMonus(s.reserved, a), spent |-> s.spent]
    BY <1>1, <1>5, <2>1
  <2>3. [t EXCEPT !.spent = s.spent + b] =
          [window |-> ThisMonth, reserved |-> UnitMonus(s.reserved, a), spent |-> s.spent + b]
    BY <2>2
  <2>4. UnitSettle(s, ThisMonth, ThisMonth, a, b) = [t EXCEPT !.spent = s.spent + b]
    BY <1>5, <2>1 DEF UnitSettle
  <2> QED BY <2>3, <2>4
<1> QED BY <1>2, <1>3, <1>4, <1>5

(* A ledger step in terms of the counters it moves: one entry of the unit  *)
(* ledger, or the levels of one chain of the run ledger.                   *)
LEMMA LedgerStepEffect ==
  ASSUME ControlInv, NEW c \in Calls, LedgerStep(c)
  PROVE  /\ ledger' \in Ledgers /\ unit' \in [Units -> UnitState]
         /\ \A r \in Runs : ledger[r].open => ledger'[r].open
         /\ call[c].req \in ReqState /\ call[c].req.run \in Runs
         /\ call[c].at # "open" => ledger[call[c].req.run].open
         /\ ledger'[call[c].req.run].open
         /\ RunOpened(c, call[c], call'[c]) =>
              Opens(ledger, ledger', call[c].req.run, call[c].budget, call[c].req.parent)
         /\ RunReserved(c, call[c], call'[c]) =>
              Reserves(ledger, ledger', call[c].req.run, call[c].req.estimate)
         /\ \A a \in Nat : RunSettled(c, call[c], call'[c], a) =>
              Settles(ledger, ledger', call[c].req.run, call[c].req.estimate, a)
<1> DEFINE k == call[c]
           m == call'[c]
<1>1. /\ ledger \in Ledgers /\ unit \in [Units -> UnitState] /\ k \in CallState
      /\ k.req \in ReqState /\ k.req.estimate \in Nat /\ k.budget \in Int
      /\ k.req.parent \in Runs \cup {NoRun} /\ Shape(k)
  BY DEF ControlInv, Typed, CallState, ReqState, Shaped
<1>2. k.at \notin {"idle", "over"}
  BY DEF LedgerStep, RunOpened, RunReserved, RunSettled, UnitReserved, UnitRefused, UnitSettled
<1>3. k.req.run \in Runs /\ (k.at # "open" => ledger[k.req.run].open)
  BY <1>1, <1>2 DEF Shape, ControlInv, Opened, Run
<1>4. RunOpened(c, k, m) => Opens(ledger, ledger', k.req.run, k.budget, k.req.parent)
  BY <1>1, <1>3, OpenRunEffect DEF RunOpened
<1>5. RunReserved(c, k, m) => Reserves(ledger, ledger', k.req.run, k.req.estimate)
  BY <1>1, <1>3, ReserveEffect DEF RunReserved
<1>6. ASSUME NEW a \in Nat, RunSettled(c, k, m, a)
      PROVE  Settles(ledger, ledger', k.req.run, k.req.estimate, a)
  BY <1>1, <1>3, <1>6, SettleEffect DEF RunSettled
<1> HIDE DEF k, m
<1>7. /\ RunOpened(c, k, m) => /\ ledger' \in Ledgers
                               /\ \A r \in Runs : ledger[r].open => ledger'[r].open
                               /\ ledger'[k.req.run].open /\ unit' = unit
      /\ RunReserved(c, k, m) => /\ ledger' \in Ledgers
                                 /\ \A r \in Runs : ledger'[r].open = ledger[r].open
                                 /\ k.at # "open" /\ unit' = unit
      /\ \A a \in Nat : RunSettled(c, k, m, a) =>
           /\ ledger' \in Ledgers
           /\ \A r \in Runs : ledger'[r].open = ledger[r].open
           /\ k.at # "open" /\ unit' = unit
  BY <1>3, <1>4, <1>5, <1>6 DEF Opens, Reserves, Settles, RunOpened, RunReserved, RunSettled
<1>8. CapsUnit(k.req) => k.req.unit \in Units
  BY <1>1 DEF CapsUnit, ReqState
<1>9. /\ UnitReserved(c, k, m) => ledger' = ledger /\ unit' \in [Units -> UnitState] /\ k.at # "open"
      /\ UnitRefused(c, k, m) => ledger' = ledger /\ unit' \in [Units -> UnitState] /\ k.at # "open"
  <2>1. \A s \in UnitState, a \in Nat :
          UnitHold(s, ThisMonth, a) \in UnitState /\ Rolled(s, ThisMonth) \in UnitState
    BY DEF UnitHold, Rolled, UnitState, ThisMonth
  <2> QED BY <1>1, <1>8, <2>1 DEF UnitReserved, UnitRefused
<1>10. \A a \in Nat : UnitSettled(c, k, m, a) =>
         ledger' = ledger /\ unit' \in [Units -> UnitState] /\ k.at # "open"
  <2> SUFFICES ASSUME NEW a \in Nat, UnitSettled(c, k, m, a)
               PROVE  ledger' = ledger /\ unit' \in [Units -> UnitState] /\ k.at # "open"
    OBVIOUS
  <2>1. CASE k.unitHeld
    <3>1. k.req.unit \in Units /\ unit[k.req.unit].window = ThisMonth
      BY <1>1, <1>8, <2>1 DEF Shape, ControlInv, UnitsDated, Req, k
    <3>2. UnitSettle(unit[k.req.unit], ThisMonth, ThisMonth, k.req.estimate, a) \in UnitState
      <4>1. PICK s \in UnitState : s = unit[k.req.unit]
        BY <1>1, <3>1
      <4>2. /\ UnitSettle(s, ThisMonth, ThisMonth, k.req.estimate, a) =
                 [window |-> ThisMonth, reserved |-> UnitMonus(s.reserved, k.req.estimate),
                  spent |-> s.spent + a]
            /\ UnitMonus(s.reserved, k.req.estimate) \in Nat
        BY <1>1, <3>1, <4>1, EntryEffect
      <4>3. s.spent + a \in Nat /\ ThisMonth \in Nat
        BY DEF UnitState, ThisMonth
      <4> QED BY <4>1, <4>2, <4>3 DEF UnitState
    <3> QED BY <1>1, <2>1, <3>1, <3>2 DEF UnitSettled
  <2>2. CASE ~k.unitHeld
    BY <1>1, <2>2 DEF UnitSettled
  <2> QED BY <2>1, <2>2
<1>11. \/ RunOpened(c, k, m) \/ RunReserved(c, k, m) \/ (\E a \in Nat : RunSettled(c, k, m, a))
       \/ UnitReserved(c, k, m) \/ UnitRefused(c, k, m)
       \/ (\E a \in Nat : UnitSettled(c, k, m, a))
  BY DEF LedgerStep, k, m
<1>12. /\ ledger' \in Ledgers /\ unit' \in [Units -> UnitState]
       /\ \A r \in Runs : ledger[r].open => ledger'[r].open
       /\ ledger'[k.req.run].open
  BY <1>1, <1>3, <1>7, <1>9, <1>10, <1>11
<1> QED BY <1>1, <1>3, <1>4, <1>5, <1>6, <1>12 DEF k, m

(* Nothing has arrived: the control invariant holds.                       *)
LEMMA ControlInit == Init => ControlInv
<1> SUFFICES ASSUME Init PROVE ControlInv
  OBVIOUS
<1>1. ledger \in Ledgers
  BY DEF Init, EmptyLedger, Closed, Ledgers, RunState
<1>2. unit \in [Units -> UnitState]
  BY DEF Init, NoEntry, UnitState
<1>3. IdleCall \in CallState /\ ~Allowed(IdleCall.trace)
  <2>1. << >> \in Seq(Decisions) /\ Len(<< >>) = 0
    OBVIOUS
  <2>2. NoRequest \in ReqState
    BY DEF NoRequest, ReqState
  <2> QED BY <2>1, <2>2 DEF IdleCall, CallState, Places, Allowed
<1>4. \A c \in Calls : call[c] = IdleCall
  BY DEF Init
<1>5. Shape(IdleCall)
  BY <1>3 DEF Shape, IdleCall, Holding, Charged, Left
<1>6. Typed
  BY <1>1, <1>2, <1>3 DEF Typed, Init
<1>7. Opened /\ LateKilled
  BY <1>3, <1>4 DEF Opened, LateKilled, Traced, Allowed, IdleCall
<1>8. UnitsDated
  BY <1>4 DEF UnitsDated, Init, NoEntry, IdleCall
<1> QED BY <1>4, <1>5, <1>6, <1>7, <1>8 DEF ControlInv, Shaped

(* Every step keeps the control invariant.                                 *)
LEMMA ControlNext == ControlInv /\ [Next]_vars => ControlInv'
<1> SUFFICES ASSUME ControlInv, [Next]_vars PROVE ControlInv'
  OBVIOUS
<1>0. \A d \in Calls : /\ Traced(d) <=> Allowed(call[d].trace)
                       /\ Traced(d)' <=> Allowed(call'[d].trace)
  BY DEF Traced, Allowed
<1>1. CASE Operator
  BY <1>1 DEF Operator, ControlInv, Typed, Shaped, Opened, LateKilled, UnitsDated, Shape,
              Traced, Run, Req
<1>2. ASSUME NEW c \in Calls, Control(c) PROVE ControlInv'
  <2>1. /\ UNCHANGED <<ledger, unit, killed, overrides>> /\ Moved(c) /\ Shape(call'[c])
        /\ Arrived(call[c], call'[c]) \/ MovedOn(call[c], call'[c])
    BY <1>2 DEF Control, shared
  <2>2. Typed'
    BY <2>1 DEF ControlInv, Typed, Moved
  <2>3. ASSUME NEW d \in Calls
        PROVE  /\ Shape(call'[d])
               /\ call'[d].at \notin {"idle", "open", "over"} \/ Allowed(call'[d].trace) \/ call'[d].held
                    => ledger[call'[d].req.run].open
               /\ call'[d].late => call'[d].req.run \in killed
               /\ call'[d].unitHeld => unit[call'[d].req.unit].window = ThisMonth
    <3>1. /\ Shape(call[d])
          /\ call[d].at \notin {"idle", "open", "over"} \/ Allowed(call[d].trace) \/ call[d].held
               => ledger[call[d].req.run].open
          /\ call[d].late => call[d].req.run \in killed
          /\ call[d].unitHeld => unit[call[d].req.unit].window = ThisMonth
      BY <1>0 DEF ControlInv, Shaped, Opened, LateKilled, UnitsDated, Run, Req
    <3>2. CASE d # c
      BY <2>1, <3>1, <3>2 DEF Moved
    <3>3. CASE d = c /\ Arrived(call[c], call'[c])
      BY <2>1, <3>1, <3>3 DEF Arrived
    <3>4. CASE d = c /\ MovedOn(call[c], call'[c])
      BY <2>1, <3>1, <3>4 DEF MovedOn
    <3> QED BY <2>1, <3>2, <3>3, <3>4
  <2>4. \A u \in Units : unit'[u].window = ThisMonth \/ (unit'[u].reserved = 0 /\ unit'[u].spent = 0)
    BY <2>1 DEF ControlInv, UnitsDated
  <2> QED BY <1>0, <2>1, <2>2, <2>3, <2>4
          DEF ControlInv, Shaped, Opened, LateKilled, UnitsDated, Run, Req
<1>3. ASSUME NEW c \in Calls, LedgerStep(c) PROVE ControlInv'
  <2> DEFINE k == call[c]
             m == call'[c]
  <2>1. /\ ledger' \in Ledgers /\ unit' \in [Units -> UnitState]
        /\ \A r \in Runs : ledger[r].open => ledger'[r].open
        /\ k.req \in ReqState /\ k.req.run \in Runs /\ ledger'[k.req.run].open
    BY <1>3, LedgerStepEffect
  <2>2. /\ UNCHANGED <<killed, overrides>> /\ Moved(c) /\ Shape(m) /\ m.req = k.req
        /\ \/ RunOpened(c, k, m) \/ RunReserved(c, k, m) \/ (\E a \in Nat : RunSettled(c, k, m, a))
           \/ UnitReserved(c, k, m) \/ UnitRefused(c, k, m)
           \/ (\E a \in Nat : UnitSettled(c, k, m, a))
    BY <1>3 DEF LedgerStep
  <2>3. Typed'
    BY <2>1, <2>2 DEF ControlInv, Typed, Moved
  <2>4. m.late => k.req.run \in killed
    <3>1. k.late => k.req.run \in killed
      BY DEF ControlInv, LateKilled, Run
    <3> HIDE DEF k, m
    <3> QED BY <2>2, <3>1
            DEF RunOpened, RunReserved, RunSettled, UnitReserved, UnitRefused, UnitSettled
  <2>5. /\ \A u \in Units : unit'[u].window = ThisMonth \/ (unit'[u].reserved = 0 /\ unit'[u].spent = 0)
        /\ \A u \in Units : unit[u].window = ThisMonth => unit'[u].window = ThisMonth
        /\ m.unitHeld => unit'[m.req.unit].window = ThisMonth
    <3>1. /\ \A u \in Units : unit[u].window = ThisMonth \/ (unit[u].reserved = 0 /\ unit[u].spent = 0)
          /\ k.unitHeld => unit[k.req.unit].window = ThisMonth /\ CapsUnit(k.req)
          /\ unit \in [Units -> UnitState] /\ k.req.estimate \in Nat
      BY <2>1 DEF ControlInv, UnitsDated, Req, Shaped, Shape, Typed, ReqState
    <3>2. CapsUnit(k.req) => k.req.unit \in Units
      BY <2>1 DEF CapsUnit, ReqState
    <3> HIDE DEF k, m
    <3>3. CASE unit' = unit /\ (m.unitHeld => k.unitHeld)
      BY <2>2, <3>1, <3>3
    <3>4. CASE UnitReserved(c, k, m) \/ UnitRefused(c, k, m)
      <4>1. PICK u \in Units, s \in UnitState : u = k.req.unit /\ s = unit[u]
        BY <3>1, <3>2, <3>4 DEF UnitReserved, UnitRefused
      <4>2. /\ UnitHold(s, ThisMonth, k.req.estimate).window = ThisMonth
            /\ Rolled(s, ThisMonth).window = ThisMonth
        BY <3>1, <4>1, EntryEffect
      <4>3. unit'[u].window = ThisMonth /\ \A v \in Units : v # u => unit'[v] = unit[v]
        BY <3>1, <3>4, <4>1, <4>2 DEF UnitReserved, UnitRefused
      <4> QED BY <2>2, <3>1, <4>1, <4>3
    <3>5. CASE k.unitHeld /\ \E a \in Nat : UnitSettled(c, k, m, a)
      <4>1. PICK a \in Nat : UnitSettled(c, k, m, a)
        BY <3>5
      <4>2. PICK u \in Units, s \in UnitState : u = k.req.unit /\ s = unit[u] /\ s.window = ThisMonth
        BY <3>1, <3>2, <3>5
      <4>3. UnitSettle(s, ThisMonth, ThisMonth, k.req.estimate, a).window = ThisMonth
        BY <3>1, <4>2, EntryEffect
      <4>4. unit'[u].window = ThisMonth /\ \A v \in Units : v # u => unit'[v] = unit[v]
        BY <3>1, <3>5, <4>1, <4>2, <4>3 DEF UnitSettled
      <4> QED BY <2>2, <3>1, <4>1, <4>2, <4>4 DEF UnitSettled
    <3> QED BY <2>2, <3>3, <3>4, <3>5 DEF RunOpened, RunReserved, RunSettled, UnitSettled
  <2>6. ASSUME NEW d \in Calls
        PROVE  /\ Shape(call'[d])
               /\ call'[d].at \notin {"idle", "open", "over"} \/ Allowed(call'[d].trace) \/ call'[d].held
                    => ledger'[call'[d].req.run].open
               /\ call'[d].late => call'[d].req.run \in killed
               /\ call'[d].unitHeld => unit'[call'[d].req.unit].window = ThisMonth
    <3>1. CASE d # c
      <4>1. /\ Shape(call[d]) /\ call'[d] = call[d] /\ call[d].req \in ReqState
            /\ call[d].at \notin {"idle", "open", "over"} \/ Allowed(call[d].trace) \/ call[d].held
                 => ledger[call[d].req.run].open
            /\ call[d].late => call[d].req.run \in killed
            /\ call[d].unitHeld => unit[call[d].req.unit].window = ThisMonth
        BY <1>0, <2>2, <3>1
           DEF ControlInv, Shaped, Opened, LateKilled, UnitsDated, Run, Req, Moved, Typed, CallState
      <4>2. /\ call[d].at \notin {"idle", "over"} \/ Allowed(call[d].trace) \/ call[d].held
                 => call[d].req.run \in Runs
            /\ call[d].unitHeld => call[d].req.unit \in Units
        BY <4>1 DEF Shape, CapsUnit, ReqState
      <4> QED BY <2>1, <2>5, <4>1, <4>2
    <3>2. CASE d = c
      BY <2>1, <2>2, <2>4, <2>5, <3>2
    <3> QED BY <3>1, <3>2
  <2> QED BY <1>0, <2>2, <2>3, <2>5, <2>6
          DEF ControlInv, Shaped, Opened, LateKilled, UnitsDated, Run, Req
<1> QED BY <1>1, <1>2, <1>3, StepKinds

(* The requests the tasks serve are the ones that arrived.                 *)
Requested == \A c \in Calls : call[c].req \in Requests \cup {NoRequest}

(* Every task carries a request that a client may send.                    *)
LEMMA RequestedNext == ControlInv /\ Requested /\ [Next]_vars => Requested'
<1> SUFFICES ASSUME ControlInv, Requested, [Next]_vars PROVE Requested'
  OBVIOUS
<1>1. CASE Operator
  BY <1>1 DEF Operator, Requested
<1>2. ASSUME NEW c \in Calls, Control(c) \/ LedgerStep(c) PROVE Requested'
  <2>1. /\ \A d \in Calls : d # c => call'[d] = call[d]
        /\ call'[c].req \in Requests \cup {call[c].req}
    BY <1>2 DEF Control, LedgerStep, Moved, Arrived, MovedOn
  <2> QED BY <2>1 DEF Requested
<1> QED BY <1>1, <1>2, StepKinds

(* Part one is an invariant.                                               *)
LEMMA ControlAlways == Spec => [](ControlInv /\ Requested)
<1>1. Init => ControlInv /\ Requested
  BY ControlInit DEF Init, IdleCall, Requested
<1>2. ControlInv /\ Requested /\ [Next]_vars => ControlInv' /\ Requested'
  BY ControlNext, RequestedNext
<1> QED BY <1>1, <1>2, PTL DEF Spec

(* Ledgers, kills, overrides and every task of the handler stay within     *)
(* their types, in every interleaving, with clients leaving at any time.   *)
THEOREM RequestPathTyped == Spec => []TypeOK
<1>1. ControlInv /\ Requested => TypeOK
  <2> SUFFICES ASSUME ControlInv, Requested PROVE TypeOK
    OBVIOUS
  <2>1. ASSUME NEW c \in Calls
        PROVE  /\ call[c].at \in Places /\ call[c].actual \in Nat
               /\ \A i \in 1 .. Len(call[c].trace) : call[c].trace[i] \in Decisions
    BY DEF ControlInv, Typed, CallState
  <2> QED BY <2>1 DEF ControlInv, Typed, TypeOK, Requested
<1> QED BY <1>1, ControlAlways, PTL

(* A request that opens its run after the operator's kill never takes a    *)
(* run reservation, is never forwarded and never recorded as allowed,      *)
(* whatever the other requests, the pollers and its client do.             *)
THEOREM KillIsHard == Spec => []KilledNeverForwarded
<1>1. ControlInv => KilledNeverForwarded
  <2> SUFFICES ASSUME ControlInv, NEW c \in Calls, call[c].late
               PROVE  ~call[c].held /\ ~Traced(c) /\ call[c].at \notin Upstream
    BY DEF KilledNeverForwarded
  <2> QED BY DEF ControlInv, Shaped, Shape, Allowed, Traced, Upstream
<1> QED BY <1>1, ControlAlways, PTL

-----------------------------------------------------------------------------
(* Part two: money.  A request has a share of the reservations of its run, *)
(* at every level of the chain, and of its unit, and a share of what they  *)
(* have spent: the run's from the moment it is settled, the unit's from    *)
(* the moment it is recorded.                                              *)
SpendsRun(c, r) ==
  IF (call[c].at = "settle_unit" \/ Traced(c)) /\ r \in Chain(ledger, Run(c))
  THEN call[c].actual ELSE 0

SpendsUnit(c, u) == IF Traced(c) /\ Req(c).unit = u THEN call[c].actual ELSE 0

RunShares(r) == [c \in Calls |-> Holds(c, r)]
RunCosts(r) == [c \in Calls |-> SpendsRun(c, r)]
UnitShares(u) == [c \in Calls |-> HoldsUnit(c, u)]
UnitCosts(u) == [c \in Calls |-> SpendsUnit(c, u)]

(* A counter is the tally of the shares in it.                             *)
Covers(n, shares) == n = Total(shares, NumCalls)

RunMoney == \A r \in Runs :
  Covers(ledger[r].reserved, RunShares(r)) /\ ledger[r].spent = Total(RunCosts(r), NumCalls)

UnitMoney == \A u \in Units :
  /\ Covers(unit[u].reserved, UnitShares(u))
  /\ BaseCap[u] # Uncapped => unit[u].spent = Total(UnitCosts(u), NumCalls)

(* When one summand changes, the tally changes with it; and it is at least *)
(* that summand.                                                           *)
LEMMA ShareMoves ==
  ASSUME NEW f \in [1 .. NumCalls -> Nat], NEW g \in [1 .. NumCalls -> Nat], NEW c \in Calls,
         \A d \in Calls : d # c => g[d] = f[d]
  PROVE  /\ Total(g, NumCalls) = Total(f, NumCalls) + g[c] - f[c]
         /\ Total(f, NumCalls) \in Nat /\ Total(g, NumCalls) \in Nat
         /\ f[c] <= Total(f, NumCalls) /\ f[c] \in Nat /\ g[c] \in Nat
<1>1. c \in 1 .. NumCalls /\ NumCalls \in Nat /\ \A d \in 1 .. NumCalls : d # c => g[d] = f[d]
  BY NumCallsAssumption DEF Calls
<1>2. Total(g, NumCalls) = Total(f, NumCalls) + g[c] - f[c]
  BY <1>1, TotalUpdate
<1>3. Total(f, NumCalls) \in Nat /\ Total(g, NumCalls) \in Nat
  BY <1>1, TotalNat
<1>4. f[c] <= Total(f, NumCalls)
  BY <1>1, TotalAtLeast
<1> QED BY <1>1, <1>2, <1>3, <1>4

(* A counter moves by what a share grows or shrinks.                       *)
MovesWith(n, m, f, g) == m = n + g - f

(* A counter that moves with the share of one call still covers all of     *)
(* them.                                                                   *)
LEMMA CoversMoves ==
  ASSUME NEW f \in [1 .. NumCalls -> Nat], NEW g \in [1 .. NumCalls -> Nat], NEW c \in Calls,
         \A d \in Calls : d # c => g[d] = f[d],
         NEW n \in Nat, NEW m \in Int, Covers(n, f), MovesWith(n, m, f[c], g[c])
  PROVE  Covers(m, g)
<1>1. /\ Total(g, NumCalls) = Total(f, NumCalls) + g[c] - f[c]
      /\ Total(f, NumCalls) \in Nat /\ Total(g, NumCalls) \in Nat
      /\ f[c] \in Nat /\ g[c] \in Nat
  BY ShareMoves
<1> QED BY <1>1 DEF Covers, MovesWith

(* While every declared parent is open, a step leaves the chains of open   *)
(* runs alone, and with them the shares of all tasks but its own.          *)
LEMMA ChainsKept ==
  ASSUME ControlInv, ParentsOpen(ledger), NEW c \in Calls, LedgerStep(c), NEW r \in Open(ledger)
  PROVE  Chain(ledger', r) = Chain(ledger, r)
<1>1. \A q \in Open(ledger) : q \in Open(ledger') /\ ledger'[q].parent = ledger[q].parent
  <2> SUFFICES ASSUME NEW q \in Open(ledger)
               PROVE  q \in Open(ledger') /\ ledger'[q].parent = ledger[q].parent
    OBVIOUS
  <2>1. q \in Runs /\ ledger[q].open /\ ledger'[q].open
    BY LedgerStepEffect DEF Open
  <2>2. CASE UNCHANGED ledger
    BY <2>1, <2>2 DEF Open
  <2>3. CASE RunOpened(c, call[c], call'[c])
    <3>1. Opens(ledger, ledger', call[c].req.run, call[c].budget, call[c].req.parent)
      BY <2>3, LedgerStepEffect
    <3> QED BY <2>1, <3>1 DEF Opens, Open
  <2>4. CASE RunReserved(c, call[c], call'[c])
    <3>1. Reserves(ledger, ledger', call[c].req.run, call[c].req.estimate)
      BY <2>4, LedgerStepEffect
    <3> QED BY <2>1, <3>1 DEF Reserves, Open
  <2>5. ASSUME NEW a \in Nat, RunSettled(c, call[c], call'[c], a)
        PROVE  q \in Open(ledger') /\ ledger'[q].parent = ledger[q].parent
    <3>1. Settles(ledger, ledger', call[c].req.run, call[c].req.estimate, a)
      BY <2>5, LedgerStepEffect
    <3> QED BY <2>1, <3>1 DEF Settles, Open
  <2> QED BY <2>2, <2>3, <2>4, <2>5 DEF LedgerStep, UnitReserved, UnitRefused, UnitSettled
<1> QED BY <1>1, ChainStable

(* A step of one request changes no other's shares, at any level.          *)
LEMMA OthersKeep ==
  ASSUME ControlInv, ParentsOpen(ledger), NEW c \in Calls, Control(c) \/ LedgerStep(c),
         NEW d \in Calls, d # c, NEW r \in Runs, NEW u
  PROVE  /\ Holds(d, r)' = Holds(d, r) /\ SpendsRun(d, r)' = SpendsRun(d, r)
         /\ HoldsUnit(d, u)' = HoldsUnit(d, u) /\ SpendsUnit(d, u)' = SpendsUnit(d, u)
<1>1. call'[d] = call[d]
  BY DEF Control, LedgerStep, Moved
<1>2. HoldsUnit(d, u)' = HoldsUnit(d, u) /\ SpendsUnit(d, u)' = SpendsUnit(d, u)
  BY <1>1 DEF HoldsUnit, SpendsUnit, Traced, Req
<1>3. call[d].held \/ call[d].at = "settle_unit" \/ Traced(d) => Run(d) \in Open(ledger)
  <2>1. Shape(call[d]) /\ (Traced(d) <=> Allowed(call[d].trace))
    BY DEF ControlInv, Shaped, Traced, Allowed
  <2>2. call[d].held \/ call[d].at = "settle_unit" \/ Traced(d)
          => Run(d) \in Runs /\ ledger[Run(d)].open
    BY <2>1 DEF Shape, Run, ControlInv, Opened
  <2> QED BY <2>2 DEF Open
<1>4. Run(d) \in Open(ledger) => Chain(ledger', Run(d)) = Chain(ledger, Run(d))
  BY ChainsKept DEF Control, shared
<1>5. Holds(d, r)' = Holds(d, r)
  BY <1>1, <1>3, <1>4 DEF Holds, Run, Req
<1>6. SpendsRun(d, r)' = SpendsRun(d, r)
  BY <1>1, <1>3, <1>4 DEF SpendsRun, Run, Traced
<1> QED BY <1>2, <1>5, <1>6

(* The two accounts after a step, from the moves of call c's own shares.   *)
LEMMA RunMoneyMoves ==
  ASSUME ControlInv, ControlInv', RunMoney, ParentsOpen(ledger), NEW c \in Calls,
         Control(c) \/ LedgerStep(c), NEW r \in Runs,
         MovesWith(ledger[r].reserved, ledger'[r].reserved, Holds(c, r), Holds(c, r)'),
         ledger'[r].spent = ledger[r].spent + SpendsRun(c, r)' - SpendsRun(c, r)
  PROVE  /\ Covers(ledger'[r].reserved, RunShares(r)')
         /\ ledger'[r].spent = Total(RunCosts(r)', NumCalls)
<1>1. /\ RunShares(r) \in [1 .. NumCalls -> Nat] /\ RunShares(r)' \in [1 .. NumCalls -> Nat]
      /\ RunCosts(r) \in [1 .. NumCalls -> Nat] /\ RunCosts(r)' \in [1 .. NumCalls -> Nat]
  <2>1. \A q \in Calls : /\ call[q].req.estimate \in Nat /\ call[q].actual \in Nat
                         /\ call'[q].req.estimate \in Nat /\ call'[q].actual \in Nat
    BY DEF ControlInv, Typed, CallState, ReqState
  <2>2. \A q \in Calls : Holds(q, r) \in Nat /\ Holds(q, r)' \in Nat
    BY <2>1 DEF Holds, Req
  <2>3. \A q \in Calls : SpendsRun(q, r) \in Nat /\ SpendsRun(q, r)' \in Nat
    BY <2>1 DEF SpendsRun
  <2> QED BY <2>2, <2>3 DEF RunShares, RunCosts, Calls
<1>2. \A d \in Calls : d # c => RunShares(r)'[d] = RunShares(r)[d] /\ RunCosts(r)'[d] = RunCosts(r)[d]
  BY OthersKeep DEF RunShares, RunCosts
<1>3. /\ RunShares(r)[c] = Holds(c, r) /\ RunShares(r)'[c] = Holds(c, r)'
      /\ RunCosts(r)[c] = SpendsRun(c, r) /\ RunCosts(r)'[c] = SpendsRun(c, r)'
  BY DEF RunShares, RunCosts
<1>4. /\ ledger[r].reserved \in Nat /\ ledger'[r].reserved \in Nat
      /\ ledger[r].spent \in Nat /\ ledger'[r].spent \in Nat
  BY DEF ControlInv, Typed, Ledgers, RunState
<1>5. Covers(ledger[r].reserved, RunShares(r)) /\ ledger[r].spent = Total(RunCosts(r), NumCalls)
  BY DEF RunMoney
<1>6. Covers(ledger'[r].reserved, RunShares(r)')
  <2>1. PICK f, g, n, m : /\ f = RunShares(r) /\ g = RunShares(r)'
                          /\ n = ledger[r].reserved /\ m = ledger'[r].reserved
    OBVIOUS
  <2>2. /\ f \in [1 .. NumCalls -> Nat] /\ g \in [1 .. NumCalls -> Nat] /\ n \in Nat /\ m \in Int
        /\ \A d \in Calls : d # c => g[d] = f[d]
    BY <1>1, <1>2, <1>4, <2>1
  <2>3. Covers(n, f) /\ MovesWith(n, m, f[c], g[c])
    BY <1>3, <1>5, <2>1
  <2>4. Covers(m, g)
    BY <2>2, <2>3, CoversMoves
  <2> QED BY <2>1, <2>4
<1>7. Total(RunCosts(r)', NumCalls) = Total(RunCosts(r), NumCalls) + RunCosts(r)'[c] - RunCosts(r)[c]
  BY <1>1, <1>2, ShareMoves
<1> QED BY <1>3, <1>5, <1>6, <1>7

(* The unit ledger's counters move with the shares of the request that     *)
(* steps.                                                                  *)
LEMMA UnitMoneyMoves ==
  ASSUME ControlInv, ControlInv', UnitMoney, ParentsOpen(ledger), NEW c \in Calls,
         Control(c) \/ LedgerStep(c), NEW u \in Units,
         MovesWith(unit[u].reserved, unit'[u].reserved, HoldsUnit(c, u), HoldsUnit(c, u)'),
         BaseCap[u] # Uncapped =>
           unit'[u].spent = unit[u].spent + SpendsUnit(c, u)' - SpendsUnit(c, u)
  PROVE  /\ Covers(unit'[u].reserved, UnitShares(u)')
         /\ BaseCap[u] # Uncapped => unit'[u].spent = Total(UnitCosts(u)', NumCalls)
<1>1. /\ UnitShares(u) \in [1 .. NumCalls -> Nat] /\ UnitShares(u)' \in [1 .. NumCalls -> Nat]
      /\ UnitCosts(u) \in [1 .. NumCalls -> Nat] /\ UnitCosts(u)' \in [1 .. NumCalls -> Nat]
  <2>1. \A q \in Calls : /\ call[q].req.estimate \in Nat /\ call[q].actual \in Nat
                         /\ call'[q].req.estimate \in Nat /\ call'[q].actual \in Nat
    BY DEF ControlInv, Typed, CallState, ReqState
  <2>2. \A q \in Calls : HoldsUnit(q, u) \in Nat /\ HoldsUnit(q, u)' \in Nat
    BY <2>1 DEF HoldsUnit, Req
  <2>3. \A q \in Calls : SpendsUnit(q, u) \in Nat /\ SpendsUnit(q, u)' \in Nat
    BY <2>1 DEF SpendsUnit
  <2> QED BY <2>2, <2>3 DEF UnitShares, UnitCosts, Calls
<1>2. \A d \in Calls : d # c =>
        UnitShares(u)'[d] = UnitShares(u)[d] /\ UnitCosts(u)'[d] = UnitCosts(u)[d]
  <2>1. \A d \in Calls : d # c => call'[d] = call[d]
    BY DEF Control, LedgerStep, Moved
  <2> QED BY <2>1 DEF UnitShares, UnitCosts, HoldsUnit, SpendsUnit, Traced, Req
<1>3. /\ UnitShares(u)[c] = HoldsUnit(c, u) /\ UnitShares(u)'[c] = HoldsUnit(c, u)'
      /\ UnitCosts(u)[c] = SpendsUnit(c, u) /\ UnitCosts(u)'[c] = SpendsUnit(c, u)'
  BY DEF UnitShares, UnitCosts
<1>4. /\ unit[u].reserved \in Nat /\ unit'[u].reserved \in Nat
  BY DEF ControlInv, Typed, UnitState
<1>5. Covers(unit[u].reserved, UnitShares(u))
      /\ (BaseCap[u] # Uncapped => unit[u].spent = Total(UnitCosts(u), NumCalls))
  BY DEF UnitMoney
<1>6. Covers(unit'[u].reserved, UnitShares(u)')
  <2>1. PICK f, g, n, m : /\ f = UnitShares(u) /\ g = UnitShares(u)'
                          /\ n = unit[u].reserved /\ m = unit'[u].reserved
    OBVIOUS
  <2>2. /\ f \in [1 .. NumCalls -> Nat] /\ g \in [1 .. NumCalls -> Nat] /\ n \in Nat /\ m \in Int
        /\ \A d \in Calls : d # c => g[d] = f[d]
    BY <1>1, <1>2, <1>4, <2>1
  <2>3. Covers(n, f) /\ MovesWith(n, m, f[c], g[c])
    BY <1>3, <1>5, <2>1
  <2>4. Covers(m, g)
    BY <2>2, <2>3, CoversMoves
  <2> QED BY <2>1, <2>4
<1>7. Total(UnitCosts(u)', NumCalls)
        = Total(UnitCosts(u), NumCalls) + UnitCosts(u)'[c] - UnitCosts(u)[c]
  BY <1>1, <1>2, ShareMoves
<1> QED BY <1>3, <1>5, <1>6, <1>7

(* A task that moves on keeps its shares.                                  *)
LEMMA ControlKeepsMoney ==
  ASSUME ControlInv, ControlInv', RunMoney, UnitMoney, ParentsOpen(ledger), NEW c \in Calls,
         Control(c)
  PROVE  RunMoney' /\ UnitMoney'
<1>1. /\ UNCHANGED <<ledger, unit>> /\ Shape(call[c]) /\ Shape(call'[c])
      /\ Arrived(call[c], call'[c]) \/ MovedOn(call[c], call'[c])
      /\ Traced(c) <=> Allowed(call[c].trace)
      /\ Traced(c)' <=> Allowed(call'[c].trace)
      /\ call[c].req.estimate \in Nat /\ call'[c].req.estimate \in Nat
      /\ call[c].actual \in Nat
  BY DEF Control, shared, ControlInv, Shaped, Traced, Allowed, Typed, CallState, ReqState
<1>2. CASE Arrived(call[c], call'[c])
  <2>1. /\ ~call[c].held /\ ~call'[c].held /\ ~call[c].unitHeld /\ ~call'[c].unitHeld
        /\ ~Traced(c) /\ ~Traced(c)'
        /\ call[c].at # "settle_unit" /\ call'[c].at # "settle_unit"
    BY <1>1, <1>2 DEF Arrived, Shape, Holding, Charged, Left
  <2>2. ASSUME NEW r \in Runs
        PROVE  /\ Covers(ledger'[r].reserved, RunShares(r)')
               /\ ledger'[r].spent = Total(RunCosts(r)', NumCalls)
    <3>1. /\ Holds(c, r) = 0 /\ Holds(c, r)' = 0
          /\ SpendsRun(c, r) = 0 /\ SpendsRun(c, r)' = 0
      BY <2>1 DEF Holds, SpendsRun
    <3>2. ledger[r].reserved \in Nat /\ ledger[r].spent \in Nat
      BY DEF ControlInv, Typed, Ledgers, RunState
    <3>3. /\ MovesWith(ledger[r].reserved, ledger'[r].reserved, Holds(c, r), Holds(c, r)')
          /\ ledger'[r].spent = ledger[r].spent + SpendsRun(c, r)' - SpendsRun(c, r)
      BY <1>1, <3>1, <3>2 DEF MovesWith
    <3> QED BY <3>3, RunMoneyMoves
  <2>3. ASSUME NEW u \in Units
        PROVE  /\ Covers(unit'[u].reserved, UnitShares(u)')
               /\ BaseCap[u] # Uncapped => unit'[u].spent = Total(UnitCosts(u)', NumCalls)
    <3>1. /\ HoldsUnit(c, u) = 0 /\ HoldsUnit(c, u)' = 0
          /\ SpendsUnit(c, u) = 0 /\ SpendsUnit(c, u)' = 0
      BY <2>1 DEF HoldsUnit, SpendsUnit
    <3>2. unit[u].reserved \in Nat /\ unit[u].spent \in Nat
      BY DEF ControlInv, Typed, UnitState
    <3>3. /\ MovesWith(unit[u].reserved, unit'[u].reserved, HoldsUnit(c, u), HoldsUnit(c, u)')
          /\ unit'[u].spent = unit[u].spent + SpendsUnit(c, u)' - SpendsUnit(c, u)
      BY <1>1, <3>1, <3>2 DEF MovesWith
    <3> QED BY <3>3, UnitMoneyMoves
  <2> QED BY <2>2, <2>3 DEF RunMoney, UnitMoney
<1>3. CASE MovedOn(call[c], call'[c])
  <2>1. /\ call'[c].req = call[c].req /\ call'[c].held = call[c].held
        /\ call'[c].unitHeld = call[c].unitHeld /\ (Traced(c)' <=> Traced(c))
        /\ Traced(c) => call'[c].actual = call[c].actual
        /\ call[c].at # "settle_unit" /\ call'[c].at # "settle_unit" /\ call[c].at # "over"
    BY <1>1, <1>3 DEF MovedOn
  <2>2. ASSUME NEW r \in Runs
        PROVE  /\ Covers(ledger'[r].reserved, RunShares(r)')
               /\ ledger'[r].spent = Total(RunCosts(r)', NumCalls)
    <3>1. SpendsRun(c, r)' = SpendsRun(c, r)
      BY <1>1, <2>1 DEF SpendsRun, Run
    <3>2. Holds(c, r)' = Holds(c, r)
      BY <1>1, <2>1 DEF Holds, Run, Req
    <3>3. /\ ledger[r].reserved \in Nat /\ ledger[r].spent \in Nat
          /\ Holds(c, r) \in Nat /\ SpendsRun(c, r) \in Nat
      BY <1>1 DEF ControlInv, Typed, Ledgers, RunState, Holds, SpendsRun, Req
    <3>4. /\ MovesWith(ledger[r].reserved, ledger'[r].reserved, Holds(c, r), Holds(c, r)')
          /\ ledger'[r].spent = ledger[r].spent + SpendsRun(c, r)' - SpendsRun(c, r)
      BY <1>1, <3>1, <3>2, <3>3 DEF MovesWith
    <3> QED BY <3>4, RunMoneyMoves
  <2>3. ASSUME NEW u \in Units
        PROVE  /\ Covers(unit'[u].reserved, UnitShares(u)')
               /\ BaseCap[u] # Uncapped => unit'[u].spent = Total(UnitCosts(u)', NumCalls)
    <3>1. SpendsUnit(c, u)' = SpendsUnit(c, u)
      BY <1>1, <2>1 DEF SpendsUnit, Req
    <3>2. HoldsUnit(c, u)' = HoldsUnit(c, u)
      BY <1>1, <2>1 DEF HoldsUnit, Req
    <3>3. /\ unit[u].reserved \in Nat /\ unit[u].spent \in Nat
          /\ HoldsUnit(c, u) \in Nat /\ SpendsUnit(c, u) \in Nat
      BY <1>1 DEF ControlInv, Typed, UnitState, HoldsUnit, SpendsUnit, Req
    <3>4. /\ MovesWith(unit[u].reserved, unit'[u].reserved, HoldsUnit(c, u), HoldsUnit(c, u)')
          /\ unit'[u].spent = unit[u].spent + SpendsUnit(c, u)' - SpendsUnit(c, u)
      BY <1>1, <3>1, <3>2, <3>3 DEF MovesWith
    <3> QED BY <3>4, UnitMoneyMoves
  <2> QED BY <2>2, <2>3 DEF RunMoney, UnitMoney
<1> QED BY <1>1, <1>2, <1>3

(* The run account, over the steps that change a ledger.                   *)
LEMMA LedgerStepKeepsRunMoney ==
  ASSUME ControlInv, ControlInv', RunMoney, ParentsOpen(ledger), NEW c \in Calls, LedgerStep(c),
         NEW r \in Runs
  PROVE  /\ Covers(ledger'[r].reserved, RunShares(r)')
         /\ ledger'[r].spent = Total(RunCosts(r)', NumCalls)
<1> DEFINE k == call[c]
           m == call'[c]
           L == ledger
           M == ledger'
<1>1. /\ Shape(k) /\ Shape(m) /\ m.req = k.req /\ k.req.estimate \in Nat /\ k.actual \in Nat
      /\ Traced(c) <=> Allowed(k.trace)
      /\ Traced(c)' <=> m.at = "drop"
      /\ L[r].reserved \in Nat /\ L[r].spent \in Nat
  BY DEF LedgerStep, ControlInv, Shaped, Traced, Allowed, Typed, CallState, ReqState, Ledgers,
         RunState
<1>2. /\ k.req.run \in Runs /\ (k.at # "open" => k.req.run \in Open(L))
  BY LedgerStepEffect DEF Open
<1>3. k.at # "open" => Chain(M, k.req.run) = Chain(L, k.req.run)
  BY <1>2, ChainsKept
<1>4. SUFFICES ASSUME ~RunOpened(c, k, m) \/ r # k.req.run \/ L[r].open
               PROVE  /\ MovesWith(L[r].reserved, M[r].reserved, Holds(c, r), Holds(c, r)')
                      /\ M[r].spent = L[r].spent + SpendsRun(c, r)' - SpendsRun(c, r)
  <2>1. CASE ~RunOpened(c, k, m) \/ r # k.req.run \/ L[r].open
    BY <1>4, <2>1, RunMoneyMoves
  <2>2. CASE RunOpened(c, k, m) /\ r = k.req.run /\ ~L[r].open
    <3>1. M[r].reserved = 0 /\ M[r].spent = 0
      BY <2>2, LedgerStepEffect DEF Opens
    <3>2. r \notin Open(L) /\ \A q : r \notin Chain(L, q)
      BY <2>2, ChainIsOpen DEF Open
    <3>3. Holds(c, r)' = 0 /\ SpendsRun(c, r)' = 0
      BY <1>1, <2>2 DEF RunOpened, Holds, SpendsRun
    <3>4. ASSUME NEW d \in Calls PROVE RunShares(r)'[d] = 0 /\ RunCosts(r)'[d] = 0
      <4>1. d # c => Holds(d, r)' = Holds(d, r) /\ SpendsRun(d, r)' = SpendsRun(d, r)
        BY OthersKeep
      <4>2. Holds(d, r) = 0 /\ SpendsRun(d, r) = 0
        BY <3>2 DEF Holds, SpendsRun
      <4> QED BY <3>3, <4>1, <4>2 DEF RunShares, RunCosts
    <3>5. RunShares(r)' \in [1 .. NumCalls -> Nat] /\ RunCosts(r)' \in [1 .. NumCalls -> Nat]
      BY <3>4 DEF RunShares, RunCosts, Calls
    <3>6. Total(RunShares(r)', NumCalls) = 0 /\ Total(RunCosts(r)', NumCalls) = 0
      BY <3>4, <3>5, TotalZero, NumCallsAssumption DEF Calls
    <3> QED BY <3>1, <3>6 DEF Covers
  <2> QED BY <2>1, <2>2
<1>5. CASE RunOpened(c, k, m)
  <2>1. M[r].reserved = L[r].reserved /\ M[r].spent = L[r].spent
    <3>1. Opens(L, M, k.req.run, k.budget, k.req.parent)
      BY <1>5, LedgerStepEffect
    <3> QED BY <1>4, <1>5, <3>1 DEF Opens
  <2>2. ~k.held /\ ~Traced(c)
    BY <1>1, <1>5 DEF RunOpened, Shape, Holding, Left
  <2>3. /\ Holds(c, r) = 0 /\ Holds(c, r)' = 0
        /\ SpendsRun(c, r) = 0 /\ SpendsRun(c, r)' = 0
    BY <1>1, <1>5, <2>2 DEF RunOpened, Holds, SpendsRun
  <2> QED BY <1>1, <2>1, <2>3 DEF MovesWith
<1>6. CASE RunReserved(c, k, m)
  <2>1. /\ M[r].reserved = IF r \in Chain(L, k.req.run) THEN L[r].reserved + k.req.estimate
                                                       ELSE L[r].reserved
        /\ M[r].spent = L[r].spent
    BY <1>6, LedgerStepEffect DEF Reserves
  <2>2. ~k.held /\ ~Traced(c) /\ ~Traced(c)'
    BY <1>1, <1>6 DEF RunReserved, Shape, Holding, Left
  <2>3. /\ Holds(c, r) = 0 /\ SpendsRun(c, r) = 0 /\ SpendsRun(c, r)' = 0
        /\ Holds(c, r)' = IF r \in Chain(L, k.req.run) THEN k.req.estimate ELSE 0
    BY <1>1, <1>3, <1>6, <2>2 DEF RunReserved, Holds, SpendsRun, Run, Req
  <2> QED BY <1>1, <2>1, <2>3 DEF MovesWith
<1>7. ASSUME NEW a \in Nat, RunSettled(c, k, m, a)
      PROVE  /\ MovesWith(L[r].reserved, M[r].reserved, Holds(c, r), Holds(c, r)')
             /\ M[r].spent = L[r].spent + SpendsRun(c, r)' - SpendsRun(c, r)
  <2>1. /\ M[r].reserved = IF r \in Chain(L, k.req.run) THEN Monus(L[r].reserved, k.req.estimate)
                                                       ELSE L[r].reserved
        /\ M[r].spent = IF r \in Chain(L, k.req.run) THEN L[r].spent + a ELSE L[r].spent
    BY <1>7, LedgerStepEffect DEF Settles
  <2>2. ~Traced(c) /\ ~Traced(c)' /\ k.held /\ ~m.held /\ k.at \notin {"over", "settle_unit", "open"}
    BY <1>1, <1>7 DEF RunSettled, Shape
  <2>3. /\ Holds(c, r) = IF r \in Chain(L, k.req.run) THEN k.req.estimate ELSE 0
        /\ Holds(c, r)' = 0 /\ SpendsRun(c, r) = 0
    BY <2>2 DEF Holds, SpendsRun, Run, Req
  <2>4. SpendsRun(c, r)' = IF r \in Chain(L, k.req.run) THEN a ELSE 0
    BY <1>1, <1>3, <1>7, <2>2 DEF RunSettled, SpendsRun, Run
  <2>5. Holds(c, r) <= L[r].reserved
    <3>1. \A q \in Calls : Holds(q, r) \in Nat
      BY DEF Holds, Req, ControlInv, Typed, CallState, ReqState
    <3>2. RunShares(r) \in [1 .. NumCalls -> Nat] /\ RunShares(r)[c] = Holds(c, r)
      BY <3>1 DEF RunShares, Calls
    <3>3. Holds(c, r) <= Total(RunShares(r), NumCalls) /\ Total(RunShares(r), NumCalls) \in Nat
          /\ Holds(c, r) \in Nat
      BY <3>1, <3>2, ShareMoves
    <3>4. L[r].reserved = Total(RunShares(r), NumCalls)
      BY DEF RunMoney, Covers
    <3> QED BY <1>1, <3>3, <3>4
  <2> QED BY <1>1, <2>1, <2>3, <2>4, <2>5 DEF MovesWith, Monus
<1>8. CASE UnitReserved(c, k, m) \/ UnitRefused(c, k, m) \/ \E a \in Nat : UnitSettled(c, k, m, a)
  <2>1. M = L /\ ~k.held /\ ~m.held /\ ~Traced(c) /\ k.at # "open"
    BY <1>1, <1>8 DEF UnitReserved, UnitRefused, UnitSettled, Shape, Holding, Left
  <2>2. (k.at = "settle_unit" <=> Traced(c)') /\ m.at # "settle_unit"
        /\ (k.at = "settle_unit" => m.actual = k.actual)
    BY <1>1, <1>8 DEF UnitReserved, UnitRefused, UnitSettled
  <2>3. Holds(c, r) = 0 /\ Holds(c, r)' = 0 /\ SpendsRun(c, r)' = SpendsRun(c, r)
    BY <1>1, <2>1, <2>2 DEF Holds, SpendsRun, Run
  <2>4. SpendsRun(c, r) \in Nat
    BY <1>1 DEF SpendsRun
  <2> QED BY <1>1, <2>1, <2>3, <2>4 DEF MovesWith
<1> QED BY <1>5, <1>6, <1>7, <1>8 DEF LedgerStep

(* The unit account, over the same steps.                                  *)
LEMMA LedgerStepKeepsUnitMoney ==
  ASSUME ControlInv, ControlInv', UnitMoney, ParentsOpen(ledger), NEW c \in Calls, LedgerStep(c),
         NEW u \in Units
  PROVE  /\ Covers(unit'[u].reserved, UnitShares(u)')
         /\ BaseCap[u] # Uncapped => unit'[u].spent = Total(UnitCosts(u)', NumCalls)
<1> DEFINE k == call[c]
           m == call'[c]
<1>1. /\ Shape(k) /\ Shape(m) /\ m.req = k.req /\ k.req.estimate \in Nat /\ k.actual \in Nat
      /\ Traced(c) <=> Allowed(k.trace)
      /\ Traced(c)' <=> m.at = "drop"
      /\ unit \in [Units -> UnitState] /\ k.req.unit \in Units \cup {NoUnit}
      /\ unit[u].reserved \in Nat /\ unit[u].spent \in Nat
      /\ unit[u].window = ThisMonth \/ (unit[u].reserved = 0 /\ unit[u].spent = 0)
      /\ k.unitHeld => unit[k.req.unit].window = ThisMonth
  BY DEF LedgerStep, ControlInv, Shaped, Traced, Allowed, Typed, CallState, ReqState, UnitState,
         UnitsDated, Req
<1>2. SUFFICES /\ MovesWith(unit[u].reserved, unit'[u].reserved, HoldsUnit(c, u), HoldsUnit(c, u)')
               /\ BaseCap[u] # Uncapped =>
                    unit'[u].spent = unit[u].spent + SpendsUnit(c, u)' - SpendsUnit(c, u)
  BY UnitMoneyMoves
<1>3. SpendsUnit(c, u) = 0
  <2>1. ~Traced(c)
    BY <1>1 DEF LedgerStep, RunOpened, RunReserved, RunSettled, UnitReserved, UnitRefused,
                UnitSettled, Shape
  <2> QED BY <2>1 DEF SpendsUnit
<1>4. HoldsUnit(c, u) \in Nat /\ HoldsUnit(c, u) <= unit[u].reserved
  <2>1. \A q \in Calls : HoldsUnit(q, u) \in Nat
    BY DEF HoldsUnit, Req, ControlInv, Typed, CallState, ReqState
  <2>2. UnitShares(u) \in [1 .. NumCalls -> Nat] /\ UnitShares(u)[c] = HoldsUnit(c, u)
    BY <2>1 DEF UnitShares, Calls
  <2>3. HoldsUnit(c, u) <= Total(UnitShares(u), NumCalls) /\ Total(UnitShares(u), NumCalls) \in Nat
    BY <2>1, <2>2, ShareMoves
  <2>4. unit[u].reserved = Total(UnitShares(u), NumCalls)
    BY DEF UnitMoney, Covers
  <2> QED BY <1>1, <2>1, <2>3, <2>4
<1>5. ASSUME RunOpened(c, k, m) \/ RunReserved(c, k, m) \/ \E a \in Nat : RunSettled(c, k, m, a)
      PROVE  unit' = unit /\ HoldsUnit(c, u)' = HoldsUnit(c, u) /\ SpendsUnit(c, u)' = 0
  <2>1. CASE RunOpened(c, k, m)
    <3>1. ~m.unitHeld /\ unit' = unit /\ m.at # "drop" /\ k.at = "open"
      BY <2>1 DEF RunOpened
    <3>2. ~k.unitHeld
      BY <1>1, <3>1 DEF Shape, Holding, Charged, Left
    <3> QED BY <1>1, <3>1, <3>2 DEF HoldsUnit, SpendsUnit
  <2>2. CASE RunReserved(c, k, m)
    <3>1. m.unitHeld = k.unitHeld /\ unit' = unit /\ m.at # "drop" /\ m.at # "over" /\ k.at # "over"
      BY <2>2 DEF RunReserved
    <3> QED BY <1>1, <3>1 DEF HoldsUnit, SpendsUnit, Req
  <2>3. ASSUME NEW a \in Nat, RunSettled(c, k, m, a)
        PROVE  unit' = unit /\ HoldsUnit(c, u)' = HoldsUnit(c, u) /\ SpendsUnit(c, u)' = 0
    <3>1. m.unitHeld = k.unitHeld /\ unit' = unit /\ m.at # "drop" /\ m.at # "over" /\ k.at # "over"
      BY <2>3 DEF RunSettled
    <3> QED BY <1>1, <3>1 DEF HoldsUnit, SpendsUnit, Req
  <2> QED BY <1>5, <2>1, <2>2, <2>3
<1>6. CASE RunOpened(c, k, m) \/ RunReserved(c, k, m) \/ \E a \in Nat : RunSettled(c, k, m, a)
  BY <1>1, <1>3, <1>4, <1>5, <1>6 DEF MovesWith
<1>7. CASE UnitReserved(c, k, m) \/ UnitRefused(c, k, m)
  <2>1. ~k.unitHeld /\ k.req.unit \in Units /\ ~Traced(c)'
    BY <1>1, <1>7 DEF UnitReserved, UnitRefused, Shape, Charged, Holding, Left, CapsUnit
  <2>2. HoldsUnit(c, u) = 0 /\ SpendsUnit(c, u)' = 0
    BY <2>1 DEF HoldsUnit, SpendsUnit
  <2>3. CASE u # k.req.unit
    <3>1. unit'[u] = unit[u] /\ HoldsUnit(c, u)' = 0
      BY <1>1, <1>7, <2>1, <2>3 DEF UnitReserved, UnitRefused, HoldsUnit, Req
    <3> QED BY <1>1, <1>3, <2>2, <3>1 DEF MovesWith
  <2>4. CASE u = k.req.unit
    <3>1. PICK s \in UnitState : s = unit[u]
      BY <1>1
    <3>2. /\ UnitHold(s, ThisMonth, k.req.estimate) =
               [window |-> ThisMonth, reserved |-> s.reserved + k.req.estimate, spent |-> s.spent]
          /\ Rolled(s, ThisMonth) =
               [window |-> ThisMonth, reserved |-> s.reserved, spent |-> s.spent]
      BY <1>1, <3>1, EntryEffect
    <3>3. CASE UnitReserved(c, k, m)
      <4>1. unit'[u] = UnitHold(s, ThisMonth, k.req.estimate)
        BY <1>1, <2>1, <2>4, <3>1, <3>3 DEF UnitReserved
      <4>2. HoldsUnit(c, u)' = k.req.estimate
        BY <1>1, <2>4, <3>3 DEF UnitReserved, HoldsUnit, Req
      <4> QED BY <1>1, <1>3, <2>2, <3>1, <3>2, <4>1, <4>2 DEF MovesWith
    <3>4. CASE UnitRefused(c, k, m)
      <4>1. unit'[u] = Rolled(s, ThisMonth)
        BY <1>1, <2>1, <2>4, <3>1, <3>4 DEF UnitRefused
      <4>2. HoldsUnit(c, u)' = 0
        BY <3>4 DEF UnitRefused, HoldsUnit
      <4> QED BY <1>1, <1>3, <2>2, <3>1, <3>2, <4>1, <4>2 DEF MovesWith
    <3> QED BY <1>7, <3>3, <3>4
  <2> QED BY <2>3, <2>4
<1>8. ASSUME NEW a \in Nat, UnitSettled(c, k, m, a)
      PROVE  /\ MovesWith(unit[u].reserved, unit'[u].reserved, HoldsUnit(c, u), HoldsUnit(c, u)')
             /\ BaseCap[u] # Uncapped =>
                  unit'[u].spent = unit[u].spent + SpendsUnit(c, u)' - SpendsUnit(c, u)
  <2>1. /\ HoldsUnit(c, u)' = 0 /\ k.at # "over"
        /\ k.at \in Charged /\ (k.unitHeld <=> CapsUnit(k.req))
    BY <1>1, <1>8 DEF UnitSettled, HoldsUnit, Shape, Charged
  <2>2. SpendsUnit(c, u)' = IF u = k.req.unit THEN a ELSE 0
    BY <1>1, <1>8 DEF UnitSettled, SpendsUnit, Req
  <2>3. CASE u = k.req.unit /\ k.unitHeld
    <3>1. PICK s \in UnitState : s = unit[u] /\ s.window = ThisMonth
      BY <1>1, <2>3
    <3>2. UnitSettle(s, ThisMonth, ThisMonth, k.req.estimate, a) =
            [window |-> ThisMonth, reserved |-> UnitMonus(s.reserved, k.req.estimate),
             spent |-> s.spent + a]
      BY <1>1, <3>1, EntryEffect
    <3>3. unit'[u] = UnitSettle(s, ThisMonth, ThisMonth, k.req.estimate, a)
      BY <1>1, <1>8, <2>3, <3>1 DEF UnitSettled
    <3>4. HoldsUnit(c, u) = k.req.estimate
      BY <2>1, <2>3 DEF HoldsUnit, Req
    <3>5. unit'[u].reserved = unit[u].reserved - k.req.estimate /\ unit'[u].spent = unit[u].spent + a
      BY <1>1, <1>4, <3>1, <3>2, <3>3, <3>4 DEF UnitMonus
    <3> QED BY <1>1, <1>3, <2>1, <2>2, <2>3, <3>4, <3>5 DEF MovesWith
  <2>4. CASE u = k.req.unit /\ ~k.unitHeld
    <3>1. HoldsUnit(c, u) = 0 /\ unit' = unit /\ BaseCap[u] = Uncapped
      BY <1>8, <2>1, <2>4, NoUnitAssumption DEF HoldsUnit, UnitSettled, CapsUnit
    <3> QED BY <1>1, <2>1, <3>1 DEF MovesWith
  <2>5. CASE u # k.req.unit
    <3>1. HoldsUnit(c, u) = 0 /\ unit'[u] = unit[u]
      BY <1>1, <1>8, <2>5 DEF HoldsUnit, UnitSettled, Req
    <3> QED BY <1>1, <1>3, <2>1, <2>2, <2>5, <3>1 DEF MovesWith
  <2> QED BY <2>3, <2>4, <2>5
<1> QED BY <1>6, <1>7, <1>8 DEF LedgerStep

MoneyInv == ControlInv /\ RunMoney /\ UnitMoney

(* Nothing is reserved or spent at the start.                              *)
LEMMA MoneyInit == Init => MoneyInv
<1> SUFFICES ASSUME Init PROVE MoneyInv
  OBVIOUS
<1>1. ControlInv
  BY ControlInit
<1>2. \A c \in Calls : call[c] = IdleCall /\ ~Traced(c)
  BY DEF Init, IdleCall, Traced
<1>3. ASSUME NEW r \in Runs
      PROVE  Covers(ledger[r].reserved, RunShares(r)) /\ ledger[r].spent = Total(RunCosts(r), NumCalls)
  <2>1. \A c \in Calls : RunShares(r)[c] = 0 /\ RunCosts(r)[c] = 0
    BY <1>2 DEF RunShares, RunCosts, Holds, SpendsRun, IdleCall
  <2>2. RunShares(r) \in [1 .. NumCalls -> Nat] /\ RunCosts(r) \in [1 .. NumCalls -> Nat]
    BY <2>1 DEF RunShares, RunCosts, Calls
  <2>3. Total(RunShares(r), NumCalls) = 0 /\ Total(RunCosts(r), NumCalls) = 0
    BY <2>1, <2>2, TotalZero, NumCallsAssumption DEF Calls
  <2>4. ledger[r].reserved = 0 /\ ledger[r].spent = 0
    BY DEF Init, EmptyLedger, Closed
  <2> QED BY <2>3, <2>4 DEF Covers
<1>4. ASSUME NEW u \in Units
      PROVE  Covers(unit[u].reserved, UnitShares(u)) /\ unit[u].spent = Total(UnitCosts(u), NumCalls)
  <2>1. \A c \in Calls : UnitShares(u)[c] = 0 /\ UnitCosts(u)[c] = 0
    BY <1>2 DEF UnitShares, UnitCosts, HoldsUnit, SpendsUnit, IdleCall
  <2>2. UnitShares(u) \in [1 .. NumCalls -> Nat] /\ UnitCosts(u) \in [1 .. NumCalls -> Nat]
    BY <2>1 DEF UnitShares, UnitCosts, Calls
  <2>3. Total(UnitShares(u), NumCalls) = 0 /\ Total(UnitCosts(u), NumCalls) = 0
    BY <2>1, <2>2, TotalZero, NumCallsAssumption DEF Calls
  <2>4. unit[u].reserved = 0 /\ unit[u].spent = 0
    BY DEF Init, NoEntry
  <2> QED BY <2>3, <2>4 DEF Covers
<1> QED BY <1>1, <1>3, <1>4 DEF MoneyInv, RunMoney, UnitMoney

(* Every step keeps the money invariant while declared parents are open.   *)
LEMMA MoneyNext == MoneyInv /\ ParentsOpen(ledger) /\ [Next]_vars => MoneyInv'
<1> SUFFICES ASSUME MoneyInv, ParentsOpen(ledger), [Next]_vars PROVE MoneyInv'
  OBVIOUS
<1>1. ControlInv /\ ControlInv' /\ RunMoney /\ UnitMoney
  BY ControlNext DEF MoneyInv
<1>2. CASE Operator
  <2>1. UNCHANGED <<ledger, unit, call>>
    BY <1>2 DEF Operator
  <2>2. /\ \A r \in Runs : RunShares(r)' = RunShares(r) /\ RunCosts(r)' = RunCosts(r)
        /\ \A u \in Units : UnitShares(u)' = UnitShares(u) /\ UnitCosts(u)' = UnitCosts(u)
    BY <2>1 DEF RunShares, RunCosts, UnitShares, UnitCosts, Holds, HoldsUnit, SpendsRun,
                SpendsUnit, Traced, Run, Req
  <2>3. RunMoney' /\ UnitMoney'
    BY <1>1, <2>1, <2>2 DEF RunMoney, UnitMoney
  <2> QED BY <1>1, <2>3 DEF MoneyInv
<1>3. ASSUME NEW c \in Calls, Control(c) PROVE MoneyInv'
  BY <1>1, <1>3, ControlKeepsMoney DEF MoneyInv
<1>4. ASSUME NEW c \in Calls, LedgerStep(c) PROVE MoneyInv'
  <2>1. RunMoney'
    BY <1>1, <1>4, LedgerStepKeepsRunMoney DEF RunMoney
  <2>2. UnitMoney'
    BY <1>1, <1>4, LedgerStepKeepsUnitMoney DEF UnitMoney
  <2> QED BY <1>1, <2>1, <2>2 DEF MoneyInv
<1> QED BY <1>1, <1>2, <1>3, <1>4, StepKinds

(* Declared parents have entries: a run is opened before the runs that     *)
(* name it as their parent.  A late parent changes chains under calls in   *)
(* flight, which MCLedgerLate shows.                                       *)
ParentsFirst == []ParentsOpen(ledger)

(* Part two is an invariant, if parents are declared first.                *)
LEMMA MoneyAlways == Spec /\ ParentsFirst => []MoneyInv
BY MoneyInit, MoneyNext, PTL DEF Spec, ParentsFirst

(* On every way out of the handler, and with clients leaving at any await, *)
(* no headroom is handed out twice or freed for another: each level of a   *)
(* run tree and each unit have reserved exactly the estimates of the       *)
(* requests that hold a reservation, and one that is over and still does   *)
(* is one that no record answers.                                          *)
THEOREM HeadroomExact == Spec /\ ParentsFirst => []HeadroomAccounted
<1>1. MoneyInv => HeadroomAccounted
  <2> SUFFICES ASSUME MoneyInv PROVE HeadroomAccounted
    OBVIOUS
  <2>1. \A c \in Calls : Stranded(c) => call[c].trace = << >>
    BY DEF MoneyInv, ControlInv, Shaped, Shape, Stranded
  <2>2. /\ \A r \in Runs : ledger[r].reserved = Total([c \in Calls |-> Holds(c, r)], NumCalls)
        /\ \A u \in Units : unit[u].reserved = Total([c \in Calls |-> HoldsUnit(c, u)], NumCalls)
    BY DEF MoneyInv, RunMoney, UnitMoney, Covers, RunShares, UnitShares
  <2> QED BY <2>1, <2>2 DEF HeadroomAccounted
<1> QED BY <1>1, MoneyAlways, PTL

(* As long as clients leave only while their answer streams, no request is *)
(* over that still holds a reservation: the guard settles in its place.    *)
THEOREM NothingIsStranded == Disconnects = "midstream" => (Spec => []NothingStranded)
<1> SUFFICES ASSUME Disconnects = "midstream"
             PROVE  Spec => []NothingStranded
  OBVIOUS
<1>1. ControlInv => NothingStranded
  BY DEF ControlInv, Shaped, Shape, Holding, Charged, Left, NothingStranded, Stranded, At
<1> QED BY <1>1, ControlAlways, PTL

(* Whenever no request is in flight the three accounts agree: at every     *)
(* level of a run tree and for every capped unit, what the ledgers say was *)
(* spent is the cost on the trace's "allow" records.                       *)
THEOREM AccountsReconcile == Spec /\ ParentsFirst => []SpendReconciles
<1>1. MoneyInv => SpendReconciles
  <2> SUFFICES ASSUME MoneyInv, Quiet
      PROVE  /\ \A r \in Runs : ledger[r].spent =
                  Total([c \in Calls |-> IF Traced(c) /\ r \in Chain(ledger, Run(c))
                                         THEN call[c].cost ELSE 0], NumCalls)
             /\ \A u \in Units : BaseCap[u] # Uncapped => unit[u].spent =
                  Total([c \in Calls |-> IF Traced(c) /\ Req(c).unit = u
                                         THEN call[c].cost ELSE 0], NumCalls)
    BY DEF SpendReconciles
  <2>1. \A c \in Calls : call[c].at # "settle_unit" /\ (Traced(c) => call[c].cost = call[c].actual)
    BY DEF MoneyInv, ControlInv, Shaped, Shape, Traced, Allowed, Quiet
  <2>2. ASSUME NEW r \in Runs
        PROVE  RunCosts(r) = [c \in Calls |-> IF Traced(c) /\ r \in Chain(ledger, Run(c))
                                              THEN call[c].cost ELSE 0]
    BY <2>1 DEF RunCosts, SpendsRun
  <2>3. ASSUME NEW u \in Units
        PROVE  UnitCosts(u) = [c \in Calls |-> IF Traced(c) /\ Req(c).unit = u
                                               THEN call[c].cost ELSE 0]
    BY <2>1 DEF UnitCosts, SpendsUnit
  <2>4. \A r \in Runs : ledger[r].spent = Total(RunCosts(r), NumCalls)
    BY DEF MoneyInv, RunMoney
  <2>5. \A u \in Units : BaseCap[u] # Uncapped => unit[u].spent = Total(UnitCosts(u), NumCalls)
    BY DEF MoneyInv, UnitMoney
  <2> QED BY <2>2, <2>3, <2>4, <2>5
<1> QED BY <1>1, MoneyAlways, PTL
=============================================================================
