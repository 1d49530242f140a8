------------------------- MODULE RaftLedger_proofs -------------------------
(***************************************************************************)
(* Proofs about RaftLedger, for every set of nodes and runs, any number of *)
(* calls and any requests and costs.                                       *)
(***************************************************************************)
EXTENDS RaftLedger

TaskState ==
  [at : {"idle", "open", "opened", "reserve", "serve", "over"},
   req : Requests \cup {NoRequest}, by : {"none", "cluster", "refused", "error"}, ack : Nat]

ReadState == [busy : BOOLEAN, mark : Nat, seen : Nat]

(* A request on the wire is one that a gateway submits.                    *)
Submitted(m) ==
  \E c \in Calls, q \in Requests :
    m = OpenReq(c, q) \/ m = ReserveReq(c, q) \/ \E a \in Costs : m = SettleReq(c, q, a)

(* Part one: types, and how far tasks and reads can have seen the log.     *)
TypeInv ==
  /\ last \in Nat
  /\ machine \in Ledgers
  /\ applied \in [Nodes -> Nat] /\ \A n \in Nodes : applied[n] <= last
  /\ leader \in Nodes \cup {NoNode}
  /\ \A m \in wire : Submitted(m)
  /\ call \in [Calls -> TaskState]
  /\ \A c \in Calls : call[c].at # "idle" => call[c].req \in Requests
  /\ \A c \in Calls : call[c].ack <= last
  /\ read \in [Nodes -> ReadState]
  /\ \A n \in Nodes : read[n].seen <= last /\ (~read[n].busy => read[n].seen >= read[n].mark)
  /\ booked \in [Calls -> Abstract!CallState]
  /\ peak \in [Runs -> Nat] /\ overrun \in [Runs -> Nat]

(* Part two, in the enforce mode: where a task stands, what the state      *)
(* machine has seen of its call, and what of it is on the wire.            *)
Tracks(k, b) ==
  /\ k.at \in {"idle", "open", "opened", "reserve"} => b.phase = "idle" /\ k.by = "none"
  /\ k.at = "serve" => k.by \in {"cluster", "error"} /\ b.phase # "settled"
  /\ k.by = "cluster" => b.phase \in {"held", "settled"}
  /\ b.phase = "held" =>
       b.run = k.req.run /\ b.amount = k.req.estimate /\ machine[k.req.run].open

OnWire(m, k, b) ==
  /\ k.at # "idle"
  /\ m.op = "open" => m = OpenReq(m.call, k.req)
  /\ m.op = "reserve" =>
       m = ReserveReq(m.call, k.req) /\ k.at \in {"reserve", "serve", "over"} /\ b.phase = "idle"
  /\ m.op = "settle" =>
       /\ \E a \in Costs : m = SettleReq(m.call, k.req, a)
       /\ k.at = "over" /\ k.by \in {"cluster", "error"} /\ b.phase # "settled"

Control ==
  /\ \A c \in Calls : Tracks(call[c], booked[c])
  /\ \A m \in wire : OnWire(m, call[m.call], booked[m.call])
  /\ \A m, n \in wire : m.op = "settle" /\ n.op = "settle" /\ m.call = n.call => m = n

Answered == ~Faults => \A c \in Calls : call[c].by # "error"

(* Part three: what a call's settle may release, or has released, without  *)
(* a reservation of its own.                                               *)
Settling(c) == \E m \in wire : m.op = "settle" /\ m.call = c

Lapsed(c, r) ==
  IF /\ Charges(c, r) /\ call[c].by = "error"
     /\ \/ call[c].at = "serve" /\ booked[c].phase # "held"
        \/ call[c].at = "over" /\ booked[c].phase # "settled" /\ ~Settling(c)
  THEN Micros(call[c].req.estimate) ELSE 0

Flights(r) == [c \in Calls |-> InFlight(c, r)]
Lapses(r) == [c \in Calls |-> Lapsed(c, r)]

(* A run's reservations cover its calls in flight, but for what lapsed;    *)
(* so does its budget, together with what it has spent.                    *)
Covered(r) == Total(Flights(r), NumCalls) <= machine[r].reserved + Total(Lapses(r), NumCalls)

Exposed(r) ==
  machine[r].spent + Total(Flights(r), NumCalls)
    <= peak[r] + overrun[r] + Total(Lapses(r), NumCalls)

Bounds(r) == /\ Covered(r) /\ Exposed(r)
             /\ machine[r].budget <= peak[r]
             /\ ~machine[r].open => machine[r].reserved = 0

Exposure == \A r \in Runs : Bounds(r)
-----------------------------------------------------------------------------
(* A submitted request carries its call, the call's run and amounts that   *)
(* the clamp leaves as they are.                                           *)
LEMMA SubmittedFields ==
  ASSUME NEW m, Submitted(m)
  PROVE  /\ m.op \in {"open", "reserve", "settle"} /\ m.call \in Calls /\ m.run \in Runs
         /\ m.op = "open" => m.budget \in Nat /\ m.parent \in Runs \cup {NoRun}
         /\ m.op = "reserve" => m.micros \in Nat
         /\ m.op = "settle" => m.micros \in Nat /\ m.actual \in Nat
<1>1. PICK c \in Calls, q \in Requests :
        m = OpenReq(c, q) \/ m = ReserveReq(c, q) \/ \E a \in Costs : m = SettleReq(c, q, a)
  BY DEF Submitted
<1>2. /\ q.run \in Runs /\ q.parent \in Runs \cup {NoRun}
      /\ Micros(q.budget) \in Nat /\ Micros(q.estimate) \in Nat
      /\ \A a \in Costs : Micros(a) \in Nat
  BY RequestsAssumption, CostsAssumption DEF Micros
<1> QED BY <1>1, <1>2 DEF OpenReq, ReserveReq, SettleReq

(* Estimates and costs are not negative: the clamp changes budgets only.   *)
LEMMA MicrosOfNat ==
  ASSUME NEW a \in Nat
  PROVE  Micros(a) = a
BY DEF Micros

(* What a task becomes when it is answered, or gets an error instead.      *)
LEMMA ToldFields ==
  ASSUME NEW k \in TaskState, NEW ok, last \in Nat
  PROVE  LET t == Told(k, ok)
         IN  /\ t \in TaskState /\ t.req = k.req /\ t.ack <= last + 1
             /\ k.at = "open" => t.at = "opened" /\ t.by = k.by
             /\ k.at # "open" /\ ok => t.at = "serve" /\ t.by = "cluster"
             /\ k.at # "open" /\ ~ok => /\ t.at = IF Mode = "shadow" THEN "serve" ELSE "over"
                                        /\ t.by = "refused"
BY DEF Told, TaskState, Index

(* The same for an error.                                                  *)
LEMMA FailedFields ==
  ASSUME NEW k \in TaskState
  PROVE  LET t == Failed(k)
         IN  /\ t \in TaskState /\ t.req = k.req /\ t.ack = k.ack
             /\ k.at = "open" => t.at = "opened" /\ t.by = k.by
             /\ k.at # "open" => t.at = "serve" /\ t.by = "error"
<1>1. PICK s : s = [k EXCEPT !.at = IF k.at = "open" THEN "opened" ELSE "serve"]
  OBVIOUS
<1>2. /\ s \in TaskState /\ s.req = k.req /\ s.ack = k.ack /\ s.by = k.by
      /\ s.at = IF k.at = "open" THEN "opened" ELSE "serve"
  BY <1>1 DEF TaskState
<1>3. PICK t : t = [s EXCEPT !.by = IF k.at = "open" THEN k.by ELSE "error"]
  OBVIOUS
<1>4. /\ t \in TaskState /\ t.req = s.req /\ t.ack = s.ack /\ t.at = s.at
      /\ t.by = IF k.at = "open" THEN k.by ELSE "error"
  BY <1>2, <1>3 DEF TaskState
<1>5. t = Failed(k)
  BY <1>1, <1>3 DEF Failed
<1> QED BY <1>2, <1>4, <1>5

-----------------------------------------------------------------------------
(* What an entry of the log does to the state machine.                     *)
LEMMA ApplyEffect ==
  ASSUME NEW m, Submitted(m), machine \in Ledgers
  PROVE  /\ Apply(machine, m) \in Ledgers
         /\ m.op = "open" =>
              Opens(machine, Apply(machine, m), m.run, m.budget, m.parent)
         /\ m.op = "reserve" /\ Accepted(machine, m) =>
              Reserves(machine, Apply(machine, m), m.run, m.micros)
         /\ m.op = "reserve" /\ ~Accepted(machine, m) => Apply(machine, m) = machine
         /\ m.op = "settle" =>
              Settles(machine, Apply(machine, m), m.run, m.micros, m.actual)
<1>1. CASE m.op = "open"
  <2>1. Apply(machine, m) = OpenRun(machine, m.run, m.budget, m.parent)
    BY <1>1 DEF Apply
  <2>2. Opens(machine, Apply(machine, m), m.run, m.budget, m.parent)
    BY <1>1, <2>1, SubmittedFields, OpenRunEffect
  <2> QED BY <1>1, <2>2 DEF Opens
<1>2. CASE m.op = "reserve"
  <2>1. Apply(machine, m) = IF Accepted(machine, m) THEN Reserve(machine, m.run, m.micros)
                            ELSE machine
    BY <1>2 DEF Apply
  <2>2. Reserves(machine, Reserve(machine, m.run, m.micros), m.run, m.micros)
    BY <1>2, SubmittedFields, ReserveEffect
  <2> QED BY <1>2, <2>1, <2>2 DEF Reserves
<1>3. CASE m.op = "settle"
  <2>1. Apply(machine, m) = Settle(machine, m.run, m.micros, m.actual)
    BY <1>3 DEF Apply
  <2>2. Settles(machine, Apply(machine, m), m.run, m.micros, m.actual)
    BY <1>3, <2>1, SubmittedFields, SettleEffect
  <2> QED BY <1>3, <2>2 DEF Settles
<1> QED BY <1>1, <1>2, <1>3, SubmittedFields

(* What the record of a settled call keeps of the reservation.             *)
LEMMA SettledFields ==
  ASSUME NEW b \in Abstract!CallState, NEW actual \in Nat
  PROVE  LET z == Abstract!SettledCall(b, actual)
         IN  z \in Abstract!CallState /\ z.phase = "settled"
<1>1. PICK t : t = [b EXCEPT !.phase = "settled"]
  OBVIOUS
<1>2. t \in Abstract!CallState /\ t.phase = "settled"
  BY <1>1 DEF Abstract!CallState, Abstract!Phases
<1>3. PICK z : z = [t EXCEPT !.actual = actual]
  OBVIOUS
<1>4. z \in Abstract!CallState /\ z.phase = "settled"
  BY <1>2, <1>3 DEF Abstract!CallState
<1>5. z = Abstract!SettledCall(b, actual)
  BY <1>1, <1>3 DEF Abstract!SettledCall
<1> QED BY <1>4, <1>5

(* What an entry of the log does to the record of its call.                *)
LEMMA BookedEffect ==
  ASSUME NEW m, Submitted(m), machine \in Ledgers, booked \in [Calls -> Abstract!CallState]
  PROVE  /\ BookedAfter(m) \in [Calls -> Abstract!CallState]
         /\ \A d \in Calls : d # m.call => BookedAfter(m)[d] = booked[d]
         /\ m.op = "open" => BookedAfter(m) = booked
         /\ m.op = "reserve" /\ Accepted(machine, m) =>
              BookedAfter(m)[m.call] =
                Abstract!HeldCall(m.run, m.micros, machine[m.run].steps + 1, Chain(machine, m.run))
         /\ m.op = "reserve" /\ ~Accepted(machine, m) =>
              BookedAfter(m)[m.call].phase = "refused"
         /\ m.op = "settle" => 
              BookedAfter(m)[m.call].phase =
                IF booked[m.call].phase = "held" THEN "settled" ELSE booked[m.call].phase
<1>1. m.call \in Calls /\ m.run \in Runs
  BY SubmittedFields
<1>2. CASE m.op = "open"
  BY <1>1, <1>2 DEF BookedAfter
<1>3. CASE m.op = "reserve" /\ Accepted(machine, m)
  <2>1. PICK b : b = Abstract!HeldCall(m.run, m.micros, machine[m.run].steps + 1,
                                       Chain(machine, m.run))
    OBVIOUS
  <2>2. BookedAfter(m) = [booked EXCEPT ![m.call] = b]
    BY <1>3, <2>1 DEF BookedAfter
  <2>3. Chain(machine, m.run) \subseteq Runs /\ machine[m.run].steps \in Nat /\ m.micros \in Nat
    BY <1>1, <1>3, ChainIsOpen, SubmittedFields DEF Ledgers, RunState
  <2>4. b \in Abstract!CallState
    BY <1>1, <2>1, <2>3 DEF Abstract!HeldCall, Abstract!CallState, Abstract!Phases
  <2> QED BY <1>1, <1>3, <2>1, <2>2, <2>4
<1>4. CASE m.op = "reserve" /\ ~Accepted(machine, m)
  <2>1. PICK x : x = IF machine[m.run].open THEN BlockedAt(machine, m.run, m.micros) ELSE NoRun
    OBVIOUS
  <2>2. x \in Runs \cup {NoRun}
    <3>1. CASE machine[m.run].open
      <4>1. ExceededLevels(machine, m.run, m.micros) # {}
        BY <1>4, <3>1 DEF Accepted, CanReserve
      <4>2. BlockedAt(machine, m.run, m.micros) \in Chain(machine, m.run)
        BY <4>1, BlockedAtIsExceeded DEF ExceededLevels
      <4> QED BY <2>1, <3>1, <4>2, ChainIsOpen
    <3>2. CASE ~machine[m.run].open
      BY <2>1, <3>2
    <3> QED BY <3>1, <3>2
  <2>3. PICK b : b = Abstract!RefusedCall(m.run, m.micros, x)
    OBVIOUS
  <2>4. BookedAfter(m) = [booked EXCEPT ![m.call] = b]
    BY <1>4, <2>1, <2>3 DEF BookedAfter
  <2>5. b \in Abstract!CallState /\ b.phase = "refused"
    BY <1>1, <1>4, <2>2, <2>3, SubmittedFields
    DEF Abstract!RefusedCall, Abstract!CallState, Abstract!Phases
  <2> QED BY <1>1, <1>4, <2>4, <2>5
<1>5. CASE m.op = "settle"
  <2>1. PICK b : b = IF booked[m.call].phase = "held"
                     THEN Abstract!SettledCall(booked[m.call], m.actual) ELSE booked[m.call]
    OBVIOUS
  <2>2. BookedAfter(m) = [booked EXCEPT ![m.call] = b]
    BY <1>5, <2>1 DEF BookedAfter
  <2>3. b \in Abstract!CallState
    BY <1>1, <1>5, <2>1, SubmittedFields, SettledFields
  <2>4. b.phase = IF booked[m.call].phase = "held" THEN "settled" ELSE booked[m.call].phase
    BY <1>1, <1>5, <2>1, SubmittedFields, SettledFields
  <2> QED BY <1>1, <1>5, <2>2, <2>3, <2>4
<1> QED BY <1>2, <1>3, <1>4, <1>5, SubmittedFields

-----------------------------------------------------------------------------
(* The types of what committing an entry writes.                           *)
EnteredTypes ==
  /\ last' = last + 1 /\ last' \in Nat /\ last <= last'
  /\ machine' \in Ledgers
  /\ booked' \in [Calls -> Abstract!CallState]
  /\ peak' \in [Runs -> Nat] /\ overrun' \in [Runs -> Nat]
  /\ \A n \in wire' : Submitted(n)
  /\ UNCHANGED cluster

(* Committing an entry keeps the types of what it writes.                  *)
LEMMA EnterTypes ==
  ASSUME TypeInv, NEW m, Enter(m)
  PROVE  EnteredTypes
<1>1. Submitted(m) /\ machine \in Ledgers /\ booked \in [Calls -> Abstract!CallState]
      /\ peak \in [Runs -> Nat] /\ overrun \in [Runs -> Nat]
  BY DEF TypeInv, Enter
<1>2. machine' \in Ledgers
  BY <1>1, ApplyEffect DEF Enter
<1>3. booked' \in [Calls -> Abstract!CallState]
  BY <1>1, BookedEffect DEF Enter, Record
<1>4. peak' \in [Runs -> Nat]
  <2>1. CASE m.op = "open"
    BY <1>1, <2>1, SubmittedFields DEF Enter, Record, Abstract!Raise
  <2>2. CASE m.op # "open"
    BY <1>1, <2>2 DEF Enter, Record
  <2> QED BY <2>1, <2>2
<1>5. overrun' \in [Runs -> Nat]
  <2>1. CASE m.op = "settle"
    <3>1. Monus(m.actual, m.micros) \in Nat
      BY <1>1, <2>1, SubmittedFields DEF Monus
    <3>2. overrun' = Abstract!AddAt(overrun, Chain(machine, m.run), Monus(m.actual, m.micros))
      BY <2>1 DEF Enter, Record
    <3> QED BY <1>1, <3>1, <3>2 DEF Abstract!AddAt
  <2>2. CASE m.op # "settle"
    BY <1>1, <2>2 DEF Enter, Record
  <2> QED BY <2>1, <2>2
<1>6. \A n \in wire' : Submitted(n)
  BY DEF TypeInv, Enter
<1>7. last' = last + 1 /\ last' \in Nat /\ last <= last' /\ UNCHANGED cluster
  BY DEF Enter, cluster, TypeInv
<1> QED BY <1>2, <1>3, <1>4, <1>5, <1>6, <1>7 DEF EnteredTypes

(* The initial state satisfies part one.                                   *)
LEMMA TypeInit == Init => TypeInv
<1> SUFFICES ASSUME Init PROVE TypeInv
  OBVIOUS
<1>1. machine \in Ledgers
  BY DEF Init, EmptyLedger, Closed, Ledgers, RunState
<1>2. booked \in [Calls -> Abstract!CallState]
  BY DEF Init, Abstract!IdleCall, Abstract!CallState, Abstract!Phases
<1>3. call \in [Calls -> TaskState] /\ \A c \in Calls : call[c].at = "idle" /\ call[c].ack = 0
  BY DEF Init, IdleCall, TaskState
<1>4. /\ read \in [Nodes -> ReadState]
      /\ \A n \in Nodes : read[n].seen = 0 /\ read[n].mark = 0
  BY DEF Init, IdleRead, ReadState
<1> QED BY <1>1, <1>2, <1>3, <1>4 DEF Init, TypeInv

(* A step of one task, with what it says to the cluster, keeps part one.   *)
LEMMA TaskKeepsTypes ==
  ASSUME TypeInv, NEW c \in Calls, NEW k \in TaskState, call' = [call EXCEPT ![c] = k],
         k.at # "idle" => k.req \in Requests, last' \in Nat, last <= last', k.ack <= last',
         machine' \in Ledgers, booked' \in [Calls -> Abstract!CallState],
         peak' \in [Runs -> Nat], overrun' \in [Runs -> Nat],
         \A m \in wire' : Submitted(m), UNCHANGED cluster
  PROVE  TypeInv'
<1>1. /\ call' \in [Calls -> TaskState]
      /\ \A d \in Calls : call'[d] = IF d = c THEN k ELSE call[d]
  BY DEF TypeInv
<1>2. /\ \A d \in Calls : call'[d].at # "idle" => call'[d].req \in Requests
      /\ \A d \in Calls : call'[d].ack <= last'
  BY <1>1 DEF TypeInv, TaskState
<1>3. applied' = applied /\ leader' = leader /\ read' = read
  BY DEF cluster
<1>4. \A n \in Nodes : applied[n] <= last' /\ read[n].seen <= last'
  BY DEF TypeInv, ReadState
<1> QED BY <1>1, <1>2, <1>3, <1>4 DEF TypeInv

(* So does a step that leaves the log alone.                               *)
LEMMA QuietKeepsTypes ==
  ASSUME TypeInv, NEW c \in Calls, NEW k \in TaskState, call' = [call EXCEPT ![c] = k],
         k.at # "idle" => k.req \in Requests, k.ack <= last,
         UNCHANGED <<cluster, last, machine, booked, peak, overrun>>,
         \A m \in wire' : Submitted(m)
  PROVE  TypeInv'
<1>1. /\ last' \in Nat /\ last <= last' /\ k.ack <= last' /\ machine' \in Ledgers
      /\ booked' \in [Calls -> Abstract!CallState]
      /\ peak' \in [Runs -> Nat] /\ overrun' \in [Runs -> Nat]
  BY DEF TypeInv
<1>2. UNCHANGED cluster
  OBVIOUS
<1> QED BY <1>1, <1>2, TaskKeepsTypes

(* Every step preserves part one.                                          *)
LEMMA TypeNext == TypeInv /\ [Next]_vars => TypeInv'
<1> SUFFICES ASSUME TypeInv, [Next]_vars PROVE TypeInv'
  OBVIOUS
<1>0. /\ \A c \in Calls : /\ call[c] \in TaskState /\ call[c].ack \in Nat /\ call[c].ack <= last
                          /\ call[c].at # "idle" => call[c].req \in Requests
      /\ last \in Nat /\ call \in [Calls -> TaskState] /\ \A m \in wire : Submitted(m)
  BY DEF TypeInv, TaskState
<1>1. ASSUME NEW n \in Nodes \cup {NoNode}, Elect(n) PROVE TypeInv'
  BY <1>1 DEF TypeInv, Elect
<1>2. ASSUME NEW n \in Nodes, CatchUp(n) PROVE TypeInv'
  <2>1. applied' \in [Nodes -> Nat] /\ \A x \in Nodes : applied'[x] <= last
    BY <1>2 DEF CatchUp, TypeInv
  <2> QED BY <1>2, <2>1 DEF CatchUp, TypeInv
<1>3. ASSUME NEW n \in Nodes, BeginRead(n) PROVE TypeInv'
  <2>1. /\ read' \in [Nodes -> ReadState]
        /\ \A x \in Nodes : read'[x].seen <= last
        /\ \A x \in Nodes : ~read'[x].busy => read'[x].seen >= read'[x].mark
    BY <1>3 DEF BeginRead, TypeInv, ReadState
  <2> QED BY <1>3, <2>1 DEF BeginRead, TypeInv
<1>4. ASSUME NEW n \in Nodes, EndRead(n) PROVE TypeInv'
  <2>1. leader \in Nodes /\ applied[leader] \in Nat /\ applied[leader] <= last
    BY <1>4 DEF EndRead, TypeInv
  <2>2. PICK s : s = [read[n] EXCEPT !.busy = FALSE]
    OBVIOUS
  <2>3. s \in ReadState /\ s.mark = read[n].mark /\ ~s.busy
    BY <2>2 DEF TypeInv, ReadState
  <2>4. PICK t : t = [s EXCEPT !.seen = applied[leader]]
    OBVIOUS
  <2>5. t \in ReadState /\ t.mark = read[n].mark /\ ~t.busy /\ t.seen = applied[leader]
    BY <2>1, <2>3, <2>4 DEF ReadState
  <2>6. read' = [read EXCEPT ![n] = t]
    BY <1>4, <2>2, <2>4 DEF EndRead
  <2>7. /\ read' \in [Nodes -> ReadState]
        /\ \A x \in Nodes : read'[x].seen <= last
        /\ \A x \in Nodes : ~read'[x].busy => read'[x].seen >= read'[x].mark
    BY <1>4, <2>1, <2>5, <2>6 DEF TypeInv, EndRead
  <2> QED BY <1>4, <2>7 DEF EndRead, TypeInv
<1>5. ASSUME NEW c \in Calls, NEW q \in Requests, Begin(c, q) PROVE TypeInv'
  <2>1. PICK k : k = [IdleCall EXCEPT !.at = "open", !.req = q]
    OBVIOUS
  <2>2. k \in TaskState /\ k.req = q /\ k.ack = 0
    BY <2>1 DEF IdleCall, TaskState
  <2>3. \A m \in wire' : Submitted(m)
    BY <1>0, <1>5 DEF Begin, Submitted
  <2>4. /\ call' = [call EXCEPT ![c] = k] /\ k.ack <= last
        /\ UNCHANGED <<cluster, last, machine, booked, peak, overrun>>
    BY <1>0, <1>5, <2>1, <2>2 DEF Begin
  <2> QED BY <2>2, <2>3, <2>4, QuietKeepsTypes
<1>6. ASSUME NEW c \in Calls, Submit(c) PROVE TypeInv'
  <2>1. PICK k : k = [call[c] EXCEPT !.at = "reserve"]
    OBVIOUS
  <2>2. k \in TaskState /\ k.req = call[c].req /\ k.ack = call[c].ack
    BY <1>0, <2>1 DEF TaskState
  <2>3. call' = [call EXCEPT ![c] = k] /\ call[c].req \in Requests
    BY <1>0, <1>6, <2>1 DEF Submit
  <2>4. \A m \in wire' : Submitted(m)
    BY <1>0, <1>6, <2>3 DEF Submit, Submitted
  <2>5. k.ack <= last /\ UNCHANGED <<cluster, last, machine, booked, peak, overrun>>
    BY <1>0, <1>6, <2>2 DEF Submit
  <2> QED BY <2>2, <2>3, <2>4, <2>5, QuietKeepsTypes
<1>7. ASSUME NEW c \in Calls, NEW a \in Costs, SpawnSettle(c, a) PROVE TypeInv'
  <2>1. PICK k : k = [call[c] EXCEPT !.at = "over"]
    OBVIOUS
  <2>2. k \in TaskState /\ k.req = call[c].req /\ k.ack = call[c].ack
    BY <1>0, <2>1 DEF TaskState
  <2>3. call' = [call EXCEPT ![c] = k] /\ call[c].req \in Requests
    BY <1>0, <1>7, <2>1 DEF SpawnSettle
  <2>4. \A m \in wire' : Submitted(m)
    BY <1>0, <1>7, <2>3 DEF SpawnSettle, Submitted
  <2>5. k.ack <= last /\ UNCHANGED <<cluster, last, machine, booked, peak, overrun>>
    BY <1>0, <1>7, <2>2 DEF SpawnSettle
  <2> QED BY <2>2, <2>3, <2>4, <2>5, QuietKeepsTypes
<1>8. ASSUME NEW c \in Calls, SubmitFails(c) PROVE TypeInv'
  <2>1. call' = [call EXCEPT ![c] = Failed(call[c])] /\ call[c].at # "idle"
    BY <1>8 DEF SubmitFails
  <2>2. Failed(call[c]) \in TaskState /\ Failed(call[c]).req = call[c].req
        /\ Failed(call[c]).ack = call[c].ack
    BY <1>0, FailedFields
  <2>3. /\ UNCHANGED <<cluster, last, machine, booked, peak, overrun>>
        /\ \A m \in wire' : Submitted(m)
    BY <1>0, <1>8 DEF SubmitFails
  <2>4. Failed(call[c]).ack <= last /\ call[c].req \in Requests
    BY <1>0, <2>1, <2>2
  <2> QED BY <2>1, <2>2, <2>3, <2>4, QuietKeepsTypes
<1>9. ASSUME NEW m \in wire, Commit(m) PROVE TypeInv'
  <2>1. Enter(m) /\ m.call \in Calls
    BY <1>0, <1>9, SubmittedFields DEF Commit
  <2>2. PICK k : k = IF Waiting(m.call, m) THEN Told(call[m.call], Accepted(machine, m))
                     ELSE call[m.call]
    OBVIOUS
  <2>3. k \in TaskState /\ k.req = call[m.call].req /\ k.ack <= last + 1
    <3>1. CASE Waiting(m.call, m)
      <4>1. k = Told(call[m.call], Accepted(machine, m)) /\ call[m.call] \in TaskState
        BY <1>0, <2>1, <2>2, <3>1
      <4> QED BY <1>0, <4>1, ToldFields
    <3>2. CASE ~Waiting(m.call, m)
      BY <1>0, <2>1, <2>2, <3>2
    <3> QED BY <3>1, <3>2
  <2>4. call' = [call EXCEPT ![m.call] = k] /\ (k.at # "idle" => k.req \in Requests)
    <3>1. call' = [call EXCEPT ![m.call] = k]
      BY <1>9, <2>2 DEF Commit
    <3>2. Waiting(m.call, m) => call[m.call].at # "idle"
      BY <1>0, SubmittedFields DEF Waiting
    <3> QED BY <1>0, <2>1, <2>2, <2>3, <3>1, <3>2
  <2>5. EnteredTypes
    BY <2>1, EnterTypes
  <2>6. k.ack <= last'
    BY <2>3, <2>5 DEF EnteredTypes
  <2> QED BY <2>1, <2>3, <2>4, <2>5, <2>6, TaskKeepsTypes DEF EnteredTypes
<1>10. ASSUME NEW m \in wire, CommitUnanswered(m) PROVE TypeInv'
  <2>1. Enter(m) /\ m.call \in Calls /\ call[m.call].at # "idle"
    BY <1>0, <1>10, SubmittedFields DEF CommitUnanswered, Waiting
  <2>2. call' = [call EXCEPT ![m.call] = Failed(call[m.call])]
    BY <1>10 DEF CommitUnanswered
  <2>3. Failed(call[m.call]) \in TaskState /\ Failed(call[m.call]).req = call[m.call].req
        /\ Failed(call[m.call]).ack = call[m.call].ack
    BY <1>0, <2>1, FailedFields
  <2>4. EnteredTypes
    BY <2>1, EnterTypes
  <2>5. Failed(call[m.call]).ack <= last' /\ call[m.call].req \in Requests
    BY <1>0, <2>1, <2>3, <2>4 DEF EnteredTypes
  <2> QED BY <2>1, <2>2, <2>3, <2>4, <2>5, TaskKeepsTypes DEF EnteredTypes
<1>11. ASSUME NEW m \in wire, Lose(m) PROVE TypeInv'
  <2>1. PICK k : k = IF Waiting(m.call, m) THEN Failed(call[m.call]) ELSE call[m.call]
    OBVIOUS
  <2>2. m.call \in Calls /\ call' = [call EXCEPT ![m.call] = k]
    BY <1>0, <1>11, <2>1, SubmittedFields DEF Lose
  <2>3. k \in TaskState /\ k.req = call[m.call].req /\ k.ack <= last
    BY <1>0, <2>1, <2>2, FailedFields
  <2>4. k.at # "idle" => k.req \in Requests
    BY <1>0, <2>1, <2>2, <2>3, SubmittedFields DEF Waiting
  <2>5. \A n \in wire' : Submitted(n)
    BY <1>0, <1>11 DEF Lose
  <2>6. UNCHANGED <<cluster, last, machine, booked, peak, overrun>>
    BY <1>11 DEF Lose
  <2> QED BY <2>2, <2>3, <2>4, <2>5, <2>6, QuietKeepsTypes
<1>12. CASE UNCHANGED vars
  BY <1>12 DEF vars, TypeInv
<1> QED BY <1>1, <1>2, <1>3, <1>4, <1>5, <1>6, <1>7, <1>8, <1>9, <1>10, <1>11, <1>12
        DEF Next, Task

(* Part one holds in every reachable state.                                *)
LEMMA TypeAlways == Spec => []TypeInv
BY TypeInit, TypeNext, PTL DEF Spec

(* Log, state machine, tasks and reads stay within their types, whatever   *)
(* requests and answers are lost and whatever leaders are elected: no      *)
(* counter of the replicated ledger goes negative, although settles        *)
(* release what was never reserved.                                        *)
THEOREM ClusterTypeCorrect == Spec => []TypeOK
<1>1. TypeInv => TypeOK
  BY DEF TypeInv, TypeOK, TaskState, ReadState
<1> QED BY <1>1, TypeAlways, PTL

(* read_run_linearizable: whatever leaders are elected and however far the *)
(* nodes lag, a read begins at or after every write that was acknowledged  *)
(* before, and answers with at least what it began at.                     *)
THEOREM ReadsAreCurrent == Spec => [][ReadStep]_vars
<1>1. TypeInv /\ TypeInv' /\ [Next]_vars => ReadStep \/ UNCHANGED vars
  <2> SUFFICES ASSUME TypeInv, TypeInv', Next PROVE ReadStep
    OBVIOUS
  <2> SUFFICES ASSUME NEW n \in Nodes, NEW c \in Calls, ~read[n].busy, read'[n].busy
               PROVE  read'[n].mark >= call[c].ack
    BY DEF ReadStep, TypeInv
  <2>1. last \in Nat /\ call[c].ack \in Nat /\ call[c].ack <= last /\ read \in [Nodes -> ReadState]
    BY DEF TypeInv, TaskState
  <2>2. PICK x \in Nodes : BeginRead(x)
    BY DEF Next, Task, Elect, CatchUp, Begin, Submit, SpawnSettle, SubmitFails, Commit,
           CommitUnanswered, Lose, Enter, cluster, EndRead, TypeInv, ReadState
  <2>3. n = x /\ read'[n].mark = last
    BY <2>1, <2>2 DEF BeginRead
  <2> QED BY <2>1, <2>3
<1> QED BY <1>1, TypeAlways, TypeNext, PTL DEF Spec

-----------------------------------------------------------------------------
(* Part two is kept by a step of one call, if the call itself is in order  *)
(* afterwards and no run loses its entry.                                  *)
LEMMA ControlMoves ==
  ASSUME TypeInv, Control, NEW c \in Calls,
         \A d \in Calls : d # c => call'[d] = call[d] /\ booked'[d] = booked[d],
         \A r \in Runs : machine[r].open => machine'[r].open,
         Tracks(call[c], booked[c])',
         \A m \in wire' : m.call \in Calls /\ (m.call # c => m \in wire),
         \A m \in wire' : m.call = c => OnWire(m, call'[c], booked'[c]),
         \A m, n \in wire' :
           m.op = "settle" /\ n.op = "settle" /\ m.call = c /\ n.call = c => m = n
  PROVE  Control'
<1>1. \A d \in Calls : Tracks(call[d], booked[d])'
  <2> SUFFICES ASSUME NEW d \in Calls, d # c PROVE Tracks(call[d], booked[d])'
    OBVIOUS
  <2>1. call'[d] = call[d] /\ booked'[d] = booked[d] /\ Tracks(call[d], booked[d])
    BY DEF Control
  <2>2. booked[d].phase = "held" => call[d].req.run \in Runs
    BY <2>1, RequestsAssumption DEF TypeInv, Tracks
  <2> QED BY <2>1, <2>2 DEF Tracks
<1>2. \A m \in wire' : OnWire(m, call'[m.call], booked'[m.call])
  <2> SUFFICES ASSUME NEW m \in wire', m.call # c
               PROVE  OnWire(m, call'[m.call], booked'[m.call])
    OBVIOUS
  <2>1. m \in wire /\ call'[m.call] = call[m.call] /\ booked'[m.call] = booked[m.call]
    OBVIOUS
  <2> QED BY <2>1 DEF Control
<1>3. \A m, n \in wire' : m.op = "settle" /\ n.op = "settle" /\ m.call = n.call => m = n
  <2> SUFFICES ASSUME NEW m \in wire', NEW n \in wire', m.op = "settle", n.op = "settle",
                      m.call = n.call, m.call # c
               PROVE  m = n
    OBVIOUS
  <2>1. m \in wire /\ n \in wire
    OBVIOUS
  <2> QED BY <2>1 DEF Control
<1> QED BY <1>1, <1>2, <1>3 DEF Control

(* What part two says of one call.                                         *)
LEMMA ControlOf ==
  ASSUME TypeInv, Control, NEW c \in Calls
  PROVE  /\ call[c] \in TaskState /\ booked[c] \in Abstract!CallState
         /\ Tracks(call[c], booked[c])
         /\ call[c].at # "idle" => call[c].req \in Requests
         /\ \A m \in wire : Submitted(m) /\ m.call \in Calls
         /\ \A m \in wire : m.call = c => OnWire(m, call[c], booked[c])
         /\ \A m, n \in wire :
              m.op = "settle" /\ n.op = "settle" /\ m.call = c /\ n.call = c => m = n
<1>1. \A m \in wire : Submitted(m) /\ m.call \in Calls
  BY SubmittedFields DEF TypeInv
<1>2. /\ call[c] \in TaskState /\ booked[c] \in Abstract!CallState
      /\ call[c].at # "idle" => call[c].req \in Requests
  BY DEF TypeInv
<1>3. /\ Tracks(call[c], booked[c])
      /\ \A m \in wire : m.call = c => OnWire(m, call[c], booked[c])
      /\ \A m, n \in wire :
           m.op = "settle" /\ n.op = "settle" /\ m.call = c /\ n.call = c => m = n
  BY DEF Control
<1> QED BY <1>1, <1>2, <1>3

(* The fields of the requests a gateway builds.                            *)
LEMMA RequestFields ==
  ASSUME NEW c, NEW q, NEW a
  PROVE  /\ OpenReq(c, q).op = "open" /\ OpenReq(c, q).call = c /\ OpenReq(c, q).run = q.run
         /\ ReserveReq(c, q).op = "reserve" /\ ReserveReq(c, q).call = c
         /\ ReserveReq(c, q).run = q.run /\ ReserveReq(c, q).micros = Micros(q.estimate)
         /\ SettleReq(c, q, a).op = "settle" /\ SettleReq(c, q, a).call = c
         /\ SettleReq(c, q, a).run = q.run /\ SettleReq(c, q, a).micros = Micros(q.estimate)
         /\ SettleReq(c, q, a).actual = Micros(a)
BY DEF OpenReq, ReserveReq, SettleReq

(* An entry of the log closes no run, and books its own call only.         *)
LEMMA EnterEffect ==
  ASSUME TypeInv, NEW m \in wire, Enter(m)
  PROVE  /\ Submitted(m) /\ m.call \in Calls /\ m.run \in Runs
         /\ wire' = wire \ {m}
         /\ \A r \in Runs : machine[r].open => machine'[r].open
         /\ \A d \in Calls : d # m.call => booked'[d] = booked[d]
         /\ m.op = "open" => booked' = booked
         /\ m.op = "reserve" /\ Accepted(machine, m) =>
              /\ booked'[m.call].phase = "held" /\ booked'[m.call].run = m.run
              /\ booked'[m.call].amount = m.micros /\ machine'[m.run].open
         /\ m.op = "reserve" /\ ~Accepted(machine, m) => booked'[m.call].phase = "refused"
         /\ m.op = "settle" =>
              booked'[m.call].phase =
                IF booked[m.call].phase = "held" THEN "settled" ELSE booked[m.call].phase
<1>1. /\ Submitted(m) /\ machine \in Ledgers /\ booked \in [Calls -> Abstract!CallState]
      /\ machine' = Apply(machine, m) /\ booked' = BookedAfter(m) /\ wire' = wire \ {m}
  BY DEF TypeInv, Enter, Record
<1>2. m.call \in Calls /\ m.run \in Runs /\ m.op \in {"open", "reserve", "settle"}
  BY <1>1, SubmittedFields
<1>3. \A r \in Runs : machine[r].open => machine'[r].open
  <2>1. CASE m.op = "open"
    BY <1>1, <1>2, <2>1, ApplyEffect DEF Opens
  <2>2. CASE m.op = "reserve" /\ Accepted(machine, m)
    BY <1>1, <1>2, <2>2, ApplyEffect DEF Reserves
  <2>3. CASE m.op = "reserve" /\ ~Accepted(machine, m)
    BY <1>1, <1>2, <2>3, ApplyEffect
  <2>4. CASE m.op = "settle"
    BY <1>1, <1>2, <2>4, ApplyEffect DEF Settles
  <2> QED BY <1>2, <2>1, <2>2, <2>3, <2>4
<1>4. ASSUME m.op = "reserve", Accepted(machine, m)
      PROVE  /\ booked'[m.call].phase = "held" /\ booked'[m.call].run = m.run
             /\ booked'[m.call].amount = m.micros /\ machine'[m.run].open
  <2>1. machine[m.run].open
    BY <1>4 DEF Accepted, CanReserve
  <2>2. booked'[m.call] = Abstract!HeldCall(m.run, m.micros, machine[m.run].steps + 1,
                                            Chain(machine, m.run))
    BY <1>1, <1>4, BookedEffect
  <2> QED BY <1>2, <1>3, <2>1, <2>2 DEF Abstract!HeldCall
<1> QED BY <1>1, <1>2, <1>3, <1>4, BookedEffect

(* Part two holds at first.                                                *)
LEMMA ControlInit == Init => Control /\ Answered
<1> SUFFICES ASSUME Init PROVE Control /\ Answered
  OBVIOUS
<1>1. \A c \in Calls : /\ call[c].at = "idle" /\ call[c].by = "none"
                       /\ booked[c].phase = "idle"
  BY DEF Init, IdleCall, Abstract!IdleCall
<1> QED BY <1>1 DEF Init, Control, Tracks, Answered

(* A task's own steps preserve part two.                                   *)
LEMMA TaskKeepsControl ==
  ASSUME Mode = "enforce", TypeInv, Control, NEW c \in Calls,
         (\E q \in Requests : Begin(c, q)) \/ Task(c) \/ SubmitFails(c)
  PROVE  Control'
<1>0. /\ call[c] \in TaskState /\ call \in [Calls -> TaskState] /\ Tracks(call[c], booked[c])
      /\ call[c].at # "idle" => call[c].req \in Requests
      /\ \A m \in wire : Submitted(m) /\ m.call \in Calls
      /\ \A m \in wire : m.call = c => OnWire(m, call[c], booked[c])
      /\ \A m, n \in wire :
           m.op = "settle" /\ n.op = "settle" /\ m.call = c /\ n.call = c => m = n
      /\ \A m \in wire : m.op \in {"open", "reserve", "settle"}
  BY ControlOf, SubmittedFields DEF TypeInv
<1>1. ASSUME NEW q \in Requests, Begin(c, q) PROVE Control'
  <2>1. PICK k : k = [IdleCall EXCEPT !.at = "open", !.req = q]
    OBVIOUS
  <2>2. k.at = "open" /\ k.req = q /\ k.by = "none"
    BY <2>1 DEF IdleCall
  <2>3. /\ call' = [call EXCEPT ![c] = k] /\ wire' = wire \cup {OpenReq(c, q)}
        /\ machine' = machine /\ booked' = booked /\ call[c].at = "idle"
    BY <1>1, <2>1 DEF Begin
  <2>4. call'[c] = k /\ \A d \in Calls : d # c => call'[d] = call[d]
    BY <1>0, <2>3
  <2>5. booked[c].phase = "idle"
    BY <1>0, <2>3 DEF Tracks
  <2>6. Tracks(call[c], booked[c])'
    BY <2>2, <2>3, <2>4, <2>5 DEF Tracks
  <2>7. \A m \in wire : m.call # c
    BY <1>0, <2>3 DEF OnWire
  <2>8. /\ OnWire(OpenReq(c, q), k, booked[c])
        /\ OpenReq(c, q).op = "open" /\ OpenReq(c, q).call = c
    <3>1. OpenReq(c, q).op = "open" /\ OpenReq(c, q).call = c
      BY DEF OpenReq
    <3> QED BY <2>2, <3>1 DEF OnWire
  <2>9. /\ \A m \in wire' : m.call \in Calls /\ (m.call # c => m \in wire)
        /\ \A m \in wire' : m.call = c => m = OpenReq(c, q)
    BY <1>0, <2>3, <2>7, <2>8
  <2> QED BY <2>3, <2>4, <2>6, <2>8, <2>9, ControlMoves
<1>2. CASE Submit(c)
  <2>1. PICK k : k = [call[c] EXCEPT !.at = "reserve"]
    OBVIOUS
  <2>2. k.at = "reserve" /\ k.req = call[c].req /\ k.by = call[c].by
    BY <1>0, <2>1 DEF TaskState
  <2>3. /\ call' = [call EXCEPT ![c] = k] /\ wire' = wire \cup {ReserveReq(c, k.req)}
        /\ machine' = machine /\ booked' = booked /\ call[c].at = "opened"
    BY <1>2, <2>1, <2>2 DEF Submit
  <2>4. call'[c] = k /\ \A d \in Calls : d # c => call'[d] = call[d]
    BY <1>0, <2>3
  <2>5. booked[c].phase = "idle" /\ k.by = "none"
    BY <1>0, <2>2, <2>3 DEF Tracks
  <2>6. Tracks(call[c], booked[c])'
    BY <2>2, <2>3, <2>4, <2>5 DEF Tracks
  <2>7. \A m \in wire : m.call = c => m.op = "open" /\ OnWire(m, k, booked[c])
    BY <1>0, <2>2, <2>3 DEF OnWire
  <2>8. /\ OnWire(ReserveReq(c, k.req), k, booked[c])
        /\ ReserveReq(c, k.req).op = "reserve" /\ ReserveReq(c, k.req).call = c
    <3>1. ReserveReq(c, k.req).op = "reserve" /\ ReserveReq(c, k.req).call = c
      BY DEF ReserveReq
    <3> QED BY <2>2, <2>5, <3>1 DEF OnWire
  <2>9. /\ \A m \in wire' : m.call \in Calls /\ (m.call # c => m \in wire)
        /\ \A m \in wire' : m.call = c => m.op # "settle" /\ OnWire(m, call'[c], booked'[c])
    BY <1>0, <2>3, <2>4, <2>7, <2>8
  <2> QED BY <2>3, <2>4, <2>6, <2>9, ControlMoves
<1>3. ASSUME NEW a \in Costs, SpawnSettle(c, a) PROVE Control'
  <2>1. PICK k : k = [call[c] EXCEPT !.at = "over"]
    OBVIOUS
  <2>2. k.at = "over" /\ k.req = call[c].req /\ k.by = call[c].by
    BY <1>0, <2>1 DEF TaskState
  <2>3. /\ call' = [call EXCEPT ![c] = k] /\ wire' = wire \cup {SettleReq(c, k.req, a)}
        /\ machine' = machine /\ booked' = booked /\ call[c].at = "serve"
    BY <1>3, <2>1, <2>2 DEF SpawnSettle
  <2>4. call'[c] = k /\ \A d \in Calls : d # c => call'[d] = call[d]
    BY <1>0, <2>3
  <2>5. booked[c].phase # "settled" /\ k.by \in {"cluster", "error"}
    BY <1>0, <2>2, <2>3 DEF Tracks
  <2>6. Tracks(call[c], booked[c])'
    BY <1>0, <2>2, <2>3, <2>4, <2>5 DEF Tracks
  <2>7. \A m \in wire : m.call = c => m.op # "settle" /\ OnWire(m, k, booked[c])
    BY <1>0, <2>2, <2>3 DEF OnWire
  <2>8. OnWire(SettleReq(c, k.req, a), k, booked[c])
    BY <2>2, <2>5, RequestFields DEF OnWire
  <2>9. /\ \A m \in wire' : m.call \in Calls /\ (m.call # c => m \in wire)
        /\ \A m \in wire' : m.call = c => OnWire(m, call'[c], booked'[c])
        /\ \A m \in wire' : m.call = c /\ m.op = "settle" => m = SettleReq(c, k.req, a)
    BY <1>0, <2>3, <2>4, <2>7, <2>8, RequestFields
  <2> QED BY <2>3, <2>4, <2>6, <2>9, ControlMoves
<1>4. CASE SubmitFails(c)
  <2>1. PICK k : k = Failed(call[c])
    OBVIOUS
  <2>2. /\ k.req = call[c].req
        /\ call[c].at = "open" => k.at = "opened" /\ k.by = call[c].by
        /\ call[c].at # "open" => k.at = "serve" /\ k.by = "error"
    BY <1>0, <2>1, FailedFields
  <2>3. /\ call' = [call EXCEPT ![c] = k] /\ wire' = wire
        /\ machine' = machine /\ booked' = booked /\ call[c].at \in {"open", "reserve"}
    BY <1>4, <2>1 DEF SubmitFails
  <2>4. call'[c] = k /\ \A d \in Calls : d # c => call'[d] = call[d]
    BY <1>0, <2>3
  <2>5. booked[c].phase = "idle" /\ call[c].by = "none"
    BY <1>0, <2>3 DEF Tracks
  <2>6. Tracks(call[c], booked[c])'
    BY <2>2, <2>3, <2>4, <2>5 DEF Tracks
  <2>7. \A m \in wire : m.call = c => m.op # "settle" /\ OnWire(m, k, booked[c])
    BY <1>0, <2>2, <2>3 DEF OnWire
  <2> QED BY <1>0, <2>3, <2>4, <2>6, <2>7, ControlMoves
<1> QED BY <1>1, <1>2, <1>3, <1>4 DEF Task

(* What committing a request makes of its task: it is answered, or gets an *)
(* error, if it still waits.                                               *)
BecomesOf(m, k) ==
  /\ call' = [call EXCEPT ![m.call] = k] /\ k.req = call[m.call].req
  /\ \/ k = call[m.call] /\ ~Waiting(m.call, m)
     \/ /\ Waiting(m.call, m)
        /\ m.op = "open" => k.at = "opened" /\ k.by = call[m.call].by
        /\ m.op # "open" => \/ k.at = "serve" /\ k.by = "error"
                            \/ k.at = "serve" /\ k.by = "cluster" /\ Accepted(machine, m)
                            \/ k.at = "over" /\ k.by = "refused" /\ ~Accepted(machine, m)

(* Committing a request does that to its task, and nothing else.           *)
LEMMA CommitTask ==
  ASSUME Mode = "enforce", TypeInv, NEW m \in wire, Commit(m) \/ CommitUnanswered(m)
  PROVE  \E k \in TaskState : BecomesOf(m, k)
<1> DEFINE c == m.call
<1>0. call[c] \in TaskState /\ call \in [Calls -> TaskState] /\ c \in Calls
  BY SubmittedFields DEF TypeInv
<1>1. CASE Commit(m) /\ Waiting(c, m)
  <2>1. PICK k : k = Told(call[c], Accepted(machine, m))
    OBVIOUS
  <2>2. call' = [call EXCEPT ![c] = k]
    BY <1>1, <2>1 DEF Commit
  <2>3. call[c].at = m.op /\ last \in Nat
    BY <1>1 DEF Waiting, TypeInv
  <2>4. /\ k \in TaskState /\ k.req = call[c].req
        /\ m.op = "open" => k.at = "opened" /\ k.by = call[c].by
        /\ m.op # "open" /\ Accepted(machine, m) => k.at = "serve" /\ k.by = "cluster"
        /\ m.op # "open" /\ ~Accepted(machine, m) => k.at = "over" /\ k.by = "refused"
    <3>1. /\ k.req = call[c].req
          /\ k.at = IF m.op = "open" THEN "opened" ELSE IF Accepted(machine, m) THEN "serve" ELSE "over"
          /\ k.by = IF m.op = "open" THEN call[c].by
                    ELSE IF Accepted(machine, m) THEN "cluster" ELSE "refused"
      BY <2>1, <2>3 DEF Told
    <3>2. k \in TaskState
      BY <1>0, <2>1, <2>3, ToldFields
    <3> QED BY <3>1, <3>2
  <2> QED BY <1>1, <2>2, <2>4 DEF BecomesOf
<1>2. CASE Commit(m) /\ ~Waiting(c, m)
  <2>1. call' = [call EXCEPT ![c] = call[c]]
    BY <1>2 DEF Commit
  <2> QED BY <1>0, <1>2, <2>1 DEF BecomesOf
<1>3. CASE CommitUnanswered(m)
  <2>1. PICK k : k = Failed(call[c])
    OBVIOUS
  <2>2. call' = [call EXCEPT ![c] = k] /\ Waiting(c, m) /\ call[c].at = m.op
    BY <1>3, <2>1 DEF CommitUnanswered, Waiting
  <2>3. /\ k \in TaskState /\ k.req = call[c].req
        /\ m.op = "open" => k.at = "opened" /\ k.by = call[c].by
        /\ m.op # "open" => k.at = "serve" /\ k.by = "error"
    BY <1>0, <2>1, <2>2, FailedFields
  <2> QED BY <2>2, <2>3 DEF BecomesOf
<1> QED BY <1>1, <1>2, <1>3

(* Committing a request keeps part two: a task that waits for the answer   *)
(* has not seen it booked, and one that gave up is booked all the same.    *)
LEMMA CommitKeepsControl ==
  ASSUME Mode = "enforce", TypeInv, Control, NEW m \in wire, Commit(m) \/ CommitUnanswered(m)
  PROVE  Control'
<1> DEFINE c == m.call
<1>1. Enter(m)
  BY DEF Commit, CommitUnanswered
<1>2. /\ Submitted(m) /\ c \in Calls /\ m.run \in Runs /\ wire' = wire \ {m}
      /\ m.op \in {"open", "reserve", "settle"}
      /\ \A r \in Runs : machine[r].open => machine'[r].open
      /\ \A d \in Calls : d # c => booked'[d] = booked[d]
  BY <1>1, EnterEffect, SubmittedFields
<1>3. /\ call[c] \in TaskState /\ call \in [Calls -> TaskState] /\ Tracks(call[c], booked[c])
      /\ call[c].at # "idle" => call[c].req \in Requests
      /\ \A n \in wire : Submitted(n) /\ n.call \in Calls
      /\ \A n \in wire : n.call = c => OnWire(n, call[c], booked[c])
      /\ \A n, x \in wire :
           n.op = "settle" /\ x.op = "settle" /\ n.call = c /\ x.call = c => n = x
  BY <1>2, ControlOf DEF TypeInv
<1>4. PICK k \in TaskState : BecomesOf(m, k)
  BY CommitTask
<1>5. call'[c] = k /\ \A d \in Calls : d # c => call'[d] = call[d]
  BY <1>2, <1>3, <1>4 DEF BecomesOf
<1>6. OnWire(m, call[c], booked[c])
  BY <1>3
<1> SUFFICES /\ Tracks(call[c], booked[c])'
             /\ \A n \in wire : n # m /\ n.call = c => OnWire(n, k, booked'[c])
  BY <1>2, <1>3, <1>5, ControlMoves
<1>7. CASE m.op = "open"
  <2>1. booked' = booked
    BY <1>1, <1>7, EnterEffect
  <2>2. Waiting(c, m) => call[c].at = "open" /\ k.at = "opened" /\ k.by = call[c].by
    BY <1>4, <1>7 DEF Waiting, BecomesOf
  <2>3. booked[c].phase = "held" => machine'[call[c].req.run].open
    BY <1>2, <1>3, RequestsAssumption DEF Tracks
  <2>4. Tracks(call[c], booked[c])'
    BY <1>3, <1>4, <1>5, <2>1, <2>2, <2>3 DEF Tracks, BecomesOf
  <2>5. ASSUME NEW n \in wire, n # m, n.call = c PROVE OnWire(n, k, booked'[c])
    BY <1>3, <1>4, <2>1, <2>2, <2>5 DEF OnWire, BecomesOf
  <2> QED BY <2>4, <2>5
<1>8. CASE m.op = "reserve"
  <2>1. /\ m = ReserveReq(c, call[c].req) /\ call[c].at \in {"reserve", "serve", "over"}
        /\ booked[c].phase = "idle" /\ call[c].by # "cluster" /\ call[c].req \in Requests
    BY <1>3, <1>6, <1>8 DEF OnWire, Tracks
  <2>2. m.run = call[c].req.run /\ m.micros = call[c].req.estimate
    BY <2>1, MicrosOfNat, RequestsAssumption DEF ReserveReq
  <2>3. \/ /\ Accepted(machine, m) /\ booked'[c].phase = "held" /\ booked'[c].run = call[c].req.run
           /\ booked'[c].amount = call[c].req.estimate /\ machine'[call[c].req.run].open
        \/ ~Accepted(machine, m) /\ booked'[c].phase = "refused"
    BY <1>1, <1>8, <2>2, EnterEffect
  <2>4. Waiting(c, m) <=> call[c].at = "reserve"
    BY <1>8 DEF Waiting
  <2>5. Tracks(call[c], booked[c])'
    BY <1>3, <1>4, <1>5, <1>8, <2>1, <2>3, <2>4 DEF Tracks, BecomesOf
  <2>6. ASSUME NEW n \in wire, n # m, n.call = c PROVE OnWire(n, k, booked'[c])
    <3>1. OnWire(n, call[c], booked[c]) /\ n.op # "reserve"
      BY <1>3, <2>1, <2>6 DEF OnWire
    <3>2. n.op = "settle" => k = call[c]
      BY <1>4, <2>4, <3>1 DEF OnWire, BecomesOf
    <3> QED BY <1>4, <1>8, <2>3, <2>6, <3>1, <3>2 DEF OnWire, BecomesOf
  <2> QED BY <2>5, <2>6
<1>9. CASE m.op = "settle"
  <2>1. call[c].at = "over" /\ booked[c].phase # "settled" /\ k = call[c]
    BY <1>4, <1>6, <1>9 DEF OnWire, Waiting, BecomesOf
  <2>2. booked'[c].phase = IF booked[c].phase = "held" THEN "settled" ELSE booked[c].phase
    BY <1>1, <1>9, EnterEffect
  <2>3. Tracks(call[c], booked[c])'
    BY <1>3, <1>5, <2>1, <2>2 DEF Tracks
  <2>4. ASSUME NEW n \in wire, n # m, n.call = c PROVE OnWire(n, k, booked'[c])
    BY <1>3, <1>9, <2>1, <2>2, <2>4 DEF OnWire
  <2> QED BY <2>3, <2>4
<1> QED BY <1>2, <1>7, <1>8, <1>9

(* Losing a request preserves part two.                                    *)
LEMMA LoseKeepsControl ==
  ASSUME TypeInv, Control, NEW m \in wire, Lose(m)
  PROVE  Control'
<1> DEFINE c == m.call
<1>1. c \in Calls /\ m.op \in {"open", "reserve", "settle"} /\ m.op # "opened"
  BY SubmittedFields DEF TypeInv
<1>2. /\ call[c] \in TaskState /\ call \in [Calls -> TaskState] /\ Tracks(call[c], booked[c])
      /\ \A n \in wire : n.call \in Calls
      /\ \A n \in wire : n.call = c => OnWire(n, call[c], booked[c])
      /\ \A n, x \in wire :
           n.op = "settle" /\ x.op = "settle" /\ n.call = c /\ x.call = c => n = x
  BY <1>1, ControlOf DEF TypeInv
<1>3. PICK k : k = IF Waiting(c, m) THEN Failed(call[c]) ELSE call[c]
  OBVIOUS
<1>4. /\ call' = [call EXCEPT ![c] = k] /\ wire' = wire \ {m}
      /\ machine' = machine /\ booked' = booked
  BY <1>3 DEF Lose
<1>5. call'[c] = k /\ \A d \in Calls : d # c => call'[d] = call[d]
  BY <1>1, <1>2, <1>4
<1>6. CASE ~Waiting(c, m)
  BY <1>1, <1>2, <1>3, <1>4, <1>5, <1>6, ControlMoves DEF Tracks
<1>7. CASE Waiting(c, m)
  <2>1. /\ k.req = call[c].req /\ call[c].at \in {"open", "reserve"}
        /\ call[c].at = "open" => k.at = "opened" /\ k.by = call[c].by
        /\ call[c].at # "open" => k.at = "serve" /\ k.by = "error"
    BY <1>1, <1>2, <1>3, <1>7, FailedFields DEF Waiting, TaskState
  <2>2. booked[c].phase = "idle" /\ call[c].by = "none"
    BY <1>2, <2>1 DEF Tracks
  <2>3. Tracks(call[c], booked[c])'
    BY <1>4, <1>5, <2>1, <2>2 DEF Tracks
  <2>4. \A n \in wire : n.call = c => OnWire(n, k, booked[c])
    BY <1>2, <2>1 DEF OnWire
  <2> QED BY <1>1, <1>2, <1>4, <1>5, <2>3, <2>4, ControlMoves
<1> QED BY <1>6, <1>7

(* Part two is kept by every step.                                         *)
LEMMA ControlNext ==
  ASSUME Mode = "enforce", TypeInv, Control, [Next]_vars
  PROVE  Control'
<1>1. CASE UNCHANGED <<machine, wire, call, booked>>
  BY <1>1 DEF Control, Tracks, OnWire
<1>2. ASSUME NEW n \in Nodes \cup {NoNode}, Elect(n) PROVE Control'
  BY <1>1, <1>2 DEF Elect
<1>3. ASSUME NEW n \in Nodes, CatchUp(n) \/ BeginRead(n) \/ EndRead(n) PROVE Control'
  BY <1>1, <1>3 DEF CatchUp, BeginRead, EndRead
<1>4. CASE UNCHANGED vars
  BY <1>1, <1>4 DEF vars
<1> QED BY <1>2, <1>3, <1>4, TaskKeepsControl, CommitKeepsControl, LoseKeepsControl DEF Next

(* Without faults nobody gets an error.                                    *)
LEMMA AnsweredNext ==
  ASSUME TypeInv, Answered, [Next]_vars
  PROVE  Answered'
<1> SUFFICES ASSUME ~Faults, NEW d \in Calls PROVE call'[d].by # "error"
  BY DEF Answered
<1>0. \A c \in Calls : call[c] \in TaskState /\ call[c].by # "error"
  BY DEF TypeInv, Answered
<1>1. CASE call' = call
  BY <1>0, <1>1
<1>2. ASSUME NEW c \in Calls, NEW k, call' = [call EXCEPT ![c] = k], k.by # "error"
      PROVE  call'[d].by # "error"
  BY <1>0, <1>2 DEF TypeInv
<1>3. ASSUME NEW c \in Calls, NEW q \in Requests, Begin(c, q) PROVE call'[d].by # "error"
  <2>1. PICK k : k = [IdleCall EXCEPT !.at = "open", !.req = q]
    OBVIOUS
  <2>2. k.by # "error" /\ call' = [call EXCEPT ![c] = k]
    BY <1>3, <2>1 DEF Begin, IdleCall
  <2> QED BY <1>2, <2>2
<1>4. ASSUME NEW c \in Calls, Task(c) PROVE call'[d].by # "error"
  <2>1. PICK x : call' = [call EXCEPT ![c] = [call[c] EXCEPT !.at = x]]
    BY <1>4 DEF Task, Submit, SpawnSettle
  <2>2. PICK k : k = [call[c] EXCEPT !.at = x]
    OBVIOUS
  <2>3. k.by # "error"
    BY <1>0, <2>2 DEF TaskState
  <2> QED BY <1>2, <2>1, <2>2, <2>3
<1>5. ASSUME NEW m \in wire, Commit(m) PROVE call'[d].by # "error"
  <2>1. PICK k : k = IF Waiting(m.call, m) THEN Told(call[m.call], Accepted(machine, m))
                     ELSE call[m.call]
    OBVIOUS
  <2>2. m.call \in Calls /\ call' = [call EXCEPT ![m.call] = k]
    BY <1>5, <2>1, SubmittedFields DEF Commit, TypeInv
  <2>3. k.by # "error"
    BY <1>0, <2>1, <2>2 DEF Told
  <2> QED BY <1>2, <2>2, <2>3
<1> QED BY <1>1, <1>3, <1>4, <1>5
        DEF Next, vars, Elect, CatchUp, BeginRead, EndRead, SubmitFails, CommitUnanswered, Lose

(* Part two holds in every reachable state of the enforce mode.            *)
LEMMA ControlAlways == Mode = "enforce" => (Spec => [](TypeInv /\ Control /\ Answered))
<1> SUFFICES ASSUME Mode = "enforce" PROVE Spec => [](TypeInv /\ Control /\ Answered)
  OBVIOUS
<1>1. TypeInv /\ Control /\ Answered /\ [Next]_vars => (TypeInv /\ Control /\ Answered)'
  BY TypeNext, ControlNext, AnsweredNext
<1> QED BY <1>1, TypeInit, ControlInit, PTL DEF Spec

-----------------------------------------------------------------------------
(* The levels of a run depend on which runs have entries and on their      *)
(* parents only.                                                           *)
LEMMA ChainSame ==
  ASSUME NEW L, NEW M, NEW run, Open(M) = Open(L), \A r \in Open(L) : M[r].parent = L[r].parent
  PROVE  Chain(M, run) = Chain(L, run)
<1> SUFFICES ASSUME NEW n \in 1 .. MaxChainDepth
             PROVE  ReachedIn(M, run, n) = ReachedIn(L, run, n)
  BY DEF Chain
<1>1. n \in Nat
  BY MaxChainDepthAssumption
<1>2. ASSUME NEW p \in [1 .. n -> Open(L)]
      PROVE  (\A i \in 1 .. n - 1 : M[p[i]].parent = p[i + 1])
               <=> (\A i \in 1 .. n - 1 : L[p[i]].parent = p[i + 1])
  BY <1>1, <1>2
<1> QED BY <1>2 DEF ReachedIn

(* The in-process ledger's operations are those the state machine applies. *)
LEMMA SameChain ==
  ASSUME NEW L, NEW run
  PROVE  /\ Abstract!Open(L) = Open(L) /\ Abstract!Chain(L, run) = Chain(L, run)
         /\ \A n : Abstract!ReachedIn(L, run, n) = ReachedIn(L, run, n)
<1>1. Abstract!Open(L) = Open(L)
  BY DEF Abstract!Open, Open
<1>2. \A n : Abstract!ReachedIn(L, run, n) = ReachedIn(L, run, n)
  BY <1>1, Zenon DEF Abstract!ReachedIn, ReachedIn
<1> QED BY <1>1, <1>2, Zenon DEF Abstract!Chain, Chain

(* The in-process ledger's operations, under the names of the instance.    *)
LEMMA SameOps ==
  ASSUME NEW L, NEW run, NEW x, NEW y
  PROVE  /\ Abstract!OpenRun(L, run, x, y) = OpenRun(L, run, x, y)
         /\ Abstract!Reserve(L, run, x) = Reserve(L, run, x)
         /\ Abstract!Settle(L, run, x, y) = Settle(L, run, x, y)
         /\ Abstract!CanReserve(L, run, x) <=> CanReserve(L, run, x)
         /\ Abstract!BlockedAt(L, run, x) = BlockedAt(L, run, x)
         /\ Abstract!Monus(x, y) = Monus(x, y)
<1>1. /\ Abstract!Chain(L, run) = Chain(L, run)
      /\ \A n : Abstract!ReachedIn(L, run, n) = ReachedIn(L, run, n)
  BY SameChain
<1>2. Abstract!OpenRun(L, run, x, y) = OpenRun(L, run, x, y)
  BY Zenon DEF Abstract!OpenRun, OpenRun, Abstract!Closed, Closed
<1>3. Abstract!Reserve(L, run, x) = Reserve(L, run, x)
  BY <1>1, Zenon DEF Abstract!Reserve, Reserve
<1>4. \A a, b : Abstract!Monus(a, b) = Monus(a, b)
  BY Zenon DEF Abstract!Monus, Monus
<1>5. Abstract!Settle(L, run, x, y) = Settle(L, run, x, y)
  BY <1>1, <1>4, Zenon DEF Abstract!Settle, Settle
<1>6. Abstract!ExceededLevels(L, run, x) = ExceededLevels(L, run, x)
  BY <1>1, Zenon DEF Abstract!ExceededLevels, ExceededLevels, Abstract!Committed, Committed
<1>7. Abstract!CanReserve(L, run, x) <=> CanReserve(L, run, x)
  BY <1>6, Zenon DEF Abstract!CanReserve, CanReserve
<1>8. Abstract!BlockedAt(L, run, x) = BlockedAt(L, run, x)
  <2> DEFINE Over == ExceededLevels(L, run, x)
             A(r) == \E n \in 1 .. MaxChainDepth :
                       /\ r \in Abstract!ReachedIn(L, run, n)
                       /\ \A m \in 1 .. n - 1 : Abstract!ReachedIn(L, run, m) \cap Over = {}
             B(r) == \E n \in 1 .. MaxChainDepth :
                       /\ r \in ReachedIn(L, run, n)
                       /\ \A m \in 1 .. n - 1 : ReachedIn(L, run, m) \cap Over = {}
  <2>1. \A r : A(r) <=> B(r)
    BY <1>1, Zenon
  <2>2. Abstract!BlockedAt(L, run, x) = CHOOSE r \in Over : A(r)
    BY <1>6, Zenon DEF Abstract!BlockedAt
  <2>3. BlockedAt(L, run, x) = CHOOSE r \in Over : B(r)
    BY Zenon DEF BlockedAt
  <2> HIDE DEF A, B, Over
  <2> QED BY <2>1, <2>2, <2>3
<1> QED BY <1>2, <1>3, <1>4, <1>5, <1>7, <1>8

(* Every step of a cluster that answers is a step of one in-process        *)
(* ledger, or none.                                                        *)
LEMMA StepRefines ==
  ASSUME ~Faults, Mode = "enforce", TypeInv, Control, Answered, [Next]_vars
  PROVE  [Abstract!Next]_(Abstract!vars)
<1> DEFINE Budgets == {q.budget : q \in Requests} \cup {0}
           Amounts == {q.estimate : q \in Requests} \cup Costs
<1>1. ASSUME NEW m \in wire, Commit(m) PROVE Abstract!Next
  <2> DEFINE c == m.call
             q == call[m.call].req
  <2>1. Enter(m) /\ Submitted(m) /\ c \in Calls /\ m.op \in {"open", "reserve", "settle"}
    BY <1>1, SubmittedFields DEF Commit, TypeInv
  <2>2. /\ machine' = Apply(machine, m) /\ booked' = BookedAfter(m)
        /\ peak' = IF m.op = "open" THEN Abstract!Raise(peak, m.run, m.budget) ELSE peak
        /\ overrun' = IF m.op = "settle"
             THEN Abstract!AddAt(overrun, Chain(machine, m.run), Monus(m.actual, m.micros))
             ELSE overrun
    BY <2>1 DEF Enter, Record
  <2>3. /\ OnWire(m, call[c], booked[c]) /\ Tracks(call[c], booked[c]) /\ q \in Requests
        /\ machine \in Ledgers /\ booked \in [Calls -> Abstract!CallState]
        /\ call[c].by # "error"
    BY <2>1 DEF Control, TypeInv, OnWire, Answered
  <2>4. q.run \in Runs /\ q.parent \in Runs \cup {NoRun} /\ q.budget \in Int /\ q.estimate \in Nat
    BY <2>3, RequestsAssumption
  <2>5. CASE m.op = "open"
    <3>1. m.run = q.run /\ m.parent = q.parent /\ m.budget = Micros(q.budget)
      BY <2>3, <2>5 DEF OnWire, OpenReq
    <3>2. m.budget \in Budgets
      BY <2>3, <2>4, <3>1 DEF Micros
    <3>3. machine' = OpenRun(machine, m.run, m.budget, m.parent) /\ booked' = booked
      BY <2>2, <2>5 DEF Apply, BookedAfter
    <3>4. Abstract!Declare(m.run, m.budget, m.parent)
      BY <2>2, <2>5, <3>3, SameOps DEF Abstract!Declare
    <3> QED BY <2>4, <3>1, <3>2, <3>4 DEF Abstract!Next
  <2>6. CASE m.op = "reserve"
    <3>1. /\ m.run = q.run /\ m.micros = q.estimate /\ booked[c].phase = "idle"
      BY <2>3, <2>4, <2>6, MicrosOfNat DEF OnWire, ReserveReq
    <3>2. q.estimate \in Amounts
      BY <2>3
    <3>3. CASE Accepted(machine, m)
      <4>1. machine' = Reserve(machine, q.run, q.estimate) /\ CanReserve(machine, q.run, q.estimate)
        BY <2>2, <2>6, <3>1, <3>3 DEF Apply, Accepted
      <4>2. Reserves(machine, machine', q.run, q.estimate)
        BY <2>3, <2>4, <4>1, ReserveEffect
      <4>3. Open(machine') = Open(machine) /\ \A r \in Open(machine) : machine'[r].parent = machine[r].parent
        BY <4>2 DEF Reserves, Open
      <4>4. machine'[q.run].steps = machine[q.run].steps + 1 /\ Chain(machine', q.run) = Chain(machine, q.run)
        BY <2>4, <4>2, <4>3, ChainSame DEF Reserves
      <4>5. booked' = [booked EXCEPT ![c] =
                         Abstract!HeldCall(q.run, q.estimate, machine'[q.run].steps,
                                           Chain(machine', q.run))]
        BY <2>2, <2>6, <3>1, <3>3, <4>4 DEF BookedAfter
      <4>6. Abstract!ReserveOk(c, q.run, q.estimate)
        <5>1. /\ machine' = Abstract!Reserve(machine, q.run, q.estimate)
              /\ Abstract!CanReserve(machine, q.run, q.estimate)
          BY <4>1, SameOps
        <5>2. Abstract!Grant(c, q.run, q.estimate, machine')
          BY <4>5, SameChain DEF Abstract!Grant
        <5> QED BY <2>2, <2>6, <3>1, <5>1, <5>2 DEF Abstract!ReserveOk
      <4> QED BY <2>1, <2>4, <3>2, <4>6 DEF Abstract!Next, Abstract!Calls, Calls
    <3>4. CASE ~Accepted(machine, m)
      <4>1. machine' = machine /\ ~CanReserve(machine, q.run, q.estimate)
        BY <2>2, <2>6, <3>1, <3>4 DEF Apply, Accepted
      <4>2. booked' = [booked EXCEPT ![c] =
                         Abstract!RefusedCall(q.run, q.estimate,
                           IF machine[q.run].open THEN BlockedAt(machine, q.run, q.estimate)
                           ELSE NoRun)]
        BY <2>2, <2>6, <3>1, <3>4 DEF BookedAfter
      <4>3. Abstract!ReserveRefused(c, q.run, q.estimate)
        BY <2>2, <2>6, <3>1, <4>1, <4>2, SameOps DEF Abstract!ReserveRefused
      <4> QED BY <2>1, <2>4, <3>2, <4>3 DEF Abstract!Next, Abstract!Calls, Calls
    <3> QED BY <3>3, <3>4
  <2>7. CASE m.op = "settle"
    <3>1. PICK a \in Costs : m = SettleReq(c, q, a)
      BY <2>3, <2>7 DEF OnWire
    <3>2. a \in Nat /\ m.run = q.run /\ m.micros = q.estimate /\ m.actual = a
      BY <2>4, <3>1, CostsAssumption, MicrosOfNat DEF SettleReq
    <3>3. booked[c].phase = "held" /\ booked[c].run = q.run /\ booked[c].amount = q.estimate
      BY <2>3, <2>7 DEF OnWire, Tracks
    <3>4. machine' = Settle(machine, booked[c].run, booked[c].amount, a)
      BY <2>2, <2>7, <3>2, <3>3 DEF Apply
    <3>5. booked' = [booked EXCEPT ![c] = Abstract!SettledCall(booked[c], a)]
      BY <2>2, <2>7, <3>2, <3>3 DEF BookedAfter
    <3>6. Abstract!SettleCall(c, a)
      BY <2>2, <2>7, <3>2, <3>3, <3>4, <3>5, SameOps, SameChain DEF Abstract!SettleCall
    <3> QED BY <2>1, <3>1, <3>6 DEF Abstract!Next, Abstract!Calls, Calls
  <2> QED BY <2>1, <2>5, <2>6, <2>7
<1>2. CASE UNCHANGED <<machine, booked, peak, overrun>>
  BY <1>2 DEF Abstract!vars
<1> QED BY <1>1, <1>2
        DEF Next, vars, Task, Elect, CatchUp, BeginRead, EndRead, Begin, Submit, SpawnSettle,
            SubmitFails, CommitUnanswered, Lose

(* cluster/src/lib.rs: two sub-agents that race against different nodes    *)
(* never both slip past the same budget ceiling.  For every cluster, run   *)
(* tree and number of calls: with requests that are answered, each         *)
(* behaviour of the replicated ledger is one of the in-process ledger,     *)
(* whoever submits what through which node and whatever leaders are        *)
(* elected.  What is proved of Ledger for any order of declarations, the   *)
(* distinct step numbers for one, holds of the cluster; the ceiling is     *)
(* OutageBounded below.                                                    *)
THEOREM ClusterIsOneLedger == ~Faults /\ Mode = "enforce" => (Spec => ImplementsLedger)
<1> SUFFICES ASSUME ~Faults, Mode = "enforce" PROVE Spec => ImplementsLedger
  OBVIOUS
<1>1. Init => Abstract!Init
  BY DEF Init, Abstract!Init, Abstract!Calls, Calls, Abstract!EmptyLedger, EmptyLedger,
         Abstract!Closed, Closed
<1>2. TypeInv /\ Control /\ Answered /\ [Next]_vars => [Abstract!Next]_(Abstract!vars)
  BY StepRefines
<1> QED BY <1>1, <1>2, ControlAlways, PTL DEF Spec, ImplementsLedger, Abstract!Spec

-----------------------------------------------------------------------------
(* The shares at a run are naturals, and so are their tallies.             *)
SharesAt(r) ==
  /\ \A d \in Calls : InFlight(d, r) \in Nat /\ Lapsed(d, r) \in Nat
  /\ Flights(r) \in [1 .. NumCalls -> Nat] /\ Lapses(r) \in [1 .. NumCalls -> Nat]
  /\ \A d \in Calls : Flights(r)[d] = InFlight(d, r) /\ Lapses(r)[d] = Lapsed(d, r)
  /\ Total(Flights(r), NumCalls) \in Nat /\ Total(Lapses(r), NumCalls) \in Nat

(* They are whenever the types are right, before a step and after it.      *)
LEMMA SharesNow == TypeInv => \A r \in Runs : SharesAt(r)
<1> SUFFICES ASSUME TypeInv, NEW r \in Runs PROVE SharesAt(r)
  OBVIOUS
<1>1. \A d \in Calls : Charges(d, r) => Micros(call[d].req.estimate) \in Nat
  BY RequestsAssumption DEF TypeInv, Charges, Micros
<1>2. \A d \in Calls : InFlight(d, r) \in Nat /\ Lapsed(d, r) \in Nat
  BY <1>1 DEF InFlight, Lapsed
<1>3. /\ Flights(r) \in [1 .. NumCalls -> Nat] /\ Lapses(r) \in [1 .. NumCalls -> Nat]
      /\ \A d \in Calls : Flights(r)[d] = InFlight(d, r) /\ Lapses(r)[d] = Lapsed(d, r)
  BY <1>2 DEF Flights, Lapses, Calls
<1>4. Total(Flights(r), NumCalls) \in Nat /\ Total(Lapses(r), NumCalls) \in Nat
  BY <1>3, TotalNat, NumCallsAssumption
<1> QED BY <1>2, <1>3, <1>4 DEF SharesAt

(* The same after a step.                                                  *)
LEMMA SharesNext == TypeInv' => (\A r \in Runs : SharesAt(r))'
BY SharesNow, PTL

(* Before and after a step.                                                *)
LEMMA SharesNat ==
  ASSUME TypeInv, TypeInv', NEW r \in Runs
  PROVE  SharesAt(r) /\ SharesAt(r)'
BY SharesNow, SharesNext

(* How far a step moves the shares at r against what lapsed there.         *)
NoHigher(r) == \A d \in Calls : InFlight(d, r)' + Lapsed(d, r) <= InFlight(d, r) + Lapsed(d, r)'

(* A step that moves no share higher, and takes nothing from a run, keeps  *)
(* the run's bounds.                                                       *)
LEMMA NoHigherKeepsBounds ==
  ASSUME TypeInv, TypeInv', NEW r \in Runs, Bounds(r), NoHigher(r),
         machine'[r].reserved = machine[r].reserved, machine'[r].spent <= machine[r].spent,
         peak'[r] >= peak[r], overrun'[r] = overrun[r], machine'[r].budget <= peak'[r],
         machine'[r].open \/ ~machine[r].open
  PROVE  Bounds(r)'
<1>1. /\ Flights(r) \in [1 .. NumCalls -> Nat] /\ Lapses(r) \in [1 .. NumCalls -> Nat]
      /\ \A d \in Calls : Flights(r)[d] = InFlight(d, r) /\ Lapses(r)[d] = Lapsed(d, r)
      /\ Total(Flights(r), NumCalls) \in Nat /\ Total(Lapses(r), NumCalls) \in Nat
  BY SharesNat DEF SharesAt
<1>2. /\ Flights(r)' \in [1 .. NumCalls -> Nat] /\ Lapses(r)' \in [1 .. NumCalls -> Nat]
      /\ \A d \in Calls : Flights(r)'[d] = InFlight(d, r)' /\ Lapses(r)'[d] = Lapsed(d, r)'
      /\ Total(Flights(r)', NumCalls) \in Nat /\ Total(Lapses(r)', NumCalls) \in Nat
  BY SharesNat DEF SharesAt
<1>3. \A d \in 1 .. NumCalls : Flights(r)'[d] + Lapses(r)[d] <= Flights(r)[d] + Lapses(r)'[d]
  BY <1>1, <1>2 DEF NoHigher, Calls
<1>4. Total(Flights(r)', NumCalls) + Total(Lapses(r), NumCalls)
        <= Total(Flights(r), NumCalls) + Total(Lapses(r)', NumCalls)
  BY <1>1, <1>2, <1>3, TotalShift, NumCallsAssumption
<1>5. /\ machine[r].reserved \in Nat /\ machine[r].spent \in Nat /\ machine'[r].spent \in Nat
      /\ peak[r] \in Nat /\ peak'[r] \in Nat /\ overrun[r] \in Nat
  BY DEF TypeInv, Ledgers, RunState
<1>6. Covered(r)'
  BY <1>1, <1>2, <1>4, <1>5 DEF Bounds, Covered
<1>7. Exposed(r)'
  <2>1. PICK f \in Nat, g \in Nat, h \in Nat, k \in Nat :
          /\ f = Total(Flights(r), NumCalls) /\ g = Total(Lapses(r), NumCalls)
          /\ h = Total(Flights(r)', NumCalls) /\ k = Total(Lapses(r)', NumCalls)
    BY <1>1, <1>2
  <2>2. h + g <= f + k /\ machine[r].spent + f <= peak[r] + overrun[r] + g
    BY <1>4, <2>1 DEF Bounds, Exposed
  <2>3. machine'[r].spent + h <= peak'[r] + overrun'[r] + k
    BY <1>5, <2>1, <2>2
  <2> QED BY <2>1, <2>3 DEF Exposed
<1> QED BY <1>6, <1>7 DEF Bounds

(* A call that a step leaves alone keeps its shares.                       *)
LEMMA UntouchedKeeps ==
  ASSUME NEW d \in Calls, NEW r \in Runs, call'[d] = call[d], booked'[d] = booked[d],
         call[d].at # "idle" =>
           Chain(machine', call[d].req.run) = Chain(machine, call[d].req.run),
         Settling(d)' <=> Settling(d)
  PROVE  InFlight(d, r)' = InFlight(d, r) /\ Lapsed(d, r)' = Lapsed(d, r)
<1>1. Charges(d, r)' <=> Charges(d, r)
  BY DEF Charges
<1> QED BY <1>1 DEF InFlight, Lapsed

(* What a task's own step does to its shares: leaving a reservation that   *)
(* was not made is no flight, and only that.                               *)
LEMMA QuietShares ==
  ASSUME TypeInv, TypeInv', Control, Control', NEW c \in Calls,
         machine' = machine, booked' = booked,
         \A d \in Calls : d # c => call'[d] = call[d] /\ (Settling(d)' <=> Settling(d)),
         \/ call[c].at \in {"idle", "open", "opened"}
            /\ call'[c].at \in {"open", "opened", "reserve"}
         \/ /\ call[c].at \in {"open", "reserve"} /\ call'[c].at = "serve" 
            /\ call'[c].by = "error" /\ call'[c].req = call[c].req
         \/ /\ call[c].at = "serve" /\ call'[c].at = "over" /\ Settling(c)'
            /\ call'[c].by = call[c].by /\ call'[c].req = call[c].req
         \/ call'[c] = call[c] /\ (Settling(c)' => Settling(c)),
         NEW r \in Runs
  PROVE  NoHigher(r)
<1>1. \A d \in Calls : /\ InFlight(d, r) \in Nat /\ Lapsed(d, r) \in Nat
                       /\ InFlight(d, r)' \in Nat /\ Lapsed(d, r)' \in Nat
  BY SharesNat DEF SharesAt
<1>2. ASSUME NEW d \in Calls, d # c
      PROVE  InFlight(d, r)' + Lapsed(d, r) <= InFlight(d, r) + Lapsed(d, r)'
  <2>1. InFlight(d, r)' = InFlight(d, r) /\ Lapsed(d, r)' = Lapsed(d, r)
    BY <1>2, UntouchedKeeps
  <2> QED BY <1>1, <2>1
<1>3. InFlight(c, r)' + Lapsed(c, r) <= InFlight(c, r) + Lapsed(c, r)'
  <2>0. Tracks(call[c], booked[c]) /\ Tracks(call[c], booked[c])'
    BY DEF Control
  <2>1. CASE /\ call[c].at \in {"idle", "open", "opened"}
             /\ call'[c].at \in {"open", "opened", "reserve"}
    <3>1. booked[c].phase = "idle"
      BY <2>0, <2>1 DEF Tracks
    <3>2. InFlight(c, r)' = 0 /\ Lapsed(c, r) = 0 
      BY <2>1, <3>1 DEF InFlight, Lapsed
    <3> QED BY <1>1, <3>2
  <2>2. CASE /\ call[c].at \in {"open", "reserve"} /\ call'[c].at = "serve" 
             /\ call'[c].by = "error" /\ call'[c].req = call[c].req
    <3>1. booked[c].phase = "idle" /\ call[c].by = "none"
      BY <2>0, <2>2 DEF Tracks
    <3>2. Lapsed(c, r) = 0 
      BY <2>2, <3>1 DEF Lapsed
    <3>3. InFlight(c, r)' = Lapsed(c, r)'
      BY <2>2, <3>1 DEF InFlight, Lapsed
    <3> QED BY <1>1, <3>2, <3>3
  <2>3. CASE /\ call[c].at = "serve" /\ call'[c].at = "over" /\ Settling(c)'
             /\ call'[c].by = call[c].by /\ call'[c].req = call[c].req
    <3>1. Charges(c, r)' <=> Charges(c, r)
      BY <2>3 DEF Charges
    <3>2. CASE booked[c].phase = "held"
      <4>1. Lapsed(c, r) = 0 /\ InFlight(c, r)' = InFlight(c, r)
        BY <2>3, <3>1, <3>2 DEF Lapsed, InFlight
      <4> QED BY <1>1, <4>1
    <3>3. CASE booked[c].phase # "held"
      <4>1. call[c].by = "error"
        BY <2>0, <2>3, <3>3 DEF Tracks
      <4>2. InFlight(c, r)' = 0 /\ Lapsed(c, r) = InFlight(c, r)
        BY <2>3, <3>1, <3>3, <4>1 DEF Lapsed, InFlight
      <4> QED BY <1>1, <4>2
    <3> QED BY <3>2, <3>3
  <2>4. CASE call'[c] = call[c] /\ (Settling(c)' => Settling(c))
    <3>1. Charges(c, r)' <=> Charges(c, r)
      BY <2>4 DEF Charges
    <3>2. InFlight(c, r)' = InFlight(c, r)
      BY <2>4, <3>1 DEF InFlight
    <3>3. Lapsed(c, r) = Lapsed(c, r)' \/ Lapsed(c, r) = 0
      BY <2>4, <3>1 DEF Lapsed
    <3> QED BY <1>1, <3>2, <3>3
  <2> QED BY <2>1, <2>2, <2>3, <2>4
<1> QED BY <1>2, <1>3 DEF NoHigher

(* Steps that leave the state machine alone keep part three.               *)
LEMMA QuietKeepsExposure ==
  ASSUME TypeInv, TypeInv', Control, Control', Exposure, NEW c \in Calls,
         \/ \E q \in Requests : Begin(c, q)
         \/ Task(c)
         \/ SubmitFails(c)
         \/ \E m \in wire : m.call = c /\ Lose(m)
  PROVE  Exposure'
<1> DEFINE OneCall == /\ \A d \in Calls : d # c => call'[d] = call[d]
                      /\ \A m : m.call # c => (m \in wire' <=> m \in wire)
           Kind == \/ /\ call[c].at \in {"idle", "open", "opened"}
                      /\ call'[c].at \in {"open", "opened", "reserve"}
                   \/ /\ call[c].at \in {"open", "reserve"} /\ call'[c].at = "serve"
                      /\ call'[c].by = "error" /\ call'[c].req = call[c].req
                   \/ /\ call[c].at = "serve" /\ call'[c].at = "over" /\ Settling(c)'
                      /\ call'[c].by = call[c].by /\ call'[c].req = call[c].req
                   \/ call'[c] = call[c] /\ (Settling(c)' => Settling(c))
<1>0. /\ call[c] \in TaskState /\ call \in [Calls -> TaskState]
      /\ \A m \in wire : m.op \in {"open", "reserve", "settle"}
  BY SubmittedFields DEF TypeInv
<1>1. machine' = machine /\ booked' = booked /\ peak' = peak /\ overrun' = overrun
  BY DEF Begin, Task, Submit, SpawnSettle, SubmitFails, Lose
<1>2. OneCall
  <2>1. ASSUME NEW q \in Requests, Begin(c, q) PROVE OneCall
    <3>1. OpenReq(c, q).call = c
      BY DEF OpenReq
    <3> QED BY <1>0, <2>1, <3>1 DEF Begin
  <2>2. CASE Submit(c)
    <3>1. ReserveReq(c, call[c].req).call = c
      BY DEF ReserveReq
    <3> QED BY <1>0, <2>2, <3>1 DEF Submit
  <2>3. ASSUME NEW a \in Costs, SpawnSettle(c, a) PROVE OneCall
    <3>1. SettleReq(c, call[c].req, a).call = c
      BY DEF SettleReq
    <3> QED BY <1>0, <2>3, <3>1 DEF SpawnSettle
  <2>4. CASE SubmitFails(c)
    BY <1>0, <2>4 DEF SubmitFails
  <2>5. ASSUME NEW m \in wire, m.call = c, Lose(m) PROVE OneCall
    BY <1>0, <2>5 DEF Lose
  <2> QED BY <2>1, <2>2, <2>3, <2>4, <2>5 DEF Task
<1>3. \A d \in Calls : d # c => (Settling(d)' <=> Settling(d))
  BY <1>2 DEF Settling
<1>4. Kind
  <2>1. ASSUME NEW q \in Requests, Begin(c, q) PROVE Kind
    <3>1. PICK k : k = [IdleCall EXCEPT !.at = "open", !.req = q]
      OBVIOUS
    <3>2. k.at = "open" /\ call' = [call EXCEPT ![c] = k]
      BY <2>1, <3>1 DEF Begin, IdleCall
    <3> QED BY <1>0, <2>1, <3>2 DEF Begin
  <2>2. CASE Submit(c)
    <3>1. PICK k : k = [call[c] EXCEPT !.at = "reserve"]
      OBVIOUS
    <3>2. k.at = "reserve" /\ call' = [call EXCEPT ![c] = k]
      BY <1>0, <2>2, <3>1 DEF Submit, TaskState
    <3> QED BY <1>0, <2>2, <3>2 DEF Submit
  <2>3. ASSUME NEW a \in Costs, SpawnSettle(c, a) PROVE Kind
    <3>1. PICK k : k = [call[c] EXCEPT !.at = "over"]
      OBVIOUS
    <3>2. /\ k.at = "over" /\ k.by = call[c].by /\ k.req = call[c].req
          /\ call' = [call EXCEPT ![c] = k]
      BY <1>0, <2>3, <3>1 DEF SpawnSettle, TaskState
    <3>3. SettleReq(c, call[c].req, a).op = "settle" /\ SettleReq(c, call[c].req, a).call = c
      BY DEF SettleReq
    <3>4. Settling(c)'
      BY <2>3, <3>3 DEF Settling, SpawnSettle
    <3> QED BY <1>0, <2>3, <3>2, <3>4 DEF SpawnSettle
  <2>4. ASSUME call[c].at \in {"open", "reserve"}, call' = [call EXCEPT ![c] = Failed(call[c])]
        PROVE  Kind
    BY <1>0, <2>4, FailedFields
  <2>5. CASE SubmitFails(c)
    BY <2>4, <2>5 DEF SubmitFails
  <2>6. ASSUME NEW m \in wire, m.call = c, Lose(m) PROVE Kind
    <3>1. CASE Waiting(c, m)
      <4>1. call[c].at \in {"open", "reserve"} /\ call' = [call EXCEPT ![c] = Failed(call[c])]
        BY <1>0, <2>6, <3>1 DEF Lose, Waiting, TaskState
      <4> QED BY <2>4, <4>1
    <3>2. CASE ~Waiting(c, m)
      <4>1. call'[c] = call[c] /\ wire' \subseteq wire
        BY <1>0, <2>6, <3>2 DEF Lose
      <4> QED BY <4>1 DEF Settling
    <3> QED BY <3>1, <3>2
  <2> QED BY <2>1, <2>2, <2>3, <2>5, <2>6 DEF Task
<1> SUFFICES ASSUME NEW r \in Runs PROVE Bounds(r)'
  BY DEF Exposure
<1>5. NoHigher(r)
  BY <1>1, <1>2, <1>3, <1>4, QuietShares
<1>6. Bounds(r) /\ machine[r].budget <= peak[r] /\ machine[r].spent \in Nat /\ peak[r] \in Nat
  BY DEF Exposure, Bounds, TypeInv, Ledgers, RunState
<1> QED BY <1>1, <1>5, <1>6, NoHigherKeepsBounds

(* A run without an entry charges nobody.                                  *)
LEMMA ClosedChain ==
  ASSUME NEW L, NEW run, run \notin Open(L)
  PROVE  Chain(L, run) = {}
<1> SUFFICES ASSUME NEW n \in 1 .. MaxChainDepth PROVE ReachedIn(L, run, n) = {}
  BY DEF Chain
<1>1. 1 \in 1 .. n
  BY MaxChainDepthAssumption
<1>2. \A p \in [1 .. n -> Open(L)] : p[1] # run
  BY <1>1
<1> QED BY <1>2 DEF ReachedIn

(* open_run, of a new run or a known one, keeps part three: a call that    *)
(* was let through before its run was opened is now charged to it, and has *)
(* lapsed.                                                                 *)
LEMMA OpenKeepsExposure ==
  ASSUME Mode = "enforce", TypeInv, TypeInv', Control, Control', Exposure, ParentsOpen(machine),
         NEW m \in wire, Commit(m) \/ CommitUnanswered(m), m.op = "open"
  PROVE  Exposure'
<1> DEFINE c == m.call
<1>1. Enter(m) /\ Submitted(m) /\ c \in Calls
  BY SubmittedFields DEF Commit, CommitUnanswered, TypeInv
<1>2. /\ Opens(machine, machine', m.run, m.budget, m.parent) /\ m.run \in Runs /\ m.budget \in Nat
      /\ booked' = booked /\ wire' = wire \ {m} /\ overrun' = overrun
      /\ peak' = Abstract!Raise(peak, m.run, m.budget)
  BY <1>1, ApplyEffect, EnterEffect, SubmittedFields DEF Enter, Record, TypeInv
<1>3. PICK k \in TaskState : BecomesOf(m, k)
  BY CommitTask
<1>4. /\ \A d \in Calls : d # c => call'[d] = call[d]
      /\ call'[c] = call[c] \/ (call[c].at = "open" /\ call'[c].at = "opened")
  BY <1>1, <1>3 DEF BecomesOf, Waiting, TypeInv
<1>5. \A d \in Calls : Settling(d)' <=> Settling(d)
  BY <1>2 DEF Settling
<1>6. \A q \in Open(machine) : q \in Open(machine') /\ machine'[q].parent = machine[q].parent
  BY <1>2 DEF Opens, Open
<1> SUFFICES ASSUME NEW r \in Runs PROVE Bounds(r)'
  BY DEF Exposure
<1>7. \A d \in Calls : /\ InFlight(d, r) \in Nat /\ Lapsed(d, r) \in Nat
                       /\ InFlight(d, r)' \in Nat /\ Lapsed(d, r)' \in Nat
  BY SharesNat DEF SharesAt
<1>8. ASSUME NEW d \in Calls
      PROVE  InFlight(d, r)' + Lapsed(d, r) <= InFlight(d, r) + Lapsed(d, r)'
  <2>0. /\ Tracks(call[d], booked[d]) /\ (call[d].at # "idle" => call[d].req.run \in Runs)
        /\ Tracks(call[d], booked[d])'
    BY RequestsAssumption DEF Control, TypeInv
  <2>1. CASE call[d].at = "open" /\ call'[d].at = "opened"
    <3>1. booked[d].phase = "idle"
      BY <2>0, <2>1 DEF Tracks
    <3>2. InFlight(d, r)' = 0 /\ Lapsed(d, r) = 0
      BY <1>2, <2>1, <3>1 DEF InFlight, Lapsed
    <3> QED BY <1>7, <3>2
  <2>2. CASE call'[d] = call[d] /\ (call[d].at = "idle" \/ call[d].req.run \in Open(machine))
    <3>1. call[d].at # "idle" => Chain(machine', call[d].req.run) = Chain(machine, call[d].req.run)
      BY <1>6, <2>2, ChainStable
    <3>2. InFlight(d, r)' = InFlight(d, r) /\ Lapsed(d, r)' = Lapsed(d, r)
      BY <1>2, <1>5, <2>2, <3>1, UntouchedKeeps
    <3> QED BY <1>7, <3>2
  <2>3. CASE call'[d] = call[d] /\ call[d].at # "idle" /\ call[d].req.run \notin Open(machine)
    <3>1. ~Charges(d, r)
      BY <2>3, ClosedChain DEF Charges
    <3>2. InFlight(d, r) = 0 /\ Lapsed(d, r) = 0
      BY <3>1 DEF InFlight, Lapsed
    <3>3. booked[d].phase # "held"
      BY <2>0, <2>3 DEF Tracks, Open
    <3>4. call[d].at = "serve" => call[d].by = "error"
      BY <2>0, <3>3 DEF Tracks
    <3>5. InFlight(d, r)' = 0 \/ InFlight(d, r)' = Lapsed(d, r)'
      BY <1>2, <2>3, <3>3, <3>4 DEF InFlight, Lapsed
    <3> QED BY <1>7, <3>2, <3>5
  <2> QED BY <1>4, <2>1, <2>2, <2>3
<1>9. Bounds(r)
  BY DEF Exposure
<1>10. /\ machine'[r].reserved = machine[r].reserved /\ machine'[r].spent <= machine[r].spent
       /\ machine'[r].open \/ ~machine[r].open
  <2>1. machine[r].spent \in Nat
    BY DEF TypeInv, Ledgers, RunState
  <2> QED BY <1>2, <1>9, <2>1 DEF Opens, Bounds
<1>11. peak'[r] >= peak[r] /\ machine'[r].budget <= peak'[r]
  <2>1. peak \in [Runs -> Nat] /\ machine[r].budget \in Int /\ machine[r].budget <= peak[r]
    BY <1>9 DEF TypeInv, Ledgers, RunState, Bounds
  <2>2. CASE r = m.run
    <3>1. machine'[r].budget = m.budget /\ peak'[r] = IF m.budget > peak[r] THEN m.budget ELSE peak[r]
      BY <1>2, <2>1, <2>2 DEF Opens, Abstract!Raise
    <3> QED BY <1>2, <2>1, <3>1
  <2>3. CASE r # m.run
    <3>1. machine'[r] = machine[r] /\ peak'[r] = peak[r]
      BY <1>2, <2>1, <2>3 DEF Opens, Abstract!Raise
    <3> QED BY <2>1, <3>1
  <2> QED BY <2>2, <2>3
<1>12. NoHigher(r)
  BY <1>8 DEF NoHigher
<1> QED BY <1>2, <1>9, <1>10, <1>11, <1>12, NoHigherKeepsBounds

(* When the shares of one call change, the tallies change with them.       *)
LEMMA TalliesMove ==
  ASSUME TypeInv, TypeInv', NEW r \in Runs, NEW c \in Calls,
         \A d \in Calls : d # c => InFlight(d, r)' = InFlight(d, r) /\ Lapsed(d, r)' = Lapsed(d, r)
  PROVE  /\ Total(Flights(r)', NumCalls) = Total(Flights(r), NumCalls) + InFlight(c, r)' - InFlight(c, r)
         /\ Total(Lapses(r)', NumCalls) = Total(Lapses(r), NumCalls) + Lapsed(c, r)' - Lapsed(c, r)
<1>1. /\ Flights(r) \in [1 .. NumCalls -> Nat] /\ Lapses(r) \in [1 .. NumCalls -> Nat]
      /\ \A d \in Calls : Flights(r)[d] = InFlight(d, r) /\ Lapses(r)[d] = Lapsed(d, r)
  BY SharesNat DEF SharesAt
<1>2. /\ Flights(r)' \in [1 .. NumCalls -> Nat] /\ Lapses(r)' \in [1 .. NumCalls -> Nat]
      /\ \A d \in Calls : Flights(r)'[d] = InFlight(d, r)' /\ Lapses(r)'[d] = Lapsed(d, r)'
  BY SharesNat DEF SharesAt
<1>3. c \in 1 .. NumCalls /\ NumCalls \in Nat
  BY NumCallsAssumption DEF Calls
<1>4. \A d \in 1 .. NumCalls : d # c => Flights(r)'[d] = Flights(r)[d] /\ Lapses(r)'[d] = Lapses(r)[d]
  BY <1>1, <1>2 DEF Calls
<1>5. Total(Flights(r)', NumCalls) = Total(Flights(r), NumCalls) + Flights(r)'[c] - Flights(r)[c]
  BY <1>1, <1>2, <1>3, <1>4, TotalUpdate
<1>6. Total(Lapses(r)', NumCalls) = Total(Lapses(r), NumCalls) + Lapses(r)'[c] - Lapses(r)[c]
  BY <1>1, <1>2, <1>3, <1>4, TotalUpdate
<1> QED BY <1>1, <1>2, <1>5, <1>6

(* What committing a reserve or a settle leaves alone: the shares of the   *)
(* other calls, and all shares at the runs it does not charge.             *)
LEMMA ChargeKeeps ==
  ASSUME Mode = "enforce", TypeInv, TypeInv', Control,
         NEW m \in wire, Commit(m) \/ CommitUnanswered(m), m.op # "open", NEW r \in Runs
  PROVE  /\ Chain(machine', call[m.call].req.run) = Chain(machine, call[m.call].req.run)
         /\ \A d \in Calls : d # m.call =>
              InFlight(d, r)' = InFlight(d, r) /\ Lapsed(d, r)' = Lapsed(d, r)
         /\ r \notin Chain(machine, call[m.call].req.run) =>
              /\ InFlight(m.call, r) = 0 /\ InFlight(m.call, r)' = 0
              /\ Lapsed(m.call, r) = 0 /\ Lapsed(m.call, r)' = 0
<1> DEFINE c == m.call
<1>1. /\ Enter(m) /\ Submitted(m) /\ c \in Calls /\ m.run \in Runs /\ wire' = wire \ {m}
      /\ m.op \in {"reserve", "settle"}
      /\ \A d \in Calls : d # c => booked'[d] = booked[d]
  BY EnterEffect, SubmittedFields DEF Commit, CommitUnanswered, TypeInv
<1>2. Open(machine') = Open(machine) /\ \A x \in Open(machine) : machine'[x].parent = machine[x].parent
  <2>1. CASE m.op = "reserve" /\ Accepted(machine, m)
    <3>1. Reserves(machine, machine', m.run, m.micros)
      BY <1>1, <2>1, ApplyEffect DEF Enter, TypeInv
    <3> QED BY <3>1 DEF Reserves, Open
  <2>2. CASE m.op = "reserve" /\ ~Accepted(machine, m)
    BY <1>1, <2>2, ApplyEffect DEF Enter, TypeInv
  <2>3. CASE m.op = "settle"
    <3>1. Settles(machine, machine', m.run, m.micros, m.actual)
      BY <1>1, <2>3, ApplyEffect DEF Enter, TypeInv
    <3> QED BY <3>1 DEF Settles, Open
  <2> QED BY <1>1, <2>1, <2>2, <2>3
<1>3. \A run : Chain(machine', run) = Chain(machine, run)
  BY <1>2, ChainSame
<1>4. PICK k \in TaskState : BecomesOf(m, k)
  BY CommitTask
<1>5. /\ \A d \in Calls : d # c => call'[d] = call[d]
      /\ call'[c].req = call[c].req
  BY <1>1, <1>4 DEF BecomesOf, TypeInv
<1>6. \A d \in Calls : d # c => (Settling(d)' <=> Settling(d))
  BY <1>1 DEF Settling
<1>7. ASSUME NEW d \in Calls, d # c
      PROVE  InFlight(d, r)' = InFlight(d, r) /\ Lapsed(d, r)' = Lapsed(d, r)
  BY <1>1, <1>3, <1>5, <1>6, <1>7, UntouchedKeeps
<1>8. ASSUME r \notin Chain(machine, call[c].req.run)
      PROVE  /\ InFlight(c, r) = 0 /\ InFlight(c, r)' = 0
             /\ Lapsed(c, r) = 0 /\ Lapsed(c, r)' = 0
  <2>1. ~Charges(c, r) /\ ~Charges(c, r)'
    BY <1>3, <1>5, <1>8 DEF Charges
  <2> QED BY <2>1 DEF InFlight, Lapsed
<1> QED BY <1>3, <1>7, <1>8

(* A run that an entry does not charge keeps its bounds.                   *)
LEMMA UnchargedKeeps ==
  ASSUME TypeInv, TypeInv', Control, Mode = "enforce",
         NEW m \in wire, Commit(m) \/ CommitUnanswered(m), m.op # "open",
         NEW r \in Runs, Bounds(r), r \notin Chain(machine, call[m.call].req.run),
         machine'[r].reserved = machine[r].reserved, machine'[r].spent = machine[r].spent,
         machine'[r].budget = machine[r].budget, machine'[r].open = machine[r].open,
         peak'[r] = peak[r], overrun'[r] = overrun[r]
  PROVE  Bounds(r)'
<1>1. \A d \in Calls : /\ InFlight(d, r) \in Nat /\ Lapsed(d, r) \in Nat
                       /\ InFlight(d, r)' \in Nat /\ Lapsed(d, r)' \in Nat
  BY SharesNat DEF SharesAt
<1>2. \A d \in Calls : InFlight(d, r)' = InFlight(d, r) /\ Lapsed(d, r)' = Lapsed(d, r)
  BY ChargeKeeps
<1>3. NoHigher(r)
  <2> SUFFICES ASSUME NEW d \in Calls
               PROVE  InFlight(d, r)' + Lapsed(d, r) <= InFlight(d, r) + Lapsed(d, r)'
    BY DEF NoHigher
  <2> QED BY <1>1, <1>2
<1>4. machine[r].spent \in Nat /\ peak[r] \in Nat /\ machine[r].budget <= peak[r]
  BY DEF TypeInv, Ledgers, RunState, Bounds
<1> QED BY <1>3, <1>4, NoHigherKeepsBounds

(* A reserve that is granted, whether or not anybody still waits for it,   *)
(* keeps part three: the budget check sees every flight that did not lapse.*)
LEMMA GrantKeepsExposure ==
  ASSUME Mode = "enforce", TypeInv, TypeInv', Control, Control', Exposure,
         NEW m \in wire, Commit(m) \/ CommitUnanswered(m), m.op = "reserve", Accepted(machine, m)
  PROVE  Exposure'
<1> DEFINE c == m.call
           q == call[m.call].req
<1>1. /\ Enter(m) /\ Submitted(m) /\ c \in Calls /\ wire' = wire \ {m}
      /\ booked'[c].phase = "held" /\ peak' = peak /\ overrun' = overrun
      /\ Reserves(machine, machine', m.run, m.micros)
  <2>1. Enter(m) /\ Submitted(m) /\ machine \in Ledgers
    BY DEF Commit, CommitUnanswered, TypeInv
  <2>2. machine' = Apply(machine, m) /\ peak' = peak /\ overrun' = overrun
    BY <2>1 DEF Enter, Record
  <2>3. Reserves(machine, machine', m.run, m.micros)
    BY <2>1, <2>2, ApplyEffect
  <2>4. c \in Calls /\ wire' = wire \ {m} /\ booked'[c].phase = "held"
    BY <2>1, EnterEffect
  <2> QED BY <2>1, <2>2, <2>3, <2>4
<1>2. /\ OnWire(m, call[c], booked[c]) /\ Tracks(call[c], booked[c]) /\ q \in Requests
  BY <1>1 DEF Control, TypeInv, OnWire
<1>3. /\ m.run = q.run /\ m.micros = q.estimate /\ booked[c].phase = "idle"
      /\ call[c].at \in {"reserve", "serve", "over"} /\ q.run \in Runs /\ q.estimate \in Nat
      /\ Micros(q.estimate) = q.estimate
  <2>1. q.run \in Runs /\ q.estimate \in Nat
    BY <1>2, RequestsAssumption
  <2> QED BY <1>2, <2>1, MicrosOfNat DEF OnWire, ReserveReq
<1>4. PICK k \in TaskState : BecomesOf(m, k)
  BY CommitTask
<1>5. /\ call'[c].req = q
      /\ call[c].at = "reserve" => call'[c].at = "serve"
      /\ call[c].at # "reserve" => call'[c] = call[c]
  BY <1>1, <1>4 DEF BecomesOf, Waiting, TypeInv
<1>6. Settling(c)' <=> Settling(c)
  BY <1>1 DEF Settling
<1> SUFFICES ASSUME NEW r \in Runs PROVE Bounds(r)'
  BY DEF Exposure
<1>7. CASE r \notin Chain(machine, q.run)
  BY <1>1, <1>3, <1>7, UnchargedKeeps DEF Reserves, Exposure
<1>8. CASE r \in Chain(machine, q.run)
  <2>1. /\ machine'[r].reserved = machine[r].reserved + q.estimate
        /\ machine'[r].spent = machine[r].spent /\ machine'[r].budget = machine[r].budget
        /\ machine'[r].open = machine[r].open /\ machine[r].open
    BY <1>1, <1>3, <1>8, ChainIsOpen DEF Reserves, Open
  <2>2. /\ machine[r].reserved \in Nat /\ machine[r].spent \in Nat /\ machine[r].budget \in Int
        /\ peak[r] \in Nat /\ overrun[r] \in Nat /\ Bounds(r)
    BY DEF TypeInv, Ledgers, RunState, Exposure
  <2>3. machine[r].spent + machine[r].reserved + q.estimate <= machine[r].budget
    <3>1. ~(Committed(machine, r) + q.estimate > machine[r].budget)
      BY <1>3, <1>8 DEF Accepted, CanReserve, ExceededLevels
    <3> QED BY <1>3, <2>2, <3>1 DEF Committed
  <2>4. Charges(c, r) /\ Charges(c, r)'
    <3>1. Chain(machine', q.run) = Chain(machine, q.run)
      BY ChargeKeeps
    <3> QED BY <1>3, <1>5, <1>8, <3>1 DEF Charges
  <2>5. /\ InFlight(c, r) \in Nat /\ Lapsed(c, r) \in Nat
        /\ InFlight(c, r)' \in Nat /\ Lapsed(c, r)' \in Nat
    BY <1>1, SharesNat DEF SharesAt
  <2>6. InFlight(c, r)' + Lapsed(c, r) <= InFlight(c, r) + Lapsed(c, r)' + q.estimate
    <3>1. CASE call[c].at = "reserve"
      <4>1. Lapsed(c, r) = 0 /\ InFlight(c, r)' = q.estimate
        BY <1>1, <1>3, <1>5, <2>4, <3>1 DEF Lapsed, InFlight
      <4> QED BY <1>3, <2>5, <4>1
    <3>2. CASE call[c].at = "serve"
      <4>1. InFlight(c, r) = q.estimate /\ InFlight(c, r)' = q.estimate
        BY <1>1, <1>3, <1>5, <2>4, <3>2 DEF InFlight
      <4>2. Lapsed(c, r) = 0 \/ Lapsed(c, r) = q.estimate
        BY <1>3 DEF Lapsed
      <4> QED BY <1>3, <2>5, <4>1, <4>2
    <3>3. CASE call[c].at = "over"
      <4>1. InFlight(c, r) = 0 /\ InFlight(c, r)' = q.estimate
        BY <1>1, <1>3, <1>5, <2>4, <3>3 DEF InFlight
      <4>2. Lapsed(c, r)' = Lapsed(c, r)
        BY <1>1, <1>3, <1>5, <1>6, <2>4, <3>3 DEF Lapsed
      <4> QED BY <1>3, <2>5, <4>1, <4>2
    <3> QED BY <1>3, <3>1, <3>2, <3>3
  <2>7. PICK f \in Nat, g \in Nat, h \in Nat, x \in Nat :
          /\ f = Total(Flights(r), NumCalls) /\ g = Total(Lapses(r), NumCalls)
          /\ h = Total(Flights(r)', NumCalls) /\ x = Total(Lapses(r)', NumCalls)
    BY SharesNat DEF SharesAt
  <2>8. h = f + InFlight(c, r)' - InFlight(c, r) /\ x = g + Lapsed(c, r)' - Lapsed(c, r)
    BY <1>1, <2>7, ChargeKeeps, TalliesMove
  <2>9. f <= machine[r].reserved + g /\ machine[r].budget <= peak[r]
    BY <2>2, <2>7 DEF Bounds, Covered
  <2>10. h <= machine[r].reserved + q.estimate + x
    <3>1. PICK i \in Nat, l \in Nat, s \in Nat, t \in Nat :
            i = InFlight(c, r) /\ l = Lapsed(c, r) /\ s = InFlight(c, r)' /\ t = Lapsed(c, r)'
      BY <2>5
    <3>2. s + l <= i + t + q.estimate /\ h = f + s - i /\ x = g + t - l
      BY <2>6, <2>8, <3>1
    <3> QED BY <1>3, <2>2, <2>9, <3>2
  <2>11. machine'[r].spent + h <= peak'[r] + overrun'[r] + x
    BY <1>1, <1>3, <2>1, <2>2, <2>3, <2>9, <2>10
  <2>12. Covered(r)' /\ Exposed(r)'
    BY <2>1, <2>7, <2>10, <2>11 DEF Covered, Exposed
  <2> QED BY <1>1, <2>1, <2>9, <2>12 DEF Bounds
<1> QED BY <1>7, <1>8

(* A reserve that is refused keeps part three.                             *)
LEMMA RefusalKeepsExposure ==
  ASSUME Mode = "enforce", TypeInv, TypeInv', Control, Control', Exposure,
         NEW m \in wire, Commit(m) \/ CommitUnanswered(m), m.op = "reserve", ~Accepted(machine, m)
  PROVE  Exposure'
<1> DEFINE c == m.call
<1>1. /\ Enter(m) /\ Submitted(m) /\ c \in Calls /\ wire' = wire \ {m}
      /\ booked'[c].phase = "refused" /\ peak' = peak /\ overrun' = overrun /\ machine' = machine
  BY EnterEffect, SubmittedFields, ApplyEffect
  DEF Commit, CommitUnanswered, TypeInv, Enter, Record
<1>2. /\ OnWire(m, call[c], booked[c]) /\ Tracks(call[c], booked[c])
  BY <1>1 DEF Control
<1>3. booked[c].phase = "idle" /\ call[c].at \in {"reserve", "serve", "over"}
  BY <1>2 DEF OnWire
<1>4. PICK k \in TaskState : BecomesOf(m, k)
  BY CommitTask
<1>5. /\ call'[c].req = call[c].req
      /\ call[c].at = "reserve" => \/ call'[c].at = "serve" /\ call'[c].by = "error"
                                   \/ call'[c].at = "over" /\ call'[c].by = "refused"
      /\ call[c].at # "reserve" => call'[c] = call[c]
  BY <1>1, <1>4 DEF BecomesOf, Waiting, TypeInv
<1>6. Settling(c)' <=> Settling(c)
  BY <1>1 DEF Settling
<1> SUFFICES ASSUME NEW r \in Runs PROVE Bounds(r)'
  BY DEF Exposure
<1>7. \A d \in Calls : /\ InFlight(d, r) \in Nat /\ Lapsed(d, r) \in Nat
                       /\ InFlight(d, r)' \in Nat /\ Lapsed(d, r)' \in Nat
  BY SharesNat DEF SharesAt
<1>8. InFlight(c, r)' + Lapsed(c, r) <= InFlight(c, r) + Lapsed(c, r)'
  <2>1. CASE call[c].at = "reserve"
    <3>1. call[c].by = "none"
      BY <1>2, <2>1 DEF Tracks
    <3>2. Lapsed(c, r) = 0
      BY <3>1 DEF Lapsed
    <3>3. InFlight(c, r)' = 0 \/ InFlight(c, r)' = Lapsed(c, r)'
      BY <1>1, <1>5, <2>1 DEF InFlight, Lapsed
    <3> QED BY <1>1, <1>7, <3>2, <3>3
  <2>2. CASE call[c].at # "reserve"
    <3>1. Charges(c, r)' <=> Charges(c, r)
      BY <1>1, <1>5, <2>2 DEF Charges
    <3>2. InFlight(c, r)' = InFlight(c, r) /\ Lapsed(c, r)' = Lapsed(c, r)
      BY <1>1, <1>3, <1>5, <1>6, <2>2, <3>1 DEF InFlight, Lapsed
    <3> QED BY <1>1, <1>7, <3>2
  <2> QED BY <2>1, <2>2
<1>9. NoHigher(r)
  <2> SUFFICES ASSUME NEW d \in Calls, d # c
               PROVE  InFlight(d, r)' + Lapsed(d, r) <= InFlight(d, r) + Lapsed(d, r)'
    BY <1>8 DEF NoHigher
  <2>1. InFlight(d, r)' = InFlight(d, r) /\ Lapsed(d, r)' = Lapsed(d, r)
    BY ChargeKeeps
  <2> QED BY <1>7, <2>1
<1>10. Bounds(r) /\ machine[r].budget <= peak[r] /\ machine[r].spent \in Nat /\ peak[r] \in Nat
  BY DEF Exposure, Bounds, TypeInv, Ledgers, RunState
<1> QED BY <1>1, <1>9, <1>10, NoHigherKeepsBounds

(* The settles of one call are one: committing it leaves none on the wire, *)
(* and settles the record of a call that was held.                         *)
LEMMA SettleEntry ==
  ASSUME Mode = "enforce", TypeInv, Control,
         NEW m \in wire, Commit(m) \/ CommitUnanswered(m), m.op = "settle"
  PROVE  LET c == m.call
             q == call[m.call].req
         IN  /\ c \in Calls /\ q \in Requests /\ q.run \in Runs /\ q.estimate \in Nat
             /\ m.run = q.run /\ m.micros = q.estimate /\ m.actual \in Nat
             /\ call'[c] = call[c] /\ call[c].at = "over"
             /\ Settling(c) /\ ~Settling(c)'
             /\ booked[c].phase # "settled"
             /\ booked[c].phase = "held" => booked'[c].phase = "settled"
             /\ booked[c].phase # "held" =>
                  call[c].by = "error" /\ booked'[c].phase = booked[c].phase
<1> DEFINE c == m.call
           q == call[m.call].req
<1>1. Enter(m) /\ Submitted(m)
  BY DEF Commit, CommitUnanswered, TypeInv
<1>2. /\ c \in Calls /\ wire' = wire \ {m} /\ m.actual \in Nat
      /\ booked'[c].phase = IF booked[c].phase = "held" THEN "settled" ELSE booked[c].phase
  BY <1>1, EnterEffect, SubmittedFields
<1>3. OnWire(m, call[c], booked[c]) /\ Tracks(call[c], booked[c])
  BY <1>2 DEF Control
<1>4. /\ call[c].at = "over" /\ call[c].by \in {"cluster", "error"}
      /\ booked[c].phase # "settled" /\ \E a \in Costs : m = SettleReq(c, q, a)
  BY <1>3 DEF OnWire
<1>5. q \in Requests /\ q.run \in Runs /\ q.estimate \in Nat
  BY <1>2, <1>4, RequestsAssumption DEF TypeInv
<1>6. m.run = q.run /\ m.micros = q.estimate
  BY <1>4, <1>5, RequestFields, MicrosOfNat
<1>7. PICK k \in TaskState : BecomesOf(m, k)
  BY CommitTask
<1>8. call'[c] = call[c]
  BY <1>2, <1>4, <1>7 DEF BecomesOf, Waiting, TypeInv
<1>9. Settling(c) /\ ~Settling(c)'
  BY <1>2 DEF Settling, Control
<1>10. booked[c].phase # "held" => call[c].by = "error"
  BY <1>3, <1>4 DEF Tracks
<1> QED BY <1>2, <1>4, <1>5, <1>6, <1>8, <1>9, <1>10

(* What an entry that settles does to the runs and their histories.        *)
LEMMA SettleRuns ==
  ASSUME TypeInv, NEW m \in wire, Commit(m) \/ CommitUnanswered(m), m.op = "settle",
         NEW r \in Runs
  PROVE  /\ machine'[r].open = machine[r].open /\ machine'[r].budget = machine[r].budget
         /\ peak' = peak
         /\ r \in Chain(machine, m.run) =>
              /\ machine'[r].reserved = Monus(machine[r].reserved, m.micros)
              /\ machine'[r].spent = machine[r].spent + m.actual
              /\ overrun'[r] = overrun[r] + Monus(m.actual, m.micros)
         /\ r \notin Chain(machine, m.run) =>
              /\ machine'[r].reserved = machine[r].reserved /\ machine'[r].spent = machine[r].spent
              /\ overrun'[r] = overrun[r]
<1>1. Enter(m) /\ Submitted(m) /\ machine \in Ledgers
  BY DEF Commit, CommitUnanswered, TypeInv
<1>2. /\ machine' = Apply(machine, m) /\ peak' = peak
      /\ overrun' = Abstract!AddAt(overrun, Chain(machine, m.run), Monus(m.actual, m.micros))
  BY <1>1 DEF Enter, Record
<1>3. Settles(machine, machine', m.run, m.micros, m.actual)
  BY <1>1, <1>2, ApplyEffect
<1>4. overrun'[r] = IF r \in Chain(machine, m.run) THEN overrun[r] + Monus(m.actual, m.micros)
                                                   ELSE overrun[r]
  BY <1>2 DEF Abstract!AddAt
<1> QED BY <1>2, <1>3, <1>4 DEF Settles

(* A settle keeps part three: what it releases was held by its call, or    *)
(* counts as lapsed from here on.                                          *)
LEMMA SettleKeepsExposure ==
  ASSUME Mode = "enforce", TypeInv, TypeInv', Control, Control', Exposure,
         NEW m \in wire, Commit(m) \/ CommitUnanswered(m), m.op = "settle"
  PROVE  Exposure'
<1> DEFINE c == m.call
           q == call[m.call].req
<1>1. /\ c \in Calls /\ q \in Requests /\ q.run \in Runs /\ q.estimate \in Nat
      /\ m.run = q.run /\ m.micros = q.estimate /\ m.actual \in Nat
      /\ call'[c] = call[c] /\ call[c].at = "over"
      /\ Settling(c) /\ ~Settling(c)'
      /\ booked[c].phase # "settled"
      /\ booked[c].phase = "held" => booked'[c].phase = "settled"
      /\ booked[c].phase # "held" => call[c].by = "error" /\ booked'[c].phase = booked[c].phase
  BY SettleEntry
<1> SUFFICES ASSUME NEW r \in Runs PROVE Bounds(r)'
  BY DEF Exposure
<1>2. Bounds(r) /\ peak'[r] = peak[r]
  BY SettleRuns DEF Exposure
<1>3. CASE r \notin Chain(machine, q.run)
  BY <1>1, <1>2, <1>3, SettleRuns, UnchargedKeeps
<1>4. CASE r \in Chain(machine, q.run)
  <2>1. /\ machine'[r].reserved = Monus(machine[r].reserved, q.estimate)
        /\ machine'[r].spent = machine[r].spent + m.actual
        /\ overrun'[r] = overrun[r] + Monus(m.actual, q.estimate)
        /\ machine'[r].budget = machine[r].budget /\ machine'[r].open = machine[r].open
        /\ machine[r].open
    BY <1>1, <1>4, SettleRuns, ChainIsOpen DEF Open
  <2>2. Charges(c, r) /\ Charges(c, r)' /\ Micros(q.estimate) = q.estimate
    <3>1. Chain(machine', q.run) = Chain(machine, q.run)
      BY ChargeKeeps, <1>1
    <3> QED BY <1>1, <1>4, <3>1, MicrosOfNat DEF Charges
  <2>3. Lapsed(c, r) = 0 /\ InFlight(c, r)' = 0
    BY <1>1 DEF Lapsed, InFlight
  <2>4. \/ InFlight(c, r) = q.estimate /\ Lapsed(c, r)' = 0
        \/ InFlight(c, r) = 0 /\ Lapsed(c, r)' = q.estimate
    BY <1>1, <2>2 DEF Lapsed, InFlight
  <2>5. PICK f \in Nat, g \in Nat, h \in Nat, x \in Nat :
          /\ f = Total(Flights(r), NumCalls) /\ g = Total(Lapses(r), NumCalls)
          /\ h = Total(Flights(r)', NumCalls) /\ x = Total(Lapses(r)', NumCalls)
    BY SharesNat DEF SharesAt
  <2>6. h = f + InFlight(c, r)' - InFlight(c, r) /\ x = g + Lapsed(c, r)' - Lapsed(c, r)
    BY <1>1, <2>5, ChargeKeeps, TalliesMove
  <2>7. \/ h = f - q.estimate /\ x = g
        \/ h = f /\ x = g + q.estimate
    BY <1>1, <2>3, <2>4, <2>6
  <2>8. PICK R \in Nat, s \in Nat, p \in Nat, v \in Nat, e \in Nat, a \in Nat :
          /\ R = machine[r].reserved /\ s = machine[r].spent /\ p = peak[r] /\ v = overrun[r]
          /\ e = q.estimate /\ a = m.actual
    BY <1>1 DEF TypeInv, Ledgers, RunState
  <2>9. f <= R + g /\ s + f <= p + v + g
    BY <1>2, <2>5, <2>8 DEF Bounds, Covered, Exposed
  <2>10. h <= Monus(R, e) + x /\ s + a + h <= p + (v + Monus(a, e)) + x
    <3>0. Monus(R, e) \in Nat /\ Monus(a, e) \in Nat
      BY <2>8 DEF Monus
    <3>1. PICK u \in Nat, w \in Nat : u = Monus(R, e) /\ w = Monus(a, e)
      BY <3>0
    <3>2. u >= R - e /\ w >= a - e
      BY <3>1 DEF Monus
    <3>3. (h = f - e /\ x = g) \/ (h = f /\ x = g + e)
      BY <2>7, <2>8
    <3>4. h <= u + x /\ s + a + h <= p + (v + w) + x
      <4>1. CASE h = f - e /\ x = g
        BY <2>9, <3>2, <4>1
      <4>2. CASE h = f /\ x = g + e
        BY <2>9, <3>2, <4>2
      <4> QED BY <3>3, <4>1, <4>2
    <3> QED BY <3>1, <3>4
  <2>11. Covered(r)' /\ Exposed(r)'
    BY <1>2, <2>1, <2>5, <2>8, <2>10 DEF Covered, Exposed
  <2> QED BY <1>2, <2>1, <2>11 DEF Bounds
<1> QED BY <1>3, <1>4

-----------------------------------------------------------------------------
(* Nothing is in flight, spent or reserved at first.                       *)
LEMMA ExposureInit == Init /\ TypeInv => Exposure
<1> SUFFICES ASSUME Init, TypeInv, NEW r \in Runs PROVE Bounds(r)
  BY DEF Exposure
<1>1. /\ ~machine[r].open /\ machine[r].reserved = 0 /\ machine[r].spent = 0
      /\ machine[r].budget = 0 /\ peak[r] = 0 /\ overrun[r] = 0
  BY DEF Init, EmptyLedger, Closed
<1>2. \A c \in Calls : InFlight(c, r) = 0 /\ Lapsed(c, r) = 0
  BY DEF Init, IdleCall, InFlight, Lapsed, Charges
<1>3. /\ Flights(r) \in [1 .. NumCalls -> Nat] /\ Lapses(r) \in [1 .. NumCalls -> Nat]
      /\ \A d \in 1 .. NumCalls : Flights(r)[d] = 0 /\ Lapses(r)[d] = 0
  BY <1>2, SharesNow DEF SharesAt, Calls
<1>4. Total(Flights(r), NumCalls) = 0 /\ Total(Lapses(r), NumCalls) = 0
  BY <1>3, TotalZero, NumCallsAssumption
<1> QED BY <1>1, <1>4 DEF Bounds, Covered, Exposed

(* Elections, the nodes' pace and reads change no run and no call.         *)
LEMMA IdleKeepsExposure ==
  ASSUME TypeInv, TypeInv', Exposure, UNCHANGED <<machine, wire, call, booked, peak, overrun>>
  PROVE  Exposure'
<1> SUFFICES ASSUME NEW r \in Runs PROVE Bounds(r)'
  BY DEF Exposure
<1>1. \A d \in Calls : InFlight(d, r)' = InFlight(d, r) /\ Lapsed(d, r)' = Lapsed(d, r)
  BY UntouchedKeeps DEF Settling
<1>2. \A d \in Calls : InFlight(d, r) \in Nat /\ Lapsed(d, r) \in Nat
  BY SharesNat DEF SharesAt
<1>3. NoHigher(r)
  <2> SUFFICES ASSUME NEW d \in Calls
               PROVE  InFlight(d, r)' + Lapsed(d, r) <= InFlight(d, r) + Lapsed(d, r)'
    BY DEF NoHigher
  <2> QED BY <1>1, <1>2
<1>4. Bounds(r) /\ machine[r].budget <= peak[r] /\ machine[r].spent \in Nat /\ peak[r] \in Nat
  BY DEF Exposure, Bounds, TypeInv, Ledgers, RunState
<1> QED BY <1>3, <1>4, NoHigherKeepsBounds

(* Every step keeps part three.                                            *)
LEMMA ExposureNext ==
  ASSUME Mode = "enforce", TypeInv, TypeInv', Control, Control', Exposure,
         ParentsOpen(machine), [Next]_vars
  PROVE  Exposure'
<1>1. CASE \/ UNCHANGED vars
           \/ \E n \in Nodes \cup {NoNode} : Elect(n)
           \/ \E n \in Nodes : CatchUp(n) \/ BeginRead(n) \/ EndRead(n)
  <2>1. UNCHANGED <<machine, wire, call, booked, peak, overrun>>
    BY <1>1 DEF vars, Elect, CatchUp, BeginRead, EndRead
  <2> QED BY <2>1, IdleKeepsExposure
<1>2. ASSUME NEW c \in Calls, (\E q \in Requests : Begin(c, q)) \/ Task(c) \/ SubmitFails(c)
      PROVE  Exposure'
  BY <1>2, QuietKeepsExposure
<1>3. ASSUME NEW m \in wire, Lose(m) PROVE Exposure'
  <2>1. m.call \in Calls
    BY SubmittedFields DEF TypeInv
  <2> QED BY <1>3, <2>1, QuietKeepsExposure
<1>4. ASSUME NEW m \in wire, Commit(m) \/ CommitUnanswered(m) PROVE Exposure'
  <2>1. m.op \in {"open", "reserve", "settle"}
    BY SubmittedFields DEF TypeInv
  <2>2. CASE m.op = "open"
    BY <1>4, <2>2, OpenKeepsExposure
  <2>3. CASE m.op = "reserve" /\ Accepted(machine, m)
    BY <1>4, <2>3, GrantKeepsExposure
  <2>4. CASE m.op = "reserve" /\ ~Accepted(machine, m)
    BY <1>4, <2>4, RefusalKeepsExposure
  <2>5. CASE m.op = "settle"
    BY <1>4, <2>5, SettleKeepsExposure
  <2> QED BY <2>1, <2>2, <2>3, <2>4, <2>5
<1> QED BY <1>1, <1>2, <1>3, <1>4 DEF Next

(* What lapsed failed open: the exposure is within the run's bound.        *)
LEMMA ExposureBounds ==
  ASSUME TypeInv, Exposure
  PROVE  ExposureBounded
<1> SUFFICES ASSUME NEW r \in Runs
             PROVE  machine[r].spent + Total([c \in Calls |-> InFlight(c, r)], NumCalls)
                      <= peak[r] + overrun[r] + Total([c \in Calls |-> FailedOpen(c, r)], NumCalls)
  BY DEF ExposureBounded
<1> DEFINE F == [c \in Calls |-> FailedOpen(c, r)]
<1>1. /\ Lapses(r) \in [1 .. NumCalls -> Nat] /\ \A d \in Calls : Lapses(r)[d] = Lapsed(d, r)
      /\ Total(Flights(r), NumCalls) \in Nat /\ Total(Lapses(r), NumCalls) \in Nat
  BY SharesNow DEF SharesAt
<1>2. \A d \in Calls : Charges(d, r) => Micros(call[d].req.estimate) \in Nat
  BY RequestsAssumption DEF TypeInv, Charges, Micros
<1>3. \A d \in Calls : FailedOpen(d, r) \in Nat /\ Lapsed(d, r) <= FailedOpen(d, r)
  BY <1>2 DEF FailedOpen, Lapsed
<1>4. /\ F \in [1 .. NumCalls -> Nat]
      /\ \A d \in 1 .. NumCalls : Lapses(r)[d] <= F[d]
  BY <1>1, <1>3 DEF Calls
<1> HIDE DEF F
<1>5. \A d \in 1 .. NumCalls : Lapses(r)[d] + F[d] <= F[d] + F[d]
  BY <1>1, <1>4
<1>6. Total(Lapses(r), NumCalls) + Total(F, NumCalls) <= Total(F, NumCalls) + Total(F, NumCalls)
  BY <1>1, <1>4, <1>5, TotalShift, NumCallsAssumption
<1>7. Total(F, NumCalls) \in Nat
  BY <1>4, TotalNat, NumCallsAssumption
<1>8. machine[r].spent \in Nat /\ peak[r] \in Nat /\ overrun[r] \in Nat
  BY DEF TypeInv, Ledgers, RunState
<1>9. machine[r].spent + Total(Flights(r), NumCalls)
        <= peak[r] + overrun[r] + Total(Lapses(r), NumCalls)
  BY DEF Exposure, Bounds, Exposed
<1>10. machine[r].spent + Total(Flights(r), NumCalls) <= peak[r] + overrun[r] + Total(F, NumCalls)
  <2>1. PICK f \in Nat, g \in Nat, x \in Nat :
          /\ f = Total(Flights(r), NumCalls) /\ g = Total(Lapses(r), NumCalls)
          /\ x = Total(F, NumCalls)
    BY <1>1, <1>7
  <2>2. g <= x
    BY <1>6, <2>1
  <2> QED BY <1>8, <1>9, <2>1, <2>2
<1> QED BY <1>10 DEF F, Flights

(* The parent an entry names is in the state machine before it.            *)
ParentsFirst == []ParentsOpen(machine)

(* raft_ledger.rs: reserve fails open and settles are spawned whatever     *)
(* became of the reserve.  However requests and answers are lost or late,  *)
(* and however leaders change, what a run has spent and has in flight      *)
(* stays within its highest budget, the overruns of its calls, and the     *)
(* estimates of the calls that were let through without an answer.         *)
THEOREM OutageBounded == Spec /\ ParentsFirst => []ExposureBounded
<1>1. CASE Mode = "enforce"
  <2>1. Init /\ TypeInv => Exposure
    BY ExposureInit
  <2>2. /\ TypeInv /\ TypeInv' /\ Control /\ Control' /\ Exposure
        /\ ParentsOpen(machine) /\ [Next]_vars
        => Exposure'
    BY <1>1, ExposureNext
  <2>3. TypeInv /\ Exposure => ExposureBounded
    BY ExposureBounds
  <2>4. Spec => [](TypeInv /\ Control /\ Answered)
    BY <1>1, ControlAlways
  <2> QED BY <2>1, <2>2, <2>3, <2>4, PTL DEF Spec, ParentsFirst
<1>2. CASE Mode # "enforce"
  <2>1. ExposureBounded
    BY <1>2 DEF ExposureBounded
  <2> QED BY <2>1, PTL
<1> QED BY <1>1, <1>2
(* The whole of what an outage may do: the replicated counters stay        *)
(* natural numbers although settles release what was never reserved, and   *)
(* no run overspends by more than was let through.                         *)
THEOREM OutageIsContained == Spec /\ ParentsFirst => []OutageContained
BY ClusterTypeCorrect, OutageBounded, PTL DEF OutageContained
=============================================================================
