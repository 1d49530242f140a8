----------------------------- MODULE RaftLedger -----------------------------
(***************************************************************************)
(* The replicated budget ledger: the state machine of                      *)
(* crates/cluster/src/types.rs behind the gateway's raft backend           *)
(* (crates/gateway/src/raft_ledger.rs, cluster/src/server.rs).             *)
(*                                                                         *)
(* open_run, reserve and settle become log entries.  Consensus itself is   *)
(* openraft's: here it is one committed log, which every node applies in   *)
(* order and at its own pace.  What the code adds is how a gateway submits *)
(* a request and what it does without an answer: an error may mean that    *)
(* the request was lost, that it was committed and the answer lost, or     *)
(* that it is still on its way.                                            *)
(***************************************************************************)
EXTENDS LedgerOps

CONSTANTS
  Nodes,      \* cluster members; each is co-located with a gateway
  NumCalls,   \* calls in the behaviour
  Requests,   \* what a call may carry: [run, parent, budget, estimate]
  Costs,      \* actual costs
  Mode,       \* Policy.mode: "enforce", or "shadow" (shadow and warn)
  Faults,     \* TRUE: requests and answers may be lost or late
  Reads,      \* FALSE: leave out the nodes' pace and the reads, which change nothing else
  NoNode      \* no leader

ASSUME NumCallsAssumption == NumCalls \in Nat
ASSUME RequestsAssumption ==
  Requests \subseteq [run : Runs, parent : Runs \cup {NoRun}, budget : Int, estimate : Nat]
ASSUME CostsAssumption == Costs \subseteq Nat
ASSUME ModeAssumption == Mode \in {"enforce", "shadow"}
ASSUME FaultsAssumption == Faults \in BOOLEAN /\ Reads \in BOOLEAN
ASSUME NoNodeAssumption == NoNode \notin Nodes

Calls == 1 .. NumCalls

VARIABLES
  last,     \* index of the last committed log entry
  machine,  \* the state machine after every committed entry
  applied,  \* how much of the log each node has applied
  leader,   \* the elected leader, or NoNode
  wire,     \* requests submitted and neither committed nor lost
  call,     \* each call's gateway task
  read,     \* each node's linearizable read
  booked,   \* history: each call as the state machine saw it
  peak,     \* history: the highest budget each run ever had
  overrun   \* history: actual cost above estimates, per run

vars == <<last, machine, applied, leader, wire, call, read, booked, peak, overrun>>
cluster == <<applied, leader, read>>

(* The in-process ledger this one stands in for.                           *)
Abstract == INSTANCE Ledger WITH
  ledger <- machine, call <- booked,
  Budgets <- {q.budget : q \in Requests} \cup {0},
  Amounts <- {q.estimate : q \in Requests} \cup Costs,
  ParentsFirst <- FALSE

-----------------------------------------------------------------------------
(* The requests; amounts and budgets are clamped at zero on their way into *)
(* the log.                                                                *)
Micros(a) == IF a > 0 THEN a ELSE 0

OpenReq(c, q) ==
  [op |-> "open", call |-> c, run |-> q.run, parent |-> q.parent, budget |-> Micros(q.budget)]

ReserveReq(c, q) == [op |-> "reserve", call |-> c, run |-> q.run, micros |-> Micros(q.estimate)]

SettleReq(c, q, actual) ==
  [op |-> "settle", call |-> c, run |-> q.run, micros |-> Micros(q.estimate),
   actual |-> Micros(actual)]

\* Mutant of Accepted: each level is judged without the reservations in flight.
AcceptedBlind(L, m) ==
  m.op = "reserve" =>
    L[m.run].open /\ \A r \in Chain(L, m.run) : L[r].spent + m.micros <= L[r].budget

Accepted(L, m) == m.op = "reserve" => CanReserve(L, m.run, m.micros)

(* LedgerState::apply.                                                     *)
Apply(L, m) ==
  CASE m.op = "open" -> OpenRun(L, m.run, m.budget, m.parent)
    [] m.op = "reserve" ->
         IF Accepted(L, m) THEN Reserve(L, m.run, m.micros) ELSE L
    [] m.op = "settle" -> Settle(L, m.run, m.micros, m.actual)

-----------------------------------------------------------------------------
NoRequest == [run |-> NoRun, parent |-> NoRun, budget |-> 0, estimate |-> 0]

(* ack is how much of the log a gateway knows to be committed; by tells    *)
(* how the call came to its reservation: the cluster granted it, refused   *)
(* it (and the shadow mode went on), or gave no answer.                    *)
IdleCall == [at |-> "idle", req |-> NoRequest, by |-> "none", ack |-> 0]

IdleRead == [busy |-> FALSE, mark |-> 0, seen |-> 0]

Init ==
  /\ last = 0
  /\ machine = EmptyLedger
  /\ applied = [n \in Nodes |-> 0]
  /\ leader = NoNode
  /\ wire = {}
  /\ call = [c \in Calls |-> IdleCall]
  /\ read = [n \in Nodes |-> IdleRead]
  /\ booked = [c \in Calls |-> Abstract!IdleCall]
  /\ peak = [r \in Runs |-> 0]
  /\ overrun = [r \in Runs |-> 0]

(* Elections and the nodes' pace are openraft's.                           *)
Elect(n) ==
  /\ leader # n
  /\ leader' = n
  /\ UNCHANGED <<last, machine, applied, wire, call, read, booked, peak, overrun>>

CatchUp(n) ==
  /\ Reads /\ applied[n] < last
  /\ applied' = [applied EXCEPT ![n] = @ + 1]
  /\ UNCHANGED <<last, machine, leader, wire, call, read, booked, peak, overrun>>

-----------------------------------------------------------------------------
(* A gateway (any: a follower's forwards to the leader): open_run, reserve,*)
(* the provider, settle.                                                   *)
Begin(c, q) ==
  /\ call[c].at = "idle"
  /\ call' = [call EXCEPT ![c] = [IdleCall EXCEPT !.at = "open", !.req = q]]
  /\ wire' = wire \cup {OpenReq(c, q)}
  /\ UNCHANGED <<cluster, last, machine, booked, peak, overrun>>

(* The handler goes from open_run's answer to reserve or reserve_unchecked:*)
(* both submit the same checked Reserve.                                   *)
Submit(c) ==
  /\ call[c].at = "opened"
  /\ call' = [call EXCEPT ![c].at = "reserve"]
  /\ wire' = wire \cup {ReserveReq(c, call[c].req)}
  /\ UNCHANGED <<cluster, last, machine, booked, peak, overrun>>

\* Mutant of SpawnSettle: an overrun is not settled.
SpawnSettleLazy(c, actual) ==
  /\ call[c].at = "serve"
  /\ call' = [call EXCEPT ![c].at = "over"]
  /\ wire' = IF actual > call[c].req.estimate THEN wire ELSE wire \cup {SettleReq(c, call[c].req, actual)}
  /\ UNCHANGED <<cluster, last, machine, booked, peak, overrun>>

(* settle is spawned, and nobody waits for it.                             *)
SpawnSettle(c, actual) ==
  /\ call[c].at = "serve"
  /\ call' = [call EXCEPT ![c].at = "over"]
  /\ wire' = wire \cup {SettleReq(c, call[c].req, actual)}
  /\ UNCHANGED <<cluster, last, machine, booked, peak, overrun>>

(* What the task does with an answer, or with an error in its place:       *)
(* open_run only warns, reserve fails open, reserve_unchecked goes on      *)
(* whatever it is told.                                                    *)
Waiting(c, m) == call[c].at = m.op /\ m.call = c

Index == IF Reads THEN last + 1 ELSE 0   \* of the entry being committed

Told(k, accepted) ==
  [at |-> IF k.at = "open" THEN "opened"
          ELSE IF accepted \/ Mode = "shadow" THEN "serve" ELSE "over",
   req |-> k.req,
   by |-> IF k.at = "open" THEN k.by ELSE IF accepted THEN "cluster" ELSE "refused",
   ack |-> Index]

Failed(k) ==
  [k EXCEPT !.at = IF k.at = "open" THEN "opened" ELSE "serve",
            !.by = IF k.at = "open" THEN k.by ELSE "error"]

(* The histories: what an in-process ledger's caller would have seen.      *)
BookedAfter(m) ==
  LET c == m.call
  IN  CASE m.op = "open" -> booked
        [] m.op = "reserve" ->
             [booked EXCEPT ![c] =
                IF Accepted(machine, m)
                THEN Abstract!HeldCall(m.run, m.micros, machine[m.run].steps + 1,
                                       Chain(machine, m.run))
                ELSE Abstract!RefusedCall(m.run, m.micros,
                       IF machine[m.run].open THEN BlockedAt(machine, m.run, m.micros)
                       ELSE NoRun)]
        [] m.op = "settle" ->
             [booked EXCEPT ![c] =
                IF @.phase = "held" THEN Abstract!SettledCall(@, m.actual) ELSE @]

Record(m) ==
  /\ booked' = BookedAfter(m)
  /\ peak' = IF m.op = "open" THEN Abstract!Raise(peak, m.run, m.budget) ELSE peak
  /\ overrun' = IF m.op = "settle"
                THEN Abstract!AddAt(overrun, Chain(machine, m.run), Monus(m.actual, m.micros))
                ELSE overrun

Enter(m) ==
  /\ leader # NoNode /\ m \in wire
  /\ last' = last + 1
  /\ machine' = Apply(machine, m)
  /\ wire' = wire \ {m}
  /\ Record(m)
  /\ UNCHANGED <<applied, leader, read>>

(* client_write, local or forwarded to the leader, commits and answers     *)
(* whoever still waits.                                                    *)
Commit(m) ==
  /\ Enter(m)
  /\ call' = [call EXCEPT ![m.call] = IF Waiting(m.call, m) THEN Told(@, Accepted(machine, m)) ELSE @]

(* It commits, and the answer is lost: the leader stepped down, or the     *)
(* connection to it broke.                                                 *)
CommitUnanswered(m) ==
  /\ Faults
  /\ Waiting(m.call, m)
  /\ Enter(m)
  /\ call' = [call EXCEPT ![m.call] = Failed(@)]

(* submit returns an error; the request may still be on its way.           *)
SubmitFails(c) ==
  /\ Faults
  /\ call[c].at \in {"open", "reserve"}
  /\ call' = [call EXCEPT ![c] = Failed(@)]
  /\ UNCHANGED <<cluster, last, machine, wire, booked, peak, overrun>>

(* A request is lost: nobody answers it.                                   *)
Lose(m) ==
  /\ Faults
  /\ m \in wire
  /\ wire' = wire \ {m}
  /\ call' = [call EXCEPT ![m.call] = IF Waiting(m.call, m) THEN Failed(@) ELSE @]
  /\ UNCHANGED <<cluster, last, machine, booked, peak, overrun>>

-----------------------------------------------------------------------------
(* read_run_linearizable: the leader confirms its leadership and waits     *)
(* until it has applied what was committed; a follower forwards.           *)
BeginRead(n) ==
  /\ Reads /\ ~read[n].busy /\ leader # NoNode
  /\ read' = [read EXCEPT ![n] = [busy |-> TRUE, mark |-> last, seen |-> 0]]
  /\ UNCHANGED <<last, machine, applied, leader, wire, call, booked, peak, overrun>>

\* Mutant of EndRead: the local replica answers, as in read_run.
EndReadLocal(n) ==
  /\ read[n].busy
  /\ read' = [read EXCEPT ![n] = [@ EXCEPT !.busy = FALSE, !.seen = applied[n]]]
  /\ UNCHANGED <<last, machine, applied, leader, wire, call, booked, peak, overrun>>

EndRead(n) ==
  /\ read[n].busy /\ leader # NoNode
  /\ applied[leader] >= read[n].mark
  /\ read' = [read EXCEPT ![n] = [@ EXCEPT !.busy = FALSE, !.seen = applied[leader]]]
  /\ UNCHANGED <<last, machine, applied, leader, wire, call, booked, peak, overrun>>

Task(c) == Submit(c) \/ \E a \in Costs : SpawnSettle(c, a)

Next ==
  \/ \E n \in Nodes \cup {NoNode} : Elect(n)
  \/ \E n \in Nodes : CatchUp(n) \/ BeginRead(n) \/ EndRead(n)
  \/ \E c \in Calls :
       \/ \E q \in Requests : Begin(c, q)
       \/ Task(c)
       \/ SubmitFails(c)
  \/ \E m \in wire : Commit(m) \/ CommitUnanswered(m) \/ Lose(m)

Spec == Init /\ [][Next]_vars

(* Gateways take their steps; the cluster keeps electing leaders for long  *)
(* enough to commit what it is sent.                                       *)
FairSpec ==
  /\ Spec
  /\ \A c \in Calls : WF_vars(Task(c)) /\ SF_vars(\E m \in wire : m.call = c /\ Commit(m))
  /\ WF_vars(leader = NoNode /\ \E n \in Nodes : Elect(n))

-----------------------------------------------------------------------------
(* Log, state machine, tasks and reads stay within their types.            *)
TypeOK ==
  /\ machine \in Ledgers
  /\ applied \in [Nodes -> 0 .. last]
  /\ leader \in Nodes \cup {NoNode}
  /\ \A c \in Calls :
       /\ call[c].at \in {"idle", "open", "opened", "reserve", "serve", "over"}
       /\ call[c].by \in {"none", "cluster", "refused", "error"}
       /\ booked[c] \in Abstract!CallState
  /\ \A n \in Nodes : read[n].seen \in 0 .. last

(* types.rs: two calls racing through different gateways never both slip   *)
(* past a ceiling.  However requests interleave and leaders change, a      *)
(* cluster that answers behaves as one in-process ledger would.            *)
ImplementsLedger == Abstract!Spec

(* Levels of c's run, counted as the ledger counts them.                   *)
Charges(c, r) == call[c].at # "idle" /\ r \in Chain(machine, call[c].req.run)

InFlight(c, r) ==
  IF Charges(c, r) /\ (call[c].at = "serve" \/ booked[c].phase = "held")
  THEN Micros(call[c].req.estimate) ELSE 0

FailedOpen(c, r) ==
  IF Charges(c, r) /\ call[c].by = "error" THEN Micros(call[c].req.estimate) ELSE 0

(* A cluster outage costs no more than what was let through during it: the *)
(* money a run has spent plus the estimates of the calls in flight that    *)
(* are charged to it stay within its highest budget, overruns, and the     *)
(* estimates of the calls whose reserve failed open, although those calls' *)
(* settles release reservations they never made.                           *)
ExposureBounded ==
  Mode = "enforce" =>
    \A r \in Runs :
      machine[r].spent + Total([c \in Calls |-> InFlight(c, r)], NumCalls)
        <= peak[r] + overrun[r] + Total([c \in Calls |-> FailedOpen(c, r)], NumCalls)

(* What an outage may do to the ledger: no counter goes negative, and no   *)
(* run overspends by more than was let through.                            *)
OutageContained == TypeOK /\ ExposureBounded

(* A linearizable read reflects every write that was acknowledged, to any  *)
(* gateway, before the read began.                                         *)
ReadStep ==
  \A n \in Nodes :
    /\ \A c \in Calls : ~read[n].busy /\ read'[n].busy => read'[n].mark >= call[c].ack
    /\ ~read'[n].busy => read'[n].seen >= read'[n].mark

(* With a cluster that answers, the headroom of every call that was        *)
(* granted comes back, although nobody waits for the settle.               *)
SettlesLand ==
  \A c \in Calls : booked[c].phase = "held" ~> booked[c].phase = "settled"
=============================================================================
