----------------------------- MODULE MCProgress -----------------------------
(* What must eventually happen, and the replicated ledger against the      *)
(* in-process one: instances of the replicated ledger, the request path,   *)
(* the cluster's routing, the control plane's autosave, the pollers and    *)
(* the push pipeline.  A behaviour runs one part, chosen at the start;     *)
(* every part has variables of its own, which the others leave alone, and  *)
(* the fairness of its own module.                                         *)
EXTENDS RaftLedger

CONSTANTS
  Parts,                                    \* the parts to run
  r1, r2, n1, n2, g1, h1, h2, eng,
  NoOverride, Uncapped, NoUnit, NoToken, secret, Partial, Absent, NoEvent

VARIABLES
  part,
  q1, q2, q3, q4, q5,                             \* the request path
  c1, c2, c3, c4, c5, c6, c7, c8, c9,             \* routing
  d1, d2, d3, d4, d5, d6, d7, d8,                 \* autosave
  k1, k2, k3, k4, k5, k6,                         \* pollers
  p1, p2, p3, p4, p5, p6, p7, p8, p9, p10, p11    \* push, with either bus

-----------------------------------------------------------------------------
(* A run and its sub-agent's through a cluster that answers.               *)
Request(run, parent, budget, estimate) ==
  [run |-> run, parent |-> parent, budget |-> budget, estimate |-> estimate]

TreeRequests == {Request(r1, NoRun, 3, 2), Request(r2, r1, 2, 1)}

(* Two calls of one run in shadow mode; clients leave in mid-stream.       *)
ShadowRequest(stream, estimate) ==
  [run |-> r1, parent |-> NoRun, budget |-> 3, unit |-> NoUnit, stream |-> stream, estimate |-> estimate]

Shadow == INSTANCE RequestPath WITH
  Units <- {eng}, BaseCap <- [u \in {eng} |-> 3], NumCalls <- 2,
  Requests <- {ShadowRequest(TRUE, 2), ShadowRequest(FALSE, 1)}, Costs <- {1}, Mode <- "shadow", MaxSteps <- 1,
  OverrideBudgets <- {}, Disconnects <- "midstream",
  ledger <- q1, unit <- q2, killed <- q3, overrides <- q4, call <- q5

(* Two nodes, one of which has no token and starts with --init.            *)
Routing == INSTANCE ClusterRouting WITH
  Nodes <- {n1, n2}, PeersOf <- [n \in {n1, n2} |-> {n1, n2}], TokenOf <- [n \in {n1, n2} |-> IF n = n2 THEN NoToken ELSE secret],
  InitFlag <- n2, MaxTerm <- 3,
  inited <- c1, joined <- c2, voters <- c3, leader <- c4, term <- c5, view <- c6, booting <- c7, task <- c8,
  commits <- c9

-----------------------------------------------------------------------------
(* Saves that succeed, and a crash.                                        *)
Autosave == INSTANCE CloudPersist WITH
  Runs <- {r1}, Amounts <- {1}, MaxMutations <- 2, MaxFailures <- 0, MaxCrashes <- 1,
  mem <- d1, dirty <- d2, saver <- d3, tmp <- d4, file <- d5, up <- d6, failures <- d7, crashes <- d8

(* One gateway with an identity map, a poll that fails or a crash.         *)
Polled == INSTANCE CloudPollers WITH
  Gateways <- {g1}, Runs <- {r1}, Units <- {eng}, Budgets <- {1, 2}, IdentityOn <- {g1}, MaxChanges <- 2,
  MaxFaults <- 1,
  plane <- k1, snapshot <- k2, gateway <- k3, pending <- k4, changes <- k5, faults <- k6

(* A bus that holds all events, and one that holds only one.               *)
Wide == INSTANCE CloudPush WITH
  Runs <- {r1}, Handlers <- {h1, h2}, BusCapacity <- 3, DedupWindow <- 2, AlertAt <- 2, MaxSpend <- 3,
  MaxEvents <- 3, MaxNow <- 4,
  spent <- p1, killed <- p2, pending <- p3, bus <- p4, worker <- p5, client <- p6, lastSent <- p7, notified <- p8,
  pushes <- p9, activity <- p10, now <- p11

Narrow == INSTANCE CloudPush WITH
  Runs <- {r1}, Handlers <- {h1, h2}, BusCapacity <- 1, DedupWindow <- 2, AlertAt <- 2, MaxSpend <- 3,
  MaxEvents <- 3, MaxNow <- 3,
  spent <- p1, killed <- p2, pending <- p3, bus <- p4, worker <- p5, client <- p6, lastSent <- p7, notified <- p8,
  pushes <- p9, activity <- p10, now <- p11

ASSUME Routing!RoutingConstants

-----------------------------------------------------------------------------
qs == <<q1, q2, q3, q4, q5>>
cs == <<c1, c2, c3, c4, c5, c6, c7, c8, c9>>
ds == <<d1, d2, d3, d4, d5, d6, d7, d8>>
ks == <<k1, k2, k3, k4, k5, k6>>
ps == <<p1, p2, p3, p4, p5, p6, p7, p8, p9, p10, p11>>
mcvars == <<part, vars, qs, cs, ds, ks, ps>>

MCInit ==
  /\ part \in Parts
  /\ Init /\ Shadow!Init /\ Routing!Init /\ Autosave!Init /\ Polled!Init /\ Wide!Init

Others(own) ==
  /\ own # "cluster" => UNCHANGED vars
  /\ own # "shadow" => UNCHANGED qs
  /\ own # "routing" => UNCHANGED cs
  /\ own # "autosave" => UNCHANGED ds
  /\ own # "pollers" => UNCHANGED ks
  /\ own \notin {"push", "stream"} => UNCHANGED ps

MCNext ==
  /\ UNCHANGED part
  /\ \/ part = "cluster" /\ Next
     \/ part = "shadow" /\ Shadow!Next
     \/ part = "routing" /\ Routing!Next
     \/ part = "autosave" /\ Autosave!Next
     \/ part = "pollers" /\ Polled!Next
     \/ part = "push" /\ Wide!Next
     \/ part = "stream" /\ Narrow!Next
  /\ Others(part)

(* The fairness of the part that runs.  Parts never mix, so one condition   *)
(* on a disjunction over the parts stands for one condition in each.       *)
FairStep(i) ==
  /\ UNCHANGED part
  /\ \/ part = "cluster" /\ \/ i \in Calls /\ Task(i)
                            \/ i = 4 /\ leader = NoNode /\ \E n \in Nodes : Elect(n)
     \/ part = "shadow" /\ \/ i <= 2 /\ Shadow!Gates(i)
                           \/ i > 2 /\ ~Shadow!At(i - 2, "idle") /\ Shadow!Serves(i - 2)
     \/ part = "routing" /\ \/ i = 1 /\ Routing!Serve
                            \/ i = 2 /\ Routing!ServeInit
     \/ part = "autosave" /\ \/ i = 1 /\ Autosave!Save
                             \/ i = 2 /\ Autosave!Start
     \/ part = "pollers" /\ i <= 3 /\ LET p == <<"kills", "budgets", "units">>[i]
                                      IN  Polled!Poll(g1, p) \/ Polled!Apply(g1, p)
     \/ part = "push" /\ \/ i = 1 /\ Wide!Receive
                         \/ i = 2 /\ Wide!Send(h1)
                         \/ i = 3 /\ Wide!Send(h2)
     \/ part = "stream" /\ \/ i = 1 /\ Narrow!Receive
                           \/ i = 2 /\ Narrow!Send(h1)
                           \/ i = 3 /\ Narrow!Send(h2)
                           \/ i = 4 /\ Narrow!StreamNext
  /\ Others(part)

CommitOf(c) ==
  UNCHANGED part /\ part = "cluster" /\ (\E m \in wire : m.call = c /\ Commit(m)) /\ Others(part)

MCFairness ==
  /\ \A i \in 1 .. 4 : WF_mcvars(FairStep(i))
  /\ \A c \in Calls : SF_mcvars(CommitOf(c))

MCSpec == MCInit /\ [][MCNext]_mcvars /\ MCFairness

-----------------------------------------------------------------------------
(* proxy.rs, settle.rs: in shadow mode, where no budget stops a call, each *)
(* reservation is accounted for, every one is released, and clients that   *)
(* leave in mid-stream strand none.                                        *)
ReservationsReleased ==
  /\ [](part = "shadow" => Shadow!HeadroomAccounted /\ Shadow!NothingStranded)
  /\ Shadow!ReservationsReleased

(* raft_ledger.rs, server.rs: a settle that was spawned lands, and reads   *)
(* that are forwarded are answered.                                        *)
ClusterAnswers == SettlesLand /\ Routing!ReadsAnswered

(* main.rs, cloudsink.rs, push.rs, http.rs: an operator's change reaches   *)
(* the file, kills and budgets reach every gateway, kills and runs at      *)
(* their threshold are announced, once per run, reason and window, and a   *)
(* subscriber that lagged gets to the newest event.                        *)
ChangesArrive ==
  /\ Autosave!ChangesAreSaved
  /\ Polled!KillsReachGateways /\ Polled!BudgetsConverge
  /\ [](part = "push" => Wide!OneAlertPerWindow)
  /\ part = "push" => Wide!BudgetAlertsPushed /\ Wide!KillsPushed
  /\ part = "stream" => Narrow!StreamCatchesUp

(* push.rs, run: "process events until it closes": kills are announced     *)
(* when a burst of events is larger than the bus, too.                     *)
LaggedKillsPushed == part = "stream" => Narrow!KillsPushed
=============================================================================
