----------------------------- MODULE MCCluster -----------------------------
(* Instances of a cluster: the replicated ledger, a node's storage, the    *)
(* routing of requests and the event file (ClusterParts), each on          *)
(* variables of its own; and on the slots s1, s2, ... a longer raft log,   *)
(* reads of the ledger, an event file with torn lines and the audit trail. *)
(* A behaviour runs one part, chosen at the start.                         *)
EXTENDS ClusterParts

CONSTANTS
  Parts,                          \* the parts to run
  r1, n1, n2, n3,                 \* a run and the nodes
  secret,                         \* the cluster token
  e1, e2                          \* emitters

VARIABLES part, s1, s2, s3, s4, s5, s6, s7, s8, s9, s10

-----------------------------------------------------------------------------
(* Three calls through a gateway whose cluster loses requests and answers. *)
Request(budget, estimate) == [run |-> r1, parent |-> NoRun, budget |-> budget, estimate |-> estimate]

OutageRequests == {Request(2, 1)}

(* Three nodes; the third joins unknown to the founders, has no token and  *)
(* starts with --init.                                                     *)
ThreePeers == [n \in {n1, n2, n3} |-> IF n = n3 THEN {n1, n2, n3} ELSE {n1, n2}]
OneWithoutToken == [n \in {n1, n2, n3} |-> IF n = n3 THEN NoToken ELSE secret]

-----------------------------------------------------------------------------
(* A longer log, without changes of membership.                            *)
LongLog == INSTANCE RaftStorage WITH
  Members <- {}, MaxIndex <- 3, MaxCrashes <- 1,
  disk <- s1, mem <- s2, phase <- s3, core <- s4, worker <- s5, chosen <- s6, counted <- s7, told <- s8,
  crashes <- s9

(* One call, and reads at two nodes of which each may be the leader.       *)
Readers == INSTANCE RaftLedger WITH
  Runs <- {r1}, MaxChainDepth <- 2, Nodes <- {n1, n2}, NumCalls <- 1, Requests <- {Request(-1, 1), Request(2, 1)},
  Costs <- {1}, Mode <- "enforce", Faults <- TRUE, Reads <- TRUE,
  last <- s1, machine <- s2, applied <- s3, leader <- s4, wire <- s5, call <- s6, read <- s7, booked <- s8,
  peak <- s9, overrun <- s10

(* Failures that write a part of a line.                                   *)
Broken == INSTANCE EventLog WITH
  Tears <- TRUE, Runs <- TraceRuns, Times <- {1, 2}, MaxEvents <- 3,
  file <- s1, open <- s2, sink <- s3, held <- s4, written <- s5, precedes <- s6, skipped <- s7,
  built <- s8, failures <- s9

(* A text and one that holds the separator: they join alike either way     *)
(* round, unless the fields are sanitized.                                 *)
Trail == INSTANCE AuditChain WITH
  Sep <- "SEP", Ctl <- "CTL", Replacement <- "R", Texts <- {<<"x">>, <<"x", "SEP", "x">>},
  Actors <- {<<"k">>}, MaxEntries <- 2, MaxEdits <- 2,
  chain <- s1, copy <- s2, manifests <- s3, edits <- s4

ASSUME Routing!RoutingConstants /\ Log!EventLogConstants /\ Broken!EventLogConstants

-----------------------------------------------------------------------------
(* The slots from the n-th on, which a part with n - 1 variables leaves 0.  *)
From9 == <<s9, s10>>
From5 == <<s5, s6, s7, s8, From9>>
Slots == <<s1, s2, s3, s4, From5>>

Unused9 == s9 = 0 /\ s10 = 0
Unused5 == s5 = 0 /\ s6 = 0 /\ s7 = 0 /\ s8 = 0 /\ Unused9

DiskVars == <<disk, mem, phase, core, worker, chosen, counted, told, crashes>>
RoutingVars == <<inited, joined, voters, head, term, view, booting, task, commits>>
LogVars == <<file, open, sink, held, written, precedes, skipped, built, failures>>

MCInit ==
  /\ part \in Parts
  /\ Init /\ Disk!Init /\ Routing!Init /\ Log!Init
  /\ CASE part = "log" -> LongLog!Init /\ s10 = 0
       [] part = "reads" -> Readers!Init
       [] part = "torn" -> Broken!Init /\ s10 = 0
       [] part = "audit" -> Trail!Init /\ Unused5
       [] OTHER -> s1 = 0 /\ s2 = 0 /\ s3 = 0 /\ s4 = 0 /\ Unused5

MCNext ==
  /\ UNCHANGED part
  /\ IF part = "outage" THEN Next ELSE UNCHANGED vars
  /\ IF part = "storage" THEN Disk!Next ELSE UNCHANGED DiskVars
  /\ IF part = "routing" THEN Routing!Next ELSE UNCHANGED RoutingVars
  /\ IF part = "events" THEN Log!Next ELSE UNCHANGED LogVars
  /\ CASE part = "log" -> LongLog!Next /\ UNCHANGED s10
       [] part = "reads" -> Readers!Next
       [] part = "torn" -> Broken!Next /\ UNCHANGED s10
       [] part = "audit" -> Trail!Next /\ UNCHANGED From5
       [] OTHER -> UNCHANGED Slots

MCSpec == MCInit /\ [][MCNext]_<<part, vars, DiskVars, RoutingVars, LogVars, Slots>>

-----------------------------------------------------------------------------
(* server.rs, read_run_linearizable: acknowledged writes are read.         *)
AcknowledgedIsRead == [][part = "reads" => Readers!ReadStep]_<<part, Slots>>

(* replay.rs, audit.rs, audit_sign.rs: a replay has the run's events by    *)
(* the clock and in the order they happened where the clock agrees with    *)
(* it, even if lines are torn, and a signed manifest binds the whole audit *)
(* trail; and redbstore.rs's CrashSafe on the longer log.                  *)
TrailsIntact ==
  /\ part = "log" => LongLog!CrashSafe
  /\ part = "torn" => Broken!LinesInOrder /\ Broken!ReplayInOrder
  /\ part = "audit" => Trail!ManifestBindsTrail
=============================================================================
