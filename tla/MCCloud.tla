------------------------------ MODULE MCCloud ------------------------------
(* Instances of the control plane: its snapshots, the telemetry that       *)
(* gateways send it, who may do what and the evidence pack (CloudParts),   *)
(* and the rollups and detectors of its store, which share the slots       *)
(* s1, s2, ...  A behaviour runs one part, chosen at the start.            *)
EXTENDS CloudParts, Integers, FiniteSets, TLC

CONSTANTS
  Parts,             \* the parts to run
  r1, r2, r3, NoName,
  c1, c2             \* pairing codes

VARIABLES part, s1, s2, s3, s4, s5, s6, s7, s8, s9, s10

-----------------------------------------------------------------------------
(* Rows of three runs, two units and two agents.                           *)
Row(run, agent, unit, decision, cost, saved, ts) ==
  [run |-> run, agent |-> agent, unit |-> unit, decision |-> decision,
   cost |-> cost, saved |-> saved, tools |-> 0, ts |-> ts]

SpendRows ==
  {Row(r1, "a", "eng", "allow", 2, 1, 1), Row(r2, NoName, "ops", "killed", 1, 0, 2),
   Row(r3, NoName, NoName, "cache_hit", 0, 2, 0), Row(r3, "a", "eng", "allow", -1, 0, 1),
   Row(r1, NoName, NoName, "budget_exceeded", 2, 1, 1), Row(r2, NoName, "web", "other", 3, 3, 1)}

(* Some in time, one two ticks late, one without a timestamp.              *)
IncidentRows ==
  {Row(r1, "a", NoName, "budget_exceeded", 1, 0, 1), Row(r2, "a", NoName, "loop_detected", 1, 0, 1),
   Row(r2, "b", NoName, "loop_detected", 1, 0, 3), Row(r3, "c", NoName, "killed", 0, 0, 0)}

(* More runs, units and broken runs than the caps admit, and amounts that  *)
(* saturate; the detectors keep quiet.                                     *)
Spend == INSTANCE CloudStore WITH
  Records <- SpendRows, Runs <- {r1, r2, r3}, Budgets <- {2}, Findings <- {},
  MaxBatch <- 2, MaxRows <- 3, MaxNow <- 4, MaxOps <- 2,
  BudgetBlocks <- 9, LoopRepeats <- 9, LoopWindow <- 1, SpendPerMin <- 9, FanoutRuns <- 9, FanoutWindow <- 2,
  SpikeWindow <- 1, TrackerCap <- 1, MaxTrackerKeys <- 1, MaxIncidents <- 1, NotifyWindow <- 1,
  MonthLength <- 2, MaxRuns <- 2, MaxBreaks <- 1, MaxUnits <- 2, SeriesCap <- 2, MaxBuckets <- 2,
  MaxMoney <- 4, AlertPct <- 80,
  roll <- s1, det <- s2, budgets <- s3, now <- s4, trace <- s5, epoch <- s6, pushes <- s7, received <- s8,
  ops <- s9, saved <- s10

(* Thresholds that four rows reach, of more runs, agents and kinds than    *)
(* trackers and incidents are kept; another service reports under a key of *)
(* the plane's own.                                                        *)
Detections == INSTANCE CloudStore WITH
  Records <- IncidentRows, Runs <- {r1, r2, r3}, Budgets <- {}, Findings <- {<<"budget_exhausted", r1>>},
  MaxBatch <- 1, MaxRows <- 4, MaxNow <- 5, MaxOps <- 1,
  BudgetBlocks <- 2, LoopRepeats <- 2, LoopWindow <- 1, SpendPerMin <- 2, FanoutRuns <- 2, FanoutWindow <- 1,
  SpikeWindow <- 1, TrackerCap <- 3, MaxTrackerKeys <- 2, MaxIncidents <- 2, NotifyWindow <- 1,
  MonthLength <- 3, MaxRuns <- 1, MaxBreaks <- 1, MaxUnits <- 2, SeriesCap <- 3, MaxBuckets <- 2,
  MaxMoney <- 99, AlertPct <- 80,
  roll <- s1, det <- s2, budgets <- s3, now <- s4, trace <- s5, epoch <- s6, pushes <- s7, received <- s8,
  ops <- s9, saved <- s10

(* Fewer rows, and operations enough to push an incident, evict it, and    *)
(* push it again.                                                          *)
Pushes == INSTANCE CloudStore WITH
  Records <- {r \in IncidentRows : r.agent = "a"}, Runs <- {r1, r2}, Budgets <- {},
  Findings <- {<<"budget_exhausted", r1>>},
  MaxBatch <- 1, MaxRows <- 3, MaxNow <- 4, MaxOps <- 3,
  BudgetBlocks <- 2, LoopRepeats <- 2, LoopWindow <- 1, SpendPerMin <- 2, FanoutRuns <- 2, FanoutWindow <- 1,
  SpikeWindow <- 1, TrackerCap <- 3, MaxTrackerKeys <- 2, MaxIncidents <- 2, NotifyWindow <- 0,
  MonthLength <- 3, MaxRuns <- 1, MaxBreaks <- 1, MaxUnits <- 2, SeriesCap <- 3, MaxBuckets <- 2,
  MaxMoney <- 99, AlertPct <- 80,
  roll <- s1, det <- s2, budgets <- s3, now <- s4, trace <- s5, epoch <- s6, pushes <- s7, received <- s8,
  ops <- s9, saved <- s10

-----------------------------------------------------------------------------
(* Keys of two orgs, one a viewer's, and tokens each valid but for one     *)
(* claim.                                                                  *)
OrgKeys == ("k1" :> [org |-> "acme", role |-> "admin"]) @@ ("k2" :> [org |-> "globex", role |-> "viewer"])
PublicKeys == ("rsa" :> "RSA") @@ ("oct" :> "oct")

GoodToken == [kid |-> "rsa", alg |-> "RS256", signer |-> "rsa", iss |-> "idp", aud |-> "cloud",
              exp |-> 1, org |-> "acme", roles |-> {"admin"}, sub |-> "ann"]

SignIns == {GoodToken, [GoodToken EXCEPT !.aud = Missing, !.sub = "bob"], [GoodToken EXCEPT !.roles = {}],
            [GoodToken EXCEPT !.kid = "oct", !.alg = "HS256", !.signer = "oct"],
            [GoodToken EXCEPT !.sub = Missing, !.alg = "RS512"]}

ASSUME Spend!StoreConstants /\ Detections!StoreConstants /\ Pushes!StoreConstants
ASSUME Auth!AuthConstants /\ Sink!TelemetryConstants /\ Evidence!ComplianceConstants

-----------------------------------------------------------------------------
(* More signed requests than nonces are remembered, of one device.         *)
OneDevice ==
  /\ DOMAIN devices' \subseteq {"d1"} /\ DOMAIN codes' \subseteq {c1}
  /\ \A q \in wire' : q.header = "d1" /\ q.op # "d2"
  /\ \A i \in DOMAIN trail' : trail'[i].kind # "oidc"

(* Two devices, two codes and every token, with one signed request.  The   *)
(* second code and the second device are those that come second.           *)
ManyActors ==
  /\ Cardinality(wire') <= 1 /\ Len(trail') <= 3 /\ now' <= 3
  /\ c2 \in DOMAIN codes' => c1 \in DOMAIN codes'
  /\ "d2" \in DOMAIN devices' => "d1" \in DOMAIN devices'

(* Rollups are saved by restarts: a snapshot that is older is a state that *)
(* a restart had before.                                                   *)
SavedAtRestart == s10' # s10 => s1' # s1

(* The run or unit that is changed first is r1.                            *)
R1First == mem'.audit # <<>> => mem'.audit[1].subject = r1

SinkVars == <<process, trace, segments, cloud, posts, ingested, task, settled, written, failed, lost>>
AuthVars == <<pairings, devices, nonces, wire, executed, trail, codes, now>>
EvidenceVars == <<decisions, incidents, chain, pack, packs, fired, events>>
Slots == <<s1, s2, s3, s4, s5, s6, s7, s8, s9, s10>>

MCInit ==
  /\ part \in Parts
  /\ Init /\ Sink!Init /\ Auth!Init
  /\ Evidence!Init /\ (part # "evidence" => chain = 0)
  /\ CASE part = "spend" -> Spend!Init
       [] part = "incidents" -> Detections!Init
       [] part = "pushes" -> Pushes!Init
       [] OTHER -> s1 = 0 /\ s2 = 0 /\ s3 = 0 /\ s4 = 0 /\ s5 = 0 /\ s6 = 0 /\ s7 = 0 /\ s8 = 0 /\ s9 = 0 /\ s10 = 0

MCNext ==
  /\ UNCHANGED part
  /\ IF part = "snapshots" THEN Next /\ R1First ELSE UNCHANGED vars
  /\ IF part = "telemetry" THEN Sink!Next ELSE UNCHANGED SinkVars
  /\ CASE part = "nonces" -> Auth!Next /\ OneDevice
       [] part = "actors" -> Auth!Next /\ ManyActors
       [] OTHER -> UNCHANGED AuthVars
  /\ IF part = "evidence" THEN Evidence!Next ELSE UNCHANGED EvidenceVars
  /\ CASE part = "spend" -> Spend!Next /\ SavedAtRestart
       [] part = "incidents" -> Detections!Next
       [] part = "pushes" -> Pushes!Next
       [] OTHER -> UNCHANGED Slots

MCSpec == MCInit /\ [][MCNext]_<<part, vars, SinkVars, AuthVars, EvidenceVars, Slots>>

-----------------------------------------------------------------------------
(* store.rs: totals, months, savings and the burn series are those of the  *)
(* records, whatever was evicted, capped or reloaded.                      *)
RollupsExact ==
  part = "spend" => /\ Spend!TotalsExact /\ Spend!MonthAddsUp /\ Spend!SavingsMatchReport
                    /\ Spend!SeriesComplete

(* store.rs, ingest: new runs do not evict an alerting one.                *)
AlertsSurvive == [][part = "spend" => Spend!AlertStep]_<<part, Slots>>

(* store.rs, detect, mark_incident_notified: a run over its threshold has  *)
(* its incident, none is without the events it counts, and each is pushed  *)
(* once per window.                                                        *)
IncidentsJustified ==
  /\ part = "incidents" => /\ Detections!BlocksRaiseIncident /\ Detections!IncidentsJustified
                           /\ Detections!PushedOncePerWindow
  /\ part = "pushes" => /\ Pushes!BlocksRaiseIncident /\ Pushes!IncidentsJustified
                        /\ Pushes!PushedOncePerWindow
=============================================================================
