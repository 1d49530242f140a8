----------------------------- MODULE Compliance -----------------------------
(***************************************************************************)
(* The compliance evidence of an org (crates/core/src/compliance.rs and    *)
(* the evidence pack of crates/cloud/src/http.rs): the control catalogue   *)
(* projected on the decisions and incidents the store counted, and graded. *)
(* A request reads the store in four separate locked reads while ingest,   *)
(* detectors and mutations go on.                                          *)
(***************************************************************************)
EXTENDS Naturals

CONSTANTS
  Decisions,   \* decision strings that records may carry
  Kinds,       \* incident kinds
  Intact,      \* whether the audit chain that was loaded verifies
  MaxEvents,   \* bound: records and incidents
  MaxAudit     \* bound: audit entries

(* is_known_decision                                                       *)
KnownDecisions ==
  {"allow", "cache_hit", "taint_blocked", "dlp_blocked", "budget_exceeded", "loop_detected",
   "policy_violation", "wasm_policy", "killed"}

(* What an instance must satisfy: no incident kind is called like one.     *)
ComplianceConstants == Kinds \cap KnownDecisions = {}

VARIABLES
  decisions,   \* decision_counts
  incidents,   \* open incidents: a bag kind -> how many
  audit,       \* length of the audit chain
  pack,        \* the request in progress: what it has read so far
  packs,       \* evidence packs answered
  fired,       \* history: every decision and incident kind that occurred
  events

vars == <<decisions, incidents, audit, pack, packs, fired, events>>

Control(id, enforcement, ds, findings, ks, frameworks) ==
  [id |-> id, enforcement |-> enforcement, decisions |-> ds, findings |-> findings,
   incidents |-> ks, frameworks |-> frameworks]

ExposureKinds ==
  {"exposure_unauth_list", "exposure_plaintext", "exposure_cors_wildcard", "exposure_unauth_call",
   "exposure_unauth_call_rejected", "exposure_unauth_call_skipped", "ssrf_capable_tool"}

(* CATALOG, with the frameworks the evidence pack shows.                   *)
SpendControls == {
  Control("TF.BUDGET", "enforced", {"budget_exceeded"}, {}, {"budget_exhausted", "spend_spike"}, {"SOC2", "EU-AI-ACT"}),
  Control("TF.LOOP", "enforced", {"loop_detected"}, {}, {"sustained_loop"}, {"EU-AI-ACT"}),
  Control("TF.KILL", "enforced", {"killed"}, {}, {}, {"EU-AI-ACT"})}

DataControls == {
  Control("TF.DLP", "enforced", {"dlp_blocked"}, {}, {}, {"SOC2"}),
  Control("TF.TAINT", "enforced", {"taint_blocked"}, {}, {}, {"EU-AI-ACT"})}

McpControls == {
  Control("TF.MCP.POISON", "enforced", {}, {"poisoning"}, {}, {}),
  Control("TF.MCP.RUGPULL", "enforced", {}, {"rug_pull", "new_tool", "removed_tool"}, {}, {}),
  Control("TF.MCP.EXPOSURE", "enforced", {}, ExposureKinds, {}, {"SOC2"})}

PartialControls == {
  Control("TF.WASM", "partial", {"wasm_policy"}, {}, {}, {}),
  Control("TF.AUDIT", "partial", {}, {}, {}, {"EU-AI-ACT", "SOC2"}),
  Control("TF.ACCESS", "partial", {}, {}, {}, {"SOC2"})}

Catalog == SpendControls \cup DataControls \cup McpControls \cup PartialControls

Count(bag, k) == IF k \in DOMAIN bag THEN bag[k] ELSE 0
Bump(bag, k) == [x \in DOMAIN bag \cup {k} |-> IF x = k THEN Count(bag, k) + 1 ELSE bag[x]]

(* The sum of the counts of S is positive.                                 *)
AnySeen(bag, S) == \E k \in S : Count(bag, k) > 0

(* compute_compliance_from_counts for one control.                         *)
Evidence(c, ds, fs, ks) ==
  LET seen == AnySeen(ds, c.decisions) \/ AnySeen(fs, c.findings) \/ AnySeen(ks, c.incidents)
  IN [id |-> c.id, enforcement |-> c.enforcement, frameworks |-> c.frameworks, seen |-> seen,
      covered |-> c.enforcement = "enforced" /\ (seen \/ c.decisions # {})]

(* evidence_status *)
EvidenceStatus(e) ==
  CASE e.enforcement = "documented" -> "Documented"
    [] e.enforcement = "partial" -> "Partial"
    [] e.enforcement = "enforced" -> IF e.seen THEN "Enforced" ELSE "Documented"

(* catalog_section: TF.AUDIT is graded from the live chain instead.        *)
CatalogSection(framework, ds, ks) ==
  {<<c.id, EvidenceStatus(Evidence(c, ds, <<>>, ks))>> :
     c \in {d \in Catalog : d.id # "TF.AUDIT" /\ framework \in d.frameworks}}

(* audit_chain_status *)
AuditChainStatus(entries, ok) ==
  IF ~ok THEN "Partial" ELSE IF entries > 0 THEN "Enforced" ELSE "Documented"

(* model_use_controls and ongoing_monitoring *)
ModelUseControls(ds) ==
  IF AnySeen(ds, {"budget_exceeded", "loop_detected", "killed"}) THEN "Enforced" ELSE "Documented"
OngoingMonitoring(ks) == IF AnySeen(ks, DOMAIN ks) THEN "Enforced" ELSE "Documented"

-----------------------------------------------------------------------------
Idle == [step |-> "idle", ds |-> <<>>, ks |-> <<>>, entries |-> 0]

Init ==
  /\ decisions = <<>>
  /\ incidents = <<>>
  /\ audit \in 0..1
  /\ pack = Idle
  /\ packs = {}
  /\ fired = {}
  /\ events = 0

Observe(event) ==
  /\ events < MaxEvents /\ events' = events + 1
  /\ fired' = fired \cup {event}

(* ingest: only known decisions are counted.                               *)
Ingest(d) ==
  /\ Observe(d)
  /\ decisions' = IF d \in KnownDecisions THEN Bump(decisions, d) ELSE decisions
  /\ UNCHANGED <<incidents, audit, pack, packs>>

(* A detector opens an incident or another service reports one, or one is  *)
(* evicted at the cap.                                                     *)
TripIncident(k) ==
  /\ Observe(k)
  /\ incidents' = Bump(incidents, k)
  /\ UNCHANGED <<decisions, audit, pack, packs>>

EvictIncident(k) ==
  /\ Count(incidents, k) > 0
  /\ incidents' = [incidents EXCEPT ![k] = @ - 1]
  /\ UNCHANGED <<decisions, audit, pack, packs, fired, events>>

AppendAudit ==
  /\ audit < MaxAudit
  /\ audit' = audit + 1
  /\ UNCHANGED <<decisions, incidents, pack, packs, fired, events>>

(* compliance_evidence: four reads, each under its own lock.               *)
ReadDecisions ==
  /\ pack.step = "idle"
  /\ pack' = [step |-> "decisions", ds |-> decisions, ks |-> <<>>, entries |-> 0]
  /\ UNCHANGED <<decisions, incidents, audit, packs, fired, events>>

ReadIncidents ==
  /\ pack.step = "decisions"
  /\ pack' = [step |-> "incidents", ds |-> pack.ds, ks |-> incidents, entries |-> 0]
  /\ UNCHANGED <<decisions, incidents, audit, packs, fired, events>>

ReadAudit ==
  /\ pack.step = "incidents"
  /\ pack' = [step |-> "audit", ds |-> pack.ds, ks |-> pack.ks, entries |-> audit]
  /\ UNCHANGED <<decisions, incidents, audit, packs, fired, events>>

\* Mutant of VerifyAudit: an unverified chain is graded by its length.
VerifyAuditByLength ==
  /\ pack.step = "audit"
  /\ packs' = packs \cup {[eu |-> CatalogSection("EU-AI-ACT", pack.ds, pack.ks),
                           soc2 |-> CatalogSection("SOC2", pack.ds, pack.ks),
                           use |-> ModelUseControls(pack.ds), monitoring |-> OngoingMonitoring(pack.ks),
                           chain |-> IF pack.entries > 0 THEN "Enforced" ELSE "Documented",
                           entries |-> pack.entries, at |-> fired]}
  /\ pack' = Idle
  /\ UNCHANGED <<decisions, incidents, audit, fired, events>>

(* audit_verify reads the chain again; then the answer.                    *)
VerifyAudit ==
  /\ pack.step = "audit"
  /\ packs' = packs \cup {[eu |-> CatalogSection("EU-AI-ACT", pack.ds, pack.ks),
                           soc2 |-> CatalogSection("SOC2", pack.ds, pack.ks),
                           use |-> ModelUseControls(pack.ds), monitoring |-> OngoingMonitoring(pack.ks),
                           chain |-> AuditChainStatus(pack.entries, Intact \/ audit = 0),
                           entries |-> pack.entries, at |-> fired]}
  /\ pack' = Idle
  /\ UNCHANGED <<decisions, incidents, audit, fired, events>>

Next ==
  \/ \E d \in Decisions : Ingest(d)
  \/ \E k \in Kinds : TripIncident(k) \/ EvictIncident(k)
  \/ AppendAudit
  \/ ReadDecisions \/ ReadIncidents \/ ReadAudit \/ VerifyAudit

Spec == Init /\ [][Next]_vars

-----------------------------------------------------------------------------
(* EvidenceStatus: "Enforced only when the org has produced concrete       *)
(* evidence the control fired".  Whatever was ingested or evicted between  *)
(* the reads, every Enforced grade of a pack is backed by an event.        *)
GradesBacked ==
  \A p \in packs :
    /\ \A g \in p.eu \cup p.soc2 : g[2] = "Enforced" =>
         \E c \in Catalog : c.id = g[1] /\ c.enforcement = "enforced"
                            /\ (c.decisions \cup c.incidents) \cap p.at # {}
    /\ p.use = "Enforced" => {"budget_exceeded", "loop_detected", "killed"} \cap p.at # {}
    /\ p.monitoring = "Enforced" => Kinds \cap p.at # {}

(* A chain that does not verify is never graded Enforced, and an empty one *)
(* never counts as verified, although length and verdict are read apart.   *)
ChainGradeHonest ==
  \A p \in packs : p.chain = "Enforced" => p.entries > 0 /\ Intact

(* Every wire decision that a control cites as its evidence is one that    *)
(* ingest counts: a control that fired does not stay ungraded.             *)
FiredControlsGraded ==
  \A c \in Catalog : (c.enforcement = "enforced" /\ c.decisions \cap fired # {})
    => EvidenceStatus(Evidence(c, decisions, <<>>, incidents)) = "Enforced"

(* What the evidence pack promises its auditor.                            *)
EvidenceHonest == GradesBacked /\ FiredControlsGraded /\ ChainGradeHonest
=============================================================================
