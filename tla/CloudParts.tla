----------------------------- MODULE CloudParts -----------------------------
(***************************************************************************)
(* Parts of the control plane side by side, each with variables of its     *)
(* own: the snapshots of the store (CloudPersist), the telemetry that a    *)
(* gateway sends it (Telemetry), who may do what (CloudAuth) and the       *)
(* evidence pack (Compliance), and what is promised of them.  The runs     *)
(* check these promises, the proofs establish them.                        *)
(***************************************************************************)
EXTENDS CloudPersist

(* A gateway's trace and its Cloud sink.                                   *)
CONSTANTS Handlers, Threshold, Batch, Writable, MaxRecords, MaxStarts
VARIABLES process, trace, segments, cloud, posts, ingested, task, settled, written, failed, lost

Sink == INSTANCE Telemetry

(* Keys, tokens, paired devices and signed requests.                       *)
CONSTANTS Keys, Tokens, Jwks, Issuer, Audience, AdminRole, Leeway, Devices, Codes, Missing,
          PairTtl, MaxSkew, NonceCap, MaxRequests, MaxAudit, MaxNow
VARIABLES pairings, devices, nonces, wire, executed, trail, codes, now

Auth == INSTANCE CloudAuth WITH Absent <- Missing, audit <- trail

(* The evidence pack of an org.                                            *)
CONSTANTS Decisions, Kinds, Intact, MaxEvents, MaxChain
VARIABLES decisions, incidents, chain, pack, packs, fired, events

Evidence == INSTANCE Compliance WITH audit <- chain, MaxAudit <- MaxChain

-----------------------------------------------------------------------------
(* cloudsink.rs, sink.rs, main.rs: the control plane counts no record      *)
(* twice, no restart overwrites a trace segment, and only a crash or a     *)
(* failed write loses a record of the trace.                               *)
RecordsKept == Sink!RecordsKept

(* http.rs, oidc.rs, store.rs: a signed request takes effect once although *)
(* only so many nonces are kept, a pairing code makes one device, and      *)
(* whoever an audit entry names was entitled to the act.                   *)
OperatorsEntitled == Auth!OperatorsEntitled

(* compliance.rs, http.rs: every Enforced grade is backed, a control that  *)
(* fired is graded, and a broken audit chain is not graded Enforced.       *)
EvidenceHonest == Evidence!EvidenceHonest
=============================================================================
