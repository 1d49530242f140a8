---------------------------- MODULE GatewayParts ----------------------------
(***************************************************************************)
(* Parts of the gateway side by side, each with variables of its own: the  *)
(* unit ledger (UnitLedger), the Wardryx hook (Wardryx), the taint         *)
(* firewall (Firewall), the MCP broker (McpBroker), the report on client   *)
(* keys (KeysReport), the semantic cache (SemanticCache) and the identity  *)
(* map (Identity), and what is promised of them.  The runs check these     *)
(* promises, the proofs establish them.                                    *)
(***************************************************************************)
EXTENDS UnitLedger

(* The decision cache in front of the policy service.                      *)
CONSTANTS Callers, Requests, Policies, Closed, Ttl, Timeout, MaxNow, MaxCalls, MaxChanges
VARIABLES policy, history, cache, asking, served, holds, now, calls, changes

Hook == INSTANCE Wardryx WITH call <- asking

(* The taint firewall.                                                     *)
CONSTANTS Posts, RunOf, Headers, Histories, Answers, Modes, Streamed, WasmLoaded
VARIABLES mode, taint, post, broken, touched

Wall == INSTANCE Firewall WITH Calls <- Posts, call <- post

(* The MCP credential broker.                                              *)
CONSTANTS Clients, Rpcs, Default, Named, Vault, Configs, Own, ToolLists, Poisoned, ToolPolicies, MaxRpcs, MaxToolChanges
VARIABLES config, slot, listed, toolPolicy, wire, decided, audit, replies, taken, toolChanges

Broker == INSTANCE McpBroker WITH
  Callers <- Clients, Requests <- Rpcs, Policies <- ToolPolicies, MaxCalls <- MaxRpcs, MaxChanges <- MaxToolChanges,
  policy <- toolPolicy, calls <- taken, changes <- toolChanges

(* The report on client keys.                                              *)
CONSTANTS Keys, Configured, Bound, Readers, Strict, HasDir, HistoryTtl, MaxScan, MaxClock, MaxKeyCalls
VARIABLES strict, inFlight, buffered, written, past, inherited, admitted, stats, counted, mismatched, folds, scan, reports, clk, total

KeyUse == INSTANCE KeysReport WITH
  Ttl <- HistoryTtl, MaxNow <- MaxClock, MaxCalls <- MaxKeyCalls,
  cache <- folds, now <- clk, calls <- total

(* The semantic cache of responses.                                        *)
CONSTANTS Questions, Entities, Sim(_, _), Threshold, CoreWords, MaxRatio, CacheTtl, Capacity, Serving,
          MaxLookUps, MaxHour
VARIABLES store, waiting, hits, stored, lookUps, hour

Cached == INSTANCE SemanticCache WITH
  Requests <- Questions, Ttl <- CacheTtl, MaxCalls <- MaxLookUps, MaxNow <- MaxHour,
  call <- waiting, served <- hits, calls <- lookUps, now <- hour

(* Client keys and the identity map.                                       *)
CONSTANTS Documents, Presented, MaxPresented, MaxStarts
VARIABLES docs, gateway, tally, line, records, forwarded, admissions, refused, starts, presented

Keyed == INSTANCE Identity WITH
  Calls <- Presented, MaxCalls <- MaxPresented, stats <- tally, slot <- line, admitted <- admissions,
  calls <- presented

-----------------------------------------------------------------------------
(* wardryx.rs: a decision is that of a policy in force when it was asked   *)
(* for, or within the TTL, and two held calls do not share an approval.    *)
VerdictsCurrent == Hook!VerdictsCurrent /\ Hook!HoldsHaveOwnApproval

(* taint.rs, proxy.rs, state.rs, wasmpolicy.rs: what a conversation holds  *)
(* gates what it may do, labels that a run has earned are not forgotten,   *)
(* and a policy on secrets sees every run that holds them.                 *)
TaintGates == Wall!TaintGates

(* mcpbroker.rs, secretbroker.rs: a secret goes only to the server it was  *)
(* asked for, what the scanners recognise does not come back in an answer  *)
(* that can be masked, callers are offered only the tools that are pinned, *)
(* and a gated call leaves one true event or none when emitting fails.     *)
BrokeredCallsAccounted == Broker!BrokeredCallsAccounted

(* keysreport.rs, keystats.rs: a report is no older than the cache's TTL   *)
(* and a scan, and its history has no call that its counters have not.     *)
KeyReportsCurrent == KeyUse!KeyReportsCurrent

(* cache.rs: a hit answers the question that was asked, for who asked it,  *)
(* and a full partition drops its oldest entries.                          *)
CacheHonest == Cached!HitsAnswerTheQuestion /\ Cached!NewestKept

(* clientkeys.rs, identitymap.rs, keystats.rs: no typo in a document turns *)
(* a check off unnoticed, what a bound key spends is its unit's, and the   *)
(* counters agree with the calls that were admitted, across restarts.      *)
CallsAttributed == Keyed!NothingSilentlyOff /\ Keyed!BoundKeysKeepTheirUnit /\ Keyed!CountersReconcile
=============================================================================
