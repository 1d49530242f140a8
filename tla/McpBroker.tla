----------------------------- MODULE McpBroker -----------------------------
(***************************************************************************)
(* The MCP credential broker (crates/gateway/src/mcpbroker.rs, with        *)
(* core/secretbroker.rs and core/mcp.rs): agents' JSON-RPC calls pass the  *)
(* argument scan, the policy gate and the injection of secrets on their    *)
(* way to a server, and the listing checks and redaction on their way      *)
(* back.  Calls overlap; servers change their tools and operators the      *)
(* policy while calls are under way.                                       *)
(* A body is a sequence of tokens [kind, name]: "handle" (a                *)
(* {{secret:NAME}}), "secret" and "pii" (what the scanners recognise in a  *)
(* string), "number" (PII that is a JSON number) and "plain", all that the *)
(* scanners have no pattern for, credentials of such a form included.      *)
(***************************************************************************)
EXTENDS Naturals, Sequences

CONSTANTS
  Callers,
  Requests,       \* [method, upstream, agent, tool, args]: upstream "" and agent {} for a
                  \* header left out, agent {""} for an empty one
  Default,        \* the default upstream's URL
  Named,          \* named upstreams: name -> URL
  Vault,          \* the vault: name -> the token that its value is
  Configs,        \* [scan, dlp, pii, wardryx, lock, events], lock \in {{}, {a function}},
                  \* events: whether the exporter is on
  Own,            \* what a server answers on its own account: sequences of tokens
  ToolLists,      \* what servers list: functions from names to definitions
  Poisoned,       \* definitions with a marker that scan_injection knows
  Policies,       \* sets of denied and held tools: [deny, hold]
  MaxCalls,       \* bound: calls
  MaxChanges      \* bound: changes of lists and policy

VARIABLES
  config,    \* BrokerState, fixed at start
  slot,      \* per caller the call it is in
  listed,    \* what the servers list now
  policy,    \* what the policy service enforces now
  wire,      \* history: what servers received, [n, url, req, body]
  decided,   \* history: the gate's decisions, [n, decision, emission]
  audit,     \* history: tool_call and mcp_drift events that were written
  replies,   \* history: what callers got, [n, req, error, body, tools, note]
  calls, changes

vars == <<config, slot, listed, policy, wire, decided, audit, replies, calls, changes>>

Idle == [phase |-> "idle"]

Init ==
  /\ config \in Configs
  /\ slot = [c \in Callers |-> Idle]
  /\ listed \in ToolLists
  /\ policy \in Policies
  /\ wire = {} /\ decided = {} /\ audit = {} /\ replies = {} /\ calls = 0 /\ changes = 0

-----------------------------------------------------------------------------
(* resolve_upstream: an unknown name has no URL.                           *)
Urls(q) == IF q.upstream = "" THEN {Default}
           ELSE {Named[u] : u \in DOMAIN Named \cap {q.upstream}}

Has(body, kinds) == \E i \in DOMAIN body : body[i].kind \in kinds

Pii == {"pii", "number"}

(* dlp::redact and the parse that follows it: a redacted number is no JSON *)
(* any more, and the body stays as it was.                                 *)
Redacted(body, kinds) ==
  IF "number" \in kinds /\ Has(body, {"number"}) THEN body
  ELSE [i \in DOMAIN body |-> IF body[i].kind \in kinds
                              THEN [kind |-> "redacted", name |-> body[i].kind] ELSE body[i]]

(* inject_secrets: a value of whatever form; an unknown handle is left as  *)
(* it is.                                                                  *)
InjectSecrets(body) ==
  [i \in DOMAIN body |-> IF body[i].kind = "handle" /\ body[i].name \in DOMAIN Vault
                         THEN Vault[body[i].name] ELSE body[i]]

Respond(n, q, error, body, tools, note) ==
  replies' = replies \cup {[n |-> n, req |-> q, error |-> error, body |-> body, tools |-> tools, note |-> note]}

Refuse(c, n, q, error) == Respond(n, q, error, <<>>, <<>>, "") /\ slot' = [slot EXCEPT ![c] = Idle]

(* The call goes on to another phase of process.                           *)
Goes(c, phase, n, q, url, body, would, tools) ==
  slot' = [slot EXCEPT ![c] = [phase |-> phase, n |-> n, req |-> q, url |-> url, body |-> body,
                               would |-> would, tools |-> tools]]

(* handle and run_stdio, and process up to the policy gate.                *)
ArgsScan(q) ==
  IF q.method # "call" THEN <<"ok", q.args>>
  ELSE IF config.dlp = "block" /\ Has(q.args, {"secret"}) THEN <<"raw_secret", <<>>>>
  ELSE IF config.pii = "block" /\ Has(q.args, Pii) THEN <<"pii", <<>>>>
  ELSE <<"ok", IF config.pii = "mask" THEN Redacted(q.args, Pii) ELSE q.args>>

(* The gate is skipped when it is off or there is no agent header.         *)
Gated(q) == q.method = "call" /\ config.wardryx # "off" /\ q.agent # {}

\* Mutant of Receive: an unknown upstream is sent to the default.
ReceiveRerouting(c, q) ==
  /\ slot[c] = Idle /\ calls < MaxCalls
  /\ calls' = calls + 1
  /\ LET scan == ArgsScan(q)
         urls == IF Urls(q) = {} THEN {Default} ELSE Urls(q) IN
       IF scan[1] # "ok" THEN Refuse(c, calls', q, scan[1])
       ELSE \E url \in urls :
              /\ Goes(c, IF Gated(q) THEN "gate" ELSE "forward", calls', q, url, scan[2], "", <<>>)
              /\ UNCHANGED replies
  /\ UNCHANGED <<config, listed, policy, wire, decided, audit, changes>>

Receive(c, q) ==
  /\ slot[c] = Idle /\ calls < MaxCalls
  /\ calls' = calls + 1
  /\ LET scan == ArgsScan(q) IN
       IF Urls(q) = {} THEN Refuse(c, calls', q, "unknown_upstream")
       ELSE IF scan[1] # "ok" THEN Refuse(c, calls', q, scan[1])
       ELSE \E url \in Urls(q) :
              /\ Goes(c, IF Gated(q) THEN "gate" ELSE "forward", calls', q, url, scan[2], "", <<>>)
              /\ UNCHANGED replies
  /\ UNCHANGED <<config, listed, policy, wire, decided, audit, changes>>

Verdict(tool) == IF tool \in policy.deny THEN "deny" ELSE IF tool \in policy.hold THEN "hold" ELSE "allow"

(* What becomes of an event (Exporter::emit): the exporter is off, the     *)
(* agent has no name, the write fails, or a line is written.               *)
Emissions(q) == IF ~config.events THEN {"disabled"}
                ELSE IF q.agent \subseteq {""} THEN {"skipped"} ELSE {"written", "error"}

(* emit_tool_call *)
ToolCallEvent(s, decision) ==
  [type |-> "tool_call", n |-> s.n, agent |-> s.req.agent, tool |-> s.req.tool, upstream |-> s.url,
   decision |-> decision, would |-> config.wardryx = "shadow"]

(* The policy service answers (Wardryx is the cache in front of it); one   *)
(* event, whatever becomes of it, then the refusal or the way on.          *)
Decide(c) ==
  /\ slot[c].phase = "gate"
  /\ LET s == slot[c]
         d == Verdict(s.req.tool) IN
       /\ \E emission \in Emissions(s.req) :
            /\ decided' = decided \cup {[n |-> s.n, decision |-> d, emission |-> emission]}
            /\ audit' = IF emission = "written" THEN audit \cup {ToolCallEvent(s, d)} ELSE audit
       /\ IF config.wardryx = "enforce" /\ d # "allow"
          THEN Refuse(c, s.n, s.req, d)
          ELSE /\ Goes(c, "forward", s.n, s.req, s.url, s.body, IF config.wardryx = "shadow" THEN d ELSE "", <<>>)
               /\ UNCHANGED replies
  /\ UNCHANGED <<config, listed, policy, wire, calls, changes>>

(* The secrets go in and the request to its server, which takes it as it   *)
(* is and answers: with what it was sent or not, with data of its own, and *)
(* a listing with its tools.                                               *)
Forward(c) ==
  /\ slot[c].phase = "forward"
  /\ LET s == slot[c]
         body == IF s.req.method = "call" THEN InjectSecrets(s.body) ELSE s.body IN
       /\ wire' = wire \cup {[n |-> s.n, url |-> s.url, req |-> s.req, body |-> body]}
       /\ \E echo \in {<<>>, body}, own \in Own :
            Goes(c, "answered", s.n, s.req, s.url, echo \o own, s.would, IF s.req.method = "list" THEN listed ELSE <<>>)
  /\ UNCHANGED <<config, listed, policy, decided, audit, replies, calls, changes>>

(* A transport error, a status, or a body that is no JSON.                 *)
UpstreamError(c) ==
  /\ slot[c].phase \in {"forward", "answered"}
  /\ Refuse(c, slot[c].n, slot[c].req, "upstream_error")
  /\ UNCHANGED <<config, listed, policy, wire, decided, audit, calls, changes>>

(* diff, of which the broker keeps what changed.                           *)
Changed(tools, lock) == {t \in DOMAIN tools \cap DOMAIN lock : tools[t] # lock[t]}

(* parse_tools and scan_injection.                                         *)
ScanInjection(tools) == {t \in DOMAIN tools : tools[t] \in Poisoned}

Drift(s) == IF s.req.method = "list" /\ config.scan # "off"
            THEN UNION {Changed(s.tools, l) : l \in config.lock} ELSE {}
Suspect(s) == IF s.req.method = "list" /\ config.scan # "off" THEN ScanInjection(s.tools) ELSE {}

(* One redaction of both kinds, and one parse of the result.               *)
ResponseBody(s) ==
  Redacted(s.body, (IF config.dlp # "off" THEN {"secret"} ELSE {}) \cup (IF config.pii = "mask" THEN Pii ELSE {}))

(* The answer comes back: the listing checks, annotation and redaction.    *)
Return(c) ==
  /\ slot[c].phase = "answered"
  /\ LET s == slot[c]
         block == config.scan = "block"
         drift == Drift(s)
         found == Suspect(s) IN
       /\ \E emission \in Emissions(s.req) :
            audit' = IF drift # {} /\ emission = "written"
                     THEN audit \cup {[type |-> "mcp_drift", n |-> s.n, agent |-> s.req.agent, tools |-> drift]} ELSE audit
       /\ IF block /\ drift # {} THEN Refuse(c, s.n, s.req, "changed_tools")
          ELSE IF block /\ found # {} THEN Refuse(c, s.n, s.req, "poisoned_tools")
          ELSE IF config.pii = "block" /\ Has(s.body, Pii) THEN Refuse(c, s.n, s.req, "pii_in_response")
          ELSE /\ Respond(s.n, s.req, "", ResponseBody(s), s.tools,
                          IF s.would # "" THEN s.would ELSE IF found # {} THEN "findings" ELSE "")
               /\ slot' = [slot EXCEPT ![c] = Idle]
  /\ UNCHANGED <<config, listed, policy, wire, decided, calls, changes>>

ChangeTools(l) ==
  /\ l # listed /\ changes < MaxChanges
  /\ listed' = l /\ changes' = changes + 1
  /\ UNCHANGED <<config, slot, policy, wire, decided, audit, replies, calls>>

ChangePolicy(p) ==
  /\ p # policy /\ changes < MaxChanges
  /\ policy' = p /\ changes' = changes + 1
  /\ UNCHANGED <<config, slot, listed, wire, decided, audit, replies, calls>>

Next ==
  \/ \E c \in Callers : \/ Decide(c) \/ Forward(c) \/ UpstreamError(c) \/ Return(c)
                        \/ \E q \in Requests : Receive(c, q)
  \/ \E l \in ToolLists : ChangeTools(l)
  \/ \E p \in Policies : ChangePolicy(p)

Spec == Init /\ [][Next]_vars

-----------------------------------------------------------------------------
Events(n) == {e \in audit : e.n = n /\ e.type = "tool_call"}

Tokens(body) == {body[i] : i \in DOMAIN body}
Injected(w) == (Tokens(w.body) \ Tokens(w.req.args)) \cap {Vault[name] : name \in DOMAIN Vault}

(* A vault secret, whatever its form, is on the wire only to the server    *)
(* that the call asked for, and never for a call that the gate refused or  *)
(* has not yet seen.                                                       *)
SecretsReachTheirServer ==
  \A w \in wire : Injected(w) # {} =>
    /\ w.url \in Urls(w.req)
    /\ config.wardryx = "enforce" /\ w.req.agent # {} =>
         \E d \in decided : d.n = w.n /\ d.decision = "allow"

(* "Each gated call emits one tool_call audit event": whatever became of   *)
(* the call and of the policy since, it was decided and what was decided   *)
(* happened to it; there are never two events of it, the one there is says *)
(* what was decided, and none is missing but for an emission that failed,  *)
(* was skipped or was off.                                                 *)
OneEventPerGatedCall ==
  \A w \in wire \cup {r \in replies : r.error \in {"deny", "hold"}} : Gated(w.req) =>
    \E d \in decided :
      /\ d.n = w.n
      /\ config.wardryx = "enforce" => (d.decision # "allow" <=> \E r \in replies : r.n = w.n /\ r.error = d.decision)
      /\ IF d.emission = "written" THEN \E e \in audit : Events(w.n) = {e} /\ e.decision = d.decision
         ELSE Events(w.n) = {}

(* In block mode an agent never gets a listing in which a pinned tool is   *)
(* not as it was pinned, or a description carries a known marker, at       *)
(* whatever moment the server changes its tools.                           *)
PinnedToolsOnly ==
  config.scan = "block" => \A r \in replies :
    /\ \A l \in config.lock : \A t \in DOMAIN r.tools \cap DOMAIN l : r.tools[t] = l[t]
    /\ \A t \in DOMAIN r.tools : r.tools[t] \notin Poisoned

(* "Redact secrets (and, if enabled, pii) in the response body so a tool   *)
(* result can't leak a credential": of what the scanners recognise nothing *)
(* comes back in clear, whether a server echoes it or adds it, but for one *)
(* case: where PII is masked, a number makes the masked text no JSON, and  *)
(* the answer comes back whole.  A secret of another form is not           *)
(* recognised and nothing is claimed of it.                                *)
ResponsesRedacted ==
  \A r \in replies :
    /\ config.dlp # "off" /\ Has(r.body, {"secret"}) => config.pii = "mask" /\ Has(r.body, {"number"})
    /\ config.pii = "mask" /\ Has(r.body, Pii) => Has(r.body, {"number"})
    /\ config.pii = "block" => ~Has(r.body, Pii)

(* What the broker promises of every call it takes part in.                *)
BrokeredCallsAccounted ==
  SecretsReachTheirServer /\ OneEventPerGatedCall /\ PinnedToolsOnly /\ ResponsesRedacted
=============================================================================
