------------------------------ MODULE Firewall ------------------------------
(***************************************************************************)
(* The taint firewall of the request handler (crates/core/src/taint.rs,    *)
(* crates/gateway/src/firewall.rs, proxy.rs, state.rs) and the taint bits  *)
(* a WASM policy is given (wasmpolicy.rs).  A run collects the labels of   *)
(* the tools its conversations have used; the tools a response asks for    *)
(* are judged against them.  Calls of a run overlap: the labels are        *)
(* collected before the upstream is called and used after it answered.     *)
(***************************************************************************)
EXTENDS Integers

CONSTANTS
  Calls,       \* the calls, each made once
  RunOf,       \* [Calls -> a run]
  Headers,     \* the sets of labels X-Fuse-Taint may declare
  Histories,   \* the sets of content blocks a conversation may hold
  Answers,     \* the sets of content blocks a response may hold
  Modes,       \* of {"off", "shadow", "enforce"}
  Streamed,    \* the calls that ask for a stream
  WasmLoaded   \* whether a WASM policy is configured

(* What an instance must satisfy.                                          *)
FirewallConstants == Streamed \subseteq Calls /\ WasmLoaded \in BOOLEAN

RunIds == {RunOf[c] : c \in Calls}

VARIABLES
  mode,
  taint,       \* AppState.taint
  call,        \* per call [phase, header, history, labels, tools]
  broken,      \* the WASM policy trapped or ran out of fuel
  touched      \* the labels of what a run's requests and buffered responses have used

vars == <<mode, taint, call, broken, touched>>

(* tool_names_in: the names in the tool_use blocks of a request or a       *)
(* response.                                                               *)
ToolNamesIn(blocks) == {b.name : b \in {x \in blocks : x.type = "tool_use"}}

(* FirewallConfig::defaults *)
Sources == [web_search |-> "web", fetch_url |-> "web", browse |-> "web", read_email |-> "email", read_upload |-> "file",
            read_file |-> "file", vault_read |-> "secrets", read_secret |-> "secrets"]

Capabilities ==
  [run_shell |-> "exec", exec |-> "exec", bash |-> "exec", write_file |-> "write", db_write |-> "write", deploy |-> "write",
   send_email |-> "network_egress", http_post |-> "network_egress", send_message |-> "network_egress"]

Rules == {[whenAny |-> {"web", "email", "file", "unclassified"}, deny |-> {"exec", "write", "network_egress"}],
          [whenAny |-> {"secrets"}, deny |-> {"network_egress"}]}

(* from_env, AppState::new *)
Init ==
  /\ mode \in Modes
  /\ taint = [r \in RunIds |-> {}] /\ touched = [r \in RunIds |-> {}] /\ broken = {}
  /\ call \in [Calls -> [phase : {"arrived"}, header : Headers, history : Histories, labels : {{}}, tools : {{}}]]

(* labels_for_tools: what is not known is not trusted.                     *)
LabelsFor(tools) == {IF t \in DOMAIN Sources THEN Sources[t] ELSE "unclassified" : t \in tools}

CapabilitiesFor(tools) == {Capabilities[t] : t \in tools \cap DOMAIN Capabilities}

(* evaluate *)
Denied(labels, requested) ==
  \E rule \in Rules : rule.whenAny \cap labels # {} /\ rule.deny \cap requested # {}

LabelBit(labels, l, bit) == IF l \in labels THEN bit ELSE 0

(* The bits of the labels of the request's history, folded with or.        *)
TaintBits(tools) ==
  LET labels == LabelsFor(tools) IN
  IF mode = "off" THEN 0
  ELSE LabelBit(labels, "web", 1) + LabelBit(labels, "file", 2) + LabelBit(labels, "secrets", 4)
       + LabelBit(labels, "unclassified", 8) + LabelBit(labels, "email", 16)

(* The policy of wasmpolicy.rs's tests: a context that read secrets is     *)
(* blocked.                                                                *)
PolicyBlocks(bits) == (bits \div 4) % 2 = 1

(* accumulate_taint: one step, under the lock.                             *)
Accumulate(r, labels) == taint' = [taint EXCEPT ![r] = @ \cup labels]

(* The request goes on to another phase of the handler.                    *)
Becomes(c, phase, labels, tools) ==
  call' = [call EXCEPT ![c] = [phase |-> phase, header |-> call[c].header, history |-> call[c].history,
                               labels |-> labels, tools |-> tools]]

-----------------------------------------------------------------------------
(* The WASM policy; one that fails allows.                                 *)
WasmGate(c) ==
  /\ call[c].phase = "arrived"
  /\ \/ LET blocks == WasmLoaded /\ PolicyBlocks(TaintBits(ToolNamesIn(call[c].history)))
        IN Becomes(c, IF blocks THEN "refused" ELSE "admitted", {}, {}) /\ UNCHANGED broken
     \/ WasmLoaded /\ Becomes(c, "admitted", {}, {}) /\ broken' = broken \cup {c}
  /\ UNCHANGED <<mode, taint, touched>>

(* Before the upstream is called: header and history are added to the run, *)
(* and the run's labels at this moment are kept.                           *)
Collect(c) ==
  LET r == RunOf[c]
      labels == call[c].header \cup LabelsFor(ToolNamesIn(call[c].history))
  IN /\ call[c].phase = "admitted"
     /\ IF mode = "off" THEN UNCHANGED taint /\ Becomes(c, "sent", {}, {})
        ELSE Accumulate(r, labels) /\ Becomes(c, "sent", taint[r] \cup labels, {})
     /\ touched' = [touched EXCEPT ![r] = @ \cup labels]
     /\ UNCHANGED <<mode, broken>>

\* Mutant of Judge: what would be blocked is not recorded in shadow mode.
JudgeShadowForgets(c, tools) ==
  LET r == RunOf[c]
      hit == Denied(call[c].labels, CapabilitiesFor(tools))
  IN IF mode = "off" \/ (mode = "shadow" /\ hit) THEN UNCHANGED taint /\ Becomes(c, "released", call[c].labels, tools)
     ELSE IF mode = "enforce" /\ hit THEN UNCHANGED taint /\ Becomes(c, "blocked", call[c].labels, tools)
     ELSE Accumulate(r, LabelsFor(tools)) /\ Becomes(c, "released", call[c].labels, tools)

(* The firewall's part of buffered_managed.                                *)
Judge(c, tools) ==
  LET r == RunOf[c]
      hit == Denied(call[c].labels, CapabilitiesFor(tools))
  IN IF mode = "off" THEN UNCHANGED taint /\ Becomes(c, "released", call[c].labels, tools)
     ELSE IF mode = "enforce" /\ hit THEN UNCHANGED taint /\ Becomes(c, "blocked", call[c].labels, tools)
     ELSE Accumulate(r, LabelsFor(tools)) /\ Becomes(c, "released", call[c].labels, tools)

(* The upstream answers; a stream is passed on as it is.                   *)
Respond(c, blocks) ==
  LET tools == ToolNamesIn(blocks) IN
  /\ call[c].phase = "sent"
  /\ IF c \in Streamed THEN UNCHANGED taint /\ Becomes(c, "released", call[c].labels, tools)
     ELSE Judge(c, tools)
  /\ touched' = IF c \notin Streamed /\ call'[c].phase = "released" THEN [touched EXCEPT ![RunOf[c]] = @ \cup LabelsFor(tools)] ELSE touched
  /\ UNCHANGED <<mode, broken>>

Fails(c) ==
  /\ call[c].phase = "sent" /\ Becomes(c, "failed", call[c].labels, {})
  /\ UNCHANGED <<mode, taint, broken, touched>>

Next == \E c \in Calls : WasmGate(c) \/ Collect(c) \/ Fails(c) \/ \E blocks \in Answers : Respond(c, blocks)

Spec == Init /\ [][Next]_vars

-----------------------------------------------------------------------------
(* In enforce mode a buffered response reaches its caller only if no tool  *)
(* it asks for has a capability that some rule denies under any label of   *)
(* the call's own header and history, an unknown tool's included, or that  *)
(* the run had collected before the call was sent.                         *)
ContextGatesActions ==
  mode = "enforce" =>
    \A c \in Calls \ Streamed : call[c].phase = "released" =>
      \A t \in call[c].tools \cap DOMAIN Capabilities, rule \in Rules :
        Capabilities[t] \in rule.deny =>
          /\ rule.whenAny \cap (call[c].labels \cup call[c].header) = {}
          /\ \A h \in ToolNamesIn(call[c].history) :
               (IF h \in DOMAIN Sources THEN Sources[h] ELSE "unclassified") \notin rule.whenAny

(* docs/07: "a run accumulates taint monotonically": outside off mode the  *)
(* run keeps every label its calls, and the buffered responses they were   *)
(* given (would-be blocks in shadow mode too), have brought to it; two     *)
(* calls that collect at once do not lose each other's.                    *)
NothingForgotten ==
  mode # "off" => \A r \in RunIds : taint[r] = touched[r]

(* A policy that blocks contexts with secrets is given the secrets bit     *)
(* whatever else the history holds, so that unless it fails no such        *)
(* request goes upstream while labels are tracked.                         *)
SecretsPolicyHonoured ==
  WasmLoaded /\ mode # "off" =>
    \A c \in Calls \ broken :
      call[c].phase \in {"admitted", "sent", "released", "blocked", "failed"} =>
        ToolNamesIn(call[c].history) \cap {"vault_read", "read_secret"} = {}

(* What the firewall and the policy on secrets promise together.           *)
TaintGates == ContextGatesActions /\ NothingForgotten /\ SecretsPolicyHonoured
=============================================================================
