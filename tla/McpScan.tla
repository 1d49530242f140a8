------------------------------ MODULE McpScan ------------------------------
(***************************************************************************)
(* `tokenfuse mcp-scan` (crates/gateway/src/main.rs, mcpcli.rs,            *)
(* mcpclient.rs, mcpexposure_probe.rs; crates/core/src/mcp.rs,             *)
(* mcpexposure.rs, mcpreport.rs): fetch a server's tools in a three-message *)
(* handshake, scan them, compare them with a lock file, probe what the     *)
(* server gives away, and exit with a code that a pipeline is gated on.    *)
(* Scans follow one another; the server changes its tools when it likes.   *)
(***************************************************************************)
EXTENDS Integers, Sequences, SequencesExt, FiniteSets, FiniteSetsExt, TLC

CONSTANTS
  ToolSets,    \* what the server may offer: functions from names to definitions
  Fetchers,    \* names that look as if they fetch URLs
  Hosts,       \* [name, octets], octets <<>> unless it is an IPv4 literal
  Replies,     \* what a server may answer a POST with
  Options,     \* [source, lock, writeLock, threshold, skipExposure, attemptCall, callTool]
  MaxRuns      \* how many scans are run

(* What an instance must satisfy.                                          *)
ScanConstants == MaxRuns \in Nat

Info == 0
Low == 1
Medium == 2
High == 3
Critical == 4

VARIABLES
  served, host,
  lockFile,    \* [state, tools], state of {"absent", "broken", "ok"}
  opts, runs,
  phase,       \* idle, or what is next
  hand,        \* the handshake under way: [purpose, step, sid]
  tools,       \* the tools of the scan's own fetch
  probe,       \* ProbeOutcome, without the host
  report,      \* the findings
  summary,     \* how many there are of each severity
  code,        \* the exit code of the last scan
  posts        \* the POSTs of this scan: [method, sid]

vars == <<served, host, lockFile, opts, runs, phase, hand, tools, probe, report, summary, code, posts>>

NoTools == [t \in {} |-> ""]
NoProbe == [returned |-> FALSE, cors |-> FALSE, call |-> "not_requested"]
NewHand(purpose) == [purpose |-> purpose, step |-> "initialize", sid |-> {}]

Init ==
  /\ served \in ToolSets /\ host \in Hosts
  /\ lockFile \in {[state |-> "absent", tools |-> NoTools], [state |-> "broken", tools |-> NoTools]}
  /\ opts \in Options /\ runs = 0 /\ phase = "idle" /\ hand = NewHand("scan") /\ tools = NoTools /\ probe = NoProbe
  /\ report = <<>> /\ summary = [s \in Info..Critical |-> 0] /\ code = 2 /\ posts = <<>>

-----------------------------------------------------------------------------
(* post_rpc_full: the frame that answers, or none if there is an error.    *)
(* SSE frames that do not parse are dropped and the id is looked for; a    *)
(* JSON body is taken as it is.                                            *)
PostRpc(r, id) ==
  IF ~r.arrives \/ r.large \/ ~r.ok THEN {}
  ELSE CASE r.ctype = "sse" ->
              LET own == SelectSeq(r.frames, LAMBDA f : f.kind # "junk" /\ f.id = id)
              IN IF own = <<>> THEN {} ELSE {Head(own)}
         [] r.ctype = "json" -> {f \in {r.frames[1]} : f.kind # "junk"}
         [] OTHER -> {}

(* parse_tools: what holds no list of tools is an empty list.              *)
ParseTools(frame) == IF frame.kind = "tools" THEN served ELSE NoTools

(* scan_injection *)
ScanInjection(ts) == {t \in DOMAIN ts : ts[t] = "bad"}

(* diff *)
Changed(ts) == {t \in DOMAIN ts \cap DOMAIN lockFile.tools : ts[t] # lockFile.tools[t]}

Finding(kind, severity, names) == SetToSeq({[kind |-> kind, severity |-> severity, tool |-> t] : t \in names})

(* from_scan *)
FromScan(ts, compare) ==
  Finding("poisoning", High, ScanInjection(ts))
  \o (IF compare THEN Finding("rug_pull", Critical, Changed(ts))
                      \o Finding("new_tool", Medium, DOMAIN ts \ DOMAIN lockFile.tools)
                      \o Finding("removed_tool", Low, DOMAIN lockFile.tools \ DOMAIN ts)
      ELSE <<>>)

(* host_is_local *)
HostIsLocal(h) ==
  \/ h.name \in {"localhost", "::1"}
  \/ h.octets # <<>> /\ LET a == h.octets[1] IN LET b == h.octets[2] IN
       a \in {127, 10} \/ (a = 172 /\ b \in 16..31) \/ (a = 192 /\ b = 168) \/ (a = 169 /\ b = 254)

Plaintext == host.scheme = "http" /\ ~HostIsLocal(host)

(* exposure_findings *)
ExposureFindings ==
  LET one(kind, severity) == <<[kind |-> kind, severity |-> severity, tool |-> ""]>>
      open == probe.returned
  IN (IF open THEN one("exposure_unauth_list", IF HostIsLocal(host) THEN Info ELSE High) ELSE <<>>)
     \o (IF Plaintext THEN one("exposure_plaintext", IF open THEN High ELSE Medium) ELSE <<>>)
     \o (IF probe.cors THEN one("exposure_cors_wildcard", Medium) ELSE <<>>)
     \o (CASE probe.call = "not_requested" -> <<>>
           [] probe.call = "skipped" -> one("exposure_unauth_call_skipped", Info)
           [] probe.call = "rejected" -> one("exposure_unauth_call_rejected", Info)
           [] probe.call = "succeeded" -> one("exposure_unauth_call", Critical))

SsrfCapable(ts) == Finding("ssrf_capable_tool", Low, DOMAIN ts \cap Fetchers)

Count(fs) == [s \in Info..Critical |-> Len(SelectSeq(fs, LAMBDA f : f.severity = s))]

(* push_findings *)
PushFindings(extra) ==
  /\ report' = report \o extra
  /\ summary' = [s \in Info..Critical |-> summary[s] + Count(extra)[s]]

\* Mutant of ShouldFail: only what is over the threshold fails.
ShouldFailOver(fs) == opts.threshold # {} /\ \E i \in DOMAIN fs, t \in opts.threshold : fs[i].severity > t

(* max_severity, should_fail *)
ShouldFail(fs) == opts.threshold # {} /\ \E i \in DOMAIN fs, t \in opts.threshold : fs[i].severity >= t

(* scan_exit_code *)
Exit(c) == phase' = "idle" /\ code' = c

(* run_exposure_probe: the operator must name the tool.                    *)
CallTarget == opts.callTool

-----------------------------------------------------------------------------
(* main: the arguments.  A file is read at once; a threshold that does not *)
(* parse, both sources, or none, is exit 2.                                *)
Start ==
  /\ phase = "idle" /\ runs < MaxRuns /\ runs' = runs + 1
  /\ \E o \in Options :
       /\ opts' = o
       /\ CASE o.source = "url" -> phase' = "post" /\ UNCHANGED <<code, tools>>
            [] o.source = "file" ->
                 \/ \E f \in {"tools", "error"} : /\ phase' = "build" /\ UNCHANGED code
                                                /\ tools' = (IF f = "tools" THEN served ELSE NoTools)
                 \/ Exit(2) /\ UNCHANGED tools            \* it does not read or parse
            [] OTHER -> Exit(2) /\ UNCHANGED tools
  /\ hand' = NewHand("scan") /\ probe' = NoProbe /\ posts' = <<>> /\ report' = <<>>
  /\ summary' = [s \in Info..Critical |-> 0]
  /\ UNCHANGED <<served, host, lockFile>>

(* The last of a handshake: the scan's list, the probe's, or a call.       *)
Conclude(frames, r) ==
  CASE hand.purpose = "scan" ->
         /\ IF frames = {} THEN Exit(2) /\ UNCHANGED tools
            ELSE phase' = "build" /\ UNCHANGED code /\ tools' = ParseTools(CHOOSE f \in frames : TRUE)
         /\ UNCHANGED <<probe, hand>>
    [] hand.purpose = "probe" ->
         /\ probe' = [probe EXCEPT !.returned = \E f \in frames : ParseTools(f) # NoTools,
                                   !.cors = frames # {} /\ r.cors]
         /\ phase' = "probed" /\ UNCHANGED <<hand, tools, code>>
    [] hand.purpose = "call" ->
         /\ probe' = [probe EXCEPT !.call = IF \E f \in frames : f.kind # "error" THEN "succeeded" ELSE "rejected"]
         /\ phase' = "merge" /\ UNCHANGED <<hand, tools, code>>

(* fetch_tools_list, fetch_tools_list_probe, probe_tools_call: one POST.   *)
Post(r) ==
  /\ phase = "post"
  /\ LET method == IF hand.step # "request" THEN hand.step ELSE IF hand.purpose = "call" THEN "tools/call" ELSE "tools/list"
         good == IF hand.step = "initialized" THEN r.arrives /\ r.ok
                 ELSE PostRpc(r, IF hand.step = "initialize" THEN 1 ELSE 2) # {}
     IN /\ posts' = Append(posts, [method |-> method, sid |-> hand.sid])
        /\ CASE hand.step = "request" -> Conclude(PostRpc(r, 2), r)
             [] hand.step # "request" /\ ~good -> Conclude({}, r)
             [] hand.step = "initialize" /\ good ->
                  hand' = [hand EXCEPT !.step = "initialized", !.sid = r.sid] /\ UNCHANGED <<phase, tools, probe, code>>
             [] hand.step = "initialized" /\ good ->
                  hand' = [hand EXCEPT !.step = "request"] /\ UNCHANGED <<phase, tools, probe, code>>
  /\ UNCHANGED <<served, host, lockFile, opts, runs, report, summary>>

(* build_scan_report: the lock is written, or read and compared.           *)
Build ==
  /\ phase = "build"
  /\ LET next == IF opts.source = "url" /\ ~opts.skipExposure THEN "probe" ELSE "emit"
         done(fs) == report' = fs /\ summary' = Count(fs) /\ phase' = next /\ UNCHANGED code
     IN IF opts.lock /\ opts.writeLock
        THEN \/ lockFile' = [state |-> "ok", tools |-> tools] /\ done(FromScan(tools, FALSE))
             \/ UNCHANGED <<lockFile, report, summary>> /\ Exit(2)      \* fs::write fails
        ELSE /\ UNCHANGED lockFile
             /\ IF opts.lock /\ lockFile.state # "ok" THEN UNCHANGED <<report, summary>> /\ Exit(2)
                ELSE done(FromScan(tools, opts.lock))
  /\ UNCHANGED <<served, host, opts, runs, hand, tools, probe, posts>>

StartProbe ==
  /\ phase = "probe" /\ phase' = "post" /\ hand' = NewHand("probe")
  /\ UNCHANGED <<served, host, lockFile, opts, runs, tools, probe, report, summary, code, posts>>

(* The opt-in call, after the list.                                        *)
StartCall ==
  /\ phase = "probed"
  /\ IF ~opts.attemptCall THEN phase' = "merge" /\ UNCHANGED <<hand, probe>>
     ELSE IF CallTarget = {} THEN phase' = "merge" /\ probe' = [probe EXCEPT !.call = "skipped"] /\ UNCHANGED hand
     ELSE phase' = "post" /\ hand' = NewHand("call") /\ UNCHANGED probe
  /\ UNCHANGED <<served, host, lockFile, opts, runs, tools, report, summary, code, posts>>

Merge ==
  /\ phase = "merge" /\ phase' = "emit"
  /\ PushFindings(ExposureFindings \o SsrfCapable(tools))
  /\ UNCHANGED <<served, host, lockFile, opts, runs, hand, tools, probe, code, posts>>

(* emit_report, which may fail to write a file, and the exit code.         *)
Emit ==
  /\ phase = "emit"
  /\ Exit(IF ShouldFail(report) THEN 1 ELSE 0) \/ Exit(2)
  /\ UNCHANGED <<served, host, lockFile, opts, runs, hand, tools, probe, report, summary, posts>>

ServerChanges ==
  /\ served' \in ToolSets \ {served}
  /\ UNCHANGED <<host, lockFile, opts, runs, phase, hand, tools, probe, report, summary, code, posts>>

Next == Start \/ Build \/ StartProbe \/ StartCall \/ Merge \/ Emit \/ ServerChanges \/ \E r \in Replies : Post(r)

Spec == Init /\ [][Next]_vars

-----------------------------------------------------------------------------
(* A scan that compared the server's tools with the lock and exits green   *)
(* saw no tool whose definition differs from the pinned one, whatever      *)
(* failed, and whatever the server did, since it was pinned.               *)
GreenMeansUnchanged ==
  phase = "idle" /\ runs > 0 /\ code = 0 /\ opts.lock /\ ~opts.writeLock /\ opts.threshold # {} =>
    lockFile.state = "ok" /\ \A t \in DOMAIN lockFile.tools \cap DOMAIN tools : tools[t] = lockFile.tools[t]

(* A server on a public address that lists its tools to anyone fails a     *)
(* scan at the default threshold, and one on a private address (10/8,      *)
(* 127/8, 172.16/12, 192.168/16, 169.254/16) is not failed for that alone. *)
PublicExposureFails ==
  phase = "idle" /\ runs > 0 /\ opts.threshold = {High} /\ opts.source = "url" /\ ~opts.skipExposure /\ code # 2 =>
    /\ probe.returned /\ host.public => code = 1
    /\ code = 1 /\ ~host.public => \E i \in DOMAIN report : report[i].severity >= High /\ report[i].kind # "exposure_unauth_list"

(* "Invoking a tool is inherently side-effecting, so this must never run   *)
(* unless the operator explicitly asked for it": a call goes out only if   *)
(* it was asked for and the tool was named; and every request after        *)
(* initialize carries the session the server gave in that handshake.       *)
CallOnlyWhenNamed ==
  /\ \A i \in DOMAIN posts : posts[i].method = "tools/call" => opts.attemptCall /\ opts.callTool # {}
  /\ \A i \in DOMAIN posts : posts[i].method \in {"tools/list", "tools/call"} =>
       i > 2 /\ posts[i - 1] = [method |-> "initialized", sid |-> posts[i].sid] /\ posts[i - 2].method = "initialize"

(* The summary counts the findings of the report, those that were merged   *)
(* into it after the scan too.                                             *)
SummaryMatches == \A s \in Info..Critical : summary[s] = Cardinality({i \in DOMAIN report : report[i].severity = s})
=============================================================================
