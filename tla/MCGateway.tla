----------------------------- MODULE MCGateway -----------------------------
(* Instances of the parts of the gateway that keep state of their own      *)
(* beside the request path: unit budgets, Wardryx, firewall, MCP broker,   *)
(* key report, semantic cache and identity (GatewayParts).  A behaviour    *)
(* runs one part, chosen at the start; the others stay in one of their     *)
(* initial states.                                                         *)
EXTENDS GatewayParts, Sequences, FiniteSets, TLC

CONSTANT Parts   \* the parts to run

VARIABLE part

-----------------------------------------------------------------------------
(* The tasks of a part (callers, clients, readers) are interchangeable.    *)
TaskPerms == Permutations(Callers)

(* Units that the identity map caps.                                       *)
FileCaps == [u \in Units |-> 3]

(* Calls differ in their number only: it is the order they begin in.       *)
InOrder == \A c \in Calls : c > 1 /\ call'[c - 1].phase = "idle" => call'[c].phase = "idle"

(* An override matters to a call that has not read its cap yet; the        *)
(* operator changes it in the first month.                                 *)
OverrideMatters == overrides' # overrides => month = 1 /\ \E c \in Calls : call[c].phase = "timed"

(* One agent, attested or not and early or late in its run; policies that  *)
(* deny a tool, deny the unattested, limit steps and hold.                 *)
Rule(denied, attestedOnly, stepRule, beyond) ==
  [denied |-> denied, attestedOnly |-> attestedOnly, stepRule |-> stepRule,
   maxSteps |-> 1, beyond |-> beyond]

ShellCall(attested, steps) == [agent |-> "a", tools |-> {"shell"}, attested |-> attested, steps |-> steps]

ShellCalls == {ShellCall(TRUE, 0), ShellCall(FALSE, 0), ShellCall(TRUE, 1)}
HookPolicies == {Rule({}, TRUE, FALSE, "deny"), Rule({"shell"}, FALSE, TRUE, "deny"), Rule({}, FALSE, TRUE, "hold")}

(* Three calls of two runs.                                                *)
Use(t) == [type |-> "tool_use", name |-> t]
Mention(t) == [type |-> "text", name |-> t]

RunOfPost == <<"main", "main", "sub">>
WebOrNone == {{}, {"web"}}
PostHistories == {{Mention("vault_read")}, {Use("vault_read"), Use("read_email"), Use("my_tool")}}
PostAnswers == {{Mention("bash"), Use("http_post")}, {Use("bash"), Use("fetch_url")}, {Use("vault_read")}}

(* Two overlapping calls; one server listed by name and one by default.    *)
Tok(k) == [kind |-> k, name |-> "t"]
Rpc(method, upstream, agent, args) ==
  [method |-> method, upstream |-> upstream, agent |-> agent, args |-> args,
   tool |-> IF upstream = "" THEN "shell" ELSE "push"]

Handle(name) == [kind |-> "handle", name |-> name]

(* A key that the scanners know the form of, and one that they do not.     *)
Secrets == [name \in {"key", "odd"} |-> [kind |-> IF name = "key" THEN "secret" ELSE "plain", name |-> name]]

RpcRequests ==
  {Rpc("call", "", {"a"}, <<Handle("odd"), Tok("plain")>>), Rpc("call", "git", {"a"}, <<Handle("key"), Tok("pii")>>),
   Rpc("call", "gone", {"a"}, <<Handle("key")>>), Rpc("call", "", {}, <<Handle("key"), Handle("other")>>),
   Rpc("call", "", {""}, <<Tok("secret")>>), Rpc("list", "", {"a"}, <<>>)}

(* A server's own answer: nothing, or a key and a card as a JSON number.   *)
OwnAnswers == {<<>>, <<Tok("secret"), Tok("number")>>}

Lists == {[t \in {"shell"} |-> "v1"], [t \in {"shell", "web"} |-> IF t = "shell" THEN "v2" ELSE "v1"],
          [t \in {"shell", "web"} |-> IF t = "shell" THEN "v1" ELSE "bad"]}
Pinned == [t \in {"shell"} |-> "v1"]
Conf(onList, dlp, pii, gate, lock, events) ==
  [scan |-> onList, dlp |-> dlp, pii |-> pii, wardryx |-> gate, lock |-> lock, events |-> events]

Servers == [u \in {"git"} |-> "url2"]
BrokerConfigs ==
  {Conf("off", "off", "off", "off", {}, TRUE), Conf("warn", "shadow", "shadow", "shadow", {Pinned}, TRUE),
   Conf("block", "block", "mask", "enforce", {Pinned}, TRUE), Conf("block", "shadow", "block", "enforce", {}, FALSE),
   Conf("warn", "shadow", "mask", "enforce", {Pinned}, TRUE)}
Vetoes == {[deny |-> {}, hold |-> {}], [deny |-> {"shell"}, hold |-> {"push"}]}

(* Calls come and end in the first two moments, no time passes between     *)
(* the two rows of a call, and the process restarts when it has something  *)
(* to lose.                                                                *)
KeysInTime ==
  /\ inFlight' # inFlight => clk <= 2
  /\ clk' # clk => \A c \in inFlight : c.phase # "recorded"
  /\ KeyUse!Restart => clk = 2 /\ counted # {}

(* Questions of three words; two texts are as similar as they have words   *)
(* in the same place, so that another number changes little.               *)
WordSim(a, b) ==
  IF Len(a) # Len(b) THEN 0
  ELSE 100 - 10 * Cardinality({i \in DOMAIN a : a[i] # b[i]})

Ask(topic, text) ==
  [model |-> "m", system |-> <<<<"s">>, <<"t">>>>, tools |-> {}, task |-> topic,
   messages |-> <<[role |-> "user", text |-> text]>>]

AllUsers == Ask("t", <<"list", "all", "users">>)
Asked ==
  {AllUsers, Ask("t", <<"list", "the", "users">>), Ask("t", <<"list", "5", "users">>), Ask("t", <<"list", "50", "users">>),
   Ask("u", <<"list", "all", "users">>), [AllUsers EXCEPT !.tools = {"shell"}], [AllUsers EXCEPT !.system = <<<<"s">>>>]}

(* Two units, keys with and without agents, overlapping prefixes; one      *)
(* document with a typo in its keys and one that lists a key twice.        *)
Pat(kind, text) == [kind |-> kind, text |-> text]
U(id, budget) == [id |-> id, budget |-> budget]
K(key, u, agents) == [key |-> key, unit |-> u, agents |-> agents]
P(pattern, u) == [pattern |-> pattern, unit |-> u]
S(secret, key) == [secret |-> secret, key |-> key]

PrefixRules == <<P(Pat("prefix", <<"t", "x">>), "u1"), P(Pat("prefix", <<"t">>), "u2")>>
BoundKeys == <<K("k1", "u1", <<Pat("prefix", <<"t">>), Pat("literal", <<"w">>)>>), K("k2", "u2", <<>>)>>
Map == [units |-> <<U("u1", {5}), U("u2", {})>>, keys |-> BoundKeys, prefixes |-> PrefixRules]

Doc(spec, map, onMismatch) == [spec |-> spec, map |-> map, strict |-> onMismatch]
ThreeKeys == <<S("s1", "k1"), S("s2", "k2"), S("s3", "k3")>>
SomeDocuments ==
  {Doc(ThreeKeys, Map, "enforce"), Doc(ThreeKeys, Map, "warn"),
   Doc(<<S("s1", ""), S("", "k1")>>, Map, "off"),
   Doc(<<>>, [Map EXCEPT !.keys = <<>>], "warn"),
   Doc(<<S("s1", "k2"), S("s1", "k1")>>, [Map EXCEPT !.keys = <<K("k1", "u1", <<>>), K("k1", "u2", <<>>)>>], "enforce"),
   Doc(ThreeKeys, [Map EXCEPT !.prefixes = <<P(Pat("malformed", <<"t">>), "u1")>>], "off"),
   Doc(ThreeKeys, Map, "strict"),
   Doc(ThreeKeys, [Map EXCEPT !.units = <<U("u1", {0}), U("u2", {})>>], "warn")}

C(secret, agent, run) == [secret |-> secret, agent |-> agent, run |-> run]
KeyedCalls == {C("s1", <<"t", "x">>, "r"), C("s1", <<"w">>, "r"), C("s1", <<"z">>, "r"), C("s1", <<>>, "r"),
               C("s2", <<"t", "x">>, "r"), C("s3", <<"t", "x">>, "r"), C("s2", <<"t">>, ""), C("", <<"t", "y">>, "r")}

ASSUME Hook!WardryxConstants /\ Wall!FirewallConstants /\ KeyUse!KeysConstants /\ Cached!CacheConstants
       /\ Keyed!IdentityConstants

-----------------------------------------------------------------------------
HookVars == <<policy, history, cache, asking, served, holds, now, calls, changes>>
WallVars == <<mode, taint, post, broken, touched>>
BrokerVars == <<config, slot, listed, toolPolicy, wire, decided, audit, replies, taken, toolChanges>>
KeyUseVars ==
  <<strict, inFlight, buffered, written, past, inherited, admitted, stats, counted, mismatched, folds, scan, reports, clk, total>>
CachedVars == <<store, waiting, hits, stored, lookUps, hour>>
KeyedVars == <<docs, gateway, tally, line, records, forwarded, admissions, refused, starts, presented>>

(* The initial state of a part that does not run.                          *)
HookInit == Hook!Init /\ (part # "wardryx" => policy = CHOOSE p \in Policies : TRUE)
WallInit == /\ Wall!Init
            /\ part # "firewall" => mode = "off" /\ \A c, d \in Posts : post[c] = post[d] /\ post[c].header = {}
                                    /\ post[c].history = CHOOSE h \in Histories : TRUE
BrokerInit == /\ Broker!Init
              /\ part # "broker" => /\ config = CHOOSE c \in Configs : TRUE
                                    /\ listed = CHOOSE l \in ToolLists : TRUE
                                    /\ toolPolicy = CHOOSE p \in ToolPolicies : TRUE

KeyUseInit == KeyUse!Init /\ (part # "keys" => strict = CHOOSE x \in Strict : TRUE)

KeyedInit == Keyed!Init /\ (part # "identity" => docs = CHOOSE d \in Documents : TRUE)

MCInit ==
  /\ part \in Parts
  /\ Init /\ HookInit /\ WallInit /\ BrokerInit /\ KeyUseInit /\ Cached!Init /\ KeyedInit

MCNext ==
  /\ UNCHANGED part
  /\ IF part = "units" THEN Next /\ InOrder /\ OverrideMatters ELSE UNCHANGED vars
  /\ IF part = "wardryx" THEN Hook!Next ELSE UNCHANGED HookVars
  /\ IF part = "firewall" THEN Wall!Next ELSE UNCHANGED WallVars
  /\ IF part = "broker" THEN Broker!Next ELSE UNCHANGED BrokerVars
  /\ IF part = "keys" THEN KeyUse!Next /\ KeysInTime ELSE UNCHANGED KeyUseVars
  /\ IF part = "cache" THEN Cached!Next ELSE UNCHANGED CachedVars
  /\ IF part = "identity" THEN Keyed!Next ELSE UNCHANGED KeyedVars

MCSpec == MCInit /\ [][MCNext]_<<part, vars, HookVars, WallVars, BrokerVars, KeyUseVars, CachedVars, KeyedVars>>
=============================================================================
