------------------------------ MODULE Identity ------------------------------
(***************************************************************************)
(* Who a call belongs to (crates/gateway/src/clientkeys.rs,                *)
(* identitymap.rs): the gateway starts from the client keys and the        *)
(* identity map an operator wrote, or refuses to; each call is admitted by *)
(* its credential, attributed to a unit and, in strict mode, held to the   *)
(* agents its key may speak for (proxy.rs).  Operators correct the         *)
(* documents and restart the gateway; calls overlap.                       *)
(* An agent id is a sequence of segments.  A pattern is [kind, text] with  *)
(* kind "literal", "prefix" (a final star) or "malformed" (another star).  *)
(***************************************************************************)
EXTENDS Integers, Sequences, FiniteSets, SequencesExt

CONSTANTS
  Callers,
  Documents,     \* [spec, map, strict]: what operators write
  Calls,         \* [secret, agent, run]: what callers present; run = "" is unmanaged
  MaxCalls,      \* bound: calls
  MaxStarts      \* bound: starts
(* What an instance must satisfy: a spec is a list.                        *)
IdentityConstants == \A d \in Documents : Len(d.spec) \in Nat /\ DOMAIN d.spec = 1 .. Len(d.spec)

VARIABLES
  docs,       \* the documents on disk
  gateway,    \* Down, or what the running gateway loaded
  stats,      \* key_id -> [calls, mismatches], since the start
  slot,       \* per caller the call it is in, or an empty sequence
  records,    \* history: trace rows, [key, agent, unit, decision, strict, binding, epoch]
  forwarded,  \* history: calls sent to the provider
  admitted,   \* history: number of calls admitted per key since the start
  refused,    \* unauthorized since the start
  starts, calls

Down == [up |-> FALSE]

vars == <<docs, gateway, stats, slot, records, forwarded, admitted, refused, starts, calls>>

Init ==
  /\ docs \in Documents
  /\ gateway = Down
  /\ stats = <<>> /\ slot = [c \in Callers |-> <<>>]
  /\ records = {} /\ forwarded = {} /\ admitted = <<>> /\ refused = 0
  /\ starts = 0 /\ calls = 0

-----------------------------------------------------------------------------
(* from_spec: entries [secret, key] in order; one that lacks a half is     *)
(* skipped, and a later one replaces an earlier of the same secret.        *)
Usable(spec) == {i \in DOMAIN spec : spec[i].secret # "" /\ spec[i].key # ""}

LastOf(spec, s) ==
  CHOOSE i \in Usable(spec) : spec[i].secret = s /\ \A j \in Usable(spec) : spec[j].secret = s => j <= i

BySecret(spec) == [s \in {spec[i].secret : i \in Usable(spec)} |-> spec[LastOf(spec, s)].key]

SpecUsable(spec) == spec = <<>> \/ Usable(spec) # {}

Distinct(seq, field) == \A i, j \in DOMAIN seq : seq[i][field] = seq[j][field] => i = j

Ids(map) == {map.units[i].id : i \in DOMAIN map.units}

(* build: every violation refuses the whole map; a unit's budget is a set  *)
(* of at most one amount.                                                  *)
MapValid(map) ==
  /\ Distinct(map.units, "id") /\ Distinct(map.keys, "key")
  /\ \A i \in DOMAIN map.units : map.units[i].id # "" /\ (\A b \in map.units[i].budget : b > 0)
  /\ \A i \in DOMAIN map.keys :
       /\ map.keys[i].key # "" /\ map.keys[i].unit \in Ids(map)
       /\ \A j \in DOMAIN map.keys[i].agents : map.keys[i].agents[j].kind # "malformed"
  /\ \A i \in DOMAIN map.prefixes : map.prefixes[i].unit \in Ids(map) /\ map.prefixes[i].pattern.kind # "malformed"

(* The resolvable form: keys by id, prefixes in order.                     *)
Build(map) ==
  [keyed |-> [k \in {map.keys[i].key : i \in DOMAIN map.keys} |->
               map.keys[CHOOSE i \in DOMAIN map.keys : map.keys[i].key = k]],
   prefixes |-> map.prefixes]

(* serve: keys, map and strict mode are all usable, or the process exits.  *)
Loads(d) == SpecUsable(d.spec) /\ MapValid(d.map) /\ d.strict \in {"off", "warn", "enforce"}

Loaded(d) == [up |-> TRUE, keys |-> BySecret(d.spec), strict |-> d.strict, map |-> Build(d.map)]

Start ==
  /\ gateway = Down /\ starts < MaxStarts
  /\ Loads(docs)
  /\ gateway' = Loaded(docs)
  /\ starts' = starts + 1
  /\ stats' = <<>> /\ admitted' = <<>> /\ refused' = 0
  /\ UNCHANGED <<docs, slot, records, forwarded, calls>>

(* The process stops: counters and calls in flight are gone.               *)
Stop ==
  /\ gateway # Down
  /\ gateway' = Down /\ slot' = [c \in Callers |-> <<>>]
  /\ UNCHANGED <<docs, stats, records, forwarded, admitted, refused, starts, calls>>

Edit(d) ==
  /\ gateway = Down /\ d # docs /\ starts < MaxStarts
  /\ docs' = d
  /\ UNCHANGED <<gateway, stats, slot, records, forwarded, admitted, refused, starts, calls>>

-----------------------------------------------------------------------------
PatternMatches(p, agent) == IF p.kind = "literal" THEN p.text = agent ELSE IsPrefix(p.text, agent)

(* resolve_client_key: "" when no keys are configured.                     *)
KeyOf(call) == IF gateway.keys = <<>> THEN {""}
               ELSE {gateway.keys[s] : s \in {call.secret} \cap DOMAIN gateway.keys}

\* Mutant of Unit: the agent id a caller writes is looked at first.
UnitByAgent(key, agent) ==
  LET hits == {i \in DOMAIN gateway.map.prefixes : PatternMatches(gateway.map.prefixes[i].pattern, agent)}
  IN IF hits # {} THEN gateway.map.prefixes[CHOOSE i \in hits : \A j \in hits : i <= j].unit
     ELSE IF key # "" /\ key \in DOMAIN gateway.map.keyed THEN gateway.map.keyed[key].unit ELSE ""

(* resolve: a bound key's unit, else the first prefix that matches.        *)
Unit(key, agent) ==
  LET hits == {i \in DOMAIN gateway.map.prefixes : PatternMatches(gateway.map.prefixes[i].pattern, agent)}
  IN IF key # "" /\ key \in DOMAIN gateway.map.keyed THEN gateway.map.keyed[key].unit
     ELSE IF hits # {} THEN gateway.map.prefixes[CHOOSE i \in hits : \A j \in hits : i <= j].unit ELSE ""

(* agent_id_missing or agent_id_not_allowed.                               *)
Mismatch(key, agent) ==
  /\ key # "" /\ key \in DOMAIN gateway.map.keyed
  /\ gateway.map.keyed[key].agents # <<>>
  /\ \/ agent = <<>>
     \/ \A i \in DOMAIN gateway.map.keyed[key].agents : ~PatternMatches(gateway.map.keyed[key].agents[i], agent)

Counters(key) == IF key \in DOMAIN stats THEN stats[key] ELSE [calls |-> 0, mismatches |-> 0]

Put(f, key, x) == [k \in DOMAIN f \cup {key} |-> IF k = key THEN x ELSE f[k]]

(* KeyStats::record_call; a blank key_id is not counted.                   *)
RecordCall(key) == IF key = "" THEN stats ELSE Put(stats, key, [Counters(key) EXCEPT !.calls = @ + 1])

(* KeyStats::record_identity_mismatch *)
RecordMismatch(key) == IF key = "" THEN stats ELSE Put(stats, key, [Counters(key) EXCEPT !.mismatches = @ + 1])

(* messages: the credential first; an unmanaged call goes straight on.     *)
Admit(c, call) ==
  /\ gateway # Down /\ slot[c] = <<>> /\ calls < MaxCalls
  /\ calls' = calls + 1
  /\ IF KeyOf(call) = {} THEN refused' = refused + 1 /\ UNCHANGED <<stats, slot, forwarded, admitted>>
     ELSE \E key \in KeyOf(call) :
       /\ stats' = RecordCall(key)
       /\ admitted' = Put(admitted, key, 1 + (IF key \in DOMAIN admitted THEN admitted[key] ELSE 0))
       /\ UNCHANGED refused
       /\ IF call.run = ""
          THEN forwarded' = forwarded \cup {[call |-> call, key |-> key, epoch |-> starts]} /\ UNCHANGED slot
          ELSE slot' = [slot EXCEPT ![c] = <<[call |-> call, key |-> key]>>] /\ UNCHANGED forwarded
  /\ UNCHANGED <<docs, gateway, records, starts>>

Row(key, call, decision) ==
  [key |-> key, call |-> call, unit |-> Unit(key, call.agent), decision |-> decision, epoch |-> starts]

(* The run is open; the map attributes the call and strict mode judges it. *)
Judge(c) ==
  /\ slot[c] # <<>>
  /\ LET call == slot[c][1].call
         key == slot[c][1].key
         bad == Mismatch(key, call.agent) IN
       /\ stats' = IF bad /\ gateway.strict # "off" THEN RecordMismatch(key) ELSE stats
       /\ IF bad /\ gateway.strict = "enforce"
          THEN records' = records \cup {Row(key, call, "identity_mismatch")} /\ UNCHANGED forwarded
          ELSE /\ records' = records \cup {Row(key, call, "ok")}
               /\ forwarded' = forwarded \cup {[call |-> call, key |-> key, epoch |-> starts]}
  /\ slot' = [slot EXCEPT ![c] = <<>>]
  /\ UNCHANGED <<docs, gateway, admitted, refused, starts, calls>>

Next ==
  \/ Start \/ Stop \/ \E d \in Documents : Edit(d)
  \/ \E c \in Callers : Judge(c) \/ \E call \in Calls : Admit(c, call)

Spec == Init /\ [][Next]_vars

-----------------------------------------------------------------------------
(* A running gateway has what its operator wrote, all of it: no credential *)
(* but a listed one admits when keys are listed, and every key, unit and   *)
(* pattern of the map is in force.                                         *)
NothingSilentlyOff ==
  gateway # Down =>
    /\ docs.spec # <<>> => gateway.keys # <<>>
    /\ \A i \in DOMAIN docs.map.keys : gateway.map.keyed[docs.map.keys[i].key] = docs.map.keys[i]
    /\ \A f \in forwarded : f.epoch = starts /\ docs.spec # <<>> => f.key # ""

(* What a caller writes cannot move the spend of a bound key: its rows     *)
(* carry the unit of its binding, and in enforce mode none of them was     *)
(* served for an agent outside it.                                         *)
BoundKeysKeepTheirUnit ==
  gateway # Down => \A r \in records : r.epoch = starts =>
    \A i \in DOMAIN docs.map.keys : docs.map.keys[i].key = r.key =>
      /\ r.unit = docs.map.keys[i].unit
      /\ gateway.strict = "enforce" /\ docs.map.keys[i].agents # <<>> /\ r.decision = "ok" =>
           r.call.agent # <<>> /\ \E j \in DOMAIN docs.map.keys[i].agents :
                                    PatternMatches(docs.map.keys[i].agents[j], r.call.agent)

(* The since-startup counters are those of the credentials admitted since  *)
(* this start, and no key has more mismatches than calls.                  *)
CountersReconcile ==
  /\ \A k \in DOMAIN stats : k # "" /\ k \in DOMAIN admitted /\ stats[k].calls = admitted[k] /\ stats[k].mismatches <= stats[k].calls
  /\ \A k \in DOMAIN admitted : k # "" => k \in DOMAIN stats
=============================================================================
