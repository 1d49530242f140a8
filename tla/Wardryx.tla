------------------------------ MODULE Wardryx ------------------------------
(***************************************************************************)
(* The Wardryx hook (crates/gateway/src/wardryx.rs): callers ask an        *)
(* external policy service whether an action may happen, behind a cache    *)
(* keyed by agent, tools and attestation.  Calls overlap, answers are      *)
(* slow, fail or time out, and operators change the policy meanwhile.      *)
(***************************************************************************)
EXTENDS Naturals

CONSTANTS
  Callers,
  Requests,     \* records [agent, tools, attested, steps]
  Policies,     \* see Evaluate
  Closed,       \* FailMode: TRUE denies when the service cannot be reached
  Ttl,          \* 3000 ms
  Timeout,      \* 50 ms
  MaxNow,       \* bound: the clock
  MaxCalls,     \* bound: calls
  MaxChanges    \* bound: policy changes

(* What an instance must satisfy.                                          *)
WardryxConstants == {Ttl, Timeout} \subseteq Nat /\ Closed \in BOOLEAN

VARIABLES
  policy,    \* the policy in force at the service
  history,   \* history: per moment the policies in force during it
  cache,     \* key -> [decision, at]
  call,      \* per caller [state, q, asked, answer]
  served,    \* per caller the outcome it got last: [q, decision, approval, from, at]
  holds,     \* approvals opened so far
  now, calls, changes

vars == <<policy, history, cache, call, served, holds, now, calls, changes>>

(* The service, external: it denies tools and unattested agents, denies a  *)
(* run beyond max_steps and holds what needs a human.  Rules on steps and  *)
(* holds depend on the request: no decision under them is cacheable.       *)
Evaluate(p, q) ==
  CASE p.denied \cap q.tools # {} -> "deny"
    [] p.attestedOnly /\ ~q.attested -> "deny"
    [] p.stepRule /\ q.steps >= p.maxSteps -> p.beyond
    [] OTHER -> "allow"

Cacheable(p) == ~p.stepRule

NoCall == [state |-> "idle"]
Nothing == [from |-> "nobody"]

Init ==
  /\ policy \in Policies
  /\ history = <<{policy}>>
  /\ cache = <<>>
  /\ call = [c \in Callers |-> NoCall]
  /\ served = [c \in Callers |-> Nothing]
  /\ holds = 0 /\ now = 1 /\ calls = 0 /\ changes = 0

(* Cache::key: the tool names sorted, so a set.                            *)
Key(q) == <<q.agent, q.tools, q.attested>>

(* Cache::get *)
Fresh(q) == Key(q) \in DOMAIN cache /\ now - cache[Key(q)].at < Ttl

Stored(q, decision) ==
  [k \in DOMAIN cache \cup {Key(q)} |-> IF k = Key(q) THEN [decision |-> decision, at |-> now] ELSE cache[k]]

\* Mutant of Put: whether the decision is cacheable is ignored.
PutAlways(q, decision, cacheable) == IF decision = "hold" THEN cache ELSE Stored(q, decision)

(* Cache::put *)
Put(q, decision, cacheable) ==
  IF decision = "hold" \/ ~cacheable THEN cache ELSE Stored(q, decision)

Serve(c, q, decision, approval, from) ==
  served' = [served EXCEPT ![c] = [q |-> q, decision |-> decision, approval |-> approval,
                                   from |-> from, at |-> now]]

-----------------------------------------------------------------------------
(* decide: a fresh entry answers; otherwise the service is asked.          *)
Decide(c, q) ==
  /\ call[c] = NoCall /\ calls < MaxCalls
  /\ calls' = calls + 1
  /\ IF Fresh(q)
     THEN Serve(c, q, cache[Key(q)].decision, 0, "cache") /\ UNCHANGED call
     ELSE call' = [call EXCEPT ![c] = [state |-> "asked", q |-> q, asked |-> now]] /\ UNCHANGED served
  /\ UNCHANGED <<policy, history, cache, holds, now, changes>>

(* The service decides; a hold opens an approval.                          *)
Answer(c) ==
  /\ call[c].state = "asked"
  /\ LET d == Evaluate(policy, call[c].q) IN
       /\ holds' = IF d = "hold" THEN holds + 1 ELSE holds
       /\ call' = [call EXCEPT ![c] = [state |-> "answered", q |-> call[c].q, asked |-> call[c].asked,
                                       decision |-> d, approval |-> IF d = "hold" THEN holds + 1 ELSE 0,
                                       cacheable |-> Cacheable(policy)]]
  /\ UNCHANGED <<policy, history, cache, served, now, calls, changes>>

(* The answer arrives in time: stored, and returned.                       *)
Receive(c) ==
  /\ call[c].state = "answered"
  /\ cache' = Put(call[c].q, call[c].decision, call[c].cacheable)
  /\ Serve(c, call[c].q, call[c].decision, call[c].approval, "service")
  /\ call' = [call EXCEPT ![c] = NoCall]
  /\ UNCHANGED <<policy, history, holds, now, calls, changes>>

FallbackDecision == IF Closed THEN "deny" ELSE "allow"

(* A transport error, an answer nobody can read, or the timeout.           *)
Fallback(c) ==
  /\ call[c].state \in {"asked", "answered"}
  /\ Serve(c, call[c].q, FallbackDecision, 0, "fallback")
  /\ call' = [call EXCEPT ![c] = NoCall]
  /\ UNCHANGED <<policy, history, cache, holds, now, calls, changes>>

ChangePolicy(p) ==
  /\ p # policy /\ changes < MaxChanges
  /\ policy' = p /\ changes' = changes + 1
  /\ history' = [history EXCEPT ![now] = @ \cup {p}]
  /\ UNCHANGED <<cache, call, served, holds, now, calls>>

(* No call outlasts its timeout.                                           *)
Tick ==
  /\ now < MaxNow
  /\ \A c \in Callers : call[c] # NoCall => now < call[c].asked + Timeout
  /\ now' = now + 1
  /\ history' = [t \in 1..(now + 1) |-> IF t = now + 1 THEN {policy} ELSE history[t]]
  /\ UNCHANGED <<policy, cache, call, served, holds, calls, changes>>

Next ==
  \/ \E c \in Callers : Answer(c) \/ Receive(c) \/ Fallback(c) \/ \E q \in Requests : Decide(c, q)
  \/ \E p \in Policies : ChangePolicy(p)
  \/ Tick

Spec == Init /\ [][Next]_vars

-----------------------------------------------------------------------------
(* A verdict s is one that a policy in force at most age ago gives this    *)
(* very request.                                                           *)
Current(s, age) ==
  \E t \in DOMAIN history : /\ t <= s.at /\ s.at <= t + age
                            /\ \E p \in history[t] : Evaluate(p, s.q) = s.decision

(* Whatever overlaps, no caller is served another request's verdict, a     *)
(* fallback of an outage that is over, or one older than an answer may     *)
(* take to arrive and, from the cache, as old as its lifetime beyond that. *)
VerdictsCurrent ==
  \A c \in Callers :
    /\ served[c].from = "service" => Current(served[c], Timeout)
    /\ served[c].from = "cache" => Ttl # 0 /\ Current(served[c], Ttl - 1 + Timeout)

(* "Never cache hold: a replayed hit would hand out a stale approval_id":  *)
(* a hold always comes with an approval, opened for this call alone.       *)
HoldsHaveOwnApproval ==
  \A c \in Callers : served[c] # Nothing /\ served[c].decision = "hold" =>
    /\ served[c].approval # 0
    /\ \A d \in Callers \ {c} : served[d] # Nothing => served[d].approval # served[c].approval
=============================================================================
