--------------------------- MODULE SemanticCache ---------------------------
(***************************************************************************)
(* The semantic response cache (crates/core/src/cache.rs) as the request   *)
(* handler uses it (crates/gateway/src/proxy.rs): a look-up before the     *)
(* call is paid for, and a store after a successful response.  Calls       *)
(* overlap.  A text is a sequence of words, of which Entities carry a      *)
(* digit, an @ or a URL; what the embedder makes of two texts is Sim.      *)
(***************************************************************************)
EXTENDS Integers, Sequences, FiniteSets, SequencesExt

CONSTANTS
  Callers,
  Requests,      \* [model, system, tools, task, messages]; system in blocks
  Entities,      \* the words that extract_entities keeps
  Sim(_, _),     \* similarity of two texts, in percent
  Threshold,     \* 97
  CoreWords,     \* the semantic core's length (512 characters)
  MaxRatio,      \* length_ratio_max, in percent
  Ttl, Capacity, \* ttl_millis, max_per_partition
  Serving,       \* CacheMode: TRUE is On, FALSE is Shadow
  MaxCalls,      \* bound: calls
  MaxNow         \* bound: the clock


VARIABLES
  store,    \* partition -> entries; nr tells the order they were pushed in
  call,     \* per caller the request it is waiting on, or an empty sequence
  served,   \* history: hits, [q, entry, at]
  stored,   \* history: every entry that was pushed
  calls, now

vars == <<store, call, served, stored, calls, now>>

Init ==
  /\ store = <<>>
  /\ call = [c \in Callers |-> <<>>]
  /\ served = {} /\ stored = {}
  /\ calls = 0 /\ now = 1

-----------------------------------------------------------------------------
(* cache_eligible: no tools are defined.                                   *)
Eligible(q) == q.tools = {}

(* semantic_core: the last user message, cut off.                          *)
Core(q) ==
  LET user == SelectSeq(q.messages, LAMBDA m : m.role = "user")
      text == IF user = <<>> THEN <<>> ELSE Last(user).text
  IN SubSeq(text, 1, IF Len(text) < CoreWords THEN Len(text) ELSE CoreWords)

(* system_text with concat_text_blocks: the blocks' texts, run together.   *)
SystemText(q) == FlattenSeq(q.system)

(* partition_key; the tenant is fixed.                                     *)
Partition(q) == <<q.model, SystemText(q), q.tools, q.task>>

ExtractEntities(text) == ToSet(text) \cap Entities

RatioOk(a, b) ==
  LET x == IF a > 1 THEN a ELSE 1
      y == IF b > 1 THEN b ELSE 1
  IN (IF x > y THEN x * 100 <= MaxRatio * y ELSE y * 100 <= MaxRatio * x)

Entries(p) == IF p \in DOMAIN store THEN store[p] ELSE {}

\* Mutant of Live: entries never expire.
LiveForever(p) == Entries(p)

(* Expired entries are dropped when their partition is looked at.          *)
Live(p) == {e \in Entries(p) : now - e.created <= Ttl}

Matches(core, e) ==
  /\ ExtractEntities(e.core) = ExtractEntities(core)
  /\ RatioOk(Len(core), Len(e.core))
  /\ Sim(core, e.core) >= Threshold

(* get: the most similar match, the oldest of equals.                      *)
Best(core, entries) ==
  LET ok == {e \in entries : Matches(core, e)}
  IN CHOOSE e \in ok : \A f \in ok :
       \/ Sim(core, f.core) < Sim(core, e.core)
       \/ Sim(core, f.core) = Sim(core, e.core) /\ e.nr <= f.nr

HasMatch(core, entries) == \E e \in entries : Matches(core, e)

(* What an instance must satisfy: similarities are at most 100 percent.    *)
CacheConstants ==
  /\ {Ttl, Capacity, CoreWords, MaxRatio, Threshold} \subseteq Nat
  /\ \A q, r \in Requests : Sim(Core(q), Core(r)) \in Int /\ Sim(Core(q), Core(r)) <= 100

(* messages: an eligible request is looked up, and on a hit answered from  *)
(* the cache; in shadow mode the call goes on.                             *)
LookUp(c, q) ==
  /\ call[c] = <<>> /\ calls < MaxCalls
  /\ calls' = calls + 1
  /\ IF Eligible(q)
     THEN LET entries == Live(Partition(q)) IN
            /\ store' = IF Partition(q) \in DOMAIN store THEN [store EXCEPT ![Partition(q)] = entries] ELSE store
            /\ IF HasMatch(Core(q), entries) /\ Serving
               THEN /\ served' = served \cup {[q |-> q, entry |-> Best(Core(q), entries), at |-> now]}
                    /\ UNCHANGED call
               ELSE call' = [call EXCEPT ![c] = <<q>>] /\ UNCHANGED served
     ELSE call' = [call EXCEPT ![c] = <<q>>] /\ UNCHANGED <<store, served>>
  /\ UNCHANGED <<stored, now>>

Oldest(entries) == CHOOSE e \in entries : \A f \in entries : e.nr <= f.nr

(* put: at the cap the oldest goes.                                        *)
Trimmed(entries) == IF Cardinality(entries) > Capacity THEN entries \ {Oldest(entries)} ELSE entries

Put(p, e) ==
  [x \in DOMAIN store \cup {p} |-> IF x = p THEN Trimmed(Entries(p) \cup {e}) ELSE store[x]]

(* The upstream answers; only a 200 to an eligible request is stored.      *)
Complete(c, ok) ==
  /\ call[c] # <<>>
  /\ LET q == call[c][1]
         e == [core |-> Core(q), q |-> q, ok |-> ok, created |-> now, nr |-> Cardinality(stored) + 1] IN
       IF ok /\ Eligible(q) THEN /\ store' = Put(Partition(q), e)
                                 /\ stored' = stored \cup {e}
       ELSE UNCHANGED <<store, stored>>
  /\ call' = [call EXCEPT ![c] = <<>>]
  /\ UNCHANGED <<served, calls, now>>

Tick ==
  /\ now < MaxNow
  /\ now' = now + 1
  /\ UNCHANGED <<store, call, served, stored, calls>>

Next ==
  \/ \E c \in Callers : (\E q \in Requests : LookUp(c, q)) \/ \E ok \in BOOLEAN : Complete(c, ok)
  \/ Tick

Spec == Init /\ [][Next]_vars

-----------------------------------------------------------------------------
(* A hit answers the same question: a response that the upstream gave with *)
(* success to a request of the same model, system prompt and task, without *)
(* tools, at most Ttl ago, whose core is similar and has the same entities. *)
HitsAnswerTheQuestion ==
  \A h \in served :
    /\ h.entry \in stored /\ h.entry.ok
    /\ h.entry.q.model = h.q.model /\ h.entry.q.task = h.q.task
    /\ SystemText(h.entry.q) = SystemText(h.q)
    /\ h.q.tools = {} /\ h.entry.q.tools = {}
    /\ h.at - h.entry.created <= Ttl
    /\ ExtractEntities(h.entry.core) = ExtractEntities(Core(h.q))
    /\ Sim(Core(h.q), h.entry.core) >= Threshold

(* However calls overlap, a partition holds at most Capacity responses and *)
(* they are the newest that were stored and have not expired: a flood of   *)
(* new ones never pushes out a newer one.                                  *)
NewestKept ==
  \A p \in DOMAIN store :
    /\ Cardinality(store[p]) <= Capacity
    /\ \A e \in stored : (Partition(e.q) = p /\ now - e.created <= Ttl) =>
         \/ e \in store[p]
         \/ Cardinality(store[p]) = Capacity /\ \A f \in store[p] : e.nr < f.nr
=============================================================================
