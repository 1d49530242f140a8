----------------------------- MODULE KeysReport -----------------------------
(***************************************************************************)
(* GET /v1/keys (crates/gateway/src/keysreport.rs with keystats.rs): the   *)
(* report joins the keys that are configured, the keys the identity map    *)
(* binds, the trace's history behind a short cache, and the counters of    *)
(* this process.  A call is counted, judged and recorded in steps of its   *)
(* own, and may leave no row or two; segments are written, scans are slow  *)
(* or fail, several readers overlap, and the process restarts or crashes.  *)
(***************************************************************************)
EXTENDS Naturals, FiniteSets, FiniteSetsExt

CONSTANTS
  Keys,            \* every key_id
  Configured, Bound,
  Readers,
  Strict,          \* what identity_strict may be: "off", "warn", "enforce"
  HasDir,          \* TOKENFUSE_DATA_DIR is set
  Ttl,             \* HISTORY_CACHE_TTL
  MaxScan,         \* bound: how long a scan takes
  MaxNow, MaxCalls \* bounds: the clock, calls

(* What an instance must satisfy.                                          *)
KeysConstants == Configured \cup Bound \subseteq Keys /\ HasDir \in BOOLEAN /\ {Ttl, MaxScan} \subseteq Nat

VARIABLES
  strict,     \* identity_strict of this process
  inFlight,   \* calls under way, [n, key, phase]
  buffered,   \* trace rows in memory
  written,    \* trace rows on disk, [n, part, key, ts, decision]
  past,       \* history: per moment the rows on disk at its start
  inherited,  \* history: the rows on disk when this process started
  admitted,   \* history: rows of this process
  stats,      \* KeyStats: key -> [calls, mismatches, last]
  counted, mismatched,  \* history: calls [n, key] of this process that were counted so
  cache,      \* HISTORY_CACHE: {} or {[at, fold]}
  scan,       \* per reader the scan it is in: {} or {[began, rows]}
  reports,    \* history: the report that the last step served, if it served one
  now, calls

callVars == <<strict, inFlight, buffered, admitted, stats, counted, mismatched, calls>>
diskVars == <<written, past, inherited>>
readVars == <<cache, scan>>

vars == <<callVars, diskVars, readVars, reports, now>>

Init ==
  /\ strict \in Strict
  /\ inFlight = {} /\ buffered = {} /\ written = {} /\ past = <<{}>>
  /\ inherited = {} /\ admitted = {}
  /\ stats = <<>> /\ counted = {} /\ mismatched = {} /\ cache = {}
  /\ scan = [r \in Readers |-> {}]
  /\ reports = {} /\ now = 1 /\ calls = 0

NothingServed == reports' = {}

Counters(k) == IF k \in DOMAIN stats THEN stats[k] ELSE [calls |-> 0, mismatches |-> 0, last |-> 0]

Put(k, entry) == [x \in DOMAIN stats \cup {k} |-> IF x = k THEN entry ELSE stats[x]]

Becomes(c, phase) == (inFlight \ {c}) \cup {[c EXCEPT !.phase = phase]}

(* record_call: a call whose key was resolved is counted, whatever will    *)
(* become of it.                                                           *)
Count(k) ==
  /\ calls < MaxCalls
  /\ calls' = calls + 1
  /\ stats' = Put(k, [Counters(k) EXCEPT !.calls = @ + 1, !.last = now])
  /\ counted' = counted \cup {[n |-> calls', key |-> k]}
  /\ inFlight' = inFlight \cup {[n |-> calls', key |-> k, phase |-> "counted"]}
  /\ UNCHANGED <<strict, buffered, admitted, mismatched, diskVars, readVars, now>> /\ NothingServed

\* Mutant of Judge: a refusal is not counted.
JudgeWarnOnly(c) ==
  /\ c.phase = "counted"
  /\ \E mismatch \in BOOLEAN :
       /\ IF mismatch /\ strict = "warn"
          THEN /\ stats' = Put(c.key, [Counters(c.key) EXCEPT !.mismatches = @ + 1])
               /\ mismatched' = mismatched \cup {[n |-> c.n, key |-> c.key]}
          ELSE UNCHANGED <<stats, mismatched>>
       /\ inFlight' = Becomes(c, IF mismatch /\ strict = "enforce" THEN "refused" ELSE "judged")
  /\ UNCHANGED <<strict, buffered, admitted, counted, calls, diskVars, readVars, now>> /\ NothingServed

(* Its run is open: a mismatch is counted unless the mode is off, and      *)
(* where the mode is enforce the call goes to its refusal.                 *)
Judge(c) ==
  /\ c.phase = "counted"
  /\ \E mismatch \in BOOLEAN :
       /\ IF mismatch /\ strict # "off"
          THEN /\ stats' = Put(c.key, [Counters(c.key) EXCEPT !.mismatches = @ + 1])
               /\ mismatched' = mismatched \cup {[n |-> c.n, key |-> c.key]}
          ELSE UNCHANGED <<stats, mismatched>>
       /\ inFlight' = Becomes(c, IF mismatch /\ strict = "enforce" THEN "refused" ELSE "judged")
  /\ UNCHANGED <<strict, buffered, admitted, counted, calls, diskVars, readVars, now>> /\ NothingServed

(* A row: the refusal's after the run's snapshot, the outcome's of a call  *)
(* that passed, and, of an answer that the firewall blocks, a second.      *)
Record(c) ==
  /\ c.phase \in {"refused", "judged", "recorded"}
  /\ LET row == [n |-> c.n, part |-> IF c.phase = "recorded" THEN 2 ELSE 1, key |-> c.key, ts |-> now,
                 decision |-> IF c.phase = "refused" THEN "identity_mismatch" ELSE "ok"] IN
       /\ buffered' = buffered \cup {row}
       /\ admitted' = admitted \cup {row}
  /\ inFlight' = IF c.phase = "judged" THEN Becomes(c, "recorded") ELSE inFlight \ {c}
  /\ UNCHANGED <<strict, stats, counted, mismatched, calls, diskVars, readVars, now>> /\ NothingServed

(* A call ends with the rows it has, from none on: it is unmanaged, its    *)
(* prompt is blocked, its upstream fails, its client goes, or it is done.  *)
Leave(c) ==
  /\ inFlight' = inFlight \ {c}
  /\ UNCHANGED <<strict, buffered, admitted, stats, counted, mismatched, calls, diskVars, readVars, now>> /\ NothingServed

(* The sink writes a segment (Telemetry has the details).                  *)
Write ==
  /\ HasDir /\ buffered # {}
  /\ written' = written \cup buffered /\ buffered' = {}
  /\ UNCHANGED <<strict, inFlight, admitted, stats, counted, mismatched, calls, past, inherited, readVars, now>> /\ NothingServed

(* history_fold *)
Fold(rows) ==
  [k \in {r.key : r \in rows} |->
    LET mine == {r \in rows : r.key = k} IN
      [calls |-> Cardinality(mine),
       mismatches |-> Cardinality({r \in mine : r.decision = "identity_mismatch"}),
       first |-> Min({r.ts : r \in mine}), last |-> Max({r.ts : r \in mine})]]

NoHistory == [calls |-> 0, mismatches |-> 0, first |-> 0, last |-> 0]

(* build_report: the union of the three sources.                           *)
Report(available, fold) ==
  [at |-> now, available |-> available,
   keys |-> [k \in Configured \cup Bound \cup DOMAIN fold |->
              [since |-> Counters(k), history |-> IF k \in DOMAIN fold THEN fold[k] ELSE NoHistory]]]

Serve(available, fold) == reports' = {Report(available, fold)}

\* Mutant of Fresh: a fold once cached is served for good.
FreshAlways == cache

(* cached_history_fold *)
Fresh == {c \in cache : now - c.at < Ttl}

(* list_keys: no directory, or a fresh fold, answers at once.              *)
Request(r) ==
  /\ scan[r] = {}
  /\ IF ~HasDir THEN Serve(FALSE, <<>>) /\ UNCHANGED scan
     ELSE IF Fresh # {} THEN (\E c \in Fresh : Serve(TRUE, c.fold)) /\ UNCHANGED scan
     ELSE scan' = [scan EXCEPT ![r] = {[began |-> now, rows |-> written]}] /\ NothingServed
  /\ UNCHANGED <<callVars, diskVars, cache, now>>

(* A scan ends: the fold of what it found is cached and served.            *)
ScanDone(r) ==
  /\ scan[r] # {}
  /\ \E s \in scan[r] : cache' = {[at |-> now, fold |-> Fold(s.rows)]} /\ Serve(TRUE, Fold(s.rows))
  /\ scan' = [scan EXCEPT ![r] = {}]
  /\ UNCHANGED <<callVars, diskVars, now>>

(* A scan fails: the report says so, and the cache stays.                  *)
ScanFails(r) ==
  /\ scan[r] # {}
  /\ Serve(FALSE, <<>>)
  /\ scan' = [scan EXCEPT ![r] = {}]
  /\ UNCHANGED <<callVars, diskVars, cache, now>>

(* The process restarts, perhaps in another mode: the calls under way, the *)
(* rows in memory and the counters are gone.                               *)
Restart ==
  /\ strict' \in Strict
  /\ inFlight' = {} /\ buffered' = {} /\ stats' = <<>> /\ counted' = {} /\ mismatched' = {} /\ admitted' = {}
  /\ inherited' = written
  /\ cache' = {} /\ NothingServed /\ scan' = [r \in Readers |-> {}]
  /\ UNCHANGED <<written, past, now, calls>>

Tick ==
  /\ now < MaxNow
  /\ \A r \in Readers : \A s \in scan[r] : now < s.began + MaxScan
  /\ now' = now + 1
  /\ past' = [t \in 1..(now + 1) |-> IF t = now + 1 THEN written ELSE past[t]]
  /\ UNCHANGED <<callVars, written, inherited, readVars>> /\ NothingServed

Next ==
  \/ \E k \in Configured : Count(k)
  \/ \E c \in inFlight : Judge(c) \/ Record(c) \/ Leave(c)
  \/ Write \/ Restart \/ Tick
  \/ \E r \in Readers : Request(r) \/ ScanDone(r) \/ ScanFails(r)

Spec == Init /\ [][Next]_vars

-----------------------------------------------------------------------------
(* A report with history misses no row that was on disk longer ago than    *)
(* the cache lives and a scan takes, however scans overlap; every key that *)
(* is configured, bound or has such a row is listed, with when it was      *)
(* first and last seen.                                                    *)
HistoryIsRecent ==
  \A p \in reports : p.available =>
    LET bound == Ttl + MaxScan
        old == IF p.at > bound THEN past[p.at - bound] ELSE {}
    IN \A row \in old :
         /\ row.key \in DOMAIN p.keys
         /\ p.keys[row.key].history.first <= row.ts /\ p.keys[row.key].history.last >= row.ts
         /\ p.keys[row.key].history.calls >= Cardinality({o \in old : o.key = row.key})

(* The two counts of one report agree as far as they can, wherever each    *)
(* call is between being counted, judged and recorded when a scan begins   *)
(* and when the report is built: of a key the history has no row that is   *)
(* neither older than the process nor one of the two of a counted call,    *)
(* and no mismatch that was not counted.                                   *)
CountsAgree ==
  \A p \in reports : \A k \in DOMAIN p.keys :
    LET since == p.keys[k].since
        history == p.keys[k].history
        before == {r \in inherited : r.key = k} IN
      /\ since.mismatches <= since.calls
      /\ history.calls <= Cardinality(before) + 2 * since.calls
      /\ history.mismatches <= Cardinality({r \in before : r.decision = "identity_mismatch"}) + since.mismatches

(* What list_keys promises its reader.                                     *)
KeyReportsCurrent == HistoryIsRecent /\ CountsAgree
=============================================================================
