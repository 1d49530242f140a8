------------------------------ MODULE EventLog ------------------------------
(***************************************************************************)
(* The agent-event export (crates/core/src/agent_event.rs): emitters read  *)
(* the wall clock, build an event, take the sink's lock, link it to the    *)
(* line before by a hash and append it to a file that one process after    *)
(* another opens; and what /v1/replay reads back                           *)
(* (crates/cloud/src/replay.rs).  A write may fail with nothing or with a  *)
(* part of the line written, and so may a crash.                           *)
(***************************************************************************)
EXTENDS Naturals, Sequences, FiniteSets, SequencesExt

CONSTANTS
  Emitters,    \* tasks that emit concurrently
  Runs,
  Times,       \* what the wall clock may read
  None,        \* no agent id, no link, no event in hand
  Torn,        \* a line that was written in part
  Tears,       \* whether failures may tear a line
  MaxEvents,   \* bound: events built
  MaxFailures  \* bound: failed writes and crashes

Events == [id : Nat, run : Runs, ts : Times]
Lines == [id : Nat, run : Runs, ts : Times, prev : Events \cup {None}]

(* What an instance must satisfy.                                          *)
EventLogConstants == Times \subseteq Nat /\ Tears \in BOOLEAN /\ None \notin Events /\ Torn \notin Lines

VARIABLES
  file,      \* the lines, of which the last may lack its newline
  open,      \* whether the last line lacks its newline
  sink,      \* [up, next]: the process's exporter and the link for the next event
  held,      \* per emitter the event built and not yet written
  written,   \* history: events for which emit returned Written
  precedes,  \* history: <<d, e>>, d was written when e was built
  skipped, built, failures

vars == <<file, open, sink, held, written, precedes, skipped, built, failures>>

Init ==
  /\ file = <<>>
  /\ open = FALSE
  /\ sink = [up |-> TRUE, next |-> None]
  /\ held = [p \in Emitters |-> None]
  /\ written = {} /\ precedes = {}
  /\ skipped = 0 /\ built = 0 /\ failures = 0

(* chain_hash: of the event without its prev_hash.                         *)
ChainHash(line) == [id |-> line.id, run |-> line.run, ts |-> line.ts]

(* build, before the lock: an event without an agent id is counted and     *)
(* dropped.  The caller has read the clock, which may have stood still or  *)
(* gone back since another event.                                          *)
Build(p, run, ts, agent) ==
  /\ sink.up /\ held[p] = None /\ built < MaxEvents
  /\ built' = built + 1
  /\ IF agent = None THEN skipped' = skipped + 1 /\ UNCHANGED held
     ELSE /\ held' = [held EXCEPT ![p] = [id |-> built, run |-> run, ts |-> ts]]
          /\ UNCHANGED skipped
  /\ precedes' = precedes \cup {<<d, built>> : d \in written}
  /\ UNCHANGED <<file, open, sink, written, failures>>

Line(e) == [id |-> e.id, run |-> e.run, ts |-> e.ts, prev |-> sink.next]

(* The bytes go behind whatever is there: behind a torn line they are part *)
(* of it.                                                                  *)
Appended(line) == IF open THEN [file EXCEPT ![Len(file)] = Torn] ELSE Append(file, line)

(* emit, under the sink's lock.                                            *)
Write(p) ==
  /\ sink.up /\ held[p] # None
  /\ file' = Appended(Line(held[p]))
  /\ open' = FALSE
  /\ sink' = [sink EXCEPT !.next = ChainHash(held[p])]
  /\ written' = written \cup {held[p].id}
  /\ held' = [held EXCEPT ![p] = None]
  /\ UNCHANGED <<precedes, skipped, built, failures>>

TearLine == /\ file' = IF open THEN file ELSE Append(file, Torn)
            /\ open' = TRUE

Keep == UNCHANGED <<file, open>>

\* Mutant of WriteError: the chain advances although the line was not written.
WriteErrorAdvancing(p) ==
  /\ sink.up /\ held[p] # None
  /\ failures < MaxFailures /\ failures' = failures + 1
  /\ sink' = [sink EXCEPT !.next = ChainHash(held[p])]
  /\ held' = [held EXCEPT ![p] = None]
  /\ Keep
  /\ UNCHANGED <<written, precedes, skipped, built>>

WriteError(p) ==
  /\ sink.up /\ held[p] # None
  /\ failures < MaxFailures /\ failures' = failures + 1
  /\ held' = [held EXCEPT ![p] = None]
  /\ Keep \/ (Tears /\ TearLine)
  /\ UNCHANGED <<sink, written, precedes, skipped, built>>

Crash ==
  /\ sink.up
  /\ failures < MaxFailures /\ failures' = failures + 1
  /\ sink' = [up |-> FALSE, next |-> None]
  /\ held' = [p \in Emitters |-> None]
  /\ Keep \/ (Tears /\ (\E p \in Emitters : held[p] # None) /\ TearLine)
  /\ UNCHANGED <<written, precedes, skipped, built>>

(* Exporter::open with tail_chain_hash: resume from the last line, or      *)
(* start afresh when it does not parse.                                    *)
Reopen ==
  /\ ~sink.up
  /\ sink' = [up |-> TRUE,
              next |-> IF file = <<>> \/ Last(file) = Torn THEN None ELSE ChainHash(Last(file))]
  /\ UNCHANGED <<file, open, held, written, precedes, skipped, built, failures>>

Next ==
  \/ \E p \in Emitters, run \in Runs, ts \in Times, agent \in {None, "agent"} : Build(p, run, ts, agent)
  \/ \E p \in Emitters : Write(p) \/ WriteError(p)
  \/ Crash \/ Reopen

Spec == Init /\ [][Next]_vars

-----------------------------------------------------------------------------
\* Mutant of ReadRunEvents: an unstable sort.
ReadRunEventsUnstable(run) ==
  LET mine == {i \in DOMAIN file : file[i] # Torn /\ (file[i]).run = run}
      order == CHOOSE o \in SetToSeqs(mine) : \A i, j \in DOMAIN o : i < j =>
                 file[o[i]].ts < file[o[j]].ts \/ (file[o[i]].ts = file[o[j]].ts /\ o[i] > o[j])
  IN [i \in DOMAIN order |-> file[order[i]]]

(* read_run_events: the run's lines that parse, by timestamp (stable).     *)
ReadRunEvents(run) ==
  LET mine == {i \in DOMAIN file : file[i] # Torn /\ (file[i]).run = run}
      order == CHOOSE o \in SetToSeqs(mine) : \A i, j \in DOMAIN o : i < j =>
                 file[o[i]].ts < file[o[j]].ts \/ (file[o[i]].ts = file[o[j]].ts /\ o[i] < o[j])
  IN [i \in DOMAIN order |-> file[order[i]]]

(* Every line links to the one before it, across concurrent emitters,      *)
(* failed writes and restarts: one file is one chain.                      *)
ChainUnbroken ==
  \A i \in DOMAIN file : file[i] # Torn =>
    file[i].prev = IF i = 1 THEN None ELSE IF file[i - 1] = Torn THEN None ELSE ChainHash(file[i - 1])

(* An event that was written before another was built has the earlier line *)
(* of the two, whatever emitters overtake each other, lines tear and       *)
(* processes follow each other.                                            *)
LinesInOrder ==
  \A i, j \in DOMAIN file : file[i] # Torn /\ file[j] # Torn /\ <<(file[i]).id, (file[j]).id>> \in precedes => i < j

(* The replay of a run has exactly its lines that parse, by timestamp;     *)
(* when one event was written before another was built, it comes before    *)
(* it, unless the clock was set back between the two.                      *)
ReplayInOrder ==
  \A run \in Runs : LET events == ReadRunEvents(run) IN
    /\ \A i, j \in DOMAIN events : i < j =>
         /\ events[i].ts <= events[j].ts
         /\ <<events[j].id, events[i].id>> \in precedes => events[i].ts < events[j].ts
    /\ {events[i].id : i \in DOMAIN events}
         = {(file[i]).id : i \in {j \in DOMAIN file : file[j] # Torn /\ (file[j]).run = run}}

(* emit: "on a failed write the chain does not advance, and the next       *)
(* successful write re-links to the last line actually on disk": what was  *)
(* reported as written is a line of the file.                              *)
WrittenIsOnDisk == \A k \in written : \E i \in DOMAIN file : file[i] # Torn /\ (file[i]).id = k
=============================================================================
