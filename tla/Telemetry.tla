------------------------------ MODULE Telemetry ------------------------------
(***************************************************************************)
(* Where settled calls are recorded (crates/gateway/src/sink.rs,           *)
(* cloudsink.rs and their wiring in main.rs): request handlers record into *)
(* a TeeSink of a Parquet trace, written in segments once its buffer is    *)
(* full, and of a Cloud sink, posted in batches when full and by a         *)
(* periodic flush.  Handlers run on several threads; writes and posts may  *)
(* fail, and the process may be stopped, or die, and be started again on   *)
(* the same directory.                                                     *)
(***************************************************************************)
EXTENDS Naturals, Sequences, FiniteSets, SequencesExt

CONSTANTS
  Handlers,    \* request handlers that may record at once
  Threshold,   \* ParquetSink's buffer (256)
  Batch,       \* CloudSink's BATCH (20)
  Writable,    \* whether segments can always be written
  MaxRecords,  \* bound: calls settled
  MaxStarts    \* bound: processes started

(* What an instance must satisfy.                                          *)
TelemetryConstants == Threshold \in Nat \ {0} /\ Batch \in Nat \ {0} /\ Writable \in BOOLEAN

VARIABLES
  process,    \* [up, instance, seq]
  trace,      \* ParquetSink.buffer
  segments,   \* the files: <<instance, seq>> -> records
  cloud,      \* CloudSink.buf
  posts,      \* batches whose POST is under way
  ingested,   \* what the control plane has counted, in the order it did
  task,       \* per handler [step, rec, batch]
  settled,    \* history: records whose handler has begun to record them
  written,    \* history: records written to some segment
  failed,     \* history: records of segments that could not be written
  lost        \* history: records of the trace that a crash took from memory

vars == <<process, trace, segments, cloud, posts, ingested, task, settled, written, failed, lost>>

Idle == [step |-> "idle", rec |-> 0, batch |-> <<>>]

Init ==
  /\ process = [up |-> TRUE, instance |-> 1, seq |-> 0]
  /\ trace = <<>> /\ segments = <<>>
  /\ cloud = <<>> /\ posts = {} /\ ingested = <<>>
  /\ task = [h \in Handlers |-> Idle]
  /\ settled = 0
  /\ written = {} /\ failed = {} /\ lost = {}

(* write_batch: calls-{instance}-{seq}.parquet, created or truncated.      *)
SegmentName == <<process.instance, process.seq>>

WriteSegment(records) ==
  IF records = <<>> THEN UNCHANGED <<segments, written, failed>>
  ELSE \/ /\ segments' = [n \in DOMAIN segments \cup {SegmentName} |->
                             IF n = SegmentName THEN records ELSE segments[n]]
          /\ written' = written \cup ToSet(records)
          /\ UNCHANGED failed
       \/ /\ ~Writable
          /\ failed' = failed \cup ToSet(records)
          /\ UNCHANGED <<segments, written>>

NextSeq(records) == IF records = <<>> THEN process.seq ELSE process.seq + 1

-----------------------------------------------------------------------------
(* TeeSink::record, first sink: push and, when full, take the buffer.      *)
RecordTrace(h) ==
  /\ process.up /\ task[h].step = "idle" /\ settled < MaxRecords
  /\ settled' = settled + 1
  /\ LET full == Append(trace, settled + 1) IN
       /\ trace' = IF Len(full) >= Threshold THEN <<>> ELSE full
       /\ task' = [task EXCEPT ![h] = [step |-> "write", rec |-> settled + 1,
                                       batch |-> IF Len(full) >= Threshold THEN full ELSE <<>>]]
  /\ UNCHANGED <<process, segments, cloud, posts, ingested, written, failed, lost>>

(* The segment is written outside the lock.                                *)
WriteBatch(h) ==
  /\ process.up /\ task[h].step = "write"
  /\ WriteSegment(task[h].batch)
  /\ process' = [process EXCEPT !.seq = NextSeq(task[h].batch)]
  /\ task' = [task EXCEPT ![h] = [step |-> "push", rec |-> task[h].rec, batch |-> <<>>]]
  /\ UNCHANGED <<trace, cloud, posts, ingested, settled, lost>>

(* CloudSink::record: push, and under a second lock take_if_full.          *)
PushCloud(h) ==
  /\ process.up /\ task[h].step = "push"
  /\ cloud' = Append(cloud, task[h].rec)
  /\ task' = [task EXCEPT ![h].step = "take"]
  /\ UNCHANGED <<process, trace, segments, posts, ingested, settled, written, failed, lost>>

Ship(records) == posts' = IF records = <<>> THEN posts ELSE posts \cup {records}

\* Mutant of TakeIfFull: the buffer is copied, not taken.
TakeIfFullCopying(h) ==
  /\ process.up /\ task[h].step = "take"
  /\ Ship(IF Len(cloud) >= Batch THEN cloud ELSE <<>>)
  /\ task' = [task EXCEPT ![h] = Idle]
  /\ UNCHANGED <<process, trace, segments, cloud, ingested, settled, written, failed, lost>>

TakeIfFull(h) ==
  /\ process.up /\ task[h].step = "take"
  /\ Ship(IF Len(cloud) >= Batch THEN cloud ELSE <<>>)
  /\ cloud' = IF Len(cloud) >= Batch THEN <<>> ELSE cloud
  /\ task' = [task EXCEPT ![h] = Idle]
  /\ UNCHANGED <<process, trace, segments, ingested, settled, written, failed, lost>>

(* The flusher's tick, every two seconds.                                  *)
FlushCloud ==
  /\ process.up /\ cloud # <<>>
  /\ Ship(cloud)
  /\ cloud' = <<>>
  /\ UNCHANGED <<process, trace, segments, ingested, task, settled, written, failed, lost>>

(* A POST arrives, or is lost: it is never sent again.                     *)
Deliver(b) ==
  /\ posts' = posts \ {b}
  /\ ingested' = ingested \o b
  /\ UNCHANGED <<process, trace, segments, cloud, task, settled, written, failed, lost>>

Lose(b) ==
  /\ posts' = posts \ {b}
  /\ UNCHANGED <<process, trace, segments, cloud, ingested, task, settled, written, failed, lost>>

-----------------------------------------------------------------------------
Down == /\ process' = [process EXCEPT !.up = FALSE]
        /\ trace' = <<>> /\ cloud' = <<>> /\ posts' = {}
        /\ task' = [h \in Handlers |-> Idle]
        /\ UNCHANGED <<ingested, settled>>

(* Graceful shutdown waits for the handlers; dropping the state drops the  *)
(* ParquetSink, which flushes.  The Cloud sink has no such hook, and the   *)
(* runtime drops the tasks that were posting.                              *)
Shutdown ==
  /\ process.up /\ \A h \in Handlers : task[h] = Idle
  /\ WriteSegment(trace)
  /\ Down
  /\ UNCHANGED lost

Crash ==
  /\ process.up
  /\ lost' = lost \cup ToSet(trace) \cup UNION {ToSet(task[h].batch) : h \in Handlers}
  /\ UNCHANGED <<segments, written, failed>>
  /\ Down

(* ParquetSink::new: a fresh instance token, the sequence at 0.            *)
Start ==
  /\ ~process.up /\ process.instance < MaxStarts
  /\ process' = [up |-> TRUE, instance |-> process.instance + 1, seq |-> 0]
  /\ UNCHANGED <<trace, segments, cloud, posts, ingested, task, settled, written, failed, lost>>

Next ==
  \/ \E h \in Handlers : RecordTrace(h) \/ WriteBatch(h) \/ PushCloud(h) \/ TakeIfFull(h)
  \/ FlushCloud
  \/ \E b \in posts : Deliver(b) \/ Lose(b)
  \/ Shutdown \/ Crash \/ Start

Spec == Init /\ [][Next]_vars

-----------------------------------------------------------------------------
Traced == UNION {ToSet(segments[n]) : n \in DOMAIN segments}

(* CloudSink is at most once: whatever handlers and the flusher race for,  *)
(* no call is counted twice by the control plane, in two posts or in one   *)
(* that was counted already.                                               *)
CountedAtMostOnce ==
  /\ IsInjective(ingested)
  /\ \A b, c \in posts : b # c => ToSet(b) \cap ToSet(c) = {}
  /\ \A b \in posts : ToSet(b) \cap (ToSet(ingested) \cup ToSet(cloud)) = {}

(* ParquetSink.instance: "concurrent processes and restarts never          *)
(* collide": what a segment held is never overwritten.                     *)
SegmentsKept == written \subseteq Traced

(* When the process is down, every record of the trace is on disk, but for *)
(* segments whose write failed and was reported and what was in memory at  *)
(* a crash: a graceful shutdown loses nothing.                             *)
TraceComplete == ~process.up => \A r \in 1..settled : r \in Traced \cup failed \cup lost

(* What both sinks promise.                                                *)
RecordsKept == CountedAtMostOnce /\ SegmentsKept /\ TraceComplete
=============================================================================
