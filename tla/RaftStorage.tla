----------------------------- MODULE RaftStorage -----------------------------
(***************************************************************************)
(* One node's durable raft storage: crates/cluster/src/redbstore.rs, whose *)
(* in-memory twin is store.rs.  A redb file holds the log, the raft        *)
(* metadata and the state machine; every operation is one write            *)
(* transaction, except purge and install_snapshot, which are two, and the  *)
(* process may crash between any two transactions.                         *)
(*                                                                         *)
(* openraft decides which operation comes when: what it promises (entries  *)
(* that agree with a committed prefix are not truncated, only a snapshotted*)
(* prefix is purged) is the guards marked "openraft".  An applied ledger   *)
(* is the sequence of requests it was built from.                          *)
(***************************************************************************)
EXTENDS Integers, Sequences

CONSTANTS
  Normal,     \* ledger requests
  Members,    \* membership configurations
  Blank,      \* the entry a new leader writes
  MaxIndex,   \* bound: entries in the cluster's log
  MaxVote,    \* bound: terms
  MaxCrashes  \* bound: crashes of this node

(* What an instance must satisfy.                                          *)
StorageConstants ==
  /\ {MaxIndex, MaxVote, MaxCrashes} \subseteq Nat
  /\ Blank \notin Normal \cup Members /\ Normal \cap Members = {}

Payloads == Normal \cup Members \cup {Blank}
Indexes == 1 .. MaxIndex

VARIABLES
  disk,     \* the redb file: log, vote, committed, purged, state, snapshot
  mem,      \* RedbStateMachineStore.mem: persist and snapshot
  phase,    \* the process: "down", "loaded", "replayed", "up"
  core,     \* the log store's operation under way: purge is two transactions
  worker,   \* the state machine's operation under way: install_snapshot is two
  chosen,   \* the entries the cluster has committed
  counted,  \* indexes whose commit counted this node's acknowledgement
  told,     \* the highest vote this node has answered with
  crashes

vars == <<disk, mem, phase, core, worker, chosen, counted, told, crashes>>
cluster == <<chosen, counted, told, crashes>>

-----------------------------------------------------------------------------
(* The stored values.  Index 0 stands for None.                            *)
Fresh == [applied |-> 0, member |-> Blank, ledger |-> <<>>]   \* SmPersist::default

EmptyLog == [i \in {} |-> Blank]

Empty == [log |-> EmptyLog, vote |-> 0, committed |-> 0, purged |-> 0,
          state |-> Fresh, snapshot |-> Fresh]

(* get_log_state.                                                          *)
LastIndex(d) ==
  IF DOMAIN d.log = {} THEN d.purged ELSE CHOOSE i \in DOMAIN d.log : \A j \in DOMAIN d.log : j <= i

Restricted(log, keep) == [i \in DOMAIN log \cap keep |-> log[i]]

(* append: a batch of payloads after index at.                             *)
Extended(log, at, ps) ==
  [i \in DOMAIN log \cup (at + 1 .. at + Len(ps)) |-> IF i > at THEN ps[i - at] ELSE log[i]]

Truncated(log, i) == Restricted(log, {j \in Indexes : j < i})

(* apply: Blank changes nothing but last_applied, a membership entry       *)
(* replaces the membership, a request goes to the ledger.                  *)
ApplyEntry(s, i, payload) ==
  [applied |-> i,
   member |-> IF payload \in Members THEN payload ELSE s.member,
   ledger |-> IF payload \in Normal THEN Append(s.ledger, payload) ELSE s.ledger]

(* try_get_log_entries and apply: whatever the log holds of the range      *)
(* from .. to is applied in order; by state after each index.              *)
StatesAfter(s, log, from, to) ==
  LET after[i \in 0 .. to] ==
        IF i < from THEN s
        ELSE IF i \in DOMAIN log THEN ApplyEntry(after[i - 1], i, log[i])
        ELSE after[i - 1]
  IN  after

ApplyLog(s, log, from, to) == StatesAfter(s, log, from, to)[to]

(* What applying the first n committed entries comes to.                   *)
Replay(n) == ApplyLog(Fresh, chosen, 1, n)

Matches(d, i) == i \in DOMAIN d.log /\ i <= Len(chosen) /\ d.log[i] = chosen[i]

Idle == [at |-> "idle", upto |-> 0]
IdleWorker == [at |-> "idle", snap |-> Fresh]

Init ==
  /\ disk = Empty
  /\ mem = [persist |-> Fresh, snapshot |-> Fresh]
  /\ phase = "up"
  /\ core = Idle
  /\ worker = IdleWorker
  /\ chosen = <<>>
  /\ counted = {}
  /\ told = 0
  /\ crashes = 0

-----------------------------------------------------------------------------
(* The cluster (external) commits an entry; if it counts this node, the    *)
(* node holds the entry and has signalled log_io_completed for it.         *)
Choose(p) ==
  /\ Len(chosen) < MaxIndex
  /\ chosen' = Append(chosen, p)
  /\ \/ UNCHANGED counted
     \/ /\ phase = "up" /\ Len(chosen) + 1 \in DOMAIN disk.log
        /\ disk.log[Len(chosen) + 1] = p
        /\ \A i \in mem.persist.applied + 1 .. Len(chosen) : Matches(disk, i)
        /\ counted' = counted \cup {Len(chosen) + 1}
  /\ UNCHANGED <<disk, mem, phase, core, worker, told, crashes>>

(* append: one transaction, and only then the callback.  openraft appends  *)
(* after the last entry, once a shorter log has been purged away.          *)
AppendEntries(ps) ==
  /\ phase = "up" /\ core = Idle
  /\ LastIndex(disk) >= mem.persist.applied
  /\ LastIndex(disk) + Len(ps) <= MaxIndex
  /\ disk' = [disk EXCEPT !.log = Extended(@, LastIndex(disk), ps)]
  /\ UNCHANGED <<mem, phase, core, worker, cluster>>

(* truncate: openraft removes entries that conflict with the leader's.     *)
Truncate(i) ==
  /\ phase = "up" /\ core = Idle
  /\ i \in DOMAIN disk.log /\ i > mem.persist.applied /\ i > disk.committed
  /\ \A j \in DOMAIN disk.log : j >= i => ~Matches(disk, j)
  /\ disk' = [disk EXCEPT !.log = Truncated(@, i)]
  /\ UNCHANGED <<mem, phase, core, worker, cluster>>

(* save_vote, before the vote is granted or asked for.                     *)
SaveVote(v) ==
  /\ phase = "up" /\ core = Idle /\ v > disk.vote
  /\ disk' = [disk EXCEPT !.vote = v]
  /\ told' = v
  /\ UNCHANGED <<mem, phase, core, worker, chosen, counted, crashes>>

(* save_committed: openraft records the commit index, then sends the       *)
(* entries to the state machine.                                           *)
SaveCommitted(i) ==
  /\ phase = "up" /\ core = Idle
  /\ i > disk.committed /\ i > mem.persist.applied
  /\ \A j \in mem.persist.applied + 1 .. i : Matches(disk, j)
  /\ disk' = [disk EXCEPT !.committed = i]
  /\ UNCHANGED <<mem, phase, core, worker, cluster>>

(* purge, first transaction: the purged id; openraft purges what a         *)
(* snapshot covers.                                                        *)
PurgeMark(i) ==
  /\ phase = "up" /\ core = Idle
  /\ i > disk.purged /\ i <= mem.snapshot.applied /\ i <= mem.persist.applied
  /\ disk' = [disk EXCEPT !.purged = i]
  /\ core' = [at |-> "purge", upto |-> i]
  /\ UNCHANGED <<mem, phase, worker, cluster>>

(* purge, second transaction: the entries up to the purged id.             *)
PurgeDelete ==
  /\ phase \in {"replayed", "up"} /\ core.at = "purge"
  /\ disk' = [disk EXCEPT !.log = Restricted(@, {j \in Indexes : j > core.upto})]
  /\ core' = Idle
  /\ phase' = "up"
  /\ UNCHANGED <<mem, worker, cluster>>

-----------------------------------------------------------------------------
(* The state machine's worker.  apply updates the memory and writes the    *)
(* whole state in one transaction, under the lock.                         *)
Apply(to) ==
  /\ phase = "up" /\ worker = IdleWorker
  /\ to > mem.persist.applied /\ to <= disk.committed
  /\ LET s == ApplyLog(mem.persist, disk.log, mem.persist.applied + 1, to)
     IN  /\ mem' = [mem EXCEPT !.persist = s]
         /\ disk' = [disk EXCEPT !.state = s]
  /\ UNCHANGED <<phase, core, worker, cluster>>

BuildSnapshot ==
  /\ phase = "up" /\ worker = IdleWorker
  /\ mem.persist.applied > mem.snapshot.applied
  /\ disk' = [disk EXCEPT !.snapshot = mem.persist]
  /\ mem' = [mem EXCEPT !.snapshot = mem.persist]
  /\ UNCHANGED <<phase, core, worker, cluster>>

\* Mutant of InstallState: the snapshot is stored before the state.
InstallStateLate(n) ==
  /\ phase = "up" /\ worker = IdleWorker /\ core = Idle
  /\ n \in mem.persist.applied + 1 .. Len(chosen) /\ n > disk.committed
  /\ mem' = [persist |-> Replay(n), snapshot |-> Replay(n)]
  /\ disk' = [disk EXCEPT !.snapshot = Replay(n)]
  /\ worker' = [at |-> "install", snap |-> Replay(n)]
  /\ UNCHANGED <<phase, core, cluster>>

(* install_snapshot of a leader's snapshot that is ahead of this node,     *)
(* first transaction: memory and state.                                    *)
InstallState(n) ==
  /\ phase = "up" /\ worker = IdleWorker /\ core = Idle
  /\ n \in mem.persist.applied + 1 .. Len(chosen) /\ n > disk.committed
  /\ mem' = [mem EXCEPT !.persist = Replay(n)]
  /\ disk' = [disk EXCEPT !.state = Replay(n)]
  /\ worker' = [at |-> "install", snap |-> Replay(n)]
  /\ UNCHANGED <<phase, core, cluster>>

(* Second transaction: the snapshot.                                       *)
InstallSnapshot ==
  /\ phase = "up" /\ worker.at = "install"
  /\ disk' = [disk EXCEPT !.snapshot = worker.snap]
  /\ mem' = [mem EXCEPT !.snapshot = worker.snap]
  /\ worker' = IdleWorker
  /\ UNCHANGED <<phase, core, cluster>>

-----------------------------------------------------------------------------
(* A crash, or a write that fails: openraft stops the node on a storage    *)
(* error.  What is not in the file is gone.                                *)
Crash ==
  /\ phase # "down" /\ crashes < MaxCrashes
  /\ phase' = "down"
  /\ crashes' = crashes + 1
  /\ core' = Idle
  /\ worker' = IdleWorker
  /\ UNCHANGED <<disk, mem, chosen, counted, told>>

(* RedbLogStore::new and RedbStateMachineStore::new.                       *)
Restart ==
  /\ phase = "down"
  /\ mem' = [persist |-> disk.state, snapshot |-> disk.snapshot]
  /\ phase' = "loaded"
  /\ UNCHANGED <<disk, core, worker, cluster>>

(* openraft's start: entries committed and not applied are applied again,  *)
(* from the log ...                                                        *)
Reapply ==
  /\ phase = "loaded"
  /\ LET s == ApplyLog(mem.persist, disk.log, mem.persist.applied + 1, disk.committed)
     IN  /\ mem' = [mem EXCEPT !.persist = s]
         /\ disk' = [disk EXCEPT !.state = s]
  /\ phase' = "replayed"
  /\ UNCHANGED <<core, worker, cluster>>

(* ... and a log that ends before the applied state is purged up to it.    *)
CleanHole ==
  /\ phase = "replayed" /\ core = Idle
  /\ IF LastIndex(disk) < mem.persist.applied
     THEN /\ disk' = [disk EXCEPT !.purged = mem.persist.applied]
          /\ core' = [at |-> "purge", upto |-> mem.persist.applied]
          /\ UNCHANGED phase
     ELSE phase' = "up" /\ UNCHANGED <<disk, core>>
  /\ UNCHANGED <<mem, worker, cluster>>

Batches == UNION {[1 .. n -> Payloads] : n \in 1 .. 2}

Next ==
  \/ \E p \in Payloads : Choose(p)
  \/ \E ps \in Batches : AppendEntries(ps)
  \/ \E i \in Indexes : Truncate(i) \/ SaveCommitted(i) \/ PurgeMark(i) \/ Apply(i) \/ InstallState(i)
  \/ \E v \in 1 .. MaxVote : SaveVote(v)
  \/ PurgeDelete \/ BuildSnapshot \/ InstallSnapshot
  \/ Crash \/ Restart \/ Reapply \/ CleanHole

Spec == Init /\ [][Next]_vars

-----------------------------------------------------------------------------
(* "Writes commit before returning, giving the durability openraft's       *)
(* contract requires": an entry whose commit counted this node can be      *)
(* recovered from the file at every moment, from the log or in the applied *)
(* state, and a vote that was answered is never forgotten.                 *)
PromisesKept ==
  /\ \A i \in counted : i <= disk.state.applied \/ Matches(disk, i)
  /\ disk.vote >= told

(* No crash, replay, purge or snapshot makes the ledger lose a request or  *)
(* apply one twice: state and snapshot, stored and in memory, are what the *)
(* committed prefix they name comes to.                                    *)
AppliedIsCommittedPrefix ==
  /\ \A s \in {disk.state, disk.snapshot} : s.applied <= Len(chosen) /\ s = Replay(s.applied)
  /\ phase # "down" => \A s \in {mem.persist, mem.snapshot} : s = Replay(s.applied)

(* A restart finds every entry it has to apply again, and a snapshot never *)
(* reaches beyond the state it would be served from.                       *)
ReplayableAfterCrash ==
  /\ \A i \in disk.state.applied + 1 .. disk.committed : Matches(disk, i)
  /\ disk.snapshot.applied <= disk.state.applied
  /\ disk.purged <= disk.state.applied

(* The log has no hole above the purged id, although purge is two          *)
(* transactions and a crash between them leaves the entries.               *)
LogContiguous == disk.purged + 1 .. LastIndex(disk) \subseteq DOMAIN disk.log

(* What the storage owes openraft and the ledger, whichever transactions a *)
(* crash falls between.                                                    *)
CrashSafe == PromisesKept /\ AppliedIsCommittedPrefix /\ ReplayableAfterCrash /\ LogContiguous
=============================================================================
