---------------------------- MODULE CloudPersist ----------------------------
(***************************************************************************)
(* The durability of the control plane's store: audited mutations and the  *)
(* dirty flag (crates/cloud/src/store.rs), the autosave loop of main.rs    *)
(* with its temporary file and rename, crashes between any two steps, and  *)
(* the load at the next start.  A process crash loses memory, never what   *)
(* the file system was told.                                               *)
(***************************************************************************)
EXTENDS Naturals, Sequences

CONSTANTS
  Runs, Amounts,
  Partial,       \* a file whose writing was interrupted
  Absent,        \* no file
  MaxMutations,  \* bound: audit entries
  MaxFailures,   \* bound: saves that fail
  MaxCrashes     \* bound: crashes

ASSUME BoundsAssumption == {MaxMutations, MaxFailures, MaxCrashes} \subseteq Nat

(* What a snapshot holds: the killed runs, the central budgets and the     *)
(* unit budgets that were set, and the audit chain.                        *)
Entries ==
  [action : {"control.kill", "control.set_budget", "control.unit_budget_set"},
   subject : Runs, detail : Amounts \cup {0}]

SetBudgets == UNION {[S -> Amounts] : S \in SUBSET Runs}

Snapshots ==
  [killed : SUBSET Runs, budgets : SetBudgets, unitBudgets : SetBudgets, audit : Seq(Entries)]

ASSUME FilesAssumption ==
  Absent \notin Snapshots /\ Partial \notin Snapshots /\ Partial # Absent

VARIABLES
  mem,       \* the store: a member of Snapshots
  dirty,
  saver,     \* the autosave task: its step and the bytes it writes
  tmp, file, \* <path>.tmp and <path>
  up,
  failures, crashes

vars == <<mem, dirty, saver, tmp, file, up, failures, crashes>>

Empty == [killed |-> {}, budgets |-> <<>>, unitBudgets |-> <<>>, audit |-> <<>>]
Idle == [step |-> "idle", data |-> Empty]

Init ==
  /\ mem = Empty
  /\ dirty = FALSE
  /\ saver = Idle
  /\ tmp = Absent /\ file = Absent
  /\ up = TRUE
  /\ failures = 0 /\ crashes = 0

(* append_audit_locked *)
Entry(action, subject, detail) == [action |-> action, subject |-> subject, detail |-> detail]

Mutate(new) ==
  /\ up /\ Len(mem.audit) < MaxMutations
  /\ mem' = new
  /\ dirty' = TRUE
  /\ UNCHANGED <<saver, tmp, file, up, failures, crashes>>

(* kill_audited, set_budget_audited and set_unit_budget_audited: mutation  *)
(* and audit entry under one lock.                                         *)
Kill(run) ==
  Mutate([mem EXCEPT !.killed = @ \cup {run}, !.audit = Append(@, Entry("control.kill", run, 0))])

Put(f, key, value) == [x \in DOMAIN f \cup {key} |-> IF x = key THEN value ELSE f[x]]

SetBudget(run, micros) ==
  Mutate([mem EXCEPT !.budgets = Put(@, run, micros),
                     !.audit = Append(@, Entry("control.set_budget", run, micros))])

SetUnitBudget(unit, micros) ==
  Mutate([mem EXCEPT !.unitBudgets = Put(@, unit, micros),
                     !.audit = Append(@, Entry("control.unit_budget_set", unit, micros))])

-----------------------------------------------------------------------------
Step(step, data) == saver' = [step |-> step, data |-> data]

(* The autosave loop, every two seconds: take_dirty, then save, which      *)
(* reads the store, writes the temporary file and renames it.              *)
TakeDirty ==
  /\ up /\ saver.step = "idle" /\ dirty
  /\ dirty' = FALSE
  /\ Step("taken", Empty)
  /\ UNCHANGED <<mem, tmp, file, up, failures, crashes>>

Serialize ==
  /\ up /\ saver.step = "taken"
  /\ Step("serialized", mem)
  /\ UNCHANGED <<mem, dirty, tmp, file, up, failures, crashes>>

OpenTmp ==
  /\ up /\ saver.step = "serialized"
  /\ tmp' = Partial
  /\ Step("opened", saver.data)
  /\ UNCHANGED <<mem, dirty, file, up, failures, crashes>>

\* Mutant of WriteTmp: the snapshot is written in place.
WriteInPlace ==
  /\ up /\ saver.step = "opened"
  /\ file' = IF file = Partial THEN saver.data ELSE Partial
  /\ tmp' = saver.data
  /\ Step(IF file = Partial THEN "written" ELSE "opened", saver.data)
  /\ UNCHANGED <<mem, dirty, up, failures, crashes>>

WriteTmp ==
  /\ up /\ saver.step = "opened"
  /\ tmp' = saver.data
  /\ Step("written", saver.data)
  /\ UNCHANGED <<mem, dirty, file, up, failures, crashes>>

Rename ==
  /\ up /\ saver.step = "written"
  /\ file' = tmp /\ tmp' = Absent
  /\ saver' = Idle
  /\ UNCHANGED <<mem, dirty, up, failures, crashes>>

(* Opening, writing or renaming fails: a warning, and the loop goes on.    *)
SaveFails ==
  /\ up /\ saver.step \in {"serialized", "opened", "written"}
  /\ failures < MaxFailures
  /\ failures' = failures + 1
  /\ saver' = Idle
  /\ UNCHANGED <<mem, dirty, tmp, file, up, crashes>>

Crash ==
  /\ up /\ crashes < MaxCrashes
  /\ up' = FALSE
  /\ crashes' = crashes + 1
  /\ mem' = Empty /\ dirty' = FALSE /\ saver' = Idle
  /\ UNCHANGED <<tmp, file, failures>>

(* load: no file is a clean start, an unreadable one a warning and an      *)
(* empty store.                                                            *)
Start ==
  /\ ~up
  /\ up' = TRUE
  /\ mem' = IF file \in {Absent, Partial} THEN Empty ELSE file
  /\ UNCHANGED <<dirty, saver, tmp, file, failures, crashes>>

Save == TakeDirty \/ Serialize \/ OpenTmp \/ WriteTmp \/ Rename

Next ==
  \/ \E run \in Runs : Kill(run)
  \/ \E run \in Runs, a \in Amounts : SetBudget(run, a) \/ SetUnitBudget(run, a)
  \/ Save \/ SaveFails \/ Crash \/ Start

(* The autosave task is scheduled, and a crashed plane is started again.   *)
Spec == Init /\ [][Next]_vars /\ WF_vars(Save) /\ WF_vars(Start)

-----------------------------------------------------------------------------
Last(audit, action, subject) ==
  LET at == {i \in DOMAIN audit : audit[i].action = action /\ audit[i].subject = subject}
  IN audit[CHOOSE i \in at : \A j \in at : j <= i].detail

Explained(s) ==
  /\ s.killed = {s.audit[i].subject : i \in {j \in DOMAIN s.audit : s.audit[j].action = "control.kill"}}
  /\ \A run \in DOMAIN s.budgets : s.budgets[run] = Last(s.audit, "control.set_budget", run)
  /\ \A unit \in DOMAIN s.unitBudgets : s.unitBudgets[unit] = Last(s.audit, "control.unit_budget_set", unit)

(* No mutation is ever seen, saved or loaded without its audit entry, in   *)
(* memory and in every snapshot, wherever the plane crashes.               *)
AuditExplainsState ==
  /\ Explained(mem)
  /\ file \notin {Absent, Partial} => Explained(file)

(* A crash while saving leaves the previous snapshot: the file is whole,   *)
(* and never goes back behind what it held.                                *)
SnapshotIntact ==
  /\ file # Partial
  /\ up /\ file # Absent => SubSeq(mem.audit, 1, Len(file.audit)) = file.audit

(* What a snapshot owes its readers, wherever the plane crashes.           *)
SnapshotSound == AuditExplainsState /\ SnapshotIntact

(* main.rs: "Durable persistence: load a snapshot on startup and autosave  *)
(* every 2s": while the plane stays up, what memory holds reaches the file *)
(* (or memory moves on).                                                   *)
ChangesAreSaved == []<>(~up \/ mem = Empty \/ file = mem)
=============================================================================
