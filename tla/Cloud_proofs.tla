---------------------------- MODULE Cloud_proofs ----------------------------
(***************************************************************************)
(* Proofs about the Cloud's snapshot (CloudPersist), the telemetry sinks   *)
(* (Telemetry), who may do what (CloudAuth) and the evidence pack          *)
(* (Compliance), as parts of CloudParts.  First the snapshot, for every    *)
(* set of runs and amounts and any number of mutations, failures and       *)
(* crashes.                                                                *)
(***************************************************************************)
EXTENDS CloudParts, FiniteSetTheorems, TLAPS

(* The last entry of this action about x has detail v.                     *)
Latest(audit, action, x, v) ==
  \E i \in DOMAIN audit :
    /\ audit[i].action = action /\ audit[i].subject = x /\ audit[i].detail = v
    /\ \A j \in DOMAIN audit : audit[j].action = action /\ audit[j].subject = x => j <= i

Kills(audit) ==
  {audit[i].subject : i \in {j \in DOMAIN audit : audit[j].action = "control.kill"}}

Agrees(f, audit, action) == \A x \in DOMAIN f : Latest(audit, action, x, f[x])

Sound(s) ==
  /\ s \in Snapshots
  /\ s.killed = Kills(s.audit)
  /\ Agrees(s.budgets, s.audit, "control.set_budget")
  /\ Agrees(s.unitBudgets, s.audit, "control.unit_budget_set")

(* s is what t was at some time since.                                     *)
Before(s, t) ==
  /\ Len(s.audit) <= Len(t.audit)
  /\ \A i \in 1 .. Len(s.audit) : t.audit[i] = s.audit[i]

Saving == saver.step \in {"serialized", "opened", "written"}

(* The inductive invariant: store, bytes being written and file are sound, *)
(* each is an earlier state of the one before it, and the temporary file   *)
(* is whole when it is renamed.                                            *)
Durable ==
  /\ Sound(mem)
  /\ saver.step \in {"idle", "taken", "serialized", "opened", "written"}
  /\ ~up => saver.step = "idle"
  /\ Saving => Sound(saver.data) /\ Before(saver.data, mem)
  /\ saver.step = "written" => tmp = saver.data
  /\ file = Absent \/ Sound(file)
  /\ file # Absent => /\ up => Before(file, mem)
                      /\ Saving => Before(file, saver.data)

-----------------------------------------------------------------------------
(* Appending an entry leaves the entries before it.                        *)
LEMMA AppendKeeps ==
  ASSUME NEW a \in Seq(Entries), NEW e \in Entries
  PROVE  LET b == Append(a, e)
         IN  /\ b \in Seq(Entries) /\ Len(a) \in Nat /\ Len(b) = Len(a) + 1
             /\ DOMAIN a = 1 .. Len(a) /\ DOMAIN b = 1 .. Len(a) + 1
             /\ b[Len(a) + 1] = e
             /\ \A i \in 1 .. Len(a) : b[i] = a[i]
OBVIOUS

(* An entry of another action or subject leaves what was set last; one of  *)
(* this action and subject is what was set last.                           *)
LEMMA LatestAppend ==
  ASSUME NEW a \in Seq(Entries), NEW e \in Entries, NEW action, NEW x
  PROVE  /\ \A v : Latest(a, action, x, v) /\ ~(e.action = action /\ e.subject = x)
                     => Latest(Append(a, e), action, x, v)
         /\ e.action = action /\ e.subject = x => Latest(Append(a, e), action, x, e.detail)
<1> DEFINE b == Append(a, e)
<1>1. /\ Len(a) \in Nat /\ DOMAIN a = 1 .. Len(a) /\ DOMAIN b = 1 .. Len(a) + 1
      /\ b[Len(a) + 1] = e /\ \A i \in 1 .. Len(a) : b[i] = a[i]
  BY AppendKeeps
<1> HIDE DEF b
<1>2. ASSUME NEW v, Latest(a, action, x, v), ~(e.action = action /\ e.subject = x)
      PROVE  Latest(b, action, x, v)
  <2>1. PICK i \in 1 .. Len(a) :
          /\ a[i].action = action /\ a[i].subject = x /\ a[i].detail = v
          /\ \A j \in 1 .. Len(a) : a[j].action = action /\ a[j].subject = x => j <= i
    BY <1>1, <1>2 DEF Latest
  <2>2. i \in 1 .. Len(a) + 1 /\ b[i] = a[i]
    BY <1>1
  <2>3. ASSUME NEW j \in 1 .. Len(a) + 1, b[j].action = action, b[j].subject = x PROVE j <= i
    <3>1. j # Len(a) + 1
      BY <1>1, <1>2, <2>3
    <3>2. j \in 1 .. Len(a)
      BY <1>1, <3>1
    <3> QED BY <1>1, <2>1, <2>3, <3>2
  <2> QED BY <1>1, <2>1, <2>2, <2>3 DEF Latest
<1>3. ASSUME e.action = action, e.subject = x PROVE Latest(b, action, x, e.detail)
  <2>1. Len(a) + 1 \in 1 .. Len(a) + 1 /\ \A j \in 1 .. Len(a) + 1 : j <= Len(a) + 1
    BY <1>1
  <2> QED BY <1>1, <1>3, <2>1 DEF Latest
<1> QED BY <1>2, <1>3 DEF b

(* What was set last is what Last finds.                                   *)
LEMMA LatestIsLast ==
  ASSUME NEW a \in Seq(Entries), NEW action, NEW x, NEW v, Latest(a, action, x, v)
  PROVE  Last(a, action, x) = v
<1> DEFINE at == {i \in DOMAIN a : a[i].action = action /\ a[i].subject = x}
<1>1. DOMAIN a = 1 .. Len(a) /\ Len(a) \in Nat
  OBVIOUS
<1>2. PICK i \in at : a[i].detail = v /\ \A j \in at : j <= i
  BY DEF Latest
<1>3. at \subseteq Nat
  BY <1>1
<1> HIDE DEF at
<1>4. \A k \in at : (\A j \in at : j <= k) => k = i
  BY <1>2, <1>3
<1>5. (CHOOSE k \in at : \A j \in at : j <= k) = i
  BY <1>2, <1>4
<1> QED BY <1>2, <1>5 DEF Last, at

(* A sound snapshot is explained by its audit chain.                       *)
LEMMA SoundIsExplained ==
  ASSUME NEW s, Sound(s)
  PROVE  Explained(s)
<1>1. s.audit \in Seq(Entries)
  BY DEF Sound, Snapshots
<1>2. \A x \in DOMAIN s.budgets : s.budgets[x] = Last(s.audit, "control.set_budget", x)
  BY <1>1, LatestIsLast DEF Sound, Agrees
<1>3. \A x \in DOMAIN s.unitBudgets :
        s.unitBudgets[x] = Last(s.audit, "control.unit_budget_set", x)
  BY <1>1, LatestIsLast DEF Sound, Agrees
<1> QED BY <1>2, <1>3 DEF Sound, Kills, Explained

(* An earlier state of the audit chain is a prefix of it.                  *)
LEMMA BeforeIsPrefix ==
  ASSUME NEW s \in Snapshots, NEW t \in Snapshots, Before(s, t)
  PROVE  SubSeq(t.audit, 1, Len(s.audit)) = s.audit
<1> DEFINE a == s.audit
           b == t.audit
           c == SubSeq(t.audit, 1, Len(s.audit))
<1>1. /\ a \in Seq(Entries) /\ b \in Seq(Entries) /\ Len(a) <= Len(b)
      /\ \A i \in 1 .. Len(a) : b[i] = a[i]
  BY DEF Snapshots, Before
<1> HIDE DEF a, b
<1>2. SubSeq(b, 1, Len(a)) = [i \in 1 .. Len(a) |-> b[i]]
  BY <1>1
<1>3. a = [i \in 1 .. Len(a) |-> a[i]]
  BY <1>1
<1>4. [i \in 1 .. Len(a) |-> b[i]] = [i \in 1 .. Len(a) |-> a[i]]
  BY <1>1
<1> QED BY <1>2, <1>3, <1>4 DEF a, b

-----------------------------------------------------------------------------
(* n is s with one more audit entry.                                       *)
Extends(n, s) ==
  \E e \in Entries :
    /\ n.audit = Append(s.audit, e)
    /\ s.audit \in Seq(Entries)

(* What was an earlier state stays one.                                    *)
LEMMA ExtendsKeepsBefore ==
  ASSUME NEW x \in Snapshots, NEW s \in Snapshots, NEW n, Extends(n, s)
  PROVE  Before(x, s) => Before(x, n)
<1>1. PICK e \in Entries : n.audit = Append(s.audit, e) /\ s.audit \in Seq(Entries)
  BY DEF Extends
<1>2. /\ Len(s.audit) \in Nat /\ Len(n.audit) = Len(s.audit) + 1
      /\ \A i \in 1 .. Len(s.audit) : n.audit[i] = s.audit[i]
  BY <1>1, AppendKeeps
<1>3. Len(x.audit) \in Nat
  BY DEF Snapshots
<1> QED BY <1>2, <1>3 DEF Before

(* An entry about something else leaves a map in agreement with the chain. *)
LEMMA AgreesAppend ==
  ASSUME NEW f, NEW a \in Seq(Entries), NEW e \in Entries, NEW action, e.action # action,
         Agrees(f, a, action)
  PROVE  Agrees(f, Append(a, e), action)
BY LatestAppend DEF Agrees

(* Setting a value and appending its entry keep them in agreement.         *)
LEMMA AgreesSet ==
  ASSUME NEW f \in SetBudgets, NEW a \in Seq(Entries), NEW action, NEW x \in Runs,
         NEW v \in Amounts, NEW e \in Entries,
         e.action = action, e.subject = x, e.detail = v, Agrees(f, a, action)
  PROVE  /\ Put(f, x, v) \in SetBudgets
         /\ Agrees(Put(f, x, v), Append(a, e), action)
<1> DEFINE g == Put(f, x, v)
<1>1. PICK S \in SUBSET Runs : f \in [S -> Amounts]
  BY DEF SetBudgets
<1>2. /\ g \in [S \cup {x} -> Amounts] /\ g[x] = v
      /\ \A y \in S : y # x => g[y] = f[y]
  BY <1>1 DEF Put
<1> HIDE DEF g
<1>3. g \in SetBudgets
  BY <1>2 DEF SetBudgets
<1>4. ASSUME NEW y \in S \cup {x} PROVE Latest(Append(a, e), action, y, g[y])
  <2>1. CASE y = x
    BY <1>2, <2>1, LatestAppend
  <2>2. CASE y # x
    <3>1. y \in DOMAIN f /\ g[y] = f[y]
      BY <1>1, <1>2, <1>4, <2>2
    <3>2. Latest(a, action, y, g[y])
      BY <3>1 DEF Agrees
    <3> QED BY <2>2, <3>2, LatestAppend
  <2> QED BY <2>1, <2>2
<1>5. Agrees(g, Append(a, e), action)
  BY <1>2, <1>4 DEF Agrees
<1> QED BY <1>3, <1>5 DEF g

(* The killed runs after an entry.                                         *)
LEMMA KillsAppend ==
  ASSUME NEW a \in Seq(Entries), NEW e \in Entries
  PROVE  Kills(Append(a, e)) =
           IF e.action = "control.kill" THEN Kills(a) \cup {e.subject} ELSE Kills(a)
<1> DEFINE b == Append(a, e)
<1>1. /\ Len(a) \in Nat /\ DOMAIN a = 1 .. Len(a) /\ DOMAIN b = 1 .. Len(a) + 1
      /\ b[Len(a) + 1] = e /\ \A i \in 1 .. Len(a) : b[i] = a[i]
      /\ \A i \in 1 .. Len(a) + 1 : i \in 1 .. Len(a) \/ i = Len(a) + 1
      /\ \A i \in 1 .. Len(a) : i \in 1 .. Len(a) + 1
      /\ Len(a) + 1 \in 1 .. Len(a) + 1
  BY AppendKeeps
<1> HIDE DEF b
<1>2. \A x : x \in Kills(b) <=> x \in Kills(a) \/ (e.action = "control.kill" /\ x = e.subject)
  <2> SUFFICES ASSUME NEW x
               PROVE  x \in Kills(b) <=> x \in Kills(a) \/ (e.action = "control.kill" /\ x = e.subject)
    OBVIOUS
  <2>1. x \in Kills(a) <=> \E i \in 1 .. Len(a) : a[i].action = "control.kill" /\ x = a[i].subject
    BY <1>1 DEF Kills
  <2>2. x \in Kills(b) <=> \E i \in 1 .. Len(a) + 1 : b[i].action = "control.kill" /\ x = b[i].subject
    BY <1>1 DEF Kills
  <2> QED BY <1>1, <2>1, <2>2
<1> QED BY <1>2 DEF b

(* What kill_audited, set_budget_audited and set_unit_budget_audited make  *)
(* of a sound store.                                                       *)
LEMMA MutationSound ==
  ASSUME NEW s, Sound(s), NEW run \in Runs, NEW n,
         \/ n = [s EXCEPT !.killed = @ \cup {run},
                          !.audit = Append(@, Entry("control.kill", run, 0))]
         \/ \E v \in Amounts :
              \/ n = [s EXCEPT !.budgets = Put(@, run, v),
                               !.audit = Append(@, Entry("control.set_budget", run, v))]
              \/ n = [s EXCEPT !.unitBudgets = Put(@, run, v),
                               !.audit = Append(@, Entry("control.unit_budget_set", run, v))]
  PROVE  Sound(n) /\ Extends(n, s)
<1>1. /\ s \in Snapshots /\ s.audit \in Seq(Entries) /\ s.killed \in SUBSET Runs
      /\ s.budgets \in SetBudgets /\ s.unitBudgets \in SetBudgets
  BY DEF Sound, Snapshots
<1>2. CASE n = [s EXCEPT !.killed = @ \cup {run},
                         !.audit = Append(@, Entry("control.kill", run, 0))]
  <2>1. PICK e : e = Entry("control.kill", run, 0)
    OBVIOUS
  <2>2. e \in Entries /\ e.action = "control.kill" /\ e.subject = run
    BY <2>1 DEF Entry, Entries
  <2>3. PICK k, b : k = s.killed \cup {run} /\ b = Append(s.audit, e)
    OBVIOUS
  <2>4. k \in SUBSET Runs /\ b \in Seq(Entries)
    BY <1>1, <2>2, <2>3, AppendKeeps
  <2>5. PICK t : t = [s EXCEPT !.killed = k]
    OBVIOUS
  <2>6. n = [t EXCEPT !.audit = b]
    BY <1>2, <2>1, <2>3, <2>5
  <2>7. /\ t \in Snapshots /\ t.killed = k /\ t.budgets = s.budgets
        /\ t.unitBudgets = s.unitBudgets /\ t.audit = s.audit
    BY <1>1, <2>4, <2>5 DEF Snapshots
  <2>8. /\ n \in Snapshots /\ n.killed = k /\ n.budgets = s.budgets
        /\ n.unitBudgets = s.unitBudgets /\ n.audit = b
    BY <2>4, <2>6, <2>7 DEF Snapshots
  <2>9. n.killed = Kills(n.audit)
    <3>1. Kills(Append(s.audit, e)) =
            IF e.action = "control.kill" THEN Kills(s.audit) \cup {e.subject} ELSE Kills(s.audit)
      BY <1>1, <2>2, KillsAppend
    <3> QED BY <2>2, <2>3, <2>8, <3>1 DEF Sound
  <2>10. /\ Agrees(n.budgets, n.audit, "control.set_budget")
         /\ Agrees(n.unitBudgets, n.audit, "control.unit_budget_set")
    <3>1. Agrees(s.budgets, Append(s.audit, e), "control.set_budget")
      BY <1>1, <2>2, AgreesAppend DEF Sound
    <3>2. Agrees(s.unitBudgets, Append(s.audit, e), "control.unit_budget_set")
      BY <1>1, <2>2, AgreesAppend DEF Sound
    <3> QED BY <2>3, <2>8, <3>1, <3>2
  <2> QED BY <1>1, <2>2, <2>3, <2>8, <2>9, <2>10 DEF Sound, Extends
<1>3. ASSUME NEW v \in Amounts,
             n = [s EXCEPT !.budgets = Put(@, run, v),
                           !.audit = Append(@, Entry("control.set_budget", run, v))]
      PROVE  Sound(n) /\ Extends(n, s)
  <2>1. PICK e : e = Entry("control.set_budget", run, v)
    OBVIOUS
  <2>2. /\ e \in Entries /\ e.action = "control.set_budget" /\ e.subject = run /\ e.detail = v
    BY <2>1 DEF Entry, Entries
  <2>3. PICK f, b : f = Put(s.budgets, run, v) /\ b = Append(s.audit, e)
    OBVIOUS
  <2>4. f \in SetBudgets /\ b \in Seq(Entries) /\ Agrees(f, b, "control.set_budget")
    BY <1>1, <2>2, <2>3, AppendKeeps, AgreesSet DEF Sound
  <2>5. PICK t : t = [s EXCEPT !.budgets = f]
    OBVIOUS
  <2>6. n = [t EXCEPT !.audit = b]
    BY <1>3, <2>1, <2>3, <2>5
  <2>7. /\ t \in Snapshots /\ t.killed = s.killed /\ t.budgets = f
        /\ t.unitBudgets = s.unitBudgets /\ t.audit = s.audit
    BY <1>1, <2>4, <2>5 DEF Snapshots
  <2>8. /\ n \in Snapshots /\ n.killed = s.killed /\ n.budgets = f
        /\ n.unitBudgets = s.unitBudgets /\ n.audit = b
    BY <2>4, <2>6, <2>7 DEF Snapshots
  <2>9. n.killed = Kills(n.audit)
    <3>1. Kills(Append(s.audit, e)) =
            IF e.action = "control.kill" THEN Kills(s.audit) \cup {e.subject} ELSE Kills(s.audit)
      BY <1>1, <2>2, KillsAppend
    <3> QED BY <2>2, <2>3, <2>8, <3>1 DEF Sound
  <2>10. Agrees(n.unitBudgets, n.audit, "control.unit_budget_set")
    <3>1. Agrees(s.unitBudgets, Append(s.audit, e), "control.unit_budget_set")
      BY <1>1, <2>2, AgreesAppend DEF Sound
    <3> QED BY <2>3, <2>8, <3>1
  <2> QED BY <1>1, <2>2, <2>3, <2>4, <2>8, <2>9, <2>10 DEF Sound, Extends
<1>4. ASSUME NEW v \in Amounts,
             n = [s EXCEPT !.unitBudgets = Put(@, run, v),
                           !.audit = Append(@, Entry("control.unit_budget_set", run, v))]
      PROVE  Sound(n) /\ Extends(n, s)
  <2>1. PICK e : e = Entry("control.unit_budget_set", run, v)
    OBVIOUS
  <2>2. e \in Entries /\ e.action = "control.unit_budget_set" /\ e.subject = run /\ e.detail = v
    BY <2>1 DEF Entry, Entries
  <2>3. PICK f, b : f = Put(s.unitBudgets, run, v) /\ b = Append(s.audit, e)
    OBVIOUS
  <2>4. f \in SetBudgets /\ b \in Seq(Entries) /\ Agrees(f, b, "control.unit_budget_set")
    BY <1>1, <2>2, <2>3, AppendKeeps, AgreesSet DEF Sound
  <2>5. PICK t : t = [s EXCEPT !.unitBudgets = f]
    OBVIOUS
  <2>6. n = [t EXCEPT !.audit = b]
    BY <1>4, <2>1, <2>3, <2>5
  <2>7. /\ t \in Snapshots /\ t.killed = s.killed /\ t.budgets = s.budgets
        /\ t.unitBudgets = f /\ t.audit = s.audit
    BY <1>1, <2>4, <2>5 DEF Snapshots
  <2>8. /\ n \in Snapshots /\ n.killed = s.killed /\ n.budgets = s.budgets
        /\ n.unitBudgets = f /\ n.audit = b
    BY <2>4, <2>6, <2>7 DEF Snapshots
  <2>9. n.killed = Kills(n.audit)
    <3>1. Kills(Append(s.audit, e)) =
            IF e.action = "control.kill" THEN Kills(s.audit) \cup {e.subject} ELSE Kills(s.audit)
      BY <1>1, <2>2, KillsAppend
    <3> QED BY <2>2, <2>3, <2>8, <3>1 DEF Sound
  <2>10. Agrees(n.budgets, n.audit, "control.set_budget")
    <3>1. Agrees(s.budgets, Append(s.audit, e), "control.set_budget")
      BY <1>1, <2>2, AgreesAppend DEF Sound
    <3> QED BY <2>3, <2>8, <3>1
  <2> QED BY <1>1, <2>2, <2>3, <2>4, <2>8, <2>9, <2>10 DEF Sound, Extends
<1> QED BY <1>2, <1>3, <1>4

-----------------------------------------------------------------------------
(* A store is an earlier state of itself.                                  *)
LEMMA BeforeItself ==
  ASSUME NEW s \in Snapshots
  PROVE  Before(s, s)
<1>1. Len(s.audit) \in Nat
  BY DEF Snapshots
<1> QED BY <1>1 DEF Before

(* The empty store is sound.                                               *)
LEMMA EmptyIsSound == Sound(Empty)
<1>1. << >> \in SetBudgets /\ DOMAIN << >> = {} /\ << >> \in Seq(Entries)
  <2>1. << >> \in [{} -> Amounts] /\ DOMAIN << >> = {}
    OBVIOUS
  <2> QED BY <2>1 DEF SetBudgets
<1>2. Empty \in Snapshots
  BY <1>1 DEF Empty, Snapshots
<1>3. Kills(<< >>) = {}
  BY <1>1 DEF Kills
<1> QED BY <1>1, <1>2, <1>3 DEF Empty, Sound, Agrees

(* Init establishes the invariant.                                         *)
LEMMA DurableInit == Init => Durable
BY EmptyIsSound DEF Init, Durable, Idle, Saving

(* Every step preserves it, and never takes a snapshot back: the file is   *)
(* replaced only by a later state of the store.                            *)
LEMMA DurableNext ==
  ASSUME Durable, [Next]_vars
  PROVE  Durable' /\ (file # Absent => file' # Absent /\ Before(file, file'))
<1> USE DEF Durable, Saving
<1>0. /\ \A s : Sound(s) => s \in Snapshots /\ s # Absent /\ s # Partial /\ Before(s, s)
      /\ file # Absent => Before(file, file)
  BY FilesAssumption, BeforeItself DEF Sound
<1>1. ASSUME NEW n, Sound(n), Extends(n, mem), Mutate(n)
      PROVE  Durable' /\ file' = file
  <2>1. \A x : Sound(x) /\ Before(x, mem) => Before(x, n)
    BY <1>0, <1>1, ExtendsKeepsBefore
  <2>2. /\ mem' = n /\ saver' = saver /\ tmp' = tmp /\ file' = file /\ up' = up
    BY <1>1 DEF Mutate
  <2> QED BY <1>0, <1>1, <2>1, <2>2
<1>2. ASSUME NEW run \in Runs,
             \/ Kill(run)
             \/ \E a \in Amounts : SetBudget(run, a) \/ SetUnitBudget(run, a)
      PROVE  Durable' /\ file' = file
  <2>1. PICK n : Mutate(n) /\
          (\/ n = [mem EXCEPT !.killed = @ \cup {run},
                              !.audit = Append(@, Entry("control.kill", run, 0))]
           \/ \E v \in Amounts :
                \/ n = [mem EXCEPT !.budgets = Put(@, run, v),
                                   !.audit = Append(@, Entry("control.set_budget", run, v))]
                \/ n = [mem EXCEPT !.unitBudgets = Put(@, run, v),
                                   !.audit = Append(@, Entry("control.unit_budget_set", run, v))])
    BY <1>2 DEF Kill, SetBudget, SetUnitBudget
  <2>2. Sound(n) /\ Extends(n, mem)
    BY <2>1, MutationSound
  <2> QED BY <1>1, <2>1, <2>2
<1>3. CASE TakeDirty
  <2>1. saver'.step = "taken" /\ mem' = mem /\ file' = file /\ up' = up /\ up
    BY <1>3 DEF TakeDirty, Step
  <2> QED BY <1>0, <2>1
<1>4. CASE Serialize
  <2>1. /\ saver'.step = "serialized" /\ saver'.data = mem
        /\ mem' = mem /\ file' = file /\ up' = up /\ up
    BY <1>4 DEF Serialize, Step
  <2> QED BY <1>0, <2>1
<1>5. CASE OpenTmp
  <2>1. /\ saver'.step = "opened" /\ saver'.data = saver.data /\ saver.step = "serialized"
        /\ mem' = mem /\ file' = file /\ up' = up /\ up
    BY <1>5 DEF OpenTmp, Step
  <2> QED BY <1>0, <2>1
<1>6. CASE WriteTmp
  <2>1. /\ saver'.step = "written" /\ saver'.data = saver.data /\ saver.step = "opened"
        /\ tmp' = saver.data /\ mem' = mem /\ file' = file /\ up' = up /\ up
    BY <1>6 DEF WriteTmp, Step
  <2> QED BY <1>0, <2>1
<1>7. CASE Rename
  <2>1. /\ saver'.step = "idle" /\ saver.step = "written" /\ file' = saver.data
        /\ mem' = mem /\ up' = up /\ up
    BY <1>7 DEF Rename, Idle
  <2> QED BY <1>0, <2>1
<1>8. CASE SaveFails
  <2>1. saver'.step = "idle" /\ mem' = mem /\ file' = file /\ up' = up
    BY <1>8 DEF SaveFails, Idle
  <2> QED BY <1>0, <2>1
<1>9. CASE Crash
  <2>1. saver'.step = "idle" /\ mem' = Empty /\ file' = file /\ ~up'
    BY <1>9 DEF Crash, Idle
  <2> QED BY <1>0, <2>1, EmptyIsSound
<1>10. CASE Start
  <2>1. /\ saver' = saver /\ saver.step = "idle" /\ tmp' = tmp /\ file' = file
        /\ mem' = IF file \in {Absent, Partial} THEN Empty ELSE file
    BY <1>10 DEF Start
  <2>2. CASE file = Absent
    BY <2>1, <2>2, EmptyIsSound
  <2>3. CASE file # Absent
    BY <1>0, <2>1, <2>3
  <2> QED BY <2>2, <2>3
<1>11. CASE UNCHANGED vars
  BY <1>0, <1>11 DEF vars
<1> QED BY <1>0, <1>2, <1>3, <1>4, <1>5, <1>6, <1>7, <1>8, <1>9, <1>10, <1>11 DEF Next, Save

(* The invariant holds in every reachable state.                           *)
LEMMA DurableAlways == Spec => []Durable
<1>1. Durable /\ [Next]_vars => Durable'
  BY DurableNext
<1> QED BY <1>1, DurableInit, PTL DEF Spec

(* main.rs, store.rs: wherever the plane crashes, whatever saves fail and  *)
(* whatever mutations fall between the steps of a save, the file is whole, *)
(* it is an earlier state of the store, and neither holds a mutation that  *)
(* the audit chain in it does not explain.                                 *)
THEOREM SnapshotsSound == Spec => []SnapshotSound
<1>1. Durable => SnapshotSound
  <2> SUFFICES ASSUME Durable PROVE SnapshotSound
    OBVIOUS
  <2>1. Explained(mem) /\ (file \notin {Absent, Partial} => Explained(file))
    BY SoundIsExplained DEF Durable
  <2>2. file # Absent => Sound(file) /\ Sound(mem)
    BY DEF Durable
  <2>3. file # Partial
    BY <2>2, FilesAssumption DEF Sound
  <2>4. up /\ file # Absent => SubSeq(mem.audit, 1, Len(file.audit)) = file.audit
    BY <2>2, BeforeIsPrefix DEF Durable, Sound
  <2> QED BY <2>1, <2>3, <2>4 DEF SnapshotSound, AuditExplainsState, SnapshotIntact
<1> QED BY <1>1, DurableAlways, PTL

(* The snapshot only moves forward: once written, it is replaced by later  *)
(* states of the store only, and nothing removes it.                       *)
SnapshotStep ==
  file # Absent =>
    file' # Absent /\ SubSeq(file'.audit, 1, Len(file.audit)) = file.audit

(* main.rs, autosave: over any number of crashes, restarts and failed      *)
(* saves, no save ever takes the file back to an earlier state.            *)
THEOREM SnapshotForward == Spec => [][SnapshotStep]_vars
<1>1. Durable /\ Durable' /\ [Next]_vars => SnapshotStep
  <2> SUFFICES ASSUME Durable, Durable', [Next]_vars, file # Absent PROVE SnapshotStep
    BY DEF SnapshotStep
  <2>1. file' # Absent /\ Before(file, file')
    BY DurableNext
  <2>2. file \in Snapshots /\ file' \in Snapshots
    BY <2>1 DEF Durable, Sound
  <2> QED BY <2>1, <2>2, BeforeIsPrefix DEF SnapshotStep
<1> QED BY <1>1, DurableAlways, PTL DEF Spec

-----------------------------------------------------------------------------
(***************************************************************************)
(* The trace and the Cloud sink (Telemetry), with any number of handlers,  *)
(* records, restarts and lost posts, and any sizes of buffer and batch.    *)
(***************************************************************************)
Held(s) == Sink!ToSet(s)
Distinct(s) == \A i, j \in DOMAIN s : s[i] = s[j] => i = j

LEMMA HeldEmpty == Held(<<>>) = {} /\ Distinct(<<>>)
BY DEF Held, Distinct, Sink!ToSet

LEMMA HeldAppend ==
  ASSUME NEW s \in Seq(Nat), NEW x \in Nat
  PROVE  /\ Append(s, x) \in Seq(Nat)
         /\ Held(Append(s, x)) = Held(s) \cup {x}
         /\ Distinct(s) /\ x \notin Held(s) => Distinct(Append(s, x))
<1> DEFINE t == Append(s, x)
           n == Len(s)
<1>1. /\ t \in Seq(Nat) /\ n \in Nat /\ DOMAIN s = 1 .. n /\ DOMAIN t = 1 .. n + 1
      /\ t[n + 1] = x /\ \A i \in 1 .. n : t[i] = s[i]
  OBVIOUS
<1> HIDE DEF t, n
<1>2. \A i \in 1 .. n + 1 : i = n + 1 \/ i \in 1 .. n
  BY <1>1
<1>3. {t[i] : i \in DOMAIN t} = {s[i] : i \in DOMAIN s} \cup {x}
  <2>1. \A y : y \in {t[i] : i \in DOMAIN t} => y \in {s[i] : i \in DOMAIN s} \cup {x}
    BY <1>1, <1>2
  <2>2. \A y : y \in {s[i] : i \in DOMAIN s} => y \in {t[i] : i \in DOMAIN t}
    <3> TAKE y
    <3> HAVE y \in {s[i] : i \in DOMAIN s}
    <3>1. PICK i \in DOMAIN s : y = s[i]
      OBVIOUS
    <3>2. i \in DOMAIN t /\ t[i] = y
      BY <1>1, <3>1
    <3> QED BY <3>2
  <2>3. x \in {t[i] : i \in DOMAIN t}
    <3>1. n + 1 \in DOMAIN t
      BY <1>1
    <3> QED BY <1>1, <3>1
  <2> QED BY <2>1, <2>2, <2>3
<1>4. ASSUME Distinct(s), x \notin Held(s) PROVE Distinct(t)
  <2>1. \A i \in 1 .. n : s[i] # x
    BY <1>1, <1>4 DEF Held, Sink!ToSet
  <2> QED BY <1>1, <1>2, <1>4, <2>1 DEF Distinct
<1> QED BY <1>1, <1>3, <1>4 DEF Held, Sink!ToSet, t

LEMMA HeldConcat ==
  ASSUME NEW s \in Seq(Nat), NEW b \in Seq(Nat)
  PROVE  /\ s \o b \in Seq(Nat)
         /\ Held(s \o b) = Held(s) \cup Held(b)
         /\ Distinct(s) /\ Distinct(b) /\ Held(s) \cap Held(b) = {} => Distinct(s \o b)
<1> DEFINE t == s \o b
           n == Len(s)
           m == Len(b)
<1>1. /\ t \in Seq(Nat) /\ n \in Nat /\ m \in Nat
      /\ DOMAIN s = 1 .. n /\ DOMAIN b = 1 .. m /\ DOMAIN t = 1 .. n + m
      /\ \A i \in 1 .. n : t[i] = s[i]
      /\ \A i \in n + 1 .. n + m : t[i] = b[i - n]
  OBVIOUS
<1> HIDE DEF t, n, m
<1>2. \A i \in 1 .. n + m : i \in 1 .. n \/ (i \in n + 1 .. n + m /\ i - n \in 1 .. m)
  BY <1>1
<1>3. {t[i] : i \in DOMAIN t} = {s[i] : i \in DOMAIN s} \cup {b[i] : i \in DOMAIN b}
  <2>1. \A y : y \in {t[i] : i \in DOMAIN t} => y \in {s[i] : i \in DOMAIN s} \cup {b[i] : i \in DOMAIN b}
    BY <1>1, <1>2
  <2>2. \A y : y \in {s[i] : i \in DOMAIN s} => y \in {t[i] : i \in DOMAIN t}
    <3> TAKE y
    <3> HAVE y \in {s[i] : i \in DOMAIN s}
    <3>1. PICK i \in DOMAIN s : y = s[i]
      OBVIOUS
    <3>2. i \in DOMAIN t /\ t[i] = y
      BY <1>1, <3>1
    <3> QED BY <3>2
  <2>3. \A y : y \in {b[i] : i \in DOMAIN b} => y \in {t[i] : i \in DOMAIN t}
    <3> TAKE y
    <3> HAVE y \in {b[i] : i \in DOMAIN b}
    <3>1. PICK i \in DOMAIN b : y = b[i]
      OBVIOUS
    <3>2. n + i \in n + 1 .. n + m /\ n + i \in 1 .. n + m /\ (n + i) - n = i
      BY <1>1
    <3>3. n + i \in DOMAIN t /\ t[n + i] = y
      BY <1>1, <3>1, <3>2
    <3> QED BY <3>3
  <2> QED BY <2>1, <2>2, <2>3
<1>4. ASSUME Distinct(s), Distinct(b), Held(s) \cap Held(b) = {} PROVE Distinct(t)
  <2> SUFFICES ASSUME NEW i \in 1 .. n + m, NEW j \in 1 .. n + m, t[i] = t[j] PROVE i = j
    BY <1>1 DEF Distinct
  <2>0. \A k \in 1 .. n, l \in 1 .. m : s[k] # b[l]
    BY <1>1, <1>4 DEF Held, Sink!ToSet
  <2>1. CASE i \in 1 .. n /\ j \in 1 .. n
    BY <1>1, <1>4, <2>1 DEF Distinct
  <2>2. CASE i \in 1 .. n /\ j \notin 1 .. n
    BY <1>1, <1>2, <2>0, <2>2
  <2>3. CASE i \notin 1 .. n /\ j \in 1 .. n
    BY <1>1, <1>2, <2>0, <2>3
  <2>4. CASE i \notin 1 .. n /\ j \notin 1 .. n
    <3>1. i - n \in 1 .. m /\ j - n \in 1 .. m /\ b[i - n] = b[j - n]
      BY <1>1, <1>2, <2>4
    <3>2. i - n = j - n
      BY <1>1, <1>4, <3>1 DEF Distinct
    <3> QED BY <1>1, <3>2
  <2> QED BY <2>1, <2>2, <2>3, <2>4
<1> QED BY <1>1, <1>3, <1>4 DEF Held, Sink!ToSet, t

(* The types.  A record is its number in the order of settling.            *)
SinkTyped ==
  /\ process \in [up : BOOLEAN, instance : Nat, seq : Nat]
  /\ trace \in Seq(Nat) /\ cloud \in Seq(Nat) /\ ingested \in Seq(Nat) /\ posts \subseteq Seq(Nat)
  /\ task \in [Handlers -> [step : {"idle", "write", "push", "take"}, rec : Nat, batch : Seq(Nat)]]
  /\ settled \in Nat

Pending(h) == task[h].step = "write" \/ task[h].step = "push"

(* A record is with its handler, in the Cloud buffer, in one post under    *)
(* way, or counted; once, and in one of them.                              *)
BuffersDisjoint ==
  /\ Distinct(ingested) /\ Distinct(cloud)
  /\ Held(ingested) \cap Held(cloud) = {}
  /\ Held(ingested) \subseteq 1 .. settled /\ Held(cloud) \subseteq 1 .. settled

PostsDisjoint ==
  /\ \A b \in posts : Distinct(b) /\ Held(b) \subseteq 1 .. settled
  /\ \A b, c \in posts : b # c => Held(b) \cap Held(c) = {}
  /\ \A b \in posts : Held(b) \cap Held(ingested) = {} /\ Held(b) \cap Held(cloud) = {}

PendingOnce ==
  /\ \A h \in Handlers : Pending(h) => /\ task[h].rec \in 1 .. settled
                                       /\ task[h].rec \notin Held(ingested) \cup Held(cloud)
                                       /\ \A b \in posts : task[h].rec \notin Held(b)
  /\ \A g, h \in Handlers : Pending(g) /\ Pending(h) /\ task[g].rec = task[h].rec => g = h

SinkInv == SinkTyped /\ BuffersDisjoint /\ PostsDisjoint /\ PendingOnce

LEMMA SinkInvEnough == SinkInv => Sink!CountedAtMostOnce
BY DEF SinkInv, BuffersDisjoint, PostsDisjoint, Sink!CountedAtMostOnce, Sink!IsInjective, Distinct, Held

LEMMA SinkInvInit == Sink!Init => SinkInv
<1> SUFFICES ASSUME Sink!Init PROVE SinkInv
  OBVIOUS
<1>1. SinkTyped
  BY DEF Sink!Init, Sink!Idle, SinkTyped
<1>2. BuffersDisjoint /\ PostsDisjoint
  BY HeldEmpty DEF Sink!Init, BuffersDisjoint, PostsDisjoint
<1>3. PendingOnce
  BY DEF Sink!Init, Sink!Idle, PendingOnce, Pending
<1> QED BY <1>1, <1>2, <1>3 DEF SinkInv

(* A record that begins is new.                                            *)
LEMMA RecordKeeps ==
  ASSUME SinkInv, NEW h \in Handlers, Sink!RecordTrace(h)
  PROVE  SinkInv'
<1> DEFINE full == Append(trace, settled + 1)
<1> USE DEF SinkInv
<1>1. /\ settled \in Nat /\ settled' = settled + 1
      /\ UNCHANGED <<process, cloud, posts, ingested>>
      /\ trace' = IF Len(full) >= Threshold THEN <<>> ELSE full
      /\ task' = [task EXCEPT ![h] = [step |-> "write", rec |-> settled + 1,
                                      batch |-> IF Len(full) >= Threshold THEN full ELSE <<>>]]
  BY DEF Sink!RecordTrace, SinkTyped
<1>2. full \in Seq(Nat)
  BY <1>1, HeldAppend DEF SinkTyped
<1> HIDE DEF full
<1>3. PICK batch \in Seq(Nat) : task' = [task EXCEPT ![h] = [step |-> "write", rec |-> settled + 1, batch |-> batch]]
  <2>0. <<>> \in Seq(Nat)
    OBVIOUS
  <2>1. CASE Len(full) >= Threshold
    BY <1>1, <1>2, <2>1
  <2>2. CASE ~(Len(full) >= Threshold)
    BY <1>1, <2>0, <2>2
  <2> QED BY <2>1, <2>2
<1>4. SinkTyped'
  <2>1. trace' \in Seq(Nat)
    BY <1>1, <1>2
  <2> QED BY <1>1, <1>3, <2>1 DEF SinkTyped
<1>5. \A n \in 1 .. settled : n \in 1 .. settled + 1 /\ n # settled + 1
  BY <1>1
<1>6. BuffersDisjoint' /\ PostsDisjoint'
  BY <1>1, <1>5 DEF BuffersDisjoint, PostsDisjoint, Held, Distinct
<1>7. /\ task'[h].rec = settled + 1
      /\ \A g \in Handlers : g # h => task'[g] = task[g]
  BY <1>3 DEF SinkTyped
<1>8. PendingOnce'
  <2>1. settled + 1 \notin Held(ingested) \cup Held(cloud) /\ \A b \in posts : settled + 1 \notin Held(b)
    BY <1>5 DEF BuffersDisjoint, PostsDisjoint
  <2>2. \A g \in Handlers : Pending(g) => task[g].rec \in 1 .. settled + 1 /\ task[g].rec # settled + 1
    BY <1>5 DEF PendingOnce
  <2> QED BY <1>1, <1>7, <2>1, <2>2 DEF PendingOnce, Pending, Held
<1> QED BY <1>4, <1>6, <1>8

(* A step that changes nothing of what was sent, and takes no task to a    *)
(* step at which it is pending.                                            *)
LEMMA SentUnchanged ==
  ASSUME SinkInv, SinkTyped', UNCHANGED <<cloud, posts, ingested, settled>>,
         \A h \in Handlers : Pending(h)' => Pending(h) /\ task'[h].rec = task[h].rec
  PROVE  SinkInv'
<1> USE DEF SinkInv
<1>1. BuffersDisjoint' /\ PostsDisjoint'
  BY DEF BuffersDisjoint, PostsDisjoint, Held, Distinct
<1>2. PendingOnce'
  BY DEF PendingOnce, Held
<1> QED BY <1>1, <1>2

LEMMA WriteBatchKeeps ==
  ASSUME SinkInv, NEW h \in Handlers, Sink!WriteBatch(h)
  PROVE  SinkInv'
<1> USE DEF SinkInv
<1>1. /\ UNCHANGED <<trace, cloud, posts, ingested, settled>> /\ task[h].step = "write"
      /\ task' = [task EXCEPT ![h] = [step |-> "push", rec |-> task[h].rec, batch |-> <<>>]]
      /\ process' = [process EXCEPT !.seq = Sink!NextSeq(task[h].batch)]
  BY DEF Sink!WriteBatch
<1>a. <<>> \in Seq(Nat)
  OBVIOUS
<1>b. task[h] \in [step : {"idle", "write", "push", "take"}, rec : Nat, batch : Seq(Nat)]
  BY DEF SinkTyped
<1>2. /\ task'[h] = [step |-> "push", rec |-> task[h].rec, batch |-> <<>>]
      /\ \A g \in Handlers : g # h => task'[g] = task[g]
      /\ task' \in [Handlers -> [step : {"idle", "write", "push", "take"}, rec : Nat, batch : Seq(Nat)]]
  BY <1>1, <1>a, <1>b DEF SinkTyped
<1>3. SinkTyped'
  <2>1. Sink!NextSeq(task[h].batch) \in Nat
    BY DEF SinkTyped, Sink!NextSeq
  <2>2. process' \in [up : BOOLEAN, instance : Nat, seq : Nat]
    BY <1>1, <2>1 DEF SinkTyped
  <2> QED BY <1>1, <1>2, <2>2 DEF SinkTyped
<1>4. \A g \in Handlers : Pending(g)' => Pending(g) /\ task'[g].rec = task[g].rec
  BY <1>1, <1>2 DEF Pending
<1> QED BY <1>1, <1>3, <1>4, SentUnchanged

LEMMA PushKeeps ==
  ASSUME SinkInv, NEW h \in Handlers, Sink!PushCloud(h)
  PROVE  SinkInv'
<1> DEFINE r == task[h].rec
<1> USE DEF SinkInv
<1>1. /\ UNCHANGED <<process, trace, posts, ingested, settled>> /\ Pending(h)
      /\ cloud' = Append(cloud, r) /\ task' = [task EXCEPT ![h].step = "take"]
  BY DEF Sink!PushCloud, Pending
<1>2. /\ ~Pending(h)'
      /\ \A g \in Handlers : g # h => task'[g] = task[g]
      /\ task' \in [Handlers -> [step : {"idle", "write", "push", "take"}, rec : Nat, batch : Seq(Nat)]]
  BY <1>1 DEF SinkTyped, Pending
<1>3. r \in Nat /\ r \in 1 .. settled /\ r \notin Held(ingested) /\ r \notin Held(cloud)
      /\ \A b \in posts : r \notin Held(b)
  BY <1>1 DEF PendingOnce, SinkTyped
<1>4. cloud' \in Seq(Nat) /\ Held(cloud') = Held(cloud) \cup {r} /\ Distinct(cloud')
  BY <1>1, <1>3, HeldAppend DEF SinkTyped, BuffersDisjoint
<1> HIDE DEF r
<1>5. SinkTyped'
  BY <1>1, <1>2, <1>4 DEF SinkTyped
<1>6. BuffersDisjoint'
  BY <1>1, <1>3, <1>4 DEF BuffersDisjoint, Held, Distinct
<1>7. PostsDisjoint'
  BY <1>1, <1>3, <1>4 DEF PostsDisjoint, Held, Distinct
<1>8. PendingOnce'
  <2>1. \A g \in Handlers : Pending(g)' => g # h /\ Pending(g) /\ task'[g] = task[g] /\ task[g].rec # r
    BY <1>1, <1>2 DEF PendingOnce, Pending, r
  <2> QED BY <1>1, <1>4, <2>1 DEF PendingOnce, Held
<1> QED BY <1>5, <1>6, <1>7, <1>8

(* Taking the buffer: its records are in the post and no longer in it.     *)
LEMMA ShipKeeps ==
  ASSUME SinkInv, SinkTyped', UNCHANGED <<ingested, settled>>,
         cloud' = <<>>, cloud # <<>>, posts' = posts \cup {cloud},
         \A h \in Handlers : Pending(h)' => Pending(h) /\ task'[h].rec = task[h].rec
  PROVE  SinkInv'
<1> USE DEF SinkInv
<1>1. Held(cloud') = {} /\ Distinct(cloud')
  BY HeldEmpty
<1>2. BuffersDisjoint'
  BY <1>1 DEF BuffersDisjoint, Held, Distinct
<1>3. PostsDisjoint'
  BY <1>1 DEF PostsDisjoint, BuffersDisjoint, Held, Distinct
<1>4. PendingOnce'
  BY <1>1 DEF PendingOnce, Held
<1> QED BY <1>2, <1>3, <1>4

LEMMA TakeKeeps ==
  ASSUME SinkInv, NEW h \in Handlers, Sink!TakeIfFull(h)
  PROVE  SinkInv'
<1> USE DEF SinkInv
<1>1. /\ UNCHANGED <<process, trace, ingested, settled>>
      /\ task' = [task EXCEPT ![h] = Sink!Idle]
  BY DEF Sink!TakeIfFull
<1>2. /\ task' \in [Handlers -> [step : {"idle", "write", "push", "take"}, rec : Nat, batch : Seq(Nat)]]
      /\ \A g \in Handlers : Pending(g)' => Pending(g) /\ task'[g].rec = task[g].rec
  BY <1>1 DEF SinkTyped, Pending, Sink!Idle
<1>3. CASE cloud # <<>> /\ cloud' = <<>> /\ posts' = posts \cup {cloud}
  <2>1. SinkTyped'
    BY <1>1, <1>2, <1>3 DEF SinkTyped
  <2> QED BY <1>1, <1>2, <1>3, <2>1, ShipKeeps
<1>4. CASE UNCHANGED <<cloud, posts>>
  <2>1. SinkTyped'
    BY <1>1, <1>2, <1>4 DEF SinkTyped
  <2> QED BY <1>1, <1>2, <1>4, <2>1, SentUnchanged
<1> QED BY <1>3, <1>4 DEF Sink!TakeIfFull, Sink!Ship

LEMMA FlushKeeps ==
  ASSUME SinkInv, Sink!FlushCloud
  PROVE  SinkInv'
<1>1. /\ UNCHANGED <<process, trace, ingested, task, settled>>
      /\ cloud # <<>> /\ cloud' = <<>> /\ posts' = posts \cup {cloud}
  BY DEF Sink!FlushCloud, Sink!Ship
<1>2. SinkTyped'
  BY <1>1 DEF SinkInv, SinkTyped
<1>3. \A g \in Handlers : Pending(g)' => Pending(g) /\ task'[g].rec = task[g].rec
  BY <1>1 DEF Pending
<1> QED BY <1>1, <1>2, <1>3, ShipKeeps

LEMMA DeliverKeeps ==
  ASSUME SinkInv, NEW b \in posts, Sink!Deliver(b) \/ Sink!Lose(b)
  PROVE  SinkInv'
<1> USE DEF SinkInv
<1>1. /\ UNCHANGED <<process, trace, cloud, task, settled>> /\ posts' = posts \ {b}
      /\ ingested' = ingested \/ ingested' = ingested \o b
  BY DEF Sink!Deliver, Sink!Lose
<1>2. b \in Seq(Nat) /\ Distinct(b) /\ Held(b) \subseteq 1 .. settled
      /\ Held(b) \cap Held(ingested) = {} /\ Held(b) \cap Held(cloud) = {}
      /\ \A c \in posts' : Held(c) \cap Held(b) = {}
      /\ \A h \in Handlers : Pending(h) => task[h].rec \notin Held(b)
  BY <1>1 DEF SinkTyped, PostsDisjoint, PendingOnce
<1>3. /\ ingested' \in Seq(Nat) /\ Distinct(ingested')
      /\ Held(ingested') = Held(ingested) \/ Held(ingested') = Held(ingested) \cup Held(b)
  <2>1. CASE ingested' = ingested
    BY <2>1 DEF SinkTyped, BuffersDisjoint
  <2>2. CASE ingested' = ingested \o b
    <3>1. ingested \in Seq(Nat) /\ Distinct(ingested) /\ Held(ingested) \cap Held(b) = {}
      BY <1>2 DEF SinkTyped, BuffersDisjoint
    <3> QED BY <1>2, <2>2, <3>1, HeldConcat
  <2> QED BY <1>1, <2>1, <2>2
<1>4. SinkTyped'
  BY <1>1, <1>3 DEF SinkTyped
<1>5. BuffersDisjoint'
  BY <1>1, <1>2, <1>3 DEF BuffersDisjoint, Held, Distinct
<1>6. PostsDisjoint'
  BY <1>1, <1>2, <1>3 DEF PostsDisjoint, Held, Distinct
<1>7. PendingOnce'
  BY <1>1, <1>2, <1>3 DEF PendingOnce, Pending, Held
<1> QED BY <1>4, <1>5, <1>6, <1>7

(* A process that stops loses what it had not sent.                        *)
LEMMA DownKeeps ==
  ASSUME SinkInv, Sink!Down
  PROVE  SinkInv'
<1> USE DEF SinkInv
<1>1. /\ UNCHANGED <<ingested, settled>> /\ trace' = <<>> /\ cloud' = <<>> /\ posts' = {}
      /\ task' = [h \in Handlers |-> Sink!Idle] /\ process' = [process EXCEPT !.up = FALSE]
  BY DEF Sink!Down
<1>2. SinkTyped'
  <2>1. <<>> \in Seq(Nat) /\ {} \subseteq Seq(Nat)
    OBVIOUS
  <2>2. process' \in [up : BOOLEAN, instance : Nat, seq : Nat]
    BY <1>1 DEF SinkTyped
  <2>3. task' \in [Handlers -> [step : {"idle", "write", "push", "take"}, rec : Nat, batch : Seq(Nat)]]
    BY <1>1, <2>1 DEF Sink!Idle
  <2> QED BY <1>1, <2>1, <2>2, <2>3 DEF SinkTyped
<1>3. Held(cloud') = {} /\ Distinct(cloud')
  BY <1>1, HeldEmpty
<1>4. BuffersDisjoint'
  BY <1>1, <1>3 DEF BuffersDisjoint, Held, Distinct
<1>5. PostsDisjoint' /\ PendingOnce'
  BY <1>1 DEF PostsDisjoint, PendingOnce, Pending, Sink!Idle
<1> QED BY <1>2, <1>4, <1>5

LEMMA StartKeeps ==
  ASSUME SinkInv, Sink!Start
  PROVE  SinkInv'
<1>1. /\ UNCHANGED <<trace, cloud, posts, ingested, task, settled>>
      /\ process' = [up |-> TRUE, instance |-> process.instance + 1, seq |-> 0]
  BY DEF Sink!Start
<1>2. SinkTyped'
  BY <1>1 DEF SinkInv, SinkTyped
<1>3. \A g \in Handlers : Pending(g)' => Pending(g) /\ task'[g].rec = task[g].rec
  BY <1>1 DEF Pending
<1> QED BY <1>1, <1>2, <1>3, SentUnchanged

LEMMA SinkInvStep == SinkInv /\ [Sink!Next]_Sink!vars => SinkInv'
<1> SUFFICES ASSUME SinkInv, [Sink!Next]_Sink!vars PROVE SinkInv'
  OBVIOUS
<1>1. CASE \E h \in Handlers : Sink!RecordTrace(h) \/ Sink!WriteBatch(h) \/ Sink!PushCloud(h) \/ Sink!TakeIfFull(h)
  BY <1>1, RecordKeeps, WriteBatchKeeps, PushKeeps, TakeKeeps
<1>2. CASE Sink!FlushCloud
  BY <1>2, FlushKeeps
<1>3. CASE \E b \in posts : Sink!Deliver(b) \/ Sink!Lose(b)
  BY <1>3, DeliverKeeps
<1>4. CASE Sink!Shutdown \/ Sink!Crash
  BY <1>4, DownKeeps DEF Sink!Shutdown, Sink!Crash
<1>5. CASE Sink!Start
  BY <1>5, StartKeeps
<1>6. CASE UNCHANGED Sink!vars
  <2>1. UNCHANGED <<process, trace, cloud, posts, ingested, task, settled>>
    BY <1>6 DEF Sink!vars
  <2>2. SinkTyped'
    BY <2>1 DEF SinkInv, SinkTyped
  <2>3. \A g \in Handlers : Pending(g)' => Pending(g) /\ task'[g].rec = task[g].rec
    BY <2>1 DEF Pending
  <2> QED BY <2>1, <2>2, <2>3, SentUnchanged
<1> QED BY <1>1, <1>2, <1>3, <1>4, <1>5, <1>6 DEF Sink!Next

(* cloudsink.rs: handlers and the flusher take one buffer under two locks, *)
(* posts are lost or arrive in any order, and the process stops anywhere:  *)
(* no call is counted twice by the control plane.                          *)
LEMMA PostedAtMostOnce == Sink!Spec => []Sink!CountedAtMostOnce
<1>1. Sink!Spec => []SinkInv
  BY SinkInvInit, SinkInvStep, PTL DEF Sink!Spec
<1> QED BY <1>1, SinkInvEnough, PTL

-----------------------------------------------------------------------------
(* The segments: every file on disk has a name the running process will    *)
(* not give again.                                                         *)
NamesUsed ==
  \A n \in DOMAIN segments : \E i \in Nat, k \in Nat :
    /\ n = <<i, k>>
    /\ i < process.instance \/ (i = process.instance /\ (process.up => k < process.seq))

SegmentInv == SinkTyped /\ NamesUsed /\ Sink!SegmentsKept

LEMMA NameIsNew ==
  ASSUME SinkTyped, NamesUsed, process.up
  PROVE  Sink!SegmentName \notin DOMAIN segments
<1>1. process.instance \in Nat /\ process.seq \in Nat
  BY DEF SinkTyped
<1> SUFFICES ASSUME Sink!SegmentName \in DOMAIN segments PROVE FALSE
  OBVIOUS
<1>2. PICK i \in Nat, k \in Nat : /\ <<process.instance, process.seq>> = <<i, k>>
                                  /\ i < process.instance \/ (i = process.instance /\ k < process.seq)
  BY DEF NamesUsed, Sink!SegmentName
<1>3. i = process.instance /\ k = process.seq
  BY <1>2
<1> QED BY <1>1, <1>2, <1>3

(* What writing a segment under a new name leaves on disk.                 *)
LEMMA SegmentAdds ==
  ASSUME NEW records, Sink!WriteSegment(records), Sink!SegmentName \notin DOMAIN segments
  PROVE  /\ Sink!Traced \subseteq Sink!Traced' /\ failed \subseteq failed'
         /\ Held(records) \subseteq Sink!Traced' \cup failed'
         /\ Sink!SegmentsKept => Sink!SegmentsKept'
         /\ DOMAIN segments' \subseteq DOMAIN segments \cup {Sink!SegmentName}
         /\ records = <<>> => segments' = segments
<1>1. CASE records = <<>>
  <2>1. UNCHANGED <<segments, written, failed>>
    BY <1>1 DEF Sink!WriteSegment
  <2> QED BY <1>1, <2>1, HeldEmpty DEF Sink!Traced, Sink!SegmentsKept
<1>2. CASE records # <<>> /\ UNCHANGED <<segments, written>> /\ failed' = failed \cup Held(records)
  BY <1>2 DEF Sink!Traced, Sink!SegmentsKept
<1>3. CASE /\ records # <<>> /\ UNCHANGED failed /\ written' = written \cup Held(records)
           /\ segments' = [n \in DOMAIN segments \cup {Sink!SegmentName} |->
                             IF n = Sink!SegmentName THEN records ELSE segments[n]]
  <2> DEFINE name == Sink!SegmentName
  <2>1. /\ DOMAIN segments' = DOMAIN segments \cup {name} /\ segments'[name] = records
        /\ \A n \in DOMAIN segments : segments'[n] = segments[n]
    BY <1>3
  <2> HIDE DEF name
  <2>2. \A x : x \in Sink!Traced <=> \E n \in DOMAIN segments : x \in Held(segments[n])
    BY DEF Sink!Traced, Held
  <2>3. \A x : x \in Sink!Traced' <=> \E n \in DOMAIN segments' : x \in Held(segments'[n])
    BY DEF Sink!Traced, Held
  <2>4. Sink!Traced \subseteq Sink!Traced'
    BY <2>1, <2>2, <2>3
  <2>5. Held(records) \subseteq Sink!Traced'
    BY <2>1, <2>3
  <2>6. Sink!SegmentsKept => Sink!SegmentsKept'
    BY <1>3, <2>4, <2>5 DEF Sink!SegmentsKept
  <2> QED BY <1>3, <2>1, <2>4, <2>5, <2>6 DEF name
<1> QED BY <1>1, <1>2, <1>3 DEF Sink!WriteSegment, Held

(* Nothing but a write or a restart touches the names.                     *)
LEMMA NamesUnchanged ==
  ASSUME SegmentInv, SinkTyped', UNCHANGED <<process, segments, written>>
  PROVE  SegmentInv'
BY DEF SegmentInv, NamesUsed, Sink!SegmentsKept, Sink!Traced

LEMMA WriteBatchNames ==
  ASSUME SegmentInv, SinkTyped', NEW h \in Handlers, Sink!WriteBatch(h)
  PROVE  SegmentInv'
<1> DEFINE batch == task[h].batch
<1>1. /\ process.up /\ Sink!WriteSegment(batch)
      /\ process' = [process EXCEPT !.seq = Sink!NextSeq(batch)]
  BY DEF Sink!WriteBatch
<1>2. Sink!SegmentName \notin DOMAIN segments
  BY <1>1, NameIsNew DEF SegmentInv
<1> HIDE DEF batch
<1>3. /\ Sink!SegmentsKept' /\ DOMAIN segments' \subseteq DOMAIN segments \cup {Sink!SegmentName}
      /\ batch = <<>> => segments' = segments
  BY <1>1, <1>2, SegmentAdds DEF SegmentInv
<1>4. /\ process.instance \in Nat /\ process.seq \in Nat
      /\ process'.instance = process.instance /\ process'.up
      /\ process'.seq = IF batch = <<>> THEN process.seq ELSE process.seq + 1
  BY <1>1 DEF SegmentInv, SinkTyped, Sink!NextSeq
<1>5. ASSUME NEW n \in DOMAIN segments'
      PROVE  \E i \in Nat, k \in Nat : /\ n = <<i, k>>
                                       /\ i < process'.instance \/ (i = process'.instance /\ (process'.up => k < process'.seq))
  <2>1. CASE n \in DOMAIN segments
    <3>1. PICK i \in Nat, k \in Nat : /\ n = <<i, k>>
                                      /\ i < process.instance \/ (i = process.instance /\ k < process.seq)
      BY <1>1, <2>1 DEF SegmentInv, NamesUsed
    <3>2. k < process.seq => k < process'.seq
      BY <1>4
    <3> QED BY <1>4, <3>1, <3>2
  <2>2. CASE n \notin DOMAIN segments
    <3>1. batch # <<>> /\ n = <<process.instance, process.seq>>
      BY <1>3, <2>2 DEF Sink!SegmentName
    <3>2. process.seq < process'.seq
      BY <1>4, <3>1
    <3> QED BY <1>4, <3>1, <3>2
  <2> QED BY <2>1, <2>2
<1> QED BY <1>3, <1>5 DEF SegmentInv, NamesUsed

LEMMA DownNames ==
  ASSUME SegmentInv, SinkTyped', Sink!Shutdown \/ Sink!Crash
  PROVE  SegmentInv'
<1>1. /\ process.up /\ process' = [process EXCEPT !.up = FALSE]
  BY DEF Sink!Shutdown, Sink!Crash, Sink!Down
<1>2. /\ process.instance \in Nat /\ process.seq \in Nat
      /\ process'.instance = process.instance /\ ~process'.up
  BY <1>1 DEF SegmentInv, SinkTyped
<1>3. Sink!SegmentsKept' /\ DOMAIN segments' \subseteq DOMAIN segments \cup {Sink!SegmentName}
  <2>1. CASE Sink!Shutdown
    <3>1. Sink!WriteSegment(trace)
      BY <2>1 DEF Sink!Shutdown
    <3>2. Sink!SegmentName \notin DOMAIN segments
      BY <1>1, NameIsNew DEF SegmentInv
    <3> QED BY <3>1, <3>2, SegmentAdds DEF SegmentInv
  <2>2. CASE Sink!Crash
    BY <2>2 DEF Sink!Crash, SegmentInv, Sink!SegmentsKept, Sink!Traced
  <2> QED BY <2>1, <2>2
<1>4. ASSUME NEW n \in DOMAIN segments'
      PROVE  \E i \in Nat, k \in Nat : /\ n = <<i, k>>
                                       /\ i < process'.instance \/ (i = process'.instance /\ (process'.up => k < process'.seq))
  <2>1. CASE n \in DOMAIN segments
    <3>1. PICK i \in Nat, k \in Nat : /\ n = <<i, k>> /\ (i < process.instance \/ i = process.instance)
      BY <2>1 DEF SegmentInv, NamesUsed
    <3> QED BY <1>2, <3>1
  <2>2. CASE n \notin DOMAIN segments
    BY <1>2, <1>3, <2>2 DEF Sink!SegmentName
  <2> QED BY <2>1, <2>2
<1> QED BY <1>3, <1>4 DEF SegmentInv, NamesUsed

LEMMA StartNames ==
  ASSUME SegmentInv, SinkTyped', Sink!Start
  PROVE  SegmentInv'
<1>1. /\ UNCHANGED <<segments, written>>
      /\ process' = [up |-> TRUE, instance |-> process.instance + 1, seq |-> 0]
  BY DEF Sink!Start
<1>2. process.instance \in Nat /\ process'.instance = process.instance + 1
  BY <1>1 DEF SegmentInv, SinkTyped
<1>3. ASSUME NEW n \in DOMAIN segments
      PROVE  \E i \in Nat, k \in Nat : n = <<i, k>> /\ i < process'.instance
  <2>1. PICK i \in Nat, k \in Nat : /\ n = <<i, k>> /\ (i < process.instance \/ i = process.instance)
    BY DEF SegmentInv, NamesUsed
  <2>2. i < process'.instance
    BY <1>2, <2>1
  <2> QED BY <2>1, <2>2
<1> QED BY <1>1, <1>3 DEF SegmentInv, NamesUsed, Sink!SegmentsKept, Sink!Traced

LEMMA SegmentInvStep == SegmentInv /\ SinkTyped' /\ [Sink!Next]_Sink!vars => SegmentInv'
<1> SUFFICES ASSUME SegmentInv, SinkTyped', [Sink!Next]_Sink!vars PROVE SegmentInv'
  OBVIOUS
<1>1. CASE \E h \in Handlers : Sink!RecordTrace(h) \/ Sink!PushCloud(h) \/ Sink!TakeIfFull(h)
  BY <1>1, NamesUnchanged DEF Sink!RecordTrace, Sink!PushCloud, Sink!TakeIfFull
<1>2. CASE \E h \in Handlers : Sink!WriteBatch(h)
  BY <1>2, WriteBatchNames
<1>3. CASE Sink!FlushCloud
  BY <1>3, NamesUnchanged DEF Sink!FlushCloud
<1>4. CASE \E b \in posts : Sink!Deliver(b) \/ Sink!Lose(b)
  BY <1>4, NamesUnchanged DEF Sink!Deliver, Sink!Lose
<1>5. CASE Sink!Shutdown \/ Sink!Crash
  BY <1>5, DownNames
<1>6. CASE Sink!Start
  BY <1>6, StartNames
<1>7. CASE UNCHANGED Sink!vars
  BY <1>7, NamesUnchanged DEF Sink!vars
<1> QED BY <1>1, <1>2, <1>3, <1>4, <1>5, <1>6, <1>7 DEF Sink!Next

(* sink.rs, ParquetSink.instance: across any number of restarts, crashes   *)
(* and concurrent writers, no segment overwrites another.                  *)
LEMMA NoSegmentOverwritten == Sink!Spec => []Sink!SegmentsKept
<1>1. Sink!Init => SegmentInv
  BY SinkInvInit DEF Sink!Init, SinkInv, SegmentInv, NamesUsed, Sink!SegmentsKept
<1>2. Sink!Spec => [](SinkInv /\ SegmentInv)
  BY <1>1, SinkInvInit, SinkInvStep, SegmentInvStep, PTL DEF Sink!Spec, SinkInv
<1> QED BY <1>2, PTL DEF SegmentInv

-----------------------------------------------------------------------------
(* The whole trace: a settled call is on disk, reported as not written,    *)
(* lost in a crash, in the buffer, or in the batch of a handler that is    *)
(* writing.                                                                *)
InBatch(r) == \E h \in Handlers : r \in Held(task[h].batch)
OutOfMemory(r) == r \in Sink!Traced \cup failed \cup lost
Accounted(r) == OutOfMemory(r) \/ r \in Held(trace) \/ InBatch(r)

TraceInv ==
  /\ \A h \in Handlers : task[h].step # "write" => task[h].batch = <<>>
  /\ ~process.up => trace = <<>> /\ \A h \in Handlers : task[h].batch = <<>>
  /\ \A r \in 1 .. settled : Accounted(r)

LEMMA TraceInvEnough == TraceInv => Sink!TraceComplete
<1> SUFFICES ASSUME TraceInv, ~process.up, NEW r \in 1 .. settled PROVE r \in Sink!Traced \cup failed \cup lost
  BY DEF Sink!TraceComplete
<1>1. r \notin Held(trace) /\ ~InBatch(r)
  BY HeldEmpty DEF TraceInv, InBatch
<1> QED BY <1>1 DEF TraceInv, Accounted, OutOfMemory

LEMMA TraceInvInit == Sink!Init => TraceInv
BY DEF Sink!Init, Sink!Idle, TraceInv

LEMMA RecordTraces ==
  ASSUME SinkTyped, TraceInv, NEW h \in Handlers, Sink!RecordTrace(h)
  PROVE  TraceInv'
<1> DEFINE full == Append(trace, settled + 1)
<1>1. /\ settled \in Nat /\ settled' = settled + 1 /\ process.up /\ task[h].step = "idle"
      /\ UNCHANGED <<process, segments, failed, lost>>
      /\ trace' = IF Len(full) >= Threshold THEN <<>> ELSE full
      /\ task' = [task EXCEPT ![h] = [step |-> "write", rec |-> settled + 1,
                                      batch |-> IF Len(full) >= Threshold THEN full ELSE <<>>]]
  BY DEF Sink!RecordTrace, SinkTyped
<1>2. Held(full) = Held(trace) \cup {settled + 1}
  <2>1. trace \in Seq(Nat) /\ settled + 1 \in Nat
    BY <1>1 DEF SinkTyped
  <2> QED BY <2>1, HeldAppend
<1> HIDE DEF full
<1>3. /\ task'[h].step = "write" /\ task'[h].batch = IF Len(full) >= Threshold THEN full ELSE <<>>
      /\ \A g \in Handlers : g # h => task'[g] = task[g]
  BY <1>1 DEF SinkTyped
<1>4. task[h].batch = <<>>
  BY <1>1 DEF TraceInv
<1>5. \A r : r \in Held(full) => r \in Held(trace') \/ InBatch(r)'
  <2>1. CASE Len(full) >= Threshold
    <3>1. task'[h].batch = full
      BY <1>3, <2>1
    <3> QED BY <3>1 DEF InBatch, Held
  <2>2. CASE ~(Len(full) >= Threshold)
    <3>1. trace' = full
      BY <1>1, <2>2
    <3> QED BY <3>1
  <2> QED BY <2>1, <2>2
<1>6. \A r : InBatch(r) => InBatch(r)'
  BY <1>3, <1>4, HeldEmpty DEF InBatch, Held
<1>7. ASSUME NEW r \in 1 .. settled + 1 PROVE Accounted(r)'
  <2>1. CASE r = settled + 1
    BY <1>2, <1>5, <2>1 DEF Accounted, Held
  <2>2. CASE r # settled + 1
    <3>1. r \in 1 .. settled
      BY <1>1, <2>2
    <3> QED BY <1>1, <1>2, <1>5, <1>6, <3>1 DEF TraceInv, Accounted, OutOfMemory, Sink!Traced, Held
  <2> QED BY <2>1, <2>2
<1>8. \A g \in Handlers : task'[g].step # "write" => task'[g].batch = <<>>
  BY <1>3 DEF TraceInv
<1> QED BY <1>1, <1>7, <1>8 DEF TraceInv

LEMMA WriteBatchTraces ==
  ASSUME SinkTyped, NamesUsed, TraceInv, NEW h \in Handlers, Sink!WriteBatch(h)
  PROVE  TraceInv'
<1>1. /\ process.up /\ Sink!WriteSegment(task[h].batch) /\ UNCHANGED <<trace, settled, lost>>
      /\ process' = [process EXCEPT !.seq = Sink!NextSeq(task[h].batch)]
      /\ task' = [task EXCEPT ![h] = [step |-> "push", rec |-> task[h].rec, batch |-> <<>>]]
  BY DEF Sink!WriteBatch
<1>2. process'.up
  BY <1>1 DEF SinkTyped
<1>3. /\ task'[h].batch = <<>>
      /\ \A g \in Handlers : g # h => task'[g] = task[g]
  BY <1>1 DEF SinkTyped
<1>4. /\ Sink!Traced \subseteq Sink!Traced' /\ failed \subseteq failed'
      /\ Held(task[h].batch) \subseteq Sink!Traced' \cup failed'
  BY <1>1, NameIsNew, SegmentAdds
<1>5. ASSUME NEW r \in 1 .. settled PROVE Accounted(r)'
  <2>1. CASE OutOfMemory(r)
    BY <1>1, <1>4, <2>1 DEF Accounted, OutOfMemory
  <2>2. CASE r \in Held(trace)
    BY <1>1, <2>2 DEF Accounted, Held
  <2>3. CASE InBatch(r)
    <3>1. PICK g \in Handlers : r \in Held(task[g].batch)
      BY <2>3 DEF InBatch
    <3>2. CASE g = h
      BY <1>4, <3>1, <3>2 DEF Accounted, OutOfMemory
    <3>3. CASE g # h
      BY <1>3, <3>1, <3>3 DEF Accounted, InBatch, Held
    <3> QED BY <3>2, <3>3
  <2> QED BY <2>1, <2>2, <2>3 DEF TraceInv, Accounted
<1>6. \A g \in Handlers : task'[g].step # "write" => task'[g].batch = <<>>
  BY <1>3 DEF TraceInv
<1> QED BY <1>1, <1>2, <1>5, <1>6 DEF TraceInv

(* A step that touches neither the trace nor a batch.                      *)
LEMMA TraceUntouched ==
  ASSUME TraceInv, UNCHANGED <<trace, segments, failed, lost, settled>>,
         process'.up \/ process'.up = process.up,
         \A g \in Handlers : task'[g].batch = task[g].batch /\ (task[g].step # "write" => task'[g].step # "write"),
         \A g \in Handlers : task'[g].step # "write" => task'[g].batch = <<>>
  PROVE  TraceInv'
<1>1. \A r : Accounted(r) => Accounted(r)'
  BY DEF Accounted, OutOfMemory, InBatch, Sink!Traced, Held
<1> QED BY <1>1 DEF TraceInv

LEMMA ShutdownTraces ==
  ASSUME SinkTyped, NamesUsed, TraceInv, Sink!Shutdown
  PROVE  TraceInv'
<1>1. /\ process.up /\ Sink!WriteSegment(trace) /\ UNCHANGED <<settled, lost>> /\ trace' = <<>>
      /\ task' = [h \in Handlers |-> Sink!Idle] /\ \A h \in Handlers : task[h] = Sink!Idle
  BY DEF Sink!Shutdown, Sink!Down
<1>2. \A r : ~InBatch(r)
  BY <1>1, HeldEmpty DEF InBatch, Sink!Idle
<1>3. /\ Sink!Traced \subseteq Sink!Traced' /\ failed \subseteq failed'
      /\ Held(trace) \subseteq Sink!Traced' \cup failed'
  BY <1>1, NameIsNew, SegmentAdds
<1>4. \A h \in Handlers : task'[h].batch = <<>>
  BY <1>1 DEF Sink!Idle
<1>5. \A r \in 1 .. settled : Accounted(r)'
  BY <1>1, <1>2, <1>3 DEF TraceInv, Accounted, OutOfMemory
<1> QED BY <1>1, <1>4, <1>5 DEF TraceInv

(* What a crash takes from memory is lost.                                 *)
LEMMA CrashTraces ==
  ASSUME TraceInv, Sink!Crash
  PROVE  TraceInv'
<1>1. /\ UNCHANGED <<segments, failed, settled>> /\ trace' = <<>>
      /\ task' = [h \in Handlers |-> Sink!Idle]
      /\ lost' = lost \cup Held(trace) \cup UNION {Held(task[h].batch) : h \in Handlers}
  BY DEF Sink!Crash, Sink!Down, Held
<1>2. \A r : Accounted(r) => OutOfMemory(r)'
  BY <1>1 DEF Accounted, OutOfMemory, InBatch, Sink!Traced
<1>3. \A h \in Handlers : task'[h].batch = <<>>
  BY <1>1 DEF Sink!Idle
<1> QED BY <1>1, <1>2, <1>3 DEF TraceInv, Accounted

LEMMA TraceInvStep == SinkTyped /\ NamesUsed /\ TraceInv /\ [Sink!Next]_Sink!vars => TraceInv'
<1> SUFFICES ASSUME SinkTyped, NamesUsed, TraceInv, [Sink!Next]_Sink!vars PROVE TraceInv'
  OBVIOUS
<1>1. CASE \E h \in Handlers : Sink!RecordTrace(h)
  BY <1>1, RecordTraces
<1>2. CASE \E h \in Handlers : Sink!WriteBatch(h)
  BY <1>2, WriteBatchTraces
<1>3. CASE \E h \in Handlers : Sink!PushCloud(h)
  <2>1. PICK h \in Handlers : Sink!PushCloud(h)
    BY <1>3
  <2>2. task[h].step = "push" /\ task' = [task EXCEPT ![h].step = "take"]
        /\ UNCHANGED <<process, trace, segments, failed, lost, settled>>
    BY <2>1 DEF Sink!PushCloud
  <2>3. \A g \in Handlers : /\ task'[g].batch = task[g].batch
                            /\ task[g].step # "write" => task'[g].step # "write"
                            /\ task'[g].step # "write" => task[g].step # "write"
    BY <2>2 DEF SinkTyped
  <2>4. \A g \in Handlers : task'[g].step # "write" => task'[g].batch = <<>>
    BY <2>3 DEF TraceInv
  <2> QED BY <2>2, <2>3, <2>4, TraceUntouched
<1>4. CASE \E h \in Handlers : Sink!TakeIfFull(h)
  <2>1. PICK h \in Handlers : Sink!TakeIfFull(h)
    BY <1>4
  <2>2. task[h].step = "take" /\ task' = [task EXCEPT ![h] = Sink!Idle]
        /\ UNCHANGED <<process, trace, segments, failed, lost, settled>>
    BY <2>1 DEF Sink!TakeIfFull
  <2>3. task[h].batch = <<>>
    BY <2>2 DEF TraceInv
  <2>4. \A g \in Handlers : /\ task'[g].batch = task[g].batch
                            /\ task[g].step # "write" => task'[g].step # "write"
                            /\ task'[g].step # "write" => task[g].step # "write"
    BY <2>2, <2>3 DEF SinkTyped, Sink!Idle
  <2>5. \A g \in Handlers : task'[g].step # "write" => task'[g].batch = <<>>
    BY <2>4 DEF TraceInv
  <2> QED BY <2>2, <2>4, <2>5, TraceUntouched
<1>5. CASE Sink!FlushCloud \/ (\E b \in posts : Sink!Deliver(b) \/ Sink!Lose(b)) \/ UNCHANGED Sink!vars
  <2>1. UNCHANGED <<process, trace, segments, task, failed, lost, settled>>
    BY <1>5 DEF Sink!FlushCloud, Sink!Deliver, Sink!Lose, Sink!vars
  <2> QED BY <2>1, TraceUntouched DEF TraceInv
<1>6. CASE Sink!Shutdown
  BY <1>6, ShutdownTraces
<1>7. CASE Sink!Start
  <2>1. process'.up /\ UNCHANGED <<trace, segments, task, failed, lost, settled>>
    BY <1>7 DEF Sink!Start
  <2> QED BY <2>1, TraceUntouched DEF TraceInv
<1>8. CASE Sink!Crash
  BY <1>8, CrashTraces
<1> QED BY <1>1, <1>2, <1>3, <1>4, <1>5, <1>6, <1>7, <1>8 DEF Sink!Next

(* cloudsink.rs, sink.rs, main.rs: crashes and restarts included, the      *)
(* control plane counts no call twice, no segment is overwritten, and only *)
(* a crash or a failed write loses a record of the trace.                  *)
THEOREM TelemetryKeeps == Sink!Spec => []RecordsKept
<1>1. Sink!Init => SegmentInv
  BY SinkInvInit DEF Sink!Init, SinkInv, SegmentInv, NamesUsed, Sink!SegmentsKept
<1>2. SinkInv /\ SegmentInv /\ TraceInv /\ [Sink!Next]_Sink!vars => SinkInv' /\ SegmentInv' /\ TraceInv'
  BY SinkInvStep, SegmentInvStep, TraceInvStep DEF SinkInv, SegmentInv
<1>3. Sink!Spec => []Sink!TraceComplete
  BY <1>1, <1>2, SinkInvInit, TraceInvInit, TraceInvEnough, PTL DEF Sink!Spec
<1>4. Sink!CountedAtMostOnce /\ Sink!SegmentsKept /\ Sink!TraceComplete => RecordsKept
  BY DEF RecordsKept, Sink!RecordsKept
<1> QED BY <1>3, <1>4, PostedAtMostOnce, NoSegmentOverwritten, PTL

-----------------------------------------------------------------------------
(* Who may change the control plane (CloudAuth), with any number of keys,  *)
(* tokens, devices, codes and signed requests.                             *)
LEMMA AuthCardinality == \A S : Auth!Cardinality(S) = Cardinality(S)
BY Zenon DEF Auth!Cardinality, Cardinality

IsSeq(s) == \E S : s \in Seq(S)

LEMMA Appended ==
  ASSUME NEW s, IsSeq(s), NEW e
  PROVE  /\ IsSeq(Append(s, e))
         /\ \A i \in DOMAIN Append(s, e) : (i \in DOMAIN s /\ Append(s, e)[i] = s[i]) \/ Append(s, e)[i] = e
<1>1. PICK S : s \in Seq(S)
  BY DEF IsSeq
<1>2. s \in Seq(S \cup {e})
  BY <1>1
<1>3. Append(s, e) \in Seq(S \cup {e})
  BY <1>2
<1> QED BY <1>2, <1>3 DEF IsSeq

(* A code that can be redeemed was not; a device has the org of its code.  *)
Redeemable(code) ==
  /\ code \in DOMAIN codes /\ codes[code].org = pairings[code].org /\ codes[code].paired = {}
  /\ pairings[code].expires = codes[code].issued + PairTtl
PairedBy(d, org) == \E code \in DOMAIN codes : codes[code].org = org /\ \E p \in codes[code].paired : p.device = d

EntitledInv ==
  /\ IsSeq(trail)
  /\ \A code \in DOMAIN pairings : Redeemable(code)
  /\ \A d \in DOMAIN devices : PairedBy(d, devices[d].org)
  /\ \A code \in DOMAIN codes : codes[code].issued \in Nat
  /\ Auth!AuditActorsEntitled
  /\ Auth!PairedOnce

LEMMA EntitledInit == Auth!Init => EntitledInv
<1> SUFFICES ASSUME Auth!Init PROVE EntitledInv
  OBVIOUS
<1>1. trail = <<>> /\ pairings = <<>> /\ devices = <<>> /\ codes = <<>>
  BY DEF Auth!Init
<1>2. IsSeq(<<>>)
  <2>1. <<>> \in Seq(Nat)
    OBVIOUS
  <2> QED BY <2>1 DEF IsSeq
<1>3. DOMAIN trail = {} /\ DOMAIN pairings = {} /\ DOMAIN devices = {} /\ DOMAIN codes = {}
  BY <1>1
<1> QED BY <1>1, <1>2, <1>3 DEF EntitledInv, Auth!AuditActorsEntitled, Auth!PairedOnce

(* Who is entitled to an entry stays so: devices and codes are kept.       *)
Kept ==
  /\ \A d \in DOMAIN devices : d \in DOMAIN devices' /\ devices'[d].org = devices[d].org /\ devices'[d].role = devices[d].role
  /\ \A code \in DOMAIN codes : /\ code \in DOMAIN codes' /\ codes'[code].org = codes[code].org
                                /\ codes'[code].issued = codes[code].issued /\ codes[code].paired \subseteq codes'[code].paired

Entitled(e) ==
  \/ /\ e.kind = "key" /\ e.action = "control.kill"
     /\ e.actor \in DOMAIN Keys /\ Keys[e.actor].org = e.org /\ Keys[e.actor].role = "admin"
  \/ /\ e.kind = "oidc" /\ e.action = "control.kill"
     /\ \E t \in Tokens : /\ t.iss = Issuer /\ t.aud = Audience /\ t.signer \in DOMAIN Jwks
                          /\ t.org = e.org /\ AdminRole \in t.roles
                          /\ t.exp # Missing /\ t.exp + Leeway >= e.at
                          /\ e.actor \in {t.sub, t.org}
  \/ /\ e.kind = "device" /\ e.actor \in DOMAIN devices /\ devices[e.actor].org = e.org
     /\ e.action # "control.pair" => devices[e.actor].role = "admin"
     /\ PairedBy(e.actor, e.org)

LEMMA EntitledAll == Auth!AuditActorsEntitled <=> \A i \in DOMAIN trail : Entitled(trail[i])
BY DEF Auth!AuditActorsEntitled, Entitled, PairedBy

LEMMA PairedByKept == ASSUME Kept, NEW d, NEW org, PairedBy(d, org) PROVE PairedBy(d, org)'
BY DEF Kept, PairedBy

LEMMA EntitledKept == ASSUME Kept, NEW e, Entitled(e) PROVE Entitled(e)'
<1>1. CASE e.kind = "device" /\ e.actor \in DOMAIN devices /\ devices[e.actor].org = e.org
           /\ (e.action # "control.pair" => devices[e.actor].role = "admin") /\ PairedBy(e.actor, e.org)
  <2>1. PairedBy(e.actor, e.org)'
    BY <1>1, PairedByKept
  <2>2. e.actor \in DOMAIN devices' /\ devices'[e.actor].org = e.org /\ (e.action # "control.pair" => devices'[e.actor].role = "admin")
    BY <1>1 DEF Kept
  <2> QED BY <1>1, <2>1, <2>2 DEF Entitled
<1>2. CASE ~(e.kind = "device")
  BY <1>2 DEF Entitled
<1> QED BY <1>1, <1>2 DEF Entitled

(* A step that keeps devices and codes and adds at most one entry.         *)
LEMMA LogKeeps ==
  ASSUME EntitledInv, Kept, NEW e, trail' = trail \/ (trail' = Append(trail, e) /\ Entitled(e)')
  PROVE  IsSeq(trail)' /\ Auth!AuditActorsEntitled'
<1>1. IsSeq(trail)'
  <2>1. IsSeq(trail) /\ IsSeq(Append(trail, e))
    BY Appended DEF EntitledInv
  <2> QED BY <2>1 DEF IsSeq
<1>2. ASSUME NEW i \in DOMAIN trail' PROVE Entitled(trail[i])'
  <2>1. PICK x : x = trail'[i]
    OBVIOUS
  <2>2. (\E j \in DOMAIN trail : x = trail[j]) \/ (x = e /\ Entitled(e)')
    BY <1>2, <2>1, Appended DEF EntitledInv
  <2>3. CASE \E j \in DOMAIN trail : x = trail[j]
    <3>1. Entitled(x)
      BY <2>3, EntitledAll DEF EntitledInv
    <3>2. Entitled(x)'
      BY <3>1, EntitledKept
    <3> QED BY <2>1, <3>2 DEF Entitled, PairedBy
  <2>4. CASE x = e /\ Entitled(e)'
    BY <2>1, <2>4 DEF Entitled, PairedBy
  <2> QED BY <2>2, <2>3, <2>4
<1>3. Auth!AuditActorsEntitled'
  BY <1>2 DEF Auth!AuditActorsEntitled, Entitled, PairedBy
<1> QED BY <1>1, <1>3

(* A step that leaves the codes and their devices alone.                   *)
LEMMA QuietKeeps ==
  ASSUME EntitledInv, UNCHANGED codes, NEW e, trail' = trail \/ (trail' = Append(trail, e) /\ Entitled(e)),
         pairings' = pairings \/ pairings' = <<>>, DOMAIN devices' = DOMAIN devices,
         \A d \in DOMAIN devices : devices'[d].org = devices[d].org /\ devices'[d].role = devices[d].role
  PROVE  EntitledInv'
<1>1. Kept
  BY DEF Kept
<1>2. IsSeq(trail)' /\ Auth!AuditActorsEntitled'
  BY <1>1, LogKeeps, EntitledKept
<1>3. \A code \in DOMAIN pairings' : Redeemable(code)'
  <2>1. CASE pairings' = pairings
    BY <2>1 DEF EntitledInv, Redeemable
  <2>2. CASE pairings' = <<>>
    BY <2>2
  <2> QED BY <2>1, <2>2
<1>4. \A d \in DOMAIN devices' : PairedBy(d, devices[d].org)'
  BY DEF EntitledInv, PairedBy
<1>5. Auth!PairedOnce' /\ \A code \in DOMAIN codes' : codes'[code].issued \in Nat
  BY DEF EntitledInv, Auth!PairedOnce
<1> QED BY <1>2, <1>3, <1>4, <1>5 DEF EntitledInv

LEMMA PairNewKeeps ==
  ASSUME EntitledInv, now \in Nat, NEW key \in DOMAIN Keys, NEW code, NEW role, Auth!PairNew(key, code, role)
  PROVE  EntitledInv'
<1> DEFINE pairing == [org |-> Keys[key].org, role |-> role, expires |-> now + PairTtl]
           issue == [org |-> Keys[key].org, issued |-> now, paired |-> {}]
<1>1. /\ code \notin DOMAIN codes /\ UNCHANGED <<devices, trail>>
      /\ pairings' = Auth!Put(pairings, code, pairing)
      /\ codes' = Auth!Put(codes, code, issue)
  BY DEF Auth!PairNew
<1>0. /\ pairing.org = Keys[key].org /\ pairing.expires = now + PairTtl
      /\ issue.org = Keys[key].org /\ issue.issued = now /\ issue.paired = {}
  OBVIOUS
<1> HIDE DEF pairing, issue
<1>2. /\ DOMAIN codes' = DOMAIN codes \cup {code} /\ \A c \in DOMAIN codes : codes'[c] = codes[c]
      /\ codes'[code].org = Keys[key].org /\ codes'[code].issued = now /\ codes'[code].paired = {}
  BY <1>0, <1>1 DEF Auth!Put
<1>3. /\ DOMAIN pairings' = DOMAIN pairings \cup {code} /\ \A c \in DOMAIN pairings : c # code => pairings'[c] = pairings[c]
      /\ pairings'[code].org = Keys[key].org /\ pairings'[code].expires = now + PairTtl
  BY <1>0, <1>1 DEF Auth!Put
<1>4. Kept
  BY <1>1, <1>2 DEF Kept
<1>5. IsSeq(trail)' /\ Auth!AuditActorsEntitled'
  BY <1>1, <1>4, LogKeeps
<1>6. \A c \in DOMAIN pairings' : Redeemable(c)'
  BY <1>2, <1>3 DEF EntitledInv, Redeemable
<1>7. \A d \in DOMAIN devices' : PairedBy(d, devices[d].org)'
  <2> SUFFICES ASSUME NEW d \in DOMAIN devices PROVE PairedBy(d, devices[d].org)'
    BY <1>1
  <2>1. PICK o : o = devices[d].org
    OBVIOUS
  <2>2. PairedBy(d, o)'
    BY <1>4, <2>1, PairedByKept DEF EntitledInv
  <2> QED BY <1>1, <2>1, <2>2 DEF PairedBy
<1>8. Auth!PairedOnce' /\ \A c \in DOMAIN codes' : codes'[c].issued \in Nat
  BY <1>2 DEF EntitledInv, Auth!PairedOnce
<1> QED BY <1>5, <1>6, <1>7, <1>8 DEF EntitledInv

LEMMA PairKeeps ==
  ASSUME Auth!AuthConstants, EntitledInv, now \in Nat, NEW code, NEW d, Auth!Pair(code, d)
  PROVE  EntitledInv'
<1> DEFINE p == pairings[code]
           k == codes[code]
           e == Auth!Entry(p.org, "device", d, "control.pair")
           device == [org |-> p.org, role |-> p.role, apns |-> Missing]
           paired == [org |-> k.org, issued |-> k.issued, paired |-> k.paired \cup {[device |-> d, at |-> now]}]
<1>1. /\ code \in DOMAIN pairings /\ d \notin DOMAIN devices /\ pairings' = Auth!Redeemed(code)
      /\ \/ UNCHANGED <<devices, trail, codes>>
         \/ /\ ~(p.expires < now)
            /\ devices' = Auth!Put(devices, d, device)
            /\ codes' = Auth!Put(codes, code, paired)
            /\ trail' = Append(trail, e)
  BY DEF Auth!Pair, Auth!Log
<1>0. /\ device.org = p.org
      /\ paired.org = k.org /\ paired.issued = k.issued /\ paired.paired = k.paired \cup {[device |-> d, at |-> now]}
  OBVIOUS
<1> HIDE DEF device, paired
<1>2. DOMAIN pairings' = DOMAIN pairings \ {code} /\ \A c \in DOMAIN pairings' : pairings'[c] = pairings[c]
  BY <1>1 DEF Auth!Redeemed
<1>3. Redeemable(code)
  BY <1>1 DEF EntitledInv
<1>4. CASE UNCHANGED <<devices, trail, codes>>
  <2>1. Kept
    BY <1>4 DEF Kept
  <2>2. IsSeq(trail)' /\ Auth!AuditActorsEntitled'
    BY <1>4, <2>1, LogKeeps
  <2>3. \A c \in DOMAIN pairings' : Redeemable(c)'
    BY <1>2, <1>4 DEF EntitledInv, Redeemable
  <2>4. /\ \A b \in DOMAIN devices' : PairedBy(b, devices[b].org)'
        /\ Auth!PairedOnce' /\ \A c \in DOMAIN codes' : codes'[c].issued \in Nat
    BY <1>4 DEF EntitledInv, PairedBy, Auth!PairedOnce
  <2> QED BY <2>2, <2>3, <2>4 DEF EntitledInv
<1>5. CASE /\ ~(p.expires < now)
           /\ devices' = Auth!Put(devices, d, device)
           /\ codes' = Auth!Put(codes, code, paired)
           /\ trail' = Append(trail, e)
  <2>1. /\ DOMAIN devices' = DOMAIN devices \cup {d} /\ \A b \in DOMAIN devices : devices'[b] = devices[b]
        /\ devices'[d].org = p.org
    BY <1>0, <1>1, <1>5 DEF Auth!Put
  <2>2. /\ DOMAIN codes' = DOMAIN codes /\ \A c \in DOMAIN codes : c # code => codes'[c] = codes[c]
        /\ codes'[code].org = k.org /\ codes'[code].issued = k.issued
        /\ codes'[code].paired = k.paired \cup {[device |-> d, at |-> now]}
    BY <1>0, <1>3, <1>5 DEF Redeemable, Auth!Put
  <2>3. /\ k.paired = {} /\ k.org = p.org /\ p.expires = k.issued + PairTtl /\ code \in DOMAIN codes
    BY <1>3 DEF Redeemable
  <2>4. Kept
    BY <2>1, <2>2 DEF Kept
  <2>5. PICK pd : codes'[code].paired = {pd} /\ pd.device = d /\ pd.at = now
    <3> DEFINE pd == [device |-> d, at |-> now]
    <3>1. pd.device = d /\ pd.at = now
      OBVIOUS
    <3>2. codes'[code].paired = {pd}
      BY <2>2, <2>3
    <3> QED BY <3>1, <3>2
  <2>6. PICK org : org = p.org
    OBVIOUS
  <2>7. PairedBy(d, org)'
    BY <2>2, <2>3, <2>5, <2>6 DEF PairedBy
  <2>8. e.kind = "device" /\ e.actor = d /\ e.org = org /\ e.action = "control.pair"
    BY <2>6 DEF Auth!Entry
  <2>9. PICK x : x = e
    OBVIOUS
  <2>10. Entitled(x)'
    <3>1. x.kind = "device" /\ x.actor = d /\ x.org = org /\ x.action = "control.pair"
      BY <2>8, <2>9
    <3>2. PairedBy(x.actor, x.org)'
      BY <2>7, <3>1
    <3> QED BY <2>1, <2>6, <3>1, <3>2 DEF Entitled
  <2>11. IsSeq(trail)' /\ Auth!AuditActorsEntitled'
    <3>1. trail' = Append(trail, x)
      BY <1>5, <2>9
    <3> QED BY <2>4, <2>10, <3>1, LogKeeps
  <2>12. \A c \in DOMAIN pairings' : Redeemable(c)'
    BY <1>2, <2>2 DEF EntitledInv, Redeemable
  <2>13. \A b \in DOMAIN devices' : PairedBy(b, devices[b].org)'
    <3> SUFFICES ASSUME NEW b \in DOMAIN devices' PROVE PairedBy(b, devices[b].org)'
      OBVIOUS
    <3>1. CASE b = d
      BY <2>1, <2>6, <2>7, <3>1 DEF PairedBy
    <3>2. CASE b # d
      <4>1. PICK o : o = devices[b].org /\ b \in DOMAIN devices /\ devices'[b] = devices[b]
        BY <2>1, <3>2
      <4>2. PairedBy(b, o)
        BY <4>1 DEF EntitledInv
      <4>3. PairedBy(b, o)'
        BY <2>4, <4>2, PairedByKept
      <4> QED BY <4>1, <4>3 DEF PairedBy
    <3> QED BY <3>1, <3>2
  <2>14. now <= k.issued + PairTtl
    <3>1. ~(k.issued + PairTtl < now)
      BY <1>5, <2>3
    <3>2. k.issued \in Nat /\ PairTtl \in Nat
      BY <2>3 DEF EntitledInv, Auth!AuthConstants
    <3> QED BY <3>1, <3>2
  <2>15. Auth!PairedOnce' /\ \A c \in DOMAIN codes' : codes'[c].issued \in Nat
    BY <2>2, <2>3, <2>5, <2>14 DEF EntitledInv, Auth!PairedOnce
  <2> QED BY <2>11, <2>12, <2>13, <2>15 DEF EntitledInv
<1> QED BY <1>1, <1>4, <1>5

(* The ring of nonces.  A device signs at most NonceCap requests within    *)
(* two clock windows; a nonce is pushed out of its ring only when its      *)
(* request has become too old to be accepted.                              *)
Recent(W, d, from) == {q \in W : q.dev = d /\ q.ts >= from}

Numbered(W, t) ==
  /\ IsFiniteSet(W)
  /\ \A q \in W : q.dev \in Devices /\ q.ts \in Nat /\ q.ts <= t /\ q.nonce \in Nat /\ q.nonce < Cardinality(W)
  /\ \A q, r \in W : q.nonce = r.nonce => q = r

InRing(s, n) == \E i \in 1 .. Len(s) : s[i] = n

GoodRing(s, d, W) ==
  /\ s \in Seq(Nat) /\ Len(s) <= NonceCap
  /\ \A i \in 1 .. Len(s) : \E q \in W : q.dev = d /\ q.nonce = s[i]
  /\ \A i, j \in 1 .. Len(s) : s[i] = s[j] => i = j
  /\ \A i, j \in 1 .. Len(s) : \A q, r \in W :
       i <= j /\ q.nonce = s[i] /\ r.nonce = s[j] => r.ts >= q.ts - MaxSkew

Pushed(s, n) == LET seen == Append(s, n) IN IF Len(seen) > NonceCap THEN Tail(seen) ELSE seen

(* More distinct nonces of one device than NonceCap are not all recent.    *)
LEMMA TooManyRecent ==
  ASSUME NonceCap \in Nat \ {0}, NEW R, IsFiniteSet(R), Cardinality(R) <= NonceCap, NEW s \in Seq(Nat), Len(s) = NonceCap + 1,
         \A i, j \in 1 .. Len(s) : s[i] = s[j] => i = j, \A i \in 1 .. Len(s) : \E q \in R : q.nonce = s[i]
  PROVE  FALSE
<1> DEFINE f == [i \in 1 .. Len(s) |-> CHOOSE q \in R : q.nonce = s[i]]
<1>2. \A i \in 1 .. Len(s) : f[i] \in R /\ f[i].nonce = s[i]
  OBVIOUS
<1>3. f \in Injection(1 .. Len(s), R)
  <2>1. f \in [1 .. Len(s) -> R]
    BY <1>2
  <2>2. \A i, j \in 1 .. Len(s) : f[i] = f[j] => i = j
    BY <1>2
  <2> QED BY <2>1, <2>2 DEF Injection, IsInjective
<1>5. Cardinality(1 .. Len(s)) <= Cardinality(R)
  BY <1>3, FS_Injection
<1>6. Cardinality(1 .. Len(s)) = NonceCap + 1
  BY FS_Interval
<1>7. Cardinality(R) \in Nat
  BY FS_CardinalityType
<1> QED BY <1>5, <1>6, <1>7

LEMMA RingPushed ==
  ASSUME NonceCap \in Nat \ {0}, MaxSkew \in Nat, NEW W, NEW t \in Nat, Numbered(W, t), NEW d, NEW s, GoodRing(s, d, W),
         Cardinality(Recent(W, d, t - 2 * MaxSkew)) <= NonceCap,
         NEW q \in W, q.dev = d, t - q.ts <= MaxSkew, ~InRing(s, q.nonce)
  PROVE  /\ GoodRing(Pushed(s, q.nonce), d, W) /\ InRing(Pushed(s, q.nonce), q.nonce)
         /\ \A r \in W : InRing(s, r.nonce) => t > r.ts + MaxSkew \/ InRing(Pushed(s, q.nonce), r.nonce)
<1> DEFINE n == q.nonce
           seen == Append(s, n)
<1>1. s \in Seq(Nat) /\ n \in Nat /\ Len(s) \in Nat /\ Len(s) <= NonceCap
  BY DEF GoodRing, Numbered
<1>2. seen \in Seq(Nat) /\ Len(seen) = Len(s) + 1 /\ seen[Len(seen)] = n /\ \A i \in 1 .. Len(s) : seen[i] = s[i]
  BY <1>1
<1>3. \A i \in 1 .. Len(seen) : \E x \in W : x.dev = d /\ x.nonce = seen[i]
  BY <1>1, <1>2 DEF GoodRing
<1>4. ASSUME NEW i \in 1 .. Len(seen), NEW j \in 1 .. Len(seen), seen[i] = seen[j] PROVE i = j
  <2>1. \A k \in 1 .. Len(seen) : k \in 1 .. Len(s) \/ k = Len(seen)
    BY <1>1, <1>2
  <2>2. \A k \in 1 .. Len(s) : seen[k] # n
    BY <1>2 DEF InRing
  <2>3. CASE i \in 1 .. Len(s) /\ j \in 1 .. Len(s)
    <3>1. s[i] = s[j]
      BY <1>2, <1>4, <2>3
    <3> QED BY <2>3, <3>1 DEF GoodRing
  <2> QED BY <1>2, <1>4, <2>1, <2>2, <2>3
<1>5. ASSUME NEW i \in 1 .. Len(seen), NEW j \in 1 .. Len(seen), NEW x \in W, NEW y \in W,
             i <= j, x.nonce = seen[i], y.nonce = seen[j]
      PROVE  y.ts >= x.ts - MaxSkew
  <2>1. x.ts \in Nat /\ y.ts \in Nat /\ x.ts <= t /\ q.ts \in Nat
    BY DEF Numbered
  <2>2. CASE j = Len(seen)
    <3>1. y = q
      BY <1>2, <1>5, <2>2 DEF Numbered
    <3> QED BY <2>1, <3>1
  <2>3. CASE j # Len(seen)
    <3>1. i \in 1 .. Len(s) /\ j \in 1 .. Len(s)
      BY <1>1, <1>2, <1>5, <2>3
    <3> QED BY <1>2, <1>5, <3>1 DEF GoodRing
  <2> QED BY <2>2, <2>3
<1> HIDE DEF seen
<1>6. CASE Len(seen) <= NonceCap
  <2>1. Pushed(s, n) = seen
    BY <1>1, <1>2, <1>6 DEF Pushed, seen
  <2>2. GoodRing(seen, d, W)
    BY <1>2, <1>3, <1>4, <1>5, <1>6 DEF GoodRing
  <2>3. InRing(seen, n) /\ \A r \in W : InRing(s, r.nonce) => InRing(seen, r.nonce)
    BY <1>1, <1>2 DEF InRing
  <2> QED BY <2>1, <2>2, <2>3
<1>7. CASE Len(seen) > NonceCap
  <2> DEFINE new == Tail(seen)
  <2>1. Pushed(s, n) = new
    BY <1>7 DEF Pushed, seen
  <2>2. Len(seen) = NonceCap + 1 /\ Len(s) = NonceCap
    BY <1>1, <1>2, <1>7
  <2>3. new \in Seq(Nat) /\ Len(new) = NonceCap /\ \A i \in 1 .. NonceCap : new[i] = seen[i + 1]
    BY <1>2, <2>2
  <2> HIDE DEF new
  <2>4. GoodRing(new, d, W)
    <3>1. \A i \in 1 .. NonceCap : i + 1 \in 1 .. Len(seen)
      BY <2>2
    <3>2. \A i \in 1 .. Len(new) : \E x \in W : x.dev = d /\ x.nonce = new[i]
      BY <1>3, <2>3, <3>1
    <3>3. \A i, j \in 1 .. Len(new) : new[i] = new[j] => i = j
      <4> SUFFICES ASSUME NEW i \in 1 .. NonceCap, NEW j \in 1 .. NonceCap, new[i] = new[j] PROVE i = j
        BY <2>3
      <4>1. i + 1 = j + 1
        BY <1>4, <2>3, <3>1
      <4> QED BY <4>1
    <3>4. ASSUME NEW i \in 1 .. Len(new), NEW j \in 1 .. Len(new), NEW x \in W, NEW y \in W,
                 i <= j, x.nonce = new[i], y.nonce = new[j]
          PROVE  y.ts >= x.ts - MaxSkew
      <4>1. i + 1 \in 1 .. Len(seen) /\ j + 1 \in 1 .. Len(seen) /\ i + 1 <= j + 1 /\ new[i] = seen[i + 1] /\ new[j] = seen[j + 1]
        <5>1. i \in 1 .. NonceCap /\ j \in 1 .. NonceCap
          BY <2>3
        <5>2. new[i] = seen[i + 1] /\ new[j] = seen[j + 1] /\ i + 1 \in 1 .. Len(seen) /\ j + 1 \in 1 .. Len(seen)
          BY <2>3, <3>1, <5>1
        <5>3. i + 1 <= j + 1
          BY <3>4, <5>1
        <5> QED BY <5>2, <5>3
      <4> QED BY <1>5, <3>4, <4>1
    <3> QED BY <2>3, <3>2, <3>3, <3>4 DEF GoodRing
  <2>5. InRing(new, n)
    BY <1>2, <2>2, <2>3 DEF InRing
  <2>6. ASSUME NEW r \in W, InRing(s, r.nonce), ~InRing(new, r.nonce), ~(t > r.ts + MaxSkew) PROVE FALSE
    <3>1. PICK i \in 1 .. Len(s) : s[i] = r.nonce
      BY <2>6 DEF InRing
    <3>2. i = 1
      <4>1. CASE i > 1
        <5>1. i - 1 \in 1 .. NonceCap /\ new[i - 1] = seen[(i - 1) + 1] /\ (i - 1) + 1 = i
          BY <2>2, <2>3, <4>1
        <5> QED BY <1>2, <2>3, <2>6, <3>1, <5>1 DEF InRing
      <4> QED BY <4>1
    <3>3. r.nonce = seen[1] /\ 1 \in 1 .. Len(seen)
      BY <1>2, <2>2, <3>1, <3>2
    <3>4. r.ts \in Nat /\ r.ts >= t - MaxSkew
      BY <2>6 DEF Numbered
    <3>5. \A j \in 1 .. Len(seen) : \E x \in W : x.dev = d /\ x.nonce = seen[j] /\ x.ts >= t - 2 * MaxSkew
      <4> SUFFICES ASSUME NEW j \in 1 .. Len(seen) PROVE \E x \in W : x.dev = d /\ x.nonce = seen[j] /\ x.ts >= t - 2 * MaxSkew
        OBVIOUS
      <4>1. PICK x \in W : x.dev = d /\ x.nonce = seen[j]
        BY <1>3
      <4>2. x.ts >= r.ts - MaxSkew /\ x.ts \in Nat
        BY <1>5, <3>3, <4>1 DEF Numbered
      <4>3. x.ts >= t - 2 * MaxSkew
        BY <3>4, <4>2
      <4> QED BY <4>1, <4>3
    <3>6. PICK R : R = Recent(W, d, t - 2 * MaxSkew)
      OBVIOUS
    <3>7. Cardinality(R) <= NonceCap /\ IsFiniteSet(R) /\ \A j \in 1 .. Len(seen) : \E x \in R : x.nonce = seen[j]
      BY <3>5, <3>6, FS_Subset DEF Recent, Numbered
    <3>8. \A a, b \in 1 .. Len(seen) : seen[a] = seen[b] => a = b
      BY <1>4
    <3>9. seen \in Seq(Nat) /\ Len(seen) = NonceCap + 1
      BY <1>2, <2>2
    <3> QED BY <3>7, <3>8, <3>9, TooManyRecent
  <2> QED BY <2>1, <2>4, <2>5, <2>6
<1> QED BY <1>1, <1>2, <1>6, <1>7

Ring(d) == Auth!Get(nonces, d, <<>>)

NonceInv ==
  /\ now \in Nat /\ Numbered(wire, now)
  /\ \A d \in Devices : Cardinality(Recent(wire, d, now - 2 * MaxSkew)) <= NonceCap
  /\ \A d \in Devices : GoodRing(Ring(d), d, wire)
  /\ \A q \in DOMAIN executed : /\ q \in wire /\ executed[q] = 1
                                /\ now > q.ts + MaxSkew \/ InRing(Ring(q.dev), q.nonce)

LEMMA EmptyRing == ASSUME NonceCap \in Nat, NEW d, NEW W PROVE GoodRing(<<>>, d, W)
<1>1. <<>> \in Seq(Nat) /\ Len(<<>>) = 0
  OBVIOUS
<1> QED BY <1>1 DEF GoodRing

LEMMA NonceInit == Auth!AuthConstants /\ Auth!Init => NonceInv
<1> SUFFICES ASSUME Auth!AuthConstants, Auth!Init PROVE NonceInv
  OBVIOUS
<1>1. wire = {} /\ nonces = <<>> /\ executed = <<>> /\ now = 1 /\ NonceCap \in Nat /\ MaxSkew \in Nat
  BY DEF Auth!Init, Auth!AuthConstants
<1>2. Numbered({}, now)
  BY FS_EmptySet DEF Numbered
<1>3. \A d \in Devices : Recent({}, d, now - 2 * MaxSkew) = {}
  BY DEF Recent
<1>4. \A d \in Devices : Cardinality(Recent({}, d, now - 2 * MaxSkew)) <= NonceCap
  <2>1. Cardinality({}) <= NonceCap
    BY <1>1, FS_EmptySet
  <2> QED BY <1>3, <2>1
<1>5. \A d \in Devices : Ring(d) = <<>>
  BY <1>1 DEF Ring, Auth!Get
<1>6. DOMAIN executed = {}
  BY <1>1
<1> QED BY <1>1, <1>2, <1>4, <1>5, <1>6, EmptyRing DEF NonceInv

(* A signed request is accepted: its nonce is recorded, and it may take    *)
(* effect, which it has not before.                                        *)
LEMMA AcceptKeeps ==
  ASSUME Auth!AuthConstants, NonceInv, NEW q \in wire, Auth!SignatureValid(q), Auth!NonceUnseen(q), nonces' = Auth!Recorded(q),
         wire' = wire, now' = now, executed' = executed \/ Auth!Effect(q)
  PROVE  NonceInv'
<1> DEFINE d == q.dev
<1> DEFINE n == q.nonce
<1> DEFINE s == Ring(d)
<1>1. NonceCap \in Nat \ {0} /\ MaxSkew \in Nat /\ now \in Nat /\ Numbered(wire, now) /\ d \in Devices /\ q.ts \in Nat
  BY DEF Auth!AuthConstants, NonceInv, Numbered
<1>2. now - q.ts <= MaxSkew
  BY DEF Auth!SignatureValid
<1>3. ~InRing(Ring(d), n)
  <2>1. GoodRing(Ring(d), d, wire)
    BY <1>1 DEF NonceInv
  <2>2. DOMAIN Ring(d) = 1 .. Len(Ring(d))
    BY <2>1 DEF GoodRing
  <2>3. \A i \in DOMAIN Ring(d) : Ring(d)[i] # n
    BY DEF Auth!NonceUnseen, Ring, Auth!Get
  <2> QED BY <2>2, <2>3 DEF InRing
<1>4. /\ nonces'[d] = Pushed(Ring(d), n) /\ DOMAIN nonces' = DOMAIN nonces \cup {d}
      /\ \A x \in DOMAIN nonces : x # d => nonces'[x] = nonces[x]
  BY DEF Auth!Recorded, Auth!Put, Pushed, Ring
<1>5. Ring(d)' = Pushed(Ring(d), n) /\ \A x : x # d => Auth!Get(nonces', x, <<>>) = Ring(x)
  BY <1>4 DEF Ring, Auth!Get
<1>7. GoodRing(s, d, wire) /\ Cardinality(Recent(wire, d, now - 2 * MaxSkew)) <= NonceCap /\ ~InRing(s, n)
  BY <1>1, <1>3 DEF NonceInv
<1>8. /\ GoodRing(Pushed(s, n), d, wire) /\ InRing(Pushed(s, n), n)
      /\ \A r \in wire : InRing(s, r.nonce) => now > r.ts + MaxSkew \/ InRing(Pushed(s, n), r.nonce)
  BY <1>1, <1>2, <1>7, RingPushed
<1>9. \A x \in Devices : GoodRing(Auth!Get(nonces', x, <<>>), x, wire)
  <2> SUFFICES ASSUME NEW x \in Devices PROVE GoodRing(Auth!Get(nonces', x, <<>>), x, wire)
    OBVIOUS
  <2>1. CASE x = d
    BY <1>5, <1>8, <2>1 DEF Ring
  <2>2. CASE x # d
    BY <1>5, <2>2 DEF NonceInv
  <2> QED BY <2>1, <2>2
<1>10. q \notin DOMAIN executed
  <2>1. ~(now > q.ts + MaxSkew)
    BY <1>1, <1>2
  <2> QED BY <1>3, <2>1 DEF NonceInv
<1>11. \A r \in DOMAIN executed' : r \in wire /\ executed'[r] = 1 /\ (r = q \/ r \in DOMAIN executed)
  BY <1>10 DEF Auth!Effect, Auth!Put, Auth!Get, NonceInv
<1>12. ASSUME NEW r \in DOMAIN executed' PROVE now > r.ts + MaxSkew \/ InRing(Auth!Get(nonces', r.dev, <<>>), r.nonce)
  <2>1. CASE r = q
    BY <1>5, <1>8, <2>1 DEF Ring
  <2>2. CASE r # q
    <3>1. r \in DOMAIN executed /\ r \in wire
      BY <1>11, <1>12, <2>2
    <3>2. now > r.ts + MaxSkew \/ InRing(Ring(r.dev), r.nonce)
      BY <3>1 DEF NonceInv
    <3>3. CASE r.dev = d
      BY <1>5, <1>8, <3>1, <3>2, <3>3 DEF Ring
    <3>4. CASE r.dev # d
      BY <1>5, <3>2, <3>4
    <3> QED BY <3>3, <3>4
  <2> QED BY <2>1, <2>2
<1>13. now' \in Nat /\ Numbered(wire', now') /\ \A x \in Devices : Cardinality(Recent(wire', x, now' - 2 * MaxSkew)) <= NonceCap
  BY DEF NonceInv
<1>14. \A x \in Devices : GoodRing(Ring(x)', x, wire')
  BY <1>9 DEF Ring
<1>15. \A r \in DOMAIN executed' : /\ r \in wire' /\ executed'[r] = 1
                                   /\ now' > r.ts + MaxSkew \/ InRing(Ring(r.dev)', r.nonce)
  BY <1>11, <1>12 DEF Ring
<1>16. (now \in Nat /\ Numbered(wire, now) /\ \A x \in Devices : Cardinality(Recent(wire, x, now - 2 * MaxSkew)) <= NonceCap)'
  BY <1>13
<1>17. (\A x \in Devices : GoodRing(Ring(x), x, wire))'
  BY <1>14
<1>18. (\A r \in DOMAIN executed : /\ r \in wire /\ executed[r] = 1
                                   /\ now > r.ts + MaxSkew \/ InRing(Ring(r.dev), r.nonce))'
  BY <1>15
<1>19. NonceInv'
  BY <1>16, <1>17, <1>18 DEF NonceInv
<1> QED BY <1>19

LEMMA SignKeeps ==
  ASSUME Auth!AuthConstants, NonceInv, NEW d \in Devices, NEW header, NEW op, Auth!Sign(d, header, op)
  PROVE  NonceInv'
<1> DEFINE n == Cardinality(wire)
           new == [dev |-> d, header |-> header, op |-> op, ts |-> now, nonce |-> n]
           from == now - 2 * MaxSkew
<1>1. /\ Cardinality(Recent(wire, d, from)) < NonceCap /\ UNCHANGED <<nonces, executed, now>>
      /\ wire' = wire \cup {new}
  BY AuthCardinality DEF Auth!Sign, Recent
<1>2. new.dev = d /\ new.ts = now /\ new.nonce = n
  OBVIOUS
<1>3. NonceCap \in Nat /\ MaxSkew \in Nat /\ now \in Nat /\ Numbered(wire, now)
  BY DEF Auth!AuthConstants, NonceInv
<1>4. n \in Nat /\ \A q \in wire : q.nonce # n /\ q.nonce \in Nat /\ q.nonce < n /\ q.ts \in Nat
  BY <1>3, FS_CardinalityType DEF Numbered
<1> HIDE DEF n, new
<1>5. new \notin wire
  BY <1>2, <1>4
<1>6. IsFiniteSet(wire') /\ Cardinality(wire') = n + 1
  BY <1>1, <1>3, <1>5, FS_AddElement DEF n, Numbered
<1>7. Numbered(wire', now)
  <2>1. \A q \in wire' : q.dev \in Devices /\ q.ts \in Nat /\ q.ts <= now /\ q.nonce \in Nat /\ q.nonce < Cardinality(wire')
    <3>1. \A q \in wire : q.dev \in Devices /\ q.ts <= now /\ q.nonce < n + 1
      BY <1>3, <1>4 DEF Numbered
    <3>2. n < n + 1
      BY <1>4
    <3> QED BY <1>1, <1>2, <1>3, <1>4, <1>6, <3>1, <3>2
  <2>2. \A q, r \in wire' : q.nonce = r.nonce => q = r
    BY <1>1, <1>2, <1>3, <1>4 DEF Numbered
  <2> QED BY <1>6, <2>1, <2>2 DEF Numbered
<1>8. ASSUME NEW x \in Devices PROVE Cardinality(Recent(wire', x, from)) <= NonceCap
  <2>1. CASE x # d
    <3>1. Recent(wire', x, from) = Recent(wire, x, from)
      BY <1>1, <1>2, <2>1 DEF Recent
    <3> QED BY <3>1 DEF NonceInv
  <2>2. CASE x = d
    <3>1. IsFiniteSet(Recent(wire, d, from)) /\ Recent(wire', d, from) = Recent(wire, d, from) \cup {new}
      <4>1. new.ts >= from
        BY <1>2, <1>3
      <4>2. IsFiniteSet(Recent(wire, d, from))
        BY <1>3, FS_Subset DEF Recent, Numbered
      <4> HIDE DEF from
      <4> QED BY <1>1, <1>2, <4>1, <4>2 DEF Recent
    <3>2. PICK R : R = Recent(wire, d, from)
      OBVIOUS
    <3>3. IsFiniteSet(R) /\ Recent(wire', d, from) = R \cup {new} /\ Cardinality(R) < NonceCap
      BY <1>1, <3>1, <3>2
    <3>4. Cardinality(R) \in Nat /\ Cardinality(R \cup {new}) = IF new \in R THEN Cardinality(R) ELSE Cardinality(R) + 1
      BY <3>3, FS_AddElement, FS_CardinalityType
    <3>5. Cardinality(R \cup {new}) <= NonceCap
      BY <1>3, <3>3, <3>4
    <3> QED BY <2>2, <3>3, <3>5
  <2> QED BY <2>1, <2>2
<1>9. ASSUME NEW x \in Devices, NEW s, GoodRing(s, x, wire) PROVE GoodRing(s, x, wire')
  <2>1. \A i \in 1 .. Len(s) : s[i] # n
    BY <1>4, <1>9 DEF GoodRing
  <2>2. \A i \in 1 .. Len(s) : \A q \in wire' : q.nonce = s[i] => q \in wire
    BY <1>1, <1>2, <2>1
  <2> QED BY <1>1, <1>9, <2>2 DEF GoodRing
<1>10. \A x \in Devices : GoodRing(Ring(x), x, wire')
  BY <1>9 DEF NonceInv
<1>11. \A q \in DOMAIN executed : q \in wire'
  BY <1>1 DEF NonceInv
<1> QED BY <1>1, <1>7, <1>8, <1>10, <1>11 DEF NonceInv, Ring

LEMMA TickKeeps == ASSUME Auth!AuthConstants, NonceInv, Auth!Tick PROVE NonceInv'
<1>1. now \in Nat /\ now' = now + 1 /\ UNCHANGED <<nonces, wire, executed>> /\ NonceCap \in Nat /\ MaxSkew \in Nat /\ Numbered(wire, now)
  BY DEF Auth!Tick, NonceInv, Auth!AuthConstants
<1>2. Numbered(wire, now')
  BY <1>1 DEF Numbered
<1>3. ASSUME NEW d \in Devices PROVE Cardinality(Recent(wire, d, now' - 2 * MaxSkew)) <= NonceCap
  <2>1. PICK R, Q : R = Recent(wire, d, now' - 2 * MaxSkew) /\ Q = Recent(wire, d, now - 2 * MaxSkew)
    OBVIOUS
  <2>2. R \subseteq Q /\ Q \subseteq wire /\ IsFiniteSet(wire)
    BY <1>1, <2>1 DEF Recent, Numbered
  <2>3. Cardinality(Q) <= NonceCap
    BY <2>1 DEF NonceInv
  <2>4. IsFiniteSet(Q)
    BY <2>2, FS_Subset
  <2>5. IsFiniteSet(R) /\ Cardinality(R) <= Cardinality(Q)
    BY <2>2, <2>4, FS_Subset
  <2>6. Cardinality(R) \in Nat /\ Cardinality(Q) \in Nat
    BY <2>4, <2>5, FS_CardinalityType
  <2>7. Cardinality(R) <= NonceCap
    BY <1>1, <2>3, <2>5, <2>6
  <2> QED BY <2>1, <2>7
<1>4. \A q \in DOMAIN executed : now > q.ts + MaxSkew => now' > q.ts + MaxSkew
  BY <1>1 DEF NonceInv, Numbered
<1> QED BY <1>1, <1>2, <1>3, <1>4 DEF NonceInv, Ring

LEMMA RestartKeeps == ASSUME Auth!AuthConstants, NonceInv, Auth!Restart PROVE NonceInv'
<1>1. nonces' = <<>> /\ executed' = <<>> /\ UNCHANGED <<wire, now>> /\ NonceCap \in Nat
  BY DEF Auth!Restart, Auth!AuthConstants
<1>2. \A d : Auth!Get(nonces', d, <<>>) = <<>>
  BY <1>1 DEF Auth!Get
<1>3. \A d \in Devices : GoodRing(Auth!Get(nonces', d, <<>>), d, wire)
  BY <1>1, <1>2, EmptyRing
<1>4. DOMAIN executed' = {}
  BY <1>1
<1> QED BY <1>1, <1>3, <1>4 DEF NonceInv, Ring

LEMMA NonceUntouched == ASSUME NonceInv, UNCHANGED <<nonces, wire, executed, now>> PROVE NonceInv'
BY DEF NonceInv, Ring

LEMMA NonceStep == Auth!AuthConstants /\ NonceInv /\ [Auth!Next]_Auth!vars => NonceInv'
<1> SUFFICES ASSUME Auth!AuthConstants, NonceInv, [Auth!Next]_Auth!vars PROVE NonceInv'
  OBVIOUS
<1>1. CASE UNCHANGED <<nonces, wire, executed, now>>
  BY <1>1, NonceUntouched
<1>2. CASE UNCHANGED Auth!vars
  BY <1>1, <1>2 DEF Auth!vars
<1>3. CASE \E key \in DOMAIN Keys, code \in Codes, role \in {"admin", "viewer"} : Auth!PairNew(key, code, role)
  BY <1>1, <1>3 DEF Auth!PairNew
<1>4. CASE \E code \in Codes, d \in Devices : Auth!Pair(code, d)
  BY <1>1, <1>4 DEF Auth!Pair
<1>5. CASE \E d, h \in Devices, op \in {"kill"} \cup Devices : Auth!Sign(d, h, op)
  BY <1>5, SignKeeps
<1>6. CASE \E q \in wire : Auth!Deliver(q)
  <2>1. PICK q \in wire : Auth!Deliver(q)
    BY <1>6
  <2>2. /\ Auth!SignatureValid(q) /\ Auth!NonceUnseen(q) /\ nonces' = Auth!Recorded(q)
        /\ wire' = wire /\ now' = now /\ (executed' = executed \/ Auth!Effect(q))
    BY <2>1 DEF Auth!Deliver, Auth!DeviceMutate, Auth!RegisterApns
  <2> QED BY <2>2, AcceptKeeps
<1>7. CASE \E key \in DOMAIN Keys : Auth!KeyMutate(key)
  BY <1>1, <1>7 DEF Auth!KeyMutate
<1>8. CASE \E t \in Tokens : Auth!OidcMutate(t)
  BY <1>1, <1>8 DEF Auth!OidcMutate
<1>9. CASE Auth!Restart
  BY <1>9, RestartKeeps
<1>10. CASE Auth!Tick
  BY <1>10, TickKeeps
<1> QED BY <1>2, <1>3, <1>4, <1>5, <1>6, <1>7, <1>8, <1>9, <1>10 DEF Auth!Next

(* A mutation by a device: it is an admin's, paired by an admin of its org.*)
LEMMA DeviceKeeps == ASSUME EntitledInv, NEW q, Auth!DeviceMutate(q) PROVE EntitledInv'
<1>1. q.dev \in DOMAIN devices /\ UNCHANGED <<pairings, devices, codes>>
  BY DEF Auth!DeviceMutate, Auth!SignatureValid
<1>2. PICK e : e = Auth!Entry(devices[q.dev].org, "device", q.dev, "control.kill")
  OBVIOUS
<1>3. e.kind = "device" /\ e.actor = q.dev /\ e.org = devices[q.dev].org /\ e.action = "control.kill"
  BY <1>2 DEF Auth!Entry
<1>4. trail' = trail \/ (trail' = Append(trail, e) /\ devices[q.dev].role = "admin")
  BY <1>2 DEF Auth!DeviceMutate, Auth!Log
<1>5. PairedBy(e.actor, e.org)
  BY <1>1, <1>3 DEF EntitledInv, PairedBy
<1>6. trail' = trail \/ (trail' = Append(trail, e) /\ Entitled(e))
  BY <1>1, <1>3, <1>4, <1>5 DEF Entitled
<1> QED BY <1>1, <1>6, QuietKeeps

LEMMA ApnsKeeps == ASSUME EntitledInv, NEW q, Auth!RegisterApns(q) PROVE EntitledInv'
<1> DEFINE new == [org |-> devices[q.dev].org, role |-> devices[q.dev].role, apns |-> q.nonce]
<1>1. /\ q.dev \in DOMAIN devices /\ UNCHANGED <<pairings, codes, trail>>
      /\ devices' = devices \/ devices' = Auth!Put(devices, q.dev, new)
  BY DEF Auth!RegisterApns, Auth!SignatureValid
<1>2. new.org = devices[q.dev].org /\ new.role = devices[q.dev].role
  OBVIOUS
<1> HIDE DEF new
<1>3. /\ DOMAIN devices' = DOMAIN devices
      /\ \A d \in DOMAIN devices : devices'[d].org = devices[d].org /\ devices'[d].role = devices[d].role
  BY <1>1, <1>2 DEF Auth!Put
<1> QED BY <1>1, <1>3, QuietKeeps

LEMMA KeyKeeps == ASSUME EntitledInv, NEW key \in DOMAIN Keys, Auth!KeyMutate(key) PROVE EntitledInv'
<1>1. PICK e : e = Auth!Entry(Keys[key].org, "key", key, "control.kill")
  OBVIOUS
<1>2. e.kind = "key" /\ e.actor = key /\ e.org = Keys[key].org /\ e.action = "control.kill"
  BY <1>1 DEF Auth!Entry
<1>3. Keys[key].role = "admin" /\ trail' = Append(trail, e) /\ UNCHANGED <<pairings, devices, codes>>
  BY <1>1 DEF Auth!KeyMutate, Auth!Log
<1>4. Entitled(e)
  BY <1>2, <1>3 DEF Entitled
<1> QED BY <1>3, <1>4, QuietKeeps

LEMMA OidcKeeps == ASSUME EntitledInv, NEW t \in Tokens, Auth!OidcMutate(t) PROVE EntitledInv'
<1>1. PICK e : e = Auth!Entry(t.org, "oidc", Auth!OidcActor(t), "control.kill")
  OBVIOUS
<1>2. e.kind = "oidc" /\ e.actor = Auth!OidcActor(t) /\ e.org = t.org /\ e.action = "control.kill" /\ e.at = now
  BY <1>1 DEF Auth!Entry
<1>3. Auth!Verify(t) /\ AdminRole \in t.roles /\ trail' = Append(trail, e) /\ UNCHANGED <<pairings, devices, codes>>
  BY <1>1 DEF Auth!OidcMutate, Auth!Log, Auth!RoleOf
<1>4. /\ t.iss = Issuer /\ t.aud = Audience /\ t.signer \in DOMAIN Jwks /\ t.exp # Missing /\ t.exp + Leeway >= e.at
  BY <1>2, <1>3 DEF Auth!Verify
<1>5. e.actor \in {t.sub, t.org}
  BY <1>2 DEF Auth!OidcActor
<1>6. Entitled(e)
  BY <1>2, <1>3, <1>4, <1>5 DEF Entitled
<1> QED BY <1>3, <1>6, QuietKeeps

LEMMA EntitledStep == Auth!AuthConstants /\ NonceInv /\ EntitledInv /\ [Auth!Next]_Auth!vars => EntitledInv'
<1> SUFFICES ASSUME Auth!AuthConstants, now \in Nat, EntitledInv, [Auth!Next]_Auth!vars PROVE EntitledInv'
  BY DEF NonceInv
<1>1. CASE UNCHANGED <<devices, codes, trail>> /\ (pairings' = pairings \/ pairings' = <<>>)
  BY <1>1, QuietKeeps
<1>2. CASE UNCHANGED Auth!vars
  BY <1>1, <1>2 DEF Auth!vars
<1>3. CASE \E key \in DOMAIN Keys, code \in Codes, role \in {"admin", "viewer"} : Auth!PairNew(key, code, role)
  BY <1>3, PairNewKeeps
<1>4. CASE \E code \in Codes, d \in Devices : Auth!Pair(code, d)
  BY <1>4, PairKeeps
<1>5. CASE \E d, h \in Devices, op \in {"kill"} \cup Devices : Auth!Sign(d, h, op)
  BY <1>1, <1>5 DEF Auth!Sign
<1>6. CASE \E q \in wire : Auth!Deliver(q)
  BY <1>6, DeviceKeeps, ApnsKeeps DEF Auth!Deliver
<1>7. CASE \E key \in DOMAIN Keys : Auth!KeyMutate(key)
  BY <1>7, KeyKeeps
<1>8. CASE \E t \in Tokens : Auth!OidcMutate(t)
  BY <1>8, OidcKeeps
<1>9. CASE Auth!Restart \/ Auth!Tick
  BY <1>1, <1>9 DEF Auth!Restart, Auth!Tick
<1> QED BY <1>2, <1>3, <1>4, <1>5, <1>6, <1>7, <1>8, <1>9 DEF Auth!Next

(* For any set of keys, tokens, devices and codes, any skew and any size   *)
(* of the nonce ring, with a network that delays and repeats signed        *)
(* requests and restarts at any time: a request takes effect once in the   *)
(* life of a process, whoever the audit trail names was entitled to what   *)
(* it records, and a pairing code pairs one device and in time             *)
(* (authorize_mutation, verify_device_signature, check_and_record_nonce,   *)
(* redeem_pairing).                                                        *)
THEOREM OperatorsAreEntitled ==
  ASSUME Auth!AuthConstants
  PROVE  Auth!Spec => []OperatorsEntitled
<1>1. NonceInv /\ EntitledInv => OperatorsEntitled
  BY DEF OperatorsEntitled, NonceInv, EntitledInv, Auth!OperatorsEntitled, Auth!ExecutedOnce
<1> QED BY <1>1, NonceInit, EntitledInit, NonceStep, EntitledStep, PTL DEF Auth!Spec
-----------------------------------------------------------------------------
(* The evidence pack (Compliance), with any decisions and incident kinds   *)
(* and any number of events.                                               *)
(* A bag of natural numbers, and one whose members all occurred.           *)
NatBag(bag) == \A k \in DOMAIN bag : bag[k] \in Nat
Occurred(bag, S) == \A k : Evidence!Count(bag, k) > 0 => k \in S

(* What was read is backed by what occurred, and the chain only grows.     *)
EvidenceInv ==
  /\ NatBag(decisions) /\ NatBag(incidents) /\ chain \in Nat
  /\ Occurred(decisions, fired) /\ Occurred(incidents, fired) /\ DOMAIN incidents \subseteq Kinds
  /\ \A d \in fired : d \in Evidence!KnownDecisions => Evidence!Count(decisions, d) > 0
  /\ Occurred(pack.ds, fired) /\ Occurred(pack.ks, fired) /\ DOMAIN pack.ks \subseteq Kinds
  /\ pack.entries \in Nat /\ pack.entries <= chain
  /\ Evidence!GradesBacked /\ Evidence!ChainGradeHonest

LEMMA Bumped ==
  ASSUME NEW bag, NatBag(bag), NEW k, NEW S
  PROVE  /\ NatBag(Evidence!Bump(bag, k)) /\ DOMAIN Evidence!Bump(bag, k) = DOMAIN bag \cup {k}
         /\ Evidence!Count(Evidence!Bump(bag, k), k) > 0
         /\ \A x : x # k => Evidence!Count(Evidence!Bump(bag, k), x) = Evidence!Count(bag, x)
         /\ Occurred(bag, S) => Occurred(Evidence!Bump(bag, k), S \cup {k})
<1>1. Evidence!Count(bag, k) \in Nat
  BY DEF NatBag, Evidence!Count
<1>2. DOMAIN Evidence!Bump(bag, k) = DOMAIN bag \cup {k} /\ Evidence!Bump(bag, k)[k] = Evidence!Count(bag, k) + 1
  BY DEF Evidence!Bump
<1>3. \A x \in DOMAIN bag : x # k => Evidence!Bump(bag, k)[x] = bag[x]
  BY DEF Evidence!Bump
<1>4. NatBag(Evidence!Bump(bag, k))
  BY <1>1, <1>2, <1>3 DEF NatBag
<1>5. Evidence!Count(Evidence!Bump(bag, k), k) > 0
  BY <1>1, <1>2 DEF Evidence!Count
<1>6. \A x : x # k => Evidence!Count(Evidence!Bump(bag, k), x) = Evidence!Count(bag, x)
  BY <1>2, <1>3 DEF Evidence!Count
<1>7. Occurred(bag, S) => Occurred(Evidence!Bump(bag, k), S \cup {k})
  BY <1>6 DEF Occurred
<1> QED BY <1>2, <1>4, <1>5, <1>6, <1>7

(* The decisions an enforced control cites are ones that ingest counts.    *)
LEMMA CitedAreCounted ==
  \A c \in Evidence!Catalog : c.decisions \subseteq Evidence!KnownDecisions /\ c.enforcement \in {"enforced", "partial"}
<1> USE DEF Evidence!Control, Evidence!KnownDecisions
<1> DEFINE Good(c) == c.decisions \subseteq Evidence!KnownDecisions /\ c.enforcement \in {"enforced", "partial"}
<1>1. \A c \in Evidence!SpendControls : Good(c)
  BY DEF Evidence!SpendControls
<1>2. \A c \in Evidence!DataControls : Good(c)
  BY DEF Evidence!DataControls
<1>3. \A c \in Evidence!McpControls : Good(c)
  BY DEF Evidence!McpControls
<1>4. \A c \in Evidence!PartialControls : Good(c)
  BY DEF Evidence!PartialControls
<1> QED BY <1>1, <1>2, <1>3, <1>4 DEF Evidence!Catalog

(* Enforced is the grade of an enforced control that something backs.      *)
LEMMA EnforcedIsSeen ==
  ASSUME NEW c \in Evidence!Catalog, NEW ds, NEW ks
  PROVE  /\ Evidence!EvidenceStatus(Evidence!Evidence(c, ds, <<>>, ks)) = "Enforced" =>
              /\ c.enforcement = "enforced"
              /\ (\E d \in c.decisions : Evidence!Count(ds, d) > 0) \/ (\E k \in c.incidents : Evidence!Count(ks, k) > 0)
         /\ c.enforcement = "enforced" /\ (\E d \in c.decisions : Evidence!Count(ds, d) > 0) =>
              Evidence!EvidenceStatus(Evidence!Evidence(c, ds, <<>>, ks)) = "Enforced"
<1> DEFINE e == Evidence!Evidence(c, ds, <<>>, ks)
<1>1. \A x : Evidence!Count(<<>>, x) = 0
  BY DEF Evidence!Count
<1>4. e.enforcement = c.enforcement /\ e.enforcement \in {"enforced", "partial"}
  BY CitedAreCounted DEF Evidence!Evidence
<1>5. e.seen = (Evidence!AnySeen(ds, c.decisions) \/ Evidence!AnySeen(<<>>, c.findings) \/ Evidence!AnySeen(ks, c.incidents))
  BY DEF Evidence!Evidence
<1> HIDE DEF e
<1>6. ~Evidence!AnySeen(<<>>, c.findings)
  BY <1>1 DEF Evidence!AnySeen
<1>2. e.seen <=> \/ \E d \in c.decisions : Evidence!Count(ds, d) > 0
                 \/ \E k \in c.incidents : Evidence!Count(ks, k) > 0
  BY <1>5, <1>6, Zenon DEF Evidence!AnySeen
<1>3. Evidence!EvidenceStatus(e) = "Enforced" <=> e.enforcement = "enforced" /\ e.seen
  <2>1. CASE e.enforcement = "enforced"
    BY <2>1 DEF Evidence!EvidenceStatus
  <2>2. CASE e.enforcement = "partial"
    BY <2>2 DEF Evidence!EvidenceStatus
  <2> QED BY <1>4, <2>1, <2>2
<1> QED BY <1>2, <1>3, <1>4 DEF e

LEMMA EvidenceInit == Evidence!Init => EvidenceInv
<1> SUFFICES ASSUME Evidence!Init PROVE EvidenceInv
  OBVIOUS
<1>1. /\ decisions = <<>> /\ incidents = <<>> /\ chain \in Nat /\ packs = {} /\ fired = {}
      /\ pack.ds = <<>> /\ pack.ks = <<>> /\ pack.entries = 0
  BY DEF Evidence!Init, Evidence!Idle
<1>2. DOMAIN <<>> = {} /\ \A k : Evidence!Count(<<>>, k) = 0
  BY DEF Evidence!Count
<1> QED BY <1>1, <1>2 DEF EvidenceInv, NatBag, Occurred, Evidence!GradesBacked, Evidence!ChainGradeHonest

(* Packs that were answered stay backed while more occurs.                 *)
LEMMA PacksStay ==
  ASSUME EvidenceInv, packs' = packs
  PROVE  Evidence!GradesBacked' /\ Evidence!ChainGradeHonest'
BY DEF EvidenceInv, Evidence!GradesBacked, Evidence!ChainGradeHonest

LEMMA IngestKeeps == ASSUME EvidenceInv, NEW d, Evidence!Ingest(d) PROVE EvidenceInv'
<1>1. /\ fired' = fired \cup {d} /\ UNCHANGED <<incidents, chain, pack, packs>>
      /\ decisions' = IF d \in Evidence!KnownDecisions THEN Evidence!Bump(decisions, d) ELSE decisions
  BY DEF Evidence!Ingest, Evidence!Observe
<1>2. NatBag(decisions') /\ Occurred(decisions', fired')
      /\ \A x \in fired' : x \in Evidence!KnownDecisions => Evidence!Count(decisions', x) > 0
  <2>1. CASE d \in Evidence!KnownDecisions
    <3>1. PICK b, f : b = decisions /\ f = fired
      OBVIOUS
    <3>2. NatBag(b) /\ Occurred(b, f) /\ \A x \in f : x \in Evidence!KnownDecisions => Evidence!Count(b, x) > 0
      BY <3>1 DEF EvidenceInv
    <3>3. decisions' = Evidence!Bump(b, d) /\ fired' = f \cup {d}
      BY <1>1, <2>1, <3>1
    <3>4. /\ NatBag(Evidence!Bump(b, d)) /\ Occurred(Evidence!Bump(b, d), f \cup {d})
          /\ Evidence!Count(Evidence!Bump(b, d), d) > 0
          /\ \A x : x # d => Evidence!Count(Evidence!Bump(b, d), x) = Evidence!Count(b, x)
      BY <3>2, Bumped
    <3> QED BY <3>2, <3>3, <3>4
  <2>2. CASE d \notin Evidence!KnownDecisions
    BY <1>1, <2>2 DEF EvidenceInv, Occurred
  <2> QED BY <2>1, <2>2
<1>3. Occurred(incidents, fired') /\ Occurred(pack.ds, fired') /\ Occurred(pack.ks, fired')
  BY <1>1 DEF EvidenceInv, Occurred
<1>4. Evidence!GradesBacked' /\ Evidence!ChainGradeHonest'
  BY <1>1, PacksStay
<1> QED BY <1>1, <1>2, <1>3, <1>4 DEF EvidenceInv, NatBag, Occurred, Evidence!Count

LEMMA TripKeeps ==
  ASSUME Evidence!ComplianceConstants, EvidenceInv, NEW k \in Kinds, Evidence!TripIncident(k)
  PROVE  EvidenceInv'
<1>1. /\ fired' = fired \cup {k} /\ UNCHANGED <<decisions, chain, pack, packs>>
      /\ incidents' = Evidence!Bump(incidents, k)
  BY DEF Evidence!TripIncident, Evidence!Observe
<1>2. NatBag(incidents') /\ Occurred(incidents', fired') /\ DOMAIN incidents' \subseteq Kinds
  <2>1. PICK b, f : b = incidents /\ f = fired
    OBVIOUS
  <2>2. NatBag(b) /\ Occurred(b, f) /\ DOMAIN b \subseteq Kinds
    BY <2>1 DEF EvidenceInv
  <2>3. incidents' = Evidence!Bump(b, k) /\ fired' = f \cup {k}
    BY <1>1, <2>1
  <2>4. /\ NatBag(Evidence!Bump(b, k)) /\ Occurred(Evidence!Bump(b, k), f \cup {k})
        /\ DOMAIN Evidence!Bump(b, k) = DOMAIN b \cup {k}
    BY <2>2, Bumped
  <2> QED BY <2>2, <2>3, <2>4
<1>3. Occurred(decisions, fired') /\ Occurred(pack.ds, fired') /\ Occurred(pack.ks, fired')
  BY <1>1 DEF EvidenceInv, Occurred
<1>4. Evidence!GradesBacked' /\ Evidence!ChainGradeHonest'
  BY <1>1, PacksStay
<1>5. k \notin Evidence!KnownDecisions
  BY DEF Evidence!ComplianceConstants
<1>6. \A x \in fired' : x \in Evidence!KnownDecisions => Evidence!Count(decisions, x) > 0
  BY <1>1, <1>5 DEF EvidenceInv
<1> QED BY <1>1, <1>2, <1>3, <1>4, <1>6 DEF EvidenceInv, NatBag, Occurred, Evidence!Count

LEMMA EvictKeeps == ASSUME EvidenceInv, NEW k, Evidence!EvictIncident(k) PROVE EvidenceInv'
<1>1. /\ UNCHANGED <<decisions, chain, pack, packs, fired>>
      /\ Evidence!Count(incidents, k) > 0 /\ incidents' = [incidents EXCEPT ![k] = @ - 1]
  BY DEF Evidence!EvictIncident
<1>2. NatBag(incidents') /\ Occurred(incidents', fired) /\ DOMAIN incidents' \subseteq Kinds
  <2>1. k \in DOMAIN incidents /\ incidents[k] \in Nat /\ incidents[k] > 0
    BY <1>1 DEF EvidenceInv, NatBag, Evidence!Count
  <2>2. DOMAIN incidents' = DOMAIN incidents /\ incidents'[k] = incidents[k] - 1
        /\ \A x \in DOMAIN incidents : x # k => incidents'[x] = incidents[x]
    BY <1>1, <2>1
  <2>3. NatBag(incidents')
    BY <2>1, <2>2 DEF EvidenceInv, NatBag
  <2>4. \A x : Evidence!Count(incidents', x) > 0 => Evidence!Count(incidents, x) > 0
    BY <2>1, <2>2 DEF Evidence!Count
  <2> QED BY <2>2, <2>3, <2>4 DEF EvidenceInv, Occurred
<1>4. Evidence!GradesBacked' /\ Evidence!ChainGradeHonest'
  BY <1>1, PacksStay
<1> QED BY <1>1, <1>2, <1>4 DEF EvidenceInv, NatBag, Occurred, Evidence!Count

(* What is read is what the store counted at that moment.                  *)
LEMMA ReadKeeps ==
  ASSUME EvidenceInv, Evidence!ReadDecisions \/ Evidence!ReadIncidents \/ Evidence!ReadAudit
  PROVE  EvidenceInv'
<1>1. UNCHANGED <<decisions, incidents, chain, packs, fired>>
  BY DEF Evidence!ReadDecisions, Evidence!ReadIncidents, Evidence!ReadAudit
<1>2. /\ pack'.ds = decisions \/ pack'.ds = pack.ds
      /\ pack'.ks = incidents \/ pack'.ks = pack.ks \/ pack'.ks = <<>>
      /\ pack'.entries = 0 \/ pack'.entries = chain
  BY DEF Evidence!ReadDecisions, Evidence!ReadIncidents, Evidence!ReadAudit
<1>3. Occurred(<<>>, fired) /\ DOMAIN <<>> = {}
  BY DEF Occurred, Evidence!Count
<1>4. Occurred(pack'.ds, fired)
  <2>1. CASE pack'.ds = decisions
    BY <2>1 DEF EvidenceInv, Occurred
  <2>2. CASE pack'.ds = pack.ds
    BY <2>2 DEF EvidenceInv, Occurred
  <2> QED BY <1>2, <2>1, <2>2
<1>5. Occurred(pack'.ks, fired) /\ DOMAIN pack'.ks \subseteq Kinds
  <2>1. CASE pack'.ks = incidents
    BY <2>1 DEF EvidenceInv, Occurred
  <2>2. CASE pack'.ks = pack.ks
    BY <2>2 DEF EvidenceInv, Occurred
  <2>3. CASE pack'.ks = <<>>
    BY <1>3, <2>3 DEF Occurred
  <2> QED BY <1>2, <2>1, <2>2, <2>3
<1>6. pack'.entries \in Nat /\ pack'.entries <= chain
  BY <1>2 DEF EvidenceInv
<1>7. Evidence!GradesBacked' /\ Evidence!ChainGradeHonest'
  BY <1>1, PacksStay
<1> QED BY <1>1, <1>4, <1>5, <1>6, <1>7 DEF EvidenceInv, NatBag, Occurred, Evidence!Count

(* A grade of the catalogue is backed if what was read is.                 *)
LEMMA SectionBacked ==
  ASSUME NEW framework, NEW ds, NEW ks, NEW F, Occurred(ds, F), Occurred(ks, F),
         NEW g \in Evidence!CatalogSection(framework, ds, ks), g[2] = "Enforced"
  PROVE  \E c \in Evidence!Catalog : /\ c.id = g[1] /\ c.enforcement = "enforced"
                                     /\ (c.decisions \cup c.incidents) \cap F # {}
<1>1. PICK c \in Evidence!Catalog : g = <<c.id, Evidence!EvidenceStatus(Evidence!Evidence(c, ds, <<>>, ks))>>
  BY DEF Evidence!CatalogSection
<1>2. c.id = g[1] /\ Evidence!EvidenceStatus(Evidence!Evidence(c, ds, <<>>, ks)) = "Enforced"
  BY <1>1
<1>3. /\ c.enforcement = "enforced"
      /\ (\E d \in c.decisions : Evidence!Count(ds, d) > 0) \/ (\E k \in c.incidents : Evidence!Count(ks, k) > 0)
  BY <1>2, EnforcedIsSeen
<1>4. (c.decisions \cup c.incidents) \cap F # {}
  BY <1>3 DEF Occurred
<1> QED BY <1>2, <1>3, <1>4

LEMMA VerifyKeeps == ASSUME EvidenceInv, Evidence!VerifyAudit PROVE EvidenceInv'
<1> DEFINE p == [eu |-> Evidence!CatalogSection("EU-AI-ACT", pack.ds, pack.ks),
                 soc2 |-> Evidence!CatalogSection("SOC2", pack.ds, pack.ks),
                 use |-> Evidence!ModelUseControls(pack.ds), monitoring |-> Evidence!OngoingMonitoring(pack.ks),
                 chain |-> Evidence!AuditChainStatus(pack.entries, Intact \/ chain = 0),
                 entries |-> pack.entries, at |-> fired]
<1>1. packs' = packs \cup {p} /\ pack' = Evidence!Idle /\ UNCHANGED <<decisions, incidents, chain, fired>>
  BY DEF Evidence!VerifyAudit
<1>2. /\ p.eu = Evidence!CatalogSection("EU-AI-ACT", pack.ds, pack.ks)
      /\ p.soc2 = Evidence!CatalogSection("SOC2", pack.ds, pack.ks)
      /\ p.use = Evidence!ModelUseControls(pack.ds) /\ p.monitoring = Evidence!OngoingMonitoring(pack.ks)
      /\ p.chain = Evidence!AuditChainStatus(pack.entries, Intact \/ chain = 0)
      /\ p.entries = pack.entries /\ p.at = fired
  OBVIOUS
<1> HIDE DEF p
<1>3. PICK ds, ks, F : ds = pack.ds /\ ks = pack.ks /\ F = fired
  OBVIOUS
<1>4. Occurred(ds, F) /\ Occurred(ks, F) /\ DOMAIN ks \subseteq Kinds
  BY <1>3 DEF EvidenceInv
<1>5. ASSUME NEW g \in p.eu \cup p.soc2, g[2] = "Enforced"
      PROVE  \E c \in Evidence!Catalog : /\ c.id = g[1] /\ c.enforcement = "enforced"
                                         /\ (c.decisions \cup c.incidents) \cap p.at # {}
  <2>1. g \in Evidence!CatalogSection("EU-AI-ACT", ds, ks) \/ g \in Evidence!CatalogSection("SOC2", ds, ks)
    BY <1>2, <1>3, <1>5
  <2>2. p.at = F
    BY <1>2, <1>3
  <2> QED BY <1>4, <1>5, <2>1, <2>2, SectionBacked
<1>6. p.use = "Enforced" => {"budget_exceeded", "loop_detected", "killed"} \cap p.at # {}
  <2> SUFFICES ASSUME p.use = "Enforced" PROVE {"budget_exceeded", "loop_detected", "killed"} \cap p.at # {}
    OBVIOUS
  <2>1. Evidence!AnySeen(ds, {"budget_exceeded", "loop_detected", "killed"})
    BY <1>2, <1>3 DEF Evidence!ModelUseControls
  <2> QED BY <1>2, <1>3, <1>4, <2>1 DEF Evidence!AnySeen, Occurred
<1>7. p.monitoring = "Enforced" => Kinds \cap p.at # {}
  <2> SUFFICES ASSUME p.monitoring = "Enforced" PROVE Kinds \cap p.at # {}
    OBVIOUS
  <2>1. Evidence!AnySeen(ks, DOMAIN ks)
    BY <1>2, <1>3 DEF Evidence!OngoingMonitoring
  <2> QED BY <1>2, <1>3, <1>4, <2>1 DEF Evidence!AnySeen, Occurred
<1>8. p.chain = "Enforced" => p.entries > 0 /\ Intact
  <2> SUFFICES ASSUME p.chain = "Enforced" PROVE p.entries > 0 /\ Intact
    OBVIOUS
  <2>1. (Intact \/ chain = 0) /\ pack.entries > 0
    BY <1>2 DEF Evidence!AuditChainStatus
  <2>2. pack.entries \in Nat /\ pack.entries <= chain /\ chain \in Nat
    BY DEF EvidenceInv
  <2> QED BY <1>2, <2>1, <2>2
<1>9. Evidence!GradesBacked'
  BY <1>1, <1>5, <1>6, <1>7 DEF EvidenceInv, Evidence!GradesBacked
<1>10. Evidence!ChainGradeHonest'
  BY <1>1, <1>8 DEF EvidenceInv, Evidence!ChainGradeHonest
<1>11. pack'.ds = <<>> /\ pack'.ks = <<>> /\ pack'.entries = 0
  BY <1>1 DEF Evidence!Idle
<1>12. Occurred(<<>>, fired) /\ DOMAIN <<>> = {}
  BY DEF Occurred, Evidence!Count
<1>13. Occurred(pack.ds, fired)' /\ Occurred(pack.ks, fired)' /\ (DOMAIN pack.ks \subseteq Kinds)'
       /\ (pack.entries \in Nat /\ pack.entries <= chain)'
  BY <1>1, <1>11, <1>12 DEF Occurred, EvidenceInv
<1> QED BY <1>1, <1>9, <1>10, <1>13 DEF EvidenceInv, NatBag, Occurred, Evidence!Count

LEMMA EvidenceStep == Evidence!ComplianceConstants /\ EvidenceInv /\ [Evidence!Next]_Evidence!vars => EvidenceInv'
<1> SUFFICES ASSUME Evidence!ComplianceConstants, EvidenceInv, [Evidence!Next]_Evidence!vars PROVE EvidenceInv'
  OBVIOUS
<1>1. CASE UNCHANGED <<decisions, incidents, pack, packs, fired>> /\ (chain' = chain \/ chain' = chain + 1)
  <2>1. chain' \in Nat /\ pack.entries <= chain'
    BY <1>1 DEF EvidenceInv
  <2>2. Evidence!GradesBacked' /\ Evidence!ChainGradeHonest'
    BY <1>1, PacksStay
  <2> QED BY <1>1, <2>1, <2>2 DEF EvidenceInv, NatBag, Occurred, Evidence!Count
<1>2. CASE UNCHANGED Evidence!vars \/ Evidence!AppendAudit
  BY <1>1, <1>2 DEF Evidence!vars, Evidence!AppendAudit
<1>3. CASE \E d \in Decisions : Evidence!Ingest(d)
  BY <1>3, IngestKeeps
<1>4. CASE \E k \in Kinds : Evidence!TripIncident(k) \/ Evidence!EvictIncident(k)
  BY <1>4, TripKeeps, EvictKeeps
<1>5. CASE Evidence!ReadDecisions \/ Evidence!ReadIncidents \/ Evidence!ReadAudit
  BY <1>5, ReadKeeps
<1>6. CASE Evidence!VerifyAudit
  BY <1>6, VerifyKeeps
<1> QED BY <1>2, <1>3, <1>4, <1>5, <1>6 DEF Evidence!Next

(* For any decisions and incident kinds, however many occur or are evicted *)
(* between the four reads of a request: an Enforced grade of the evidence  *)
(* pack is backed by an event, a control that fired is graded, and a chain *)
(* that is empty or broken is not graded Enforced (compliance_evidence).   *)
THEOREM EvidenceIsHonest ==
  ASSUME Evidence!ComplianceConstants
  PROVE  Evidence!Spec => []EvidenceHonest
<1>1. EvidenceInv => Evidence!FiredControlsGraded
  <2> SUFFICES ASSUME EvidenceInv, NEW c \in Evidence!Catalog, c.enforcement = "enforced", NEW d \in c.decisions, d \in fired
      PROVE  Evidence!EvidenceStatus(Evidence!Evidence(c, decisions, <<>>, incidents)) = "Enforced"
    BY DEF Evidence!FiredControlsGraded
  <2>1. PICK ds, ks : ds = decisions /\ ks = incidents
    OBVIOUS
  <2>2. Evidence!Count(ds, d) > 0
    BY <2>1, CitedAreCounted DEF EvidenceInv
  <2>3. Evidence!EvidenceStatus(Evidence!Evidence(c, ds, <<>>, ks)) = "Enforced"
    BY <2>2, EnforcedIsSeen
  <2> QED BY <2>1, <2>3
<1>2. EvidenceInv => EvidenceHonest
  BY <1>1 DEF EvidenceInv, EvidenceHonest, Evidence!EvidenceHonest
<1> QED BY <1>2, EvidenceInit, EvidenceStep, PTL DEF Evidence!Spec
=============================================================================
