--------------------------- MODULE Cluster_proofs ---------------------------
(***************************************************************************)
(* Proofs about the durable raft storage (RaftStorage), the routing of     *)
(* requests to the leader (ClusterRouting) and the event file (EventLog),  *)
(* as instances in ClusterParts.  First the storage: whatever transactions *)
(* a crash falls between, for every log length, set of requests and number *)
(* of crashes.                                                             *)
(***************************************************************************)
EXTENDS ClusterParts, Integers, Sequences

-----------------------------------------------------------------------------
(* Applying a range of a log.                                              *)

(* The state after index i, given the states f after the earlier ones.     *)
After(f, s, log, from, i) ==
  IF i < from THEN s
  ELSE IF i \in DOMAIN log THEN Disk!ApplyEntry(f[i - 1], i, log[i])
  ELSE f[i - 1]

(* The states after each index satisfy their recursive definition.         *)
LEMMA StatesAfterUnfold ==
  ASSUME NEW s, NEW log, NEW from \in Nat \ {0}, NEW to \in Nat
  PROVE  Disk!StatesAfter(s, log, from, to) =
           [i \in 0 .. to |-> After(Disk!StatesAfter(s, log, from, to), s, log, from, i)]
<1> DEFINE Is(f, m) == f = [i \in 0 .. m |-> After(f, s, log, from, i)]
           Bad == {m \in Nat : ~ \E f : Is(f, m)}
<1>1. Bad = {}
  <2> SUFFICES ASSUME Bad # {} PROVE FALSE
    OBVIOUS
  <2>0. Bad \subseteq Nat
    OBVIOUS
  <2>1. PICK m \in Bad : \A k \in Bad : m <= k
    <3> HIDE DEF Bad
    <3> QED BY <2>0, LeastNat
  <2>2. m # 0
    <3> DEFINE z == [i \in 0 .. 0 |-> s]
    <3>1. \A i \in 0 .. 0 : After(z, s, log, from, i) = s
      BY DEF After
    <3>2. Is(z, 0)
      BY <3>1
    <3> QED BY <3>2
  <2>3. m - 1 \in Nat /\ m - 1 \notin Bad
    BY <2>1, <2>2
  <2>4. PICK f : Is(f, m - 1)
    BY <2>3
  <2> DEFINE h == [i \in 0 .. m |-> IF i = m THEN After(f, s, log, from, m) ELSE f[i]]
  <2>5. Is(h, m)
    <3>0. \A i \in 0 .. m - 1 : h[i] = f[i]
      OBVIOUS
    <3>1. \A i \in 0 .. m : h[i] = After(h, s, log, from, i)
      <4> SUFFICES ASSUME NEW i \in 0 .. m
                   PROVE  h[i] = After(h, s, log, from, i)
        OBVIOUS
      <4>0. i = 0 \/ h[i - 1] = f[i - 1]
        BY <3>0
      <4>1. After(h, s, log, from, i) = After(f, s, log, from, i)
        <5> HIDE DEF h
        <5> QED BY <4>0 DEF After
      <4>2. CASE i = m
        BY <4>1, <4>2
      <4>3. CASE i # m
        <5>1. i \in 0 .. m - 1
          BY <4>3
        <5>2. f[i] = After(f, s, log, from, i)
          BY <5>1, <2>4
        <5> QED BY <5>1, <5>2, <4>1, <3>0
      <4> QED BY <4>2, <4>3
    <3> HIDE DEF h
    <3>2. h = [i \in 0 .. m |-> h[i]]
      BY DEF h
    <3> QED BY <3>1, <3>2
  <2> QED BY <2>1, <2>5
<1>2. \E f : Is(f, to)
  BY <1>1
<1>3. Disk!StatesAfter(s, log, from, to) = CHOOSE f : Is(f, to)
  BY DEF Disk!StatesAfter, After
<1> HIDE DEF Is
<1>4. Is(Disk!StatesAfter(s, log, from, to), to)
  BY <1>2, <1>3, Zenon
<1> QED BY <1>4 DEF Is

(* The recurrence, one index at a time.                                    *)
LEMMA StatesAfterAt ==
  ASSUME NEW s, NEW log, NEW from \in Nat \ {0}, NEW to \in Nat
  PROVE  \A i \in 0 .. to : Disk!StatesAfter(s, log, from, to)[i]
                              = After(Disk!StatesAfter(s, log, from, to), s, log, from, i)
<1> DEFINE f == Disk!StatesAfter(s, log, from, to)
<1>1. f = [i \in 0 .. to |-> After(f, s, log, from, i)]
  BY StatesAfterUnfold
<1> HIDE DEF f
<1>2. \A i \in 0 .. to : f[i] = After(f, s, log, from, i)
  BY <1>1
<1> QED BY <1>2 DEF f

(* Applying an empty range changes nothing.                                *)
LEMMA ApplyNone ==
  ASSUME NEW s, NEW log, NEW from \in Nat \ {0}, NEW to \in Nat, to < from
  PROVE  Disk!ApplyLog(s, log, from, to) = s
BY StatesAfterAt DEF Disk!ApplyLog, After

(* Where a node's log holds the entries of another, applying it on top of  *)
(* what the other's entries up to m come to gives what they come to.       *)
LEMMA ApplyOnTop ==
  ASSUME NEW s, NEW log, NEW other, NEW from \in Nat \ {0}, NEW m \in Nat, NEW to \in Nat,
         from <= m + 1, m <= to,
         \A i \in m + 1 .. to : i \in DOMAIN log /\ i \in DOMAIN other /\ log[i] = other[i]
  PROVE  Disk!ApplyLog(Disk!ApplyLog(s, other, from, m), log, m + 1, to) = Disk!ApplyLog(s, other, from, to)
<1> DEFINE base == Disk!ApplyLog(s, other, from, m)
           low == Disk!StatesAfter(s, other, from, m)
           high == Disk!StatesAfter(s, other, from, to)
           f == Disk!StatesAfter(base, log, m + 1, to)
           BadLow == {i \in 0 .. m : low[i] # high[i]}
           BadHigh == {i \in m .. to : f[i] # high[i]}
<1>1. \A i \in 0 .. m : low[i] = After(low, s, other, from, i)
  BY StatesAfterAt
<1>2. \A i \in 0 .. to : high[i] = After(high, s, other, from, i)
  BY StatesAfterAt
<1>3. \A i \in 0 .. to : f[i] = After(f, base, log, m + 1, i)
  BY StatesAfterAt
<1>4. base = low[m]
  BY DEF Disk!ApplyLog
<1> HIDE DEF low, high, f, base
<1>5. BadLow = {}
  <2> SUFFICES ASSUME BadLow # {} PROVE FALSE
    OBVIOUS
  <2>0. BadLow \subseteq Nat
    OBVIOUS
  <2>1. PICK k \in BadLow : \A j \in BadLow : k <= j
    <3> HIDE DEF BadLow
    <3> QED BY <2>0, LeastNat
  <2>2. k = 0 \/ (k - 1 \in 0 .. m /\ low[k - 1] = high[k - 1])
    BY <2>1
  <2>3. low[k] = After(low, s, other, from, k) /\ high[k] = After(high, s, other, from, k)
    BY <1>1, <1>2
  <2>4. After(low, s, other, from, k) = After(high, s, other, from, k)
    BY <2>2 DEF After
  <2> QED BY <2>1, <2>3, <2>4
<1>6. base = high[m]
  BY <1>4, <1>5
<1>7. BadHigh = {}
  <2> SUFFICES ASSUME BadHigh # {} PROVE FALSE
    OBVIOUS
  <2>0. BadHigh \subseteq Nat
    OBVIOUS
  <2>1. PICK k \in BadHigh : \A j \in BadHigh : k <= j
    <3> HIDE DEF BadHigh
    <3> QED BY <2>0, LeastNat
  <2>2. f[m] = base
    BY <1>3 DEF After
  <2>3. k # m /\ k \in m + 1 .. to
    BY <2>1, <2>2, <1>6
  <2>4. k - 1 \in m .. to /\ f[k - 1] = high[k - 1]
    BY <2>1, <2>3
  <2>5. f[k] = After(f, base, log, m + 1, k) /\ high[k] = After(high, s, other, from, k)
    BY <1>2, <1>3
  <2>6. k \in DOMAIN log /\ k \in DOMAIN other /\ log[k] = other[k]
    BY <2>3
  <2>7. After(f, base, log, m + 1, k) = Disk!ApplyEntry(f[k - 1], k, log[k])
    BY <2>3, <2>6 DEF After
  <2>8. After(high, s, other, from, k) = Disk!ApplyEntry(high[k - 1], k, other[k])
    BY <2>3, <2>6 DEF After
  <2> QED BY <2>1, <2>4, <2>5, <2>6, <2>7, <2>8
<1>8. f[to] = high[to]
  BY <1>7
<1> QED BY <1>8 DEF Disk!ApplyLog, f, high, base

(* A longer log comes to the same over the range it shares.                *)
LEMMA ApplySame ==
  ASSUME NEW s, NEW log, NEW other, NEW from \in Nat \ {0}, NEW to \in Nat,
         \A i \in 1 .. to : i \in DOMAIN log /\ i \in DOMAIN other /\ log[i] = other[i]
  PROVE  Disk!ApplyLog(s, log, from, to) = Disk!ApplyLog(s, other, from, to)
<1> DEFINE f == Disk!StatesAfter(s, log, from, to)
           g == Disk!StatesAfter(s, other, from, to)
           Bad == {i \in 0 .. to : f[i] # g[i]}
<1>1. \A i \in 0 .. to : f[i] = After(f, s, log, from, i)
  BY StatesAfterAt
<1>2. \A i \in 0 .. to : g[i] = After(g, s, other, from, i)
  BY StatesAfterAt
<1> HIDE DEF f, g
<1>3. Bad = {}
  <2> SUFFICES ASSUME Bad # {} PROVE FALSE
    OBVIOUS
  <2>0. Bad \subseteq Nat
    OBVIOUS
  <2>1. PICK k \in Bad : \A j \in Bad : k <= j
    <3> HIDE DEF Bad
    <3> QED BY <2>0, LeastNat
  <2>2. k = 0 \/ (k \in 1 .. to /\ f[k - 1] = g[k - 1])
    BY <2>1
  <2>3. f[k] = After(f, s, log, from, k) /\ g[k] = After(g, s, other, from, k)
    BY <1>1, <1>2
  <2>4. After(f, s, log, from, k) = After(g, s, other, from, k)
    BY <2>2 DEF After
  <2> QED BY <2>1, <2>3, <2>4
<1>4. f[to] = g[to]
  BY <1>3
<1> QED BY <1>4 DEF Disk!ApplyLog, f, g

(* What the first n committed entries come to names n.                     *)
LEMMA ReplayApplied ==
  ASSUME NEW log, NEW n \in Nat, 1 .. n \subseteq DOMAIN log
  PROVE  Disk!ApplyLog(Disk!Fresh, log, 1, n).applied = n
<1> DEFINE f == Disk!StatesAfter(Disk!Fresh, log, 1, n)
<1>1. \A i \in 0 .. n : f[i] = After(f, Disk!Fresh, log, 1, i)
  BY StatesAfterAt
<1> HIDE DEF f
<1>2. CASE n = 0
  <2>1. f[n] = Disk!Fresh
    BY <1>1, <1>2 DEF After
  <2> QED BY <2>1, <1>2 DEF Disk!ApplyLog, f, Disk!Fresh
<1>3. CASE n # 0
  <2>1. f[n] = Disk!ApplyEntry(f[n - 1], n, log[n])
    BY <1>1, <1>3 DEF After
  <2> QED BY <2>1 DEF Disk!ApplyLog, f, Disk!ApplyEntry
<1> QED BY <1>2, <1>3

-----------------------------------------------------------------------------
(* The types: index 0 stands for None.                                     *)
DiskTyped ==
  /\ disk = [log |-> disk.log, vote |-> disk.vote, committed |-> disk.committed, purged |-> disk.purged,
             state |-> disk.state, snapshot |-> disk.snapshot]
  /\ DOMAIN disk.log \subseteq Disk!Indexes
  /\ disk.vote \in Nat /\ disk.committed \in Nat /\ disk.purged \in Nat
  /\ disk.state.applied \in Nat /\ disk.snapshot.applied \in Nat

StorageTyped ==
  /\ DiskTyped
  /\ mem = [persist |-> mem.persist, snapshot |-> mem.snapshot]
  /\ phase \in {"down", "loaded", "replayed", "up"}
  /\ chosen \in Seq(Disk!Payloads)
  /\ counted \subseteq 1 .. Len(chosen)
  /\ told \in Nat

(* An operation under way: purge's second transaction deletes up to the    *)
(* purged id on disk, install_snapshot's second stores the state on disk,  *)
(* and none is under way in a process that has just been started.          *)
OperationsUnderWay ==
  /\ core = Disk!Idle \/ core = [at |-> "purge", upto |-> disk.purged]
  /\ worker = Disk!IdleWorker \/ (phase = "up" /\ worker = [at |-> "install", snap |-> disk.state])

(* The memory of a running process is what it has on disk.                 *)
MemoryIsStored == phase # "down" => mem = [persist |-> disk.state, snapshot |-> disk.snapshot]

(* State and snapshot on disk are what the prefixes they name come to.     *)
StoredIsPrefix ==
  \A s \in {disk.state, disk.snapshot} : s.applied <= Len(chosen) /\ s = Disk!Replay(s.applied)

(* Between the purged id and any entry that is held, all are held.         *)
NoHole == \A i \in DOMAIN disk.log : disk.purged + 1 .. i \subseteq DOMAIN disk.log

(* What makes CrashSafe inductive.                                         *)
StorageInv ==
  /\ StorageTyped
  /\ OperationsUnderWay
  /\ MemoryIsStored
  /\ StoredIsPrefix
  /\ Disk!PromisesKept
  /\ Disk!ReplayableAfterCrash
  /\ NoHole

(* get_log_state's last index is a held one, or the purged id.             *)
LEMMA LastIndexHeld ==
  ASSUME NEW d, DOMAIN d.log \subseteq Disk!Indexes, d.purged \in Nat
  PROVE  /\ DOMAIN d.log = {} => Disk!LastIndex(d) = d.purged
         /\ DOMAIN d.log # {} => /\ Disk!LastIndex(d) \in DOMAIN d.log
                                 /\ \A j \in DOMAIN d.log : j <= Disk!LastIndex(d)
         /\ Disk!LastIndex(d) \in Nat
<1> DEFINE D == DOMAIN d.log
<1>1. CASE D = {}
  BY <1>1 DEF Disk!LastIndex
<1>2. CASE D # {}
  <2> DEFINE T == {k \in Nat : \E i \in D : k = MaxIndex - i}
  <2>1. T # {} /\ T \subseteq Nat
    BY <1>2, BoundsAssumption DEF Disk!StorageConstants, Disk!Indexes
  <2>2. PICK k \in T : \A j \in T : k <= j
    <3> HIDE DEF T
    <3> QED BY <2>1, LeastNat
  <2>3. PICK i \in D : k = MaxIndex - i
    OBVIOUS
  <2>4. \A j \in D : j <= i
    <3> TAKE j \in D
    <3>1. MaxIndex - j \in T
      BY BoundsAssumption DEF Disk!StorageConstants, Disk!Indexes
    <3> QED BY <3>1, <2>2, <2>3, BoundsAssumption DEF Disk!StorageConstants, Disk!Indexes
  <2>5. Disk!LastIndex(d) = CHOOSE x \in D : \A j \in D : j <= x
    BY <1>2 DEF Disk!LastIndex
  <2> HIDE DEF D
  <2>6. Disk!LastIndex(d) \in D /\ \A j \in D : j <= Disk!LastIndex(d)
    BY <2>4, <2>5, Zenon
  <2> QED BY <2>6, <1>2 DEF D, Disk!Indexes
<1> QED BY <1>1, <1>2

(* The strengthening gives what the storage owes.                          *)
LEMMA StorageInvEnough == StorageInv => Disk!CrashSafe
<1> SUFFICES ASSUME StorageInv PROVE Disk!CrashSafe
  OBVIOUS
<1>1. Disk!AppliedIsCommittedPrefix
  <2>1. phase # "down" => mem.persist = disk.state /\ mem.snapshot = disk.snapshot
    BY DEF StorageInv, MemoryIsStored
  <2> QED BY <2>1 DEF StorageInv, StoredIsPrefix, Disk!AppliedIsCommittedPrefix
<1>2. Disk!LogContiguous
  <2>1. DOMAIN disk.log \subseteq Disk!Indexes /\ disk.purged \in Nat
    BY DEF StorageInv, StorageTyped, DiskTyped
  <2>2. CASE DOMAIN disk.log = {}
    BY <2>1, <2>2, LastIndexHeld DEF Disk!LogContiguous
  <2>3. CASE DOMAIN disk.log # {}
    BY <2>1, <2>3, LastIndexHeld DEF Disk!LogContiguous, StorageInv, NoHole
  <2> QED BY <2>2, <2>3
<1> QED BY <1>1, <1>2 DEF Disk!CrashSafe, StorageInv

LEMMA StorageInvInit == Disk!Init => StorageInv
<1> SUFFICES ASSUME Disk!Init PROVE StorageInv
  OBVIOUS
<1>1. disk.state = Disk!Fresh /\ disk.snapshot = Disk!Fresh /\ Disk!Fresh.applied = 0 /\ DOMAIN disk.log = {}
  BY DEF Disk!Init, Disk!Empty, Disk!EmptyLog, Disk!Fresh
<1>2. StorageTyped
  BY <1>1 DEF Disk!Init, StorageTyped, DiskTyped, Disk!Empty
<1>3. Disk!Replay(0) = Disk!Fresh
  BY ApplyNone DEF Disk!Replay
<1>4. StoredIsPrefix
  BY <1>1, <1>3 DEF StoredIsPrefix, Disk!Init
<1>5. Disk!PromisesKept /\ Disk!ReplayableAfterCrash /\ NoHole
  BY <1>1 DEF Disk!PromisesKept, Disk!ReplayableAfterCrash, NoHole, Disk!Init, Disk!Empty
<1> QED BY <1>2, <1>4, <1>5 DEF StorageInv, OperationsUnderWay, MemoryIsStored, Disk!Init, Disk!Empty

-----------------------------------------------------------------------------
(* Every step keeps the invariant.                                         *)

(* The cluster's log grows: what its prefixes come to does not change.     *)
LEMMA ChooseKeeps ==
  ASSUME StorageInv, NEW p \in Disk!Payloads, Disk!Choose(p)
  PROVE  StorageInv'
<1> USE DEF StorageInv
<1>1. /\ chosen' = Append(chosen, p) /\ chosen' \in Seq(Disk!Payloads) /\ Len(chosen') = Len(chosen) + 1
      /\ \A i \in 1 .. Len(chosen) : chosen'[i] = chosen[i]
      /\ chosen'[Len(chosen) + 1] = p
      /\ Len(chosen) \in Nat /\ DOMAIN chosen = 1 .. Len(chosen) /\ DOMAIN chosen' = 1 .. Len(chosen) + 1
  BY DEF Disk!Choose, StorageTyped
<1>2. UNCHANGED <<disk, mem, phase, core, worker, told>>
  BY DEF Disk!Choose
<1>3. \A i : Disk!Matches(disk, i) => Disk!Matches(disk, i)'
  BY <1>1, <1>2, BoundsAssumption DEF Disk!StorageConstants, Disk!Matches, StorageTyped, DiskTyped, Disk!Indexes
<1>4. \A n \in 0 .. Len(chosen) : Disk!Replay(n)' = Disk!Replay(n)
  <2> TAKE n \in 0 .. Len(chosen)
  <2>1. \A i \in 1 .. n : i \in DOMAIN chosen' /\ i \in DOMAIN chosen /\ chosen'[i] = chosen[i]
    BY <1>1
  <2>2. Disk!ApplyLog(Disk!Fresh, chosen', 1, n) = Disk!ApplyLog(Disk!Fresh, chosen, 1, n)
    <3>1. n \in Nat /\ 1 \in Nat \ {0}
      BY <1>1
    <3> QED BY <2>1, <3>1, ApplySame
  <2> QED BY <2>2 DEF Disk!Replay
<1>5. StorageTyped'
  <2>1. counted' \subseteq 1 .. Len(chosen')
    BY <1>1 DEF Disk!Choose, StorageTyped
  <2> QED BY <1>1, <1>2, <2>1 DEF StorageTyped, DiskTyped
<1>6. StoredIsPrefix'
  BY <1>1, <1>2, <1>4 DEF StoredIsPrefix, StorageTyped, DiskTyped
<1>7. Disk!PromisesKept'
  <2>0. PICK new \in Nat : new = Len(chosen) + 1
    BY <1>1
  <2>1. counted' \subseteq counted \cup {new}
    BY <2>0 DEF Disk!Choose
  <2>2. new \in counted' => new \in counted \/ Disk!Matches(disk, new)'
    <3>1. CASE counted' = counted
      BY <3>1
    <3>2. CASE new \in DOMAIN disk.log /\ disk.log[new] = p
      BY <2>0, <3>2, <1>1, <1>2 DEF Disk!Matches
    <3> QED BY <2>0, <3>1, <3>2 DEF Disk!Choose
  <2>3. \A i \in counted : i <= disk.state.applied \/ Disk!Matches(disk, i)'
    BY <1>3 DEF Disk!PromisesKept
  <2>4. \A i \in counted' : i <= disk.state.applied \/ Disk!Matches(disk, i)'
    BY <2>1, <2>2, <2>3
  <2> QED BY <1>2, <2>4 DEF Disk!PromisesKept
<1>8. Disk!ReplayableAfterCrash'
  BY <1>2, <1>3 DEF Disk!ReplayableAfterCrash
<1> QED BY <1>2, <1>5, <1>6, <1>7, <1>8 DEF OperationsUnderWay, MemoryIsStored, NoHole

(* A step that leaves the cluster's part alone, and the state and the      *)
(* snapshot on disk, keeps them what they were.                            *)
LEMMA PrefixesKept ==
  ASSUME StoredIsPrefix, chosen' = chosen, disk'.state = disk.state, disk'.snapshot = disk.snapshot
  PROVE  StoredIsPrefix'
BY DEF StoredIsPrefix, Disk!Replay

LEMMA AppendKeeps ==
  ASSUME StorageInv, NEW ps \in Disk!Batches, Disk!AppendEntries(ps)
  PROVE  StorageInv'
<1> DEFINE at == Disk!LastIndex(disk)
           n == Len(ps)
<1> USE DEF StorageInv
<1>1. n \in Nat /\ ps \in [1 .. n -> Disk!Payloads]
  <2>1. PICK m \in 1 .. 2 : ps \in [1 .. m -> Disk!Payloads]
    BY DEF Disk!Batches
  <2>2. ps \in Seq(Disk!Payloads) /\ Len(ps) = m
    BY <2>1
  <2> QED BY <2>1, <2>2
<1>2. /\ DOMAIN disk.log = {} => at = disk.purged
      /\ DOMAIN disk.log # {} => at \in DOMAIN disk.log
      /\ \A j \in DOMAIN disk.log : j <= at
      /\ at \in Nat
  BY LastIndexHeld DEF StorageTyped, DiskTyped
<1>3. /\ disk' = [disk EXCEPT !.log = Disk!Extended(disk.log, at, ps)]
      /\ at + n <= MaxIndex
      /\ UNCHANGED <<mem, phase, core, worker, chosen, counted, told>>
  BY DEF Disk!AppendEntries, Disk!cluster
<1> HIDE DEF at, n
<1>4. /\ disk'.log = Disk!Extended(disk.log, at, ps)
      /\ disk'.vote = disk.vote /\ disk'.committed = disk.committed /\ disk'.purged = disk.purged
      /\ disk'.state = disk.state /\ disk'.snapshot = disk.snapshot
      /\ disk' = [log |-> disk'.log, vote |-> disk'.vote, committed |-> disk'.committed, purged |-> disk'.purged,
                  state |-> disk'.state, snapshot |-> disk'.snapshot]
  BY <1>3 DEF StorageTyped, DiskTyped
<1>5. /\ DOMAIN disk'.log = DOMAIN disk.log \cup (at + 1 .. at + n)
      /\ \A i \in DOMAIN disk.log : disk'.log[i] = disk.log[i]
  BY <1>2, <1>4 DEF Disk!Extended, StorageTyped, DiskTyped, Disk!Indexes, n
<1>6. \A i : Disk!Matches(disk, i) => Disk!Matches(disk, i)'
  BY <1>3, <1>5 DEF Disk!Matches
<1>7. StorageTyped'
  BY <1>1, <1>2, <1>3, <1>4, <1>5, BoundsAssumption DEF Disk!StorageConstants, StorageTyped, DiskTyped, Disk!Indexes
<1>8. NoHole'
  <2> SUFFICES ASSUME NEW i \in DOMAIN disk'.log, NEW k \in disk.purged + 1 .. i
               PROVE  k \in DOMAIN disk'.log
    BY <1>4 DEF NoHole
  <2>1. i \in Nat /\ disk.purged \in Nat /\ k \in Nat /\ k > disk.purged
    BY <1>7 DEF StorageTyped, DiskTyped, Disk!Indexes
  <2>2. CASE i \in DOMAIN disk.log
    BY <2>2, <1>5 DEF NoHole
  <2>3. CASE i \in at + 1 .. at + n
    <3>1. CASE k > at
      BY <3>1, <2>1, <2>3, <1>1, <1>2, <1>5
    <3>2. CASE k <= at
      <4>1. at \in DOMAIN disk.log /\ k \in disk.purged + 1 .. at
        BY <3>2, <1>2, <2>1
      <4> QED BY <4>1, <1>5 DEF NoHole
    <3> QED BY <3>1, <3>2, <1>2, <2>1
  <2> QED BY <2>2, <2>3, <1>5
<1>9. Disk!PromisesKept' /\ Disk!ReplayableAfterCrash'
  BY <1>3, <1>4, <1>6 DEF Disk!PromisesKept, Disk!ReplayableAfterCrash
<1>10. StoredIsPrefix'
  BY <1>3, <1>4, PrefixesKept
<1>11. OperationsUnderWay' /\ MemoryIsStored'
  BY <1>3, <1>4 DEF OperationsUnderWay, MemoryIsStored, Disk!IdleWorker, Disk!Idle, Disk!Fresh
<1> QED BY <1>7, <1>8, <1>9, <1>10, <1>11

(* A step that removes from the log only entries below a bound that the    *)
(* applied state covers, or entries that the cluster did not commit and    *)
(* everything after them, and that leaves the rest of the disk alone.      *)
LEMMA RemovalKeeps ==
  ASSUME StorageInv, NEW keep \in SUBSET Disk!Indexes,
         disk' = [disk EXCEPT !.log = Disk!Restricted(disk.log, keep)],
         UNCHANGED <<mem, chosen, counted, told>>,
         \A i \in DOMAIN disk.log \ keep : i <= disk.state.applied \/ (i > disk.committed /\ ~Disk!Matches(disk, i)),
         \A i \in DOMAIN disk.log \cap keep : \A k \in disk.purged + 1 .. i : k \in keep,
         phase' = "up" /\ phase # "down",
         OperationsUnderWay'
  PROVE  StorageInv'
<1> USE DEF StorageInv
<1>1. /\ disk'.log = Disk!Restricted(disk.log, keep)
      /\ disk'.vote = disk.vote /\ disk'.committed = disk.committed /\ disk'.purged = disk.purged
      /\ disk'.state = disk.state /\ disk'.snapshot = disk.snapshot
      /\ disk' = [log |-> disk'.log, vote |-> disk'.vote, committed |-> disk'.committed, purged |-> disk'.purged,
                  state |-> disk'.state, snapshot |-> disk'.snapshot]
  BY DEF StorageTyped, DiskTyped
<1>2. /\ DOMAIN disk'.log = DOMAIN disk.log \cap keep
      /\ \A i \in DOMAIN disk'.log : disk'.log[i] = disk.log[i]
  BY <1>1 DEF Disk!Restricted
<1>3. \A i \in Nat : i > disk.state.applied /\ Disk!Matches(disk, i) /\ (i <= disk.committed \/ i \in counted)
                       => Disk!Matches(disk, i)'
  <2> SUFFICES ASSUME NEW i \in Nat, i > disk.state.applied, Disk!Matches(disk, i)
               PROVE  Disk!Matches(disk, i)'
    OBVIOUS
  <2>1. i \in DOMAIN disk'.log
    BY <1>2 DEF Disk!Matches, StorageTyped, DiskTyped
  <2> QED BY <2>1, <1>2 DEF Disk!Matches
<1>4. StorageTyped'
  BY <1>1, <1>2 DEF StorageTyped, DiskTyped
<1>5. Disk!PromisesKept'
  <2>1. \A i \in counted : i <= disk.state.applied \/ (i > disk.state.applied /\ Disk!Matches(disk, i))
    BY DEF Disk!PromisesKept, StorageTyped, DiskTyped
  <2> QED BY <2>1, <1>1, <1>3 DEF Disk!PromisesKept, StorageTyped
<1>6. Disk!ReplayableAfterCrash'
  <2>1. \A i \in disk.state.applied + 1 .. disk.committed : i \in Nat /\ i > disk.state.applied /\ Disk!Matches(disk, i)
    BY DEF Disk!ReplayableAfterCrash, StorageTyped, DiskTyped
  <2> QED BY <2>1, <1>1, <1>3 DEF Disk!ReplayableAfterCrash, StorageTyped, DiskTyped
<1>7. NoHole'
  BY <1>1, <1>2 DEF NoHole
<1>8. StoredIsPrefix'
  BY <1>1, PrefixesKept
<1>9. MemoryIsStored'
  BY <1>1 DEF MemoryIsStored
<1> QED BY <1>4, <1>5, <1>6, <1>7, <1>8, <1>9

LEMMA TruncateKeeps ==
  ASSUME StorageInv, NEW i \in Disk!Indexes, Disk!Truncate(i)
  PROVE  StorageInv'
<1> DEFINE keep == {j \in Disk!Indexes : j < i}
<1> USE DEF StorageInv
<1>1. /\ disk' = [disk EXCEPT !.log = Disk!Restricted(disk.log, keep)]
      /\ phase = "up" /\ UNCHANGED <<mem, phase, core, worker, chosen, counted, told>>
      /\ i > disk.committed
      /\ \A j \in DOMAIN disk.log : j >= i => ~Disk!Matches(disk, j)
  BY DEF Disk!Truncate, Disk!Truncated, Disk!cluster
<1>2. DOMAIN disk.log \subseteq Disk!Indexes /\ Disk!Indexes \subseteq Nat /\ i \in Nat
       /\ disk.committed \in Nat /\ disk.purged \in Nat /\ disk.state.applied \in Nat
  BY DEF StorageTyped, DiskTyped, Disk!Indexes
<1>3. \A j \in DOMAIN disk.log \ keep : j > disk.committed /\ ~Disk!Matches(disk, j)
  BY <1>1, <1>2
<1>4. \A j \in DOMAIN disk.log \cap keep : \A k \in disk.purged + 1 .. j : k \in keep
  BY <1>2, BoundsAssumption DEF Disk!StorageConstants, Disk!Indexes
<1>5. OperationsUnderWay'
  <2>1. disk'.purged = disk.purged /\ disk'.state = disk.state
    BY <1>1 DEF StorageTyped, DiskTyped
  <2> QED BY <1>1, <2>1 DEF OperationsUnderWay, Disk!IdleWorker, Disk!Idle, Disk!Fresh
<1>6. keep \in SUBSET Disk!Indexes
  OBVIOUS
<1> HIDE DEF keep
<1> QED BY <1>1, <1>3, <1>4, <1>5, <1>6, RemovalKeeps

LEMMA PurgeDeleteKeeps ==
  ASSUME StorageInv, Disk!PurgeDelete
  PROVE  StorageInv'
<1> DEFINE keep == {j \in Disk!Indexes : j > core.upto}
<1> USE DEF StorageInv
<1>1. /\ disk' = [disk EXCEPT !.log = Disk!Restricted(disk.log, keep)]
      /\ phase # "down" /\ phase' = "up" /\ core' = Disk!Idle
      /\ UNCHANGED <<mem, worker, chosen, counted, told>>
  BY DEF Disk!PurgeDelete, Disk!cluster
<1>2. core.upto = disk.purged
  BY DEF Disk!PurgeDelete, OperationsUnderWay, Disk!Idle
<1>3. DOMAIN disk.log \subseteq Disk!Indexes /\ Disk!Indexes \subseteq Nat
       /\ disk.purged \in Nat /\ disk.state.applied \in Nat /\ disk.purged <= disk.state.applied
  BY DEF StorageTyped, DiskTyped, Disk!Indexes, Disk!ReplayableAfterCrash
<1>0. \A j \in Disk!Indexes : j \in keep <=> j > disk.purged
  BY <1>2
<1>7. keep \in SUBSET Disk!Indexes
  OBVIOUS
<1> HIDE DEF keep
<1>4. \A j \in DOMAIN disk.log \ keep : j <= disk.state.applied
  <2> SUFFICES ASSUME NEW j \in Disk!Indexes, j \notin keep PROVE j <= disk.state.applied
    BY <1>3
  <2>1. j \in Nat /\ ~(j > disk.purged)
    BY <1>0, <1>3
  <2> QED BY <2>1, <1>3
<1>5. \A j \in DOMAIN disk.log \cap keep : \A k \in disk.purged + 1 .. j : k \in keep
  BY <1>0, <1>3, BoundsAssumption DEF Disk!StorageConstants, Disk!Indexes
<1>6. OperationsUnderWay'
  <2>1. disk'.purged = disk.purged /\ disk'.state = disk.state
    BY <1>1 DEF StorageTyped, DiskTyped
  <2> QED BY <1>1, <2>1 DEF OperationsUnderWay, Disk!IdleWorker, Disk!Idle, Disk!Fresh
<1> QED BY <1>1, <1>4, <1>5, <1>6, <1>7, RemovalKeeps

(* A step that writes the vote, the committed or the purged id, and leaves *)
(* log, state and snapshot alone.                                          *)
LEMMA MetadataKeeps ==
  ASSUME StorageInv,
         NEW vote \in Nat, NEW committed \in Nat, NEW purged \in Nat,
         disk' = [log |-> disk.log, vote |-> vote, committed |-> committed, purged |-> purged,
                  state |-> disk.state, snapshot |-> disk.snapshot],
         UNCHANGED <<mem, chosen, counted>>,
         told' \in Nat, told' <= vote,
         purged >= disk.purged, purged <= disk.state.applied,
         \A i \in disk.state.applied + 1 .. committed : Disk!Matches(disk, i),
         phase' \in {"replayed", "up"}, phase # "down",
         OperationsUnderWay'
  PROVE  StorageInv'
<1> USE DEF StorageInv
<1>1. /\ disk'.vote = vote /\ disk'.committed = committed /\ disk'.purged = purged
      /\ disk'.log = disk.log /\ disk'.state = disk.state /\ disk'.snapshot = disk.snapshot
      /\ disk' = [log |-> disk'.log, vote |-> disk'.vote, committed |-> disk'.committed, purged |-> disk'.purged,
                  state |-> disk'.state, snapshot |-> disk'.snapshot]
  BY DEF StorageTyped, DiskTyped
<1>2. \A i : Disk!Matches(disk, i)' <=> Disk!Matches(disk, i)
  BY <1>1 DEF Disk!Matches
<1>3. StorageTyped'
  BY <1>1 DEF StorageTyped, DiskTyped
<1>4. Disk!PromisesKept'
  BY <1>1, <1>2 DEF Disk!PromisesKept
<1>5. Disk!ReplayableAfterCrash'
  BY <1>1, <1>2 DEF Disk!ReplayableAfterCrash
<1>6. NoHole'
  BY <1>1 DEF NoHole, StorageTyped, DiskTyped, Disk!Indexes
<1>7. StoredIsPrefix'
  BY <1>1, PrefixesKept
<1>8. MemoryIsStored'
  BY <1>1 DEF MemoryIsStored
<1> QED BY <1>3, <1>4, <1>5, <1>6, <1>7, <1>8

LEMMA SaveVoteKeeps ==
  ASSUME StorageInv, NEW v \in 1 .. MaxVote, Disk!SaveVote(v)
  PROVE  StorageInv'
<1> USE DEF StorageInv
<1>1. /\ disk' = [disk EXCEPT !.vote = v] /\ told' = v
      /\ phase = "up" /\ UNCHANGED <<mem, phase, core, worker, chosen, counted>>
  BY DEF Disk!SaveVote
<1>2. /\ v \in Nat /\ disk.committed \in Nat /\ disk.purged \in Nat
      /\ disk' = [log |-> disk.log, vote |-> v, committed |-> disk.committed, purged |-> disk.purged,
                  state |-> disk.state, snapshot |-> disk.snapshot]
      /\ disk'.purged = disk.purged /\ disk'.state = disk.state
  BY <1>1 DEF StorageTyped, DiskTyped
<1>3. OperationsUnderWay'
  BY <1>1, <1>2 DEF OperationsUnderWay
<1>4. /\ disk.purged >= disk.purged /\ disk.purged <= disk.state.applied /\ v <= v
      /\ \A i \in disk.state.applied + 1 .. disk.committed : Disk!Matches(disk, i)
  BY <1>2 DEF Disk!ReplayableAfterCrash
<1> QED BY <1>1, <1>2, <1>3, <1>4, MetadataKeeps

LEMMA SaveCommittedKeeps ==
  ASSUME StorageInv, NEW i \in Disk!Indexes, Disk!SaveCommitted(i)
  PROVE  StorageInv'
<1> USE DEF StorageInv
<1>1. /\ disk' = [disk EXCEPT !.committed = i]
      /\ phase = "up" /\ UNCHANGED <<mem, phase, core, worker, chosen, counted, told>>
  BY DEF Disk!SaveCommitted, Disk!cluster
<1>2. /\ i \in Nat /\ disk.vote \in Nat /\ disk.purged \in Nat /\ told \in Nat /\ told <= disk.vote
      /\ disk' = [log |-> disk.log, vote |-> disk.vote, committed |-> i, purged |-> disk.purged,
                  state |-> disk.state, snapshot |-> disk.snapshot]
      /\ disk'.purged = disk.purged /\ disk'.state = disk.state
  BY <1>1 DEF StorageTyped, DiskTyped, Disk!Indexes, Disk!PromisesKept
<1>3. OperationsUnderWay'
  BY <1>1, <1>2 DEF OperationsUnderWay
<1>4. /\ disk.purged >= disk.purged /\ disk.purged <= disk.state.applied
      /\ \A j \in disk.state.applied + 1 .. i : Disk!Matches(disk, j)
  BY <1>1, <1>2 DEF Disk!ReplayableAfterCrash, Disk!SaveCommitted, MemoryIsStored
<1> QED BY <1>1, <1>2, <1>3, <1>4, MetadataKeeps

LEMMA PurgeMarkKeeps ==
  ASSUME StorageInv, NEW i \in Disk!Indexes, Disk!PurgeMark(i)
  PROVE  StorageInv'
<1> USE DEF StorageInv
<1>1. /\ disk' = [disk EXCEPT !.purged = i] /\ core' = [at |-> "purge", upto |-> i]
      /\ phase = "up" /\ UNCHANGED <<mem, phase, worker, chosen, counted, told>>
  BY DEF Disk!PurgeMark, Disk!cluster
<1>2. /\ i \in Nat /\ disk.vote \in Nat /\ disk.committed \in Nat /\ told \in Nat /\ told <= disk.vote
      /\ disk' = [log |-> disk.log, vote |-> disk.vote, committed |-> disk.committed, purged |-> i,
                  state |-> disk.state, snapshot |-> disk.snapshot]
      /\ disk'.purged = i /\ disk'.state = disk.state
  BY <1>1 DEF StorageTyped, DiskTyped, Disk!Indexes, Disk!PromisesKept
<1>3. OperationsUnderWay'
  BY <1>1, <1>2 DEF OperationsUnderWay
<1>4. /\ i >= disk.purged /\ i <= disk.state.applied
      /\ \A j \in disk.state.applied + 1 .. disk.committed : Disk!Matches(disk, j)
  BY <1>1, <1>2 DEF Disk!ReplayableAfterCrash, Disk!PurgeMark, MemoryIsStored, StorageTyped, DiskTyped
<1> QED BY <1>1, <1>2, <1>3, <1>4, MetadataKeeps

LEMMA CleanHoleKeeps ==
  ASSUME StorageInv, Disk!CleanHole
  PROVE  StorageInv'
<1> USE DEF StorageInv
<1>1. /\ phase = "replayed" /\ UNCHANGED <<mem, worker, chosen, counted, told>>
      /\ mem.persist = disk.state
  BY DEF Disk!CleanHole, Disk!cluster, MemoryIsStored
<1>2. CASE Disk!LastIndex(disk) < mem.persist.applied
  <2> DEFINE i == disk.state.applied
  <2>1. /\ disk' = [disk EXCEPT !.purged = i] /\ core' = [at |-> "purge", upto |-> i] /\ phase' = phase
    BY <1>1, <1>2 DEF Disk!CleanHole
  <2>2. /\ i \in Nat /\ disk.vote \in Nat /\ disk.committed \in Nat /\ told \in Nat /\ told <= disk.vote
        /\ disk' = [log |-> disk.log, vote |-> disk.vote, committed |-> disk.committed, purged |-> i,
                    state |-> disk.state, snapshot |-> disk.snapshot]
        /\ disk'.purged = i /\ disk'.state = disk.state
    BY <2>1 DEF StorageTyped, DiskTyped, Disk!PromisesKept
  <2>3. OperationsUnderWay'
    BY <1>1, <2>1, <2>2 DEF OperationsUnderWay
  <2>4. /\ i >= disk.purged /\ i <= disk.state.applied
        /\ \A j \in disk.state.applied + 1 .. disk.committed : Disk!Matches(disk, j)
    BY <2>2 DEF Disk!ReplayableAfterCrash, StorageTyped, DiskTyped
  <2> QED BY <1>1, <2>1, <2>2, <2>3, <2>4, MetadataKeeps
<1>3. CASE ~(Disk!LastIndex(disk) < mem.persist.applied)
  <2>1. UNCHANGED <<disk, core>> /\ phase' = "up"
    BY <1>3 DEF Disk!CleanHole
  <2> QED BY <1>1, <2>1 DEF StorageTyped, DiskTyped, OperationsUnderWay, MemoryIsStored, StoredIsPrefix,
            Disk!PromisesKept, Disk!ReplayableAfterCrash, NoHole, Disk!Matches, Disk!Replay
<1> QED BY <1>2, <1>3

(* A step that writes a later state, or a snapshot no later than it.       *)
LEMMA StateKeeps ==
  ASSUME StorageInv, NEW s, NEW snap,
         disk' = [log |-> disk.log, vote |-> disk.vote, committed |-> disk.committed, purged |-> disk.purged,
                  state |-> s, snapshot |-> snap],
         mem' = [persist |-> s, snapshot |-> snap],
         UNCHANGED <<chosen, counted, told>>,
         s.applied \in disk.state.applied .. Len(chosen), s = Disk!Replay(s.applied),
         snap.applied \in 0 .. s.applied, snap = Disk!Replay(snap.applied),
         phase' \in {"loaded", "replayed", "up"},
         OperationsUnderWay'
  PROVE  StorageInv'
<1> USE DEF StorageInv
<1>1. /\ disk'.vote = disk.vote /\ disk'.committed = disk.committed /\ disk'.purged = disk.purged
      /\ disk'.log = disk.log /\ disk'.state = s /\ disk'.snapshot = snap
      /\ mem'.persist = s /\ mem'.snapshot = snap
  OBVIOUS
<1>2. \A i : Disk!Matches(disk, i)' <=> Disk!Matches(disk, i)
  BY <1>1 DEF Disk!Matches
<1>3. /\ s.applied \in Nat /\ disk.state.applied \in Nat /\ disk.state.applied <= s.applied
      /\ s.applied <= Len(chosen) /\ Len(chosen) \in Nat
      /\ snap.applied \in Nat /\ snap.applied <= s.applied
  BY DEF StorageTyped, DiskTyped
<1>4. StorageTyped'
  BY <1>1, <1>3 DEF StorageTyped, DiskTyped
<1>5. Disk!PromisesKept'
  BY <1>1, <1>2, <1>3 DEF Disk!PromisesKept, StorageTyped
<1>6. Disk!ReplayableAfterCrash'
  BY <1>1, <1>2, <1>3 DEF Disk!ReplayableAfterCrash, StorageTyped, DiskTyped
<1>7. NoHole'
  BY <1>1 DEF NoHole
<1>8. StoredIsPrefix'
  <2>1. \A n : Disk!Replay(n)' = Disk!Replay(n)
    BY DEF Disk!Replay
  <2> QED BY <1>1, <1>3, <2>1 DEF StoredIsPrefix
<1>9. MemoryIsStored'
  BY <1>1 DEF MemoryIsStored
<1> QED BY <1>4, <1>5, <1>6, <1>7, <1>8, <1>9

(* The committed entries that follow the applied state, applied from the   *)
(* node's log, give what the committed prefix comes to.                    *)
LEMMA AppliedRange ==
  ASSUME StorageInv, NEW to \in Nat, to >= disk.state.applied,
         \A i \in disk.state.applied + 1 .. to : Disk!Matches(disk, i)
  PROVE  /\ Disk!ApplyLog(disk.state, disk.log, disk.state.applied + 1, to) = Disk!Replay(to)
         /\ Disk!Replay(to).applied = to /\ to <= Len(chosen)
<1> DEFINE a == disk.state.applied
<1> USE DEF StorageInv
<1>1. a \in Nat /\ Len(chosen) \in Nat /\ DOMAIN chosen = 1 .. Len(chosen) /\ a <= Len(chosen)
      /\ disk.state = Disk!ApplyLog(Disk!Fresh, chosen, 1, a)
  BY DEF StorageTyped, DiskTyped, StoredIsPrefix, Disk!Replay
<1>2. \A i \in a + 1 .. to : i \in DOMAIN disk.log /\ i \in DOMAIN chosen /\ disk.log[i] = chosen[i]
  BY <1>1 DEF Disk!Matches
<1>3. to <= Len(chosen)
  BY <1>1 DEF Disk!Matches
<1> HIDE DEF a
<1>4. Disk!ApplyLog(Disk!ApplyLog(Disk!Fresh, chosen, 1, a), disk.log, a + 1, to) = Disk!ApplyLog(Disk!Fresh, chosen, 1, to)
  <2>1. 1 \in Nat \ {0} /\ 1 <= a + 1 /\ a <= to
    BY <1>1 DEF a
  <2> QED BY <1>1, <1>2, <2>1, ApplyOnTop
<1>5. 1 .. to \subseteq DOMAIN chosen
  BY <1>1, <1>3
<1> QED BY <1>1, <1>3, <1>4, <1>5, ReplayApplied DEF Disk!Replay, a

LEMMA ApplyKeeps ==
  ASSUME StorageInv, NEW to \in Disk!Indexes, Disk!Apply(to)
  PROVE  StorageInv'
<1> DEFINE s == Disk!Replay(to)
<1> USE DEF StorageInv
<1>1. phase = "up" /\ worker = Disk!IdleWorker /\ UNCHANGED <<phase, core, worker, chosen, counted, told>>
  BY DEF Disk!Apply, Disk!cluster
<1>2. mem = [persist |-> disk.state, snapshot |-> disk.snapshot]
  BY <1>1 DEF MemoryIsStored
<1>3. /\ disk.state.applied \in Nat /\ disk.snapshot.applied \in Nat /\ disk.committed \in Nat /\ to \in Nat
      /\ to > disk.state.applied /\ to <= disk.committed
      /\ disk.snapshot.applied <= disk.state.applied /\ disk.snapshot = Disk!Replay(disk.snapshot.applied)
  BY <1>2 DEF Disk!Apply, StorageTyped, DiskTyped, Disk!ReplayableAfterCrash, StoredIsPrefix, Disk!Indexes
<1>4. \A i \in disk.state.applied + 1 .. to : Disk!Matches(disk, i)
  BY <1>3 DEF Disk!ReplayableAfterCrash
<1>5. /\ Disk!ApplyLog(disk.state, disk.log, disk.state.applied + 1, to) = s
      /\ s.applied = to /\ to <= Len(chosen)
  BY <1>3, <1>4, AppliedRange
<1>6. mem' = [mem EXCEPT !.persist = s] /\ disk' = [disk EXCEPT !.state = s]
  BY <1>2, <1>5 DEF Disk!Apply
<1> HIDE DEF s
<1>7. mem' = [persist |-> s, snapshot |-> disk.snapshot]
  BY <1>2, <1>6
<1>8. disk' = [log |-> disk.log, vote |-> disk.vote, committed |-> disk.committed, purged |-> disk.purged,
               state |-> s, snapshot |-> disk.snapshot]
  BY <1>6 DEF StorageTyped, DiskTyped
<1>9. OperationsUnderWay'
  <2>1. disk'.purged = disk.purged
    BY <1>8
  <2> QED BY <1>1, <2>1 DEF OperationsUnderWay, Disk!IdleWorker, Disk!Idle, Disk!Fresh
<1>10. /\ s.applied \in disk.state.applied .. Len(chosen) /\ s = Disk!Replay(s.applied)
       /\ disk.snapshot.applied \in 0 .. s.applied
  BY <1>3, <1>5 DEF s, StorageTyped
<1> QED BY <1>1, <1>3, <1>7, <1>8, <1>9, <1>10, StateKeeps

LEMMA ReapplyKeeps ==
  ASSUME StorageInv, Disk!Reapply
  PROVE  StorageInv'
<1> DEFINE s == Disk!ApplyLog(disk.state, disk.log, disk.state.applied + 1, disk.committed)
<1> USE DEF StorageInv
<1>1. phase = "loaded" /\ phase' = "replayed" /\ UNCHANGED <<core, worker, chosen, counted, told>>
  BY DEF Disk!Reapply, Disk!cluster
<1>2. mem = [persist |-> disk.state, snapshot |-> disk.snapshot]
  BY <1>1 DEF MemoryIsStored
<1>3. /\ disk.state.applied \in Nat /\ disk.snapshot.applied \in Nat /\ disk.committed \in Nat
      /\ disk.snapshot.applied <= disk.state.applied /\ disk.snapshot = Disk!Replay(disk.snapshot.applied)
      /\ disk.state.applied <= Len(chosen) /\ disk.state = Disk!Replay(disk.state.applied)
      /\ Len(chosen) \in Nat
      /\ \A i \in disk.state.applied + 1 .. disk.committed : Disk!Matches(disk, i)
  BY DEF StorageTyped, DiskTyped, Disk!ReplayableAfterCrash, StoredIsPrefix
<1>4. mem' = [mem EXCEPT !.persist = s] /\ disk' = [disk EXCEPT !.state = s]
  BY <1>2 DEF Disk!Reapply
<1>5. s.applied \in disk.state.applied .. Len(chosen) /\ s = Disk!Replay(s.applied)
  <2>1. CASE disk.committed >= disk.state.applied
    BY <1>3, <2>1, AppliedRange
  <2>2. CASE disk.committed < disk.state.applied
    <3>1. disk.state.applied + 1 \in Nat \ {0} /\ disk.committed < disk.state.applied + 1
      BY <1>3, <2>2
    <3>2. s = disk.state
      BY <1>3, <3>1, ApplyNone
    <3> HIDE DEF s
    <3> QED BY <3>2, <1>3
  <2> QED BY <2>1, <2>2, <1>3
<1> HIDE DEF s
<1>7. mem' = [persist |-> s, snapshot |-> disk.snapshot]
  BY <1>2, <1>4
<1>8. disk' = [log |-> disk.log, vote |-> disk.vote, committed |-> disk.committed, purged |-> disk.purged,
               state |-> s, snapshot |-> disk.snapshot]
  BY <1>4 DEF StorageTyped, DiskTyped
<1>9. OperationsUnderWay'
  <2>1. disk'.purged = disk.purged
    BY <1>8
  <2> QED BY <1>1, <2>1 DEF OperationsUnderWay, Disk!IdleWorker, Disk!Idle, Disk!Fresh
<1>10. disk.snapshot.applied \in 0 .. s.applied
  BY <1>3, <1>5
<1> QED BY <1>1, <1>3, <1>5, <1>7, <1>8, <1>9, <1>10, StateKeeps

LEMMA BuildSnapshotKeeps ==
  ASSUME StorageInv, Disk!BuildSnapshot
  PROVE  StorageInv'
<1> USE DEF StorageInv
<1>1. phase = "up" /\ worker = Disk!IdleWorker /\ UNCHANGED <<phase, core, worker, chosen, counted, told>>
  BY DEF Disk!BuildSnapshot, Disk!cluster
<1>2. mem = [persist |-> disk.state, snapshot |-> disk.snapshot]
  BY <1>1 DEF MemoryIsStored
<1>3. /\ disk.state.applied \in Nat /\ disk.state = Disk!Replay(disk.state.applied)
      /\ disk.state.applied <= Len(chosen) /\ Len(chosen) \in Nat
  BY DEF StorageTyped, DiskTyped, StoredIsPrefix
<1>4. mem' = [persist |-> disk.state, snapshot |-> disk.state]
  BY <1>2 DEF Disk!BuildSnapshot
<1>5. disk' = [log |-> disk.log, vote |-> disk.vote, committed |-> disk.committed, purged |-> disk.purged,
               state |-> disk.state, snapshot |-> disk.state]
  BY <1>2 DEF Disk!BuildSnapshot, StorageTyped, DiskTyped
<1>6. OperationsUnderWay'
  <2>1. disk'.purged = disk.purged
    BY <1>5
  <2> QED BY <1>1, <2>1 DEF OperationsUnderWay, Disk!IdleWorker, Disk!Idle, Disk!Fresh
<1>7. disk.state.applied \in disk.state.applied .. Len(chosen) /\ disk.state.applied \in 0 .. disk.state.applied
  BY <1>3
<1> QED BY <1>1, <1>3, <1>4, <1>5, <1>6, <1>7, StateKeeps

LEMMA InstallStateKeeps ==
  ASSUME StorageInv, NEW n \in Disk!Indexes, Disk!InstallState(n)
  PROVE  StorageInv'
<1> DEFINE s == Disk!Replay(n)
<1> USE DEF StorageInv
<1>1. phase = "up" /\ core = Disk!Idle /\ UNCHANGED <<phase, core, chosen, counted, told>>
  BY DEF Disk!InstallState, Disk!cluster
<1>2. mem = [persist |-> disk.state, snapshot |-> disk.snapshot]
  BY <1>1 DEF MemoryIsStored
<1>3. /\ disk.state.applied \in Nat /\ disk.snapshot.applied \in Nat /\ n \in Nat /\ Len(chosen) \in Nat
      /\ disk.snapshot.applied <= disk.state.applied /\ disk.snapshot = Disk!Replay(disk.snapshot.applied)
      /\ n > disk.state.applied /\ n <= Len(chosen)
      /\ DOMAIN chosen = 1 .. Len(chosen)
  BY <1>2 DEF Disk!InstallState, StorageTyped, DiskTyped, Disk!ReplayableAfterCrash, StoredIsPrefix, Disk!Indexes
<1>4. s.applied = n
  <2>1. 1 .. n \subseteq DOMAIN chosen
    BY <1>3
  <2> QED BY <1>3, <2>1, ReplayApplied DEF Disk!Replay
<1>5. /\ mem' = [mem EXCEPT !.persist = s] /\ disk' = [disk EXCEPT !.state = s]
      /\ worker' = [at |-> "install", snap |-> s]
  BY DEF Disk!InstallState
<1>6. s = Disk!Replay(s.applied)
  BY <1>4
<1> HIDE DEF s
<1>7. mem' = [persist |-> s, snapshot |-> disk.snapshot]
  BY <1>2, <1>5
<1>8. disk' = [log |-> disk.log, vote |-> disk.vote, committed |-> disk.committed, purged |-> disk.purged,
               state |-> s, snapshot |-> disk.snapshot]
  BY <1>5 DEF StorageTyped, DiskTyped
<1>9. OperationsUnderWay'
  <2>1. disk'.purged = disk.purged /\ disk'.state = s
    BY <1>8
  <2> QED BY <1>1, <1>5, <2>1 DEF OperationsUnderWay
<1>10. s.applied \in disk.state.applied .. Len(chosen) /\ disk.snapshot.applied \in 0 .. s.applied
  BY <1>3, <1>4
<1> QED BY <1>1, <1>3, <1>6, <1>7, <1>8, <1>9, <1>10, StateKeeps

LEMMA InstallSnapshotKeeps ==
  ASSUME StorageInv, Disk!InstallSnapshot
  PROVE  StorageInv'
<1> USE DEF StorageInv
<1>1. phase = "up" /\ worker' = Disk!IdleWorker /\ UNCHANGED <<phase, core, chosen, counted, told>>
      /\ worker.snap = disk.state
  BY DEF Disk!InstallSnapshot, Disk!cluster, OperationsUnderWay, Disk!IdleWorker
<1>2. mem = [persist |-> disk.state, snapshot |-> disk.snapshot]
  BY <1>1 DEF MemoryIsStored
<1>3. /\ disk.state.applied \in Nat /\ disk.state = Disk!Replay(disk.state.applied)
      /\ disk.state.applied <= Len(chosen) /\ Len(chosen) \in Nat
  BY DEF StorageTyped, DiskTyped, StoredIsPrefix
<1>4. mem' = [persist |-> disk.state, snapshot |-> disk.state]
  BY <1>1, <1>2 DEF Disk!InstallSnapshot
<1>5. disk' = [log |-> disk.log, vote |-> disk.vote, committed |-> disk.committed, purged |-> disk.purged,
               state |-> disk.state, snapshot |-> disk.state]
  BY <1>1 DEF Disk!InstallSnapshot, StorageTyped, DiskTyped
<1>6. OperationsUnderWay'
  <2>1. disk'.purged = disk.purged
    BY <1>5
  <2> QED BY <1>1, <2>1 DEF OperationsUnderWay
<1>7. disk.state.applied \in disk.state.applied .. Len(chosen) /\ disk.state.applied \in 0 .. disk.state.applied
  BY <1>3
<1> QED BY <1>1, <1>3, <1>4, <1>5, <1>6, <1>7, StateKeeps

(* A crash leaves the disk; a restart reads it.                            *)
LEMMA CrashRestartKeeps ==
  ASSUME StorageInv, Disk!Crash \/ Disk!Restart
  PROVE  StorageInv'
<1> USE DEF StorageInv
<1>1. /\ UNCHANGED <<disk, chosen, counted, told>>
      /\ mem' = mem \/ mem' = [persist |-> disk.state, snapshot |-> disk.snapshot]
      /\ phase' = "down" \/ (phase' = "loaded" /\ mem' = [persist |-> disk.state, snapshot |-> disk.snapshot])
  BY DEF Disk!Crash, Disk!Restart, Disk!cluster
<1>2. StorageTyped'
  <2>1. mem' = [persist |-> mem'.persist, snapshot |-> mem'.snapshot]
    BY <1>1 DEF StorageTyped
  <2> QED BY <1>1, <2>1 DEF StorageTyped, DiskTyped
<1>3. OperationsUnderWay'
  <2>1. CASE Disk!Crash
    BY <1>1, <2>1 DEF Disk!Crash, OperationsUnderWay
  <2>2. CASE Disk!Restart
    BY <1>1, <2>2 DEF Disk!Restart, OperationsUnderWay
  <2> QED BY <2>1, <2>2
<1>4. StoredIsPrefix' /\ Disk!PromisesKept' /\ Disk!ReplayableAfterCrash' /\ NoHole' /\ MemoryIsStored'
  BY <1>1 DEF StoredIsPrefix, Disk!Replay, Disk!PromisesKept, Disk!ReplayableAfterCrash, NoHole, Disk!Matches, MemoryIsStored
<1> QED BY <1>2, <1>3, <1>4

LEMMA StorageInvStep == StorageInv /\ [Disk!Next]_Disk!vars => StorageInv'
<1> SUFFICES ASSUME StorageInv, [Disk!Next]_Disk!vars PROVE StorageInv'
  OBVIOUS
<1>1. CASE UNCHANGED Disk!vars
  BY <1>1 DEF Disk!vars, StorageInv, StorageTyped, DiskTyped, OperationsUnderWay, MemoryIsStored, StoredIsPrefix,
              Disk!PromisesKept, Disk!ReplayableAfterCrash, NoHole, Disk!Matches, Disk!Replay
<1>2. CASE \E p \in Disk!Payloads : Disk!Choose(p)
  BY <1>2, ChooseKeeps
<1>3. CASE \E ps \in Disk!Batches : Disk!AppendEntries(ps)
  BY <1>3, AppendKeeps
<1>4. CASE \E i \in Disk!Indexes : Disk!Truncate(i) \/ Disk!SaveCommitted(i) \/ Disk!PurgeMark(i) \/ Disk!Apply(i) \/ Disk!InstallState(i)
  BY <1>4, TruncateKeeps, SaveCommittedKeeps, PurgeMarkKeeps, ApplyKeeps, InstallStateKeeps
<1>5. CASE \E v \in 1 .. MaxVote : Disk!SaveVote(v)
  BY <1>5, SaveVoteKeeps
<1>6. CASE Disk!PurgeDelete \/ Disk!BuildSnapshot \/ Disk!InstallSnapshot \/ Disk!Reapply \/ Disk!CleanHole
  BY <1>6, PurgeDeleteKeeps, BuildSnapshotKeeps, InstallSnapshotKeeps, ReapplyKeeps, CleanHoleKeeps
<1>7. CASE Disk!Crash \/ Disk!Restart
  BY <1>7, CrashRestartKeeps
<1> QED BY <1>1, <1>2, <1>3, <1>4, <1>5, <1>6, <1>7 DEF Disk!Next

(* redbstore.rs: wherever a crash falls, between the two transactions of   *)
(* a purge or of an install_snapshot included, the answered promises are   *)
(* on disk, state and snapshot are what the committed prefixes they name   *)
(* come to, a restart finds what it has to apply again, and the log has no *)
(* hole above the purged id.                                               *)
THEOREM StorageCrashSafe == Disk!Spec => []CrashSafe
<1>1. Disk!Spec => []StorageInv
  BY StorageInvInit, StorageInvStep, PTL DEF Disk!Spec
<1>2. StorageInv => CrashSafe
  BY StorageInvEnough DEF CrashSafe
<1> QED BY <1>1, <1>2, PTL

(* No step of the storage, a crash and a restart included, takes the vote, *)
(* the committed id, the purged id, the applied state or the snapshot on   *)
(* disk back to an earlier one.                                            *)
NeverBack ==
  /\ disk'.vote >= disk.vote /\ disk'.committed >= disk.committed /\ disk'.purged >= disk.purged
  /\ disk'.state.applied >= disk.state.applied /\ disk'.snapshot.applied >= disk.snapshot.applied

LEMMA StepsNeverBack == StorageInv /\ [Disk!Next]_Disk!vars => NeverBack
<1> SUFFICES ASSUME StorageInv, [Disk!Next]_Disk!vars PROVE NeverBack
  OBVIOUS
<1> USE DEF NeverBack
<1>1. /\ disk = [log |-> disk.log, vote |-> disk.vote, committed |-> disk.committed, purged |-> disk.purged,
                 state |-> disk.state, snapshot |-> disk.snapshot]
      /\ disk.vote \in Nat /\ disk.committed \in Nat /\ disk.purged \in Nat
      /\ disk.state.applied \in Nat /\ disk.snapshot.applied \in Nat
      /\ disk.snapshot.applied <= disk.state.applied /\ disk.purged <= disk.state.applied
  BY DEF StorageInv, StorageTyped, DiskTyped, Disk!ReplayableAfterCrash
<1>2. phase # "down" => mem.persist = disk.state /\ mem.snapshot = disk.snapshot
  BY DEF StorageInv, MemoryIsStored
<1>3. /\ Len(chosen) \in Nat /\ DOMAIN chosen = 1 .. Len(chosen) /\ disk.state.applied <= Len(chosen)
  BY DEF StorageInv, StorageTyped, StoredIsPrefix
<1>4. CASE disk' = disk
  BY <1>1, <1>4
<1>5. CASE \E log : disk' = [disk EXCEPT !.log = log]
  BY <1>1, <1>5
<1>6. CASE \E v \in 1 .. MaxVote : Disk!SaveVote(v)
  BY <1>1, <1>6 DEF Disk!SaveVote
<1>7. CASE \E i \in Disk!Indexes : Disk!SaveCommitted(i)
  BY <1>1, <1>7 DEF Disk!SaveCommitted, Disk!Indexes
<1>8. CASE \E i \in Disk!Indexes : Disk!PurgeMark(i)
  BY <1>1, <1>8 DEF Disk!PurgeMark, Disk!Indexes
<1>9. CASE \E to \in Disk!Indexes : Disk!Apply(to)
  <2> PICK to \in Disk!Indexes : Disk!Apply(to)
    BY <1>9
  <2>1. /\ to \in Nat /\ to > disk.state.applied /\ to <= disk.committed
        /\ disk' = [disk EXCEPT !.state = Disk!ApplyLog(disk.state, disk.log, disk.state.applied + 1, to)]
    BY <1>2 DEF Disk!Apply, Disk!Indexes
  <2>2. \A i \in disk.state.applied + 1 .. to : Disk!Matches(disk, i)
    BY <1>1, <2>1 DEF StorageInv, Disk!ReplayableAfterCrash
  <2>3. Disk!ApplyLog(disk.state, disk.log, disk.state.applied + 1, to).applied = to
    BY <1>1, <2>1, <2>2, AppliedRange
  <2> QED BY <1>1, <2>1, <2>3
<1>10. CASE \E n \in Disk!Indexes : Disk!InstallState(n)
  <2> PICK n \in Disk!Indexes : Disk!InstallState(n)
    BY <1>10
  <2>1. /\ n \in Nat /\ n > disk.state.applied /\ n <= Len(chosen)
        /\ disk' = [disk EXCEPT !.state = Disk!Replay(n)]
    BY <1>1, <1>2, <1>3 DEF Disk!InstallState, Disk!Indexes
  <2>2. Disk!Replay(n).applied = n
    <3>1. 1 .. n \subseteq DOMAIN chosen
      BY <1>3, <2>1
    <3> QED BY <2>1, <3>1, ReplayApplied DEF Disk!Replay
  <2> QED BY <1>1, <2>1, <2>2
<1>11. CASE Disk!BuildSnapshot \/ Disk!InstallSnapshot
  <2>1. disk' = [disk EXCEPT !.snapshot = disk.state]
    BY <1>2, <1>11 DEF Disk!BuildSnapshot, Disk!InstallSnapshot, StorageInv, OperationsUnderWay, Disk!IdleWorker
  <2> QED BY <1>1, <2>1
<1>12. CASE Disk!Reapply
  <2>1. disk' = [disk EXCEPT !.state = Disk!ApplyLog(disk.state, disk.log, disk.state.applied + 1, disk.committed)]
    BY <1>2, <1>12 DEF Disk!Reapply
  <2>2. CASE disk.committed >= disk.state.applied
    <3>1. Disk!ApplyLog(disk.state, disk.log, disk.state.applied + 1, disk.committed).applied = disk.committed
      BY <1>1, <2>2, AppliedRange DEF StorageInv, Disk!ReplayableAfterCrash
    <3> QED BY <1>1, <2>1, <2>2, <3>1
  <2>3. CASE disk.committed < disk.state.applied
    <3>1. disk.state.applied + 1 \in Nat \ {0} /\ disk.committed < disk.state.applied + 1
      BY <1>1, <2>3
    <3>2. Disk!ApplyLog(disk.state, disk.log, disk.state.applied + 1, disk.committed) = disk.state
      BY <1>1, <3>1, ApplyNone
    <3> QED BY <1>1, <2>1, <3>2
  <2> QED BY <1>1, <2>2, <2>3
<1>13. CASE Disk!CleanHole
  <2>1. disk' = disk \/ disk' = [disk EXCEPT !.purged = disk.state.applied]
    BY <1>2, <1>13 DEF Disk!CleanHole
  <2> QED BY <1>1, <2>1
<1>14. CASE \E ps \in Disk!Batches : Disk!AppendEntries(ps)
  BY <1>5, <1>14 DEF Disk!AppendEntries
<1>15. CASE (\E i \in Disk!Indexes : Disk!Truncate(i)) \/ Disk!PurgeDelete
  BY <1>5, <1>15 DEF Disk!Truncate, Disk!PurgeDelete
<1>16. CASE (\E p \in Disk!Payloads : Disk!Choose(p)) \/ Disk!Crash \/ Disk!Restart \/ UNCHANGED Disk!vars
  BY <1>4, <1>16 DEF Disk!Choose, Disk!Crash, Disk!Restart, Disk!vars
<1> QED
  BY <1>6, <1>7, <1>8, <1>9, <1>10, <1>11, <1>12, <1>13, <1>14, <1>15, <1>16 DEF Disk!Next

(* NeverBack, of every step.                                               *)
THEOREM StorageForward == Disk!Spec => [][NeverBack]_Disk!vars
<1>1. Disk!Spec => []StorageInv
  BY StorageInvInit, StorageInvStep, PTL DEF Disk!Spec
<1> QED BY <1>1, StepsNeverBack, PTL DEF Disk!Spec

-----------------------------------------------------------------------------
(***************************************************************************)
(* How a request finds the head (ClusterRouting), with any nodes, peer   *)
(* maps, tokens, elections and changes of membership.                      *)
(***************************************************************************)
(* A request that is open has not been committed, and only a write that    *)
(* was answered with ok or whose connection broke can have been.           *)
TaskTyped == task = [kind |-> task.kind, home |-> task.home, at |-> task.at, result |-> task.result]

OnlyWrites ==
  /\ commits = 0 \/ (commits = 1 /\ task.kind = "write" /\ (task.result = "ok" \/ task.result = "broken"))
  /\ task.kind = "write" /\ task.result = "ok" => commits = 1

CommitsSettled == TaskTyped /\ OnlyWrites

(* Answering changes the result alone.                                     *)
LEMMA AnswerOnly ==
  ASSUME CommitsSettled, NEW result, Routing!Answer(result)
  PROVE  TaskTyped' /\ task'.kind = task.kind /\ task'.result = result
BY DEF CommitsSettled, TaskTyped, Routing!Answer

(* Forwarding ends in an error of its own, or in a hop that commits        *)
(* nothing.                                                                *)
LEMMA ForwardingOnly ==
  ASSUME CommitsSettled, task.result = "open", NEW n, Routing!Forwarding(n)
  PROVE  CommitsSettled'
<1>1. commits = 0 /\ commits' = 0
  BY DEF CommitsSettled, OnlyWrites, Routing!Forwarding
<1>2. CASE Routing!Answer("no_leader") \/ Routing!Answer("no_address") \/ Routing!Answer("unauthorized")
  BY <1>1, <1>2, AnswerOnly DEF CommitsSettled, OnlyWrites
<1>3. CASE task' = [task EXCEPT !.at = view[n]]
  BY <1>1, <1>3 DEF CommitsSettled, TaskTyped, OnlyWrites
<1> QED BY <1>2, <1>3 DEF Routing!Forwarding

LEMMA CommitsSettledStep == CommitsSettled /\ [Routing!Next]_Routing!vars => CommitsSettled'
<1> SUFFICES ASSUME CommitsSettled, [Routing!Next]_Routing!vars PROVE CommitsSettled'
  OBVIOUS
<1>1. CASE UNCHANGED <<task, commits>>
  BY <1>1 DEF CommitsSettled, TaskTyped, OnlyWrites
<1>2. CASE \E n \in Peers, kind \in {"write", "read"} : Routing!Ask(kind, n)
  BY <1>2 DEF Routing!Ask, CommitsSettled, TaskTyped, OnlyWrites
<1>3. CASE Routing!Write
  <2>1. task.result = "open" /\ task.kind = "write" /\ commits = 0
    BY <1>3 DEF Routing!Write, CommitsSettled, OnlyWrites
  <2>2. CASE Routing!Answer("ok") /\ commits' = commits + 1
    BY <2>1, <2>2, AnswerOnly DEF CommitsSettled, OnlyWrites
  <2>3. CASE Routing!Forwarding(task.at)
    BY <2>1, <2>3, ForwardingOnly
  <2>4. CASE Routing!Answer("not_leader") /\ UNCHANGED commits
    BY <2>1, <2>4, AnswerOnly DEF CommitsSettled, OnlyWrites
  <2> QED BY <1>3, <2>2, <2>3, <2>4 DEF Routing!Write
<1>4. CASE Routing!ReadLinear
  <2>1. task.result = "open" /\ task.kind = "read" /\ commits = 0
    BY <1>4 DEF Routing!ReadLinear, CommitsSettled, OnlyWrites
  <2>2. CASE Routing!Answer("ok") /\ UNCHANGED commits
    BY <2>1, <2>2, AnswerOnly DEF CommitsSettled, OnlyWrites
  <2>3. CASE Routing!Forwarding(task.at)
    BY <2>1, <2>3, ForwardingOnly
  <2> QED BY <1>4, <2>2, <2>3 DEF Routing!ReadLinear
<1>5. CASE Routing!Break
  <2>1. /\ task.result = "open" /\ commits = 0 /\ Routing!Answer("broken")
        /\ commits' = 0 \/ (commits' = 1 /\ task.kind = "write")
    BY <1>5 DEF Routing!Break, CommitsSettled, OnlyWrites
  <2> QED BY <2>1, AnswerOnly DEF CommitsSettled, OnlyWrites
<1>6. CASE Routing!ServeInit \/ Routing!StepDown
  BY <1>1, <1>6 DEF Routing!ServeInit, Routing!StepDown, Routing!Initialize
<1>7. CASE \E n \in Peers : \/ Routing!ManagedInit(n) \/ Routing!AddLearner(n)
                            \/ Routing!Elect(n) \/ Routing!Learn(n)
  BY <1>1, <1>7 DEF Routing!ManagedInit, Routing!Initialize, Routing!AddLearner, Routing!Elect, Routing!Learn
<1>8. CASE \E vs \in SUBSET Peers : Routing!ChangeMembership(vs)
  BY <1>1, <1>8 DEF Routing!ChangeMembership
<1>9. CASE UNCHANGED Routing!vars
  BY <1>1, <1>9 DEF Routing!vars
<1> QED BY <1>2, <1>3, <1>4, <1>5, <1>6, <1>7, <1>8, <1>9 DEF Routing!Next, Routing!Serve

(* server.rs: an error that the node makes up itself means that the write  *)
(* was not committed, an ok that it was, and none is committed twice,      *)
(* however stale the nodes' beliefs about the head are.                  *)
THEOREM ErrorsAreDefinite == Routing!Spec => []ErrorsTrue
<1>1. Routing!Init => CommitsSettled
  BY DEF Routing!Init, Routing!NoTask, CommitsSettled, TaskTyped, OnlyWrites
<1>2. CommitsSettled => ErrorsTrue
  BY DEF CommitsSettled, OnlyWrites, ErrorsTrue, Routing!DefiniteErrors
<1> QED BY <1>1, <1>2, CommitsSettledStep, PTL DEF Routing!Spec

-----------------------------------------------------------------------------
(***************************************************************************)
(* The agent-event export (EventLog), with any number of emitters, runs,   *)
(* events, failed writes and crashes.                                      *)
(***************************************************************************)
Whole(i) == file[i] # Torn

(* The types; an event's id is its place in the order of building.         *)
EventsTyped ==
  /\ file \in Seq(Log!Lines \cup {Torn})
  /\ open \in BOOLEAN /\ (open => file # <<>>)
  /\ sink \in [up : BOOLEAN, next : Log!Events \cup {None}]
  /\ held \in [Emitters -> Log!Events \cup {None}]
  /\ built \in Nat
  /\ \A i \in DOMAIN file : Whole(i) => file[i].id < built
  /\ \A p \in Emitters : held[p] # None => held[p].id < built

(* An event is in one emitter's hands, or in one line, or in neither.      *)
InOnePlace ==
  /\ \A i, j \in DOMAIN file : Whole(i) /\ Whole(j) /\ file[i].id = file[j].id => i = j
  /\ \A p, q \in Emitters : held[p] # None /\ held[q] # None /\ held[p].id = held[q].id => p = q
  /\ \A p \in Emitters, i \in DOMAIN file : held[p] # None /\ Whole(i) => held[p].id # file[i].id

(* What the next line links to is the file's last line.                    *)
TailHash == IF file = <<>> THEN None ELSE Log!ChainHash(file[Len(file)])

(* If failures tear no line, the file is lines, and the open exporter's    *)
(* link is that of the last one.                                           *)
OneChain ==
  /\ ~open
  /\ \A i \in DOMAIN file : Whole(i)
  /\ sink.up => sink.next = TailHash
  /\ Log!ChainUnbroken
  /\ Log!WrittenIsOnDisk

LEMMA EventsInit ==
  ASSUME Log!EventLogConstants
  PROVE  Log!Init => EventsTyped /\ InOnePlace /\ OneChain
<1> SUFFICES ASSUME Log!Init PROVE EventsTyped /\ InOnePlace /\ OneChain
  OBVIOUS
<1>1. file = <<>> /\ DOMAIN file = {} /\ open = FALSE /\ built = 0
      /\ sink = [up |-> TRUE, next |-> None] /\ held = [p \in Emitters |-> None] /\ written = {}
  BY DEF Log!Init
<1>2. file \in Seq(Log!Lines \cup {Torn})
  BY <1>1
<1>3. EventsTyped
  BY <1>1, <1>2 DEF EventsTyped
<1>4. InOnePlace
  BY <1>1 DEF InOnePlace
<1>5. OneChain
  BY <1>1 DEF OneChain, TailHash, Log!ChainUnbroken, Log!WrittenIsOnDisk
<1> QED BY <1>3, <1>4, <1>5

(* An event that is built is in its emitter's hands and nowhere else.      *)
LEMMA BuildKeeps ==
  ASSUME Log!EventLogConstants, EventsTyped, InOnePlace,
         NEW p \in Emitters, NEW run \in TraceRuns, NEW ts \in Times, NEW agent,
         Log!Build(p, run, ts, agent)
  PROVE  EventsTyped' /\ InOnePlace'
<1>1. /\ UNCHANGED <<file, open, sink>> /\ built' = built + 1 /\ built \in Nat
      /\ held[p] = None
  BY DEF Log!Build, EventsTyped
<1>a. \A i \in DOMAIN file : Whole(i) => file[i].id \in Nat /\ file[i].id < built
  BY DEF EventsTyped, Whole, Log!Lines
<1>b. \A q \in Emitters : held[q] # None => held[q].id \in Nat /\ held[q].id < built
  BY DEF EventsTyped, Log!Events
<1>2. CASE held' = held
  BY <1>1, <1>2, <1>a, <1>b DEF EventsTyped, InOnePlace, Whole
<1>3. CASE held' = [held EXCEPT ![p] = [id |-> built, run |-> run, ts |-> ts]]
  <2> DEFINE e == [id |-> built, run |-> run, ts |-> ts]
  <2>1. e \in Log!Events /\ e.id = built
    BY <1>1 DEF Log!Events
  <2> HIDE DEF e
  <2>2. /\ held' \in [Emitters -> Log!Events \cup {None}]
        /\ \A q \in Emitters : held'[q] = IF q = p THEN e ELSE held[q]
    BY <1>3, <2>1 DEF EventsTyped, e
  <2>5. EventsTyped'
    BY <1>1, <1>a, <1>b, <2>1, <2>2 DEF EventsTyped, Whole
  <2>6. InOnePlace'
    BY <1>1, <1>a, <1>b, <2>1, <2>2 DEF InOnePlace, Whole
  <2> QED BY <2>5, <2>6
<1> QED BY <1>2, <1>3 DEF Log!Build

(* A step that takes events out of hands, and appends to the file a torn   *)
(* line or one such event, or tears the last line.                         *)
LEMMA FileGrowsOnce ==
  ASSUME EventsTyped, InOnePlace, built' = built,
         sink' \in [up : BOOLEAN, next : Log!Events \cup {None}],
         open' \in BOOLEAN, open' => file' # <<>>,
         held' \in [Emitters -> Log!Events \cup {None}],
         \A q \in Emitters : held'[q] # None => held'[q] = held[q],
         \/ file' = file
         \/ file' = [file EXCEPT ![Len(file)] = Torn]
         \/ file' = Append(file, Torn)
         \/ \E p \in Emitters, line \in Log!Lines :
              /\ held[p] # None /\ held'[p] = None
              /\ line.id = held[p].id
              /\ file' = Append(file, line)
  PROVE  EventsTyped' /\ InOnePlace'
<1>1. /\ Len(file) \in Nat /\ DOMAIN file = 1 .. Len(file) /\ file \in Seq(Log!Lines \cup {Torn})
      /\ held \in [Emitters -> Log!Events \cup {None}]
  BY DEF EventsTyped
<1>2. CASE file' = file
  BY <1>2 DEF EventsTyped, InOnePlace, Whole
<1>3. CASE file' = [file EXCEPT ![Len(file)] = Torn]
  <2>1. /\ DOMAIN file' = DOMAIN file /\ file' \in Seq(Log!Lines \cup {Torn})
        /\ \A i \in DOMAIN file : file'[i] = file[i] \/ file'[i] = Torn
    <3>1. file \in [1 .. Len(file) -> Log!Lines \cup {Torn}]
      BY <1>1
    <3>2. file' \in [1 .. Len(file) -> Log!Lines \cup {Torn}]
      BY <1>3, <3>1
    <3>3. \A i \in DOMAIN file : file'[i] = file[i] \/ file'[i] = Torn
      BY <1>3
    <3>4. DOMAIN file' = DOMAIN file
      BY <1>3
    <3>5. file' \in Seq(Log!Lines \cup {Torn})
      <4> DEFINE Any == Log!Lines \cup {Torn}
                 m == Len(file)
      <4>1. m \in Nat /\ file' \in [1 .. m -> Any]
        BY <1>1, <3>2
      <4> HIDE DEF Any, m
      <4>2. file' \in Seq(Any)
        BY <4>1
      <4> QED BY <4>2 DEF Any
    <3> QED BY <3>3, <3>4, <3>5
  <2> QED BY <2>1 DEF EventsTyped, InOnePlace, Whole
<1>4. CASE file' = Append(file, Torn)
  <2>1. /\ DOMAIN file' = 1 .. Len(file) + 1 /\ file' \in Seq(Log!Lines \cup {Torn})
        /\ \A i \in DOMAIN file' : file'[i] = Torn \/ (i \in DOMAIN file /\ file'[i] = file[i])
    BY <1>1, <1>4
  <2> QED BY <2>1 DEF EventsTyped, InOnePlace, Whole
<1>5. ASSUME NEW p \in Emitters, NEW line \in Log!Lines,
             held[p] # None, held'[p] = None, line.id = held[p].id,
             file' = Append(file, line)
      PROVE  EventsTyped' /\ InOnePlace'
  <2> DEFINE n == Len(file) + 1
  <2> DEFINE Any == Log!Lines \cup {Torn}
  <2>a. line \in Any /\ file \in Seq(Any)
    BY <1>1
  <2> HIDE DEF Any
  <2>0. file' \in Seq(Any) /\ Len(file') = n
    BY <1>5, <2>a
  <2>1. /\ DOMAIN file' = 1 .. n /\ file' \in Seq(Any) /\ n \in DOMAIN file'
        /\ file'[n] = line
        /\ \A i \in DOMAIN file' : i = n \/ (i \in DOMAIN file /\ file'[i] = file[i])
    <3>1. DOMAIN file' = 1 .. n /\ n \in DOMAIN file' /\ file' \in Seq(Any)
      <4>1. n \in Nat /\ n \in 1 .. n
        BY <1>1
      <4> HIDE DEF n
      <4>2. DOMAIN file' = 1 .. n
        BY <2>0
      <4> QED BY <2>0, <4>1, <4>2
    <3>2. file'[n] = line /\ \A i \in 1 .. Len(file) : file'[i] = file[i]
      BY <1>5, <2>a
    <3>3. \A i \in 1 .. n : i = n \/ i \in 1 .. Len(file)
      BY <1>1
    <3> QED BY <1>1, <3>1, <3>2, <3>3
  <2> HIDE DEF n
  <2>2. line.id < built
    BY <1>5 DEF EventsTyped
  <2>3. EventsTyped'
    BY <2>1, <2>2 DEF EventsTyped, Whole, Any
  <2>4. \A i, j \in DOMAIN file' : file'[i] # Torn /\ file'[j] # Torn /\ file'[i].id = file'[j].id => i = j
    <3> SUFFICES ASSUME NEW i \in DOMAIN file', NEW j \in DOMAIN file',
                        file'[i] # Torn, file'[j] # Torn, file'[i].id = file'[j].id
                 PROVE  i = j
      OBVIOUS
    <3>1. \A k \in DOMAIN file : file[k] # Torn => file[k].id # line.id
      BY <1>5 DEF InOnePlace, Whole
    <3> QED BY <2>1, <3>1 DEF InOnePlace, Whole
  <2>5. \A q \in Emitters : held'[q] # None => held'[q].id # line.id
    BY <1>5 DEF InOnePlace
  <2>6. \A q \in Emitters, i \in DOMAIN file' : held'[q] # None /\ file'[i] # Torn => held'[q].id # file'[i].id
    <3> SUFFICES ASSUME NEW q \in Emitters, NEW i \in DOMAIN file', held'[q] # None, file'[i] # Torn
                 PROVE  held'[q].id # file'[i].id
      OBVIOUS
    <3>1. CASE i = n
      BY <3>1, <2>1, <2>5
    <3>2. CASE i \in DOMAIN file /\ file'[i] = file[i]
      BY <3>2 DEF InOnePlace, Whole
    <3> QED BY <2>1, <3>1, <3>2
  <2>7. \A q, r \in Emitters : held'[q] # None /\ held'[r] # None /\ held'[q].id = held'[r].id => q = r
    BY DEF InOnePlace
  <2> QED BY <2>3, <2>4, <2>6, <2>7 DEF InOnePlace, Whole
<1> QED BY <1>2, <1>3, <1>4, <1>5

(* The line an emitter writes is its event with the exporter's link.       *)
LEMMA LineOfEvent ==
  ASSUME EventsTyped, NEW p \in Emitters, held[p] # None
  PROVE  /\ held[p] \in Log!Events
         /\ Log!Line(held[p]) \in Log!Lines
         /\ Log!Line(held[p]).id = held[p].id
         /\ Log!Line(held[p]).prev = sink.next
         /\ Log!ChainHash(Log!Line(held[p])) = held[p] /\ Log!ChainHash(held[p]) = held[p]
<1>1. held[p] \in Log!Events /\ sink.next \in Log!Events \cup {None}
  BY DEF EventsTyped
<1>2. held[p] = [id |-> held[p].id, run |-> held[p].run, ts |-> held[p].ts]
  BY <1>1 DEF Log!Events
<1> QED BY <1>1, <1>2 DEF Log!Line, Log!Lines, Log!Events, Log!ChainHash

LEMMA WriteKeeps ==
  ASSUME EventsTyped, InOnePlace, NEW p \in Emitters, Log!Write(p)
  PROVE  EventsTyped' /\ InOnePlace'
<1> DEFINE line == Log!Line(held[p])
<1>1. /\ held[p] # None /\ open' = FALSE /\ built' = built
      /\ file' = IF open THEN [file EXCEPT ![Len(file)] = Torn] ELSE Append(file, line)
      /\ sink' = [sink EXCEPT !.next = Log!ChainHash(held[p])]
      /\ held' = [held EXCEPT ![p] = None]
  BY DEF Log!Write, Log!Appended
<1>2. line \in Log!Lines /\ line.id = held[p].id
      /\ held[p] \in Log!Events /\ Log!ChainHash(held[p]) = held[p]
  BY <1>1, LineOfEvent
<1> HIDE DEF line
<1>3. sink' \in [up : BOOLEAN, next : Log!Events \cup {None}]
  BY <1>1, <1>2 DEF EventsTyped
<1>4. /\ held' \in [Emitters -> Log!Events \cup {None}] /\ held'[p] = None
      /\ \A q \in Emitters : held'[q] # None => held'[q] = held[q]
  BY <1>1 DEF EventsTyped
<1>5. CASE open
  <2>1. file' = [file EXCEPT ![Len(file)] = Torn]
    BY <1>1, <1>5
  <2> QED BY <1>1, <1>3, <1>4, <2>1, FileGrowsOnce
<1>6. CASE ~open
  <2>1. file' = Append(file, line)
    BY <1>1, <1>6
  <2>2. \E q \in Emitters, l \in Log!Lines :
              /\ held[q] # None /\ held'[q] = None
              /\ l.id = held[q].id
              /\ file' = Append(file, l)
    BY <1>1, <1>2, <1>4, <2>1
  <2> QED BY <1>1, <1>3, <1>4, <2>2, FileGrowsOnce
<1> QED BY <1>5, <1>6

(* A write that fails, a crash and a restart.                              *)
LEMMA FailureKeeps ==
  ASSUME EventsTyped, InOnePlace, Log!Crash \/ \E p \in Emitters : Log!WriteError(p)
  PROVE  EventsTyped' /\ InOnePlace'
<1>1. built' = built /\ sink' \in [up : BOOLEAN, next : Log!Events \cup {None}]
  <2>1. CASE Log!Crash
    BY <2>1 DEF Log!Crash
  <2>2. ASSUME NEW p \in Emitters, Log!WriteError(p)
        PROVE  built' = built /\ sink' \in [up : BOOLEAN, next : Log!Events \cup {None}]
    BY <2>2 DEF Log!WriteError, EventsTyped
  <2> QED BY <2>1, <2>2
<1>2. /\ held' \in [Emitters -> Log!Events \cup {None}]
      /\ \A q \in Emitters : held'[q] # None => held'[q] = held[q]
  <2>1. CASE Log!Crash
    BY <2>1 DEF Log!Crash
  <2>2. ASSUME NEW p \in Emitters, Log!WriteError(p)
        PROVE  /\ held' \in [Emitters -> Log!Events \cup {None}]
               /\ \A q \in Emitters : held'[q] # None => held'[q] = held[q]
    BY <2>2 DEF Log!WriteError, EventsTyped
  <2> QED BY <2>1, <2>2
<1>3. CASE UNCHANGED <<file, open>>
  <2>1. open' \in BOOLEAN /\ (open' => file' # <<>>)
    BY <1>3 DEF EventsTyped
  <2> QED BY <1>1, <1>2, <1>3, <2>1, FileGrowsOnce
<1>4. CASE open' = TRUE /\ file' = IF open THEN file ELSE Append(file, Torn)
  <2>1. open' \in BOOLEAN /\ file' # <<>> /\ (file' = file \/ file' = Append(file, Torn))
    BY <1>4 DEF EventsTyped
  <2> QED BY <1>1, <1>2, <2>1, FileGrowsOnce
<1> QED BY <1>3, <1>4 DEF Log!Crash, Log!WriteError, Log!Keep, Log!TearLine

LEMMA ReopenKeeps ==
  ASSUME EventsTyped, InOnePlace, Log!Reopen
  PROVE  EventsTyped' /\ InOnePlace'
<1>1. UNCHANGED <<file, open, held, built>>
  BY DEF Log!Reopen
<1>2. sink' \in [up : BOOLEAN, next : Log!Events \cup {None}]
  <2>1. CASE file = <<>> \/ Log!Last(file) = Torn
    BY <2>1 DEF Log!Reopen
  <2>2. CASE ~(file = <<>> \/ Log!Last(file) = Torn)
    <3>1. file # <<>> /\ file[Len(file)] \in Log!Lines /\ Log!Last(file) = file[Len(file)]
      <4>1. Log!Last(file) = file[Len(file)]
        BY DEF Log!Last
      <4>2. Len(file) \in DOMAIN file
        BY <2>2 DEF EventsTyped
      <4> QED BY <2>2, <4>1, <4>2 DEF EventsTyped
    <3>2. Log!ChainHash(file[Len(file)]) \in Log!Events
      BY <3>1 DEF Log!ChainHash, Log!Events, Log!Lines
    <3> QED BY <2>2, <3>1, <3>2 DEF Log!Reopen
  <2> QED BY <2>1, <2>2
<1> QED BY <1>1, <1>2 DEF EventsTyped, InOnePlace, Whole

LEMMA EventsStep ==
  ASSUME Log!EventLogConstants, EventsTyped, InOnePlace, [Log!Next]_Log!vars
  PROVE  EventsTyped' /\ InOnePlace'
<1>1. CASE \E p \in Emitters, run \in TraceRuns, ts \in Times, agent \in {None, "agent"} :
          Log!Build(p, run, ts, agent)
  BY <1>1, BuildKeeps
<1>2. CASE \E p \in Emitters : Log!Write(p)
  BY <1>2, WriteKeeps
<1>3. CASE Log!Crash \/ \E p \in Emitters : Log!WriteError(p)
  BY <1>3, FailureKeeps
<1>4. CASE Log!Reopen
  BY <1>4, ReopenKeeps
<1>5. CASE UNCHANGED Log!vars
  BY <1>5 DEF Log!vars, EventsTyped, InOnePlace, Whole
<1> QED BY <1>1, <1>2, <1>3, <1>4, <1>5 DEF Log!Next

(* Appending a line that links to the last one keeps the file one chain.   *)
LEMMA AppendLinked ==
  ASSUME NEW n \in Nat, DOMAIN file = 1 .. n, DOMAIN file' = 1 .. n + 1,
         \A i \in 1 .. n : file'[i] = file[i],
         \A i \in 1 .. n : Whole(i), Log!ChainUnbroken,
         file'[n + 1].prev = IF n = 0 THEN None ELSE Log!ChainHash(file[n])
  PROVE  Log!ChainUnbroken'
<1> SUFFICES ASSUME NEW i \in 1 .. n + 1, file'[i] # Torn
             PROVE  file'[i].prev = IF i = 1 THEN None
                                    ELSE IF file'[i - 1] = Torn THEN None ELSE Log!ChainHash(file'[i - 1])
  BY DEF Log!ChainUnbroken, Log!ChainHash
<1>1. CASE i = n + 1
  <2>1. CASE n = 0
    BY <1>1, <2>1
  <2>2. CASE n # 0
    <3>1. i - 1 = n /\ n \in 1 .. n /\ i # 1
      BY <1>1, <2>2
    <3>2. file'[n] = file[n] /\ file[n] # Torn
      BY <3>1 DEF Whole
    <3>3. file'[i].prev = Log!ChainHash(file[n])
      BY <1>1, <2>2
    <3> QED BY <3>1, <3>2, <3>3
  <2> QED BY <2>1, <2>2
<1>2. CASE i # n + 1
  <2>1. i \in 1 .. n /\ file'[i] = file[i]
    BY <1>2
  <2>2. i # 1 => i - 1 \in 1 .. n /\ file'[i - 1] = file[i - 1]
    BY <2>1
  <2>3. file[i].prev = IF i = 1 THEN None
                       ELSE IF file[i - 1] = Torn THEN None ELSE Log!ChainHash(file[i - 1])
    BY <2>1 DEF Log!ChainUnbroken
  <2> QED BY <2>1, <2>2, <2>3
<1> QED BY <1>1, <1>2

(* emit under the sink's lock, when the file ends with a whole line.       *)
LEMMA WriteLinks ==
  ASSUME Log!EventLogConstants, EventsTyped, OneChain, NEW p \in Emitters, Log!Write(p)
  PROVE  OneChain'
<1> DEFINE line == Log!Line(held[p])
<1>1. /\ held[p] # None /\ open' = FALSE /\ sink.up
      /\ file' = Append(file, line)
      /\ sink' = [sink EXCEPT !.next = Log!ChainHash(held[p])]
      /\ written' = written \cup {held[p].id}
  BY DEF Log!Write, Log!Appended, OneChain
<1>2. /\ line \in Log!Lines /\ line.id = held[p].id /\ line.prev = sink.next
      /\ Log!ChainHash(line) = held[p] /\ Log!ChainHash(held[p]) = held[p]
  BY <1>1, LineOfEvent
<1> HIDE DEF line
<1>3. line # Torn
  BY <1>2 DEF Log!EventLogConstants
<1>4. PICK n \in Nat : n = Len(file) /\ DOMAIN file = 1 .. n
  BY DEF EventsTyped
<1>5. /\ DOMAIN file' = 1 .. n + 1 /\ Len(file') = n + 1 /\ file' # <<>>
      /\ \A i \in 1 .. n : file'[i] = file[i]
      /\ file'[n + 1] = line
  <2>1. file \in Seq(Log!Lines \cup {Torn}) /\ line \in Log!Lines \cup {Torn}
    BY <1>2 DEF EventsTyped
  <2> QED BY <1>1, <1>4, <2>1
<1>6. \A i \in 1 .. n : Whole(i)
  BY <1>4 DEF OneChain
<1>7. \A i \in DOMAIN file' : file'[i] # Torn
  BY <1>3, <1>4, <1>5, <1>6 DEF Whole
<1>8. sink' = [sink EXCEPT !.next = held[p]] /\ sink'.next = held[p]
  BY <1>1, <1>2 DEF EventsTyped
<1>9. TailHash' = held[p]
  BY <1>2, <1>5 DEF TailHash, Log!ChainHash
<1>10. Log!ChainUnbroken'
  <2>1. sink.next = IF n = 0 THEN None ELSE Log!ChainHash(file[n])
    <3>1. (file = <<>>) <=> n = 0
      BY <1>4 DEF EventsTyped
    <3> QED BY <1>1, <1>4, <3>1 DEF OneChain, TailHash
  <2>2. file'[n + 1].prev = IF n = 0 THEN None ELSE Log!ChainHash(file[n])
    BY <1>2, <1>5, <2>1
  <2>3. Log!ChainUnbroken
    BY DEF OneChain
  <2> QED BY <1>4, <1>5, <1>6, <2>2, <2>3, AppendLinked
<1>11. Log!WrittenIsOnDisk'
  <2> SUFFICES ASSUME NEW k \in written'
               PROVE  \E i \in DOMAIN file' : file'[i] # Torn /\ (file'[i]).id = k
    BY DEF Log!WrittenIsOnDisk
  <2>1. CASE k = held[p].id
    <3>1. n + 1 \in DOMAIN file' /\ file'[n + 1].id = k
      BY <1>2, <1>5, <2>1
    <3> QED BY <3>1, <1>7
  <2>2. CASE k \in written
    <3>1. PICK i \in DOMAIN file : file[i].id = k
      BY <2>2 DEF OneChain, Log!WrittenIsOnDisk
    <3>2. i \in DOMAIN file' /\ file'[i] = file[i]
      BY <1>4, <1>5
    <3> QED BY <3>1, <3>2, <1>7
  <2> QED BY <1>1, <2>1, <2>2
<1> QED BY <1>1, <1>7, <1>8, <1>9, <1>10, <1>11 DEF OneChain, Whole

(* A step that leaves the file alone: the exporter's link must be the last *)
(* line's, or the exporter closed.                                         *)
LEMMA FileUnchanged ==
  ASSUME OneChain, UNCHANGED <<file, open, written>>, sink'.up => sink'.next = TailHash
  PROVE  OneChain'
<1>1. TailHash' = TailHash
  BY DEF TailHash, Log!ChainHash
<1>2. Log!ChainUnbroken' /\ Log!WrittenIsOnDisk'
  BY DEF OneChain, Log!ChainUnbroken, Log!WrittenIsOnDisk, Log!ChainHash
<1> QED BY <1>1, <1>2 DEF OneChain, Whole

LEMMA OneChainStep ==
  ASSUME Log!EventLogConstants, ~Tears, EventsTyped, OneChain, [Log!Next]_Log!vars
  PROVE  OneChain'
<1>0. sink.up => sink.next = TailHash
  BY DEF OneChain
<1>1. CASE UNCHANGED <<file, open, written, sink>>
  BY <1>0, <1>1, FileUnchanged
<1>2. CASE \E p \in Emitters, run \in TraceRuns, ts \in Times, agent \in {None, "agent"} :
          Log!Build(p, run, ts, agent)
  BY <1>1, <1>2 DEF Log!Build
<1>3. CASE \E p \in Emitters : Log!Write(p)
  BY <1>3, WriteLinks
<1>4. CASE \E p \in Emitters : Log!WriteError(p)
  BY <1>1, <1>4 DEF Log!WriteError, Log!Keep
<1>5. CASE Log!Crash
  <2>1. UNCHANGED <<file, open, written>> /\ ~sink'.up
    BY <1>5 DEF Log!Crash, Log!Keep
  <2> QED BY <2>1, FileUnchanged
<1>6. CASE Log!Reopen
  <2>1. UNCHANGED <<file, open, written>>
    BY <1>6 DEF Log!Reopen
  <2>2. sink'.next = TailHash
    <3>1. CASE file = <<>>
      BY <1>6, <3>1 DEF Log!Reopen, TailHash
    <3>2. CASE file # <<>>
      <4>1. Len(file) \in DOMAIN file /\ Log!Last(file) = file[Len(file)]
        BY <3>2 DEF EventsTyped, Log!Last
      <4>2. Log!Last(file) # Torn
        BY <4>1 DEF OneChain, Whole
      <4> QED BY <1>6, <3>2, <4>1, <4>2 DEF Log!Reopen, TailHash
    <3> QED BY <3>1, <3>2
  <2> QED BY <2>1, <2>2, FileUnchanged
<1>7. CASE UNCHANGED Log!vars
  BY <1>1, <1>7 DEF Log!vars
<1> QED BY <1>2, <1>3, <1>4, <1>5, <1>6, <1>7 DEF Log!Next

(* agent_event.rs: if failures tear no line, one file is one hash chain    *)
(* over concurrent emitters, failed writes, crashes and restarts, and what *)
(* emit reported as written is a line of it.                               *)
THEOREM EventsFormOneChain ==
  ASSUME Log!EventLogConstants
  PROVE  Log!Spec => []EventsTrue
<1>0. CASE Tears
  <2>1. EventsTrue
    BY <1>0 DEF EventsTrue
  <2> QED BY <2>1, PTL
<1> SUFFICES ASSUME ~Tears PROVE Log!Spec => []EventsTrue
  BY <1>0
<1> DEFINE Inv == EventsTyped /\ InOnePlace /\ OneChain
<1>1. Log!Init => Inv
  BY EventsInit
<1>2. Inv /\ [Log!Next]_Log!vars => Inv'
  BY EventsStep, OneChainStep
<1>3. Inv => EventsTrue
  BY DEF OneChain, EventsTrue
<1> HIDE DEF Inv
<1> QED BY <1>1, <1>2, <1>3, PTL DEF Log!Spec

(* What is written was built and is in nobody's hands, and only what is    *)
(* written comes before what is built.                                     *)
WrittenFirst ==
  /\ \A k \in written : k \in Nat /\ k < built
  /\ \A p \in Emitters : held[p] # None => held[p].id \notin written
  /\ \A d, e : <<d, e>> \in precedes => d \in written
  /\ Log!LinesInOrder

(* An event's id is new: it comes after what is written, and no line has   *)
(* it.                                                                     *)
LEMMA BuildInOrder ==
  ASSUME EventsTyped, WrittenFirst,
         NEW p \in Emitters, NEW run \in TraceRuns, NEW ts \in Times, NEW agent,
         Log!Build(p, run, ts, agent)
  PROVE  WrittenFirst'
<1>1. /\ UNCHANGED <<file, written>> /\ built' = built + 1 /\ built \in Nat
      /\ precedes' = precedes \cup {<<d, built>> : d \in written}
  BY DEF Log!Build, EventsTyped
<1>2. built \notin written /\ \A k \in written : k \in Nat /\ k < built + 1
  BY <1>1 DEF WrittenFirst
<1>3. \A q \in Emitters : held'[q] # None => held'[q].id \notin written
  <2>1. CASE held' = held
    BY <2>1 DEF WrittenFirst
  <2>2. CASE held' = [held EXCEPT ![p] = [id |-> built, run |-> run, ts |-> ts]]
    BY <2>2, <1>2 DEF WrittenFirst, EventsTyped
  <2> QED BY <2>1, <2>2 DEF Log!Build
<1>4. \A d, e : <<d, e>> \in precedes' => d \in written
  BY <1>1 DEF WrittenFirst
<1>5. \A i, j \in DOMAIN file :
        file[i] # Torn /\ file[j] # Torn /\ <<file[i].id, file[j].id>> \in precedes' => i < j
  <2> SUFFICES ASSUME NEW i \in DOMAIN file, NEW j \in DOMAIN file, file[i] # Torn, file[j] # Torn,
                      <<file[i].id, file[j].id>> \in precedes'
               PROVE  i < j
    OBVIOUS
  <2>1. file[j] \in Log!Lines /\ file[j].id < built
    BY DEF EventsTyped, Whole
  <2>2. file[j].id # built
    BY <1>1, <2>1 DEF Log!Lines
  <2>3. <<file[i].id, file[j].id>> \in precedes
    BY <1>1, <2>2
  <2> QED BY <2>3 DEF WrittenFirst, Log!LinesInOrder
<1> QED BY <1>1, <1>2, <1>3, <1>4, <1>5 DEF WrittenFirst, Log!LinesInOrder

(* The event an emitter writes comes before nothing that is built: its     *)
(* line may be the last.                                                   *)
LEMMA WriteInOrder ==
  ASSUME EventsTyped, InOnePlace, WrittenFirst, NEW p \in Emitters, Log!Write(p)
  PROVE  WrittenFirst'
<1> DEFINE line == Log!Line(held[p])
<1>1. /\ held[p] # None /\ UNCHANGED <<built, precedes>>
      /\ file' = IF open THEN [file EXCEPT ![Len(file)] = Torn] ELSE Append(file, line)
      /\ written' = written \cup {held[p].id}
      /\ held' = [held EXCEPT ![p] = None]
  BY DEF Log!Write, Log!Appended
<1>2. line \in Log!Lines /\ line.id = held[p].id /\ held[p] \in Log!Events
  BY <1>1, LineOfEvent
<1> HIDE DEF line
<1>3. \A k \in written' : k \in Nat /\ k < built
  BY <1>1, <1>2 DEF WrittenFirst, EventsTyped, Log!Events
<1>4. \A q \in Emitters : held'[q] # None => held'[q].id \notin written'
  BY <1>1 DEF WrittenFirst, EventsTyped, InOnePlace
<1>5. \A d, e : <<d, e>> \in precedes => d \in written'
  BY <1>1 DEF WrittenFirst
<1>6. Log!LinesInOrder'
  <2>1. CASE open
    <3>1. file' = [file EXCEPT ![Len(file)] = Torn]
      BY <1>1, <2>1
    <3>2. DOMAIN file' = DOMAIN file /\ \A i \in DOMAIN file : file'[i] # Torn => file'[i] = file[i]
      BY <3>1
    <3> QED BY <1>1, <3>2 DEF WrittenFirst, Log!LinesInOrder
  <2>2. CASE ~open
    <3> SUFFICES ASSUME NEW i \in DOMAIN file', NEW j \in DOMAIN file', file'[i] # Torn, file'[j] # Torn,
                        <<file'[i].id, file'[j].id>> \in precedes
                 PROVE  i < j
      BY <1>1 DEF Log!LinesInOrder
    <3>1. PICK n \in Nat : n = Len(file) /\ DOMAIN file = 1 .. n
      BY DEF EventsTyped
    <3>2. /\ DOMAIN file' = 1 .. n + 1 /\ file'[n + 1] = line
          /\ \A k \in 1 .. n : file'[k] = file[k]
      <4>1. file \in Seq(Log!Lines \cup {Torn}) /\ line \in Log!Lines \cup {Torn}
        BY <1>2 DEF EventsTyped
      <4>2. file' = Append(file, line)
        BY <1>1, <2>2
      <4> QED BY <3>1, <4>1, <4>2
    <3>3. i # n + 1
      <4>1. held[p].id \notin written
        BY <1>1 DEF WrittenFirst
      <4>2. file'[i].id \in written
        BY DEF WrittenFirst
      <4> QED BY <1>2, <3>2, <4>1, <4>2
    <3>4. i \in 1 .. n /\ file'[i] = file[i] /\ i \in DOMAIN file
      BY <3>1, <3>2, <3>3
    <3>5. CASE j = n + 1
      BY <3>4, <3>5
    <3>6. CASE j # n + 1
      <4>1. j \in DOMAIN file /\ file'[j] = file[j]
        BY <3>1, <3>2, <3>6
      <4> QED BY <3>4, <4>1 DEF WrittenFirst, Log!LinesInOrder
    <3> QED BY <3>5, <3>6
  <2> QED BY <2>1, <2>2
<1> QED BY <1>1, <1>3, <1>4, <1>5, <1>6 DEF WrittenFirst

(* Nothing else writes a line: failures add at most a torn one.            *)
LEMMA OthersInOrder ==
  ASSUME EventsTyped, WrittenFirst, UNCHANGED <<written, precedes, built>>,
         \A p \in Emitters : held'[p] # None => held'[p] = held[p],
         file' = file \/ file' = Append(file, Torn)
  PROVE  WrittenFirst'
<1>1. \A i \in DOMAIN file' : file'[i] # Torn => i \in DOMAIN file /\ file'[i] = file[i]
  BY DEF EventsTyped
<1>2. Log!LinesInOrder'
  <2> SUFFICES ASSUME NEW i \in DOMAIN file', NEW j \in DOMAIN file', file'[i] # Torn, file'[j] # Torn,
                      <<file'[i].id, file'[j].id>> \in precedes
               PROVE  i < j
    BY DEF Log!LinesInOrder
  <2>1. i \in DOMAIN file /\ j \in DOMAIN file /\ file'[i] = file[i] /\ file'[j] = file[j]
    BY <1>1
  <2> QED BY <2>1 DEF WrittenFirst, Log!LinesInOrder
<1> QED BY <1>2 DEF WrittenFirst

LEMMA WrittenFirstStep ==
  ASSUME EventsTyped, InOnePlace, WrittenFirst, [Log!Next]_Log!vars
  PROVE  WrittenFirst'
<1>1. CASE \E p \in Emitters, run \in TraceRuns, ts \in Times, agent \in {None, "agent"} :
          Log!Build(p, run, ts, agent)
  BY <1>1, BuildInOrder
<1>2. CASE \E p \in Emitters : Log!Write(p)
  BY <1>2, WriteInOrder
<1>3. ASSUME NEW p \in Emitters, Log!WriteError(p)
      PROVE  WrittenFirst'
  <2>1. UNCHANGED <<written, precedes, built>> /\ (file' = file \/ file' = Append(file, Torn))
    BY <1>3 DEF Log!WriteError, Log!Keep, Log!TearLine
  <2>2. \A q \in Emitters : held'[q] # None => held'[q] = held[q]
    BY <1>3 DEF Log!WriteError, EventsTyped
  <2> QED BY <2>1, <2>2, OthersInOrder
<1>4. CASE Log!Crash
  <2>1. UNCHANGED <<written, precedes, built>> /\ (file' = file \/ file' = Append(file, Torn))
    BY <1>4 DEF Log!Crash, Log!Keep, Log!TearLine
  <2>2. \A q \in Emitters : held'[q] # None => held'[q] = held[q]
    BY <1>4 DEF Log!Crash
  <2> QED BY <2>1, <2>2, OthersInOrder
<1>5. CASE Log!Reopen \/ UNCHANGED Log!vars
  <2>1. UNCHANGED <<file, held, written, precedes, built>>
    BY <1>5 DEF Log!Reopen, Log!vars
  <2> QED BY <2>1, OthersInOrder
<1> QED BY <1>1, <1>2, <1>3, <1>4, <1>5 DEF Log!Next

(* agent_event.rs, replay.rs: whatever the clock reads, whichever emitters *)
(* overtake each other and even if failures tear lines, no event is in two *)
(* lines, and an event that was written before another was built has the   *)
(* earlier line: it is the file's order that a replay falls back to when   *)
(* timestamps tie.                                                         *)
EventsOnceInOrder ==
  /\ \A i, j \in DOMAIN file : Whole(i) /\ Whole(j) /\ file[i].id = file[j].id => i = j
  /\ Log!LinesInOrder

(* EventsOnceInOrder, of every state, torn lines or not, for any clock.    *)
THEOREM EventsWrittenOnce ==
  ASSUME Log!EventLogConstants
  PROVE  Log!Spec => []EventsOnceInOrder
<1> DEFINE Inv == EventsTyped /\ InOnePlace /\ WrittenFirst
<1>1. Log!Init => Inv
  <2>1. Log!Init => WrittenFirst
    <3> SUFFICES ASSUME Log!Init PROVE WrittenFirst
      OBVIOUS
    <3>1. DOMAIN file = {} /\ written = {} /\ precedes = {} /\ held = [p \in Emitters |-> None]
      BY DEF Log!Init
    <3> QED BY <3>1 DEF WrittenFirst, Log!LinesInOrder
  <2> QED BY <2>1, EventsInit
<1>2. Inv /\ [Log!Next]_Log!vars => Inv'
  BY EventsStep, WrittenFirstStep
<1>3. Inv => EventsOnceInOrder
  BY DEF WrittenFirst, InOnePlace, EventsOnceInOrder
<1> HIDE DEF Inv
<1> QED BY <1>1, <1>2, <1>3, PTL DEF Log!Spec

(* server.rs, raft_ledger.rs, agent_event.rs: what a caller is told, of a  *)
(* forwarded write or of an event, is so, wherever both parts run.         *)
THEOREM ReportsAreTrue ==
  ASSUME Log!EventLogConstants
  PROVE  Routing!Spec /\ Log!Spec => []ReportedIsTrue
BY ErrorsAreDefinite, EventsFormOneChain, PTL DEF ReportedIsTrue
=============================================================================
