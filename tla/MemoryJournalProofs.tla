------------------------- MODULE MemoryJournalProofs ------------------------
(***************************************************************************)
(* The in-memory journal implements the interface of a run journal, for    *)
(* any holders, keys, events and bounds.                                   *)
(*                                                                         *)
(* The refinement needs two facts that no single method establishes: only  *)
(* a run in the map has a holder (append checks the lease first), and the  *)
(* keys recorded so far are distinct (append looks its key up).            *)
(***************************************************************************)
EXTENDS MemoryJournal, TLAPS

KeysDiffer(list) ==
  \A i, k \in DOMAIN list : i # k /\ list[i].key # NoKey => list[i].key # list[k].key

MemoryInv ==
  /\ MemoryTypeOK
  /\ \A l \in answered : l.epoch <= memLease.epoch
  /\ MemoryEpochsNameHolders
  /\ memLease.holder # Unheld => InMap
  /\ ~InMap => entries = <<>>
  /\ KeysDiffer(entries)

\* A list of seeds becomes the entries of a new run, with distinct keys.
LEMMA SeededEntries ==
  ASSUME NEW seeds \in SeedLists,
         \A i, k \in DOMAIN seeds : i # k /\ seeds[i].key # NoKey => seeds[i].key # seeds[k].key,
         NEW list, list = [i \in DOMAIN seeds |-> [epoch |-> 0, key |-> seeds[i].key, body |-> seeds[i].body]]
  PROVE  list \in Seq(Entries) /\ KeysDiffer(list) /\ \A i \in DOMAIN list : list[i].epoch = 0
<1>1. PICK n \in 0..MaxSeeds : seeds \in [1..n -> Events]
  BY DEF SeedLists
<1>2. n \in Nat /\ DOMAIN seeds = 1..n /\ \A i \in 1..n : seeds[i] \in Events
  BY <1>1, JournalAssumption
<1>3. DOMAIN list = 1..n /\ \A i \in 1..n :
        /\ list[i] = [epoch |-> 0, key |-> seeds[i].key, body |-> seeds[i].body]
        /\ list[i].epoch = 0 /\ list[i].key = seeds[i].key
  BY <1>2
<1>4. \A i \in 1..n : list[i] \in Entries
  BY <1>2, <1>3 DEF Events, Entries
<1>5. list \in Seq(Entries)
  BY <1>2, <1>3, <1>4
<1>6. KeysDiffer(list)
  BY <1>2, <1>3 DEF KeysDiffer
<1> QED BY <1>3, <1>5, <1>6

\* One recorded event keeps the keys distinct and everything before it.
LEMMA AppendedEntry ==
  ASSUME NEW list \in Seq(Entries), NEW entry \in Entries, KeysDiffer(list), ~KeyIsIn(entry.key, list)
  PROVE  LET more == Append(list, entry)
         IN  /\ more \in Seq(Entries) /\ KeysDiffer(more)
             /\ \A i \in DOMAIN list : i \in DOMAIN more /\ more[i] = list[i]
             /\ \A i \in DOMAIN more \ DOMAIN list : more[i] = entry
<1> DEFINE more == Append(list, entry)
           n == Len(list) + 1
<1>1. /\ n \in Nat /\ more \in Seq(Entries)
      /\ DOMAIN more = DOMAIN list \cup {n} /\ n \notin DOMAIN list
      /\ more[n] = entry /\ \A i \in DOMAIN list : more[i] = list[i]
  OBVIOUS
<1> HIDE DEF n, more
<1>2. \A i \in DOMAIN list : entry.key # NoKey => list[i].key # entry.key
  BY DEF KeyIsIn
<1>3. KeysDiffer(more)
  BY <1>1, <1>2 DEF KeysDiffer
<1> QED BY <1>1, <1>3 DEF more

\* The empty journal satisfies the invariant.
LEMMA MemoryInitOK == MemoryInit => MemoryInv
<1> SUFFICES ASSUME MemoryInit PROVE MemoryInv
  OBVIOUS
<1>1. <<>> \in Seq(Entries) /\ KeysDiffer(<<>>) /\ [holder |-> Unheld, epoch |-> 0] \in [holder : Holders \cup {Unheld}, epoch : Nat]
  BY DEF KeysDiffer
<1>2. MemoryTypeOK
  BY <1>1 DEF MemoryInit, MemoryTypeOK
<1> QED BY <1>1, <1>2 DEF MemoryInit, MemoryInv, MemoryEpochsNameHolders, InMap

\* What one operation does, for the invariant and for the refinement at once:
\* it keeps MemoryInv and is a step of the fenced log.
StepOK == MemoryInv' /\ [MemoryPromised!LogNext]_(MemoryPromised!logVars)

\* Steps that leave the run and the epoch, and at most clear the holder.
LEMMA LeaseOnlySteps ==
  ASSUME MemoryInv, UNCHANGED <<memStatus, entries, answered>>,
         expired' \in BOOLEAN, closed' \in BOOLEAN,
         memLease' \in [holder : Holders \cup {Unheld}, epoch : Nat],
         memLease'.epoch = memLease.epoch, memLease'.holder \in {memLease.holder, Unheld}
  PROVE  StepOK
<1>1. MemoryInv'
  BY DEF MemoryInv, MemoryTypeOK, MemoryEpochsNameHolders, InMap, KeysDiffer
<1>2. memLease'.holder = Unheld => MemoryPromised!Release
  BY DEF MemoryPromised!Release, InMap
<1>3. memLease'.holder = memLease.holder => UNCHANGED MemoryPromised!logVars
  BY DEF MemoryPromised!logVars, InMap
<1> QED BY <1>1, <1>2, <1>3 DEF StepOK, MemoryPromised!LogNext

\* A grant raises the epoch above every epoch answered.
LEMMA GrantSteps ==
  ASSUME MemoryInv, InMap, closed' \in BOOLEAN, NEW h \in Holders, memoryGrant(h)
  PROVE  StepOK
<1>1. /\ memLease' = [holder |-> h, epoch |-> memLease.epoch + 1] /\ expired' = FALSE
      /\ answered' = answered \cup {[holder |-> h, epoch |-> memLease.epoch + 1]}
      /\ memStatus' = memStatus /\ entries' = entries /\ memLease.epoch \in Nat
      /\ memLease'.holder = h /\ memLease'.epoch = memLease.epoch + 1
  BY DEF memoryGrant, MemoryInv, MemoryTypeOK
<1>2. \A l \in answered : l.epoch \in Nat /\ l.epoch <= memLease.epoch
  BY DEF MemoryInv, MemoryTypeOK, Leases
<1>3. MemoryTypeOK'
  <2>1. memLease' \in [holder : Holders \cup {Unheld}, epoch : Nat] /\ [holder |-> h, epoch |-> memLease.epoch + 1] \in Leases
    BY <1>1 DEF Leases
  <2>2. answered' \in SUBSET Leases
    BY <1>1, <2>1 DEF MemoryInv, MemoryTypeOK
  <2> QED BY <1>1, <2>1, <2>2 DEF MemoryInv, MemoryTypeOK
<1>4. \A l \in answered' : l.epoch <= memLease'.epoch
  BY <1>1, <1>2
<1>5. MemoryEpochsNameHolders'
  BY <1>1, <1>2 DEF MemoryInv, MemoryEpochsNameHolders
<1>6. MemoryInv'
  BY <1>1, <1>3, <1>4, <1>5 DEF MemoryInv, InMap, KeysDiffer
<1>7. MemoryPromised!Grant
  BY <1>1 DEF MemoryPromised!Grant, InMap
<1> QED BY <1>6, <1>7 DEF StepOK, MemoryPromised!LogNext

\* A run appears with entries of epoch 0 and distinct keys.
LEMMA CreateSteps ==
  ASSUME MemoryInv, ~InMap, closed' \in BOOLEAN, UNCHANGED <<memLease, expired, answered>>,
         memStatus' \in Statuses, entries' \in Seq(Entries), KeysDiffer(entries'),
         \A i \in DOMAIN entries' : entries'[i].epoch = 0
  PROVE  StepOK
<1>1. InMap'
  BY JournalAssumption DEF InMap
<1>2. MemoryInv'
  BY <1>1 DEF MemoryInv, MemoryTypeOK, MemoryEpochsNameHolders, KeysDiffer
<1>3. MemoryPromised!OncePerKey(entries')
  BY DEF KeysDiffer, MemoryPromised!OncePerKey
<1>4. MemoryPromised!Create
  BY <1>1, <1>3 DEF MemoryPromised!Create
<1> QED BY <1>2, <1>4 DEF StepOK, MemoryPromised!LogNext

\* Deletion keeps the epoch of the lease.
LEMMA DeleteSteps ==
  ASSUME MemoryInv, closed' \in BOOLEAN, memoryDeleteRun
  PROVE  StepOK
<1>1. /\ memStatus' = NoRun /\ entries' = <<>> /\ answered' = answered /\ expired' = FALSE
      /\ memLease'.holder = Unheld /\ memLease'.epoch = memLease.epoch
      /\ memLease' \in [holder : Holders \cup {Unheld}, epoch : Nat]
  BY Zenon DEF memoryDeleteRun, MemoryInv, MemoryTypeOK
<1>2. <<>> \in Seq(Entries) /\ KeysDiffer(<<>>) /\ ~InMap'
  BY <1>1 DEF KeysDiffer, InMap
<1>3. MemoryTypeOK'
  BY <1>1, <1>2 DEF MemoryInv, MemoryTypeOK
<1>4. MemoryInv'
  BY <1>1, <1>2, <1>3 DEF MemoryInv, MemoryEpochsNameHolders, KeysDiffer
<1>5. MemoryPromised!Delete
  BY <1>1, <1>2 DEF MemoryPromised!Delete
<1> QED BY <1>4, <1>5 DEF StepOK, MemoryPromised!LogNext

\* An append by the current holder records one event of its epoch.
LEMMA AppendSteps ==
  ASSUME MemoryInv, closed' \in BOOLEAN, NEW l \in answered, NEW e \in Events, NEW n, memoryAppend(l, e, n),
         ~KeyIsIn(e.key, entries), Len(entries) < MaxSeq
  PROVE  StepOK
<1>0. entries \in Seq(Entries) /\ ~(Len(entries) >= MaxSeq)
  BY JournalAssumption DEF MemoryInv, MemoryTypeOK
<1>1. /\ memLease.holder = l.holder /\ memLease.epoch = l.epoch /\ InMap /\ ~KeyIsIn(e.key, entries)
      /\ entries' = Append(entries, [epoch |-> l.epoch, key |-> e.key, body |-> e.body])
      /\ memStatus' = IF e.body \in Statuses THEN e.body ELSE memStatus
      /\ memLease' = memLease /\ expired' = expired /\ answered' = answered
  BY <1>0 DEF memoryAppend, memoryCheckLease, MemoryWrites, recorded, MemoryRun
<1>2. l.epoch \in Nat /\ memLease.holder # Unheld /\ entries \in Seq(Entries) /\ KeysDiffer(entries)
  BY <1>1, JournalAssumption DEF MemoryInv, MemoryTypeOK, Leases
<1>3. /\ entries' \in Seq(Entries) /\ KeysDiffer(entries')
      /\ \A i \in DOMAIN entries : i \in DOMAIN entries' /\ entries'[i] = entries[i]
      /\ \A i \in DOMAIN entries' \ DOMAIN entries : entries'[i].epoch = l.epoch
  <2> DEFINE entry == [epoch |-> l.epoch, key |-> e.key, body |-> e.body]
  <2>1. entry \in Entries /\ entry.key = e.key /\ entry.epoch = l.epoch
    BY <1>2 DEF Events, Entries
  <2>2. entries' = Append(entries, entry)
    BY <1>1
  <2> HIDE DEF entry
  <2> QED BY <1>1, <1>2, <2>1, <2>2, AppendedEntry
<1>4. memStatus' \in Statuses /\ InMap'
  BY <1>1, JournalAssumption DEF MemoryInv, MemoryTypeOK, InMap
<1>5. MemoryTypeOK'
  BY <1>1, <1>3, <1>4 DEF MemoryInv, MemoryTypeOK
<1>6. MemoryInv'
  BY <1>1, <1>3, <1>4, <1>5 DEF MemoryInv, MemoryEpochsNameHolders
<1>7. MemoryPromised!OncePerKey(entries')
  BY <1>3 DEF KeysDiffer, MemoryPromised!OncePerKey
<1>8. MemoryPromised!Record
  BY <1>1, <1>2, <1>3, <1>4, <1>7 DEF MemoryPromised!Record
<1> QED BY <1>6, <1>8 DEF StepOK, MemoryPromised!LogNext

\* Every step keeps the invariant and is a step of the fenced log.
LEMMA MemoryStep == MemoryInv /\ [MemoryNext]_memoryVars => StepOK
<1> SUFFICES ASSUME MemoryInv, [MemoryNext]_memoryVars PROVE StepOK
  OBVIOUS
<1>0. /\ closed \in BOOLEAN /\ expired \in BOOLEAN /\ memLease \in [holder : Holders \cup {Unheld}, epoch : Nat]
      /\ MemoryTypeOK
  BY DEF MemoryInv, MemoryTypeOK
<1>1. CASE UNCHANGED memoryVars \/ memoryClose
  <2>1. UNCHANGED <<memStatus, entries, answered, memLease, expired>> /\ closed' \in BOOLEAN
    BY <1>0, <1>1 DEF memoryVars, memoryClose
  <2> QED BY <1>0, <2>1, LeaseOnlySteps
<1>2. CASE ensureOpen /\ MemoryOperation
  <2>0. closed' \in BOOLEAN
    BY <1>0, <1>2 DEF ensureOpen
  <2>1. ASSUME NEW s \in Statuses, memoryCreateRun(s) PROVE StepOK
    <3>1. /\ ~InMap /\ memStatus' = s /\ entries' = <<>> /\ UNCHANGED <<memLease, expired, answered>>
          /\ <<>> \in Seq(Entries) /\ KeysDiffer(<<>>) /\ DOMAIN <<>> = {}
      BY <2>1 DEF memoryCreateRun, KeysDiffer
    <3> QED BY <2>0, <3>1, CreateSteps
  <2>2. ASSUME NEW s \in Statuses, NEW seeds \in SeedLists, memoryCreateRunWithEvents(s, seeds) PROVE StepOK
    <3>1. /\ ~InMap /\ memStatus' \in Statuses /\ UNCHANGED <<memLease, expired, answered>>
          /\ \A i, k \in DOMAIN seeds : i # k /\ seeds[i].key # NoKey => seeds[i].key # seeds[k].key
          /\ entries' = [i \in DOMAIN seeds |-> [epoch |-> 0, key |-> seeds[i].key, body |-> seeds[i].body]]
      BY <2>2 DEF memoryCreateRunWithEvents
    <3>2. entries' \in Seq(Entries) /\ KeysDiffer(entries') /\ \A i \in DOMAIN entries' : entries'[i].epoch = 0
      BY <3>1, SeededEntries
    <3> QED BY <2>0, <3>1, <3>2, CreateSteps
  <2>3. ASSUME NEW h \in Holders, memoryAcquire(h) \/ memoryTakeoverExpired(h) \/ \E x \in Holders : memoryTakeover(h, x)
        PROVE  StepOK
    BY <2>0, <2>3, GrantSteps DEF memoryAcquire, memoryTakeoverExpired, memoryTakeover
  <2>4. ASSUME NEW l \in answered, memoryRenew(l) PROVE StepOK
    BY <1>0, <2>0, <2>4, LeaseOnlySteps DEF memoryRenew
  <2>5. ASSUME NEW l \in answered, memoryRelease(l) PROVE StepOK
    <3>1. /\ UNCHANGED <<memStatus, entries, answered>> /\ expired' = FALSE
          /\ memLease'.holder = Unheld /\ memLease'.epoch = memLease.epoch
          /\ memLease' \in [holder : Holders \cup {Unheld}, epoch : Nat]
      BY Zenon, <1>0, <2>5 DEF memoryRelease
    <3> QED BY <1>0, <2>0, <3>1, LeaseOnlySteps
  <2>6. ASSUME NEW l \in answered, NEW e \in Events, NEW n, memoryAppend(l, e, n) PROVE StepOK
    <3>1. CASE ~KeyIsIn(e.key, entries) /\ Len(entries) < MaxSeq
      BY <2>0, <2>6, <3>1, AppendSteps
    <3>2. CASE KeyIsIn(e.key, entries) \/ Len(entries) >= MaxSeq
      <4>1. UNCHANGED <<memStatus, entries, answered, memLease, expired>>
        BY <2>6, <3>2 DEF memoryAppend, MemoryWrites, recorded, MemoryRun
      <4> QED BY <1>0, <2>0, <4>1, LeaseOnlySteps
    <3>3. entries \in Seq(Entries) /\ MaxSeq \in Nat
      BY <1>0, JournalAssumption DEF MemoryTypeOK
    <3> QED BY <3>1, <3>2, <3>3
  <2>7. ASSUME memoryDeleteRun PROVE StepOK
    BY <2>0, <2>7, DeleteSteps
  <2>8. CASE MemoryLeaseAges
    BY <1>0, <2>0, <2>8, LeaseOnlySteps DEF MemoryLeaseAges
  <2> QED BY <1>2, <2>1, <2>2, <2>3, <2>4, <2>5, <2>6, <2>7, <2>8 DEF MemoryOperation, memoryDeleteOwnedRun
<1> QED BY <1>1, <1>2 DEF MemoryNext

\* Type correctness and single-holder epochs of the in-memory journal.
THEOREM MemoryInvariant == MemorySpec => []MemoryInv
BY MemoryInitOK, MemoryStep, PTL DEF MemorySpec, StepOK

\* An epoch names one holder across deletions and re-creations of the run.
THEOREM MemoryEpochs == MemorySpec => []MemoryEpochsNameHolders
BY MemoryInvariant, PTL DEF MemoryInv

\* The in-memory journal implements the interface of a run journal.
THEOREM MemoryImplementsFencedLog == MemorySpec => MemoryIsFencedLog
<1>1. MemoryInit => MemoryPromised!LogInit
  BY DEF MemoryInit, MemoryPromised!LogInit, InMap
<1> QED BY <1>1, MemoryInitOK, MemoryStep, PTL DEF MemorySpec, StepOK, MemoryIsFencedLog, MemoryPromised!LogSpec
=============================================================================
