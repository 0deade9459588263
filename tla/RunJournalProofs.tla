-------------------------- MODULE RunJournalProofs --------------------------
(***************************************************************************)
(* Proofs about the run journal, for any number of holders, keys, payloads *)
(* and statuses and any counter limits.                                    *)
(*                                                                         *)
(* The argument.  An epoch is granted once because the lease row's epoch   *)
(* bounds every epoch granted so far and deletion keeps the row; the log   *)
(* is ordered because the same number bounds every epoch in the log and an *)
(* append carries exactly it.  JournalOK collects what one append keeps.   *)
(***************************************************************************)
EXTENDS RunJournal, TLAPS

NonDecreasing(events) ==
  \A i, k \in DOMAIN events : i <= k => events[i].epoch <= events[k].epoch

\* What holds of the log and the status of a run that exists.
JournalOK(j, first, epoch) ==
  /\ j \in [log : Seq(Entries), status : Statuses]
  /\ NonDecreasing(j.log)
  /\ \A i \in DOMAIN j.log : j.log[i].epoch <= epoch
  /\ DistinctKeys(j.log)
  /\ LatestStatus(j.status, j.log, first)

\* j2 is j with events of one epoch added at the end.
Extends(j, j2, epoch) ==
  /\ \A i \in DOMAIN j.log : i \in DOMAIN j2.log /\ j2.log[i] = j.log[i]
  /\ \A i \in DOMAIN j2.log \ DOMAIN j.log : j2.log[i].epoch = epoch

\* One append by the holder of the latest epoch keeps everything that holds of
\* a log and its status, whether it is refused, finds its key or is recorded.
LEMMA InsertKeeps ==
  ASSUME NEW j, NEW first \in Statuses, NEW epoch \in Nat, NEW r \in Requests,
         JournalOK(j, first, epoch)
  PROVE  JournalOK(insert(j, epoch, r), first, epoch) /\ Extends(j, insert(j, epoch, r), epoch)
<1> DEFINE events == j.log
           e  == [epoch |-> epoch, key |-> r.key, body |-> r.body]
           j2 == insert(j, epoch, r)
<1>1. CASE r = Refused \/ HasKey(events, r.key) \/ Len(events) >= MaxSeq
  <2>1. j2 = j
    BY <1>1 DEF insert
  <2> QED BY <2>1 DEF Extends
<1>2. CASE ~(r = Refused \/ HasKey(events, r.key) \/ Len(events) >= MaxSeq)
  <2>1. r \in Events
    BY <1>2 DEF Requests
  <2>2. events \in Seq(Entries) /\ j.status \in Statuses /\ e \in Entries
    BY <2>1 DEF JournalOK, Entries, Events
  <2>3. /\ j2 = [log |-> Append(events, e), status |-> IF r.body \in Statuses THEN r.body ELSE j.status]
        /\ j2.log = Append(events, e)
        /\ j2.status = IF r.body \in Statuses THEN r.body ELSE j.status
    BY <1>2 DEF insert
  <2> DEFINE n == Len(events) + 1
  <2>4. /\ n \in Nat
        /\ DOMAIN events = 1..Len(events) /\ DOMAIN j2.log = 1..n
        /\ j2.log[n] = e
        /\ \A i \in DOMAIN events : j2.log[i] = events[i]
        /\ DOMAIN j2.log = DOMAIN events \cup {n} /\ n \notin DOMAIN events
        /\ \A i \in DOMAIN events : i < n /\ i \in Nat
    BY <2>2, <2>3
  <2>5. /\ e.epoch = epoch /\ e.key = r.key /\ e.body = r.body
    OBVIOUS
  <2>6. j2 \in [log : Seq(Entries), status : Statuses]
    <3>1. Append(events, e) \in Seq(Entries)
      BY <2>2
    <3> QED BY <2>2, <2>3, <3>1
  <2> HIDE DEF e, j2, n, events
  <2>7. /\ \A i \in DOMAIN events : events[i].epoch \in Nat /\ events[i].epoch <= epoch
        /\ NonDecreasing(events) /\ DistinctKeys(events)
        /\ LatestStatus(j.status, events, first)
    <3>1. \A i \in DOMAIN events : events[i] \in Entries
      BY <2>2
    <3>2. \A i \in DOMAIN events : events[i].epoch \in Nat
      BY <3>1 DEF Entries
    <3> QED BY <3>2 DEF JournalOK, events
  <2>8. NonDecreasing(j2.log) /\ \A i \in DOMAIN j2.log : j2.log[i].epoch <= epoch
    BY SMTT(60), <2>4, <2>5, <2>7 DEF NonDecreasing
  <2>9. DistinctKeys(j2.log)
    <3>1. \A i \in DOMAIN events : r.key # NoKey => events[i].key # r.key
      BY <1>2 DEF HasKey
    <3> QED BY <2>4, <2>5, <2>7, <3>1 DEF DistinctKeys
  <2>10. LatestStatus(j2.status, j2.log, first)
    <3> DEFINE changes(s) == {i \in DOMAIN s : s[i].body \in Statuses}
    <3>1. CASE r.body \in Statuses
      <4>1. n \in changes(j2.log) /\ \A k \in changes(j2.log) : k <= n
        BY <2>4, <2>5, <3>1
      <4>2. j2.status = j2.log[n].body
        BY <2>3, <2>4, <2>5, <3>1
      <4> QED BY <4>1, <4>2 DEF LatestStatus
    <3>2. CASE r.body \notin Statuses
      <4>1. changes(j2.log) = changes(events)
        BY <2>4, <2>5, <3>2
      <4>2. j2.status = j.status
        BY <2>3, <3>2
      <4> QED BY <4>1, <4>2, <2>4, <2>7 DEF LatestStatus
    <3> QED BY <3>1, <3>2
  <2>11. Extends(j, j2, epoch)
    BY <2>4, <2>5 DEF Extends, events
  <2> QED BY <2>6, <2>8, <2>9, <2>10, <2>11 DEF JournalOK, j2
<1> QED BY <1>1, <1>2

\* Both forms of appendMany do the same to a log and its status, whatever the
\* batch: the claim of the comment on appendInOneRequest.
LEMMA BatchesAgree ==
  ASSUME NEW j, NEW jlog, NEW jstatus, j = [log |-> jlog, status |-> jstatus],
         Len(jlog) \in Nat, NEW l, NEW r1, NEW r2,
         jlog \in Seq(Entries), r1 \in Requests, r2 \in Requests, l.epoch \in Nat
  PROVE  RequestBatch(j, l, r1, r2) = SavepointBatch(j, l, r1, r2)
<1>1. ASSUME NEW k, NEW klog \in Seq(Entries), NEW kstatus, k = [log |-> klog, status |-> kstatus],
             NEW r \in Requests
      PROVE  /\ GuardedInsert(k, l, r) = IF checkLease(l) THEN insert(k, l.epoch, r) ELSE k
             /\ \E mlog \in Seq(Entries) : \E mstatus : GuardedInsert(k, l, r) = [log |-> mlog, status |-> mstatus]
  <2> DEFINE inserts == r # Refused /\ Len(klog) < MaxSeq /\ checkLease(l) /\ ~HasKey(klog, r.key)
             event   == [epoch |-> l.epoch, key |-> r.key, body |-> r.body]
             g       == GuardedInsert(k, l, r)
  <2>1. Len(klog) \in Nat /\ MaxSeq \in Nat
    BY <1>1, JournalAssumption
  <2>2. k.log = klog /\ k.status = kstatus
    BY <1>1
  <2>3. g = [log    |-> IF inserts THEN Append(klog, event) ELSE klog,
             status |-> IF inserts /\ r.body \in Statuses THEN r.body ELSE kstatus]
    BY <2>2 DEF GuardedInsert
  <2>4. CASE inserts
    <3>1. event \in Entries
      BY <2>4, <1>1 DEF Requests, Events, Entries
    <3>2. Append(klog, event) \in Seq(Entries)
      BY <3>1
    <3>3. ~(r = Refused \/ HasKey(klog, r.key) \/ Len(klog) >= MaxSeq) /\ checkLease(l)
      BY <2>1, <2>4
    <3> HIDE DEF inserts
    <3>4. g = [log |-> Append(klog, event), status |-> IF r.body \in Statuses THEN r.body ELSE kstatus]
      BY <2>3, <2>4
    <3>5. insert(k, l.epoch, r) = g
      BY <2>2, <3>3, <3>4 DEF insert
    <3> QED BY Zenon, <3>2, <3>3, <3>4, <3>5
  <2>5. CASE ~inserts
    <3>1. checkLease(l) => (r = Refused \/ HasKey(klog, r.key) \/ Len(klog) >= MaxSeq)
      BY <2>1, <2>5
    <3> HIDE DEF inserts
    <3>2. g = k
      BY <1>1, <2>3, <2>5
    <3>3. checkLease(l) => insert(k, l.epoch, r) = k
      BY <2>2, <3>1 DEF insert
    <3> QED BY Zenon, <3>2, <3>3, <1>1
  <2> QED BY <2>4, <2>5
<1> DEFINE g1 == GuardedInsert(j, l, r1)
<1>2. /\ g1 = IF checkLease(l) THEN insert(j, l.epoch, r1) ELSE j
      /\ \E mlog \in Seq(Entries) : \E mstatus : g1 = [log |-> mlog, status |-> mstatus]
  BY ZenonT(60), <1>1
<1> HIDE DEF g1
<1>3. GuardedInsert(g1, l, r2) = IF checkLease(l) THEN insert(g1, l.epoch, r2) ELSE g1
  BY <1>1, <1>2
<1> QED BY <1>2, <1>3 DEF RequestBatch, SavepointBatch, g1

-----------------------------------------------------------------------------
(* The inductive invariant *)

LeaseInv ==
  /\ \A l \in granted : l.epoch <= lease.epoch
  /\ OneHolderPerEpoch
  /\ HeldRunExists

LogInv ==
  /\ Exists => JournalOK(Journal, header, lease.epoch)
  /\ ~Exists => log = <<>> /\ status = NoRun

JournalInv == TypeOK /\ LeaseInv /\ LogInv

\* The empty journal satisfies the invariant.
LEMMA JournalInit == Init => JournalInv
BY JournalAssumption DEF Init, JournalInv, TypeOK, LeaseInv, LogInv, OneHolderPerEpoch, HeldRunExists, Exists

\* Writing a journal that satisfies JournalOK for the current epoch keeps the
\* invariant: nothing else changes.
LEMMA WriteKeeps ==
  ASSUME JournalInv, Exists, NEW j, JournalOK(j, header, lease.epoch), Write(j)
  PROVE  JournalInv'
<1>1. /\ log' = j.log /\ status' = j.status
      /\ header' = header /\ lease' = lease /\ granted' = granted
  BY DEF Write
<1>2. j = [log |-> j.log, status |-> j.status] /\ j.log \in Seq(Entries) /\ j.status \in Statuses
  BY DEF JournalOK
<1>3. TypeOK'
  BY <1>1, <1>2 DEF JournalInv, TypeOK
<1>4. LeaseInv'
  BY <1>1 DEF JournalInv, LeaseInv, OneHolderPerEpoch, HeldRunExists, Exists
<1>5. Journal' = j /\ Exists'
  BY <1>1, <1>2 DEF Journal, Exists
<1>6. LogInv'
  BY <1>1, <1>5 DEF LogInv, Exists, JournalOK
<1> QED BY <1>3, <1>4, <1>6 DEF JournalInv

\* A grant raises the epoch above every epoch granted or recorded so far.
LEMMA GrantKeeps ==
  ASSUME JournalInv, Exists, NEW h \in Holders, grant(h)
  PROVE  JournalInv'
<1>1. /\ lease' = [holder |-> h, epoch |-> lease.epoch + 1, stale |-> FALSE]
      /\ granted' = granted \cup {[holder |-> h, epoch |-> lease.epoch + 1]}
      /\ header' = header /\ status' = status /\ log' = log
  BY DEF grant
<1>2. lease.epoch \in Nat /\ lease'.epoch = lease.epoch + 1 /\ lease'.holder = h
  BY <1>1 DEF JournalInv, TypeOK
<1>3. TypeOK'
  BY <1>1, <1>2 DEF JournalInv, TypeOK, Leases
<1>4. \A l \in granted : l.epoch \in Nat /\ l.epoch <= lease.epoch
  BY DEF JournalInv, TypeOK, LeaseInv, Leases
<1>5. LeaseInv'
  BY <1>1, <1>2, <1>4 DEF JournalInv, LeaseInv, OneHolderPerEpoch, HeldRunExists, Exists
<1>6. LogInv'
  <2>1. Journal' = Journal /\ Exists'
    BY <1>1 DEF Journal, Exists
  <2>2. \A i \in DOMAIN log : log[i] \in Entries
    BY DEF JournalInv, TypeOK
  <2>3. \A i \in DOMAIN log : log[i].epoch \in Nat
    BY <2>2 DEF Entries
  <2>4. Journal.log = log
    BY DEF Journal
  <2>5. JournalOK(Journal, header, lease.epoch)
    BY DEF JournalInv, LogInv
  <2>6. JournalOK(Journal, header, lease.epoch + 1)
    BY <2>3, <2>4, <2>5, <1>2 DEF JournalOK
  <2> QED BY <1>1, <1>2, <2>1, <2>6 DEF LogInv
<1> QED BY <1>3, <1>5, <1>6 DEF JournalInv

\* Deletion leaves an unheld lease row at its epoch and nothing else.
LEMMA DeleteKeeps ==
  ASSUME JournalInv, deleteRunData
  PROVE  JournalInv'
<1>1. /\ header' = NoRun /\ status' = NoRun /\ log' = <<>> /\ granted' = granted
      /\ lease' = [lease EXCEPT !.holder = Unheld, !.stale = FALSE]
      /\ lease'.epoch = lease.epoch /\ lease'.holder = Unheld
  BY DEF deleteRunData, JournalInv, TypeOK
<1>2. TypeOK'
  <2>1. lease' \in [holder : Holders \cup {Unheld}, epoch : Nat, stale : BOOLEAN]
    BY Zenon, <1>1 DEF JournalInv, TypeOK
  <2>2. log' \in Seq(Entries)
    BY <1>1
  <2> QED BY <1>1, <2>1, <2>2 DEF JournalInv, TypeOK
<1>3. LeaseInv'
  BY <1>1 DEF JournalInv, LeaseInv, OneHolderPerEpoch, HeldRunExists
<1>4. LogInv'
  BY <1>1 DEF LogInv, Exists
<1> QED BY <1>2, <1>3, <1>4 DEF JournalInv

\* Steps that change only the lease row, and leave its epoch.
LEMMA SameEpochKeeps ==
  ASSUME JournalInv, UNCHANGED <<header, status, log, granted>>,
         lease' \in [holder : Holders \cup {Unheld}, epoch : Nat, stale : BOOLEAN],
         lease'.epoch = lease.epoch, lease'.holder \in {Unheld, lease.holder}
  PROVE  JournalInv'
<1>1. TypeOK'
  BY DEF JournalInv, TypeOK
<1>2. LeaseInv'
  BY DEF JournalInv, LeaseInv, OneHolderPerEpoch, HeldRunExists, Exists
<1>3. Journal' = Journal /\ (Exists <=> Exists') /\ header' = header /\ lease'.epoch = lease.epoch
  BY DEF Journal, Exists
<1>4. LogInv'
  BY <1>3 DEF JournalInv, LogInv, Exists
<1> QED BY <1>1, <1>2, <1>4 DEF JournalInv

\* A new run starts with its seed events, all at the absent epoch.
LEMMA SeedKeeps ==
  ASSUME JournalInv, NEW s \in Statuses, NEW seeds \in SeedLists, createRunWithEvents(s, seeds)
  PROVE  JournalInv'
<1> DEFINE seeded == [i \in DOMAIN seeds |-> [epoch |-> 0, key |-> seeds[i].key, body |-> seeds[i].body]]
<1>1. /\ header' = s /\ log' = seeded /\ status' \in Statuses
      /\ LatestStatus(status', seeds, s) /\ DistinctKeys(seeds)
      /\ lease' = lease /\ granted' = granted
  BY DEF createRunWithEvents
<1>2. PICK n \in 0..MaxSeeds : seeds \in [1..n -> Events]
  BY DEF SeedLists
<1>3. n \in Nat /\ DOMAIN seeds = 1..n /\ \A i \in 1..n : seeds[i] \in Events
  BY <1>2, JournalAssumption
<1>4. DOMAIN seeded = DOMAIN seeds /\ \A i \in DOMAIN seeds :
        /\ seeded[i] = [epoch |-> 0, key |-> seeds[i].key, body |-> seeds[i].body]
        /\ seeded[i].epoch = 0 /\ seeded[i].key = seeds[i].key /\ seeded[i].body = seeds[i].body
  OBVIOUS
<1>5. seeded \in Seq(Entries)
  <2>1. \A i \in 1..n : seeded[i] \in Entries
    BY <1>3, <1>4 DEF Events, Entries
  <2> QED BY <2>1, <1>3, <1>4
<1> HIDE DEF seeded
<1>6. TypeOK'
  BY <1>1, <1>5 DEF JournalInv, TypeOK
<1>7. LeaseInv'
  BY <1>1, JournalAssumption DEF JournalInv, LeaseInv, OneHolderPerEpoch, HeldRunExists, Exists
<1>8. JournalOK(Journal', s, lease.epoch)
  <2>1. Journal' = [log |-> seeded, status |-> status'] /\ Journal'.log = seeded /\ Journal'.status = status'
    BY <1>1 DEF Journal
  <2>2. NonDecreasing(seeded) /\ \A i \in DOMAIN seeded : seeded[i].epoch <= lease.epoch
    <3>1. lease.epoch \in Nat
      BY DEF JournalInv, TypeOK
    <3> QED BY <1>4, <3>1 DEF NonDecreasing
  <2>3. DistinctKeys(seeded)
    BY <1>1, <1>4 DEF DistinctKeys
  <2>4. LatestStatus(status', seeded, s)
    <3>1. {i \in DOMAIN seeded : seeded[i].body \in Statuses} = {i \in DOMAIN seeds : seeds[i].body \in Statuses}
      BY <1>4
    <3> QED BY <1>1, <1>4, <3>1 DEF LatestStatus
  <2> QED BY <1>1, <1>5, <2>1, <2>2, <2>3, <2>4 DEF JournalOK
<1>9. LogInv'
  BY <1>1, <1>8, JournalAssumption DEF LogInv, Exists
<1> QED BY <1>6, <1>7, <1>9 DEF JournalInv

\* Every step keeps the invariant.
LEMMA JournalStep == JournalInv /\ [Next]_journalVars => JournalInv'
<1> SUFFICES ASSUME JournalInv, [Next]_journalVars PROVE JournalInv'
  OBVIOUS
<1> USE DEF JournalInv
<1>1. CASE UNCHANGED journalVars
  <2>1. UNCHANGED <<header, status, log, granted>> /\ lease' = lease
    BY <1>1 DEF journalVars
  <2>2. lease' \in [holder : Holders \cup {Unheld}, epoch : Nat, stale : BOOLEAN]
    BY <2>1 DEF TypeOK
  <2> QED BY <2>1, <2>2, SameEpochKeeps
<1>2. ASSUME NEW s \in Statuses, createRun(s) PROVE JournalInv'
  <2>1. header' = s /\ status' = s /\ log' = log /\ lease' = lease /\ granted' = granted /\ log = <<>>
    BY <1>2 DEF createRun, LogInv
  <2>2. TypeOK'
    BY <2>1 DEF TypeOK
  <2>3. LeaseInv'
    BY <2>1, JournalAssumption DEF LeaseInv, OneHolderPerEpoch, HeldRunExists, Exists
  <2>4. JournalOK(Journal', s, lease.epoch)
    <3>1. Journal' = [log |-> <<>>, status |-> s] /\ Journal'.log = <<>> /\ Journal'.status = s
      BY <2>1 DEF Journal
    <3>2. <<>> \in Seq(Entries) /\ DOMAIN <<>> = {}
      OBVIOUS
    <3>3. NonDecreasing(<<>>) /\ DistinctKeys(<<>>) /\ LatestStatus(s, <<>>, s)
      BY <3>2 DEF NonDecreasing, DistinctKeys, LatestStatus
    <3> QED BY <3>1, <3>2, <3>3 DEF JournalOK
  <2>5. LogInv'
    BY <2>1, <2>4, JournalAssumption DEF LogInv, Exists
  <2> QED BY <2>2, <2>3, <2>5
<1>3. ASSUME NEW s \in Statuses, NEW seeds \in SeedLists, createRunWithEvents(s, seeds) PROVE JournalInv'
  BY <1>3, SeedKeeps
<1>4. ASSUME deleteRun PROVE JournalInv'
  BY <1>4, DeleteKeeps DEF deleteRun
<1>5. ASSUME NEW h \in Holders, acquire(h) \/ takeoverExpired(h) \/ \E x \in Holders : takeover(h, x)
      PROVE  JournalInv'
  BY <1>5, GrantKeeps DEF acquire, takeoverExpired, takeover
<1>6. ASSUME NEW l \in granted, renew(l) \/ release(l) PROVE JournalInv'
  <2>1. /\ UNCHANGED <<header, status, log, granted>>
        /\ \/ lease' = [lease EXCEPT !.stale = FALSE]
           \/ lease' = [lease EXCEPT !.holder = Unheld, !.stale = FALSE]
    BY <1>6 DEF renew, release
  <2>2. /\ lease' \in [holder : Holders \cup {Unheld}, epoch : Nat, stale : BOOLEAN]
        /\ lease'.epoch = lease.epoch /\ lease'.holder \in {Unheld, lease.holder}
    BY Zenon, <2>1 DEF TypeOK
  <2> QED BY <2>1, <2>2, SameEpochKeeps
<1>7. ASSUME LeaseAges PROVE JournalInv'
  <2>1. UNCHANGED <<header, status, log, granted>> /\ lease' = [lease EXCEPT !.stale = TRUE]
    BY <1>7 DEF LeaseAges
  <2>2. /\ lease' \in [holder : Holders \cup {Unheld}, epoch : Nat, stale : BOOLEAN]
        /\ lease'.epoch = lease.epoch /\ lease'.holder \in {Unheld, lease.holder}
    BY Zenon, <2>1 DEF TypeOK
  <2> QED BY <2>1, <2>2, SameEpochKeeps
<1>8. ASSUME NEW l \in granted, NEW e \in Expected, deleteOwnedRun(l, e) PROVE JournalInv'
  BY <1>8, DeleteKeeps DEF deleteOwnedRun
<1>9. ASSUME NEW l \in granted, checkLease(l)
      PROVE  /\ Exists /\ JournalOK(Journal, header, lease.epoch) /\ l.epoch = lease.epoch
             /\ header \in Statuses /\ lease.epoch \in Nat
  <2>1. l.holder # Unheld /\ l.epoch = lease.epoch /\ lease.holder = l.holder
    BY <1>9, JournalAssumption DEF checkLease, TypeOK, Leases
  <2> QED BY <2>1 DEF LeaseInv, HeldRunExists, LogInv, Exists, TypeOK
<1>10. ASSUME NEW l \in granted, NEW r \in Requests, NEW e \in Expected, append(l, r, e) PROVE JournalInv'
  <2>1. checkLease(l) /\ Write(insert(Journal, l.epoch, r))
    BY <1>10 DEF append
  <2>2. JournalOK(insert(Journal, lease.epoch, r), header, lease.epoch)
    BY <2>1, <1>9, InsertKeeps
  <2> QED BY <2>1, <2>2, <1>9, WriteKeeps
<1>11. ASSUME NEW l \in granted, NEW r1 \in Requests, NEW r2 \in Requests, appendMany(l, r1, r2)
       PROVE  JournalInv'
  <2>1. checkLease(l)
    BY <1>11 DEF appendMany
  <2>2. RequestBatch(Journal, l, r1, r2) = SavepointBatch(Journal, l, r1, r2)
    BY <1>9, <2>1, BatchesAgree DEF Journal, TypeOK
  <2>3. Write(insert(insert(Journal, l.epoch, r1), l.epoch, r2))
    BY <1>11, <2>1, <2>2 DEF appendMany, SavepointBatch
  <2>4. JournalOK(insert(insert(Journal, lease.epoch, r1), lease.epoch, r2), header, lease.epoch)
    BY <1>9, <2>1, InsertKeeps
  <2> QED BY <1>9, <2>1, <2>3, <2>4, WriteKeeps
<1> QED BY <1>1, <1>2, <1>3, <1>4, <1>5, <1>6, <1>7, <1>8, <1>10, <1>11 DEF Next

\* The invariant holds of every reachable state.
THEOREM JournalInvariant == Spec => []JournalInv
BY JournalInit, JournalStep, PTL DEF Spec

\* Type correctness of the journal's rows.
THEOREM JournalTypes == Spec => []TypeOK
BY JournalInvariant, PTL DEF JournalInv

\* An epoch names one holder for the whole life of a run id, deletions and
\* re-creations of the run included.
THEOREM EpochsNameHolders == Spec => []OneHolderPerEpoch
BY JournalInvariant, PTL DEF JournalInv, LeaseInv

\* A run with a holder exists, which append and renew rely on.
THEOREM HeldRunsExist == Spec => []HeldRunExists
BY JournalInvariant, PTL DEF JournalInv, LeaseInv

\* What the invariant says of the log and the status column.
LEMMA LogFacts == JournalInv => EpochsOrdered /\ KeysOnce /\ StatusIsLatest
<1> SUFFICES ASSUME JournalInv PROVE EpochsOrdered /\ KeysOnce /\ StatusIsLatest
  OBVIOUS
<1>1. Journal.log = log /\ Journal.status = status
  BY DEF Journal
<1>2. CASE Exists
  BY <1>1, <1>2 DEF JournalInv, LogInv, JournalOK, NonDecreasing, EpochsOrdered, KeysOnce, StatusIsLatest
<1>3. CASE ~Exists
  <2>1. log = <<>> /\ DOMAIN <<>> = {}
    BY <1>3 DEF JournalInv, LogInv
  <2> QED BY <1>3, <2>1 DEF EpochsOrdered, KeysOnce, DistinctKeys, StatusIsLatest
<1> QED BY <1>2, <1>3

\* Along the log, epochs never decrease: the lease check of append refuses a
\* holder once a later epoch was granted.
THEOREM LogIsOrdered == Spec => []EpochsOrdered
BY LogFacts, JournalInvariant, PTL

\* No key is recorded twice, whichever path wrote it.
THEOREM KeysAreUnique == Spec => []KeysOnce
BY LogFacts, JournalInvariant, PTL

\* The status column is what replaying the log from the header gives.
THEOREM StatusFollowsLog == Spec => []StatusIsLatest
BY LogFacts, JournalInvariant, PTL

\* The two forms of appendMany agree in every reachable state.
THEOREM BatchFormsAgree == Spec => []BatchPathsAgree
<1>1. JournalInv => BatchPathsAgree
  <2> SUFFICES ASSUME JournalInv, NEW l \in granted, NEW r1 \in Requests, NEW r2 \in Requests
               PROVE  RequestBatch(Journal, l, r1, r2) = SavepointBatch(Journal, l, r1, r2)
    BY DEF BatchPathsAgree
  <2>1. log \in Seq(Entries) /\ l.epoch \in Nat
    BY DEF JournalInv, TypeOK, Leases
  <2> QED BY <2>1, BatchesAgree DEF Journal
<1> QED BY <1>1, JournalInvariant, PTL

\* All of it together: epochs, log, status, holder and both forms of appendMany.
THEOREM JournalIsSound == Spec => []JournalSound
BY JournalTypes, EpochsNameHolders, LogIsOrdered, KeysAreUnique, StatusFollowsLog, HeldRunsExist, BatchFormsAgree, PTL
DEF JournalSound

-----------------------------------------------------------------------------
(* Action properties *)

\* What one step may do to the log.
LogStep ==
  /\ \A i \in DOMAIN log' \ DOMAIN log :
       \/ ~Exists /\ log'[i].epoch = 0
       \/ \A l \in granted : l.epoch <= log'[i].epoch
  /\ header' # NoRun => \A i \in DOMAIN log : i \in DOMAIN log' /\ log'[i] = log[i]

\* A write under a checked lease adds events of the latest epoch granted, and
\* changes nothing that was recorded.
LEMMA WriteStep ==
  ASSUME JournalInv, NEW j, Write(j), Extends(Journal, j, lease.epoch)
  PROVE  LogStep
<1>1. log' = j.log /\ Journal.log = log /\ \A l \in granted : l.epoch <= lease.epoch
  BY DEF Write, Journal, JournalInv, LeaseInv
<1> QED BY <1>1 DEF LogStep, Extends

\* Every step satisfies LogStep.
LEMMA StepOfLog == JournalInv /\ [Next]_journalVars => LogStep
<1> SUFFICES ASSUME JournalInv, [Next]_journalVars PROVE LogStep
  OBVIOUS
<1>1. ASSUME log' = log PROVE LogStep
  BY <1>1 DEF LogStep
<1>2. ASSUME deleteRunData PROVE LogStep
  BY <1>2 DEF LogStep, deleteRunData
<1>3. ASSUME NEW s \in Statuses, NEW seeds \in SeedLists, createRunWithEvents(s, seeds) PROVE LogStep
  <2>1. /\ ~Exists /\ log = <<>> /\ DOMAIN <<>> = {}
        /\ log' = [i \in DOMAIN seeds |-> [epoch |-> 0, key |-> seeds[i].key, body |-> seeds[i].body]]
    BY <1>3 DEF createRunWithEvents, JournalInv, LogInv
  <2>2. \A i \in DOMAIN log' : log'[i].epoch = 0
    BY <2>1
  <2> QED BY <2>1, <2>2 DEF LogStep
<1>4. ASSUME NEW l \in granted, checkLease(l)
      PROVE  JournalOK(Journal, header, lease.epoch) /\ l.epoch = lease.epoch /\ header \in Statuses /\ lease.epoch \in Nat
  <2>1. l.holder # Unheld /\ l.epoch = lease.epoch /\ lease.holder = l.holder
    BY <1>4, JournalAssumption DEF checkLease, JournalInv, TypeOK, Leases
  <2> QED BY <2>1 DEF JournalInv, LeaseInv, HeldRunExists, LogInv, Exists, TypeOK
<1>5. ASSUME NEW l \in granted, NEW r \in Requests, NEW e \in Expected, append(l, r, e) PROVE LogStep
  <2>1. checkLease(l) /\ Write(insert(Journal, l.epoch, r))
    BY <1>5 DEF append
  <2>2. Extends(Journal, insert(Journal, lease.epoch, r), lease.epoch)
    BY Zenon, <2>1, <1>4, InsertKeeps
  <2> QED BY <2>1, <2>2, <1>4, WriteStep
<1>6. ASSUME NEW l \in granted, NEW r1 \in Requests, NEW r2 \in Requests, appendMany(l, r1, r2) PROVE LogStep
  <2> DEFINE j1 == insert(Journal, lease.epoch, r1)
             j2 == insert(j1, lease.epoch, r2)
  <2>1. checkLease(l)
    BY <1>6 DEF appendMany
  <2>2. RequestBatch(Journal, l, r1, r2) = SavepointBatch(Journal, l, r1, r2)
    BY <1>4, <2>1, BatchesAgree DEF Journal, JournalInv, TypeOK
  <2>3. Write(j2)
    BY <1>4, <1>6, <2>1, <2>2 DEF appendMany, SavepointBatch
  <2>4. JournalOK(j1, header, lease.epoch) /\ Extends(Journal, j1, lease.epoch)
    BY Zenon, <1>4, <2>1, InsertKeeps
  <2> HIDE DEF j1
  <2>5. Extends(j1, j2, lease.epoch)
    BY Zenon, <1>4, <2>1, <2>4, InsertKeeps
  <2> HIDE DEF j2
  <2>6. Extends(Journal, j2, lease.epoch)
    BY <2>4, <2>5 DEF Extends
  <2> QED BY <2>3, <2>6, WriteStep
<1>7. ASSUME NEW h \in Holders, acquire(h) \/ takeoverExpired(h) \/ \E x \in Holders : takeover(h, x)
      PROVE  log' = log
  BY <1>7 DEF acquire, takeoverExpired, takeover, grant
<1>8. ASSUME NEW l \in granted, renew(l) \/ release(l) PROVE log' = log
  BY <1>8 DEF renew, release
<1> QED BY <1>1, <1>2, <1>3, <1>5, <1>6, <1>7, <1>8
        DEF Next, journalVars, createRun, deleteRun, deleteOwnedRun, LeaseAges

\* A superseded holder writes nothing: what a step adds to the log carries the
\* latest epoch ever granted, or is a seed of a new run.
THEOREM SupersededHoldersAreFenced == Spec => OnlyLatestHolderWrites
<1>1. JournalInv /\ [Next]_journalVars =>
        [\A i \in DOMAIN log' \ DOMAIN log :
           \/ ~Exists /\ log'[i].epoch = 0
           \/ \A l \in granted : l.epoch <= log'[i].epoch]_journalVars
  BY StepOfLog DEF LogStep
<1> QED BY <1>1, JournalInvariant, PTL DEF Spec, OnlyLatestHolderWrites

\* Events stay as recorded until the run is deleted.
THEOREM EventsAreStable == Spec => LogOnlyGrows
<1>1. JournalInv /\ [Next]_journalVars =>
        [header' # NoRun => \A i \in DOMAIN log : i \in DOMAIN log' /\ log'[i] = log[i]]_journalVars
  BY StepOfLog DEF LogStep
<1> QED BY <1>1, JournalInvariant, PTL DEF Spec, LogOnlyGrows

-----------------------------------------------------------------------------
(* Refinement *)

\* The keys of the log stay distinct after a step that keeps the invariant.
LEMMA KeysNext == JournalInv' => KeysOnce'
BY LogFacts, PTL

\* Under a checked lease, an append of either kind is a Record step.
LEMMA WriteRecords ==
  ASSUME JournalInv, JournalInv', Exists, lease.holder # Unheld,
         NEW j, Write(j), Extends(Journal, j, lease.epoch)
  PROVE  Promised!Record
<1>1. /\ log' = j.log /\ Journal.log = log
      /\ header' = header /\ lease' = lease
  BY DEF Write, Journal
<1>2. log' \in Seq(Entries)
  BY DEF JournalInv, TypeOK
<1>3. DistinctKeys(log')
  BY KeysNext DEF KeysOnce
<1>4. /\ \A i \in DOMAIN log : i \in DOMAIN log' /\ log'[i] = log[i]
      /\ \A i \in DOMAIN log' \ DOMAIN log : log'[i].epoch = lease.epoch
  BY <1>1 DEF Extends
<1>5. Promised!OncePerKey(log')
  BY <1>3 DEF DistinctKeys, Promised!OncePerKey
<1> QED BY <1>1, <1>2, <1>4, <1>5 DEF Promised!Record, Exists

\* Every step of the SQL journal is a step of the fenced log, or leaves what
\* the fenced log shows unchanged (renewals, the age of a lease, a repeated
\* or refused append).
LEMMA RefinedStep ==
  JournalInv /\ JournalInv' /\ [Next]_journalVars => [Promised!LogNext]_(Promised!logVars)
<1> SUFFICES ASSUME JournalInv, JournalInv', [Next]_journalVars
             PROVE  Promised!LogNext \/ UNCHANGED Promised!logVars
  OBVIOUS
<1> USE DEF Promised!LogNext, Promised!logVars
<1>1. CASE UNCHANGED journalVars
  BY <1>1 DEF journalVars, Exists
<1>2. ASSUME NEW s \in Statuses, createRun(s) PROVE Promised!Create
  <2>1. header' = s /\ log' = log /\ lease' = lease /\ log = <<>> /\ ~Exists /\ DOMAIN <<>> = {}
    BY <1>2 DEF createRun, JournalInv, LogInv
  <2>2. Exists' /\ log' \in Seq(Entries) /\ Promised!OncePerKey(log')
    BY <2>1, JournalAssumption DEF Exists, JournalInv, TypeOK, Promised!OncePerKey
  <2> QED BY <2>1, <2>2 DEF Promised!Create
<1>3. ASSUME NEW s \in Statuses, NEW seeds \in SeedLists, createRunWithEvents(s, seeds) PROVE Promised!Create
  <2>1. /\ header' = s /\ lease' = lease /\ ~Exists
        /\ log' = [i \in DOMAIN seeds |-> [epoch |-> 0, key |-> seeds[i].key, body |-> seeds[i].body]]
    BY <1>3 DEF createRunWithEvents
  <2>2. Exists' /\ log' \in Seq(Entries)
    BY <2>1, JournalAssumption DEF Exists, JournalInv, TypeOK
  <2>3. \A i \in DOMAIN log' : log'[i].epoch = 0
    BY <2>1
  <2>4. DistinctKeys(log')
    BY KeysNext DEF KeysOnce
  <2>5. Promised!OncePerKey(log')
    BY <2>4 DEF DistinctKeys, Promised!OncePerKey
  <2> QED BY <2>1, <2>2, <2>3, <2>5 DEF Promised!Create
<1>4. ASSUME deleteRunData PROVE Promised!Delete
  <2>1. header' = NoRun /\ log' = <<>> /\ lease'.holder = Unheld /\ lease'.epoch = lease.epoch
    BY <1>4 DEF deleteRunData, JournalInv, TypeOK
  <2> QED BY <2>1 DEF Promised!Delete, Exists
<1>5. ASSUME NEW h \in Holders, acquire(h) \/ takeoverExpired(h) \/ \E x \in Holders : takeover(h, x)
      PROVE  Promised!Grant
  BY <1>5 DEF acquire, takeoverExpired, takeover, grant, Promised!Grant, Exists
<1>6. ASSUME NEW l \in granted, release(l) PROVE Promised!Release
  <2>1. header' = header /\ log' = log /\ lease'.holder = Unheld /\ lease'.epoch = lease.epoch
    BY <1>6 DEF release, JournalInv, TypeOK
  <2> QED BY <2>1 DEF Promised!Release, Exists
<1>7. ASSUME \/ \E l \in granted : renew(l)
             \/ LeaseAges
      PROVE  UNCHANGED Promised!logVars
  <2>1. header' = header /\ log' = log /\ lease'.holder = lease.holder /\ lease'.epoch = lease.epoch
    BY <1>7 DEF renew, LeaseAges, JournalInv, TypeOK
  <2> QED BY <2>1 DEF Exists
<1>8. ASSUME NEW l \in granted, checkLease(l)
      PROVE  /\ JournalOK(Journal, header, lease.epoch) /\ l.epoch = lease.epoch
             /\ header \in Statuses /\ lease.epoch \in Nat /\ Exists /\ lease.holder # Unheld
  <2>1. l.holder # Unheld /\ l.epoch = lease.epoch /\ lease.holder = l.holder
    BY <1>8, JournalAssumption DEF checkLease, JournalInv, TypeOK, Leases
  <2> QED BY <2>1 DEF JournalInv, LeaseInv, HeldRunExists, LogInv, Exists, TypeOK
<1>9. ASSUME NEW l \in granted, NEW r \in Requests, NEW e \in Expected, append(l, r, e) PROVE Promised!Record
  <2>1. checkLease(l) /\ Write(insert(Journal, l.epoch, r))
    BY <1>9 DEF append
  <2>2. Extends(Journal, insert(Journal, lease.epoch, r), lease.epoch)
    BY Zenon, <2>1, <1>8, InsertKeeps
  <2> QED BY <2>1, <2>2, <1>8, WriteRecords
<1>10. ASSUME NEW l \in granted, NEW r1 \in Requests, NEW r2 \in Requests, appendMany(l, r1, r2) PROVE Promised!Record
  <2> DEFINE j1 == insert(Journal, lease.epoch, r1)
             j2 == insert(j1, lease.epoch, r2)
  <2>1. checkLease(l)
    BY <1>10 DEF appendMany
  <2>2. RequestBatch(Journal, l, r1, r2) = SavepointBatch(Journal, l, r1, r2)
    BY <1>8, <2>1, BatchesAgree DEF Journal, JournalInv, TypeOK
  <2>3. Write(j2)
    BY <1>8, <1>10, <2>1, <2>2 DEF appendMany, SavepointBatch
  <2>4. JournalOK(j1, header, lease.epoch) /\ Extends(Journal, j1, lease.epoch)
    BY Zenon, <1>8, <2>1, InsertKeeps
  <2> HIDE DEF j1
  <2>5. Extends(j1, j2, lease.epoch)
    BY Zenon, <1>8, <2>1, <2>4, InsertKeeps
  <2> HIDE DEF j2
  <2>6. Extends(Journal, j2, lease.epoch)
    BY <2>4, <2>5 DEF Extends
  <2> QED BY <1>8, <2>1, <2>3, <2>6, WriteRecords
<1> QED BY <1>1, <1>2, <1>3, <1>4, <1>5, <1>6, <1>7, <1>9, <1>10
        DEF Next, deleteRun, deleteOwnedRun

\* The SQL journal implements the interface of a run journal, for any holders,
\* keys, events and limits.
THEOREM ImplementsFencedLog == Spec => IsFencedLog
<1>1. Init => Promised!LogInit
  BY DEF Init, Promised!LogInit, Exists
<1> QED BY <1>1, RefinedStep, JournalInvariant, PTL DEF Spec, IsFencedLog, Promised!LogSpec
=============================================================================
