----------------------------- MODULE RunJournal -----------------------------
(***************************************************************************)
(* The SQL run journal (SqlRunJournal): one run's row, its event log and   *)
(* its epoch lease.  Every operation is one database transaction, so every *)
(* operation is one action.  Callers are modelled by `granted', every      *)
(* lease the journal ever answered: a call may come from any of them, at   *)
(* any time, so slow, retried and superseded holders are all included.     *)
(*                                                                         *)
(* All statements select by run_id, so one run is modelled.  A lease row   *)
(* that does not exist is the row with no holder at epoch 0                *)
(* (JOURNAL_LEASE.absentEpoch).                                            *)
(***************************************************************************)
EXTENDS JournalValues

CONSTANT
  Refused         \* an append that fails on its own

VARIABLES
  header,         \* the status in the run's header row, or NoRun
  status,         \* the run's current status, or NoRun
  log,            \* the run's events, in sequence order
  lease,          \* the lease row; stale: older than the takeover window
  granted         \* every lease answered to a caller

journalVars == <<header, status, log, lease, granted>>

\* An append request: an event, or one whose validation, payload or pool guard
\* fails.
Requests == Events \cup {Refused}

ASSUME RefusedAssumption == Refused \notin Events

Exists == header # NoRun

-----------------------------------------------------------------------------
(* Appends *)

HasKey(events, key) ==
  key # NoKey /\ \E i \in DOMAIN events : events[i].key = key

\* Variants of insert: the unique key is not checked; the status changes even
\* when the key exists; a known key overwrites its event.
insertUnchecked(j, epoch, r) ==
  IF r = Refused \/ Len(j.log) >= MaxSeq
    THEN j
    ELSE [log    |-> Append(j.log, [epoch |-> epoch, key |-> r.key, body |-> r.body]),
          status |-> IF r.body \in Statuses THEN r.body ELSE j.status]

insertStatusFirst(j, epoch, r) ==
  IF r = Refused \/ HasKey(j.log, r.key) \/ Len(j.log) >= MaxSeq
    THEN [j EXCEPT !.status = IF r # Refused /\ r.body \in Statuses THEN r.body ELSE @]
    ELSE [log    |-> Append(j.log, [epoch |-> epoch, key |-> r.key, body |-> r.body]),
          status |-> IF r.body \in Statuses THEN r.body ELSE j.status]

insertOverwrites(j, epoch, r) ==
  IF r = Refused \/ Len(j.log) >= MaxSeq
    THEN j
    ELSE IF HasKey(j.log, r.key)
           THEN [j EXCEPT !.log = [i \in DOMAIN @ |-> IF @[i].key = r.key THEN [@[i] EXCEPT !.body = r.body] ELSE @[i]]]
           ELSE [log    |-> Append(j.log, [epoch |-> epoch, key |-> r.key, body |-> r.body]),
                 status |-> IF r.body \in Statuses THEN r.body ELSE j.status]

\* The transaction body of one append: a refused request and a key already
\* recorded write nothing, anything else takes the next sequence number.
insert(j, epoch, r) ==
  IF r = Refused \/ HasKey(j.log, r.key) \/ Len(j.log) >= MaxSeq
    THEN j
    ELSE [log    |-> Append(j.log, [epoch |-> epoch, key |-> r.key, body |-> r.body]),
          status |-> IF r.body \in Statuses THEN r.body ELSE j.status]

Journal == [log |-> log, status |-> status]

\* A variant that compares the holder and not the epoch.
checkHolder(l) == lease.holder = l.holder

checkLease(l) == lease.holder = l.holder /\ lease.epoch = l.epoch

\* appendMany on the savepoint path: the lease is checked once, then each
\* request settles alone, in order.
SavepointBatch(j, l, r1, r2) ==
  IF checkLease(l) THEN insert(insert(j, l.epoch, r1), l.epoch, r2) ELSE j

\* A variant whose status update does not ask whether the insert changed a row.
GuardedInsertOnly(j, l, r) ==
  LET inserts == r # Refused /\ Len(j.log) < MaxSeq /\ checkLease(l) /\ ~HasKey(j.log, r.key)
      event   == [epoch |-> l.epoch, key |-> r.key, body |-> r.body]
  IN  [log    |-> IF inserts THEN Append(j.log, event) ELSE j.log,
       status |-> IF r # Refused /\ r.body \in Statuses THEN r.body ELSE j.status]

\* One request of a batch as statements: the INSERT ... SELECT checks the
\* lease, the key and the sequence limit in SQL, and the UPDATE of the status
\* applies only if the insert changed a row.
GuardedInsert(j, l, r) ==
  LET inserts == /\ r # Refused
                 /\ Len(j.log) < MaxSeq
                 /\ checkLease(l)
                 /\ ~HasKey(j.log, r.key)
      event   == [epoch |-> l.epoch, key |-> r.key, body |-> r.body]
  IN  [log    |-> IF inserts THEN Append(j.log, event) ELSE j.log,
       status |-> IF inserts /\ r.body \in Statuses THEN r.body ELSE j.status]

\* appendMany as one request of statements (appendInOneRequest).
RequestBatch(j, l, r1, r2) == GuardedInsert(GuardedInsert(j, l, r1), l, r2)

\* The unique index on (run, key).
DistinctKeys(events) ==
  \A i, k \in DOMAIN events : i # k /\ events[i].key # NoKey => events[i].key # events[k].key

\* s is the status a list of events leaves behind, starting from `first'.
LatestStatus(s, events, first) ==
  LET changes == {i \in DOMAIN events : events[i].body \in Statuses}
  IN  \/ changes = {} /\ s = first
      \/ \E i \in changes : s = events[i].body /\ \A k \in changes : k <= i

-----------------------------------------------------------------------------
Init ==
  /\ header = NoRun
  /\ status = NoRun
  /\ log = <<>>
  /\ lease = [holder |-> Unheld, epoch |-> 0, stale |-> FALSE]
  /\ granted = {}

(* Runs *)

createRun(s) ==
  /\ ~Exists
  /\ header' = s
  /\ status' = s
  /\ UNCHANGED <<log, lease, granted>>

\* A run and its seed events, which carry the absent epoch.  The unique key
\* index aborts the whole transaction when two seeds share a key.
createRunWithEvents(s, seeds) ==
  /\ ~Exists
  /\ DistinctKeys(seeds)
  /\ header' = s
  /\ log' = [i \in DOMAIN seeds |-> [epoch |-> 0, key |-> seeds[i].key, body |-> seeds[i].body]]
  /\ status' \in {x \in Statuses : LatestStatus(x, seeds, s)}
  /\ UNCHANGED <<lease, granted>>

\* Variants of deletion: the lease row goes with its run; the holder stays.
deleteLeaseToo ==
  /\ header' = NoRun
  /\ status' = NoRun
  /\ log' = <<>>
  /\ lease' = [holder |-> Unheld, epoch |-> 0, stale |-> FALSE]
  /\ UNCHANGED granted

deleteKeepsHolder ==
  /\ header' = NoRun
  /\ status' = NoRun
  /\ log' = <<>>
  /\ UNCHANGED <<lease, granted>>

\* The lease row survives its run: the epochs of a run created again under
\* the same id go on from where they stopped.
deleteRunData ==
  /\ header' = NoRun
  /\ status' = NoRun
  /\ log' = <<>>
  /\ lease' = [lease EXCEPT !.holder = Unheld, !.stale = FALSE]
  /\ UNCHANGED granted

deleteRun == deleteRunData

deleteOwnedRun(l, expected) ==
  /\ checkLease(l)
  /\ expected \in {AnySeq, Len(log)}
  /\ deleteRunData

(* Leases *)

grant(h) ==
  /\ lease.epoch < MaxEpoch
  /\ lease' = [holder |-> h, epoch |-> lease.epoch + 1, stale |-> FALSE]
  /\ granted' = granted \cup {[holder |-> h, epoch |-> lease.epoch + 1]}
  /\ UNCHANGED <<header, status, log>>

\* The holder asks again: the same lease is answered, and nothing is written.
acquire(h) == Exists /\ lease.holder = Unheld /\ grant(h)

\* By name of the holder to replace, whatever that lease's age or epoch.
takeover(h, expected) == Exists /\ lease.holder = expected /\ grant(h)

takeoverExpired(h) ==
  /\ Exists
  /\ lease.holder # h
  /\ lease.holder # Unheld => lease.stale
  /\ grant(h)

renew(l) ==
  /\ checkLease(l)
  /\ lease' = [lease EXCEPT !.stale = FALSE]
  /\ UNCHANGED <<header, status, log, granted>>

\* A variant that clears the whole lease row.
releaseRow(l) ==
  /\ checkLease(l)
  /\ lease' = [holder |-> Unheld, epoch |-> Unheld, stale |-> FALSE]
  /\ UNCHANGED <<header, status, log, granted>>

release(l) ==
  /\ checkLease(l)
  /\ lease' = [lease EXCEPT !.holder = Unheld, !.stale = FALSE]
  /\ UNCHANGED <<header, status, log, granted>>

\* The takeover window passes without a renewal.
LeaseAges ==
  /\ lease.holder # Unheld
  /\ lease' = [lease EXCEPT !.stale = TRUE]
  /\ UNCHANGED <<header, status, log, granted>>

(* Events *)

Write(j) ==
  /\ log' = j.log
  /\ status' = j.status
  /\ UNCHANGED <<header, lease, granted>>

append(l, r, expected) ==
  /\ checkLease(l)
  /\ expected \in {AnySeq, Len(log)}
  /\ Write(insert(Journal, l.epoch, r))

\* The path taken depends on the database adapter.
appendMany(l, r1, r2) ==
  /\ checkLease(l)
  /\ \/ Write(SavepointBatch(Journal, l, r1, r2))
     \/ Write(RequestBatch(Journal, l, r1, r2))

-----------------------------------------------------------------------------
Next ==
  \/ \E s \in Statuses : createRun(s)
  \/ \E s \in Statuses, seeds \in SeedLists : createRunWithEvents(s, seeds)
  \/ deleteRun
  \/ \E h \in Holders : acquire(h) \/ takeoverExpired(h)
  \/ \E h, expected \in Holders : takeover(h, expected)
  \/ \E l \in granted : renew(l) \/ release(l)
  \/ \E l \in granted, e \in Expected : deleteOwnedRun(l, e)
  \/ \E l \in granted, r \in Requests, e \in Expected : append(l, r, e)
  \/ \E l \in granted, r1, r2 \in Requests : appendMany(l, r1, r2)
  \/ LeaseAges

Spec == Init /\ [][Next]_journalVars

-----------------------------------------------------------------------------
(* Properties *)

\* The rows of the journal hold what their columns may hold: release and
\* deletion clear the holder of a lease and keep its epoch a number.
TypeOK ==
  /\ header \in Statuses \cup {NoRun}
  /\ status \in Statuses \cup {NoRun}
  /\ log \in Seq(Entries)
  /\ lease \in [holder : Holders \cup {Unheld}, epoch : Nat, stale : BOOLEAN]
  /\ granted \in SUBSET Leases

\* An epoch names one holder, for the whole life of a run id: grant never
\* answers two holders with one epoch, not even when the run was deleted and
\* created again in between (deleteRunData keeps the lease row).
OneHolderPerEpoch ==
  \A l, m \in granted : l.epoch = m.epoch => l.holder = m.holder

\* The log is written by one incarnation after the other: checkLease refuses
\* the append of a holder once a later epoch was granted, so epochs never
\* decrease along the log.
EpochsOrdered ==
  \A i, k \in DOMAIN log : i <= k => log[i].epoch <= log[k].epoch

\* A key is recorded at most once, whichever path (append, either form of
\* appendMany, seed events) wrote it.
KeysOnce == DistinctKeys(log)

\* The status column, updated in place by each status-changed append, is what
\* replaying the log from the header gives.
StatusIsLatest == Exists => LatestStatus(status, log, header)

\* Only a run that exists has a holder: append and renew check the lease row
\* alone, and rely on it.
HeldRunExists == lease.holder # Unheld => Exists

\* The two forms of appendMany leave the same journal for every batch, as the
\* comment of appendInOneRequest says.
BatchPathsAgree ==
  \A l \in granted, r1, r2 \in Requests :
    RequestBatch(Journal, l, r1, r2) = SavepointBatch(Journal, l, r1, r2)

\* A superseded holder writes nothing: whatever a step adds to the log carries
\* the epoch of the latest lease ever granted, or is a seed of a new run.
OnlyLatestHolderWrites ==
  [][\A i \in DOMAIN log' \ DOMAIN log :
       \/ ~Exists /\ log'[i].epoch = 0
       \/ \A l \in granted : l.epoch <= log'[i].epoch]_journalVars

\* The SQL journal implements the fenced log: its rows, statements and batches
\* show a caller nothing that the interface (run-journal.ts) does not promise.
Promised == INSTANCE FencedLog WITH
  exists <- Exists, events <- log, writer <- lease.holder, epoch <- lease.epoch,
  Writers <- Holders, NoWriter <- Unheld, Unkeyed <- NoKey,
  Recordings <- Entries

IsFencedLog == Promised!LogSpec

\* What is recorded stays as recorded until the run is deleted.
LogOnlyGrows ==
  [][header' # NoRun =>
       \A i \in DOMAIN log : i \in DOMAIN log' /\ log'[i] = log[i]]_journalVars

\* What the rows of a run say of each other, through every order of creation,
\* deletion, take-over, retry and batch: one holder per epoch, a log in the order
\* of epochs with each key once, a status that replays from it, a holder only of a
\* run that exists, and one meaning for both forms of appendMany.
JournalSound ==
  /\ TypeOK
  /\ OneHolderPerEpoch /\ EpochsOrdered /\ KeysOnce /\ StatusIsLatest /\ HeldRunExists
  /\ BatchPathsAgree
=============================================================================
