--------------------------- MODULE PoolQueueProofs ---------------------------
(***************************************************************************)
(* Proofs about the pool's queue, for any number of children, workers,     *)
(* sessions, operations and incarnations of the root.                      *)
(*                                                                         *)
(* The argument.  A claim takes a generation above every claim before it,  *)
(* and only a claim that is still current and was never handed out gives   *)
(* its generation back, so a child and a generation name one claim         *)
(* (ClaimInv).  A current attempt therefore has the highest generation of  *)
(* its child, which fences the attempts before it; and since an attempt's  *)
(* epoch is at most the root's, a row that a new incarnation describes     *)
(* anew is not one an attempt of this incarnation runs.                    *)
(***************************************************************************)
EXTENDS PoolQueue, RunJournalProofs

Claims == placing \cup handed

ClaimInv ==
  /\ placing \cap handed = {}
  /\ \A t \in Claims : /\ 1 <= t.generation /\ t.generation <= work[t.work].generation
                       /\ t.epoch <= lease.epoch
  /\ \A t, u \in Claims : t.work = u.work /\ t.generation = u.generation => t = u

TypeInv == JournalInv /\ PoolTypeOK
CoreInv == TypeInv /\ ClaimInv

-----------------------------------------------------------------------------
(* The queue's writes to the journal *)

\* The queue's own INSERT, under a checked lease and for a key that is not
\* recorded, is an append of the journal.
LEMMA RecordIsAppend ==
  ASSUME NEW l, checkLease(l), NEW key \in Keys, NEW body \in Payloads,
         ~HasKey(log, key), Record(l, key, body)
  PROVE  append(l, [key |-> key, body |-> body], AnySeq)
<1> DEFINE r == [key |-> key, body |-> body]
<1>1. r \in Events /\ r # Refused /\ body \notin Statuses
  BY RefusedAssumption, JournalAssumption DEF Events, Bodies
<1>2. Journal.log = log /\ Journal.status = status
  BY DEF Journal
<1>3. Len(log) < MaxSeq /\ ~(Len(log) >= MaxSeq)
  BY JournalAssumption DEF Record
<1>4. insert(Journal, l.epoch, r) =
        [log |-> Append(log, [epoch |-> l.epoch, key |-> key, body |-> body]), status |-> status]
  BY <1>1, <1>2, <1>3 DEF insert
<1> QED BY <1>4 DEF append, Write, Record

\* A recorded key has a sequence number.
LEMMA SeqOfKey ==
  ASSUME NEW key \in Keys, HasKey(log, key)
  PROVE  SeqOf(key) \in DOMAIN log /\ log[SeqOf(key)].key = key
BY DEF HasKey, SeqOf

\* The keys the pool uses are keys of the journal.
LEMMA PoolKeys ==
  /\ \A w \in Works : StartKey(w) \in Keys
  /\ \A w \in Works, c \in Checkpoints : CheckpointKey(w, c) \in Keys
BY PoolAssumption

\* Every step of the pool is a step of the journal, or none.
LEMMA PoolStepsJournal ==
  ASSUME TypeInv, [PoolNext]_poolVars
  PROVE  [Next]_journalVars
<1>1. ASSUME UNCHANGED journalVars PROVE [Next]_journalVars
  BY <1>1
<1>2. ASSUME NEW l \in granted, NEW r \in Events, append(l, r, AnySeq) PROVE Next
  <2>1. r \in Requests /\ AnySeq \in Expected
    BY DEF Requests, Expected
  <2> QED BY <1>2, <2>1 DEF Next
<1>3. ASSUME NEW l \in granted, NEW key \in Keys, NEW body \in Payloads, checkLease(l),
             ~HasKey(log, key), Record(l, key, body)
      PROVE  Next
  <2>1. [key |-> key, body |-> body] \in Events
    BY DEF Events, Bodies
  <2> QED BY <1>2, <1>3, <2>1, RecordIsAppend
<1>4. ASSUME RootNext PROVE [Next]_journalVars
  <2>1. ASSUME NEW s \in Statuses, RootRuns(s) PROVE Next
    BY <2>1 DEF RootRuns, Next
  <2>2. ASSUME RootHolds PROVE Next
    BY <2>2 DEF RootHolds, Next
  <2>3. ASSUME RootReleases PROVE Next
    BY <2>3 DEF RootReleases, Next
  <2>4. ASSUME RootLate PROVE UNCHANGED journalVars
    BY <2>4 DEF RootLate
  <2>5. ASSUME RootAges PROVE Next
    BY <2>5 DEF RootAges, Next
  <2>6. ASSUME NEW l \in granted, NEW s \in Statuses, RootStatus(l, s) PROVE Next
    <3>1. [key |-> NoKey, body |-> s] \in Events
      BY DEF Events, Bodies
    <3> QED BY <2>6, <3>1, <1>2 DEF RootStatus
  <2>7. ASSUME NEW l \in granted, NEW w \in Works, NEW p \in Payloads, RootBoundary(l, w, p) PROVE Next
    <3>1. [key |-> StartKey(w), body |-> p] \in Events
      BY PoolKeys DEF Events, Bodies
    <3> QED BY <2>7, <3>1, <1>2 DEF RootBoundary
  <2> QED BY <1>4, <2>1, <2>2, <2>3, <2>4, <2>5, <2>6, <2>7 DEF RootNext
<1>5. ASSUME NEW l \in granted, NEW w \in Works, NEW d, NEW p \in Payloads, NEW claimed,
             enqueueNew(l, w, d, p, claimed)
      PROVE  [Next]_journalVars
  BY <1>3, <1>5, PoolKeys DEF enqueueNew, authority
<1>6. ASSUME NEW l \in granted, NEW t \in handed, NEW o \in Operations, NEW m \in Mutations, commit(l, t, o, m)
      PROVE  [Next]_journalVars
  <2>1. CheckpointKey(t.work, m.checkpoint) \in Keys /\ m.body \in Payloads
    BY PoolKeys DEF TypeInv, PoolTypeOK, Tokens, Mutations
  <2> QED BY <1>3, <1>6, <2>1 DEF commit, recordCheckpoint, authority
<1>7. ASSUME NEW l \in granted, NEW t, NEW p \in Payloads, appendGuarded(l, t, p) PROVE Next
  <2>1. [key |-> NoKey, body |-> p] \in Events
    BY DEF Events, Bodies
  <2> QED BY <1>2, <1>7, <2>1 DEF appendGuarded
<1>8. ASSUME CoordinatorNext PROVE [Next]_journalVars
  <2> PICK l \in granted : CoordinatorNext!(l)
    BY <1>8 DEF CoordinatorNext
  <2>1. ASSUME NEW w \in Works, NEW d, NEW accept, NEW claimed, enqueueAgain(l, w, d, accept, claimed)
        PROVE  UNCHANGED journalVars
    BY Zenon, <2>1 DEF enqueueAgain
  <2>2. ASSUME NEW w \in Works, failUnclaimed(l, w) \/ reopenCompleted(l, w) \/ \E k, q : claim(l, w, k, q)
        PROVE  UNCHANGED journalVars
    BY Zenon, <2>2 DEF failUnclaimed, reopenCompleted, claim, SetRow
  <2>3. ASSUME NEW t, \/ extend(l, t) \/ expire(l, t) \/ releaseUnplaced(l, t)
                     \/ \E x : settleExited(l, t, x) \/ releaseRetained(l, t, x)
        PROVE  UNCHANGED journalVars
    BY Zenon, <2>3 DEF extend, expire, releaseUnplaced, settleExited, releaseRetained, SetRow
  <2>4. ASSUME \E x : initialize(l) \/ setControl(l, x) \/ releaseClosed(l, x) \/ releasePreviousIncarnations(l, x)
        PROVE  UNCHANGED journalVars
    BY <2>4 DEF initialize, setControl, releaseClosed, releasePreviousIncarnations
  <2> QED BY Zenon, <1>5, <2>1, <2>2, <2>3, <2>4
<1>9. ASSUME AttemptNext PROVE [Next]_journalVars
  BY Zenon, <1>6, <1>7, <1>9 DEF AttemptNext, place, Lapse, renewWork, complete, SetRow
<1> QED BY <1>4, <1>8, <1>9 DEF PoolNext, poolVars

-----------------------------------------------------------------------------
(* What a step does to the queue *)

\* Nothing in the tables changes but what the root's own rows say.
Quiet ==
  /\ UNCHANGED <<work, tableVars, claimVars>>
  /\ late' \in BOOLEAN /\ pool' \in BOOLEAN /\ control' \in Controls \cup {"unset"}

\* Rows that are ready or leased are released, failed, lapsed or extended:
\* their generation and descriptor stay, and one that is leased afterwards is
\* leased to the same claim.
RowSettles(row, new) ==
  /\ row.state \in {"ready", "leased"}
  /\ new \in Rows
  /\ new.state \in {"ready", "leased", "failed"}
  /\ new.generation = row.generation
  /\ new.descriptor = row.descriptor
  /\ new.state = "leased" => row.state = "leased" /\ new.epoch = row.epoch /\ new.worker = row.worker

RowsSettle ==
  /\ work' \in [Works -> Rows]
  /\ \A w \in Works : work'[w] = work[w] \/ RowSettles(work[w], work'[w])
  /\ UNCHANGED <<journalVars, rootVars, tableVars, claimVars>>

\* A lapsed, released or failed row is settled in this sense.
LEMMA ReleasedSettles ==
  ASSUME NEW row \in Rows, row.state \in {"ready", "leased"}, NEW e \in Nat
  PROVE  /\ \A state \in {"ready", "failed"} : RowSettles(row, Released(row, state, e))
         /\ row.state = "leased" => \A b \in BOOLEAN : RowSettles(row, [row EXCEPT !.lapsed = b])
BY Zenon DEF RowSettles, Released, Rows, States

\* One settled row, and the others as they were.
LEMMA SetRowSettles ==
  ASSUME work \in [Works -> Rows], NEW w \in Works, NEW row, RowSettles(work[w], row), SetRow(w, row)
  PROVE  RowsSettle
BY DEF SetRow, RowsSettle, RowSettles

\* The lease an operation comes with, once its authority is checked.
LEMMA CheckedLease ==
  ASSUME TypeInv, NEW l \in granted, checkLease(l)
  PROVE  l.epoch \in Nat /\ l.epoch = lease.epoch
BY DEF TypeInv, JournalInv, TypeOK, Leases, checkLease

\* The operations of the coordinator that settle rows.
LEMMA CoordinatorSettles ==
  ASSUME TypeInv, NEW l \in granted,
         \/ \E t \in Claims : \/ extend(l, t) \/ expire(l, t)
                              \/ \E state \in {"ready", "failed"} : settleExited(l, t, state)
                              \/ \E adopt \in BOOLEAN : releaseRetained(l, t, adopt)
         \/ \E w \in Works : failUnclaimed(l, w)
         \/ \E retained \in SUBSET Works : releaseClosed(l, retained) \/ releasePreviousIncarnations(l, retained)
  PROVE  RowsSettle
<1>1. /\ work \in [Works -> Rows] /\ \A w \in Works : work[w].epoch \in Nat
      /\ \A t \in Claims : t.work \in Works /\ t.epoch \in Nat
  BY DEF TypeInv, PoolTypeOK, Claims, Tokens, Rows
<1>2. ASSUME authority(l) PROVE l.epoch \in Nat
  BY <1>2, CheckedLease DEF authority
<1>3. ASSUME NEW t \in Claims, extend(l, t) PROVE RowsSettle
  BY Zenon, <1>1, <1>3, ReleasedSettles, SetRowSettles DEF extend, current
<1>4. ASSUME NEW t \in Claims, expire(l, t) PROVE RowsSettle
  BY <1>1, <1>4, ReleasedSettles, SetRowSettles DEF expire, current
<1>5. ASSUME NEW t \in Claims, NEW state \in {"ready", "failed"}, settleExited(l, t, state) PROVE RowsSettle
  BY <1>1, <1>5, ReleasedSettles, SetRowSettles DEF settleExited, current
<1>6. ASSUME NEW t \in Claims, NEW adopt \in BOOLEAN, releaseRetained(l, t, adopt) PROVE RowsSettle
  BY <1>1, <1>2, <1>6, ReleasedSettles, SetRowSettles DEF releaseRetained, current
<1>7. ASSUME NEW w \in Works, failUnclaimed(l, w) PROVE RowsSettle
  BY <1>1, <1>7, ReleasedSettles, SetRowSettles DEF failUnclaimed
<1>8. ASSUME NEW retained \in SUBSET Works, releaseClosed(l, retained) PROVE RowsSettle
  <2>1. \A w \in Works : work'[w] = work[w] \/ RowSettles(work[w], work'[w])
    BY <1>1, <1>8, ReleasedSettles DEF releaseClosed
  <2>2. \A w \in Works : work'[w] \in Rows
    BY Zenon, <1>1, <2>1 DEF RowSettles
  <2> QED BY Zenon, <1>8, <2>1, <2>2 DEF releaseClosed, RowsSettle
<1>9. ASSUME NEW retained \in SUBSET Works, releasePreviousIncarnations(l, retained) PROVE RowsSettle
  <2>1. \A w \in Works : work'[w] = work[w] \/ RowSettles(work[w], work'[w])
    BY <1>1, <1>9, ReleasedSettles DEF releasePreviousIncarnations
  <2>2. \A w \in Works : work'[w] \in Rows
    BY <1>1, <2>1 DEF RowSettles
  <2> QED BY Zenon, <1>9, <2>1, <2>2 DEF releasePreviousIncarnations, RowsSettle
<1> QED BY <1>3, <1>4, <1>5, <1>6, <1>7, <1>8, <1>9

\* The other operations, by what they write.
Enqueues(l, w, d) ==
  \E claimed \in SUBSET Forked :
    \/ \E p \in Payloads : enqueueNew(l, w, d, p, claimed)
    \/ \E accept \in BOOLEAN : enqueueAgain(l, w, d, accept, claimed)

Moves ==
  \/ \E l \in granted, w \in Works :
       \/ \E d \in Descriptors : Enqueues(l, w, d)
       \/ \E k \in Workers, placement \in {"any", "unbound", "exact"} : claim(l, w, k, placement)
       \/ reopenCompleted(l, w)
  \/ \E l \in granted, t \in placing : releaseUnplaced(l, t)
  \/ \E t \in placing : place(t)
  \/ \E l \in granted, t \in handed :
       \/ \E o \in Operations, m \in Mutations : commit(l, t, o, m)
       \/ \E r \in Results : complete(l, t, r)

\* A step leaves the queue alone, settles rows or is one of the moves.
LEMMA StepKinds ==
  ASSUME TypeInv, [PoolNext]_poolVars
  PROVE  Quiet \/ RowsSettle \/ Moves
<1>0. late \in BOOLEAN /\ pool \in BOOLEAN /\ control \in Controls \cup {"unset"}
  BY DEF TypeInv, PoolTypeOK
<1>1. ASSUME UNCHANGED poolVars PROVE Quiet
  BY <1>0, <1>1 DEF Quiet, poolVars, queueVars, rootVars
<1>2. ASSUME RootNext PROVE Quiet
  <2>1. ASSUME UNCHANGED queueVars PROVE Quiet
    BY <1>0, <2>1 DEF Quiet, queueVars, rootVars
  <2> QED BY Zenon, <1>0, <1>2, <2>1 DEF RootNext, RootRuns, RootHolds, RootReleases, RootLate, RootAges, RootStatus, RootBoundary, Quiet
<1>3. ASSUME CoordinatorNext PROVE Quiet \/ RowsSettle \/ Moves
  <2> PICK l \in granted : CoordinatorNext!(l)
    BY <1>3 DEF CoordinatorNext
  <2>1. ASSUME initialize(l) \/ \E state \in Controls : setControl(l, state) PROVE Quiet
    BY Zenon, <1>0, <2>1 DEF initialize, setControl, Quiet
  <2>2. ASSUME NEW w \in Works,
               \/ \E d \in Descriptors, claimed \in SUBSET Forked :
                    \/ \E p \in Payloads : enqueueNew(l, w, d, p, claimed)
                    \/ \E accept \in BOOLEAN : enqueueAgain(l, w, d, accept, claimed)
               \/ \E k \in Workers, placement \in {"any", "unbound", "exact"} : claim(l, w, k, placement)
               \/ reopenCompleted(l, w)
        PROVE  Moves
    BY <2>2 DEF Moves, Enqueues
  <2>3. ASSUME \E t \in placing : releaseUnplaced(l, t) PROVE Moves
    BY <2>3 DEF Moves
  <2> QED BY <2>1, <2>2, <2>3, CoordinatorSettles DEF Claims
<1>4. ASSUME AttemptNext PROVE Quiet \/ RowsSettle \/ Moves
  <2>0. work \in [Works -> Rows] /\ \A t \in handed : t.work \in Works
    BY DEF TypeInv, PoolTypeOK, Tokens
  <2>1. ASSUME NEW w \in Works, Lapse(w) PROVE RowsSettle
    <3>1. work[w] \in Rows /\ 0 \in Nat
      BY <2>0
    <3> QED BY Zenon, <2>0, <2>1, <3>1, ReleasedSettles, SetRowSettles DEF Lapse
  <2>2. ASSUME NEW l \in granted, NEW t \in handed, renewWork(l, t) PROVE RowsSettle
    <3>1. work[t.work] \in Rows /\ 0 \in Nat
      BY <2>0
    <3> QED BY Zenon, <2>0, <2>2, <3>1, ReleasedSettles, SetRowSettles DEF renewWork, current
  <2>3. ASSUME NEW l \in granted, NEW t, NEW p \in Payloads, appendGuarded(l, t, p) PROVE Quiet
    BY <1>0, <2>3 DEF appendGuarded, Quiet, queueVars, rootVars
  <2> QED BY <1>4, <2>1, <2>2, <2>3 DEF AttemptNext, Moves
<1> QED BY <1>1, <1>2, <1>3, <1>4 DEF PoolNext

-----------------------------------------------------------------------------
(* Types and claims *)

\* The root's epoch never decreases.
LEMMA EpochsGrow ==
  ASSUME JournalInv, [Next]_journalVars
  PROVE  lease.epoch \in Nat /\ lease'.epoch \in Nat /\ lease.epoch <= lease'.epoch
<1>1. lease.epoch \in Nat /\ lease \in [holder : Holders \cup {Unheld}, epoch : Nat, stale : BOOLEAN]
  BY DEF JournalInv, TypeOK
<1>2. ASSUME lease' = lease \/ (\E h, b : lease' = [lease EXCEPT !.holder = h, !.stale = b])
      PROVE  lease'.epoch = lease.epoch
  BY Zenon, <1>1, <1>2
<1>3. ASSUME NEW h, grant(h) PROVE lease'.epoch = lease.epoch + 1
  BY <1>3 DEF grant
<1>4. ASSUME NEW l, renew(l) \/ release(l) PROVE lease'.epoch = lease.epoch
  BY Zenon, <1>1, <1>4 DEF renew, release
<1>5. ASSUME deleteRunData \/ LeaseAges PROVE lease'.epoch = lease.epoch
  BY Zenon, <1>1, <1>5 DEF deleteRunData, LeaseAges
<1>6. ASSUME NEW j, Write(j) PROVE lease'.epoch = lease.epoch
  BY <1>6 DEF Write
<1> QED BY <1>1, <1>3, <1>4, <1>5, <1>6
        DEF Next, journalVars, createRun, createRunWithEvents, deleteRun, deleteOwnedRun, acquire, takeoverExpired,
            takeover, append, appendMany

\* Claims stay valid while they and the generations stay.
LEMMA ClaimsStay ==
  ASSUME ClaimInv, TypeInv, UNCHANGED claimVars, lease.epoch <= lease'.epoch, lease'.epoch \in Nat,
         \A w \in Works : work'[w].generation = work[w].generation
  PROVE  ClaimInv'
<1>1. Claims' = Claims /\ placing' = placing /\ handed' = handed
  BY DEF Claims, claimVars
<1>2. \A t \in Claims : t.work \in Works /\ t.epoch \in Nat /\ lease.epoch \in Nat
  BY Zenon DEF Claims, TypeInv, PoolTypeOK, Tokens, JournalInv, TypeOK
<1> QED BY <1>1, <1>2 DEF ClaimInv

\* The rows a claim and the release of an unplaced claim leave.
LeasedRow(row, k, e) ==
  [row EXCEPT !.state = "leased", !.generation = @ + 1, !.worker = k, !.epoch = e, !.lapsed = FALSE]

UnplacedRow(row) == [Released(row, "ready", row.epoch) EXCEPT !.generation = @ - 1]

\* Their fields, one by one.
LEMMA RowsOfClaims ==
  ASSUME NEW row \in Rows
  PROVE  /\ row.generation \in Nat
         /\ \A k \in Workers, e \in Nat :
              /\ LeasedRow(row, k, e) \in Rows
              /\ LeasedRow(row, k, e).generation = row.generation + 1
              /\ LeasedRow(row, k, e).worker = k
              /\ LeasedRow(row, k, e).epoch = e
         /\ 1 <= row.generation => UnplacedRow(row) \in Rows
         /\ UnplacedRow(row).generation = row.generation - 1
<1>1. row.generation \in Nat /\ row.generation + 1 \in Nat /\ row.epoch \in Nat /\ row.descriptor \in Descriptors
  BY DEF Rows
<1>2. ASSUME NEW k \in Workers, NEW e \in Nat
      PROVE  /\ LeasedRow(row, k, e) \in Rows
             /\ LeasedRow(row, k, e).generation = row.generation + 1
             /\ LeasedRow(row, k, e).worker = k
             /\ LeasedRow(row, k, e).epoch = e
  <2>1. LeasedRow(row, k, e) =
          [row EXCEPT !.state = "leased", !.generation = row.generation + 1, !.worker = k, !.epoch = e, !.lapsed = FALSE]
    BY DEF LeasedRow, Rows
  <2>2. LeasedRow(row, k, e) \in Rows
    BY Zenon, <1>1, <2>1 DEF Rows, States
  <2> QED BY <2>2 DEF LeasedRow, Rows
<1>3. /\ Released(row, "ready", row.epoch) \in Rows
      /\ UnplacedRow(row) = [Released(row, "ready", row.epoch) EXCEPT !.generation = row.generation - 1]
  BY Zenon DEF UnplacedRow, Released, Rows, States
<1>4. 1 <= row.generation => row.generation - 1 \in Nat
  BY <1>1
<1>5. 1 <= row.generation => UnplacedRow(row) \in Rows
  BY <1>3, <1>4 DEF Rows
<1>6. UnplacedRow(row).generation = row.generation - 1
  BY <1>3 DEF Rows
<1> QED BY <1>1, <1>2, <1>5, <1>6

\* The step of a claim.
LEMMA ClaimKeeps ==
  ASSUME CoreInv, NEW l \in granted, NEW w \in Works, NEW k \in Workers, NEW q, claim(l, w, k, q)
  PROVE  /\ work' \in [Works -> Rows] /\ placing' \subseteq Tokens /\ handed' \subseteq Tokens
         /\ ClaimInv'
<1> DEFINE row == [work[w] EXCEPT !.state = "leased", !.generation = @ + 1, !.worker = k,
                                  !.epoch = l.epoch, !.lapsed = FALSE]
           t == Token(w, row)
<1>1. /\ l.epoch \in Nat /\ l.epoch = lease.epoch
      /\ work \in [Works -> Rows] /\ placing \subseteq Tokens /\ handed \subseteq Tokens
      /\ work' = [work EXCEPT ![w] = row] /\ lease' = lease
  BY CheckedLease DEF claim, authority, CoreInv, TypeInv, PoolTypeOK, journalVars
<1>2. /\ row \in Rows /\ row.generation = work[w].generation + 1 /\ work[w].generation \in Nat
      /\ row.worker = k /\ row.epoch = l.epoch
  <2>1. work[w] \in Rows
    BY <1>1
  <2>2. row = LeasedRow(work[w], k, l.epoch)
    BY DEF LeasedRow
  <2> QED BY <1>1, <2>1, <2>2, RowsOfClaims
<1>3. /\ t \in Tokens /\ t.work = w /\ t.generation = work[w].generation + 1 /\ t.epoch = lease.epoch
  BY <1>1, <1>2 DEF Token, Tokens, Rows
<1>4. placing' \cup handed' = Claims \cup {t} /\ (placing' = placing \/ handed' = handed)
      /\ placing' \in {placing, placing \cup {t}} /\ handed' \in {handed, handed \cup {t}}
  BY DEF claim, Claims
<1> HIDE DEF t, row
<1>5. \A u \in Claims : /\ u \in Tokens /\ u.work \in Works /\ u.generation \in Nat
                        /\ 1 <= u.generation /\ u.generation <= work[u.work].generation /\ u.epoch <= lease.epoch
  BY Zenon, <1>1 DEF CoreInv, ClaimInv, Claims, Tokens
<1>6. \A u \in Claims : ~(u.work = w /\ u.generation = t.generation)
  BY <1>2, <1>3, <1>5
<1>7. t \notin Claims
  BY <1>3, <1>6
<1>8. placing' \cap handed' = {}
  BY <1>4, <1>7 DEF CoreInv, ClaimInv, Claims
<1>9. \A u \in Works : work'[u].generation \in Nat /\ work[u].generation <= work'[u].generation
  BY <1>1, <1>2 DEF Rows
<1>10. work'[w].generation = t.generation
  BY <1>1, <1>2, <1>3
<1>11. \A u \in Claims : work[u.work].generation \in Nat
  BY <1>1, <1>5 DEF Rows
<1>12. \A u \in Claims \cup {t} : /\ 1 <= u.generation /\ u.generation <= work'[u.work].generation
                                  /\ u.epoch <= lease'.epoch
  <2>1. \A u \in Claims : u.generation <= work'[u.work].generation /\ u.epoch <= lease'.epoch
    BY <1>1, <1>5, <1>9, <1>11
  <2>2. 1 <= t.generation /\ t.generation <= work'[t.work].generation /\ t.epoch <= lease'.epoch
    BY <1>1, <1>2, <1>3, <1>10
  <2> QED BY <2>1, <2>2, <1>5
<1>13. \A u, v \in Claims \cup {t} : u.work = v.work /\ u.generation = v.generation => u = v
  BY Zenon, <1>3, <1>6 DEF CoreInv, ClaimInv
<1> QED BY <1>1, <1>2, <1>3, <1>4, <1>8, <1>12, <1>13 DEF ClaimInv, Claims

\* A claim that is handed over stays the same claim.
LEMMA PlaceKeeps ==
  ASSUME CoreInv, NEW t \in placing, place(t)
  PROVE  placing' \subseteq Tokens /\ handed' \subseteq Tokens /\ ClaimInv'
<1>1. Claims' = Claims /\ work' = work /\ lease' = lease /\ placing' \cap handed' = {}
  BY Zenon DEF place, Claims, CoreInv, ClaimInv, journalVars
<1> QED BY <1>1 DEF ClaimInv, place, CoreInv, TypeInv, PoolTypeOK, Claims

\* A claim that was never handed out gives its generation back, and no claim
\* is left that has it.
LEMMA UnplacedKeeps ==
  ASSUME CoreInv, NEW l \in granted, NEW t \in placing, releaseUnplaced(l, t)
  PROVE  /\ work' \in [Works -> Rows] /\ placing' \subseteq Tokens /\ handed' = handed
         /\ ClaimInv'
<1> DEFINE w == t.work
           row == UnplacedRow(work[w])
<1>1. /\ work \in [Works -> Rows] /\ placing \subseteq Tokens /\ handed \subseteq Tokens
      /\ w \in Works /\ t.generation \in Nat /\ 1 <= t.generation /\ work[w].generation = t.generation
      /\ work' = [work EXCEPT ![w] = row] /\ lease' = lease /\ placing' = placing \ {t} /\ handed' = handed
      /\ t \in Claims /\ t \notin handed
  <2>1. /\ work' = [work EXCEPT ![w] = row] /\ lease' = lease /\ placing' = placing \ {t} /\ handed' = handed
        /\ work[w].generation = t.generation
    BY DEF releaseUnplaced, current, journalVars, UnplacedRow
  <2>2. t \in Tokens /\ t \in Claims /\ t \notin handed
    BY DEF CoreInv, TypeInv, PoolTypeOK, ClaimInv, Claims
  <2> QED BY <2>1, <2>2 DEF CoreInv, TypeInv, PoolTypeOK, Tokens, ClaimInv
<1>2. row \in Rows /\ row.generation = t.generation - 1
  <2>1. work[w] \in Rows
    BY <1>1
  <2> QED BY <1>1, <2>1, RowsOfClaims
<1> HIDE DEF row
<1>3. Claims' \subseteq Claims /\ t \notin Claims' /\ placing' \cap handed' = {}
  BY <1>1 DEF Claims, CoreInv, ClaimInv
<1>4. \A u \in Claims : /\ u.work \in Works /\ u.generation \in Nat /\ work[u.work].generation \in Nat
                        /\ 1 <= u.generation /\ u.generation <= work[u.work].generation /\ u.epoch <= lease.epoch
  BY Zenon, <1>1 DEF CoreInv, ClaimInv, Claims, Tokens, Rows
<1>5. \A u \in Claims' : u.generation <= work'[u.work].generation
  <2> SUFFICES ASSUME NEW u \in Claims' PROVE u.generation <= work'[u.work].generation
    OBVIOUS
  <2>1. CASE u.work = w
    <3>1. u.generation # t.generation
      BY <1>1, <1>3, <2>1 DEF CoreInv, ClaimInv
    <3> QED BY <1>1, <1>2, <1>3, <1>4, <2>1, <3>1
  <2>2. CASE u.work # w
    BY <1>1, <1>3, <1>4, <2>2
  <2> QED BY <2>1, <2>2
<1>6. \A u, v \in Claims' : u.work = v.work /\ u.generation = v.generation => u = v
  BY <1>3 DEF CoreInv, ClaimInv
<1> QED BY <1>1, <1>2, <1>3, <1>4, <1>5, <1>6 DEF ClaimInv

\* What an enqueue does to its row: the generation and a lease stay, and a row
\* that is described anew is not of the root's epoch before.
EnqueuedRow(l, row, new, d) ==
  /\ new \in Rows
  /\ new.generation = row.generation
  /\ new.descriptor = d
  /\ \/ row.state \in {"none", "ready", "failed"} /\ new.state = "ready"
     \/ new.state = row.state /\ new.epoch = row.epoch /\ new.worker = row.worker
  /\ row.state = "none" \/ row.descriptor = d \/ row.epoch < l.epoch

\* An enqueue changes one row as EnqueuedRow says, and only owners of sessions.
LEMMA EnqueueKeeps ==
  ASSUME TypeInv, NEW l \in granted, NEW w \in Works, NEW d \in Descriptors, Enqueues(l, w, d)
  PROVE  \E new : /\ EnqueuedRow(l, work[w], new, d)
                  /\ work' = [work EXCEPT ![w] = new]
                  /\ sessions' \in [Sessions -> [owner : Works \cup {Nobody}, entries : Seq(SessionIds)]]
                  /\ l.epoch = lease.epoch
                  /\ UNCHANGED <<rootVars, results, operations, usage, claimVars>>
<1> PICK claimed \in SUBSET Forked : Enqueues(l, w, d)!(claimed)
  BY DEF Enqueues
<1>1. /\ work \in [Works -> Rows] /\ work[w] \in Rows /\ l.epoch \in Nat /\ l.epoch = lease.epoch
      /\ claimSessions(w, claimed) /\ UNCHANGED <<rootVars, results, operations, usage, claimVars>>
  BY CheckedLease DEF TypeInv, PoolTypeOK, enqueueNew, enqueueAgain, authority
<1>2. sessions' \in [Sessions -> [owner : Works \cup {Nobody}, entries : Seq(SessionIds)]]
  <2>1. sessions \in [Sessions -> [owner : Works \cup {Nobody}, entries : Seq(SessionIds)]]
    BY Zenon DEF TypeInv, PoolTypeOK
  <2>2. \A x \in Sessions : [sessions[x] EXCEPT !.owner = w] \in [owner : Works \cup {Nobody}, entries : Seq(SessionIds)]
    BY <2>1
  <2> QED BY <1>1, <2>1, <2>2 DEF claimSessions
<1>3. CASE \E p \in Payloads : enqueueNew(l, w, d, p, claimed)
  <2> DEFINE new == [work[w] EXCEPT !.state = "ready", !.epoch = l.epoch, !.descriptor = d]
  <2>1. work' = [work EXCEPT ![w] = new] /\ work[w].state = "none"
    BY <1>3 DEF enqueueNew
  <2>2. EnqueuedRow(l, work[w], new, d)
    BY Zenon, <1>1, <2>1 DEF EnqueuedRow, Rows, States
  <2> QED BY Zenon, <1>1, <1>2, <2>1, <2>2
<1>4. CASE \E accept \in BOOLEAN : enqueueAgain(l, w, d, accept, claimed)
  <2> DEFINE new == IF work[w].state \in {"ready", "failed"} /\ work[w].epoch < l.epoch
                      THEN [work[w] EXCEPT !.state = "ready", !.epoch = l.epoch, !.descriptor = d]
                      ELSE [work[w] EXCEPT !.descriptor = d]
  <2>1. work' = [work EXCEPT ![w] = new] /\ (d = work[w].descriptor \/ work[w].epoch < l.epoch)
    BY <1>4 DEF enqueueAgain, rebind
  <2>2. EnqueuedRow(l, work[w], new, d)
    BY Zenon, <1>1, <2>1 DEF EnqueuedRow, Rows, States
  <2> QED BY Zenon, <1>1, <1>2, <2>1, <2>2
<1> QED BY Zenon, <1>3, <1>4

\* A commit keeps the types of what it writes.
LEMMA CommitKeeps ==
  ASSUME TypeInv, NEW l \in granted, NEW t \in handed, NEW o \in Operations, NEW m \in Mutations,
         commit(l, t, o, m)
  PROVE  /\ operations' \subseteq [work : Works, generation : Nat, operation : Operations,
                                   request : [epoch : Nat, worker : Workers, mutation : Mutations], seq : Nat]
         /\ sessions' \in [Sessions -> [owner : Works \cup {Nobody}, entries : Seq(SessionIds)]]
         /\ usage' \subseteq [work : Works, generation : Nat, checkpoint : Checkpoints]
         /\ UNCHANGED <<rootVars, work, results, claimVars>>
<1>1. /\ t.work \in Works /\ t.generation \in Nat /\ t.worker \in Workers /\ t.epoch \in Nat
      /\ m.checkpoint \in Checkpoints /\ m.session \in Sessions \cup {Nobody} /\ m.body \in Payloads
  BY DEF TypeInv, PoolTypeOK, Tokens, Mutations
<1>2. sessions' \in [Sessions -> [owner : Works \cup {Nobody}, entries : Seq(SessionIds)]]
  <2> DEFINE entry == [generation |-> t.generation, operation |-> o]
             S == [owner : Works \cup {Nobody}, entries : Seq(SessionIds)]
  <2>1. sessions \in [Sessions -> S] /\ entry \in SessionIds
    BY Zenon, <1>1 DEF TypeInv, PoolTypeOK, SessionIds
  <2>2. <<entry>> \in Seq(SessionIds) /\ \A x \in Sessions : Append(sessions[x].entries, entry) \in Seq(SessionIds)
    <3>1. \A x \in Sessions : sessions[x].entries \in Seq(SessionIds)
      BY <2>1
    <3> HIDE DEF entry
    <3> QED BY <2>1, <3>1
  <2>3. applyPoolSession(t, o, m)
    BY Zenon DEF commit
  <2>4. CASE sessions' = sessions
    BY Zenon, <2>1, <2>4
  <2>5. ASSUME m.session \in Sessions, sessions' = [sessions EXCEPT ![m.session] = [owner |-> t.work, entries |-> <<entry>>]]
        PROVE  sessions' \in [Sessions -> S]
    BY Zenon, <1>1, <2>1, <2>2, <2>5
  <2>6. ASSUME m.session \in Sessions, NEW e \in Seq(SessionIds), sessions' = [sessions EXCEPT ![m.session].entries = e]
        PROVE  sessions' \in [Sessions -> S]
    <3>1. [sessions[m.session] EXCEPT !.entries = e] \in S
      BY Zenon, <2>1, <2>6
    <3> QED BY <2>1, <2>6, <3>1
  <2>7. \/ sessions' = sessions
        \/ m.session \in Sessions /\ sessions' = [sessions EXCEPT ![m.session] = [owner |-> t.work, entries |-> <<entry>>]]
        \/ m.session \in Sessions /\ sessions' = [sessions EXCEPT ![m.session].entries = <<entry>>]
        \/ m.session \in Sessions /\ sessions' = [sessions EXCEPT ![m.session].entries = Append(sessions[m.session].entries, entry)]
    BY <2>3 DEF applyPoolSession
  <2> QED BY Zenon, <2>2, <2>4, <2>5, <2>6, <2>7
<1>3. ReceiptSeq(t, m) \in Nat
  <2>1. log \in Seq(Entries) /\ Len(log) \in Nat /\ DOMAIN log = 1..Len(log)
    BY DEF TypeInv, JournalInv, TypeOK
  <2>2. CheckpointKey(t.work, m.checkpoint) \in Keys
    BY <1>1, PoolKeys
  <2> QED BY <2>1, <2>2, SeqOfKey DEF ReceiptSeq
<1>4. operations' \subseteq [work : Works, generation : Nat, operation : Operations,
                             request : [epoch : Nat, worker : Workers, mutation : Mutations], seq : Nat]
  <2> DEFINE mutation == [epoch |-> t.epoch, worker |-> t.worker, mutation |-> m]
             x == [work |-> t.work, generation |-> t.generation, operation |-> o, request |-> mutation,
                   seq |-> ReceiptSeq(t, m)]
             T == [work : Works, generation : Nat, operation : Operations,
                   request : [epoch : Nat, worker : Workers, mutation : Mutations], seq : Nat]
  <2>1. operations' = operations \cup {x}
    BY Zenon DEF commit
  <2>2. operations \subseteq T
    BY Zenon DEF TypeInv, PoolTypeOK
  <2>3. x \in T
    BY Zenon, <1>1, <1>3
  <2> QED BY Zenon, <2>1, <2>2, <2>3
<1>5. usage' \subseteq [work : Works, generation : Nat, checkpoint : Checkpoints]
  <2> DEFINE u == [work |-> t.work, generation |-> t.generation, checkpoint |-> m.checkpoint]
             T == [work : Works, generation : Nat, checkpoint : Checkpoints]
  <2>1. usage' = usage \/ usage' = usage \cup {u}
    BY Zenon DEF commit, recordCheckpoint
  <2>2. usage \subseteq T /\ u \in T
    BY Zenon, <1>1 DEF TypeInv, PoolTypeOK
  <2> QED BY Zenon, <2>1, <2>2
<1> QED BY Zenon, <1>2, <1>4, <1>5 DEF commit

\* A completion and a reopening keep the types and the generations.
LEMMA CompleteKeeps ==
  ASSUME TypeInv,
         \/ \E l \in granted, t \in handed, r \in Results : complete(l, t, r)
         \/ \E l \in granted, w \in Works : reopenCompleted(l, w)
  PROVE  /\ work' \in [Works -> Rows] /\ results' \in [Works -> Results \cup {NoResult}]
         /\ \A w \in Works : work'[w].generation = work[w].generation
         /\ UNCHANGED <<rootVars, operations, sessions, usage, claimVars, journalVars>>
<1>0. work \in [Works -> Rows] /\ results \in [Works -> Results \cup {NoResult}]
  BY DEF TypeInv, PoolTypeOK
<1>1. ASSUME NEW w \in Works, NEW row \in Rows, work' = [work EXCEPT ![w] = row], row.generation = work[w].generation
      PROVE  work' \in [Works -> Rows] /\ \A u \in Works : work'[u].generation = work[u].generation
  BY <1>0, <1>1
<1>2. ASSUME NEW l \in granted, NEW t \in handed, NEW r \in Results, complete(l, t, r)
      PROVE  work' \in [Works -> Rows] /\ \A u \in Works : work'[u].generation = work[u].generation
  <2>1. t.work \in Works /\ work[t.work] \in Rows
    BY <1>0 DEF TypeInv, PoolTypeOK, Tokens
  <2>2. [work[t.work] EXCEPT !.state = "completed"] \in Rows
    BY <2>1 DEF Rows, States
  <2>3. [work[t.work] EXCEPT !.state = "completed"].generation = work[t.work].generation
    BY <2>1 DEF Rows
  <2>4. work' = [work EXCEPT ![t.work] = [work[t.work] EXCEPT !.state = "completed"]]
    BY <1>2 DEF complete
  <2> QED BY Zenon, <1>1, <2>1, <2>2, <2>3, <2>4
<1>3. ASSUME NEW l \in granted, NEW w \in Works, reopenCompleted(l, w)
      PROVE  work' \in [Works -> Rows] /\ \A u \in Works : work'[u].generation = work[u].generation
  <2>1. work[w] \in Rows /\ l.epoch \in Nat
    BY <1>0, <1>3, CheckedLease DEF reopenCompleted, authority
  <2>2. Released(work[w], "ready", l.epoch) \in Rows /\ Released(work[w], "ready", l.epoch).generation = work[w].generation
    BY Zenon, <2>1 DEF Released, Rows, States
  <2>3. work' = [work EXCEPT ![w] = Released(work[w], "ready", l.epoch)]
    BY <1>3 DEF reopenCompleted
  <2> QED BY Zenon, <1>1, <2>2, <2>3
<1>4. results' \in [Works -> Results \cup {NoResult}]
  BY Zenon, <1>0 DEF complete, reopenCompleted
<1> QED BY Zenon, <1>2, <1>3, <1>4 DEF complete, reopenCompleted

\* The invariant holds of a queue without a root.
LEMMA CoreInit == PoolInit => CoreInv
<1> SUFFICES ASSUME PoolInit PROVE CoreInv
  OBVIOUS
<1>1. JournalInv
  BY JournalInit DEF PoolInit
<1>2. PoolTypeOK
  <2>1. sessions \in [Sessions -> [owner : Works \cup {Nobody}, entries : Seq(SessionIds)]]
    <3>1. <<>> \in Seq(SessionIds)
      OBVIOUS
    <3> QED BY Zenon, <3>1 DEF PoolInit
  <2>2. work \in [Works -> Rows]
    <3>1. (CHOOSE d \in Descriptors : TRUE) \in Descriptors
      <4>1. PICK x \in Digests, y \in Modes : TRUE
        BY PoolAssumption
      <4>2. [digest |-> x, mode |-> y] \in Descriptors
        BY DEF Descriptors
      <4> QED BY <4>2
    <3> QED BY Zenon, <3>1 DEF PoolInit, Rows, States
  <2> QED BY Zenon, <2>1, <2>2 DEF PoolInit, PoolTypeOK
<1>3. ClaimInv
  BY Zenon DEF PoolInit, ClaimInv, Claims
<1> QED BY <1>1, <1>2, <1>3 DEF CoreInv, TypeInv

\* Every step of the pool keeps it, whichever lease and claim it comes from.
LEMMA CoreStep ==
  ASSUME CoreInv, [PoolNext]_poolVars
  PROVE  CoreInv'
<1>1. TypeInv /\ ClaimInv /\ JournalInv /\ PoolTypeOK
  BY DEF CoreInv, TypeInv
<1>2. [Next]_journalVars
  BY <1>1, PoolStepsJournal
<1>3. JournalInv'
  BY <1>1, <1>2, JournalStep
<1>4. lease.epoch <= lease'.epoch /\ lease'.epoch \in Nat
  BY <1>1, <1>2, EpochsGrow
<1>5. CASE Quiet
  <2>1. PoolTypeOK'
    BY Zenon, <1>1, <1>5 DEF Quiet, PoolTypeOK, tableVars, claimVars
  <2>2. ClaimInv'
    BY <1>1, <1>4, <1>5, ClaimsStay DEF Quiet
  <2> QED BY <1>3, <2>1, <2>2 DEF CoreInv, TypeInv
<1>6. CASE RowsSettle
  <2>1. work' \in [Works -> Rows] /\ \A w \in Works : work'[w].generation = work[w].generation
    BY <1>1, <1>6 DEF RowsSettle, RowSettles, PoolTypeOK
  <2>2. PoolTypeOK'
    BY Zenon, <1>1, <1>6, <2>1 DEF RowsSettle, PoolTypeOK, rootVars, tableVars, claimVars
  <2>3. ClaimInv'
    BY <1>1, <1>4, <1>6, <2>1, ClaimsStay DEF RowsSettle
  <2> QED BY <1>3, <2>2, <2>3 DEF CoreInv, TypeInv
<1>7. CASE Moves
  <2>1. ASSUME NEW l \in granted, NEW w \in Works, NEW d \in Descriptors, Enqueues(l, w, d) PROVE CoreInv'
    <3> PICK new : /\ EnqueuedRow(l, work[w], new, d)
                   /\ work' = [work EXCEPT ![w] = new]
                   /\ sessions' \in [Sessions -> [owner : Works \cup {Nobody}, entries : Seq(SessionIds)]]
                   /\ UNCHANGED <<rootVars, results, operations, usage, claimVars>>
      BY Zenon, <1>1, <2>1, EnqueueKeeps
    <3>1. work' \in [Works -> Rows] /\ \A u \in Works : work'[u].generation = work[u].generation
      BY Zenon, <1>1 DEF EnqueuedRow, PoolTypeOK
    <3>2. PoolTypeOK'
      BY Zenon, <1>1, <3>1 DEF PoolTypeOK, rootVars, claimVars
    <3>3. ClaimInv'
      BY <1>1, <1>4, <3>1, ClaimsStay
    <3> QED BY <1>3, <3>2, <3>3 DEF CoreInv, TypeInv
  <2>2. ASSUME NEW l \in granted, NEW w \in Works, NEW k \in Workers, NEW q, claim(l, w, k, q) PROVE CoreInv'
    <3>1. UNCHANGED <<rootVars, tableVars>>
      BY <2>2 DEF claim
    <3> QED BY Zenon, <1>1, <1>3, <2>2, <3>1, ClaimKeeps DEF PoolTypeOK, rootVars, tableVars, CoreInv, TypeInv
  <2>3. ASSUME NEW l \in granted, NEW t \in placing, releaseUnplaced(l, t) PROVE CoreInv'
    <3>1. UNCHANGED <<rootVars, tableVars>>
      BY <2>3 DEF releaseUnplaced
    <3> QED BY Zenon, <1>1, <1>3, <2>3, <3>1, UnplacedKeeps DEF PoolTypeOK, rootVars, tableVars, CoreInv, TypeInv
  <2>4. ASSUME NEW t \in placing, place(t) PROVE CoreInv'
    <3>1. UNCHANGED <<rootVars, tableVars, work>>
      BY <2>4 DEF place
    <3> QED BY Zenon, <1>1, <1>3, <2>4, <3>1, PlaceKeeps DEF PoolTypeOK, rootVars, tableVars, CoreInv, TypeInv
  <2>5. ASSUME NEW l \in granted, NEW t \in handed, NEW o \in Operations, NEW m \in Mutations, commit(l, t, o, m)
        PROVE  CoreInv'
    <3>1. UNCHANGED <<rootVars, work, results, claimVars>>
      BY Zenon, <2>5 DEF commit
    <3>2. PoolTypeOK'
      BY Zenon, <1>1, <2>5, <3>1, CommitKeeps DEF PoolTypeOK, rootVars, claimVars
    <3>3. ClaimInv'
      BY <1>1, <1>4, <3>1, ClaimsStay
    <3> QED BY <1>3, <3>2, <3>3 DEF CoreInv, TypeInv
  <2>6. ASSUME \/ \E l \in granted, t \in handed, r \in Results : complete(l, t, r)
               \/ \E l \in granted, w \in Works : reopenCompleted(l, w)
        PROVE  CoreInv'
    <3>1. /\ work' \in [Works -> Rows] /\ results' \in [Works -> Results \cup {NoResult}]
          /\ \A w \in Works : work'[w].generation = work[w].generation
          /\ UNCHANGED <<rootVars, operations, sessions, usage, claimVars>>
      BY Zenon, <1>1, <2>6, CompleteKeeps
    <3>2. PoolTypeOK'
      BY Zenon, <1>1, <3>1 DEF PoolTypeOK, rootVars, claimVars
    <3>3. ClaimInv'
      BY <1>1, <1>4, <3>1, ClaimsStay
    <3> QED BY <1>3, <3>2, <3>3 DEF CoreInv, TypeInv
  <2> QED BY <1>7, <2>1, <2>2, <2>3, <2>4, <2>5, <2>6 DEF Moves
<1> QED BY <1>1, <1>5, <1>6, <1>7, StepKinds

\* The inductive invariant of the queue's claims.
THEOREM PoolInvariant == PoolSpec => []CoreInv
BY CoreInit, CoreStep, PTL DEF PoolSpec

\* The tables keep their types: in particular the generation that a claim
\* nobody was handed gives back never falls below zero.
THEOREM PoolTypes == PoolSpec => []PoolTypeOK
<1>1. CoreInv => PoolTypeOK
  BY DEF CoreInv, TypeInv
<1> QED BY <1>1, PoolInvariant, PTL

\* A child and a generation name one attempt.
THEOREM GenerationsNameAttempts == PoolSpec => []AttemptsDistinct
<1>1. CoreInv => AttemptsDistinct
  BY DEF CoreInv, ClaimInv, Claims, AttemptsDistinct
<1> QED BY <1>1, PoolInvariant, PTL

\* Every transaction of the pool is, for the journal, a step it allows.
THEOREM PoolRefinesJournal == PoolSpec => JournalSpec
<1>1. PoolInit => Init
  BY Zenon DEF PoolInit
<1>2. CoreInv /\ [PoolNext]_poolVars => [Next]_journalVars
  BY PoolStepsJournal DEF CoreInv
<1> QED BY <1>1, <1>2, PoolInvariant, PTL DEF PoolSpec, JournalSpec, Spec


-----------------------------------------------------------------------------
(* Attempts *)

\* An attempt that is current in the root's epoch has its row's descriptor.
DescribedInv ==
  \A t \in Claims : current(t) /\ t.epoch = lease.epoch => work[t.work].descriptor = t.descriptor

\* A step that moves no claim, and leaves every row that is leased afterwards
\* leased to the same claim under the same descriptor.
LEMMA DescribedStays ==
  ASSUME CoreInv, DescribedInv, UNCHANGED claimVars, lease'.epoch \in Nat, lease.epoch <= lease'.epoch,
         \A w \in Works : work'[w].state = "leased" /\ work'[w].epoch = lease'.epoch =>
           /\ work[w].state = "leased" /\ work[w].epoch = work'[w].epoch
           /\ work[w].generation = work'[w].generation /\ work[w].worker = work'[w].worker
           /\ work[w].descriptor = work'[w].descriptor
  PROVE  DescribedInv'
<1>1. Claims' = Claims
  BY DEF Claims, claimVars
<1>2. \A t \in Claims : t.work \in Works /\ t.epoch \in Nat /\ t.epoch <= lease.epoch /\ lease.epoch \in Nat
  BY Zenon DEF CoreInv, TypeInv, ClaimInv, PoolTypeOK, Claims, Tokens, JournalInv, TypeOK
<1> SUFFICES ASSUME NEW t \in Claims, current(t)', t.epoch = lease'.epoch
             PROVE  work'[t.work].descriptor = t.descriptor
  BY Zenon, <1>1 DEF DescribedInv
<1>3. t.epoch = lease.epoch
  BY SMTT(60), <1>2
<1>4. current(t) /\ work[t.work].descriptor = work'[t.work].descriptor
  BY Zenon, <1>2 DEF current
<1> QED BY Zenon, <1>3, <1>4 DEF DescribedInv

\* No step changes the descriptor under a claim of the current epoch.
LEMMA DescribedStep ==
  ASSUME CoreInv, DescribedInv, [PoolNext]_poolVars
  PROVE  DescribedInv'
<1>1. TypeInv /\ ClaimInv /\ JournalInv /\ PoolTypeOK /\ work \in [Works -> Rows]
  BY Zenon DEF CoreInv, TypeInv, PoolTypeOK
<1>2. lease.epoch <= lease'.epoch /\ lease'.epoch \in Nat /\ lease.epoch \in Nat
  BY <1>1, PoolStepsJournal, EpochsGrow
<1>3. CASE Quiet
  BY Zenon, <1>2, <1>3, DescribedStays DEF Quiet
<1>4. CASE RowsSettle
  <2>1. \A w \in Works : work'[w].state = "leased" /\ work'[w].epoch = lease'.epoch =>
           /\ work[w].state = "leased" /\ work[w].epoch = work'[w].epoch
           /\ work[w].generation = work'[w].generation /\ work[w].worker = work'[w].worker
           /\ work[w].descriptor = work'[w].descriptor
    BY Zenon, <1>4 DEF RowsSettle, RowSettles
  <2> QED BY Zenon, <1>2, <1>4, <2>1, DescribedStays DEF RowsSettle
<1>5. ASSUME NEW l \in granted, NEW w \in Works, NEW d \in Descriptors, Enqueues(l, w, d) PROVE DescribedInv'
  <2> PICK new : /\ EnqueuedRow(l, work[w], new, d)
                 /\ work' = [work EXCEPT ![w] = new]
                 /\ l.epoch = lease.epoch
                 /\ UNCHANGED claimVars
    BY Zenon, <1>1, <1>5, EnqueueKeeps
  <2>1. \A u \in Works : work'[u].state = "leased" /\ work'[u].epoch = lease'.epoch =>
           /\ work[u].state = "leased" /\ work[u].epoch = work'[u].epoch
           /\ work[u].generation = work'[u].generation /\ work[u].worker = work'[u].worker
           /\ work[u].descriptor = work'[u].descriptor
    <3>1. work[w].epoch \in Nat /\ new.epoch \in Nat
      BY <1>1 DEF EnqueuedRow, Rows
    <3>2. new.state = "leased" /\ new.epoch = lease'.epoch =>
           /\ work[w].state = "leased" /\ work[w].epoch = new.epoch
           /\ work[w].generation = new.generation /\ work[w].worker = new.worker
           /\ work[w].descriptor = new.descriptor
      BY SMTT(60), <1>2, <3>1 DEF EnqueuedRow
    <3>3. work'[w] = new /\ \A u \in Works : u # w => work'[u] = work[u]
      BY Zenon, <1>1
    <3> QED BY Zenon, <3>2, <3>3
  <2> QED BY Zenon, <1>2, <2>1, DescribedStays
<1>6. ASSUME NEW l \in granted, NEW w \in Works, NEW k \in Workers, NEW q, claim(l, w, k, q) PROVE DescribedInv'
  <2> DEFINE row == [work[w] EXCEPT !.state = "leased", !.generation = @ + 1, !.worker = k,
                                    !.epoch = l.epoch, !.lapsed = FALSE]
             t == Token(w, row)
  <2>1. /\ work' = [work EXCEPT ![w] = row] /\ lease' = lease /\ placing' \cup handed' = Claims \cup {t}
        /\ l.epoch = lease.epoch
    BY <1>1, <1>6, CheckedLease DEF claim, Claims, journalVars, authority
  <2>2. row.generation = work[w].generation + 1 /\ work[w].generation \in Nat
    <3>1. row = LeasedRow(work[w], k, l.epoch) /\ work[w] \in Rows /\ l.epoch \in Nat
      BY <1>1, <1>2, <2>1 DEF LeasedRow
    <3> QED BY <3>1, RowsOfClaims
  <2>3. t.work = w /\ t.descriptor = row.descriptor /\ work'[w] = row /\ \A u \in Works : u # w => work'[u] = work[u]
    BY <1>1, <2>1 DEF Token
  <2> HIDE DEF t, row
  <2>4. \A u \in Claims : u.work \in Works /\ u.generation \in Nat /\ u.generation <= work[u.work].generation
    BY Zenon, <1>1 DEF PoolTypeOK, Claims, Tokens, ClaimInv
  <2>5. ASSUME NEW u \in Claims, current(u)', u.epoch = lease.epoch
        PROVE  work'[u.work].descriptor = u.descriptor
    <3>1. u.work # w
      BY SMTT(60), <2>2, <2>3, <2>4, <2>5 DEF current
    <3> QED BY Zenon, <2>3, <2>4, <2>5, <3>1 DEF current, DescribedInv
  <2> QED BY Zenon, <2>1, <2>3, <2>5 DEF DescribedInv, Claims
<1>7. ASSUME NEW l \in granted, NEW t \in placing, releaseUnplaced(l, t) PROVE DescribedInv'
  <2>1. Claims' \subseteq Claims /\ lease' = lease /\ t.work \in Works
        /\ work' = [work EXCEPT ![t.work] = UnplacedRow(work[t.work])]
    BY <1>1, <1>7 DEF releaseUnplaced, Claims, journalVars, UnplacedRow, PoolTypeOK, Tokens
  <2>2. UnplacedRow(work[t.work]).state = "ready"
    <3>1. work[t.work] \in Rows
      BY <1>1, <2>1
    <3> QED BY <3>1 DEF UnplacedRow, Released, Rows
  <2>3. \A u \in Claims' : u.work \in Works
    BY <1>1, <2>1 DEF PoolTypeOK, Claims, Tokens
  <2>4. \A u \in Claims' : current(u)' => u.work # t.work /\ work'[u.work] = work[u.work]
    BY Zenon, <1>1, <2>1, <2>2, <2>3 DEF current
  <2> QED BY Zenon, <2>1, <2>4 DEF DescribedInv, current
<1>8. ASSUME NEW t \in placing, place(t) PROVE DescribedInv'
  <2>1. Claims' = Claims /\ work' = work /\ lease' = lease
    BY <1>8 DEF place, Claims, journalVars
  <2> QED BY Zenon, <2>1 DEF DescribedInv, current
<1>9. ASSUME NEW l \in granted, NEW t \in handed, NEW o \in Operations, NEW m \in Mutations, commit(l, t, o, m)
      PROVE  DescribedInv'
  <2>1. UNCHANGED <<rootVars, work, results, claimVars>>
    BY Zenon, <1>9 DEF commit
  <2> QED BY <1>2, <2>1, DescribedStays
<1>10. ASSUME NEW l \in granted, NEW t \in handed, NEW r \in Results, complete(l, t, r) PROVE DescribedInv'
  <2>1. t.work \in Works /\ UNCHANGED claimVars /\ work' = [work EXCEPT ![t.work] = [work[t.work] EXCEPT !.state = "completed"]]
    BY <1>1, <1>10 DEF complete, PoolTypeOK, Tokens
  <2>2. [work[t.work] EXCEPT !.state = "completed"].state = "completed"
    BY <1>1, <2>1 DEF Rows
  <2>3. \A u \in Works : work'[u].state = "leased" => work'[u] = work[u]
    BY <1>1, <2>1, <2>2
  <2> QED BY <1>2, <2>1, <2>3, DescribedStays
<1>11. ASSUME NEW l \in granted, NEW w \in Works, reopenCompleted(l, w) PROVE DescribedInv'
  <2>1. UNCHANGED claimVars /\ work' = [work EXCEPT ![w] = Released(work[w], "ready", l.epoch)]
    BY <1>11 DEF reopenCompleted
  <2>2. Released(work[w], "ready", l.epoch).state = "ready"
    BY <1>1 DEF Rows, Released
  <2>3. \A u \in Works : work'[u].state = "leased" => work'[u] = work[u]
    BY <1>1, <2>1, <2>2
  <2> QED BY <1>2, <2>1, <2>3, DescribedStays
<1> QED BY Zenon, <1>1, <1>3, <1>4, <1>5, <1>6, <1>7, <1>8, <1>9, <1>10, <1>11, StepKinds DEF Moves

\* A running attempt runs what its row says: rebind only touches rows of an
\* earlier epoch, and no attempt of the root's epoch runs those.
THEOREM AttemptsRunTheirDescriptor == PoolSpec => []RunsItsDescriptor
<1>1. PoolInit => DescribedInv
  <2>1. PoolInit => placing = {} /\ handed = {}
    BY Zenon DEF PoolInit
  <2> QED BY <2>1 DEF DescribedInv, Claims
<1>2. CoreInv /\ DescribedInv /\ [PoolNext]_poolVars => DescribedInv'
  BY DescribedStep
<1>3. CoreInv /\ DescribedInv => RunsItsDescriptor
  BY Zenon DEF DescribedInv, RunsItsDescriptor, Standing, current, Claims
<1> QED BY <1>1, <1>2, <1>3, PoolInvariant, PTL DEF PoolSpec

=============================================================================
