-------------------------- MODULE PoolTablesProofs --------------------------
(***************************************************************************)
(* Proofs about what attempts leave in the pool's tables: results, stored  *)
(* operations and their receipts, sessions and usage.                      *)
(*                                                                         *)
(* The argument.  Only a current attempt stores an operation, and its      *)
(* generation is the highest handed out for its child (ClaimInv).  A       *)
(* session entry is backed by a stored operation of the session's owner,   *)
(* so its generation was handed out as well (HandedInv): the entry a       *)
(* commit adds comes after all of them, and differs from each because the  *)
(* operation was not stored yet.                                           *)
(***************************************************************************)
EXTENDS PoolQueueProofs

\* Results and states go together.
LEMMA ResultStep ==
  ASSUME CoreInv, ResultIffCompleted, [PoolNext]_poolVars
  PROVE  ResultIffCompleted'
<1>1. TypeInv /\ work \in [Works -> Rows] /\ results \in [Works -> Results \cup {NoResult}]
  BY DEF CoreInv, TypeInv, PoolTypeOK
<1>2. CASE Quiet
  BY <1>2 DEF Quiet, ResultIffCompleted, tableVars
<1>3. CASE RowsSettle
  BY <1>3 DEF RowsSettle, RowSettles, ResultIffCompleted, tableVars
<1>4. ASSUME NEW w \in Works, NEW row, work' = [work EXCEPT ![w] = row], results' = results,
             (row.state = "completed") <=> (work[w].state = "completed")
      PROVE  ResultIffCompleted'
  <2>1. \A u \in Works : (work'[u].state = "completed") <=> (work[u].state = "completed")
    BY <1>1, <1>4
  <2> QED BY <1>4, <2>1 DEF ResultIffCompleted
<1>5. ASSUME NEW l \in granted, NEW w \in Works, NEW d \in Descriptors, Enqueues(l, w, d) PROVE ResultIffCompleted'
  <2> PICK new : /\ EnqueuedRow(l, work[w], new, d)
                 /\ work' = [work EXCEPT ![w] = new]
                 /\ results' = results
    BY <1>1, <1>5, EnqueueKeeps
  <2> QED BY Zenon, <1>4 DEF EnqueuedRow
<1>6. ASSUME NEW l \in granted, NEW w \in Works, NEW k \in Workers, NEW q, claim(l, w, k, q) PROVE ResultIffCompleted'
  <2>1. /\ work' = [work EXCEPT ![w] = LeasedRow(work[w], k, l.epoch)] /\ results' = results
        /\ work[w].state = "ready"
    BY <1>6 DEF claim, LeasedRow, tableVars
  <2>2. LeasedRow(work[w], k, l.epoch).state = "leased"
    BY <1>1 DEF LeasedRow, Rows
  <2> QED BY Zenon, <1>4, <2>1, <2>2
<1>7. ASSUME NEW l \in granted, NEW t \in placing, releaseUnplaced(l, t) PROVE ResultIffCompleted'
  <2>1. /\ t.work \in Works /\ work' = [work EXCEPT ![t.work] = UnplacedRow(work[t.work])] /\ results' = results
        /\ work[t.work].state = "leased"
    BY <1>1, <1>7 DEF releaseUnplaced, current, UnplacedRow, tableVars, TypeInv, PoolTypeOK, Tokens
  <2>2. UnplacedRow(work[t.work]).state = "ready"
    BY <1>1, <2>1 DEF UnplacedRow, Released, Rows
  <2> QED BY Zenon, <1>4, <2>1, <2>2
<1>8. ASSUME NEW t \in placing, place(t) PROVE ResultIffCompleted'
  BY <1>8 DEF place, ResultIffCompleted, tableVars
<1>9. ASSUME NEW l \in granted, NEW t \in handed, NEW o \in Operations, NEW m \in Mutations, commit(l, t, o, m)
      PROVE  ResultIffCompleted'
  BY <1>9 DEF commit, ResultIffCompleted
<1>10. ASSUME NEW l \in granted, NEW t \in handed, NEW r \in Results, complete(l, t, r) PROVE ResultIffCompleted'
  <2>1. /\ t.work \in Works /\ r # NoResult /\ results' = [results EXCEPT ![t.work] = r]
        /\ work' = [work EXCEPT ![t.work] = [work[t.work] EXCEPT !.state = "completed"]]
    BY <1>1, <1>10, PoolAssumption DEF complete, TypeInv, PoolTypeOK, Tokens
  <2>2. [work[t.work] EXCEPT !.state = "completed"].state = "completed"
    BY <1>1, <2>1 DEF Rows
  <2> QED BY <1>1, <2>1, <2>2 DEF ResultIffCompleted
<1>11. ASSUME NEW l \in granted, NEW w \in Works, reopenCompleted(l, w) PROVE ResultIffCompleted'
  <2>1. /\ results' = [results EXCEPT ![w] = NoResult]
        /\ work' = [work EXCEPT ![w] = Released(work[w], "ready", l.epoch)]
    BY <1>11 DEF reopenCompleted
  <2>2. Released(work[w], "ready", l.epoch).state = "ready"
    BY <1>1 DEF Rows, Released
  <2> QED BY <1>1, <2>1, <2>2 DEF ResultIffCompleted
<1> QED BY <1>1, <1>2, <1>3, <1>5, <1>6, <1>7, <1>8, <1>9, <1>10, <1>11, StepKinds DEF Moves

\* A result is stored exactly for the children whose row is completed, across
\* completion, reopening and every release.
THEOREM ResultsBelongToCompletedRows == PoolSpec => []ResultIffCompleted
<1>1. PoolInit => ResultIffCompleted
  BY DEF PoolInit, ResultIffCompleted
<1>2. CoreInv /\ ResultIffCompleted /\ [PoolNext]_poolVars => ResultIffCompleted'
  BY ResultStep
<1> QED BY <1>1, <1>2, PoolInvariant, PTL DEF PoolSpec

\* Results change by completion and reopening only.
LEMMA ResultsChange ==
  ASSUME TypeInv, [PoolNext]_poolVars, results' # results
  PROVE  \/ \E l \in granted, t \in handed, r \in Results : complete(l, t, r)
         \/ \E l \in granted, w \in Works : reopenCompleted(l, w)
<1>1. ~Quiet /\ ~RowsSettle
  BY DEF Quiet, RowsSettle, tableVars
<1>2. ASSUME NEW l \in granted, NEW w \in Works, NEW d \in Descriptors, Enqueues(l, w, d) PROVE results' = results
  BY <1>2, EnqueueKeeps
<1>3. ASSUME NEW l, NEW w, NEW k, NEW q, claim(l, w, k, q) PROVE results' = results
  BY <1>3 DEF claim, tableVars
<1>4. ASSUME NEW l, NEW t, releaseUnplaced(l, t) \/ place(t) PROVE results' = results
  BY <1>4 DEF releaseUnplaced, place, tableVars
<1>5. ASSUME NEW l, NEW t, NEW o, NEW m, commit(l, t, o, m) PROVE results' = results
  BY <1>5 DEF commit
<1> QED BY <1>1, <1>2, <1>3, <1>4, <1>5, StepKinds DEF Moves

\* A result the root may have read changes only when a later incarnation
\* reopens the child.
THEOREM ResultsAreStable == PoolSpec => ResultsStay
<1> DEFINE A == \A w \in Works : results[w] # NoResult /\ results'[w] # results[w] =>
                  results'[w] = NoResult /\ work'[w].epoch > work[w].epoch
<1>1. ASSUME CoreInv, ResultIffCompleted, [PoolNext]_poolVars PROVE A
  <2> SUFFICES ASSUME NEW w \in Works, results[w] # NoResult, results'[w] # results[w]
               PROVE  results'[w] = NoResult /\ work'[w].epoch > work[w].epoch
    OBVIOUS
  <2>1. /\ TypeInv /\ work \in [Works -> Rows] /\ results \in [Works -> Results \cup {NoResult}]
        /\ work[w].state = "completed"
    BY <1>1 DEF CoreInv, TypeInv, PoolTypeOK, ResultIffCompleted
  <2>2. ASSUME NEW l \in granted, NEW t \in handed, NEW r \in Results, complete(l, t, r) PROVE FALSE
    BY <2>1, <2>2 DEF complete, current
  <2>3. ASSUME NEW l \in granted, NEW u \in Works, reopenCompleted(l, u)
        PROVE  results'[w] = NoResult /\ work'[w].epoch > work[w].epoch
    <3>1. /\ u = w /\ results'[w] = NoResult /\ work[w].epoch < l.epoch
          /\ work'[w] = Released(work[w], "ready", l.epoch)
      BY <2>1, <2>3 DEF reopenCompleted
    <3>2. work'[w].epoch = l.epoch /\ work[w].epoch \in Nat /\ l.epoch \in Nat
      BY <2>1, <2>3, <3>1, CheckedLease DEF reopenCompleted, authority, Released, Rows
    <3> QED BY <3>1, <3>2
  <2> QED BY <1>1, <2>1, <2>2, <2>3, ResultsChange
<1>2. CoreInv /\ ResultIffCompleted /\ [PoolNext]_poolVars => [A]_poolVars
  BY <1>1
<1> QED BY <1>2, PoolInvariant, ResultsBelongToCompletedRows, PTL DEF PoolSpec, ResultsStay

-----------------------------------------------------------------------------
(* Stored operations *)

\* Operations, sessions and usage rows change by enqueues and commits only, and
\* a claim that was handed out stays handed out.
LEMMA TablesChange ==
  ASSUME TypeInv, [PoolNext]_poolVars
  PROVE  /\ handed \subseteq handed'
         /\ \/ UNCHANGED <<operations, sessions, usage>>
            \/ \E l \in granted, w \in Works, d \in Descriptors : Enqueues(l, w, d)
            \/ \E l \in granted, t \in handed, o \in Operations, m \in Mutations : commit(l, t, o, m)
<1>1. ASSUME Quiet \/ RowsSettle PROVE UNCHANGED <<handed, operations, sessions, usage>>
  BY <1>1 DEF Quiet, RowsSettle, tableVars, claimVars
<1>2. ASSUME NEW l \in granted, NEW w \in Works, NEW d \in Descriptors, Enqueues(l, w, d) PROVE handed' = handed
  BY <1>2, EnqueueKeeps DEF claimVars
<1>3. ASSUME NEW l, NEW w, NEW k, NEW q, claim(l, w, k, q)
      PROVE  handed \subseteq handed' /\ UNCHANGED <<operations, sessions, usage>>
  BY <1>3 DEF claim, tableVars
<1>4. ASSUME NEW l, NEW t, releaseUnplaced(l, t) \/ place(t)
      PROVE  handed \subseteq handed' /\ UNCHANGED <<operations, sessions, usage>>
  BY <1>4 DEF releaseUnplaced, place, tableVars
<1>5. ASSUME NEW l, NEW t, NEW o, NEW m, commit(l, t, o, m) PROVE handed' = handed
  BY <1>5 DEF commit, claimVars
<1>6. ASSUME NEW l, NEW t, NEW r, complete(l, t, r) \/ reopenCompleted(l, t)
      PROVE  UNCHANGED <<handed, operations, sessions, usage>>
  BY <1>6 DEF complete, reopenCompleted, claimVars
<1> QED BY <1>1, <1>2, <1>3, <1>4, <1>5, <1>6, StepKinds DEF Moves

\* Once a later attempt of a child was handed out, no earlier attempt stores
\* an operation.
THEOREM EarlierAttemptsAreFenced == PoolSpec => ReplacedAttemptsAreFenced
<1> DEFINE A == \A x \in operations' \ operations, t \in handed : t.work = x.work => t.generation <= x.generation
<1>1. ASSUME CoreInv, [PoolNext]_poolVars PROVE A
  <2>0. TypeInv
    BY <1>1 DEF CoreInv
  <2>1. CASE UNCHANGED operations
    BY <2>1
  <2>2. ASSUME NEW l \in granted, NEW w \in Works, NEW d \in Descriptors, Enqueues(l, w, d) PROVE operations' = operations
    BY <2>0, <2>2, EnqueueKeeps
  <2>3. ASSUME NEW l \in granted, NEW u \in handed, NEW o \in Operations, NEW m \in Mutations, commit(l, u, o, m)
        PROVE  A
    <3>1. \A x \in operations' \ operations : x.work = u.work /\ x.generation = u.generation
      BY <2>3 DEF commit
    <3>2. work[u.work].generation = u.generation
      BY <2>3 DEF commit, current
    <3>3. \A t \in handed : t.generation <= work[t.work].generation
      BY <1>1 DEF CoreInv, ClaimInv, Claims
    <3> QED BY <3>1, <3>2, <3>3
  <2> QED BY <1>1, <2>0, <2>1, <2>2, <2>3, TablesChange
<1>2. CoreInv /\ [PoolNext]_poolVars => [A]_poolVars
  BY <1>1
<1> QED BY <1>2, PoolInvariant, PTL DEF PoolSpec, ReplacedAttemptsAreFenced

-----------------------------------------------------------------------------
(* Receipts, usage and sessions *)

LogKept == \A i \in DOMAIN log : i \in DOMAIN log' /\ log'[i] = log[i]

\* The pool never deletes an event.
LEMMA PoolKeepsLog ==
  ASSUME CoreInv, [PoolNext]_poolVars
  PROVE  LogKept
<1>1. TypeInv /\ JournalInv
  BY DEF CoreInv, TypeInv
<1>2. header' # NoRun => LogKept
  BY <1>1, PoolStepsJournal, StepOfLog DEF LogStep, LogKept
<1>3. ASSUME log' = log PROVE LogKept
  BY <1>3 DEF LogKept
<1>4. header = NoRun => log = <<>>
  BY <1>1 DEF JournalInv, LogInv, Exists
<1>5. ASSUME header' = header PROVE LogKept
  <2>1. CASE header = NoRun
    BY <1>4, <2>1 DEF LogKept
  <2> QED BY <1>2, <1>5, <2>1
<1>6. ASSUME NEW l, NEW r, NEW e, append(l, r, e) PROVE header' = header
  BY <1>6 DEF append, Write
<1>7. ASSUME NEW l, NEW key, NEW body, Record(l, key, body) PROVE header' = header
  BY <1>7 DEF Record
<1>8. ASSUME RootNext PROVE LogKept
  <2>1. ASSUME NEW s \in Statuses, RootRuns(s) PROVE log' = log
    BY <2>1 DEF RootRuns, createRun
  <2>2. ASSUME RootHolds \/ RootReleases \/ RootLate \/ RootAges PROVE log' = log
    BY <2>2 DEF RootHolds, RootReleases, RootLate, RootAges, acquire, takeoverExpired, takeover, grant, renew, release,
                LeaseAges, journalVars
  <2>3. ASSUME NEW l \in granted, NEW s, NEW w, NEW p, RootStatus(l, s) \/ RootBoundary(l, w, p) PROVE header' = header
    BY <1>6, <2>3 DEF RootStatus, RootBoundary
  <2> QED BY <1>3, <1>5, <1>8, <2>1, <2>2, <2>3 DEF RootNext
<1>9. ASSUME NEW l \in granted, NEW w \in Works, NEW d \in Descriptors, Enqueues(l, w, d) PROVE LogKept
  <2>1. header' = header
    BY <1>7, <1>9 DEF Enqueues, enqueueNew, enqueueAgain, journalVars
  <2> QED BY <1>5, <2>1
<1>10. ASSUME NEW l \in granted, NEW t \in handed, NEW o \in Operations, NEW m \in Mutations, commit(l, t, o, m)
       PROVE  LogKept
  <2>1. header' = header
    <3>1. UNCHANGED journalVars \/ \E key, body : Record(l, key, body)
      BY Zenon, <1>10 DEF commit, recordCheckpoint
    <3> QED BY <1>7, <3>1 DEF journalVars
  <2> QED BY <1>5, <2>1
<1>11. CASE Moves
  <2>1. ASSUME NEW l, NEW w, NEW k, NEW q, claim(l, w, k, q) PROVE log' = log
    BY <2>1 DEF claim, journalVars
  <2>2. ASSUME NEW l, NEW t, NEW r, releaseUnplaced(l, t) \/ place(t) \/ complete(l, t, r) \/ reopenCompleted(l, t)
        PROVE  log' = log
    BY <2>2 DEF releaseUnplaced, place, complete, reopenCompleted, journalVars
  <2> QED BY <1>3, <1>9, <1>10, <1>11, <2>1, <2>2 DEF Moves
<1>12. CASE RowsSettle
  BY <1>3, <1>12 DEF RowsSettle, journalVars
<1>13. CASE UNCHANGED poolVars
  BY <1>3, <1>13 DEF poolVars, journalVars
<1>14. ASSUME CoordinatorNext, Quiet PROVE LogKept
  <2> PICK l \in granted : CoordinatorNext!(l)
    BY Zenon, <1>14 DEF CoordinatorNext
  <2>1. ASSUME initialize(l) \/ \E state \in Controls : setControl(l, state) PROVE log' = log
    BY <2>1 DEF initialize, setControl, journalVars
  <2>2. ASSUME NEW w \in Works, NEW d \in Descriptors, NEW claimed \in SUBSET Forked,
               \/ \E p \in Payloads : enqueueNew(l, w, d, p, claimed)
               \/ \E accept \in BOOLEAN : enqueueAgain(l, w, d, accept, claimed)
        PROVE  LogKept
    BY <1>9, <2>2 DEF Enqueues
  <2>3. ASSUME NEW w \in Works,
               \/ \E k \in Workers, placement \in {"any", "unbound", "exact"} : claim(l, w, k, placement)
               \/ reopenCompleted(l, w)
        PROVE  LogKept
    BY <1>11, <2>3 DEF Moves
  <2>4. ASSUME \E t \in placing : releaseUnplaced(l, t) PROVE LogKept
    BY <1>11, <2>4 DEF Moves
  <2> QED BY Zenon, <1>1, <1>3, <1>12, <2>1, <2>2, <2>3, <2>4, CoordinatorSettles DEF Claims
<1>15. ASSUME AttemptNext, Quiet PROVE LogKept
  <2>1. ASSUME NEW l \in granted, NEW t, NEW p, appendGuarded(l, t, p) PROVE header' = header
    BY <1>6, <2>1 DEF appendGuarded
  <2>2. ASSUME NEW l, NEW t, renewWork(l, t) \/ Lapse(t) PROVE log' = log
    BY <2>2 DEF renewWork, Lapse, SetRow, journalVars
  <2> QED BY <1>3, <1>5, <1>11, <1>15, <2>1, <2>2 DEF AttemptNext, Moves
<1> QED BY <1>1, <1>8, <1>11, <1>12, <1>13, <1>14, <1>15, StepKinds DEF PoolNext

\* Usage was billed for a recorded checkpoint, operations were stored by an
\* attempt that was handed out, and a session nobody owns is empty.
UsageInv == \A u \in usage : HasKey(log, CheckpointKey(u.work, u.checkpoint))

HandedInv == \A x \in operations : \E t \in handed : t.work = x.work /\ t.generation = x.generation

OwnerInv == \A s \in Sessions : sessions[s].owner = Nobody => sessions[s].entries = <<>>

TableInv ==
  /\ UsageInv /\ HandedInv /\ OwnerInv
  /\ BilledOnce /\ ReceiptsHold /\ EntriesAreStored /\ SessionsInOrder

\* A key once recorded stays recorded, and so do the events receipts name.
LEMMA KeysStay ==
  ASSUME LogKept, NEW key, HasKey(log, key)
  PROVE  HasKey(log, key)'
BY DEF LogKept, HasKey

\* A step that leaves operations, sessions and usage alone keeps the tables'
\* invariant: the log only grows, and so do the claims.
LEMMA TablesStay ==
  ASSUME TableInv, LogKept, handed \subseteq handed', UNCHANGED <<operations, sessions, usage>>
  PROVE  TableInv'
<1>1. UsageInv'
  BY KeysStay DEF TableInv, UsageInv, CheckpointKey
<1>2. HandedInv'
  BY DEF TableInv, HandedInv
<1>3. ReceiptsHold'
  BY DEF TableInv, ReceiptsHold, LogKept
<1> QED BY SMTT(60), <1>1, <1>2, <1>3 DEF TableInv, OwnerInv, BilledOnce, EntriesAreStored, SessionsInOrder

\* An enqueue gives sessions nobody owns an owner, and those are empty.
LEMMA EnqueueKeepsTables ==
  ASSUME TypeInv, TableInv, LogKept, NEW l \in granted, NEW w \in Works, NEW d \in Descriptors, Enqueues(l, w, d)
  PROVE  TableInv'
<1>1. UNCHANGED <<operations, usage, handed>>
  BY EnqueueKeeps DEF claimVars
<1>2. PICK claimed \in SUBSET Forked : claimSessions(w, claimed)
  BY DEF Enqueues, enqueueNew, enqueueAgain
<1>3. \A s \in Sessions : sessions[s] \in [owner : Works \cup {Nobody}, entries : Seq(SessionIds)]
  BY DEF TypeInv, PoolTypeOK
<1>4. \A s \in Sessions : /\ sessions'[s].entries = sessions[s].entries
                          /\ sessions'[s].owner = sessions[s].owner \/ (sessions[s].owner = Nobody /\ sessions'[s].owner = w)
  BY <1>2, <1>3 DEF claimSessions
<1>5. \A s \in Sessions : sessions'[s].owner = sessions[s].owner \/ DOMAIN sessions[s].entries = {}
  BY <1>4 DEF TableInv, OwnerInv
<1>6. UsageInv' /\ HandedInv' /\ ReceiptsHold' /\ BilledOnce'
  <2>1. UsageInv'
    BY <1>1, KeysStay DEF TableInv, UsageInv, CheckpointKey
  <2> QED BY Zenon, <1>1, <2>1 DEF TableInv, HandedInv, ReceiptsHold, LogKept, BilledOnce
<1>7. OwnerInv'
  BY <1>4, PoolAssumption DEF TableInv, OwnerInv
<1>8. EntriesAreStored'
  <2>1. operations' = operations
    BY Zenon, <1>1
  <2> QED BY SMTT(60), <2>1, <1>4, <1>5 DEF TableInv, EntriesAreStored
<1>9. SessionsInOrder'
  BY SMTT(60), <1>4 DEF TableInv, SessionsInOrder
<1> QED BY <1>6, <1>7, <1>8, <1>9 DEF TableInv

\* Where an appended event is found.
LEMMA AppendedAt ==
  ASSUME NEW events \in Seq(Entries), NEW e
  PROVE  Len(events) + 1 \in DOMAIN Append(events, e) /\ Append(events, e)[Len(events) + 1] = e
OBVIOUS

\* The events and usage of a commit.
LEMMA CommitRecords ==
  ASSUME CoreInv, TableInv, LogKept,
         NEW l \in granted, NEW t \in handed, NEW o \in Operations, NEW m \in Mutations, commit(l, t, o, m)
  PROVE  UsageInv' /\ BilledOnce' /\ ReceiptsHold' /\ HandedInv'
<1> DEFINE key == CheckpointKey(t.work, m.checkpoint)
           n   == ReceiptSeq(t, m)
           x   == [work |-> t.work, generation |-> t.generation, operation |-> o,
                   request |-> [epoch |-> t.epoch, worker |-> t.worker, mutation |-> m], seq |-> n]
           u   == [work |-> t.work, generation |-> t.generation, checkpoint |-> m.checkpoint]
<1>0. operations' = operations \cup {x} /\ handed' = handed
  <2>1. operations' = operations \cup {x} /\ UNCHANGED <<rootVars, work, results, claimVars>>
    BY Zenon DEF commit
  <2> QED BY <2>1 DEF claimVars
<1>1. /\ t.work \in Works /\ m.checkpoint \in Checkpoints /\ key \in Keys /\ key # NoKey
      /\ log \in Seq(Entries) /\ Len(log) \in Nat
  <2>1. handed \subseteq Tokens /\ log \in Seq(Entries)
    BY Zenon DEF CoreInv, TypeInv, PoolTypeOK, JournalInv, TypeOK
  <2>2. t.work \in Works /\ m.checkpoint \in Checkpoints
    BY <2>1 DEF Tokens, Mutations
  <2> QED BY <2>1, <2>2, PoolKeys, JournalAssumption
<1>2. HandedInv'
  BY <1>0, <1>1 DEF TableInv, HandedInv
<1>3. ASSUME m.kind # "session-append"
      PROVE  /\ HasKey(log, key)' /\ n \in DOMAIN log' /\ log'[n].key = key /\ log'[n].body = m.body
             /\ usage' \in {usage, usage \cup {u}} /\ (usage' # usage => ~HasKey(log, key))
  <2>1. CASE HasKey(log, key)
    <3>1. n = SeqOf(key) /\ log[SeqOf(key)].body = m.body /\ usage' = usage
      BY Zenon, <1>3, <2>1 DEF commit, recordCheckpoint, ReceiptSeq
    <3>2. n \in DOMAIN log /\ log[n].key = key /\ log[n].body = m.body
      BY Zenon, <1>1, <2>1, <3>1, SeqOfKey
    <3> QED BY Zenon, <1>1, <2>1, <3>1, <3>2, KeysStay DEF LogKept
  <2>2. CASE ~HasKey(log, key)
    <3>1. /\ n = Len(log) + 1 /\ log' = Append(log, [epoch |-> l.epoch, key |-> key, body |-> m.body])
          /\ usage' \in {usage, usage \cup {u}}
      BY Zenon, <1>3, <2>2 DEF commit, recordCheckpoint, ReceiptSeq, Record
    <3>2. n \in DOMAIN log' /\ log'[n].key = key /\ log'[n].body = m.body
      <4> DEFINE e == [epoch |-> l.epoch, key |-> key, body |-> m.body]
      <4>1. e.key = key /\ e.body = m.body
        BY Zenon
      <4>2. n = Len(log) + 1 /\ log' = Append(log, e)
        BY Zenon, <3>1
      <4> HIDE DEF e, n, key
      <4>3. n \in DOMAIN log' /\ log'[n] = e
        BY Zenon, <1>1, <4>2, AppendedAt
      <4> QED BY Zenon, <4>1, <4>3
    <3>3. HasKey(log, key)'
      BY Zenon, <1>1, <3>2 DEF HasKey
    <3> QED BY Zenon, <2>2, <3>1, <3>2, <3>3
  <2> QED BY Zenon, <2>1, <2>2
<1>4. ReceiptsHold'
  <2>1. \A y \in operations : y.request.mutation.kind # "session-append" =>
          /\ y.seq \in DOMAIN log' /\ log'[y.seq].key = CheckpointKey(y.work, y.request.mutation.checkpoint)
          /\ log'[y.seq].body = y.request.mutation.body
    BY Zenon DEF TableInv, ReceiptsHold, LogKept
  <2>2. /\ x.work = t.work /\ x.request.mutation = m /\ x.seq = n
    OBVIOUS
  <2> HIDE DEF x, n, key
  <2>3. m.kind # "session-append" =>
          /\ x.seq \in DOMAIN log' /\ log'[x.seq].key = CheckpointKey(x.work, x.request.mutation.checkpoint)
          /\ log'[x.seq].body = x.request.mutation.body
    BY Zenon, <1>3, <2>2 DEF key
  <2> QED BY Zenon, <1>0, <2>1, <2>2, <2>3 DEF ReceiptsHold, CheckpointKey
<1>5. CASE m.kind = "session-append"
  <2>1. usage' = usage
    BY Zenon, <1>5 DEF commit
  <2> QED BY <1>2, <1>4, <2>1, KeysStay DEF TableInv, UsageInv, BilledOnce, CheckpointKey
<1>6. CASE m.kind # "session-append"
  <2>1. UsageInv'
    <3>1. \A v \in usage : HasKey(log, CheckpointKey(v.work, v.checkpoint))'
      BY KeysStay DEF TableInv, UsageInv, CheckpointKey
    <3>2. HasKey(log, CheckpointKey(u.work, u.checkpoint))'
      BY Zenon, <1>3, <1>6
    <3> QED BY Zenon, <1>3, <1>6, <3>1, <3>2 DEF UsageInv, CheckpointKey
  <2>2. BilledOnce'
    <3>1. ~HasKey(log, key) => \A v \in usage : ~(v.work = t.work /\ v.checkpoint = m.checkpoint)
      BY Zenon DEF TableInv, UsageInv
    <3>2. usage' = usage \/ (usage' = usage \cup {u} /\ ~HasKey(log, key))
      BY Zenon, <1>3, <1>6
    <3>3. u.work = t.work /\ u.checkpoint = m.checkpoint
      BY Zenon
    <3> HIDE DEF u
    <3> QED BY SMTT(60), <3>1, <3>2, <3>3 DEF BilledOnce, TableInv
  <2> QED BY <1>2, <1>4, <2>1, <2>2
<1> QED BY <1>5, <1>6

\* The session of a commit: its new entry has the highest generation of the
\* session's owner and no operation stored before.
LEMMA CommitSessions ==
  ASSUME CoreInv, TableInv,
         NEW l \in granted, NEW t \in handed, NEW o \in Operations, NEW m \in Mutations, commit(l, t, o, m)
  PROVE  OwnerInv' /\ EntriesAreStored' /\ SessionsInOrder'
<1> DEFINE entry == [generation |-> t.generation, operation |-> o]
           e == sessions[m.session].entries
           x == [work |-> t.work, generation |-> t.generation, operation |-> o,
                 request |-> [epoch |-> t.epoch, worker |-> t.worker, mutation |-> m], seq |-> ReceiptSeq(t, m)]
<1>1. /\ t.work \in Works /\ t.work # Nobody /\ t.generation \in Nat
      /\ operations' = operations \cup {x}
      /\ \A s \in Sessions : sessions[s] \in [owner : Works \cup {Nobody}, entries : Seq(SessionIds)]
      /\ sessions \in [Sessions -> [owner : Works \cup {Nobody}, entries : Seq(SessionIds)]]
  BY Zenon, PoolAssumption DEF commit, CoreInv, TypeInv, PoolTypeOK, Tokens
<1>2. /\ entry \in SessionIds /\ entry.generation = t.generation /\ entry.operation = o
      /\ x.work = t.work /\ x.generation = t.generation /\ x.operation = o /\ x.request.mutation.session = m.session
  BY Zenon, <1>1 DEF SessionIds
<1>3. \A y \in operations : y.work = t.work => y.generation \in Nat /\ y.generation <= t.generation
  <2>1. work[t.work].generation = t.generation
    BY Zenon DEF commit, current
  <2>2. \A u \in handed : u.generation \in Nat /\ u.generation <= work[u.work].generation
    BY DEF CoreInv, TypeInv, PoolTypeOK, Tokens, ClaimInv, Claims
  <2> QED BY SMTT(60), <2>1, <2>2 DEF TableInv, HandedInv
<1>4. \A y \in operations : ~(y.work = t.work /\ y.generation = t.generation /\ y.operation = o)
  <2>1. Stored(t, o) = {}
    BY Zenon DEF commit
  <2> QED BY <2>1 DEF Stored
<1> HIDE DEF entry, x
<1> DEFINE Backed(es) ==
             \A i \in DOMAIN es :
               \E y \in operations' : /\ y.work = t.work /\ y.generation = es[i].generation
                                      /\ y.operation = es[i].operation /\ y.request.mutation.session = m.session
           Ordered(es) == \A i, k \in DOMAIN es : i < k => es[i].generation <= es[k].generation /\ es[i] # es[k]
           Becomes(es) == sessions' = [sessions EXCEPT ![m.session] = [owner |-> t.work, entries |-> es]]
<1>5. CASE sessions' = sessions
  <2>1. operations \subseteq operations'
    BY Zenon, <1>1
  <2>2. EntriesAreStored'
    BY SMTT(60), <1>5, <2>1 DEF TableInv, EntriesAreStored
  <2>3. OwnerInv' /\ SessionsInOrder'
    BY SMTT(60), <1>5 DEF TableInv, OwnerInv, SessionsInOrder
  <2> QED BY <2>2, <2>3
<1>6. ASSUME m.session \in Sessions, NEW es, Becomes(es), Backed(es), Ordered(es)
      PROVE  OwnerInv' /\ EntriesAreStored' /\ SessionsInOrder'
  <2>1. /\ sessions'[m.session].entries = es /\ sessions'[m.session].owner = t.work
        /\ \A s \in Sessions : s # m.session => sessions'[s] = sessions[s]
    BY Zenon, <1>1, <1>6
  <2>2. OwnerInv'
    BY Zenon, <1>1, <1>6, <2>1 DEF OwnerInv, TableInv
  <2>3. EntriesAreStored'
    <3>1. \A s \in Sessions : s # m.session => \A i \in DOMAIN sessions'[s].entries :
            \E y \in operations' : /\ y.work = sessions'[s].owner /\ y.generation = sessions'[s].entries[i].generation
                                   /\ y.operation = sessions'[s].entries[i].operation /\ y.request.mutation.session = s
      <4>1. operations \subseteq operations'
        BY Zenon, <1>1
      <4> QED BY SMTT(60), <2>1, <4>1 DEF EntriesAreStored, TableInv
    <3> QED BY SMTT(60), <1>6, <2>1, <3>1 DEF EntriesAreStored
  <2>4. SessionsInOrder'
    BY SMTT(60), <1>6, <2>1 DEF SessionsInOrder, TableInv
  <2> QED BY <2>2, <2>3, <2>4
<1> HIDE DEF Backed, Ordered, Becomes
<1>7. ASSUME m.session \in Sessions, Becomes(<<entry>>)
      PROVE  OwnerInv' /\ EntriesAreStored' /\ SessionsInOrder'
  <2>1. DOMAIN <<entry>> = {1} /\ <<entry>>[1] = entry
    OBVIOUS
  <2>2. x \in operations' /\ \A i \in {1} : <<entry>>[i] = entry
    BY Zenon, <1>1, <2>1
  <2> DEFINE es == <<entry>>
  <2>3. DOMAIN es = {1} /\ es[1] = entry /\ Becomes(es)
    BY <1>7, <2>1
  <2> HIDE DEF es
  <2>4. Backed(es)
    BY Zenon, <1>2, <2>2, <2>3 DEF Backed
  <2>5. Ordered(es)
    BY SMTT(60), <2>3 DEF Ordered
  <2> QED BY <1>6, <1>7, <2>3, <2>4, <2>5
<1>8. ASSUME m.session \in Sessions, sessions[m.session].owner = t.work, NEW es,
              sessions' = [sessions EXCEPT ![m.session].entries = es]
       PROVE  Becomes(es)
  <2>1. [sessions[m.session] EXCEPT !.entries = es] = [owner |-> t.work, entries |-> es]
    BY <1>1, <1>8
  <2> QED BY Zenon, <1>1, <1>8, <2>1 DEF Becomes
<1>9. ASSUME m.session \in Sessions, sessions[m.session].owner = t.work,
             sessions' = [sessions EXCEPT ![m.session].entries = Append(e, entry)]
      PROVE  OwnerInv' /\ EntriesAreStored' /\ SessionsInOrder'
  <2> DEFINE es == Append(e, entry)
             n  == Len(e) + 1
  <2>1. e \in Seq(SessionIds) /\ Len(e) \in Nat /\ DOMAIN e = 1..Len(e)
    BY <1>1, <1>9
  <2>2. \A i \in DOMAIN e : e[i] \in SessionIds
    BY SMTT(60), <2>1
  <2> HIDE DEF e
  <2>3. /\ DOMAIN es = DOMAIN e \cup {n} /\ es[n] = entry /\ \A i \in DOMAIN e : es[i] = e[i] /\ i < n /\ i \in Nat
        /\ n \in Nat
    BY <1>2, <2>1
  <2>4. Becomes(es)
    BY Zenon, <1>9, <1>8 DEF e
  <2> HIDE DEF es, n
  <2>5. \A i \in DOMAIN e : \E y \in operations : /\ y.work = t.work /\ y.generation = e[i].generation
                                                 /\ y.operation = e[i].operation /\ y.request.mutation.session = m.session
    BY <1>9 DEF TableInv, EntriesAreStored, e
  <2>6. Backed(es)
    BY ZenonT(60), <1>1, <1>2, <2>3, <2>5 DEF Backed
  <2>7. \A i \in DOMAIN e : e[i].generation <= entry.generation /\ e[i] # entry
    BY SMTT(60), <1>2, <1>3, <1>4, <2>5
  <2>8. \A i, k \in DOMAIN e : i < k => e[i].generation <= e[k].generation /\ e[i] # e[k]
    BY <1>9 DEF TableInv, SessionsInOrder, e
  <2>9. Ordered(es)
    BY SMTT(60), <2>3, <2>7, <2>8 DEF Ordered
  <2> QED BY <1>6, <1>9, <2>4, <2>6, <2>9
<1>10. \/ sessions' = sessions
       \/ m.session \in Sessions /\ sessions' = [sessions EXCEPT ![m.session] = [owner |-> t.work, entries |-> <<entry>>]]
       \/ /\ m.session \in Sessions /\ sessions[m.session].owner = t.work
          /\ sessions' = [sessions EXCEPT ![m.session].entries = <<entry>>]
       \/ /\ m.session \in Sessions /\ sessions[m.session].owner = t.work
          /\ sessions' = [sessions EXCEPT ![m.session].entries = Append(e, entry)]
  BY DEF commit, applyPoolSession, entry
<1>11. \/ sessions' = sessions
       \/ m.session \in Sessions /\ Becomes(<<entry>>)
       \/ /\ m.session \in Sessions /\ sessions[m.session].owner = t.work
          /\ sessions' = [sessions EXCEPT ![m.session].entries = Append(e, entry)]
  BY <1>10, <1>8 DEF Becomes
<1> QED BY <1>5, <1>7, <1>9, <1>11

\* Every step of the pool keeps the tables' invariant.
LEMMA TableStep ==
  ASSUME CoreInv, TableInv, [PoolNext]_poolVars
  PROVE  TableInv'
<1>1. TypeInv /\ LogKept /\ handed \subseteq handed'
  BY PoolKeepsLog, TablesChange DEF CoreInv
<1>2. ASSUME NEW l \in granted, NEW t \in handed, NEW o \in Operations, NEW m \in Mutations, commit(l, t, o, m)
      PROVE  TableInv'
  BY <1>1, <1>2, CommitRecords, CommitSessions DEF TableInv
<1> QED BY <1>1, <1>2, TablesChange, TablesStay, EnqueueKeepsTables

\* The inductive invariant of the tables.
THEOREM TableInvariant == PoolSpec => []TableInv
<1>1. PoolInit => TableInv
  <2> SUFFICES ASSUME PoolInit PROVE TableInv
    OBVIOUS
  <2>1. \A s \in Sessions : sessions[s].entries = <<>> /\ DOMAIN sessions[s].entries = {}
    BY SMTT(60) DEF PoolInit
  <2> QED BY Zenon, <2>1 DEF PoolInit, TableInv, UsageInv, HandedInv, OwnerInv, BilledOnce, ReceiptsHold, EntriesAreStored,
                      SessionsInOrder
<1>2. CoreInv /\ TableInv /\ [PoolNext]_poolVars => TableInv'
  BY TableStep
<1> QED BY <1>1, <1>2, PoolInvariant, PTL DEF PoolSpec

\* A receipt names the journal event that holds what the commit recorded.
THEOREM ReceiptsNameTheirEvents == PoolSpec => []ReceiptsHold
<1>1. TableInv => ReceiptsHold
  BY DEF TableInv
<1> QED BY <1>1, TableInvariant, PTL

\* A checkpoint's usage is billed to one attempt.
THEOREM CheckpointsAreBilledOnce == PoolSpec => []BilledOnce
<1>1. TableInv => BilledOnce
  BY DEF TableInv
<1> QED BY <1>1, TableInvariant, PTL

\* Types, receipts, usage and results of the tables together.
THEOREM TablesAreSound == PoolSpec => []TablesSound
BY PoolTypes, ReceiptsNameTheirEvents, CheckpointsAreBilledOnce, ResultsBelongToCompletedRows, PTL DEF TablesSound

\* Sessions hold every operation once, attempt after attempt, and each entry
\* was stored by the session's owner.
THEOREM SessionsAreOrdered == PoolSpec => []SessionsSound
<1>1. TableInv => SessionsSound
  BY DEF TableInv, SessionsSound
<1> QED BY <1>1, TableInvariant, PTL

=============================================================================
