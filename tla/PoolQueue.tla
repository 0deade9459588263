------------------------------ MODULE PoolQueue ------------------------------
(***************************************************************************)
(* The worker pool's queue (SqlPoolQueue) in the database of the root's    *)
(* journal: the root's pool row, one row per child, the attempts' stored   *)
(* operations, results and sessions.  Every operation is one transaction.  *)
(* A call may come from any root lease ever granted and, for an attempt's  *)
(* writes, with any token ever handed to a worker.                         *)
(*                                                                         *)
(* The queue inserts its events into the journal's event table itself      *)
(* (Record), beside the journal's own append.  Deleting the run deletes    *)
(* all of this with it and is not modelled here.                           *)
(***************************************************************************)
EXTENDS RunJournal

CONSTANTS
  Works,          \* children of the root, one queue row each
  Bound,          \* the children bound to a workspace
  Controls,       \* the control states the coordinator sets
  Workers,        \* worker ids
  Nobody,         \* worker of a row nobody leases, owner of an absent session
  Digests,        \* digests of a child's entry module
  Modes,          \* execution modes
  Checkpoints,    \* checkpoint names of a child
  Billable,       \* the checkpoints that carry model usage
  Operations,     \* operation ids of one attempt
  Sessions,       \* session ids
  Forked,         \* the sessions a fork of the root copied for its children
  Results,        \* child results; the retryable ones run again on resume
  Retryable,
  NoResult,
  MaxGeneration,  \* bound: claims of one child
  MaxEntries      \* bound: entries of a session

StartKey(w)         == <<w, "start">>
CheckpointKey(w, c) == <<w, c>>

ASSUME PoolAssumption ==
  /\ Bound \subseteq Works
  /\ Billable \subseteq Checkpoints
  /\ Forked \subseteq Sessions
  /\ Retryable \subseteq Results
  /\ NoResult \notin Results
  /\ Digests # {} /\ Modes # {}
  /\ Nobody \notin Workers \cup Works
  /\ "start" \notin Checkpoints
  /\ Keys = {StartKey(w) : w \in Works} \cup {CheckpointKey(w, c) : w \in Works, c \in Checkpoints}
  /\ "running" \in Statuses
  /\ Controls \subseteq {"running", "paused", "quit"}
  /\ MaxGeneration \in Nat
  /\ MaxEntries \in Nat

VARIABLES
  late,           \* the root's last renewal is older than the pool's timeout
  pool,           \* the root's pool row exists
  control,        \* the control row's state, or "unset"
  work,           \* the queue rows
  results,        \* the stored result of each child
  operations,     \* the stored operations, with their receipts
  sessions,       \* owner and entries of each session
  usage,          \* the usage rows checkpoints billed
  placing,        \* claims a worker host has not handed to a worker yet
  handed          \* every claim handed to a worker

rootVars  == <<late, pool, control>>
tableVars == <<results, operations, sessions, usage>>
claimVars == <<placing, handed>>
queueVars == <<rootVars, work, tableVars, claimVars>>
poolVars  == <<journalVars, queueVars>>

Descriptors == [digest : Digests, mode : Modes]
States      == {"none", "ready", "leased", "completed", "failed"}
Rows        == [state : States, generation : Nat, worker : Workers \cup {Nobody},
                epoch : Nat, lapsed : BOOLEAN, descriptor : Descriptors]
Tokens      == [work : Works, generation : Nat, worker : Workers, epoch : Nat,
                descriptor : Descriptors]
Mutations   == [kind : {"checkpoint", "session-create", "session-replace", "session-append"},
                checkpoint : Checkpoints, body : Payloads, session : Sessions \cup {Nobody},
                expect : 0..MaxEntries]
SessionIds  == [generation : Nat, operation : Operations]

SeqOf(key)  == CHOOSE i \in DOMAIN log : log[i].key = key

-----------------------------------------------------------------------------
(* Who may act *)

\* The root holds its lease and renewed it within the pool's timeout.
authority(l) == pool /\ checkLease(l) /\ ~late

\* A variant that ignores the generation.
currentByWorker(t) ==
  /\ work[t.work].state = "leased"
  /\ work[t.work].epoch = t.epoch
  /\ work[t.work].worker = t.worker

\* The row is leased to this very claim.
current(t) ==
  /\ work[t.work].state = "leased"
  /\ work[t.work].epoch = t.epoch
  /\ work[t.work].generation = t.generation
  /\ work[t.work].worker = t.worker

currentOrCompleted(t) ==
  /\ work[t.work].state \in {"leased", "completed"}
  /\ work[t.work].epoch = t.epoch
  /\ work[t.work].generation = t.generation
  /\ work[t.work].worker = t.worker

admitsAttemptWrites == status = "running" \/ (status = "paused" /\ control = "paused")

\* An attempt that may write: see assertCurrent and attemptStanding.
Standing(t) == current(t) /\ work[t.work].epoch = lease.epoch /\ ~work[t.work].lapsed

-----------------------------------------------------------------------------
PoolInit ==
  /\ Init
  /\ late = FALSE
  /\ pool = FALSE
  /\ control = "unset"
  /\ work = [w \in Works |-> [state |-> "none", generation |-> 0, worker |-> Nobody, epoch |-> 0,
                              lapsed |-> FALSE, descriptor |-> CHOOSE d \in Descriptors : TRUE]]
  /\ results = [w \in Works |-> NoResult]
  /\ operations = {}
  /\ sessions = [s \in Sessions |-> [owner |-> Nobody, entries |-> <<>>]]
  /\ usage = {}
  /\ placing = {}
  /\ handed = {}

(* The root's lease, as the journal and the pool see it *)

RootRuns(s) == createRun(s) /\ UNCHANGED queueVars

RootHolds ==
  /\ \/ \E h \in Holders : acquire(h) \/ takeoverExpired(h)
     \/ \E h, expected \in Holders : takeover(h, expected)
     \/ \E l \in granted : renew(l)
  /\ late' = FALSE
  /\ UNCHANGED <<pool, control, work, tableVars, claimVars>>

RootReleases == (\E l \in granted : release(l)) /\ UNCHANGED queueVars

\* The pool's window is shorter than the takeover window.
RootLate ==
  /\ lease.holder # Unheld
  /\ late' = TRUE
  /\ UNCHANGED <<journalVars, pool, control, work, tableVars, claimVars>>

RootAges == late /\ LeaseAges /\ UNCHANGED queueVars

\* What the root records itself: a new status, and a child's boundary start if
\* it ran that child before it had a pool.
RootStatus(l, s) ==
  s # status /\ append(l, [key |-> NoKey, body |-> s], AnySeq) /\ UNCHANGED queueVars

RootBoundary(l, w, p) ==
  append(l, [key |-> StartKey(w), body |-> p], AnySeq) /\ UNCHANGED queueVars

initialize(l) ==
  /\ checkLease(l)
  /\ ~late
  /\ pool' = TRUE
  /\ UNCHANGED <<journalVars, late, control, work, tableVars, claimVars>>

setControl(l, state) ==
  /\ authority(l)
  /\ control' = state
  /\ UNCHANGED <<journalVars, late, pool, work, tableVars, claimVars>>

\* The queue's own INSERT of an event at the next sequence number.
Record(l, key, body) ==
  /\ Len(log) < MaxSeq
  /\ log' = Append(log, [epoch |-> l.epoch, key |-> key, body |-> body])
  /\ UNCHANGED <<header, status, lease, granted>>

(* Enqueueing *)

\* A variant that takes a session from the child that claimed it before.
claimSessionsAlways(w, claimed) ==
  sessions' = [s \in Sessions |->
                 IF s \in claimed THEN [sessions[s] EXCEPT !.owner = w] ELSE sessions[s]]

\* Sessions a fork copied pass to the child; any other claim of one is refused.
claimSessions(w, claimed) ==
  /\ \A s \in claimed : sessions[s].owner \in {Nobody, w}
  /\ sessions' = [s \in Sessions |->
                    IF s \in claimed THEN [sessions[s] EXCEPT !.owner = w] ELSE sessions[s]]

\* A variant that forgets that a worker may be running the row.
rebindAlways(row, l, d, accept) == d.digest # row.descriptor.digest => accept

\* Whether a row may take the descriptor d.
rebind(row, l, d, accept) ==
  \/ d = row.descriptor
  \/ row.epoch < l.epoch /\ (d.digest # row.descriptor.digest => accept)

enqueueNew(l, w, d, p, claimed) ==
  /\ authority(l)
  /\ work[w].state = "none"
  /\ IF HasKey(log, StartKey(w))
       THEN log[SeqOf(StartKey(w))].body = p /\ UNCHANGED journalVars
       ELSE Record(l, StartKey(w), p)
  /\ work' = [work EXCEPT ![w] = [@ EXCEPT !.state = "ready", !.epoch = l.epoch, !.descriptor = d]]
  /\ claimSessions(w, claimed)
  /\ UNCHANGED <<rootVars, results, operations, usage, claimVars>>

\* Work of an earlier incarnation that is ready or failed becomes claimable in
\* this one; a leased or completed row takes the descriptor and nothing else.
enqueueAgain(l, w, d, accept, claimed) ==
  /\ authority(l)
  /\ work[w].state # "none"
  /\ rebind(work[w], l, d, accept)
  /\ work' = [work EXCEPT ![w] =
                IF @.state \in {"ready", "failed"} /\ @.epoch < l.epoch
                  THEN [@ EXCEPT !.state = "ready", !.epoch = l.epoch, !.descriptor = d]
                  ELSE [@ EXCEPT !.descriptor = d]]
  /\ claimSessions(w, claimed)
  /\ UNCHANGED <<journalVars, rootVars, results, operations, usage, claimVars>>

-----------------------------------------------------------------------------
(* Claims *)

Token(w, row) == [work |-> w, generation |-> row.generation, worker |-> row.worker,
                  epoch |-> row.epoch, descriptor |-> row.descriptor]

\* Which ready row a claim takes depends on the worker's definitions and on
\* its placement: "any" and "unbound" claims are handed over at once, a worker
\* host claims an "exact" candidate and may have to restore its tree first.
claim(l, w, k, placement) ==
  LET row == [work[w] EXCEPT !.state = "leased", !.generation = @ + 1, !.worker = k,
                             !.epoch = l.epoch, !.lapsed = FALSE]
  IN  /\ authority(l)
      /\ control \in {"unset", "running"}
      /\ status = "running"
      /\ work[w].state = "ready"
      /\ work[w].epoch = l.epoch
      /\ work[w].generation < MaxGeneration
      /\ placement = "unbound" => w \notin Bound
      /\ work' = [work EXCEPT ![w] = row]
      /\ IF placement = "exact"
           THEN placing' = placing \cup {Token(w, row)} /\ UNCHANGED handed
           ELSE handed' = handed \cup {Token(w, row)} /\ UNCHANGED placing
      /\ UNCHANGED <<journalVars, rootVars, tableVars>>

\* The host hands its claim to the worker: claimFor returns it.
place(t) ==
  /\ t \in placing
  /\ placing' = placing \ {t}
  /\ handed' = handed \cup {t}
  /\ UNCHANGED <<journalVars, rootVars, work, tableVars>>

SetRow(w, row) ==
  /\ work' = [work EXCEPT ![w] = row]
  /\ UNCHANGED <<journalVars, rootVars, tableVars, claimVars>>

Released(row, state, epoch) ==
  [row EXCEPT !.state = state, !.worker = Nobody, !.lapsed = FALSE, !.epoch = epoch]

\* The attempt's lease runs out without a renewal.
Lapse(w) == work[w].state = "leased" /\ SetRow(w, [work[w] EXCEPT !.lapsed = TRUE])

renewWork(l, t) ==
  /\ authority(l)
  /\ current(t) /\ t.epoch = l.epoch
  /\ ~work[t.work].lapsed
  /\ SetRow(t.work, [work[t.work] EXCEPT !.lapsed = FALSE])

\* extend and heartbeat: the attempt's identity fences it, not the clock.
extend(l, t) ==
  /\ authority(l)
  /\ current(t) /\ t.epoch = l.epoch
  /\ SetRow(t.work, [work[t.work] EXCEPT !.lapsed = FALSE])

expire(l, t) ==
  /\ authority(l)
  /\ current(t)
  /\ t.epoch = l.epoch => work[t.work].lapsed
  /\ SetRow(t.work, Released(work[t.work], "ready", work[t.work].epoch))

\* A variant in which an exited attempt gives its generation back.
settleExitedRewinds(l, t, state) ==
  /\ authority(l)
  /\ current(t)
  /\ SetRow(t.work, [Released(work[t.work], state, work[t.work].epoch) EXCEPT !.generation = @ - 1])

\* releaseExited ("ready") and failExited ("failed").
settleExited(l, t, state) ==
  /\ authority(l)
  /\ current(t)
  /\ SetRow(t.work, Released(work[t.work], state, work[t.work].epoch))

\* A variant that rewinds twice.
releaseUnplacedTwice(l, t) ==
  /\ t \in placing
  /\ authority(l)
  /\ current(t)
  /\ work' = [work EXCEPT ![t.work] = [Released(@, "ready", @.epoch) EXCEPT !.generation = @ - 2]]
  /\ placing' = placing \ {t}
  /\ UNCHANGED <<journalVars, rootVars, tableVars, handed>>

\* A claim no worker was handed counts as no attempt.
releaseUnplaced(l, t) ==
  /\ t \in placing
  /\ authority(l)
  /\ current(t)
  /\ work' = [work EXCEPT ![t.work] =
                [Released(work[t.work], "ready", work[t.work].epoch) EXCEPT !.generation = @ - 1]]
  /\ placing' = placing \ {t}
  /\ UNCHANGED <<journalVars, rootVars, tableVars, handed>>

failUnclaimed(l, w) ==
  /\ authority(l)
  /\ work[w].state = "ready"
  /\ work[w].epoch = l.epoch
  /\ SetRow(w, Released(work[w], "failed", work[w].epoch))

releaseRetained(l, t, adopt) ==
  /\ authority(l)
  /\ current(t)
  /\ t.epoch < l.epoch
  /\ SetRow(t.work, Released(work[t.work], "ready", IF adopt THEN l.epoch ELSE t.epoch))

releaseClosed(l, retained) ==
  /\ authority(l)
  /\ work' = [w \in Works |->
                IF /\ w \notin retained
                   /\ \/ work[w].state = "ready"
                      \/ work[w].state = "leased" /\ work[w].epoch = l.epoch
                  THEN Released(work[w], "failed", work[w].epoch)
                  ELSE work[w]]
  /\ UNCHANGED <<journalVars, rootVars, tableVars, claimVars>>

releasePreviousIncarnations(l, retained) ==
  /\ authority(l)
  /\ work' = [w \in Works |->
                IF w \notin retained /\ work[w].state = "leased" /\ work[w].epoch < l.epoch
                  THEN Released(work[w], "ready", work[w].epoch)
                  ELSE work[w]]
  /\ UNCHANGED <<journalVars, rootVars, tableVars, claimVars>>

-----------------------------------------------------------------------------
(* What an attempt writes *)

\* A variant that never finds one.
StoredNever(t, o) == {}

\* The stored operation of this attempt under this id, if any.
Stored(t, o) ==
  {x \in operations : x.work = t.work /\ x.generation = t.generation /\ x.operation = o}

\* The session part of a commit: a session is created once, by the child that
\* owns it from then on; replacing and appending name the length they expect.
applyPoolSession(t, o, m) ==
  LET entry == [generation |-> t.generation, operation |-> o]
      old   == sessions[m.session]
  IN  \/ /\ m.kind = "checkpoint"
         /\ m.session # Nobody => old.owner = t.work
         /\ UNCHANGED sessions
      \/ /\ m.kind = "session-create"
         /\ m.session \in Sessions \ Forked
         /\ old.owner = Nobody
         /\ sessions' = [sessions EXCEPT ![m.session] = [owner |-> t.work, entries |-> <<entry>>]]
      \/ /\ m.kind = "session-replace"
         /\ m.session \in Sessions
         /\ old.owner = t.work
         /\ m.expect = Len(old.entries)
         /\ sessions' = [sessions EXCEPT ![m.session].entries = <<entry>>]
      \/ /\ m.kind = "session-append"
         /\ m.session \in Sessions
         /\ old.owner = t.work
         /\ m.expect = Len(old.entries)
         /\ sessions' = [sessions EXCEPT ![m.session].entries = Append(@, entry)]

\* Variants: a checkpoint recorded again is billed again; it is inserted again.
recordCheckpointBills(l, t, m) ==
  LET key == CheckpointKey(t.work, m.checkpoint)
  IN  /\ IF HasKey(log, key)
            THEN log[SeqOf(key)].body = m.body /\ m.kind = "checkpoint" /\ UNCHANGED journalVars
            ELSE Record(l, key, m.body)
      /\ usage' = usage \cup {[work |-> t.work, generation |-> t.generation, checkpoint |-> m.checkpoint]}

recordCheckpointTwice(l, t, m) ==
  /\ Record(l, CheckpointKey(t.work, m.checkpoint), m.body)
  /\ UNCHANGED usage

\* The event of a checkpoint: recorded once, and re-recording the same value
\* keeps the first write and bills nothing.
recordCheckpoint(l, t, m) ==
  LET key == CheckpointKey(t.work, m.checkpoint)
  IN  IF HasKey(log, key)
        THEN /\ log[SeqOf(key)].body = m.body
             /\ m.kind = "checkpoint"
             /\ UNCHANGED <<journalVars, usage>>
        ELSE /\ Record(l, key, m.body)
             /\ usage' = IF m.checkpoint \in Billable
                           THEN usage \cup {[work |-> t.work, generation |-> t.generation, checkpoint |-> m.checkpoint]}
                           ELSE usage

\* A variant that answers the next number even when the event exists.
ReceiptSeqNext(t, m) == IF m.kind = "session-append" THEN 0 ELSE Len(log) + 1

\* The sequence number a commit answers: that of its event, new or recorded.
ReceiptSeq(t, m) ==
  LET key == CheckpointKey(t.work, m.checkpoint)
  IN  IF m.kind = "session-append" THEN 0
      ELSE IF HasKey(log, key) THEN SeqOf(key) ELSE Len(log) + 1

\* A stored operation answers its receipt (or a conflict) and writes nothing,
\* so only a new operation is a step.
commit(l, t, o, m) ==
  /\ authority(l)
  /\ current(t) /\ t.epoch = l.epoch
  /\ Stored(t, o) = {}
  /\ ~work[t.work].lapsed
  /\ admitsAttemptWrites
  /\ applyPoolSession(t, o, m)
  /\ IF m.kind = "session-append" THEN UNCHANGED <<journalVars, usage>> ELSE recordCheckpoint(l, t, m)
  /\ operations' = operations \cup
       {[work |-> t.work, generation |-> t.generation, operation |-> o,
         request |-> [epoch |-> t.epoch, worker |-> t.worker, mutation |-> m],
         seq |-> ReceiptSeq(t, m)]}
  /\ UNCHANGED <<rootVars, work, results, claimVars>>

\* A receipt of a message a stage received, which the root appends under the
\* attempt's guard (withCurrentAppend): an attempt that completed still counts.
appendGuarded(l, t, p) ==
  /\ authority(l)
  /\ currentOrCompleted(t) /\ t.epoch = l.epoch
  /\ append(l, [key |-> NoKey, body |-> p], AnySeq)
  /\ UNCHANGED queueVars

\* A variant that lets a completed attempt complete again.
completeAgain(l, t, r) ==
  /\ authority(l)
  /\ currentOrCompleted(t) /\ t.epoch = l.epoch
  /\ ~work[t.work].lapsed
  /\ admitsAttemptWrites
  /\ results' = [results EXCEPT ![t.work] = r]
  /\ work' = [work EXCEPT ![t.work].state = "completed"]
  /\ UNCHANGED <<journalVars, rootVars, operations, sessions, usage, claimVars>>

\* Completing again with the same result answers as before.
complete(l, t, r) ==
  /\ authority(l)
  /\ current(t) /\ t.epoch = l.epoch
  /\ ~work[t.work].lapsed
  /\ admitsAttemptWrites
  /\ results' = [results EXCEPT ![t.work] = r]
  /\ work' = [work EXCEPT ![t.work].state = "completed"]
  /\ UNCHANGED <<journalVars, rootVars, operations, sessions, usage, claimVars>>

\* A variant that keeps the old result.
reopenKeepsResult(l, w) ==
  /\ authority(l)
  /\ work[w].state = "completed"
  /\ work[w].epoch < l.epoch
  /\ results[w] \in Retryable
  /\ work' = [work EXCEPT ![w] = Released(@, "ready", l.epoch)]
  /\ UNCHANGED <<journalVars, rootVars, tableVars, claimVars>>

reopenCompleted(l, w) ==
  /\ authority(l)
  /\ work[w].state = "completed"
  /\ work[w].epoch < l.epoch
  /\ results[w] \in Retryable
  /\ results' = [results EXCEPT ![w] = NoResult]
  /\ work' = [work EXCEPT ![w] = Released(@, "ready", l.epoch)]
  /\ UNCHANGED <<journalVars, rootVars, operations, sessions, usage, claimVars>>

-----------------------------------------------------------------------------
RootNext ==
  \/ \E s \in Statuses : RootRuns(s)
  \/ RootHolds
  \/ RootReleases
  \/ RootLate
  \/ RootAges
  \/ \E l \in granted :
       \/ \E s \in Statuses : RootStatus(l, s)
       \/ \E w \in Works, p \in Payloads : RootBoundary(l, w, p)

CoordinatorNext ==
  \E l \in granted :
    \/ initialize(l)
    \/ \E state \in Controls : setControl(l, state)
    \/ \E w \in Works :
         \/ \E d \in Descriptors, claimed \in SUBSET Forked :
              \/ \E p \in Payloads : enqueueNew(l, w, d, p, claimed)
              \/ \E accept \in BOOLEAN : enqueueAgain(l, w, d, accept, claimed)
         \/ \E k \in Workers, placement \in {"any", "unbound", "exact"} : claim(l, w, k, placement)
         \/ failUnclaimed(l, w)
         \/ reopenCompleted(l, w)
    \/ \E t \in placing \cup handed :
         \/ extend(l, t)
         \/ expire(l, t)
         \/ \E state \in {"ready", "failed"} : settleExited(l, t, state)
         \/ \E adopt \in BOOLEAN : releaseRetained(l, t, adopt)
    \/ \E t \in placing : releaseUnplaced(l, t)
    \/ \E retained \in SUBSET Works :
         releaseClosed(l, retained) \/ releasePreviousIncarnations(l, retained)

AttemptNext ==
  \/ \E t \in placing : place(t)
  \/ \E w \in Works : Lapse(w)
  \/ \E l \in granted, t \in handed :
       \/ renewWork(l, t)
       \/ \E o \in Operations, m \in Mutations : commit(l, t, o, m)
       \/ \E p \in Payloads : appendGuarded(l, t, p)
       \/ \E r \in Results : complete(l, t, r)

PoolNext == RootNext \/ CoordinatorNext \/ AttemptNext

PoolSpec == PoolInit /\ [][PoolNext]_poolVars

-----------------------------------------------------------------------------
(* Properties *)

\* The tables hold what their columns may hold; in particular a generation
\* never falls below zero, although releaseUnplaced takes one back.
PoolTypeOK ==
  /\ late \in BOOLEAN
  /\ pool \in BOOLEAN
  /\ control \in Controls \cup {"unset"}
  /\ work \in [Works -> Rows]
  /\ results \in [Works -> Results \cup {NoResult}]
  /\ operations \subseteq [work : Works, generation : Nat, operation : Operations,
                           request : [epoch : Nat, worker : Workers, mutation : Mutations], seq : Nat]
  /\ sessions \in [Sessions -> [owner : Works \cup {Nobody}, entries : Seq(SessionIds)]]
  /\ usage \subseteq [work : Works, generation : Nat, checkpoint : Checkpoints]
  /\ placing \subseteq Tokens
  /\ handed \subseteq Tokens

\* A work item and a generation name one attempt: no two claims handed to
\* workers share both, although releaseUnplaced takes a generation back.
AttemptsDistinct ==
  \A t, u \in handed : t.work = u.work /\ t.generation = u.generation => t = u

\* A running attempt runs what its row says: an enqueue that changes a child's
\* entry digest or mode never changes it under an attempt that may still write
\* (the comment of rebind: "a worker may be running it").
RunsItsDescriptor ==
  \A t \in handed : Standing(t) => work[t.work].descriptor = t.descriptor

\* The receipt a commit stored names the journal event that holds exactly the
\* checkpoint it was asked to record, for as long as the run exists.
ReceiptsHold ==
  \A x \in operations :
    LET m == x.request.mutation
    IN  m.kind # "session-append" =>
          /\ x.seq \in DOMAIN log
          /\ log[x.seq].key = CheckpointKey(x.work, m.checkpoint)
          /\ log[x.seq].body = m.body

\* Every pooled session holds each operation's entry at most once, and the
\* attempts' entries in the order of their attempts: a retried or replaced
\* attempt neither doubles an entry nor interleaves with its successor.
SessionsInOrder ==
  \A s \in Sessions : LET e == sessions[s].entries IN
    \A i, k \in DOMAIN e : i < k => e[i].generation <= e[k].generation /\ e[i] # e[k]

\* A session entry and the stored operation that wrote it go together: the
\* operation is one of the session's owner and names this session, so a retry
\* of it is recognised, and another child's operation never writes here.
EntriesAreStored ==
  \A s \in Sessions : \A i \in DOMAIN sessions[s].entries :
    \E x \in operations :
      /\ x.work = sessions[s].owner
      /\ x.generation = sessions[s].entries[i].generation
      /\ x.operation = sessions[s].entries[i].operation
      /\ x.request.mutation.session = s

\* A stored result belongs to a completed row and the other way round, across
\* completion, reopening and every release.
ResultIffCompleted ==
  \A w \in Works : (results[w] # NoResult) <=> (work[w].state = "completed")

\* The model usage of a checkpoint is billed to one attempt, however many
\* attempts record that checkpoint.
BilledOnce ==
  \A u, v \in usage : u.work = v.work /\ u.checkpoint = v.checkpoint => u = v

\* Once a later attempt of a child was handed out, no earlier attempt stores
\* an operation, whatever lease, worker or clock the late call comes with.
ReplacedAttemptsAreFenced ==
  [][\A x \in operations' \ operations, t \in handed :
       t.work = x.work => t.generation <= x.generation]_poolVars

\* A result the root may have read changes only when a later incarnation
\* reopens it; no second attempt of one incarnation overwrites it.
ResultsStay ==
  [][\A w \in Works : results[w] # NoResult /\ results'[w] # results[w] =>
       results'[w] = NoResult /\ work'[w].epoch > work[w].epoch]_poolVars

\* Seen from the journal alone, the pool is one more caller of append: its
\* transactions check the lease and the key and insert into the event table
\* themselves, and still every step is a step the journal allows.
JournalSpec == Spec

\* What late, retried and replaced attempts leave in the tables: rows of their
\* types, a receipt that names its event, a checkpoint billed once, and a result
\* for exactly the completed rows.
TablesSound == PoolTypeOK /\ ReceiptsHold /\ BilledOnce /\ ResultIffCompleted

\* What they leave in the sessions: each operation once, in the order of the
\* attempts, and only stored operations of the session's owner.
SessionsSound == SessionsInOrder /\ EntriesAreStored
=============================================================================
