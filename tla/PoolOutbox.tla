----------------------------- MODULE PoolOutbox -----------------------------
(***************************************************************************)
(* Checkpoint commits of a pool whose root's journal is in another         *)
(* database (SqlPoolQueue with a PoolRemoteJournal).  The pool's tables    *)
(* are in a local database that every coordinator of the root shares; the  *)
(* journal is remote.  A commit is a local transaction that accepts the    *)
(* event into the outbox, an append to the journal, and a local            *)
(* transaction that stores the receipt and deletes the outbox row.         *)
(*                                                                         *)
(* Every transaction and every journal call is one action; what happens    *)
(* between two awaits of a method is part of the action before it.         *)
(* Coordinators are numbered by the epoch of the journal lease they hold.  *)
(* One work item is modelled, and its attempts by their generations.  The  *)
(* local tables decide by a copy of the journal's lease, which `mirror'    *)
(* refreshes at any time: `fresh' skips it within two seconds and when the *)
(* journal cannot be reached, so the copy may be old.  The copy carries    *)
(* the age of the lease: a lease not renewed for COORDINATOR_LEASE_MS      *)
(* (90 s) is refused by the local tables, and one not renewed for          *)
(* FOREIGN_LIVE_WORKFLOW_WINDOW_MS (120 s) may be taken over.              *)
(***************************************************************************)
EXTENDS Naturals, Sequences, FiniteSets, SequencesExt

CONSTANTS
  Keys,           \* event keys of checkpoints
  Values,         \* checkpoint values
  MaxEpoch,       \* bound: coordinators of the root
  MaxGen,         \* bound: attempts of the work item
  Loads           \* bounds of a behaviour: coordinators, attempts, the values they
                  \* compute, journal calls whose request or reply is lost, crashes
                  \* of coordinators, whether one may go on after a take-over

ASSUME OutboxAssumption ==
  /\ MaxEpoch \in Nat /\ MaxGen \in Nat
  /\ Loads \subseteq [epochs : 0..MaxEpoch, gens : 0..MaxGen, values : SUBSET Values,
                      lost : Nat, crashes : Nat, overlap : BOOLEAN]

Epochs == 1..MaxEpoch
Gens   == 1..MaxGen
None   == "none"

VARIABLES
  journal,        \* the remote journal's checkpoint events
  holder,         \* the epoch of the journal's lease
  expired,        \* the epochs whose lease is too old for the local tables
  copy,           \* the epoch in the local copy of the lease row
  work,           \* the work row: state, generation, epoch
  value,          \* the value each attempt computes for its checkpoints
  owner,          \* the coordinator that handed out each attempt
  outbox,         \* the outbox rows, oldest first
  receipts,       \* the operations table: the journal event each commit was answered with
  accepted,       \* every event ever accepted into the outbox
  proc,           \* each coordinator: its phase, outboxPending, and the lease mirror sampled
  drain,          \* each coordinator's delivery pass
  claim,          \* each coordinator's claim in flight
  flight,         \* each attempt's commit in flight
  waiting,        \* each coordinator's requested transactions, in order (see Requests)
  lost,           \* journal calls lost so far
  load            \* the bounds of this behaviour

local     == <<work, value, owner, outbox, receipts, accepted>>
remote    == <<journal, holder>>
outboxVars == <<journal, holder, copy, expired, work, value, owner, outbox, receipts, accepted,
                proc, drain, claim, flight, waiting, lost>>

NoDrain  == [step |-> None, rows |-> <<>>, seq |-> 0]
NoFlight == [step |-> None, key |-> None, existing |-> 0, seq |-> 0]
Row(g, k) == [gen |-> g, key |-> k]

\* readKey: the sequence number of the event recorded under a key, or 0.
Recorded(k) ==
  IF \E i \in DOMAIN journal : journal[i].key = k
    THEN CHOOSE i \in DOMAIN journal : journal[i].key = k
    ELSE 0

\* A process runs its local transactions in the order it requested them.  The
\* order matters for the claim's, the first of a commit and recoverExpired; the
\* others may run at any time.
Requests(e, t) == waiting' = [waiting EXCEPT ![e] = Append(@, t)]
Runs(e, t) ==
  /\ waiting[e] # <<>> /\ Head(waiting[e]) = t
  /\ waiting' = [waiting EXCEPT ![e] = Tail(@)]

Up(e)    == proc[e].phase \notin {None, "dead"}
Serving(e) == proc[e].phase = "serving"

\* A variant that asks only for the copy's epoch.
authorityByEpoch(e) == copy = e

\* The local tables' check of the root's lease, against the copy.
authority(e) == copy = e /\ e \notin expired

\* whileRootLate, for a refused operation: a lease that the copy gives to another
\* epoch is lost, unless the copy is read again first; a late one is waited for.
Refused(e) ==
  \/ copy # e /\ proc' = [proc EXCEPT ![e].phase = "lost"]
  \/ UNCHANGED proc

\* The attempt's identity in the work row.
current(g) == work.state = "leased" /\ work.gen = g /\ work.epoch = owner[g]

-----------------------------------------------------------------------------
OutboxInit ==
  /\ journal = <<>> /\ holder = 0 /\ copy = 0 /\ expired = {}
  /\ work = [state |-> "ready", gen |-> 0, epoch |-> 0]
  /\ value = [g \in Gens |-> None]
  /\ owner = [g \in Gens |-> 0]
  /\ outbox = <<>> /\ receipts = {} /\ accepted = {}
  /\ proc = [e \in Epochs |-> [phase |-> None, pending |-> FALSE, sample |-> 0]]
  /\ drain = [e \in Epochs |-> NoDrain]
  /\ claim = [e \in Epochs |-> None]
  /\ flight = [g \in Gens |-> NoFlight]
  /\ waiting = [e \in Epochs |-> <<>>]
  /\ lost = 0
  /\ load \in Loads

(* Coordinators *)

\* The next coordinator takes the journal's lease and prepares its pool.
TakeOver(e) ==
  /\ e = holder + 1 /\ e <= load.epochs
  /\ \A d \in 1..holder : d \in expired /\ (load.overlap \/ ~Up(d))
  /\ holder' = e
  /\ proc' = [proc EXCEPT ![e].phase = "mirroring"]
  /\ UNCHANGED <<journal, copy, expired, local, drain, claim, flight, waiting, lost>>

\* The root no longer renews its lease.
Expire(e) ==
  /\ e = holder /\ e \notin expired
  /\ load.overlap \/ ~Up(e)
  /\ expired' = expired \cup {e}
  /\ UNCHANGED <<remote, copy, local, proc, drain, claim, flight, waiting, lost>>

\* Everything in flight in the process is gone; what reached a database stays.
Crash(e) ==
  /\ Up(e)
  /\ Cardinality({d \in Epochs : proc[d].phase = "dead"}) < load.crashes
  /\ proc' = [proc EXCEPT ![e] = [phase |-> "dead", pending |-> FALSE, sample |-> 0]]
  /\ drain' = [drain EXCEPT ![e] = NoDrain]
  /\ claim' = [claim EXCEPT ![e] = None]
  /\ flight' = [g \in Gens |-> IF owner[g] = e THEN NoFlight ELSE flight[g]]
  /\ waiting' = [waiting EXCEPT ![e] = <<>>]
  /\ UNCHANGED <<remote, copy, expired, local, lost>>

\* mirror, its read of the journal, and its local transaction: the copy becomes
\* what was read, whatever it is by now.  Left out are the mirrors that make no
\* difference: of a lease that is current and copied, and after the lease is lost.
MirrorReads(e) ==
  /\ Up(e) /\ proc[e].phase # "lost" /\ proc[e].sample = 0
  /\ copy # e \/ e \in expired
  /\ proc' = [proc EXCEPT ![e].sample = holder]
  /\ UNCHANGED <<remote, copy, expired, local, drain, claim, flight, waiting, lost>>

MirrorWrites(e) ==
  /\ Up(e) /\ proc[e].sample # 0
  /\ copy' = proc[e].sample
  /\ proc' = [proc EXCEPT ![e] = [@ EXCEPT !.sample = 0,
       !.phase = IF proc[e].sample # e THEN "lost" ELSE IF @ = "mirroring" THEN "draining" ELSE @]]
  /\ UNCHANGED <<remote, expired, local, drain, claim, flight, waiting, lost>>

\* releasePreviousIncarnations, after the outbox was drained.
ReleasePrevious(e) ==
  /\ proc[e].phase = "releasing" /\ authority(e)
  /\ work' = IF work.state = "leased" /\ work.epoch < e THEN [work EXCEPT !.state = "ready"] ELSE work
  /\ proc' = [proc EXCEPT ![e].phase = "serving"]
  /\ UNCHANGED <<remote, copy, expired, value, owner, outbox, receipts, accepted, drain, claim, flight, waiting, lost>>

\* The root enqueues its child again.
Enqueue(e) ==
  /\ Serving(e) /\ authority(e)
  /\ work.state = "ready" /\ work.epoch < e
  /\ work' = [work EXCEPT !.epoch = e]
  /\ UNCHANGED <<remote, copy, expired, value, owner, outbox, receipts, accepted, proc, drain, claim, flight, waiting, lost>>

-----------------------------------------------------------------------------
(* Claims.  What is requested after the lease grew too old is refused until it *)
(* is renewed: only the requests before that are modelled.                     *)

\* A worker asks, or the claim waited for a delivery pass and asks again.
Asks(e) == claim[e] = "waiting" \/ (claim[e] = None /\ Serving(e))

ClaimChecks(e) ==
  /\ Asks(e) /\ ~proc[e].pending /\ drain[e].step = None
  /\ e \notin expired
  /\ claim' = [claim EXCEPT ![e] = "checked"] /\ Requests(e, <<"claim", 0>>)
  /\ UNCHANGED <<remote, copy, expired, local, proc, drain, flight, lost>>

\* The claim's transaction.
ClaimLeases(e) ==
  /\ Runs(e, <<"claim", 0>>)
  /\ claim' = [claim EXCEPT ![e] = None]
  /\ IF authority(e) /\ work.state = "ready" /\ work.epoch = e /\ work.gen < load.gens
       THEN LET g == work.gen + 1
            IN  /\ UNCHANGED proc
                /\ work' = [state |-> "leased", gen |-> g, epoch |-> e]
                /\ owner' = [owner EXCEPT ![g] = e]
                /\ \E v \in load.values : value' = [value EXCEPT ![g] = v]
       ELSE /\ IF authority(e) THEN UNCHANGED proc ELSE Refused(e)
            /\ UNCHANGED <<work, owner, value>>
  /\ UNCHANGED <<remote, copy, expired, outbox, receipts, accepted, drain, flight, lost>>

\* An attempt is given up: its lease lapsed, which another claim finds whatever
\* the attempt is doing (recoverExpired), or its worker exited.
RecoverAsked(e) ==
  /\ Serving(e) /\ e \notin expired /\ work.state = "leased" /\ work.epoch = e
  /\ ~Contains(waiting[e], <<"recover", 0>>)
  /\ Requests(e, <<"recover", 0>>)
  /\ UNCHANGED <<remote, copy, expired, local, proc, drain, claim, flight, lost>>

RecoverExpired(e) ==
  /\ Runs(e, <<"recover", 0>>)
  /\ \/ /\ authority(e) /\ work.state = "leased" /\ work.epoch = e
        /\ work' = [work EXCEPT !.state = "ready"]
     \/ UNCHANGED work
  /\ UNCHANGED <<remote, copy, expired, value, owner, outbox, receipts, accepted, proc, drain, claim, flight, lost>>

ReleaseExited(e) ==
  /\ Serving(e) /\ authority(e) /\ work.state = "leased" /\ work.epoch = e
  /\ flight[work.gen].step = None
  /\ work' = [work EXCEPT !.state = "ready"]
  /\ UNCHANGED <<remote, copy, expired, value, owner, outbox, receipts, accepted, proc, drain, claim, flight, waiting, lost>>

\* A variant that completes whatever the outbox holds.
completeAtOnce(e) ==
  /\ Serving(e) /\ authority(e) /\ work.state = "leased" /\ work.epoch = e
  /\ flight[work.gen].step = None
  /\ work' = [work EXCEPT !.state = "completed"]
  /\ UNCHANGED <<remote, copy, expired, value, owner, outbox, receipts, accepted, proc, drain, claim, flight, waiting, lost>>

\* The child's result; the end of an attempt waits for its commits (lanes).
Complete(e) ==
  /\ Serving(e) /\ authority(e) /\ work.state = "leased" /\ work.epoch = e
  /\ flight[work.gen].step = None
  /\ outbox = <<>>
  /\ work' = [work EXCEPT !.state = "completed"]
  /\ UNCHANGED <<remote, copy, expired, value, owner, outbox, receipts, accepted, proc, drain, claim, flight, waiting, lost>>

-----------------------------------------------------------------------------
(* Delivery of one outbox row: steps 2 and 3 of a commit. *)

\* The journal's append, for the holder of its lease only: a recorded key
\* answers the recorded event.
Appends(e, row) ==
  /\ holder = e
  /\ journal' = IF Recorded(row.key) # 0 THEN journal
                ELSE Append(journal, [key |-> row.key, value |-> value[row.gen], epoch |-> e])

Conflicts(row, seq) == journal[seq].value # value[row.gen]

\* INSERT OR IGNORE of the receipt.
Store(row, seq) ==
  IF \E r \in receipts : r.gen = row.gen /\ r.key = row.key
    THEN receipts
    ELSE receipts \cup {[gen |-> row.gen, key |-> row.key, seq |-> seq]}

\* A variant that stores the receipt although the journal holds another value.
settleAnyValue(row, seq) ==
  /\ receipts' = Store(row, seq)
  /\ outbox' = SelectSeq(outbox, LAMBDA r : r # row)

\* The last transaction: the row goes, and unless another attempt recorded a
\* different value under its key, the receipt is stored.  It asks no lease.
Settles(row, seq) ==
  /\ receipts' = IF Conflicts(row, seq) THEN receipts ELSE Store(row, seq)
  /\ outbox' = SelectSeq(outbox, LAMBDA r : r # row)

(* drainOutbox *)

\* A variant that takes a failed pass for a finished one.
drainEndsClean(e, failed) ==
  /\ drain' = [drain EXCEPT ![e] = NoDrain]
  /\ claim' = [claim EXCEPT ![e] = IF failed THEN None ELSE @]
  /\ proc' = [proc EXCEPT ![e].phase = IF @ = "draining" THEN "releasing" ELSE @]

\* A pass ends: after an error the rows are still pending, and the claim that
\* waited answers nothing; a coordinator that was preparing gives up.
DrainEnds(e, failed) ==
  /\ drain' = [drain EXCEPT ![e] = NoDrain]
  /\ claim' = [claim EXCEPT ![e] = IF failed THEN None ELSE @]
  /\ proc' = [proc EXCEPT ![e] = [@ EXCEPT
       !.pending = IF failed THEN TRUE ELSE @,
       !.phase   = IF @ = "draining" THEN (IF failed THEN "dead" ELSE "releasing") ELSE @]]

DrainBegins(e) ==
  /\ drain[e].step = None
  /\ proc[e].phase = "draining" \/ (Asks(e) /\ proc[e].pending)
  /\ claim' = [claim EXCEPT ![e] = IF Asks(e) THEN "waiting" ELSE @]
  /\ proc' = [proc EXCEPT ![e].pending = FALSE]
  /\ drain' = [drain EXCEPT ![e].step = "reading"]
  /\ UNCHANGED <<remote, copy, expired, local, flight, waiting, lost>>

DrainReads(e) ==
  /\ drain[e].step = "reading"
  /\ IF outbox = <<>> THEN DrainEnds(e, FALSE)
     ELSE /\ drain' = [drain EXCEPT ![e] = [@ EXCEPT !.step = "appending", !.rows = outbox]]
          /\ UNCHANGED <<claim, proc>>
  /\ UNCHANGED <<remote, copy, expired, local, flight, waiting, lost>>

DrainAppends(e) ==
  /\ drain[e].step = "appending"
  /\ LET row == Head(drain[e].rows)
     IN  \/ /\ Appends(e, row)
            /\ drain' = [drain EXCEPT ![e] = [@ EXCEPT !.step = "settling",
                           !.seq = IF Recorded(row.key) # 0 THEN Recorded(row.key) ELSE Len(journal) + 1]]
            /\ UNCHANGED <<claim, proc, lost>>
         \/ (Appends(e, row) \/ UNCHANGED journal) /\ lost < load.lost /\ lost' = lost + 1 /\ DrainEnds(e, TRUE)
         \/ holder # e /\ DrainEnds(e, TRUE) /\ UNCHANGED <<journal, lost>>
  /\ UNCHANGED <<holder, copy, expired, local, flight, waiting>>

DrainSettles(e) ==
  /\ drain[e].step = "settling"
  /\ LET row == Head(drain[e].rows)
         seq == drain[e].seq
     IN  /\ Settles(row, seq)
         /\ IF Conflicts(row, seq) THEN DrainEnds(e, TRUE)
            ELSE IF Len(drain[e].rows) = 1 THEN DrainEnds(e, FALSE)
            ELSE /\ drain' = [drain EXCEPT ![e] = [step |-> "appending", rows |-> Tail(@.rows), seq |-> 0]]
                 /\ UNCHANGED <<claim, proc>>
  /\ UNCHANGED <<remote, copy, expired, work, value, owner, accepted, flight, waiting, lost>>

-----------------------------------------------------------------------------
(* commitRemote: one attempt's commit *)

Fly(g, f) == flight' = [flight EXCEPT ![g] = f]

\* A variant that writes to the journal first.
commitAppendsFirst(g, k) ==
  /\ owner[g] # 0 /\ Serving(owner[g]) /\ flight[g].step = None
  /\ Fly(g, [NoFlight EXCEPT !.step = "appending", !.key = k])
  /\ UNCHANGED <<remote, copy, expired, local, proc, drain, claim, waiting, lost>>

\* The commit arrives, and the journal is read outside any transaction.
CommitBegins(g, k) ==
  /\ owner[g] # 0 /\ Serving(owner[g]) /\ owner[g] \notin expired /\ flight[g].step = None
  /\ Fly(g, [NoFlight EXCEPT !.step = "staging", !.key = k, !.existing = Recorded(k)])
  /\ Requests(owner[g], <<"stage", g>>)
  /\ UNCHANGED <<remote, copy, expired, local, proc, drain, claim, lost>>

\* A variant that stages a retried commit again.
heldNever(g, k) == FALSE

\* The outbox holds the operation already.
Held(g, k) == Contains(outbox, Row(g, k))

\* Step 1, the local transaction, and the statement after it: an operation
\* already answered is answered again, a held row is delivered again, an event
\* the journal has is answered from there, anything else is accepted.  A commit
\* that may be accepted may also find its attempt's lease expired and be refused.
CommitStages(g) ==
  /\ flight[g].step = "staging" /\ Runs(owner[g], <<"stage", g>>)
  /\ IF authority(owner[g]) THEN UNCHANGED proc ELSE Refused(owner[g])
  /\ LET k     == flight[g].key
         seq   == flight[g].existing
         known == \E r \in receipts : r.gen = g /\ r.key = k
         may   == authority(owner[g]) /\ current(g) /\ ~known
         new   == may /\ ~Held(g, k)
     IN  \/ /\ may /\ Held(g, k)
            /\ Fly(g, [flight[g] EXCEPT !.step = "flagging"]) /\ UNCHANGED <<outbox, receipts, accepted>>
         \/ /\ new /\ seq = 0
            /\ outbox' = Append(outbox, Row(g, k))
            /\ accepted' = accepted \cup {Row(g, k)}
            /\ Fly(g, [flight[g] EXCEPT !.step = "flagging"]) /\ UNCHANGED receipts
         \/ /\ new /\ seq # 0 /\ ~Conflicts(Row(g, k), seq)
            /\ receipts' = Store(Row(g, k), seq)
            /\ Fly(g, NoFlight) /\ UNCHANGED <<outbox, accepted>>
         \/ /\ ~may \/ ~Held(g, k)
            /\ Fly(g, NoFlight) /\ UNCHANGED <<outbox, receipts, accepted>>
  /\ UNCHANGED <<remote, copy, expired, work, value, owner, drain, claim, lost>>

\* outboxPending is set once the transaction's promise resolved.
CommitFlags(g) ==
  /\ flight[g].step = "flagging"
  /\ proc' = [proc EXCEPT ![owner[g]].pending = TRUE]
  /\ Fly(g, [flight[g] EXCEPT !.step = "appending"])
  /\ UNCHANGED <<remote, copy, expired, local, drain, claim, waiting, lost>>

\* A variant that gives the row up when the journal refuses it.
commitAppendsForgets(g) ==
  /\ flight[g].step = "appending"
  /\ LET row == Row(g, flight[g].key)
         e   == owner[g]
     IN  \/ /\ Appends(e, row)
            /\ Fly(g, [flight[g] EXCEPT !.step = "settling",
                         !.seq = IF Recorded(row.key) # 0 THEN Recorded(row.key) ELSE Len(journal) + 1])
            /\ UNCHANGED <<outbox, lost>>
         \/ /\ holder # e \/ lost < load.lost
            /\ Fly(g, NoFlight)
            /\ outbox' = SelectSeq(outbox, LAMBDA r : r # row)
            /\ UNCHANGED <<journal, lost>>
  /\ UNCHANGED <<holder, copy, expired, work, value, owner, receipts, accepted, proc, drain, claim, waiting>>

CommitAppends(g) ==
  /\ flight[g].step = "appending"
  /\ LET row == Row(g, flight[g].key)
         e   == owner[g]
     IN  \/ /\ Appends(e, row)
            /\ Fly(g, [flight[g] EXCEPT !.step = "settling",
                         !.seq = IF Recorded(row.key) # 0 THEN Recorded(row.key) ELSE Len(journal) + 1])
            /\ UNCHANGED lost
         \/ (Appends(e, row) \/ UNCHANGED journal) /\ lost < load.lost /\ lost' = lost + 1 /\ Fly(g, NoFlight)
         \/ holder # e /\ Fly(g, NoFlight) /\ UNCHANGED <<journal, lost>>
  /\ UNCHANGED <<holder, copy, expired, local, proc, drain, claim, waiting>>

CommitSettles(g) ==
  /\ flight[g].step = "settling"
  /\ Settles(Row(g, flight[g].key), flight[g].seq)
  /\ Fly(g, NoFlight)
  /\ UNCHANGED <<remote, copy, expired, work, value, owner, accepted, proc, drain, claim, waiting, lost>>

-----------------------------------------------------------------------------
Delivery(e) == DrainBegins(e) \/ DrainReads(e) \/ DrainAppends(e) \/ DrainSettles(e)

Commit(g) == CommitStages(g) \/ CommitFlags(g) \/ CommitAppends(g) \/ CommitSettles(g)

Step ==
  \/ \E e \in Epochs :
       \/ TakeOver(e) \/ Expire(e) \/ Crash(e) \/ MirrorReads(e) \/ MirrorWrites(e)
       \/ ReleasePrevious(e) \/ Enqueue(e)
       \/ ClaimChecks(e) \/ ClaimLeases(e)
       \/ RecoverAsked(e) \/ RecoverExpired(e) \/ ReleaseExited(e) \/ Complete(e)
       \/ Delivery(e)
  \/ \E g \in Gens : Commit(g) \/ \E k \in Keys : CommitBegins(g, k)

OutboxNext == Step /\ UNCHANGED load

OutboxSpec == OutboxInit /\ [][OutboxNext]_<<outboxVars, load>>

\* What a process has begun it goes on with; its timer mirrors the lease; idle
\* workers keep asking for work; a root whose coordinator died is resumed.
OutboxFairness ==
  /\ \A e \in Epochs :
       /\ WF_outboxVars(TakeOver(e))
       /\ WF_outboxVars(Expire(e))
       /\ WF_outboxVars(MirrorReads(e))
       /\ WF_outboxVars(MirrorWrites(e))
       /\ WF_outboxVars(ReleasePrevious(e))
       /\ WF_outboxVars(ClaimChecks(e))
       /\ WF_outboxVars(ClaimLeases(e))
       /\ WF_outboxVars(RecoverExpired(e))
       /\ WF_outboxVars(Delivery(e))
  /\ \A g \in Gens : WF_outboxVars(Commit(g))

FairOutbox == OutboxSpec /\ OutboxFairness

-----------------------------------------------------------------------------
\* The local tables are of their types: a row is in the outbox once, and receipts
\* name positions of the journal.
OutboxTypeOK ==
  /\ holder \in 0..MaxEpoch /\ copy \in 0..holder /\ lost \in 0..load.lost
  /\ work.state \in {"ready", "leased", "completed"} /\ work.gen \in 0..MaxGen
  /\ \A e \in Epochs : proc[e].phase \in {None, "mirroring", "draining", "releasing", "serving", "lost", "dead"}
  /\ IsInjective(outbox)
  /\ \A r \in receipts : r.seq \in DOMAIN journal

\* "The journal therefore never holds an event whose session, billing or fence
\* was not recorded first": every event of the journal was accepted by a local
\* transaction of an attempt with that value, and of a coordinator no later than
\* the one that appended it.
JournalWasAccepted ==
  \A i \in DOMAIN journal : \E a \in accepted :
    a.key = journal[i].key /\ value[a.gen] = journal[i].value /\ owner[a.gen] <= journal[i].epoch

\* No event is accepted from a coordinator the journal no longer grants, however
\* old the local copy of the lease is, and whoever wrote it last: by the time the
\* journal grants another epoch the copied lease has expired.
AcceptedOnlyFromHolder ==
  [][\A a \in accepted' \ accepted : owner[a.gen] = holder]_outboxVars

\* An accepted event stays in the outbox until the journal holds an event under
\* its key, across crashes, lost replies and take-overs.
AcceptedUntilRecorded ==
  \A a \in accepted : Recorded(a.key) # 0 \/ \E i \in DOMAIN outbox : outbox[i] = a

\* A receipt names the journal's only event of its key, and that event has the
\* value the attempt committed.
ReceiptsAreTrue ==
  \A r \in receipts : Recorded(r.key) = r.seq /\ journal[r.seq].value = value[r.gen]

\* A completed child has nothing in the outbox: its result is never stored
\* before the journal holds everything its attempts were told is accepted, and
\* nothing of it is accepted later.
ResultAfterEvents ==
  work.state = "completed" => outbox = <<>> /\ \A a \in accepted : Recorded(a.key) # 0

\* Every accepted event is settled: its row leaves the outbox, whichever of a
\* retried commit, a claim and a resumed coordinator gets to it.
AcceptedIsSettled ==
  \A g \in Gens, k \in Keys : Contains(outbox, Row(g, k)) ~> ~Contains(outbox, Row(g, k))

\* The comment of rootLease: "`lost`: it was released, or granted to another
\* holder or epoch".  A coordinator gives its lease up for lost only when the
\* journal gave it to another.
LostOnlyWhenGranted == \A e \in Epochs : proc[e].phase = "lost" => holder # e

\* The comment of commitRemote: "the pool never has an accepted event the
\* journal will not get".
AcceptedReachesJournal ==
  \A a \in accepted :
    \/ \E i \in DOMAIN outbox : outbox[i] = a
    \/ Recorded(a.key) # 0 /\ ~Conflicts(a, Recorded(a.key))

\* The outbox and the journal account for each other across crashes, lost calls
\* and take-overs: what was accepted is in one of them, and what the journal has
\* was accepted first.
OutboxSound == OutboxTypeOK /\ AcceptedUntilRecorded /\ JournalWasAccepted

\* What attempts and the root are told is true: a receipt names the event it was
\* asked for, and a result comes after the child's events.
AnswersAreTrue == ReceiptsAreTrue /\ ResultAfterEvents
=============================================================================
