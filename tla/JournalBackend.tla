--------------------------- MODULE JournalBackend ---------------------------
(***************************************************************************)
(* JournalDurableBackend over the SQL run journal, for one run: several    *)
(* processes, each with one backend, share the journal (module RunJournal, *)
(* whose actions are the calls a backend awaits).  A backend runs the      *)
(* operations on a run one after the other; each is a generator that       *)
(* yields at every call of the journal, so an operation takes several      *)
(* steps: a first look at the log, ownership, a second look, the write.    *)
(* Renewals, and the release of an execution that retires, wait in the     *)
(* same queue.                                                             *)
(*                                                                         *)
(* A backend's projection is the list of the events it folded.  Two reads  *)
(* of the log with nothing of this backend between them are one.           *)
(***************************************************************************)
EXTENDS RunJournal, SequencesExt

CONSTANTS
  Loads           \* bounds: what is asked of the backends; a behaviour has one of them

Backends == Holders

\* The backends that are asked, the operations asked for, how many of them each is
\* asked, its executions of the run, and the calls of the journal that fail as
\* unavailable.
ASSUME BackendAssumption ==
  \A l \in Loads : l.backends \subseteq Backends /\ l.asks \in [Backends -> Nat] /\ {l.execs, l.faults} \subseteq Nat

VARIABLES
  state,          \* open, closing or closed
  held,           \* leases: the epoch of the run's lease, or 0
  lost,           \* lost: the epoch of the lease that was refused, or 0
  seen,           \* the events folded into the projection
  ops,            \* pending: the operations queued on the run, in order
  step,           \* how far the first one is
  renewing,       \* a renewal is queued or running
  execs,          \* the executions of the run: their lease, whether retired
  running,        \* executions: the one that is active, or 0
  asked,          \* operations asked so far
  faults,         \* failures so far
  load            \* the load of this behaviour

local       == <<state, held, lost, seen, ops, step, renewing, execs, running, asked, faults>>
backendVars == <<journalVars, local, load>>

\* The run does not exist yet, or was created with its first event.
BackendInit ==
  /\ \/ Init
     \/ \E s \in Statuses :
          /\ header = s /\ status = s
          /\ log = <<[epoch |-> 0, key |-> NoKey, body |-> s]>>
          /\ lease = [holder |-> Unheld, epoch |-> 0, stale |-> FALSE]
          /\ granted = {}
  /\ state = [b \in Backends |-> "open"]
  /\ held = [b \in Backends |-> 0]
  /\ lost = [b \in Backends |-> 0]
  /\ seen = [b \in Backends |-> <<>>]
  /\ ops = [b \in Backends |-> <<>>]
  /\ step = [b \in Backends |-> "start"]
  /\ renewing = [b \in Backends |-> FALSE]
  /\ execs = [b \in Backends |-> <<>>]
  /\ running = [b \in Backends |-> 0]
  /\ asked = [b \in Backends |-> 0]
  /\ faults = 0
  /\ load \in Loads

-----------------------------------------------------------------------------
(* Asking for operations *)

\* An operation, the execution it was asked in (0: none), and its argument: the
\* lease of a renewal, the execution a release retires, the statuses of a
\* transition.
Op(kind, x, arg) == [kind |-> kind, exec |-> x, arg |-> arg]

Changes == {<<s, t>> \in Statuses \X Statuses : s # t}

\* serialize refuses a backend that is not open and an execution that retired.
Ask(b, kind, x, arg) ==
  /\ kind \in load.menu /\ asked[b] < load.asks[b]
  /\ state[b] = "open"
  /\ x # 0 => x \in DOMAIN execs[b] /\ ~execs[b][x].retired
  /\ ops' = [ops EXCEPT ![b] = Append(@, Op(kind, x, arg))]
  /\ asked' = [asked EXCEPT ![b] = @ + 1]
  /\ UNCHANGED <<journalVars, state, held, lost, seen, step, renewing, execs, running, faults>>

Asks(b) ==
  \E x \in 0..load.execs :
    \/ \E s \in Statuses : Ask(b, "register", x, s)
    \/ \E c \in Changes : Ask(b, "transition", x, c) \/ Ask(b, "handoff", x, c)
    \/ \E k \in Keys : Ask(b, "checkpoint", x, k)
    \/ Ask(b, "delete", x, 0)
    \/ x = 0 /\ Ask(b, "release", 0, 0)

\* A variant that goes on renewing while the backend closes.
renewLeasesAlways(b) ==
  /\ held[b] # 0 /\ ~renewing[b] /\ state[b] # "closed"
  /\ ops' = [ops EXCEPT ![b] = Append(@, Op("renew", 0, held[b]))]
  /\ renewing' = [renewing EXCEPT ![b] = TRUE]
  /\ UNCHANGED <<journalVars, state, held, lost, seen, step, execs, running, asked, faults>>

\* The timer: a renewal joins the queue unless the previous one is still there.
renewLeases(b) ==
  /\ held[b] # 0 /\ ~renewing[b] /\ state[b] = "open"
  /\ ops' = [ops EXCEPT ![b] = Append(@, Op("renew", 0, held[b]))]
  /\ renewing' = [renewing EXCEPT ![b] = TRUE]
  /\ UNCHANGED <<journalVars, state, held, lost, seen, step, execs, running, asked, faults>>

\* withWorkflowLease, by a caller that is not inside an execution of the run: it is
\* refused while one is active.
withWorkflowLease(b) ==
  /\ state[b] = "open" /\ running[b] = 0 /\ Len(execs[b]) < load.execs
  /\ execs' = [execs EXCEPT ![b] = Append(@, [lease |-> held[b], retired |-> FALSE])]
  /\ running' = [running EXCEPT ![b] = Len(execs[b]) + 1]
  /\ UNCHANGED <<journalVars, state, held, lost, seen, ops, step, renewing, asked, faults>>

\* A variant whose release does not wait for the operations queued.
retireReleasesFirst(b) ==
  /\ running[b] # 0 /\ state[b] = "open" /\ step[b] = "start"
  /\ execs' = [execs EXCEPT ![b][running[b]].retired = TRUE]
  /\ running' = [running EXCEPT ![b] = 0]
  /\ ops' = [ops EXCEPT ![b] = <<Op("release", 0, running[b])>> \o @]
  /\ UNCHANGED <<journalVars, state, held, lost, seen, step, renewing, asked, faults>>

\* The execution's last user left, or its retirement was called before that.
retireExecution(b) ==
  /\ running[b] # 0
  /\ execs' = [execs EXCEPT ![b][running[b]].retired = TRUE]
  /\ running' = [running EXCEPT ![b] = 0]
  /\ ops' = [ops EXCEPT ![b] = IF state[b] = "open" THEN Append(@, Op("release", 0, running[b])) ELSE @]
  /\ UNCHANGED <<journalVars, state, held, lost, seen, step, renewing, asked, faults>>

-----------------------------------------------------------------------------
(* The steps of an operation *)

First(b, kinds, at) ==
  /\ ops[b] # <<>> /\ Head(ops[b]).kind \in kinds
  /\ step[b] = at

Lease(b) == [holder |-> b, epoch |-> held[b]]

\* refresh: all of the log without a lease, what follows the projection with one.
Refreshed(b, events) ==
  IF held[b] = 0 THEN events ELSE seen[b] \o SubSeq(events, Len(seen[b]) + 1, Len(events))

\* The status of the projection's handle; a run without one is not registered.
StatusOf(events) ==
  LET changes == {i \in DOMAIN events : events[i].body \in Statuses}
  IN  IF changes = {} THEN NoRun ELSE events[Max(changes)].body

\* A variant that leaves the renewal's flag set.
endsRenewing(b) ==
  /\ ops' = [ops EXCEPT ![b] = Tail(@)]
  /\ step' = [step EXCEPT ![b] = "start"]
  /\ UNCHANGED renewing

\* The operation settles, or goes on.
Ends(b) ==
  /\ ops' = [ops EXCEPT ![b] = Tail(@)]
  /\ step' = [step EXCEPT ![b] = "start"]
  /\ renewing' = [renewing EXCEPT ![b] = @ /\ Head(ops[b]).kind # "renew"]

GoesOn(b, next) ==
  /\ step' = [step EXCEPT ![b] = next]
  /\ UNCHANGED <<ops, renewing>>

\* register begins with createRun, which leaves an existing run alone.
RegisterCreates(b) ==
  /\ First(b, {"register"}, "start")
  /\ IF Exists THEN UNCHANGED journalVars ELSE createRun(Head(ops[b]).arg)
  /\ GoesOn(b, "own")
  /\ UNCHANGED <<state, held, lost, seen, execs, running, asked, faults>>

\* The first look: transition, and current's refresh.
Applies(op, events) ==
  /\ StatusOf(events) # NoRun
  /\ op.kind \in {"transition", "handoff"} => StatusOf(events) = op.arg[1]

Looks(b) ==
  /\ First(b, {"transition", "handoff", "checkpoint"}, "start")
  /\ seen' = [seen EXCEPT ![b] = Refreshed(b, log)]
  /\ IF Applies(Head(ops[b]), seen'[b]) THEN GoesOn(b, "own") ELSE Ends(b)
  /\ UNCHANGED <<journalVars, state, held, lost, execs, running, asked, faults>>

DeleteStarts(b) ==
  /\ First(b, {"delete"}, "start")
  /\ GoesOn(b, "own")
  /\ UNCHANGED <<journalVars, state, held, lost, seen, execs, running, asked, faults>>

Owners == {"register", "transition", "handoff", "checkpoint", "delete"}

\* A variant that takes a lost run over again.
mayOwnAgain(b) == lost[b] = 0 \/ held[b] = 0

\* ownership throws when the run was lost.
MayOwn(b) == lost[b] = 0

\* The lease becomes that of the execution the operation was asked in, else of the
\* active one.
RecordsLease(b, epoch) ==
  LET op == Head(ops[b])
      x  == IF op.exec # 0 THEN op.exec ELSE running[b]
  IN  execs' = IF x = 0 THEN execs ELSE [execs EXCEPT ![b][x].lease = epoch]

Owned(b, epoch) ==
  /\ held' = [held EXCEPT ![b] = epoch]
  /\ RecordsLease(b, epoch)
  /\ GoesOn(b, "rebuild")
  /\ UNCHANGED <<state, lost, seen, running, asked, faults>>

\* ownership: the lease it has, or takeoverExpired, which answers a holder that
\* asks again with the lease it has.
ownership(b) ==
  /\ First(b, Owners, "own")
  /\ MayOwn(b)
  /\ \/ /\ held[b] # 0
        /\ GoesOn(b, "read")
        /\ UNCHANGED <<journalVars, state, held, lost, seen, execs, running, asked, faults>>
     \/ /\ held[b] = 0 /\ Exists /\ lease.holder = b
        /\ Owned(b, lease.epoch)
        /\ UNCHANGED journalVars
     \/ /\ held[b] = 0 /\ takeoverExpired(b)
        /\ Owned(b, lease'.epoch)

\* It is refused: the run is lost, held by another, or gone.  current rebuilds the
\* projection of a run that is gone, and a deletion clears it.
ownershipRefused(b) ==
  /\ First(b, Owners, "own")
  /\ \/ ~MayOwn(b) /\ UNCHANGED seen
     \/ /\ MayOwn(b) /\ held[b] = 0 /\ ~Exists
        /\ seen' = [seen EXCEPT ![b] = log]
     \/ /\ MayOwn(b) /\ held[b] = 0 /\ Exists /\ lease.holder \notin {b, Unheld} /\ ~lease.stale
        /\ UNCHANGED seen
  /\ Ends(b)
  /\ UNCHANGED <<journalVars, state, held, lost, execs, running, asked, faults>>

\* A variant that trusts the first look.
readsUnchecked(b) ==
  /\ ops[b] # <<>> /\ step[b] \in {"rebuild", "read"}
  /\ LET op == Head(ops[b])
     IN  /\ seen' = [seen EXCEPT ![b] = IF step[b] = "rebuild" THEN log
                                        ELSE IF op.kind = "delete" THEN @ ELSE Refreshed(b, log)]
         /\ GoesOn(b, "write")
  /\ UNCHANGED <<journalVars, state, held, lost, execs, running, asked, faults>>

\* The second look, under the lease; rebuild folds the whole log again.
Reads(b) ==
  /\ ops[b] # <<>> /\ step[b] \in {"rebuild", "read"}
  /\ LET op == Head(ops[b])
     IN  /\ seen' = [seen EXCEPT ![b] = IF step[b] = "rebuild" THEN log
                                        ELSE IF op.kind = "delete" THEN @ ELSE Refreshed(b, log)]
         /\ IF op.kind \in {"register", "delete"} \/ Applies(op, seen'[b]) THEN GoesOn(b, "write") ELSE Ends(b)
  /\ UNCHANGED <<journalVars, state, held, lost, execs, running, asked, faults>>

\* The event an operation appends, and the sequence it is pinned to: a transition
\* is pinned to the one its decision was made at.
EventOf(op) ==
  [key  |-> IF op.kind = "checkpoint" THEN op.arg ELSE NoKey,
   body |-> CASE op.kind = "checkpoint" -> CHOOSE p \in Payloads : TRUE
              [] op.kind = "register" -> op.arg
              [] OTHER -> op.arg[2]]

Pinned(b) == IF Head(ops[b]).kind \in {"transition", "handoff"} THEN Len(seen[b]) ELSE AnySeq

\* The sequence of the entry the append answers: the one recorded under the key, or
\* the new one.
OutcomeSeq(events, r) ==
  IF HasKey(events, r.key)
    THEN CHOOSE i \in DOMAIN events : events[i].key = r.key
    ELSE Len(events) + 1

\* A variant that folds the answered entry alone.
foldsOutcomeOnly(b, events, seq) ==
  IF seq > Len(seen[b]) THEN Append(seen[b], events[seq]) ELSE seen[b]

\* write folds what another writer appended before the answered entry, then it.
FoldsOutcome(b, events, seq) ==
  IF seq > Len(seen[b]) THEN seen[b] \o SubSeq(events, Len(seen[b]) + 1, seq) ELSE seen[b]

Writers == Owners \ {"delete"}

Writes(b) ==
  /\ First(b, Writers, "write")
  /\ LET op == Head(ops[b])
         r  == EventOf(op)
     IN  /\ HasKey(log, r.key) \/ Len(log) < MaxSeq
         /\ append(Lease(b), r, Pinned(b))
         /\ seen' = [seen EXCEPT ![b] = FoldsOutcome(b, log', OutcomeSeq(log, r))]
         /\ IF op.kind = "handoff" THEN GoesOn(b, "release") ELSE Ends(b)
  /\ UNCHANGED <<state, held, lost, execs, running, asked, faults>>

\* The journal's counter is at its limit: the append fails.
WriteOverflows(b) ==
  /\ First(b, Writers, "write")
  /\ checkLease(Lease(b)) /\ Len(log) = MaxSeq /\ ~HasKey(log, EventOf(Head(ops[b])).key)
  /\ Ends(b)
  /\ UNCHANGED <<journalVars, state, held, lost, seen, execs, running, asked, faults>>

\* Another writer appended first: a transition reads what it missed and answers no.
WriteConflicts(b) ==
  /\ First(b, Writers, "write")
  /\ checkLease(Lease(b)) /\ Pinned(b) \notin {AnySeq, Len(log)}
  /\ seen' = [seen EXCEPT ![b] = Refreshed(b, log)]
  /\ Ends(b)
  /\ UNCHANGED <<journalVars, state, held, lost, execs, running, asked, faults>>

\* The lease is refused: the run is lost, and the lease stays where it is until the
\* run is released (mapOwnership).
WriteRefused(b) ==
  /\ First(b, Owners, "write")
  /\ ~checkLease(Lease(b))
  /\ lost' = [lost EXCEPT ![b] = held[b]]
  /\ Ends(b)
  /\ UNCHANGED <<journalVars, state, held, seen, execs, running, asked, faults>>

deleteOwned(b) ==
  /\ First(b, {"delete"}, "write")
  /\ deleteOwnedRun(Lease(b), AnySeq)
  /\ held' = [held EXCEPT ![b] = 0]
  /\ seen' = [seen EXCEPT ![b] = <<>>]
  /\ Ends(b)
  /\ UNCHANGED <<state, lost, execs, running, asked, faults>>

-----------------------------------------------------------------------------
(* Renewal, release and close *)

\* A renewal of a lease the backend no longer has, or lost, does nothing.
RenewsNothing(b) ==
  /\ First(b, {"renew"}, "start")
  /\ held[b] # Head(ops[b]).arg \/ lost[b] # 0
  /\ Ends(b)
  /\ UNCHANGED <<journalVars, state, held, lost, seen, execs, running, asked, faults>>

RenewDue(b) ==
  /\ First(b, {"renew"}, "start")
  /\ held[b] = Head(ops[b]).arg /\ lost[b] = 0

renewLease(b) ==
  /\ RenewDue(b)
  /\ renew(Lease(b))
  /\ Ends(b)
  /\ UNCHANGED <<state, held, lost, seen, execs, running, asked, faults>>

\* Only a refused lease is lost.
RenewRefused(b) ==
  /\ RenewDue(b)
  /\ ~checkLease(Lease(b))
  /\ lost' = [lost EXCEPT ![b] = held[b]]
  /\ held' = [held EXCEPT ![b] = 0]
  /\ Ends(b)
  /\ UNCHANGED <<journalVars, state, seen, execs, running, asked, faults>>

\* release drops the lease whether the journal released it or refused it; one of a
\* retirement leaves a lease that is not its execution's.
IsReleased(b) ==
  LET x == Head(ops[b]).arg
  IN  held[b] # 0 /\ (Head(ops[b]).kind = "release" /\ x # 0 => execs[b][x].lease = held[b])

ReleaseDue(b) == First(b, {"release"}, "start") \/ First(b, {"handoff"}, "release")

Released(b) ==
  IF checkLease(Lease(b)) THEN release(Lease(b)) ELSE UNCHANGED journalVars

Releases(b) ==
  /\ ReleaseDue(b)
  /\ IF IsReleased(b) THEN Released(b) /\ held' = [held EXCEPT ![b] = 0] ELSE UNCHANGED <<journalVars, held>>
  /\ Ends(b)
  /\ UNCHANGED <<state, lost, seen, execs, running, asked, faults>>

close(b) ==
  /\ "close" \in load.menu
  /\ state[b] = "open"
  /\ state' = [state EXCEPT ![b] = "closing"]
  /\ UNCHANGED <<journalVars, held, lost, seen, ops, step, renewing, execs, running, asked, faults>>

\* A variant that does not wait for the operations queued.
drainsNothing(b) == state[b] = "closing"

Drained(b) == state[b] = "closing" /\ ops[b] = <<>>

\* drainAndClose, once the queue is empty: the lease is released.
drainAndClose(b) ==
  /\ Drained(b)
  /\ IF held[b] # 0 THEN Released(b) ELSE UNCHANGED journalVars
  /\ held' = [held EXCEPT ![b] = 0]
  /\ state' = [state EXCEPT ![b] = "closed"]
  /\ UNCHANGED <<lost, seen, ops, step, renewing, execs, running, asked, faults>>

\* A variant that takes every failure of a renewal for a loss.
faultLoses(b) ==
  IF Head(ops[b]).kind = "renew"
    THEN lost' = [lost EXCEPT ![b] = held[b]] /\ held' = [held EXCEPT ![b] = 0]
    ELSE UNCHANGED <<lost, held>>

\* What a call that failed as unavailable leaves: a renewal is tried again at the
\* next beat, a release drops the lease all the same, anything else fails.
FaultLeaves(b) ==
  /\ held' = [held EXCEPT ![b] = IF ReleaseDue(b) /\ IsReleased(b) THEN 0 ELSE @]
  /\ UNCHANGED lost

Fails(b) ==
  /\ faults < load.faults
  /\ ops[b] # <<>>
  /\ faults' = faults + 1
  /\ FaultLeaves(b)
  /\ Ends(b)
  /\ UNCHANGED <<journalVars, state, seen, execs, running, asked>>

-----------------------------------------------------------------------------
\* The worker pool appends under the lease of the run's backend, from its own queue.
PoolAppends(b) ==
  /\ "pool" \in load.menu
  /\ held[b] # 0
  /\ \E p \in Payloads : append(Lease(b), [key |-> NoKey, body |-> p], AnySeq)
  /\ UNCHANGED local

LeaseAged == LeaseAges /\ UNCHANGED local

OperationStep(b) ==
  \/ RegisterCreates(b) \/ Looks(b) \/ DeleteStarts(b)
  \/ ownership(b) \/ ownershipRefused(b) \/ Reads(b)
  \/ Writes(b) \/ WriteConflicts(b) \/ WriteOverflows(b) \/ WriteRefused(b) \/ deleteOwned(b)
  \/ RenewsNothing(b) \/ renewLease(b) \/ RenewRefused(b) \/ Releases(b)

Step ==
  \/ \E b \in load.backends :
       \/ Asks(b) \/ renewLeases(b) \/ withWorkflowLease(b) \/ retireExecution(b)
       \/ OperationStep(b) \/ Fails(b)
       \/ close(b) \/ drainAndClose(b) \/ PoolAppends(b)
  \/ LeaseAged

BackendNext == Step /\ UNCHANGED load

BackendSpec == BackendInit /\ [][BackendNext]_backendVars

\* Every call of the journal is answered, so a queued operation goes on.
BackendFairness ==
  \A b \in Backends :
    WF_backendVars(OperationStep(b) /\ UNCHANGED load) /\ WF_backendVars(drainAndClose(b) /\ UNCHANGED load)

FairBackend == BackendSpec /\ BackendFairness

-----------------------------------------------------------------------------
(* Properties *)

\* The renewing flag is set exactly while a renewal is queued, and an operation
\* under way is the head of its queue.
BackendTypeOK ==
  \A b \in Backends :
    /\ held[b] \in 0..MaxEpoch /\ lost[b] \in 0..MaxEpoch
    /\ renewing[b] <=> \E i \in DOMAIN ops[b] : ops[b][i].kind = "renew"
    /\ step[b] # "start" => ops[b] # <<>>
    /\ running[b] \in 0..Len(execs[b])

\* Under its lease a backend's projection is the beginning of the log, whatever the
\* pool appended in between: an entry is folded in its place or not yet.
ProjectionFollowsLog ==
  \A b \in Backends :
    held[b] # 0 /\ checkLease(Lease(b)) /\ step[b] # "rebuild" => IsPrefix(seen[b], log)

\* "Only a refused lease is lost": the journal does not grant a lease its backend
\* gave up for lost.
LostIsRefused ==
  \A b \in Backends : lost[b] # 0 => ~checkLease([holder |-> b, epoch |-> lost[b]])

\* A backend that lost the run leaves it for good: it is granted no lease again.
LostStaysAway ==
  [][\A b \in Backends : lost[b] # 0 => \A l \in granted' \ granted : l.holder # b]_backendVars

\* A transition is recorded only when the run has one of the statuses it expects,
\* however late the decision is written and whoever wrote in between.
TransitionsAreExpected ==
  [][\A b \in Backends :
       ops[b] # <<>> /\ Head(ops[b]).kind \in {"transition", "handoff"} /\ step[b] = "write"
         /\ step'[b] # "write" /\ Len(log') > Len(log)
       => StatusOf(log) = Head(ops[b]).arg[1]]_backendVars

\* Once the release of a retired execution ran, the backend does not keep the
\* execution's lease: another process can take the run.
RetiredIsReleased ==
  \A b \in Backends :
    state[b] = "open" /\ ops[b] = <<>> /\ faults = 0 =>
      \A x \in DOMAIN execs[b] : execs[b][x].retired => held[b] = 0 \/ held[b] # execs[b][x].lease

\* A closed backend leaves no lease behind, whatever was queued when it closed.
ClosedIsReleased ==
  \A b \in Backends : state[b] = "closed" /\ faults = 0 => lease.holder # b

\* A backend that closes ends: what is queued settles and nothing joins it.
ClosingEnds == \A b \in Backends : state[b] = "closing" ~> state[b] = "closed"

\* How a backend's lease ends: only the journal's refusal makes it lost, and a
\* retired execution and a closed backend leave none behind.
LeasesSound == BackendTypeOK /\ LostIsRefused /\ RetiredIsReleased /\ ClosedIsReleased
=============================================================================
