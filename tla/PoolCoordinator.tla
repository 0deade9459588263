--------------------------- MODULE PoolCoordinator ---------------------------
(***************************************************************************)
(* The root's own pool coordinator: how it starts on a root an earlier     *)
(* incarnation left behind, hands out children, cleans up after exited     *)
(* workers, and recovers lapsed attempts.  Its memory is lost when the     *)
(* root is taken over or restarted (Prepare); the queue's tables and the   *)
(* process groups of old attempts are not.                                 *)
(*                                                                         *)
(* A coordinator of an earlier lease may still run, but every queue call   *)
(* of it is refused (PoolQueue!authority), so only the one of the latest   *)
(* prepared lease is modelled.  The pool is not shared between hosts.      *)
(***************************************************************************)
EXTENDS PoolQueue

CONSTANTS
  AttemptLimit,   \* MAX_CHILD_ATTEMPTS
  None            \* no retained release in progress, no attempt base

\* Releases of retained attempts.
Releases == [token : Tokens, adopt : BOOLEAN, by : {"reap", "recovery"}]

ASSUME CoordinatorAssumption ==
  AttemptLimit \in Nat \ {0} /\ "running" \in Controls /\ None \notin Releases

VARIABLES
  root,           \* the coordinator's lease, how far it has started, and whether
                  \* a reap failed (cleanupFailure)
  kept,           \* earlier attempts whose groups were not confirmed gone at start
  retained,       \* of each child: "no", "retained", or "asked" (enqueued too)
  held,           \* children whose release waits for a reap
  slots,          \* attempts a live worker process of this coordinator runs
  exits,          \* cleanups of exited workers, with the stage they are at
  groups,         \* attempts with process groups nobody reaped or saw gone
  releasing,      \* the release of a retained attempt in progress, or None
  lapsing,        \* attempts recovery decided to release
  asked,          \* children this incarnation of the root enqueued
  base,           \* attemptBase: generation at the first enqueue, or None
  failures        \* children whose failure was sent to the root

memoryVars == <<root, kept, retained, held, slots, exits, releasing, lapsing, asked, base, failures>>
coordVars  == <<poolVars, memoryVars, groups>>

Stages  == {"down", "inspected", "released", "up", "closed"}
Up      == root.stage = "up"

\* The attempt a leased row names; every claim was handed to a worker here.
TokenOf(w) == CHOOSE t \in handed : t.work = w /\ current(t)

\* Attempts of a child in this incarnation.
attempts(t) == t.generation - (IF base[t.work] = None THEN 0 ELSE base[t.work])

-----------------------------------------------------------------------------
CoordInit ==
  /\ PoolInit
  /\ root = [holder |-> Unheld, epoch |-> 0, stage |-> "down", failure |-> FALSE]
  /\ kept = {}
  /\ retained = [w \in Works |-> "no"]
  /\ held = {}
  /\ slots = {}
  /\ exits = {}
  /\ groups = {}
  /\ releasing = None
  /\ lapsing = {}
  /\ asked = {}
  /\ base = [w \in Works |-> None]
  /\ failures = {}

Lease == [holder |-> root.holder, epoch |-> root.epoch]

(* Starting *)

\* prepare, up to its inspection of the rows: a new process, with no memory.
\* Rows leased by earlier incarnations are kept while their groups are not
\* confirmed gone.
Prepare(l) ==
  /\ root.epoch < l.epoch
  /\ initialize(l)
  /\ root' = [holder |-> l.holder, epoch |-> l.epoch, stage |-> "inspected", failure |-> FALSE]
  /\ kept' = {t \in groups : current(t) /\ t.epoch < l.epoch}
  /\ retained' = [w \in Works |-> "no"]
  /\ base' = [w \in Works |-> None]
  /\ held' = {} /\ slots' = {} /\ exits' = {} /\ lapsing' = {} /\ asked' = {} /\ failures' = {}
  /\ releasing' = None
  /\ UNCHANGED groups

ReleasePrevious ==
  /\ root.stage = "inspected"
  /\ releasePreviousIncarnations(Lease, {t.work : t \in kept})
  /\ root' = [root EXCEPT !.stage = "released"]
  /\ UNCHANGED <<kept, retained, held, slots, exits, releasing, lapsing, asked, base, failures, groups>>

Open ==
  /\ root.stage = "released"
  /\ setControl(Lease, "running")
  /\ root' = [root EXCEPT !.stage = "up"]
  /\ retained' = [w \in Works |-> IF \E t \in kept : t.work = w THEN "retained" ELSE "no"]
  /\ held' = {t.work : t \in kept}
  /\ UNCHANGED <<kept, slots, exits, releasing, lapsing, asked, base, failures, groups>>

(* Enqueueing *)

\* Variants: a retained attempt is not marked; attempts count from the one
\* before the first.
EnqueuedUnmarked(w) ==
  /\ asked' = asked \cup {w}
  /\ base' = [base EXCEPT ![w] = IF @ # None THEN @ ELSE work'[w].generation]
  /\ UNCHANGED retained

EnqueuedFromOne(w) ==
  /\ asked' = asked \cup {w}
  /\ retained' = [retained EXCEPT ![w] = IF @ = "no" THEN @ ELSE "asked"]
  /\ base' = [base EXCEPT ![w] = IF @ # None THEN @ ELSE work'[w].generation - 1]

\* Enqueues and releases of retained attempts are serialised
\* (retainedTransition), so an enqueue finds none in progress.
Enqueued(w) ==
  /\ asked' = asked \cup {w}
  /\ retained' = [retained EXCEPT ![w] = IF @ = "no" THEN @ ELSE "asked"]
  /\ base' = [base EXCEPT ![w] =
               IF @ # None THEN @
               ELSE IF \/ work'[w].state = "ready"
                       \/ work'[w].state = "leased" /\ work'[w].epoch < root.epoch
                 THEN work'[w].generation ELSE 0]

enqueue(w, d, p, accept) ==
  /\ Up /\ releasing = None
  /\ enqueueNew(Lease, w, d, p, {}) \/ enqueueAgain(Lease, w, d, accept, {})
  /\ Enqueued(w)
  /\ UNCHANGED <<root, kept, held, slots, exits, releasing, lapsing, failures, groups>>

\* The second transaction of an enqueue that finds a child completed earlier
\* with a failure of the pool's own.
Reopen(w) ==
  /\ Up /\ releasing = None /\ w \in asked
  /\ reopenCompleted(Lease, w)
  /\ base' = [base EXCEPT ![w] = work[w].generation]
  /\ UNCHANGED <<root, kept, retained, held, slots, exits, releasing, lapsing, asked, failures, groups>>

(* Workers *)

\* A worker asks for work; the attempt may start process groups.
Claim(w, k) ==
  /\ Up
  /\ \A t \in slots : t.worker # k
  /\ claim(Lease, w, k, "any")
  /\ LET t == CHOOSE x \in handed' \ handed : TRUE
     IN  slots' = slots \cup {t} /\ groups' \in {groups, groups \cup {t}}
  /\ UNCHANGED <<root, kept, retained, held, exits, releasing, lapsing, asked, base, failures>>

\* A run that ends has ended its own processes first.
Complete(t, r) ==
  /\ Up /\ t \in slots \ groups
  /\ complete(Lease, t, r)
  /\ slots' = slots \ {t}
  /\ UNCHANGED <<root, kept, retained, held, exits, releasing, lapsing, asked, base, failures, groups>>

\* retire: the worker exited, or recovery stopped it.  Its child stays leased
\* and held until its process groups are reaped.
Exit(t) ==
  /\ t \in slots
  /\ slots' = slots \ {t}
  /\ held' = held \cup {t.work}
  /\ exits' = exits \cup {[token |-> t, stage |-> "reaping"]}
  /\ UNCHANGED <<root, kept, retained, releasing, lapsing, asked, base, failures, groups>>

WorkerExits(t) == Up /\ Exit(t) /\ UNCHANGED poolVars

Advance(x, stage) ==
  exits' = (exits \ {x}) \cup (IF stage = "done" THEN {} ELSE {[token |-> x.token, stage |-> stage]})

\* The reap is bounded: groups that survive it are reported, not waited for.
ExitReaped(x) ==
  /\ x.stage = "reaping"
  /\ Advance(x, "settling")
  /\ held' = held \ {x.token.work}
  /\ groups' = groups \ {x.token}
  /\ UNCHANGED <<poolVars, root, kept, retained, slots, releasing, lapsing, asked, base, failures>>

\* A recorded result reaches the root; otherwise the child is released for
\* another attempt, or fails after its last one.
ExitSettles(x) ==
  LET t == x.token
      exhausted == attempts(t) >= AttemptLimit
  IN  /\ x.stage = "settling"
      /\ \/ /\ results[t.work] # NoResult
            /\ Advance(x, "done")
            /\ UNCHANGED <<poolVars, failures>>
         \/ /\ results[t.work] = NoResult
            /\ settleExited(Lease, t, IF exhausted THEN "failed" ELSE "ready")
            /\ Advance(x, "done")
            /\ failures' = IF exhausted THEN failures \cup {t.work} ELSE failures
         \/ /\ results[t.work] = NoResult
            /\ authority(Lease) /\ ~current(t)
            /\ Advance(x, IF exhausted THEN "replaced" ELSE "done")
            /\ UNCHANGED <<poolVars, failures>>
      /\ UNCHANGED <<root, kept, retained, held, slots, releasing, lapsing, asked, base, groups>>

\* superseded: a newer attempt or a completion has the child now.
ExitReports(x) ==
  LET t == x.token
  IN  /\ x.stage = "replaced"
      /\ failures' = IF work[t.work].generation = t.generation /\ work[t.work].state # "completed"
                       THEN failures \cup {t.work} ELSE failures
      /\ Advance(x, "done")
      /\ UNCHANGED <<poolVars, root, kept, retained, held, slots, releasing, lapsing, asked, base, groups>>

\* A worker reports that its attempt was refused or hit a fault of the pool,
\* after the attempt's own processes ended; a replaced one is left alone.
Fenced(t) ==
  LET exhausted == attempts(t) >= AttemptLimit
  IN  /\ Up /\ t \in slots \ groups
      /\ slots' = slots \ {t}
      /\ \/ /\ settleExited(Lease, t, IF exhausted THEN "failed" ELSE "ready")
            /\ failures' = IF exhausted THEN failures \cup {t.work} ELSE failures
         \/ authority(Lease) /\ ~current(t) /\ UNCHANGED <<poolVars, failures>>
      /\ UNCHANGED <<root, kept, retained, held, exits, releasing, lapsing, asked, base, groups>>

(* Retained attempts *)

\* A variant that always adopts.
BeginReleaseAdopts(t, by) ==
  /\ releasing = None
  /\ releasing' = [token |-> t, adopt |-> TRUE, by |-> by]
  /\ retained' = [retained EXCEPT ![t.work] = "no"]

\* releaseRetained up to its queue call: the record goes before the call.
BeginRelease(t, by) ==
  /\ releasing = None
  /\ releasing' = [token |-> t, adopt |-> retained[t.work] = "asked", by |-> by]
  /\ retained' = [retained EXCEPT ![t.work] = "no"]

\* reapRetained: groups on this host are gone or reported after the bound;
\* groups on another host cannot be probed, and the attempt stays retained.
ReapRetained(t) ==
  /\ Up /\ t \in kept /\ t.work \in held
  /\ \/ BeginRelease(t, "reap") /\ groups' = groups \ {t} /\ UNCHANGED held
     \/ held' = held \ {t.work} /\ UNCHANGED <<releasing, retained, groups>>
  /\ kept' = kept \ {t}
  /\ UNCHANGED <<poolVars, root, slots, exits, lapsing, asked, base, failures>>

\* The queue call, or a token that is no longer current, which is ignored.  A
\* late root is waited for.
FinishRelease ==
  /\ releasing # None
  /\ \/ releaseRetained(Lease, releasing.token, releasing.adopt)
     \/ authority(Lease) /\ ~current(releasing.token) /\ UNCHANGED poolVars
  /\ releasing' = None
  /\ held' = held \ {releasing.token.work}
  /\ UNCHANGED <<root, kept, retained, slots, exits, lapsing, asked, base, failures, groups>>

\* The reaper's transaction fails: the error is kept for close, and nothing is
\* retried.  (One of recovery fails the pool.)
FailRelease ==
  /\ releasing # None /\ releasing.by = "reap"
  /\ releasing' = None
  /\ held' = held \ {releasing.token.work}
  /\ root' = [root EXCEPT !.failure = TRUE]
  /\ UNCHANGED <<poolVars, kept, retained, slots, exits, lapsing, asked, base, failures, groups>>

(* Recovery *)

Lapsed(w) == work[w].state = "leased" /\ work[w].lapsed

\* A held child, or one whose worker is live, gets more time.
RecoverExtends(w) ==
  /\ Up /\ Lapsed(w)
  /\ w \in held \/ TokenOf(w) \in slots
  /\ extend(Lease, TokenOf(w))
  /\ UNCHANGED <<memoryVars, groups>>

\* A worker that is not live is stopped, which starts its exit cleanup.
RecoverStops(w) ==
  /\ Up /\ Lapsed(w) /\ w \notin held
  /\ ~late
  /\ Exit(TokenOf(w))
  /\ UNCHANGED poolVars

\* A variant that does not ask for the attempt's process groups.
RecoverDecidesBlindly(w) ==
  /\ Up /\ Lapsed(w) /\ w \notin held
  /\ ~late
  /\ TokenOf(w) \notin slots
  /\ lapsing' = lapsing \cup {TokenOf(w)}
  /\ UNCHANGED <<poolVars, root, kept, retained, held, slots, exits, releasing, asked, base, failures, groups>>

\* Anything else is released, unless its groups are not confirmed gone.
RecoverDecides(w) ==
  /\ Up /\ Lapsed(w) /\ w \notin held
  /\ ~late
  /\ TokenOf(w) \notin slots
  /\ TokenOf(w) \notin groups
  /\ lapsing' = lapsing \cup {TokenOf(w)}
  /\ UNCHANGED <<poolVars, root, kept, retained, held, slots, exits, releasing, asked, base, failures, groups>>

RecoverExpires(t) ==
  /\ t \in lapsing /\ t.epoch = root.epoch
  /\ \/ expire(Lease, t)
     \/ authority(Lease) /\ (current(t) => ~work[t.work].lapsed) /\ UNCHANGED poolVars
  /\ lapsing' = lapsing \ {t}
  /\ UNCHANGED <<root, kept, retained, held, slots, exits, releasing, asked, base, failures, groups>>

RecoverReleases(t) ==
  /\ t \in lapsing /\ t.epoch < root.epoch
  /\ BeginRelease(t, "recovery")
  /\ lapsing' = lapsing \ {t}
  /\ UNCHANGED <<poolVars, root, kept, held, slots, exits, asked, base, failures, groups>>

\* Close, once every worker is stopped and cleaned up after.
Close ==
  /\ Up /\ slots = {} /\ exits = {} /\ releasing = None /\ held = {} /\ lapsing = {}
  /\ releaseClosed(Lease, {})
  /\ root' = [root EXCEPT !.stage = "closed"]
  /\ UNCHANGED <<kept, retained, held, slots, exits, releasing, lapsing, asked, base, failures, groups>>

\* Process groups of an attempt end by themselves.
GroupsEnd(t) ==
  /\ t \in groups
  /\ groups' = groups \ {t}
  /\ UNCHANGED <<poolVars, memoryVars>>

-----------------------------------------------------------------------------
Outside ==
  /\ \/ RootRuns("running")
     \/ RootHolds
     \/ RootLate
     \/ \E w \in Works : Lapse(w)
  /\ UNCHANGED <<memoryVars, groups>>

Starting == (\E l \in granted : Prepare(l)) \/ ReleasePrevious \/ Open \/ Close

Enqueueing ==
  \E w \in Works :
    \/ \E d \in Descriptors, p \in Payloads, accept \in BOOLEAN : enqueue(w, d, p, accept)
    \/ Reopen(w)

Working ==
  \/ \E w \in Works, k \in Workers : Claim(w, k)
  \/ \E t \in slots :
       \/ WorkerExits(t)
       \/ Fenced(t)
       \/ \E r \in Results : Complete(t, r)
  \/ \E x \in exits : ExitReaped(x) \/ ExitSettles(x) \/ ExitReports(x)
  \/ \E t \in groups : GroupsEnd(t)

Recovering ==
  \/ \E t \in kept : ReapRetained(t)
  \/ FinishRelease
  \/ FailRelease
  \/ \E w \in Works : RecoverExtends(w) \/ RecoverStops(w) \/ RecoverDecides(w)
  \/ \E t \in lapsing : RecoverExpires(t) \/ RecoverReleases(t)

CoordNext == Outside \/ Starting \/ Enqueueing \/ Working \/ Recovering

CoordSpec == CoordInit /\ [][CoordNext]_coordVars

\* Idle workers ask for work, attempts and their process groups end, clocks
\* run, and the coordinator's timer and clean-ups go on.
Fairness ==
  /\ WF_coordVars(\E w \in Works, k \in Workers : Claim(w, k))
  /\ WF_coordVars(\E t \in slots : WorkerExits(t) \/ \E r \in Results : Complete(t, r))
  /\ WF_coordVars(\E x \in exits : ExitReaped(x) \/ ExitSettles(x) \/ ExitReports(x))
  /\ WF_coordVars(\E t \in groups : GroupsEnd(t))
  /\ WF_coordVars(\E t \in kept : ReapRetained(t))
  /\ WF_coordVars(FinishRelease)
  /\ \A w \in Works :
       /\ WF_coordVars(Lapse(w) /\ UNCHANGED <<memoryVars, groups>>)
       /\ WF_coordVars(RecoverDecides(w))
  /\ WF_coordVars(\E t \in lapsing : RecoverExpires(t) \/ RecoverReleases(t))

FairCoordSpec == CoordSpec /\ Fairness

-----------------------------------------------------------------------------
(* Properties *)

\* The coordinator's memory is well formed; in particular attempts are counted
\* from a generation that exists (attemptBase).
CoordTypeOK ==
  /\ root \in [holder : Holders \cup {Unheld}, epoch : Nat, stage : Stages, failure : BOOLEAN]
  /\ kept \subseteq Tokens
  /\ retained \in [Works -> {"no", "retained", "asked"}]
  /\ held \subseteq Works
  /\ slots \subseteq Tokens
  /\ exits \subseteq [token : Tokens, stage : {"reaping", "settling", "replaced"}]
  /\ groups \subseteq Tokens
  /\ releasing \in Releases \cup {None}
  /\ lapsing \subseteq Tokens
  /\ asked \subseteq Works
  /\ base \in [Works -> Nat \cup {None}]
  /\ failures \subseteq Works

\* No attempt of a child starts while process groups of an earlier attempt of
\* it run that nobody reaped or saw gone: not after a crash of the root, not
\* through recovery, not through an exit ("replaying it would run alongside
\* them").
NoReplayAlongside ==
  \A t \in slots, g \in groups :
    g.work = t.work /\ t.epoch = lease.epoch => g.generation >= t.generation

\* A worker only runs children this incarnation of the root enqueued (#3979):
\* the root cannot accept the result of one it has not asked for again.
OnlyAskedRuns ==
  \A t \in slots : t.work \in asked

\* An enqueue is never lost: once no attempt holds a child the root asked for,
\* that child is claimable in this incarnation, whether its enqueue or the
\* release of an attempt retained from an earlier incarnation came first.
\* (A release that fails with a storage error loses it: EnqueueOutlivesFault.)
EnqueueNotLost ==
  Up /\ root.epoch = lease.epoch /\ ~root.failure =>
    \A w \in asked : work[w].state = "ready" => work[w].epoch = root.epoch

\* The same, even if the queue call of such a release fails: the comment on
\* releaseRetained ("adopting it if this incarnation enqueued it").
EnqueueOutlivesFault ==
  Up /\ root.epoch = lease.epoch =>
    \A w \in asked : work[w].state = "ready" => work[w].epoch = root.epoch

\* Every child the root asked for is settled in the end, with a result or a
\* failure, if from some point on one incarnation of the root keeps its pool
\* open, renews its lease in time and meets no storage error in a reap (and the
\* bound on claims is not reached):
\* whatever attempts of earlier incarnations, exits, lapses, reaps and late
\* releases came before.
AskedIsSettled ==
  <>[](Up /\ root.epoch = lease.epoch /\ ~root.failure /\ ~late /\ \A w \in Works : work[w].generation < MaxGeneration) =>
    \A w \in Works : <>[](w \in asked => results[w] # NoResult \/ w \in failures)

\* A child whose failure was sent to the root is not claimable any more in
\* this incarnation ("its work item ends failed in the same transaction, so no
\* worker claims it again").
FailedIsNotClaimable ==
  root.epoch = lease.epoch =>
    \A w \in failures : ~(work[w].state \in {"ready", "leased"} /\ work[w].epoch = root.epoch)

\* The coordinator's memory is well formed, and no worker runs a child this
\* incarnation of the root has not enqueued, whatever recovery, reaps and exits
\* release.
CoordSound == CoordTypeOK /\ OnlyAskedRuns
=============================================================================
