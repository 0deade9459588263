------------------------ MODULE PoolCoordinatorProofs ------------------------
(***************************************************************************)
(* Proofs about the pool's coordinator, for any number of children,        *)
(* workers and incarnations of the root.                                   *)
(*                                                                         *)
(* The argument.  An attempt whose process groups may still run keeps its  *)
(* row leased (GroupInv): whatever releases a row does so for an attempt   *)
(* whose groups were reaped or seen gone, or, at start-up, leaves out the  *)
(* rows it saw groups for.  A claim takes a ready row, so it never starts  *)
(* beside old groups.  Enqueues and releases of attempts retained from an  *)
(* earlier incarnation go through the record of that attempt, so whichever *)
(* comes second finds what the first one left (RetainInv).                 *)
(***************************************************************************)
EXTENDS PoolCoordinator, PoolQueueProofs

\* A row leased by an earlier incarnation of the root.
Old(w) == work[w].state = "leased" /\ work[w].epoch < root.epoch

\* The coordinator's lease was granted, and a pool that has not opened
\* remembers nothing but the attempts it keeps.
RootInv ==
  /\ CoordTypeOK
  /\ placing = {}
  /\ root.epoch <= lease.epoch
  /\ root.stage # "down" => Lease \in granted /\ 1 <= root.epoch
  /\ root.stage \notin {"up", "closed"} =>
       slots = {} /\ exits = {} /\ releasing = None /\ lapsing = {} /\ asked = {}

\* Rows of the coordinator's epoch were asked for, and a leased row has its
\* attempt.
RowInv ==
  \A w \in Works :
    /\ work[w].epoch <= root.epoch
    /\ root.stage # "down" /\ work[w].epoch = root.epoch => w \in asked
    /\ work[w].state = "leased" => \E t \in handed : t.work = w /\ current(t)

\* The attempts the coordinator remembers are claims; those of its workers
\* are its own.
TokenInv ==
  /\ \A t \in handed : t.epoch <= root.epoch
  /\ slots \subseteq handed /\ kept \subseteq handed /\ lapsing \subseteq handed
  /\ \A t \in slots : t.epoch = root.epoch /\ t.work \in asked
  /\ \A x \in exits : x.token \in handed /\ x.token.epoch = root.epoch
  /\ releasing # None => releasing.token \in handed

\* Attempts with process groups are current, and nobody is about to release
\* them.
GroupInv ==
  /\ groups \subseteq handed
  /\ \A g \in groups :
       /\ current(g)
       /\ g \notin lapsing
       /\ releasing # None => releasing.token # g
       /\ \A x \in exits : x.token = g => x.stage = "reaping"
       /\ g.epoch = root.epoch => g \in slots \/ \E x \in exits : x.token = g
       /\ root.stage = "inspected" /\ g.epoch < root.epoch => g \in kept

\* Every row leased by an earlier incarnation has a record, which knows of an
\* enqueue, until it is released.
RetainInv ==
  /\ \A t \in kept \cup lapsing : Old(t.work) => current(t)
  /\ \A w \in Works : retained[w] = "asked" => w \in asked
  /\ releasing # None =>
       /\ retained[releasing.token.work] = "no"
       /\ releasing.adopt => releasing.token.work \in asked
       /\ Old(releasing.token.work) => current(releasing.token)
  /\ root.stage = "released" => \A w \in Works : Old(w) => \E t \in kept : t.work = w
  /\ Up /\ ~root.failure =>
       \A w \in Works :
         /\ Old(w) => \/ retained[w] # "no" /\ (w \in asked => retained[w] = "asked")
                      \/ releasing # None /\ releasing.token.work = w /\ (w \in asked => releasing.adopt)
         /\ w \in asked /\ work[w].state = "ready" => work[w].epoch = root.epoch

CoordInv == CoreInv /\ RootInv /\ RowInv /\ TokenInv /\ GroupInv /\ RetainInv

-----------------------------------------------------------------------------
(* The coordinator as a user of the queue *)

\* The types of what the invariant speaks about.
LEMMA Basics ==
  ASSUME CoordInv
  PROVE  /\ TypeInv /\ work \in [Works -> Rows]
         /\ \A w \in Works : work[w] \in Rows /\ work[w].epoch \in Nat /\ work[w].generation \in Nat
         /\ \A t \in handed : t \in Tokens /\ t.work \in Works /\ t.epoch \in Nat /\ t.generation \in Nat
         /\ root.epoch \in Nat /\ lease.epoch \in Nat /\ root.holder \in Holders \cup {Unheld}
<1>1. CoreInv /\ CoordTypeOK /\ PoolTypeOK /\ TypeInv
  BY Zenon DEF CoordInv, RootInv, CoreInv, TypeInv
<1>2. work \in [Works -> Rows] /\ \A w \in Works : work[w] \in Rows
  BY Zenon, <1>1 DEF PoolTypeOK
<1>3. \A w \in Works : work[w].epoch \in Nat /\ work[w].generation \in Nat
  BY Zenon, <1>2 DEF Rows
<1>4. \A t \in handed : t \in Tokens /\ t.work \in Works /\ t.epoch \in Nat /\ t.generation \in Nat
  BY Zenon, <1>1 DEF PoolTypeOK, Tokens
<1>5. root.epoch \in Nat /\ root.holder \in Holders \cup {Unheld}
  BY Zenon, <1>1 DEF CoordTypeOK
<1>6. lease.epoch \in Nat
  BY Zenon, <1>1 DEF TypeInv, JournalInv, TypeOK
<1> QED BY Zenon, <1>1, <1>2, <1>3, <1>4, <1>5, <1>6

\* A child has one current attempt.
LEMMA OneCurrent ==
  ASSUME CoordInv, NEW t \in handed, NEW u \in handed, t.work = u.work, current(t), current(u)
  PROVE  t = u
BY Zenon DEF CoordInv, CoreInv, ClaimInv, Claims, current

\* The attempt recovery finds for a leased row is its current one.
LEMMA TokenOfRow ==
  ASSUME CoordInv, NEW w \in Works, work[w].state = "leased"
  PROVE  TokenOf(w) \in handed /\ TokenOf(w).work = w /\ current(TokenOf(w))
<1>1. \E t \in handed : t.work = w /\ current(t)
  BY Zenon DEF CoordInv, RowInv
<1> QED BY Zenon, <1>1 DEF TokenOf

\* What the coordinator does to the queue is what the queue's own
\* specification allows.
LEMMA StepIsPool ==
  ASSUME CoordInv, [CoordNext]_coordVars
  PROVE  [PoolNext]_poolVars
<1>0. RootInv /\ TokenInv /\ (root.stage # "down" => Lease \in granted)
  BY Zenon DEF CoordInv, RootInv
<1>1. CASE UNCHANGED coordVars
  BY Zenon, <1>1 DEF coordVars
<1>2. CASE Outside
  <2>1. \/ RootRuns("running") \/ RootHolds \/ RootLate \/ \E w \in Works : Lapse(w)
    BY Zenon, <1>2 DEF Outside
  <2>2. "running" \in Statuses
    BY Zenon, PoolAssumption
  <2> QED BY Zenon, <2>1, <2>2 DEF PoolNext, RootNext, AttemptNext
<1>3. CASE Starting
  <2>1. ASSUME NEW l \in granted, Prepare(l) PROVE PoolNext
    BY Zenon, <2>1 DEF Prepare, PoolNext, CoordinatorNext
  <2>2. ASSUME ReleasePrevious PROVE PoolNext
    <3>1. Lease \in granted /\ {t.work : t \in kept} \in SUBSET Works
      BY <1>0, <2>2 DEF ReleasePrevious, RootInv, CoordTypeOK, Tokens
    <3> QED BY Zenon, <2>2, <3>1 DEF ReleasePrevious, PoolNext, CoordinatorNext
  <2>3. ASSUME Open PROVE PoolNext
    <3>1. Lease \in granted /\ "running" \in Controls
      BY Zenon, <1>0, <2>3, CoordinatorAssumption DEF Open
    <3> QED BY Zenon, <2>3, <3>1 DEF Open, PoolNext, CoordinatorNext
  <2>4. ASSUME Close PROVE PoolNext
    <3>1. Lease \in granted /\ {} \in SUBSET Works
      BY Zenon, <1>0, <2>4 DEF Close, Up
    <3> QED BY Zenon, <2>4, <3>1 DEF Close, PoolNext, CoordinatorNext
  <2> QED BY Zenon, <1>3, <2>1, <2>2, <2>3, <2>4 DEF Starting
<1>4. CASE Enqueueing
  <2>1. ASSUME NEW w \in Works, NEW d \in Descriptors, NEW p \in Payloads, NEW accept \in BOOLEAN, enqueue(w, d, p, accept)
        PROVE  PoolNext
    <3>1. Lease \in granted /\ {} \in SUBSET Forked
      BY Zenon, <1>0, <2>1 DEF enqueue, Up
    <3>2. enqueueNew(Lease, w, d, p, {}) \/ enqueueAgain(Lease, w, d, accept, {})
      BY Zenon, <2>1 DEF enqueue
    <3> QED BY Zenon, <3>1, <3>2 DEF PoolNext, CoordinatorNext
  <2>2. ASSUME NEW w \in Works, Reopen(w) PROVE PoolNext
    <3>1. Lease \in granted /\ reopenCompleted(Lease, w)
      BY Zenon, <1>0, <2>2 DEF Reopen, Up
    <3> QED BY Zenon, <3>1 DEF PoolNext, CoordinatorNext
  <2> QED BY Zenon, <1>4, <2>1, <2>2 DEF Enqueueing
<1>5. CASE Working
  <2>1. ASSUME NEW w \in Works, NEW k \in Workers, Claim(w, k) PROVE PoolNext
    <3>1. Lease \in granted /\ claim(Lease, w, k, "any")
      BY Zenon, <1>0, <2>1 DEF Claim, Up
    <3> QED BY Zenon, <3>1 DEF PoolNext, CoordinatorNext
  <2>2. ASSUME NEW t \in slots, WorkerExits(t) PROVE UNCHANGED poolVars
    BY Zenon, <2>2 DEF WorkerExits
  <2>3. ASSUME NEW t \in handed, Lease \in granted, NEW state \in {"ready", "failed"}, settleExited(Lease, t, state)
        PROVE  PoolNext
    BY Zenon, <2>3 DEF PoolNext, CoordinatorNext
  <2>4. ASSUME NEW t \in slots, Fenced(t) PROVE [PoolNext]_poolVars
    <3>1. t \in handed /\ Lease \in granted
      BY Zenon, <1>0, <2>4 DEF Fenced, Up, TokenInv
    <3> QED BY Zenon, <2>3, <2>4, <3>1 DEF Fenced
  <2>5. ASSUME NEW t \in slots, NEW r \in Results, Complete(t, r) PROVE PoolNext
    <3>1. t \in handed /\ Lease \in granted /\ complete(Lease, t, r)
      BY Zenon, <1>0, <2>5 DEF Complete, Up, TokenInv
    <3> QED BY Zenon, <3>1 DEF PoolNext, AttemptNext
  <2>6. ASSUME NEW x \in exits, ExitReaped(x) \/ ExitReports(x) PROVE UNCHANGED poolVars
    BY Zenon, <2>6 DEF ExitReaped, ExitReports
  <2>7. ASSUME NEW x \in exits, ExitSettles(x) PROVE [PoolNext]_poolVars
    <3>1. x.token \in handed /\ Lease \in granted
      BY Zenon, <1>0, <2>7 DEF TokenInv, RootInv
    <3> QED BY Zenon, <2>3, <2>7, <3>1 DEF ExitSettles
  <2>8. ASSUME NEW t, GroupsEnd(t) PROVE UNCHANGED poolVars
    BY Zenon, <2>8 DEF GroupsEnd
  <2> QED BY Zenon, <1>5, <2>1, <2>2, <2>4, <2>5, <2>6, <2>7, <2>8 DEF Working
<1>6. CASE Recovering
  <2>1. ASSUME NEW t, ReapRetained(t) PROVE UNCHANGED poolVars
    BY Zenon, <2>1 DEF ReapRetained
  <2>2. ASSUME FinishRelease PROVE [PoolNext]_poolVars
    <3>1. releasing.token \in handed /\ Lease \in granted /\ releasing.adopt \in BOOLEAN
      BY Zenon, <1>0, <2>2 DEF FinishRelease, TokenInv, RootInv, CoordTypeOK, Releases
    <3>2. releaseRetained(Lease, releasing.token, releasing.adopt) => PoolNext
      BY Zenon, <3>1 DEF PoolNext, CoordinatorNext
    <3> QED BY Zenon, <2>2, <3>2 DEF FinishRelease
  <2>3. ASSUME FailRelease PROVE UNCHANGED poolVars
    BY Zenon, <2>3 DEF FailRelease
  <2>4. ASSUME NEW w \in Works, RecoverExtends(w) PROVE PoolNext
    <3>1. TokenOf(w) \in handed /\ Lease \in granted
      BY Zenon, <1>0, <2>4, TokenOfRow DEF RecoverExtends, Up, Lapsed
    <3>2. extend(Lease, TokenOf(w))
      BY Zenon, <2>4 DEF RecoverExtends
    <3> QED BY Zenon, <3>1, <3>2 DEF PoolNext, CoordinatorNext
  <2>5. ASSUME NEW w, RecoverStops(w) \/ RecoverDecides(w) PROVE UNCHANGED poolVars
    BY Zenon, <2>5 DEF RecoverStops, RecoverDecides
  <2>6. ASSUME NEW t \in lapsing, RecoverExpires(t) PROVE [PoolNext]_poolVars
    <3>1. t \in handed /\ Lease \in granted
      BY Zenon, <1>0, <2>6 DEF TokenInv, RootInv
    <3>2. expire(Lease, t) => PoolNext
      BY Zenon, <3>1 DEF PoolNext, CoordinatorNext
    <3> QED BY Zenon, <2>6, <3>2 DEF RecoverExpires
  <2>7. ASSUME NEW t, RecoverReleases(t) PROVE UNCHANGED poolVars
    BY Zenon, <2>7 DEF RecoverReleases
  <2> QED BY Zenon, <1>6, <2>1, <2>2, <2>3, <2>4, <2>5, <2>6, <2>7 DEF Recovering
<1> QED BY Zenon, <1>1, <1>2, <1>3, <1>4, <1>5, <1>6 DEF CoordNext

-----------------------------------------------------------------------------
(* What a step may do to the rows, and what it then has to do in memory *)

\* No step takes a grant back or lowers the root's epoch.
LEMMA GrantsStay ==
  ASSUME CoordInv, [PoolNext]_poolVars
  PROVE  granted \subseteq granted' /\ lease.epoch <= lease'.epoch /\ lease.epoch \in Nat /\ lease'.epoch \in Nat
<1>1. TypeInv /\ JournalInv
  BY Zenon DEF CoordInv, CoreInv, TypeInv
<1>2. [Next]_journalVars
  BY Zenon, <1>1, PoolStepsJournal
<1>3. ASSUME NEW j, Write(j) PROVE granted' = granted
  BY Zenon, <1>3 DEF Write
<1>4. ASSUME NEW h, grant(h) PROVE granted \subseteq granted'
  BY Zenon, <1>4 DEF grant
<1>5. granted \subseteq granted'
  BY Zenon, <1>2, <1>3, <1>4
     DEF Next, journalVars, createRun, createRunWithEvents, deleteRun, deleteOwnedRun, deleteRunData, acquire,
         takeoverExpired, takeover, renew, release, LeaseAges, append, appendMany
<1> QED BY Zenon, <1>1, <1>2, <1>5, EpochsGrow

\* The step is one of the same coordinator.
SameRoot ==
  /\ root'.holder = root.holder /\ root'.epoch = root.epoch
  /\ root.stage = "down" <=> root'.stage = "down"

LEMMA RootKept ==
  ASSUME CoordInv, [PoolNext]_poolVars, CoordTypeOK', placing' = placing, SameRoot,
         root'.stage \notin {"up", "closed"} =>
           slots' = {} /\ exits' = {} /\ releasing' = None /\ lapsing' = {} /\ asked' = {}
  PROVE  RootInv'
<1>1. granted \subseteq granted' /\ lease.epoch <= lease'.epoch /\ lease.epoch \in Nat /\ lease'.epoch \in Nat
  BY Zenon, GrantsStay
<1>2. Lease' = Lease
  BY Zenon DEF Lease, SameRoot
<1>3. RootInv /\ root.epoch \in Nat
  BY Zenon, Basics DEF CoordInv
<1> QED BY <1>1, <1>2, <1>3 DEF RootInv, SameRoot

\* A row is leased, or not, to the same attempt as before.
RowStays(row, new) ==
  new.state = row.state /\ new.epoch = row.epoch /\ new.generation = row.generation /\ new.worker = row.worker

\* Every other row ends, or waits for a claim, and had no process groups; it
\* gets the coordinator's epoch only if the root asked for it.
Settles ==
  /\ handed' = handed /\ placing' = placing
  /\ \A w \in Works :
       \/ RowStays(work[w], work'[w])
       \/ /\ \A g \in groups : g.work # w
          /\ work'[w].state \in {"ready", "failed", "completed"}
          /\ work'[w].epoch = work[w].epoch \/ (work'[w].epoch = root.epoch /\ w \in asked')

LEMMA SettledRows ==
  ASSUME CoordInv, Settles, SameRoot, asked \subseteq asked'
  PROVE  /\ RowInv'
         /\ \A g \in groups : current(g)'
         /\ \A w \in Works : Old(w)' => Old(w)
         /\ \A t \in handed : Old(t.work)' /\ current(t) => current(t)'
<1>1. RowInv /\ GroupInv /\ (\A t \in handed : t.work \in Works) /\ root.epoch \in Nat
  BY Zenon, Basics DEF CoordInv
<1>2. \A t \in handed : current(t) /\ RowStays(work[t.work], work'[t.work]) => current(t)'
  BY Zenon DEF RowStays, current
<1>3. \A g \in groups : current(g)'
  BY Zenon, <1>1, <1>2 DEF GroupInv, Settles
<1>4. \A w \in Works : work'[w].state = "leased" => RowStays(work[w], work'[w])
  BY Zenon DEF Settles
<1>5. \A w \in Works : Old(w)' => Old(w)
  BY Zenon, <1>4 DEF Old, RowStays, SameRoot
<1>6. \A t \in handed : Old(t.work)' /\ current(t) => current(t)'
  BY Zenon, <1>1, <1>2, <1>4 DEF Old
<1>7. ASSUME NEW w \in Works
      PROVE  /\ work'[w].epoch <= root'.epoch
             /\ root'.stage # "down" /\ work'[w].epoch = root'.epoch => w \in asked'
             /\ work'[w].state = "leased" => \E t \in handed' : t.work = w /\ current(t)'
  <2>1. work'[w].epoch <= root'.epoch
    BY <1>1 DEF RowInv, SameRoot, Settles, RowStays
  <2>2. root'.stage # "down" /\ work'[w].epoch = root'.epoch => w \in asked'
    BY Zenon, <1>1 DEF RowInv, SameRoot, Settles, RowStays
  <2>3. ASSUME work'[w].state = "leased" PROVE \E t \in handed' : t.work = w /\ current(t)'
    <3>1. RowStays(work[w], work'[w]) /\ work[w].state = "leased"
      BY Zenon, <1>4, <2>3 DEF RowStays
    <3>2. PICK t \in handed : t.work = w /\ current(t)
      BY Zenon, <1>1, <3>1 DEF RowInv
    <3> QED BY Zenon, <1>2, <3>1, <3>2 DEF Settles
  <2> QED BY Zenon, <2>1, <2>2, <2>3
<1>8. RowInv'
  BY Zenon, <1>7 DEF RowInv
<1> QED BY Zenon, <1>3, <1>5, <1>6, <1>8

LEMMA TokensKept ==
  ASSUME CoordInv, handed' = handed, SameRoot, asked \subseteq asked',
         slots' \subseteq slots, kept' \subseteq kept, lapsing' \subseteq handed,
         \A x \in exits' : x.token \in slots \/ \E y \in exits : y.token = x.token,
         releasing' # None => releasing'.token \in handed
  PROVE  TokenInv'
<1>1. TokenInv
  BY Zenon DEF CoordInv
<1>2. \A x \in exits' : x.token \in handed /\ x.token.epoch = root.epoch
  BY Zenon, <1>1 DEF TokenInv
<1> QED BY Zenon, <1>1, <1>2 DEF TokenInv, SameRoot

LEMMA GroupsKept ==
  ASSUME CoordInv, handed' = handed, SameRoot, groups' \subseteq groups,
         \A g \in groups : current(g)',
         \A t \in lapsing' : t \in lapsing \/ t \notin groups',
         releasing' \in {releasing, None} \/ releasing'.token \notin groups',
         \A x \in exits' : x \in exits \/ x.stage = "reaping" \/ x.token \notin groups',
         \A g \in groups' : g \in slots => g \in slots' \/ \E x \in exits' : x.token = g,
         \A x \in exits : x.token \in groups' => \E y \in exits' : y.token = x.token,
         root'.stage = "inspected" => root.stage = "inspected" /\ kept' = kept
  PROVE  GroupInv'
<1>1. GroupInv /\ groups' \subseteq handed'
  BY Zenon DEF CoordInv, GroupInv
<1>2. ASSUME NEW g \in groups'
      PROVE  /\ current(g)' /\ g \notin lapsing'
             /\ releasing' # None => releasing'.token # g
             /\ \A x \in exits' : x.token = g => x.stage = "reaping"
             /\ g.epoch = root'.epoch => g \in slots' \/ \E x \in exits' : x.token = g
             /\ root'.stage = "inspected" /\ g.epoch < root'.epoch => g \in kept'
  <2>0. g \in groups
    OBVIOUS
  <2>1. current(g)' /\ g \notin lapsing'
    BY Zenon, <1>1, <2>0 DEF GroupInv
  <2>2. releasing' # None => releasing'.token # g
    BY Zenon, <1>1, <2>0 DEF GroupInv
  <2>3. \A x \in exits' : x.token = g => x.stage = "reaping"
    BY Zenon, <1>1, <2>0 DEF GroupInv
  <2>4. g.epoch = root'.epoch => g \in slots' \/ \E x \in exits' : x.token = g
    BY <1>1, <2>0 DEF GroupInv, SameRoot
  <2>5. root'.stage = "inspected" /\ g.epoch < root'.epoch => g \in kept'
    BY Zenon, <1>1, <2>0 DEF GroupInv, SameRoot
  <2> QED BY Zenon, <2>1, <2>2, <2>3, <2>4, <2>5
<1> QED BY Zenon, <1>1, <1>2 DEF GroupInv

LEMMA RetainKept ==
  ASSUME CoordInv, SameRoot, handed' = handed,
         \A w \in Works : Old(w)' => Old(w),
         \A t \in handed : Old(t.work)' /\ current(t) => current(t)',
         retained' = retained, asked' = asked, kept' \subseteq kept,
         \A t \in lapsing' : t \in lapsing \/ (t \in handed /\ current(t)),
         \/ releasing' = releasing
         \/ releasing' = None /\ \A w \in Works : Old(w)' /\ w = releasing.token.work => root'.failure,
         root'.stage = "released" => root.stage = "released" /\ kept' = kept,
         Up' => Up, root.failure => root'.failure,
         Up' /\ ~root'.failure => \A w \in asked : work'[w].state = "ready" => work'[w].epoch = root.epoch
  PROVE  RetainInv'
<1>1. RetainInv /\ TokenInv /\ \A t \in handed : t.work \in Works
  BY Zenon, Basics DEF CoordInv
<1>2. \A t \in kept' \cup lapsing' : Old(t.work)' => current(t)'
  BY Zenon, <1>1 DEF RetainInv, TokenInv
<1>3. releasing' # None => /\ retained'[releasing'.token.work] = "no"
                           /\ releasing'.adopt => releasing'.token.work \in asked'
                           /\ (Old(releasing.token.work) => current(releasing.token))'
  <2>1. CASE releasing' = None
    BY Zenon, <2>1
  <2>2. CASE releasing' = releasing /\ releasing # None
    <3>1. PICK t \in handed : t = releasing.token
      BY Zenon, <1>1, <2>2 DEF TokenInv
    <3>2. Old(t.work) => current(t)
      BY Zenon, <1>1, <2>2, <3>1 DEF RetainInv
    <3>3. Old(t.work)' => current(t)'
      BY Zenon, <1>1, <3>2
    <3>4. retained[releasing.token.work] = "no" /\ (releasing.adopt => releasing.token.work \in asked)
      BY Zenon, <1>1, <2>2 DEF RetainInv
    <3>5. t = releasing'.token
      BY Zenon, <2>2, <3>1
    <3> QED BY Zenon, <2>2, <3>3, <3>4, <3>5 DEF Old, current
  <2> QED BY Zenon, <2>1, <2>2
<1>4. root'.stage = "released" => \A w \in Works : Old(w)' => \E t \in kept' : t.work = w
  BY Zenon, <1>1 DEF RetainInv
<1>5. ASSUME Up', ~root'.failure, NEW w \in Works, Old(w)'
      PROVE  \/ retained'[w] # "no" /\ (w \in asked' => retained'[w] = "asked")
             \/ releasing' # None /\ releasing'.token.work = w /\ (w \in asked' => releasing'.adopt)
  <2>1. \/ retained[w] # "no" /\ (w \in asked => retained[w] = "asked")
        \/ releasing # None /\ releasing.token.work = w /\ (w \in asked => releasing.adopt)
    BY Zenon, <1>1, <1>5 DEF RetainInv
  <2>2. ASSUME releasing # None, releasing.token.work = w PROVE releasing' = releasing
    BY Zenon, <1>5, <2>2
  <2> QED BY Zenon, <2>1, <2>2
<1>6. \A w \in Works : retained'[w] = "asked" => w \in asked'
  BY Zenon, <1>1 DEF RetainInv
<1> QED BY Zenon, <1>2, <1>3, <1>4, <1>5, <1>6 DEF RetainInv, SameRoot

\* A step that keeps the coordinator's records: workers and clean-ups only move
\* on, and what is let go of has no process groups left.
LEMMA MemoryStep ==
  ASSUME CoordInv, [PoolNext]_poolVars, Settles, CoordTypeOK',
         root' = root, kept' = kept, retained' = retained, asked' = asked,
         root.stage \notin {"up", "closed"} => slots' = {} /\ exits' = {} /\ releasing' = None /\ lapsing' = {},
         groups' \subseteq groups, slots' \subseteq slots,
         \A t \in lapsing' : t \in lapsing \/ (t \in handed /\ current(t) /\ t \notin groups'),
         \A x \in exits' : \/ x \in exits
                           \/ x.token \in slots /\ x.stage = "reaping"
                           \/ x.token \notin groups' /\ \E y \in exits : y.token = x.token,
         \A g \in slots : g \in slots' \/ g \notin groups' \/ \E x \in exits' : x.token = g,
         \A x \in exits : x \in exits' \/ x.token \notin groups',
         \/ releasing' = releasing
         \/ releasing' = None /\ \A w \in Works : Old(w)' => w # releasing.token.work,
         Up /\ ~root.failure => \A w \in asked : work'[w].state = "ready" => work'[w].epoch = root.epoch
  PROVE  RootInv' /\ RowInv' /\ TokenInv' /\ GroupInv' /\ RetainInv'
<1>0. SameRoot /\ handed' = handed /\ placing' = placing /\ asked \subseteq asked' /\ Up' = Up
  BY Zenon DEF SameRoot, Settles, Up
<1>1. RootInv /\ TokenInv
  BY Zenon DEF CoordInv
<1>2. RootInv'
  BY Zenon, <1>0, <1>1, RootKept DEF RootInv
<1>3. /\ RowInv'
      /\ \A g \in groups : current(g)'
      /\ \A w \in Works : Old(w)' => Old(w)
      /\ \A t \in handed : Old(t.work)' /\ current(t) => current(t)'
  BY Zenon, <1>0, SettledRows
<1>4. TokenInv'
  <2>1. lapsing' \subseteq handed /\ (releasing' # None => releasing'.token \in handed)
    BY Zenon, <1>1 DEF TokenInv
  <2>2. \A x \in exits' : x.token \in slots \/ \E y \in exits : y.token = x.token
    OBVIOUS
  <2> QED BY Zenon, <1>0, <2>1, <2>2, TokensKept
<1>5. GroupInv'
  <2>1. \A t \in lapsing' : t \in lapsing \/ t \notin groups'
    OBVIOUS
  <2>2. \A x \in exits' : x \in exits \/ x.stage = "reaping" \/ x.token \notin groups'
    OBVIOUS
  <2>3. \A g \in groups' : g \in slots => g \in slots' \/ \E x \in exits' : x.token = g
    OBVIOUS
  <2>4. \A x \in exits : x.token \in groups' => \E y \in exits' : y.token = x.token
    OBVIOUS
  <2>5. releasing' \in {releasing, None}
    OBVIOUS
  <2> QED BY Zenon, <1>0, <1>3, <2>1, <2>2, <2>3, <2>4, <2>5, GroupsKept
<1>6. RetainInv'
  <2>1. \A t \in lapsing' : t \in lapsing \/ (t \in handed /\ current(t))
    OBVIOUS
  <2>2. \/ releasing' = releasing
        \/ releasing' = None /\ \A w \in Works : Old(w)' /\ w = releasing.token.work => root'.failure
    OBVIOUS
  <2> QED BY Zenon, <1>0, <1>3, <2>1, <2>2, RetainKept
<1> QED BY Zenon, <1>2, <1>3, <1>4, <1>5, <1>6

-----------------------------------------------------------------------------
(* The steps, by what they do to the rows *)

\* One row changes as Settles allows.
LEMMA OneSettles ==
  ASSUME CoordInv, NEW w \in Works, NEW row, work' = [work EXCEPT ![w] = row],
         handed' = handed, placing' = placing,
         \/ RowStays(work[w], row)
         \/ /\ \A g \in groups : g.work # w
            /\ row.state \in {"ready", "failed", "completed"}
            /\ row.epoch = work[w].epoch \/ (row.epoch = root.epoch /\ w \in asked')
  PROVE  Settles
<1>1. work'[w] = row /\ \A u \in Works : u # w => work'[u] = work[u]
  BY Zenon, Basics
<1>2. \A u \in Works : u # w => RowStays(work[u], work'[u])
  BY Zenon, <1>1 DEF RowStays
<1> QED BY Zenon, <1>1, <1>2 DEF Settles

LEMMA UnchangedSettles ==
  ASSUME work' = work, handed' = handed, placing' = placing
  PROVE  Settles
BY Zenon DEF Settles, RowStays

\* A lapse and an extension leave the row to its attempt.
LEMMA LapseStays ==
  ASSUME CoordInv, NEW w \in Works, NEW b, SetRow(w, [work[w] EXCEPT !.lapsed = b])
  PROVE  Settles
<1>1. RowStays(work[w], [work[w] EXCEPT !.lapsed = b])
  BY Zenon, Basics DEF RowStays, Rows
<1>2. handed' = handed /\ placing' = placing /\ work' = [work EXCEPT ![w] = [work[w] EXCEPT !.lapsed = b]]
  BY Zenon DEF SetRow, claimVars
<1> QED BY Zenon, <1>1, <1>2, OneSettles

\* The fields of a released row.
LEMMA ReleasedRow ==
  ASSUME NEW row \in Rows, NEW state, NEW e
  PROVE  Released(row, state, e).state = state /\ Released(row, state, e).epoch = e
BY Zenon DEF Released, Rows

\* No process groups belong to a child whose current attempt has none.
LEMMA NoOtherGroups ==
  ASSUME CoordInv, NEW t \in handed, t \notin groups, current(t)
  PROVE  \A g \in groups : g.work # t.work
BY Zenon, OneCurrent DEF CoordInv, GroupInv

\* The release of an attempt without process groups.
LEMMA ReleaseSettles ==
  ASSUME CoordInv, NEW t \in handed, t \notin groups, current(t), NEW state \in {"ready", "failed", "completed"}, NEW e,
         e = work[t.work].epoch \/ (e = root.epoch /\ t.work \in asked'),
         SetRow(t.work, Released(work[t.work], state, e))
  PROVE  /\ Settles
         /\ work'[t.work].state = state /\ work'[t.work].epoch = e
         /\ \A w \in Works : w # t.work => work'[w] = work[w]
<1> DEFINE row == Released(work[t.work], state, e)
<1>1. t.work \in Works /\ work[t.work] \in Rows /\ work \in [Works -> Rows]
  BY Zenon, Basics
<1>2. row.state = state /\ row.epoch = e
  BY <1>1, ReleasedRow
<1>3. work' = [work EXCEPT ![t.work] = row] /\ handed' = handed /\ placing' = placing
  BY Zenon DEF SetRow, claimVars
<1> HIDE DEF row
<1>4. Settles
  BY Zenon, <1>1, <1>2, <1>3, NoOtherGroups, OneSettles
<1> QED BY Zenon, <1>1, <1>2, <1>3, <1>4

Rest == RootInv /\ RowInv /\ TokenInv /\ GroupInv /\ RetainInv

\* Nothing of the coordinator changes.
LEMMA IdleStep ==
  ASSUME CoordInv, [PoolNext]_poolVars, Settles, UNCHANGED <<memoryVars, groups>>,
         \A w \in Works : work'[w].state = work[w].state /\ work'[w].epoch = work[w].epoch
  PROVE  Rest'
<1>1. RootInv /\ RetainInv
  BY Zenon DEF CoordInv
<1>2. /\ root' = root /\ kept' = kept /\ retained' = retained /\ held' = held /\ slots' = slots /\ exits' = exits
      /\ releasing' = releasing /\ lapsing' = lapsing /\ asked' = asked /\ base' = base /\ failures' = failures
      /\ groups' = groups
  BY Zenon DEF memoryVars
<1>3. CoordTypeOK'
  BY Zenon, <1>1, <1>2 DEF RootInv, CoordTypeOK
<1>4. root.stage \notin {"up", "closed"} => slots = {} /\ exits = {} /\ releasing = None /\ lapsing = {}
  BY Zenon, <1>1 DEF RootInv
<1>5. Up /\ ~root.failure => \A w \in asked : work'[w].state = "ready" => work'[w].epoch = root.epoch
  <2>1. asked \subseteq Works
    BY Zenon, <1>1 DEF RootInv, CoordTypeOK
  <2> QED BY Zenon, <1>1, <2>1 DEF RetainInv
<1> QED BY Zenon, <1>2, <1>3, <1>4, <1>5, MemoryStep DEF Rest

LEMMA OutsideStep ==
  ASSUME CoordInv, [PoolNext]_poolVars, Outside
  PROVE  Rest'
<1>1. CASE RootRuns("running") \/ RootHolds \/ RootLate
  <2>1. work' = work /\ handed' = handed /\ placing' = placing
    BY Zenon, <1>1 DEF RootRuns, RootHolds, RootLate, queueVars, claimVars
  <2> QED BY Zenon, <2>1, UnchangedSettles, IdleStep DEF Outside
<1>2. ASSUME NEW w \in Works, Lapse(w) PROVE Rest'
  <2>1. Settles /\ SetRow(w, [work[w] EXCEPT !.lapsed = TRUE])
    BY Zenon, <1>2, LapseStays DEF Lapse
  <2>2. \A u \in Works : work'[u].state = work[u].state /\ work'[u].epoch = work[u].epoch
    BY Zenon, <2>1, Basics DEF SetRow, Rows
  <2> QED BY Zenon, <2>1, <2>2, IdleStep DEF Outside
<1> QED BY Zenon, <1>1, <1>2 DEF Outside

LEMMA ExtendsStep ==
  ASSUME CoordInv, [PoolNext]_poolVars, NEW w \in Works, RecoverExtends(w)
  PROVE  Rest'
<1>1. TokenOf(w).work = w
  BY Zenon, TokenOfRow DEF RecoverExtends, Lapsed
<1>2. SetRow(w, [work[w] EXCEPT !.lapsed = FALSE]) /\ UNCHANGED <<memoryVars, groups>>
  BY Zenon, <1>1 DEF RecoverExtends, extend
<1>3. Settles
  BY Zenon, <1>2, LapseStays
<1>4. \A u \in Works : work'[u].state = work[u].state /\ work'[u].epoch = work[u].epoch
  BY Zenon, <1>2, Basics DEF SetRow, Rows
<1> QED BY Zenon, <1>2, <1>3, <1>4, IdleStep

\* The facts every step below starts from.
LEMMA Known ==
  ASSUME CoordInv
  PROVE  /\ CoordTypeOK /\ RootInv /\ RowInv /\ TokenInv /\ GroupInv /\ RetainInv
         /\ root.stage \notin {"up", "closed"} => slots = {} /\ exits = {} /\ releasing = None /\ lapsing = {} /\ asked = {}
         /\ Up /\ ~root.failure => \A w \in asked : work[w].state = "ready" => work[w].epoch = root.epoch
         /\ asked \subseteq Works
         /\ \A t \in slots : t \in handed /\ t.epoch = root.epoch
         /\ \A x \in exits : /\ x.token \in handed /\ x.token.epoch = root.epoch /\ x.token \in Tokens
                             /\ x.token \in groups => x.stage = "reaping"
         /\ \A t \in lapsing : t \in handed /\ t \notin groups
         /\ releasing # None => /\ releasing.token \in handed /\ releasing.token \notin groups
                                /\ releasing.adopt \in BOOLEAN /\ releasing.token.work \in Works
<1>1. CoordTypeOK /\ RootInv /\ RowInv /\ TokenInv /\ GroupInv /\ RetainInv
  BY Zenon DEF CoordInv, RootInv
<1>2. asked \subseteq Works
  BY Zenon, <1>1 DEF CoordTypeOK
<1>3. Up /\ ~root.failure => \A w \in asked : work[w].state = "ready" => work[w].epoch = root.epoch
  BY Zenon, <1>1, <1>2 DEF RetainInv
<1>4. root.stage \notin {"up", "closed"} => slots = {} /\ exits = {} /\ releasing = None /\ lapsing = {} /\ asked = {}
  BY Zenon, <1>1 DEF RootInv
<1>5. /\ \A t \in slots : t \in handed /\ t.epoch = root.epoch
      /\ \A t \in lapsing : t \in handed /\ t \notin groups
  BY Zenon, <1>1 DEF TokenInv, GroupInv
<1>6. \A x \in exits : /\ x.token \in handed /\ x.token.epoch = root.epoch /\ x.token \in Tokens
                       /\ x.token \in groups => x.stage = "reaping"
  BY Zenon, <1>1, Basics DEF TokenInv, GroupInv
<1>7. ASSUME releasing # None
      PROVE  /\ releasing.token \in handed /\ releasing.token \notin groups
             /\ releasing.adopt \in BOOLEAN /\ releasing.token.work \in Works
  <2>1. releasing.token \in handed /\ releasing.token \notin groups
    BY Zenon, <1>1, <1>7 DEF TokenInv, GroupInv
  <2>2. releasing.adopt \in BOOLEAN
    BY Zenon, <1>1, <1>7 DEF CoordTypeOK, Releases
  <2> QED BY Zenon, <2>1, <2>2, Basics
<1> QED BY Zenon, <1>1, <1>2, <1>3, <1>4, <1>5, <1>6, <1>7

LEMMA GroupsEndStep ==
  ASSUME CoordInv, [PoolNext]_poolVars, NEW t, GroupsEnd(t)
  PROVE  Rest'
<1>1. /\ root' = root /\ kept' = kept /\ retained' = retained /\ held' = held /\ slots' = slots /\ exits' = exits
      /\ releasing' = releasing /\ lapsing' = lapsing /\ asked' = asked /\ base' = base /\ failures' = failures
      /\ groups' \subseteq groups /\ work' = work /\ handed' = handed /\ placing' = placing
  BY Zenon DEF GroupsEnd, memoryVars, poolVars, queueVars, claimVars
<1>2. CoordTypeOK'
  BY Zenon, <1>1, Known DEF CoordTypeOK
<1> QED BY Zenon, <1>1, <1>2, Known, UnchangedSettles, MemoryStep DEF Rest

LEMMA DecidesStep ==
  ASSUME CoordInv, [PoolNext]_poolVars, NEW w \in Works, RecoverDecides(w)
  PROVE  Rest'
<1>1. /\ Up /\ root' = root /\ kept' = kept /\ retained' = retained /\ held' = held /\ slots' = slots
      /\ exits' = exits /\ releasing' = releasing /\ asked' = asked /\ base' = base /\ failures' = failures
      /\ groups' = groups /\ work' = work /\ handed' = handed /\ placing' = placing
      /\ lapsing' = lapsing \cup {TokenOf(w)} /\ TokenOf(w) \notin groups
  BY Zenon DEF RecoverDecides, poolVars, queueVars, claimVars
<1>2. TokenOf(w) \in handed /\ current(TokenOf(w)) /\ TokenOf(w) \in Tokens
  BY Zenon, TokenOfRow, Basics DEF RecoverDecides, Lapsed
<1>3. CoordTypeOK'
  BY Zenon, <1>1, <1>2, Known DEF CoordTypeOK
<1>4. \A t \in lapsing' : t \in lapsing \/ (t \in handed /\ current(t) /\ t \notin groups')
  BY Zenon, <1>1, <1>2
<1> QED BY Zenon, <1>1, <1>3, <1>4, Known, UnchangedSettles, MemoryStep DEF Rest, Up

LEMMA ExitStep ==
  ASSUME CoordInv, [PoolNext]_poolVars, NEW t \in slots, Up, Exit(t), UNCHANGED poolVars
  PROVE  Rest'
<1>1. /\ root' = root /\ kept' = kept /\ retained' = retained
      /\ releasing' = releasing /\ lapsing' = lapsing /\ asked' = asked /\ base' = base /\ failures' = failures
      /\ groups' = groups /\ work' = work /\ handed' = handed /\ placing' = placing
      /\ slots' = slots \ {t} /\ held' = held \cup {t.work} /\ exits' = exits \cup {[token |-> t, stage |-> "reaping"]}
  BY Zenon DEF Exit, poolVars, queueVars, claimVars
<1>2. t \in Tokens /\ t.work \in Works
  BY Zenon, Known, Basics
<1>3. [token |-> t, stage |-> "reaping"] \in [token : Tokens, stage : {"reaping", "settling", "replaced"}]
  BY Zenon, <1>2
<1>4. CoordTypeOK'
  BY Zenon, <1>1, <1>2, <1>3, Known DEF CoordTypeOK
<1>5. \A x \in exits' : x \in exits \/ (x.token \in slots /\ x.stage = "reaping")
  BY <1>1
<1>6. \A g \in slots : g \in slots' \/ \E x \in exits' : x.token = g
  <2> DEFINE x == [token |-> t, stage |-> "reaping"]
  <2>1. x.token = t /\ x \in exits'
    BY Zenon, <1>1
  <2> HIDE DEF x
  <2> QED BY Zenon, <1>1, <2>1
<1> QED BY Zenon, <1>1, <1>4, <1>5, <1>6, Known, UnchangedSettles, MemoryStep DEF Rest, Up

\* A clean-up moves on, its attempt having no process groups (any more).
LEMMA Advanced ==
  ASSUME CoordInv, NEW x \in exits, NEW stage \in {"settling", "replaced", "done"}, Advance(x, stage)
  PROVE  /\ exits' \subseteq [token : Tokens, stage : {"reaping", "settling", "replaced"}]
         /\ \A y \in exits' : y \in exits \/ y.token = x.token
         /\ \A y \in exits : y \in exits' \/ y.token = x.token
<1> DEFINE new == [token |-> x.token, stage |-> stage]
<1>1. exits' = (exits \ {x}) \cup (IF stage = "done" THEN {} ELSE {new})
  BY Zenon DEF Advance
<1>2. exits \subseteq [token : Tokens, stage : {"reaping", "settling", "replaced"}]
  BY Zenon, Known DEF CoordTypeOK
<1>3. stage # "done" => new \in [token : Tokens, stage : {"reaping", "settling", "replaced"}]
  BY Zenon, <1>2
<1>4. new.token = x.token
  OBVIOUS
<1> HIDE DEF new
<1> QED BY Zenon, <1>1, <1>2, <1>3, <1>4

LEMMA ReapedStep ==
  ASSUME CoordInv, [PoolNext]_poolVars, NEW x \in exits, ExitReaped(x)
  PROVE  Rest'
<1>1. /\ root' = root /\ kept' = kept /\ retained' = retained /\ slots' = slots
      /\ releasing' = releasing /\ lapsing' = lapsing /\ asked' = asked /\ base' = base /\ failures' = failures
      /\ groups' = groups \ {x.token} /\ work' = work /\ handed' = handed /\ placing' = placing
      /\ held' = held \ {x.token.work} /\ Advance(x, "settling")
  BY Zenon DEF ExitReaped, poolVars, queueVars, claimVars
<1>2. /\ exits' \subseteq [token : Tokens, stage : {"reaping", "settling", "replaced"}]
      /\ \A y \in exits' : y \in exits \/ y.token = x.token
      /\ \A y \in exits : y \in exits' \/ y.token = x.token
  BY Zenon, <1>1, Advanced
<1>3. CoordTypeOK'
  BY Zenon, <1>1, <1>2, Known DEF CoordTypeOK
<1>4. \A y \in exits' : y \in exits \/ (y.token \notin groups' /\ \E z \in exits : z.token = y.token)
  BY Zenon, <1>1, <1>2
<1>5. \A y \in exits : y \in exits' \/ y.token \notin groups'
  BY Zenon, <1>1, <1>2
<1>6. root.stage \in {"up", "closed"}
  BY Zenon, Known
<1> QED BY Zenon, <1>1, <1>3, <1>4, <1>5, <1>6, Known, UnchangedSettles, MemoryStep DEF Rest

\* The later stages of a clean-up: the rows settle, the attempt has no groups.
LEMMA ExitAdvances ==
  ASSUME CoordInv, [PoolNext]_poolVars, NEW x \in exits, x.stage # "reaping", Settles,
         NEW stage \in {"replaced", "done"}, Advance(x, stage), failures' \subseteq Works,
         Up /\ ~root.failure => \A w \in asked : work'[w].state = "ready" => work'[w].epoch = root.epoch,
         UNCHANGED <<root, kept, retained, held, slots, releasing, lapsing, asked, base, groups>>
  PROVE  Rest'
<1>1. /\ root' = root /\ kept' = kept /\ retained' = retained /\ held' = held /\ slots' = slots
      /\ releasing' = releasing /\ lapsing' = lapsing /\ asked' = asked /\ base' = base /\ groups' = groups
  OBVIOUS
<1>2. /\ exits' \subseteq [token : Tokens, stage : {"reaping", "settling", "replaced"}]
      /\ \A y \in exits' : y \in exits \/ y.token = x.token
      /\ \A y \in exits : y \in exits' \/ y.token = x.token
  BY Zenon, Advanced
<1>3. CoordTypeOK'
  BY Zenon, <1>1, <1>2, Known DEF CoordTypeOK
<1>4. x.token \notin groups
  BY Zenon, Known
<1>5. \A y \in exits' : y \in exits \/ (y.token \notin groups' /\ \E z \in exits : z.token = y.token)
  BY Zenon, <1>1, <1>2, <1>4
<1>6. \A y \in exits : y \in exits' \/ y.token \notin groups'
  BY Zenon, <1>1, <1>2, <1>4
<1>7. root.stage \in {"up", "closed"}
  BY Zenon, Known
<1> QED BY Zenon, <1>1, <1>3, <1>5, <1>6, <1>7, Known, MemoryStep DEF Rest

\* The release or failure of an attempt of this coordinator.
LEMMA SettledExit ==
  ASSUME CoordInv, NEW t \in handed, t.epoch = root.epoch, t \notin groups, NEW state \in {"ready", "failed"},
         settleExited(Lease, t, state)
  PROVE  /\ Settles
         /\ Up /\ ~root.failure => \A w \in asked : work'[w].state = "ready" => work'[w].epoch = root.epoch
<1>1. current(t) /\ work[t.work].epoch = root.epoch /\ SetRow(t.work, Released(work[t.work], state, work[t.work].epoch))
  BY Zenon DEF settleExited, current
<1>2. /\ Settles
      /\ work'[t.work].epoch = root.epoch
      /\ \A w \in Works : w # t.work => work'[w] = work[w]
  BY Zenon, <1>1, ReleaseSettles
<1> QED BY Zenon, <1>2, Known

LEMMA SettlesStep ==
  ASSUME CoordInv, [PoolNext]_poolVars, NEW x \in exits, ExitSettles(x)
  PROVE  Rest'
<1> DEFINE t == x.token
           exhausted == attempts(t) >= AttemptLimit
<1>0. /\ x.stage = "settling" /\ UNCHANGED <<root, kept, retained, held, slots, releasing, lapsing, asked, base, groups>>
      /\ t \in handed /\ t.work \in Works /\ t.epoch = root.epoch /\ t \notin groups /\ failures \subseteq Works
  BY Zenon, Known, Basics DEF ExitSettles, CoordTypeOK
<1>1. ASSUME UNCHANGED <<poolVars, failures>>, NEW stage \in {"replaced", "done"}, Advance(x, stage) PROVE Rest'
  <2>1. work' = work /\ handed' = handed /\ placing' = placing /\ failures' = failures
    BY Zenon, <1>1 DEF poolVars, queueVars, claimVars
  <2> QED BY Zenon, <1>0, <1>1, <2>1, Known, UnchangedSettles, ExitAdvances
<1>2. ASSUME settleExited(Lease, t, IF exhausted THEN "failed" ELSE "ready"), Advance(x, "done"),
             failures' = IF exhausted THEN failures \cup {t.work} ELSE failures
      PROVE  Rest'
  <2>1. failures' \subseteq Works
    BY Zenon, <1>0, <1>2
  <2>2. PICK state \in {"ready", "failed"} : settleExited(Lease, t, state)
    BY Zenon, <1>2
  <2>3. /\ Settles
        /\ Up /\ ~root.failure => \A w \in asked : work'[w].state = "ready" => work'[w].epoch = root.epoch
    BY Zenon, <1>0, <2>2, SettledExit
  <2> QED BY Zenon, <1>0, <1>2, <2>1, <2>3, ExitAdvances
<1> QED BY Zenon, <1>1, <1>2 DEF ExitSettles

LEMMA ReportsStep ==
  ASSUME CoordInv, [PoolNext]_poolVars, NEW x \in exits, ExitReports(x)
  PROVE  Rest'
<1>1. /\ x.stage = "replaced" /\ Advance(x, "done") /\ work' = work /\ handed' = handed /\ placing' = placing
      /\ UNCHANGED <<root, kept, retained, held, slots, releasing, lapsing, asked, base, groups>>
  BY Zenon DEF ExitReports, poolVars, queueVars, claimVars
<1>2. failures \subseteq Works /\ x.token.work \in Works
  BY Zenon, Known, Basics DEF CoordTypeOK
<1>3. failures' \subseteq Works
  BY Zenon, <1>2 DEF ExitReports
<1> QED BY Zenon, <1>1, <1>3, Known, UnchangedSettles, ExitAdvances

\* A worker's attempt ends, its own processes having ended.
LEMMA SlotEnds ==
  ASSUME CoordInv, [PoolNext]_poolVars, NEW t \in slots, t \notin groups, Up, Settles, failures' \subseteq Works,
         Up /\ ~root.failure => \A w \in asked : work'[w].state = "ready" => work'[w].epoch = root.epoch,
         slots' = slots \ {t}, UNCHANGED <<root, kept, retained, held, exits, releasing, lapsing, asked, base, groups>>
  PROVE  Rest'
<1>1. /\ root' = root /\ kept' = kept /\ retained' = retained /\ held' = held /\ exits' = exits
      /\ releasing' = releasing /\ lapsing' = lapsing /\ asked' = asked /\ base' = base /\ groups' = groups
  OBVIOUS
<1>2. CoordTypeOK'
  BY Zenon, <1>1, Known DEF CoordTypeOK
<1> QED BY Zenon, <1>1, <1>2, Known, MemoryStep DEF Rest, Up

LEMMA FencedStep ==
  ASSUME CoordInv, [PoolNext]_poolVars, NEW t \in slots, Fenced(t)
  PROVE  Rest'
<1> DEFINE exhausted == attempts(t) >= AttemptLimit
<1>0. /\ Up /\ t \notin groups /\ slots' = slots \ {t} /\ t \in handed /\ t.epoch = root.epoch /\ t.work \in Works
      /\ UNCHANGED <<root, kept, retained, held, exits, releasing, lapsing, asked, base, groups>>
      /\ failures \subseteq Works
  BY Zenon, Known, Basics DEF Fenced, CoordTypeOK
<1>1. ASSUME UNCHANGED <<poolVars, failures>> PROVE Rest'
  <2>1. work' = work /\ handed' = handed /\ placing' = placing /\ failures' = failures
    BY Zenon, <1>1 DEF poolVars, queueVars, claimVars
  <2> QED BY Zenon, <1>0, <2>1, Known, UnchangedSettles, SlotEnds
<1>2. ASSUME settleExited(Lease, t, IF exhausted THEN "failed" ELSE "ready"),
             failures' = IF exhausted THEN failures \cup {t.work} ELSE failures
      PROVE  Rest'
  <2>1. failures' \subseteq Works
    BY Zenon, <1>0, <1>2
  <2>2. PICK state \in {"ready", "failed"} : settleExited(Lease, t, state)
    BY Zenon, <1>2
  <2>3. /\ Settles
        /\ Up /\ ~root.failure => \A w \in asked : work'[w].state = "ready" => work'[w].epoch = root.epoch
    BY Zenon, <1>0, <2>2, SettledExit
  <2> QED BY Zenon, <1>0, <2>1, <2>3, SlotEnds
<1> QED BY Zenon, <1>1, <1>2 DEF Fenced

LEMMA CompleteStep ==
  ASSUME CoordInv, [PoolNext]_poolVars, NEW t \in slots, NEW r \in Results, Complete(t, r)
  PROVE  Rest'
<1>1. /\ Up /\ t \notin groups /\ slots' = slots \ {t} /\ t \in handed /\ t.work \in Works /\ current(t)
      /\ UNCHANGED <<root, kept, retained, held, exits, releasing, lapsing, asked, base, groups>>
      /\ failures' = failures /\ failures \subseteq Works /\ handed' = handed /\ placing' = placing
      /\ work' = [work EXCEPT ![t.work].state = "completed"]
  BY Zenon, Known, Basics DEF Complete, complete, CoordTypeOK, claimVars
<1> DEFINE row == [work[t.work] EXCEPT !.state = "completed"]
<1>2. row.state = "completed" /\ row.epoch = work[t.work].epoch
  BY Zenon, <1>1, Basics DEF Rows
<1>3. work' = [work EXCEPT ![t.work] = row]
  BY Zenon, <1>1
<1> HIDE DEF row
<1>4. Settles
  BY Zenon, <1>1, <1>2, <1>3, NoOtherGroups, OneSettles
<1>5. \A w \in Works : work'[w].state = "ready" => work'[w] = work[w]
  BY Zenon, <1>1, <1>2, <1>3, Basics
<1>6. Up /\ ~root.failure => \A w \in asked : work'[w].state = "ready" => work'[w].epoch = root.epoch
  BY Zenon, <1>5, Known
<1> QED BY Zenon, <1>1, <1>4, <1>6, SlotEnds

LEMMA ExpiresStep ==
  ASSUME CoordInv, [PoolNext]_poolVars, NEW t \in lapsing, RecoverExpires(t)
  PROVE  Rest'
<1>0. /\ root' = root /\ kept' = kept /\ retained' = retained /\ held' = held /\ slots' = slots /\ exits' = exits
      /\ releasing' = releasing /\ asked' = asked /\ base' = base /\ failures' = failures /\ groups' = groups
      /\ lapsing' = lapsing \ {t} /\ t.epoch = root.epoch /\ t \in handed /\ t \notin groups
  BY Zenon, Known DEF RecoverExpires
<1>1. CoordTypeOK'
  BY Zenon, <1>0, Known DEF CoordTypeOK
<1>2. /\ Settles
      /\ Up /\ ~root.failure => \A w \in asked : work'[w].state = "ready" => work'[w].epoch = root.epoch
  <2>1. CASE UNCHANGED poolVars
    <3>1. work' = work /\ handed' = handed /\ placing' = placing
      BY Zenon, <2>1 DEF poolVars, queueVars, claimVars
    <3> QED BY Zenon, <3>1, Known, UnchangedSettles
  <2>2. CASE expire(Lease, t)
    <3>1. /\ current(t) /\ work[t.work].epoch = root.epoch
          /\ SetRow(t.work, Released(work[t.work], "ready", work[t.work].epoch))
      BY Zenon, <2>2, <1>0 DEF expire, current
    <3>2. /\ Settles
          /\ work'[t.work].epoch = root.epoch
          /\ \A w \in Works : w # t.work => work'[w] = work[w]
      BY Zenon, <1>0, <3>1, ReleaseSettles
    <3> QED BY Zenon, <3>2, Known
  <2> QED BY Zenon, <2>1, <2>2 DEF RecoverExpires
<1>3. root.stage \in {"up", "closed"}
  BY Zenon, Known
<1> QED BY Zenon, <1>0, <1>1, <1>2, <1>3, Known, MemoryStep DEF Rest

LEMMA FinishStep ==
  ASSUME CoordInv, [PoolNext]_poolVars, FinishRelease
  PROVE  Rest'
<1>0. /\ root' = root /\ kept' = kept /\ retained' = retained /\ slots' = slots /\ exits' = exits
      /\ lapsing' = lapsing /\ asked' = asked /\ base' = base /\ failures' = failures /\ groups' = groups
      /\ releasing # None /\ releasing' = None /\ held' = held \ {releasing.token.work}
  BY Zenon DEF FinishRelease
<1>1. CoordTypeOK'
  BY Zenon, <1>0, Known DEF CoordTypeOK
<1>2. root.stage \in {"up", "closed"}
  BY Zenon, <1>0, Known
<1>3. PICK t \in handed : t = releasing.token
  BY Zenon, <1>0, Known
<1>4. t \notin groups /\ t.work \in Works /\ releasing.adopt \in BOOLEAN
  BY Zenon, <1>0, <1>3, Known
<1>5. ASSUME Settles, \A w \in Works : Old(w)' => w # t.work,
             Up /\ ~root.failure => \A w \in asked : work'[w].state = "ready" => work'[w].epoch = root.epoch
      PROVE  Rest'
  BY Zenon, <1>0, <1>1, <1>2, <1>3, <1>5, Known, MemoryStep DEF Rest
<1>6. CASE ~current(t) /\ UNCHANGED poolVars
  <2>1. work' = work /\ handed' = handed /\ placing' = placing
    BY Zenon, <1>6 DEF poolVars, queueVars, claimVars
  <2>2. ~Old(t.work)
    BY Zenon, <1>0, <1>3, <1>6, Known DEF RetainInv
  <2>3. \A w \in Works : Old(w)' => w # t.work
    BY Zenon, <1>0, <2>1, <2>2 DEF Old
  <2> QED BY Zenon, <1>5, <2>1, <2>3, Known, UnchangedSettles
<1>7. CASE releaseRetained(Lease, t, releasing.adopt)
  <2> DEFINE e == IF releasing.adopt THEN root.epoch ELSE t.epoch
  <2>1. current(t) /\ t.epoch < root.epoch /\ SetRow(t.work, Released(work[t.work], "ready", e))
    BY Zenon, <1>7 DEF releaseRetained, Lease
  <2>2. Old(t.work) /\ work[t.work].epoch = t.epoch
    BY Zenon, <2>1 DEF Old, current
  <2>3. releasing.adopt => t.work \in asked
    BY Zenon, <1>0, <1>3, Known DEF RetainInv
  <2>4. e = work[t.work].epoch \/ (e = root.epoch /\ t.work \in asked')
    BY Zenon, <1>0, <1>4, <2>2, <2>3
  <2>5. Up /\ ~root.failure /\ t.work \in asked => e = root.epoch
    <3>1. retained[t.work] = "no"
      BY Zenon, <1>0, <1>3, Known DEF RetainInv
    <3>2. Up /\ ~root.failure /\ t.work \in asked => releasing.adopt
      BY Zenon, <1>0, <1>3, <1>4, <2>2, <3>1, Known DEF RetainInv
    <3> QED BY Zenon, <3>2
  <2> HIDE DEF e
  <2>6. /\ Settles
        /\ work'[t.work].state = "ready" /\ work'[t.work].epoch = e
        /\ \A w \in Works : w # t.work => work'[w] = work[w]
    BY Zenon, <1>4, <2>1, <2>4, ReleaseSettles
  <2>7. \A w \in Works : Old(w)' => w # t.work
    BY Zenon, <2>6 DEF Old
  <2>8. Up /\ ~root.failure => \A w \in asked : work'[w].state = "ready" => work'[w].epoch = root.epoch
    BY Zenon, <2>5, <2>6, Known
  <2> QED BY Zenon, <1>5, <2>6, <2>7, <2>8
<1> QED BY Zenon, <1>3, <1>6, <1>7 DEF FinishRelease

LEMMA ReopenStep ==
  ASSUME CoordInv, [PoolNext]_poolVars, NEW w \in Works, Reopen(w)
  PROVE  Rest'
<1>1. /\ Up /\ root' = root /\ kept' = kept /\ retained' = retained /\ held' = held /\ slots' = slots
      /\ exits' = exits /\ releasing' = releasing /\ lapsing' = lapsing /\ asked' = asked /\ failures' = failures
      /\ groups' = groups /\ base' = [base EXCEPT ![w] = work[w].generation] /\ w \in asked
      /\ work[w].state = "completed" /\ handed' = handed /\ placing' = placing
      /\ work' = [work EXCEPT ![w] = Released(work[w], "ready", root.epoch)]
  BY Zenon DEF Reopen, reopenCompleted, claimVars, Lease
<1>2. CoordTypeOK'
  BY Zenon, <1>1, Known, Basics DEF CoordTypeOK
<1> DEFINE row == Released(work[w], "ready", root.epoch)
<1>3. row.state = "ready" /\ row.epoch = root.epoch
  BY Basics, ReleasedRow
<1> HIDE DEF row
<1>4. \A g \in groups : g.work # w
  BY Zenon, <1>1, Known DEF GroupInv, current
<1>5. Settles
  BY Zenon, <1>1, <1>3, <1>4, OneSettles DEF row
<1>6. Up /\ ~root.failure => \A u \in asked : work'[u].state = "ready" => work'[u].epoch = root.epoch
  BY Zenon, <1>1, <1>3, Known, Basics DEF row
<1> QED BY Zenon, <1>1, <1>2, <1>5, <1>6, Known, MemoryStep DEF Rest, Up

-----------------------------------------------------------------------------
(* Retained attempts *)

LEMMA FailStep ==
  ASSUME CoordInv, [PoolNext]_poolVars, FailRelease
  PROVE  Rest'
<1>0. /\ kept' = kept /\ retained' = retained /\ slots' = slots /\ exits' = exits
      /\ lapsing' = lapsing /\ asked' = asked /\ base' = base /\ failures' = failures /\ groups' = groups
      /\ releasing # None /\ releasing' = None /\ held' = held \ {releasing.token.work}
      /\ root' = [root EXCEPT !.failure = TRUE]
      /\ work' = work /\ handed' = handed /\ placing' = placing
  BY Zenon DEF FailRelease, poolVars, queueVars, claimVars
<1>1. /\ root'.holder = root.holder /\ root'.epoch = root.epoch /\ root'.stage = root.stage /\ root'.failure = TRUE
      /\ root' \in [holder : Holders \cup {Unheld}, epoch : Nat, stage : Stages, failure : BOOLEAN]
  BY Zenon, <1>0, Known DEF CoordTypeOK
<1>2. CoordTypeOK'
  BY Zenon, <1>0, <1>1, Known DEF CoordTypeOK
<1>3. SameRoot /\ root.stage \in {"up", "closed"} /\ asked \subseteq asked'
  BY Zenon, <1>0, <1>1, Known DEF SameRoot
<1>4. RootInv'
  BY Zenon, <1>0, <1>1, <1>2, <1>3, RootKept
<1>5. /\ RowInv'
      /\ \A g \in groups : current(g)'
      /\ \A w \in Works : Old(w)' => Old(w)
      /\ \A t \in handed : Old(t.work)' /\ current(t) => current(t)'
  BY Zenon, <1>0, <1>3, UnchangedSettles, SettledRows
<1>6. TokenInv'
  BY Zenon, <1>0, <1>3, Known, TokensKept
<1>7. GroupInv'
  BY Zenon, <1>0, <1>1, <1>3, <1>5, GroupsKept
<1>8. RetainInv'
  <2>1. Up' => Up
    BY Zenon, <1>1 DEF Up
  <2> QED BY Zenon, <1>0, <1>1, <1>3, <1>5, <2>1, RetainKept
<1> QED BY Zenon, <1>4, <1>5, <1>6, <1>7, <1>8 DEF Rest

\* The record of a retained attempt becomes its release, which knows whether
\* the root asked for the child.
LEMMA BegunRetain ==
  ASSUME CoordInv, root.stage \in {"up", "closed"}, root' = root, work' = work, handed' = handed, asked' = asked,
         NEW t \in kept \cup lapsing, NEW by \in {"reap", "recovery"}, BeginRelease(t, by), kept' \subseteq kept, lapsing' \subseteq lapsing
  PROVE  RetainInv'
<1>1. /\ releasing = None
      /\ releasing' = [token |-> t, adopt |-> retained[t.work] = "asked", by |-> by]
      /\ retained' = [retained EXCEPT ![t.work] = "no"]
  BY Zenon DEF BeginRelease
<1>2. /\ releasing'.token = t /\ releasing'.adopt = (retained[t.work] = "asked")
  BY Zenon, <1>1
<1>3. t \in handed /\ t.work \in Works /\ retained \in [Works -> {"no", "retained", "asked"}] /\ RetainInv
  BY Zenon, Known, Basics DEF TokenInv, CoordTypeOK
<1>4. retained'[t.work] = "no" /\ \A w \in Works : w # t.work => retained'[w] = retained[w]
  BY Zenon, <1>1, <1>3
<1>5. \A u \in kept' \cup lapsing' : Old(u.work)' => current(u)'
  BY Zenon, <1>3 DEF RetainInv, Old, current
<1>6. \A w \in Works : retained'[w] = "asked" => w \in asked'
  BY Zenon, <1>3, <1>4 DEF RetainInv
<1>7. /\ retained'[releasing'.token.work] = "no"
      /\ releasing'.adopt => releasing'.token.work \in asked'
      /\ (Old(releasing.token.work) => current(releasing.token))'
  <2>1. Old(t.work) => current(t)
    BY Zenon, <1>3 DEF RetainInv
  <2> QED BY Zenon, <1>2, <1>3, <1>4, <2>1 DEF RetainInv, Old, current
<1>8. ASSUME Up, ~root.failure, NEW w \in Works, Old(w)
      PROVE  \/ retained'[w] # "no" /\ (w \in asked' => retained'[w] = "asked")
             \/ releasing'.token.work = w /\ (w \in asked' => releasing'.adopt)
  <2>1. retained[w] # "no" /\ (w \in asked => retained[w] = "asked")
    BY Zenon, <1>1, <1>3, <1>8 DEF RetainInv
  <2> QED BY Zenon, <1>2, <1>4, <2>1
<1>9. Up /\ ~root.failure => \A w \in Works : w \in asked' /\ work'[w].state = "ready" => work'[w].epoch = root'.epoch
  BY Zenon, <1>3 DEF RetainInv
<1>10. root'.stage # "released" /\ Up' = Up /\ \A w \in Works : Old(w)' <=> Old(w)
  BY Zenon DEF Up, Old
<1>11. releasing' # None
  <2>1. releasing' \in Releases
    BY <1>1, Basics, <1>3 DEF Releases, BeginRelease
  <2> QED BY Zenon, <2>1, CoordinatorAssumption
<1> QED BY Zenon, <1>5, <1>6, <1>7, <1>8, <1>9, <1>10, <1>11 DEF RetainInv

LEMMA BegunStep ==
  ASSUME CoordInv, [PoolNext]_poolVars, root.stage \in {"up", "closed"},
         NEW t \in kept \cup lapsing, NEW by \in {"reap", "recovery"}, BeginRelease(t, by),
         kept' \subseteq kept, lapsing' \subseteq lapsing, groups' \subseteq groups, t \notin groups',
         UNCHANGED <<poolVars, root, held, slots, exits, asked, base, failures>>
  PROVE  Rest'
<1>0. /\ root' = root /\ held' = held /\ slots' = slots /\ exits' = exits /\ asked' = asked
      /\ base' = base /\ failures' = failures /\ work' = work /\ handed' = handed /\ placing' = placing
  BY Zenon DEF poolVars, queueVars, claimVars
<1>1. t \in handed /\ t \in Tokens /\ t.work \in Works
  BY Zenon, Known, Basics DEF TokenInv
<1>2. releasing' \in Releases /\ releasing'.token = t /\ retained' \in [Works -> {"no", "retained", "asked"}]
  BY Zenon, <1>1, Known DEF BeginRelease, Releases, CoordTypeOK
<1>3. CoordTypeOK'
  BY Zenon, <1>0, <1>2, Known DEF CoordTypeOK
<1>4. SameRoot /\ asked \subseteq asked'
  BY Zenon, <1>0 DEF SameRoot
<1>5. RootInv'
  BY Zenon, <1>0, <1>3, <1>4, RootKept
<1>6. RowInv' /\ \A g \in groups : current(g)'
  BY Zenon, <1>0, <1>4, UnchangedSettles, SettledRows
<1>7. TokenInv'
  <2>1. lapsing' \subseteq handed
    BY Zenon, Known
  <2> QED BY Zenon, <1>0, <1>1, <1>2, <1>4, <2>1, TokensKept
<1>8. GroupInv'
  BY Zenon, <1>0, <1>2, <1>4, <1>6, GroupsKept
<1>9. RetainInv'
  BY Zenon, <1>0, BegunRetain
<1> QED BY Zenon, <1>5, <1>6, <1>7, <1>8, <1>9 DEF Rest

LEMMA ReapRetainedStep ==
  ASSUME CoordInv, [PoolNext]_poolVars, NEW t \in kept, ReapRetained(t)
  PROVE  Rest'
<1>0. /\ Up /\ kept' = kept \ {t} /\ UNCHANGED poolVars
      /\ root' = root /\ slots' = slots /\ exits' = exits /\ lapsing' = lapsing /\ asked' = asked
      /\ base' = base /\ failures' = failures /\ work' = work /\ handed' = handed /\ placing' = placing
  BY Zenon DEF ReapRetained, poolVars, queueVars, claimVars
<1>1. CASE BeginRelease(t, "reap") /\ groups' = groups \ {t} /\ held' = held
  BY Zenon, <1>0, <1>1, BegunStep DEF Up
<1>2. CASE held' = held \ {t.work} /\ releasing' = releasing /\ retained' = retained /\ groups' = groups
  <2>1. CoordTypeOK'
    BY Zenon, <1>0, <1>2, Known DEF CoordTypeOK
  <2>2. SameRoot /\ asked \subseteq asked' /\ (Up' <=> Up)
    BY Zenon, <1>0 DEF SameRoot, Up
  <2>3. RootInv'
    BY Zenon, <1>0, <1>2, <2>1, <2>2, RootKept DEF Up
  <2>4. /\ RowInv'
        /\ \A g \in groups : current(g)'
        /\ \A w \in Works : Old(w)' => Old(w)
        /\ \A u \in handed : Old(u.work)' /\ current(u) => current(u)'
    BY Zenon, <1>0, <2>2, UnchangedSettles, SettledRows
  <2>5. TokenInv'
    BY Zenon, <1>0, <1>2, <2>2, Known, TokensKept
  <2>6. GroupInv'
    BY Zenon, <1>0, <1>2, <2>2, <2>4, GroupsKept DEF Up
  <2>7. RetainInv'
    BY Zenon, <1>0, <1>2, <2>2, <2>4, Known, RetainKept DEF Up
  <2> QED BY Zenon, <2>3, <2>4, <2>5, <2>6, <2>7 DEF Rest
<1> QED BY Zenon, <1>1, <1>2 DEF ReapRetained

LEMMA RecoverReleasesStep ==
  ASSUME CoordInv, [PoolNext]_poolVars, NEW t \in lapsing, RecoverReleases(t)
  PROVE  Rest'
<1>1. root.stage \in {"up", "closed"} /\ t \notin groups
  BY Zenon, Known
<1> QED BY Zenon, <1>1, BegunStep DEF RecoverReleases

-----------------------------------------------------------------------------
(* Enqueues *)

\* The row of an enqueued child waits for a claim of this incarnation, or keeps
\* its attempt.
LEMMA EnqueuedRows ==
  ASSUME CoordInv, NEW w \in Works, NEW d, NEW p, NEW accept,
         enqueueNew(Lease, w, d, p, {}) \/ enqueueAgain(Lease, w, d, accept, {})
  PROVE  \E row : /\ work' = [work EXCEPT ![w] = row] /\ handed' = handed /\ placing' = placing
                  /\ row.generation = work[w].generation
                  /\ \/ RowStays(work[w], row) /\ (row.state = "ready" => row.epoch = root.epoch)
                     \/ /\ row.state = "ready" /\ row.epoch = root.epoch
                        /\ work[w].state # "leased"
<1>0. work[w] \in Rows /\ work[w].epoch \in Nat /\ root.epoch \in Nat /\ work[w].epoch <= root.epoch
  BY Zenon, Basics, Known DEF RowInv
<1>1. CASE enqueueNew(Lease, w, d, p, {})
  <2> DEFINE row == [work[w] EXCEPT !.state = "ready", !.epoch = root.epoch, !.descriptor = d]
  <2>1. work' = [work EXCEPT ![w] = row] /\ work[w].state = "none" /\ handed' = handed /\ placing' = placing
    BY Zenon, <1>1 DEF enqueueNew, claimVars, Lease
  <2>2. row.state = "ready" /\ row.epoch = root.epoch /\ row.generation = work[w].generation
    BY Zenon, <1>0 DEF Rows
  <2> HIDE DEF row
  <2> QED BY Zenon, <2>1, <2>2
<1>2. CASE enqueueAgain(Lease, w, d, accept, {})
  <2> DEFINE new == [work[w] EXCEPT !.state = "ready", !.epoch = root.epoch, !.descriptor = d]
             old == [work[w] EXCEPT !.descriptor = d]
             again == work[w].state \in {"ready", "failed"} /\ work[w].epoch < root.epoch
             row == IF again THEN new ELSE old
  <2>1. work' = [work EXCEPT ![w] = row] /\ handed' = handed /\ placing' = placing
    BY Zenon, <1>2 DEF enqueueAgain, claimVars, Lease
  <2>2. new.state = "ready" /\ new.epoch = root.epoch /\ new.generation = work[w].generation
    BY Zenon, <1>0 DEF Rows
  <2>3. RowStays(work[w], old) /\ old.generation = work[w].generation
    BY Zenon, <1>0 DEF Rows, RowStays
  <2> HIDE DEF new, old
  <2>4. CASE again
    <3>1. row = new
      BY Zenon, <2>4
    <3> HIDE DEF row
    <3> QED BY Zenon, <2>1, <2>2, <2>4, <3>1
  <2>5. CASE ~again
    <3>1. row = old /\ (old.state = "ready" => old.epoch = root.epoch)
      BY <1>0, <2>3, <2>5 DEF RowStays
    <3> HIDE DEF row
    <3> QED BY Zenon, <2>1, <2>3, <3>1
  <2> QED BY Zenon, <2>4, <2>5
<1> QED BY Zenon, <1>1, <1>2

LEMMA EnqueueStep ==
  ASSUME CoordInv, [PoolNext]_poolVars, NEW w \in Works, NEW d, NEW p, NEW accept, enqueue(w, d, p, accept)
  PROVE  Rest'
<1>0. /\ Up /\ releasing = None /\ asked' = asked \cup {w}
      /\ root' = root /\ kept' = kept /\ held' = held /\ slots' = slots /\ exits' = exits
      /\ releasing' = releasing /\ lapsing' = lapsing /\ failures' = failures /\ groups' = groups
      /\ retained' = [retained EXCEPT ![w] = IF @ = "no" THEN @ ELSE "asked"]
  BY Zenon DEF enqueue, Enqueued
<1>1. PICK row : /\ work' = [work EXCEPT ![w] = row] /\ handed' = handed /\ placing' = placing
                 /\ row.generation = work[w].generation
                 /\ \/ RowStays(work[w], row) /\ (row.state = "ready" => row.epoch = root.epoch)
                    \/ /\ row.state = "ready" /\ row.epoch = root.epoch
                       /\ work[w].state # "leased"
  BY Zenon, EnqueuedRows DEF enqueue
<1>2. work'[w] = row /\ \A u \in Works : u # w => work'[u] = work[u]
  BY Zenon, <1>1, Basics
<1>3. /\ retained \in [Works -> {"no", "retained", "asked"}] /\ asked \subseteq Works
      /\ base \in [Works -> Nat \cup {None}] /\ work[w].generation \in Nat
  BY Zenon, Known, Basics DEF CoordTypeOK
<1>4. CoordTypeOK'
  <2>1. base' \in [Works -> Nat \cup {None}]
    BY Zenon, <1>1, <1>2, <1>3 DEF enqueue, Enqueued
  <2>2. retained' \in [Works -> {"no", "retained", "asked"}] /\ asked' \subseteq Works
    BY Zenon, <1>0, <1>3
  <2> QED BY Zenon, <1>0, <2>1, <2>2, Known DEF CoordTypeOK
<1>5. Settles
  <2>1. work[w].state # "leased" => \A g \in groups : g.work # w
    BY Zenon, Known DEF GroupInv, current
  <2> QED BY Zenon, <1>0, <1>1, <2>1, OneSettles
<1>6. SameRoot /\ asked \subseteq asked'
  BY Zenon, <1>0 DEF SameRoot
<1>7. RootInv'
  BY Zenon, <1>0, <1>1, <1>4, <1>6, RootKept DEF Up
<1>8. /\ RowInv'
      /\ \A g \in groups : current(g)'
      /\ \A u \in Works : Old(u)' => Old(u)
      /\ \A t \in handed : Old(t.work)' /\ current(t) => current(t)'
  BY Zenon, <1>5, <1>6, SettledRows
<1>9. TokenInv'
  BY Zenon, <1>0, <1>1, <1>6, Known, TokensKept
<1>10. GroupInv'
  BY Zenon, <1>0, <1>1, <1>6, <1>8, GroupsKept
<1>11. RetainInv'
  <2>1. /\ retained'[w] = (IF retained[w] = "no" THEN "no" ELSE "asked")
        /\ \A u \in Works : u # w => retained'[u] = retained[u]
    BY Zenon, <1>0, <1>3
  <2>2. \A t \in kept' \cup lapsing' : Old(t.work)' => current(t)'
    <3>1. \A t \in kept \cup lapsing : t \in handed /\ t.work \in Works
      BY Zenon, Known, Basics DEF TokenInv
    <3>2. \A t \in kept \cup lapsing : Old(t.work) => current(t)
      BY Zenon, Known DEF RetainInv
    <3> QED BY Zenon, <1>0, <1>8, <3>1, <3>2
  <2>3. \A u \in Works : retained'[u] = "asked" => u \in asked'
    BY Zenon, <1>0, <2>1, Known DEF RetainInv
  <2>4. ASSUME ~root.failure, NEW u \in Works
        PROVE  /\ Old(u)' => retained'[u] # "no" /\ (u \in asked' => retained'[u] = "asked")
               /\ u \in asked' /\ work'[u].state = "ready" => work'[u].epoch = root.epoch
    <3>1. Old(u) => retained[u] # "no" /\ (u \in asked => retained[u] = "asked")
      BY Zenon, <1>0, <2>4, Known DEF RetainInv
    <3>2. u \in asked /\ work[u].state = "ready" => work[u].epoch = root.epoch
      BY Zenon, <1>0, <2>4, Known
    <3>3. work'[w].state = "ready" => work'[w].epoch = root.epoch
      BY Zenon, <1>1, <1>2
    <3> QED BY <1>0, <1>2, <1>8, <2>1, <3>1, <3>2, <3>3
  <2>5. releasing' = None /\ root'.stage # "released"
    BY Zenon, <1>0 DEF Up
  <2> QED BY Zenon, <1>0, <2>2, <2>3, <2>4, <2>5 DEF RetainInv
<1> QED BY Zenon, <1>7, <1>8, <1>9, <1>10, <1>11 DEF Rest

-----------------------------------------------------------------------------
(* Starting and closing *)

\* The coordinator enters a later stage.
LEMMA StageStep ==
  ASSUME CoordInv, [PoolNext]_poolVars, Settles, NEW s \in {"released", "up", "closed"},
         root' = [root EXCEPT !.stage = s], root.stage # "down",
         s = "released" => root.stage = "inspected",
         UNCHANGED <<kept, slots, exits, releasing, lapsing, asked, base, failures, groups>>,
         retained' \in [Works -> {"no", "retained", "asked"}], held' \subseteq Works
  PROVE  /\ RootInv' /\ RowInv' /\ TokenInv' /\ GroupInv' /\ SameRoot
         /\ root'.stage = s /\ root'.failure = root.failure
         /\ \A w \in Works : Old(w)' => Old(w)
         /\ \A t \in handed : Old(t.work)' /\ current(t) => current(t)'
<1>0. /\ kept' = kept /\ slots' = slots /\ exits' = exits /\ releasing' = releasing /\ lapsing' = lapsing
      /\ asked' = asked /\ base' = base /\ failures' = failures /\ groups' = groups
      /\ handed' = handed /\ placing' = placing
  BY Zenon DEF Settles
<1>1. /\ root'.holder = root.holder /\ root'.epoch = root.epoch /\ root'.stage = s /\ root'.failure = root.failure
      /\ root' \in [holder : Holders \cup {Unheld}, epoch : Nat, stage : Stages, failure : BOOLEAN]
  BY Zenon, Known DEF CoordTypeOK, Stages
<1>2. CoordTypeOK'
  BY Zenon, <1>0, <1>1, Known DEF CoordTypeOK
<1>3. SameRoot /\ asked \subseteq asked'
  BY Zenon, <1>0, <1>1 DEF SameRoot
<1>4. RootInv'
  BY Zenon, <1>0, <1>1, <1>2, <1>3, Known, RootKept
<1>5. /\ RowInv'
      /\ \A g \in groups : current(g)'
      /\ \A w \in Works : Old(w)' => Old(w)
      /\ \A t \in handed : Old(t.work)' /\ current(t) => current(t)'
  BY Zenon, <1>3, SettledRows
<1>6. TokenInv'
  BY Zenon, <1>0, <1>3, Known, TokensKept
<1>7. GroupInv'
  BY Zenon, <1>0, <1>1, <1>3, <1>5, GroupsKept
<1> QED BY Zenon, <1>1, <1>3, <1>4, <1>5, <1>6, <1>7

\* The attempts it keeps are current, if their rows are still old.
LEMMA KeptStay ==
  ASSUME CoordInv, kept' = kept, lapsing' = lapsing,
         \A w \in Works : Old(w)' => Old(w),
         \A t \in handed : Old(t.work)' /\ current(t) => current(t)'
  PROVE  \A t \in kept' \cup lapsing' : Old(t.work)' => current(t)'
<1>1. \A t \in kept \cup lapsing : t \in handed /\ t.work \in Works
  BY Zenon, Known, Basics DEF TokenInv
<1>2. \A t \in kept \cup lapsing : Old(t.work) => current(t)
  BY Zenon, Known DEF RetainInv
<1> QED BY Zenon, <1>1, <1>2

LEMMA ReleasePreviousStep ==
  ASSUME CoordInv, [PoolNext]_poolVars, ReleasePrevious
  PROVE  Rest'
<1> DEFINE works == {t.work : t \in kept}
           released(w) == w \notin works /\ work[w].state = "leased" /\ work[w].epoch < root.epoch
<1>0. /\ root.stage = "inspected" /\ root' = [root EXCEPT !.stage = "released"]
      /\ UNCHANGED <<kept, slots, exits, releasing, lapsing, asked, base, failures, groups>>
      /\ retained' = retained /\ held' = held /\ handed' = handed /\ placing' = placing
      /\ work' = [w \in Works |-> IF released(w) THEN Released(work[w], "ready", work[w].epoch) ELSE work[w]]
  BY Zenon DEF ReleasePrevious, releasePreviousIncarnations, claimVars, Lease
<1>1. ASSUME NEW w \in Works, released(w)
      PROVE  /\ work'[w].state = "ready" /\ work'[w].epoch = work[w].epoch
             /\ \A g \in groups : g.work # w
  <2>1. work'[w] = Released(work[w], "ready", work[w].epoch)
    BY Zenon, <1>0, <1>1
  <2>2. work'[w].state = "ready" /\ work'[w].epoch = work[w].epoch
    BY <2>1, Basics, ReleasedRow
  <2>3. ASSUME NEW g \in groups, g.work = w PROVE FALSE
    <3>1. current(g) /\ (g.epoch < root.epoch => g \in kept)
      BY Zenon, <1>0, Known DEF GroupInv
    <3> QED BY Zenon, <1>1, <2>3, <3>1 DEF current
  <2> QED BY Zenon, <2>2, <2>3
<1>2. \A w \in Works : ~released(w) => work'[w] = work[w]
  BY Zenon, <1>0
<1>3. \A w \in Works : Old(w)' => ~released(w)
  BY Zenon, <1>1 DEF Old
<1>4. \A w \in Works : released(w) \/ ~released(w)
  OBVIOUS
<1>5. \A w \in Works : Old(w) /\ ~released(w) => \E t \in kept : t.work = w
  BY Zenon DEF Old
<1> HIDE DEF released
<1>6. Settles
  BY Zenon, <1>0, <1>1, <1>2 DEF Settles, RowStays
<1>7. retained \in [Works -> {"no", "retained", "asked"}] /\ held \subseteq Works
  BY Zenon, Known DEF CoordTypeOK
<1>8. /\ RootInv' /\ RowInv' /\ TokenInv' /\ GroupInv' /\ SameRoot
      /\ root'.stage = "released"
      /\ \A w \in Works : Old(w)' => Old(w)
      /\ \A t \in handed : Old(t.work)' /\ current(t) => current(t)'
  BY Zenon, <1>0, <1>6, <1>7, StageStep
<1>9. RetainInv'
  <2>1. \A t \in kept' \cup lapsing' : Old(t.work)' => current(t)'
    BY Zenon, <1>0, <1>8, KeptStay
  <2>2. releasing' = None /\ retained' = retained /\ asked' = asked /\ kept' = kept
    BY Zenon, <1>0, Known
  <2>3. \A w \in Works : Old(w)' => \E t \in kept' : t.work = w
    BY Zenon, <1>3, <1>5, <1>8, <2>2
  <2>4. \A w \in Works : retained'[w] = "asked" => w \in asked'
    BY Zenon, <2>2, Known DEF RetainInv
  <2> QED BY Zenon, <1>8, <2>1, <2>2, <2>3, <2>4 DEF RetainInv, Up
<1> QED BY Zenon, <1>8, <1>9 DEF Rest

LEMMA OpenStep ==
  ASSUME CoordInv, [PoolNext]_poolVars, Open
  PROVE  Rest'
<1>0. /\ root.stage = "released" /\ root' = [root EXCEPT !.stage = "up"]
      /\ UNCHANGED <<kept, slots, exits, releasing, lapsing, asked, base, failures, groups>>
      /\ retained' = [w \in Works |-> IF \E t \in kept : t.work = w THEN "retained" ELSE "no"]
      /\ held' = {t.work : t \in kept}
      /\ work' = work /\ handed' = handed /\ placing' = placing
  BY Zenon DEF Open, setControl, claimVars
<1>1. /\ retained' \in [Works -> {"no", "retained", "asked"}]
      /\ held' \subseteq Works
  <2>1. \A t \in kept : t.work \in Works
    BY Zenon, Known, Basics DEF TokenInv
  <2> QED BY Zenon, <1>0, <2>1
<1>2. /\ RootInv' /\ RowInv' /\ TokenInv' /\ GroupInv' /\ SameRoot
      /\ root'.stage = "up"
      /\ \A w \in Works : Old(w)' => Old(w)
      /\ \A t \in handed : Old(t.work)' /\ current(t) => current(t)'
  BY Zenon, <1>0, <1>1, UnchangedSettles, StageStep
<1>3. RetainInv'
  <2>1. \A t \in kept' \cup lapsing' : Old(t.work)' => current(t)'
    BY Zenon, <1>0, <1>2, KeptStay
  <2>2. releasing' = None /\ asked' = {}
    BY Zenon, <1>0, Known
  <2>3. \A w \in Works : Old(w)' => retained'[w] = "retained"
    BY Zenon, <1>0, <1>2, Known DEF RetainInv
  <2>4. \A w \in Works : retained'[w] # "asked"
    BY Zenon, <1>0
  <2> QED BY Zenon, <1>2, <2>1, <2>2, <2>3, <2>4 DEF RetainInv
<1> QED BY Zenon, <1>2, <1>3 DEF Rest

LEMMA CloseStep ==
  ASSUME CoordInv, [PoolNext]_poolVars, Close
  PROVE  Rest'
<1> DEFINE closed(w) == work[w].state = "ready" \/ (work[w].state = "leased" /\ work[w].epoch = root.epoch)
<1>0. /\ Up /\ slots = {} /\ exits = {} /\ root' = [root EXCEPT !.stage = "closed"]
      /\ UNCHANGED <<kept, slots, exits, releasing, lapsing, asked, base, failures, groups>>
      /\ retained' = retained /\ held' = held /\ handed' = handed /\ placing' = placing
      /\ work' = [w \in Works |-> IF closed(w) THEN Released(work[w], "failed", work[w].epoch) ELSE work[w]]
  BY Zenon DEF Close, releaseClosed, claimVars, Lease
<1>1. ASSUME NEW w \in Works, closed(w)
      PROVE  /\ work'[w].state = "failed" /\ work'[w].epoch = work[w].epoch
             /\ \A g \in groups : g.work # w
  <2>1. work'[w] = Released(work[w], "failed", work[w].epoch)
    BY Zenon, <1>0, <1>1
  <2>2. work'[w].state = "failed" /\ work'[w].epoch = work[w].epoch
    BY <2>1, Basics, ReleasedRow
  <2>3. ASSUME NEW g \in groups, g.work = w PROVE FALSE
    <3>1. current(g) /\ g.epoch # root.epoch
      BY Zenon, <1>0, Known DEF GroupInv
    <3> QED BY Zenon, <1>1, <2>3, <3>1 DEF current
  <2> QED BY Zenon, <2>2, <2>3
<1>2. \A w \in Works : ~closed(w) => work'[w] = work[w]
  BY Zenon, <1>0
<1> HIDE DEF closed
<1>3. Settles
  BY Zenon, <1>0, <1>1, <1>2 DEF Settles, RowStays
<1>4. retained \in [Works -> {"no", "retained", "asked"}] /\ held \subseteq Works
  BY Zenon, Known DEF CoordTypeOK
<1>5. /\ RootInv' /\ RowInv' /\ TokenInv' /\ GroupInv' /\ SameRoot
      /\ root'.stage = "closed" /\ root'.failure = root.failure
      /\ \A w \in Works : Old(w)' => Old(w)
      /\ \A t \in handed : Old(t.work)' /\ current(t) => current(t)'
  BY Zenon, <1>0, <1>3, <1>4, StageStep DEF Up
<1>6. ~Up' /\ kept' = kept /\ releasing' = releasing /\ lapsing' = lapsing /\ asked' = asked
  BY Zenon, <1>0, <1>5 DEF Up
<1>7. RetainInv'
  BY Zenon, <1>0, <1>5, <1>6, RetainKept
<1> QED BY Zenon, <1>5, <1>7 DEF Rest

LEMMA PrepareStep ==
  ASSUME CoordInv, [PoolNext]_poolVars, NEW l \in granted, Prepare(l)
  PROVE  Rest'
<1>0. /\ root.epoch < l.epoch /\ checkLease(l)
      /\ root' = [holder |-> l.holder, epoch |-> l.epoch, stage |-> "inspected", failure |-> FALSE]
      /\ kept' = {t \in groups : current(t) /\ t.epoch < l.epoch} /\ groups' = groups
      /\ retained' = [w \in Works |-> "no"] /\ base' = [w \in Works |-> None]
      /\ held' = {} /\ slots' = {} /\ exits' = {} /\ lapsing' = {} /\ asked' = {} /\ failures' = {}
      /\ releasing' = None /\ work' = work /\ handed' = handed /\ placing' = placing
      /\ granted' = granted /\ lease' = lease
  BY Zenon DEF Prepare, initialize, claimVars, journalVars
<1>1. l \in Leases /\ l.epoch \in Nat /\ l.epoch = lease.epoch /\ l.holder \in Holders
  <2>1. TypeInv
    BY Zenon, Basics
  <2>2. l \in Leases
    BY Zenon, <2>1 DEF TypeInv, JournalInv, TypeOK
  <2> QED BY Zenon, <1>0, <2>1, <2>2, CheckedLease DEF Leases
<1>2. root'.holder = l.holder /\ root'.epoch = l.epoch /\ root'.stage = "inspected"
  BY Zenon, <1>0
<1>3. /\ \A w \in Works : work[w].epoch < l.epoch
      /\ \A t \in handed : t.epoch < l.epoch /\ t.epoch \in Nat /\ t.work \in Works
      /\ root.epoch \in Nat /\ 1 <= l.epoch
  <2>1. /\ \A w \in Works : work[w].epoch <= root.epoch
        /\ \A t \in handed : t.epoch <= root.epoch
    BY Zenon, Known DEF RowInv, TokenInv
  <2> QED BY <1>0, <1>1, <2>1, Basics
<1>4. groups \subseteq handed /\ \A g \in groups : current(g)
  BY Zenon, Known DEF GroupInv
<1>5. CoordTypeOK'
  <2>1. root' \in [holder : Holders \cup {Unheld}, epoch : Nat, stage : Stages, failure : BOOLEAN]
    BY Zenon, <1>0, <1>1 DEF Stages
  <2>2. kept' \subseteq Tokens /\ groups' \subseteq Tokens
    BY Zenon, <1>0, <1>4, Basics
  <2>3. /\ retained' \in [Works -> {"no", "retained", "asked"}]
        /\ base' \in [Works -> Nat \cup {None}]
    BY Zenon, <1>0
  <2> QED BY Zenon, <1>0, <2>1, <2>2, <2>3 DEF CoordTypeOK
<1>6. RootInv'
  <2>1. Lease' = l
    BY Zenon, <1>1, <1>2 DEF Lease, Leases
  <2>2. placing = {}
    BY Zenon, Known DEF RootInv
  <2> QED BY <1>0, <1>1, <1>2, <1>3, <1>5, <2>1, <2>2 DEF RootInv
<1>7. RowInv'
  <2>1. ASSUME NEW w \in Works
        PROVE  /\ work'[w].epoch <= root'.epoch /\ work'[w].epoch # root'.epoch
               /\ work'[w].state = "leased" => \E t \in handed' : t.work = w /\ current(t)'
    <3>1. work'[w].epoch <= root'.epoch /\ work'[w].epoch # root'.epoch
      BY <1>0, <1>1, <1>2, <1>3, Basics
    <3>2. work[w].state = "leased" => \E t \in handed : t.work = w /\ current(t)
      BY Zenon, Known DEF RowInv
    <3> QED BY Zenon, <1>0, <3>1, <3>2 DEF current
  <2> QED BY Zenon, <2>1 DEF RowInv
<1>8. TokenInv'
  <2>1. \A t \in handed' : t.epoch <= root'.epoch
    BY <1>0, <1>1, <1>2, <1>3
  <2> QED BY Zenon, <1>0, <1>4, <2>1 DEF TokenInv
<1>9. GroupInv'
  <2>1. \A g \in groups : current(g)' /\ g \in kept' /\ g.epoch # root'.epoch
    BY <1>0, <1>1, <1>2, <1>3, <1>4 DEF current
  <2> QED BY Zenon, <1>0, <1>4, <2>1 DEF GroupInv
<1>10. RetainInv'
  <2>1. \A t \in kept' : current(t)'
    BY Zenon, <1>0, <1>4 DEF current
  <2>2. \A w \in Works : retained'[w] # "asked"
    BY Zenon, <1>0
  <2> QED BY Zenon, <1>0, <1>2, <2>1, <2>2 DEF RetainInv, Up
<1> QED BY Zenon, <1>6, <1>7, <1>8, <1>9, <1>10 DEF Rest

-----------------------------------------------------------------------------
(* Claims *)

\* A claim makes one new attempt, of a row nobody had leased and of the
\* coordinator's epoch.
LEMMA Claimed ==
  ASSUME CoordInv, NEW w \in Works, NEW k \in Workers, Claim(w, k)
  PROVE  \E t : /\ t \in Tokens /\ t \notin handed /\ t.work = w /\ t.epoch = root.epoch
                /\ handed' = handed \cup {t} /\ placing' = placing
                /\ slots' = slots \cup {t} /\ groups' \subseteq groups \cup {t}
                /\ work[w].state = "ready" /\ work[w].epoch = root.epoch
                /\ work'[w].state = "leased" /\ work'[w].epoch = root.epoch /\ current(t)'
                /\ \A u \in Works : u # w => work'[u] = work[u]
<1> DEFINE row == [work[w] EXCEPT !.state = "leased", !.generation = @ + 1, !.worker = k,
                                  !.epoch = root.epoch, !.lapsed = FALSE]
           token == Token(w, row)
<1>1. /\ work[w].state = "ready" /\ work[w].epoch = root.epoch
      /\ work' = [work EXCEPT ![w] = row] /\ handed' = handed \cup {token} /\ placing' = placing
  BY Zenon DEF Claim, claim, Lease
<1>2. work[w] \in Rows /\ root.epoch \in Nat /\ work \in [Works -> Rows]
  BY Zenon, Basics
<1>3. /\ row \in Rows /\ row.generation = work[w].generation + 1 /\ work[w].generation \in Nat
      /\ row.worker = k /\ row.epoch = root.epoch
  <2>1. row = LeasedRow(work[w], k, root.epoch)
    BY Zenon DEF LeasedRow
  <2> QED BY <1>2, <2>1, RowsOfClaims
<1>4. row.state = "leased"
  BY Zenon, <1>2 DEF Rows
<1> HIDE DEF row
<1>5. PICK t : /\ t = token
               /\ t \in Tokens /\ t.work = w /\ t.generation = row.generation /\ t.worker = k /\ t.epoch = root.epoch
  <2>1. /\ token \in Tokens /\ token.work = w /\ token.generation = row.generation
        /\ token.worker = k /\ token.epoch = root.epoch
    BY Zenon, <1>3 DEF Token, Tokens, Rows
  <2> HIDE DEF token
  <2> QED BY Zenon, <2>1
<1> HIDE DEF token
<1>6. t \notin handed
  <2>1. \A u \in handed : u.work = w => u.generation <= work[w].generation /\ u.generation \in Nat
    BY Zenon, Basics DEF CoordInv, CoreInv, ClaimInv, Claims
  <2> QED BY <1>3, <1>5, <2>1
<1>7. work'[w] = row /\ \A u \in Works : u # w => work'[u] = work[u]
  BY Zenon, <1>1, <1>2
<1>8. current(t)'
  BY Zenon, <1>3, <1>4, <1>5, <1>7 DEF current
<1>9. slots' = slots \cup {t} /\ groups' \subseteq groups \cup {t}
  <2>1. handed' \ handed = {t}
    BY Zenon, <1>1, <1>5, <1>6
  <2>2. (CHOOSE x \in handed' \ handed : TRUE) = t
    BY Zenon, <2>1
  <2> QED BY Zenon, <2>2 DEF Claim
<1>10. handed' = handed \cup {t}
  BY Zenon, <1>1, <1>5
<1>11. row.epoch = root.epoch
  BY Zenon, <1>3
<1> QED BY Zenon, <1>1, <1>4, <1>5, <1>6, <1>7, <1>8, <1>9, <1>10, <1>11

LEMMA ClaimStep ==
  ASSUME CoordInv, [PoolNext]_poolVars, NEW w \in Works, NEW k \in Workers, Claim(w, k)
  PROVE  Rest'
<1>0. /\ Up /\ root' = root /\ kept' = kept /\ retained' = retained /\ held' = held /\ exits' = exits
      /\ releasing' = releasing /\ lapsing' = lapsing /\ asked' = asked /\ base' = base /\ failures' = failures
  BY Zenon DEF Claim
<1>1. PICK t : /\ t \in Tokens /\ t \notin handed /\ t.work = w /\ t.epoch = root.epoch
               /\ handed' = handed \cup {t} /\ placing' = placing
               /\ slots' = slots \cup {t} /\ groups' \subseteq groups \cup {t}
               /\ work[w].state = "ready" /\ work[w].epoch = root.epoch
               /\ work'[w].state = "leased" /\ work'[w].epoch = root.epoch /\ current(t)'
               /\ \A u \in Works : u # w => work'[u] = work[u]
  BY Zenon, Claimed
<1>2. CoordTypeOK'
  BY Zenon, <1>0, <1>1, Known DEF CoordTypeOK
<1>3. SameRoot /\ w \in asked /\ root.epoch \in Nat
  BY Zenon, <1>0, <1>1, Known, Basics DEF SameRoot, RowInv, Up
<1>4. RootInv'
  BY Zenon, <1>0, <1>1, <1>2, <1>3, RootKept DEF Up
<1>5. \A u \in handed : u.work \in Works /\ (u.work # w /\ current(u) => current(u)')
  BY Zenon, <1>1, Basics DEF current
<1>6. /\ ~Old(w)'
      /\ \A u \in Works : u # w => (Old(u)' <=> Old(u))
  BY <1>0, <1>1, <1>3 DEF Old
<1>7. RowInv'
  <2>1. ASSUME NEW u \in Works
        PROVE  /\ work'[u].epoch <= root'.epoch
               /\ root'.stage # "down" /\ work'[u].epoch = root'.epoch => u \in asked'
               /\ work'[u].state = "leased" => \E v \in handed' : v.work = u /\ current(v)'
    <3>1. CASE u = w
      BY <1>0, <1>1, <1>3, <3>1
    <3>2. CASE u # w
      <4>1. work[u].state = "leased" => \E v \in handed : v.work = u /\ current(v)
        BY Zenon, Known DEF RowInv
      <4> QED BY Zenon, <1>0, <1>1, <1>5, <3>2, <4>1, Known DEF RowInv
    <3> QED BY Zenon, <3>1, <3>2
  <2> QED BY Zenon, <2>1 DEF RowInv
<1>8. TokenInv'
  BY <1>0, <1>1, <1>3, Known DEF TokenInv
<1>9. GroupInv'
  <2>1. \A g \in groups : g \in handed /\ g.work # w /\ current(g)'
    <3>1. \A g \in groups : g \in handed /\ current(g)
      BY Zenon, Known DEF GroupInv
    <3> QED BY Zenon, <1>1, <1>5, <3>1 DEF current
  <2>2. ASSUME NEW g \in groups, g \in groups'
        PROVE  /\ current(g)' /\ g \notin lapsing'
               /\ releasing' # None => releasing'.token # g
               /\ \A x \in exits' : x.token = g => x.stage = "reaping"
               /\ g.epoch = root'.epoch => g \in slots' \/ \E x \in exits' : x.token = g
    BY Zenon, <1>0, <1>1, <2>1, Known DEF GroupInv
  <2>3. /\ current(t)' /\ t \notin lapsing' /\ t \in slots'
        /\ releasing' # None => releasing'.token # t
        /\ \A x \in exits' : x.token # t
    BY Zenon, <1>0, <1>1, Known
  <2>4. groups' \subseteq handed' /\ root'.stage # "inspected"
    BY Zenon, <1>0, <1>1, <2>1 DEF Up
  <2> QED BY Zenon, <1>1, <2>2, <2>3, <2>4 DEF GroupInv
<1>10. RetainInv'
  <2>1. \A u \in handed : (Old(u.work) => current(u)) => (Old(u.work)' => current(u)')
    BY Zenon, <1>5, <1>6
  <2>2. \A u \in kept' \cup lapsing' : Old(u.work)' => current(u)'
    <3>1. \A u \in kept \cup lapsing : u \in handed /\ (Old(u.work) => current(u))
      BY Zenon, Known DEF TokenInv, RetainInv
    <3> QED BY Zenon, <1>0, <2>1, <3>1
  <2>3. releasing' # None => /\ retained'[releasing'.token.work] = "no"
                             /\ releasing'.adopt => releasing'.token.work \in asked'
                             /\ (Old(releasing.token.work) => current(releasing.token))'
    <3>1. ASSUME releasing # None PROVE (Old(releasing.token.work) => current(releasing.token))'
      <4>1. PICK u \in handed : u = releasing.token
        BY Zenon, <3>1, Known
      <4>2. Old(u.work)' => current(u)'
        BY Zenon, <2>1, <3>1, <4>1, Known DEF RetainInv
      <4>3. u = releasing'.token
        BY Zenon, <1>0, <4>1
      <4> QED BY Zenon, <4>2, <4>3 DEF Old, current
    <3> QED BY Zenon, <1>0, <3>1, Known DEF RetainInv
  <2>4. ASSUME ~root.failure, NEW u \in Works
        PROVE  /\ Old(u)' => \/ retained'[u] # "no" /\ (u \in asked' => retained'[u] = "asked")
                             \/ releasing' # None /\ releasing'.token.work = u /\ (u \in asked' => releasing'.adopt)
               /\ u \in asked' /\ work'[u].state = "ready" => work'[u].epoch = root'.epoch
    <3>1. Old(u)' => Old(u)
      BY Zenon, <1>6
    <3>2. Old(u) => \/ retained[u] # "no" /\ (u \in asked => retained[u] = "asked")
                    \/ releasing # None /\ releasing.token.work = u /\ (u \in asked => releasing.adopt)
      BY Zenon, <1>0, <2>4, Known DEF RetainInv
    <3>3. u \in asked /\ work'[u].state = "ready" => work'[u].epoch = root.epoch
      BY Zenon, <1>0, <1>1, <2>4, Known
    <3> QED BY Zenon, <1>0, <3>1, <3>2, <3>3
  <2>5. root'.stage # "released" /\ \A u \in Works : retained'[u] = "asked" => u \in asked'
    BY Zenon, <1>0, Known DEF RetainInv, Up
  <2> QED BY Zenon, <1>0, <2>2, <2>3, <2>4, <2>5 DEF RetainInv
<1> QED BY Zenon, <1>4, <1>7, <1>8, <1>9, <1>10 DEF Rest

-----------------------------------------------------------------------------
(* The invariant, and what follows from it *)

LEMMA CoordStarts == CoordInit => CoordInv
<1> SUFFICES ASSUME CoordInit PROVE CoordInv
  OBVIOUS
<1>1. CoreInv
  BY Zenon, CoreInit DEF CoordInit
<1>2. /\ work = [w \in Works |-> [state |-> "none", generation |-> 0, worker |-> Nobody, epoch |-> 0,
                                  lapsed |-> FALSE, descriptor |-> CHOOSE d \in Descriptors : TRUE]]
      /\ handed = {} /\ placing = {}
  BY Zenon DEF CoordInit, PoolInit
<1>3. \A w \in Works : work[w].state = "none" /\ work[w].epoch = 0
  BY Zenon, <1>2
<1>4. lease.epoch \in Nat
  BY Zenon, <1>1 DEF CoreInv, TypeInv, JournalInv, TypeOK
<1>5. /\ root.holder = Unheld /\ root.epoch = 0 /\ root.stage = "down" /\ root.failure = FALSE
      /\ root \in [holder : Holders \cup {Unheld}, epoch : Nat, stage : Stages, failure : BOOLEAN]
  BY Zenon DEF CoordInit, Stages
<1>6. /\ kept = {} /\ held = {} /\ slots = {} /\ exits = {} /\ groups = {} /\ releasing = None /\ lapsing = {}
      /\ asked = {} /\ failures = {} /\ retained = [w \in Works |-> "no"] /\ base = [w \in Works |-> None]
  BY Zenon DEF CoordInit
<1>7. CoordTypeOK
  <2>1. retained \in [Works -> {"no", "retained", "asked"}] /\ base \in [Works -> Nat \cup {None}]
    BY Zenon, <1>6
  <2> QED BY Zenon, <1>5, <1>6, <2>1 DEF CoordTypeOK
<1>8. RootInv
  BY <1>2, <1>4, <1>5, <1>6, <1>7 DEF RootInv
<1>9. RowInv
  BY <1>3, <1>5 DEF RowInv
<1>10. TokenInv /\ GroupInv
  BY Zenon, <1>2, <1>6 DEF TokenInv, GroupInv
<1>11. RetainInv
  BY Zenon, <1>5, <1>6 DEF RetainInv, Up
<1> QED BY Zenon, <1>1, <1>8, <1>9, <1>10, <1>11 DEF CoordInv

LEMMA CoordStep ==
  ASSUME CoordInv, [CoordNext]_coordVars
  PROVE  CoordInv'
<1>1. [PoolNext]_poolVars
  BY Zenon, StepIsPool
<1>2. CoreInv'
  BY Zenon, <1>1, CoreStep DEF CoordInv
<1>3. Rest'
  <2>1. CASE UNCHANGED coordVars
    <3>1. UNCHANGED <<memoryVars, groups>> /\ work' = work /\ handed' = handed /\ placing' = placing
      BY Zenon, <2>1 DEF coordVars, poolVars, queueVars, claimVars
    <3> QED BY Zenon, <1>1, <3>1, UnchangedSettles, IdleStep
  <2>2. CASE Outside
    BY Zenon, <1>1, <2>2, OutsideStep
  <2>3. CASE Starting
    BY Zenon, <1>1, <2>3, PrepareStep, ReleasePreviousStep, OpenStep, CloseStep DEF Starting
  <2>4. CASE Enqueueing
    BY Zenon, <1>1, <2>4, EnqueueStep, ReopenStep DEF Enqueueing
  <2>5. CASE Working
    <3>1. ASSUME NEW t \in slots, WorkerExits(t) PROVE Rest'
      BY Zenon, <1>1, <3>1, ExitStep DEF WorkerExits
    <3> QED BY Zenon, <1>1, <2>5, <3>1, ClaimStep, FencedStep, CompleteStep, ReapedStep, SettlesStep, ReportsStep, GroupsEndStep
            DEF Working
  <2>6. CASE Recovering
    <3>1. ASSUME NEW w \in Works, RecoverStops(w) PROVE Rest'
      <4>1. PICK t : t = TokenOf(w)
        OBVIOUS
      <4>2. t \in slots /\ Up /\ Exit(t) /\ UNCHANGED poolVars
        BY Zenon, <3>1, <4>1 DEF RecoverStops, Exit
      <4> QED BY Zenon, <1>1, <4>2, ExitStep
    <3> QED BY Zenon, <1>1, <2>6, <3>1, ReapRetainedStep, FinishStep, FailStep, ExtendsStep, DecidesStep, ExpiresStep,
               RecoverReleasesStep
            DEF Recovering
  <2> QED BY Zenon, <2>1, <2>2, <2>3, <2>4, <2>5, <2>6 DEF CoordNext
<1> QED BY Zenon, <1>2, <1>3 DEF CoordInv, Rest

\* Process groups keep their row leased, rows of the coordinator's epoch were
\* asked for, and every row an earlier incarnation leased has a record: through
\* starts, enqueues, claims, exits, reaps, recovery and closes in any order.
THEOREM CoordInvariant == CoordSpec => []CoordInv
BY CoordStarts, CoordStep, PTL DEF CoordSpec

\* Whatever the coordinator does to the queue's tables, the queue's own
\* specification allows: the theorems about PoolSpec hold of it.
THEOREM CoordinatorUsesQueue == CoordSpec => PoolSpec
<1>1. CoordInit => PoolInit
  BY Zenon DEF CoordInit
<1>2. CoordInv /\ [CoordNext]_coordVars => [PoolNext]_poolVars
  BY Zenon, StepIsPool
<1> QED BY <1>1, <1>2, CoordInvariant, PTL DEF CoordSpec, PoolSpec

\* A worker only runs children this incarnation of the root enqueued, and the
\* coordinator's memory is well formed.
THEOREM WorkersRunAskedChildren == CoordSpec => []CoordSound
<1>1. CoordInv => CoordSound
  BY Zenon DEF CoordInv, RootInv, TokenInv, CoordSound, OnlyAskedRuns
<1> QED BY <1>1, CoordInvariant, PTL

\* No attempt runs beside unreaped process groups of an earlier attempt of the
\* same child, in this incarnation of the root or an earlier one.
THEOREM NeverReplaysAlongside == CoordSpec => []NoReplayAlongside
<1>1. CoordInv => NoReplayAlongside
  <2> SUFFICES ASSUME CoordInv, NEW t \in slots, NEW g \in groups, g.work = t.work
               PROVE  g.generation >= t.generation
    BY Zenon DEF NoReplayAlongside
  <2>1. t \in handed /\ g \in handed /\ current(g)
    BY Zenon, Known DEF GroupInv
  <2>2. t.generation <= work[t.work].generation
    BY Zenon, <2>1 DEF CoordInv, CoreInv, ClaimInv, Claims
  <2> QED BY Zenon, <2>1, <2>2, Basics DEF current
<1> QED BY <1>1, CoordInvariant, PTL

\* An enqueue is never lost to the release of a retained attempt, whichever of
\* the two comes first, unless that release failed.
THEOREM EnqueuesAreKept == CoordSpec => []EnqueueNotLost
<1>1. CoordInv => EnqueueNotLost
  BY Zenon, Known DEF EnqueueNotLost
<1> QED BY <1>1, CoordInvariant, PTL
=============================================================================
