----------------------------- MODULE PoolPlaces -----------------------------
(***************************************************************************)
(* The places of a worker pool (PoolPlaces, WaitingWorkerReserve and       *)
(* AttemptPlace of waiting-workers.ts) with the coordinator that hands     *)
(* them out and the worker processes that use them.                        *)
(*                                                                         *)
(* At most `Count' attempts hold a place.  An attempt whose stages wait    *)
(* for something outside gives its place back and asks for it again when   *)
(* it wakes; the coordinator starts one extra worker per waiting attempt.  *)
(* A worker's messages reach the coordinator in the order it sent them,    *)
(* and may be handled after the worker's exit was noticed: the exit is an  *)
(* event of the process, the messages are events of its channel.  A claim, *)
(* an end and a place request of one worker never overlap (they are        *)
(* ordered by their lanes, module RequestLanes), except that a place       *)
(* request waits in `queue' for its answer without holding up the rest.    *)
(*                                                                         *)
(* A reply is taken by the worker in the step that sends it.  Which        *)
(* children are ready, when an attempt waits, wakes or ends, and when a    *)
(* worker dies, is the environment's choice.                               *)
(***************************************************************************)
EXTENDS Naturals, Sequences, FiniteSets, SequencesExt

CONSTANTS
  Slots,          \* worker processes; a slot is used again once its process is gone
  Count,          \* options.workers
  MaxExits,       \* bound: worker processes that die without being told to
  MaxFaults       \* bound: extra workers that fail to start

ASSUME PlacesAssumption ==
  /\ IsFiniteSet(Slots)
  /\ {Count, MaxExits, MaxFaults} \subseteq Nat
  /\ Count > 0 /\ Count <= Cardinality(Slots)

VARIABLES
  holders,        \* PoolPlaces.holders
  released,       \* PoolPlaces.released
  queue,          \* PoolPlaces.queue: woken attempts that asked for a place
  extra,          \* WaitingWorkerReserve.extra
  proc,           \* the slot's process, as the coordinator knows it
  growing,        \* slots started for a waiting attempt, not ready yet
  retired,        \* slot.retired
  work,           \* slots with slot.work set
  claiming,       \* slots whose claim is in the journal
  sent,           \* the worker's messages not handled yet
  attempt,        \* the worker's side: what it does
  place,          \* the worker's side: AttemptPlace
  exits, faults   \* bounded faults so far

placeVars  == <<holders, released, queue>>
workerVars == <<sent, attempt, place>>
vars == <<holders, released, queue, extra, proc, growing, retired, work, claiming,
          sent, attempt, place, exits, faults>>

ProcStates    == {"none", "starting", "ready", "exited"}
Messages      == {"claim", "release", "reacquire", "complete", "fenced"}
AttemptStates == {"idle", "asking", "running", "ending", "leaving"}
PlaceStates   == {"held", "releasing", "released", "waking", "asked"}

Min2(a, b) == IF a <= b THEN a ELSE b

-----------------------------------------------------------------------------
(* PoolPlaces: what each of its methods makes of the three fields, and the *)
(* requests it answers.  The queue is served while a place is free.        *)

\* A variant: nothing is granted when a place frees.
grantNothing(h, r, q) == [holders |-> h, released |-> r, queue |-> q, granted |-> {}]

grant(h, r, q) ==
  LET free  == IF Cardinality(h) < Count THEN Count - Cardinality(h) ELSE 0
      n     == Min2(free, Len(q))
      taken == {q[i] : i \in 1..n}
  IN  [holders  |-> h \cup taken,
       released |-> r \ taken,
       queue    |-> SubSeq(q, n + 1, Len(q)),
       granted  |-> taken]

\* A variant that leaves the ended attempt's request in the queue.
endKeepsRequest(s) == grant(holders \ {s}, released \ {s}, queue)

end(s) == grant(holders \ {s}, released \ {s}, SelectSeq(queue, LAMBDA t : t # s))

release(s) == grant(holders \ {s}, released \cup {s}, queue)

\* A variant that asks for a place once and does not wait for it.
reacquireIfFree(s) ==
  IF s \in released /\ Cardinality(holders) >= Count
    THEN [holders |-> holders, released |-> released, queue |-> queue, granted |-> {}]
    ELSE [holders |-> holders \cup {s}, released |-> released \ {s}, queue |-> queue, granted |-> {s}]

reacquire(s) ==
  IF s \in released
    THEN grant(holders, released, Append(queue, s))
    ELSE [holders |-> holders, released |-> released, queue |-> queue, granted |-> {s}]

\* The answers reach their askers: AttemptPlace.reacquire sets held.
Answer(p) ==
  /\ holders' = p.holders
  /\ released' = p.released
  /\ queue' = p.queue
  /\ place' = [t \in Slots |-> IF t \in p.granted /\ proc[t] = "ready" /\ place[t] = "asked"
                                 THEN "held" ELSE place[t]]

waiting == Cardinality(released)

-----------------------------------------------------------------------------
Init ==
  /\ holders = {} /\ released = {} /\ queue = <<>>
  /\ extra = 0
  /\ \E first \in SUBSET Slots :
       /\ Cardinality(first) = Count
       /\ proc = [s \in Slots |-> IF s \in first THEN "starting" ELSE "none"]
  /\ growing = {} /\ retired = {} /\ work = {} /\ claiming = {}
  /\ sent = [s \in Slots |-> <<>>]
  /\ attempt = [s \in Slots |-> "idle"]
  /\ place = [s \in Slots |-> "held"]
  /\ exits = 0 /\ faults = 0

(* Worker processes *)

\* A slot no process uses, and that the coordinator's tables do not mention.
Unused(s) == proc[s] = "none" /\ s \notin holders \cup released

Ready(s) ==
  /\ proc[s] = "starting"
  /\ proc' = [proc EXCEPT ![s] = "ready"]
  /\ growing' = growing \ {s}
  /\ UNCHANGED <<placeVars, extra, retired, work, claiming, workerVars, exits, faults>>

\* reserve.lost: the extra worker no longer counts.
StartFails(s) ==
  /\ s \in growing /\ faults < MaxFaults
  /\ faults' = faults + 1
  /\ proc' = [proc EXCEPT ![s] = "none"]
  /\ growing' = growing \ {s}
  /\ extra' = IF extra > 0 THEN extra - 1 ELSE 0
  /\ UNCHANGED <<placeVars, retired, work, claiming, workerVars, exits>>

Tell(s, m) == sent' = [sent EXCEPT ![s] = Append(@, m)]

Alive(s) == proc[s] = "ready"

AskForWork(s) ==
  /\ Alive(s) /\ attempt[s] = "idle"
  /\ attempt' = [attempt EXCEPT ![s] = "asking"]
  /\ Tell(s, "claim")
  /\ UNCHANGED <<placeVars, extra, proc, growing, retired, work, claiming, place, exits, faults>>

\* AttemptPlace.observe: the attempt's stages all wait with their sessions released.
observe(s) ==
  /\ Alive(s) /\ attempt[s] = "running" /\ place[s] = "held"
  /\ place' = [place EXCEPT ![s] = "releasing"]
  /\ Tell(s, "release")
  /\ UNCHANGED <<placeVars, extra, proc, growing, retired, work, claiming, attempt, exits, faults>>

\* AttemptPlace.take: the place is asked for once its release was acknowledged.
take(s) ==
  /\ Alive(s) /\ attempt[s] = "running" /\ place[s] \in {"releasing", "released"}
  /\ IF place[s] = "released"
       THEN place' = [place EXCEPT ![s] = "asked"] /\ Tell(s, "reacquire")
       ELSE place' = [place EXCEPT ![s] = "waking"] /\ UNCHANGED sent
  /\ UNCHANGED <<placeVars, extra, proc, growing, retired, work, claiming, attempt, exits, faults>>

\* The attempt ends, with its result or fenced; its stages are closed by then.
EndAttempt(s, m) ==
  /\ Alive(s) /\ attempt[s] = "running"
  /\ attempt' = [attempt EXCEPT ![s] = "ending"]
  /\ Tell(s, m)
  /\ UNCHANGED <<placeVars, extra, proc, growing, retired, work, claiming, place, exits, faults>>

-----------------------------------------------------------------------------
(* The coordinator *)

\* The next message of a worker; the lanes hold it back while a claim runs.
Next1(s, m) == sent[s] # <<>> /\ Head(sent[s]) = m /\ s \notin claiming
Take1(s)    == sent' = [sent EXCEPT ![s] = Tail(@)]

\* A reply moves the worker on, unless it is gone.
Reply(s, next) == attempt' = IF Alive(s) THEN [attempt EXCEPT ![s] = next] ELSE attempt

\* WaitingWorkerReserve.shrink, and the workers that must stay.
retiresIdle(s) ==
  /\ Cardinality({t \in Slots \ (retired \cup {s}) : proc[t] = "ready"}) >= Count
  /\ extra > Min2(waiting, Count)

ClaimRetires(s) ==
  /\ Next1(s, "claim") /\ Take1(s)
  /\ retiresIdle(s)
  /\ extra' = extra - 1
  /\ retired' = retired \cup {s}
  /\ Reply(s, "leaving")
  /\ UNCHANGED <<placeVars, proc, growing, work, claiming, place, exits, faults>>

\* A variant that takes a place more than the pool has.
claimBeyondCount(s) ==
  /\ Next1(s, "claim") /\ Take1(s)
  /\ ~retiresIdle(s)
  /\ IF Cardinality(holders) > Count
       THEN Reply(s, "idle") /\ UNCHANGED <<holders, claiming>>
       ELSE holders' = holders \cup {s} /\ claiming' = claiming \cup {s} /\ UNCHANGED attempt
  /\ UNCHANGED <<released, queue, extra, proc, growing, retired, work, place, exits, faults>>

\* PoolPlaces.claim.
ClaimStarts(s) ==
  /\ Next1(s, "claim") /\ Take1(s)
  /\ ~retiresIdle(s)
  /\ IF Cardinality(holders) >= Count
       THEN Reply(s, "idle") /\ UNCHANGED <<holders, claiming>>
       ELSE holders' = holders \cup {s} /\ claiming' = claiming \cup {s} /\ UNCHANGED attempt
  /\ UNCHANGED <<released, queue, extra, proc, growing, retired, work, place, exits, faults>>

ClaimFound(s) ==
  /\ s \in claiming
  /\ claiming' = claiming \ {s}
  /\ work' = work \cup {s}
  /\ Reply(s, "running")
  /\ place' = IF Alive(s) THEN [place EXCEPT ![s] = "held"] ELSE place
  /\ UNCHANGED <<placeVars, extra, proc, growing, retired, sent, exits, faults>>

ClaimEmpty(s) ==
  /\ s \in claiming
  /\ claiming' = claiming \ {s}
  /\ Answer(end(s))
  /\ Reply(s, "idle")
  /\ UNCHANGED <<extra, proc, growing, retired, work, sent, exits, faults>>

\* grow (a variant without, and the method with, its limit): one worker more
\* per waiting attempt, at most Count.  A release frees
\* one place and adds one waiting attempt, so it starts at most one.
wantedUnbounded(after) == IF after > extra THEN after - extra ELSE 0

Wanted(after) ==
  LET most == Min2(after, Count) IN IF most > extra THEN most - extra ELSE 0

\* A variant that starts no worker for the waiting attempt.
releaseStartsNone(s) ==
  /\ Next1(s, "release") /\ Take1(s)
  /\ s \in work
  /\ LET p == release(s)
     IN  /\ holders' = p.holders /\ released' = p.released /\ queue' = p.queue
         /\ place' = [t \in Slots |->
              IF ~Alive(t) THEN place[t]
              ELSE IF t \in p.granted /\ place[t] = "asked" THEN "held"
              ELSE IF t = s /\ place[s] = "releasing" THEN "released"
              ELSE place[t]]
  /\ UNCHANGED <<extra, proc, growing, retired, work, claiming, attempt, exits, faults>>

\* releasePlace, with the acknowledgement: a worker that woke meanwhile asks
\* for its place again at once.
ReleasePlace(s) ==
  /\ Next1(s, "release")
  /\ s \in work
  /\ LET p     == release(s)
         asks  == Alive(s) /\ place[s] = "waking"
         count == Wanted(Cardinality(p.released))
     IN  /\ holders' = p.holders /\ released' = p.released /\ queue' = p.queue
         /\ place' = [t \in Slots |->
              IF ~Alive(t) THEN place[t]
              ELSE IF t \in p.granted /\ place[t] = "asked" THEN "held"
              ELSE IF t = s /\ place[s] = "releasing" THEN "released"
              ELSE IF t = s /\ place[s] = "waking" THEN "asked"
              ELSE place[t]]
         /\ sent' = [sent EXCEPT ![s] = IF asks THEN Append(Tail(@), "reacquire") ELSE Tail(@)]
         /\ extra' = extra + count
         /\ \E new \in SUBSET {t \in Slots : Unused(t)} :
              /\ Cardinality(new) = count
              /\ proc' = [t \in Slots |-> IF t \in new THEN "starting" ELSE proc[t]]
              /\ growing' = growing \cup new
  /\ UNCHANGED <<retired, work, claiming, attempt, exits, faults>>

Reacquire(s) ==
  /\ Next1(s, "reacquire") /\ Take1(s)
  /\ s \in work
  /\ Answer(reacquire(s))
  /\ UNCHANGED <<extra, proc, growing, retired, work, claiming, attempt, exits, faults>>

\* A place request of an attempt that ended: "Worker has no active attempt".
NoAttempt(s) ==
  /\ \E m \in {"release", "reacquire"} : Next1(s, m)
  /\ Take1(s)
  /\ s \notin work
  /\ UNCHANGED <<placeVars, extra, proc, growing, retired, work, claiming, attempt, place, exits, faults>>

\* The child's result is recorded.
Complete(s) ==
  /\ Next1(s, "complete") /\ Take1(s)
  /\ s \in work
  /\ work' = work \ {s}
  /\ Answer(end(s))
  /\ Reply(s, "idle")
  /\ UNCHANGED <<extra, proc, growing, retired, claiming, exits, faults>>

\* The journal refuses the result of a replaced attempt, which ends fenced.
CompleteRefused(s) ==
  /\ Next1(s, "complete")
  /\ sent' = [sent EXCEPT ![s] = IF Alive(s) THEN Append(Tail(@), "fenced") ELSE Tail(@)]
  /\ UNCHANGED <<placeVars, extra, proc, growing, retired, work, claiming, attempt, place, exits, faults>>

Fenced(s) ==
  /\ Next1(s, "fenced") /\ Take1(s)
  /\ work' = work \ {s}
  /\ Answer(end(s))
  /\ Reply(s, "idle")
  /\ UNCHANGED <<extra, proc, growing, retired, claiming, exits, faults>>

\* The process is gone: its place frees, its attempt stays until it is cleaned up.
\* What the worker did and held is gone with it.
Exit(s) ==
  /\ Alive(s)
  /\ \/ attempt[s] = "leaving" /\ UNCHANGED exits
     \/ attempt[s] # "leaving" /\ exits < MaxExits /\ exits' = exits + 1
  /\ proc' = [proc EXCEPT ![s] = "exited"]
  /\ LET p == end(s)
     IN  /\ holders' = p.holders /\ released' = p.released /\ queue' = p.queue
         /\ place' = [t \in Slots |->
              IF t = s \/ (t \in p.granted /\ Alive(t) /\ place[t] = "asked") THEN "held" ELSE place[t]]
  /\ attempt' = [attempt EXCEPT ![s] = "idle"]
  /\ UNCHANGED <<extra, growing, retired, work, claiming, sent, faults>>

\* A variant that replaces a retired worker too.
cleanUpReplaces(s) ==
  /\ proc[s] = "exited" /\ sent[s] = <<>> /\ s \notin claiming
  /\ work' = work \ {s}
  /\ retired' = retired \ {s}
  /\ proc' = [proc EXCEPT ![s] = "starting"]
  /\ UNCHANGED <<placeVars, extra, growing, claiming, sent, attempt, place, exits, faults>>

\* Its channel is closed and its requests have settled (lanes.settled): its
\* attempt is put back, and another worker starts unless this one was retired.
CleanUp(s) ==
  /\ proc[s] = "exited" /\ sent[s] = <<>> /\ s \notin claiming
  /\ work' = work \ {s}
  /\ retired' = retired \ {s}
  /\ IF s \in retired
       THEN proc' = [proc EXCEPT ![s] = "none"]
       ELSE \E t \in Slots :
              /\ t \notin holders \cup released
              /\ t = s \/ proc[t] = "none"
              /\ proc' = [proc EXCEPT ![s] = "none", ![t] = "starting"]
  /\ UNCHANGED <<placeVars, extra, growing, claiming, sent, attempt, place, exits, faults>>

-----------------------------------------------------------------------------
Worker(s) ==
  \/ Ready(s) \/ StartFails(s) \/ AskForWork(s) \/ observe(s) \/ take(s)
  \/ EndAttempt(s, "complete") \/ EndAttempt(s, "fenced") \/ Exit(s)

Coordinator(s) ==
  \/ ClaimRetires(s) \/ ClaimStarts(s) \/ ClaimFound(s) \/ ClaimEmpty(s)
  \/ ReleasePlace(s) \/ Reacquire(s) \/ NoAttempt(s)
  \/ Complete(s) \/ CompleteRefused(s) \/ Fenced(s) \/ CleanUp(s)

Next == \E s \in Slots : Worker(s) \/ Coordinator(s)

Spec == Init /\ [][Next]_vars

\* The coordinator answers what it was sent and the journal answers it; a
\* started worker becomes ready and asks; a woken attempt's release is sent;
\* and an attempt that holds a place ends or comes to wait.
FairSpec ==
  /\ Spec
  /\ \A s \in Slots :
       /\ WF_vars(Coordinator(s))
       /\ WF_vars(Ready(s))
       /\ WF_vars(place[s] = "held" /\ (EndAttempt(s, "complete") \/ EndAttempt(s, "fenced") \/ observe(s)))

-----------------------------------------------------------------------------
(* Properties *)

\* The fields of the pool and of its workers hold what their types say; the
\* pool starts at most Count workers beyond its count.
PlacesTypeOK ==
  /\ holders \subseteq Slots /\ released \subseteq Slots
  /\ queue \in Seq(Slots)
  /\ extra \in 0..Count
  /\ proc \in [Slots -> ProcStates]
  /\ growing \subseteq Slots /\ retired \subseteq Slots
  /\ work \subseteq Slots /\ claiming \subseteq Slots
  /\ sent \in [Slots -> Seq(Messages)]
  /\ attempt \in [Slots -> AttemptStates]
  /\ place \in [Slots -> PlaceStates]

\* An attempt that may start something: it runs and believes it has its place.
MayRun == {s \in Slots : Alive(s) /\ attempt[s] = "running" /\ place[s] = "held"}

\* At most Count attempts run at once, whatever is released, woken, replaced
\* or lost meanwhile: what a worker believes of its place is backed by the
\* coordinator's count, which never exceeds the pool's.
RunningHoldPlaces == MayRun \subseteq holders /\ Cardinality(holders) <= Count

\* Nobody waits for a place that is free, and nobody holds a place and waits
\* for one: the comment on PoolPlaces.claim ("none is free while a woken
\* attempt waits for one").
NoFreePlaceWhileWoken ==
  /\ queue # <<>> => Cardinality(holders) = Count
  /\ ToSet(queue) \subseteq released
  /\ holders \cap released = {}
  /\ IsInjective(queue)

\* A place request is never forgotten: a live attempt that asked for its place
\* is in the queue, or its message is on its way.
AskedIsQueued ==
  \A s \in Slots :
    Alive(s) /\ attempt[s] = "running" /\ place[s] = "asked" =>
      s \in ToSet(queue) \/ "reacquire" \in ToSet(sent[s])

\* The workers the pool keeps: Count, one more per counted extra worker, and
\* none twice.  Exits, retirements and failed starts leave the sum right.
WorkersMatchReserve ==
  Cardinality({s \in Slots : proc[s] # "none" /\ s \notin retired}) = Count + extra

\* A free place finds a worker: unless more attempts wait than the pool starts
\* extra workers for, or an extra worker could not start, a worker that has no
\* attempt is there, starting or being replaced, to claim the next child.
FreePlaceHasWorker ==
  Cardinality(holders) < Count /\ waiting <= Count /\ faults = 0 =>
    \E s \in Slots : proc[s] # "none" /\ s \notin retired \cup released \cup holders

\* A place is held by an attempt or a claim: the comments on PoolPlaces.held
\* ("Attempts and claims that hold a place now") and PoolPlaces.waiting.
PlacesBelongToWorkers == \A s \in holders \cup released : proc[s] # "none"

\* A woken attempt gets its place, or ends: freed places go to woken attempts
\* before any new claim, so claims cannot keep one waiting for ever.  A worker
\* that dies may take a place with it (PlacesBelongToWorkers), so this is said
\* of pools none of whose workers died.
WokenGetPlace ==
  \A s \in Slots : place[s] = "asked" /\ attempt[s] = "running" ~>
                     place[s] = "held" \/ attempt[s] # "running" \/ exits > 0

\* The pool's books: its fields are of their types, no place request is
\* forgotten, and the workers are those the places and the reserve ask for.
PlacesSound == PlacesTypeOK /\ AskedIsQueued /\ WorkersMatchReserve
=============================================================================
