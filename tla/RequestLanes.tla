---------------------------- MODULE RequestLanes ----------------------------
(***************************************************************************)
(* How the requests one worker has in flight with its coordinator wait for *)
(* each other (WorkerRequestLanes).  A promise of the class is modelled by *)
(* the set of requests it waits for: it is settled once all of them are.   *)
(* A request that fails settles like one that succeeds.                    *)
(***************************************************************************)
EXTENDS Naturals, Sequences

CONSTANT MaxRequests    \* bound: requests a worker sends

ASSUME LanesAssumption == MaxRequests \in Nat

VARIABLES
  requests,       \* every request so far: its lane, what it waits for, its state
  barrier,        \* settles once the latest barrier has
  sequences,      \* for each sequence, settles once its latest request has
  publications,   \* settles once every publication so far has
  everything      \* settles once every request so far, except detached ones, has

laneVars == <<requests, barrier, sequences, publications, everything>>

Lanes == {"barrier", "commits", "heartbeats", "acknowledgements", "free", "publications", "detached"}

\* SEQUENCES: the sequence each sequenced lane runs in.
Sequenced == {"commits", "heartbeats", "acknowledgements"}
SequenceOf(lane) == IF lane = "commits" THEN "commits" ELSE "heartbeats"

Settled == {i \in DOMAIN requests : requests[i].state = "settled"}

LanesInit ==
  /\ requests = <<>>
  /\ barrier = {}
  /\ sequences = [q \in {"commits", "heartbeats"} |-> {}]
  /\ publications = {}
  /\ everything = {}

\* Variants of what a request waits for: a barrier waits for the last barrier
\* alone; an acknowledgement does not wait for publications; a sequence is not
\* waited for.
waitsForBarrierOnly(lane) ==
  barrier \cup (IF lane \in Sequenced THEN sequences[SequenceOf(lane)] ELSE {})
          \cup (IF lane = "acknowledgements" THEN publications ELSE {})

waitsForSequenceOnly(lane) ==
  IF lane = "barrier" THEN everything
  ELSE barrier \cup (IF lane \in Sequenced THEN sequences[SequenceOf(lane)] ELSE {})

waitsForNoSequence(lane) ==
  IF lane = "barrier" THEN everything
  ELSE barrier \cup (IF lane = "acknowledgements" THEN publications ELSE {})

\* `after': what the request waits for when it is scheduled.
WaitsFor(lane) ==
  IF lane = "barrier" THEN everything
  ELSE barrier
       \cup (IF lane \in Sequenced THEN sequences[SequenceOf(lane)] ELSE {})
       \cup (IF lane = "acknowledgements" THEN publications ELSE {})

\* Variants of what a later barrier waits for: detached requests too; only the
\* request before it.
everythingOfAll(i, lane) == everything \cup {i}

everythingOfLatest(i, lane) == IF lane = "detached" THEN everything ELSE {i}

EverythingNow(i, lane) == IF lane = "detached" THEN everything ELSE everything \cup {i}

\* A variant that computes what a barrier waits for after it counted itself.
runCountsItself(lane) ==
  LET i == Len(requests) + 1
  IN  /\ i <= MaxRequests
      /\ requests' = Append(requests, [lane |-> lane, state |-> "waiting",
                                       after |-> IF lane = "barrier" THEN everything \cup {i} ELSE WaitsFor(lane)])
      /\ barrier' = IF lane = "barrier" THEN {i} ELSE barrier
      /\ sequences' = IF lane \in Sequenced THEN [sequences EXCEPT ![SequenceOf(lane)] = {i}] ELSE sequences
      /\ publications' = IF lane = "publications" THEN publications \cup {i} ELSE publications
      /\ everything' = EverythingNow(i, lane)

run(lane) ==
  LET i == Len(requests) + 1
  IN  /\ i <= MaxRequests
      /\ requests' = Append(requests, [lane |-> lane, after |-> WaitsFor(lane), state |-> "waiting"])
      /\ barrier' = IF lane = "barrier" THEN {i} ELSE barrier
      /\ sequences' = IF lane \in Sequenced THEN [sequences EXCEPT ![SequenceOf(lane)] = {i}] ELSE sequences
      /\ publications' = IF lane = "publications" THEN publications \cup {i} ELSE publications
      /\ everything' = EverythingNow(i, lane)

Become(i, state) == requests' = [requests EXCEPT ![i].state = state]

\* What the request waits for has settled: the coordinator begins to answer it.
Start(i) ==
  /\ requests[i].state = "waiting"
  /\ requests[i].after \subseteq Settled
  /\ Become(i, "running")
  /\ UNCHANGED <<barrier, sequences, publications, everything>>

\* It is answered or it fails.
Settle(i) ==
  /\ requests[i].state = "running"
  /\ Become(i, "settled")
  /\ UNCHANGED <<barrier, sequences, publications, everything>>

LanesNext ==
  \/ \E lane \in Lanes : run(lane)
  \/ \E i \in DOMAIN requests : Start(i) \/ Settle(i)

LanesSpec == LanesInit /\ [][LanesNext]_laneVars

\* The event loop starts what may start, and every request settles, except
\* that a detached one (a delivery, a place) may wait for ever.
FairLanes ==
  /\ LanesSpec
  /\ \A i \in 1..MaxRequests :
       /\ WF_laneVars(i \in DOMAIN requests /\ Start(i))
       /\ WF_laneVars(i \in DOMAIN requests /\ requests[i].lane # "detached" /\ Settle(i))

-----------------------------------------------------------------------------
(* Properties *)

Running == {i \in DOMAIN requests : requests[i].state = "running"}
Lane(i) == requests[i].lane

\* The promises wait for requests scheduled so far, each for earlier ones.
LanesTypeOK ==
  /\ \A i \in DOMAIN requests :
       /\ Lane(i) \in Lanes
       /\ requests[i].after \subseteq 1..(i - 1)
       /\ requests[i].state \in {"waiting", "running", "settled"}
  /\ (barrier \cup publications \cup everything) \subseteq DOMAIN requests
  /\ \A q \in DOMAIN sequences : sequences[q] \subseteq DOMAIN requests

\* Nothing of one attempt runs alongside its claim or its end, except what is
\* detached and was sent before: while a barrier runs, every earlier request
\* has settled and no later one has started.
BarrierRunsAlone ==
  \A b \in Running : Lane(b) = "barrier" =>
    \A i \in DOMAIN requests \ {b} :
      /\ i < b => Lane(i) = "detached" \/ i \in Settled
      /\ i > b => requests[i].state = "waiting"

\* The requests of one sequence run one at a time, in the order they were
\* sent: a worker's commits are applied in order, and its heartbeats and
\* control acknowledgements never overtake each other.
SequencesInOrder ==
  \A i, k \in DOMAIN requests :
    /\ i < k
    /\ {Lane(i), Lane(k)} \subseteq {"commits"} \/ {Lane(i), Lane(k)} \subseteq {"heartbeats", "acknowledgements"}
    /\ requests[k].state # "waiting"
    => i \in Settled

\* A control change is confirmed only once the activity the worker sent before
\* its acknowledgement is published.
AcknowledgedAfterPublished ==
  \A i, k \in DOMAIN requests :
    i < k /\ Lane(i) = "publications" /\ Lane(k) = "acknowledgements" /\ requests[k].state # "waiting"
    => i \in Settled

\* settled() waits for every request that is not detached.
EverythingIsWaitedFor ==
  everything \subseteq Settled =>
    \A i \in DOMAIN requests : Lane(i) # "detached" => i \in Settled

\* Every request is started in the end, although detached ones may never
\* settle: no cycle of waiting, and the end of an attempt never waits behind a
\* place or a delivery it asked for.
EveryRequestStarts ==
  \A i \in 1..MaxRequests :
    i \in DOMAIN requests ~> i \in DOMAIN requests /\ requests[i].state # "waiting"

\* What each lane promises its callers: sequences and acknowledgements in order,
\* and a settled() that waits for all but the detached.
LanesSound == LanesTypeOK /\ SequencesInOrder /\ AcknowledgedAfterPublished /\ EverythingIsWaitedFor
=============================================================================
