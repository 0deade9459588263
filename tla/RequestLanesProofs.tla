------------------------- MODULE RequestLanesProofs -------------------------
(***************************************************************************)
(* The ordering of one worker's requests, for any number of requests.      *)
(*                                                                         *)
(* A request waits for few others: a barrier for everything before it, any *)
(* other for the latest barrier and the latest of its sequence.  That it   *)
(* thereby follows all earlier ones rests on the requests between: the     *)
(* invariant says what each `after' holds (AfterInv), that what no longer  *)
(* waits has all of it settled (StartedInv), and that sequences keep their *)
(* order (OrderInv), which is its own induction hypothesis.                *)
(***************************************************************************)
EXTENDS RequestLanes, TLAPS

RequestRecords == [lane : Lanes, after : SUBSET Nat, state : {"waiting", "running", "settled"}]

\* The two lanes share a sequence.
Same(l, m) ==
  \/ l = "commits" /\ m = "commits"
  \/ l \in {"heartbeats", "acknowledgements"} /\ m \in {"heartbeats", "acknowledgements"}

\* Some member of S is a barrier of r at or after i.
BarrierIn(r, S, i) == \E j \in S : j \in DOMAIN r /\ i <= j /\ r[j].lane = "barrier"

\* Some member of S is at or after i in the sequence of lane l.
SequenceIn(r, S, i, l) == \E j \in S : j \in DOMAIN r /\ i <= j /\ Same(r[j].lane, l)

\* What a request of the list r waits for: earlier requests, and enough of them.
AfterOK(r, k) ==
  /\ r[k].after \subseteq 1..(k - 1)
  /\ r[k].lane = "barrier" => \A i \in 1..(k - 1) : r[i].lane # "detached" => i \in r[k].after
  /\ \A i \in 1..(k - 1) :
       /\ r[k].lane # "barrier" /\ r[i].lane = "barrier" => BarrierIn(r, r[k].after, i)
       /\ Same(r[i].lane, r[k].lane) => SequenceIn(r, r[k].after, i, r[k].lane)
       /\ r[k].lane = "acknowledgements" /\ r[i].lane = "publications" => i \in r[k].after

\* What the five promises wait for.
PromiseInv ==
  /\ requests \in Seq(RequestRecords)
  /\ barrier \subseteq DOMAIN requests
  /\ sequences \in [{"commits", "heartbeats"} -> SUBSET DOMAIN requests]
  /\ publications = {i \in DOMAIN requests : requests[i].lane = "publications"}
  /\ everything = {i \in DOMAIN requests : requests[i].lane # "detached"}
  /\ \A i \in DOMAIN requests : requests[i].lane = "barrier" => BarrierIn(requests, barrier, i)
  /\ \A i \in DOMAIN requests : requests[i].lane \in Sequenced =>
       SequenceIn(requests, sequences[SequenceOf(requests[i].lane)], i, requests[i].lane)

AfterInv == \A k \in DOMAIN requests : AfterOK(requests, k)

StartedInv ==
  \A k \in DOMAIN requests : requests[k].state # "waiting" => requests[k].after \subseteq Settled

OrderInv ==
  \A i, k \in DOMAIN requests :
    i < k /\ Same(requests[i].lane, requests[k].lane) /\ requests[k].state # "waiting" => i \in Settled

LaneInv == PromiseInv /\ AfterInv /\ StartedInv /\ OrderInv

LEMMA LaneInit == LanesInit => LaneInv
<1> SUFFICES ASSUME LanesInit PROVE LaneInv
  OBVIOUS
<1>1. requests = <<>> /\ DOMAIN requests = {} /\ requests \in Seq(RequestRecords)
  BY DEF LanesInit
<1> HIDE DEF RequestRecords
<1> QED BY <1>1 DEF LanesInit, LaneInv, PromiseInv, AfterInv, StartedInv, OrderInv

-----------------------------------------------------------------------------
(* What is true of a list of requests stays true when the list grows and when *)
(* only states of requests change.                                            *)

LEMMA WaitingKept ==
  ASSUME NEW r, NEW s, NEW S, NEW T, NEW i, NEW l, S \subseteq T,
         DOMAIN r \subseteq DOMAIN s, \A j \in DOMAIN r : s[j].lane = r[j].lane
  PROVE  /\ BarrierIn(r, S, i) => BarrierIn(s, T, i)
         /\ SequenceIn(r, S, i, l) => SequenceIn(s, T, i, l)
<1>1. BarrierIn(r, S, i) => BarrierIn(s, T, i)
  BY DEF BarrierIn
<1>2. SequenceIn(r, S, i, l) => SequenceIn(s, T, i, l)
  BY DEF SequenceIn
<1> QED BY <1>1, <1>2

LEMMA AfterKept ==
  ASSUME NEW r, NEW s, NEW m \in Nat, DOMAIN r = 1..m, DOMAIN r \subseteq DOMAIN s,
         \A j \in DOMAIN r : s[j].lane = r[j].lane /\ s[j].after = r[j].after,
         NEW k \in DOMAIN r, AfterOK(r, k)
  PROVE  AfterOK(s, k)
<1>1. k \in DOMAIN r /\ \A i \in 1..(k - 1) : i \in DOMAIN r
  OBVIOUS
<1>2. s[k].lane = r[k].lane /\ s[k].after = r[k].after /\ \A i \in 1..(k - 1) : s[i].lane = r[i].lane
  BY <1>1
<1>3. \A i : /\ BarrierIn(r, r[k].after, i) => BarrierIn(s, r[k].after, i)
             /\ SequenceIn(r, r[k].after, i, r[k].lane) => SequenceIn(s, r[k].after, i, r[k].lane)
  <2> SUFFICES ASSUME NEW i
               PROVE  /\ BarrierIn(r, r[k].after, i) => BarrierIn(s, r[k].after, i)
                      /\ SequenceIn(r, r[k].after, i, r[k].lane) => SequenceIn(s, r[k].after, i, r[k].lane)
    OBVIOUS
  <2> DEFINE S == r[k].after
  <2>1. (\A j \in DOMAIN r : s[j].lane = r[j].lane) /\ S \subseteq S
    OBVIOUS
  <2> HIDE DEF S
  <2>2. BarrierIn(r, S, i) => BarrierIn(s, S, i)
    BY <2>1, WaitingKept, Zenon
  <2>3. SequenceIn(r, S, i, r[k].lane) => SequenceIn(s, S, i, r[k].lane)
    BY <2>1, WaitingKept, Zenon
  <2> QED BY <2>2, <2>3 DEF S
<1> DEFINE a == r[k].after  l == r[k].lane
<1> HIDE DEF a, l
<1>4. s[k].lane = l /\ s[k].after = a /\ r[k].lane = l /\ r[k].after = a
  BY <1>2 DEF a, l
<1>5. a \subseteq 1..(k - 1) /\ (l = "barrier" => \A i \in 1..(k - 1) : r[i].lane # "detached" => i \in a)
  BY <1>4 DEF AfterOK
<1>6. \A i \in 1..(k - 1) : /\ l # "barrier" /\ r[i].lane = "barrier" => BarrierIn(s, a, i)
                            /\ Same(r[i].lane, l) => SequenceIn(s, a, i, l)
                            /\ l = "acknowledgements" /\ r[i].lane = "publications" => i \in a
  BY <1>3, <1>4 DEF AfterOK
<1> QED BY <1>2, <1>4, <1>5, <1>6 DEF AfterOK

-----------------------------------------------------------------------------
(* run: a request joins. *)

LEMMA Joined ==
  ASSUME PromiseInv, NEW lane \in Lanes, run(lane), NEW n, n = Len(requests) + 1
  PROVE  /\ n \in Nat \ {0}
         /\ DOMAIN requests = 1..(n - 1)
         /\ DOMAIN requests' = 1..n
         /\ requests' \in Seq(RequestRecords)
         /\ requests'[n].lane = lane /\ requests'[n].after = WaitsFor(lane) /\ requests'[n].state = "waiting"
         /\ \A i \in DOMAIN requests : requests'[i] = requests[i]
<1> DEFINE r == [lane |-> lane, after |-> WaitsFor(lane), state |-> "waiting"]
<1>5. requests \in Seq(RequestRecords)
  BY DEF PromiseInv
<1>1. WaitsFor(lane) \subseteq DOMAIN requests
  BY DEF PromiseInv, WaitsFor, Sequenced, SequenceOf
<1>2. WaitsFor(lane) \in SUBSET Nat
  BY <1>1, <1>5
<1>3. r \in RequestRecords /\ r.lane = lane /\ r.after = WaitsFor(lane) /\ r.state = "waiting"
  BY <1>2 DEF RequestRecords
<1>4. requests' = Append(requests, r)
  BY DEF run
<1> HIDE DEF r, RequestRecords
<1>6. /\ Len(requests) \in Nat /\ n \in Nat \ {0}
      /\ DOMAIN requests = 1..(n - 1)
      /\ requests' \in Seq(RequestRecords)
      /\ Len(requests') = n
      /\ requests'[n] = r
      /\ \A i \in 1..(n - 1) : requests'[i] = requests[i]
  BY <1>3, <1>4, <1>5
<1>7. DOMAIN requests' = 1..n
  BY <1>6
<1> QED BY <1>3, <1>6, <1>7

LEMMA RunKeepsPromises ==
  ASSUME PromiseInv, NEW lane \in Lanes, run(lane)
  PROVE  PromiseInv'
<1> DEFINE n == Len(requests) + 1
<1>2. barrier' = IF lane = "barrier" THEN {n} ELSE barrier
  BY DEF run
<1>3. publications' = IF lane = "publications" THEN publications \cup {n} ELSE publications
  BY DEF run
<1>4. everything' = IF lane = "detached" THEN everything ELSE everything \cup {n}
  BY DEF run, EverythingNow
<1>5. sequences' = IF lane \in Sequenced THEN [sequences EXCEPT ![SequenceOf(lane)] = {n}] ELSE sequences
  BY DEF run
<1>0. /\ n \in Nat \ {0}
      /\ DOMAIN requests = 1..(n - 1) /\ DOMAIN requests' = 1..n
      /\ requests' \in Seq(RequestRecords)
      /\ requests'[n].lane = lane
      /\ \A i \in DOMAIN requests : requests'[i] = requests[i]
  BY Joined
<1> HIDE DEF n
<1>1. \A i \in DOMAIN requests' : i \in DOMAIN requests \/ i = n
  BY <1>0
<1>6. DOMAIN requests \subseteq DOMAIN requests' /\ n \in DOMAIN requests' /\ \A i \in DOMAIN requests' : i <= n
  BY <1>0
<1>a. \A i \in DOMAIN requests : requests'[i].lane = requests[i].lane
  BY <1>0
<1>7. barrier' \subseteq DOMAIN requests'
  BY <1>2, <1>6 DEF PromiseInv
<1>8. sequences' \in [{"commits", "heartbeats"} -> SUBSET DOMAIN requests']
  <2>1. sequences \in [{"commits", "heartbeats"} -> SUBSET DOMAIN requests']
    BY <1>6 DEF PromiseInv
  <2>2. {n} \in SUBSET DOMAIN requests'
    BY <1>6
  <2> QED BY <2>1, <2>2, <1>5, Zenon
<1>9. publications' = {i \in DOMAIN requests' : requests'[i].lane = "publications"}
  BY <1>0, <1>1, <1>a, <1>3, <1>6 DEF PromiseInv
<1>10. everything' = {i \in DOMAIN requests' : requests'[i].lane # "detached"}
  BY <1>0, <1>1, <1>a, <1>4, <1>6 DEF PromiseInv
<1>11. ASSUME NEW i \in DOMAIN requests', requests'[i].lane = "barrier" PROVE BarrierIn(requests', barrier', i)
  <2>1. CASE lane = "barrier"
    BY <2>1, <1>0, <1>2, <1>6 DEF BarrierIn
  <2>2. CASE lane # "barrier"
    <3>1. i \in DOMAIN requests /\ barrier' = barrier
      BY <2>2, <1>0, <1>1, <1>2, <1>11
    <3>2. BarrierIn(requests, barrier, i)
      BY <3>1, <1>a, <1>11 DEF PromiseInv
    <3> QED BY <3>1, <3>2, <1>a, <1>6, WaitingKept
  <2> QED BY <2>1, <2>2
<1>12. ASSUME NEW i \in DOMAIN requests', requests'[i].lane \in Sequenced
       PROVE  SequenceIn(requests', sequences'[SequenceOf(requests'[i].lane)], i, requests'[i].lane)
  <2> DEFINE l == requests'[i].lane
  <2>1. CASE lane \in Sequenced /\ SequenceOf(lane) = SequenceOf(l)
    <3>1. sequences'[SequenceOf(l)] = {n}
      BY <2>1, <1>5, <1>12 DEF PromiseInv, SequenceOf
    <3>2. Same(lane, l)
      BY <2>1, <1>12 DEF Same, Sequenced, SequenceOf
    <3> QED BY <3>1, <3>2, <1>0, <1>6 DEF SequenceIn
  <2>2. CASE ~(lane \in Sequenced /\ SequenceOf(lane) = SequenceOf(l))
    <3>1. i \in DOMAIN requests /\ l = requests[i].lane
      BY <2>2, <1>0, <1>1, <1>a, <1>12
    <3>2. sequences'[SequenceOf(l)] = sequences[SequenceOf(l)]
      BY <2>2, <1>5, <1>12 DEF PromiseInv, SequenceOf
    <3>3. SequenceIn(requests, sequences[SequenceOf(l)], i, l)
      BY <3>1, <1>12 DEF PromiseInv
    <3> QED BY <3>2, <3>3, <1>a, <1>6, WaitingKept
  <2> QED BY <2>1, <2>2
<1> HIDE DEF RequestRecords
<1> QED BY <1>0, <1>7, <1>8, <1>9, <1>10, <1>11, <1>12 DEF PromiseInv

LEMMA RunKeepsAfter ==
  ASSUME PromiseInv, AfterInv, NEW lane \in Lanes, run(lane)
  PROVE  AfterInv'
<1> DEFINE n == Len(requests) + 1
           w == WaitsFor(lane)
<1>0. /\ n \in Nat \ {0}
      /\ DOMAIN requests = 1..(n - 1) /\ DOMAIN requests' = 1..n
      /\ requests'[n].lane = lane /\ requests'[n].after = w
      /\ \A i \in DOMAIN requests : requests'[i] = requests[i]
  BY Joined
<1> HIDE DEF n, w
<1>1. \A i \in DOMAIN requests' : i \in DOMAIN requests \/ i = n
  BY <1>0
<1>2. DOMAIN requests \subseteq DOMAIN requests'
  BY <1>0
<1>3. ASSUME NEW k \in DOMAIN requests PROVE AfterOK(requests', k)
  <2>1. AfterOK(requests, k)
    BY DEF AfterInv
  <2>2. \A j \in DOMAIN requests : requests'[j].lane = requests[j].lane /\ requests'[j].after = requests[j].after
    BY <1>0
  <2>3. n - 1 \in Nat /\ DOMAIN requests = 1..(n - 1)
    BY <1>0
  <2> QED BY <2>1, <2>2, <2>3, <1>2, AfterKept, Zenon
<1>4. AfterOK(requests', n)
  <2>0. \A i \in DOMAIN requests : requests'[i].lane = requests[i].lane
    BY <1>0
  <2>1. w \subseteq DOMAIN requests
    BY DEF PromiseInv, WaitsFor, Sequenced, SequenceOf, w
  <2>2. ASSUME NEW i \in DOMAIN requests, lane = "barrier", requests'[i].lane # "detached" PROVE i \in w
    BY <2>2, <2>0 DEF PromiseInv, WaitsFor, w
  <2>3. ASSUME NEW i \in DOMAIN requests, lane # "barrier", requests'[i].lane = "barrier"
        PROVE  BarrierIn(requests', w, i)
    <3>1. BarrierIn(requests, barrier, i) /\ barrier \subseteq w
      BY <2>3, <2>0 DEF PromiseInv, WaitsFor, w
    <3> QED BY <3>1, <2>0, <1>2, WaitingKept, Zenon
  <2>4. ASSUME NEW i \in DOMAIN requests, Same(requests'[i].lane, lane)
        PROVE  SequenceIn(requests', w, i, lane)
    <3>1. /\ requests[i].lane \in Sequenced /\ lane \in Sequenced
          /\ SequenceOf(requests[i].lane) = SequenceOf(lane)
          /\ \A l : Same(l, requests[i].lane) => Same(l, lane)
      BY <2>4, <2>0 DEF Same, Sequenced, SequenceOf
    <3>2. SequenceIn(requests, sequences[SequenceOf(lane)], i, requests[i].lane)
      BY <3>1 DEF PromiseInv
    <3>3. SequenceIn(requests, sequences[SequenceOf(lane)], i, lane)
      BY <3>1, <3>2 DEF SequenceIn
    <3>4. sequences[SequenceOf(lane)] \subseteq w
      BY <3>1 DEF WaitsFor, Sequenced, w
    <3> QED BY <3>3, <3>4, <2>0, <1>2, WaitingKept
  <2>5. ASSUME NEW i \in DOMAIN requests, lane = "acknowledgements", requests'[i].lane = "publications" PROVE i \in w
    BY <2>5, <2>0 DEF PromiseInv, WaitsFor, w
  <2> QED BY <1>0, <2>1, <2>2, <2>3, <2>4, <2>5 DEF AfterOK
<1> QED BY <1>1, <1>3, <1>4 DEF AfterInv

LEMMA RunStep ==
  ASSUME LaneInv, NEW lane \in Lanes, run(lane)
  PROVE  LaneInv'
<1> DEFINE n == Len(requests) + 1
<1>0. PromiseInv /\ AfterInv /\ StartedInv /\ OrderInv
  BY DEF LaneInv
<1>1. /\ n \in Nat \ {0}
      /\ DOMAIN requests = 1..(n - 1) /\ DOMAIN requests' = 1..n
      /\ requests'[n].state = "waiting"
      /\ \A i \in DOMAIN requests : requests'[i] = requests[i]
  BY <1>0, Joined
<1> HIDE DEF n
<1>2. \A i \in DOMAIN requests' : i \in DOMAIN requests \/ i = n
  BY <1>1
<1>3. Settled' = Settled
  <2>1. DOMAIN requests \subseteq DOMAIN requests'
    BY <1>1
  <2> QED BY <1>1, <1>2, <2>1 DEF Settled
<1>4. StartedInv'
  BY <1>0, <1>1, <1>2, <1>3 DEF StartedInv
<1>5. OrderInv'
  <2> SUFFICES ASSUME NEW i \in DOMAIN requests', NEW k \in DOMAIN requests',
                      i < k, Same(requests'[i].lane, requests'[k].lane), requests'[k].state # "waiting"
               PROVE  i \in Settled'
    BY DEF OrderInv
  <2>1. k \in DOMAIN requests /\ k < n
    BY <1>1, <1>2
  <2>2. i \in DOMAIN requests
    BY <2>1, <1>1, <1>2
  <2> QED BY <1>0, <1>1, <1>3, <2>1, <2>2 DEF OrderInv
<1> QED BY <1>0, <1>4, <1>5, RunKeepsPromises, RunKeepsAfter DEF LaneInv

-----------------------------------------------------------------------------
(* Start and Settle: the state of one request moves on. *)

LEMMA Moved ==
  ASSUME PromiseInv, NEW k \in DOMAIN requests, NEW state \in {"running", "settled"}, Become(k, state)
  PROVE  /\ DOMAIN requests' = DOMAIN requests
         /\ requests' \in Seq(RequestRecords)
         /\ \A i \in DOMAIN requests : /\ requests'[i].lane = requests[i].lane
                                       /\ requests'[i].after = requests[i].after
                                       /\ i # k => requests'[i].state = requests[i].state
         /\ requests'[k].state = state
<1>1. requests \in Seq(RequestRecords)
  BY DEF PromiseInv
<1>2. requests[k] \in RequestRecords
  BY <1>1
<1> DEFINE r == [requests[k] EXCEPT !.state = state]
<1>3. r \in RequestRecords /\ r.lane = requests[k].lane /\ r.after = requests[k].after /\ r.state = state
  BY <1>2 DEF RequestRecords
<1>4. requests' = [requests EXCEPT ![k] = r]
  BY DEF Become
<1> HIDE DEF r, RequestRecords
<1>5. requests' \in Seq(RequestRecords) /\ DOMAIN requests' = DOMAIN requests
  BY <1>1, <1>3, <1>4
<1>6. \A i \in DOMAIN requests : requests'[i] = IF i = k THEN r ELSE requests[i]
  BY <1>1, <1>4
<1> QED BY <1>3, <1>5, <1>6

LEMMA MovedKeepsWaits ==
  ASSUME PromiseInv, AfterInv, NEW k \in DOMAIN requests, NEW state \in {"running", "settled"}, Become(k, state),
         UNCHANGED <<barrier, sequences, publications, everything>>
  PROVE  PromiseInv' /\ AfterInv'
<1>1. /\ DOMAIN requests' = DOMAIN requests
      /\ requests' \in Seq(RequestRecords)
      /\ \A i \in DOMAIN requests : requests'[i].lane = requests[i].lane /\ requests'[i].after = requests[i].after
  BY Moved
<1>2. \A i \in DOMAIN requests : requests'[i].lane = requests[i].lane
  BY <1>1
<1>3. PromiseInv'
  <2>1. \A i \in DOMAIN requests : requests[i].lane = "barrier" => BarrierIn(requests', barrier, i)
    BY <1>1, <1>2, WaitingKept, Zenon DEF PromiseInv
  <2>2. ASSUME NEW i \in DOMAIN requests, requests[i].lane \in Sequenced
        PROVE  SequenceIn(requests', sequences[SequenceOf(requests[i].lane)], i, requests[i].lane)
    <3>1. SequenceIn(requests, sequences[SequenceOf(requests[i].lane)], i, requests[i].lane)
      BY <2>2 DEF PromiseInv
    <3> QED BY <3>1, <1>1, <1>2, WaitingKept
  <2>3. publications = {i \in DOMAIN requests : requests'[i].lane = "publications"}
    BY <1>2 DEF PromiseInv
  <2>4. everything = {i \in DOMAIN requests : requests'[i].lane # "detached"}
    BY <1>2 DEF PromiseInv
  <2>5. barrier \subseteq DOMAIN requests /\ sequences \in [{"commits", "heartbeats"} -> SUBSET DOMAIN requests]
    BY DEF PromiseInv
  <2> HIDE DEF RequestRecords
  <2> QED BY <1>1, <1>2, <2>1, <2>2, <2>3, <2>4, <2>5 DEF PromiseInv
<1>4. AfterInv'
  <2>1. Len(requests) \in Nat /\ DOMAIN requests = 1..Len(requests)
    BY DEF PromiseInv
  <2>2. ASSUME NEW i \in DOMAIN requests
        PROVE  AfterOK(requests', i)
    <3>1. AfterOK(requests, i)
      BY DEF AfterInv
    <3> QED BY <1>1, <2>1, <3>1, AfterKept, Zenon
  <2> QED BY <1>1, <2>2 DEF AfterInv
<1> QED BY <1>3, <1>4

LEMMA StartStep ==
  ASSUME LaneInv, NEW k \in DOMAIN requests, Start(k)
  PROVE  LaneInv'
<1>0. PromiseInv /\ AfterInv /\ StartedInv /\ OrderInv /\ Become(k, "running")
      /\ UNCHANGED <<barrier, sequences, publications, everything>>
  BY DEF LaneInv, Start
<1>1. PromiseInv' /\ AfterInv'
  BY <1>0, MovedKeepsWaits
<1>2. /\ DOMAIN requests' = DOMAIN requests
      /\ \A i \in DOMAIN requests : /\ requests'[i].lane = requests[i].lane
                                    /\ requests'[i].after = requests[i].after
                                    /\ i # k => requests'[i].state = requests[i].state
      /\ requests'[k].state = "running"
  BY <1>0, Moved
<1>3. requests[k].state = "waiting" /\ requests[k].after \subseteq Settled
  BY DEF Start
<1>4. Settled' = Settled
  BY <1>2, <1>3 DEF Settled
<1>5. StartedInv'
  BY <1>0, <1>2, <1>3, <1>4 DEF StartedInv
<1>6. OrderInv'
  <2> SUFFICES ASSUME NEW i \in DOMAIN requests, NEW m \in DOMAIN requests,
                      i < m, Same(requests[i].lane, requests[m].lane), requests'[m].state # "waiting"
               PROVE  i \in Settled
    BY <1>2, <1>4 DEF OrderInv
  <2>1. CASE m # k
    BY <2>1, <1>0, <1>2 DEF OrderInv
  <2>2. CASE m = k
    <3>0. Len(requests) \in Nat /\ DOMAIN requests = 1..Len(requests)
      BY <1>0 DEF PromiseInv
    <3>1. i \in 1..(k - 1)
      BY <2>2, <3>0
    <3>2. AfterOK(requests, k)
      BY <1>0 DEF AfterInv
    <3>3. SequenceIn(requests, requests[k].after, i, requests[k].lane)
      BY <2>2, <3>1, <3>2 DEF AfterOK
    <3>4. PICK j \in requests[k].after : j \in DOMAIN requests /\ i <= j /\ Same(requests[j].lane, requests[k].lane)
      BY <3>3 DEF SequenceIn
    <3>5. j \in Settled
      BY <3>4, <1>3
    <3>6. CASE i = j
      BY <3>5, <3>6
    <3>7. CASE i # j
      <4>1. i < j
        BY <3>0, <3>4, <3>7
      <4>2. Same(requests[i].lane, requests[j].lane)
        BY <2>2, <3>4 DEF Same
      <4>3. requests[j].state # "waiting"
        BY <3>5 DEF Settled
      <4> QED BY <4>1, <4>2, <4>3, <3>4, <1>0 DEF OrderInv
    <3> QED BY <3>6, <3>7
  <2> QED BY <2>1, <2>2
<1> QED BY <1>1, <1>5, <1>6 DEF LaneInv

LEMMA SettleStep ==
  ASSUME LaneInv, NEW k \in DOMAIN requests, Settle(k)
  PROVE  LaneInv'
<1>0. PromiseInv /\ AfterInv /\ StartedInv /\ OrderInv /\ Become(k, "settled")
      /\ UNCHANGED <<barrier, sequences, publications, everything>>
  BY DEF LaneInv, Settle
<1>1. PromiseInv' /\ AfterInv'
  BY <1>0, MovedKeepsWaits
<1>2. /\ DOMAIN requests' = DOMAIN requests
      /\ \A i \in DOMAIN requests : /\ requests'[i].lane = requests[i].lane
                                    /\ requests'[i].after = requests[i].after
                                    /\ i # k => requests'[i].state = requests[i].state
      /\ requests'[k].state = "settled"
  BY <1>0, Moved
<1>3. requests[k].state = "running"
  BY DEF Settle
<1>4. Settled \subseteq Settled'
  BY <1>2 DEF Settled
<1>5. \A i \in DOMAIN requests : requests'[i].state # "waiting" => requests[i].state # "waiting"
  BY <1>2, <1>3
<1>6. StartedInv'
  BY <1>0, <1>2, <1>4, <1>5 DEF StartedInv
<1>7. OrderInv'
  BY <1>0, <1>2, <1>4, <1>5 DEF OrderInv
<1> QED BY <1>1, <1>6, <1>7 DEF LaneInv

\* The ordering invariant holds of every behaviour of the lanes.
THEOREM LanesKeepOrder == LanesSpec => []LaneInv
<1>1. ASSUME LaneInv, [LanesNext]_laneVars PROVE LaneInv'
  <2>1. CASE UNCHANGED laneVars
    BY <1>1, <2>1 DEF laneVars, LaneInv, PromiseInv, AfterInv, StartedInv, OrderInv, Settled
  <2>2. CASE LanesNext
    BY <1>1, <2>2, RunStep, StartStep, SettleStep DEF LanesNext
  <2> QED BY <1>1, <2>1, <2>2
<1> QED BY LaneInit, <1>1, PTL DEF LanesSpec

-----------------------------------------------------------------------------

LEMMA LaneInvIsSound == LaneInv => LanesSound
<1> SUFFICES ASSUME LaneInv PROVE LanesSound
  OBVIOUS
<1>0. PromiseInv /\ AfterInv /\ StartedInv /\ OrderInv
  BY DEF LaneInv
<1>1. Len(requests) \in Nat /\ DOMAIN requests = 1..Len(requests)
  BY <1>0 DEF PromiseInv
<1>2. \A i \in DOMAIN requests : requests[i] \in RequestRecords
  BY <1>0 DEF PromiseInv
<1>3. LanesTypeOK
  <2>1. ASSUME NEW i \in DOMAIN requests
        PROVE  /\ Lane(i) \in Lanes
               /\ requests[i].after \subseteq 1..(i - 1)
               /\ requests[i].state \in {"waiting", "running", "settled"}
    BY <1>0, <1>2 DEF RequestRecords, Lane, AfterInv, AfterOK
  <2>2. (barrier \cup publications \cup everything) \subseteq DOMAIN requests
    BY <1>0 DEF PromiseInv
  <2>3. \A q \in DOMAIN sequences : sequences[q] \subseteq DOMAIN requests
    BY <1>0 DEF PromiseInv
  <2> QED BY <2>1, <2>2, <2>3 DEF LanesTypeOK
<1>4. SequencesInOrder
  BY <1>0 DEF SequencesInOrder, OrderInv, Same, Lane
<1>5. AcknowledgedAfterPublished
  <2> SUFFICES ASSUME NEW i \in DOMAIN requests, NEW k \in DOMAIN requests, i < k,
                      requests[i].lane = "publications", requests[k].lane = "acknowledgements",
                      requests[k].state # "waiting"
               PROVE  i \in Settled
    BY DEF AcknowledgedAfterPublished, Lane
  <2>1. i \in 1..(k - 1) /\ AfterOK(requests, k)
    BY <1>0, <1>1 DEF AfterInv
  <2>2. i \in requests[k].after
    BY <2>1 DEF AfterOK
  <2> QED BY <2>2, <1>0 DEF StartedInv
<1>6. EverythingIsWaitedFor
  BY <1>0 DEF EverythingIsWaitedFor, PromiseInv, Lane
<1> QED BY <1>3, <1>4, <1>5, <1>6 DEF LanesSound

LEMMA LaneInvKeepsBarriers == LaneInv => BarrierRunsAlone
<1> SUFFICES ASSUME LaneInv, NEW b \in Running, requests[b].lane = "barrier",
                    NEW i \in DOMAIN requests \ {b}
             PROVE  /\ i < b => requests[i].lane = "detached" \/ i \in Settled
                    /\ i > b => requests[i].state = "waiting"
  BY DEF BarrierRunsAlone, Lane
<1>0. PromiseInv /\ AfterInv /\ StartedInv
  BY DEF LaneInv
<1>1. Len(requests) \in Nat /\ DOMAIN requests = 1..Len(requests)
  BY <1>0 DEF PromiseInv
<1>2. b \in DOMAIN requests /\ requests[b].state = "running" /\ b \notin Settled
  BY DEF Running, Settled
<1>3. \A k \in DOMAIN requests : AfterOK(requests, k)
  BY <1>0 DEF AfterInv
<1>4. ASSUME i < b, requests[i].lane # "detached" PROVE i \in Settled
  <2>1. i \in 1..(b - 1)
    BY <1>1, <1>2, <1>4
  <2>2. i \in requests[b].after
    BY <2>1, <1>2, <1>3, <1>4 DEF AfterOK
  <2> QED BY <2>2, <1>0, <1>2 DEF StartedInv
<1>5. ASSUME i > b, requests[i].state # "waiting" PROVE FALSE
  <2>1. b \in 1..(i - 1) /\ AfterOK(requests, i)
    BY <1>1, <1>2, <1>3, <1>5
  <2>2. requests[i].after \subseteq Settled
    BY <1>0, <1>5 DEF StartedInv
  <2>3. CASE requests[i].lane = "barrier"
    BY <2>1, <2>2, <2>3, <1>2 DEF AfterOK
  <2>4. CASE requests[i].lane # "barrier"
    <3>1. BarrierIn(requests, requests[i].after, b)
      BY <2>1, <2>4 DEF AfterOK
    <3>2. PICK j \in requests[i].after : j \in DOMAIN requests /\ b <= j /\ requests[j].lane = "barrier"
      BY <3>1 DEF BarrierIn
    <3>3. j \in Settled /\ j # b /\ requests[j].state # "waiting"
      BY <3>2, <2>2, <1>2 DEF Settled
    <3>4. b \in 1..(j - 1) /\ AfterOK(requests, j)
      BY <3>2, <3>3, <1>1, <1>2, <1>3
    <3>5. b \in requests[j].after
      BY <3>2, <3>4 DEF AfterOK
    <3>6. requests[j].after \subseteq Settled
      BY <3>2, <3>3, <1>0 DEF StartedInv
    <3> QED BY <3>5, <3>6, <1>2
  <2> QED BY <2>3, <2>4
<1> QED BY <1>4, <1>5

\* Whatever a worker sends: commits, and heartbeats with acknowledgements, are
\* answered in the order sent, an acknowledgement after the activity published
\* before it, and settled() waits for all but the detached (WorkerRequestLanes).
THEOREM LanesAreSound == LanesSpec => []LanesSound
BY LanesKeepOrder, LaneInvIsSound, PTL

\* While a claim or the end of an attempt is answered, every earlier request
\* that is not detached has settled and no later one has started.
THEOREM BarriersRunAlone == LanesSpec => []BarrierRunsAlone
BY LanesKeepOrder, LaneInvKeepsBarriers, PTL
=============================================================================
