--------------------------- MODULE FencedLogProofs --------------------------
(***************************************************************************)
(* What the interface of a run journal gives its users, for any writers,   *)
(* keys and events.  An implementation of LogSpec inherits it.             *)
(***************************************************************************)
EXTENDS FencedLog, TLAPS

\* Epochs are numbers and the epoch of the lease bounds the recorded ones,
\* which is what makes the order of the log inductive.
FencedInv ==
  /\ epoch \in Nat
  /\ events \in Seq(Recordings)
  /\ \A i \in DOMAIN events : events[i].epoch \in Nat
  /\ OneWriterAfterAnother
  /\ KeysRecordedOnce

\* The absent run satisfies the invariant.
LEMMA FencedInit == LogInit => FencedInv
BY DEF LogInit, FencedInv, OneWriterAfterAnother, KeysRecordedOnce, OncePerKey

\* Recording appends at the end and at the latest epoch.
LEMMA RecordKeeps == FencedInv /\ Record => FencedInv'
<1> SUFFICES ASSUME FencedInv, Record PROVE FencedInv'
  OBVIOUS
<1>1. /\ epoch \in Nat /\ epoch' = epoch
      /\ events \in Seq(Recordings) /\ events' \in Seq(Recordings)
      /\ \A i \in DOMAIN events : i \in DOMAIN events' /\ events'[i] = events[i]
      /\ \A i \in DOMAIN events' \ DOMAIN events : events'[i].epoch = epoch
      /\ OncePerKey(events')
  BY DEF FencedInv, Record
<1>2. \A i \in DOMAIN events' : events'[i].epoch \in Nat /\ events'[i].epoch <= epoch
  BY <1>1 DEF FencedInv, OneWriterAfterAnother
<1>3. \A i, k \in DOMAIN events' : k \in DOMAIN events /\ i <= k => i \in DOMAIN events
  BY <1>1
<1>4. \A i, k \in DOMAIN events' : i <= k => events'[i].epoch <= events'[k].epoch
  <2> SUFFICES ASSUME NEW i \in DOMAIN events', NEW k \in DOMAIN events', i <= k
               PROVE  events'[i].epoch <= events'[k].epoch
    OBVIOUS
  <2>1. CASE k \in DOMAIN events
    <3>1. i \in DOMAIN events
      BY <1>3, <2>1
    <3>2. events[i].epoch <= events[k].epoch
      BY <2>1, <3>1 DEF FencedInv, OneWriterAfterAnother
    <3> QED BY <1>1, <2>1, <3>1, <3>2
  <2>2. CASE k \notin DOMAIN events
    BY <1>1, <1>2, <2>2
  <2> QED BY <2>1, <2>2
<1> QED BY <1>1, <1>2, <1>4 DEF FencedInv, OneWriterAfterAnother, KeysRecordedOnce

\* Every step of a fenced log keeps the invariant.
LEMMA FencedStep == FencedInv /\ [LogNext]_logVars => FencedInv'
<1> SUFFICES ASSUME FencedInv, [LogNext]_logVars PROVE FencedInv'
  OBVIOUS
<1>1. CASE Create
  BY <1>1 DEF Create, FencedInv, OneWriterAfterAnother, KeysRecordedOnce
<1>2. CASE Grant
  BY <1>2 DEF Grant, FencedInv, OneWriterAfterAnother, KeysRecordedOnce
<1>3. CASE Release
  BY <1>3 DEF Release, FencedInv, OneWriterAfterAnother, KeysRecordedOnce
<1>4. CASE Record
  BY <1>4, RecordKeeps
<1>5. CASE Delete
  <2>1. events' = <<>> /\ epoch' = epoch /\ DOMAIN <<>> = {} /\ <<>> \in Seq(Recordings)
    BY <1>5 DEF Delete
  <2> QED BY <2>1 DEF FencedInv, OneWriterAfterAnother, KeysRecordedOnce, OncePerKey
<1>6. CASE UNCHANGED logVars
  BY <1>6 DEF logVars, FencedInv, OneWriterAfterAnother, KeysRecordedOnce
<1> QED BY <1>1, <1>2, <1>3, <1>4, <1>5, <1>6 DEF LogNext

\* A run journal that implements the interface records each key once, and the
\* events of one writer after those of the previous one.
THEOREM FencedLogPromises == LogSpec => [](OneWriterAfterAnother /\ KeysRecordedOnce)
<1>1. FencedInv => OneWriterAfterAnother /\ KeysRecordedOnce
  BY DEF FencedInv
<1> QED BY <1>1, FencedInit, FencedStep, PTL DEF LogSpec
=============================================================================
