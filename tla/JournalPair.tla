---------------------------- MODULE JournalPair -----------------------------
(***************************************************************************)
(* The SQL and the in-memory run journal side by side: every call is made  *)
(* of both, and one that a journal refuses leaves that journal alone.      *)
(* JournalDurableBackend uses either, chosen when a session starts.  The   *)
(* in-memory journal has no appendMany, so the backend appends the events  *)
(* of a batch one after the other (appendBatch).                           *)
(***************************************************************************)
EXTENDS RunJournal, MemoryJournal

pairVars == <<journalVars, memoryVars>>

PairInit == Init /\ MemoryInit

MemoryRefuses == UNCHANGED <<memStatus, entries, memLease, expired, answered>>

\* An action that either journal takes or refuses.
Sql(call)    == call \/ (~ENABLED call /\ UNCHANGED journalVars)
Memory(call) == call \/ (~ENABLED call /\ MemoryRefuses)
Both(a, b)   == Sql(a) /\ Memory(b)

\* An event that fails its validation is refused by both.
Recorded(m, l, r) == IF r = Refused THEN m ELSE recorded(m, l, r)

\* appendBatch over a journal without appendMany.
appendEach(l, r1, r2) ==
  /\ memoryCheckLease(l) /\ InMap
  /\ MemoryWrites(Recorded(Recorded(MemoryRun, l, r1), l, r2))

\* Both answer that a run exists when both have it, and refuse a lease that
\* neither has.
Calls ==
  \/ /\ ~Exists \/ ~InMap
     /\ \E s \in Statuses :
          \/ Both(createRun(s), memoryCreateRun(s))
          \/ \E seeds \in SeedLists : Both(createRunWithEvents(s, seeds), memoryCreateRunWithEvents(s, seeds))
  \/ Both(deleteRun, memoryDeleteRun)
  \/ \E h \in Holders : Both(acquire(h), memoryAcquire(h)) \/ Both(takeoverExpired(h), memoryTakeoverExpired(h))
  \/ \E h, expected \in Holders : Both(takeover(h, expected), memoryTakeover(h, expected))
  \/ \E l \in {m \in granted \cup answered : checkLease(m) \/ memoryCheckLease(m)} :
       \/ Both(renew(l), memoryRenew(l)) \/ Both(release(l), memoryRelease(l))
       \/ \E e \in Expected : Both(deleteOwnedRun(l, e), memoryDeleteOwnedRun(l, e))
       \/ \E r \in Events, e \in Expected : Both(append(l, r, e), memoryAppend(l, r, e))
       \/ \E e \in Expected : append(l, Refused, e) /\ MemoryRefuses
       \/ \E r1, r2 \in Requests : Both(appendMany(l, r1, r2), appendEach(l, r1, r2))
  \/ Both(LeaseAges, MemoryLeaseAges)

PairNext == (ensureOpen /\ Calls) \/ (memoryClose /\ UNCHANGED journalVars)

PairSpec == PairInit /\ [][PairNext]_pairVars

-----------------------------------------------------------------------------
(* Properties *)

\* A caller cannot tell which journal it has: whatever is called, in whatever
\* order and by however late a holder, the two hold the same run, grant the same
\* leases and refuse the same calls.
JournalsAgree ==
  /\ memStatus = status /\ entries = log
  /\ memLease = [holder |-> lease.holder, epoch |-> lease.epoch] /\ expired = lease.stale
  /\ answered = granted
=============================================================================
