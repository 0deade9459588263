---------------------------- MODULE MemoryJournal ---------------------------
(***************************************************************************)
(* The in-memory run journal (MemoryRunJournal), which a run without a     *)
(* database uses.  Each method runs to its end without yielding, so each   *)
(* is one action; deleteOwnedRun only awaits deleteRun, which has run by   *)
(* then.  It keeps no separate status column: a status-changed event       *)
(* replaces the status in the header.  One run is modelled, as in          *)
(* RunJournal, and calls come from any lease ever answered.                *)
(***************************************************************************)
EXTENDS JournalValues

VARIABLES
  memStatus,      \* runs.get(id).header.status, or NoRun
  entries,        \* runs.get(id).entries
  memLease,       \* leases.get(id); an absent entry is Unheld at epoch 0
  expired,        \* the lease was last renewed before the takeover window
  answered,       \* leases answered to callers
  closed          \* close() was called

memoryVars == <<memStatus, entries, memLease, expired, answered, closed>>

InMap == memStatus # NoRun

\* s is the status after some events: the last status change wins.
StatusAfter(s, first, list) ==
  LET changes == {i \in DOMAIN list : list[i].body \in Statuses}
  IN  \/ changes = {} /\ s = first
      \/ \E i \in changes : s = list[i].body /\ \A k \in changes : k <= i

KeyIsIn(key, list) == key # NoKey /\ \E i \in DOMAIN list : list[i].key = key

-----------------------------------------------------------------------------
MemoryInit ==
  /\ memStatus = NoRun
  /\ entries = <<>>
  /\ memLease = [holder |-> Unheld, epoch |-> 0]
  /\ expired = FALSE
  /\ answered = {}
  /\ closed = FALSE

memoryCreateRun(s) ==
  /\ ~InMap
  /\ memStatus' = s
  /\ entries' = <<>>
  /\ UNCHANGED <<memLease, expired, answered>>

\* Two seeds with one key throw before anything is stored.
memoryCreateRunWithEvents(s, seeds) ==
  /\ ~InMap
  /\ \A i, k \in DOMAIN seeds : i # k /\ seeds[i].key # NoKey => seeds[i].key # seeds[k].key
  /\ memStatus' \in {x \in Statuses : StatusAfter(x, s, seeds)}
  /\ entries' = [i \in DOMAIN seeds |-> [epoch |-> 0, key |-> seeds[i].key, body |-> seeds[i].body]]
  /\ UNCHANGED <<memLease, expired, answered>>

memoryGrant(h) ==
  LET epoch == memLease.epoch + 1
  IN  /\ epoch <= MaxEpoch
      /\ memLease' = [holder |-> h, epoch |-> epoch]
      /\ expired' = FALSE
      /\ answered' = answered \cup {[holder |-> h, epoch |-> epoch]}
      /\ UNCHANGED <<memStatus, entries>>

memoryAcquire(h) == InMap /\ memLease.holder = Unheld /\ memoryGrant(h)

memoryTakeover(h, expected) == InMap /\ memLease.holder = expected /\ memoryGrant(h)

memoryTakeoverExpired(h) ==
  /\ InMap
  /\ memLease.holder # h
  /\ memLease.holder = Unheld \/ expired
  /\ memoryGrant(h)

\* A variant that compares the holder alone.
checkHolderOnly(l) == memLease.holder = l.holder

memoryCheckLease(l) == memLease.holder = l.holder /\ memLease.epoch = l.epoch

memoryRenew(l) ==
  /\ memoryCheckLease(l)
  /\ expired' = FALSE
  /\ UNCHANGED <<memStatus, entries, memLease, answered>>

\* A variant that clears the whole entry of the lease map.
releaseForgetsEpoch(l) ==
  /\ memoryCheckLease(l)
  /\ memLease' = [holder |-> Unheld, epoch |-> Unheld]
  /\ expired' = FALSE
  /\ UNCHANGED <<memStatus, entries, answered>>

memoryRelease(l) ==
  /\ memoryCheckLease(l)
  /\ memLease' = [memLease EXCEPT !.holder = Unheld]
  /\ expired' = FALSE
  /\ UNCHANGED <<memStatus, entries, answered>>

\* The takeover window passes.
MemoryLeaseAges ==
  /\ memLease.holder # Unheld
  /\ expired' = TRUE
  /\ UNCHANGED <<memStatus, entries, memLease, answered>>

\* What recording an event leaves: a known key and a counter at its limit leave
\* the run alone.
recorded(m, l, e) ==
  IF KeyIsIn(e.key, m.entries) \/ Len(m.entries) >= MaxSeq
    THEN m
    ELSE [entries |-> Append(m.entries, [epoch |-> l.epoch, key |-> e.key, body |-> e.body]),
          status  |-> IF e.body \in Statuses THEN e.body ELSE m.status]

MemoryRun == [entries |-> entries, status |-> memStatus]

MemoryWrites(m) ==
  /\ entries' = m.entries /\ memStatus' = m.status
  /\ UNCHANGED <<memLease, expired, answered>>

\* The recorded event is answered before expectSeq is compared: a retry of a
\* conditional append finds its event whatever was recorded after it.
memoryAppend(l, e, expected) ==
  /\ memoryCheckLease(l)
  /\ InMap
  /\ expected \in {AnySeq, Len(entries)} \/ KeyIsIn(e.key, entries)
  /\ MemoryWrites(recorded(MemoryRun, l, e))

\* A variant that deletes the lease with the run.
deleteForgetsEpoch ==
  /\ memLease' = [holder |-> Unheld, epoch |-> 0]
  /\ expired' = FALSE
  /\ memStatus' = NoRun
  /\ entries' = <<>>
  /\ UNCHANGED answered

memoryDeleteRun ==
  /\ memLease' = [memLease EXCEPT !.holder = Unheld]
  /\ expired' = FALSE
  /\ memStatus' = NoRun
  /\ entries' = <<>>
  /\ UNCHANGED answered

memoryDeleteOwnedRun(l, expected) ==
  /\ memoryCheckLease(l)
  /\ expected \in {AnySeq, Len(entries)}
  /\ memoryDeleteRun

\* Every method calls ensureOpen first.
ensureOpen == ~closed /\ UNCHANGED closed

memoryClose == ~closed /\ closed' = TRUE /\ UNCHANGED <<memStatus, entries, memLease, expired, answered>>

MemoryOperation ==
  \/ \E s \in Statuses : memoryCreateRun(s)
  \/ \E s \in Statuses, seeds \in SeedLists : memoryCreateRunWithEvents(s, seeds)
  \/ \E h \in Holders : memoryAcquire(h) \/ memoryTakeoverExpired(h)
  \/ \E h, expected \in Holders : memoryTakeover(h, expected)
  \/ \E l \in answered : memoryRenew(l) \/ memoryRelease(l)
  \/ \E l \in answered, e \in Events, n \in Expected : memoryAppend(l, e, n)
  \/ \E l \in answered, n \in Expected : memoryDeleteOwnedRun(l, n)
  \/ memoryDeleteRun
  \/ MemoryLeaseAges

MemoryNext == (ensureOpen /\ MemoryOperation) \/ memoryClose

MemorySpec == MemoryInit /\ [][MemoryNext]_memoryVars

-----------------------------------------------------------------------------
(* Properties *)

\* The maps hold what their types say.
MemoryTypeOK ==
  /\ memStatus \in Statuses \cup {NoRun}
  /\ entries \in Seq(Entries)
  /\ memLease \in [holder : Holders \cup {Unheld}, epoch : Nat]
  /\ expired \in BOOLEAN
  /\ answered \in SUBSET Leases
  /\ closed \in BOOLEAN

\* The in-memory journal is a fenced log: what RunJournal promises of the SQL
\* journal holds of it too, so code above the journal cannot tell them apart.
MemoryPromised == INSTANCE FencedLog WITH
  exists <- InMap, events <- entries, writer <- memLease.holder, epoch <- memLease.epoch,
  Writers <- Holders, NoWriter <- Unheld, Unkeyed <- NoKey,
  Recordings <- Entries

MemoryIsFencedLog == MemoryPromised!LogSpec

\* An epoch names one holder across deletions: memoryDeleteRun keeps the map
\* entry of the lease and clears only its holder.
MemoryEpochsNameHolders ==
  \A l, m \in answered : l.epoch = m.epoch => l.holder = m.holder
=============================================================================
