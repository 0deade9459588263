----------------------------- MODULE FencedLog ------------------------------
(***************************************************************************)
(* What a run journal promises to the code above it (interface RunJournal  *)
(* of core/storage/run-journal.ts), whatever it is stored in: an           *)
(* append-only log with at most one writer at a time.  Writers are         *)
(* numbered by epochs that never return, not even when the run is deleted  *)
(* and created again; only the latest writer adds events, and a key is     *)
(* recorded at most once.                                                  *)
(*                                                                         *)
(* SqlRunJournal (module RunJournal) and MemoryRunJournal (module          *)
(* MemoryJournal) implement it.                                            *)
(***************************************************************************)
EXTENDS Naturals, Sequences

CONSTANTS
  Writers,        \* holder ids
  NoWriter,       \* JOURNAL_LEASE.unheld
  Unkeyed,        \* an event recorded without an idempotency key
  Recordings      \* what the log may hold: events with their epoch and key

VARIABLES
  exists,         \* the run has a header
  events,         \* its recorded events
  writer,         \* the holder of the lease, or NoWriter
  epoch           \* the latest epoch granted

logVars == <<exists, events, writer, epoch>>

OncePerKey(s) ==
  \A i, k \in DOMAIN s : i # k /\ s[i].key # Unkeyed => s[i].key # s[k].key

LogInit ==
  /\ exists = FALSE
  /\ events = <<>>
  /\ writer = NoWriter
  /\ epoch = 0

\* A run appears with its seed events, which belong to no writer.
Create ==
  /\ ~exists
  /\ exists' = TRUE
  /\ events' \in Seq(Recordings)
  /\ \A i \in DOMAIN events' : events'[i].epoch = 0
  /\ OncePerKey(events')
  /\ UNCHANGED <<writer, epoch>>

\* A new writer, at the next epoch.  The previous one is not asked.
Grant ==
  /\ exists
  /\ writer' \in Writers
  /\ epoch' = epoch + 1
  /\ UNCHANGED <<exists, events>>

Release ==
  /\ writer' = NoWriter
  /\ UNCHANGED <<exists, events, epoch>>

\* The writer adds events of its own epoch after the recorded ones.
Record ==
  /\ exists
  /\ writer # NoWriter
  /\ events' \in Seq(Recordings)
  /\ \A i \in DOMAIN events : i \in DOMAIN events' /\ events'[i] = events[i]
  /\ \A i \in DOMAIN events' \ DOMAIN events : events'[i].epoch = epoch
  /\ OncePerKey(events')
  /\ UNCHANGED <<exists, writer, epoch>>

\* Deletion keeps the epoch: the next life of the run goes on from it.
Delete ==
  /\ exists' = FALSE
  /\ events' = <<>>
  /\ writer' = NoWriter
  /\ UNCHANGED epoch

LogNext == Create \/ Grant \/ Release \/ Record \/ Delete

LogSpec == LogInit /\ [][LogNext]_logVars

-----------------------------------------------------------------------------
(* What users of a run journal rely on. *)

\* Every recorded event belongs to an epoch granted so far, and epochs never
\* decrease along the log: one writer's events follow the previous writer's.
OneWriterAfterAnother ==
  /\ \A i \in DOMAIN events : events[i].epoch <= epoch
  /\ \A i, k \in DOMAIN events : i <= k => events[i].epoch <= events[k].epoch

\* No key is recorded twice.
KeysRecordedOnce == OncePerKey(events)
=============================================================================
