--------------------------- MODULE JournalValues ----------------------------
(***************************************************************************)
(* What callers of a run journal hand over and get back, shared by the     *)
(* SQL and the in-memory journal (core/storage/run-journal.ts).            *)
(***************************************************************************)
EXTENDS Naturals, Sequences

CONSTANTS
  Holders,        \* holder ids
  Keys,           \* idempotency keys of events
  Payloads,       \* bodies of events that are not status changes
  Statuses,       \* run statuses; the body of a status-changed event
  Unheld,         \* JOURNAL_LEASE.unheld
  NoKey,          \* an append without a key
  AnySeq,         \* an append or deletion without expectSeq
  NoRun,          \* status and header of a run that is not there
  MaxEpoch,       \* the journal's counters stop at the largest safe integer:
  MaxSeq,         \* journalCounter(..., "overflow") refuses the next value
  MaxSeeds        \* bound: seed events of a run created with events

ASSUME JournalAssumption ==
  /\ Unheld \notin Holders
  /\ NoKey \notin Keys
  /\ NoRun \notin Statuses
  /\ Payloads \cap Statuses = {}
  /\ MaxEpoch \in Nat
  /\ MaxSeq \in Nat
  /\ MaxSeeds \in Nat
  /\ AnySeq \notin Nat

Leases  == [holder : Holders, epoch : Nat]
Bodies  == Payloads \cup Statuses

\* An event to record, and as recorded.
Events  == [key : Keys \cup {NoKey}, body : Bodies]
Entries == [epoch : Nat, key : Keys \cup {NoKey}, body : Bodies]

SeedLists == UNION {[1..n -> Events] : n \in 0..MaxSeeds}
Expected  == {AnySeq} \cup 0..MaxSeq
=============================================================================
