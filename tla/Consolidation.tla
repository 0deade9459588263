--------------------------- MODULE Consolidation ---------------------------
(***************************************************************************)
(* `atomic storage consolidate' (consolidateJournalStore): moving one      *)
(* finished run out of an adopted journal file into a shard of the journal *)
(* store.  The two files and the catalog are three databases, so a move is *)
(* several transactions: the run is fenced in its journal, copied into the *)
(* shard, repointed in the catalog, and only then deleted from its         *)
(* journal.  Every await of the code is a step here, a consolidation may   *)
(* stop at any of them, several run at once, and runs are resumed          *)
(* meanwhile through ShardedRunJournal, which routes every operation by    *)
(* the catalog or by a cached location.                                    *)
(*                                                                         *)
(* One run is modelled, as consolidation treats each run on its own; its   *)
(* file has the current tables and holds no pool root, and the two shards  *)
(* are different files.  `Journal' is the adopted file (kind "adopted"),   *)
(* `Shard' the native shard its id hashes to.                              *)
(***************************************************************************)
EXTENDS Naturals, FiniteSets, Sequences

CONSTANTS
  Consolidations, \* executions of consolidateJournalStore; also their holders
  Resumes,        \* processes that resume the run; also their holders
  Readers,        \* reads of the run's entries
  Loads           \* bounds: how much happens; a behaviour has one of them

Journal == "journal"
Shard   == "shard"
Files   == {Journal, Shard}

NoRun  == <<>>          \* readRun answers undefined; a run has an event
Nobody == "nobody"      \* holder_id NULL, or no lease row
Origin == "origin"      \* the process that first ran the run

ASSUME ConsolidationAssumption ==
  /\ Consolidations \cap Resumes = {}
  /\ {Nobody, Origin} \cap (Consolidations \cup Resumes) = {}
  \* how many take part, whether two consolidations may run at once, how many
  \* processes stop before their end, and how often a shard cannot be opened
  /\ Loads \subseteq [consolidations : Nat, resumes : Nat, readers : Nat, overlap : BOOLEAN, stops : Nat, faults : Nat]

VARIABLES
  log,            \* each file's events of the run, or NoRun
  lease,          \* each file's lease row of the run
  locked,         \* who holds each file's write lock across several steps
  catalog,        \* the file the catalog names for the run
  con,            \* the consolidations
  res,            \* the resuming processes
  rd,             \* the reads
  faults,         \* shard files that could not be opened so far
  load,           \* the load of this behaviour
  quiet           \* consolidations that began with no other one running, no
                  \* fresh fence and no resume under way, and nobody else
                  \* stepped since; only kept where consolidations do not overlap

files == <<log, lease>>
vars  == <<log, lease, locked, catalog, con, res, rd, faults, load, quiet>>

Absent == [holder |-> Nobody, epoch |-> 0, stale |-> FALSE]

First == [by |-> Origin, body |-> "done", epoch |-> 1]

\* Resuming a run appends a status change to running, and one to a finished
\* status when it ends.
Bodies == <<"running", "done">>

isFinished(f) == log[f] # NoRun /\ log[f][Len(log[f])].body = "done"

Execution(c, at) ==
  [at |-> at, phase |-> "finish", as |-> c, epoch |-> 0, left |-> NoRun, there |-> NoRun, opened |-> FALSE]

Resumption(at, wrote) == [at |-> at, cached |-> FALSE, file |-> Journal, epoch |-> 0, wrote |-> wrote]

Init ==
  /\ log = [f \in Files |-> IF f = Journal THEN <<First>> ELSE NoRun]
  /\ lease = [f \in Files |-> IF f = Journal THEN [Absent EXCEPT !.epoch = 1] ELSE Absent]
  /\ locked = [f \in Files |-> Nobody]
  /\ catalog = Journal
  /\ con = [c \in Consolidations |-> Execution(c, "start")]
  /\ res = [r \in Resumes |-> Resumption("idle", 0)]
  /\ rd = [x \in Readers |-> [at |-> "idle", cached |-> FALSE, file |-> Journal, next |-> 1,
                              follows |-> 0, due |-> <<>>, got |-> <<>>]]
  /\ faults = 0
  /\ load \in Loads
  /\ quiet = {}

-----------------------------------------------------------------------------
(* The consolidation's transactions on one file *)

Fenced(f) == lease[f].holder \in Consolidations
Resumed(f) == lease[f].holder \in Resumes

holdsSnapshot(source, copied) ==
  Len(copied) >= Len(source) /\ \A i \in DOMAIN source : copied[i] = source[i]

\* A write transaction takes the file's write lock (BEGIN IMMEDIATE).
Unlocked(f) == locked[f] = Nobody

Set(f, events, row) ==
  /\ log' = [log EXCEPT ![f] = events]
  /\ lease' = [lease EXCEPT ![f] = row]

Running(c) == con[c].at \notin {"start", "over", "stopped"}

\* The next await of c; nothing else is left of an execution that ended.
To(c, next) ==
  con' = [con EXCEPT ![c] = IF next.at \in {"over", "stopped"} THEN Execution(c, next.at) ELSE next]

Go(c, at) == To(c, [con[c] EXCEPT !.at = at])

\* What a routine that settles or returns a run goes on to.
After(c) ==
  CASE con[c].phase = "finish" -> "return"
    [] con[c].phase = "return" -> "move"
    [] OTHER                   -> "over"

Forgets(c, at) == To(c, [con[c] EXCEPT !.at = at, !.left = NoRun, !.there = NoRun])

Ends(c) == Forgets(c, After(c))

\* The shard's file is open from here on (targets).
Opens(c, at) == con' = [con EXCEPT ![c] = [@ EXCEPT !.at = at, !.opened = TRUE, !.left = NoRun]]

\* A variant that takes over no fence.
staleFenceNever(f) == FALSE

staleFence(f) == Fenced(f) /\ lease[f].stale

\* takeOverFence of `holder', and the two ways on.
takeOverFence(c, f, holder, taken, refused) ==
  /\ Unlocked(f)
  /\ IF lease[f].holder = holder
       THEN taken /\ UNCHANGED files
       ELSE IF staleFence(f)
              THEN taken /\ Set(f, log[f], [holder |-> holder, epoch |-> lease[f].epoch + 1, stale |-> FALSE])
              ELSE refused /\ UNCHANGED files

\* A variant that gives the copy a lease row of its own.
copyRestartsEpoch(c, snapshot, holder, epoch, holds, differs) ==
  /\ Unlocked(Shard)
  /\ IF log[Shard] # NoRun
       THEN IF holdsSnapshot(snapshot, log[Shard]) THEN holds /\ UNCHANGED files ELSE differs /\ UNCHANGED files
       ELSE holds /\ Set(Shard, snapshot, [holder |-> holder, epoch |-> 0, stale |-> FALSE])

\* copy of `snapshot' into the shard, and the two ways on: a copy that holds
\* the snapshot stays as it is, the first part of it under a stale fence is
\* replaced, and any other copy refuses.
copy(c, snapshot, holder, epoch, holds, differs) ==
  /\ Unlocked(Shard)
  /\ LET existing == log[Shard]
         replaced == existing = NoRun \/ (holdsSnapshot(existing, snapshot) /\ staleFence(Shard))
         above    == IF epoch > lease[Shard].epoch THEN epoch ELSE lease[Shard].epoch + 1
     IN  IF existing # NoRun /\ holdsSnapshot(snapshot, existing)
           THEN holds /\ UNCHANGED files
           ELSE IF replaced
                  THEN holds /\ Set(Shard, snapshot, [holder |-> holder, epoch |-> above, stale |-> FALSE])
                  ELSE differs /\ UNCHANGED files

\* A variant that deletes whoever holds the lease.
removeAlways(f, holder) ==
  /\ Unlocked(f)
  /\ Set(f, NoRun, Absent)

\* A variant that leaves the lease row.
removeLeavesLease(f, holder) ==
  /\ Unlocked(f)
  /\ IF lease[f].holder = holder THEN Set(f, NoRun, lease[f]) ELSE UNCHANGED files

\* Deletes a copy only while `holder' holds its lease.
removeRun(f, holder) ==
  /\ Unlocked(f)
  /\ IF lease[f].holder = holder THEN Set(f, NoRun, Absent) ELSE UNCHANGED files

Unfenced(f, holders) ==
  /\ Unlocked(f)
  /\ lease' = [lease EXCEPT ![f] = IF @.holder \in holders THEN [@ EXCEPT !.holder = Nobody, !.stale = FALSE] ELSE @]
  /\ UNCHANGED log

unfence(f, holder) == Unfenced(f, {holder})

liftFence(f) == Unfenced(f, Consolidations)

\* moveRun compares the entry it read with the catalog's.
moveRun(from, to) == catalog' = IF catalog = from THEN to ELSE catalog

Read(c, f, seen, at) == con' = [con EXCEPT ![c] = IF seen = "left" THEN [@ EXCEPT !.left = log[f], !.at = at]
                                                                   ELSE [@ EXCEPT !.there = log[f], !.at = at]]

Still == UNCHANGED <<locked, catalog, res, rd, faults>>

-----------------------------------------------------------------------------
(* finishInterruptedMoves: the fence found may be a crashed consolidation's *)
(* or a running one's, and the move is settled under its holder.            *)

FinishLooks(c) ==
  /\ con[c].at = "start"
  /\ Cardinality({d \in Consolidations : con[d].at # "start"}) < load.consolidations
  /\ load.overlap \/ \A d \in Consolidations : ~Running(d)
  /\ IF Fenced(Journal)
       THEN con' = [con EXCEPT ![c].at = "finish", ![c].as = lease[Journal].holder, ![c].epoch = lease[Journal].epoch]
       ELSE Go(c, "return")
  /\ UNCHANGED files /\ Still

FinishLocates(c) ==
  /\ con[c].at = "finish"
  /\ IF catalog = Shard THEN Opens(c, "settle") ELSE Go(c, "return")
  /\ UNCHANGED files /\ Still

(* returnStrandedRuns *)

ReturnLists(c) ==
  /\ con[c].at = "return"
  /\ con' = [con EXCEPT ![c] = [@ EXCEPT !.at = IF catalog = Journal THEN "move" ELSE "strays",
                                         !.phase = "return", !.as = c, !.epoch = 0]]
  /\ UNCHANGED files /\ Still

ReturnFinds(c) ==
  /\ con[c].at = "strays"
  /\ Go(c, IF log[Journal] # NoRun /\ ~Fenced(Journal) THEN "stray" ELSE "move")
  /\ UNCHANGED files /\ Still

\* A run the catalog names here again is compared with itself.
ReturnLocates(c) ==
  /\ con[c].at = "stray"
  /\ IF catalog = Shard THEN Opens(c, "strayLeft") ELSE Go(c, "move")
  /\ UNCHANGED files /\ Still

ReturnReads(c) ==
  /\ con[c].at = "strayLeft"
  /\ Read(c, Journal, "left", "strayThere")
  /\ UNCHANGED files /\ Still

ReturnCompares(c) ==
  LET left  == con[c].left
      there == log[Shard]
  IN  /\ con[c].at = "strayThere"
      /\ IF left # NoRun /\ there = NoRun
           THEN Forgets(c, "bring")
           ELSE IF left # NoRun /\ ~holdsSnapshot(left, there) /\ holdsSnapshot(there, left)
                  THEN Forgets(c, "strayFence")
                  ELSE Ends(c)
      /\ UNCHANGED files /\ Still

\* The shard lost the run: the catalog goes back in a transaction that holds
\* the journal's write lock.
BringLocks(c) ==
  /\ con[c].at = "bring"
  /\ Unlocked(Journal)
  /\ IF Fenced(Journal) \/ log[Journal] = NoRun
       THEN Ends(c) /\ UNCHANGED locked
       ELSE Go(c, "bringLooks") /\ locked' = [locked EXCEPT ![Journal] = c]
  /\ UNCHANGED <<files, catalog, res, rd, faults>>

BringLooks(c) ==
  /\ con[c].at = "bringLooks"
  /\ IF log[Shard] = NoRun
       THEN Go(c, "bringMoves") /\ UNCHANGED locked
       ELSE Ends(c) /\ locked' = [locked EXCEPT ![Journal] = Nobody]
  /\ UNCHANGED <<files, catalog, res, rd, faults>>

BringMoves(c) ==
  /\ con[c].at = "bringMoves"
  /\ moveRun(Shard, Journal)
  /\ locked' = [locked EXCEPT ![Journal] = Nobody]
  /\ Ends(c)
  /\ UNCHANGED <<files, res, rd, faults>>

ReturnFences(c) ==
  /\ con[c].at = "strayFence"
  /\ takeOverFence(c, Shard, c, Go(c, "back"), Ends(c))
  /\ Still

-----------------------------------------------------------------------------
(* moveOne *)

MoveLists(c) ==
  /\ con[c].at = "move"
  /\ To(c, [con[c] EXCEPT !.at = IF catalog = Journal THEN "fence" ELSE "over", !.phase = "move"])
  /\ UNCHANGED files /\ Still

\* A variant that does not ask whether a resume holds the lease.
fenceAnyway(c) ==
  /\ con[c].at = "fence"
  /\ Unlocked(Journal)
  /\ IF log[Journal] = NoRun \/ ~isFinished(Journal)
       THEN Go(c, "over") /\ UNCHANGED files
       ELSE LET epoch == lease[Journal].epoch + 1
            IN  /\ Set(Journal, log[Journal], [holder |-> c, epoch |-> epoch, stale |-> FALSE])
                /\ con' = [con EXCEPT ![c] = [@ EXCEPT !.at = "copy", !.left = log[Journal], !.as = c, !.epoch = epoch]]
  /\ Still

\* A run that is gone, unfinished or leased by a resume stays where it is; a
\* fence of another consolidation, however fresh, is taken over.
fence(c) ==
  /\ con[c].at = "fence"
  /\ Unlocked(Journal)
  /\ IF log[Journal] = NoRun \/ ~isFinished(Journal) \/ Resumed(Journal)
       THEN Go(c, "over") /\ UNCHANGED files
       ELSE LET epoch == lease[Journal].epoch + 1
            IN  /\ Set(Journal, log[Journal], [holder |-> c, epoch |-> epoch, stale |-> FALSE])
                /\ con' = [con EXCEPT ![c] = [@ EXCEPT !.at = "copy", !.left = log[Journal], !.as = c, !.epoch = epoch]]
  /\ Still

MoveCopies(c) ==
  /\ con[c].at = "copy"
  /\ copy(c, con[c].left, c, con[c].epoch, Opens(c, "check"), Go(c, "unfence"))
  /\ Still

\* heldByResume: the move is abandoned before the catalog changes.
MoveChecks(c) ==
  /\ con[c].at = "check"
  /\ Go(c, IF Resumed(Journal) THEN "select" ELSE "repoint")
  /\ UNCHANGED files /\ Still

AbandonLooks(c) ==
  /\ con[c].at = "select"
  /\ Go(c, IF catalog = Shard THEN "settle" ELSE "drop")
  /\ UNCHANGED files /\ Still

AbandonDrops(c) ==
  /\ con[c].at = "drop"
  /\ removeRun(Shard, c)
  /\ Go(c, IF lease[Shard].holder = c THEN "reselect" ELSE "over")
  /\ Still

AbandonLooksAgain(c) ==
  /\ con[c].at = "reselect"
  /\ Go(c, IF catalog = Shard THEN "settle" ELSE "over")
  /\ UNCHANGED files /\ Still

MoveRepoints(c) ==
  /\ con[c].at = "repoint"
  /\ moveRun(Journal, Shard)
  /\ Go(c, IF catalog = Journal THEN "settle" ELSE "relook")
  /\ UNCHANGED <<files, locked, res, rd, faults>>

MoveLooks(c) ==
  /\ con[c].at = "relook"
  /\ Go(c, IF catalog = Shard THEN "settle" ELSE "discard")
  /\ UNCHANGED files /\ Still

MoveDiscards(c) ==
  /\ con[c].at = "discard"
  /\ removeRun(Shard, c)
  /\ Go(c, "unfence")
  /\ Still

MoveUnfences(c) ==
  /\ con[c].at = "unfence"
  /\ unfence(Journal, c)
  /\ Ends(c)
  /\ Still

-----------------------------------------------------------------------------
(* settleMove, under the holder con[c].as *)

SettleReads(c) ==
  /\ con[c].at = "settle"
  /\ Read(c, Journal, "left", IF log[Journal] = NoRun THEN "lift" ELSE "held")
  /\ UNCHANGED files /\ Still

\* What comparing the source with the destination's copy decides.
Compared(c, left, there) ==
  IF holdsSnapshot(left, there) THEN Forgets(c, "remove")
  ELSE IF holdsSnapshot(there, left) THEN Forgets(c, "undo")
  ELSE Ends(c)

SettleCompares(c) ==
  /\ con[c].at = "held"
  /\ IF log[Shard] = NoRun THEN Go(c, "recopy") ELSE Compared(c, con[c].left, log[Shard])
  /\ UNCHANGED files /\ Still

SettleCopies(c) ==
  /\ con[c].at = "recopy"
  /\ copy(c, con[c].left, con[c].as, con[c].epoch, Go(c, "reheld"), Ends(c))
  /\ Still

\* A copy that is gone again makes the comparison throw, which ends the
\* consolidation.
SettleComparesCopy(c) ==
  /\ con[c].at = "reheld"
  /\ IF log[Shard] = NoRun THEN Go(c, "over") ELSE Compared(c, con[c].left, log[Shard])
  /\ UNCHANGED files /\ Still

SettleRemoves(c) ==
  /\ con[c].at = "remove"
  /\ removeRun(Journal, con[c].as)
  /\ Go(c, "left")
  /\ Still

SettleLooks(c) ==
  /\ con[c].at = "left"
  /\ Read(c, Journal, "left", IF log[Journal] = NoRun THEN "lift" ELSE "now")
  /\ UNCHANGED files /\ Still

SettleLooksThere(c) ==
  /\ con[c].at = "now"
  /\ Read(c, Shard, "there", "leased")
  /\ UNCHANGED files /\ Still

SettleDecides(c) ==
  LET there == con[c].there
  IN  /\ con[c].at = "leased"
      /\ Forgets(c, IF Resumed(Journal) \/ there = NoRun \/ ~holdsSnapshot(con[c].left, there) THEN "undo" ELSE "lift")
      /\ UNCHANGED files /\ Still

SettleLifts(c) ==
  /\ con[c].at = "lift"
  /\ liftFence(Shard)
  /\ Ends(c)
  /\ Still

UndoReads(c) ==
  /\ con[c].at = "undo"
  /\ Read(c, Journal, "left", "ahead")
  /\ UNCHANGED files /\ Still

UndoCompares(c) ==
  LET left  == con[c].left
      there == log[Shard]
  IN  /\ con[c].at = "ahead"
      /\ IF left # NoRun /\ there # NoRun /\ Len(there) > Len(left) THEN Ends(c) ELSE Forgets(c, "undoFence")
      /\ UNCHANGED files /\ Still

UndoFences(c) ==
  /\ con[c].at = "undoFence"
  /\ takeOverFence(c, Shard, con[c].as, Go(c, "back"), Ends(c))
  /\ Still

(* returnToSource, in a transaction that holds the shard's write lock *)

\* A variant that leaves the catalog on the shard.
backMovesNothing(c) ==
  /\ con[c].at = "back"
  /\ Go(c, "backLocks")
  /\ UNCHANGED files /\ Still

BackMoves(c) ==
  /\ con[c].at = "back"
  /\ moveRun(Shard, Journal)
  /\ Go(c, "backLocks")
  /\ UNCHANGED <<files, locked, res, rd, faults>>

BackLocks(c) ==
  /\ con[c].at = "backLocks"
  /\ Unlocked(Shard)
  /\ IF log[Shard] = NoRun
       THEN Ends(c) /\ UNCHANGED locked
       ELSE Go(c, "backReads") /\ locked' = [locked EXCEPT ![Shard] = c]
  /\ UNCHANGED <<files, catalog, res, rd, faults>>

Unlocks(c, next) == next /\ locked' = [locked EXCEPT ![Shard] = Nobody]

BackReads(c) ==
  /\ con[c].at = "backReads"
  /\ IF log[Journal] = NoRun \/ ~holdsSnapshot(log[Shard], log[Journal]) \/ Resumed(Shard)
       THEN Unlocks(c, Go(c, "forth"))
       ELSE IF lease[Shard].holder \in Consolidations \ {con[c].as}
              THEN Unlocks(c, Ends(c))
              ELSE Go(c, "backKept") /\ UNCHANGED locked
  /\ UNCHANGED <<files, catalog, res, rd, faults>>

BackLooks(c) ==
  /\ con[c].at = "backKept"
  /\ IF log[Journal] = NoRun
       THEN Unlocks(c, Go(c, "forth"))
       ELSE IF lease[Journal].holder \in Consolidations \ {con[c].as}
              THEN Unlocks(c, Ends(c))
              ELSE Go(c, "backDrops") /\ UNCHANGED locked
  /\ UNCHANGED <<files, catalog, res, rd, faults>>

BackDrops(c) ==
  /\ con[c].at = "backDrops"
  /\ Set(Shard, NoRun, Absent)
  /\ Unlocks(c, Ends(c))
  /\ UNCHANGED <<catalog, res, rd, faults>>

BackReturns(c) ==
  /\ con[c].at = "forth"
  /\ moveRun(Journal, Shard)
  /\ Ends(c)
  /\ UNCHANGED <<files, locked, res, rd, faults>>

-----------------------------------------------------------------------------
(* The shard's file cannot be opened, or the consolidation stops anywhere:  *)
(* an open transaction is rolled back.                                      *)

Unavailable(c) ==
  /\ con[c].at \in {"finish", "stray", "copy"}
  /\ ~con[c].opened
  /\ con[c].at \in {"finish", "stray"} => catalog = Shard
  /\ faults < load.faults
  /\ faults' = faults + 1
  /\ IF con[c].at = "copy" THEN Forgets(c, "unfence") ELSE Ends(c)
  /\ UNCHANGED <<files, locked, catalog, res, rd>>

MayStop ==
  Cardinality({c \in Consolidations : con[c].at = "stopped"} \cup {r \in Resumes : res[r].at = "stopped"}) < load.stops

Stop(c) ==
  /\ Running(c)
  /\ MayStop
  /\ Forgets(c, "stopped")
  /\ locked' = [f \in Files |-> IF locked[f] = c THEN Nobody ELSE locked[f]]
  /\ UNCHANGED <<files, catalog, res, rd, faults>>

Consolidate(c) ==
  \/ FinishLooks(c) \/ FinishLocates(c)
  \/ ReturnLists(c) \/ ReturnFinds(c) \/ ReturnLocates(c) \/ ReturnReads(c) \/ ReturnCompares(c)
  \/ BringLocks(c) \/ BringLooks(c) \/ BringMoves(c) \/ ReturnFences(c)
  \/ MoveLists(c) \/ fence(c) \/ MoveCopies(c) \/ MoveChecks(c)
  \/ AbandonLooks(c) \/ AbandonDrops(c) \/ AbandonLooksAgain(c)
  \/ MoveRepoints(c) \/ MoveLooks(c) \/ MoveDiscards(c) \/ MoveUnfences(c)
  \/ SettleReads(c) \/ SettleCompares(c) \/ SettleCopies(c) \/ SettleComparesCopy(c)
  \/ SettleRemoves(c) \/ SettleLooks(c) \/ SettleLooksThere(c) \/ SettleDecides(c) \/ SettleLifts(c)
  \/ UndoReads(c) \/ UndoCompares(c) \/ UndoFences(c)
  \/ BackMoves(c) \/ BackLocks(c) \/ BackReads(c) \/ BackLooks(c) \/ BackDrops(c) \/ BackReturns(c)
  \/ Unavailable(c) \/ Stop(c)

-----------------------------------------------------------------------------
(* ShardedRunJournal in a process that resumes the run *)

Over(r, at) == res' = [res EXCEPT ![r] = Resumption(at, @.wrote)]

\* locate: a native shard seen before is not looked up again.
Located(p) == IF p.cached THEN Shard ELSE catalog

Busy == UNCHANGED <<locked, catalog, con, rd, faults>>

MayResume == Cardinality({r \in Resumes : res[r].at # "idle"}) < load.resumes

\* Any operation of the process before the resume: the location is cached.
ResumeSees(r) ==
  /\ MayResume
  /\ res[r].at = "idle" /\ ~res[r].cached /\ catalog = Shard
  /\ res' = [res EXCEPT ![r].cached = TRUE]
  /\ UNCHANGED files /\ Busy

ResumeLocates(r) ==
  /\ res[r].at \in {"idle", "leased"}
  /\ res[r].at = "idle" => MayResume
  /\ res' = [res EXCEPT ![r] = [@ EXCEPT !.at = IF res[r].at = "idle" THEN "taking" ELSE "writing",
                                         !.file = Located(res[r]), !.cached = Located(res[r]) = Shard]]
  /\ UNCHANGED files /\ Busy

\* takeoverExpired on the located file: a free or expired lease is granted at
\* the next epoch; a file that does not hold the run is asked once elsewhere.
ResumeTakes(r) ==
  LET f == res[r].file
  IN  /\ res[r].at \in {"taking", "again"}
      /\ Unlocked(f)
      /\ IF log[f] = NoRun
           THEN /\ IF res[r].at = "taking" THEN res' = [res EXCEPT ![r].at = "missed"] ELSE Over(r, "over")
                /\ UNCHANGED files
           ELSE IF lease[f].holder # Nobody /\ ~lease[f].stale
             THEN Over(r, "over") /\ UNCHANGED files
             ELSE LET epoch == lease[f].epoch + 1
                  IN  /\ Set(f, log[f], [holder |-> r, epoch |-> epoch, stale |-> FALSE])
                      /\ res' = [res EXCEPT ![r].at = "leased", ![r].epoch = epoch]
      /\ Busy

\* relocated
ResumeRelocates(r) ==
  /\ res[r].at = "missed"
  /\ IF catalog = res[r].file
       THEN Over(r, "over")
       ELSE res' = [res EXCEPT ![r] = [@ EXCEPT !.at = "again", !.file = catalog, !.cached = catalog = Shard]]
  /\ UNCHANGED files /\ Busy

\* append and release check the lease on the file the operation is routed to;
\* a lease that is not there is lost for good.
ResumeWrites(r) ==
  LET f      == res[r].file
      holds  == lease[f].holder = r /\ lease[f].epoch = res[r].epoch
      event  == [by |-> r, body |-> Bodies[res[r].wrote + 1], epoch |-> res[r].epoch]
  IN  /\ res[r].at = "writing"
      /\ Unlocked(f)
      /\ \/ ~holds /\ Over(r, "over") /\ UNCHANGED files
         \/ /\ holds /\ res[r].wrote < Len(Bodies)
            /\ Set(f, Append(log[f], event), lease[f])
            /\ res' = [res EXCEPT ![r].at = "leased", ![r].wrote = @ + 1]
         \/ /\ holds
            /\ Set(f, log[f], [lease[f] EXCEPT !.holder = Nobody, !.stale = FALSE])
            /\ Over(r, "over")
      /\ Busy

ResumeStops(r) ==
  /\ res[r].at \in {"leased", "writing"}
  /\ MayStop
  /\ Over(r, "stopped")
  /\ UNCHANGED files /\ Busy

Resume(r) ==
  \/ ResumeSees(r) \/ ResumeLocates(r) \/ ResumeTakes(r) \/ ResumeRelocates(r) \/ ResumeWrites(r) \/ ResumeStops(r)

\* A lease goes unrenewed for longer than the takeover window: consolidations
\* never renew their fences, and a resume renews its lease while it has it.
Expire(f) ==
  /\ Fenced(f) \/ \E r \in Resumes : lease[f].holder = r /\ res[r].at \in {"over", "stopped"}
  /\ ~lease[f].stale
  /\ lease' = [lease EXCEPT ![f].stale = TRUE]
  /\ UNCHANGED log /\ Still /\ UNCHANGED con

-----------------------------------------------------------------------------
(* ShardedRunJournal.read: pages of one entry, and the catalog asked again  *)
(* when a file's entries end.                                               *)

PageSize == 1
READ_FOLLOW_LIMIT == 3

Calm == UNCHANGED <<files, locked, catalog, con, res, faults>>

MayRead == Cardinality({x \in Readers : rd[x].at # "idle"}) < load.readers

ReadSees(x) ==
  /\ MayRead
  /\ rd[x].at = "idle" /\ ~rd[x].cached /\ catalog = Shard
  /\ rd' = [rd EXCEPT ![x].cached = TRUE]
  /\ Calm

\* due: the entries the run has when the read begins.
ReadLocates(x) ==
  /\ MayRead
  /\ rd[x].at = "idle"
  /\ rd' = [rd EXCEPT ![x] = [@ EXCEPT !.at = "paging", !.file = Located(rd[x]), !.due = log[catalog]]]
  /\ Calm

\* A short page ends the file's entries.
ReadPages(x) ==
  LET events == log[rd[x].file]
      last   == rd[x].next + PageSize - 1
      page   == SubSeq(events, rd[x].next, IF last < Len(events) THEN last ELSE Len(events))
  IN  /\ rd[x].at = "paging"
      /\ rd' = [rd EXCEPT ![x] = [@ EXCEPT !.got = @ \o page, !.next = @ + Len(page),
                                           !.at = IF Len(page) < PageSize THEN "ended" ELSE "paging"]]
      /\ Calm

\* A variant that ends where the file's entries end.
readEnds(x) ==
  /\ rd[x].at = "ended"
  /\ rd' = [rd EXCEPT ![x].at = "done"]
  /\ Calm

ReadRelocates(x) ==
  /\ rd[x].at = "ended"
  /\ rd' = [rd EXCEPT ![x] = [@ EXCEPT
              !.at = IF catalog = rd[x].file THEN "done" ELSE IF rd[x].follows >= READ_FOLLOW_LIMIT THEN "failed" ELSE "paging",
              !.file = catalog, !.follows = @ + 1]]
  /\ Calm

ReadEntries(x) == ReadSees(x) \/ ReadLocates(x) \/ ReadPages(x) \/ ReadRelocates(x)

-----------------------------------------------------------------------------
Undisturbed ==
  /\ ~load.overlap
  /\ \A d \in Consolidations : ~Running(d)
  /\ \A f \in Files : Fenced(f) => lease[f].stale
  /\ \A r \in Resumes : res[r].at \in {"idle", "over", "stopped"}

Step ==
  \/ \E c \in Consolidations :
       Consolidate(c) /\ quiet' = IF con[c].at = "start" /\ Undisturbed THEN {c} ELSE IF faults' # faults THEN {} ELSE quiet \cap {c}
  \/ \E r \in Resumes : Resume(r) /\ quiet' = {}
  \/ \E f \in Files : Expire(f) /\ UNCHANGED quiet
  \/ \E x \in Readers : ReadEntries(x) /\ UNCHANGED quiet

Next == Step /\ UNCHANGED load

Spec == Init /\ [][Next]_vars

-----------------------------------------------------------------------------
(* Properties *)

States ==
  {"start", "finish", "return", "strays", "stray", "strayLeft", "strayThere", "strayFence", "bring", "bringLooks",
   "bringMoves", "move", "fence", "copy", "check", "select", "drop", "reselect", "repoint", "relook", "discard",
   "unfence", "settle", "held", "recopy", "reheld", "remove", "left", "now", "leased", "lift", "undo", "ahead",
   "undoFence", "back", "backLocks", "backReads", "backKept", "backDrops", "forth", "over", "stopped"}

\* A consolidation is at one of its awaits, a file's write lock is held across
\* awaits only by one that runs, and a lease row without a run has no holder
\* (removeRun, returnToSource and copy write the two together).
ConsolidationTypeOK ==
  /\ \A c \in Consolidations : con[c].at \in States
  /\ \A f \in Files : locked[f] # Nobody => Running(locked[f])
  /\ \A f \in Files : log[f] = NoRun => lease[f].holder = Nobody
  /\ catalog \in Files

\* "A consolidation that is interrupted leaves every run readable in exactly
\* one place through the catalog": the file the catalog names holds the run,
\* at every await of every consolidation that has the store to itself.
CatalogHoldsRun == ~load.overlap => log[catalog] # NoRun

Kept(by, body) == \E f \in Files : \E k \in DOMAIN log[f] : log[f][k].by = by /\ log[f][k].body = body

\* "Overlapping consolidations and a resume that took over an expired fence
\* lose nothing": every committed event of the run is in a copy.
LosesNothing ==
  Kept(First.by, First.body) /\ \A r \in Resumes : \A i \in 1..res[r].wrote : Kept(r, Bodies[i])

\* The same as long as consolidations do not overlap, wherever they stop and
\* whatever resumes write to either file between their steps.
EventsKept == ~load.overlap => LosesNothing

\* "A lease a resume holds is never touched": no step of a consolidation takes
\* the lease of a resume, or deletes the copy it holds.
ResumeLeaseKept ==
  [][\A f \in Files : Resumed(f) /\ con' # con =>
       lease'[f].holder = lease[f].holder /\ lease'[f].epoch = lease[f].epoch /\ log'[f] = log[f]]_vars

\* The fencing epochs of a run survive its moves: in each copy they never go
\* down, and no two holders write under one, as long as consolidations do not
\* overlap.
EpochsSurviveMoves ==
  ~load.overlap => \A f \in Files : log[f] # NoRun =>
    \A i, k \in DOMAIN log[f] : i < k =>
      /\ log[f][i].epoch <= log[f][k].epoch
      /\ log[f][i].epoch = log[f][k].epoch => log[f][i].by = log[f][k].by

Diverged == \A f \in Files : log[f] # NoRun /\ \A g \in Files \ {f} : ~holdsSnapshot(log[f], log[g])

\* The file the catalog names holds everything the other one does.
Whole == \A f \in Files : holdsSnapshot(log[f], log[catalog])

\* A consolidation "recovers stale consolidation fences and runs stranded by a
\* crash during cleanup instead of leaving the catalog on a shard missing
\* committed events": whatever earlier consolidations and resumes left, one that
\* runs undisturbed once their fences are stale leaves every event visible
\* through the catalog, unless a resume holds a copy or the copies diverged.
RecoveryShowsAll ==
  \A c \in quiet : con[c].at = "over" => Whole \/ Diverged \/ \E f \in Files : Resumed(f)

\* The same, unless a resume took the destination of an interrupted move and
\* released it: no fence then tells that the move was interrupted.
RecoveryShowsFenced ==
  \A c \in quiet : con[c].at = "over" =>
    Whole \/ Diverged \/ (\E f \in Files : Resumed(f)) \/ lease[Shard].holder = Nobody

\* "Finishes the moves a consolidation was interrupted in after it had
\* repointed the catalog: the run's source copy is deleted, and the fence it
\* left there is lifted": one that runs undisturbed leaves no fence on a run it
\* finds in one place.
FenceIsLifted ==
  \A c \in quiet : con[c].at = "over" /\ log[Journal] = NoRun => ~Fenced(Shard)

\* "A continuation that does not follow on fails with the retryable run-moved,
\* never a short read": a read that ends returned every entry the run had when
\* it began.
ReadsNeverShort ==
  \A x \in Readers : rd[x].at = "done" => holdsSnapshot(rd[x].due, rd[x].got)

\* The same while no more than one consolidation, which may stop anywhere, moves
\* the run: the read asks the catalog again when a file's entries end.
ReadsAreWhole == load.consolidations <= 1 => ReadsNeverShort

\* At every await of a consolidation that has the store to itself the catalog
\* names a file that holds the run, and its epochs name one holder each; locks
\* and lease rows are in order whatever overlaps.
MovesSound == ConsolidationTypeOK /\ CatalogHoldsRun /\ EpochsSurviveMoves
=============================================================================
