------------------------ MODULE ConsolidationProofs ------------------------
(***************************************************************************)
(* Proofs about Consolidation, for any number of consolidations, resumes   *)
(* and readers and any load.  Whatever overlaps, a consolidation never     *)
(* takes a resume's lease or deletes the copy it holds.  As long as one    *)
(* consolidation runs at a time, however many stop on the way, the file    *)
(* the catalog names holds the run, fencing epochs survive its moves, and  *)
(* no committed event is lost.                                             *)
(*                                                                         *)
(* Invariant says what is true whatever overlaps: the types, who holds a   *)
(* write lock at which await, and what those locks protect.  Alone says    *)
(* for every await what the one consolidation that runs has established    *)
(* when it gets there: where the catalog points, which files hold the run, *)
(* and, for the awaits before a copy is deleted, that the other file has   *)
(* all of it as long as nobody took the lease.                             *)
(***************************************************************************)
EXTENDS Consolidation, TLAPS

Event == [by : Resumes \cup {Origin}, body : {"running", "done"}, epoch : Nat]

Lease == [holder : Consolidations \cup Resumes \cup {Nobody}, epoch : Nat, stale : BOOLEAN]

\* An execution of consolidateJournalStore.
Exec ==
  [at : States, phase : {"finish", "return", "move"}, as : Consolidations, epoch : Nat,
   left : Seq(Event), there : Seq(Event), opened : BOOLEAN]

\* A resuming process.
Resuming ==
  [at : {"idle", "taking", "again", "missed", "leased", "writing", "over", "stopped"}, cached : BOOLEAN,
   file : Files, epoch : Nat, wrote : 0..2]

Typed ==
  /\ log \in [Files -> Seq(Event)]
  /\ lease \in [Files -> Lease]
  /\ locked \in [Files -> Consolidations \cup {Nobody}]
  /\ catalog \in Files
  /\ con \in [Consolidations -> Exec]
  /\ res \in [Resumes -> Resuming]

\* The awaits inside the transactions of bring and of returnToSource.
Bringing  == {"bringLooks", "bringMoves"}
Returning == {"backReads", "backKept", "backDrops"}

\* A lock is held exactly inside its transaction.
Locks ==
  \A c \in Consolidations :
    /\ locked[Journal] = c <=> con[c].at \in Bringing
    /\ locked[Shard] = c <=> con[c].at \in Returning

Rows == \A f \in Files : log[f] = NoRun => lease[f].holder = Nobody

\* copy is given a run.
Snapshots == \A c \in Consolidations : con[c].at \in {"copy", "held", "recopy", "reheld"} => con[c].left # NoRun

\* returnToSource goes on only when no resume holds the shard's copy, and its
\* transaction keeps it so.
Dropping == \A c \in Consolidations : con[c].at \in {"backKept", "backDrops"} => ~Resumed(Shard)

Invariant == Typed /\ Locks /\ Rows /\ Snapshots /\ Dropping

-----------------------------------------------------------------------------
(* One consolidation at a time *)

Settling == {"settle", "held", "remove", "left", "now", "leased", "lift", "undo", "ahead", "undoFence"}
Straying == {"strays", "stray", "strayLeft", "strayThere", "strayFence", "bring", "bringLooks", "bringMoves"}
Moving   == {"fence", "copy", "check", "select", "drop", "reselect", "repoint", "unfence"}
Backing  == {"backLocks", "backReads", "backKept", "backDrops", "forth"}

One == \A c, d \in Consolidations : Running(c) /\ Running(d) => c = d

\* Which part of the consolidation an await belongs to.
Phased(c) ==
  /\ con[c].at \notin {"relook", "discard", "recopy", "reheld"}
  /\ con[c].at \in {"start", "finish", "return"} => con[c].phase = "finish"
  /\ con[c].at \in Straying \cup {"move"} => con[c].phase = "return"
  /\ con[c].at \in Moving => con[c].phase = "move"
  /\ con[c].at \in Settling => con[c].phase # "return"
  /\ con[c].phase # "finish" => con[c].as = c

\* Where the catalog points.
Pointed(c) ==
  /\ con[c].at \in Settling \cup Straying \cup {"back"} => catalog = Shard
  /\ con[c].at \in Moving \cup Backing => catalog = Journal

\* Which files hold the run.
Held(c) ==
  /\ con[c].at \in {"held", "remove", "now", "leased", "undo", "ahead", "undoFence", "back", "strayFence"} \cup Bringing =>
       log[Journal] # NoRun
  /\ con[c].at = "strayThere" /\ con[c].left # NoRun => log[Journal] # NoRun
  /\ con[c].at \in {"check", "select", "drop", "repoint", "forth"} \cup Returning => log[Shard] # NoRun

\* The fences in c's name: none before c first ran, none on the shard until
\* c brings the run back or copies it.
Own(c) ==
  /\ con[c].at = "start" => \A f \in Files : lease[f].holder # c
  /\ con[c].at = "start" => \A d \in Consolidations : con[d].as = c => d = c
  /\ con[c].at \notin {"start", "return", "over", "stopped"} /\ con[c].phase = "finish" => con[c].as # c
  /\ con[c].phase = "finish" /\ Running(c) => lease[Shard].holder # c
  /\ con[c].at \in Straying \cup {"fence", "copy"} => lease[Shard].holder # c
  /\ con[c].at = "move" /\ catalog = Journal => lease[Shard].holder # c
  /\ con[c].phase = "return" /\ con[c].at \in (Straying \ {"strays"}) \cup {"back"} \cup Backing => ~Fenced(Journal)

\* What makes a copy safe to delete.
Covered(c) ==
  /\ con[c].at = "copy" => holdsSnapshot(con[c].left, log[Journal])
  /\ con[c].at \in {"check", "select", "drop"} /\ lease[Shard].holder = c => holdsSnapshot(log[Shard], log[Journal])
  /\ con[c].at = "held" /\ lease[Journal].holder = con[c].as => log[Journal] = con[c].left
  /\ con[c].at = "remove" /\ lease[Journal].holder = con[c].as => holdsSnapshot(log[Journal], log[Shard])
  /\ con[c].at \in {"backKept", "backDrops"} => holdsSnapshot(log[Shard], log[Journal])

Site(c) == Phased(c) /\ Pointed(c) /\ Held(c) /\ Own(c) /\ Covered(c)

\* No event is above the lease's epoch, and those at it are its holder's.
Ranked(f) ==
  \A i \in DOMAIN log[f] :
    /\ log[f][i].epoch <= lease[f].epoch
    /\ log[f][i].epoch = lease[f].epoch /\ Resumed(f) => log[f][i].by = lease[f].holder

\* Epochs never go down, and one epoch has one writer.
Ordered(events) ==
  \A i, k \in DOMAIN events : i < k =>
    /\ events[i].epoch <= events[k].epoch
    /\ events[i].epoch = events[k].epoch => events[i].by = events[k].by

Epochs ==
  /\ \A f \in Files : Ranked(f) /\ Ordered(log[f])
  /\ \A c \in Consolidations : con[c].at = "copy" =>
       Ordered(con[c].left) /\ \A i \in DOMAIN con[c].left : con[c].left[i].epoch < con[c].epoch

Alone ==
  /\ One
  /\ log[catalog] # NoRun
  /\ \A c \in Consolidations : Site(c)
  /\ LosesNothing
  /\ Epochs

AloneInv == ~load.overlap => Alone

-----------------------------------------------------------------------------
(* Prefixes, and what the steps of a consolidation do to its record *)

\* Every file holds its own snapshot, copies of copies hold it, and appending
\* an event leaves what was held.
LEMMA SnapshotFacts ==
  /\ \A s \in Seq(Event) : holdsSnapshot(s, s)
  /\ \A s, t, u \in Seq(Event) : holdsSnapshot(s, t) /\ holdsSnapshot(t, u) => holdsSnapshot(s, u)
  /\ \A s \in Seq(Event), e \in Event : holdsSnapshot(s, Append(s, e))
  /\ \A s, t \in Seq(Event) : holdsSnapshot(s, t) => \A k \in DOMAIN s : k \in DOMAIN t /\ s[k] = t[k]
  /\ \A s, t \in Seq(Event) : holdsSnapshot(s, t) /\ s # NoRun => t # NoRun
<1>1. ASSUME NEW s \in Seq(Event), NEW t \in Seq(Event), NEW u \in Seq(Event), holdsSnapshot(s, t), holdsSnapshot(t, u)
      PROVE  holdsSnapshot(s, u)
  <2>1. \A k \in DOMAIN s : k \in DOMAIN t /\ s[k] = t[k] BY <1>1 DEF holdsSnapshot
  <2> QED BY <1>1, <2>1 DEF holdsSnapshot
<1>2. ASSUME NEW s \in Seq(Event), NEW e \in Event PROVE holdsSnapshot(s, Append(s, e))
  BY DEF holdsSnapshot
<1>3. ASSUME NEW s \in Seq(Event), NEW t \in Seq(Event), holdsSnapshot(s, t), s # NoRun PROVE t # NoRun
  <2>1. Len(s) > 0 BY <1>3 DEF NoRun
  <2>2. Len(t) > 0 BY <1>3, <2>1 DEF holdsSnapshot
  <2> QED BY <2>2 DEF NoRun
<1>4. \A s, t \in Seq(Event) : holdsSnapshot(s, t) => \A k \in DOMAIN s : k \in DOMAIN t /\ s[k] = t[k]
  BY DEF holdsSnapshot
<1>5. \A s \in Seq(Event) : holdsSnapshot(s, s) BY DEF holdsSnapshot
<1> QED BY <1>1, <1>2, <1>3, <1>4, <1>5, Zenon

\* Nothing but the record of c changed, and c is at another await.
Moved(c, at) ==
  /\ con' \in [Consolidations -> Exec]
  /\ \A d \in Consolidations \ {c} : con'[d] = con[d]
  /\ con'[c].at = at

Same(c) == con'[c].phase = con[c].phase /\ con'[c].as = con[c].as /\ con'[c].epoch = con[c].epoch

Ended == {"over", "stopped"}

\* What an ended or an unstarted consolidation is.
LEMMA ExecutionTyped ==
  ASSUME NEW c \in Consolidations, NEW at \in States
  PROVE  Execution(c, at) \in Exec /\ Execution(c, at).at = at /\ Execution(c, at).phase = "finish" /\ Execution(c, at).as = c
BY DEF Execution, Exec, NoRun

\* A record of an execution stays one when fields get values of their kind.
LEMMA ExecFields ==
  ASSUME NEW e \in Exec
  PROVE  /\ \A at \in States : [e EXCEPT !.at = at] \in Exec
         /\ \A at \in States, s \in Seq(Event) : [e EXCEPT !.at = at, !.left = s] \in Exec
         /\ \A at \in States, s \in Seq(Event) : [e EXCEPT !.left = s, !.at = at] \in Exec
         /\ \A at \in States, s \in Seq(Event) : [e EXCEPT !.there = s, !.at = at] \in Exec
         /\ \A at \in States, s, t \in Seq(Event) : [e EXCEPT !.at = at, !.left = s, !.there = t] \in Exec
         /\ \A at \in States, s \in Seq(Event) : [e EXCEPT !.at = at, !.opened = TRUE, !.left = s] \in Exec
BY Zenon DEF Exec

\* Go, Forgets, Ends, Opens and Read move c to its next await and leave the other
\* consolidations alone.
LEMMA GoMeans ==
  ASSUME Typed, NEW c \in Consolidations, NEW at \in States, Go(c, at)
  PROVE  /\ Moved(c, at)
         /\ at \notin Ended => Same(c) /\ con'[c].left = con[c].left /\ con'[c].there = con[c].there
         /\ at \in Ended => con'[c].phase = "finish" /\ con'[c].as = c
<1>1. con \in [Consolidations -> Exec] /\ con[c] \in Exec BY Zenon DEF Typed
<1>2. [con[c] EXCEPT !.at = at] \in Exec BY <1>1, ExecFields, Zenon
<1>3. Execution(c, at) \in Exec BY ExecutionTyped, Zenon
<1> QED BY <1>1, <1>2, <1>3, ExecutionTyped DEF Go, To, Moved, Same, Ended, Exec

\* Forgets: the snapshots read so far are dropped.
LEMMA ForgetsMeans ==
  ASSUME Typed, NEW c \in Consolidations, NEW at \in States, Forgets(c, at)
  PROVE  /\ Moved(c, at)
         /\ at \notin Ended => Same(c)
         /\ at \in Ended => con'[c].phase = "finish" /\ con'[c].as = c
<1>1. con \in [Consolidations -> Exec] /\ con[c] \in Exec /\ NoRun \in Seq(Event) BY DEF Typed, NoRun
<1>2. [con[c] EXCEPT !.at = at, !.left = NoRun, !.there = NoRun] \in Exec BY <1>1, ExecFields, Zenon
<1>3. Execution(c, at) \in Exec BY ExecutionTyped, Zenon
<1> QED BY <1>1, <1>2, <1>3, ExecutionTyped DEF Forgets, To, Moved, Same, Ended, Exec

\* Ends: finishing goes on to returning, returning to moving, moving ends.
LEMMA EndsMeans ==
  ASSUME Typed, NEW c \in Consolidations, Ends(c)
  PROVE  \/ con[c].phase = "finish" /\ Moved(c, "return") /\ Same(c)
         \/ con[c].phase = "return" /\ Moved(c, "move") /\ Same(c)
         \/ con[c].phase = "move" /\ Moved(c, "over") /\ con'[c].phase = "finish" /\ con'[c].as = c
<1>1. con[c].phase \in {"finish", "return", "move"} BY Zenon DEF Typed, Exec
<1>2. {"return", "move", "over"} \subseteq States BY Zenon DEF States
<1>3. CASE con[c].phase = "finish" BY <1>2, <1>3, ForgetsMeans, Zenon DEF Ends, After, Ended
<1>4. CASE con[c].phase = "return" BY <1>2, <1>4, ForgetsMeans, Zenon DEF Ends, After, Ended
<1>5. CASE con[c].phase = "move" BY <1>2, <1>5, ForgetsMeans, Zenon DEF Ends, After, Ended
<1> QED BY <1>1, <1>3, <1>4, <1>5, Zenon

\* Opens: the shard file is opened.
LEMMA OpensMeans ==
  ASSUME Typed, NEW c \in Consolidations, NEW at \in States, Opens(c, at)
  PROVE  Moved(c, at) /\ Same(c)
<1>1. con \in [Consolidations -> Exec] /\ con[c] \in Exec /\ NoRun \in Seq(Event) BY DEF Typed, NoRun
<1>2. [con[c] EXCEPT !.at = at, !.opened = TRUE, !.left = NoRun] \in Exec BY <1>1, ExecFields, Zenon
<1> QED BY <1>1, <1>2, Zenon DEF Opens, Moved, Same, Exec

\* Read: c has the events the file holds now.
LEMMA ReadMeans ==
  ASSUME Typed, NEW c \in Consolidations, NEW at \in States, NEW f \in Files, NEW seen \in {"left", "there"}, Read(c, f, seen, at)
  PROVE  /\ Moved(c, at) /\ Same(c)
         /\ seen = "left" => con'[c].left = log[f]
         /\ seen = "there" => con'[c].there = log[f] /\ con'[c].left = con[c].left
<1>1. con \in [Consolidations -> Exec] /\ con[c] \in Exec /\ log[f] \in Seq(Event) BY Zenon DEF Typed
<1>2. [con[c] EXCEPT !.left = log[f], !.at = at] \in Exec /\ [con[c] EXCEPT !.there = log[f], !.at = at] \in Exec
  BY <1>1, ExecFields, Zenon
<1>3. CASE seen = "left" BY <1>1, <1>2, <1>3, Zenon DEF Read, Moved, Same, Exec
<1>4. CASE seen = "there" BY <1>1, <1>2, <1>4, Zenon DEF Read, Moved, Same, Exec
<1> QED BY <1>3, <1>4, Zenon

\* Set writes one file, in events and lease of their kinds.
LEMMA SetMeans ==
  ASSUME Typed, NEW f \in Files, NEW events \in Seq(Event), NEW row \in Lease, Set(f, events, row)
  PROVE  /\ log' \in [Files -> Seq(Event)] /\ lease' \in [Files -> Lease]
         /\ log'[f] = events /\ lease'[f] = row
         /\ \A g \in Files \ {f} : log'[g] = log[g] /\ lease'[g] = lease[g]
BY Zenon DEF Typed, Set

\* A step that leaves files and locks alone keeps Invariant, if it neither
\* leaves nor enters a transaction and reaches copying with a snapshot.
LEMMA QuietInvariant ==
  ASSUME Invariant, NEW c \in Consolidations, NEW at \in States, Moved(c, at),
         UNCHANGED <<files, locked, res>>, catalog' \in Files,
         con[c].at \notin Bringing \cup Returning, at \notin Bringing \cup Returning,
         at \in {"copy", "held", "recopy", "reheld"} => con'[c].left # NoRun
  PROVE  Invariant'
<1>1. Typed' BY Zenon DEF Invariant, Typed, Moved, files
<1>2. Locks' BY Zenon DEF Invariant, Locks, Moved
<1>3. Rows' BY Zenon DEF Invariant, Rows, files
<1>4. Snapshots' BY Zenon DEF Invariant, Snapshots, Moved
<1>5. Dropping' BY Zenon DEF Invariant, Dropping, Moved, Returning, Resumed, files
<1> QED BY <1>1, <1>2, <1>3, <1>4, <1>5, Zenon DEF Invariant

-----------------------------------------------------------------------------
(* What the transactions of a consolidation do to a file *)

\* Only file f changes.
Changes(f) ==
  /\ log' \in [Files -> Seq(Event)] /\ lease' \in [Files -> Lease]
  /\ \A g \in Files \ {f} : log'[g] = log[g] /\ lease'[g] = lease[g]

\* The same in a transaction of its own.
Touches(f) == Unlocked(f) /\ Changes(f)

\* takeOverFence took f.
Took(f, holder) ==
  /\ Touches(f) /\ ~Resumed(f) /\ log'[f] = log[f] /\ log[f] # NoRun
  /\ lease'[f].holder = holder /\ lease'[f].epoch >= lease[f].epoch

\* copy found or wrote the snapshot.
Copied(snapshot, holder, epoch) ==
  /\ Touches(Shard)
  /\ \/ UNCHANGED files /\ log[Shard] # NoRun /\ holdsSnapshot(snapshot, log[Shard])
     \/ /\ log[Shard] = NoRun \/ holdsSnapshot(log[Shard], snapshot)
        /\ ~Resumed(Shard)
        /\ log'[Shard] = snapshot /\ lease'[Shard].holder = holder /\ lease'[Shard].epoch >= epoch

\* removeRun ran on f.
Removed(f, holder) ==
  /\ Touches(f)
  /\ \/ UNCHANGED files /\ lease[f].holder # holder
     \/ lease[f].holder = holder /\ log'[f] = NoRun /\ lease'[f] = Absent

\* A fence on f was lifted, or there was none.
Lifted(f) ==
  /\ Touches(f) /\ log'[f] = log[f]
  /\ \/ lease'[f] = lease[f]
     \/ lease[f].holder \in Consolidations /\ lease'[f].holder = Nobody /\ lease'[f].epoch = lease[f].epoch

\* A lease row, and that a consolidation, a resume and nobody are three.
LEMMA LeaseTyped ==
  ASSUME Typed, NEW f \in Files
  PROVE  /\ lease[f] \in Lease /\ lease[f].epoch \in Nat /\ log[f] \in Seq(Event)
         /\ lease[f].holder \in Consolidations \cup Resumes \cup {Nobody}
         /\ Fenced(f) => ~Resumed(f) /\ lease[f].holder # Nobody
         /\ Resumed(f) => lease[f].holder # Nobody
<1>1. lease[f] \in Lease /\ log[f] \in Seq(Event) BY Zenon DEF Typed
<1>2. lease[f].epoch \in Nat /\ lease[f].holder \in Consolidations \cup Resumes \cup {Nobody} BY <1>1, Zenon DEF Lease
<1> QED BY <1>1, <1>2, ConsolidationAssumption, Zenon DEF Fenced, Resumed

\* takeOverFence, where it takes: never the lease of a resume.
LEMMA TakesOver ==
  ASSUME Invariant, NEW f \in Files, NEW holder \in Consolidations, Unlocked(f),
         \/ lease[f].holder = holder /\ UNCHANGED files
         \/ staleFence(f) /\ Set(f, log[f], [holder |-> holder, epoch |-> lease[f].epoch + 1, stale |-> FALSE])
  PROVE  Took(f, holder)
<1> USE DEF Invariant
<1>1. Typed /\ Rows OBVIOUS
<1>2. lease[f].epoch \in Nat /\ log[f] \in Seq(Event) BY <1>1, LeaseTyped, Zenon
<1>3. CASE lease[f].holder = holder /\ UNCHANGED files
  <2>1. Touches(f) BY <1>1, <1>3, Zenon DEF Touches, Changes, Typed, files
  <2>2. ~Resumed(f) /\ log[f] # NoRun BY <1>1, <1>3, LeaseTyped, Zenon DEF Rows, Fenced
  <2> QED BY <1>2, <1>3, <2>1, <2>2 DEF Took, files
<1>4. CASE staleFence(f) /\ Set(f, log[f], [holder |-> holder, epoch |-> lease[f].epoch + 1, stale |-> FALSE])
  <2> DEFINE row == [holder |-> holder, epoch |-> lease[f].epoch + 1, stale |-> FALSE]
  <2>1. row \in Lease BY <1>2 DEF Lease
  <2>2. Touches(f) /\ log'[f] = log[f] /\ lease'[f] = row BY <1>1, <1>2, <1>4, <2>1, SetMeans, Zenon DEF Touches, Changes
  <2>3. ~Resumed(f) /\ log[f] # NoRun BY <1>1, <1>4, LeaseTyped, Zenon DEF Rows, staleFence
  <2> QED BY <1>2, <2>2, <2>3 DEF Took
<1> QED BY <1>3, <1>4, Zenon

\* copy, where it holds: the shard has the snapshot afterwards, under a lease
\* that was not a resume's if it was written.
LEMMA Copies ==
  ASSUME Invariant, NEW snapshot \in Seq(Event), NEW holder \in Consolidations, NEW epoch \in Nat, Unlocked(Shard),
         \/ log[Shard] # NoRun /\ holdsSnapshot(snapshot, log[Shard]) /\ UNCHANGED files
         \/ /\ log[Shard] = NoRun \/ (holdsSnapshot(log[Shard], snapshot) /\ staleFence(Shard))
            /\ Set(Shard, snapshot,
                   [holder |-> holder, epoch |-> IF epoch > lease[Shard].epoch THEN epoch ELSE lease[Shard].epoch + 1, stale |-> FALSE])
  PROVE  Copied(snapshot, holder, epoch)
<1> USE DEF Invariant
<1> DEFINE above == IF epoch > lease[Shard].epoch THEN epoch ELSE lease[Shard].epoch + 1
           row   == [holder |-> holder, epoch |-> above, stale |-> FALSE]
<1>1. Typed /\ Rows /\ Shard \in Files BY Zenon DEF Files
<1>2. lease[Shard].epoch \in Nat BY <1>1, LeaseTyped, Zenon
<1>3. CASE log[Shard] # NoRun /\ holdsSnapshot(snapshot, log[Shard]) /\ UNCHANGED files
  BY <1>1, <1>3, Zenon DEF Copied, Touches, Changes, Typed, files
<1>4. CASE /\ log[Shard] = NoRun \/ (holdsSnapshot(log[Shard], snapshot) /\ staleFence(Shard))
           /\ Set(Shard, snapshot, row)
  <2>1. above \in Nat /\ above >= epoch BY <1>2
  <2>2. row \in Lease /\ row.epoch = above /\ row.holder = holder BY <2>1, Zenon DEF Lease
  <2> HIDE DEF row, above
  <2>3. Touches(Shard) /\ log'[Shard] = snapshot /\ lease'[Shard] = row BY <1>1, <1>4, <2>2, SetMeans, Zenon DEF Touches, Changes
  <2>4. ~Resumed(Shard) BY <1>1, <1>4, LeaseTyped, Zenon DEF Rows, staleFence
  <2> QED BY <1>4, <2>1, <2>2, <2>3, <2>4, Zenon DEF Copied
<1> QED BY <1>3, <1>4, Zenon

\* removeRun: the whole row goes, or nothing does.
LEMMA Removes ==
  ASSUME Typed, NEW f \in Files, NEW holder, removeRun(f, holder)
  PROVE  Removed(f, holder)
<1>1. Absent \in Lease /\ NoRun \in Seq(Event) BY DEF Absent, Lease, NoRun
<1>2. CASE lease[f].holder = holder BY <1>1, <1>2, SetMeans, Zenon DEF removeRun, Removed, Touches, Changes
<1>3. CASE lease[f].holder # holder BY <1>3, Zenon DEF removeRun, Removed, Touches, Changes, Typed, files
<1> QED BY <1>2, <1>3, Zenon

\* unfence and liftFence: only the fence goes, the epoch stays.
LEMMA Lifts ==
  ASSUME Typed, NEW f \in Files, NEW holders \in SUBSET Consolidations, Unfenced(f, holders)
  PROVE  Lifted(f)
<1>1. lease[f] \in Lease /\ lease \in [Files -> Lease] BY Zenon DEF Typed
<1>2. [lease[f] EXCEPT !.holder = Nobody, !.stale = FALSE] \in Lease BY <1>1, Zenon DEF Lease
<1> DEFINE row == IF lease[f].holder \in holders THEN [lease[f] EXCEPT !.holder = Nobody, !.stale = FALSE] ELSE lease[f]
<1>3. row \in Lease BY <1>1, <1>2, Zenon
<1>4. row = lease[f] \/ (lease[f].holder \in Consolidations /\ row.holder = Nobody /\ row.epoch = lease[f].epoch)
  BY <1>1, Zenon DEF Lease
<1>5. lease' = [lease EXCEPT ![f] = row] /\ UNCHANGED log /\ Unlocked(f) BY Zenon DEF Unfenced
<1> HIDE DEF row
<1>6. lease'[f] = row BY <1>1, <1>5, Zenon
<1>7. Touches(f) BY <1>1, <1>3, <1>5, Zenon DEF Touches, Changes, Typed
<1> QED BY <1>4, <1>5, <1>6, <1>7, Zenon DEF Lifted

\* A transaction of c on one file keeps Invariant, if a copy it deletes loses
\* its lease row and c reaches copying with a snapshot.
LEMMA FileInvariant ==
  ASSUME Invariant, NEW c \in Consolidations, NEW at \in States, Moved(c, at), NEW f \in Files, Touches(f),
         UNCHANGED <<locked, catalog, res>>,
         con[c].at \notin Bringing \cup Returning, at \notin Bringing \cup Returning,
         log'[f] = NoRun => lease'[f].holder = Nobody,
         at \in {"copy", "held", "recopy", "reheld"} => con'[c].left # NoRun
  PROVE  Invariant'
<1>1. Typed' BY Zenon DEF Invariant, Typed, Moved, Touches, Changes
<1>2. Locks' BY Zenon DEF Invariant, Locks, Moved
<1>3. Rows' BY Zenon DEF Invariant, Rows, Touches, Changes
<1>4. Snapshots' BY Zenon DEF Invariant, Snapshots, Moved
<1>5. Dropping'
  <2> SUFFICES ASSUME NEW d \in Consolidations, con'[d].at \in {"backKept", "backDrops"} PROVE ~Resumed(Shard)'
    BY Zenon DEF Dropping
  <2>1. d # c /\ con[d].at \in {"backKept", "backDrops"} BY Zenon DEF Moved, Returning
  <2>2. locked[Shard] = d /\ d # Nobody BY <2>1, ConsolidationAssumption, Zenon DEF Invariant, Locks, Returning
  <2>3. f # Shard BY <2>2, Zenon DEF Touches, Changes, Unlocked
  <2> QED BY <2>1, <2>3, Zenon DEF Invariant, Dropping, Touches, Changes, Resumed, Files
<1> QED BY <1>1, <1>2, <1>3, <1>4, <1>5, Zenon DEF Invariant

-----------------------------------------------------------------------------
(* Steps of a consolidation that leave the files alone *)

Good == Invariant /\ AloneInv

\* The consolidations that do not run keep their sites: they are before their
\* beginning, and nobody acts in their name, or after their end.
LEMMA OthersStay ==
  ASSUME Typed, Alone, NEW c \in Consolidations, \A d \in Consolidations \ {c} : ~Running(d) /\ con'[d] = con[d],
         con'[c].as \in {c, con[c].as, lease[Journal].holder},
         \A f \in Files : lease'[f].holder \in {lease[f].holder, Nobody, c, con[c].as} \cup Resumes
  PROVE  \A d \in Consolidations \ {c} : Site(d)'
<1> SUFFICES ASSUME NEW d \in Consolidations, d # c PROVE Site(d)' OBVIOUS
<1>1. con[d].at \in {"start", "over", "stopped"} /\ con'[d] = con[d] BY Zenon DEF Running
<1> USE <1>1
<1>2. Site(d) BY Zenon DEF Alone
<1>3. Phased(d)' BY <1>2, Zenon DEF Site, Phased, Straying, Moving, Settling
<1>4. Pointed(d)' BY Zenon DEF Pointed, Straying, Moving, Settling, Backing
<1>5. Held(d)' BY Zenon DEF Held, Bringing, Returning
<1>6. Covered(d)' BY Zenon DEF Covered
<1>7. Own(d)'
  <2>1. ~Running(d)' BY Zenon DEF Running
  <2>2. con'[d].at \notin Straying \cup Backing \cup {"fence", "copy", "move", "back"} BY Zenon DEF Straying, Backing
  <2>3. ASSUME con'[d].at = "start" PROVE \A f \in Files : lease'[f].holder # d
    BY <1>2, <2>3, ConsolidationAssumption, Zenon DEF Site, Own
  <2>4. ASSUME con'[d].at = "start", NEW e \in Consolidations, con'[e].as = d PROVE e = d
    <3>1. CASE e = c BY <1>2, <2>4, <3>1, Zenon DEF Site, Own, Files
    <3>2. CASE e # c BY <1>2, <2>4, <3>2, Zenon DEF Site, Own
    <3> QED BY <3>1, <3>2, Zenon
  <2> QED BY <2>1, <2>2, <2>3, <2>4, Zenon DEF Own
<1> QED BY <1>3, <1>4, <1>5, <1>6, <1>7, Zenon DEF Site

\* Such a step keeps Alone, if the catalog still names a file with the run and
\* c has what its new await needs.
LEMMA QuietAlone ==
  ASSUME Typed, Alone, NEW c \in Consolidations, NEW at \in States \ {"copy"}, Moved(c, at),
         \A d \in Consolidations \ {c} : ~Running(d),
         UNCHANGED <<files, res>>, log[catalog'] # NoRun,
         con'[c].as \in {c, con[c].as, lease[Journal].holder},
         Site(c)'
  PROVE  Alone'
<1>1. \A d \in Consolidations \ {c} : con'[d] = con[d] /\ ~Running(d)' BY Zenon DEF Moved, Running
<1>2. \A d \in Consolidations : Site(d)'
  <2>1. \A f \in Files : lease'[f].holder \in {lease[f].holder, Nobody, c, con[c].as} \cup Resumes BY Zenon DEF files
  <2>2. \A d \in Consolidations \ {c} : Site(d)' BY <1>1, <2>1, OthersStay, Zenon
  <2> QED BY <2>2, Zenon
<1>3. One' BY <1>1, Zenon DEF One
<1>4. LosesNothing' BY DEF Alone, LosesNothing, Kept, files
<1>5. Epochs'
  <2>1. \A f \in Files : Ranked(f)' /\ Ordered(log[f])' BY DEF Alone, Epochs, Ranked, Ordered, Resumed, files
  <2>2. \A d \in Consolidations : con'[d].at # "copy" BY <1>1, Zenon DEF Moved, Running
  <2> QED BY <2>1, <2>2, Zenon DEF Epochs
<1> QED BY <1>2, <1>3, <1>4, <1>5, Zenon DEF Alone, files

\* What a quiet step of c to the await `at' has to establish.
Quiet(c, at) ==
  /\ Moved(c, at)
  /\ UNCHANGED <<files, locked, res>> /\ catalog' \in Files
  /\ at \in {"held", "recopy", "reheld"} => con'[c].left # NoRun

\* The same where c runs alone.
Sited(c) ==
  /\ \A d \in Consolidations \ {c} : ~Running(d)
  /\ log[catalog'] # NoRun
  /\ con'[c].as \in {c, con[c].as, lease[Journal].holder}
  /\ Site(c)'

\* A step of c that leaves the files alone keeps the invariant.
LEMMA QuietGood ==
  ASSUME Good, UNCHANGED load, NEW c \in Consolidations,
         NEW at \in States \ ({"copy"} \cup Bringing \cup Returning),
         con[c].at \notin Bringing \cup Returning, Quiet(c, at),
         ~load.overlap => Sited(c)
  PROVE  Good'
<1>1. Invariant' BY QuietInvariant, Zenon DEF Good, Quiet
<1>2. ASSUME ~load.overlap PROVE Alone' BY <1>2, QuietAlone, Zenon DEF Good, AloneInv, Invariant, Quiet, Sited
<1> QED BY <1>1, <1>2, Zenon DEF Good, AloneInv

\* One consolidation runs, and it is where its site says.
LEMMA Sole ==
  ASSUME Good, ~load.overlap, NEW c \in Consolidations, Running(c)
  PROVE  (\A d \in Consolidations \ {c} : ~Running(d)) /\ Site(c) /\ log[catalog] # NoRun
BY Zenon DEF Good, AloneInv, Alone, One

\* What ends or goes on to the next part needs little: no fence on the shard in
\* c's name, unless the catalog names the shard.
LEMMA EndsSite ==
  ASSUME Typed, NEW c \in Consolidations, Running(c), Phased(c), Ends(c), Journal # Shard,
         con[c].phase = "finish" => lease'[Shard].holder # c,
         con[c].phase = "return" /\ catalog' = Journal => lease'[Shard].holder # c
  PROVE  Site(c)' /\ con'[c].as \in {c, con[c].as}
<1> USE DEF Site, Phased, Pointed, Held, Own, Covered, Settling, Straying, Moving, Backing, Bringing, Returning
<1>1. CASE con[c].phase = "finish" /\ Moved(c, "return") /\ Same(c) BY <1>1, Zenon DEF Moved, Same
<1>2. CASE con[c].phase = "return" /\ Moved(c, "move") /\ Same(c) BY <1>2, Zenon DEF Moved, Same, Running
<1>3. CASE con[c].phase = "move" /\ Moved(c, "over") /\ con'[c].phase = "finish" /\ con'[c].as = c
  BY <1>3, Zenon DEF Moved, Running
<1> QED BY <1>1, <1>2, <1>3, EndsMeans, Zenon

\* An execution that ended needs nothing.
LEMMA OverSite ==
  ASSUME NEW c \in Consolidations, NEW at \in Ended, con'[c].at = at, con'[c].phase = "finish", con'[c].as = c
  PROVE  Site(c)'
BY Zenon DEF Site, Phased, Pointed, Held, Own, Covered, Settling, Straying, Moving, Backing, Bringing, Returning, Running, Ended

\* Going on to the next part keeps the invariant.
LEMMA EndsGood ==
  ASSUME Good, UNCHANGED load, NEW c \in Consolidations, Running(c), con[c].at \notin Bringing \cup Returning,
         Ends(c), UNCHANGED <<files, locked, res>>, catalog' \in Files,
         ~load.overlap => log[catalog'] # NoRun /\ (con[c].phase = "return" /\ catalog' = Journal => lease[Shard].holder # c)
  PROVE  Good'
<1>1. Typed /\ Journal # Shard BY Zenon DEF Good, Invariant, Journal, Shard
<1>2. ASSUME ~load.overlap PROVE Sited(c)
  <2>1. (\A d \in Consolidations \ {c} : ~Running(d)) /\ Site(c) BY <1>2, Sole, Zenon
  <2>2. con[c].phase = "finish" => lease[Shard].holder # c BY <2>1, Zenon DEF Site, Own
  <2> QED BY <1>1, <1>2, <2>1, <2>2, EndsSite, Zenon DEF Site, Sited, files
<1>3. CASE Moved(c, "return") BY <1>2, <1>3, QuietGood, Zenon DEF Quiet, States, Bringing, Returning
<1>4. CASE Moved(c, "move") BY <1>2, <1>4, QuietGood, Zenon DEF Quiet, States, Bringing, Returning
<1>5. CASE Moved(c, "over") BY <1>2, <1>5, QuietGood, Zenon DEF Quiet, States, Bringing, Returning
<1> QED BY <1>1, <1>3, <1>4, <1>5, EndsMeans, Zenon

\* Ending early keeps the invariant.
LEMMA OverGood ==
  ASSUME Good, UNCHANGED load, NEW c \in Consolidations, Running(c), con[c].at \notin Bringing \cup Returning,
         Go(c, "over"), UNCHANGED <<files, locked, res, catalog>>
  PROVE  Good'
<1>1. Typed /\ "over" \in States /\ "over" \in Ended /\ catalog \in Files BY Zenon DEF Good, Invariant, Typed, States, Ended
<1>2. Moved(c, "over") /\ con'[c].phase = "finish" /\ con'[c].as = c BY <1>1, GoMeans, Zenon
<1>3. ASSUME ~load.overlap PROVE Sited(c)
  BY <1>1, <1>2, <1>3, Sole, OverSite, Zenon DEF Sited, Moved
<1> QED BY <1>1, <1>2, <1>3, QuietGood, Zenon DEF Quiet, Bringing, Returning

\* finishInterruptedMoves, up to the settling of the move it found.
LEMMA FinishSteps ==
  ASSUME Good, UNCHANGED load, NEW c \in Consolidations,
         FinishLooks(c) \/ FinishLocates(c)
  PROVE  Good'
<1> USE DEF Site, Phased, Pointed, Held, Own, Covered, Settling, Straying, Moving, Backing, Bringing, Returning
<1>1. Typed /\ Good BY Zenon DEF Good, Invariant
<1> USE <1>1
<1>2. con[c] \in Exec /\ catalog \in Files /\ Journal \in Files /\ Shard \in Files /\ Journal # Shard
  BY Zenon DEF Typed, Files, Journal, Shard
<1> USE <1>2
<1>3. CASE FinishLooks(c)
  <2>1. con[c].at = "start" /\ UNCHANGED <<files, locked, catalog, res>> BY <1>3, Zenon DEF FinishLooks, Still
  <2> USE <2>1
  <2>2. ASSUME ~load.overlap PROVE Site(c) /\ log[catalog] # NoRun /\ \A d \in Consolidations : ~Running(d)
    BY <1>3, <2>2, Zenon DEF Good, AloneInv, Alone, FinishLooks
  <2>3. CASE Fenced(Journal)
    <3>1. con' = [con EXCEPT ![c] = [con[c] EXCEPT !.at = "finish", !.as = lease[Journal].holder, !.epoch = lease[Journal].epoch]]
      BY <1>3, <2>3, Zenon DEF FinishLooks
    <3>2. lease[Journal].epoch \in Nat /\ lease[Journal].holder \in Consolidations BY <2>3, LeaseTyped, Zenon DEF Fenced
    <3>3. [con[c] EXCEPT !.at = "finish", !.as = lease[Journal].holder, !.epoch = lease[Journal].epoch] \in Exec
      BY <3>2, Zenon DEF Exec, States
    <3>4. Moved(c, "finish") /\ con'[c].as = lease[Journal].holder /\ con'[c].phase = con[c].phase
      BY <3>1, <3>3, Zenon DEF Typed, Moved, Exec
    <3>5. Quiet(c, "finish") BY <3>4, Zenon DEF Quiet
    <3>6. ASSUME ~load.overlap PROVE Sited(c) BY <2>2, <3>2, <3>4, <3>6, Zenon DEF Sited, Moved, Running, files
    <3> QED BY <3>5, <3>6, QuietGood, Zenon DEF States
  <2>4. CASE ~Fenced(Journal)
    <3>1. Moved(c, "return") /\ Same(c) BY <1>3, <2>4, GoMeans, Zenon DEF FinishLooks, States, Ended
    <3>2. Quiet(c, "return") BY <3>1, Zenon DEF Quiet
    <3>3. ASSUME ~load.overlap PROVE Sited(c) BY <2>2, <3>1, <3>3, Zenon DEF Sited, Moved, Same, Running, Fenced, files
    <3> QED BY <3>2, <3>3, QuietGood, Zenon DEF States
  <2> QED BY <2>3, <2>4, Zenon
<1>4. CASE FinishLocates(c)
  <2>1. con[c].at = "finish" /\ Running(c) /\ UNCHANGED <<files, locked, catalog, res>> BY <1>4, Zenon DEF FinishLocates, Still, Running
  <2> USE <2>1
  <2>2. ASSUME ~load.overlap PROVE Site(c) /\ log[catalog] # NoRun /\ \A d \in Consolidations \ {c} : ~Running(d)
    BY <2>2, Sole, Zenon
  <2>3. CASE catalog = Shard
    <3>1. Moved(c, "settle") /\ Same(c) BY <1>4, <2>3, OpensMeans, Zenon DEF FinishLocates, States
    <3>2. Quiet(c, "settle") BY <3>1, Zenon DEF Quiet
    <3>3. ASSUME ~load.overlap PROVE Sited(c) BY <2>2, <2>3, <3>1, <3>3, Zenon DEF Sited, Moved, Same, Running, Fenced, files
    <3> QED BY <3>2, <3>3, QuietGood, Zenon DEF States
  <2>4. CASE catalog # Shard
    <3>1. Moved(c, "return") /\ Same(c) BY <1>4, <2>4, GoMeans, Zenon DEF FinishLocates, States, Ended
    <3>2. Quiet(c, "return") BY <3>1, Zenon DEF Quiet
    <3>3. ASSUME ~load.overlap PROVE Sited(c) BY <2>2, <3>1, <3>3, Zenon DEF Sited, Moved, Same, Running, Fenced, files
    <3> QED BY <3>2, <3>3, QuietGood, Zenon DEF States
  <2> QED BY <2>3, <2>4, Zenon
<1> QED BY <1>3, <1>4, Zenon

\* The steps of returnStrandedRuns that only look.
LEMMA ReturnSteps ==
  ASSUME Good, UNCHANGED load, NEW c \in Consolidations,
         ReturnLists(c) \/ ReturnFinds(c) \/ ReturnLocates(c) \/ ReturnReads(c) \/ ReturnCompares(c)
  PROVE  Good'
<1> USE DEF Site, Phased, Pointed, Held, Own, Covered, Settling, Straying, Moving, Backing, Bringing, Returning
<1>1. Typed /\ Good BY Zenon DEF Good, Invariant
<1> USE <1>1
<1>2. con[c] \in Exec /\ catalog \in Files /\ Journal \in Files /\ Shard \in Files /\ Journal # Shard
  BY Zenon DEF Typed, Files, Journal, Shard
<1> USE <1>2
<1>3. CASE ReturnLists(c)
  <2>1. con[c].at = "return" /\ Running(c) /\ UNCHANGED <<files, locked, catalog, res>> BY <1>3, Zenon DEF ReturnLists, Still, Running
  <2> USE <2>1
  <2>2. ASSUME ~load.overlap PROVE Site(c) /\ log[catalog] # NoRun /\ \A d \in Consolidations \ {c} : ~Running(d)
    BY <2>2, Sole, Zenon
  <2> DEFINE at == IF catalog = Journal THEN "move" ELSE "strays"
             e  == [con[c] EXCEPT !.at = at, !.phase = "return", !.as = c, !.epoch = 0]
  <2>3. con' = [con EXCEPT ![c] = e] /\ at \in {"move", "strays"} BY <1>3, Zenon DEF ReturnLists
  <2>4. e \in Exec /\ e.at = at /\ e.phase = "return" /\ e.as = c BY <2>3, Zenon DEF Exec, States
  <2> HIDE DEF e
  <2>5. Moved(c, at) /\ con'[c].phase = "return" /\ con'[c].as = c BY <2>3, <2>4, Zenon DEF Typed, Moved
  <2>6. Quiet(c, at) BY <2>3, <2>5, Zenon DEF Quiet
  <2>7. ASSUME ~load.overlap PROVE Sited(c)
    <3>1. CASE catalog = Journal BY <2>2, <2>5, <2>7, <3>1, Zenon DEF Sited, Moved, Running, files
    <3>2. CASE catalog = Shard BY <2>2, <2>5, <2>7, <3>2, Zenon DEF Sited, Moved, Running, files
    <3> QED BY <3>1, <3>2, Zenon DEF Files
  <2> QED BY <2>3, <2>6, <2>7, QuietGood, Zenon DEF States
<1>4. CASE ReturnFinds(c)
  <2>1. con[c].at = "strays" /\ Running(c) /\ UNCHANGED <<files, locked, catalog, res>> BY <1>4, Zenon DEF ReturnFinds, Still, Running
  <2> USE <2>1
  <2>2. ASSUME ~load.overlap PROVE Site(c) /\ log[catalog] # NoRun /\ \A d \in Consolidations \ {c} : ~Running(d)
    BY <2>2, Sole, Zenon
  <2>3. CASE log[Journal] # NoRun /\ ~Fenced(Journal)
    <3>1. Moved(c, "stray") /\ Same(c) BY <1>4, <2>3, GoMeans, Zenon DEF ReturnFinds, States, Ended
    <3>2. Quiet(c, "stray") BY <2>3, <3>1, Zenon DEF Quiet
    <3>3. ASSUME ~load.overlap PROVE Sited(c) BY <2>2, <2>3, <3>1, <3>3, Zenon DEF Sited, Moved, Same, Running, Fenced, files
    <3> QED BY <3>2, <3>3, QuietGood, Zenon DEF States
  <2>4. CASE ~(log[Journal] # NoRun /\ ~Fenced(Journal))
    <3>1. Moved(c, "move") /\ Same(c) BY <1>4, <2>4, GoMeans, Zenon DEF ReturnFinds, States, Ended
    <3>2. Quiet(c, "move") BY <2>4, <3>1, Zenon DEF Quiet
    <3>3. ASSUME ~load.overlap PROVE Sited(c) BY <2>2, <2>4, <3>1, <3>3, Zenon DEF Sited, Moved, Same, Running, Fenced, files
    <3> QED BY <3>2, <3>3, QuietGood, Zenon DEF States
  <2> QED BY <2>3, <2>4, Zenon
<1>5. CASE ReturnLocates(c)
  <2>1. con[c].at = "stray" /\ Running(c) /\ UNCHANGED <<files, locked, catalog, res>> BY <1>5, Zenon DEF ReturnLocates, Still, Running
  <2> USE <2>1
  <2>2. ASSUME ~load.overlap PROVE Site(c) /\ log[catalog] # NoRun /\ \A d \in Consolidations \ {c} : ~Running(d)
    BY <2>2, Sole, Zenon
  <2>3. CASE catalog = Shard
    <3>1. Moved(c, "strayLeft") /\ Same(c) BY <1>5, <2>3, OpensMeans, Zenon DEF ReturnLocates, States, Ended
    <3>2. Quiet(c, "strayLeft") BY <2>3, <3>1, Zenon DEF Quiet
    <3>3. ASSUME ~load.overlap PROVE Sited(c) BY <2>2, <2>3, <3>1, <3>3, Zenon DEF Sited, Moved, Same, Running, Fenced, files
    <3> QED BY <3>2, <3>3, QuietGood, Zenon DEF States
  <2>4. CASE catalog # Shard
    <3>1. Moved(c, "move") /\ Same(c) BY <1>5, <2>4, GoMeans, Zenon DEF ReturnLocates, States, Ended
    <3>2. Quiet(c, "move") BY <2>4, <3>1, Zenon DEF Quiet
    <3>3. ASSUME ~load.overlap PROVE Sited(c) BY <2>2, <2>4, <3>1, <3>3, Zenon DEF Sited, Moved, Same, Running, Fenced, files
    <3> QED BY <3>2, <3>3, QuietGood, Zenon DEF States
  <2> QED BY <2>3, <2>4, Zenon
<1>6. CASE ReturnReads(c)
  <2>1. con[c].at = "strayLeft" /\ Running(c) /\ UNCHANGED <<files, locked, catalog, res>> BY <1>6, Zenon DEF ReturnReads, Still, Running
  <2>2. ASSUME ~load.overlap PROVE Site(c) /\ log[catalog] # NoRun /\ \A d \in Consolidations \ {c} : ~Running(d)
    BY <2>1, <2>2, Sole, Zenon
  <2>3. CASE TRUE
    <3>1. Moved(c, "strayThere") /\ Same(c) /\ con'[c].left = log[Journal] BY <1>6, <2>3, ReadMeans DEF ReturnReads, States, Ended
    <3>2. Quiet(c, "strayThere") BY <2>1, <2>3, <3>1, Zenon DEF Quiet
    <3>3. ASSUME ~load.overlap PROVE Sited(c) BY <2>1, <2>2, <2>3, <3>1, <3>3, Zenon DEF Sited, Moved, Same, Running, Fenced, files
    <3> QED BY <2>1, <3>2, <3>3, QuietGood, Zenon DEF States
  <2> QED BY <2>3, Zenon
<1>7. CASE ReturnCompares(c)
  <2>1. con[c].at = "strayThere" /\ Running(c) /\ UNCHANGED <<files, locked, catalog, res>> BY <1>7, Zenon DEF ReturnCompares, Still, Running
  <2> USE <2>1
  <2>2. ASSUME ~load.overlap PROVE Site(c) /\ log[catalog] # NoRun /\ \A d \in Consolidations \ {c} : ~Running(d)
    BY <2>2, Sole, Zenon
  <2>3. CASE con[c].left # NoRun /\ log[Shard] = NoRun
    <3>1. Moved(c, "bring") /\ Same(c) BY <1>7, <2>3, ForgetsMeans, Zenon DEF ReturnCompares, States, Ended
    <3>2. Quiet(c, "bring") BY <2>3, <3>1, Zenon DEF Quiet
    <3>3. ASSUME ~load.overlap PROVE Sited(c) BY <2>2, <2>3, <3>1, <3>3, Zenon DEF Sited, Moved, Same, Running, Fenced, files
    <3> QED BY <3>2, <3>3, QuietGood, Zenon DEF States
  <2>4. CASE ~(con[c].left # NoRun /\ log[Shard] = NoRun) /\ con[c].left # NoRun /\ ~holdsSnapshot(con[c].left, log[Shard]) /\ holdsSnapshot(log[Shard], con[c].left)
    <3>1. Moved(c, "strayFence") /\ Same(c) BY <1>7, <2>4, ForgetsMeans, Zenon DEF ReturnCompares, States, Ended
    <3>2. Quiet(c, "strayFence") BY <2>4, <3>1, Zenon DEF Quiet
    <3>3. ASSUME ~load.overlap PROVE Sited(c) BY <2>2, <2>4, <3>1, <3>3, Zenon DEF Sited, Moved, Same, Running, Fenced, files
    <3> QED BY <3>2, <3>3, QuietGood, Zenon DEF States
  <2>5. CASE ~(con[c].left # NoRun /\ log[Shard] = NoRun) /\ ~(con[c].left # NoRun /\ ~holdsSnapshot(con[c].left, log[Shard]) /\ holdsSnapshot(log[Shard], con[c].left))
    BY <1>7, <2>2, <2>5, EndsGood, Zenon DEF ReturnCompares
  <2> QED BY <2>3, <2>4, <2>5, Zenon
<1> QED BY <1>3, <1>4, <1>5, <1>6, <1>7, Zenon

\* The steps of moveOne that only look, and the one that repoints the catalog.
LEMMA MoveSteps ==
  ASSUME Good, UNCHANGED load, NEW c \in Consolidations,
         MoveLists(c) \/ MoveChecks(c) \/ AbandonLooks(c) \/ AbandonLooksAgain(c) \/ MoveRepoints(c) \/ MoveLooks(c)
  PROVE  Good'
<1> USE DEF Site, Phased, Pointed, Held, Own, Covered, Settling, Straying, Moving, Backing, Bringing, Returning
<1>1. Typed /\ Good BY Zenon DEF Good, Invariant
<1> USE <1>1
<1>2. con[c] \in Exec /\ catalog \in Files /\ Journal \in Files /\ Shard \in Files /\ Journal # Shard
  BY Zenon DEF Typed, Files, Journal, Shard
<1> USE <1>2
<1>3. CASE MoveLists(c)
  <2>1. con[c].at = "move" /\ Running(c) /\ UNCHANGED <<files, locked, catalog, res>> BY <1>3, Zenon DEF MoveLists, Still, Running
  <2> USE <2>1
  <2>2. ASSUME ~load.overlap PROVE Site(c) /\ log[catalog] # NoRun /\ \A d \in Consolidations \ {c} : ~Running(d)
    BY <2>2, Sole, Zenon
  <2>3. CASE catalog = Journal
    <3> DEFINE e == [con[c] EXCEPT !.at = "fence", !.phase = "move"]
    <3>1. con' = [con EXCEPT ![c] = e] BY <1>3, <2>3 DEF MoveLists, To, Exec
    <3>2. e \in Exec /\ e.at = "fence" /\ e.phase = "move" /\ e.as = con[c].as BY Zenon DEF Exec, States
    <3> HIDE DEF e
    <3>3. Moved(c, "fence") /\ con'[c].phase = "move" /\ con'[c].as = con[c].as BY <3>1, <3>2, Zenon DEF Typed, Moved
    <3>4. Quiet(c, "fence") BY <3>3, Zenon DEF Quiet
    <3>5. ASSUME ~load.overlap PROVE Sited(c)
      BY <2>2, <2>3, <3>3, <3>5, Zenon DEF Sited, Moved, Running, files
    <3> QED BY <3>4, <3>5, QuietGood, Zenon DEF States
  <2>4. CASE catalog # Journal
    <3>1. con' = [con EXCEPT ![c] = Execution(c, "over")] BY <1>3, <2>4 DEF MoveLists, To, Exec
    <3>2. Moved(c, "over") /\ con'[c].phase = "finish" /\ con'[c].as = c
      <4> DEFINE e == Execution(c, "over")
      <4>1. e \in Exec /\ e.at = "over" /\ e.phase = "finish" /\ e.as = c BY ExecutionTyped, Zenon DEF States
      <4> HIDE DEF e
      <4>2. con' = [con EXCEPT ![c] = e] BY <3>1 DEF e
      <4> QED BY <4>1, <4>2, Zenon DEF Typed, Moved
    <3>3. Quiet(c, "over") BY <3>2, Zenon DEF Quiet
    <3>4. ASSUME ~load.overlap PROVE Sited(c) BY <2>2, <3>2, <3>4, OverSite, Zenon DEF Sited, Moved, Ended
    <3> QED BY <3>3, <3>4, QuietGood, Zenon DEF States
  <2> QED BY <2>3, <2>4, Zenon
<1>4. CASE MoveChecks(c)
  <2>1. con[c].at = "check" /\ Running(c) /\ UNCHANGED <<files, locked, catalog, res>> BY <1>4, Zenon DEF MoveChecks, Still, Running
  <2> USE <2>1
  <2>2. ASSUME ~load.overlap PROVE Site(c) /\ log[catalog] # NoRun /\ \A d \in Consolidations \ {c} : ~Running(d)
    BY <2>2, Sole, Zenon
  <2>3. CASE Resumed(Journal)
    <3>1. Moved(c, "select") /\ Same(c) BY <1>4, <2>3, GoMeans, Zenon DEF MoveChecks, States, Ended
    <3>2. Quiet(c, "select") BY <2>3, <3>1, Zenon DEF Quiet
    <3>3. ASSUME ~load.overlap PROVE Sited(c)
      BY <2>2, <2>3, <3>1, <3>3, Zenon DEF Sited, Moved, Same, Running, Fenced, files
    <3> QED BY <3>2, <3>3, QuietGood, Zenon DEF States
  <2>4. CASE ~Resumed(Journal)
    <3>1. Moved(c, "repoint") /\ Same(c) BY <1>4, <2>4, GoMeans, Zenon DEF MoveChecks, States, Ended
    <3>2. Quiet(c, "repoint") BY <2>4, <3>1, Zenon DEF Quiet
    <3>3. ASSUME ~load.overlap PROVE Sited(c)
      BY <2>2, <2>4, <3>1, <3>3, Zenon DEF Sited, Moved, Same, Running, Fenced, files
    <3> QED BY <3>2, <3>3, QuietGood, Zenon DEF States
  <2> QED BY <2>3, <2>4, Zenon
<1>5. CASE AbandonLooks(c)
  <2>1. con[c].at = "select" /\ Running(c) /\ UNCHANGED <<files, locked, catalog, res>> BY <1>5, Zenon DEF AbandonLooks, Still, Running
  <2> USE <2>1
  <2>2. ASSUME ~load.overlap PROVE Site(c) /\ log[catalog] # NoRun /\ \A d \in Consolidations \ {c} : ~Running(d)
    BY <2>2, Sole, Zenon
  <2>3. CASE catalog = Shard
    <3>1. Moved(c, "settle") /\ Same(c) BY <1>5, <2>3, GoMeans, Zenon DEF AbandonLooks, States, Ended
    <3>2. Quiet(c, "settle") BY <2>3, <3>1, Zenon DEF Quiet
    <3>3. ASSUME ~load.overlap PROVE Sited(c)
      BY <2>2, <2>3, <3>1, <3>3, Zenon DEF Sited, Moved, Same, Running, Fenced, files
    <3> QED BY <3>2, <3>3, QuietGood, Zenon DEF States
  <2>4. CASE catalog # Shard
    <3>1. Moved(c, "drop") /\ Same(c) BY <1>5, <2>4, GoMeans, Zenon DEF AbandonLooks, States, Ended
    <3>2. Quiet(c, "drop") BY <2>4, <3>1, Zenon DEF Quiet
    <3>3. ASSUME ~load.overlap PROVE Sited(c)
      BY <2>2, <2>4, <3>1, <3>3, Zenon DEF Sited, Moved, Same, Running, Fenced, files
    <3> QED BY <3>2, <3>3, QuietGood, Zenon DEF States
  <2> QED BY <2>3, <2>4, Zenon
<1>6. CASE AbandonLooksAgain(c)
  <2>1. con[c].at = "reselect" /\ Running(c) /\ UNCHANGED <<files, locked, catalog, res>> BY <1>6, Zenon DEF AbandonLooksAgain, Still, Running
  <2> USE <2>1
  <2>2. ASSUME ~load.overlap PROVE Site(c) /\ log[catalog] # NoRun /\ \A d \in Consolidations \ {c} : ~Running(d)
    BY <2>2, Sole, Zenon
  <2>3. CASE catalog = Shard
    <3>1. Moved(c, "settle") /\ Same(c) BY <1>6, <2>3, GoMeans, Zenon DEF AbandonLooksAgain, States, Ended
    <3>2. Quiet(c, "settle") BY <2>3, <3>1, Zenon DEF Quiet
    <3>3. ASSUME ~load.overlap PROVE Sited(c)
      BY <2>2, <2>3, <3>1, <3>3, Zenon DEF Sited, Moved, Same, Running, Fenced, files
    <3> QED BY <3>2, <3>3, QuietGood, Zenon DEF States
  <2>4. CASE catalog # Shard
    BY <1>6, <2>4, OverGood, Zenon DEF AbandonLooksAgain
  <2> QED BY <2>3, <2>4, Zenon
<1>7. CASE MoveRepoints(c)
  <2>1. con[c].at = "repoint" /\ Running(c) /\ UNCHANGED <<files, locked, res>> BY <1>7, Zenon DEF MoveRepoints, Still, Running
  <2> USE <2>1
  <2>2. ASSUME ~load.overlap PROVE Site(c) /\ log[catalog] # NoRun /\ \A d \in Consolidations \ {c} : ~Running(d)
    BY <2>2, Sole, Zenon
  <2>3. catalog' = IF catalog = Journal THEN Shard ELSE catalog BY <1>7, Zenon DEF MoveRepoints, moveRun
  <2> USE <2>3
  <2>4. catalog' \in Files OBVIOUS
  <2>5. CASE catalog = Journal
    <3>1. Moved(c, "settle") /\ Same(c) BY <1>7, <2>5, GoMeans, Zenon DEF MoveRepoints, States, Ended
    <3>2. Quiet(c, "settle") BY <2>5, <3>1, <2>4, Zenon DEF Quiet
    <3>3. ASSUME ~load.overlap PROVE Sited(c)
      BY <2>2, <2>5, <3>1, <3>3, <2>4, Zenon DEF Sited, Moved, Same, Running, Fenced, files
    <3> QED BY <3>2, <3>3, QuietGood, Zenon DEF States
  <2>6. CASE catalog # Journal
    <3>1. Moved(c, "relook") /\ Same(c) BY <1>7, <2>6, GoMeans, Zenon DEF MoveRepoints, States, Ended
    <3>2. Quiet(c, "relook") BY <2>6, <3>1, <2>4, Zenon DEF Quiet
    <3>3. ASSUME ~load.overlap PROVE Sited(c)
      BY <2>2, <2>6, <3>1, <3>3, <2>4, Zenon DEF Sited, Moved, Same, Running, Fenced, files
    <3> QED BY <3>2, <3>3, QuietGood, Zenon DEF States
  <2> QED BY <2>5, <2>6, Zenon
<1>8. CASE MoveLooks(c)
  <2>1. con[c].at = "relook" /\ Running(c) /\ UNCHANGED <<files, locked, catalog, res>> BY <1>8, Zenon DEF MoveLooks, Still, Running
  <2> USE <2>1
  <2>2. ASSUME ~load.overlap PROVE Site(c) /\ log[catalog] # NoRun /\ \A d \in Consolidations \ {c} : ~Running(d)
    BY <2>2, Sole, Zenon
  <2>3. CASE catalog = Shard
    <3>1. Moved(c, "settle") /\ Same(c) BY <1>8, <2>3, GoMeans, Zenon DEF MoveLooks, States, Ended
    <3>2. Quiet(c, "settle") BY <2>3, <3>1, Zenon DEF Quiet
    <3>3. ASSUME ~load.overlap PROVE Sited(c)
      BY <2>2, <2>3, <3>1, <3>3, Zenon DEF Sited, Moved, Same, Running, Fenced, files
    <3> QED BY <3>2, <3>3, QuietGood, Zenon DEF States
  <2>4. CASE catalog # Shard
    <3>1. Moved(c, "discard") /\ Same(c) BY <1>8, <2>4, GoMeans, Zenon DEF MoveLooks, States, Ended
    <3>2. Quiet(c, "discard") BY <2>4, <3>1, Zenon DEF Quiet
    <3>3. ASSUME ~load.overlap PROVE Sited(c)
      BY <2>2, <2>4, <3>1, <3>3, Zenon DEF Sited, Moved, Same, Running, Fenced, files
    <3> QED BY <3>2, <3>3, QuietGood, Zenon DEF States
  <2> QED BY <2>3, <2>4, Zenon
<1> QED BY <1>3, <1>4, <1>5, <1>6, <1>7, <1>8, Zenon

\* The steps of settleMove that only look.
LEMMA SettleSteps ==
  ASSUME Good, UNCHANGED load, NEW c \in Consolidations,
         SettleReads(c) \/ SettleCompares(c) \/ SettleComparesCopy(c) \/ SettleLooks(c) \/ SettleLooksThere(c) \/ SettleDecides(c) \/ UndoReads(c) \/ UndoCompares(c)
  PROVE  Good'
<1> USE DEF Site, Phased, Pointed, Held, Own, Covered, Settling, Straying, Moving, Backing, Bringing, Returning
<1>1. Typed /\ Good BY Zenon DEF Good, Invariant
<1> USE <1>1
<1>2. con[c] \in Exec /\ catalog \in Files /\ Journal \in Files /\ Shard \in Files /\ Journal # Shard
  BY Zenon DEF Typed, Files, Journal, Shard
<1> USE <1>2
<1>3. CASE SettleReads(c)
  <2>1. con[c].at = "settle" /\ Running(c) /\ UNCHANGED <<files, locked, catalog, res>> BY <1>3, Zenon DEF SettleReads, Still, Running
  <2> USE <2>1
  <2>2. ASSUME ~load.overlap PROVE Site(c) /\ log[catalog] # NoRun /\ \A d \in Consolidations \ {c} : ~Running(d)
    BY <2>2, Sole, Zenon
  <2>3. CASE log[Journal] = NoRun
    <3>1. Moved(c, "lift") /\ Same(c) BY <1>3, <2>3, ReadMeans DEF SettleReads, States, Ended
    <3>2. Quiet(c, "lift") BY <2>3, <3>1, Zenon DEF Quiet
    <3>3. ASSUME ~load.overlap PROVE Sited(c)
      BY <2>2, <2>3, <3>1, <3>3, Zenon DEF Sited, Moved, Same, Running, Fenced, files
    <3> QED BY <3>2, <3>3, QuietGood, Zenon DEF States
  <2>4. CASE log[Journal] # NoRun
    <3>1. Moved(c, "held") /\ Same(c) /\ con'[c].left = log[Journal] BY <1>3, <2>4, ReadMeans DEF SettleReads, States, Ended
    <3>2. Quiet(c, "held") BY <2>4, <3>1, Zenon DEF Quiet
    <3>3. ASSUME ~load.overlap PROVE Sited(c)
      BY <2>2, <2>4, <3>1, <3>3, Zenon DEF Sited, Moved, Same, Running, Fenced, files
    <3> QED BY <3>2, <3>3, QuietGood, Zenon DEF States
  <2> QED BY <2>3, <2>4, Zenon
<1>4. CASE SettleCompares(c)
  <2>1. con[c].at = "held" /\ Running(c) /\ UNCHANGED <<files, locked, catalog, res>> BY <1>4, Zenon DEF SettleCompares, Still, Running
  <2> USE <2>1
  <2>2. ASSUME ~load.overlap PROVE Site(c) /\ log[catalog] # NoRun /\ \A d \in Consolidations \ {c} : ~Running(d)
    BY <2>2, Sole, Zenon
  <2>3. CASE log[Shard] = NoRun
    <3>1. Moved(c, "recopy") /\ Same(c) /\ con'[c].left = con[c].left BY <1>4, <2>3, GoMeans, Zenon DEF SettleCompares, States, Ended
    <3>2. Quiet(c, "recopy") BY <2>3, <3>1, Zenon DEF Quiet, Good, Invariant, Snapshots
    <3>3. ASSUME ~load.overlap PROVE Sited(c)
      BY <2>2, <2>3, <3>1, <3>3, Zenon DEF Sited, Moved, Same, Running, Fenced, files
    <3> QED BY <3>2, <3>3, QuietGood, Zenon DEF States
  <2>4. CASE log[Shard] # NoRun /\ holdsSnapshot(con[c].left, log[Shard])
    <3>1. Moved(c, "remove") /\ Same(c) BY <1>4, <2>4, ForgetsMeans, Zenon DEF SettleCompares, States, Ended, Compared
    <3>2. Quiet(c, "remove") BY <2>4, <3>1, Zenon DEF Quiet
    <3>3. ASSUME ~load.overlap PROVE Sited(c)
      BY <2>2, <2>4, <3>1, <3>3, Zenon DEF Sited, Moved, Same, Running, Fenced, files
    <3> QED BY <3>2, <3>3, QuietGood, Zenon DEF States
  <2>5. CASE log[Shard] # NoRun /\ ~holdsSnapshot(con[c].left, log[Shard]) /\ holdsSnapshot(log[Shard], con[c].left)
    <3>1. Moved(c, "undo") /\ Same(c) BY <1>4, <2>5, ForgetsMeans, Zenon DEF SettleCompares, States, Ended, Compared
    <3>2. Quiet(c, "undo") BY <2>5, <3>1, Zenon DEF Quiet
    <3>3. ASSUME ~load.overlap PROVE Sited(c)
      BY <2>2, <2>5, <3>1, <3>3, Zenon DEF Sited, Moved, Same, Running, Fenced, files
    <3> QED BY <3>2, <3>3, QuietGood, Zenon DEF States
  <2>6. CASE log[Shard] # NoRun /\ ~holdsSnapshot(con[c].left, log[Shard]) /\ ~holdsSnapshot(log[Shard], con[c].left)
    BY <1>4, <2>2, <2>6, EndsGood, Zenon DEF SettleCompares, Compared
  <2> QED BY <2>3, <2>4, <2>5, <2>6, Zenon
<1>5. CASE SettleComparesCopy(c)
  <2>1. con[c].at = "reheld" /\ Running(c) /\ UNCHANGED <<files, locked, catalog, res>> BY <1>5, Zenon DEF SettleComparesCopy, Still, Running
  <2> USE <2>1
  <2>2. ASSUME ~load.overlap PROVE Site(c) /\ log[catalog] # NoRun /\ \A d \in Consolidations \ {c} : ~Running(d)
    BY <2>2, Sole, Zenon
  <2>3. CASE log[Shard] = NoRun
    BY <1>5, <2>3, OverGood, Zenon DEF SettleComparesCopy
  <2>4. CASE log[Shard] # NoRun /\ holdsSnapshot(con[c].left, log[Shard])
    <3>1. Moved(c, "remove") /\ Same(c) BY <1>5, <2>4, ForgetsMeans, Zenon DEF SettleComparesCopy, States, Ended, Compared
    <3>2. Quiet(c, "remove") BY <2>4, <3>1, Zenon DEF Quiet
    <3>3. ASSUME ~load.overlap PROVE Sited(c)
      BY <2>2, <2>4, <3>1, <3>3, Zenon DEF Sited, Moved, Same, Running, Fenced, files
    <3> QED BY <3>2, <3>3, QuietGood, Zenon DEF States
  <2>5. CASE log[Shard] # NoRun /\ ~holdsSnapshot(con[c].left, log[Shard]) /\ holdsSnapshot(log[Shard], con[c].left)
    <3>1. Moved(c, "undo") /\ Same(c) BY <1>5, <2>5, ForgetsMeans, Zenon DEF SettleComparesCopy, States, Ended, Compared
    <3>2. Quiet(c, "undo") BY <2>5, <3>1, Zenon DEF Quiet
    <3>3. ASSUME ~load.overlap PROVE Sited(c)
      BY <2>2, <2>5, <3>1, <3>3, Zenon DEF Sited, Moved, Same, Running, Fenced, files
    <3> QED BY <3>2, <3>3, QuietGood, Zenon DEF States
  <2>6. CASE log[Shard] # NoRun /\ ~holdsSnapshot(con[c].left, log[Shard]) /\ ~holdsSnapshot(log[Shard], con[c].left)
    BY <1>5, <2>2, <2>6, EndsGood, Zenon DEF SettleComparesCopy, Compared
  <2> QED BY <2>3, <2>4, <2>5, <2>6, Zenon
<1>6. CASE SettleLooks(c)
  <2>1. con[c].at = "left" /\ Running(c) /\ UNCHANGED <<files, locked, catalog, res>> BY <1>6, Zenon DEF SettleLooks, Still, Running
  <2> USE <2>1
  <2>2. ASSUME ~load.overlap PROVE Site(c) /\ log[catalog] # NoRun /\ \A d \in Consolidations \ {c} : ~Running(d)
    BY <2>2, Sole, Zenon
  <2>3. CASE log[Journal] = NoRun
    <3>1. Moved(c, "lift") /\ Same(c) BY <1>6, <2>3, ReadMeans DEF SettleLooks, States, Ended
    <3>2. Quiet(c, "lift") BY <2>3, <3>1, Zenon DEF Quiet
    <3>3. ASSUME ~load.overlap PROVE Sited(c)
      BY <2>2, <2>3, <3>1, <3>3, Zenon DEF Sited, Moved, Same, Running, Fenced, files
    <3> QED BY <3>2, <3>3, QuietGood, Zenon DEF States
  <2>4. CASE log[Journal] # NoRun
    <3>1. Moved(c, "now") /\ Same(c) BY <1>6, <2>4, ReadMeans DEF SettleLooks, States, Ended
    <3>2. Quiet(c, "now") BY <2>4, <3>1, Zenon DEF Quiet
    <3>3. ASSUME ~load.overlap PROVE Sited(c)
      BY <2>2, <2>4, <3>1, <3>3, Zenon DEF Sited, Moved, Same, Running, Fenced, files
    <3> QED BY <3>2, <3>3, QuietGood, Zenon DEF States
  <2> QED BY <2>3, <2>4, Zenon
<1>7. CASE SettleLooksThere(c)
  <2>1. con[c].at = "now" /\ Running(c) /\ UNCHANGED <<files, locked, catalog, res>> BY <1>7, Zenon DEF SettleLooksThere, Still, Running
  <2>2. ASSUME ~load.overlap PROVE Site(c) /\ log[catalog] # NoRun /\ \A d \in Consolidations \ {c} : ~Running(d)
    BY <2>1, <2>2, Sole, Zenon
  <2>3. CASE TRUE
    <3>1. Moved(c, "leased") /\ Same(c) BY <1>7, <2>3, ReadMeans DEF SettleLooksThere, States, Ended
    <3>2. Quiet(c, "leased") BY <2>1, <2>3, <3>1, Zenon DEF Quiet
    <3>3. ASSUME ~load.overlap PROVE Sited(c)
      BY <2>1, <2>2, <2>3, <3>1, <3>3, Zenon DEF Sited, Moved, Same, Running, Fenced, files
    <3> QED BY <2>1, <3>2, <3>3, QuietGood, Zenon DEF States
  <2> QED BY <2>3, Zenon
<1>8. CASE SettleDecides(c)
  <2>1. con[c].at = "leased" /\ Running(c) /\ UNCHANGED <<files, locked, catalog, res>> BY <1>8, Zenon DEF SettleDecides, Still, Running
  <2> USE <2>1
  <2>2. ASSUME ~load.overlap PROVE Site(c) /\ log[catalog] # NoRun /\ \A d \in Consolidations \ {c} : ~Running(d)
    BY <2>2, Sole, Zenon
  <2>3. CASE Resumed(Journal) \/ con[c].there = NoRun \/ ~holdsSnapshot(con[c].left, con[c].there)
    <3>1. Moved(c, "undo") /\ Same(c) BY <1>8, <2>3, ForgetsMeans, Zenon DEF SettleDecides, States, Ended
    <3>2. Quiet(c, "undo") BY <2>3, <3>1, Zenon DEF Quiet
    <3>3. ASSUME ~load.overlap PROVE Sited(c)
      BY <2>2, <2>3, <3>1, <3>3, Zenon DEF Sited, Moved, Same, Running, Fenced, files
    <3> QED BY <3>2, <3>3, QuietGood, Zenon DEF States
  <2>4. CASE ~(Resumed(Journal) \/ con[c].there = NoRun \/ ~holdsSnapshot(con[c].left, con[c].there))
    <3>1. Moved(c, "lift") /\ Same(c) BY <1>8, <2>4, ForgetsMeans, Zenon DEF SettleDecides, States, Ended
    <3>2. Quiet(c, "lift") BY <2>4, <3>1, Zenon DEF Quiet
    <3>3. ASSUME ~load.overlap PROVE Sited(c)
      BY <2>2, <2>4, <3>1, <3>3, Zenon DEF Sited, Moved, Same, Running, Fenced, files
    <3> QED BY <3>2, <3>3, QuietGood, Zenon DEF States
  <2> QED BY <2>3, <2>4, Zenon
<1>9. CASE UndoReads(c)
  <2>1. con[c].at = "undo" /\ Running(c) /\ UNCHANGED <<files, locked, catalog, res>> BY <1>9, Zenon DEF UndoReads, Still, Running
  <2>2. ASSUME ~load.overlap PROVE Site(c) /\ log[catalog] # NoRun /\ \A d \in Consolidations \ {c} : ~Running(d)
    BY <2>1, <2>2, Sole, Zenon
  <2>3. CASE TRUE
    <3>1. Moved(c, "ahead") /\ Same(c) BY <1>9, <2>3, ReadMeans DEF UndoReads, States, Ended
    <3>2. Quiet(c, "ahead") BY <2>1, <2>3, <3>1, Zenon DEF Quiet
    <3>3. ASSUME ~load.overlap PROVE Sited(c)
      BY <2>1, <2>2, <2>3, <3>1, <3>3, Zenon DEF Sited, Moved, Same, Running, Fenced, files
    <3> QED BY <2>1, <3>2, <3>3, QuietGood, Zenon DEF States
  <2> QED BY <2>3, Zenon
<1>10. CASE UndoCompares(c)
  <2>1. con[c].at = "ahead" /\ Running(c) /\ UNCHANGED <<files, locked, catalog, res>> BY <1>10, Zenon DEF UndoCompares, Still, Running
  <2> USE <2>1
  <2>2. ASSUME ~load.overlap PROVE Site(c) /\ log[catalog] # NoRun /\ \A d \in Consolidations \ {c} : ~Running(d)
    BY <2>2, Sole, Zenon
  <2>3. CASE con[c].left # NoRun /\ log[Shard] # NoRun /\ Len(log[Shard]) > Len(con[c].left)
    BY <1>10, <2>2, <2>3, EndsGood, Zenon DEF UndoCompares
  <2>4. CASE ~(con[c].left # NoRun /\ log[Shard] # NoRun /\ Len(log[Shard]) > Len(con[c].left))
    <3>1. Moved(c, "undoFence") /\ Same(c) BY <1>10, <2>4, ForgetsMeans, Zenon DEF UndoCompares, States, Ended
    <3>2. Quiet(c, "undoFence") BY <2>4, <3>1, Zenon DEF Quiet
    <3>3. ASSUME ~load.overlap PROVE Sited(c)
      BY <2>2, <2>4, <3>1, <3>3, Zenon DEF Sited, Moved, Same, Running, Fenced, files
    <3> QED BY <3>2, <3>3, QuietGood, Zenon DEF States
  <2> QED BY <2>3, <2>4, Zenon
<1> QED BY <1>3, <1>4, <1>5, <1>6, <1>7, <1>8, <1>9, <1>10, Zenon

\* returnToSource moves the catalog; a shard cannot be opened.
LEMMA TurnSteps ==
  ASSUME Good, UNCHANGED load, NEW c \in Consolidations,
         BackMoves(c) \/ BackReturns(c) \/ Unavailable(c)
  PROVE  Good'
<1> USE DEF Site, Phased, Pointed, Held, Own, Covered, Settling, Straying, Moving, Backing, Bringing, Returning
<1>1. Typed /\ Good BY Zenon DEF Good, Invariant
<1> USE <1>1
<1>2. con[c] \in Exec /\ catalog \in Files /\ Journal \in Files /\ Shard \in Files /\ Journal # Shard
  BY Zenon DEF Typed, Files, Journal, Shard
<1> USE <1>2
<1>3. CASE BackMoves(c)
  <2>1. con[c].at = "back" /\ Running(c) /\ UNCHANGED <<files, locked, res>> BY <1>3, Zenon DEF BackMoves, Still, Running
  <2>2. ASSUME ~load.overlap PROVE Site(c) /\ log[catalog] # NoRun /\ \A d \in Consolidations \ {c} : ~Running(d)
    BY <2>1, <2>2, Sole, Zenon
  <2>3. catalog' = IF catalog = Shard THEN Journal ELSE catalog BY <1>3, Zenon DEF BackMoves, moveRun
  <2>4. catalog' \in Files BY <2>3
  <2>5. CASE TRUE
    <3>1. Moved(c, "backLocks") /\ Same(c) BY <1>3, <2>5, GoMeans, Zenon DEF BackMoves, States, Ended
    <3>2. Quiet(c, "backLocks") BY <2>1, <2>5, <3>1, <2>3, <2>4, Zenon DEF Quiet
    <3>3. ASSUME ~load.overlap PROVE Sited(c)
      BY <2>1, <2>2, <2>5, <3>1, <3>3, <2>3, <2>4, Zenon DEF Sited, Moved, Same, Running, Fenced, files
    <3> QED BY <2>1, <3>2, <3>3, QuietGood, Zenon DEF States
  <2> QED BY <2>5, Zenon
<1>4. CASE BackReturns(c)
  <2>1. con[c].at = "forth" /\ Running(c) /\ UNCHANGED <<files, locked, res>> BY <1>4, Zenon DEF BackReturns, Still, Running
  <2>2. ASSUME ~load.overlap PROVE Site(c) /\ log[catalog] # NoRun /\ \A d \in Consolidations \ {c} : ~Running(d)
    BY <2>1, <2>2, Sole, Zenon
  <2>3. catalog' = IF catalog = Journal THEN Shard ELSE catalog BY <1>4, Zenon DEF BackReturns, moveRun
  <2>4. catalog' \in Files BY <2>3
  <2>5. ASSUME ~load.overlap PROVE log[catalog'] # NoRun /\ catalog' # Journal BY <2>1, <2>2, <2>3, <2>5, Zenon
  <2> QED BY <1>4, <2>1, <2>4, <2>5, EndsGood, Zenon DEF BackReturns
<1>5. CASE Unavailable(c)
  <2>1. con[c].at \in {"finish", "stray", "copy"} /\ Running(c) /\ UNCHANGED <<files, locked, catalog, res>> BY <1>5, Zenon DEF Unavailable, Still, Running
  <2> USE <2>1
  <2>2. ASSUME ~load.overlap PROVE Site(c) /\ log[catalog] # NoRun /\ \A d \in Consolidations \ {c} : ~Running(d)
    BY <2>2, Sole, Zenon
  <2>3. CASE con[c].at = "copy"
    <3>1. Moved(c, "unfence") /\ Same(c) BY <1>5, <2>3, ForgetsMeans, Zenon DEF Unavailable, States, Ended
    <3>2. Quiet(c, "unfence") BY <2>3, <3>1, Zenon DEF Quiet
    <3>3. ASSUME ~load.overlap PROVE Sited(c)
      BY <2>2, <2>3, <3>1, <3>3, Zenon DEF Sited, Moved, Same, Running, Fenced, files
    <3> QED BY <3>2, <3>3, QuietGood, Zenon DEF States
  <2>4. CASE con[c].at # "copy"
    <3>1. Ends(c) BY <1>5, <2>4, Zenon DEF Unavailable
    <3>2. ASSUME ~load.overlap PROVE con[c].phase = "return" /\ catalog' = Journal => lease[Shard].holder # c
      BY <2>2, <2>4, <3>2, Zenon
    <3> QED BY <2>2, <3>1, <3>2, EndsGood, Zenon
  <2> QED BY <2>3, <2>4, Zenon
<1> QED BY <1>3, <1>4, <1>5, Zenon

-----------------------------------------------------------------------------
(* Steps inside the transactions that span several awaits *)

\* A step inside a transaction, or one that opens or closes it, keeps the
\* invariant when the locks are in order after it.
LEMMA LockGood ==
  ASSUME Good, UNCHANGED load, NEW c \in Consolidations, NEW at \in States \ {"copy", "held", "recopy", "reheld"}, Moved(c, at),
         UNCHANGED <<files, res>>, catalog' \in Files, locked' \in [Files -> Consolidations \cup {Nobody}], Locks',
         at \in {"backKept", "backDrops"} => ~Resumed(Shard),
         ~load.overlap => Sited(c)
  PROVE  Good'
<1>1. Typed /\ Typed' BY Zenon DEF Good, Invariant, Typed, Moved, files
<1>2. Rows' BY Zenon DEF Good, Invariant, Rows, files
<1>3. Snapshots' BY Zenon DEF Good, Invariant, Snapshots, Moved
<1>4. Dropping' BY Zenon DEF Good, Invariant, Dropping, Moved, Resumed, files
<1>5. ASSUME ~load.overlap PROVE Alone' BY <1>1, <1>5, QuietAlone, Zenon DEF Good, AloneInv, Sited
<1> QED BY <1>1, <1>2, <1>3, <1>4, <1>5, Zenon DEF Good, Invariant, AloneInv

\* The file each of the two transactions locks.
Within(f) == IF f = Journal THEN Bringing ELSE Returning

\* Locks are in order when c takes the free lock, stays inside, or releases it.
LEMMA LocksKept ==
  ASSUME Typed, Locks, NEW c \in Consolidations, NEW at \in States, Moved(c, at), NEW f \in Files,
         \/ Unlocked(f) /\ con[c].at \notin Bringing \cup Returning /\ at \in Within(f) /\ locked' = [locked EXCEPT ![f] = c]
         \/ con[c].at \in Within(f) /\ at \in Within(f) /\ locked' = locked
         \/ con[c].at \in Within(f) /\ at \notin Bringing \cup Returning /\ locked' = [locked EXCEPT ![f] = Nobody]
  PROVE  locked' \in [Files -> Consolidations \cup {Nobody}] /\ Locks'
<1>1. locked' \in [Files -> Consolidations \cup {Nobody}] BY Zenon DEF Typed
<1>2. Files = {Journal, Shard} /\ Journal # Shard /\ Nobody \notin Consolidations
  BY ConsolidationAssumption, Zenon DEF Files, Journal, Shard
<1>3. con'[c].at = at /\ \A d \in Consolidations \ {c} : con'[d] = con[d] BY Zenon DEF Moved
<1>4. Bringing \cap Returning = {} BY Zenon DEF Bringing, Returning
<1>5. locked \in [Files -> Consolidations \cup {Nobody}] BY Zenon DEF Typed
<1>6. CASE f = Journal
  <2>1. Within(f) = Bringing /\ locked'[Shard] = locked[Shard] BY <1>2, <1>5, <1>6, Zenon DEF Within
  <2> SUFFICES ASSUME NEW d \in Consolidations
               PROVE  (locked'[Journal] = d <=> con'[d].at \in Bringing) /\ (locked'[Shard] = d <=> con'[d].at \in Returning)
    BY <1>1, Zenon DEF Locks
  <2>2. locked[Journal] = d <=> con[d].at \in Bringing BY Zenon DEF Locks
  <2>3. locked[Journal] = c <=> con[c].at \in Bringing BY Zenon DEF Locks
  <2>4. locked[Shard] = d <=> con[d].at \in Returning BY Zenon DEF Locks
  <2>5. locked'[Journal] = d <=> con'[d].at \in Bringing BY <1>2, <1>3, <1>4, <1>5, <1>6, <2>1, <2>2, <2>3, Zenon DEF Unlocked
  <2>6. locked'[Shard] = d <=> con'[d].at \in Returning BY <1>3, <1>4, <2>1, <2>4, Zenon
  <2> QED BY <2>5, <2>6, Zenon
<1>7. CASE f = Shard
  <2>1. Within(f) = Returning /\ locked'[Journal] = locked[Journal] BY <1>2, <1>5, <1>7, Zenon DEF Within
  <2> SUFFICES ASSUME NEW d \in Consolidations
               PROVE  (locked'[Shard] = d <=> con'[d].at \in Returning) /\ (locked'[Journal] = d <=> con'[d].at \in Bringing)
    BY <1>1, Zenon DEF Locks
  <2>2. locked[Shard] = d <=> con[d].at \in Returning BY Zenon DEF Locks
  <2>3. locked[Shard] = c <=> con[c].at \in Returning BY Zenon DEF Locks
  <2>4. locked[Journal] = d <=> con[d].at \in Bringing BY Zenon DEF Locks
  <2>5. locked'[Shard] = d <=> con'[d].at \in Returning BY <1>2, <1>3, <1>4, <1>5, <1>7, <2>1, <2>2, <2>3, Zenon DEF Unlocked
  <2>6. locked'[Journal] = d <=> con'[d].at \in Bringing BY <1>3, <1>4, <2>1, <2>4, Zenon
  <2> QED BY <2>5, <2>6, Zenon
<1> QED BY <1>1, <1>2, <1>6, <1>7, Zenon

\* Closing a transaction and going on keeps the invariant.
LEMMA UnlockEnds ==
  ASSUME Good, UNCHANGED load, NEW c \in Consolidations, NEW f \in Files, con[c].at \in Within(f), Running(c),
         Ends(c), locked' = [locked EXCEPT ![f] = Nobody], UNCHANGED <<files, res>>, catalog' \in Files,
         ~load.overlap => log[catalog'] # NoRun /\ (con[c].phase = "return" /\ catalog' = Journal => lease[Shard].holder # c)
  PROVE  Good'
<1>1. Typed /\ Locks /\ Journal # Shard BY Zenon DEF Good, Invariant, Journal, Shard
<1>2. ASSUME ~load.overlap PROVE Sited(c)
  <2>1. (\A d \in Consolidations \ {c} : ~Running(d)) /\ Site(c) BY <1>2, Sole, Zenon
  <2>2. con[c].phase = "finish" => lease[Shard].holder # c BY <2>1, Zenon DEF Site, Own
  <2> QED BY <1>1, <1>2, <2>1, <2>2, EndsSite, Zenon DEF Site, Sited, files
<1>3. ASSUME NEW at \in {"return", "move", "over"}, Moved(c, at) PROVE Good'
  <2>1. at \in States \ {"copy", "held", "recopy", "reheld"} /\ at \notin Bringing \cup Returning /\ at \notin {"backKept", "backDrops"}
    BY Zenon DEF States, Bringing, Returning
  <2>2. locked' \in [Files -> Consolidations \cup {Nobody}] /\ Locks' BY <1>1, <1>3, <2>1, LocksKept, Zenon
  <2> QED BY <1>2, <1>3, <2>1, <2>2, LockGood, Zenon
<1> QED BY <1>1, <1>3, EndsMeans, Zenon

\* The transactions of bring and returnToSource, up to the deletion.
LEMMA LockSteps ==
  ASSUME Good, UNCHANGED load, NEW c \in Consolidations,
         BringLocks(c) \/ BringLooks(c) \/ BringMoves(c) \/ BackLocks(c) \/ BackReads(c) \/ BackLooks(c)
  PROVE  Good'
<1> USE DEF Site, Phased, Pointed, Held, Own, Covered, Settling, Straying, Moving, Backing, Bringing, Returning
<1>1. Typed /\ Locks /\ Good BY Zenon DEF Good, Invariant
<1> USE <1>1
<1>2. con[c] \in Exec /\ catalog \in Files /\ Journal \in Files /\ Shard \in Files /\ Journal # Shard
  BY Zenon DEF Typed, Files, Journal, Shard
<1> USE <1>2
<1>3. CASE BringLocks(c)
  <2>1. con[c].at = "bring" /\ Running(c) /\ UNCHANGED <<files, catalog, res>> BY <1>3, Zenon DEF BringLocks, Running
  <2> USE <2>1
  <2>2. ASSUME ~load.overlap PROVE Site(c) /\ log[catalog] # NoRun /\ \A d \in Consolidations \ {c} : ~Running(d)
    BY <2>2, Sole, Zenon
  <2>3. CASE Fenced(Journal) \/ log[Journal] = NoRun
    BY <1>3, <2>2, <2>3, EndsGood, Zenon DEF BringLocks
  <2>4. CASE ~(Fenced(Journal) \/ log[Journal] = NoRun)
    <3>1. Moved(c, "bringLooks") /\ Same(c) BY <1>3, <2>4, GoMeans, Zenon DEF BringLocks, Unlocks, States, Ended
    <3>2. locked' \in [Files -> Consolidations \cup {Nobody}] /\ Locks'
      BY <1>3, <2>4, <3>1, LocksKept, Zenon DEF BringLocks, Unlocks, Within, States
    <3>3. ASSUME ~load.overlap PROVE Sited(c)
      BY <2>2, <2>4, <3>1, <3>3, Zenon DEF Sited, Moved, Same, Running, Fenced, files
    <3> QED BY <2>4, <3>1, <3>2, <3>3, LockGood, Zenon DEF States
  <2> QED BY <2>3, <2>4, Zenon
<1>4. CASE BringLooks(c)
  <2>1. con[c].at = "bringLooks" /\ Running(c) /\ UNCHANGED <<files, catalog, res>> BY <1>4, Zenon DEF BringLooks, Running
  <2> USE <2>1
  <2>2. ASSUME ~load.overlap PROVE Site(c) /\ log[catalog] # NoRun /\ \A d \in Consolidations \ {c} : ~Running(d)
    BY <2>2, Sole, Zenon
  <2>3. CASE log[Shard] = NoRun
    <3>1. Moved(c, "bringMoves") /\ Same(c) BY <1>4, <2>3, GoMeans, Zenon DEF BringLooks, Unlocks, States, Ended
    <3>2. locked' \in [Files -> Consolidations \cup {Nobody}] /\ Locks'
      BY <1>4, <2>3, <3>1, LocksKept, Zenon DEF BringLooks, Unlocks, Within, States
    <3>3. ASSUME ~load.overlap PROVE Sited(c)
      BY <2>2, <2>3, <3>1, <3>3, Zenon DEF Sited, Moved, Same, Running, Fenced, files
    <3> QED BY <2>3, <3>1, <3>2, <3>3, LockGood, Zenon DEF States
  <2>4. CASE log[Shard] # NoRun
    <3>1. Ends(c) /\ locked' = [locked EXCEPT ![Journal] = Nobody] BY <1>4, <2>4, Zenon DEF BringLooks, Unlocks
    <3>2. ASSUME ~load.overlap PROVE log[catalog'] # NoRun /\ (con[c].phase = "return" /\ catalog' = Journal => lease[Shard].holder # c)
      BY <2>2, <2>4, <3>2, Zenon DEF Fenced
    <3> QED BY <3>1, <3>2, UnlockEnds, Zenon DEF Within
  <2> QED BY <2>3, <2>4, Zenon
<1>5. CASE BringMoves(c)
  <2>1. con[c].at = "bringMoves" /\ Running(c) /\ UNCHANGED <<files, res>> BY <1>5, Zenon DEF BringMoves, Running
  <2>2. ASSUME ~load.overlap PROVE Site(c) /\ log[catalog] # NoRun /\ \A d \in Consolidations \ {c} : ~Running(d)
    BY <2>1, <2>2, Sole, Zenon
  <2>3. catalog' = IF catalog = Shard THEN Journal ELSE catalog BY <1>5, Zenon DEF BringMoves, moveRun
  <2>4. catalog' \in Files BY <2>3
  <2>5. CASE TRUE
    <3>1. Ends(c) /\ locked' = [locked EXCEPT ![Journal] = Nobody] BY <1>5, <2>5, Zenon DEF BringMoves, Unlocks
    <3>2. ASSUME ~load.overlap PROVE log[catalog'] # NoRun /\ (con[c].phase = "return" /\ catalog' = Journal => lease[Shard].holder # c)
      BY <2>1, <2>2, <2>5, <3>2, <2>3, Zenon DEF Fenced
    <3> QED BY <2>1, <2>4, <3>1, <3>2, UnlockEnds, Zenon DEF Within
  <2> QED BY <2>5, Zenon
<1>6. CASE BackLocks(c)
  <2>1. con[c].at = "backLocks" /\ Running(c) /\ UNCHANGED <<files, catalog, res>> BY <1>6, Zenon DEF BackLocks, Running
  <2> USE <2>1
  <2>2. ASSUME ~load.overlap PROVE Site(c) /\ log[catalog] # NoRun /\ \A d \in Consolidations \ {c} : ~Running(d)
    BY <2>2, Sole, Zenon
  <2>3. CASE log[Shard] = NoRun
    <3>1. Ends(c) /\ UNCHANGED locked BY <1>6, <2>3, Zenon DEF BackLocks
    <3>2. lease[Shard].holder = Nobody /\ c # Nobody BY <2>3, ConsolidationAssumption, Zenon DEF Good, Invariant, Rows
    <3> QED BY <2>2, <3>1, <3>2, EndsGood, Zenon
  <2>4. CASE log[Shard] # NoRun
    <3>1. Moved(c, "backReads") /\ Same(c) BY <1>6, <2>4, GoMeans, Zenon DEF BackLocks, Unlocks, States, Ended
    <3>2. locked' \in [Files -> Consolidations \cup {Nobody}] /\ Locks'
      BY <1>6, <2>4, <3>1, LocksKept, Zenon DEF BackLocks, Unlocks, Within, States
    <3>3. ASSUME ~load.overlap PROVE Sited(c)
      BY <2>2, <2>4, <3>1, <3>3, Zenon DEF Sited, Moved, Same, Running, Fenced, files
    <3> QED BY <2>4, <3>1, <3>2, <3>3, LockGood, Zenon DEF States
  <2> QED BY <2>3, <2>4, Zenon
<1>7. CASE BackReads(c)
  <2>1. con[c].at = "backReads" /\ Running(c) /\ UNCHANGED <<files, catalog, res>> BY <1>7, Zenon DEF BackReads, Running
  <2> USE <2>1
  <2>2. ASSUME ~load.overlap PROVE Site(c) /\ log[catalog] # NoRun /\ \A d \in Consolidations \ {c} : ~Running(d)
    BY <2>2, Sole, Zenon
  <2>3. CASE (log[Journal] = NoRun \/ ~holdsSnapshot(log[Shard], log[Journal]) \/ Resumed(Shard))
    <3>1. Moved(c, "forth") /\ Same(c) BY <1>7, <2>3, GoMeans, Zenon DEF BackReads, Unlocks, States, Ended
    <3>2. locked' \in [Files -> Consolidations \cup {Nobody}] /\ Locks'
      BY <1>7, <2>3, <3>1, LocksKept, Zenon DEF BackReads, Unlocks, Within, States
    <3>3. ASSUME ~load.overlap PROVE Sited(c)
      BY <2>2, <2>3, <3>1, <3>3, Zenon DEF Sited, Moved, Same, Running, Fenced, files
    <3> QED BY <2>3, <3>1, <3>2, <3>3, LockGood, Zenon DEF States
  <2>4. CASE ~(log[Journal] = NoRun \/ ~holdsSnapshot(log[Shard], log[Journal]) \/ Resumed(Shard)) /\ lease[Shard].holder \in Consolidations \ {con[c].as}
    <3>1. Ends(c) /\ locked' = [locked EXCEPT ![Shard] = Nobody] BY <1>7, <2>4, Zenon DEF BackReads, Unlocks
    <3>2. ASSUME ~load.overlap PROVE log[catalog'] # NoRun /\ (con[c].phase = "return" /\ catalog' = Journal => lease[Shard].holder # c)
      BY <2>2, <2>4, <3>2, Zenon DEF Fenced
    <3> QED BY <3>1, <3>2, UnlockEnds, Zenon DEF Within
  <2>5. CASE ~(log[Journal] = NoRun \/ ~holdsSnapshot(log[Shard], log[Journal]) \/ Resumed(Shard)) /\ ~(lease[Shard].holder \in Consolidations \ {con[c].as})
    <3>1. Moved(c, "backKept") /\ Same(c) BY <1>7, <2>5, GoMeans, Zenon DEF BackReads, Unlocks, States, Ended
    <3>2. locked' \in [Files -> Consolidations \cup {Nobody}] /\ Locks'
      <4>1. locked' = locked BY <1>7, <2>5, Zenon DEF BackReads
      <4>2. con[c].at \in Within(Shard) /\ "backKept" \in Within(Shard) /\ "backKept" \in States BY Zenon DEF Within, States
      <4> QED BY <3>1, <4>1, <4>2, LocksKept, Zenon
    <3>3. ASSUME ~load.overlap PROVE Sited(c)
      BY <2>2, <2>5, <3>1, <3>3, Zenon DEF Sited, Moved, Same, Running, Fenced, files
    <3> QED BY <2>5, <3>1, <3>2, <3>3, LockGood, Zenon DEF States
  <2> QED BY <2>3, <2>4, <2>5, Zenon
<1>8. CASE BackLooks(c)
  <2>1. con[c].at = "backKept" /\ Running(c) /\ UNCHANGED <<files, catalog, res>> BY <1>8, Zenon DEF BackLooks, Running
  <2> USE <2>1
  <2>2. ASSUME ~load.overlap PROVE Site(c) /\ log[catalog] # NoRun /\ \A d \in Consolidations \ {c} : ~Running(d)
    BY <2>2, Sole, Zenon
  <2>3. CASE log[Journal] = NoRun
    <3>1. Moved(c, "forth") /\ Same(c) BY <1>8, <2>3, GoMeans, Zenon DEF BackLooks, Unlocks, States, Ended
    <3>2. locked' \in [Files -> Consolidations \cup {Nobody}] /\ Locks'
      BY <1>8, <2>3, <3>1, LocksKept, Zenon DEF BackLooks, Unlocks, Within, States
    <3>3. ASSUME ~load.overlap PROVE Sited(c)
      BY <2>2, <2>3, <3>1, <3>3, Zenon DEF Sited, Moved, Same, Running, Fenced, files
    <3> QED BY <2>3, <3>1, <3>2, <3>3, LockGood, Zenon DEF States
  <2>4. CASE log[Journal] # NoRun /\ lease[Journal].holder \in Consolidations \ {con[c].as}
    <3>1. Ends(c) /\ locked' = [locked EXCEPT ![Shard] = Nobody] BY <1>8, <2>4, Zenon DEF BackLooks, Unlocks
    <3>2. ASSUME ~load.overlap PROVE log[catalog'] # NoRun /\ (con[c].phase = "return" /\ catalog' = Journal => lease[Shard].holder # c)
      BY <2>2, <2>4, <3>2, Zenon DEF Fenced
    <3> QED BY <3>1, <3>2, UnlockEnds, Zenon DEF Within
  <2>6. ~Resumed(Shard) BY Zenon DEF Good, Invariant, Dropping
  <2>5. CASE log[Journal] # NoRun /\ ~(lease[Journal].holder \in Consolidations \ {con[c].as})
    <3>1. Moved(c, "backDrops") /\ Same(c) BY <1>8, <2>5, GoMeans, Zenon DEF BackLooks, Unlocks, States, Ended
    <3>2. locked' \in [Files -> Consolidations \cup {Nobody}] /\ Locks'
      <4>1. locked' = locked BY <1>8, <2>5, Zenon DEF BackLooks
      <4>2. con[c].at \in Within(Shard) /\ "backDrops" \in Within(Shard) /\ "backDrops" \in States BY Zenon DEF Within, States
      <4> QED BY <3>1, <4>1, <4>2, LocksKept, Zenon
    <3>3. ASSUME ~load.overlap PROVE Sited(c)
      BY <2>2, <2>5, <3>1, <3>3, Zenon DEF Sited, Moved, Same, Running, Fenced, files
    <3> QED BY <2>5, <3>1, <3>2, <3>3, <2>6, LockGood, Zenon DEF States
  <2> QED BY <2>3, <2>4, <2>5, Zenon
<1> QED BY <1>3, <1>4, <1>5, <1>6, <1>7, <1>8, Zenon

\* A consolidation that stops releases its locks.
LEMMA StopStep ==
  ASSUME Good, UNCHANGED load, NEW c \in Consolidations, Stop(c)
  PROVE  Good'
<1>1. Typed /\ Locks /\ Good /\ catalog \in Files BY Zenon DEF Good, Invariant, Typed
<1>2. Running(c) /\ UNCHANGED <<files, catalog, res>> /\ Forgets(c, "stopped")
      /\ locked' = [f \in Files |-> IF locked[f] = c THEN Nobody ELSE locked[f]]
  BY Zenon DEF Stop
<1>3. Moved(c, "stopped") /\ con'[c].phase = "finish" /\ con'[c].as = c BY <1>1, <1>2, ForgetsMeans, Zenon DEF States, Ended
<1>4. locked' \in [Files -> Consolidations \cup {Nobody}] BY <1>1, <1>2, Zenon DEF Typed
<1>5. Locks'
  <2> SUFFICES ASSUME NEW d \in Consolidations
               PROVE  (locked'[Journal] = d <=> con'[d].at \in Bringing) /\ (locked'[Shard] = d <=> con'[d].at \in Returning)
    BY Zenon DEF Locks
  <2>1. d # Nobody /\ Journal \in Files /\ Shard \in Files BY ConsolidationAssumption, Zenon DEF Files
  <2>2. CASE d = c BY <1>2, <1>3, <2>1, <2>2, Zenon DEF Moved, Bringing, Returning
  <2>3. CASE d # c BY <1>1, <1>2, <1>3, <2>1, <2>3, Zenon DEF Moved, Locks
  <2> QED BY <2>2, <2>3, Zenon
<1>6. ASSUME ~load.overlap PROVE Sited(c) BY <1>1, <1>2, <1>3, <1>6, Sole, OverSite, Zenon DEF Sited, Moved, Ended
<1> QED BY <1>1, <1>2, <1>3, <1>4, <1>5, <1>6, LockGood, Zenon DEF States

-----------------------------------------------------------------------------
(* Steps of a consolidation that change a file *)

\* What a file held, a file still holds.
Survive == \A f \in Files : \E g \in Files : holdsSnapshot(log[f], log'[g])

\* An event is kept when what its file held, a file still holds.
LEMMA KeptSurvives ==
  ASSUME Typed, log' \in [Files -> Seq(Event)], Survive, NEW by, NEW body, Kept(by, body)
  PROVE  Kept(by, body)'
<1>1. PICK f \in Files : \E k \in DOMAIN log[f] : log[f][k].by = by /\ log[f][k].body = body BY Zenon DEF Kept
<1>2. PICK k \in DOMAIN log[f] : log[f][k].by = by /\ log[f][k].body = body BY <1>1, Zenon
<1>3. PICK g \in Files : holdsSnapshot(log[f], log'[g]) BY Zenon DEF Survive
<1>4. log[f] \in Seq(Event) /\ log'[g] \in Seq(Event) BY Zenon DEF Typed
<1>5. k \in DOMAIN log'[g] /\ log[f][k] = log'[g][k] BY <1>3, <1>4, SnapshotFacts, Zenon
<1> QED BY <1>2, <1>5, Zenon DEF Kept

\* So a consolidation that keeps what every file held loses nothing.
LEMMA SurvivorsKept ==
  ASSUME Typed, log' \in [Files -> Seq(Event)], Survive, UNCHANGED res, LosesNothing
  PROVE  LosesNothing'
BY KeptSurvives, Zenon DEF LosesNothing

Ranks(f) == Ranked(f)' /\ Ordered(log[f])'

\* What a transaction of c on f has to establish where c runs alone.
FileSited(c, f) ==
  /\ \A d \in Consolidations \ {c} : ~Running(d)
  /\ log'[catalog] # NoRun
  /\ con'[c].as \in {c, con[c].as}
  /\ lease'[f].holder \in {lease[f].holder, Nobody, c, con[c].as}
  /\ Survive /\ Ranks(f)
  /\ Site(c)'
  /\ con'[c].at = "copy" => Ordered(con'[c].left) /\ \A i \in DOMAIN con'[c].left : con'[c].left[i].epoch < con'[c].epoch

\* A step of c that changes file f keeps Alone.
LEMMA FileAlone ==
  ASSUME Typed, Alone, NEW c \in Consolidations, NEW at \in States, Moved(c, at), NEW f \in Files, Changes(f),
         UNCHANGED <<catalog, res>>, FileSited(c, f)
  PROVE  Alone'
<1>1. \A d \in Consolidations \ {c} : con'[d] = con[d] /\ ~Running(d) /\ ~Running(d)' BY Zenon DEF Moved, Running, FileSited
<1>2. \A d \in Consolidations : Site(d)'
  <2>1. \A g \in Files : lease'[g].holder \in {lease[g].holder, Nobody, c, con[c].as} \cup Resumes BY Zenon DEF FileSited, Changes
  <2>2. \A d \in Consolidations \ {c} : Site(d)' BY <1>1, <2>1, OthersStay, Zenon DEF FileSited
  <2> QED BY <2>2, Zenon DEF FileSited
<1>3. One' BY <1>1, Zenon DEF One
<1>4. LosesNothing' BY SurvivorsKept, Zenon DEF Alone, Changes, FileSited
<1>5. Epochs'
  <2>1. ASSUME NEW g \in Files, g # f PROVE Ranked(g)' /\ Ordered(log[g])'
    <3>1. log'[g] = log[g] /\ lease'[g] = lease[g] BY <2>1, Zenon DEF Changes
    <3>2. Ranked(g) /\ Ordered(log[g]) BY Zenon DEF Alone, Epochs
    <3>3. Ranked(g)' BY <3>1, <3>2, Zenon DEF Ranked, Resumed
    <3> QED BY <3>1, <3>2, <3>3, Zenon
  <2>2. \A g \in Files : Ranked(g)' /\ Ordered(log[g])' BY <2>1, Zenon DEF FileSited, Ranks
  <2>3. \A d \in Consolidations \ {c} : con'[d].at # "copy" BY <1>1, Zenon DEF Running
  <2>4. con'[c].at = "copy" => Ordered(con'[c].left) /\ \A i \in DOMAIN con'[c].left : con'[c].left[i].epoch < con'[c].epoch
    BY Zenon DEF FileSited
  <2> QED BY <2>2, <2>3, <2>4, Zenon DEF Epochs
<1> QED BY <1>2, <1>3, <1>4, <1>5, Zenon DEF Alone, FileSited

\* A transaction of c on file f keeps the invariant.
LEMMA FileGood ==
  ASSUME Good, UNCHANGED load, NEW c \in Consolidations, NEW at \in States \ (Bringing \cup Returning),
         con[c].at \notin Bringing \cup Returning, Moved(c, at), NEW f \in Files, Touches(f),
         UNCHANGED <<locked, catalog, res>>,
         log'[f] = NoRun => lease'[f].holder = Nobody,
         at \in {"copy", "held", "recopy", "reheld"} => con'[c].left # NoRun,
         ~load.overlap => FileSited(c, f)
  PROVE  Good'
<1>1. Invariant' BY FileInvariant, Zenon DEF Good
<1>2. ASSUME ~load.overlap PROVE Alone' BY <1>2, FileAlone, Zenon DEF Good, AloneInv, Invariant, Touches
<1> QED BY <1>1, <1>2, Zenon DEF Good, AloneInv

\* The epoch of an event is a number.
LEMMA EventEpoch ==
  ASSUME NEW s \in Seq(Event), NEW i \in DOMAIN s
  PROVE  s[i].epoch \in Nat
<1>1. s[i] \in Event OBVIOUS
<1> QED BY <1>1 DEF Event

\* Epochs after each transaction.
LEMMA TookRanks ==
  ASSUME Typed, Alone, NEW f \in Files, NEW holder \in Consolidations, Took(f, holder)
  PROVE  Ranks(f) /\ Survive
<1>1. log[f] \in Seq(Event) /\ lease[f].epoch \in Nat /\ lease'[f] \in Lease BY LeaseTyped, Zenon DEF Took, Touches, Changes
<1>2. log'[f] = log[f] /\ lease'[f].holder = holder /\ lease'[f].epoch >= lease[f].epoch BY Zenon DEF Took
<1>3. ~Resumed(f)' BY <1>2, ConsolidationAssumption, Zenon DEF Resumed
<1>4. lease'[f].epoch \in Nat BY <1>1 DEF Lease
<1>5. Ranked(f) /\ Ordered(log[f]) BY Zenon DEF Alone, Epochs
<1>6. Ranked(f)'
  <2> SUFFICES ASSUME NEW i \in DOMAIN log[f] PROVE log[f][i].epoch <= lease'[f].epoch BY <1>2, <1>3, Zenon DEF Ranked
  <2>1. log[f][i].epoch \in Nat BY <1>1, EventEpoch, Zenon
  <2>2. log[f][i].epoch <= lease[f].epoch BY <1>5, Zenon DEF Ranked
  <2> QED BY <1>1, <1>2, <1>4, <2>1, <2>2
<1>7. \A g \in Files : log'[g] = log[g] /\ log[g] \in Seq(Event) BY <1>2, Zenon DEF Took, Touches, Changes, Typed
<1>8. Survive BY <1>7, SnapshotFacts, Zenon DEF Survive
<1>9. Ordered(log[f])' BY <1>2, <1>5, Zenon
<1> QED BY <1>6, <1>8, <1>9, Zenon DEF Ranks

\* Files left alone.
LEMMA SameRanks ==
  ASSUME Typed, Alone, NEW f \in Files, UNCHANGED files
  PROVE  Ranks(f) /\ Survive
<1>1. \A g \in Files : log'[g] = log[g] /\ lease'[g] = lease[g] /\ log[g] \in Seq(Event) BY Zenon DEF files, Typed
<1>2. Ranked(f) /\ Ordered(log[f]) BY Zenon DEF Alone, Epochs
<1>3. Ranked(f)' BY <1>1, <1>2, Zenon DEF Ranked, Resumed
<1>4. Ordered(log[f])' BY <1>1, <1>2, Zenon
<1>5. Survive BY <1>1, SnapshotFacts, Zenon DEF Survive
<1> QED BY <1>3, <1>4, <1>5, Zenon DEF Ranks

\* A fence lifted: the epoch stays.
LEMMA LiftedRanks ==
  ASSUME Typed, Alone, NEW f \in Files, Lifted(f)
  PROVE  Ranks(f) /\ Survive
<1>1. \A g \in Files : log'[g] = log[g] /\ log[g] \in Seq(Event) BY Zenon DEF Lifted, Touches, Changes, Typed
<1>2. Ranked(f) /\ Ordered(log[f]) BY Zenon DEF Alone, Epochs
<1>3. ASSUME lease'[f] = lease[f] PROVE Ranked(f)' BY <1>1, <1>2, <1>3, Zenon DEF Ranked, Resumed
<1>4. ASSUME lease'[f].holder = Nobody, lease'[f].epoch = lease[f].epoch PROVE Ranked(f)'
  <2>1. ~Resumed(f)' BY <1>4, ConsolidationAssumption, Zenon DEF Resumed
  <2> QED BY <1>1, <1>2, <1>4, <2>1, Zenon DEF Ranked
<1>5. Ranked(f)' BY <1>1, <1>2, <1>3, <1>4, Zenon DEF Lifted
<1>6. Ordered(log[f])' BY <1>1, <1>2, Zenon
<1>7. Survive BY <1>1, SnapshotFacts, Zenon DEF Survive
<1> QED BY <1>5, <1>6, <1>7, Zenon DEF Ranks

\* A copy deleted that another file holds all of.
LEMMA RemovedRanks ==
  ASSUME Typed, Alone, NEW f \in Files, NEW holder, Removed(f, holder),
         lease[f].holder = holder => \E g \in Files \ {f} : holdsSnapshot(log[f], log[g])
  PROVE  Ranks(f) /\ Survive
<1>1. CASE UNCHANGED files BY <1>1, SameRanks, Zenon
<1>2. CASE lease[f].holder = holder /\ log'[f] = NoRun
  <2>1. \A g \in Files \ {f} : log'[g] = log[g] BY Zenon DEF Removed, Touches, Changes
  <2>2. \A g \in Files : log[g] \in Seq(Event) BY Zenon DEF Typed
  <2>3. DOMAIN log'[f] = {} BY <1>2 DEF NoRun
  <2>4. Ranked(f)' BY <2>3, Zenon DEF Ranked
  <2>5. Ordered(log[f])' BY <2>3, Zenon DEF Ordered
  <2>6. Survive BY <1>2, <2>1, <2>2, SnapshotFacts, Zenon DEF Survive
  <2> QED BY <2>4, <2>5, <2>6, Zenon DEF Ranks
<1> QED BY <1>1, <1>2, Zenon DEF Removed

\* A snapshot copied under an epoch above all of its events.
LEMMA CopiedRanks ==
  ASSUME Typed, Alone, NEW snapshot \in Seq(Event), NEW holder \in Consolidations, NEW epoch \in Nat,
         Copied(snapshot, holder, epoch), Ordered(snapshot), \A i \in DOMAIN snapshot : snapshot[i].epoch < epoch
  PROVE  Ranks(Shard) /\ Survive
<1>1. Shard \in Files BY Zenon DEF Files
<1>2. CASE UNCHANGED files BY <1>1, <1>2, SameRanks, Zenon
<1>3. CASE /\ log[Shard] = NoRun \/ holdsSnapshot(log[Shard], snapshot)
           /\ log'[Shard] = snapshot /\ lease'[Shard].holder = holder /\ lease'[Shard].epoch >= epoch
  <2>1. \A g \in Files \ {Shard} : log'[g] = log[g] BY Zenon DEF Copied, Touches, Changes
  <2>2. \A g \in Files : log[g] \in Seq(Event) BY Zenon DEF Typed
  <2>3. ~Resumed(Shard)' BY <1>3, ConsolidationAssumption, Zenon DEF Resumed
  <2>4. lease'[Shard].epoch \in Nat
    <3>1. lease'[Shard] \in Lease BY <1>1, Zenon DEF Copied, Touches, Changes
    <3> QED BY <3>1 DEF Lease
  <2>5. ASSUME NEW i \in DOMAIN snapshot PROVE snapshot[i].epoch <= lease'[Shard].epoch
    <3>1. snapshot[i].epoch \in Nat BY EventEpoch, Zenon
    <3> QED BY <1>3, <2>4, <3>1
  <2>6. Ranked(Shard)' BY <1>3, <2>3, <2>5, Zenon DEF Ranked
  <2>7. Ordered(log[Shard])' BY <1>3, Zenon
  <2>8. holdsSnapshot(log[Shard], log'[Shard])
    <3>1. CASE log[Shard] = NoRun BY <1>3, <3>1 DEF holdsSnapshot, NoRun
    <3> QED BY <1>3, <3>1, Zenon
  <2>9. Survive BY <1>1, <2>1, <2>2, <2>8, SnapshotFacts, Zenon DEF Survive
  <2> QED BY <2>6, <2>7, <2>9, Zenon DEF Ranks
<1> QED BY <1>2, <1>3, Zenon DEF Copied

\* takeOverFence of the shard, before the catalog goes back.
LEMMA FenceSteps ==
  ASSUME Good, UNCHANGED load, NEW c \in Consolidations,
         ReturnFences(c) \/ UndoFences(c)
  PROVE  Good'
<1> USE DEF Site, Phased, Pointed, Held, Own, Covered, Settling, Straying, Moving, Backing, Bringing, Returning
<1>1. Typed /\ Good BY Zenon DEF Good, Invariant
<1> USE <1>1
<1>2. con[c] \in Exec /\ catalog \in Files /\ Journal \in Files /\ Shard \in Files /\ Journal # Shard
  BY Zenon DEF Typed, Files, Journal, Shard
<1> USE <1>2
<1>3. CASE ReturnFences(c)
  <2>1. con[c].at = "strayFence" /\ Running(c) /\ UNCHANGED <<locked, catalog, res>> BY <1>3, Zenon DEF ReturnFences, Still, Running
  <2> USE <2>1
  <2>2. ASSUME ~load.overlap PROVE Alone /\ Site(c) /\ log[catalog] # NoRun /\ \A d \in Consolidations \ {c} : ~Running(d)
    BY <2>2, Sole, Zenon DEF Good, AloneInv
  <2>3. con[c].as \in Consolidations BY DEF Exec
  <2>4. \/ Ends(c) /\ UNCHANGED files
        \/ Go(c, "back") /\ Took(Shard, c)
    BY <1>3, <2>3, TakesOver, Zenon DEF ReturnFences, takeOverFence, Good
  <2>5. CASE Ends(c) /\ UNCHANGED files BY <2>2, <2>5, EndsGood, Zenon
  <2>6. CASE Go(c, "back") /\ Took(Shard, c)
    <3>1. Moved(c, "back") /\ Same(c) BY <2>6, GoMeans, Zenon DEF States, Ended
    <3>2. Touches(Shard) /\ log'[Shard] = log[Shard] /\ log[Shard] # NoRun /\ lease'[Shard].holder = c BY <2>6, Zenon DEF Took
    <3>3. log'[Journal] = log[Journal] /\ lease'[Journal] = lease[Journal] BY <3>2, Zenon DEF Touches, Changes
    <3>4. ASSUME ~load.overlap PROVE FileSited(c, Shard)
      <4>1. Ranks(Shard) /\ Survive BY <2>2, <2>3, <2>6, <3>4, TookRanks, Zenon
      <4>2. Site(c)'
        BY <2>2, <3>1, <3>2, <3>3, <3>4, Zenon DEF Moved, Same, Running, Fenced
      <4> QED BY <2>2, <3>1, <3>2, <3>3, <3>4, <4>1, <4>2, Zenon DEF FileSited, Moved, Same, Files
    <3>5. "back" \in States \ (Bringing \cup Returning) BY Zenon DEF States
    <3> QED BY <3>1, <3>2, <3>4, <3>5, FileGood, Zenon
  <2> QED BY <2>4, <2>5, <2>6, Zenon
<1>4. CASE UndoFences(c)
  <2>1. con[c].at = "undoFence" /\ Running(c) /\ UNCHANGED <<locked, catalog, res>> BY <1>4, Zenon DEF UndoFences, Still, Running
  <2> USE <2>1
  <2>2. ASSUME ~load.overlap PROVE Alone /\ Site(c) /\ log[catalog] # NoRun /\ \A d \in Consolidations \ {c} : ~Running(d)
    BY <2>2, Sole, Zenon DEF Good, AloneInv
  <2>3. con[c].as \in Consolidations BY DEF Exec
  <2>4. \/ Ends(c) /\ UNCHANGED files
        \/ Go(c, "back") /\ Took(Shard, con[c].as)
    BY <1>4, <2>3, TakesOver, Zenon DEF UndoFences, takeOverFence, Good
  <2>5. CASE Ends(c) /\ UNCHANGED files BY <2>2, <2>5, EndsGood, Zenon
  <2>6. CASE Go(c, "back") /\ Took(Shard, con[c].as)
    <3>1. Moved(c, "back") /\ Same(c) BY <2>6, GoMeans, Zenon DEF States, Ended
    <3>2. Touches(Shard) /\ log'[Shard] = log[Shard] /\ log[Shard] # NoRun /\ lease'[Shard].holder = con[c].as BY <2>6, Zenon DEF Took
    <3>3. log'[Journal] = log[Journal] /\ lease'[Journal] = lease[Journal] BY <3>2, Zenon DEF Touches, Changes
    <3>4. ASSUME ~load.overlap PROVE FileSited(c, Shard)
      <4>1. Ranks(Shard) /\ Survive BY <2>2, <2>3, <2>6, <3>4, TookRanks, Zenon
      <4>2. Site(c)'
        BY <2>2, <3>1, <3>2, <3>3, <3>4, Zenon DEF Moved, Same, Running, Fenced
      <4> QED BY <2>2, <3>1, <3>2, <3>3, <3>4, <4>1, <4>2, Zenon DEF FileSited, Moved, Same, Files
    <3>5. "back" \in States \ (Bringing \cup Returning) BY Zenon DEF States
    <3> QED BY <3>1, <3>2, <3>4, <3>5, FileGood, Zenon
  <2> QED BY <2>4, <2>5, <2>6, Zenon
<1> QED BY <1>3, <1>4, Zenon

\* A transaction of c after which it goes on to the next part.
LEMMA FileEnds ==
  ASSUME Good, UNCHANGED load, NEW c \in Consolidations, Running(c), con[c].at \notin Bringing \cup Returning, Ends(c),
         NEW f \in Files, Touches(f), UNCHANGED <<locked, catalog, res>>, log'[f] = NoRun => lease'[f].holder = Nobody,
         ~load.overlap => /\ log'[catalog] # NoRun /\ Survive /\ Ranks(f)
                          /\ lease'[f].holder \in {lease[f].holder, Nobody, c, con[c].as}
                          /\ con[c].phase = "finish" => lease'[Shard].holder # c
                          /\ con[c].phase = "return" /\ catalog = Journal => lease'[Shard].holder # c
  PROVE  Good'
<1>1. Typed /\ Journal # Shard BY Zenon DEF Good, Invariant, Journal, Shard
<1>2. ASSUME NEW at \in {"return", "move", "over"}, Moved(c, at) PROVE Good'
  <2>1. at \in States \ (Bringing \cup Returning) /\ at \notin {"copy", "held", "recopy", "reheld"}
    BY Zenon DEF States, Bringing, Returning
  <2>2. ASSUME ~load.overlap PROVE FileSited(c, f)
    <3>1. (\A d \in Consolidations \ {c} : ~Running(d)) /\ Site(c) BY <2>2, Sole, Zenon
    <3>2. Site(c)' /\ con'[c].as \in {c, con[c].as} BY <1>1, <2>2, <3>1, EndsSite, Zenon DEF Site
    <3>3. con'[c].at # "copy" BY <1>2, <2>1, Zenon DEF Moved
    <3> QED BY <2>2, <3>1, <3>2, <3>3, Zenon DEF FileSited
  <2> QED BY <1>2, <2>1, <2>2, FileGood, Zenon
<1> QED BY <1>1, <1>2, EndsMeans, Zenon

\* copy into the shard.
LEMMA CopySteps ==
  ASSUME Good, UNCHANGED load, NEW c \in Consolidations,
         MoveCopies(c) \/ SettleCopies(c)
  PROVE  Good'
<1> USE DEF Site, Phased, Pointed, Held, Own, Covered, Settling, Straying, Moving, Backing, Bringing, Returning
<1>1. Typed /\ Good BY Zenon DEF Good, Invariant
<1> USE <1>1
<1>2. con[c] \in Exec /\ catalog \in Files /\ Journal \in Files /\ Shard \in Files /\ Journal # Shard
  BY Zenon DEF Typed, Files, Journal, Shard
<1> USE <1>2
<1>3. CASE MoveCopies(c)
  <2>1. con[c].at = "copy" /\ Running(c) /\ UNCHANGED <<locked, catalog, res>> BY <1>3, Zenon DEF MoveCopies, Still, Running
  <2> USE <2>1
  <2>2. ASSUME ~load.overlap PROVE Alone /\ Site(c) /\ log[catalog] # NoRun /\ \A d \in Consolidations \ {c} : ~Running(d)
    BY <2>2, Sole, Zenon DEF Good, AloneInv
  <2>3. con[c].left \in Seq(Event) /\ con[c].epoch \in Nat BY DEF Exec
  <2>4. con[c].left # NoRun BY Zenon DEF Good, Invariant, Snapshots
  <2>5. \/ Opens(c, "check") /\ Copied(con[c].left, c, con[c].epoch)
        \/ Go(c, "unfence") /\ UNCHANGED files
    BY <1>3, <2>3, Copies, Zenon DEF MoveCopies, copy, Good
  <2>6. CASE Opens(c, "check") /\ Copied(con[c].left, c, con[c].epoch)
    <3>1. Moved(c, "check") /\ Same(c) BY <2>6, OpensMeans, Zenon DEF States
    <3>2. Touches(Shard) /\ log'[Shard] # NoRun BY <2>4, <2>6, Zenon DEF Copied, files
    <3>3. log'[Journal] = log[Journal] /\ lease'[Journal] = lease[Journal] BY <3>2, Zenon DEF Touches, Changes
    <3>4. ASSUME ~load.overlap PROVE FileSited(c, Shard)
      <4>1. Ordered(con[c].left) /\ \A i \in DOMAIN con[c].left : con[c].left[i].epoch < con[c].epoch
        BY <2>2, <3>4, Zenon DEF Alone, Epochs
      <4>2. Ranks(Shard) /\ Survive BY <2>2, <2>3, <2>6, <3>4, <4>1, CopiedRanks, Zenon
      <4>3. lease[Shard].holder # c /\ holdsSnapshot(con[c].left, log[Journal]) BY <2>2, <3>4, Zenon
      <4>4. \/ log'[Shard] = log[Shard] /\ lease'[Shard] = lease[Shard]
            \/ log'[Shard] = con[c].left /\ lease'[Shard].holder = c
        BY <2>6, Zenon DEF Copied, files
      <4>5. lease'[Shard].holder = c => holdsSnapshot(log'[Shard], log'[Journal]) BY <3>3, <4>3, <4>4, Zenon
      <4>6. Site(c)' BY <2>2, <3>1, <3>2, <3>3, <3>4, <4>5, Zenon DEF Moved, Same, Running
      <4>7. catalog = Journal BY <2>2, <3>4, Zenon
      <4> QED BY <2>2, <3>1, <3>2, <3>3, <3>4, <4>2, <4>4, <4>6, <4>7, Zenon DEF FileSited, Moved, Same
    <3>8. "check" \in States \ (Bringing \cup Returning) BY Zenon DEF States
    <3> QED BY <3>1, <3>2, <3>3, <3>4, <3>8, FileGood, Zenon
  <2>7. CASE Go(c, "unfence") /\ UNCHANGED files
    <3>1. Moved(c, "unfence") /\ Same(c) BY <1>3, <2>7, GoMeans, Zenon DEF MoveCopies, States, Ended
    <3>2. Quiet(c, "unfence") BY <2>7, <3>1, Zenon DEF Quiet
    <3>3. ASSUME ~load.overlap PROVE Sited(c)
      BY <2>2, <2>7, <3>1, <3>3, Zenon DEF Sited, Moved, Same, Running, Fenced, files
    <3> QED BY <3>2, <3>3, QuietGood, Zenon DEF States
  <2> QED BY <2>5, <2>6, <2>7, Zenon
<1>4. CASE SettleCopies(c)
  <2>1. con[c].at = "recopy" /\ Running(c) /\ UNCHANGED <<locked, catalog, res>> BY <1>4, Zenon DEF SettleCopies, Still, Running
  <2> USE <2>1
  <2>2. ASSUME ~load.overlap PROVE Alone /\ Site(c) /\ log[catalog] # NoRun /\ \A d \in Consolidations \ {c} : ~Running(d)
    BY <2>2, Sole, Zenon DEF Good, AloneInv
  <2>3. con[c].left \in Seq(Event) /\ con[c].epoch \in Nat /\ con[c].as \in Consolidations BY DEF Exec
  <2>4. con[c].left # NoRun BY Zenon DEF Good, Invariant, Snapshots
  <2>5. \/ Go(c, "reheld") /\ Copied(con[c].left, con[c].as, con[c].epoch)
        \/ Ends(c) /\ UNCHANGED files
    BY <1>4, <2>3, Copies, Zenon DEF SettleCopies, copy, Good
  <2>6. load.overlap BY <2>2, Zenon
  <2>7. CASE Go(c, "reheld") /\ Copied(con[c].left, con[c].as, con[c].epoch)
    <3>1. Moved(c, "reheld") /\ con'[c].left = con[c].left BY <2>7, GoMeans, Zenon DEF States, Ended
    <3>2. Touches(Shard) /\ log'[Shard] # NoRun BY <2>4, <2>7, Zenon DEF Copied, files
    <3>3. "reheld" \in States \ (Bringing \cup Returning) BY Zenon DEF States
    <3> QED BY <2>4, <2>6, <3>1, <3>2, <3>3, FileGood, Zenon
  <2>8. CASE Ends(c) /\ UNCHANGED files BY <2>6, <2>8, EndsGood, Zenon
  <2> QED BY <2>5, <2>7, <2>8, Zenon
<1> QED BY <1>3, <1>4, Zenon

\* A deleted copy has no holder.
LEMMA RemovedRow ==
  ASSUME Good, NEW f \in Files, NEW holder, Removed(f, holder)
  PROVE  Touches(f) /\ (log'[f] = NoRun => lease'[f].holder = Nobody) /\ lease'[f].holder \in {lease[f].holder, Nobody}
<1>1. Absent.holder = Nobody BY DEF Absent
<1>2. Touches(f) /\ Rows BY Zenon DEF Removed, Good, Invariant
<1>3. CASE UNCHANGED files BY <1>2, <1>3, Zenon DEF Rows, files
<1>4. CASE lease'[f] = Absent BY <1>1, <1>2, <1>4, Zenon
<1> QED BY <1>3, <1>4, Zenon DEF Removed

\* removeRun, under the holder of the move.
LEMMA RemoveSteps ==
  ASSUME Good, UNCHANGED load, NEW c \in Consolidations,
         AbandonDrops(c) \/ MoveDiscards(c) \/ SettleRemoves(c)
  PROVE  Good'
<1> USE DEF Site, Phased, Pointed, Held, Own, Covered, Settling, Straying, Moving, Backing, Bringing, Returning
<1>1. Typed /\ Good BY Zenon DEF Good, Invariant
<1> USE <1>1
<1>2. con[c] \in Exec /\ catalog \in Files /\ Journal \in Files /\ Shard \in Files /\ Journal # Shard
  BY Zenon DEF Typed, Files, Journal, Shard
<1> USE <1>2
<1>3. CASE AbandonDrops(c)
  <2>1. con[c].at = "drop" /\ Running(c) /\ UNCHANGED <<locked, catalog, res>> BY <1>3, Zenon DEF AbandonDrops, Still, Running
  <2> USE <2>1
  <2>2. ASSUME ~load.overlap PROVE Alone /\ Site(c) /\ log[catalog] # NoRun /\ \A d \in Consolidations \ {c} : ~Running(d)
    BY <2>2, Sole, Zenon DEF Good, AloneInv
  <2>3. Removed(Shard, c) BY <1>3, Removes, Zenon DEF AbandonDrops
  <2> USE <2>3
  <2>4. CASE lease[Shard].holder = c
    <3>1. Moved(c, "reselect") /\ Same(c) BY <1>3, <2>4, GoMeans, Zenon DEF AbandonDrops, States, Ended
    <3>2. Touches(Shard) /\ (log'[Shard] = NoRun => lease'[Shard].holder = Nobody)
      BY RemovedRow, Zenon
    <3>3. log'[Journal] = log[Journal] /\ lease'[Journal] = lease[Journal] BY <3>2, Zenon DEF Touches, Changes
    <3>4. ASSUME ~load.overlap PROVE FileSited(c, Shard)
      <4>1. catalog = Journal /\ (lease[Shard].holder = c => holdsSnapshot(log[Shard], log[Journal])) BY <2>2, <3>4, Zenon
      <4>2. Ranks(Shard) /\ Survive BY <2>2, <3>4, <4>1, RemovedRanks, Zenon
      <4>3. lease'[Shard].holder \in {lease[Shard].holder, Nobody} BY RemovedRow, Zenon
      <4>4. Site(c)' BY <2>2, <3>1, <3>2, <3>3, <3>4, <4>1, Zenon DEF Moved, Same, Running
      <4> QED BY <2>2, <3>1, <3>3, <3>4, <4>1, <4>2, <4>3, <4>4, Zenon DEF FileSited, Moved, Same
    <3>5. "reselect" \in States \ (Bringing \cup Returning) BY Zenon DEF States
    <3> QED BY <3>1, <3>2, <3>4, <3>5, FileGood, Zenon
  <2>5. CASE lease[Shard].holder # c
    <3>1. Moved(c, "over") /\ con'[c].phase = "finish" /\ con'[c].as = c BY <1>3, <2>5, GoMeans, Zenon DEF AbandonDrops, States, Ended
    <3>2. Touches(Shard) /\ (log'[Shard] = NoRun => lease'[Shard].holder = Nobody)
      BY RemovedRow, Zenon
    <3>3. log'[Journal] = log[Journal] /\ lease'[Journal] = lease[Journal] BY <3>2, Zenon DEF Touches, Changes
    <3>4. ASSUME ~load.overlap PROVE FileSited(c, Shard)
      <4>1. catalog = Journal /\ (lease[Shard].holder = c => holdsSnapshot(log[Shard], log[Journal])) BY <2>2, <3>4, Zenon
      <4>2. Ranks(Shard) /\ Survive BY <2>2, <3>4, <4>1, RemovedRanks, Zenon
      <4>3. lease'[Shard].holder \in {lease[Shard].holder, Nobody} BY RemovedRow, Zenon
      <4>4. Site(c)' BY <3>1, OverSite, Zenon DEF Moved, Ended
      <4> QED BY <2>2, <3>1, <3>3, <3>4, <4>1, <4>2, <4>3, <4>4, Zenon DEF FileSited, Moved, Same
    <3>5. "over" \in States \ (Bringing \cup Returning) BY Zenon DEF States
    <3> QED BY <3>1, <3>2, <3>4, <3>5, FileGood, Zenon
  <2> QED BY <2>4, <2>5, Zenon
<1>4. CASE MoveDiscards(c)
  <2>1. con[c].at = "discard" /\ Running(c) /\ UNCHANGED <<locked, catalog, res>> BY <1>4, Zenon DEF MoveDiscards, Still, Running
  <2>2. ASSUME ~load.overlap PROVE Alone /\ Site(c) /\ log[catalog] # NoRun /\ \A d \in Consolidations \ {c} : ~Running(d)
    BY <2>1, <2>2, Sole, Zenon DEF Good, AloneInv
  <2>3. Removed(Shard, c) BY <1>4, Removes, Zenon DEF MoveDiscards
  <2>4. load.overlap BY <2>1, <2>2, Zenon
  <2> QED
    <3>1. Moved(c, "unfence") BY <1>4, GoMeans, Zenon DEF MoveDiscards, States
    <3>2. Touches(Shard) /\ (log'[Shard] = NoRun => lease'[Shard].holder = Nobody)
      BY <2>3, RemovedRow, Zenon
    <3>3. "unfence" \in States \ (Bringing \cup Returning) BY Zenon DEF States
    <3> QED BY <2>1, <2>4, <3>1, <3>2, <3>3, FileGood, Zenon
<1>5. CASE SettleRemoves(c)
  <2>1. con[c].at = "remove" /\ Running(c) /\ UNCHANGED <<locked, catalog, res>> BY <1>5, Zenon DEF SettleRemoves, Still, Running
  <2> USE <2>1
  <2>2. ASSUME ~load.overlap PROVE Alone /\ Site(c) /\ log[catalog] # NoRun /\ \A d \in Consolidations \ {c} : ~Running(d)
    BY <2>2, Sole, Zenon DEF Good, AloneInv
  <2>3. Removed(Journal, con[c].as) BY <1>5, Removes, Zenon DEF SettleRemoves
  <2> QED
    <3>1. Moved(c, "left") /\ Same(c) BY <1>5, GoMeans, Zenon DEF SettleRemoves, States, Ended
    <3>2. Touches(Journal) /\ (log'[Journal] = NoRun => lease'[Journal].holder = Nobody)
      BY <2>3, RemovedRow, Zenon
    <3>3. log'[Shard] = log[Shard] /\ lease'[Shard] = lease[Shard] BY <3>2, Zenon DEF Touches, Changes
    <3>4. ASSUME ~load.overlap PROVE FileSited(c, Journal)
      <4>1. catalog = Shard /\ (lease[Journal].holder = con[c].as => holdsSnapshot(log[Journal], log[Shard])) BY <2>2, <3>4, Zenon
      <4>2. Ranks(Journal) /\ Survive BY <2>2, <2>3, <3>4, <4>1, RemovedRanks, Zenon
      <4>3. lease'[Journal].holder \in {lease[Journal].holder, Nobody} BY <2>3, RemovedRow, Zenon
      <4>4. Site(c)' BY <2>2, <3>1, <3>2, <3>3, <3>4, <4>1, Zenon DEF Moved, Same, Running
      <4> QED BY <2>2, <3>1, <3>3, <3>4, <4>1, <4>2, <4>3, <4>4, Zenon DEF FileSited, Moved, Same
    <3>5. "left" \in States \ (Bringing \cup Returning) BY Zenon DEF States
    <3> QED BY <3>1, <3>2, <3>4, <3>5, FileGood, Zenon
<1> QED BY <1>3, <1>4, <1>5, Zenon

\* unfence and liftFence.
LEMMA LiftSteps ==
  ASSUME Good, UNCHANGED load, NEW c \in Consolidations,
         MoveUnfences(c) \/ SettleLifts(c)
  PROVE  Good'
<1> USE DEF Site, Phased, Pointed, Held, Own, Covered, Settling, Straying, Moving, Backing, Bringing, Returning
<1>1. Typed /\ Good BY Zenon DEF Good, Invariant
<1> USE <1>1
<1>2. con[c] \in Exec /\ catalog \in Files /\ Journal \in Files /\ Shard \in Files /\ Journal # Shard
  BY Zenon DEF Typed, Files, Journal, Shard
<1> USE <1>2
<1>3. CASE MoveUnfences(c)
  <2>1. con[c].at = "unfence" /\ Running(c) /\ UNCHANGED <<locked, catalog, res>> BY <1>3, Zenon DEF MoveUnfences, Still, Running
  <2>2. ASSUME ~load.overlap PROVE Alone /\ Site(c) /\ log[catalog] # NoRun /\ \A d \in Consolidations \ {c} : ~Running(d)
    BY <2>1, <2>2, Sole, Zenon DEF Good, AloneInv
  <2>3. Ends(c) /\ Lifted(Journal) BY <1>3, Lifts, Zenon DEF MoveUnfences, unfence
  <2>4. Touches(Journal) /\ log'[Journal] = log[Journal] /\ lease'[Journal].holder \in {lease[Journal].holder, Nobody} BY <2>3, Zenon DEF Lifted
  <2> USE <2>4
  <2>5. log'[Shard] = log[Shard] /\ lease'[Shard] = lease[Shard] BY Zenon DEF Touches, Changes
  <2>6. log'[Journal] = NoRun => lease'[Journal].holder = Nobody BY Zenon DEF Good, Invariant, Rows
  <2>7. ASSUME ~load.overlap
        PROVE  /\ log'[catalog] # NoRun /\ Survive /\ Ranks(Journal) /\ lease'[Journal].holder \in {lease[Journal].holder, Nobody, c, con[c].as}
               /\ con[c].phase = "finish" => lease'[Shard].holder # c
               /\ con[c].phase = "return" /\ catalog = Journal => lease'[Shard].holder # c
    <3>1. Ranks(Journal) /\ Survive BY <2>2, <2>3, <2>7, LiftedRanks, Zenon
    <3>2. log'[catalog] # NoRun BY <2>2, <2>5, <2>7, Zenon DEF Files
    <3>3. con[c].phase # "return" /\ (con[c].phase = "finish" => lease[Shard].holder # c) BY <2>1, <2>2, <2>7, Zenon
    <3>4. Nobody # c BY ConsolidationAssumption, Zenon
    <3> QED BY <2>5, <3>1, <3>2, <3>3, <3>4, Zenon
  <2> QED BY <2>1, <2>3, <2>6, <2>7, FileEnds, Zenon
<1>4. CASE SettleLifts(c)
  <2>1. con[c].at = "lift" /\ Running(c) /\ UNCHANGED <<locked, catalog, res>> BY <1>4, Zenon DEF SettleLifts, Still, Running
  <2>2. ASSUME ~load.overlap PROVE Alone /\ Site(c) /\ log[catalog] # NoRun /\ \A d \in Consolidations \ {c} : ~Running(d)
    BY <2>1, <2>2, Sole, Zenon DEF Good, AloneInv
  <2>3. Ends(c) /\ Lifted(Shard) BY <1>4, Lifts, Zenon DEF SettleLifts, liftFence
  <2>4. Touches(Shard) /\ log'[Shard] = log[Shard] /\ lease'[Shard].holder \in {lease[Shard].holder, Nobody} BY <2>3, Zenon DEF Lifted
  <2> USE <2>4
  <2>5. log'[Journal] = log[Journal] /\ lease'[Journal] = lease[Journal] BY Zenon DEF Touches, Changes
  <2>6. log'[Shard] = NoRun => lease'[Shard].holder = Nobody BY Zenon DEF Good, Invariant, Rows
  <2>7. ASSUME ~load.overlap
        PROVE  /\ log'[catalog] # NoRun /\ Survive /\ Ranks(Shard) /\ lease'[Shard].holder \in {lease[Shard].holder, Nobody, c, con[c].as}
               /\ con[c].phase = "finish" => lease'[Shard].holder # c
               /\ con[c].phase = "return" /\ catalog = Journal => lease'[Shard].holder # c
    <3>1. Ranks(Shard) /\ Survive BY <2>2, <2>3, <2>7, LiftedRanks, Zenon
    <3>2. log'[catalog] # NoRun BY <2>2, <2>5, <2>7, Zenon DEF Files
    <3>3. con[c].phase # "return" /\ (con[c].phase = "finish" => lease[Shard].holder # c) BY <2>1, <2>2, <2>7, Zenon
    <3>4. Nobody # c BY ConsolidationAssumption, Zenon
    <3> QED BY <2>5, <3>1, <3>2, <3>3, <3>4, Zenon
  <2> QED BY <2>1, <2>3, <2>6, <2>7, FileEnds, Zenon
<1> QED BY <1>3, <1>4, Zenon

\* fence: the snapshot of a finished run nobody resumed, under the next epoch.
LEMMA FenceStep ==
  ASSUME Good, UNCHANGED load, NEW c \in Consolidations, fence(c)
  PROVE  Good'
<1> USE DEF Site, Phased, Pointed, Held, Own, Covered, Settling, Straying, Moving, Backing, Bringing, Returning
<1>1. Typed /\ Good BY Zenon DEF Good, Invariant
<1> USE <1>1
<1>2. con[c] \in Exec /\ catalog \in Files /\ Journal \in Files /\ Shard \in Files /\ Journal # Shard
  BY Zenon DEF Typed, Files, Journal, Shard
<1>3. con[c].at = "fence" /\ Running(c) /\ UNCHANGED <<locked, catalog, res>> BY Zenon DEF fence, Still, Running
<1>4. ASSUME ~load.overlap PROVE Alone /\ Site(c) /\ log[catalog] # NoRun /\ \A d \in Consolidations \ {c} : ~Running(d)
  BY <1>3, <1>4, Sole, Zenon DEF Good, AloneInv
<1> DEFINE stays == log[Journal] = NoRun \/ ~isFinished(Journal) \/ Resumed(Journal)
           next  == lease[Journal].epoch + 1
           row   == [holder |-> c, epoch |-> next, stale |-> FALSE]
           e     == [con[c] EXCEPT !.at = "copy", !.left = log[Journal], !.as = c, !.epoch = next]
<1>5. CASE stays BY <1>3, <1>5, OverGood, Zenon DEF fence
<1>6. CASE ~stays
  <2>1. log[Journal] \in Seq(Event) /\ log[Journal] # NoRun /\ lease[Journal].epoch \in Nat /\ next \in Nat /\ next > lease[Journal].epoch
    <3>1. log[Journal] \in Seq(Event) /\ lease[Journal].epoch \in Nat BY <1>2, LeaseTyped, Zenon
    <3> QED BY <1>6, <3>1
  <2> USE <2>1
  <2>2. row \in Lease /\ row.holder = c /\ row.epoch = next BY DEF Lease
  <2>3. e \in Exec /\ e.at = "copy" /\ e.left = log[Journal] /\ e.as = c /\ e.epoch = next /\ e.phase = con[c].phase
    BY <1>2, Zenon DEF Exec, States
  <2> USE <2>3
  <2>4. Set(Journal, log[Journal], row) /\ con' = [con EXCEPT ![c] = e] /\ Unlocked(Journal) BY <1>6, Zenon DEF fence
  <2> HIDE DEF row, e, next, stays
  <2>5. Touches(Journal) /\ log'[Journal] = log[Journal] /\ lease'[Journal] = row BY <1>2, <2>2, <2>4, SetMeans, Zenon DEF Touches, Changes
  <2> USE <2>5
  <2>6. Moved(c, "copy") /\ con'[c] = e BY <2>4, Zenon DEF Moved, Typed
  <2>7. log'[Shard] = log[Shard] /\ lease'[Shard] = lease[Shard] BY <1>2, Zenon DEF Touches, Changes
  <2>8. ASSUME ~load.overlap PROVE FileSited(c, Journal)
    <3>1. Ranked(Journal) /\ Ordered(log[Journal]) BY <1>2, <1>4, <2>8, Zenon DEF Alone, Epochs
    <3>2. ASSUME NEW i \in DOMAIN log[Journal] PROVE log[Journal][i].epoch < next /\ log[Journal][i].epoch <= next
      <4>1. log[Journal][i].epoch \in Nat BY EventEpoch, Zenon
      <4>2. log[Journal][i].epoch <= lease[Journal].epoch BY <3>1, Zenon DEF Ranked
      <4> QED BY <4>1, <4>2
    <3>3. ~Resumed(Journal)' BY <2>2, ConsolidationAssumption, Zenon DEF Resumed
    <3>4. Ranked(Journal)' BY <2>2, <3>2, <3>3, Zenon DEF Ranked
    <3>5. Ordered(log[Journal])' BY <3>1, Zenon
    <3>6. Survive
      <4>1. \A g \in Files : log'[g] = log[g] /\ log[g] \in Seq(Event) BY Zenon DEF Touches, Changes, Typed
      <4> QED BY <4>1, SnapshotFacts, Zenon DEF Survive
    <3>7. holdsSnapshot(log[Journal], log[Journal]) BY SnapshotFacts, Zenon
    <3>8. Site(c)' BY <1>2, <1>3, <1>4, <2>6, <2>7, <2>8, <3>7, Zenon DEF Running
    <3>9. Ordered(con'[c].left) /\ \A i \in DOMAIN con'[c].left : con'[c].left[i].epoch < con'[c].epoch
      BY <2>6, <3>1, <3>2, Zenon
    <3>10. log'[catalog] # NoRun BY <1>3, <1>4, <2>8, Zenon
    <3> QED BY <1>4, <2>2, <2>6, <2>8, <3>4, <3>5, <3>6, <3>8, <3>9, <3>10, Zenon DEF FileSited, Ranks
  <2>9. "copy" \in States \ (Bringing \cup Returning) BY Zenon DEF States
  <2> QED BY <1>2, <1>3, <2>6, <2>8, <2>9, FileGood, Zenon
<1> QED BY <1>5, <1>6, Zenon

\* returnToSource deletes the shard's copy, still inside its transaction.
LEMMA BackDropsStep ==
  ASSUME Good, UNCHANGED load, NEW c \in Consolidations, BackDrops(c)
  PROVE  Good'
<1>1. Typed /\ Locks /\ Rows /\ Snapshots /\ Dropping BY Zenon DEF Good, Invariant
<1> USE <1>1
<1>2. Journal \in Files /\ Shard \in Files /\ Journal # Shard BY Zenon DEF Files, Journal, Shard
<1>3. /\ con[c].at = "backDrops" /\ Running(c) /\ UNCHANGED <<catalog, res>> /\ Ends(c)
      /\ locked' = [locked EXCEPT ![Shard] = Nobody] /\ Set(Shard, NoRun, Absent)
  BY Zenon DEF BackDrops, Unlocks, Running
<1> USE <1>3
<1>4. Absent \in Lease /\ NoRun \in Seq(Event) /\ Absent.holder = Nobody BY DEF Absent, Lease, NoRun
<1>5. Changes(Shard) /\ log'[Shard] = NoRun /\ lease'[Shard].holder = Nobody BY <1>2, <1>4, SetMeans, Zenon DEF Changes
<1>6. locked[Shard] = c BY Zenon DEF Locks, Returning
<1>7. ASSUME NEW at \in {"return", "move", "over"}, Moved(c, at) PROVE Good'
  <2>1. at \in States /\ at \notin {"copy", "held", "recopy", "reheld", "backKept", "backDrops"} \cup Bringing \cup Returning
    BY Zenon DEF States, Bringing, Returning
  <2> USE <2>1
  <2>2. con[c].at \in Within(Shard) BY <1>2, Zenon DEF Within, Returning
  <2>3. locked' \in [Files -> Consolidations \cup {Nobody}] /\ Locks' BY <1>2, <1>7, <2>2, LocksKept, Zenon
  <2>4. Typed' BY <1>5, <1>7, <2>3, Zenon DEF Typed, Changes, Moved
  <2>5. Rows' BY <1>5, Zenon DEF Rows, Changes
  <2>6. Snapshots' BY <1>7, Zenon DEF Snapshots, Moved
  <2>7. ASSUME NEW d \in Consolidations, con'[d].at \in {"backKept", "backDrops"} PROVE FALSE
    <3>1. d # c /\ con'[d] = con[d] BY <1>7, <2>7, Zenon DEF Moved
    <3>2. locked[Shard] = d BY <2>7, <3>1, Zenon DEF Locks, Returning
    <3> QED BY <1>6, <3>1, <3>2, Zenon
  <2>8. ASSUME ~load.overlap PROVE Alone'
    <3>1. Site(c) /\ Alone /\ log[catalog] # NoRun /\ \A d \in Consolidations \ {c} : ~Running(d)
      BY <2>8, Sole, Zenon DEF Good, AloneInv
    <3>2. catalog = Journal /\ holdsSnapshot(log[Shard], log[Journal])
      BY <3>1, Zenon DEF Site, Pointed, Covered, Backing
    <3>3. log'[Journal] = log[Journal] /\ log[Journal] \in Seq(Event) BY <1>2, <1>5, Zenon DEF Changes, Typed
    <3>4. Survive
      <4>1. \A f \in Files : f = Journal \/ f = Shard BY Zenon DEF Files
      <4> QED BY <1>2, <3>2, <3>3, <4>1, SnapshotFacts, Zenon DEF Survive
    <3>5. Ranks(Shard)
      <4>1. DOMAIN log'[Shard] = {} BY <1>5 DEF NoRun
      <4>2. Ranked(Shard)' BY <4>1, Zenon DEF Ranked
      <4>3. Ordered(log[Shard])' BY <4>1, Zenon DEF Ordered
      <4> QED BY <4>2, <4>3, Zenon DEF Ranks
    <3>6. Nobody # c BY ConsolidationAssumption, Zenon
    <3>7. Site(c)' /\ con'[c].as \in {c, con[c].as}
      BY <1>2, <1>5, <3>1, <3>6, EndsSite, Zenon DEF Site
    <3>8. FileSited(c, Shard)
      BY <1>5, <1>7, <3>1, <3>2, <3>3, <3>4, <3>5, <3>7, Zenon DEF FileSited, Moved
    <3> QED BY <1>2, <1>5, <1>7, <3>1, <3>8, FileAlone, Zenon
  <2> QED BY <2>3, <2>4, <2>5, <2>6, <2>7, <2>8, Zenon DEF Good, Invariant, Dropping, AloneInv
<1> QED BY <1>7, EndsMeans, Zenon

\* Every step of a consolidation keeps the invariant.
LEMMA ConsolidateGood ==
  ASSUME Good, UNCHANGED load, NEW c \in Consolidations, Consolidate(c)
  PROVE  Good'
BY FinishSteps, ReturnSteps, MoveSteps, SettleSteps, TurnSteps, LockSteps, StopStep, FenceSteps, CopySteps, RemoveSteps,
   LiftSteps, FenceStep, BackDropsStep, Zenon DEF Consolidate

-----------------------------------------------------------------------------
(* Steps of the others: a resume, a lease that expires, a read *)

\* What they do to a file: nothing while it is locked, events are appended by
\* the resume that holds the lease, and no lease comes to a consolidation.
Grows(f) ==
  /\ locked[f] # Nobody => log'[f] = log[f] /\ lease'[f].holder = lease[f].holder
  /\ holdsSnapshot(log[f], log'[f])
  /\ log'[f] = log[f] \/ Resumed(f)
  /\ lease'[f].holder \in {lease[f].holder, Nobody} \cup Resumes
  /\ log'[f] = NoRun => lease'[f].holder = Nobody

\* A resume that counts another event wrote it.
Tells == \A r \in Resumes : \A i \in 1..res'[r].wrote : i \in 1..res[r].wrote \/ Kept(r, Bodies[i])'

\* Steps of the others leave every consolidation what its await needs.
LEMMA GrowsSite ==
  ASSUME Typed, Locks, NEW c \in Consolidations, UNCHANGED <<con, catalog, locked>>, \A f \in Files : Grows(f),
         log' \in [Files -> Seq(Event)], Site(c)
  PROVE  Site(c)'
<1>1. Journal \in Files /\ Shard \in Files BY Zenon DEF Files
<1> USE <1>1
<1>2. \A f \in Files : log[f] \in Seq(Event) /\ log'[f] \in Seq(Event) BY Zenon DEF Typed
<1>3. c # Nobody /\ c \notin Resumes /\ con[c].as \notin Resumes /\ con[c].as # Nobody
  <2>1. con[c].as \in Consolidations BY Zenon DEF Typed, Exec
  <2> QED BY <2>1, ConsolidationAssumption, Zenon
<1>4. Phased(c)' /\ Pointed(c)' BY Zenon DEF Site, Phased, Pointed
<1>5. ASSUME NEW f \in Files, log[f] # NoRun PROVE log'[f] # NoRun
  <2>1. holdsSnapshot(log[f], log'[f]) BY Zenon DEF Grows
  <2> QED BY <1>2, <1>5, <2>1, SnapshotFacts, Zenon
<1>6. Held(c)' BY <1>5, Zenon DEF Site, Held
<1>7. \A f \in Files : \A d \in Consolidations : lease'[f].holder = d => lease[f].holder = d /\ log'[f] = log[f]
  BY ConsolidationAssumption, Zenon DEF Grows, Resumed
<1>8. Own(c)'
  <2>1. \A f \in Files : Fenced(f)' => Fenced(f) BY <1>7, Zenon DEF Fenced
  <2> QED BY <1>7, <2>1, Zenon DEF Site, Own, Running
<1>9. Covered(c)'
  <2>1. con[c].at = "copy" => holdsSnapshot(con[c].left, log'[Journal])
    <3>1. con[c].left \in Seq(Event) BY Zenon DEF Typed, Exec
    <3> QED BY <1>2, <3>1, SnapshotFacts, Zenon DEF Site, Covered, Grows
  <2>2. ASSUME con[c].at \in {"check", "select", "drop"}, lease'[Shard].holder = c PROVE holdsSnapshot(log'[Shard], log'[Journal])
    <3>1. lease[Shard].holder = c /\ log'[Shard] = log[Shard] BY <1>7, <2>2, Zenon
    <3> QED BY <1>2, <2>2, <3>1, SnapshotFacts, Zenon DEF Site, Covered, Grows
  <2>3. con[c].as \in Consolidations BY Zenon DEF Typed, Exec
  <2>4. ASSUME con[c].at = "held", lease'[Journal].holder = con[c].as PROVE log'[Journal] = con[c].left
    BY <1>7, <2>3, <2>4, Zenon DEF Site, Covered
  <2>5. ASSUME con[c].at = "remove", lease'[Journal].holder = con[c].as PROVE holdsSnapshot(log'[Journal], log'[Shard])
    <3>1. lease[Journal].holder = con[c].as /\ log'[Journal] = log[Journal] BY <1>7, <2>3, <2>5, Zenon
    <3> QED BY <1>2, <2>5, <3>1, SnapshotFacts, Zenon DEF Site, Covered, Grows
  <2>6. ASSUME con[c].at \in {"backKept", "backDrops"} PROVE holdsSnapshot(log'[Shard], log'[Journal])
    <3>1. locked[Shard] = c BY <2>6, Zenon DEF Locks, Returning
    <3>2. log'[Shard] = log[Shard] BY <1>3, <3>1, Zenon DEF Grows
    <3> QED BY <1>2, <2>6, <3>2, SnapshotFacts, Zenon DEF Site, Covered, Grows
  <2> QED BY <2>1, <2>2, <2>4, <2>5, <2>6, Zenon DEF Covered
<1> QED BY <1>4, <1>6, <1>8, <1>9, Zenon DEF Site

\* Steps of the others keep the invariant.
LEMMA GrowsGood ==
  ASSUME Good, UNCHANGED <<load, con, catalog, locked>>, \A f \in Files : Grows(f),
         log' \in [Files -> Seq(Event)], lease' \in [Files -> Lease], res' \in [Resumes -> Resuming], Tells,
         ~load.overlap => \A f \in Files : Ranks(f)
  PROVE  Good'
<1>1. Typed /\ Locks /\ Rows /\ Snapshots /\ Dropping BY Zenon DEF Good, Invariant
<1> USE <1>1
<1>2. Typed' BY Zenon DEF Typed
<1>3. Locks' /\ Snapshots' BY Zenon DEF Locks, Snapshots
<1>4. Rows' BY Zenon DEF Rows, Grows
<1>5. Dropping'
  <2> SUFFICES ASSUME NEW d \in Consolidations, con[d].at \in {"backKept", "backDrops"} PROVE ~Resumed(Shard)' BY Zenon DEF Dropping
  <2>1. locked[Shard] = d /\ d # Nobody BY ConsolidationAssumption, Zenon DEF Locks, Returning
  <2>2. lease'[Shard].holder = lease[Shard].holder BY <2>1, Zenon DEF Grows, Files
  <2> QED BY <2>2, Zenon DEF Dropping, Resumed
<1>6. ASSUME ~load.overlap PROVE Alone'
  <2>1. Alone BY <1>6, Zenon DEF Good, AloneInv
  <2> USE <2>1
  <2>2. One' BY Zenon DEF Alone, One, Running
  <2>3. log'[catalog] # NoRun
    <3>1. catalog \in Files BY Zenon DEF Typed
    <3>2. log[catalog] \in Seq(Event) /\ log'[catalog] \in Seq(Event) /\ log[catalog] # NoRun BY <3>1, Zenon DEF Typed, Alone
    <3> QED BY <3>1, <3>2, SnapshotFacts, Zenon DEF Grows
  <2>4. \A c \in Consolidations : Site(c)' BY GrowsSite, Zenon DEF Alone
  <2>5. LosesNothing'
    <3>1. Survive BY Zenon DEF Survive, Grows
    <3>2. \A r \in Resumes : \A i \in 1..res'[r].wrote : Kept(r, Bodies[i])'
      BY <3>1, KeptSurvives, Zenon DEF Tells, Alone, LosesNothing
    <3>3. Kept(First.by, First.body)' BY <3>1, KeptSurvives, Zenon DEF Alone, LosesNothing
    <3> QED BY <3>2, <3>3, Zenon DEF LosesNothing
  <2>6. Epochs' BY <1>6, Zenon DEF Alone, Epochs, Ranks
  <2> QED BY <2>2, <2>3, <2>4, <2>5, <2>6, Zenon DEF Alone
<1> QED BY <1>2, <1>3, <1>4, <1>5, <1>6, Zenon DEF Good, Invariant, AloneInv

\* Leaving the files alone, or changing one of them unlocked.
LEMMA GrowsOne ==
  ASSUME Good, UNCHANGED <<load, con, catalog, locked>>, res' \in [Resumes -> Resuming], Tells,
         \/ UNCHANGED files
         \/ \E f \in Files : Touches(f) /\ Grows(f) /\ (~load.overlap => Ranks(f))
  PROVE  Good'
<1>1. Typed /\ Rows BY Zenon DEF Good, Invariant
<1>2. ASSUME NEW f \in Files, log'[f] = log[f], lease'[f] = lease[f] PROVE Grows(f) /\ (~load.overlap => Ranks(f))
  <2>1. holdsSnapshot(log[f], log'[f]) BY <1>1, <1>2, SnapshotFacts, Zenon DEF Typed
  <2>2. ASSUME ~load.overlap PROVE Ranks(f)
    <3>1. Ranked(f) /\ Ordered(log[f]) BY <2>2, Zenon DEF Good, AloneInv, Alone, Epochs
    <3>2. Ranked(f)' BY <1>2, <3>1, Zenon DEF Ranked, Resumed
    <3>3. Ordered(log[f])' BY <1>2, <3>1, Zenon
    <3> QED BY <3>2, <3>3, Zenon DEF Ranks
  <2> QED BY <1>1, <1>2, <2>1, <2>2, Zenon DEF Grows, Rows
<1>3. CASE UNCHANGED files
  <2>1. \A f \in Files : Grows(f) /\ (~load.overlap => Ranks(f)) BY <1>2, <1>3, Zenon DEF files
  <2>2. log' \in [Files -> Seq(Event)] /\ lease' \in [Files -> Lease] BY <1>1, <1>3, Zenon DEF Typed, files
  <2> QED BY <2>1, <2>2, GrowsGood, Zenon
<1>4. CASE \E f \in Files : Touches(f) /\ Grows(f) /\ (~load.overlap => Ranks(f))
  <2>1. PICK f \in Files : Touches(f) /\ Grows(f) /\ (~load.overlap => Ranks(f)) BY <1>4, Zenon
  <2>2. \A g \in Files : Grows(g) /\ (~load.overlap => Ranks(g)) BY <1>2, <2>1, Zenon DEF Touches, Changes
  <2>3. log' \in [Files -> Seq(Event)] /\ lease' \in [Files -> Lease] BY <2>1, Zenon DEF Touches, Changes
  <2> QED BY <2>2, <2>3, GrowsGood, Zenon
<1> QED BY <1>3, <1>4, Zenon

\* One resume changed, and counts no event it did not count.
Turns(r, e) == res' = [res EXCEPT ![r] = e] /\ e \in Resuming /\ e.wrote = res[r].wrote

\* A resume that writes nothing tells nothing new.
LEMMA TurnsTells ==
  ASSUME Typed, NEW r \in Resumes, NEW e, Turns(r, e)
  PROVE  res' \in [Resumes -> Resuming] /\ Tells
<1>1. res \in [Resumes -> Resuming] BY Zenon DEF Typed
<1>2. res' \in [Resumes -> Resuming] /\ \A q \in Resumes : res'[q].wrote = res[q].wrote BY <1>1, Zenon DEF Turns
<1> QED BY <1>2, Zenon DEF Tells

\* A resume that ends keeps its count of events.
LEMMA OverTurns ==
  ASSUME Typed, NEW r \in Resumes, NEW at \in {"over", "stopped"}, Over(r, at)
  PROVE  \E e : Turns(r, e)
<1>1. res[r] \in Resuming /\ res \in [Resumes -> Resuming] BY Zenon DEF Typed
<1>2. res[r].wrote \in 0..2 BY <1>1 DEF Resuming
<1>3. Resumption(at, res[r].wrote) \in Resuming /\ Resumption(at, res[r].wrote).wrote = res[r].wrote
  BY <1>2 DEF Resumption, Resuming, Files
<1> QED BY <1>1, <1>3, Zenon DEF Over, Turns

\* The steps of a resume that leave the files alone.
LEMMA ResumeLooksSteps ==
  ASSUME Good, UNCHANGED load, NEW r \in Resumes, ResumeSees(r) \/ ResumeLocates(r) \/ ResumeRelocates(r) \/ ResumeStops(r)
  PROVE  Good'
<1>1. Typed /\ Good /\ res[r] \in Resuming /\ catalog \in Files /\ Shard \in Files /\ res \in [Resumes -> Resuming]
  BY Zenon DEF Good, Invariant, Typed, Files
<1> USE <1>1
<1>2. UNCHANGED <<con, catalog, locked, files>>
  BY Zenon DEF ResumeSees, ResumeLocates, ResumeRelocates, ResumeStops, Busy
<1>3. ASSUME NEW e, Turns(r, e) PROVE Good' BY <1>2, <1>3, TurnsTells, GrowsOne, Zenon
<1>4. CASE ResumeSees(r)
  <2> DEFINE e == [res[r] EXCEPT !.cached = TRUE]
  <2>1. e \in Resuming /\ e.wrote = res[r].wrote BY Zenon DEF Resuming
  <2>2. res' = [res EXCEPT ![r] = e] BY <1>4, Zenon DEF ResumeSees
  <2> QED BY <1>3, <2>1, <2>2, Zenon DEF Turns
<1>5. CASE ResumeLocates(r)
  <2> DEFINE to == IF res[r].at = "idle" THEN "taking" ELSE "writing"
             e  == [res[r] EXCEPT !.at = to, !.file = Located(res[r]), !.cached = Located(res[r]) = Shard]
  <2>1. Located(res[r]) \in Files BY Zenon DEF Located
  <2>2. e \in Resuming /\ e.wrote = res[r].wrote BY <2>1, Zenon DEF Resuming
  <2>3. res' = [res EXCEPT ![r] = e] BY <1>5, Zenon DEF ResumeLocates
  <2> QED BY <1>3, <2>2, <2>3, Zenon DEF Turns
<1>6. CASE ResumeRelocates(r)
  <2> DEFINE e == [res[r] EXCEPT !.at = "again", !.file = catalog, !.cached = catalog = Shard]
  <2>1. CASE Over(r, "over") BY <1>3, <2>1, OverTurns, Zenon
  <2>2. CASE res' = [res EXCEPT ![r] = e]
    <3>1. e \in Resuming /\ e.wrote = res[r].wrote BY Zenon DEF Resuming
    <3> QED BY <1>3, <2>2, <3>1, Zenon DEF Turns
  <2> QED BY <1>6, <2>1, <2>2, Zenon DEF ResumeRelocates
<1>7. CASE ResumeStops(r) BY <1>3, <1>7, OverTurns, Zenon DEF ResumeStops
<1> QED BY <1>4, <1>5, <1>6, <1>7, Zenon

\* takeoverExpired by a resume.
LEMMA ResumeTakesStep ==
  ASSUME Good, UNCHANGED load, NEW r \in Resumes, ResumeTakes(r)
  PROVE  Good'
<1>1. Typed /\ Good /\ res[r] \in Resuming /\ res \in [Resumes -> Resuming] BY Zenon DEF Good, Invariant, Typed
<1> USE <1>1
<1>2. PICK f \in Files : f = res[r].file BY Zenon DEF Resuming
<1> DEFINE next == lease[f].epoch + 1
           row == [holder |-> r, epoch |-> next, stale |-> FALSE]
           e == [res[r] EXCEPT !.at = "leased", !.epoch = next]
<1>3. f \in Files /\ lease[f].epoch \in Nat /\ log[f] \in Seq(Event) BY <1>2, LeaseTyped, Zenon
<1>4. UNCHANGED <<con, catalog, locked>> BY Zenon DEF ResumeTakes, Busy
<1>5. ASSUME NEW d, Turns(r, d), UNCHANGED files PROVE Good' BY <1>4, <1>5, TurnsTells, GrowsOne, Zenon
<1>6. CASE Over(r, "over") /\ UNCHANGED files BY <1>5, <1>6, OverTurns, Zenon
<1>7. CASE res' = [res EXCEPT ![r].at = "missed"] /\ UNCHANGED files
  <2> DEFINE d == [res[r] EXCEPT !.at = "missed"]
  <2>1. d \in Resuming /\ d.wrote = res[r].wrote BY Zenon DEF Resuming
  <2>2. res' = [res EXCEPT ![r] = d] BY <1>7, Zenon
  <2> QED BY <1>5, <1>7, <2>1, <2>2, Zenon DEF Turns
<1>8. CASE /\ Unlocked(f) /\ log[f] # NoRun /\ Set(f, log[f], row)
           /\ res' = [res EXCEPT ![r].at = "leased", ![r].epoch = next]
  <2>1. next \in Nat /\ lease[f].epoch < next BY <1>3
  <2>2. row \in Lease /\ row.holder = r /\ row.epoch = next BY <2>1, Zenon DEF Lease
  <2>3. e \in Resuming /\ e.wrote = res[r].wrote BY <2>1, Zenon DEF Resuming
  <2>4. res' = [res EXCEPT ![r] = e] BY <1>8, Zenon
  <2> HIDE DEF row, e, next
  <2>5. Touches(f) /\ log'[f] = log[f] /\ lease'[f] = row BY <1>3, <1>8, <2>2, SetMeans, Zenon DEF Touches, Changes
  <2> USE <2>5
  <2>6. res' \in [Resumes -> Resuming] /\ Tells BY <2>3, <2>4, TurnsTells, Zenon DEF Turns
  <2>7. holdsSnapshot(log[f], log'[f]) BY <1>3, SnapshotFacts, Zenon
  <2>8. Grows(f) BY <1>8, <2>2, <2>7, Zenon DEF Grows, Unlocked
  <2>9. ASSUME ~load.overlap PROVE Ranks(f)
    <3>1. Ranked(f) /\ Ordered(log[f]) BY <1>2, <2>9, Zenon DEF Good, AloneInv, Alone, Epochs
    <3>2. ASSUME NEW i \in DOMAIN log[f] PROVE log[f][i].epoch <= next /\ log[f][i].epoch # next
      <4>1. log[f][i].epoch \in Nat BY <1>3, EventEpoch, Zenon
      <4>2. log[f][i].epoch <= lease[f].epoch BY <3>1, Zenon DEF Ranked
      <4> QED BY <1>3, <2>1, <4>1, <4>2
    <3>3. Ranked(f)' BY <2>2, <3>2, Zenon DEF Ranked
    <3>4. Ordered(log[f])' BY <3>1, Zenon
    <3> QED BY <3>3, <3>4, Zenon DEF Ranks
  <2> QED BY <1>2, <1>4, <2>6, <2>8, <2>9, GrowsOne, Zenon
<1> QED BY <1>2, <1>6, <1>7, <1>8, Zenon DEF ResumeTakes

\* append and release by the resume that holds the lease.
LEMMA ResumeWritesStep ==
  ASSUME Good, UNCHANGED load, NEW r \in Resumes, ResumeWrites(r)
  PROVE  Good'
<1>1. Typed /\ Good /\ res[r] \in Resuming /\ res \in [Resumes -> Resuming] BY Zenon DEF Good, Invariant, Typed
<1>2. PICK f \in Files, n \in 0..2, k \in Nat : f = res[r].file /\ n = res[r].wrote /\ k = res[r].epoch BY <1>1, Zenon DEF Resuming
<1>3. PICK event : event = [by |-> r, body |-> Bodies[n + 1], epoch |-> k] BY Zenon
<1> DEFINE holds == lease[f].holder = r /\ lease[f].epoch = k
<1>4. f \in Files /\ lease[f].epoch \in Nat /\ log[f] \in Seq(Event) /\ lease[f] \in Lease BY <1>1, <1>2, LeaseTyped, Zenon
<1>5. UNCHANGED <<con, catalog, locked>> /\ Unlocked(f) BY <1>2, Zenon DEF ResumeWrites, Busy
<1>6. CASE Over(r, "over") /\ UNCHANGED files BY <1>1, <1>5, <1>6, OverTurns, TurnsTells, GrowsOne, Zenon
<1>7. CASE /\ holds /\ n < Len(Bodies) /\ Set(f, Append(log[f], event), lease[f])
           /\ res' = [res EXCEPT ![r].at = "leased", ![r].wrote = @ + 1]
  <2> DEFINE e == [res[r] EXCEPT !.at = "leased", !.wrote = n + 1]
  <2>1. n \in {0, 1} /\ n + 1 \in 0..2 /\ Bodies[n + 1] \in {"running", "done"} BY <1>2, <1>7 DEF Bodies
  <2>2. event \in Event /\ event.by = r /\ event.body = Bodies[n + 1] /\ event.epoch = k BY <1>3, <2>1, Zenon DEF Event
  <2>3. e \in Resuming /\ e.wrote = n + 1 BY <1>1, <1>2, <2>1, Zenon DEF Resuming
  <2>4. res' = [res EXCEPT ![r] = e] BY <1>1, <1>2, <1>7, Zenon
  <2>5. \A i \in 1..(n + 1) : i \in 1..n \/ i = n + 1 BY <1>2
  <2>6. /\ Append(log[f], event) \in Seq(Event) /\ Append(log[f], event) # NoRun
        /\ Len(log[f]) + 1 \in DOMAIN Append(log[f], event) /\ Append(log[f], event)[Len(log[f]) + 1] = event
        /\ \A i \in DOMAIN Append(log[f], event) : i = Len(log[f]) + 1 \/ (i \in DOMAIN log[f] /\ Append(log[f], event)[i] = log[f][i])
        /\ \A i \in DOMAIN Append(log[f], event) : ~(Len(log[f]) + 1 < i)
    BY <1>4, <2>2 DEF NoRun
  <2>7. holdsSnapshot(log[f], Append(log[f], event)) BY <1>4, <2>2, SnapshotFacts, Zenon
  <2> DEFINE more == Append(log[f], event)
             end  == Len(log[f]) + 1
  <2>8. holds BY <1>7, Zenon
  <2>9. Set(f, more, lease[f]) BY <1>7, Zenon
  <2> HIDE DEF more, end, e
  <2>10. Touches(f) /\ log'[f] = more /\ lease'[f] = lease[f] BY <1>1, <1>2, <1>4, <1>5, <2>6, <2>9, SetMeans, Zenon DEF Touches, Changes, more
  <2>11. Resumed(f) BY <2>8, Zenon DEF Resumed
  <2>12. Grows(f) BY <1>5, <2>6, <2>7, <2>10, <2>11, Zenon DEF Grows, Unlocked, more
  <2>13. Kept(r, Bodies[n + 1])'
    <3>1. end \in DOMAIN log'[f] /\ log'[f][end] = event BY <2>6, <2>10, Zenon DEF more, end
    <3>2. log'[f][end].by = r /\ log'[f][end].body = Bodies[n + 1] BY <2>2, <3>1, Zenon
    <3> QED BY <1>4, <3>1, <3>2, Zenon DEF Kept
  <2>14. res' \in [Resumes -> Resuming] BY <1>1, <2>3, <2>4, Zenon
  <2>15. Tells
    <3> SUFFICES ASSUME NEW q \in Resumes, NEW i \in 1..res'[q].wrote PROVE i \in 1..res[q].wrote \/ Kept(q, Bodies[i])' BY Zenon DEF Tells
    <3>1. CASE q = r BY <1>1, <1>2, <2>3, <2>4, <2>5, <2>13, <3>1, Zenon
    <3>2. CASE q # r BY <1>1, <2>4, <3>2, Zenon
    <3> QED BY <3>1, <3>2, Zenon
  <2>16. ASSUME ~load.overlap PROVE Ranks(f)
    <3>1. Ranked(f) /\ Ordered(log[f]) BY <1>1, <1>2, <2>16, Zenon DEF Good, AloneInv, Alone, Epochs
    <3>2. event.epoch = lease[f].epoch /\ event.by = lease[f].holder /\ event.epoch <= lease[f].epoch BY <1>4, <2>2, <2>8
    <3>3. \A i \in DOMAIN more : (i = end /\ more[i] = event) \/ (i \in DOMAIN log[f] /\ more[i] = log[f][i]) BY <2>6, Zenon DEF more, end
    <3>4. Ranked(f)'
      <4> SUFFICES ASSUME NEW i \in DOMAIN more
                   PROVE  more[i].epoch <= lease[f].epoch /\ (more[i].epoch = lease[f].epoch => more[i].by = lease[f].holder)
        BY <2>10, Zenon DEF Ranked
      <4>1. CASE more[i] = event BY <3>2, <4>1, Zenon
      <4>2. CASE i \in DOMAIN log[f] /\ more[i] = log[f][i] BY <2>11, <3>1, <4>2, Zenon DEF Ranked
      <4> QED BY <3>3, <4>1, <4>2, Zenon
    <3>5. Ordered(more)
      <4> SUFFICES ASSUME NEW i \in DOMAIN more, NEW j \in DOMAIN more, i < j
                   PROVE  more[i].epoch <= more[j].epoch /\ (more[i].epoch = more[j].epoch => more[i].by = more[j].by)
        BY Zenon DEF Ordered
      <4>1. i # end BY <2>6, Zenon DEF more, end
      <4>2. i \in DOMAIN log[f] /\ more[i] = log[f][i] BY <3>3, <4>1, Zenon
      <4>3. CASE j = end /\ more[j] = event BY <2>11, <3>1, <3>2, <4>2, <4>3, Zenon DEF Ranked
      <4>4. CASE j \in DOMAIN log[f] /\ more[j] = log[f][j] BY <3>1, <4>2, <4>4, Zenon DEF Ordered
      <4> QED BY <3>3, <4>3, <4>4, Zenon
    <3>6. Ordered(log[f])' BY <2>10, <3>5, Zenon
    <3> QED BY <3>4, <3>6, Zenon DEF Ranks
  <2> QED BY <1>1, <1>2, <1>5, <2>10, <2>12, <2>14, <2>15, <2>16, GrowsOne, Zenon
<1>8. CASE holds /\ Set(f, log[f], [lease[f] EXCEPT !.holder = Nobody, !.stale = FALSE]) /\ Over(r, "over")
  <2> DEFINE row == [lease[f] EXCEPT !.holder = Nobody, !.stale = FALSE]
  <2>1. row \in Lease /\ row.holder = Nobody /\ row.epoch = lease[f].epoch BY <1>4, Zenon DEF Lease
  <2>2. Set(f, log[f], row) /\ Over(r, "over") BY <1>8, Zenon
  <2> HIDE DEF row
  <2>3. Touches(f) /\ log'[f] = log[f] /\ lease'[f] = row BY <1>1, <1>4, <1>5, <2>1, <2>2, SetMeans, Zenon DEF Touches, Changes
  <2>4. res' \in [Resumes -> Resuming] /\ Tells BY <1>1, <2>2, OverTurns, TurnsTells, Zenon
  <2>5. holdsSnapshot(log[f], log'[f]) BY <1>4, <2>3, SnapshotFacts, Zenon
  <2>6. Grows(f) BY <1>5, <2>1, <2>3, <2>5, Zenon DEF Grows, Unlocked
  <2>7. ASSUME ~load.overlap PROVE Ranks(f)
    <3>1. Ranked(f) /\ Ordered(log[f]) BY <1>1, <1>2, <2>7, Zenon DEF Good, AloneInv, Alone, Epochs
    <3>2. ~Resumed(f)' BY <2>1, <2>3, ConsolidationAssumption, Zenon DEF Resumed
    <3>3. Ranked(f)' BY <2>1, <2>3, <3>1, <3>2, Zenon DEF Ranked
    <3>4. Ordered(log[f])' BY <2>3, <3>1, Zenon
    <3> QED BY <3>3, <3>4, Zenon DEF Ranks
  <2> QED BY <1>1, <1>2, <1>5, <2>3, <2>4, <2>6, <2>7, GrowsOne, Zenon
<1> QED BY <1>2, <1>3, <1>6, <1>7, <1>8, Zenon DEF ResumeWrites

\* A lease that expires stays with its holder.
LEMMA ExpireStep ==
  ASSUME Good, UNCHANGED load, NEW f \in Files, Expire(f)
  PROVE  Good'
<1>1. Typed /\ Rows /\ lease \in [Files -> Lease] /\ res \in [Resumes -> Resuming] BY Zenon DEF Good, Invariant, Typed
<1>2. UNCHANGED <<con, catalog, locked, res, log>> /\ lease' = [lease EXCEPT ![f].stale = TRUE] BY Zenon DEF Expire, Still
<1> USE <1>2
<1>3. [lease[f] EXCEPT !.stale = TRUE] \in Lease BY <1>1, Zenon DEF Lease
<1>4. lease' \in [Files -> Lease] BY <1>1, <1>3, Zenon
<1>5. \A g \in Files : lease'[g].holder = lease[g].holder /\ lease'[g].epoch = lease[g].epoch
  BY <1>1, Zenon DEF Lease
<1>6. ASSUME NEW g \in Files PROVE Grows(g)
  <2>1. log'[g] = log[g] /\ log[g] \in Seq(Event) BY <1>1, Zenon DEF Typed
  <2>2. holdsSnapshot(log[g], log'[g]) BY <2>1, SnapshotFacts, Zenon
  <2> QED BY <1>1, <1>5, <2>1, <2>2, Zenon DEF Grows, Rows
<1>7. ASSUME ~load.overlap, NEW g \in Files PROVE Ranks(g)
  <2>1. Ranked(g) /\ Ordered(log[g]) BY <1>7, Zenon DEF Good, AloneInv, Alone, Epochs
  <2>2. Ranked(g)' BY <1>5, <2>1, Zenon DEF Ranked, Resumed
  <2>3. Ordered(log[g])' BY <2>1, Zenon
  <2> QED BY <2>2, <2>3, Zenon DEF Ranks
<1>8. Tells BY Zenon DEF Tells
<1>9. log' \in [Files -> Seq(Event)] /\ res' \in [Resumes -> Resuming] BY <1>1, Zenon DEF Typed
<1> QED BY <1>4, <1>6, <1>7, <1>8, <1>9, GrowsGood, Zenon

\* Reads change nothing here.
LEMMA StillGood ==
  ASSUME Good, UNCHANGED <<files, locked, catalog, con, res, load>>
  PROVE  Good'
<1>1. res \in [Resumes -> Resuming] BY Zenon DEF Good, Invariant, Typed
<1>2. Tells BY Zenon DEF Tells
<1> QED BY <1>1, <1>2, GrowsOne, Zenon

-----------------------------------------------------------------------------
(* The theorems *)

\* The run is in its journal, nobody holds it and nothing runs.
LEMMA InitGood ==
  ASSUME Init
  PROVE  Good
<1>1. Journal \in Files /\ Shard \in Files /\ Journal # Shard /\ \A f \in Files : f = Journal \/ f = Shard
  BY Zenon DEF Files, Journal, Shard
<1> USE <1>1
<1>2. First \in Event /\ First.epoch = 1 /\ NoRun \in Seq(Event) /\ Absent \in Lease /\ [Absent EXCEPT !.epoch = 1] \in Lease
  <2>1. First \in Event /\ First.epoch = 1 BY DEF First, Event
  <2>2. Absent \in Lease BY DEF Absent, Lease
  <2>3. [Absent EXCEPT !.epoch = 1] \in Lease BY <2>2 DEF Lease
  <2>4. NoRun \in Seq(Event) BY DEF NoRun
  <2> QED BY <2>1, <2>2, <2>3, <2>4, Zenon
<1>3. Absent.holder = Nobody /\ [Absent EXCEPT !.epoch = 1].holder = Nobody /\ [Absent EXCEPT !.epoch = 1].epoch = 1 BY DEF Absent
<1>4. <<First>> \in Seq(Event) /\ <<First>> # NoRun /\ DOMAIN <<First>> = {1} /\ <<First>>[1] = First /\ DOMAIN NoRun = {}
  BY <1>2 DEF NoRun
<1>5. \A f \in Files : log[f] = IF f = Journal THEN <<First>> ELSE NoRun BY Zenon DEF Init
<1>6. log[Journal] = <<First>> /\ log[Shard] = NoRun BY <1>5, Zenon
<1>7. /\ lease[Journal] = [Absent EXCEPT !.epoch = 1] /\ lease[Shard] = Absent
      /\ lease[Journal].epoch = 1 /\ \A f \in Files : lease[f].holder = Nobody
  <2>1. \A f \in Files : lease[f] = IF f = Journal THEN [Absent EXCEPT !.epoch = 1] ELSE Absent BY Zenon DEF Init
  <2>2. lease[Journal] = [Absent EXCEPT !.epoch = 1] /\ lease[Shard] = Absent BY <2>1, Zenon
  <2> QED BY <1>3, <2>2, Zenon
<1>8. \A c \in Consolidations : con[c] \in Exec /\ con[c].at = "start" /\ con[c].phase = "finish" /\ con[c].as = c
  <2>1. "start" \in States BY Zenon DEF States
  <2> SUFFICES ASSUME NEW c \in Consolidations
               PROVE  con[c] \in Exec /\ con[c].at = "start" /\ con[c].phase = "finish" /\ con[c].as = c
    BY Zenon
  <2>2. con[c] = Execution(c, "start") BY Zenon DEF Init
  <2>3. /\ Execution(c, "start") \in Exec /\ Execution(c, "start").at = "start"
        /\ Execution(c, "start").phase = "finish" /\ Execution(c, "start").as = c
    BY <2>1, ExecutionTyped, Zenon
  <2> QED BY <2>2, <2>3, Zenon
<1>9. \A r \in Resumes : res[r] \in Resuming /\ res[r].wrote = 0
  <2>1. Resumption("idle", 0) \in Resuming /\ Resumption("idle", 0).wrote = 0 BY DEF Resumption, Resuming
  <2> QED BY <2>1, Zenon DEF Init
<1>10. Typed
  <2>1. log \in [Files -> Seq(Event)] BY <1>2, <1>4, Zenon DEF Init
  <2>2. lease \in [Files -> Lease] BY <1>2, Zenon DEF Init
  <2>3. locked \in [Files -> Consolidations \cup {Nobody}] BY Zenon DEF Init
  <2>4. con \in [Consolidations -> Exec] BY <1>8, Zenon DEF Init
  <2>5. res \in [Resumes -> Resuming] BY <1>9, Zenon DEF Init
  <2>6. catalog \in Files BY Zenon DEF Init
  <2> QED BY <2>1, <2>2, <2>3, <2>4, <2>5, <2>6, Zenon DEF Typed
<1>11. Locks
  <2>1. \A f \in Files : locked[f] = Nobody BY Zenon DEF Init
  <2> QED BY <1>8, <2>1, ConsolidationAssumption, Zenon DEF Locks, Bringing, Returning
<1>12. Rows /\ Snapshots /\ Dropping BY <1>7, <1>8, Zenon DEF Rows, Snapshots, Dropping
<1>13. One BY <1>8, Zenon DEF One, Running
<1>14. log[catalog] # NoRun BY <1>4, <1>6, Zenon DEF Init
<1>15. ASSUME NEW c \in Consolidations PROVE Site(c)
  <2>1. con[c].at = "start" /\ con[c].phase = "finish" /\ con[c].as = c BY <1>8, Zenon
  <2> USE <2>1
  <2>2. Phased(c) BY Zenon DEF Phased, Straying, Moving, Settling
  <2>3. Pointed(c) BY Zenon DEF Pointed, Straying, Moving, Settling, Backing
  <2>4. Held(c) BY Zenon DEF Held, Bringing, Returning
  <2>5. Covered(c) BY Zenon DEF Covered
  <2>6. \A f \in Files : lease[f].holder # c BY <1>7, ConsolidationAssumption, Zenon
  <2>7. \A d \in Consolidations : con[d].as = c => d = c BY <1>8, Zenon
  <2>8. Own(c) BY <2>6, <2>7, Zenon DEF Own, Straying, Backing, Running
  <2> QED BY <2>2, <2>3, <2>4, <2>5, <2>8, Zenon DEF Site
<1>16. LosesNothing
  <2>1. Kept(First.by, First.body) BY <1>4, <1>6 DEF Kept
  <2>2. \A r \in Resumes : 1..res[r].wrote = {} BY <1>9
  <2> QED BY <2>1, <2>2, Zenon DEF LosesNothing
<1>17. Epochs
  <2>1. \A f \in Files : DOMAIN log[f] = {} \/ (f = Journal /\ log[f] = <<First>>) BY <1>4, <1>6, Zenon
  <2>2. \A f \in Files : ~Resumed(f) BY <1>7, ConsolidationAssumption, Zenon DEF Resumed
  <2>3. ASSUME NEW f \in Files PROVE Ranked(f)
    <3>1. CASE DOMAIN log[f] = {} BY <3>1, Zenon DEF Ranked
    <3>2. CASE f = Journal /\ log[f] = <<First>>
      <4>1. \A i \in DOMAIN log[f] : log[f][i].epoch = 1 BY <1>2, <1>4, <3>2, Zenon
      <4>2. lease[f].epoch = 1 BY <1>7, <3>2, Zenon
      <4>3. \A i \in DOMAIN log[f] : log[f][i].epoch <= lease[f].epoch
        <5>1. 1 <= 1 OBVIOUS
        <5> QED BY <4>1, <4>2, <5>1, Zenon
      <4> QED BY <2>2, <4>3, Zenon DEF Ranked
    <3> QED BY <2>1, <3>1, <3>2, Zenon
  <2>4. ASSUME NEW f \in Files PROVE Ordered(log[f])
    <3>1. CASE DOMAIN log[f] = {} BY <3>1, Zenon DEF Ordered
    <3>2. CASE f = Journal /\ log[f] = <<First>>
      <4>1. \A i, k \in DOMAIN log[f] : ~(i < k) BY <1>4, <3>2
      <4> QED BY <4>1, Zenon DEF Ordered
    <3> QED BY <2>1, <3>1, <3>2, Zenon
  <2>5. \A c \in Consolidations : con[c].at # "copy" BY <1>8, Zenon
  <2> QED BY <2>3, <2>4, <2>5, Zenon DEF Epochs
<1> QED BY <1>10, <1>11, <1>12, <1>13, <1>14, <1>15, <1>16, <1>17, Zenon DEF Good, Invariant, AloneInv, Alone

\* What is true whatever overlaps, and what is when nothing does, always holds.
LEMMA ConsolidationInvariant == Spec => []Good
<1>1. Init => Good BY InitGood, Zenon
<1>2. ASSUME Good, [Next]_vars PROVE Good'
  <2>1. CASE UNCHANGED vars BY <1>2, <2>1, StillGood, Zenon DEF vars, files
  <2>2. CASE Next
    <3>1. UNCHANGED load BY <2>2, Zenon DEF Next
    <3>2. ASSUME NEW c \in Consolidations, Consolidate(c) PROVE Good' BY <1>2, <3>1, <3>2, ConsolidateGood, Zenon
    <3>3. ASSUME NEW r \in Resumes, Resume(r) PROVE Good'
      BY <1>2, <3>1, <3>3, ResumeLooksSteps, ResumeTakesStep, ResumeWritesStep, Zenon DEF Resume
    <3>4. ASSUME NEW f \in Files, Expire(f) PROVE Good' BY <1>2, <3>1, <3>4, ExpireStep, Zenon
    <3>5. ASSUME NEW x \in Readers, ReadEntries(x) PROVE Good'
      BY <1>2, <3>1, <3>5, StillGood, Zenon DEF ReadEntries, ReadSees, ReadLocates, ReadPages, ReadRelocates, Calm
    <3> QED BY <2>2, <3>2, <3>3, <3>4, <3>5, Zenon DEF Next, Step
  <2> QED BY <1>2, <2>1, <2>2, Zenon
<1> QED BY <1>1, <1>2, PTL DEF Spec

\* Wherever a consolidation that has the store to itself is interrupted, the
\* file the catalog names holds the run and its fencing epochs never go down
\* and name one holder each; locks and lease rows are in order whatever
\* overlaps (consolidateJournalStore).
THEOREM MovesAreSound == Spec => []MovesSound
<1>1. ASSUME Good PROVE MovesSound
  <2>1. Typed /\ Locks /\ Rows BY <1>1, Zenon DEF Good, Invariant
  <2>2. ASSUME NEW c \in Consolidations PROVE con[c].at \in States BY <2>1, Zenon DEF Typed, Exec
  <2>3. ASSUME NEW f \in Files, locked[f] # Nobody PROVE Running(locked[f])
    <3>1. locked[f] \in Consolidations BY <2>1, <2>3, Zenon DEF Typed
    <3>2. con[locked[f]].at \in Bringing \cup Returning BY <2>1, <3>1, Zenon DEF Locks, Files
    <3> QED BY <3>2, Zenon DEF Running, Bringing, Returning
  <2>4. ConsolidationTypeOK BY <2>1, <2>2, <2>3, Zenon DEF ConsolidationTypeOK, Rows, Typed
  <2>5. CatalogHoldsRun BY <1>1, Zenon DEF Good, AloneInv, Alone, CatalogHoldsRun
  <2>6. EpochsSurviveMoves BY <1>1, Zenon DEF Good, AloneInv, Alone, Epochs, Ordered, EpochsSurviveMoves
  <2> QED BY <2>4, <2>5, <2>6, Zenon DEF MovesSound
<1> QED BY <1>1, ConsolidationInvariant, PTL

\* No committed event of the run is lost while consolidations do not overlap:
\* moveRun, settleMove and returnToSource delete a copy only when the other
\* file has all of it, whatever stops and whatever resumes write between their
\* steps.
THEOREM MovesKeepEvents == Spec => []EventsKept
<1>1. ASSUME Good PROVE EventsKept BY <1>1, Zenon DEF Good, AloneInv, Alone, EventsKept
<1> QED BY <1>1, ConsolidationInvariant, PTL

\* What a transaction of a consolidation does to a file a resume holds: nothing.
Spares == \A g \in Files : Resumed(g) => lease'[g] = lease[g] /\ log'[g] = log[g]

\* The transactions of a consolidation leave a file that a resume holds alone.
LEMMA TransactionsSpare ==
  ASSUME Typed, NEW f \in Files
  PROVE  /\ UNCHANGED files => Spares
         /\ \A events, row : Set(f, events, row) /\ ~Resumed(f) => Spares
         /\ \A holder \in Consolidations : removeRun(f, holder) => Spares
         /\ \A holders \in SUBSET Consolidations : Unfenced(f, holders) => Spares
<1>1. lease \in [Files -> Lease] /\ log \in [Files -> Seq(Event)] BY Zenon DEF Typed
<1>2. UNCHANGED files => Spares BY Zenon DEF Spares, files
<1>3. ASSUME NEW events, NEW row, Set(f, events, row), ~Resumed(f) PROVE Spares BY <1>1, <1>3, Zenon DEF Spares, Set
<1>4. ASSUME NEW holder \in Consolidations, removeRun(f, holder) PROVE Spares
  <2>1. CASE lease[f].holder = holder
    <3>1. ~Resumed(f) BY <2>1, ConsolidationAssumption, Zenon DEF Resumed
    <3> QED BY <1>3, <1>4, <2>1, <3>1, Zenon DEF removeRun
  <2>2. CASE lease[f].holder # holder BY <1>2, <1>4, <2>2, Zenon DEF removeRun
  <2> QED BY <2>1, <2>2, Zenon
<1>5. ASSUME NEW holders \in SUBSET Consolidations, Unfenced(f, holders) PROVE Spares
  <2> SUFFICES ASSUME NEW g \in Files, Resumed(g) PROVE lease'[g] = lease[g] /\ log'[g] = log[g] BY Zenon DEF Spares
  <2>1. lease[g].holder \notin holders BY ConsolidationAssumption, Zenon DEF Resumed
  <2>2. UNCHANGED log /\ lease'[g] = lease[g]
    <3>1. CASE g = f BY <1>1, <1>5, <2>1, <3>1, Zenon DEF Unfenced
    <3>2. CASE g # f BY <1>1, <1>5, <3>2, Zenon DEF Unfenced
    <3> QED BY <1>5, <3>1, <3>2, Zenon DEF Unfenced
  <2> QED BY <2>2, Zenon
<1> QED BY <1>2, <1>3, <1>4, <1>5, Zenon

\* So does every step of a consolidation.
LEMMA ConsolidateSpares ==
  ASSUME Good, NEW c \in Consolidations, Consolidate(c)
  PROVE  Spares
<1>1. Typed /\ Dropping /\ Rows BY Zenon DEF Good, Invariant
<1> USE <1>1
<1>2. Journal \in Files /\ Shard \in Files /\ con[c].as \in Consolidations BY Zenon DEF Files, Typed, Exec
<1> USE <1>2
<1>3. UNCHANGED files => Spares BY TransactionsSpare, Zenon
<1> USE <1>3
<1>4. ASSUME NEW f \in Files, staleFence(f) \/ log[f] = NoRun, NEW events, NEW row, Set(f, events, row) PROVE Spares
  <2>1. ~Resumed(f) BY <1>4, LeaseTyped, Zenon DEF staleFence, Rows
  <2> QED BY <1>4, <2>1, TransactionsSpare, Zenon
<1>5. CASE fence(c)
  <2>1. CASE UNCHANGED files BY <2>1, Zenon
  <2>2. CASE ~Resumed(Journal) /\ \E row : Set(Journal, log[Journal], row) BY <2>2, TransactionsSpare, Zenon
  <2> QED BY <1>5, <2>1, <2>2, Zenon DEF fence
<1>6. CASE BackDrops(c)
  <2>1. ~Resumed(Shard) BY <1>6, Zenon DEF BackDrops, Dropping
  <2> QED BY <1>6, <2>1, TransactionsSpare, Zenon DEF BackDrops
<1>7. CASE ReturnFences(c) BY <1>4, <1>7, Zenon DEF ReturnFences, takeOverFence
<1>8. CASE UndoFences(c) BY <1>4, <1>8, Zenon DEF UndoFences, takeOverFence
<1>9. CASE MoveCopies(c) BY <1>4, <1>9, Zenon DEF MoveCopies, copy
<1>10. CASE SettleCopies(c) BY <1>4, <1>10, Zenon DEF SettleCopies, copy
<1>11. CASE AbandonDrops(c) BY <1>11, TransactionsSpare, Zenon DEF AbandonDrops
<1>12. CASE MoveDiscards(c) BY <1>12, TransactionsSpare, Zenon DEF MoveDiscards
<1>13. CASE SettleRemoves(c) BY <1>13, TransactionsSpare, Zenon DEF SettleRemoves
<1>14. CASE MoveUnfences(c)
  <2>1. {c} \in SUBSET Consolidations BY Zenon
  <2> QED BY <1>14, <2>1, TransactionsSpare, Zenon DEF MoveUnfences, unfence
<1>15. CASE SettleLifts(c)
  <2>1. Consolidations \in SUBSET Consolidations BY Zenon
  <2> QED BY <1>15, <2>1, TransactionsSpare, Zenon DEF SettleLifts, liftFence
<1>16. CASE FinishLooks(c) \/ FinishLocates(c) \/ ReturnLists(c) \/ ReturnFinds(c) \/ ReturnLocates(c) \/ ReturnReads(c)
            \/ ReturnCompares(c) \/ BringLocks(c) \/ BringLooks(c) \/ BringMoves(c) \/ MoveLists(c) \/ MoveChecks(c)
  BY <1>16, Zenon DEF FinishLooks, FinishLocates, ReturnLists, ReturnFinds, ReturnLocates, ReturnReads, ReturnCompares,
                           BringLocks, BringLooks, BringMoves, MoveLists, MoveChecks
<1>17. CASE AbandonLooks(c) \/ AbandonLooksAgain(c) \/ MoveRepoints(c) \/ MoveLooks(c) \/ SettleReads(c) \/ SettleCompares(c)
            \/ SettleComparesCopy(c) \/ SettleLooks(c) \/ SettleLooksThere(c) \/ SettleDecides(c) \/ UndoReads(c)
  BY <1>17, Zenon DEF AbandonLooks, AbandonLooksAgain, MoveRepoints, MoveLooks, SettleReads, SettleCompares,
                           SettleComparesCopy, SettleLooks, SettleLooksThere, SettleDecides, UndoReads
<1>18. CASE UndoCompares(c) \/ BackMoves(c) \/ BackLocks(c) \/ BackReads(c) \/ BackLooks(c) \/ BackReturns(c)
            \/ Unavailable(c) \/ Stop(c)
  BY <1>18, Zenon DEF UndoCompares, BackMoves, BackLocks, BackReads, BackLooks, BackReturns, Unavailable, Stop
<1> QED BY <1>5, <1>6, <1>7, <1>8, <1>9, <1>10, <1>11, <1>12, <1>13, <1>14, <1>15, <1>16, <1>17, <1>18, Zenon DEF Consolidate

\* "A lease a resume holds is never touched", whatever overlaps: fence,
\* takeOverFence, copy, removeRun, liftFence and returnToSource leave the lease
\* and the events of a copy that a resume holds as they are.
THEOREM ConsolidationsSpareResumes == Spec => ResumeLeaseKept
<1> DEFINE Kind == \A f \in Files : Resumed(f) /\ con' # con =>
                     lease'[f].holder = lease[f].holder /\ lease'[f].epoch = lease[f].epoch /\ log'[f] = log[f]
<1>1. ASSUME Good, [Next]_vars PROVE [Kind]_vars
  <2>1. CASE con' = con BY <2>1, Zenon
  <2>2. CASE UNCHANGED vars BY <2>2, Zenon
  <2>3. CASE con' # con /\ Next
    <3>1. \A r \in Resumes : ~Resume(r)
      BY <2>3, Zenon DEF Resume, ResumeSees, ResumeLocates, ResumeTakes, ResumeRelocates, ResumeWrites, ResumeStops, Busy
    <3>2. \A f \in Files : ~Expire(f) BY <2>3, Zenon DEF Expire
    <3>3. \A x \in Readers : ~ReadEntries(x) BY <2>3, Zenon DEF ReadEntries, ReadSees, ReadLocates, ReadPages, ReadRelocates, Calm
    <3>4. \E c \in Consolidations : Consolidate(c) BY <2>3, <3>1, <3>2, <3>3, Zenon DEF Next, Step
    <3>5. Spares BY <1>1, <3>4, ConsolidateSpares, Zenon
    <3> QED BY <3>5, Zenon DEF Spares
  <2> QED BY <1>1, <2>1, <2>2, <2>3, Zenon
<1> QED BY <1>1, ConsolidationInvariant, PTL DEF Spec, ResumeLeaseKept
=============================================================================
