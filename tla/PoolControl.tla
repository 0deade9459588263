---------------------------- MODULE PoolControl -----------------------------
(***************************************************************************)
(* Pause, resume and quit of a pool: the control row of the root           *)
(* (SqlPoolQueue.setControl and control), its coordinator (control,        *)
(* publishControl and the workers' control, heartbeat, claim and           *)
(* controlled requests) and each worker's WorkerControl with the loop of   *)
(* runLocalWorker that reads it.                                           *)
(*                                                                         *)
(* The row is read for a worker's request in one step and the answer sent  *)
(* in a later one, and everything to a worker arrives in the order it was  *)
(* sent: a push can overtake the answer to an earlier read.                *)
(***************************************************************************)
EXTENDS Integers, Sequences, FiniteSets, SequencesExt

CONSTANTS
  Workers,
  MaxCalls,       \* bound: calls of control
  MaxOffers       \* bound: controls waiting when a heartbeat is sent

ASSUME ControlAssumption == MaxCalls \in Nat /\ MaxOffers \in Nat

States == {"running", "paused", "quit"}
Calls  == 1..MaxCalls
None   == "none"

VARIABLES
  row,            \* the control row: state and revision
  committed,      \* the revision of committedControl
  calls,          \* the calls of control: what each committed, and whether it published it
  ready,          \* readyWorkers
  acks,           \* controlAcks
  asked,          \* each worker's requests the coordinator has not answered
  inbox,          \* messages on their way to each worker
  loop,           \* where each worker's loop is
  applied,        \* each worker's WorkerControl: state and revision
  offers,         \* the controls each worker still has to apply, in order
  telling,        \* the worker's acknowledgement of the control it applied is in flight
  child           \* each worker's child: none, starting, going, held

coordinator == <<row, committed, calls, ready, acks>>
worker      == <<loop, applied, offers, telling, child>>
controlVars == <<coordinator, asked, inbox, worker>>

-----------------------------------------------------------------------------
\* prepare committed "running" before any worker started.
ControlInit ==
  /\ row = [state |-> "running", revision |-> 1]
  /\ committed = 1
  /\ calls = <<>>
  /\ ready = {} /\ acks = [w \in Workers |-> -1]
  /\ asked = [w \in Workers |-> {}]
  /\ inbox = [w \in Workers |-> <<>>]
  /\ loop = [w \in Workers |-> "booting"]
  /\ applied = [w \in Workers |-> [state |-> "running", revision |-> -1]]
  /\ offers = [w \in Workers |-> <<>>]
  /\ telling = [w \in Workers |-> FALSE]
  /\ child = [w \in Workers |-> None]

(* The coordinator *)

\* A variant that keeps the revision.
setControlKeepsRevision(s) ==
  row' = [state |-> s, revision |-> row.revision]

\* setControl: the revision counts the changes.
setControl(s) ==
  row' = [state |-> s, revision |-> row.revision + (IF row.state = s THEN 0 ELSE 1)]

\* A variant that counts the revision itself instead of reading it back.
controlCountsItself(s) ==
  /\ Len(calls) < MaxCalls
  /\ setControl(s)
  /\ calls' = Append(calls, [state |-> s, revision |-> row.revision + 1, published |-> FALSE])
  /\ UNCHANGED <<committed, ready, acks, asked, inbox, worker>>

\* A call of control commits.  Calls that wait for a late root commit in any order.
Control(s) ==
  /\ Len(calls) < MaxCalls
  /\ setControl(s)
  /\ calls' = Append(calls, [state |-> s, revision |-> row'.revision, published |-> FALSE])
  /\ UNCHANGED <<committed, ready, acks, asked, inbox, worker>>

\* publishControl: only a newer revision than the last one pushed, to the ready workers.
ControlPublishes(c) ==
  /\ c \in DOMAIN calls /\ ~calls[c].published
  /\ calls' = [calls EXCEPT ![c].published = TRUE]
  /\ IF calls[c].revision <= committed THEN UNCHANGED <<committed, inbox>>
     ELSE /\ committed' = calls[c].revision
          /\ inbox' = [w \in Workers |-> IF w \notin ready THEN inbox[w]
               ELSE Append(inbox[w], [kind |-> "push", state |-> calls[c].state, revision |-> calls[c].revision])]
  /\ UNCHANGED <<row, ready, acks, asked, worker>>

\* A worker is ready.
WorkerReady(w) ==
  /\ loop[w] = "booting"
  /\ ready' = ready \cup {w}
  /\ loop' = [loop EXCEPT ![w] = "idle"]
  /\ UNCHANGED <<row, committed, calls, acks, asked, inbox, applied, offers, telling, child>>

\* The coordinator answers a request with what it read; an acknowledgement is recorded.
Answers(w, kind) ==
  \E r \in asked[w] :
    /\ r.kind = kind
    /\ asked' = [asked EXCEPT ![w] = @ \ {r}]
    /\ inbox' = [inbox EXCEPT ![w] = Append(@, [kind |-> kind, state |-> r.state, revision |-> r.revision])]
    /\ acks' = IF kind = "controlled" /\ r.revision > acks[w] THEN [acks EXCEPT ![w] = r.revision] ELSE acks
    /\ UNCHANGED <<row, committed, calls, ready, worker>>

-----------------------------------------------------------------------------
(* A worker *)

\* A request reaches the coordinator, which reads the row for it: a claim is
\* granted only in state "running" (claim's transaction), the others are answered
\* with the row.
Ask(w, kind) ==
  asked' = [asked EXCEPT ![w] = @ \cup {[kind |-> kind, state |-> row.state, revision |-> row.revision]}]

\* An acknowledgement names the revision itself.
Tell(w, revision) ==
  asked' = [asked EXCEPT ![w] = @ \cup {[kind |-> "controlled", state |-> None, revision |-> revision]}]

\* The loop: observeControl, then claim; after a claim observeControl again, and
\* the last look at the control before the child starts.
NextRequest == [idle |-> "observe", claiming |-> "claim", holding |-> "observe", checking |-> "check"]

LoopAsks(w) ==
  /\ loop[w] \in DOMAIN NextRequest
  /\ Ask(w, NextRequest[loop[w]])
  /\ loop' = [loop EXCEPT ![w] = CASE @ = "idle" -> "observing" [] @ = "claiming" -> "claimed"
                                   [] @ = "holding" -> "confirming" [] @ = "checking" -> "checked"]
  /\ UNCHANGED <<coordinator, inbox, applied, offers, telling, child>>

\* The heartbeat of an attempt, one at a time.
Heartbeat(w) ==
  /\ child[w] # None /\ loop[w] # "gone" /\ Len(offers[w]) <= MaxOffers
  /\ ~\E r \in asked[w] : r.kind = "heartbeat"
  /\ ~\E i \in DOMAIN inbox[w] : inbox[w][i].kind = "heartbeat"
  /\ Ask(w, "heartbeat")
  /\ UNCHANGED <<coordinator, inbox, worker>>

Offer(w, m, observed) ==
  offers' = [offers EXCEPT ![w] = Append(@, [state |-> m.state, revision |-> m.revision, observed |-> observed])]

\* Where the loop goes once the control it observed was applied or refused, with
\* the worker's control in state s.
Observed(w, s) ==
  /\ offers' = [offers EXCEPT ![w] = Tail(@)]
  /\ loop' = [loop EXCEPT ![w] =
       CASE Head(offers[w]).observed /\ @ = "observing" -> IF s = "running" THEN "claiming" ELSE "idle"
         [] Head(offers[w]).observed /\ @ = "confirming" -> "checking"
         [] OTHER -> @]

\* The next message: a control is offered, whatever brought it; a claim's answer
\* starts an attempt or not; the last look starts the child by what the answer
\* says, unless a quit aborted the attempt; the answer to an acknowledgement ends
\* the application it belongs to.
Receive(w) ==
  /\ inbox[w] # <<>> /\ loop[w] # "gone"
  /\ inbox' = [inbox EXCEPT ![w] = Tail(@)]
  /\ LET m == Head(inbox[w])
     IN  \/ /\ m.kind \in {"push", "heartbeat", "observe"}
            /\ Offer(w, m, m.kind = "observe")
            /\ UNCHANGED <<loop, telling, child>>
         \/ /\ m.kind = "claim"
            /\ \/ /\ m.state = "running"
                  /\ loop' = [loop EXCEPT ![w] = "holding"]
                  /\ child' = [child EXCEPT ![w] = "starting"]
               \/ loop' = [loop EXCEPT ![w] = "idle"] /\ UNCHANGED child
            /\ UNCHANGED <<offers, telling>>
         \/ /\ m.kind = "check"
            /\ child' = [child EXCEPT ![w] = IF m.state = "running" /\ @ = "starting" THEN "going" ELSE @]
            /\ loop' = [loop EXCEPT ![w] = IF child[w] = None THEN "ending"
                                         ELSE IF m.state = "running" THEN "running" ELSE "checking"]
            /\ UNCHANGED <<offers, telling>>
         \/ /\ m.kind = "controlled" /\ loop[w] # "ending"
            /\ telling' = [telling EXCEPT ![w] = FALSE]
            /\ Observed(w, applied[w].state)
            /\ UNCHANGED child
         \/ /\ m.kind = "controlled" /\ loop[w] = "ending"
            /\ UNCHANGED <<loop, offers, telling, child>>
  /\ UNCHANGED <<coordinator, asked, applied>>

\* A variant that applies what arrives, however old it is.
newerAny(w, c) == TRUE

\* offer: one whose revision is not newer is ignored.
Newer(w, c) == c.revision > applied[w].revision

\* The apply handler: a pause or a resume reaches the child the worker runs; a
\* quit aborts the attempt.
ChildUnder(w, s) ==
  CASE s = "paused" /\ child[w] = "going" -> "held"
    [] s = "running" /\ child[w] = "held" -> "going"
    [] s = "quit" -> None
    [] OTHER -> child[w]

\* A variant that acknowledges what it is offered before it applies it.
applyTellsFirst(w) ==
  /\ offers[w] # <<>> /\ ~telling[w]
  /\ Tell(w, Head(offers[w]).revision)
  /\ telling' = [telling EXCEPT ![w] = TRUE]
  /\ UNCHANGED <<coordinator, inbox, loop, applied, offers, child>>

\* One application.  Its acknowledgement is answered before the next begins; an
\* attempt that a quit stops acknowledges it when it ended.
Apply(w) ==
  /\ offers[w] # <<>> /\ ~telling[w] /\ loop[w] # "gone"
  /\ LET c     == Head(offers[w])
         stops == c.state = "quit" /\ child[w] # None
     IN  IF ~Newer(w, c)
           THEN Observed(w, applied[w].state) /\ UNCHANGED <<applied, child, asked, telling>>
           ELSE /\ applied' = [applied EXCEPT ![w] = [state |-> c.state, revision |-> c.revision]]
                /\ child' = [child EXCEPT ![w] = ChildUnder(w, c.state)]
                /\ IF stops THEN Observed(w, c.state) /\ UNCHANGED <<asked, telling>>
                   ELSE /\ Tell(w, c.revision)
                        /\ telling' = [telling EXCEPT ![w] = TRUE]
                        /\ UNCHANGED <<loop, offers>>
  /\ UNCHANGED <<coordinator, inbox>>

\* The child's run ends, or a quit ended it.  Every control offered is applied
\* first; the last heartbeat reads whether the pool quits, which the worker
\* acknowledges and ends.
ChildEnds(w) ==
  /\ loop[w] = "running" /\ child[w] \in {"going", None}
  /\ ~telling[w] /\ offers[w] = <<>>
  /\ child' = [child EXCEPT ![w] = None]
  /\ IF row.state = "quit"
       THEN loop' = [loop EXCEPT ![w] = "ending"] /\ Tell(w, row.revision)
       ELSE loop' = [loop EXCEPT ![w] = "idle"] /\ UNCHANGED asked
  /\ UNCHANGED <<coordinator, inbox, applied, offers, telling>>

\* The worker's process ends; the coordinator forgets it.
WorkerExits(w) ==
  /\ loop[w] = "ending" /\ asked[w] = {}
  /\ loop' = [loop EXCEPT ![w] = "gone"]
  /\ ready' = ready \ {w}
  /\ acks' = [acks EXCEPT ![w] = -1]
  /\ UNCHANGED <<row, committed, calls, asked, inbox, applied, offers, telling, child>>

-----------------------------------------------------------------------------
Kinds == {"observe", "claim", "check", "heartbeat", "controlled"}

ControlNext ==
  \/ \E s \in States : Control(s)
  \/ \E c \in Calls : ControlPublishes(c)
  \/ \E w \in Workers :
       \/ WorkerReady(w) \/ LoopAsks(w) \/ Heartbeat(w) \/ Receive(w) \/ Apply(w)
       \/ ChildEnds(w) \/ WorkerExits(w)
       \/ \E k \in Kinds : Answers(w, k)

ControlSpec == ControlInit /\ [][ControlNext]_controlVars

\* The coordinator answers and pushes, a worker goes on with what it has, and an
\* attempt that a quit aborted ends.  A child that was not stopped may go on for ever.
ControlFairness ==
  /\ \A c \in Calls : WF_controlVars(ControlPublishes(c))
  /\ \A w \in Workers :
       /\ WF_controlVars(WorkerReady(w)) /\ WF_controlVars(LoopAsks(w))
       /\ WF_controlVars(Heartbeat(w)) /\ WF_controlVars(Receive(w)) /\ WF_controlVars(Apply(w))
       /\ WF_controlVars(child[w] = None /\ ChildEnds(w)) /\ WF_controlVars(WorkerExits(w))
       /\ \A k \in Kinds : WF_controlVars(Answers(w, k))

FairControl == ControlSpec /\ ControlFairness

-----------------------------------------------------------------------------
\* A worker applies and acknowledges revisions the row had, and has at most one
\* request of each kind open.
ControlTypeOK ==
  /\ row.state \in States /\ row.revision \in 1..MaxCalls + 1
  /\ committed \in 1..row.revision
  /\ \A w \in Workers :
       /\ child[w] \in {None, "starting", "going", "held"}
       /\ applied[w].revision \in -1..row.revision
       /\ acks[w] \in -1..row.revision
       /\ Cardinality(asked[w]) <= 3

\* A recorded acknowledgement means the worker applied that revision, or a newer
\* one: a pause the coordinator reports as acknowledged is not still on its way.
AcknowledgedIsApplied ==
  \A w \in Workers : loop[w] # "ending" => acks[w] <= applied[w].revision

\* "A stale reply never undoes a newer push": what a worker applied is never
\* replaced by an older control, and a held child goes on only under a newer one.
NothingIsUndone ==
  [][\A w \in Workers :
       /\ applied'[w].revision >= applied[w].revision
       /\ child[w] = "held" /\ child'[w] = "going" => applied'[w].revision > applied[w].revision]_controlVars

\* Once the calls end, every worker comes to the state of the row, and the
\* coordinator learns it.
WorkersFollow ==
  <>[](Len(calls) = MaxCalls) =>
    <>[](\A w \in ready : applied[w].state = row.state /\ acks[w] = row.revision)

\* WorkerControl's comment says "a stale reply never undoes a newer push": while
\* the row says "paused" and the worker acknowledged it, its child does not go on.
AcknowledgedPauseHolds ==
  \A w \in Workers :
    row.state = "paused" /\ acks[w] = row.revision => child[w] # "going"

\* Revisions are those of the row, and an acknowledged one was applied.
ControlSound == ControlTypeOK /\ AcknowledgedIsApplied
=============================================================================
