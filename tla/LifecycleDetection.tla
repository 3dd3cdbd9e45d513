-------------------------- MODULE LifecycleDetection --------------------------
(* How changes of one identity become lifecycle events, and what these do.    *)
(* Synchronisations read the identity ("before"), write the row of their      *)
(* source, read it again ("after") and store the events that the difference   *)
(* stands for; the event worker asks for access or withdraws it, and a leaver *)
(* is written back to the identity.  All of it interleaves: nothing           *)
(* serialises synchronisations with each other or with the worker.            *)
EXTENDS Integers, FiniteSets

CONSTANTS
  Sync,        \* processes that synchronise, one run after another
  Path,        \* the code paths that occur: "bulk", "sequential", "hrms"
  Lives,       \* the lifecycleState values that occur
  Dept,        \* departments; stand for the attributes that make a mover
  Horizon,     \* the last instant of the clock
  MaxRuns,     \* bound on synchronisation runs
  MaxTroubles  \* bound on failing database calls and edits through the API

ASSUME PathAssumption == Path \subseteq {"bulk", "sequential", "hrms"}
ASSUME BoundAssumption ==
  Horizon \in Nat /\ MaxRuns \in Nat /\ MaxTroubles \in Nat

LifecycleStates ==
  {"NEW", "ACTIVE", "MOVER", "LEAVER", "TERMINATED", "QUARANTINE", "INACTIVE"}
ASSUME LivesAssumption == Lives \subseteq LifecycleStates

TERMINATED_STATES == {"TERMINATED", "LEAVER", "INACTIVE"}
ACTIVE_STATES == {"ACTIVE", "NEW", "MOVER", "REHIRE"}

NoEnd == -1
Dates == {NoEnd} \union (0 .. Horizon)
Identities == [life: Lives, active: BOOLEAN, end: Dates, dept: Dept]
Absent == [life |-> "", active |-> FALSE, end |-> NoEnd, dept |-> ""]  \* no document
Known == Identities \union {Absent}

EventTypes == {"TERMINATION_SCHEDULED", "JOINER", "REHIRE", "LEAVER", "MOVER"}
Primary == EventTypes \ {"TERMINATION_SCHEDULED"}

\* An open primary event: its type, the run whose difference it reports, and
\* its effective date.
OpenEvents == [type: Primary, run: 1 .. MaxRuns, date: Dates]

\* An open TERMINATION_SCHEDULED row with its two snapshots.
ScheduledRows == [run: 1 .. MaxRuns, date: Dates, prev: Known, new: Known]

\* A row of the source.  The mappings of a profile set no isActive of their own.
\* HRMS derives lifecycleState and isActive from the employee's status by two
\* patterns that differ: "fired" gives TERMINATED and active.
Rows == [life: Lives, active: BOOLEAN, dept: Dept]
RowsOf(path) ==
  {r \in Rows : \/ r.active = (r.life \notin TERMINATED_STATES)
                \/ path = "hrms" /\ r.active /\ r.life = "TERMINATED"}
NoRow == [life |-> "", active |-> FALSE, dept |-> ""]

VARIABLES
  now,       \* the clock
  identity,  \* the Identity document
  runs,      \* runs begun so far
  pc,        \* where each process is
  run,       \* its run, which names the sync job
  path,      \* the path it takes
  row,       \* its source row
  before,    \* the document as it read it before writing
  existing,  \* the document as read for a row-by-row write
  after,     \* the document as read after writing
  todo,      \* the events it has still to store
  open,      \* stored primary events not yet handled
  scheduled, \* stored TERMINATION_SCHEDULED events not yet promoted
  leaver,    \* the leaver event in its handler's hands, a set of at most one
  read,      \* the identity as that handler read it
  troubles,  \* failed calls and edits so far
  \* what a property needs to remember
  hr,        \* what the source last said: "unknown", "never" (in), "in" or "out"
  owed,      \* the primary event that its last change of mind calls for
  access,    \* what the events handled so far ask for: "none", "on" or "off"
  clean,     \* no failed call, no edit and no overlapping runs so far
  crossed    \* a run wrote while events were open, or over an end date it kept unseen

syncs == <<runs, pc, run, path, row, before, existing, after, todo>>
events == <<open, scheduled>>
worker == <<leaver, read>>
ghosts == <<hr, owed, access, clean, crossed>>
vars == <<now, identity, syncs, events, worker, troubles, ghosts>>

Points == {"idle", "write", "fallbackRead", "fallbackWrite", "readAfter", "enqueue"}

DocumentOK == now \in 0 .. Horizon /\ identity \in Known /\ troubles \in 0 .. MaxTroubles

SyncOK ==
  /\ runs \in 0 .. MaxRuns
  /\ pc \in [Sync -> Points]
  /\ run \in [Sync -> 0 .. MaxRuns]
  /\ path \in [Sync -> Path \union {"none"}]
  /\ row \in [Sync -> Rows \union {NoRow}]
  /\ before \in [Sync -> Known]
  /\ existing \in [Sync -> Known]
  /\ after \in [Sync -> Known]
  /\ todo \in [Sync -> SUBSET EventTypes]

EventOK ==
  /\ open \subseteq OpenEvents
  /\ scheduled \subseteq ScheduledRows
  /\ leaver \subseteq OpenEvents
  /\ read \in Known

GhostOK ==
  /\ hr \in {"unknown", "never", "in", "out"}
  /\ owed \in Primary \union {"none"}
  /\ access \in {"none", "on", "off"}
  /\ clean \in BOOLEAN
  /\ crossed \in BOOLEAN

TypeOK == DocumentOK /\ SyncOK /\ EventOK /\ GhostOK

Init ==
  /\ now = 0
  /\ identity = Absent
  /\ pc = [s \in Sync |-> "idle"]
  /\ runs = 0
  /\ run = [s \in Sync |-> 0]
  /\ path = [s \in Sync |-> "none"]
  /\ row = [s \in Sync |-> NoRow]
  /\ before = [s \in Sync |-> Absent]
  /\ existing = [s \in Sync |-> Absent]
  /\ after = [s \in Sync |-> Absent]
  /\ todo = [s \in Sync |-> {}]
  /\ open = {}
  /\ scheduled = {}
  /\ leaver = {}
  /\ read = Absent
  /\ troubles = 0
  /\ hr = "unknown"
  /\ owed = "none"
  /\ access = "none"
  /\ clean = TRUE
  /\ crossed = FALSE

IsTerminationState(life) == life \in TERMINATED_STATES
IsActiveLikeState(life) == life \in ACTIVE_STATES
IsPastOrDue(date) == date # NoEnd /\ date <= now

-----------------------------------------------------------------------------
(* detectIdentityLifecycleChanges                                           *)

IsRehire(b, a) ==
  /\ IsTerminationState(b.life) \/ ~b.active
  /\ IsActiveLikeState(a.life) \/ a.active
  /\ ~IsTerminationState(a.life)

BecameTerminated(b, a) ==
  \/ ~IsTerminationState(b.life) /\ a.life \in {"TERMINATED", "INACTIVE"}
  \/ b.active /\ ~a.active

IsLeaver(b, a) == BecameTerminated(b, a) \/ IsPastOrDue(a.end)

IsScheduled(b, a) ==
  /\ ~IsLeaver(b, a)
  /\ a.end # NoEnd
  /\ a.end # b.end \/ a.life = "LEAVER"
  /\ a.active

IsMover(b, a) ==
  /\ b.dept # a.dept
  /\ ~IsTerminationState(a.life) /\ a.active
  /\ ~IsRehire(b, a) /\ ~IsLeaver(b, a) /\ ~IsScheduled(b, a)

\* The events one transition stands for.  The attribute facts that are stored
\* as COMPLETED at once are left out.
Detect(b, a) ==
  IF b = Absent THEN {"JOINER"}
  ELSE IF b = a THEN {}
  ELSE {t \in EventTypes :
          \/ t = "REHIRE" /\ IsRehire(b, a)
          \/ t = "LEAVER" /\ IsLeaver(b, a)
          \/ t = "TERMINATION_SCHEDULED" /\ IsScheduled(b, a)
          \/ t = "MOVER" /\ IsMover(b, a)}

EffectiveDate(a) == IF a.end # NoEnd THEN a.end ELSE now

-----------------------------------------------------------------------------
(* What a run writes                                                        *)

PipelineEndNextDay(r, old) ==  \* bug: the end date is set a day late
  IF IsTerminationState(r.life)
  THEN IF old.end # NoEnd THEN old.end ELSE now + 1
  ELSE IF IsActiveLikeState(r.life) THEN NoEnd ELSE old.end

\* buildIdentityRefreshUpdatePipeline: evaluated by the server on the document
\* it updates.
PipelineEnd(r, old) ==
  IF IsTerminationState(r.life)
  THEN IF old.end # NoEnd THEN old.end ELSE now
  ELSE IF IsActiveLikeState(r.life) THEN NoEnd ELSE old.end

\* applyLifecycleDerivedIdentityFields: decided on the document as it was read.
DerivedEnd(r, seen, old) ==
  IF IsTerminationState(r.life)
  THEN IF seen.end = NoEnd THEN now ELSE old.end
  ELSE IF IsActiveLikeState(r.life) /\ seen.end # NoEnd THEN NoEnd ELSE old.end

\* The mappings of a profile never set isActive or endDate.
Refreshed(r, end) ==
  [life |-> r.life, active |-> ~IsTerminationState(r.life), end |-> end, dept |-> r.dept]

\* The HRMS path sets both flags and leaves the end date alone.
HrmsUpdated(r, old) == [life |-> r.life, active |-> r.active, end |-> old.end, dept |-> r.dept]

Departed(id) == IsTerminationState(id.life) \/ ~id.active

\* What the source now says of the person, and the event a change of it owes.
SaidOf(id) ==
  IF ~Departed(id) THEN "in" ELSE IF hr \in {"in", "out"} THEN "out" ELSE "never"
OwedFor(id) ==
  CASE hr = "unknown" -> "JOINER"
    [] hr = "in" /\ Departed(id) -> "LEAVER"
    [] hr \in {"out", "never"} /\ ~Departed(id) -> "REHIRE"
    [] OTHER -> owed

\* Runs that have read the identity but not yet finished comparing.
Comparing == {s \in Sync : pc[s] \in {"write", "fallbackRead", "fallbackWrite", "readAfter"}}

Unhandled == open # {} \/ leaver # {} \/ scheduled # {}

\* Nothing is remembered any more once clean is FALSE.
Forget ==
  /\ clean' = FALSE /\ crossed' = FALSE
  /\ hr' = "unknown" /\ owed' = "none" /\ access' = "none"

WriteIdentity(s, id) ==
  /\ identity' = id
  /\ IF clean /\ Comparing \subseteq {s} /\ leaver = {}
     THEN /\ hr' = SaidOf(id)
          /\ owed' = OwedFor(id)
          /\ crossed' = \/ crossed \/ Unhandled
                        \/ \E r \in Sync \ {s} : todo[r] # {}
                        \/ /\ identity.end # NoEnd
                           /\ path[s] = "hrms" \/ before[s].end = NoEnd
          /\ UNCHANGED <<clean, access>>
     ELSE Forget

Goto(s, p) == pc' = [pc EXCEPT ![s] = p]

\* A call fails or the identity is edited, as often as the bound allows.
Trouble == troubles < MaxTroubles /\ troubles' = troubles + 1 /\ Forget

-----------------------------------------------------------------------------
(* Synchronisation                                                          *)

\* A run begins with one row of interest.
Begin(s, p) ==
  /\ pc[s] = "idle" /\ runs < MaxRuns
  /\ runs' = runs + 1
  /\ run' = [run EXCEPT ![s] = runs + 1]
  /\ path' = [path EXCEPT ![s] = p]
  /\ \E r \in RowsOf(p) : row' = [row EXCEPT ![s] = r]
  /\ Goto(s, "write")
  /\ UNCHANGED <<now, identity, existing, after, todo, events, worker>>

\* The prefetch of the bulk path, or the lookup of the others.
ReadBefore(s) ==
  /\ \E p \in Path : Begin(s, p)
  /\ before' = [before EXCEPT ![s] = identity]
  /\ UNCHANGED <<troubles, ghosts>>

\* A failed prefetch is logged and taken for an empty result.
PrefetchFails(s) ==
  /\ "bulk" \in Path /\ Begin(s, "bulk")
  /\ Trouble
  /\ UNCHANGED before

\* bulkWrite of the update pipeline.
BulkWrite(s) ==
  /\ pc[s] = "write" /\ path[s] = "bulk"
  /\ WriteIdentity(s, Refreshed(row[s], PipelineEnd(row[s], identity)))
  /\ Goto(s, "readAfter")
  /\ UNCHANGED <<now, runs, run, path, row, before, existing, after, todo, events, worker, troubles>>

\* A bulk that fails may have written this row or not; the rows are then
\* written one by one.
BulkFails(s) ==
  /\ pc[s] = "write" /\ path[s] = "bulk"
  /\ Trouble
  /\ \/ UNCHANGED identity
     \/ identity' = Refreshed(row[s], PipelineEnd(row[s], identity))
  /\ Goto(s, "fallbackRead")
  /\ UNCHANGED <<now, runs, run, path, row, before, existing, after, todo, events, worker>>

FallbackRead(s) ==
  /\ pc[s] = "fallbackRead"
  /\ existing' = [existing EXCEPT ![s] = identity]
  /\ Goto(s, "fallbackWrite")
  /\ UNCHANGED <<now, identity, runs, run, path, row, before, after, todo, events, worker, troubles, ghosts>>

FallbackWrite(s) ==
  /\ pc[s] = "fallbackWrite"
  /\ WriteIdentity(s, Refreshed(row[s], DerivedEnd(row[s], existing[s], identity)))
  /\ Goto(s, "readAfter")
  /\ UNCHANGED <<now, runs, run, path, row, before, existing, after, todo, events, worker, troubles>>

\* The run is over; its locals are gone.
Finish(s) ==
  /\ Goto(s, "idle")
  /\ run' = [run EXCEPT ![s] = 0]
  /\ path' = [path EXCEPT ![s] = "none"]
  /\ row' = [row EXCEPT ![s] = NoRow]
  /\ before' = [before EXCEPT ![s] = Absent]
  /\ existing' = [existing EXCEPT ![s] = Absent]
  /\ after' = [after EXCEPT ![s] = Absent]
  /\ todo' = [todo EXCEPT ![s] = {}]

\* Detection happens when the transition is enqueued.
Compare(s, a) ==
  IF Detect(before[s], a) = {} THEN Finish(s)
  ELSE /\ after' = [after EXCEPT ![s] = a]
       /\ todo' = [todo EXCEPT ![s] = Detect(before[s], a)]
       /\ Goto(s, "enqueue")
       /\ path' = [path EXCEPT ![s] = "none"]
       /\ row' = [row EXCEPT ![s] = NoRow]
       /\ existing' = [existing EXCEPT ![s] = Absent]
       /\ UNCHANGED <<run, before>>

ReadAfterPrefetched(s) ==  \* bug: the prefetched document is taken for the written one
  /\ pc[s] = "readAfter"
  /\ Compare(s, before[s])
  /\ UNCHANGED <<now, identity, runs, events, worker, troubles, ghosts>>

\* enqueueLifecycleAfterWrites looks the written identities up again.
ReadAfter(s) ==
  /\ pc[s] = "readAfter"
  /\ Compare(s, identity)
  /\ UNCHANGED <<now, identity, runs, events, worker, troubles, ghosts>>

\* findOneAndUpdate of the sequential and the HRMS path returns what it wrote.
UpdateAndCompare(s) ==
  /\ pc[s] = "write" /\ path[s] # "bulk"
  /\ LET id == IF path[s] = "hrms" THEN HrmsUpdated(row[s], identity)
               ELSE Refreshed(row[s], DerivedEnd(row[s], before[s], identity)) IN
       /\ WriteIdentity(s, id)
       /\ Compare(s, id)
  /\ UNCHANGED <<now, runs, events, worker, troubles>>

\* The order in which enqueueOneTransition stores the events of a transition.
Position(t) ==
  CASE t = "TERMINATION_SCHEDULED" -> 1 [] t = "JOINER" -> 2 [] t = "REHIRE" -> 3
    [] t = "LEAVER" -> 4 [] OTHER -> 5
NextEvent(s) == {t \in todo[s] : \A u \in todo[s] : Position(t) <= Position(u)}

\* Idempotency keys name the run and the change, so every event is new.
EnqueueOne(s) ==
  /\ pc[s] = "enqueue"
  /\ \E t \in NextEvent(s) :
       /\ IF t = "TERMINATION_SCHEDULED"
          THEN /\ scheduled' = scheduled \union
                    {[run |-> run[s], date |-> EffectiveDate(after[s]),
                      prev |-> before[s], new |-> after[s]]}
               /\ UNCHANGED open
          ELSE /\ open' = open \union
                    {[type |-> t, run |-> run[s], date |-> EffectiveDate(after[s])]}
               /\ UNCHANGED scheduled
       /\ IF todo[s] = {t} THEN Finish(s)
          ELSE /\ todo' = [todo EXCEPT ![s] = @ \ {t}]
               /\ UNCHANGED <<pc, run, path, row, before, existing, after>>
       /\ owed' = IF owed = t THEN "none" ELSE owed
  /\ UNCHANGED <<now, identity, runs, worker, troubles, hr, access, clean, crossed>>

\* A failed enqueue is logged and the run succeeds; a row that cannot be written
\* is skipped; a server dies.  What is not yet stored is lost.
RunFails(s) ==
  /\ pc[s] # "idle"
  /\ Trouble
  /\ Finish(s)
  /\ UNCHANGED <<now, identity, runs, events, worker>>

-----------------------------------------------------------------------------
(* Edits, time, promotion                                                   *)

\* updateIdentity stores the request's body, here of one field, and enqueues
\* nothing.
Edits(id) ==
  {[id EXCEPT !.life = x] : x \in Lives} \union {[id EXCEPT !.active = ~@]}
    \union {[id EXCEPT !.end = x] : x \in Dates} \union {[id EXCEPT !.dept = x] : x \in Dept}

UpdateIdentity ==
  /\ identity # Absent
  /\ Trouble
  /\ identity' \in Edits(identity) \ {identity}
  /\ UNCHANGED <<now, syncs, events, worker>>

Tick ==
  /\ now < Horizon
  /\ now' = now + 1
  /\ UNCHANGED <<identity, syncs, events, worker, troubles, ghosts>>

\* The transition that a promotion makes up from the stored snapshots.
PromotedFrom(r) ==
  [r.prev EXCEPT !.life = IF @ = "" THEN "ACTIVE" ELSE @, !.active = @ \/ r.prev = Absent]
PromotedTo(r) == [r.new EXCEPT !.life = "TERMINATED", !.active = FALSE, !.end = r.date]

PromoteCurrent(r) ==  \* bug: the present state instead of the stored snapshots
  /\ r \in scheduled /\ IsPastOrDue(r.date)
  /\ open' = open \union {[type |-> t, run |-> r.run, date |-> r.date] :
                            t \in Detect(identity, [identity EXCEPT !.active = FALSE])}
  /\ scheduled' = scheduled \ {r}
  /\ UNCHANGED <<now, identity, syncs, worker, troubles, ghosts>>

\* promoteDueTerminationScheduled; its steps are those of LifecycleQueue.
Promote(r) ==
  /\ r \in scheduled /\ IsPastOrDue(r.date)
  /\ open' = open \union {[type |-> t, run |-> r.run, date |-> r.date] :
                            t \in Detect(PromotedFrom(r), PromotedTo(r))}
  /\ scheduled' = scheduled \ {r}
  /\ UNCHANGED <<now, identity, syncs, worker, troubles, ghosts>>

-----------------------------------------------------------------------------
(* Handling, one event at a time and highest priority first                 *)

Priority(t) ==
  CASE t = "LEAVER" -> 100 [] t = "REHIRE" -> 70 [] t = "MOVER" -> 50 [] OTHER -> 30

MayHandle(e) ==
  /\ leaver = {}
  /\ e \in open
  /\ \A f \in open : Priority(f.type) <= Priority(e.type)

\* JOINER and REHIRE evaluate the access the identity should have; MOVER plans.
HandleOther(e) ==
  /\ MayHandle(e) /\ e.type # "LEAVER"
  /\ open' = open \ {e}
  /\ access' = IF clean /\ e.type # "MOVER" THEN "on" ELSE access
  /\ UNCHANGED <<now, identity, syncs, scheduled, worker, troubles, hr, owed, clean, crossed>>

\* startLeaverProvisioningFromEvent reads the identity, ...
LeaverRead(e) ==
  /\ MayHandle(e) /\ e.type = "LEAVER"
  /\ open' = open \ {e}
  /\ leaver' = {e}
  /\ read' = identity
  /\ UNCHANGED <<now, identity, syncs, scheduled, troubles, ghosts>>

LeaverWriteActive(e) ==  \* bug: an identity the run has made inactive is skipped
  /\ e \in leaver
  /\ identity' = [identity EXCEPT !.active = FALSE]
  /\ leaver' = {}
  /\ read' = Absent
  /\ access' = IF clean /\ read.active THEN "off" ELSE access
  /\ UNCHANGED <<now, syncs, events, troubles, hr, owed, clean, crossed>>

\* ... marks it inactive, whatever it has become, and withdraws its access.
LeaverWrite(e) ==
  /\ e \in leaver
  /\ identity' = [identity EXCEPT
                    !.active = FALSE,
                    !.life = IF read.life = "" THEN "TERMINATED" ELSE read.life,
                    !.end = IF read.end # NoEnd THEN @ ELSE e.date]
  /\ leaver' = {}
  /\ read' = Absent
  /\ access' = IF clean THEN "off" ELSE access
  /\ UNCHANGED <<now, syncs, events, troubles, hr, owed, clean, crossed>>

SyncStep(s) ==
  \/ ReadBefore(s) \/ PrefetchFails(s)
  \/ BulkWrite(s) \/ BulkFails(s) \/ FallbackRead(s) \/ FallbackWrite(s)
  \/ ReadAfter(s) \/ UpdateAndCompare(s)
  \/ EnqueueOne(s) \/ RunFails(s)

Next ==
  \/ \E s \in Sync : SyncStep(s)
  \/ UpdateIdentity
  \/ Tick
  \/ \E r \in scheduled : Promote(r)
  \/ \E e \in open : HandleOther(e) \/ LeaverRead(e)
  \/ \E e \in leaver : LeaverWrite(e)

Spec == Init /\ [][Next]_vars

-----------------------------------------------------------------------------
(* Properties                                                               *)

\* Runs that will still store the event that is owed.
Reporting == {s \in Sync : pc[s] = "readAfter" \/ owed \in todo[s]}

\* Every change of mind of the source is reported: the first sight of a person
\* as JOINER, a departure as LEAVER, a return as REHIRE.  It takes runs that do
\* not overlap, calls that do not fail and no edit in between; the leaver
\* handler may interleave, as long as no run writes between its read and its write.
TransitionsNoticed == clean /\ owed # "none" => Reporting # {}

\* Once everything is handled, access is what the source last said, provided
\* the queue was empty whenever a run wrote (priorities reorder what crosses).
AccessFollowsSource ==
  (/\ clean /\ ~crossed
   /\ open = {} /\ leaver = {}
   /\ \A s \in Sync : pc[s] \in {"idle", "write"})
    => /\ hr = "in" => access = "on"
       /\ hr = "out" => access = "off"

\* A scheduled termination that is promoted turns into a LEAVER of its own.
PromotionYieldsLeaver ==
  [][\A r \in scheduled \ scheduled' :
       \E e \in open' \ open : e.type = "LEAVER" /\ e.run = r.run]_vars
=============================================================================
