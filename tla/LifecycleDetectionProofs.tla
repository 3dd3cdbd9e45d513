----------------------- MODULE LifecycleDetectionProofs -----------------------
(* Theorems about LifecycleDetection, for any processes, departments, clock,  *)
(* runs and troubles.                                                         *)
EXTENDS LifecycleDetection, TLAPS

-----------------------------------------------------------------------------
(* Type correctness                                                         *)

Writing == {"write", "fallbackRead", "fallbackWrite"}

\* What the types rest on: a run at work has a number and a row, events to
\* store only when it stores them, and there are events only of an identity
\* that exists.
Working ==
  /\ \A s \in Sync : pc[s] # "idle" => run[s] \in 1 .. MaxRuns
  /\ \A s \in Sync : pc[s] \in Writing => row[s] \in RowsOf("hrms")
  /\ \A s \in Sync : todo[s] # {} => pc[s] = "enqueue"

Seen ==
  /\ identity = Absent => /\ open = {} /\ scheduled = {} /\ leaver = {}
                          /\ \A s \in Sync : pc[s] \notin {"readAfter", "enqueue"}
  /\ leaver # {} => read # Absent

Typed == TypeOK /\ Working /\ Seen

LEMMA RowsTyped == \A q : RowsOf(q) \subseteq Rows
BY DEF RowsOf

LEMMA NoLife == "" \notin Lives
BY LivesAssumption DEF LifecycleStates

LEMMA AbsentLife == Absent.life = ""
BY DEF Absent

LEMMA AbsentIsNone == Absent \notin Identities
BY NoLife DEF Absent, Identities

LEMMA EndDates ==
  ASSUME NEW d \in Known
  PROVE  d.end \in Dates /\ d.life \in Lives \union {""} /\ d.active \in BOOLEAN
<1>1. CASE d \in Identities
  BY <1>1 DEF Identities
<1>2. CASE d = Absent
  BY <1>2 DEF Absent, Dates
<1> QED
  BY <1>1, <1>2 DEF Known

LEMMA TypeInit == Init => Typed
<1> SUFFICES ASSUME Init PROVE Typed
  OBVIOUS
<1>1. DocumentOK
  BY BoundAssumption DEF Init, DocumentOK, Known
<1>2. SyncOK
  <2>1. Absent \in Known /\ 0 \in 0 .. MaxRuns
    BY BoundAssumption DEF Known
  <2> QED
    BY <2>1 DEF Init, SyncOK, Points
<1>3. EventOK
  BY DEF Init, EventOK, Known
<1>4. GhostOK
  BY DEF Init, GhostOK
<1>5. Working /\ Seen
  BY DEF Init, Working, Writing, Seen
<1> QED
  BY <1>1, <1>2, <1>3, <1>4, <1>5 DEF Typed, TypeOK

\* What a run writes is an identity.
LEMMA RefreshedTyped ==
  ASSUME NEW r \in Rows, NEW end \in Dates
  PROVE  Refreshed(r, end) \in Identities
BY DEF Refreshed, Rows, Identities

LEMMA PipelineEndTyped ==
  ASSUME TypeOK, NEW r, NEW old \in Known
  PROVE  PipelineEnd(r, old) \in Dates
<1>1. old.end \in Dates /\ now \in Dates /\ NoEnd \in Dates
  BY EndDates DEF TypeOK, DocumentOK, Dates
<1> QED
  BY <1>1 DEF PipelineEnd

LEMMA DerivedEndTyped ==
  ASSUME TypeOK, NEW r, NEW seen \in Known, NEW old \in Known
  PROVE  DerivedEnd(r, seen, old) \in Dates
<1>1. old.end \in Dates /\ now \in Dates /\ NoEnd \in Dates
  BY EndDates DEF TypeOK, DocumentOK, Dates
<1> QED
  BY <1>1 DEF DerivedEnd

LEMMA HrmsTyped ==
  ASSUME NEW r \in Rows, NEW old \in Known
  PROVE  HrmsUpdated(r, old) \in Identities
<1>1. old.end \in Dates
  BY EndDates
<1> QED
  BY <1>1 DEF HrmsUpdated, Rows, Identities

\* The ghosts keep their types whatever a run writes.
LEMMA WriteTyped ==
  ASSUME TypeOK, NEW s \in Sync, NEW id \in Identities, WriteIdentity(s, id)
  PROVE  GhostOK' /\ identity' = id
<1>1. SaidOf(id) \in {"unknown", "never", "in", "out"}
  BY DEF SaidOf
<1>2. OwedFor(id) \in Primary \union {"none"}
  BY DEF OwedFor, Primary, EventTypes, TypeOK, GhostOK
<1>3. CASE clean /\ Comparing \subseteq {s} /\ leaver = {}
  BY <1>1, <1>2, <1>3 DEF WriteIdentity, TypeOK, GhostOK
<1>4. CASE ~(clean /\ Comparing \subseteq {s} /\ leaver = {})
  BY <1>4 DEF WriteIdentity, Forget, TypeOK, GhostOK
<1> QED
  BY <1>3, <1>4 DEF WriteIdentity

LEMMA TroubleTyped ==
  ASSUME TypeOK, Trouble
  PROVE  GhostOK' /\ troubles' \in 0 .. MaxTroubles
<1>1. troubles' \in 0 .. MaxTroubles
  BY BoundAssumption DEF Trouble, TypeOK, DocumentOK
<1> QED
  BY <1>1 DEF Trouble, Forget, GhostOK, TypeOK

\* A run that is over leaves typed locals and disturbs no other.
LEMMA FinishTyped ==
  ASSUME TypeOK, Working, NEW s \in Sync, Finish(s), runs' = runs
  PROVE  SyncOK' /\ Working' /\ pc'[s] = "idle"
         /\ \A u \in Sync \ {s} : pc'[u] = pc[u]
<1> USE DEF TypeOK, SyncOK, Finish, Goto
<1>1. Absent \in Known /\ 0 \in 0 .. MaxRuns
  BY BoundAssumption DEF Known
<1>2. SyncOK'
  BY <1>1 DEF Points
<1>3. pc'[s] = "idle" /\ todo'[s] = {}
      /\ \A u \in Sync \ {s} : /\ pc'[u] = pc[u] /\ run'[u] = run[u] /\ row'[u] = row[u]
                               /\ todo'[u] = todo[u]
  OBVIOUS
<1>4. Working'
  BY <1>3 DEF Working, Writing
<1> QED
  BY <1>2, <1>3, <1>4

\* So does the comparison of what was read before with what is now.
LEMMA CompareTyped ==
  ASSUME TypeOK, Working, NEW s \in Sync, NEW a \in Known, pc[s] # "idle",
         Compare(s, a), runs' = runs
  PROVE  SyncOK' /\ Working' /\ pc'[s] \in {"idle", "enqueue"}
         /\ \A u \in Sync \ {s} : pc'[u] = pc[u]
<1>1. CASE Finish(s)
  BY <1>1, FinishTyped
<1>2. CASE ~Finish(s)
  <2> USE <1>2 DEF TypeOK, SyncOK, Compare, Goto
  <2>1. Absent \in Known
    BY DEF Known
  <2>2. Detect(before[s], a) \in SUBSET EventTypes
    BY DEF Detect, EventTypes
  <2>3. SyncOK'
    BY <2>1, <2>2 DEF Points
  <2>4. pc'[s] = "enqueue" /\ run' = run
        /\ \A u \in Sync \ {s} : pc'[u] = pc[u] /\ row'[u] = row[u] /\ todo'[u] = todo[u]
    OBVIOUS
  <2>5. Working'
    BY <2>4 DEF Working, Writing
  <2> QED
    BY <2>3, <2>4, <2>5
<1> QED
  BY <1>1, <1>2

LEMMA BeginTyped ==
  ASSUME TypeOK, Working, NEW s \in Sync, NEW p \in Path, Begin(s, p),
         before' \in [Sync -> Known]
  PROVE  SyncOK' /\ Working' /\ pc'[s] = "write"
         /\ \A u \in Sync \ {s} : pc'[u] = pc[u]
<1> USE DEF TypeOK, SyncOK, Begin, Goto
<1>1. runs' \in 1 .. MaxRuns
  BY BoundAssumption
<1>2. row' \in [Sync -> Rows \union {NoRow}] /\ row'[s] \in RowsOf("hrms")
  BY DEF RowsOf
<1>3. run' \in [Sync -> 0 .. MaxRuns] /\ run'[s] \in 1 .. MaxRuns
  BY <1>1
<1>4. SyncOK'
  BY <1>1, <1>2, <1>3 DEF Points
<1>5. pc'[s] = "write"
      /\ \A u \in Sync \ {s} : pc'[u] = pc[u] /\ run'[u] = run[u] /\ row'[u] = row[u]
  OBVIOUS
<1>6. Working'
  BY <1>2, <1>3, <1>5 DEF Working, Writing
<1> QED
  BY <1>4, <1>5, <1>6

\* A run that moves on keeping its locals.
LEMMA GotoTyped ==
  ASSUME TypeOK, Working, NEW s \in Sync, NEW q \in Points, Goto(s, q),
         pc[s] \in Writing,
         UNCHANGED <<runs, run, path, row, before, after, todo>>,
         existing' \in [Sync -> Known]
  PROVE  SyncOK' /\ Working' /\ pc'[s] = q
         /\ \A u \in Sync \ {s} : pc'[u] = pc[u]
<1> USE DEF TypeOK, SyncOK, Goto
<1>1. SyncOK'
  OBVIOUS
<1>2. pc'[s] = q /\ \A u \in Sync \ {s} : pc'[u] = pc[u]
  OBVIOUS
<1>3. Working'
  BY <1>2 DEF Working, Writing
<1> QED
  BY <1>1, <1>2, <1>3

\* Promotion makes only primary events: what it makes up is a leaver.
LEMMA PromotedPrimary ==
  ASSUME TypeOK, NEW r \in scheduled, IsPastOrDue(r.date)
  PROVE  Detect(PromotedFrom(r), PromotedTo(r)) \subseteq Primary
<1> DEFINE b == PromotedFrom(r)
           a == PromotedTo(r)
<1>1. r.new \in Known
  BY DEF TypeOK, EventOK, ScheduledRows
<1>2. a.end = r.date
  BY <1>1 DEF PromotedTo, Known, Identities, Absent
<1>3. IsLeaver(b, a)
  BY <1>2 DEF IsLeaver, IsPastOrDue
<1> QED
  BY <1>3 DEF Detect, IsScheduled, Primary, EventTypes

LEMMA TypeStep == Typed /\ [Next]_vars => Typed'
<1> SUFFICES ASSUME Typed, [Next]_vars PROVE Typed'
  OBVIOUS
<1>a. TypeOK /\ Working /\ Seen
  BY DEF Typed
<1>b. identity \in Known /\ now \in Dates /\ NoEnd \in Dates
  BY <1>a DEF TypeOK, DocumentOK, Dates
<1> USE DEF Typed
<1>1. ASSUME NEW s \in Sync, ReadBefore(s) PROVE Typed'
  <2>1. before' \in [Sync -> Known]
    BY <1>1, <1>b DEF ReadBefore, TypeOK, SyncOK
  <2>2. PICK p \in Path : Begin(s, p)
    BY <1>1 DEF ReadBefore
  <2>3. SyncOK' /\ Working' /\ pc'[s] = "write" /\ \A u \in Sync \ {s} : pc'[u] = pc[u]
    BY <2>1, <2>2, BeginTyped
  <2>4. DocumentOK' /\ EventOK' /\ GhostOK'
    BY <1>1, <2>2 DEF ReadBefore, Begin, TypeOK, DocumentOK, EventOK, GhostOK, events, worker, ghosts
  <2>5. Seen'
    BY <2>2, <2>3 DEF Begin, Seen, events, worker
  <2> QED
    BY <2>3, <2>4, <2>5 DEF TypeOK
<1>2. ASSUME NEW s \in Sync, PrefetchFails(s) PROVE Typed'
  <2>1. before' \in [Sync -> Known] /\ "bulk" \in Path /\ Begin(s, "bulk")
    BY <1>2 DEF PrefetchFails, TypeOK, SyncOK
  <2>3. SyncOK' /\ Working' /\ pc'[s] = "write" /\ \A u \in Sync \ {s} : pc'[u] = pc[u]
    BY <2>1, BeginTyped
  <2>4. GhostOK' /\ troubles' \in 0 .. MaxTroubles
    BY <1>2, TroubleTyped DEF PrefetchFails
  <2>5. DocumentOK' /\ EventOK'
    BY <2>1, <2>4 DEF Begin, TypeOK, DocumentOK, EventOK, events, worker
  <2>6. Seen'
    BY <2>1, <2>3 DEF Begin, Seen, events, worker
  <2> QED
    BY <2>3, <2>4, <2>5, <2>6 DEF TypeOK
<1>3. ASSUME NEW s \in Sync, BulkWrite(s) PROVE Typed'
  <2> DEFINE id == Refreshed(row[s], PipelineEnd(row[s], identity))
  <2>1. row[s] \in Rows
    BY <1>3, RowsTyped DEF BulkWrite, Working, Writing
  <2>2. id \in Identities
    BY <2>1, <1>b, PipelineEndTyped, RefreshedTyped
  <2>3. GhostOK' /\ identity' = id
    BY <1>3, <2>2, WriteTyped DEF BulkWrite
  <2>4. SyncOK' /\ Working'
    BY <1>3, GotoTyped DEF BulkWrite, Points, Writing, TypeOK, SyncOK
  <2>5. DocumentOK' /\ EventOK'
    BY <1>3, <2>2, <2>3 DEF BulkWrite, TypeOK, DocumentOK, EventOK, events, worker, Known
  <2>6. Seen'
    BY <1>3, <2>2, <2>3, AbsentIsNone DEF BulkWrite, Seen, events, worker
  <2> QED
    BY <2>3, <2>4, <2>5, <2>6 DEF TypeOK
<1>4. ASSUME NEW s \in Sync, BulkFails(s) PROVE Typed'
  <2> DEFINE id == Refreshed(row[s], PipelineEnd(row[s], identity))
  <2>1. row[s] \in Rows
    BY <1>4, RowsTyped DEF BulkFails, Working, Writing
  <2>2. id \in Identities
    BY <2>1, <1>b, PipelineEndTyped, RefreshedTyped
  <2>3. GhostOK' /\ troubles' \in 0 .. MaxTroubles
    BY <1>4, TroubleTyped DEF BulkFails
  <2>4. SyncOK' /\ Working' /\ pc'[s] = "fallbackRead" /\ \A u \in Sync \ {s} : pc'[u] = pc[u]
    BY <1>4, GotoTyped DEF BulkFails, Points, Writing, TypeOK, SyncOK
  <2>5. DocumentOK' /\ EventOK'
    BY <1>4, <2>2, <2>3 DEF BulkFails, TypeOK, DocumentOK, EventOK, events, worker, Known
  <2>6. Seen'
    BY <1>4, <2>2, <2>4, AbsentIsNone DEF BulkFails, Seen, events, worker
  <2> QED
    BY <2>3, <2>4, <2>5, <2>6 DEF TypeOK
<1>5. ASSUME NEW s \in Sync, FallbackRead(s) PROVE Typed'
  <2>1. SyncOK' /\ Working' /\ pc'[s] = "fallbackWrite" /\ \A u \in Sync \ {s} : pc'[u] = pc[u]
    <3>1. existing' \in [Sync -> Known]
      BY <1>5, <1>b DEF FallbackRead, TypeOK, SyncOK
    <3> QED
      BY <1>5, <3>1, GotoTyped DEF FallbackRead, Points, Writing
  <2>2. DocumentOK' /\ EventOK' /\ GhostOK'
    BY <1>5 DEF FallbackRead, TypeOK, DocumentOK, EventOK, GhostOK, events, worker, ghosts
  <2>3. Seen'
    BY <1>5, <2>1 DEF FallbackRead, Seen, events, worker
  <2> QED
    BY <2>1, <2>2, <2>3 DEF TypeOK
<1>6. ASSUME NEW s \in Sync, FallbackWrite(s) PROVE Typed'
  <2> DEFINE id == Refreshed(row[s], DerivedEnd(row[s], existing[s], identity))
  <2>1. row[s] \in Rows /\ existing[s] \in Known
    BY <1>6, RowsTyped DEF FallbackWrite, Working, Writing, TypeOK, SyncOK
  <2>2. id \in Identities
    BY <2>1, <1>b, DerivedEndTyped, RefreshedTyped
  <2>3. GhostOK' /\ identity' = id
    BY <1>6, <2>2, WriteTyped DEF FallbackWrite
  <2>4. SyncOK' /\ Working'
    BY <1>6, GotoTyped DEF FallbackWrite, Points, Writing, TypeOK, SyncOK
  <2>5. DocumentOK' /\ EventOK'
    BY <1>6, <2>2, <2>3 DEF FallbackWrite, TypeOK, DocumentOK, EventOK, events, worker, Known
  <2>6. Seen'
    BY <1>6, <2>2, <2>3, AbsentIsNone DEF FallbackWrite, Seen, events, worker
  <2> QED
    BY <2>3, <2>4, <2>5, <2>6 DEF TypeOK
<1>7. ASSUME NEW s \in Sync, ReadAfter(s) PROVE Typed'
  <2>1. SyncOK' /\ Working' /\ pc'[s] \in {"idle", "enqueue"}
        /\ \A u \in Sync \ {s} : pc'[u] = pc[u]
    BY <1>7, <1>b, CompareTyped DEF ReadAfter
  <2>2. DocumentOK' /\ EventOK' /\ GhostOK'
    BY <1>7 DEF ReadAfter, TypeOK, DocumentOK, EventOK, GhostOK, events, worker, ghosts
  <2>3. Seen'
    BY <1>7, <2>1 DEF ReadAfter, Seen, events, worker
  <2> QED
    BY <2>1, <2>2, <2>3 DEF TypeOK
<1>8. ASSUME NEW s \in Sync, UpdateAndCompare(s) PROVE Typed'
  <2> DEFINE id == IF path[s] = "hrms" THEN HrmsUpdated(row[s], identity)
                   ELSE Refreshed(row[s], DerivedEnd(row[s], before[s], identity))
  <2>1. row[s] \in Rows /\ before[s] \in Known
    BY <1>8, RowsTyped DEF UpdateAndCompare, Working, Writing, TypeOK, SyncOK
  <2>2. id \in Identities
    <3>1. HrmsUpdated(row[s], identity) \in Identities
      BY <2>1, <1>b, HrmsTyped
    <3>2. Refreshed(row[s], DerivedEnd(row[s], before[s], identity)) \in Identities
      BY <2>1, <1>b, DerivedEndTyped, RefreshedTyped
    <3> QED
      BY <3>1, <3>2
  <2> HIDE DEF id
  <2>3. WriteIdentity(s, id) /\ Compare(s, id) /\ pc[s] = "write"
    BY <1>8 DEF UpdateAndCompare, id
  <2>4. GhostOK' /\ identity' = id
    BY <2>2, <2>3, WriteTyped
  <2>5. SyncOK' /\ Working'
    BY <1>8, <2>2, <2>3, CompareTyped DEF UpdateAndCompare, Known
  <2>6. DocumentOK' /\ EventOK'
    BY <1>8, <2>2, <2>4 DEF UpdateAndCompare, TypeOK, DocumentOK, EventOK, events, worker, Known
  <2>7. Seen'
    BY <1>8, <2>2, <2>4, AbsentIsNone DEF UpdateAndCompare, Seen, events, worker
  <2> QED
    BY <2>4, <2>5, <2>6, <2>7 DEF TypeOK
<1>9. ASSUME NEW s \in Sync, EnqueueOne(s) PROVE Typed'
  <2>0. pc[s] = "enqueue" /\ run[s] \in 1 .. MaxRuns /\ identity # Absent
        /\ before[s] \in Known /\ after[s] \in Known
    BY <1>9 DEF EnqueueOne, Working, Seen, TypeOK, SyncOK
  <2>1. PICK e \in NextEvent(s) :
           /\ IF e = "TERMINATION_SCHEDULED"
              THEN /\ scheduled' = scheduled \union
                        {[run |-> run[s], date |-> EffectiveDate(after[s]),
                          prev |-> before[s], new |-> after[s]]}
                   /\ UNCHANGED open
              ELSE /\ open' = open \union
                        {[type |-> e, run |-> run[s], date |-> EffectiveDate(after[s])]}
                   /\ UNCHANGED scheduled
           /\ IF todo[s] = {e} THEN Finish(s)
              ELSE /\ todo' = [todo EXCEPT ![s] = @ \ {e}]
                   /\ UNCHANGED <<pc, run, path, row, before, existing, after>>
           /\ owed' = IF owed = e THEN "none" ELSE owed
    BY <1>9 DEF EnqueueOne
  <2>2. e \in EventTypes
    BY <2>1 DEF NextEvent, TypeOK, SyncOK
  <2>3. EffectiveDate(after[s]) \in Dates
    BY <2>0, <1>b, EndDates DEF EffectiveDate
  <2>4. EventOK'
    <3>1. scheduled' \subseteq ScheduledRows
      BY <2>0, <2>1, <2>3 DEF TypeOK, EventOK, ScheduledRows
    <3>2. open' \subseteq OpenEvents
      BY <2>0, <2>1, <2>2, <2>3 DEF TypeOK, EventOK, OpenEvents, Primary
    <3> QED
      BY <1>9, <3>1, <3>2 DEF EnqueueOne, TypeOK, EventOK, worker
  <2>5. SyncOK' /\ Working'
    <3>1. CASE todo[s] = {e}
      BY <1>9, <2>1, <3>1, FinishTyped DEF EnqueueOne
    <3>2. CASE todo[s] # {e}
      BY <1>9, <2>1, <3>2 DEF EnqueueOne, TypeOK, SyncOK, Working
    <3> QED
      BY <3>1, <3>2
  <2>6. DocumentOK' /\ GhostOK'
    BY <1>9, <2>1 DEF EnqueueOne, TypeOK, DocumentOK, GhostOK
  <2>7. Seen'
    BY <1>9, <2>0 DEF EnqueueOne, Seen, worker
  <2> QED
    BY <2>4, <2>5, <2>6, <2>7 DEF TypeOK
<1>10. ASSUME NEW s \in Sync, RunFails(s) PROVE Typed'
  <2>1. SyncOK' /\ Working' /\ pc'[s] = "idle" /\ \A u \in Sync \ {s} : pc'[u] = pc[u]
    BY <1>10, FinishTyped DEF RunFails
  <2>2. GhostOK' /\ troubles' \in 0 .. MaxTroubles
    BY <1>10, TroubleTyped DEF RunFails
  <2>3. DocumentOK' /\ EventOK'
    BY <1>10, <2>2 DEF RunFails, TypeOK, DocumentOK, EventOK, events, worker
  <2>4. Seen'
    BY <1>10, <2>1 DEF RunFails, Seen, events, worker
  <2> QED
    BY <2>1, <2>2, <2>3, <2>4 DEF TypeOK
<1>11. ASSUME UpdateIdentity PROVE Typed'
  <2>1. identity' \in Identities
    BY <1>11, <1>b DEF UpdateIdentity, Edits, Known, Identities
  <2>2. GhostOK' /\ troubles' \in 0 .. MaxTroubles
    BY <1>11, TroubleTyped DEF UpdateIdentity
  <2>3. SyncOK' /\ Working'
    BY <1>11 DEF UpdateIdentity, TypeOK, SyncOK, Working, syncs
  <2>4. DocumentOK' /\ EventOK'
    BY <1>11, <2>1, <2>2 DEF UpdateIdentity, TypeOK, DocumentOK, EventOK, events, worker, Known
  <2>5. Seen'
    BY <1>11, <2>1, AbsentIsNone DEF UpdateIdentity, Seen, worker
  <2> QED
    BY <2>2, <2>3, <2>4, <2>5 DEF TypeOK
<1>12. ASSUME Tick PROVE Typed'
  <2>1. DocumentOK'
    BY <1>12, BoundAssumption DEF Tick, TypeOK, DocumentOK
  <2>2. SyncOK' /\ EventOK' /\ GhostOK' /\ Working' /\ Seen'
    BY <1>12 DEF Tick, TypeOK, SyncOK, EventOK, GhostOK, Working, Seen, syncs, events, worker, ghosts
  <2> QED
    BY <2>1, <2>2 DEF TypeOK
<1>13. ASSUME NEW r \in scheduled, Promote(r) PROVE Typed'
  <2>1. r.run \in 1 .. MaxRuns /\ r.date \in Dates
    BY DEF TypeOK, EventOK, ScheduledRows
  <2>2. EventOK'
    <3>1. open' \subseteq OpenEvents
      BY <1>13, <2>1, PromotedPrimary DEF Promote, TypeOK, EventOK, OpenEvents
    <3> QED
      BY <1>13, <3>1 DEF Promote, TypeOK, EventOK, worker
  <2>3. DocumentOK' /\ SyncOK' /\ GhostOK' /\ Working'
    BY <1>13 DEF Promote, TypeOK, DocumentOK, SyncOK, GhostOK, Working, syncs, ghosts
  <2>4. Seen'
    BY <1>13 DEF Promote, Seen, syncs, worker
  <2> QED
    BY <2>2, <2>3, <2>4 DEF TypeOK
<1>14. ASSUME NEW e \in open, HandleOther(e) PROVE Typed'
  <2>1. EventOK' /\ DocumentOK' /\ SyncOK' /\ GhostOK' /\ Working'
    BY <1>14 DEF HandleOther, TypeOK, EventOK, DocumentOK, SyncOK, GhostOK, Working, syncs, worker
  <2>2. Seen'
    BY <1>14 DEF HandleOther, Seen, syncs, worker
  <2> QED
    BY <2>1, <2>2 DEF TypeOK
<1>15. ASSUME NEW e \in open, LeaverRead(e) PROVE Typed'
  <2>1. EventOK' /\ DocumentOK' /\ SyncOK' /\ GhostOK' /\ Working'
    BY <1>15, <1>b DEF LeaverRead, TypeOK, EventOK, DocumentOK, SyncOK, GhostOK, Working, syncs, ghosts
  <2>2. Seen'
    BY <1>15 DEF LeaverRead, Seen, syncs
  <2> QED
    BY <2>1, <2>2 DEF TypeOK
<1>16. ASSUME NEW e \in leaver, LeaverWrite(e) PROVE Typed'
  <2>1. read \in Identities /\ identity \in Identities /\ e.date \in Dates
    BY <1>b DEF Seen, TypeOK, EventOK, OpenEvents, Known
  <2>2. read.life \in Lives /\ read.life # ""
    BY <2>1, NoLife DEF Identities
  <2>3. identity' \in Identities
    BY <1>16, <2>1, <2>2 DEF LeaverWrite, Identities
  <2>4. DocumentOK' /\ EventOK' /\ SyncOK' /\ GhostOK' /\ Working'
    BY <1>16, <2>3 DEF LeaverWrite, TypeOK, EventOK, DocumentOK, SyncOK, GhostOK, Working,
                       syncs, events, Known
  <2>5. Seen'
    BY <1>16, <2>3, AbsentIsNone DEF LeaverWrite, Seen
  <2> QED
    BY <2>4, <2>5 DEF TypeOK
<1>17. ASSUME UNCHANGED vars PROVE Typed'
  BY <1>17 DEF vars, syncs, events, worker, ghosts, TypeOK, DocumentOK, SyncOK, EventOK,
               GhostOK, Working, Seen
<1> QED
  BY <1>1, <1>2, <1>3, <1>4, <1>5, <1>6, <1>7, <1>8, <1>9, <1>10, <1>11, <1>12, <1>13, <1>14,
     <1>15, <1>16, <1>17 DEF Next, SyncStep

\* Every reachable state of identity, runs, events and worker is well typed.
THEOREM TypeCorrect == Spec => []TypeOK
<1>1. Typed => TypeOK
  BY DEF Typed
<1> QED
  BY TypeInit, TypeStep, <1>1, PTL DEF Spec

-----------------------------------------------------------------------------
(* Every change of mind of the source is reported                           *)

\* The states that say clearly whether a person is in or out: QUARANTINE is
\* neither, and LEAVER does not make a leaver by itself.
PlainStates == {"TERMINATED", "INACTIVE"} \union ACTIVE_STATES

\* The event that a change of lifecycleState from x to y calls for.
Calls(t, x, y) ==
  \/ t = "JOINER" /\ x = ""
  \/ t = "LEAVER" /\ x # "" /\ ~IsTerminationState(x) /\ IsTerminationState(y)
  \/ t = "REHIRE" /\ IsTerminationState(x) /\ ~IsTerminationState(y)

\* What the source said is what the document shows, ...
Shown ==
  /\ hr = "unknown" <=> identity = Absent
  /\ hr = "in" => ~IsTerminationState(identity.life)
  /\ hr \in {"out", "never"} => IsTerminationState(identity.life)

\* ... also to a run that is about to write and to the leaver handler, ...
Current ==
  /\ \A s \in Sync : pc[s] \notin {"fallbackRead", "fallbackWrite"}
  /\ \A s \in Sync : pc[s] = "write" => before[s].life = identity.life
  /\ leaver # {} => read.life = identity.life

\* ... and what is owed is about to be detected or stored.
Reports(s) ==
  \/ pc[s] = "readAfter" /\ Calls(owed, before[s].life, identity.life)
  \/ owed \in todo[s]
Pending == owed # "none" => \E s \in Sync : Reports(s)

Noticing == clean => Shown /\ Current /\ Pending

LEMMA Detects ==
  ASSUME Lives \subseteq PlainStates,
         NEW b \in Known, NEW a \in Identities, NEW t, Calls(t, b.life, a.life)
  PROVE  t \in Detect(b, a)
<1>1. a.life \in PlainStates /\ a.life # ""
  BY DEF Identities, PlainStates, ACTIVE_STATES
<1>2. CASE b.life = ""
  <2>1. b = Absent
    BY <1>2, NoLife DEF Known, Identities
  <2>2. t = "JOINER"
    BY <1>2 DEF Calls, IsTerminationState, TERMINATED_STATES
  <2> QED
    BY <2>1, <2>2 DEF Detect
<1>3. CASE b.life # ""
  <2>0. b.life # a.life
    BY <1>3 DEF Calls
  <2>1. b # Absent /\ b # a
    BY <2>0, <1>3, AbsentLife
  <2>2. CASE t = "LEAVER"
    <3>1. BecameTerminated(b, a)
      BY <1>1, <2>2, <1>3 DEF BecameTerminated, Calls, PlainStates, ACTIVE_STATES,
                          IsTerminationState, TERMINATED_STATES
    <3> QED
      BY <2>1, <2>2, <3>1 DEF Detect, IsLeaver, EventTypes
  <2>3. CASE t = "REHIRE"
    <3>1. IsRehire(b, a)
      BY <1>1, <2>3 DEF IsRehire, Calls, PlainStates, IsActiveLikeState,
                          IsTerminationState, TERMINATED_STATES
    <3> QED
      BY <2>1, <2>3, <3>1 DEF Detect, EventTypes
  <2> QED
    BY <1>3, <2>2, <2>3 DEF Calls
<1> QED
  BY <1>2, <1>3

\* In every document that a run writes, isActive and lifecycleState agree that
\* the person left.
LEMMA FlagsWritten ==
  ASSUME NEW r \in RowsOf("hrms"), NEW end, NEW old
  PROVE  /\ Departed(Refreshed(r, end)) <=> IsTerminationState(r.life)
         /\ Departed(HrmsUpdated(r, old)) <=> IsTerminationState(r.life)
         /\ Refreshed(r, end).life = r.life /\ HrmsUpdated(r, old).life = r.life
<1>1. r \in Rows /\ (r.active \/ IsTerminationState(r.life))
  BY DEF RowsOf, IsTerminationState, TERMINATED_STATES, Rows
<1> QED
  BY <1>1 DEF Departed, Refreshed, HrmsUpdated, IsTerminationState, Rows

\* A run that writes while the record is clean: the source's word is shown, and
\* a new debt is one that its own difference calls for.
LEMMA WriteNotices ==
  ASSUME Typed, Noticing, NEW s \in Sync, NEW id \in Identities, WriteIdentity(s, id),
         Departed(id) <=> IsTerminationState(id.life), pc[s] = "write", clean'
  PROVE  /\ clean /\ Comparing \subseteq {s} /\ leaver = {}
         /\ Shown'
         /\ owed' # "none" => owed' = owed \/ Calls(owed', before[s].life, id.life)
<1>1. clean /\ Comparing \subseteq {s} /\ leaver = {} /\ identity' = id
      /\ hr' = SaidOf(id) /\ owed' = OwedFor(id)
  BY DEF WriteIdentity, Forget
<1>2. Shown /\ before[s].life = identity.life
  BY <1>1 DEF Noticing, Current
<1>3. Shown'
  <2>1. hr' = (IF ~IsTerminationState(id.life) THEN "in"
               ELSE IF hr \in {"in", "out"} THEN "out" ELSE "never")
    BY <1>1 DEF SaidOf
  <2> QED
    BY <1>1, <2>1, AbsentIsNone DEF Shown
<1>4. hr \in {"unknown", "never", "in", "out"} /\ identity \in Known
  BY DEF Typed, TypeOK, GhostOK, DocumentOK
<1>5. CASE hr = "unknown"
  <2>1. owed' = "JOINER"
    BY <1>1, <1>5 DEF OwedFor
  <2>2. before[s].life = ""
    BY <1>2, <1>5, AbsentLife DEF Shown
  <2> QED
    BY <1>1, <1>3, <2>1, <2>2 DEF Calls
<1>6. CASE hr = "in"
  <2>1. before[s].life # "" /\ ~IsTerminationState(before[s].life)
    BY <1>2, <1>4, <1>6, NoLife DEF Shown, Known, Identities
  <2>2. owed' = (IF Departed(id) THEN "LEAVER" ELSE owed)
    BY <1>1, <1>6 DEF OwedFor
  <2> QED
    BY <1>1, <1>3, <2>1, <2>2 DEF Calls
<1>7. CASE hr \in {"out", "never"}
  <2>1. IsTerminationState(before[s].life)
    BY <1>2, <1>7 DEF Shown
  <2>2. owed' = (IF Departed(id) THEN owed ELSE "REHIRE")
    BY <1>1, <1>7 DEF OwedFor
  <2> QED
    BY <1>1, <1>3, <2>1, <2>2 DEF Calls
<1> QED
  BY <1>4, <1>5, <1>6, <1>7

\* What the other runs have to report, they still have.
LEMMA OthersReport ==
  ASSUME NEW s \in Sync, identity'.life = identity.life, owed' = owed, Pending, ~Reports(s),
         \A u \in Sync \ {s} :
           pc'[u] = pc[u] /\ before'[u] = before[u] /\ todo'[u] = todo[u]
  PROVE  Pending'
BY DEF Pending, Reports

\* When a run compares, it goes on to store what its difference calls for.
LEMMA CompareNotices ==
  ASSUME Lives \subseteq PlainStates, Typed, NEW s \in Sync, NEW a \in Identities,
         NEW t, Calls(t, before[s].life, a.life), Compare(s, a)
  PROVE  t \in todo'[s]
<1>1. before[s] \in Known
  BY DEF Typed, TypeOK, SyncOK
<1>2. t \in Detect(before[s], a)
  BY <1>1, Detects
<1> QED
  BY <1>2 DEF Compare, Typed, TypeOK, SyncOK

\* The other runs are not touched by one that finishes or compares.
LEMMA CompareLocal ==
  ASSUME Typed, NEW s \in Sync, NEW a, Compare(s, a)
  PROVE  /\ pc'[s] \in {"idle", "enqueue"}
         /\ \A u \in Sync \ {s} :
               pc'[u] = pc[u] /\ before'[u] = before[u] /\ todo'[u] = todo[u]
BY DEF Compare, Finish, Goto, Typed, TypeOK, SyncOK

LEMMA NoticeStep ==
  ASSUME Lives \subseteq PlainStates
  PROVE  Typed /\ Noticing /\ [Next]_vars => Noticing'
<1> SUFFICES ASSUME Typed, Noticing, [Next]_vars, clean'
             PROVE  (Shown /\ Current /\ Pending)'
  BY DEF Noticing
<1>a. TypeOK /\ SyncOK /\ Working /\ Seen /\ identity \in Known
  BY DEF Typed, TypeOK, DocumentOK
<1>b. clean => Shown /\ Current /\ Pending
  BY DEF Noticing
<1> DEFINE Goal == (Shown /\ Current /\ Pending)'
<1>1. ASSUME NEW s \in Sync, ReadBefore(s) PROVE Goal
  <2>1. PICK q \in Path : Begin(s, q)
    BY <1>1 DEF ReadBefore
  <2>2. /\ pc[s] = "idle" /\ todo[s] = {} /\ pc'[s] = "write" /\ before'[s] = identity
        /\ \A u \in Sync \ {s} : pc'[u] = pc[u] /\ before'[u] = before[u]
        /\ UNCHANGED <<identity, todo, leaver, read, hr, owed, clean>>
    BY <1>1, <1>a, <2>1 DEF ReadBefore, Begin, Goto, SyncOK, Working, worker, ghosts
  <2>3. Shown' /\ Current'
    BY <1>b, <2>2 DEF Shown, Current
  <2>4. Pending'
    BY <1>b, <2>2, OthersReport DEF Reports
  <2> QED
    BY <2>3, <2>4
<1>2. ASSUME NEW s \in Sync, PrefetchFails(s) PROVE Goal
  BY <1>2 DEF PrefetchFails, Trouble, Forget
<1>3. ASSUME NEW s \in Sync, BulkWrite(s) PROVE Goal
  <2> DEFINE id == Refreshed(row[s], PipelineEnd(row[s], identity))
  <2>1. pc[s] = "write" /\ row[s] \in RowsOf("hrms") /\ todo[s] = {} /\ WriteIdentity(s, id)
    BY <1>3, <1>a DEF BulkWrite, Working, Writing
  <2>2. id \in Identities
    BY <2>1, <1>a, RowsTyped, PipelineEndTyped, RefreshedTyped
  <2>3. Departed(id) <=> IsTerminationState(id.life)
    BY <2>1, FlagsWritten
  <2>4. /\ clean /\ Comparing \subseteq {s} /\ leaver = {}
        /\ Shown'
        /\ owed' # "none" => owed' = owed \/ Calls(owed', before[s].life, id.life)
    BY <2>1, <2>2, <2>3, WriteNotices
  <2>5. identity' = id /\ leaver' = {} /\ before' = before /\ todo' = todo
    BY <1>3, <2>4 DEF BulkWrite, WriteIdentity, worker
  <2>6. pc'[s] = "readAfter" /\ \A u \in Sync \ {s} : pc'[u] = pc[u]
    BY <1>3, <1>a DEF BulkWrite, Goto, SyncOK
  <2>7. \A u \in Sync \ {s} :
           pc[u] \notin {"write", "fallbackRead", "fallbackWrite", "readAfter"}
    BY <2>4 DEF Comparing
  <2>8. Current'
    BY <2>5, <2>6, <2>7 DEF Current
  <2>9. Pending'
    <3> SUFFICES ASSUME owed' # "none" PROVE \E u \in Sync : Reports(u)'
      BY DEF Pending
    <3>1. CASE Calls(owed', before[s].life, id.life)
      BY <3>1, <2>5, <2>6 DEF Reports
    <3>2. CASE owed' = owed
      <4>1. PICK u \in Sync : Reports(u)
        BY <1>b, <2>4, <3>2 DEF Pending
      <4>2. u # s /\ owed \in todo[u]
        BY <4>1, <2>1, <2>7 DEF Reports
      <4> QED
        BY <3>2, <4>2, <2>5 DEF Reports
    <3> QED
      BY <3>1, <3>2, <2>4
  <2> QED
    BY <2>4, <2>8, <2>9
<1>4. ASSUME NEW s \in Sync, BulkFails(s) PROVE Goal
  BY <1>4 DEF BulkFails, Trouble, Forget
<1>5. ASSUME NEW s \in Sync, FallbackRead(s) PROVE Goal
  BY <1>5, <1>b DEF FallbackRead, Current, ghosts
<1>6. ASSUME NEW s \in Sync, FallbackWrite(s) PROVE Goal
  BY <1>6, <1>b DEF FallbackWrite, WriteIdentity, Forget, Current
<1>7. ASSUME NEW s \in Sync, ReadAfter(s) PROVE Goal
  <2>1. pc[s] = "readAfter" /\ todo[s] = {} /\ Compare(s, identity)
        /\ UNCHANGED <<identity, leaver, read, hr, owed, clean>>
    BY <1>7, <1>a DEF ReadAfter, Working, worker, ghosts
  <2>2. identity \in Identities
    BY <1>a, <2>1 DEF Seen, Known
  <2>3. /\ pc'[s] \in {"idle", "enqueue"}
        /\ \A u \in Sync \ {s} :
              pc'[u] = pc[u] /\ before'[u] = before[u] /\ todo'[u] = todo[u]
    BY <2>1, CompareLocal
  <2>4. Shown' /\ Current'
    BY <1>b, <2>1, <2>3 DEF Shown, Current
  <2>5. CASE Reports(s) /\ owed # "none"
    <3>1. Calls(owed, before[s].life, identity.life)
      BY <2>5, <2>1 DEF Reports
    <3>2. owed' \in todo'[s]
      BY <3>1, <2>1, <2>2, CompareNotices
    <3> QED
      BY <2>4, <3>2 DEF Pending, Reports
  <2>6. CASE ~Reports(s)
    BY <1>b, <2>1, <2>3, <2>4, <2>6, OthersReport
  <2>7. CASE owed = "none"
    BY <2>1, <2>4, <2>7 DEF Pending
  <2> QED
    BY <2>5, <2>6, <2>7
<1>8. ASSUME NEW s \in Sync, UpdateAndCompare(s) PROVE Goal
  <2>1. pc[s] = "write" /\ row[s] \in RowsOf("hrms") /\ todo[s] = {} /\ before[s] \in Known
        /\ leaver' = leaver
    BY <1>8, <1>a DEF UpdateAndCompare, Working, Writing, SyncOK, worker
  <2>2. PICK id \in Identities : /\ Departed(id) <=> IsTerminationState(id.life)
                                 /\ WriteIdentity(s, id) /\ Compare(s, id)
    <3>1. HrmsUpdated(row[s], identity) \in Identities
      BY <2>1, <1>a, RowsTyped, HrmsTyped
    <3>2. Refreshed(row[s], DerivedEnd(row[s], before[s], identity)) \in Identities
      BY <2>1, <1>a, RowsTyped, DerivedEndTyped, RefreshedTyped
    <3> QED
      BY <1>8, <2>1, <3>1, <3>2, FlagsWritten DEF UpdateAndCompare
  <2>4. /\ clean /\ Comparing \subseteq {s} /\ leaver = {}
        /\ Shown'
        /\ owed' # "none" => owed' = owed \/ Calls(owed', before[s].life, id.life)
    BY <2>1, <2>2, WriteNotices
  <2>5. identity' = id
    BY <2>2 DEF WriteIdentity
  <2>6. /\ pc'[s] \in {"idle", "enqueue"}
        /\ \A u \in Sync \ {s} :
              pc'[u] = pc[u] /\ before'[u] = before[u] /\ todo'[u] = todo[u]
    BY <2>2, CompareLocal
  <2>7. \A u \in Sync \ {s} :
           pc[u] \notin {"write", "fallbackRead", "fallbackWrite", "readAfter"}
    BY <2>4 DEF Comparing
  <2>8. Current'
    BY <2>1, <2>4, <2>6, <2>7 DEF Current
  <2>9. Pending'
    <3> SUFFICES ASSUME owed' # "none" PROVE \E u \in Sync : Reports(u)'
      BY DEF Pending
    <3>1. CASE Calls(owed', before[s].life, id.life)
      <4>1. owed' \in todo'[s]
        BY <3>1, <2>2, CompareNotices
      <4> QED
        BY <4>1 DEF Reports
    <3>2. CASE owed' = owed
      <4>1. PICK u \in Sync : Reports(u)
        BY <1>b, <2>4, <3>2 DEF Pending
      <4>2. u # s /\ owed \in todo[u]
        BY <4>1, <2>1, <2>7 DEF Reports
      <4> QED
        BY <3>2, <4>2, <2>6 DEF Reports
    <3> QED
      BY <3>1, <3>2, <2>4
  <2> QED
    BY <2>4, <2>8, <2>9
<1>9. ASSUME NEW s \in Sync, EnqueueOne(s) PROVE Goal
  <2>1. pc[s] = "enqueue" /\ UNCHANGED <<identity, leaver, read, hr, clean>>
    BY <1>9 DEF EnqueueOne, worker
  <2>2. PICK e \in NextEvent(s) :
           /\ IF todo[s] = {e} THEN Finish(s)
              ELSE /\ todo' = [todo EXCEPT ![s] = @ \ {e}]
                   /\ UNCHANGED <<pc, run, path, row, before, existing, after>>
           /\ owed' = IF owed = e THEN "none" ELSE owed
    BY <1>9 DEF EnqueueOne
  <2>3. /\ \A u \in Sync \ {s} :
              pc'[u] = pc[u] /\ before'[u] = before[u] /\ todo'[u] = todo[u]
        /\ pc'[s] \in {"idle", "enqueue"}
        /\ todo'[s] = todo[s] \ {e}
    <3>1. CASE todo[s] = {e}
      BY <3>1, <2>2, <1>a DEF Finish, Goto, SyncOK
    <3>2. CASE todo[s] # {e}
      BY <3>2, <2>1, <2>2, <1>a DEF SyncOK
    <3> QED
      BY <3>1, <3>2
  <2>4. Shown' /\ Current'
    BY <1>b, <2>1, <2>3 DEF Shown, Current
  <2>5. Pending'
    <3> SUFFICES ASSUME owed' # "none" PROVE \E u \in Sync : Reports(u)'
      BY DEF Pending
    <3>1. owed' = owed /\ owed # e
      BY <2>2
    <3>2. PICK u \in Sync : Reports(u)
      BY <1>b, <2>1, <3>1 DEF Pending
    <3>3. CASE u = s
      BY <3>1, <3>2, <3>3, <2>1, <2>3 DEF Reports
    <3>4. CASE u # s
      BY <3>1, <3>2, <3>4, <2>1, <2>3 DEF Reports
    <3> QED
      BY <3>3, <3>4
  <2> QED
    BY <2>4, <2>5
<1>10. ASSUME NEW s \in Sync, RunFails(s) PROVE Goal
  BY <1>10 DEF RunFails, Trouble, Forget
<1>11. ASSUME UpdateIdentity PROVE Goal
  BY <1>11 DEF UpdateIdentity, Trouble, Forget
<1>12. ASSUME UNCHANGED <<identity, pc, before, todo, hr, owed, clean>>,
              leaver' # {} => (leaver # {} /\ read' = read) \/ read' = identity
       PROVE  Goal
  BY <1>12, <1>b DEF Shown, Current, Pending, Reports
<1>13. ASSUME Tick PROVE Goal
  BY <1>12, <1>13 DEF Tick, syncs, events, worker, ghosts
<1>14. ASSUME NEW r \in scheduled, Promote(r) PROVE Goal
  BY <1>12, <1>14 DEF Promote, syncs, worker, ghosts
<1>15. ASSUME NEW e \in open, HandleOther(e) PROVE Goal
  BY <1>12, <1>15 DEF HandleOther, syncs, worker
<1>16. ASSUME NEW e \in open, LeaverRead(e) PROVE Goal
  BY <1>12, <1>16 DEF LeaverRead, syncs, ghosts
<1>17. ASSUME NEW e \in leaver, LeaverWrite(e) PROVE Goal
  <2>1. UNCHANGED <<pc, before, todo, hr, owed, clean>> /\ leaver' = {}
    BY <1>17 DEF LeaverWrite, syncs
  <2>2. read.life = identity.life /\ identity \in Identities /\ identity # Absent
    BY <1>a, <1>b, <2>1, AbsentIsNone DEF Current, Seen, Known
  <2>3. identity.life # ""
    BY <2>2, NoLife DEF Identities
  <2>4. identity'.life = identity.life
    BY <1>17, <2>2, <2>3 DEF LeaverWrite, Identities
  <2>5. identity' # Absent
    BY <2>3, <2>4, AbsentLife
  <2> QED
    BY <1>b, <2>1, <2>2, <2>4, <2>5 DEF Shown, Current, Pending, Reports
<1>18. CASE UNCHANGED vars
  BY <1>12, <1>18 DEF vars, syncs, worker, ghosts
<1> QED
  BY <1>1, <1>2, <1>3, <1>4, <1>5, <1>6, <1>7, <1>8, <1>9, <1>10, <1>11, <1>13, <1>14,
     <1>15, <1>16, <1>17, <1>18 DEF Next, SyncStep

\* Where lifecycleState is always plainly in or out, no change of mind of the
\* source goes unreported as long as runs do not overlap, no call fails, nobody
\* edits and no run writes between the leaver handler's read and its write; on
\* every path.
THEOREM ChangesAreReported ==
  ASSUME Lives \subseteq PlainStates
  PROVE  Spec => []TransitionsNoticed
<1>1. Init => Noticing
  BY AbsentLife DEF Init, Noticing, Shown, Current, Pending
<1>2. Typed /\ Noticing => TransitionsNoticed
  <2> SUFFICES ASSUME Typed, Noticing, clean, owed # "none" PROVE Reporting # {}
    BY DEF TransitionsNoticed
  <2>1. PICK s \in Sync : Reports(s)
    BY DEF Noticing, Pending
  <2> QED
    BY <2>1 DEF Reports, Reporting
<1> QED
  BY TypeInit, TypeStep, NoticeStep, <1>1, <1>2, PTL DEF Spec

-----------------------------------------------------------------------------
(* A promotion yields a leaver event of its own                             *)

Leaving == {"LEAVER", "TERMINATION_SCHEDULED"}

\* A run stands for one departure at most, scheduled or stored: its number is
\* its own, and what it stores is either.
ByRun ==
  /\ \A s \in Sync : pc[s] # "idle" => run[s] <= runs
  /\ \A s, u \in Sync : pc[s] # "idle" /\ pc[u] # "idle" /\ run[s] = run[u] => s = u
  /\ \A s \in Sync : ~(Leaving \subseteq todo[s])
  /\ \A e \in open : e.run <= runs
  /\ \A r \in scheduled :
        /\ r.run <= runs
        /\ \A q \in scheduled : q.run = r.run => q = r
        /\ \A e \in open : e.type = "LEAVER" => e.run # r.run

\* A run at work has stored no departure but the one it no longer has to do.
Spent ==
  \A s \in Sync : \A x \in scheduled \union {e \in open : e.type = "LEAVER"} :
    pc[s] # "idle" /\ run[s] = x.run => pc[s] = "enqueue" /\ todo[s] \intersect Leaving = {}

Numbered == ByRun /\ Spent

\* What a run that finishes, compares or moves on does to the numbers.
LEMMA NumbersKept ==
  ASSUME Typed, Numbered, NEW s \in Sync, pc[s] # "idle",
         UNCHANGED <<runs, open, scheduled>>,
         \A u \in Sync \ {s} : pc'[u] = pc[u] /\ run'[u] = run[u] /\ todo'[u] = todo[u],
         pc'[s] # "idle" => /\ run'[s] = run[s]
                            /\ pc[s] # "enqueue" \/ (pc'[s] = pc[s] /\ todo'[s] \subseteq todo[s]),
         ~(Leaving \subseteq todo'[s])
  PROVE  Numbered'
<1>1. ByRun'
  BY DEF Numbered, ByRun
<1>2. Spent'
  BY DEF Numbered, Spent
<1> QED
  BY <1>1, <1>2 DEF Numbered

LEMMA OneDeparture == ASSUME NEW b, NEW a PROVE ~(Leaving \subseteq Detect(b, a))
<1> SUFFICES ASSUME "LEAVER" \in Detect(b, a), "TERMINATION_SCHEDULED" \in Detect(b, a)
             PROVE  FALSE
  BY DEF Leaving
<1>1. b # Absent /\ b # a
  BY DEF Detect
<1> QED
  BY <1>1 DEF Detect, IsScheduled

LEMMA FinishLocal ==
  ASSUME Typed, NEW s \in Sync, Finish(s)
  PROVE  /\ pc'[s] = "idle" /\ todo'[s] = {}
         /\ \A u \in Sync \ {s} : /\ pc'[u] = pc[u] /\ run'[u] = run[u] /\ todo'[u] = todo[u]
                                  /\ before'[u] = before[u] /\ after'[u] = after[u]
BY DEF Finish, Goto, Typed, TypeOK, SyncOK

\* A comparison finds nothing, or leaves its run with the events to store.
LEMMA CompareFinds ==
  ASSUME Typed, NEW s \in Sync, NEW a, Compare(s, a)
  PROVE  /\ \/ pc'[s] = "idle" /\ todo'[s] = {}
            \/ /\ pc'[s] = "enqueue" /\ run'[s] = run[s] /\ before'[s] = before[s]
               /\ todo'[s] = Detect(before[s], a) /\ after'[s] = a
         /\ \A u \in Sync \ {s} : /\ pc'[u] = pc[u] /\ run'[u] = run[u] /\ todo'[u] = todo[u]
                                  /\ before'[u] = before[u] /\ after'[u] = after[u]
<1>1. CASE Detect(before[s], a) = {}
  BY <1>1, FinishLocal DEF Compare
<1>2. CASE Detect(before[s], a) # {}
  BY <1>2 DEF Compare, Goto, Typed, TypeOK, SyncOK
<1> QED
  BY <1>1, <1>2

LEMMA NumbersCompared ==
  ASSUME Typed, Numbered, NEW s \in Sync, NEW a, pc[s] \notin {"idle", "enqueue"},
         Compare(s, a), UNCHANGED <<runs, open, scheduled>>
  PROVE  Numbered'
<1>1. ~(Leaving \subseteq todo'[s])
  BY CompareFinds, OneDeparture DEF Leaving
<1>2. /\ \A u \in Sync \ {s} : pc'[u] = pc[u] /\ run'[u] = run[u] /\ todo'[u] = todo[u]
      /\ pc'[s] # "idle" => run'[s] = run[s]
  BY CompareFinds
<1> QED
  BY <1>1, <1>2, NumbersKept

\* Storing the next event of a run.
Stores(s, t) ==
  /\ \/ /\ t = "TERMINATION_SCHEDULED" /\ open' = open
        /\ scheduled' = scheduled \union
             {[run |-> run[s], date |-> EffectiveDate(after[s]),
               prev |-> before[s], new |-> after[s]]}
     \/ /\ t # "TERMINATION_SCHEDULED" /\ scheduled' = scheduled
        /\ open' = open \union
             {[type |-> t, run |-> run[s], date |-> EffectiveDate(after[s])]}
  /\ todo'[s] = todo[s] \ {t} /\ owed' = (IF owed = t THEN "none" ELSE owed)
  /\ \/ pc'[s] = "idle"
     \/ /\ pc'[s] = "enqueue" /\ run'[s] = run[s]
        /\ before'[s] = before[s] /\ after'[s] = after[s]
  /\ \A u \in Sync \ {s} : /\ pc'[u] = pc[u] /\ run'[u] = run[u] /\ todo'[u] = todo[u]
                           /\ before'[u] = before[u] /\ after'[u] = after[u]

LEMMA Stored ==
  ASSUME Typed, NEW s \in Sync, EnqueueOne(s)
  PROVE  \E t \in todo[s] : Stores(s, t)
<1>1. PICK t \in NextEvent(s) :
           /\ IF t = "TERMINATION_SCHEDULED"
              THEN /\ scheduled' = scheduled \union
                        {[run |-> run[s], date |-> EffectiveDate(after[s]),
                          prev |-> before[s], new |-> after[s]]}
                   /\ UNCHANGED open
              ELSE /\ open' = open \union
                        {[type |-> t, run |-> run[s], date |-> EffectiveDate(after[s])]}
                   /\ UNCHANGED scheduled
           /\ IF todo[s] = {t} THEN Finish(s)
              ELSE /\ todo' = [todo EXCEPT ![s] = @ \ {t}]
                   /\ UNCHANGED <<pc, run, path, row, before, existing, after>>
           /\ owed' = IF owed = t THEN "none" ELSE owed
  BY DEF EnqueueOne
<1>2. t \in todo[s] /\ pc[s] = "enqueue"
  BY DEF NextEvent, EnqueueOne
<1>3. /\ todo'[s] = todo[s] \ {t}
      /\ \/ pc'[s] = "idle"
         \/ /\ pc'[s] = "enqueue" /\ run'[s] = run[s]
            /\ before'[s] = before[s] /\ after'[s] = after[s]
      /\ \A u \in Sync \ {s} : /\ pc'[u] = pc[u] /\ run'[u] = run[u] /\ todo'[u] = todo[u]
                               /\ before'[u] = before[u] /\ after'[u] = after[u]
  <2>1. CASE todo[s] = {t}
    BY <1>1, <2>1, FinishLocal
  <2>2. CASE todo[s] # {t}
    BY <1>1, <1>2, <2>2 DEF Typed, TypeOK, SyncOK
  <2> QED
    BY <2>1, <2>2
<1> QED
  BY <1>1, <1>2, <1>3 DEF Stores

LEMMA NumbersStored ==
  ASSUME Typed, Numbered, NEW s \in Sync, EnqueueOne(s)
  PROVE  Numbered'
<1>1. /\ pc[s] = "enqueue" /\ runs' = runs /\ run[s] <= runs
      /\ \A u \in Sync \ {s} : pc[u] # "idle" => run[u] # run[s]
  BY DEF EnqueueOne, Numbered, ByRun
<1>2. PICK t \in todo[s] : Stores(s, t)
  BY Stored
<1>3. CASE t \notin Leaving
  <2>1. /\ scheduled' = scheduled
        /\ \A e \in open' \ open : e.run = run[s] /\ e.type # "LEAVER"
    BY <1>2, <1>3 DEF Leaving, Stores
  <2> QED
    BY <1>1, <1>2, <2>1 DEF Numbered, ByRun, Spent, Stores
<1>4. CASE t \in Leaving
  <2>1. todo'[s] \intersect Leaving = {}
    BY <1>2, <1>4 DEF Numbered, ByRun, Leaving, Stores
  <2>2. /\ \A r \in scheduled : r.run # run[s]
        /\ \A e \in open : e.type = "LEAVER" => e.run # run[s]
    BY <1>1, <1>4 DEF Numbered, Spent
  <2>3. CASE t = "LEAVER"
    <3>1. /\ scheduled' = scheduled
          /\ \A e \in open' \ open : e.run = run[s]
      BY <1>2, <2>3 DEF Stores
    <3> QED
      BY <1>1, <1>2, <2>1, <2>2, <3>1 DEF Numbered, ByRun, Spent, Leaving, Stores
  <2>4. CASE t = "TERMINATION_SCHEDULED"
    <3>1. PICK n : n.run = run[s] /\ scheduled' = scheduled \union {n} /\ open' = open
      BY <1>2, <2>4 DEF Stores
    <3> QED
      BY <1>1, <1>2, <2>1, <2>2, <3>1 DEF Numbered, ByRun, Spent, Leaving, Stores
  <2> QED
    BY <1>4, <2>3, <2>4 DEF Leaving
<1> QED
  BY <1>3, <1>4

LEMMA NumbersStep == Typed /\ Numbered /\ [Next]_vars => Numbered'
<1> SUFFICES ASSUME Typed, Numbered, [Next]_vars PROVE Numbered'
  OBVIOUS
<1>a. TypeOK /\ SyncOK /\ Working
  BY DEF Typed, TypeOK
<1>b. \A s \in Sync : pc[s] \in Writing \union {"readAfter"} => todo[s] = {}
  BY <1>a DEF Working, Writing
<1>1. ASSUME NEW s \in Sync, ReadBefore(s) \/ PrefetchFails(s) PROVE Numbered'
  <2>1. PICK p : Begin(s, p)
    BY <1>1 DEF ReadBefore, PrefetchFails
  <2>2. /\ runs \in Nat /\ runs' = runs + 1 /\ pc[s] = "idle" /\ run'[s] = runs + 1
        /\ todo[s] = {} /\ pc'[s] = "write"
        /\ \A u \in Sync \ {s} : pc'[u] = pc[u] /\ run'[u] = run[u]
        /\ UNCHANGED <<todo, open, scheduled>>
    BY <1>a, <2>1, BoundAssumption DEF Begin, Goto, SyncOK, Working, events
  <2>4. /\ \A u \in Sync : run[u] \in Nat
        /\ \A e \in open : e.run \in Nat
        /\ \A r \in scheduled : r.run \in Nat
    BY <1>a DEF TypeOK, EventOK, OpenEvents, ScheduledRows, SyncOK
  <2>5. ByRun'
    <3>1. \A u \in Sync \ {s} : pc'[u] # "idle" => run'[u] <= runs /\ run'[u] # run'[s]
      BY <2>2, <2>4 DEF Numbered, ByRun
    <3>2. /\ \A e \in open' : e.run <= runs'
          /\ \A r \in scheduled' : r.run <= runs'
      BY <2>2, <2>4 DEF Numbered, ByRun
    <3>3. \A u \in Sync : pc'[u] # "idle" => run'[u] <= runs'
      BY <2>2, <2>4, <3>1
    <3>4. \A u, w \in Sync : pc'[u] # "idle" /\ pc'[w] # "idle" /\ run'[u] = run'[w] => u = w
      BY <2>2, <3>1 DEF Numbered, ByRun
    <3> QED
      BY <2>2, <3>2, <3>3, <3>4 DEF Numbered, ByRun
  <2>6. Spent'
    <3>1. /\ \A r \in scheduled' : r.run # run'[s]
          /\ \A e \in open' : e.run # run'[s]
      BY <2>2, <2>4 DEF Numbered, ByRun
    <3> QED
      BY <2>2, <3>1 DEF Numbered, Spent
  <2> QED
    BY <2>5, <2>6 DEF Numbered
<1>2. ASSUME NEW s \in Sync,
             BulkWrite(s) \/ BulkFails(s) \/ FallbackRead(s) \/ FallbackWrite(s)
      PROVE  Numbered'
  <2>1. /\ pc[s] \in Writing
        /\ UNCHANGED <<runs, run, todo, open, scheduled>>
        /\ \A u \in Sync \ {s} : pc'[u] = pc[u]
    BY <1>2, <1>a DEF BulkWrite, BulkFails, FallbackRead, FallbackWrite, Goto, Writing, SyncOK,
                      events
  <2> QED
    BY <2>1, <1>b, NumbersKept DEF Writing, Leaving
<1>3. ASSUME NEW s \in Sync, ReadAfter(s) \/ UpdateAndCompare(s) PROVE Numbered'
  <2>1. PICK a : Compare(s, a)
    BY <1>3 DEF ReadAfter, UpdateAndCompare
  <2>2. pc[s] \notin {"idle", "enqueue"} /\ UNCHANGED <<runs, open, scheduled>>
    BY <1>3 DEF ReadAfter, UpdateAndCompare, events
  <2> QED
    BY <2>1, <2>2, NumbersCompared
<1>4. ASSUME NEW s \in Sync, EnqueueOne(s) PROVE Numbered'
  BY <1>4, NumbersStored
<1>5. ASSUME NEW s \in Sync, RunFails(s) PROVE Numbered'
  <2>1. pc[s] # "idle" /\ Finish(s) /\ UNCHANGED <<runs, open, scheduled>>
    BY <1>5 DEF RunFails, events
  <2> QED
    BY <2>1, FinishLocal, NumbersKept DEF Leaving
<1>6. ASSUME UNCHANGED <<runs, pc, run, todo, scheduled>>, open' \subseteq open PROVE Numbered'
  BY <1>6 DEF Numbered, ByRun, Spent
<1>7. ASSUME UpdateIdentity \/ Tick PROVE Numbered'
  BY <1>6, <1>7 DEF UpdateIdentity, Tick, syncs, events
<1>8. ASSUME NEW r \in scheduled, Promote(r) PROVE Numbered'
  <2>1. /\ scheduled' = scheduled \ {r} /\ UNCHANGED <<runs, pc, run, todo>>
        /\ \A e \in open' \ open : e.run = r.run
    BY <1>8 DEF Promote, syncs
  <2>2. ByRun'
    BY <2>1 DEF Numbered, ByRun
  <2>3. Spent'
    BY <2>1 DEF Numbered, Spent
  <2> QED
    BY <2>2, <2>3 DEF Numbered
<1>9. ASSUME NEW e, HandleOther(e) \/ LeaverRead(e) \/ LeaverWrite(e) PROVE Numbered'
  BY <1>6, <1>9 DEF HandleOther, LeaverRead, LeaverWrite, syncs, events
<1>10. CASE UNCHANGED vars
  BY <1>6, <1>10 DEF vars, syncs, events
<1> QED
  BY <1>1, <1>2, <1>3, <1>4, <1>5, <1>7, <1>8, <1>9, <1>10 DEF Next, SyncStep

\* Nobody is active in the state LEAVER: true where that state does not occur,
\* and where nobody edits a document (every path that writes it sets both).
NoActiveLeaver(id) == id.life = "LEAVER" => ~id.active

\* A departure is scheduled when the end date changes, so that the promoted
\* document differs from the one it is compared with.
DateChanged ==
  /\ NoActiveLeaver(identity)
  /\ \A s \in Sync : "TERMINATION_SCHEDULED" \in todo[s] =>
        after[s].end # NoEnd /\ after[s].end # before[s].end
  /\ \A r \in scheduled : r.date # r.prev.end

\* The record that stands for no document, field by field.
LEMMA AbsentFields ==
  /\ Absent.life # "LEAVER" /\ Absent.end = NoEnd
  /\ Absent \in [life : {Absent.life}, active : BOOLEAN, end : {NoEnd}, dept : {Absent.dept}]
BY DEF Absent

LEMMA ScheduledDate ==
  ASSUME NEW b, NEW a, NoActiveLeaver(a), "TERMINATION_SCHEDULED" \in Detect(b, a)
  PROVE  a.end # NoEnd /\ a.end # b.end
<1>1. b # Absent /\ b # a
  BY DEF Detect
<1>2. IsScheduled(b, a)
  BY <1>1 DEF Detect
<1> QED
  BY <1>2 DEF IsScheduled, NoActiveLeaver

LEMMA WrittenNoActiveLeaver ==
  ASSUME NEW r \in RowsOf("hrms"), NEW end, NEW old
  PROVE  NoActiveLeaver(Refreshed(r, end)) /\ NoActiveLeaver(HrmsUpdated(r, old))
  BY DEF NoActiveLeaver, Refreshed, HrmsUpdated, RowsOf, Rows, IsTerminationState, TERMINATED_STATES

LEMMA DatesCompared ==
  ASSUME Typed, DateChanged, NEW s \in Sync, NEW a, NoActiveLeaver(a), NoActiveLeaver(identity'),
         Compare(s, a), scheduled' = scheduled
  PROVE  DateChanged'
<1>1. "TERMINATION_SCHEDULED" \in todo'[s] => after'[s].end # NoEnd /\ after'[s].end # before'[s].end
  BY CompareFinds, ScheduledDate
<1>2. \A u \in Sync \ {s} :
         todo'[u] = todo[u] /\ before'[u] = before[u] /\ after'[u] = after[u]
  BY CompareFinds
<1> QED
  BY <1>1, <1>2 DEF DateChanged, NoActiveLeaver

LEMMA DatesStep ==
  ASSUME "LEAVER" \notin Lives \/ MaxTroubles = 0
  PROVE  Typed /\ DateChanged /\ [Next]_vars => DateChanged'
<1> SUFFICES ASSUME Typed, DateChanged, [Next]_vars PROVE DateChanged'
  OBVIOUS
<1>a. TypeOK /\ SyncOK /\ Working /\ NoActiveLeaver(identity)
  BY DEF Typed, TypeOK, DateChanged
<1>b. "LEAVER" \notin Lives => NoActiveLeaver(identity)'
  <2>1. identity' \in Known
    BY TypeStep DEF Typed, TypeOK, DocumentOK
  <2> QED
    BY <2>1, AbsentFields DEF NoActiveLeaver, Known, Identities
<1>c. MaxTroubles = 0 => ~Trouble
  BY <1>a DEF Trouble, TypeOK, DocumentOK
<1>d. \A s \in Sync : pc[s] \in Writing \union {"readAfter"} => todo[s] = {}
  BY <1>a DEF Working, Writing
<1>1. ASSUME NEW s \in Sync, ReadBefore(s) \/ PrefetchFails(s) PROVE DateChanged'
  <2>1. /\ todo[s] = {} /\ UNCHANGED <<identity, todo, after, scheduled>>
        /\ \A u \in Sync \ {s} : before'[u] = before[u]
    BY <1>1, <1>a DEF ReadBefore, PrefetchFails, Begin, Working, SyncOK, events
  <2> QED
    BY <2>1 DEF DateChanged, NoActiveLeaver
<1>2. ASSUME NoActiveLeaver(identity)', UNCHANGED <<todo, before, after, scheduled>>
      PROVE  DateChanged'
  BY <1>2 DEF DateChanged
<1>3. ASSUME NEW s \in Sync, BulkWrite(s) \/ FallbackWrite(s) PROVE DateChanged'
  <2>1. /\ row[s] \in RowsOf("hrms")
        /\ \E end : identity' = Refreshed(row[s], end)
        /\ UNCHANGED <<todo, before, after, scheduled>>
    BY <1>3, <1>a DEF BulkWrite, FallbackWrite, WriteIdentity, Working, Writing, events
  <2> QED
    BY <1>2, <2>1, WrittenNoActiveLeaver DEF NoActiveLeaver
<1>4. ASSUME NEW s \in Sync, BulkFails(s) \/ FallbackRead(s) PROVE DateChanged'
  <2>1. UNCHANGED <<todo, before, after, scheduled>> /\ (identity' = identity \/ Trouble)
    BY <1>4 DEF BulkFails, FallbackRead, events
  <2> QED
    BY <1>a, <1>b, <1>c, <1>2, <2>1 DEF NoActiveLeaver
<1>5. ASSUME NEW s \in Sync, ReadAfter(s) PROVE DateChanged'
  <2>1. Compare(s, identity) /\ UNCHANGED <<identity, scheduled>>
    BY <1>5 DEF ReadAfter, events
  <2> QED
    BY <1>a, <2>1, DatesCompared DEF NoActiveLeaver
<1>6. ASSUME NEW s \in Sync, UpdateAndCompare(s) PROVE DateChanged'
  <2>1. row[s] \in RowsOf("hrms")
    BY <1>6, <1>a DEF UpdateAndCompare, Working, Writing
  <2>2. PICK id : NoActiveLeaver(id) /\ Compare(s, id) /\ identity' = id
    BY <1>6, <2>1, WrittenNoActiveLeaver DEF UpdateAndCompare, WriteIdentity
  <2>3. scheduled' = scheduled
    BY <1>6 DEF UpdateAndCompare, events
  <2> QED
    BY <2>2, <2>3, DatesCompared DEF NoActiveLeaver
<1>7. ASSUME NEW s \in Sync, EnqueueOne(s) PROVE DateChanged'
  <2>1. PICK t \in todo[s] : Stores(s, t)
    BY <1>7, Stored
  <2>2. identity' = identity
    BY <1>7 DEF EnqueueOne
  <2>3. pc[s] = "enqueue" /\ (pc'[s] = "idle" => todo'[s] = {})
    <3>1. Working'
      BY TypeStep DEF Typed
    <3> QED
      BY <1>7, <3>1 DEF EnqueueOne, Working
  <2>4. \A r \in scheduled' : r.date # r.prev.end
    <3>1. CASE t = "TERMINATION_SCHEDULED"
      <4>1. after[s].end # NoEnd /\ after[s].end # before[s].end
        BY <2>1, <3>1 DEF DateChanged
      <4> QED
        BY <2>1, <3>1, <4>1 DEF DateChanged, Stores, EffectiveDate
    <3>2. CASE t # "TERMINATION_SCHEDULED"
      BY <2>1, <3>2 DEF DateChanged, Stores
    <3> QED
      BY <3>1, <3>2
  <2>5. ASSUME NEW u \in Sync, "TERMINATION_SCHEDULED" \in todo'[u]
        PROVE  after'[u].end # NoEnd /\ after'[u].end # before'[u].end
    BY <2>1, <2>3, <2>5 DEF DateChanged, Stores
  <2> QED
    BY <1>a, <2>2, <2>4, <2>5 DEF DateChanged, NoActiveLeaver
<1>8. ASSUME NEW s \in Sync, RunFails(s) PROVE DateChanged'
  <2>1. Finish(s) /\ UNCHANGED <<identity, scheduled>>
    BY <1>8 DEF RunFails, events
  <2> QED
    BY <2>1, FinishLocal DEF DateChanged, NoActiveLeaver
<1>9. CASE UpdateIdentity
  BY <1>2, <1>9, <1>b, <1>c DEF UpdateIdentity, syncs, events
<1>10. ASSUME UNCHANGED <<identity, syncs>>, scheduled' \subseteq scheduled PROVE DateChanged'
  BY <1>10 DEF DateChanged, NoActiveLeaver, syncs
<1>11. ASSUME NEW e, Tick \/ HandleOther(e) \/ LeaverRead(e) \/ UNCHANGED vars PROVE DateChanged'
  BY <1>10, <1>11 DEF Tick, HandleOther, LeaverRead, vars, events
<1>12. ASSUME NEW r \in scheduled, Promote(r) PROVE DateChanged'
  BY <1>10, <1>12 DEF Promote
<1>13. ASSUME NEW e \in leaver, LeaverWrite(e) PROVE DateChanged'
  <2>1. identity \in Identities
    BY <1>13, <1>a DEF Typed, Seen, TypeOK, DocumentOK, Known
  <2>2. ~identity'.active
    BY <1>13, <2>1 DEF LeaverWrite, Identities
  <2> QED
    BY <1>2, <1>13, <2>2 DEF LeaverWrite, NoActiveLeaver, syncs, events
<1> QED
  BY <1>1, <1>3, <1>4, <1>5, <1>6, <1>7, <1>8, <1>9, <1>11, <1>12, <1>13 DEF Next, SyncStep

\* What a promotion makes up is a leaver.
LEMMA PromotionDetects ==
  ASSUME NEW r \in ScheduledRows, IsPastOrDue(r.date), r.date # r.prev.end
  PROVE  "LEAVER" \in Detect(PromotedFrom(r), PromotedTo(r))
<1> DEFINE b == PromotedFrom(r)
           a == PromotedTo(r)
<1>1. r.prev \in Known /\ r.new \in Known
  BY DEF ScheduledRows
<1>2. ASSUME NEW d \in Known, NEW x, NEW y
      PROVE  /\ [d EXCEPT !.life = x, !.active = y].end = d.end
             /\ [d EXCEPT !.life = x, !.active = y].life = x
  BY <1>2, AbsentFields DEF Known, Identities
<1>5. a.end = r.date
  <2>1. ASSUME NEW d \in Known, NEW x, NEW y, NEW z
        PROVE  [d EXCEPT !.life = x, !.active = y, !.end = z].end = z
    BY <2>1, AbsentFields DEF Known, Identities
  <2> QED
    BY <1>1, <2>1 DEF PromotedTo
<1>6. b.end = r.prev.end
  BY <1>1, <1>2 DEF PromotedFrom
<1>7. b.life # ""
  <2>1. b.life = IF r.prev.life = "" THEN "ACTIVE" ELSE r.prev.life
    BY <1>1, <1>2 DEF PromotedFrom
  <2> QED
    BY <2>1
<1>3. b # Absent /\ b # a
  <2>1. b # Absent
    BY <1>7, AbsentLife
  <2>2. b.end # a.end
    BY <1>5, <1>6
  <2> QED
    BY <2>1, <2>2
<1>4. IsLeaver(b, a)
  BY <1>5 DEF IsLeaver, IsPastOrDue
<1> QED
  BY <1>3, <1>4 DEF Detect, EventTypes

\* Every scheduled departure that is promoted becomes a leaver event of its own,
\* whatever runs, edits and failures surround it.  In the state LEAVER an edit
\* can make somebody active again without a change of the end date, and the
\* promotion then sees no difference: the theorem asks that this state does not
\* occur or that nobody edits.
THEOREM PromotionsLeave ==
  ASSUME "LEAVER" \notin Lives \/ MaxTroubles = 0
  PROVE  Spec => PromotionYieldsLeaver
<1> DEFINE Inv == Typed /\ Numbered /\ DateChanged
<1>1. Init => Inv
  <2>1. Init => Numbered /\ DateChanged
    BY AbsentFields DEF Init, Numbered, ByRun, Spent, DateChanged, NoActiveLeaver, Leaving
  <2> QED
    BY <2>1, TypeInit
<1>2. Inv /\ [Next]_vars => Inv'
  BY TypeStep, NumbersStep, DatesStep
<1>3. Inv /\ [Next]_vars =>
        [\A r \in scheduled \ scheduled' :
           \E e \in open' \ open : e.type = "LEAVER" /\ e.run = r.run]_vars
  <2> SUFFICES ASSUME Inv, Next, NEW r \in scheduled \ scheduled'
               PROVE  \E e \in open' \ open : e.type = "LEAVER" /\ e.run = r.run
    OBVIOUS
  <2>1. ASSUME scheduled \subseteq scheduled' PROVE FALSE
    BY <2>1
  <2>2. ASSUME NEW s \in Sync, EnqueueOne(s) PROVE FALSE
    BY <2>1, <2>2, Stored DEF Stores
  <2>3. PICK q \in scheduled : Promote(q)
    <3>1. ASSUME NEW s \in Sync, ReadBefore(s) \/ PrefetchFails(s) PROVE FALSE
      BY <2>1, <3>1 DEF ReadBefore, PrefetchFails, Begin, events
    <3>2. ASSUME NEW s \in Sync,
                 \/ BulkWrite(s) \/ BulkFails(s) \/ FallbackRead(s) \/ FallbackWrite(s)
                 \/ ReadAfter(s) \/ UpdateAndCompare(s) \/ RunFails(s)
          PROVE  FALSE
      BY <2>1, <3>2 DEF BulkWrite, BulkFails, FallbackRead, FallbackWrite, ReadAfter,
                        UpdateAndCompare, RunFails, events
    <3>3. ASSUME NEW e, \/ UpdateIdentity \/ Tick
                        \/ HandleOther(e) \/ LeaverRead(e) \/ LeaverWrite(e)
          PROVE  FALSE
      BY <2>1, <3>3 DEF UpdateIdentity, Tick, HandleOther, LeaverRead, LeaverWrite, events
    <3> QED
      BY <2>2, <3>1, <3>2, <3>3 DEF Next, SyncStep
  <2>8. Promote(r)
    BY <2>3 DEF Promote
  <2>4. r \in ScheduledRows /\ r.date # r.prev.end
    BY DEF Typed, TypeOK, EventOK, DateChanged
  <2>5. "LEAVER" \in Detect(PromotedFrom(r), PromotedTo(r))
    BY <2>8, <2>4, PromotionDetects DEF Promote
  <2> DEFINE e == [type |-> "LEAVER", run |-> r.run, date |-> r.date]
  <2>6. e \in open'
    BY <2>8, <2>5 DEF Promote
  <2>7. e \notin open
    BY DEF Numbered, ByRun
  <2> QED
    BY <2>6, <2>7
<1> QED
  BY <1>1, <1>2, <1>3, PTL DEF Spec, PromotionYieldsLeaver

-----------------------------------------------------------------------------
(* Access follows the source                                                *)

Entering == {"JOINER", "REHIRE"}

\* An event of a type in T is before its handler, or on its way there.
Coming(T) ==
  \/ \E e \in open \union leaver : e.type \in T
  \/ \E s \in Sync : todo[s] \intersect T # {}
  \/ \E s \in Sync : pc[s] = "readAfter" /\ \E t \in T : Calls(t, before[s].life, identity.life)

\* Of a person who is in, no departure is under way and the document shows none.
Welcome ==
  /\ identity.active /\ IsActiveLikeState(identity.life) /\ identity.end = NoEnd
  /\ leaver = {} /\ scheduled = {}
  /\ \A e \in open : e.type # "LEAVER"
  /\ \A s \in Sync : todo[s] \intersect Leaving = {}
  /\ access = "on" \/ Coming(Entering)

\* Of a person who has left, nothing but the departure is.
Farewell ==
  /\ IsTerminationState(identity.life)
  /\ \A e \in open : e.type = "LEAVER"
  /\ \A s \in Sync : todo[s] \subseteq Leaving
  /\ \A s \in Sync : pc[s] = "readAfter" => before[s] # Absent
  /\ access = "off" \/ Coming({"LEAVER"})

Following == clean /\ ~crossed => (hr = "in" => Welcome) /\ (hr = "out" => Farewell)

\* The difference that leads to somebody who is in holds no departure, ...
LEMMA DetectsIn ==
  ASSUME NEW b \in Known, NEW a \in Identities,
         a.active, IsActiveLikeState(a.life), a.end = NoEnd
  PROVE  Detect(b, a) \intersect Leaving = {}
<1>1. ~IsTerminationState(a.life)
  BY DEF IsActiveLikeState, IsTerminationState, ACTIVE_STATES, TERMINATED_STATES
<1>2. ~IsLeaver(b, a) /\ ~IsScheduled(b, a)
  BY <1>1 DEF IsLeaver, IsScheduled, BecameTerminated, IsTerminationState, TERMINATED_STATES,
              IsPastOrDue
<1> QED
  BY <1>2 DEF Detect, Leaving

\* ... and the one that leads to somebody who has left nothing else.
LEMMA DetectsOut ==
  ASSUME NEW b \in Known, b # Absent, NEW a \in Identities, IsTerminationState(a.life)
  PROVE  Detect(b, a) \subseteq Leaving
BY DEF Detect, Leaving, IsRehire, IsMover, EventTypes

LEMMA PromotedLeaves ==
  ASSUME NEW r \in ScheduledRows
  PROVE  Detect(PromotedFrom(r), PromotedTo(r)) \subseteq Leaving
<1> DEFINE b == PromotedFrom(r)
           a == PromotedTo(r)
<1>1. r.prev \in Known /\ r.new \in Known
  BY DEF ScheduledRows
<1>2. ASSUME NEW d \in Known, NEW x, NEW y, NEW z
      PROVE  [d EXCEPT !.life = x, !.active = y, !.end = z].life = x
  BY <1>2, AbsentFields DEF Known, Identities
<1>3. IsTerminationState(a.life)
  BY <1>1, <1>2 DEF PromotedTo, IsTerminationState, TERMINATED_STATES
<1>4. b # Absent
  <2>1. ASSUME NEW d \in Known, NEW x, NEW y
        PROVE  [d EXCEPT !.life = x, !.active = y].life = x
    BY <2>1, AbsentFields DEF Known, Identities
  <2>2. b.life = IF r.prev.life = "" THEN "ACTIVE" ELSE r.prev.life
    BY <1>1, <2>1 DEF PromotedFrom
  <2>3. b.life # ""
    BY <2>2
  <2> QED
    BY <2>3, AbsentLife
<1> QED
  BY <1>3, <1>4 DEF Detect, Leaving, IsRehire, IsMover, EventTypes

\* What a run has written while nothing was under way.
LEMMA WriteFollows ==
  ASSUME Lives \subseteq PlainStates, Typed, Noticing, Following,
         NEW s \in Sync, NEW id \in Identities, WriteIdentity(s, id), pc[s] = "write",
         Departed(id) <=> IsTerminationState(id.life),
         ~Departed(id) /\ (identity.end = NoEnd \/ (path[s] # "hrms" /\ before[s].end # NoEnd))
           => id.end = NoEnd,
         clean', ~crossed'
  PROVE  /\ identity' = id /\ access' = access
         /\ open = {} /\ leaver = {} /\ scheduled = {}
         /\ \A u \in Sync : todo[u] = {}
         /\ \A u \in Sync \ {s} : pc[u] # "readAfter"
         /\ hr' = "in" => /\ id.active /\ IsActiveLikeState(id.life) /\ id.end = NoEnd
                          /\ \/ access = "on"
                             \/ \E t \in Entering : Calls(t, before[s].life, id.life)
         /\ hr' = "out" => /\ IsTerminationState(id.life) /\ before[s] # Absent
                           /\ access = "off" \/ Calls("LEAVER", before[s].life, id.life)
<1>1. /\ clean /\ Comparing \subseteq {s} /\ leaver = {} /\ identity' = id
      /\ hr' = SaidOf(id) /\ access' = access
      /\ ~crossed /\ ~Unhandled
      /\ \A u \in Sync \ {s} : todo[u] = {}
      /\ identity.end = NoEnd \/ (path[s] # "hrms" /\ before[s].end # NoEnd)
  BY DEF WriteIdentity, Forget
<1>2. open = {} /\ leaver = {} /\ scheduled = {}
  BY <1>1 DEF Unhandled
<1>3. todo[s] = {} /\ before[s] \in Known /\ identity \in Known
  BY DEF Typed, Working, TypeOK, SyncOK, DocumentOK
<1>4. \A u \in Sync \ {s} : pc[u] # "readAfter"
  BY <1>1 DEF Comparing
<1>5. Shown /\ before[s].life = identity.life
  BY <1>1 DEF Noticing, Current
<1>6. ASSUME NEW T PROVE ~Coming(T)
  BY <1>1, <1>2, <1>3, <1>4 DEF Coming
<1>7. (hr = "in" => access = "on") /\ (hr = "out" => access = "off")
  BY <1>1, <1>6 DEF Following, Welcome, Farewell
<1>8. hr \in {"unknown", "never", "in", "out"}
  BY DEF Typed, TypeOK, GhostOK
<1>9. ASSUME hr' = "in"
      PROVE  /\ id.active /\ IsActiveLikeState(id.life) /\ id.end = NoEnd
             /\ access = "on" \/ \E t \in Entering : Calls(t, before[s].life, id.life)
  <2>1. ~Departed(id)
    BY <1>1, <1>9 DEF SaidOf
  <2>2. id.active /\ ~IsTerminationState(id.life) /\ id.end = NoEnd
    BY <1>1, <2>1 DEF Departed
  <2>3. IsActiveLikeState(id.life)
    BY <2>2 DEF Identities, PlainStates, IsTerminationState, TERMINATED_STATES, IsActiveLikeState
  <2>4. CASE hr = "unknown"
    <3>1. before[s].life = ""
      BY <1>5, <2>4, AbsentLife DEF Shown
    <3>2. Calls("JOINER", before[s].life, id.life)
      BY <3>1 DEF Calls
    <3> QED
      BY <2>2, <2>3, <3>2 DEF Entering
  <2>5. CASE hr \in {"out", "never"}
    <3>1. IsTerminationState(before[s].life)
      BY <1>5, <2>5 DEF Shown
    <3>2. Calls("REHIRE", before[s].life, id.life)
      BY <2>2, <3>1 DEF Calls
    <3> QED
      BY <2>2, <2>3, <3>2 DEF Entering
  <2> QED
    BY <1>7, <1>8, <2>2, <2>3, <2>4, <2>5
<1>10. ASSUME hr' = "out"
       PROVE  /\ IsTerminationState(id.life) /\ before[s] # Absent
              /\ access = "off" \/ Calls("LEAVER", before[s].life, id.life)
  <2>1. IsTerminationState(id.life) /\ hr \in {"in", "out"}
    BY <1>1, <1>10 DEF SaidOf
  <2>2. identity # Absent
    BY <1>5, <2>1 DEF Shown
  <2>3. before[s].life # ""
    BY <1>3, <1>5, <2>2, NoLife DEF Known, Identities
  <2>4. before[s] # Absent
    BY <2>3, AbsentLife
  <2>5. CASE hr = "in"
    <3>1. ~IsTerminationState(before[s].life)
      BY <1>5, <2>5 DEF Shown
    <3>2. Calls("LEAVER", before[s].life, id.life)
      BY <2>1, <2>3, <3>1 DEF Calls
    <3> QED
      BY <2>1, <2>4, <3>2
  <2> QED
    BY <1>7, <2>1, <2>4, <2>5
<1> QED
  BY <1>1, <1>2, <1>3, <1>4, <1>9, <1>10

\* A step that leaves the document and the runs alone, and settles no event that
\* it does not act on.
LEMMA EventsFollow ==
  ASSUME Following, UNCHANGED <<pc, before, todo, hr, scheduled, access>>,
         identity' = identity, clean' => clean, crossed => crossed',
         \/ UNCHANGED <<open, leaver>>
         \/ hr # "in" /\ open' \subseteq open /\ open' \union leaver' = open \union leaver
  PROVE  Following'
<1> SUFFICES ASSUME clean', ~crossed' PROVE (hr = "in" => Welcome)' /\ (hr = "out" => Farewell)'
  BY DEF Following
<1>1. (hr = "in" => Welcome) /\ (hr = "out" => Farewell)
  BY DEF Following
<1>2. ASSUME NEW T PROVE Coming(T) => Coming(T)'
  BY DEF Coming
<1> QED
  BY <1>1, <1>2 DEF Welcome, Farewell

LEMMA FollowStep ==
  ASSUME Lives \subseteq PlainStates
  PROVE  Typed /\ Noticing /\ Following /\ [Next]_vars => Following'
<1> SUFFICES ASSUME Typed, Noticing, Following, [Next]_vars, clean', ~crossed'
             PROVE  (hr = "in" => Welcome)' /\ (hr = "out" => Farewell)'
  BY DEF Following
<1>a. TypeOK /\ SyncOK /\ Working /\ Seen /\ identity \in Known
  BY DEF Typed, TypeOK, DocumentOK
<1>b. clean /\ ~crossed => (hr = "in" => Welcome) /\ (hr = "out" => Farewell)
  BY DEF Following
<1> DEFINE Goal == (hr = "in" => Welcome)' /\ (hr = "out" => Farewell)'
<1>1. ASSUME NEW s \in Sync, ReadBefore(s) PROVE Goal
  <2>1. PICK q \in Path : Begin(s, q)
    BY <1>1 DEF ReadBefore
  <2>2. /\ pc'[s] = "write"
        /\ \A u \in Sync \ {s} : pc'[u] = pc[u] /\ before'[u] = before[u]
        /\ pc[s] = "idle"
        /\ UNCHANGED <<identity, todo, open, scheduled, leaver, hr, access, clean, crossed>>
    BY <1>1, <1>a, <2>1 DEF ReadBefore, Begin, Goto, SyncOK, worker, events, ghosts
  <2>3. ASSUME NEW T PROVE Coming(T) => Coming(T)'
    BY <2>2 DEF Coming
  <2>4. (hr = "in" => Welcome) /\ (hr = "out" => Farewell)
    BY <1>b, <2>2
  <2> QED
    BY <2>2, <2>3, <2>4 DEF Welcome, Farewell
<1>2. ASSUME NEW s \in Sync,
             \/ PrefetchFails(s) \/ BulkFails(s) \/ FallbackRead(s) \/ FallbackWrite(s)
             \/ RunFails(s)
      PROVE  FALSE
  BY <1>2 DEF PrefetchFails, BulkFails, FallbackRead, FallbackWrite, RunFails,
              Trouble, Forget, WriteIdentity, Noticing, Current, ghosts
<1>12. ~UpdateIdentity
  BY DEF UpdateIdentity, Trouble, Forget
<1>3. ASSUME NEW s \in Sync, BulkWrite(s) PROVE Goal
  <2> DEFINE id == Refreshed(row[s], PipelineEnd(row[s], identity))
  <2>1. pc[s] = "write" /\ row[s] \in RowsOf("hrms") /\ row[s] \in Rows /\ WriteIdentity(s, id)
    BY <1>3, <1>a, RowsTyped DEF BulkWrite, Working, Writing
  <2>2. id \in Identities
    BY <2>1, <1>a, PipelineEndTyped, RefreshedTyped
  <2>3. (Departed(id) <=> IsTerminationState(id.life)) /\ id.life = row[s].life
    BY <2>1, FlagsWritten
  <2>4. ~Departed(id) => id.end = NoEnd
    <3>1. row[s].life \in PlainStates
      BY <2>1 DEF Rows
    <3> QED
      BY <2>3, <3>1 DEF Refreshed, PipelineEnd, IsActiveLikeState, IsTerminationState,
                        PlainStates, TERMINATED_STATES
  <2> HIDE DEF id
  <2>5. /\ identity' = id /\ access' = access
        /\ open = {} /\ leaver = {} /\ scheduled = {}
        /\ \A u \in Sync : todo[u] = {}
        /\ \A u \in Sync \ {s} : pc[u] # "readAfter"
        /\ hr' = "in" => /\ id.active /\ IsActiveLikeState(id.life) /\ id.end = NoEnd
                         /\ \/ access = "on"
                            \/ \E t \in Entering : Calls(t, before[s].life, id.life)
        /\ hr' = "out" => /\ IsTerminationState(id.life) /\ before[s] # Absent
                          /\ access = "off" \/ Calls("LEAVER", before[s].life, id.life)
    BY <2>1, <2>2, <2>3, <2>4, WriteFollows
  <2>6. /\ pc'[s] = "readAfter" /\ \A u \in Sync \ {s} : pc'[u] = pc[u]
        /\ UNCHANGED <<before, todo, open, scheduled, leaver>>
    BY <1>3, <1>a DEF BulkWrite, Goto, SyncOK, worker, events
  <2>7. ASSUME hr' = "in" PROVE Welcome'
    BY <2>5, <2>6, <2>7 DEF Welcome, Coming
  <2>8. ASSUME hr' = "out" PROVE Farewell'
    BY <2>5, <2>6, <2>8 DEF Farewell, Coming
  <2> QED
    BY <2>7, <2>8
<1>4. ASSUME NEW s \in Sync, ReadAfter(s) PROVE Goal
  <2>1. /\ pc[s] = "readAfter" /\ Compare(s, identity)
        /\ UNCHANGED <<identity, open, scheduled, leaver, hr, access, clean, crossed>>
    BY <1>4 DEF ReadAfter, worker, events, ghosts
  <2>2. identity \in Identities /\ before[s] \in Known
    BY <1>a, <2>1 DEF Seen, Known, SyncOK
  <2>3. /\ pc'[s] \in {"idle", "enqueue"} /\ todo'[s] \subseteq Detect(before[s], identity)
        /\ \A u \in Sync \ {s} : pc'[u] = pc[u] /\ before'[u] = before[u] /\ todo'[u] = todo[u]
    BY <2>1, CompareFinds
  <2>4. todo[s] = {}
    BY <1>a, <2>1 DEF Working
  <2>5. ASSUME NEW T, Coming(T) PROVE Coming(T)'
    <3>1. ASSUME NEW t \in T, Calls(t, before[s].life, identity.life) PROVE t \in todo'[s]
      BY <2>1, <2>2, <3>1, CompareNotices
    <3> QED
      BY <2>1, <2>3, <2>4, <2>5, <3>1 DEF Coming
  <2>6. ASSUME hr' = "in" PROVE Welcome'
    <3>1. Welcome
      BY <1>b, <2>1, <2>6
    <3>2. todo'[s] \intersect Leaving = {}
      BY <2>2, <2>3, <3>1, DetectsIn DEF Welcome
    <3> QED
      BY <2>1, <2>3, <2>5, <3>1, <3>2 DEF Welcome
  <2>7. ASSUME hr' = "out" PROVE Farewell'
    <3>1. Farewell
      BY <1>b, <2>1, <2>7
    <3>2. todo'[s] \subseteq Leaving
      BY <2>1, <2>2, <2>3, <3>1, DetectsOut DEF Farewell
    <3> QED
      BY <2>1, <2>3, <2>5, <3>1, <3>2 DEF Farewell
  <2> QED
    BY <2>6, <2>7
<1>5. ASSUME NEW s \in Sync, UpdateAndCompare(s) PROVE Goal
  <2>1. /\ pc[s] = "write" /\ row[s] \in RowsOf("hrms") /\ row[s] \in Rows
        /\ before[s] \in Known /\ UNCHANGED <<open, scheduled, leaver>>
    BY <1>5, <1>a, RowsTyped DEF UpdateAndCompare, Working, Writing, SyncOK, worker, events
  <2>2. PICK id \in Identities :
              /\ Departed(id) <=> IsTerminationState(id.life)
              /\ WriteIdentity(s, id) /\ Compare(s, id)
              /\ ~Departed(id) /\ (identity.end = NoEnd \/ (path[s] # "hrms" /\ before[s].end # NoEnd))
                   => id.end = NoEnd
    <3>1. HrmsUpdated(row[s], identity) \in Identities
      BY <2>1, <1>a, HrmsTyped
    <3>2. Refreshed(row[s], DerivedEnd(row[s], before[s], identity)) \in Identities
      BY <2>1, <1>a, DerivedEndTyped, RefreshedTyped
    <3>3. CASE path[s] = "hrms"
      <4>1. identity.end = NoEnd => HrmsUpdated(row[s], identity).end = NoEnd
        BY DEF HrmsUpdated
      <4> QED
        BY <1>5, <2>1, <3>1, <3>3, <4>1, FlagsWritten DEF UpdateAndCompare
    <3>4. CASE path[s] # "hrms"
      <4> DEFINE id == Refreshed(row[s], DerivedEnd(row[s], before[s], identity))
      <4>1. (Departed(id) <=> IsTerminationState(id.life)) /\ id.life = row[s].life
        BY <2>1, FlagsWritten
      <4>2. row[s].life \in PlainStates
        BY <2>1 DEF Rows
      <4>3. ~Departed(id) /\ (identity.end = NoEnd \/ before[s].end # NoEnd) => id.end = NoEnd
        BY <4>1, <4>2 DEF Refreshed, DerivedEnd, IsActiveLikeState, IsTerminationState,
                          PlainStates, TERMINATED_STATES
      <4>4. WriteIdentity(s, id) /\ Compare(s, id)
        BY <1>5, <3>4 DEF UpdateAndCompare
      <4> QED
        BY <3>2, <3>4, <4>1, <4>3, <4>4
    <3> QED
      BY <3>3, <3>4
  <2>5. /\ identity' = id /\ access' = access
        /\ open = {} /\ leaver = {} /\ scheduled = {}
        /\ \A u \in Sync : todo[u] = {}
        /\ \A u \in Sync \ {s} : pc[u] # "readAfter"
        /\ hr' = "in" => /\ id.active /\ IsActiveLikeState(id.life) /\ id.end = NoEnd
                         /\ \/ access = "on"
                            \/ \E t \in Entering : Calls(t, before[s].life, id.life)
        /\ hr' = "out" => /\ IsTerminationState(id.life) /\ before[s] # Absent
                          /\ access = "off" \/ Calls("LEAVER", before[s].life, id.life)
    BY <2>1, <2>2, WriteFollows
  <2>6. /\ pc'[s] \in {"idle", "enqueue"} /\ todo'[s] \subseteq Detect(before[s], id)
        /\ \A u \in Sync \ {s} : pc'[u] = pc[u] /\ todo'[u] = todo[u]
    BY <2>2, CompareFinds
  <2>7. ASSUME NEW t, Calls(t, before[s].life, id.life) PROVE t \in todo'[s]
    BY <2>2, <2>7, CompareNotices
  <2>8. ASSUME hr' = "in" PROVE Welcome'
    <3>1. todo'[s] \intersect Leaving = {}
      BY <2>1, <2>5, <2>6, <2>8, DetectsIn
    <3>2. access' = "on" \/ Coming(Entering)'
      BY <2>5, <2>7, <2>8 DEF Coming
    <3> QED
      BY <2>1, <2>5, <2>6, <2>8, <3>1, <3>2 DEF Welcome
  <2>9. ASSUME hr' = "out" PROVE Farewell'
    <3>1. todo'[s] \subseteq Leaving
      BY <2>1, <2>5, <2>6, <2>9, DetectsOut
    <3>2. access' = "off" \/ Coming({"LEAVER"})'
      BY <2>5, <2>7, <2>9 DEF Coming
    <3> QED
      BY <2>1, <2>5, <2>6, <2>9, <3>1, <3>2 DEF Farewell
  <2> QED
    BY <2>8, <2>9
<1>6. ASSUME NEW s \in Sync, EnqueueOne(s) PROVE Goal
  <2>1. /\ pc[s] = "enqueue"
        /\ UNCHANGED <<identity, leaver, hr, access, clean, crossed>>
    BY <1>6 DEF EnqueueOne, worker
  <2>2. PICK t \in todo[s] : Stores(s, t)
    BY <1>6, Stored
  <2>3. /\ todo'[s] = todo[s] \ {t} /\ pc'[s] # "readAfter"
        /\ \A u \in Sync \ {s} : pc'[u] = pc[u] /\ before'[u] = before[u] /\ todo'[u] = todo[u]
        /\ t # "TERMINATION_SCHEDULED" => /\ scheduled' = scheduled
                                          /\ \E e \in open' : e.type = t
        /\ open \subseteq open' /\ \A e \in open' \ open : e.type = t
        /\ t = "TERMINATION_SCHEDULED" => open' = open
    <3>1. CASE t = "TERMINATION_SCHEDULED"
      BY <2>2, <3>1 DEF Stores
    <3>2. CASE t # "TERMINATION_SCHEDULED"
      <4>1. PICK e : e.type = t /\ open' = open \union {e}
        BY <2>2, <3>2 DEF Stores
      <4> QED
        BY <2>2, <3>2, <4>1 DEF Stores
    <3> QED
      BY <3>1, <3>2
  <2>4. ASSUME NEW T, "TERMINATION_SCHEDULED" \notin T, Coming(T) PROVE Coming(T)'
    BY <2>1, <2>3, <2>4 DEF Coming
  <2>5. ASSUME hr' = "in" PROVE Welcome'
    <3>1. Welcome
      BY <1>b, <2>1, <2>5
    <3>2. t \notin Leaving
      BY <3>1 DEF Welcome
    <3>3. access' = "on" \/ Coming(Entering)'
      BY <2>1, <2>4, <3>1 DEF Welcome, Entering
    <3> QED
      BY <2>1, <2>3, <3>1, <3>2, <3>3 DEF Welcome, Leaving
  <2>6. ASSUME hr' = "out" PROVE Farewell'
    <3>1. Farewell
      BY <1>b, <2>1, <2>6
    <3>2. t \in Leaving
      BY <3>1 DEF Farewell
    <3>3. access' = "off" \/ Coming({"LEAVER"})'
      BY <2>1, <2>4, <3>1 DEF Farewell
    <3> QED
      BY <2>1, <2>3, <3>1, <3>2, <3>3 DEF Farewell, Leaving
  <2> QED
    BY <2>5, <2>6
<1>7. ASSUME Tick \/ UNCHANGED vars PROVE Goal
  <2>1. /\ UNCHANGED <<pc, before, todo, hr, scheduled, access, identity, open, leaver>>
        /\ UNCHANGED <<clean, crossed>>
    BY <1>7 DEF Tick, vars, syncs, events, worker, ghosts
  <2>2. Following'
    BY <2>1, EventsFollow
  <2> QED
    BY <2>2 DEF Following
<1>8. ASSUME NEW r \in scheduled, Promote(r) PROVE Goal
  <2>1. /\ open \subseteq open' /\ scheduled' \subseteq scheduled
        /\ UNCHANGED <<identity, pc, before, todo, leaver, hr, access, clean, crossed>>
    BY <1>8 DEF Promote, syncs, worker, ghosts
  <2>2. r \in ScheduledRows /\ IsPastOrDue(r.date)
    BY <1>8, <1>a DEF Promote, TypeOK, EventOK
  <2>3. \A e \in open' \ open : e.type = "LEAVER"
    <3>1. Detect(PromotedFrom(r), PromotedTo(r)) \subseteq {"LEAVER"}
      BY <1>a, <2>2, PromotedLeaves, PromotedPrimary DEF Leaving, Primary
    <3> QED
      BY <1>8, <3>1 DEF Promote
  <2>4. Coming({"LEAVER"}) => Coming({"LEAVER"})'
    BY <2>1 DEF Coming
  <2>5. hr # "in"
    BY <1>b, <2>1 DEF Welcome
  <2> QED
    BY <1>b, <2>1, <2>3, <2>4, <2>5 DEF Farewell
<1>9. ASSUME NEW e \in open, HandleOther(e) PROVE Goal
  <2>1. /\ e.type # "LEAVER" /\ open' = open \ {e}
        /\ access' = (IF clean /\ e.type # "MOVER" THEN "on" ELSE access)
        /\ UNCHANGED <<identity, pc, before, todo, scheduled, leaver, hr, clean, crossed>>
    BY <1>9 DEF HandleOther, syncs, worker
  <2>2. hr # "out"
    BY <1>b, <2>1 DEF Farewell
  <2>3. ASSUME hr' = "in" PROVE Welcome'
    <3>1. Welcome
      BY <1>b, <2>1, <2>3
    <3>2. access' = "on" \/ Coming(Entering)'
      <4>1. CASE e.type = "MOVER"
        <5>1. Coming(Entering) => Coming(Entering)'
          BY <2>1, <4>1 DEF Coming, Entering
        <5> QED
          BY <2>1, <3>1, <4>1, <5>1 DEF Welcome
      <4>2. CASE e.type # "MOVER"
        BY <2>1, <4>2
      <4> QED
        BY <4>1, <4>2
    <3> QED
      BY <2>1, <3>1, <3>2 DEF Welcome
  <2> QED
    BY <2>1, <2>2, <2>3
<1>10. ASSUME NEW e \in open, LeaverRead(e) PROVE Goal
  <2>1. /\ e.type = "LEAVER" /\ leaver = {} /\ leaver' = {e} /\ open' = open \ {e}
        /\ UNCHANGED <<identity, pc, before, todo, hr, scheduled, access, clean, crossed>>
    BY <1>10 DEF LeaverRead, MayHandle, syncs, ghosts
  <2>2. hr # "in"
    BY <1>b, <2>1 DEF Welcome
  <2> QED
    BY <2>1, <2>2, EventsFollow DEF Following
<1>11. ASSUME NEW e \in leaver, LeaverWrite(e) PROVE Goal
  <2>1. /\ access' = (IF clean THEN "off" ELSE access) /\ leaver' = {}
        /\ UNCHANGED <<pc, before, todo, open, scheduled, hr, clean, crossed>>
    BY <1>11 DEF LeaverWrite, syncs, events
  <2>2. hr # "in"
    BY <1>b, <2>1 DEF Welcome
  <2>3. ASSUME hr' = "out" PROVE Farewell'
    <3>1. Farewell
      BY <1>b, <2>1, <2>3
    <3>2. (Shown /\ Current /\ Pending)'
      BY NoticeStep DEF Noticing
    <3>3. IsTerminationState(identity.life)'
      BY <2>3, <3>2 DEF Shown, IsTerminationState
    <3> QED
      BY <2>1, <3>1, <3>3 DEF Farewell
  <2> QED
    BY <2>1, <2>2, <2>3
<1> QED
  BY <1>1, <1>2, <1>3, <1>4, <1>5, <1>6, <1>7, <1>8, <1>9, <1>10, <1>11, <1>12
     DEF Next, SyncStep

\* Where lifecycleState is always plainly in or out, the access asked for ends
\* up what the source last said, on every path, for any number of runs and
\* whatever the clock does: provided that no call fails, nobody edits, runs do
\* not overlap and the queue is empty whenever a run writes.
THEOREM AccessFollows ==
  ASSUME Lives \subseteq PlainStates
  PROVE  Spec => []AccessFollowsSource
<1> DEFINE Inv == Typed /\ Noticing /\ Following
<1>1. Init => Inv
  <2>1. Init => Noticing
    BY AbsentLife DEF Init, Noticing, Shown, Current, Pending
  <2>2. Init => Following
    BY DEF Init, Following
  <2> QED
    BY <2>1, <2>2, TypeInit
<1>2. Inv /\ [Next]_vars => Inv'
  BY TypeStep, NoticeStep, FollowStep
<1>3. Inv => AccessFollowsSource
  <2> SUFFICES ASSUME Inv, clean, ~crossed, open = {}, leaver = {},
                      \A s \in Sync : pc[s] \in {"idle", "write"}
               PROVE  (hr = "in" => access = "on") /\ (hr = "out" => access = "off")
    BY DEF AccessFollowsSource
  <2>1. \A s \in Sync : todo[s] = {}
    BY DEF Typed, Working
  <2>2. ASSUME NEW T PROVE ~Coming(T)
    BY <2>1 DEF Coming
  <2> QED
    BY <2>2 DEF Following, Welcome, Farewell
<1> QED
  BY <1>1, <1>2, <1>3, PTL DEF Spec
=============================================================================
