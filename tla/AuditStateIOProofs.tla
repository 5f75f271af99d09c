-------------------------- MODULE AuditStateIOProofs --------------------------
(***************************************************************************)
(* Proofs about AuditStateIO, for any processes, requests, initial files   *)
(* and numbers of faults: the types; the journal; what callers are told,   *)
(* and that the journal is an AuditLog; the view; the policy on its own    *)
(* and the journal as a run of it.                                         *)
(***************************************************************************)
EXTENDS AuditStateIO, TransitionPolicyFSM, SequenceTheorems, WellFoundedInduction, TLAPS

\* TypeOK in three parts: the files, the processes, the rest.
FilesType ==
  /\ journal \in Seq(Event)
  /\ tail \in {"clean", "torn", "corrupt"}
  /\ view \in View \union {NoView, Garbage}
  /\ durable \in 0..Len(journal)
  /\ diskViews \subseteq View \union {NoView, Garbage}

PcValues == {"idle", "reviewing", "locking", "locked", "append", "appending",
             "fsync", "replace", "dirsync"}

ProcsType ==
  /\ lock \in Procs \union {None}
  /\ pc \in [Procs -> PcValues]
  /\ req \in [Procs -> Call \union {None}]
  /\ event \in [Procs -> Event \union {None}]
  /\ newView \in [Procs -> View \union {NoView}]
  /\ reviewed \in [Procs -> Review \union {None}]

RestType ==
  /\ answers \subseteq [id : Nat, cas : Revisions, committed : BOOLEAN,
                        updated : BOOLEAN]
  /\ submitted \in 0..MaxRequests
  /\ faults \in [FaultKinds -> Nat]

LEMMA TypeParts == TypeOK <=> FilesType /\ ProcsType /\ RestType
  BY DEF TypeOK, FilesType, ProcsType, RestType, PcValues

Held == {"locked", "append", "appending", "fsync", "replace", "dirsync"}

Writing == {"append", "appending", "fsync"}

\* A process is in its critical section exactly while it holds the lock.
LockInv == \A p \in Procs : pc[p] \in Held <=> lock = p

\* What a process has at hand is what the step it is at needs; a record
\* about to be written has the version of the writer.
WorkOf(p) ==
  /\ (p \in Writers /\ pc[p] # "idle") => req[p] # None
  /\ pc[p] \in Writing => p \in Writers /\ event[p] # None
  /\ (pc[p] \in Writing /\ event[p].mode = "r2") => event[p].pv = Version
  /\ pc[p] \in Writing \union {"replace"} => newView[p] \in View
  /\ pc[p] = "reviewing" => p \in Recoverers /\ reviewed[p] # None

WorkInv == \A p \in Procs : WorkOf(p)

VersionInv == \A i \in 1..Len(journal) : VersionRecorded(journal[i])

ProcsInv == ProcsType /\ LockInv /\ WorkInv

FilesInv == FilesType /\ VersionInv

Shape == FilesInv /\ ProcsInv /\ RestType

-----------------------------------------------------------------------------
\* What a readable pair of files looks like.
LEMMA ReadableFiles ==
  ASSUME NEW j, NEW v, NEW m, NEW mode \in Modes,
         SnapshotMode(j, v, m) = mode
  PROVE  /\ JournalValid(j)
         /\ \/ j = <<>> /\ v = NoView
            \/ /\ j # <<>> /\ ~Missing(v)
               /\ v.mode = mode /\ JournalMode(j) = mode
               /\ mode = "r2" => StateSync(j, v)
<1>1. None # mode
  BY AuditRecordsAssumption
<1>2. JournalValid(j) /\ DetectedMode(j, v, m) = mode
  BY <1>1 DEF SnapshotMode
<1> QED
  BY <1>1, <1>2 DEF DetectedMode

\* The record a writer appends and the view it publishes have their types.
LEMMA R2EventType ==
  ASSUME NEW j \in Seq(Event), NEW v \in View \union {NoView},
         NEW r \in RequestType, NEW cas, NEW id \in Nat,
         v # NoView => v.mode = "r2",
         R2Accepted(j, v, r, cas)
  PROVE  /\ R2EventOf(j, v, r, id) \in R2Event
         /\ R2EventOf(j, v, r, id).pv = Version
<1>1. v # NoView => v \in R2View
  BY AuditRecordsAssumption DEF View, R1View, R2View
<1>2. /\ r.run \in Runs \union {None} /\ r.kind \in TRANSITION_KINDS \union {None}
      /\ r.stage \in STAGES \union {"current"}
      /\ r.status \in STATUSES \union {"current"}
      /\ r.ctx \in Contexts \union {None} /\ r.material \in BOOLEAN
  BY DEF RequestType
<1>3. v # NoView => /\ v.run \in Runs /\ v.rev \in Nat /\ v.stage \in STAGES
                    /\ v.status \in STATUSES /\ v.ctx \in Contexts \union {None}
  BY <1>1 DEF R2View
<1>4. ShorthandFits(v, r)
  BY DEF R2Accepted
<1>5. /\ Previous(v).stage \in STAGES \union {None}
      /\ Previous(v).status \in STATUSES \union {None}
      /\ Previous(v).ctx \in Contexts \union {None}
  BY <1>3 DEF Previous, NoState
<1>6. /\ TargetStage(v, r) \in STAGES /\ TargetStatus(v, r) \in STATUSES
  BY <1>2, <1>3, <1>4 DEF TargetStage, TargetStatus, ShorthandFits, Previous
<1>7. Len(j) + 1 \in Nat
  BY LenProperties
<1> DEFINE ctx == IF ObservesHalt(v, r) THEN Previous(v).ctx ELSE r.ctx
           run == IF v # NoView THEN v.run
                  ELSE IF r.run # None THEN r.run ELSE FreshRun
           rev == IF v = NoView THEN 0 ELSE v.rev
<1>8. ctx \in Contexts \union {None} /\ run \in Runs /\ rev \in Nat
  BY <1>2, <1>3, <1>5, AuditRecordsAssumption
<1>9. R2EventOf(j, v, r, id) =
        [mode |-> "r2", id |-> id, policy |-> TRUE, pv |-> Version,
         run |-> run, seq |-> Len(j) + 1, rev |-> rev, kind |-> r.kind,
         fromStage |-> Previous(v).stage, fromStatus |-> Previous(v).status,
         stage |-> TargetStage(v, r), status |-> TargetStatus(v, r),
         ctx |-> ctx, material |-> r.material]
  BY DEF R2EventOf
<1> HIDE DEF ctx, run, rev
<1> QED
  BY <1>2, <1>5, <1>6, <1>7, <1>8, <1>9, AuditRecordsAssumption DEF R2Event

LEMMA StateAfterEventType ==
  ASSUME NEW e \in R2Event, e.pv # None, NEW committed \in Seq(Event)
  PROVE  StateAfterEvent(e, committed) \in R2View
  BY DEF StateAfterEvent, R2Event, R2View

LEMMA R1ViewType ==
  ASSUME NEW v \in View \union {NoView}, NEW r \in RequestType, NEW cas,
         NEW id \in Nat, R1Accepted(v, r, cas)
  PROVE  R1ViewOf(v, r, id) \in R1View
<1>1. v # NoView => /\ v.stage \in STAGES /\ v.status \in STATUSES
                    /\ v.ctx \in Contexts \union {None}
  BY DEF View, R1View, R2View
<1>2. "current" \in {r.stage, r.status} => v # NoView
  BY DEF R1Accepted
<1>3. /\ r.stage \in STAGES \union {"current"}
      /\ r.status \in STATUSES \union {"current"}
      /\ r.ctx \in Contexts \union {None}
  BY DEF RequestType
<1>4. TargetStage(v, r) \in STAGES /\ TargetStatus(v, r) \in STATUSES
  BY <1>1, <1>2, <1>3 DEF TargetStage, TargetStatus, Previous
<1> DEFINE ctx == IF r.status = "current" THEN v.ctx
                  ELSE IF r.status \in Halted THEN r.ctx ELSE None
<1>5. ctx \in Contexts \union {None}
  BY <1>1, <1>2, <1>3
<1>6. R1ViewOf(v, r, id) =
        [mode |-> "r1", stage |-> TargetStage(v, r),
         status |-> TargetStatus(v, r), ctx |-> ctx, id |-> id]
  BY DEF R1ViewOf
<1> HIDE DEF ctx
<1> QED
  BY <1>4, <1>5, <1>6 DEF R1View

LEMMA DerivedStateType ==
  ASSUME NEW j \in Seq(Event), NEW v \in View \union {NoView, Garbage},
         Derivable(j, v)
  PROVE  DerivedState(j, v) \in R2View
<1>1. j # <<>> /\ JournalValid(j) /\ j[1].mode = "r2"
  BY DEF Derivable, JournalMode
<1>2. Len(j) \in 1..Len(j)
  BY <1>1, EmptySeq
<1>3. Last(j) \in Event /\ Last(j).mode = "r2"
  BY <1>1, <1>2, ElementOfSeq DEF Last, JournalValid, SingleMode
<1>4. Last(j) \in R2Event
  BY <1>3 DEF Event, R1Event
<1>5. Anchored(j, v) => v \in R2View
  BY DEF Anchored, Missing, View, R1View
<1> DEFINE e == Last(j)
           pv == IF e.pv # None THEN e.pv ELSE v.pv
           ctx == IF e.policy THEN e.ctx
                  ELSE IF e.status \notin Halted THEN None ELSE v.ctx
<1>6. pv \in Versions
  BY <1>4, <1>5 DEF Derivable, VersionProven, R2Event, R2View
<1>7. ctx \in Contexts \union {None}
  BY <1>4, <1>5 DEF Derivable, ContextProven, R2Event, R2View
<1>8. DerivedState(j, v) =
        [mode |-> "r2", pv |-> pv, run |-> e.run, rev |-> Len(j),
         seq |-> e.seq, digest |-> j, stage |-> e.stage, status |-> e.status,
         ctx |-> ctx, id |-> e.id]
  BY DEF DerivedState
<1>9. /\ e.run \in Runs /\ e.seq \in Nat /\ e.stage \in STAGES
      /\ e.status \in STATUSES /\ e.id \in Nat
  BY <1>4 DEF R2Event
<1> HIDE DEF e, pv, ctx
<1> QED
  BY <1>2, <1>6, <1>7, <1>8, <1>9 DEF R2View

-----------------------------------------------------------------------------
\* Each way a process moves keeps ProcsInv.

LEMMA EndKeepsProcs ==
  ASSUME ProcsInv, NEW p \in Procs, End(p)
  PROVE  ProcsInv'
<1>1. ProcsType'
  BY DEF ProcsInv, ProcsType, End, PcValues
<1>2. LockInv'
  BY AuditStateIOAssumption DEF ProcsInv, ProcsType, LockInv, End, Held
<1>3. WorkInv'
  <2> SUFFICES ASSUME NEW q \in Procs PROVE WorkOf(q)'
    BY DEF WorkInv
  <2>1. CASE q = p
    BY <2>1 DEF ProcsInv, ProcsType, WorkOf, End, Writing
  <2>2. CASE q # p
    <3>1. /\ pc'[q] = pc[q] /\ req'[q] = req[q] /\ event'[q] = event[q]
          /\ newView'[q] = newView[q] /\ reviewed'[q] = reviewed[q]
      BY <2>2 DEF ProcsInv, ProcsType, End
    <3> QED
      BY <3>1 DEF ProcsInv, WorkInv, WorkOf
  <2> QED
    BY <2>1, <2>2
<1> QED
  BY <1>1, <1>2, <1>3 DEF ProcsInv

\* A move of p that changes only p's own entries, and takes the lock only
\* when it is free.
LEMMA MoveKeepsProcs ==
  ASSUME ProcsInv, NEW p \in Procs, NEW from, NEW to \in PcValues,
         Goto(p, from, to), ProcsType',
         \/ (from \in Held <=> to \in Held) /\ lock' = lock
         \/ from \notin Held /\ to \in Held /\ lock = None /\ lock' = p,
         \A q \in Procs \ {p} :
           /\ req'[q] = req[q] /\ event'[q] = event[q]
           /\ newView'[q] = newView[q] /\ reviewed'[q] = reviewed[q],
         WorkOf(p)'
  PROVE  ProcsInv'
<1>1. /\ pc[p] = from /\ pc'[p] = to
      /\ \A q \in Procs \ {p} : pc'[q] = pc[q]
  BY DEF Goto, ProcsInv, ProcsType
<1>2. LockInv'
  BY <1>1, AuditStateIOAssumption DEF ProcsInv, LockInv
<1>3. WorkInv'
  <2> SUFFICES ASSUME NEW q \in Procs PROVE WorkOf(q)'
    BY DEF WorkInv
  <2> QED
    BY <1>1 DEF ProcsInv, WorkInv, WorkOf
<1> QED
  BY <1>2, <1>3 DEF ProcsInv

LEMMA AllIdleKeepsProcs ==
  ASSUME lock' = None,
         pc' = [p \in Procs |-> "idle"],
         req' = [p \in Procs |-> None],
         event' = [p \in Procs |-> None],
         newView' = [p \in Procs |-> NoView],
         reviewed' = [p \in Procs |-> None]
  PROVE  ProcsInv'
<1>1. ProcsType'
  BY DEF ProcsType, PcValues
<1>2. LockInv'
  BY AuditStateIOAssumption DEF LockInv, Held
<1>3. WorkInv'
  BY DEF WorkInv, WorkOf, Writing
<1> QED
  BY <1>1, <1>2, <1>3 DEF ProcsInv

-----------------------------------------------------------------------------
\* Shape is inductive: first the actions of the lock and of the calls.

LEMMA InitShape == Init => Shape
<1> SUFFICES ASSUME Init PROVE Shape
  OBVIOUS
<1>1. PICK f \in InitialFiles :
        /\ journal = f.journal /\ view = f.view
        /\ durable = Len(f.journal) /\ diskViews = {f.view}
  BY DEF Init
<1>2. FilesInv
  <2>1. /\ f.journal \in Seq(Event) /\ f.view \in View \union {NoView}
        /\ \A i \in 1..Len(f.journal) : VersionRecorded(f.journal[i])
    BY AuditStateIOAssumption
  <2>2. Len(f.journal) \in 0..Len(f.journal)
    BY <2>1, LenProperties
  <2> QED
    BY <1>1, <2>1, <2>2 DEF Init, FilesInv, FilesType, VersionInv
<1>3. ProcsInv
  <2>1. ProcsType
    BY DEF Init, ProcsType, PcValues
  <2>2. LockInv
    BY AuditStateIOAssumption DEF Init, LockInv, Held
  <2>3. WorkInv
    BY DEF Init, WorkInv, WorkOf, Writing
  <2> QED
    BY <2>1, <2>2, <2>3 DEF ProcsInv
<1>4. RestType
  BY AuditStateIOAssumption DEF Init, RestType
<1> QED
  BY <1>2, <1>3, <1>4 DEF Shape

\* What a step that leaves the files, or the rest, alone keeps.
LEMMA FilesUnchanged == ASSUME FilesInv, UNCHANGED files PROVE FilesInv'
  BY DEF FilesInv, FilesType, VersionInv, VersionRecorded, files

LEMMA RestUnchanged ==
  ASSUME RestType, UNCHANGED <<answers, submitted, faults>> PROVE RestType'
  BY DEF RestType

LEMMA FaultKeepsRest ==
  ASSUME RestType, NEW k \in FaultKinds, Fault(k),
         UNCHANGED <<answers, submitted>>
  PROVE  RestType'
  BY DEF RestType, Fault

LEMMA AnswerTyped ==
  ASSUME Shape, NEW p \in Procs, pc[p] # "idle", NEW c \in BOOLEAN,
         NEW u \in BOOLEAN, Answer(p, c, u)
  PROVE  answers' \subseteq [id : Nat, cas : Revisions, committed : BOOLEAN,
                             updated : BOOLEAN]
<1>1. p \in Writers => req[p] \in Call
  BY DEF Shape, ProcsInv, ProcsType, WorkInv, WorkOf, Procs
<1> QED
  BY <1>1 DEF Shape, RestType, Answer, Call

LEMMA AcquireKeepsShape ==
  ASSUME Shape, NEW p \in Procs, Acquire(p) PROVE Shape'
<1>1. FilesInv' /\ RestType'
  BY FilesUnchanged, RestUnchanged DEF Shape, Acquire
<1>2. ProcsInv'
  <2>1. ProcsType'
    BY DEF Shape, ProcsInv, ProcsType, Acquire, Goto, PcValues, work
  <2>2. pc[p] = "locking" /\ pc'[p] = "locked"
    BY DEF Shape, ProcsInv, ProcsType, Acquire, Goto
  <2>3. WorkOf(p)'
    BY <2>2 DEF Shape, ProcsInv, WorkInv, WorkOf, Acquire, work, Writing
  <2> QED
    BY <2>1, <2>3, MoveKeepsProcs DEF Shape, Acquire, work, PcValues, Held
<1> QED
  BY <1>1, <1>2 DEF Shape

LEMMA SubmitKeepsShape ==
  ASSUME Shape, NEW p \in Procs, SubmitAny(p) PROVE Shape'
<1>1. PICK r \in Requests,
           cas \in [intent : {"explicit"}, rev : 0..Len(journal)]
                   \union [intent : {"accept", "none"}, rev : {0}] :
             Submit(p, r, cas)
  BY DEF SubmitAny
<1>2. cas \in Revisions
  BY LenProperties DEF Revisions, Shape, FilesInv, FilesType
<1>3. FilesInv'
  BY <1>1, FilesUnchanged DEF Shape, Submit
<1>4. RestType'
  BY <1>1, AuditStateIOAssumption DEF Shape, RestType, Submit
<1>5. ProcsInv'
  <2>1. [body |-> r, cas |-> cas, id |-> submitted + 1] \in Call
    BY <1>2, AuditStateIOAssumption DEF Call, Shape, RestType
  <2>2. ProcsType'
    BY <1>1, <2>1 DEF Shape, ProcsInv, ProcsType, Submit, Goto, PcValues
  <2>3. /\ pc[p] = "idle" /\ pc'[p] = "locking"
        /\ req'[p] = [body |-> r, cas |-> cas, id |-> submitted + 1]
    BY <1>1 DEF Shape, ProcsInv, ProcsType, Submit, Goto
  <2>4. req'[p] # None
    BY <2>1, <2>3, AuditStateIOAssumption
  <2>5. WorkOf(p)'
    BY <2>3, <2>4 DEF WorkOf, Writing
  <2> QED
    BY <1>1, <2>2, <2>5, MoveKeepsProcs
       DEF Shape, Submit, PcValues, Held, ProcsInv, ProcsType
<1> QED
  BY <1>3, <1>4, <1>5 DEF Shape

LEMMA SilentEndKeepsShape ==
  ASSUME Shape, NEW p \in Procs,
         \/ LockTimeout(p) \/ Refuse(p) \/ RebuildRefused(p) \/ Crash(p)
  PROVE  Shape'
<1>1. End(p) /\ UNCHANGED files
  BY DEF LockTimeout, Refuse, RebuildRefused, Crash
<1>2. RestType'
  BY RestUnchanged, FaultKeepsRest
     DEF Shape, LockTimeout, Refuse, RebuildRefused, Crash, FaultKinds
<1> QED
  BY <1>1, <1>2, FilesUnchanged, EndKeepsProcs DEF Shape

LEMMA AnsweredEndKeepsShape ==
  ASSUME Shape, NEW p \in Procs,
         \/ AppendFails(p) \/ ReplaceFails(p) \/ DirectorySync(p)
  PROVE  Shape'
<1>1. End(p) /\ UNCHANGED <<journal, tail, view, durable>>
  BY DEF AppendFails, ReplaceFails, DirectorySync, files
<1>2. diskViews' \subseteq View \union {NoView, Garbage}
  <2>1. diskViews' = diskViews \/ diskViews' = {view}
    BY DEF AppendFails, ReplaceFails, DirectorySync, files
  <2> QED
    BY <2>1 DEF Shape, FilesInv, FilesType
<1>3. FilesInv'
  BY <1>1, <1>2 DEF Shape, FilesInv, FilesType, VersionInv, VersionRecorded
<1>4. pc[p] # "idle"
  BY DEF AppendFails, ReplaceFails, DirectorySync
<1>5. answers' \subseteq [id : Nat, cas : Revisions, committed : BOOLEAN,
                          updated : BOOLEAN]
  BY <1>4, AnswerTyped DEF AppendFails, ReplaceFails, DirectorySync
<1>6. submitted' = submitted /\ faults' \in [FaultKinds -> Nat]
  <2>1. faults' = faults \/ Fault("io")
    BY DEF AppendFails, ReplaceFails, DirectorySync
  <2>2. submitted' = submitted
    BY DEF AppendFails, ReplaceFails, DirectorySync
  <2> QED
    BY <2>1, <2>2 DEF Fault, Shape, RestType, FaultKinds
<1>7. RestType'
  BY <1>5, <1>6 DEF Shape, RestType
<1> QED
  BY <1>1, <1>3, <1>7, EndKeepsProcs DEF Shape

\* The view a writer has read in a readable workspace, and its mode.
LEMMA LockedView ==
  ASSUME Shape, NEW p \in Procs, NEW mode \in Modes, LockedMode(p) = mode
  PROVE  /\ view \in View \union {NoView}
         /\ view # NoView => view.mode = mode
         /\ JournalValid(journal)
         /\ \/ journal = <<>> /\ view = NoView
            \/ /\ journal # <<>> /\ ~Missing(view) /\ JournalMode(journal) = mode
               /\ mode = "r2" => StateSync(journal, view)
<1>1. None # mode
  BY AuditRecordsAssumption
<1>2. view # Garbage
      /\ SnapshotMode(journal, view, req[p].body.modePolicy) = mode
  BY <1>1 DEF LockedMode
<1>3. view \in View \union {NoView}
  BY <1>2 DEF Shape, FilesInv, FilesType
<1> QED
  BY <1>2, <1>3, ReadableFiles DEF Missing

LEMMA PrepareR2KeepsShape ==
  ASSUME Shape, NEW p \in Procs, PrepareR2(p) PROVE Shape'
<1> DEFINE r == req[p].body
           e == R2EventOf(journal, view, r, req[p].id)
           v == StateAfterEvent(e, Append(journal, e))
<1>1. FilesInv' /\ RestType'
  BY FilesUnchanged, RestUnchanged DEF Shape, PrepareR2
<1>2. /\ pc[p] = "locked" /\ p \in Writers
      /\ event' = [event EXCEPT ![p] = e]
      /\ newView' = [newView EXCEPT ![p] = v]
      /\ LockedMode(p) = "r2"
      /\ R2Accepted(journal, view, r, req[p].cas)
      /\ UNCHANGED <<lock, req, reviewed>>
      /\ Goto(p, "locked", "append")
  BY DEF PrepareR2, Goto
<1>3. req[p] \in Call /\ r \in RequestType /\ req[p].id \in Nat
  BY <1>2, AuditStateIOAssumption
     DEF Shape, ProcsInv, ProcsType, WorkInv, WorkOf, Call
<1>4. /\ view \in View \union {NoView}
      /\ view # NoView => view.mode = "r2"
  BY <1>2, LockedView DEF Modes
<1>5. e \in R2Event /\ e.pv = Version
  BY <1>2, <1>3, <1>4, R2EventType DEF Shape, FilesInv, FilesType
<1>6. Append(journal, e) \in Seq(Event)
  BY <1>5, AppendProperties DEF Event, Shape, FilesInv, FilesType
<1>7. v \in R2View
  BY <1>5, <1>6, StateAfterEventType, AuditRecordsAssumption
<1> HIDE DEF r, e, v
<1>8. ProcsType'
  BY <1>2, <1>5, <1>7
     DEF Shape, ProcsInv, ProcsType, Goto, PcValues, Event, View
<1>9. /\ event'[p] = e /\ newView'[p] = v /\ pc'[p] = "append"
      /\ req'[p] # None
  BY <1>2 DEF Shape, ProcsInv, ProcsType, Goto, WorkInv, WorkOf
<1>10. e # None
  BY <1>5, AuditStateIOAssumption DEF Event
<1>11. WorkOf(p)'
  BY <1>2, <1>5, <1>7, <1>9, <1>10 DEF WorkOf, Writing, View
<1>12. \A q \in Procs \ {p} :
         /\ req'[q] = req[q] /\ event'[q] = event[q]
         /\ newView'[q] = newView[q] /\ reviewed'[q] = reviewed[q]
  BY <1>2 DEF Shape, ProcsInv, ProcsType
<1>13. ProcsInv'
  BY <1>2, <1>8, <1>11, <1>12, MoveKeepsProcs DEF Shape, PcValues, Held
<1> QED
  BY <1>1, <1>13 DEF Shape

LEMMA PrepareR1KeepsShape ==
  ASSUME Shape, NEW p \in Procs, PrepareR1(p) PROVE Shape'
<1> DEFINE r == req[p].body
           e == [mode |-> "r1", id |-> req[p].id]
           v == R1ViewOf(view, r, req[p].id)
<1>1. FilesInv' /\ RestType'
  BY FilesUnchanged, RestUnchanged DEF Shape, PrepareR1
<1>2. /\ pc[p] = "locked" /\ p \in Writers
      /\ event' = [event EXCEPT ![p] = e]
      /\ newView' = [newView EXCEPT ![p] = v]
      /\ LockedMode(p) = "r1"
      /\ R1Accepted(view, r, req[p].cas)
      /\ UNCHANGED <<lock, req, reviewed>>
      /\ Goto(p, "locked", "append")
  BY DEF PrepareR1, Goto
<1>3. req[p] \in Call /\ r \in RequestType /\ req[p].id \in Nat
  BY <1>2, AuditStateIOAssumption
     DEF Shape, ProcsInv, ProcsType, WorkInv, WorkOf, Call
<1>4. view \in View \union {NoView}
  BY <1>2, LockedView DEF Modes
<1>5. e \in R1Event /\ e.mode # "r2"
  BY <1>3 DEF R1Event
<1>6. v \in R1View
  BY <1>2, <1>3, <1>4, R1ViewType
<1> HIDE DEF r, e, v
<1>7. ProcsType'
  BY <1>2, <1>5, <1>6
     DEF Shape, ProcsInv, ProcsType, Goto, PcValues, Event, View
<1>8. /\ event'[p] = e /\ newView'[p] = v /\ pc'[p] = "append"
      /\ req'[p] # None
  BY <1>2 DEF Shape, ProcsInv, ProcsType, Goto, WorkInv, WorkOf
<1>9. e # None
  BY <1>5, AuditStateIOAssumption DEF Event
<1>10. WorkOf(p)'
  BY <1>2, <1>5, <1>6, <1>8, <1>9 DEF WorkOf, Writing, View
<1>11. \A q \in Procs \ {p} :
         /\ req'[q] = req[q] /\ event'[q] = event[q]
         /\ newView'[q] = newView[q] /\ reviewed'[q] = reviewed[q]
  BY <1>2 DEF Shape, ProcsInv, ProcsType
<1>12. ProcsInv'
  BY <1>2, <1>7, <1>10, <1>11, MoveKeepsProcs DEF Shape, PcValues, Held
<1> QED
  BY <1>1, <1>12 DEF Shape

LEMMA AppendPartKeepsShape ==
  ASSUME Shape, NEW p \in Procs, AppendPart(p) PROVE Shape'
<1>1. FilesInv'
  BY DEF Shape, FilesInv, FilesType, VersionInv, VersionRecorded, AppendPart
<1>2. RestType'
  BY RestUnchanged DEF Shape, AppendPart
<1>3. ProcsInv'
  <2>1. pc[p] = "append" /\ pc'[p] = "appending"
    BY DEF Shape, ProcsInv, ProcsType, AppendPart, Goto
  <2>2. ProcsType'
    BY DEF Shape, ProcsInv, ProcsType, AppendPart, Goto, PcValues, work
  <2>3. WorkOf(p)'
    BY <2>1 DEF Shape, ProcsInv, WorkInv, WorkOf, AppendPart, work, Writing
  <2> QED
    BY <2>2, <2>3, MoveKeepsProcs DEF Shape, AppendPart, work, PcValues, Held
<1> QED
  BY <1>1, <1>2, <1>3 DEF Shape

LEMMA AppendRestKeepsShape ==
  ASSUME Shape, NEW p \in Procs, AppendRest(p) PROVE Shape'
<1>1. /\ pc[p] = "appending" /\ pc'[p] = "fsync"
      /\ journal' = Append(journal, event[p])
      /\ UNCHANGED <<view, durable, diskViews, lock, req, event, newView,
                     reviewed>>
  BY DEF Shape, ProcsInv, ProcsType, AppendRest, Goto, work
<1>2. event[p] \in Event /\ VersionRecorded(event[p])
  BY <1>1, AuditRecordsAssumption
     DEF Shape, ProcsInv, ProcsType, WorkInv, WorkOf, Writing, VersionRecorded
<1>3. FilesInv'
  <2>1. /\ journal' \in Seq(Event) /\ Len(journal') = Len(journal) + 1
        /\ \A i \in 1..Len(journal) : journal'[i] = journal[i]
        /\ journal'[Len(journal) + 1] = event[p]
    BY <1>1, <1>2, AppendProperties DEF Shape, FilesInv, FilesType
  <2>2. durable' \in 0..Len(journal')
    BY <1>1, <2>1, LenProperties DEF Shape, FilesInv, FilesType
  <2>3. FilesType'
    BY <1>1, <2>1, <2>2 DEF Shape, FilesInv, FilesType, AppendRest
  <2>4. VersionInv'
    <3> SUFFICES ASSUME NEW i \in 1..Len(journal')
                 PROVE  VersionRecorded(journal'[i])
      BY DEF VersionInv, VersionRecorded
    <3>1. Len(journal) \in Nat
      BY LenProperties DEF Shape, FilesInv, FilesType
    <3>2. i \in 1..Len(journal) \/ i = Len(journal) + 1
      BY <2>1, <3>1
    <3> QED
      BY <1>2, <2>1, <3>2 DEF Shape, FilesInv, VersionInv
  <2> QED
    BY <2>3, <2>4 DEF FilesInv
<1>4. RestType'
  BY RestUnchanged DEF Shape, AppendRest
<1>5. ProcsInv'
  <2>1. ProcsType'
    BY DEF Shape, ProcsInv, ProcsType, AppendRest, Goto, PcValues, work
  <2>2. WorkOf(p)'
    BY <1>1 DEF Shape, ProcsInv, WorkInv, WorkOf, Writing
  <2> QED
    BY <1>1, <2>1, <2>2, MoveKeepsProcs
       DEF Shape, AppendRest, work, PcValues, Held
<1> QED
  BY <1>3, <1>4, <1>5 DEF Shape

LEMMA FsyncKeepsShape ==
  ASSUME Shape, NEW p \in Procs, Fsync(p) PROVE Shape'
<1> DEFINE v == IF event[p].mode = "r2" THEN StateAfterEvent(event[p], journal)
                                        ELSE newView[p]
<1>1. /\ pc[p] = "fsync" /\ pc'[p] = "replace" /\ p \in Writers
      /\ event[p] \in Event
  BY DEF Shape, ProcsInv, ProcsType, WorkInv, WorkOf, Writing, Fsync, Goto
<1>2. /\ newView' = [newView EXCEPT ![p] = v]
      /\ durable' = Len(journal)
      /\ UNCHANGED <<journal, tail, view, diskViews, lock, req, event,
                     reviewed>>
  BY DEF Fsync
<1>3. FilesInv'
  <2>1. Len(journal) \in 0..Len(journal)
    BY LenProperties DEF Shape, FilesInv, FilesType
  <2> QED
    BY <1>2, <2>1 DEF Shape, FilesInv, FilesType, VersionInv, VersionRecorded
<1>4. RestType'
  BY RestUnchanged DEF Shape, Fsync
<1>5. ProcsInv'
  <2>1. v \in View
    <3>1. CASE event[p].mode = "r2"
      <4>1. event[p] \in R2Event /\ event[p].pv # None
        BY <1>1, <3>1, AuditRecordsAssumption
           DEF Shape, ProcsInv, WorkInv, WorkOf, Writing, Event, R1Event
      <4> QED
        BY <3>1, <4>1, StateAfterEventType
           DEF Shape, FilesInv, FilesType, View
    <3>2. CASE event[p].mode # "r2"
      BY <1>1, <3>2 DEF Shape, ProcsInv, WorkInv, WorkOf, Writing
    <3> QED
      BY <3>1, <3>2
  <2> HIDE DEF v
  <2>2. ProcsType'
    BY <1>2, <2>1 DEF Shape, ProcsInv, ProcsType, Fsync, Goto, PcValues
  <2>3. newView'[p] = v
    BY <1>2 DEF Shape, ProcsInv, ProcsType
  <2>4. WorkOf(p)'
    BY <1>1, <1>2, <2>1, <2>3 DEF Shape, ProcsInv, WorkInv, WorkOf, Writing
  <2>5. \A q \in Procs \ {p} : newView'[q] = newView[q]
    BY <1>2 DEF Shape, ProcsInv, ProcsType
  <2> QED
    BY <1>2, <2>2, <2>4, <2>5, MoveKeepsProcs DEF Shape, Fsync, PcValues, Held
<1> QED
  BY <1>3, <1>4, <1>5 DEF Shape

LEMMA ReplaceKeepsShape ==
  ASSUME Shape, NEW p \in Procs, Replace(p) PROVE Shape'
<1>1. pc[p] = "replace" /\ pc'[p] = "dirsync" /\ newView[p] \in View
  BY DEF Shape, ProcsInv, ProcsType, WorkInv, WorkOf, Replace, Goto
<1>2. FilesInv'
  BY <1>1 DEF Shape, FilesInv, FilesType, VersionInv, VersionRecorded, Replace
<1>3. RestType'
  BY RestUnchanged DEF Shape, Replace
<1>4. ProcsInv'
  <2>1. ProcsType'
    BY DEF Shape, ProcsInv, ProcsType, Replace, Goto, PcValues, work
  <2>2. WorkOf(p)'
    BY <1>1 DEF Shape, ProcsInv, WorkInv, WorkOf, Replace, work, Writing
  <2> QED
    BY <2>1, <2>2, MoveKeepsProcs DEF Shape, Replace, work, PcValues, Held
<1> QED
  BY <1>2, <1>3, <1>4 DEF Shape

LEMMA ReviewJournalKeepsShape ==
  ASSUME Shape, NEW p \in Procs, ReviewJournal(p) PROVE Shape'
<1> DEFINE seen == [journal |-> journal, tail |-> tail, view |-> NoView]
<1>1. FilesInv' /\ RestType'
  BY FilesUnchanged, RestUnchanged DEF Shape, ReviewJournal
<1>2. /\ pc[p] = "idle" /\ pc'[p] = "reviewing" /\ p \in Recoverers
      /\ reviewed' = [reviewed EXCEPT ![p] = seen]
  BY DEF Shape, ProcsInv, ProcsType, ReviewJournal, Goto
<1>3. seen \in Review /\ seen # None
  BY AuditStateIOAssumption DEF Shape, FilesInv, FilesType, Review
<1> HIDE DEF seen
<1>4. ProcsType'
  BY <1>2, <1>3 DEF Shape, ProcsInv, ProcsType, ReviewJournal, Goto, PcValues
<1>5. /\ reviewed'[p] = seen
      /\ \A q \in Procs \ {p} : reviewed'[q] = reviewed[q]
  BY <1>2 DEF Shape, ProcsInv, ProcsType
<1>6. WorkOf(p)'
  BY <1>2, <1>3, <1>5, AuditStateIOAssumption DEF WorkOf, Writing
<1>7. ProcsInv'
  BY <1>4, <1>5, <1>6, MoveKeepsProcs DEF Shape, ReviewJournal, PcValues, Held
<1> QED
  BY <1>1, <1>7 DEF Shape

LEMMA ReviewViewKeepsShape ==
  ASSUME Shape, NEW p \in Procs, ReviewView(p) PROVE Shape'
<1>1. FilesInv' /\ RestType'
  BY FilesUnchanged, RestUnchanged DEF Shape, ReviewView
<1>2. /\ pc[p] = "reviewing" /\ pc'[p] = "locking" /\ p \in Recoverers
      /\ reviewed' = [reviewed EXCEPT ![p].view = view]
  BY DEF Shape, ProcsInv, ProcsType, ReviewView, Goto
<1>3. reviewed[p] \in Review
  BY <1>2 DEF Shape, ProcsInv, ProcsType, WorkInv, WorkOf
<1>4. [reviewed[p] EXCEPT !.view = view] \in Review
  BY <1>3 DEF Shape, FilesInv, FilesType, Review
<1>5. reviewed' \in [Procs -> Review \union {None}]
  BY <1>2, <1>4 DEF Shape, ProcsInv, ProcsType
<1>6. ProcsType'
  BY <1>5 DEF Shape, ProcsInv, ProcsType, ReviewView, Goto, PcValues
<1>7. \A q \in Procs \ {p} : reviewed'[q] = reviewed[q]
  BY <1>2 DEF Shape, ProcsInv, ProcsType
<1>8. WorkOf(p)'
  BY <1>2, AuditStateIOAssumption DEF WorkOf, Writing
<1>9. ProcsInv'
  BY <1>6, <1>7, <1>8, MoveKeepsProcs DEF Shape, ReviewView, PcValues, Held
<1> QED
  BY <1>1, <1>9 DEF Shape

LEMMA RebuildKeepsShape ==
  ASSUME Shape, NEW p \in Procs, Rebuild(p) PROVE Shape'
<1> DEFINE v == DerivedState(journal, view)
<1>1. FilesInv' /\ RestType'
  BY FilesUnchanged, RestUnchanged DEF Shape, Rebuild
<1>2. /\ pc[p] = "locked" /\ pc'[p] = "replace" /\ p \in Recoverers
      /\ newView' = [newView EXCEPT ![p] = v]
      /\ Derivable(journal, view)
  BY DEF Shape, ProcsInv, ProcsType, Rebuild, Goto, CanRebuild
<1>3. v \in View
  BY <1>2, DerivedStateType DEF Shape, FilesInv, FilesType, View
<1> HIDE DEF v
<1>4. ProcsType'
  BY <1>2, <1>3 DEF Shape, ProcsInv, ProcsType, Rebuild, Goto, PcValues
<1>5. /\ newView'[p] = v
      /\ \A q \in Procs \ {p} : newView'[q] = newView[q]
  BY <1>2 DEF Shape, ProcsInv, ProcsType
<1>6. WorkOf(p)'
  BY <1>2, <1>3, <1>5, AuditStateIOAssumption DEF WorkOf, Writing
<1>7. ProcsInv'
  BY <1>4, <1>5, <1>6, MoveKeepsProcs DEF Shape, Rebuild, PcValues, Held
<1> QED
  BY <1>1, <1>7 DEF Shape

-----------------------------------------------------------------------------
\* Then the world.

\* A prefix of the journal, as every loss of records leaves one.
LEMMA PrefixOfJournal ==
  ASSUME NEW j \in Seq(Event), NEW n \in 0..Len(j)
  PROVE  /\ SubSeq(j, 1, n) \in Seq(Event)
         /\ Len(SubSeq(j, 1, n)) = n
         /\ \A i \in 1..n : SubSeq(j, 1, n)[i] = j[i]
<1>1. Len(j) \in Nat /\ n \in Nat
  BY LenProperties
<1>2. \A i \in 1..n : j[i] \in Event
  BY <1>1, ElementOfSeq
<1> QED
  BY <1>1, <1>2, SubSeqProperties

LEMMA PowerLossKeepsShape == ASSUME Shape, PowerLoss PROVE Shape'
<1>1. PICK n \in durable..Len(journal) :
        /\ journal' = SubSeq(journal, 1, n)
        /\ durable' = n
        /\ tail' \in IF n = Len(journal) /\ tail = "clean" THEN {"clean"}
                     ELSE {"clean", "torn"}
  BY DEF PowerLoss
<1>2. n \in 0..Len(journal)
  BY LenProperties DEF Shape, FilesInv, FilesType
<1>3. /\ journal' \in Seq(Event) /\ Len(journal') = n
      /\ \A i \in 1..n : journal'[i] = journal[i]
  BY <1>1, <1>2, PrefixOfJournal DEF Shape, FilesInv, FilesType
<1>4. FilesType'
  <2>1. durable' \in 0..Len(journal')
    BY <1>1, <1>2, <1>3
  <2>2. tail' \in {"clean", "torn", "corrupt"}
    BY <1>1
  <2>3. /\ view' \in View \union {NoView, Garbage}
        /\ diskViews' \subseteq View \union {NoView, Garbage}
    BY DEF PowerLoss, Shape, FilesInv, FilesType
  <2> QED
    BY <1>3, <2>1, <2>2, <2>3 DEF FilesType
<1>5. VersionInv'
  <2>1. \A i \in 1..n : i \in 1..Len(journal)
    BY <1>2, LenProperties DEF Shape, FilesInv, FilesType
  <2> QED
    BY <1>3, <2>1 DEF Shape, FilesInv, VersionInv, VersionRecorded
<1>6. ProcsInv'
  BY AllIdleKeepsProcs DEF PowerLoss
<1>7. RestType'
  BY FaultKeepsRest DEF Shape, PowerLoss, FaultKinds
<1> QED
  BY <1>4, <1>5, <1>6, <1>7 DEF Shape, FilesInv

LEMMA EditViewKeepsShape == ASSUME Shape, EditView PROVE Shape'
<1>1. view' \in View \union {NoView, Garbage}
  <2>1. ASSUME NEW n \in 1..Len(journal), journal[n].mode = "r2",
               journal[n].policy
        PROVE  StateAfterEvent(journal[n], SubSeq(journal, 1, n)) \in View
    <3>1. journal[n] \in R2Event /\ journal[n].pv # None
      BY <2>1, ElementOfSeq
         DEF Shape, FilesInv, FilesType, VersionInv, VersionRecorded, Event,
             R1Event
    <3>2. SubSeq(journal, 1, n) \in Seq(Event)
      BY PrefixOfJournal, LenProperties DEF Shape, FilesInv, FilesType
    <3> QED
      BY <3>1, <3>2, StateAfterEventType DEF View
  <2> QED
    BY <2>1 DEF EditView
<1>2. FilesInv'
  BY <1>1 DEF EditView, Shape, FilesInv, FilesType, VersionInv, VersionRecorded
<1>3. ProcsInv'
  BY DEF EditView, work, Shape, ProcsInv, ProcsType, LockInv, WorkInv, WorkOf
<1>4. RestType'
  BY FaultKeepsRest DEF Shape, EditView, FaultKinds
<1> QED
  BY <1>2, <1>3, <1>4 DEF Shape

-----------------------------------------------------------------------------
LEMMA NextKeepsShape == Shape /\ [Next]_vars => Shape'
<1> SUFFICES ASSUME Shape, [Next]_vars PROVE Shape'
  OBVIOUS
<1>1. CASE UNCHANGED vars
  BY <1>1 DEF vars, files, work, Shape, FilesInv, FilesType, VersionInv,
              VersionRecorded, ProcsInv, ProcsType, LockInv, WorkInv, WorkOf,
              RestType
<1>2. CASE \E p \in Procs : SubmitAny(p) \/ ReviewJournal(p) \/ Continue(p)
  BY <1>2, SubmitKeepsShape, ReviewJournalKeepsShape, AcquireKeepsShape,
     SilentEndKeepsShape, PrepareR2KeepsShape, PrepareR1KeepsShape,
     AppendPartKeepsShape, AppendRestKeepsShape, FsyncKeepsShape,
     ReplaceKeepsShape, AnsweredEndKeepsShape, ReviewViewKeepsShape,
     RebuildKeepsShape
     DEF Continue
<1>3. CASE Environment
  BY <1>3, AnsweredEndKeepsShape, SilentEndKeepsShape, PowerLossKeepsShape,
     EditViewKeepsShape
     DEF Environment
<1> QED
  BY <1>1, <1>2, <1>3 DEF Next

LEMMA ShapeInvariant == Spec => []Shape
  BY InitShape, NextKeepsShape, PTL DEF Spec

\* Journal, view, lock and every process always have the declared types,
\* through every interleaving, crash, failed call and loss of power.
THEOREM CommitTypeCorrect == Spec => []TypeOK
<1>1. Shape => TypeOK
  BY TypeParts DEF Shape, FilesInv, ProcsInv
<1> QED
  BY <1>1, ShapeInvariant, PTL

-----------------------------------------------------------------------------
(***************************************************************************)
(* The journal is always readable, and no record follows a torn one.       *)
(***************************************************************************)

\* The checks of the policy read the fields of an event, not its identity;
\* and what is legal in a state is legal where the context is not known.
LEMMA AllowedLikewise ==
  ASSUME NEW c, NEW d, NEW e, NEW f,
         d.stage = c.stage, d.status = c.status, d.ctx \in {c.ctx, None},
         f.kind = e.kind, f.fromStage = e.fromStage,
         f.fromStatus = e.fromStatus, f.stage = e.stage, f.status = e.status,
         f.ctx = e.ctx, f.material = e.material,
         Allowed(c, e)
  PROVE  Allowed(d, f)
<1>1. SourceMatches(d, f) /\ ContextFits(f) /\ MaterialSuffices(f)
  BY DEF Allowed, SourceMatches, ContextFits, MaterialSuffices
<1>2. StartAllowed(e) => StartAllowed(f)
  BY DEF StartAllowed
<1>3. ObserveAllowed(c, e) => ObserveAllowed(d, f)
  BY DEF ObserveAllowed, StaysIn, ObservationKeepsContext
<1>4. StatusChangeAllowed(c, e) => StatusChangeAllowed(d, f)
  BY DEF StatusChangeAllowed, StaysIn
<1>5. AdvanceAllowed(c, e) => AdvanceAllowed(d, f)
  BY DEF AdvanceAllowed, FinalizationDoneFirst
<1>6. SkipAllowed(c, e) => SkipAllowed(d, f)
  BY DEF SkipAllowed, StaysIn, FinalizationDoneFirst
<1>7. ReturnAllowed(c, e) => ReturnAllowed(d, f)
  BY DEF ReturnAllowed
<1> QED
  BY <1>1, <1>2, <1>3, <1>4, <1>5, <1>6, <1>7 DEF Allowed

\* A view that agrees with its journal is the state the reader replays, up
\* to the context of records older than the policy.
LEMMA ViewIsReplayedState ==
  ASSUME NEW j \in Seq(Event), j # <<>>, NEW v, v # NoView, StateSync(j, v)
  PROVE  LET c == Previous(v)
             d == StateAfter(j, Len(j))
         IN  d.stage = c.stage /\ d.status = c.status /\ d.ctx \in {c.ctx, None}
<1>1. Len(j) # 0
  BY EmptySeq
<1> QED
  BY <1>1 DEF StateSync, Previous, StateAfter, Last

LEMMA ReplayOfPrefix ==
  ASSUME NEW j, NEW k, NEW n \in Nat, \A i \in 1..n : k[i] = j[i],
         NEW i \in 0..n
  PROVE  StateAfter(k, i) = StateAfter(j, i)
  BY DEF StateAfter

\* A prefix of a valid journal is valid.
LEMMA PrefixIsValid ==
  ASSUME NEW j \in Seq(Event), JournalValid(j), NEW n \in 0..Len(j)
  PROVE  JournalValid(SubSeq(j, 1, n))
<1> DEFINE k == SubSeq(j, 1, n)
<1>1. /\ k \in Seq(Event) /\ Len(k) = n /\ \A i \in 1..n : k[i] = j[i]
      /\ n \in Nat /\ Len(j) \in Nat
  BY PrefixOfJournal, LenProperties
<1> HIDE DEF k
<1> SUFFICES ASSUME k # <<>>
             PROVE  /\ SingleMode(k)
                    /\ k[1].mode = "r2" => RevisionChain(k) /\ ValidSequence(k)
  BY DEF JournalValid, k
<1>2. n > 0
  BY <1>1, EmptySeq
<1>3. /\ SingleMode(j)
      /\ j[1].mode = "r2" => RevisionChain(j) /\ ValidSequence(j)
  <2>1. j # <<>>
    BY <1>1, <1>2, EmptySeq
  <2> QED
    BY <2>1 DEF JournalValid
<1>4. SingleMode(k)
  BY <1>1, <1>2, <1>3 DEF SingleMode
<1>5. ASSUME k[1].mode = "r2" PROVE RevisionChain(k) /\ ValidSequence(k)
  <2>1. RevisionChain(j) /\ ValidSequence(j)
    BY <1>1, <1>2, <1>3, <1>5
  <2>2. RevisionChain(k)
    <3>1. k[1] = j[1] /\ \A i \in 1..n : k[i] = j[i] /\ i \in 1..Len(j)
      BY <1>1, <1>2
    <3> QED
      BY <1>1, <2>1, <3>1 DEF RevisionChain
  <2>3. PrePolicyOnlyAsPrefix(k)
    BY <1>1, <2>1 DEF ValidSequence, PrePolicyOnlyAsPrefix
  <2>4. ASSUME NEW i \in 1..n, k[i].policy
        PROVE  Allowed(StateAfter(k, i - 1), k[i])
    <3>1. StateAfter(k, i - 1) = StateAfter(j, i - 1)
      <4>1. i - 1 \in 0..n
        BY <1>1
      <4> QED
        BY <1>1, <4>1, ReplayOfPrefix
    <3>2. k[i] = j[i] /\ i \in 1..Len(j)
      BY <1>1
    <3> QED
      BY <2>1, <2>4, <3>1, <3>2 DEF ValidSequence
  <2> QED
    BY <1>1, <2>2, <2>3, <2>4 DEF ValidSequence
<1> QED
  BY <1>4, <1>5

\* One R2 record that continues a valid journal: the reader accepts it.
LEMMA ContinuesValid ==
  ASSUME NEW j \in Seq(Event), JournalValid(j), NEW e \in R2Event,
         j # <<>> => j[1].mode = "r2" /\ e.run = j[1].run,
         e.seq = Len(j) + 1, e.rev = Len(j), e.policy,
         Allowed(StateAfter(j, Len(j)), e)
  PROVE  JournalValid(Append(j, e))
<1> DEFINE k == Append(j, e)
           n == Len(j)
<1>1. /\ k \in Seq(Event) /\ Len(k) = n + 1 /\ n \in Nat
      /\ \A i \in 1..n : k[i] = j[i]
      /\ k[n + 1] = e
  BY AppendProperties, LenProperties DEF Event
<1>2. e.mode = "r2"
  BY DEF R2Event
<1>3. n = 0 <=> j = <<>>
  BY EmptySeq
<1>4. /\ \A i \in 1..n : j[i].mode = "r2"
      /\ n > 0 => RevisionChain(j) /\ ValidSequence(j) /\ k[1] = j[1]
  <2>1. CASE n = 0
    BY <2>1
  <2>2. CASE n > 0
    BY <1>1, <1>3, <2>2 DEF JournalValid, SingleMode
  <2> QED
    BY <1>1, <2>1, <2>2
<1> HIDE DEF k, n
<1>5. \A i \in 1..(n + 1) : i \in 1..n \/ i = n + 1
  BY <1>1
<1>6. SingleMode(k)
  BY <1>1, <1>2, <1>4, <1>5 DEF SingleMode
<1>7. RevisionChain(k)
  <2>1. CASE n = 0
    BY <1>1, <2>1 DEF RevisionChain, n
  <2>2. CASE n > 0
    <3>1. j[1].run = e.run
      BY <1>3, <2>2
    <3>2. \A i \in 1..n : k[i].seq = i /\ k[i].rev = i - 1 /\ k[i].run = k[1].run
      BY <1>1, <1>4, <2>2 DEF RevisionChain, n
    <3> QED
      BY <1>1, <1>4, <1>5, <2>2, <3>1, <3>2 DEF RevisionChain, n
  <2> QED
    BY <1>1, <2>1, <2>2
<1>8. ValidSequence(k)
  <2>1. PrePolicyOnlyAsPrefix(k)
    <3> SUFFICES ASSUME NEW a \in 1..(n + 1), NEW b \in 1..(n + 1),
                        a < b, k[a].policy
                 PROVE  k[b].policy
      BY <1>1 DEF PrePolicyOnlyAsPrefix
    <3>1. CASE b = n + 1
      BY <1>1, <3>1
    <3>2. CASE b \in 1..n
      <4>1. a \in 1..n /\ n > 0
        BY <1>1, <3>2
      <4> QED
        BY <1>1, <1>4, <3>2, <4>1 DEF ValidSequence, PrePolicyOnlyAsPrefix, n
    <3> QED
      BY <1>5, <3>1, <3>2
  <2>2. ASSUME NEW i \in 1..(n + 1), k[i].policy
        PROVE  Allowed(StateAfter(k, i - 1), k[i])
    <3>1. StateAfter(k, i - 1) = StateAfter(j, i - 1)
      <4>1. i - 1 \in 0..n
        BY <1>1
      <4> QED
        BY <1>1, <4>1, ReplayOfPrefix
    <3>2. CASE i = n + 1
      <4>1. i - 1 = n
        BY <1>1, <3>2
      <4> QED
        BY <1>1, <3>1, <3>2, <4>1 DEF n
    <3>3. CASE i \in 1..n
      <4>1. n > 0 /\ k[i] = j[i]
        BY <1>1, <3>3
      <4> QED
        BY <1>4, <2>2, <3>1, <3>3, <4>1 DEF ValidSequence, n
    <3> QED
      BY <1>5, <3>2, <3>3
  <2> QED
    BY <1>1, <2>1, <2>2 DEF ValidSequence
<1> QED
  BY <1>6, <1>7, <1>8 DEF JournalValid, k

\* The same for a record of an R1 journal.
LEMMA ContinuesValidR1 ==
  ASSUME NEW j \in Seq(Event), JournalValid(j), NEW e \in R1Event,
         j # <<>> => j[1].mode = "r1"
  PROVE  JournalValid(Append(j, e))
<1> DEFINE k == Append(j, e)
           n == Len(j)
<1>1. /\ k \in Seq(Event) /\ Len(k) = n + 1 /\ n \in Nat
      /\ \A i \in 1..n : k[i] = j[i]
      /\ k[n + 1] = e /\ e.mode = "r1"
      /\ n = 0 <=> j = <<>>
  BY AppendProperties, LenProperties, EmptySeq DEF Event, R1Event
<1>2. \A i \in 1..n : j[i].mode = "r1"
  BY <1>1 DEF JournalValid, SingleMode
<1> HIDE DEF k, n
<1>3. \A i \in 1..(n + 1) : i \in 1..n \/ i = n + 1
  BY <1>1
<1>4. \A i \in 1..(n + 1) : k[i].mode = "r1"
  BY <1>1, <1>2, <1>3
<1>5. 1 \in 1..(n + 1)
  BY <1>1
<1> QED
  BY <1>1, <1>4, <1>5 DEF JournalValid, SingleMode, k

\* What commit_event prepares from the view, the reader will accept.
LEMMA PreparedR2Continues ==
  ASSUME Shape, NEW p \in Procs, PrepareR2(p)
  PROVE  JournalValid(Append(journal, event'[p]))
<1> DEFINE r == req[p].body
           e == R2EventOf(journal, view, r, req[p].id)
           e0 == R2EventOf(journal, view, r, 0)
           n == Len(journal)
<1>1. /\ LockedMode(p) = "r2" /\ R2Accepted(journal, view, r, req[p].cas)
      /\ event'[p] = e /\ p \in Writers /\ pc[p] = "locked"
  BY DEF PrepareR2, Goto, Shape, ProcsInv, ProcsType
<1>2. /\ view \in View \union {NoView}
      /\ view # NoView => view.mode = "r2"
      /\ JournalValid(journal)
      /\ \/ journal = <<>> /\ view = NoView
         \/ /\ journal # <<>> /\ ~Missing(view) /\ JournalMode(journal) = "r2"
            /\ StateSync(journal, view)
  BY <1>1, LockedView DEF Modes
<1>3. journal \in Seq(Event) /\ r \in RequestType /\ req[p].id \in Nat
  BY <1>1, AuditStateIOAssumption
     DEF Shape, FilesInv, FilesType, ProcsInv, ProcsType, WorkInv, WorkOf, Call
<1>4. e \in R2Event
  BY <1>1, <1>2, <1>3, R2EventType
<1>5. /\ e.seq = n + 1 /\ e.policy
      /\ e.rev = (IF view = NoView THEN 0 ELSE view.rev)
      /\ view # NoView => e.run = view.run
  BY DEF R2EventOf
<1>6. n = 0 <=> journal = <<>>
  BY <1>3, EmptySeq
<1>7. Allowed(Previous(view), e0)
  BY <1>1 DEF R2Accepted
<1>8. /\ e.kind = e0.kind /\ e.fromStage = e0.fromStage
      /\ e.fromStatus = e0.fromStatus /\ e.stage = e0.stage
      /\ e.status = e0.status /\ e.ctx = e0.ctx /\ e.material = e0.material
  BY DEF R2EventOf
<1> HIDE DEF r, e, e0
<1>9. CASE journal = <<>> /\ view = NoView
  <2>1. StateAfter(journal, n) = Previous(view)
    BY <1>6, <1>9 DEF StateAfter, Previous
  <2>2. Allowed(StateAfter(journal, n), e)
    BY <1>7, <1>8, <2>1, AllowedLikewise
  <2> QED
    BY <1>1, <1>2, <1>3, <1>4, <1>5, <1>6, <1>9, <2>2, ContinuesValid
<1>10. CASE journal # <<>> /\ ~Missing(view) /\ JournalMode(journal) = "r2"
            /\ StateSync(journal, view)
  <2>1. view # NoView
    BY <1>10 DEF Missing
  <2>2. Allowed(StateAfter(journal, n), e)
    <3>1. LET c == Previous(view)
              d == StateAfter(journal, n)
          IN  d.stage = c.stage /\ d.status = c.status
              /\ d.ctx \in {c.ctx, None}
      BY <1>3, <1>10, <2>1, ViewIsReplayedState
    <3> QED
      BY <1>7, <1>8, <3>1, AllowedLikewise
  <2>3. journal[1].mode = "r2"
    BY <1>10 DEF JournalMode
  <2>4. RevisionChain(journal)
    BY <1>2, <1>10, <2>3 DEF JournalValid
  <2>5. n \in 1..n
    BY <1>3, <1>6, <1>10, LenProperties
  <2>6. view.run = journal[1].run /\ view.rev = n
    BY <1>10, <2>4, <2>5 DEF StateSync, Last, RevisionChain
  <2> QED
    BY <1>1, <1>2, <1>3, <1>4, <1>5, <2>1, <2>2, <2>3, <2>6, ContinuesValid
<1> QED
  BY <1>2, <1>9, <1>10

LEMMA PreparedR1Continues ==
  ASSUME Shape, NEW p \in Procs, PrepareR1(p)
  PROVE  JournalValid(Append(journal, event'[p]))
<1>1. /\ LockedMode(p) = "r1" /\ p \in Writers /\ pc[p] = "locked"
      /\ event'[p] = [mode |-> "r1", id |-> req[p].id]
  BY DEF PrepareR1, Goto, Shape, ProcsInv, ProcsType
<1>2. JournalValid(journal) /\ (journal # <<>> => JournalMode(journal) = "r1")
  BY <1>1, LockedView DEF Modes
<1>3. journal \in Seq(Event) /\ req[p].id \in Nat
  BY <1>1 DEF Shape, FilesInv, FilesType, ProcsInv, ProcsType, WorkInv, WorkOf,
              Call
<1> QED
  BY <1>1, <1>2, <1>3, ContinuesValidR1 DEF JournalMode, R1Event

-----------------------------------------------------------------------------
\* The journal is valid, and stays so when the lock holder has written the
\* record it has ready; only that writer leaves a torn end for a while.
JournalInv ==
  /\ JournalValid(journal)
  /\ tail # "corrupt"
  /\ \A p \in Procs :
       /\ pc[p] \in {"append", "appending"}
            => JournalValid(Append(journal, event[p]))
       /\ pc[p] = "append" => tail = "clean"
       /\ pc[p] = "appending" => tail = "torn"

LEMMA OnlyTheHolder ==
  ASSUME Shape, NEW p \in Procs, pc[p] \in Held, NEW q \in Procs \ {p}
  PROVE  pc[q] \notin Held
  BY DEF Shape, ProcsInv, LockInv

\* A step that writes no journal and prepares no record.
LEMMA QuietStep ==
  ASSUME JournalInv, UNCHANGED <<journal, tail>>,
         \A q \in Procs : pc'[q] \in {"append", "appending"}
                            => pc'[q] = pc[q] /\ event'[q] = event[q]
  PROVE  JournalInv'
  BY DEF JournalInv

LEMMA PreparingStep ==
  ASSUME Shape, JournalInv, NEW p \in Procs, PrepareR2(p) \/ PrepareR1(p)
  PROVE  JournalInv'
<1>1. /\ UNCHANGED <<journal, tail>> /\ pc[p] = "locked" /\ pc'[p] = "append"
      /\ \A q \in Procs \ {p} : pc'[q] = pc[q]
      /\ LockedMode(p) # None
  BY AuditRecordsAssumption
     DEF PrepareR2, PrepareR1, Goto, Shape, ProcsInv, ProcsType, files, Modes
<1>2. tail = "clean"
  BY <1>1 DEF LockedMode
<1>3. JournalValid(Append(journal, event'[p]))
  BY PreparedR2Continues, PreparedR1Continues
<1>4. \A q \in Procs \ {p} : pc[q] \notin Held
  BY <1>1, OnlyTheHolder DEF Held
<1> QED
  BY <1>1, <1>2, <1>3, <1>4 DEF JournalInv, Held

LEMMA AppendPartStep ==
  ASSUME Shape, JournalInv, NEW p \in Procs, AppendPart(p)
  PROVE  JournalInv'
<1>1. /\ UNCHANGED <<journal, event>> /\ pc[p] = "append"
      /\ pc'[p] = "appending"
      /\ \A q \in Procs \ {p} : pc'[q] = pc[q]
      /\ tail' = IF tail = "clean" THEN "torn" ELSE "corrupt"
  BY DEF AppendPart, Goto, Shape, ProcsInv, ProcsType, work
<1>2. \A q \in Procs \ {p} : pc[q] \notin Held
  BY <1>1, OnlyTheHolder DEF Held
<1> QED
  BY <1>1, <1>2 DEF JournalInv, Held

LEMMA AppendRestStep ==
  ASSUME Shape, JournalInv, NEW p \in Procs, AppendRest(p)
  PROVE  JournalInv'
<1>1. /\ journal' = Append(journal, event[p]) /\ pc[p] = "appending"
      /\ pc'[p] = "fsync"
      /\ \A q \in Procs \ {p} : pc'[q] = pc[q]
      /\ tail' = IF tail = "torn" THEN "clean" ELSE "corrupt"
  BY DEF AppendRest, Goto, Shape, ProcsInv, ProcsType
<1>2. \A q \in Procs \ {p} : pc[q] \notin Held
  BY <1>1, OnlyTheHolder DEF Held
<1> QED
  BY <1>1, <1>2 DEF JournalInv, Held

LEMMA PowerLossStep == ASSUME Shape, JournalInv, PowerLoss PROVE JournalInv'
<1>1. PICK n \in durable..Len(journal) :
        /\ journal' = SubSeq(journal, 1, n)
        /\ tail' \in IF n = Len(journal) /\ tail = "clean" THEN {"clean"}
                     ELSE {"clean", "torn"}
  BY DEF PowerLoss
<1>2. journal \in Seq(Event) /\ n \in 0..Len(journal)
  BY LenProperties DEF Shape, FilesInv, FilesType
<1>3. JournalValid(journal')
  BY <1>1, <1>2, PrefixIsValid DEF JournalInv
<1>4. tail' # "corrupt" /\ \A q \in Procs : pc'[q] = "idle"
  BY <1>1 DEF PowerLoss
<1> QED
  BY <1>3, <1>4 DEF JournalInv

LEMMA NextKeepsJournal ==
  ASSUME Shape, JournalInv, [Next]_vars PROVE JournalInv'
<1>1. CASE UNCHANGED vars
  BY <1>1, QuietStep DEF vars, files, work
<1>2. ASSUME NEW p \in Procs, End(p), UNCHANGED <<journal, tail>>
      PROVE  JournalInv'
  BY <1>2, QuietStep DEF End, Shape, ProcsInv, ProcsType
<1>3. ASSUME NEW p \in Procs, NEW from, NEW to \in PcValues, Goto(p, from, to),
             to \notin {"append", "appending"},
             UNCHANGED <<journal, tail, event>>
      PROVE  JournalInv'
  BY <1>3, QuietStep DEF Goto, Shape, ProcsInv, ProcsType
<1>4. CASE \E p \in Procs : SubmitAny(p) \/ ReviewJournal(p) \/ Continue(p)
  <2>1. PICK p \in Procs : SubmitAny(p) \/ ReviewJournal(p) \/ Continue(p)
    BY <1>4
  <2>2. CASE PrepareR2(p) \/ PrepareR1(p)
    BY <2>2, PreparingStep
  <2>3. CASE AppendPart(p)
    BY <2>3, AppendPartStep
  <2>4. CASE AppendRest(p)
    BY <2>4, AppendRestStep
  <2>5. CASE LockTimeout(p) \/ Refuse(p) \/ RebuildRefused(p)
             \/ DirectorySync(p)
    BY <1>2, <2>5 DEF LockTimeout, Refuse, RebuildRefused, DirectorySync, files
  <2>6. CASE SubmitAny(p) \/ ReviewJournal(p) \/ Acquire(p)
    BY <1>3, <2>6
       DEF SubmitAny, Submit, ReviewJournal, Acquire, files, work, PcValues
  <2>7. CASE Fsync(p) \/ Replace(p)
    BY <1>3, <2>7 DEF Fsync, Replace, work, PcValues
  <2>8. CASE ReviewView(p) \/ Rebuild(p)
    BY <1>3, <2>8 DEF ReviewView, Rebuild, files, PcValues
  <2> QED
    BY <2>1, <2>2, <2>3, <2>4, <2>5, <2>6, <2>7, <2>8 DEF Continue
<1>5. CASE Environment
  <2>1. CASE PowerLoss
    BY <2>1, PowerLossStep
  <2>2. CASE EditView
    BY <2>2, QuietStep DEF EditView, work
  <2>3. ASSUME NEW p \in Procs, AppendFails(p) \/ ReplaceFails(p) \/ Crash(p)
        PROVE  JournalInv'
    BY <1>2, <2>3 DEF AppendFails, ReplaceFails, Crash, files
  <2> QED
    BY <1>5, <2>1, <2>2, <2>3 DEF Environment
<1> QED
  BY <1>1, <1>4, <1>5 DEF Next

LEMMA InitJournal == Init => JournalInv
<1> SUFFICES ASSUME Init PROVE JournalInv
  OBVIOUS
<1>1. PICK f \in InitialFiles : journal = f.journal
  BY DEF Init
<1>2. JournalValid(f.journal)
  <2>1. SnapshotMode(f.journal, f.view, "auto") # None
    BY AuditStateIOAssumption
  <2> QED
    BY <2>1 DEF SnapshotMode
<1> QED
  BY <1>1, <1>2 DEF Init, JournalInv

LEMMA JournalInvariant == Spec => [](Shape /\ JournalInv)
<1>1. Init => Shape /\ JournalInv
  BY InitShape, InitJournal
<1>2. (Shape /\ JournalInv) /\ [Next]_vars => (Shape /\ JournalInv)'
  BY NextKeepsShape, NextKeepsJournal
<1> QED
  BY <1>1, <1>2, PTL DEF Spec

\* Whatever the writers accept the readers accept: the records of the
\* journal pass inspect_journal_bytes at every moment, after any requests,
\* crashes, failed calls, rebuilds and losses of power.
THEOREM JournalStaysReadable == Spec => []JournalAlwaysReadable
<1>1. JournalInv => JournalAlwaysReadable
  BY DEF JournalInv, JournalAlwaysReadable
<1> QED
  BY <1>1, JournalInvariant, PTL

\* No writer appends behind a damaged tail, so a torn end of the journal
\* never becomes a corrupt middle.
THEOREM NoRecordFollowsATornOne == Spec => []NeverSpliced
<1>1. JournalInv => NeverSpliced
  BY DEF JournalInv, NeverSpliced
<1> QED
  BY <1>1, JournalInvariant, PTL

-----------------------------------------------------------------------------
(***************************************************************************)
(* What callers are told: an acknowledged event keeps exactly one record,  *)
(* at most one of the writers that name a revision succeeds, and journal   *)
(* and answers behave as AuditLog says.                                    *)
(***************************************************************************)

Before == {"locking", "locked", "append", "appending"}

\* A record (to be) written for a compare-and-swap has the revision named.
Intended(e, cas) == cas.intent = "explicit" => e.mode = "r2" /\ e.rev = cas.rev

\* The record of c, a call or its answer, is covered by an fsync.
Recorded(c) ==
  \E i \in 1..durable :
    journal[i].id = c.id /\ Intended(journal[i], c.cas)

\* What is known of the call that p serves.
TraceOf(p) ==
  req[p] # None =>
    /\ req[p].id \in 1..submitted
    /\ \A a \in answers : a.id # req[p].id
    /\ pc[p] \in Before => \A i \in 1..Len(journal) : journal[i].id # req[p].id
    /\ pc[p] \in Writing => /\ event[p].id = req[p].id
                            /\ Intended(event[p], req[p].cas)
    /\ pc[p] = "fsync" => journal # <<>> /\ Last(journal) = event[p]
    /\ pc[p] \in {"replace", "dirsync"} => Recorded(req[p])

IdsDistinct ==
  \A i, k \in 1..Len(journal) : journal[i].id = journal[k].id => i = k

IdsKnown ==
  \A i \in 1..Len(journal) :
    journal[i].id \in 1..submitted \/ journal[i].id > MaxRequests

AnswersKept ==
  /\ \A a \in answers : a.id <= submitted /\ (a.committed => Recorded(a))
  /\ \A a, b \in answers : a.id = b.id => a = b

CallsDistinct ==
  \A p, q \in Procs :
    (req[p] # None /\ req[q] # None /\ req[p].id = req[q].id) => p = q

TraceInv ==
  /\ IdsDistinct
  /\ IdsKnown
  /\ AnswersKept
  /\ CallsDistinct
  /\ \A p \in Recoverers : req[p] = None
  /\ \A p \in Procs : TraceOf(p)

-----------------------------------------------------------------------------
\* A step that writes no record, tells no caller and prepares nothing.
Onward == {<<"locking", "locked">>, <<"append", "appending">>,
           <<"replace", "dirsync">>}

LEMMA QuietTrace ==
  ASSUME TraceInv, UNCHANGED <<journal, durable, answers, submitted>>,
         \A q \in Procs :
           \/ req'[q] = None
           \/ /\ req'[q] = req[q] /\ event'[q] = event[q]
              /\ pc'[q] = pc[q] \/ <<pc[q], pc'[q]>> \in Onward
  PROVE  TraceInv'
<1>1. IdsDistinct' /\ IdsKnown'
  BY DEF TraceInv, IdsDistinct, IdsKnown
<1>2. AnswersKept'
  BY DEF TraceInv, AnswersKept, Recorded
<1>3. CallsDistinct'
  BY DEF TraceInv, CallsDistinct
<1>4. ASSUME NEW p \in Procs PROVE TraceOf(p)'
  <2> SUFFICES ASSUME req'[p] # None PROVE TraceOf(p)'
    BY DEF TraceOf
  <2>1. req'[p] = req[p] /\ event'[p] = event[p] /\ TraceOf(p)
    BY DEF TraceInv
  <2>2. /\ pc'[p] \in Before => pc[p] \in Before
        /\ pc'[p] \in Writing => pc[p] \in Writing
        /\ pc'[p] = "fsync" => pc[p] = "fsync"
        /\ pc'[p] \in {"replace", "dirsync"} => pc[p] \in {"replace", "dirsync"}
    BY DEF Onward, Before, Writing
  <2> QED
    BY <2>1, <2>2 DEF TraceOf, Recorded
<1>5. \A p \in Recoverers : req'[p] = None
  BY DEF TraceInv, Procs
<1> QED
  BY <1>1, <1>2, <1>3, <1>4, <1>5 DEF TraceInv

LEMMA SubmitTrace ==
  ASSUME Shape, TraceInv, NEW p \in Procs, SubmitAny(p) PROVE TraceInv'
<1>1. PICK r \in Requests,
           cas \in [intent : {"explicit"}, rev : 0..Len(journal)]
                   \union [intent : {"accept", "none"}, rev : {0}] :
             Submit(p, r, cas)
  BY DEF SubmitAny
<1>2. /\ UNCHANGED <<journal, durable, answers, event>> /\ p \in Writers
      /\ pc'[p] = "locking" /\ \A q \in Procs \ {p} : pc'[q] = pc[q]
      /\ submitted < MaxRequests /\ submitted' = submitted + 1
      /\ req'[p].id = submitted + 1 /\ \A q \in Procs \ {p} : req'[q] = req[q]
  BY <1>1 DEF Submit, Goto, files, Shape, ProcsInv, ProcsType
<1>3. submitted \in Nat /\ MaxRequests \in Nat
  BY AuditStateIOAssumption DEF Shape, RestType
<1>4. IdsDistinct'
  BY <1>2 DEF TraceInv, IdsDistinct
<1>5. IdsKnown'
  BY <1>2, <1>3 DEF TraceInv, IdsKnown
<1>6. AnswersKept'
  <2>1. \A a \in answers : a.id \in Nat
    BY DEF Shape, RestType
  <2> QED
    BY <1>2, <1>3, <2>1 DEF TraceInv, AnswersKept, Recorded
<1>7. CallsDistinct'
  <2>1. \A q \in Procs \ {p} : req[q] # None => req'[q].id # req'[p].id
    BY <1>2, <1>3 DEF TraceInv, TraceOf
  <2> QED
    BY <1>2, <2>1 DEF TraceInv, CallsDistinct
<1>8. ASSUME NEW q \in Procs PROVE TraceOf(q)'
  <2>1. CASE q = p
    <3>1. \A a \in answers' : a.id # req'[p].id
      <4>1. \A a \in answers : a.id \in Nat /\ a.id <= submitted
        BY DEF Shape, RestType, TraceInv, AnswersKept
      <4> QED
        BY <1>2, <1>3, <4>1
    <3>2. \A i \in 1..Len(journal') : journal'[i].id # req'[p].id
      BY <1>2, <1>3 DEF TraceInv, IdsKnown
    <3>3. req'[p].id \in 1..submitted'
      BY <1>2, <1>3
    <3> QED
      BY <1>2, <2>1, <3>1, <3>2, <3>3 DEF TraceOf, Writing
  <2>2. CASE q # p
    <3>1. 1..submitted \subseteq 1..submitted'
      BY <1>2, <1>3
    <3> QED
      BY <1>2, <2>2, <3>1 DEF TraceInv, TraceOf, Recorded
  <2> QED
    BY <2>1, <2>2
<1>9. \A q \in Recoverers : req'[q] = None
  BY <1>2, AuditStateIOAssumption DEF TraceInv, Procs
<1> QED
  BY <1>4, <1>5, <1>6, <1>7, <1>8, <1>9 DEF TraceInv

LEMMA PrepareTrace ==
  ASSUME Shape, TraceInv, NEW p \in Procs, PrepareR2(p) \/ PrepareR1(p)
  PROVE  TraceInv'
<1>1. /\ UNCHANGED <<journal, durable, answers, submitted, req>>
      /\ pc[p] = "locked" /\ pc'[p] = "append"
      /\ \A q \in Procs \ {p} : pc'[q] = pc[q] /\ event'[q] = event[q]
  BY DEF PrepareR2, PrepareR1, Goto, files, Shape, ProcsInv, ProcsType
<1>2. event'[p].id = req[p].id /\ Intended(event'[p], req[p].cas)
  <2>1. CASE PrepareR2(p)
    <3>1. /\ event'[p] = R2EventOf(journal, view, req[p].body, req[p].id)
          /\ R2Accepted(journal, view, req[p].body, req[p].cas)
      BY <2>1 DEF PrepareR2, Shape, ProcsInv, ProcsType
    <3>2. /\ event'[p].id = req[p].id /\ event'[p].mode = "r2"
          /\ event'[p].rev = (IF view = NoView THEN 0 ELSE view.rev)
      BY <3>1 DEF R2EventOf
    <3> QED
      BY <3>1, <3>2 DEF Intended, R2Accepted
  <2>2. CASE PrepareR1(p)
    <3>1. /\ event'[p] = [mode |-> "r1", id |-> req[p].id]
          /\ req[p].cas.intent # "explicit"
      BY <2>2 DEF PrepareR1, R1Accepted, Shape, ProcsInv, ProcsType
    <3> QED
      BY <3>1 DEF Intended
  <2> QED
    BY <2>1, <2>2
<1>3. IdsDistinct' /\ IdsKnown' /\ AnswersKept' /\ CallsDistinct'
  BY <1>1 DEF TraceInv, IdsDistinct, IdsKnown, AnswersKept, CallsDistinct,
              Recorded
<1>4. ASSUME NEW q \in Procs PROVE TraceOf(q)'
  BY <1>1, <1>2 DEF TraceInv, TraceOf, Recorded, Before, Writing
<1>5. \A q \in Recoverers : req'[q] = None
  BY <1>1 DEF TraceInv
<1> QED
  BY <1>3, <1>4, <1>5 DEF TraceInv

LEMMA AppendRestTrace ==
  ASSUME Shape, TraceInv, NEW p \in Procs, AppendRest(p) PROVE TraceInv'
<1>1. /\ UNCHANGED <<durable, answers, submitted, req, event>>
      /\ journal' = Append(journal, event[p])
      /\ pc[p] = "appending" /\ pc'[p] = "fsync"
      /\ \A q \in Procs \ {p} : pc'[q] = pc[q]
  BY DEF AppendRest, Goto, work, Shape, ProcsInv, ProcsType
<1>2. req[p] # None /\ event[p] \in Event /\ event[p].id = req[p].id
  BY <1>1 DEF Shape, ProcsInv, ProcsType, WorkInv, WorkOf, Writing, TraceInv,
              TraceOf
<1>3. journal \in Seq(Event) /\ Len(journal) \in Nat
  BY LenProperties DEF Shape, FilesInv, FilesType
<1>4. /\ journal' \in Seq(Event) /\ Len(journal') = Len(journal) + 1
      /\ \A i \in 1..Len(journal) : journal'[i] = journal[i]
      /\ journal'[Len(journal) + 1] = event[p]
  BY <1>1, <1>2, <1>3, AppendProperties
<1>5. \A i \in 1..Len(journal') : i \in 1..Len(journal) \/ i = Len(journal) + 1
  BY <1>3, <1>4
<1>6. \A i \in 1..Len(journal) : journal[i].id # req[p].id
  BY <1>1, <1>2 DEF TraceInv, TraceOf, Before
<1>7. IdsDistinct'
  BY <1>2, <1>4, <1>5, <1>6 DEF TraceInv, IdsDistinct
<1>8. IdsKnown'
  BY <1>1, <1>2, <1>4, <1>5 DEF TraceInv, IdsKnown, TraceOf
<1>9. ASSUME NEW c, Recorded(c) PROVE Recorded(c)'
  <2>1. \A i \in 1..durable : i \in 1..Len(journal)
    BY <1>3 DEF Shape, FilesInv, FilesType
  <2> QED
    BY <1>1, <1>4, <1>9, <2>1 DEF Recorded
<1>10. AnswersKept'
  BY <1>1, <1>9 DEF TraceInv, AnswersKept
<1>11. CallsDistinct'
  BY <1>1 DEF TraceInv, CallsDistinct
<1>12. ASSUME NEW q \in Procs PROVE TraceOf(q)'
  <2> SUFFICES ASSUME req'[q] # None PROVE TraceOf(q)'
    BY DEF TraceOf
  <2>1. TraceOf(q) /\ req'[q] = req[q] /\ event'[q] = event[q]
    BY <1>1 DEF TraceInv
  <2>2. CASE q = p
    <3>1. journal' # <<>> /\ Last(journal') = event[p]
      BY <1>3, <1>4, EmptySeq DEF Last
    <3> QED
      BY <1>1, <2>1, <2>2, <3>1 DEF TraceOf, Before, Writing
  <2>3. CASE q # p
    <3>1. req[q].id # req[p].id
      BY <1>1, <1>2, <2>1, <2>3 DEF TraceInv, CallsDistinct
    <3>2. pc[q] \in Before =>
            \A i \in 1..Len(journal') : journal'[i].id # req[q].id
      BY <1>1, <1>2, <1>4, <1>5, <2>1, <3>1 DEF TraceOf
    <3>3. pc[q] # "fsync"
      BY <1>1, <2>3, OnlyTheHolder DEF Held
    <3> QED
      BY <1>1, <1>9, <2>1, <2>3, <3>2, <3>3 DEF TraceOf
  <2> QED
    BY <2>2, <2>3
<1>13. \A q \in Recoverers : req'[q] = None
  BY <1>1 DEF TraceInv
<1> QED
  BY <1>7, <1>8, <1>10, <1>11, <1>12, <1>13 DEF TraceInv

LEMMA FsyncTrace ==
  ASSUME Shape, TraceInv, NEW p \in Procs, Fsync(p) PROVE TraceInv'
<1>1. /\ UNCHANGED <<journal, answers, submitted, req, event>>
      /\ durable' = Len(journal)
      /\ pc[p] = "fsync" /\ pc'[p] = "replace"
      /\ \A q \in Procs \ {p} : pc'[q] = pc[q]
  BY DEF Fsync, Goto, Shape, ProcsInv, ProcsType
<1>2. Len(journal) \in Nat /\ durable \in 0..Len(journal)
  BY LenProperties DEF Shape, FilesInv, FilesType
<1>3. ASSUME NEW c, Recorded(c) PROVE Recorded(c)'
  <2>1. \A i \in 1..durable : i \in 1..durable'
    BY <1>1, <1>2
  <2> QED
    BY <1>1, <1>3, <2>1 DEF Recorded
<1>4. IdsDistinct' /\ IdsKnown' /\ CallsDistinct'
  BY <1>1 DEF TraceInv, IdsDistinct, IdsKnown, CallsDistinct
<1>5. AnswersKept'
  BY <1>1, <1>3 DEF TraceInv, AnswersKept
<1>6. ASSUME req[p] # None PROVE Recorded(req[p])'
  <2>1. /\ journal # <<>> /\ Last(journal) = event[p]
        /\ event[p].id = req[p].id /\ Intended(event[p], req[p].cas)
    BY <1>1, <1>6 DEF TraceInv, TraceOf, Writing
  <2>2. Len(journal) \in 1..Len(journal)
    BY <1>2, <2>1, EmptySeq DEF Shape, FilesInv, FilesType
  <2> QED
    BY <1>1, <2>1, <2>2 DEF Recorded, Last
<1>7. ASSUME NEW q \in Procs PROVE TraceOf(q)'
  <2>1. CASE q = p
    BY <1>1, <1>6, <2>1 DEF TraceInv, TraceOf, Before, Writing
  <2>2. CASE q # p
    BY <1>1, <1>3, <2>2 DEF TraceInv, TraceOf
  <2> QED
    BY <2>1, <2>2
<1>8. \A q \in Recoverers : req'[q] = None
  BY <1>1 DEF TraceInv
<1> QED
  BY <1>4, <1>5, <1>7, <1>8 DEF TraceInv

\* The call of p ends and its caller is told.
AnsweredEnd(p) == AppendFails(p) \/ ReplaceFails(p) \/ DirectorySync(p)

\* The answer given, if p serves a caller.
AnswerOf(p, committed, updated) ==
  [id |-> req[p].id, cas |-> req[p].cas, committed |-> committed,
   updated |-> updated]

LEMMA AnsweredFacts ==
  ASSUME Shape, TraceInv, NEW p \in Procs, AnsweredEnd(p)
  PROVE  /\ UNCHANGED <<journal, durable, submitted>> /\ End(p)
         /\ \/ p \notin Writers /\ answers' = answers
            \/ /\ p \in Writers /\ req[p] # None
               /\ \E c, u \in BOOLEAN :
                    /\ answers' = answers \union {AnswerOf(p, c, u)}
                    /\ c => Recorded(req[p])
<1>1. PICK c \in BOOLEAN, u \in BOOLEAN :
        Answer(p, c, u) /\ (c => pc[p] \in {"replace", "dirsync"})
  BY DEF AnsweredEnd, AppendFails, ReplaceFails, DirectorySync
<1>2. UNCHANGED <<journal, durable, submitted>> /\ End(p) /\ pc[p] # "idle"
  BY DEF AnsweredEnd, AppendFails, ReplaceFails, DirectorySync, files
<1>3. p \in Writers => req[p] # None
  BY <1>2 DEF Shape, ProcsInv, WorkInv, WorkOf
<1>4. p \in Writers /\ c => Recorded(req[p])
  BY <1>1, <1>3 DEF TraceInv, TraceOf
<1> QED
  BY <1>1, <1>2, <1>3, <1>4 DEF Answer, AnswerOf

LEMMA AnsweredTrace ==
  ASSUME Shape, TraceInv, NEW p \in Procs, AnsweredEnd(p) PROVE TraceInv'
<1>1. /\ UNCHANGED <<journal, durable, submitted>> /\ req'[p] = None
      /\ \A q \in Procs \ {p} :
           pc'[q] = pc[q] /\ req'[q] = req[q] /\ event'[q] = event[q]
  BY AnsweredFacts DEF End, Shape, ProcsInv, ProcsType
<1>2. IdsDistinct' /\ IdsKnown' /\ CallsDistinct'
  BY <1>1 DEF TraceInv, IdsDistinct, IdsKnown, CallsDistinct
<1>3. \A q \in Recoverers : req'[q] = None
  BY <1>1 DEF TraceInv, Procs
<1>4. ASSUME NEW c PROVE Recorded(c) => Recorded(c)'
  BY <1>1 DEF Recorded
<1>5. CASE answers' = answers
  <2>1. AnswersKept'
    BY <1>1, <1>4, <1>5 DEF TraceInv, AnswersKept
  <2>2. ASSUME NEW q \in Procs PROVE TraceOf(q)'
    BY <1>1, <1>4, <1>5 DEF TraceInv, TraceOf
  <2> QED
    BY <1>2, <1>3, <2>1, <2>2 DEF TraceInv
<1>6. CASE /\ p \in Writers /\ req[p] # None
           /\ \E c, u \in BOOLEAN :
                /\ answers' = answers \union {AnswerOf(p, c, u)}
                /\ c => Recorded(req[p])
  <2>1. PICK c \in BOOLEAN, u \in BOOLEAN :
          /\ answers' = answers \union {AnswerOf(p, c, u)}
          /\ c => Recorded(req[p])
    BY <1>6
  <2> DEFINE b == AnswerOf(p, c, u)
  <2>2. b.id = req[p].id /\ b.cas = req[p].cas /\ b.committed = c
    BY DEF AnswerOf
  <2>3. Recorded(req[p]) => Recorded(b)
    BY <2>2 DEF Recorded
  <2> HIDE DEF b
  <2>4. req[p].id <= submitted /\ \A a \in answers : a.id # b.id
    BY <1>6, <2>2 DEF TraceInv, TraceOf, Shape, RestType
  <2>5. AnswersKept'
    <3>1. \A a \in answers' : a.id <= submitted /\ (a.committed => Recorded(a)')
      BY <1>4, <2>1, <2>2, <2>3, <2>4 DEF TraceInv, AnswersKept, b
    <3>2. \A a, d \in answers' : a.id = d.id => a = d
      BY <2>1, <2>4 DEF TraceInv, AnswersKept, b
    <3> QED
      BY <1>1, <3>1, <3>2 DEF AnswersKept
  <2>6. ASSUME NEW q \in Procs PROVE TraceOf(q)'
    <3> SUFFICES ASSUME req'[q] # None PROVE TraceOf(q)'
      BY DEF TraceOf
    <3>1. q # p /\ TraceOf(q) /\ req[q] # None /\ req[q].id # req[p].id
      BY <1>1, <1>6 DEF TraceInv, CallsDistinct
    <3>2. \A a \in answers' : a.id # req[q].id
      BY <2>1, <2>2, <3>1 DEF TraceOf, b
    <3> QED
      BY <1>1, <1>4, <3>1, <3>2 DEF TraceOf
  <2> QED
    BY <1>2, <1>3, <2>5, <2>6 DEF TraceInv
<1> QED
  BY <1>5, <1>6, AnsweredFacts

LEMMA PowerLossTrace == ASSUME Shape, TraceInv, PowerLoss PROVE TraceInv'
<1>1. PICK n \in durable..Len(journal) :
        journal' = SubSeq(journal, 1, n) /\ durable' = n
  BY DEF PowerLoss
<1>2. /\ UNCHANGED <<answers, submitted>>
      /\ \A q \in Procs : req'[q] = None
  BY DEF PowerLoss
<1>3. /\ n \in 0..Len(journal) /\ durable \in 0..n /\ Len(journal) \in Nat
      /\ journal \in Seq(Event)
  BY LenProperties DEF Shape, FilesInv, FilesType
<1>4. /\ Len(journal') = n /\ \A i \in 1..n : journal'[i] = journal[i]
      /\ 1..n \subseteq 1..Len(journal) /\ 1..durable \subseteq 1..n
  BY <1>1, <1>3, PrefixOfJournal
<1>5. IdsDistinct' /\ IdsKnown'
  BY <1>2, <1>4 DEF TraceInv, IdsDistinct, IdsKnown
<1>6. ASSUME NEW c, Recorded(c) PROVE Recorded(c)'
  BY <1>1, <1>4, <1>6 DEF Recorded
<1>7. AnswersKept'
  BY <1>2, <1>6 DEF TraceInv, AnswersKept
<1>8. \A p \in Recoverers : req'[p] = None
  BY <1>2 DEF Procs
<1> QED
  BY <1>2, <1>5, <1>7, <1>8 DEF TraceInv, CallsDistinct, TraceOf

LEMMA InitTrace == Init => TraceInv
<1> SUFFICES ASSUME Init PROVE TraceInv
  OBVIOUS
<1>1. PICK f \in InitialFiles : journal = f.journal
  BY DEF Init
<1>2. journal \in Seq(Event) /\ \A i \in 1..Len(journal) :
        journal[i].id = MaxRequests + i
  BY <1>1, AuditStateIOAssumption
<1>3. MaxRequests \in Nat /\ Len(journal) \in Nat
  BY <1>2, LenProperties, AuditStateIOAssumption
<1>4. IdsDistinct /\ IdsKnown
  BY <1>2, <1>3 DEF IdsDistinct, IdsKnown
<1> QED
  BY <1>4 DEF Init, TraceInv, AnswersKept, CallsDistinct, TraceOf, Procs

LEMMA NextKeepsTrace ==
  ASSUME Shape, TraceInv, [Next]_vars PROVE TraceInv'
<1>1. CASE UNCHANGED vars
  BY <1>1, QuietTrace DEF vars, files, work
<1>2. ASSUME NEW p \in Procs, End(p),
             UNCHANGED <<journal, durable, answers, submitted>>
      PROVE  TraceInv'
  BY <1>2, QuietTrace DEF End, Shape, ProcsInv, ProcsType
<1>3. ASSUME NEW p \in Procs, NEW from, NEW to, Goto(p, from, to),
             <<from, to>> \in Onward \/ p \in Recoverers,
             UNCHANGED <<journal, durable, answers, submitted, req, event>>
      PROVE  TraceInv'
  <2>1. ASSUME NEW q \in Procs
        PROVE  \/ req'[q] = None
               \/ /\ req'[q] = req[q] /\ event'[q] = event[q]
                  /\ pc'[q] = pc[q] \/ <<pc[q], pc'[q]>> \in Onward
    BY <1>3 DEF Goto, TraceInv, Shape, ProcsInv, ProcsType
  <2> QED
    BY <1>3, <2>1, QuietTrace
<1>4. CASE \E p \in Procs : SubmitAny(p) \/ ReviewJournal(p) \/ Continue(p)
  <2>1. PICK p \in Procs : SubmitAny(p) \/ ReviewJournal(p) \/ Continue(p)
    BY <1>4
  <2>2. CASE SubmitAny(p)
    BY <2>2, SubmitTrace
  <2>3. CASE PrepareR2(p) \/ PrepareR1(p)
    BY <2>3, PrepareTrace
  <2>4. CASE AppendRest(p)
    BY <2>4, AppendRestTrace
  <2>5. CASE Fsync(p)
    BY <2>5, FsyncTrace
  <2>6. CASE LockTimeout(p) \/ Refuse(p) \/ RebuildRefused(p)
    BY <1>2, <2>6 DEF LockTimeout, Refuse, RebuildRefused, files
  <2>7. CASE DirectorySync(p)
    BY <2>7, AnsweredTrace DEF AnsweredEnd
  <2>8. CASE Acquire(p) \/ AppendPart(p) \/ Replace(p)
    BY <1>3, <2>8 DEF Acquire, AppendPart, Replace, files, work, Onward
  <2>9. CASE ReviewJournal(p) \/ ReviewView(p) \/ Rebuild(p)
    BY <1>3, <2>9 DEF ReviewJournal, ReviewView, Rebuild, files
  <2> QED
    BY <2>1, <2>2, <2>3, <2>4, <2>5, <2>6, <2>7, <2>8, <2>9 DEF Continue
<1>5. CASE Environment
  <2>1. CASE PowerLoss
    BY <2>1, PowerLossTrace
  <2>2. CASE EditView
    BY <2>2, QuietTrace DEF EditView, work
  <2>3. ASSUME NEW p \in Procs, Crash(p) PROVE TraceInv'
    BY <1>2, <2>3 DEF Crash, files
  <2>4. ASSUME NEW p \in Procs, AppendFails(p) \/ ReplaceFails(p)
        PROVE  TraceInv'
    BY <2>4, AnsweredTrace DEF AnsweredEnd
  <2> QED
    BY <1>5, <2>1, <2>2, <2>3, <2>4 DEF Environment
<1> QED
  BY <1>1, <1>4, <1>5 DEF Next

LEMMA TraceInvariant == Spec => [](Shape /\ JournalInv /\ TraceInv)
<1>1. Init => Shape /\ JournalInv /\ TraceInv
  BY InitShape, InitJournal, InitTrace
<1>2. (Shape /\ JournalInv /\ TraceInv) /\ [Next]_vars
        => (Shape /\ JournalInv /\ TraceInv)'
  BY NextKeepsShape, NextKeepsJournal, NextKeepsTrace
<1> QED
  BY <1>1, <1>2, PTL DEF Spec

-----------------------------------------------------------------------------
\* A caller that was told journal_committed = true finds exactly one record
\* of its event, after any crashes, failed calls, rebuilds and losses of
\* power.
THEOREM AcknowledgementHolds == Spec => []AcknowledgedKept
<1>1. Shape /\ TraceInv => AcknowledgedKept
  <2> SUFFICES ASSUME Shape, TraceInv, NEW a \in answers, a.committed
               PROVE  \E i \in 1..Len(journal) :
                        /\ journal[i].id = a.id
                        /\ \A k \in 1..Len(journal) :
                             journal[k].id = a.id => k = i
    BY DEF AcknowledgedKept
  <2>1. PICK i \in 1..durable : journal[i].id = a.id
    BY DEF TraceInv, AnswersKept, Recorded
  <2>2. i \in 1..Len(journal)
    BY LenProperties DEF Shape, FilesInv, FilesType
  <2> QED
    BY <2>1, <2>2 DEF TraceInv, IdsDistinct
<1> QED
  BY <1>1, TraceInvariant, PTL

\* Of the writers that name one expected_state_revision at most one is told
\* that it committed, however their calls interleave.
THEOREM CompareAndSwapHasOneWinner == Spec => []OneWinnerPerRevision
<1>1. Shape /\ JournalInv /\ TraceInv => OneWinnerPerRevision
  <2> SUFFICES ASSUME Shape, JournalInv, TraceInv,
                      NEW a \in answers, NEW b \in answers,
                      a.committed, b.committed, a.cas.intent = "explicit",
                      b.cas = a.cas
               PROVE  a = b
    BY DEF OneWinnerPerRevision
  <2>1. PICK i \in 1..durable :
          /\ journal[i].id = a.id
          /\ journal[i].mode = "r2" /\ journal[i].rev = a.cas.rev
    BY DEF TraceInv, AnswersKept, Recorded, Intended
  <2>2. PICK k \in 1..durable :
          /\ journal[k].id = b.id
          /\ journal[k].mode = "r2" /\ journal[k].rev = a.cas.rev
    BY DEF TraceInv, AnswersKept, Recorded, Intended
  <2>3. i \in 1..Len(journal) /\ k \in 1..Len(journal) /\ journal # <<>>
    BY LenProperties, EmptySeq DEF Shape, FilesInv, FilesType
  <2>4. RevisionChain(journal)
    BY <2>1, <2>3 DEF JournalInv, JournalValid, SingleMode
  <2>5. i = k
    BY <2>1, <2>2, <2>3, <2>4 DEF RevisionChain
  <2> QED
    BY <2>1, <2>2, <2>5 DEF TraceInv, AnswersKept
<1> QED
  BY <1>1, TraceInvariant, PTL

-----------------------------------------------------------------------------
\* The ids of the reported commits, and the initial journals: what LogSpec
\* puts for the variables of AuditLog.
Promised == {a.id : a \in {b \in answers : b.committed}}

LEMMA RecordStep ==
  ASSUME Shape, TraceInv, NEW p \in Procs, AppendRest(p)
  PROVE  Log!Record
<1>1. /\ journal' = Append(journal, event[p]) /\ UNCHANGED answers
      /\ pc[p] = "appending"
  BY DEF AppendRest, Goto
<1>2. event[p] \in Event /\ req[p] # None /\ event[p].id = req[p].id
  BY <1>1 DEF Shape, ProcsInv, ProcsType, WorkInv, WorkOf, Writing, TraceInv,
              TraceOf
<1>3. /\ Len(journal') = Len(journal) + 1
      /\ journal'[Len(journal) + 1] = event[p]
  BY <1>1, <1>2, AppendProperties DEF Shape, FilesInv, FilesType
<1>4. \A i \in 1..Len(journal) : journal[i].id # event[p].id
  BY <1>1, <1>2 DEF TraceInv, TraceOf, Before
<1> QED
  BY <1>1, <1>3, <1>4 DEF Log!Record, Log!Ids

LEMMA LoseStep ==
  ASSUME Shape, TraceInv, PowerLoss
  PROVE  Log!Lose
<1>1. PICK n \in durable..Len(journal) : journal' = SubSeq(journal, 1, n)
  BY DEF PowerLoss
<1>2. /\ n \in 0..Len(journal) /\ journal \in Seq(Event)
      /\ 1..durable \subseteq 1..n
  BY LenProperties DEF Shape, FilesInv, FilesType
<1>3. Len(journal') = n /\ \A i \in 1..n : journal'[i] = journal[i]
  BY <1>1, <1>2, PrefixOfJournal
<1>4. Promised \subseteq Log!Ids(journal')
  BY <1>2, <1>3 DEF Promised, Log!Ids, TraceInv, AnswersKept, Recorded
<1>5. UNCHANGED answers
  BY DEF PowerLoss
<1> QED
  BY <1>1, <1>2, <1>4, <1>5 DEF Log!Lose, Promised

LEMMA AnswerStep ==
  ASSUME Shape, TraceInv, NEW p \in Procs, AnsweredEnd(p)
  PROVE  [Log!Next]_Log!vars
<1>1. CASE answers' = answers
  BY <1>1, AnsweredFacts DEF Log!vars
<1>2. CASE \E c, u \in BOOLEAN :
             /\ answers' = answers \union {AnswerOf(p, c, u)}
             /\ c => Recorded(req[p])
  <2>1. PICK c \in BOOLEAN, u \in BOOLEAN :
          /\ answers' = answers \union {AnswerOf(p, c, u)}
          /\ c => Recorded(req[p])
    BY <1>2
  <2>2. UNCHANGED journal
    BY AnsweredFacts
  <2>3. CASE c
    <3>1. Promised' = Promised \union {req[p].id}
      <4> DEFINE b == AnswerOf(p, c, u)
      <4>1. b.id = req[p].id /\ b.committed
        BY <2>3 DEF AnswerOf
      <4>2. answers' = answers \union {b}
        BY <2>1
      <4> HIDE DEF b
      <4>3. {d \in answers' : d.committed}
              = {d \in answers : d.committed} \union {b}
        BY <4>1, <4>2
      <4> QED
        BY <4>1, <4>3 DEF Promised
    <3>2. req[p].id \in Log!Ids(journal)
      BY <2>1, <2>3, LenProperties
         DEF Recorded, Log!Ids, Shape, FilesInv, FilesType
    <3> QED
      BY <2>2, <3>1, <3>2 DEF Log!Next, Log!Promise, Promised
  <2>4. CASE ~c
    <3>1. Promised' = Promised
      BY <2>1, <2>4 DEF Promised, AnswerOf
    <3> QED
      BY <2>2, <3>1 DEF Log!vars, Promised
  <2> QED
    BY <2>3, <2>4
<1> QED
  BY <1>1, <1>2, AnsweredFacts

LEMMA NextImplementsLog ==
  ASSUME Shape, TraceInv, [Next]_vars
  PROVE  [Log!Next]_Log!vars
<1>1. ASSUME UNCHANGED <<journal, answers>> PROVE UNCHANGED Log!vars
  BY <1>1 DEF Log!vars
<1>2. CASE UNCHANGED vars
  BY <1>1, <1>2 DEF vars, files
<1>3. CASE \E p \in Procs : SubmitAny(p) \/ ReviewJournal(p) \/ Continue(p)
  <2>1. PICK p \in Procs : SubmitAny(p) \/ ReviewJournal(p) \/ Continue(p)
    BY <1>3
  <2>2. CASE AppendRest(p)
    BY <2>2, RecordStep DEF Log!Next
  <2>3. CASE DirectorySync(p)
    BY <2>3, AnswerStep DEF AnsweredEnd
  <2>4. CASE SubmitAny(p) \/ ReviewJournal(p) \/ Acquire(p) \/ LockTimeout(p)
    BY <1>1, <2>4 DEF SubmitAny, Submit, ReviewJournal, Acquire, LockTimeout,
                      files
  <2>5. CASE PrepareR2(p) \/ PrepareR1(p) \/ Refuse(p)
    BY <1>1, <2>5 DEF PrepareR2, PrepareR1, Refuse, files
  <2>6. CASE AppendPart(p) \/ Fsync(p) \/ Replace(p)
    BY <1>1, <2>6 DEF AppendPart, Fsync, Replace
  <2>7. CASE ReviewView(p) \/ Rebuild(p) \/ RebuildRefused(p)
    BY <1>1, <2>7 DEF ReviewView, Rebuild, RebuildRefused, files
  <2> QED
    BY <2>1, <2>2, <2>3, <2>4, <2>5, <2>6, <2>7 DEF Continue
<1>4. CASE Environment
  <2>1. CASE PowerLoss
    BY <2>1, LoseStep DEF Log!Next
  <2>2. CASE EditView
    BY <1>1, <2>2 DEF EditView
  <2>3. ASSUME NEW p \in Procs, Crash(p) PROVE [Log!Next]_Log!vars
    BY <1>1, <2>3 DEF Crash, files
  <2>4. ASSUME NEW p \in Procs, AppendFails(p) \/ ReplaceFails(p)
        PROVE  [Log!Next]_Log!vars
    BY <2>4, AnswerStep DEF AnsweredEnd
  <2> QED
    BY <1>4, <2>1, <2>2, <2>3, <2>4 DEF Environment
<1> QED
  BY <1>2, <1>3, <1>4 DEF Next

\* The journal and the reported commits behave as AuditLog says: records are
\* added one at a time, each of a new event, a commit is reported only of a
\* record that is there, and no reported record is lost.
THEOREM JournalIsALog == Spec => LogSpec
<1>1. Init => Log!Init
  BY DEF Init, Log!Init
<1>2. Shape /\ TraceInv /\ [Next]_vars => [Log!Next]_Log!vars
  BY NextImplementsLog
<1> QED
  BY <1>1, <1>2, TraceInvariant, PTL DEF Spec, LogSpec, Log!Spec

-----------------------------------------------------------------------------
(***************************************************************************)
(* The view is the state some prefix of the journal leads to, and is       *)
(* published only while it is the state after all of it.                   *)
(***************************************************************************)

\* v shows the state that the first v.seq records of j lead to.
Shows(v, j) ==
  (~Missing(v) /\ v.mode = "r2") =>
    /\ v.seq \in 1..Len(j)
    /\ StateSync(SubSeq(j, 1, v.seq), v)

\* What shows a journal shows every longer one.
LEMMA ShowsLonger ==
  ASSUME NEW j \in Seq(Event), NEW k \in Seq(Event), Len(j) <= Len(k),
         \A i \in 1..Len(j) : k[i] = j[i],
         NEW v, Shows(v, j)
  PROVE  Shows(v, k)
<1> SUFFICES ASSUME ~Missing(v), v.mode = "r2"
             PROVE  v.seq \in 1..Len(k) /\ StateSync(SubSeq(k, 1, v.seq), v)
  BY DEF Shows
<1>1. v.seq \in 1..Len(j) /\ StateSync(SubSeq(j, 1, v.seq), v)
  BY DEF Shows
<1>2. v.seq \in 0..Len(j) /\ v.seq \in 0..Len(k) /\ v.seq \in 1..Len(k)
  BY <1>1, LenProperties
<1>3. SubSeq(k, 1, v.seq) = SubSeq(j, 1, v.seq)
  <2> DEFINE a == SubSeq(k, 1, v.seq)
             b == SubSeq(j, 1, v.seq)
  <2>1. /\ a \in Seq(Event) /\ Len(a) = v.seq
        /\ \A i \in 1..v.seq : a[i] = k[i]
    BY <1>2, PrefixOfJournal
  <2>2. /\ b \in Seq(Event) /\ Len(b) = v.seq
        /\ \A i \in 1..v.seq : b[i] = j[i]
    BY <1>2, PrefixOfJournal
  <2>3. \A i \in 1..v.seq : i \in 1..Len(j)
    BY <1>1, LenProperties
  <2> HIDE DEF a, b
  <2>4. a = b
    BY <2>1, <2>2, <2>3, SeqEqual
  <2> QED
    BY <2>4 DEF a, b
<1> QED
  BY <1>1, <1>2, <1>3

LEMMA SyncedShows ==
  ASSUME NEW j \in Seq(Event), j # <<>>, NEW v, v.seq = Len(j),
         StateSync(j, v)
  PROVE  Shows(v, j)
<1>1. v.seq \in 1..Len(j)
  BY EmptySeq, LenProperties
<1>2. SubSeq(j, 1, v.seq) = j
  BY SubSeqFull
<1> QED
  BY <1>1, <1>2 DEF Shows

\* The view derived from the last record of a valid journal agrees with it.
LEMMA EventSynced ==
  ASSUME NEW j \in Seq(Event), JournalValid(j), j # <<>>,
         Last(j).mode = "r2"
  PROVE  LET v == StateAfterEvent(Last(j), j)
         IN  v.seq = Len(j) /\ StateSync(j, v)
<1> DEFINE e == Last(j)
           v == StateAfterEvent(e, j)
<1>1. 1 \in 1..Len(j) /\ Len(j) \in 1..Len(j)
  BY EmptySeq, LenProperties
<1>2. j[1].mode = "r2"
  BY <1>1 DEF JournalValid, SingleMode, Last
<1>3. RevisionChain(j) /\ ValidSequence(j)
  BY <1>2 DEF JournalValid
<1>4. e.seq = Len(j)
  BY <1>1, <1>3 DEF RevisionChain, Last
<1>5. e.policy => ContextFits(e)
  BY <1>1, <1>3 DEF ValidSequence, Allowed, Last
<1>6. /\ v.run = e.run /\ v.seq = e.seq /\ v.rev = e.seq /\ v.digest = j
      /\ v.stage = e.stage /\ v.status = e.status /\ v.id = e.id
      /\ v.pv = e.pv
      /\ v.ctx = IF e.status \in Halted THEN e.ctx ELSE None
  BY DEF StateAfterEvent
<1>7. e.policy => v.ctx = e.ctx
  BY <1>5, <1>6 DEF ContextFits
<1> HIDE DEF v
<1> QED
  BY <1>4, <1>6, <1>7 DEF StateSync, v

LEMMA DerivedSynced ==
  ASSUME NEW j \in Seq(Event), NEW w, Derivable(j, w)
  PROVE  LET v == DerivedState(j, w)
         IN  v.seq = Len(j) /\ StateSync(j, v)
<1> DEFINE e == Last(j)
           v == DerivedState(j, w)
<1>1. j # <<>> /\ RevisionChain(j)
  BY DEF Derivable, JournalValid, JournalMode
<1>2. Len(j) \in 1..Len(j)
  BY <1>1, EmptySeq, LenProperties
<1>3. e.seq = Len(j)
  BY <1>1, <1>2 DEF RevisionChain, Last
<1>4. /\ v.run = e.run /\ v.seq = e.seq /\ v.rev = Len(j) /\ v.digest = j
      /\ v.stage = e.stage /\ v.status = e.status /\ v.id = e.id
      /\ e.pv # None => v.pv = e.pv
      /\ e.policy => v.ctx = e.ctx
  BY DEF DerivedState
<1> HIDE DEF v
<1> QED
  BY <1>3, <1>4 DEF StateSync, v

-----------------------------------------------------------------------------
\* The view a process is about to publish is the state after the whole
\* journal, which a writer has synced by then.
PublishOf(p) ==
  /\ pc[p] = "fsync" => journal # <<>> /\ Last(journal) = event[p]
  /\ (pc[p] \in Writing /\ event[p].mode = "r1") => newView[p].mode = "r1"
  /\ (pc[p] = "replace" /\ newView[p].mode = "r2") =>
       /\ journal # <<>>
       /\ newView[p].seq = Len(journal) /\ StateSync(journal, newView[p])
  /\ (pc[p] = "replace" /\ p \in Writers) => durable = Len(journal)

PublishInv == \A p \in Procs : PublishOf(p)

LEMMA QuietPublish ==
  ASSUME PublishInv, UNCHANGED <<journal, durable>>,
         \A q \in Procs :
           pc'[q] \in Writing \union {"replace"} =>
             /\ pc'[q] = pc[q] \/ <<pc[q], pc'[q]>> = <<"append", "appending">>
             /\ event'[q] = event[q] /\ newView'[q] = newView[q]
  PROVE  PublishInv'
<1> SUFFICES ASSUME NEW p \in Procs PROVE PublishOf(p)'
  BY DEF PublishInv
<1>1. PublishOf(p)
  BY DEF PublishInv
<1>2. CASE pc'[p] \in Writing \union {"replace"}
  BY <1>1, <1>2 DEF PublishOf, Writing
<1>3. CASE pc'[p] \notin Writing \union {"replace"}
  BY <1>3 DEF PublishOf, Writing
<1> QED
  BY <1>2, <1>3

\* While p holds the lock nobody else is about to write or publish.
LEMMA OthersIdle ==
  ASSUME Shape, NEW p \in Procs, pc[p] \in Held, NEW q \in Procs \ {p},
         pc'[q] = pc[q]
  PROVE  PublishOf(q)'
<1>1. pc'[q] \notin Held
  BY OnlyTheHolder
<1> QED
  BY <1>1 DEF PublishOf, Held, Writing

LEMMA PreparePublish ==
  ASSUME Shape, PublishInv, NEW p \in Procs, PrepareR2(p) \/ PrepareR1(p)
  PROVE  PublishInv'
<1>1. /\ pc[p] = "locked" /\ pc'[p] = "append"
      /\ \A q \in Procs \ {p} : pc'[q] = pc[q]
  BY DEF PrepareR2, PrepareR1, Goto, Shape, ProcsInv, ProcsType
<1>2. event'[p].mode = "r1" => newView'[p].mode = "r1"
  <2>1. CASE PrepareR2(p)
    <3>1. event'[p] = R2EventOf(journal, view, req[p].body, req[p].id)
      BY <2>1 DEF PrepareR2, Shape, ProcsInv, ProcsType
    <3> QED
      BY <3>1 DEF R2EventOf
  <2>2. CASE PrepareR1(p)
    <3>1. newView'[p] = R1ViewOf(view, req[p].body, req[p].id)
      BY <2>2 DEF PrepareR1, Shape, ProcsInv, ProcsType
    <3> QED
      BY <3>1 DEF R1ViewOf
  <2> QED
    BY <2>1, <2>2
<1>3. PublishOf(p)'
  BY <1>1, <1>2 DEF PublishOf
<1> QED
  BY <1>1, <1>3, OthersIdle DEF PublishInv, Held

LEMMA AppendRestPublish ==
  ASSUME Shape, PublishInv, NEW p \in Procs, AppendRest(p) PROVE PublishInv'
<1>1. /\ journal' = Append(journal, event[p]) /\ UNCHANGED <<event, newView>>
      /\ pc[p] = "appending" /\ pc'[p] = "fsync"
      /\ \A q \in Procs \ {p} : pc'[q] = pc[q]
  BY DEF AppendRest, Goto, work, Shape, ProcsInv, ProcsType
<1>2. event[p] \in Event /\ journal \in Seq(Event)
  BY <1>1 DEF Shape, FilesInv, FilesType, ProcsInv, ProcsType, WorkInv, WorkOf,
              Writing
<1>3. journal' # <<>> /\ Last(journal') = event[p]
  <2>1. /\ journal' \in Seq(Event) /\ Len(journal') = Len(journal) + 1
        /\ journal'[Len(journal) + 1] = event[p] /\ Len(journal) \in Nat
    BY <1>1, <1>2, AppendProperties, LenProperties
  <2> QED
    BY <2>1, EmptySeq DEF Last
<1>4. PublishOf(p)'
  BY <1>1, <1>3 DEF PublishInv, PublishOf, Writing
<1> QED
  BY <1>1, <1>4, OthersIdle DEF PublishInv, Held

LEMMA FsyncPublish ==
  ASSUME Shape, JournalInv, PublishInv, NEW p \in Procs, Fsync(p)
  PROVE  PublishInv'
<1>1. /\ UNCHANGED <<journal, event>> /\ durable' = Len(journal)
      /\ newView'[p] = IF event[p].mode = "r2"
                       THEN StateAfterEvent(event[p], journal) ELSE newView[p]
      /\ pc[p] = "fsync" /\ pc'[p] = "replace"
      /\ \A q \in Procs \ {p} : pc'[q] = pc[q]
  BY DEF Fsync, Goto, Shape, ProcsInv, ProcsType
<1>2. /\ journal \in Seq(Event) /\ journal # <<>> /\ Last(journal) = event[p]
      /\ event[p] \in Event /\ JournalValid(journal)
  BY <1>1 DEF Shape, FilesInv, FilesType, ProcsInv, ProcsType, WorkInv, WorkOf,
              Writing, JournalInv, PublishInv, PublishOf
<1>3. newView'[p].mode = "r2" =>
        newView'[p].seq = Len(journal) /\ StateSync(journal, newView'[p])
  <2>1. CASE event[p].mode = "r2"
    BY <1>1, <1>2, <2>1, EventSynced
  <2>2. CASE event[p].mode # "r2"
    <3>1. event[p].mode = "r1"
      BY <1>2, <2>2 DEF Event, R1Event, R2Event
    <3> QED
      BY <1>1, <2>2, <3>1 DEF PublishInv, PublishOf, Writing
  <2> QED
    BY <2>1, <2>2
<1>4. PublishOf(p)'
  BY <1>1, <1>2, <1>3 DEF PublishOf, Writing
<1> QED
  BY <1>1, <1>4, OthersIdle DEF PublishInv, Held

LEMMA RebuildPublish ==
  ASSUME Shape, PublishInv, NEW p \in Procs, Rebuild(p) PROVE PublishInv'
<1>1. /\ UNCHANGED journal /\ p \notin Writers
      /\ newView'[p] = DerivedState(journal, view) /\ Derivable(journal, view)
      /\ pc[p] = "locked" /\ pc'[p] = "replace"
      /\ \A q \in Procs \ {p} : pc'[q] = pc[q]
  BY AuditStateIOAssumption
     DEF Rebuild, CanRebuild, Goto, files, Shape, ProcsInv, ProcsType
<1>2. journal \in Seq(Event) /\ journal # <<>>
  BY <1>1 DEF Shape, FilesInv, FilesType, Derivable
<1>3. newView'[p].seq = Len(journal) /\ StateSync(journal, newView'[p])
  BY <1>1, <1>2, DerivedSynced
<1>4. PublishOf(p)'
  BY <1>1, <1>2, <1>3 DEF PublishOf, Writing
<1> QED
  BY <1>1, <1>4, OthersIdle DEF PublishInv, Held

LEMMA NextKeepsPublish ==
  ASSUME Shape, JournalInv, PublishInv, [Next]_vars PROVE PublishInv'
<1>1. CASE UNCHANGED vars
  BY <1>1, QuietPublish DEF vars, files, work
<1>2. ASSUME NEW p \in Procs, End(p), UNCHANGED <<journal, durable>>
      PROVE  PublishInv'
  BY <1>2, QuietPublish DEF End, Shape, ProcsInv, ProcsType, Writing
<1>3. ASSUME NEW p \in Procs, NEW from, NEW to, Goto(p, from, to),
             to \notin Writing \union {"replace"},
             UNCHANGED <<journal, durable, event, newView>>
      PROVE  PublishInv'
  BY <1>3, QuietPublish DEF Goto, Shape, ProcsInv, ProcsType
<1>4. CASE \E p \in Procs : SubmitAny(p) \/ ReviewJournal(p) \/ Continue(p)
  <2>1. PICK p \in Procs : SubmitAny(p) \/ ReviewJournal(p) \/ Continue(p)
    BY <1>4
  <2>2. CASE PrepareR2(p) \/ PrepareR1(p)
    BY <2>2, PreparePublish
  <2>3. CASE AppendPart(p)
    BY <2>3, QuietPublish
       DEF AppendPart, Goto, work, Shape, ProcsInv, ProcsType
  <2>4. CASE AppendRest(p)
    BY <2>4, AppendRestPublish
  <2>5. CASE Fsync(p)
    BY <2>5, FsyncPublish
  <2>6. CASE LockTimeout(p) \/ Refuse(p) \/ RebuildRefused(p)
             \/ DirectorySync(p)
    BY <1>2, <2>6 DEF LockTimeout, Refuse, RebuildRefused, DirectorySync, files
  <2>7. CASE SubmitAny(p) \/ ReviewJournal(p) \/ Acquire(p)
    BY <1>3, <2>7
       DEF SubmitAny, Submit, ReviewJournal, Acquire, files, work, Writing
  <2>8. CASE Replace(p) \/ ReviewView(p)
    BY <1>3, <2>8 DEF Replace, ReviewView, files, work, Writing
  <2>9. CASE Rebuild(p)
    BY <2>9, RebuildPublish
  <2> QED
    BY <2>1, <2>2, <2>3, <2>4, <2>5, <2>6, <2>7, <2>8, <2>9 DEF Continue
<1>5. CASE Environment
  <2>1. CASE PowerLoss
    <3>1. \A p \in Procs : pc'[p] = "idle"
      BY <2>1 DEF PowerLoss
    <3> QED
      BY <3>1 DEF PublishInv, PublishOf, Writing
  <2>2. CASE EditView
    BY <2>2, QuietPublish DEF EditView, work
  <2>3. ASSUME NEW p \in Procs, AppendFails(p) \/ ReplaceFails(p) \/ Crash(p)
        PROVE  PublishInv'
    BY <1>2, <2>3 DEF AppendFails, ReplaceFails, Crash, files
  <2> QED
    BY <1>5, <2>1, <2>2, <2>3 DEF Environment
<1> QED
  BY <1>1, <1>4, <1>5 DEF Next

LEMMA PublishInvariant == Spec => [](Shape /\ JournalInv /\ PublishInv)
<1>1. Init => PublishInv
  BY DEF Init, PublishInv, PublishOf, Writing
<1>2. (Shape /\ JournalInv /\ PublishInv) /\ [Next]_vars
        => (Shape /\ JournalInv /\ PublishInv)'
  BY NextKeepsShape, NextKeepsJournal, NextKeepsPublish
<1> QED
  BY <1>1, <1>2, InitShape, InitJournal, PTL DEF Spec

\* A view is published only while it is the state after the whole journal:
\* neither a slow writer nor a rebuild from an old check overwrites the view
\* of a later commit.
THEOREM NoStaleViewPublished == Spec => PublishedViewIsCurrent
<1>1. (Shape /\ JournalInv /\ PublishInv) /\ [Next]_vars =>
        [\A p \in Procs :
           (pc[p] = "replace" /\ pc'[p] = "dirsync" /\ view'.mode = "r2")
             => view'.digest = journal]_vars
  <2> SUFFICES ASSUME Shape, JournalInv, PublishInv, [Next]_vars,
                      NEW p \in Procs, pc[p] = "replace", pc'[p] = "dirsync",
                      view'.mode = "r2"
               PROVE  view'.digest = journal
    OBVIOUS
  <2>1. Replace(p)
    <3>1. ASSUME NEW q \in Procs, NEW from, NEW to, Goto(q, from, to)
          PROVE  from = "replace" /\ q = p
      BY <3>1 DEF Goto, Shape, ProcsInv, ProcsType
    <3>2. ASSUME NEW q \in Procs, End(q) PROVE FALSE
      BY <3>2 DEF End, Shape, ProcsInv, ProcsType
    <3>3. pc' # pc
      OBVIOUS
    <3>4. ~PowerLoss /\ ~EditView
      <4>1. ASSUME PowerLoss PROVE pc'[p] = "idle"
        BY <4>1 DEF PowerLoss
      <4>2. ASSUME EditView PROVE pc' = pc
        BY <4>2 DEF EditView
      <4> QED
        BY <3>3, <4>1, <4>2
    <3>5. ~Environment
      BY <3>2, <3>4 DEF Environment, AppendFails, ReplaceFails, Crash
    <3>6. PICK q \in Procs : SubmitAny(q) \/ ReviewJournal(q) \/ Continue(q)
      BY <3>3, <3>5 DEF Next, vars
    <3>7. ~SubmitAny(q) /\ ~ReviewJournal(q)
      BY <3>1 DEF SubmitAny, Submit, ReviewJournal
    <3>8. /\ ~Acquire(q) /\ ~LockTimeout(q) /\ ~PrepareR2(q) /\ ~PrepareR1(q)
          /\ ~Refuse(q) /\ ~AppendPart(q) /\ ~AppendRest(q) /\ ~Fsync(q)
      BY <3>1, <3>2 DEF Acquire, LockTimeout, PrepareR2, PrepareR1, Refuse,
                        AppendPart, AppendRest, Fsync
    <3>9. ~DirectorySync(q) /\ ~ReviewView(q) /\ ~Rebuild(q)
          /\ ~RebuildRefused(q)
      <4>1. ReviewView(q) => Goto(q, "reviewing", "locking")
        BY DEF ReviewView
      <4>2. Rebuild(q) => Goto(q, "locked", "replace")
        BY DEF Rebuild
      <4>3. DirectorySync(q) \/ RebuildRefused(q) => End(q)
        BY DEF DirectorySync, RebuildRefused
      <4> QED
        BY <3>1, <3>2, <4>1, <4>2, <4>3
    <3>10. Replace(q)
      BY <3>6, <3>7, <3>8, <3>9 DEF Continue
    <3>11. q = p
      BY <3>1, <3>10 DEF Replace
    <3> QED
      BY <3>10, <3>11
  <2>2. view' = newView[p] /\ PublishOf(p)
    BY <2>1 DEF Replace, PublishInv
  <2> QED
    BY <2>2 DEF PublishOf, StateSync
<1> QED
  BY <1>1, PublishInvariant, PTL DEF Spec, PublishedViewIsCurrent

-----------------------------------------------------------------------------
\* No view is put on a disk that may lose power but by the writers: a rebuild
\* and a restored copy may show records that no fsync has covered yet.
NoLossAfterRepair ==
  \/ MaxFaults["power"] = 0
  \/ Recoverers = {} /\ MaxFaults["edit"] = 0

Durable == SubSeq(journal, 1, durable)

\* Every view that is or may come back shows the journal, and the part of it
\* that survives a loss of power.
ViewInv ==
  /\ view \in diskViews
  /\ \A v \in diskViews :
       /\ Shows(v, journal)
       /\ MaxFaults["power"] # 0 => Shows(v, Durable)
  /\ \A k \in FaultKinds : faults[k] <= MaxFaults[k]

LEMMA DurablePrefix ==
  ASSUME Shape
  PROVE  /\ journal \in Seq(Event) /\ durable \in 0..Len(journal)
         /\ Durable \in Seq(Event) /\ Len(Durable) = durable
         /\ \A i \in 1..durable : Durable[i] = journal[i]
  BY PrefixOfJournal DEF Shape, FilesInv, FilesType, Durable

LEMMA FaultsCounted ==
  ASSUME Shape, ViewInv, [Next]_vars
  PROVE  \A k \in FaultKinds : faults'[k] <= MaxFaults[k]
<1>1. faults' = faults \/ \E k \in FaultKinds : Fault(k)
  <2>1. CASE UNCHANGED vars
    BY <2>1 DEF vars
  <2>2. CASE \E p \in Procs : SubmitAny(p) \/ ReviewJournal(p) \/ Continue(p)
    BY <2>2 DEF SubmitAny, Submit, ReviewJournal, Continue, Acquire,
                LockTimeout, PrepareR2, PrepareR1, Refuse, AppendPart,
                AppendRest, Fsync, Replace, DirectorySync, ReviewView, Rebuild,
                RebuildRefused
  <2>3. CASE Environment
    BY <2>3 DEF Environment, AppendFails, ReplaceFails, Crash, PowerLoss,
                EditView, FaultKinds
  <2> QED
    BY <2>1, <2>2, <2>3 DEF Next
<1>2. faults \in [FaultKinds -> Nat] /\ MaxFaults \in [FaultKinds -> Nat]
  BY AuditStateIOAssumption DEF Shape, RestType
<1> QED
  BY <1>1, <1>2 DEF ViewInv, Fault

\* A step that publishes nothing: the journal, and what is durable of it, at
\* most grow.
LEMMA GrowingStep ==
  ASSUME Shape, Shape', ViewInv, [Next]_vars, UNCHANGED view,
         diskViews' \in {diskViews, {view}},
         Len(journal) <= Len(journal'), durable <= durable',
         \A i \in 1..Len(journal) : journal'[i] = journal[i]
  PROVE  ViewInv'
<1>1. journal \in Seq(Event) /\ journal' \in Seq(Event)
  BY DurablePrefix DEF Shape, FilesInv, FilesType
<1>2. /\ Durable \in Seq(Event) /\ Durable' \in Seq(Event)
      /\ Len(Durable) <= Len(Durable')
      /\ \A i \in 1..Len(Durable) : Durable'[i] = Durable[i]
  <2>1. /\ Durable \in Seq(Event) /\ Len(Durable) = durable
        /\ durable \in 0..Len(journal)
        /\ \A i \in 1..durable : Durable[i] = journal[i]
    BY DurablePrefix
  <2>2. /\ Durable' \in Seq(Event) /\ Len(Durable') = durable'
        /\ durable' \in 0..Len(journal')
        /\ \A i \in 1..durable' : Durable'[i] = journal'[i]
    <3>1. journal' \in Seq(Event) /\ durable' \in 0..Len(journal')
      BY DEF Shape, FilesInv, FilesType
    <3> QED
      BY <3>1, PrefixOfJournal DEF Durable
  <2>3. \A i \in 1..durable : i \in 1..durable' /\ i \in 1..Len(journal)
    BY <1>1, <2>1, <2>2, LenProperties
  <2> QED
    BY <2>1, <2>2, <2>3
<1>3. ASSUME NEW v \in diskViews
      PROVE  Shows(v, journal') /\ (MaxFaults["power"] # 0 => Shows(v, Durable'))
  <2>1. Shows(v, journal) /\ (MaxFaults["power"] # 0 => Shows(v, Durable))
    BY DEF ViewInv
  <2>2. Shows(v, journal')
    BY <1>1, <2>1, ShowsLonger
  <2>3. ASSUME Shows(v, Durable) PROVE Shows(v, Durable')
    BY <1>2, <2>3, ShowsLonger
  <2> QED
    BY <2>1, <2>2, <2>3
<1>4. view' \in diskViews' /\ diskViews' \subseteq diskViews
  BY DEF ViewInv
<1>5. Shows(view, journal)
  BY DEF ViewInv
<1> QED
  BY <1>3, <1>4, FaultsCounted DEF ViewInv, Shows

LEMMA ReplaceViews ==
  ASSUME NoLossAfterRepair, Shape, PublishInv, ViewInv, [Next]_vars,
         NEW p \in Procs, Replace(p)
  PROVE  ViewInv'
<1>1. /\ view' = newView[p] /\ diskViews' = diskViews \union {newView[p]}
      /\ UNCHANGED <<journal, durable>> /\ pc[p] = "replace"
  BY DEF Replace, Goto
<1>2. journal \in Seq(Event)
  BY DurablePrefix
<1>3. Shows(newView[p], journal)
  <2>1. CASE newView[p].mode = "r2"
    BY <1>1, <1>2, <2>1, SyncedShows DEF PublishInv, PublishOf
  <2>2. CASE newView[p].mode # "r2"
    BY <2>2 DEF Shows
  <2> QED
    BY <2>1, <2>2
<1>4. ASSUME MaxFaults["power"] # 0 PROVE Shows(newView[p], Durable)
  <2>1. p \in Writers
    BY <1>4 DEF NoLossAfterRepair, Procs
  <2>2. durable = Len(journal)
    BY <1>1, <2>1 DEF PublishInv, PublishOf
  <2>3. Durable = journal
    BY <1>2, <2>2, SubSeqFull DEF Durable
  <2> QED
    BY <1>3, <2>3
<1>5. UNCHANGED Durable
  BY <1>1 DEF Durable
<1> QED
  BY <1>1, <1>3, <1>4, <1>5, FaultsCounted DEF ViewInv, Shows

LEMMA PowerLossViews ==
  ASSUME NoLossAfterRepair, Shape, ViewInv, [Next]_vars, PowerLoss
  PROVE  ViewInv'
<1>1. PICK n \in durable..Len(journal) :
        journal' = SubSeq(journal, 1, n) /\ durable' = n
  BY DEF PowerLoss
<1>2. /\ journal \in Seq(Event) /\ durable \in 0..n /\ n \in 0..Len(journal)
  BY DurablePrefix, LenProperties
<1>3. /\ journal' \in Seq(Event) /\ Len(journal') = n
      /\ \A i \in 1..n : journal'[i] = journal[i]
  BY <1>1, <1>2, PrefixOfJournal
<1>4. Durable' = journal'
  BY <1>1, <1>3, SubSeqFull DEF Durable
<1>5. MaxFaults["power"] # 0
  <2>1. faults["power"] > 0 /\ faults["power"] <= MaxFaults["power"]
    BY DEF PowerLoss, Fault, ViewInv, FaultKinds
  <2>2. faults["power"] \in Nat /\ MaxFaults["power"] \in Nat
    BY AuditStateIOAssumption DEF Shape, RestType, FaultKinds
  <2> QED
    BY <2>1, <2>2
<1>6. ASSUME NEW v \in diskViews PROVE Shows(v, journal')
  <2>1. Shows(v, Durable)
    BY <1>5 DEF ViewInv
  <2>2. /\ Durable \in Seq(Event) /\ Len(Durable) <= Len(journal')
        /\ \A i \in 1..Len(Durable) : journal'[i] = Durable[i]
    BY <1>2, <1>3, DurablePrefix
  <2> QED
    BY <1>3, <2>1, <2>2, ShowsLonger
<1>7. view' \in diskViews /\ diskViews' = {view'}
  BY DEF PowerLoss
<1> QED
  BY <1>4, <1>6, <1>7, FaultsCounted DEF ViewInv

LEMMA EditViewViews ==
  ASSUME NoLossAfterRepair, Shape, JournalInv, ViewInv, [Next]_vars, EditView
  PROVE  ViewInv'
<1>1. /\ UNCHANGED <<journal, durable>>
      /\ diskViews' = diskViews \union {view'}
  BY DEF EditView
<1>2. MaxFaults["power"] = 0
  <2>1. faults["edit"] > 0 /\ faults["edit"] <= MaxFaults["edit"]
    BY DEF EditView, Fault, ViewInv, FaultKinds
  <2>2. faults["edit"] \in Nat /\ MaxFaults["edit"] \in Nat
    BY AuditStateIOAssumption DEF Shape, RestType, FaultKinds
  <2> QED
    BY <2>1, <2>2 DEF NoLossAfterRepair
<1>3. Shows(view', journal)
  <2>1. CASE view' \in {NoView, Garbage}
    BY <2>1 DEF Shows, Missing
  <2>2. ASSUME NEW n \in 1..Len(journal), journal[n].mode = "r2",
               view' = StateAfterEvent(journal[n], SubSeq(journal, 1, n))
        PROVE  Shows(view', journal)
    <3> DEFINE k == SubSeq(journal, 1, n)
    <3>1. journal \in Seq(Event) /\ n \in 0..Len(journal) /\ n \in 1..n
          /\ n <= Len(journal)
      BY DurablePrefix, LenProperties
    <3>2. /\ k \in Seq(Event) /\ Len(k) = n /\ \A i \in 1..n : k[i] = journal[i]
      BY <3>1, PrefixOfJournal
    <3>3. JournalValid(k)
      BY <3>1, PrefixIsValid DEF JournalInv
    <3> HIDE DEF k
    <3>4. k # <<>> /\ Last(k) = journal[n]
      BY <3>1, <3>2, EmptySeq DEF Last
    <3>5. view' = StateAfterEvent(Last(k), k)
      BY <2>2, <3>4 DEF k
    <3>6. view'.seq = Len(k) /\ StateSync(k, view')
      BY <2>2, <3>2, <3>3, <3>4, <3>5, EventSynced
    <3>7. Shows(view', k)
      BY <3>2, <3>4, <3>6, SyncedShows
    <3>8. \A i \in 1..Len(k) : journal[i] = k[i]
      BY <3>2
    <3> QED
      BY <3>1, <3>2, <3>7, <3>8, ShowsLonger
  <2> QED
    BY <2>1, <2>2 DEF EditView
<1>4. Shows(view', journal')
  BY <1>1, <1>3
<1>5. ASSUME NEW v \in diskViews PROVE Shows(v, journal')
  BY <1>1 DEF ViewInv
<1>6. \A v \in diskViews' : Shows(v, journal')
  BY <1>1, <1>4, <1>5
<1> QED
  BY <1>1, <1>2, <1>6, FaultsCounted DEF ViewInv

LEMMA NextKeepsViews ==
  ASSUME NoLossAfterRepair, Shape, Shape', JournalInv, PublishInv, ViewInv,
         [Next]_vars
  PROVE  ViewInv'
<1>1. durable \in Nat /\ Len(journal) \in Nat
  BY DurablePrefix, LenProperties
<1>2. ASSUME UNCHANGED <<journal, view, durable>>,
             diskViews' \in {diskViews, {view}}
      PROVE  ViewInv'
  BY <1>1, <1>2, GrowingStep
<1>3. CASE UNCHANGED vars
  BY <1>2, <1>3 DEF vars, files
<1>4. CASE \E p \in Procs : SubmitAny(p) \/ ReviewJournal(p) \/ Continue(p)
  <2>1. PICK p \in Procs : SubmitAny(p) \/ ReviewJournal(p) \/ Continue(p)
    BY <1>4
  <2>2. CASE AppendRest(p)
    <3>1. /\ UNCHANGED <<view, durable, diskViews>>
          /\ journal' = Append(journal, event[p]) /\ pc[p] = "appending"
      BY <2>2 DEF AppendRest, Goto
    <3>2. journal \in Seq(Event) /\ event[p] \in Event
      BY <3>1 DEF Shape, FilesInv, FilesType, ProcsInv, ProcsType, WorkInv,
                  WorkOf, Writing
    <3>3. /\ Len(journal') = Len(journal) + 1
          /\ \A i \in 1..Len(journal) : journal'[i] = journal[i]
      BY <3>1, <3>2, AppendProperties
    <3> QED
      BY <1>1, <3>1, <3>3, GrowingStep
  <2>3. CASE Fsync(p)
    <3>1. UNCHANGED <<journal, view, diskViews>> /\ durable' = Len(journal)
      BY <2>3 DEF Fsync
    <3>2. durable <= Len(journal)
      BY DurablePrefix
    <3> QED
      BY <1>1, <3>1, <3>2, GrowingStep
  <2>4. CASE Replace(p)
    BY <2>4, ReplaceViews
  <2>5. CASE DirectorySync(p)
    BY <1>2, <2>5 DEF DirectorySync
  <2>6. CASE SubmitAny(p) \/ ReviewJournal(p) \/ Acquire(p) \/ LockTimeout(p)
    BY <1>2, <2>6 DEF SubmitAny, Submit, ReviewJournal, Acquire, LockTimeout,
                      files
  <2>7. CASE PrepareR2(p) \/ PrepareR1(p) \/ Refuse(p) \/ AppendPart(p)
    BY <1>2, <2>7 DEF PrepareR2, PrepareR1, Refuse, AppendPart, files
  <2>8. CASE ReviewView(p) \/ Rebuild(p) \/ RebuildRefused(p)
    BY <1>2, <2>8 DEF ReviewView, Rebuild, RebuildRefused, files
  <2> QED
    BY <2>1, <2>2, <2>3, <2>4, <2>5, <2>6, <2>7, <2>8 DEF Continue
<1>5. CASE Environment
  <2>1. CASE PowerLoss
    BY <2>1, PowerLossViews
  <2>2. CASE EditView
    BY <2>2, EditViewViews
  <2>3. ASSUME NEW p \in Procs, AppendFails(p) \/ ReplaceFails(p) \/ Crash(p)
        PROVE  ViewInv'
    BY <1>2, <2>3 DEF AppendFails, ReplaceFails, Crash, files
  <2> QED
    BY <1>5, <2>1, <2>2, <2>3 DEF Environment
<1> QED
  BY <1>3, <1>4, <1>5 DEF Next

LEMMA InitViews == Init => ViewInv
<1> SUFFICES ASSUME Init PROVE ViewInv
  OBVIOUS
<1>1. PICK f \in InitialFiles :
        /\ journal = f.journal /\ view = f.view
        /\ durable = Len(f.journal) /\ diskViews = {f.view}
  BY DEF Init
<1>2. /\ journal \in Seq(Event) /\ view \in View \union {NoView}
      /\ SnapshotMode(journal, view, "auto") # None
  BY <1>1, AuditStateIOAssumption
<1>3. Shows(view, journal)
  <2> SUFFICES ASSUME ~Missing(view), view.mode = "r2" PROVE Shows(view, journal)
    BY DEF Shows
  <2>1. DetectedMode(journal, view, "auto") # None /\ JournalValid(journal)
    BY <1>2 DEF SnapshotMode
  <2>2. /\ journal # <<>> /\ JournalMode(journal) = "r2"
        /\ StateSync(journal, view)
    BY <2>1 DEF DetectedMode, Missing
  <2>3. RevisionChain(journal)
    BY <2>1, <2>2 DEF JournalValid, JournalMode
  <2>4. Len(journal) \in 1..Len(journal)
    BY <1>2, <2>2, EmptySeq, LenProperties
  <2>5. view.seq = Len(journal)
    BY <2>2, <2>3, <2>4 DEF StateSync, Last, RevisionChain
  <2> QED
    BY <1>2, <2>2, <2>5, SyncedShows
<1>4. Durable = journal
  BY <1>1, <1>2, SubSeqFull DEF Durable
<1>5. \A k \in FaultKinds : faults[k] <= MaxFaults[k]
  BY AuditStateIOAssumption DEF Init
<1> QED
  BY <1>1, <1>3, <1>4, <1>5 DEF ViewInv

LEMMA ViewInvariant ==
  ASSUME NoLossAfterRepair
  PROVE  Spec => [](Shape /\ JournalInv /\ PublishInv /\ ViewInv)
<1>1. Init => Shape /\ JournalInv /\ PublishInv /\ ViewInv
  <2>1. Init => PublishInv
    BY DEF Init, PublishInv, PublishOf, Writing
  <2> QED
    BY <2>1, InitShape, InitJournal, InitViews
<1>2. (Shape /\ JournalInv /\ PublishInv /\ ViewInv) /\ [Next]_vars
        => (Shape /\ JournalInv /\ PublishInv /\ ViewInv)'
  <2> SUFFICES ASSUME Shape, JournalInv, PublishInv, ViewInv, [Next]_vars
               PROVE  (Shape /\ JournalInv /\ PublishInv /\ ViewInv)'
    OBVIOUS
  <2>1. Shape'
    BY NextKeepsShape
  <2> QED
    BY <2>1, NextKeepsJournal, NextKeepsPublish, NextKeepsViews
<1> QED
  BY <1>1, <1>2, PTL DEF Spec

\* stage-status.json shows the state that some prefix of the journal leads to,
\* through races of any number of writers, kills, failed calls and losses of
\* power; and, where the power stays, through rebuilds and edits of the view.
\* (With both it need not: recover_audit_state.py publishes the view of a
\* record no fsync has covered.)
THEOREM ViewNeverLeadsJournal ==
  ASSUME NoLossAfterRepair
  PROVE  Spec => []ViewFollowsJournal
<1>1. ViewInv => ViewFollowsJournal
  BY DEF ViewInv, ViewFollowsJournal, Shows
<1> QED
  BY <1>1, ViewInvariant, PTL
-----------------------------------------------------------------------------
(* The policy the commits are held to: TransitionPolicyFSM, for any set of *)
(* contexts.                                                               *)

LEMMA NoneIsNoStage ==
  None \notin Contexts \union STAGES \union STATUSES \union TRANSITION_KINDS
BY NoneIsNoValue
DEF STAGES, STATUSES, TRANSITION_KINDS

\* The invariant behind NoStageBypassed: the current stage is itself visited.
Visited == cur.stage # None => cur.stage \in visited

StageInv == WorkflowTypeOK /\ NoStageBypassed /\ Visited

-----------------------------------------------------------------------------
\* Which stage an accepted event may enter: intake at the start, the same
\* stage, the target of a forward edge, or that of a return edge.
LEMMA EntersAllowedStage ==
  ASSUME NEW s, NEW e, Allowed(s, e)
  PROVE  \/ s.stage = None /\ e.stage = "intake"
         \/ s.stage # None /\ e.stage = s.stage
         \/ s.stage # None /\ e.stage \in FORWARD_STAGE_EDGES[s.stage]
         \/ s.stage # None /\ e.stage \in RETURN_STAGE_EDGES[s.stage]
  BY DEF Allowed, StartAllowed, ObserveAllowed, StatusChangeAllowed, StaysIn,
         AdvanceAllowed, SkipAllowed, ReturnAllowed

\* What must have been visited before a stage that a forward edge enters is
\* what must have been before its source, and at most the source itself.
LEMMA ForwardKeepsMandatory ==
  ASSUME NEW s \in STAGES, NEW t \in FORWARD_STAGE_EDGES[s]
  PROVE  MandatoryBefore(t) \subseteq MandatoryBefore(s) \union {s}
  BY NoneIsNoStage DEF STAGES, FORWARD_STAGE_EDGES, MandatoryBefore

\* A return edge leads to a stage that needs no more than its source did.
LEMMA ReturnKeepsMandatory ==
  ASSUME NEW s \in STAGES, NEW t \in RETURN_STAGE_EDGES[s]
  PROVE  MandatoryBefore(t) \subseteq MandatoryBefore(s)
  BY NoneIsNoStage DEF STAGES, RETURN_STAGE_EDGES, MandatoryBefore

-----------------------------------------------------------------------------
\* The state of the workflow always has the shape TransitionState declares, and it has a context
\* exactly while the stage is paused or blocked.
THEOREM WorkflowTypeCorrect == WorkflowSpec => []WorkflowTypeOK
<1>1. WorkflowInit => WorkflowTypeOK
  <2> SUFFICES ASSUME WorkflowInit PROVE WorkflowTypeOK
    OBVIOUS
  <2>1. NoState \in TransitionState /\ (NoState.status \in Halted <=> NoState.ctx # None)
    <3>1. None \notin Halted
      BY NoneIsNoValue DEF Halted, STATUSES
    <3> QED
      BY <3>1 DEF NoState, TransitionState
  <2>2. finalized \in BOOLEAN
    BY DEF WorkflowInit
  <2> QED
    BY <2>1, <2>2 DEF WorkflowInit, WorkflowTypeOK
<1>2. WorkflowTypeOK /\ [WorkflowNext]_workflowVars => WorkflowTypeOK'
  <2> SUFFICES ASSUME WorkflowTypeOK, [WorkflowNext]_workflowVars PROVE WorkflowTypeOK'
    OBVIOUS
  <2>1. CASE UNCHANGED workflowVars
    BY <2>1 DEF WorkflowTypeOK, workflowVars
  <2>2. CASE WorkflowNext
    <3>1. PICK e \in EventsFrom(cur) : Record(e)
      BY <2>2 DEF WorkflowNext
    <3>2. /\ e.stage \in STAGES
          /\ e.status \in STATUSES
          /\ e.ctx \in Contexts \union {None}
      BY <3>1 DEF EventsFrom
    <3>3. Target(e) \in TransitionState
      BY <3>2 DEF Target, TransitionState
    <3>4. Target(e).status \in Halted <=> Target(e).ctx # None
      <4>1. ContextFits(e)
        BY <3>1 DEF EventsFrom, Allowed
      <4> QED
        BY <4>1 DEF ContextFits, Target
    <3> QED
      BY <3>1, <3>2, <3>3, <3>4 DEF Record, WorkflowTypeOK
  <2> QED
    BY <2>1, <2>2
<1> QED
  BY <1>1, <1>2, PTL DEF WorkflowSpec

\* One event keeps StageInv.
LEMMA StageInvStep == StageInv /\ WorkflowTypeOK' /\ [WorkflowNext]_workflowVars => StageInv'
<1> SUFFICES ASSUME StageInv, WorkflowTypeOK', [WorkflowNext]_workflowVars PROVE StageInv'
  OBVIOUS
<1>1. CASE UNCHANGED workflowVars
  BY <1>1 DEF StageInv, WorkflowTypeOK, NoStageBypassed, Visited, workflowVars
<1>2. CASE WorkflowNext
  <2>1. PICK e \in EventsFrom(cur) : Record(e)
    BY <1>2 DEF WorkflowNext
  <2>2. /\ Allowed(cur, e)
        /\ cur'.stage = e.stage
        /\ visited' = visited \union {e.stage}
    BY <2>1 DEF Record, Target
  <2>3. cur.stage \in STAGES \union {None}
    BY DEF StageInv, WorkflowTypeOK, TransitionState
  <2>4. Visited'
    BY <2>2 DEF Visited
  <2>5. NoStageBypassed'
    <3>1. CASE cur.stage = None /\ e.stage = "intake"
      BY <2>2, <3>1 DEF NoStageBypassed, MandatoryBefore
    <3>2. CASE cur.stage # None /\ e.stage = cur.stage
      BY <2>2, <3>2 DEF NoStageBypassed, StageInv
    <3>3. CASE cur.stage # None /\ e.stage \in FORWARD_STAGE_EDGES[cur.stage]
      <4>1. MandatoryBefore(e.stage)
              \subseteq MandatoryBefore(cur.stage) \union {cur.stage}
        BY <2>3, <3>3, ForwardKeepsMandatory
      <4> QED
        BY <2>2, <3>3, <4>1 DEF NoStageBypassed, StageInv, Visited
    <3>4. CASE cur.stage # None /\ e.stage \in RETURN_STAGE_EDGES[cur.stage]
      <4>1. MandatoryBefore(e.stage) \subseteq MandatoryBefore(cur.stage)
        BY <2>3, <3>4, ReturnKeepsMandatory
      <4> QED
        BY <2>2, <4>1 DEF NoStageBypassed, StageInv
    <3> QED
      BY <2>2, <3>1, <3>2, <3>3, <3>4, EntersAllowedStage
  <2> QED
    BY <2>4, <2>5 DEF StageInv
<1> QED
  BY <1>1, <1>2

\* No sequence of accepted events, however long, enters a stage without
\* having entered every mandatory stage before it.
THEOREM NoStageIsBypassed == WorkflowSpec => []NoStageBypassed
<1>1. WorkflowInit /\ WorkflowTypeOK => StageInv
  <2> SUFFICES ASSUME WorkflowInit, WorkflowTypeOK PROVE StageInv
    OBVIOUS
  <2>1. cur.stage = None
    BY DEF WorkflowInit, NoState
  <2>2. MandatoryBefore(None) = {}
    BY NoneIsNoStage DEF MandatoryBefore, STAGES
  <2> QED
    BY <2>1, <2>2 DEF StageInv, NoStageBypassed, Visited
<1>2. StageInv => NoStageBypassed
  BY DEF StageInv
<1> QED
  BY <1>1, <1>2, StageInvStep, WorkflowTypeCorrect, PTL DEF WorkflowSpec

-----------------------------------------------------------------------------
\* The invariant behind RecordingOnlyAfterFinalization: finalized mirrors a
\* completed finalization for as long as the workflow is in that stage.
FinalInv ==
  /\ WorkflowTypeOK
  /\ RecordingOnlyAfterFinalization
  /\ cur.stage = "finalization" => finalized = (cur.status = "completed")

\* Only completed finalization, or recording itself, leads to recording.
LEMMA RecordingEnteredFrom ==
  ASSUME NEW s \in TransitionState, NEW e, Allowed(s, e), e.stage = "recording"
  PROVE  \/ s.stage = "recording"
         \/ s.stage = "finalization" /\ s.status = "completed"
<1>1. CASE s.stage = None
  BY <1>1 DEF Allowed, StartAllowed
<1>2. CASE s.stage \in STAGES
  <2>1. "recording" \notin RETURN_STAGE_EDGES[s.stage]
    BY <1>2 DEF STAGES, RETURN_STAGE_EDGES
  <2>2. "recording" \in FORWARD_STAGE_EDGES[s.stage] => s.stage = "finalization"
    BY <1>2 DEF STAGES, FORWARD_STAGE_EDGES
  <2> QED
    BY <1>2, <2>1, <2>2, NoneIsNoStage
    DEF Allowed, ObserveAllowed, StatusChangeAllowed, StaysIn, AdvanceAllowed,
        SkipAllowed, ReturnAllowed, FinalizationDoneFirst
<1> QED
  BY <1>1, <1>2 DEF TransitionState

\* Recording is never reached while finalization stands incomplete.
THEOREM RecordingFollowsFinalization == WorkflowSpec => []RecordingOnlyAfterFinalization
<1>1. WorkflowInit /\ WorkflowTypeOK => FinalInv
  BY NoneIsNoStage
  DEF WorkflowInit, FinalInv, NoState, RecordingOnlyAfterFinalization, STAGES
<1>2. FinalInv /\ WorkflowTypeOK' /\ [WorkflowNext]_workflowVars => FinalInv'
  <2> SUFFICES ASSUME FinalInv, WorkflowTypeOK', [WorkflowNext]_workflowVars PROVE FinalInv'
    OBVIOUS
  <2>1. CASE UNCHANGED workflowVars
    BY <2>1 DEF FinalInv, RecordingOnlyAfterFinalization, workflowVars
  <2>2. CASE WorkflowNext
    <3>1. PICK e \in EventsFrom(cur) : Record(e)
      BY <2>2 DEF WorkflowNext
    <3>2. /\ Allowed(cur, e)
          /\ cur'.stage = e.stage
          /\ cur'.status = e.status
      BY <3>1 DEF Record, Target
    <3>3. CASE e.stage = "recording"
      <4>1. finalized' = finalized
        BY <3>1, <3>3 DEF Record
      <4> QED
        BY <3>2, <3>3, <4>1, RecordingEnteredFrom
        DEF FinalInv, WorkflowTypeOK, RecordingOnlyAfterFinalization
    <3>4. CASE e.stage # "recording"
      <4>1. e.stage = "finalization" => finalized' = (e.status = "completed")
        BY <3>1 DEF Record
      <4> QED
        BY <3>2, <3>4, <4>1 DEF FinalInv, RecordingOnlyAfterFinalization
    <3> QED
      BY <3>3, <3>4
  <2> QED
    BY <2>1, <2>2
<1>3. FinalInv => RecordingOnlyAfterFinalization
  BY DEF FinalInv
<1> QED
  BY <1>1, <1>2, <1>3, WorkflowTypeCorrect, PTL DEF WorkflowSpec

-----------------------------------------------------------------------------
\* A workflow that is in a stage has a status there.
StartedIsAtWork ==
  cur.stage # None
    => cur.stage \in STAGES /\ cur.status \in STATUSES

LEMMA StartedHasStatus == WorkflowSpec => []StartedIsAtWork
<1>1. WorkflowInit => StartedIsAtWork
  BY DEF WorkflowInit, NoState, StartedIsAtWork
<1>2. ASSUME StartedIsAtWork, [WorkflowNext]_workflowVars PROVE StartedIsAtWork'
  <2>1. CASE UNCHANGED workflowVars
    BY <1>2, <2>1 DEF StartedIsAtWork, workflowVars
  <2>2. CASE WorkflowNext
    <3>1. PICK e \in EventsFrom(cur) : Record(e)
      BY <2>2 DEF WorkflowNext
    <3>2. e.stage \in STAGES /\ e.status \in STATUSES
      BY <3>1 DEF EventsFrom
    <3> QED
      BY <3>1, <3>2 DEF Record, Target, StartedIsAtWork
  <2> QED
    BY <1>2, <2>1, <2>2
<1> QED
  BY <1>1, <1>2, PTL DEF WorkflowSpec

\* From a halted or completed stage the work on it is taken up again, and from a stage at work the
\* next one is entered, or finalization completed: each brings the workflow nearer.
LEMMA NearerByRestart ==
  ASSUME NEW s \in TransitionState, s.stage \in STAGES,
      s.status \in STATUSES \ {"running"},
         Distance(s) > 0
  PROVE  \E e \in EventsFrom(s) : Distance(Target(e)) < Distance(s)
<1> DEFINE kind == IF s.status = "completed" THEN "reopen" ELSE "resume"
           e == [kind |-> kind, fromStage |-> s.stage, fromStatus |-> s.status,
                 stage |-> s.stage, status |-> "running", ctx |-> None, material |-> TRUE]
<1>1. s.status \in {"paused", "blocked", "completed"}
  BY DEF STATUSES
<1>2. Allowed(s, e)
  BY <1>1, NoneIsNoStage
  DEF Allowed, SourceMatches, ContextFits, MaterialSuffices,
      StatusChangeAllowed, StatusChanges,
      StaysIn, Halted
<1>3. e \in EventsFrom(s)
  BY <1>2 DEF EventsFrom, TRANSITION_KINDS, STATUSES
<1>4. Distance(Target(e)) < Distance(s)
  BY <1>1 DEF Distance, Target, STAGES
<1> QED
  BY <1>3, <1>4

LEMMA NearerByAdvance ==
  ASSUME NEW s \in TransitionState, s.stage \in STAGES, s.status = "running"
  PROVE  \E e \in EventsFrom(s) : Distance(Target(e)) < Distance(s)
<1> DEFINE next == CASE s.stage = "intake" -> "recon"
                     [] s.stage = "recon" -> "candidate_generation"
                     [] s.stage = "candidate_generation" -> "triage"
                     [] s.stage = "triage" -> "verification"
                     [] OTHER -> "finalization"
           change(kind, stage, status) ==
             [kind |-> kind, fromStage |-> s.stage, fromStatus |-> s.status,
              stage |-> stage, status |-> status, ctx |-> None, material |-> TRUE]
<1>1. CASE s.stage = "finalization"
  <2>1. Allowed(s, change("complete", "finalization", "completed"))
    BY <1>1, NoneIsNoStage
    DEF Allowed, SourceMatches, ContextFits, MaterialSuffices,
        StatusChangeAllowed, StatusChanges,
        StaysIn, Halted, EnhancedKinds
  <2>2. change("complete", "finalization", "completed") \in EventsFrom(s)
    BY <2>1 DEF EventsFrom, TRANSITION_KINDS, STATUSES, STAGES
  <2>3. Distance(Target(change("complete", "finalization", "completed"))) < Distance(s)
    BY <1>1 DEF Distance, Target
  <2> QED
    BY <2>2, <2>3
<1>2. CASE s.stage = "recording"
  <2>1. Allowed(s, change("return", "finalization", "running"))
    BY <1>2, NoneIsNoStage
    DEF Allowed, SourceMatches, ContextFits, MaterialSuffices,
        ReturnAllowed, RETURN_STAGE_EDGES,
        STAGES, Halted
  <2>2. change("return", "finalization", "running") \in EventsFrom(s)
    BY <2>1 DEF EventsFrom, TRANSITION_KINDS, STATUSES, STAGES
  <2>3. Distance(Target(change("return", "finalization", "running"))) < Distance(s)
    BY <1>2 DEF Distance, Target
  <2> QED
    BY <2>2, <2>3
<1>3. CASE s.stage \in STAGES \ {"finalization", "recording"}
  <2>1. next \in FORWARD_STAGE_EDGES[s.stage] \ {s.stage} /\ next \in STAGES
    BY <1>3 DEF STAGES, FORWARD_STAGE_EDGES
  <2>2. Distance(Target(change("advance", next, "running"))) < Distance(s)
    BY <1>3 DEF Distance, Target, STAGES
  <2> HIDE DEF next
  <2>3. Allowed(s, change("advance", next, "running"))
    BY <1>3, <2>1, NoneIsNoStage
    DEF Allowed, SourceMatches, ContextFits, MaterialSuffices,
        AdvanceAllowed, FinalizationDoneFirst,
        STAGES, Halted, EnhancedKinds
  <2>4. change("advance", next, "running") \in EventsFrom(s)
    BY <2>1, <2>3 DEF EventsFrom, TRANSITION_KINDS, STATUSES
  <2> QED
    BY <2>2, <2>4
<1> QED
  BY <1>1, <1>2, <1>3

\* No sequence of accepted events strands a workflow: from wherever it has come, an event is
\* accepted that brings it nearer to a completed finalization.
THEOREM NoWorkflowIsStranded == WorkflowSpec => []FinalizationStaysReachable
<1>1. WorkflowTypeOK /\ StartedIsAtWork => FinalizationStaysReachable
  BY NearerByRestart, NearerByAdvance DEF WorkflowTypeOK, TransitionState,
      FinalizationStaysReachable, StartedIsAtWork
<1> QED
  BY <1>1, WorkflowTypeCorrect, StartedHasStatus, PTL

-----------------------------------------------------------------------------
(* The journal as a run of the policy.  A journal is replayed from its     *)
(* first record on, so what holds of all its prefixes is shown for the     *)
(* least one that might not have it.                                       *)

Less == {pair \in Nat \X Nat : pair[1] < pair[2]}

LEMMA LeastOf ==
  ASSUME NEW T \in SUBSET Nat, T # {} PROVE \E n \in T : \A m \in T : n <= m
<1>1. IsWellFoundedOn(Less, Nat)
  BY NatLessThanWellFounded DEF OpToRel, Less
<1>2. PICK n \in T : \A m \in T : ~(<<m, n>> \in Less)
  <2> HIDE DEF Less
  <2> QED
    BY <1>1, WFMin
<1>3. \A m \in T : n <= m
  <2> TAKE m \in T
  <2>1. m \in Nat /\ n \in Nat
    OBVIOUS
  <2>2. ~(m < n)
    BY <1>2, <2>1 DEF Less
  <2> QED
    BY <2>1, <2>2
<1> QED
  BY <1>3

\* A journal written under the policy from its first record on.
UnderPolicy(j) == j # <<>> /\ j[1].mode = "r2" /\ j[1].policy

\* Each record of it is an event the policy accepts after the one before.
LEMMA EachAllowed ==
  ASSUME NEW j \in Seq(Event), JournalValid(j), UnderPolicy(j), NEW n \in 1..Len(j)
  PROVE  /\ Allowed(StateAfter(j, n - 1), j[n])
         /\ j[n] \in R2Event /\ j[n].policy
         /\ n # 1 => /\ StateAfter(j, n - 1).stage = j[n - 1].stage
                     /\ StateAfter(j, n - 1).status = j[n - 1].status
         /\ n = 1 => StateAfter(j, n - 1) = NoState
<1>1. SingleMode(j) /\ ValidSequence(j)
  BY DEF JournalValid, UnderPolicy
<1>2. j[n].mode = "r2" /\ j[n] \in Event
  BY <1>1 DEF SingleMode, UnderPolicy
<1>3. j[n] \in R2Event
  BY <1>2 DEF Event, R1Event, R2Event
<1>4. j[n].policy
  <2>1. 1 \in 1..Len(j) /\ (n = 1 \/ 1 < n)
    OBVIOUS
  <2> QED
    BY <1>1, <2>1 DEF ValidSequence, PrePolicyOnlyAsPrefix, UnderPolicy
<1>5. Allowed(StateAfter(j, n - 1), j[n])
  BY <1>1, <1>4 DEF ValidSequence
<1> QED
  BY <1>3, <1>4, <1>5 DEF StateAfter

Entered(j, n) == {j[i].stage : i \in 1..n}

\* Before each record of it every mandatory stage has been entered.
LEMMA MandatoryStagesEntered ==
  ASSUME NEW j \in Seq(Event), JournalValid(j), UnderPolicy(j), NEW n \in 1..Len(j)
  PROVE  MandatoryBefore(j[n].stage) \subseteq Entered(j, n)
<1> DEFINE Bad == {m \in 1..Len(j) : ~(MandatoryBefore(j[m].stage) \subseteq Entered(j, m))}
<1>1. SUFFICES ASSUME Bad # {} PROVE FALSE
  OBVIOUS
<1>2. Bad \in SUBSET Nat
  OBVIOUS
<1>3. PICK b \in Bad : \A m \in Bad : b <= m
  <2> HIDE DEF Bad
  <2> QED
    BY <1>1, <1>2, LeastOf
<1>4. b \in 1..Len(j) /\ ~(MandatoryBefore(j[b].stage) \subseteq Entered(j, b))
  OBVIOUS
<1>5. b # 1 => b - 1 \in 1..Len(j) /\ MandatoryBefore(j[b - 1].stage) \subseteq Entered(j, b - 1)
  BY <1>3, <1>4
<1> HIDE DEF Bad
<1>6. j[b].stage \in Entered(j, b)
  BY <1>4 DEF Entered
<1>7. b # 1 => Entered(j, b - 1) \union {j[b - 1].stage} \subseteq Entered(j, b)
  BY <1>4 DEF Entered
<1>8. CASE b = 1
  <2>1. Allowed(NoState, j[b])
    BY <1>4, <1>8, EachAllowed
  <2>2. j[b].stage = "intake"
    BY <2>1 DEF Allowed, StartAllowed, NoState
  <2> QED
    BY <1>4, <2>2 DEF MandatoryBefore
<1>9. CASE b # 1
  <2> DEFINE s == StateAfter(j, b - 1)
  <2>1. Allowed(s, j[b]) /\ s.stage = j[b - 1].stage
    BY <1>4, <1>9, EachAllowed
  <2>2. s.stage \in STAGES
    <3>1. j[b - 1] \in R2Event
      BY <1>5, <1>9, EachAllowed
    <3> QED
      BY <2>1, <3>1 DEF R2Event, STAGES
  <2>3. s.stage # None
    BY <2>2, NoneIsNoStage
  <2>4. \/ j[b].stage = s.stage
        \/ j[b].stage \in FORWARD_STAGE_EDGES[s.stage]
        \/ j[b].stage \in RETURN_STAGE_EDGES[s.stage]
    BY <2>1, <2>3, EntersAllowedStage
  <2>5. MandatoryBefore(j[b].stage) \subseteq MandatoryBefore(s.stage) \union {s.stage}
    BY <2>2, <2>4, ForwardKeepsMandatory, ReturnKeepsMandatory
  <2> QED
    BY <1>4, <1>5, <1>7, <1>9, <2>1, <2>5
<1> QED
  BY <1>8, <1>9

\* A record n of the recording stage, the completed finalization k it rests on, and nothing but
\* recording between.
RestsOn(j, n, k) ==
  /\ j[k].stage = "finalization" /\ j[k].status = "completed"
  /\ \A i \in k + 1..n : j[i].stage = "recording"

LEMMA RecordingRestsOnFinalization ==
  ASSUME NEW j \in Seq(Event), JournalValid(j), UnderPolicy(j),
         NEW n \in 1..Len(j), j[n].stage = "recording"
  PROVE  \E k \in 1..n - 1 : RestsOn(j, n, k)
<1> DEFINE Bad == {m \in 1..Len(j) : /\ j[m].stage = "recording"
                                     /\ ~\E k \in 1..m - 1 : RestsOn(j, m, k)}
<1>1. SUFFICES ASSUME Bad # {} PROVE FALSE
  OBVIOUS
<1>2. Bad \in SUBSET Nat
  OBVIOUS
<1>3. PICK b \in Bad : \A m \in Bad : b <= m
  <2> HIDE DEF Bad
  <2> QED
    BY <1>1, <1>2, LeastOf
<1>4. /\ b \in 1..Len(j) /\ j[b].stage = "recording"
      /\ ~\E k \in 1..b - 1 : RestsOn(j, b, k)
  OBVIOUS
<1>5. b # 1 /\ j[b - 1].stage = "recording" => \E k \in 1..b - 2 : RestsOn(j, b - 1, k)
  <2> SUFFICES ASSUME b # 1, j[b - 1].stage = "recording"
               PROVE  \E k \in 1..b - 2 : RestsOn(j, b - 1, k)
    OBVIOUS
  <2>1. b - 1 \in 1..Len(j) /\ ~(b <= b - 1) /\ (b - 1) - 1 = b - 2
    BY <1>4
  <2>2. b - 1 \notin Bad
    BY <1>3, <2>1
  <2> QED
    BY <2>1, <2>2
<1> HIDE DEF Bad
<1>6. CASE b = 1
  <2>1. Allowed(NoState, j[b])
    BY <1>4, <1>6, EachAllowed
  <2> QED
    BY <1>4, <2>1 DEF Allowed, StartAllowed, NoState
<1>7. CASE b # 1
  <2> DEFINE s == StateAfter(j, b - 1)
  <2>1. /\ Allowed(s, j[b])
        /\ s.stage = j[b - 1].stage /\ s.status = j[b - 1].status
    BY <1>4, <1>7, EachAllowed
  <2>2. s \in TransitionState
    <3>1. j[b - 1] \in R2Event
      BY <1>4, <1>7, EachAllowed
    <3> QED
      BY <3>1, <1>4, <1>7
      DEF StateAfter, R2Event, STAGES, STATUSES, TransitionState
  <2>3. CASE j[b - 1].stage = "recording"
    <3>1. PICK k \in 1..b - 2 : RestsOn(j, b - 1, k)
      BY <1>5, <1>7, <2>3
    <3>2. k \in 1..b - 1 /\ \A i \in k + 1..b : i = b \/ i \in k + 1..b - 1
      BY <1>4, <1>7, <3>1
    <3>3. RestsOn(j, b, k)
      BY <1>4, <3>1, <3>2 DEF RestsOn
    <3> QED
      BY <1>4, <3>2, <3>3
  <2>4. CASE j[b - 1].stage = "finalization" /\ j[b - 1].status = "completed"
    <3>1. RestsOn(j, b, b - 1) /\ b - 1 \in 1..b - 1
      BY <1>4, <1>7, <2>4 DEF RestsOn
    <3> QED
      BY <1>4, <3>1
  <2> QED
    BY <1>4, <2>1, <2>2, <2>3, <2>4, RecordingEnteredFrom
<1> QED
  BY <1>6, <1>7

\* What the policy promises of workflows holds of every journal the commit protocol writes.
JournalKeepsPolicy ==
  UnderPolicy(journal) =>
    \A n \in 1..Len(journal) :
      /\ MandatoryBefore(journal[n].stage) \subseteq Entered(journal, n)
      /\ journal[n].stage = "recording" => \E k \in 1..n - 1 : RestsOn(journal, n, k)

\* In a journal written under the policy no record is in a stage before every mandatory stage has
\* its own, and one in recording stands behind a completed finalization with nothing but recording
\* between: through races of writers, kills, failed calls, rebuilds and losses of power
\* (validate_transition judges an event by the view, not by the journal).
THEOREM EveryJournalKeepsPolicy == Spec => []JournalKeepsPolicy
<1>1. Shape /\ JournalInv => JournalKeepsPolicy
  BY MandatoryStagesEntered, RecordingRestsOnFinalization
  DEF Shape, FilesInv, FilesType, JournalInv, JournalKeepsPolicy
<1> QED
  BY <1>1, JournalInvariant, PTL
=============================================================================
