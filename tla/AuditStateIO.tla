----------------------------- MODULE AuditStateIO -----------------------------
(***************************************************************************)
(* Commits to an audit workspace, scripts/audit_state_io.py.  Writers      *)
(* (commit_event) append one record to audit-events.jsonl and replace the  *)
(* derived view stage-status.json, under an flock.  Recoverers             *)
(* (recover_audit_state.py) read both files without the lock, and later,   *)
(* under it, rebuild the view if neither file has changed since.  Between  *)
(* any two steps a process may be killed, an I/O call may fail, the        *)
(* machine may lose power, and a person may delete, damage or restore the  *)
(* view.                                                                   *)
(*                                                                         *)
(* The reads a lock holder makes one after the other are one step: no      *)
(* other process writes the journal then, and an edit of the view between  *)
(* them is an edit just before them.                                       *)
(***************************************************************************)
EXTENDS AuditRecords, FiniteSets

CONSTANTS Writers, Recoverers,
          Requests,       \* the commit requests callers make
          InitialFiles,   \* journal and view a run may begin with
          MaxRequests,    \* bound: commit requests in a behaviour
          MaxFaults,      \* bound: for each kind of fault, how many happen
          DirSync         \* the file system supports fsync of a directory

Procs == Writers \union Recoverers

FaultKinds == {"crash", "io", "power", "edit"}

\* A request of commit_event.  stage and status may be the shorthand
\* "current"; checked says that a check this model leaves open (the sensitive
\* text scan, a precommit hook) applies and may refuse the event.  The
\* command line refuses to pause or block without a context.
RequestType ==
  [modePolicy : {"auto", "r2", "legacy-r1"}, kind : TRANSITION_KINDS \union {None},
   fromStage : STAGES \union {None}, fromStatus : STATUSES \union {None},
   stage : STAGES \union {"current"}, status : STATUSES \union {"current"},
   run : Runs \union {None}, ctx : Contexts \union {None},
   material : BOOLEAN, checked : BOOLEAN]

\* The revision intent: an explicit compare-and-swap, accept-current-revision
\* or none.
Revisions == [intent : {"explicit", "accept", "none"}, rev : Nat]

\* A call of commit_event, and what a recoverer has reviewed.
Call == [body : Requests, cas : Revisions, id : Nat]

Review == [journal : Seq(Event), tail : {"clean", "torn", "corrupt"},
           view : View \union {NoView, Garbage}]

\* The policy came later than the recording of plugin_version.
VersionRecorded(e) == (e.mode = "r2" /\ e.policy) => e.pv # None

ASSUME AuditStateIOAssumption ==
  /\ None \notin Procs \union Call \union Review \union Event
  /\ Writers \intersect Recoverers = {}
  /\ Requests \subseteq RequestType
  /\ \A r \in Requests : r.status \in Halted => r.ctx # None
  /\ MaxRequests \in Nat
  /\ MaxFaults \in [FaultKinds -> Nat]
  /\ DirSync \in BOOLEAN
  /\ {NoView, Garbage} \intersect View = {}
  /\ \A f \in InitialFiles :
       /\ f.journal \in Seq(Event)
       /\ f.view \in View \union {NoView}
       /\ SnapshotMode(f.journal, f.view, "auto") # None
       /\ \A i \in 1..Len(f.journal) : f.journal[i].id = MaxRequests + i
       /\ \A i \in 1..Len(f.journal) : VersionRecorded(f.journal[i])

VARIABLES
  journal,    \* the complete records of audit-events.jsonl
  tail,       \* what follows them: nothing ("clean"), part of a record
              \* ("torn"), or a record written after a part ("corrupt")
  view,       \* stage-status.json
  durable,    \* how many records an fsync has covered
  diskViews,  \* the views a loss of power may leave
  lock,       \* the holder of .audit-state.lock
  pc,         \* where each process is
  req,        \* writer: the request it serves
  event,      \* writer: the event it commits
  newView,    \* the view it is about to publish
  reviewed,   \* recoverer: the files the check has read
  answers,    \* history: the results of the calls that went on to write
  submitted,  \* the number of requests made
  faults      \* how many faults of each kind may still happen

files == <<journal, tail, view, durable, diskViews>>
work  == <<req, event, newView, reviewed>>
vars  == <<files, lock, pc, work, answers, submitted, faults>>

Init ==
  /\ \E f \in InitialFiles :
       /\ journal = f.journal
       /\ view = f.view
       /\ durable = Len(f.journal)
       /\ diskViews = {f.view}
  /\ tail = "clean"
  /\ lock = None
  /\ pc = [p \in Procs |-> "idle"]
  /\ req = [p \in Procs |-> None]
  /\ event = [p \in Procs |-> None]
  /\ newView = [p \in Procs |-> NoView]
  /\ reviewed = [p \in Procs |-> None]
  /\ answers = {}
  /\ submitted = 0
  /\ faults = MaxFaults

-----------------------------------------------------------------------------
\* Moving, ending and failing.

Goto(p, from, to) == pc[p] = from /\ pc' = [pc EXCEPT ![p] = to]

\* The call of p is over: it keeps nothing, and leaving workspace_lock has
\* freed the lock.
End(p) ==
  /\ pc' = [pc EXCEPT ![p] = "idle"]
  /\ req' = [req EXCEPT ![p] = None]
  /\ event' = [event EXCEPT ![p] = None]
  /\ newView' = [newView EXCEPT ![p] = NoView]
  /\ reviewed' = [reviewed EXCEPT ![p] = None]
  /\ lock' = IF lock = p THEN None ELSE lock

\* The caller of p is told journal_committed and state_view_updated.  (A
\* call that is refused or times out reports both false and is not recorded.)
Answer(p, committed, updated) ==
  answers' = IF p \in Writers
             THEN answers \union {[id |-> req[p].id, cas |-> req[p].cas,
                                   committed |-> committed, updated |-> updated]}
             ELSE answers

Fault(kind) == faults[kind] > 0 /\ faults' = [faults EXCEPT ![kind] = @ - 1]

-----------------------------------------------------------------------------
\* workspace_lock.

\* Mutant of Acquire: the lock is shared.
AcquireShared(p) ==
  /\ Goto(p, "locking", "locked")
  /\ lock' = p
  /\ UNCHANGED <<files, work, answers, submitted, faults>>

Acquire(p) ==
  /\ Goto(p, "locking", "locked")
  /\ lock = None
  /\ lock' = p
  /\ UNCHANGED <<files, work, answers, submitted, faults>>

\* LOCK_TIMEOUT: somebody else held the lock at the deadline.
LockTimeout(p) ==
  /\ pc[p] = "locking"
  /\ lock # None
  /\ End(p)
  /\ UNCHANGED <<files, answers, submitted, faults>>

-----------------------------------------------------------------------------
\* Building the event of a request r from the locked view v.

Previous(v) == IF v = NoView THEN NoState
               ELSE [stage |-> v.stage, status |-> v.status, ctx |-> v.ctx]

TargetStage(v, r)  == IF r.stage = "current" THEN Previous(v).stage ELSE r.stage
TargetStatus(v, r) == IF r.status = "current" THEN Previous(v).status ELSE r.status

ObservesHalt(v, r) ==
  /\ r.kind = "observe"
  /\ TargetStage(v, r) = Previous(v).stage
  /\ TargetStatus(v, r) = Previous(v).status
  /\ TargetStatus(v, r) \in Halted

\* Mutant of R2EventOf: no run id is generated for the first event.
EventWithoutFreshRun(j, v, r, id) ==
  [mode |-> "r2", id |-> id, policy |-> TRUE, pv |-> Version,
   run |-> IF v # NoView THEN v.run ELSE r.run,
   seq |-> Len(j) + 1, rev |-> IF v = NoView THEN 0 ELSE v.rev, kind |-> r.kind,
   fromStage |-> Previous(v).stage, fromStatus |-> Previous(v).status,
   stage |-> TargetStage(v, r), status |-> TargetStatus(v, r),
   ctx |-> IF ObservesHalt(v, r) THEN Previous(v).ctx ELSE r.ctx,
   material |-> r.material]

\* The event of _commit_r2.
R2EventOf(j, v, r, id) ==
  LET rev == IF v = NoView THEN 0 ELSE v.rev
  IN  [mode |-> "r2", id |-> id, policy |-> TRUE, pv |-> Version,
       run |-> IF v # NoView THEN v.run
               ELSE IF r.run # None THEN r.run ELSE FreshRun,
       seq |-> Len(j) + 1, rev |-> rev, kind |-> r.kind,
       fromStage |-> Previous(v).stage, fromStatus |-> Previous(v).status,
       stage |-> TargetStage(v, r), status |-> TargetStatus(v, r),
       ctx |-> IF ObservesHalt(v, r) THEN Previous(v).ctx ELSE r.ctx,
       material |-> r.material]

\* The "current" shorthands need a current state and a same-state intent.
ShorthandFits(v, r) ==
  /\ r.stage = "current" =>
       v # NoView /\ r.kind \notin {"start", "advance", "return"}
  /\ r.status = "current" => v # NoView /\ r.kind = "observe"

\* Mutant of R2Accepted: the expected revision is not compared.
AcceptedAtAnyRevision(j, v, r, cas) ==
  /\ cas.intent # "none"
  /\ r.kind # None
  /\ ShorthandFits(v, r)
  /\ (v # NoView /\ r.run # None) => r.run = v.run
  /\ Allowed(Previous(v), R2EventOf(j, v, r, 0))

\* Everything _commit_r2 requires of a request before it appends.
R2Accepted(j, v, r, cas) ==
  /\ cas.intent # "none"
  /\ r.kind # None
  /\ cas.intent = "explicit" => cas.rev = (IF v = NoView THEN 0 ELSE v.rev)
  /\ r.fromStage # None => r.fromStage = Previous(v).stage
  /\ r.fromStatus # None => r.fromStatus = Previous(v).status
  /\ (v # NoView /\ r.run # None) => r.run = v.run
  /\ ShorthandFits(v, r)
  /\ TargetStatus(v, r) \notin Halted => r.ctx = None
  /\ (ObservesHalt(v, r) /\ r.ctx # None) => r.ctx = Previous(v).ctx
  /\ Allowed(Previous(v), R2EventOf(j, v, r, 0))

\* _r1_r2_intent_fields: R2-only intent that an R1 record cannot hold.
HasR2Intent(r) ==
  \/ r.kind # None
  \/ r.fromStage # None
  \/ r.fromStatus # None
  \/ r.run # None
  \/ r.material

\* What _commit_legacy_r1 requires.
R1Accepted(v, r, cas) ==
  /\ r.modePolicy = "auto" => ~HasR2Intent(r)
  /\ cas.intent # "explicit"
  /\ "current" \in {r.stage, r.status} => v # NoView

\* project_legacy_snapshot.
R1ViewOf(v, r, id) ==
  [mode |-> "r1", stage |-> TargetStage(v, r), status |-> TargetStatus(v, r),
   ctx |-> IF r.status = "current" THEN v.ctx
           ELSE IF r.status \in Halted THEN r.ctx ELSE None,
   id |-> id]

-----------------------------------------------------------------------------
\* commit_event.

Submit(p, r, cas) ==
  /\ p \in Writers
  /\ Goto(p, "idle", "locking")
  /\ submitted < MaxRequests
  /\ submitted' = submitted + 1
  /\ req' = [req EXCEPT ![p] = [body |-> r, cas |-> cas, id |-> submitted + 1]]
  /\ UNCHANGED <<files, lock, event, newView, reviewed, answers, faults>>

\* The mode the locked snapshot has for the request of p; None when
\* read_workspace_snapshot raises.
LockedMode(p) ==
  IF tail # "clean" \/ view = Garbage THEN None
  ELSE SnapshotMode(journal, view, req[p].body.modePolicy)

PrepareR2(p) ==
  /\ p \in Writers
  /\ Goto(p, "locked", "append")
  /\ LockedMode(p) = "r2"
  /\ R2Accepted(journal, view, req[p].body, req[p].cas)
  /\ LET e == R2EventOf(journal, view, req[p].body, req[p].id)
     IN  /\ event' = [event EXCEPT ![p] = e]
         /\ newView' = [newView EXCEPT ![p] =
                          StateAfterEvent(e, Append(journal, e))]
  /\ UNCHANGED <<files, lock, req, reviewed, answers, submitted, faults>>

PrepareR1(p) ==
  /\ p \in Writers
  /\ Goto(p, "locked", "append")
  /\ LockedMode(p) = "r1"
  /\ R1Accepted(view, req[p].body, req[p].cas)
  /\ event' = [event EXCEPT ![p] = [mode |-> "r1", id |-> req[p].id]]
  /\ newView' = [newView EXCEPT ![p] = R1ViewOf(view, req[p].body, req[p].id)]
  /\ UNCHANGED <<files, lock, req, reviewed, answers, submitted, faults>>

\* Mutant of Refuse: unreadable files are not answered.
RefuseOfReadable(p) ==
  /\ p \in Writers
  /\ pc[p] = "locked"
  /\ \/ LockedMode(p) = "r2"
          /\ ~R2Accepted(journal, view, req[p].body, req[p].cas)
     \/ LockedMode(p) = "r1" /\ ~R1Accepted(view, req[p].body, req[p].cas)
  /\ End(p)
  /\ UNCHANGED <<files, answers, submitted, faults>>

\* The request is refused before anything is written.
Refuse(p) ==
  /\ p \in Writers
  /\ pc[p] = "locked"
  /\ \/ LockedMode(p) = None
     \/ LockedMode(p) = "r2"
          /\ ~R2Accepted(journal, view, req[p].body, req[p].cas)
     \/ LockedMode(p) = "r1" /\ ~R1Accepted(view, req[p].body, req[p].cas)
     \/ req[p].body.checked
  /\ End(p)
  /\ UNCHANGED <<files, answers, submitted, faults>>

\* _safe_append_fsync: the write, of which a part may be visible first.
AppendPart(p) ==
  /\ Goto(p, "append", "appending")
  /\ tail' = IF tail = "clean" THEN "torn" ELSE "corrupt"
  /\ UNCHANGED <<journal, view, durable, diskViews, lock, work, answers,
                 submitted, faults>>

AppendRest(p) ==
  /\ Goto(p, "appending", "fsync")
  /\ journal' = Append(journal, event[p])
  /\ tail' = IF tail = "torn" THEN "clean" ELSE "corrupt"
  /\ UNCHANGED <<view, durable, diskViews, lock, work, answers, submitted,
                 faults>>

\* The open, a write or the fsync fails: JOURNAL_APPEND_FAILED.
AppendFails(p) ==
  /\ pc[p] \in {"append", "appending", "fsync"}
  /\ Fault("io")
  /\ Answer(p, FALSE, FALSE)
  /\ End(p)
  /\ UNCHANGED <<files, submitted>>

\* Mutant of Fsync: the data is left to the page cache.
FsyncForgotten(p) ==
  /\ Goto(p, "fsync", "replace")
  /\ UNCHANGED <<files, lock, work, answers, submitted, faults>>

\* Mutant of Fsync: the digest of the journal as it was before the append.
FsyncWithOldDigest(p) ==
  /\ Goto(p, "fsync", "replace")
  /\ durable' = Len(journal)
  /\ newView' = [newView EXCEPT ![p] =
                   StateAfterEvent(event[p], SubSeq(journal, 1, Len(journal) - 1))]
  /\ UNCHANGED <<journal, tail, view, diskViews, lock, req, event, reviewed,
                 answers, submitted, faults>>

\* The fsync succeeds; the digest of the new R2 view is taken from the
\* journal read again.
Fsync(p) ==
  /\ Goto(p, "fsync", "replace")
  /\ durable' = Len(journal)
  /\ newView' = [newView EXCEPT ![p] =
                   IF event[p].mode = "r2" THEN StateAfterEvent(event[p], journal)
                                           ELSE @]
  /\ UNCHANGED <<journal, tail, view, diskViews, lock, req, event, reviewed,
                 answers, submitted, faults>>

-----------------------------------------------------------------------------
\* _atomic_replace_state, of writers and recoverers.

Replace(p) ==
  /\ Goto(p, "replace", "dirsync")
  /\ view' = newView[p]
  /\ diskViews' = diskViews \union {newView[p]}
  /\ UNCHANGED <<journal, tail, durable, lock, work, answers, submitted, faults>>

\* The temporary file, the rename or the fsync of the directory fails.
ReplaceFails(p) ==
  /\ pc[p] \in {"replace", "dirsync"}
  /\ Fault("io")
  /\ Answer(p, TRUE, FALSE)
  /\ End(p)
  /\ UNCHANGED <<files, submitted>>

DirectorySync(p) ==
  /\ pc[p] = "dirsync"
  /\ diskViews' = IF DirSync THEN {view} ELSE diskViews
  /\ Answer(p, TRUE, TRUE)
  /\ End(p)
  /\ UNCHANGED <<journal, tail, view, durable, submitted, faults>>

-----------------------------------------------------------------------------
\* recover_audit_state.py: --check reads the journal, then the view, without
\* the lock; --apply locks, compares both with what was checked, and rebuilds.

ReviewJournal(p) ==
  /\ p \in Recoverers
  /\ Goto(p, "idle", "reviewing")
  /\ reviewed' = [reviewed EXCEPT ![p] =
                    [journal |-> journal, tail |-> tail, view |-> NoView]]
  /\ UNCHANGED <<files, lock, req, event, newView, answers, submitted, faults>>

\* Mutant of ReviewView: the digest of the view is not kept.
ReviewViewForgotten(p) ==
  /\ p \in Recoverers
  /\ Goto(p, "reviewing", "locking")
  /\ UNCHANGED <<files, lock, work, answers, submitted, faults>>

ReviewView(p) ==
  /\ p \in Recoverers
  /\ Goto(p, "reviewing", "locking")
  /\ reviewed' = [reviewed EXCEPT ![p].view = view]
  /\ UNCHANGED <<files, lock, req, event, newView, answers, submitted, faults>>

AsReviewed(p) == reviewed[p] = [journal |-> journal, tail |-> tail, view |-> view]

CanRebuild == tail = "clean" /\ Derivable(journal, view)

Rebuild(p) ==
  /\ p \in Recoverers
  /\ Goto(p, "locked", "replace")
  /\ AsReviewed(p)
  /\ CanRebuild
  /\ newView' = [newView EXCEPT ![p] = DerivedState(journal, view)]
  /\ UNCHANGED <<files, lock, req, event, reviewed, answers, submitted, faults>>

RebuildRefused(p) ==
  /\ p \in Recoverers
  /\ pc[p] = "locked"
  /\ ~(AsReviewed(p) /\ CanRebuild)
  /\ End(p)
  /\ UNCHANGED <<files, answers, submitted, faults>>

-----------------------------------------------------------------------------
\* The world.

\* p is killed; the kernel frees its flock, and what it wrote stays.
Crash(p) ==
  /\ pc[p] # "idle"
  /\ Fault("crash")
  /\ End(p)
  /\ UNCHANGED <<files, answers, submitted>>

\* Every process dies.  Records no fsync has covered may be lost, the first
\* of them partly, and the view may be an older one.
PowerLoss ==
  /\ Fault("power")
  /\ \E n \in durable..Len(journal) :
       /\ journal' = SubSeq(journal, 1, n)
       /\ durable' = n
       /\ tail' \in IF n = Len(journal) /\ tail = "clean" THEN {"clean"}
                    ELSE {"clean", "torn"}
  /\ view' \in diskViews
  /\ diskViews' = {view'}
  /\ lock' = None
  /\ pc' = [p \in Procs |-> "idle"]
  /\ req' = [p \in Procs |-> None]
  /\ event' = [p \in Procs |-> None]
  /\ newView' = [p \in Procs |-> NoView]
  /\ reviewed' = [p \in Procs |-> None]
  /\ UNCHANGED <<answers, submitted>>

\* Somebody deletes or damages the view, or puts back the copy of it that
\* the n-th record had led to.
EditView ==
  /\ Fault("edit")
  /\ view' \in {NoView, Garbage}
       \union {StateAfterEvent(journal[n], SubSeq(journal, 1, n)) :
                 n \in {i \in 1..Len(journal) : journal[i].mode = "r2"
                                                 /\ journal[i].policy}}
  /\ view' # view
  /\ diskViews' = diskViews \union {view'}
  /\ UNCHANGED <<journal, tail, durable, lock, pc, work, answers, submitted>>

-----------------------------------------------------------------------------
SubmitAny(p) ==
  \E r \in Requests, cas \in [intent : {"explicit"}, rev : 0..Len(journal)]
                              \union [intent : {"accept", "none"}, rev : {0}] :
    Submit(p, r, cas)

\* What process p does once it is called; a caller may make any request at
\* any time, so Submit and ReviewJournal are not among its duties.
Continue(p) ==
  \/ Acquire(p) \/ LockTimeout(p)
  \/ PrepareR2(p) \/ PrepareR1(p) \/ Refuse(p)
  \/ AppendPart(p) \/ AppendRest(p) \/ Fsync(p)
  \/ Replace(p) \/ DirectorySync(p)
  \/ ReviewView(p) \/ Rebuild(p) \/ RebuildRefused(p)

Environment ==
  \/ \E p \in Procs : AppendFails(p) \/ ReplaceFails(p) \/ Crash(p)
  \/ PowerLoss
  \/ EditView

Next ==
  \/ \E p \in Procs : SubmitAny(p) \/ ReviewJournal(p) \/ Continue(p)
  \/ Environment

Spec == Init /\ [][Next]_vars

\* A called process runs on unless it is killed.
FairSpec == Spec /\ \A p \in Procs : WF_vars(Continue(p))

-----------------------------------------------------------------------------
TypeOK ==
  /\ journal \in Seq(Event)
  /\ tail \in {"clean", "torn", "corrupt"}
  /\ view \in View \union {NoView, Garbage}
  /\ durable \in 0..Len(journal)
  /\ diskViews \subseteq View \union {NoView, Garbage}
  /\ lock \in Procs \union {None}
  /\ pc \in [Procs -> {"idle", "reviewing", "locking", "locked", "append",
                       "appending", "fsync", "replace", "dirsync"}]
  /\ req \in [Procs -> Call \union {None}]
  /\ event \in [Procs -> Event \union {None}]
  /\ newView \in [Procs -> View \union {NoView}]
  /\ reviewed \in [Procs -> Review \union {None}]
  /\ answers \subseteq [id : Nat, cas : Revisions, committed : BOOLEAN,
                        updated : BOOLEAN]
  /\ submitted \in 0..MaxRequests
  /\ faults \in [FaultKinds -> Nat]

\* What the writers accept the readers accept: whatever requests, failures
\* and deaths led to it, a journal without a damaged tail is one protocol
\* mode with one run id, contiguous seq and revisions, and transitions that
\* inspect_journal_bytes finds legal from the first record on.  (The writer
\* checks an event against the view; the reader replays the journal.)
JournalAlwaysReadable == tail = "clean" => JournalValid(journal)

\* No record is ever written after a damaged tail, which would make a torn
\* end (JOURNAL_TAIL_INCOMPLETE) a corrupt middle.
NeverSpliced == tail # "corrupt"

\* A caller that was told journal_committed = true finds exactly one record
\* of its event in the journal, after any kills, failed calls, rebuilds and
\* losses of power.
AcknowledgedKept ==
  \A a \in answers : a.committed =>
    \E i \in 1..Len(journal) :
      /\ journal[i].id = a.id
      /\ \A k \in 1..Len(journal) : journal[k].id = a.id => k = i

\* Of the writers that name the same expected_state_revision at most one is
\* told that it committed.
OneWinnerPerRevision ==
  \A a, b \in answers :
    (/\ a.committed /\ b.committed
     /\ a.cas.intent = "explicit" /\ b.cas = a.cas) => a = b

\* A view shows the state after some prefix of the journal: never a state
\* that the journal does not lead to.
ViewFollowsJournal ==
  (~Missing(view) /\ view.mode = "r2") =>
    /\ view.seq \in 1..Len(journal)
    /\ StateSync(SubSeq(journal, 1, view.seq), view)

\* A view is published only while it is the state after the whole journal:
\* neither a slow writer nor a rebuild from an old check overwrites the view
\* of a later commit.
PublishedViewIsCurrent ==
  [][ \A p \in Procs :
        (pc[p] = "replace" /\ pc'[p] = "dirsync" /\ view'.mode = "r2")
          => view'.digest = journal ]_vars

\* The journal is the log of AuditLog, with the reported commits promised.
Log == INSTANCE AuditLog WITH
  log <- journal,
  promised <- {a.id : a \in {b \in answers : b.committed}},
  InitialLogs <- {f.journal : f \in InitialFiles}

LogSpec == Log!Spec

\* Every call of a writer or a recoverer returns or its process dies; with
\* the lock held by others the call times out, so none waits for ever.
EveryCallEnds == \A p \in Procs : pc[p] # "idle" ~> pc[p] = "idle"
=============================================================================
