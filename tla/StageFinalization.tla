-------------------------- MODULE StageFinalization --------------------------
(***************************************************************************)
(* scripts/finalize_stage.py: a recon or triage result becomes the outcome *)
(* of its stage.  The command checks the digest of the result, has its     *)
(* validator approve it, loads it, derives the event, and appends the      *)
(* event under the writer's lock after checking digest, contract and state *)
(* again.  The result file is not protected by that lock: whoever writes   *)
(* results may replace it between any two of these reads.                  *)
(*                                                                         *)
(* A document stands for its content, and is its own digest.  The contexts *)
(* of a halted stage (blocker, resume_step) are the codes of the recorded  *)
(* blockers, gaps and unprocessed candidates.  The commit itself, its I/O  *)
(* and its failures are those of AuditStateIO: here Append is one step,    *)
(* and a kill loses a call before it or its answer after it.               *)
(***************************************************************************)
EXTENDS AuditTransitionPolicy, FiniteSets

CONSTANTS Procs,        \* finalizer processes
          Documents,    \* contents the result file may have
          Requests,     \* stages and digests callers ask to finalize
          Missing,      \* the result path holds no readable regular file
          CodeOrder,    \* the codes in the order str compares them
          FirstStates,  \* workflow states the model starts from
          OtherEvents,  \* kinds of events other writers record
          ContentRecurs,\* whether an earlier content may be written again
          MaxEdits,     \* bound on changes of the result or its material
          MaxRevision,  \* bound on the journal
          MaxKills      \* bound on killed finalizers

ASSUME RequestsAssumption ==
  Requests \subseteq [stage : {"recon", "triage"}, digest : Documents]

\* A file of another status stands for Missing: load_json finds nothing to finalize in it.
ASSUME FinalizersAssumption ==
  /\ None \notin Procs
  /\ \A d \in Documents : d.status \in {"complete", "partial", "blocked"}
  /\ FirstStates \subseteq TransitionState
  /\ ContentRecurs \in BOOLEAN

VARIABLES cur,      \* the workflow state, as the view shows it
          journal,  \* records appended since the model started
          file,     \* the document at the result path
          drifted,  \* documents whose referenced material has changed
          lock,     \* the process that holds the workspace lock, or None
          pc,       \* where each finalizer is
          call,     \* its arguments: stage, digest, revision
          loaded,   \* the document it loaded before the lock
          edits, kills,
          written,  \* history: contents the file has had
          shown     \* history: what was at the path since p took the lock,
                    \* and whether its validator would have approved it

vars == <<cur, journal, file, drifted, lock, pc, call, loaded, edits, kills, written, shown>>

environment == <<file, drifted, edits, written>>

FinalizableStages == {"recon", "triage"}

Unfinalized == [stage |-> None, digest |-> None, revision |-> 0]

-----------------------------------------------------------------------------
\* The two validators, down to what status demands of the document.

\* validate_recon_result: complete leaves no gap, blocker or unknown
\* category; partial names a gap or a blocker; blocked names a blocker.
ReconStatusValid(d) ==
  \/ d.status = "complete" /\ d.gaps = {} /\ d.blockers = {} /\ d.covered
  \/ d.status = "partial" /\ d.gaps \union d.blockers # {}
  \/ d.status = "blocked" /\ d.blockers # {}

\* validate_triage_batch: complete decides every candidate of a non-empty
\* inventory (d.covered) and leaves nothing over.
TriageStatusValid(d) ==
  \/ /\ d.status = "complete"
     /\ d.covered
     /\ d.gaps \union d.blockers \union d.unprocessed = {}
  \/ /\ d.status = "partial"
     /\ d.gaps \union d.blockers \union d.unprocessed # {}
  \/ d.status = "blocked" /\ d.blockers # {}

\* The validator run as a subprocess approves what it reads at the path.
Approves(stage, d, gone) ==
  /\ d # Missing
  /\ d.stage = stage
  /\ d \notin gone
  /\ IF stage = "recon" THEN ReconStatusValid(d) ELSE TriageStatusValid(d)

-----------------------------------------------------------------------------
\* The event a document asks for.

FirstCode(codes) ==
  CodeOrder[CHOOSE i \in DOMAIN CodeOrder :
              /\ CodeOrder[i] \in codes
              /\ \A j \in DOMAIN CodeOrder : CodeOrder[j] \in codes => i <= j]

\* The first blocker, else the first gap, else (in triage) the first
\* unprocessed candidate.
HaltContext(d) ==
  CASE d.status = "complete" -> None
    [] d.status # "complete" /\ d.blockers # {} -> FirstCode(d.blockers)
    [] d.status # "complete" /\ d.blockers = {} /\ d.gaps # {} ->
         FirstCode(d.gaps)
    [] OTHER -> FirstCode(d.unprocessed)

HasHaltContext(d) ==
  d.status = "complete" \/ d.blockers \union d.gaps # {}
    \/ (d.stage = "triage" /\ d.unprocessed # {})

Outcome == [complete |-> [kind |-> "complete", status |-> "completed"],
            partial  |-> [kind |-> "pause",    status |-> "paused"],
            blocked  |-> [kind |-> "block",    status |-> "blocked"]]

EventMaterial(stage, d) ==
  [kind |-> Outcome[d.status].kind, fromStage |-> stage,
   fromStatus |-> "running", stage |-> stage,
   status |-> Outcome[d.status].status, ctx |-> HaltContext(d),
   material |-> TRUE]

-----------------------------------------------------------------------------
Revision == Len(journal)

Init ==
  /\ cur \in FirstStates
  /\ journal = <<>>
  /\ file \in Documents
  /\ drifted = {}
  /\ lock = None
  /\ pc = [p \in Procs |-> "idle"]
  /\ call = [p \in Procs |-> Unfinalized]
  /\ loaded = [p \in Procs |-> Missing]
  /\ edits = 0
  /\ kills = 0
  /\ written = {file}
  /\ shown = [p \in Procs |-> {}]

\* What a look at the path would show p.
Look(p, d, gone) ==
  {[doc |-> d, approved |-> Approves(call[p].stage, d, gone)]}

Goto(p, step) == pc' = [pc EXCEPT ![p] = step]

\* The call is over; a lock it held is free again.
End(p) ==
  /\ Goto(p, "idle")
  /\ call' = [call EXCEPT ![p] = Unfinalized]
  /\ loaded' = [loaded EXCEPT ![p] = Missing]
  /\ shown' = [shown EXCEPT ![p] = {}]
  /\ lock' = IF lock = p THEN None ELSE lock

Refuse(p) ==
  /\ End(p)
  /\ UNCHANGED <<cur, journal, environment, kills>>

\* main: the arguments name a stage, the digest of a result its caller has
\* seen and the revision it has read.
Call(p, stage, digest, revision) ==
  /\ pc[p] = "idle"
  /\ Revision < MaxRevision
  /\ Goto(p, "digest")
  /\ call' = [call EXCEPT ![p] = [stage |-> stage, digest |-> digest,
                                  revision |-> revision]]
  /\ UNCHANGED <<cur, journal, environment, lock, loaded, kills, shown>>

\* Mutant of Check: a failed check is repeated until it holds.
CheckUntilItHolds(p, at, holds, next) ==
  /\ pc[p] = at
  /\ holds
  /\ Goto(p, next)
  /\ UNCHANGED <<cur, journal, environment, lock, call, loaded, kills, shown>>

\* A check of the call that reads and changes nothing else.
Check(p, at, holds, next) ==
  /\ pc[p] = at
  /\ \/ holds /\ Goto(p, next)
        /\ UNCHANGED <<cur, journal, environment, lock, call, loaded, kills, shown>>
     \/ ~holds /\ Refuse(p)

InitialDigest(p) == Check(p, "digest", file = call[p].digest, "validate")

Validate(p) ==
  /\ pc[p] = "validate"
  /\ \/ /\ Approves(call[p].stage, file, drifted)
        /\ loaded' = [loaded EXCEPT ![p] = file]
        /\ Goto(p, "load")
        /\ UNCHANGED <<cur, journal, environment, lock, call, kills,
                       shown>>
     \/ ~Approves(call[p].stage, file, drifted) /\ Refuse(p)

\* load_json reads the file again: it must be finalizable and have the
\* subject the validator reported.
SameSubject(d, e) == d # Missing /\ e # Missing /\ d.id = e.id

Load(p) ==
  /\ pc[p] = "load"
  /\ \/ /\ SameSubject(file, loaded[p])
        /\ loaded' = [loaded EXCEPT ![p] = file]
        /\ Goto(p, "state")
        /\ UNCHANGED <<cur, journal, environment, lock, call, kills,
                       shown>>
     \/ ~SameSubject(file, loaded[p]) /\ Refuse(p)

\* current_state_or_raise
StateAsExpected(p) ==
  /\ Revision = call[p].revision
  /\ cur.stage = call[p].stage
  /\ cur.status = "running"

ReadState(p) ==
  Check(p, "state", StateAsExpected(p) /\ HasHaltContext(loaded[p]), "lock")

\* Mutant of Lock: the lock is only advisory.
LockShared(p) ==
  /\ pc[p] = "lock"
  /\ IF /\ Revision = call[p].revision
        /\ Allowed(cur, EventMaterial(call[p].stage, loaded[p]))
     THEN /\ lock' = p
          /\ shown' = [shown EXCEPT ![p] = Look(p, file, drifted)]
          /\ Goto(p, "redigest")
          /\ UNCHANGED <<cur, journal, environment, call, loaded, kills>>
     ELSE Refuse(p)

\* commit_event takes the lock and reads state and journal: from here on
\* no other writer records an event.  The revision, source and policy checks
\* of the writer come before the hook.
Lock(p) ==
  /\ pc[p] = "lock"
  /\ lock = None
  /\ IF /\ Revision = call[p].revision
        /\ Allowed(cur, EventMaterial(call[p].stage, loaded[p]))
     THEN /\ lock' = p
          /\ shown' = [shown EXCEPT ![p] = Look(p, file, drifted)]
          /\ Goto(p, "redigest")
          /\ UNCHANGED <<cur, journal, environment, call, loaded, kills>>
     ELSE Refuse(p)

LockTimeout(p) == pc[p] = "lock" /\ lock # None /\ Refuse(p)

\* Mutant of RecheckDigest: the lock-held check trusts the first digest.
DigestNotRechecked(p) == Check(p, "redigest", StateAsExpected(p), "revalidate")

\* lock_held_recheck: state and digest again, then the contract again.
RecheckDigest(p) ==
  Check(p, "redigest", StateAsExpected(p) /\ file = call[p].digest,
        "revalidate")

\* Mutant of Revalidate: only the document is loaded again.
RevalidateNothing(p) == Check(p, "revalidate", TRUE, "reload")

Revalidate(p) ==
  Check(p, "revalidate",
        Approves(call[p].stage, file, drifted) /\ SameSubject(file, loaded[p]),
        "reload")

\* The second load: subject, status and schema version are those of the
\* document the event was built from.
Reload(p) ==
  Check(p, "reload",
        SameSubject(file, loaded[p]) /\ file.status = loaded[p].status,
        "append")

\* The record, with the digest it names (details.metadata.result_sha256).
RecordOf(p) ==
  [event |-> EventMaterial(call[p].stage, loaded[p]),
   digest |-> call[p].digest, subject |-> loaded[p].id,
   expected |-> call[p].revision, seen |-> shown[p]]

RecordResult(p) ==
  /\ pc[p] = "append"
  /\ journal' = Append(journal, RecordOf(p))
  /\ cur' = Target(RecordOf(p).event)
  /\ End(p)
  /\ UNCHANGED <<environment, kills>>

-----------------------------------------------------------------------------
\* The environment.

\* Another writer of the workspace records an event the policy accepts.
OtherRecord(e) == [event |-> e, digest |-> None, subject |-> None,
                   expected |-> Revision, seen |-> {}]

OtherWriter ==
  /\ lock = None
  /\ Revision < MaxRevision
  /\ \E kind \in OtherEvents, status \in STATUSES,
        stage \in FinalizableStages, ctx \in Contexts \union {None} :
       LET e == [kind |-> kind, fromStage |-> cur.stage,
                 fromStatus |-> cur.status, stage |-> stage,
                 status |-> status, ctx |-> ctx, material |-> TRUE]
       IN  /\ Allowed(cur, e)
           /\ journal' = Append(journal, OtherRecord(e))
           /\ cur' = Target(e)
  /\ UNCHANGED <<environment, lock, pc, call, loaded, kills, shown>>

\* What p may be shown while it holds the lock grows with every change.
ShownAfter(d, gone) ==
  shown' = [p \in Procs |->
              IF lock = p THEN shown[p] \union Look(p, d, gone)
                          ELSE shown[p]]

\* The result file is replaced, written again or removed.
EditResult(d) ==
  /\ edits < MaxEdits
  /\ d # file
  /\ ContentRecurs \/ d \notin written
  /\ file' = d
  /\ written' = written \union {d}
  /\ edits' = edits + 1
  /\ ShownAfter(d, drifted)
  /\ UNCHANGED <<cur, journal, drifted, lock, pc, call, loaded, kills>>

\* A file the result refers to (a candidate, a plan, a source) changes.
DriftMaterial(d) ==
  /\ edits < MaxEdits
  /\ d \notin drifted
  /\ drifted' = drifted \union {d}
  /\ edits' = edits + 1
  /\ ShownAfter(file, drifted \union {d})
  /\ UNCHANGED <<cur, journal, file, lock, pc, call, loaded, kills,
                 written>>

Kill(p) ==
  /\ pc[p] # "idle"
  /\ kills < MaxKills
  /\ kills' = kills + 1
  /\ End(p)
  /\ UNCHANGED <<cur, journal, environment>>

-----------------------------------------------------------------------------
\* The steps a called finalizer takes by itself.
Continue(p) ==
  \/ InitialDigest(p) \/ Validate(p) \/ Load(p) \/ ReadState(p)
  \/ Lock(p) \/ LockTimeout(p)
  \/ RecheckDigest(p) \/ Revalidate(p) \/ Reload(p) \/ RecordResult(p)

CallAny(p) ==
  \E r \in Requests, revision \in 0..Revision :
    Call(p, r.stage, r.digest, revision)

Next ==
  \/ \E p \in Procs : CallAny(p) \/ Continue(p) \/ Kill(p)
  \/ OtherWriter
  \/ \E d \in Documents \union {Missing} : EditResult(d)
  \/ \E d \in Documents : DriftMaterial(d)

Spec == Init /\ [][Next]_vars

FairSpec == Spec /\ \A p \in Procs : WF_vars(Continue(p))

-----------------------------------------------------------------------------
Results == {i \in DOMAIN journal : journal[i].digest # None}

\* A run of a stage gets one outcome: between two finalizations recorded in
\* the journal some event put a stage to work again, whatever finalizers
\* race, are killed before they or are called again.
OneOutcomePerRun ==
  \A i, j \in Results :
    i < j => \E k \in i+1..j-1 : journal[k].event.status = "running"

\* The outcome, the subject and the blocker in the journal are those of the
\* document whose digest the record names (stage_event_material), provided
\* a replaced content never comes back.
OutcomeOfNamedResult ==
  \A i \in Results :
    LET r == journal[i]
    IN  /\ r.subject = r.digest.id
        /\ r.event = EventMaterial(r.digest.stage, r.digest)

\* lock_held_recheck: while its writer held the lock, the named result was
\* at its path, and the validator approved a result of the same subject,
\* however often the file and its material changed meanwhile.
RecheckedUnderLock ==
  \A i \in Results :
    LET r == journal[i]
    IN  /\ \E s \in r.seen : s.doc = r.digest
        /\ \E s \in r.seen : s.approved /\ s.doc.id = r.subject

\* Every finalizer returns: the validator and the lock have timeouts, and
\* nothing is waited for under the lock.
EveryFinalizerReturns == \A p \in Procs : (pc[p] # "idle") ~> (pc[p] = "idle")
=============================================================================
