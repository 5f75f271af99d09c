------------------------- MODULE WorkspaceProjections -------------------------
(***************************************************************************)
(* workspace_state.py, next_actions.py, audit_timeline.py: documents that  *)
(* are derived from the journal and the artifacts of a workspace.  Each of *)
(* them is put together from files that are read one after the other, once *)
(* for what they say and once for their digest; the journal changes under  *)
(* the workspace lock, the artifacts whenever a command publishes one.     *)
(*                                                                         *)
(* A file is the number of times it was written; that its content was not  *)
(* changed and changed back is assumed.  A document is what it says about  *)
(* its inputs, so two of the same bytes are equal.  The checks of a single *)
(* document against its schema can only refuse; they are Fail.             *)
(***************************************************************************)
EXTENDS Naturals, FiniteSets, Sequences

CONSTANTS
  Journal,      \* audit-events.jsonl, with the view that belongs to it
  Artifacts,    \* candidates, verdicts, ledger, Docker status and the like
  Order,        \* the order in which the inputs are read
  Generators,   \* render_handoff_state.py
  Checkpointers, CheckpointValidators,
  Planners,     \* render_next_actions.py
  PlanValidators,
  Timelines,    \* render_audit_timeline.py
  Casts,        \* which of them take part
  None,
  MaxChanges,   \* writes to the inputs
  MaxMishaps    \* errors and kills

Inputs == {Journal} \cup Artifacts
Processes ==
  Generators \cup Checkpointers \cup CheckpointValidators \cup Planners \cup PlanValidators
  \cup Timelines

ASSUME ProjectionsAssumption ==
  /\ Journal \notin Artifacts
  /\ Order \in Seq(Inputs) /\ Inputs = {Order[k] : k \in DOMAIN Order}
  /\ None \notin Processes
  /\ MaxChanges \in Nat /\ MaxMishaps \in Nat

\* A call is of one command.
ASSUME RolesAssumption ==
  /\ Generators \cap (Checkpointers \cup CheckpointValidators \cup Timelines) = {}
  /\ Checkpointers \cap (CheckpointValidators \cup Timelines) = {}
  /\ CheckpointValidators \cap Timelines = {}
  /\ Planners \cap PlanValidators = {}
  /\ (Planners \cup PlanValidators)
       \cap (Generators \cup Checkpointers \cup CheckpointValidators \cup Timelines) = {}

VARIABLES
  world,        \* how often each input was written
  worlds,       \* every such state of the inputs so far
  lock,         \* the workspace lock
  handoff, checkpoints, nextActions, timeline,  \* the derived files
  proc, mishaps

vars == <<world, worlds, lock, handoff, checkpoints, nextActions, timeline, proc, mishaps>>

\* What a document says about its inputs and which bytes it names for them; nothing yet, or no file.
Blank == [content |-> [i \in Inputs |-> 0], digest |-> [i \in Inputs |-> 0]]
DocumentOf(w) == [content |-> w, digest |-> w]
Complete(d) == \A i \in Inputs : d.digest[i] # 0
Revision(d) == d.content[Journal]

\* checkpoints/<revision>.json: what the handoff says, and the digest of its file.
Index(d, file) == [of |-> d, sha |-> file]
NoIndex == Index(Blank, Blank)
\* next-actions.json: the handoff the actions were derived from, and the digest of its file.
Actions(kind, d, file) == [kind |-> kind, of |-> d, sha |-> file]
NoActions == Actions("none", Blank, Blank)
Revisions == 1..(MaxChanges + 1)

Fresh == [pc |-> "idle", round |-> 1, got |-> Blank, first |-> Blank, seen |-> Blank,
          given |-> NoActions, made |-> NoActions, start |-> [i \in Inputs |-> 0], says |-> "nothing"]

Init ==
  /\ world = [i \in Inputs |-> 1]
  /\ worlds = {world}
  /\ lock = None
  /\ handoff \in {Blank, DocumentOf(world)}
  /\ checkpoints = [r \in Revisions |-> NoIndex]
  /\ nextActions = NoActions
  /\ timeline = [json |-> Blank, html |-> Blank]
  /\ \E cast \in Casts :
       proc = [p \in Processes |-> [Fresh EXCEPT !.pc = IF p \in cast THEN "idle" ELSE "done"]]
  /\ mishaps = 0

Becomes(p, s) == proc' = [proc EXCEPT ![p] = s]
\* What a validator was given and said is remembered.
Ends(p, verdict) ==
  Becomes(p, [Fresh EXCEPT !.pc = "done", !.says = verdict, !.given = proc[p].given,
                !.start = proc[p].start])
Takes(p) == lock = None /\ lock' = p
Gives(p) == lock' = IF lock = p THEN None ELSE lock

UnchangedFiles == UNCHANGED <<handoff, checkpoints, nextActions, timeline>>
UnchangedWorld == UNCHANGED <<world, worlds, mishaps>>
-----------------------------------------------------------------------------
(* The inputs *)

Write(i) ==
  /\ Cardinality(worlds) <= MaxChanges
  /\ i = Journal => lock = None
  /\ world' = [world EXCEPT ![i] = @ + 1]
  /\ worlds' = worlds \cup {world'}
  /\ UNCHANGED <<lock, proc, mishaps>> /\ UnchangedFiles

\* derive_handoff_state: the next input is read, then its digest.
Derive(p) ==
  /\ proc[p].pc \in {"derive", "check", "stale"} /\ ~Complete(proc[p].got)
  /\ LET k == CHOOSE k \in DOMAIN Order :
                /\ proc[p].got.digest[Order[k]] = 0
                /\ \A j \in 1..(k - 1) : proc[p].got.digest[Order[j]] # 0
         i == Order[k]
     IN Becomes(p, IF proc[p].got.content[i] = 0
                   THEN [proc[p] EXCEPT !.got.content[i] = world[i]]
                   ELSE [proc[p] EXCEPT !.got.digest[i] = world[i]])
  /\ UNCHANGED lock /\ UnchangedFiles /\ UnchangedWorld
-----------------------------------------------------------------------------
(* generate_handoff_state *)

BeginHandoff(g) ==
  /\ proc[g].pc = "idle"
  /\ Takes(g)
  /\ Becomes(g, [Fresh EXCEPT !.pc = "derive"])
  /\ UnchangedFiles /\ UnchangedWorld

\* _snapshot_signature: the journal is still the one that was read.
SameSignature(g) ==
  proc[g].got.content[Journal] = world[Journal] /\ proc[g].got.digest[Journal] = world[Journal]

DeriveAgain(g) ==
  /\ proc[g].pc = "derive" /\ proc[g].round = 1 /\ Complete(proc[g].got)
  /\ IF SameSignature(g)
     THEN /\ Becomes(g, [proc[g] EXCEPT !.round = 2, !.first = proc[g].got, !.got = Blank])
          /\ UNCHANGED lock
     ELSE Ends(g, "failed") /\ Gives(g)
  /\ UnchangedFiles /\ UnchangedWorld

\* Mutant of SameArtifacts: only the journal is compared.
SameJournal(g) == proc[g].got.digest[Journal] = proc[g].first.digest[Journal]
\* The digests of both derivations agree; of what was read, the counts, identifiers and the tested
\* reference are compared, so a change may pass that concerns none of them.
SameArtifacts(g) == proc[g].got.digest = proc[g].first.digest

PublishHandoff(g) ==
  /\ proc[g].pc = "derive" /\ proc[g].round = 2 /\ Complete(proc[g].got)
  /\ \/ /\ SameArtifacts(g)
        /\ handoff' = proc[g].first
        /\ Ends(g, "ok")
     \/ /\ ~SameArtifacts(g) \/ proc[g].got.content # proc[g].first.content
        /\ UNCHANGED handoff
        /\ Ends(g, "failed")
  /\ Gives(g)
  /\ UNCHANGED <<checkpoints, nextActions, timeline>> /\ UnchangedWorld
-----------------------------------------------------------------------------
(* validate_handoff_state_current, called with the lock or taking it *)

BeginCheck(p) ==
  /\ proc[p].pc = "lock"
  /\ Takes(p)
  /\ Becomes(p, [proc[p] EXCEPT !.pc = "check", !.seen = handoff, !.got = Blank])
  /\ UnchangedFiles /\ UnchangedWorld

\* Mutant of Current: what the document says is not compared, only the digests are.
SameDigests(p) == proc[p].seen # Blank /\ proc[p].got.digest = proc[p].seen.digest
\* The file is there and equals what has just been derived, in every field.
Current(p) == proc[p].seen # Blank /\ proc[p].got = proc[p].seen

Checked(p) == proc[p].pc = "check" /\ Complete(proc[p].got)
-----------------------------------------------------------------------------
(* create_workspace_checkpoint *)

BeginCheckpoint(c) ==
  /\ proc[c].pc = "idle"
  /\ Takes(c)
  /\ Becomes(c, [Fresh EXCEPT !.pc = "check", !.seen = handoff])
  /\ UnchangedFiles /\ UnchangedWorld

\* The handoff is checked, read and checked again.
CheckHandoff(c) ==
  /\ Checked(c)
  /\ IF Current(c) /\ (proc[c].round = 2 => proc[c].seen = proc[c].first)
     THEN /\ Becomes(c, IF proc[c].round = 1
                        THEN [proc[c] EXCEPT !.round = 2, !.first = handoff, !.seen = handoff,
                                !.got = Blank]
                        ELSE [proc[c] EXCEPT !.pc = "write"])
          /\ UNCHANGED lock
     ELSE Ends(c, "failed") /\ Gives(c)
  /\ UnchangedFiles /\ UnchangedWorld

MayWrite(index, r) == checkpoints[r] = NoIndex

\* An index of the same bytes is left alone, one of other bytes is refused.
WriteCheckpoint(c) ==
  /\ proc[c].pc = "write"
  /\ LET r == Revision(proc[c].first)
         index == Index(proc[c].first, handoff)
     IN IF MayWrite(index, r)
        THEN checkpoints' = [checkpoints EXCEPT ![r] = index] /\ Ends(c, "ok")
        ELSE UNCHANGED checkpoints /\ Ends(c, IF checkpoints[r] = index THEN "ok" ELSE "failed")
  /\ Gives(c)
  /\ UNCHANGED <<handoff, nextActions, timeline>> /\ UnchangedWorld
-----------------------------------------------------------------------------
(* validate_workspace_checkpoint *)

\* What a validator was given is kept as its `given`.
BeginValidation(v, r) ==
  /\ proc[v].pc = "idle" /\ checkpoints[r] # NoIndex
  /\ Becomes(v, [Fresh EXCEPT !.pc = "lock", !.start = world,
                   !.given = Actions("checkpoint", checkpoints[r].of, checkpoints[r].sha)])
  /\ UNCHANGED lock /\ UnchangedFiles /\ UnchangedWorld

\* The prefix of the journal that the index names is still one of its prefixes.
CompareRevision(v) ==
  /\ Checked(v)
  /\ LET own == Revision(proc[v].given.of)
         now == Revision(proc[v].seen)
     IN IF ~Current(v) \/ own > now
        THEN Ends(v, "unverifiable")
        ELSE Becomes(v, [proc[v] EXCEPT !.pc = IF own < now THEN "inputs" ELSE "compare", !.got = Blank])
  /\ Gives(v)
  /\ UnchangedFiles /\ UnchangedWorld

\* Mutant of InputKept: an input that is there is good enough.
InputThere(v, i) == world[i] # 0
InputKept(v, i) == world[i] = proc[v].given.of.digest[i]

\* The inputs of an older index are read once more; journal, view and handoff have moved on.
ReadInput(v, i) ==
  /\ proc[v].pc = "inputs" /\ i \in Artifacts /\ proc[v].got.digest[i] = 0
  /\ IF InputKept(v, i)
     THEN IF \A j \in Artifacts \ {i} : proc[v].got.digest[j] # 0
          THEN Ends(v, "valid_historical")
          ELSE Becomes(v, [proc[v] EXCEPT !.got.digest[i] = world[i]])
     ELSE Ends(v, "historical_unverifiable")
  /\ UNCHANGED lock /\ UnchangedFiles /\ UnchangedWorld

\* The index is derived again, with the digest of the file as it is by now.
CompareIndex(v) ==
  /\ proc[v].pc = "compare"
  /\ Ends(v, IF Index(proc[v].given.of, proc[v].given.sha) = Index(proc[v].seen, handoff)
             THEN "current" ELSE "tampered")
  /\ UNCHANGED lock /\ UnchangedFiles /\ UnchangedWorld
-----------------------------------------------------------------------------
(* generate_next_actions, for the file and for validate_next_actions_current *)

BeginPlan(n) ==
  /\ proc[n].pc = "idle" /\ n \in Planners
  /\ Becomes(n, [Fresh EXCEPT !.pc = "lock"])
  /\ UNCHANGED lock /\ UnchangedFiles /\ UnchangedWorld

BeginPlanCheck(n) ==
  /\ proc[n].pc = "idle" /\ nextActions # NoActions
  /\ Becomes(n, [Fresh EXCEPT !.pc = "lock", !.given = nextActions])
  /\ UNCHANGED lock /\ UnchangedFiles /\ UnchangedWorld

\* A current handoff is read for its actions; one that is not current is the only action.  Behind
\* the derivation the handoff must be current again.
CheckForPlan(n) ==
  /\ Checked(n)
  /\ \/ Current(n) /\ Becomes(n, [proc[n] EXCEPT !.pc = IF proc[n].round = 1 THEN "read" ELSE "plan"])
     \/ ~Current(n) /\ proc[n].round = 1 /\ Becomes(n, [proc[n] EXCEPT !.pc = "stale", !.got = Blank])
     \/ ~Current(n) /\ proc[n].round = 2 /\ Ends(n, "failed")
  /\ Gives(n)
  /\ UnchangedFiles /\ UnchangedWorld

ReadHandoff(n) ==
  /\ proc[n].pc = "read"
  /\ IF handoff = Blank
     THEN Ends(n, "failed")
     ELSE Becomes(n, [proc[n] EXCEPT !.pc = "raw", !.first = handoff])
  /\ UNCHANGED lock /\ UnchangedFiles /\ UnchangedWorld

\* derive_next_actions reads the file a second time, for its digest.
ReadRaw(n) ==
  /\ proc[n].pc = "raw"
  /\ Becomes(n, [proc[n] EXCEPT !.pc = "lock", !.round = 2,
                   !.made = Actions("actions", proc[n].first, handoff)])
  /\ UNCHANGED lock /\ UnchangedFiles /\ UnchangedWorld

\* _stale_document: the workspace is derived without the lock.
StaleActions(n) ==
  /\ proc[n].pc = "stale" /\ Complete(proc[n].got)
  /\ Becomes(n, [proc[n] EXCEPT !.pc = "plan", !.made = Actions("stale", proc[n].got, handoff)])
  /\ UNCHANGED lock /\ UnchangedFiles /\ UnchangedWorld

\* The file is written without the lock.
WriteActions(n) ==
  /\ proc[n].pc = "plan" /\ n \in Planners
  /\ nextActions' = proc[n].made
  /\ Ends(n, "ok")
  /\ UNCHANGED <<lock, handoff, checkpoints, timeline>> /\ UnchangedWorld

\* Mutant of SameActions: what binds the file to a handoff is compared, and not all that is in it.
SameBinding(n) == proc[n].made.sha = proc[n].given.sha
SameActions(n) == proc[n].made = proc[n].given

CompareActions(n) ==
  /\ proc[n].pc = "plan" /\ n \in PlanValidators
  /\ Ends(n, IF SameActions(n) THEN "ok" ELSE "drift")
  /\ UNCHANGED lock /\ UnchangedFiles /\ UnchangedWorld
-----------------------------------------------------------------------------
(* publish_timeline, without the lock *)

BeginTimeline(t) ==
  /\ proc[t].pc = "idle"
  /\ Becomes(t, [Fresh EXCEPT !.pc = "derive"])
  /\ UNCHANGED lock /\ UnchangedFiles /\ UnchangedWorld

SameTimeline(t) == proc[t].got = proc[t].first

DeriveTimelineAgain(t) ==
  /\ proc[t].pc = "derive" /\ Complete(proc[t].got)
  /\ IF proc[t].round = 1
     THEN Becomes(t, [proc[t] EXCEPT !.round = 2, !.first = proc[t].got, !.got = Blank])
     ELSE IF SameTimeline(t) THEN Becomes(t, [proc[t] EXCEPT !.pc = "prior"]) ELSE Ends(t, "failed")
  /\ UNCHANGED lock /\ UnchangedFiles /\ UnchangedWorld

\* The pair that is there is kept in mind; one of the same bytes is left alone.
ReadPrior(t) ==
  /\ proc[t].pc = "prior"
  /\ IF timeline = [json |-> proc[t].first, html |-> proc[t].first]
     THEN Ends(t, "ok")
     ELSE Becomes(t, [proc[t] EXCEPT !.pc = "json", !.seen = timeline.json])
  /\ UNCHANGED lock /\ UnchangedFiles /\ UnchangedWorld

ReplaceJson(t) ==
  /\ proc[t].pc = "json"
  /\ timeline' = [timeline EXCEPT !.json = proc[t].first]
  /\ Becomes(t, [proc[t] EXCEPT !.pc = "html"])
  /\ UNCHANGED <<lock, handoff, checkpoints, nextActions>> /\ UnchangedWorld

ReplaceHtml(t) ==
  /\ proc[t].pc = "html"
  /\ timeline' = [timeline EXCEPT !.html = proc[t].first]
  /\ Ends(t, "ok")
  /\ UNCHANGED <<lock, handoff, checkpoints, nextActions>> /\ UnchangedWorld

\* Mutant of Restored: the replaced file is left.
LeftReplaced(t) == timeline
\* _restore
Restored(t) == IF proc[t].pc = "html" THEN [timeline EXCEPT !.json = proc[t].seen] ELSE timeline
-----------------------------------------------------------------------------
(* Errors and kills *)

Mishap == mishaps < MaxMishaps /\ mishaps' = mishaps + 1

\* An error, a refusal or a kill: the lock is free again, a half published timeline is restored.
Fail(p) ==
  /\ proc[p].pc \notin {"idle", "done", "torn"}
  /\ Mishap
  /\ timeline' = Restored(p)
  /\ Ends(p, "failed") /\ Gives(p)
  /\ UNCHANGED <<world, worlds, handoff, checkpoints, nextActions>>

\* Between the two files the first stays replaced if the process is killed ...
Torn(t, verdict) ==
  /\ proc[t].pc = "html"
  /\ Mishap
  /\ Becomes(t, [Fresh EXCEPT !.pc = "torn", !.says = verdict])
  /\ UNCHANGED <<world, worlds, lock>> /\ UnchangedFiles

Kill(t) == Torn(t, "nothing")
\* ... or if it fails and its restoration, which writes a file and replaces with it, fails too.
RestoreFails(t) == Torn(t, "failed")

Next ==
  \/ \E i \in Inputs : Write(i)
  \/ \E p \in Processes : Derive(p) \/ BeginCheck(p) \/ Fail(p)
  \/ \E g \in Generators : BeginHandoff(g) \/ DeriveAgain(g) \/ PublishHandoff(g)
  \/ \E c \in Checkpointers : BeginCheckpoint(c) \/ CheckHandoff(c) \/ WriteCheckpoint(c)
  \/ \E v \in CheckpointValidators :
       \/ CompareRevision(v) \/ CompareIndex(v)
       \/ \E r \in Revisions : BeginValidation(v, r)
       \/ \E i \in Inputs : ReadInput(v, i)
  \/ \E n \in Planners \cup PlanValidators :
       \/ CheckForPlan(n) \/ ReadHandoff(n) \/ ReadRaw(n) \/ StaleActions(n)
       \/ BeginPlan(n) \/ WriteActions(n) \/ CompareActions(n)
  \/ \E n \in PlanValidators : BeginPlanCheck(n)
  \/ \E t \in Timelines :
       \/ BeginTimeline(t) \/ DeriveTimelineAgain(t) \/ ReadPrior(t) \/ ReplaceJson(t) \/ ReplaceHtml(t)
       \/ Kill(t) \/ RestoreFails(t)

Spec == Init /\ [][Next]_vars
-----------------------------------------------------------------------------
(* Properties *)

\* The bytes that a published handoff names were all there at one instant, though they are read one
\* after the other while artifacts are written.
HandoffIsSnapshot == handoff # Blank => handoff.digest \in worlds

\* What a checkpoint says was read from the bytes it names, at its revision, and these were there
\* together; a handoff that says it of other bytes, which may be published, never becomes one.
CheckpointsTrue ==
  \A r \in Revisions :
    checkpoints[r] # NoIndex =>
      LET d == checkpoints[r].of
      IN d.content = d.digest /\ d.digest \in worlds /\ Revision(d) = r /\ checkpoints[r].sha = d

\* A checkpoint is accepted only if the inputs it names were as it names them when its validation
\* began: all of them as the current one, all but the journal as an older one.
AcceptedCheckpoint ==
  \A v \in CheckpointValidators :
    LET named == proc[v].given.of.digest
    IN /\ proc[v].says = "current" => named = proc[v].start
       /\ proc[v].says = "valid_historical" =>
            \A i \in Artifacts : named[i] = proc[v].start[i]

\* Next actions that their validator accepts were derived from the handoff whose digest they bear,
\* though the file is read twice and may be replaced between.
AcceptedActions ==
  \A n \in PlanValidators :
    proc[n].says = "ok" /\ proc[n].given.kind = "actions" => proc[n].given.of = proc[n].given.sha

\* The timeline says of bytes that were there together what was read from them, and its two files
\* are of one derivation unless the one that replaces them is at it, was killed at it or could not
\* restore the first.
TimelineTrue ==
  /\ timeline.json # Blank =>
       timeline.json.content = timeline.json.digest /\ timeline.json.digest \in worlds
  /\ (\A t \in Timelines : proc[t].pc \notin {"html", "torn"}) => timeline.json = timeline.html
=============================================================================
