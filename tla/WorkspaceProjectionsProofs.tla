---------------------- MODULE WorkspaceProjectionsProofs ----------------------
(***************************************************************************)
(* Proofs about WorkspaceProjections, for any number of inputs, processes, *)
(* changes and errors.                                                     *)
(***************************************************************************)
EXTENDS WorkspaceProjections, TLAPS

Versions == [Inputs -> Nat]
Documents == [content : Versions, digest : Versions]
Given == [kind : {"none", "checkpoint", "actions", "stale"}, of : Documents, sha : Documents]
Places == {"idle", "derive", "check", "write", "lock", "inputs", "compare", "stale", "read", "raw",
           "plan", "prior", "json", "html", "torn", "done"}
Verdicts == {"nothing", "ok", "failed", "unverifiable", "valid_historical",
             "historical_unverifiable", "current", "tampered", "drift"}
Procs ==
  [pc : Places, round : {1, 2}, got : Documents, first : Documents, seen : Documents,
   given : Given, made : Given, start : Versions, says : Verdicts]

Typed ==
  /\ world \in Versions
  /\ worlds \subseteq Versions
  /\ lock \in Processes \cup {None}
  /\ handoff \in Documents
  /\ checkpoints \in [Revisions -> [of : Documents, sha : Documents]]
  /\ nextActions \in Given
  /\ timeline \in [json : Documents, html : Documents]
  /\ proc \in [Processes -> Procs]

\* Where a process of each command can be.
Roles ==
  /\ \A g \in Generators : proc[g].pc \in {"idle", "derive", "done"}
  /\ \A c \in Checkpointers : proc[c].pc \in {"idle", "check", "write", "done"}
  /\ \A v \in CheckpointValidators :
       proc[v].pc \in {"idle", "lock", "check", "inputs", "compare", "done"}
  /\ \A n \in Planners \cup PlanValidators :
       proc[n].pc \in {"idle", "lock", "check", "stale", "read", "raw", "plan", "done"}
  /\ \A t \in Timelines :
       proc[t].pc \in {"idle", "derive", "prior", "json", "html", "torn", "done"}

\* What a process does next.
Step(p) ==
  \/ Derive(p) \/ BeginCheck(p) \/ Fail(p)
  \/ p \in Generators /\ (BeginHandoff(p) \/ DeriveAgain(p) \/ PublishHandoff(p))
  \/ p \in Checkpointers /\ (BeginCheckpoint(p) \/ CheckHandoff(p) \/ WriteCheckpoint(p))
  \/ /\ p \in CheckpointValidators
     /\ \/ CompareRevision(p) \/ CompareIndex(p)
        \/ \E r \in Revisions : BeginValidation(p, r)
        \/ \E i \in Inputs : ReadInput(p, i)
  \/ /\ p \in Planners \cup PlanValidators
     /\ \/ CheckForPlan(p) \/ ReadHandoff(p) \/ ReadRaw(p) \/ StaleActions(p)
        \/ BeginPlan(p) \/ WriteActions(p) \/ CompareActions(p)
  \/ p \in PlanValidators /\ BeginPlanCheck(p)
  \/ /\ p \in Timelines
     /\ \/ BeginTimeline(p) \/ DeriveTimelineAgain(p) \/ ReadPrior(p) \/ ReplaceJson(p)
        \/ ReplaceHtml(p) \/ Kill(p) \/ RestoreFails(p)

LEMMA StepsOfProcesses ==
  ASSUME [Next]_vars
  PROVE  \/ UNCHANGED vars
         \/ \E i \in Inputs : Write(i)
         \/ \E p \in Processes : Step(p)
BY DEF Next, Step, Processes

-----------------------------------------------------------------------------
\* Types.
LEMMA BlankTyped ==
  /\ Blank \in Documents
  /\ NoActions \in Given
  /\ Fresh \in Procs
<1>1. Blank \in Documents
  BY DEF Blank, Documents, Versions
<1>2. NoActions \in Given
  BY <1>1 DEF NoActions, Actions, Given
<1> QED
  BY <1>1, <1>2 DEF Fresh, Procs, Places, Verdicts, Versions

LEMMA BecomesTyped ==
  ASSUME Typed, NEW p \in Processes, NEW s \in Procs, Becomes(p, s)
  PROVE  proc' \in [Processes -> Procs]
BY DEF Typed, Becomes

LEMMA BecomesIs ==
  ASSUME Typed, NEW p \in Processes, NEW s, Becomes(p, s)
  PROVE  proc'[p] = s
BY DEF Typed, Becomes

LEMMA EndsTyped ==
  ASSUME Typed, NEW p \in Processes, NEW verdict \in Verdicts, Ends(p, verdict)
  PROVE  proc' \in [Processes -> Procs]
BY BlankTyped DEF Typed, Ends, Becomes, Procs, Places

LEMMA TornTyped ==
  ASSUME Typed, NEW p \in Processes, Kill(p) \/ RestoreFails(p)
  PROVE  /\ proc' \in [Processes -> Procs]
         /\ proc[p].pc = "html" /\ proc'[p].pc = "torn"
         /\ timeline' = timeline
<1>1. PICK verdict \in {"nothing", "failed"} : Torn(p, verdict)
  BY DEF Kill, RestoreFails
<1> DEFINE s == [Fresh EXCEPT !.pc = "torn", !.says = verdict]
<1>2. s \in Procs /\ s.pc = "torn"
  BY <1>1, BlankTyped DEF Procs, Places, Verdicts
<1>3. Becomes(p, s) /\ proc[p].pc = "html" /\ timeline' = timeline
  BY <1>1 DEF Torn, UnchangedFiles
<1> QED
  BY <1>2, <1>3, BecomesTyped, BecomesIs

LEMMA DeriveTyped ==
  ASSUME Typed, NEW p \in Processes, Derive(p)
  PROVE  proc' \in [Processes -> Procs] /\ lock' = lock /\ UnchangedFiles /\ UnchangedWorld
<1> DEFINE k == CHOOSE k \in DOMAIN Order :
                  /\ proc[p].got.digest[Order[k]] = 0
                  /\ \A j \in 1..(k - 1) : proc[p].got.digest[Order[j]] # 0
           i == Order[k]
<1>1. proc' = [proc EXCEPT ![p] = IF proc[p].got.content[i] = 0
                                  THEN [proc[p] EXCEPT !.got.content[i] = world[i]]
                                  ELSE [proc[p] EXCEPT !.got.digest[i] = world[i]]]
  BY DEF Derive, Becomes
<1> HIDE DEF i
<1>2. proc[p] \in Procs /\ proc[p].got \in Documents
  BY DEF Typed, Procs
<1>3. /\ [proc[p].got.content EXCEPT ![i] = world[i]] \in Versions
      /\ [proc[p].got.digest EXCEPT ![i] = world[i]] \in Versions
  BY <1>2 DEF Documents, Versions, Typed
<1>4. /\ [proc[p] EXCEPT !.got.content[i] = world[i]] \in Procs
      /\ [proc[p] EXCEPT !.got.digest[i] = world[i]] \in Procs
  BY <1>2, <1>3 DEF Procs, Documents
<1> QED
  BY <1>1, <1>4 DEF Derive, Typed

LEMMA ProcTyped ==
  ASSUME Typed, NEW p \in Processes, Step(p)
  PROVE  proc' \in [Processes -> Procs]
<1> DEFINE Q == proc' \in [Processes -> Procs]
<1>1. proc[p] \in Procs
  BY DEF Typed
<1>2. CASE Derive(p)
  BY <1>2, DeriveTyped
<1>3. CASE BeginCheck(p)
  BY <1>1, <1>3, BlankTyped DEF BeginCheck, Becomes, Typed, Procs, Places
<1>4. CASE Fail(p)
  BY <1>4, EndsTyped DEF Fail, Verdicts
<1>5. CASE BeginHandoff(p) \/ DeriveAgain(p) \/ PublishHandoff(p)
  <2>1. CASE BeginHandoff(p)
    BY <2>1, BlankTyped DEF BeginHandoff, Becomes, Typed, Procs, Places
  <2>2. CASE DeriveAgain(p)
    <3>1. [proc[p] EXCEPT !.round = 2, !.first = proc[p].got, !.got = Blank] \in Procs
      BY <1>1, BlankTyped DEF Procs
    <3> QED
      BY <2>2, <3>1, BecomesTyped, EndsTyped DEF DeriveAgain, Verdicts
  <2>3. CASE PublishHandoff(p)
    BY <2>3, EndsTyped DEF PublishHandoff, Verdicts
  <2> QED
    BY <1>5, <2>1, <2>2, <2>3
<1>6. CASE BeginCheckpoint(p) \/ CheckHandoff(p) \/ WriteCheckpoint(p)
  <2>1. CASE BeginCheckpoint(p)
    BY <2>1, BlankTyped DEF BeginCheckpoint, Becomes, Typed, Procs, Places
  <2>2. CASE CheckHandoff(p)
    <3>1. /\ [proc[p] EXCEPT !.round = 2, !.first = handoff, !.seen = handoff, !.got = Blank]
               \in Procs
          /\ [proc[p] EXCEPT !.pc = "write"] \in Procs
      BY <1>1, BlankTyped DEF Typed, Procs, Places
    <3> QED
      BY <2>2, <3>1, BecomesTyped, EndsTyped DEF CheckHandoff, Verdicts
  <2>3. CASE WriteCheckpoint(p)
    BY <2>3, EndsTyped DEF WriteCheckpoint, Verdicts
  <2> QED
    BY <1>6, <2>1, <2>2, <2>3
<1>7. CASE CompareRevision(p) \/ CompareIndex(p)
  <2>1. CASE CompareRevision(p)
    <3>1. \A pc \in {"inputs", "compare"} : [proc[p] EXCEPT !.pc = pc, !.got = Blank] \in Procs
      BY <1>1, BlankTyped DEF Procs, Places
    <3> QED
      BY <2>1, <3>1, BecomesTyped, EndsTyped DEF CompareRevision, Verdicts
  <2>2. CASE CompareIndex(p)
    BY <2>2, EndsTyped DEF CompareIndex, Verdicts
  <2> QED
    BY <1>7, <2>1, <2>2
<1>8. ASSUME NEW r \in Revisions, BeginValidation(p, r) PROVE Q
  <2>1. Actions("checkpoint", checkpoints[r].of, checkpoints[r].sha) \in Given
    BY DEF Actions, Given, Typed
  <2> QED
    BY <1>8, <2>1, BlankTyped DEF BeginValidation, Becomes, Typed, Procs, Places
<1>9. ASSUME NEW i \in Inputs, ReadInput(p, i) PROVE Q
  <2>1. proc[p].got \in Documents
    BY <1>1 DEF Procs
  <2>2. [proc[p].got.digest EXCEPT ![i] = world[i]] \in Versions
    BY <2>1 DEF Documents, Versions, Typed
  <2>3. [proc[p] EXCEPT !.got.digest[i] = world[i]] \in Procs
    BY <1>1, <2>1, <2>2 DEF Procs, Documents
  <2> QED
    BY <1>9, <2>3, EndsTyped, BecomesTyped DEF ReadInput, Verdicts
<1>10. CASE CheckForPlan(p) \/ ReadHandoff(p) \/ ReadRaw(p) \/ StaleActions(p)
  <2>1. CASE CheckForPlan(p)
    <3>1. /\ \A pc \in {"read", "plan"} : [proc[p] EXCEPT !.pc = pc] \in Procs
          /\ [proc[p] EXCEPT !.pc = "stale", !.got = Blank] \in Procs
      BY <1>1, BlankTyped DEF Procs, Places
    <3> QED
      BY <2>1, <3>1, BecomesTyped, EndsTyped DEF CheckForPlan, Verdicts
  <2>2. CASE ReadHandoff(p)
    <3>1. [proc[p] EXCEPT !.pc = "raw", !.first = handoff] \in Procs
      BY <1>1 DEF Typed, Procs, Places
    <3> QED
      BY <2>2, <3>1, BecomesTyped, EndsTyped DEF ReadHandoff, Verdicts
  <2>3. CASE ReadRaw(p)
    <3>1. Actions("actions", proc[p].first, handoff) \in Given
      BY <1>1 DEF Actions, Given, Typed, Procs
    <3> QED
      BY <1>1, <2>3, <3>1 DEF ReadRaw, Becomes, Typed, Procs, Places
  <2>4. CASE StaleActions(p)
    <3>1. Actions("stale", proc[p].got, handoff) \in Given
      BY <1>1 DEF Actions, Given, Typed, Procs
    <3> QED
      BY <1>1, <2>4, <3>1 DEF StaleActions, Becomes, Typed, Procs, Places
  <2> QED
    BY <1>10, <2>1, <2>2, <2>3, <2>4
<1>11. CASE BeginPlan(p) \/ BeginPlanCheck(p) \/ BeginTimeline(p)
  <2>1. /\ \A pc \in {"lock", "derive"} : [Fresh EXCEPT !.pc = pc] \in Procs
        /\ [Fresh EXCEPT !.pc = "lock", !.given = nextActions] \in Procs
    BY BlankTyped DEF Typed, Procs, Places
  <2> QED
    BY <1>11, <2>1, BecomesTyped DEF BeginPlan, BeginPlanCheck, BeginTimeline
<1>12. CASE WriteActions(p) \/ CompareActions(p)
  BY <1>12, EndsTyped DEF WriteActions, CompareActions, Verdicts
<1>13. CASE DeriveTimelineAgain(p) \/ ReadPrior(p)
  <2>1. /\ [proc[p] EXCEPT !.round = 2, !.first = proc[p].got, !.got = Blank] \in Procs
        /\ [proc[p] EXCEPT !.pc = "prior"] \in Procs
        /\ [proc[p] EXCEPT !.pc = "json", !.seen = timeline.json] \in Procs
    BY <1>1, BlankTyped DEF Typed, Procs, Places
  <2> QED
    BY <1>13, <2>1, BecomesTyped, EndsTyped DEF DeriveTimelineAgain, ReadPrior, Verdicts
<1>14. CASE ReplaceJson(p) \/ ReplaceHtml(p)
  BY <1>1, <1>14, EndsTyped
  DEF ReplaceJson, ReplaceHtml, Becomes, Typed, Procs, Places, Verdicts
<1>15. CASE Kill(p) \/ RestoreFails(p)
  BY <1>15, TornTyped
<1> QED
  BY <1>2, <1>3, <1>4, <1>5, <1>6, <1>7, <1>8, <1>9, <1>10, <1>11, <1>12, <1>13, <1>14, <1>15
  DEF Step

\* A step of one process leaves what the others remember, and a lock another one has.
LEMMA OthersStay ==
  ASSUME Typed, NEW p \in Processes, Step(p), NEW q \in Processes, q # p
  PROVE  proc'[q] = proc[q] /\ (lock = q => lock' = q)
<1>1. None \notin Processes
  BY ProjectionsAssumption
<1>2. proc'[q] = proc[q]
  BY DEF Step, Typed, Derive, BeginCheck, Fail, BeginHandoff, DeriveAgain, PublishHandoff,
         BeginCheckpoint, CheckHandoff, WriteCheckpoint, CompareRevision, CompareIndex,
         BeginValidation, ReadInput, CheckForPlan, ReadHandoff, ReadRaw, StaleActions, BeginPlan,
         WriteActions, CompareActions, BeginPlanCheck, BeginTimeline, DeriveTimelineAgain,
         ReadPrior, ReplaceJson, ReplaceHtml, Kill, RestoreFails, Torn, Ends, Becomes
<1>3. lock = q => lock' = q
  BY <1>1
     DEF Step, Typed, Derive, BeginCheck, Fail, BeginHandoff, DeriveAgain, PublishHandoff,
         BeginCheckpoint, CheckHandoff, WriteCheckpoint, CompareRevision, CompareIndex,
         BeginValidation, ReadInput, CheckForPlan, ReadHandoff, ReadRaw, StaleActions, BeginPlan,
         WriteActions, CompareActions, BeginPlanCheck, BeginTimeline, DeriveTimelineAgain,
         ReadPrior, ReplaceJson, ReplaceHtml, Kill, RestoreFails, Torn, Takes, Gives
<1> QED
  BY <1>2, <1>3

\* What else a step changes, and who changes it.
LEMMA ChangedFiles ==
  ASSUME NEW p \in Processes, Step(p)
  PROVE  /\ world' = world /\ worlds' = worlds
         /\ lock' \in {lock, p, None}
         /\ handoff' = handoff \/ (p \in Generators /\ PublishHandoff(p))
         /\ checkpoints' = checkpoints \/ (p \in Checkpointers /\ WriteCheckpoint(p))
         /\ nextActions' = nextActions \/ WriteActions(p)
         /\ \/ timeline' = timeline
            \/ Fail(p)
            \/ p \in Timelines /\ (ReplaceJson(p) \/ ReplaceHtml(p))
BY DEF Step, Derive, BeginCheck, Fail, BeginHandoff, DeriveAgain, PublishHandoff,
       BeginCheckpoint, CheckHandoff, WriteCheckpoint, CompareRevision, CompareIndex,
       BeginValidation, ReadInput, CheckForPlan, ReadHandoff, ReadRaw, StaleActions, BeginPlan,
       WriteActions, CompareActions, BeginPlanCheck, BeginTimeline, DeriveTimelineAgain,
       ReadPrior, ReplaceJson, ReplaceHtml, Kill, RestoreFails, Torn, Takes, Gives, UnchangedFiles, UnchangedWorld

LEMMA TypedStep ==
  ASSUME Typed, [Next]_vars
  PROVE  Typed'
<1>1. CASE UNCHANGED vars
  BY <1>1 DEF vars, Typed
<1>2. ASSUME NEW i \in Inputs, Write(i) PROVE Typed'
  <2>1. world' \in Versions
    BY <1>2 DEF Write, Typed, Versions
  <2> QED
    BY <1>2, <2>1 DEF Write, Typed, UnchangedFiles
<1>3. ASSUME NEW p \in Processes, Step(p) PROVE Typed'
  <2>1. proc[p] \in Procs
    BY DEF Typed
  <2>2. handoff' \in Documents
    BY <1>3, <2>1, ChangedFiles DEF PublishHandoff, Typed, Procs
  <2>3. checkpoints' \in [Revisions -> [of : Documents, sha : Documents]]
    <3>1. CASE WriteCheckpoint(p)
      <4>1. Index(proc[p].first, handoff) \in [of : Documents, sha : Documents]
        BY <2>1 DEF Index, Typed, Procs
      <4> QED
        BY <3>1, <4>1 DEF WriteCheckpoint, Typed
    <3> QED
      BY <1>3, <3>1, ChangedFiles DEF Typed
  <2>4. nextActions' \in Given
    BY <1>3, <2>1, ChangedFiles DEF WriteActions, Typed, Procs
  <2>5. timeline' \in [json : Documents, html : Documents]
    BY <1>3, <2>1, ChangedFiles DEF Fail, Restored, ReplaceJson, ReplaceHtml, Typed, Procs
  <2>6. lock' \in Processes \cup {None} /\ world' \in Versions /\ worlds' \subseteq Versions
    BY <1>3, ChangedFiles DEF Typed
  <2> QED
    BY <1>3, <2>2, <2>3, <2>4, <2>5, <2>6, ProcTyped DEF Typed
<1> QED
  BY <1>1, <1>2, <1>3, StepsOfProcesses

\* What Derive does: nothing, or one more reading of an input, whichever is the next.
LEMMA DeriveDoes ==
  ASSUME Typed, NEW p \in Processes, Derive(p)
  PROVE  /\ proc[p].pc \in {"derive", "check", "stale"}
         /\ \E d \in Documents :
              /\ proc'[p] = [proc[p] EXCEPT !.got = d]
              /\ \A j \in Inputs :
                   \/ d.content[j] = proc[p].got.content[j] /\ d.digest[j] = proc[p].got.digest[j]
                   \/ /\ proc[p].got.content[j] = 0
                      /\ d.content[j] = world[j] /\ d.digest[j] = proc[p].got.digest[j]
                   \/ /\ proc[p].got.content[j] # 0
                      /\ d.content[j] = proc[p].got.content[j] /\ d.digest[j] = world[j]
<1> DEFINE k == CHOOSE k \in DOMAIN Order :
                  /\ proc[p].got.digest[Order[k]] = 0
                  /\ \A j \in 1..(k - 1) : proc[p].got.digest[Order[j]] # 0
           i == Order[k]
           old == proc[p].got
<1>1. proc' = [proc EXCEPT ![p] = IF proc[p].got.content[i] = 0
                                  THEN [proc[p] EXCEPT !.got.content[i] = world[i]]
                                  ELSE [proc[p] EXCEPT !.got.digest[i] = world[i]]]
  BY DEF Derive, Becomes
<1> HIDE DEF i
<1>2. proc[p] \in Procs /\ old \in Documents /\ world \in Versions
  BY DEF Typed, Procs
<1> DEFINE c == [old EXCEPT !.content[i] = world[i]]
           d == [old EXCEPT !.digest[i] = world[i]]
<1>3. /\ [old.content EXCEPT ![i] = world[i]] \in Versions
      /\ [old.digest EXCEPT ![i] = world[i]] \in Versions
  BY <1>2 DEF Documents, Versions
<1>4. c \in Documents /\ d \in Documents
  BY <1>2, <1>3 DEF Documents
<1>5. /\ old.content[i] = 0 => proc'[p] = [proc[p] EXCEPT !.got = c]
      /\ old.content[i] # 0 => proc'[p] = [proc[p] EXCEPT !.got = d]
  BY <1>1, <1>2 DEF Typed, Procs
<1>6. \A j \in Inputs : /\ c.digest = old.digest
                        /\ c.content[j] = IF j = i THEN world[i] ELSE old.content[j]
  BY <1>2 DEF Documents, Versions
<1>7. \A j \in Inputs : /\ d.content = old.content
                        /\ d.digest[j] = IF j = i THEN world[i] ELSE old.digest[j]
  BY <1>2 DEF Documents, Versions
<1>8. proc[p].pc \in {"derive", "check", "stale"}
  BY DEF Derive
<1> HIDE DEF c, d
<1>9. CASE old.content[i] = 0
  BY <1>4, <1>5, <1>6, <1>8, <1>9
<1>10. CASE old.content[i] # 0
  BY <1>4, <1>5, <1>7, <1>8, <1>10
<1> QED
  BY <1>9, <1>10

\* Of the calls that may be made anywhere, where they lead.
LEMMA CommonPlaces ==
  ASSUME Typed, NEW p \in Processes
  PROVE  /\ Derive(p) => proc'[p].pc = proc[p].pc
         /\ BeginCheck(p) => proc[p].pc = "lock" /\ proc'[p].pc = "check"
         /\ Fail(p) => proc'[p].pc = "done"
         /\ \A verdict : Ends(p, verdict) => proc'[p].pc = "done"
<1>1. proc[p] \in Procs
  BY DEF Typed
<1>2. Derive(p) => proc'[p].pc = proc[p].pc
  BY <1>1, DeriveDoes DEF Procs
<1>3. BeginCheck(p) => proc[p].pc = "lock" /\ proc'[p].pc = "check"
  BY <1>1 DEF BeginCheck, Becomes, Typed, Procs
<1>4. \A verdict : Ends(p, verdict) => proc'[p].pc = "done"
  BY DEF Ends, Becomes, Typed, Fresh
<1>5. Fail(p) => proc'[p].pc = "done"
  BY <1>4 DEF Fail
<1> QED
  BY <1>2, <1>3, <1>4, <1>5

\* Which steps a process of each command has.
LEMMA StepOfGenerators ==
  ASSUME NEW g \in Generators, Step(g)
  PROVE  \/ Derive(g) \/ BeginCheck(g) \/ Fail(g)
         \/ BeginHandoff(g) \/ DeriveAgain(g) \/ PublishHandoff(g)
BY RolesAssumption DEF Step

LEMMA StepOfCheckpointers ==
  ASSUME NEW c \in Checkpointers, Step(c)
  PROVE  \/ Derive(c) \/ BeginCheck(c) \/ Fail(c)
         \/ BeginCheckpoint(c) \/ CheckHandoff(c) \/ WriteCheckpoint(c)
BY RolesAssumption DEF Step

LEMMA StepOfValidators ==
  ASSUME NEW v \in CheckpointValidators, Step(v)
  PROVE  \/ Derive(v) \/ BeginCheck(v) \/ Fail(v)
         \/ CompareRevision(v) \/ CompareIndex(v)
         \/ \E r \in Revisions : BeginValidation(v, r)
         \/ \E i \in Inputs : ReadInput(v, i)
BY RolesAssumption DEF Step

LEMMA StepOfPlanners ==
  ASSUME NEW n \in Planners \cup PlanValidators, Step(n)
  PROVE  \/ Derive(n) \/ BeginCheck(n) \/ Fail(n)
         \/ CheckForPlan(n) \/ ReadHandoff(n) \/ ReadRaw(n) \/ StaleActions(n)
         \/ BeginPlan(n) \/ BeginPlanCheck(n) \/ WriteActions(n) \/ CompareActions(n)
BY RolesAssumption DEF Step

LEMMA StepOfTimelines ==
  ASSUME NEW t \in Timelines, Step(t)
  PROVE  \/ Derive(t) \/ BeginCheck(t) \/ Fail(t)
         \/ BeginTimeline(t) \/ DeriveTimelineAgain(t) \/ ReadPrior(t) \/ ReplaceJson(t)
         \/ ReplaceHtml(t) \/ Kill(t) \/ RestoreFails(t)
BY RolesAssumption DEF Step

LEMMA RolesStep ==
  ASSUME Typed, Roles, [Next]_vars
  PROVE  Roles'
<1>1. CASE UNCHANGED vars
  BY <1>1 DEF vars, Roles
<1>2. ASSUME NEW i \in Inputs, Write(i) PROVE Roles'
  BY <1>2 DEF Write, Roles
<1>3. ASSUME NEW p \in Processes, Step(p) PROVE Roles'
  <2>0. proc[p] \in Procs
    BY DEF Typed
  <2>1. \A q \in Processes : q # p => proc'[q] = proc[q]
    BY <1>3, OthersStay
  <2>2. p \in Generators => proc'[p].pc \in {"idle", "derive", "done"}
    <3> SUFFICES ASSUME p \in Generators
                 PROVE  proc'[p].pc \in {"idle", "derive", "done"}
      OBVIOUS
    <3>1. CASE Derive(p) \/ BeginCheck(p) \/ Fail(p)
      BY <3>1, CommonPlaces DEF Roles
    <3>2. CASE BeginHandoff(p)
      BY <2>0, <3>2, CommonPlaces DEF BeginHandoff, Typed, Procs, Becomes, Fresh
    <3>3. CASE DeriveAgain(p)
      <4>1. \/ \E verdict : Ends(p, verdict)
            \/ Becomes(p, [proc[p] EXCEPT !.round = 2, !.first = proc[p].got, !.got = Blank])
        BY <3>3 DEF DeriveAgain
      <4> QED
        BY <2>0, <3>3, <4>1, BecomesIs, CommonPlaces DEF DeriveAgain, Procs
    <3>4. CASE PublishHandoff(p)
      BY <2>0, <3>4, CommonPlaces DEF PublishHandoff, Typed, Procs, Becomes, Fresh
    <3> QED
      BY <1>3, <3>1, <3>2, <3>3, <3>4, StepOfGenerators
  <2>3. p \in Checkpointers => proc'[p].pc \in {"idle", "check", "write", "done"}
    <3> SUFFICES ASSUME p \in Checkpointers
                 PROVE  proc'[p].pc \in {"idle", "check", "write", "done"}
      OBVIOUS
    <3>1. CASE Derive(p) \/ BeginCheck(p) \/ Fail(p)
      BY <3>1, CommonPlaces DEF Roles
    <3>2. CASE BeginCheckpoint(p)
      BY <2>0, <3>2, CommonPlaces DEF BeginCheckpoint, Typed, Procs, Becomes, Fresh
    <3>3. CASE CheckHandoff(p)
      <4>1. \/ \E verdict : Ends(p, verdict)
            \/ Becomes(p, [proc[p] EXCEPT !.round = 2, !.first = handoff, !.seen = handoff,
                             !.got = Blank])
            \/ Becomes(p, [proc[p] EXCEPT !.pc = "write"])
        BY <3>3 DEF CheckHandoff
      <4> QED
        BY <2>0, <3>3, <4>1, BecomesIs, CommonPlaces DEF CheckHandoff, Checked, Procs
    <3>4. CASE WriteCheckpoint(p)
      BY <2>0, <3>4, CommonPlaces DEF WriteCheckpoint, Typed, Procs, Becomes, Fresh
    <3> QED
      BY <1>3, <3>1, <3>2, <3>3, <3>4, StepOfCheckpointers
  <2>4. p \in CheckpointValidators =>
          proc'[p].pc \in {"idle", "lock", "check", "inputs", "compare", "done"}
    <3> SUFFICES ASSUME p \in CheckpointValidators
                 PROVE  proc'[p].pc \in {"idle", "lock", "check", "inputs", "compare", "done"}
      OBVIOUS
    <3>1. CASE Derive(p) \/ BeginCheck(p) \/ Fail(p)
      BY <3>1, CommonPlaces DEF Roles
    <3>2. CASE CompareRevision(p)
      <4>1. \/ \E verdict : Ends(p, verdict)
            \/ Becomes(p, [proc[p] EXCEPT !.pc = "inputs", !.got = Blank])
            \/ Becomes(p, [proc[p] EXCEPT !.pc = "compare", !.got = Blank])
        BY <3>2 DEF CompareRevision
      <4> QED
        BY <2>0, <3>2, <4>1, BecomesIs, CommonPlaces DEF CompareRevision, Procs
    <3>3. CASE CompareIndex(p)
      BY <2>0, <3>3, CommonPlaces DEF CompareIndex, Typed, Procs, Becomes, Fresh
    <3>4. ASSUME NEW r \in Revisions, BeginValidation(p, r)
          PROVE  proc'[p].pc \in {"idle", "lock", "check", "inputs", "compare", "done"}
      BY <2>0, <3>4, CommonPlaces DEF BeginValidation, Typed, Procs, Becomes, Fresh
    <3>5. ASSUME NEW i \in Inputs, ReadInput(p, i)
          PROVE  proc'[p].pc \in {"idle", "lock", "check", "inputs", "compare", "done"}
      BY <2>0, <3>5, CommonPlaces DEF ReadInput, Typed, Procs, Becomes, Fresh
    <3> QED
      BY <1>3, <3>1, <3>2, <3>3, <3>4, <3>5, StepOfValidators
  <2>5. p \in Planners \cup PlanValidators =>
          proc'[p].pc \in {"idle", "lock", "check", "stale", "read", "raw", "plan", "done"}
    <3> SUFFICES ASSUME p \in Planners \cup PlanValidators
                 PROVE  proc'[p].pc \in {"idle", "lock", "check", "stale", "read", "raw", "plan", "done"}
      OBVIOUS
    <3>1. CASE Derive(p) \/ BeginCheck(p) \/ Fail(p)
      BY <3>1, CommonPlaces DEF Roles
    <3>2. CASE CheckForPlan(p)
      <4>1. \/ \E verdict : Ends(p, verdict)
            \/ Becomes(p, [proc[p] EXCEPT !.pc = "read"])
            \/ Becomes(p, [proc[p] EXCEPT !.pc = "plan"])
            \/ Becomes(p, [proc[p] EXCEPT !.pc = "stale", !.got = Blank])
        BY <3>2 DEF CheckForPlan
      <4> QED
        BY <2>0, <3>2, <4>1, BecomesIs, CommonPlaces DEF CheckForPlan, Procs
    <3>3. CASE ReadHandoff(p)
      <4>1. \/ \E verdict : Ends(p, verdict)
            \/ Becomes(p, [proc[p] EXCEPT !.pc = "raw", !.first = handoff])
        BY <3>3 DEF ReadHandoff
      <4> QED
        BY <2>0, <3>3, <4>1, BecomesIs, CommonPlaces DEF ReadHandoff, Procs
    <3>4. CASE ReadRaw(p)
      BY <2>0, <3>4, CommonPlaces DEF ReadRaw, Typed, Procs, Becomes, Fresh
    <3>5. CASE StaleActions(p)
      BY <2>0, <3>5, CommonPlaces DEF StaleActions, Typed, Procs, Becomes, Fresh
    <3>6. CASE BeginPlan(p)
      BY <2>0, <3>6, CommonPlaces DEF BeginPlan, Typed, Procs, Becomes, Fresh
    <3>7. CASE BeginPlanCheck(p)
      BY <2>0, <3>7, CommonPlaces DEF BeginPlanCheck, Typed, Procs, Becomes, Fresh
    <3>8. CASE WriteActions(p)
      BY <2>0, <3>8, CommonPlaces DEF WriteActions, Typed, Procs, Becomes, Fresh
    <3>9. CASE CompareActions(p)
      BY <2>0, <3>9, CommonPlaces DEF CompareActions, Typed, Procs, Becomes, Fresh
    <3> QED
      BY <1>3, <3>1, <3>2, <3>3, <3>4, <3>5, <3>6, <3>7, <3>8, <3>9, StepOfPlanners
  <2>6. p \in Timelines =>
          proc'[p].pc \in {"idle", "derive", "prior", "json", "html", "torn", "done"}
    <3> SUFFICES ASSUME p \in Timelines
                 PROVE  proc'[p].pc \in {"idle", "derive", "prior", "json", "html", "torn", "done"}
      OBVIOUS
    <3>1. CASE Derive(p) \/ BeginCheck(p) \/ Fail(p)
      BY <3>1, CommonPlaces DEF Roles
    <3>2. CASE BeginTimeline(p)
      BY <2>0, <3>2, CommonPlaces DEF BeginTimeline, Typed, Procs, Becomes, Fresh
    <3>3. CASE DeriveTimelineAgain(p)
      <4>1. \/ \E verdict : Ends(p, verdict)
            \/ Becomes(p, [proc[p] EXCEPT !.round = 2, !.first = proc[p].got, !.got = Blank])
            \/ Becomes(p, [proc[p] EXCEPT !.pc = "prior"])
        BY <3>3 DEF DeriveTimelineAgain
      <4> QED
        BY <2>0, <3>3, <4>1, BecomesIs, CommonPlaces DEF DeriveTimelineAgain, Procs
    <3>4. CASE ReadPrior(p)
      <4>1. \/ \E verdict : Ends(p, verdict)
            \/ Becomes(p, [proc[p] EXCEPT !.pc = "json", !.seen = timeline.json])
        BY <3>4 DEF ReadPrior
      <4> QED
        BY <2>0, <3>4, <4>1, BecomesIs, CommonPlaces DEF ReadPrior, Procs
    <3>5. CASE ReplaceJson(p)
      BY <2>0, <3>5, CommonPlaces DEF ReplaceJson, Typed, Procs, Becomes, Fresh
    <3>6. CASE ReplaceHtml(p)
      BY <2>0, <3>6, CommonPlaces DEF ReplaceHtml, Typed, Procs, Becomes, Fresh
    <3>7. CASE Kill(p) \/ RestoreFails(p)
      BY <3>7, TornTyped
    <3> QED
      BY <1>3, <3>1, <3>2, <3>3, <3>4, <3>5, <3>6, <3>7, StepOfTimelines
  <2> QED
    BY <2>1, <2>2, <2>3, <2>4, <2>5, <2>6 DEF Roles, Processes
<1> QED
  BY <1>1, <1>2, <1>3, StepsOfProcesses

-----------------------------------------------------------------------------
(* What is read while the inputs are written *)

Below(f, h) == \A i \in Inputs : f[i] <= h[i]

\* What was read of an input is not ahead of it, and its digest not behind what it said.
ReadSoFar(d, w) ==
  \A i \in Inputs :
    /\ d.content[i] <= w[i] /\ d.digest[i] <= w[i]
    /\ d.digest[i] # 0 => d.content[i] # 0 /\ d.content[i] <= d.digest[i]

\* There was an instant behind all that is named and before all that was read.
Between(named, d, ws) ==
  \E w \in ws : \A i \in Inputs :
    /\ named[i] <= w[i]
    /\ d.content[i] # 0 => w[i] <= d.content[i]
    /\ d.digest[i] # 0 => w[i] <= d.digest[i]

WorldInv ==
  /\ world \in worlds
  /\ \A w \in worlds : Below(w, world)
  /\ \A i \in Inputs : world[i] # 0

LEMMA WorldStep ==
  ASSUME Typed, WorldInv, [Next]_vars
  PROVE  WorldInv' /\ Below(world, world') /\ worlds \subseteq worlds'
<1>1. CASE UNCHANGED vars
  BY <1>1 DEF vars, WorldInv, Below, Typed, Versions
<1>2. ASSUME NEW i \in Inputs, Write(i)
      PROVE  WorldInv' /\ Below(world, world') /\ worlds \subseteq worlds'
  <2>1. world' = [world EXCEPT ![i] = @ + 1] /\ worlds' = worlds \cup {world'}
    BY <1>2 DEF Write
  <2>2. world' \in Versions /\ Below(world, world') /\ \A j \in Inputs : world'[j] # 0
    BY <2>1 DEF Typed, Versions, Below, WorldInv
  <2>3. \A w \in worlds' : Below(w, world')
    BY <2>1, <2>2 DEF Typed, Versions, Below, WorldInv
  <2> QED
    BY <2>1, <2>2, <2>3 DEF WorldInv
<1>3. ASSUME NEW p \in Processes, Step(p)
      PROVE  WorldInv' /\ Below(world, world') /\ worlds \subseteq worlds'
  BY <1>3, ChangedFiles DEF WorldInv, Below, Typed, Versions
<1> QED
  BY <1>1, <1>2, <1>3, StepsOfProcesses

LEMMA ReadBlank ==
  /\ \A w \in Versions : ReadSoFar(Blank, w)
  /\ \A w \in Versions, named \in Versions, ws \in SUBSET Versions :
       w \in ws /\ Below(named, w) => Between(named, Blank, ws)
BY DEF ReadSoFar, Between, Below, Blank, Versions

LEMMA ReadLater ==
  ASSUME NEW d \in Documents, NEW w \in Versions, NEW w2 \in Versions,
         ReadSoFar(d, w), Below(w, w2)
  PROVE  ReadSoFar(d, w2)
BY DEF ReadSoFar, Below, Documents, Versions

LEMMA BetweenLater ==
  ASSUME NEW named, NEW d, NEW ws, NEW ws2, Between(named, d, ws), ws \subseteq ws2
  PROVE  Between(named, d, ws2)
BY DEF Between

\* One more reading keeps both.
LEMMA DeriveReads ==
  ASSUME Typed, WorldInv, NEW p \in Processes, Derive(p)
  PROVE  /\ ReadSoFar(proc[p].got, world) => ReadSoFar(proc'[p].got, world)
         /\ \A named \in Versions :
              Between(named, proc[p].got, worlds) => Between(named, proc'[p].got, worlds)
         /\ \A f \in Versions :
              /\ Below(f, world)
              /\ \A i \in Inputs : proc[p].got.digest[i] # 0 => f[i] <= proc[p].got.digest[i]
              => \A i \in Inputs : proc'[p].got.digest[i] # 0 => f[i] <= proc'[p].got.digest[i]
<1>1. PICK d \in Documents :
        /\ proc'[p] = [proc[p] EXCEPT !.got = d]
        /\ \A j \in Inputs :
             \/ d.content[j] = proc[p].got.content[j] /\ d.digest[j] = proc[p].got.digest[j]
             \/ /\ proc[p].got.content[j] = 0
                /\ d.content[j] = world[j] /\ d.digest[j] = proc[p].got.digest[j]
             \/ /\ proc[p].got.content[j] # 0
                /\ d.content[j] = proc[p].got.content[j] /\ d.digest[j] = world[j]
  BY DeriveDoes
<1>2. proc[p] \in Procs /\ proc[p].got \in Documents /\ world \in Versions
  BY DEF Typed, Procs
<1>3. proc'[p].got = d
  BY <1>1, <1>2 DEF Procs
<1>4. ReadSoFar(proc[p].got, world) => ReadSoFar(d, world)
  BY <1>1, <1>2 DEF ReadSoFar, Documents, Versions, WorldInv
<1>5. ASSUME NEW named \in Versions, Between(named, proc[p].got, worlds)
      PROVE  Between(named, d, worlds)
  <2>1. PICK w \in worlds : \A i \in Inputs :
          /\ named[i] <= w[i]
          /\ proc[p].got.content[i] # 0 => w[i] <= proc[p].got.content[i]
          /\ proc[p].got.digest[i] # 0 => w[i] <= proc[p].got.digest[i]
    BY <1>5 DEF Between
  <2>2. \A i \in Inputs : w[i] <= world[i]
    BY DEF WorldInv, Below
  <2>3. \A i \in Inputs : /\ named[i] <= w[i]
                          /\ d.content[i] # 0 => w[i] <= d.content[i]
                          /\ d.digest[i] # 0 => w[i] <= d.digest[i]
    BY <1>1, <2>1, <2>2
  <2> QED
    BY <2>3 DEF Between
<1>6. ASSUME NEW f \in Versions, Below(f, world),
             \A i \in Inputs : proc[p].got.digest[i] # 0 => f[i] <= proc[p].got.digest[i]
      PROVE  \A i \in Inputs : d.digest[i] # 0 => f[i] <= d.digest[i]
  BY <1>1, <1>6 DEF Below
<1> QED
  BY <1>3, <1>4, <1>5, <1>6

\* What was read is what was named: it was all there at once, and the contents are of these bytes.
LEMMA TwiceTheSame ==
  ASSUME NEW d \in Documents, NEW w \in Versions, NEW ws \in SUBSET Versions,
         Complete(d), ReadSoFar(d, w), Between(d.digest, d, ws)
  PROVE  d.digest \in ws /\ d.content = d.digest
<1>1. PICK v \in ws : \A i \in Inputs :
        /\ d.digest[i] <= v[i]
        /\ d.content[i] # 0 => v[i] <= d.content[i]
        /\ d.digest[i] # 0 => v[i] <= d.digest[i]
  BY DEF Between
<1>2. v \in Versions /\ d.digest \in Versions /\ d.content \in Versions
  BY DEF Documents
<1>3. \A i \in Inputs : d.digest[i] = v[i] /\ d.content[i] = v[i]
  BY <1>1, <1>2 DEF Complete, ReadSoFar, Versions
<1>4. d.digest = v /\ d.content = v
  BY <1>2, <1>3 DEF Versions
<1> QED
  BY <1>4

-----------------------------------------------------------------------------
(* The handoff *)

\* A generator has the lock.  Behind the first derivation there was an instant at which the inputs
\* were no older than it says and no newer than what the second has read.
GeneratorAt(g) ==
  proc[g].pc = "derive" =>
    /\ lock = g
    /\ ReadSoFar(proc[g].got, world)
    /\ proc[g].round = 2 => Between(proc[g].first.digest, proc[g].got, worlds)

HandoffInv ==
  /\ Typed /\ Roles /\ WorldInv
  /\ \A g \in Generators : GeneratorAt(g)
  /\ HandoffIsSnapshot

\* A process that does nothing itself keeps what it has read.
LEMMA GeneratorStays ==
  ASSUME Typed, WorldInv, [Next]_vars, NEW g \in Generators, GeneratorAt(g),
         proc'[g] = proc[g], lock = g => lock' = g
  PROVE  GeneratorAt(g)'
<1>1. world \in Versions /\ world' \in Versions /\ Below(world, world') /\ worlds \subseteq worlds'
  BY TypedStep, WorldStep DEF Typed
<1>2. proc[g].got \in Documents
  BY DEF Typed, Procs, Processes
<1> QED
  BY <1>1, <1>2, ReadLater, BetweenLater DEF GeneratorAt

LEMMA GeneratorSteps ==
  ASSUME HandoffInv, NEW g \in Generators, Step(g)
  PROVE  GeneratorAt(g)'
<1> USE DEF HandoffInv
<1>0. g \in Processes /\ proc[g] \in Procs /\ world \in Versions /\ worlds \in SUBSET Versions
  BY DEF Typed, Processes
<1>1. world' = world /\ worlds' = worlds
  BY <1>0, ChangedFiles
<1>2. CASE Derive(g)
  <2>1. proc[g].first.digest \in Versions
    BY <1>0 DEF Procs, Documents
  <2>2. /\ proc'[g].pc = proc[g].pc /\ proc'[g].round = proc[g].round
        /\ proc'[g].first = proc[g].first
    BY <1>0, <1>2, DeriveDoes DEF Procs
  <2>3. lock' = lock
    BY <1>2 DEF Derive
  <2> QED
    BY <1>0, <1>1, <1>2, <2>1, <2>2, <2>3, DeriveReads DEF GeneratorAt
<1>3. CASE BeginCheck(g) \/ Fail(g) \/ PublishHandoff(g)
  <2>1. proc'[g].pc # "derive"
    BY <1>0, <1>3, CommonPlaces DEF PublishHandoff
  <2> QED
    BY <2>1 DEF GeneratorAt
<1>4. CASE BeginHandoff(g)
  <2>1. proc'[g] = [Fresh EXCEPT !.pc = "derive"] /\ lock' = g
    BY <1>0, <1>4, BecomesIs DEF BeginHandoff, Takes
  <2>2. proc'[g].got = Blank /\ proc'[g].round = 1
    BY <2>1 DEF Fresh
  <2> QED
    BY <1>0, <1>1, <2>1, <2>2, ReadBlank DEF GeneratorAt
<1>5. CASE DeriveAgain(g)
  <2>1. CASE Ends(g, "failed")
    BY <1>0, <2>1, CommonPlaces DEF GeneratorAt
  <2>2. CASE /\ Becomes(g, [proc[g] EXCEPT !.round = 2, !.first = proc[g].got, !.got = Blank])
             /\ lock' = lock
    <3>1. proc'[g] = [proc[g] EXCEPT !.round = 2, !.first = proc[g].got, !.got = Blank]
      BY <1>0, <2>2, BecomesIs
    <3>2. proc'[g].got = Blank /\ proc'[g].first = proc[g].got
      BY <1>0, <3>1 DEF Procs
    <3>3. proc[g].pc = "derive" /\ ReadSoFar(proc[g].got, world) /\ lock' = g
      BY <1>5, <2>2 DEF DeriveAgain, GeneratorAt
    <3>4. proc[g].got.digest \in Versions /\ Below(proc[g].got.digest, world)
      BY <1>0, <3>3 DEF Procs, Documents, ReadSoFar, Below
    <3> QED
      BY <1>0, <1>1, <3>2, <3>3, <3>4, ReadBlank DEF GeneratorAt, WorldInv
  <2> QED
    BY <1>5, <2>1, <2>2 DEF DeriveAgain
<1> QED
  BY <1>2, <1>3, <1>4, <1>5, StepOfGenerators

LEMMA HandoffInit == Init => HandoffInv
<1> SUFFICES ASSUME Init PROVE HandoffInv
  OBVIOUS
<1>1. world \in Versions /\ DocumentOf(world) \in Documents
  BY DEF Init, Versions, DocumentOf, Documents
<1>2. Typed
  <2>1. \A r \in Revisions : checkpoints[r] \in [of : Documents, sha : Documents]
    BY BlankTyped DEF Init, NoIndex, Index
  <2>2. checkpoints \in [Revisions -> [of : Documents, sha : Documents]]
    BY <2>1 DEF Init
  <2>3. proc \in [Processes -> Procs]
    BY BlankTyped DEF Init, Procs, Places
  <2> QED
    BY <1>1, <2>2, <2>3, BlankTyped DEF Init, Typed
<1>3. \A p \in Processes : proc[p].pc \in {"idle", "done"}
  BY DEF Init, Fresh
<1>4. Roles
  BY <1>3 DEF Roles, Processes
<1>5. WorldInv
  BY DEF Init, WorldInv, Below
<1>6. \A g \in Generators : GeneratorAt(g)
  BY <1>3 DEF GeneratorAt, Processes
<1>7. HandoffIsSnapshot
  BY DEF Init, HandoffIsSnapshot, DocumentOf
<1> QED
  BY <1>2, <1>4, <1>5, <1>6, <1>7 DEF HandoffInv

LEMMA HandoffStep == HandoffInv /\ [Next]_vars => HandoffInv'
<1> SUFFICES ASSUME HandoffInv, [Next]_vars PROVE HandoffInv'
  OBVIOUS
<1> USE DEF HandoffInv
<1>1. Typed' /\ Roles' /\ WorldInv' /\ worlds \subseteq worlds'
  BY TypedStep, RolesStep, WorldStep
<1>2. CASE UNCHANGED vars
  BY <1>2 DEF vars, Typed, Roles, WorldInv, GeneratorAt, HandoffIsSnapshot
<1>3. ASSUME NEW i \in Inputs, Write(i) PROVE HandoffInv'
  <2>1. \A g \in Generators : GeneratorAt(g)'
    BY <1>3, GeneratorStays DEF Write
  <2> QED
    BY <1>1, <1>3, <2>1 DEF HandoffIsSnapshot, Write, UnchangedFiles
<1>4. ASSUME NEW p \in Processes, Step(p) PROVE HandoffInv'
  <2>1. \A g \in Generators : GeneratorAt(g)'
    BY <1>4, GeneratorStays, GeneratorSteps, OthersStay DEF Processes
  <2>2. ASSUME p \in Generators, PublishHandoff(p), SameArtifacts(p)
        PROVE  proc[p].first.digest \in worlds
    <3>1. /\ proc[p].pc = "derive" /\ Complete(proc[p].got)
          /\ proc[p].got.digest = proc[p].first.digest
          /\ proc[p].round = 2
      BY <2>2 DEF PublishHandoff, SameArtifacts
    <3>2. /\ ReadSoFar(proc[p].got, world)
          /\ Between(proc[p].got.digest, proc[p].got, worlds)
      BY <2>2, <3>1 DEF GeneratorAt
    <3>3. proc[p].got \in Documents /\ world \in Versions /\ worlds \in SUBSET Versions
      BY DEF Typed, Procs
    <3>4. proc[p].got.digest \in worlds
      BY <3>1, <3>2, <3>3, TwiceTheSame
    <3> QED
      BY <3>1, <3>4
  <2>3. HandoffIsSnapshot'
    BY <1>4, <2>2, ChangedFiles DEF HandoffIsSnapshot, PublishHandoff
  <2> QED
    BY <1>1, <2>1, <2>3
<1> QED
  BY <1>2, <1>3, <1>4, StepsOfProcesses

LEMMA HandoffAlways == Spec => []HandoffInv
BY HandoffInit, HandoffStep, PTL DEF Spec

\* generate_handoff_state: a handoff that is published names bytes that were all there at one
\* instant, however many artifacts are published while it reads them and however many calls fail.
THEOREM PublishedIsSnapshot == Spec => []HandoffIsSnapshot
<1>1. HandoffInv => HandoffIsSnapshot
  BY DEF HandoffInv
<1> QED
  BY <1>1, HandoffAlways, PTL

-----------------------------------------------------------------------------
(* Checkpoints *)

\* A checkpoint is made under the lock from the handoff that is there.
CheckpointerAt(c) ==
  /\ proc[c].pc \in {"check", "write"} => lock = c /\ handoff = proc[c].seen
  /\ proc[c].pc = "check" =>
       /\ ReadSoFar(proc[c].got, world)
       /\ proc[c].round = 2 => Between(proc[c].seen.digest, proc[c].got, worlds)
  /\ proc[c].pc = "write" =>
       /\ proc[c].first = proc[c].seen
       /\ proc[c].first.content = proc[c].first.digest
       /\ proc[c].first.digest \in worlds

CheckpointInv ==
  /\ HandoffInv
  /\ \A c \in Checkpointers : CheckpointerAt(c)
  /\ CheckpointsTrue

\* Who has the lock is not overtaken by a generator.
LEMMA HandoffHeld ==
  ASSUME HandoffInv, [Next]_vars, NEW p \in Processes, p \notin Generators, lock = p
  PROVE  handoff' = handoff
<1>1. CASE UNCHANGED vars
  BY <1>1 DEF vars
<1>2. ASSUME NEW i \in Inputs, Write(i) PROVE handoff' = handoff
  BY <1>2 DEF Write, UnchangedFiles
<1>3. ASSUME NEW q \in Processes, Step(q) PROVE handoff' = handoff
  BY <1>3, ChangedFiles DEF HandoffInv, GeneratorAt, PublishHandoff
<1> QED
  BY <1>1, <1>2, <1>3, StepsOfProcesses DEF HandoffInv

LEMMA CheckpointerStays ==
  ASSUME HandoffInv, [Next]_vars, NEW c \in Checkpointers, CheckpointerAt(c),
         proc'[c] = proc[c], lock = c => lock' = c
  PROVE  CheckpointerAt(c)'
<1>0. c \in Processes /\ c \notin Generators
  BY RolesAssumption DEF Processes
<1>1. world \in Versions /\ world' \in Versions /\ Below(world, world') /\ worlds \subseteq worlds'
  BY TypedStep, WorldStep DEF Typed, HandoffInv
<1>2. proc[c].got \in Documents
  BY <1>0 DEF HandoffInv, Typed, Procs
<1>3. lock = c => handoff' = handoff
  BY <1>0, HandoffHeld
<1>4. proc[c].pc = "check" => ReadSoFar(proc[c].got, world')
  BY <1>1, <1>2, ReadLater DEF CheckpointerAt
<1>5. proc[c].pc = "check" /\ proc[c].round = 2 =>
        Between(proc[c].seen.digest, proc[c].got, worlds')
  BY <1>1, BetweenLater DEF CheckpointerAt
<1> QED
  BY <1>1, <1>3, <1>4, <1>5 DEF CheckpointerAt

LEMMA CheckpointerSteps ==
  ASSUME CheckpointInv, NEW c \in Checkpointers, Step(c)
  PROVE  CheckpointerAt(c)'
<1> USE DEF HandoffInv, CheckpointInv
<1>0. /\ c \in Processes /\ c \notin Generators /\ proc[c] \in Procs
      /\ world \in Versions /\ worlds \in SUBSET Versions
  BY RolesAssumption DEF Typed, Processes
<1>1. world' = world /\ worlds' = worlds /\ (handoff' = handoff \/ WriteCheckpoint(c))
  BY <1>0, ChangedFiles
<1>2. CASE Derive(c)
  <2>1. proc[c].seen.digest \in Versions
    BY <1>0 DEF Procs, Documents
  <2>2. /\ proc'[c].pc = proc[c].pc /\ proc'[c].round = proc[c].round
        /\ proc'[c].first = proc[c].first /\ proc'[c].seen = proc[c].seen
    BY <1>0, <1>2, DeriveDoes DEF Procs
  <2>3. lock' = lock /\ handoff' = handoff /\ proc[c].pc \in {"derive", "check", "stale"}
    BY <1>2 DEF Derive, UnchangedFiles
  <2> QED
    BY <1>0, <1>1, <1>2, <2>1, <2>2, <2>3, DeriveReads DEF CheckpointerAt
<1>3. CASE BeginCheck(c)
  <2>1. FALSE
    BY <1>0, <1>3, CommonPlaces DEF Roles
  <2> QED
    BY <2>1
<1>4. CASE Fail(c) \/ WriteCheckpoint(c)
  <2>1. proc'[c].pc = "done"
    BY <1>0, <1>4, CommonPlaces DEF WriteCheckpoint
  <2> QED
    BY <2>1 DEF CheckpointerAt
<1>5. CASE BeginCheckpoint(c)
  <2>1. proc'[c] = [Fresh EXCEPT !.pc = "check", !.seen = handoff] /\ lock' = c /\ handoff' = handoff
    BY <1>0, <1>5, BecomesIs DEF BeginCheckpoint, Takes, UnchangedFiles
  <2>2. /\ proc'[c].got = Blank /\ proc'[c].round = 1 /\ proc'[c].pc = "check"
        /\ proc'[c].seen = handoff
    BY <2>1 DEF Fresh
  <2> QED
    BY <1>0, <1>1, <2>1, <2>2, ReadBlank DEF CheckpointerAt
<1>6. CASE CheckHandoff(c)
  <2>0. /\ proc[c].pc = "check" /\ Complete(proc[c].got) /\ handoff' = handoff
        /\ lock = c /\ handoff = proc[c].seen /\ ReadSoFar(proc[c].got, world)
    BY <1>6 DEF CheckHandoff, Checked, CheckpointerAt, UnchangedFiles
  <2>1. CASE Ends(c, "failed")
    BY <1>0, <2>1, CommonPlaces DEF CheckpointerAt
  <2>2. CASE /\ Current(c) /\ proc[c].round = 1 /\ lock' = lock
             /\ Becomes(c, [proc[c] EXCEPT !.round = 2, !.first = handoff, !.seen = handoff,
                              !.got = Blank])
    <3>0. proc'[c] = [proc[c] EXCEPT !.round = 2, !.first = handoff, !.seen = handoff, !.got = Blank]
      BY <1>0, <2>2 DEF Becomes, Typed
    <3>1. proc'[c].got = Blank /\ proc'[c].seen = handoff /\ proc'[c].pc = "check"
      BY <1>0, <2>0, <3>0 DEF Procs
    <3>2. proc[c].got = proc[c].seen
      BY <2>2 DEF Current
    <3>3. proc[c].seen.digest \in Versions /\ Below(proc[c].seen.digest, world)
      BY <1>0, <2>0, <3>2 DEF Procs, Documents, ReadSoFar, Below
    <3> QED
      BY <1>0, <1>1, <2>0, <2>2, <3>1, <3>3, ReadBlank DEF CheckpointerAt, WorldInv
  <2>3. CASE /\ Current(c) /\ proc[c].round = 2 /\ proc[c].seen = proc[c].first /\ lock' = lock
             /\ Becomes(c, [proc[c] EXCEPT !.pc = "write"])
    <3>1. /\ proc'[c].pc = "write" /\ proc'[c].first = proc[c].first
          /\ proc'[c].seen = proc[c].seen
      BY <1>0, <2>3, BecomesIs DEF Procs
    <3>2. proc[c].got = proc[c].seen /\ proc[c].got \in Documents
      BY <1>0, <2>3 DEF Current, Procs
    <3>3. Between(proc[c].got.digest, proc[c].got, worlds)
      BY <2>0, <2>3, <3>2 DEF CheckpointerAt
    <3>4. proc[c].got.digest \in worlds /\ proc[c].got.content = proc[c].got.digest
      BY <1>0, <2>0, <3>2, <3>3, TwiceTheSame
    <3> QED
      BY <1>1, <2>0, <2>3, <3>1, <3>2, <3>4 DEF CheckpointerAt
  <2> QED
    BY <1>0, <1>6, <2>1, <2>2, <2>3 DEF CheckHandoff, Procs
<1> QED
  BY <1>2, <1>3, <1>4, <1>5, <1>6, StepOfCheckpointers

LEMMA CheckpointStep == CheckpointInv /\ [Next]_vars => CheckpointInv'
<1> SUFFICES ASSUME CheckpointInv, [Next]_vars PROVE CheckpointInv'
  OBVIOUS
<1> USE DEF CheckpointInv
<1>1. HandoffInv' /\ worlds \subseteq worlds'
  BY HandoffStep, WorldStep DEF HandoffInv
<1>2. CASE UNCHANGED vars
  BY <1>1, <1>2 DEF vars, CheckpointerAt, CheckpointsTrue
<1>3. ASSUME NEW i \in Inputs, Write(i) PROVE CheckpointInv'
  <2>1. \A c \in Checkpointers : CheckpointerAt(c)'
    BY <1>3, CheckpointerStays DEF Write
  <2> QED
    BY <1>1, <1>3, <2>1 DEF CheckpointsTrue, Write, UnchangedFiles
<1>4. ASSUME NEW p \in Processes, Step(p) PROVE CheckpointInv'
  <2>1. \A c \in Checkpointers : CheckpointerAt(c)'
    BY <1>4, CheckpointerStays, CheckpointerSteps, OthersStay DEF Processes, HandoffInv
  <2>2. CASE checkpoints' = checkpoints
    BY <1>1, <2>1, <2>2 DEF CheckpointsTrue
  <2>3. CASE p \in Checkpointers /\ WriteCheckpoint(p)
    <3> DEFINE d == proc[p].first
    <3>1. d.content = d.digest /\ d.digest \in worlds /\ handoff = d
      BY <2>3 DEF CheckpointerAt, WriteCheckpoint
    <3>2. \/ checkpoints' = checkpoints
          \/ checkpoints' = [checkpoints EXCEPT ![Revision(d)] = Index(d, d)]
      BY <2>3, <3>1 DEF WriteCheckpoint
    <3>3. \A r \in Revisions : \/ checkpoints'[r] = checkpoints[r]
                               \/ r = Revision(d) /\ checkpoints'[r] = Index(d, d)
      BY <3>2 DEF HandoffInv, Typed
    <3>4. Index(d, d).of = d /\ Index(d, d).sha = d
      BY DEF Index
    <3>5. CheckpointsTrue'
      BY <1>1, <3>1, <3>3, <3>4 DEF CheckpointsTrue
    <3> QED
      BY <1>1, <2>1, <3>5
  <2> QED
    BY <1>4, <2>2, <2>3, ChangedFiles
<1> QED
  BY <1>2, <1>3, <1>4, StepsOfProcesses DEF HandoffInv

LEMMA CheckpointInit == Init => CheckpointInv
<1> SUFFICES ASSUME Init PROVE CheckpointInv
  OBVIOUS
<1>1. \A p \in Processes : proc[p].pc \in {"idle", "done"}
  BY DEF Init, Fresh
<1>2. CheckpointsTrue
  BY DEF Init, CheckpointsTrue
<1> QED
  BY <1>1, <1>2, HandoffInit DEF CheckpointInv, CheckpointerAt, Processes

LEMMA CheckpointAlways == Spec => []CheckpointInv
BY CheckpointInit, CheckpointStep, PTL DEF Spec

\* create_workspace_checkpoint: what a checkpoint says was read from the bytes it names, which were
\* there together, although the handoff it is taken from may say of bytes what was not in them.
THEOREM CheckpointsAreTrue == Spec => []CheckpointsTrue
<1>1. CheckpointInv => CheckpointsTrue
  BY DEF CheckpointInv
<1> QED
  BY <1>1, CheckpointAlways, PTL

-----------------------------------------------------------------------------
(* Validation of a checkpoint *)

\* What is named was there before the validation began, and whatever it reads was read behind that.
ValidatorAt(v) ==
  LET named == proc[v].given.of.digest
      start == proc[v].start
  IN /\ proc[v].pc \in {"lock", "check", "inputs", "compare"} =>
          /\ Below(named, start) /\ Below(start, world)
          /\ proc[v].says = "nothing"
     /\ proc[v].pc = "check" =>
          \A i \in Inputs : proc[v].got.digest[i] # 0 => start[i] <= proc[v].got.digest[i]
     /\ proc[v].pc = "inputs" =>
          \A i \in Inputs : proc[v].got.digest[i] # 0 => named[i] = start[i]
     /\ proc[v].pc = "compare" => Below(start, proc[v].seen.digest)
     /\ proc[v].pc = "idle" => proc[v].says = "nothing"
     /\ proc[v].says = "current" => named = start
     /\ proc[v].says = "valid_historical" => \A i \in Artifacts : named[i] = start[i]

ValidationInv ==
  /\ CheckpointInv
  /\ \A v \in CheckpointValidators : ValidatorAt(v)

LEMMA EndedAs ==
  ASSUME Typed, NEW p \in Processes, NEW verdict, Ends(p, verdict)
  PROVE  /\ proc'[p].pc = "done" /\ proc'[p].says = verdict
         /\ proc'[p].given = proc[p].given /\ proc'[p].start = proc[p].start
BY DEF Typed, Ends, Becomes, Fresh

LEMMA ValidatorStays ==
  ASSUME Typed, WorldInv, [Next]_vars, NEW v \in CheckpointValidators, ValidatorAt(v),
         proc'[v] = proc[v]
  PROVE  ValidatorAt(v)'
<1>1. world \in Versions /\ world' \in Versions /\ Below(world, world')
  BY TypedStep, WorldStep DEF Typed
<1>2. proc[v].start \in Versions
  BY DEF Typed, Procs, Processes
<1>3. Below(proc[v].start, world) => Below(proc[v].start, world')
  BY <1>1, <1>2 DEF Below, Versions
<1> QED
  BY <1>3 DEF ValidatorAt

LEMMA ValidatorSteps ==
  ASSUME ValidationInv, NEW v \in CheckpointValidators, Step(v)
  PROVE  ValidatorAt(v)'
<1> USE DEF HandoffInv, CheckpointInv, ValidationInv
<1>0. v \in Processes /\ proc[v] \in Procs /\ world \in Versions
  BY DEF Typed, Processes
<1> DEFINE named == proc[v].given.of.digest
           start == proc[v].start
<1>1. /\ world' = world /\ worlds' = worlds
      /\ named \in Versions /\ start \in Versions /\ proc[v].seen.digest \in Versions
      /\ proc[v].got \in Documents
  BY <1>0, ChangedFiles DEF Procs, Given, Documents
<1>2. CASE Derive(v)
  <2>1. /\ proc'[v].pc = proc[v].pc /\ proc'[v].seen = proc[v].seen
        /\ proc'[v].given = proc[v].given /\ proc'[v].start = proc[v].start
        /\ proc'[v].says = proc[v].says /\ proc[v].pc \in {"derive", "check", "stale"}
    BY <1>0, <1>2, DeriveDoes DEF Procs
  <2>2. proc[v].pc = "check" =>
          \A i \in Inputs : proc'[v].got.digest[i] # 0 => start[i] <= proc'[v].got.digest[i]
    BY <1>0, <1>1, <1>2, DeriveReads DEF ValidatorAt
  <2>3. proc[v].pc = "check"
    BY <2>1 DEF Roles
  <2> QED
    BY <1>1, <2>1, <2>2, <2>3 DEF ValidatorAt
<1>3. CASE BeginCheck(v)
  <2>1. /\ proc[v].pc = "lock"
        /\ proc'[v] = [proc[v] EXCEPT !.pc = "check", !.seen = handoff, !.got = Blank]
    BY <1>0, <1>3 DEF BeginCheck, Becomes, Typed
  <2>2. /\ proc'[v].pc = "check" /\ proc'[v].got = Blank
        /\ proc'[v].given = proc[v].given /\ proc'[v].start = proc[v].start
        /\ proc'[v].says = proc[v].says
    BY <1>0, <2>1 DEF Procs
  <2> QED
    BY <1>1, <2>1, <2>2 DEF ValidatorAt, Blank
<1>4. CASE Fail(v)
  <2>1. Ends(v, "failed")
    BY <1>4 DEF Fail
  <2> QED
    BY <1>0, <2>1, EndedAs DEF ValidatorAt
<1>5. CASE CompareRevision(v)
  <2>0. /\ proc[v].pc = "check" /\ Complete(proc[v].got) /\ proc[v].says = "nothing"
        /\ Below(named, start) /\ Below(start, world)
    BY <1>5 DEF CompareRevision, Checked, ValidatorAt
  <2>1. CASE Ends(v, "unverifiable")
    BY <1>0, <2>1, EndedAs DEF ValidatorAt
  <2>2. ASSUME Current(v), NEW pc \in {"inputs", "compare"},
               Becomes(v, [proc[v] EXCEPT !.pc = pc, !.got = Blank])
        PROVE  ValidatorAt(v)'
    <3>0. proc'[v] = [proc[v] EXCEPT !.pc = pc, !.got = Blank]
      BY <1>0, <2>2 DEF Becomes, Typed
    <3>1. /\ proc'[v].pc = pc /\ proc'[v].got = Blank /\ proc'[v].seen = proc[v].seen
          /\ proc'[v].given = proc[v].given /\ proc'[v].start = proc[v].start
          /\ proc'[v].says = "nothing"
      BY <1>0, <2>0, <3>0 DEF Procs
    <3>2. Below(start, proc[v].seen.digest)
      BY <2>0, <2>2 DEF Current, Complete, Below, ValidatorAt
    <3>3. \A i \in Inputs : Blank.digest[i] = 0
      BY DEF Blank
    <3> QED
      BY <1>1, <2>0, <3>1, <3>2, <3>3 DEF ValidatorAt
  <2> QED
    BY <1>5, <2>1, <2>2 DEF CompareRevision
<1>6. CASE CompareIndex(v)
  <2>1. PICK verdict \in {"current", "tampered"} :
          /\ Ends(v, verdict)
          /\ verdict = "current" =>
               Index(proc[v].given.of, proc[v].given.sha) = Index(proc[v].seen, handoff)
    BY <1>6 DEF CompareIndex
  <2>2. ASSUME verdict = "current" PROVE named = start
    <3>1. proc[v].given.of = proc[v].seen
      BY <2>1, <2>2 DEF Index
    <3>2. Below(named, start) /\ Below(start, named)
      BY <1>6, <3>1 DEF CompareIndex, ValidatorAt
    <3> QED
      BY <1>1, <3>2 DEF Below, Versions
  <2> QED
    BY <1>0, <2>1, <2>2, EndedAs DEF ValidatorAt
<1>7. ASSUME NEW r \in Revisions, BeginValidation(v, r) PROVE ValidatorAt(v)'
  <2>1. /\ checkpoints[r] # NoIndex
        /\ proc'[v] = [Fresh EXCEPT !.pc = "lock", !.start = world,
                         !.given = Actions("checkpoint", checkpoints[r].of, checkpoints[r].sha)]
    BY <1>0, <1>7 DEF BeginValidation, Becomes, Typed
  <2>2. /\ proc'[v].pc = "lock" /\ proc'[v].start = world /\ proc'[v].says = "nothing"
        /\ proc'[v].given.of = checkpoints[r].of
    BY <2>1 DEF Fresh, Actions
  <2>3. checkpoints[r].of.digest \in worlds
    BY <2>1 DEF CheckpointsTrue
  <2>4. Below(checkpoints[r].of.digest, world) /\ Below(world, world)
    BY <1>0, <2>3 DEF WorldInv, Below, Versions
  <2> QED
    BY <1>1, <2>2, <2>4 DEF ValidatorAt
<1>8. ASSUME NEW i \in Inputs, ReadInput(v, i) PROVE ValidatorAt(v)'
  <2>0. /\ proc[v].pc = "inputs" /\ i \in Artifacts /\ proc[v].says = "nothing"
        /\ Below(named, start) /\ Below(start, world)
        /\ \A j \in Inputs : proc[v].got.digest[j] # 0 => named[j] = start[j]
    BY <1>8 DEF ReadInput, ValidatorAt
  <2>1. InputKept(v, i) => named[i] = start[i]
    BY <1>0, <1>1, <2>0 DEF InputKept, Below, Versions
  <2>2. CASE Ends(v, "historical_unverifiable")
    BY <1>0, <2>2, EndedAs DEF ValidatorAt
  <2>3. CASE /\ InputKept(v, i) /\ Ends(v, "valid_historical")
             /\ \A j \in Artifacts \ {i} : proc[v].got.digest[j] # 0
    <3>1. \A j \in Artifacts : named[j] = start[j]
      BY <2>0, <2>1, <2>3 DEF Inputs
    <3> QED
      BY <1>0, <2>3, <3>1, EndedAs DEF ValidatorAt
  <2>4. CASE InputKept(v, i) /\ Becomes(v, [proc[v] EXCEPT !.got.digest[i] = world[i]])
    <3>0. proc'[v] = [proc[v] EXCEPT !.got.digest[i] = world[i]]
      BY <1>0, <2>4 DEF Becomes, Typed
    <3>1. /\ proc'[v].pc = "inputs" /\ proc'[v].seen = proc[v].seen
          /\ proc'[v].given = proc[v].given /\ proc'[v].start = proc[v].start
          /\ proc'[v].says = "nothing"
          /\ proc'[v].got.digest = [proc[v].got.digest EXCEPT ![i] = world[i]]
      BY <1>0, <1>1, <2>0, <3>0 DEF Procs, Documents
    <3>2. \A j \in Inputs : j # i => proc'[v].got.digest[j] = proc[v].got.digest[j]
      BY <1>1, <3>1 DEF Documents, Versions
    <3> QED
      BY <1>1, <2>0, <2>1, <2>4, <3>1, <3>2 DEF ValidatorAt
  <2> QED
    BY <1>8, <2>2, <2>3, <2>4 DEF ReadInput
<1> QED
  BY <1>2, <1>3, <1>4, <1>5, <1>6, <1>7, <1>8, StepOfValidators

LEMMA ValidationStep == ValidationInv /\ [Next]_vars => ValidationInv'
<1> SUFFICES ASSUME ValidationInv, [Next]_vars PROVE ValidationInv'
  OBVIOUS
<1>1. CheckpointInv' /\ Typed /\ WorldInv
  BY CheckpointStep DEF ValidationInv, CheckpointInv, HandoffInv
<1>2. CASE UNCHANGED vars
  BY <1>1, <1>2, ValidatorStays DEF vars, ValidationInv
<1>3. ASSUME NEW i \in Inputs, Write(i) PROVE ValidationInv'
  BY <1>1, <1>3, ValidatorStays DEF Write, ValidationInv
<1>4. ASSUME NEW p \in Processes, Step(p) PROVE ValidationInv'
  BY <1>1, <1>4, ValidatorStays, ValidatorSteps, OthersStay DEF ValidationInv, Processes
<1> QED
  BY <1>1, <1>2, <1>3, <1>4, StepsOfProcesses

LEMMA ValidationInit == Init => ValidationInv
<1> SUFFICES ASSUME Init PROVE ValidationInv
  OBVIOUS
<1>1. \A p \in Processes : proc[p].pc \in {"idle", "done"} /\ proc[p].says = "nothing"
  BY DEF Init, Fresh
<1> QED
  BY <1>1, CheckpointInit DEF ValidationInv, ValidatorAt, Processes

LEMMA ValidationAlways == Spec => []ValidationInv
BY ValidationInit, ValidationStep, PTL DEF Spec

\* validate_workspace_checkpoint: one that is accepted names the inputs as they were when it was
\* called, all of them as the current checkpoint and all but the journal as an older one, although
\* they are written between the readings.
THEOREM AcceptedIsTrue == Spec => []AcceptedCheckpoint
<1>1. ValidationInv => AcceptedCheckpoint
  BY DEF ValidationInv, ValidatorAt, AcceptedCheckpoint
<1> QED
  BY <1>1, ValidationAlways, PTL

-----------------------------------------------------------------------------
(* The timeline *)

\* What a document says was in the bytes it names, and these were there together.
TrueOf(d, ws) == d.content = d.digest /\ d.digest \in ws

TimelineAt(t) ==
  /\ proc[t].pc = "derive" =>
       /\ ReadSoFar(proc[t].got, world)
       /\ proc[t].round = 2 => Between(proc[t].first.digest, proc[t].got, worlds)
  /\ proc[t].pc \in {"prior", "json", "html"} => TrueOf(proc[t].first, worlds)
  /\ proc[t].pc \in {"json", "html"} => proc[t].seen = Blank \/ TrueOf(proc[t].seen, worlds)

TimelineInv ==
  /\ Typed /\ Roles /\ WorldInv
  /\ \A t \in Timelines : TimelineAt(t)
  /\ timeline.json = Blank \/ TrueOf(timeline.json, worlds)

\* Who replaces the files knows what was there, and only between the two do they differ.
Paired ==
  /\ \A t \in Timelines :
       /\ proc[t].pc = "json" => proc[t].seen = timeline.json
       /\ proc[t].pc = "html" => timeline.json = proc[t].first /\ timeline.html = proc[t].seen
  /\ (\A t \in Timelines : proc[t].pc \notin {"html", "torn"}) => timeline.json = timeline.html

OneTimeline == \A t, u \in Timelines : t = u

LEMMA TimelineStays ==
  ASSUME TimelineInv, [Next]_vars, NEW t \in Timelines, proc'[t] = proc[t]
  PROVE  TimelineAt(t)'
<1>1. world \in Versions /\ world' \in Versions /\ Below(world, world') /\ worlds \subseteq worlds'
  BY TypedStep, WorldStep DEF Typed, TimelineInv
<1>2. proc[t].got \in Documents
  BY DEF Typed, Procs, Processes, TimelineInv
<1>3. proc[t].pc = "derive" => ReadSoFar(proc[t].got, world')
  BY <1>1, <1>2, ReadLater DEF TimelineInv, TimelineAt
<1>4. proc[t].pc = "derive" /\ proc[t].round = 2 =>
        Between(proc[t].first.digest, proc[t].got, worlds')
  BY <1>1, BetweenLater DEF TimelineInv, TimelineAt
<1> QED
  BY <1>1, <1>3, <1>4 DEF TimelineInv, TimelineAt, TrueOf

LEMMA TimelineSteps ==
  ASSUME TimelineInv, NEW t \in Timelines, Step(t)
  PROVE  TimelineAt(t)'
<1> USE DEF TimelineInv
<1>0. t \in Processes /\ proc[t] \in Procs /\ world \in Versions /\ worlds \in SUBSET Versions
  BY DEF Typed, Processes
<1>1. world' = world /\ worlds' = worlds
  BY <1>0, ChangedFiles
<1>2. CASE Derive(t)
  <2>1. proc[t].first.digest \in Versions
    BY <1>0 DEF Procs, Documents
  <2>2. /\ proc'[t].pc = proc[t].pc /\ proc'[t].round = proc[t].round
        /\ proc'[t].first = proc[t].first /\ proc'[t].seen = proc[t].seen
    BY <1>0, <1>2, DeriveDoes DEF Procs
  <2> QED
    BY <1>0, <1>1, <1>2, <2>1, <2>2, DeriveReads DEF TimelineAt
<1>3. CASE BeginCheck(t) \/ Fail(t) \/ ReplaceHtml(t) \/ Kill(t) \/ RestoreFails(t)
  <2>1. proc'[t].pc \in {"check", "done", "torn"}
    <3>1. CASE Kill(t) \/ RestoreFails(t)
      BY <1>0, <3>1, TornTyped
    <3> QED
      BY <1>0, <1>3, <3>1, CommonPlaces DEF ReplaceHtml
  <2> QED
    BY <2>1 DEF TimelineAt
<1>4. CASE BeginTimeline(t)
  <2>1. proc'[t] = [Fresh EXCEPT !.pc = "derive"]
    BY <1>0, <1>4, BecomesIs DEF BeginTimeline
  <2>2. proc'[t].got = Blank /\ proc'[t].round = 1 /\ proc'[t].pc = "derive"
    BY <2>1 DEF Fresh
  <2> QED
    BY <1>0, <1>1, <2>1, <2>2, ReadBlank DEF TimelineAt
<1>5. CASE DeriveTimelineAgain(t)
  <2>0. proc[t].pc = "derive" /\ Complete(proc[t].got) /\ ReadSoFar(proc[t].got, world)
    BY <1>5 DEF DeriveTimelineAgain, TimelineAt
  <2>1. CASE Ends(t, "failed")
    BY <1>0, <2>1, CommonPlaces DEF TimelineAt
  <2>2. CASE Becomes(t, [proc[t] EXCEPT !.round = 2, !.first = proc[t].got, !.got = Blank])
    <3>1. proc'[t] = [proc[t] EXCEPT !.round = 2, !.first = proc[t].got, !.got = Blank]
      BY <1>0, <2>2, BecomesIs
    <3>2. proc'[t].got = Blank /\ proc'[t].first = proc[t].got /\ proc'[t].pc = "derive"
      BY <1>0, <2>0, <3>1 DEF Procs
    <3>3. proc[t].got.digest \in Versions /\ Below(proc[t].got.digest, world)
      BY <1>0, <2>0 DEF Procs, Documents, ReadSoFar, Below
    <3> QED
      BY <1>0, <1>1, <3>2, <3>3, ReadBlank DEF TimelineAt, WorldInv
  <2>3. CASE /\ proc[t].round = 2 /\ SameTimeline(t)
             /\ Becomes(t, [proc[t] EXCEPT !.pc = "prior"])
    <3>1. proc'[t].pc = "prior" /\ proc'[t].first = proc[t].first
      BY <1>0, <2>3 DEF Becomes, Typed, Procs
    <3>2. proc[t].got = proc[t].first /\ proc[t].got \in Documents
      BY <1>0, <2>3 DEF SameTimeline, Procs
    <3>3. Between(proc[t].got.digest, proc[t].got, worlds)
      BY <2>0, <2>3, <3>2 DEF TimelineAt
    <3>4. TrueOf(proc[t].first, worlds)
      BY <1>0, <2>0, <3>2, <3>3, TwiceTheSame DEF TrueOf
    <3> QED
      BY <1>1, <3>1, <3>4 DEF TimelineAt
  <2> QED
    BY <1>0, <1>5, <2>1, <2>2, <2>3 DEF DeriveTimelineAgain, Procs
<1>6. CASE ReadPrior(t)
  <2>1. CASE Ends(t, "ok")
    BY <1>0, <2>1, CommonPlaces DEF TimelineAt
  <2>2. CASE Becomes(t, [proc[t] EXCEPT !.pc = "json", !.seen = timeline.json])
    <3>1. /\ proc'[t].pc = "json" /\ proc'[t].first = proc[t].first
          /\ proc'[t].seen = timeline.json
      BY <1>0, <2>2 DEF Becomes, Typed, Procs
    <3> QED
      BY <1>1, <1>6, <3>1 DEF TimelineAt, ReadPrior
  <2> QED
    BY <1>6, <2>1, <2>2 DEF ReadPrior
<1>7. CASE ReplaceJson(t)
  <2>1. /\ proc'[t].pc = "html" /\ proc'[t].first = proc[t].first
        /\ proc'[t].seen = proc[t].seen /\ proc[t].pc = "json"
    BY <1>0, <1>7 DEF ReplaceJson, Becomes, Typed, Procs
  <2> QED
    BY <1>1, <2>1 DEF TimelineAt
<1> QED
  BY <1>2, <1>3, <1>4, <1>5, <1>6, <1>7, StepOfTimelines

\* Only who is at it restores anything.
LEMMA RestoredBy ==
  ASSUME Typed, Roles, NEW p \in Processes, Fail(p), timeline' # timeline
  PROVE  p \in Timelines /\ proc[p].pc = "html" /\ timeline' = [timeline EXCEPT !.json = proc[p].seen]
BY DEF Fail, Restored, Roles, Processes

LEMMA TimelineStep == TimelineInv /\ [Next]_vars => TimelineInv'
<1> SUFFICES ASSUME TimelineInv, [Next]_vars PROVE TimelineInv'
  OBVIOUS
<1>1. Typed' /\ Roles' /\ WorldInv' /\ worlds \subseteq worlds' /\ Typed /\ Roles
  BY TypedStep, RolesStep, WorldStep DEF TimelineInv
<1>2. CASE UNCHANGED vars
  BY <1>1, <1>2, TimelineStays DEF vars, TimelineInv
<1>3. ASSUME NEW i \in Inputs, Write(i) PROVE TimelineInv'
  BY <1>1, <1>3, TimelineStays DEF Write, TimelineInv, UnchangedFiles, TrueOf
<1>4. ASSUME NEW p \in Processes, Step(p) PROVE TimelineInv'
  <2>1. \A t \in Timelines : TimelineAt(t)'
    BY <1>1, <1>4, TimelineStays, TimelineSteps, OthersStay DEF Processes
  <2>2. ASSUME timeline' # timeline PROVE timeline.json' = Blank \/ TrueOf(timeline.json', worlds)
    <3>1. CASE Fail(p)
      BY <1>1, <2>2, <3>1, RestoredBy DEF TimelineInv, TimelineAt, Typed
    <3>2. CASE p \in Timelines /\ ReplaceJson(p)
      BY <1>1, <3>2 DEF ReplaceJson, TimelineInv, TimelineAt, Typed
    <3>3. CASE p \in Timelines /\ ReplaceHtml(p)
      BY <1>1, <3>3 DEF ReplaceHtml, TimelineInv, Typed
    <3> QED
      BY <1>4, <2>2, <3>1, <3>2, <3>3, ChangedFiles
  <2>3. (timeline.json = Blank \/ TrueOf(timeline.json, worlds))'
    BY <1>1, <2>2 DEF TimelineInv, TrueOf
  <2> QED
    BY <1>1, <2>1, <2>3 DEF TimelineInv
<1> QED
  BY <1>2, <1>3, <1>4, StepsOfProcesses, <1>1

LEMMA PairedStep ==
  ASSUME OneTimeline, Typed, Roles, Paired, [Next]_vars
  PROVE  Paired'
<1>1. CASE UNCHANGED vars
  BY <1>1 DEF vars, Paired
<1>2. ASSUME NEW i \in Inputs, Write(i) PROVE Paired'
  BY <1>2 DEF Write, Paired, UnchangedFiles
<1>3. ASSUME NEW p \in Processes, Step(p) PROVE Paired'
  <2>0. \A t \in Timelines : t \in Processes
    BY DEF Processes
  <2>1. CASE p \notin Timelines
    <3>1. \A t \in Timelines : proc'[t] = proc[t]
      BY <1>3, <2>0, <2>1, OthersStay
    <3>2. timeline' = timeline
      BY <1>3, <2>1, ChangedFiles, RestoredBy
    <3> QED
      BY <3>1, <3>2 DEF Paired
  <2>2. CASE p \in Timelines
    <3>0. proc[p] \in Procs /\ proc' \in [Processes -> Procs] /\ \A t \in Timelines : t = p
      BY <1>3, <2>2, ProcTyped DEF Typed, OneTimeline
    <3> DEFINE P == /\ proc'[p].pc = "json" => proc'[p].seen = timeline.json'
                    /\ proc'[p].pc = "html" => /\ timeline.json' = proc'[p].first
                                               /\ timeline.html' = proc'[p].seen
                    /\ proc'[p].pc \notin {"html", "torn"} => timeline.json' = timeline.html'
    <3> SUFFICES P
      BY <2>2, <3>0 DEF Paired
    <3>1. /\ proc[p].pc = "json" => proc[p].seen = timeline.json
          /\ proc[p].pc = "html" => timeline.json = proc[p].first /\ timeline.html = proc[p].seen
          /\ proc[p].pc \notin {"html", "torn"} => timeline.json = timeline.html
      BY <2>2, <3>0 DEF Paired
    <3>2. CASE Derive(p)
      <4>1. /\ proc'[p].pc = proc[p].pc /\ proc[p].pc \in {"derive", "check", "stale"}
            /\ timeline' = timeline
        BY <3>0, <3>2, DeriveDoes DEF Procs, Derive, UnchangedFiles
      <4> QED
        BY <3>1, <4>1
    <3>3. CASE BeginCheck(p)
      BY <2>2, <3>3 DEF BeginCheck, Roles
    <3>4. CASE Fail(p)
      <4>1. proc'[p].pc = "done" /\ proc[p].pc # "torn"
        BY <3>4, CommonPlaces DEF Fail
      <4>2. timeline.json' = timeline.html'
        BY <3>1, <3>4, <4>1 DEF Fail, Restored, Typed
      <4> QED
        BY <4>1, <4>2
    <3>5. CASE BeginTimeline(p)
      <4>1. proc'[p].pc = "derive" /\ proc[p].pc = "idle" /\ timeline' = timeline
        BY <3>5 DEF BeginTimeline, Becomes, Typed, Fresh, UnchangedFiles
      <4> QED
        BY <3>1, <4>1
    <3>6. CASE DeriveTimelineAgain(p)
      <4>1. /\ proc[p].pc = "derive" /\ timeline' = timeline
            /\ \/ Ends(p, "failed")
               \/ Becomes(p, [proc[p] EXCEPT !.round = 2, !.first = proc[p].got, !.got = Blank])
               \/ Becomes(p, [proc[p] EXCEPT !.pc = "prior"])
        BY <3>6 DEF DeriveTimelineAgain, UnchangedFiles
      <4>2. proc'[p].pc \in {"derive", "prior", "done"}
        BY <3>0, <4>1, CommonPlaces, BecomesIs DEF Procs
      <4> QED
        BY <3>1, <4>1, <4>2
    <3>7. CASE ReadPrior(p)
      <4>1. /\ proc[p].pc = "prior" /\ timeline' = timeline
            /\ \/ proc'[p].pc = "done"
               \/ proc'[p].pc = "json" /\ proc'[p].seen = timeline.json
        <5>1. CASE Ends(p, "ok")
          BY <3>7, <5>1, CommonPlaces DEF ReadPrior, UnchangedFiles
        <5>2. CASE Becomes(p, [proc[p] EXCEPT !.pc = "json", !.seen = timeline.json])
          BY <3>0, <3>7, <5>2 DEF ReadPrior, Becomes, Typed, Procs, UnchangedFiles
        <5> QED
          BY <3>7, <5>1, <5>2 DEF ReadPrior
      <4> QED
        BY <3>1, <4>1
    <3>8. CASE ReplaceJson(p)
      <4>1. /\ proc[p].pc = "json" /\ proc'[p].pc = "html"
            /\ proc'[p].first = proc[p].first /\ proc'[p].seen = proc[p].seen
            /\ timeline.json' = proc[p].first /\ timeline.html' = timeline.html
        BY <3>0, <3>8 DEF ReplaceJson, Becomes, Typed, Procs
      <4> QED
        BY <3>1, <4>1
    <3>9. CASE ReplaceHtml(p)
      <4>1. /\ proc[p].pc = "html" /\ proc'[p].pc = "done"
            /\ timeline.json' = timeline.json /\ timeline.html' = proc[p].first
        BY <3>0, <3>9, CommonPlaces DEF ReplaceHtml, Typed
      <4> QED
        BY <3>1, <4>1
    <3>10. CASE Kill(p) \/ RestoreFails(p)
      <4>1. proc[p].pc = "html" /\ proc'[p].pc = "torn" /\ timeline' = timeline
        BY <3>10, TornTyped
      <4> QED
        BY <3>1, <4>1
    <3> QED
      BY <1>3, <2>2, <3>2, <3>3, <3>4, <3>5, <3>6, <3>7, <3>8, <3>9, <3>10, StepOfTimelines
  <2> QED
    BY <2>1, <2>2
<1> QED
  BY <1>1, <1>2, <1>3, StepsOfProcesses

LEMMA TimelineInit == Init => TimelineInv /\ Paired
<1> SUFFICES ASSUME Init PROVE TimelineInv /\ Paired
  OBVIOUS
<1>1. \A p \in Processes : proc[p].pc \in {"idle", "done"}
  BY DEF Init, Fresh
<1>2. timeline.json = Blank /\ timeline.html = Blank
  BY DEF Init
<1> QED
  BY <1>1, <1>2, HandoffInit DEF TimelineInv, TimelineAt, Paired, HandoffInv, Processes

\* publish_timeline: the timeline says of bytes that were there together what was in them, and its
\* two files are of one derivation, or of the one before, unless one call was killed between them;
\* of two calls at a time, which nothing keeps apart, this is not claimed.
THEOREM TimelineIsTrue == OneTimeline => (Spec => []TimelineTrue)
<1> SUFFICES ASSUME OneTimeline PROVE Spec => []TimelineTrue
  OBVIOUS
<1>1. TimelineInv /\ Paired /\ [Next]_vars => (TimelineInv /\ Paired)'
  BY TimelineStep, PairedStep DEF TimelineInv
<1>2. TimelineInv /\ Paired => TimelineTrue
  BY DEF TimelineInv, Paired, TimelineTrue, TrueOf
<1> QED
  BY TimelineInit, <1>1, <1>2, PTL DEF Spec

-----------------------------------------------------------------------------
(* Next actions *)

\* What a document says is no newer than the bytes it names; of two that were published one after
\* the other, the later was read behind what the earlier names.
Ordered(d) == Below(d.content, d.digest)
NotBefore(d, e) == d = e \/ Below(d.digest, e.content)

LEMMA NotBeforeOrder ==
  ASSUME NEW d \in Documents, NEW e \in Documents, Ordered(d), Ordered(e), NotBefore(d, e)
  PROVE  /\ NotBefore(e, d) => d = e
         /\ \A f \in Documents : NotBefore(e, f) => NotBefore(d, f)
<1>1. ASSUME NotBefore(e, d), d # e PROVE FALSE
  <2>1. /\ d.content \in Versions /\ d.digest \in Versions
        /\ e.content \in Versions /\ e.digest \in Versions
    BY DEF Documents
  <2>2. \A i \in Inputs : /\ d.content[i] <= d.digest[i] /\ d.digest[i] <= e.content[i]
                          /\ e.content[i] <= e.digest[i] /\ e.digest[i] <= d.content[i]
    BY <1>1 DEF Ordered, NotBefore, Below
  <2>3. \A i \in Inputs : d.content[i] = e.content[i] /\ d.digest[i] = e.digest[i]
    BY <2>1, <2>2 DEF Versions
  <2>4. d.content = e.content /\ d.digest = e.digest
    BY <2>1, <2>3 DEF Versions
  <2> QED
    BY <1>1, <2>4 DEF Documents
<1>2. ASSUME NEW f \in Documents, NotBefore(e, f) PROVE NotBefore(d, f)
  <2>1. CASE d = e \/ e = f
    BY <1>2, <2>1 DEF NotBefore
  <2>2. CASE Below(d.digest, e.content) /\ Below(e.digest, f.content)
    BY <2>2 DEF NotBefore, Ordered, Below, Documents, Versions
  <2> QED
    BY <1>2, <2>1, <2>2 DEF NotBefore
<1> QED
  BY <1>1, <1>2

\* A generator reads behind what the published handoff names.
ReadsBehind(g) ==
  proc[g].pc = "derive" =>
    /\ \A i \in Inputs : proc[g].got.content[i] # 0 => handoff.digest[i] <= proc[g].got.content[i]
    /\ proc[g].round = 2 =>
         Below(handoff.digest, proc[g].first.content) /\ Ordered(proc[g].first)

OrderInv ==
  /\ HandoffInv
  /\ \A g \in Generators : ReadsBehind(g)
  /\ Ordered(handoff)

LEMMA HandoffBelow == HandoffInv => Below(handoff.digest, world)
BY DEF HandoffInv, HandoffIsSnapshot, WorldInv, Below, Blank, Typed, Versions

LEMMA ReadsBehindSteps ==
  ASSUME OrderInv, NEW g \in Generators, Step(g)
  PROVE  ReadsBehind(g)'
<1> USE DEF HandoffInv, OrderInv
<1>0. /\ g \in Processes /\ proc[g] \in Procs /\ world \in Versions
      /\ handoff.digest \in Versions /\ Below(handoff.digest, world)
  BY HandoffBelow DEF Typed, Processes, Documents
<1>1. handoff' = handoff \/ PublishHandoff(g)
  BY <1>0, ChangedFiles
<1>2. CASE Derive(g)
  <2>1. PICK d \in Documents :
          /\ proc'[g] = [proc[g] EXCEPT !.got = d]
          /\ \A j \in Inputs :
               \/ d.content[j] = proc[g].got.content[j] /\ d.digest[j] = proc[g].got.digest[j]
               \/ /\ proc[g].got.content[j] = 0
                  /\ d.content[j] = world[j] /\ d.digest[j] = proc[g].got.digest[j]
               \/ /\ proc[g].got.content[j] # 0
                  /\ d.content[j] = proc[g].got.content[j] /\ d.digest[j] = world[j]
    BY <1>0, <1>2, DeriveDoes
  <2>2. /\ proc'[g].pc = proc[g].pc /\ proc'[g].round = proc[g].round
        /\ proc'[g].first = proc[g].first /\ proc'[g].got = d
    BY <1>0, <2>1 DEF Procs
  <2>3. handoff' = handoff
    BY <1>2 DEF Derive, UnchangedFiles
  <2>4. proc[g].pc = "derive" =>
          \A i \in Inputs : d.content[i] # 0 => handoff.digest[i] <= d.content[i]
    BY <1>0, <2>1 DEF ReadsBehind, Below
  <2> QED
    BY <2>2, <2>3, <2>4 DEF ReadsBehind
<1>3. CASE BeginCheck(g) \/ Fail(g) \/ PublishHandoff(g)
  <2>1. proc'[g].pc # "derive"
    BY <1>0, <1>3, CommonPlaces DEF PublishHandoff
  <2> QED
    BY <2>1 DEF ReadsBehind
<1>4. CASE BeginHandoff(g)
  <2>1. proc'[g] = [Fresh EXCEPT !.pc = "derive"]
    BY <1>0, <1>4, BecomesIs DEF BeginHandoff
  <2>2. proc'[g].got = Blank /\ proc'[g].round = 1
    BY <2>1 DEF Fresh
  <2> QED
    BY <2>2 DEF ReadsBehind, Blank
<1>5. CASE DeriveAgain(g)
  <2>1. CASE Ends(g, "failed")
    BY <1>0, <2>1, CommonPlaces DEF ReadsBehind
  <2>2. CASE Becomes(g, [proc[g] EXCEPT !.round = 2, !.first = proc[g].got, !.got = Blank])
    <3>1. proc'[g] = [proc[g] EXCEPT !.round = 2, !.first = proc[g].got, !.got = Blank]
      BY <1>0, <2>2, BecomesIs
    <3>2. proc'[g].got = Blank /\ proc'[g].first = proc[g].got /\ handoff' = handoff
      BY <1>0, <1>5, <3>1 DEF Procs, DeriveAgain, UnchangedFiles
    <3>3. /\ proc[g].pc = "derive" /\ Complete(proc[g].got)
          /\ ReadSoFar(proc[g].got, world)
      BY <1>5 DEF DeriveAgain, GeneratorAt
    <3>4. Ordered(proc[g].got) /\ \A i \in Inputs : proc[g].got.content[i] # 0
      BY <3>3 DEF Complete, ReadSoFar, Ordered, Below
    <3>5. Below(handoff.digest, proc[g].got.content)
      BY <3>3, <3>4 DEF ReadsBehind, Below
    <3> QED
      BY <3>2, <3>4, <3>5 DEF ReadsBehind, Blank
  <2> QED
    BY <1>5, <2>1, <2>2 DEF DeriveAgain
<1> QED
  BY <1>2, <1>3, <1>4, <1>5, StepOfGenerators

\* A handoff is only ever replaced by one that was read behind it.
LEMMA OrderStep ==
  ASSUME OrderInv, [Next]_vars
  PROVE  OrderInv' /\ NotBefore(handoff, handoff')
<1>1. HandoffInv' /\ HandoffInv
  BY HandoffStep DEF OrderInv
<1>2. CASE UNCHANGED vars
  BY <1>1, <1>2 DEF vars, OrderInv, ReadsBehind, Ordered, NotBefore
<1>3. ASSUME NEW i \in Inputs, Write(i) PROVE OrderInv' /\ NotBefore(handoff, handoff')
  BY <1>1, <1>3 DEF Write, UnchangedFiles, OrderInv, ReadsBehind, Ordered, NotBefore
<1>4. ASSUME NEW p \in Processes, Step(p) PROVE OrderInv' /\ NotBefore(handoff, handoff')
  <2>1. CASE handoff' = handoff
    <3>1. \A g \in Generators : ReadsBehind(g)'
      BY <1>1, <1>4, <2>1, ReadsBehindSteps, OthersStay
      DEF OrderInv, ReadsBehind, HandoffInv, Processes
    <3> QED
      BY <1>1, <2>1, <3>1 DEF OrderInv, NotBefore
  <2>2. CASE p \in Generators /\ PublishHandoff(p) /\ handoff' # handoff
    <3>1. /\ proc[p].pc = "derive" /\ proc[p].round = 2 /\ handoff' = proc[p].first
      BY <2>2 DEF PublishHandoff
    <3>2. Below(handoff.digest, proc[p].first.content) /\ Ordered(proc[p].first)
      BY <2>2, <3>1 DEF OrderInv, ReadsBehind
    <3>3. ASSUME NEW g \in Generators PROVE ReadsBehind(g)'
      <4>1. CASE g = p
        BY <1>4, <4>1, ReadsBehindSteps
      <4>2. CASE g # p
        <5>1. proc'[g] = proc[g]
          BY <1>1, <1>4, <4>2, OthersStay DEF HandoffInv, Processes
        <5>2. proc[g].pc # "derive"
          BY <1>1, <2>2, <3>1, <4>2 DEF HandoffInv, GeneratorAt
        <5> QED
          BY <5>1, <5>2 DEF ReadsBehind
      <4> QED
        BY <4>1, <4>2
    <3> QED
      BY <1>1, <3>1, <3>2, <3>3 DEF OrderInv, NotBefore
  <2> QED
    BY <1>4, <2>1, <2>2, ChangedFiles
<1> QED
  BY <1>2, <1>3, <1>4, StepsOfProcesses, <1>1 DEF HandoffInv

\* Actions that bear a digest bear that of the handoff they are of, or of a later one.
Borne(a, h) ==
  a.kind = "actions" =>
    Ordered(a.of) /\ Ordered(a.sha) /\ NotBefore(a.of, a.sha) /\ NotBefore(a.sha, h)

\* What a validator derives it reads behind the file it was given.
PlanAt(n) ==
  /\ proc[n].pc = "raw" =>
       /\ Ordered(proc[n].first) /\ NotBefore(proc[n].first, handoff)
       /\ proc[n].given.kind = "actions" => NotBefore(proc[n].given.sha, proc[n].first)
  /\ Borne(proc[n].given, handoff) /\ Borne(proc[n].made, handoff)
  /\ proc[n].given.kind = "actions" /\ proc[n].made.kind = "actions" =>
       NotBefore(proc[n].given.sha, proc[n].made.of)
  /\ n \in PlanValidators /\ proc[n].says = "ok" /\ proc[n].given.kind = "actions" =>
       proc[n].given.of = proc[n].given.sha

PlanInv ==
  /\ OrderInv
  /\ Borne(nextActions, handoff)
  /\ \A n \in Planners \cup PlanValidators : PlanAt(n)

LEMMA BorneLater ==
  ASSUME NEW a \in Given, NEW h \in Documents, NEW h2 \in Documents, Ordered(h),
         Borne(a, h), NotBefore(h, h2)
  PROVE  Borne(a, h2)
BY NotBeforeOrder DEF Borne, Given

LEMMA PlanStays ==
  ASSUME OrderInv, [Next]_vars, NEW n \in Planners \cup PlanValidators, PlanAt(n),
         proc'[n] = proc[n]
  PROVE  PlanAt(n)'
<1>1. /\ handoff \in Documents /\ handoff' \in Documents /\ Ordered(handoff)
      /\ NotBefore(handoff, handoff')
  BY OrderStep DEF OrderInv, HandoffInv, Typed
<1>2. proc[n].given \in Given /\ proc[n].made \in Given /\ proc[n].first \in Documents
  BY DEF OrderInv, HandoffInv, Typed, Procs, Processes
<1>3. Borne(proc[n].given, handoff') /\ Borne(proc[n].made, handoff')
  BY <1>1, <1>2, BorneLater DEF PlanAt
<1>4. proc[n].pc = "raw" => NotBefore(proc[n].first, handoff')
  BY <1>1, <1>2, NotBeforeOrder DEF PlanAt
<1> QED
  BY <1>3, <1>4 DEF PlanAt

LEMMA PlanSteps ==
  ASSUME PlanInv, NEW n \in Planners \cup PlanValidators, Step(n)
  PROVE  PlanAt(n)'
<1> USE DEF HandoffInv, OrderInv, PlanInv
<1>0. /\ n \in Processes /\ proc[n] \in Procs /\ handoff \in Documents
      /\ proc[n].given \in Given /\ proc[n].made \in Given /\ proc[n].first \in Documents
      /\ n \notin Generators
  BY RolesAssumption DEF Typed, Processes, Procs
<1>1. handoff' = handoff
  BY <1>0, ChangedFiles
<1> DEFINE Keeps == /\ proc'[n].given = proc[n].given /\ proc'[n].made = proc[n].made
                    /\ proc'[n].says = proc[n].says
<1>2. ASSUME Keeps, proc'[n].pc # "raw" PROVE PlanAt(n)'
  BY <1>1, <1>2 DEF PlanAt
<1>3. ASSUME NEW verdict, Ends(n, verdict),
             verdict = "ok" /\ n \in PlanValidators /\ proc[n].given.kind = "actions" =>
               proc[n].given.of = proc[n].given.sha
      PROVE  PlanAt(n)'
  <2>1. proc'[n].made = NoActions
    BY <1>0, <1>3 DEF Ends, Becomes, Typed, Fresh
  <2> QED
    BY <1>0, <1>1, <1>3, <2>1, EndedAs DEF PlanAt, Borne, NoActions, Actions
<1>4. CASE Derive(n)
  <2>1. Keeps /\ proc'[n].pc = proc[n].pc /\ proc[n].pc # "raw"
    BY <1>0, <1>4, DeriveDoes DEF Procs
  <2> QED
    BY <1>2, <2>1
<1>5. CASE BeginCheck(n)
  <2>1. proc'[n] = [proc[n] EXCEPT !.pc = "check", !.seen = handoff, !.got = Blank]
    BY <1>0, <1>5 DEF BeginCheck, Becomes, Typed
  <2> QED
    BY <1>0, <1>2, <2>1 DEF Procs
<1>6. CASE Fail(n)
  BY <1>3, <1>6 DEF Fail
<1>7. CASE CheckForPlan(n)
  <2>1. CASE Ends(n, "failed")
    BY <1>3, <2>1
  <2>2. ASSUME NEW pc \in {"read", "plan"}, Becomes(n, [proc[n] EXCEPT !.pc = pc])
        PROVE  PlanAt(n)'
    <3>1. proc'[n] = [proc[n] EXCEPT !.pc = pc]
      BY <1>0, <2>2 DEF Becomes, Typed
    <3> QED
      BY <1>0, <1>2, <3>1 DEF Procs
  <2>3. CASE Becomes(n, [proc[n] EXCEPT !.pc = "stale", !.got = Blank])
    <3>1. proc'[n] = [proc[n] EXCEPT !.pc = "stale", !.got = Blank]
      BY <1>0, <2>3 DEF Becomes, Typed
    <3> QED
      BY <1>0, <1>2, <3>1 DEF Procs
  <2> QED
    BY <1>7, <2>1, <2>2, <2>3 DEF CheckForPlan
<1>8. CASE ReadHandoff(n)
  <2>1. CASE Ends(n, "failed")
    BY <1>3, <2>1
  <2>2. CASE Becomes(n, [proc[n] EXCEPT !.pc = "raw", !.first = handoff])
    <3>1. proc'[n] = [proc[n] EXCEPT !.pc = "raw", !.first = handoff]
      BY <1>0, <2>2 DEF Becomes, Typed
    <3>2. Keeps /\ proc'[n].first = handoff
      BY <1>0, <3>1 DEF Procs
    <3>3. proc[n].given.kind = "actions" => NotBefore(proc[n].given.sha, handoff)
      BY DEF PlanAt, Borne
    <3> QED
      BY <1>1, <3>2, <3>3 DEF PlanAt, NotBefore
  <2> QED
    BY <1>8, <2>1, <2>2 DEF ReadHandoff
<1>9. CASE ReadRaw(n)
  <2> DEFINE made == Actions("actions", proc[n].first, handoff)
  <2>1. proc[n].pc = "raw" /\ proc'[n] = [proc[n] EXCEPT !.pc = "lock", !.round = 2, !.made = made]
    BY <1>0, <1>9 DEF ReadRaw, Becomes, Typed
  <2>2. made.of = proc[n].first /\ made.sha = handoff /\ made.kind = "actions"
    BY DEF Actions
  <2> HIDE DEF made
  <2>3. /\ proc'[n].given = proc[n].given /\ proc'[n].made = made
        /\ proc'[n].says = proc[n].says /\ proc'[n].pc = "lock"
    BY <1>0, <2>1 DEF Procs
  <2>4. Borne(made, handoff)
    BY <2>1, <2>2 DEF PlanAt, Borne, NotBefore
  <2>5. proc[n].given.kind = "actions" => NotBefore(proc[n].given.sha, made.of)
    BY <2>1, <2>2 DEF PlanAt
  <2> QED
    BY <1>1, <2>3, <2>4, <2>5 DEF PlanAt
<1>10. CASE StaleActions(n)
  <2> DEFINE made == Actions("stale", proc[n].got, handoff)
  <2>1. proc'[n] = [proc[n] EXCEPT !.pc = "plan", !.made = made]
    BY <1>0, <1>10 DEF StaleActions, Becomes, Typed
  <2>2. made.kind = "stale"
    BY DEF Actions
  <2> HIDE DEF made
  <2>3. /\ proc'[n].given = proc[n].given /\ proc'[n].made = made
        /\ proc'[n].says = proc[n].says /\ proc'[n].pc = "plan"
    BY <1>0, <2>1 DEF Procs
  <2> QED
    BY <1>1, <2>2, <2>3 DEF PlanAt, Borne
<1>11. CASE BeginPlan(n)
  <2>1. proc'[n] = [Fresh EXCEPT !.pc = "lock"]
    BY <1>0, <1>11 DEF BeginPlan, Becomes, Typed
  <2>2. /\ proc'[n].given = NoActions /\ proc'[n].made = NoActions
        /\ proc'[n].pc = "lock" /\ proc'[n].says = "nothing"
    BY <2>1 DEF Fresh
  <2> QED
    BY <1>1, <2>2 DEF PlanAt, Borne, NoActions, Actions
<1>12. CASE BeginPlanCheck(n)
  <2>1. proc'[n] = [Fresh EXCEPT !.pc = "lock", !.given = nextActions]
    BY <1>0, <1>12 DEF BeginPlanCheck, Becomes, Typed
  <2>2. /\ proc'[n].given = nextActions /\ proc'[n].made = NoActions
        /\ proc'[n].pc = "lock" /\ proc'[n].says = "nothing"
    BY <2>1 DEF Fresh
  <2> QED
    BY <1>1, <2>2 DEF PlanAt, Borne, NoActions, Actions
<1>13. CASE WriteActions(n)
  <2>1. n \notin PlanValidators /\ Ends(n, "ok")
    BY <1>13, RolesAssumption DEF WriteActions
  <2> QED
    BY <1>3, <2>1
<1>14. CASE CompareActions(n)
  <2>1. CASE Ends(n, "drift")
    BY <1>3, <2>1
  <2>2. CASE SameActions(n) /\ Ends(n, "ok")
    <3>1. ASSUME proc[n].given.kind = "actions" PROVE proc[n].given.of = proc[n].given.sha
      <4>1. proc[n].made = proc[n].given
        BY <2>2 DEF SameActions
      <4>2. /\ NotBefore(proc[n].given.sha, proc[n].given.of)
            /\ NotBefore(proc[n].given.of, proc[n].given.sha)
            /\ Ordered(proc[n].given.sha) /\ Ordered(proc[n].given.of)
        BY <3>1, <4>1 DEF PlanAt, Borne
      <4>3. proc[n].given.of \in Documents /\ proc[n].given.sha \in Documents
        BY <1>0 DEF Given
      <4> QED
        BY <4>2, <4>3, NotBeforeOrder
    <3> QED
      BY <1>3, <2>2, <3>1
  <2> QED
    BY <1>14, <2>1, <2>2 DEF CompareActions
<1> QED
  BY <1>4, <1>5, <1>6, <1>7, <1>8, <1>9, <1>10, <1>11, <1>12, <1>13, <1>14, StepOfPlanners

LEMMA PlanStep == PlanInv /\ [Next]_vars => PlanInv'
<1> SUFFICES ASSUME PlanInv, [Next]_vars PROVE PlanInv'
  OBVIOUS
<1>1. OrderInv /\ OrderInv' /\ NotBefore(handoff, handoff')
  BY OrderStep DEF PlanInv
<1>2. Borne(nextActions, handoff')
  <2>1. nextActions \in Given /\ handoff \in Documents /\ handoff' \in Documents
    BY <1>1 DEF OrderInv, HandoffInv, Typed
  <2> QED
    BY <1>1, <2>1, BorneLater DEF PlanInv, OrderInv
<1>3. CASE UNCHANGED vars
  BY <1>1, <1>2, <1>3, PlanStays DEF vars, PlanInv
<1>4. ASSUME NEW i \in Inputs, Write(i) PROVE PlanInv'
  BY <1>1, <1>2, <1>4, PlanStays DEF Write, UnchangedFiles, PlanInv
<1>5. ASSUME NEW p \in Processes, Step(p) PROVE PlanInv'
  <2>1. \A n \in Planners \cup PlanValidators : PlanAt(n)'
    BY <1>1, <1>5, PlanStays, PlanSteps, OthersStay DEF PlanInv, OrderInv, HandoffInv, Processes
  <2>2. ASSUME WriteActions(p) PROVE Borne(nextActions', handoff')
    <3>1. nextActions' = proc[p].made /\ handoff' = handoff /\ p \in Planners
      BY <2>2 DEF WriteActions
    <3> QED
      BY <3>1 DEF PlanInv, PlanAt
  <2> QED
    BY <1>1, <1>2, <1>5, <2>1, <2>2, ChangedFiles DEF PlanInv
<1> QED
  BY <1>3, <1>4, <1>5, StepsOfProcesses, <1>1

LEMMA PlanInit == Init => PlanInv
<1> SUFFICES ASSUME Init PROVE PlanInv
  OBVIOUS
<1>1. \A p \in Processes : /\ proc[p].pc \in {"idle", "done"} /\ proc[p].says = "nothing"
                           /\ proc[p].given = NoActions /\ proc[p].made = NoActions
  BY DEF Init, Fresh
<1>2. Ordered(handoff)
  BY DEF Init, Ordered, Below, Blank, DocumentOf
<1>3. OrderInv
  BY <1>1, <1>2, HandoffInit DEF OrderInv, ReadsBehind, Processes
<1>4. nextActions = NoActions /\ NoActions.kind = "none"
  BY DEF Init, NoActions, Actions
<1> QED
  BY <1>1, <1>3, <1>4 DEF PlanInv, PlanAt, Borne, Processes

\* validate_next_actions_current: actions that it accepts were derived from the very handoff whose
\* digest they bear, although render_next_actions reads the handoff twice without the lock.
THEOREM AcceptedActionsAreOfHandoff == Spec => []AcceptedActions
<1>1. PlanInv => AcceptedActions
  BY DEF PlanInv, PlanAt, AcceptedActions
<1> QED
  BY PlanInit, PlanStep, <1>1, PTL DEF Spec
=============================================================================
