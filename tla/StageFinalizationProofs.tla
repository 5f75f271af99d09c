------------------------ MODULE StageFinalizationProofs ------------------------
(***************************************************************************)
(* Proofs about StageFinalization, for any finalizers, documents, bounds   *)
(* and other writers.                                                      *)
(***************************************************************************)
EXTENDS StageFinalization, TLAPS

Files == Documents \union {Missing}
Places == {"idle", "digest", "validate", "load", "state", "lock",
           "redigest", "revalidate", "reload", "append"}
HaltContexts == Contexts \union {None} \union {HaltContext(d) : d \in Documents}
WorkflowStates ==
  [stage : STAGES \union {None}, status : STATUSES \union {None}, ctx : HaltContexts]
Looks == [doc : Files, approved : BOOLEAN]
Calls == [stage : FinalizableStages, digest : Documents, revision : Nat]
Events ==
  [kind : OtherEvents \union {"complete", "pause", "block"},
   fromStage : STAGES \union {None}, fromStatus : STATUSES \union {None},
   stage : STAGES, status : STATUSES, ctx : HaltContexts, material : BOOLEAN]
Records ==
  [event : Events, digest : Documents \union {None},
   subject : {d.id : d \in Documents} \union {None}, expected : Nat, seen : SUBSET Looks]

Typed ==
  /\ cur \in WorkflowStates
  /\ journal \in Seq(Records)
  /\ file \in Files
  /\ drifted \subseteq Documents
  /\ lock \in Procs \union {None}
  /\ pc \in [Procs -> Places]
  /\ call \in [Procs -> Calls \union {Unfinalized}]
  /\ loaded \in [Procs -> Files]
  /\ shown \in [Procs -> SUBSET Looks]
  /\ \A p \in Procs : pc[p] # "idle" => call[p] \in Calls

\* Where the lock is held, and where a document is loaded.
Held == {"redigest", "revalidate", "reload", "append"}
Loaded == {"state", "lock"} \union Held

\* Who records holds the lock since it found the stage at work.
Locked == \A p \in Procs : pc[p] \in Held => lock = p /\ cur.status = "running"

HaveLoaded == \A p \in Procs : pc[p] \in Loaded => loaded[p] \in Documents

\* As long as the stage is at work, something put it to work after each of its outcomes.
AtWorkAgain ==
  cur.status = "running" =>
    \A i \in Results : \E k \in i+1..Len(journal) : journal[k].event.status = "running"

\* What the holder of the lock has been shown so far, the present content included.
HasSeen(p) ==
  /\ pc[p] \in Held => Look(p, file, drifted) \subseteq shown[p]
  /\ pc[p] \in {"revalidate", "reload", "append"} => \E s \in shown[p] : s.doc = call[p].digest
  /\ pc[p] \in {"reload", "append"} => \E s \in shown[p] : s.approved /\ s.doc.id = loaded[p].id
Seen == \A p \in Procs : HasSeen(p)

IInv ==
  /\ Typed /\ Locked /\ HaveLoaded /\ AtWorkAgain /\ Seen
  /\ OneOutcomePerRun /\ RecheckedUnderLock

\* For contents that do not come back: once the file is not the named result any more, it never
\* is again, so that what was loaded is the named result or the call will be refused.
NamedOrGone(p) ==
  /\ pc[p] \notin {"idle", "digest"} => call[p].digest \in written
  /\ pc[p] \in {"load"} \union Loaded =>
       \/ file # call[p].digest
       \/ loaded[p] = call[p].digest /\ loaded[p].stage = call[p].stage
  /\ pc[p] \in {"revalidate", "reload", "append"} =>
       loaded[p] = call[p].digest /\ loaded[p].stage = call[p].stage
NamedInv ==
  /\ file \in written
  /\ \A p \in Procs : NamedOrGone(p)
  /\ OutcomeOfNamedResult
-----------------------------------------------------------------------------
\* The steps of a finalizer, by what they change: it is over, it passes a check, or it does one
\* of the four things that are more than a check.
Over(p) ==
  /\ pc[p] # "idle"
  /\ End(p)
  /\ UNCHANGED <<cur, journal, environment>>

Passes(p, at, next) ==
  /\ pc[p] = at
  /\ Goto(p, next)
  /\ UNCHANGED <<cur, journal, environment, lock, call, loaded, kills, shown>>

PassesCheck(p) ==
  \/ Passes(p, "digest", "validate") /\ file = call[p].digest
  \/ Passes(p, "state", "lock")
  \/ Passes(p, "redigest", "revalidate") /\ file = call[p].digest
  \/ /\ Passes(p, "revalidate", "reload")
     /\ Approves(call[p].stage, file, drifted) /\ SameSubject(file, loaded[p])
  \/ Passes(p, "reload", "append")

\* A read of the document: the one the validator makes, and that of load_json.
Reads(p, at, next) ==
  /\ pc[p] = at
  /\ file # Missing
  /\ loaded' = [loaded EXCEPT ![p] = file]
  /\ Goto(p, next)
  /\ UNCHANGED <<cur, journal, environment, lock, call, kills, shown>>

ReadsDocument(p) ==
  \/ Reads(p, "validate", "load") /\ file.stage = call[p].stage
  \/ Reads(p, "load", "state")

TakesLock(p) ==
  /\ pc[p] = "lock" /\ lock = None
  /\ Allowed(cur, EventMaterial(call[p].stage, loaded[p]))
  /\ lock' = p
  /\ shown' = [shown EXCEPT ![p] = Look(p, file, drifted)]
  /\ Goto(p, "redigest")
  /\ UNCHANGED <<cur, journal, environment, call, loaded, kills>>

\* Every step is one of these.
LEMMA StepsOfFinalizers ==
  ASSUME NEW p \in Procs, Continue(p) \/ Kill(p)
  PROVE  Over(p) \/ PassesCheck(p) \/ ReadsDocument(p) \/ TakesLock(p) \/ RecordResult(p)
<1>1. CASE Kill(p)
  BY <1>1 DEF Kill, Over, environment
<1>2. CASE InitialDigest(p)
  BY <1>2 DEF InitialDigest, Check, Refuse, Over, PassesCheck, Passes
<1>3. CASE Validate(p)
  BY <1>3 DEF Validate, Approves, Refuse, Over, ReadsDocument, Reads
<1>4. CASE Load(p)
  BY <1>4 DEF Load, SameSubject, Refuse, Over, ReadsDocument, Reads
<1>5. CASE ReadState(p)
  BY <1>5 DEF ReadState, Check, Refuse, Over, PassesCheck, Passes
<1>6. CASE Lock(p)
  BY <1>6 DEF Lock, Refuse, Over, TakesLock
<1>7. CASE LockTimeout(p)
  BY <1>7 DEF LockTimeout, Refuse, Over
<1>8. CASE RecheckDigest(p)
  BY <1>8 DEF RecheckDigest, Check, Refuse, Over, PassesCheck, Passes
<1>9. CASE Revalidate(p)
  BY <1>9 DEF Revalidate, Check, Refuse, Over, PassesCheck, Passes
<1>10. CASE Reload(p)
  BY <1>10 DEF Reload, Check, Refuse, Over, PassesCheck, Passes
<1>11. CASE RecordResult(p)
  BY <1>11
<1> QED
  BY <1>1, <1>2, <1>3, <1>4, <1>5, <1>6, <1>7, <1>8, <1>9, <1>10, <1>11 DEF Continue

\* The event of a document is an event.
LEMMA EventTyped ==
  ASSUME NEW stage \in FinalizableStages, NEW d \in Documents
  PROVE  /\ EventMaterial(stage, d) \in Events
         /\ EventMaterial(stage, d).status \in {"completed", "paused", "blocked"}
<1>1. HaltContext(d) \in HaltContexts
  BY DEF HaltContexts
<1>2. d.status \in {"complete", "partial", "blocked"}
  BY FinalizersAssumption
<1>3. /\ Outcome[d.status].kind \in {"complete", "pause", "block"}
      /\ Outcome[d.status].status \in {"completed", "paused", "blocked"}
  BY <1>2 DEF Outcome
<1> QED
  BY <1>1, <1>3 DEF EventMaterial, Events, FinalizableStages, STAGES, STATUSES

LEMMA LookTyped ==
  ASSUME NEW p \in Procs, NEW d \in Files, NEW gone
  PROVE  Look(p, d, gone) \subseteq Looks
BY DEF Look, Looks, Approves

LEMMA TargetTyped ==
  ASSUME NEW e \in Events
  PROVE  Target(e) \in WorkflowStates
BY DEF Events, Target, WorkflowStates

-----------------------------------------------------------------------------
\* Types.
LEMMA OverTyped ==
  ASSUME Typed, NEW p \in Procs, Over(p)
  PROVE  Typed'
<1>1. call' \in [Procs -> Calls \union {Unfinalized}]
  BY DEF Typed, Over, End
<1>2. loaded' \in [Procs -> Files] /\ shown' \in [Procs -> SUBSET Looks]
  BY DEF Typed, Over, End, Files
<1>3. pc' \in [Procs -> Places] /\ lock' \in Procs \union {None}
  BY DEF Typed, Over, End, Goto, Places
<1>4. \A q \in Procs : pc'[q] # "idle" => call'[q] \in Calls
  BY DEF Typed, Over, End, Goto
<1> QED
  BY <1>1, <1>2, <1>3, <1>4 DEF Typed, Over, environment

LEMMA PassesTyped ==
  ASSUME Typed, NEW p \in Procs, PassesCheck(p)
  PROVE  Typed'
<1>1. PICK at \in Places \ {"idle"}, next \in Places \ {"idle"} : Passes(p, at, next)
  BY DEF PassesCheck, Places
<1>2. pc' \in [Procs -> Places] /\ \A q \in Procs : pc'[q] # "idle" => call'[q] \in Calls
  BY <1>1 DEF Typed, Passes, Goto
<1> QED
  BY <1>1, <1>2 DEF Typed, Passes, environment

LEMMA ReadsTyped ==
  ASSUME Typed, NEW p \in Procs, ReadsDocument(p)
  PROVE  Typed'
<1>1. PICK at \in Places \ {"idle"}, next \in Places \ {"idle"} : Reads(p, at, next)
  BY DEF ReadsDocument, Places
<1>2. pc' \in [Procs -> Places] /\ \A q \in Procs : pc'[q] # "idle" => call'[q] \in Calls
  BY <1>1 DEF Typed, Reads, Goto
<1>3. loaded' \in [Procs -> Files]
  BY <1>1 DEF Typed, Reads
<1> QED
  BY <1>1, <1>2, <1>3 DEF Typed, Reads, environment

LEMMA TakesTyped ==
  ASSUME Typed, NEW p \in Procs, TakesLock(p)
  PROVE  Typed'
<1>1. pc' \in [Procs -> Places] /\ \A q \in Procs : pc'[q] # "idle" => call'[q] \in Calls
  BY DEF Typed, TakesLock, Goto, Places
<1>2. shown' \in [Procs -> SUBSET Looks]
  BY LookTyped DEF Typed, TakesLock
<1> QED
  BY <1>1, <1>2 DEF Typed, TakesLock, environment

LEMMA RecordTyped ==
  ASSUME Typed, HaveLoaded, NEW p \in Procs, RecordResult(p)
  PROVE  RecordOf(p) \in Records /\ Typed'
<1>1. call[p] \in Calls /\ loaded[p] \in Documents /\ shown[p] \in SUBSET Looks
  BY DEF Typed, HaveLoaded, RecordResult, Loaded, Held
<1>2. call[p].stage \in FinalizableStages /\ call[p].digest \in Documents /\ call[p].revision \in Nat
  BY <1>1 DEF Calls
<1>3. EventMaterial(call[p].stage, loaded[p]) \in Events
  BY <1>1, <1>2, EventTyped
<1>4. RecordOf(p) \in Records
  BY <1>1, <1>2, <1>3 DEF RecordOf, Records
<1>5. cur' \in WorkflowStates
  BY <1>3, TargetTyped DEF RecordResult, RecordOf
<1>6. journal' \in Seq(Records)
  BY <1>4 DEF Typed, RecordResult
<1>7. call' \in [Procs -> Calls \union {Unfinalized}]
  BY DEF Typed, RecordResult, End
<1>8. loaded' \in [Procs -> Files] /\ shown' \in [Procs -> SUBSET Looks]
  BY DEF Typed, RecordResult, End, Files
<1>9. pc' \in [Procs -> Places] /\ lock' \in Procs \union {None}
  BY DEF Typed, RecordResult, End, Goto, Places
<1>10. \A q \in Procs : pc'[q] # "idle" => call'[q] \in Calls
  BY DEF Typed, RecordResult, End, Goto
<1> QED
  BY <1>4, <1>5, <1>6, <1>7, <1>8, <1>9, <1>10 DEF Typed, RecordResult, environment

LEMMA CallTyped ==
  ASSUME Typed, NEW p \in Procs, NEW r \in Requests, NEW n \in 0..Revision,
         Call(p, r.stage, r.digest, n)
  PROVE  Typed'
<1>1. r.stage \in FinalizableStages /\ r.digest \in Documents
  BY RequestsAssumption DEF FinalizableStages
<1>2. n \in Nat
  BY DEF Typed, Revision
<1>3. [stage |-> r.stage, digest |-> r.digest, revision |-> n] \in Calls
  BY <1>1, <1>2 DEF Calls
<1>4. call' \in [Procs -> Calls \union {Unfinalized}]
  BY <1>3 DEF Typed, Call
<1>5. pc' \in [Procs -> Places] /\ \A q \in Procs : pc'[q] # "idle" => call'[q] \in Calls
  BY <1>3 DEF Typed, Call, Goto, Places
<1> QED
  BY <1>4, <1>5 DEF Typed, Call, environment


LEMMA OtherTyped ==
  ASSUME Typed, OtherWriter
  PROVE  /\ Typed'
         /\ \E e \in Events : /\ OtherRecord(e) \in Records
                             /\ journal' = Append(journal, OtherRecord(e))
                             /\ cur' = Target(e)
<1>1. PICK kind \in OtherEvents, status \in STATUSES, stage \in FinalizableStages,
           ctx \in Contexts \union {None} :
        LET e == [kind |-> kind, fromStage |-> cur.stage, fromStatus |-> cur.status,
                  stage |-> stage, status |-> status, ctx |-> ctx, material |-> TRUE]
        IN  journal' = Append(journal, OtherRecord(e)) /\ cur' = Target(e)
  BY DEF OtherWriter
<1> DEFINE e == [kind |-> kind, fromStage |-> cur.stage, fromStatus |-> cur.status,
                 stage |-> stage, status |-> status, ctx |-> ctx, material |-> TRUE]
<1>2. journal' = Append(journal, OtherRecord(e)) /\ cur' = Target(e)
  BY <1>1
<1>3. e \in Events
  BY DEF Typed, WorkflowStates, Events, HaltContexts, FinalizableStages, STAGES
<1> HIDE DEF e
<1>4. OtherRecord(e) \in Records
  <2>1. Revision \in Nat
    BY DEF Typed, Revision
  <2>2. {} \in SUBSET Looks
    OBVIOUS
  <2> QED
    BY <1>3, <2>1, <2>2 DEF OtherRecord, Records
<1>5. cur' \in WorkflowStates /\ journal' \in Seq(Records)
  BY <1>2, <1>3, <1>4, TargetTyped DEF Typed
<1>6. Typed'
  BY <1>5 DEF Typed, OtherWriter, environment
<1> QED
  BY <1>2, <1>3, <1>4, <1>6

LEMMA EditsTyped ==
  ASSUME Typed, NEW d \in Files, EditResult(d) \/ (d \in Documents /\ DriftMaterial(d))
  PROVE  Typed'
<1>1. shown' \in [Procs -> SUBSET Looks]
  BY LookTyped DEF Typed, EditResult, DriftMaterial, ShownAfter
<1> QED
  BY <1>1 DEF Typed, EditResult, DriftMaterial, Files

LEMMA InitTyped == Init => Typed
<1> SUFFICES ASSUME Init PROVE Typed
  OBVIOUS
<1>1. cur \in WorkflowStates
  BY FinalizersAssumption DEF Init, WorkflowStates, TransitionState, HaltContexts
<1>2. journal \in Seq(Records)
  BY DEF Init
<1>3. pc \in [Procs -> Places] /\ call \in [Procs -> Calls \union {Unfinalized}]
      /\ loaded \in [Procs -> Files] /\ shown \in [Procs -> SUBSET Looks]
  BY DEF Init, Places, Files
<1> QED
  BY <1>1, <1>2, <1>3 DEF Init, Typed, Files

-----------------------------------------------------------------------------
\* The lock, and what is loaded.
Holding == Locked /\ HaveLoaded

LEMMA HoldingStep ==
  ASSUME Typed, Typed', Holding, [Next]_vars
  PROVE  Holding'
<1> USE DEF Holding, Locked, HaveLoaded, Held, Loaded
<1>1. CASE UNCHANGED vars
  BY <1>1 DEF vars
<1>2. ASSUME NEW p \in Procs, NEW r \in Requests, NEW n \in 0..Revision,
             Call(p, r.stage, r.digest, n)
      PROVE  Holding'
  BY <1>2 DEF Call, Goto, Typed
<1>3. ASSUME NEW p \in Procs, Over(p) PROVE Holding'
  BY <1>3 DEF Over, End, Goto, Typed
<1>4. ASSUME NEW p \in Procs, PassesCheck(p) PROVE Holding'
  BY <1>4 DEF PassesCheck, Passes, Goto, Typed
<1>5. ASSUME NEW p \in Procs, ReadsDocument(p) PROVE Holding'
  BY <1>5 DEF ReadsDocument, Reads, Goto, Typed, Files
<1>6. ASSUME NEW p \in Procs, TakesLock(p) PROVE Holding'
  <2>1. call[p] \in Calls /\ loaded[p] \in Documents
    BY <1>6 DEF TakesLock, Typed
  <2>2. cur.status = "running"
    <3>1. cur.stage \in FinalizableStages /\ cur.stage = call[p].stage
      BY <1>6, <2>1 DEF TakesLock, Allowed, SourceMatches, EventMaterial, Calls
    <3>2. cur.stage # None
      BY <3>1, NoneIsNoValue DEF FinalizableStages, STAGES
    <3> QED
      BY <1>6, <3>2 DEF TakesLock, Allowed, SourceMatches, EventMaterial
  <2>3. \A q \in Procs : pc[q] \notin Held
    BY <1>6, FinalizersAssumption DEF TakesLock
  <2> QED
    BY <1>6, <2>1, <2>2, <2>3 DEF TakesLock, Goto, Typed
<1>7. ASSUME NEW p \in Procs, RecordResult(p) PROVE Holding'
  <2>1. \A q \in Procs : q # p => pc[q] \notin Held
    BY <1>7 DEF RecordResult
  <2> QED
    BY <1>7, <2>1 DEF RecordResult, End, Goto, Typed
<1>8. CASE OtherWriter
  <2>1. \A q \in Procs : pc[q] \notin Held
    BY <1>8, FinalizersAssumption DEF OtherWriter
  <2> QED
    BY <1>8, <2>1 DEF OtherWriter
<1>9. ASSUME NEW d \in Files, EditResult(d) \/ DriftMaterial(d) PROVE Holding'
  BY <1>9 DEF EditResult, DriftMaterial
<1> QED
  BY <1>1, <1>2, <1>3, <1>4, <1>5, <1>6, <1>7, <1>8, <1>9, StepsOfFinalizers
  DEF Next, CallAny, Files


-----------------------------------------------------------------------------
\* What an appended record leaves of the journal, and which results there are then.
LEMMA Appended ==
  ASSUME journal \in Seq(Records), NEW r \in Records, journal' = Append(journal, r)
  PROVE  /\ Len(journal') = Len(journal) + 1 /\ Len(journal) \in Nat
         /\ \A i \in 1..Len(journal) : journal'[i] = journal[i]
         /\ journal'[Len(journal) + 1] = r
         /\ \A i \in Results' :
              i \in Results \/ (i = Len(journal) + 1 /\ r.digest # None)
         /\ \A i \in Results : i \in 1..Len(journal)
<1>1. /\ Len(journal') = Len(journal) + 1 /\ Len(journal) \in Nat
      /\ \A i \in 1..Len(journal) : journal'[i] = journal[i]
      /\ journal'[Len(journal) + 1] = r
      /\ DOMAIN journal = 1..Len(journal) /\ DOMAIN journal' = 1..Len(journal) + 1
  OBVIOUS
<1> QED
  BY <1>1 DEF Results

\* An event recorded by anybody else keeps both properties.
LEMMA OtherOutcomes ==
  ASSUME Typed, AtWorkAgain, OneOutcomePerRun, OtherWriter
  PROVE  AtWorkAgain' /\ OneOutcomePerRun'
<1>1. PICK e \in Events : /\ OtherRecord(e) \in Records
                          /\ journal' = Append(journal, OtherRecord(e))
                          /\ cur' = Target(e)
  BY OtherTyped
<1> DEFINE r == OtherRecord(e)
<1>3. /\ Len(journal') = Len(journal) + 1 /\ Len(journal) \in Nat
      /\ \A i \in 1..Len(journal) : journal'[i] = journal[i]
      /\ journal'[Len(journal) + 1] = r
      /\ \A i \in Results' : i \in Results \/ (i = Len(journal) + 1 /\ r.digest # None)
      /\ \A i \in Results : i \in 1..Len(journal)
  BY <1>1, Appended DEF Typed
<1>4. r.digest = None /\ r.event = e
  BY DEF OtherRecord
<1>5. cur'.status = e.status
  BY <1>1 DEF Target
<1> HIDE DEF r
<1>6. AtWorkAgain'
  <2> SUFFICES ASSUME cur'.status = "running", NEW i \in Results'
               PROVE  \E k \in i+1..Len(journal') : journal'[k].event.status = "running"
    BY DEF AtWorkAgain
  <2>1. journal'[Len(journal')].event.status = "running"
    BY <1>3, <1>4, <1>5
  <2>2. i \in 1..Len(journal)
    BY <1>3, <1>4
  <2> QED
    BY <1>3, <2>1, <2>2
<1>7. OneOutcomePerRun'
  BY <1>3, <1>4 DEF OneOutcomePerRun
<1> QED
  BY <1>6, <1>7

\* The outcome a finalizer records comes after the stage was put to work again.
LEMMA OwnOutcomes ==
  ASSUME Typed, Holding, AtWorkAgain, OneOutcomePerRun, NEW p \in Procs, RecordResult(p)
  PROVE  AtWorkAgain' /\ OneOutcomePerRun'
<1> DEFINE r == RecordOf(p)
<1>1. r \in Records
  BY RecordTyped DEF Holding
<1>2. /\ Len(journal') = Len(journal) + 1 /\ Len(journal) \in Nat
      /\ \A i \in 1..Len(journal) : journal'[i] = journal[i]
      /\ journal'[Len(journal) + 1] = r
      /\ \A i \in Results' : i \in Results \/ (i = Len(journal) + 1 /\ r.digest # None)
      /\ \A i \in Results : i \in 1..Len(journal)
  BY <1>1, Appended DEF Typed, RecordResult
<1>3. cur'.status # "running"
  <2>1. call[p].stage \in FinalizableStages /\ loaded[p] \in Documents
    BY DEF Typed, Holding, HaveLoaded, RecordResult, Loaded, Held, Calls
  <2> QED
    BY <2>1, EventTyped DEF RecordResult, RecordOf, Target
<1>4. cur.status = "running"
  BY DEF RecordResult, Holding, Locked, Held
<1> HIDE DEF r
<1>5. AtWorkAgain'
  BY <1>3 DEF AtWorkAgain
<1>6. OneOutcomePerRun'
  <2> SUFFICES ASSUME NEW i \in Results', NEW j \in Results', i < j
               PROVE  \E k \in i+1..j-1 : journal'[k].event.status = "running"
    BY DEF OneOutcomePerRun
  <2>1. i \in Results /\ i \in 1..Len(journal)
    BY <1>2
  <2>2. CASE j \in Results
    <3>1. PICK k \in i+1..j-1 : journal[k].event.status = "running"
      BY <2>1, <2>2 DEF OneOutcomePerRun
    <3> QED
      BY <1>2, <2>1, <2>2, <3>1
  <2>3. CASE j = Len(journal) + 1
    <3>1. PICK k \in i+1..Len(journal) : journal[k].event.status = "running"
      BY <1>4, <2>1 DEF AtWorkAgain
    <3> QED
      BY <1>2, <2>1, <2>3, <3>1
  <2> QED
    BY <1>2, <2>2, <2>3
<1> QED
  BY <1>5, <1>6

\* Every other step leaves journal and workflow alone.
LEMMA OtherSteps ==
  ASSUME [Next]_vars,
         ~OtherWriter, \A p \in Procs : ~RecordResult(p)
  PROVE  UNCHANGED <<cur, journal>>
<1>1. ASSUME NEW p \in Procs, NEW r \in Requests, NEW n \in 0..Revision,
             Call(p, r.stage, r.digest, n)
      PROVE  UNCHANGED <<cur, journal>>
  BY <1>1 DEF Call
<1>2. ASSUME NEW p \in Procs, Continue(p) \/ Kill(p) PROVE UNCHANGED <<cur, journal>>
  BY <1>2, StepsOfFinalizers
  DEF Over, PassesCheck, Passes, ReadsDocument, Reads, TakesLock
<1>3. ASSUME NEW d, EditResult(d) \/ DriftMaterial(d) PROVE UNCHANGED <<cur, journal>>
  BY <1>3 DEF EditResult, DriftMaterial
<1> QED
  BY <1>1, <1>2, <1>3 DEF Next, CallAny, vars


-----------------------------------------------------------------------------
\* What the holder of the lock has been shown.

\* A process whose place, call, document and file stay has seen what it had seen.
LEMMA SeenStays ==
  ASSUME NEW q \in Procs, HasSeen(q), pc'[q] = pc[q],
         call'[q] = call[q], loaded'[q] = loaded[q], file' = file, drifted' = drifted,
         shown'[q] = shown[q]
  PROVE  HasSeen(q)'
BY DEF HasSeen, Look

LEMMA SeenStep ==
  ASSUME Typed, Typed', Holding, Seen, [Next]_vars
  PROVE  Seen'
<1>1. CASE UNCHANGED vars
  BY <1>1, SeenStays DEF vars, Seen
<1>2. ASSUME NEW p \in Procs, NEW r \in Requests, NEW n \in 0..Revision,
             Call(p, r.stage, r.digest, n)
      PROVE  Seen'
  <2>1. \A q \in Procs : q # p => HasSeen(q)'
    BY <1>2, SeenStays DEF Call, Goto, Typed, environment, Seen
  <2>2. HasSeen(p)'
    BY <1>2 DEF Call, Goto, Typed, HasSeen, Held
  <2> QED
    BY <2>1, <2>2 DEF Seen
<1>3. ASSUME NEW p \in Procs, Over(p) PROVE Seen'
  <2>1. \A q \in Procs : q # p => HasSeen(q)'
    BY <1>3, SeenStays DEF Over, End, Goto, Typed, environment, Seen
  <2>2. HasSeen(p)'
    BY <1>3 DEF Over, End, Goto, Typed, HasSeen, Held
  <2> QED
    BY <2>1, <2>2 DEF Seen
<1>4. ASSUME NEW p \in Procs, PassesCheck(p) PROVE Seen'
  <2>1. \A q \in Procs : q # p => HasSeen(q)'
    BY <1>4, SeenStays DEF PassesCheck, Passes, Goto, Typed, environment, Seen
  <2> DEFINE now == [doc |-> file, approved |-> Approves(call[p].stage, file, drifted)]
  <2>2. pc[p] \in Held => now \in shown[p]
    BY DEF Seen, HasSeen, Look
  <2>3. HasSeen(p)
    BY DEF Seen
  <2>4. /\ UNCHANGED <<file, drifted, call, loaded, shown>>
        /\ pc' = [pc EXCEPT ![p] = pc'[p]]
        /\ pc'[p] \in Held => pc[p] \in Held
    BY <1>4 DEF PassesCheck, Passes, Goto, Typed, environment, Held
  <2>5. pc'[p] \in Held => Look(p, file, drifted)' \subseteq shown'[p]
    BY <2>3, <2>4 DEF HasSeen, Look
  <2>6. pc'[p] \in {"revalidate", "reload", "append"} =>
          \E s \in shown[p] : s.doc = call[p].digest
    <3>1. pc'[p] = "revalidate" => now \in shown[p] /\ now.doc = call[p].digest
      BY <1>4, <2>2 DEF PassesCheck, Passes, Goto, Typed, Held
    <3>2. pc'[p] \in {"reload", "append"} => pc[p] \in {"revalidate", "reload"}
      BY <1>4 DEF PassesCheck, Passes, Goto, Typed
    <3> QED
      BY <2>3, <3>1, <3>2 DEF HasSeen
  <2>7. pc'[p] \in {"reload", "append"} =>
          \E s \in shown[p] : s.approved /\ s.doc.id = loaded[p].id
    <3>1. pc'[p] = "reload" =>
            now \in shown[p] /\ now.approved /\ now.doc.id = loaded[p].id
      BY <1>4, <2>2 DEF PassesCheck, Passes, Goto, Typed, Held, SameSubject
    <3>2. pc'[p] = "append" => pc[p] = "reload"
      BY <1>4 DEF PassesCheck, Passes, Goto, Typed
    <3> QED
      BY <2>3, <3>1, <3>2 DEF HasSeen
  <2>8. HasSeen(p)'
    BY <2>4, <2>5, <2>6, <2>7 DEF HasSeen
  <2> QED
    BY <2>1, <2>8 DEF Seen
<1>5. ASSUME NEW p \in Procs, ReadsDocument(p) PROVE Seen'
  <2>1. \A q \in Procs : q # p => HasSeen(q)'
    BY <1>5, SeenStays DEF ReadsDocument, Reads, Goto, Typed, environment, Seen
  <2>2. HasSeen(p)'
    BY <1>5 DEF ReadsDocument, Reads, Goto, Typed, HasSeen, Held
  <2> QED
    BY <2>1, <2>2 DEF Seen
<1>6. ASSUME NEW p \in Procs, TakesLock(p) PROVE Seen'
  <2>1. \A q \in Procs : q # p => HasSeen(q)'
    BY <1>6, SeenStays DEF TakesLock, Goto, Typed, environment, Seen
  <2>2. HasSeen(p)'
    BY <1>6 DEF TakesLock, Goto, Typed, environment, HasSeen, Held, Look
  <2> QED
    BY <2>1, <2>2 DEF Seen
<1>7. ASSUME NEW p \in Procs, RecordResult(p) PROVE Seen'
  <2>1. \A q \in Procs : q # p => HasSeen(q)'
    BY <1>7, SeenStays DEF RecordResult, End, Goto, Typed, environment, Seen
  <2>2. HasSeen(p)'
    BY <1>7 DEF RecordResult, End, Goto, Typed, HasSeen, Held
  <2> QED
    BY <2>1, <2>2 DEF Seen
<1>8. CASE OtherWriter
  BY <1>8, SeenStays DEF OtherWriter, environment, Seen
<1>9. ASSUME NEW d, EditResult(d) \/ DriftMaterial(d) PROVE Seen'
  <2> SUFFICES ASSUME NEW q \in Procs PROVE HasSeen(q)'
    BY DEF Seen
  <2>1. UNCHANGED <<pc, call, loaded, lock>>
    BY <1>9 DEF EditResult, DriftMaterial
  <2>2. shown'[q] = IF lock = q THEN shown[q] \union Look(q, file', drifted') ELSE shown[q]
    BY <1>9 DEF EditResult, DriftMaterial, ShownAfter
  <2>3. pc[q] \in Held => lock = q
    BY DEF Holding, Locked
  <2>4. pc[q] \in Held => Look(q, file, drifted)' \subseteq shown'[q]
    BY <2>1, <2>2, <2>3 DEF Look
  <2>5. shown[q] \subseteq shown'[q]
    BY <2>2
  <2> QED
    BY <2>1, <2>4, <2>5 DEF Seen, HasSeen
<1> QED
  BY <1>1, <1>2, <1>3, <1>4, <1>5, <1>6, <1>7, <1>8, <1>9, StepsOfFinalizers
  DEF Next, CallAny


\* What a record says was shown to the process that recorded it.
ShownEnough(r) ==
  /\ \E s \in r.seen : s.doc = r.digest
  /\ \E s \in r.seen : s.approved /\ s.doc.id = r.subject


LEMMA RecheckedStep ==
  ASSUME Typed, Holding, Seen, RecheckedUnderLock, [Next]_vars
  PROVE  RecheckedUnderLock'
<1>1. \A i \in Results : ShownEnough(journal[i])
  BY DEF RecheckedUnderLock, ShownEnough
<1>2. SUFFICES \A i \in Results' : ShownEnough(journal'[i])
  BY DEF RecheckedUnderLock, ShownEnough
<1>3. ASSUME NEW r \in Records, journal' = Append(journal, r),
             r.digest # None => ShownEnough(r)
      PROVE  \A i \in Results' : ShownEnough(journal'[i])
  BY <1>1, <1>3, Appended DEF Typed
<1>4. CASE OtherWriter
  <2>1. PICK e \in Events : /\ OtherRecord(e) \in Records
                            /\ journal' = Append(journal, OtherRecord(e))
    BY <1>4, OtherTyped
  <2>2. OtherRecord(e).digest = None
    BY DEF OtherRecord
  <2> QED
    BY <1>3, <2>1, <2>2
<1>5. ASSUME NEW p \in Procs, RecordResult(p)
      PROVE  \A i \in Results' : ShownEnough(journal'[i])
  <2>1. RecordOf(p) \in Records /\ journal' = Append(journal, RecordOf(p))
    BY <1>5, RecordTyped DEF RecordResult, Holding
  <2>2. ShownEnough(RecordOf(p))
    BY <1>5 DEF RecordResult, RecordOf, ShownEnough, Seen, HasSeen
  <2> QED
    BY <1>3, <2>1, <2>2
<1>6. CASE ~OtherWriter /\ \A p \in Procs : ~RecordResult(p)
  <2>1. journal' = journal
    BY <1>6, OtherSteps
  <2> QED
    BY <1>1, <2>1 DEF Results
<1> QED
  BY <1>4, <1>5, <1>6

-----------------------------------------------------------------------------
\* The inductive invariant.
LEMMA InitInv == Init => IInv
<1> SUFFICES ASSUME Init PROVE IInv
  OBVIOUS
<1>1. Typed
  BY InitTyped
<1>2. Results = {}
  BY DEF Init, Results
<1>3. \A p \in Procs : pc[p] = "idle"
  BY DEF Init
<1> QED
  BY <1>1, <1>2, <1>3
  DEF IInv, Locked, HaveLoaded, Held, Loaded, AtWorkAgain, Seen, HasSeen, OneOutcomePerRun,
      RecheckedUnderLock

LEMMA TypedStep == ASSUME Typed, HaveLoaded, [Next]_vars PROVE Typed'
<1>1. CASE UNCHANGED vars
  BY <1>1 DEF vars, Typed
<1>2. CASE Next
  BY <1>2, StepsOfFinalizers, OverTyped, PassesTyped, ReadsTyped, TakesTyped, RecordTyped,
     CallTyped, OtherTyped, EditsTyped DEF Next, CallAny, Files
<1> QED
  BY <1>1, <1>2

LEMMA InvStep == IInv /\ [Next]_vars => IInv'
<1> SUFFICES ASSUME IInv, [Next]_vars PROVE IInv'
  OBVIOUS
<1> USE DEF IInv
<1>1. Typed'
  BY TypedStep
<1>2. Holding /\ Holding'
  BY <1>1, HoldingStep DEF Holding
<1>3. Seen'
  BY <1>1, <1>2, SeenStep
<1>4. RecheckedUnderLock'
  BY <1>2, RecheckedStep
<1>5. AtWorkAgain' /\ OneOutcomePerRun'
  <2>1. CASE OtherWriter
    BY <2>1, OtherOutcomes
  <2>2. ASSUME NEW p \in Procs, RecordResult(p) PROVE AtWorkAgain' /\ OneOutcomePerRun'
    BY <1>2, <2>2, OwnOutcomes
  <2>3. CASE ~OtherWriter /\ \A p \in Procs : ~RecordResult(p)
    <3>1. UNCHANGED <<cur, journal>>
      BY <2>3, OtherSteps
    <3> QED
      BY <3>1 DEF AtWorkAgain, OneOutcomePerRun, Results
  <2> QED
    BY <2>1, <2>2, <2>3
<1> QED
  BY <1>1, <1>2, <1>3, <1>4, <1>5 DEF Holding

\* Between two finalizations recorded in the journal some event put a stage to work again,
\* whichever finalizers race, are refused or killed, for any number of them (finalize_stage.py,
\* current_state_or_raise and the recheck under the lock).
THEOREM StageHasOneOutcome == Spec => []OneOutcomePerRun
<1>1. IInv => OneOutcomePerRun
  BY DEF IInv
<1> QED
  BY InitInv, InvStep, <1>1, PTL DEF Spec

\* The result a record names was at its path, and a result of its subject was approved, while its
\* writer held the lock, however often the file and its material changed (lock_held_recheck).
THEOREM ResultsAreRechecked == Spec => []RecheckedUnderLock
<1>1. IInv => RecheckedUnderLock
  BY DEF IInv
<1> QED
  BY InitInv, InvStep, <1>1, PTL DEF Spec

-----------------------------------------------------------------------------
\* Contents that do not come back.

LEMMA NamedStays ==
  ASSUME NEW q \in Procs, NamedOrGone(q), pc'[q] = pc[q], call'[q] = call[q],
         loaded'[q] = loaded[q], file' = file, written' = written
  PROVE  NamedOrGone(q)'
BY DEF NamedOrGone

LEMMA NamedProcs ==
  ASSUME ~ContentRecurs, Typed, Typed', Holding, NamedInv, [Next]_vars
  PROVE  file' \in written' /\ \A q \in Procs : NamedOrGone(q)'
<1> USE DEF NamedInv
<1>1. CASE UNCHANGED vars
  BY <1>1, NamedStays DEF vars
<1>2. ASSUME NEW p \in Procs, NEW r \in Requests, NEW n \in 0..Revision,
             Call(p, r.stage, r.digest, n)
      PROVE  file' \in written' /\ \A q \in Procs : NamedOrGone(q)'
  <2>1. \A q \in Procs : q # p => NamedOrGone(q)'
    BY <1>2, NamedStays DEF Call, Goto, Typed, environment
  <2>2. NamedOrGone(p)'
    BY <1>2 DEF Call, Goto, Typed, NamedOrGone, Loaded, Held
  <2> QED
    BY <1>2, <2>1, <2>2 DEF Call, environment
<1>3. ASSUME NEW p \in Procs, Over(p)
      PROVE  file' \in written' /\ \A q \in Procs : NamedOrGone(q)'
  <2>1. \A q \in Procs : q # p => NamedOrGone(q)'
    BY <1>3, NamedStays DEF Over, End, Goto, Typed, environment
  <2>2. NamedOrGone(p)'
    BY <1>3 DEF Over, End, Goto, Typed, NamedOrGone, Loaded, Held
  <2> QED
    BY <1>3, <2>1, <2>2 DEF Over, environment
<1>4. ASSUME NEW p \in Procs, PassesCheck(p)
      PROVE  file' \in written' /\ \A q \in Procs : NamedOrGone(q)'
  <2>1. \A q \in Procs : q # p => NamedOrGone(q)'
    BY <1>4, NamedStays DEF PassesCheck, Passes, Goto, Typed, environment
  <2>2. NamedOrGone(p)'
    BY <1>4 DEF PassesCheck, Passes, Goto, Typed, environment, NamedOrGone, Loaded, Held
  <2> QED
    BY <1>4, <2>1, <2>2 DEF PassesCheck, Passes, environment
<1>5. ASSUME NEW p \in Procs, ReadsDocument(p)
      PROVE  file' \in written' /\ \A q \in Procs : NamedOrGone(q)'
  <2>1. \A q \in Procs : q # p => NamedOrGone(q)'
    BY <1>5, NamedStays DEF ReadsDocument, Reads, Goto, Typed, environment
  <2>2. NamedOrGone(p)'
    BY <1>5 DEF ReadsDocument, Reads, Goto, Typed, environment, NamedOrGone, Loaded, Held
  <2> QED
    BY <1>5, <2>1, <2>2 DEF ReadsDocument, Reads, environment
<1>6. ASSUME NEW p \in Procs, TakesLock(p)
      PROVE  file' \in written' /\ \A q \in Procs : NamedOrGone(q)'
  <2>1. \A q \in Procs : q # p => NamedOrGone(q)'
    BY <1>6, NamedStays DEF TakesLock, Goto, Typed, environment
  <2>2. NamedOrGone(p)'
    BY <1>6 DEF TakesLock, Goto, Typed, environment, NamedOrGone, Loaded, Held
  <2> QED
    BY <1>6, <2>1, <2>2 DEF TakesLock, environment
<1>7. ASSUME NEW p \in Procs, RecordResult(p)
      PROVE  file' \in written' /\ \A q \in Procs : NamedOrGone(q)'
  <2>1. \A q \in Procs : q # p => NamedOrGone(q)'
    BY <1>7, NamedStays DEF RecordResult, End, Goto, Typed, environment
  <2>2. NamedOrGone(p)'
    BY <1>7 DEF RecordResult, End, Goto, Typed, NamedOrGone, Loaded, Held
  <2> QED
    BY <1>7, <2>1, <2>2 DEF RecordResult, environment
<1>8. CASE OtherWriter
  BY <1>8, NamedStays DEF OtherWriter, environment
<1>9. ASSUME NEW d, EditResult(d) \/ DriftMaterial(d)
      PROVE  file' \in written' /\ \A q \in Procs : NamedOrGone(q)'
  <2>1. CASE EditResult(d)
    BY <2>1 DEF EditResult, NamedOrGone, Loaded, Held
  <2>2. CASE DriftMaterial(d)
    BY <2>2, NamedStays DEF DriftMaterial
  <2> QED
    BY <1>9, <2>1, <2>2
<1> QED
  BY <1>1, <1>2, <1>3, <1>4, <1>5, <1>6, <1>7, <1>8, <1>9, StepsOfFinalizers
  DEF Next, CallAny

\* What a record says of the result it names.
OfNamed(r) ==
  r.subject = r.digest.id /\ r.event = EventMaterial(r.digest.stage, r.digest)

LEMMA NamedOutcomes ==
  ASSUME Typed, Holding, NamedInv, [Next]_vars
  PROVE  OutcomeOfNamedResult'
<1>1. \A i \in Results : OfNamed(journal[i])
  BY DEF NamedInv, OutcomeOfNamedResult, OfNamed
<1>2. SUFFICES \A i \in Results' : OfNamed(journal'[i])
  BY DEF OutcomeOfNamedResult, OfNamed
<1>3. ASSUME NEW r \in Records, journal' = Append(journal, r), r.digest # None => OfNamed(r)
      PROVE  \A i \in Results' : OfNamed(journal'[i])
  BY <1>1, <1>3, Appended DEF Typed
<1>4. CASE OtherWriter
  <2>1. PICK e \in Events : /\ OtherRecord(e) \in Records
                            /\ journal' = Append(journal, OtherRecord(e))
    BY <1>4, OtherTyped
  <2>2. OtherRecord(e).digest = None
    BY DEF OtherRecord
  <2> QED
    BY <1>3, <2>1, <2>2
<1>5. ASSUME NEW p \in Procs, RecordResult(p)
      PROVE  \A i \in Results' : OfNamed(journal'[i])
  <2>1. RecordOf(p) \in Records /\ journal' = Append(journal, RecordOf(p))
    BY <1>5, RecordTyped DEF RecordResult, Holding
  <2>2. loaded[p] = call[p].digest /\ loaded[p].stage = call[p].stage
    BY <1>5 DEF RecordResult, NamedInv, NamedOrGone
  <2>3. OfNamed(RecordOf(p))
    BY <2>2 DEF RecordOf, OfNamed
  <2> QED
    BY <1>3, <2>1, <2>3
<1>6. CASE ~OtherWriter /\ \A p \in Procs : ~RecordResult(p)
  <2>1. journal' = journal
    BY <1>6, OtherSteps
  <2> QED
    BY <1>1, <2>1 DEF Results
<1> QED
  BY <1>4, <1>5, <1>6

\* If no earlier content of the result comes back, the outcome, the subject and the blocker in
\* the journal are those of the document whose digest the record names, though none of the reads
\* they come from is covered by that digest (finalize_stage.py, stage_event_material).
THEOREM OutcomeIsOfNamedResult == ~ContentRecurs => (Spec => []OutcomeOfNamedResult)
<1> SUFFICES ASSUME ~ContentRecurs PROVE Spec => []OutcomeOfNamedResult
  OBVIOUS
<1>1. Init => NamedInv
  BY DEF Init, NamedInv, NamedOrGone, Loaded, Held, OutcomeOfNamedResult, Results
<1>2. IInv /\ IInv' /\ NamedInv /\ [Next]_vars => NamedInv'
  BY NamedProcs, NamedOutcomes DEF IInv, Holding, NamedInv
<1>3. NamedInv => OutcomeOfNamedResult
  BY DEF NamedInv
<1> QED
  BY InitInv, InvStep, <1>1, <1>2, <1>3, PTL DEF Spec

=============================================================================
