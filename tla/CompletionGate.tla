---------------------------- MODULE CompletionGate ----------------------------
(***************************************************************************)
(* scripts/finalize_audit_workspace.py: the gate that declares an audit    *)
(* finished.  One call inspects the confirmed bundles, checks the          *)
(* requested result against them, rewrites the disposition ledger, runs    *)
(* the Docker cleanliness helper, writes SUMMARY.md, publishes the handoff *)
(* for the journal it is about to have, appends the terminal record, and   *)
(* asserts once more what it declared.  It holds the workspace lock only   *)
(* while it appends a record and while it checks or publishes a handoff:   *)
(* bundles, verdicts and blockers may change at any moment, other writers  *)
(* may record events, and another gate may run.                            *)
(*                                                                         *)
(* Each element of Gates is one call.  The commits and their I/O failures  *)
(* are those of AuditStateIO, the publication of one file those of         *)
(* EvidencePublication: here both are one step.  Left out are R1           *)
(* workspaces, the first event of an empty workspace, and the age of the   *)
(* cleanliness report (300 seconds), which only adds refusals.             *)
(***************************************************************************)
EXTENDS AuditTransitionPolicy, FiniteSets

CONSTANTS Gates,        \* calls of the completion gate
          Bundles,      \* directories that may stand under confirmed/
          FirstStates,  \* workflow states the model starts from
          FirstFiles,   \* what may be on disk then: facts and SUMMARY.md
          Authored,     \* a SUMMARY.md without the generator's marker
          HaltCtx,      \* the context blocked_verification is recorded with
          OtherEvents,  \* kinds of events other writers record
          MaxEdits,     \* bound on steps of the environment
          MaxKills      \* bound on killed gates

VARIABLES cur,      \* the workflow state, as the view shows it
          journal,  \* records appended since the model started
          facts,    \* bundles, verdicts and flaws on disk
          ledger,   \* audit-disposition.json
          docker,   \* docker-cleanliness-status.json
          summary,  \* SUMMARY.md
          handoff,  \* handoff-state.json
          text,     \* handoff-summary.md
          lock,     \* the gate that holds the workspace lock, or None
          gate,     \* the locals of each call
          told,     \* its answer
          edits, kills,
          quiet     \* history: the gate since whose SUMMARY.md no other
                    \* program wrote, and nothing changed since its record

workspace == <<facts, ledger, docker, summary, handoff, text>>

vars == <<cur, journal, workspace, lock, gate, told, edits, kills, quiet>>

Confirmed == "completed_with_confirmed_bundles"
NoConfirmed == "completed_no_confirmed_findings"
VALID_RESULTS == {Confirmed, NoConfirmed}

\* no_variant: the seeded variant discovery is not completed; blocked: an
\* unresolved Docker blocker is on record; leads: a candidate is undecided.
Flaws == {"no_variant", "blocked", "leads"}

ASSUME GateAssumption ==
  /\ HaltCtx \in Contexts
  /\ None \notin Gates \union VALID_RESULTS
  /\ FirstFiles \subseteq
       [facts : [bundles : [Bundles -> {"absent", "partial", "validated"}],
                 verdicts : SUBSET Bundles, flaws : SUBSET Flaws],
        summary : {None, Authored}]

-----------------------------------------------------------------------------
\* What can be read from the disk.

\* confirmed_bundle_dirs
Dirs(F) == {b \in Bundles : F.bundles[b] # "absent"}

Validated(F) == {b \in Bundles : F.bundles[b] = "validated"}

\* inspect_workspace_state
Inspection(F) ==
  [validated |-> Validated(F), unfinished |-> Dirs(F) \ Validated(F),
   variant |-> "no_variant" \notin F.flaws]

\* validate_disposition_ledger, with the validated bundles V somebody saw:
\* one confirmed item per directory, each validated, and verdicts behind
\* the confirmed records.
LedgerValid(result, V, F, L) ==
  /\ L.items = Dirs(F)
  /\ L.items \subseteq V
  /\ L.records \subseteq F.verdicts
  /\ result = NoConfirmed => L.items = {} /\ L.open = {}

\* validate_workspace_confirmation_chain: bundles, items and records are
\* one-to-one, or there is none of them and every candidate is decided.
ChainValid(result, V, F, L) ==
  /\ LedgerValid(result, V, F, L)
  /\ V \subseteq Dirs(F)
  /\ IF result = Confirmed THEN V # {} /\ V = L.items /\ V = L.records
     ELSE V = {} /\ L.records = {} /\ "leads" \notin F.flaws

\* The handoff document derived for journal j from the disk, with the facts F that were read.
DocumentOf(j, F) == [journal |-> j, facts |-> F, ledger |-> ledger, docker |-> docker]
Document(j) == DocumentOf(j, facts)

\* handoff-summary.md shows the events it has read and a handoff document.
Rendered(j, doc) == [events |-> j, doc |-> doc]

FinalRecords(j) == {i \in DOMAIN j : j[i].name \in {"succeeded", "failed"}}

\* _completion_result_from_authority: what the last finalization record says.
Claim(j) ==
  IF FinalRecords(j) = {} THEN None
  ELSE LET last == CHOOSE i \in FinalRecords(j) : \A k \in FinalRecords(j) : k <= i
       IN  j[last].result

\* The result holds of the facts: bundles with variant discovery, or none.
Supported(result, see) ==
  CASE result = Confirmed -> see.validated # {} /\ see.variant
    [] result = NoConfirmed -> see.validated = {}
    [] OTHER -> TRUE

\* The COMPLETION_ issues of derive_handoff_state, when the bundles it saw were those of F.
CompletionHoldsOf(result, F) ==
  result # None =>
    /\ Supported(result, Inspection(F))
    /\ docker.clean
    /\ ChainValid(result, Validated(F), facts, ledger)
CompletionHolds(result) == CompletionHoldsOf(result, facts)

\* _validate_handoff_state_current_unlocked
HandoffCurrent == handoff = Document(journal) /\ CompletionHolds(Claim(journal))

\* assert_finalized_workspace.validate_finalization
Finalized ==
  LET result == Claim(journal)
      last == CHOOSE i \in FinalRecords(journal) :
                \A k \in FinalRecords(journal) : k <= i
  IN  /\ result # None
      /\ cur.stage = "finalization" /\ cur.status = "completed"
      /\ result = NoConfirmed => "blocked" \notin facts.flaws
      /\ Supported(result, Inspection(facts))
      /\ ChainValid(result, Validated(facts), facts, ledger)
      /\ docker.clean /\ docker = journal[last].evidence

\* validate_completed_rerun: the answer of a gate on a completed workspace.
RerunAccepts(result) ==
  /\ HandoffCurrent
  /\ text = Rendered(journal, handoff)
  /\ Finalized
  /\ Claim(journal) = result
  /\ summary = Authored
       \/ summary = [result |-> result, count |-> Cardinality(Validated(facts))]

-----------------------------------------------------------------------------
NotSeen == [validated |-> {}, unfinished |-> {}, variant |-> FALSE]
EmptyLedger == [items |-> {}, records |-> {}, open |-> {}]
NotChecked == [clean |-> FALSE, by |-> None]

Locals == [pc |-> "idle", result |-> None, rev |-> 0, seen |-> NotSeen,
           bad |-> FALSE, halted |-> FALSE, draft |-> EmptyLedger,
           evidence |-> NotChecked, basis |-> None]

Init ==
  /\ cur \in FirstStates
  /\ journal = <<>>
  /\ \E f \in FirstFiles : facts = f.facts /\ summary = f.summary
  /\ ledger = [EmptyLedger EXCEPT !.records = facts.verdicts]
  /\ docker = NotChecked
  /\ handoff = None
  /\ text = None
  /\ lock = None
  /\ gate = [g \in Gates |-> Locals]
  /\ told = [g \in Gates |-> "nothing"]
  /\ edits = 0
  /\ kills = 0
  /\ quiet = None

At(g, step) == gate[g].pc = step

Set(g, locals) == gate' = [gate EXCEPT ![g] = locals]

Goto(g, step) == Set(g, [gate[g] EXCEPT !.pc = step])

Wrote(g) == quiet' = IF quiet = g THEN quiet ELSE None

\* The call ends and a lock it held is free again.
Answer(g, answer) ==
  /\ Set(g, [Locals EXCEPT !.pc = "done", !.result = gate[g].result])
  /\ told' = [told EXCEPT ![g] = answer]
  /\ lock' = IF lock = g THEN None ELSE lock

Fail(g) ==
  /\ Answer(g, "failed")
  /\ UNCHANGED <<cur, journal, workspace, edits, kills, quiet>>

-----------------------------------------------------------------------------
\* Records of the gate.

Event(kind, stage, status, ctx) ==
  [kind |-> kind, fromStage |-> cur.stage, fromStatus |-> cur.status,
   stage |-> stage, status |-> status, ctx |-> ctx, material |-> TRUE]

RecordOf(g, name) ==
  [name |-> name, by |-> g, result |-> None, count |-> 0, evidence |-> NotChecked]

\* Mutant of Accepted: --accept-current-revision instead of the revision.
AcceptedAtAnyRevision(g, e) == lock = None /\ Allowed(cur, e)

\* The writer takes the lock, compares the revision the gate knows and asks
\* the transition policy.
Accepted(g, e) ==
  lock = None /\ gate[g].rev = Len(journal) /\ Allowed(cur, e)

\* write_event: the record is appended, or the gate exits.  The writer of a
\* record that others delay waits, or gives up after its timeout.
Record(g, e, name, locals) ==
  \/ /\ Accepted(g, e)
     /\ journal' = Append(journal, RecordOf(g, name))
     /\ cur' = Target(e)
     /\ Set(g, [locals EXCEPT !.rev = Len(journal')])
     /\ Wrote(g)
     /\ UNCHANGED <<workspace, lock, told, edits, kills>>
  \/ ~Accepted(g, e) /\ Fail(g)

Observed == Event("observe", "finalization", "running", None)

-----------------------------------------------------------------------------
\* Steps of a gate.

\* main: a completed workspace, at whatever stage, is only checked.
Call(g, result) ==
  /\ At(g, "idle")
  /\ Set(g, [Locals EXCEPT !.pc = IF cur.status = "completed" THEN "rerun" ELSE "start",
                           !.result = result, !.rev = Len(journal)])
  /\ UNCHANGED <<cur, journal, workspace, lock, told, edits, kills, quiet>>

Rerun(g) ==
  /\ At(g, "rerun")
  /\ \/ ~RerunAccepts(gate[g].result) /\ Fail(g)
     \/ /\ RerunAccepts(gate[g].result)
        /\ Answer(g, "passed")
        /\ UNCHANGED <<cur, journal, workspace, edits, kills, quiet>>

Start(g) ==
  /\ At(g, "start")
  /\ LET kind == IF cur.stage = "finalization" /\ cur.status = "running"
                 THEN "observe" ELSE "advance"
     IN  Record(g, Event(kind, "finalization", "running", None), "started",
                [gate[g] EXCEPT !.pc = "inspect"])

\* Step 1: what is under confirmed/, and the record of it.
Inspect(g) ==
  /\ At(g, "inspect")
  /\ Record(g, Observed, "observed",
            [gate[g] EXCEPT !.pc = "result", !.seen = Inspection(facts)])

\* Step 2, confirmed bundles: no record is made of a variant discovery
\* nobody looked at.
CheckConfirmed(g) ==
  LET see == gate[g].seen
      whole == see.validated # {} /\ see.unfinished = {}
      next == [gate[g] EXCEPT !.pc = "synthesize",
                              !.bad = ~(whole /\ Supported(Confirmed, see))]
  IN  /\ At(g, "result")
      /\ gate[g].result = Confirmed
      /\ IF whole THEN Record(g, Observed, "observed", next)
         ELSE /\ Set(g, next)
              /\ UNCHANGED <<cur, journal, workspace, lock, told, edits, kills, quiet>>

\* Step 2, no confirmed findings: nothing may be there, and nothing blocked.
CheckNoConfirmed(g) ==
  LET see == gate[g].seen
      blocked == "blocked" \in facts.flaws
  IN  /\ At(g, "result")
      /\ gate[g].result = NoConfirmed
      /\ Set(g, [gate[g] EXCEPT !.pc = "synthesize", !.halted = blocked,
                                !.bad = see.validated \union see.unfinished # {} \/ blocked])
      /\ UNCHANGED <<cur, journal, workspace, lock, told, edits, kills, quiet>>

\* Step 3: the ledger is synthesized from the directories, the records it
\* has and the blockers, which a gate for confirmed bundles reads only now.
Synthesize(g) ==
  LET blocked == IF gate[g].result = NoConfirmed THEN gate[g].halted
                 ELSE "blocked" \in facts.flaws
      draft == [items |-> Dirs(facts), records |-> ledger.records,
                open |-> IF blocked THEN {"blocked"} ELSE {}]
  IN  /\ At(g, "synthesize")
      /\ Set(g, [gate[g] EXCEPT !.pc = "publish", !.halted = blocked, !.draft = draft])
      /\ UNCHANGED <<cur, journal, workspace, lock, told, edits, kills, quiet>>

\* The ledger is published, and rolled back when it does not validate with
\* the bundles of step 1.
PublishLedger(g) ==
  LET valid == ChainValid(gate[g].result, gate[g].seen.validated, facts, gate[g].draft)
  IN  /\ At(g, "publish")
      /\ ledger' = IF valid THEN gate[g].draft ELSE ledger
      /\ Set(g, [gate[g] EXCEPT !.pc = "reload", !.bad = @ \/ ~valid, !.draft = EmptyLedger])
      /\ Wrote(g)
      /\ UNCHANGED <<cur, journal, facts, docker, summary, handoff, text, lock,
                     told, edits, kills>>

\* The ledger is read again and validated, with the chain behind it.
CheckLedger(g) ==
  LET valid == ChainValid(gate[g].result, gate[g].seen.validated, facts, ledger)
  IN  /\ At(g, "reload")
      /\ Record(g, Observed, "observed",
                [gate[g] EXCEPT !.pc = "docker", !.bad = @ \/ ~valid])

\* Step 4: the helper looks at Docker and writes its report.
CheckDocker(g, clean) ==
  /\ At(g, "docker")
  /\ docker' = [clean |-> clean, by |-> g]
  /\ Goto(g, "evidence")
  /\ Wrote(g)
  /\ UNCHANGED <<cur, journal, facts, ledger, summary, handoff, text, lock,
                 told, edits, kills>>

\* The report at its path becomes the evidence.  Step 5 follows: an error so
\* far leads out of the gate.
ReadDocker(g) ==
  LET bad == gate[g].bad \/ ~docker.clean
  IN  /\ At(g, "evidence")
      /\ Set(g, [gate[g] EXCEPT !.evidence = docker, !.bad = bad,
                                !.pc = CASE ~bad -> "summary"
                                         [] bad /\ gate[g].halted -> "return"
                                         [] OTHER -> "fail"])
      /\ UNCHANGED <<cur, journal, workspace, lock, told, edits, kills, quiet>>

\* ensure_workspace_summary
WriteSummary(g) ==
  /\ At(g, "summary")
  /\ summary' = IF summary = Authored THEN Authored
                ELSE [result |-> gate[g].result,
                      count |-> Cardinality(gate[g].seen.validated)]
  /\ Goto(g, "terminal")
  /\ quiet' = g
  /\ UNCHANGED <<cur, journal, facts, ledger, docker, handoff, text, lock,
                 told, edits, kills>>

\* A gate with errors hands blocked work back to verification in two
\* records, or records its failure in one.
ReturnToVerification(g) ==
  /\ At(g, "return")
  /\ Record(g, Event("return", "verification", "running", None), "returned",
            [gate[g] EXCEPT !.pc = "block"])

BlockVerification(g) ==
  /\ At(g, "block")
  /\ Record(g, Event("block", "verification", "blocked", HaltCtx), "failed",
            [gate[g] EXCEPT !.pc = "reread"])

RecordFailure(g) ==
  /\ At(g, "fail")
  /\ Record(g, Observed, "failed", [gate[g] EXCEPT !.pc = "reread"])

\* refresh_handoff: the renderer reads the events, lets the handoff be
\* generated under the lock, and publishes its text without it.
ReadEvents(g) ==
  /\ At(g, "reread")
  /\ Set(g, [gate[g] EXCEPT !.pc = "refresh", !.basis = journal])
  /\ UNCHANGED <<cur, journal, workspace, lock, told, edits, kills, quiet>>

RefreshHandoff(g) ==
  /\ At(g, "refresh")
  /\ \/ /\ lock = None
        /\ handoff' = Document(journal)
        /\ Set(g, [gate[g] EXCEPT !.pc = "render",
                                  !.basis = Rendered(gate[g].basis, handoff')])
        /\ Wrote(g)
        /\ UNCHANGED <<cur, journal, facts, ledger, docker, summary, text, lock,
                       told, edits, kills>>
     \/ lock # None /\ Fail(g)

RenderText(g) ==
  /\ At(g, "render")
  /\ text' = gate[g].basis
  /\ Answer(g, "failed")
  /\ Wrote(g)
  /\ UNCHANGED <<cur, journal, facts, ledger, docker, summary, handoff, edits, kills>>

\* Step 6: commit_terminal.  The writer holds the lock from here to the
\* record.
Terminal == Event("complete", "finalization", "completed", None)

TakeLock(g) ==
  /\ At(g, "terminal")
  /\ \/ /\ Accepted(g, Terminal)
        /\ lock' = g
        /\ Goto(g, "derive")
        /\ UNCHANGED <<cur, journal, workspace, told, edits, kills, quiet>>
     \/ ~Accepted(g, Terminal) /\ Fail(g)

\* The journal as the terminal record will leave it (project_r2_snapshot).
Projected(g) ==
  Append(journal, [RecordOf(g, "succeeded") EXCEPT
                     !.result = gate[g].result,
                     !.count = Cardinality(gate[g].seen.validated),
                     !.evidence = gate[g].evidence])

\* prepare_terminal_artifacts derives the handoff once: the bundles are inspected first, everything
\* else is read behind them.
ReadBundles(g) ==
  /\ At(g, "derive")
  /\ Set(g, [gate[g] EXCEPT !.pc = "publish handoff", !.basis = facts.bundles])
  /\ UNCHANGED <<cur, journal, workspace, lock, told, edits, kills, quiet>>

AsRead(g) == [facts EXCEPT !.bundles = gate[g].basis]

\* Mutant of DerivedValid: the ledger is taken to be as it was checked.
DerivedWithoutChain(g) ==
  /\ "blocked" \notin facts.flaws
  /\ Supported(gate[g].result, Inspection(AsRead(g)))
  /\ docker.clean

\* derive_handoff_state of the projected journal reports no issue.
DerivedValid(g) ==
  "blocked" \notin facts.flaws /\ CompletionHoldsOf(gate[g].result, AsRead(g))

\* The handoff is published ahead of its record, and its text.
PublishHandoff(g) ==
  /\ At(g, "publish handoff")
  /\ \/ /\ DerivedValid(g)
        /\ handoff' = DocumentOf(Projected(g), AsRead(g))
        /\ text' = Rendered(Projected(g), handoff')
        /\ Set(g, [gate[g] EXCEPT !.pc = "consistent", !.basis = None])
        /\ Wrote(g)
        /\ UNCHANGED <<cur, journal, facts, ledger, docker, summary, lock,
                       told, edits, kills>>
     \/ ~DerivedValid(g) /\ Fail(g)

\* validate_handoff_status_consistency, with the bundles of step 1.
CheckConsistency(g) ==
  LET see == gate[g].seen
      consistent == /\ Supported(gate[g].result, see)
                    /\ ChainValid(gate[g].result, see.validated, facts, ledger)
  IN  /\ At(g, "consistent")
      /\ \/ consistent /\ Goto(g, "append")
            /\ UNCHANGED <<cur, journal, workspace, lock, told, edits, kills, quiet>>
         \/ ~consistent /\ Fail(g)

AppendTerminal(g) ==
  /\ At(g, "append")
  /\ journal' = Projected(g)
  /\ cur' = Target(Terminal)
  /\ lock' = None
  /\ Goto(g, "current")
  /\ Wrote(g)
  /\ UNCHANGED <<workspace, told, edits, kills>>

\* Mutant of CheckCurrent: only the revision of the handoff is compared.
CheckRevision(g) ==
  /\ At(g, "current")
  /\ \/ /\ lock = None
        /\ IF handoff # None /\ Len(handoff.journal) = Len(journal) THEN Goto(g, "assert") ELSE Goto(g, "partial")
        /\ UNCHANGED <<cur, journal, workspace, lock, told, edits, kills, quiet>>
     \/ lock # None /\ Fail(g)

\* Step 7: what was declared is read back.
CheckCurrent(g) ==
  /\ At(g, "current")
  /\ \/ /\ lock = None
        /\ IF HandoffCurrent THEN Goto(g, "assert") ELSE Goto(g, "partial")
        /\ UNCHANGED <<cur, journal, workspace, lock, told, edits, kills, quiet>>
     \/ lock # None /\ Fail(g)

AssertFinalized(g) ==
  /\ \/ /\ At(g, "assert")
        /\ Answer(g, IF Finalized /\ Claim(journal) = gate[g].result
                     THEN "passed" ELSE "partial")
     \/ At(g, "partial") /\ Answer(g, "partial")
  /\ UNCHANGED <<cur, journal, workspace, edits, kills, quiet>>

-----------------------------------------------------------------------------
\* The environment.

\* A change on the disk counts for quiet once the record is there.
Disturbed ==
  quiet' = IF quiet # None /\ gate[quiet].pc \in {"current", "assert", "partial", "done"}
           THEN None ELSE quiet

Edit ==
  /\ edits < MaxEdits
  /\ edits' = edits + 1
  /\ Disturbed
  /\ UNCHANGED <<cur, journal, docker, summary, handoff, text, lock, gate, told, kills>>

\* A bundle is built, completed, spoilt or removed.
ChangeBundle ==
  /\ \E b \in Bundles, s \in {"absent", "partial", "validated"} :
       /\ s # facts.bundles[b]
       /\ facts' = [facts EXCEPT !.bundles[b] = s]
  /\ UNCHANGED ledger
  /\ Edit

\* A verifier confirms a candidate and records it in the ledger.
ConfirmCandidate ==
  /\ \E b \in Bundles \ facts.verdicts :
       /\ facts' = [facts EXCEPT !.verdicts = @ \union {b}]
       /\ ledger' = [ledger EXCEPT !.records = @ \union {b}]
  /\ Edit

ChangeFlaw ==
  /\ \E f \in Flaws : facts' = [facts EXCEPT !.flaws = (@ \ {f}) \union ({f} \ @)]
  /\ UNCHANGED ledger
  /\ Edit

\* Another writer records an event the policy accepts.
OtherWriter ==
  /\ lock = None
  /\ edits < MaxEdits
  /\ \E kind \in OtherEvents, stage \in {cur.stage, "packaging"}, status \in STATUSES :
       LET e == Event(kind, stage, status, IF status \in Halted THEN HaltCtx ELSE None)
       IN  /\ Allowed(cur, e)
           /\ cur' = Target(e)
  /\ journal' = Append(journal, RecordOf(None, "other"))
  /\ edits' = edits + 1
  /\ quiet' = None
  /\ UNCHANGED <<workspace, lock, gate, told, kills>>

Kill(g) ==
  /\ gate[g].pc \notin {"idle", "done"}
  /\ kills < MaxKills
  /\ kills' = kills + 1
  /\ Answer(g, "nothing")
  /\ UNCHANGED <<cur, journal, workspace, edits, quiet>>

-----------------------------------------------------------------------------
\* The steps a called gate takes by itself.
Continue(g) ==
  \/ Rerun(g) \/ Start(g) \/ Inspect(g) \/ CheckConfirmed(g) \/ CheckNoConfirmed(g)
  \/ Synthesize(g) \/ PublishLedger(g) \/ CheckLedger(g)
  \/ (\E clean \in BOOLEAN : CheckDocker(g, clean)) \/ ReadDocker(g) \/ WriteSummary(g)
  \/ ReturnToVerification(g) \/ BlockVerification(g) \/ RecordFailure(g)
  \/ ReadEvents(g) \/ RefreshHandoff(g) \/ RenderText(g)
  \/ TakeLock(g) \/ ReadBundles(g) \/ PublishHandoff(g) \/ CheckConsistency(g)
  \/ AppendTerminal(g)
  \/ CheckCurrent(g) \/ AssertFinalized(g)

Next ==
  \/ \E g \in Gates : Continue(g) \/ Kill(g) \/ \E result \in VALID_RESULTS : Call(g, result)
  \/ ChangeBundle \/ ConfirmCandidate \/ ChangeFlaw \/ OtherWriter

Spec == Init /\ [][Next]_vars

-----------------------------------------------------------------------------
Terminals == {i \in DOMAIN journal : journal[i].name = "succeeded"}

\* _FinalizationEventWriter: from the start of a gate to its terminal record
\* the journal holds its records alone, so nothing it has checked was
\* overtaken by another writer or gate unseen.
PassUninterrupted ==
  \A t \in Terminals :
    \E s \in 1..t : /\ journal[s].name = "started"
                    /\ \A i \in s..t : journal[i].by = journal[t].by

\* prepare_terminal_artifacts: the handoff published for the record about
\* to be appended shows each validated bundle with its ledger item and its
\* confirmed record, whatever happened in between; and the record, which
\* counts the bundles of step 1, counts as many, unless another program
\* wrote since the SUMMARY.md of that gate.
CountOfHandoff ==
  \A g \in Gates :
    At(g, "append") =>
      /\ handoff.journal = Projected(g)
      /\ handoff.ledger.items = Validated(handoff.facts)
      /\ handoff.ledger.records = Validated(handoff.facts)
      /\ quiet = g => Projected(g)[Len(journal) + 1].count
                        = Cardinality(Validated(handoff.facts))

\* FINALIZATION PASSED stands: as long as nobody wrote since the SUMMARY.md
\* of that gate and nothing changed since its record, the same call passes
\* again, with all its files as they are.
PassedStands ==
  \A g \in Gates : (quiet = g /\ told[g] = "passed") => RerunAccepts(gate[g].result)
=============================================================================
