# Verification of the Zhulong audit workspace

Zhulong drives a local, agent-run security audit of one repository. Everything the audit
concludes is kept in one workspace directory, by short-lived Python and bash commands that
an agent, a person or another command start at any time, possibly at once. There is no
server: what makes the system correct is what each command requires of the files it finds,
the order in which it changes them, and what is left when it is killed or a call fails.

This directory models that: TLA+ modules translated from `src/scripts`, TLC configurations
that check them on small instances, and proofs, checked by TLAPS, for every instance.

Run a check with `tlc -config CommitRace.cfg MCAuditStateIO`, a proof with
`tlapm AuditStateIOProofs.tla`. `PROJECT.json` lists the runs, the property each definition's
mutant breaks, the source lines behind every definition, the hazards and the theorems.

## 1. The system

| component | source (`src/scripts`) | state it keeps | operations |
|---|---|---|---|
| Transition policy | `audit_transition_policy.py` | none (a pure relation) | `validate_transition`, `validate_transition_sequence` |
| Audit records | `validate_audit_protocol.py` | none | validation of events, views and whole journals |
| Audit state I/O | `audit_state_io.py`, `write_audit_event.py`, `recover_audit_state.py` | `audit-events.jsonl` (journal), `stage-status.json` (derived view), `.audit-state.lock` | commit an event, check and rebuild the view |
| Stage finalization | `finalize_stage.py` | none of its own; binds a result file by digest | record a validated recon or triage result |
| Evidence I/O | `evidence_io.py` | any evidence file | atomic publication with rollback, bounded command capture |
| Completion gate | `finalize_audit_workspace.py`, `assert_finalized_workspace.py` | `SUMMARY.md`, and through helpers the ledger, the Docker report, the handoff, the journal | decide whether the audit may end, and end it |
| Handoff state | `workspace_state.py`, `render_handoff_*.py`, `*_checkpoint.py` | `handoff-state.json`, `handoff-summary.md`, checkpoints | derive, publish, compare with the workspace |
| Timeline, next actions | `audit_timeline.py`, `next_actions.py` and their renderers | two rendered pages, a list of actions | project the journal for reading, twice, and publish |
| Dispositions | `audit_disposition.py`, `blocked_verification.py` | `audit-disposition.json` | synthesize, merge and validate the ledger; tell what blocks |
| Independent verifier | `verify_candidate.py` | run directory, reservations, verdict, journal suffix | verify a candidate afresh in Docker |
| Docker case lifecycle | `docker_case_lifecycle.py`, `run_verification_case.sh` | one case's containers, networks, volumes and evidence | run a case and always clean up |
| Docker resources | `manage_docker_resources.py` | baseline, cleanliness status | snapshot, plan, clean up, verify clean |
| Bundle builder | `build_confirmed_bundle.py` | `confirmed/<slug>`, staging and trash directories, manifest | render, validate and promote a confirmed bundle |
| Candidate identity | `candidate_identity.py`, `candidate_dedup.py`, `recording_identity.py` | none | identity digests, grouping of duplicates |
| Validators, renderer | `validate_*.py`, `render_confirmed_vuln_docx.py` | none | check and format documents |
| Planning and tooling | `plan_*.py`, `check_*`, `bootstrap_*.sh`, `sync_*.sh` | installed helpers, plans | set up and plan |

### How they interact

Through files only, and through the Docker daemon. The journal is the authority; the view is
derived from its last record and says which stage and status the audit is in. Every command
that changes the workflow calls `commit_event`, which takes an `flock`, reads journal and view,
compares the revision the caller expects (compare-and-swap), asks the transition policy,
appends one record, fsyncs it and replaces the view. Nothing else is locked for long: bundles,
verdicts, the ledger, `SUMMARY.md` and Docker evidence are read and published without it.

`finalize_stage` and the completion gate bind the journal to other files. The first records the
outcome of a stage result under its digest and repeats its checks from a hook that runs while
the writer holds the lock. The second runs seven steps (inspect bundles, compare with the
requested result, rewrite the ledger, check Docker, write `SUMMARY.md`, publish the handoff and
append the terminal record under the lock, read back).

`verify_candidate` reserves the paths of its verdict, calls `run_verification_case.sh`, which
records the start of a case, runs a container through a capture helper, cleans up through
`docker_case_lifecycle.py` and records the outcome; the verifier then looks for exactly these
events in the journal before it publishes. `manage_docker_resources.py` compares the daemon
with a baseline, and the gate asks it for a strict check. The handoff, checkpoints, timeline and
next actions are derived from the journal and from evidence, read one file after the other.

### What is hard here

* **Interleavings.** Two writers, finalizers, gates, verifiers, builders; a recovery command and
  a writer; a wrapper, the helper it started and the daemon; and people who edit files.
* **Crashes.** A kill between any two system calls; a short write; a failing fsync or rename;
  a loss of power that keeps a prefix of the journal and an older view; a signal that meets a
  cleanup.
* **Stale checks.** `--check` long before `--apply`; a validation before the lock and the record
  under it; the inspection of step 1 used in step 6; a path checked and then renamed onto.
* **Ordering.** The handoff is published before the record it describes; a request to create a
  container may be carried out after the scan that found nothing; a document is put together from
  files read at different moments.
* **Partial failure.** The old bundle is in the trash and the new one does not validate; one of
  two pages of the timeline is replaced; a reservation outlives its run.
* **Long sequences.** Skips, returns, reopens, halts and resumes of a workflow over weeks.

### What makes each component correct

* *Policy*: no sequence of legal events gets around a mandatory stage, enters recording over an
  unfinished finalization or strands the workflow.
* *State I/O*: one winner per revision; a journal the readers accept, whatever failed; nothing
  reported as committed is lost; a view that is a state of the journal, and can be brought back.
* *Stage finalization*: one outcome per run of a stage; the recorded outcome is that of the
  result the record names; the result was re-validated while the lock was held.
* *Evidence I/O*: what was reported as published stays, what was reported as failed is undone.
* *Completion gate*: nobody records anything within a pass; the terminal count and the handoff
  agree; a pass that was reported can be confirmed by running the gate again.
* *Projections*: a published document was true of the inputs it names, all at one instant, and
  a document that was accepted is what the accepted one was derived from.
* *Verifier*: one verdict per candidate, resting on the events of its own run; a failed run gives
  back what it reserved and nothing else.
* *Docker*: an attempt that ended leaves nothing, or says so; a confirmation comes after a
  proven cleanup; a strict verdict is true; what was there before is kept.
* *Builder*: only validated bundles stand in `confirmed/`, none that was promoted is lost, and a
  failing build leaves its slug as it was.

## 2. Modules

```
AuditTransitionPolicy ── TransitionPolicyFSM
        │
        ├── AuditRecords ── AuditStateIO ── MCAuditStateIO
        │                        │ refines AuditLog
        │                        └── AuditStateIOProofs (with TransitionPolicyFSM)
        ├── StageFinalization ── MCStageFinalization
        │        └── StageFinalizationProofs
        └── CompletionGate ── MCCompletionGate
                 └── CompletionGateProofs
EvidencePublication ── MCEvidencePublication
     └── EvidencePublicationProofs
WorkspaceProjections ── MCWorkspaceProjections
     └── WorkspaceProjectionsProofs
VerificationFacts ── FreshVerification ── MCFreshVerification
                           └── FreshVerificationProofs
DockerDaemon ── DockerCases ── DockerResources ── MCDockerResources
                                      └── DockerResourcesProofs
BundleBuild ── MCBundleBuild
     └── BundleBuildProofs
```

`AuditTransitionPolicy` is `validate_transition` as a predicate on a state and an event, and
`validate_transition_sequence` as a statement about every record of a journal and the state the
record before it leaves (`StateAfter`); nothing in it is recursive. A reason code is reduced
to whether the material it requires is present; the pair (blocker, resume step) is one context.
`TransitionPolicyFSM` applies it for ever from the empty workflow.

`AuditRecords` holds records, views, what makes a journal valid (`inspect_journal_bytes`), when a
view agrees with a journal (`_validate_r2_state_sync`), which protocol a snapshot has, and what a
rebuild derives (`derive_r2_state`). A digest is modelled by what it digests: the digest of the
journal is the sequence of records.

`AuditStateIO` is `commit_event` and the recovery command, one action per system call or per
group of reads under the lock: `Submit`, `Acquire`/`LockTimeout`, `PrepareR2`/`PrepareR1`/`Refuse`,
`AppendPart`, `AppendRest`, `AppendFails`, `Fsync`, `Replace`, `ReplaceFails`, `DirectorySync`,
`ReviewJournal`, `ReviewView`, `Rebuild`, `RebuildRefused`; the environment has `Crash`, `PowerLoss`
and `EditView`. The identity of an event is the number of its submission. `answers` records what
the callers that got as far as a write were told. A torn tail stands for any incomplete last
line. `checked` requests may be refused by a check whose detail is left out (sensitive text, a
caller's precommit hook). The content of R1 events is one record without revision or digest.

`AuditLog` is what the journal promises: append only, one record per event, no loss of a
promised record. `AuditStateIO` refines it with `log <- journal` and
`promised <-` the events whose callers were told `journal_committed`.

`StageFinalization` is one call of `finalize_stage`: `InitialDigest`, `Validate` (a subprocess),
`Load` (a separate read of the path), `ReadState`, `Lock`/`LockTimeout`, `RecheckDigest`,
`Revalidate`, `Reload`, `RecordResult`. Three reads of one path are three steps because the code
reads three times. A document is its own digest; a document whose material `drifted` no longer
validates. The commit, whose inside is `AuditStateIO`, is one step here.

`EvidencePublication` is `atomic_write_bytes` with the read its caller made before: `Load`, `Begin`,
`Stage`, `Recheck`, `Replace`, `Settle`, `Confirm`, `Validate`, and the rollback `CheckUndo`, `Undo`,
`VerifyUndo`. Each of them may fail; where the identity cannot be read back after `os.replace`
(`Settle`) the code undoes nothing, and the update ends `unsettled`. A file is an inode and the set of
entries in it. `setting` is chosen at the start and frozen: what the callers serialize, whether they
pass the identity of what they read, and whether the file system reuses freed inode numbers.

`CompletionGate` is the whole of `main` in `finalize_audit_workspace.py` for an R2 workspace, with
the checks of `assert_finalized_workspace.py`, the ledger's synthesis and validity, and the
handoff's derivation as the gate uses them. Each element of `Gates` is one call. `facts` is what
lies on the disk: each bundle absent, partial or validated, the verdicts, and which flaws hold (no
variant discovery, an unresolved blocker, undecided leads). The handoff document is what it was
derived from (journal, facts, ledger, Docker report), so that "is current" is equality. The
Docker helper's outcome is a free choice; its report is identified by the gate that wrote it. A
record, and the publication of one file, are single steps, since `AuditStateIO` and
`EvidencePublication` have their insides. `quiet` is history: the gate since whose `SUMMARY.md`
nobody else has written. The handoff of the terminal record is derived once, and the code trusts what
it read: `ReadBundles` inspects the bundles first, as `derive_handoff_state` does, and `PublishHandoff`
reads everything else behind it and publishes, so that bundles may change in between and the document
shows those of before; the ledger, which the code loads again for the check of the chain at the end,
the verdicts and the flaws are read in that one step. The other derivations are one step for reasons:
`RefreshHandoff` publishes only what two derivations agree on, which `WorkspaceProjections` takes apart
and proves to be a snapshot, and `CheckCurrent` and `Rerun` compare a derivation with a document.

`WorkspaceProjections` is what derives documents from the workspace: `render_handoff_state` (two
derivations that must agree, then the publication under the lock), the checkpoint command and its
validator, `next_actions` and its validator, and the timeline, whose JSON and HTML files are replaced
one after the other. Every input is read twice, once for what it says and once for its digest, in the
order of the code (`Derive`), while `Write` changes inputs at any step. A document is a pair of
functions from inputs to versions: what it says, and which bytes it names. A publication of the timeline
may be torn between its two files: by a kill, or by a `_restore` that fails itself (`RestoreFails`),
after which only a report of failure or none at all is left.

`VerificationFacts` is `blocked_verification.py`: which block the result files, verdicts and journal
leave standing. `FreshVerification` is a fresh execution of `verify_candidate.py` from `BindInputs`
and `BindJournal` over the exclusive directories and the two reserved files, the wrapper it calls
(`Capture`, `Resume`, `Start`, `ContainerEnds`, `RecordOutcome`, `Finish`, `TimeOut`), the checks
behind it (`Recheck`, `CheckSuffix`) to `Replace`, `Settle`, `RollBack` and `Release`. A reservation
may fail with its file there (`ReserveFails`); a rollback of the writer may put the empty file back
and tell the run so, put it back and then fail to make sure of it, so that the run does not take it
over, or put nothing back; and each removal in `Release` may fail. `left` is history: the paths at
which such a call failed on the run's own file; `warned` are the paths of which the run said that it
leaves them. The same wrapper is also called by hand; other commands record events, the gate hands
work back blocked (`GateBlocks`), people remove, replace and edit files. A file is who made it, what
kind of content it has, and its inode with its time stamp, which is what the reservations are compared
by.

`DockerDaemon` is the host: resources with their labels, and requests the daemon has accepted and
carries out up to `MaxLag` scans later. It is external, modelled from the commands the helpers issue.
`DockerCases` is one attempt at a case, of mode `docker` or `docker-compose`, from `Call` over the
authority, Docker's configuration, the start event, the capture helper (a process of its own, with its
output files and its response), the rounds of the cleanup with their stable clean scans, to the
published result, the outcome event and the EXIT trap. `Kill` may strike anywhere, and so may `Signal`,
whose effect depends on where: it is noted (launching), passed on to the helper (waiting), makes the
handler clean up (`SignalHandled`), during a cleanup makes the handler clean up anew once that one has
ended, and in the EXIT trap, which has taken the handlers back, ends the wrapper as a kill does.
`DockerResources` adds `manage_docker_resources.py`: each of `Managers` is a process of it that runs one
command after the other (`Command`, which looks for the baseline, `CheckResidue`, `CaptureBaseline`,
`WriteBaseline`, `Inspect`, and `RemovePlanned`, one removal at a time), and the commands of different
processes overlap at every one of these steps, since nothing in the code keeps them apart.

`BundleBuild` is one build of `build_confirmed_bundle.py`: `Begin` (with what it does to old staging),
`Render`, `Stage`, the manifests, `Validate`, the batch validation before, `Classify`, `Displace`,
`Promote` (the look at the final path) and `Move`, the batch validation after, and the handler of
errors `Withdraw`, `Restore`, `Mark`, `Remove`. `Fail` is an error at any step before the handler,
which then runs; `HandlerFails` an error of the handler itself: of one of its two moves, which leaves
the build `unrestored`, or of its manifest, which the code ignores. A move onto a directory that is
there moves into it, as `shutil.move` does. `Together` says whether two builders may work on one slug
at a time; nothing in the code prevents it.

## 3. Runs

Every run takes at most about two minutes with two workers. Deadlock is not checked where
every call may be over (bounded requests, each process ends); `policy_fsm` checks it.

| run | instance | states | shows |
|---|---|---|---|
| `policy_fsm` | all stages and statuses, two contexts; unbounded | 979 | mandatory stages, recording, no stranded workflow |
| `commit_race` | two writers, three requests of five kinds, every revision intent, one kill, one I/O failure, one loss of power; empty or pre-policy journal | 494,613 | readable journal, one winner, acknowledged records kept, view is a state of the journal, refinement of `AuditLog` |
| `rebuild` | a writer of either protocol and a recovery; empty, pre-policy and R1 workspaces; one kill, I/O failure and edit of the view; calls in vain without end; no directory fsync; fairness | 238,534 | a stale check never overwrites a newer view, every call returns, a drifted view is repaired |
| `stage_race` | two finalizers of triage or recon, three documents, one change of the file or its material, one kill, two events of others; fairness | 94,276 | one outcome per run, the outcome of the named result, re-validation under the lock, every call returns |
| `evidence_updates` | three updaters, two faults, one kill, both disciplines | 2,481,532 | published stays, failed is undone |
| `gate_race` | two gates of either result, two bundles, three starting points, one kill, one change of any kind at any moment | 929,595 | uninterrupted pass, a handoff that shows what the record counts unless others write, a pass stands |
| `projections` | a journal and two artifacts written twice; a generator with two checkpointers, or with one and a validator, or with a planner and its validator; a timeline; two refusals, kills or failing restorations | 173,121 | published and accepted documents are true of the bytes they name |
| `fresh_runs` | two fresh runs of one candidate, with equal or different run ids, or one and a wrapper by hand; one event of others, one fault of any kind | 1,017,362 | own events, one verdict, released reservations, nobody else's file touched |
| `docker_host` | one attempt of either mode beside two overlapping commands of two processes of the manager; a lag of one scan, two rounds, one clean scan, one fault of any kind | 1,629,323 | nothing left unreported, confirmation after cleanup, true results and strict verdicts, baseline kept |
| `bundles` | two slugs, two builders of different slugs, three builds, two failing commands, failing moves of the error handler, kills or spoiled bundles | 357,820 | only validated bundles, none lost, a failed build restores |
| `later_result` (violation) | two calls of the wrapper for a case, the gate, two events of others, no fault | | see findings |
| `staging_taken` (violation) | two builders of one slug, no fault | | see findings |

**Bounds.** They are `MaxRequests`, `MaxFaults` (per kind), `MaxEdits`, `MaxKills`, `MaxCrashes`,
`MaxRevision`, `MaxChanges`, `MaxMishaps`, `MaxOthers`, `MaxBuilds`, `MaxCommands`, `MaxLag`, the
constants `Rounds` and `StableScans` of a cleanup (5 and 3 in the code), the six inodes, `Earlier` and
`Others` (what the journal of an attempt holds before and gets from others) and the sets of actors,
`Managers` among them. Two writers suffice for a race on one revision; the third request follows the
race and meets what it and a fault left. Each kind of fault may strike once at any step, which is
every state a single failure can leave; where faults have separate bounds they combine. Two gates
include the loser that keeps writing. Two changes of the inputs are enough for every reading that says
one version and names another, and two mishaps let a failing restoration follow a refusal or a kill.
Three builds include the replacement of a bundle that was itself restored. In a cleanup what matters
is that a request to create something can outlast a scan but not the clean scans in a row that are
asked for, which `CasesAssumption` states; one and one keep that relation. The mutants show that each
property is within reach of the bounds: for each of them a plausible slip in a mapped definition makes
TLC report it.

In `rebuild` `MaxRequests` bounds the events that are committed, not the callers: with `EndlessCalls`
a writer may call again and again for ever, each of its calls being refused, and hold the
lock each time the recovery comes. That is all a writer can do to a recovery. `--apply` compares the
digests of journal and view under the lock with those of its check (`audit_state_io.py:673`), and would
lose every race if commits passed in between without end; but while the files are apart every commit
is refused under the lock before it writes (697-726), so no commit changes the journal between the
check and the repair. What could starve a recovery is the lock itself, hence the premise of
`DriftIsRepaired`.

Writers, updaters, gates, verifiers, run ids, managers, builders and slugs are interchangeable, and no
property or `CHOOSE` names one, so these sets are symmetry sets in the safety runs; the runs with
liveness use none.

**Fairness.** Weak fairness on `Continue(p)` for each called process: once called, a command runs
on unless it is killed. Nothing in the code waits without a limit: `workspace_lock` polls a
non-blocking `flock` up to its timeout (`LockTimeout` is the way out), the validator subprocess has
20 seconds. Being called is never assumed, except in `DriftIsRepaired`, whose premise is
that somebody keeps running the recovery command and that it gets the lock again and again, instead of
a `LOCK_TIMEOUT` each time: the polling of the lock is not fair, and nothing in the code makes it so.

## 4. What is proved

Eight proof modules, all checked by `tlapm` to the last leaf, for every value of the constants the
named assumptions allow: any numbers of processes, requests, faults, kills and rounds. They state
every property of the passing runs but three, which are liveness. TLC checked each inductive
invariant on the instance of its component's run before it was proved.

**The policy and the commit protocol** (`AuditStateIOProofs`). `AuditStateIOAssumption`: initial files
some snapshot reads, whose records have ids above `MaxRequests`; policy records carry a plugin
version; requests that halt carry a context, which the command line enforces at
`write_audit_event.py:192`.

* `CommitTypeCorrect`. The inductive invariant `Shape` says, besides the types, where the holder of
  the lock can be, what each process has prepared at each step (a process that appends holds an
  event `PrepareR2` or `PrepareR1` accepted for this very journal), and that nobody else has
  prepared anything.
* `JournalStaysReadable`, `NoRecordFollowsATornOne`. `TypeOK` and `JournalValid` are not inductive:
  the writer checks its event against the *view*, the reader replays the *journal*. `JournalInv`
  closes the gap: a view that is in step with the journal has the state the replay ends in, so an
  event legal for the one is legal for the other; appending it keeps the chain of revisions and the
  replay.
* `AcknowledgementHolds`, `CompareAndSwapHasOneWinner`, and `JournalIsALog`, the refinement of
  `AuditLog`. `TraceInv` adds where the record of each submission is: ids are distinct, an answered
  commit has its record within the durable prefix, an answer that named a revision has its record at
  the position after it.
* `NoStaleViewPublished`, for writers and recovery commands: who replaces the view has held the lock
  since it read the journal.
* `ViewNeverLeadsJournal`, under `NoLossAfterRepair`: no loss of power, or no rebuild and no edit of
  the view. Without it the theorem is false, and the rebuild is why: it publishes a view of records
  it never forced to the disk (see findings). `ViewInv` is about all views that are or may come back
  after a loss of power, and, where one may come, about the durable part of the journal.
* `WorkflowTypeCorrect`, `NoStageIsBypassed`, `RecordingFollowsFinalization`, `NoWorkflowIsStranded`,
  about the policy alone. The invariants are inductive together with the type; the last needs to know
  that a context is there exactly when the workflow is paused or blocked, so that the event that resumes
  it is there; this is part of the type `WorkflowTypeOK`.
* `EveryJournalKeepsPolicy` joins the two: the policy judges one event against one view, and the
  theorem says what follows for a whole journal written under it, whatever raced or failed. An
  induction on the length of the journal would need a theorem schema the provers cannot instantiate;
  instead the lemma `LeastOf` takes the first record that breaks the claim, and the step
  of the replay behind it refutes it.

**Evidence** (`EvidencePublicationProofs`): `PublishedStays` and `FailedIsUndone`, both under
`Disciplined`, the choices of `setting` that `evidence_updates` checks: callers serialize from their
read on, or they serialize their writes, pass the identity of what they read, and no inode number is
reused. `Entries` says of each step whose entry is in the file and whose will come with the next
write. `FailedIsUndone` is about every report of failure but two: of an update whose published
identity could not be read (`unsettled`, `evidence_io.py:292`), where the code undoes nothing, and of
one whose rollback failed, which says so (`rollback_failed`). What such an update leaves in the file
is covered by `PublishedStays`: it never costs the entry of another. Outside the discipline both are
false (see findings, `evidence_io.py:289`).

**Stage results** (`StageFinalizationProofs`): `StageHasOneOutcome` and `ResultsAreRechecked`, and
`OutcomeIsOfNamedResult` under `~ContentRecurs`. Its `IInv` says that who records has had the lock
since it found the stage at work (`Locked`, `AtWorkAgain`), and what the holder was shown of the
result (`Seen`). `NamedInv` adds that a file which is no longer the result a record names never is it
again, which is what the condition buys.

**The gate** (`CompletionGateProofs`): `NobodyBetween`, `HandoffCounts`, `PassIsRepeatable`. The
invariant follows the revision a gate carries from record to record, so that a gate whose next append
succeeds has the end of the journal for itself; what it read, wrote and derived at each step; and,
while `quiet` names it, that the disk is still what it derived from. That is the step from "the
checks of the pass held" to "the checks of a rerun would", which look at the files again and not at
what the gate remembers. `GateAssumption` only says what the constants are: a halt's
context, results apart from the gates that give them, well-formed files at first.

**Projections** (`WorkspaceProjectionsProofs`): all five properties of `projections`, for any number of
inputs, changes and processes (`OneTimeline` for `TimelineIsTrue`): `PublishedIsSnapshot`,
`CheckpointsAreTrue`, `AcceptedIsTrue`, `AcceptedActionsAreOfHandoff`, `TimelineIsTrue`. Why two
derivations make a snapshot of inputs that change all the time is the predicate `Between`: when the
first derivation is complete there is an instant no older than what it named and no newer than what
the second has read so far; if both agree at the end, all of it is of that instant (`TwiceTheSame`).
For the next actions, `NotBefore` orders the published handoffs, each read behind what the one before
names; a validator derives behind what it was given, so what it finds equal was of one handoff.

**Fresh runs** (`FreshVerificationProofs`).

* `FreshTypes` and `FreshKeepsOthers`, the action property that a run removes and replaces no file
  but its own. That a run compares before it removes is not enough, since what it compares with was
  remembered earlier. `HeldSound` says that a remembered reservation is never newer than what is at
  its path, and as new only if that is the run's own file or gone; it holds because whatever appears
  at a path has a higher inode number.
* `VerdictOnOwn`, `OneVerdict`, `FailureTakesBack`. `JInv` adds which two records of the journal are
  the run's own from `CheckSuffix` on, that a verdict once in place stays there, and that each empty
  file of a live run is held by it just as it is, unless a call that made it or put it back has
  failed behind it. So `FailureTakesBack` says: whichever empty file of its own a failed run leaves, a
  system call on that very file failed, and the run has said of that path that it leaves it.

**Bundles** (`BundleBuildProofs`): `ConfirmedAreValidated`, `PromisedAreKept` and `FailedBuildsRestore`,
all under `~Together`; `staging_taken` shows that the first needs it. `AllPlaced` says where the bundle
of each working builder is at each of its steps and that from `passed` on it was validated; `Apart`
that two working builders share neither slug nor build. Without `AllPlaced` nothing connects the
validation in staging with the move three steps later. For the third, `Own` and `AllBack` say where
the bundle a builder found is while it works, and that the error handler reaches it. Where the code does
not restore it (an error between the removal of the old bundle and the move of the new, or of a
move of the handler) the theorem says that the old bundle is in the trash.

**Docker** (`DockerResourcesProofs`): all five properties of `docker_host`, for any number of attempts
at one case that overlap as they may: `NothingStaysUnreported`, `CompletedRecorded`,
`ConfirmedNeedsCleanup`, `BaselineKept`, `StrictCleanTrue`.

* That a scan finds nothing says little, since a request the daemon has accepted may still be carried
  out. `Hiding` counts down: with every scan each pending request of the attempt has one less to hide
  from, and as many clean scans as are asked for leave none, by `MaxLag <= StableScans` in
  `CasesAssumption`, the one thing assumed of the daemon's speed.
* `Untouched` says that nothing of an attempt is there, nor protected, before its helper starts; `Host`
  that a pending request is of something new, which is why it cannot be in a baseline, and that
  what bears an attempt's identity bears its labels, so that its cleanup finds it.
* `Guards` is the manager's side: as long as no listing failed, a baseline has whatever is protected
  and still there, so no plan has any of it. What is protected is what every capture listed that found
  no baseline: several may race, and the last to be written stands.
* The assumptions say that identities and labels of attempts are new to the host (their token is drawn
  at the call, `docker_case_lifecycle.py:330`) and that `Missing` is no document.

**Only model-checked.** Liveness (`EveryCallEnds`, `DriftIsRepaired`, `EveryFinalizerReturns`), which
is beyond the prover, and the two violations, which are counterexamples. Conversely
`NoRecordFollowsATornOne` and `EveryJournalKeepsPolicy` are proved and not run.

## 5. Findings

Two runs show the code doing something else than its documents say; `PROJECT.json` quotes the lines.

* `later_result`: the block the gate records when it hands work back names no case
  (`finalize_audit_workspace.py:965`); in `blocked_verification.py:332` it is a fact about the
  workspace that no later result of a case resolves.
* `staging_taken`: `owned_failed_staging` (`build_confirmed_bundle.py:441`) takes any staging directory
  whose manifest does not say `promoted` for a failed one. A second builder of the slug throws the
  live staging of the first away and puts its own, unvalidated bundle there, and the first promotes it.

Further behaviour met while modelling, for which no run is kept:

* `audit_state_io.py:223`: a directory fsync that fails after the view was replaced is answered
  with `state_view_updated=false`, though the new view is there.
* `evidence_io.py:289`: the identity compare-and-swap of a publication compares and swaps in two
  system calls with nothing held, so two writers nobody serializes can both succeed.
* `evidence_io.py:292`: where the identity cannot be read back after `os.replace`, the handler at 303
  finds nothing to undo: the update is reported as failed with its content in place.
* `evidence_io.py:211`: a rollback that has put the content back may fail at the directory fsync or
  the check behind it. `verify_candidate.py:1045` then does not take the file over, and a failed fresh run
  leaves its own empty file with a warning (1165), in the way of the next run.
* `manage_docker_resources.py:834`: a capture looks for a baseline, takes its snapshot and writes it in
  three steps. Of two first captures the later replaces the other, and the strict check compares
  with a baseline that may list what was created after the first. Hence `weakened` in
  `StrictCleanIsTruthful`, which speaks of one baseline.
* `finalize_audit_workspace.py:923`: a gate that is going to lose the compare-and-swap overwrites the
  `SUMMARY.md` of the one that is going to pass.
* `audit_disposition.py:687`: the gate's helper reads the ledger, merges and publishes it without the
  lock and without the identity of what it read (105-151). With three gates at once and edits between, a
  late ledger may replace that of a gate which has derived its handoff, so that the count of its
  record and the handoff agree on bundles the ledger on the disk no longer shows. `CountOfHandoff` is
  about the handoff that was derived, and about the count only while no other program writes.
* `finalize_stage.py:301`: the blocker in a stage record comes from a read of the result that no
  digest covers; a result that is replaced and restored gives the record another's blocker. Hence
  the premise `ContentRecurs = FALSE` of `stage_race`.
* `run_verification_case.sh:1825`: two attempts at one case share `capture-response.json`, and one may
  read the response of the other's helper. Hence one attempt in `docker_host`.
* `blocked_verification.py:316`: facts are ordered by the kind of their document, not by their age.
* `build_confirmed_bundle.py`: an error between the removal of the old bundle and the promotion of
  the new leaves the slug empty, since only a promoted build restores; and an error of a move of the
  handler itself (724, 729) leaves the new bundle in `confirmed/`, or the slug empty. `FailureRestores`
  then demands only that the old bundle is in the trash.
* `audit_state_io.py:677`: the rebuild never fsyncs the journal it reads, so that after a kill
  between write and fsync, a rebuild and a loss of power the view can be ahead of the journal.
* `audit_state_io.py:1028`: an R1 commit whose view replacement fails leaves a pair no command repairs.

## 6. What is left out, and why

* In `AuditStateIO`: field formats and sizes, symbolic links and ownership checks, leftover
  temporary files, the durability of the journal's own directory entry, the verification after a
  rebuild (it reads what was just published).
* In `StageFinalization`: the field rules of the validators, beyond which status they approve.
* In `EvidencePublication`: more than one update per process, other link counts and owners.
* In `CompletionGate`: R1 workspaces, the first event of an empty workspace, the 300 s age of the
  Docker report (it only adds refusals), the other issues `derive_handoff_state` knows (reference
  drift, invalid recon or triage results), and liveness: a gate is a straight line whose only waits,
  for the lock, time out.
* In `WorkspaceProjections`: the fields of the documents, a content that is changed and changed back
  between two reads, a second publisher of the timeline, and which actions follow from a handoff.
* In `FreshVerification`: the verdict drawn from supplied evidence without an execution, the
  rules of each document, the reuse of inode numbers, the text fallback and the recovery hints of
  `blocked_verification.py`. A check and the system call right behind it are one step.
* In `DockerCases` and `DockerResources`: a second attempt at the same case (see findings),
  conflicts of container names, the text of receipts, and the age and format of baselines. Images
  and build caches are resources without an inside.
* In `BundleBuild`: what is rendered, and steps of `validate_all_report_bundles.py`, which is one
  look at `confirmed/`.
* Whole components, not modelled: candidate identity and deduplication (pure, planned), document
  validators and the Word renderer (rules about single documents, without state), variant
  analysis, planning, preflight, bootstrap and installation (probes and set-up that share no state
  with the rest), text safety (regular expressions), and the self tests, which are a third of the
  code. `components` in `PROJECT.json` gives a reason for each; together they are most of what
  the map does not cover.

## 7. Plan

In this order:

1. Disposition ledger: the merge of verdicts and blockers, with lost updates.
2. Candidate identity and grouping as functions against a reference partition.
3. Proofs: the gate's rerun for every later instant; that `FreshVerification` and `DockerCases`,
   where one step is a commit, are sound abstractions of `AuditStateIO`.
4. A run of two attempts at one case, with the identities of containers; the theorems of
   `DockerResourcesProofs` already cover it.
