------------------------------ MODULE BundleBuild ------------------------------
(***************************************************************************)
(* build_confirmed_bundle.py: a bundle is rendered, staged, validated and  *)
(* moved to confirmed/<slug>, all of it without a lock.  The old bundle of *)
(* a slug goes to the trash first; an error after that is undone by the    *)
(* builder, unless undoing it fails too; a kill is not undone.             *)
(* validate_all_report_bundles.py must accept the whole of confirmed/, the *)
(* bundles of other slugs included, before and after the move; somebody    *)
(* may spoil a delivered bundle at any time.                               *)
(***************************************************************************)
EXTENDS Naturals, FiniteSets

CONSTANTS
  Slugs, Builders, None,
  Together,     \* whether a slug may be built by two builders at a time
  MaxBuilds,    \* builds
  MaxMishaps    \* errors of the system, kills and spoiled bundles

\* Rendered bundles: the build it is of, whether validate_report_bundle.py accepts it and has done
\* so, what bundle-build-manifest.json says of its promotion, the builds moved into it.
Bundles ==
  [build : Nat, sound : BOOLEAN, checked : BOOLEAN,
   manifest : {"missing", "not_promoted", "failed", "promoted"}, nested : SUBSET Nat]

ASSUME BundleAssumption ==
  /\ None \notin Builders \cup Slugs /\ None \notin Bundles
  /\ Together \in BOOLEAN
  /\ MaxBuilds \in Nat /\ MaxMishaps \in Nat

VARIABLES
  final,        \* confirmed/<slug>
  staging,      \* confirmed/.staging/<slug>
  trash,        \* confirmed/.staging/.trash
  proc,         \* the builders
  builds,       \* how many builds began
  promised,     \* the builds that were reported promoted
  mishaps

vars == <<final, staging, trash, proc, builds, promised, mishaps>>

\* As it leaves the renderer.
Bundle(n, sound) ==
  [build |-> n, sound |-> sound, checked |-> FALSE, manifest |-> "missing", nested |-> {}]

\* replace is --replace-existing-validated-bundle; open, that the slug is between two bundles.
Idle == [pc |-> "idle", slug |-> None, replace |-> FALSE, build |-> 0,
         rendered |-> None, promoted |-> FALSE, trashed |-> None, before |-> None, open |-> FALSE]

Init ==
  /\ final = [s \in Slugs |-> None] /\ staging = [s \in Slugs |-> None] /\ trash = {}
  /\ proc = [b \in Builders |-> Idle]
  /\ builds = 0 /\ promised = {} /\ mishaps = 0

Slug(b) == proc[b].slug
At(b, pc) == proc[b].pc = pc
Goes(b, pc) == proc' = [proc EXCEPT ![b].pc = pc]
Ends(b, pc) == proc' = [proc EXCEPT ![b] = [Idle EXCEPT !.pc = pc]]
\* A build that raised an error ends failed, or unrestored if its handler raised another.
InError == {"failed", "unrestored"}
Working(b) == proc[b].pc \notin {"idle", "failed", "unrestored"}
\* The build a bundle is of, 0 without one.
BuildOf(bundle) == IF bundle = None THEN 0 ELSE bundle.build

Unfiled == UNCHANGED <<final, staging, trash>>
Counted == UNCHANGED <<builds, promised, mishaps>>
-----------------------------------------------------------------------------
\* owned_failed_staging: the manifest is there and does not say promoted.
Owned(bundle) == bundle.manifest \in {"not_promoted", "failed"}

\* The contract is checked, final and staging directory are in nobody's way; a failed one of its own
\* is put aside with --replace-failed-staging.
Begin(b, s, replace) ==
  /\ ~Working(b) /\ builds < MaxBuilds
  /\ ~Together => \A other \in Builders \ {b} : ~(Working(other) /\ Slug(other) = s)
  /\ final[s] # None => replace
  /\ IF staging[s] = None
     THEN UNCHANGED <<staging, trash>>
     ELSE /\ Owned(staging[s])
          /\ trash' = trash \cup {staging[s]}
          /\ staging' = [staging EXCEPT ![s] = None]
  /\ builds' = builds + 1
  /\ proc' = [proc EXCEPT ![b] = [Idle EXCEPT !.pc = "render", !.slug = s, !.replace = replace,
                                    !.build = builds + 1, !.before = final[s]]]
  /\ UNCHANGED <<final, promised, mishaps>>

\* render_confirmed_vuln_docx.py, in a directory of its own.
Render(b) ==
  /\ At(b, "render")
  /\ \E sound \in BOOLEAN :
       proc' = [proc EXCEPT ![b].pc = "stage", ![b].rendered = Bundle(proc[b].build, sound)]
  /\ Unfiled /\ Counted

\* shutil.move: to the path, or into the directory that is at the path.
Moved(bundle, to) ==
  IF to = None THEN bundle ELSE [to EXCEPT !.nested = @ \cup {bundle.build}]

Stage(b) ==
  /\ At(b, "stage")
  /\ staging' = [staging EXCEPT ![Slug(b)] = Moved(proc[b].rendered, @)]
  /\ Goes(b, "pending")
  /\ UNCHANGED <<final, trash>> /\ Counted

\* write_manifest, into a directory that must be there.
Manifest(dir, s, says) == dir' = [dir EXCEPT ![s].manifest = says]

StagingManifest(b, from, to) ==
  /\ At(b, from)
  /\ IF staging[Slug(b)] = None
     THEN Goes(b, "undo") /\ UNCHANGED staging
     ELSE Manifest(staging, Slug(b), "not_promoted") /\ Goes(b, to)
  /\ UNCHANGED <<final, trash>> /\ Counted
WritePending(b) == StagingManifest(b, "pending", "validate")
WritePassed(b) == StagingManifest(b, "passed", "batch")

\* Mutant of Accepted: a bundle passes if its files are there.
AcceptedByPresence(bundle) == bundle # None
\* validate_report_bundle.py
Accepted(bundle) == bundle # None /\ bundle.sound

Validate(b) ==
  /\ At(b, "validate")
  /\ IF Accepted(staging[Slug(b)])
     THEN staging' = [staging EXCEPT ![Slug(b)].checked = staging[Slug(b)].sound] /\ Goes(b, "passed")
     ELSE UNCHANGED staging /\ Goes(b, "undo")
  /\ UNCHANGED <<final, trash>> /\ Counted

\* validate_all_report_bundles.py: every bundle of confirmed/.
BatchPasses == \A s \in Slugs : final[s] # None => Accepted(final[s])

BatchBefore(b) ==
  /\ At(b, "batch")
  /\ Goes(b, IF BatchPasses THEN "classify" ELSE "undo")
  /\ Unfiled /\ Counted

\* classify_existing_final: only a validated bundle may be replaced.
Classify(b) ==
  /\ At(b, "classify")
  /\ Goes(b, IF final[Slug(b)] = None \/ ~proc[b].replace THEN "promote"
             ELSE IF BatchPasses THEN "displace" ELSE "undo")
  /\ Unfiled /\ Counted

\* move_existing_to_trash
Displace(b) ==
  /\ At(b, "displace")
  /\ IF final[Slug(b)] = None
     THEN Goes(b, "undo") /\ Unfiled
     ELSE /\ trash' = trash \cup {final[Slug(b)]}
          /\ final' = [final EXCEPT ![Slug(b)] = None]
          /\ proc' = [proc EXCEPT ![b].pc = "promote", ![b].trashed = final[Slug(b)], ![b].open = TRUE]
          /\ UNCHANGED staging
  /\ Counted

\* Nothing may have appeared at the final path; it is looked at before the move, not by it.
Promote(b) ==
  /\ At(b, "promote")
  /\ Goes(b, IF final[Slug(b)] # None THEN "undo" ELSE "move")
  /\ Unfiled /\ Counted

Move(b) ==
  /\ At(b, "move")
  /\ IF staging[Slug(b)] = None
     THEN Goes(b, "undo") /\ Unfiled
     ELSE /\ final' = [final EXCEPT ![Slug(b)] = Moved(staging[Slug(b)], @)]
          /\ staging' = [staging EXCEPT ![Slug(b)] = None]
          /\ proc' = [proc EXCEPT ![b].pc = "promoted", ![b].promoted = TRUE, ![b].open = FALSE]
          /\ UNCHANGED trash
  /\ Counted

WritePromoted(b) ==
  /\ At(b, "promoted")
  /\ IF final[Slug(b)] = None
     THEN Goes(b, "undo") /\ UNCHANGED final
     ELSE Manifest(final, Slug(b), "promoted") /\ Goes(b, "batch after")
  /\ UNCHANGED <<staging, trash>> /\ Counted

BatchAfter(b) ==
  /\ At(b, "batch after")
  /\ IF BatchPasses /\ \E s \in Slugs : final[s] # None
     THEN /\ Ends(b, "idle")
          /\ promised' = promised \cup {proc[b].build}
     ELSE Goes(b, "undo") /\ UNCHANGED promised
  /\ Unfiled /\ UNCHANGED <<builds, mishaps>>
-----------------------------------------------------------------------------
(* The exception handler of build *)

\* Mutant of MayWithdraw: whatever stands at the final path is taken back.
WithdrawAnything(b) == final[Slug(b)] # None
MayWithdraw(b) == proc[b].promoted /\ final[Slug(b)] # None

\* What was promoted goes back to staging.
Withdraw(b) ==
  /\ At(b, "undo")
  /\ IF MayWithdraw(b)
     THEN /\ staging' = [staging EXCEPT ![Slug(b)] = final[Slug(b)]]
          /\ final' = [final EXCEPT ![Slug(b)] = None]
          /\ proc' = [proc EXCEPT ![b].pc = "restore", ![b].promoted = FALSE]
     ELSE UNCHANGED <<staging, final>> /\ Goes(b, "mark")
  /\ UNCHANGED trash /\ Counted

\* Mutant of MayRestore: the old bundle stays in the trash.
NeverRestore(b) == FALSE
MayRestore(b) == proc[b].trashed \in trash /\ final[Slug(b)] = None

\* What it had replaced comes back, if it had been promoted.
Restore(b) ==
  /\ At(b, "restore")
  /\ IF MayRestore(b)
     THEN /\ final' = [final EXCEPT ![Slug(b)] = proc[b].trashed]
          /\ trash' = trash \ {proc[b].trashed}
     ELSE UNCHANGED <<final, trash>>
  /\ Goes(b, "mark")
  /\ UNCHANGED staging /\ Counted

Mark(b) ==
  /\ At(b, "mark")
  /\ IF staging[Slug(b)] = None \/ proc[b].promoted
     THEN UNCHANGED staging /\ Ends(b, "failed")
     ELSE Manifest(staging, Slug(b), "failed") /\ Goes(b, "remove")
  /\ UNCHANGED <<final, trash>> /\ Counted

\* Unless called with --keep-failed-staging.
Remove(b) ==
  /\ At(b, "remove")
  /\ staging' \in {staging, [staging EXCEPT ![Slug(b)] = None]}
  /\ Ends(b, "failed")
  /\ UNCHANGED <<final, trash>> /\ Counted
-----------------------------------------------------------------------------
Mishap == mishaps < MaxMishaps /\ mishaps' = mishaps + 1 /\ UNCHANGED <<builds, promised>>

\* A command or a system call of the build fails.
Fail(b) ==
  /\ Working(b) /\ proc[b].pc \notin {"undo", "restore", "mark", "remove"}
  /\ Mishap /\ Goes(b, "undo")
  /\ Unfiled

\* The handler itself fails.  An error of one of its moves leaves build at once, with what it had
\* not undone; one of write_manifest is ignored.
HandlerFails(b) ==
  /\ \/ At(b, "undo") /\ MayWithdraw(b) /\ Ends(b, "unrestored")
     \/ At(b, "restore") /\ MayRestore(b) /\ Ends(b, "unrestored")
     \/ At(b, "mark") /\ staging[Slug(b)] # None /\ ~proc[b].promoted /\ Goes(b, "remove")
  /\ Mishap /\ Unfiled

\* A kill, or an interrupt, which `except Exception` does not catch.
Kill(b) ==
  /\ Working(b)
  /\ Mishap
  /\ Ends(b, "idle")
  /\ Unfiled

\* A delivered bundle is edited by hand.
Spoil(s) ==
  /\ final[s] # None
  /\ Mishap
  /\ final' = [final EXCEPT ![s].sound = FALSE]
  /\ UNCHANGED <<staging, trash, proc>>

Next ==
  \/ \E b \in Builders :
       \/ \E s \in Slugs, replace \in BOOLEAN : Begin(b, s, replace)
       \/ Render(b) \/ Stage(b) \/ WritePending(b) \/ Validate(b) \/ WritePassed(b)
       \/ BatchBefore(b) \/ Classify(b) \/ Displace(b) \/ Promote(b) \/ Move(b)
       \/ WritePromoted(b) \/ BatchAfter(b) \/ Withdraw(b) \/ Restore(b) \/ Mark(b) \/ Remove(b)
       \/ Fail(b) \/ HandlerFails(b) \/ Kill(b)
  \/ \E s \in Slugs : Spoil(s)

Spec == Init /\ [][Next]_vars
-----------------------------------------------------------------------------
(* Properties *)

\* What stands in confirmed/ passed its validation before it was moved there, whatever was killed,
\* undone or restored meanwhile.
ConfirmedValidated == \A s \in Slugs : final[s] # None => final[s].checked

\* A bundle that was reported promoted stays in confirmed/ or lies in the trash.
PromisedKept ==
  \A n \in promised :
    (\E s \in Slugs : BuildOf(final[s]) = n) \/ (\E bundle \in trash : bundle.build = n)

\* A build that ends in an error, not by a kill, leaves the bundle of its slug as it found it.  Two
\* errors may leave it otherwise: one between the removal of the old bundle and the move of the new,
\* and one of a move of the handler.  The old bundle, if there was one, then lies in the trash.
FailureRestores ==
  [][\A b \in Builders :
       Working(b) /\ proc'[b].pc \in InError =>
         LET found == BuildOf(proc[b].before)
         IN  \/ BuildOf(final'[Slug(b)]) = found
             \/ /\ proc[b].open \/ proc'[b].pc = "unrestored"
                /\ found = 0 \/ \E bundle \in trash' : bundle.build = found]_vars

=============================================================================
