--------------------------- MODULE BundleBuildProofs ---------------------------
(***************************************************************************)
(* Proofs about BundleBuild, for builders that do not share a slug.  What  *)
(* makes them safe is where the bundle of a build is while it goes on: at  *)
(* the staging path from Stage to Move, checked from Validate on, at the   *)
(* final path from Move to Withdraw, and at no other time does the builder *)
(* take anything from the final path but to the trash.  The bundle         *)
(* a build began with stays at the final path, or in the trash until the   *)
(* builder puts it back: nobody else removes it, for a build is of one     *)
(* slug.                                                                   *)
(***************************************************************************)
EXTENDS BundleBuild, TLAPS

MaybeBundles == Bundles \cup {None}
Places ==
  {"idle", "failed", "unrestored", "render", "stage", "pending", "validate", "passed", "batch",
   "classify", "displace", "promote", "move", "promoted", "batch after", "undo", "restore", "mark",
   "remove"}
Procs ==
  [pc : Places, slug : Slugs \cup {None}, replace : BOOLEAN, build : Nat, rendered : MaybeBundles,
   promoted : BOOLEAN, trashed : MaybeBundles, before : MaybeBundles, open : BOOLEAN]

Typed ==
  /\ final \in [Slugs -> MaybeBundles] /\ staging \in [Slugs -> MaybeBundles]
  /\ trash \in SUBSET Bundles
  /\ proc \in [Builders -> Procs]
  /\ builds \in Nat /\ promised \in SUBSET (1 .. builds)

Staged == {"pending", "validate", "passed", "batch", "classify", "displace", "promote",
           "move"}
Checked == {"passed", "batch", "classify", "displace", "promote", "move"}
Promoted == {"promoted", "batch after"}

\* Where the bundle of a working builder is.
Placed(b) ==
  /\ proc[b].slug \in Slugs /\ proc[b].build \in 1 .. builds /\ proc[b].build \notin promised
  /\ proc[b].pc \in {"render", "stage"} => staging[proc[b].slug] = None
  /\ proc[b].pc = "stage" => proc[b].rendered # None /\ proc[b].rendered.build = proc[b].build
  /\ proc[b].pc \in Staged =>
       staging[proc[b].slug] # None /\ staging[proc[b].slug].build = proc[b].build
  /\ proc[b].pc \in Checked => staging[proc[b].slug].checked
  /\ proc[b].promoted =>
       /\ proc[b].pc \in Promoted \cup {"undo"}
       /\ final[proc[b].slug] # None /\ final[proc[b].slug].build = proc[b].build
  /\ proc[b].pc \in Promoted => proc[b].promoted
  /\ proc[b].pc = "move" => final[proc[b].slug] = None
  /\ proc[b].trashed # None => proc[b].trashed.checked

AllPlaced == \A b \in Builders : Working(b) => Placed(b)

\* Two builders work on bundles and builds of their own.
Apart ==
  \A b, c \in Builders :
    b # c /\ Working(b) /\ Working(c) =>
      proc[b].slug # proc[c].slug /\ proc[b].build # proc[c].build

\* Build n is of slug s: a bundle of it stands at one of the slug's paths, or a working builder of
\* the slug makes it or has moved it to the trash.
Held(s, n) ==
  \/ final[s] # None /\ final[s].build = n
  \/ staging[s] # None /\ staging[s].build = n
  \/ \E b \in Builders :
       /\ Working(b) /\ proc[b].slug = s
       /\ proc[b].build = n \/ (proc[b].trashed # None /\ proc[b].trashed.build = n)

\* A build is of one slug.
Own ==
  \A s \in Slugs, n \in Nat : Held(s, n) => n <= builds /\ \A t \in Slugs : Held(t, n) => t = s

\* What b moved to the trash is the bundle its build began with, and lies there.
InTrash(b) ==
  /\ proc[b].trashed # None /\ proc[b].trashed \in trash
  /\ proc[b].trashed.build = BuildOf(proc[b].before)

Early == {"render", "stage", "pending", "validate", "passed", "batch", "classify", "displace"}

\* Where the bundle is that the build of b began with.
Back(b) ==
  /\ proc[b].pc \in Early \cup {"restore"} \/ proc[b].promoted => ~proc[b].open
  /\ proc[b].open => InTrash(b)
  /\ proc[b].pc = "restore" \/ proc[b].promoted =>
       InTrash(b) \/ (proc[b].trashed = None /\ BuildOf(proc[b].before) = 0)
  /\ proc[b].pc = "restore" => final[proc[b].slug] = None
  /\ ~proc[b].promoted /\ proc[b].pc \notin {"restore", "mark", "remove"} =>
       (proc[b].open /\ InTrash(b)) \/ (~proc[b].open /\ proc[b].trashed = None)
  /\ ~proc[b].promoted /\ ~proc[b].open /\ proc[b].pc # "restore" =>
       BuildOf(final[proc[b].slug]) = BuildOf(proc[b].before)

AllBack == \A b \in Builders : Working(b) => Back(b)

IInv ==
  /\ Typed /\ AllPlaced /\ Apart /\ Own /\ AllBack
  /\ ConfirmedValidated /\ PromisedKept

\* The step is one of b alone: other builders and the paths of other slugs are left as they are.
StepOf(b) ==
  /\ builds' = builds /\ promised' \subseteq promised \cup {proc[b].build}
  /\ \A c \in Builders \ {b} : proc'[c] = proc[c]
  /\ \A s \in Slugs \ {proc[b].slug} : final'[s] = final[s] /\ staging'[s] = staging[s]
  /\ Working(b)' => proc'[b].slug = proc[b].slug /\ proc'[b].build = proc[b].build

\* Only b's entry of proc may change, and it stays typed.
Moves(b) ==
  /\ proc' \in [Builders -> Procs]
  /\ \A c \in Builders \ {b} : proc'[c] = proc[c]

Remembers(b) ==
  /\ proc'[b].slug = proc[b].slug /\ proc'[b].build = proc[b].build
  /\ proc'[b].rendered = proc[b].rendered /\ proc'[b].before = proc[b].before

Same(b) ==
  /\ proc'[b].promoted = proc[b].promoted /\ proc'[b].trashed = proc[b].trashed
  /\ proc'[b].open = proc[b].open

\* No build comes to the slug of b that is not of it already, and nothing leaves the trash but what
\* b had moved there.
Stays(b) ==
  /\ final'[proc[b].slug] # None => Held(proc[b].slug, final'[proc[b].slug].build)
  /\ staging'[proc[b].slug] # None => Held(proc[b].slug, staging'[proc[b].slug].build)
  /\ Working(b)' /\ proc'[b].trashed # None => Held(proc[b].slug, proc'[b].trashed.build)
  /\ \A x \in trash \ trash' : proc[b].trashed # None /\ x = proc[b].trashed

\* The paths stay typed, and only those of b's slug may change.
Paths(b) ==
  /\ final' \in [Slugs -> MaybeBundles] /\ staging' \in [Slugs -> MaybeBundles]
  /\ trash' \in SUBSET Bundles
  /\ \A s \in Slugs \ {proc[b].slug} : final'[s] = final[s] /\ staging'[s] = staging[s]

\* None is no bundle.
LEMMA NoneIsNoBundle == None \notin Bundles
  BY BundleAssumption

\* A step of one builder leaves the bundles of the others where they are.
LEMMA OthersPlaced ==
  ASSUME IInv, NEW b \in Builders, Working(b), StepOf(b), (Working(b) => Placed(b))',
         Stays(b), (Working(b) => Back(b))'
  PROVE  AllPlaced' /\ Apart' /\ Own' /\ AllBack'
  <1>1. ASSUME NEW c \in Builders \ {b}, Working(c)'
        PROVE  Placed(c)'
    <2>1. proc'[c] = proc[c] /\ Working(c) /\ Placed(c)
      BY <1>1 DEF IInv, AllPlaced, StepOf, Working
    <2>2. proc[c].slug # proc[b].slug /\ proc[c].build # proc[b].build /\ proc[c].slug \in Slugs
      BY <2>1 DEF IInv, Apart, Placed
    <2>3. /\ final'[proc[c].slug] = final[proc[c].slug]
          /\ staging'[proc[c].slug] = staging[proc[c].slug]
      BY <2>2 DEF StepOf
    <2> QED
      BY <2>1, <2>2, <2>3 DEF StepOf, Placed
  <1>2. AllPlaced'
    BY <1>1 DEF AllPlaced
  <1>3. \A c \in Builders \ {b} : Working(c)' => proc'[c] = proc[c] /\ Working(c)
    BY DEF StepOf, Working
  <1>4. Apart'
    BY <1>3 DEF IInv, Apart, StepOf
  <1>5. ASSUME NEW t \in Slugs, NEW n, Held(t, n)'
        PROVE  Held(t, n)
    <2>1. proc[b].slug \in Slugs
      BY DEF IInv, AllPlaced, Placed
    <2>2. CASE final'[t] # None /\ final'[t].build = n
      BY <2>1, <2>2 DEF Stays, StepOf, Held
    <2>3. CASE staging'[t] # None /\ staging'[t].build = n
      BY <2>1, <2>3 DEF Stays, StepOf, Held
    <2>4. ASSUME NEW c \in Builders, Working(c)', proc'[c].slug = t,
                 proc'[c].build = n \/ (proc'[c].trashed # None /\ proc'[c].trashed.build = n)
          PROVE  Held(t, n)
      <3>1. CASE c # b
        BY <1>3, <2>4, <3>1 DEF Held
      <3>2. CASE c = b
        BY <2>4, <3>2 DEF Stays, StepOf, Held
      <3> QED
        BY <3>1, <3>2
    <2> QED
      BY <1>5, <2>2, <2>3, <2>4 DEF Held
  <1>6. Own'
    BY <1>5 DEF IInv, Own, StepOf
  <1>7. ASSUME NEW c \in Builders \ {b}, Working(c)'
        PROVE  Back(c)'
    <2>1. proc'[c] = proc[c] /\ Working(c) /\ Back(c) /\ Placed(c) /\ Placed(b)
      BY <1>3, <1>7 DEF IInv, AllBack, AllPlaced
    <2>2. proc[c].slug # proc[b].slug /\ proc[c].slug \in Slugs /\ proc[b].slug \in Slugs
      BY <2>1 DEF IInv, Apart, Placed
    <2>3. final'[proc[c].slug] = final[proc[c].slug]
      BY <2>2 DEF StepOf
    <2>4. ASSUME proc[c].trashed # None, proc[c].trashed \in trash PROVE proc[c].trashed \in trash'
      <3> SUFFICES ASSUME proc[c].trashed = proc[b].trashed, proc[b].trashed # None
                   PROVE  FALSE
        BY <2>4 DEF Stays
      <3>1. proc[c].trashed.build \in Nat
        BY <2>4 DEF IInv, Typed, Bundles
      <3>2. Held(proc[c].slug, proc[c].trashed.build) /\ Held(proc[b].slug, proc[c].trashed.build)
        BY <2>1, <2>4 DEF Held
      <3> QED
        BY <2>2, <3>1, <3>2 DEF IInv, Own
    <2>5. InTrash(c) => InTrash(c)'
      BY <2>1, <2>4 DEF InTrash, BuildOf
    <2> QED
      BY <2>1, <2>3, <2>5 DEF Back, BuildOf
  <1>8. AllBack'
    BY <1>7 DEF AllBack
  <1> QED
    BY <1>2, <1>4, <1>6, <1>8

\* A promised bundle that no step removes is kept.
LEMMA StillKept ==
  ASSUME IInv,
         \A n \in promised' \ promised : \E s \in Slugs : BuildOf(final'[s]) = n,
         \A s \in Slugs : BuildOf(final[s]) \in promised =>
            BuildOf(final'[s]) = BuildOf(final[s]) \/ \E x \in trash' : x.build = BuildOf(final[s]),
         \A x \in trash : x \in trash' \/ \E s \in Slugs : BuildOf(final'[s]) = x.build
  PROVE  PromisedKept'
  <1> SUFFICES ASSUME NEW n \in promised'
               PROVE  (\E s \in Slugs : BuildOf(final'[s]) = n) \/ (\E x \in trash' : x.build = n)
    BY DEF PromisedKept, BuildOf
  <1>1. CASE n \notin promised
    BY <1>1
  <1>2. CASE n \in promised
    <2>1. (\E s \in Slugs : BuildOf(final[s]) = n) \/ (\E x \in trash : x.build = n)
      BY <1>2 DEF IInv, PromisedKept
    <2> QED
      BY <1>2, <2>1
  <1> QED
    BY <1>1, <1>2

\* Steps that leave all paths alone.
LEMMA Unmoved ==
  ASSUME IInv, UNCHANGED <<final, trash, promised>>
  PROVE  ConfirmedValidated' /\ PromisedKept'
  BY DEF IInv, ConfirmedValidated, PromisedKept, BuildOf

\* A builder that goes on keeps what it remembers.
LEMMA GoesOn ==
  ASSUME Typed, NEW b \in Builders, NEW pc \in Places, Goes(b, pc)
  PROVE  Moves(b) /\ Remembers(b) /\ Same(b) /\ proc'[b].pc = pc
  BY DEF Typed, Procs, Goes, Moves, Remembers, Same

\* A builder that ends.
LEMMA EndsThere ==
  ASSUME Typed, NEW b \in Builders, NEW pc \in {"idle", "failed", "unrestored"}, Ends(b, pc)
  PROVE  Moves(b) /\ ~Working(b)'
  <1> DEFINE r == [Idle EXCEPT !.pc = pc]
  <1>1. r \in Procs /\ r.pc = pc
    BY DEF Idle, Procs, Places, MaybeBundles
  <1>2. proc' = [proc EXCEPT ![b] = r]
    BY DEF Ends
  <1> HIDE DEF r
  <1> QED
    BY <1>1, <1>2 DEF Typed, Moves, Working

\* What write_manifest leaves of a bundle.
LEMMA ManifestKeeps ==
  ASSUME NEW dir, dir \in [Slugs -> MaybeBundles], NEW dirAfter, NEW s \in Slugs, dir[s] # None,
         NEW says \in {"missing", "not_promoted", "failed", "promoted"},
         dirAfter = [dir EXCEPT ![s].manifest = says]
  PROVE  /\ dirAfter \in [Slugs -> MaybeBundles] /\ dirAfter[s] # None
         /\ dirAfter[s].build = dir[s].build /\ dirAfter[s].checked = dir[s].checked
         /\ \A r \in Slugs \ {s} : dirAfter[r] = dir[r]
  <1>1. dir[s] \in Bundles
    BY DEF MaybeBundles
  <1> DEFINE x == [dir[s] EXCEPT !.manifest = says]
  <1>2. x \in Bundles /\ x.build = dir[s].build /\ x.checked = dir[s].checked
    BY <1>1 DEF Bundles
  <1>3. dirAfter = [dir EXCEPT ![s] = x]
    OBVIOUS
  <1> HIDE DEF x
  <1> QED
    BY <1>2, <1>3, NoneIsNoBundle DEF MaybeBundles

\* A builder that goes on and leaves the final path and the trash to their builds.
LEMMA GoesBack ==
  ASSUME NEW b \in Builders, Back(b), Same(b), proc'[b].slug = proc[b].slug,
         proc'[b].before = proc[b].before, proc[b].pc # "restore", proc'[b].pc # "restore",
         proc[b].pc \in {"mark", "remove"} => proc'[b].pc \in {"mark", "remove"},
         proc'[b].pc \in Early => proc[b].pc \in Early,
         BuildOf(final'[proc[b].slug]) = BuildOf(final[proc[b].slug]), trash \subseteq trash'
  PROVE  Back(b)'
  <1>1. InTrash(b) => InTrash(b)'
    BY DEF InTrash, Same, BuildOf
  <1>2. BuildOf(proc[b].before)' = BuildOf(proc[b].before)
    BY DEF BuildOf
  <1>3. BuildOf(final[proc[b].slug])' = BuildOf(final'[proc[b].slug])
    BY DEF BuildOf
  <1> QED
    BY <1>1, <1>2, <1>3 DEF Back, Same

\* Steps that bring no build to a path.
LEMMA BringsNone ==
  ASSUME IInv, NEW b \in Builders, Working(b), trash \subseteq trash',
         \/ final'[proc[b].slug] = None
         \/ /\ final[proc[b].slug] # None
            /\ final'[proc[b].slug].build = final[proc[b].slug].build,
         \/ staging'[proc[b].slug] = None
         \/ /\ staging[proc[b].slug] # None
            /\ staging'[proc[b].slug].build = staging[proc[b].slug].build,
         ~Working(b)' \/ proc'[b].trashed = proc[b].trashed
  PROVE  Stays(b)
  BY DEF Stays, Held

LEMMA RenderKeeps ==
  ASSUME IInv, NEW b \in Builders, Render(b)
  PROVE  IInv'
  <1>1. Working(b) /\ Placed(b) /\ Back(b) /\ Typed
    BY DEF Render, At, Working, IInv, AllPlaced, AllBack
  <1>2. Moves(b)
    <2> DEFINE r(sound) == [proc[b] EXCEPT !.pc = "stage", !.rendered = Bundle(proc[b].build, sound)]
    <2>1. PICK sound \in BOOLEAN : proc' = [proc EXCEPT ![b] = r(sound)]
      BY DEF Render
    <2>2. Bundle(proc[b].build, sound) \in Bundles
      BY <1>1 DEF Typed, Procs, Bundle, Bundles
    <2>3. r(sound) \in Procs
      <3>1. "stage" \in Places /\ Bundle(proc[b].build, sound) \in MaybeBundles
        BY <2>2 DEF Places, MaybeBundles
      <3> QED
        BY <1>1, <3>1 DEF Typed, Procs
    <2> HIDE DEF r
    <2> QED
      BY <1>1, <2>1, <2>3 DEF Typed, Moves
  <1>3. Paths(b)
    BY <1>1 DEF Render, Unfiled, Typed, Paths
  <1>4. /\ UNCHANGED <<final, staging>> /\ Same(b) /\ proc'[b].pc = "stage"
        /\ proc'[b].slug = proc[b].slug /\ proc'[b].build = proc[b].build
        /\ proc'[b].rendered # None /\ proc'[b].rendered.build = proc[b].build
        /\ proc[b].pc = "render" /\ proc'[b].before = proc[b].before
    <2>1. \A sound \in BOOLEAN : /\ Bundle(proc[b].build, sound) \in Bundles
                                /\ Bundle(proc[b].build, sound).build = proc[b].build
      BY <1>1 DEF Typed, Procs, Bundle, Bundles
    <2> QED
      BY <1>1, <2>1, NoneIsNoBundle DEF Typed, Procs, Render, Unfiled, Same, At
  <1>5. builds' = builds /\ promised' = promised
    BY DEF Render, Counted
  <1>6. Typed'
    BY <1>1, <1>2, <1>3, <1>5 DEF Typed, Moves, Paths, Placed
  <1>7. StepOf(b)
    BY <1>2, <1>3, <1>4, <1>5 DEF StepOf, Moves, Paths, Remembers
  <1>8. (Working(b) => Placed(b))'
    BY <1>1, <1>4, <1>5 DEF Placed, Staged, Checked, Promoted, Remembers, Same, Working
  <1>9. ConfirmedValidated' /\ PromisedKept'
    BY Unmoved DEF Render, Unfiled, Counted
  <1>11. (Working(b) => Back(b))'
    <2>1. trash' = trash
      BY DEF Render, Unfiled
    <2> QED
      BY <1>1, <1>4, <2>1, GoesBack DEF Early, Remembers, BuildOf, Render, At
  <1>12. Stays(b)
    <2>1. trash' = trash
      BY DEF Render, Unfiled
    <2> QED
      BY <1>1, <1>4, <2>1, BringsNone DEF Same, Placed, Staged, Working
  <1> QED
    BY <1>1, <1>6, <1>7, <1>8, <1>9, <1>11, <1>12, OthersPlaced DEF IInv

LEMMA StageKeeps ==
  ASSUME IInv, NEW b \in Builders, Stage(b)
  PROVE  IInv'
  <1>1. Working(b) /\ Placed(b) /\ Back(b) /\ Typed
    BY DEF Stage, At, Working, IInv, AllPlaced, AllBack
  <1>2. Moves(b)
    BY <1>1, GoesOn DEF Stage, Places
  <1>3. Paths(b)
    BY <1>1 DEF Stage, Slug, At, Moved, Typed, Procs, Paths, Placed
  <1>4. /\ Remembers(b) /\ Same(b) /\ proc'[b].pc = "pending" /\ UNCHANGED final
        /\ staging'[proc[b].slug] = proc[b].rendered /\ proc[b].pc = "stage"
    BY <1>1, GoesOn DEF Stage, Slug, At, Moved, Typed, Placed, Places
  <1>5. builds' = builds /\ promised' = promised
    BY DEF Stage, Counted
  <1>6. Typed'
    BY <1>1, <1>2, <1>3, <1>5 DEF Typed, Moves, Paths, Placed
  <1>7. StepOf(b)
    BY <1>2, <1>3, <1>4, <1>5 DEF StepOf, Moves, Paths, Remembers
  <1>8. (Working(b) => Placed(b))'
    BY <1>1, <1>4, <1>5 DEF Placed, Staged, Checked, Promoted, Remembers, Same, Working
  <1>9. ConfirmedValidated' /\ PromisedKept'
    BY Unmoved DEF Stage, Counted
  <1>11. (Working(b) => Back(b))'
    <2>1. trash' = trash
      BY DEF Stage
    <2> QED
      BY <1>1, <1>4, <2>1, GoesBack DEF Early, Remembers, BuildOf
  <1>12. Stays(b)
    BY <1>1, <1>4, <1>5 DEF Stays, Held, Placed, Staged, Promoted, Remembers, Same, Working, Stage
  <1> QED
    BY <1>1, <1>6, <1>7, <1>8, <1>9, <1>11, <1>12, OthersPlaced DEF IInv

LEMMA WritePendingKeeps ==
  ASSUME IInv, NEW b \in Builders, WritePending(b)
  PROVE  IInv'
  <1>1. Working(b) /\ Placed(b) /\ Back(b) /\ Typed
    BY DEF WritePending, StagingManifest, At, Working, IInv, AllPlaced, AllBack
  <1>2. Moves(b)
    BY <1>1, GoesOn DEF WritePending, StagingManifest, Places
  <1>3. Paths(b)
    <2>1. proc[b].pc = "pending" /\ staging[Slug(b)] # None /\ Slug(b) \in Slugs
      BY <1>1 DEF WritePending, StagingManifest, At, Placed, Staged, Slug
    <2> QED
      BY <1>1, <2>1, ManifestKeeps DEF WritePending, StagingManifest, Manifest, Typed, Paths, Slug
  <1>4. /\ Remembers(b) /\ Same(b) /\ proc[b].pc = "pending" /\ proc'[b].pc = "validate"
        /\ UNCHANGED final /\ staging'[proc[b].slug] # None
        /\ staging'[proc[b].slug].build = staging[proc[b].slug].build
        /\ staging'[proc[b].slug].checked = staging[proc[b].slug].checked
    <2>1. proc[b].pc = "pending" /\ staging[Slug(b)] # None /\ Slug(b) \in Slugs
      BY <1>1 DEF WritePending, StagingManifest, At, Placed, Staged, Slug
    <2>2. Goes(b, "validate") /\ Manifest(staging, Slug(b), "not_promoted") /\ UNCHANGED final
      BY <2>1 DEF WritePending, StagingManifest
    <2>3. /\ staging'[Slug(b)] # None /\ staging'[Slug(b)].build = staging[Slug(b)].build
          /\ staging'[Slug(b)].checked = staging[Slug(b)].checked
      BY <1>1, <2>1, <2>2, ManifestKeeps DEF Manifest, Typed
    <2> QED
      BY <1>1, <2>1, <2>2, <2>3, GoesOn DEF Slug, Places
  <1>5. builds' = builds /\ promised' = promised
    BY DEF WritePending, StagingManifest, Counted
  <1>6. Typed'
    BY <1>1, <1>2, <1>3, <1>5 DEF Typed, Moves, Paths, Placed
  <1>7. StepOf(b)
    BY <1>2, <1>3, <1>4, <1>5 DEF StepOf, Moves, Paths, Remembers
  <1>8. (Working(b) => Placed(b))'
    BY <1>1, <1>4, <1>5 DEF Placed, Staged, Checked, Promoted, Remembers, Same, Working
  <1>9. ConfirmedValidated' /\ PromisedKept'
    BY Unmoved DEF WritePending, StagingManifest, Counted
  <1>11. (Working(b) => Back(b))'
    <2>1. trash' = trash
      BY DEF WritePending, StagingManifest
    <2> QED
      BY <1>1, <1>4, <2>1, GoesBack DEF Early, Remembers, BuildOf, WritePending, At
  <1>12. Stays(b)
    <2>1. trash' = trash
      BY DEF WritePending, StagingManifest
    <2> QED
      BY <1>1, <1>4, <2>1, BringsNone DEF Same, Placed, Staged, Working
  <1> QED
    BY <1>1, <1>6, <1>7, <1>8, <1>9, <1>11, <1>12, OthersPlaced DEF IInv

LEMMA WritePassedKeeps ==
  ASSUME IInv, NEW b \in Builders, WritePassed(b)
  PROVE  IInv'
  <1>1. Working(b) /\ Placed(b) /\ Back(b) /\ Typed
    BY DEF WritePassed, StagingManifest, At, Working, IInv, AllPlaced, AllBack
  <1>2. Moves(b)
    BY <1>1, GoesOn DEF WritePassed, StagingManifest, Places
  <1>3. Paths(b)
    <2>1. proc[b].pc = "passed" /\ staging[Slug(b)] # None /\ Slug(b) \in Slugs
      BY <1>1 DEF WritePassed, StagingManifest, At, Placed, Staged, Slug
    <2> QED
      BY <1>1, <2>1, ManifestKeeps DEF WritePassed, StagingManifest, Manifest, Typed, Paths, Slug
  <1>4. /\ Remembers(b) /\ Same(b) /\ proc[b].pc = "passed" /\ proc'[b].pc = "batch"
        /\ UNCHANGED final /\ staging'[proc[b].slug] # None
        /\ staging'[proc[b].slug].build = staging[proc[b].slug].build
        /\ staging'[proc[b].slug].checked = staging[proc[b].slug].checked
    <2>1. proc[b].pc = "passed" /\ staging[Slug(b)] # None /\ Slug(b) \in Slugs
      BY <1>1 DEF WritePassed, StagingManifest, At, Placed, Staged, Slug
    <2>2. Goes(b, "batch") /\ Manifest(staging, Slug(b), "not_promoted") /\ UNCHANGED final
      BY <2>1 DEF WritePassed, StagingManifest
    <2>3. /\ staging'[Slug(b)] # None /\ staging'[Slug(b)].build = staging[Slug(b)].build
          /\ staging'[Slug(b)].checked = staging[Slug(b)].checked
      BY <1>1, <2>1, <2>2, ManifestKeeps DEF Manifest, Typed
    <2> QED
      BY <1>1, <2>1, <2>2, <2>3, GoesOn DEF Slug, Places
  <1>5. builds' = builds /\ promised' = promised
    BY DEF WritePassed, StagingManifest, Counted
  <1>6. Typed'
    BY <1>1, <1>2, <1>3, <1>5 DEF Typed, Moves, Paths, Placed
  <1>7. StepOf(b)
    BY <1>2, <1>3, <1>4, <1>5 DEF StepOf, Moves, Paths, Remembers
  <1>8. (Working(b) => Placed(b))'
    BY <1>1, <1>4, <1>5 DEF Placed, Staged, Checked, Promoted, Remembers, Same, Working
  <1>9. ConfirmedValidated' /\ PromisedKept'
    BY Unmoved DEF WritePassed, StagingManifest, Counted
  <1>11. (Working(b) => Back(b))'
    <2>1. trash' = trash
      BY DEF WritePassed, StagingManifest
    <2> QED
      BY <1>1, <1>4, <2>1, GoesBack DEF Early, Remembers, BuildOf, WritePassed, At
  <1>12. Stays(b)
    <2>1. trash' = trash
      BY DEF WritePassed, StagingManifest
    <2> QED
      BY <1>1, <1>4, <2>1, BringsNone DEF Same, Placed, Staged, Working
  <1> QED
    BY <1>1, <1>6, <1>7, <1>8, <1>9, <1>11, <1>12, OthersPlaced DEF IInv

LEMMA ValidateKeeps ==
  ASSUME IInv, NEW b \in Builders, Validate(b)
  PROVE  IInv'
  <1>1. Working(b) /\ Placed(b) /\ Back(b) /\ Typed
    BY DEF Validate, At, Working, IInv, AllPlaced, AllBack
  <1>2. Moves(b)
    BY <1>1, GoesOn DEF Validate, Places
  <1>3. Paths(b)
    BY <1>1 DEF Validate, Typed, Paths, Slug, Placed, Accepted, MaybeBundles, Bundles
  <1>4. /\ Remembers(b) /\ Same(b) /\ proc[b].pc = "validate" /\ UNCHANGED final
        /\ \/ proc'[b].pc = "undo" /\ UNCHANGED staging
           \/ /\ proc'[b].pc = "passed" /\ staging'[proc[b].slug] # None
              /\ staging'[proc[b].slug].build = staging[proc[b].slug].build
              /\ staging'[proc[b].slug].checked
    <2>1. CASE Accepted(staging[Slug(b)])
      <3>1. staging[Slug(b)] \in Bundles /\ staging[Slug(b)].sound /\ Slug(b) \in Slugs
        BY <1>1, <2>1 DEF Accepted, Typed, MaybeBundles, Placed, Slug
      <3>2. staging' = [staging EXCEPT ![Slug(b)] = [staging[Slug(b)] EXCEPT !.checked = TRUE]]
        BY <2>1, <3>1 DEF Validate, Bundles
      <3>3. [staging[Slug(b)] EXCEPT !.checked = TRUE] \in Bundles
        BY <3>1 DEF Bundles
      <3>4. Goes(b, "passed") /\ UNCHANGED final /\ proc[b].pc = "validate"
        BY <2>1 DEF Validate, At
      <3>5. /\ staging'[Slug(b)] # None /\ staging'[Slug(b)].checked
            /\ staging'[Slug(b)].build = staging[Slug(b)].build
        BY <1>1, <3>1, <3>2, <3>3, NoneIsNoBundle DEF Typed, Bundles
      <3> QED
        BY <1>1, <3>4, <3>5, GoesOn DEF Slug, Places
    <2>2. CASE ~Accepted(staging[Slug(b)])
      BY <1>1, <2>2, GoesOn DEF Validate, At, Places
    <2> QED
      BY <2>1, <2>2
  <1>5. builds' = builds /\ promised' = promised
    BY DEF Validate, Counted
  <1>6. Typed'
    BY <1>1, <1>2, <1>3, <1>5 DEF Typed, Moves, Paths, Placed
  <1>7. StepOf(b)
    BY <1>2, <1>3, <1>4, <1>5 DEF StepOf, Moves, Paths, Remembers
  <1>8. (Working(b) => Placed(b))'
    BY <1>1, <1>4, <1>5 DEF Placed, Staged, Checked, Promoted, Remembers, Same, Working
  <1>9. ConfirmedValidated' /\ PromisedKept'
    BY Unmoved DEF Validate, Counted
  <1>11. (Working(b) => Back(b))'
    <2>1. trash' = trash
      BY DEF Validate, Unfiled
    <2> QED
      BY <1>1, <1>4, <2>1, GoesBack DEF Early, Remembers, BuildOf, Validate, At
  <1>12. Stays(b)
    <2>1. trash' = trash
      BY DEF Validate, Unfiled
    <2> QED
      BY <1>1, <1>4, <2>1, BringsNone DEF Same, Placed, Staged, Working
  <1> QED
    BY <1>1, <1>6, <1>7, <1>8, <1>9, <1>11, <1>12, OthersPlaced DEF IInv

LEMMA BatchBeforeKeeps ==
  ASSUME IInv, NEW b \in Builders, BatchBefore(b)
  PROVE  IInv'
  <1>1. Working(b) /\ Placed(b) /\ Back(b) /\ Typed
    BY DEF BatchBefore, At, Working, IInv, AllPlaced, AllBack
  <1>2. Moves(b)
    BY <1>1, GoesOn DEF BatchBefore, Unfiled, At, Places
  <1>3. Paths(b)
    BY <1>1 DEF BatchBefore, Unfiled, At, Typed, Paths
  <1>4. UNCHANGED <<final, staging>> /\ Remembers(b) /\ Same(b)
        /\ proc[b].pc = "batch" /\ proc'[b].pc \in {"classify", "undo"}
    BY <1>1, GoesOn DEF BatchBefore, Unfiled, At, Places
  <1>5. builds' = builds /\ promised' = promised
    BY DEF BatchBefore, Counted
  <1>6. Typed'
    BY <1>1, <1>2, <1>3, <1>5 DEF Typed, Moves, Paths, Placed
  <1>7. StepOf(b)
    BY <1>2, <1>3, <1>4, <1>5 DEF StepOf, Moves, Paths, Remembers
  <1>8. (Working(b) => Placed(b))'
    BY <1>1, <1>4, <1>5 DEF Placed, Staged, Checked, Promoted, Remembers, Same, Working
  <1>9. ConfirmedValidated' /\ PromisedKept'
    BY Unmoved DEF BatchBefore, Unfiled, Counted
  <1>11. (Working(b) => Back(b))'
    <2>1. trash' = trash
      BY DEF BatchBefore, Unfiled
    <2> QED
      BY <1>1, <1>4, <2>1, GoesBack DEF Early, Remembers, BuildOf, BatchBefore, At
  <1>12. Stays(b)
    <2>1. trash' = trash
      BY DEF BatchBefore, Unfiled
    <2> QED
      BY <1>1, <1>4, <2>1, BringsNone DEF Same, Placed, Staged, Working
  <1> QED
    BY <1>1, <1>6, <1>7, <1>8, <1>9, <1>11, <1>12, OthersPlaced DEF IInv

LEMMA ClassifyKeeps ==
  ASSUME IInv, NEW b \in Builders, Classify(b)
  PROVE  IInv'
  <1>1. Working(b) /\ Placed(b) /\ Back(b) /\ Typed
    BY DEF Classify, At, Working, IInv, AllPlaced, AllBack
  <1>2. Moves(b)
    BY <1>1, GoesOn DEF Classify, Unfiled, At, Places
  <1>3. Paths(b)
    BY <1>1 DEF Classify, Unfiled, At, Typed, Paths
  <1>4. UNCHANGED <<final, staging>> /\ Remembers(b) /\ Same(b)
        /\ proc[b].pc = "classify" /\ proc'[b].pc \in {"promote", "displace", "undo"}
    BY <1>1, GoesOn DEF Classify, Unfiled, At, Places
  <1>5. builds' = builds /\ promised' = promised
    BY DEF Classify, Counted
  <1>6. Typed'
    BY <1>1, <1>2, <1>3, <1>5 DEF Typed, Moves, Paths, Placed
  <1>7. StepOf(b)
    BY <1>2, <1>3, <1>4, <1>5 DEF StepOf, Moves, Paths, Remembers
  <1>8. (Working(b) => Placed(b))'
    BY <1>1, <1>4, <1>5 DEF Placed, Staged, Checked, Promoted, Remembers, Same, Working
  <1>9. ConfirmedValidated' /\ PromisedKept'
    BY Unmoved DEF Classify, Unfiled, Counted
  <1>11. (Working(b) => Back(b))'
    <2>1. trash' = trash
      BY DEF Classify, Unfiled
    <2> QED
      BY <1>1, <1>4, <2>1, GoesBack DEF Early, Remembers, BuildOf, Classify, At
  <1>12. Stays(b)
    <2>1. trash' = trash
      BY DEF Classify, Unfiled
    <2> QED
      BY <1>1, <1>4, <2>1, BringsNone DEF Same, Placed, Staged, Working
  <1> QED
    BY <1>1, <1>6, <1>7, <1>8, <1>9, <1>11, <1>12, OthersPlaced DEF IInv

LEMMA DisplaceKeeps ==
  ASSUME IInv, NEW b \in Builders, Displace(b)
  PROVE  IInv'
  <1>1. Working(b) /\ Placed(b) /\ Back(b) /\ Typed
    BY DEF Displace, At, Working, IInv, AllPlaced, AllBack
  <1>2. Moves(b)
    <2>1. CASE final[Slug(b)] = None
      BY <1>1, <2>1, GoesOn DEF Displace, Places
    <2>2. CASE final[Slug(b)] # None
      <3> DEFINE r == [proc[b] EXCEPT !.pc = "promote", !.trashed = final[Slug(b)], !.open = TRUE]
      <3>1. proc' = [proc EXCEPT ![b] = r]
        BY <2>2 DEF Displace
      <3>2. r \in Procs
        BY <1>1 DEF Typed, Procs, Places, Placed, Slug
      <3> HIDE DEF r
      <3> QED
        BY <1>1, <3>1, <3>2 DEF Typed, Moves
    <2> QED
      BY <2>1, <2>2
  <1>3. Paths(b)
    BY <1>1 DEF Displace, Unfiled, Typed, Paths, Slug, Placed, MaybeBundles
  <1>4. /\ Remembers(b) /\ proc[b].pc = "displace" /\ UNCHANGED staging
        /\ proc'[b].promoted = proc[b].promoted
        /\ \/ proc'[b].pc = "undo" /\ UNCHANGED <<final, trash>> /\ Same(b)
           \/ /\ proc'[b].pc = "promote" /\ proc'[b].trashed = final[proc[b].slug]
              /\ proc'[b].open /\ final[proc[b].slug] # None
              /\ final'[proc[b].slug] = None /\ final[proc[b].slug].checked
              /\ final[proc[b].slug] \in trash' /\ trash \subseteq trash'
    <2>1. CASE final[Slug(b)] = None
      BY <1>1, <2>1, GoesOn DEF Displace, Unfiled, At, Same, Places
    <2>2. CASE final[Slug(b)] # None
      BY <1>1, <2>2 DEF Displace, At, Typed, Procs, Slug, Placed, Remembers, IInv, ConfirmedValidated
    <2> QED
      BY <2>1, <2>2
  <1>5. builds' = builds /\ promised' = promised
    BY DEF Displace, Counted
  <1>6. Typed'
    BY <1>1, <1>2, <1>3, <1>5 DEF Typed, Moves, Paths, Placed
  <1>7. StepOf(b)
    BY <1>2, <1>3, <1>4, <1>5 DEF StepOf, Moves, Paths, Remembers
  <1>8. (Working(b) => Placed(b))'
    BY <1>1, <1>4, <1>5 DEF Placed, Staged, Checked, Promoted, Remembers, Same, Working
  <1>9. ConfirmedValidated'
    BY <1>1, <1>3, <1>4 DEF IInv, ConfirmedValidated, Paths, Placed
  <1>10. PromisedKept'
    <2>1. promised' = promised
      BY DEF Displace, Counted
    <2> QED
      BY <1>1, <1>3, <1>4, <2>1, StillKept DEF BuildOf, Paths, Placed
  <1>11. (Working(b) => Back(b))'
    <2>1. CASE proc'[b].pc = "undo" /\ UNCHANGED <<final, trash>> /\ Same(b)
      BY <1>1, <1>4, <2>1, GoesBack DEF Early, Remembers, BuildOf
    <2>2. CASE /\ proc'[b].pc = "promote" /\ proc'[b].trashed = final[proc[b].slug]
               /\ proc'[b].open /\ final[proc[b].slug] # None
               /\ final[proc[b].slug] \in trash'
      <3>1. ~proc[b].promoted /\ ~proc[b].open
        BY <1>1, <1>4 DEF Placed, Promoted, Back, Early
      <3>2. final[proc[b].slug].build = BuildOf(proc[b].before)
        BY <1>1, <1>4, <2>2, <3>1 DEF Back, BuildOf
      <3>3. InTrash(b)'
        BY <1>4, <2>2, <3>2 DEF InTrash, Remembers, BuildOf
      <3>4. ~proc'[b].promoted
        BY <1>4, <3>1
      <3> QED
        BY <2>2, <3>3, <3>4 DEF Back, Early
    <2> QED
      BY <1>4, <2>1, <2>2
  <1>12. Stays(b)
    BY <1>1, <1>4, <1>5 DEF Stays, Held, Placed, Staged, Promoted, Remembers, Same, Working, Displace
  <1> QED
    BY <1>1, <1>6, <1>7, <1>8, <1>9, <1>10, <1>11, <1>12, OthersPlaced DEF IInv

LEMMA PromoteKeeps ==
  ASSUME IInv, NEW b \in Builders, Promote(b)
  PROVE  IInv'
  <1>1. Working(b) /\ Placed(b) /\ Back(b) /\ Typed
    BY DEF Promote, At, Working, IInv, AllPlaced, AllBack
  <1>2. Moves(b)
    BY <1>1, GoesOn DEF Promote, Unfiled, At, Places
  <1>3. Paths(b)
    BY <1>1 DEF Promote, Unfiled, At, Typed, Paths
  <1>4. UNCHANGED <<final, staging>> /\ Remembers(b) /\ Same(b)
        /\ proc[b].pc = "promote" /\ proc'[b].pc \in {"move", "undo"}
        /\ (proc'[b].pc = "move" => final[proc[b].slug] = None)
    BY <1>1, GoesOn DEF Promote, Unfiled, At, Slug, Places
  <1>5. builds' = builds /\ promised' = promised
    BY DEF Promote, Counted
  <1>6. Typed'
    BY <1>1, <1>2, <1>3, <1>5 DEF Typed, Moves, Paths, Placed
  <1>7. StepOf(b)
    BY <1>2, <1>3, <1>4, <1>5 DEF StepOf, Moves, Paths, Remembers
  <1>8. (Working(b) => Placed(b))'
    BY <1>1, <1>4, <1>5 DEF Placed, Staged, Checked, Promoted, Remembers, Same, Working
  <1>9. ConfirmedValidated' /\ PromisedKept'
    BY Unmoved DEF Promote, Unfiled, Counted
  <1>11. (Working(b) => Back(b))'
    <2>1. trash' = trash
      BY DEF Promote, Unfiled
    <2> QED
      BY <1>1, <1>4, <2>1, GoesBack DEF Early, Remembers, BuildOf, Promote, At
  <1>12. Stays(b)
    <2>1. trash' = trash
      BY DEF Promote, Unfiled
    <2> QED
      BY <1>1, <1>4, <2>1, BringsNone DEF Same, Placed, Staged, Working
  <1> QED
    BY <1>1, <1>6, <1>7, <1>8, <1>9, <1>11, <1>12, OthersPlaced DEF IInv

LEMMA MoveKeeps ==
  ASSUME IInv, NEW b \in Builders, Move(b)
  PROVE  IInv'
  <1>1. Working(b) /\ Placed(b) /\ Back(b) /\ Typed
    BY DEF Move, At, Working, IInv, AllPlaced, AllBack
  <1>2. Moves(b)
    <2>1. CASE staging[Slug(b)] = None
      BY <1>1, <2>1, GoesOn DEF Move, Places
    <2>2. CASE staging[Slug(b)] # None
      <3> DEFINE r == [proc[b] EXCEPT !.pc = "promoted", !.promoted = TRUE, !.open = FALSE]
      <3>1. proc' = [proc EXCEPT ![b] = r]
        BY <2>2 DEF Move
      <3>2. r \in Procs
        BY <1>1 DEF Typed, Procs, Places
      <3> HIDE DEF r
      <3> QED
        BY <1>1, <3>1, <3>2 DEF Typed, Moves
    <2> QED
      BY <2>1, <2>2
  <1>3. Paths(b)
    BY <1>1 DEF Move, Moved, Unfiled, At, Typed, Paths, Slug, Placed, MaybeBundles
  <1>4. /\ Remembers(b) /\ proc[b].pc = "move" /\ UNCHANGED trash
        /\ proc'[b].trashed = proc[b].trashed
        /\ \/ proc'[b].pc = "undo" /\ UNCHANGED <<final, staging>> /\ Same(b)
           \/ /\ proc'[b].pc = "promoted" /\ proc'[b].promoted /\ ~proc'[b].open
              /\ final[proc[b].slug] = None
              /\ staging[proc[b].slug] # None /\ final'[proc[b].slug] = staging[proc[b].slug]
              /\ staging'[proc[b].slug] = None
    <2>1. CASE staging[Slug(b)] = None
      BY <1>1, <2>1, GoesOn DEF Move, Unfiled, At, Same, Places
    <2>2. CASE staging[Slug(b)] # None
      BY <1>1, <2>2 DEF Move, Moved, At, Typed, Procs, Slug, Placed, Remembers
    <2> QED
      BY <2>1, <2>2
  <1>5. builds' = builds /\ promised' = promised
    BY DEF Move, Counted
  <1>6. Typed'
    BY <1>1, <1>2, <1>3, <1>5 DEF Typed, Moves, Paths, Placed
  <1>7. StepOf(b)
    BY <1>2, <1>3, <1>4, <1>5 DEF StepOf, Moves, Paths, Remembers
  <1>8. (Working(b) => Placed(b))'
    BY <1>1, <1>4, <1>5 DEF Placed, Staged, Checked, Promoted, Remembers, Same, Working
  <1>9. ConfirmedValidated'
    BY <1>1, <1>3, <1>4 DEF IInv, ConfirmedValidated, Paths, Placed, Checked
  <1>10. PromisedKept'
    <2>1. promised' = promised /\ promised \subseteq 1 .. builds /\ builds \in Nat
      BY <1>1 DEF Move, Counted, Typed
    <2> QED
      BY <1>1, <1>3, <1>4, <2>1, StillKept DEF BuildOf, Paths, Placed
  <1>11. (Working(b) => Back(b))'
    <2>1. CASE proc'[b].pc = "undo" /\ UNCHANGED <<final, staging>> /\ Same(b)
      BY <1>1, <1>4, <2>1, GoesBack DEF Early, Remembers, BuildOf
    <2>2. CASE /\ proc'[b].pc = "promoted" /\ proc'[b].promoted /\ ~proc'[b].open
               /\ final[proc[b].slug] = None
      <3>1. ~proc[b].promoted
        BY <1>1, <1>4 DEF Placed, Promoted
      <3>2. InTrash(b) \/ (proc[b].trashed = None /\ BuildOf(proc[b].before) = 0)
        BY <1>1, <1>4, <2>2, <3>1 DEF Back, BuildOf
      <3>3. InTrash(b)' \/ (proc'[b].trashed = None /\ BuildOf(proc'[b].before) = 0)
        BY <1>4, <3>2 DEF InTrash, Remembers, BuildOf
      <3> QED
        BY <2>2, <3>3 DEF Back, Early, BuildOf
    <2> QED
      BY <1>4, <2>1, <2>2
  <1>12. Stays(b)
    BY <1>1, <1>4 DEF Stays, Held, Same
  <1> QED
    BY <1>1, <1>6, <1>7, <1>8, <1>9, <1>10, <1>11, <1>12, OthersPlaced DEF IInv

LEMMA WritePromotedKeeps ==
  ASSUME IInv, NEW b \in Builders, WritePromoted(b)
  PROVE  IInv'
  <1>1. Working(b) /\ Placed(b) /\ Back(b) /\ Typed
    BY DEF WritePromoted, At, Working, IInv, AllPlaced, AllBack
  <1>2. Moves(b)
    BY <1>1, GoesOn DEF WritePromoted, Places
  <1>3. Paths(b)
    <2>1. proc[b].pc = "promoted" /\ final[Slug(b)] # None /\ Slug(b) \in Slugs
      BY <1>1 DEF WritePromoted, At, Placed, Promoted, Slug
    <2> QED
      BY <1>1, <2>1, ManifestKeeps DEF WritePromoted, Manifest, Typed, Paths, Slug
  <1>4. /\ Remembers(b) /\ Same(b) /\ proc[b].pc = "promoted" /\ proc'[b].pc = "batch after"
        /\ UNCHANGED <<staging, trash>> /\ final[proc[b].slug] # None /\ final'[proc[b].slug] # None
        /\ final'[proc[b].slug].build = final[proc[b].slug].build
        /\ final'[proc[b].slug].checked = final[proc[b].slug].checked
    <2>1. proc[b].pc = "promoted" /\ final[Slug(b)] # None /\ Slug(b) \in Slugs
      BY <1>1 DEF WritePromoted, At, Placed, Promoted, Slug
    <2>2. /\ Goes(b, "batch after") /\ Manifest(final, Slug(b), "promoted")
          /\ UNCHANGED <<staging, trash>>
      BY <2>1 DEF WritePromoted
    <2>3. /\ final'[Slug(b)] # None /\ final'[Slug(b)].build = final[Slug(b)].build
          /\ final'[Slug(b)].checked = final[Slug(b)].checked
      <3> DEFINE x == [final[Slug(b)] EXCEPT !.manifest = "promoted"]
      <3>1. final[Slug(b)] \in Bundles
        BY <1>1, <2>1 DEF Typed, MaybeBundles
      <3>2. x \in Bundles /\ x.build = final[Slug(b)].build /\ x.checked = final[Slug(b)].checked
        BY <3>1 DEF Bundles
      <3>3. final' = [final EXCEPT ![Slug(b)] = x]
        BY <2>2 DEF Manifest
      <3> HIDE DEF x
      <3> QED
        BY <1>1, <2>1, <3>2, <3>3, NoneIsNoBundle DEF Typed
    <2> QED
      BY <1>1, <2>1, <2>2, <2>3, GoesOn DEF Slug, Places
  <1>5. builds' = builds /\ promised' = promised
    BY DEF WritePromoted, Counted
  <1>6. Typed'
    BY <1>1, <1>2, <1>3, <1>5 DEF Typed, Moves, Paths, Placed
  <1>7. StepOf(b)
    BY <1>2, <1>3, <1>4, <1>5 DEF StepOf, Moves, Paths, Remembers
  <1>8. (Working(b) => Placed(b))'
    BY <1>1, <1>4, <1>5 DEF Placed, Staged, Checked, Promoted, Remembers, Same, Working
  <1>9. ConfirmedValidated'
    BY <1>1, <1>3, <1>4 DEF IInv, ConfirmedValidated, Paths, Placed
  <1>10. PromisedKept'
    <2>1. promised' = promised
      BY DEF WritePromoted, Counted
    <2> QED
      BY <1>1, <1>3, <1>4, <2>1, StillKept DEF BuildOf, Paths, Placed
  <1>11. (Working(b) => Back(b))'
    <2>1. trash' = trash
      BY DEF WritePromoted
    <2> QED
      BY <1>1, <1>4, <2>1, GoesBack DEF Early, Remembers, BuildOf
  <1>12. Stays(b)
    BY <1>1, <1>4, <1>5 DEF Stays, Held, Placed, Staged, Promoted, Remembers, Same, Working, WritePromoted
  <1> QED
    BY <1>1, <1>6, <1>7, <1>8, <1>9, <1>10, <1>11, <1>12, OthersPlaced DEF IInv

LEMMA BatchAfterKeeps ==
  ASSUME IInv, NEW b \in Builders, BatchAfter(b)
  PROVE  IInv'
  <1>1. Working(b) /\ Placed(b) /\ Back(b) /\ Typed
    BY DEF BatchAfter, At, Working, IInv, AllPlaced, AllBack
  <1>2. Moves(b)
    BY <1>1, GoesOn, EndsThere DEF BatchAfter, Places
  <1>3. Paths(b)
    BY <1>1 DEF BatchAfter, Unfiled, Typed, Paths
  <1>4. /\ proc[b].pc = "batch after" /\ UNCHANGED <<final, staging, trash>>
        /\ \/ ~Working(b)'
           \/ Remembers(b) /\ Same(b) /\ proc'[b].pc = "undo" /\ promised' = promised
    BY <1>1, GoesOn, EndsThere DEF BatchAfter, Unfiled, At, Places
  <1>5. builds' = builds /\ promised' \subseteq promised \cup {proc[b].build}
    BY DEF BatchAfter
  <1>6. Typed'
    BY <1>1, <1>2, <1>3, <1>5 DEF Typed, Moves, Paths, Placed
  <1>7. StepOf(b)
    BY <1>2, <1>3, <1>4, <1>5 DEF StepOf, Moves, Paths, Remembers
  <1>8. (Working(b) => Placed(b))'
    BY <1>1, <1>4, <1>5 DEF Placed, Staged, Checked, Promoted, Remembers, Same, Working
  <1>9. ConfirmedValidated'
    BY <1>4 DEF IInv, ConfirmedValidated
  <1>10. PromisedKept'
    <2>1. final[proc[b].slug] # None /\ final[proc[b].slug].build = proc[b].build /\ proc[b].slug \in Slugs
      BY <1>1, <1>4 DEF Placed, Promoted
    <2> QED
      BY <1>4, <1>5, <2>1, StillKept DEF BuildOf
  <1>11. (Working(b) => Back(b))'
    BY <1>1, <1>4, GoesBack DEF Early, Remembers, BuildOf
  <1>12. Stays(b)
    BY <1>1, <1>4, <1>5 DEF Stays, Held, Placed, Staged, Promoted, Remembers, Same, Working, BatchAfter
  <1> QED
    BY <1>1, <1>6, <1>7, <1>8, <1>9, <1>10, <1>11, <1>12, OthersPlaced DEF IInv

LEMMA WithdrawKeeps ==
  ASSUME IInv, NEW b \in Builders, Withdraw(b)
  PROVE  IInv'
  <1>1. Working(b) /\ Placed(b) /\ Back(b) /\ Typed
    BY DEF Withdraw, At, Working, IInv, AllPlaced, AllBack
  <1>2. Moves(b)
    <2>1. CASE ~MayWithdraw(b)
      BY <1>1, <2>1, GoesOn DEF Withdraw, Places
    <2>2. CASE MayWithdraw(b)
      <3> DEFINE r == [proc[b] EXCEPT !.pc = "restore", !.promoted = FALSE]
      <3>1. proc' = [proc EXCEPT ![b] = r]
        BY <2>2 DEF Withdraw
      <3>2. r \in Procs
        BY <1>1 DEF Typed, Procs, Places
      <3> HIDE DEF r
      <3> QED
        BY <1>1, <3>1, <3>2 DEF Typed, Moves
    <2> QED
      BY <2>1, <2>2
  <1>3. Paths(b)
    BY <1>1 DEF Withdraw, Typed, Paths, Slug, Placed, MaybeBundles
  <1>4. /\ Remembers(b) /\ ~proc'[b].promoted /\ UNCHANGED trash /\ proc'[b].trashed = proc[b].trashed
        /\ proc[b].pc = "undo" /\ proc'[b].open = proc[b].open
        /\ \/ proc'[b].pc = "mark" /\ UNCHANGED <<final, staging>> /\ Same(b)
           \/ /\ proc'[b].pc = "restore" /\ proc[b].promoted /\ final'[proc[b].slug] = None
              /\ staging'[proc[b].slug] = final[proc[b].slug]
    <2>1. CASE ~MayWithdraw(b)
      BY <1>1, <2>1, GoesOn DEF Withdraw, MayWithdraw, At, Same, Slug, Placed, Places
    <2>2. CASE MayWithdraw(b)
      BY <1>1, <2>2 DEF Withdraw, MayWithdraw, At, Typed, Procs, Slug, Placed, Remembers
    <2> QED
      BY <2>1, <2>2
  <1>5. builds' = builds /\ promised' = promised
    BY DEF Withdraw, Counted
  <1>6. Typed'
    BY <1>1, <1>2, <1>3, <1>5 DEF Typed, Moves, Paths, Placed
  <1>7. StepOf(b)
    BY <1>2, <1>3, <1>4, <1>5 DEF StepOf, Moves, Paths, Remembers
  <1>8. (Working(b) => Placed(b))'
    BY <1>1, <1>4, <1>5 DEF Placed, Staged, Checked, Promoted, Remembers, Same, Working
  <1>9. ConfirmedValidated'
    BY <1>1, <1>3, <1>4 DEF IInv, ConfirmedValidated, Paths, Placed
  <1>10. PromisedKept'
    <2>1. promised' = promised
      BY DEF Withdraw, Counted
    <2> QED
      BY <1>1, <1>3, <1>4, <2>1, StillKept DEF BuildOf, Paths, Placed
  <1>11. (Working(b) => Back(b))'
    <2>1. CASE proc'[b].pc = "mark" /\ UNCHANGED <<final, staging>> /\ Same(b)
      BY <1>1, <1>4, <2>1, GoesBack DEF Early, Remembers, BuildOf
    <2>2. CASE proc'[b].pc = "restore" /\ proc[b].promoted /\ final'[proc[b].slug] = None
      <3>1. InTrash(b) \/ (proc[b].trashed = None /\ BuildOf(proc[b].before) = 0)
        BY <1>1, <2>2 DEF Back
      <3>2. InTrash(b)' \/ (proc'[b].trashed = None /\ BuildOf(proc'[b].before) = 0)
        BY <1>4, <3>1 DEF InTrash, Remembers, BuildOf
      <3> QED
        BY <1>1, <1>4, <2>2, <3>2 DEF Back, Early, Remembers, BuildOf
    <2> QED
      BY <1>4, <2>1, <2>2
  <1>12. Stays(b)
    BY <1>1, <1>4 DEF Stays, Held, Same, Placed
  <1> QED
    BY <1>1, <1>6, <1>7, <1>8, <1>9, <1>10, <1>11, <1>12, OthersPlaced DEF IInv

LEMMA RestoreKeeps ==
  ASSUME IInv, NEW b \in Builders, Restore(b)
  PROVE  IInv'
  <1>1. Working(b) /\ Placed(b) /\ Back(b) /\ Typed
    BY DEF Restore, At, Working, IInv, AllPlaced, AllBack
  <1>2. Moves(b)
    BY <1>1, GoesOn DEF Restore, Places
  <1>3. Paths(b)
    BY <1>1 DEF Restore, MayRestore, Typed, Paths, Slug, Placed, MaybeBundles
  <1>4. /\ Remembers(b) /\ Same(b) /\ proc'[b].pc = "mark" /\ ~proc[b].promoted
        /\ proc[b].pc = "restore"
        /\ \/ /\ UNCHANGED <<final, trash>>
              /\ proc[b].trashed \notin trash \/ final[proc[b].slug] # None
           \/ /\ final[proc[b].slug] = None /\ final'[proc[b].slug] = proc[b].trashed
              /\ proc[b].trashed \in trash /\ proc[b].trashed # None
              /\ trash' = trash \ {proc[b].trashed}
    <2>1. proc[b].pc = "restore" /\ ~proc[b].promoted
      BY <1>1 DEF Restore, At, Placed, Promoted
    <2>2. CASE MayRestore(b)
      <3>1. Goes(b, "mark") /\ trash' = trash \ {proc[b].trashed} /\ final[Slug(b)] = None
        BY <2>2 DEF Restore, MayRestore
      <3>2. proc[b].trashed \in trash /\ proc[b].trashed # None /\ Slug(b) \in Slugs
        BY <1>1, <2>2, NoneIsNoBundle DEF MayRestore, Typed, Placed, Slug
      <3>3. final'[Slug(b)] = proc[b].trashed
        BY <1>1, <2>2, <3>2 DEF Restore, Typed
      <3> QED
        BY <1>1, <2>1, <3>1, <3>2, <3>3, GoesOn DEF Slug, Places
    <2>3. CASE ~MayRestore(b)
      BY <1>1, <2>1, <2>3, GoesOn DEF Restore, MayRestore, Slug, Places
    <2> QED
      BY <2>2, <2>3
  <1>5. builds' = builds /\ promised' = promised
    BY DEF Restore, Counted
  <1>6. Typed'
    BY <1>1, <1>2, <1>3, <1>5 DEF Typed, Moves, Paths, Placed
  <1>7. StepOf(b)
    BY <1>2, <1>3, <1>4, <1>5 DEF StepOf, Moves, Paths, Remembers
  <1>8. (Working(b) => Placed(b))'
    BY <1>1, <1>4, <1>5 DEF Placed, Staged, Checked, Promoted, Remembers, Same, Working
  <1>9. ConfirmedValidated'
    BY <1>1, <1>3, <1>4 DEF IInv, ConfirmedValidated, Paths, Placed
  <1>10. PromisedKept'
    <2>1. promised' = promised /\ promised \subseteq 1 .. builds /\ builds \in Nat /\ proc[b].slug \in Slugs
      BY <1>1 DEF Restore, Counted, Typed, Placed
    <2>2. CASE UNCHANGED <<final, trash>>
      BY <2>1, <2>2, Unmoved
    <2>3. CASE ~UNCHANGED <<final, trash>>
      <3>1. /\ final[proc[b].slug] = None /\ final'[proc[b].slug] = proc[b].trashed
            /\ proc[b].trashed # None /\ trash' = trash \ {proc[b].trashed}
        BY <1>4, <2>3
      <3>2. \A s \in Slugs : BuildOf(final[s]) \in promised => BuildOf(final'[s]) = BuildOf(final[s])
        BY <1>3, <2>1, <3>1 DEF BuildOf, Paths
      <3>3. \A x \in trash : x \in trash' \/ \E s \in Slugs : BuildOf(final'[s]) = x.build
        BY <2>1, <3>1 DEF BuildOf
      <3> QED
        BY <2>1, <3>2, <3>3, StillKept
    <2> QED
      BY <2>2, <2>3
  <1>11. (Working(b) => Back(b))'
    <2>1. /\ final[proc[b].slug] = None
          /\ InTrash(b) \/ (proc[b].trashed = None /\ BuildOf(proc[b].before) = 0)
      BY <1>1, <1>4 DEF Back
    <2>2. BuildOf(final'[proc[b].slug]) = BuildOf(proc[b].before)
      BY <1>4, <2>1, NoneIsNoBundle DEF InTrash, BuildOf
    <2> QED
      BY <1>1, <1>4, <2>2 DEF Back, Early, Remembers, Same, BuildOf
  <1>12. Stays(b)
    BY <1>1, <1>4, <1>5 DEF Stays, Held, Placed, Staged, Promoted, Remembers, Same, Working, Restore
  <1> QED
    BY <1>1, <1>6, <1>7, <1>8, <1>9, <1>10, <1>11, <1>12, OthersPlaced DEF IInv

LEMMA MarkKeeps ==
  ASSUME IInv, NEW b \in Builders, Mark(b)
  PROVE  IInv'
  <1>1. Working(b) /\ Placed(b) /\ Back(b) /\ Typed
    BY DEF Mark, At, Working, IInv, AllPlaced, AllBack
  <1>2. Moves(b)
    BY <1>1, GoesOn, EndsThere DEF Mark, Places
  <1>3. Paths(b)
    BY <1>1, ManifestKeeps DEF Mark, Manifest, Typed, Paths, Slug, Placed
  <1>4. /\ UNCHANGED <<final, trash>> /\ proc[b].pc = "mark"
        /\ \/ ~Working(b)'
           \/ Remembers(b) /\ Same(b) /\ proc'[b].pc = "remove" /\ ~proc[b].promoted
    BY <1>1, GoesOn, EndsThere DEF Mark, At, Places
  <1>5. builds' = builds /\ promised' = promised
    BY DEF Mark, Counted
  <1>6. Typed'
    BY <1>1, <1>2, <1>3, <1>5 DEF Typed, Moves, Paths, Placed
  <1>7. StepOf(b)
    BY <1>2, <1>3, <1>4, <1>5 DEF StepOf, Moves, Paths, Remembers
  <1>8. (Working(b) => Placed(b))'
    BY <1>1, <1>4, <1>5 DEF Placed, Staged, Checked, Promoted, Remembers, Same, Working
  <1>9. ConfirmedValidated' /\ PromisedKept'
    BY Unmoved DEF Mark, Counted
  <1>11. (Working(b) => Back(b))'
    BY <1>1, <1>4, GoesBack DEF Early, Remembers, BuildOf
  <1>12. Stays(b)
    <2>1. \/ staging' = staging
          \/ /\ staging[proc[b].slug] # None
             /\ staging'[proc[b].slug].build = staging[proc[b].slug].build
      BY <1>1, ManifestKeeps DEF Mark, Manifest, Typed, Slug, Placed
    <2> QED
      BY <1>1, <1>4, <2>1, BringsNone DEF Same
  <1> QED
    BY <1>1, <1>6, <1>7, <1>8, <1>9, <1>11, <1>12, OthersPlaced DEF IInv

LEMMA RemoveKeeps ==
  ASSUME IInv, NEW b \in Builders, Remove(b)
  PROVE  IInv'
  <1>1. Working(b) /\ Placed(b) /\ Back(b) /\ Typed
    BY DEF Remove, At, Working, IInv, AllPlaced, AllBack
  <1>2. Moves(b)
    BY <1>1, EndsThere DEF Remove
  <1>3. Paths(b)
    BY <1>1 DEF Remove, Typed, Paths, Slug, Placed, MaybeBundles
  <1>4. UNCHANGED final /\ ~Working(b)'
    BY <1>1, EndsThere DEF Remove
  <1>5. builds' = builds /\ promised' = promised
    BY DEF Remove, Counted
  <1>6. Typed'
    BY <1>1, <1>2, <1>3, <1>5 DEF Typed, Moves, Paths, Placed
  <1>7. StepOf(b)
    BY <1>2, <1>3, <1>4, <1>5 DEF StepOf, Moves, Paths, Remembers
  <1>8. (Working(b) => Placed(b))'
    BY <1>1, <1>4, <1>5 DEF Placed, Staged, Checked, Promoted, Remembers, Same, Working
  <1>9. ConfirmedValidated' /\ PromisedKept'
    BY Unmoved DEF Remove, Counted
  <1>11. (Working(b) => Back(b))'
    BY <1>4
  <1>12. Stays(b)
    <2>1. trash' = trash /\ staging'[proc[b].slug] \in {staging[proc[b].slug], None}
      BY <1>1 DEF Remove, Slug, Placed, Typed
    <2> QED
      BY <1>1, <1>4, <2>1, BringsNone
  <1> QED
    BY <1>1, <1>6, <1>7, <1>8, <1>9, <1>11, <1>12, OthersPlaced DEF IInv

LEMMA FailKeeps ==
  ASSUME IInv, NEW b \in Builders, Fail(b)
  PROVE  IInv'
  <1>1. Working(b) /\ Placed(b) /\ Back(b) /\ Typed
    BY DEF Fail, At, Working, IInv, AllPlaced, AllBack
  <1>2. Moves(b)
    BY <1>1, GoesOn DEF Fail, Unfiled, Places
  <1>3. Paths(b)
    BY <1>1 DEF Fail, Unfiled, Typed, Paths
  <1>4. UNCHANGED <<final, staging>> /\ Remembers(b) /\ Same(b) /\ proc'[b].pc = "undo"
    BY <1>1, GoesOn DEF Fail, Unfiled, Places
  <1>5. builds' = builds /\ promised' = promised
    BY DEF Fail, Mishap
  <1>6. Typed'
    BY <1>1, <1>2, <1>3, <1>5 DEF Typed, Moves, Paths, Placed
  <1>7. StepOf(b)
    BY <1>2, <1>3, <1>4, <1>5 DEF StepOf, Moves, Paths, Remembers
  <1>8. (Working(b) => Placed(b))'
    BY <1>1, <1>4, <1>5 DEF Placed, Staged, Checked, Promoted, Remembers, Same, Working
  <1>9. ConfirmedValidated' /\ PromisedKept'
    BY Unmoved DEF Fail, Unfiled, Mishap
  <1>11. (Working(b) => Back(b))'
    <2>1. trash' = trash
      BY DEF Fail, Unfiled
    <2> QED
      BY <1>1, <1>4, <2>1, GoesBack DEF Early, Remembers, BuildOf, Fail
  <1>12. Stays(b)
    <2>1. trash' = trash
      BY DEF Fail, Unfiled
    <2> QED
      BY <1>1, <1>4, <2>1, BringsNone DEF Same, Placed, Staged, Working
  <1> QED
    BY <1>1, <1>6, <1>7, <1>8, <1>9, <1>11, <1>12, OthersPlaced DEF IInv

LEMMA HandlerFailsKeeps ==
  ASSUME IInv, NEW b \in Builders, HandlerFails(b)
  PROVE  IInv'
  <1>1. Working(b) /\ Placed(b) /\ Back(b) /\ Typed
    BY DEF HandlerFails, At, Working, IInv, AllPlaced, AllBack
  <1>2. Moves(b)
    BY <1>1, GoesOn, EndsThere DEF HandlerFails, Places
  <1>3. Paths(b)
    BY <1>1 DEF HandlerFails, Unfiled, Typed, Paths
  <1>4. /\ UNCHANGED <<final, staging, trash>>
        /\ \/ ~Working(b)'
           \/ /\ Remembers(b) /\ Same(b) /\ proc[b].pc = "mark" /\ proc'[b].pc = "remove"
              /\ ~proc[b].promoted
    BY <1>1, GoesOn, EndsThere DEF HandlerFails, Unfiled, At, Places
  <1>5. builds' = builds /\ promised' = promised
    BY DEF HandlerFails, Mishap
  <1>6. Typed'
    BY <1>1, <1>2, <1>3, <1>5 DEF Typed, Moves, Paths, Placed
  <1>7. StepOf(b)
    BY <1>2, <1>3, <1>4, <1>5 DEF StepOf, Moves, Paths, Remembers
  <1>8. (Working(b) => Placed(b))'
    BY <1>1, <1>4, <1>5 DEF Placed, Staged, Checked, Promoted, Remembers, Same, Working
  <1>9. ConfirmedValidated' /\ PromisedKept'
    BY Unmoved DEF HandlerFails, Unfiled, Mishap
  <1>11. (Working(b) => Back(b))'
    BY <1>1, <1>4, GoesBack DEF Early, Remembers, BuildOf
  <1>12. Stays(b)
    <2>1. staging'[proc[b].slug] \in {staging[proc[b].slug], None}
      BY <1>4
    <2> QED
      BY <1>1, <1>4, <2>1, BringsNone DEF Same
  <1> QED
    BY <1>1, <1>6, <1>7, <1>8, <1>9, <1>11, <1>12, OthersPlaced DEF IInv

LEMMA KillKeeps ==
  ASSUME IInv, NEW b \in Builders, Kill(b)
  PROVE  IInv'
  <1>1. Working(b) /\ Placed(b) /\ Back(b) /\ Typed
    BY DEF Kill, At, Working, IInv, AllPlaced, AllBack
  <1>2. Moves(b)
    BY <1>1, EndsThere DEF Kill, Unfiled, Places
  <1>3. Paths(b)
    BY <1>1 DEF Kill, Unfiled, Typed, Paths
  <1>4. UNCHANGED <<final, staging>> /\ ~Working(b)'
    BY <1>1, EndsThere DEF Kill, Unfiled, Places
  <1>5. builds' = builds /\ promised' = promised
    BY DEF Kill, Mishap
  <1>6. Typed'
    BY <1>1, <1>2, <1>3, <1>5 DEF Typed, Moves, Paths, Placed
  <1>7. StepOf(b)
    BY <1>2, <1>3, <1>4, <1>5 DEF StepOf, Moves, Paths, Remembers
  <1>8. (Working(b) => Placed(b))'
    BY <1>1, <1>4, <1>5 DEF Placed, Staged, Checked, Promoted, Remembers, Same, Working
  <1>9. ConfirmedValidated' /\ PromisedKept'
    BY Unmoved DEF Kill, Unfiled, Mishap
  <1>11. (Working(b) => Back(b))'
    BY <1>4
  <1>12. Stays(b)
    <2>1. trash' = trash /\ staging'[proc[b].slug] \in {staging[proc[b].slug], None}
      BY <1>1 DEF Kill, Unfiled, Placed, Typed
    <2> QED
      BY <1>1, <1>4, <2>1, BringsNone
  <1> QED
    BY <1>1, <1>6, <1>7, <1>8, <1>9, <1>11, <1>12, OthersPlaced DEF IInv

LEMMA BeginKeeps ==
  ASSUME ~Together, IInv, NEW b \in Builders, NEW s \in Slugs, NEW replace \in BOOLEAN,
         Begin(b, s, replace)
  PROVE  IInv'
  <1>1. Typed'
    <2> DEFINE r == [Idle EXCEPT !.pc = "render", !.slug = s, !.replace = replace,
                                 !.build = builds + 1, !.before = final[s]]
    <2>1. r \in Procs
      <3>1. Idle \in Procs
        BY DEF Idle, Procs, Places, MaybeBundles
      <3>2. builds + 1 \in Nat /\ final[s] \in MaybeBundles
        BY DEF IInv, Typed, MaybeBundles
      <3> QED
        BY <3>1, <3>2 DEF Procs, Places
    <2>2. proc' = [proc EXCEPT ![b] = r]
      BY DEF Begin
    <2> HIDE DEF r
    <2>3. proc' \in [Builders -> Procs]
      BY <2>1, <2>2 DEF IInv, Typed
    <2>4. staging' \in [Slugs -> MaybeBundles] /\ trash' \in SUBSET Bundles
      BY DEF IInv, Typed, MaybeBundles, Begin
    <2>5. UNCHANGED <<final, promised>> /\ builds' = builds + 1
      BY DEF Begin
    <2> QED
      BY <2>3, <2>4, <2>5 DEF IInv, Typed
  <1>2. \A c \in Builders \ {b} : proc'[c] = proc[c] /\ (Working(c) => proc[c].slug # s)
    BY DEF IInv, Typed, Begin, Slug
  <1>3. /\ proc'[b].pc = "render" /\ proc'[b].slug = s /\ proc'[b].build = builds + 1
        /\ ~proc'[b].promoted /\ proc'[b].trashed = None
        /\ staging'[s] = None /\ builds' = builds + 1 /\ builds \in Nat
        /\ UNCHANGED <<final, promised>>
        /\ \A r \in Slugs \ {s} : staging'[r] = staging[r]
    BY DEF IInv, Typed, Begin, Idle
  <1>4. Placed(b)'
    BY <1>3 DEF IInv, Typed, Placed, Staged, Checked, Promoted
  <1>5. ASSUME NEW c \in Builders \ {b}, Working(c)'
        PROVE  Placed(c)' /\ proc'[c].slug # proc'[b].slug /\ proc'[c].build # proc'[b].build
    <2>1. Working(c) /\ Placed(c) /\ proc'[c] = proc[c] /\ proc[c].slug # s
      BY <1>2, <1>5 DEF IInv, AllPlaced, Working
    <2>2. staging'[proc[c].slug] = staging[proc[c].slug]
      BY <1>3, <2>1 DEF Placed
    <2> QED
      BY <1>3, <2>1, <2>2 DEF Placed
  <1>6. AllPlaced'
    BY <1>4, <1>5 DEF AllPlaced
  <1>7. Apart'
    BY <1>2, <1>5 DEF IInv, Apart, Working
  <1>8. ConfirmedValidated'
    BY <1>3 DEF IInv, ConfirmedValidated
  <1>9. PromisedKept'
    <2>1. trash \subseteq trash'
      BY DEF Begin
    <2> QED
      BY <1>3, <2>1, StillKept
  <1>10. Own'
    <2>1. ASSUME NEW t \in Slugs, NEW n \in Nat, Held(t, n)'
          PROVE  Held(t, n) \/ (t = s /\ n = builds + 1)
      <3>1. CASE final'[t] # None /\ final'[t].build = n
        BY <1>3, <3>1 DEF Held
      <3>2. CASE staging'[t] # None /\ staging'[t].build = n
        BY <1>3, <3>2 DEF Held
      <3>3. ASSUME NEW c \in Builders, Working(c)', proc'[c].slug = t,
                   proc'[c].build = n \/ (proc'[c].trashed # None /\ proc'[c].trashed.build = n)
            PROVE  Held(t, n) \/ (t = s /\ n = builds + 1)
        <4>1. CASE c = b
          BY <1>3, <3>3, <4>1
        <4>2. CASE c # b
          BY <1>2, <3>3, <4>2 DEF Held, Working
        <4> QED
          BY <4>1, <4>2
      <3> QED
        BY <2>1, <3>1, <3>2, <3>3 DEF Held
    <2>2. \A t \in Slugs : ~Held(t, builds + 1)
      BY <1>3 DEF IInv, Own
    <2>3. \A t \in Slugs, n \in Nat : Held(t, n) => n <= builds
      BY DEF IInv, Own
    <2> QED
      BY <1>3, <2>1, <2>2, <2>3 DEF IInv, Own
  <1>11. AllBack'
    <2>1. trash \subseteq trash' /\ proc'[b].before = final[s] /\ ~proc'[b].open
      BY DEF IInv, Typed, Begin, Idle
    <2>2. Back(b)'
      BY <1>3, <2>1 DEF Back, Early, BuildOf
    <2>3. ASSUME NEW c \in Builders \ {b}, Working(c)'
          PROVE  Back(c)'
      <3>1. proc'[c] = proc[c] /\ Back(c)
        BY <1>2, <2>3 DEF IInv, AllBack, Working
      <3>2. InTrash(c) => InTrash(c)'
        BY <2>1, <3>1 DEF InTrash, BuildOf
      <3> QED
        BY <1>3, <3>1, <3>2 DEF Back, BuildOf
    <2> QED
      BY <2>2, <2>3 DEF AllBack
  <1> QED
    BY <1>1, <1>6, <1>7, <1>8, <1>9, <1>10, <1>11 DEF IInv

LEMMA SpoilKeeps ==
  ASSUME IInv, NEW s \in Slugs, Spoil(s)
  PROVE  IInv'
  <1>1. \A r \in Slugs : /\ final[r] = None <=> final'[r] = None
                         /\ final[r] # None => /\ final'[r].build = final[r].build
                                               /\ final'[r].checked = final[r].checked
    BY NoneIsNoBundle DEF IInv, Typed, MaybeBundles, Bundles, Spoil
  <1>2. UNCHANGED <<staging, trash, proc, builds, promised>>
    BY DEF Spoil, Mishap
  <1>3. Typed'
    <2>1. final[s] \in Bundles
      BY DEF Spoil, IInv, Typed, MaybeBundles
    <2>2. [final[s] EXCEPT !.sound = FALSE] \in Bundles
      BY <2>1 DEF Bundles
    <2>3. final' \in [Slugs -> MaybeBundles]
      BY <2>2 DEF Spoil, IInv, Typed, MaybeBundles
    <2> QED
      BY <1>2, <2>3 DEF IInv, Typed
  <1>4. AllPlaced'
    BY <1>1, <1>2 DEF IInv, AllPlaced, Working, Placed
  <1>5. Apart'
    BY <1>2 DEF IInv, Apart, Working
  <1>6. ConfirmedValidated'
    BY <1>1 DEF IInv, ConfirmedValidated
  <1>7. PromisedKept'
    BY <1>1, <1>2, StillKept DEF BuildOf
  <1>8. Own'
    <2>1. \A t \in Slugs, n \in Nat : Held(t, n)' => Held(t, n)
      BY <1>1, <1>2 DEF Held, Working
    <2> QED
      BY <1>2, <2>1 DEF IInv, Own
  <1>9. AllBack'
    <2>1. \A t \in Slugs : BuildOf(final'[t]) = BuildOf(final[t])
      BY <1>1 DEF BuildOf
    <2>2. ASSUME NEW b \in Builders, Working(b)'
          PROVE  Back(b)'
      <3>1. Back(b) /\ proc[b].slug \in Slugs
        BY <1>2, <2>2 DEF IInv, AllBack, AllPlaced, Placed, Working
      <3>2. InTrash(b)' = InTrash(b)
        BY <1>2 DEF InTrash, BuildOf
      <3>3. final[proc[b].slug] = None <=> final'[proc[b].slug] = None
        BY <1>1, <3>1
      <3>4. BuildOf(final'[proc[b].slug]) = BuildOf(final[proc[b].slug])
        BY <2>1, <3>1
      <3>5. BuildOf(proc'[b].before) = BuildOf(proc[b].before)
        BY <1>2
      <3> QED
        BY <1>2, <3>1, <3>2, <3>3, <3>4, <3>5 DEF Back, BuildOf
    <2> QED
      BY <2>2 DEF AllBack
  <1> QED
    BY <1>3, <1>4, <1>5, <1>6, <1>7, <1>8, <1>9 DEF IInv
-----------------------------------------------------------------------------
LEMMA InitPlaced == Init => IInv
  <1> SUFFICES ASSUME Init
               PROVE  IInv
    OBVIOUS
  <1>1. \A b \in Builders : ~Working(b)
    BY DEF Init, Idle, Working
  <1>2. Typed
    BY NoneIsNoBundle DEF Init, Idle, Typed, Procs, MaybeBundles, Bundles, Places
  <1>3. \A s \in Slugs : final[s] = None /\ staging[s] = None
    BY DEF Init
  <1>4. Own
    BY <1>1, <1>3 DEF Own, Held
  <1>5. AllPlaced /\ Apart /\ AllBack
    BY <1>1 DEF AllPlaced, Apart, AllBack
  <1>6. ConfirmedValidated /\ PromisedKept
    BY <1>3 DEF Init, ConfirmedValidated, PromisedKept
  <1> QED
    BY <1>2, <1>4, <1>5, <1>6 DEF IInv

LEMMA NextPlaced == ~Together /\ IInv /\ [Next]_vars => IInv'
  <1> SUFFICES ASSUME ~Together, IInv, [Next]_vars
               PROVE  IInv'
    OBVIOUS
  <1>1. CASE UNCHANGED vars
    <2>1. Typed' /\ AllPlaced' /\ Apart' /\ ConfirmedValidated' /\ PromisedKept'
      BY <1>1 DEF vars, IInv, Typed, AllPlaced, Apart, Working, Placed, ConfirmedValidated,
                  PromisedKept, BuildOf
    <2>2. Own'
      BY <1>1 DEF vars, IInv, Own, Held, Working
    <2>3. AllBack'
      BY <1>1 DEF vars, IInv, AllBack, Back, InTrash, Working, BuildOf
    <2> QED
      BY <2>1, <2>2, <2>3 DEF IInv
  <1>2. ASSUME NEW b \in Builders, NEW s \in Slugs, NEW replace \in BOOLEAN, Begin(b, s, replace)
        PROVE  IInv'
    BY <1>2, BeginKeeps
  <1>3. ASSUME NEW b \in Builders,
               \/ Render(b) \/ Stage(b) \/ WritePending(b) \/ Validate(b) \/ WritePassed(b)
               \/ BatchBefore(b) \/ Classify(b) \/ Displace(b) \/ Promote(b) \/ Move(b)
               \/ WritePromoted(b) \/ BatchAfter(b) \/ Withdraw(b) \/ Restore(b) \/ Mark(b)
               \/ Remove(b) \/ Fail(b) \/ HandlerFails(b) \/ Kill(b)
        PROVE  IInv'
    BY <1>3, RenderKeeps, StageKeeps, WritePendingKeeps, ValidateKeeps, WritePassedKeeps,
       BatchBeforeKeeps, ClassifyKeeps, DisplaceKeeps, PromoteKeeps, MoveKeeps,
       WritePromotedKeeps, BatchAfterKeeps, WithdrawKeeps, RestoreKeeps, MarkKeeps, RemoveKeeps,
       FailKeeps, HandlerFailsKeeps, KillKeeps
  <1>4. ASSUME NEW s \in Slugs, Spoil(s)
        PROVE  IInv'
    BY <1>4, SpoilKeeps
  <1> QED
    BY <1>1, <1>2, <1>3, <1>4 DEF Next

LEMMA AlwaysPlaced == ~Together /\ Spec => []IInv
  <1>1. ASSUME ~Together
        PROVE  Spec => []IInv
    <2>1. IInv /\ [Next]_vars => IInv'
      BY <1>1, NextPlaced
    <2> QED
      BY <2>1, InitPlaced, PTL DEF Spec
  <1> QED
    BY <1>1

\* Where builders do not share a slug, every bundle in confirmed/ was accepted by its validation
\* before it was moved there, through any number of builds, errors, kills and spoiled bundles.
THEOREM ConfirmedAreValidated == ~Together => (Spec => []ConfirmedValidated)
  <1>1. IInv => ConfirmedValidated
    BY DEF IInv
  <1> QED
    BY <1>1, AlwaysPlaced, PTL

\* Where builders do not share a slug, no bundle that was reported promoted is ever lost: it stands
\* in confirmed/ or lies in the trash.
THEOREM PromisedAreKept == ~Together => (Spec => []PromisedKept)
  <1>1. IInv => PromisedKept
    BY DEF IInv
  <1> QED
    BY <1>1, AlwaysPlaced, PTL

\* Only the exception handler makes a build end in an error: its last two steps, and an error of
\* its own.  They leave the final path and the trash alone.
LEMMA FailsThere ==
  ASSUME IInv, Next, NEW b \in Builders, Working(b), proc'[b].pc \in InError
  PROVE  /\ Mark(b) \/ Remove(b) \/ (HandlerFails(b) /\ proc'[b].pc = "unrestored")
         /\ UNCHANGED <<final, trash>>
  <1>1. Typed
    BY DEF IInv
  <1>2. ASSUME NEW c \in Builders, NEW pc, Goes(c, pc), pc \notin InError \/ c # b
        PROVE  FALSE
    BY <1>1, <1>2 DEF Goes, Typed, Procs, Working, InError
  <1>3. ASSUME NEW c \in Builders, NEW pc, Ends(c, pc), pc \notin InError \/ c # b
        PROVE  FALSE
    BY <1>1, <1>3 DEF Ends, Idle, Typed, Procs, Working, InError
  <1>4. ASSUME NEW c \in Builders, NEW r, proc' = [proc EXCEPT ![c] = r], r.pc \notin InError
        PROVE  FALSE
    BY <1>1, <1>4 DEF Typed, Working, InError
  <1>5. ASSUME NEW c \in Builders, NEW s \in Slugs, NEW replace \in BOOLEAN, Begin(c, s, replace)
        PROVE  FALSE
    <2> DEFINE r == [Idle EXCEPT !.pc = "render", !.slug = s, !.replace = replace,
                                 !.build = builds + 1, !.before = final[s]]
    <2>1. proc' = [proc EXCEPT ![c] = r] /\ r.pc \notin InError
      BY <1>5 DEF Begin, Idle, InError
    <2> HIDE DEF r
    <2> QED
      BY <1>4, <2>1
  <1>6. ASSUME NEW s \in Slugs, Spoil(s)
        PROVE  FALSE
    BY <1>6 DEF Spoil, Working, InError
  <1>7. ASSUME NEW c \in Builders,
               \/ Stage(c) \/ WritePending(c) \/ Validate(c) \/ WritePassed(c)
               \/ BatchBefore(c) \/ Classify(c) \/ Promote(c) \/ WritePromoted(c) \/ Restore(c)
               \/ Fail(c)
        PROVE  FALSE
    BY <1>2, <1>7 DEF Stage, WritePending, WritePassed, StagingManifest, Validate, BatchBefore,
                      Classify, Promote, WritePromoted, Restore, Fail, InError
  <1>8. ASSUME NEW c \in Builders, BatchAfter(c) \/ Kill(c)
        PROVE  FALSE
    BY <1>2, <1>3, <1>8 DEF BatchAfter, Kill, InError
  <1>9. ASSUME NEW c \in Builders, Render(c)
         PROVE  FALSE
    <2>1. PICK sound \in BOOLEAN :
            proc' = [proc EXCEPT ![c].pc = "stage",
                                 ![c].rendered = Bundle(proc[c].build, sound)]
      BY <1>9 DEF Render
    <2> DEFINE r == [proc[c] EXCEPT !.pc = "stage", !.rendered = Bundle(proc[c].build, sound)]
    <2>2. proc' = [proc EXCEPT ![c] = r] /\ r.pc \notin InError
      BY <1>1, <2>1 DEF Typed, Procs, InError
    <2> HIDE DEF r
    <2> QED
      BY <1>4, <2>2
  <1>10. ASSUME NEW c \in Builders, Displace(c)
         PROVE  FALSE
    <2> DEFINE r == [proc[c] EXCEPT !.pc = "promote", !.trashed = final[Slug(c)], !.open = TRUE]
    <2>1. Goes(c, "undo") \/ proc' = [proc EXCEPT ![c] = r]
      BY <1>10 DEF Displace
    <2>2. r.pc \notin InError
      BY <1>1 DEF Typed, Procs, InError
    <2> HIDE DEF r
    <2> QED
      BY <1>2, <1>4, <2>1, <2>2 DEF InError
  <1>11. ASSUME NEW c \in Builders, Move(c)
         PROVE  FALSE
    <2> DEFINE r == [proc[c] EXCEPT !.pc = "promoted", !.promoted = TRUE, !.open = FALSE]
    <2>1. Goes(c, "undo") \/ proc' = [proc EXCEPT ![c] = r]
      BY <1>11 DEF Move
    <2>2. r.pc \notin InError
      BY <1>1 DEF Typed, Procs, InError
    <2> HIDE DEF r
    <2> QED
      BY <1>2, <1>4, <2>1, <2>2 DEF InError
  <1>12. ASSUME NEW c \in Builders, Withdraw(c)
         PROVE  FALSE
    <2> DEFINE r == [proc[c] EXCEPT !.pc = "restore", !.promoted = FALSE]
    <2>1. Goes(c, "mark") \/ proc' = [proc EXCEPT ![c] = r]
      BY <1>12 DEF Withdraw
    <2>2. r.pc \notin InError
      BY <1>1 DEF Typed, Procs, InError
    <2> HIDE DEF r
    <2> QED
      BY <1>2, <1>4, <2>1, <2>2 DEF InError
  <1>13. ASSUME NEW c \in Builders, Mark(c) \/ Remove(c) \/ HandlerFails(c)
         PROVE  /\ Mark(b) \/ Remove(b) \/ (HandlerFails(b) /\ proc'[b].pc = "unrestored")
                /\ UNCHANGED <<final, trash>>
    <2>1. CASE c # b
      BY <1>2, <1>3, <1>13, <2>1 DEF Mark, Remove, HandlerFails
    <2>2. CASE c = b /\ (Mark(c) \/ Remove(c))
      BY <2>2 DEF Mark, Remove
    <2>3. CASE c = b /\ HandlerFails(c)
      <3>1. Ends(b, "unrestored")
        BY <1>2, <2>3 DEF HandlerFails, InError
      <3>2. proc'[b].pc = "unrestored"
        BY <1>1, <3>1 DEF Ends, Idle, Typed
      <3> QED
        BY <2>3, <3>2 DEF HandlerFails, Unfiled
    <2> QED
      BY <1>13, <2>1, <2>2, <2>3
  <1> QED
    BY <1>5, <1>6, <1>7, <1>8, <1>9, <1>10, <1>11, <1>12, <1>13 DEF Next

\* Where builders do not share a slug, a build that ends in an error leaves the bundle of its slug
\* as it found it: what it promoted is withdrawn, and what it had replaced comes back from the trash.
\* If the error fell between the removal of the old bundle and the move of the new, or struck a
\* move of the handler, the old bundle still lies in the trash, or there was none.
THEOREM FailedBuildsRestore == ~Together => (Spec => FailureRestores)
  <1> DEFINE Found(b) == BuildOf(proc[b].before)
             Open(b) == proc[b].open \/ proc'[b].pc = "unrestored"
             Kept(b) == \/ BuildOf(final'[Slug(b)]) = Found(b)
                        \/ Open(b) /\ (Found(b) = 0 \/ \E x \in trash' : x.build = Found(b))
  <1>1. ASSUME IInv, Next, NEW b \in Builders, Working(b), proc'[b].pc \in InError
        PROVE  Kept(b)
    <2>1. /\ Mark(b) \/ Remove(b) \/ (HandlerFails(b) /\ proc'[b].pc = "unrestored")
          /\ UNCHANGED <<final, trash>>
      BY <1>1, FailsThere
    <2>2. Placed(b) /\ Back(b)
      BY <1>1 DEF IInv, AllPlaced, AllBack
    <2>3. BuildOf(final'[Slug(b)]) = BuildOf(final[proc[b].slug])
      BY <2>1 DEF Slug, BuildOf
    <2>4. InTrash(b) => \E x \in trash' : x.build = Found(b)
      BY <2>1 DEF InTrash
    <2>5. CASE Mark(b) \/ Remove(b)
      <3>1. proc[b].pc \in {"mark", "remove"} /\ ~proc[b].promoted
        BY <2>2, <2>5 DEF Mark, Remove, At, Placed, Promoted
      <3>2. CASE ~proc[b].open
        BY <2>2, <2>3, <3>1, <3>2 DEF Back
      <3>3. CASE proc[b].open
        BY <2>2, <2>3, <2>4, <3>1, <3>3 DEF Back
      <3> QED
        BY <3>2, <3>3
    <2>6. CASE HandlerFails(b) /\ proc'[b].pc = "unrestored"
      <3>1. proc[b].promoted \/ proc[b].pc = "restore"
        <4>1. proc[b].pc = "mark" => proc'[b].pc = "remove"
          BY <1>1, <2>6 DEF HandlerFails, At, Goes, IInv, Typed, Procs
        <4> QED
          BY <2>6, <4>1 DEF HandlerFails, At, MayWithdraw
      <3> QED
        BY <2>2, <2>4, <2>6, <3>1 DEF Back
    <2> QED
      BY <2>1, <2>5, <2>6
  <1>2. IInv /\ [Next]_vars =>
          [\A b \in Builders :
             Working(b) /\ proc'[b].pc \in InError =>
               LET found == BuildOf(proc[b].before)
               IN  \/ BuildOf(final'[Slug(b)]) = found
                   \/ /\ proc[b].open \/ proc'[b].pc = "unrestored"
                      /\ found = 0 \/ \E bundle \in trash' : bundle.build = found]_vars
    BY <1>1
  <1>3. ASSUME ~Together
        PROVE  Spec => FailureRestores
    <2>1. Spec => []IInv
      BY <1>3, AlwaysPlaced
    <2> QED
      BY <1>2, <2>1, PTL DEF Spec, FailureRestores
  <1> QED
    BY <1>3
=============================================================================
