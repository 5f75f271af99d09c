--------------------------- MODULE DockerResources ---------------------------
(***************************************************************************)
(* manage_docker_resources.py: the baseline of a workspace, the plan of    *)
(* what was created since, its removal and the strict check the completion *)
(* gate asks for, beside the attempts of DockerCases that create and       *)
(* remove containers meanwhile.  Nothing keeps two commands of the helper  *)
(* apart.  A snapshot is one step, and so is the write of a document: a    *)
(* command that reads a half-written one stops as if it was never called.  *)
(* A plan is carried out one removal at a time.                            *)
(***************************************************************************)
EXTENDS DockerCases

CONSTANTS
  Missing,          \* no baseline
  DefaultNetworks,  \* bridge, host, none
  AdoptedProjects,  \* --adopt-compose-project
  AdoptedNames,     \* --adopt-image-ref, -network-name, -volume-name, -build-cache-id
  Managers,         \* processes of the helper
  MaxCommands

\* A baseline is a document.
ASSUME ResourcesAssumption ==
  /\ MaxCommands \in Nat
  /\ Missing \notin
       [available : BOOLEAN, ids : SUBSET (Identities(Present) \cup {"container", "volume"} \X Attempts)]

VARIABLES
  baseline,    \* docker-resource-baseline.json
  cleanliness, \* docker-cleanliness-status.json
  mgr,         \* of each process: the command it runs, the baseline it has read, the one it has
               \* captured and what it still has to remove
  commands,
  protected,   \* history: what was listed by every capture that had found no baseline
  weakened     \* history: "listing", one failed; "again", more than one baseline was captured

resourceVars == <<baseline, cleanliness, mgr, commands, protected, weakened>>
allVars == <<vars, resourceVars>>

Snapshot(available, rs) == [available |-> available, resources |-> rs]
Idle == [pc |-> "idle", base |-> Missing, doc |-> Missing, plan |-> {}]

\* The workspace has no baseline yet, or one of what was there from the beginning.
ResourcesInit ==
  /\ \/ baseline = Missing /\ protected = {}
     \/ /\ protected = Identities(Present)
        /\ baseline = [available |-> TRUE, ids |-> Identities(Present)]
  /\ cleanliness = None
  /\ mgr = [m \in Managers |-> Idle] /\ commands = 0
  /\ weakened = {}

\* The snapshots the command may get: of everything, without one kind whose listing failed, which
\* is taken for an empty one, or of a Docker that does not answer.
Captured(rs, available, failed) ==
  Snapshot(available, IF available THEN {r \in rs : r.kind # failed} ELSE {})

\* What the labels or an explicit adoption make the workspace's own.  Only a reclaimable cache
\* record adopted by its identity is.
Owned(r) ==
  CASE r.kind = "cache" -> r.idle /\ r.id \in AdoptedNames
    [] r.kind = "container" -> r.ws \/ r.project \in AdoptedProjects
    [] OTHER -> r.ws \/ r.project \in AdoptedProjects \/ r.id \in AdoptedNames

\* Mutant of New: what the workspace labelled is its own, whenever it was created.
NewOrLabelled(base, current) ==
  {r \in current.resources : r.ws \/ r.id \notin base.ids}
New(base, current) ==
  {r \in current.resources : /\ r.id \notin base.ids
                             /\ ~(r.kind = "network" /\ r.id \in DefaultNetworks)}

\* build_cleanup_plan: what is removed, what is left because it runs, and what nobody claims.
BuildPlan(base, current) ==
  LET created == New(base, current)
      own     == {r \in created : Owned(r)}
      running == {r \in own : r.kind = "container" /\ ~r.idle}
  IN [remove |-> own \ running, running |-> running, unattributed |-> created \ own]

OwnedResidue(plan) == plan.remove \cup plan.running
\* Mutant of CleanOf: a strict check looks at the owned resources only.
CleanOfOwned(plan, strict) == OwnedResidue(plan) = {}
CleanOf(plan, strict) == OwnedResidue(plan) = {} /\ (strict => plan.unattributed = {})

Commands == {"capture", "overwrite", "verify", "strict", "cleanup"}

\* Containers, networks, volumes, images, caches.
Order(kind) == CASE kind = "container" -> 1 [] kind = "network" -> 2 [] kind = "volume" -> 3
                 [] kind = "image" -> 4 [] kind = "cache" -> 5

Observes(available, failed, snapshot) ==
  /\ failed = "none" \/ available
  /\ IF failed = "none" THEN UNCHANGED mishaps ELSE Mishap
  /\ snapshot = Captured(resources, available, failed)

Stays == UNCHANGED <<daemonVars, at, journal, result, response, capture, inputs, mode>>
Manager(m, change) == mgr' = [mgr EXCEPT ![m] = change]

\* A command reads the baseline first.  Without one only a capture goes on; one captured while
\* Docker was unavailable stops everything; an existing one is kept unless it is to be
\* overwritten.  A command that stops leaves everything as it is.
Command(m, c) ==
  /\ mgr[m].pc = "idle" /\ commands < MaxCommands
  /\ commands' = commands + 1
  /\ \/ /\ baseline = Missing /\ c \in {"capture", "overwrite"}
        /\ Manager(m, [Idle EXCEPT !.pc = "write"])
     \/ /\ baseline # Missing /\ baseline.available /\ c # "capture"
        /\ Manager(m, [Idle EXCEPT !.pc = c, !.base = baseline])
  /\ UNCHANGED <<baseline, cleanliness, protected, weakened, mishaps>> /\ Stays

\* Before it overwrites the baseline the command reads it again and makes sure that nothing new
\* is left.
CheckResidue(m, available, failed) ==
  /\ mgr[m].pc = "overwrite"
  /\ \E current \in {Captured(resources, available, failed)} :
       /\ Observes(available, failed, current)
       /\ Manager(m, IF baseline.available /\ available /\ CleanOf(BuildPlan(baseline, current), TRUE)
                     THEN [mgr[m] EXCEPT !.pc = "write"] ELSE Idle)
  /\ UNCHANGED <<baseline, cleanliness, commands, protected, weakened>> /\ Stays

\* The new baseline is a snapshot of its own, taken after the checks ...
CaptureBaseline(m, available, failed) ==
  /\ mgr[m].pc = "write"
  /\ \E current \in {Captured(resources, available, failed)} :
       LET ids   == Identities(current.resources)
           first == baseline = Missing /\ \A n \in Managers : mgr[n].pc # "store"
       IN /\ Observes(available, failed, current)
          /\ Manager(m, [mgr[m] EXCEPT !.pc = "store",
                                       !.doc = [available |-> current.available, ids |-> ids]])
          /\ protected' = IF ~available \/ mgr[m].base # Missing THEN protected
                          ELSE IF first THEN ids ELSE protected \cap ids
          /\ weakened' = weakened \cup (IF failed = "none" THEN {} ELSE {"listing"})
                              \cup (IF first THEN {} ELSE {"again"})
  /\ UNCHANGED <<baseline, cleanliness, commands>> /\ Stays

\* ... and replaces whatever is there by the time it is written.
WriteBaseline(m) ==
  /\ mgr[m].pc = "store"
  /\ baseline' = mgr[m].doc
  /\ Manager(m, Idle)
  /\ UNCHANGED <<cleanliness, commands, protected, weakened, mishaps>> /\ Stays

\* A plan that still has something to remove, or none.
Removing(m, plan) ==
  Manager(m, IF plan = {} THEN Idle ELSE [mgr[m] EXCEPT !.pc = "removing", !.plan = plan])

\* Everything else compares the baseline it read with a snapshot.
Inspect(m, available, failed) ==
  /\ mgr[m].pc \in {"verify", "strict", "cleanup"}
  /\ \E current \in {Captured(resources, available, failed)} :
       LET plan == BuildPlan(mgr[m].base, current)
       IN /\ Observes(available, failed, current)
          /\ IF available /\ mgr[m].pc \in {"verify", "strict"}
             THEN cleanliness' =
                    [clean |-> CleanOf(plan, mgr[m].pc = "strict"), strict |-> mgr[m].pc = "strict"]
             ELSE UNCHANGED cleanliness
          /\ Removing(m, IF available /\ mgr[m].pc = "cleanup" THEN plan.remove ELSE {})
          /\ weakened' = weakened \cup (IF failed = "none" THEN {} ELSE {"listing"})
  /\ UNCHANGED <<baseline, commands, protected>> /\ Stays

\* apply_cleanup removes what the plan lists by name or id, kind by kind, whatever it has become;
\* a removal that fails is counted and the rest goes on.
RemovePlanned(m) ==
  /\ mgr[m].pc = "removing"
  /\ \E r \in mgr[m].plan :
       /\ \A x \in mgr[m].plan : Order(r.kind) <= Order(x.kind)
       /\ Removing(m, mgr[m].plan \ {r})
       /\ \/ /\ resources' = {x \in resources : x.id # r.id}
             /\ UNCHANGED mishaps
          \/ UNCHANGED resources /\ Mishap
  /\ UNCHANGED <<creating, at, journal, result, response, capture, inputs, mode>>
  /\ UNCHANGED <<baseline, cleanliness, commands, protected, weakened>>

Manage ==
  \E m \in Managers :
    \/ \E c \in Commands : Command(m, c)
    \/ \E available \in BOOLEAN, failed \in Kinds \cup {"none"} :
         CheckResidue(m, available, failed) \/ CaptureBaseline(m, available, failed)
           \/ Inspect(m, available, failed)
    \/ WriteBaseline(m) \/ RemovePlanned(m)

HostInit == Init /\ ResourcesInit
HostNext == (CasesStep /\ UNCHANGED resourceVars) \/ Manage
HostSpec == HostInit /\ [][HostNext]_allVars

\* Nothing the first baseline listed is ever removed by the resource manager, however often the
\* baseline is overwritten, however its commands overlap and whichever labels it carries, as
\* long as every listing succeeded (manage_docker_resources.py:471 apply_cleanup, main 809-842).
\* When several captures found no baseline, the last to be written stands, and only what all of
\* them listed is kept.  A listing that fails is taken for an empty one: written over the
\* baseline, it takes the protection away.
BaselineResourcesKept ==
  [][\A r \in resources : /\ r.id \in protected
                          /\ r.id \notin Identities(resources')
                          /\ "listing" \notin weakened
                          => mgr' = mgr]_allVars

\* As long as every listing succeeded and one baseline was captured, a strict check that says
\* clean saw no container or volume an attempt created since, of whatever mode and whatever end
\* of its wrapper (manage_docker_resources.py:649, docker-resource-hygiene.md).
StrictCleanIsTruthful ==
  [][cleanliness' # cleanliness /\ cleanliness' = [clean |-> TRUE, strict |-> TRUE]
        /\ weakened' = {} =>
       \A r \in resources : (r.token = Nobody /\ r.project = Nobody) \/ r.id \in protected]_allVars
=============================================================================
