----------------------------- MODULE DockerCases -----------------------------
(***************************************************************************)
(* Attempts at one verification case: run_verification_case.sh, the helper *)
(* process it captures the container's output with (run_captured_command)  *)
(* and the cleanup of docker_case_lifecycle.py.  An attempt reads the      *)
(* journal, asks Docker for what it needs, records its start, lets a       *)
(* helper run the container, cleans up and records the outcome; a signal,  *)
(* a kill or a failing command may meet it at any step.  The commit of an  *)
(* event, whose inside is AuditStateIO, is one step.                       *)
(***************************************************************************)
EXTENDS DockerDaemon, Sequences

CONSTANTS
  None,         \* no file
  Requested,    \* the limits an attempt may ask for
  Changes,      \* what a merged Compose configuration may change
  Earlier,      \* the statuses work may be in when the first attempt is called
  Others,       \* the statuses events of other commands may lead to
  Rounds,       \* rounds of a cleanup (5 in the code)
  StableScans,  \* clean scans in a row that settle it (3 in the code)
  MaxMishaps    \* signals, kills, failing commands, edits and events of other commands

ASSUME CasesAssumption ==
  /\ Rounds \in Nat \ {0} /\ StableScans \in Nat \ {0}
  /\ MaxMishaps \in Nat
  /\ MaxLag <= StableScans
  /\ \A r \in Present, a \in Attempts : r.id \notin {<<"container", a>>, <<"volume", a>>}

VARIABLES
  at,        \* each attempt's place and its shell variables
  journal,   \* the events, each with the status it leads to
  result,    \* verification-result.json of the case
  response,  \* capture-response.json of the case
  capture,   \* whose stdout.log and stderr.log are at the case's path names
  inputs,    \* the files an attempt relies on: "pinned", or with its Compose files or its receipt
             \* edited, "drifted" or "receipt"
  mishaps,
  mode       \* how each attempt is called

caseVars == <<at, journal, result, response, capture, inputs, mishaps, mode>>
vars == <<daemonVars, caseVars>>

\* Each limit is bounded on both sides and the host's network is never given.
ValidPolicy(p) ==
  /\ p.memory \in 16..2048   \* MiB
  /\ p.cpus \in 1..40        \* tenths
  /\ p.pids \in 1..1024
  /\ p.network # "host"

\* What the merged Compose configuration may not change about the selected service.
Guarded == {"depends_on", "privileged", "network_mode", "restart", "read_only", "cap_drop",
            "security_opt", "logging", "tmpfs", "output volume", "mem_limit", "memswap_limit", "cpus",
            "pids_limit", "labels", "image"}
ConfigAccepted(a, changed) == inputs[a] # "receipt" /\ changed \cap Guarded = {}

\* What one attempt creates: a container; under Compose also a volume of its project.  Only
\* `docker run` is given the workspace's label.
ContainerOf(a) ==
  [id |-> <<"container", a>>, kind |-> "container", token |-> a,
   project |-> IF mode[a] = "docker-compose" THEN a ELSE Nobody,
   ws |-> mode[a] = "docker-run", idle |-> FALSE]
VolumeOf(a) ==
  [id |-> <<"volume", a>>, kind |-> "volume", token |-> Nobody, project |-> a, ws |-> FALSE,
   idle |-> FALSE]
CreatedBy(a) ==
  {ContainerOf(a)} \cup (IF mode[a] = "docker-compose" THEN {VolumeOf(a)} ELSE {})

CaseOwned(r, a) == r.token = a
ProjectOwned(r, a) == mode[a] = "docker-compose" /\ r.project = a
OwnedByCase(a) == {r \in resources : CaseOwned(r, a) \/ ProjectOwned(r, a)}
Pending(a) == {c \in creating : c.resource.token = a \/ c.resource.project = a}

Status(log) == log[Len(log)].status
Event(ev, a, s) == [event |-> ev, by |-> a, status |-> s]
Statuses == {"running", "blocked", "elsewhere"}
ASSUME StatusesAssumption == Earlier \subseteq Statuses /\ Others \subseteq Statuses

Fresh ==
  [pc |-> "idle", rev |-> 0, from |-> "running", exists |-> FALSE, helper |-> "none",
   hold |-> None, signal |-> "none", status |-> "none", unsafe |-> FALSE, recorded |-> FALSE,
   verified |-> FALSE, reported |-> FALSE, round |-> 1, stable |-> 0, failed |-> FALSE,
   found |-> {}, after |-> "end"]

\* The workspace when the first attempt is called: work is in verification, running or blocked
\* by an earlier case, or somewhere else.
CasesInit ==
  /\ at = [a \in Attempts |-> Fresh]
  /\ \E s \in Earlier : journal = <<Event("earlier", Nobody, s)>>
  /\ result = None /\ response = None /\ capture = Nobody
  /\ inputs = [a \in Attempts |-> "pinned"]
  /\ mishaps = 0
  /\ mode \in [Attempts -> {"docker-run", "docker-compose"}]

Mishap == mishaps < MaxMishaps /\ mishaps' = mishaps + 1
Moves(a, change) == at' = [at EXCEPT ![a] = change]
Goes(a, where) == Moves(a, [at[a] EXCEPT !.pc = where])

\* ensure_case_cleanup: nothing to do before a container may exist and once it was verified;
\* otherwise the helper is called, and `where` is where the wrapper goes on.
WithCleanup(s, where) ==
  IF ~s.exists THEN [s EXCEPT !.verified = TRUE, !.pc = where]
  ELSE IF s.verified THEN [s EXCEPT !.pc = where]
  ELSE [s EXCEPT !.pc = "before", !.round = 1, !.stable = 0, !.failed = FALSE, !.found = {},
                 !.after = where]

-----------------------------------------------------------------------------
(* From the call to the container *)

\* The policy, the pinned inputs and the sandbox are checked before anything is written.
Call(a, p) ==
  /\ at[a].pc = "idle"
  /\ Goes(a, IF ValidPolicy(p) THEN "authority" ELSE "done")
  /\ UNCHANGED <<daemonVars, journal, result, response, capture, inputs, mishaps, mode>>

Document(a, s, w) == [by |-> a, status |-> s, wrapper |-> w]

ReadAuthority(a) ==
  /\ at[a].pc = "authority"
  /\ \/ /\ Status(journal) \in {"running", "blocked"}
        /\ Moves(a, [at[a] EXCEPT !.pc = "docker", !.rev = Len(journal), !.from = Status(journal)])
        /\ UNCHANGED result
     \/ /\ Status(journal) \notin {"running", "blocked"}
        /\ result' = Document(a, "blocked_state_precondition", "none")
        /\ Goes(a, "exit")
  /\ UNCHANGED <<daemonVars, journal, response, capture, inputs, mishaps, mode>>

\* `docker info` and the image; under Compose the merged configuration first.
CheckDocker(a, changed) ==
  /\ at[a].pc = "docker" /\ inputs[a] # "drifted"
  /\ LET refused == mode[a] = "docker-compose" /\ ~ConfigAccepted(a, changed)
         ends(s) == Moves(a, WithCleanup([at[a] EXCEPT !.status = s], "publish"))
     IN \/ refused /\ ends("rejected_unsafe_sandbox")
        \/ ~refused /\ \E s \in {"blocked_docker_unavailable", "blocked_missing_image"} : ends(s)
        \/ ~refused /\ Goes(a, "resume")
  /\ UNCHANGED <<daemonVars, journal, result, response, capture, inputs, mishaps, mode>>

CanCommit(a, from) == Len(journal) = at[a].rev /\ Status(journal) = from

\* An event is appended if the revision is the one the attempt knows; or the writer fails.
Commits(a, ev, from, to) ==
  /\ CanCommit(a, from)
  /\ journal' = Append(journal, Event(ev, a, to))
  /\ UNCHANGED mishaps
CommitFails(a, from) ==
  /\ \/ ~CanCommit(a, from) /\ UNCHANGED mishaps
     \/ CanCommit(a, from) /\ Mishap
  /\ UNCHANGED journal

BlockedBeforeExecution(a, from) ==
  /\ CommitFails(a, from)
  /\ result' = Document(a, "blocked_authority_event_commit", "blocked_authority_event_commit")
  /\ Goes(a, "exit")

Resume(a) ==
  /\ at[a].pc = "resume"
  /\ \/ /\ at[a].from = "running"
        /\ Goes(a, "verify")
        /\ UNCHANGED <<journal, result, mishaps>>
     \/ /\ at[a].from = "blocked"
        /\ Commits(a, "resumed", "blocked", "running")
        /\ Moves(a, [at[a] EXCEPT !.pc = "verify", !.rev = @ + 1])
        /\ UNCHANGED result
     \/ at[a].from = "blocked" /\ BlockedBeforeExecution(a, "blocked")
  /\ UNCHANGED <<daemonVars, response, capture, inputs, mode>>

\* The last look at the pinned files before the container.
VerifyPinned(a) ==
  /\ at[a].pc = "verify" /\ inputs[a] # "drifted"
  /\ Goes(a, "start")
  /\ UNCHANGED <<daemonVars, journal, result, response, capture, inputs, mishaps, mode>>

\* The start is in the journal before the helper that runs the container is.
Start(a) ==
  /\ at[a].pc = "start"
  /\ \/ /\ Commits(a, "started", "running", "running")
        /\ Moves(a, [at[a] EXCEPT !.pc = "launching", !.rev = @ + 1, !.exists = TRUE,
                                  !.helper = "early"])
        /\ UNCHANGED result
     \/ BlockedBeforeExecution(a, "running")
  /\ UNCHANGED <<daemonVars, response, capture, inputs, mode>>

\* What a signal does to the helper: before it has installed its handlers it ignores an
\* interrupt, as a background process does, and dies of a termination, and so again once it has
\* taken them back; between, it stops the Docker client and leaves a response.
HelperAfter(h, s) ==
  CASE h \in {"early", "writing"} /\ s = "TERM" -> "died"
    [] h = "running" -> "failed"
    [] OTHER -> h
ResponseAfter(h) == IF h = "running" THEN "interrupted" ELSE response

\* The helper is known to the shell: a signal that came meanwhile is passed on.
Launched(a) ==
  /\ at[a].pc = "launching"
  /\ IF at[a].signal = "none"
     THEN Goes(a, "waiting") /\ UNCHANGED response
     ELSE /\ Moves(a, [at[a] EXCEPT !.pc = "waiting", !.signal = "none",
                                    !.helper = HelperAfter(@, at[a].signal)])
          /\ response' = ResponseAfter(at[a].helper)
  /\ UNCHANGED <<daemonVars, journal, result, capture, inputs, mishaps, mode>>

-----------------------------------------------------------------------------
(* The helper *)

\* The helper starts the client; the daemon has the request and may be late with it.
HelperStarts(a) ==
  /\ at[a].helper = "early"
  /\ Moves(a, [at[a] EXCEPT !.helper = "running"])
  /\ capture' = a
  /\ creating' = creating \cup {[resource |-> r, lag |-> MaxLag] : r \in CreatedBy(a)}
  /\ UNCHANGED <<resources, journal, result, response, inputs, mishaps, mode>>

\* Outcomes after which the container has come to its end, and those after which the client was
\* killed and nobody knows.
Ended == {"oracle", "no_oracle", "limit", "untrusted"}
Killed == {"timeout", "size"}

\* The client is over; the output is trusted if its files are still the ones this helper opened.
HelperEnds(a, k) ==
  /\ at[a].helper = "running"
  /\ k \in Ended => Pending(a) = {}
  /\ resources' = IF k \in Ended
                  THEN {IF r.token = a THEN [r EXCEPT !.idle = TRUE] ELSE r : r \in resources}
                  ELSE resources
  /\ Moves(a, [at[a] EXCEPT !.helper = "writing",
                            !.hold = IF k # "size" /\ capture # a THEN "untrusted" ELSE k])
  /\ UNCHANGED <<creating, journal, result, response, capture, inputs, mishaps, mode>>

HelperWrites(a) ==
  /\ at[a].helper = "writing"
  /\ response' = at[a].hold
  /\ Moves(a, [at[a] EXCEPT !.helper = IF at[a].hold = "size" THEN "failed" ELSE "over",
                            !.hold = None])
  /\ UNCHANGED <<daemonVars, journal, result, capture, inputs, mishaps, mode>>

Waited(a) ==
  /\ at[a].pc = "waiting"
  /\ at[a].helper \in {"over", "failed", "died"}
  /\ Goes(a, "read")
  /\ UNCHANGED <<daemonVars, journal, result, response, capture, inputs, mishaps, mode>>

\* The response is the file of the case, whoever wrote it.
StatusOf(h, r) ==
  CASE h # "over" /\ r = "size"        -> "failed_resource_limit"
    [] h # "over" /\ r # "size"        -> "rejected_unsafe_sandbox"
    [] h = "over" /\ r \in {"untrusted", "interrupted", "size", None} -> "rejected_unsafe_sandbox"
    [] h = "over" /\ r = "timeout"     -> "failed_timeout"
    [] h = "over" /\ r = "limit"       -> "failed_resource_limit"
    [] h = "over" /\ r = "oracle"      -> "confirmed_in_docker"
    [] h = "over" /\ r = "no_oracle"   -> "rejected_not_reproducible"

ReadResponse(a) ==
  /\ at[a].pc = "read" /\ inputs[a] # "drifted"
  /\ LET s == StatusOf(at[a].helper, response)
     IN Moves(a, WithCleanup([at[a] EXCEPT !.status = s, !.unsafe = s = "rejected_unsafe_sandbox"],
                             "publish"))
  /\ UNCHANGED <<daemonVars, journal, result, response, capture, inputs, mishaps, mode>>

\* verify_pinned_compose_or_abort: files that are not what was pinned end the attempt.
AbortOnDrift(a) ==
  /\ at[a].pc \in {"docker", "verify", "read"}
  /\ inputs[a] = "drifted"
  /\ Moves(a, WithCleanup(at[a], "aborted"))
  /\ UNCHANGED <<daemonVars, journal, result, response, capture, inputs, mishaps, mode>>

Aborted(a) ==
  /\ at[a].pc = "aborted"
  /\ IF at[a].verified
     THEN Goes(a, "exit")
     ELSE Moves(a, WithCleanup([at[a] EXCEPT !.status = "rejected_unsafe_sandbox"], "publish"))
  /\ UNCHANGED <<daemonVars, journal, result, response, capture, inputs, mishaps, mode>>
-----------------------------------------------------------------------------
(* The cleanup: docker_case_lifecycle.py cleanup *)

\* A request accepted earlier can hide from a scan only so often.
ScanTakesTime(a) ==
  /\ \A c \in Pending(a) : c.lag > 0
  /\ creating' = (creating \ Pending(a)) \cup {[c EXCEPT !.lag = @ - 1] : c \in Pending(a)}
  /\ UNCHANGED resources

\* A listing or an inspection may fail; what it was of is not seen then, the rest is.
Scans(a, ok, found) ==
  /\ ScanTakesTime(a)
  /\ \/ ok /\ found = Identities(OwnedByCase(a)) /\ UNCHANGED mishaps
     \/ ~ok /\ Mishap

Verdict(s, v) == [s EXCEPT !.verified = v, !.pc = s.after, !.found = {}]
\* Mutant of NextRound: running out of rounds counts as success.
NextRoundGivingUp(s, found) ==
  IF s.round < Rounds THEN [s EXCEPT !.round = @ + 1, !.stable = 0, !.pc = "remove", !.found = found]
  ELSE Verdict(s, TRUE)
NextRound(s, found) ==
  IF s.round < Rounds THEN [s EXCEPT !.round = @ + 1, !.stable = 0, !.pc = "remove", !.found = found]
  ELSE Verdict(s, FALSE)

\* The cleanup acts on the receipt alone and refuses one that is not what was written.
RefuseReceipt(a) ==
  /\ at[a].pc = "before" /\ inputs[a] = "receipt"
  /\ Moves(a, Verdict(at[a], FALSE))
  /\ UNCHANGED <<daemonVars, journal, result, response, capture, inputs, mishaps, mode>>

ScanBefore(a) ==
  /\ at[a].pc = "before" /\ inputs[a] # "receipt"
  /\ \E ok \in BOOLEAN, found \in SUBSET Identities(OwnedByCase(a)) :
       /\ Scans(a, ok, found)
       /\ Moves(a, [at[a] EXCEPT !.pc = "remove", !.failed = ~ok, !.found = found])
  /\ UNCHANGED <<journal, result, response, capture, inputs, mode>>

\* Everything found is removed, containers first; one removal may fail, and a volume stays while
\* a container of its project does.
Remove(a) ==
  /\ at[a].pc = "remove"
  /\ \E kept \in {{}} \cup {{id} : id \in at[a].found} :
       LET gone == at[a].found \ kept
           used == {r.id : r \in {v \in resources : /\ v.kind = "volume"
                                                   /\ \E c \in resources : /\ c.kind = "container"
                                                                           /\ c.project = v.project
                                                                           /\ c.id \notin gone}}
       IN /\ IF kept = {} THEN UNCHANGED mishaps ELSE Mishap
          /\ resources' = {r \in resources : r.id \notin gone \ used}
          /\ Moves(a, [at[a] EXCEPT !.pc = "scan",
                                    !.failed = @ \/ kept # {} \/ gone \cap used # {}])
  /\ UNCHANGED <<creating, journal, result, response, capture, inputs, mode>>

\* A clean scan has to be followed by others before the cleanup counts as settled.
ScanAfter(a) ==
  /\ at[a].pc \in {"scan", "stable"}
  /\ \E ok \in BOOLEAN, found \in SUBSET Identities(OwnedByCase(a)) :
       /\ Scans(a, ok, found)
       /\ Moves(a, IF ~ok \/ found # {} THEN NextRound(at[a], found)
                   ELSE IF at[a].stable + 1 >= StableScans THEN Verdict(at[a], ~at[a].failed)
                   ELSE [at[a] EXCEPT !.pc = "stable", !.stable = @ + 1])
  /\ UNCHANGED <<journal, result, response, capture, inputs, mode>>

-----------------------------------------------------------------------------
(* The outcome *)

\* Mutant of StatusAfter: a cleanup that failed does not change the status.
StatusWhateverCleanup(a) == at[a].status
StatusAfter(a) == IF at[a].verified THEN at[a].status ELSE "rejected_unsafe_sandbox"

\* The first version of the result says that the event is still to come.  A result that cannot
\* be published, or evidence that cannot be trusted, ends the attempt without an event.
Publish(a) ==
  /\ at[a].pc = "publish"
  /\ LET s == StatusAfter(a)
         told == [at[a] EXCEPT !.status = s, !.reported = @ \/ ~at[a].verified]
     IN \/ /\ at[a].unsafe
           /\ result' = Document(a, s, "blocked_authority_event_commit")
           /\ Moves(a, [told EXCEPT !.pc = "exit"])
           /\ UNCHANGED mishaps
        \/ /\ ~at[a].unsafe
           /\ result' = Document(a, s, "authority_event_pending")
           /\ Moves(a, [told EXCEPT !.pc = "event"])
           /\ UNCHANGED mishaps
        \/ /\ Mishap
           /\ Moves(a, [told EXCEPT !.pc = "exit"])
           /\ UNCHANGED result
  /\ UNCHANGED <<daemonVars, journal, response, capture, inputs, mode>>

EventOf(s) == IF s = "confirmed_in_docker" THEN "completed"
              ELSE IF s = "rejected_not_reproducible" THEN "rejected" ELSE "blocked"

RecordOutcome(a) ==
  /\ at[a].pc = "event"
  /\ LET ev == EventOf(at[a].status)
     IN \/ /\ Commits(a, ev, "running", IF ev = "blocked" THEN "blocked" ELSE "running")
           /\ Moves(a, [at[a] EXCEPT !.recorded = TRUE, !.rev = @ + 1,
                                     !.pc = IF ev = "blocked" THEN "log" ELSE "final"])
        \/ CommitFails(a, "running") /\ Goes(a, "final")
  /\ UNCHANGED <<daemonVars, result, response, capture, inputs, mode>>

\* A blocked case is also written to audit-log.md; a failure there ends the wrapper.
AppendLog(a) ==
  /\ at[a].pc = "log"
  /\ \/ Goes(a, "final") /\ UNCHANGED mishaps
     \/ Goes(a, "exit") /\ Mishap
  /\ UNCHANGED <<daemonVars, journal, result, response, capture, inputs, mode>>

\* Mutant of FinalStatus: the writer's answer is not looked at.
FinalStatusUnseen(a) == "completed"
FinalStatus(a) == IF at[a].recorded THEN "completed" ELSE "blocked_authority_event_commit"

PublishFinal(a) ==
  /\ at[a].pc = "final"
  /\ \/ /\ result' = Document(a, at[a].status, FinalStatus(a))
        /\ UNCHANGED mishaps
     \/ Mishap /\ UNCHANGED result
  /\ Goes(a, "exit")
  /\ UNCHANGED <<daemonVars, journal, response, capture, inputs, mode>>

\* The EXIT trap: whatever ended the wrapper, a container that may be left is cleaned up, and a
\* cleanup that fails is said.
Exit(a) ==
  /\ at[a].pc = "exit"
  /\ Moves(a, WithCleanup(at[a], "end"))
  /\ UNCHANGED <<daemonVars, journal, result, response, capture, inputs, mishaps, mode>>

End(a) ==
  /\ at[a].pc = "end"
  /\ Moves(a, [Fresh EXCEPT !.pc = "done", !.helper = at[a].helper, !.hold = at[a].hold,
                            !.reported = at[a].reported \/ (at[a].exists /\ ~at[a].verified)])
  /\ UNCHANGED <<daemonVars, journal, result, response, capture, inputs, mishaps, mode>>

-----------------------------------------------------------------------------
(* What may happen to an attempt *)

CleansUp(s) == s.pc \in {"before", "remove", "scan", "stable"}
\* Without the wrapper the helper goes on.
Dead(s) == [Fresh EXCEPT !.pc = "killed", !.helper = s.helper, !.hold = s.hold]

\* While the helper is being launched a signal is only noted, the last one counts; while it runs
\* it is passed on and the helper awaited; elsewhere the handler cleans up and leaves.  bash runs
\* the handler once the command at work has ended: a cleanup runs to its verdict, or ends at once
\* when the signal was for it too, and the wrapper has not read that verdict when its handler
\* cleans up anew.  The EXIT trap has taken the handlers back, and the wrapper dies in it.
Signal(a, s) ==
  /\ Mishap
  /\ \/ /\ at[a].pc = "launching"
        /\ Moves(a, [at[a] EXCEPT !.signal = s])
        /\ UNCHANGED response
     \/ /\ at[a].pc \in {"waiting", "signalled"}
        /\ Moves(a, [at[a] EXCEPT !.pc = "signalled", !.helper = HelperAfter(@, s)])
        /\ response' = ResponseAfter(at[a].helper)
     \/ /\ at[a].pc \in {"authority", "docker", "resume", "verify", "start", "read", "aborted",
                         "publish", "event", "log", "final", "exit"}
        /\ Moves(a, WithCleanup(at[a], "exit"))
        /\ UNCHANGED response
     \/ /\ CleansUp(at[a]) /\ at[a].after # "end"
        /\ Moves(a, [at[a] EXCEPT !.after = "handler"]) \/ Goes(a, "handler")
        /\ UNCHANGED response
     \/ /\ at[a].pc = "end" \/ (CleansUp(at[a]) /\ at[a].after = "end")
        /\ Moves(a, Dead(at[a]))
        /\ UNCHANGED response
  /\ UNCHANGED <<daemonVars, journal, result, capture, inputs, mode>>

SignalHandled(a) ==
  /\ \/ /\ at[a].pc = "signalled"
        /\ at[a].helper \in {"over", "failed", "died"}
        /\ Moves(a, WithCleanup(at[a], "exit"))
     \/ /\ at[a].pc = "handler"
        /\ Moves(a, WithCleanup([at[a] EXCEPT !.verified = FALSE], "exit"))
  /\ UNCHANGED <<daemonVars, journal, result, response, capture, inputs, mishaps, mode>>

\* A kill that no handler sees.
Kill(a) ==
  /\ Mishap
  /\ at[a].pc \notin {"idle", "done", "killed"}
  /\ Moves(a, Dead(at[a]))
  /\ UNCHANGED <<daemonVars, journal, result, response, capture, inputs, mode>>

\* Somebody edits a file of an attempt that is under way.
Drift(a, what) ==
  /\ Mishap
  /\ mode[a] = "docker-compose" \/ what = "receipt"
  /\ inputs[a] = "pinned" /\ at[a].pc \notin {"idle", "done", "killed"}
  /\ inputs' = [inputs EXCEPT ![a] = what]
  /\ UNCHANGED <<daemonVars, at, journal, result, response, capture, mode>>

\* Another command records an event of its own.
OtherEvent(s) ==
  /\ Mishap
  /\ journal' = Append(journal, Event("other", Nobody, s))
  /\ UNCHANGED <<daemonVars, at, result, response, capture, inputs, mode>>

Attempt(a) ==
  \/ \E p \in Requested : Call(a, p)
  \/ ReadAuthority(a) \/ (\E c \in Changes : CheckDocker(a, c)) \/ Resume(a) \/ VerifyPinned(a) \/ Start(a)
  \/ Launched(a) \/ Waited(a) \/ ReadResponse(a) \/ AbortOnDrift(a) \/ Aborted(a)
  \/ RefuseReceipt(a) \/ ScanBefore(a) \/ Remove(a) \/ ScanAfter(a)
  \/ Publish(a) \/ RecordOutcome(a) \/ AppendLog(a) \/ PublishFinal(a) \/ Exit(a) \/ End(a)
  \/ SignalHandled(a)
Helper(a) == HelperStarts(a) \/ HelperWrites(a) \/ \E k \in Ended \cup Killed : HelperEnds(a, k)
Trouble(a) ==
  \/ \E s \in {"INT", "TERM"} : Signal(a, s)
  \/ Kill(a)
  \/ \E what \in {"drifted", "receipt"} : Drift(a, what)

CasesStep ==
  \/ \E a \in Attempts : Attempt(a) \/ Helper(a) \/ Trouble(a)
  \/ \E s \in Others : OtherEvent(s)
  \/ DaemonStep /\ UNCHANGED caseVars

Init == DaemonInit /\ CasesInit
Spec == Init /\ [][CasesStep]_vars

-----------------------------------------------------------------------------
(* Properties *)

\* An attempt that came to its end, by itself or by a signal, and did not report that its cleanup
\* failed has left nothing: no container and no volume of its own exists, and no request to
\* create one is still with the daemon (run_verification_case.sh:590, the three consecutive
\* clean scans of docker_case_lifecycle.py:589).  A wrapper that is killed, or gets its signal
\* in the EXIT trap, which has no handlers any more, comes to no such end.
NothingLeftUnreported ==
  \A a \in Attempts :
    at[a].pc = "done" /\ ~at[a].reported => OwnedByCase(a) = {} /\ Pending(a) = {}

\* A confirmation enters the journal only when nothing of its attempt is left and no request to
\* create something is still with the daemon (docs/RELEASE_CHECKLIST.md:111, classify_and_exit).
ConfirmedAfterCleanup ==
  [][\A a \in Attempts :
       journal' = Append(journal, Event("completed", a, "running"))
         => OwnedByCase(a) = {} /\ Pending(a) = {}]_vars

\* A result file that calls its attempt completed names an outcome the journal holds, whenever
\* the wrapper was killed, signalled or overtaken by another attempt at the case.
CompletedIsRecorded ==
  result # None /\ result.wrapper = "completed" =>
    \E i \in DOMAIN journal :
      journal[i].by = result.by /\ journal[i].event = EventOf(result.status)
=============================================================================
