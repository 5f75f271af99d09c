---------------------------- MODULE DockerDaemon ----------------------------
(***************************************************************************)
(* What the Docker daemon holds, as the commands of the workspace see it:  *)
(* resources with the labels that tell whose they are, and requests to     *)
(* create one that the daemon has accepted and not carried out yet.  The   *)
(* daemon itself is not part of the repository; it is modelled from the    *)
(* commands docker_case_lifecycle.py and manage_docker_resources.py issue. *)
(***************************************************************************)
EXTENDS Integers, FiniteSets

CONSTANTS
  Attempts,   \* calls of run_verification_case.sh; a call is its own token
  Nobody,     \* no attempt
  Present,    \* what is there from the beginning
  MaxLag      \* scans a request to create may outlast

VARIABLES
  resources,  \* what exists
  creating    \* accepted requests, with the scans each may still outlast

daemonVars == <<resources, creating>>

Kinds == {"container", "network", "volume", "image", "cache"}

\* `token` is the label org.zhulong.case, `project` the label of a Compose project, `ws` says
\* that the workspace's own label is there; `idle` is "not running" or, for a cache, reclaimable.
Resource(Ids) ==
  [id: Ids, kind: Kinds, token: Attempts \cup {Nobody}, project: Attempts \cup {Nobody},
   ws: BOOLEAN, idle: BOOLEAN]

Identities(rs) == {r.id : r \in rs}

\* The token of an attempt, and the project made from it, are drawn for its call
\* (docker_case_lifecycle.py:330), so nothing that was there before bears them.
ASSUME DaemonAssumption ==
  /\ Nobody \notin Attempts
  /\ Present \subseteq Resource(Identities(Present))
  /\ \A r \in Present : r.token = Nobody /\ r.project = Nobody
  /\ MaxLag \in Nat

DaemonInit ==
  /\ resources = Present
  /\ creating = {}

\* The daemon carries out a request it has accepted.
Materialize(c) ==
  /\ c \in creating
  /\ creating' = creating \ {c}
  /\ resources' = resources \cup {c.resource}

\* A container comes to its end by itself.
Stop(r) ==
  /\ r \in resources /\ r.kind = "container" /\ ~r.idle
  /\ resources' = (resources \ {r}) \cup {[r EXCEPT !.idle = TRUE]}
  /\ UNCHANGED creating

DaemonStep ==
  \/ \E c \in creating : Materialize(c)
  \/ \E r \in resources : Stop(r)
=============================================================================
