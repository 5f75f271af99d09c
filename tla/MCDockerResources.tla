-------------------------- MODULE MCDockerResources --------------------------
(* Attempts at one case, on a host with other resources. *)
EXTENDS DockerResources, TLC

Limits(memory, network) == [memory |-> memory, cpus |-> 10, pids |-> 256, network |-> network]
SomeRequests == {Limits(512, "none"), Limits(4096, "none"), Limits(512, "host")}

SomeChanges == {{}, {"environment"}, {"network_mode", "environment"}}

Other(id, kind, ws) ==
  [id |-> <<kind, id>>, kind |-> kind, token |-> Nobody, project |-> Nobody, ws |-> ws, idle |-> TRUE]
\* A container an earlier case of the workspace left.
FromTheStart == {Other("earlier", "container", TRUE)}

\* No property tells the processes of the resource manager apart.
SameManagers == Permutations(Managers)
=============================================================================
