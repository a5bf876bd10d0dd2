------------------------------- MODULE Sidecar -------------------------------
(***************************************************************************)
(* The state of the pgvisor sidecars, one per database node, and the       *)
(* operations of PostgresSupervisor on the PostgreSQL child process        *)
(* (crates/pgvisor-sidecar/src/supervisor.rs, main.rs, control/state.rs).  *)
(*                                                                         *)
(* Nodes are their numeric node ids.  A conninfo string is modelled by the *)
(* node it names.  The data directory is modelled by whose database it     *)
(* holds: the cluster's, none (wiped) or a fresh one made by initdb.       *)
(***************************************************************************)
EXTENDS Naturals, FiniteSets

CONSTANTS
  Node,       \* the node ids listed in PGVISOR_PEERS, every node included
  EnvLeader,  \* the node whose container has PGVISOR_ROLE = leader
  NoNode      \* absence of a node (None)

ASSUME NodeAssumption ==
  /\ Node \subseteq Nat \ {0}
  /\ IsFiniteSet(Node)
  /\ EnvLeader \in Node
  /\ NoNode \notin Node

VARIABLES
  up,        \* the sidecar process (container) runs
  role,      \* SidecarState.role
  status,    \* PostgresSupervisor.status
  pg,        \* what the PostgreSQL child process does
  data,      \* what the data directory holds
  conninfo   \* SidecarState.config.primary_conninfo

sidecarVars == <<up, role, status, pg, data, conninfo>>

Role == {"leader", "standby", "fenced"}
ProcessStatus == {"stopped", "running", "fenced", "restoring"}
Postgres == {"down", "primary", "replica"}
DataDir == {"cluster", "none", "fresh"}

SidecarTypeOK ==
  /\ up \in [Node -> BOOLEAN]
  /\ role \in [Node -> Role]
  /\ status \in [Node -> ProcessStatus]
  /\ pg \in [Node -> Postgres]
  /\ data \in [Node -> DataDir]
  /\ conninfo \in [Node -> Node \cup {NoNode}]

(* The environment of a container: the composes give the leader no         *)
(* PRIMARY_CONNINFO and point every other node at the leader.              *)
EnvRole(n) == IF n = EnvLeader THEN "leader" ELSE "standby"
EnvConninfo(n) == IF n = EnvLeader THEN NoNode ELSE EnvLeader

(* write_configs creates standby.signal exactly when the configuration has *)
(* a primary_conninfo, and the signal decides how postgres comes up.       *)
PostgresMode(c) == IF c = NoNode THEN "primary" ELSE "replica"

-----------------------------------------------------------------------------
(* What GET /control/status answers, as the peers use it.                  *)
Running(n) == status[n] = "running"
Alive(n) == status[n] \in {"running", "restoring"}
ActiveLeader(n) == role[n] = "leader" /\ Running(n)

SidecarInit ==
  /\ up = [n \in Node |-> TRUE]
  /\ role = [n \in Node |-> EnvRole(n)]
  /\ status = [n \in Node |-> "running"]
  /\ pg = [n \in Node |-> PostgresMode(EnvConninfo(n))]
  /\ data = [n \in Node |-> "cluster"]
  /\ conninfo = [n \in Node |-> EnvConninfo(n)]

(* The container dies; the child, its only other process, dies with it.    *)
(* The memory of the sidecar is lost: it is set to what main starts from.  *)
Kill(n) ==
  /\ up[n]
  /\ up' = [up EXCEPT ![n] = FALSE]
  /\ pg' = [pg EXCEPT ![n] = "down"]
  /\ role' = [role EXCEPT ![n] = EnvRole(n)]
  /\ status' = [status EXCEPT ![n] = "stopped"]
  /\ conninfo' = [conninfo EXCEPT ![n] = EnvConninfo(n)]
  /\ UNCHANGED data

(* The child dies under a living sidecar.  Nothing waits for the child, so *)
(* neither the status nor the role changes.                                *)
KillPostgres(n) ==
  /\ up[n]
  /\ pg[n] # "down"
  /\ pg' = [pg EXCEPT ![n] = "down"]
  /\ UNCHANGED <<up, role, status, data, conninfo>>

(* ensure_initialized: what the data directory holds once main has run it, *)
(* provided the primary it may have to clone from accepts connections.     *)
EnsureInitialized(n) ==
  IF data[n] # "none" THEN data[n]
  ELSE IF EnvConninfo(n) = NoNode THEN "fresh"
  ELSE data[EnvConninfo(n)]

CanInitialize(n) ==
  data[n] = "none" /\ EnvConninfo(n) # NoNode => pg[EnvConninfo(n)] # "down"

(* main: the role and the conninfo come from the environment, whatever     *)
(* they were before, and PostgreSQL is started with them.                  *)
Boot(n) ==
  /\ ~up[n]
  /\ CanInitialize(n)
  /\ up' = [up EXCEPT ![n] = TRUE]
  /\ role' = [role EXCEPT ![n] = EnvRole(n)]
  /\ data' = [data EXCEPT ![n] = EnsureInitialized(n)]
  /\ conninfo' = [conninfo EXCEPT ![n] = EnvConninfo(n)]
  /\ pg' = [pg EXCEPT ![n] = PostgresMode(EnvConninfo(n))]
  /\ status' = [status EXCEPT ![n] = "running"]

=============================================================================
