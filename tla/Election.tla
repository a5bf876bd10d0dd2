------------------------------- MODULE Election -------------------------------
(***************************************************************************)
(* The heartbeat and auto-failover monitor that every sidecar runs         *)
(* (crates/pgvisor-sidecar/src/election.rs), with the supervisor and       *)
(* control-API operations it drives: promote, fence, resync_from_primary   *)
(* and the repoint request it broadcasts to its peers.                     *)
(*                                                                         *)
(* A monitor is a loop.  pc[n] says where in the loop the monitor of n is; *)
(* every HTTP request, child command and lock release of the loop is a     *)
(* step of its own, so what the loop read before it may be stale after it. *)
(*                                                                         *)
(* Faults: a container dies and is restarted, the PostgreSQL child dies, a *)
(* request times out although its receiver lives.  Each kind is bounded.   *)
(***************************************************************************)
EXTENDS Sidecar

CONSTANTS
  MissLimit,       \* consecutive rounds without a leader before an election
  MaxLosses,       \* bound on requests that are lost
  MaxCrashes,      \* bound on container deaths
  MaxPgCrashes,    \* bound on deaths of the PostgreSQL child alone
  MaxRestarts      \* bound on container restarts

ASSUME ElectionAssumption ==
  /\ MissLimit \in Nat \ {0}
  /\ MaxLosses \in Nat
  /\ MaxCrashes \in Nat
  /\ MaxPgCrashes \in Nat
  /\ MaxRestarts \in Nat

VARIABLES
  pc,        \* place of each monitor in its loop
  todo,      \* peers the current loop over the peers has still to visit
  alive,     \* alive_nodes of the round
  target,    \* the leader the round found
  missed,    \* missed_heartbeats
  repoint,   \* conninfo of a repoint request whose handler has not finished
  faults     \* how many faults of each kind have happened

monitorVars == <<pc, todo, alive, target, missed>>
vars == <<sidecarVars, monitorVars, repoint, faults>>

Place == {"tick", "fencedProbe", "leaderProbe", "standbyProbe", "decide",
          "promote", "elected", "broadcast", "fence", "fencing",
          "rejoin", "resync", "basebackup", "rejoined"}

Fault == {"crash", "pgCrash", "restart", "loss"}

TypeOK ==
  /\ SidecarTypeOK
  /\ pc \in [Node -> Place]
  /\ todo \in [Node -> SUBSET Node]
  /\ alive \in [Node -> SUBSET Node]
  /\ target \in [Node -> Node \cup {NoNode}]
  /\ missed \in [Node -> 0..MissLimit]
  /\ repoint \in [Node -> Node \cup {NoNode}]
  /\ faults \in [Fault -> Nat]

(* The peers whose URL contains "node<n>": n itself, and the nodes whose   *)
(* decimal id has the digits of n as a prefix.                             *)
SelfTag(n) == {p \in Node : p = n \/ p \div 10 = n \/ p \div 100 = n}

(* p is the lowest node of S.  PGVISOR_PEERS lists the nodes in the order  *)
(* of their ids, so it is also the one a loop over the peers visits first. *)
IsFirst(p, S) == p \in S /\ \A q \in S : p <= q

Quorum == Cardinality(Node) \div 2 + 1

Init ==
  /\ SidecarInit
  /\ pc = [n \in Node |-> "tick"]
  /\ todo = [n \in Node |-> {}]
  /\ alive = [n \in Node |-> {}]
  /\ target = [n \in Node |-> NoNode]
  /\ missed = [n \in Node |-> 0]
  /\ repoint = [n \in Node |-> NoNode]
  /\ faults = [f \in Fault |-> 0]

At(n, place) == up[n] /\ pc[n] = place
Goto(n, place) == pc' = [pc EXCEPT ![n] = place]

(* The variables of a round are local to one pass of the loop.             *)
ForgetRound(n) ==
  /\ todo' = [todo EXCEPT ![n] = {}]
  /\ alive' = [alive EXCEPT ![n] = {}]
  /\ target' = [target EXCEPT ![n] = NoNode]

-----------------------------------------------------------------------------
(* The top of the loop: the local status and role choose what the round    *)
(* does.  Between two rounds only the control API leaves a node in one of  *)
(* the states that pause its monitor; ControlApi has the paused round.     *)
Paused(n) == \/ status[n] = "restoring"
             \/ status[n] = "stopped" /\ role[n] # "fenced"

StartRound(n, place, peers) ==
  /\ Goto(n, place)
  /\ todo' = [todo EXCEPT ![n] = peers]
  /\ UNCHANGED <<sidecarVars, missed, repoint, faults>>

TickFenced(n) ==
  /\ At(n, "tick") /\ ~Paused(n) /\ role[n] = "fenced"
  /\ StartRound(n, IF SelfTag(n) = Node THEN "tick" ELSE "fencedProbe",
                Node \ SelfTag(n))
  /\ UNCHANGED <<alive, target>>

TickLeader(n) ==
  /\ At(n, "tick") /\ ~Paused(n) /\ role[n] = "leader"
  /\ StartRound(n, IF SelfTag(n) = Node THEN "tick" ELSE "leaderProbe",
                Node \ SelfTag(n))
  /\ UNCHANGED <<alive, target>>

TickStandby(n) ==
  /\ At(n, "tick") /\ ~Paused(n) /\ role[n] = "standby"
  /\ StartRound(n, "standbyProbe", Node)
  /\ alive' = [alive EXCEPT ![n] = {n}]
  /\ target' = [target EXCEPT ![n] = NoNode]

Count(f) == faults' = [faults EXCEPT ![f] = @ + 1]

(* One request of a loop over the peers.  It is answered when the peer is  *)
(* up, unless it is lost.                                                  *)
Lose == faults["loss"] < MaxLosses /\ Count("loss")

Request(n, p, answered) ==
  /\ IsFirst(p, todo[n])
  /\ answered => up[p]
  /\ IF up[p] /\ ~answered THEN Lose ELSE UNCHANGED faults

(* The loops of a fenced node and of a leader stop at the first peer that  *)
(* is an active leader.                                                    *)
ProbeForLeader(n, place, found) ==
  \E p \in Node, answered \in BOOLEAN :
    /\ At(n, place)
    /\ Request(n, p, answered)
    /\ IF answered /\ ActiveLeader(p)
         THEN /\ Goto(n, found)
              /\ target' = [target EXCEPT ![n] = p]
              /\ todo' = [todo EXCEPT ![n] = {}]
         ELSE /\ Goto(n, IF todo[n] = {p} THEN "tick" ELSE place)
              /\ todo' = [todo EXCEPT ![n] = @ \ {p}]
              /\ UNCHANGED target
    /\ UNCHANGED <<sidecarVars, alive, missed, repoint>>

FencedProbe(n) == ProbeForLeader(n, "fencedProbe", "rejoin")
(* Mutant of LeaderProbe: a leader only reports the other leader it saw.   *)
LeaderProbeOnlyWarns(n) == ProbeForLeader(n, "leaderProbe", "tick")

LeaderProbe(n) == ProbeForLeader(n, "leaderProbe", "fence")

(* A standby asks every peer, itself included.                             *)
StandbyProbe(n) ==
  \E p \in Node, answered \in BOOLEAN :
    /\ At(n, "standbyProbe")
    /\ Request(n, p, answered)
    /\ Goto(n, IF todo[n] = {p} THEN "decide" ELSE "standbyProbe")
    /\ todo' = [todo EXCEPT ![n] = @ \ {p}]
    /\ alive' = IF answered /\ Alive(p) THEN [alive EXCEPT ![n] = @ \cup {p}]
                                        ELSE alive
    /\ target' = IF answered /\ Alive(p) /\ role[p] = "leader"
                   THEN [target EXCEPT ![n] = p]
                   ELSE target
    /\ UNCHANGED <<sidecarVars, missed, repoint>>

-----------------------------------------------------------------------------
(* The decision of a standby after a round: wait for the next round, or    *)
(* promote itself.  missed_heartbeats is capped at MissLimit, beyond which *)
(* the code does not tell its values apart.                                *)
CountMiss(n) == IF missed[n] < MissLimit THEN missed[n] + 1 ELSE MissLimit

(* Mutant of Wins: a quorum must be exceeded.                              *)
WinsAboveQuorum(n) ==
  /\ CountMiss(n) >= MissLimit
  /\ Cardinality(alive[n]) > Quorum
  /\ IsFirst(n, alive[n])

Wins(n) ==
  /\ CountMiss(n) >= MissLimit
  /\ Cardinality(alive[n]) >= Quorum
  /\ IsFirst(n, alive[n])

Decide(n) ==
  /\ At(n, "decide")
  /\ IF target[n] # NoNode
       THEN missed' = [missed EXCEPT ![n] = 0] /\ Goto(n, "tick")
       ELSE /\ missed' = [missed EXCEPT ![n] = CountMiss(n)]
            /\ Goto(n, IF Wins(n) THEN "promote" ELSE "tick")
  /\ ForgetRound(n)
  /\ UNCHANGED <<sidecarVars, repoint, faults>>

(* supervisor.promote: pg_ctl promote turns a replica into a primary, and  *)
(* is content with a server that is a primary already.                     *)
Promote(n) ==
  /\ At(n, "promote")
  /\ pg[n] # "down"
  /\ pg' = [pg EXCEPT ![n] = "primary"]
  /\ Goto(n, "elected")
  /\ UNCHANGED <<up, role, status, data, conninfo, todo, alive, target, missed,
                 repoint, faults>>

(* It fails when there is no server, and may fail for a reason of its own. *)
PromoteFails(n) ==
  /\ At(n, "promote")
  /\ Goto(n, "tick")
  /\ UNCHANGED <<sidecarVars, todo, alive, target, missed, repoint, faults>>

(* Mutants of BecomeLeader: the role is not updated; the peers are not     *)
(* told.                                                                   *)
BecomeLeaderAs(n, newRole, place) ==
  /\ At(n, "elected")
  /\ role' = [role EXCEPT ![n] = newRole]
  /\ conninfo' = [conninfo EXCEPT ![n] = NoNode]
  /\ missed' = [missed EXCEPT ![n] = 0]
  /\ todo' = [todo EXCEPT ![n] = IF place = "tick" THEN {} ELSE Node \ {n}]
  /\ Goto(n, place)
  /\ UNCHANGED <<up, status, pg, data, alive, target, repoint, faults>>

BecomeLeaderSilently(n) == BecomeLeaderAs(n, "leader", "tick")

BecomeLeader(n) ==
  /\ At(n, "elected")
  /\ role' = [role EXCEPT ![n] = "leader"]
  /\ conninfo' = [conninfo EXCEPT ![n] = NoNode]
  /\ missed' = [missed EXCEPT ![n] = 0]
  /\ todo' = [todo EXCEPT ![n] = Node \ {n}]
  /\ Goto(n, IF Node = {n} THEN "tick" ELSE "broadcast")
  /\ UNCHANGED <<up, status, pg, data, alive, target, repoint, faults>>

(* The new leader asks one peer after the other to replicate from it.  The *)
(* first half of the peer's handle_repoint reads its role and status, and  *)
(* ignores the request on an active leader.  The reply is not looked at.   *)
NextTarget(n, p) ==
  /\ todo' = [todo EXCEPT ![n] = @ \ {p}]
  /\ Goto(n, IF todo[n] = {p} THEN "tick" ELSE "broadcast")


Broadcast(n) ==
  \E p \in Node, answered \in BOOLEAN :
    /\ At(n, "broadcast")
    /\ Request(n, p, answered)
    /\ repoint[p] = NoNode
    /\ IF answered /\ ~ActiveLeader(p)
         THEN /\ repoint' = [repoint EXCEPT ![p] = n]
              /\ UNCHANGED <<pc, todo>>
         ELSE /\ NextTarget(n, p)
              /\ UNCHANGED repoint
    /\ UNCHANGED <<sidecarVars, alive, target, missed>>

(* The second half of handle_repoint: the supervisor writes the conninfo   *)
(* and reloads the server, which leaves the mode of a running server as it *)
(* is; then the role and the configuration are set, and the sender, which  *)
(* has waited for the reply, goes on.                                      *)
FinishRepoint(p) ==
  \E m \in Node :
    /\ up[p] /\ repoint[p] = m
    /\ role' = [role EXCEPT ![p] = "standby"]
    /\ conninfo' = [conninfo EXCEPT ![p] = m]
    /\ repoint' = [repoint EXCEPT ![p] = NoNode]
    /\ NextTarget(m, p)
    /\ UNCHANGED <<up, status, pg, data, alive, target, missed, faults>>

(* The sender gives up after its timeout; the handler is dropped with the  *)
(* connection before it has set the role.                                  *)
BroadcastTimeout(n) ==
  \E p \in Node :
    /\ repoint[p] = n
    /\ Lose
    /\ repoint' = [repoint EXCEPT ![p] = NoNode]
    /\ NextTarget(n, p)
    /\ UNCHANGED <<sidecarVars, alive, target, missed>>

-----------------------------------------------------------------------------
(* supervisor.fence, called by a leader that saw another active leader: it *)
(* announces the fenced status, stops the server immediately, and then the *)
(* monitor sets the role.                                                  *)
AnnounceFence(n) ==
  /\ At(n, "fence")
  /\ status' = [status EXCEPT ![n] = "fenced"]
  /\ Goto(n, "fencing")
  /\ UNCHANGED <<up, role, pg, data, conninfo, todo, alive, target, missed,
                 repoint, faults>>

(* Mutant of StopFenced: the server is not stopped.                        *)
StopFencedKeepsServer(n) ==
  /\ At(n, "fencing")
  /\ role' = [role EXCEPT ![n] = "fenced"]
  /\ Goto(n, "tick")
  /\ ForgetRound(n)
  /\ UNCHANGED <<up, status, pg, data, conninfo, missed, repoint, faults>>

StopFenced(n) ==
  /\ At(n, "fencing")
  /\ pg' = [pg EXCEPT ![n] = "down"]
  /\ role' = [role EXCEPT ![n] = "fenced"]
  /\ Goto(n, "tick")
  /\ ForgetRound(n)
  /\ UNCHANGED <<up, status, data, conninfo, missed, repoint, faults>>

(* supervisor.resync_from_primary, called by a fenced node that found an   *)
(* active leader: stop, wait for the leader, wipe the data directory,      *)
(* clone it with pg_basebackup, start as a replica.                        *)
Reachable(m) == up[m] /\ pg[m] # "down"

Rejoin(n) ==
  /\ At(n, "rejoin")
  /\ status' = [status EXCEPT ![n] = "restoring"]
  /\ pg' = [pg EXCEPT ![n] = "down"]
  /\ Goto(n, "resync")
  /\ UNCHANGED <<up, role, data, conninfo, todo, alive, target, missed,
                 repoint, faults>>

WipeDataDir(n) ==
  /\ At(n, "resync")
  /\ Reachable(target[n])
  /\ data' = [data EXCEPT ![n] = "none"]
  /\ Goto(n, "basebackup")
  /\ UNCHANGED <<up, role, status, pg, conninfo, todo, alive, target, missed,
                 repoint, faults>>

(* pg_basebackup succeeds and the server starts; if it is not ready in     *)
(* time, or exits, it is left as it is under a fenced status.              *)
Clone(n, st, server, place) ==
  /\ At(n, "basebackup")
  /\ Reachable(target[n])
  /\ data' = [data EXCEPT ![n] = data[target[n]]]
  /\ pg' = [pg EXCEPT ![n] = server]
  /\ status' = [status EXCEPT ![n] = st]
  /\ Goto(n, place)
  /\ IF place = "tick" THEN ForgetRound(n) ELSE UNCHANGED <<todo, alive, target>>
  /\ UNCHANGED <<up, role, conninfo, missed, repoint, faults>>

CloneAndStart(n) == Clone(n, "running", "replica", "rejoined")
CloneNotReady(n) == \E server \in {"replica", "down"} : Clone(n, "fenced", server, "tick")

(* The primary does not become ready, or pg_basebackup fails.              *)
ResyncFails(n) ==
  /\ At(n, "resync") \/ At(n, "basebackup")
  /\ IF Reachable(target[n]) THEN Lose ELSE UNCHANGED faults
  /\ status' = [status EXCEPT ![n] = "fenced"]
  /\ Goto(n, "tick")
  /\ ForgetRound(n)
  /\ UNCHANGED <<up, role, pg, data, conninfo, missed, repoint>>

FinishRejoin(n) ==
  /\ At(n, "rejoined")
  /\ role' = [role EXCEPT ![n] = "standby"]
  /\ conninfo' = [conninfo EXCEPT ![n] = target[n]]
  /\ missed' = [missed EXCEPT ![n] = 0]
  /\ Goto(n, "tick")
  /\ ForgetRound(n)
  /\ UNCHANGED <<up, status, pg, data, repoint, faults>>

-----------------------------------------------------------------------------
(* Faults.  A sidecar that dies loses the place of its monitor and the     *)
(* request it was handling, and its own requests are dropped with their    *)
(* connections; a sender that waited for it goes on.                       *)
ResetMonitor(n, waiting) ==
  /\ pc' = [m \in Node |->
              IF m = n \/ (m \in waiting /\ todo[m] = {n}) THEN "tick" ELSE pc[m]]
  /\ todo' = [m \in Node |->
                IF m = n THEN {} ELSE IF m \in waiting THEN todo[m] \ {n} ELSE todo[m]]
  /\ alive' = [alive EXCEPT ![n] = {}]
  /\ target' = [target EXCEPT ![n] = NoNode]
  /\ missed' = [missed EXCEPT ![n] = 0]
  /\ repoint' = [p \in Node |->
                   IF p = n \/ repoint[p] = n THEN NoNode ELSE repoint[p]]

Crash(n) ==
  /\ faults["crash"] < MaxCrashes
  /\ Kill(n)
  /\ ResetMonitor(n, {repoint[n]})
  /\ Count("crash")

PgCrash(n) ==
  /\ faults["pgCrash"] < MaxPgCrashes
  /\ KillPostgres(n)
  /\ Count("pgCrash")
  /\ UNCHANGED <<monitorVars, repoint>>

Restart(n) ==
  /\ faults["restart"] < MaxRestarts
  /\ Boot(n)
  /\ ResetMonitor(n, {})
  /\ Count("restart")

-----------------------------------------------------------------------------
(* The steps of the loop of n.                                             *)
Monitor(n) ==
  \/ TickFenced(n) \/ TickLeader(n) \/ TickStandby(n)
  \/ FencedProbe(n) \/ LeaderProbe(n) \/ StandbyProbe(n) \/ Decide(n)
  \/ Promote(n) \/ PromoteFails(n) \/ BecomeLeader(n) \/ Broadcast(n)
  \/ BroadcastTimeout(n)
  \/ AnnounceFence(n) \/ StopFenced(n)
  \/ Rejoin(n) \/ WipeDataDir(n) \/ CloneAndStart(n) \/ CloneNotReady(n)
  \/ ResyncFails(n) \/ FinishRejoin(n)

Next ==
  \/ \E n \in Node : Monitor(n) \/ FinishRepoint(n)
  \/ \E n \in Node : Crash(n) \/ PgCrash(n) \/ Restart(n)

Spec == Init /\ [][Next]_vars

(* A monitor that lives keeps looping, a handler finishes, and pg_ctl      *)
(* promote and pg_basebackup do not fail every time they are tried.  No    *)
(* fault is fair.                                                          *)
Fairness ==
  \A n \in Node :
    /\ WF_vars(Monitor(n))
    /\ WF_vars(FinishRepoint(n))
    /\ SF_vars(Promote(n))
    /\ SF_vars(CloneAndStart(n))

FairSpec == Spec /\ Fairness

-----------------------------------------------------------------------------
(* Writable(n): clients that reach n can write.                            *)
Writable(n) == up[n] /\ pg[n] = "primary"

(* Two servers never accept writes at the same time: the promotion of a    *)
(* standby (Decide, Promote) excludes every other primary.                 *)
AtMostOnePrimary == \A m, n \in Node : Writable(m) /\ Writable(n) => m = n

(* A node that calls itself fenced accepts no writes: supervisor.fence has *)
(* stopped the server and only resync_from_primary starts one again, as a  *)
(* replica.                                                                *)
FencedNeverWritable == \A n \in Node : role[n] = "fenced" => ~Writable(n)



(* A server that accepts writes holds the database of the cluster, never   *)
(* an empty one made by initdb in place of a wiped data directory.         *)
WritableHasClusterData == \A n \in Node : Writable(n) => data[n] = "cluster"

(* After a failure the cluster gets back a leader that accepts writes.     *)
LeaderReturns ==
  []<>(\E n \in Node : Writable(n) /\ role[n] = "leader")

(* Every standby that lives ends up replicating from the leader that ends  *)
(* up ruling: the repoint broadcast reaches them.                          *)
StandbysFollow ==
  <>[](\A m, n \in Node :
         up[m] /\ up[n] /\ role[m] = "leader" /\ role[n] = "standby"
           => conninfo[n] = m)

(* However the failures left the roles, the split-brain guard of the       *)
(* leaders ends with at most one of them.                                  *)
SplitBrainResolves ==
  <>[](\A m, n \in Node :
         up[m] /\ up[n] /\ role[m] = "leader" /\ role[n] = "leader" => m = n)

(* A node that was fenced rejoins the cluster: it does not stay fenced.    *)
FencedRejoins ==
  \A n \in Node : status[n] = "fenced" ~> status[n] # "fenced"

=============================================================================
