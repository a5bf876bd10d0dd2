------------------------------ MODULE ControlApi ------------------------------
(***************************************************************************)
(* The handlers of the sidecar's control API that change the role or the   *)
(* server (crates/pgvisor-sidecar/src/control/handlers.rs), running beside *)
(* the election monitors, and the operators that call them through the     *)
(* proxy: start, stop and restart of a node, the re-sync of a standby, and *)
(* the manual switchover (crates/pgvisor-proxy/src/cluster.rs).            *)
(*                                                                         *)
(* A handler that awaits a child command is two steps, with job[n] naming  *)
(* the command it awaits; the monitor of the node runs in between.         *)
(***************************************************************************)
EXTENDS Election

CONSTANTS
  Operation,        \* the operations the operators use
  Managed,          \* the nodes they use them on
  SwitchTarget,     \* the nodes they switch over to
  MaxOperations     \* bound on the operations

ASSUME OperationAssumption ==
  /\ Operation \subseteq {"stop", "start", "restart", "resync", "fence", "switchover"}
  /\ Managed \subseteq Node
  /\ SwitchTarget \subseteq Node
  /\ MaxOperations \in Nat

VARIABLES
  job,       \* the handler at work at each node, what it awaits, its argument
  sw,        \* the switchover in progress
  operations \* how many operations have been started

apiVars == <<job, sw, operations>>
allVars == <<vars, apiVars>>

JobPlace == {"none", "stop", "restart", "start", "fence", "demote", "promote",
             "repoint", "resync", "basebackup", "resynced"}
SwPlace == {"idle", "demote", "promote", "repoint"}

NoJob == [op |-> "none", place |-> "none", arg |-> NoNode]
NoSwitchover == [place |-> "idle", target |-> NoNode, leader |-> NoNode, todo |-> {}]


ApiInit ==
  /\ Init
  /\ job = [n \in Node |-> NoJob]
  /\ sw = NoSwitchover
  /\ operations = 0

Busy(n, place) == up[n] /\ job[n].place = place
SetJob(n, op, place, arg) ==
  job' = [job EXCEPT ![n] = [op |-> op, place |-> place, arg |-> arg]]
Await(n, place) == job' = [job EXCEPT ![n].place = place]
EndJob(n) == job' = [job EXCEPT ![n] = NoJob]

Operate(op, n) ==
  /\ op \in Operation
  /\ n \in Managed
  /\ Busy(n, "none")
  /\ operations < MaxOperations
  /\ operations' = operations + 1

-----------------------------------------------------------------------------

(* supervisor.stop: the server goes down, then the status says so, unless  *)
(* the node is restoring.                                                  *)
MarkStopped(n) ==
  status' = [status EXCEPT ![n] = IF @ = "restoring" THEN @ ELSE "stopped"]

HandleStop(n) ==
  /\ Operate("stop", n)
  /\ status[n] # "stopped"
  /\ pg' = [pg EXCEPT ![n] = "down"]
  /\ SetJob(n, "stop", "stop", NoNode)
  /\ UNCHANGED <<up, role, status, data, conninfo, monitorVars, repoint, faults, sw>>

FinishStop(n) ==
  /\ Busy(n, "stop")
  /\ MarkStopped(n)
  /\ EndJob(n)
  /\ UNCHANGED <<up, role, pg, data, conninfo, monitorVars, repoint, faults, sw,
                 operations>>

HandleRestart(n) ==
  /\ Operate("restart", n)
  /\ pg' = [pg EXCEPT ![n] = "down"]
  /\ SetJob(n, "restart", "restart", NoNode)
  /\ UNCHANGED <<up, role, status, data, conninfo, monitorVars, repoint, faults, sw>>

(* start_postgres_safely: the peers are asked for a leader, in their order *)
(* and with the same self test as the monitor; the node joins the first    *)
(* one that answers as a standby, or starts as it was configured.          *)
PeerLeader(n, m) ==
  LET leaders == {p \in Node \ SelfTag(n) : up[p] /\ role[p] = "leader" /\ Alive(p)}
  IN  IF leaders = {} THEN m = NoNode ELSE IsFirst(m, leaders)

StartSafely(n) ==
  \E m \in Node \cup {NoNode} :
    /\ PeerLeader(n, m)
    /\ SetJob(n, "start", "start", m)
    /\ IF m = NoNode
         THEN UNCHANGED <<role, conninfo>>
         ELSE /\ role' = [role EXCEPT ![n] = "standby"]
              /\ conninfo' = [conninfo EXCEPT ![n] = m]

HandleStart(n) ==
  /\ Operate("start", n)
  /\ status[n] # "running"
  /\ StartSafely(n)
  /\ UNCHANGED <<up, status, pg, data, monitorVars, repoint, faults, sw>>

RestartStart(n) ==
  /\ Busy(n, "restart")
  /\ MarkStopped(n)
  /\ StartSafely(n)
  /\ UNCHANGED <<up, pg, data, monitorVars, repoint, faults, sw, operations>>

(* Mutant of FinishStart: the server starts without its standby.signal.    *)
FinishStartAsPrimary(n) ==
  /\ Busy(n, "start")
  /\ pg' = [pg EXCEPT ![n] = "primary"]
  /\ status' = [status EXCEPT ![n] = "running"]
  /\ EndJob(n)
  /\ UNCHANGED <<up, role, data, conninfo, monitorVars, repoint, faults, sw, operations>>

(* supervisor.start does nothing under the status running.  Without a data *)
(* directory the server exits at once.                                     *)
FinishStart(n) ==
  /\ Busy(n, "start")
  /\ data[n] # "none"
  /\ IF status[n] = "running"
       THEN UNCHANGED <<pg, status>>
       ELSE /\ pg' = [pg EXCEPT ![n] = PostgresMode(conninfo[n])]
            /\ status' = [status EXCEPT ![n] = IF @ = "restoring" THEN @ ELSE "running"]
  /\ EndJob(n)
  /\ UNCHANGED <<up, role, data, conninfo, monitorVars, repoint, faults, sw, operations>>

(* The server exits or is not ready in time: a standby is cloned again, a  *)
(* node without a leader to follow is left stopped.                        *)
StartFails(n) ==
  /\ Busy(n, "start")
  /\ IF data[n] = "none" THEN UNCHANGED faults ELSE Lose
  /\ pg' = [pg EXCEPT ![n] = "down"]
  /\ IF job[n].arg = NoNode
       THEN /\ status' = [status EXCEPT ![n] = "stopped"]
            /\ EndJob(n)
       ELSE /\ status' = [status EXCEPT ![n] = "restoring"]
            /\ Await(n, "resync")
  /\ UNCHANGED <<up, role, data, conninfo, monitorVars, repoint, sw, operations>>

-----------------------------------------------------------------------------
(* handle_fence announces the fenced status, stops the server, and sets    *)
(* the role.                                                               *)
HandleFence(n) ==
  /\ Operate("fence", n)
  /\ status' = [status EXCEPT ![n] = "fenced"]
  /\ SetJob(n, "fence", "fence", NoNode)
  /\ UNCHANGED <<up, role, pg, data, conninfo, monitorVars, repoint, faults, sw>>

FinishFence(n) ==
  /\ Busy(n, "fence")
  /\ pg' = [pg EXCEPT ![n] = "down"]
  /\ role' = [role EXCEPT ![n] = "fenced"]
  /\ EndJob(n)
  /\ UNCHANGED <<up, status, data, conninfo, monitorVars, repoint, faults, sw, operations>>

(* handle_resync sets the status before it knows what to clone from: the   *)
(* conninfo of the request, or else the configured one.  Without either it *)
(* answers 400 and leaves the status as it is.                             *)
HandleResync(n) ==
  /\ Operate("resync", n)
  /\ status' = [status EXCEPT ![n] = "restoring"]
  /\ IF conninfo[n] = NoNode
       THEN UNCHANGED <<pg, job>>
       ELSE /\ pg' = [pg EXCEPT ![n] = "down"]
            /\ SetJob(n, "resync", "resync", conninfo[n])
  /\ UNCHANGED <<up, role, data, conninfo, monitorVars, repoint, faults, sw>>

ResyncWipe(n) ==
  /\ Busy(n, "resync")
  /\ Reachable(job[n].arg)
  /\ data' = [data EXCEPT ![n] = "none"]
  /\ Await(n, "basebackup")
  /\ UNCHANGED <<up, role, status, pg, conninfo, monitorVars, repoint, faults, sw,
                 operations>>

(* The clone is made and its server started.  A handler of start is done,  *)
(* since it has set the role before; if the server is not ready in time,   *)
(* or exits, it is left as it is under a fenced status.                    *)
ResyncClone(n, st, server) ==
  /\ Busy(n, "basebackup")
  /\ Reachable(job[n].arg)
  /\ data' = [data EXCEPT ![n] = data[job[n].arg]]
  /\ pg' = [pg EXCEPT ![n] = server]
  /\ status' = [status EXCEPT ![n] = st]
  /\ IF st = "running" /\ job[n].op = "resync" THEN Await(n, "resynced") ELSE EndJob(n)
  /\ UNCHANGED <<up, role, conninfo, monitorVars, repoint, sw, operations>>

ResyncReady(n) == ResyncClone(n, "running", "replica") /\ UNCHANGED faults
ResyncNotReady(n) ==
  Lose /\ \E server \in {"replica", "down"} : ResyncClone(n, "fenced", server)

FinishResync(n) ==
  /\ Busy(n, "resynced")
  /\ role' = [role EXCEPT ![n] = "standby"]
  /\ EndJob(n)
  /\ UNCHANGED <<up, status, pg, data, conninfo, monitorVars, repoint, faults, sw,
                 operations>>

(* The primary is not ready, or pg_basebackup fails: the status becomes    *)
(* fenced, the role stays.                                                 *)
ResyncError(n) ==
  /\ Busy(n, "resync") \/ Busy(n, "basebackup")
  /\ IF Reachable(job[n].arg) THEN Lose ELSE UNCHANGED faults
  /\ status' = [status EXCEPT ![n] = "fenced"]
  /\ EndJob(n)
  /\ UNCHANGED <<up, role, pg, data, conninfo, monitorVars, repoint, sw, operations>>

-----------------------------------------------------------------------------
(* ProxyClusterService.switchover.  The statuses are read, then the leader *)
(* is demoted, the target promoted and the other standbys repointed, one   *)
(* request after the other.  The targets are asked in the order of their   *)
(* ids: of two active leaders the last one counts.                         *)
Switchover(t) ==
  LET leaders == {p \in Node \ {t} : up[p] /\ ActiveLeader(p)}
      standbys == {p \in Node \ {t} : up[p] /\ role[p] = "standby"}
  IN
  /\ "switchover" \in Operation /\ t \in SwitchTarget
  /\ operations < MaxOperations
  /\ operations' = operations + 1
  /\ sw = NoSwitchover
  /\ up[t] /\ role[t] # "leader" /\ Running(t)
  /\ \E l \in leaders \cup {NoNode} :
       /\ IF leaders = {} THEN l = NoNode
          ELSE l \in leaders /\ \A p \in leaders : p <= l
       /\ sw' = [place |-> IF l = NoNode THEN "promote" ELSE "demote",
                 target |-> t, leader |-> l, todo |-> standbys]
  /\ UNCHANGED <<vars, job>>

(* Mutant of HandleDemote: the server is left running.                     *)
HandleDemoteKeepsServer(n) ==
  /\ sw.place = "demote" /\ n = sw.leader
  /\ Busy(n, "none")
  /\ SetJob(n, "demote", "demote", NoNode)
  /\ UNCHANGED <<vars, sw, operations>>

(* Mutant of FinishDemote: the node goes on calling itself leader.         *)
FinishDemoteKeepsRole(n) ==
  /\ Busy(n, "demote")
  /\ EndJob(n)
  /\ sw' = [sw EXCEPT !.place = "promote"]
  /\ UNCHANGED <<vars, operations>>

(* handle_demote: supervisor.stop, then the status and the role.           *)
HandleDemote(n) ==
  /\ sw.place = "demote" /\ n = sw.leader
  /\ Busy(n, "none")
  /\ pg' = [pg EXCEPT ![n] = "down"]
  /\ SetJob(n, "demote", "demote", NoNode)
  /\ UNCHANGED <<up, role, status, data, conninfo, monitorVars, repoint, faults, sw,
                 operations>>

FinishDemote(n) ==
  /\ Busy(n, "demote")
  /\ status' = [status EXCEPT ![n] = "fenced"]
  /\ role' = [role EXCEPT ![n] = "fenced"]
  /\ EndJob(n)
  /\ sw' = [sw EXCEPT !.place = "promote"]
  /\ UNCHANGED <<up, pg, data, conninfo, monitorVars, repoint, faults, operations>>

(* handle_promote looks at neither the role nor the status.                *)
HandlePromote(n) ==
  /\ sw.place = "promote" /\ n = sw.target
  /\ Busy(n, "none")
  /\ pg[n] # "down"
  /\ pg' = [pg EXCEPT ![n] = "primary"]
  /\ SetJob(n, "promote", "promote", NoNode)
  /\ UNCHANGED <<up, role, status, data, conninfo, monitorVars, repoint, faults, sw,
                 operations>>

HandlePromoteFails(n) ==
  /\ sw.place = "promote" /\ n = sw.target
  /\ Busy(n, "none")
  /\ sw' = NoSwitchover
  /\ UNCHANGED <<vars, job, operations>>

FinishPromote(n) ==
  /\ Busy(n, "promote")
  /\ role' = [role EXCEPT ![n] = "leader"]
  /\ conninfo' = [conninfo EXCEPT ![n] = NoNode]
  /\ EndJob(n)
  /\ sw' = IF sw.todo = {} THEN NoSwitchover ELSE [sw EXCEPT !.place = "repoint"]
  /\ UNCHANGED <<up, status, pg, data, monitorVars, repoint, faults, operations>>

SwNextStandby(n) ==
  sw' = IF sw.todo = {n} THEN NoSwitchover ELSE [sw EXCEPT !.todo = @ \ {n}]

SwRepoint(n) ==
  /\ sw.place = "repoint" /\ IsFirst(n, sw.todo)
  /\ Busy(n, "none")
  /\ IF ActiveLeader(n)
       THEN SwNextStandby(n) /\ UNCHANGED job
       ELSE SetJob(n, "repoint", "repoint", sw.target) /\ UNCHANGED sw
  /\ UNCHANGED <<vars, operations>>


FinishSwRepoint(n) ==
  /\ Busy(n, "repoint")
  /\ role' = [role EXCEPT ![n] = "standby"]
  /\ conninfo' = [conninfo EXCEPT ![n] = job[n].arg]
  /\ EndJob(n)
  /\ SwNextStandby(n)
  /\ UNCHANGED <<up, status, pg, data, monitorVars, repoint, faults, operations>>

(* A request of the proxy fails or times out; its handler is dropped where *)
(* it is.  The switchover gives up, unless it was repointing a standby.    *)
SwCalls(n) ==
  \/ sw.place = "demote" /\ n = sw.leader
  \/ sw.place = "promote" /\ n = sw.target
  \/ sw.place = "repoint" /\ IsFirst(n, sw.todo)

DropJob(n) ==
  /\ EndJob(n)
  /\ IF ~SwCalls(n) THEN UNCHANGED sw
     ELSE IF sw.place = "repoint" THEN SwNextStandby(n)
     ELSE sw' = NoSwitchover

RequestFails(n) ==
  /\ job[n] # NoJob \/ SwCalls(n)
  /\ IF up[n] THEN Lose ELSE UNCHANGED faults
  /\ DropJob(n)
  /\ UNCHANGED <<sidecarVars, monitorVars, repoint, operations>>

-----------------------------------------------------------------------------
(* A monitor whose node is restoring or was stopped on purpose only forgets *)
(* the misses it had counted.                                              *)
TickPaused(n) ==
  /\ At(n, "tick")
  /\ Paused(n)
  /\ missed' = [missed EXCEPT ![n] = 0]
  /\ UNCHANGED <<sidecarVars, pc, todo, alive, target, repoint, faults, apiVars>>

Handler(n) ==
  \/ FinishStop(n) \/ RestartStart(n) \/ FinishStart(n) \/ StartFails(n)
  \/ FinishFence(n)
  \/ ResyncWipe(n) \/ ResyncReady(n) \/ ResyncNotReady(n) \/ FinishResync(n)
  \/ ResyncError(n)
  \/ HandleDemote(n) \/ FinishDemote(n)
  \/ HandlePromote(n) \/ HandlePromoteFails(n) \/ FinishPromote(n)
  \/ SwRepoint(n) \/ FinishSwRepoint(n) \/ RequestFails(n)

Operators ==
  \E n \in Node :
    \/ HandleStop(n) \/ HandleStart(n) \/ HandleRestart(n)
    \/ HandleFence(n) \/ HandleResync(n)
    \/ Switchover(n)

ApiNext ==
  \/ \E n \in Node : (Monitor(n) \/ FinishRepoint(n)) /\ UNCHANGED apiVars
  \/ \E n \in Node : TickPaused(n) \/ Handler(n)
  \/ Operators
  \/ \E n \in Node : Crash(n) /\ DropJob(n) /\ UNCHANGED operations
  \/ \E n \in Node : (PgCrash(n) \/ Restart(n)) /\ UNCHANGED apiVars

ApiSpec == ApiInit /\ [][ApiNext]_allVars

(* The handlers finish as the monitors loop; no operator has to act.       *)
ApiFairness ==
  \A n \in Node :
    /\ WF_allVars(Monitor(n) /\ UNCHANGED apiVars)
    /\ WF_allVars(FinishRepoint(n) /\ UNCHANGED apiVars)
    /\ WF_allVars(Handler(n))
    /\ SF_allVars(Promote(n) /\ UNCHANGED apiVars)
    /\ SF_allVars(CloneAndStart(n) /\ UNCHANGED apiVars)

ApiFairSpec == ApiSpec /\ ApiFairness

=============================================================================
