---------------------------- MODULE ElectionProof ----------------------------
(***************************************************************************)
(* What the election monitor guarantees for every set of nodes and every   *)
(* bound on the faults, proved with TLAPS.                                 *)
(***************************************************************************)
EXTENDS Election, TLAPS

(* A monitor that rejoins knows the leader it rejoins: FencedProbe found   *)
(* it.                                                                     *)
RejoinHasLeader ==
  \A n \in Node :
    pc[n] \in {"rejoin", "resync", "basebackup", "rejoined"} => target[n] \in Node

TypedInv == TypeOK /\ RejoinHasLeader

(* The containers boot into typed states.                                  *)
LEMMA TypedInit == Init => TypedInv
  BY NodeAssumption, ElectionAssumption
  DEF Init, SidecarInit, TypedInv, TypeOK, RejoinHasLeader, SidecarTypeOK,
      EnvRole, EnvConninfo, PostgresMode, Role, ProcessStatus, Postgres, DataDir,
      Place, Fault

(* Every step of a monitor, a handler or a fault preserves the types.      *)
LEMMA TypedStep == TypedInv /\ [Next]_vars => TypedInv'
<1> SUFFICES ASSUME TypedInv, [Next]_vars PROVE TypedInv'
  OBVIOUS
<1> USE NodeAssumption, ElectionAssumption
    DEF TypedInv, RejoinHasLeader, TypeOK, SidecarTypeOK, Role, ProcessStatus,
        Postgres, DataDir, Place, Fault
<1>2. ASSUME NEW n \in Node, TickFenced(n) PROVE TypedInv'
  BY <1>2 DEF TickFenced, StartRound, Goto, sidecarVars
<1>3. ASSUME NEW n \in Node, TickLeader(n) PROVE TypedInv'
  BY <1>3 DEF TickLeader, StartRound, Goto, sidecarVars
<1>4. ASSUME NEW n \in Node, TickStandby(n) PROVE TypedInv'
  BY <1>4 DEF TickStandby, StartRound, Goto, sidecarVars
<1>5. ASSUME NEW n \in Node, FencedProbe(n) PROVE TypedInv'
  BY <1>5 DEF FencedProbe, ProbeForLeader, Request, Lose, Count, Goto, sidecarVars
<1>6. ASSUME NEW n \in Node, LeaderProbe(n) PROVE TypedInv'
  BY <1>6 DEF LeaderProbe, ProbeForLeader, Request, Lose, Count, Goto, sidecarVars
<1>7. ASSUME NEW n \in Node, StandbyProbe(n) PROVE TypedInv'
  BY <1>7 DEF StandbyProbe, Request, Lose, Count, Goto, sidecarVars
<1>8. ASSUME NEW n \in Node, Decide(n) PROVE TypedInv'
  BY <1>8 DEF Decide, CountMiss, ForgetRound, Goto, sidecarVars
<1>9. ASSUME NEW n \in Node, Promote(n) PROVE TypedInv'
  BY <1>9 DEF Promote, Goto
<1>10. ASSUME NEW n \in Node, PromoteFails(n) PROVE TypedInv'
  BY <1>10 DEF PromoteFails, Goto, sidecarVars
<1>11. ASSUME NEW n \in Node, BecomeLeader(n) PROVE TypedInv'
  BY <1>11 DEF BecomeLeader, Goto
<1>12. ASSUME NEW n \in Node, Broadcast(n) PROVE TypedInv'
  BY <1>12 DEF Broadcast, NextTarget, Request, Lose, Count, Goto, sidecarVars
<1>13. ASSUME NEW n \in Node, BroadcastTimeout(n) PROVE TypedInv'
  BY <1>13 DEF BroadcastTimeout, NextTarget, Lose, Count, Goto, sidecarVars
<1>14. ASSUME NEW n \in Node, FinishRepoint(n) PROVE TypedInv'
  BY <1>14 DEF FinishRepoint, NextTarget, Goto
<1>15. ASSUME NEW n \in Node, AnnounceFence(n) PROVE TypedInv'
  BY <1>15 DEF AnnounceFence, Goto
<1>16. ASSUME NEW n \in Node, StopFenced(n) PROVE TypedInv'
  BY <1>16 DEF StopFenced, ForgetRound, Goto
<1>17. ASSUME NEW n \in Node, Rejoin(n) PROVE TypedInv'
  BY <1>17 DEF Rejoin, At, Goto
<1>18. ASSUME NEW n \in Node, WipeDataDir(n) PROVE TypedInv'
  BY <1>18 DEF WipeDataDir, At, Goto
<1>19. ASSUME NEW n \in Node, CloneAndStart(n) \/ CloneNotReady(n) PROVE TypedInv'
  <2> DEFINE d == data[target[n]]
  <2>1. d \in DataDir
    BY <1>19 DEF CloneAndStart, CloneNotReady, Clone, At
  <2> HIDE DEF d, DataDir
  <2>2. CASE CloneAndStart(n)
    <3>1. /\ data' = [data EXCEPT ![n] = d]
          /\ pg' = [pg EXCEPT ![n] = "replica"]
          /\ status' = [status EXCEPT ![n] = "running"]
          /\ pc' = [pc EXCEPT ![n] = "rejoined"]
          /\ pc[n] = "basebackup"
          /\ UNCHANGED <<up, role, conninfo, todo, alive, target, missed, repoint, faults>>
      BY <2>2 DEF CloneAndStart, Clone, At, Goto, d
    <3> QED BY <2>1, <3>1
  <2>3. CASE CloneNotReady(n)
    <3>1. PICK server \in {"replica", "down"} : Clone(n, "fenced", server, "tick")
      BY <2>3 DEF CloneNotReady
    <3>2. /\ data' = [data EXCEPT ![n] = d]
          /\ pg' = [pg EXCEPT ![n] = server]
          /\ status' = [status EXCEPT ![n] = "fenced"]
          /\ pc' = [pc EXCEPT ![n] = "tick"]
          /\ ForgetRound(n)
          /\ UNCHANGED <<up, role, conninfo, missed, repoint, faults>>
      BY <3>1 DEF Clone, Goto, d
    <3> QED BY <2>1, <3>2 DEF ForgetRound
  <2> QED
    BY <1>19, <2>2, <2>3
<1>20. ASSUME NEW n \in Node, ResyncFails(n) PROVE TypedInv'
  BY <1>20 DEF ResyncFails, Lose, Count, ForgetRound, Goto
<1>21. ASSUME NEW n \in Node, FinishRejoin(n) PROVE TypedInv'
  BY <1>21 DEF FinishRejoin, ForgetRound, Goto
<1>22. ASSUME NEW n \in Node, Crash(n) PROVE TypedInv'
  BY <1>22 DEF Crash, Kill, ResetMonitor, Count, EnvRole, EnvConninfo
<1>23. ASSUME NEW n \in Node, PgCrash(n) PROVE TypedInv'
  BY <1>23 DEF PgCrash, KillPostgres, Count, monitorVars
<1>24. ASSUME NEW n \in Node, Restart(n) PROVE TypedInv'
  BY <1>24 DEF Restart, Boot, EnsureInitialized, PostgresMode, ResetMonitor,
               Count, EnvRole, EnvConninfo
<1>25. CASE UNCHANGED vars
  BY <1>25 DEF vars, sidecarVars, monitorVars
<1> QED
  BY <1>2, <1>3, <1>4, <1>5, <1>6, <1>7, <1>8, <1>9, <1>10, <1>11, <1>12,
     <1>13, <1>14, <1>15, <1>16, <1>17, <1>18, <1>19, <1>20, <1>21, <1>22,
     <1>23, <1>24, <1>25
  DEF Next, Monitor

(* The type invariant of the election monitors, whatever the faults.       *)
THEOREM Typing == Spec => []TypeOK
<1>1. TypedInv => TypeOK
  BY DEF TypedInv
<1> QED
  BY <1>1, TypedInit, TypedStep, PTL DEF Spec

-----------------------------------------------------------------------------
(* The role fenced is set by the monitor itself, once the server is down,  *)
(* and no standby round is under way then.                                 *)
FencedInv ==
  \A n \in Node : role[n] = "fenced" =>
    /\ ~Writable(n)
    /\ pc[n] \notin {"standbyProbe", "decide", "promote", "elected"}

(* Every step preserves it: only fence, with the server stopped, sets the  *)
(* role, and only a standby promotes.                                      *)
LEMMA FencedStep == TypedInv /\ FencedInv /\ [Next]_vars => FencedInv'
<1> SUFFICES ASSUME TypedInv, FencedInv, [Next]_vars PROVE FencedInv'
  OBVIOUS
<1> USE DEF TypedInv, TypeOK, SidecarTypeOK, FencedInv, Writable, At
<1>1. ASSUME NEW n \in Node, TickFenced(n) \/ TickLeader(n) \/ TickStandby(n)
      PROVE FencedInv'
  BY <1>1 DEF TickFenced, TickLeader, TickStandby, StartRound, Goto, sidecarVars
<1>2. ASSUME NEW n \in Node, FencedProbe(n) \/ LeaderProbe(n) PROVE FencedInv'
  BY <1>2 DEF FencedProbe, LeaderProbe, ProbeForLeader, Goto, sidecarVars
<1>3. ASSUME NEW n \in Node, StandbyProbe(n) \/ Decide(n) PROVE FencedInv'
  BY <1>3 DEF StandbyProbe, Decide, Goto, sidecarVars
<1>4. ASSUME NEW n \in Node, Promote(n) \/ PromoteFails(n) \/ BecomeLeader(n)
      PROVE FencedInv'
  BY <1>4 DEF Promote, PromoteFails, BecomeLeader, Goto, sidecarVars
<1>5. ASSUME NEW n \in Node, Broadcast(n) \/ BroadcastTimeout(n) PROVE FencedInv'
  BY <1>5 DEF Broadcast, BroadcastTimeout, NextTarget, Goto, sidecarVars
<1>6. ASSUME NEW n \in Node, FinishRepoint(n) PROVE FencedInv'
  BY <1>6 DEF FinishRepoint, NextTarget, Goto
<1>7. ASSUME NEW n \in Node, AnnounceFence(n) \/ StopFenced(n) PROVE FencedInv'
  BY <1>7 DEF AnnounceFence, StopFenced, Goto
<1>8. ASSUME NEW n \in Node, Rejoin(n) \/ WipeDataDir(n) PROVE FencedInv'
  BY <1>8 DEF Rejoin, WipeDataDir, Goto
<1>9. ASSUME NEW n \in Node, CloneAndStart(n) \/ CloneNotReady(n) PROVE FencedInv'
  BY <1>9 DEF CloneAndStart, CloneNotReady, Clone, Goto
<1>10. ASSUME NEW n \in Node, ResyncFails(n) \/ FinishRejoin(n) PROVE FencedInv'
  BY <1>10 DEF ResyncFails, FinishRejoin, Goto
<1>11. ASSUME NEW n \in Node, Crash(n) PROVE FencedInv'
  BY <1>11 DEF Crash, Kill, ResetMonitor, EnvRole
<1>12. ASSUME NEW n \in Node, PgCrash(n) PROVE FencedInv'
  BY <1>12 DEF PgCrash, KillPostgres, monitorVars
<1>13. ASSUME NEW n \in Node, Restart(n) PROVE FencedInv'
  BY <1>13 DEF Restart, Boot, ResetMonitor, EnvRole
<1>14. CASE UNCHANGED vars
  BY <1>14 DEF vars, sidecarVars, monitorVars
<1> QED
  BY <1>1, <1>2, <1>3, <1>4, <1>5, <1>6, <1>7, <1>8, <1>9, <1>10, <1>11, <1>12,
     <1>13, <1>14
  DEF Next, Monitor

(* Whatever crashes, restarts and lost requests happen, a node that calls  *)
(* itself fenced accepts no writes.                                        *)
THEOREM FencedSafety == Spec => []FencedNeverWritable
<1>1. Init => FencedInv
  BY DEF Init, SidecarInit, FencedInv, EnvRole
<1>2. FencedInv => FencedNeverWritable
  BY DEF FencedInv, FencedNeverWritable
<1> QED
  BY <1>1, <1>2, TypedInit, TypedStep, FencedStep, PTL DEF Spec

-----------------------------------------------------------------------------
(* Without restarts and lost requests: n is, or is about to become, the    *)
(* leader, and then every node that could have become it before n is dead. *)
Claim(n) ==
  /\ up[n]
  /\ \/ n = EnvLeader \/ role[n] = "leader" \/ pg[n] = "primary"
     \/ pc[n] \in {"promote", "elected", "broadcast", "leaderProbe"}

Heir(n) == n = EnvLeader \/ (~up[EnvLeader] /\ \A q \in Node : q < n => ~up[q])

ClaimIsHeir == \A n \in Node : Claim(n) => Heir(n)

(* No node is ever fenced, so none restores either.                        *)
NeverFenced ==
  \A n \in Node :
    /\ up[n] => status[n] = "running" /\ role[n] # "fenced"
    /\ pc[n] \in {"tick", "leaderProbe", "standbyProbe", "decide", "promote",
                  "elected", "broadcast"}

FirstLeaderStays ==
  up[EnvLeader] => /\ role[EnvLeader] = "leader"
                   /\ pc[EnvLeader] \in {"tick", "leaderProbe"}
                   /\ repoint[EnvLeader] = NoNode

(* What the probes of a standby have established so far.                   *)
ProbedDead ==
  \A n \in Node : pc[n] \in {"standbyProbe", "decide"} =>
    /\ \A p \in Node \ todo[n] : p \in alive[n] \/ ~up[p]
    /\ target[n] = NoNode /\ EnvLeader \notin todo[n] => ~up[EnvLeader]
    /\ pc[n] = "decide" => todo[n] = {}

LeaderSkipsItself == \A n \in Node : pc[n] = "leaderProbe" => n \notin todo[n]

SenderWaits ==
  \A p, m \in Node : repoint[p] = m =>
    up[m] /\ pc[m] = "broadcast" /\ IsFirst(p, todo[m])

CrashStopInv ==
  /\ TypedInv
  /\ ClaimIsHeir
  /\ NeverFenced
  /\ FirstLeaderStays
  /\ ProbedDead
  /\ LeaderSkipsItself
  /\ SenderWaits

(* The invariant singles out the leader.                                   *)
LEMMA OneClaim ==
  ASSUME ClaimIsHeir, NEW m \in Node, NEW n \in Node, Claim(m), Claim(n)
  PROVE  m = n
<1>1. m \in Nat /\ n \in Nat
  BY NodeAssumption
<1>2. up[m] /\ up[n] /\ Heir(m) /\ Heir(n)
  BY DEF ClaimIsHeir, Claim
<1>3. ~(m < n) /\ ~(n < m)
  BY <1>1, <1>2 DEF Heir
<1> QED
  BY <1>1, <1>3

(* The first leader is the only claimant of a cluster that boots.          *)
LEMMA CrashStopInit == Init => CrashStopInv
<1> SUFFICES ASSUME Init PROVE CrashStopInv
  OBVIOUS
<1> USE NodeAssumption DEF Init, SidecarInit, EnvRole, EnvConninfo, PostgresMode
<1>1. ClaimIsHeir
  BY DEF ClaimIsHeir, Claim, Heir
<1>2. NeverFenced /\ FirstLeaderStays /\ ProbedDead /\ LeaderSkipsItself /\ SenderWaits
  BY DEF NeverFenced, FirstLeaderStays, ProbedDead, LeaderSkipsItself, SenderWaits
<1> QED
  BY <1>1, <1>2, TypedInit DEF CrashStopInv

(* Every step preserves it: a standby that wins a round has seen every     *)
(* node before it, and the first leader, dead.                             *)
LEMMA CrashStopStep ==
  ASSUME MaxLosses = 0, MaxRestarts = 0, CrashStopInv, [Next]_vars
  PROVE  CrashStopInv'
<1> DEFINE Rest == /\ ClaimIsHeir /\ NeverFenced /\ FirstLeaderStays
                   /\ ProbedDead /\ LeaderSkipsItself /\ SenderWaits
<1> USE NodeAssumption DEF CrashStopInv, TypedInv, TypeOK, SidecarTypeOK
<1>lose. ~Lose
  BY DEF Lose, Fault
<1> HIDE DEF Rest
<1>2. ASSUME NEW n \in Node, TickFenced(n) PROVE Rest'
  BY <1>2 DEF TickFenced, At, NeverFenced
<1>3. ASSUME NEW n \in Node, TickLeader(n) PROVE Rest'
  BY <1>3 DEF Rest, TickLeader, At, StartRound, Goto, sidecarVars, SelfTag,
     ClaimIsHeir, Claim, Heir, NeverFenced,
     FirstLeaderStays, ProbedDead, LeaderSkipsItself, SenderWaits, IsFirst
<1>4. ASSUME NEW n \in Node, TickStandby(n) PROVE Rest'
  BY <1>4 DEF Rest, TickStandby, At, StartRound, Goto, sidecarVars,
     ClaimIsHeir, Claim, Heir, NeverFenced,
     FirstLeaderStays, ProbedDead, LeaderSkipsItself, SenderWaits, IsFirst
<1>5. ASSUME NEW n \in Node, FencedProbe(n) PROVE Rest'
  BY <1>5 DEF FencedProbe, ProbeForLeader, At, NeverFenced
<1>6. ASSUME NEW n \in Node, LeaderProbe(n) PROVE Rest'
  <2>1. PICK p \in Node, answered \in BOOLEAN :
          /\ At(n, "leaderProbe") /\ p \in todo[n]
          /\ answered => up[p]
          /\ IF answered /\ ActiveLeader(p)
               THEN pc' = [pc EXCEPT ![n] = "fence"]
               ELSE /\ pc' = [pc EXCEPT ![n] = IF todo[n] = {p} THEN "tick" ELSE "leaderProbe"]
                    /\ todo' = [todo EXCEPT ![n] = @ \ {p}]
                    /\ UNCHANGED target
          /\ UNCHANGED <<sidecarVars, alive, missed, repoint>>
    BY <1>6 DEF LeaderProbe, ProbeForLeader, Request, IsFirst, Goto
  <2>2. ~(answered /\ ActiveLeader(p))
    <3> SUFFICES ASSUME answered /\ ActiveLeader(p) PROVE FALSE
      OBVIOUS
    <3>1. Claim(p) /\ Claim(n)
      BY <2>1 DEF Claim, ActiveLeader, At
    <3>2. p = n
      BY <3>1, OneClaim
    <3> QED
      BY <2>1, <3>2 DEF LeaderSkipsItself, At
  <2> QED
    BY <2>1, <2>2 DEF Rest, At, sidecarVars,
     ClaimIsHeir, Claim, Heir, NeverFenced,
     FirstLeaderStays, ProbedDead, LeaderSkipsItself, SenderWaits, IsFirst
<1>7. ASSUME NEW n \in Node, StandbyProbe(n) PROVE Rest'
  BY <1>7, <1>lose DEF Rest, StandbyProbe, Request, At, Goto, Alive, sidecarVars,
     ClaimIsHeir, Claim, Heir, NeverFenced,
     FirstLeaderStays, ProbedDead, LeaderSkipsItself, SenderWaits, IsFirst
<1>8. ASSUME NEW n \in Node, Decide(n) PROVE Rest'
  BY <1>8 DEF Rest, Decide, Wins, At, Goto, ForgetRound, sidecarVars,
     ClaimIsHeir, Claim, Heir, NeverFenced,
     FirstLeaderStays, ProbedDead, LeaderSkipsItself, SenderWaits, IsFirst
<1>9. ASSUME NEW n \in Node, Promote(n) PROVE Rest'
  BY <1>9 DEF Rest, Promote, At, Goto,
     ClaimIsHeir, Claim, Heir, NeverFenced,
     FirstLeaderStays, ProbedDead, LeaderSkipsItself, SenderWaits, IsFirst
<1>10. ASSUME NEW n \in Node, PromoteFails(n) PROVE Rest'
  BY <1>10 DEF Rest, PromoteFails, At, Goto, sidecarVars,
     ClaimIsHeir, Claim, Heir, NeverFenced,
     FirstLeaderStays, ProbedDead, LeaderSkipsItself, SenderWaits, IsFirst
<1>11. ASSUME NEW n \in Node, BecomeLeader(n) PROVE Rest'
  BY <1>11 DEF Rest, BecomeLeader, At, Goto,
     ClaimIsHeir, Claim, Heir, NeverFenced,
     FirstLeaderStays, ProbedDead, LeaderSkipsItself, SenderWaits, IsFirst
<1>12. ASSUME NEW n \in Node, Broadcast(n) PROVE Rest'
  <2>1. PICK p \in Node, answered \in BOOLEAN :
          /\ At(n, "broadcast") /\ IsFirst(p, todo[n])
          /\ answered => up[p]
          /\ repoint[p] = NoNode
          /\ IF answered /\ ~ActiveLeader(p)
               THEN /\ repoint' = [repoint EXCEPT ![p] = n]
                    /\ UNCHANGED <<pc, todo>>
               ELSE /\ NextTarget(n, p)
                    /\ UNCHANGED repoint
          /\ UNCHANGED <<sidecarVars, alive, target, missed>>
    BY <1>12 DEF Broadcast, Request
  <2>2. CASE answered /\ ~ActiveLeader(p)
    <3>1. ClaimIsHeir' /\ NeverFenced' /\ ProbedDead' /\ LeaderSkipsItself'
      BY <2>1, <2>2 DEF sidecarVars, ClaimIsHeir, Claim, Heir, NeverFenced,
         ProbedDead, LeaderSkipsItself
    <3>2. p # EnvLeader
      BY <2>1, <2>2 DEF ActiveLeader, Running, NeverFenced, FirstLeaderStays
    <3>3. FirstLeaderStays'
      BY <2>1, <2>2, <3>2 DEF sidecarVars, FirstLeaderStays
    <3>4. SenderWaits'
      <4> SUFFICES ASSUME NEW q \in Node, NEW m \in Node, repoint'[q] = m
                   PROVE  up[m] /\ pc[m] = "broadcast" /\ IsFirst(q, todo[m])
        BY <2>1, <2>2 DEF SenderWaits, sidecarVars, IsFirst
      <4>1. CASE q = p
        BY <2>1, <2>2, <4>1 DEF At
      <4>2. CASE q # p
        BY <2>1, <2>2, <4>2 DEF SenderWaits
      <4> QED
        BY <4>1, <4>2
    <3> QED
      BY <3>1, <3>3, <3>4 DEF Rest
  <2>3. CASE ~(answered /\ ~ActiveLeader(p))
    <3>1. \A q \in Node : repoint[q] # n
      BY <2>1 DEF SenderWaits, IsFirst
    <3> QED
      BY <2>1, <2>3, <3>1 DEF Rest, NextTarget, Goto, At, sidecarVars, ClaimIsHeir,
         Claim, Heir, NeverFenced, FirstLeaderStays, ProbedDead, LeaderSkipsItself,
         SenderWaits, IsFirst
  <2> QED
    BY <2>2, <2>3
<1>13. ASSUME NEW n \in Node, BroadcastTimeout(n) PROVE Rest'
  BY <1>13, <1>lose DEF BroadcastTimeout
<1>14. ASSUME NEW n \in Node, FinishRepoint(n) PROVE Rest'
  BY <1>14 DEF Rest, FinishRepoint, NextTarget, Goto,
     ClaimIsHeir, Claim, Heir, NeverFenced,
     FirstLeaderStays, ProbedDead, LeaderSkipsItself, SenderWaits, IsFirst
<1>15. ASSUME NEW n \in Node,
              \/ AnnounceFence(n) \/ StopFenced(n) \/ Rejoin(n) \/ WipeDataDir(n)
              \/ CloneAndStart(n) \/ CloneNotReady(n) \/ ResyncFails(n) \/ FinishRejoin(n)
       PROVE Rest'
  BY <1>15 DEF AnnounceFence, StopFenced, Rejoin, WipeDataDir, CloneAndStart,
     CloneNotReady, Clone, ResyncFails, FinishRejoin, At, NeverFenced
<1>16. ASSUME NEW n \in Node, Crash(n) PROVE Rest'
  <2>1. /\ up' = [up EXCEPT ![n] = FALSE]
        /\ pg' = [pg EXCEPT ![n] = "down"]
        /\ role' = [role EXCEPT ![n] = EnvRole(n)]
        /\ status' = [status EXCEPT ![n] = "stopped"]
        /\ ResetMonitor(n, {repoint[n]})
    BY <1>16 DEF Crash, Kill
  <2>2. \A m \in Node : pc'[m] = pc[m] \/ pc'[m] = "tick"
    BY <2>1 DEF ResetMonitor
  <2>3. \A m \in Node : m # n => up'[m] = up[m]
    BY <2>1
  <2>4. ClaimIsHeir'
    BY <2>1, <2>2 DEF ClaimIsHeir, Claim, Heir
  <2>5. NeverFenced'
    BY <2>1, <2>2 DEF NeverFenced
  <2>6. FirstLeaderStays'
    BY <2>1, <2>2 DEF FirstLeaderStays, ResetMonitor
  <2>7. ASSUME NEW m \in Node, pc'[m] # "tick" PROVE
          /\ m # n /\ pc'[m] = pc[m]
          /\ alive'[m] = alive[m] /\ target'[m] = target[m]
          /\ pc[m] # "broadcast" => todo'[m] = todo[m]
    BY <2>1, <2>7 DEF ResetMonitor, SenderWaits
  <2>8. ProbedDead' /\ LeaderSkipsItself'
    BY <2>1, <2>2, <2>7 DEF ProbedDead, LeaderSkipsItself
  <2>9. ASSUME NEW p \in Node, NEW m \in Node, repoint'[p] = m
        PROVE  up'[m] /\ pc'[m] = "broadcast" /\ IsFirst(p, todo'[m])
    <3>1. p # n /\ m # n /\ repoint[p] = m
      BY <2>1, <2>9 DEF ResetMonitor
    <3>2. up[m] /\ pc[m] = "broadcast" /\ IsFirst(p, todo[m])
      BY <3>1 DEF SenderWaits
    <3>3. repoint[n] # m
      <4>1. SUFFICES ASSUME repoint[n] = m PROVE FALSE
        OBVIOUS
      <4>2. n <= p /\ p <= n
        BY <3>2, <4>1 DEF SenderWaits, IsFirst
      <4> QED
        BY <3>1, <4>2
    <3>4. pc'[m] = pc[m] /\ todo'[m] = todo[m]
      BY <2>1, <3>1, <3>3 DEF ResetMonitor
    <3> QED
      BY <2>3, <3>1, <3>2, <3>4
  <2>10. SenderWaits'
    BY <2>9 DEF SenderWaits, IsFirst
  <2> QED
    BY <2>4, <2>5, <2>6, <2>8, <2>10 DEF Rest
<1>17. ASSUME NEW n \in Node, PgCrash(n) PROVE Rest'
  BY <1>17 DEF Rest, PgCrash, KillPostgres, monitorVars,
     ClaimIsHeir, Claim, Heir, NeverFenced,
     FirstLeaderStays, ProbedDead, LeaderSkipsItself, SenderWaits, IsFirst
<1>18. ASSUME NEW n \in Node, Restart(n) PROVE Rest'
  BY <1>18 DEF Restart, Fault
<1>19. ASSUME UNCHANGED vars PROVE Rest'
  <2>1. ClaimIsHeir' /\ NeverFenced' /\ FirstLeaderStays'
    BY <1>19 DEF vars, sidecarVars, monitorVars, ClaimIsHeir, Claim, Heir,
       NeverFenced, FirstLeaderStays
  <2>2. ProbedDead' /\ LeaderSkipsItself' /\ SenderWaits'
    BY <1>19 DEF vars, sidecarVars, monitorVars, ProbedDead, LeaderSkipsItself,
       SenderWaits, IsFirst
  <2> QED
    BY <2>1, <2>2 DEF Rest
<1> HIDE DEF CrashStopInv, TypedInv, TypeOK, SidecarTypeOK
<1>20. Rest'
  BY <1>2, <1>3, <1>4, <1>5, <1>6, <1>7, <1>8, <1>9, <1>10, <1>11, <1>12,
     <1>13, <1>14, <1>15, <1>16, <1>17, <1>18, <1>19
  DEF Next, Monitor
<1> QED
  BY <1>20, TypedStep DEF Rest, CrashStopInv

(* If no container restarts and no request is lost, then however many      *)
(* containers and PostgreSQL servers die, and whatever the interleaving of *)
(* the monitors, at most one server accepts writes.                        *)
THEOREM CrashStopSafety ==
  ASSUME MaxLosses = 0, MaxRestarts = 0
  PROVE  Spec => []AtMostOnePrimary
<1>1. CrashStopInv => AtMostOnePrimary
  BY OneClaim DEF CrashStopInv, AtMostOnePrimary, Writable, Claim
<1>2. CrashStopInv /\ [Next]_vars => CrashStopInv'
  BY CrashStopStep
<1> QED
  BY <1>1, <1>2, CrashStopInit, PTL DEF Spec

=============================================================================
