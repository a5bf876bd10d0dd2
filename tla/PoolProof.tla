----------------------------- MODULE PoolProof ------------------------------
(***************************************************************************)
(* The pool keeps its idle connections in step with the topology and       *)
(* within their limit, whatever the callers do, for every set of servers,  *)
(* every limit and every topology.                                         *)
(***************************************************************************)
EXTENDS ConnectionPool, TLAPS

PoolInv == PoolTypeOK /\ IdleMatchesTopology /\ IdleBounded

\* What a queue holds after release offered it a connection.
LEMMA PushBackFacts ==
  ASSUME NEW S, NEW q \in Seq(S), NEW x \in S, MaxIdle \in Nat
  PROVE  /\ PushBack(q, x) \in Seq(S)
         /\ Len(q) <= MaxIdle => Len(PushBack(q, x)) <= MaxIdle
         /\ \A i \in DOMAIN PushBack(q, x) :
              PushBack(q, x)[i] = x
              \/ (i \in DOMAIN q /\ PushBack(q, x)[i] = q[i])
  BY DEF PushBack

\* What a queue holds after acquire_for took its oldest connection.
LEMMA PopFrontFacts ==
  ASSUME NEW S, NEW q \in Seq(S)
  PROVE  /\ PopFront(q) \in Seq(S)
         /\ Len(PopFront(q)) <= Len(q)
         /\ \A i \in DOMAIN PopFront(q) :
              \E j \in DOMAIN q : PopFront(q)[i] = q[j]
<1>1. CASE q = <<>>
  BY <1>1 DEF PopFront
<1>2. CASE q # <<>>
  <2>1. /\ Tail(q) \in Seq(S)
        /\ Len(Tail(q)) = Len(q) - 1
        /\ \A i \in 1..Len(Tail(q)) : i + 1 \in 1..Len(q) /\ Tail(q)[i] = q[i + 1]
    BY <1>2
  <2> QED
    BY <1>2, <2>1 DEF PopFront
<1> QED
  BY <1>1, <1>2

\* A list of standbys is a sequence of addresses.
LEMMA StandbyListFacts ==
  ASSUME NEW s \in StandbyLists
  PROVE  /\ s \in Seq(Addr)
         /\ \A i \in 1..Len(s) : s[i] \in Addr
         /\ Range(s) \subseteq Addr
         /\ s # <<>> => Len(s) > 0
<1>1. PICK k \in 0..MaxStandbys : s \in [1..k -> Addr]
  BY DEF StandbyLists
<1>2. k \in Nat
  BY PoolAssumption
<1>3. s \in Seq(Addr) /\ Len(s) = k
  BY <1>1, <1>2
<1> QED
  BY <1>1, <1>2, <1>3 DEF Range

\* The empty pool satisfies the invariant.
LEMMA PoolInitInv == PoolInit => PoolInv
<1> SUFFICES ASSUME PoolInit PROVE PoolInv
  OBVIOUS
<1>1. <<>> \in StandbyLists
  <2>1. <<>> \in [1..0 -> Addr] /\ 0 \in 0..MaxStandbys
    BY PoolAssumption
  <2> QED
    BY <2>1 DEF StandbyLists
<1> QED
  BY <1>1, PoolAssumption
  DEF PoolInit, PoolInv, PoolTypeOK, IdleMatchesTopology, IdleBounded

\* update_topology drains what the new topology has no place for.
LEMMA UpdateTopologyInv ==
  ASSUME PoolInv, NEW l \in Addr \cup {NoAddr}, NEW s \in StandbyLists,
         UpdateTopology(l, s)
  PROVE  PoolInv'
<1>1. PoolTypeOK'
  BY StandbyListFacts DEF PoolInv, PoolTypeOK, UpdateTopology
<1>2. IdleMatchesTopology'
  BY DEF PoolInv, PoolTypeOK, IdleMatchesTopology, UpdateTopology
<1>3. IdleBounded'
  BY PoolAssumption DEF PoolInv, PoolTypeOK, IdleBounded, UpdateTopology
<1> QED
  BY <1>1, <1>2, <1>3 DEF PoolInv

\* drain_all empties every queue.
LEMMA DrainAllInv ==
  ASSUME PoolInv, DrainAll
  PROVE  PoolInv'
  BY PoolAssumption
  DEF PoolInv, PoolTypeOK, IdleMatchesTopology, IdleBounded, DrainAll

\* acquire_for only takes connections out.
LEMMA AcquireInv ==
  ASSUME PoolInv, NEW role \in BackendRole, AcquireFor(role)
  PROVE  PoolInv'
<1> USE DEF PoolInv
<1>1. CASE AcquireLeader(role)
  <2>1. /\ idle_leaders' \in Seq(PooledConnection)
        /\ Len(idle_leaders') <= Len(idle_leaders)
        /\ \A i \in DOMAIN idle_leaders' :
             \E j \in DOMAIN idle_leaders : idle_leaders'[i] = idle_leaders[j]
    BY <1>1, PopFrontFacts DEF AcquireLeader, PoolTypeOK
  <2>2. UNCHANGED <<leader_addr, standby_addrs, standby_rr_index, idle_standbys>>
    BY <1>1 DEF AcquireLeader
  <2>3. PoolTypeOK'
    BY <2>1, <2>2 DEF PoolTypeOK
  <2>4. IdleMatchesTopology'
    BY <2>1, <2>2 DEF IdleMatchesTopology
  <2>5. IdleBounded'
    BY <2>1, <2>2, PoolAssumption DEF IdleBounded, PoolTypeOK
  <2> QED
    BY <2>3, <2>4, <2>5
<1>2. CASE AcquireStandby(role)
  <2> DEFINE t == TargetAddr(role)
  <2>1. standby_addrs # <<>> /\ Len(standby_addrs) \in Nat \ {0}
    BY <1>2, StandbyListFacts DEF AcquireStandby, UsesLeader, PoolTypeOK
  <2>2. t \in Addr
    BY <1>2, <2>1, StandbyListFacts
    DEF AcquireStandby, TargetAddr, PoolTypeOK
  <2>3. /\ idle_standbys' \in [Addr -> Seq(PooledConnection)]
        /\ \A a \in Addr :
             /\ Len(idle_standbys'[a]) <= Len(idle_standbys[a])
             /\ \A i \in DOMAIN idle_standbys'[a] :
                  \E j \in DOMAIN idle_standbys[a] :
                    idle_standbys'[a][i] = idle_standbys[a][j]
    <3>1. idle_standbys' = [idle_standbys EXCEPT ![t] = PopFront(idle_standbys[t])]
      BY <1>2 DEF AcquireStandby
    <3>2. /\ PopFront(idle_standbys[t]) \in Seq(PooledConnection)
          /\ Len(PopFront(idle_standbys[t])) <= Len(idle_standbys[t])
          /\ \A i \in DOMAIN PopFront(idle_standbys[t]) :
               \E j \in DOMAIN idle_standbys[t] :
                 PopFront(idle_standbys[t])[i] = idle_standbys[t][j]
      BY <2>2, PopFrontFacts DEF PoolTypeOK
    <3> HIDE DEF t
    <3> QED
      BY <2>2, <3>1, <3>2 DEF PoolTypeOK
  <2>4. /\ UNCHANGED <<leader_addr, standby_addrs, idle_leaders>>
        /\ standby_rr_index' \in 0..(Len(standby_addrs) - 1)
    BY <1>2, <2>1 DEF AcquireStandby, PoolTypeOK
  <2>5. PoolTypeOK'
    BY <2>1, <2>3, <2>4 DEF PoolTypeOK
  <2>6. IdleMatchesTopology'
    BY <2>3, <2>4 DEF IdleMatchesTopology
  <2>7. IdleBounded'
    BY <2>3, <2>4, PoolAssumption DEF IdleBounded, PoolTypeOK
  <2> QED
    BY <2>5, <2>6, <2>7
<1> QED
  BY <1>1, <1>2 DEF AcquireFor

\* release adds a connection only where the topology has a place for it.
LEMMA ReleaseInv ==
  ASSUME PoolInv, NEW conn \in PooledConnection, Release(conn)
  PROVE  PoolInv'
<1> USE DEF PoolInv
<1> DEFINE a == conn.addr
<1>1. a \in Addr
  BY DEF PooledConnection
<1>2. /\ PushBack(idle_leaders, conn) \in Seq(PooledConnection)
      /\ Len(PushBack(idle_leaders, conn)) <= MaxIdle
      /\ \A i \in DOMAIN PushBack(idle_leaders, conn) :
           PushBack(idle_leaders, conn)[i] = conn
           \/ (i \in DOMAIN idle_leaders
               /\ PushBack(idle_leaders, conn)[i] = idle_leaders[i])
  BY PushBackFacts, PoolAssumption DEF PoolTypeOK, IdleBounded
<1>3. /\ PushBack(idle_standbys[a], conn) \in Seq(PooledConnection)
      /\ Len(PushBack(idle_standbys[a], conn)) <= MaxIdle
      /\ \A i \in DOMAIN PushBack(idle_standbys[a], conn) :
           PushBack(idle_standbys[a], conn)[i] = conn
           \/ (i \in DOMAIN idle_standbys[a]
               /\ PushBack(idle_standbys[a], conn)[i] = idle_standbys[a][i])
  BY <1>1, PushBackFacts, PoolAssumption DEF PoolTypeOK, IdleBounded
<1>4. UNCHANGED <<leader_addr, standby_addrs, standby_rr_index>>
  BY DEF Release
<1>5. CASE conn.role = "leader"
  <2>1. /\ UNCHANGED idle_standbys
        /\ \/ UNCHANGED idle_leaders
           \/ a = leader_addr /\ idle_leaders' = PushBack(idle_leaders, conn)
    BY <1>5 DEF Release
  <2>2. PoolTypeOK'
    BY <1>2, <1>4, <2>1 DEF PoolTypeOK
  <2>3. IdleMatchesTopology'
    BY <1>2, <1>4, <1>5, <2>1 DEF IdleMatchesTopology
  <2>4. IdleBounded'
    BY <1>2, <1>4, <2>1 DEF IdleBounded
  <2> QED
    BY <2>2, <2>3, <2>4
<1>6. CASE conn.role = "standby"
  <2>1. /\ UNCHANGED idle_leaders
        /\ \/ UNCHANGED idle_standbys
           \/ /\ a \in Range(standby_addrs)
              /\ idle_standbys' =
                   [idle_standbys EXCEPT ![a] = PushBack(idle_standbys[a], conn)]
    BY <1>6 DEF Release
  <2> HIDE DEF a
  <2>2. PoolTypeOK'
    BY <1>1, <1>3, <1>4, <2>1 DEF PoolTypeOK
  <2>3. IdleMatchesTopology'
    <3>1. conn.addr = a
      BY DEF a
    <3>2. ASSUME NEW b \in Addr, NEW i \in DOMAIN idle_standbys'[b]
          PROVE  /\ idle_standbys'[b][i].role = "standby"
                 /\ idle_standbys'[b][i].addr = b
                 /\ b \in Range(standby_addrs)
      <4>1. CASE UNCHANGED idle_standbys \/ b # a
        <5>1. idle_standbys'[b] = idle_standbys[b]
          BY <1>1, <2>1, <4>1 DEF PoolTypeOK
        <5> QED
          BY <5>1 DEF IdleMatchesTopology
      <4>2. CASE b = a /\ ~UNCHANGED idle_standbys
        <5>1. /\ idle_standbys'[a] = PushBack(idle_standbys[a], conn)
              /\ a \in Range(standby_addrs)
          BY <1>1, <2>1, <4>2 DEF PoolTypeOK
        <5>2. \/ idle_standbys'[b][i] = conn
              \/ i \in DOMAIN idle_standbys[a]
                 /\ idle_standbys'[b][i] = idle_standbys[a][i]
          BY <1>3, <4>2, <5>1
        <5> QED
          BY <1>1, <1>6, <3>1, <4>2, <5>1, <5>2 DEF IdleMatchesTopology
      <4> QED
        BY <4>1, <4>2
    <3> QED
      BY <1>4, <2>1, <3>2 DEF IdleMatchesTopology
  <2>4. IdleBounded'
    BY <1>1, <1>3, <1>4, <2>1 DEF IdleBounded, PoolTypeOK
  <2> QED
    BY <2>2, <2>3, <2>4
<1> QED
  BY <1>5, <1>6 DEF PooledConnection, BackendRole

\* The pool as a whole: no sequence of topology updates, drains, acquisitions
\* and releases leaves an idle connection to a server that lost its role, or
\* a queue longer than max_idle_per_node.
THEOREM PoolSafety == PoolSpec => [](IdleMatchesTopology /\ IdleBounded)
<1>1. PoolInv /\ [PoolNext]_poolVars => PoolInv'
  <2> SUFFICES ASSUME PoolInv, [PoolNext]_poolVars PROVE PoolInv'
    OBVIOUS
  <2>1. CASE UNCHANGED poolVars
    BY <2>1
    DEF PoolInv, PoolTypeOK, IdleMatchesTopology, IdleBounded, poolVars
  <2>2. CASE PoolNext
    BY <2>2, UpdateTopologyInv, DrainAllInv, AcquireInv, ReleaseInv DEF PoolNext
  <2> QED
    BY <2>1, <2>2
<1>2. PoolInv => IdleMatchesTopology /\ IdleBounded
  BY DEF PoolInv
<1> QED
  BY PoolInitInv, <1>1, <1>2, PTL DEF PoolSpec
=============================================================================
