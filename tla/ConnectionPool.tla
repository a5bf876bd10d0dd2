--------------------------- MODULE ConnectionPool ---------------------------
(***************************************************************************)
(* The proxy's transaction-level pool of backend connections (pool.rs).    *)
(* All of its state sits behind one mutex, so every operation is one step: *)
(* opening a connection happens outside the lock and belongs to the        *)
(* caller.  A connection is its address, the role it was opened for and    *)
(* what hangs on it at the server (link), which the pool never looks at.   *)
(***************************************************************************)
EXTENDS Naturals, Sequences, Functions

CONSTANTS
  Addr,        \* addresses of the PostgreSQL servers
  NoAddr,      \* no leader is registered
  Link,        \* server-side states of a connection
  MaxIdle,     \* max_idle_per_node
  MaxStandbys  \* most standbys a topology lists

ASSUME PoolAssumption ==
  /\ NoAddr \notin Addr
  /\ MaxIdle \in Nat
  /\ MaxStandbys \in Nat

VARIABLES
  leader_addr,       \* PoolInner
  standby_addrs,
  standby_rr_index,
  idle_leaders,
  idle_standbys

poolVars == <<leader_addr, standby_addrs, standby_rr_index, idle_leaders,
              idle_standbys>>

BackendRole == {"leader", "standby"}

PooledConnection == [addr : Addr, role : BackendRole, link : Link]

\* The lists of standbys a poll of the targets may find.
StandbyLists == UNION {[1..k -> Addr] : k \in 0..MaxStandbys}

PoolInit ==
  /\ leader_addr = NoAddr
  /\ standby_addrs = <<>>
  /\ standby_rr_index = 0
  /\ idle_leaders = <<>>
  /\ idle_standbys = [a \in Addr |-> <<>>]

-----------------------------------------------------------------------------
\* Mutant: the connections to the former leader stay in the pool.
UpdateTopologyKeepsLeaders(leader, standbys) ==
  /\ leader_addr' = leader
  /\ idle_standbys' = [a \in Addr |->
       IF a \in Range(standbys) THEN idle_standbys[a] ELSE <<>>]
  /\ standby_addrs' = standbys
  /\ standby_rr_index' = 0
  /\ UNCHANGED idle_leaders

UpdateTopology(leader, standbys) ==
  /\ leader_addr' = leader
  /\ idle_leaders' = IF leader_addr # leader THEN <<>> ELSE idle_leaders
  /\ idle_standbys' = [a \in Addr |->
       IF a \in Range(standbys) THEN idle_standbys[a] ELSE <<>>]
  /\ standby_addrs' = standbys
  /\ standby_rr_index' = 0

DrainAll ==
  /\ idle_leaders' = <<>>
  /\ idle_standbys' = [a \in Addr |-> <<>>]
  /\ UNCHANGED <<leader_addr, standby_addrs, standby_rr_index>>

\* A read falls back to the leader when no standby is registered.
UsesLeader(role) == role = "leader" \/ standby_addrs = <<>>

\* The address a connection for role is taken from, or opened to.
TargetAddr(role) ==
  IF UsesLeader(role) THEN leader_addr ELSE standby_addrs[standby_rr_index + 1]

\* The idle connections acquire_for takes the oldest of, when there is one.
IdleFor(role) ==
  IF UsesLeader(role) THEN idle_leaders ELSE idle_standbys[TargetAddr(role)]

PopFront(queue) == IF queue = <<>> THEN queue ELSE Tail(queue)

AcquireLeader(role) ==
  /\ UsesLeader(role)
  /\ leader_addr # NoAddr
  /\ idle_leaders' = PopFront(idle_leaders)
  /\ UNCHANGED <<leader_addr, standby_addrs, standby_rr_index, idle_standbys>>

\* The code lets the index grow; only its remainder is ever used, and every
\* change of the list starts it again at zero.
AcquireStandby(role) ==
  /\ ~UsesLeader(role)
  /\ standby_rr_index' = (standby_rr_index + 1) % Len(standby_addrs)
  /\ idle_standbys' = [idle_standbys EXCEPT ![TargetAddr(role)] = PopFront(@)]
  /\ UNCHANGED <<leader_addr, standby_addrs, idle_leaders>>

\* acquire_for, the part under the lock.
AcquireFor(role) == AcquireLeader(role) \/ AcquireStandby(role)

\* Appends conn unless the queue is full, when the connection is closed.
PushBack(queue, conn) ==
  IF Len(queue) < MaxIdle THEN Append(queue, conn) ELSE queue

\* Mutant: the limit is tested with <=.
ReleaseOneTooMany(conn) ==
  /\ idle_leaders' =
       IF conn.role = "leader" /\ conn.addr = leader_addr
       THEN IF Len(idle_leaders) <= MaxIdle THEN Append(idle_leaders, conn)
            ELSE idle_leaders
       ELSE idle_leaders
  /\ UNCHANGED <<leader_addr, standby_addrs, standby_rr_index, idle_standbys>>

\* A connection to a server that has left its role is dropped.
Release(conn) ==
  /\ idle_leaders' =
       IF conn.role = "leader" /\ conn.addr = leader_addr
       THEN PushBack(idle_leaders, conn)
       ELSE idle_leaders
  /\ idle_standbys' =
       IF conn.role = "standby" /\ conn.addr \in Range(standby_addrs)
       THEN [idle_standbys EXCEPT ![conn.addr] = PushBack(@, conn)]
       ELSE idle_standbys
  /\ UNCHANGED <<leader_addr, standby_addrs, standby_rr_index>>

PoolNext ==
  \/ \E l \in Addr \cup {NoAddr}, s \in StandbyLists : UpdateTopology(l, s)
  \/ DrainAll
  \/ \E role \in BackendRole : AcquireFor(role)
  \/ \E conn \in PooledConnection : Release(conn)

PoolSpec == PoolInit /\ [][PoolNext]_poolVars

-----------------------------------------------------------------------------
\* The pool's variables have the types of PoolInner's fields, and the
\* round-robin index stays within the list of standbys.
PoolTypeOK ==
  /\ leader_addr \in Addr \cup {NoAddr}
  /\ standby_addrs \in StandbyLists
  /\ standby_rr_index \in Nat
  /\ standby_addrs = <<>> \/ standby_rr_index < Len(standby_addrs)
  /\ idle_leaders \in Seq(PooledConnection)
  /\ idle_standbys \in [Addr -> Seq(PooledConnection)]

\* Every idle connection leads to a server in the role it was opened for:
\* those of the leader queue to the registered leader, those of a standby's
\* queue to that standby, which is still registered.  A write can therefore
\* not take an idle connection to a former leader (update_topology drains
\* them, release refuses those that come back late).
IdleMatchesTopology ==
  /\ \A i \in DOMAIN idle_leaders :
       idle_leaders[i].role = "leader" /\ idle_leaders[i].addr = leader_addr
  /\ \A a \in Addr : \A i \in DOMAIN idle_standbys[a] :
       /\ idle_standbys[a][i].role = "standby"
       /\ idle_standbys[a][i].addr = a
       /\ a \in Range(standby_addrs)

\* No queue of idle connections outgrows max_idle_per_node.
IdleBounded ==
  /\ Len(idle_leaders) <= MaxIdle
  /\ \A a \in Addr : Len(idle_standbys[a]) <= MaxIdle
=============================================================================
