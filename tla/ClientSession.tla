--------------------------- MODULE ClientSession ----------------------------
(***************************************************************************)
(* Client sessions of the proxy (session.rs) over the shared pool, while   *)
(* the topology monitor (main.rs) follows servers that die, are promoted   *)
(* and come back.  Every await of a session is a place where the others    *)
(* run: waiting for a connection, opening one, writing the statement and   *)
(* reading the answer are separate steps.                                  *)
(*                                                                         *)
(* Statements are told apart by what the tracker's classification and the  *)
(* server's transaction state make of them.                                *)
(***************************************************************************)
EXTENDS ConnectionPool, TLC

CONSTANTS
  Client,
  NoClient,     \* owner of a connection outside any transaction
  NoConn,       \* active_backend is None
  Database,     \* [Client -> database named in the startup message]
  Statement,    \* [Client -> SUBSET {"read", "write", "bad", "begin", "end"}]
  Targets,      \* the servers in the order the monitor polls them
  MaxDeaths,    \* bound on the deaths of servers
  VanishInTransaction  \* whether a client's stream may end in a transaction

VARIABLES
  alive, epoch, primary, deaths,  \* the PostgreSQL servers
  poll,                           \* the monitor's round over the targets
  sess                            \* the sessions

serverVars == <<alive, epoch, primary, deaths>>
sessionVars == <<serverVars, poll, sess, poolVars>>

Live(conn) == alive[conn.addr] /\ epoch[conn.addr] = conn.link.epoch

\* A session right after the handshake: the tracker and the client both
\* know it to be outside a transaction.  ran is the set of the transactions
\* (NoClient for none) the statement in progress has been executed in.
NewSession ==
  [at |-> "ready", statement |-> "read", tracker |-> "I", told |-> "I",
   backend |-> NoConn, role |-> "leader", target |-> NoAddr,
   retried |-> FALSE, executed |-> FALSE, sent |-> FALSE, ran |-> {}]

NewPoll == [next |-> 1, leader |-> NoAddr, standbys |-> <<>>]

SessionInit ==
  /\ PoolInit
  /\ alive = [a \in Addr |-> TRUE]
  /\ epoch = [a \in Addr |-> 0]
  /\ primary = Targets[1]
  /\ deaths = 0
  /\ poll = NewPoll
  /\ sess = [c \in Client |-> NewSession]

\* c's session changes the given fields.
Set(c, fields) == sess' = [sess EXCEPT ![c] = fields @@ @]

-----------------------------------------------------------------------------
(* The servers: what the sidecars and PostgreSQL do to connections.        *)

Die(a) ==
  /\ alive[a] /\ deaths < MaxDeaths
  /\ alive' = [alive EXCEPT ![a] = FALSE]
  /\ epoch' = [epoch EXCEPT ![a] = @ + 1]
  /\ primary' = IF primary = a THEN NoAddr ELSE primary
  /\ deaths' = deaths + 1
  /\ UNCHANGED <<poll, sess, poolVars>>

Promote(a) ==
  /\ primary = NoAddr /\ alive[a]
  /\ primary' = a
  /\ UNCHANGED <<alive, epoch, deaths, poll, sess, poolVars>>

Revive(a) ==
  /\ ~alive[a]
  /\ alive' = [alive EXCEPT ![a] = TRUE]
  /\ UNCHANGED <<epoch, primary, deaths, poll, sess, poolVars>>

-----------------------------------------------------------------------------
(* The topology monitor polls one target after the other and compares what *)
(* it found with what the pool knows.                                      *)

\* The round with the answer of its next target.
Polled ==
  LET a == Targets[poll.next] IN
  [next |-> poll.next + 1,
   leader |-> IF alive[a] /\ primary = a THEN a ELSE poll.leader,
   standbys |-> IF alive[a] /\ primary # a THEN Append(poll.standbys, a)
                ELSE poll.standbys]

PollTarget ==
  /\ poll.next < Len(Targets)
  /\ poll' = Polled
  /\ UNCHANGED <<serverVars, sess, poolVars>>

\* After the last answer the topology is compared and replaced at once.
PollLast ==
  /\ poll.next = Len(Targets)
  /\ poll' = NewPoll
  /\ IF Polled.leader # leader_addr \/ Polled.standbys # standby_addrs
     THEN UpdateTopology(Polled.leader, Polled.standbys)
     ELSE UNCHANGED poolVars
  /\ UNCHANGED <<serverVars, sess>>

\* Stopping or restarting a node, a switchover and a restore flush the pool.
OperatorDrains ==
  /\ DrainAll
  /\ UNCHANGED <<serverVars, poll, sess>>

-----------------------------------------------------------------------------
(* A session.                                                              *)

\* The tracker keeps a transaction on the leader; outside of one only a
\* statement it classifies as a read may go to a standby.
RequiresLeader(c, s) == sess[c].tracker # "I" \/ s # "read"

HandleQuery(c, s) ==
  /\ sess[c].at = "ready"
  /\ Set(c, [at |-> IF sess[c].backend = NoConn THEN "acquire" ELSE "write",
             statement |-> s,
             role |-> IF RequiresLeader(c, s) THEN "leader" ELSE "standby"])
  /\ UNCHANGED <<serverVars, poll, poolVars>>

\* One attempt of acquire_with_retry: an idle connection, whoever opened it,
\* or else the address to connect to.
Acquire(c) ==
  /\ sess[c].at = "acquire"
  /\ AcquireFor(sess[c].role)
  /\ IF IdleFor(sess[c].role) # <<>>
     THEN Set(c, [at |-> "write", backend |-> Head(IdleFor(sess[c].role))])
     ELSE Set(c, [at |-> "connect", target |-> TargetAddr(sess[c].role)])
  /\ UNCHANGED <<serverVars, poll>>

FreshConnection(c) ==
  [addr |-> sess[c].target, role |-> sess[c].role,
   link |-> [epoch |-> epoch[sess[c].target], database |-> Database[c],
             owner |-> NoClient, failed |-> FALSE]]

Connect(c) ==
  /\ sess[c].at = "connect" /\ alive[sess[c].target]
  /\ Set(c, [at |-> "write", target |-> NoAddr, backend |-> FreshConnection(c)])
  /\ UNCHANGED <<serverVars, poll, poolVars>>

ConnectFails(c) ==
  /\ sess[c].at = "connect" /\ ~alive[sess[c].target]
  /\ Set(c, [at |-> "acquire", target |-> NoAddr])
  /\ UNCHANGED <<serverVars, poll, poolVars>>

\* Mutant: the client is told the status the tracker remembers.
AnswerErrorKeepsStatus(c) ==
  Set(c, [NewSession EXCEPT !.tracker = sess[c].tracker,
                            !.told = sess[c].tracker])

\* The proxy answers with an ErrorResponse and ReadyForQuery(Idle) of its own,
\* which the tracker is not told of; the backend has been given up.
AnswerError(c) ==
  Set(c, [NewSession EXCEPT !.tracker = sess[c].tracker])

\* An attempt fails once failover_timeout has passed.
FailoverTimeout(c) ==
  /\ \/ sess[c].at = "acquire" /\ TargetAddr(sess[c].role) = NoAddr
     \/ sess[c].at = "connect" /\ ~alive[sess[c].target]
  /\ AnswerError(c)
  /\ UNCHANGED <<serverVars, poll, poolVars>>

\* Writing to a connection whose server has died may still succeed.
Write(c) ==
  /\ sess[c].at = "write"
  /\ Set(c, [at |-> "read"])
  /\ UNCHANGED <<serverVars, poll, poolVars>>

\* The backend is gone: the statement is to be written to another one.
Reacquire(c) ==
  Set(c, [at |-> "acquire", retried |-> TRUE, backend |-> NoConn,
          executed |-> FALSE])

\* A second failure is returned from handle_query and ends the session.
WriteFails(c) ==
  /\ sess[c].at = "write" /\ ~Live(sess[c].backend)
  /\ IF sess[c].retried
     THEN Set(c, [NewSession EXCEPT !.at = "closed"])
     ELSE Reacquire(c)
  /\ UNCHANGED <<serverVars, poll, poolVars>>

\* PostgreSQL: the connection after s.  A write on a standby is an error, and
\* so is everything but the end of it in an aborted transaction.
AfterStatement(s, c, conn) ==
  LET link == conn.link
      open == link.owner # NoClient
  IN CASE s = "begin" /\ ~open -> [link EXCEPT !.owner = c]
       [] s = "end" -> [link EXCEPT !.owner = NoClient, !.failed = FALSE]
       [] s = "bad" \/ (s = "write" /\ conn.addr # primary) ->
            [link EXCEPT !.failed = open]
       [] OTHER -> link

Execute(c) ==
  /\ sess[c].at = "read" /\ ~sess[c].executed /\ Live(sess[c].backend)
  /\ Set(c, [executed |-> TRUE,
             ran |-> sess[c].ran \cup {sess[c].backend.link.owner},
             backend |-> [sess[c].backend EXCEPT !.link =
                 AfterStatement(sess[c].statement, c, sess[c].backend)]])
  /\ UNCHANGED <<serverVars, poll, poolVars>>

\* Some of the answer, not yet its ReadyForQuery, goes to the client.
StreamResponse(c) ==
  /\ sess[c].at = "read" /\ ~sess[c].sent
  /\ sess[c].executed /\ Live(sess[c].backend)
  /\ Set(c, [sent |-> TRUE])
  /\ UNCHANGED <<serverVars, poll, poolVars>>

\* The status byte of ReadyForQuery.
Status(link) ==
  IF link.owner = NoClient THEN "I" ELSE IF link.failed THEN "E" ELSE "T"

\* The session once the client and the tracker know the status.
Answered(status, conn) ==
  [NewSession EXCEPT !.tracker = status, !.told = status, !.backend = conn]


\* The end of the answer, which may have arrived before the server died.
ReadyForQuery(c) ==
  /\ sess[c].at = "read" /\ sess[c].executed
  /\ LET conn == sess[c].backend
         status == Status(conn.link)
     IN /\ Set(c, Answered(status, IF status = "I" THEN NoConn ELSE conn))
        /\ IF status = "I" THEN Release(conn) ELSE UNCHANGED poolVars
  /\ UNCHANGED <<serverVars, poll>>


\* The backend's stream ends: the statement is replayed unless some of the
\* answer has reached the client.
BackendClosed(c) ==
  /\ sess[c].at = "read" /\ ~Live(sess[c].backend)
  /\ IF sess[c].sent THEN AnswerError(c) ELSE Reacquire(c)
  /\ UNCHANGED <<serverVars, poll, poolVars>>

\* Terminate drops the session together with the backend it holds.
Terminate(c) ==
  /\ sess[c].at = "ready"
  /\ Set(c, [NewSession EXCEPT !.at = "closed"])
  /\ UNCHANGED <<serverVars, poll, poolVars>>

\* The end of the client's stream returns the held backend to the pool.
ClientEof(c) ==
  /\ VanishInTransaction \/ sess[c].told = "I"
  /\ sess[c].at = "ready"
  /\ Set(c, [NewSession EXCEPT !.at = "closed"])
  /\ IF sess[c].backend = NoConn THEN UNCHANGED poolVars
     ELSE Release(sess[c].backend)
  /\ UNCHANGED <<serverVars, poll>>

Handshake(c) ==
  /\ sess[c].at = "closed"
  /\ Set(c, NewSession)
  /\ UNCHANGED <<serverVars, poll, poolVars>>

-----------------------------------------------------------------------------
Servers == \E a \in Addr : Die(a) \/ Promote(a) \/ Revive(a)

Monitor == PollTarget \/ PollLast

\* What a session does with a statement, once it has one.
Working(c) ==
  \/ Acquire(c) \/ Connect(c) \/ ConnectFails(c) \/ FailoverTimeout(c)
  \/ Write(c) \/ WriteFails(c) \/ Execute(c) \/ StreamResponse(c)
  \/ ReadyForQuery(c) \/ BackendClosed(c)

Clients(c) ==
  \/ \E s \in Statement[c] : HandleQuery(c, s)
  \/ Terminate(c) \/ ClientEof(c) \/ Handshake(c)

SessionNext ==
  \/ Servers
  \/ Monitor
  \/ OperatorDrains
  \/ \E c \in Client : Working(c) \/ Clients(c)

SessionSpec == SessionInit /\ [][SessionNext]_sessionVars

\* Every session task and the monitor's loop are polled by the runtime for
\* ever.  No server has to be promoted or to come back.
SessionFairSpec ==
  /\ SessionSpec
  /\ WF_sessionVars(Monitor)
  /\ \A c \in Client : WF_sessionVars(Working(c))

-----------------------------------------------------------------------------
Holds(c) == sess[c].backend # NoConn



\* A client that was told it is in a transaction, and whose session has not
\* given it up since, holds the connection the transaction is open on.
PinnedWhileOpen ==
  \A c \in Client : sess[c].at = "ready" /\ sess[c].told # "I" =>
    Holds(c) /\ sess[c].backend.link.owner = c

\* A statement of a client that was told it is in a transaction runs in that
\* transaction and nowhere else.
RunsInItsTransaction ==
  \A c \in Client : sess[c].at = "read" /\ sess[c].told # "I" =>
    sess[c].ran \subseteq {c}

\* A statement runs in the database the client asked for when it connected.
RunsInItsDatabase ==
  \A c \in Client : sess[c].at = "read" /\ Holds(c) =>
    sess[c].backend.link.database = Database[c]

=============================================================================
