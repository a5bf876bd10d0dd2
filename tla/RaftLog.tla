------------------------------- MODULE RaftLog ------------------------------
(***************************************************************************)
(* What the Raft library is promised by a log store: entries follow each   *)
(* other without a gap after the purged ones, and what was acknowledged,   *)
(* be it entries, a vote or a purge, is never lost.  A crash may take only *)
(* entries that were still being written.                                  *)
(***************************************************************************)
EXTENDS Naturals, FiniteSetsExt, Functions

CONSTANTS Entry, Vote, NoVote, MaxIndex

VARIABLES
  log,     \* the entries after the purged ones, by index
  acked,   \* index up to which entries are acknowledged
  vote,
  purged,  \* index of the last purged entry, 0 for none
  open     \* the store is open; only then can the library ask for anything

vars == <<log, acked, vote, purged, open>>

LastIndex == Max(DOMAIN log \cup {purged})

Init ==
  /\ log = [i \in {} |-> 0]
  /\ acked = 0
  /\ vote = NoVote
  /\ purged = 0
  /\ open = TRUE

Write(e) ==
  /\ e.index = LastIndex + 1
  /\ log' = [i \in DOMAIN log \cup {LastIndex + 1} |->
               IF i \in DOMAIN log THEN log[i] ELSE e]
  /\ UNCHANGED <<acked, vote, purged>>

Acknowledge ==
  /\ acked' = LastIndex
  /\ UNCHANGED <<log, vote, purged>>

Truncate(i) ==
  /\ log' = Restrict(log, {j \in DOMAIN log : j < i})
  /\ acked' = Max({j \in DOMAIN log : j < i} \cup {purged})
  /\ UNCHANGED <<vote, purged>>

Purge(n) ==
  /\ n > purged
  /\ purged' = n
  /\ log' = Restrict(log, {j \in DOMAIN log : j > n})
  /\ acked' = Max({acked, n})
  /\ UNCHANGED vote

SaveVote(v) ==
  /\ v > vote
  /\ vote' = v
  /\ UNCHANGED <<log, acked, purged>>

Operation ==
  \/ \E e \in Entry : Write(e)
  \/ Acknowledge
  \/ \E i \in 1..MaxIndex : Truncate(i) \/ Purge(i)
  \/ \E v \in Vote : SaveVote(v)

(* The end of the log that is not acknowledged may be lost, nothing else.  *)
Crash(last) ==
  /\ open /\ ~open'
  /\ last >= acked
  /\ log' = Restrict(log, {j \in DOMAIN log : j <= last})
  /\ UNCHANGED <<acked, vote, purged>>

(* What is found when the store is opened may be made durable at once.     *)
Reopen ==
  /\ ~open /\ open'
  /\ acked' \in {acked, LastIndex}
  /\ UNCHANGED <<log, vote, purged>>

Next ==
  \/ open /\ open' /\ Operation
  \/ \E last \in 0..MaxIndex : Crash(last)
  \/ Reopen

Spec == Init /\ [][Next]_vars
=============================================================================
