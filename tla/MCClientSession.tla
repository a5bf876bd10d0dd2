-------------------------- MODULE MCClientSession ---------------------------
(***************************************************************************)
(* Two clients over two servers.                                           *)
(***************************************************************************)
EXTENDS ClientSession

CONSTANTS a1, a2, c1, c2

Addrs == {a1, a2}
TargetList == <<a1, a2>>
Clients2 == {c1, c2}

\* Both clients use one database, or each its own.
OneDatabase == [c \in Clients2 |-> "app"]
TwoDatabases == (c1 :> "app") @@ (c2 :> "reports")

\* One client works in transactions, some of which fail, the other outside.
Mixed == (c1 :> {"begin", "bad", "end"}) @@ (c2 :> {"read"})
Transactions == [c \in Clients2 |-> {"begin", "write", "end"}]

Links ==
  [epoch : 0..MaxDeaths, database : {"app", "reports"},
   owner : Clients2 \cup {NoClient}, failed : BOOLEAN]
=============================================================================
