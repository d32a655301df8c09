------------------------------ MODULE MCLedger ------------------------------
(***************************************************************************)
(* Two accounts and the results they can share, for TLC.                   *)
(***************************************************************************)
EXTENDS Ledger, FiniteSetsExt

Ann == "ann"
Bob == "bob"

AnnAndBob == {Ann, Bob}
\* Items of a shop with something free
Prices == [i \in Items |-> IF i = "badge" THEN 0 ELSE 1]

\* Ranked in two rooms, seated the other way round, and an open match of
\* Ann against a guest.
SomeResults ==
  {[who |-> <<Ann, Bob>>, coins |-> <<1, 0>>, ranked |-> TRUE],
   [who |-> <<Bob, Ann>>, coins |-> <<1, 0>>, ranked |-> TRUE],
   [who |-> <<Ann>>, coins |-> <<1>>, ranked |-> FALSE]}

\* services/matches.py: the coins earned in matches are added to the balance,
\* which purchases take their price off.
CoinsAreKept ==
  \A a \in Accounts :
    account[a].coins = Seed + rows[a].coins - MapThenSumSet(LAMBDA i : Price[i], owned[a])
=============================================================================
