------------------------------- MODULE Match -------------------------------
(***************************************************************************)
(* What a PvP room promises to the people in it, without rounds, timers,   *)
(* cards or coins: a lobby, a contest for points, a result, and the next   *)
(* contest only by everyone's consent.  PvpRoom is shown to implement it.  *)
(***************************************************************************)
EXTENDS Naturals

CONSTANTS
  People,   \* the ids a player can have
  Nobody,   \* no champion
  Target,   \* points that decide the contest
  Duel      \* TRUE: a contest needs two players to be opened

VARIABLES stage, seats, points, champion, agreed

matchVars == <<stage, seats, points, champion, agreed>>

Opposed(S) == \E p, q \in S : p # q
Level == [p \in People |-> 0]

MatchInit ==
  /\ stage = "lobby"
  /\ seats = {}
  /\ points = Level
  /\ champion = Nobody
  /\ agreed = {}

\* Everything about the contest is forgotten.
Clear == points' = Level /\ champion' = Nobody /\ agreed' = {}

Sit(p) ==
  /\ p \notin seats
  /\ seats' = seats \cup {p}
  /\ UNCHANGED <<stage, points, champion, agreed>>

\* Leaving gives up one's points; a contest nobody opposes is abandoned.
Depart(p) ==
  /\ p \in seats
  /\ seats' = seats \ {p}
  /\ IF stage # "lobby" /\ seats' # {} /\ ~Opposed(seats')
     THEN stage' = "lobby" /\ Clear
     ELSE /\ points' = [points EXCEPT ![p] = 0]
          /\ agreed' = agreed \ {p}
          /\ UNCHANGED <<stage, champion>>

OpenContest ==
  /\ stage = "lobby"
  /\ seats # {}
  /\ Duel => Opposed(seats)
  /\ stage' = "contest"
  /\ Clear
  /\ UNCHANGED seats

\* One seated player with an opponent gains exactly one point; the target
\* decides the contest at that moment.
Point(p) ==
  /\ stage = "contest"
  /\ p \in seats /\ Opposed(seats)
  /\ points' = [points EXCEPT ![p] = @ + 1]
  /\ IF points'[p] = Target
     THEN stage' = "decided" /\ champion' = p
     ELSE UNCHANGED <<stage, champion>>
  /\ UNCHANGED <<seats, agreed>>

Agree(p) ==
  /\ stage = "decided"
  /\ p \in seats
  /\ agreed' = agreed \cup {p}
  /\ UNCHANGED <<stage, seats, points, champion>>

\* The last consent opens the next contest, level again.
Rematch(p) ==
  /\ stage = "decided"
  /\ p \in seats /\ Opposed(seats)
  /\ seats \subseteq agreed \cup {p}
  /\ stage' = "contest"
  /\ Clear
  /\ UNCHANGED seats

Close ==
  /\ stage = "decided"
  /\ stage' = "lobby"
  /\ Clear
  /\ UNCHANGED seats

Advance ==
  \/ OpenContest
  \/ Close
  \/ \E p \in People : Sit(p) \/ Depart(p) \/ Point(p) \/ Agree(p) \/ Rematch(p)

MatchSpec == MatchInit /\ [][Advance]_matchVars
=============================================================================
