------------------------------ MODULE PvpRoom ------------------------------
(***************************************************************************)
(* The rules of one PvP room: what game/engine.py and the message handlers *)
(* of api/ws.py do to a Room object.  Each operation is a function from    *)
(* the room's value to its next value, named after the Python function, so *)
(* that GameServer can compose the same operations with the tick loop's    *)
(* suspension points.                                                      *)
(*                                                                         *)
(* A player id is the serial number of the insertion into room.players: in *)
(* the code it is a fresh uuid, and the dictionary keeps insertion order,  *)
(* which is the only thing the rules read from it.                         *)
(*                                                                         *)
(* The physics of a tick is abstracted to its outcome, the set of players  *)
(* alive when the round is judged.                                         *)
(***************************************************************************)
EXTENDS Naturals

CONSTANTS
  Ranked,         \* room.ranked: a ranked room needs two players to start
  ScoreToWin,     \* constants.SCORE_TO_WIN
  RoundEndDelay,  \* constants.ROUND_END_DELAY_TICKS
  MaxJoins,       \* bound: insertions into room.players over a behaviour
  MaxRounds       \* bound: rounds of one match

ASSUME RankedAssumption    == Ranked \in BOOLEAN
ASSUME ScoreAssumption     == ScoreToWin \in Nat \ {0}
ASSUME DelayAssumption     == RoundEndDelay \in Nat \ {0}
ASSUME MaxJoinsAssumption  == MaxJoins \in Nat \ {0}
ASSUME MaxRoundsAssumption == MaxRounds \in Nat

ROUNDS_TO_SCORE == 2
COINS_ROUND_WIN == 10
COINS_MATCH_WIN == 100

Ids    == 1 .. MaxJoins
None   == 0                       \* Python's None where an id is expected
MaybeId == Ids \cup {None}
Phases == {"waiting", "playing", "round_over", "picking", "finished"}

VARIABLES
  room,    \* the Room object
  joined   \* how many players were ever inserted: the last id given out

vars == <<room, joined>>

RoomState ==
  [phase: Phases, players: SUBSET Ids, scores: [Ids -> Nat],
   roundWins: [Ids -> Nat], loserToPick: MaybeId, winnerId: MaybeId,
   votes: SUBSET Ids, timer: Nat, roundWinner: MaybeId,
   roundsPlayed: Nat, earned: [Ids -> Nat], cards: [Ids -> Nat]]

Zero == [p \in Ids |-> 0]         \* an empty dictionary read with .get(id, 0)

\* d[p] += n; None is nobody's key
AddTo(d, p, n) == [q \in Ids |-> IF q = p THEN d[q] + n ELSE d[q]]

\* d.pop(p, None)
Drop(d, p) == [q \in Ids |-> IF q = p THEN 0 ELSE d[q]]

\* len(room.players) >= 2
Several(S) == \E p, q \in S : p # q

\* next(iter(room.players)): the earliest of the players in S
First(S) == CHOOSE p \in S : \A q \in S : p <= q

NewRoom ==
  [phase |-> "waiting", players |-> {}, scores |-> Zero, roundWins |-> Zero,
   loserToPick |-> None, winnerId |-> None, votes |-> {}, timer |-> 0,
   roundWinner |-> None, roundsPlayed |-> 0, earned |-> Zero, cards |-> Zero]

(***************************************************************************)
(* engine.py                                                               *)
(***************************************************************************)

ResetRound(r) ==
  IF r.phase = "finished" THEN r
  ELSE [r EXCEPT !.phase = "playing", !.timer = 0, !.loserToPick = None,
                 !.roundWinner = None]

ResetMatch(r) ==
  [r EXCEPT !.phase = "waiting", !.scores = Zero, !.roundWins = Zero,
            !.votes = {}, !.winnerId = None, !.loserToPick = None,
            !.timer = 0, !.roundWinner = None, !.roundsPlayed = 0,
            !.cards = Zero]

CanStart(r) ==
  /\ r.phase = "waiting"
  /\ r.players # {}
  /\ Ranked => Several(r.players)

\* bug: coins_earned runs on into the next match
StartGameKeepsCoins(r) ==
  ResetRound([r EXCEPT !.scores = Zero, !.roundWins = Zero, !.votes = {},
                       !.winnerId = None, !.roundsPlayed = 0])

StartGame(r) ==
  ResetRound([r EXCEPT !.scores = Zero, !.roundWins = Zero, !.votes = {},
                       !.winnerId = None, !.roundsPlayed = 0,
                       !.earned = Zero])

\* The round is decided: at most one of at least two players is alive.
RoundDecided(r, alive) == Several(r.players) /\ ~Several(alive)

\* The part of _check_round_over after its early returns: the survivor, if
\* there is one, takes the round and is paid for it.
EndRound(r, alive) ==
  LET w == IF alive = {} THEN None ELSE First(alive)
  IN  [r EXCEPT !.phase = "round_over", !.timer = RoundEndDelay,
                !.roundsPlayed = @ + 1, !.roundWinner = w,
                !.roundWins = AddTo(@, w, 1),
                !.earned = AddTo(@, w, COINS_ROUND_WIN)]

\* _resolve_round_over when the round's winner has earned a point.
FinishMatch(r, w) ==
  [r EXCEPT !.phase = "finished", !.winnerId = w, !.loserToPick = None,
            !.earned = AddTo(@, w, COINS_MATCH_WIN)]

OpenPick(r, w) ==
  [r EXCEPT !.phase = "picking", !.loserToPick = First(r.players \ {w})]

\* bug: the match goes on at the target
ScorePointPastTarget(r, w) ==
  LET scored == [r EXCEPT !.scores = AddTo(@, w, 1), !.roundWins = Zero,
                          !.roundWinner = None, !.timer = 0]
  IN  IF scored.scores[w] > ScoreToWin THEN FinishMatch(scored, w)
                                       ELSE OpenPick(scored, w)

ScorePoint(r, w) ==
  LET scored == [r EXCEPT !.scores = AddTo(@, w, 1), !.roundWins = Zero,
                          !.roundWinner = None, !.timer = 0]
  IN  IF scored.scores[w] >= ScoreToWin THEN FinishMatch(scored, w)
                                        ELSE OpenPick(scored, w)

\* bug: a draw, or a winner who left, leads nowhere
ResolveRoundOverKeepsDraw(r) ==
  LET w == r.roundWinner
  IN  IF w \in r.players /\ r.roundWins[w] >= ROUNDS_TO_SCORE THEN ScorePoint(r, w)
      ELSE IF w \in r.players THEN ResetRound(r)
      ELSE r

ResolveRoundOver(r) ==
  LET w == r.roundWinner
  IN  IF w \in r.players /\ r.roundWins[w] >= ROUNDS_TO_SCORE
      THEN ScorePoint(r, w)
      ELSE ResetRound(r)

\* tick_room: the survivors of this tick's physics are alive.
TickRoom(r, alive) ==
  CASE r.phase = "playing" /\ RoundDecided(r, alive) -> EndRound(r, alive)
    [] r.phase = "round_over" /\ r.timer > 1 -> [r EXCEPT !.timer = @ - 1]
    [] r.phase = "round_over" /\ r.timer <= 1 -> ResolveRoundOver(r)
    [] OTHER -> r

CanPick(r, p) == r.phase = "picking" /\ r.loserToPick = p /\ p \in r.players

PickCard(r, p) ==
  ResetRound([r EXCEPT !.loserToPick = None, !.cards = AddTo(@, p, 1)])

CanVote(r, p) == r.phase = "finished" /\ p \in r.players

\* bug: one consent is enough
VoteRematchAlone(r, p, accept) ==
  IF ~accept THEN ResetMatch(r)
  ELSE IF Several(r.players) THEN StartGame(ResetMatch(r)) ELSE r

VoteRematch(r, p, accept) ==
  LET voted == [r EXCEPT !.votes = @ \cup {p}]
  IN  IF ~accept THEN ResetMatch(r)
      ELSE IF Several(r.players) /\ r.players \subseteq voted.votes
           THEN StartGame(ResetMatch(voted))
           ELSE voted

(***************************************************************************)
(* api/ws.py: entering and leaving                                         *)
(***************************************************************************)

Enter(r, p) ==
  [r EXCEPT !.players = @ \cup {p}]

\* bug: the room goes on waiting for the card of a player who left
UnseatKeepsPicker(r, p) ==
  [r EXCEPT !.players = @ \ {p}, !.votes = @ \ {p},
            !.scores = Drop(@, p), !.roundWins = Drop(@, p),
            !.earned = Drop(@, p), !.cards = Drop(@, p)]

\* The Player object goes with its coins and cards; the dictionaries are
\* popped; losing the one who has to pick restarts the round.
Unseat(r, p) ==
  LET gone == [r EXCEPT !.players = @ \ {p}, !.votes = @ \ {p},
                        !.scores = Drop(@, p), !.roundWins = Drop(@, p),
                        !.earned = Drop(@, p), !.cards = Drop(@, p)]
  IN  IF r.loserToPick = p
      THEN ResetRound([gone EXCEPT !.loserToPick = None])
      ELSE gone

\* engine.forget_room: the room is dropped from the manager.
Forget(r) == [r EXCEPT !.roundWinner = None]

Cleanup(r, p) ==
  LET left == Unseat(r, p)
  IN  IF left.players = {} THEN Forget(left)
      ELSE IF ~Several(left.players) /\ left.phase # "waiting"
           THEN ResetMatch(left)
           ELSE left

(***************************************************************************)
(* The specification                                                       *)
(***************************************************************************)

Init ==
  /\ room = NewRoom
  /\ joined = 0

Join ==
  /\ joined < MaxJoins
  /\ joined' = joined + 1
  /\ room' = Enter(room, joined + 1)

Leave(p) ==
  /\ p \in room.players
  /\ room' = Cleanup(room, p)
  /\ UNCHANGED joined

Start ==
  /\ CanStart(room)
  /\ room' = StartGame(room)
  /\ UNCHANGED joined

Tick(alive) ==
  /\ room.phase = "playing" /\ RoundDecided(room, alive) =>
       room.roundsPlayed < MaxRounds
  /\ room' = TickRoom(room, alive)
  /\ UNCHANGED joined

Pick(p) ==
  /\ CanPick(room, p)
  /\ room' = PickCard(room, p)
  /\ UNCHANGED joined

Vote(p, accept) ==
  /\ CanVote(room, p)
  /\ room' = VoteRematch(room, p, accept)
  /\ UNCHANGED joined

Restart ==
  /\ room.phase = "finished"
  /\ room.players # {}
  /\ room' = ResetMatch(room)
  /\ UNCHANGED joined

Next ==
  \/ Join
  \/ Start
  \/ Restart
  \/ \E p \in room.players : Leave(p)
  \/ \E p \in room.players : Pick(p)
  \/ \E p \in room.players, accept \in BOOLEAN : Vote(p, accept)
  \/ \E alive \in SUBSET room.players : Tick(alive)

Spec == Init /\ [][Next]_vars

(***************************************************************************)
(* Properties                                                              *)
(***************************************************************************)

\* The room's fields have their declared types.
TypeOK == room \in RoomState /\ joined \in 0 .. MaxJoins

\* A room waits for a card only while the player who must choose is in it:
\* otherwise the match would hang in "picking" (_cleanup, _resolve_round_over).
PickerIsPresent ==
  /\ room.phase = "picking" <=> room.loserToPick # None
  /\ room.loserToPick # None => room.loserToPick \in room.players

\* A decided round, a card choice and a result screen always have an
\* opponent in the room, and so has every round of a ranked match.
NobodyPlaysAlone ==
  /\ room.phase \in {"round_over", "picking", "finished"} => Several(room.players)
  /\ Ranked /\ room.phase = "playing" => Several(room.players)

\* Nobody has more points than the target, and whoever has them is the
\* declared winner of a finished match (_resolve_round_over).
TargetEndsTheMatch ==
  /\ room.phase = "finished" <=> room.winnerId # None
  /\ \A p \in Ids :
       /\ room.scores[p] <= ScoreToWin
       /\ room.scores[p] = ScoreToWin => room.winnerId = p
  /\ room.winnerId \in room.players => room.scores[room.winnerId] = ScoreToWin

\* Round wins never pile up beyond one point's worth, and a complete set is
\* only seen while the round that completed it is being shown.
RoundWinsAreSpent ==
  \A p \in Ids :
    /\ room.roundWins[p] <= ROUNDS_TO_SCORE
    /\ room.roundWins[p] = ROUNDS_TO_SCORE =>
         room.phase = "round_over" /\ room.roundWinner = p

\* A lobby carries nothing over from an earlier match (reset_match), so the
\* next match starts level.
LobbyIsClean ==
  room.phase = "waiting" =>
    /\ room.scores = Zero /\ room.roundWins = Zero /\ room.cards = Zero
    /\ room.votes = {} /\ room.roundsPlayed = 0 /\ room.roundWinner = None

\* Rematch votes belong to players on the result screen.
VotesAreCurrent ==
  /\ room.votes \subseteq room.players
  /\ room.votes # {} => room.phase = "finished"

\* A player who left holds no points, wins, coins or cards in the room.
LeaversHoldNothing ==
  \A p \in Ids \ room.players :
    /\ room.scores[p] = 0 /\ room.roundWins[p] = 0
    /\ room.earned[p] = 0 /\ room.cards[p] = 0

\* The coins of a running match are paid for: every round win behind the
\* player's points is in them, and never more than one win per round played
\* plus the match bonus of the winner (the value recorded with the result).
CoinsAreEarned ==
  room.phase # "waiting" =>
    \A p \in room.players :
      /\ COINS_ROUND_WIN * (ROUNDS_TO_SCORE * room.scores[p] + room.roundWins[p])
           <= room.earned[p]
      /\ room.earned[p] <=
           COINS_ROUND_WIN * room.roundsPlayed
           + (IF room.winnerId = p THEN COINS_MATCH_WIN ELSE 0)

\* Ids stored in the room were given out: none belongs to a player to come.
IdsWereIssued ==
  /\ room.players \subseteq 1 .. joined
  /\ room.winnerId <= joined
  /\ room.roundWinner <= joined

\* docs/PROTOCOL.md, engine.vote_rematch: a rematch everyone agreed to starts
\* at once.
UnanimityStarts ==
  room.phase = "finished" /\ Several(room.players) => ~(room.players \subseteq room.votes)

\* The inductive invariant: the safety invariants hold each other up, and the
\* ids they mention are old ones.
RoomInv ==
  /\ TypeOK
  /\ IdsWereIssued
  /\ PickerIsPresent
  /\ NobodyPlaysAlone
  /\ TargetEndsTheMatch
  /\ RoundWinsAreSpent
  /\ LobbyIsClean
  /\ VotesAreCurrent
  /\ LeaversHoldNothing
  /\ CoinsAreEarned

(***************************************************************************)
(* Refinement: the room seen as the match it promises                      *)
(***************************************************************************)

Stage ==
  CASE room.phase = "waiting"  -> "lobby"
    [] room.phase = "finished" -> "decided"
    [] OTHER                   -> "contest"

M == INSTANCE Match WITH
       People <- Ids, Nobody <- None, Target <- ScoreToWin, Duel <- Ranked,
       stage <- Stage, seats <- room.players, points <- room.scores,
       champion <- room.winnerId, agreed <- room.votes

\* Rounds, timers, card choices and departures never show more than a match
\* played for points: each point goes to a seated, opposed player, exactly
\* the target decides, and a rematch needs every seated player's consent.
ImplementsMatch == M!MatchSpec
=============================================================================
