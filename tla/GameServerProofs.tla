-------------------------- MODULE GameServerProofs --------------------------
(***************************************************************************)
(* The rules of a room, and the rules carried over to the server and the   *)
(* record of matches.                                                      *)
(*                                                                         *)
(* First the room alone: its invariant, and the match it implements.  Then *)
(* each step of the server is classified by what it does to the record: a  *)
(* quiet step touches neither the tick nor the record, a kickoff opens the *)
(* next match, a forfeit closes one, and the four steps of the loop remain *)
(* as they are.                                                            *)
(***************************************************************************)
EXTENDS GameServer, WellFoundedInduction, FiniteSetTheorems, SequenceTheorems, TLAPS

\* The first of some players is one of them: insertion numbers have a least.
LEMMA FirstMember ==
  ASSUME NEW S \in SUBSET Ids, S # {}
  PROVE  First(S) \in S
<1> DEFINE R == OpToRel(<, Nat)
<1>1. S \subseteq Nat
  BY DEF Ids
<1>2. PICK n \in S : \A m \in S : ~ (<<m, n>> \in R)
  <2> HIDE DEF R
  <2> QED BY <1>1, WFMin, NatLessThanWellFounded DEF R
<1>3. \A m \in S : n <= m
  <2> TAKE m \in S
  <2>1. n \in Nat /\ m \in Nat
    BY <1>1
  <2>2. ~ (m < n)
    BY <1>2, <2>1 DEF OpToRel
  <2> QED BY <2>1, <2>2
<1> QED BY <1>3 DEF First

\* Crediting or dropping a player keeps a table of numbers one.
LEMMA TableTypes ==
  /\ Zero \in [Ids -> Nat]
  /\ \A d \in [Ids -> Nat], p \in MaybeId, n \in Nat : AddTo(d, p, n) \in [Ids -> Nat]
  /\ \A d \in [Ids -> Nat], p \in MaybeId : Drop(d, p) \in [Ids -> Nat]
BY DEF Zero, AddTo, Drop

\* What reset_round leaves behind: a new round of the same match.
LEMMA ResetRoundFields ==
  ASSUME NEW r \in RoomState, r.phase # "finished"
  PROVE  LET t == ResetRound(r)
         IN  /\ t \in RoomState
             /\ t.phase = "playing" /\ t.loserToPick = None /\ t.roundWinner = None
             /\ t.players = r.players /\ t.scores = r.scores
             /\ t.roundWins = r.roundWins /\ t.winnerId = r.winnerId
             /\ t.votes = r.votes /\ t.roundsPlayed = r.roundsPlayed
             /\ t.earned = r.earned /\ t.cards = r.cards
BY DEF ResetRound, RoomState, Phases, MaybeId, None

\* What reset_match leaves behind: an empty lobby, coins apart.
LEMMA ResetMatchFields ==
  ASSUME NEW r \in RoomState
  PROVE  LET t == ResetMatch(r)
         IN  /\ t \in RoomState
             /\ t.phase = "waiting" /\ t.loserToPick = None /\ t.roundWinner = None
             /\ t.players = r.players /\ t.scores = Zero
             /\ t.roundWins = Zero /\ t.winnerId = None
             /\ t.votes = {} /\ t.roundsPlayed = 0
             /\ t.earned = r.earned /\ t.cards = Zero
BY TableTypes DEF ResetMatch, RoomState, Phases, MaybeId, None

\* What start_game leaves behind: a first round with nothing won yet.
LEMMA StartGameFields ==
  ASSUME NEW r \in RoomState, r.phase = "waiting"
  PROVE  LET t == StartGame(r)
         IN  /\ t \in RoomState
             /\ t.phase = "playing" /\ t.loserToPick = None /\ t.roundWinner = None
             /\ t.players = r.players /\ t.scores = Zero
             /\ t.roundWins = Zero /\ t.winnerId = None
             /\ t.votes = {} /\ t.roundsPlayed = 0
             /\ t.earned = Zero /\ t.cards = r.cards
<1> DEFINE s == [r EXCEPT !.scores = Zero, !.roundWins = Zero, !.votes = {},
                          !.winnerId = None, !.roundsPlayed = 0, !.earned = Zero]
<1>1. /\ s \in RoomState /\ s.phase = "waiting"
      /\ s.players = r.players /\ s.scores = Zero /\ s.roundWins = Zero
      /\ s.winnerId = None /\ s.votes = {} /\ s.roundsPlayed = 0
      /\ s.earned = Zero /\ s.cards = r.cards
  BY TableTypes DEF RoomState, MaybeId
<1> HIDE DEF s
<1>2. StartGame(r) = ResetRound(s)
  BY DEF StartGame, s
<1> QED BY <1>1, <1>2, ResetRoundFields

\* What a decided round changes: the last one alive is credited, or nobody.
LEMMA EndRoundFields ==
  ASSUME NEW r \in RoomState, NEW alive \in SUBSET Ids
  PROVE  LET t == EndRound(r, alive)
         IN  /\ t \in RoomState
             /\ t.phase = "round_over"
             /\ t.roundWinner \in alive \cup {None}
             /\ t.roundWins = AddTo(r.roundWins, t.roundWinner, 1)
             /\ t.earned = AddTo(r.earned, t.roundWinner, COINS_ROUND_WIN)
             /\ t.roundsPlayed = r.roundsPlayed + 1
             /\ t.players = r.players /\ t.scores = r.scores
             /\ t.loserToPick = r.loserToPick /\ t.winnerId = r.winnerId
             /\ t.votes = r.votes /\ t.cards = r.cards
<1> DEFINE w == IF alive = {} THEN None ELSE First(alive)
<1>1. w \in alive \cup {None}
  BY FirstMember
<1>2. w \in MaybeId
  BY <1>1 DEF MaybeId
<1> HIDE DEF w
<1>3. EndRound(r, alive) =
        [r EXCEPT !.phase = "round_over", !.timer = RoundEndDelay,
                  !.roundsPlayed = @ + 1, !.roundWinner = w,
                  !.roundWins = AddTo(@, w, 1),
                  !.earned = AddTo(@, w, COINS_ROUND_WIN)]
  BY DEF EndRound, w
<1>4. /\ AddTo(r.roundWins, w, 1) \in [Ids -> Nat]
      /\ AddTo(r.earned, w, COINS_ROUND_WIN) \in [Ids -> Nat]
  BY <1>2, TableTypes DEF RoomState, COINS_ROUND_WIN
<1> DEFINE t == EndRound(r, alive)
<1>5. /\ RoundEndDelay \in Nat /\ r.roundsPlayed + 1 \in Nat
  BY DelayAssumption DEF RoomState
<1>6. t \in RoomState
  BY <1>2, <1>3, <1>4, <1>5 DEF RoomState, Phases
<1>7. /\ t.phase = "round_over" /\ t.roundWinner = w
      /\ t.roundWins = AddTo(r.roundWins, w, 1)
      /\ t.earned = AddTo(r.earned, w, COINS_ROUND_WIN)
      /\ t.roundsPlayed = r.roundsPlayed + 1
      /\ t.players = r.players /\ t.scores = r.scores
      /\ t.loserToPick = r.loserToPick /\ t.winnerId = r.winnerId
      /\ t.votes = r.votes /\ t.cards = r.cards
  BY <1>3 DEF RoomState
<1> QED BY <1>1, <1>6, <1>7

\* What a point changes: the match is won, or a card is due to somebody else.
LEMMA ScorePointFields ==
  ASSUME NEW r \in RoomState, NEW w \in r.players, Several(r.players)
  PROVE  LET t == ScorePoint(r, w)
         IN  /\ t \in RoomState
             /\ t.scores = AddTo(r.scores, w, 1) /\ t.roundWins = Zero
             /\ t.roundWinner = None
             /\ t.players = r.players /\ t.votes = r.votes
             /\ t.roundsPlayed = r.roundsPlayed /\ t.cards = r.cards
             /\ IF t.scores[w] >= ScoreToWin
                THEN /\ t.phase = "finished" /\ t.winnerId = w
                     /\ t.loserToPick = None
                     /\ t.earned = AddTo(r.earned, w, COINS_MATCH_WIN)
                ELSE /\ t.phase = "picking" /\ t.winnerId = r.winnerId
                     /\ t.loserToPick \in r.players
                     /\ t.earned = r.earned
<1> DEFINE s == [r EXCEPT !.scores = AddTo(@, w, 1), !.roundWins = Zero,
                          !.roundWinner = None, !.timer = 0]
<1>0. r.players \subseteq Ids /\ w \in Ids
  BY DEF RoomState
<1>1. /\ s \in RoomState
      /\ s.scores = AddTo(r.scores, w, 1) /\ s.roundWins = Zero
      /\ s.roundWinner = None /\ s.players = r.players /\ s.votes = r.votes
      /\ s.roundsPlayed = r.roundsPlayed /\ s.cards = r.cards
      /\ s.winnerId = r.winnerId /\ s.earned = r.earned
  BY <1>0, TableTypes DEF RoomState, MaybeId
<1> HIDE DEF s
<1>2. First(s.players \ {w}) \in r.players
  <2>1. s.players \ {w} # {}
    BY <1>1 DEF Several
  <2> QED BY <1>0, <1>1, <2>1, FirstMember
<1>3. ScorePoint(r, w) = IF s.scores[w] >= ScoreToWin THEN FinishMatch(s, w)
                                                       ELSE OpenPick(s, w)
  BY DEF ScorePoint, s
<1>4. CASE s.scores[w] >= ScoreToWin
  <2>1. ScorePoint(r, w) = FinishMatch(s, w)
    BY <1>3, <1>4
  <2>2. AddTo(s.earned, w, COINS_MATCH_WIN) \in [Ids -> Nat]
    BY <1>0, <1>1, TableTypes DEF RoomState, MaybeId, COINS_MATCH_WIN
  <2> QED
    BY <1>0, <1>1, <1>4, <2>1, <2>2 DEF FinishMatch, RoomState, Phases, MaybeId
<1>5. CASE ~ (s.scores[w] >= ScoreToWin)
  <2>1. ScorePoint(r, w) = OpenPick(s, w)
    BY <1>3, <1>5
  <2> QED
    BY <1>0, <1>1, <1>2, <1>5, <2>1 DEF OpenPick, RoomState, Phases, MaybeId
<1> QED BY <1>4, <1>5

\* What a picked card changes: the next round of the same match begins.
LEMMA PickCardFields ==
  ASSUME NEW r \in RoomState, NEW p \in Ids, r.phase = "picking"
  PROVE  LET t == PickCard(r, p)
         IN  /\ t \in RoomState
             /\ t.phase = "playing" /\ t.loserToPick = None /\ t.roundWinner = None
             /\ t.cards = AddTo(r.cards, p, 1)
             /\ t.players = r.players /\ t.scores = r.scores
             /\ t.roundWins = r.roundWins /\ t.winnerId = r.winnerId
             /\ t.votes = r.votes /\ t.roundsPlayed = r.roundsPlayed
             /\ t.earned = r.earned
<1> DEFINE s == [r EXCEPT !.loserToPick = None, !.cards = AddTo(@, p, 1)]
<1>1. /\ s \in RoomState /\ s.phase = "picking"
      /\ s.cards = AddTo(r.cards, p, 1)
      /\ s.players = r.players /\ s.scores = r.scores
      /\ s.roundWins = r.roundWins /\ s.winnerId = r.winnerId
      /\ s.votes = r.votes /\ s.roundsPlayed = r.roundsPlayed
      /\ s.earned = r.earned
  BY TableTypes DEF RoomState, MaybeId
<1> HIDE DEF s
<1>2. PickCard(r, p) = ResetRound(s)
  BY DEF PickCard, s
<1> QED BY <1>1, <1>2, ResetRoundFields

\* What _cleanup takes from a leaver: everything that was his.
LEMMA UnseatFields ==
  ASSUME NEW r \in RoomState, NEW p \in Ids,
         r.loserToPick = p => r.phase # "finished"
  PROVE  LET t == Unseat(r, p)
         IN  /\ t \in RoomState
             /\ t.players = r.players \ {p} /\ t.votes = r.votes \ {p}
             /\ t.scores = Drop(r.scores, p) /\ t.roundWins = Drop(r.roundWins, p)
             /\ t.earned = Drop(r.earned, p) /\ t.cards = Drop(r.cards, p)
             /\ t.winnerId = r.winnerId /\ t.roundsPlayed = r.roundsPlayed
             /\ IF r.loserToPick = p
                THEN /\ t.phase = "playing"
                     /\ t.loserToPick = None /\ t.roundWinner = None
                ELSE /\ t.phase = r.phase
                     /\ t.loserToPick = r.loserToPick
                     /\ t.roundWinner = r.roundWinner
<1> DEFINE gone == [r EXCEPT !.players = @ \ {p}, !.votes = @ \ {p},
                        !.scores = Drop(@, p), !.roundWins = Drop(@, p),
                        !.earned = Drop(@, p), !.cards = Drop(@, p)]
           free == [gone EXCEPT !.loserToPick = None]
<1>1. /\ gone \in RoomState
      /\ gone.players = r.players \ {p} /\ gone.votes = r.votes \ {p}
      /\ gone.scores = Drop(r.scores, p) /\ gone.roundWins = Drop(r.roundWins, p)
      /\ gone.earned = Drop(r.earned, p) /\ gone.cards = Drop(r.cards, p)
      /\ gone.winnerId = r.winnerId /\ gone.roundsPlayed = r.roundsPlayed
      /\ gone.phase = r.phase /\ gone.loserToPick = r.loserToPick
      /\ gone.roundWinner = r.roundWinner
  BY TableTypes DEF RoomState, MaybeId
<1>2. Unseat(r, p) = IF r.loserToPick = p THEN ResetRound(free) ELSE gone
  BY DEF Unseat
<1> HIDE DEF gone
<1>3. /\ free \in RoomState
      /\ free.players = gone.players /\ free.votes = gone.votes
      /\ free.scores = gone.scores /\ free.roundWins = gone.roundWins
      /\ free.earned = gone.earned /\ free.cards = gone.cards
      /\ free.winnerId = gone.winnerId /\ free.roundsPlayed = gone.roundsPlayed
      /\ free.phase = gone.phase
  BY <1>1 DEF RoomState, MaybeId
<1> HIDE DEF free
<1>4. CASE r.loserToPick = p
  BY <1>1, <1>2, <1>3, <1>4, ResetRoundFields
<1>5. CASE r.loserToPick # p
  BY <1>1, <1>2, <1>5
<1> QED BY <1>4, <1>5

(***************************************************************************)
(* The invariant                                                           *)
(***************************************************************************)

\* A newcomer's id is new, so no old field speaks of him.
LEMMA JoinPreserves ==
  ASSUME RoomInv, Join
  PROVE  RoomInv'
<1> DEFINE p == joined + 1
<1>1. /\ p \in Ids /\ joined' = p /\ joined' \in 0 .. MaxJoins
  BY MaxJoinsAssumption DEF Join, Ids, RoomInv, TypeOK
<1>2. /\ room' \in RoomState
      /\ room'.players = room.players \cup {p}
      /\ room'.phase = room.phase /\ room'.scores = room.scores
      /\ room'.roundWins = room.roundWins /\ room'.votes = room.votes
      /\ room'.loserToPick = room.loserToPick /\ room'.winnerId = room.winnerId
      /\ room'.roundWinner = room.roundWinner
      /\ room'.roundsPlayed = room.roundsPlayed
      /\ room'.earned = room.earned /\ room'.cards = room.cards
  BY <1>1 DEF Join, Enter, RoomInv, TypeOK, RoomState
<1>3. p \notin room.players
  BY DEF RoomInv, IdsWereIssued, TypeOK
<1> HIDE DEF p
<1>4. TypeOK' /\ PickerIsPresent' /\ NobodyPlaysAlone' /\ VotesAreCurrent' /\ LobbyIsClean'
  BY <1>1, <1>2 DEF RoomInv, TypeOK, PickerIsPresent, NobodyPlaysAlone, VotesAreCurrent, LobbyIsClean, Several
<1>5. IdsWereIssued'
  BY <1>1, <1>2 DEF RoomInv, TypeOK, IdsWereIssued, p, RoomState, MaybeId, Ids, None
<1>6. TargetEndsTheMatch'
  <2>1. room.winnerId # p
    BY DEF RoomInv, IdsWereIssued, TypeOK, p
  <2> QED BY <1>2, <2>1 DEF RoomInv, TargetEndsTheMatch
<1>7. RoundWinsAreSpent' /\ LeaversHoldNothing'
  BY <1>1, <1>2 DEF RoomInv, RoundWinsAreSpent, LeaversHoldNothing
<1>8. CoinsAreEarned'
  BY <1>1, <1>2, <1>3 DEF RoomInv, CoinsAreEarned, LeaversHoldNothing, TypeOK, RoomState, COINS_ROUND_WIN, ROUNDS_TO_SCORE, COINS_MATCH_WIN
<1> QED BY <1>4, <1>5, <1>6, <1>7, <1>8 DEF RoomInv

\* A kickoff levels everything but the cards, which a lobby has none of.
LEMMA StartGameEstablishes ==
  ASSUME NEW r \in RoomState, r.phase = "waiting", room' = StartGame(r),
         joined' = joined, joined \in 0 .. MaxJoins, r.players \subseteq 1 .. joined,
         Ranked => Several(r.players), \A p \in Ids \ r.players : r.cards[p] = 0
  PROVE  RoomInv'
<1>1. /\ room' \in RoomState
      /\ room'.phase = "playing" /\ room'.loserToPick = None /\ room'.roundWinner = None
      /\ room'.players = r.players /\ room'.scores = Zero
      /\ room'.roundWins = Zero /\ room'.winnerId = None
      /\ room'.votes = {} /\ room'.roundsPlayed = 0
      /\ room'.earned = Zero /\ room'.cards = r.cards
  BY StartGameFields
<1> QED
  BY <1>1, ScoreAssumption
  DEF RoomInv, TypeOK, IdsWereIssued, PickerIsPresent, NobodyPlaysAlone,
      TargetEndsTheMatch, RoundWinsAreSpent, LobbyIsClean, VotesAreCurrent,
      LeaversHoldNothing, CoinsAreEarned, Zero, Ids, None,
      COINS_ROUND_WIN, ROUNDS_TO_SCORE, COINS_MATCH_WIN, RoomState

\* start_game establishes the invariant afresh.
LEMMA StartPreserves ==
  ASSUME RoomInv, Start
  PROVE  RoomInv'
BY StartGameEstablishes
DEF Start, CanStart, RoomInv, TypeOK, IdsWereIssued, LeaversHoldNothing

\* Whatever the room was, a match reset leaves a lobby the invariant allows.
LEMMA ResetMatchEstablishes ==
  ASSUME NEW r \in RoomState, room' = ResetMatch(r), joined' = joined,
         joined \in 0 .. MaxJoins, r.players \subseteq 1 .. joined,
         \A p \in Ids \ r.players : r.earned[p] = 0
  PROVE  RoomInv'
<1>1. /\ room' \in RoomState
      /\ room'.phase = "waiting" /\ room'.loserToPick = None /\ room'.roundWinner = None
      /\ room'.players = r.players /\ room'.scores = Zero
      /\ room'.roundWins = Zero /\ room'.winnerId = None
      /\ room'.votes = {} /\ room'.roundsPlayed = 0
      /\ room'.earned = r.earned /\ room'.cards = Zero
  BY ResetMatchFields
<1> QED
  BY <1>1, ScoreAssumption
  DEF RoomInv, TypeOK, IdsWereIssued, PickerIsPresent, NobodyPlaysAlone,
      TargetEndsTheMatch, RoundWinsAreSpent, LobbyIsClean, VotesAreCurrent,
      LeaversHoldNothing, CoinsAreEarned, Zero, Ids, None, ROUNDS_TO_SCORE

\* So does restart, from a result.
LEMMA RestartPreserves ==
  ASSUME RoomInv, Restart
  PROVE  RoomInv'
BY ResetMatchEstablishes DEF Restart, RoomInv, TypeOK, IdsWereIssued, LeaversHoldNothing

\* A pick spends nothing and clears the debt of the card.
LEMMA PickPreserves ==
  ASSUME RoomInv, NEW p \in room.players, Pick(p)
  PROVE  RoomInv'
<1>1. /\ p \in Ids /\ room.phase = "picking" /\ joined' = joined
      /\ Several(room.players) /\ room.winnerId = None
  BY DEF Pick, CanPick, RoomInv, TypeOK, RoomState, NobodyPlaysAlone, TargetEndsTheMatch
<1>2. /\ room' \in RoomState
      /\ room'.phase = "playing" /\ room'.loserToPick = None /\ room'.roundWinner = None
      /\ room'.cards = AddTo(room.cards, p, 1)
      /\ room'.players = room.players /\ room'.scores = room.scores
      /\ room'.roundWins = room.roundWins /\ room'.winnerId = room.winnerId
      /\ room'.votes = room.votes /\ room'.roundsPlayed = room.roundsPlayed
      /\ room'.earned = room.earned
  BY <1>1, PickCardFields DEF Pick, RoomInv, TypeOK
<1>3. TypeOK' /\ IdsWereIssued' /\ PickerIsPresent' /\ NobodyPlaysAlone' /\ LobbyIsClean'
  BY <1>1, <1>2 DEF RoomInv, TypeOK, IdsWereIssued, PickerIsPresent, NobodyPlaysAlone, LobbyIsClean, None
<1>4. TargetEndsTheMatch' /\ RoundWinsAreSpent' /\ VotesAreCurrent'
  BY <1>1, <1>2 DEF RoomInv, TargetEndsTheMatch, RoundWinsAreSpent, VotesAreCurrent
<1>5. LeaversHoldNothing'
  BY <1>1, <1>2 DEF RoomInv, LeaversHoldNothing, AddTo
<1>6. CoinsAreEarned'
  BY <1>1, <1>2 DEF RoomInv, CoinsAreEarned
<1> QED BY <1>3, <1>4, <1>5, <1>6 DEF RoomInv

\* A vote counts once, closes the result or opens a clean match.
LEMMA VotePreserves ==
  ASSUME RoomInv, NEW p \in room.players, NEW accept \in BOOLEAN, Vote(p, accept)
  PROVE  RoomInv'
<1> DEFINE voted == [room EXCEPT !.votes = @ \cup {p}]
<1>1. /\ p \in Ids /\ room.phase = "finished" /\ joined' = joined /\ joined \in Nat
      /\ room \in RoomState
  BY DEF Vote, CanVote, RoomInv, TypeOK, RoomState
<1>2. /\ voted \in RoomState
      /\ voted.players = room.players /\ voted.votes = room.votes \cup {p}
      /\ voted.phase = room.phase /\ voted.scores = room.scores
      /\ voted.roundWins = room.roundWins /\ voted.winnerId = room.winnerId
      /\ voted.loserToPick = room.loserToPick /\ voted.roundWinner = room.roundWinner
      /\ voted.roundsPlayed = room.roundsPlayed
      /\ voted.earned = room.earned /\ voted.cards = room.cards
  BY <1>1 DEF RoomState
<1> HIDE DEF voted
<1>3. room' = IF ~accept THEN ResetMatch(room)
              ELSE IF Several(room.players) /\ room.players \subseteq voted.votes
                   THEN StartGame(ResetMatch(voted))
                   ELSE voted
  BY DEF Vote, VoteRematch, voted
<1>4. CASE ~accept
  BY <1>1, <1>3, <1>4, ResetMatchEstablishes DEF RoomInv, TypeOK, IdsWereIssued, LeaversHoldNothing
<1>5. CASE accept /\ ~(Several(room.players) /\ room.players \subseteq voted.votes)
  <2>1. room' = voted
    BY <1>3, <1>5
  <2> QED
    BY <1>1, <1>2, <2>1
    DEF RoomInv, TypeOK, IdsWereIssued, PickerIsPresent, NobodyPlaysAlone,
        TargetEndsTheMatch, RoundWinsAreSpent, LobbyIsClean, VotesAreCurrent,
        LeaversHoldNothing, CoinsAreEarned
<1>6. CASE accept /\ Several(room.players) /\ room.players \subseteq voted.votes
  <2> DEFINE lobby == ResetMatch(voted)
  <2>1. /\ lobby \in RoomState /\ lobby.phase = "waiting"
        /\ lobby.players = room.players /\ lobby.cards = Zero
    BY <1>2, ResetMatchFields
  <2>2. room' = StartGame(lobby)
    BY <1>3, <1>6
  <2> HIDE DEF lobby
  <2> QED
    BY <1>1, <1>6, <2>1, <2>2, StartGameEstablishes
    DEF RoomInv, TypeOK, IdsWereIssued, Zero
<1> QED BY <1>4, <1>5, <1>6

\* A departure takes the leaver out of every field, and folds the match up
\* when one player is left of it.
LEMMA LeavePreserves ==
  ASSUME RoomInv, NEW p \in room.players, Leave(p)
  PROVE  RoomInv'
<1> DEFINE left == Unseat(room, p)
<1>1. /\ p \in Ids /\ joined' = joined /\ joined \in 0 .. MaxJoins
      /\ room \in RoomState /\ p # None
      /\ room.loserToPick = p => room.phase # "finished"
  BY DEF Leave, RoomInv, TypeOK, RoomState, PickerIsPresent, None, Ids
<1>2. /\ left \in RoomState
      /\ left.players = room.players \ {p} /\ left.votes = room.votes \ {p}
      /\ left.scores = Drop(room.scores, p) /\ left.roundWins = Drop(room.roundWins, p)
      /\ left.earned = Drop(room.earned, p) /\ left.cards = Drop(room.cards, p)
      /\ left.winnerId = room.winnerId /\ left.roundsPlayed = room.roundsPlayed
      /\ IF room.loserToPick = p
         THEN /\ left.phase = "playing"
              /\ left.loserToPick = None /\ left.roundWinner = None
         ELSE /\ left.phase = room.phase
              /\ left.loserToPick = room.loserToPick
              /\ left.roundWinner = room.roundWinner
  BY <1>1, UnseatFields
<1>3. room' = IF left.players = {} THEN Forget(left)
              ELSE IF ~Several(left.players) /\ left.phase # "waiting"
                   THEN ResetMatch(left)
                   ELSE left
  BY DEF Leave, Cleanup
<1> HIDE DEF left
<1>4. /\ left.players \subseteq 1 .. joined
      /\ \A q \in Ids \ left.players : left.earned[q] = 0
  BY <1>2 DEF RoomInv, IdsWereIssued, LeaversHoldNothing, Drop
<1>5. CASE left.players # {} /\ ~Several(left.players) /\ left.phase # "waiting"
  BY <1>1, <1>2, <1>3, <1>4, <1>5, ResetMatchEstablishes
<1>6. CASE left.players = {} \/ Several(left.players) \/ left.phase = "waiting"
  <2>1. /\ room' \in RoomState
        /\ room'.players = left.players /\ room'.votes = left.votes
        /\ room'.scores = left.scores /\ room'.roundWins = left.roundWins
        /\ room'.earned = left.earned /\ room'.cards = left.cards
        /\ room'.winnerId = left.winnerId /\ room'.roundsPlayed = left.roundsPlayed
        /\ room'.phase = left.phase /\ room'.loserToPick = left.loserToPick
        /\ room'.roundWinner = IF left.players = {} THEN None ELSE left.roundWinner
    <3>1. CASE left.players = {}
      BY <1>2, <1>3, <3>1 DEF Forget, RoomState, MaybeId
    <3>2. CASE left.players # {}
      BY <1>2, <1>3, <1>6, <3>2
    <3> QED BY <3>1, <3>2
  <2>2. room.phase \in {"round_over", "picking", "finished"} => left.players # {}
    BY <1>2 DEF RoomInv, NobodyPlaysAlone, Several
  <2>3. TypeOK' /\ IdsWereIssued'
    BY <1>1, <1>2, <1>4, <2>1 DEF RoomInv, TypeOK, IdsWereIssued, None
  <2>4. PickerIsPresent'
    BY <1>1, <1>2, <2>1 DEF RoomInv, PickerIsPresent
  <2>5. NobodyPlaysAlone'
    <3>1. Ranked /\ room.phase # "waiting" => left.players # {}
      BY <1>1, <2>2, <1>2 DEF RoomInv, NobodyPlaysAlone, Several, RoomState, Phases
    <3> QED BY <1>1, <1>2, <1>6, <2>1, <2>2, <3>1 DEF RoomInv, NobodyPlaysAlone, PickerIsPresent
  <2>a. \A q \in Ids :
          /\ room'.scores[q] = (IF q = p THEN 0 ELSE room.scores[q])
          /\ room'.roundWins[q] = (IF q = p THEN 0 ELSE room.roundWins[q])
          /\ room'.earned[q] = (IF q = p THEN 0 ELSE room.earned[q])
    BY <1>2, <2>1 DEF Drop
  <2>b. /\ room.loserToPick = p <=> room.phase = "picking" /\ room.loserToPick = p
        /\ room'.players = room.players \ {p} /\ room'.players \subseteq Ids
    <3>1. room.loserToPick = p => room.phase = "picking"
      BY <1>1 DEF RoomInv, PickerIsPresent
    <3>2. room.players \subseteq Ids
      BY <1>1 DEF RoomState
    <3> QED BY <1>2, <2>1, <3>1, <3>2
  <2>6. TargetEndsTheMatch'
    <3>1. /\ room'.winnerId = room.winnerId
          /\ room'.phase = "finished" <=> room.phase = "finished"
          /\ 0 < ScoreToWin /\ 0 <= ScoreToWin
      BY <1>2, <2>1, <2>b, ScoreAssumption
    <3> QED BY <2>a, <2>b, <3>1 DEF RoomInv, TargetEndsTheMatch
  <2>7. RoundWinsAreSpent'
    BY <1>1, <1>2, <2>1, <2>2 DEF RoomInv, RoundWinsAreSpent, PickerIsPresent, Drop, ROUNDS_TO_SCORE
  <2>8. LobbyIsClean'
    BY <1>1, <1>2, <2>1 DEF RoomInv, LobbyIsClean, PickerIsPresent, Drop, Zero
  <2>9. VotesAreCurrent' /\ LeaversHoldNothing'
    BY <1>1, <1>2, <2>1 DEF RoomInv, VotesAreCurrent, LeaversHoldNothing, PickerIsPresent, Drop
  <2>10. CoinsAreEarned'
    <3>1. /\ room'.winnerId = room.winnerId /\ room'.roundsPlayed = room.roundsPlayed
          /\ room'.phase # "waiting" => room.phase # "waiting"
      BY <1>2, <2>1, <2>b
    <3> SUFFICES ASSUME room'.phase # "waiting", NEW q \in room'.players
                 PROVE  /\ COINS_ROUND_WIN * (ROUNDS_TO_SCORE * room'.scores[q] + room'.roundWins[q])
                             <= room'.earned[q]
                        /\ room'.earned[q] <=
                             COINS_ROUND_WIN * room'.roundsPlayed
                             + (IF room'.winnerId = q THEN COINS_MATCH_WIN ELSE 0)
      BY DEF CoinsAreEarned
    <3>2. /\ q \in room.players
          /\ room'.scores[q] = room.scores[q] /\ room'.roundWins[q] = room.roundWins[q]
          /\ room'.earned[q] = room.earned[q]
      BY <2>a, <2>b
    <3> QED BY <3>1, <3>2 DEF RoomInv, CoinsAreEarned
  <2> QED BY <2>3, <2>4, <2>5, <2>6, <2>7, <2>8, <2>9, <2>10 DEF RoomInv
<1> QED BY <1>5, <1>6

\* A tick decides a round or waits one out: points stay below the target
\* until the match is won, and round wins below the price of a point.
LEMMA TickPreserves ==
  ASSUME RoomInv, NEW alive \in SUBSET room.players, Tick(alive)
  PROVE  RoomInv'
<1>1. /\ room \in RoomState /\ joined' = joined /\ joined \in 0 .. MaxJoins
      /\ room.players \subseteq Ids /\ alive \in SUBSET Ids
      /\ room' = TickRoom(room, alive)
  BY DEF Tick, RoomInv, TypeOK, RoomState
<1>a. room.timer \in Nat
  BY <1>1 DEF RoomState
<1>2. CASE room.phase = "playing" /\ RoundDecided(room, alive)
  <2> DEFINE w == room'.roundWinner
  <2>1. room' = EndRound(room, alive)
    BY <1>1, <1>2 DEF TickRoom
  <2>2. /\ room' \in RoomState
        /\ room'.phase = "round_over"
        /\ w \in alive \cup {None}
        /\ room'.roundWins = AddTo(room.roundWins, w, 1)
        /\ room'.earned = AddTo(room.earned, w, COINS_ROUND_WIN)
        /\ room'.roundsPlayed = room.roundsPlayed + 1
        /\ room'.players = room.players /\ room'.scores = room.scores
        /\ room'.loserToPick = room.loserToPick /\ room'.winnerId = room.winnerId
        /\ room'.votes = room.votes /\ room'.cards = room.cards
    BY <1>1, <2>1, EndRoundFields
  <2> HIDE DEF w
  <2>3. /\ Several(room.players) /\ room.winnerId = None
        /\ w \in room.players \cup {None} /\ w <= joined
    BY <1>1, <1>2, <2>2
    DEF RoundDecided, RoomInv, TargetEndsTheMatch, IdsWereIssued, None
  <2>4. \A q \in Ids :
          /\ room'.scores[q] = room.scores[q]
          /\ room'.roundWins[q] = (IF q = w THEN room.roundWins[q] + 1 ELSE room.roundWins[q])
          /\ room'.earned[q] = (IF q = w THEN room.earned[q] + 10 ELSE room.earned[q])
          /\ room.scores[q] \in Nat /\ room.roundWins[q] \in Nat /\ room.earned[q] \in Nat
    BY <1>1, <2>2 DEF AddTo, COINS_ROUND_WIN, RoomState
  <2>5. TypeOK' /\ IdsWereIssued'
    BY <1>1, <2>2, <2>3 DEF RoomInv, TypeOK, IdsWereIssued, w
  <2>6. PickerIsPresent' /\ NobodyPlaysAlone' /\ LobbyIsClean'
    BY <1>2, <2>2, <2>3 DEF RoomInv, PickerIsPresent, NobodyPlaysAlone, LobbyIsClean
  <2>7. TargetEndsTheMatch' /\ VotesAreCurrent'
    BY <1>2, <2>2, <2>3 DEF RoomInv, TargetEndsTheMatch, VotesAreCurrent
  <2>8. RoundWinsAreSpent'
    <3> SUFFICES ASSUME NEW q \in Ids
                 PROVE  /\ room'.roundWins[q] <= 2
                        /\ room'.roundWins[q] = 2 => q = w
      BY <2>2 DEF RoundWinsAreSpent, ROUNDS_TO_SCORE, w
    <3>1. room.roundWins[q] < 2
      BY <1>2, <2>4 DEF RoomInv, RoundWinsAreSpent, ROUNDS_TO_SCORE
    <3> QED BY <2>4, <3>1
  <2>9. LeaversHoldNothing'
    BY <2>2, <2>3, <2>4 DEF RoomInv, LeaversHoldNothing, None, Ids
  <2>10. CoinsAreEarned'
    <3> SUFFICES ASSUME NEW q \in room.players
                 PROVE  /\ 10 * (2 * room'.scores[q] + room'.roundWins[q]) <= room'.earned[q]
                        /\ room'.earned[q] <= 10 * room'.roundsPlayed
      <4>1. /\ room'.roundsPlayed \in Nat
            /\ \A q \in room.players : room'.winnerId # q
        BY <1>1, <2>2, <2>3 DEF RoomState, None, Ids
      <4> QED
        BY <2>2, <4>1 DEF CoinsAreEarned, COINS_ROUND_WIN, COINS_MATCH_WIN, ROUNDS_TO_SCORE
    <3>0. /\ q \in Ids /\ room.roundsPlayed \in Nat
          /\ room.winnerId # q
      BY <1>1, <2>3 DEF RoomState, Ids, None
    <3>1. /\ 10 * (2 * room.scores[q] + room.roundWins[q]) <= room.earned[q]
          /\ room.earned[q] <= 10 * room.roundsPlayed
      BY <1>2, <3>0
      DEF RoomInv, CoinsAreEarned, COINS_ROUND_WIN, COINS_MATCH_WIN, ROUNDS_TO_SCORE
    <3> QED BY <2>2, <2>4, <3>0, <3>1
  <2> QED BY <2>5, <2>6, <2>7, <2>8, <2>9, <2>10 DEF RoomInv
<1>3. CASE room.phase = "round_over" /\ room.timer > 1
  <2>1. room' = [room EXCEPT !.timer = @ - 1]
    BY <1>1, <1>a, <1>3 DEF TickRoom
  <2>2. /\ room' \in RoomState
        /\ room'.phase = room.phase /\ room'.players = room.players
        /\ room'.scores = room.scores /\ room'.roundWins = room.roundWins
        /\ room'.loserToPick = room.loserToPick /\ room'.winnerId = room.winnerId
        /\ room'.votes = room.votes /\ room'.roundWinner = room.roundWinner
        /\ room'.roundsPlayed = room.roundsPlayed
        /\ room'.earned = room.earned /\ room'.cards = room.cards
    BY <1>1, <1>3, <2>1 DEF RoomState
  <2> QED
    BY <1>1, <2>2
    DEF RoomInv, TypeOK, IdsWereIssued, PickerIsPresent, NobodyPlaysAlone,
        TargetEndsTheMatch, RoundWinsAreSpent, LobbyIsClean, VotesAreCurrent,
        LeaversHoldNothing, CoinsAreEarned
<1>4. CASE room.phase = "round_over" /\ room.timer <= 1
  <2> DEFINE w == room.roundWinner
  <2>1. /\ room' = ResolveRoundOver(room)
        /\ Several(room.players) /\ room.winnerId = None
        /\ room.loserToPick = None /\ room.votes = {}
    BY <1>1, <1>4
    DEF TickRoom, RoomInv, NobodyPlaysAlone, TargetEndsTheMatch, PickerIsPresent, VotesAreCurrent
  <2>2. CASE w \in room.players /\ room.roundWins[w] >= ROUNDS_TO_SCORE
    <3>1. room' = ScorePoint(room, w)
      BY <2>1, <2>2 DEF ResolveRoundOver
    <3> HIDE DEF w
    <3>2. /\ room' \in RoomState
          /\ room'.scores = AddTo(room.scores, w, 1) /\ room'.roundWins = Zero
          /\ room'.roundWinner = None
          /\ room'.players = room.players /\ room'.votes = room.votes
          /\ room'.roundsPlayed = room.roundsPlayed /\ room'.cards = room.cards
          /\ IF room'.scores[w] >= ScoreToWin
             THEN /\ room'.phase = "finished" /\ room'.winnerId = w
                  /\ room'.loserToPick = None
                  /\ room'.earned = AddTo(room.earned, w, COINS_MATCH_WIN)
             ELSE /\ room'.phase = "picking" /\ room'.winnerId = room.winnerId
                  /\ room'.loserToPick \in room.players
                  /\ room'.earned = room.earned
      BY <1>1, <2>1, <2>2, <3>1, ScorePointFields
    <3>3. w \in Ids /\ w # None /\ w <= joined /\ None \notin Ids
      BY <1>1, <2>2 DEF RoomInv, IdsWereIssued, Ids, None
    <3>4. \A q \in Ids :
            /\ room'.scores[q] = (IF q = w THEN room.scores[q] + 1 ELSE room.scores[q])
            /\ room'.roundWins[q] = 0
            /\ room.scores[q] \in Nat /\ room.roundWins[q] \in Nat /\ room.earned[q] \in Nat
            /\ room.scores[q] < ScoreToWin
      <4>1. \A q \in Ids : room.scores[q] # ScoreToWin /\ room.scores[q] <= ScoreToWin
        BY <2>1, <3>3 DEF RoomInv, TargetEndsTheMatch
      <4> QED BY <1>1, <3>2, <4>1, ScoreAssumption DEF AddTo, Zero, RoomState
    <3>5. TypeOK' /\ IdsWereIssued'
      BY <1>1, <2>1, <3>2, <3>3 DEF RoomInv, TypeOK, IdsWereIssued, None
    <3>6. PickerIsPresent' /\ NobodyPlaysAlone' /\ LobbyIsClean' /\ VotesAreCurrent'
      BY <1>1, <2>1, <3>2, <3>3
      DEF PickerIsPresent, NobodyPlaysAlone, LobbyIsClean, VotesAreCurrent
    <3>7. TargetEndsTheMatch'
      <4>1. CASE room'.scores[w] >= ScoreToWin
        <5>1. room'.scores[w] = ScoreToWin
          BY <3>3, <3>4, <4>1, ScoreAssumption
        <5> QED BY <3>2, <3>3, <3>4, <4>1, <5>1, ScoreAssumption DEF TargetEndsTheMatch
      <4>2. CASE ~(room'.scores[w] >= ScoreToWin)
        <5>1. \A q \in Ids : room'.scores[q] < ScoreToWin
          BY <3>3, <3>4, <4>2, ScoreAssumption
        <5> QED
          BY <1>1, <2>1, <3>2, <3>3, <3>4, <4>2, <5>1, ScoreAssumption DEF TargetEndsTheMatch
      <4> QED BY <4>1, <4>2
    <3>8. RoundWinsAreSpent'
      BY <3>4 DEF RoundWinsAreSpent, ROUNDS_TO_SCORE
    <3>9. LeaversHoldNothing'
      BY <2>2, <3>2, <3>4 DEF RoomInv, LeaversHoldNothing, AddTo, w
    <3>10. CoinsAreEarned'
      <4> SUFFICES ASSUME NEW q \in room.players
                   PROVE  /\ 10 * (2 * room'.scores[q] + room'.roundWins[q]) <= room'.earned[q]
                          /\ room'.earned[q] <= 10 * room'.roundsPlayed
                                               + (IF room'.winnerId = q THEN 100 ELSE 0)
        BY <3>2 DEF CoinsAreEarned, COINS_ROUND_WIN, COINS_MATCH_WIN, ROUNDS_TO_SCORE
      <4>2. q \in Ids /\ room.roundsPlayed \in Nat /\ q # None
        BY <1>1 DEF RoomState, Ids, None
      <4>1. /\ 10 * (2 * room.scores[q] + room.roundWins[q]) <= room.earned[q]
            /\ room.earned[q] <= 10 * room.roundsPlayed
        BY <1>4, <2>1, <4>2
        DEF RoomInv, CoinsAreEarned, COINS_ROUND_WIN, COINS_MATCH_WIN, ROUNDS_TO_SCORE
      <4>3. /\ q = w => room.roundWins[q] >= 2
            /\ room'.earned[q] = (IF room'.winnerId = q THEN room.earned[q] + 100 ELSE room.earned[q])
        BY <1>1, <2>1, <2>2, <3>2, <3>3, <4>2 DEF ROUNDS_TO_SCORE, COINS_MATCH_WIN, AddTo, w
      <4>4. room'.scores[q] = (IF q = w THEN room.scores[q] + 1 ELSE room.scores[q])
        BY <3>4, <4>2
      <4> QED BY <3>2, <3>4, <4>1, <4>2, <4>3, <4>4
    <3> QED BY <3>5, <3>6, <3>7, <3>8, <3>9, <3>10 DEF RoomInv
  <2>3. CASE ~(w \in room.players /\ room.roundWins[w] >= ROUNDS_TO_SCORE)
    <3>1. room' = ResetRound(room)
      BY <2>1, <2>3 DEF ResolveRoundOver
    <3>2. /\ room' \in RoomState
          /\ room'.phase = "playing" /\ room'.loserToPick = None /\ room'.roundWinner = None
          /\ room'.players = room.players /\ room'.scores = room.scores
          /\ room'.roundWins = room.roundWins /\ room'.winnerId = room.winnerId
          /\ room'.votes = room.votes /\ room'.roundsPlayed = room.roundsPlayed
          /\ room'.earned = room.earned /\ room'.cards = room.cards
      BY <1>1, <1>4, <3>1, ResetRoundFields
    <3>3. TypeOK' /\ IdsWereIssued' /\ PickerIsPresent' /\ NobodyPlaysAlone' /\ LobbyIsClean'
      BY <1>1, <2>1, <3>2
      DEF RoomInv, TypeOK, IdsWereIssued, PickerIsPresent, NobodyPlaysAlone, LobbyIsClean, None
    <3>4. TargetEndsTheMatch' /\ VotesAreCurrent' /\ LeaversHoldNothing' /\ CoinsAreEarned'
      BY <1>4, <2>1, <3>2
      DEF RoomInv, TargetEndsTheMatch, VotesAreCurrent, LeaversHoldNothing, CoinsAreEarned
    <3>5. RoundWinsAreSpent'
      <4> SUFFICES ASSUME NEW q \in Ids
                   PROVE  room.roundWins[q] < 2
        BY <1>1, <3>2 DEF RoundWinsAreSpent, ROUNDS_TO_SCORE, RoomState
      <4>1. room.roundWins[q] \in Nat /\ room.roundWins[q] <= 2
        BY <1>1 DEF RoomInv, RoundWinsAreSpent, ROUNDS_TO_SCORE, RoomState
      <4>2. room.roundWins[q] # 2
        <5> SUFFICES ASSUME room.roundWins[q] = 2 PROVE FALSE
          OBVIOUS
        <5>1. w = q
          BY DEF RoomInv, RoundWinsAreSpent, ROUNDS_TO_SCORE
        <5>2. q \in room.players
          BY DEF RoomInv, LeaversHoldNothing
        <5> QED BY <2>3, <5>1, <5>2 DEF ROUNDS_TO_SCORE
      <4> QED BY <4>1, <4>2
    <3> QED BY <3>3, <3>4, <3>5 DEF RoomInv
  <2> QED BY <2>2, <2>3
<1>5. CASE /\ ~(room.phase = "playing" /\ RoundDecided(room, alive))
           /\ room.phase # "round_over"
  <2>1. room' = room
    BY <1>1, <1>5 DEF TickRoom
  <2> QED
    BY <1>1, <2>1
    DEF RoomInv, TypeOK, IdsWereIssued, PickerIsPresent, NobodyPlaysAlone,
        TargetEndsTheMatch, RoundWinsAreSpent, LobbyIsClean, VotesAreCurrent,
        LeaversHoldNothing, CoinsAreEarned
<1> QED BY <1>a, <1>2, <1>3, <1>4, <1>5

\* A room fresh from RoomManager.create satisfies the invariant.
LEMMA InitEstablishes == Init => RoomInv
BY TableTypes, ScoreAssumption, MaxJoinsAssumption
DEF Init, NewRoom, RoomInv, TypeOK, IdsWereIssued, PickerIsPresent, NobodyPlaysAlone,
    TargetEndsTheMatch, RoundWinsAreSpent, LobbyIsClean, VotesAreCurrent,
    LeaversHoldNothing, CoinsAreEarned, Zero, None, Ids, MaybeId, Phases, RoomState,
    ROUNDS_TO_SCORE

\* Every operation of the room preserves the invariant.
LEMMA NextPreserves == RoomInv /\ [Next]_vars => RoomInv'
<1> SUFFICES ASSUME RoomInv, [Next]_vars PROVE RoomInv'
  OBVIOUS
<1>1. CASE Join
  BY <1>1, JoinPreserves
<1>2. CASE Start
  BY <1>2, StartPreserves
<1>3. CASE Restart
  BY <1>3, RestartPreserves
<1>4. CASE \E p \in room.players : Leave(p)
  BY <1>4, LeavePreserves
<1>5. CASE \E p \in room.players : Pick(p)
  BY <1>5, PickPreserves
<1>6. CASE \E p \in room.players, accept \in BOOLEAN : Vote(p, accept)
  BY <1>6, VotePreserves
<1>7. CASE \E alive \in SUBSET room.players : Tick(alive)
  BY <1>7, TickPreserves
<1>8. CASE UNCHANGED vars
  BY <1>8
  DEF vars, RoomInv, TypeOK, IdsWereIssued, PickerIsPresent, NobodyPlaysAlone,
      TargetEndsTheMatch, RoundWinsAreSpent, LobbyIsClean, VotesAreCurrent,
      LeaversHoldNothing, CoinsAreEarned
<1> QED BY <1>1, <1>2, <1>3, <1>4, <1>5, <1>6, <1>7, <1>8 DEF Next

\* Every reachable room satisfies the invariant, whatever the target, the
\* delay, the bounds and the kind of room.
THEOREM RoomInvariant == Spec => []RoomInv
BY InitEstablishes, NextPreserves, PTL DEF Spec

\* No match hangs on a card that nobody in the room can choose.
THEOREM PickerStays == Spec => []PickerIsPresent
<1>1. RoomInv => PickerIsPresent
  BY DEF RoomInv
<1> QED BY <1>1, RoomInvariant, PTL

\* Decided rounds, card choices and results always have an opponent present.
THEOREM NobodyIsAlone == Spec => []NobodyPlaysAlone
<1>1. RoomInv => NobodyPlaysAlone
  BY DEF RoomInv
<1> QED BY <1>1, RoomInvariant, PTL

\* Points stop at the target, and the target names the winner.
THEOREM TargetIsFinal == Spec => []TargetEndsTheMatch
<1>1. RoomInv => TargetEndsTheMatch
  BY DEF RoomInv
<1> QED BY <1>1, RoomInvariant, PTL

\* The coins recorded with a result were won round by round.
THEOREM CoinsArePaidFor == Spec => []CoinsAreEarned
<1>1. RoomInv => CoinsAreEarned
  BY DEF RoomInv
<1> QED BY <1>1, RoomInvariant, PTL

(***************************************************************************)
(* The room implements the match it promises                               *)
(***************************************************************************)

\* A new room is a match nobody has come to.
LEMMA InitRefines == Init => M!MatchInit
BY DEF Init, NewRoom, M!MatchInit, M!Level, Zero, Stage

\* Both count from nothing.
LEMMA ZeroIsLevel == Zero = M!Level
BY DEF Zero, M!Level

\* A step that shows nothing new: the room's round or timer moved.
LEMMA HiddenStep ==
  ASSUME Stage' = Stage, room'.players = room.players, room'.scores = room.scores,
         room'.winnerId = room.winnerId, room'.votes = room.votes
  PROVE  UNCHANGED M!matchVars
BY DEF M!matchVars

\* To join is to take a seat.
LEMMA JoinRefines ==
  ASSUME RoomInv, Join
  PROVE  \E p \in Ids : M!Sit(p)
<1>1. /\ joined + 1 \in Ids /\ joined + 1 \notin room.players
      /\ room \in RoomState
  BY MaxJoinsAssumption DEF Join, RoomInv, TypeOK, IdsWereIssued, Ids
<1>2. /\ room'.players = room.players \cup {joined + 1}
      /\ room'.phase = room.phase /\ room'.scores = room.scores
      /\ room'.votes = room.votes /\ room'.winnerId = room.winnerId
  BY <1>1 DEF Join, Enter, RoomState
<1>3. Stage' = Stage
  BY <1>2 DEF Stage
<1>4. M!Sit(joined + 1)
  BY <1>1, <1>2, <1>3 DEF M!Sit
<1> QED BY <1>1, <1>4

\* start_game opens a contest, a ranked one only between opponents.
LEMMA StartRefines ==
  ASSUME RoomInv, Start
  PROVE  M!OpenContest
<1>1. /\ room.phase = "waiting" /\ room.players # {}
      /\ Ranked => M!Opposed(room.players)
  BY DEF Start, CanStart, M!Opposed, Several
<1>2. /\ room'.phase = "playing" /\ room'.players = room.players
      /\ room'.scores = Zero /\ room'.winnerId = None /\ room'.votes = {}
  BY <1>1, StartGameFields DEF Start, RoomInv, TypeOK
<1>3. Stage = "lobby" /\ Stage' = "contest"
  BY <1>1, <1>2 DEF Stage
<1> QED BY <1>1, <1>2, <1>3, ZeroIsLevel DEF M!OpenContest, M!Clear

\* reset_match from a result closes the contest.
LEMMA RestartRefines ==
  ASSUME RoomInv, NEW r \in RoomState, r.players = room.players,
         room.phase = "finished", room' = ResetMatch(r)
  PROVE  M!Close
<1>1. /\ room'.phase = "waiting" /\ room'.players = room.players
      /\ room'.scores = Zero /\ room'.winnerId = None /\ room'.votes = {}
  BY ResetMatchFields
<1>2. Stage = "decided" /\ Stage' = "lobby"
  BY <1>1 DEF Stage
<1> QED BY <1>1, <1>2, ZeroIsLevel DEF M!Close, M!Clear

\* A card choice is no business of the match.
LEMMA PickRefines ==
  ASSUME RoomInv, NEW p \in room.players, Pick(p)
  PROVE  UNCHANGED M!matchVars
<1>1. p \in Ids /\ room.phase = "picking" /\ room \in RoomState
  BY DEF Pick, CanPick, RoomInv, TypeOK, RoomState
<1>2. /\ room'.phase = "playing" /\ room'.players = room.players
      /\ room'.scores = room.scores /\ room'.winnerId = room.winnerId
      /\ room'.votes = room.votes
  BY <1>1, PickCardFields DEF Pick
<1>3. Stage' = Stage
  BY <1>1, <1>2 DEF Stage
<1> QED BY <1>2, <1>3, HiddenStep

\* A vote refuses, agrees, or completes the consent to a rematch.
LEMMA VoteRefines ==
  ASSUME RoomInv, NEW p \in room.players, NEW accept \in BOOLEAN, Vote(p, accept)
  PROVE  M!Close \/ (\E q \in Ids : M!Agree(q) \/ M!Rematch(q))
<1> DEFINE voted == [room EXCEPT !.votes = @ \cup {p}]
<1>1. p \in Ids /\ room.phase = "finished" /\ room \in RoomState
  BY DEF Vote, CanVote, RoomInv, TypeOK, RoomState
<1>2. /\ voted \in RoomState
      /\ voted.players = room.players /\ voted.votes = room.votes \cup {p}
      /\ voted.phase = room.phase /\ voted.scores = room.scores
      /\ voted.winnerId = room.winnerId
  BY <1>1 DEF RoomState
<1> HIDE DEF voted
<1>3. room' = IF ~accept THEN ResetMatch(room)
              ELSE IF Several(room.players) /\ room.players \subseteq voted.votes
                   THEN StartGame(ResetMatch(voted))
                   ELSE voted
  BY DEF Vote, VoteRematch, voted
<1>4. Stage = "decided"
  BY <1>1 DEF Stage
<1>5. CASE ~accept
  BY <1>1, <1>3, <1>5, RestartRefines
<1>6. CASE accept /\ ~(Several(room.players) /\ room.players \subseteq voted.votes)
  <2>1. room' = voted
    BY <1>3, <1>6
  <2>2. Stage' = Stage
    BY <1>1, <1>2, <2>1 DEF Stage
  <2>3. M!Agree(p)
    BY <1>2, <1>4, <2>1, <2>2 DEF M!Agree
  <2> QED BY <1>1, <2>3
<1>7. CASE accept /\ Several(room.players) /\ room.players \subseteq voted.votes
  <2> DEFINE lobby == ResetMatch(voted)
  <2>1. /\ lobby \in RoomState /\ lobby.phase = "waiting"
        /\ lobby.players = room.players
    BY <1>2, ResetMatchFields
  <2>2. room' = StartGame(lobby)
    BY <1>3, <1>7
  <2> HIDE DEF lobby
  <2>3. /\ room'.phase = "playing" /\ room'.players = room.players
        /\ room'.scores = Zero /\ room'.winnerId = None /\ room'.votes = {}
    BY <2>1, <2>2, StartGameFields
  <2>4. Stage' = "contest"
    BY <2>3 DEF Stage
  <2>5. M!Rematch(p)
    BY <1>2, <1>4, <1>7, <2>3, <2>4, ZeroIsLevel DEF M!Rematch, M!Clear, M!Opposed, Several
  <2> QED BY <1>1, <2>5
<1> QED BY <1>5, <1>6, <1>7

\* To leave is to give up the seat, in whatever stage.
LEMMA LeaveRefines ==
  ASSUME RoomInv, NEW p \in room.players, Leave(p)
  PROVE  M!Depart(p)
<1> DEFINE left == Unseat(room, p)
<1>1. /\ p \in Ids /\ room \in RoomState
      /\ room.loserToPick = p => room.phase = "picking"
  BY DEF RoomInv, TypeOK, RoomState, PickerIsPresent, None, Ids
<1>2. /\ left \in RoomState
      /\ left.players = room.players \ {p} /\ left.votes = room.votes \ {p}
      /\ left.scores = Drop(room.scores, p) /\ left.winnerId = room.winnerId
      /\ left.phase = IF room.loserToPick = p THEN "playing" ELSE room.phase
  BY <1>1, UnseatFields
<1>3. room' = IF left.players = {} THEN Forget(left)
              ELSE IF ~Several(left.players) /\ left.phase # "waiting"
                   THEN ResetMatch(left)
                   ELSE left
  BY DEF Leave, Cleanup
<1> HIDE DEF left
<1>4. Drop(room.scores, p) = [room.scores EXCEPT ![p] = 0]
  BY <1>1 DEF Drop, RoomState
<1>5. Stage = "lobby" <=> left.phase = "waiting"
  BY <1>1, <1>2 DEF Stage
<1>6. CASE left.players # {} /\ ~Several(left.players) /\ left.phase # "waiting"
  <2>1. /\ room'.phase = "waiting" /\ room'.players = left.players
        /\ room'.scores = Zero /\ room'.winnerId = None /\ room'.votes = {}
    BY <1>2, <1>3, <1>6, ResetMatchFields
  <2>2. Stage' = "lobby"
    BY <2>1 DEF Stage
  <2> QED
    BY <1>2, <1>5, <1>6, <2>1, <2>2, ZeroIsLevel DEF M!Depart, M!Clear, M!Opposed, Several
<1>7. CASE left.players = {} \/ Several(left.players) \/ left.phase = "waiting"
  <2>1. /\ room'.players = left.players /\ room'.votes = left.votes
        /\ room'.scores = left.scores /\ room'.winnerId = left.winnerId
        /\ room'.phase = left.phase
    BY <1>2, <1>3, <1>7 DEF Forget, RoomState
  <2>2. Stage' = Stage
    BY <1>1, <1>2, <2>1 DEF Stage
  <2> QED
    BY <1>2, <1>4, <1>5, <1>7, <2>1, <2>2 DEF M!Depart, M!Opposed, Several
<1> QED BY <1>6, <1>7

\* A tick scores one point or shows nothing.
LEMMA TickRefines ==
  ASSUME RoomInv, NEW alive \in SUBSET room.players, Tick(alive)
  PROVE  (\E p \in Ids : M!Point(p)) \/ UNCHANGED M!matchVars
<1>1. /\ room \in RoomState /\ room.timer \in Nat
      /\ room.players \subseteq Ids /\ alive \in SUBSET Ids
      /\ room' = TickRoom(room, alive)
  BY DEF Tick, RoomInv, TypeOK, RoomState
<1>2. CASE room.phase = "playing" /\ RoundDecided(room, alive)
  <2>1. room' = EndRound(room, alive)
    BY <1>1, <1>2 DEF TickRoom
  <2>2. /\ room'.phase = "round_over" /\ room'.players = room.players
        /\ room'.scores = room.scores /\ room'.winnerId = room.winnerId
        /\ room'.votes = room.votes
    BY <1>1, <2>1, EndRoundFields
  <2>3. Stage' = Stage
    BY <1>2, <2>2 DEF Stage
  <2> QED BY <2>2, <2>3, HiddenStep
<1>3. CASE room.phase = "round_over" /\ room.timer > 1
  <2>1. room' = [room EXCEPT !.timer = @ - 1]
    BY <1>1, <1>3 DEF TickRoom
  <2>2. /\ room'.phase = room.phase /\ room'.players = room.players
        /\ room'.scores = room.scores /\ room'.winnerId = room.winnerId
        /\ room'.votes = room.votes
    BY <1>1, <2>1 DEF RoomState
  <2>3. Stage' = Stage
    BY <2>2 DEF Stage
  <2> QED BY <2>2, <2>3, HiddenStep
<1>4. CASE room.phase = "round_over" /\ room.timer <= 1
  <2> DEFINE w == room.roundWinner
  <2>1. /\ room' = ResolveRoundOver(room) /\ Stage = "contest"
        /\ Several(room.players)
    BY <1>1, <1>4 DEF TickRoom, Stage, RoomInv, NobodyPlaysAlone
  <2>2. CASE w \in room.players /\ room.roundWins[w] >= ROUNDS_TO_SCORE
    <3>1. room' = ScorePoint(room, w)
      BY <2>1, <2>2 DEF ResolveRoundOver
    <3> HIDE DEF w
    <3>2. /\ room'.scores = AddTo(room.scores, w, 1)
          /\ room'.players = room.players /\ room'.votes = room.votes
          /\ IF room'.scores[w] >= ScoreToWin
             THEN room'.phase = "finished" /\ room'.winnerId = w
             ELSE room'.phase = "picking" /\ room'.winnerId = room.winnerId
      BY <1>1, <2>1, <2>2, <3>1, ScorePointFields
    <3>3. /\ w \in Ids /\ room.scores \in [Ids -> Nat]
          /\ room'.scores = [room.scores EXCEPT ![w] = @ + 1]
      BY <1>1, <2>2, <3>2 DEF AddTo, RoomState
    \* A running match has nobody at the target, so reaching it is exact.
    <3>4. room'.scores[w] >= ScoreToWin <=> room'.scores[w] = ScoreToWin
      <4>1. room.winnerId = None /\ w # None
        BY <1>4, <3>3 DEF RoomInv, TargetEndsTheMatch, Ids, None
      <4>2. room.scores[w] <= ScoreToWin /\ room.scores[w] # ScoreToWin
        BY <3>3, <4>1 DEF RoomInv, TargetEndsTheMatch
      <4> QED BY <3>3, <4>2, ScoreAssumption
    <3>5. IF room'.scores[w] = ScoreToWin
          THEN Stage' = "decided" /\ room'.winnerId = w
          ELSE Stage' = Stage /\ room'.winnerId = room.winnerId
      BY <2>1, <3>2, <3>4 DEF Stage
    <3>6. M!Point(w)
      BY <2>1, <2>2, <3>2, <3>3, <3>5 DEF M!Point, M!Opposed, Several
    <3> QED BY <3>3, <3>6
  <2>3. CASE ~(w \in room.players /\ room.roundWins[w] >= ROUNDS_TO_SCORE)
    <3>1. room' = ResetRound(room)
      BY <2>1, <2>3 DEF ResolveRoundOver
    <3>2. /\ room'.phase = "playing" /\ room'.players = room.players
          /\ room'.scores = room.scores /\ room'.winnerId = room.winnerId
          /\ room'.votes = room.votes
      BY <1>1, <1>4, <3>1, ResetRoundFields
    <3>3. Stage' = Stage
      BY <2>1, <3>2 DEF Stage
    <3> QED BY <3>2, <3>3, HiddenStep
  <2> QED BY <2>2, <2>3
<1>5. CASE /\ ~(room.phase = "playing" /\ RoundDecided(room, alive))
           /\ room.phase # "round_over"
  <2>1. room' = room
    BY <1>1, <1>5 DEF TickRoom
  <2> QED BY <2>1 DEF M!matchVars, Stage
<1> QED BY <1>1, <1>2, <1>3, <1>4, <1>5

\* Every operation of a room is a step of the match or hidden from it.
LEMMA NextRefines == RoomInv /\ [Next]_vars => [M!Advance]_(M!matchVars)
<1> SUFFICES ASSUME RoomInv, [Next]_vars PROVE [M!Advance]_(M!matchVars)
  OBVIOUS
<1>1. CASE Join
  BY <1>1, JoinRefines DEF M!Advance
<1>2. CASE Start
  BY <1>2, StartRefines DEF M!Advance
<1>3. CASE Restart
  BY <1>3, RestartRefines DEF M!Advance, Restart, RoomInv, TypeOK
<1>4. CASE \E p \in room.players : Leave(p)
  <2>1. PICK p \in room.players : Leave(p)
    BY <1>4
  <2>2. p \in Ids
    BY DEF RoomInv, TypeOK, RoomState
  <2> QED BY <2>1, <2>2, LeaveRefines DEF M!Advance
<1>5. CASE \E p \in room.players : Pick(p)
  BY <1>5, PickRefines
<1>6. CASE \E p \in room.players, accept \in BOOLEAN : Vote(p, accept)
  BY <1>6, VoteRefines DEF M!Advance
<1>7. CASE \E alive \in SUBSET room.players : Tick(alive)
  BY <1>7, TickRefines DEF M!Advance
<1>8. CASE UNCHANGED vars
  BY <1>8 DEF vars, M!matchVars, Stage
<1> QED BY <1>1, <1>2, <1>3, <1>4, <1>5, <1>6, <1>7, <1>8 DEF Next

\* Whatever happens in a room, its players see a match: points one at a time,
\* a result exactly at the target, a rematch only with everyone's consent.
THEOREM RoomRefinesMatch == Spec => ImplementsMatch
BY InitRefines, NextRefines, RoomInvariant, PTL DEF Spec, ImplementsMatch, M!MatchSpec

(***************************************************************************)
(* How the operations move the phase                                       *)
(***************************************************************************)

\* A departure (_cleanup) never makes a result or a round appear, and sends
\* the room to the lobby exactly when one player of a match is left.
LEMMA LeaveMoves ==
  ASSUME RoomInv, NEW p \in room.players, Leave(p)
  PROVE  /\ room'.players = room.players \ {p}
         /\ room'.phase = "finished" =>
              room.phase = "finished" /\ room'.winnerId = room.winnerId
         /\ room'.phase = "round_over" => room.phase = "round_over"
         /\ room'.phase \in Live => room.phase \in Live
         /\ room.phase = "waiting" => room'.phase = "waiting"
         /\ room.phase # "waiting" =>
              (room'.phase = "waiting" <=>
                 room.players \ {p} # {} /\ ~Several(room.players \ {p}))
<1> DEFINE left == Unseat(room, p)
<1>1. /\ p \in Ids /\ room \in RoomState /\ room.phase \in Phases
      /\ room.loserToPick = p => room.phase = "picking"
  BY DEF RoomInv, TypeOK, RoomState, PickerIsPresent, None, Ids
<1>2. /\ left \in RoomState
      /\ left.players = room.players \ {p} /\ left.winnerId = room.winnerId
      /\ left.phase = IF room.loserToPick = p THEN "playing" ELSE room.phase
  BY <1>1, UnseatFields
<1>3. room' = IF left.players = {} THEN Forget(left)
              ELSE IF ~Several(left.players) /\ left.phase # "waiting"
                   THEN ResetMatch(left)
                   ELSE left
  BY DEF Leave, Cleanup
<1> HIDE DEF left
<1>4. /\ Forget(left).players = left.players /\ Forget(left).phase = left.phase
      /\ Forget(left).winnerId = left.winnerId
  BY <1>2 DEF Forget, RoomState
<1>5. ResetMatch(left).players = left.players /\ ResetMatch(left).phase = "waiting"
  BY <1>2, ResetMatchFields
<1>6. CASE left.players = {}
  BY <1>1, <1>2, <1>3, <1>4, <1>6 DEF Live
<1>7. CASE left.players # {} /\ ~Several(left.players) /\ left.phase # "waiting"
  BY <1>1, <1>2, <1>3, <1>5, <1>7 DEF Live
<1>8. CASE left.players # {} /\ (Several(left.players) \/ left.phase = "waiting")
  BY <1>1, <1>2, <1>3, <1>8 DEF Live
<1> QED BY <1>6, <1>7, <1>8

\* A tick leaves a lobby and a result screen alone, and a round in progress
\* only becomes another stage of the match or its result.
LEMMA TickMoves ==
  ASSUME RoomInv, NEW alive \in SUBSET room.players, Tick(alive)
  PROVE  /\ room.phase \notin Live => room' = room
         /\ room.phase \in Live => room'.phase \in Live \cup {"finished"}
         /\ room.phase # "round_over" /\ room'.phase = "finished" => room.phase = "finished"
         /\ room'.players = room.players
<1>1. /\ room \in RoomState /\ room' = TickRoom(room, alive)
      /\ room.players \subseteq Ids /\ alive \in SUBSET Ids /\ room.timer \in Nat
  BY DEF Tick, RoomInv, TypeOK, RoomState
<1>2. CASE room.phase \notin {"playing", "round_over"}
  BY <1>1, <1>2 DEF TickRoom, Live, RoomState, Phases
<1>3. CASE room.phase = "playing"
  <2>1. CASE RoundDecided(room, alive)
    <3>1. room' = EndRound(room, alive)
      BY <1>1, <1>3, <2>1 DEF TickRoom
    <3> QED BY <1>1, <1>3, <3>1, EndRoundFields DEF Live
  <2>2. CASE ~RoundDecided(room, alive)
    BY <1>1, <1>3, <2>2 DEF TickRoom, Live
  <2> QED BY <2>1, <2>2
<1>4. CASE room.phase = "round_over"
  <2>1. CASE room.timer > 1
    <3>1. room' = [room EXCEPT !.timer = @ - 1]
      BY <1>1, <1>4, <2>1 DEF TickRoom
    <3> QED BY <1>1, <1>4, <3>1 DEF Live, RoomState
  <2>2. CASE room.timer <= 1
    <3>1. room' = ResolveRoundOver(room)
      BY <1>1, <1>4, <2>2 DEF TickRoom
    <3>2. Several(room.players)
      BY <1>4 DEF RoomInv, NobodyPlaysAlone
    <3>3. \/ room' = ResetRound(room)
          \/ room.roundWinner \in room.players /\ room' = ScorePoint(room, room.roundWinner)
      BY <3>1 DEF ResolveRoundOver
    <3>4. ResetRound(room).phase = "playing" /\ ResetRound(room).players = room.players
      BY <1>1, <1>4, ResetRoundFields
    <3>5. room.roundWinner \in room.players =>
            /\ ScorePoint(room, room.roundWinner).phase \in {"picking", "finished"}
            /\ ScorePoint(room, room.roundWinner).players = room.players
      BY <1>1, <3>2, ScorePointFields
    <3> QED BY <1>4, <3>3, <3>4, <3>5 DEF Live
  <2> QED BY <1>1, <2>1, <2>2
<1> QED BY <1>2, <1>3, <1>4

\* A pick goes on with the match (pick_card).
LEMMA PickMoves ==
  ASSUME RoomInv, NEW p, Pick(p)
  PROVE  room.phase = "picking" /\ room'.phase = "playing" /\ room'.players = room.players
<1>1. room \in RoomState /\ room.phase = "picking" /\ p \in Ids
  BY DEF Pick, CanPick, RoomInv, TypeOK, RoomState
<1> QED BY <1>1, PickCardFields DEF Pick

\* A vote keeps the result, closes it or opens the next match (vote_rematch).
LEMMA VoteMoves ==
  ASSUME RoomInv, NEW p, NEW accept \in BOOLEAN, Vote(p, accept)
  PROVE  /\ room.phase = "finished" /\ room'.players = room.players
         /\ \/ room'.phase = "finished" /\ room'.winnerId = room.winnerId
            \/ room'.phase = "waiting"
            \/ room'.phase = "playing"
<1> DEFINE voted == [room EXCEPT !.votes = @ \cup {p}]
           lobby == ResetMatch(voted)
<1>1. room \in RoomState /\ p \in room.players /\ room.phase = "finished" /\ p \in Ids
  BY DEF Vote, CanVote, RoomInv, TypeOK, RoomState
<1>2. /\ voted \in RoomState /\ voted.phase = "finished"
      /\ voted.players = room.players /\ voted.winnerId = room.winnerId
  BY <1>1 DEF RoomState
<1>3. room' \in {ResetMatch(room), StartGame(lobby), voted}
  BY DEF Vote, VoteRematch
<1> HIDE DEF voted
<1>4. lobby \in RoomState /\ lobby.phase = "waiting" /\ lobby.players = room.players
  BY <1>2, ResetMatchFields
<1> HIDE DEF lobby
<1>5. /\ ResetMatch(room).phase = "waiting" /\ ResetMatch(room).players = room.players
      /\ StartGame(lobby).phase = "playing" /\ StartGame(lobby).players = room.players
  BY <1>1, <1>4, ResetMatchFields, StartGameFields
<1> QED BY <1>1, <1>2, <1>3, <1>5

\* start_game leads from the lobby into a round.
LEMMA StartMoves ==
  ASSUME RoomInv, Start
  PROVE  room.phase = "waiting" /\ room'.phase = "playing" /\ room'.players = room.players
<1>1. room \in RoomState /\ room.phase = "waiting"
  BY DEF Start, CanStart, RoomInv, TypeOK
<1> QED BY <1>1, StartGameFields DEF Start

\* restart closes a result.
LEMMA RestartMoves ==
  ASSUME RoomInv, Restart
  PROVE  room.phase = "finished" /\ room'.phase = "waiting" /\ room'.players = room.players
<1>1. room \in RoomState /\ room.phase = "finished"
  BY DEF Restart, RoomInv, TypeOK
<1> QED BY <1>1, ResetMatchFields DEF Restart

\* A newcomer has a fresh id and changes nothing but the players.
LEMMA JoinMoves ==
  ASSUME RoomInv, Join
  PROVE  /\ joined' = joined + 1 /\ joined' \in Ids /\ joined' \notin room.players
         /\ room'.players = room.players \cup {joined'}
         /\ room'.phase = room.phase /\ room'.winnerId = room.winnerId
<1>1. room \in RoomState /\ joined \in Nat /\ room.players \subseteq 1 .. joined
  BY DEF RoomInv, TypeOK, IdsWereIssued
<1>2. joined + 1 \in Ids /\ joined + 1 \notin room.players
  BY <1>1, MaxJoinsAssumption DEF Join, Ids
<1> QED BY <1>1, <1>2 DEF Join, Enter, RoomState

(***************************************************************************)
(* The rules hold on the server                                            *)
(***************************************************************************)

\* Every step of the handlers and of the loop is a step of the rules.
LEMMA ServerStepIsAStep ==
  ASSUME [ServerNext]_serverVars
  PROVE  [Next]_vars
<1>1. CASE \E alive \in SUBSET room.players : TickStep(alive)
  BY <1>1 DEF TickStep, Next
<1>2. CASE SnapshotSent \/ EventSent \/ Sweep
  BY <1>2 DEF SnapshotSent, EventSent, Sweep
<1>3. CASE \E p \in online : HandleStart(p) \/ HandlePick(p) \/ HandleRestart(p)
  BY <1>3 DEF HandleStart, HandlePick, HandleRestart, Next, Pick, CanPick
<1>4. CASE \E p \in online, accept \in BOOLEAN : HandleRematch(p, accept)
  BY <1>4 DEF HandleRematch, Next, Vote, CanVote
<1>5. CASE Coming
  BY <1>5 DEF Coming, Connect, Insert, Refuse, Next
<1>6. CASE Going
  BY <1>6 DEF Going, Disconnect, Next, Leave
<1>7. CASE UNCHANGED serverVars
  BY <1>7 DEF serverVars
<1> QED BY <1>1, <1>2, <1>3, <1>4, <1>5, <1>6, <1>7 DEF ServerNext, Loop, Message

\* The server's room follows the rules of PvpRoom through every interleaving.
LEMMA ServerFollowsRules == ServerSpec => Spec
<1>1. ServerInit => Init
  BY DEF ServerInit
<1> QED BY <1>1, ServerStepIsAStep, PTL DEF ServerSpec, Spec

\* So whatever was proved of the rules holds of the room being served.
LEMMA ServerRoomInv == ServerSpec => []RoomInv
BY ServerFollowsRules, RoomInvariant, PTL

(***************************************************************************)
(* What a step does to the record                                          *)
(***************************************************************************)

PeopleTyped ==
  /\ registered \in BOOLEAN
  /\ loading \in [Identities -> 0 .. MaxLoading]
  /\ online \subseteq Ids
  /\ account \in [Ids -> Identities]

RecordTyped ==
  /\ pc \in {"idle", "snapshot", "event"}
  /\ prevPhase \in Phases /\ lastPhase \in Phases
  /\ event \in {NoEvent, "round_over", "card_phase", "match_over", "game_started"}
  /\ ledger \in Seq(Outcomes)
  /\ matchNo \in 0 .. MaxMatches /\ tickMatch \in 0 .. matchNo
  /\ champions \in [Matches -> MaybeId]
  /\ slipped \subseteq Matches

\* A ranked match that is over and undecided is recorded.
ForfeitsAreRecorded ==
  Ranked =>
    \A m \in 1 .. matchNo :
      m < matchNo \/ room.phase = "waiting" => champions[m] # None \/ Recorded(m)

\* ServerTypeOK without the people, and the rest of RecordInv.
RecordFacts ==
  /\ RecordTyped
  /\ HistoryIsOld
  /\ TickHoldsTheResult
  /\ RecordedOncePerMatch
  /\ RecordsAreReal
  /\ ResultsOutstanding
  /\ ForfeitsAreRecorded

\* The tick has a result to hand over, or had one until the room emptied.
ResultIsDue ==
  \/ pc = "snapshot" /\ prevPhase # "finished" /\ room.phase = "finished"
  \/ pc = "event" /\ event = "match_over"

\* The tick keeps the result in its hands, or the result slips.
KeptOrSlipped ==
  /\ \/ slipped' = slipped
     \/ slipped' = slipped \cup {tickMatch} /\ ResultIsDue
  /\ ResultIsInHand => ResultIsInHand' \/ tickMatch \in slipped'

QuietStep ==
  /\ UNCHANGED <<loopVars, ledger, matchNo, champions>>
  /\ KeptOrSlipped
  /\ room'.phase = "finished" => room.phase = "finished" /\ room'.winnerId = room.winnerId
  /\ room'.phase = "round_over" => room.phase = "round_over"
  /\ room'.phase \in Live => room.phase \in Live
  /\ Ranked /\ room'.phase = "waiting" => room.phase \notin Live

KickoffStep ==
  /\ room.phase \in {"waiting", "finished"}
  /\ room'.phase = "playing"
  /\ Kickoff
  /\ KeptOrSlipped
  /\ UNCHANGED <<loopVars, ledger>>

ForfeitStep ==
  /\ \E p \in room.players : IsForfeit(p) /\ ledger' = Append(ledger, ForfeitOf(p))
  /\ room'.phase = "waiting"
  /\ KeptOrSlipped
  /\ UNCHANGED <<loopVars, matchNo, champions>>

\* A handler that counts its slips keeps the result or lets it slip.
LEMMA SlipKeepsOrSlips ==
  ASSUME Slip, UNCHANGED loopVars
  PROVE  KeptOrSlipped
BY DEF Slip, loopVars, KeptOrSlipped, ResultIsDue, ResultIsInHand

\* A handler that neither closes a result nor empties the room lets none slip.
LEMMA NothingSlips ==
  ASSUME UNCHANGED <<loopVars, slipped>>, room.players \subseteq room'.players,
         room.phase = "finished" => room'.phase = "finished"
  PROVE  KeptOrSlipped
BY DEF loopVars, KeptOrSlipped, ResultIsInHand

\* Leaving a ranked match for two is always taken for a forfeit (_cleanup).
LEMMA LastOneIsAForfeit ==
  ASSUME NEW S, S # {}, ~Several(S)
  PROVE  Cardinality(S) = 1
<1>1. PICK x \in S : S = {x}
  BY DEF Several
<1> QED BY <1>1, FS_Singleton

\* _cleanup either records a forfeit and returns the room to the lobby, or
\* does nothing the record could notice.
LEMMA DisconnectKind ==
  ASSUME RoomInv, NEW p \in online, Disconnect(p)
  PROVE  QuietStep \/ ForfeitStep
<1>0. KeptOrSlipped /\ UNCHANGED <<loopVars, matchNo, champions>>
  BY SlipKeepsOrSlips DEF Disconnect
<1>1. CASE ~registered
  BY <1>0, <1>1 DEF Disconnect, QuietStep, vars, Live
<1>2. CASE registered
  <2>1. Leave(p) /\ p \in room.players
    BY <1>2 DEF Disconnect, Leave
  <2>2. /\ room'.players = room.players \ {p}
        /\ room'.phase = "finished" =>
             room.phase = "finished" /\ room'.winnerId = room.winnerId
        /\ room'.phase = "round_over" => room.phase = "round_over"
        /\ room'.phase \in Live => room.phase \in Live
        /\ room.phase = "waiting" => room'.phase = "waiting"
        /\ room.phase # "waiting" =>
             (room'.phase = "waiting" <=>
                room.players \ {p} # {} /\ ~Several(room.players \ {p}))
    BY <2>1, LeaveMoves
  <2>3. CASE IsForfeit(p)
    <3>1. /\ room.phase # "waiting" /\ Cardinality(room.players \ {p}) = 1
      BY <2>3 DEF IsForfeit, Live
    <3>2. room.players \ {p} # {} /\ ~Several(room.players \ {p})
      <4>1. IsFiniteSet(room.players \ {p})
        <5>1. IsFiniteSet(1 .. MaxJoins)
          BY FS_Interval, MaxJoinsAssumption
        <5>2. room.players \ {p} \subseteq 1 .. MaxJoins
          BY DEF RoomInv, TypeOK, RoomState, Ids
        <5> QED BY <5>1, <5>2, FS_Subset
      <4> QED BY <3>1, <4>1, FS_Singleton DEF Several
    <3> QED BY <1>0, <1>2, <2>1, <2>2, <2>3, <3>1, <3>2 DEF Disconnect, ForfeitStep
  <2>4. CASE ~IsForfeit(p)
    <3>1. Ranked /\ room'.phase = "waiting" => room.phase \notin Live
      BY <2>2, <2>4, LastOneIsAForfeit DEF IsForfeit, Live
    <3> QED BY <1>0, <1>2, <2>2, <2>4, <3>1 DEF Disconnect, QuietStep
  <2> QED BY <2>3, <2>4
<1> QED BY <1>1, <1>2

\* Every step of the server is of one of eight kinds.
LEMMA StepKinds ==
  ASSUME RoomInv, [ServerNext]_serverVars
  PROVE  \/ QuietStep \/ KickoffStep \/ ForfeitStep
         \/ \E alive \in SUBSET room.players : TickStep(alive)
         \/ SnapshotSent \/ EventSent \/ Sweep
<1>1. CASE Coming
  <2>1. \/ \E a \in Identities : Connect(a) \/ Refuse(a)
        \/ \E a \in Identities : Insert(a)
    BY <1>1 DEF Coming
  <2>2. CASE \E a \in Identities : Connect(a) \/ Refuse(a)
    <3>1. UNCHANGED <<room, loopVars, ledger, historyVars>>
      BY <2>2 DEF Connect, Refuse, vars
    <3>2. KeptOrSlipped
      BY <3>1, NothingSlips DEF historyVars
    <3> QED BY <3>1, <3>2 DEF QuietStep, historyVars, Live
  <2>3. CASE \E a \in Identities : Insert(a)
    <3>1. Join /\ UNCHANGED <<loopVars, ledger, historyVars>>
      BY <2>3 DEF Insert
    <3>2. KeptOrSlipped
      BY <3>1, JoinMoves, NothingSlips DEF historyVars
    <3> QED BY <3>1, <3>2, JoinMoves DEF QuietStep, Live, historyVars
  <2> QED BY <2>1, <2>2, <2>3
<1>2. CASE Going
  BY <1>2, DisconnectKind DEF Going
<1>3. CASE \E p \in online : HandleStart(p)
  <2>1. PICK p \in online : HandleStart(p)
    BY <1>3
  <2>2. Start /\ Kickoff /\ UNCHANGED <<loopVars, ledger, slipped>>
    BY <2>1 DEF HandleStart
  <2>3. KeptOrSlipped
    BY <2>2, StartMoves, NothingSlips
  <2> QED BY <2>2, <2>3, StartMoves DEF KickoffStep
<1>4. CASE \E p \in online : HandlePick(p)
  <2>1. PICK p \in online : HandlePick(p)
    BY <1>4
  <2>2. Pick(p) /\ UNCHANGED <<loopVars, ledger, historyVars>>
    BY <2>1 DEF HandlePick
  <2>3. KeptOrSlipped
    BY <2>2, PickMoves, NothingSlips DEF historyVars
  <2> QED BY <2>2, <2>3, PickMoves DEF QuietStep, Live, historyVars
<1>5. CASE \E p \in online : HandleRestart(p)
  <2>1. PICK p \in online : HandleRestart(p)
    BY <1>5
  <2>2. Restart /\ Slip /\ UNCHANGED <<loopVars, ledger, matchNo, champions>>
    BY <2>1 DEF HandleRestart
  <2> QED BY <2>2, RestartMoves, SlipKeepsOrSlips DEF QuietStep, Live
<1>6. CASE \E p \in online, accept \in BOOLEAN : HandleRematch(p, accept)
  <2>1. PICK p \in online, accept \in BOOLEAN : HandleRematch(p, accept)
    BY <1>6
  <2>2. /\ Vote(p, accept) /\ UNCHANGED <<loopVars, ledger>>
        /\ IF room'.phase = "playing" THEN Kickoff ELSE UNCHANGED <<matchNo, champions>>
        /\ KeptOrSlipped
    BY <2>1, SlipKeepsOrSlips DEF HandleRematch
  <2>3. /\ room.phase = "finished"
        /\ \/ room'.phase = "finished" /\ room'.winnerId = room.winnerId
           \/ room'.phase = "waiting"
           \/ room'.phase = "playing"
    BY <2>2, VoteMoves
  <2>4. CASE room'.phase = "playing"
    BY <2>2, <2>3, <2>4 DEF KickoffStep
  <2>5. CASE room'.phase # "playing"
    BY <2>2, <2>3, <2>5 DEF QuietStep, Live
  <2> QED BY <2>4, <2>5
<1>7. CASE UNCHANGED serverVars
  <2>1. UNCHANGED <<room, loopVars, ledger, historyVars>>
    BY <1>7 DEF serverVars, vars
  <2>2. KeptOrSlipped
    BY <2>1, NothingSlips DEF historyVars
  <2> QED BY <2>1, <2>2 DEF QuietStep, historyVars, Live
<1> QED BY <1>1, <1>2, <1>3, <1>4, <1>5, <1>6, <1>7 DEF ServerNext, Loop, Message

(***************************************************************************)
(* Each kind of step preserves the record                                  *)
(***************************************************************************)

\* Where the tick keeps its result or lets it slip, no other goes missing.
LEMMA OutstandingStay ==
  ASSUME RoomInv, RecordFacts, KeptOrSlipped, UNCHANGED <<tickMatch, champions>>,
         \A m : Recorded(m) => Recorded(m)'
  PROVE  ResultsOutstanding' /\ slipped' \subseteq Matches
<1>1. ResultIsDue => tickMatch \in Matches
  <2>1. ResultIsDue => tickMatch > 0
    BY DEF ResultIsDue, RecordFacts, TickHoldsTheResult, HistoryIsOld, RecordTyped
  <2> QED BY <2>1, BoundsAssumption DEF RecordFacts, RecordTyped, Matches
<1>2. slipped' \subseteq Matches
  BY <1>1 DEF KeptOrSlipped, RecordFacts, RecordTyped
<1>3. ResultsOutstanding'
  BY DEF KeptOrSlipped, RecordFacts, ResultsOutstanding
<1> QED BY <1>2, <1>3

\* A quiet step leaves the record alone and brings no match or result back.
LEMMA QuietPreserves ==
  ASSUME RoomInv, RoomInv', RecordFacts, QuietStep
  PROVE  RecordFacts'
<1>1. /\ UNCHANGED <<pc, prevPhase, lastPhase, event, tickMatch, ledger, matchNo,
                     champions>>
      /\ \A m : Recorded(m)' = Recorded(m)
  BY DEF QuietStep, loopVars, historyVars, Recorded
<1>0. ResultsOutstanding' /\ slipped' \subseteq Matches
  BY <1>1, OutstandingStay DEF QuietStep
<1>2. RecordTyped'
  BY <1>0, <1>1 DEF RecordFacts, RecordTyped
<1>3. HistoryIsOld'
  BY <1>1 DEF RecordFacts, HistoryIsOld, QuietStep
<1>4. TickHoldsTheResult'
  BY <1>1 DEF RecordFacts, TickHoldsTheResult, QuietStep
<1>5. RecordedOncePerMatch' /\ RecordsAreReal'
  BY <1>1 DEF RecordFacts, RecordedOncePerMatch, RecordsAreReal
<1>6. ForfeitsAreRecorded'
  <2> SUFFICES ASSUME Ranked, NEW m \in 1 .. matchNo,
                      m < matchNo \/ room'.phase = "waiting"
               PROVE  champions[m] # None \/ Recorded(m)
    BY <1>1 DEF ForfeitsAreRecorded
  <2>1. CASE m < matchNo \/ room.phase = "waiting"
    BY <2>1 DEF RecordFacts, ForfeitsAreRecorded
  <2>2. CASE ~(m < matchNo) /\ room.phase # "waiting"
    <3>1. m = matchNo
      BY <2>2 DEF RecordFacts, RecordTyped
    <3>2. room.phase = "finished"
      BY <2>2 DEF QuietStep, RoomInv, TypeOK, RoomState, Phases, Live
    <3>3. room.winnerId # None
      BY <3>2 DEF RoomInv, TargetEndsTheMatch
    <3> QED BY <3>1, <3>2, <3>3 DEF RecordFacts, HistoryIsOld
  <2> QED BY <2>1, <2>2
<1> QED BY <1>0, <1>2, <1>3, <1>4, <1>5, <1>6 DEF RecordFacts

\* A kickoff opens a match nobody has heard of.
LEMMA KickoffPreserves ==
  ASSUME RoomInv, RoomInv', RecordFacts, online \subseteq Ids, KickoffStep
  PROVE  RecordFacts'
<1>1. /\ UNCHANGED <<pc, prevPhase, lastPhase, event, tickMatch, ledger, champions>>
      /\ matchNo' = matchNo + 1 /\ matchNo' \in 1 .. MaxMatches
      /\ matchNo \in Nat /\ matchNo' \in Matches
      /\ \A m : Recorded(m)' = Recorded(m)
  BY BoundsAssumption
  DEF KickoffStep, Kickoff, loopVars, Recorded, MaybeId, RecordFacts,
      RecordTyped, Matches
<1>0. ResultsOutstanding' /\ slipped' \subseteq Matches
  BY <1>1, OutstandingStay DEF KickoffStep
<1>2. RecordTyped'
  BY <1>0, <1>1 DEF RecordFacts, RecordTyped
<1>3. champions[matchNo'] = None /\ ~Recorded(matchNo')
  <2>1. champions[matchNo'] = None
    BY <1>1 DEF RecordFacts, HistoryIsOld
  <2>2. ~Recorded(matchNo')
    BY <1>1 DEF RecordFacts, HistoryIsOld, Recorded
  <2> QED BY <2>1, <2>2
<1>4. HistoryIsOld'
  <2>1. \A m \in Matches : champions'[m] # None => m <= matchNo'
    BY <1>1 DEF RecordFacts, HistoryIsOld, Matches
  <2>2. \A i \in DOMAIN ledger' : ledger'[i].match \in 1 .. matchNo'
    BY <1>1 DEF RecordFacts, HistoryIsOld
  <2> QED BY <1>1, <1>3, <2>1, <2>2 DEF HistoryIsOld, KickoffStep
<1>5. TickHoldsTheResult'
  BY <1>1 DEF RecordFacts, TickHoldsTheResult, KickoffStep
<1>6. RecordedOncePerMatch' /\ RecordsAreReal'
  BY <1>1 DEF RecordFacts, RecordedOncePerMatch, RecordsAreReal
<1>7. ForfeitsAreRecorded'
  <2> SUFFICES ASSUME Ranked, NEW m \in 1 .. matchNo', m < matchNo'
               PROVE  champions[m] # None \/ Recorded(m)
    BY <1>1 DEF ForfeitsAreRecorded, KickoffStep
  <2>1. m \in 1 .. matchNo
    BY <1>1
  <2>2. CASE m < matchNo \/ room.phase = "waiting"
    BY <2>1, <2>2 DEF RecordFacts, ForfeitsAreRecorded
  <2>3. CASE ~(m < matchNo) /\ room.phase = "finished"
    <3>1. m = matchNo
      BY <1>1, <2>1, <2>3
    <3>2. room.winnerId # None
      BY <2>3 DEF RoomInv, TargetEndsTheMatch
    <3> QED BY <2>3, <3>1, <3>2 DEF RecordFacts, HistoryIsOld
  <2> QED BY <2>2, <2>3 DEF KickoffStep
<1> QED BY <1>0, <1>2, <1>4, <1>5, <1>6, <1>7 DEF RecordFacts

\* Appending an outcome keeps the earlier ones in place.
LEMMA LedgerGrows ==
  ASSUME ledger \in Seq(Outcomes), NEW o \in Outcomes, ledger' = Append(ledger, o)
  PROVE  /\ ledger' \in Seq(Outcomes)
         /\ \A i \in DOMAIN ledger : i \in DOMAIN ledger' /\ ledger'[i] = ledger[i]
         /\ \E n \in DOMAIN ledger' :
              /\ n \notin DOMAIN ledger /\ ledger'[n] = o
              /\ \A i \in DOMAIN ledger' : i = n \/ i \in DOMAIN ledger
<1>1. /\ ledger' \in Seq(Outcomes) /\ Len(ledger') = Len(ledger) + 1
      /\ \A i \in 1 .. Len(ledger) : ledger'[i] = ledger[i]
      /\ ledger'[Len(ledger) + 1] = o
  BY AppendProperties
<1>2. Len(ledger) \in Nat
  OBVIOUS
<1>3. DOMAIN ledger = 1 .. Len(ledger) /\ DOMAIN ledger' = 1 .. (Len(ledger) + 1)
  BY <1>1
<1> QED BY <1>1, <1>2, <1>3

\* An outcome of an unrecorded match is the only one of that match.
LEMMA RecordedOnceMore ==
  ASSUME ledger \in Seq(Outcomes), NEW o \in Outcomes, ledger' = Append(ledger, o),
         ~Recorded(o.match), RecordedOncePerMatch
  PROVE  /\ RecordedOncePerMatch'
         /\ \A m : Recorded(m)' <=> Recorded(m) \/ m = o.match
<1>1. PICK n \in DOMAIN ledger' :
        /\ n \notin DOMAIN ledger /\ ledger'[n] = o
        /\ \A i \in DOMAIN ledger' : i = n \/ i \in DOMAIN ledger
  BY LedgerGrows
<1>2. \A i \in DOMAIN ledger : i \in DOMAIN ledger' /\ ledger'[i] = ledger[i]
  BY LedgerGrows
<1>3. \A m : Recorded(m)' <=> Recorded(m) \/ m = o.match
  BY <1>1, <1>2 DEF Recorded
<1>4. RecordedOncePerMatch'
  BY <1>1, <1>2 DEF RecordedOncePerMatch, Recorded
<1> QED BY <1>3, <1>4

\* A forfeit is the first record of the match it ends.
LEMMA ForfeitPreserves ==
  ASSUME RoomInv, RoomInv', RecordFacts, ForfeitStep
  PROVE  RecordFacts'
<1>1. PICK p \in room.players : IsForfeit(p) /\ ledger' = Append(ledger, ForfeitOf(p))
  BY DEF ForfeitStep
<1> DEFINE stay == CHOOSE q \in room.players \ {p} : TRUE
           o == ForfeitOf(p)
<1>2. /\ room.phase \in Live /\ room'.phase = "waiting"
      /\ room \in RoomState /\ room.players \subseteq Ids
      /\ UNCHANGED <<pc, prevPhase, lastPhase, event, tickMatch, matchNo, champions>>
  BY <1>1 DEF ForfeitStep, IsForfeit, loopVars, RoomInv, TypeOK, RoomState
<1>3. stay \in room.players \ {p}
  <2>1. room.players \ {p} # {}
    BY <1>1, FS_EmptySet DEF IsForfeit
  <2> QED BY <2>1
<1>4. /\ matchNo \in Matches /\ champions[matchNo] = None /\ ~Recorded(matchNo)
      /\ ledger \in Seq(Outcomes)
  BY <1>2, BoundsAssumption DEF RecordFacts, RecordTyped, HistoryIsOld, Matches
<1>5. o = Outcome(matchNo, TRUE, stay, room, {stay, p})
  BY DEF ForfeitOf
<1> HIDE DEF stay, o
<1>6. /\ o \in Outcomes /\ o.match = matchNo /\ o.forfeit = TRUE
      /\ o.winner = stay /\ o.people = {stay, p}
  <2>1. \A q \in Ids : room.scores[q] \in Nat
    BY <1>2 DEF RoomState
  <2> QED BY <1>2, <1>3, <1>4, <1>5, <2>1 DEF Outcome, Outcomes, MaybeId
<1>7. Cardinality({stay, p}) = 2
  <2>1. {stay, p} = {p} \cup {stay} /\ stay \notin {p}
    BY <1>3
  <2>2. IsFiniteSet({p}) /\ Cardinality({p}) = 1
    BY FS_Singleton
  <2> QED BY <2>1, <2>2, FS_AddElement
<1>8. /\ ledger' = Append(ledger, o)
      /\ RecordedOncePerMatch'
      /\ \A m : Recorded(m)' <=> Recorded(m) \/ m = matchNo
  BY <1>1, <1>4, <1>6, RecordedOnceMore DEF RecordFacts, o
<1>9. PICK n \in DOMAIN ledger' :
        /\ n \notin DOMAIN ledger /\ ledger'[n] = o
        /\ \A i \in DOMAIN ledger' : i = n \/ i \in DOMAIN ledger
  BY <1>4, <1>6, <1>8, LedgerGrows
<1>10. ledger' \in Seq(Outcomes) /\ \A i \in DOMAIN ledger : ledger'[i] = ledger[i]
  BY <1>4, <1>6, <1>8, LedgerGrows
<1>0. ResultsOutstanding' /\ slipped' \subseteq Matches
  BY <1>2, <1>8, OutstandingStay DEF ForfeitStep
<1>11. RecordTyped'
  BY <1>0, <1>2, <1>10 DEF RecordFacts, RecordTyped
<1>12. HistoryIsOld'
  <2>1. \A i \in DOMAIN ledger' : ledger'[i].match \in 1 .. matchNo
    BY <1>4, <1>6, <1>9, <1>10 DEF RecordFacts, HistoryIsOld, RecordTyped, Matches
  <2> QED BY <1>2, <2>1 DEF RecordFacts, HistoryIsOld, Live
<1>13. TickHoldsTheResult'
  BY <1>2, <1>4, <1>8 DEF RecordFacts, TickHoldsTheResult
<1>14. RecordsAreReal'
  <2> SUFFICES ASSUME NEW i \in DOMAIN ledger'
               PROVE  LET e == ledger'[i]
                      IN  IF e.forfeit
                          THEN /\ champions[e.match] = None
                               /\ e.winner \in e.people /\ Cardinality(e.people) = 2
                          ELSE /\ champions[e.match] # None
                               /\ e.winner \in {None, champions[e.match]}
    BY <1>2 DEF RecordsAreReal
  <2>1. CASE i = n
    BY <1>4, <1>6, <1>7, <1>9, <2>1
  <2>2. CASE i # n
    BY <1>9, <1>10, <2>2 DEF RecordFacts, RecordsAreReal
  <2> QED BY <2>1, <2>2
<1>15. ForfeitsAreRecorded'
  <2> SUFFICES ASSUME Ranked, NEW m \in 1 .. matchNo
               PROVE  champions[m] # None \/ Recorded(m)'
    BY <1>2 DEF ForfeitsAreRecorded
  <2>1. m < matchNo \/ m = matchNo
    BY <1>4 DEF Matches
  <2> QED BY <1>8, <2>1 DEF RecordFacts, ForfeitsAreRecorded
<1> QED BY <1>0, <1>8, <1>11, <1>12, <1>13, <1>14, <1>15 DEF RecordFacts

\* A tick that ends the match crowns a champion nobody has recorded yet.
LEMMA TickStepPreserves ==
  ASSUME RoomInv, RoomInv', RecordFacts, NEW alive \in SUBSET room.players, TickStep(alive)
  PROVE  RecordFacts'
<1>1. /\ pc = "idle" /\ pc' = "snapshot"
      /\ prevPhase' = lastPhase /\ lastPhase' = room'.phase /\ tickMatch' = matchNo
      /\ UNCHANGED <<event, ledger, matchNo, slipped>>
      /\ \A m : Recorded(m)' = Recorded(m)
      /\ room'.phase \in Phases /\ room'.winnerId \in MaybeId /\ room.phase \in Phases
  BY DEF TickStep, Recorded, RoomInv, TypeOK, RoomState
<1>2. /\ room.phase \notin Live => room' = room
      /\ room.phase \in Live => room'.phase \in Live \cup {"finished"}
      /\ room.phase # "round_over" /\ room'.phase = "finished" => room.phase = "finished"
  BY TickMoves DEF TickStep
<1>0. \A m \in Matches : champions[m] # None /\ m \notin slipped => Recorded(m)
  BY <1>1 DEF RecordFacts, ResultsOutstanding, ResultIsInHand
<1>3. CASE room.phase \in Live /\ room'.phase = "finished"
  <2>1. /\ champions' = [champions EXCEPT ![matchNo] = room'.winnerId]
        /\ matchNo \in Matches /\ champions[matchNo] = None /\ ~Recorded(matchNo)
        /\ room'.winnerId # None
    BY <1>3, BoundsAssumption
    DEF TickStep, Live, RecordFacts, RecordTyped, HistoryIsOld, Matches, RoomInv,
        TargetEndsTheMatch
  <2>2. /\ champions' \in [Matches -> MaybeId] /\ champions'[matchNo] = room'.winnerId
        /\ \A m \in Matches : m # matchNo => champions'[m] = champions[m]
    BY <1>1, <2>1 DEF RecordFacts, RecordTyped
  <2>3. RecordTyped'
    BY <1>1, <2>2, BoundsAssumption DEF RecordFacts, RecordTyped
  <2>4. HistoryIsOld'
    BY <1>1, <1>3, <2>1, <2>2 DEF RecordFacts, RecordTyped, HistoryIsOld, Matches, Live
  <2>5. TickHoldsTheResult'
    BY <1>1, <2>1 DEF TickHoldsTheResult
  <2>6. RecordsAreReal'
    <3>1. \A i \in DOMAIN ledger : ledger[i].match # matchNo
      BY <2>1 DEF Recorded
    <3>2. \A i \in DOMAIN ledger : ledger[i].match \in Matches
      BY <2>1, BoundsAssumption DEF RecordFacts, RecordTyped, HistoryIsOld, Matches
    <3> QED BY <1>1, <2>2, <3>1, <3>2 DEF RecordFacts, RecordsAreReal
  <2>7. ForfeitsAreRecorded'
    <3>1. \A m \in 1 .. matchNo : m \in Matches /\ (m < matchNo \/ m = matchNo)
      <4>1. matchNo \in Nat /\ matchNo <= MaxMatches /\ MaxMatches \in Nat
        BY <2>1, BoundsAssumption DEF Matches
      <4> QED BY <4>1 DEF Matches
    <3> QED BY <1>1, <1>3, <2>1, <2>2, <3>1 DEF RecordFacts, ForfeitsAreRecorded
  <2>8. ResultsOutstanding'
    <3>1. lastPhase = "round_over"
      BY <1>2, <1>3 DEF RecordFacts, HistoryIsOld, Live
    <3> QED BY <1>0, <1>1, <1>3, <2>2, <3>1 DEF ResultsOutstanding, ResultIsInHand
  <2> QED BY <1>1, <2>3, <2>4, <2>5, <2>6, <2>7, <2>8 DEF RecordFacts, RecordedOncePerMatch
<1>4. CASE ~(room.phase \in Live /\ room'.phase = "finished")
  <2>1. /\ champions' = champions
        /\ room'.phase = "finished" => room.phase = "finished" /\ room'.winnerId = room.winnerId
        /\ room'.phase \in Live => room.phase \in Live
        /\ room'.phase = "waiting" => room.phase = "waiting"
    BY <1>1, <1>2, <1>4 DEF TickStep, Live, Phases
  <2>2. RecordTyped'
    BY <1>1, <2>1, BoundsAssumption DEF RecordFacts, RecordTyped
  <2>3. HistoryIsOld'
    BY <1>1, <2>1 DEF RecordFacts, HistoryIsOld
  <2>4. TickHoldsTheResult'
    BY <1>1, <2>1 DEF RecordFacts, HistoryIsOld, TickHoldsTheResult
  <2>5. RecordedOncePerMatch' /\ RecordsAreReal'
    BY <1>1, <2>1 DEF RecordFacts, RecordedOncePerMatch, RecordsAreReal
  <2>6. ForfeitsAreRecorded'
    BY <1>1, <2>1 DEF RecordFacts, ForfeitsAreRecorded
  <2>7. ResultsOutstanding'
    BY <1>0, <1>1, <2>1 DEF ResultsOutstanding
  <2> QED BY <2>2, <2>3, <2>4, <2>5, <2>6, <2>7 DEF RecordFacts
<1> QED BY <1>3, <1>4

\* Choosing the event keeps the result unrecorded, or drops it.
LEMMA SnapshotPreserves ==
  ASSUME RoomInv, RecordFacts, SnapshotSent
  PROVE  RecordFacts'
<1>1. /\ pc = "snapshot" /\ event' = PhaseEvent(room, prevPhase)
      /\ pc' = IF event' = NoEvent THEN "idle" ELSE "event"
      /\ tickMatch' = IF event' = NoEvent THEN 0 ELSE tickMatch
      /\ prevPhase' = "waiting"
      /\ UNCHANGED <<room, lastPhase, ledger, matchNo, champions, slipped>>
      /\ \A m : Recorded(m)' = Recorded(m)
  BY DEF SnapshotSent, vars, historyVars, Recorded
<1>2. /\ event' \in {NoEvent, "round_over", "card_phase", "match_over", "game_started"}
      /\ event' = "match_over" => room.phase = "finished" /\ prevPhase # "finished"
  BY <1>1 DEF PhaseEvent, NoEvent
<1>3. RecordTyped'
  BY <1>1, <1>2 DEF RecordFacts, RecordTyped, Phases
<1>4. HistoryIsOld'
  BY <1>1 DEF RecordFacts, HistoryIsOld
<1>5. TickHoldsTheResult'
  <2> SUFFICES ASSUME event' = "match_over"
               PROVE  /\ tickMatch > 0 /\ champions[tickMatch] # None
                      /\ ~Recorded(tickMatch) /\ tickMatch = matchNo
    BY <1>1 DEF TickHoldsTheResult, NoEvent
  <2>1. room.winnerId # None
    BY <1>2 DEF RoomInv, TargetEndsTheMatch
  <2> QED BY <1>1, <1>2, <2>1 DEF RecordFacts, HistoryIsOld, TickHoldsTheResult
<1>6. RecordedOncePerMatch' /\ RecordsAreReal' /\ ForfeitsAreRecorded'
  BY <1>1 DEF RecordFacts, RecordedOncePerMatch, RecordsAreReal, ForfeitsAreRecorded
<1>7. ResultsOutstanding'
  <2>1. ResultIsInHand => ResultIsInHand' /\ tickMatch' = tickMatch
    <3> SUFFICES ASSUME ResultIsInHand PROVE ResultIsInHand' /\ tickMatch' = tickMatch
      OBVIOUS
    <3>1. room.phase = "finished" /\ prevPhase # "finished"
      BY <1>1 DEF ResultIsInHand
    <3>2. event' = "match_over"
      BY <1>1, <3>1 DEF PhaseEvent
    <3>3. room.players # {}
      BY <3>1 DEF RoomInv, NobodyPlaysAlone, Several
    <3> QED BY <1>1, <3>2, <3>3 DEF ResultIsInHand, NoEvent
  <2> QED BY <1>1, <2>1 DEF RecordFacts, ResultsOutstanding
<1> QED BY <1>3, <1>4, <1>5, <1>6, <1>7 DEF RecordFacts

\* The result is handed over once, and names nobody but the champion.
LEMMA EventPreserves ==
  ASSUME RoomInv, RecordFacts, EventSent
  PROVE  RecordFacts'
<1> DEFINE o == FinishOf
<1>1. /\ pc = "event" /\ pc' = "idle" /\ event' = NoEvent /\ tickMatch' = 0
      /\ UNCHANGED <<room, prevPhase, lastPhase, matchNo, champions, slipped>>
      /\ room \in RoomState
  BY DEF EventSent, vars, historyVars, RoomInv, TypeOK
<1>2. CASE ~(event = "match_over" /\ room.players # {})
  <2>1. ledger' = ledger /\ \A m : Recorded(m)' = Recorded(m)
    BY <1>2 DEF EventSent, Recorded
  <2>2. ResultsOutstanding'
    BY <1>1, <1>2, <2>1 DEF RecordFacts, ResultsOutstanding, ResultIsInHand
  <2> QED
    BY <1>1, <2>1, <2>2
    DEF RecordFacts, RecordTyped, HistoryIsOld, TickHoldsTheResult,
        RecordedOncePerMatch, RecordsAreReal, ForfeitsAreRecorded
<1>3. CASE event = "match_over" /\ room.players # {}
  <2>1. /\ ledger' = Append(ledger, o) /\ ledger \in Seq(Outcomes)
        /\ tickMatch \in Matches /\ tickMatch \in 1 .. matchNo
        /\ champions[tickMatch] # None /\ ~Recorded(tickMatch)
        /\ room.phase = "finished" => tickMatch = matchNo
    BY <1>1, <1>3, BoundsAssumption
    DEF EventSent, RecordFacts, RecordTyped, TickHoldsTheResult, Matches
  <2>2. /\ o \in Outcomes /\ o.match = tickMatch /\ o.forfeit = FALSE
        /\ o.winner = room.winnerId
    <3>1. /\ room.players \subseteq Ids /\ room.winnerId \in MaybeId
          /\ \A q \in Ids : room.scores[q] \in Nat
      BY <1>1 DEF RoomState
    <3> QED BY <2>1, <3>1 DEF FinishOf, Outcome, Outcomes
  <2>3. o.winner \in {None, champions[tickMatch]}
    BY <2>1, <2>2 DEF RoomInv, TargetEndsTheMatch, RecordFacts, HistoryIsOld
  <2> HIDE DEF o
  <2>4. /\ RecordedOncePerMatch'
        /\ \A m : Recorded(m)' <=> Recorded(m) \/ m = tickMatch
    BY <2>1, <2>2, RecordedOnceMore DEF RecordFacts
  <2>5. PICK n \in DOMAIN ledger' :
          /\ n \notin DOMAIN ledger /\ ledger'[n] = o
          /\ \A i \in DOMAIN ledger' : i = n \/ i \in DOMAIN ledger
    BY <2>1, <2>2, LedgerGrows
  <2>6. ledger' \in Seq(Outcomes) /\ \A i \in DOMAIN ledger : ledger'[i] = ledger[i]
    BY <2>1, <2>2, LedgerGrows
  <2>7. RecordTyped'
    BY <1>1, <2>6 DEF RecordFacts, RecordTyped
  <2>8. HistoryIsOld'
    <3>1. \A i \in DOMAIN ledger' : ledger'[i].match \in 1 .. matchNo
      BY <2>1, <2>2, <2>5, <2>6 DEF RecordFacts, HistoryIsOld
    <3>2. room.phase \in Live => ~Recorded(matchNo)'
      <4> SUFFICES ASSUME room.phase \in Live, Recorded(matchNo)' PROVE FALSE
        OBVIOUS
      <4>1. champions[matchNo] = None /\ ~Recorded(matchNo)
        BY DEF RecordFacts, HistoryIsOld
      <4>2. Recorded(matchNo) \/ matchNo = tickMatch
        BY <1>1, <2>1, <2>2, <2>5, <2>6 DEF Recorded
      <4> QED BY <2>1, <4>1, <4>2
    <3> QED BY <1>1, <3>1, <3>2 DEF RecordFacts, HistoryIsOld
  <2>9. TickHoldsTheResult'
    BY <1>1 DEF TickHoldsTheResult
  <2>10. RecordsAreReal'
    <3> SUFFICES ASSUME NEW i \in DOMAIN ledger'
                 PROVE  LET e == ledger'[i]
                        IN  IF e.forfeit
                            THEN /\ champions[e.match] = None
                                 /\ e.winner \in e.people /\ Cardinality(e.people) = 2
                            ELSE /\ champions[e.match] # None
                                 /\ e.winner \in {None, champions[e.match]}
      BY <1>1 DEF RecordsAreReal
    <3>1. CASE i = n
      BY <2>1, <2>2, <2>3, <2>5, <3>1
    <3>2. CASE i # n
      BY <2>5, <2>6, <3>2 DEF RecordFacts, RecordsAreReal
    <3> QED BY <3>1, <3>2
  <2>11. ForfeitsAreRecorded'
    BY <1>1, <2>4 DEF RecordFacts, ForfeitsAreRecorded
  <2>12. ResultsOutstanding'
    BY <1>1, <2>2, <2>4 DEF RecordFacts, ResultsOutstanding
  <2> QED BY <2>4, <2>7, <2>8, <2>9, <2>10, <2>11, <2>12 DEF RecordFacts
<1> QED BY <1>2, <1>3

\* Only a room nobody ever played in is swept.
LEMMA SweepPreserves ==
  ASSUME RoomInv, RecordFacts, Sweep
  PROVE  RecordFacts'
<1>1. /\ UNCHANGED <<room, pc, prevPhase, event, tickMatch, ledger, matchNo, champions, slipped>>
      /\ lastPhase' = "waiting" /\ room.players = {}
      /\ \A m : Recorded(m)' = Recorded(m)
  BY DEF Sweep, vars, historyVars, Recorded
<1>2. room.phase \notin {"finished", "round_over"}
  BY <1>1 DEF RoomInv, NobodyPlaysAlone, Several
<1> QED
  BY <1>1, <1>2
  DEF RecordFacts, RecordTyped, HistoryIsOld, TickHoldsTheResult,
      RecordedOncePerMatch, RecordsAreReal, ForfeitsAreRecorded, Phases,
      ResultsOutstanding, ResultIsInHand

\* What is outstanding and what is forfeited account for every match.
LEMMA AccountsAreGiven ==
  ASSUME RoomInv, RecordFacts
  PROVE  MatchesAreAccountedFor
<1> SUFFICES ASSUME NEW m \in 1 .. matchNo,
                    m < matchNo \/ room.phase \notin Live, ~Recorded(m)
             PROVE  IF champions[m] = None THEN ~Ranked ELSE m = tickMatch \/ m \in slipped
  BY DEF MatchesAreAccountedFor
<1>1. m \in Matches /\ (m < matchNo \/ m = matchNo)
  BY BoundsAssumption DEF RecordFacts, RecordTyped, Matches
<1>2. CASE champions[m] # None
  BY <1>1, <1>2 DEF RecordFacts, ResultsOutstanding
<1>3. CASE champions[m] = None /\ m = matchNo /\ room.phase = "finished"
  BY <1>3 DEF RecordFacts, HistoryIsOld, RoomInv, TargetEndsTheMatch
<1>4. CASE champions[m] = None /\ (m < matchNo \/ room.phase = "waiting")
  BY <1>4 DEF RecordFacts, ForfeitsAreRecorded
<1>5. room.phase \in Live \cup {"finished", "waiting"}
  BY DEF RoomInv, TypeOK, RoomState, Phases, Live
<1> QED BY <1>1, <1>2, <1>3, <1>4, <1>5

\* A new room has no matches and no record.
LEMMA RecordFactsInit == ServerInit => RecordFacts
<1> SUFFICES ASSUME ServerInit PROVE RecordFacts
  OBVIOUS
<1>1. ledger = <<>> /\ ledger \in Seq(Outcomes) /\ DOMAIN ledger = {}
  BY DEF ServerInit
<1> QED
  BY <1>1, BoundsAssumption
  DEF ServerInit, Init, NewRoom, RecordFacts, RecordTyped, HistoryIsOld,
      TickHoldsTheResult, RecordedOncePerMatch, RecordsAreReal, ForfeitsAreRecorded,
      ResultsOutstanding,
      Phases, MaybeId, None, NoEvent, Live

(***************************************************************************)
(* The people                                                              *)
(***************************************************************************)

\* Joins in flight, connections and accounts keep their types.
LEMMA PeopleStayTyped ==
  ASSUME RoomInv, PeopleTyped, [ServerNext]_serverVars
  PROVE  PeopleTyped'
<1>1. CASE Loop \/ Message \/ UNCHANGED serverVars
  BY <1>1
  DEF Loop, Message, TickStep, SnapshotSent, EventSent, HandleStart, HandlePick,
      HandleRematch, HandleRestart, serverVars, peopleVars, PeopleTyped
<1>2. CASE Sweep
  BY <1>2 DEF Sweep, PeopleTyped
<1>3. CASE Coming
  <2>1. CASE \E a \in Identities : Connect(a)
    BY <2>1, BoundsAssumption DEF Connect, PeopleTyped
  <2>2. CASE \E a \in Identities : Refuse(a)
    BY <2>2, BoundsAssumption DEF Refuse, PeopleTyped
  <2>3. CASE \E a \in Identities : Insert(a)
    <3>1. joined' \in Ids
      BY <2>3, JoinMoves DEF Insert
    <3> QED BY <2>3, <3>1, BoundsAssumption DEF Insert, PeopleTyped
  <2> QED BY <1>3, <2>1, <2>2, <2>3 DEF Coming
<1>4. CASE Going
  BY <1>4 DEF Going, Disconnect, PeopleTyped, Identities
<1> QED BY <1>1, <1>2, <1>3, <1>4 DEF ServerNext

\* Seats and connections change together.
LEMMA SeatsStayHeld ==
  ASSUME RoomInv, SeatsAreHeld, [ServerNext]_serverVars
  PROVE  SeatsAreHeld'
<1>1. CASE \E alive \in SUBSET room.players : TickStep(alive)
  <2>1. PICK alive \in SUBSET room.players : TickStep(alive)
    BY <1>1
  <2>2. room'.players = room.players
    BY <2>1, TickMoves DEF TickStep
  <2> QED BY <2>1, <2>2 DEF TickStep, peopleVars, SeatsAreHeld
<1>2. CASE SnapshotSent \/ EventSent \/ UNCHANGED serverVars
  BY <1>2 DEF SnapshotSent, EventSent, serverVars, vars, peopleVars, SeatsAreHeld
<1>3. CASE Sweep
  BY <1>3 DEF Sweep, SeatsAreHeld
<1>4. CASE Message
  <2>1. UNCHANGED peopleVars
    BY <1>4 DEF Message, HandleStart, HandlePick, HandleRestart, HandleRematch
  <2>2. room'.players = room.players
    BY <1>4, StartMoves, PickMoves, RestartMoves, VoteMoves
    DEF Message, HandleStart, HandlePick, HandleRestart, HandleRematch
  <2> QED BY <2>1, <2>2 DEF SeatsAreHeld, peopleVars
<1>5. CASE Coming
  <2>1. CASE \E a \in Identities : Connect(a) \/ Refuse(a)
    BY <2>1 DEF Connect, Refuse, vars, SeatsAreHeld
  <2>2. CASE \E a \in Identities : Insert(a)
    <3>1. room'.players = room.players \cup {joined'}
      BY <2>2, JoinMoves DEF Insert
    <3> QED BY <2>2, <3>1 DEF Insert, SeatsAreHeld
  <2> QED BY <1>5, <2>1, <2>2 DEF Coming
<1>6. CASE Going
  <2>1. PICK p \in online : Disconnect(p)
    BY <1>6 DEF Going
  <2>2. CASE registered
    <3>1. room'.players = room.players \ {p}
      BY <2>1, <2>2, LeaveMoves DEF Disconnect, Leave
    <3> QED BY <2>1, <2>2, <3>1 DEF Disconnect, SeatsAreHeld
  <2>3. CASE ~registered
    BY <2>1, <2>3 DEF Disconnect, SeatsAreHeld
  <2> QED BY <2>2, <2>3
<1> QED BY <1>1, <1>2, <1>3, <1>4, <1>5, <1>6 DEF ServerNext, Loop

\* A newcomer was compared with everybody who is seated when he sits down.
LEMMA AccountsStayApart ==
  ASSUME RoomInv, PeopleTyped, NoSelfMatch, [ServerNext]_serverVars
  PROVE  NoSelfMatch'
<1>1. CASE \E alive \in SUBSET room.players : TickStep(alive)
  <2>1. PICK alive \in SUBSET room.players : TickStep(alive)
    BY <1>1
  <2>2. room'.players = room.players
    BY <2>1, TickMoves DEF TickStep
  <2> QED BY <2>1, <2>2 DEF TickStep, peopleVars, NoSelfMatch
<1>2. CASE SnapshotSent \/ EventSent \/ UNCHANGED serverVars
  BY <1>2 DEF SnapshotSent, EventSent, serverVars, vars, peopleVars, NoSelfMatch
<1>3. CASE Sweep
  BY <1>3 DEF Sweep, vars, NoSelfMatch
<1>4. CASE Message
  <2>1. UNCHANGED peopleVars
    BY <1>4 DEF Message, HandleStart, HandlePick, HandleRestart, HandleRematch
  <2>2. room'.players = room.players
    BY <1>4, StartMoves, PickMoves, RestartMoves, VoteMoves
    DEF Message, HandleStart, HandlePick, HandleRestart, HandleRematch
  <2> QED BY <2>1, <2>2 DEF NoSelfMatch, peopleVars
<1>5. CASE Coming
  <2>1. CASE \E a \in Identities : Connect(a) \/ Refuse(a)
    BY <2>1 DEF Connect, Refuse, vars, NoSelfMatch
  <2>2. CASE \E a \in Identities : Insert(a)
    <3>1. PICK a \in Identities : Insert(a)
      BY <2>2
    <3>2. /\ joined' \in Ids /\ joined' \notin room.players
          /\ room'.players = room.players \cup {joined'} /\ room.players \subseteq Ids
      BY <3>1, JoinMoves DEF Insert, RoomInv, TypeOK, RoomState
    <3>3. /\ account'[joined'] = a
          /\ \A q \in room.players : account'[q] = account[q]
      BY <3>1, <3>2 DEF Insert, PeopleTyped
    <3>4. Ranked => a # Guest /\ \A q \in room.players : account[q] # a
      BY <3>1 DEF Insert, Denied
    <3> QED BY <3>2, <3>3, <3>4 DEF NoSelfMatch
  <2> QED BY <1>5, <2>1, <2>2 DEF Coming
<1>6. CASE Going
  <2>1. PICK p \in online : Disconnect(p)
    BY <1>6 DEF Going
  <2>2. CASE registered
    <3>1. room'.players = room.players \ {p} /\ room.players \subseteq Ids
      BY <2>1, <2>2, LeaveMoves DEF Disconnect, Leave, RoomInv, TypeOK, RoomState
    <3>2. \A q \in room.players \ {p} : account'[q] = account[q]
      BY <2>1, <2>2, <3>1 DEF Disconnect, PeopleTyped
    <3> QED BY <3>1, <3>2 DEF NoSelfMatch
  <2>3. CASE ~registered
    BY <2>1, <2>3 DEF Disconnect, vars, NoSelfMatch
  <2> QED BY <2>2, <2>3
<1> QED BY <1>1, <1>2, <1>3, <1>4, <1>5, <1>6 DEF ServerNext, Loop

(***************************************************************************)
(* The theorems                                                            *)
(***************************************************************************)

\* The people of the room at every moment: types, seats and accounts.
PeopleInv == PeopleTyped /\ SeatsAreHeld /\ NoSelfMatch

\* Types, seats and accounts together are inductive, given the rules.
LEMMA PeopleHold == ServerSpec => []PeopleInv
<1>1. ServerInit => PeopleInv
  BY BoundsAssumption
  DEF ServerInit, Init, NewRoom, PeopleInv, PeopleTyped, SeatsAreHeld, NoSelfMatch, Identities
<1>2. RoomInv /\ PeopleInv /\ [ServerNext]_serverVars => PeopleInv'
  BY PeopleStayTyped, SeatsStayHeld, AccountsStayApart DEF PeopleInv
<1> QED BY <1>1, <1>2, ServerRoomInv, PTL DEF ServerSpec

\* What the loop and the handlers know of the record is inductive given the
\* rules and the types of the people.
THEOREM RecordIsKept == ServerSpec => []RecordInv
<1>1. RoomInv /\ RoomInv' /\ PeopleInv /\ RecordFacts /\ [ServerNext]_serverVars => RecordFacts'
  <2> SUFFICES ASSUME RoomInv, RoomInv', PeopleInv, RecordFacts, [ServerNext]_serverVars
               PROVE  RecordFacts'
    OBVIOUS
  <2>1. online \subseteq Ids
    BY DEF PeopleInv, PeopleTyped
  <2> QED
    BY <2>1, StepKinds, QuietPreserves, KickoffPreserves, ForfeitPreserves,
       TickStepPreserves, SnapshotPreserves, EventPreserves, SweepPreserves
<1>2. ServerSpec => []RecordFacts
  BY <1>1, RecordFactsInit, ServerRoomInv, PeopleHold, PTL DEF ServerSpec
<1>3. RecordFacts /\ PeopleInv /\ RoomInv => RecordInv
  BY AccountsAreGiven
  DEF RecordFacts, PeopleInv, PeopleTyped, RecordTyped, ServerTypeOK, RecordInv
<1> QED BY <1>2, <1>3, PeopleHold, ServerRoomInv, PTL

\* No match is handed to the database twice, whoever leaves while whatever is
\* being broadcast.
THEOREM EachMatchOnce == ServerSpec => []RecordedOncePerMatch
<1>1. RecordInv => RecordedOncePerMatch
  BY DEF RecordInv
<1> QED BY <1>1, RecordIsKept, PTL

\* Every record is of a match that ended the way the record says.
THEOREM RecordsTellTheTruth == ServerSpec => []RecordsAreReal
<1>1. RecordInv => RecordsAreReal
  BY DEF RecordInv
<1> QED BY <1>1, RecordIsKept, PTL

\* A match that is over is recorded, unless its result slipped in one of the
\* two windows or is still in the hands of the tick.
THEOREM MatchesAreNotLost == ServerSpec => []MatchesAreAccountedFor
<1>1. RecordInv => MatchesAreAccountedFor
  BY DEF RecordInv
<1> QED BY <1>1, RecordIsKept, PTL

\* The players of a served room are its connections.
THEOREM NoGhosts == ServerSpec => []SeatsAreHeld
<1>1. PeopleInv => SeatsAreHeld
  BY DEF PeopleInv
<1> QED BY <1>1, PeopleHold, PTL

\* However many tabs join at once, a ranked room seats an account once.
THEOREM NobodyMeetsHimself == ServerSpec => []NoSelfMatch
<1>1. PeopleInv => NoSelfMatch
  BY DEF PeopleInv
<1> QED BY <1>1, PeopleHold, PTL
=============================================================================
