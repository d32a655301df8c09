----------------------------- MODULE GameServer -----------------------------
(***************************************************************************)
(* One PvP room as the server runs it.  The websocket handlers of          *)
(* api/ws.py, the 60 Hz loop of main.py and the captures of                *)
(* services/results.py share one event loop: a handler is atomic between   *)
(* two awaits, and the others run while it is suspended.                   *)
(*                                                                         *)
(* - game_ws checks the capacity, awaits load_identity, then inserts the   *)
(*   player without looking again: Connect, then Insert or Refuse.         *)
(* - _tick_once ticks the room, awaits the snapshot broadcast, looks at    *)
(*   the room again for the event, awaits the event's broadcast, and reads *)
(*   the room a third time for the record: TickStep, SnapshotSent,         *)
(*   EventSent.                                                            *)
(***************************************************************************)
EXTENDS PvpRoom, FiniteSets, Sequences

CONSTANTS
  Accounts,     \* accounts that may join
  Guest,        \* whoever load_identity answers None for
  MaxPlayers,   \* room.max_players
  MaxLoading,   \* bound: suspended joins of one identity, or of any two together
  MaxMatches    \* bound: kickoffs over a behaviour

ASSUME GuestAssumption == Guest \notin Accounts
ASSUME MaxPlayersAssumption == MaxPlayers \in 1 .. 8
ASSUME BoundsAssumption == MaxLoading \in Nat /\ MaxMatches \in Nat

VARIABLES
  registered,  \* room_manager.rooms still holds the room under its code
  loading,     \* loading[a]: joins that load_identity will answer with a
  online,      \* players whose message loop is running
  account,     \* Player.account_id
  pc,          \* where _tick_once is: "idle", "snapshot" or "event"
  prevPhase,   \* its local prev_phase, dead ("waiting") once read
  lastPhase,   \* _last_phase[code]
  event,       \* the event it is broadcasting
  ledger,      \* the outcomes handed to results.schedule, in order
  matchNo,     \* history: kickoffs so far
  tickMatch,   \* history: the match the tick in progress belongs to, or 0
  champions,   \* history: who won each match that reached "finished"
  slipped      \* history: matches whose result the tick could not hand over

peopleVars  == <<registered, loading, online, account>>
loopVars    == <<pc, prevPhase, lastPhase, event, tickMatch>>
historyVars == <<matchNo, champions, slipped>>
serverVars  == <<vars, peopleVars, loopVars, ledger, historyVars>>

Live    == {"playing", "round_over", "picking"}
NoEvent == "none"
Matches == 1 .. MaxMatches
Identities == Accounts \cup {Guest}

\* One MatchOutcome; the people are its participants.
Outcome(m, forfeit, winner, r, people) ==
  [match |-> m, forfeit |-> forfeit, winner |-> winner, people |-> people,
   score |-> [p \in Ids |-> IF p \in people THEN r.scores[p] ELSE 0]]

ServerInit ==
  /\ Init
  /\ registered = TRUE
  /\ loading = [a \in Identities |-> 0]
  /\ online = {}
  /\ account = [p \in Ids |-> Guest]
  /\ pc = "idle" /\ prevPhase = "waiting" /\ lastPhase = "waiting"
  /\ event = NoEvent /\ tickMatch = 0
  /\ ledger = <<>>
  /\ matchNo = 0
  /\ champions = [m \in Matches |-> None]
  /\ slipped = {}

\* A handler takes a result away from the tick that is still awaiting: off the
\* screen before the tick looks for its event, or out of an emptied room
\* before capture_finish asks for the players.
Slip ==
  slipped' = IF \/ pc = "snapshot" /\ prevPhase # "finished"
                   /\ room.phase = "finished" /\ room'.phase # "finished"
                \/ pc = "event" /\ event = "match_over" /\ room'.players = {}
             THEN slipped \cup {tickMatch} ELSE slipped

(***************************************************************************)
(* Joining: api/ws.py game_ws, api/ws_join.py                              *)
(***************************************************************************)

\* RoomManager.is_full
IsFull == Cardinality(room.players) >= MaxPlayers

\* The room exists and is not full; load_identity is awaited.
Connect(a) ==
  /\ registered
  /\ ~IsFull
  /\ loading[a] < MaxLoading
  /\ \A b \in Identities \ {a} : loading[a] + loading[b] < MaxLoading
  /\ loading' = [loading EXCEPT ![a] = @ + 1]
  /\ UNCHANGED <<vars, registered, online, account, loopVars, ledger, historyVars>>

\* bug: only guests are turned away
DeniedGuest(a) == Ranked /\ a = Guest

\* ranked_denial: a ranked room turns away guests, and the account that
\* already has a player in the room.
Denied(a) ==
  /\ Ranked
  /\ a = Guest \/ \E p \in room.players : account[p] = a

\* bug: the connection does not remember its player, so _cleanup returns early
InsertForgotten(a) ==
  /\ loading[a] > 0
  /\ ~Denied(a)
  /\ Join
  /\ loading' = [loading EXCEPT ![a] = @ - 1]
  /\ account' = [account EXCEPT ![joined'] = a]
  /\ UNCHANGED <<registered, online, loopVars, ledger, historyVars>>

\* load_identity answered: the player enters the Room object that game_ws
\* looked up before the await, whatever happened to it since.
Insert(a) ==
  /\ loading[a] > 0
  /\ ~Denied(a)
  /\ Join
  /\ loading' = [loading EXCEPT ![a] = @ - 1]
  /\ online' = online \cup {joined'}
  /\ account' = [account EXCEPT ![joined'] = a]
  /\ UNCHANGED <<registered, loopVars, ledger, historyVars>>

Refuse(a) ==
  /\ loading[a] > 0
  /\ Denied(a)
  /\ loading' = [loading EXCEPT ![a] = @ - 1]
  /\ UNCHANGED <<vars, registered, online, account, loopVars, ledger, historyVars>>

(***************************************************************************)
(* Leaving: api/ws.py _cleanup, results.capture_forfeit                    *)
(***************************************************************************)

\* The one who stays wins; the scores are read before the leaver's is popped.
ForfeitOf(p) ==
  LET stay == CHOOSE q \in room.players \ {p} : TRUE
  IN  Outcome(matchNo, TRUE, stay, room, {stay, p})

\* bug: leaving between two rounds is no forfeit
IsForfeitPlaying(p) ==
  Ranked /\ room.phase = "playing" /\ Cardinality(room.players \ {p}) = 1

IsForfeit(p) ==
  /\ Ranked
  /\ room.phase \in Live
  /\ Cardinality(room.players \ {p}) = 1

\* A room that was dropped from the manager is not cleaned up any more.
Disconnect(p) ==
  /\ p \in online
  /\ online' = online \ {p}
  /\ IF registered
     THEN /\ Leave(p)
          /\ account' = [account EXCEPT ![p] = Guest]
          /\ ledger' = IF IsForfeit(p) THEN Append(ledger, ForfeitOf(p)) ELSE ledger
          /\ registered' = (room'.players # {})
     ELSE UNCHANGED <<vars, registered, account, ledger>>
  /\ Slip
  /\ UNCHANGED <<loading, loopVars, matchNo, champions>>

(***************************************************************************)
(* Messages: api/ws.py _handle, _do_rematch                                *)
(***************************************************************************)

\* A kickoff begins the next match.
Kickoff ==
  /\ matchNo < MaxMatches
  /\ matchNo' = matchNo + 1
  /\ UNCHANGED champions

HandleStart(p) ==
  /\ p \in online
  /\ Start
  /\ Kickoff
  /\ UNCHANGED <<peopleVars, loopVars, ledger, slipped>>

HandlePick(p) ==
  /\ p \in online
  /\ Pick(p)
  /\ UNCHANGED <<peopleVars, loopVars, ledger, historyVars>>

HandleRematch(p, accept) ==
  /\ p \in online
  /\ Vote(p, accept)
  /\ IF room'.phase = "playing" THEN Kickoff ELSE UNCHANGED <<matchNo, champions>>
  /\ Slip
  /\ UNCHANGED <<peopleVars, loopVars, ledger>>

HandleRestart(p) ==
  /\ p \in online
  /\ Restart
  /\ Slip
  /\ UNCHANGED <<peopleVars, loopVars, ledger, matchNo, champions>>

(***************************************************************************)
(* The loop: main.py _tick_once, _sweep                                    *)
(***************************************************************************)

TickStep(alive) ==
  /\ pc = "idle" /\ registered
  /\ Tick(alive)
  /\ prevPhase' = lastPhase
  /\ lastPhase' = room'.phase
  /\ tickMatch' = matchNo
  /\ pc' = "snapshot"
  /\ champions' = IF room.phase # "finished" /\ room'.phase = "finished"
                  THEN [champions EXCEPT ![matchNo] = room'.winnerId]
                  ELSE champions
  /\ UNCHANGED <<peopleVars, event, ledger, matchNo, slipped>>

\* engine.phase_event, on the room as it is now
PhaseEvent(r, prev) ==
  CASE r.phase = prev -> NoEvent
    [] r.phase # prev /\ r.phase = "round_over" -> "round_over"
    [] r.phase # prev /\ r.phase = "picking"    -> "card_phase"
    [] r.phase # prev /\ r.phase = "finished"   -> "match_over"
    [] r.phase = "playing" /\ prev = "waiting"  -> "game_started"
    [] OTHER -> NoEvent

SnapshotSent ==
  /\ pc = "snapshot"
  /\ event' = PhaseEvent(room, prevPhase)
  /\ IF event' = NoEvent
     THEN pc' = "idle"  /\ tickMatch' = 0
     ELSE pc' = "event" /\ UNCHANGED tickMatch
  /\ prevPhase' = "waiting"
  /\ UNCHANGED <<vars, peopleVars, lastPhase, ledger, historyVars>>

\* results.capture_finish, on the room as it is now
FinishOf ==
  Outcome(tickMatch, FALSE, room.winnerId, room, room.players)

\* bug: every round's end is recorded like a match
EventSentEveryRound ==
  /\ pc = "event"
  /\ ledger' = IF event \in {"match_over", "round_over"} /\ room.players # {}
               THEN Append(ledger, FinishOf) ELSE ledger
  /\ pc' = "idle"
  /\ event' = NoEvent
  /\ tickMatch' = 0
  /\ UNCHANGED <<vars, peopleVars, prevPhase, lastPhase, historyVars>>

EventSent ==
  /\ pc = "event"
  /\ ledger' = IF event = "match_over" /\ room.players # {}
               THEN Append(ledger, FinishOf) ELSE ledger
  /\ pc' = "idle"
  /\ event' = NoEvent
  /\ tickMatch' = 0
  /\ UNCHANGED <<vars, peopleVars, prevPhase, lastPhase, historyVars>>

\* cleanup_empty, once the room has been empty for EMPTY_ROOM_GRACE_SEC
Sweep ==
  /\ pc = "idle" /\ registered
  /\ room.players = {}
  /\ registered' = FALSE
  /\ lastPhase' = "waiting"
  /\ UNCHANGED <<vars, loading, online, account, pc, prevPhase, event,
                 tickMatch, ledger, historyVars>>

(***************************************************************************)
(* The specification                                                       *)
(***************************************************************************)

Loop ==
  \/ \E alive \in SUBSET room.players : TickStep(alive)
  \/ SnapshotSent
  \/ EventSent

Message ==
  \/ \E p \in online : HandleStart(p) \/ HandlePick(p) \/ HandleRestart(p)
  \/ \E p \in online, accept \in BOOLEAN : HandleRematch(p, accept)

Coming == \E a \in Identities : Connect(a) \/ Insert(a) \/ Refuse(a)
Going  == \E p \in online : Disconnect(p)

ServerNext == Loop \/ Message \/ Coming \/ Going \/ Sweep

ServerSpec == ServerInit /\ [][ServerNext]_serverVars

\* The loop never stops while the process runs; people may do nothing.
FairServerSpec == ServerSpec /\ WF_serverVars(Loop)

(***************************************************************************)
(* Properties                                                              *)
(***************************************************************************)

Outcomes ==
  [match: Matches, forfeit: BOOLEAN, winner: MaybeId,
   people: SUBSET Ids, score: [Ids -> Nat]]

\* The server's variables have their declared types.
ServerTypeOK ==
  /\ registered \in BOOLEAN
  /\ loading \in [Identities -> 0 .. MaxLoading]
  /\ online \subseteq Ids
  /\ account \in [Ids -> Identities]
  /\ pc \in {"idle", "snapshot", "event"}
  /\ prevPhase \in Phases /\ lastPhase \in Phases
  /\ event \in {NoEvent, "round_over", "card_phase", "match_over", "game_started"}
  /\ ledger \in Seq(Outcomes)
  /\ matchNo \in 0 .. MaxMatches /\ tickMatch \in 0 .. matchNo
  /\ champions \in [Matches -> MaybeId]
  /\ slipped \subseteq Matches

Recorded(m) == \E i \in DOMAIN ledger : ledger[i].match = m

\* While the room is served, its players are exactly the connections whose
\* message loop runs: no ghost keeps a seat (_cleanup), and nobody who is
\* connected has lost his.
SeatsAreHeld == registered => room.players = online

\* A match reaches the database at most once, however its end, the departure
\* of its players and the tick in progress interleave: forfeits are recorded
\* by _cleanup and results by _tick_once, which never look at each other.
RecordedOncePerMatch ==
  \A i, j \in DOMAIN ledger : ledger[i].match = ledger[j].match => i = j

\* A forfeit is recorded for a match nobody had won, between two players one
\* of whom is its winner; a result only for a match somebody did win, and if
\* it names a winner, that is the one.
RecordsAreReal ==
  \A i \in DOMAIN ledger :
    LET o == ledger[i]
    IN  IF o.forfeit
        THEN /\ champions[o.match] = None
             /\ o.winner \in o.people /\ Cardinality(o.people) = 2
        ELSE /\ champions[o.match] # None
             /\ o.winner \in {None, champions[o.match]}

\* No match that is over is missing from the record without a reason: walking
\* out of an undecided ranked match always records it (capture_forfeit), and a
\* won match is recorded, or about to be by the tick in progress, or slipped
\* in one of the two windows the awaits of _tick_once leave open.
MatchesAreAccountedFor ==
  \A m \in 1 .. matchNo :
    (m < matchNo \/ room.phase \notin Live) /\ ~Recorded(m) =>
      IF champions[m] = None THEN ~Ranked ELSE m = tickMatch \/ m \in slipped

\* Nobody meets himself in a ranked room, even when the same account joins
\* from two tabs at once (ranked_denial runs after the await).
NoSelfMatch ==
  Ranked =>
    \A p \in room.players :
      /\ account[p] # Guest
      /\ \A q \in room.players : account[p] = account[q] => p = q

\* What the history and the locals of the tick know of the record.  Recorded
\* and won matches are old ones; the match being played is in no record; a
\* result on the screen is that of the last match, and the loop saw it come.
HistoryIsOld ==
  /\ \A m \in Matches : champions[m] # None => m <= matchNo
  /\ \A i \in DOMAIN ledger : ledger[i].match \in 1 .. matchNo
  /\ room.phase \in Live =>
       matchNo > 0 /\ champions[matchNo] = None /\ ~Recorded(matchNo)
  /\ room.phase = "finished" =>
       matchNo > 0 /\ champions[matchNo] = room.winnerId /\ lastPhase = "finished"
  /\ room.phase = "round_over" => lastPhase = "round_over"

\* The tick that made the room finish holds the only unrecorded result, from
\* the moment it ticked until it hands the result over.
TickHoldsTheResult ==
  /\ pc = "snapshot" /\ room.phase = "finished" /\ prevPhase # "finished" =>
       tickMatch = matchNo /\ ~Recorded(matchNo)
  /\ pc = "event" /\ event = "match_over" =>
       /\ tickMatch > 0 /\ champions[tickMatch] # None /\ ~Recorded(tickMatch)
       /\ room.phase = "finished" => tickMatch = matchNo

\* A won match that is in no record slipped, or is the result the tick in
\* progress still has in its hands.
ResultIsInHand ==
  \/ pc = "snapshot" /\ prevPhase # "finished" /\ room.phase = "finished"
  \/ pc = "event" /\ event = "match_over" /\ room.players # {}

ResultsOutstanding ==
  \A m \in Matches :
    champions[m] # None /\ ~Recorded(m) /\ m \notin slipped =>
      m = tickMatch /\ ResultIsInHand

\* The inductive invariant behind the record of matches.
RecordInv ==
  /\ ServerTypeOK
  /\ HistoryIsOld
  /\ TickHoldsTheResult
  /\ RecordedOncePerMatch
  /\ RecordsAreReal
  /\ ResultsOutstanding
  /\ MatchesAreAccountedFor

\* While the loop runs, a decided round ends: even if it was a draw, or its
\* winner left, or somebody joined while the result was shown.
RoundOverEnds ==
  (registered /\ room.phase = "round_over") ~> (~registered \/ room.phase # "round_over")

(***************************************************************************)
(* What the documents promise and the code does not keep                   *)
(***************************************************************************)

\* docs/PROTOCOL.md: the loop hands over the result of every match that ends.
FinishedMatchesAreRecorded ==
  pc = "idle" => \A m \in Matches : champions[m] # None => Recorded(m)

\* results.capture_finish: the result at the moment the phase became finished.
ResultsNameTheWinner ==
  \A i \in DOMAIN ledger :
    ~ledger[i].forfeit => ledger[i].winner = champions[ledger[i].match]

\* docs/PROTOCOL.md: a full room answers 4409.
CapacityIsKept == Cardinality(room.players) <= MaxPlayers

\* docs/PROTOCOL.md: a room that does not exist answers 4404, so whoever got
\* in sits in a room the loop serves.
NobodyIsStranded == room.players # {} => registered
=============================================================================
