------------------------------- MODULE Session -------------------------------
(***************************************************************************)
(* One browser tab and the PvP room it plays in: the WebSocket singleton   *)
(* net/connection.ts, the session half of store/gameStore.ts, the routing  *)
(* of App.tsx and the lobby's openRoom and joinRoom, against the tail of   *)
(* the server that writes to the socket: api/ws.py and main._tick_once.    *)
(*                                                                         *)
(* What the client shows is put together from three kinds of messages.     *)
(* Snapshots come 60 times a second and reach the store only when their    *)
(* phase is new (lastPhase); the coins ride on them.  Snapshots of a round *)
(* mostly carry the moving platforms only and are laid over the terrain of *)
(* an earlier message (withTerrain).  room_state carries phase and terrain *)
(* and no coins.  A socket delivers in order; a second socket may be       *)
(* opened before the close event of the first has arrived.                 *)
(*                                                                         *)
(* Chat, lastEvent and playerLeft are only shown: see the module Play.     *)
(* A map stands for the terrain laid out under its id.                     *)
(***************************************************************************)
EXTENDS Integers, Sequences

CONSTANTS
  Maps,         \* the maps
  NoMap,        \* terrain of an empty list
  MaxSockets,   \* bound: sockets opened over a behaviour
  MaxInbox,     \* bound: messages under way to the browser
  MaxCoins,     \* bound: what the seat's balance may grow to
  MaxMatches    \* bound: kickoffs over a behaviour

ASSUME MapsAssumption == NoMap \notin Maps
ASSUME SessionBounds ==
  MaxSockets \in Nat /\ MaxInbox \in Nat /\ MaxCoins \in Nat /\ MaxMatches \in Nat

VARIABLES
  \* the browser
  ws,         \* connection.ts ws: the socket in use, or 0 for null
  sock,       \* sock[s]: readyState of each socket
  inbox,      \* inbox[s]: what has arrived or is under way on s, in order
  lastPhase,  \* connection.ts lastPhase
  terrain,    \* connection.ts terrain
  latest,     \* net.latest: map of the last snapshot, its terrain; or NoSnapshot
  store,      \* the session fields of the store
  coins,      \* store.coins, which reset() leaves alone
  asking,     \* a REST request of openRoom or joinRoom is out (busy)
  told,       \* history: the reason the server gave on the newest socket, in
              \* its error message or by the code it closed with
  \* the server, as far as this seat can see it
  room,       \* phase and map of the room
  announced,  \* main._last_map[code]
  heard,      \* main._last_phase[code]
  pc,         \* where _tick_once is: "rest", "map" or "snapshot"
  prev,       \* its local prev_phase, dead ("waiting") at rest
  seat,       \* seat[s]: "none", "seated", or "gone" for a closed or refused one
  purse,      \* Player.coins of the seat
  paid,       \* history: the seat has earned coins since it was taken
  matchNo,    \* history: kickoffs so far
  pending,    \* matches whose records are being written
  unheralded  \* history: the loop sent no announcement of a rematch's new map

browserVars == <<ws, sock, inbox, lastPhase, terrain, latest, store, coins, asking, told>>
serverVars  == <<room, announced, heard, pc, prev, seat, purse, paid, matchNo, pending,
                 unheralded>>
vars        == <<browserVars, serverVars>>

Sockets    == 1 .. MaxSockets
Phases     == {"waiting", "playing", "round_over", "picking", "finished"}
NoPhase    == "none"
NoSnapshot == [map |-> NoMap, terrain |-> NoMap]
NoError    == "none"
Refusals   == {"denied", "not_found", "full"}   \* closed with 4401, 4404, 4409
Cuts       == {"going_away", "lost"}            \* closed with 1001, 1006
Disconnected == "disconnected"                  \* the default message

SessionDefaults ==
  [status |-> "idle", error |-> NoError, playerId |-> 0, room |-> 0,
   phase |-> "waiting", rankChange |-> 0]

Init ==
  /\ ws = 0
  /\ sock = [s \in Sockets |-> "unused"]
  /\ inbox = [s \in Sockets |-> <<>>]
  /\ lastPhase = NoPhase /\ terrain = NoMap /\ latest = NoSnapshot
  /\ store = SessionDefaults /\ coins = 0
  /\ asking = FALSE /\ told = NoError
  /\ room \in [phase : {"waiting", "finished"}, map : Maps]   \* new, or others' match is over
  /\ announced = IF room.phase = "waiting" THEN NoMap ELSE room.map
  /\ heard = room.phase /\ pc = "rest" /\ prev = "waiting"
  /\ seat = [s \in Sockets |-> "none"]
  /\ purse = 0 /\ paid = FALSE
  /\ matchNo = 0 /\ pending = {} /\ unheralded = FALSE

\* _cleanup: nothing is left of the seat.
Vacate(s) ==
  /\ seat' = [seat EXCEPT ![s] = "gone"]
  /\ purse' = 0 /\ paid' = FALSE

otherServer == <<room, announced, heard, pc, prev, matchNo, pending, unheralded>>

(***************************************************************************)
(* The screens: App.tsx                                                    *)
(***************************************************************************)

Screen ==
  IF store.status = "connected" /\ store.room # 0
    THEN IF store.phase = "waiting" THEN "room" ELSE "game"
    ELSE "lobby"

Connecting == store.status = "connecting" \/ asking

\* The buttons of the lobby are not disabled.
LobbyIsReady == Screen = "lobby" /\ ~Connecting

(***************************************************************************)
(* connection.ts: what the page calls                                      *)
(***************************************************************************)

\* openRoom, joinRoom: the request that comes before the socket.
AskForRoom ==
  /\ LobbyIsReady
  /\ asking' = TRUE
  /\ UNCHANGED <<ws, sock, inbox, lastPhase, terrain, latest, store, coins, told, serverVars>>

\* It failed: a localError, and no socket.
AskFailed ==
  /\ asking
  /\ asking' = FALSE
  /\ UNCHANGED <<ws, sock, inbox, lastPhase, terrain, latest, store, coins, told, serverVars>>

\* net.connect: leave the old socket, forget its session, open a new one.
Connect(s) ==
  /\ asking
  /\ sock[s] = "unused" /\ \A t \in 1 .. s - 1 : sock[t] # "unused"
  /\ asking' = FALSE
  /\ ws' = s
  /\ sock' = [t \in Sockets |-> IF t = s THEN "connecting"
                                ELSE IF t = ws THEN "closing" ELSE sock[t]]
  /\ inbox' = [t \in Sockets |-> IF t = ws THEN <<>> ELSE inbox[t]]
  /\ lastPhase' = NoPhase /\ terrain' = NoMap /\ latest' = NoSnapshot
  /\ store' = [SessionDefaults EXCEPT !.status = "connecting"]
  /\ told' = NoError
  /\ UNCHANGED <<coins, serverVars>>

\* new WebSocket throws: the old session is left all the same, and there is no
\* new socket.  Its message is as good as the default one.
ConnectThrows ==
  /\ asking
  /\ asking' = FALSE
  /\ ws' = 0
  /\ sock' = [t \in Sockets |-> IF t = ws THEN "closing" ELSE sock[t]]
  /\ inbox' = [t \in Sockets |-> IF t = ws THEN <<>> ELSE inbox[t]]
  /\ lastPhase' = NoPhase /\ terrain' = NoMap /\ latest' = NoSnapshot
  /\ store' = [SessionDefaults EXCEPT !.status = "error", !.error = Disconnected]
  /\ told' = NoError
  /\ UNCHANGED <<coins, serverVars>>

\* App.leave: net.disconnect and reset.  Once close() was called nothing that
\* is still under way on the socket is dispatched, except its close event; what
\* the server goes on writing until it notices is not seen.
Leave ==
  /\ Screen # "lobby"
  /\ ws' = 0
  /\ sock' = [s \in Sockets |-> IF s = ws THEN "closing" ELSE sock[s]]
  /\ inbox' = [s \in Sockets |-> IF s = ws THEN <<>> ELSE inbox[s]]
  /\ lastPhase' = NoPhase /\ terrain' = NoMap /\ latest' = NoSnapshot
  /\ store' = SessionDefaults
  /\ Vacate(ws)
  /\ UNCHANGED <<coins, asking, told, otherServer>>

(***************************************************************************)
(* connection.ts: what the socket calls                                    *)
(***************************************************************************)

\* closeMessage: the codes that have a message of their own.
CloseMessage(code) == IF code \in {"not_found", "full"} THEN code ELSE NoError

\* bug: the server's reason is looked up after the session was reset
FarewellTooLate(code) ==
  IF CloseMessage(code) # NoError THEN CloseMessage(code) ELSE Disconnected

\* What is shown: the code's message, else the server's, else the default.
Farewell(code) ==
  IF CloseMessage(code) # NoError THEN CloseMessage(code)
  ELSE IF store.error # NoError THEN store.error ELSE Disconnected

\* handleClose: going away is silent unless the server gave a reason.
HandleClose(code) ==
  /\ ws' = 0
  /\ lastPhase' = NoPhase /\ terrain' = NoMap /\ latest' = NoSnapshot
  /\ store' = IF code = "going_away" /\ store.error = NoError
                THEN SessionDefaults
                ELSE [SessionDefaults EXCEPT !.status = "error", !.error = Farewell(code)]

\* What the code of a close event says is heard with it, on the socket in use.
Heard(s, code) == told' = IF ws = s /\ code \in Refusals THEN code ELSE told

\* bug: the close event of a socket that was left ends the session in use
OnCloseUnguarded(s, code) ==
  /\ sock' = [sock EXCEPT ![s] = "closed"]
  /\ inbox' = [inbox EXCEPT ![s] = <<>>]
  /\ HandleClose(code) /\ Heard(s, code)
  /\ UNCHANGED <<coins, asking>>

\* socket.onclose: only the socket in use may end the session.
OnClose(s, code) ==
  /\ sock' = [sock EXCEPT ![s] = "closed"]
  /\ inbox' = [inbox EXCEPT ![s] = <<>>]
  /\ IF ws = s THEN HandleClose(code)
                 ELSE UNCHANGED <<ws, lastPhase, terrain, latest, store>>
  /\ Heard(s, code)
  /\ UNCHANGED <<coins, asking>>

\* socket.onopen; the join that it sends is answered by Admit or Refuse.
Opens(s) ==
  /\ sock[s] = "connecting"
  /\ sock' = [sock EXCEPT ![s] = "open"]
  /\ UNCHANGED <<ws, inbox, lastPhase, terrain, latest, store, coins, asking, told, serverVars>>

OpenFails(s) ==
  /\ sock[s] = "connecting"
  /\ OnClose(s, "lost")
  /\ Vacate(s)
  /\ UNCHANGED otherServer

\* The close handshake of a socket the page has left is over.
CloseArrives(s) ==
  /\ sock[s] = "closing"
  /\ OnClose(s, "normal")
  /\ UNCHANGED serverVars

\* withTerrain: the platforms of the snapshot, or the remembered ones with the
\* movers at their new places.
WithTerrain(m) == IF m.full THEN m.map ELSE terrain

\* The balance of this player in a snapshot is the profile's from then on.
SyncMyCoins(m) == coins' = IF store.playerId = 0 THEN coins ELSE m.coins

\* applyServerMessage on a snapshot, and on welcome.
StoreState(m)   == store' = [store EXCEPT !.phase = m.phase] /\ SyncMyCoins(m)
StoreWelcome(m) ==
  store' = [store EXCEPT !.status = "connected", !.error = NoError,
                         !.playerId = m.id, !.room = m.id, !.phase = m.phase]

\* handleMessage on a snapshot: every one reaches the renderer, and the store
\* gets those with another phase than lastPhase, and only them.
ShowState(m) ==
  /\ terrain' = WithTerrain(m)
  /\ latest' = [map |-> m.map, terrain |-> terrain']
  /\ IF lastPhase = m.phase
       THEN UNCHANGED <<lastPhase, store, coins>>
       ELSE lastPhase' = m.phase /\ StoreState(m)
  /\ UNCHANGED told

\* handleMessage on welcome: status, identity, room and phase at once.
ShowWelcome(m) ==
  /\ lastPhase' = m.phase /\ terrain' = m.map
  /\ StoreWelcome(m)
  /\ UNCHANGED <<latest, coins, told>>

\* bug: room_state reaches the store but not the filter
ShowRoomBesideFilter(m) ==
  /\ terrain' = m.map
  /\ store' = [store EXCEPT !.room = m.id, !.phase = m.phase]
  /\ UNCHANGED <<lastPhase, latest, coins, told>>

\* handleMessage on room_state.
ShowRoom(m) ==
  /\ lastPhase' = m.phase /\ terrain' = m.map
  /\ store' = [store EXCEPT !.room = m.id, !.phase = m.phase]
  /\ UNCHANGED <<latest, coins, told>>

\* applyServerMessage on the others: a new game clears the banner with the
\* change of rank, rank_update sets it, error is kept for handleClose.
ShowOther(m) ==
  /\ store' = CASE m.type = "game_started" -> [store EXCEPT !.rankChange = 0]
               [] m.type = "rank_update"  -> IF store.playerId = 0 THEN store
                                             ELSE [store EXCEPT !.rankChange = m.match]
               [] m.type = "error"        -> [store EXCEPT !.error = m.reason]
  /\ told' = IF m.type = "error" THEN m.reason ELSE told
  /\ UNCHANGED <<lastPhase, terrain, latest, coins>>

\* socket.onmessage and the close event that ends the stream.
Deliver(s) ==
  /\ sock[s] = "open" /\ inbox[s] # <<>>
  /\ LET m == Head(inbox[s]) IN
       IF m.type = "close"
         THEN OnClose(s, m.code)
         ELSE /\ ws = s
              /\ inbox' = [inbox EXCEPT ![s] = Tail(@)]
              /\ CASE m.type = "state"      -> ShowState(m)
                   [] m.type = "welcome"    -> ShowWelcome(m)
                   [] m.type = "room_state" -> ShowRoom(m)
                   [] OTHER                 -> ShowOther(m)
              /\ UNCHANGED <<ws, sock, asking>>
  /\ UNCHANGED serverVars

(***************************************************************************)
(* The server: what is written to the socket                               *)
(***************************************************************************)

Closed(s)  == inbox[s] # <<>> /\ inbox[s][Len(inbox[s])].type = "close"
Seated(s)  == sock[s] = "open" /\ seat[s] = "seated"

\* Bound: the server waits while the browser is behind.
RoomToSend == \A s \in Sockets : Seated(s) => Len(inbox[s]) < MaxInbox


RoomState(s) == [type |-> "room_state", id |-> s, phase |-> room'.phase, map |-> room'.map]

Snapshot(full) == [type |-> "state", phase |-> room'.phase, map |-> room'.map,
  full |-> full, coins |-> purse']

\* hub.broadcast, in the order of the calls: here, the room.
BroadcastRoom ==
  inbox' = [s \in Sockets |-> IF Seated(s) THEN Append(inbox[s], RoomState(s)) ELSE inbox[s]]

\* serialize.snapshot: all platforms outside a round, and every 30th tick.
BroadcastSnapshot ==
  \E full \in IF room'.phase = "playing" THEN BOOLEAN ELSE {TRUE} :
    inbox' = [s \in Sockets |-> IF Seated(s) THEN Append(inbox[s], Snapshot(full)) ELSE inbox[s]]

BroadcastOther(m) ==
  inbox' = [s \in Sockets |-> IF Seated(s) THEN Append(inbox[s], m) ELSE inbox[s]]

page == <<ws, sock, lastPhase, terrain, latest, store, coins, asking, told>>

\* game_ws up to welcome.  The balance is the account's, or what join claimed.
Admit(s) ==
  /\ sock[s] = "open" /\ seat[s] = "none"
  /\ seat' = [seat EXCEPT ![s] = "seated"]
  /\ purse' \in 0 .. 1 /\ paid' = FALSE
  /\ inbox' = [inbox EXCEPT ![s] =
       <<[type |-> "welcome", id |-> s, phase |-> room.phase, map |-> room.map]>>]
  /\ UNCHANGED <<page, otherServer>>

\* bug: the connection is left open
RefuseSilently(s) ==
  /\ sock[s] = "open" /\ seat[s] = "none"
  /\ seat' = [seat EXCEPT ![s] = "gone"]
  /\ \E r \in Refusals :
       inbox' = [inbox EXCEPT ![s] = <<[type |-> "error", reason |-> r]>>]
  /\ UNCHANGED <<page, room, announced, heard, pc, prev, purse, paid, matchNo, pending, unheralded>>

\* _fail: the reason, then the close code.
Refuse(s) ==
  /\ sock[s] = "open" /\ seat[s] = "none"
  /\ seat' = [seat EXCEPT ![s] = "gone"]
  /\ \E r \in Refusals :
       inbox' = [inbox EXCEPT ![s] = <<[type |-> "error", reason |-> r],
                                       [type |-> "close", code |-> r]>>]
  /\ UNCHANGED <<page, room, announced, heard, pc, prev, purse, paid, matchNo, pending, unheralded>>

\* The connection breaks: what has not arrived is lost, a refusal included.
Cut(s) ==
  /\ sock[s] = "open"
  /\ Closed(s) => inbox[s][Len(inbox[s])].code \in Refusals
  /\ Vacate(s)
  /\ \E k \in 0 .. (IF Closed(s) THEN Len(inbox[s]) - 1 ELSE Len(inbox[s])), c \in Cuts :
       inbox' = [inbox EXCEPT ![s] =
                   Append(SubSeq(@, 1, k), [type |-> "close", code |-> c])]
  /\ UNCHANGED <<page, otherServer>>

\* start_game, agreed: a map is laid out (prepare_map) and everyone is told.
HandleStart ==
  /\ RoomToSend /\ room.phase = "waiting" /\ matchNo < MaxMatches
  /\ room' \in [phase : {"playing"}, map : Maps]
  /\ matchNo' = matchNo + 1
  /\ BroadcastRoom
  /\ UNCHANGED <<page, announced, heard, pc, prev, seat, purse, paid, pending, unheralded>>

\* restart, and a declined rematch.
HandleRestart ==
  /\ RoomToSend /\ room.phase = "finished"
  /\ room' = [room EXCEPT !.phase = "waiting"]
  /\ BroadcastRoom
  /\ UNCHANGED <<page, announced, heard, pc, prev, seat, purse, paid, matchNo, pending, unheralded>>

\* The last vote for a rematch: the next match begins without a lobby.  The
\* room is broadcast after the chat line (AnnounceRoom).
HandleRematch ==
  /\ room.phase = "finished" /\ matchNo < MaxMatches
  /\ room' \in [phase : {"playing"}, map : Maps]
  /\ matchNo' = matchNo + 1
  /\ unheralded' = (unheralded \/ (room'.map # room.map /\ (room'.map = announced \/ pc = "map")))
  /\ UNCHANGED <<browserVars, announced, heard, pc, prev, seat, purse, paid, pending>>

\* set_map by the host.
HandleSetMap ==
  /\ RoomToSend /\ room.phase \in {"waiting", "finished"}
  /\ \E m \in Maps : room' = [room EXCEPT !.map = m]
  /\ BroadcastRoom
  /\ UNCHANGED <<page, announced, heard, pc, prev, seat, purse, paid, matchNo, pending, unheralded>>

\* pick_card: the next round, on a map of its own, and nobody is told.
HandlePick ==
  /\ room.phase = "picking"
  /\ room' \in [phase : {"playing"}, map : Maps]
  /\ UNCHANGED <<browserVars, announced, heard, pc, prev, seat, purse, paid, matchNo, pending, unheralded>>

\* _cleanup of somebody else: a picker's departure begins the next round, and
\* with one player left the match is over.  The room follows player_left.
OtherLeaves ==
  /\ room.phase # "waiting"
  /\ \/ room' = [room EXCEPT !.phase = "waiting"]
     \/ room.phase = "picking" /\ room' \in [phase : {"playing"}, map : Maps]
     \/ room.phase = "picking" /\ room' \in [phase : {"waiting"}, map : Maps]
  /\ UNCHANGED <<browserVars, announced, heard, pc, prev, seat, purse, paid, matchNo, pending, unheralded>>

\* A handler resumes and broadcasts the room as it is by now: game_ws after
\* welcome, _cleanup after player_left, _do_rematch after its chat line.
\* Others join and leave at any time.
AnnounceRoom ==
  /\ RoomToSend
  /\ room' = room
  /\ BroadcastRoom
  /\ UNCHANGED <<page, announced, heard, pc, prev, seat, purse, paid, matchNo, pending, unheralded>>

\* tick_room: the ways a tick may leave the phase, and what it pays this seat.
\* Nobody has fallen or been hit yet in the first tick after a map was laid out.
TickPhase(to, pay) ==
  \/ to = room.phase /\ pay = 0
  \/ room.phase = "playing" /\ to = "round_over" /\ room.map = announced
  \/ room.phase = "round_over" /\ to \in {"playing", "picking"} /\ pay = 0
  \/ room.phase = "round_over" /\ to = "finished"

TickRoom ==
  \E to \in Phases, pay \in 0 .. 1, m \in Maps :
    /\ TickPhase(to, pay)
    /\ m # room.map => room.phase = "round_over" /\ to = "playing"
    /\ pay = 1 => purse < MaxCoins /\ \E s \in Sockets : Seated(s)
    /\ room' = [phase |-> to, map |-> m]
    /\ purse' = purse + pay
    /\ paid' = (paid \/ pay = 1)

\* bug: the room is broadcast whenever the phase is another
TickAnnouncesPhases ==
  /\ RoomToSend /\ pc = "rest"
  /\ TickRoom
  /\ prev' = heard /\ heard' = room'.phase /\ announced' = room'.map
  /\ IF announced # room'.map \/ heard # room'.phase
       THEN pc' = "map" /\ BroadcastRoom
       ELSE pc' = "snapshot" /\ BroadcastSnapshot
  /\ UNCHANGED <<page, seat, matchNo, pending, unheralded>>

\* bug: a new map is not announced
TickKeepsMapsSecret ==
  /\ RoomToSend /\ pc = "rest"
  /\ TickRoom
  /\ prev' = heard /\ heard' = room'.phase /\ announced' = room'.map
  /\ pc' = "snapshot" /\ BroadcastSnapshot
  /\ UNCHANGED <<page, seat, matchNo, pending, unheralded>>

\* _tick_once up to its first await: a new map is announced first.
Tick ==
  /\ RoomToSend /\ pc = "rest"
  /\ TickRoom
  /\ prev' = heard /\ heard' = room'.phase /\ announced' = room'.map
  /\ IF announced # room'.map
       THEN pc' = "map" /\ BroadcastRoom
       ELSE pc' = "snapshot" /\ BroadcastSnapshot
  /\ UNCHANGED <<page, seat, matchNo, pending, unheralded>>

\* The snapshot, of the room as it is after the await.
MapAnnounced ==
  /\ RoomToSend /\ pc = "map"
  /\ pc' = "snapshot"
  /\ UNCHANGED <<room, purse>>
  /\ BroadcastSnapshot
  /\ UNCHANGED <<page, announced, heard, prev, seat, paid, matchNo, pending, unheralded>>

\* phase_event: only a start out of the lobby is a game_started; match_over
\* hands the match to the recorder.
SnapshotSent ==
  /\ RoomToSend /\ pc = "snapshot"
  /\ pc' = "rest" /\ prev' = "waiting"
  /\ IF room.phase = "playing" /\ prev = "waiting"
       THEN BroadcastOther([type |-> "game_started"])
       ELSE UNCHANGED inbox
  /\ pending' = IF room.phase = "finished" /\ prev # "finished"
                  THEN pending \cup {matchNo} ELSE pending
  /\ UNCHANGED <<page, room, announced, heard, seat, purse, paid, matchNo, unheralded>>

\* The record is written: rank_update, whatever the room does by now.
RankUpdate ==
  /\ RoomToSend
  /\ \E m \in pending :
       /\ pending' = pending \ {m}
       /\ BroadcastOther([type |-> "rank_update", match |-> m])
  /\ UNCHANGED <<page, room, announced, heard, pc, prev, seat, purse, paid, matchNo, unheralded>>

Loop     == Tick \/ MapAnnounced \/ SnapshotSent
Handlers == \/ HandleStart \/ HandleRestart \/ HandleRematch \/ HandleSetMap
            \/ HandlePick \/ OtherLeaves \/ AnnounceRoom \/ RankUpdate
Browser(s) == Opens(s) \/ OpenFails(s) \/ Deliver(s) \/ CloseArrives(s)
Answer(s)  == Admit(s) \/ Refuse(s)
Page == AskForRoom \/ AskFailed \/ Leave \/ ConnectThrows \/ \E s \in Sockets : Connect(s)

Next == Page \/ Loop \/ Handlers
        \/ \E s \in Sockets : Browser(s) \/ Answer(s) \/ Cut(s)

Spec == Init /\ [][Next]_vars

\* The loop runs for ever, sockets open or fail, a join is answered, and the
\* browser dispatches what has arrived.  Nobody has to press anything.
Fairness ==
  /\ WF_vars(Loop)
  /\ \A s \in Sockets : WF_vars(Browser(s)) /\ WF_vars(Answer(s))

FairSpec == Spec /\ Fairness

(***************************************************************************)
(* Properties                                                              *)
(***************************************************************************)

StatusOf == {"idle", "connecting", "connected", "error"}

\* Types: what the page and the server keep.
TypeOK ==
  /\ ws \in 0 .. MaxSockets
  /\ sock \in [Sockets -> {"unused", "connecting", "open", "closing", "closed"}]
  /\ lastPhase \in Phases \cup {NoPhase}
  /\ terrain \in Maps \cup {NoMap}
  /\ store.status \in StatusOf /\ store.phase \in Phases
  /\ store.playerId \in 0 .. MaxSockets /\ store.room \in 0 .. MaxSockets
  /\ asking \in BOOLEAN
  /\ seat \in [Sockets -> {"none", "seated", "gone"}]
  /\ room \in [phase : Phases, map : Maps]
  /\ purse \in 0 .. MaxCoins

\* What the page shows is the session of the socket in use: no other socket is
\* open (it would hold a seat for nobody), connected means that this very one
\* has welcomed us, and once a session has ended nothing of it is left
\* (connection.ts: the guards on the identifier of the socket, the resets in
\* connect, disconnect and handleClose).
OwnSession ==
  /\ \A s \in Sockets : sock[s] \in {"connecting", "open"} => s = ws
  /\ store.status = "connected" =>
       /\ ws # 0 /\ sock[ws] = "open"
       /\ store.playerId = ws /\ store.room = ws
  /\ store.status = "connecting" =>
       ws # 0 /\ store.playerId = 0 /\ store.room = 0
  /\ store.status \in {"idle", "error"} =>
       /\ ws = 0 /\ latest = NoSnapshot /\ lastPhase = NoPhase /\ terrain = NoMap
       /\ [store EXCEPT !.status = "idle", !.error = NoError] = SessionDefaults

\* The filter that keeps snapshots out of the store never hides a phase: in a
\* room it knows the phase that is shown, whichever message brought it
\* (connection.ts lastPhase against gameStore phase).
FilterIsTransparent == store.room # 0 => lastPhase = store.phase

\* The renderer never sees one map's movers on another map's platforms
\* (withTerrain relies on main._tick_once to announce every new map first).
\* Two new maps it does not announce before the next snapshot: one that was the
\* map of its last tick, changed and changed back since, and one that a rematch
\* lays out while the announcement of another is being sent.  There the room
\* that _do_rematch broadcasts may be overtaken.
TerrainIsTheMaps == latest.terrain = latest.map \/ unheralded

\* Coins that the seat has earned are in the profile as soon as everything sent
\* has been handled, although the filter lets through only the snapshots with
\* a new phase (syncMyCoins; the loop pays in the ticks that change the phase).
CoinsArrive ==
  \A s \in Sockets :
    Seated(s) /\ inbox[s] = <<>> /\ paid => coins = purse

\* A refusal that reached the browser, by the error message or by the code of
\* the close, is what the lobby shows in the end: the reason outlives the reset
\* of the session, and the code that has no message of its own (4401) never
\* comes without one the server gave before (handleClose, ws._fail).
RefusalsAreExplained == store.status = "error" /\ told # NoError => store.error = told

\* Pressing the button always leads somewhere: the lobby is not left saying
\* "connecting" for ever (App.tsx, LobbyScreen).
ConnectingEnds == store.status = "connecting" ~> store.status # "connecting"

\* A room that settles in a phase is shown in that phase, to everyone seated,
\* whatever messages came before (App.tsx chooses the screen by it).
PhaseIsFollowed ==
  \A p \in Phases :
    <>[](room.phase = p /\ \E s \in Sockets : Seated(s)) => <>[](store.phase = p)

\* gameStore.ts: once a new match has begun the change of rank of the last one
\* must be off the screen.  The banner of the final screen is this match's.
BannerIsOfThisMatch ==
  store.phase = "finished" /\ room.phase = "finished" /\ matchNo = MaxMatches
    => store.rankChange \in {0, matchNo}
=============================================================================
