--------------------------------- MODULE Play ---------------------------------
(***************************************************************************)
(* The game screen of one player: the input of game/useInput.ts and the    *)
(* overlays of GameScreen, CardPicker and GameOverOverlay, with the part   *)
(* of the server they talk to: the input messages of api/ws.py and the     *)
(* phases of game/engine.py.                                               *)
(*                                                                         *)
(* The screen does not follow the phase, it samples it: each overlay looks *)
(* at the last snapshot on a timer of its own, and input is accepted by    *)
(* the phase the banner has sampled.  Key and mouse events come when they  *)
(* come.  The server knows what the hands do only by the changes it is     *)
(* told, and keeps it from one round to the next.                          *)
(*                                                                         *)
(* "guard" is Shift or S, "strong" E or X.  Left, right and jump are kept  *)
(* and sent as the guard's key is, and left out.  Aiming and the shot of a *)
(* click change nothing that is kept.  A training room is not modelled.    *)
(***************************************************************************)
EXTENDS Integers, Sequences

CONSTANTS
  MaxWire,     \* bound: messages under way to the server
  MaxRounds    \* bound: rounds over a behaviour

ASSUME PlayBounds == MaxWire \in Nat /\ MaxRounds \in Nat

VARIABLES
  \* the server
  room,        \* phase, whether I am the picker, and the number of the round
  inputs,      \* Player.inputs, of which only block
  charging,    \* Player.charging
  agreed,      \* my vote for a rematch
  wire,        \* messages under way to the server
  \* the hands
  held,        \* keys that are down
  buttons,     \* mouse buttons that are down
  typing,      \* the focus is in the chat's input
  \* useInput
  keyBlock, mouseBlock,
  sent,        \* what the server was told last
  strong,      \* strongActive
  holdTimer,   \* the left button is waited for to become a strong attack
  \* the screen
  latest,      \* net.latest: the room of the last snapshot
  banner,      \* the phase GameScreen has sampled
  pick,        \* CardPicker: the window it has sampled, and picked
  over,        \* GameOverOverlay: the end it has sampled, and voted
  \* histories
  missed,      \* keys let go while input was disabled
  seen         \* overlays that have sampled the room since the round ended

serverVars == <<room, inputs, charging, agreed>>
handVars   == <<held, buttons, typing>>
inputVars  == <<keyBlock, mouseBlock, sent, strong, holdTimer>>
screenVars == <<latest, banner, pick, over, seen>>
vars == <<serverVars, wire, handVars, inputVars, screenVars, missed>>

Keys     == {"guard", "strong"}
Buttons  == {"left", "right"}
Phases   == {"waiting", "playing", "round_over", "picking", "finished"}
Overlays == {"banner", "pick", "over"}

\* The windows are numbered by the round that they follow; 0 is none.
NoWindow == [shown |-> 0, mine |-> FALSE, picked |-> 0]
NoEnd    == [shown |-> 0, voted |-> 0]

Init ==
  /\ room = [phase |-> "playing", mine |-> FALSE, round |-> 1]
  /\ inputs = FALSE /\ charging = FALSE /\ agreed = FALSE /\ wire = <<>>
  /\ held = {} /\ buttons = {} /\ typing = FALSE
  /\ keyBlock = FALSE /\ mouseBlock = FALSE
  /\ sent = FALSE /\ strong = FALSE /\ holdTimer = FALSE
  /\ latest = room /\ banner = "playing"
  /\ pick = NoWindow /\ over = NoEnd
  /\ missed = {} /\ seen = {}

(***************************************************************************)
(* useInput                                                                *)
(***************************************************************************)

Mounted == latest.phase # "waiting"
Enabled == Mounted /\ banner = "playing"
Ready   == Len(wire) < MaxWire - 1   \* an event sends two messages at most

\* flushInput: told only when it is another state.
Told(now)  == IF now = sent THEN <<>> ELSE <<[type |-> "input", now |-> now]>>
Now        == mouseBlock \/ keyBlock
FlushInput == sent' = Now' /\ wire' = wire \o Told(Now')

\* startStrong and releaseStrong.
StartStrong ==
  /\ strong' = TRUE
  /\ wire' = IF strong THEN wire ELSE Append(wire, [type |-> "strong_start"])
ReleaseStrong ==
  /\ strong' = FALSE
  /\ wire' = IF strong THEN Append(wire, [type |-> "strong_release"]) ELSE wire

\* bug: the button that guards is not let go
ClearAllButMouse ==
  /\ keyBlock' = FALSE /\ mouseBlock' = mouseBlock
  /\ holdTimer' = FALSE /\ strong' = FALSE
  /\ sent' = Now'
  /\ wire' = wire \o (IF strong THEN <<[type |-> "strong_release"]>> ELSE <<>>) \o Told(Now')
  /\ missed' = {}

\* clearAll: on blur and when the screen goes.
ClearAll ==
  /\ keyBlock' = FALSE /\ mouseBlock' = FALSE
  /\ holdTimer' = FALSE /\ strong' = FALSE
  /\ sent' = FALSE
  /\ wire' = wire \o (IF strong THEN <<[type |-> "strong_release"]>> ELSE <<>>) \o Told(FALSE)
  /\ missed' = {}

\* onKeyDown: nothing is read while input is disabled or the chat has it.
KeyDown(k) ==
  /\ k \notin held /\ Ready
  /\ held' = held \cup {k}
  /\ IF ~Enabled \/ typing
       THEN UNCHANGED <<inputVars, wire, missed>>
       ELSE /\ missed' = missed \ {k}
            /\ UNCHANGED <<mouseBlock, holdTimer>>
            /\ IF k = "strong"
                 THEN StartStrong /\ UNCHANGED <<keyBlock, sent>>
                 ELSE /\ keyBlock' = TRUE /\ FlushInput /\ UNCHANGED strong
  /\ UNCHANGED <<serverVars, buttons, typing, screenVars>>

\* onKeyUp: in the chat too, but not while input is disabled.
KeyUp(k) ==
  /\ k \in held /\ Ready
  /\ held' = held \ {k}
  /\ IF ~Enabled
       THEN missed' = missed \cup {k} /\ UNCHANGED <<inputVars, wire>>
       ELSE /\ missed' = missed \ {k}
            /\ UNCHANGED <<mouseBlock, holdTimer>>
            /\ IF k = "strong"
                 THEN ReleaseStrong /\ UNCHANGED <<keyBlock, sent>>
                 ELSE /\ keyBlock' = FALSE /\ FlushInput /\ UNCHANGED strong
  /\ UNCHANGED <<serverVars, buttons, typing, screenVars>>

\* onMouseDown: the left button shoots and is waited for, the right one guards.
\* A press on a button or in the chat is not for the game.
MouseDown(b) ==
  /\ b \notin buttons /\ Ready
  /\ buttons' = buttons \cup {b}
  /\ \/ UNCHANGED <<inputVars, wire>>
     \/ /\ Enabled /\ ~typing
        /\ UNCHANGED <<keyBlock, strong>>
        /\ IF b = "left"
             THEN holdTimer' = TRUE /\ UNCHANGED <<mouseBlock, sent, wire>>
             ELSE mouseBlock' = TRUE /\ FlushInput /\ UNCHANGED holdTimer
  /\ UNCHANGED <<serverVars, held, typing, screenVars, missed>>

\* onMouseUp, wherever and whenever.
MouseUp(b) ==
  /\ b \in buttons /\ Ready
  /\ buttons' = buttons \ {b}
  /\ UNCHANGED keyBlock
  /\ IF Mounted
       THEN IF b = "left"
              THEN holdTimer' = FALSE /\ ReleaseStrong /\ UNCHANGED <<mouseBlock, sent>>
              ELSE mouseBlock' = FALSE /\ FlushInput /\ UNCHANGED <<holdTimer, strong>>
       ELSE UNCHANGED <<mouseBlock, sent, strong, holdTimer, wire>>
  /\ UNCHANGED <<serverVars, held, typing, screenVars, missed>>

\* The timer of STRONG_HOLD_MS, whatever the phase is by now.
HoldTimer ==
  /\ holdTimer /\ Ready
  /\ holdTimer' = FALSE /\ StartStrong
  /\ UNCHANGED <<serverVars, handVars, keyBlock, mouseBlock, sent, screenVars, missed>>

\* onBlur: the window loses the keyboard and the mouse, and what they do until
\* it has them again.
Blur ==
  /\ Mounted /\ Ready
  /\ held' = {} /\ buttons' = {}
  /\ ClearAll
  /\ UNCHANGED <<serverVars, typing, screenVars>>

\* ChatBox: Enter takes the focus to the chat; Enter and Esc give it back.
Focus ==
  /\ Mounted
  /\ typing' = ~typing
  /\ UNCHANGED <<serverVars, wire, held, buttons, inputVars, screenVars, missed>>

(***************************************************************************)
(* The screen: snapshots and samples                                       *)
(***************************************************************************)

\* A snapshot arrives.  In the lobby of the room the screen is not there: its
\* overlays forget, its input lets go.
Snapshot ==
  /\ latest # room /\ Ready
  /\ latest' = room
  /\ IF room.phase = "waiting"
       THEN /\ ClearAll
            /\ banner' = "waiting" /\ pick' = NoWindow /\ over' = NoEnd /\ typing' = FALSE
            /\ UNCHANGED seen
       ELSE /\ UNCHANGED <<wire, inputVars, missed, typing, seen, pick, over>>
            /\ banner' = IF latest.phase = "waiting" THEN room.phase ELSE banner
  /\ UNCHANGED <<serverVars, held, buttons>>

\* The current end of a round has been sampled.
Saw(o) == seen' = IF latest = room /\ room.phase = "round_over" THEN seen \cup {o} ELSE seen

\* GameScreen, every 200 ms.
SampleBanner ==
  /\ Mounted
  /\ banner' = latest.phase
  /\ Saw("banner")
  /\ UNCHANGED <<serverVars, wire, handVars, inputVars, latest, pick, over, missed>>

\* bug: the card that was picked stays picked
SamplePickKeeping ==
  /\ Mounted
  /\ pick' = IF latest.phase = "picking"
               THEN [pick EXCEPT !.shown = latest.round, !.mine = latest.mine]
               ELSE [NoWindow EXCEPT !.picked = pick.picked]
  /\ Saw("pick")
  /\ UNCHANGED <<serverVars, wire, handVars, inputVars, latest, banner, over, missed>>

\* CardPicker, every 150 ms.  A window that is closed forgets the pick.
SamplePick ==
  /\ Mounted
  /\ pick' = IF latest.phase = "picking"
               THEN [pick EXCEPT !.shown = latest.round, !.mine = latest.mine]
               ELSE NoWindow
  /\ Saw("pick")
  /\ UNCHANGED <<serverVars, wire, handVars, inputVars, latest, banner, over, missed>>

\* bug: only leaving the screen forgets the vote
SampleOverKeeping ==
  /\ Mounted
  /\ over' = IF latest.phase = "finished"
               THEN [over EXCEPT !.shown = latest.round] ELSE [over EXCEPT !.shown = 0]
  /\ Saw("over")
  /\ UNCHANGED <<serverVars, wire, handVars, inputVars, latest, banner, pick, missed>>

\* GameOverOverlay, every 200 ms.
SampleOver ==
  /\ Mounted
  /\ over' = IF latest.phase = "finished"
               THEN [over EXCEPT !.shown = latest.round] ELSE NoEnd
  /\ Saw("over")
  /\ UNCHANGED <<serverVars, wire, handVars, inputVars, latest, banner, pick, missed>>

\* The cards are face up for the picker, until one is picked; and the question
\* for a rematch stands as long as the end is shown.
CardsAreOpen == pick.shown # 0 /\ pick.mine /\ pick.picked = 0
VoteIsOpen   == over.shown # 0

\* pick: by a click or a number key, once for a window.  The number of the
\* round is kept to tell a pick of this window from an older one.
PickCard ==
  /\ CardsAreOpen /\ Ready
  /\ pick' = [pick EXCEPT !.picked = pick.shown]
  /\ wire' = Append(wire, [type |-> "pick_card"])
  /\ UNCHANGED <<serverVars, handVars, inputVars, latest, banner, over, seen, missed>>

\* vote: Y or N, as often as they are pressed.
Vote(accept) ==
  /\ VoteIsOpen /\ Ready
  /\ over' = [over EXCEPT !.voted = over.shown]
  /\ wire' = Append(wire, [type |-> "rematch", accept |-> accept])
  /\ UNCHANGED <<serverVars, handVars, inputVars, latest, banner, pick, seen, missed>>

(***************************************************************************)
(* The server                                                              *)
(***************************************************************************)

browserVars == <<handVars, inputVars, latest, banner, pick, over, missed>>

\* reset_round: the charge is gone, the inputs are not.
NextRound ==
  /\ room.round < MaxRounds
  /\ room' = [phase |-> "playing", mine |-> FALSE, round |-> room.round + 1]
  /\ charging' = FALSE

\* A round is decided.
RoundEnds ==
  /\ room.phase = "playing"
  /\ room' = [room EXCEPT !.phase = "round_over"]
  /\ seen' = {}
  /\ UNCHANGED <<inputs, charging, agreed, wire, browserVars>>

\* Two seconds later (ROUND_OVER_TICKS); ten samples of the slowest overlay.
RoundOverTimer ==
  /\ room.phase = "round_over" /\ seen = Overlays
  /\ \/ NextRound
     \/ \E mine \in BOOLEAN :
          room' = [room EXCEPT !.phase = "picking", !.mine = mine] /\ UNCHANGED charging
     \/ room' = [room EXCEPT !.phase = "finished"] /\ UNCHANGED charging
  /\ agreed' = FALSE
  /\ UNCHANGED <<inputs, wire, seen, browserVars>>

\* The others: a card, a vote, a start out of the lobby, a departure.
OthersAct ==
  /\ \/ room.phase = "picking" /\ ~room.mine /\ NextRound
     \/ room.phase = "finished" /\ agreed /\ NextRound
     \/ room.phase = "waiting" /\ NextRound
     \/ /\ room.phase # "waiting"
        /\ room' = [room EXCEPT !.phase = "waiting", !.mine = FALSE] /\ charging' = FALSE
  /\ agreed' = FALSE
  /\ UNCHANGED <<inputs, wire, seen, browserVars>>

\* _handle: what the browser has sent.
Receive ==
  /\ wire # <<>> /\ wire' = Tail(wire)
  /\ LET m == Head(wire) IN
       CASE m.type = "input" ->
              inputs' = m.now /\ UNCHANGED <<room, charging, agreed>>
         [] m.type = "strong_start" ->     \* unless dead, cooling down or silenced
              charging' \in {charging, TRUE} /\ UNCHANGED <<room, inputs, agreed>>
         [] m.type = "strong_release" ->
              charging' = FALSE /\ UNCHANGED <<room, inputs, agreed>>
         [] m.type = "pick_card" ->
              /\ IF room.phase = "picking" /\ room.mine /\ room.round < MaxRounds
                   THEN NextRound ELSE UNCHANGED <<room, charging>>
              /\ UNCHANGED <<inputs, agreed>>
         [] m.type = "rematch" ->
              /\ UNCHANGED inputs
              /\ CASE room.phase # "finished" -> UNCHANGED <<room, charging, agreed>>
                   [] room.phase = "finished" /\ ~m.accept ->
                        /\ room' = [room EXCEPT !.phase = "waiting"]
                        /\ charging' = FALSE /\ agreed' = FALSE
                   [] OTHER -> \/ agreed' = TRUE /\ UNCHANGED <<room, charging>>
                               \/ NextRound /\ agreed' = FALSE
  /\ UNCHANGED <<seen, browserVars>>

Hands  == \/ \E k \in Keys : KeyDown(k) \/ KeyUp(k)
          \/ \E b \in Buttons : MouseDown(b) \/ MouseUp(b)
          \/ Blur \/ Focus \/ HoldTimer
Screen == \/ Snapshot \/ SampleBanner \/ SamplePick \/ SampleOver
          \/ PickCard \/ \E accept \in BOOLEAN : Vote(accept)
Server == RoundEnds \/ RoundOverTimer \/ OthersAct \/ Receive

Next == Hands \/ Screen \/ Server

Spec == Init /\ [][Next]_vars

(***************************************************************************)
(* Properties                                                              *)
(***************************************************************************)

\* Types.
TypeOK ==
  /\ room \in [phase : Phases, mine : BOOLEAN, round : 1 .. MaxRounds]
  /\ inputs \in BOOLEAN /\ charging \in BOOLEAN
  /\ held \subseteq Keys /\ buttons \subseteq Buttons
  /\ missed \subseteq Keys /\ seen \subseteq Overlays
  /\ pick.shown \in 0 .. MaxRounds /\ over.shown \in 0 .. MaxRounds
  /\ Len(wire) <= MaxWire

Guarding == "guard" \in held \/ "right" \in buttons
Charging == "strong" \in held \/ "left" \in buttons

\* Nothing acts by itself: when everything sent has been handled, the server
\* guards and charges for nobody whose hands do not, except for keys that
\* were let go while input was disabled (useInput: changes only are sent, from
\* five kinds of events, through two ways to guard and two to charge).
NothingActsByItself ==
  wire = <<>> =>
    /\ inputs   => Guarding \/ "guard" \in missed
    /\ charging     => Charging \/ "strong" \in missed
    /\ strong       => Charging \/ "strong" \in missed

\* Whoever is to pick a card can: an open window is never locked by the pick of
\* an earlier one (CardPicker clears picked when it samples a closed window).
PickerIsNotLocked ==
  pick.shown # 0 /\ pick.mine /\ room.phase = "picking" /\ pick.shown = room.round
    => pick.picked \in {0, room.round}

\* The overlay never waits for others on the strength of a vote for an earlier
\* match (GameOverOverlay clears voted when it samples another phase).
VoteIsThisMatchs ==
  room.phase = "finished" /\ over.shown = room.round => over.voted \in {0, room.round}

\* PROTOCOL.md, sim.py and the tutorial: the guard's meter falls only while the
\* key is held, and stops where it is when the hand lets go.
GuardStopsWithTheHand ==
  room.phase = "playing" /\ latest = room /\ Enabled /\ wire = <<>> /\ inputs
    => Guarding
=============================================================================
