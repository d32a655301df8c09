# Verification of bullet-brak

bullet-brak is a 2D shooter for two or more players: a FastAPI server that
simulates every room at 60 Hz, a React client that shows the snapshots, and a
small Node process that serves the built client and forwards to the server. This
directory holds TLA+ models of the three, TLC runs over small instances and
TLAPS proofs about the models. Server paths below are relative to
`src/apps/api/app/`, client paths to `src/apps/web/src/`, others are given in
full.

## The system

| part | state | operations | talks to | module |
|---|---|---|---|---|
| room rules, `game/engine.py` | a `Room`: phase, players in order of entry, scores, round wins, who must pick a card, rematch votes, timers; the module's `_ROUND_WINNER` | `tick_room`, `start_game`, `pick_card`, `vote_rematch`, `reset_round`, `reset_match`, `phase_event` | called by the tick loop and the message handlers | `PvpRoom`, `Match` |
| websocket endpoint, `api/ws.py`, `api/ws_join.py` | one coroutine per connection | join, some twenty messages, `_cleanup` when the connection ends | reads and writes the `Room`, sends through the hub, asks the database who it is | `GameServer`, `Session`, `Play` |
| tick loop, `main.py` | `_last_phase`, `_last_map` | `_tick_once` per room, `_sweep` every 600 ticks | engine, hub, results | `GameServer`, `Session` |
| results, `services/results.py` | background tasks | `capture_finish`, `capture_forfeit`, `schedule` | match records, hub | `GameServer`, `Ledger` |
| room store and hub, `game/rooms.py`, `services/hub.py` | rooms by code, sockets by code and player | create, remove, sweep; add, remove, broadcast | REST, websocket, loop | `GameServer` (one room) |
| training and combat, `game/training.py`, `sim.py`, `bullets.py`, `cards.py`, `bots.py` | wave, state and timer; life, guard meter, bullets, cards, bots | waves, respawn, card window; shots, hits, reflections, deaths | engine | `Fight`, `Waves` |
| rank arithmetic, `services/ranked.py` | none | `apply_match`, `rr_delta`, `next_mmr`, `soft_reset` | match records | `Ranked`, `RankLadder` |
| match records, `services/matches.py`, `seasons.py` | rows of matches, participants, profiles, seasons | `record`, `ensure_profile`, `active_season` | database | `Ledger` |
| accounts and shop, `services/accounts.py`, `game/shop.py` | accounts, tokens, recovery codes, items | create, login, redeem, buy, reward | database | `Ledger`, `Identity` |
| connection and session store, `net/connection.ts`, `store/gameStore.ts`, `App.tsx` | the socket in use, `lastPhase`, the remembered terrain, the session | connect, disconnect, apply a message, handle a close | websocket, screens | `Session` |
| identity, profile, shop, `api/identity.ts`, `hooks/useLocalProfile.ts`, `components/AccountModal.tsx`, `AvatarEditor.tsx` | device token, localStorage, the profile half of the store | boot, push, buy, sign in, recovery codes | REST | `Identity` |
| game screen, `game/useInput.ts`, `components/CardPicker.tsx`, `GameOverOverlay.tsx` | keys and buttons, what was sent last, what each overlay has sampled | input events, samples, picks, votes | websocket | `Play` |
| map editor and layouts, `components/MapEditor.tsx`, `game/layoutStore.ts`; `game/blocks.py`, `layout.py` of the server | blocks, tool, selection, drag; saved layouts | draw, move, resize, merge, load, save | websocket, localStorage | `MapEditor`, `Blocks`, `LayoutStore` |
| static server, `src/scripts/serve-static.mjs` | target of the proxy, the embedded game server, tunnels | route, forward, poll, switch over | browser, game servers | `ServeStatic` |
| rate limiter, `services/ratelimit.py` | time stamps per key | `hit`, `retry_after`, sweep | login and recovery endpoints | none |
| REST endpoints, schemas, serialisation; drawing | none of their own | validate, format; draw | everything above | none |

Everything on the server runs on one event loop. A handler or a tick is atomic
between two `await`s, so the hard behaviours are what happens *at* the awaits: a
join that waits for the database while the room fills up or disappears, a tick
that waits for a broadcast while the phase moves on, a departure while a result
is about to be recorded, database transactions that overlap. Nothing of a room
survives a restart of the process, so there is no crash recovery of rooms to
model.

The client is just as sequential between two events, and its hard behaviours are
what an event finds: the close of a socket that is no longer in use, the answer
to a request of an account that is no longer signed in, an overlay whose last
sample is a phase old, a key that was let go where nobody listened, an index
into a list that has changed. The static server has a child process that may
fail to start, be slow or die at any moment.

What makes each part correct, in a sentence:

- *rules*: the match ends exactly at the target, a round never waits for
  somebody who is gone, nothing leaks from one match into the next;
- *endpoint*: seats are held by connections, a ranked room never pits an account
  against itself;
- *loop and results*: no match is recorded twice, an undecided ranked one is
  recorded as a forfeit, a won one with its winner;
- *records, accounts*: no reward, purchase or rank change is lost;
- *rank arithmetic*: demotion is shielded as promised, and a result shows;
- *training*: a wave is passed only by clearing it, and a player who dies in it
  has it again;
- *combat*: every flight ends, and the loop leaves nobody lying but where people
  decide;
- *connection*: the page shows the session of the socket in use, whole;
- *identity*: what is on the screen is one account's, and nothing of it is lost;
- *game screen*: nothing acts without a hand, nobody is locked out of a card;
- *editor*: what is drawn is what the server gets;
- *static server*: API answers are never pages, the end of one side of a
  tunnel reaches the other.

## Modules

**`PvpRoom`** is the rules of one PvP room. The variable `room` is the `Room`
object as a record, and every Python function that changes it is an operator
from record to record with the function's name (`ResetRound` is `reset_round`,
`Cleanup` is `_cleanup`, and so on); the actions apply them. A player id is the
number of the insertion into `room.players` (the code draws a fresh uuid and
reads nothing from it but the dictionary's order). `_ROUND_WINNER[code]` is the
field `roundWinner`. A dictionary read with `.get(id, 0)` is a total function,
absent entries being 0. The physics of a tick enters as the set of players alive
when `_judge` looks; any set is allowed in any tick, and players may enter
during a match, as they can in the code.

**`Match`** is what a room promises without rounds, timers, cards and coins: a
lobby, a contest for points one at a time, a result at the target, and the next
contest only by the consent of everybody seated. `PvpRoom` implements it under
the mapping in its last section (`ImplementsMatch`).

**`GameServer`** is one room as the server runs it; it extends `PvpRoom` and
uses its actions. `game_ws` is split where it awaits `load_identity` (`Connect`,
then `Insert` or `Refuse`), `_tick_once` where it awaits the two broadcasts
(`TickStep`, `SnapshotSent`, `EventSent`; the extra broadcast after a map change
falls in the same gap as the snapshot's). `_cleanup` changes everything before
its first await and is one action, `Disconnect`. `ledger` is the sequence of
outcomes handed to `results.schedule`. `Guest` stands for any connection
`load_identity` answers `None` for: no token, unknown token, database down.
`matchNo`, `tickMatch`, `champions` and `slipped` are history: no guard of a
modelled operation reads them but the bound on kickoffs. `slipped` has the
matches whose result a handler took from a tick that was awaiting (`Slip`): by
leaving "finished" before the tick looks for its event, or by emptying the room
before `capture_finish` asks for the players.

**`Ranked`** is the arithmetic of `services/ranked.py`, function by function,
and **`RankLadder`** one player's way through it: matches against rivals of any
MMR with any score a match can end or be forfeited at (`Play` is what `record`
does to one profile), and season changes (`ensure_profile` in a new season).
Constants of the code that the arguments do not depend on are CONSTANTS (the
code has 25 tiers, 5 placements, MMR 100 to 3000 around 1000, tiers from 720);
Elo's win probability is any percentage on the right side of one half.

**`Ledger`** is the database under overlapping transactions. One kind buys an
item (`POST /api/me/items`: `current_account` reads the balance with the token,
`buy_item` compares it and writes it back), the other records a result
(`_persist`, `record`: season, both profiles, then slot by slot the profile, the
participant's row and the account's counters). A transaction is split at each
statement that can wait or that another can come before. The database is
modelled from how the code relies on it: Postgres under READ COMMITTED, where a
write takes the row until the transaction ends, an insert waits for another
insert of its key and fails if that one commits, and a circle of waiting
transactions costs one of them its life. Each row therefore has a committed
version (`account`, `games`), the one its holder has written (`accountNew`,
`gamesNew`) and a holder (`accountLock`, `profileLock`). SQLAlchemy's part is
what is flushed when: the first query of `buy_item` flushes `last_seen_at` and
so takes the account's row *before* it looks at the items, and changed columns
are written as absolute values unless the statement says otherwise, as
`record_match_result` does. Of a rank profile the number of games stands for the
row; what the rank becomes is `RankLadder`'s matter. **`MCLedger`** has the
accounts, prices and results of its run.

**`Fight`** is `tick_room` with the fighting in it, for a duel of two players
and for a training room. A tick is a sequence of steps in the order of the code,
`pc` says where it is: the players (`UpdatePlayers`: meter, lethal falls), the
bots, each bullet in turn with everything it strikes (`NextBullet`, `Fly`, then
`Reflect`, `HitPlayer`, `HitBot` or `Miss`), and the judgement (`Judge`:
`_judge` or `training.tick`). Messages (`Shoot`, `OpenCards`, `PickCard`,
`LoserPicks`, and `NextMatch` for the votes that begin another match) are
handled between ticks. Geometry is a free choice: what a bullet meets, who
falls, what a bot sees. Every hit costs one hit point, and bots and players have
equally many. When the time of a decided round is up (`EndRound`), the next
round, the loser's card or the end of the match follows (`ResetRound`,
`AskLoser`, `FinishMatch`); which one depends on points, which are `PvpRoom`'s
and here a free choice. **`Waves`** is what a training session promises, and it
sees whether the player stands: a wave is passed only by clearing it and
choosing a card, whoever lies in it at the end of a tick gets the same wave
again, and he rises only by that or by the card after a break. A death in the
break does *not* bring the wave back: `Waves` lets the next one begin with him
lying, as the code does, and he has that one again. `Fight` implements `Waves`,
with a duel as a session without waves (`ImplementsWaves`). **`MCFight`** has
the waves of its run.

**`Session`** is one browser tab in a PvP room: the socket singleton, the phase
filter, the terrain that light snapshots are laid over, the session half of the
store and the choice of the screen, against what `ws.py` and `_tick_once` write
to a socket. A second socket may be opened while the close event of the first is
on its way. A map stands for its terrain. A join is one of those the code can
answer, with the reasons of its refusals; `told` is the history of the reason
the browser has heard, in a message or by the code of a close. `new WebSocket`
may throw (`ConnectThrows`): then there is no socket at all.

**`Identity`** is one browser and the account service. A call goes out, is
served or not, and is answered or not, in steps of their own (`calls`); answers
are applied where they arrive, whoever is signed in by then.
`ProfileIsOneAccounts` and `AccountsAreNotLost` speak of behaviours without
overlapping calls (`overlapped` is the history of it), because nothing ties an
answer to the token of its call. `ProfileIsOneAccounts` compares coins and items
with the account only while its token is there: once it is thrown away the
browser keeps the books itself, by the editor's list of items, which misses a
purchase answered after the lobby was left and sells that item again.

**`Play`** is the game screen: keys, buttons, blur, the chat's focus, the
samples of the overlays, cards and votes, against the server's handlers and
phases. The wire to the server keeps its order. `missed` is the history of keys
let go while input was disabled.

**`Blocks`** is the rectangles, `fitToWorld`, resizing and merging of the editor
and `game/blocks.py`'s view of them; **`MapEditor`** the editor on top, with the
room it saves to, and **`LayoutStore`** the layouts in localStorage under
several tabs. Blocks have names the program does not see, so that a selection,
an index in the code, can be compared with the block that was meant.
The two stable sorts are stated by what they do: `InOrder` by the place each
block gets, `NewestFirst` by the rank of each slot (no two are saved at one
time). A proof can use these; `SortSeq` and `SelectSeq` are opaque to it.
**`MCMapEditor`** has the world, the places of the pointer and the numbers of
its run.

**`ServeStatic`** is the Node process: routing, the relayed answer, the tunnel
with two ends, each closed by its peer and passed on to the other (`pipe`), the
child with its health checks. The file system, the child and
the game servers are external: any answer they may give is tried.

**`GameServerProofs`** (with the rules of the room), **`ServicesProofs`** (the
ladder and the ledger), **`FightProofs`**, **`SessionProofs`**,
**`IdentityProofs`**, **`PlayProofs`**, **`EditorProofs`** (the editor, its
merge, the saved layouts) and **`ServeStaticProofs`** hold the proofs.

Operators whose comment begins with "bug:" are the deliberate mistakes that each
property was tried against: put in place of the definition below them, they make
TLC find the property violated. No specification uses them.

## Runs

| run | specification and bounds | what it shows |
|---|---|---|
| `room` | open room, 4 joins, target 2, delay 2, 6 rounds | who is waited for, when a match ends, what it pays, and the refinement to `Match` |
| `server` | ranked room for 2, two accounts and guests, 2 joins in flight, 3 joins, target 2, delay 1, 4 rounds, 2 matches, fair loop | no ghosts, one record per match at most, a forfeit for every undecided ranked match and a record for every won one but those that slip through the two awaits, nobody meets himself, a decided round ends |
| `ladder` | 4 tiers, 2 placements, MMR 740 to 880, target 2, RR up to 120 in Radiant | what a match may do to the visible rank: demotion, direction |
| `ledger` | 2 accounts, 3 items (one free), 3 transactions, no season yet, fair statements | balances stay legal, every recorded match is counted, no item is sold twice, every request ends |
| `fight` | waves of a dummy, then a rookie and a dummy; cards target_bounce, echo and phoenix, one of them each; 1 hit point, a life of 3, a meter of 1, timers of 1, 2 bullets in the air, 2 waves, fair tick | the refinement to `Waves`, the end of every flight, nobody left lying but where people decide (a card, the result) |
| `session` | 2 maps, 2 sockets, 1 message under way, 1 match, 1 coin; the room new or in the middle of others' match | the page shows one session, whole: phase, terrain, coins, the reason of a refusal; no lasting "connecting" |
| `identity` | 2 accounts, 2 items, 2 calls, 2 edits, 1 reload, seeds without coins | one account's profile, no account or edit lost, local books that balance |
| `play` | 3 messages under way, 2 rounds | no stuck input, no locked card window, no stale vote |
| `editor` | world of 4 by 2, blocks of at least 1, at most 2 blocks, 5 edits | the selection, the merge, the layout as drawn |
| `layouts` | 2 tabs, 3 names, 2 slots, 4 saves | a layout goes only when it should |
| `serve` | 2 callers, 3 health checks, 3 requests | readable refusals, `/healthz` agrees with the proxy, the attempt ends, the end of one side of a tunnel is passed on in either direction |
| `lost_record` | as `server` | a disagreement, see below |

The bounds. Two wins make a point, so a target of 2 needs at most three round
wins each to finish with a card choice in between; 6 rounds (4 in `server`)
leave room for draws. Four joins give three players at once and a newcomer after
a departure, which is where "two or more" and "everybody" differ; an open room
has them in `room`. Two matches suffice for anything that leaks from one to the
next. Two concurrent joins of an account are the smallest case in which its tabs
race, and what `server` has; a ranked room that joins overfill is covered by the
theorems, which bound neither accounts nor joins. `MaxRounds`, `MaxJoins`,
`MaxLoading` and `MaxMatches` only bound the exploration. At the round bound
ticks go on but no further round is decided.

`ladder` has four tiers so that there is a first, a last, and two between them
to be demoted across; the MMR range spans them, so that the correction for the
gap takes both signs; target 2 gives every kind of score (sweep, close, forfeit
at 0 or 1). `MaxRr` bounds Radiant, which has no upper end.

`ledger` has three transactions: two that conflict and a third that has
committed before or comes between, which is what it takes to sell, reward and
buy in every order. The results are a ranked match seated either way round
(opposite slots make the deadlock) and an open one against a guest; with a seed
of 1 and prices of 0 and 1 a balance is just enough, just spent, or refilled by
a reward. No season exists at first, so that two results race to insert it.

`fight` has a wave with a bot that cannot shoot, one with a bot that can beside
one that cannot, and the last wave again for every later one (`MaxWave` stops
the choice of a card there). A meter of 1 affords one reflection and a life of 3
two ticks after it, enough for a bullet to change its owner twice and for its
owner to be dead, or gone, when it hits.

`session` keeps one message in the inbox: a socket delivers in order, so what
the page becomes depends on the sequence only, and the room moves on freely
between two deliveries. Two maps and one match reach both kinds of new map, the
loop's and the rematch's. `identity` has two calls out because two is what an
overlap takes, and one reload for the calls that lose the page that made them; a
behaviour in which calls have overlapped with a database present is not followed
further (`NotOverlapped`), since its properties no longer speak of it. `play`
has room on the wire for a press, a release and a press of the same key, and two
rounds for what is left over from the first. `editor`'s world is two cells by
one, the smallest where blocks touch, overlap and stick out; five edits are two
blocks, a merge or an erasure, a selection and a save. `layouts` has one name
more than slots, and a save more than names. `serve`'s third health check
follows one that was refused and one that was not answered.

`room` and `ladder` check deadlock. The others do not: a room that was removed
and has no connections left has really stopped, so has a database without
requests, a browser whose bounded edits, sockets or rounds are used up, a fight
behind a card window that nobody uses at the bound, and a static server that
nobody asks.

Fairness. `server` assumes weak fairness of `Loop` alone: `game_loop` never
returns while the process runs, swallows the exceptions of a tick and always
comes back to every registered room. `fight` assumes the same of its tick.
`session` assumes the loop too, that the browser opens or fails a socket and
dispatches what has arrived, and that `openRoom`'s request is answered. Nothing
is assumed of people: they may never pick, vote, shoot or leave. `ledger`
assumes that a request that has begun goes on whenever its next statement is not
blocked (the event loop resumes a coroutine whose answer came, the database
answers), and that the database resolves deadlocks. `serve` assumes that the
attempt starts and its timers fire, which is Node's part, and that a socket
whose one end has closed gets its turn; nothing of the child, whose answers the
timeout makes dispensable.

### Where code and documents disagree

The run `lost_record` is a property that `docs/PROTOCOL.md` states and the code
does not keep: the phase leaves "finished" (restart, agreed rematch, departure)
while the snapshot is being sent, the event is never computed and the match
never recorded.

Further statements of documents, comments or tests that the code does not keep
have a property and a configuration each, to be run by hand (`tlc -config <cfg>
<module>`); each ends with the trace described:

| configuration, module | property | what happens |
|---|---|---|
| `MCWinnerlessRecord`, `GameServer` | `ResultsNameTheWinner` | the phase moves on while the *event* is being sent: the record has no winner and no scores |
| `MCCapacity`, `GameServer` | `CapacityIsKept` | joins that wait for the database together overfill the room |
| `MCStranded`, `GameServer` | `NobodyIsStranded` | the room is removed while a join waits: the player is welcomed into a room nobody ticks |
| `MCRematch`, `PvpRoom` | `UnanimityStarts` | the last undecided player leaves and the agreed rematch does not start |
| `MCCoinsKept`, `MCLedger` | `CoinsAreKept` | two purchases read the same balance and only one is paid for (`accounts.py:412`; its docstring, line 395, speaks of one transaction); a reward between a purchase's read and write is lost |
| `MCFriendlyFire`, `MCFight` | `BotsSpareBots` | `_hit_bots` asks whether the owner *is* a bot of the room: the bullet of a bot that died and was removed hits the others (`docs/PROTOCOL.md:420`: bots do not shoot each other) |
| `MCHitsAreShots`, `MCFight` | `HitsAreShots` | a reflected bullet, an echo or a bullet without a living owner counts as a hit of a shot never fired (`models.py` `TrainingState`, `docs/PROTOCOL.md:363`) |
| `MCDownStaysDown`, `MCFight` | `DownStaysDown` | a bullet that hits after its owner fell heals him by his leech: he stands up without a phoenix |
| `MCDeathRepeats`, `MCFight` | `DeathRepeatsItsWave` | a player killed after the last bot does not repeat the wave: the pause goes on and the next wave is begun by a dead player (`training.py:9`) |
| `MCStuckGuard`, `Play` | `GuardStopsWithTheHand` | a guard let go between two rounds stays up in the next: `onKeyUp` returns early while input is disabled (`useInput.ts:160`) and `reset_round` keeps the inputs (`docs/PROTOCOL.md:409`, `Tutorial.tsx:57`) |
| `MCDragSteals`, `MCMapEditor` | `DragHoldsItsBlock` | a key erases a block during a drag and the drag goes on with the block that took over the index (`MapEditor.tsx:196` and its comment, line 263) |
| `MCStaleBanner`, `Session` | `BannerIsOfThisMatch` | the change of rank of the last match stays on the screen: a rematch sends no `game_started` (`gameStore.ts:229`, `engine.py:190`) |
| `MCLostEdit`, `Identity` | `EditsSurvive` | a push that failed is not repeated, and the next boot takes the server's older profile over the edit (`identity.ts:92`) |
| `MCForeignRank`, `Identity` | `RankIsTheAccounts` | after a sign-in the lobby shows the old account's rank until the new one's arrives (`AccountModal.tsx:70`) |
| `MCHealthz`, `ServeStatic` | `HealthzTellsOfDeath` | the child exits after its first health check: `/healthz` goes on saying ok, requests go to the dead port, no restart is tried (`serve-static.mjs:311`; comments at lines 28, 148, 225, 295) |
| `MCOneServer`, `ServeStatic` | `OneServer` | a room made on the external server is looked for on the child after the switch |

Met while modelling, without a property of their own:

- `start_game` is handled for any player, though `engine.py:288` and
  `docs/PROTOCOL.md:222` speak of the host.
- A player who lands *exactly* on 0 RR keeps the shield, so the next loss is
  survived too and only the one after it demotes; `ranked.py:19` and
  `test_ranked.py:164` say the next one does, `docs/PROTOCOL.md:173` words it as
  the code has it. `ranked.py:29` and line 45 disagree likewise.
- A rank profile is read before both slots are written and written back as read
  plus one match, so of two ranked results of one account that overlap one may
  disappear from the profile while both are in the match record.
- Two first results of a season, or of an account in a season, both try to
  insert the row; the loser's whole match is rolled back and logged, not
  retried. So is the victim of a deadlock between two results with opposite
  slots.
- The loop compares a room's map with that of its last tick: a map that changes
  and changes back during one tick's broadcasts is not announced (`main.py:55`
  against `docs/PROTOCOL.md:292`), and a light snapshot of a rematch's new map
  may go out before that map does. `TerrainIsTheMaps` excepts these two cases by
  name (`unheralded`).
- The debounced push reads the token when its timer fires: after a sign-in
  during the delay the old account's edits are sent to the new one
  (`identity.ts:98`; `PushTimer` after `SignedIn`).
- Rewards for the owner of a hit (lifesteal, leech) and echo do nothing against
  bots: `_hit_bots` does not grant them, and `_reflect` finds no attacker among
  the players.

## Proofs

The first part of `GameServerProofs` proves, for every target, delay, number of
joins and rounds and for both kinds of room, from the assumptions on the
constants in `PvpRoom`:

- `RoomInvariant`: `RoomInv`, the conjunction of all the safety invariants, is
  inductive. The parts need each other: that the picker is present after a
  departure needs that there was an opponent, that the target ends the match
  needs that no points exceed it before a round is decided, the bound on the
  coins needs the bound on the round wins. `IdsWereIssued` is the one part added
  for the induction: without it a newcomer could be handed an id that an old
  field still mentions.
- `PickerStays`, `NobodyIsAlone`, `TargetIsFinal`, `CoinsArePaidFor`: the parts
  a reader would quote.
- `RoomRefinesMatch`: initial states map to initial states, and under `RoomInv`
  each action maps to a step of `Match` or to a stutter.

Each operation has a lemma that gives the fields of its result, and each action
a lemma that it preserves the invariant and one that it refines a step.

Its second part carries these over to the server and proves what the record of
matches depends on:

- `EachMatchOnce`, `RecordsTellTheTruth`, `MatchesAreNotLost`: at most one
  record per match, of a match that really ended that way; a ranked match nobody
  had won is always in it, and a won one that is not is in the hands of the tick
  or slipped through one of its two awaits, and in no other way (`lost_record`
  shows the first, `MCWinnerlessRecord` what else goes wrong in the second). The
  rules' `RoomInv` is carried over by a lemma: every action of the server is one
  of the rules or leaves the room alone. The inductive invariant
  `RecordInv` ties the tick's local variables to the room: the tick that made
  the room finish is the only one that can still see "finished" after another
  phase, and its match is not recorded yet (`HistoryIsOld`,
  `TickHoldsTheResult`), and a won match that neither slipped nor is recorded is
  the one whose result that tick still holds (`ResultsOutstanding`).
  `RecordIsKept` is the theorem that it holds.
- `NoGhosts`: the seats of a served room are its connections.
- `NobodyMeetsHimself`: distinct accounts in a ranked room.

`ServicesProofs` proves all four properties of the ladder for every table of
tiers, every MMR range, every probability and every target:
`RanksStayOnTheLadder`, `ShieldGoesDownAtZero`, `DemotionIsSlow`,
`ResultsAreVisible`. The first two are the inductive invariant `LadderInv`; that
the shield is down only *after a loss* is what makes two losses in a row follow
from one step. The argument: a result is worth 10 to 50 RR whatever rounding and
the gap contribute (`RrDeltaRange`), so below Radiant a step crosses at most one
edge of the division (`AddRrSteps`, one case per branch of `apply_match`).

Of the ledger it proves for any accounts, items, prices, results and number of
transactions that `LedgerInv` is inductive (`LedgerIsSound`) and from it
`NoBalanceIsForged`, `EveryMatchIsCounted` and `NoItemIsSoldTwice`. The
induction needs what the committed rows do not show: that whoever holds an
account has written exactly the committed row plus the participants it has
inserted (`DraftsAreCounted`), that unheld rows have no draft (`LocksAreLive`),
that a balance once read was legal (`SightsWereTrue`; it still is, since
earnings only grow), and that an item about to be sold is still missing from the
inventory because its buyer's row is held (`SalesAreExclusive`). Steps that
touch no account are one lemma (`QuietPreserves`); `Buy`, `WriteCounters`,
`Commit` and `Fail` have one each.

`FightProofs` proves for any waves, cards, delays and number of bullets that
every step of a fight is a step of `Waves` or none (`FightRefinesWaves`). It
needs one invariant, `Stages` (`StagesInvariant`): a training room knows only
the phases of a fight and of a card window, a card window is open only between
ticks, nothing has happened before the first wave, no window is open while
somebody waits to respawn (so that the window's end cannot be taken for the
respawn's), a window in the middle of a fight is that of a player who stands,
and no bot has his number. Only the judgement and the cards touch the wave, the
phase and the set of bots (`OthersAreSteady`); the other steps of a tick leave
the session alone or are the player's death (`Die`), since none of them raises
him who lies. The duel's own phases, the card of its loser and the end of its
match, are stutters of a session without waves.

`SessionProofs` proves for any maps, sockets, inbox, matches and coins that the
page shows its own session (`PageShowsItsOwnSession`), that the filter hides
nothing (`FilterHidesNothing`) and that a refusal is explained
(`RefusalsAreShown`). `SessionInv` adds to them that the socket in use is
opening or open (`InUse`), that letters lie only on sockets that were opened and
speak of those (`MailIsAddressed`), that a welcome is the first letter of a
socket (`WelcomeIsFirst`) and no refusal follows it (`WelcomeIsFinal`), and that
the reason is kept until the close that needs it, whose code comes behind the
letter with the same reason (`ReasonIsKept`, `ReasonComesFirst`): the code
cannot be heard first, nor say another reason. There is a
lemma for each kind of step: quiet ones, a letter sent, one box changed, a
session ended, a letter read.

Upon it stands `RelayInv` (`MailAgreesWithTheRoom`), about what the mail under
way adds up to. A letter alone proves nothing, since a light snapshot leaves
terrain out and the filter skips what brings no new phase. So the invariant
reads the box letter by letter and compares what the page would remember then
with the room: each light snapshot fits the terrain known by its turn
(`LightFits`), behind the last letter the room's map and phase are told
(`MapIsTold`, `PhaseIsTold`), and coins the seat was paid are on the page or in
a letter the filter will let through (`CoinsCome`). `SnapshotsFitTheTerrain` and
`EarnedCoinsArrive` follow.

`IdentityProofs` proves all four properties of the browser's identity for any
accounts, items and bounds, from one inductive invariant (`CallsStayTrue`). Its
online half, `OnlineInv`, says that while calls have not overlapped there is one
at most (`One`) and what it brings is still so when it arrives (`Asked`,
`Answers`); that the screen is the token's account (`Whose`, `Books`); and that
each edited field is saved, pending or on its way (`Kept`). Its offline half,
`OfflineInv`, lets calls overlap: nothing but 503 is ever answered, and the
editor's latch admits one purchase at a time, whose price and item are those of
the moment it was sent (`Latched`). `ProfileIsNotMixed`,
`LocalPurchasesBalance`, `EditsReachTheServer` and `TokenIsKept` follow. The
first attempt found a property that was too strong:
`ProfileIsOneAccounts` used to speak of the time after a lost token too (see
Modules), which the run's bounds did not reach.

`EditorProofs` proves for any maps the server allows, any places of the pointer
and any typed integers:

- `MergeKeeps`, `MergingIsLossless`: merging keeps the ground and the movers and
  makes no more blocks, for every list of blocks and so for whatever is drawn.
  The sort of a pass is a permutation (`SortPermutes`: no two blocks get one
  place). What the fold has collected after k blocks covers the ground of those
  k. Induction over the list is out of the prover's reach, so it is argued by
  the shortest prefix for which this fails (`LeastFailure`).
- `AllowedStays`, `LayoutArrives`: `normalize_all` changes nothing in a list of
  blocks the server allows, and every layout the editor sends is one.
- `EditorInvariant`, `SelectionStays`, `EditorTypeOK`: the selected index is the
  block the user selected. The induction needs that blocks have names of their
  own (`OwnNames`) and that the block of a drag is the selected one until it
  goes, with its name nowhere but at the index of the drag (`DragIsSelected`): a
  resize writes its base back to that index, under its old name, whatever is
  there by then.
- `NothingElseIsLost`: a layout leaves the disk only by its own name or as the
  oldest, for any number of tabs and saves. `StoreInv` says that the disk is in
  descending order of time and that nothing on it is from the future.

`PlayProofs` proves its three properties for any wire and any number of rounds.
For `HandsAct` the invariant `HandInv` says that what the page keeps is in the
hands or was missed (`KeptIsHeld`), that nothing is kept while the screen is
gone (`NothingIsKept`), and that the last message of a kind on the wire says
what the page keeps, or else the server knows it already (`TellsInput`,
`TellsStrong`, with lemmas for a letter appended and the first one read). For
`PickerCanPick` and `VotesAreFresh` it is `ScreenInv`: an overlay that has
sampled the end of a round has forgotten its pick or vote, and no window opens
before all overlays have sampled that end.

`ServeStaticProofs` proves for any callers and any number of checks that an
answer on the game server's paths is its own or the proxy's 502 and an error
carries JSON (`ErrorsAreReadable`), and that `/healthz` says ok exactly while
requests go to the child (`HealthzIsConsistent`): the move to the child is final
and is made in one step with the report.

The proofs assume the named `ASSUME`s of the modules (ranges of the constants)
and nothing else. A behaviour is split into kinds of steps (`StepKinds`: quiet,
kickoff, forfeit, tick, ...) so that each part of the invariant is argued once
per kind and not once per handler.

Only model-checked is liveness under fairness, which the prover cannot treat:
`RoundOverEnds`, `TransactionsEnd`, `ConnectingEnds`, `EmbedIsDecided`,
`EndsArePassedOn`, `FlightsEnd`, `NobodyStaysDown` and the fairness of
`Waves`. Every other property of a passing run is stated by a theorem. Only
proved: `RecordsAreReal`, `OnTheLadder`, `MoveIsFinal`, `NobodyPlaysAlone`,
`ShieldIsDownAtZero` and the inductive invariants, which held in earlier runs on
the same instances (`EditorInv` and `IdInv` also with more blocks, edits and
coins). The type invariant of `MapEditor` is proved (`EditorTypeOK`); those of
`Fight`, `Session`, `Play`, `Identity` and `LayoutStore` (`StoreTypeOK`) hold
under the runs' configurations when added to them.

## Not modelled

Whole parts:

- `services/ratelimit.py`: a list of times per key, read and written in one go;
  nothing runs beside it. (It counts blocked attempts too, so `retry_after`
  moves on with every one of them.)
- REST endpoints, schemas and serialisation: validation and formatting. What
  they answer is an input of `Identity` and `Session`.
- Drawing: canvas, avatar parts, HUD, tutorial, rank and info panels. They read
  the last snapshot and keep nothing that anything else reads.
- `start_next_season`, which nothing calls; development scripts.

Within the modelled parts:

- *Server*: several rooms, the allocation of codes and a code given out again
  while a departure of its first room is still going on (`ws.py:259`); chat, aim
  and avatar messages, which change no phase; the hashing and the expiry of
  credentials.
- *Fight*: geometry, maps and steering; sizes of damage, cooldowns, silence and
  charge; zones, explosions, statuses, piercing, saws and volleys; duplicates of
  a card; statistics other than hits and shots; the hit points that grow with
  later waves. The guard is chosen anew in each tick, a bullet meets at most two
  platforms in one, and an echo is ready again after one tick. Rounds and points
  are `PvpRoom`'s: whether a decided round is followed by the next, by the
  loser's card or by the end of the match is a free choice. The lobby is left
  out (`NextMatch` is a rematch or a start after it), and nobody leaves.
- *Session*: `accountId` of the welcome and the automatic start of a training
  (`connection.ts:96`); chat, the last event and `playerLeft`, which are only
  shown.
- *Identity*: login name and recovery code are one flag; the refresh of the rank
  is one step; the seed of coins is capped at what its run sets.
- *Play*: left, right and jump, which are kept and sent as the guard is;
  training. The end of a round waits until each overlay has sampled it: the code
  waits 2 s for overlays that look every 200 ms.
- *Editor*: a second pointer and the buttons of the tools during a drag, the
  phase of movers, the refusal of layouts in ranked rooms, and a match that
  starts while the editor is open. `LayoutStore`'s functions are atomic between
  tabs and its clock does not go back.
- *ServeStatic*: bodies and answers cut in the middle, a connection reset during
  a handshake, cache headers, the keep-alive ping (lines 343 to 364). The
  external server answers or its host answers with a page. A health check
  answered with another status is one that times out.
