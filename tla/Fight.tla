------------------------------- MODULE Fight -------------------------------
(***************************************************************************)
(* The fighting in a room: engine.tick_room with sim.py, bullets.py and    *)
(* training.py, in a duel of two players and in a training room.           *)
(*                                                                         *)
(* A tick is a sequence of steps in the order of the code: the players,    *)
(* the bots, each bullet in turn with everything it strikes, the judgement *)
(* at the end.  The messages of the players are handled between ticks.     *)
(* Where things are is left out: what a bullet meets, who steps on spikes  *)
(* or falls, and what a bot sees, is any choice; every hit costs one hit   *)
(* point, of which players and bots have the same number.  Scores are      *)
(* PvpRoom's: here a decided round may be followed by the next one, by the *)
(* loser's card or by the end of the match.  The lobby before a match is   *)
(* left out too.                                                           *)
(***************************************************************************)
EXTENDS Integers, Sequences, FiniteSets

CONSTANTS
  DuelCards,      \* bound: the cards that come up in a duel
  TrainingCards,  \* bound: the cards that are tried in training
  Tiers,          \* TRAINING_WAVES: the tiers of the bots of each wave
  MAX_HP, Life, BLOCK_METER_MAX,
  RespawnTicks, BreakTicks, RoundEndTicks,
  MaxAir,         \* bound: bullets in the air at once
  MaxCards,       \* bound: cards of a player
  MaxWave         \* bound: waves

AllCards == {"target_bounce", "homing", "echo", "leech", "phoenix", "tank"}

ASSUME CardsAssumption ==
  DuelCards \subseteq AllCards /\ TrainingCards \subseteq AllCards
ASSUME TiersAssumption ==
  /\ Tiers \in Seq(Seq({"dummy", "rookie"})) /\ Tiers # <<>>
  /\ \A n \in DOMAIN Tiers : Len(Tiers[n]) < 10
ASSUME NumbersAssumption ==
  /\ {MAX_HP, Life, BLOCK_METER_MAX, MaxAir, MaxWave} \subseteq Nat \ {0}
  /\ {RespawnTicks, BreakTicks, RoundEndTicks} \subseteq Nat \ {0}
  /\ MaxCards \in Nat

VARIABLES
  mode,       \* room.mode
  phase,      \* room.phase, but for the lobby
  pl,         \* room.players: what the fight reads and writes of each
  bots,       \* room.bots: the hit points of each
  bullets,    \* room.bullets
  training,   \* room.training: wave, state, timer
  over,       \* room.round_end_timer, _ROUND_WINNER, room.loser_to_pick
  pc          \* where the tick in progress is

vars == <<mode, phase, pl, bots, bullets, training, over, pc>>

Nobody == 0
Players == IF mode = "training" THEN {1} ELSE {1, 2}

\* The bots of a wave are numbered anew: those of the last one and their
\* bullets are gone when it begins.
BotIds == 11 .. 19
TiersOf(n) == Tiers[IF n > Len(Tiers) THEN Len(Tiers) ELSE n]
BotsOf(n) == {10 + i : i \in DOMAIN TiersOf(n)}
Tier(b) == TiersOf(training.wave)[b - 10]

Alive(p) == pl[p].hp > 0
Down(p) == p \in Players /\ ~Alive(p)
Standing(bs) == {b \in DOMAIN bs : bs[b] > 0}
Has(p, card) == card \in pl[p].cards
AtMost(a, b) == IF a < b THEN a ELSE b

NothingOver == [timer |-> 0, winner |-> Nobody, picks |-> Nobody]
Idle == [at |-> "idle", i |-> 0, n |-> 0, seen |-> 0]

PlayerState ==
  [hp: Nat, maxHp: Nat \ {0}, meter: 0 .. BLOCK_METER_MAX, blocking: BOOLEAN,
   revives: Nat, echo: 0 .. 1, cards: SUBSET AllCards]

Newcomer ==
  [hp |-> MAX_HP, maxHp |-> MAX_HP, meter |-> BLOCK_METER_MAX,
   blocking |-> FALSE, revives |-> 0, echo |-> 0, cards |-> {}]

(***************************************************************************)
(* Life and death                                                          *)
(***************************************************************************)

\* handle_lethal: a phoenix rises, another player is left lying.
Lethal(s) ==
  IF s.hp > 0 THEN s
  ELSE IF s.revives > 0
       THEN [s EXCEPT !.revives = @ - 1, !.hp = s.maxHp]
       ELSE [s EXCEPT !.blocking = FALSE, !.meter = 0]

\* kill: a fall, which no card survives.
Kill(s) == [s EXCEPT !.hp = 0, !.blocking = FALSE, !.meter = 0]

\* update_player: the guard is held while it is pressed and the meter lasts;
\* poison and spikes hurt.
UpdatePlayer(s, pressed, hurt) ==
  IF s.hp <= 0 THEN [s EXCEPT !.blocking = FALSE]
  ELSE LET guards == pressed /\ s.meter > 0
       IN  Lethal([s EXCEPT !.blocking = guards,
                            !.meter = IF guards THEN @ - 1 ELSE @,
                            !.echo = IF @ > 0 THEN @ - 1 ELSE 0,
                            !.hp = IF hurt THEN @ - 1 ELSE @])

\* The fields of a player that a new round, a new wave or a respawn sets.
Refilled(s) == [s EXCEPT !.meter = BLOCK_METER_MAX]
Restored(s) == [Refilled(s) EXCEPT !.hp = s.maxHp, !.echo = 0]

\* apply_card
ApplyCard(s, card) ==
  LET t == [s EXCEPT !.cards = @ \cup {card}]
  IN  CASE card = "phoenix" -> [t EXCEPT !.revives = @ + 1]
        [] card = "tank" -> [t EXCEPT !.maxHp = @ + 1, !.hp = @ + 1]
        [] OTHER -> t

\* Bound: each card once, and at most MaxCards.
MayTake(p, card) == ~Has(p, card) /\ Cardinality(pl[p].cards) < MaxCards

(***************************************************************************)
(* Bullets                                                                 *)
(***************************************************************************)

BulletIds == 1 .. MaxAir
InAir(i) == \E k \in DOMAIN bullets : bullets[k].id = i
RoomInAir(bs) == Len(bs) < MaxAir
NewId(bs) == CHOOSE i \in BulletIds :
               /\ \A k \in DOMAIN bs : bs[k].id # i
               /\ \A j \in 1 .. i - 1 : \E k \in DOMAIN bs : bs[k].id = j

\* spawn_bullet and spawn_bot_bullet: a bullet carries the cards of its
\* owner at the time; "shot" tells those that the accuracy counts as fired.
Bullet(bs, owner, flags, shot) ==
  [id |-> NewId(bs), owner |-> owner, life |-> Life, bounces |-> 0,
   flags |-> flags \cap {"target_bounce", "homing"},
   max |-> IF "target_bounce" \in flags THEN 1 ELSE 0,
   active |-> TRUE, shot |-> shot]

Gone(b) == [b EXCEPT !.active = FALSE]

\* bug: a homing bullet that hits the border of the world gets its life back
RicochetUncounted(b, counted) ==
  [b EXCEPT !.flags = IF "target_bounce" \in @ THEN @ \cup {"homing"} ELSE @,
            !.bounces = IF counted THEN @ + 1 ELSE @,
            !.life = Life]

Ricochet(b, counted) ==
  [b EXCEPT !.flags = IF "target_bounce" \in @ THEN @ \cup {"homing"} ELSE @,
            !.bounces = IF counted THEN @ + 1 ELSE @,
            !.life = IF counted THEN Life ELSE @]

\* _hit_platforms, for one platform in the way
HitPlatform(b) == IF b.bounces < b.max THEN Ricochet(b, TRUE) ELSE Gone(b)

HitPlatforms(b, inTheWay) ==
  IF "homing" \in b.flags \/ inTheWay = 0 THEN b
  ELSE LET c == HitPlatform(b)
       IN  IF inTheWay = 2 /\ c.active THEN HitPlatform(c) ELSE c

\* _bounce_walls
BounceWalls(b, wall) ==
  CASE wall = "floor" -> Gone(b)
    [] wall = "side" -> Ricochet(b, "homing" \notin b.flags)
    [] OTHER -> b

\* update_bullets up to the hits: one tick of age, the walls, the platforms.
Flown(b, wall, inTheWay) ==
  LET aged == [b EXCEPT !.life = @ - 1]
      back == BounceWalls(aged, wall)
  IN  IF aged.life <= 0 \/ ~back.active \/ back.bounces > back.max
      THEN Gone(back)
      ELSE HitPlatforms(back, inTheWay)

\* Whom the bullet can hurt: never its owner, and a bot's bullet no bot.
Targets(b) ==
  {p \in Players : Alive(p) /\ p # b.owner}
    \cup (IF b.owner \in DOMAIN bots THEN {} ELSE Standing(bots))

\* _reflect: the bullet is his who holds his guard, and has its life again.
Reflected(b, p) == [b EXCEPT !.owner = p, !.life = Life]

\* The answer of an echo, not two in a tick.
Echoes(b, p) == Has(p, "echo") /\ pl[p].echo = 0

\* _damage_player: the owner of the bullet feeds on the hit first.
Damaged(b, p) ==
  [q \in Players |->
     IF q = p THEN Lethal([pl[p] EXCEPT !.hp = @ - 1])
     ELSE IF q = b.owner /\ Has(q, "leech")
          THEN [pl[q] EXCEPT !.hp = AtMost(pl[q].maxHp, @ + 1)]
          ELSE pl[q]]

(***************************************************************************)
(* Training                                                                *)
(***************************************************************************)

Refill(s) == [p \in DOMAIN s |-> Refilled(s[p])]

\* start_wave, for the players s
StartWave(s, n) ==
  /\ bots' = [b \in BotsOf(n) |-> MAX_HP]
  /\ bullets' = <<>>
  /\ pl' = Refill(s)
  /\ training' = [wave |-> n, state |-> "fighting", timer |-> 0]

\* A card chosen after a cleared wave opens the next one, another the fight
\* that goes on.
ResumeAfterPick(s) ==
  IF training.state = "wave_clear"
  THEN training.wave < MaxWave /\ StartWave(s, training.wave + 1)
  ELSE pl' = s /\ UNCHANGED <<bots, bullets, training>>

CanOpenCards ==
  /\ mode = "training" /\ phase = "playing"
  /\ training.state = "fighting" /\ training.wave # 0
  /\ Alive(1)

(***************************************************************************)
(* The tick                                                                *)
(***************************************************************************)

Init ==
  /\ mode \in {"pvp", "training"}
  /\ phase = "playing"
  /\ pl = [p \in Players |-> Newcomer]
  /\ bots = [b \in {} |-> 0]
  /\ bullets = <<>>
  /\ training = [wave |-> 0, state |-> "fighting", timer |-> 0]
  /\ over = NothingOver
  /\ pc = Idle

\* tick_room begins with the players.
UpdatePlayers ==
  /\ pc.at = "idle"
  /\ phase \in {"playing", "round_over"}
  /\ \E pressed, hurt \in SUBSET Players :
       pl' = [p \in Players |-> UpdatePlayer(pl[p], p \in pressed, p \in hurt)]
  /\ pc' = [Idle EXCEPT !.at = "bots"]
  /\ UNCHANGED <<mode, phase, bots, bullets, training, over>>

\* update_bot: poison strikes before the shot, spikes and falls after it.
UpdateBot(b) ==
  /\ pc.at = "bots"
  /\ b \in Standing(bots) /\ b > pc.seen
  /\ \E fires, hurt \in BOOLEAN :
       /\ fires => /\ Tier(b) # "dummy" /\ RoomInAir(bullets)
                   /\ \E p \in Players : Alive(p)
       /\ bullets' = IF fires THEN Append(bullets, Bullet(bullets, b, {}, FALSE))
                              ELSE bullets
       /\ bots' = [bots EXCEPT ![b] = IF hurt THEN @ - 1 ELSE @]
  /\ pc' = [pc EXCEPT !.seen = b]
  /\ UNCHANGED <<mode, phase, pl, training, over>>

\* update_bullets goes over the bullets that are there when it begins.
BotsDone ==
  /\ pc.at = "bots"
  /\ pc' = [at |-> "fly", i |-> 1, n |-> Len(bullets), seen |-> 0]
  /\ UNCHANGED <<mode, phase, pl, bots, bullets, training, over>>

NextBullet == [pc EXCEPT !.at = "fly", !.i = @ + 1, !.seen = 0]

Fly ==
  /\ pc.at = "fly" /\ pc.i <= pc.n
  /\ \E wall \in {"none", "side", "floor"}, inTheWay \in 0 .. 2 :
       LET b == Flown(bullets[pc.i], wall, inTheWay)
       IN  /\ bullets' = [bullets EXCEPT ![pc.i] = b]
           /\ pc' = IF b.active THEN [pc EXCEPT !.at = "hit"] ELSE NextBullet
  /\ UNCHANGED <<mode, phase, pl, bots, training, over>>

\* _hit_players, a guard that is up
Reflect(p) ==
  LET b == bullets[pc.i]
      turned == [bullets EXCEPT ![pc.i] = Reflected(b, p)]
      answers == Echoes(b, p) /\ b.owner \in Players
  IN  /\ pl[p].blocking
      /\ answers => RoomInAir(bullets)
      /\ bullets' = IF answers
                    THEN Append(turned, Bullet(bullets, p, pl[p].cards, FALSE))
                    ELSE turned
      /\ pl' = IF Echoes(b, p) THEN [pl EXCEPT ![p].echo = 1] ELSE pl
      /\ pc' = [pc EXCEPT !.seen = p]
      /\ UNCHANGED bots

\* _hit_players, no guard
HitPlayer(p) ==
  /\ ~pl[p].blocking
  /\ pl' = Damaged(bullets[pc.i], p)
  /\ bullets' = [bullets EXCEPT ![pc.i] = Gone(@)]
  /\ pc' = NextBullet
  /\ UNCHANGED bots

\* _hit_bots
HitBot(b) ==
  /\ bots' = [bots EXCEPT ![b] = @ - 1]
  /\ bullets' = [bullets EXCEPT ![pc.i] =
                   [Gone(@) EXCEPT !.flags = @ \cup {"counted_hit"}]]
  /\ pc' = NextBullet
  /\ UNCHANGED pl

\* The entities are tried in their order; what the bullet misses is passed.
Hit(e) ==
  /\ pc.at = "hit"
  /\ e \in Targets(bullets[pc.i]) /\ e > pc.seen
  /\ IF e \in Players THEN Reflect(e) \/ HitPlayer(e) ELSE HitBot(e)
  /\ UNCHANGED <<mode, phase, training, over>>

Miss ==
  /\ pc.at = "hit"
  /\ pc' = NextBullet
  /\ UNCHANGED <<mode, phase, pl, bots, bullets, training, over>>

IsActive(b) == b.active

\* check_fall_death
Fallen(fallers) ==
  [p \in Players |-> IF p \in fallers /\ Alive(p) THEN Kill(pl[p]) ELSE pl[p]]

Survivors(s) == {p \in Players : s[p].hp > 0}

\* bug: a round without a survivor is not over
RoundDecidedByOne(s) == \E p \in Players : Survivors(s) = {p}

RoundDecided(s) == \A p, q \in Survivors(s) : p = q

\* _check_round_over
JudgeRound(s) ==
  /\ mode = "pvp" /\ phase = "playing"
  /\ pl' = s
  /\ bullets' = SelectSeq(bullets, IsActive)
  /\ IF RoundDecided(s)
     THEN /\ phase' = "round_over"
          /\ \E w \in Survivors(s) \cup {Nobody} :
               /\ w = Nobody <=> Survivors(s) = {}
               /\ over' = [over EXCEPT !.timer = RoundEndTicks, !.winner = w]
     ELSE UNCHANGED <<phase, over>>
  /\ UNCHANGED <<bots, training>>

ResetRound(s) ==
  /\ phase' = "playing"
  /\ pl' = [p \in Players |-> [Restored(s[p]) EXCEPT !.blocking = FALSE]]
  /\ bullets' = <<>>
  /\ over' = NothingOver

\* _resolve_round_over, of a round somebody won: the match is his, and the
\* others stay as they are; or the loser has a card to choose.  The bound on
\* cards also bounds who is asked.
FinishMatch ==
  /\ phase' = "finished"
  /\ bullets' = <<>>
  /\ over' = NothingOver
  /\ UNCHANGED pl

AskLoser(p) ==
  /\ \E card \in DuelCards : MayTake(p, card)
  /\ phase' = "picking"
  /\ over' = [NothingOver EXCEPT !.picks = p]
  /\ bullets' = SelectSeq(bullets, IsActive)
  /\ UNCHANGED pl

\* The tick of a decided round, and _resolve_round_over when its time is up;
\* the points that tell which of the three follows are PvpRoom's.
EndRound ==
  /\ mode = "pvp" /\ phase = "round_over"
  /\ IF over.timer > 1
     THEN /\ over' = [over EXCEPT !.timer = @ - 1]
          /\ bullets' = SelectSeq(bullets, IsActive)
          /\ UNCHANGED <<phase, pl>>
     ELSE \/ ResetRound(pl)
          \/ over.winner # Nobody /\ FinishMatch
          \/ \E p \in Players : over.winner \in Players \ {p} /\ AskLoser(p)
  /\ UNCHANGED <<bots, training>>

TickRespawn(s) ==
  /\ training.state = "respawning"
  /\ IF training.timer > 1
     THEN /\ training' = [training EXCEPT !.timer = @ - 1]
          /\ pl' = s
          /\ bullets' = SelectSeq(bullets, IsActive)
          /\ UNCHANGED bots
     ELSE StartWave([s EXCEPT ![1] = Restored(@)], training.wave)
  /\ UNCHANGED phase

TickWaveClear(s) ==
  /\ training.state = "wave_clear"
  /\ pl' = s
  /\ bullets' = SelectSeq(bullets, IsActive)
  /\ training' = [training EXCEPT !.timer = @ - 1]
  /\ phase' = IF training.timer > 1 THEN phase ELSE "picking"
  /\ UNCHANGED bots

Turned(state, timer) == [training EXCEPT !.state = state, !.timer = timer]

\* bug: a cleared wave counts before a death
TickFightingClearedFirst(s) ==
  LET left == Standing(bots)
      up == s[1].hp > 0
  IN  /\ training.state = "fighting" /\ training.wave # 0
      /\ pl' = s
      /\ bullets' = SelectSeq(bullets, IsActive)
      /\ bots' = [b \in left |-> bots[b]]
      /\ training' =
           CASE left = {} -> Turned("wave_clear", BreakTicks)
             [] ~up /\ left # {} -> Turned("respawning", RespawnTicks)
             [] OTHER -> training
      /\ UNCHANGED phase

\* A death counts before a cleared wave.
TickFighting(s) ==
  LET left == Standing(bots)
      up == s[1].hp > 0
  IN  /\ training.state = "fighting" /\ training.wave # 0
      /\ pl' = s
      /\ bullets' = SelectSeq(bullets, IsActive)
      /\ bots' = [b \in left |-> bots[b]]
      /\ training' =
           CASE ~up -> Turned("respawning", RespawnTicks)
             [] up /\ left = {} -> Turned("wave_clear", BreakTicks)
             [] OTHER -> training
      /\ UNCHANGED phase

\* training.tick
JudgeWave(s) ==
  /\ mode = "training" /\ phase = "playing"
  /\ \/ training.wave = 0 /\ StartWave(s, 1) /\ UNCHANGED phase
     \/ TickRespawn(s)
     \/ TickWaveClear(s)
     \/ TickFighting(s)
  /\ UNCHANGED over

\* The last step of a tick.
Judge ==
  /\ pc.at = "fly" /\ pc.i > pc.n
  /\ \/ \E fallers \in SUBSET Players :
          JudgeRound(Fallen(fallers)) \/ JudgeWave(Fallen(fallers))
     \/ EndRound
  /\ pc' = Idle
  /\ UNCHANGED mode

TickStep ==
  \/ UpdatePlayers
  \/ \E b \in BotIds : UpdateBot(b)
  \/ BotsDone
  \/ Fly
  \/ \E e \in Players \cup BotIds : Hit(e)
  \/ Miss
  \/ Judge

(***************************************************************************)
(* Messages between the ticks                                              *)
(***************************************************************************)

\* _do_shoot and fire, at any rate
Shoot(p) ==
  /\ pc.at = "idle" /\ phase = "playing"
  /\ Alive(p) /\ RoomInAir(bullets)
  /\ bullets' = Append(bullets, Bullet(bullets, p, pl[p].cards, TRUE))
  /\ UNCHANGED <<mode, phase, pl, bots, training, over, pc>>

\* open_training_cards
OpenCards ==
  /\ pc.at = "idle"
  /\ CanOpenCards
  /\ phase' = "picking"
  /\ UNCHANGED <<mode, pl, bots, bullets, training, over, pc>>

\* pick_card of a training room
PickCard(card) ==
  /\ pc.at = "idle" /\ mode = "training" /\ phase = "picking"
  /\ MayTake(1, card)
  /\ phase' = "playing"
  /\ ResumeAfterPick([pl EXCEPT ![1] = ApplyCard(@, card)])
  /\ UNCHANGED <<mode, over, pc>>

\* pick_card of a duel: only the loser's card counts, and the next round begins.
LoserPicks(p, card) ==
  /\ pc.at = "idle" /\ mode = "pvp" /\ phase = "picking"
  /\ over.picks = p /\ MayTake(p, card)
  /\ ResetRound([pl EXCEPT ![p] = ApplyCard(@, card)])
  /\ UNCHANGED <<mode, bots, training, pc>>

\* reset_match and start_game, by an agreed rematch or through the lobby.
NextMatch ==
  /\ pc.at = "idle" /\ phase = "finished"
  /\ ResetRound([p \in Players |-> Newcomer])
  /\ UNCHANGED <<mode, bots, training, pc>>

Next ==
  \/ TickStep
  \/ \E p \in Players : Shoot(p)
  \/ OpenCards
  \/ \E card \in TrainingCards : PickCard(card)
  \/ \E p \in Players, card \in DuelCards : LoserPicks(p, card)
  \/ NextMatch

\* The loop runs a tick every sixtieth of a second.
Spec == Init /\ [][Next]_vars /\ WF_vars(TickStep)

(***************************************************************************)
(* Properties                                                              *)
(***************************************************************************)

BulletState ==
  [id: BulletIds, owner: {1, 2} \cup BotIds, life: 0 .. Life, bounces: 0 .. 2,
   flags: SUBSET {"target_bounce", "homing", "counted_hit"}, max: 0 .. 1,
   active: BOOLEAN, shot: BOOLEAN]

TypeOK ==
  /\ mode \in {"pvp", "training"}
  /\ phase \in {"playing", "round_over", "picking", "finished"}
  /\ pl \in [Players -> PlayerState]
  /\ bots \in UNION {[S -> 0 .. MAX_HP] : S \in SUBSET BotIds}
  /\ bullets \in Seq(BulletState) /\ Len(bullets) <= MaxAir
  /\ training \in [wave: 0 .. MaxWave, timer: Nat,
                   state: {"fighting", "wave_clear", "respawning"}]
  /\ over \in [timer: 0 .. RoundEndTicks, winner: {Nobody, 1, 2},
               picks: {Nobody, 1, 2}]
  /\ pc \in [at: {"idle", "bots", "fly", "hit"}, i: Nat, n: Nat,
             seen: Players \cup BotIds \cup {0}]

Stage ==
  IF mode = "pvp" THEN "none"
  ELSE IF training.wave = 0 THEN "ready"
  ELSE CASE training.state = "respawning" -> "down"
         [] training.state = "wave_clear" ->
              IF phase = "picking" THEN "choosing" ELSE "break"
         [] OTHER -> "fighting"

\* Whoever is in a training room is its only player.
PlayerIsUp == mode = "pvp" \/ Alive(1)

W == INSTANCE Waves WITH FoesOf <- BotsOf, stage <- Stage,
                         wave <- training.wave, foes <- DOMAIN bots,
                         up <- PlayerIsUp

\* A training room keeps what a session promises: a wave is passed only by
\* clearing it and choosing a card, a card window opened by hand changes
\* nothing of the fight, whoever lies in a wave at the end of a tick gets the
\* same wave again with all of its foes, and only the respawn or the card
\* after a break raises him.  A death in the break itself does not stop the
\* next wave, which then begins with him lying (training.py: tick,
\* resume_after_pick, the one timer of breaks and respawns).
ImplementsWaves == W!WavesSpec

\* Every bullet's flight ends while the game runs, whatever it meets: bounces
\* are counted where the life is given back, and each reflection costs guard
\* (bullets.py _ricochet and _reflect).
FlightsEnd ==
  \A i \in BulletIds : InAir(i) ~> (~InAir(i) \/ phase = "picking")

\* The loop never leaves anybody lying: he rises for the next round of a duel
\* or by the respawn of a training room, or the room has come to a point where
\* people decide, the card that is due or the result of the match, which the
\* one who lost its last round sees lying (engine._judge,
\* _resolve_round_over, training._tick_respawn).
NobodyStaysDown ==
  \A p \in {1, 2} : Down(p) ~> (phase \in {"picking", "finished"} \/ ~Down(p))

\* Doc: bots do not shoot each other (docs/PROTOCOL.md:420).  A bot is hurt
\* only by a bullet that belongs to a player.
BotsSpareBots ==
  \A k \in DOMAIN bullets :
    "counted_hit" \in bullets[k].flags => bullets[k].owner \in Players

\* Doc: hits are those of the shots fired that hit (models.py TrainingState).
HitsAreShots ==
  \A k \in DOMAIN bullets :
    "counted_hit" \in bullets[k].flags => bullets[k].shot

\* Doc: only a phoenix revives (cards.py).  Within a round nobody rises
\* without one.
DownStaysDown ==
  [][\A p \in Players :
       ~Alive(p) /\ pl'[p].hp > 0 =>
         \/ mode = "pvp" /\ phase # "playing" /\ phase' = "playing"
         \/ training.state = "respawning" /\ training'.state = "fighting"]_vars

\* Doc: a death brings the same wave back (training.py:9): the next wave is
\* not begun by a player who lies dead.
DeathRepeatsItsWave ==
  [][training'.wave > training.wave => Alive(1)]_vars
=============================================================================
