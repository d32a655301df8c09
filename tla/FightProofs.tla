---------------------------- MODULE FightProofs ----------------------------
(***************************************************************************)
(* Proofs about Fight: a training room takes only the steps of the         *)
(* abstract session (Waves), for any waves, cards, bounds and any number   *)
(* of bullets in the air.  Nothing of bullets is needed for it, only how   *)
(* the phase and the state of the training go together, and what a step    *)
(* may do to the life of the player: nothing but a respawn and a card      *)
(* chosen after a wave raises him.                                         *)
(***************************************************************************)
EXTENDS Fight, TLAPS

TrainingStates == {"fighting", "wave_clear", "respawning"}

\* A player has a number of hit points and room for some.
Sound(s) ==
  /\ {"hp", "maxHp"} \subseteq DOMAIN s
  /\ s.hp \in Int /\ s.maxHp \in Nat /\ s.maxHp > 0

\* The one player of a training room.
Alone(s) == DOMAIN s = {1} /\ Sound(s[1])

\* No better off than now.
Lowered(s) == Alone(s) /\ (s[1].hp > 0 => Alive(1))

\* Rounds end and matches are won in a duel only.  The game stands still while
\* a card is chosen; in training that is after a wave, or in a fight by a
\* player who stands, and never while he waits for his respawn.  Before the
\* first wave nothing has happened.  No bot has the player's number.
Stages ==
  /\ mode \in {"pvp", "training"}
  /\ 1 \notin DOMAIN bots
  /\ mode = "training" => phase \in {"playing", "picking"} /\ Alone(pl)
  /\ training \in [wave : Nat, state : TrainingStates, timer : Int]
  /\ training.wave = 0 => training.state = "fighting"
  /\ phase = "picking" => pc.at = "idle"
  /\ mode = "training" /\ phase = "picking" =>
       /\ training.wave # 0 /\ training.state # "respawning"
       /\ training.state = "fighting" => Alive(1)

\* What the steps do to the state of the training and to the set of the bots.
Steady ==
  /\ UNCHANGED <<mode, phase, training>>
  /\ DOMAIN bots' = DOMAIN bots
  /\ phase # "picking"
  /\ mode = "training" => Lowered(pl')

(***************************************************************************)
(* The life of a player                                                    *)
(***************************************************************************)

LEMMA LethalKeeps ==
  ASSUME NEW s, Sound(s)
  PROVE  Sound(Lethal(s)) /\ (s.hp > 0 => Lethal(s) = s)
  BY DEF Sound, Lethal

LEMMA UpdateLowers ==
  ASSUME NEW s, Sound(s), NEW pressed, NEW hurt
  PROVE  LET t == UpdatePlayer(s, pressed, hurt)
         IN  Sound(t) /\ (t.hp > 0 => s.hp > 0)
<1> DEFINE guards == pressed /\ s.meter > 0
           t == [s EXCEPT !.blocking = guards,
                          !.meter = IF guards THEN @ - 1 ELSE @,
                          !.echo = IF @ > 0 THEN @ - 1 ELSE 0,
                          !.hp = IF hurt THEN @ - 1 ELSE @]
<1>1. CASE s.hp <= 0
  BY <1>1 DEF UpdatePlayer, Sound
<1>2. CASE ~(s.hp <= 0)
  <2>1. UpdatePlayer(s, pressed, hurt) = Lethal(t)
    BY <1>2 DEF UpdatePlayer
  <2>2. Sound(t)
    BY DEF Sound
  <2> HIDE DEF t
  <2> QED
    BY <1>2, <2>1, <2>2, LethalKeeps DEF Sound
<1> QED
  BY <1>1, <1>2

LEMMA KillLowers ==
  ASSUME NEW s, Sound(s)
  PROVE  Sound(Kill(s)) /\ Kill(s).hp = 0
  BY DEF Sound, Kill

LEMMA RefilledKeeps ==
  ASSUME NEW s, Sound(s)
  PROVE  Sound(Refilled(s)) /\ Refilled(s).hp = s.hp /\ Refilled(s).maxHp = s.maxHp
  BY DEF Sound, Refilled

LEMMA RestoredRises ==
  ASSUME NEW s, Sound(s)
  PROVE  Sound(Restored(s)) /\ Restored(s).hp > 0
<1> DEFINE r == Refilled(s)
<1>1. Sound(r) /\ r.maxHp = s.maxHp
  BY RefilledKeeps
<1> HIDE DEF r
<1>2. Restored(s) = [r EXCEPT !.hp = s.maxHp, !.echo = 0]
  BY DEF Restored, r
<1> QED
  BY <1>1, <1>2 DEF Sound

LEMMA CardNeverKills ==
  ASSUME NEW s, Sound(s), NEW card
  PROVE  Sound(ApplyCard(s, card)) /\ (s.hp > 0 => ApplyCard(s, card).hp > 0)
<1> DEFINE t == [s EXCEPT !.cards = @ \cup {card}]
<1>1. Sound(t) /\ t.hp = s.hp
  BY DEF Sound
<1> HIDE DEF t
<1>2. CASE card = "phoenix"
  <2>1. ApplyCard(s, card) = [t EXCEPT !.revives = @ + 1]
    BY <1>2 DEF ApplyCard, t
  <2> QED
    BY <1>1, <2>1 DEF Sound
<1>3. CASE card = "tank"
  <2>1. ApplyCard(s, card) = [t EXCEPT !.maxHp = @ + 1, !.hp = @ + 1]
    BY <1>3 DEF ApplyCard, t
  <2> QED
    BY <1>1, <2>1 DEF Sound
<1>4. CASE card \notin {"phoenix", "tank"}
  <2>1. ApplyCard(s, card) = t
    BY <1>4 DEF ApplyCard, t
  <2> QED
    BY <1>1, <2>1
<1> QED
  BY <1>2, <1>3, <1>4

LEMMA FallLowers ==
  ASSUME mode = "training", Alone(pl), NEW fallers
  PROVE  Lowered(Fallen(fallers))
  BY KillLowers DEF Lowered, Alone, Fallen, Players, Alive

LEMMA BotsAreBots ==
  ASSUME NEW n \in Nat \ {0}
  PROVE  1 \notin BotsOf(n)
<1> DEFINE k == IF n > Len(Tiers) THEN Len(Tiers) ELSE n
<1>1. Tiers \in Seq(Seq({"dummy", "rookie"})) /\ Tiers # <<>>
  BY TiersAssumption
<1>2. k \in DOMAIN Tiers
  BY <1>1
<1>3. Tiers[k] \in Seq({"dummy", "rookie"})
  BY <1>1, <1>2
<1>4. TiersOf(n) = Tiers[k]
  BY DEF TiersOf
<1> HIDE DEF k
<1> QED
  BY <1>3, <1>4 DEF BotsOf

\* A refilled player is as alive as before.
LEMMA StartWaveMakes ==
  ASSUME NEW s, Alone(s), NEW n \in Nat, StartWave(s, n)
  PROVE  /\ DOMAIN bots' = BotsOf(n)
         /\ training' = [wave |-> n, state |-> "fighting", timer |-> 0]
         /\ Alone(pl') /\ (pl'[1].hp > 0 <=> s[1].hp > 0)
<1>1. pl' = Refill(s) /\ DOMAIN s = {1} /\ Sound(s[1])
  BY DEF StartWave, Alone
<1>2. DOMAIN pl' = {1} /\ pl'[1] = Refilled(s[1])
  BY <1>1 DEF Refill
<1> QED
  BY <1>1, <1>2, RefilledKeeps DEF StartWave, Alone

LEMMA DamagedMakes ==
  ASSUME mode = "training", NEW b
  PROVE  /\ DOMAIN Damaged(b, 1) = {1}
         /\ Damaged(b, 1)[1] = Lethal([pl[1] EXCEPT !.hp = @ - 1])
<1> DEFINE fed(q) == IF q = b.owner /\ Has(q, "leech")
                     THEN [pl[q] EXCEPT !.hp = AtMost(pl[q].maxHp, @ + 1)]
                     ELSE pl[q]
<1>1. Players = {1}
  BY DEF Players
<1>2. Damaged(b, 1) = [q \in Players |-> IF q = 1 THEN Lethal([pl[1] EXCEPT !.hp = @ - 1])
                                                  ELSE fed(q)]
  BY DEF Damaged
<1> HIDE DEF fed
<1> QED
  BY <1>1, <1>2

\* A hit hurts a player who stands; the bullet of a bot feeds nobody.
LEMMA HitLowers ==
  ASSUME mode = "training", Alone(pl), 1 \notin DOMAIN bots,
         NEW e \in Players \cup BotIds, Hit(e)
  PROVE  Lowered(pl')
<1>1. CASE pl' = pl
  BY <1>1 DEF Lowered, Alone, Alive
<1>2. CASE e \in Players /\ Reflect(e)
  <2>1. pl' = pl \/ pl' = [pl EXCEPT ![e].echo = 1]
    BY <1>2 DEF Reflect
  <2>2. CASE pl' = [pl EXCEPT ![e].echo = 1]
    <3>1. e = 1 /\ DOMAIN pl = {1} /\ Sound(pl[1])
      BY <1>2 DEF Alone, Players
    <3> DEFINE s == [pl[1] EXCEPT !.echo = 1]
    <3>2. Sound(s) /\ s.hp = pl[1].hp
      BY <3>1 DEF Sound
    <3>3. DOMAIN pl' = {1} /\ pl'[1] = s
      BY <2>2, <3>1
    <3> HIDE DEF s
    <3> QED
      BY <3>2, <3>3 DEF Lowered, Alone, Alive
  <2> QED
    BY <1>1, <2>1, <2>2
<1>3. CASE e \in Players /\ HitPlayer(e)
  <2>1. e = 1 /\ Alive(1) /\ Players = {1}
    <3>1. Players = {1}
      BY DEF Players
    <3>2. e = 1
      BY <1>3, <3>1
    <3>3. e \in Targets(bullets[pc.i])
      BY DEF Hit
    <3>4. 1 \notin Standing(bots)
      BY DEF Standing
    <3> QED
      BY <3>1, <3>2, <3>3, <3>4 DEF Targets
  <2> DEFINE b == bullets[pc.i]
  <2>2. pl' = Damaged(b, 1)
    BY <1>3, <2>1 DEF HitPlayer
  <2> HIDE DEF b
  <2>3. DOMAIN pl' = {1} /\ pl'[1] = Lethal([pl[1] EXCEPT !.hp = @ - 1])
    <3>1. /\ DOMAIN Damaged(b, 1) = {1}
          /\ Damaged(b, 1)[1] = Lethal([pl[1] EXCEPT !.hp = @ - 1])
      BY DamagedMakes
    <3> QED
      BY <2>2, <3>1
  <2>4. Sound([pl[1] EXCEPT !.hp = @ - 1])
    BY DEF Alone, Sound
  <2> QED
    BY <2>1, <2>3, <2>4, LethalKeeps DEF Lowered, Alone
<1>4. CASE HitBot(e)
  BY <1>1, <1>4 DEF HitBot
<1> QED
  BY <1>2, <1>3, <1>4 DEF Hit

(***************************************************************************)
(* How the phase and the state of the training go together                 *)
(***************************************************************************)

\* Only the judgement and the cards touch the training, the phase or the bots
\* that are there, and nothing else raises the player.
LEMMA OthersAreSteady ==
  ASSUME Stages,
         \/ UpdatePlayers \/ (\E b \in BotIds : UpdateBot(b)) \/ BotsDone \/ Fly
         \/ (\E e \in Players \cup BotIds : Hit(e)) \/ Miss
         \/ (\E p \in Players : Shoot(p))
  PROVE  Steady
<1>1. /\ UNCHANGED <<mode, phase, training>>
      /\ phase # "picking"
  BY DEF Stages, UpdatePlayers, UpdateBot, BotsDone, Fly, Hit, Miss, Shoot
<1>2. DOMAIN bots' = DOMAIN bots
  BY DEF UpdatePlayers, UpdateBot, BotsDone, Fly, Hit, Reflect, HitPlayer, HitBot,
         Miss, Shoot
<1>3. ASSUME mode = "training" PROVE Lowered(pl')
  <2>0. Alone(pl)
    BY <1>3 DEF Stages
  <2>1. CASE UpdatePlayers
    <3>1. PICK pressed \in SUBSET Players, hurt \in SUBSET Players :
            pl' = [p \in Players |-> UpdatePlayer(pl[p], p \in pressed, p \in hurt)]
      BY <2>1 DEF UpdatePlayers
    <3>2. DOMAIN pl' = {1} /\ pl'[1] = UpdatePlayer(pl[1], 1 \in pressed, 1 \in hurt)
      BY <1>3, <3>1 DEF Players
    <3> QED
      BY <2>0, <3>2, UpdateLowers DEF Lowered, Alone, Alive
  <2>2. CASE \E e \in Players \cup BotIds : Hit(e)
    BY <1>3, <2>0, <2>2, HitLowers DEF Stages
  <2>3. CASE pl' = pl
    BY <2>0, <2>3 DEF Lowered, Alive
  <2> QED
    BY <2>1, <2>2, <2>3 DEF UpdateBot, BotsDone, Fly, Miss, Shoot
<1> QED
  BY <1>1, <1>2, <1>3 DEF Steady

LEMMA StagesInit == Init => Stages
  BY NumbersAssumption
  DEF Init, Stages, TrainingStates, Alone, Sound, Newcomer, Players, Idle

LEMMA TicksAreInts ==
  RespawnTicks \in Int /\ BreakTicks \in Int /\ RoundEndTicks \in Int
  BY NumbersAssumption

LEMMA SteadyStages == Stages /\ Steady => Stages'
  BY DEF Stages, Steady, Lowered

(***************************************************************************)
(* The judgement at the end of a training tick, and a card that is chosen, *)
(* as steps of the session                                                 *)
(***************************************************************************)

LEMMA TurnedIs ==
  ASSUME Stages, NEW state \in TrainingStates, NEW timer \in Int
  PROVE  /\ Turned(state, timer) \in [wave : Nat, state : TrainingStates, timer : Int]
         /\ Turned(state, timer).wave = training.wave
         /\ Turned(state, timer).state = state
<1> DEFINE half == [training EXCEPT !.state = state]
<1>1. /\ half \in [wave : Nat, state : TrainingStates, timer : Int]
      /\ half.wave = training.wave /\ half.state = state
  BY DEF Stages
<1>2. Turned(state, timer) = [half EXCEPT !.timer = timer]
  BY Zenon DEF Turned
<1> HIDE DEF half
<1> QED
  BY <1>1, <1>2

LEMMA RespawnRises ==
  ASSUME NEW s, Alone(s)
  PROVE  LET t == [s EXCEPT ![1] = Restored(@)]
         IN  Alone(t) /\ t[1].hp > 0
  BY RestoredRises DEF Alone

LEMMA BotsStayBots ==
  ASSUME Stages, NEW s, JudgeWave(s)
  PROVE  1 \notin DOMAIN bots'
<1>1. training.wave \in Nat /\ 1 \notin DOMAIN bots
  BY DEF Stages
<1>2. ASSUME NEW r, NEW n \in Nat \ {0}, StartWave(r, n) PROVE 1 \notin DOMAIN bots'
  <2>1. DOMAIN bots' = BotsOf(n)
    BY <1>2 DEF StartWave
  <2> QED
    BY <2>1, BotsAreBots
<1>3. CASE training.wave = 0 /\ StartWave(s, 1)
  BY <1>2, <1>3
<1>4. CASE TickRespawn(s)
  <2>1. training.wave # 0
    BY <1>4 DEF TickRespawn, Stages
  <2> QED
    BY <1>1, <1>2, <1>4, <2>1 DEF TickRespawn
<1>5. CASE TickWaveClear(s)
  BY <1>1, <1>5 DEF TickWaveClear
<1>6. CASE TickFighting(s)
  BY <1>1, <1>6 DEF TickFighting, Standing
<1> QED
  BY <1>3, <1>4, <1>5, <1>6 DEF JudgeWave

LEMMA JudgeWaveKeepsStages ==
  ASSUME Stages, NEW s, Lowered(s), JudgeWave(s), UNCHANGED mode, pc' = Idle
  PROVE  Stages'
<1> USE DEF TrainingStates
<1>0. /\ mode = "training" /\ phase = "playing" /\ Alone(s) /\ pc'.at = "idle"
      /\ 1 \notin DOMAIN bots'
  BY BotsStayBots DEF JudgeWave, Lowered, Idle
<1>1. CASE training.wave = 0 /\ StartWave(s, 1) /\ UNCHANGED phase
  BY <1>0, <1>1, StartWaveMakes DEF Stages
<1>2. CASE TickRespawn(s)
  <2>1. CASE training' = [training EXCEPT !.timer = @ - 1] /\ pl' = s
    BY <1>0, <1>2, <2>1 DEF Stages, TickRespawn
  <2>2. CASE StartWave([s EXCEPT ![1] = Restored(@)], training.wave)
    <3>1. training.wave \in Nat
      BY DEF Stages
    <3>2. /\ training' = [wave |-> training.wave, state |-> "fighting", timer |-> 0]
          /\ Alone(pl')
      BY <1>0, <2>2, <3>1, StartWaveMakes, RespawnRises
    <3> QED
      BY <1>0, <1>2, <3>2 DEF Stages, TickRespawn
  <2> QED
    BY <1>2, <2>1, <2>2 DEF TickRespawn
<1>3. CASE TickWaveClear(s)
  BY <1>0, <1>3 DEF Stages, TickWaveClear
<1>4. CASE TickFighting(s)
  <2>1. \/ training' = training
        \/ training' = Turned("respawning", RespawnTicks)
        \/ training' = Turned("wave_clear", BreakTicks)
    BY <1>4 DEF TickFighting
  <2>2. training.wave # 0 /\ UNCHANGED phase /\ pl' = s
    BY <1>4 DEF TickFighting
  <2>3. /\ training' \in [wave : Nat, state : TrainingStates, timer : Int]
        /\ training'.wave = training.wave
    <3>1. CASE training' = training
      BY <3>1 DEF Stages
    <3>2. CASE training' = Turned("respawning", RespawnTicks)
      BY <3>2, TurnedIs, TicksAreInts
    <3>3. CASE training' = Turned("wave_clear", BreakTicks)
      BY <3>3, TurnedIs, TicksAreInts
    <3> QED
      BY <2>1, <3>1, <3>2, <3>3
  <2> QED
    BY <1>0, <2>2, <2>3 DEF Stages
<1> QED
  BY <1>1, <1>2, <1>3, <1>4 DEF JudgeWave

LEMMA PickCardMakes ==
  ASSUME Stages, NEW card, PickCard(card)
  PROVE  /\ mode = "training" /\ phase = "picking" /\ phase' = "playing"
         /\ UNCHANGED mode
         /\ Alone(pl') /\ (Alive(1) => pl'[1].hp > 0)
         /\ \/ /\ training.state = "wave_clear"
               /\ DOMAIN bots' = BotsOf(training.wave + 1)
               /\ training' = [wave |-> training.wave + 1, state |-> "fighting", timer |-> 0]
            \/ UNCHANGED <<bots, training>> /\ training.state = "fighting"
<1> DEFINE s == [pl EXCEPT ![1] = ApplyCard(@, card)]
<1>1. mode = "training" /\ phase = "picking" /\ phase' = "playing" /\ UNCHANGED mode
  BY DEF Stages, PickCard
<1>0. Alone(s) /\ (Alive(1) => s[1].hp > 0)
  <2>1. DOMAIN pl = {1} /\ Sound(pl[1])
    BY <1>1 DEF Stages, Alone
  <2>2. DOMAIN s = {1} /\ s[1] = ApplyCard(pl[1], card)
    BY <2>1
  <2> QED
    BY <2>1, <2>2, CardNeverKills DEF Alone, Alive
<1>2. CASE training.state = "wave_clear"
  <2>1. StartWave(s, training.wave + 1)
    BY <1>2 DEF PickCard, ResumeAfterPick
  <2>2. training.wave + 1 \in Nat
    BY DEF Stages
  <2> HIDE DEF s
  <2> QED
    BY <1>0, <1>1, <1>2, <2>1, <2>2, StartWaveMakes
<1>3. CASE training.state # "wave_clear"
  <2>1. UNCHANGED <<bots, training>> /\ pl' = s
    BY <1>3 DEF PickCard, ResumeAfterPick
  <2> HIDE DEF s
  <2> QED
    BY <1>0, <1>1, <1>3, <2>1 DEF Stages, TrainingStates
<1> QED
  BY <1>2, <1>3

LEMMA StagesStep == Stages /\ [Next]_vars => Stages'
<1> SUFFICES ASSUME Stages, [Next]_vars PROVE Stages'
  OBVIOUS
<1>1. CASE \/ UpdatePlayers \/ (\E b \in BotIds : UpdateBot(b)) \/ BotsDone \/ Fly
           \/ (\E e \in Players \cup BotIds : Hit(e)) \/ Miss
           \/ (\E p \in Players : Shoot(p))
  BY <1>1, OthersAreSteady, SteadyStages
<1>2. CASE Judge
  <2>0. UNCHANGED mode /\ pc' = Idle
    BY <1>2 DEF Judge
  <2>1. ASSUME NEW s, JudgeRound(s) PROVE Stages'
    BY <2>0, <2>1 DEF JudgeRound, Stages, Idle
  <2>2. ASSUME NEW fallers, JudgeWave(Fallen(fallers)) PROVE Stages'
    <3>1. Lowered(Fallen(fallers))
      BY <2>2, FallLowers DEF JudgeWave, Stages
    <3> QED
      BY <2>0, <2>2, <3>1, JudgeWaveKeepsStages
  <2>3. CASE EndRound
    BY <2>0, <2>3 DEF EndRound, Stages, Idle
  <2> QED
    BY <1>2, <2>1, <2>2, <2>3 DEF Judge
<1>3. CASE OpenCards
  BY <1>3 DEF OpenCards, CanOpenCards, Stages, Alive
<1>4. ASSUME NEW card, PickCard(card) PROVE Stages'
  <2>1. 1 \notin DOMAIN bots'
    <3>1. training.wave + 1 \in Nat \ {0}
      BY DEF Stages
    <3> QED
      BY <1>4, <3>1, PickCardMakes, BotsAreBots DEF Stages
  <2> QED
    BY <1>4, <2>1, PickCardMakes DEF Stages, TrainingStates
<1>5. CASE UNCHANGED vars
  BY <1>5 DEF Stages, vars, Alive
<1>6. CASE (\E p \in Players, card \in DuelCards : LoserPicks(p, card)) \/ NextMatch
  BY <1>6 DEF LoserPicks, NextMatch, ResetRound, Stages
<1> QED
  BY <1>1, <1>2, <1>3, <1>4, <1>5, <1>6 DEF Next, TickStep

\* How the phase, the waves and the state of the training go together.
THEOREM StagesInvariant == Spec => []Stages
<1> QED
  BY StagesInit, StagesStep, PTL DEF Spec

(***************************************************************************)
(* The steps of the session                                                *)
(***************************************************************************)

LEMMA InitIsWaves == Init => W!WavesInit
  BY NumbersAssumption
  DEF Init, W!WavesInit, Stage, PlayerIsUp, Alive, Players, Newcomer

LEMMA UpIsBoolean == PlayerIsUp \in BOOLEAN /\ PlayerIsUp' \in BOOLEAN
  BY DEF PlayerIsUp

\* Nothing of the session changes, except that the player may die.
LEMMA DyingIsWaves ==
  ASSUME UNCHANGED <<Stage, training.wave, DOMAIN bots>>, Stage # "choosing",
         PlayerIsUp' => PlayerIsUp
  PROVE  [W!WavesNext]_(W!waveVars)
<1>1. CASE PlayerIsUp' = PlayerIsUp
  BY <1>1 DEF W!waveVars
<1>2. CASE PlayerIsUp /\ PlayerIsUp' = FALSE
  BY <1>2 DEF W!WavesNext, W!Die
<1> QED
  BY <1>1, <1>2, UpIsBoolean

LEMMA SteadyIsWaves ==
  ASSUME Stages, Steady
  PROVE  [W!WavesNext]_(W!waveVars)
<1>1. UNCHANGED <<Stage, training.wave, DOMAIN bots>> /\ Stage # "choosing"
  BY DEF Steady, Stage
<1>2. PlayerIsUp' => PlayerIsUp
  BY DEF Steady, Lowered, PlayerIsUp, Alive, Stages
<1> QED
  BY <1>1, <1>2, DyingIsWaves

\* The judgement of a training tick: the first wave, a respawn, a card that is
\* offered, foes and players that fall, or nothing the session knows of.
LEMMA JudgeWaveIsWaves ==
  ASSUME Stages, NEW s, Lowered(s), JudgeWave(s), UNCHANGED mode
  PROVE  [W!WavesNext]_(W!waveVars)
<1> USE DEF TrainingStates
<1>0. /\ mode = "training" /\ mode' = "training" /\ phase = "playing"
      /\ training.wave \in Nat /\ Alone(s)
  BY DEF JudgeWave, Stages, Lowered
<1>u. /\ PlayerIsUp' <=> pl'[1].hp > 0
      /\ s[1].hp > 0 => PlayerIsUp
      /\ PlayerIsUp' \in BOOLEAN /\ PlayerIsUp \in BOOLEAN
  BY <1>0, UpIsBoolean DEF PlayerIsUp, Alive, Lowered
<1>1. CASE training.wave = 0 /\ StartWave(s, 1) /\ UNCHANGED phase
  <2>1. /\ DOMAIN bots' = BotsOf(1) /\ training'.wave = 1
        /\ Stage = "ready" /\ Stage' = "fighting" /\ (pl'[1].hp > 0 => s[1].hp > 0)
    BY <1>0, <1>1, StartWaveMakes DEF Stage
  <2>2. PlayerIsUp' \in {PlayerIsUp, FALSE}
    BY <1>u, <2>1
  <2>3. W!FirstWave
    BY <2>1, <2>2 DEF W!FirstWave, W!Begin, W!NobodyRises
  <2> QED
    BY <2>3 DEF W!WavesNext
<1>2. CASE TickRespawn(s)
  <2>1. training.wave # 0 /\ training.state = "respawning"
    BY <1>2 DEF TickRespawn, Stages
  <2>2. CASE /\ training' = [training EXCEPT !.timer = @ - 1]
             /\ UNCHANGED <<phase, bots>> /\ pl' = s
    <3>1. training'.wave = training.wave /\ training'.state = training.state
      BY <2>2 DEF Stages
    <3>2. UNCHANGED <<Stage, training.wave, DOMAIN bots>> /\ Stage # "choosing"
      BY <1>0, <2>1, <2>2, <3>1 DEF Stage
    <3> QED
      BY <1>u, <2>2, <3>2, DyingIsWaves
  <2>3. CASE StartWave([s EXCEPT ![1] = Restored(@)], training.wave)
    <3>1. /\ DOMAIN bots' = BotsOf(training.wave) /\ pl'[1].hp > 0
          /\ training' = [wave |-> training.wave, state |-> "fighting", timer |-> 0]
      BY <1>0, <2>3, StartWaveMakes, RespawnRises
    <3>2. Stage = "down" /\ Stage' = "fighting" /\ training'.wave = training.wave
      BY <1>0, <2>1, <3>1 DEF Stage
    <3>3. W!Again
      BY <1>u, <3>1, <3>2 DEF W!Again, W!Begin
    <3> QED
      BY <3>3 DEF W!WavesNext
  <2> QED
    BY <1>2, <2>2, <2>3 DEF TickRespawn
<1>3. CASE TickWaveClear(s)
  <2>1. /\ training.state = "wave_clear" /\ training.wave # 0
        /\ training' = [training EXCEPT !.timer = @ - 1]
        /\ UNCHANGED bots /\ pl' = s
        /\ phase' \in {phase, "picking"}
    BY <1>3 DEF TickWaveClear, Stages
  <2>2. training'.wave = training.wave /\ training'.state = training.state
    BY <2>1 DEF Stages
  <2>3. Stage = "break" /\ Stage' \in {"break", "choosing"}
    BY <1>0, <2>1, <2>2 DEF Stage
  <2>4. PlayerIsUp' \in {PlayerIsUp, FALSE} /\ (PlayerIsUp' => PlayerIsUp)
    BY <1>u, <2>1
  <2>5. CASE Stage' = "choosing"
    BY <2>1, <2>2, <2>3, <2>4, <2>5 DEF W!WavesNext, W!Offer, W!NobodyRises
  <2>6. CASE Stage' = "break"
    BY <2>1, <2>2, <2>3, <2>4, <2>6, DyingIsWaves
  <2> QED
    BY <2>3, <2>5, <2>6
<1>4. CASE TickFighting(s)
  <2> DEFINE left == Standing(bots)
  <2>1. /\ training.state = "fighting" /\ training.wave # 0
        /\ UNCHANGED phase /\ pl' = s
        /\ DOMAIN bots' = left /\ left \subseteq DOMAIN bots
    BY <1>4 DEF TickFighting, Standing
  <2>2. \/ training' = Turned("respawning", RespawnTicks) /\ ~ (s[1].hp > 0)
        \/ training' = Turned("wave_clear", BreakTicks) /\ left = {} /\ s[1].hp > 0
        \/ training' = training /\ left # {} /\ s[1].hp > 0
    BY <1>4 DEF TickFighting
  <2>3. RespawnTicks \in Int /\ BreakTicks \in Int
    BY TicksAreInts
  <2>4. /\ training'.wave = training.wave
        /\ \/ training'.state = "respawning" /\ ~ (s[1].hp > 0)
           \/ training'.state = "wave_clear" /\ left = {} /\ s[1].hp > 0
           \/ training'.state = "fighting" /\ left # {} /\ s[1].hp > 0
    <3>1. CASE training' = training /\ left # {} /\ s[1].hp > 0
      BY <2>1, <3>1
    <3>2. CASE training' = Turned("respawning", RespawnTicks) /\ ~ (s[1].hp > 0)
      BY <2>3, <3>2, TurnedIs
    <3>3. CASE training' = Turned("wave_clear", BreakTicks) /\ left = {} /\ s[1].hp > 0
      BY <2>3, <3>3, TurnedIs
    <3> QED
      BY <2>2, <3>1, <3>2, <3>3
  <2>5. CASE ~ (s[1].hp > 0)
    <3>1. Stage = "fighting" /\ Stage' = "down" /\ PlayerIsUp' = FALSE
      BY <1>0, <1>u, <2>1, <2>4, <2>5 DEF Stage
    <3> QED
      BY <2>1, <2>4, <3>1 DEF W!WavesNext, W!Lose
  <2>6. CASE s[1].hp > 0
    <3>1. /\ PlayerIsUp /\ PlayerIsUp' = TRUE
          /\ Stage = "fighting" /\ Stage' = IF left = {} THEN "break" ELSE "fighting"
      BY <1>0, <1>u, <2>1, <2>4, <2>6 DEF Stage
    <3> QED
      BY <2>1, <2>4, <3>1 DEF W!WavesNext, W!Fall
  <2> QED
    BY <2>5, <2>6
<1> QED
  BY <1>1, <1>2, <1>3, <1>4 DEF JudgeWave

LEMMA StepIsWaves == Stages /\ [Next]_vars => [W!WavesNext]_(W!waveVars)
<1> SUFFICES ASSUME Stages, [Next]_vars PROVE [W!WavesNext]_(W!waveVars)
  OBVIOUS
<1>1. CASE \/ UpdatePlayers \/ (\E b \in BotIds : UpdateBot(b)) \/ BotsDone \/ Fly
           \/ (\E e \in Players \cup BotIds : Hit(e)) \/ Miss
           \/ (\E p \in Players : Shoot(p))
  BY <1>1, OthersAreSteady, SteadyIsWaves
<1>2. CASE Judge
  <2>1. UNCHANGED mode
    BY <1>2 DEF Judge
  <2>2. ASSUME NEW s, JudgeRound(s) PROVE UNCHANGED W!waveVars
    BY <2>1, <2>2 DEF JudgeRound, W!waveVars, Stage, PlayerIsUp
  <2>3. ASSUME NEW fallers, JudgeWave(Fallen(fallers)) PROVE [W!WavesNext]_(W!waveVars)
    <3>1. Lowered(Fallen(fallers))
      BY <2>3, FallLowers DEF JudgeWave, Stages
    <3> QED
      BY <2>1, <2>3, <3>1, JudgeWaveIsWaves
  <2>4. CASE EndRound
    BY <2>1, <2>4 DEF EndRound, W!waveVars, Stage, PlayerIsUp
  <2> QED
    BY <1>2, <2>2, <2>3, <2>4 DEF Judge
<1>3. CASE OpenCards
  \* The card window changes neither the wave nor the foes.
  BY <1>3 DEF OpenCards, CanOpenCards, W!waveVars, Stage, PlayerIsUp, Alive
<1>4. ASSUME NEW card, PickCard(card) PROVE [W!WavesNext]_(W!waveVars)
  <2>0. /\ mode = "training" /\ mode' = "training" /\ phase = "picking"
        /\ PlayerIsUp => PlayerIsUp'
        /\ training.state = "fighting" => PlayerIsUp
    BY <1>4, PickCardMakes DEF PlayerIsUp, Alive, Stages
  <2>1. CASE UNCHANGED <<bots, training>> /\ training.state = "fighting"
    <3>1. PlayerIsUp' = PlayerIsUp
      BY <2>0, <2>1, UpIsBoolean
    <3> QED
      BY <2>0, <2>1, <3>1 DEF W!waveVars, Stage
  <2>2. CASE training.state = "wave_clear" /\ ~UNCHANGED <<bots, training>>
    <3>1. /\ DOMAIN bots' = BotsOf(training.wave + 1)
          /\ training' = [wave |-> training.wave + 1, state |-> "fighting", timer |-> 0]
      BY <1>4, <2>2, PickCardMakes
    <3>2. training.wave \in Nat /\ training.wave # 0
      BY <2>0 DEF Stages
    <3>3. Stage = "choosing" /\ Stage' = "fighting"
      BY <2>0, <2>2, <3>1, <3>2 DEF Stage
    <3>4. PlayerIsUp' \in {PlayerIsUp, TRUE}
      BY <2>0, UpIsBoolean
    <3>5. W!NextWave
      BY <3>1, <3>3, <3>4 DEF W!NextWave, W!Begin
    <3> QED
      BY <3>5 DEF W!WavesNext
  <2> QED
    BY <1>4, <2>1, <2>2, PickCardMakes
<1>5. CASE UNCHANGED vars
  BY <1>5 DEF vars, W!waveVars, Stage, PlayerIsUp, Alive
<1>6. CASE (\E p \in Players, card \in DuelCards : LoserPicks(p, card)) \/ NextMatch
  <2>1. mode = "pvp" /\ UNCHANGED <<mode, bots, training>>
    BY <1>6 DEF LoserPicks, NextMatch, Stages
  <2> QED
    BY <2>1 DEF W!waveVars, Stage, PlayerIsUp
<1> QED
  BY <1>1, <1>2, <1>3, <1>4, <1>5, <1>6 DEF Next, TickStep

\* A training room takes the steps of the session only: whatever bullets,
\* bots and cards do, a wave is passed by bringing down every foe of it and
\* choosing a card, a player who lies while it lasts has it again with all of
\* its foes, and nothing but that and the card after a break raises him (the
\* safety part of ImplementsWaves; that the session goes on needs the
\* fairness of the tick).
THEOREM FightRefinesWaves == Spec => W!WavesInit /\ [][W!WavesNext]_(W!waveVars)
<1>1. Init => W!WavesInit
  BY InitIsWaves
<1> QED
  BY <1>1, StepIsWaves, StagesInvariant, PTL DEF Spec
=============================================================================
