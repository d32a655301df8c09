------------------------------- MODULE Waves -------------------------------
(***************************************************************************)
(* What a training session promises its player, without bullets, timers    *)
(* and hit points: waves of foes, each passed only by bringing down every  *)
(* foe of it and choosing a card, and fought from its beginning again by a *)
(* player who lies while it lasts.  Fight is shown to implement it.        *)
(***************************************************************************)
EXTENDS Naturals

CONSTANT FoesOf(_)   \* the foes of a wave

VARIABLES
  stage,   \* "none" in a room without waves
  wave,
  foes,    \* those of the wave that still stand
  up       \* the player stands

waveVars == <<stage, wave, foes, up>>

WavesInit ==
  /\ stage \in {"none", "ready"}
  /\ wave = 0
  /\ foes = {}
  /\ up = TRUE

\* Whatever else happens, it does not raise the player.
NobodyRises == up' \in {up, FALSE}

\* The player dies, at any time but while he chooses a card.
Die ==
  /\ stage # "choosing"
  /\ up /\ up' = FALSE
  /\ UNCHANGED <<stage, wave, foes>>

Begin(n) == stage' = "fighting" /\ wave' = n /\ foes' = FoesOf(n)

FirstWave == stage = "ready" /\ Begin(1) /\ NobodyRises

\* Foes fall; when none is left and the player stands, the wave is over.
Fall ==
  /\ stage = "fighting"
  /\ foes' \in SUBSET foes
  /\ up /\ up' = TRUE
  /\ stage' = IF foes' = {} THEN "break" ELSE "fighting"
  /\ UNCHANGED wave

\* A player who lies has lost the wave, even if the last foe fell with him.
Lose ==
  /\ stage = "fighting"
  /\ foes' \in SUBSET foes
  /\ up' = FALSE
  /\ stage' = "down"
  /\ UNCHANGED wave

\* The same wave, with all of its foes, for a player who stands again.
Again == stage = "down" /\ Begin(wave) /\ up' = TRUE

Offer == stage = "break" /\ stage' = "choosing" /\ NobodyRises /\ UNCHANGED <<wave, foes>>

\* The chosen card may raise a player who died in the break; if it does not,
\* he begins the wave lying, and has it again.
NextWave == stage = "choosing" /\ Begin(wave + 1) /\ up' \in {up, TRUE}

WavesNext == Die \/ FirstWave \/ Fall \/ Lose \/ Again \/ Offer \/ NextWave

\* The session starts, ends a lost wave, brings it back and offers the card
\* by itself.
WavesSpec ==
  /\ WavesInit /\ [][WavesNext]_waveVars
  /\ WF_waveVars(FirstWave) /\ WF_waveVars(~up /\ Lose)
  /\ WF_waveVars(Again) /\ WF_waveVars(Offer)
=============================================================================
