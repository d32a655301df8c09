----------------------------- MODULE RankLadder -----------------------------
(***************************************************************************)
(* One player's way up and down the ladder: matches of apply_match against *)
(* rivals of any strength, and season changes (services/ranked.py).        *)
(***************************************************************************)
EXTENDS Ranked

CONSTANTS
  Rivals,        \* MMRs of the opponents
  ScoreToWin,    \* points that end a match
  MaxRr          \* bound: RR explored in Radiant, which has no upper end

ASSUME RivalsAssumption == Rivals \subseteq Mmrs
ASSUME LadderAssumption == ScoreToWin \in Nat \ {0} /\ MaxRr \in Nat

VARIABLES
  rank,       \* the RankState of the profile
  lastResult  \* history: how the last match of the season ended

ladderVars == <<rank, lastResult>>

\* Scores of me and my opponent: one of us reached the target and the other
\* did not, or somebody walked out before.
Finishes(won) ==
  {f \in (0 .. ScoreToWin) \X (0 .. ScoreToWin) :
     /\ f[1] < ScoreToWin \/ f[2] < ScoreToWin
     /\ f[1] = ScoreToWin => won
     /\ f[2] = ScoreToWin => ~won}

LadderInit == rank = NewRank /\ lastResult = "none"

Play(won) ==
  /\ \E rival \in Rivals : \E chance \in WinChances(rank.mmr, rival) :
     \E f \in Finishes(won) :
        rank' = ApplyMatch(rank, chance, won, f[1], f[2])
  /\ rank'.rr <= MaxRr
  /\ lastResult' = IF won THEN "won" ELSE "lost"

\* ensure_profile in the next season
NewSeason ==
  /\ rank' = SoftReset(rank)
  /\ lastResult' = "none"

LadderNext == (\E won \in BOOLEAN : Play(won)) \/ NewSeason

LadderSpec == LadderInit /\ [][LadderNext]_ladderVars

(***************************************************************************)
(* Properties                                                              *)
(***************************************************************************)

\* Every rank is one the table knows: tiers from the end of the placements
\* on, 0 to 99 RR below Radiant.
OnTheLadder ==
  /\ rank \in RankState
  /\ lastResult \in {"none", "won", "lost"}
  /\ rank.tier > 0 <=> rank.placements = PLACEMENT_MATCHES
  /\ rank.tier < RADIANT => rank.rr < 100

\* The shield is down only right after a loss that it absorbed: at 0 RR of a
\* division that has one below and one above it.
ShieldIsDownAtZero ==
  ~rank.shield =>
    rank.rr = 0 /\ rank.tier > 1 /\ rank.tier < RADIANT /\ lastResult = "lost"

LadderInv == OnTheLadder /\ ShieldIsDownAtZero

\* A demotion takes two losses in a row, the second one at 0 RR, and costs a
\* single division.
DemotionTakesTwoLosses ==
  [][rank'.tier < rank.tier /\ rank'.placements = PLACEMENT_MATCHES =>
       /\ lastResult = "lost" /\ lastResult' = "lost"
       /\ rank.rr = 0
       /\ rank'.tier = rank.tier - 1]_ladderVars

Higher(r, s) == r.tier > s.tier \/ (r.tier = s.tier /\ r.rr > s.rr)

\* Once placed, a win is always visible as a rise and a loss never is one,
\* whatever the hidden MMR and the scores say.
ResultsShow ==
  [][rank.placements = PLACEMENT_MATCHES /\ rank'.placements = PLACEMENT_MATCHES =>
       /\ lastResult' = "won" => Higher(rank', rank)
       /\ lastResult' = "lost" => ~Higher(rank', rank)]_ladderVars
=============================================================================
