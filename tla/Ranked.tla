------------------------------- MODULE Ranked -------------------------------
(***************************************************************************)
(* The rank arithmetic of services/ranked.py: pure functions from the rank *)
(* of a player and the result of a match to the rank after it.  Elo's win  *)
(* probability enters as a percentage, any that is on the right side of    *)
(* one half.                                                               *)
(***************************************************************************)
EXTENDS Integers

CONSTANTS
  MAX_TIER,            \* tiers in the table; the last one is Radiant
  PLACEMENT_MATCHES,   \* matches before a tier is given
  MIN_MMR, MAX_MMR, BASE_MMR,
  MMR_AT_TIER_1,       \* where the table of tiers begins
  Chances              \* win probabilities in percent

ASSUME TableAssumption ==
  /\ MAX_TIER \in Nat \ {0}
  /\ PLACEMENT_MATCHES \in Nat \ {0}
ASSUME MmrAssumption ==
  /\ MIN_MMR \in Nat /\ MAX_MMR \in Nat /\ BASE_MMR \in MIN_MMR .. MAX_MMR
  /\ MMR_AT_TIER_1 \in Nat
ASSUME ChancesAssumption == Chances \subseteq 0 .. 100

RADIANT == MAX_TIER
MMR_PER_TIER == 40
K_PLACEMENT == 48
K_NORMAL == 24
BASE_WIN_RR == 20
BASE_LOSS_RR == -18
DOMINANCE_BONUS == 6
CLOSE_LOSS_RELIEF == 5
MMR_GAP_WEIGHT == 3
PLACEMENT_START_RR == 30
DEMOTION_RR == 80
PROMOTION_MIN_RR == 10

Tiers == 0 .. MAX_TIER
Mmrs == MIN_MMR .. MAX_MMR

RankState ==
  [mmr: Mmrs, tier: Tiers, rr: Nat, placements: 0 .. PLACEMENT_MATCHES, shield: BOOLEAN]

Clamp(v, lo, hi) == IF v < lo THEN lo ELSE IF v > hi THEN hi ELSE v
AtLeast(v, lo) == IF v < lo THEN lo ELSE v

\* round(n / d) of Python: ties go to the even neighbour
Round(n, d) ==
  LET q == n \div d
      r == 2 * (n % d)
  IN  IF r < d \/ (r = d /\ q % 2 = 0) THEN q ELSE q + 1

ExpectedTier(mmr) == Clamp(1 + (mmr - MMR_AT_TIER_1) \div MMR_PER_TIER, 1, MAX_TIER)

\* win_probability, symmetric about one half
WinChances(mine, theirs) ==
  {c \in Chances : /\ mine >= theirs => c >= 50
                   /\ mine <= theirs => c <= 50}

RrDelta(s, won, score, opponentScore) ==
  LET total == AtLeast(score + opponentScore, 1)
      gap   == MMR_GAP_WEIGHT * (ExpectedTier(s.mmr) - AtLeast(s.tier, 1))
  IN  IF won
      THEN Clamp(BASE_WIN_RR + Round((score - opponentScore) * DOMINANCE_BONUS, total)
                   + Clamp(gap, -8, 14), 10, 50)
      ELSE Clamp(BASE_LOSS_RR + Round(score * CLOSE_LOSS_RELIEF, total)
                   + Clamp(gap, -14, 8), -50, -10)

NextMmr(s, chance, won) ==
  LET k == IF s.placements < PLACEMENT_MATCHES THEN K_PLACEMENT ELSE K_NORMAL
  IN  Clamp(Round(100 * s.mmr + k * ((IF won THEN 100 ELSE 0) - chance), 100),
            MIN_MMR, MAX_MMR)

\* apply_match before the placements are over
Placement(s, mmr) ==
  LET placements == s.placements + 1
      done == placements = PLACEMENT_MATCHES
  IN  [mmr |-> mmr, placements |-> placements, shield |-> TRUE,
       tier |-> IF done THEN ExpectedTier(mmr) ELSE 0,
       rr |-> IF done THEN PLACEMENT_START_RR ELSE 0]

\* The rank s moved to another place on the ladder
At(s, tier, rr, shield) == [s EXCEPT !.tier = tier, !.rr = rr, !.shield = shield]

Promote(s, rr) == At(s, s.tier + 1, AtLeast(rr - 100, PROMOTION_MIN_RR), TRUE)

\* bug: nobody is saved by the shield
FallUnshielded(s) ==
  IF s.tier <= 1 THEN At(s, s.tier, 0, s.shield)
  ELSE At(s, s.tier - 1, DEMOTION_RR, TRUE)

\* bug: a demotion gives the RR back and keeps the division
FallOnTop(s) ==
  IF s.tier <= 1 THEN At(s, s.tier, 0, s.shield)
  ELSE IF s.shield THEN At(s, s.tier, 0, FALSE)
  ELSE At(s, s.tier, DEMOTION_RR, TRUE)

\* RR would be negative: Iron 1 has no floor below, the shield saves once.
Fall(s) ==
  IF s.tier <= 1 THEN At(s, s.tier, 0, s.shield)
  ELSE IF s.shield THEN At(s, s.tier, 0, FALSE)
  ELSE At(s, s.tier - 1, DEMOTION_RR, TRUE)

\* apply_match after the placements, the new RR being given
AddRr(s, rr) ==
  IF s.tier >= RADIANT THEN At(s, s.tier, AtLeast(rr, 0), s.shield)
  ELSE IF rr >= 100 THEN Promote(s, rr)
  ELSE IF rr < 0 THEN Fall(s)
  ELSE At(s, s.tier, rr, s.shield \/ rr > 0)

ApplyMatch(s, chance, won, score, opponentScore) ==
  LET mmr == NextMmr(s, chance, won)
  IN  IF s.placements < PLACEMENT_MATCHES
      THEN Placement(s, mmr)
      ELSE AddRr([s EXCEPT !.mmr = mmr], s.rr + RrDelta(s, won, score, opponentScore))

\* RankState() of a player without any season
NewRank ==
  [mmr |-> BASE_MMR, tier |-> 0, rr |-> 0, placements |-> 0, shield |-> TRUE]

SoftReset(s) ==
  [NewRank EXCEPT !.mmr = Clamp(Round(8 * s.mmr + 2 * BASE_MMR, 10), MIN_MMR, MAX_MMR)]
=============================================================================
