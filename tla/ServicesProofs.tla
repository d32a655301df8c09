--------------------------- MODULE ServicesProofs ---------------------------
(***************************************************************************)
(* What the services keep of the players.                                  *)
(*                                                                         *)
(* First the ladder, for every table of tiers, every range of MMR, every   *)
(* Elo and every score.  Then the ledger, for any number of accounts,      *)
(* items and transactions and any results: what overlapping transactions   *)
(* cannot break.                                                           *)
(***************************************************************************)
EXTENDS RankLadder, Ledger, TLAPS

(***************************************************************************)
(* The arithmetic                                                          *)
(***************************************************************************)

\* Rounding a fraction gives an integer.
LEMMA RoundType ==
  ASSUME NEW n \in Int, NEW d \in Nat \ {0}
  PROVE  Round(n, d) \in Int
<1>1. n \div d \in Int /\ n % d \in Int
  OBVIOUS
<1> QED BY <1>1 DEF Round

\* Every MMR points at a tier of the table.
LEMMA ExpectedTierType ==
  ASSUME NEW mmr \in Mmrs
  PROVE  ExpectedTier(mmr) \in 1 .. MAX_TIER
<1>1. (mmr - MMR_AT_TIER_1) \div MMR_PER_TIER \in Int
  BY MmrAssumption DEF Mmrs, MMR_PER_TIER
<1> QED BY <1>1, TableAssumption DEF ExpectedTier, Clamp

\* Whatever Elo expects, the MMR stays in its range.
LEMMA NextMmrType ==
  ASSUME NEW s \in RankState, NEW chance \in 0 .. 100, NEW won \in BOOLEAN
  PROVE  NextMmr(s, chance, won) \in Mmrs
<1> DEFINE k == IF s.placements < PLACEMENT_MATCHES THEN K_PLACEMENT ELSE K_NORMAL
           moved == 100 * s.mmr + k * ((IF won THEN 100 ELSE 0) - chance)
<1>1. k \in {24, 48} /\ s.mmr \in Int
  BY MmrAssumption DEF K_PLACEMENT, K_NORMAL, RankState, Mmrs
<1>2. (IF won THEN 100 ELSE 0) - chance \in Int
  OBVIOUS
<1>3. moved \in Int
  BY <1>1, <1>2
<1> HIDE DEF moved
<1>4. Round(moved, 100) \in Int
  BY <1>3, RoundType
<1>5. NextMmr(s, chance, won) = Clamp(Round(moved, 100), MIN_MMR, MAX_MMR)
  BY DEF NextMmr, moved
<1> QED BY <1>4, <1>5, MmrAssumption DEF Clamp, Mmrs

\* A win is worth 10 to 50 RR and a loss costs 10 to 50, whatever the scores
\* and the gap between skill and tier.
LEMMA RrDeltaRange ==
  ASSUME NEW s \in RankState, NEW won \in BOOLEAN, NEW mine \in Nat, NEW theirs \in Nat
  PROVE  /\ won => RrDelta(s, won, mine, theirs) \in 10 .. 50
         /\ ~won => RrDelta(s, won, mine, theirs) \in -50 .. -10
<1> DEFINE total == AtLeast(mine + theirs, 1)
           gap == MMR_GAP_WEIGHT * (ExpectedTier(s.mmr) - AtLeast(s.tier, 1))
           gained == Round((mine - theirs) * DOMINANCE_BONUS, total)
           saved == Round(mine * CLOSE_LOSS_RELIEF, total)
<1>1. total \in Nat \ {0}
  BY DEF AtLeast
<1>2. gap \in Int
  <2>1. ExpectedTier(s.mmr) \in Int /\ AtLeast(s.tier, 1) \in Int
    BY ExpectedTierType, TableAssumption DEF RankState, AtLeast, Tiers
  <2> QED BY <2>1 DEF MMR_GAP_WEIGHT
<1>3. gained \in Int /\ saved \in Int
  <2> HIDE DEF total
  <2>1. (mine - theirs) * DOMINANCE_BONUS \in Int /\ mine * CLOSE_LOSS_RELIEF \in Int
    BY DEF DOMINANCE_BONUS, CLOSE_LOSS_RELIEF
  <2> QED BY <2>1, <1>1, RoundType
<1>4. RrDelta(s, won, mine, theirs) =
        IF won THEN Clamp(BASE_WIN_RR + gained + Clamp(gap, -8, 14), 10, 50)
               ELSE Clamp(BASE_LOSS_RR + saved + Clamp(gap, -14, 8), -50, -10)
  BY DEF RrDelta
<1> HIDE DEF gap, gained, saved, total
<1>5. Clamp(gap, -8, 14) \in Int /\ Clamp(gap, -14, 8) \in Int
  BY <1>2 DEF Clamp
<1>6. /\ BASE_WIN_RR + gained + Clamp(gap, -8, 14) \in Int
      /\ BASE_LOSS_RR + saved + Clamp(gap, -14, 8) \in Int
  BY <1>3, <1>5 DEF BASE_WIN_RR, BASE_LOSS_RR
<1>7. /\ Clamp(BASE_WIN_RR + gained + Clamp(gap, -8, 14), 10, 50) \in 10 .. 50
      /\ Clamp(BASE_LOSS_RR + saved + Clamp(gap, -14, 8), -50, -10) \in -50 .. -10
  BY <1>6 DEF Clamp
<1> QED BY <1>4, <1>7

(***************************************************************************)
(* The steps                                                               *)
(***************************************************************************)

\* What is on the ladder besides the history: OnTheLadder and the shield's
\* place, of one rank.
Sound(s) ==
  /\ s \in RankState
  /\ s.tier > 0 <=> s.placements = PLACEMENT_MATCHES
  /\ s.tier < RADIANT => s.rr < 100
  /\ ~s.shield => s.rr = 0 /\ s.tier > 1 /\ s.tier < RADIANT

\* A placement match gives a tier exactly when it is the last one.
LEMMA PlacementSound ==
  ASSUME NEW s, Sound(s), s.placements < PLACEMENT_MATCHES, NEW mmr \in Mmrs
  PROVE  Sound(Placement(s, mmr)) /\ Placement(s, mmr).shield
BY ExpectedTierType, TableAssumption
DEF Sound, Placement, RankState, Tiers, PLACEMENT_START_RR

\* The two ways to move on the ladder.
Up(s, tier, rr) == At(s, tier, rr, TRUE)
Down(s, tier, rr) == At(s, tier, rr, FALSE)

\* Moving with the shield up changes tier and RR only.
LEMMA UpFields ==
  ASSUME NEW s \in RankState, NEW tier \in Tiers, NEW rr \in Nat
  PROVE  /\ Up(s, tier, rr) \in RankState
         /\ Up(s, tier, rr).tier = tier
         /\ Up(s, tier, rr).rr = rr
         /\ Up(s, tier, rr).shield
         /\ Up(s, tier, rr).placements = s.placements
BY Zenon DEF Up, At, RankState

\* So does moving with the shield down.
LEMMA DownFields ==
  ASSUME NEW s \in RankState, NEW tier \in Tiers, NEW rr \in Nat
  PROVE  /\ Down(s, tier, rr) \in RankState
         /\ Down(s, tier, rr).tier = tier
         /\ Down(s, tier, rr).rr = rr
         /\ Down(s, tier, rr).placements = s.placements
BY Zenon DEF Down, At, RankState

\* RR moves a placed player as a win or a loss should.
LEMMA AddRrSteps ==
  ASSUME NEW s, Sound(s), s.placements = PLACEMENT_MATCHES,
         NEW delta \in (-50 .. -10) \cup (10 .. 50)
  PROVE  LET t == AddRr(s, s.rr + delta)
         IN  /\ Sound(t) /\ t.placements = PLACEMENT_MATCHES
             /\ delta > 0 => Higher(t, s) /\ t.shield
             /\ delta < 0 => ~Higher(t, s)
             /\ t.tier < s.tier => t.tier = s.tier - 1 /\ s.rr = 0 /\ ~s.shield /\ delta < 0
<1>1. /\ s \in RankState /\ s.tier \in 1 .. MAX_TIER /\ s.rr \in Nat
      /\ s.tier < MAX_TIER => s.rr < 100
      /\ s.placements \in 0 .. PLACEMENT_MATCHES /\ s.shield \in BOOLEAN
      /\ MAX_TIER \in Nat /\ RADIANT = MAX_TIER
  BY TableAssumption DEF Sound, RankState, Tiers, RADIANT
<1>s. s \in RankState
  BY DEF Sound
<1>b. s.shield \in BOOLEAN /\ TRUE \in BOOLEAN /\ FALSE \in BOOLEAN
  BY <1>s, Zenon DEF RankState
<1> DEFINE rr == s.rr + delta
           t == AddRr(s, rr)
<1>2. rr \in Int
  BY <1>1
<1> SUFFICES /\ Sound(t) /\ t.placements = PLACEMENT_MATCHES
             /\ delta > 0 => Higher(t, s) /\ t.shield
             /\ delta < 0 => ~Higher(t, s)
             /\ t.tier < s.tier => t.tier = s.tier - 1 /\ s.rr = 0 /\ ~s.shield /\ delta < 0
  OBVIOUS
<1> HIDE DEF rr
<1>3. CASE s.tier >= RADIANT
  <2>1. /\ AtLeast(rr, 0) \in Nat
        /\ delta > 0 => AtLeast(rr, 0) > s.rr
        /\ delta < 0 => AtLeast(rr, 0) <= s.rr
    BY <1>1 DEF AtLeast, rr
  <2>2. s.shield /\ s.tier \in Tiers
    BY <1>1, <1>3 DEF Sound, Tiers
  <2>3. t = Up(s, s.tier, AtLeast(rr, 0))
    <3>1. t = At(s, s.tier, AtLeast(rr, 0), s.shield)
      BY <1>3, Zenon DEF AddRr
    <3>2. s.shield = TRUE
      BY <1>b, <2>2, Zenon
    <3> QED BY <3>1, <3>2, Zenon DEF Up
  <2> HIDE DEF t
  <2>4. /\ t \in RankState /\ t.tier = s.tier /\ t.rr = AtLeast(rr, 0)
        /\ t.shield /\ t.placements = s.placements
    BY <1>s, <2>1, <2>2, <2>3, UpFields
  <2> QED BY <1>1, <1>3, <2>1, <2>4 DEF Sound, Higher
<1>4. CASE s.tier < RADIANT /\ rr >= 100
  <2>1. AtLeast(rr - 100, PROMOTION_MIN_RR) \in 0 .. 99 /\ delta > 0
    BY <1>1, <1>4 DEF AtLeast, PROMOTION_MIN_RR, rr
  <2>2. s.tier + 1 \in Tiers
    BY <1>1, <1>4 DEF Tiers
  <2>3. t = Up(s, s.tier + 1, AtLeast(rr - 100, PROMOTION_MIN_RR))
    <3>1. ~(s.tier >= RADIANT)
      BY <1>1, <1>4
    <3> QED BY <1>4, <3>1, Zenon DEF AddRr, Promote, Up
  <2> HIDE DEF t
  <2>4. /\ t \in RankState /\ t.tier = s.tier + 1 /\ t.rr \in 0 .. 99
        /\ t.shield /\ t.placements = s.placements
    <3> DEFINE kept == AtLeast(rr - 100, PROMOTION_MIN_RR)
               next == s.tier + 1
    <3>1. kept \in Nat /\ kept \in 0 .. 99
      BY <2>1
    <3>2. next \in Tiers /\ t = Up(s, next, kept)
      BY <2>2, <2>3, Zenon
    <3> HIDE DEF kept, next
    <3>3. /\ Up(s, next, kept) \in RankState /\ Up(s, next, kept).tier = next
          /\ Up(s, next, kept).rr = kept /\ Up(s, next, kept).shield
          /\ Up(s, next, kept).placements = s.placements
      BY <1>s, <3>1, <3>2, UpFields, Zenon
    <3>4. /\ t \in RankState /\ t.tier = next /\ t.rr \in 0 .. 99
          /\ t.shield /\ t.placements = s.placements
      BY <3>1, <3>2, <3>3, Zenon
    <3> QED BY <3>4, Zenon DEF next
  <2> QED BY <1>1, <1>4, <2>1, <2>4 DEF Sound, Higher
<1>5. CASE s.tier < RADIANT /\ rr < 0
  <2>1. t = Fall(s) /\ delta < 0
    BY <1>1, <1>2, <1>5 DEF AddRr, rr
  <2>2. CASE s.tier <= 1
    <3>1. s.shield /\ s.tier \in Tiers
      BY <1>1, <2>2 DEF Sound, Tiers
    <3>2. t = Up(s, s.tier, 0)
      <4>1. t = At(s, s.tier, 0, s.shield)
        BY <2>1, <2>2, Zenon DEF Fall
      <4>2. s.shield = TRUE
        BY <1>b, <3>1, Zenon
      <4> QED BY <4>1, <4>2, Zenon DEF Up
    <3> HIDE DEF t
    <3>3. /\ t \in RankState /\ t.tier = s.tier /\ t.rr = 0
          /\ t.shield /\ t.placements = s.placements
      BY <1>s, <3>1, <3>2, UpFields
    <3> QED BY <1>1, <1>5, <2>1, <2>2, <3>3 DEF Sound, Higher
  <2>3. CASE s.tier > 1 /\ s.shield
    <3>1. t = Down(s, s.tier, 0)
      <4>1. ~(s.tier <= 1)
        BY <1>1, <2>3
      <4> QED BY <2>1, <2>3, <4>1, Zenon DEF Fall, Down
    <3>2. s.tier \in Tiers
      BY <1>1 DEF Tiers
    <3> HIDE DEF t
    <3>3. /\ t \in RankState /\ t.tier = s.tier /\ t.rr = 0
          /\ t.placements = s.placements
      BY <1>s, <3>1, <3>2, DownFields
    <3> QED BY <1>1, <1>5, <2>1, <2>3, <3>3 DEF Sound, Higher
  <2>4. CASE s.tier > 1 /\ ~s.shield
    <3>1. t = Up(s, s.tier - 1, 80)
      <4>1. ~(s.tier <= 1)
        BY <1>1, <2>4
      <4> QED BY <2>1, <2>4, <4>1, Zenon DEF Fall, DEMOTION_RR, Up
    <3>2. s.tier - 1 \in Tiers /\ s.rr = 0
      BY <1>1, <2>4 DEF Sound, Tiers
    <3> HIDE DEF t
    <3>3. /\ t \in RankState /\ t.tier = s.tier - 1 /\ t.rr = 80
          /\ t.shield /\ t.placements = s.placements
      <4> DEFINE next == s.tier - 1
                 left == 80
      <4>1. next \in Tiers /\ t = Up(s, next, left)
        BY <3>1, <3>2, Zenon
      <4>2. left \in Nat
        OBVIOUS
      <4> HIDE DEF next, left
      <4>3. /\ Up(s, next, left) \in RankState /\ Up(s, next, left).tier = next
            /\ Up(s, next, left).rr = left /\ Up(s, next, left).shield
            /\ Up(s, next, left).placements = s.placements
        BY <1>s, <4>1, <4>2, UpFields, Zenon
      <4>4. /\ t \in RankState /\ t.tier = next /\ t.rr = left
            /\ t.shield /\ t.placements = s.placements
        BY <4>1, <4>3, Zenon
      <4> QED BY <4>4, Zenon DEF next, left
    <3> QED BY <1>1, <1>5, <2>1, <2>4, <3>2, <3>3 DEF Sound, Higher
  <2> QED BY <1>1, <2>2, <2>3, <2>4
<1>6. CASE s.tier < RADIANT /\ rr >= 0 /\ rr < 100
  <2>1. /\ s.shield \/ rr > 0
        /\ delta > 0 => rr > s.rr
        /\ delta < 0 => rr < s.rr
    BY <1>1, <1>6 DEF Sound, rr
  <2>2. s.tier \in Tiers /\ rr \in Nat
    BY <1>1, <1>2, <1>6 DEF Tiers
  <2>3. t = Up(s, s.tier, rr)
    <3>1. ~(s.tier >= RADIANT) /\ ~(rr >= 100) /\ ~(rr < 0)
      BY <1>1, <1>2, <1>6
    <3>2. t = At(s, s.tier, rr, s.shield \/ rr > 0)
      BY <3>1, Zenon DEF AddRr
    <3>3. (s.shield \/ rr > 0) = TRUE
      BY <2>1, Zenon
    <3> QED BY <3>2, <3>3, Zenon DEF Up
  <2> HIDE DEF t
  <2>4. /\ t \in RankState /\ t.tier = s.tier /\ t.rr = rr
        /\ t.shield /\ t.placements = s.placements
    BY <1>s, <2>2, <2>3, UpFields
  <2> QED BY <1>1, <1>2, <1>6, <2>1, <2>4 DEF Sound, Higher
<1> QED BY <1>1, <1>2, <1>3, <1>4, <1>5, <1>6

\* A match leaves a sound rank, and a placed player moves as it ended.
LEMMA PlaySteps ==
  ASSUME Sound(rank), NEW won \in BOOLEAN, Play(won)
  PROVE  /\ Sound(rank')
         /\ won => rank'.shield
         /\ rank.placements = PLACEMENT_MATCHES =>
              /\ won => Higher(rank', rank)
              /\ ~won => ~Higher(rank', rank)
              /\ rank'.tier < rank.tier =>
                   ~won /\ rank'.tier = rank.tier - 1 /\ rank.rr = 0 /\ ~rank.shield
<1>0. PICK rival \in Rivals : \E chance \in WinChances(rank.mmr, rival) :
        \E f \in Finishes(won) : rank' = ApplyMatch(rank, chance, won, f[1], f[2])
  BY DEF Play
<1>1. PICK chance \in WinChances(rank.mmr, rival), f \in Finishes(won) :
        rank' = ApplyMatch(rank, chance, won, f[1], f[2])
  BY <1>0
<1>2. /\ rank \in RankState /\ rank.placements \in 0 .. PLACEMENT_MATCHES
      /\ chance \in 0 .. 100 /\ f[1] \in Nat /\ f[2] \in Nat
  BY ChancesAssumption, LadderAssumption DEF Sound, RankState, WinChances, Finishes
<1> DEFINE mmr == NextMmr(rank, chance, won)
           delta == RrDelta(rank, won, f[1], f[2])
           s == [rank EXCEPT !.mmr = mmr]
<1>3. mmr \in Mmrs
  BY <1>2, NextMmrType
<1>4. /\ won => delta \in 10 .. 50
      /\ ~won => delta \in -50 .. -10
  BY <1>2, RrDeltaRange
<1>5. rank' = IF rank.placements < PLACEMENT_MATCHES
              THEN Placement(rank, mmr) ELSE AddRr(s, rank.rr + delta)
  BY <1>1 DEF ApplyMatch
<1> HIDE DEF mmr, delta
<1>6. CASE rank.placements < PLACEMENT_MATCHES
  BY <1>2, <1>3, <1>5, <1>6, PlacementSound, TableAssumption
<1>7. CASE rank.placements = PLACEMENT_MATCHES
  <2>1. /\ Sound(s) /\ s.placements = PLACEMENT_MATCHES
        /\ s.tier = rank.tier /\ s.rr = rank.rr /\ s.shield = rank.shield
    BY <1>2, <1>3, <1>7 DEF Sound, RankState
  <2> HIDE DEF s
  <2>2. rank' = AddRr(s, s.rr + delta) /\ delta \in (-50 .. -10) \cup (10 .. 50)
    BY <1>4, <1>5, <1>7, <2>1, TableAssumption
  <2>3. /\ Sound(rank')
        /\ delta > 0 => Higher(rank', s) /\ rank'.shield
        /\ delta < 0 => ~Higher(rank', s)
        /\ rank'.tier < s.tier => rank'.tier = s.tier - 1 /\ s.rr = 0 /\ ~s.shield /\ delta < 0
    BY <2>1, <2>2, AddRrSteps
  <2>4. /\ won => delta > 0
        /\ ~won => delta < 0
    BY <1>4
  <2>5. Higher(rank', s) <=> Higher(rank', rank)
    BY <2>1 DEF Higher
  <2> QED BY <2>1, <2>3, <2>4, <2>5
<1> QED BY <1>2, <1>6, <1>7, TableAssumption

\* A new season starts below the ladder.
LEMMA SeasonSound ==
  ASSUME Sound(rank), NewSeason
  PROVE  Sound(rank') /\ rank'.shield /\ rank'.placements = 0 /\ rank'.tier = 0
<1>1. rank.mmr \in Int /\ BASE_MMR \in Int
  BY MmrAssumption DEF Sound, RankState, Mmrs
<1>2. Round(8 * rank.mmr + 2 * BASE_MMR, 10) \in Int
  <2>1. 8 * rank.mmr + 2 * BASE_MMR \in Int
    BY <1>1
  <2> QED BY <2>1, RoundType
<1>3. Clamp(Round(8 * rank.mmr + 2 * BASE_MMR, 10), MIN_MMR, MAX_MMR) \in Mmrs
  BY <1>2, MmrAssumption DEF Clamp, Mmrs
<1> DEFINE mmr == Clamp(Round(8 * rank.mmr + 2 * BASE_MMR, 10), MIN_MMR, MAX_MMR)
<1>4. rank' = [mmr |-> mmr, tier |-> 0, rr |-> 0, placements |-> 0, shield |-> TRUE]
  BY DEF NewSeason, SoftReset, NewRank
<1> HIDE DEF mmr
<1> QED BY <1>3, <1>4, TableAssumption DEF Sound, RankState, Tiers, RADIANT, mmr

(***************************************************************************)
(* The theorems                                                            *)
(***************************************************************************)

\* The invariant in the form the induction uses.
LEMMA InvIsSound ==
  LadderInv <=>
    /\ Sound(rank)
    /\ lastResult \in {"none", "won", "lost"}
    /\ ~rank.shield => lastResult = "lost"
BY DEF LadderInv, OnTheLadder, ShieldIsDownAtZero, Sound

\* It holds initially and every match and season change preserves it.
LEMMA LadderInduction ==
  /\ LadderInit => LadderInv
  /\ LadderInv /\ [LadderNext]_ladderVars => LadderInv'
<1>1. LadderInit => LadderInv
  BY InvIsSound, TableAssumption, MmrAssumption
  DEF LadderInit, NewRank, Sound, RankState, Tiers, Mmrs, RADIANT
<1>2. ASSUME LadderInv, NEW won \in BOOLEAN, Play(won) PROVE LadderInv'
  <2>1. Sound(rank') /\ (won => rank'.shield)
    BY <1>2, PlaySteps, InvIsSound
  <2>2. lastResult' = IF won THEN "won" ELSE "lost"
    BY <1>2 DEF Play
  <2> QED BY <2>1, <2>2 DEF LadderInv, OnTheLadder, ShieldIsDownAtZero, Sound
<1>3. ASSUME LadderInv, NewSeason PROVE LadderInv'
  BY <1>3, SeasonSound, InvIsSound
  DEF NewSeason, LadderInv, OnTheLadder, ShieldIsDownAtZero, Sound
<1>4. LadderInv /\ UNCHANGED ladderVars => LadderInv'
  BY DEF LadderInv, OnTheLadder, ShieldIsDownAtZero, ladderVars
<1> QED BY <1>1, <1>2, <1>3, <1>4 DEF LadderNext

\* The invariant of the ladder is one.
LEMMA LadderInvariant == LadderSpec => []LadderInv
BY LadderInduction, PTL DEF LadderSpec

\* Ranks stay in the table, with 0 to 99 RR below Radiant (apply_match).
THEOREM RanksStayOnTheLadder == LadderSpec => []OnTheLadder
<1>1. LadderInv => OnTheLadder
  BY DEF LadderInv
<1> QED BY <1>1, LadderInvariant, PTL

\* The demotion shield is down only at 0 RR after a loss.
THEOREM ShieldGoesDownAtZero == LadderSpec => []ShieldIsDownAtZero
<1>1. LadderInv => ShieldIsDownAtZero
  BY DEF LadderInv
<1> QED BY <1>1, LadderInvariant, PTL

\* Nobody is demoted but by two losses in a row, by one division.
THEOREM DemotionIsSlow == LadderSpec => DemotionTakesTwoLosses
<1> DEFINE A == (rank'.tier < rank.tier /\ rank'.placements = PLACEMENT_MATCHES) =>
                  /\ lastResult = "lost" /\ lastResult' = "lost"
                  /\ rank.rr = 0
                  /\ rank'.tier = rank.tier - 1
<1>1. ASSUME LadderInv, NEW won \in BOOLEAN, Play(won) PROVE A
  <2>1. CASE rank.placements = PLACEMENT_MATCHES
    <3>1. rank'.tier < rank.tier =>
            ~won /\ rank'.tier = rank.tier - 1 /\ rank.rr = 0 /\ ~rank.shield
      BY <1>1, <2>1, PlaySteps, InvIsSound
    <3> QED BY <1>1, <3>1, InvIsSound DEF Play
  <2>2. CASE rank.placements # PLACEMENT_MATCHES
    <3>1. rank.tier = 0 /\ rank'.tier \in Nat
      BY <1>1, <2>2, PlaySteps, InvIsSound, TableAssumption DEF Sound, RankState, Tiers
    <3> QED BY <3>1
  <2> QED BY <2>1, <2>2
<1>2. ASSUME LadderInv, NewSeason PROVE A
  BY <1>2, SeasonSound, InvIsSound, TableAssumption
<1>3. LadderInv /\ [LadderNext]_ladderVars => [A]_ladderVars
  BY <1>1, <1>2 DEF LadderNext
<1> QED BY <1>3, LadderInvariant, PTL DEF LadderSpec, DemotionTakesTwoLosses

\* A placed player sees every win as a rise and no loss as one.
THEOREM ResultsAreVisible == LadderSpec => ResultsShow
<1> DEFINE A == (rank.placements = PLACEMENT_MATCHES /\ rank'.placements = PLACEMENT_MATCHES) =>
                  /\ lastResult' = "won" => Higher(rank', rank)
                  /\ lastResult' = "lost" => ~Higher(rank', rank)
<1>1. ASSUME LadderInv, NEW won \in BOOLEAN, Play(won) PROVE A
  BY <1>1, PlaySteps, InvIsSound DEF Play
<1>2. ASSUME LadderInv, NewSeason PROVE A
  BY <1>2, SeasonSound, InvIsSound, TableAssumption
<1>3. LadderInv /\ [LadderNext]_ladderVars => [A]_ladderVars
  BY <1>1, <1>2 DEF LadderNext
<1> QED BY <1>3, LadderInvariant, PTL DEF LadderSpec, ResultsShow

(***************************************************************************)
(* Steps that write no account                                             *)
(***************************************************************************)

\* What reading, waiting for a profile and asking have in common.
Quiet(t) ==
  /\ UNCHANGED <<account, accountNew, accountLock, owned, rows, answer, inserted>>
  /\ pc[t] \notin {"commit", "done", "failed"}
  /\ pc'[t] \notin {"commit", "done", "failed"}
  /\ pc[t] = "rank" => pc'[t] = "counters"
  /\ pc[t] # "counters"
  /\ pc'[t] = "buy" => /\ job'[t] \in Purchases
                       /\ seenCoins'[t] = account[job'[t].buyer].coins
  /\ \A u \in Tx : u # t =>
       pc'[u] = pc[u] /\ job'[u] = job[u] /\ seenCoins'[u] = seenCoins[u]
  /\ pc[t] # "idle" => job'[t] = job[t]

\* They preserve the invariant, as far as the types do not say so already.
LEMMA QuietPreserves ==
  ASSUME LedgerInv, NEW t \in Tx, Quiet(t), LedgerTypeOK', JobsAreRun'
  PROVE  LedgerInv'
<1>1. LocksAreLive'
  BY DEF LedgerInv, LocksAreLive, Quiet
<1>2. DraftsAreCounted'
  BY DEF LedgerInv, DraftsAreCounted, Quiet
<1>3. SightsWereTrue'
  <2> SUFFICES ASSUME NEW u \in Tx, pc'[u] = "buy"
               PROVE  seenCoins'[u] \in 0 .. Seed + rows'[job'[u].buyer].coins
    BY DEF SightsWereTrue
  <2>1. CASE u = t
    BY <2>1 DEF LedgerInv, CoinsStayLegal, Quiet, Purchases
  <2>2. CASE u # t
    BY <2>2 DEF LedgerInv, SightsWereTrue, Quiet
  <2> QED BY <2>1, <2>2
<1>4. SalesAreExclusive'
  BY DEF LedgerInv, SalesAreExclusive, Quiet
<1>5. CoinsStayLegal' /\ MatchesAreCounted'
  BY DEF LedgerInv, CoinsStayLegal, MatchesAreCounted, Quiet
<1>6. SoldOnce'
  BY DEF LedgerInv, SoldOnce, Sold, Quiet
<1> QED BY <1>1, <1>2, <1>3, <1>4, <1>5, <1>6 DEF LedgerInv

\* A token is resolved and the balance read.
LEMMA AskPreserves ==
  ASSUME LedgerInv, NEW t \in Tx, NEW p \in Purchases, Ask(t, p)
  PROVE  LedgerInv'
<1>1. LedgerTypeOK'
  BY DEF LedgerInv, LedgerTypeOK, Ask, Move, tableVars, accountVars, profileVars,
         seasonVars, Pcs, RankPcs, Purchases, AccountRows
<1>2. JobsAreRun'
  BY DEF LedgerInv, LedgerTypeOK, JobsAreRun, Ask, Move, RankPcs
<1>3. Quiet(t)
  BY DEF LedgerInv, LedgerTypeOK, Ask, Move, Quiet, tableVars, accountVars
<1> QED BY <1>1, <1>2, <1>3, QuietPreserves

\* A result arrives.
LEMMA ReportPreserves ==
  ASSUME LedgerInv, NEW t \in Tx, NEW r \in Results, Report(t, r)
  PROVE  LedgerInv'
<1>1. LedgerTypeOK'
  BY DEF LedgerInv, LedgerTypeOK, Report, Move, tableVars, accountVars, profileVars,
         seasonVars, Pcs, RankPcs
<1>2. JobsAreRun'
  <2>1. 1 \in 1 .. Len(r.who)
    BY ResultsAssumption
  <2> QED BY <2>1 DEF LedgerInv, LedgerTypeOK, JobsAreRun, Report, Move, RankPcs
<1>3. Quiet(t)
  BY DEF LedgerInv, LedgerTypeOK, Report, Move, Quiet, tableVars, accountVars
<1> QED BY <1>1, <1>2, <1>3, QuietPreserves

\* What the slot of a running result is.
LEMMA SlotType ==
  ASSUME LedgerInv, NEW t \in Tx, pc[t] \in RankPcs \cup {"counters"}
  PROVE  /\ job[t] \in Results /\ Slot(t) \in Accounts
         /\ slot[t] \in 1 .. Len(job[t].who) /\ Len(job[t].who) \in Nat \ {0}
         /\ ~LastSlot(t) => slot[t] + 1 \in 1 .. Len(job[t].who)
         /\ job[t].coins[slot[t]] \in Nat
<1>1. job[t] \in Results /\ slot[t] \in 1 .. Len(job[t].who)
  BY DEF LedgerInv, JobsAreRun
<1>2. /\ job[t].who \in Seq(Accounts) /\ job[t].coins \in Seq(Nat)
      /\ Len(job[t].coins) = Len(job[t].who) /\ Len(job[t].who) > 0
  BY <1>1, ResultsAssumption
<1>3. Len(job[t].who) \in Nat
  BY <1>2
<1> QED BY <1>1, <1>2, <1>3 DEF Slot, LastSlot

\* The season is looked up.
LEMMA ReadSeasonPreserves ==
  ASSUME LedgerInv, NEW t \in Tx, ReadSeason(t)
  PROVE  LedgerInv'
<1>1. LedgerTypeOK'
  BY DEF LedgerInv, LedgerTypeOK, ReadSeason, Move, tableVars, accountVars, profileVars,
         seasonVars, Pcs, RankPcs
<1>2. JobsAreRun'
  BY DEF LedgerInv, LedgerTypeOK, JobsAreRun, ReadSeason, Move, RankPcs
<1>3. Quiet(t)
  BY DEF LedgerInv, LedgerTypeOK, ReadSeason, Move, Quiet, tableVars, accountVars
<1> QED BY <1>1, <1>2, <1>3, QuietPreserves

\* A profile of a slot is at hand.
LEMMA HasProfileMoves ==
  ASSUME LedgerInv, NEW t \in Tx, pc[t] \in {"profile", "newProfile"},
         NEW n \in Int, HasProfile(t, n)
  PROVE  /\ pc' \in [Tx -> Pcs] /\ slot' \in [Tx -> Nat]
         /\ seenGames' \in [Tx -> [Accounts -> Int]]
         /\ pc'[t] \in {"rank", "profile"}
         /\ slot'[t] \in 1 .. Len(job[t].who)
         /\ \A u \in Tx : u # t => pc'[u] = pc[u] /\ slot'[u] = slot[u]
         /\ UNCHANGED <<job, answer, seenCoins, inserted>>
<1>1. /\ Slot(t) \in Accounts /\ slot[t] \in 1 .. Len(job[t].who)
      /\ Len(job[t].who) \in Nat \ {0}
      /\ ~LastSlot(t) => slot[t] + 1 \in 1 .. Len(job[t].who)
  BY SlotType DEF RankPcs
<1>2. /\ pc \in [Tx -> Pcs] /\ slot \in [Tx -> Nat] /\ seenGames \in [Tx -> [Accounts -> Int]]
  BY DEF LedgerInv, LedgerTypeOK
<1>3. seenGames' \in [Tx -> [Accounts -> Int]]
  BY <1>1, <1>2 DEF HasProfile
<1>4. /\ slot' = [slot EXCEPT ![t] = IF LastSlot(t) THEN 1 ELSE slot[t] + 1]
      /\ pc' = [pc EXCEPT ![t] = IF LastSlot(t) THEN "rank" ELSE "profile"]
      /\ UNCHANGED <<job, answer, seenCoins, inserted>>
  BY DEF HasProfile, Move
<1>5. slot'[t] \in 1 .. Len(job[t].who) /\ slot'[t] \in Nat
  BY <1>1, <1>2, <1>4
<1>6. pc'[t] \in {"rank", "profile"}
  BY <1>2, <1>4
<1> QED BY <1>2, <1>3, <1>4, <1>5, <1>6 DEF Pcs, RankPcs

\* A profile is looked up.
LEMMA ReadProfilePreserves ==
  ASSUME LedgerInv, NEW t \in Tx, ReadProfile(t)
  PROVE  LedgerInv'
<1>0. UNCHANGED tableVars /\ pc[t] = "profile"
  BY DEF ReadProfile
<1>1. CASE games[Slot(t)] # NoProfile
  <2>1. HasProfile(t, games[Slot(t)]) /\ games[Slot(t)] \in Int
    BY <1>0, <1>1, SlotType DEF ReadProfile, LedgerInv, LedgerTypeOK, RankPcs
  <2>2. /\ pc' \in [Tx -> Pcs] /\ slot' \in [Tx -> Nat]
        /\ seenGames' \in [Tx -> [Accounts -> Int]]
        /\ pc'[t] \in {"rank", "profile"}
        /\ slot'[t] \in 1 .. Len(job[t].who)
        /\ \A u \in Tx : u # t => pc'[u] = pc[u] /\ slot'[u] = slot[u]
        /\ UNCHANGED <<job, answer, seenCoins, inserted>>
    BY <1>0, <2>1, HasProfileMoves
  <2>3. LedgerTypeOK'
    BY <1>0, <2>2 DEF LedgerInv, LedgerTypeOK, tableVars, accountVars, profileVars, seasonVars
  <2>4. JobsAreRun'
    BY <1>0, <2>2 DEF LedgerInv, JobsAreRun, RankPcs
  <2>5. Quiet(t)
    BY <1>0, <2>2 DEF Quiet, tableVars, accountVars
  <2> QED BY <2>3, <2>4, <2>5, QuietPreserves
<1>2. CASE games[Slot(t)] = NoProfile
  <2>1. /\ pc' = [pc EXCEPT ![t] = "newProfile"]
        /\ UNCHANGED <<job, answer, slot, seenCoins, seenGames, inserted>>
    BY <1>2 DEF ReadProfile, Move
  <2>3. LedgerTypeOK'
    BY <1>0, <2>1 DEF LedgerInv, LedgerTypeOK, tableVars, accountVars, profileVars,
                      seasonVars, Pcs, RankPcs
  <2>4. JobsAreRun'
    BY <1>0, <2>1 DEF LedgerInv, LedgerTypeOK, JobsAreRun, RankPcs
  <2>5. Quiet(t)
    BY <1>0, <2>1 DEF Quiet, LedgerInv, LedgerTypeOK, tableVars, accountVars
  <2> QED BY <2>3, <2>4, <2>5, QuietPreserves
<1> QED BY <1>1, <1>2

\* A profile is written back.
LEMMA WriteProfilePreserves ==
  ASSUME LedgerInv, NEW t \in Tx, WriteProfile(t)
  PROVE  LedgerInv'
<1>0. pc[t] = "rank" /\ Slot(t) \in Accounts
  BY SlotType DEF WriteProfile, RankPcs
<1>1. LedgerTypeOK'
  <2>1. gamesNew' \in [Accounts -> Int]
    <3>1. seenGames[t][Slot(t)] + 1 \in Int
      <4>1. seenGames \in [Tx -> [Accounts -> Int]]
        BY DEF LedgerInv, LedgerTypeOK
      <4>2. seenGames[t][Slot(t)] \in Int
        BY <1>0, <4>1
      <4> QED BY <4>2
    <3>2. gamesNew' = [gamesNew EXCEPT ![Slot(t)] = seenGames[t][Slot(t)] + 1]
      BY DEF WriteProfile
    <3> QED BY <1>0, <3>1, <3>2 DEF LedgerInv, LedgerTypeOK
  <2>2. profileLock' \in [Accounts -> Tx \cup {Nobody}]
    BY <1>0 DEF LedgerInv, LedgerTypeOK, WriteProfile, Take
  <2>3. pc' \in [Tx -> Pcs]
    BY DEF LedgerInv, LedgerTypeOK, WriteProfile, Move, Pcs
  <2> QED BY <2>1, <2>2, <2>3
          DEF LedgerInv, LedgerTypeOK, WriteProfile, accountVars, seasonVars
<1>2. JobsAreRun'
  BY DEF LedgerInv, LedgerTypeOK, JobsAreRun, WriteProfile, Move, RankPcs
<1>3. Quiet(t)
  BY DEF LedgerInv, LedgerTypeOK, WriteProfile, Move, Quiet, accountVars
<1> QED BY <1>1, <1>2, <1>3, QuietPreserves

(***************************************************************************)
(* Steps that write accounts or let them go                                *)
(***************************************************************************)

\* A transaction is rolled back.
LEMMA FailPreserves ==
  ASSUME LedgerInv, NEW t \in Tx, Fail(t),
         pc[t] \notin {"idle", "done", "failed"}
  PROVE  LedgerInv'
<1>1. /\ accountLock' = [a \in Accounts |-> IF accountLock[a] = t THEN Nobody ELSE accountLock[a]]
      /\ accountNew' = [a \in Accounts |->
                          IF accountLock[a] = t THEN account[a] ELSE accountNew[a]]
      /\ profileLock' = [a \in Accounts |-> IF profileLock[a] = t THEN Nobody ELSE profileLock[a]]
      /\ gamesNew' = [a \in Accounts |->
                          IF profileLock[a] = t THEN games[a] ELSE gamesNew[a]]
      /\ seasonLock' \in {Nobody, seasonLock}
      /\ pc' = [pc EXCEPT ![t] = "failed"]
      /\ UNCHANGED <<account, games, season, owned, rows,
                     job, answer, slot, seenCoins, seenGames, inserted>>
  BY DEF Fail, Rollback, ReleaseAll, Release, Mine, Move
<1>2. LedgerTypeOK'
  BY <1>1 DEF LedgerInv, LedgerTypeOK, Pcs
<1>3. JobsAreRun'
  BY <1>1 DEF LedgerInv, LedgerTypeOK, JobsAreRun, RankPcs
<1>4. LocksAreLive'
  BY <1>1, LedgerAssumption DEF LedgerInv, LedgerTypeOK, LocksAreLive
<1>5. DraftsAreCounted'
  <2> SUFFICES ASSUME NEW u \in Tx, pc'[u] \notin {"done", "failed"}, NEW a \in Accounts
               PROVE  IF accountLock'[a] = u
                      THEN /\ accountNew'[a].played = account'[a].played + inserted'[u][a].all
                           /\ accountNew'[a].coins \in
                                0 .. Seed + rows'[a].coins + inserted'[u][a].coins
                      ELSE inserted'[u][a] = NoRows
    BY DEF DraftsAreCounted
  <2>1. u # t /\ pc'[u] = pc[u]
    BY <1>1 DEF LedgerInv, LedgerTypeOK
  <2>2. accountLock'[a] = u <=> accountLock[a] = u
    BY <1>1, <2>1, LedgerAssumption
  <2>3. accountLock[a] = u => accountNew'[a] = accountNew[a]
    BY <1>1, <2>1
  <2> QED BY <1>1, <2>1, <2>2, <2>3 DEF LedgerInv, DraftsAreCounted
<1>6. SightsWereTrue'
  BY <1>1 DEF LedgerInv, LedgerTypeOK, SightsWereTrue
<1>7. SalesAreExclusive'
  BY <1>1 DEF LedgerInv, LedgerTypeOK, JobsAreRun, SalesAreExclusive, Purchases
<1>8. CoinsStayLegal' /\ MatchesAreCounted'
  BY <1>1 DEF LedgerInv, CoinsStayLegal, MatchesAreCounted
<1>9. SoldOnce'
  BY <1>1 DEF LedgerInv, LedgerTypeOK, SoldOnce, Sold
<1> QED BY <1>2, <1>3, <1>4, <1>5, <1>6, <1>7, <1>8, <1>9 DEF LedgerInv

\* The season is inserted, or was by somebody else meanwhile.
LEMMA InsertSeasonPreserves ==
  ASSUME LedgerInv, NEW t \in Tx, InsertSeason(t)
  PROVE  LedgerInv'
<1>0. pc[t] = "newSeason"
  BY DEF InsertSeason
<1>1. CASE season
  BY <1>0, <1>1, FailPreserves DEF InsertSeason
<1>2. CASE ~season
  <2>1. LedgerTypeOK'
    BY <1>2 DEF LedgerInv, LedgerTypeOK, InsertSeason, Move, accountVars, profileVars, Pcs, RankPcs
  <2>2. JobsAreRun'
    <3>1. /\ pc' = [pc EXCEPT ![t] = "profile"]
          /\ UNCHANGED <<job, answer, slot>>
      BY <1>2 DEF InsertSeason, Move
    <3> QED BY <1>0, <3>1 DEF LedgerInv, LedgerTypeOK, JobsAreRun, RankPcs
  <2>3. Quiet(t)
    BY <1>2 DEF LedgerInv, LedgerTypeOK, InsertSeason, Move, Quiet, accountVars
  <2> QED BY <2>1, <2>2, <2>3, QuietPreserves
<1> QED BY <1>1, <1>2

\* A profile is inserted, or was by somebody else meanwhile.
LEMMA InsertProfilePreserves ==
  ASSUME LedgerInv, NEW t \in Tx, InsertProfile(t)
  PROVE  LedgerInv'
<1>0. pc[t] = "newProfile" /\ Slot(t) \in Accounts
  BY SlotType DEF InsertProfile, RankPcs
<1>1. CASE games[Slot(t)] # NoProfile
  BY <1>0, <1>1, FailPreserves DEF InsertProfile
<1>2. CASE games[Slot(t)] = NoProfile
  <2>1. /\ pc' \in [Tx -> Pcs] /\ slot' \in [Tx -> Nat]
        /\ seenGames' \in [Tx -> [Accounts -> Int]]
        /\ pc'[t] \in {"rank", "profile"}
        /\ slot'[t] \in 1 .. Len(job[t].who)
        /\ \A u \in Tx : u # t => pc'[u] = pc[u] /\ slot'[u] = slot[u]
        /\ UNCHANGED <<job, answer, seenCoins, inserted>>
    <3>1. HasProfile(t, 0)
      BY <1>2 DEF InsertProfile
    <3> QED BY <1>0, <3>1, HasProfileMoves
  <2>2. /\ UNCHANGED <<accountVars, games, seasonVars, owned, rows>>
        /\ profileLock' = [profileLock EXCEPT ![Slot(t)] = t]
        /\ gamesNew' = [gamesNew EXCEPT ![Slot(t)] = 0]
    BY <1>2 DEF InsertProfile, Take
  <2>3. LedgerTypeOK'
    <3>1. gamesNew' \in [Accounts -> Int]
      <4>1. gamesNew' = [gamesNew EXCEPT ![Slot(t)] = 0] /\ gamesNew \in [Accounts -> Int]
        BY <2>2 DEF LedgerInv, LedgerTypeOK
      <4>2. Slot(t) \in Accounts
        BY <1>0
      <4>3. 0 \in Int
        OBVIOUS
      <4> QED BY <4>1, <4>2, <4>3, Zenon
    <3>2. profileLock' \in [Accounts -> Tx \cup {Nobody}]
      BY <1>0, <2>2 DEF LedgerInv, LedgerTypeOK
    <3>3. /\ pc' \in [Tx -> Pcs] /\ slot' \in [Tx -> Nat]
          /\ seenGames' \in [Tx -> [Accounts -> Int]]
          /\ UNCHANGED <<job, answer, seenCoins, inserted>>
      BY <2>1
    <3>4. UNCHANGED <<account, accountNew, accountLock, games, season, seasonLock, owned, rows>>
      BY <2>2 DEF accountVars, seasonVars
    <3> QED BY <3>1, <3>2, <3>3, <3>4 DEF LedgerInv, LedgerTypeOK
  <2>4. JobsAreRun'
    <3> SUFFICES ASSUME NEW u \in Tx
                 PROVE  /\ pc'[u] = "idle" => slot'[u] = 1
                        /\ pc'[u] = "buy" => job'[u] \in Purchases
                        /\ pc'[u] \in RankPcs \cup {"counters"} =>
                             job'[u] \in Results /\ slot'[u] \in 1 .. Len(job'[u].who)
                        /\ answer'[u] # "" =>
                             job'[u] \in Purchases /\ pc'[u] \in {"commit", "done", "failed"}
      BY DEF JobsAreRun
    <3>1. CASE u = t
      BY <1>0, <2>1, <3>1 DEF LedgerInv, JobsAreRun, RankPcs
    <3>2. CASE u # t
      BY <2>1, <3>2 DEF LedgerInv, JobsAreRun
    <3> QED BY <3>1, <3>2
  <2>5. Quiet(t)
    BY <1>0, <2>1, <2>2 DEF Quiet, accountVars
  <2> QED BY <2>3, <2>4, <2>5, QuietPreserves
<1> QED BY <1>1, <1>2

\* A deadlock's victim is at work on something.
LEMMA AbortPreserves ==
  ASSUME LedgerInv, NEW t \in Tx, Abort(t)
  PROVE  LedgerInv'
<1>1. Holder(t) \in Tx
  BY DEF Abort
<1>2. Holder(t) # Nobody
  BY <1>1, LedgerAssumption
<1>3. pc[t] \notin {"idle", "done", "failed"}
  BY <1>2 DEF Holder
<1> QED BY <1>3, FailPreserves DEF Abort

(***************************************************************************)
(* Buying                                                                  *)
(***************************************************************************)

\* An item is charged, or not.
LEMMA BuyPreserves ==
  ASSUME LedgerInv, NEW t \in Tx, Buy(t)
  PROVE  LedgerInv'
<1> DEFINE a == job[t].buyer
           ok == Answer(t) = "ok"
           left == seenCoins[t] - Price[job[t].item]
<1>0. pc[t] = "buy" /\ job[t] \in Purchases /\ a \in Accounts /\ job[t].item \in Items
  BY DEF Buy, LedgerInv, JobsAreRun, Purchases
<1>1. /\ accountLock' = [accountLock EXCEPT ![a] = t]
      /\ answer' = [answer EXCEPT ![t] = Answer(t)]
      /\ pc' = [pc EXCEPT ![t] = "commit"]
      /\ UNCHANGED <<account, games, gamesNew, profileLock, season, seasonLock, owned, rows,
                     job, slot, seenCoins, seenGames, inserted>>
  BY DEF Buy, Take, Move, profileVars, seasonVars
<1>2. Answer(t) \in {"ok", "already_owned", "insufficient_coins"}
  BY DEF Answer
<1>3. /\ Price[job[t].item] \in Nat
      /\ seenCoins[t] \in 0 .. Seed + rows[a].coins
      /\ rows[a].coins \in Nat
  BY <1>0, LedgerAssumption DEF LedgerInv, LedgerTypeOK, SightsWereTrue, RowSums
<1>4. ok => left \in 0 .. Seed + rows[a].coins
  BY <1>3, LedgerAssumption DEF Answer
<1>5. ok => job[t].item \notin owned[a]
  BY DEF Answer
<1>6. accountLock[a] \in {Nobody, t}
  BY DEF Buy, Free
<1>7. accountNew[a] = account[a] /\ accountLock[a] = Nobody
  BY <1>0, <1>6 DEF LedgerInv, LocksAreLive
<1>8. inserted[t][a] = NoRows
  BY <1>0, <1>7, LedgerAssumption DEF LedgerInv, DraftsAreCounted
<1>9. IF ok /\ Price[job[t].item] # 0 THEN accountNew' = [accountNew EXCEPT ![a].coins = left]
      ELSE accountNew' = accountNew
  <2>1. CASE ok /\ Price[job[t].item] # 0
    BY <2>1 DEF Buy, Charged
  <2>2. CASE ok /\ Price[job[t].item] = 0
    BY <1>0, <2>2 DEF Buy, Charged, LedgerInv, LedgerTypeOK
  <2>3. CASE ~ok
    BY <2>3 DEF Buy
  <2> QED BY <2>1, <2>2, <2>3
<1> HIDE DEF ok, left
<1>10. /\ accountNew' \in [Accounts -> AccountRows]
       /\ accountNew'[a].played = account[a].played
       /\ accountNew'[a].coins \in 0 .. Seed + rows[a].coins
       /\ \A b \in Accounts : b # a => accountNew'[b] = accountNew[b]
  <2>1. accountNew \in [Accounts -> AccountRows] /\ account[a].coins \in 0 .. Seed + rows[a].coins
    BY <1>0 DEF LedgerInv, LedgerTypeOK, CoinsStayLegal
  <2>2. CASE ok /\ Price[job[t].item] # 0
    BY <1>0, <1>3, <1>4, <1>7, <1>9, <2>1, <2>2, LedgerAssumption DEF AccountRows
  <2>3. CASE ~(ok /\ Price[job[t].item] # 0)
    BY <1>7, <1>9, <2>1, <2>3
  <2> QED BY <2>2, <2>3
<1> HIDE DEF a
<1>11. LedgerTypeOK'
  BY <1>0, <1>1, <1>2, <1>10 DEF LedgerInv, LedgerTypeOK, Pcs
<1>12. JobsAreRun'
  BY <1>0, <1>1 DEF LedgerInv, LedgerTypeOK, JobsAreRun, RankPcs
<1>13. LocksAreLive'
  BY <1>0, <1>1, <1>10, LedgerAssumption DEF LedgerInv, LedgerTypeOK, LocksAreLive
<1>14. DraftsAreCounted'
  <2> SUFFICES ASSUME NEW u \in Tx, pc'[u] \notin {"done", "failed"}, NEW b \in Accounts
               PROVE  IF accountLock'[b] = u
                      THEN /\ accountNew'[b].played = account'[b].played + inserted'[u][b].all
                           /\ accountNew'[b].coins \in
                                0 .. Seed + rows'[b].coins + inserted'[u][b].coins
                      ELSE inserted'[u][b] = NoRows
    BY DEF DraftsAreCounted
  <2>1. pc[u] \notin {"done", "failed"}
    BY <1>0, <1>1 DEF LedgerInv, LedgerTypeOK
  <2>2. CASE b # a
    <3>1. accountLock'[b] = accountLock[b] /\ accountNew'[b] = accountNew[b]
      BY <1>1, <1>10, <2>2 DEF LedgerInv, LedgerTypeOK
    <3> QED BY <1>1, <2>1, <3>1 DEF LedgerInv, DraftsAreCounted
  <2>3. CASE b = a /\ u = t
    <3>1. accountLock'[b] = u
      BY <1>0, <1>1, <2>3 DEF LedgerInv, LedgerTypeOK
    <3>2. inserted'[u][b].all = 0 /\ inserted'[u][b].coins = 0
      BY <1>1, <1>8, <2>3 DEF NoRows
    <3>3. account[a].played \in Int /\ rows[a].coins \in Int /\ Seed \in Int
      <4>1. account[a] \in AccountRows
        BY <1>0 DEF LedgerInv, LedgerTypeOK
      <4> QED BY <1>3, <4>1, LedgerAssumption DEF AccountRows
    <3> QED BY <1>1, <1>10, <2>3, <3>1, <3>2, <3>3
  <2>4. CASE b = a /\ u # t
    <3>1. accountLock'[b] # u /\ accountLock[b] # u
      BY <1>0, <1>1, <1>7, <2>4, LedgerAssumption DEF LedgerInv, LedgerTypeOK
    <3> QED BY <1>1, <2>1, <3>1 DEF LedgerInv, DraftsAreCounted
  <2> QED BY <2>2, <2>3, <2>4
<1>15. SightsWereTrue'
  BY <1>1 DEF LedgerInv, LedgerTypeOK, SightsWereTrue
<1>16. SalesAreExclusive'
  <2> SUFFICES ASSUME NEW u \in Tx, pc'[u] = "commit", answer'[u] # ""
               PROVE  /\ accountLock'[job'[u].buyer] = u
                      /\ answer'[u] = "ok" => job'[u].item \notin owned'[job'[u].buyer]
    BY DEF SalesAreExclusive
  <2>1. CASE u = t
    BY <1>0, <1>1, <1>5, <2>1 DEF LedgerInv, LedgerTypeOK, a, ok
  <2>2. CASE u # t
    <3>1. pc[u] = "commit" /\ answer[u] # "" /\ answer'[u] = answer[u]
      BY <1>1, <2>2 DEF LedgerInv, LedgerTypeOK
    <3>2. /\ accountLock[job[u].buyer] = u
          /\ answer[u] = "ok" => job[u].item \notin owned[job[u].buyer]
      BY <3>1 DEF LedgerInv, SalesAreExclusive
    <3>3. job[u].buyer # a
      BY <1>7, <3>2, LedgerAssumption
    <3>4. job[u].buyer \in Accounts
      BY <3>1 DEF LedgerInv, JobsAreRun, Purchases
    <3> QED BY <1>1, <3>1, <3>2, <3>3, <3>4 DEF LedgerInv, LedgerTypeOK
  <2> QED BY <2>1, <2>2
<1>17. CoinsStayLegal' /\ MatchesAreCounted'
  BY <1>1 DEF LedgerInv, CoinsStayLegal, MatchesAreCounted
<1>18. SoldOnce'
  <2>1. \A u \in Tx : Sold(u)' => u # t /\ Sold(u)
    BY <1>1 DEF LedgerInv, LedgerTypeOK, Sold
  <2> QED BY <1>1, <2>1 DEF LedgerInv, SoldOnce
<1> QED BY <1>11, <1>12, <1>13, <1>14, <1>15, <1>16, <1>17, <1>18 DEF LedgerInv

(***************************************************************************)
(* Counting                                                                *)
(***************************************************************************)

\* The sums of what a transaction inserts.
LEMMA RowType ==
  ASSUME LedgerInv, NEW t \in Tx, pc[t] = "counters"
  PROVE  /\ Row(t) \in RowSums
         /\ Row(t).all = 1
<1>1. job[t].coins[slot[t]] \in Nat
  BY SlotType
<1> QED BY <1>1 DEF Row, RowSums

\* What the holder of an account works with, holding it already or not.
LEMMA DraftOfAccount ==
  ASSUME LedgerInv, NEW t \in Tx, NEW a \in Accounts,
         pc[t] \notin {"done", "failed"}, accountLock[a] \in {Nobody, t}
  PROVE  /\ accountNew[a].played = account[a].played + inserted[t][a].all
         /\ accountNew[a].coins \in 0 .. Seed + rows[a].coins + inserted[t][a].coins
<1>1. CASE accountLock[a] = t
  BY <1>1 DEF LedgerInv, DraftsAreCounted
<1>2. CASE accountLock[a] = Nobody
  <2>1. inserted[t][a].all = 0 /\ inserted[t][a].coins = 0
    BY <1>2, LedgerAssumption DEF LedgerInv, DraftsAreCounted, NoRows
  <2>2. accountNew[a] = account[a] /\ account[a].coins \in 0 .. Seed + rows[a].coins
    BY <1>2 DEF LedgerInv, LocksAreLive, CoinsStayLegal
  <2>3. account[a] \in AccountRows /\ rows[a] \in RowSums
    BY DEF LedgerInv, LedgerTypeOK
  <2>4. account[a].played \in Int /\ rows[a].coins \in Int /\ Seed \in Int
    BY <2>3, LedgerAssumption DEF AccountRows, RowSums
  <2> QED BY <2>1, <2>2, <2>4
<1> QED BY <1>1, <1>2

\* A participant's row and the counters of the account.
LEMMA WriteCountersPreserves ==
  ASSUME LedgerInv, NEW t \in Tx, WriteCounters(t)
  PROVE  LedgerInv'
<1> DEFINE a == Slot(t)
           row == Row(t)
<1>0. pc[t] = "counters" /\ a \in Accounts /\ job[t] \in Results /\ answer[t] = ""
  <2>1. pc[t] = "counters"
    BY DEF WriteCounters
  <2>2. answer[t] = ""
    BY <2>1 DEF LedgerInv, JobsAreRun
  <2> QED BY <2>1, <2>2, SlotType
<1>1. row \in RowSums /\ row.all = 1
  BY <1>0, RowType
<1>2. /\ accountLock' = [accountLock EXCEPT ![a] = t]
      /\ accountNew' = [accountNew EXCEPT ![a] = [coins |-> accountNew[a].coins + row.coins,
                                                  played |-> accountNew[a].played + 1]]
      /\ inserted' = [inserted EXCEPT ![t][a] = AddRows(inserted[t][a], row)]
      /\ UNCHANGED <<account, games, gamesNew, profileLock, season, seasonLock, owned, rows,
                     job, answer, seenCoins, seenGames>>
  BY DEF WriteCounters, Take, Counted, profileVars, seasonVars
<1>3. /\ pc' \in [Tx -> Pcs] /\ slot' \in [Tx -> Nat]
      /\ pc'[t] \in {"commit", "rank", "counters"}
      /\ slot'[t] \in 1 .. Len(job[t].who)
      /\ \A u \in Tx : u # t => pc'[u] = pc[u] /\ slot'[u] = slot[u]
  <2>1. /\ slot[t] \in 1 .. Len(job[t].who) /\ Len(job[t].who) \in Nat \ {0}
        /\ ~LastSlot(t) => slot[t] + 1 \in 1 .. Len(job[t].who)
    BY <1>0, SlotType
  <2>2. /\ slot' = [slot EXCEPT ![t] = IF LastSlot(t) THEN slot[t] ELSE slot[t] + 1]
        /\ pc' = [pc EXCEPT ![t] = IF LastSlot(t) THEN "commit"
                                   ELSE IF job[t].ranked THEN "rank" ELSE "counters"]
    BY DEF WriteCounters, Move
  <2>3. pc \in [Tx -> Pcs] /\ slot \in [Tx -> Nat]
    BY DEF LedgerInv, LedgerTypeOK
  <2>4. pc'[t] \in {"commit", "rank", "counters"}
    BY <2>2, <2>3
  <2>5. slot'[t] \in 1 .. Len(job[t].who) /\ slot'[t] \in Nat
    BY <2>1, <2>2, <2>3
  <2> QED BY <2>2, <2>3, <2>4, <2>5 DEF Pcs, RankPcs
<1>4. accountLock[a] \in {Nobody, t}
  BY DEF WriteCounters, Free
<1> HIDE DEF a, row
<1>5. /\ accountLock'[a] = t
      /\ accountLock' \in [Accounts -> Tx \cup {Nobody}]
      /\ \A b \in Accounts : b # a => accountLock'[b] = accountLock[b]
  BY <1>0, <1>2 DEF LedgerInv, LedgerTypeOK
<1>6. /\ accountNew'[a].coins = accountNew[a].coins + row.coins
      /\ accountNew'[a].played = accountNew[a].played + 1
      /\ accountNew' \in [Accounts -> AccountRows]
      /\ \A b \in Accounts : b # a => accountNew'[b] = accountNew[b]
  <2>1. accountNew \in [Accounts -> AccountRows] /\ accountNew[a] \in AccountRows
    BY <1>0 DEF LedgerInv, LedgerTypeOK
  <2>2. accountNew[a].coins + row.coins \in Int /\ accountNew[a].played + 1 \in Nat
    BY <1>1, <2>1 DEF AccountRows, RowSums
  <2> QED BY <1>0, <1>2, <2>1, <2>2 DEF AccountRows
<1>7. inserted \in [Tx -> [Accounts -> RowSums]] /\ inserted[t][a] \in RowSums
  BY <1>0 DEF LedgerInv, LedgerTypeOK
<1>8. /\ AddRows(inserted[t][a], row) \in RowSums
      /\ AddRows(inserted[t][a], row).all = inserted[t][a].all + 1
      /\ AddRows(inserted[t][a], row).coins = inserted[t][a].coins + row.coins
  BY <1>1, <1>7 DEF AddRows, RowSums
<1> DEFINE sum == AddRows(inserted[t][a], row)
<1> HIDE DEF sum
<1>9. /\ inserted'[t][a] = sum
      /\ inserted' \in [Tx -> [Accounts -> RowSums]]
      /\ \A u \in Tx, b \in Accounts : u # t \/ b # a => inserted'[u][b] = inserted[u][b]
  <2>1. inserted' = [inserted EXCEPT ![t][a] = sum] /\ sum \in RowSums
    BY <1>2, <1>8 DEF sum
  <2> QED BY <1>0, <1>7, <2>1
<1>10. LedgerTypeOK'
  BY <1>2, <1>3, <1>5, <1>6, <1>9 DEF LedgerInv, LedgerTypeOK
<1>11. JobsAreRun'
  <2> SUFFICES ASSUME NEW u \in Tx
               PROVE  /\ pc'[u] = "idle" => slot'[u] = 1
                      /\ pc'[u] = "buy" => job'[u] \in Purchases
                      /\ pc'[u] \in RankPcs \cup {"counters"} =>
                           job'[u] \in Results /\ slot'[u] \in 1 .. Len(job'[u].who)
                      /\ answer'[u] # "" =>
                           job'[u] \in Purchases /\ pc'[u] \in {"commit", "done", "failed"}
    BY DEF JobsAreRun
  <2>1. CASE u = t
    BY <1>0, <1>2, <1>3, <2>1 DEF RankPcs
  <2>2. CASE u # t
    BY <1>2, <1>3, <2>2 DEF LedgerInv, JobsAreRun
  <2> QED BY <2>1, <2>2
<1>12. LocksAreLive'
  <2>1. \A b \in Accounts : accountLock'[b] = Nobody => accountNew'[b] = account'[b]
    BY <1>2, <1>5, <1>6, LedgerAssumption DEF LedgerInv, LocksAreLive
  <2>2. \A b \in Accounts, u \in Tx :
          accountLock'[b] = u => pc'[u] \in {"rank", "counters", "commit"}
    BY <1>3, <1>5 DEF LedgerInv, LocksAreLive
  <2> QED BY <2>1, <2>2 DEF LocksAreLive
<1>13. DraftsAreCounted'
  <2> SUFFICES ASSUME NEW u \in Tx, pc'[u] \notin {"done", "failed"}, NEW b \in Accounts
               PROVE  IF accountLock'[b] = u
                      THEN /\ accountNew'[b].played = account'[b].played + inserted'[u][b].all
                           /\ accountNew'[b].coins \in
                                0 .. Seed + rows'[b].coins + inserted'[u][b].coins
                      ELSE inserted'[u][b] = NoRows
    BY DEF DraftsAreCounted
  <2>1. pc[u] \notin {"done", "failed"}
    BY <1>0, <1>3
  <2>2. CASE b # a
    BY <1>2, <1>5, <1>6, <1>9, <2>1, <2>2 DEF LedgerInv, DraftsAreCounted
  <2>3. CASE b = a /\ u # t
    <3>1. accountLock[b] # u /\ accountLock'[b] # u
      BY <1>4, <1>5, <2>3, LedgerAssumption
    <3> QED BY <1>9, <2>1, <2>3, <3>1 DEF LedgerInv, DraftsAreCounted
  <2>4. CASE b = a /\ u = t
    <3>1. /\ accountNew[a].played = account[a].played + inserted[t][a].all
          /\ accountNew[a].coins \in 0 .. Seed + rows[a].coins + inserted[t][a].coins
      BY <1>0, <1>4, DraftOfAccount
    <3>2. account[a] \in AccountRows /\ rows[a] \in RowSums
      BY <1>0 DEF LedgerInv, LedgerTypeOK
    <3>3. /\ account[a].played \in Int /\ rows[a].coins \in Int /\ Seed \in Int
          /\ inserted[t][a].all \in Int /\ inserted[t][a].coins \in Int /\ row.coins \in Nat
      BY <1>1, <1>7, <3>2, LedgerAssumption DEF AccountRows, RowSums
    <3>4. /\ inserted'[u][b].all = inserted[t][a].all + 1
          /\ inserted'[u][b].coins = inserted[t][a].coins + row.coins
      BY <1>8, <1>9, <2>4 DEF sum
    <3>5. /\ account'[b].played = account[a].played /\ rows'[b].coins = rows[a].coins
          /\ accountNew'[b].coins = accountNew[a].coins + row.coins
          /\ accountNew'[b].played = accountNew[a].played + 1
          /\ accountLock'[b] = u
      BY <1>2, <1>5, <1>6, <2>4
    <3> QED BY <3>1, <3>3, <3>4, <3>5
  <2> QED BY <2>2, <2>3, <2>4
<1>14. SightsWereTrue'
  BY <1>2, <1>3 DEF LedgerInv, SightsWereTrue
<1>15. SalesAreExclusive'
  <2> SUFFICES ASSUME NEW u \in Tx, pc'[u] = "commit", answer'[u] # ""
               PROVE  /\ accountLock'[job'[u].buyer] = u
                      /\ answer'[u] = "ok" => job'[u].item \notin owned'[job'[u].buyer]
    BY DEF SalesAreExclusive
  <2>1. u # t /\ pc[u] = "commit" /\ answer[u] # ""
    BY <1>0, <1>2, <1>3
  <2>2. /\ accountLock[job[u].buyer] = u
        /\ answer[u] = "ok" => job[u].item \notin owned[job[u].buyer]
    BY <2>1 DEF LedgerInv, SalesAreExclusive
  <2>3. job[u].buyer # a
    BY <1>4, <2>1, <2>2, LedgerAssumption
  <2>4. job[u].buyer \in Accounts
    BY <2>1 DEF LedgerInv, JobsAreRun, Purchases
  <2> QED BY <1>2, <1>5, <2>2, <2>3, <2>4
<1>16. CoinsStayLegal' /\ MatchesAreCounted'
  BY <1>2 DEF LedgerInv, CoinsStayLegal, MatchesAreCounted
<1>17. SoldOnce'
  <2>1. \A u \in Tx : Sold(u)' => Sold(u)
    BY <1>0, <1>2, <1>3 DEF Sold
  <2> QED BY <1>2, <2>1 DEF LedgerInv, SoldOnce
<1> QED BY <1>10, <1>11, <1>12, <1>13, <1>14, <1>15, <1>16, <1>17 DEF LedgerInv

(***************************************************************************)
(* Committing                                                              *)
(***************************************************************************)

\* A transaction becomes visible: what it has written where it holds the row,
\* nothing elsewhere.
LEMMA CommitPreserves ==
  ASSUME LedgerInv, NEW t \in Tx, Commit(t)
  PROVE  LedgerInv'
<1> DEFINE buyer == job[t].buyer
           item == job[t].item
           mine(a) == inserted[t][a]
<1>0. pc[t] = "commit"
  BY DEF Commit
<1>1. /\ accountLock' = [a \in Accounts |-> IF accountLock[a] = t THEN Nobody ELSE accountLock[a]]
      /\ account' = [a \in Accounts |->
                          IF accountLock[a] = t THEN accountNew[a] ELSE account[a]]
      /\ profileLock' = [a \in Accounts |-> IF profileLock[a] = t THEN Nobody ELSE profileLock[a]]
      /\ games' = [a \in Accounts |->
                          IF profileLock[a] = t THEN gamesNew[a] ELSE games[a]]
      /\ seasonLock' \in {Nobody, seasonLock}
      /\ season' \in BOOLEAN
      /\ owned' = IF answer[t] = "ok" THEN [owned EXCEPT ![buyer] = owned[buyer] \cup {item}]
                                      ELSE owned
      /\ rows' = [a \in Accounts |-> AddRows(rows[a], mine(a))]
      /\ pc' = [pc EXCEPT ![t] = "done"]
      /\ UNCHANGED <<accountNew, gamesNew, job, answer, slot, seenCoins, seenGames, inserted>>
  BY DEF Commit, Install, ReleaseAll, Release, Mine, Move, LedgerInv, LedgerTypeOK
<1>2. answer[t] = "ok" => /\ buyer \in Accounts /\ item \in Items
                          /\ accountLock[buyer] = t /\ item \notin owned[buyer]
  BY <1>0 DEF LedgerInv, JobsAreRun, SalesAreExclusive, Purchases
<1>3. \A a \in Accounts :
        /\ rows[a] \in RowSums /\ mine(a) \in RowSums
        /\ rows'[a] \in RowSums
        /\ rows'[a].all = rows[a].all + mine(a).all
        /\ rows'[a].coins = rows[a].coins + mine(a).coins
        /\ rows[a].coins \in Nat /\ mine(a).coins \in Nat
        /\ rows[a].all \in Nat /\ mine(a).all \in Nat
  <2> SUFFICES ASSUME NEW a \in Accounts
               PROVE  /\ rows[a] \in RowSums /\ mine(a) \in RowSums
                      /\ rows'[a] \in RowSums
                      /\ rows'[a].all = rows[a].all + mine(a).all
                      /\ rows'[a].coins = rows[a].coins + mine(a).coins
                      /\ rows[a].coins \in Nat /\ mine(a).coins \in Nat
                      /\ rows[a].all \in Nat /\ mine(a).all \in Nat
    OBVIOUS
  <2>1. rows[a] \in RowSums /\ mine(a) \in RowSums
    BY DEF LedgerInv, LedgerTypeOK
  <2>2. rows'[a] = AddRows(rows[a], mine(a))
    BY <1>1
  <2> HIDE DEF mine
  <2> QED BY <2>1, <2>2 DEF AddRows, RowSums
<1>4. \A a \in Accounts : accountLock[a] # t =>
        /\ mine(a).all = 0 /\ mine(a).coins = 0
        /\ account'[a] = account[a]
  BY <1>0, <1>1 DEF LedgerInv, DraftsAreCounted, NoRows
<1>5. \A a \in Accounts : accountLock[a] = t =>
        /\ account'[a] = accountNew[a]
        /\ accountNew[a].played = account[a].played + mine(a).all
        /\ accountNew[a].coins \in 0 .. Seed + rows[a].coins + mine(a).coins
  BY <1>0, <1>1 DEF LedgerInv, DraftsAreCounted
<1>6. \A u \in Tx : /\ u # t => pc'[u] = pc[u]
                    /\ pc'[u] # "done" => u # t
  BY <1>1 DEF LedgerInv, LedgerTypeOK
<1>7. \A a \in Accounts, u \in Tx : u # t => (accountLock'[a] = u <=> accountLock[a] = u)
  BY <1>1, LedgerAssumption
<1>8. LedgerTypeOK'
  <2>1. account' \in [Accounts -> AccountRows] /\ accountLock' \in [Accounts -> Tx \cup {Nobody}]
    BY <1>1 DEF LedgerInv, LedgerTypeOK
  <2>2. games' \in [Accounts -> Int] /\ profileLock' \in [Accounts -> Tx \cup {Nobody}]
    BY <1>1 DEF LedgerInv, LedgerTypeOK
  <2>3. owned' \in [Accounts -> SUBSET Items]
    BY <1>1, <1>2 DEF LedgerInv, LedgerTypeOK
  <2>4. rows' \in [Accounts -> RowSums]
    <3>1. rows' = [a \in Accounts |-> rows'[a]]
      BY <1>1
    <3> QED BY <1>3, <3>1
  <2>5. season' \in BOOLEAN /\ seasonLock' \in Tx \cup {Nobody} /\ pc' \in [Tx -> Pcs]
    BY <1>1 DEF LedgerInv, LedgerTypeOK, Pcs
  <2>6. UNCHANGED <<accountNew, gamesNew, job, answer, slot, seenCoins, seenGames, inserted>>
    BY <1>1
  <2> QED BY <2>1, <2>2, <2>3, <2>4, <2>5, <2>6 DEF LedgerInv, LedgerTypeOK
<1>9. JobsAreRun'
  BY <1>0, <1>1, <1>6 DEF LedgerInv, LedgerTypeOK, JobsAreRun, RankPcs
<1>10. LocksAreLive'
  <2>1. \A a \in Accounts : accountLock'[a] = Nobody => accountNew'[a] = account'[a]
    BY <1>1 DEF LedgerInv, LocksAreLive
  <2>2. \A a \in Accounts, u \in Tx :
          accountLock'[a] = u => pc'[u] \in {"rank", "counters", "commit"}
    <3>1. \A a \in Accounts : accountLock'[a] # t
      BY <1>1, LedgerAssumption
    <3> QED BY <1>6, <1>7, <3>1 DEF LedgerInv, LocksAreLive
  <2> QED BY <2>1, <2>2 DEF LocksAreLive
<1>11. DraftsAreCounted'
  <2> SUFFICES ASSUME NEW u \in Tx, pc'[u] \notin {"done", "failed"}, NEW a \in Accounts
               PROVE  IF accountLock'[a] = u
                      THEN /\ accountNew'[a].played = account'[a].played + inserted'[u][a].all
                           /\ accountNew'[a].coins \in
                                0 .. Seed + rows'[a].coins + inserted'[u][a].coins
                      ELSE inserted'[u][a] = NoRows
    BY DEF DraftsAreCounted
  <2>1. u # t /\ pc[u] \notin {"done", "failed"}
    BY <1>6
  <2>2. CASE accountLock[a] = u
    <3>1. account'[a] = account[a] /\ rows'[a].coins = rows[a].coins + 0 /\ rows[a].coins \in Nat
      BY <1>3, <1>4, <2>1, <2>2
    <3>2. rows'[a].coins = rows[a].coins
      BY <3>1
    <3>3. /\ accountNew[a].played = account[a].played + inserted[u][a].all
          /\ accountNew[a].coins \in 0 .. Seed + rows[a].coins + inserted[u][a].coins
      BY <2>1, <2>2 DEF LedgerInv, DraftsAreCounted
    <3>4. accountLock'[a] = u /\ accountNew' = accountNew /\ inserted' = inserted
      BY <1>1, <1>7, <2>1, <2>2
    <3> QED BY <3>1, <3>2, <3>3, <3>4
  <2>3. CASE accountLock[a] # u
    <3>1. inserted[u][a] = NoRows
      BY <2>1, <2>3 DEF LedgerInv, DraftsAreCounted
    <3> QED BY <1>1, <1>7, <2>1, <2>3, <3>1
  <2> QED BY <2>2, <2>3
<1>12. SightsWereTrue'
  <2> SUFFICES ASSUME NEW u \in Tx, pc'[u] = "buy"
               PROVE  seenCoins'[u] \in 0 .. Seed + rows'[job'[u].buyer].coins
    BY DEF SightsWereTrue
  <2>1. u # t /\ pc[u] = "buy"
    BY <1>6
  <2>2. job[u].buyer \in Accounts /\ seenCoins[u] \in 0 .. Seed + rows[job[u].buyer].coins
    BY <2>1 DEF LedgerInv, JobsAreRun, SightsWereTrue, Purchases
  <2> DEFINE b == job[u].buyer
  <2>3. /\ rows'[b].coins = rows[b].coins + mine(b).coins
        /\ rows[b].coins \in Nat /\ mine(b).coins \in Nat
    BY <1>3, <2>2
  <2> HIDE DEF b, mine
  <2>4. seenCoins[u] \in 0 .. Seed + rows[b].coins
    BY <2>2 DEF b
  <2>5. seenCoins[u] \in 0 .. Seed + rows'[b].coins
    BY <2>3, <2>4, LedgerAssumption
  <2> QED BY <1>1, <2>5 DEF b
<1>13. SalesAreExclusive'
  <2> SUFFICES ASSUME NEW u \in Tx, pc'[u] = "commit", answer'[u] # ""
               PROVE  /\ accountLock'[job'[u].buyer] = u
                      /\ answer'[u] = "ok" => job'[u].item \notin owned'[job'[u].buyer]
    BY DEF SalesAreExclusive
  <2>1. u # t /\ pc[u] = "commit" /\ answer[u] # "" /\ job'[u] = job[u] /\ answer'[u] = answer[u]
    BY <1>1, <1>6
  <2>2. /\ job[u].buyer \in Accounts /\ accountLock[job[u].buyer] = u
        /\ answer[u] = "ok" => job[u].item \notin owned[job[u].buyer]
    BY <2>1 DEF LedgerInv, JobsAreRun, SalesAreExclusive, Purchases
  <2>3. accountLock'[job[u].buyer] = u
    BY <1>7, <2>1, <2>2
  <2>4. owned'[job[u].buyer] = owned[job[u].buyer]
    BY <1>1, <1>2, <2>1, <2>2 DEF LedgerInv, LedgerTypeOK
  <2> QED BY <2>1, <2>2, <2>3, <2>4
<1>14. CoinsStayLegal'
  <2> SUFFICES ASSUME NEW a \in Accounts
               PROVE  account'[a].coins \in 0 .. Seed + rows'[a].coins
    BY DEF CoinsStayLegal
  <2>1. account[a].coins \in 0 .. Seed + rows[a].coins
    BY DEF LedgerInv, CoinsStayLegal
  <2>2. /\ rows'[a].coins = rows[a].coins + mine(a).coins
        /\ rows[a].coins \in Nat /\ mine(a).coins \in Nat
    BY <1>3
  <2> HIDE DEF mine
  <2>3. CASE accountLock[a] = t
    BY <1>5, <2>2, <2>3, LedgerAssumption
  <2>4. CASE accountLock[a] # t
    BY <1>4, <2>1, <2>2, <2>4, LedgerAssumption
  <2> QED BY <2>3, <2>4
<1>15. MatchesAreCounted'
  <2> SUFFICES ASSUME NEW a \in Accounts
               PROVE  account'[a].played = rows'[a].all
    BY DEF MatchesAreCounted
  <2>1. account[a].played = rows[a].all
    BY DEF LedgerInv, MatchesAreCounted
  <2>2. /\ rows'[a].all = rows[a].all + mine(a).all
        /\ rows[a].all \in Nat /\ mine(a).all \in Nat
    BY <1>3
  <2> HIDE DEF mine
  <2>3. CASE accountLock[a] = t
    BY <1>5, <2>1, <2>2, <2>3
  <2>4. CASE accountLock[a] # t
    BY <1>4, <2>1, <2>2, <2>4
  <2> QED BY <2>3, <2>4
<1>16. SoldOnce'
  <2>1. \A u \in Tx : Sold(u)' => (u = t /\ answer[t] = "ok") \/ (u # t /\ Sold(u))
    BY <1>1, <1>6 DEF Sold
  <2>2. \A u \in Tx : Sold(u) => job[u] # job[t] \/ answer[t] # "ok"
    BY <1>2 DEF LedgerInv, SoldOnce
  <2>3. \A b \in Accounts : owned[b] \subseteq owned'[b]
    BY <1>1 DEF LedgerInv, LedgerTypeOK
  <2>4. \A u \in Tx : Sold(u)' => job'[u].item \in owned'[job'[u].buyer]
    <3> SUFFICES ASSUME NEW u \in Tx, Sold(u)'
                 PROVE  job[u].item \in owned'[job[u].buyer]
      BY <1>1
    <3>1. CASE u = t
      BY <1>1, <1>2, <2>1, <3>1 DEF LedgerInv, LedgerTypeOK
    <3>2. CASE u # t
      <4>1. Sold(u) /\ job[u].item \in owned[job[u].buyer]
        BY <2>1, <3>2 DEF LedgerInv, SoldOnce
      <4>2. job[u].buyer \in Accounts
        BY <4>1 DEF LedgerInv, JobsAreRun, Sold, Purchases
      <4> QED BY <2>3, <4>1, <4>2
    <3> QED BY <3>1, <3>2
  <2>5. \A u, v \in Tx : u # v /\ Sold(u)' /\ Sold(v)' => job'[u] # job'[v]
    BY <1>1, <2>1, <2>2 DEF LedgerInv, SoldOnce
  <2> QED BY <2>4, <2>5 DEF SoldOnce
<1> QED BY <1>8, <1>9, <1>10, <1>11, <1>12, <1>13, <1>14, <1>15, <1>16 DEF LedgerInv

(***************************************************************************)
(* The theorems                                                            *)
(***************************************************************************)

LEMMA LedgerInitInv == LedgerInit => LedgerInv
<1> SUFFICES ASSUME LedgerInit PROVE LedgerInv
  OBVIOUS
<1>1. LedgerTypeOK
  <2>1. [coins |-> Seed, played |-> 0] \in AccountRows /\ NoRows \in RowSums
    BY LedgerAssumption DEF AccountRows, NoRows, RowSums
  <2>2. account \in [Accounts -> AccountRows] /\ accountNew \in [Accounts -> AccountRows]
    BY <2>1 DEF LedgerInit, ForEach
  <2>3. rows \in [Accounts -> RowSums] /\ inserted \in [Tx -> [Accounts -> RowSums]]
    BY <2>1 DEF LedgerInit, ForEach
  <2>4. /\ games \in [Accounts -> Int] /\ gamesNew \in [Accounts -> Int]
        /\ seenGames \in [Tx -> [Accounts -> Int]]
    <3>1. NoProfile \in Int /\ 0 \in Int
      BY DEF NoProfile
    <3>2. games = [a \in Accounts |-> NoProfile] /\ gamesNew = games
      BY DEF LedgerInit, ForEach
    <3>3. seenGames = [t \in Tx |-> [a \in Accounts |-> 0]]
      BY DEF LedgerInit, ForEach
    <3> QED BY <3>1, <3>2, <3>3, Zenon
  <2>5. /\ accountLock \in [Accounts -> Tx \cup {Nobody}]
        /\ profileLock \in [Accounts -> Tx \cup {Nobody}]
        /\ season \in BOOLEAN /\ seasonLock \in Tx \cup {Nobody}
        /\ owned \in [Accounts -> SUBSET Items]
    BY LedgerAssumption DEF LedgerInit, ForEach
  <2>6. /\ pc \in [Tx -> Pcs] /\ job \in [Tx -> Purchases \cup Results \cup {NoJob}]
        /\ answer \in [Tx -> {"", "ok", "already_owned", "insufficient_coins"}]
        /\ slot \in [Tx -> Nat] /\ seenCoins \in [Tx -> Int]
    <3>1. pc = [t \in Tx |-> "idle"] /\ answer = [t \in Tx |-> ""] /\ job = [t \in Tx |-> NoJob]
      BY DEF LedgerInit
    <3>2. slot = [t \in Tx |-> 1] /\ seenCoins = [t \in Tx |-> 0]
      BY DEF LedgerInit
    <3>3. job \in [Tx -> Purchases \cup Results \cup {NoJob}]
      BY <3>1, Zenon
    <3>4. pc \in [Tx -> Pcs] /\ answer \in [Tx -> {"", "ok", "already_owned", "insufficient_coins"}]
      BY <3>1 DEF Pcs
    <3>5. slot \in [Tx -> Nat] /\ seenCoins \in [Tx -> Int]
      BY <3>2
    <3> QED BY <3>3, <3>4, <3>5, Zenon
  <2> QED BY <2>2, <2>3, <2>4, <2>5, <2>6 DEF LedgerTypeOK
<1>2. JobsAreRun /\ SightsWereTrue /\ SalesAreExclusive /\ SoldOnce
  BY DEF LedgerInit, JobsAreRun, SightsWereTrue, SalesAreExclusive, SoldOnce, Sold, RankPcs
<1>3. LocksAreLive /\ DraftsAreCounted
  BY LedgerAssumption DEF LedgerInit, LocksAreLive, DraftsAreCounted, ForEach
<1>4. CoinsStayLegal /\ MatchesAreCounted
  <2> SUFFICES ASSUME NEW a \in Accounts
               PROVE  /\ account[a].coins \in 0 .. Seed + rows[a].coins
                      /\ account[a].played = rows[a].all
    BY DEF CoinsStayLegal, MatchesAreCounted
  <2>1. /\ account[a].coins = Seed /\ account[a].played = 0
        /\ rows[a].coins = 0 /\ rows[a].all = 0
    BY DEF LedgerInit, ForEach, NoRows
  <2> QED BY <2>1, LedgerAssumption
<1> QED BY <1>1, <1>2, <1>3, <1>4 DEF LedgerInv

LEMMA LedgerNextInv == LedgerInv /\ [LedgerNext]_ledgerVars => LedgerInv'
<1> SUFFICES ASSUME LedgerInv, [LedgerNext]_ledgerVars PROVE LedgerInv'
  OBVIOUS
<1>1. CASE UNCHANGED ledgerVars
  <2>1. UNCHANGED <<account, accountNew, accountLock, games, gamesNew, profileLock,
                    season, seasonLock, owned, rows, pc, job, answer, slot, seenCoins,
                    seenGames, inserted>>
    BY <1>1 DEF ledgerVars, tableVars, accountVars, profileVars, seasonVars
  <2>2. LedgerTypeOK'
    BY <2>1 DEF LedgerInv, LedgerTypeOK
  <2>3. JobsAreRun' /\ LocksAreLive' /\ SightsWereTrue'
    BY <2>1 DEF LedgerInv, JobsAreRun, LocksAreLive, SightsWereTrue
  <2>4. DraftsAreCounted'
    BY <2>1 DEF LedgerInv, DraftsAreCounted
  <2>5. SalesAreExclusive' /\ CoinsStayLegal' /\ MatchesAreCounted'
    BY <2>1 DEF LedgerInv, SalesAreExclusive, CoinsStayLegal, MatchesAreCounted
  <2>6. SoldOnce'
    BY <2>1 DEF LedgerInv, SoldOnce, Sold
  <2> QED BY <2>2, <2>3, <2>4, <2>5, <2>6 DEF LedgerInv
<1>2. ASSUME NEW t \in Tx, NEW p \in Purchases, Ask(t, p) PROVE LedgerInv'
  BY <1>2, AskPreserves
<1>3. ASSUME NEW t \in Tx, NEW r \in Results, Report(t, r) PROVE LedgerInv'
  BY <1>3, ReportPreserves
<1>4. ASSUME NEW t \in Tx, Proceed(t) PROVE LedgerInv'
  BY <1>4, BuyPreserves, ReadSeasonPreserves, InsertSeasonPreserves, ReadProfilePreserves,
     InsertProfilePreserves, WriteProfilePreserves, WriteCountersPreserves, CommitPreserves,
     AbortPreserves
     DEF Proceed
<1> QED BY <1>1, <1>2, <1>3, <1>4 DEF LedgerNext

\* The invariant of the ledger holds whatever the transactions are and however
\* they overlap (services/accounts.py, matches.py, results.py).
THEOREM LedgerIsSound == LedgerSpec => []LedgerInv
  BY LedgerInitInv, LedgerNextInv, PTL DEF LedgerSpec

\* No balance is negative or more than was given and earned, although a
\* purchase writes an absolute balance it read before (buy_item).
THEOREM NoBalanceIsForged == LedgerSpec => []CoinsStayLegal
<1>1. LedgerInv => CoinsStayLegal
  BY DEF LedgerInv
<1> QED BY <1>1, LedgerIsSound, PTL

\* matches_played is the number of recorded matches of the account
\* (record_match_result and matches.record commit together).
THEOREM EveryMatchIsCounted == LedgerSpec => []MatchesAreCounted
<1>1. LedgerInv => MatchesAreCounted
  BY DEF LedgerInv
<1> QED BY <1>1, LedgerIsSound, PTL

\* Two purchases of one item by one account are not both answered with success
\* (buy_item holds the account's row from its first query to its commit).
THEOREM NoItemIsSoldTwice == LedgerSpec => []SoldOnce
<1>1. LedgerInv => SoldOnce
  BY DEF LedgerInv
<1> QED BY <1>1, LedgerIsSound, PTL
=============================================================================
