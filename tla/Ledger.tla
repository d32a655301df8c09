------------------------------- MODULE Ledger -------------------------------
(***************************************************************************)
(* What the database keeps of accounts: balances, counters, items and rank *)
(* profiles, written by two kinds of transactions that overlap.            *)
(*                                                                         *)
(*   - a purchase (POST /api/me/items, services/accounts.py): the account  *)
(*     is read with the token, written when the item is bought;            *)
(*   - a result (services/results.py _persist, matches.record): season and *)
(*     profiles are read or created, then profile and account of each      *)
(*     participant are written, slot by slot.                              *)
(*                                                                         *)
(* The database is Postgres under READ COMMITTED: a read sees committed    *)
(* rows, a write takes the row until the transaction ends, an insert waits *)
(* for another insert of the same key.  Each row has its committed version *)
(* and the one its holder has written.                                     *)
(***************************************************************************)
EXTENDS Integers, Sequences

CONSTANTS
  Accounts,
  Items,
  Price,          \* the server's price list
  Seed,           \* coins of a new account
  Results,        \* outcomes that may be recorded: who took part, slot by slot,
                  \* the coins each of them earned, whether the match is ranked
  SeasonSeeded,   \* the migration has inserted the first season
  Tx,             \* bound: the transactions
  Nobody

ASSUME LedgerAssumption ==
  /\ Price \in [Items -> Nat] /\ Seed \in Nat
  /\ SeasonSeeded \in BOOLEAN
  /\ Nobody \notin Tx
ASSUME ResultsAssumption ==
  \A r \in Results :
    /\ r.ranked \in BOOLEAN
    /\ r.who \in Seq(Accounts) /\ r.coins \in Seq(Nat)
    /\ Len(r.coins) = Len(r.who) /\ Len(r.who) > 0
    /\ r.ranked => Len(r.who) = 2 /\ r.who[1] # r.who[2]

VARIABLES
  account, accountNew, accountLock,  \* Account: coins and matches_played
  games, gamesNew, profileLock,      \* RankProfile: wins + losses of the season
  season, seasonLock,                \* the active Season exists
  owned,                             \* AccountItem
  rows,                              \* MatchParticipant: per account, how many
                                     \* there are, how many ranked, their coins
  \* of each transaction:
  pc,          \* the next statement
  job,         \* the request: [buyer, item] or a member of Results
  answer,      \* what buy_item answers
  slot,        \* the participant whose turn it is
  seenCoins,   \* the balance that was read
  seenGames,   \* the games of the profiles that were read
  inserted     \* the MatchParticipant rows it has inserted

accountVars == <<account, accountNew, accountLock>>
profileVars == <<games, gamesNew, profileLock>>
seasonVars == <<season, seasonLock>>
tableVars == <<accountVars, profileVars, seasonVars, owned, rows>>
ledgerVars == <<tableVars, pc, job, answer, slot, seenCoins, seenGames, inserted>>

Purchases == [buyer : Accounts, item : Items]
NoJob == [who |-> <<>>, coins |-> <<>>, ranked |-> FALSE]
NoProfile == -1
NoRows == [all |-> 0, ranked |-> 0, coins |-> 0]
ForEach(x) == [a \in Accounts |-> x]

LedgerInit ==
  /\ account = ForEach([coins |-> Seed, played |-> 0])
  /\ accountNew = account
  /\ accountLock = ForEach(Nobody)
  /\ games = ForEach(NoProfile)
  /\ gamesNew = games
  /\ profileLock = ForEach(Nobody)
  /\ season = SeasonSeeded
  /\ seasonLock = Nobody
  /\ owned = ForEach({})
  /\ rows = ForEach(NoRows)
  /\ pc = [t \in Tx |-> "idle"]
  /\ job = [t \in Tx |-> NoJob]
  /\ answer = [t \in Tx |-> ""]
  /\ slot = [t \in Tx |-> 1]
  /\ seenCoins = [t \in Tx |-> 0]
  /\ seenGames = [t \in Tx |-> ForEach(0)]
  /\ inserted = [t \in Tx |-> ForEach(NoRows)]

Move(t, where) == pc' = [pc EXCEPT ![t] = where]

\* Postgres: a row may be written by t when no other transaction holds it.
Free(lock, t) == lock \in {Nobody, t}
Take(lock, a, t) == lock' = [lock EXCEPT ![a] = t]

(***************************************************************************)
(* The end of a transaction: session_scope                                 *)
(***************************************************************************)

Release(lock, t) == [a \in Accounts |-> IF lock[a] = t THEN Nobody ELSE lock[a]]
Mine(lock, t, mine, others) ==
  [a \in Accounts |-> IF lock[a] = t THEN mine[a] ELSE others[a]]

ReleaseAll(t) ==
  /\ accountLock' = Release(accountLock, t)
  /\ profileLock' = Release(profileLock, t)
  /\ seasonLock' = IF seasonLock = t THEN Nobody ELSE seasonLock

Rollback(t) ==
  /\ ReleaseAll(t)
  /\ accountNew' = Mine(accountLock, t, account, accountNew)
  /\ gamesNew' = Mine(profileLock, t, games, gamesNew)
  /\ UNCHANGED <<account, games, season, owned, rows>>

Install(t) ==
  /\ ReleaseAll(t)
  /\ account' = Mine(accountLock, t, accountNew, account)
  /\ games' = Mine(profileLock, t, gamesNew, games)
  /\ season' = (season \/ seasonLock = t)
  /\ UNCHANGED <<accountNew, gamesNew>>

\* bug: the session is closed, but what it wrote is not taken back
FailHalfway(t) ==
  /\ Install(t) /\ Move(t, "failed")
  /\ UNCHANGED <<owned, rows, job, answer, slot, seenCoins, seenGames, inserted>>

\* bug: the session is left open
FailOpen(t) ==
  /\ Move(t, "failed")
  /\ UNCHANGED <<tableVars, job, answer, slot, seenCoins, seenGames, inserted>>

\* An exception: IntegrityError of an insert, or chosen as a deadlock's victim.
Fail(t) ==
  /\ Rollback(t) /\ Move(t, "failed")
  /\ UNCHANGED <<job, answer, slot, seenCoins, seenGames, inserted>>

AddRows(r, s) ==
  [all |-> r.all + s.all, ranked |-> r.ranked + s.ranked, coins |-> r.coins + s.coins]

Commit(t) ==
  /\ pc[t] = "commit"
  /\ Install(t)
  /\ owned' = IF answer[t] = "ok"
              THEN [owned EXCEPT ![job[t].buyer] = @ \cup {job[t].item}] ELSE owned
  /\ rows' = [a \in Accounts |-> AddRows(rows[a], inserted[t][a])]
  /\ Move(t, "done")
  /\ UNCHANGED <<job, answer, slot, seenCoins, seenGames, inserted>>

(***************************************************************************)
(* A purchase                                                              *)
(***************************************************************************)

\* current_account: the account is loaded with the token
Ask(t, p) ==
  /\ pc[t] = "idle"
  /\ Move(t, "buy")
  /\ job' = [job EXCEPT ![t] = p]
  /\ seenCoins' = [seenCoins EXCEPT ![t] = account[p.buyer].coins]
  /\ UNCHANGED <<tableVars, answer, slot, seenGames, inserted>>

\* bug: the balance is decremented by the database and not compared again
ChargedRelative(row, seen, price) == [row EXCEPT !.coins = @ - price]

\* The balance is written back as it was read with the token, less the price;
\* a free item leaves the column alone.
Charged(row, seen, price) ==
  IF price = 0 THEN row ELSE [row EXCEPT !.coins = seen - price]

\* bug: whatever is asked for is sold again
AnswerAgain(t) ==
  IF seenCoins[t] < Price[job[t].item] THEN "insufficient_coins" ELSE "ok"

Answer(t) ==
  IF job[t].item \in owned[job[t].buyer] THEN "already_owned"
  ELSE IF seenCoins[t] < Price[job[t].item] THEN "insufficient_coins"
  ELSE "ok"

\* buy_item.  Its first query flushes last_seen_at, which takes the row before
\* the items are looked at; nothing else waits between there and the commit.
Buy(t) ==
  LET a == job[t].buyer
  IN  /\ pc[t] = "buy"
      /\ Free(accountLock[a], t)
      /\ Take(accountLock, a, t)
      /\ accountNew' = IF Answer(t) = "ok"
                       THEN [accountNew EXCEPT
                               ![a] = Charged(@, seenCoins[t], Price[job[t].item])]
                       ELSE accountNew
      /\ answer' = [answer EXCEPT ![t] = Answer(t)]
      /\ Move(t, "commit")
      /\ UNCHANGED <<account, profileVars, seasonVars, owned, rows,
                     job, slot, seenCoins, seenGames, inserted>>

(***************************************************************************)
(* A result                                                                *)
(***************************************************************************)

Report(t, r) ==
  /\ pc[t] = "idle"
  /\ Move(t, IF r.ranked THEN "season" ELSE "counters")
  /\ job' = [job EXCEPT ![t] = r]
  /\ UNCHANGED <<tableVars, answer, slot, seenCoins, seenGames, inserted>>

Slot(t) == job[t].who[slot[t]]
LastSlot(t) == slot[t] = Len(job[t].who)

\* active_season: the SELECT, and the INSERT when it found none
ReadSeason(t) ==
  /\ pc[t] = "season"
  /\ Move(t, IF season THEN "profile" ELSE "newSeason")
  /\ UNCHANGED <<tableVars, job, answer, slot, seenCoins, seenGames, inserted>>

InsertSeason(t) ==
  /\ pc[t] = "newSeason"
  /\ Free(seasonLock, t)
  /\ IF season THEN Fail(t)
     ELSE /\ seasonLock' = t
          /\ Move(t, "profile")
          /\ UNCHANGED <<accountVars, profileVars, season, owned, rows,
                         job, answer, slot, seenCoins, seenGames, inserted>>

\* ensure_profile has the profile of a slot, with n games played.
HasProfile(t, n) ==
  /\ seenGames' = [seenGames EXCEPT ![t][Slot(t)] = n]
  /\ slot' = [slot EXCEPT ![t] = IF LastSlot(t) THEN 1 ELSE @ + 1]
  /\ Move(t, IF LastSlot(t) THEN "rank" ELSE "profile")
  /\ UNCHANGED <<job, answer, seenCoins, inserted>>

ReadProfile(t) ==
  /\ pc[t] = "profile"
  /\ IF games[Slot(t)] # NoProfile THEN HasProfile(t, games[Slot(t)])
     ELSE Move(t, "newProfile") /\ UNCHANGED <<job, answer, slot, seenCoins, seenGames, inserted>>
  /\ UNCHANGED tableVars

InsertProfile(t) ==
  /\ pc[t] = "newProfile"
  /\ Free(profileLock[Slot(t)], t)
  /\ IF games[Slot(t)] # NoProfile THEN Fail(t)
     ELSE /\ Take(profileLock, Slot(t), t)
          /\ gamesNew' = [gamesNew EXCEPT ![Slot(t)] = 0]
          /\ HasProfile(t, 0)
          /\ UNCHANGED <<accountVars, games, seasonVars, owned, rows>>

\* _apply_to_profile: the row is written as it was read, plus this match
WriteProfile(t) ==
  /\ pc[t] = "rank"
  /\ Free(profileLock[Slot(t)], t)
  /\ Take(profileLock, Slot(t), t)
  /\ gamesNew' = [gamesNew EXCEPT ![Slot(t)] = seenGames[t][Slot(t)] + 1]
  /\ Move(t, "counters")
  /\ UNCHANGED <<accountVars, games, seasonVars, owned, rows,
                 job, answer, slot, seenCoins, seenGames, inserted>>

\* record_match_result: one UPDATE, relative to the row as it is
Counted(row, coins) == [coins |-> row.coins + coins, played |-> row.played + 1]
Row(t) ==
  [all |-> 1, ranked |-> IF job[t].ranked THEN 1 ELSE 0, coins |-> job[t].coins[slot[t]]]

\* The participant's row is flushed with the counters.
WriteCounters(t) ==
  LET a == Slot(t)
  IN  /\ pc[t] = "counters"
      /\ Free(accountLock[a], t)
      /\ Take(accountLock, a, t)
      /\ accountNew' = [accountNew EXCEPT ![a] = Counted(@, Row(t).coins)]
      /\ inserted' = [inserted EXCEPT ![t][a] = AddRows(@, Row(t))]
      /\ slot' = [slot EXCEPT ![t] = IF LastSlot(t) THEN @ ELSE @ + 1]
      /\ Move(t, IF LastSlot(t) THEN "commit" ELSE IF job[t].ranked THEN "rank" ELSE "counters")
      /\ UNCHANGED <<account, profileVars, seasonVars, owned, rows,
                     job, answer, seenCoins, seenGames>>

(***************************************************************************)
(* The database's deadlock detection                                       *)
(***************************************************************************)

\* Who holds what t waits for
Holder(t) ==
  CASE pc[t] = "buy" -> accountLock[job[t].buyer]
    [] pc[t] = "counters" -> accountLock[Slot(t)]
    [] pc[t] \in {"rank", "newProfile"} -> profileLock[Slot(t)]
    [] pc[t] = "newSeason" -> seasonLock
    [] OTHER -> Nobody

\* A circle of transactions each of which waits for the next: one is aborted.
Abort(t) ==
  /\ \E circle \in SUBSET Tx :
       /\ t \in circle
       /\ \A u \in circle : Holder(u) \in circle \ {u}
  /\ Fail(t)

(***************************************************************************)
(* The specification                                                       *)
(***************************************************************************)

Proceed(t) ==
  \/ Buy(t)
  \/ ReadSeason(t) \/ InsertSeason(t)
  \/ ReadProfile(t) \/ InsertProfile(t)
  \/ WriteProfile(t) \/ WriteCounters(t)
  \/ Commit(t)
  \/ Abort(t)

LedgerNext ==
  \E t \in Tx :
    \/ \E p \in Purchases : Ask(t, p)
    \/ \E r \in Results : Report(t, r)
    \/ Proceed(t)

LedgerSpec == LedgerInit /\ [][LedgerNext]_ledgerVars

\* A request that runs is served: the event loop comes back to it, and the
\* database answers every statement that nothing blocks.
FairLedgerSpec == LedgerSpec /\ \A t \in Tx : WF_ledgerVars(Proceed(t))

(***************************************************************************)
(* Properties                                                              *)
(***************************************************************************)

\* Coins lost to a concurrent purchase or not, no balance is ever negative and
\* none exceeds what the account was given and earned.
CoinsStayLegal ==
  \A a \in Accounts : account[a].coins \in 0 .. Seed + rows[a].coins

\* matches_played counts the recorded matches of the account, however results
\* overlap, wait for each other or are rolled back.
MatchesAreCounted == \A a \in Accounts : account[a].played = rows[a].all

\* A rank profile exists only with a recorded ranked match, and never shows
\* more games than there were.
RankProfilesAreReal ==
  \A a \in Accounts :
    games[a] # NoProfile => games[a] >= 1 /\ games[a] <= rows[a].ranked

Sold(t) == pc[t] = "done" /\ answer[t] = "ok"

\* An item is sold to an account once, and it is then in its inventory.
SoldOnce ==
  /\ \A t \in Tx : Sold(t) => job[t].item \in owned[job[t].buyer]
  /\ \A t, u \in Tx : t # u /\ Sold(t) /\ Sold(u) => job[t] # job[u]

(***************************************************************************)
(* The inductive invariant                                                 *)
(***************************************************************************)

AccountRows == [coins : Int, played : Nat]
RowSums == [all : Nat, ranked : Nat, coins : Nat]
RankPcs == {"season", "newSeason", "profile", "newProfile", "rank"}
Pcs == RankPcs \cup {"idle", "buy", "counters", "commit", "done", "failed"}

LedgerTypeOK ==
  /\ account \in [Accounts -> AccountRows] /\ accountNew \in [Accounts -> AccountRows]
  /\ accountLock \in [Accounts -> Tx \cup {Nobody}]
  /\ games \in [Accounts -> Int] /\ gamesNew \in [Accounts -> Int]
  /\ profileLock \in [Accounts -> Tx \cup {Nobody}]
  /\ season \in BOOLEAN /\ seasonLock \in Tx \cup {Nobody}
  /\ owned \in [Accounts -> SUBSET Items]
  /\ rows \in [Accounts -> RowSums]
  /\ pc \in [Tx -> Pcs]
  /\ job \in [Tx -> Purchases \cup Results \cup {NoJob}]
  /\ answer \in [Tx -> {"", "ok", "already_owned", "insufficient_coins"}]
  /\ slot \in [Tx -> Nat]
  /\ seenCoins \in [Tx -> Int]
  /\ seenGames \in [Tx -> [Accounts -> Int]]
  /\ inserted \in [Tx -> [Accounts -> RowSums]]

\* What a transaction is at is what its request calls for.
JobsAreRun ==
  \A t \in Tx :
    /\ pc[t] = "idle" => slot[t] = 1
    /\ pc[t] = "buy" => job[t] \in Purchases
    /\ pc[t] \in RankPcs \cup {"counters"} =>
         job[t] \in Results /\ slot[t] \in 1 .. Len(job[t].who)
    /\ answer[t] # "" => job[t] \in Purchases /\ pc[t] \in {"commit", "done", "failed"}

\* Rows are held by transactions that have written them and go on.
LocksAreLive ==
  /\ \A a \in Accounts : accountLock[a] = Nobody => accountNew[a] = account[a]
  /\ \A a \in Accounts, t \in Tx :
       accountLock[a] = t => pc[t] \in {"rank", "counters", "commit"}

\* What the holder of an account has written is the committed row with the
\* participants it has inserted, and nobody else has inserted any.
DraftsAreCounted ==
  \A t \in Tx : pc[t] \notin {"done", "failed"} =>
    \A a \in Accounts :
      IF accountLock[a] = t
      THEN /\ accountNew[a].played = account[a].played + inserted[t][a].all
           /\ accountNew[a].coins \in 0 .. Seed + rows[a].coins + inserted[t][a].coins
      ELSE inserted[t][a] = NoRows

\* The balance a purchase works with was once the balance.
SightsWereTrue ==
  \A t \in Tx : pc[t] = "buy" => seenCoins[t] \in 0 .. Seed + rows[job[t].buyer].coins

\* An item about to be sold is not in the inventory, and the account is held.
SalesAreExclusive ==
  \A t \in Tx : pc[t] = "commit" /\ answer[t] # "" =>
    /\ accountLock[job[t].buyer] = t
    /\ answer[t] = "ok" => job[t].item \notin owned[job[t].buyer]

LedgerInv ==
  /\ LedgerTypeOK /\ JobsAreRun /\ LocksAreLive /\ DraftsAreCounted
  /\ SightsWereTrue /\ SalesAreExclusive
  /\ CoinsStayLegal /\ MatchesAreCounted /\ SoldOnce

\* Every request that came in ends: committed, or given up as a whole.
TransactionsEnd == \A t \in Tx : pc[t] # "idle" ~> pc[t] \in {"done", "failed"}
=============================================================================
