------------------------------- MODULE Identity -------------------------------
(***************************************************************************)
(* Who the browser is, what it owns and what it looks like: the device     *)
(* token of api/identity.ts, the profile half of store/gameStore.ts, the   *)
(* localStorage copy of hooks/useLocalProfile.ts, and the screens that     *)
(* write them: App.useIdentity, AccountModal, AvatarEditor.                *)
(*                                                                         *)
(* The server is the authority and is reached by REST calls.  Calls may    *)
(* overlap, fail before or after they were served, and be answered when    *)
(* the component that made them, or the whole page, is gone.  Every answer *)
(* is applied where it arrives: nothing ties it to the token it was made   *)
(* with.                                                                   *)
(*                                                                         *)
(* A token stands for its account.  Nickname and customization are the     *)
(* Fields of the profile, their contents the number of the edit that made  *)
(* them.  The store and localStorage are written together and are one      *)
(* value here; only the list of items is kept a third time, by the editor. *)
(***************************************************************************)
EXTENDS Integers, FiniteSets

CONSTANTS
  Accounts,    \* every account there may ever be
  Residents,   \* those that exist from the start, with a login
  NoAccount,
  Items,       \* what the shop sells, at one coin each
  NoItem,
  PocketCoins, \* coins of a browser that never had an account
  SeedCap,     \* ACCOUNT_SEED_COINS_MAX
  MaxCoins,    \* bound: coins of a resident at the start
  MaxCalls,    \* bound: calls out at the same time
  MaxEdits,    \* bound: edits of the profile over a behaviour
  MaxReloads   \* bound: reloads of the page over a behaviour

ASSUME AccountsAssumption == Residents \subseteq Accounts /\ NoAccount \notin Accounts
ASSUME ItemsAssumption == IsFiniteSet(Items) /\ NoItem \notin Items
ASSUME IdentityBounds ==
  /\ PocketCoins \in Nat /\ SeedCap \in Nat /\ MaxCoins \in Nat
  /\ MaxCalls \in Nat /\ MaxEdits \in Nat /\ MaxReloads \in Nat

VARIABLES
  \* the server
  db,         \* this deployment has a database (every call is a 503 without)
  bank,       \* bank[a]: the account as the server keeps it
  alive,      \* accounts whose tokens are honoured
  \* localStorage and the store
  token,      \* bulletBrakToken
  disk,       \* coins, items and profile
  account,    \* store.accountId
  localOnly,  \* store.localOnly
  login,      \* store.loginId or store.hasRecoveryCode is set
  rankOf,     \* whose rank store.myRank is
  owned,      \* useLocalProfile's own list of items
  pending,    \* identity.ts pending, with the timer armed while it is not empty
  calls,      \* the REST calls that have not been answered
  \* histories and bounds
  edits, reloads,
  overlapped, \* a call was made, or an edit, while another call was out
  left,       \* the lobby was left with a purchase out
  unsaved     \* a push failed and nothing has replaced the profile since

storeVars  == <<account, localOnly, login, rankOf>>
serverVars == <<db, bank, alive>>
vars == <<serverVars, token, disk, storeVars, owned, pending, calls,
          edits, reloads, overlapped, left, unsaved>>

Fields    == {"nickname", "customization"}
NoEdits   == [f \in Fields |-> 0]

\* AccountResponse, and what a seed carries.
Copy(a, c, o, p, l) == [id |-> a, coins |-> c, owned |-> o, profile |-> p, login |-> l]
Blank == Copy(NoAccount, 0, {}, NoEdits, FALSE)
Seed  == Copy(NoAccount, disk.coins, disk.owned, disk.profile, FALSE)

(***************************************************************************)
(* Calls.  owner: "open" while the component that made the call is on      *)
(* screen, "left" when it is not, "orphan" after a reload.  status: "sent",*)
(* or how it ended: "ok", "rejected", "401", "503", "failed".              *)
(***************************************************************************)

Call(kind) ==
  [kind |-> kind, token |-> token, owner |-> "open", status |-> "sent", copy |-> Blank,
   item |-> NoItem, before |-> 0, edit |-> 0, target |-> NoAccount, patch |-> NoEdits]

Modal     == {"login", "credentials"}
Effects   == {"anon", "buy", "patch", "credentials"}
Tokenless == {"anon", "login"}

Out(c)    == c.status = "sent"
Mine(c)   == c.owner # "orphan"
Waiting   == calls # {}

\* api.request: one more call is out.
Make(c) ==
  /\ Cardinality(calls) < MaxCalls
  /\ calls' = calls \cup {c}
  /\ overlapped' = (overlapped \/ Waiting)

\* A handler is through, or goes on to the next call.
Done(c)         == calls' = calls \ {c}
Continue(c, d)  == calls' = (calls \ {c}) \cup {d}

\* bootstrapIdentity up to its first await, with the seed as it is at loading.
BootCall ==
  IF token = NoAccount THEN [Call("anon") EXCEPT !.copy = Seed]
                       ELSE [Call("me") EXCEPT !.copy = Seed]

Init ==
  /\ db \in BOOLEAN
  /\ \E c \in [Residents -> 1 .. MaxCoins] :
       bank = [a \in Accounts |-> IF a \in Residents
                THEN Copy(a, c[a], {}, NoEdits, TRUE)
                ELSE Copy(a, 0, {}, NoEdits, FALSE)]
  /\ alive = Residents
  /\ token \in Residents \cup {NoAccount}
  /\ disk = [coins |-> IF token = NoAccount \/ ~db THEN PocketCoins ELSE bank[token].coins,
             owned |-> {}, profile |-> NoEdits]
  /\ account = NoAccount /\ localOnly = FALSE /\ login = FALSE
  /\ rankOf = NoAccount
  /\ owned = {} /\ pending = NoEdits
  /\ calls = {BootCall}
  /\ edits = 0 /\ reloads = 0
  /\ overlapped = FALSE /\ left = FALSE /\ unsaved = FALSE

(***************************************************************************)
(* The server: services/accounts.py behind api/auth.py                     *)
(***************************************************************************)

Answered(c, status, copy) ==
  calls' = (calls \ {c}) \cup
    IF Mine(c) THEN {[c EXCEPT !.status = status, !.copy = copy]} ELSE {}

browserVars == <<token, disk, storeVars, owned, pending, edits, reloads, overlapped, left,
                 unsaved>>

\* No database, or a token nobody knows.
ServeRefusal(c) ==
  /\ Out(c)
  /\ \/ ~db /\ Answered(c, "503", c.copy)
     \/ db /\ c.kind \notin Tokenless /\ c.token \notin alive /\ Answered(c, "401", c.copy)
  /\ UNCHANGED <<serverVars, browserVars>>

Honoured(c) == Out(c) /\ db /\ (c.kind \in Tokenless \/ c.token \in alive)

\* GET /api/me.
ServeMe(c) ==
  /\ c.kind = "me" /\ Honoured(c)
  /\ Answered(c, "ok", bank[c.token])
  /\ UNCHANGED <<serverVars, browserVars>>

\* POST /api/auth/anon: a new account, its coins cut to the cap.
ServeAnon(c) ==
  /\ c.kind = "anon" /\ Honoured(c)
  /\ \E a \in Accounts :
       /\ bank[a] = Copy(a, 0, {}, NoEdits, FALSE) /\ a \notin alive \cup Residents
       /\ bank' = [bank EXCEPT ![a] = Copy(a, IF c.copy.coins > SeedCap THEN SeedCap ELSE c.copy.coins,
                                           c.copy.owned, c.copy.profile, FALSE)]
       /\ alive' = alive \cup {a}
       /\ Answered(c, "ok", bank'[a])
  /\ UNCHANGED <<db, browserVars>>

\* POST /api/me/items: already_owned, insufficient_coins, or sold.
ServeBuy(c) ==
  /\ c.kind = "buy" /\ Honoured(c)
  /\ LET mine == bank[c.token] IN
       bank' = IF c.item \in mine.owned \/ mine.coins < 1 THEN bank
               ELSE [bank EXCEPT ![c.token].coins = @ - 1, ![c.token].owned = @ \cup {c.item}]
  /\ Answered(c, "ok", bank'[c.token])
  /\ UNCHANGED <<db, alive, browserVars>>

\* PATCH /api/me.
ServePatch(c) ==
  /\ c.kind = "patch" /\ Honoured(c)
  /\ bank' = [bank EXCEPT ![c.token].profile =
       [f \in Fields |-> IF c.patch[f] = 0 THEN @[f] ELSE c.patch[f]]]
  /\ Answered(c, "ok", Blank)
  /\ UNCHANGED <<db, alive, browserVars>>

\* POST /api/auth/login and /api/auth/redeem: another account's token, or no.
ServeSignIn(c) ==
  /\ c.kind = "login" /\ Honoured(c)
  /\ IF c.target \in alive /\ bank[c.target].login
       THEN Answered(c, "ok", bank[c.target]) ELSE Answered(c, "rejected", Blank)
  /\ UNCHANGED <<serverVars, browserVars>>

\* POST /api/me/credentials (the id may be taken) and /api/me/recovery-code.
ServeSecret(c) ==
  /\ c.kind = "credentials" /\ Honoured(c)
  /\ \/ bank' = bank /\ Answered(c, "rejected", Blank)
     \/ bank' = [bank EXCEPT ![c.token].login = TRUE] /\ Answered(c, "ok", Blank)
  /\ UNCHANGED <<db, alive, browserVars>>

\* An account is deleted, or the database started afresh.
DropAccount(a) ==
  /\ a \in alive
  /\ alive' = alive \ {a}
  /\ UNCHANGED <<db, bank, browserVars, calls>>

\* A call, or its answer, is lost: ApiError(0).
Lose(c) ==
  /\ Mine(c) /\ c.status \in {"sent", "ok"}
  /\ Answered(c, "failed", c.copy)
  /\ UNCHANGED <<serverVars, browserVars>>

(***************************************************************************)
(* gameStore.ts: the account reaches the profile                           *)
(***************************************************************************)

\* bug: the items of the account are added to those of the browser
ApplyAccountMerging(acc) ==
  /\ disk' = [coins |-> acc.coins, owned |-> disk.owned \cup acc.owned, profile |-> acc.profile]
  /\ account' = acc.id /\ localOnly' = FALSE /\ login' = acc.login
  /\ owned' = IF acc.id # account THEN disk'.owned ELSE owned
  /\ unsaved' = FALSE

\* applyAccount: everything is overwritten.  The editor reads its list again
\* when accountId is another one.
ApplyAccount(acc) ==
  /\ disk' = [coins |-> acc.coins, owned |-> acc.owned, profile |-> acc.profile]
  /\ account' = acc.id /\ localOnly' = FALSE /\ login' = acc.login
  /\ owned' = IF acc.id # account THEN acc.owned ELSE owned
  /\ unsaved' = FALSE

\* refreshRank: fetchMyRank turns every failure into null.  Asking and being
\* answered are one step: nothing here is decided by when the answer comes.
RefreshRank(by) == rankOf' \in {NoAccount} \cup (IF db /\ by \in alive THEN {by} ELSE {})

\* markLocalOnly.
MarkLocalOnly ==
  /\ localOnly' = TRUE /\ rankOf' = NoAccount
  /\ UNCHANGED <<disk, account, login, owned, unsaved>>

(***************************************************************************)
(* App.useIdentity                                                         *)
(***************************************************************************)

\* bug: a failed call is taken for a token that is not known any more
BootAnswersClearing(c) ==
  /\ c.kind = "me" /\ ~Out(c)
  /\ IF c.status = "ok"
       THEN ApplyAccount(c.copy) /\ Done(c) /\ RefreshRank(token) /\ UNCHANGED token
       ELSE /\ token' = NoAccount
            /\ Continue(c, [Call("anon") EXCEPT !.token = NoAccount, !.copy = c.copy])
            /\ UNCHANGED <<disk, storeVars, owned, unsaved>>
  /\ UNCHANGED <<serverVars, pending, edits, reloads, left, overlapped>>

\* bootstrapIdentity with a token.  A token nobody knows is thrown away for a
\* new account; any other failure leaves everything in this browser.
BootAnswers(c) ==
  /\ c.kind = "me" /\ ~Out(c)
  /\ CASE c.status = "ok" ->
            /\ ApplyAccount(c.copy) /\ Done(c)
            /\ RefreshRank(token) /\ UNCHANGED token
       [] c.status = "401" ->
            /\ token' = NoAccount
            /\ Continue(c, [Call("anon") EXCEPT !.token = NoAccount, !.copy = c.copy])
            /\ UNCHANGED <<disk, storeVars, owned, unsaved>>
       [] OTHER ->
            MarkLocalOnly /\ Done(c) /\ UNCHANGED token
  /\ UNCHANGED <<serverVars, pending, edits, reloads, left, overlapped>>

\* bootstrapIdentity without a token.
AnonAnswers(c) ==
  /\ c.kind = "anon" /\ ~Out(c)
  /\ IF c.status = "ok"
       THEN token' = c.copy.id /\ ApplyAccount(c.copy) /\ Done(c) /\ RefreshRank(token')
       ELSE MarkLocalOnly /\ Done(c) /\ UNCHANGED token
  /\ UNCHANGED <<serverVars, pending, edits, reloads, left, overlapped>>

\* rank_update after a ranked match: refreshRank.
RankedMatchEnds ==
  /\ token # NoAccount /\ account # NoAccount
  /\ RefreshRank(token)
  /\ UNCHANGED <<serverVars, token, disk, account, localOnly, login, owned, pending, calls,
                 edits, reloads, overlapped, left, unsaved>>

(***************************************************************************)
(* The profile: setNickname, setCustomization and the debounced push       *)
(***************************************************************************)

\* bug: the newer patch replaces the one that waits
EditReplacing(f) ==
  /\ edits < MaxEdits
  /\ edits' = edits + 1
  /\ disk' = [disk EXCEPT !.profile[f] = edits']
  /\ pending' = [NoEdits EXCEPT ![f] = edits']
  /\ overlapped' = (overlapped \/ Waiting)
  /\ UNCHANGED <<serverVars, token, storeVars, owned, calls, reloads, left, unsaved>>

\* A field of the profile is edited: kept at once, pushed when it is quiet.
Edit(f) ==
  /\ edits < MaxEdits
  /\ edits' = edits + 1
  /\ disk' = [disk EXCEPT !.profile[f] = edits']
  /\ pending' = [pending EXCEPT ![f] = edits']
  /\ overlapped' = (overlapped \/ Waiting)
  /\ UNCHANGED <<serverVars, token, storeVars, owned, calls, reloads, left, unsaved>>

\* The timer of pushProfileDebounced, and pushProfile up to its call.
PushTimer ==
  /\ pending # NoEdits
  /\ pending' = NoEdits
  /\ IF token = NoAccount
       THEN unsaved' = TRUE /\ UNCHANGED <<calls, overlapped>>
       ELSE Make([Call("patch") EXCEPT !.patch = pending]) /\ UNCHANGED unsaved
  /\ UNCHANGED <<serverVars, token, disk, storeVars, owned, edits, reloads, left>>

\* Whatever the answer, nothing follows.
PushAnswered(c) ==
  /\ c.kind = "patch" /\ ~Out(c)
  /\ unsaved' = (unsaved \/ c.status # "ok")
  /\ Done(c)
  /\ UNCHANGED <<serverVars, token, disk, storeVars, owned, pending, edits, reloads, left, overlapped>>

(***************************************************************************)
(* The shop: AvatarEditor.selectPart and useLocalProfile.buyItem           *)
(***************************************************************************)

Buying == \E c \in calls : c.kind = "buy" /\ c.owner = "open"

\* A thumb of the editor that is locked, and is not for the moment disabled.
ForSale(i) == i \notin owned /\ ~Buying

\* selectPart puts the part on: the customization as it was when the button
\* was pressed, with the part changed.
PutOn(edit) ==
  /\ disk' = [disk EXCEPT !.profile.customization = edit]
  /\ pending' = [pending EXCEPT !.customization = edit]

\* The local rule, with the balance read before the call.
PayLocally(i, before, edit) ==
  /\ disk' = [disk EXCEPT !.coins = before - 1, !.owned = owned \cup {i},
                          !.profile.customization = edit]
  /\ owned' = owned \cup {i}
  /\ pending' = [pending EXCEPT !.customization = edit]

\* Without a token nothing is asked: paid and put on, or too poor.
BuyLocally(i) ==
  /\ token = NoAccount
  /\ ForSale(i) /\ disk.coins >= 1
  /\ edits < MaxEdits /\ edits' = edits + 1
  /\ PayLocally(i, disk.coins, edits')
  /\ overlapped' = (overlapped \/ Waiting)
  /\ UNCHANGED <<serverVars, token, storeVars, calls, reloads, left, unsaved>>

\* bug: the latch that stops a second press is missing
BuyItemUnlatched(i) ==
  /\ token # NoAccount
  /\ i \notin owned
  /\ edits < MaxEdits /\ edits' = edits + 1
  /\ Make([Call("buy") EXCEPT !.item = i, !.before = disk.coins, !.edit = edits'])
  /\ UNCHANGED <<serverVars, token, disk, storeVars, owned, pending, reloads, left, unsaved>>

\* With one the server is asked, by one press at a time.
BuyItem(i) ==
  /\ token # NoAccount
  /\ ForSale(i)
  /\ edits < MaxEdits /\ edits' = edits + 1
  /\ Make([Call("buy") EXCEPT !.item = i, !.before = disk.coins, !.edit = edits'])
  /\ UNCHANGED <<serverVars, token, disk, storeVars, owned, pending, reloads, left, unsaved>>

\* The server has judged: its balance and its list, whatever it said.
BuyJudged(c) ==
  /\ c.kind = "buy" /\ c.status = "ok"
  /\ owned' = IF c.owner = "open" THEN c.copy.owned ELSE owned
  /\ disk' = [coins |-> c.copy.coins, owned |-> c.copy.owned, profile |->
               IF c.item \in c.copy.owned
                 THEN [disk.profile EXCEPT !.customization = c.edit] ELSE disk.profile]
  /\ pending' = IF c.item \in c.copy.owned
                  THEN [pending EXCEPT !.customization = c.edit] ELSE pending
  /\ Done(c)
  /\ UNCHANGED <<serverVars, token, storeVars, edits, reloads, left, overlapped, unsaved>>

\* It has not.  Without a database the local rule holds after all; a token
\* nobody knows is thrown away; otherwise nothing was bought.
BuyWithoutServer(c) ==
  /\ c.kind = "buy" /\ c.status \in {"503", "401", "failed"}
  /\ token' = IF c.status = "401" THEN NoAccount ELSE token
  /\ IF c.status = "503" /\ c.before >= 1
       THEN PayLocally(c.item, c.before, c.edit)
       ELSE UNCHANGED <<disk, owned, pending>>
  /\ Done(c)
  /\ UNCHANGED <<serverVars, storeVars, edits, reloads, left, overlapped, unsaved>>

(***************************************************************************)
(* AccountModal                                                            *)
(***************************************************************************)

ModalBusy == \E c \in calls : c.kind \in Modal /\ c.owner = "open"

\* The forms are hidden without accounts and their buttons wait for one another.
CreateForm == ~localOnly /\ ~ModalBusy
LoginForm  == ~localOnly /\ ~ModalBusy
CodeForm   == ~localOnly /\ ~ModalBusy

Submit(c) ==
  /\ Cardinality(calls) < MaxCalls
  /\ calls' = calls \cup {c}
  /\ overlapped' = (overlapped \/ Waiting \/ pending # NoEdits)
  /\ UNCHANGED <<serverVars, token, disk, storeVars, owned, pending, edits, reloads, left, unsaved>>

\* submitCreate and requestCode: for the account of the token, if there is one.
SubmitCreate == CreateForm /\ token # NoAccount /\ Submit(Call("credentials"))
RequestCode  == CodeForm /\ token # NoAccount /\ Submit(Call("credentials"))

\* submitLogin and submitCode: for any account, whoever this browser is.
SubmitLogin(a) == LoginForm /\ Submit([Call("login") EXCEPT !.target = a])
SubmitCode(a)  == CodeForm /\ Submit([Call("login") EXCEPT !.target = a])

\* settle, in identity.ts and in the modal: the token, then the account.
SignedIn(c) ==
  /\ c.kind = "login" /\ ~Out(c)
  /\ IF c.status = "ok"
       THEN token' = c.copy.id /\ ApplyAccount(c.copy)
       ELSE UNCHANGED <<token, disk, account, localOnly, login, owned, unsaved>>
  /\ Done(c)
  /\ UNCHANGED <<serverVars, rankOf, pending, edits, reloads, left, overlapped>>

\* A login was given to the account, or a recovery code.
SecretSet(c) ==
  /\ c.kind = "credentials" /\ ~Out(c)
  /\ login' = (login \/ c.status = "ok")
  /\ Done(c)
  /\ UNCHANGED <<serverVars, token, disk, account, localOnly, rankOf, owned, pending,
                 edits, reloads, overlapped, left, unsaved>>

\* The dialog is closed (Esc) and opened again, with a call of it still out.
ReopenModal ==
  /\ ModalBusy
  /\ calls' = {IF c.kind \in Modal THEN [c EXCEPT !.owner = "left"] ELSE c : c \in calls}
  /\ UNCHANGED <<serverVars, browserVars>>

\* The lobby is left for a room and entered again: a new editor reads its list
\* from localStorage.
RemountLobby ==
  /\ Buying
  /\ calls' = {IF c.owner = "open" /\ c.kind \in Modal \cup {"buy"}
                 THEN [c EXCEPT !.owner = "left"] ELSE c : c \in calls}
  /\ owned' = disk.owned /\ left' = TRUE
  /\ UNCHANGED <<serverVars, token, disk, storeVars, pending, edits, reloads,
                 overlapped, unsaved>>

\* The page is loaded again.  What was sent may still be served.
Reload ==
  /\ reloads < MaxReloads /\ reloads' = reloads + 1
  /\ \E kept \in SUBSET {c \in calls : Out(c) /\ c.kind \in Effects} :
       /\ Cardinality(kept) < MaxCalls
       /\ calls' = {[c EXCEPT !.owner = "orphan"] : c \in kept}
                   \cup {BootCall}
  /\ overlapped' = (overlapped \/ Waiting)
  /\ account' = NoAccount /\ localOnly' = FALSE /\ login' = FALSE /\ rankOf' = NoAccount
  /\ owned' = disk.owned /\ pending' = NoEdits
  /\ UNCHANGED <<serverVars, token, disk, edits, unsaved, left>>

Serve(c) == \/ ServeRefusal(c) \/ ServeMe(c) \/ ServeAnon(c) \/ ServeBuy(c)
            \/ ServePatch(c) \/ ServeSignIn(c) \/ ServeSecret(c)
Answer(c) == \/ BootAnswers(c) \/ AnonAnswers(c)
             \/ PushAnswered(c) \/ BuyJudged(c) \/ BuyWithoutServer(c)
             \/ SignedIn(c) \/ SecretSet(c)
User == \/ \E f \in Fields : Edit(f)
        \/ \E i \in Items : BuyLocally(i) \/ BuyItem(i)
        \/ \E a \in Accounts : SubmitLogin(a) \/ SubmitCode(a)
        \/ SubmitCreate \/ RequestCode
        \/ ReopenModal \/ RemountLobby \/ Reload \/ RankedMatchEnds

Next == \/ User \/ PushTimer
        \/ \E c \in calls : Serve(c) \/ Lose(c) \/ Answer(c)
        \/ \E a \in Accounts : DropAccount(a)

Spec == Init /\ [][Next]_vars

\* Bound: what comes after calls have overlapped is not explored, as no property
\* speaks of it, unless there is no database.
NotOverlapped == db => ~overlapped

(***************************************************************************)
(* Properties                                                              *)
(***************************************************************************)

\* Types; a balance is never negative.
TypeOK ==
  /\ db \in BOOLEAN /\ alive \subseteq Accounts
  /\ token \in Accounts \cup {NoAccount} /\ account \in Accounts \cup {NoAccount}
  /\ rankOf \in Accounts \cup {NoAccount}
  /\ disk.coins \in Nat /\ disk.owned \subseteq Items /\ owned \subseteq Items
  /\ disk.profile \in [Fields -> 0 .. MaxEdits] /\ pending \in [Fields -> 0 .. MaxEdits]
  /\ login \in BOOLEAN
  /\ Cardinality(calls) <= MaxCalls
  /\ \A a \in Accounts : bank[a].coins \in Nat /\ bank[a].owned \subseteq Items

Wealth(w) == w.coins + Cardinality(w.owned)

\* As long as calls do not overlap, coins, items and login on the screen are
\* those of one account, and it is the token's: nothing is carried over from
\* the profile that was there before, and a purchase whose answer was lost has
\* neither eaten nor made a coin (applyAccount, buyItem, settle).  Once the token
\* is thrown away the browser keeps the books, by the editor's list of items:
\* that one misses what was bought while the lobby was left, and sells it again.
ProfileIsOneAccounts ==
  account # NoAccount /\ ~overlapped =>
    /\ token \in {account, NoAccount}
    /\ token = account => /\ Wealth(disk) = Wealth(bank[account])
                          /\ owned \subseteq bank[account].owned
    /\ login => bank[account].login

\* A token is all there is to come back to an account by: while it is honoured,
\* and calls do not overlap, nothing but signing in to another account
\* replaces it (clearToken and saveToken in identity.ts).
AccountsAreNotLost ==
  [][(token \in alive /\ token' # token /\ ~overlapped) =>
       \E c \in calls : c.kind = "login" /\ token' = c.copy.id]_vars

\* Without a database the browser keeps the books alone: whatever is bought, by
\* however many presses, coins and items add up to what there was at first
\* (buyItem, busyRef and the balance read before the call) - unless the lobby
\* was left with a purchase out, which takes the latch away.
LocalLedgerBalances == ~db /\ ~left => Wealth(disk) = PocketCoins

\* When everything is quiet and no call has overlapped or failed, the profile on
\* the server is the one on the screen, both fields of it, although an edit is
\* pushed only after a pause and other edits may come in between
\* (pushProfileDebounced).
EditsAreSaved ==
  account # NoAccount /\ token = account /\ token \in alive
    /\ ~overlapped /\ ~unsaved /\ pending = NoEdits /\ calls = {}
    => disk.profile = bank[account].profile

\* identity.ts: a push that fails loses nothing, the value is in localStorage
\* and goes up another time.  So no step of one account takes it back.
EditsSurvive ==
  [][(unsaved /\ token' = token /\ ~overlapped') =>
       \A f \in Fields : disk'.profile[f] >= disk.profile[f]]_vars

\* AccountModal: on success the store becomes the new account as a whole, so
\* the rank in the lobby is nobody else's.
RankIsTheAccounts == rankOf \in {NoAccount, account}
=============================================================================
