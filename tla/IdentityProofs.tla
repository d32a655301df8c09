---------------------------- MODULE IdentityProofs ----------------------------
(***************************************************************************)
(* Proofs about Identity, for any accounts, items and bounds: whose profile *)
(* is on the screen, and that nothing of it is lost.                       *)
(*                                                                         *)
(* As long as calls do not overlap there is at most one, and what it says  *)
(* of its account is still true when it is answered.  Without a database   *)
(* calls may overlap, but a purchase keeps every other one out.            *)
(***************************************************************************)
EXTENDS Identity, FiniteSetTheorems, TLAPS

MaybeAccount == Accounts \cup {NoAccount}
Profiles == [Fields -> Nat]
Copies   == [id : MaybeAccount, coins : Nat, owned : SUBSET Items, profile : Profiles,
             login : BOOLEAN]
CallKinds == {"me", "anon", "buy", "patch", "login", "credentials"}
Outcomes  == {"sent", "ok", "rejected", "401", "503", "failed"}
CallSet == [kind : CallKinds, token : MaybeAccount, owner : {"open", "left", "orphan"},
            status : Outcomes, copy : Copies, item : Items \cup {NoItem}, before : Nat,
            edit : Nat, target : MaybeAccount, patch : Profiles]

Types ==
  /\ db \in BOOLEAN /\ bank \in [Accounts -> Copies] /\ alive \subseteq Accounts
  /\ token \in MaybeAccount /\ account \in MaybeAccount
  /\ disk \in [coins : Nat, owned : SUBSET Items, profile : Profiles]
  /\ owned \subseteq Items /\ pending \in Profiles /\ edits \in Nat
  /\ calls \subseteq CallSet
  /\ \A c \in calls : c.kind = "buy" => c.item \in Items
  /\ \A a \in Accounts : bank[a].id = a

(***************************************************************************)
(* Calls and copies                                                        *)
(***************************************************************************)

\* What a new call is, and what an answer leaves of it.
LEMMA BlankIsACopy == NoEdits \in Profiles /\ Blank \in Copies /\ \A f \in Fields : NoEdits[f] = 0
BY DEF NoEdits, Profiles, Blank, Copy, Copies, MaybeAccount

LEMMA SeedIsACopy ==
  ASSUME Types
  PROVE  Seed \in Copies
BY DEF Types, Seed, Copy, Copies, MaybeAccount

LEMMA NewCall ==
  ASSUME Types, NEW kind \in CallKinds, NEW copy \in Copies, NEW item \in Items \cup {NoItem},
         NEW before \in Nat, NEW edit \in Nat, NEW target \in MaybeAccount, NEW patch \in Profiles,
         NEW by \in MaybeAccount
  PROVE  [kind |-> kind, token |-> by, owner |-> "open", status |-> "sent", copy |-> copy,
          item |-> item, before |-> before, edit |-> edit, target |-> target,
          patch |-> patch] \in CallSet
BY DEF CallSet, Outcomes

\* Every call the page makes, field by field.
CallWith(kind, by, copy, item, before, edit, target, patch) ==
  [kind |-> kind, token |-> by, owner |-> "open", status |-> "sent", copy |-> copy,
   item |-> item, before |-> before, edit |-> edit, target |-> target, patch |-> patch]

LEMMA CallsMade ==
  /\ \A kind : Call(kind) = CallWith(kind, token, Blank, NoItem, 0, 0, NoAccount, NoEdits)
  /\ [Call("anon") EXCEPT !.copy = Seed]
       = CallWith("anon", token, Seed, NoItem, 0, 0, NoAccount, NoEdits)
  /\ [Call("me") EXCEPT !.copy = Seed]
       = CallWith("me", token, Seed, NoItem, 0, 0, NoAccount, NoEdits)
  /\ \A a : [Call("login") EXCEPT !.target = a]
       = CallWith("login", token, Blank, NoItem, 0, 0, a, NoEdits)
  /\ \A p : [Call("patch") EXCEPT !.patch = p]
       = CallWith("patch", token, Blank, NoItem, 0, 0, NoAccount, p)
BY DEF Call, CallWith

LEMMA AnonMade ==
  ASSUME NEW copy
  PROVE  [Call("anon") EXCEPT !.token = NoAccount, !.copy = copy]
           = CallWith("anon", NoAccount, copy, NoItem, 0, 0, NoAccount, NoEdits)
<1> DEFINE a == [Call("anon") EXCEPT !.token = NoAccount]
<1>1. a = CallWith("anon", NoAccount, Blank, NoItem, 0, 0, NoAccount, NoEdits)
  BY DEF Call, CallWith
<1>2. [Call("anon") EXCEPT !.token = NoAccount, !.copy = copy] = [a EXCEPT !.copy = copy]
  OBVIOUS
<1> HIDE DEF a
<1>3. [a EXCEPT !.copy = copy]
           = CallWith("anon", NoAccount, copy, NoItem, 0, 0, NoAccount, NoEdits)
  BY <1>1 DEF CallWith
<1> QED BY <1>2, <1>3

LEMMA BuyMade ==
  ASSUME NEW i, NEW before, NEW edit
  PROVE  [Call("buy") EXCEPT !.item = i, !.before = before, !.edit = edit]
           = CallWith("buy", token, Blank, i, before, edit, NoAccount, NoEdits)
<1> DEFINE a == [Call("buy") EXCEPT !.item = i]  b == [a EXCEPT !.before = before]
<1>1. a = CallWith("buy", token, Blank, i, 0, 0, NoAccount, NoEdits)
  BY DEF Call, CallWith
<1>2. [Call("buy") EXCEPT !.item = i, !.before = before, !.edit = edit] = [b EXCEPT !.edit = edit]
  OBVIOUS
<1> HIDE DEF a
<1>3. b = CallWith("buy", token, Blank, i, before, 0, NoAccount, NoEdits)
  BY <1>1 DEF CallWith
<1> HIDE DEF b
<1>4. [b EXCEPT !.edit = edit] = CallWith("buy", token, Blank, i, before, edit, NoAccount, NoEdits)
  BY <1>3 DEF CallWith
<1> QED BY <1>2, <1>4

\* An answer changes the status and what comes with it.
AnswerOf(c, status, copy) == [c EXCEPT !.status = status, !.copy = copy]

LEMMA AnswerFields ==
  ASSUME NEW c \in CallSet, NEW status \in Outcomes, NEW copy \in Copies
  PROVE  /\ AnswerOf(c, status, copy) \in CallSet
         /\ AnswerOf(c, status, copy).status = status /\ AnswerOf(c, status, copy).copy = copy
         /\ AnswerOf(c, status, copy).kind = c.kind /\ AnswerOf(c, status, copy).token = c.token
         /\ AnswerOf(c, status, copy).owner = c.owner /\ AnswerOf(c, status, copy).item = c.item
         /\ AnswerOf(c, status, copy).before = c.before /\ AnswerOf(c, status, copy).edit = c.edit
         /\ AnswerOf(c, status, copy).target = c.target /\ AnswerOf(c, status, copy).patch = c.patch
<1> DEFINE a == [c EXCEPT !.status = status]
<1>1. /\ a \in CallSet /\ a.status = status
      /\ a.kind = c.kind /\ a.token = c.token /\ a.owner = c.owner /\ a.item = c.item
      /\ a.before = c.before /\ a.edit = c.edit /\ a.target = c.target /\ a.patch = c.patch
  BY DEF CallSet
<1>2. AnswerOf(c, status, copy) = [a EXCEPT !.copy = copy]
  BY DEF AnswerOf
<1> HIDE DEF a
<1> QED BY <1>1, <1>2 DEF CallSet

LEMMA OwnerFields ==
  ASSUME NEW c \in CallSet, NEW owner \in {"open", "left", "orphan"}
  PROVE  LET d == [c EXCEPT !.owner = owner]
         IN /\ d \in CallSet /\ d.owner = owner
            /\ d.kind = c.kind /\ d.token = c.token /\ d.status = c.status /\ d.copy = c.copy
            /\ d.item = c.item /\ d.before = c.before /\ d.edit = c.edit
            /\ d.target = c.target /\ d.patch = c.patch
BY DEF CallSet

\* A purchase, and a purchase by the local rule.
LEMMA Sold ==
  ASSUME Types, NEW a \in Accounts, NEW i \in Items, bank[a].coins >= 1, i \notin bank[a].owned,
         bank' = [bank EXCEPT ![a].coins = @ - 1, ![a].owned = @ \cup {i}]
  PROVE  /\ bank' \in [Accounts -> Copies]
         /\ \A b \in Accounts \ {a} : bank'[b] = bank[b]
         /\ bank'[a].coins = bank[a].coins - 1 /\ bank'[a].owned = bank[a].owned \cup {i}
         /\ bank'[a].id = bank[a].id /\ bank'[a].profile = bank[a].profile
         /\ bank'[a].login = bank[a].login
<1> DEFINE half == [bank EXCEPT ![a].coins = @ - 1]
<1>1. bank \in [Accounts -> Copies]
  BY DEF Types
<1>2. /\ half \in [Accounts -> Copies] /\ \A b \in Accounts \ {a} : half[b] = bank[b]
      /\ half[a].coins = bank[a].coins - 1 /\ half[a].owned = bank[a].owned
      /\ half[a].id = bank[a].id /\ half[a].profile = bank[a].profile
      /\ half[a].login = bank[a].login
  BY <1>1 DEF Copies
<1>3. bank' = [half EXCEPT ![a].owned = @ \cup {i}]
  OBVIOUS
<1> HIDE DEF half
<1> QED BY <1>2, <1>3 DEF Copies

LEMMA LocallyPaid ==
  ASSUME Types, NEW i \in Items, NEW before \in Nat, NEW edit \in Nat, before >= 1,
         PayLocally(i, before, edit)
  PROVE  /\ disk' \in [coins : Nat, owned : SUBSET Items, profile : Profiles]
         /\ disk'.coins = before - 1 /\ disk'.owned = owned \cup {i}
         /\ owned' = owned \cup {i} /\ owned' \subseteq Items
         /\ pending' \in Profiles
<1> DEFINE a == [disk EXCEPT !.coins = before - 1]  b == [a EXCEPT !.owned = owned \cup {i}]
<1> DEFINE D == [coins : Nat, owned : SUBSET Items, profile : Profiles]
<1>1. disk \in D /\ owned \subseteq Items /\ pending \in Profiles
  BY DEF Types
<1>2. /\ disk' = [b EXCEPT !.profile.customization = edit]
      /\ owned' = owned \cup {i} /\ pending' = [pending EXCEPT !.customization = edit]
  BY DEF PayLocally
<1>3. a \in D /\ a.coins = before - 1
  BY <1>1
<1> HIDE DEF a
<1>4. b \in D /\ b.coins = before - 1 /\ b.owned = owned \cup {i}
  BY <1>1, <1>3
<1> HIDE DEF b
<1>5. disk' \in D /\ disk'.coins = before - 1 /\ disk'.owned = owned \cup {i}
  BY <1>2, <1>4 DEF Profiles
<1>6. pending' \in Profiles
  BY <1>1, <1>2 DEF Profiles
<1> QED BY <1>1, <1>2, <1>5, <1>6

(***************************************************************************)
(* Types                                                                   *)
(***************************************************************************)

CallsTyped == calls \subseteq CallSet /\ \A c \in calls : c.kind = "buy" => c.item \in Items

LEMMA AnsweredTypes ==
  ASSUME Types, NEW c \in calls, NEW status \in Outcomes, NEW copy \in Copies,
         Answered(c, status, copy)
  PROVE  CallsTyped'
<1>1. c \in CallSet /\ (c.kind = "buy" => c.item \in Items)
  BY DEF Types
<1>2. calls' \subseteq calls \cup {AnswerOf(c, status, copy)}
  BY DEF Answered, AnswerOf
<1> QED BY <1>1, <1>2, AnswerFields DEF Types, CallsTyped

\* Components go away, calls stay.
LEMMA OwnerTypes ==
  ASSUME Types,
         \A d \in calls' : \E c \in calls, o \in {"open", "left", "orphan"} :
                            d = c \/ d = [c EXCEPT !.owner = o]
  PROVE  CallsTyped'
<1> SUFFICES ASSUME NEW d \in calls'
             PROVE  d \in CallSet /\ (d.kind = "buy" => d.item \in Items)
  BY DEF CallsTyped
<1>1. PICK c \in calls, o \in {"open", "left", "orphan"} : d = c \/ d = [c EXCEPT !.owner = o]
  OBVIOUS
<1>2. c \in CallSet /\ (c.kind = "buy" => c.item \in Items)
  BY DEF Types
<1>3. CASE d = c
  BY <1>2, <1>3
<1>4. CASE d = [c EXCEPT !.owner = o]
  <2>1. d \in CallSet /\ d.kind = c.kind /\ d.item = c.item
    BY <1>2, <1>4, OwnerFields
  <2> QED BY <2>1, <1>2
<1> QED BY <1>1, <1>3, <1>4

LEMMA MadeTypes ==
  ASSUME Types, NEW kind \in CallKinds, NEW copy \in Copies, NEW item \in Items \cup {NoItem},
         NEW before \in Nat, NEW edit \in Nat, NEW target \in MaybeAccount, NEW patch \in Profiles,
         NEW by \in MaybeAccount, kind = "buy" => item \in Items,
         calls' \subseteq calls \cup {CallWith(kind, by, copy, item, before, edit, target, patch)}
  PROVE  CallsTyped'
<1> DEFINE d == CallWith(kind, by, copy, item, before, edit, target, patch)
<1>1. d \in CallSet
  BY NewCall DEF CallWith
<1>2. d.kind = kind /\ d.item = item
  BY DEF CallWith
<1>3. calls' \subseteq calls \cup {d}
  OBVIOUS
<1> HIDE DEF d
<1> QED BY <1>1, <1>2, <1>3 DEF Types, CallsTyped

LEMMA AppliedTypes ==
  ASSUME Types, NEW acc \in Copies, ApplyAccount(acc)
  PROVE  /\ disk' \in [coins : Nat, owned : SUBSET Items, profile : Profiles]
         /\ account' \in MaybeAccount /\ owned' \subseteq Items
<1>1. acc.owned \subseteq Items /\ acc.coins \in Nat /\ acc.profile \in Profiles
      /\ acc.id \in MaybeAccount /\ owned \subseteq Items
  BY DEF Copies, Types
<1>2. /\ disk' = [coins |-> acc.coins, owned |-> acc.owned, profile |-> acc.profile]
      /\ account' = acc.id /\ owned' = IF acc.id # account THEN acc.owned ELSE owned
  BY DEF ApplyAccount
<1> QED BY <1>1, <1>2

LEMMA ServeTypes ==
  ASSUME Types, NEW c \in calls, Serve(c) \/ Lose(c)
  PROVE  Types'
<1>1. c \in CallSet /\ c.copy \in Copies /\ c.token \in MaybeAccount /\ c.item \in Items \cup {NoItem}
      /\ c.patch \in Profiles
  BY DEF Types, CallSet
<1>2. bank \in [Accounts -> Copies] /\ alive \subseteq Accounts /\ \A a \in Accounts : bank[a].id = a
  BY DEF Types
<1>3. ASSUME UNCHANGED browserVars, db' = db, bank' \in [Accounts -> Copies], alive' \subseteq Accounts,
             \A a \in Accounts : bank'[a].id = a, CallsTyped'
      PROVE  Types'
  BY <1>3 DEF Types, CallsTyped, browserVars, storeVars
<1>4. ASSUME NEW status \in Outcomes, NEW copy \in Copies, Answered(c, status, copy),
             UNCHANGED <<serverVars, browserVars>>
      PROVE  Types'
  BY <1>2, <1>3, <1>4, AnsweredTypes DEF serverVars
<1>5. CASE ServeRefusal(c)
  BY <1>1, <1>4, <1>5 DEF ServeRefusal, Outcomes
<1>6. CASE ServeMe(c)
  <2>1. bank[c.token] \in Copies
    BY <1>2, <1>6 DEF ServeMe, Honoured, Tokenless
  <2> QED BY <2>1, <1>4, <1>6 DEF ServeMe, Outcomes
<1>7. CASE ServeAnon(c)
  <2>1. PICK a \in Accounts :
          /\ bank' = [bank EXCEPT ![a] = Copy(a, IF c.copy.coins > SeedCap THEN SeedCap ELSE c.copy.coins,
                                              c.copy.owned, c.copy.profile, FALSE)]
          /\ alive' = alive \cup {a}
          /\ Answered(c, "ok", bank'[a])
    BY <1>7 DEF ServeAnon
  <2>2. bank' \in [Accounts -> Copies] /\ \A b \in Accounts : bank'[b].id = b
    BY <1>1, <1>2, <2>1, IdentityBounds DEF Copies, Copy, MaybeAccount
  <2>3. CallsTyped'
    BY <2>1, <2>2, AnsweredTypes DEF Outcomes
  <2> QED BY <1>2, <1>3, <1>7, <2>1, <2>2, <2>3 DEF ServeAnon
<1>8. CASE ServeBuy(c)
  <2>1. c.token \in Accounts /\ c.item \in Items /\ Answered(c, "ok", bank'[c.token])
    BY <1>2, <1>8 DEF ServeBuy, Honoured, Tokenless, Types
  <2>2. bank' \in [Accounts -> Copies] /\ \A b \in Accounts : bank'[b].id = b
    <3>1. CASE bank' = bank
      BY <1>2, <3>1
    <3>2. CASE bank' # bank
      <4>1. /\ c.item \notin bank[c.token].owned /\ ~(bank[c.token].coins < 1)
            /\ bank' = [bank EXCEPT ![c.token].coins = @ - 1, ![c.token].owned = @ \cup {c.item}]
        BY <1>8, <3>2 DEF ServeBuy
      <4>2. bank[c.token].coins >= 1
        BY <1>2, <2>1, <4>1 DEF Copies
      <4> QED BY <1>2, <2>1, <4>1, <4>2, Sold
    <3> QED BY <3>1, <3>2
  <2>3. CallsTyped'
    BY <2>1, <2>2, AnsweredTypes DEF Outcomes
  <2> QED BY <1>2, <1>3, <1>8, <2>2, <2>3 DEF ServeBuy
<1>9. CASE ServePatch(c)
  <2>1. c.token \in Accounts /\ Answered(c, "ok", Blank)
    BY <1>2, <1>9 DEF ServePatch, Honoured, Tokenless
  <2>2. bank' \in [Accounts -> Copies] /\ \A b \in Accounts : bank'[b].id = b
    <3> DEFINE p == [f \in Fields |-> IF c.patch[f] = 0 THEN bank[c.token].profile[f] ELSE c.patch[f]]
    <3>1. bank' = [bank EXCEPT ![c.token].profile = p]
      BY <1>9 DEF ServePatch
    <3>2. p \in Profiles
      BY <1>1, <1>2, <2>1 DEF Profiles, Copies
    <3> HIDE DEF p
    <3> QED BY <1>2, <2>1, <3>1, <3>2 DEF Copies
  <2>3. CallsTyped'
    BY <2>1, <2>2, BlankIsACopy, AnsweredTypes DEF Outcomes
  <2> QED BY <1>2, <1>3, <1>9, <2>2, <2>3 DEF ServePatch
<1>10. CASE ServeSignIn(c)
  <2>1. c.target \in alive => bank[c.target] \in Copies
    BY <1>2
  <2> QED BY <2>1, <1>4, <1>10, BlankIsACopy DEF ServeSignIn, Outcomes
<1>11. CASE ServeSecret(c)
  <2>1. c.token \in Accounts
    BY <1>2, <1>11 DEF ServeSecret, Honoured, Tokenless
  <2>2. bank' \in [Accounts -> Copies] /\ \A b \in Accounts : bank'[b].id = b
    BY <1>2, <1>11, <2>1 DEF ServeSecret, Copies
  <2>3. CallsTyped'
    BY <1>11, BlankIsACopy, AnsweredTypes DEF ServeSecret, Outcomes
  <2> QED BY <1>2, <1>3, <1>11, <2>2, <2>3 DEF ServeSecret
<1>12. CASE Lose(c)
  BY <1>1, <1>4, <1>12 DEF Lose, Outcomes
<1> QED BY <1>5, <1>6, <1>7, <1>8, <1>9, <1>10, <1>11, <1>12 DEF Serve

LEMMA AnswerTypes ==
  ASSUME Types, NEW c \in calls, Answer(c)
  PROVE  Types'
<1>1. c \in CallSet /\ c.copy \in Copies /\ c.copy.id \in MaybeAccount
      /\ c.before \in Nat /\ c.edit \in Nat
  BY DEF Types, CallSet, Copies
<1>2. Done(c) => CallsTyped'
  BY DEF Done, Types, CallsTyped
<1>3. ASSUME UNCHANGED serverVars, CallsTyped', edits' = edits,
             token' \in MaybeAccount, account' \in MaybeAccount,
             disk' \in [coins : Nat, owned : SUBSET Items, profile : Profiles],
             owned' \subseteq Items, pending' \in Profiles
      PROVE  Types'
  BY <1>3 DEF Types, CallsTyped, serverVars
<1>4. NoAccount \in MaybeAccount
  BY DEF MaybeAccount
<1>5. CASE BootAnswers(c)
  <2>1. CASE c.status = "ok"
    <3>1. ApplyAccount(c.copy) /\ Done(c) /\ UNCHANGED <<serverVars, token, pending, edits>>
      BY <1>5, <2>1 DEF BootAnswers
    <3> QED BY <1>1, <1>2, <1>3, <3>1, AppliedTypes DEF Types
  <2>2. CASE c.status = "401"
    <3>1. /\ token' = NoAccount
          /\ Continue(c, [Call("anon") EXCEPT !.token = NoAccount, !.copy = c.copy])
          /\ UNCHANGED <<serverVars, disk, account, owned, pending, edits>>
      BY <1>5, <2>2 DEF BootAnswers, storeVars
    <3>2. calls' \subseteq calls \cup {CallWith("anon", NoAccount, c.copy, NoItem, 0, 0, NoAccount, NoEdits)}
      BY <3>1, AnonMade DEF Continue
    <3>3. CallsTyped'
      BY <1>1, <1>4, <3>2, BlankIsACopy, MadeTypes DEF CallKinds
    <3> QED BY <1>3, <1>4, <3>1, <3>3 DEF Types
  <2>3. CASE c.status \notin {"ok", "401"}
    <3>1. MarkLocalOnly /\ Done(c) /\ UNCHANGED <<serverVars, token, pending, edits>>
      BY <1>5, <2>3 DEF BootAnswers
    <3> QED BY <1>2, <1>3, <3>1 DEF Types, MarkLocalOnly
  <2> QED BY <2>1, <2>2, <2>3
<1>6. CASE AnonAnswers(c)
  <2>1. /\ Done(c) /\ UNCHANGED <<serverVars, pending, edits>>
        /\ \/ token' = c.copy.id /\ ApplyAccount(c.copy)
           \/ MarkLocalOnly /\ UNCHANGED token
    BY <1>6 DEF AnonAnswers
  <2> QED BY <1>1, <1>2, <1>3, <2>1, AppliedTypes DEF Types, MarkLocalOnly
<1>7. CASE PushAnswered(c)
  BY <1>2, <1>3, <1>7 DEF PushAnswered, Types, storeVars
<1>8. CASE BuyJudged(c)
  <2>1. /\ Done(c) /\ UNCHANGED <<serverVars, token, account, edits>>
        /\ owned' = IF c.owner = "open" THEN c.copy.owned ELSE owned
        /\ pending' = IF c.item \in c.copy.owned
                        THEN [pending EXCEPT !.customization = c.edit] ELSE pending
        /\ disk' = [coins |-> c.copy.coins, owned |-> c.copy.owned, profile |->
                     IF c.item \in c.copy.owned
                       THEN [disk.profile EXCEPT !.customization = c.edit] ELSE disk.profile]
    BY <1>8 DEF BuyJudged, storeVars
  <2>2. disk' \in [coins : Nat, owned : SUBSET Items, profile : Profiles] /\ owned' \subseteq Items
    BY <1>1, <2>1 DEF Types, Copies, Profiles
  <2>3. pending' \in Profiles
    BY <1>1, <2>1 DEF Types, Profiles
  <2> QED BY <1>2, <1>3, <2>1, <2>2, <2>3 DEF Types
<1>9. CASE BuyWithoutServer(c)
  <2>1. /\ Done(c) /\ UNCHANGED <<serverVars, account, edits>>
        /\ token' \in MaybeAccount /\ c.item \in Items
        /\ \/ c.before >= 1 /\ PayLocally(c.item, c.before, c.edit)
           \/ UNCHANGED <<disk, owned, pending>>
    BY <1>4, <1>9 DEF BuyWithoutServer, storeVars, Types
  <2> QED BY <1>1, <1>2, <1>3, <2>1, LocallyPaid DEF Types
<1>10. CASE SignedIn(c)
  <2>1. /\ Done(c) /\ UNCHANGED <<serverVars, pending, edits>>
        /\ \/ token' = c.copy.id /\ ApplyAccount(c.copy)
           \/ UNCHANGED <<token, disk, account, owned>>
    BY <1>10 DEF SignedIn
  <2> QED BY <1>1, <1>2, <1>3, <2>1, AppliedTypes DEF Types
<1>11. CASE SecretSet(c)
  BY <1>2, <1>3, <1>11 DEF SecretSet, Types
<1> QED BY <1>5, <1>6, <1>7, <1>8, <1>9, <1>10, <1>11 DEF Answer

LEMMA UserTypes ==
  ASSUME Types, User \/ PushTimer
  PROVE  Types'
<1>1. token \in MaybeAccount /\ NoAccount \in MaybeAccount /\ disk.coins \in Nat
      /\ NoItem \in Items \cup {NoItem} /\ edits + 1 \in Nat
  BY DEF Types, MaybeAccount
<1>2. ASSUME UNCHANGED serverVars, CallsTyped', edits' \in Nat,
             token' \in MaybeAccount, account' \in MaybeAccount,
             disk' \in [coins : Nat, owned : SUBSET Items, profile : Profiles],
             owned' \subseteq Items, pending' \in Profiles
      PROVE  Types'
  BY <1>2 DEF Types, CallsTyped, serverVars
<1>3. calls' = calls => CallsTyped'
  BY DEF Types, CallsTyped
<1>4. ASSUME NEW f \in Fields, Edit(f)
      PROVE  Types'
  <2>1. /\ edits' = edits + 1 /\ disk' = [disk EXCEPT !.profile[f] = edits']
        /\ pending' = [pending EXCEPT ![f] = edits']
        /\ UNCHANGED <<serverVars, token, account, owned, calls>>
    BY <1>4 DEF Edit, storeVars
  <2>2. disk' \in [coins : Nat, owned : SUBSET Items, profile : Profiles] /\ pending' \in Profiles
    BY <1>1, <2>1 DEF Types, Profiles
  <2> QED BY <1>1, <1>2, <1>3, <2>1, <2>2 DEF Types
<1>5. ASSUME NEW i \in Items, BuyLocally(i)
      PROVE  Types'
  <2>1. /\ edits' = edits + 1 /\ disk.coins >= 1 /\ PayLocally(i, disk.coins, edits')
        /\ UNCHANGED <<serverVars, token, account, calls>>
    BY <1>5 DEF BuyLocally, storeVars
  <2> QED BY <1>1, <1>2, <1>3, <2>1, LocallyPaid DEF Types
<1>6. ASSUME NEW i \in Items, BuyItem(i)
      PROVE  Types'
  <2>1. /\ edits' = edits + 1
        /\ calls' = calls \cup {[Call("buy") EXCEPT !.item = i, !.before = disk.coins, !.edit = edits']}
        /\ UNCHANGED <<serverVars, token, disk, account, owned, pending>>
    BY <1>6 DEF BuyItem, Make, storeVars
  <2>2. calls' = calls \cup {CallWith("buy", token, Blank, i, disk.coins, edits + 1, NoAccount, NoEdits)}
    BY <2>1, BuyMade
  <2>3. CallsTyped'
    BY <1>1, <2>2, BlankIsACopy, MadeTypes DEF CallKinds
  <2> QED BY <1>1, <1>2, <2>1, <2>3 DEF Types
<1>7. ASSUME NEW a \in Accounts, SubmitLogin(a) \/ SubmitCode(a)
      PROVE  Types'
  <2>1. /\ calls' = calls \cup {[Call("login") EXCEPT !.target = a]}
        /\ UNCHANGED <<serverVars, token, disk, account, owned, pending, edits>>
    BY <1>7 DEF SubmitLogin, SubmitCode, Submit, storeVars
  <2>2. calls' = calls \cup {CallWith("login", token, Blank, NoItem, 0, 0, a, NoEdits)}
    BY <2>1, CallsMade
  <2>3. CallsTyped'
    BY <1>1, <2>2, BlankIsACopy, MadeTypes DEF CallKinds, MaybeAccount
  <2> QED BY <1>1, <1>2, <2>1, <2>3 DEF Types
<1>8. CASE SubmitCreate \/ RequestCode
  <2>1. /\ calls' = calls \cup {Call("credentials")}
        /\ UNCHANGED <<serverVars, token, disk, account, owned, pending, edits>>
    BY <1>8 DEF SubmitCreate, RequestCode, Submit, storeVars
  <2>2. calls' = calls \cup {CallWith("credentials", token, Blank, NoItem, 0, 0, NoAccount, NoEdits)}
    BY <2>1, CallsMade
  <2>3. CallsTyped'
    BY <1>1, <2>2, BlankIsACopy, MadeTypes DEF CallKinds
  <2> QED BY <1>1, <1>2, <2>1, <2>3 DEF Types
<1>9. CASE ReopenModal
  <2>1. /\ calls' = {IF c.kind \in Modal THEN [c EXCEPT !.owner = "left"] ELSE c : c \in calls}
        /\ UNCHANGED <<serverVars, token, disk, account, owned, pending, edits>>
    BY <1>9 DEF ReopenModal, browserVars, storeVars
  <2>2. \A d \in calls' : \E c \in calls : d = c \/ d = [c EXCEPT !.owner = "left"]
    BY <2>1
  <2>3. CallsTyped'
    BY <2>2, OwnerTypes
  <2> QED BY <1>1, <1>2, <2>1, <2>3 DEF Types
<1>10. CASE RemountLobby
  <2>1. /\ calls' = {IF c.owner = "open" /\ c.kind \in Modal \cup {"buy"}
                       THEN [c EXCEPT !.owner = "left"] ELSE c : c \in calls}
        /\ owned' = disk.owned
        /\ UNCHANGED <<serverVars, token, disk, account, pending, edits>>
    BY <1>10 DEF RemountLobby, storeVars
  <2>2. \A d \in calls' : \E c \in calls : d = c \/ d = [c EXCEPT !.owner = "left"]
    BY <2>1
  <2>3. CallsTyped'
    BY <2>2, OwnerTypes
  <2> QED BY <1>1, <1>2, <2>1, <2>3 DEF Types
<1>11. CASE Reload
  <2>1. PICK kept \in SUBSET {c \in calls : Out(c) /\ c.kind \in Effects} :
          calls' = {[c EXCEPT !.owner = "orphan"] : c \in kept} \cup {BootCall}
    BY <1>11 DEF Reload
  <2>2. /\ account' = NoAccount /\ owned' = disk.owned /\ pending' = NoEdits
        /\ UNCHANGED <<serverVars, token, disk, edits>>
    BY <1>11 DEF Reload
  <2>3. BootCall = CallWith(IF token = NoAccount THEN "anon" ELSE "me", token, Seed, NoItem, 0, 0,
                            NoAccount, NoEdits)
    BY CallsMade DEF BootCall
  <2>4. BootCall \in CallSet /\ BootCall.kind # "buy"
    <3>1. BootCall \in CallSet
      BY <1>1, <2>3, BlankIsACopy, SeedIsACopy, NewCall, 0 \in Nat DEF CallWith, CallKinds
    <3> QED BY <2>3, <3>1 DEF CallWith
  <2>5. ASSUME NEW c \in kept
        PROVE  LET d == [c EXCEPT !.owner = "orphan"]
               IN d \in CallSet /\ (d.kind = "buy" => d.item \in Items)
    <3>1. c \in CallSet /\ (c.kind = "buy" => c.item \in Items)
      BY DEF Types
    <3> QED BY <3>1, OwnerFields
  <2>6. CallsTyped'
    BY <2>1, <2>4, <2>5 DEF CallsTyped
  <2> QED BY <1>1, <1>2, <2>2, <2>6, BlankIsACopy DEF Types
<1>12. CASE RankedMatchEnds
  BY <1>1, <1>2, <1>3, <1>12 DEF RankedMatchEnds, Types
<1>13. CASE PushTimer
  <2>1. /\ pending' = NoEdits /\ UNCHANGED <<serverVars, token, disk, account, owned, edits>>
        /\ \/ calls' = calls
           \/ calls' = calls \cup {[Call("patch") EXCEPT !.patch = pending]}
    BY <1>13 DEF PushTimer, Make, storeVars
  <2>2. \/ calls' = calls
        \/ calls' = calls \cup {CallWith("patch", token, Blank, NoItem, 0, 0, NoAccount, pending)}
    BY <2>1, CallsMade
  <2>3. CallsTyped'
    BY <1>1, <1>3, <2>2, BlankIsACopy, MadeTypes DEF CallKinds, Types
  <2> QED BY <1>1, <1>2, <2>1, <2>3, BlankIsACopy DEF Types
<1> QED BY <1>4, <1>5, <1>6, <1>7, <1>8, <1>9, <1>10, <1>11, <1>12, <1>13 DEF User

LEMMA TypesPreserved ==
  ASSUME Types, [Next]_vars
  PROVE  Types'
<1>1. CASE UNCHANGED vars
  BY <1>1 DEF vars, serverVars, storeVars, Types
<1>2. ASSUME NEW a \in Accounts, DropAccount(a)
      PROVE  Types'
  BY <1>2 DEF DropAccount, browserVars, storeVars, Types
<1> QED BY <1>1, <1>2, ServeTypes, AnswerTypes, UserTypes DEF Next

(***************************************************************************)
(* The invariant.  While calls do not overlap there is at most one; it was *)
(* made by the page that is on screen, with the token that is still there, *)
(* and what it brings is what the account is.                              *)
(***************************************************************************)

One == calls = {} \/ \E c \in calls : calls = {c}

\* Who asked, and in which situation.
Asked(c) ==
  /\ c.owner # "orphan" /\ c.token = token
  /\ c.kind \in {"me", "buy", "patch", "credentials"} => token # NoAccount
  /\ c.kind = "anon" => token = NoAccount
  /\ c.kind \in {"me", "anon"} => account = NoAccount
  /\ c.kind # "buy" => pending = NoEdits
  /\ c.kind = "buy" => c.edit # 0

\* What the answer says is still so.
Answers(c) ==
  /\ c.status = "ok" /\ c.kind \in {"me", "anon", "buy", "login"} =>
       c.copy.id \in Accounts /\ c.copy = bank[c.copy.id]
  /\ c.status = "ok" /\ c.kind \in {"me", "buy"} => c.copy.id = token
  /\ c.status = "ok" /\ c.kind = "credentials" => bank[token].login
  /\ c.status = "ok" /\ c.kind = "login" /\ token = NoAccount => c.copy.id # account
  /\ c.status = "401" => token \notin alive
  /\ c.status = "503" => ~db

\* The account on the screen is the token's, or its token was thrown away.
Whose ==
  account # NoAccount =>
    /\ token \in {account, NoAccount}
    /\ token = NoAccount => account \notin alive
    /\ login => bank[account].login

Books ==
  account # NoAccount /\ token = account =>
    /\ Wealth(disk) = Wealth(bank[account])
    /\ disk.owned \subseteq bank[account].owned /\ owned \subseteq bank[account].owned

\* An edit is on its way to the server: it waits, or it was sent.
Pushed(c, f) == c.kind = "patch" /\ c.status = "sent" /\ c.patch[f] # 0
Saved(f) ==
  /\ pending[f] # 0 => disk.profile[f] = pending[f]
  /\ pending[f] = 0 =>
       /\ \A c \in calls : Pushed(c, f) => disk.profile[f] = c.patch[f]
       /\ (\A c \in calls : ~Pushed(c, f)) => disk.profile[f] = bank[account].profile[f]
NoPushFailed == \A c \in calls : c.kind = "patch" => c.status \in {"sent", "ok"}
Kept ==
  account # NoAccount /\ token = account /\ ~unsaved /\ NoPushFailed => \A f \in Fields : Saved(f)

OnlineInv ==
  ~overlapped => One /\ Whose /\ Books /\ Kept /\ \A c \in calls : Asked(c) /\ Answers(c)

\* Without a database nothing is ever answered but 503.
OpenBuy(c) == c.kind = "buy" /\ c.owner = "open"
Unserved(c) == c.status \in {"sent", "503", "failed"} /\ (c.owner = "orphan" => c.status = "sent")
Priced(c) ==
  c.kind = "buy" /\ c.owner # "orphan" =>
    c.owner = "open" /\ c.before = disk.coins /\ c.item \notin owned /\ token # NoAccount
OneBuy == \A b, d \in calls : OpenBuy(b) /\ OpenBuy(d) => b = d
Latched == /\ owned = disk.owned /\ Wealth(disk) = PocketCoins
           /\ OneBuy /\ \A c \in calls : Priced(c)
OfflineInv ==
  ~db => /\ account = NoAccount
         /\ \A c \in calls : Unserved(c)
         /\ ~left => Latched

IdInv == Types /\ OnlineInv /\ OfflineInv

\* A purchase leaves what the account is worth as it was.
LEMMA WealthOfPurchase ==
  ASSUME NEW old, NEW new, NEW i \in Items, old.coins \in Nat, old.owned \subseteq Items,
         i \notin old.owned, new.coins = old.coins - 1, new.owned = old.owned \cup {i}
  PROVE  Wealth(new) = Wealth(old)
<1>1. IsFiniteSet(old.owned)
  BY FS_Subset, ItemsAssumption
<1>2. Cardinality(old.owned \cup {i}) = Cardinality(old.owned) + 1 /\ Cardinality(old.owned) \in Nat
  BY <1>1, FS_AddElement, FS_CardinalityType
<1> QED BY <1>2 DEF Wealth

LEMMA TheOnlyCall ==
  ASSUME OnlineInv, ~overlapped, NEW c \in calls
  PROVE  calls = {c} /\ Asked(c) /\ Answers(c)
BY DEF OnlineInv, One

(***************************************************************************)
(* The server answers                                                      *)
(***************************************************************************)

\* The one call is answered: what it asked for stays, and so does the account
\* unless the bank changed.
LEMMA AnsweredAlone ==
  ASSUME Types, OnlineInv, ~overlapped, NEW c \in calls,
         NEW status \in Outcomes, NEW copy \in Copies, Answered(c, status, copy),
         UNCHANGED browserVars
  PROVE  \E d : /\ calls' = {d} /\ Asked(d)' /\ d.kind = c.kind /\ d.status = status
                /\ d.copy = copy
<1>1. calls = {c} /\ Asked(c) /\ c \in CallSet
  BY TheOnlyCall DEF Types
<1> DEFINE d == AnswerOf(c, status, copy)
<1>2. calls' = {d}
  BY <1>1 DEF Answered, Asked, Mine, AnswerOf
<1>3. /\ d.status = status /\ d.copy = copy /\ d.kind = c.kind /\ d.token = c.token
      /\ d.owner = c.owner /\ d.edit = c.edit
  BY <1>1, AnswerFields
<1> HIDE DEF d
<1>4. Asked(d)'
  BY <1>1, <1>3 DEF Asked, browserVars, storeVars
<1> QED BY <1>2, <1>3, <1>4

LEMMA ServeOnline ==
  ASSUME Types, Types', OnlineInv, ~overlapped', NEW c \in calls, Serve(c) \/ Lose(c)
  PROVE  OnlineInv'
<1>1. UNCHANGED browserVars /\ ~overlapped
  <2>1. Serve(c) => UNCHANGED browserVars
    BY DEF Serve, ServeRefusal, ServeMe, ServeAnon, ServeBuy, ServePatch, ServeSignIn, ServeSecret
  <2>2. UNCHANGED browserVars
    BY <2>1 DEF Lose
  <2> QED BY <2>2 DEF browserVars
<1>2. /\ calls = {c} /\ Asked(c) /\ Answers(c) /\ c \in CallSet
      /\ Whose /\ Books /\ Kept
  BY <1>1, TheOnlyCall DEF OnlineInv, Types
<1>3. /\ bank \in [Accounts -> Copies] /\ alive \subseteq Accounts /\ \A a \in Accounts : bank[a].id = a
      /\ NoAccount \notin Accounts /\ token \in MaybeAccount /\ account \in MaybeAccount
  BY AccountsAssumption DEF Types
<1>4. c.copy \in Copies /\ c.patch \in Profiles /\ Blank \in Copies
      /\ Outcomes = {"sent", "ok", "rejected", "401", "503", "failed"}
  BY <1>2, BlankIsACopy DEF CallSet, Outcomes
\* The account is as before, unless it is a patch that was answered.
<1>5. ASSUME NEW status \in Outcomes, NEW copy \in Copies, Answered(c, status, copy),
             Whose', Books', Kept',
             \A d : d.kind = c.kind /\ d.status = status /\ d.copy = copy => Answers(d)'
      PROVE  OnlineInv'
  BY <1>1, <1>5, AnsweredAlone DEF OnlineInv, One
<1>6. ASSUME NEW status \in Outcomes, NEW copy \in Copies, Answered(c, status, copy),
             account # NoAccount /\ token = account => bank'[account].profile = bank[account].profile,
             c.kind = "patch" => status \notin {"sent", "ok"}
      PROVE  Kept'
  <2>1. ASSUME account # NoAccount, token = account, ~unsaved, NoPushFailed', NEW f \in Fields
        PROVE  Saved(f)'
    <3>1. PICK d : calls' = {d} /\ d.kind = c.kind /\ d.status = status
      BY <1>1, <1>6, AnsweredAlone
    <3>2. c.kind # "patch"
      BY <1>6, <2>1, <3>1 DEF NoPushFailed
    <3>3. Saved(f)
      BY <1>2, <2>1, <3>2 DEF Kept, NoPushFailed
    <3>4. bank'[account].profile = bank[account].profile
      BY <1>6, <2>1
    <3>5. ~Pushed(c, f) /\ ~Pushed(d, f)
      BY <3>1, <3>2 DEF Pushed
    <3>6. UNCHANGED <<disk, pending, account>>
      BY <1>1 DEF browserVars, storeVars
    <3> QED BY <1>2, <3>1, <3>3, <3>4, <3>5, <3>6 DEF Saved, Pushed
  <2> QED BY <1>1, <2>1 DEF Kept, browserVars, storeVars

\* Nothing but the call changed.
<1>7. ASSUME UNCHANGED serverVars
      PROVE  Whose' /\ Books'
  BY <1>1, <1>2, <1>7 DEF Whose, Books, Wealth, serverVars, browserVars, storeVars
<1>8. ASSUME UNCHANGED serverVars, NEW status \in Outcomes, NEW copy \in Copies,
             Answered(c, status, copy), c.kind = "patch" => status \notin {"sent", "ok"},
             \A d : d.kind = c.kind /\ d.status = status /\ d.copy = copy => Answers(d)'
      PROVE  OnlineInv'
  BY <1>5, <1>6, <1>7, <1>8 DEF serverVars
<1>9. CASE ServeRefusal(c)
  <2>1. UNCHANGED serverVars
    BY <1>9 DEF ServeRefusal
  <2>2. ASSUME NEW status \in {"503", "401"}, Answered(c, status, c.copy),
               status = "503" => ~db, status = "401" => token \notin alive
        PROVE  OnlineInv'
    <3>1. \A d : d.kind = c.kind /\ d.status = status /\ d.copy = c.copy => Answers(d)'
      BY <1>1, <1>4, <2>1, <2>2 DEF Answers, serverVars, browserVars
    <3> QED BY <1>4, <1>8, <2>1, <2>2, <3>1
  <2>3. \/ ~db /\ Answered(c, "503", c.copy)
        \/ token \notin alive /\ Answered(c, "401", c.copy)
    BY <1>2, <1>9 DEF ServeRefusal, Asked
  <2> QED BY <2>2, <2>3
<1>10. CASE ServeMe(c)
  <2>1. /\ c.kind = "me" /\ c.token \in alive /\ Answered(c, "ok", bank[c.token])
        /\ UNCHANGED serverVars /\ c.token = token
    BY <1>2, <1>10 DEF ServeMe, Honoured, Tokenless, Asked
  <2>2. token \in Accounts /\ bank[token] \in Copies /\ bank[token].id = token
    BY <1>3, <2>1
  <2>3. \A d : d.kind = c.kind /\ d.status = "ok" /\ d.copy = bank[token] => Answers(d)'
    BY <1>1, <1>4, <2>1, <2>2 DEF Answers, serverVars, browserVars
  <2> QED BY <1>4, <1>8, <2>1, <2>2, <2>3
<1>11. CASE ServeAnon(c)
  <2>1. PICK a \in Accounts :
          /\ bank' = [bank EXCEPT ![a] = Copy(a, IF c.copy.coins > SeedCap THEN SeedCap ELSE c.copy.coins,
                                              c.copy.owned, c.copy.profile, FALSE)]
          /\ alive' = alive \cup {a}
          /\ Answered(c, "ok", bank'[a])
    BY <1>11 DEF ServeAnon
  <2>2. account = NoAccount /\ c.kind = "anon" /\ account' = NoAccount
    BY <1>1, <1>2, <1>11 DEF ServeAnon, Asked, browserVars, storeVars
  <2>3. bank'[a] \in Copies /\ bank'[a].id = a
    BY DEF Types
  <2>4. \A d : d.kind = c.kind /\ d.status = "ok" /\ d.copy = bank'[a] => Answers(d)'
    BY <2>2, <2>3 DEF Answers
  <2> QED BY <1>4, <1>5, <2>1, <2>2, <2>3, <2>4 DEF Whose, Books, Kept
<1>12. CASE ServeBuy(c)
  <2>1. /\ c.kind = "buy" /\ c.token \in alive /\ Answered(c, "ok", bank'[c.token])
        /\ alive' = alive /\ c.token = token /\ c.item \in Items
    BY <1>2, <1>12 DEF ServeBuy, Honoured, Tokenless, Asked, Types
  <2>2. token \in Accounts /\ bank'[token] \in Copies /\ bank'[token].id = token
    BY <1>3, <2>1 DEF Types
  <2>3. /\ Wealth(bank'[token]) = Wealth(bank[token])
        /\ bank[token].owned \subseteq bank'[token].owned
        /\ bank'[token].profile = bank[token].profile
        /\ bank'[token].login = bank[token].login
    <3>1. CASE bank' = bank
      BY <3>1 DEF Wealth
    <3>2. CASE bank' # bank
      <4>1. /\ c.item \notin bank[token].owned /\ ~(bank[token].coins < 1)
            /\ bank' = [bank EXCEPT ![token].coins = @ - 1, ![token].owned = @ \cup {c.item}]
        BY <1>12, <2>1, <3>2 DEF ServeBuy
      <4>2. bank[token].coins \in Nat /\ bank[token].coins >= 1 /\ bank[token].owned \subseteq Items
        BY <1>3, <2>2, <4>1 DEF Copies
      <4>3. /\ bank'[token].coins = bank[token].coins - 1
            /\ bank'[token].owned = bank[token].owned \cup {c.item}
            /\ bank'[token].profile = bank[token].profile
            /\ bank'[token].login = bank[token].login
        BY <2>1, <2>2, <4>1, <4>2, Sold
      <4> QED BY <2>1, <4>1, <4>2, <4>3, WealthOfPurchase
    <3> QED BY <3>1, <3>2
  <2>4. \A d : d.kind = c.kind /\ d.status = "ok" /\ d.copy = bank'[token] => Answers(d)'
    BY <1>1, <1>4, <2>1, <2>2 DEF Answers, browserVars
  <2>5. UNCHANGED <<token, account, login, disk, owned>>
    BY <1>1 DEF browserVars, storeVars
  <2>6. account # NoAccount => token = account
    BY <1>2, <1>3, <2>2 DEF Whose
  <2>7. Whose' /\ Books'
    BY <1>2, <2>1, <2>3, <2>5, <2>6 DEF Whose, Books, Wealth
  <2>8. Kept'
    BY <1>4, <1>6, <2>1, <2>2, <2>3
  <2> QED BY <1>4, <1>5, <2>1, <2>2, <2>4, <2>7, <2>8
<1>13. CASE ServePatch(c)
  <2>1. /\ c.kind = "patch" /\ Out(c) /\ c.token \in alive /\ Answered(c, "ok", Blank)
        /\ alive' = alive /\ c.token = token /\ pending = NoEdits
    BY <1>2, <1>13 DEF ServePatch, Honoured, Tokenless, Asked
  <2> DEFINE p == [f \in Fields |-> IF c.patch[f] = 0 THEN bank[token].profile[f] ELSE c.patch[f]]
  <2>2. token \in Accounts /\ bank' = [bank EXCEPT ![token].profile = p]
    BY <1>3, <1>13, <2>1 DEF ServePatch
  <2> HIDE DEF p
  <2>3. /\ bank'[token].profile = p /\ bank'[token].login = bank[token].login
        /\ bank'[token].coins = bank[token].coins /\ bank'[token].owned = bank[token].owned
    BY <1>3, <2>2 DEF Copies
  <2>4. \A d : d.kind = c.kind /\ d.status = "ok" /\ d.copy = Blank => Answers(d)'
    BY <1>1, <1>4, <2>1 DEF Answers, browserVars
  <2>5. UNCHANGED <<token, account, login, disk, owned, pending, unsaved>>
    BY <1>1 DEF browserVars, storeVars
  <2>6. account # NoAccount => token = account
    BY <1>2, <1>3, <2>2 DEF Whose
  <2>7. Whose' /\ Books'
    BY <1>2, <2>1, <2>3, <2>5, <2>6 DEF Whose, Books, Wealth
  <2>8. ASSUME account # NoAccount, token = account, ~unsaved, NEW f \in Fields
        PROVE  Saved(f)'
    <3>1. PICK d : calls' = {d} /\ d.status = "ok"
      BY <1>1, <1>4, <2>1, AnsweredAlone
    <3>2. NoPushFailed
      BY <1>2, <2>1 DEF NoPushFailed, Out
    <3>3. Saved(f)
      BY <1>2, <2>8, <3>2 DEF Kept
    <3>4. pending[f] = 0
      BY <2>1, BlankIsACopy
    <3>5. disk.profile[f] = p[f]
      <4>1. CASE c.patch[f] = 0
        <5>1. \A e \in calls : ~Pushed(e, f)
          BY <1>2, <4>1 DEF Pushed
        <5>2. disk.profile[f] = bank[token].profile[f]
          BY <2>8, <3>3, <3>4, <5>1 DEF Saved
        <5> QED BY <4>1, <5>2 DEF p
      <4>2. CASE c.patch[f] # 0
        <5>1. Pushed(c, f)
          BY <2>1, <4>2 DEF Pushed, Out
        <5>2. disk.profile[f] = c.patch[f]
          BY <3>3, <3>4, <5>1 DEF Saved
        <5> QED BY <4>2, <5>2 DEF p
      <4> QED BY <4>1, <4>2
    <3>6. ~Pushed(d, f)
      BY <3>1 DEF Pushed
    <3> QED BY <2>3, <2>5, <2>8, <3>1, <3>4, <3>5, <3>6 DEF Saved
  <2>9. Kept'
    BY <2>5, <2>8 DEF Kept
  <2> QED BY <1>4, <1>5, <2>1, <2>4, <2>7, <2>9
<1>14. CASE ServeSignIn(c)
  <2>1. c.kind = "login" /\ UNCHANGED serverVars
    BY <1>14 DEF ServeSignIn
  <2>2. CASE c.target \in alive /\ bank[c.target].login
    <3>1. Answered(c, "ok", bank[c.target])
      BY <1>14, <2>2 DEF ServeSignIn
    <3>2. c.target \in Accounts /\ bank[c.target] \in Copies /\ bank[c.target].id = c.target
      BY <1>3, <2>2
    <3>3. token = NoAccount => c.target # account
      BY <1>2, <1>3, <2>2, <3>2 DEF Whose
    <3>4. \A d : d.kind = c.kind /\ d.status = "ok" /\ d.copy = bank[c.target] => Answers(d)'
      BY <1>1, <1>4, <2>1, <3>1, <3>2, <3>3, AnsweredAlone
         DEF Answers, serverVars, browserVars, storeVars
    <3> QED BY <1>4, <1>8, <2>1, <3>1, <3>2, <3>4
  <2>3. CASE ~(c.target \in alive /\ bank[c.target].login)
    <3>1. Answered(c, "rejected", Blank)
      BY <1>14, <2>3 DEF ServeSignIn
    <3>2. \A d : d.kind = c.kind /\ d.status = "rejected" /\ d.copy = Blank => Answers(d)'
      BY <1>1, <1>4, <3>1 DEF Answers
    <3> QED BY <1>4, <1>8, <2>1, <3>1, <3>2
  <2> QED BY <2>2, <2>3
<1>15. CASE ServeSecret(c)
  <2>1. c.kind = "credentials" /\ alive' = alive /\ db' = db /\ c.token = token /\ token \in Accounts
    BY <1>2, <1>3, <1>15 DEF ServeSecret, Honoured, Tokenless, Asked
  <2>2. CASE bank' = bank /\ Answered(c, "rejected", Blank)
    <3>1. \A d : d.kind = c.kind /\ d.status = "rejected" /\ d.copy = Blank => Answers(d)'
      BY <1>1, <1>4, <2>2 DEF Answers
    <3> QED BY <1>4, <1>8, <2>1, <2>2, <3>1 DEF serverVars
  <2>3. CASE bank' = [bank EXCEPT ![token].login = TRUE] /\ Answered(c, "ok", Blank)
    <3>1. /\ bank'[token].profile = bank[token].profile /\ bank'[token].login
          /\ bank'[token].coins = bank[token].coins /\ bank'[token].owned = bank[token].owned
      BY <1>3, <2>1, <2>3 DEF Copies
    <3>2. UNCHANGED <<token, account, login, disk, owned>>
      BY <1>1 DEF browserVars, storeVars
    <3>3. \A d : d.kind = c.kind /\ d.status = "ok" /\ d.copy = Blank => Answers(d)'
      BY <1>1, <1>4, <2>1, <2>3, <3>1, <3>2 DEF Answers
    <3>4. account # NoAccount => token = account
      BY <1>2, <1>3, <2>1 DEF Whose
    <3>5. Whose' /\ Books'
      BY <1>2, <2>1, <3>1, <3>2, <3>4 DEF Whose, Books, Wealth
    <3>6. Kept'
      BY <1>4, <1>6, <2>1, <2>3, <3>1
    <3> QED BY <1>4, <1>5, <2>3, <3>3, <3>5, <3>6
  <2> QED BY <1>15, <2>1, <2>2, <2>3 DEF ServeSecret
<1>16. CASE Lose(c)
  <2>1. UNCHANGED serverVars /\ Answered(c, "failed", c.copy)
    BY <1>16 DEF Lose
  <2>2. \A d : d.kind = c.kind /\ d.status = "failed" /\ d.copy = c.copy => Answers(d)'
    BY <1>1, <1>4, <2>1 DEF Answers
  <2> QED BY <1>4, <1>8, <2>1, <2>2
<1> QED BY <1>9, <1>10, <1>11, <1>12, <1>13, <1>14, <1>15, <1>16 DEF Serve

(***************************************************************************)
(* The page takes the answer                                               *)
(***************************************************************************)

\* applyAccount with what the bank says: everything is that account's.
LEMMA AppliedAlone ==
  ASSUME Types, NEW acc \in Copies, ApplyAccount(acc), acc.id \in Accounts, acc = bank[acc.id],
         token' = acc.id, UNCHANGED <<serverVars, pending>>, pending = NoEdits, calls' = {},
         acc.id = account => owned \subseteq bank[account].owned
  PROVE  Whose' /\ Books' /\ Kept'
<1>1. /\ disk' = [coins |-> acc.coins, owned |-> acc.owned, profile |-> acc.profile]
      /\ account' = acc.id /\ login' = acc.login
      /\ owned' = IF acc.id # account THEN acc.owned ELSE owned
  BY DEF ApplyAccount
<1>2. /\ disk'.coins = acc.coins /\ disk'.owned = acc.owned /\ disk'.profile = acc.profile
      /\ owned' \subseteq acc.owned /\ bank'[account'] = acc /\ token' = account'
      /\ token' # NoAccount
  BY <1>1, AccountsAssumption DEF serverVars
<1>3. Whose'
  BY <1>1, <1>2 DEF Whose
<1>4. Books'
  BY <1>2 DEF Books, Wealth
<1>5. \A f \in Fields : pending'[f] = 0
  BY BlankIsACopy
<1>6. Kept'
  BY <1>2, <1>5 DEF Kept, Saved
<1> QED BY <1>3, <1>4, <1>6

LEMMA AnswerOnline ==
  ASSUME Types, Types', OnlineInv, OfflineInv, ~overlapped', NEW c \in calls, Answer(c)
  PROVE  OnlineInv'
<1>1. UNCHANGED overlapped /\ UNCHANGED serverVars
  BY DEF Answer, BootAnswers, AnonAnswers, PushAnswered, BuyJudged, BuyWithoutServer, SignedIn,
         SecretSet
<1>2. /\ calls = {c} /\ Asked(c) /\ Answers(c) /\ c \in CallSet
      /\ Whose /\ Books /\ Kept
  BY <1>1, TheOnlyCall DEF OnlineInv, Types
<1>3. /\ bank \in [Accounts -> Copies] /\ bank' = bank /\ alive' = alive /\ NoAccount \notin Accounts
      /\ token \in MaybeAccount /\ account \in MaybeAccount
  BY <1>1, AccountsAssumption DEF Types, serverVars
<1>4. c.copy \in Copies /\ c.edit \in Nat /\ c.before \in Nat
  BY <1>2 DEF CallSet
<1>5. Done(c) => calls' = {}
  BY <1>2 DEF Done
<1>6. ASSUME Done(c), Whose', Books', Kept'
      PROVE  OnlineInv'
  BY <1>5, <1>6 DEF OnlineInv, One
\* Nothing follows: the profile stays, unless a push has failed.
<1>7. ASSUME Done(c), UNCHANGED <<token, account, login, disk, owned, pending>>,
             ~unsaved' => ~unsaved /\ NoPushFailed /\ (c.kind = "patch" => c.status = "ok")
      PROVE  Kept'
  <2>1. ASSUME account # NoAccount, token = account, ~unsaved', NEW f \in Fields
        PROVE  Saved(f)'
    <3>1. Saved(f)
      BY <1>2, <1>7, <2>1 DEF Kept
    <3>2. ~Pushed(c, f)
      BY <1>7, <2>1 DEF Pushed
    <3> QED BY <1>2, <1>3, <1>5, <1>7, <3>1, <3>2 DEF Saved
  <2> QED BY <1>7, <2>1 DEF Kept
<1>8. CASE BootAnswers(c)
  <2>1. c.kind = "me" /\ pending = NoEdits /\ account = NoAccount /\ UNCHANGED pending
    BY <1>2, <1>8 DEF BootAnswers, Asked
  <2>2. CASE c.status = "ok"
    <3>1. ApplyAccount(c.copy) /\ Done(c) /\ token' = token
      BY <1>8, <2>2 DEF BootAnswers
    <3>2. c.copy.id \in Accounts /\ c.copy = bank[c.copy.id] /\ c.copy.id = token
      BY <1>2, <2>1, <2>2 DEF Answers
    <3>3. Whose' /\ Books' /\ Kept'
      BY <1>1, <1>3, <1>4, <1>5, <2>1, <3>1, <3>2, AppliedAlone
    <3> QED BY <1>6, <3>1, <3>3
  <2>3. CASE c.status = "401"
    <3>1. /\ token' = NoAccount /\ account' = account
          /\ Continue(c, [Call("anon") EXCEPT !.token = NoAccount, !.copy = c.copy])
      BY <1>8, <2>3 DEF BootAnswers, storeVars
    <3> DEFINE d == CallWith("anon", NoAccount, c.copy, NoItem, 0, 0, NoAccount, NoEdits)
    <3>2. calls' = {d}
      BY <1>2, <3>1, AnonMade DEF Continue
    <3>3. d.kind = "anon" /\ d.token = NoAccount /\ d.owner = "open" /\ d.status = "sent"
      BY DEF CallWith
    <3> HIDE DEF d
    <3>4. Asked(d)' /\ Answers(d)'
      BY <2>1, <3>1, <3>3 DEF Asked, Answers
    <3> QED BY <2>1, <3>1, <3>2, <3>4 DEF OnlineInv, One, Whose, Books, Kept
  <2>4. CASE c.status \notin {"ok", "401"}
    <3>1. Done(c) /\ account' = account
      BY <1>8, <2>4 DEF BootAnswers, MarkLocalOnly
    <3> QED BY <1>6, <2>1, <3>1 DEF Whose, Books, Kept
  <2> QED BY <2>2, <2>3, <2>4
<1>9. CASE AnonAnswers(c)
  <2>1. /\ c.kind = "anon" /\ pending = NoEdits /\ account = NoAccount /\ UNCHANGED pending
        /\ Done(c)
    BY <1>2, <1>9 DEF AnonAnswers, Asked
  <2>2. CASE c.status = "ok"
    <3>1. ApplyAccount(c.copy) /\ token' = c.copy.id
      BY <1>9, <2>2 DEF AnonAnswers
    <3>2. c.copy.id \in Accounts /\ c.copy = bank[c.copy.id]
      BY <1>2, <2>1, <2>2 DEF Answers
    <3>3. Whose' /\ Books' /\ Kept'
      BY <1>1, <1>3, <1>4, <1>5, <2>1, <3>1, <3>2, AppliedAlone
    <3> QED BY <1>6, <2>1, <3>3
  <2>3. CASE c.status # "ok"
    <3>1. account' = account
      BY <1>9, <2>3 DEF AnonAnswers, MarkLocalOnly
    <3> QED BY <1>6, <2>1, <3>1 DEF Whose, Books, Kept
  <2> QED BY <2>2, <2>3
<1>10. CASE PushAnswered(c)
  <2>1. /\ c.kind = "patch" /\ Done(c) /\ UNCHANGED <<token, account, login, disk, owned, pending>>
    BY <1>10 DEF PushAnswered, storeVars
  <2>2. unsaved' = (unsaved \/ c.status # "ok")
    BY <1>10 DEF PushAnswered
  <2>3. ~unsaved' => ~unsaved /\ c.status = "ok"
    BY <2>2, Zenon
  <2>4. Kept'
    BY <1>2, <1>7, <2>1, <2>3 DEF NoPushFailed
  <2>5. Whose' /\ Books'
    BY <1>2, <1>3, <2>1 DEF Whose, Books
  <2> QED BY <1>6, <2>1, <2>4, <2>5
<1>11. CASE BuyJudged(c)
  <2>1. /\ c.kind = "buy" /\ Done(c) /\ UNCHANGED <<token, account, login>> /\ UNCHANGED unsaved
        /\ owned' = IF c.owner = "open" THEN c.copy.owned ELSE owned
        /\ pending' = IF c.item \in c.copy.owned
                        THEN [pending EXCEPT !.customization = c.edit] ELSE pending
        /\ disk' = [coins |-> c.copy.coins, owned |-> c.copy.owned, profile |->
                     IF c.item \in c.copy.owned
                       THEN [disk.profile EXCEPT !.customization = c.edit] ELSE disk.profile]
    BY <1>11 DEF BuyJudged, storeVars
  <2>2. /\ c.copy = bank[token] /\ token \in Accounts /\ c.edit # 0
    BY <1>2, <1>11 DEF BuyJudged, Answers, Asked
  <2>3. disk'.coins = bank[token].coins /\ disk'.owned = bank[token].owned
    BY <2>1, <2>2
  <2>4. Whose'
    BY <1>2, <1>3, <2>1 DEF Whose
  <2>5. Books'
    BY <1>2, <1>3, <2>1, <2>2, <2>3 DEF Books, Wealth
  <2>6. ASSUME account # NoAccount, token = account, ~unsaved, NEW f \in Fields
        PROVE  Saved(f)'
    <3>1. Saved(f) /\ ~Pushed(c, f)
      BY <1>2, <2>1, <2>6 DEF Kept, NoPushFailed, Pushed
    <3>2. disk.profile \in Profiles /\ pending \in Profiles
      BY DEF Types
    <3>3. CASE c.item \in c.copy.owned
      <4>1. /\ disk'.profile = [disk.profile EXCEPT !.customization = c.edit]
            /\ pending' = [pending EXCEPT !.customization = c.edit]
        BY <2>1, <3>3
      <4> QED BY <1>2, <1>3, <1>5, <2>1, <2>2, <3>1, <3>2, <4>1 DEF Saved, Profiles, Fields
    <3>4. CASE c.item \notin c.copy.owned
      <4>1. disk'.profile = disk.profile /\ pending' = pending
        BY <2>1, <3>4
      <4> QED BY <1>2, <1>3, <1>5, <2>1, <3>1, <4>1 DEF Saved
    <3> QED BY <3>3, <3>4
  <2>7. Kept'
    BY <2>1, <2>6 DEF Kept
  <2> QED BY <1>6, <2>1, <2>4, <2>5, <2>7
<1>12. CASE BuyWithoutServer(c)
  <2>1. /\ c.kind = "buy" /\ c.status \in {"503", "401", "failed"} /\ Done(c)
        /\ token' = IF c.status = "401" THEN NoAccount ELSE token
        /\ UNCHANGED <<account, login>> /\ UNCHANGED unsaved
    BY <1>12 DEF BuyWithoutServer, storeVars
  <2>2. CASE account = NoAccount
    BY <1>6, <2>1, <2>2 DEF Whose, Books, Kept
  <2>3. CASE account # NoAccount
    <3>1. c.status # "503" /\ token = account /\ UNCHANGED <<disk, owned, pending>>
      BY <1>2, <1>12, <2>1, <2>3 DEF BuyWithoutServer, Answers, OfflineInv, Whose, Asked
    <3>2. CASE c.status = "401"
      BY <1>2, <1>3, <1>6, <2>1, <2>3, <3>1, <3>2 DEF Whose, Books, Kept, Answers
    <3>3. CASE c.status = "failed"
      <4>1. Kept'
        BY <1>2, <1>7, <2>1, <3>1, <3>3 DEF NoPushFailed
      <4> QED BY <1>2, <1>3, <1>6, <2>1, <3>1, <3>3, <4>1 DEF Whose, Books
    <3> QED BY <2>1, <3>1, <3>2, <3>3
  <2> QED BY <2>2, <2>3
<1>13. CASE SignedIn(c)
  <2>1. c.kind = "login" /\ Done(c) /\ UNCHANGED pending /\ pending = NoEdits
    BY <1>2, <1>13 DEF SignedIn, Asked
  <2>2. CASE c.status = "ok"
    <3>1. ApplyAccount(c.copy) /\ token' = c.copy.id
      BY <1>13, <2>2 DEF SignedIn
    <3>2. /\ c.copy.id \in Accounts /\ c.copy = bank[c.copy.id]
          /\ token = NoAccount => c.copy.id # account
      BY <1>2, <2>1, <2>2 DEF Answers
    <3>3. c.copy.id = account => owned \subseteq bank[account].owned
      BY <1>2, <1>3, <3>2 DEF Whose, Books
    <3>4. Whose' /\ Books' /\ Kept'
      BY <1>1, <1>3, <1>4, <1>5, <2>1, <3>1, <3>2, <3>3, AppliedAlone
    <3> QED BY <1>6, <2>1, <3>4
  <2>3. CASE c.status # "ok"
    <3>1. UNCHANGED <<token, disk, account, login, owned>> /\ UNCHANGED unsaved
      BY <1>13, <2>3 DEF SignedIn
    <3>2. Kept'
      BY <1>2, <1>7, <2>1, <3>1 DEF NoPushFailed
    <3> QED BY <1>2, <1>3, <1>6, <2>1, <3>1, <3>2 DEF Whose, Books
  <2> QED BY <2>2, <2>3
<1>14. CASE SecretSet(c)
  <2>1. /\ c.kind = "credentials" /\ Done(c)
        /\ UNCHANGED <<token, account, disk, owned, pending>> /\ UNCHANGED unsaved
    BY <1>14 DEF SecretSet
  <2>2. login' = (login \/ c.status = "ok")
    BY <1>14 DEF SecretSet
  <2>3. login' => login \/ c.status = "ok"
    BY <2>2, Zenon
  <2>4. token # NoAccount /\ (c.status = "ok" => bank[token].login)
    BY <1>2, <2>1 DEF Asked, Answers
  <2>5. Whose' /\ Books'
    BY <1>2, <1>3, <2>1, <2>3, <2>4 DEF Whose, Books
  <2>6. ASSUME account # NoAccount, token = account, ~unsaved, NEW f \in Fields
        PROVE  Saved(f)'
    <3>1. Saved(f) /\ ~Pushed(c, f)
      BY <1>2, <2>1, <2>6 DEF Kept, NoPushFailed, Pushed
    <3> QED BY <1>2, <1>3, <1>5, <2>1, <3>1 DEF Saved
  <2>7. Kept'
    BY <2>1, <2>6 DEF Kept
  <2> QED BY <1>6, <2>1, <2>5, <2>7
<1> QED BY <1>8, <1>9, <1>10, <1>11, <1>12, <1>13, <1>14 DEF Answer

(***************************************************************************)
(* The user acts                                                           *)
(***************************************************************************)

\* A call is made with none out: it is the page's and the token's.
LEMMA MadeAlone ==
  ASSUME calls = {}, Whose, Books, NEW d, calls' = {d}, Asked(d)', d.status = "sent",
         UNCHANGED <<serverVars, token, account, login, disk, owned>>, Kept'
  PROVE  OnlineInv'
<1>1. Answers(d)'
  BY DEF Answers
<1>2. Whose' /\ Books'
  BY DEF Whose, Books, Wealth, serverVars
<1> QED BY <1>1, <1>2 DEF OnlineInv, One

LEMMA UserOnline ==
  ASSUME Types, Types', OnlineInv, ~overlapped', User \/ PushTimer
  PROVE  OnlineInv'
<1>1. \A S : overlapped' = (overlapped \/ S) => ~overlapped /\ ~S
  BY Zenon
<1>2. bank \in [Accounts -> Copies] /\ NoAccount \notin Accounts /\ edits + 1 # 0
      /\ token \in MaybeAccount /\ account \in MaybeAccount /\ pending \in Profiles
      /\ disk \in [coins : Nat, owned : SUBSET Items, profile : Profiles]
  BY AccountsAssumption DEF Types
<1>3. ~overlapped => Whose /\ Books /\ Kept
  BY DEF OnlineInv
<1>4. calls = {} => NoPushFailed /\ \A c, f : c \in calls => ~Pushed(c, f)
  BY DEF NoPushFailed
<1>5. ASSUME NEW f \in Fields, Edit(f)
      PROVE  OnlineInv'
  <2>1. overlapped' = (overlapped \/ Waiting) /\ UNCHANGED unsaved
    BY <1>5 DEF Edit
  <2>2. ~overlapped /\ calls = {}
    BY <1>1, <2>1 DEF Waiting
  <2>3. /\ edits' = edits + 1 /\ disk' = [disk EXCEPT !.profile[f] = edits']
        /\ pending' = [pending EXCEPT ![f] = edits']
        /\ UNCHANGED <<serverVars, token, account, login, owned, calls>>
    BY <1>5 DEF Edit, storeVars
  <2>4. /\ disk'.coins = disk.coins /\ disk'.owned = disk.owned
        /\ disk'.profile = [disk.profile EXCEPT ![f] = edits + 1]
        /\ disk.profile \in Profiles
    BY <1>2, <2>3
  <2>5. ASSUME account # NoAccount, token = account, ~unsaved, NEW g \in Fields
        PROVE  Saved(g)'
    <3>1. Saved(g)
      BY <1>3, <1>4, <2>2, <2>5 DEF Kept
    <3> QED BY <1>2, <2>2, <2>3, <2>4, <3>1 DEF Saved, Profiles, serverVars
  <2>6. Kept'
    BY <2>1, <2>3, <2>5 DEF Kept
  <2>7. Whose' /\ Books'
    BY <1>3, <2>2, <2>3, <2>4 DEF Whose, Books, Wealth, serverVars
  <2> QED BY <2>2, <2>3, <2>6, <2>7 DEF OnlineInv, One
<1>6. ASSUME NEW i \in Items, BuyLocally(i)
      PROVE  OnlineInv'
  <2>1. overlapped' = (overlapped \/ Waiting)
    BY <1>6 DEF BuyLocally
  <2>2. ~overlapped /\ calls = {}
    BY <1>1, <2>1 DEF Waiting
  <2>3. token = NoAccount /\ UNCHANGED <<serverVars, token, account, login, calls>>
    BY <1>6 DEF BuyLocally, storeVars
  <2> QED BY <1>3, <2>2, <2>3 DEF OnlineInv, One, Whose, Books, Kept, serverVars
<1>7. ASSUME NEW i \in Items, BuyItem(i)
      PROVE  OnlineInv'
  <2>1. /\ overlapped' = (overlapped \/ Waiting) /\ token # NoAccount
        /\ UNCHANGED <<serverVars, token, disk, account, login, owned, pending>>
        /\ UNCHANGED unsaved /\ edits' = edits + 1
        /\ calls' = calls \cup {[Call("buy") EXCEPT !.item = i, !.before = disk.coins, !.edit = edits']}
    BY <1>7 DEF BuyItem, Make, storeVars
  <2>2. ~overlapped /\ calls = {}
    BY <1>1, <2>1 DEF Waiting
  <2> DEFINE d == CallWith("buy", token, Blank, i, disk.coins, edits + 1, NoAccount, NoEdits)
  <2>3. calls' = {d}
    BY <2>1, <2>2, BuyMade
  <2>4. d.kind = "buy" /\ d.token = token /\ d.owner = "open" /\ d.status = "sent" /\ d.edit = edits + 1
    BY DEF CallWith
  <2> HIDE DEF d
  <2>5. \A e : e.kind = "buy" /\ e.token = token /\ e.owner = "open" /\ e.edit = edits + 1 => Asked(e)'
    BY <1>2, <2>1 DEF Asked
  <2>6. ASSUME account # NoAccount, token = account, ~unsaved, NEW g \in Fields
        PROVE  Saved(g)'
    <3>1. Saved(g)
      BY <1>3, <1>4, <2>2, <2>6 DEF Kept
    <3> QED BY <2>1, <2>2, <2>3, <2>4, <3>1 DEF Saved, Pushed, serverVars
  <2>7. Kept'
    BY <2>1, <2>6 DEF Kept
  <2>8. PICK e : e = d
    OBVIOUS
  <2> QED BY <1>3, <2>1, <2>2, <2>3, <2>4, <2>5, <2>7, <2>8, MadeAlone
<1>8. ASSUME NEW d, calls' = calls \cup {d}, d.kind \in {"login", "credentials"}, d.token = token,
             d.kind = "credentials" => token # NoAccount, d.owner = "open", d.status = "sent",
             overlapped' = (overlapped \/ Waiting \/ pending # NoEdits),
             UNCHANGED <<serverVars, token, disk, account, login, owned, pending>>, UNCHANGED unsaved
      PROVE  OnlineInv'
  <2>1. ~overlapped /\ calls = {} /\ pending = NoEdits
    <3>1. ~overlapped /\ ~Waiting /\ ~(pending # NoEdits)
      BY <1>8, Zenon
    <3> QED BY <3>1 DEF Waiting
  <2>2. Asked(d)'
    BY <1>8, <2>1 DEF Asked
  <2>3. ASSUME account # NoAccount, token = account, ~unsaved, NEW g \in Fields
        PROVE  Saved(g)'
    <3>1. Saved(g)
      BY <1>3, <1>4, <2>1, <2>3 DEF Kept
    <3> QED BY <1>8, <2>1, <3>1 DEF Saved, Pushed, serverVars
  <2>4. Kept'
    BY <1>8, <2>3 DEF Kept
  <2>5. calls' = {d}
    BY <1>8, <2>1
  <2> QED BY <1>3, <1>8, <2>1, <2>2, <2>4, <2>5, MadeAlone
<1>9. ASSUME NEW a \in Accounts, SubmitLogin(a) \/ SubmitCode(a)
      PROVE  OnlineInv'
  <2>1. Submit([Call("login") EXCEPT !.target = a])
    BY <1>9 DEF SubmitLogin, SubmitCode
  <2> DEFINE d == CallWith("login", token, Blank, NoItem, 0, 0, a, NoEdits)
  <2>2. Submit(d)
    BY <2>1, CallsMade
  <2>3. d.kind = "login" /\ d.token = token /\ d.owner = "open" /\ d.status = "sent"
    BY DEF CallWith
  <2> HIDE DEF d
  <2> QED BY <1>8, <2>2, <2>3 DEF Submit, storeVars
<1>10. CASE SubmitCreate \/ RequestCode
  <2>1. token # NoAccount /\ Submit(Call("credentials"))
    BY <1>10 DEF SubmitCreate, RequestCode
  <2> DEFINE d == CallWith("credentials", token, Blank, NoItem, 0, 0, NoAccount, NoEdits)
  <2>2. Submit(d)
    BY <2>1, CallsMade
  <2>3. d.kind = "credentials" /\ d.token = token /\ d.owner = "open" /\ d.status = "sent"
    BY DEF CallWith
  <2> HIDE DEF d
  <2> QED BY <1>8, <2>1, <2>2, <2>3 DEF Submit, storeVars
\* Components go away: the call is still the page's.
<1>11. ASSUME NEW c \in calls, calls' = {c} \/ calls' = {[c EXCEPT !.owner = "left"]}, calls = {c},
              UNCHANGED <<serverVars, token, disk, account, login, pending>>, UNCHANGED unsaved,
              UNCHANGED overlapped, owned' \in {owned, disk.owned}
       PROVE  OnlineInv'
  <2>1. ~overlapped /\ Asked(c) /\ Answers(c) /\ c \in CallSet /\ Whose /\ Books /\ Kept
    BY <1>11, TheOnlyCall DEF OnlineInv, Types
  <2>2. PICK d : /\ calls' = {d} /\ d.owner # "orphan" /\ d.kind = c.kind /\ d.token = c.token
                 /\ d.status = c.status /\ d.copy = c.copy /\ d.edit = c.edit /\ d.patch = c.patch
    <3>1. c.owner # "orphan"
      BY <2>1 DEF Asked
    <3> DEFINE d == [c EXCEPT !.owner = "left"]
    <3>2. /\ d.owner = "left" /\ d.kind = c.kind /\ d.token = c.token
          /\ d.status = c.status /\ d.copy = c.copy /\ d.edit = c.edit /\ d.patch = c.patch
      BY <2>1, OwnerFields
    <3> QED BY <1>11, <3>1, <3>2
  <2>3. Asked(d)' /\ Answers(d)'
    BY <1>11, <2>1, <2>2 DEF Asked, Answers, serverVars
  <2>4. ASSUME account # NoAccount, token = account, ~unsaved, NoPushFailed', NEW g \in Fields
        PROVE  Saved(g)'
    <3>1. NoPushFailed
      BY <1>11, <2>2, <2>4 DEF NoPushFailed
    <3>2. Saved(g)
      BY <2>1, <2>4, <3>1 DEF Kept
    <3>3. Pushed(c, g) <=> Pushed(d, g)
      BY <2>2 DEF Pushed
    <3> QED BY <1>11, <2>2, <3>2, <3>3 DEF Saved, serverVars
  <2>5. Kept'
    BY <1>11, <2>4 DEF Kept
  <2>6. Whose' /\ Books'
    BY <1>11, <2>1 DEF Whose, Books, Wealth, serverVars
  <2> QED BY <2>2, <2>3, <2>5, <2>6 DEF OnlineInv, One
<1>12. CASE ReopenModal
  <2>1. /\ calls' = {IF c.kind \in Modal THEN [c EXCEPT !.owner = "left"] ELSE c : c \in calls}
        /\ UNCHANGED <<serverVars, token, disk, account, login, owned, pending>>
        /\ UNCHANGED unsaved /\ UNCHANGED overlapped
    BY <1>12 DEF ReopenModal, browserVars, storeVars
  <2>2. PICK c \in calls : TRUE
    BY <1>12 DEF ReopenModal, ModalBusy
  <2>3. calls = {c}
    BY <2>1, TheOnlyCall
  <2> QED BY <1>11, <2>1, <2>3
<1>13. CASE RemountLobby
  <2>1. /\ calls' = {IF c.owner = "open" /\ c.kind \in Modal \cup {"buy"}
                       THEN [c EXCEPT !.owner = "left"] ELSE c : c \in calls}
        /\ owned' = disk.owned
        /\ UNCHANGED <<serverVars, token, disk, account, login, pending>>
        /\ UNCHANGED unsaved /\ UNCHANGED overlapped
    BY <1>13 DEF RemountLobby, storeVars
  <2>2. PICK c \in calls : TRUE
    BY <1>13 DEF RemountLobby, Buying
  <2>3. calls = {c}
    BY <2>1, TheOnlyCall
  <2> QED BY <1>11, <2>1, <2>3
<1>14. CASE Reload
  <2>1. overlapped' = (overlapped \/ Waiting)
    BY <1>14 DEF Reload
  <2>2. calls = {}
    BY <1>1, <2>1 DEF Waiting
  <2>3. PICK kept \in SUBSET {c \in calls : Out(c) /\ c.kind \in Effects} :
          calls' = {[c EXCEPT !.owner = "orphan"] : c \in kept} \cup {BootCall}
    BY <1>14 DEF Reload
  <2>4. account' = NoAccount /\ pending' = NoEdits /\ token' = token
    BY <1>14 DEF Reload
  <2> DEFINE d == CallWith(IF token = NoAccount THEN "anon" ELSE "me", token, Seed, NoItem, 0, 0,
                           NoAccount, NoEdits)
  <2>5. calls' = {d}
    BY <2>2, <2>3, CallsMade DEF BootCall
  <2>6. /\ d.kind = IF token = NoAccount THEN "anon" ELSE "me"
        /\ d.token = token /\ d.owner = "open" /\ d.status = "sent"
    BY DEF CallWith
  <2> HIDE DEF d
  <2>7. \A e : /\ e.kind = IF token = NoAccount THEN "anon" ELSE "me"
               /\ e.token = token /\ e.owner = "open" /\ e.status = "sent"
               => Asked(e)' /\ Answers(e)'
    BY <2>4 DEF Asked, Answers
  <2>8. \A e \in calls' : Asked(e)' /\ Answers(e)'
    BY <2>5, <2>6, <2>7
  <2> QED BY <2>4, <2>5, <2>8 DEF OnlineInv, One, Whose, Books, Kept
<1>15. CASE RankedMatchEnds
  BY <1>15 DEF RankedMatchEnds, OnlineInv, One, Asked, Answers, Whose, Books, Kept, Saved,
               NoPushFailed, Wealth, serverVars
<1>16. CASE PushTimer
  <2>1. /\ pending' = NoEdits /\ UNCHANGED <<serverVars, token, disk, account, login, owned>>
        /\ pending # NoEdits
    BY <1>16 DEF PushTimer, storeVars
  <2>2. CASE token = NoAccount
    <3>1. UNCHANGED calls /\ UNCHANGED overlapped
      BY <1>16, <2>2 DEF PushTimer
    <3>2. Kept'
      BY <2>1, <2>2 DEF Kept
    <3>3. \A c \in calls : Asked(c)' /\ Answers(c)'
      BY <2>1, <3>1 DEF OnlineInv, Asked, Answers, serverVars
    <3> QED BY <2>1, <3>1, <3>2, <3>3 DEF OnlineInv, One, Whose, Books, Wealth, serverVars
  <2>3. CASE token # NoAccount
    <3>1. /\ overlapped' = (overlapped \/ Waiting) /\ UNCHANGED unsaved
          /\ calls' = calls \cup {[Call("patch") EXCEPT !.patch = pending]}
      BY <1>16, <2>3 DEF PushTimer, Make
    <3>2. ~overlapped /\ calls = {}
      BY <1>1, <3>1 DEF Waiting
    <3> DEFINE d == CallWith("patch", token, Blank, NoItem, 0, 0, NoAccount, pending)
    <3>3. calls' = {d}
      BY <3>1, <3>2, CallsMade
    <3>4. /\ d.kind = "patch" /\ d.token = token /\ d.owner = "open" /\ d.status = "sent"
          /\ d.patch = pending
      BY DEF CallWith
    <3> HIDE DEF d
    <3>5. PICK e : /\ calls' = {e} /\ e.kind = "patch" /\ e.token = token /\ e.owner = "open"
                   /\ e.status = "sent" /\ e.patch = pending
      BY <3>3, <3>4
    <3>6. Asked(e)'
      BY <2>1, <2>3, <3>5 DEF Asked
    <3>7. ASSUME account # NoAccount, token = account, ~unsaved, NEW g \in Fields
          PROVE  Saved(g)'
      <4>1. Saved(g)
        BY <1>3, <1>4, <3>2, <3>7 DEF Kept
      <4>2. pending'[g] = 0
        BY <2>1, BlankIsACopy
      <4>3. \A c \in calls : ~Pushed(c, g)
        BY <3>2
      <4> QED BY <2>1, <3>5, <4>1, <4>2, <4>3 DEF Saved, Pushed, serverVars
    <3>8. Kept'
      BY <2>1, <3>1, <3>7 DEF Kept
    <3> QED BY <1>3, <2>1, <3>2, <3>5, <3>6, <3>8, MadeAlone
  <2> QED BY <2>2, <2>3
<1> QED BY <1>5, <1>6, <1>7, <1>9, <1>10, <1>12, <1>13, <1>14, <1>15, <1>16 DEF User

LEMMA OnlinePreserved ==
  ASSUME Types, Types', OnlineInv, OfflineInv, [Next]_vars
  PROVE  OnlineInv'
<1> SUFFICES ASSUME ~overlapped'
             PROVE  OnlineInv'
  BY DEF OnlineInv
<1>1. CASE UNCHANGED vars
  BY <1>1 DEF vars, serverVars, storeVars, OnlineInv, One, Asked, Answers, Whose, Books, Kept, Saved,
              NoPushFailed, Wealth
\* Less is alive than before: what was said to be dead is.
<1>2. ASSUME NEW a \in Accounts, DropAccount(a)
      PROVE  OnlineInv'
  BY <1>2 DEF DropAccount, browserVars, storeVars, OnlineInv, One, Asked, Answers, Whose, Books,
              Kept, Saved, NoPushFailed, Wealth
<1> QED BY <1>1, <1>2, ServeOnline, AnswerOnline, UserOnline DEF Next

(***************************************************************************)
(* Without a database                                                      *)
(***************************************************************************)

\* A call is answered, or goes away: the latch and the prices are as before.
LEMMA OfflineAnswered ==
  ASSUME Types, OfflineInv, ~db, NEW c \in calls, NEW status \in {"503", "failed"},
         Answered(c, status, c.copy), UNCHANGED <<serverVars, browserVars>>
  PROVE  OfflineInv'
<1>1. c \in CallSet /\ c.copy \in Copies /\ status \in Outcomes
  BY DEF Types, CallSet, Outcomes
<1>2. PICK d : /\ calls' = (calls \ {c}) \cup IF Mine(c) THEN {d} ELSE {}
               /\ d.kind = c.kind /\ d.owner = c.owner /\ d.status = status
               /\ d.before = c.before /\ d.item = c.item
  <2>1. calls' = (calls \ {c}) \cup IF Mine(c) THEN {AnswerOf(c, status, c.copy)} ELSE {}
    BY DEF Answered, AnswerOf
  <2> QED BY <1>1, <2>1, AnswerFields
<1>3. account' = NoAccount
  BY DEF OfflineInv, browserVars, storeVars
<1>4. \A e \in calls' : Unserved(e)
  BY <1>2 DEF OfflineInv, Unserved, Mine
<1>5. ASSUME ~left
      PROVE  Latched'
  <2>1. Latched /\ UNCHANGED <<disk, owned, token>>
    BY <1>5 DEF OfflineInv, browserVars
  <2>2. OneBuy'
    BY <1>2, <2>1 DEF Latched, OneBuy, OpenBuy
  <2>3. \A e \in calls' : Priced(e)'
    BY <1>2, <2>1 DEF Latched, Priced
  <2> QED BY <2>1, <2>2, <2>3 DEF Latched, Wealth
<1> QED BY <1>3, <1>4, <1>5 DEF OfflineInv, browserVars

\* A purchase by the local rule moves one coin.
LEMMA LocallyPaidWealth ==
  ASSUME Types, NEW i \in Items, i \notin owned, owned = disk.owned, NEW edit \in Nat,
         disk.coins >= 1, PayLocally(i, disk.coins, edit)
  PROVE  owned' = disk'.owned /\ Wealth(disk') = Wealth(disk)
<1>1. disk.coins \in Nat /\ disk.owned \subseteq Items
  BY DEF Types
<1>2. disk'.coins = disk.coins - 1 /\ disk'.owned = owned \cup {i} /\ owned' = owned \cup {i}
  BY <1>1, LocallyPaid
<1> QED BY <1>1, <1>2, WealthOfPurchase

LEMMA OfflineAnswer ==
  ASSUME Types, OfflineInv, ~db, NEW c \in calls, Answer(c)
  PROVE  OfflineInv'
<1>1. Unserved(c) /\ account = NoAccount /\ \A d \in calls : Unserved(d)
  BY DEF OfflineInv
<1>2. c.status = "sent" \/ c.status \in {"503", "failed"}
  BY <1>1 DEF Unserved
<1>3. ASSUME calls' = calls \ {c}, account' = account, left' = left,
             ~left => UNCHANGED <<token, disk, owned>>
      PROVE  OfflineInv'
  BY <1>1, <1>3 DEF OfflineInv, Latched, OneBuy, Priced, Wealth
<1>4. CASE BootAnswers(c)
  BY <1>2, <1>3, <1>4 DEF BootAnswers, Out, MarkLocalOnly, Done
<1>5. CASE AnonAnswers(c)
  BY <1>2, <1>3, <1>5 DEF AnonAnswers, Out, MarkLocalOnly, Done
<1>6. CASE PushAnswered(c)
  BY <1>3, <1>6 DEF PushAnswered, storeVars, Done
<1>7. CASE SignedIn(c)
  BY <1>2, <1>3, <1>7 DEF SignedIn, Out, Done
<1>8. CASE SecretSet(c)
  BY <1>3, <1>8 DEF SecretSet, Done
<1>9. CASE BuyJudged(c)
  BY <1>2, <1>9 DEF BuyJudged
<1>10. CASE BuyWithoutServer(c)
  <2>1. /\ c.kind = "buy" /\ c.status \in {"503", "failed"} /\ calls' = calls \ {c}
        /\ token' = token /\ UNCHANGED <<account, left>>
    BY <1>2, <1>10 DEF BuyWithoutServer, storeVars, Done
  <2>2. CASE UNCHANGED <<disk, owned>>
    BY <1>3, <2>1, <2>2
  <2>3. CASE ~UNCHANGED <<disk, owned>>
    <3>1. c.before >= 1 /\ PayLocally(c.item, c.before, c.edit)
      BY <1>10, <2>3 DEF BuyWithoutServer
    <3>2. SUFFICES ASSUME ~left
                   PROVE  Latched'
      BY <1>1, <2>1 DEF OfflineInv
    <3>3. Latched
      BY <3>2 DEF OfflineInv
    <3>4. c.owner # "orphan"
      BY <1>1, <2>1 DEF Unserved
    <3>5. c.owner = "open" /\ c.before = disk.coins /\ c.item \notin owned
      BY <2>1, <3>3, <3>4 DEF Latched, Priced
    <3>6. owned' = disk'.owned /\ Wealth(disk') = PocketCoins
      <4>1. c.item \in Items /\ c.edit \in Nat
        BY <2>1 DEF Types, CallSet
      <4> QED BY <3>1, <3>3, <3>5, <4>1, LocallyPaidWealth DEF Latched
    <3>7. \A d \in calls' : d.kind = "buy" => d.owner = "orphan"
      BY <2>1, <3>3, <3>5 DEF Latched, Priced, OneBuy, OpenBuy
    <3>8. OneBuy' /\ \A d \in calls' : Priced(d)'
      BY <3>7 DEF OneBuy, OpenBuy, Priced
    <3>9. (Wealth(disk) = PocketCoins)'
      BY <3>6 DEF Wealth
    <3> QED BY <3>6, <3>8, <3>9 DEF Latched
  <2> QED BY <2>2, <2>3
<1> QED BY <1>4, <1>5, <1>6, <1>7, <1>8, <1>9, <1>10 DEF Answer

LEMMA OfflineUser ==
  ASSUME Types, OfflineInv, ~db, User \/ PushTimer
  PROVE  OfflineInv'
<1>1. account = NoAccount /\ \A d \in calls : Unserved(d)
  BY DEF OfflineInv
<1>2. ~left => Latched
  BY DEF OfflineInv
<1>3. disk \in [coins : Nat, owned : SUBSET Items, profile : Profiles]
  BY DEF Types
\* Another call than a purchase.
<1>4. ASSUME NEW d, calls' = calls \cup {d}, d.kind # "buy", d.status = "sent",
             UNCHANGED <<token, disk, account, owned, left>>
      PROVE  OfflineInv'
  <2>1. Unserved(d) /\ Priced(d)' /\ ~OpenBuy(d)
    BY <1>4 DEF Unserved, Priced, OpenBuy
  <2>2. ASSUME ~left
        PROVE  Latched'
    <3>1. Latched
      BY <1>2, <2>2
    <3>2. OneBuy'
      BY <1>4, <2>1, <3>1 DEF Latched, OneBuy
    <3> QED BY <1>4, <2>1, <3>1, <3>2 DEF Latched, Priced, Wealth
  <2> QED BY <1>1, <1>4, <2>1, <2>2 DEF OfflineInv
<1>5. ASSUME NEW f \in Fields, Edit(f)
      PROVE  OfflineInv'
  <2>1. /\ disk' = [disk EXCEPT !.profile[f] = edits']
        /\ UNCHANGED <<token, account, owned, calls, left>>
    BY <1>5 DEF Edit, storeVars
  <2>2. disk'.coins = disk.coins /\ disk'.owned = disk.owned
    BY <1>3, <2>1
  <2> QED BY <1>1, <1>2, <2>1, <2>2 DEF OfflineInv, Latched, OneBuy, Priced, Wealth
<1>6. ASSUME NEW i \in Items, BuyLocally(i)
      PROVE  OfflineInv'
  <2>1. /\ token = NoAccount /\ i \notin owned /\ disk.coins >= 1 /\ edits' = edits + 1
        /\ PayLocally(i, disk.coins, edits') /\ UNCHANGED <<token, account, calls, left>>
    BY <1>6 DEF BuyLocally, storeVars, ForSale
  <2>2. ASSUME ~left
        PROVE  Latched'
    <3>1. Latched /\ edits + 1 \in Nat
      BY <1>2, <2>2 DEF Types
    <3>2. owned' = disk'.owned /\ Wealth(disk') = PocketCoins
      BY <2>1, <3>1, LocallyPaidWealth DEF Latched
    <3>3. \A d \in calls : d.kind = "buy" => d.owner = "orphan"
      BY <2>1, <3>1 DEF Latched, Priced
    <3>4. OneBuy' /\ \A d \in calls' : Priced(d)'
      BY <2>1, <3>3 DEF OneBuy, OpenBuy, Priced
    <3>5. (Wealth(disk) = PocketCoins)'
      BY <3>2 DEF Wealth
    <3> QED BY <3>2, <3>4, <3>5 DEF Latched
  <2> QED BY <1>1, <2>1, <2>2 DEF OfflineInv
<1>7. ASSUME NEW i \in Items, BuyItem(i)
      PROVE  OfflineInv'
  <2>1. /\ token # NoAccount /\ i \notin owned /\ ~Buying
        /\ UNCHANGED <<token, disk, account, owned, left>>
        /\ calls' = calls \cup {[Call("buy") EXCEPT !.item = i, !.before = disk.coins, !.edit = edits']}
    BY <1>7 DEF BuyItem, Make, storeVars, ForSale
  <2> DEFINE d == CallWith("buy", token, Blank, i, disk.coins, edits', NoAccount, NoEdits)
  <2>2. calls' = calls \cup {d}
    BY <2>1, BuyMade
  <2>3. /\ d.kind = "buy" /\ d.owner = "open" /\ d.status = "sent" /\ d.item = i
        /\ d.before = disk.coins
    BY DEF CallWith
  <2> HIDE DEF d
  <2>4. PICK e : /\ calls' = calls \cup {e} /\ e.kind = "buy" /\ e.owner = "open"
                 /\ e.status = "sent" /\ e.item = i /\ e.before = disk.coins
    BY <2>2, <2>3
  <2>5. \A b \in calls : ~OpenBuy(b)
    BY <2>1 DEF Buying, OpenBuy
  <2>6. OneBuy'
    BY <2>4, <2>5 DEF OneBuy
  <2>7. Priced(e)' /\ Unserved(e)
    BY <2>1, <2>4 DEF Priced, Unserved
  <2>8. ASSUME ~left
        PROVE  Latched'
    BY <1>2, <2>1, <2>4, <2>6, <2>7, <2>8 DEF Latched, Priced, Wealth
  <2> QED BY <1>1, <2>1, <2>4, <2>7, <2>8 DEF OfflineInv
<1>8. ASSUME NEW a \in Accounts, SubmitLogin(a) \/ SubmitCode(a)
      PROVE  OfflineInv'
  <2>1. Submit([Call("login") EXCEPT !.target = a])
    BY <1>8 DEF SubmitLogin, SubmitCode
  <2> DEFINE d == CallWith("login", token, Blank, NoItem, 0, 0, a, NoEdits)
  <2>2. Submit(d)
    BY <2>1, CallsMade
  <2>3. d.kind = "login" /\ d.status = "sent"
    BY DEF CallWith
  <2> HIDE DEF d
  <2> QED BY <1>4, <2>2, <2>3 DEF Submit, storeVars
<1>9. CASE SubmitCreate \/ RequestCode
  <2>1. Submit(Call("credentials"))
    BY <1>9 DEF SubmitCreate, RequestCode
  <2> DEFINE d == CallWith("credentials", token, Blank, NoItem, 0, 0, NoAccount, NoEdits)
  <2>2. Submit(d)
    BY <2>1, CallsMade
  <2>3. d.kind = "credentials" /\ d.status = "sent"
    BY DEF CallWith
  <2> HIDE DEF d
  <2> QED BY <1>4, <2>2, <2>3 DEF Submit, storeVars
<1>10. CASE ReopenModal
  <2>1. /\ calls' = {IF c.kind \in Modal THEN [c EXCEPT !.owner = "left"] ELSE c : c \in calls}
        /\ UNCHANGED <<token, disk, account, owned, left>>
    BY <1>10 DEF ReopenModal, browserVars, storeVars
  <2>2. ASSUME NEW d \in calls'
        PROVE  Unserved(d) /\ (d.kind = "buy" => d \in calls)
    <3>1. PICK c \in calls : d = IF c.kind \in Modal THEN [c EXCEPT !.owner = "left"] ELSE c
      BY <2>1
    <3>2. Unserved(c) /\ c \in CallSet
      BY <1>1 DEF Types
    <3>3. CASE c.kind \in Modal
      <4>1. d.owner = "left" /\ d.kind = c.kind /\ d.status = c.status
        BY <3>1, <3>2, <3>3, OwnerFields
      <4> QED BY <3>2, <3>3, <4>1 DEF Unserved, Modal
    <3>4. CASE c.kind \notin Modal
      BY <3>1, <3>2, <3>4
    <3> QED BY <3>3, <3>4
  <2>3. ASSUME ~left
        PROVE  Latched'
    <3>1. Latched
      BY <1>2, <2>3
    <3>2. OneBuy'
      BY <2>2, <3>1 DEF Latched, OneBuy, OpenBuy
    <3>3. \A d \in calls' : Priced(d)'
      BY <2>1, <2>2, <3>1 DEF Latched, Priced
    <3> QED BY <2>1, <3>1, <3>2, <3>3 DEF Latched, Wealth
  <2> QED BY <1>1, <2>1, <2>2, <2>3 DEF OfflineInv
<1>11. CASE RemountLobby
  <2>1. /\ calls' = {IF c.owner = "open" /\ c.kind \in Modal \cup {"buy"}
                       THEN [c EXCEPT !.owner = "left"] ELSE c : c \in calls}
        /\ left' = TRUE /\ UNCHANGED account
    BY <1>11 DEF RemountLobby, storeVars
  <2>2. ASSUME NEW d \in calls'
        PROVE  Unserved(d)
    <3>1. PICK c \in calls : d = c \/ (c.owner = "open" /\ d = [c EXCEPT !.owner = "left"])
      BY <2>1
    <3>2. Unserved(c) /\ c \in CallSet
      BY <1>1 DEF Types
    <3>3. CASE d = [c EXCEPT !.owner = "left"]
      <4>1. d.owner = "left" /\ d.status = c.status
        BY <3>2, <3>3, OwnerFields
      <4> QED BY <3>2, <4>1 DEF Unserved
    <3> QED BY <3>1, <3>2, <3>3
  <2> QED BY <1>1, <2>1, <2>2 DEF OfflineInv
<1>12. CASE Reload
  <2>1. PICK kept \in SUBSET {c \in calls : Out(c) /\ c.kind \in Effects} :
          calls' = {[c EXCEPT !.owner = "orphan"] : c \in kept} \cup {BootCall}
    BY <1>12 DEF Reload
  <2>2. account' = NoAccount /\ owned' = disk.owned /\ disk' = disk /\ left' = left
    BY <1>12 DEF Reload
  <2>3. BootCall.kind # "buy" /\ BootCall.status = "sent"
    <3>1. BootCall = CallWith(IF token = NoAccount THEN "anon" ELSE "me", token, Seed, NoItem, 0, 0,
                              NoAccount, NoEdits)
      BY CallsMade DEF BootCall
    <3> QED BY <3>1 DEF CallWith
  <2>4. ASSUME NEW c \in kept
        PROVE  LET d == [c EXCEPT !.owner = "orphan"] IN d.owner = "orphan" /\ d.status = "sent"
    <3>1. c \in CallSet /\ c.status = "sent"
      BY DEF Types, Out
    <3> QED BY <3>1, OwnerFields
  <2>5. \A d \in calls' : d.status = "sent" /\ (d.kind = "buy" => d.owner = "orphan")
    BY <2>1, <2>3, <2>4
  <2>6. \A d \in calls' : Unserved(d) /\ Priced(d)' /\ ~OpenBuy(d)
    BY <2>5 DEF Unserved, Priced, OpenBuy
  <2>7. ASSUME ~left
        PROVE  Latched'
    BY <1>2, <2>2, <2>6, <2>7 DEF Latched, OneBuy, Wealth
  <2> QED BY <2>2, <2>6, <2>7 DEF OfflineInv
<1>13. CASE RankedMatchEnds
  BY <1>1, <1>13 DEF RankedMatchEnds
<1>14. CASE PushTimer
  <2>1. UNCHANGED <<token, disk, account, owned, left>>
    BY <1>14 DEF PushTimer, storeVars
  <2>2. CASE UNCHANGED calls
    BY <1>1, <1>2, <2>1, <2>2 DEF OfflineInv, Latched, OneBuy, Priced, Wealth
  <2>3. CASE ~UNCHANGED calls
    <3>1. calls' = calls \cup {[Call("patch") EXCEPT !.patch = pending]}
      BY <1>14, <2>3 DEF PushTimer, Make
    <3> DEFINE d == CallWith("patch", token, Blank, NoItem, 0, 0, NoAccount, pending)
    <3>2. calls' = calls \cup {d}
      BY <3>1, CallsMade
    <3>3. d.kind = "patch" /\ d.status = "sent"
      BY DEF CallWith
    <3> HIDE DEF d
    <3>4. PICK e : calls' = calls \cup {e} /\ e.kind = "patch" /\ e.status = "sent"
      BY <3>2, <3>3
    <3> QED BY <1>4, <2>1, <3>4
  <2> QED BY <2>2, <2>3
<1> QED BY <1>5, <1>6, <1>7, <1>8, <1>9, <1>10, <1>11, <1>12, <1>13, <1>14 DEF User

LEMMA OfflinePreserved ==
  ASSUME Types, OfflineInv, [Next]_vars
  PROVE  OfflineInv'
<1>1. CASE UNCHANGED vars
  BY <1>1 DEF vars, serverVars, storeVars, OfflineInv, Latched, OneBuy, Priced, Wealth
<1>2. ASSUME NEW a \in Accounts, DropAccount(a)
      PROVE  OfflineInv'
  BY <1>2 DEF DropAccount, browserVars, storeVars, OfflineInv, Latched, OneBuy, Priced, Wealth
<1>3. CASE Next /\ db' # db
  BY <1>3 DEF Next, User, PushTimer, Serve, Lose, Answer, DropAccount, serverVars, Edit, BuyLocally, BuyItem,
              SubmitLogin, SubmitCode, SubmitCreate, RequestCode, Submit, ReopenModal, RemountLobby,
              Reload, RankedMatchEnds, ServeRefusal, ServeMe, ServeAnon, ServeBuy, ServePatch,
              ServeSignIn, ServeSecret, BootAnswers, AnonAnswers, PushAnswered, BuyJudged,
              BuyWithoutServer, SignedIn, SecretSet
<1>4. ASSUME ~db, NEW c \in calls, Serve(c) \/ Lose(c)
      PROVE  OfflineInv'
  <2>1. CASE Lose(c)
    BY <1>4, <2>1, OfflineAnswered DEF Lose
  <2>2. CASE Serve(c)
    <3>1. ServeRefusal(c)
      BY <1>4, <2>2 DEF Serve, ServeMe, ServeAnon, ServeBuy, ServePatch, ServeSignIn, ServeSecret,
                        Honoured
    <3> QED BY <1>4, <3>1, OfflineAnswered DEF ServeRefusal
  <2> QED BY <1>4, <2>1, <2>2
<1>5. CASE Next /\ db' = db
  <2>1. CASE db
    BY <1>5, <2>1 DEF OfflineInv
  <2>2. CASE ~db
    BY <1>2, <1>4, <1>5, <2>2, OfflineAnswer, OfflineUser DEF Next
  <2> QED BY <2>1, <2>2
<1> QED BY <1>1, <1>3, <1>5

(***************************************************************************)
(* The theorems                                                            *)
(***************************************************************************)

LEMMA InitIdInv == Init => IdInv
<1> SUFFICES ASSUME Init
             PROVE  IdInv
  OBVIOUS
<1>1. /\ Residents \subseteq Accounts /\ NoAccount \notin Accounts
      /\ MaxCoins \in Nat /\ PocketCoins \in Nat
  BY AccountsAssumption, IdentityBounds
<1>2. /\ token \in Residents \cup {NoAccount} /\ alive = Residents /\ db \in BOOLEAN
      /\ account = NoAccount /\ owned = {} /\ pending = NoEdits /\ calls = {BootCall} /\ edits = 0
      /\ disk = [coins |-> IF token = NoAccount \/ ~db THEN PocketCoins ELSE bank[token].coins,
                 owned |-> {}, profile |-> NoEdits]
  BY DEF Init
<1>3. PICK c \in [Residents -> 1 .. MaxCoins] :
        bank = [a \in Accounts |-> IF a \in Residents THEN Copy(a, c[a], {}, NoEdits, TRUE)
                                                      ELSE Copy(a, 0, {}, NoEdits, FALSE)]
  BY DEF Init
<1>4. bank \in [Accounts -> Copies] /\ \A a \in Accounts : bank[a].id = a
  <2>1. ASSUME NEW a \in Accounts
        PROVE  bank[a] \in Copies /\ bank[a].id = a
    <3>1. CASE a \in Residents
      <4>1. bank[a] = Copy(a, c[a], {}, NoEdits, TRUE) /\ c[a] \in Nat
        BY <1>1, <1>3, <3>1
      <4> QED BY <4>1, BlankIsACopy DEF Copy, Copies, MaybeAccount
    <3>2. CASE a \notin Residents
      <4>1. bank[a] = Copy(a, 0, {}, NoEdits, FALSE)
        BY <1>3, <3>2
      <4> QED BY <4>1, BlankIsACopy DEF Copy, Copies, MaybeAccount
    <3> QED BY <3>1, <3>2
  <2> QED BY <1>3, <2>1
<1>5. disk \in [coins : Nat, owned : SUBSET Items, profile : Profiles]
  <2>1. token # NoAccount => bank[token].coins \in Nat
    BY <1>1, <1>2, <1>4 DEF Copies
  <2> QED BY <1>1, <1>2, <2>1, BlankIsACopy
<1> DEFINE d == CallWith(IF token = NoAccount THEN "anon" ELSE "me", token, Seed, NoItem, 0, 0,
                         NoAccount, NoEdits)
<1>6. calls = {d}
  BY <1>2, CallsMade DEF BootCall
<1>7. Seed \in Copies
  BY <1>5 DEF Seed, Copy, Copies, MaybeAccount
<1>8. d \in CallSet
  <2>1. NoItem \in Items \cup {NoItem} /\ token \in MaybeAccount /\ NoAccount \in MaybeAccount
    BY <1>1, <1>2 DEF MaybeAccount
  <2>2. (IF token = NoAccount THEN "anon" ELSE "me") \in CallKinds
    BY DEF CallKinds
  <2>3. NoEdits \in Profiles
    BY BlankIsACopy
  <2> QED BY <1>7, <2>1, <2>2, <2>3 DEF CallWith, CallSet, Outcomes
<1>9. /\ d.kind = IF token = NoAccount THEN "anon" ELSE "me"
      /\ d.token = token /\ d.owner = "open" /\ d.status = "sent"
  BY DEF CallWith
<1> HIDE DEF d
<1>10. Types
  BY <1>1, <1>2, <1>4, <1>5, <1>6, <1>8, <1>9, BlankIsACopy DEF Types, MaybeAccount
<1>11. \A e \in calls : Asked(e) /\ Answers(e) /\ Unserved(e) /\ ~OpenBuy(e) /\ Priced(e)
  BY <1>2, <1>6, <1>9 DEF Asked, Answers, Unserved, OpenBuy, Priced
<1>12. OnlineInv
  BY <1>2, <1>6, <1>11 DEF OnlineInv, One, Whose, Books, Kept
<1>13. OfflineInv
  <2>1. ~db => disk.coins = PocketCoins /\ disk.owned = {}
    BY <1>2
  <2>2. ~db => Wealth(disk) = PocketCoins
    BY <1>1, <2>1, FS_EmptySet DEF Wealth
  <2> QED BY <1>2, <1>11, <2>1, <2>2 DEF OfflineInv, Latched, OneBuy
<1> QED BY <1>10, <1>12, <1>13 DEF IdInv

\* While calls do not overlap there is one at most, and its answer is still true
\* when it arrives; without a database nothing but 503 ever arrives, and the
\* latch of the editor keeps purchases apart (identity.ts, useLocalProfile.ts).
THEOREM CallsStayTrue == Spec => []IdInv
<1>1. IdInv /\ [Next]_vars => IdInv'
  BY TypesPreserved, OnlinePreserved, OfflinePreserved DEF IdInv
<1> QED BY InitIdInv, <1>1, PTL DEF Spec

\* The coins, items and login on the screen are one account's and the token's,
\* for any shop and any number of accounts, as long as calls do not overlap
\* (applyAccount, buyItem, settle).
THEOREM ProfileIsNotMixed == Spec => []ProfileIsOneAccounts
<1>1. IdInv => ProfileIsOneAccounts
  BY DEF IdInv, OnlineInv, Whose, Books, ProfileIsOneAccounts
<1> QED BY CallsStayTrue, <1>1, PTL

\* Without a database coins and items add up to what there was at first,
\* whatever is bought and however often (buyItem, busyRef).
THEOREM LocalPurchasesBalance == Spec => []LocalLedgerBalances
<1>1. IdInv => LocalLedgerBalances
  BY DEF IdInv, OfflineInv, Latched, LocalLedgerBalances
<1> QED BY CallsStayTrue, <1>1, PTL

\* When it is quiet and nothing overlapped or failed, the server has every edit
\* of both fields, in whatever order they were made (pushProfileDebounced).
THEOREM EditsReachTheServer == Spec => []EditsAreSaved
<1>1. IdInv => EditsAreSaved
  <2> SUFFICES ASSUME IdInv, account # NoAccount, token = account, ~overlapped, ~unsaved,
                      pending = NoEdits, calls = {}
               PROVE  disk.profile = bank[account].profile
    BY DEF EditsAreSaved
  <2>1. \A f \in Fields : Saved(f)
    BY DEF IdInv, OnlineInv, Kept, NoPushFailed
  <2>2. \A f \in Fields : disk.profile[f] = bank[account].profile[f]
    BY <2>1, BlankIsACopy DEF Saved
  <2>3. disk.profile \in Profiles /\ bank[account].profile \in Profiles
    BY DEF IdInv, Types, Copies, MaybeAccount
  <2> QED BY <2>2, <2>3 DEF Profiles
<1> QED BY CallsStayTrue, <1>1, PTL

\* A token that is honoured is given up by nothing but signing in elsewhere: a
\* failed call, a reload or a purchase never does it (clearToken, saveToken).
THEOREM TokenIsKept == Spec => AccountsAreNotLost
<1>1. IdInv /\ [Next]_vars =>
        ((token \in alive /\ token' # token /\ ~overlapped) =>
           \E c \in calls : c.kind = "login" /\ token' = c.copy.id)
  <2> SUFFICES ASSUME IdInv, [Next]_vars, token \in alive, token' # token, ~overlapped
               PROVE  \E c \in calls : c.kind = "login" /\ token' = c.copy.id
    OBVIOUS
  <2>1. token # NoAccount
    BY AccountsAssumption DEF IdInv, Types
  <2>2. PICK c \in calls : Answer(c)
    <3>1. Next
      BY DEF vars
    <3>2. ~User /\ ~PushTimer
      BY DEF User, PushTimer, Edit, BuyLocally, BuyItem, SubmitLogin, SubmitCode, SubmitCreate,
             RequestCode, Submit, ReopenModal, RemountLobby, Reload, RankedMatchEnds, browserVars
    <3>3. \A c \in calls : ~Serve(c) /\ ~Lose(c)
      BY DEF Serve, Lose, ServeRefusal, ServeMe, ServeAnon, ServeBuy, ServePatch, ServeSignIn,
             ServeSecret, browserVars
    <3>4. \A a \in Accounts : ~DropAccount(a)
      BY DEF DropAccount, browserVars
    <3> QED BY <3>1, <3>2, <3>3, <3>4 DEF Next
  <2>3. Asked(c) /\ Answers(c)
    BY TheOnlyCall DEF IdInv
  <2>4. c.status # "401"
    BY <2>3 DEF Answers
  <2>5. ~BootAnswers(c) /\ ~BuyWithoutServer(c)
    BY <2>4 DEF BootAnswers, BuyWithoutServer
  <2>6. ~AnonAnswers(c)
    BY <2>1, <2>3 DEF AnonAnswers, Asked
  <2>7. SignedIn(c)
    BY <2>2, <2>5, <2>6 DEF Answer, PushAnswered, BuyJudged, SecretSet
  <2> QED BY <2>7 DEF SignedIn
<1> QED BY CallsStayTrue, <1>1, PTL DEF Spec, AccountsAreNotLost
====
