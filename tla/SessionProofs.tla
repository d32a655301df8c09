----------------------------- MODULE SessionProofs -----------------------------
(***************************************************************************)
(* Proofs about Session, for any maps and any bounds: whose session the    *)
(* page shows, what it says when a session has ended, and that the mail    *)
(* under way to it brings the terrain of every snapshot and the coins that *)
(* were earned.                                                            *)
(*                                                                         *)
(* For the first two, what is under way on a socket is looked at as a set  *)
(* of letters of which only the first one matters by its place; for the    *)
(* others, by what the page believes when it comes to a letter.            *)
(***************************************************************************)
EXTENDS Session, TLAPS

Addressed == {"welcome", "room_state"}

Messages ==
  [type : Addressed, id : Sockets, phase : Phases, map : Maps]
  \cup [type : {"state"}, phase : Phases, map : Maps, full : BOOLEAN, coins : Nat]
  \cup [type : {"game_started"}]
  \cup [type : {"rank_update"}, match : Nat]
  \cup [type : {"error"}, reason : Refusals]
  \cup [type : {"close"}, code : Refusals \cup Cuts]

Letters(q) == {q[i] : i \in DOMAIN q}

Stores == [status : StatusOf, error : Refusals \cup {NoError, Disconnected},
           playerId : 0 .. MaxSockets, room : 0 .. MaxSockets,
           phase : Phases, rankChange : Nat]

\* Types, of what the arguments below touch.
PageTypes ==
  /\ ws \in 0 .. MaxSockets
  /\ sock \in [Sockets -> {"unused", "connecting", "open", "closing", "closed"}]
  /\ inbox \in [Sockets -> Seq(Messages)]
  /\ store \in Stores
  /\ told \in Refusals \cup {NoError}
ServerTypes ==
  /\ seat \in [Sockets -> {"none", "seated", "gone"}]
  /\ room \in [phase : Phases, map : Maps]
  /\ purse \in Nat /\ matchNo \in Nat /\ pending \subseteq Nat

\* The socket in use is alive, and no request is out while one is.
InUse ==
  /\ ws # 0 => sock[ws] \in {"connecting", "open"}
  /\ asking => store.status \in {"idle", "error"}

\* Who is not in the room is sent nothing; a refusal is sent to nobody else; and
\* what speaks of an id speaks of the socket's own.
MailIsAddressed ==
  \A s \in Sockets :
    /\ sock[s] \in {"unused", "connecting"} => seat[s] = "none"
    /\ seat[s] = "none" => inbox[s] = <<>>
    /\ \A m \in Letters(inbox[s]) :
         /\ m.type \in Addressed => m.id = s
         /\ m.type = "error" => seat[s] = "gone"

\* Before the welcome nothing comes but what ends the attempt.
IsFarewell(m) == m.type \in {"error", "close"}
WelcomeIsFirst ==
  store.status = "connecting" =>
    \/ /\ inbox[ws] # <<>> /\ Head(inbox[ws]).type = "welcome"
       /\ \A m \in Letters(inbox[ws]) : m.type # "error"
    \/ /\ seat[ws] # "seated"
       /\ \A m \in Letters(inbox[ws]) : IsFarewell(m)

\* After the welcome there is no refusal.
WelcomeIsFinal ==
  store.status = "connected" =>
    /\ seat[ws] # "none"
    /\ \A m \in Letters(inbox[ws]) : m.type # "error"

\* A reason that was told is kept until the close event.  A close with the code
\* of a refusal comes after the letter with the same reason: it was read, or is
\* the first one.
Agrees(code, letters) == \A n \in letters : n.type = "error" => n.reason = code
ReasonComesFirst(q, reason) ==
  \A m \in Letters(q) :
    m.type = "close" /\ m.code \in Refusals =>
      /\ Agrees(m.code, Letters(q))
      /\ \/ reason = m.code
         \/ reason = NoError /\ q # <<>> /\ Head(q).type = "error"
ReasonIsKept ==
  ws # 0 =>
    /\ told # NoError =>
         /\ store.status = "connecting" /\ store.error = told
         /\ seat[ws] = "gone"
         /\ \A m \in Letters(inbox[ws]) : IsFarewell(m)
    /\ ReasonComesFirst(inbox[ws], told)

SessionInv ==
  /\ PageTypes /\ ServerTypes /\ InUse /\ MailIsAddressed
  /\ WelcomeIsFirst /\ WelcomeIsFinal /\ ReasonIsKept
  /\ OwnSession /\ FilterIsTransparent /\ RefusalsAreExplained

(***************************************************************************)
(* Letters.                                                                *)
(***************************************************************************)

\* What appending, taking and cutting do to the letters and to the first one.
LEMMA LettersOfNone == Letters(<<>>) = {}
BY DEF Letters

LEMMA LettersAreTyped ==
  ASSUME NEW M, NEW q \in Seq(M)
  PROVE  /\ \A m \in Letters(q) : m \in M
         /\ q # <<>> => Head(q) \in Letters(q)
BY DEF Letters

LEMMA LettersAppended ==
  ASSUME NEW M, NEW q \in Seq(M), NEW m \in M
  PROVE  /\ Append(q, m) \in Seq(M) /\ Append(q, m) # <<>>
         /\ Letters(Append(q, m)) = Letters(q) \cup {m}
         /\ Head(Append(q, m)) = IF q = <<>> THEN m ELSE Head(q)
<1>1. Append(q, m) \in Seq(M) /\ Len(Append(q, m)) = Len(q) + 1
  OBVIOUS
<1>2. \A i \in 1 .. Len(q) : Append(q, m)[i] = q[i]
  OBVIOUS
<1>3. Append(q, m)[Len(q) + 1] = m
  OBVIOUS
<1>4. Letters(Append(q, m)) \subseteq Letters(q) \cup {m}
  BY <1>1, <1>2, <1>3 DEF Letters
<1>5. Letters(q) \subseteq Letters(Append(q, m)) /\ m \in Letters(Append(q, m))
  BY <1>1, <1>2, <1>3 DEF Letters
<1>6. Head(Append(q, m)) = IF q = <<>> THEN m ELSE Head(q)
  BY <1>1, <1>2, <1>3
<1> QED BY <1>1, <1>4, <1>5, <1>6

LEMMA LettersTaken ==
  ASSUME NEW M, NEW q \in Seq(M), q # <<>>
  PROVE  Tail(q) \in Seq(M) /\ Letters(Tail(q)) \subseteq Letters(q)
BY DEF Letters

LEMMA LettersCut ==
  ASSUME NEW M, NEW q \in Seq(M), NEW k \in 0 .. Len(q)
  PROVE  /\ SubSeq(q, 1, k) \in Seq(M)
         /\ Letters(SubSeq(q, 1, k)) \subseteq Letters(q)
         /\ SubSeq(q, 1, k) # <<>> => q # <<>> /\ Head(SubSeq(q, 1, k)) = Head(q)
<1>1. SubSeq(q, 1, k) \in Seq(M) /\ Len(SubSeq(q, 1, k)) = k
  OBVIOUS
<1>2. \A i \in 1 .. k : SubSeq(q, 1, k)[i] = q[i] /\ i \in 1 .. Len(q)
  OBVIOUS
<1>3. Letters(SubSeq(q, 1, k)) \subseteq Letters(q)
  BY <1>1, <1>2 DEF Letters
<1>4. SubSeq(q, 1, k) # <<>> => q # <<>> /\ Head(SubSeq(q, 1, k)) = Head(q)
  BY <1>1, <1>2
<1> QED BY <1>1, <1>3, <1>4

(***************************************************************************)
(* Messages.                                                               *)
(***************************************************************************)

\* What a message of each type carries, and that what is sent is a message.
LEMMA MessageFields ==
  ASSUME NEW m \in Messages
  PROVE  /\ m.type \in Addressed \cup {"state", "game_started", "rank_update", "error", "close"}
         /\ m.type \in Addressed => m.id \in Sockets /\ m.phase \in Phases
         /\ m.type = "state" => m.phase \in Phases
         /\ m.type = "rank_update" => m.match \in Nat
         /\ m.type = "error" => m.reason \in Refusals
         /\ m.type = "close" => m.code \in Refusals \cup Cuts
<1>1. CASE m \in [type : Addressed, id : Sockets, phase : Phases, map : Maps]
  BY <1>1 DEF Addressed
<1>2. CASE m \in [type : {"state"}, phase : Phases, map : Maps, full : BOOLEAN, coins : Nat]
  BY <1>2 DEF Addressed
<1>3. CASE m \in [type : {"game_started"}]
  BY <1>3 DEF Addressed
<1>4. CASE m \in [type : {"rank_update"}, match : Nat]
  BY <1>4 DEF Addressed
<1>5. CASE m \in [type : {"error"}, reason : Refusals]
  BY <1>5 DEF Addressed
<1>6. CASE m \in [type : {"close"}, code : Refusals \cup Cuts]
  BY <1>6 DEF Addressed
<1> QED BY <1>1, <1>2, <1>3, <1>4, <1>5, <1>6 DEF Messages

LEMMA RoomMessages ==
  ASSUME NEW type \in Addressed, NEW s \in Sockets, NEW phase \in Phases, NEW map \in Maps
  PROVE  [type |-> type, id |-> s, phase |-> phase, map |-> map] \in Messages
BY DEF Messages

LEMMA StateMessages ==
  ASSUME NEW phase \in Phases, NEW map \in Maps, NEW full \in BOOLEAN, NEW c \in Nat
  PROVE  [type |-> "state", phase |-> phase, map |-> map, full |-> full, coins |-> c] \in Messages
BY DEF Messages

LEMMA OtherMessages ==
  ASSUME NEW n \in Nat, NEW r \in Refusals, NEW c \in Refusals \cup Cuts
  PROVE  /\ [type |-> "game_started"] \in Messages
         /\ [type |-> "rank_update", match |-> n] \in Messages
         /\ [type |-> "error", reason |-> r] \in Messages
         /\ [type |-> "close", code |-> c] \in Messages
BY DEF Messages

\* The page of a live socket: its session has begun, and has not ended.
LEMMA LivePage ==
  ASSUME SessionInv
  PROVE  /\ \A s \in Sockets : sock[s] \in {"connecting", "open"} => s = ws
         /\ ws # 0 => store.status \in {"connecting", "connected"} /\ ws \in Sockets
         /\ store.status \in {"connecting", "connected"} => ws # 0
         /\ store.status \in StatusOf /\ 0 \notin Sockets
<1>1. store.status \in StatusOf /\ ws \in 0 .. MaxSockets
  BY DEF SessionInv, PageTypes, Stores
<1>2. MaxSockets \in Nat
  BY SessionBounds
<1>3. ws # 0 => ws \in Sockets
  BY <1>1, <1>2 DEF Sockets
<1>4. 0 \notin Sockets
  BY <1>2 DEF Sockets
<1> QED BY <1>1, <1>3, <1>4 DEF SessionInv, OwnSession, StatusOf

(***************************************************************************)
(* Steps that the page does not notice.                                    *)
(***************************************************************************)

\* Nothing is sent and nothing is read.
LEMMA QuietPreserves ==
  ASSUME SessionInv, ServerTypes',
         UNCHANGED <<ws, sock, inbox, lastPhase, terrain, latest, store, told, seat>>,
         asking' => store.status \in {"idle", "error"}
  PROVE  SessionInv'
<1>1. PageTypes' /\ InUse'
  BY DEF SessionInv, PageTypes, InUse
<1>2. MailIsAddressed'
  BY DEF SessionInv, MailIsAddressed
<1>3. WelcomeIsFirst' /\ WelcomeIsFinal'
  BY DEF SessionInv, WelcomeIsFirst, WelcomeIsFinal
<1>4. ReasonIsKept'
  BY DEF SessionInv, ReasonIsKept
<1>5. OwnSession' /\ FilterIsTransparent' /\ RefusalsAreExplained'
  BY DEF SessionInv, OwnSession, FilterIsTransparent, RefusalsAreExplained
<1> QED BY <1>1, <1>2, <1>3, <1>4, <1>5 DEF SessionInv

\* A broadcast: the seated are sent a letter that neither refuses nor closes.
LEMMA SendPreserves ==
  ASSUME SessionInv, ServerTypes', NEW L \in [Sockets -> Messages],
         \A s \in Sockets : /\ ~IsFarewell(L[s])
                            /\ L[s].type \in Addressed => L[s].id = s,
         inbox' = [s \in Sockets |-> IF Seated(s) THEN Append(inbox[s], L[s]) ELSE inbox[s]],
         UNCHANGED <<ws, sock, lastPhase, terrain, latest, store, told, asking, seat>>
  PROVE  SessionInv'
<1>0. inbox \in [Sockets -> Seq(Messages)]
  BY DEF SessionInv, PageTypes
<1>1. ASSUME NEW s \in Sockets, ~Seated(s)
      PROVE  inbox'[s] = inbox[s]
  BY <1>0, <1>1
<1>2. ASSUME NEW s \in Sockets, Seated(s)
      PROVE  /\ inbox'[s] \in Seq(Messages) /\ inbox'[s] # <<>>
             /\ Letters(inbox'[s]) = Letters(inbox[s]) \cup {L[s]}
             /\ inbox[s] # <<>> => Head(inbox'[s]) = Head(inbox[s])
  <2>1. inbox'[s] = Append(inbox[s], L[s]) /\ inbox[s] \in Seq(Messages) /\ L[s] \in Messages
    BY <1>0, <1>2
  <2> QED BY <2>1, LettersAppended
<1>3. PageTypes'
  <2>1. inbox' \in [Sockets -> Seq(Messages)]
    BY <1>0, <1>1, <1>2
  <2> QED BY <2>1 DEF SessionInv, PageTypes
<1>4. InUse' /\ OwnSession' /\ FilterIsTransparent' /\ RefusalsAreExplained'
  BY DEF SessionInv, InUse, OwnSession, FilterIsTransparent, RefusalsAreExplained
<1>5. MailIsAddressed'
  <2> SUFFICES ASSUME NEW s \in Sockets
               PROVE  /\ sock[s] \in {"unused", "connecting"} => seat[s] = "none"
                      /\ seat[s] = "none" => inbox'[s] = <<>>
                      /\ \A m \in Letters(inbox'[s]) :
                           /\ m.type \in Addressed => m.id = s
                           /\ m.type = "error" => seat[s] = "gone"
    BY DEF MailIsAddressed
  <2>1. CASE Seated(s)
    <3>1. sock[s] = "open" /\ seat[s] = "seated"
      BY <2>1 DEF Seated
    <3>2. \A m \in Letters(inbox[s]) :
            /\ m.type \in Addressed => m.id = s
            /\ m.type = "error" => seat[s] = "gone"
      BY DEF SessionInv, MailIsAddressed
    <3>3. L[s].type # "error" /\ (L[s].type \in Addressed => L[s].id = s)
      BY DEF IsFarewell
    <3>4. Letters(inbox'[s]) = Letters(inbox[s]) \cup {L[s]}
      BY <1>2, <2>1
    <3>5. ASSUME NEW m \in Letters(inbox'[s])
          PROVE  (m.type \in Addressed => m.id = s) /\ (m.type = "error" => seat[s] = "gone")
      <4>1. CASE m \in Letters(inbox[s])
        BY <3>2, <4>1
      <4>2. CASE m = L[s]
        BY <3>3, <4>2
      <4> QED BY <3>4, <3>5, <4>1, <4>2
    <3> QED BY <3>1, <3>5
  <2>2. CASE ~Seated(s)
    BY <1>1, <2>2 DEF SessionInv, MailIsAddressed
  <2> QED BY <2>1, <2>2
<1>6. WelcomeIsFirst'
  <2> SUFFICES ASSUME store.status = "connecting"
               PROVE  \/ /\ inbox'[ws] # <<>> /\ Head(inbox'[ws]).type = "welcome"
                         /\ \A m \in Letters(inbox'[ws]) : m.type # "error"
                      \/ /\ seat[ws] # "seated"
                         /\ \A m \in Letters(inbox'[ws]) : IsFarewell(m)
    BY DEF WelcomeIsFirst
  <2>0. ws \in Sockets
    BY LivePage
  <2>1. CASE Seated(ws)
    BY <2>0, <2>1, <1>2 DEF SessionInv, WelcomeIsFirst, Seated, IsFarewell
  <2>2. CASE ~Seated(ws)
    BY <2>0, <2>2, <1>1 DEF SessionInv, WelcomeIsFirst
  <2> QED BY <2>1, <2>2
<1>7. WelcomeIsFinal'
  <2> SUFFICES ASSUME store.status = "connected"
               PROVE  /\ seat[ws] # "none"
                      /\ \A m \in Letters(inbox'[ws]) : m.type # "error"
    BY DEF WelcomeIsFinal
  <2>0. ws \in Sockets
    BY LivePage
  <2>1. CASE Seated(ws)
    BY <2>0, <2>1, <1>2 DEF SessionInv, WelcomeIsFinal, IsFarewell
  <2>2. CASE ~Seated(ws)
    BY <2>0, <2>2, <1>1 DEF SessionInv, WelcomeIsFinal
  <2> QED BY <2>1, <2>2
<1>8. ReasonIsKept'
  <2> SUFFICES ASSUME ws # 0
               PROVE  /\ told # NoError =>
                           /\ store.status = "connecting" /\ store.error = told
                           /\ seat[ws] = "gone"
                           /\ \A m \in Letters(inbox'[ws]) : IsFarewell(m)
                      /\ ReasonComesFirst(inbox'[ws], told)
    BY DEF ReasonIsKept
  <2>0. ws \in Sockets
    BY LivePage
  <2>1. CASE Seated(ws)
    <3>1. told = NoError /\ ReasonComesFirst(inbox[ws], told)
      BY <2>1 DEF SessionInv, ReasonIsKept, Seated
    <3>2. \A m \in Letters(inbox'[ws]) : m.type \in {"close", "error"} => m \in Letters(inbox[ws])
      BY <2>0, <2>1, <1>2 DEF IsFarewell
    <3>3. inbox[ws] # <<>> => inbox'[ws] # <<>> /\ Head(inbox'[ws]) = Head(inbox[ws])
      BY <2>0, <2>1, <1>2
    <3> QED BY <3>1, <3>2, <3>3 DEF ReasonComesFirst, Agrees
  <2>2. CASE ~Seated(ws)
    <3>1. inbox'[ws] = inbox[ws]
      BY <2>0, <2>2, <1>1
    <3> QED BY <3>1 DEF SessionInv, ReasonIsKept
  <2> QED BY <2>1, <2>2
<1> QED BY <1>3, <1>4, <1>5, <1>6, <1>7, <1>8 DEF SessionInv

(***************************************************************************)
(* The server's letters to one socket.                                     *)
(***************************************************************************)

\* Only the box and the seat of an open socket are touched.
LEMMA OneBoxPreserves ==
  ASSUME SessionInv, ServerTypes', NEW s \in Sockets, sock[s] = "open",
         NEW q \in Seq(Messages), inbox' = [inbox EXCEPT ![s] = q],
         seat' = [seat EXCEPT ![s] = seat'[s]], seat'[s] # "none",
         \A m \in Letters(q) : /\ m.type \in Addressed => m.id = s
                               /\ m.type = "error" => seat'[s] = "gone",
         store.status = "connecting" =>
           \/ /\ q # <<>> /\ Head(q).type = "welcome"
              /\ \A m \in Letters(q) : m.type # "error"
           \/ seat'[s] # "seated" /\ \A m \in Letters(q) : IsFarewell(m),
         store.status = "connected" => \A m \in Letters(q) : m.type # "error",
         told # NoError => seat'[s] = "gone" /\ \A m \in Letters(q) : IsFarewell(m),
         ReasonComesFirst(q, told),
         UNCHANGED <<ws, sock, lastPhase, terrain, latest, store, told, asking>>
  PROVE  SessionInv'
<1>1. s = ws /\ ws \in Sockets /\ ws # 0
  BY LivePage
<1>2. inbox \in [Sockets -> Seq(Messages)] /\ seat \in [Sockets -> {"none", "seated", "gone"}]
  BY DEF SessionInv, PageTypes, ServerTypes
<1>3. /\ inbox'[s] = q
      /\ \A t \in Sockets \ {s} : inbox'[t] = inbox[t] /\ seat'[t] = seat[t]
  BY <1>2
<1>4. PageTypes'
  <2>1. inbox' \in [Sockets -> Seq(Messages)]
    BY <1>2
  <2> QED BY <2>1 DEF SessionInv, PageTypes
<1>5. InUse' /\ OwnSession' /\ FilterIsTransparent' /\ RefusalsAreExplained'
  BY DEF SessionInv, InUse, OwnSession, FilterIsTransparent, RefusalsAreExplained
<1>6. MailIsAddressed'
  <2> SUFFICES ASSUME NEW t \in Sockets
               PROVE  /\ sock[t] \in {"unused", "connecting"} => seat'[t] = "none"
                      /\ seat'[t] = "none" => inbox'[t] = <<>>
                      /\ \A m \in Letters(inbox'[t]) :
                           /\ m.type \in Addressed => m.id = t
                           /\ m.type = "error" => seat'[t] = "gone"
    BY DEF MailIsAddressed
  <2>1. CASE t = s
    BY <2>1, <1>3
  <2>2. CASE t # s
    <3>1. inbox'[t] = inbox[t] /\ seat'[t] = seat[t]
      BY <2>2, <1>3
    <3> QED BY <3>1 DEF SessionInv, MailIsAddressed
  <2> QED BY <2>1, <2>2
<1>7. WelcomeIsFirst'
  BY <1>1, <1>3 DEF WelcomeIsFirst
<1>8. WelcomeIsFinal'
  BY <1>1, <1>3 DEF WelcomeIsFinal
<1>9. ReasonIsKept'
  <2>1. told # NoError => store.status = "connecting" /\ store.error = told
    BY <1>1 DEF SessionInv, ReasonIsKept
  <2> QED BY <2>1, <1>1, <1>3 DEF ReasonIsKept
<1> QED BY <1>4, <1>5, <1>6, <1>7, <1>8, <1>9 DEF SessionInv

\* The answer to a join, before which nothing was sent.
LEMMA UnansweredBox ==
  ASSUME SessionInv, NEW s \in Sockets, sock[s] = "open", seat[s] = "none"
  PROVE  store.status = "connecting" /\ told = NoError
<1>1. s = ws /\ ws # 0
  BY LivePage
<1>2. store.status # "connected"
  BY <1>1 DEF SessionInv, WelcomeIsFinal
<1>3. store.status \in {"connecting", "connected"}
  BY <1>1, LivePage
<1>4. told = NoError
  BY <1>1 DEF SessionInv, ReasonIsKept
<1> QED BY <1>2, <1>3, <1>4

LEMMA AdmitPreserves ==
  ASSUME SessionInv, ServerTypes', NEW s \in Sockets, Admit(s)
  PROVE  SessionInv'
<1> DEFINE m == [type |-> "welcome", id |-> s, phase |-> room.phase, map |-> room.map]
<1>1. m \in Messages /\ m.type = "welcome" /\ m.id = s
  <2>1. room \in [phase : Phases, map : Maps]
    BY DEF SessionInv, ServerTypes
  <2> QED BY <2>1, RoomMessages DEF Addressed
<1>2. /\ sock[s] = "open" /\ seat[s] = "none"
      /\ inbox' = [inbox EXCEPT ![s] = <<m>>] /\ seat' = [seat EXCEPT ![s] = "seated"]
      /\ UNCHANGED <<ws, sock, lastPhase, terrain, latest, store, told, asking>>
  BY DEF Admit, page
<1> HIDE DEF m
<1>3. <<m>> \in Seq(Messages) /\ <<m>> # <<>> /\ Head(<<m>>) = m /\ Letters(<<m>>) = {m}
  BY <1>1 DEF Letters
<1>4. seat'[s] = "seated" /\ seat' = [seat EXCEPT ![s] = seat'[s]]
  BY <1>2 DEF SessionInv, ServerTypes
<1>5. store.status = "connecting" /\ told = NoError
  BY <1>2, UnansweredBox
<1>6. ReasonComesFirst(<<m>>, told)
  BY <1>1, <1>3 DEF ReasonComesFirst
<1>7. \A n \in Letters(<<m>>) : /\ n.type \in Addressed => n.id = s
                                /\ n.type # "error"
  BY <1>1, <1>3
<1> QED BY <1>1, <1>2, <1>3, <1>4, <1>5, <1>6, <1>7, OneBoxPreserves

LEMMA RefusePreserves ==
  ASSUME SessionInv, ServerTypes', NEW s \in Sockets, Refuse(s)
  PROVE  SessionInv'
<1>1. /\ sock[s] = "open" /\ seat[s] = "none" /\ seat' = [seat EXCEPT ![s] = "gone"]
      /\ UNCHANGED <<ws, sock, lastPhase, terrain, latest, store, told, asking>>
  BY DEF Refuse, page
<1>2. PICK r \in Refusals :
        inbox' = [inbox EXCEPT ![s] = <<[type |-> "error", reason |-> r],
                                        [type |-> "close", code |-> r]>>]
  BY DEF Refuse
<1> DEFINE e == [type |-> "error", reason |-> r]
           c == [type |-> "close", code |-> r]
<1>3. /\ e \in Messages /\ e.type = "error" /\ e.reason = r
      /\ c \in Messages /\ c.type = "close" /\ c.code = r
  BY OtherMessages, 0 \in Nat
<1>4. inbox' = [inbox EXCEPT ![s] = <<e, c>>]
  BY <1>2
<1> HIDE DEF e, c
<1>5. <<e, c>> \in Seq(Messages) /\ Letters(<<e, c>>) = {e, c}
  BY <1>3 DEF Letters
<1>6. seat'[s] = "gone" /\ seat' = [seat EXCEPT ![s] = seat'[s]]
  BY <1>1 DEF SessionInv, ServerTypes
<1>7. store.status = "connecting" /\ told = NoError
  BY <1>1, UnansweredBox
<1>8. ReasonComesFirst(<<e, c>>, told)
  BY <1>3, <1>5, <1>7 DEF ReasonComesFirst, Agrees
<1>9. \A m \in Letters(<<e, c>>) : /\ m.type \notin Addressed
                                   /\ IsFarewell(m)
  BY <1>3, <1>5 DEF IsFarewell, Addressed
<1> QED BY <1>1, <1>4, <1>5, <1>6, <1>7, <1>8, <1>9, OneBoxPreserves

LEMMA CutPreserves ==
  ASSUME SessionInv, ServerTypes', NEW s \in Sockets, Cut(s)
  PROVE  SessionInv'
<1>1. /\ sock[s] = "open" /\ seat' = [seat EXCEPT ![s] = "gone"]
      /\ UNCHANGED <<ws, sock, lastPhase, terrain, latest, store, told, asking>>
  BY DEF Cut, page, Vacate
<1>2. inbox \in [Sockets -> Seq(Messages)]
  BY DEF SessionInv, PageTypes
<1> DEFINE K == 0 .. (IF Closed(s) THEN Len(inbox[s]) - 1 ELSE Len(inbox[s]))
<1>3. \A k \in K : k \in 0 .. Len(inbox[s])
  BY <1>2
<1>4. \E k \in K, c \in Cuts :
        inbox' = [inbox EXCEPT ![s] = Append(SubSeq(inbox[s], 1, k), [type |-> "close", code |-> c])]
  BY <1>2 DEF Cut
<1> HIDE DEF K
<1>5. PICK k \in 0 .. Len(inbox[s]), c \in Cuts :
        inbox' = [inbox EXCEPT ![s] = Append(SubSeq(inbox[s], 1, k), [type |-> "close", code |-> c])]
  BY <1>3, <1>4
<1> DEFINE m == [type |-> "close", code |-> c]
           p == SubSeq(inbox[s], 1, k)
           q == Append(p, m)
<1>6. m \in Messages /\ m.type = "close" /\ m.code = c
  BY OtherMessages, 0 \in Nat, "full" \in Refusals DEF Refusals
<1>7. inbox' = [inbox EXCEPT ![s] = q]
  BY <1>5
<1>8. /\ p \in Seq(Messages) /\ Letters(p) \subseteq Letters(inbox[s])
      /\ p # <<>> => inbox[s] # <<>> /\ Head(p) = Head(inbox[s])
  BY <1>2, LettersCut
<1> HIDE DEF m, p
<1>9. /\ q \in Seq(Messages) /\ q # <<>> /\ Letters(q) = Letters(p) \cup {m}
      /\ Head(q) = IF p = <<>> THEN m ELSE Head(p)
  BY <1>6, <1>8, LettersAppended
<1> HIDE DEF q
<1>10. \A n \in Letters(q) : n \in Letters(inbox[s]) \/ n = m
  BY <1>8, <1>9
<1>11. m.type \notin Addressed /\ IsFarewell(m) /\ m.type # "error" /\ m.code \notin {"not_found", "full"}
  BY <1>6 DEF Addressed, IsFarewell, Cuts
<1>12. seat'[s] = "gone" /\ seat' = [seat EXCEPT ![s] = seat'[s]]
  BY <1>1 DEF SessionInv, ServerTypes
<1>13. s = ws /\ ws # 0
  BY <1>1, LivePage
<1>14. \A n \in Letters(q) : n.type \in Addressed => n.id = s
  BY <1>10, <1>11 DEF SessionInv, MailIsAddressed
<1>15. ASSUME store.status = "connecting"
       PROVE  \/ /\ q # <<>> /\ Head(q).type = "welcome"
                 /\ \A n \in Letters(q) : n.type # "error"
              \/ seat'[s] # "seated" /\ \A n \in Letters(q) : IsFarewell(n)
  <2>1. CASE /\ inbox[s] # <<>> /\ Head(inbox[s]).type = "welcome"
             /\ \A n \in Letters(inbox[s]) : n.type # "error"
    <3>1. CASE p = <<>>
      <4>1. Letters(q) = {m}
        BY <3>1, <1>9, LettersOfNone
      <4> QED BY <4>1, <1>11, <1>12
    <3>2. CASE p # <<>>
      BY <3>2, <2>1, <1>8, <1>9, <1>10, <1>11
    <3> QED BY <3>1, <3>2
  <2>2. CASE \A n \in Letters(inbox[s]) : IsFarewell(n)
    BY <2>2, <1>10, <1>11, <1>12
  <2> QED BY <1>13, <1>15, <2>1, <2>2 DEF SessionInv, WelcomeIsFirst
<1>16. store.status = "connected" => \A n \in Letters(q) : n.type # "error"
  BY <1>10, <1>11, <1>13 DEF SessionInv, WelcomeIsFinal
<1>17. told # NoError => \A n \in Letters(q) : IsFarewell(n)
  BY <1>10, <1>11, <1>13 DEF SessionInv, ReasonIsKept
<1>18. ReasonComesFirst(q, told)
  <2>1. ReasonComesFirst(inbox[s], told)
    BY <1>13 DEF SessionInv, ReasonIsKept
  <2>2. \A n \in Letters(q) :
          n.type = "error" \/ (n.type = "close" /\ n.code \in Refusals) => n \in Letters(p)
    <3>1. m.code \notin Refusals
      BY <1>6 DEF Cuts, Refusals
    <3> QED BY <3>1, <1>9, <1>11
  <2>3. Letters(p) # {} => inbox[s] # <<>> /\ Head(q) = Head(inbox[s])
    BY <1>8, <1>9, LettersOfNone
  <2> QED BY <2>1, <2>2, <2>3, <1>8, <1>9 DEF ReasonComesFirst, Agrees
<1> QED BY <1>1, <1>7, <1>9, <1>12, <1>14, <1>15, <1>16, <1>17, <1>18, OneBoxPreserves

(***************************************************************************)
(* The page opens and leaves sockets.                                      *)
(***************************************************************************)

\* A session that has ended, whatever is said about it.
Blank(st) == [st EXCEPT !.status = "idle", !.error = NoError] = SessionDefaults

LEMMA DefaultsAreBlank == Blank(SessionDefaults) /\ SessionDefaults \in Stores
<1> DEFINE idle == [SessionDefaults EXCEPT !.status = "idle"]
<1>1. idle = SessionDefaults
  BY DEF SessionDefaults
<1> HIDE DEF idle
<1>2. [idle EXCEPT !.error = NoError] = SessionDefaults
  BY <1>1 DEF SessionDefaults
<1>3. Blank(SessionDefaults)
  BY <1>2 DEF Blank, idle
<1>4. SessionDefaults \in Stores
  BY SessionBounds DEF SessionDefaults, Stores, StatusOf, Phases
<1> QED BY <1>3, <1>4

LEMMA EndedFields ==
  ASSUME NEW error \in Refusals \cup {NoError, Disconnected}, NEW ended,
         ended = [status |-> "error", error |-> error, playerId |-> 0, room |-> 0,
                  phase |-> "waiting", rankChange |-> 0]
  PROVE  /\ ended \in Stores /\ Blank(ended) /\ ended.room = 0
         /\ ended.status = "error" /\ ended.error = error
<1> DEFINE idle == [ended EXCEPT !.status = "idle"]
<1>1. idle = [status |-> "idle", error |-> error, playerId |-> 0, room |-> 0,
              phase |-> "waiting", rankChange |-> 0]
  OBVIOUS
<1> HIDE DEF idle
<1>2. [idle EXCEPT !.error = NoError] = SessionDefaults
  BY <1>1 DEF SessionDefaults
<1>3. Blank(ended)
  BY <1>2 DEF Blank, idle
<1>4. ended \in Stores
  BY SessionBounds DEF Stores, StatusOf, Phases
<1> QED BY <1>3, <1>4

LEMMA EndedStores ==
  ASSUME NEW error \in Refusals \cup {NoError, Disconnected}, NEW ended,
         ended = [SessionDefaults EXCEPT !.status = "error", !.error = error]
  PROVE  /\ ended \in Stores /\ Blank(ended) /\ ended.room = 0
         /\ ended.status = "error" /\ ended.error = error
<1> DEFINE failed == [SessionDefaults EXCEPT !.status = "error"]
<1>1. failed = [status |-> "error", error |-> NoError, playerId |-> 0, room |-> 0,
                phase |-> "waiting", rankChange |-> 0]
  BY DEF SessionDefaults
<1>2. ended = [failed EXCEPT !.error = error]
  OBVIOUS
<1> HIDE DEF failed
<1>3. ended = [status |-> "error", error |-> error, playerId |-> 0, room |-> 0,
               phase |-> "waiting", rankChange |-> 0]
  BY <1>1, <1>2
<1> QED BY ONLY <1>3, EndedFields, error \in Refusals \cup {NoError, Disconnected}

\* The page is left blank: by the close event of the socket in use, or by hand.
LEMMA EndPreserves ==
  ASSUME SessionInv, ServerTypes', ws # 0,
         ws' = 0, inbox' = [inbox EXCEPT ![ws] = <<>>],
         \E state \in {"closing", "closed"} : sock' = [sock EXCEPT ![ws] = state],
         \A t \in Sockets \ {ws} : seat'[t] = seat[t],
         lastPhase' = NoPhase, terrain' = NoMap, latest' = NoSnapshot,
         store' \in Stores, store'.status \in {"idle", "error"}, Blank(store'),
         store'.room = 0,
         store'.status = "error" /\ told # NoError => store'.error = told,
         UNCHANGED <<told, asking>>
  PROVE  SessionInv'
<1>1. /\ ws \in Sockets /\ 0 \in 0 .. MaxSockets
      /\ \A s \in Sockets : sock[s] \in {"connecting", "open"} => s = ws
  BY LivePage, SessionBounds
<1>2. inbox \in [Sockets -> Seq(Messages)]
  BY DEF SessionInv, PageTypes
<1>3. sock \in [Sockets -> {"unused", "connecting", "open", "closing", "closed"}]
  BY DEF SessionInv, PageTypes
<1>4. /\ inbox'[ws] = <<>> /\ sock'[ws] \in {"closing", "closed"}
      /\ \A t \in Sockets \ {ws} : inbox'[t] = inbox[t] /\ sock'[t] = sock[t]
  BY <1>1, <1>2, <1>3
<1>5. PageTypes'
  <2>1. inbox' \in [Sockets -> Seq(Messages)]
    BY <1>1, <1>2
  <2>2. sock' \in [Sockets -> {"unused", "connecting", "open", "closing", "closed"}]
    BY <1>1, <1>3
  <2> QED BY <1>1, <2>1, <2>2 DEF SessionInv, PageTypes
<1>6. InUse' /\ ReasonIsKept' /\ RefusalsAreExplained' /\ FilterIsTransparent'
  BY DEF InUse, ReasonIsKept, RefusalsAreExplained, FilterIsTransparent
<1>7. WelcomeIsFirst' /\ WelcomeIsFinal'
  BY DEF WelcomeIsFirst, WelcomeIsFinal
<1>8. MailIsAddressed'
  <2> SUFFICES ASSUME NEW t \in Sockets
               PROVE  /\ sock'[t] \in {"unused", "connecting"} => seat'[t] = "none"
                      /\ seat'[t] = "none" => inbox'[t] = <<>>
                      /\ \A m \in Letters(inbox'[t]) :
                           /\ m.type \in Addressed => m.id = t
                           /\ m.type = "error" => seat'[t] = "gone"
    BY DEF MailIsAddressed
  <2>1. CASE t = ws
    BY <2>1, <1>4, LettersOfNone
  <2>2. CASE t # ws
    <3>1. inbox'[t] = inbox[t] /\ seat'[t] = seat[t] /\ sock'[t] = sock[t]
      BY <2>2, <1>4
    <3> QED BY <3>1 DEF SessionInv, MailIsAddressed
  <2> QED BY <2>1, <2>2
<1>9. OwnSession'
  <2>1. \A s \in Sockets : sock'[s] \notin {"connecting", "open"}
    BY <1>1, <1>4
  <2>2. store'.status \notin {"connecting", "connected"}
    OBVIOUS
  <2>3. [store' EXCEPT !.status = "idle", !.error = NoError] = SessionDefaults
    BY DEF Blank
  <2> QED BY <2>1, <2>2, <2>3 DEF OwnSession
<1> QED BY <1>5, <1>6, <1>7, <1>8, <1>9 DEF SessionInv

LEMMA CloseEventPreserves ==
  ASSUME SessionInv, ServerTypes', NEW s \in Sockets, sock[s] \in {"connecting", "open"},
         NEW code \in Refusals \cup Cuts, OnClose(s, code),
         \A t \in Sockets \ {s} : seat'[t] = seat[t],
         code \in Refusals => told = code
  PROVE  SessionInv'
<1>1. s = ws /\ ws # 0
  BY LivePage
<1>2. store \in Stores /\ store.error \in Refusals \cup {NoError, Disconnected}
  BY DEF SessionInv, PageTypes, Stores
<1>3. told # NoError => store.error = told
  BY <1>1 DEF SessionInv, ReasonIsKept
<1>4. /\ ws' = 0 /\ lastPhase' = NoPhase /\ terrain' = NoMap /\ latest' = NoSnapshot
      /\ inbox' = [inbox EXCEPT ![ws] = <<>>] /\ sock' = [sock EXCEPT ![ws] = "closed"]
      /\ UNCHANGED <<told, asking>>
      /\ store' = IF code = "going_away" /\ store.error = NoError
                    THEN SessionDefaults
                    ELSE [SessionDefaults EXCEPT !.status = "error", !.error = Farewell(code)]
  BY <1>1 DEF OnClose, HandleClose, Heard
<1>5. /\ Farewell(code) \in Refusals \cup {NoError, Disconnected}
      /\ told # NoError => Farewell(code) = told
  BY <1>2, <1>3 DEF Farewell, CloseMessage, Refusals, NoError
<1>6. /\ store' \in Stores /\ store'.status \in {"idle", "error"} /\ Blank(store')
      /\ store'.room = 0
      /\ store'.status = "error" => store'.error = Farewell(code)
  <2>1. CASE store' = SessionDefaults
    BY <2>1, DefaultsAreBlank DEF SessionDefaults
  <2>2. CASE store' = [SessionDefaults EXCEPT !.status = "error", !.error = Farewell(code)]
    BY <2>2, <1>5, EndedStores
  <2> QED BY <1>4, <2>1, <2>2
<1> QED BY <1>1, <1>4, <1>5, <1>6, EndPreserves

LEMMA OpenFailsPreserves ==
  ASSUME SessionInv, ServerTypes', NEW s \in Sockets, OpenFails(s)
  PROVE  SessionInv'
<1>1. sock[s] = "connecting" /\ OnClose(s, "lost") /\ seat' = [seat EXCEPT ![s] = "gone"]
  BY DEF OpenFails, Vacate
<1>2. \A t \in Sockets \ {s} : seat'[t] = seat[t]
  BY <1>1 DEF SessionInv, ServerTypes
<1>3. "lost" \in Refusals \cup Cuts /\ "lost" \notin Refusals
  BY DEF Cuts, Refusals
<1> QED BY <1>1, <1>2, <1>3, CloseEventPreserves

LEMMA LeavePreserves ==
  ASSUME SessionInv, ServerTypes', Leave
  PROVE  SessionInv'
<1>1. store.status = "connected"
  BY DEF Leave, Screen
<1>2. ws # 0 /\ ws \in Sockets
  BY <1>1, LivePage
<1>3. /\ ws' = 0 /\ lastPhase' = NoPhase /\ terrain' = NoMap /\ latest' = NoSnapshot
      /\ sock' = [s \in Sockets |-> IF s = ws THEN "closing" ELSE sock[s]]
      /\ inbox' = [s \in Sockets |-> IF s = ws THEN <<>> ELSE inbox[s]]
      /\ store' = SessionDefaults /\ seat' = [seat EXCEPT ![ws] = "gone"]
      /\ UNCHANGED <<told, asking>>
  BY DEF Leave, Vacate
<1>4. sock' = [sock EXCEPT ![ws] = "closing"]
  BY <1>2, <1>3 DEF SessionInv, PageTypes
<1>5. inbox' = [inbox EXCEPT ![ws] = <<>>]
  BY <1>2, <1>3 DEF SessionInv, PageTypes
<1>6. \A t \in Sockets \ {ws} : seat'[t] = seat[t]
  BY <1>3 DEF SessionInv, ServerTypes
<1>7. /\ store' \in Stores /\ store'.status = "idle" /\ Blank(store') /\ store'.room = 0
  BY <1>3, DefaultsAreBlank DEF SessionDefaults
<1> QED BY <1>2, <1>3, <1>4, <1>5, <1>6, <1>7, EndPreserves

\* A socket the page has left says no more.
LEMMA CloseArrivesPreserves ==
  ASSUME SessionInv, ServerTypes', NEW s \in Sockets, CloseArrives(s)
  PROVE  SessionInv'
<1>1. sock[s] = "closing" /\ OnClose(s, "normal") /\ seat' = seat
  BY DEF CloseArrives, serverVars
<1>2. ws # s /\ s # 0
  BY <1>1, LivePage DEF SessionInv, InUse
<1>3. /\ sock' = [sock EXCEPT ![s] = "closed"] /\ inbox' = [inbox EXCEPT ![s] = <<>>]
      /\ UNCHANGED <<ws, lastPhase, terrain, latest, store, told, asking>>
  BY <1>1, <1>2 DEF OnClose, Heard
<1>4. /\ inbox \in [Sockets -> Seq(Messages)]
      /\ sock \in [Sockets -> {"unused", "connecting", "open", "closing", "closed"}]
  BY DEF SessionInv, PageTypes
<1>5. /\ inbox'[s] = <<>> /\ sock'[s] = "closed"
      /\ \A t \in Sockets \ {s} : inbox'[t] = inbox[t] /\ sock'[t] = sock[t]
  BY <1>3, <1>4
<1>6. ws # 0 => ws \in Sockets \ {s}
  BY <1>2, LivePage
<1>7. PageTypes'
  <2>1. inbox' \in [Sockets -> Seq(Messages)]
    BY <1>3, <1>4
  <2>2. sock' \in [Sockets -> {"unused", "connecting", "open", "closing", "closed"}]
    BY <1>3, <1>4
  <2> QED BY <1>3, <2>1, <2>2 DEF SessionInv, PageTypes
<1>8. InUse' /\ ReasonIsKept'
  BY <1>1, <1>3, <1>5, <1>6 DEF SessionInv, InUse, ReasonIsKept
<1>9. RefusalsAreExplained' /\ FilterIsTransparent'
  BY <1>3 DEF SessionInv, RefusalsAreExplained, FilterIsTransparent
<1>10. WelcomeIsFirst' /\ WelcomeIsFinal'
  BY <1>1, <1>3, <1>5, <1>6, LivePage DEF SessionInv, WelcomeIsFirst, WelcomeIsFinal
<1>11. MailIsAddressed'
  <2> SUFFICES ASSUME NEW t \in Sockets
               PROVE  /\ sock'[t] \in {"unused", "connecting"} => seat[t] = "none"
                      /\ seat[t] = "none" => inbox'[t] = <<>>
                      /\ \A m \in Letters(inbox'[t]) :
                           /\ m.type \in Addressed => m.id = t
                           /\ m.type = "error" => seat[t] = "gone"
    BY <1>1 DEF MailIsAddressed
  <2>1. CASE t = s
    BY <2>1, <1>5, LettersOfNone
  <2>2. CASE t # s
    <3>1. inbox'[t] = inbox[t] /\ sock'[t] = sock[t]
      BY <2>2, <1>5
    <3> QED BY <3>1 DEF SessionInv, MailIsAddressed
  <2> QED BY <2>1, <2>2
<1>12. OwnSession'
  <2>1. \A t \in Sockets : sock'[t] \in {"connecting", "open"} => t = ws
    BY <1>5, LivePage
  <2>2. store.status = "connected" => sock'[ws] = "open"
    BY <1>5, <1>6, LivePage DEF SessionInv, OwnSession
  <2> QED BY <1>3, <2>1, <2>2 DEF SessionInv, OwnSession
<1> QED BY <1>7, <1>8, <1>9, <1>10, <1>11, <1>12 DEF SessionInv

LEMMA OpensPreserves ==
  ASSUME SessionInv, ServerTypes', NEW s \in Sockets, Opens(s)
  PROVE  SessionInv'
<1>1. /\ sock[s] = "connecting" /\ sock' = [sock EXCEPT ![s] = "open"]
      /\ UNCHANGED <<ws, inbox, lastPhase, terrain, latest, store, told, asking, seat>>
  BY DEF Opens, serverVars
<1>2. sock \in [Sockets -> {"unused", "connecting", "open", "closing", "closed"}]
  BY DEF SessionInv, PageTypes
<1>3. sock'[s] = "open" /\ \A t \in Sockets \ {s} : sock'[t] = sock[t]
  BY <1>1, <1>2
<1>4. s = ws /\ ws # 0 /\ store.status # "connected"
  BY <1>1, LivePage DEF SessionInv, OwnSession
<1>5. PageTypes'
  <2>1. sock' \in [Sockets -> {"unused", "connecting", "open", "closing", "closed"}]
    BY <1>1, <1>2
  <2> QED BY <1>1, <2>1 DEF SessionInv, PageTypes
<1>6. InUse' /\ ReasonIsKept' /\ RefusalsAreExplained' /\ FilterIsTransparent'
  BY <1>1, <1>3, <1>4
     DEF SessionInv, InUse, ReasonIsKept, RefusalsAreExplained, FilterIsTransparent
<1>7. WelcomeIsFirst' /\ WelcomeIsFinal'
  BY <1>1 DEF SessionInv, WelcomeIsFirst, WelcomeIsFinal
<1>8. MailIsAddressed'
  BY <1>1, <1>3 DEF SessionInv, MailIsAddressed
<1>9. OwnSession'
  <2>1. \A t \in Sockets : sock'[t] \in {"connecting", "open"} => t = ws
    BY <1>3, <1>4, LivePage
  <2> QED BY <1>1, <1>4, <2>1 DEF SessionInv, OwnSession
<1> QED BY <1>5, <1>6, <1>7, <1>8, <1>9 DEF SessionInv

\* A new socket: nothing is under way on it, and no other is in use.
LEMMA ConnectPreserves ==
  ASSUME SessionInv, ServerTypes', NEW s \in Sockets, Connect(s)
  PROVE  SessionInv'
<1>1. asking /\ sock[s] = "unused"
  BY DEF Connect
<1>2. store.status \in {"idle", "error"} /\ ws = 0 /\ s # 0
  BY <1>1, LivePage DEF SessionInv, InUse, OwnSession
<1>3. seat[s] = "none" /\ inbox[s] = <<>>
  BY <1>1 DEF SessionInv, MailIsAddressed
<1>4. /\ ws' = s /\ asking' = FALSE /\ told' = NoError /\ seat' = seat
      /\ store' = [SessionDefaults EXCEPT !.status = "connecting"]
  BY DEF Connect, serverVars
<1>5. /\ inbox \in [Sockets -> Seq(Messages)]
      /\ sock \in [Sockets -> {"unused", "connecting", "open", "closing", "closed"}]
  BY DEF SessionInv, PageTypes
<1>6. inbox' = inbox
  <2>1. inbox' = [t \in Sockets |-> IF t = ws THEN <<>> ELSE inbox[t]]
    BY DEF Connect
  <2>2. \A t \in Sockets : t # ws
    BY <1>2, LivePage
  <2> QED BY <1>5, <2>1, <2>2
<1>7. /\ sock' \in [Sockets -> {"unused", "connecting", "open", "closing", "closed"}]
      /\ sock'[s] = "connecting" /\ \A t \in Sockets \ {s} : sock'[t] = sock[t]
  <2>1. sock' = [t \in Sockets |-> IF t = s THEN "connecting"
                                   ELSE IF t = ws THEN "closing" ELSE sock[t]]
    BY DEF Connect
  <2>2. \A t \in Sockets : t # ws
    BY <1>2, LivePage
  <2> QED BY <1>5, <2>1, <2>2
<1>8. /\ store' \in Stores /\ store'.status = "connecting"
      /\ store'.playerId = 0 /\ store'.room = 0
  BY <1>4, SessionBounds DEF SessionDefaults, Stores, StatusOf, Phases
<1>9. PageTypes'
  BY <1>4, <1>6, <1>7, <1>8 DEF SessionInv, PageTypes, Sockets
<1>10. InUse' /\ RefusalsAreExplained' /\ FilterIsTransparent'
  BY <1>4, <1>7, <1>8 DEF InUse, RefusalsAreExplained, FilterIsTransparent
<1>11. WelcomeIsFirst' /\ WelcomeIsFinal'
  BY <1>3, <1>4, <1>6, <1>8, LettersOfNone DEF WelcomeIsFirst, WelcomeIsFinal
<1>12. ReasonIsKept'
  BY <1>3, <1>4, <1>6, LettersOfNone DEF ReasonIsKept, ReasonComesFirst
<1>13. MailIsAddressed'
  BY <1>3, <1>4, <1>6, <1>7 DEF SessionInv, MailIsAddressed
<1>14. OwnSession'
  <2>1. \A t \in Sockets : sock'[t] \in {"connecting", "open"} => t = ws'
    BY <1>2, <1>4, <1>7, LivePage
  <2> QED BY <1>2, <1>4, <1>8, <2>1 DEF OwnSession
<1> QED BY <1>9, <1>10, <1>11, <1>12, <1>13, <1>14 DEF SessionInv

\* No socket at all: there was none in use, and there is none now.
LEMMA ThrowPreserves ==
  ASSUME SessionInv, ServerTypes', ConnectThrows
  PROVE  SessionInv'
<1>1. ws = 0 /\ \A t \in Sockets : t # ws
  <2>1. store.status \in {"idle", "error"}
    BY DEF ConnectThrows, SessionInv, InUse
  <2> QED BY <2>1, LivePage
<1>2. /\ inbox \in [Sockets -> Seq(Messages)]
      /\ sock \in [Sockets -> {"unused", "connecting", "open", "closing", "closed"}]
  BY DEF SessionInv, PageTypes
<1>3. UNCHANGED <<ws, inbox, sock>>
  BY <1>1, <1>2 DEF ConnectThrows
<1>4. /\ asking' = FALSE /\ told' = NoError /\ seat' = seat
      /\ lastPhase' = NoPhase /\ terrain' = NoMap /\ latest' = NoSnapshot
      /\ store' = [SessionDefaults EXCEPT !.status = "error", !.error = Disconnected]
  BY DEF ConnectThrows, serverVars
<1>5. /\ store' \in Stores /\ store'.status = "error" /\ store'.room = 0
      /\ Blank(store')
  BY <1>4, EndedStores
<1>6. PageTypes' /\ MailIsAddressed'
  BY <1>3, <1>4, <1>5 DEF SessionInv, PageTypes, MailIsAddressed
<1>7. InUse' /\ ReasonIsKept' /\ RefusalsAreExplained' /\ FilterIsTransparent'
  BY <1>1, <1>3, <1>4, <1>5
     DEF InUse, ReasonIsKept, RefusalsAreExplained, FilterIsTransparent
<1>8. WelcomeIsFirst' /\ WelcomeIsFinal'
  BY <1>5 DEF WelcomeIsFirst, WelcomeIsFinal
<1>9. OwnSession'
  <2>1. \A t \in Sockets : sock'[t] \notin {"connecting", "open"}
    BY <1>1, <1>3, LivePage
  <2>2. [store' EXCEPT !.status = "idle", !.error = NoError] = SessionDefaults
    BY <1>5 DEF Blank
  <2> QED BY <1>1, <1>3, <1>4, <1>5, <2>1, <2>2 DEF OwnSession
<1> QED BY <1>6, <1>7, <1>8, <1>9 DEF SessionInv

(***************************************************************************)
(* A letter is read.                                                       *)
(***************************************************************************)

\* What is common to all of them but the close event.
LEMMA ReadPreserves ==
  ASSUME SessionInv, ServerTypes', ws # 0, inbox[ws] # <<>>, sock[ws] = "open",
         inbox' = [inbox EXCEPT ![ws] = Tail(@)],
         store' \in Stores, told' \in Refusals \cup {NoError},
         store'.status \in {"connecting", "connected"},
         UNCHANGED <<ws, sock, asking, seat>>,
         store'.status = "connected" => store'.playerId = ws /\ store'.room = ws,
         store'.status = "connecting" => store'.playerId = 0 /\ store'.room = 0,
         FilterIsTransparent', WelcomeIsFirst', WelcomeIsFinal', ReasonIsKept'
  PROVE  SessionInv'
<1>1. ws \in Sockets /\ inbox \in [Sockets -> Seq(Messages)]
  BY LivePage DEF SessionInv, PageTypes
<1>2. Tail(inbox[ws]) \in Seq(Messages) /\ Letters(Tail(inbox[ws])) \subseteq Letters(inbox[ws])
  BY <1>1, LettersTaken
<1>3. inbox'[ws] = Tail(inbox[ws]) /\ \A t \in Sockets \ {ws} : inbox'[t] = inbox[t]
  BY <1>1
<1>4. PageTypes'
  <2>1. inbox' \in [Sockets -> Seq(Messages)]
    BY <1>1, <1>2
  <2> QED BY <2>1 DEF SessionInv, PageTypes
<1>5. InUse' /\ RefusalsAreExplained'
  <2>1. store.status \in {"connecting", "connected"}
    BY LivePage
  <2> QED BY <2>1 DEF SessionInv, InUse, RefusalsAreExplained
<1>6. MailIsAddressed'
  <2> SUFFICES ASSUME NEW t \in Sockets
               PROVE  /\ sock[t] \in {"unused", "connecting"} => seat[t] = "none"
                      /\ seat[t] = "none" => inbox'[t] = <<>>
                      /\ \A m \in Letters(inbox'[t]) :
                           /\ m.type \in Addressed => m.id = t
                           /\ m.type = "error" => seat[t] = "gone"
    BY DEF MailIsAddressed
  <2>1. CASE t = ws
    <3>1. seat[ws] # "none"
      BY <1>1 DEF SessionInv, MailIsAddressed
    <3> QED BY <2>1, <3>1, <1>2, <1>3 DEF SessionInv, MailIsAddressed
  <2>2. CASE t # ws
    <3>1. inbox'[t] = inbox[t]
      BY <2>2, <1>3
    <3> QED BY <3>1 DEF SessionInv, MailIsAddressed
  <2> QED BY <2>1, <2>2
<1>7. OwnSession'
  BY LivePage DEF SessionInv, OwnSession
<1> QED BY <1>4, <1>5, <1>6, <1>7 DEF SessionInv

\* What the first letter says about the page that reads it.
LEMMA FirstLetter ==
  ASSUME SessionInv, ws # 0, inbox[ws] # <<>>
  PROVE  /\ Head(inbox[ws]) \in Messages /\ Head(inbox[ws]) \in Letters(inbox[ws])
         /\ Letters(Tail(inbox[ws])) \subseteq Letters(inbox[ws])
         /\ seat[ws] # "none"
         /\ Head(inbox[ws]).type \in Addressed => Head(inbox[ws]).id = ws
         /\ Head(inbox[ws]).type \notin {"welcome", "error", "close"} => store.status = "connected"
         /\ Head(inbox[ws]).type = "welcome" =>
              told = NoError /\ \A m \in Letters(inbox[ws]) : m.type # "error"
         /\ Head(inbox[ws]).type = "error" =>
              /\ store.status = "connecting" /\ seat[ws] = "gone"
              /\ \A m \in Letters(inbox[ws]) : IsFarewell(m)
         /\ told # NoError => IsFarewell(Head(inbox[ws]))
<1> DEFINE h == Head(inbox[ws])
<1>1. ws \in Sockets /\ inbox[ws] \in Seq(Messages)
  BY LivePage DEF SessionInv, PageTypes
<1>2. h \in Messages /\ h \in Letters(inbox[ws]) /\ Letters(Tail(inbox[ws])) \subseteq Letters(inbox[ws])
  BY <1>1, LettersAreTyped, LettersTaken
<1> HIDE DEF h
<1>3. /\ seat[ws] # "none"
      /\ h.type \in Addressed => h.id = ws
      /\ h.type = "error" => seat[ws] = "gone"
  BY <1>1, <1>2 DEF SessionInv, MailIsAddressed
<1>4. store.status \in {"connecting", "connected"}
  BY LivePage
<1>5. store.status = "connecting" =>
        \/ h.type = "welcome" /\ \A m \in Letters(inbox[ws]) : m.type # "error"
        \/ \A m \in Letters(inbox[ws]) : IsFarewell(m)
  BY DEF SessionInv, WelcomeIsFirst, h
<1>6. store.status = "connected" => \A m \in Letters(inbox[ws]) : m.type # "error"
  BY DEF SessionInv, WelcomeIsFinal
<1>7. told # NoError => \A m \in Letters(inbox[ws]) : IsFarewell(m)
  BY DEF SessionInv, ReasonIsKept
<1>8. h.type \notin {"welcome", "error", "close"} => store.status = "connected"
  BY <1>2, <1>4, <1>5 DEF IsFarewell
<1>9. h.type = "welcome" => told = NoError /\ \A m \in Letters(inbox[ws]) : m.type # "error"
  BY <1>2, <1>4, <1>5, <1>6, <1>7 DEF IsFarewell
<1>10. h.type = "error" => store.status = "connecting" /\ \A m \in Letters(inbox[ws]) : IsFarewell(m)
  BY <1>2, <1>4, <1>5, <1>6
<1>11. told # NoError => IsFarewell(h)
  BY <1>2, <1>7
<1> QED BY <1>2, <1>3, <1>8, <1>9, <1>10, <1>11 DEF h

\* The reasons in what is left, while the page keeps the one it was told.
LEMMA ReasonStays ==
  ASSUME SessionInv, ws # 0, inbox[ws] # <<>>, inbox'[ws] = Tail(inbox[ws]),
         Head(inbox[ws]).type # "error", told = NoError, UNCHANGED <<ws, told>>
  PROVE  ReasonIsKept'
<1>1. Letters(inbox'[ws]) \subseteq Letters(inbox[ws])
  BY FirstLetter
<1>2. ReasonComesFirst(inbox[ws], told)
  BY DEF SessionInv, ReasonIsKept
<1>3. ReasonComesFirst(inbox'[ws], told)
  BY <1>1, <1>2 DEF ReasonComesFirst, Agrees
<1> QED BY <1>3 DEF ReasonIsKept

\* A welcome and a room: what of the store they set.
LEMMA WelcomeFields ==
  ASSUME store \in Stores, NEW m, ShowWelcome(m), m.id = ws, ws \in Sockets, m.phase \in Phases
  PROVE  /\ store' \in Stores /\ store'.status = "connected"
         /\ store'.playerId = ws /\ store'.room = ws /\ store'.phase = m.phase
<1> DEFINE a == [store EXCEPT !.status = "connected"]
           b == [a EXCEPT !.error = NoError]
           c == [b EXCEPT !.playerId = m.id]
           d == [c EXCEPT !.room = m.id]
<1>1. store' = [d EXCEPT !.phase = m.phase]
  BY DEF ShowWelcome, StoreWelcome
<1>2. m.id \in 0 .. MaxSockets
  BY SessionBounds DEF Sockets
<1>3. a \in Stores /\ a.status = "connected"
  BY ONLY store \in Stores DEF Stores, StatusOf, a
<1> HIDE DEF a
<1>4. b \in Stores /\ b.status = "connected"
  BY ONLY <1>3 DEF Stores, b
<1> HIDE DEF b
<1>5. c \in Stores /\ c.status = "connected" /\ c.playerId = m.id
  BY ONLY <1>2, <1>4 DEF Stores, c
<1> HIDE DEF c
<1>6. d \in Stores /\ d.status = "connected" /\ d.playerId = m.id /\ d.room = m.id
  BY ONLY <1>2, <1>5 DEF Stores, d
<1> HIDE DEF d
<1> QED BY ONLY <1>1, <1>6, m.id = ws, m.phase \in Phases DEF Stores

LEMMA RoomFields ==
  ASSUME store \in Stores, NEW m, ShowRoom(m), m.id = ws, ws \in Sockets, m.phase \in Phases
  PROVE  /\ store' \in Stores /\ store'.status = store.status
         /\ store'.playerId = store.playerId /\ store'.room = ws /\ store'.phase = m.phase
<1> DEFINE a == [store EXCEPT !.room = ws]
<1>1. store' = [a EXCEPT !.phase = m.phase]
  BY DEF ShowRoom
<1>2. /\ a \in Stores /\ a.status = store.status /\ a.playerId = store.playerId /\ a.room = ws
  BY SessionBounds DEF Stores, Sockets
<1> HIDE DEF a
<1> QED BY <1>1, <1>2 DEF Stores

LEMMA DeliverPreserves ==
  ASSUME SessionInv, ServerTypes', NEW s \in Sockets, Deliver(s)
  PROVE  SessionInv'
<1> DEFINE m == Head(inbox[s])
<1>1. /\ sock[s] = "open" /\ inbox[s] # <<>> /\ seat' = seat /\ s = ws /\ ws # 0
  BY LivePage DEF Deliver, serverVars
<1>2. m \in Messages /\ m \in Letters(inbox[s])
  BY <1>1, FirstLetter
<1>3. store \in Stores /\ told \in Refusals \cup {NoError} /\ inbox \in [Sockets -> Seq(Messages)]
  BY DEF SessionInv, PageTypes
<1>4. CASE m.type = "close"
  <2>1. OnClose(s, m.code)
    BY <1>4 DEF Deliver
  <2> HIDE DEF m
  <2>2. m.code \in Refusals \cup Cuts
    BY <1>2, <1>4, MessageFields
  <2>3. m.code \in Refusals => told = m.code
    <3>1. ReasonComesFirst(inbox[s], told) /\ Head(inbox[s]).type # "error"
      BY <1>1, <1>4 DEF SessionInv, ReasonIsKept, m
    <3> QED BY <1>2, <1>4, <3>1 DEF ReasonComesFirst
  <2> QED BY <1>1, <2>1, <2>2, <2>3, CloseEventPreserves
<1>5. CASE m.type # "close"
  <2>0. Head(inbox[ws]).type = m.type
    BY <1>1
  <2>1. /\ inbox' = [inbox EXCEPT ![ws] = Tail(@)]
        /\ UNCHANGED <<ws, sock, asking>>
    BY <1>1, <1>5 DEF Deliver
  <2>2. inbox'[ws] = Tail(inbox[ws])
    BY <1>1, <1>3, <2>1
  <2>3. Letters(inbox'[ws]) \subseteq Letters(inbox[ws])
    BY <1>1, <2>2, FirstLetter
  <2>4. CASE m.type = "state"
    <3>1. ShowState(m)
      BY <2>4 DEF Deliver
    <3>2. store.status = "connected" /\ told = NoError
      BY <1>1, <2>4, FirstLetter DEF IsFarewell
    <3> HIDE DEF m
    <3>3. m.phase \in Phases
      BY <1>2, <2>4, MessageFields
    <3>4. /\ told' = told
          /\ \/ lastPhase' = lastPhase /\ store' = store
             \/ lastPhase' = m.phase /\ store' = [store EXCEPT !.phase = m.phase]
      BY <3>1 DEF ShowState, StoreState
    <3>5. /\ store' \in Stores /\ store'.status = "connected"
          /\ store'.playerId = store.playerId /\ store'.room = store.room
          /\ \/ lastPhase' = lastPhase /\ store' = store
             \/ lastPhase' = store'.phase
      BY <1>3, <3>2, <3>3, <3>4 DEF Stores
    <3>6. FilterIsTransparent'
      BY <3>5 DEF SessionInv, FilterIsTransparent
    <3>7. WelcomeIsFirst'
      BY <3>5 DEF WelcomeIsFirst
    <3>8. WelcomeIsFinal'
      BY <1>1, <2>1, <2>3, <3>2 DEF SessionInv, WelcomeIsFinal
    <3>9. ReasonIsKept'
      BY <1>1, <2>0, <2>1, <2>2, <2>4, <3>2, <3>4, ReasonStays
    <3>10. store.playerId = ws /\ store.room = ws
      BY <3>2 DEF SessionInv, OwnSession
    <3> QED BY <1>1, <1>3, <2>1, <3>4, <3>5, <3>6, <3>7, <3>8, <3>9, <3>10, ReadPreserves
  <2>5. CASE m.type = "welcome"
    <3>1. ShowWelcome(m)
      BY <2>5 DEF Deliver
    <3>2. told = NoError /\ m.id = ws /\ seat[ws] # "none"
      BY <1>1, <2>5, FirstLetter DEF Addressed
    <3>3. \A n \in Letters(inbox[ws]) : n.type # "error"
      BY <1>1, <2>5, FirstLetter
    <3> HIDE DEF m
    <3>4. m.phase \in Phases /\ m.id \in Sockets
      BY <1>2, <2>5, MessageFields DEF Addressed
    <3>5. told' = told /\ lastPhase' = m.phase
      BY <3>1 DEF ShowWelcome
    <3>6. /\ store' \in Stores /\ store'.status = "connected"
          /\ store'.playerId = ws /\ store'.room = ws /\ store'.phase = m.phase
      BY <1>3, <3>1, <3>2, <3>4, WelcomeFields
    <3>7. FilterIsTransparent'
      BY <3>5, <3>6 DEF FilterIsTransparent
    <3>8. WelcomeIsFirst'
      BY <3>6 DEF WelcomeIsFirst
    <3>9. WelcomeIsFinal'
      BY <1>1, <2>1, <2>3, <3>2, <3>3 DEF WelcomeIsFinal
    <3>10. ReasonIsKept'
      BY <1>1, <2>0, <2>1, <2>2, <2>5, <3>2, <3>5, ReasonStays
    <3>11. told' \in Refusals \cup {NoError}
      BY <1>3, <3>5
    <3> QED BY <1>1, <2>1, <3>6, <3>7, <3>8, <3>9, <3>10, <3>11, ReadPreserves
  <2>6. CASE m.type = "room_state"
    <3>1. ShowRoom(m)
      BY <2>6 DEF Deliver
    <3>2. store.status = "connected" /\ told = NoError /\ m.id = ws
      BY <1>1, <2>6, FirstLetter DEF IsFarewell, Addressed
    <3> HIDE DEF m
    <3>3. m.phase \in Phases
      BY <1>2, <2>6, MessageFields DEF Addressed
    <3>4. told' = told /\ lastPhase' = m.phase
      BY <3>1 DEF ShowRoom
    <3>5. /\ store' \in Stores /\ store'.status = "connected"
          /\ store'.playerId = store.playerId /\ store'.room = ws /\ store'.phase = m.phase
      BY <1>1, <1>3, <3>1, <3>2, <3>3, RoomFields
    <3>6. FilterIsTransparent'
      BY <3>4, <3>5 DEF FilterIsTransparent
    <3>7. WelcomeIsFirst'
      BY <3>5 DEF WelcomeIsFirst
    <3>8. WelcomeIsFinal'
      BY <1>1, <2>1, <2>3, <3>2 DEF SessionInv, WelcomeIsFinal
    <3>9. ReasonIsKept'
      BY <1>1, <2>0, <2>1, <2>2, <2>6, <3>2, <3>4, ReasonStays
    <3>10. store.playerId = ws
      BY <3>2 DEF SessionInv, OwnSession
    <3> QED BY <1>1, <1>3, <2>1, <3>4, <3>5, <3>6, <3>7, <3>8, <3>9, <3>10, ReadPreserves
  <2>7. CASE m.type \in {"game_started", "rank_update"}
    <3>1. ShowOther(m)
      BY <2>7 DEF Deliver
    <3>2. store.status = "connected" /\ told = NoError
      BY <1>1, <2>7, FirstLetter DEF IsFarewell
    <3> HIDE DEF m
    <3>3. m.type = "rank_update" => m.match \in Nat
      BY <1>2, MessageFields
    <3>4. told' = told /\ lastPhase' = lastPhase
      BY <2>7, <3>1 DEF ShowOther
    <3>5. \/ store' = [store EXCEPT !.rankChange = 0]
          \/ store' = store
          \/ m.type = "rank_update" /\ store' = [store EXCEPT !.rankChange = m.match]
      BY <2>7, <3>1 DEF ShowOther
    <3>6. /\ store' \in Stores /\ store'.status = "connected" /\ store'.phase = store.phase
          /\ store'.playerId = store.playerId /\ store'.room = store.room
      BY <1>3, <3>2, <3>3, <3>5 DEF Stores
    <3>7. FilterIsTransparent'
      BY <3>4, <3>6 DEF SessionInv, FilterIsTransparent
    <3>8. WelcomeIsFirst'
      BY <3>6 DEF WelcomeIsFirst
    <3>9. WelcomeIsFinal'
      BY <1>1, <2>1, <2>3, <3>2 DEF SessionInv, WelcomeIsFinal
    <3>10. ReasonIsKept'
      BY <1>1, <2>0, <2>1, <2>2, <2>7, <3>2, <3>4, ReasonStays
    <3>11. store.playerId = ws /\ store.room = ws
      BY <3>2 DEF SessionInv, OwnSession
    <3> QED BY <1>1, <1>3, <2>1, <3>4, <3>6, <3>7, <3>8, <3>9, <3>10, <3>11, ReadPreserves
  <2>8. CASE m.type = "error"
    <3>1. ShowOther(m)
      BY <2>8 DEF Deliver
    <3>2. store.status = "connecting" /\ seat[ws] = "gone" /\ \A n \in Letters(inbox[ws]) : IsFarewell(n)
      BY <1>1, <2>8, FirstLetter
    <3> HIDE DEF m
    <3>3. m.reason \in Refusals
      BY <1>2, <2>8, MessageFields
    <3>4. told' = m.reason /\ lastPhase' = lastPhase /\ store' = [store EXCEPT !.error = m.reason]
      BY <2>8, <3>1 DEF ShowOther
    <3>5. /\ store' \in Stores /\ store'.status = "connecting" /\ store'.error = m.reason
          /\ store'.playerId = store.playerId /\ store'.room = store.room
          /\ store'.phase = store.phase
      BY <1>3, <3>2, <3>3, <3>4 DEF Stores
    <3>6. FilterIsTransparent'
      BY <3>4, <3>5 DEF SessionInv, FilterIsTransparent
    <3>7. WelcomeIsFirst'
      BY <1>1, <2>1, <2>3, <3>2 DEF WelcomeIsFirst
    <3>8. WelcomeIsFinal'
      BY <3>5 DEF WelcomeIsFinal
    <3>9. ReasonComesFirst(inbox'[ws], m.reason)
      <4>1. ReasonComesFirst(inbox[ws], told)
        BY <1>1 DEF SessionInv, ReasonIsKept
      <4> QED BY <4>1, <1>1, <1>2, <2>3, <2>8 DEF ReasonComesFirst, Agrees
    <3>10. ReasonIsKept'
      BY <1>1, <2>1, <2>3, <3>2, <3>4, <3>5, <3>9 DEF ReasonIsKept
    <3>11. store.playerId = 0 /\ store.room = 0
      BY <3>2 DEF SessionInv, OwnSession
    <3>12. told' \in Refusals \cup {NoError}
      BY <3>3, <3>4
    <3> QED BY <1>1, <2>1, <3>5, <3>6, <3>7, <3>8, <3>10, <3>11, <3>12, ReadPreserves
  <2>9. m.type \in {"state", "welcome", "room_state", "game_started", "rank_update", "error"}
    <3> HIDE DEF m
    <3> QED BY <1>2, <1>5, MessageFields DEF Addressed
  <2> QED BY <2>4, <2>5, <2>6, <2>7, <2>8, <2>9
<1> QED BY <1>4, <1>5

(***************************************************************************)
(* The server's broadcasts.                                                *)
(***************************************************************************)

LEMMA RoomBroadcast ==
  ASSUME SessionInv, ServerTypes', BroadcastRoom,
         UNCHANGED <<ws, sock, lastPhase, terrain, latest, store, told, asking, seat>>
  PROVE  SessionInv'
<1> DEFINE L == [s \in Sockets |-> RoomState(s)]
<1>1. room' \in [phase : Phases, map : Maps]
  BY DEF ServerTypes
<1>2. ASSUME NEW s \in Sockets
      PROVE  RoomState(s) \in Messages /\ RoomState(s).type = "room_state" /\ RoomState(s).id = s
  BY <1>1, RoomMessages DEF RoomState, Addressed
<1>3. L \in [Sockets -> Messages]
  BY <1>2
<1>4. \A s \in Sockets : ~IsFarewell(L[s]) /\ L[s].id = s
  BY <1>2 DEF IsFarewell
<1>5. inbox' = [s \in Sockets |-> IF Seated(s) THEN Append(inbox[s], L[s]) ELSE inbox[s]]
  BY DEF BroadcastRoom
<1> HIDE DEF L
<1> QED BY <1>3, <1>4, <1>5, SendPreserves

LEMMA OtherBroadcast ==
  ASSUME SessionInv, ServerTypes', NEW m \in Messages, m.type \notin Addressed, ~IsFarewell(m),
         inbox' = [s \in Sockets |-> IF Seated(s) THEN Append(inbox[s], m) ELSE inbox[s]],
         UNCHANGED <<ws, sock, lastPhase, terrain, latest, store, told, asking, seat>>
  PROVE  SessionInv'
<1> DEFINE L == [s \in Sockets |-> m]
<1>1. L \in [Sockets -> Messages] /\ \A s \in Sockets : L[s] = m
  OBVIOUS
<1>2. inbox' = [s \in Sockets |-> IF Seated(s) THEN Append(inbox[s], L[s]) ELSE inbox[s]]
  OBVIOUS
<1> HIDE DEF L
<1> QED BY <1>1, <1>2, SendPreserves

LEMMA SnapshotBroadcast ==
  ASSUME SessionInv, ServerTypes', BroadcastSnapshot,
         UNCHANGED <<ws, sock, lastPhase, terrain, latest, store, told, asking, seat>>
  PROVE  SessionInv'
<1>1. PICK full \in BOOLEAN :
        inbox' = [s \in Sockets |-> IF Seated(s) THEN Append(inbox[s], Snapshot(full)) ELSE inbox[s]]
  BY DEF BroadcastSnapshot
<1>2. room' \in [phase : Phases, map : Maps] /\ purse' \in Nat
  BY DEF ServerTypes
<1>3. Snapshot(full) \in Messages /\ Snapshot(full).type = "state"
  BY <1>2, StateMessages DEF Snapshot
<1> HIDE DEF Snapshot
<1>4. Snapshot(full).type \notin Addressed /\ ~IsFarewell(Snapshot(full))
  BY <1>3 DEF Addressed, IsFarewell
<1> QED BY <1>1, <1>3, <1>4, OtherBroadcast

(***************************************************************************)
(* Every step.                                                             *)
(***************************************************************************)

LEMMA ServerTypesPreserved ==
  ASSUME SessionInv, [Next]_vars
  PROVE  ServerTypes'
<1> USE DEF ServerTypes
<1>0. /\ seat \in [Sockets -> {"none", "seated", "gone"}]
      /\ room \in [phase : Phases, map : Maps]
      /\ purse \in Nat /\ matchNo \in Nat /\ pending \subseteq Nat
  BY DEF SessionInv
<1>1. CASE UNCHANGED vars
  BY <1>0, <1>1 DEF vars, serverVars
<1>2. CASE Page
  <2>1. CASE AskForRoom \/ AskFailed
    BY <1>0, <2>1 DEF AskForRoom, AskFailed, serverVars
  <2>2. CASE Leave
    BY <1>0, <2>2 DEF Leave, Vacate, otherServer
  <2>3. CASE \E s \in Sockets : Connect(s)
    BY <1>0, <2>3 DEF Connect, serverVars
  <2>4. CASE ConnectThrows
    BY <1>0, <2>4 DEF ConnectThrows, serverVars
  <2> QED BY <1>2, <2>1, <2>2, <2>3, <2>4 DEF Page
<1>3. CASE Loop
  <2>1. CASE Tick
    <3>1. PICK to \in Phases, pay \in 0 .. 1, m \in Maps :
            room' = [phase |-> to, map |-> m] /\ purse' = purse + pay
      BY <2>1 DEF Tick, TickRoom
    <3>2. UNCHANGED <<seat, matchNo, pending>>
      BY <2>1 DEF Tick
    <3> QED BY <1>0, <3>1, <3>2
  <2>2. CASE MapAnnounced
    BY <1>0, <2>2 DEF MapAnnounced
  <2>3. CASE SnapshotSent
    BY <1>0, <2>3 DEF SnapshotSent
  <2> QED BY <1>3, <2>1, <2>2, <2>3 DEF Loop
<1>4. CASE Handlers
  <2>0. "playing" \in Phases /\ "waiting" \in Phases
    BY DEF Phases
  <2>1. CASE HandleStart \/ HandleRematch
    <3>1. /\ room' \in [phase : {"playing"}, map : Maps] /\ matchNo' = matchNo + 1
          /\ UNCHANGED <<seat, purse, pending>>
      BY <2>1 DEF HandleStart, HandleRematch
    <3> QED BY <1>0, <2>0, <3>1
  <2>2. CASE HandleRestart
    BY <1>0, <2>0, <2>2 DEF HandleRestart
  <2>3. CASE HandleSetMap
    BY <1>0, <2>3 DEF HandleSetMap
  <2>4. CASE HandlePick
    BY <1>0, <2>0, <2>4 DEF HandlePick
  <2>5. CASE OtherLeaves
    BY <1>0, <2>0, <2>5 DEF OtherLeaves
  <2>6. CASE AnnounceRoom
    BY <1>0, <2>6 DEF AnnounceRoom
  <2>7. CASE RankUpdate
    BY <1>0, <2>7 DEF RankUpdate
  <2> QED BY <1>4, <2>1, <2>2, <2>3, <2>4, <2>5, <2>6, <2>7 DEF Handlers
<1>5. ASSUME NEW s \in Sockets, Browser(s)
      PROVE  ServerTypes'
  <2>1. CASE Opens(s) \/ Deliver(s) \/ CloseArrives(s)
    BY <1>0, <2>1 DEF Opens, Deliver, CloseArrives, serverVars
  <2>2. CASE OpenFails(s)
    BY <1>0, <2>2 DEF OpenFails, Vacate, otherServer
  <2> QED BY <1>5, <2>1, <2>2 DEF Browser
<1>6. ASSUME NEW s \in Sockets, Answer(s)
      PROVE  ServerTypes'
  <2>1. CASE Admit(s)
    BY <1>0, <2>1 DEF Admit, otherServer
  <2>2. CASE Refuse(s)
    BY <1>0, <2>2 DEF Refuse
  <2> QED BY <1>6, <2>1, <2>2 DEF Answer
<1>7. ASSUME NEW s \in Sockets, Cut(s)
      PROVE  ServerTypes'
  BY <1>0, <1>7 DEF Cut, Vacate, otherServer
<1> QED BY <1>1, <1>2, <1>3, <1>4, <1>5, <1>6, <1>7 DEF Next

LEMMA LoopPreserves ==
  ASSUME SessionInv, ServerTypes', Loop
  PROVE  SessionInv'
<1>1. UNCHANGED <<ws, sock, lastPhase, terrain, latest, store, told, asking, seat>>
  BY DEF Loop, Tick, MapAnnounced, SnapshotSent, page
<1>2. CASE BroadcastRoom
  BY <1>1, <1>2, RoomBroadcast
<1>3. CASE BroadcastSnapshot
  BY <1>1, <1>3, SnapshotBroadcast
<1>4. CASE BroadcastOther([type |-> "game_started"])
  <2> DEFINE m == [type |-> "game_started"]
  <2>1. m \in Messages /\ m.type = "game_started"
    BY OtherMessages, 0 \in Nat, "full" \in Refusals DEF Refusals
  <2>2. inbox' = [s \in Sockets |-> IF Seated(s) THEN Append(inbox[s], m) ELSE inbox[s]]
    BY <1>4 DEF BroadcastOther
  <2> HIDE DEF m
  <2>3. m.type \notin Addressed /\ ~IsFarewell(m)
    BY <2>1 DEF Addressed, IsFarewell
  <2> QED BY <1>1, <2>1, <2>2, <2>3, OtherBroadcast
<1>5. CASE UNCHANGED inbox
  <2>1. asking' => store.status \in {"idle", "error"}
    BY <1>1 DEF SessionInv, InUse
  <2> QED BY <1>1, <1>5, <2>1, QuietPreserves
<1> QED BY <1>2, <1>3, <1>4, <1>5 DEF Loop, Tick, MapAnnounced, SnapshotSent

LEMMA HandlersPreserve ==
  ASSUME SessionInv, ServerTypes', Handlers
  PROVE  SessionInv'
<1>1. UNCHANGED <<ws, sock, lastPhase, terrain, latest, store, told, asking, seat>>
  BY DEF Handlers, HandleStart, HandleRestart, HandleRematch, HandleSetMap, HandlePick,
         OtherLeaves, AnnounceRoom, RankUpdate, page, browserVars
<1>2. CASE BroadcastRoom
  BY <1>1, <1>2, RoomBroadcast
<1>3. CASE UNCHANGED inbox
  <2>1. asking' => store.status \in {"idle", "error"}
    BY <1>1 DEF SessionInv, InUse
  <2> QED BY <1>1, <1>3, <2>1, QuietPreserves
<1>4. CASE RankUpdate
  <2>1. PICK n \in pending : BroadcastOther([type |-> "rank_update", match |-> n])
    BY <1>4 DEF RankUpdate
  <2>2. n \in Nat
    BY DEF SessionInv, ServerTypes
  <2> DEFINE m == [type |-> "rank_update", match |-> n]
  <2>3. m \in Messages /\ m.type = "rank_update"
    BY <2>2, OtherMessages, "full" \in Refusals DEF Refusals
  <2>4. inbox' = [s \in Sockets |-> IF Seated(s) THEN Append(inbox[s], m) ELSE inbox[s]]
    BY <2>1 DEF BroadcastOther
  <2> HIDE DEF m
  <2>5. m.type \notin Addressed /\ ~IsFarewell(m)
    BY <2>3 DEF Addressed, IsFarewell
  <2> QED BY <1>1, <2>3, <2>4, <2>5, OtherBroadcast
<1> QED BY <1>2, <1>3, <1>4
        DEF Handlers, HandleStart, HandleRestart, HandleRematch, HandleSetMap, HandlePick,
            OtherLeaves, AnnounceRoom, browserVars

LEMMA StepPreserves ==
  ASSUME SessionInv, [Next]_vars
  PROVE  SessionInv'
<1>0. ServerTypes'
  BY ServerTypesPreserved
<1>1. CASE UNCHANGED vars
  <2>1. UNCHANGED <<ws, sock, inbox, lastPhase, terrain, latest, store, told, seat, asking>>
    BY <1>1 DEF vars, browserVars, serverVars
  <2>2. asking' => store.status \in {"idle", "error"}
    BY <2>1 DEF SessionInv, InUse
  <2> QED BY <1>0, <2>1, <2>2, QuietPreserves
<1>2. CASE Page
  <2>1. CASE AskForRoom
    <3>1. UNCHANGED <<ws, sock, inbox, lastPhase, terrain, latest, store, told, seat>>
      BY <2>1 DEF AskForRoom, serverVars
    <3>2. store.status \in {"idle", "error"}
      <4>1. store.status # "connecting" /\ (store.status = "connected" => store.room = 0)
        BY <2>1 DEF AskForRoom, LobbyIsReady, Screen, Connecting
      <4>2. store.status = "connected" => store.room # 0
        BY DEF SessionInv, OwnSession
      <4> QED BY <4>1, <4>2, LivePage DEF StatusOf
    <3> QED BY <1>0, <3>1, <3>2, QuietPreserves
  <2>2. CASE AskFailed
    <3>1. UNCHANGED <<ws, sock, inbox, lastPhase, terrain, latest, store, told, seat>> /\ ~asking'
      BY <2>2 DEF AskFailed, serverVars
    <3> QED BY <1>0, <3>1, QuietPreserves
  <2>3. CASE Leave
    BY <1>0, <2>3, LeavePreserves
  <2>4. CASE \E s \in Sockets : Connect(s)
    BY <1>0, <2>4, ConnectPreserves
  <2>5. CASE ConnectThrows
    BY <1>0, <2>5, ThrowPreserves
  <2> QED BY <1>2, <2>1, <2>2, <2>3, <2>4, <2>5 DEF Page
<1>3. CASE Loop
  BY <1>0, <1>3, LoopPreserves
<1>4. CASE Handlers
  BY <1>0, <1>4, HandlersPreserve
<1>5. ASSUME NEW s \in Sockets, Browser(s) \/ Answer(s) \/ Cut(s)
      PROVE  SessionInv'
  BY <1>0, <1>5, OpensPreserves, OpenFailsPreserves, DeliverPreserves, CloseArrivesPreserves,
     AdmitPreserves, RefusePreserves, CutPreserves DEF Browser, Answer
<1> QED BY <1>1, <1>2, <1>3, <1>4, <1>5 DEF Next

LEMMA InitIsASession == Init => SessionInv
<1> SUFFICES ASSUME Init PROVE SessionInv
  OBVIOUS
<1>1. PageTypes
  <2>1. ws \in 0 .. MaxSockets
    BY SessionBounds DEF Init
  <2>2. store \in Stores
    BY DefaultsAreBlank DEF Init
  <2>3. inbox \in [Sockets -> Seq(Messages)]
    BY DEF Init
  <2> QED BY <2>1, <2>2, <2>3 DEF Init, PageTypes
<1>2. ServerTypes
  BY DEF Init, ServerTypes, Phases
<1>3. InUse
  BY DEF Init, InUse
<1>4. MailIsAddressed
  BY LettersOfNone DEF Init, MailIsAddressed
<1>5. WelcomeIsFirst /\ WelcomeIsFinal /\ ReasonIsKept
  BY DEF Init, WelcomeIsFirst, WelcomeIsFinal, ReasonIsKept, SessionDefaults
<1>6. FilterIsTransparent /\ RefusalsAreExplained
  BY DEF Init, FilterIsTransparent, RefusalsAreExplained, SessionDefaults
<1>7. OwnSession
  <2>1. /\ ws = 0 /\ latest = NoSnapshot /\ lastPhase = NoPhase /\ terrain = NoMap
        /\ \A s \in Sockets : sock[s] \notin {"connecting", "open"}
    BY DEF Init
  <2>2. [store EXCEPT !.status = "idle", !.error = NoError] = SessionDefaults
    BY DefaultsAreBlank DEF Init, Blank
  <2>3. store.status = "idle"
    BY DEF Init, SessionDefaults
  <2> QED BY <2>1, <2>2, <2>3 DEF OwnSession
<1> QED BY <1>1, <1>2, <1>3, <1>4, <1>5, <1>6, <1>7 DEF SessionInv

\* The invariant of the page and the mail that is under way to it: what
\* connection.ts and game_ws keep between them.
THEOREM SessionInvariant == Spec => []SessionInv
BY InitIsASession, StepPreserves, PTL DEF Spec

\* What the page shows is the session of the socket in use, and nothing is left
\* of one that has ended (connection.ts connect, disconnect, handleClose).
THEOREM PageShowsItsOwnSession == Spec => []OwnSession
<1>1. SessionInv => OwnSession
  BY DEF SessionInv
<1> QED BY <1>1, SessionInvariant, PTL

\* No snapshot that brings a new phase is kept from the store (connection.ts
\* lastPhase).
THEOREM FilterHidesNothing == Spec => []FilterIsTransparent
<1>1. SessionInv => FilterIsTransparent
  BY DEF SessionInv
<1> QED BY <1>1, SessionInvariant, PTL

\* A refusal the browser has heard, by letter or by code, is the one the lobby
\* shows (handleClose): the codes without a message are never heard first.
THEOREM RefusalsAreShown == Spec => []RefusalsAreExplained
<1>1. SessionInv => RefusalsAreExplained
  BY DEF SessionInv
<1> QED BY <1>1, SessionInvariant, PTL

(***************************************************************************)
(* What the mail makes the page know.  Three kinds of letters tell a phase *)
(* and a map; what the page believes when it comes to a letter is what the *)
(* last telling one before it said.                                        *)
(***************************************************************************)

Tells(m)       == m.type \in {"welcome", "room_state", "state"}
Says(m, field) == IF field = "map" THEN m.map ELSE m.phase
IsLight(m)     == m.type = "state" /\ ~m.full

\* Of field, the page that believes now believes v when it comes to letter i.
Before(q, i, field, now, v) ==
  \/ (\A j \in 1 .. i - 1 : ~Tells(q[j])) /\ v = now
  \/ \E k \in 1 .. i - 1 : /\ Tells(q[k]) /\ v = Says(q[k], field)
                           /\ \A j \in k + 1 .. i - 1 : ~Tells(q[j])

Told(q, field, now, v) == Before(q, Len(q) + 1, field, now, v)

\* Every snapshot without terrain meets the terrain of its own map.
Fits(q, now) == \A i \in DOMAIN q : IsLight(q[i]) => Before(q, i, "map", now, q[i].map)

\* The balance is there, or comes with a snapshot that the filter lets through.
Pays(q, i, amount) == \A j \in i .. Len(q) : q[j].type = "state" => q[j].coins = amount
Brings(q, now, held, amount) ==
  \/ held = amount /\ Pays(q, 1, amount)
  \/ \E i \in DOMAIN q :
       /\ q[i].type = "state" /\ Pays(q, i, amount)
       /\ \E p \in Phases : p # q[i].phase /\ Before(q, i, "phase", now, p)

LEMMA FirstBelieves ==
  ASSUME NEW q, NEW field, NEW now, NEW v
  PROVE  Before(q, 1, field, now, v) <=> v = now
BY DEF Before

LEMMA BelievesWhenAppended ==
  ASSUME NEW M, NEW q \in Seq(M), NEW m \in M, NEW field, NEW now, NEW v
  PROVE  /\ \A i \in 1 .. Len(q) + 1 :
              Before(q, i, field, now, v) => Before(Append(q, m), i, field, now, v)
         /\ Tells(m) => Told(Append(q, m), field, now, Says(m, field))
         /\ ~Tells(m) /\ Told(q, field, now, v) => Told(Append(q, m), field, now, v)
<1> DEFINE r == Append(q, m)
<1>1. /\ r \in Seq(M) /\ Len(r) = Len(q) + 1 /\ Len(q) \in Nat
      /\ \A j \in 1 .. Len(q) : r[j] = q[j]
      /\ r[Len(q) + 1] = m
  OBVIOUS
<1> HIDE DEF r
<1>2. ASSUME NEW i \in 1 .. Len(q) + 1, Before(q, i, field, now, v)
      PROVE  Before(r, i, field, now, v)
  <2>1. \A j \in 1 .. i - 1 : r[j] = q[j]
    BY <1>1
  <2>2. CASE (\A j \in 1 .. i - 1 : ~Tells(q[j])) /\ v = now
    BY <2>1, <2>2 DEF Before
  <2>3. CASE \E k \in 1 .. i - 1 : /\ Tells(q[k]) /\ v = Says(q[k], field)
                                   /\ \A j \in k + 1 .. i - 1 : ~Tells(q[j])
    BY <2>1, <2>3, <1>1 DEF Before
  <2> QED BY <1>2, <2>2, <2>3 DEF Before
<1>3. ASSUME Tells(m)
      PROVE  Told(r, field, now, Says(m, field))
  <2>1. Len(q) + 1 \in 1 .. Len(r) /\ r[Len(q) + 1] = m
    BY <1>1
  <2>2. \A j \in (Len(q) + 1) + 1 .. Len(r) : ~Tells(r[j])
    BY <1>1
  <2> QED BY <1>1, <1>3, <2>1, <2>2 DEF Told, Before
<1>4. ASSUME ~Tells(m), Told(q, field, now, v)
      PROVE  Told(r, field, now, v)
  <2>1. Before(r, Len(q) + 1, field, now, v)
    BY <1>1, <1>2, <1>4 DEF Told
  <2>2. ASSUME NEW k \in 0 .. Len(q), \A j \in k + 1 .. Len(q) : ~Tells(r[j])
        PROVE  \A j \in k + 1 .. Len(r) : ~Tells(r[j])
    BY <1>1, <1>4, <2>2
  <2>3. CASE (\A j \in 1 .. Len(q) : ~Tells(r[j])) /\ v = now
    BY <1>1, <2>2, <2>3 DEF Told, Before
  <2>4. CASE \E k \in 1 .. Len(q) : /\ Tells(r[k]) /\ v = Says(r[k], field)
                                    /\ \A j \in k + 1 .. Len(q) : ~Tells(r[j])
    BY <1>1, <2>2, <2>4 DEF Told, Before
  <2> QED BY <1>1, <2>1, <2>3, <2>4 DEF Before
<1> QED BY <1>2, <1>3, <1>4 DEF r

LEMMA BelievesWhenTaken ==
  ASSUME NEW M, NEW q \in Seq(M), q # <<>>, NEW field, NEW now, NEW now2, NEW v,
         Tells(Head(q)) => now2 = Says(Head(q), field),
         ~Tells(Head(q)) => now2 = now,
         NEW i \in 2 .. Len(q) + 1, Before(q, i, field, now, v)
  PROVE  Before(Tail(q), i - 1, field, now2, v)
<1> DEFINE r == Tail(q)
<1>1. /\ Len(q) \in Nat /\ Len(r) = Len(q) - 1 /\ Head(q) = q[1]
      /\ \A j \in 1 .. Len(q) - 1 : r[j] = q[j + 1]
  OBVIOUS
<1> HIDE DEF r
<1>2. \A j \in 1 .. i - 2 : r[j] = q[j + 1]
  BY <1>1
<1>3. ASSUME NEW k \in 0 .. i - 1, \A j \in k + 1 .. i - 1 : ~Tells(q[j])
      PROVE  \A j \in k .. i - 2 : j \in 1 .. i - 2 => ~Tells(r[j])
  BY <1>1, <1>2, <1>3
<1>4. CASE (\A j \in 1 .. i - 1 : ~Tells(q[j])) /\ v = now
  <2>1. \A j \in 1 .. i - 2 : ~Tells(r[j])
    BY <1>2, <1>4
  <2>2. v = now2
    BY <1>1, <1>4
  <2> QED BY <2>1, <2>2 DEF Before, r
<1>5. ASSUME NEW k \in 1 .. i - 1, Tells(q[k]), v = Says(q[k], field),
             \A j \in k + 1 .. i - 1 : ~Tells(q[j])
      PROVE  Before(r, i - 1, field, now2, v)
  <2>1. CASE k = 1
    <3>1. \A j \in 1 .. i - 2 : ~Tells(r[j])
      BY <1>2, <1>5, <2>1
    <3> QED BY <1>1, <1>5, <2>1, <3>1 DEF Before
  <2>2. CASE k # 1
    <3>1. k - 1 \in 1 .. i - 2 /\ r[k - 1] = q[k]
      BY <1>2, <2>2
    <3>2. \A j \in (k - 1) + 1 .. i - 2 : ~Tells(r[j])
      BY <1>2, <1>5, <2>2
    <3> QED BY <1>5, <3>1, <3>2 DEF Before
  <2> QED BY <2>1, <2>2
<1> QED BY <1>4, <1>5 DEF Before, r

LEMMA BelievesWhenCut ==
  ASSUME NEW M, NEW q \in Seq(M), NEW k \in 0 .. Len(q), NEW field, NEW now, NEW v,
         NEW i \in 1 .. k + 1, Before(q, i, field, now, v)
  PROVE  Before(SubSeq(q, 1, k), i, field, now, v)
<1>1. \A j \in 1 .. i - 1 : SubSeq(q, 1, k)[j] = q[j]
  OBVIOUS
<1> QED BY <1>1 DEF Before

\* The letters of the three lists.
LEMMA FitsWhenAppended ==
  ASSUME NEW M, NEW q \in Seq(M), NEW m \in M, NEW now,
         Fits(q, now), IsLight(m) => Told(q, "map", now, m.map)
  PROVE  Fits(Append(q, m), now)
<1> DEFINE r == Append(q, m)
<1>1. /\ r \in Seq(M) /\ Len(r) = Len(q) + 1 /\ Len(q) \in Nat
      /\ \A j \in 1 .. Len(q) : r[j] = q[j]
      /\ r[Len(q) + 1] = m
      /\ DOMAIN q = 1 .. Len(q) /\ DOMAIN r = 1 .. Len(q) + 1
  OBVIOUS
<1> SUFFICES ASSUME NEW i \in DOMAIN r, IsLight(r[i])
             PROVE  Before(r, i, "map", now, r[i].map)
  BY DEF Fits
<1>2. CASE i = Len(q) + 1
  <2>1. Before(q, i, "map", now, m.map)
    BY <1>1, <1>2 DEF Told
  <2> QED BY <1>1, <1>2, <2>1, BelievesWhenAppended
<1>3. CASE i \in 1 .. Len(q)
  <2>1. Before(q, i, "map", now, q[i].map) /\ i \in 1 .. Len(q) + 1
    BY <1>1, <1>3 DEF Fits
  <2> QED BY <1>1, <1>3, <2>1, BelievesWhenAppended
<1> QED BY <1>1, <1>2, <1>3

LEMMA FitsWhenTaken ==
  ASSUME NEW M, NEW q \in Seq(M), q # <<>>, NEW now, NEW now2, Fits(q, now),
         Tells(Head(q)) => now2 = Head(q).map,
         ~Tells(Head(q)) => now2 = now
  PROVE  Fits(Tail(q), now2)
<1> DEFINE r == Tail(q)
<1>1. /\ Len(q) \in Nat /\ DOMAIN r = 1 .. Len(q) - 1 /\ DOMAIN q = 1 .. Len(q)
      /\ \A j \in 1 .. Len(q) - 1 : r[j] = q[j + 1]
  OBVIOUS
<1> SUFFICES ASSUME NEW i \in DOMAIN r, IsLight(r[i])
             PROVE  Before(r, i, "map", now2, r[i].map)
  BY DEF Fits
<1>2. i + 1 \in 2 .. Len(q) + 1 /\ r[i] = q[i + 1] /\ i + 1 \in DOMAIN q /\ (i + 1) - 1 = i
  BY <1>1
<1>3. Before(q, i + 1, "map", now, q[i + 1].map)
  BY <1>2 DEF Fits
<1>4. Tells(Head(q)) => now2 = Says(Head(q), "map")
  BY DEF Says
<1> HIDE DEF r
<1>5. Before(Tail(q), (i + 1) - 1, "map", now2, q[i + 1].map)
  BY <1>2, <1>3, <1>4, BelievesWhenTaken
<1> QED BY <1>2, <1>5 DEF r

LEMMA FitsWhenCut ==
  ASSUME NEW M, NEW q \in Seq(M), NEW k \in 0 .. Len(q), NEW now, Fits(q, now)
  PROVE  Fits(SubSeq(q, 1, k), now)
<1> DEFINE r == SubSeq(q, 1, k)
<1>1. /\ DOMAIN q = 1 .. Len(q) /\ DOMAIN r = 1 .. k
      /\ \A j \in 1 .. k : r[j] = q[j]
  OBVIOUS
<1> SUFFICES ASSUME NEW i \in DOMAIN r, IsLight(r[i])
             PROVE  Before(r, i, "map", now, r[i].map)
  BY DEF Fits
<1>2. i \in DOMAIN q /\ r[i] = q[i] /\ i \in 1 .. k + 1
  BY <1>1
<1>3. Before(q, i, "map", now, q[i].map)
  BY <1>2 DEF Fits
<1> HIDE DEF r
<1>4. Before(SubSeq(q, 1, k), i, "map", now, q[i].map)
  BY <1>2, <1>3, BelievesWhenCut
<1> QED BY <1>2, <1>4 DEF r

LEMMA BringsWhenAppended ==
  ASSUME NEW M, NEW q \in Seq(M), NEW m \in M, NEW now, NEW held, NEW amount,
         m.type = "state" => m.coins = amount,
         \/ Brings(q, now, held, amount)
         \/ m.type = "state" /\ \E p \in Phases : p # m.phase /\ Told(q, "phase", now, p)
  PROVE  Brings(Append(q, m), now, held, amount)
<1> DEFINE r == Append(q, m)
<1>1. /\ r \in Seq(M) /\ Len(r) = Len(q) + 1 /\ Len(q) \in Nat
      /\ \A j \in 1 .. Len(q) : r[j] = q[j]
      /\ r[Len(q) + 1] = m
      /\ DOMAIN q = 1 .. Len(q) /\ DOMAIN r = 1 .. Len(q) + 1
  OBVIOUS
<1>2. ASSUME NEW i \in 1 .. Len(q) + 1, NEW p, Before(q, i, "phase", now, p)
      PROVE  Before(r, i, "phase", now, p)
  BY <1>2, BelievesWhenAppended
<1> HIDE DEF r
<1>3. ASSUME NEW i \in 1 .. Len(q) + 1, Pays(q, i, amount)
      PROVE  Pays(r, i, amount)
  BY <1>1, <1>3 DEF Pays
<1> SUFFICES Brings(r, now, held, amount)
  BY DEF r
<1>4. CASE held = amount /\ Pays(q, 1, amount)
  BY <1>1, <1>3, <1>4 DEF Brings
<1>5. ASSUME NEW i \in DOMAIN q, q[i].type = "state", Pays(q, i, amount),
             NEW p \in Phases, p # q[i].phase, Before(q, i, "phase", now, p)
      PROVE  Brings(r, now, held, amount)
  <2>1. i \in DOMAIN r /\ r[i] = q[i] /\ i \in 1 .. Len(q) + 1
    BY <1>1
  <2>2. Pays(r, i, amount) /\ Before(r, i, "phase", now, p)
    BY <1>2, <1>3, <1>5, <2>1
  <2> QED BY <1>5, <2>1, <2>2 DEF Brings
<1>6. CASE m.type = "state" /\ \E p \in Phases : p # m.phase /\ Told(q, "phase", now, p)
  <2>1. PICK p \in Phases : p # m.phase /\ Told(q, "phase", now, p)
    BY <1>6
  <2>2. Before(r, Len(q) + 1, "phase", now, p)
    BY <1>1, <1>2, <2>1 DEF Told
  <2>3. Pays(r, Len(q) + 1, amount)
    BY <1>1, <1>6 DEF Pays
  <2> QED BY <1>1, <1>6, <2>1, <2>2, <2>3 DEF Brings
<1> QED BY <1>4, <1>5, <1>6 DEF Brings

LEMMA BringsWhenTaken ==
  ASSUME NEW M, NEW q \in Seq(M), q # <<>>, NEW now, NEW now2, NEW held, NEW held2, NEW amount,
         Brings(q, now, held, amount),
         Tells(Head(q)) => now2 = Head(q).phase,
         ~Tells(Head(q)) => now2 = now,
         Head(q).type # "state" => held2 = held,
         Head(q).type = "state" => held2 = IF now = Head(q).phase THEN held ELSE Head(q).coins
  PROVE  Brings(Tail(q), now2, held2, amount)
<1> DEFINE r == Tail(q)
<1>1. /\ Len(q) \in Nat /\ DOMAIN r = 1 .. Len(q) - 1 /\ DOMAIN q = 1 .. Len(q)
      /\ Len(r) = Len(q) - 1 /\ Head(q) = q[1] /\ Len(q) >= 1
      /\ \A j \in 1 .. Len(q) - 1 : r[j] = q[j + 1]
  OBVIOUS
<1>2. Tells(Head(q)) => now2 = Says(Head(q), "phase")
  BY DEF Says
<1>3. ASSUME NEW i \in 2 .. Len(q) + 1, NEW p, Before(q, i, "phase", now, p)
      PROVE  Before(r, i - 1, "phase", now2, p)
  BY <1>2, <1>3, BelievesWhenTaken
<1> HIDE DEF r
<1>4. ASSUME NEW i \in 2 .. Len(q) + 1, Pays(q, i, amount)
      PROVE  Pays(r, i - 1, amount)
  <2> SUFFICES ASSUME NEW j \in i - 1 .. Len(r), r[j].type = "state"
               PROVE  r[j].coins = amount
    BY DEF Pays
  <2>1. r[j] = q[j + 1] /\ j + 1 \in i .. Len(q)
    BY <1>1
  <2> QED BY <1>4, <2>1 DEF Pays
<1>5. ASSUME Pays(q, 1, amount)
      PROVE  Pays(r, 1, amount) /\ (q[1].type = "state" => q[1].coins = amount)
  <2>1. Pays(q, 2, amount)
    BY <1>1, <1>5 DEF Pays
  <2>2. Pays(r, 2 - 1, amount)
    BY <1>1, <1>4, <2>1
  <2> QED BY <1>1, <1>5, <2>2 DEF Pays
<1>6. CASE held = amount /\ Pays(q, 1, amount)
  <2>1. held2 = amount
    BY <1>1, <1>5, <1>6
  <2> QED BY <1>5, <1>6, <2>1 DEF Brings, r
<1>7. ASSUME NEW i \in DOMAIN q, q[i].type = "state", Pays(q, i, amount),
             NEW p \in Phases, p # q[i].phase, Before(q, i, "phase", now, p)
      PROVE  Brings(r, now2, held2, amount)
  <2>1. CASE i = 1
    <3>1. p = now
      BY <1>7, <2>1, FirstBelieves
    <3>2. Pays(r, 1, amount) /\ held2 = amount
      BY <1>1, <1>5, <1>7, <2>1, <3>1
    <3> QED BY <3>2 DEF Brings
  <2>2. CASE i # 1
    <3>1. i \in 2 .. Len(q) + 1 /\ i - 1 \in DOMAIN r /\ r[i - 1] = q[i]
      BY <1>1, <2>2
    <3>2. Pays(r, i - 1, amount) /\ Before(r, i - 1, "phase", now2, p)
      BY <1>3, <1>4, <1>7, <3>1
    <3> QED BY <1>7, <3>1, <3>2 DEF Brings
  <2> QED BY <2>1, <2>2
<1>8. Brings(r, now2, held2, amount)
  BY <1>6, <1>7 DEF Brings, r
<1> QED BY <1>8 DEF r
(***************************************************************************)
(* What the mail to the seat in use says.                                  *)
(***************************************************************************)

InUseSeated == ws # 0 /\ Seated(ws)

\* A round that has begun has been announced.
RoundsAreAnnounced ==
  room.phase \in {"round_over", "picking"} => room.map = announced /\ pc # "map"

\* The map of the room was told to the seat, or the next tick announces it.
LightFits == ws # 0 => Fits(inbox[ws], terrain)
MapIsTold ==
  InUseSeated =>
    \/ Told(inbox[ws], "map", terrain, room.map)
    \/ room.map # announced /\ pc # "map"

\* The seat was told the phase, or one it may have skipped: rounds end and
\* matches end in a tick, and every tick tells the phase.
KnownIn(p) == IF p = "waiting" THEN Phases
              ELSE IF p = "playing" THEN Phases \ {"round_over"} ELSE {p}
PhaseIsTold ==
  InUseSeated => \E p \in KnownIn(room.phase) : Told(inbox[ws], "phase", lastPhase, p)

CoinsCome == InUseSeated /\ paid => Brings(inbox[ws], lastPhase, coins, purse)

RelayInv ==
  /\ RoundsAreAnnounced
  /\ unheralded \/ (latest.terrain = latest.map /\ LightFits /\ MapIsTold)
  /\ PhaseIsTold /\ CoinsCome

LEMMA InitIsRelayed == Init => RelayInv
BY DEF Init, RelayInv, RoundsAreAnnounced, LightFits, MapIsTold, PhaseIsTold, CoinsCome,
       InUseSeated, NoSnapshot

\* Nobody is seated afterwards, and no light letter is under way.
LEMMA UnseatedRelay ==
  ASSUME RelayInv, UNCHANGED <<room, announced, pc, unheralded>>, ~InUseSeated',
         ~unheralded => latest'.terrain = latest'.map /\ LightFits'
  PROVE  RelayInv'
BY DEF RelayInv, RoundsAreAnnounced, MapIsTold, PhaseIsTold, CoinsCome

LEMMA EndedRelay ==
  ASSUME RelayInv, UNCHANGED <<room, announced, pc, unheralded>>,
         ws' = 0, latest' = NoSnapshot
  PROVE  RelayInv'
BY UnseatedRelay DEF InUseSeated, LightFits, NoSnapshot

\* Nothing that is said here has changed.
LEMMA SameRelay ==
  ASSUME RelayInv,
         UNCHANGED <<ws, lastPhase, terrain, latest, coins, room, announced, pc, purse, paid,
                     unheralded>>,
         ws # 0 => inbox'[ws] = inbox[ws] /\ (InUseSeated' => InUseSeated)
  PROVE  RelayInv'
<1>1. ws' # 0 => ws # 0 /\ inbox'[ws'] = inbox[ws] /\ (InUseSeated' => InUseSeated)
  OBVIOUS
<1>2. RoundsAreAnnounced'
  BY DEF RelayInv, RoundsAreAnnounced
<1>3. ~unheralded => latest'.terrain = latest'.map /\ LightFits' /\ MapIsTold'
  BY <1>1 DEF RelayInv, LightFits, MapIsTold, InUseSeated
<1>4. PhaseIsTold' /\ CoinsCome'
  BY <1>1 DEF RelayInv, PhaseIsTold, CoinsCome, InUseSeated
<1> QED BY <1>2, <1>3, <1>4 DEF RelayInv

\* The room is laid out anew, or changes its phase, and nobody is told.
LEMMA SilentRelay ==
  ASSUME SessionInv, RelayInv, RoundsAreAnnounced', room'.phase \in {"waiting", "playing"},
         room.phase \in {"picking", "finished"} \/ room'.phase = "waiting",
         \/ unheralded'
         \/ room'.map = room.map
         \/ pc # "map" /\ (room'.map # announced \/ room.map = announced),
         unheralded => unheralded',
         UNCHANGED <<browserVars, announced, pc, seat, purse, paid>>
  PROVE  RelayInv'
<1>1. /\ UNCHANGED <<ws, sock, inbox, lastPhase, terrain, latest, coins>>
      /\ (InUseSeated' <=> InUseSeated)
  BY DEF browserVars, InUseSeated, Seated
<1>2. ~unheralded' => latest'.terrain = latest'.map /\ LightFits' /\ MapIsTold'
  BY <1>1 DEF RelayInv, LightFits, MapIsTold
<1>3. KnownIn(room.phase) \subseteq KnownIn(room'.phase)
  <2>1. room.phase \in Phases
    BY DEF SessionInv, ServerTypes
  <2> QED BY <2>1 DEF KnownIn, Phases
<1>4. PhaseIsTold' /\ CoinsCome'
  BY <1>1, <1>3 DEF RelayInv, PhaseIsTold, CoinsCome
<1> QED BY <1>2, <1>4 DEF RelayInv

(***************************************************************************)
(* Broadcasts.                                                             *)
(***************************************************************************)

\* The box of the seat in use gets one letter more.
LEMMA LetterArrives ==
  ASSUME SessionInv, NEW L \in [Sockets -> Messages],
         inbox' = [s \in Sockets |-> IF Seated(s) THEN Append(inbox[s], L[s]) ELSE inbox[s]],
         UNCHANGED <<ws, sock, seat>>, ws # 0
  PROVE  /\ ws \in Sockets /\ inbox[ws] \in Seq(Messages) /\ L[ws] \in Messages
         /\ InUseSeated' <=> InUseSeated
         /\ InUseSeated => inbox'[ws] = Append(inbox[ws], L[ws])
         /\ ~InUseSeated => inbox'[ws] = inbox[ws]
<1>1. ws \in Sockets /\ inbox \in [Sockets -> Seq(Messages)]
  BY LivePage DEF SessionInv, PageTypes
<1>2. (InUseSeated' <=> InUseSeated) /\ (InUseSeated <=> Seated(ws))
  BY DEF InUseSeated, Seated
<1> QED BY <1>1, <1>2

\* A letter that tells: the room's map and phase as they are by then.
LEMMA TellingRelay ==
  ASSUME SessionInv, RelayInv, RoundsAreAnnounced', ServerTypes',
         NEW L \in [Sockets -> Messages],
         \A s \in Sockets :
           Tells(L[s]) /\ L[s].map = room'.map /\ L[s].phase = room'.phase,
         inbox' = [s \in Sockets |-> IF Seated(s) THEN Append(inbox[s], L[s]) ELSE inbox[s]],
         \A s \in Sockets : IsLight(L[s]) /\ ~unheralded /\ InUseSeated =>
           Told(inbox[ws], "map", terrain, room'.map),
         \A s \in Sockets : L[s].type = "state" => L[s].coins = purse',
         \/ purse' = purse /\ (paid' => paid)
         \/ /\ \A s \in Sockets : L[s].type = "state"
            /\ \A p \in KnownIn(room.phase) : p # room'.phase,
         UNCHANGED <<ws, sock, lastPhase, terrain, latest, coins, seat, unheralded>>
  PROVE  RelayInv'
<1>1. CASE ~InUseSeated
  <2>1. ~InUseSeated'
    BY <1>1 DEF InUseSeated, Seated
  <2>2. ws # 0 => inbox'[ws] = inbox[ws]
    BY <1>1, LetterArrives
  <2>3. ~unheralded => latest'.terrain = latest'.map /\ LightFits'
    BY <2>2 DEF RelayInv, LightFits
  <2> QED BY <2>1, <2>3 DEF RelayInv, MapIsTold, PhaseIsTold, CoinsCome
<1>2. CASE InUseSeated
  <2> DEFINE q == inbox[ws]  m == L[ws]
  <2>1. ws # 0 /\ ws \in Sockets /\ q \in Seq(Messages) /\ m \in Messages
        /\ inbox'[ws] = Append(q, m)
    BY <1>2, LetterArrives DEF InUseSeated
  <2>2. Tells(m) /\ m.map = room'.map /\ m.phase = room'.phase
    BY <2>1
  <2>3. Says(m, "map") = room'.map /\ Says(m, "phase") = room'.phase
    BY <2>2 DEF Says
  <2>4. IsLight(m) /\ ~unheralded => Told(q, "map", terrain, m.map)
    BY <1>2, <2>1, <2>2
  <2>5. m.type = "state" => m.coins = purse'
    BY <2>1
  <2>6. (purse' = purse /\ (paid' => paid)) \/ (m.type = "state" /\ \A p \in KnownIn(room.phase) : p # room'.phase)
    BY <2>1
  <2> HIDE DEF m
  <2>7. Told(inbox'[ws], "map", terrain, room'.map) /\ Told(inbox'[ws], "phase", lastPhase, room'.phase)
    BY <2>1, <2>2, <2>3, BelievesWhenAppended
  <2>8. ~unheralded => latest'.terrain = latest'.map /\ LightFits' /\ MapIsTold'
    <3> SUFFICES ASSUME ~unheralded
                 PROVE  latest'.terrain = latest'.map /\ LightFits' /\ MapIsTold'
      OBVIOUS
    <3>1. Fits(q, terrain)
      BY <2>1 DEF RelayInv, LightFits
    <3>2. Fits(inbox'[ws], terrain)
      BY <2>1, <2>4, <3>1, FitsWhenAppended
    <3> QED BY <2>7, <3>2 DEF RelayInv, LightFits, MapIsTold
  <2>9. PhaseIsTold'
    <3>1. room'.phase \in KnownIn(room'.phase)
      BY DEF ServerTypes, KnownIn, Phases
    <3> QED BY <2>7, <3>1 DEF PhaseIsTold
  <2>10. CoinsCome'
    <3> SUFFICES ASSUME paid' PROVE Brings(inbox'[ws], lastPhase, coins, purse')
      BY DEF CoinsCome
    <3>1. CASE purse' = purse /\ (paid' => paid)
      <4>1. Brings(q, lastPhase, coins, purse')
        BY <1>2, <3>1 DEF RelayInv, CoinsCome
      <4> QED BY <2>1, <2>5, <4>1, BringsWhenAppended
    <3>2. CASE m.type = "state" /\ \A p \in KnownIn(room.phase) : p # room'.phase
      <4>1. PICK p \in KnownIn(room.phase) : Told(q, "phase", lastPhase, p)
        BY <1>2 DEF RelayInv, PhaseIsTold
      <4>2. p \in Phases /\ p # m.phase
        BY <2>2, <3>2 DEF KnownIn, SessionInv, ServerTypes
      <4>3. Brings(Append(q, m), lastPhase, coins, purse')
        BY <2>1, <2>5, <3>2, <4>1, <4>2, BringsWhenAppended
      <4> QED BY <2>1, <4>3
    <3> QED BY <2>6, <3>1, <3>2
  <2> QED BY <2>8, <2>9, <2>10 DEF RelayInv
<1> QED BY <1>1, <1>2

LEMMA RoomRelay ==
  ASSUME SessionInv, RelayInv, RoundsAreAnnounced', ServerTypes', BroadcastRoom,
         UNCHANGED <<ws, sock, lastPhase, terrain, latest, coins, seat, unheralded>>,
         purse' = purse, paid' => paid
  PROVE  RelayInv'
<1> DEFINE L == [s \in Sockets |-> RoomState(s)]
<1>1. ASSUME NEW s \in Sockets
      PROVE  /\ RoomState(s) \in Messages /\ RoomState(s).type = "room_state"
             /\ RoomState(s).map = room'.map /\ RoomState(s).phase = room'.phase
  BY RoomMessages DEF RoomState, Addressed, ServerTypes
<1>2. L \in [Sockets -> Messages] /\ \A s \in Sockets : L[s] = RoomState(s)
  BY <1>1
<1>3. inbox' = [s \in Sockets |-> IF Seated(s) THEN Append(inbox[s], L[s]) ELSE inbox[s]]
  BY DEF BroadcastRoom
<1> HIDE DEF L
<1>4. \A s \in Sockets :
        /\ Tells(L[s]) /\ L[s].map = room'.map /\ L[s].phase = room'.phase
        /\ L[s].type # "state" /\ ~IsLight(L[s])
  BY <1>1, <1>2 DEF Tells, IsLight
<1> QED BY <1>2, <1>3, <1>4, TellingRelay

LEMMA SnapshotRelay ==
  ASSUME SessionInv, RelayInv, RoundsAreAnnounced', ServerTypes', BroadcastSnapshot,
         ~unheralded /\ InUseSeated => Told(inbox[ws], "map", terrain, room'.map),
         \/ purse' = purse /\ (paid' => paid)
         \/ \A p \in KnownIn(room.phase) : p # room'.phase,
         UNCHANGED <<ws, sock, lastPhase, terrain, latest, coins, seat, unheralded>>
  PROVE  RelayInv'
<1>1. PICK full \in BOOLEAN :
        inbox' = [s \in Sockets |-> IF Seated(s) THEN Append(inbox[s], Snapshot(full)) ELSE inbox[s]]
  BY DEF BroadcastSnapshot
<1> DEFINE m == Snapshot(full)  L == [s \in Sockets |-> m]
<1>2. /\ m \in Messages /\ m.type = "state" /\ m.coins = purse'
      /\ m.map = room'.map /\ m.phase = room'.phase
  BY StateMessages DEF Snapshot, ServerTypes
<1>3. inbox' = [s \in Sockets |-> IF Seated(s) THEN Append(inbox[s], L[s]) ELSE inbox[s]]
  BY <1>1
<1> HIDE DEF m
<1>4. L \in [Sockets -> Messages] /\ \A s \in Sockets : L[s] = m
  BY <1>2
<1> HIDE DEF L
<1>5. \A s \in Sockets :
        /\ Tells(L[s]) /\ L[s].map = room'.map /\ L[s].phase = room'.phase
        /\ L[s].type = "state" /\ L[s].coins = purse'
  BY <1>2, <1>4 DEF Tells
<1> QED BY <1>3, <1>4, <1>5, TellingRelay

\* A letter that tells nothing.
LEMMA OtherRelay ==
  ASSUME SessionInv, RelayInv, NEW m \in Messages, ~Tells(m),
         inbox' = [s \in Sockets |-> IF Seated(s) THEN Append(inbox[s], m) ELSE inbox[s]],
         pc # "map" => pc' # "map",
         UNCHANGED <<ws, sock, lastPhase, terrain, latest, coins, seat, room, announced, purse,
                     paid, unheralded>>
  PROVE  RelayInv'
<1>0. RoundsAreAnnounced'
  BY DEF RelayInv, RoundsAreAnnounced
<1> DEFINE L == [s \in Sockets |-> m]
<1>1. L \in [Sockets -> Messages] /\ \A s \in Sockets : L[s] = m
  OBVIOUS
<1>2. inbox' = [s \in Sockets |-> IF Seated(s) THEN Append(inbox[s], L[s]) ELSE inbox[s]]
  OBVIOUS
<1> HIDE DEF L
<1>3. CASE ~InUseSeated
  <2>1. ~InUseSeated'
    BY <1>3 DEF InUseSeated, Seated
  <2>2. ws # 0 => inbox'[ws] = inbox[ws]
    BY <1>1, <1>2, <1>3, LetterArrives
  <2>3. ~unheralded => latest'.terrain = latest'.map /\ LightFits'
    BY <2>2 DEF RelayInv, LightFits
  <2> QED BY <1>0, <2>1, <2>3 DEF RelayInv, MapIsTold, PhaseIsTold, CoinsCome
<1>4. CASE InUseSeated
  <2> DEFINE q == inbox[ws]
  <2>1. ws # 0 /\ ws \in Sockets /\ q \in Seq(Messages) /\ inbox'[ws] = Append(q, m)
    BY <1>1, <1>2, <1>4, LetterArrives DEF InUseSeated
  <2>2. ~IsLight(m) /\ m.type # "state"
    BY DEF Tells, IsLight
  <2>3. ASSUME NEW field, NEW now, NEW v, Told(q, field, now, v)
        PROVE  Told(inbox'[ws], field, now, v)
    BY <2>1, <2>3, BelievesWhenAppended
  <2>4. ~unheralded => latest'.terrain = latest'.map /\ LightFits' /\ MapIsTold'
    <3> SUFFICES ASSUME ~unheralded
                 PROVE  latest'.terrain = latest'.map /\ LightFits' /\ MapIsTold'
      OBVIOUS
    <3>1. Fits(q, terrain)
      BY <2>1 DEF RelayInv, LightFits
    <3>2. Fits(inbox'[ws], terrain)
      BY <2>1, <2>2, <3>1, FitsWhenAppended
    <3>3. MapIsTold'
      BY <1>4, <2>3 DEF RelayInv, MapIsTold
    <3> QED BY <3>2, <3>3 DEF RelayInv, LightFits
  <2>5. PhaseIsTold'
    BY <1>4, <2>3 DEF RelayInv, PhaseIsTold
  <2>6. CoinsCome'
    <3> SUFFICES ASSUME paid PROVE Brings(inbox'[ws], lastPhase, coins, purse)
      BY DEF CoinsCome
    <3>1. Brings(q, lastPhase, coins, purse)
      BY <1>4 DEF RelayInv, CoinsCome
    <3> QED BY <2>1, <2>2, <3>1, BringsWhenAppended
  <2> QED BY <1>0, <2>4, <2>5, <2>6 DEF RelayInv
<1> QED BY <1>3, <1>4

(***************************************************************************)
(* The seat.                                                               *)
(***************************************************************************)

LEMMA AdmitRelay ==
  ASSUME SessionInv, RelayInv, NEW s \in Sockets, Admit(s)
  PROVE  RelayInv'
<1> DEFINE m == [type |-> "welcome", id |-> s, phase |-> room.phase, map |-> room.map]
           q == <<m>>
<1>1. /\ sock[s] = "open" /\ inbox' = [inbox EXCEPT ![s] = q] /\ paid' = FALSE
      /\ UNCHANGED <<ws, lastPhase, terrain, latest, room, announced, pc, unheralded>>
  BY DEF Admit, page, otherServer
<1>2. s = ws
  BY <1>1, LivePage
<1>3. inbox'[ws] = q
  BY <1>1, <1>2 DEF SessionInv, PageTypes
<1>4. Tells(m) /\ ~IsLight(m) /\ Says(m, "map") = room.map /\ Says(m, "phase") = room.phase
  BY DEF Tells, IsLight, Says
<1> HIDE DEF m
<1>5. Len(q) = 1 /\ q[1] = m /\ DOMAIN q = {1}
  OBVIOUS
<1> HIDE DEF q
<1>6. \A field, now : Told(q, field, now, Says(m, field))
  BY <1>4, <1>5 DEF Told, Before
<1>7. RoundsAreAnnounced' /\ CoinsCome'
  BY <1>1 DEF RelayInv, RoundsAreAnnounced, CoinsCome
<1>8. LightFits' /\ MapIsTold'
  BY <1>1, <1>3, <1>4, <1>5, <1>6 DEF LightFits, Fits, MapIsTold
<1>9. PhaseIsTold'
  <2>1. room.phase \in KnownIn(room.phase)
    BY DEF SessionInv, ServerTypes, KnownIn, Phases
  <2> QED BY <1>1, <1>3, <1>4, <1>6, <2>1 DEF PhaseIsTold
<1> QED BY <1>1, <1>7, <1>8, <1>9 DEF RelayInv

LEMMA RefuseRelay ==
  ASSUME SessionInv, RelayInv, NEW s \in Sockets, Refuse(s)
  PROVE  RelayInv'
<1>1. /\ sock[s] = "open" /\ seat' = [seat EXCEPT ![s] = "gone"]
      /\ UNCHANGED <<ws, sock, lastPhase, terrain, latest, room, announced, pc, unheralded>>
  BY DEF Refuse, page
<1>2. PICK r \in Refusals :
        inbox' = [inbox EXCEPT ![s] = <<[type |-> "error", reason |-> r],
                                        [type |-> "close", code |-> r]>>]
  BY DEF Refuse
<1>3. s = ws
  BY <1>1, LivePage
<1>4. ~InUseSeated'
  BY <1>1, <1>3 DEF InUseSeated, Seated, SessionInv, ServerTypes
<1> DEFINE q == <<[type |-> "error", reason |-> r], [type |-> "close", code |-> r]>>
<1>5. inbox'[ws] = q
  BY <1>2, <1>3 DEF SessionInv, PageTypes
<1>6. \A i \in DOMAIN q : ~IsLight(q[i])
  BY DEF IsLight
<1> HIDE DEF q
<1>7. LightFits'
  BY <1>1, <1>5, <1>6 DEF LightFits, Fits
<1> QED BY <1>1, <1>4, <1>7, UnseatedRelay DEF RelayInv

LEMMA CutRelay ==
  ASSUME SessionInv, RelayInv, NEW s \in Sockets, Cut(s)
  PROVE  RelayInv'
<1>1. /\ sock[s] = "open" /\ seat' = [seat EXCEPT ![s] = "gone"]
      /\ UNCHANGED <<ws, sock, lastPhase, terrain, latest, room, announced, pc, unheralded>>
  BY DEF Cut, page, Vacate, otherServer
<1>2. s = ws /\ ws # 0 /\ inbox \in [Sockets -> Seq(Messages)]
  BY <1>1, LivePage DEF SessionInv, PageTypes
<1>3. ~InUseSeated'
  BY <1>1, <1>2 DEF InUseSeated, Seated, SessionInv, ServerTypes
<1> DEFINE K == 0 .. (IF Closed(s) THEN Len(inbox[s]) - 1 ELSE Len(inbox[s]))
<1>4. \A k \in K : k \in 0 .. Len(inbox[s])
  BY <1>2
<1>5. \E k \in K, c \in Cuts :
        inbox' = [inbox EXCEPT ![s] = Append(SubSeq(inbox[s], 1, k), [type |-> "close", code |-> c])]
  BY <1>2 DEF Cut
<1> HIDE DEF K
<1>6. PICK k \in 0 .. Len(inbox[s]), c \in Cuts :
        inbox' = [inbox EXCEPT ![s] = Append(SubSeq(inbox[s], 1, k), [type |-> "close", code |-> c])]
  BY <1>4, <1>5
<1> DEFINE m == [type |-> "close", code |-> c]
           p == SubSeq(inbox[s], 1, k)
<1>7. inbox'[ws] = Append(p, m)
  BY <1>2, <1>6
<1>8. m \in Messages /\ ~IsLight(m)
  BY OtherMessages, 0 \in Nat, "full" \in Refusals DEF Refusals, IsLight
<1>9. p \in Seq(Messages) /\ (Fits(inbox[s], terrain) => Fits(p, terrain))
  BY <1>2, LettersCut, FitsWhenCut
<1> HIDE DEF m, p
<1>10. LightFits => LightFits'
  BY <1>1, <1>2, <1>7, <1>8, <1>9, FitsWhenAppended DEF LightFits
<1> QED BY <1>1, <1>3, <1>10, UnseatedRelay DEF RelayInv

\* A new socket: it has no seat, and nothing was sent on it.
LEMMA ConnectRelay ==
  ASSUME SessionInv, RelayInv, NEW s \in Sockets, Connect(s)
  PROVE  RelayInv'
<1>1. /\ sock[s] = "unused" /\ ws' = s /\ latest' = NoSnapshot /\ seat' = seat
      /\ inbox' = [t \in Sockets |-> IF t = ws THEN <<>> ELSE inbox[t]]
      /\ UNCHANGED <<room, announced, pc, unheralded>>
  BY DEF Connect, serverVars
<1>2. seat[s] = "none" /\ inbox[s] = <<>>
  BY <1>1 DEF SessionInv, MailIsAddressed
<1>3. ~InUseSeated' /\ inbox'[s] = <<>>
  BY <1>1, <1>2 DEF InUseSeated, Seated
<1>4. latest'.terrain = latest'.map /\ LightFits'
  BY <1>1, <1>3 DEF NoSnapshot, LightFits, Fits
<1> QED BY <1>1, <1>3, <1>4, UnseatedRelay

(***************************************************************************)
(* A letter is read.                                                       *)
(***************************************************************************)

\* What the page believes afterwards, and what it holds.
LEMMA TakenRelay ==
  ASSUME SessionInv, RelayInv, ws # 0, inbox[ws] # <<>>,
         inbox'[ws] = Tail(inbox[ws]), InUseSeated' => InUseSeated,
         Tells(Head(inbox[ws])) => lastPhase' = Head(inbox[ws]).phase,
         ~Tells(Head(inbox[ws])) => lastPhase' = lastPhase,
         ~unheralded =>
           /\ latest'.terrain = latest'.map
           /\ Tells(Head(inbox[ws])) => terrain' = Head(inbox[ws]).map
           /\ ~Tells(Head(inbox[ws])) => terrain' = terrain,
         Head(inbox[ws]).type # "state" => coins' = coins,
         Head(inbox[ws]).type = "state" =>
           coins' = IF lastPhase = Head(inbox[ws]).phase THEN coins ELSE Head(inbox[ws]).coins,
         UNCHANGED <<ws, room, announced, pc, purse, paid, unheralded>>
  PROVE  RelayInv'
<1> DEFINE q == inbox[ws]  m == Head(q)
<1>1. q \in Seq(Messages) /\ q # <<>> /\ Len(q) \in Nat /\ Len(q) > 0 /\ Len(Tail(q)) = Len(q) - 1
  BY LivePage DEF SessionInv, PageTypes
<1> DEFINE L == Len(q) + 1
<1>2. L \in 2 .. Len(q) + 1 /\ L - 1 = Len(Tail(q)) + 1
  BY <1>1
<1>3. /\ Tells(m) => Says(m, "map") = m.map /\ Says(m, "phase") = m.phase
  BY DEF Says
<1>4. ASSUME NEW p, Told(q, "phase", lastPhase, p)
      PROVE  Told(inbox'[ws], "phase", lastPhase', p)
  <2> HIDE DEF q, L
  <2>1. Before(q, L, "phase", lastPhase, p)
    BY <1>4 DEF Told, L
  <2>2. Tells(Head(q)) => lastPhase' = Says(Head(q), "phase")
    BY <1>3 DEF q
  <2>3. ~Tells(Head(q)) => lastPhase' = lastPhase
    BY DEF q
  <2>4. Before(Tail(q), L - 1, "phase", lastPhase', p)
    BY <1>1, <1>2, <2>1, <2>2, <2>3, BelievesWhenTaken
  <2> QED BY <1>2, <2>4 DEF Told, q
<1>5. ASSUME NEW v, ~unheralded, Told(q, "map", terrain, v)
      PROVE  Told(inbox'[ws], "map", terrain', v)
  <2> HIDE DEF q, L
  <2>1. Before(q, L, "map", terrain, v)
    BY <1>5 DEF Told, L
  <2>2. Tells(Head(q)) => terrain' = Says(Head(q), "map")
    BY <1>3, <1>5 DEF q
  <2>3. ~Tells(Head(q)) => terrain' = terrain
    BY <1>5 DEF q
  <2>4. Before(Tail(q), L - 1, "map", terrain', v)
    BY <1>1, <1>2, <2>1, <2>2, <2>3, BelievesWhenTaken
  <2> QED BY <1>2, <2>4 DEF Told, q
<1>6. RoundsAreAnnounced'
  BY DEF RelayInv, RoundsAreAnnounced
<1>7. ~unheralded => latest'.terrain = latest'.map /\ LightFits' /\ MapIsTold'
  <2> SUFFICES ASSUME ~unheralded PROVE LightFits' /\ MapIsTold'
    OBVIOUS
  <2>1. Fits(q, terrain)
    BY DEF RelayInv, LightFits
  <2>2. Fits(Tail(q), terrain')
    <3> HIDE DEF q
    <3>1. Tells(Head(q)) => terrain' = Head(q).map
      BY DEF q
    <3>2. ~Tells(Head(q)) => terrain' = terrain
      BY DEF q
    <3> QED BY <1>1, <2>1, <3>1, <3>2, FitsWhenTaken
  <2>3. MapIsTold'
    BY <1>5 DEF RelayInv, MapIsTold
  <2> QED BY <2>2, <2>3 DEF LightFits
<1>8. PhaseIsTold'
  BY <1>4 DEF RelayInv, PhaseIsTold
<1>9. CoinsCome'
  <2> SUFFICES ASSUME InUseSeated, paid PROVE Brings(Tail(q), lastPhase', coins', purse)
    BY DEF CoinsCome
  <2>1. Brings(q, lastPhase, coins, purse)
    BY DEF RelayInv, CoinsCome
  <2> HIDE DEF q
  <2>2. /\ Tells(Head(q)) => lastPhase' = Head(q).phase
        /\ ~Tells(Head(q)) => lastPhase' = lastPhase
        /\ Head(q).type # "state" => coins' = coins
        /\ Head(q).type = "state" =>
             coins' = IF lastPhase = Head(q).phase THEN coins ELSE Head(q).coins
    BY DEF q
  <2> QED BY <1>1, <2>1, <2>2, BringsWhenTaken
<1> QED BY <1>6, <1>7, <1>8, <1>9 DEF RelayInv

LEMMA DeliverRelay ==
  ASSUME SessionInv, RelayInv, NEW s \in Sockets, Deliver(s)
  PROVE  RelayInv'
<1> DEFINE m == Head(inbox[s])
<1>1. /\ sock[s] = "open" /\ inbox[s] # <<>> /\ s = ws /\ ws # 0
      /\ UNCHANGED <<room, announced, pc, purse, paid, unheralded, seat>>
  BY LivePage DEF Deliver, serverVars
<1>2. CASE m.type = "close"
  <2>1. ws' = 0 /\ latest' = NoSnapshot
    BY <1>1, <1>2 DEF Deliver, OnClose, HandleClose
  <2> QED BY <1>1, <2>1, EndedRelay
<1>3. CASE m.type # "close"
  <2>1. inbox' = [inbox EXCEPT ![ws] = Tail(@)] /\ UNCHANGED <<ws, sock>>
    BY <1>1, <1>3 DEF Deliver
  <2>2. inbox'[ws] = Tail(inbox[ws]) /\ (InUseSeated' => InUseSeated)
    BY <1>1, <2>1, LivePage DEF SessionInv, PageTypes, InUseSeated, Seated
  <2>3. m = Head(inbox[ws])
    BY <1>1
  <2>4. CASE m.type = "state"
    <3>1. ShowState(m)
      BY <2>4 DEF Deliver
    <3>2. store.playerId # 0
      <4>1. store.status = "connected"
        BY <1>1, <2>4, FirstLetter
      <4> QED BY <1>1, <4>1 DEF SessionInv, OwnSession
    <3>3. ~unheralded => (IsLight(m) => terrain = m.map)
      <4>1. SUFFICES ASSUME ~unheralded, IsLight(m) PROVE terrain = m.map
        OBVIOUS
      <4>2. inbox[ws][1] = m /\ 1 \in DOMAIN inbox[ws]
        BY <1>1, LivePage DEF SessionInv, PageTypes
      <4>3. Before(inbox[ws], 1, "map", terrain, m.map)
        BY <1>1, <4>1, <4>2 DEF RelayInv, LightFits, Fits
      <4> QED BY <4>3, FirstBelieves
    <3> HIDE DEF m
    <3>4. ~unheralded => terrain' = m.map /\ latest'.terrain = latest'.map
      BY <2>4, <3>1, <3>3 DEF ShowState, WithTerrain, IsLight
    <3>5. lastPhase' = m.phase /\ coins' = IF lastPhase = m.phase THEN coins ELSE m.coins
      BY <3>1, <3>2 DEF ShowState, StoreState, SyncMyCoins
    <3>6. Tells(m)
      BY <2>4 DEF Tells
    <3> QED BY <1>1, <2>1, <2>2, <2>3, <2>4, <3>4, <3>5, <3>6, TakenRelay
  <2>5. CASE m.type \in {"welcome", "room_state"}
    <3>1. ShowWelcome(m) \/ ShowRoom(m)
      BY <2>5 DEF Deliver
    <3> HIDE DEF m
    <3>2. lastPhase' = m.phase /\ terrain' = m.map /\ UNCHANGED <<latest, coins>>
      BY <3>1 DEF ShowWelcome, ShowRoom
    <3>3. Tells(m) /\ m.type # "state"
      BY <2>5 DEF Tells
    <3>4. ~unheralded => latest'.terrain = latest'.map
      BY <3>2 DEF RelayInv
    <3> QED BY <1>1, <2>1, <2>2, <2>3, <3>2, <3>3, <3>4, TakenRelay
  <2>6. CASE m.type \notin {"state", "welcome", "room_state"}
    <3>1. ShowOther(m)
      BY <1>3, <2>6 DEF Deliver
    <3> HIDE DEF m
    <3>2. UNCHANGED <<lastPhase, terrain, latest, coins>>
      BY <3>1 DEF ShowOther
    <3>3. ~Tells(m) /\ m.type # "state"
      BY <2>6 DEF Tells
    <3>4. ~unheralded => latest'.terrain = latest'.map
      BY <3>2 DEF RelayInv
    <3> QED BY <1>1, <2>1, <2>2, <2>3, <3>2, <3>3, <3>4, TakenRelay
  <2> QED BY <2>4, <2>5, <2>6
<1> QED BY <1>2, <1>3

(***************************************************************************)
(* Every step.                                                             *)
(***************************************************************************)

LEMMA TickRelay ==
  ASSUME SessionInv, RelayInv, ServerTypes', Tick
  PROVE  RelayInv'
<1>1. PICK to \in Phases, pay \in 0 .. 1, m \in Maps :
        /\ TickPhase(to, pay)
        /\ m # room.map => room.phase = "round_over" /\ to = "playing"
        /\ room' = [phase |-> to, map |-> m] /\ purse' = purse + pay /\ paid' = (paid \/ pay = 1)
  BY DEF Tick, TickRoom
<1>2. /\ announced' = room'.map /\ pc = "rest"
      /\ UNCHANGED <<ws, sock, lastPhase, terrain, latest, coins, seat, unheralded>>
      /\ IF announced # room'.map THEN pc' = "map" /\ BroadcastRoom
                                  ELSE pc' = "snapshot" /\ BroadcastSnapshot
  BY DEF Tick, page
<1>3. room'.phase = to /\ room'.map = m /\ room.phase \in Phases /\ purse \in Nat
  BY <1>1 DEF SessionInv, ServerTypes
<1>4. /\ room.phase = "round_over" => room.map = announced
      /\ room.phase = "picking" => room.map = announced
  BY DEF RelayInv, RoundsAreAnnounced
<1>5. RoundsAreAnnounced'
  BY <1>1, <1>2, <1>3, <1>4 DEF RoundsAreAnnounced, TickPhase
<1>6. \/ pay = 0
      \/ announced = room'.map /\ \A p \in KnownIn(room.phase) : p # room'.phase
  BY <1>1, <1>3, <1>4 DEF TickPhase, KnownIn
<1>7. pay = 0 => purse' = purse /\ (paid' => paid)
  <2>1. pay = 0 => purse' = purse /\ pay # 1
    BY <1>1, <1>3
  <2>2. paid' => paid \/ pay = 1
    BY <1>1, Zenon
  <2> QED BY <2>1, <2>2
<1>8. CASE announced # room'.map
  BY <1>2, <1>5, <1>6, <1>7, <1>8, RoomRelay
<1>9. CASE announced = room'.map
  <2>1. room.map = room'.map
    BY <1>1, <1>3, <1>4, <1>9
  <2>2. ~unheralded /\ InUseSeated => Told(inbox[ws], "map", terrain, room'.map)
    BY <1>9, <2>1 DEF RelayInv, MapIsTold
  <2> QED BY <1>2, <1>5, <1>6, <1>7, <1>9, <2>2, SnapshotRelay
<1> QED BY <1>8, <1>9

LEMMA LoopRelay ==
  ASSUME SessionInv, RelayInv, ServerTypes', Loop
  PROVE  RelayInv'
<1>1. CASE MapAnnounced
  <2>1. /\ pc = "map" /\ pc' = "snapshot" /\ BroadcastSnapshot
        /\ UNCHANGED <<ws, sock, lastPhase, terrain, latest, coins, seat, unheralded,
                       room, announced, purse, paid>>
    BY <1>1 DEF MapAnnounced, page
  <2>2. RoundsAreAnnounced'
    BY <2>1 DEF RelayInv, RoundsAreAnnounced
  <2>3. ~unheralded /\ InUseSeated => Told(inbox[ws], "map", terrain, room'.map)
    BY <2>1 DEF RelayInv, MapIsTold
  <2> QED BY <2>1, <2>2, <2>3, SnapshotRelay
<1>2. CASE SnapshotSent
  <2>1. /\ pc' # "map"
        /\ UNCHANGED <<ws, sock, lastPhase, terrain, latest, coins, seat, unheralded,
                       room, announced, purse, paid>>
        /\ BroadcastOther([type |-> "game_started"]) \/ UNCHANGED inbox
    BY <1>2 DEF SnapshotSent, page
  <2>2. CASE BroadcastOther([type |-> "game_started"])
    <3> DEFINE m == [type |-> "game_started"]
    <3>1. m \in Messages /\ ~Tells(m)
      BY OtherMessages, 0 \in Nat, "full" \in Refusals DEF Refusals, Tells
    <3>2. inbox' = [s \in Sockets |-> IF Seated(s) THEN Append(inbox[s], m) ELSE inbox[s]]
      BY <2>2 DEF BroadcastOther
    <3> HIDE DEF m
    <3> QED BY <2>1, <3>1, <3>2, OtherRelay
  <2>3. CASE UNCHANGED inbox
    <3>1. RoundsAreAnnounced'
      BY <2>1 DEF RelayInv, RoundsAreAnnounced
    <3>2. InUseSeated' <=> InUseSeated
      BY <2>1 DEF InUseSeated, Seated
    <3>3. ~unheralded' => latest'.terrain = latest'.map /\ LightFits' /\ MapIsTold'
      BY <2>1, <2>3, <3>2 DEF RelayInv, LightFits, MapIsTold
    <3>4. PhaseIsTold' /\ CoinsCome'
      BY <2>1, <2>3, <3>2 DEF RelayInv, PhaseIsTold, CoinsCome
    <3> QED BY <3>1, <3>3, <3>4 DEF RelayInv
  <2> QED BY <2>1, <2>2, <2>3
<1> QED BY <1>1, <1>2, TickRelay DEF Loop

LEMMA HandlersRelay ==
  ASSUME SessionInv, RelayInv, ServerTypes', Handlers
  PROVE  RelayInv'
<1>0. room \in [phase : Phases, map : Maps]
  BY DEF SessionInv, ServerTypes
<1>1. CASE HandleStart \/ HandleRestart \/ HandleSetMap \/ AnnounceRoom
  <2>1. /\ BroadcastRoom
        /\ UNCHANGED <<ws, sock, lastPhase, terrain, latest, coins, seat, purse, paid,
                       unheralded, announced, pc>>
    BY <1>1 DEF HandleStart, HandleRestart, HandleSetMap, AnnounceRoom, page
  <2>2. room'.phase \notin {"round_over", "picking"} \/ room' = room
    BY <1>0, <1>1 DEF HandleStart, HandleRestart, HandleSetMap, AnnounceRoom
  <2>3. RoundsAreAnnounced'
    BY <2>1, <2>2 DEF RelayInv, RoundsAreAnnounced
  <2> QED BY <2>1, <2>3, RoomRelay
<1>2. CASE HandleRematch
  <2>1. /\ room.phase = "finished" /\ room'.phase = "playing"
        /\ unheralded' =
             (unheralded \/ (room'.map # room.map /\ (room'.map = announced \/ pc = "map")))
        /\ UNCHANGED <<browserVars, announced, pc, seat, purse, paid>>
    BY <1>2 DEF HandleRematch
  <2>2. RoundsAreAnnounced'
    BY <2>1 DEF RoundsAreAnnounced
  <2> QED BY <2>1, <2>2, SilentRelay
<1>3. CASE HandlePick
  <2>1. /\ room.phase = "picking" /\ room'.phase = "playing"
        /\ UNCHANGED <<browserVars, announced, pc, seat, purse, paid, unheralded>>
    BY <1>3 DEF HandlePick
  <2>2. RoundsAreAnnounced' /\ room.map = announced /\ pc # "map"
    BY <2>1 DEF RelayInv, RoundsAreAnnounced
  <2> QED BY <2>1, <2>2, SilentRelay
<1>4. CASE OtherLeaves
  <2>1. /\ UNCHANGED <<browserVars, announced, pc, seat, purse, paid, unheralded>>
        /\ \/ room'.phase = "waiting" /\ room'.map = room.map
           \/ room.phase = "picking" /\ room'.phase \in {"waiting", "playing"}
    BY <1>0, <1>4 DEF OtherLeaves
  <2>2. RoundsAreAnnounced'
    BY <2>1 DEF RoundsAreAnnounced
  <2>3. room.phase = "picking" => room.map = announced /\ pc # "map"
    BY DEF RelayInv, RoundsAreAnnounced
  <2> QED BY <2>1, <2>2, <2>3, SilentRelay
<1>5. CASE RankUpdate
  <2>1. PICK n \in pending : BroadcastOther([type |-> "rank_update", match |-> n])
    BY <1>5 DEF RankUpdate
  <2>2. n \in Nat
    BY DEF SessionInv, ServerTypes
  <2>3. UNCHANGED <<ws, sock, lastPhase, terrain, latest, coins, seat, unheralded,
                    room, announced, pc, purse, paid>>
    BY <1>5 DEF RankUpdate, page
  <2> DEFINE m == [type |-> "rank_update", match |-> n]
  <2>4. m \in Messages /\ ~Tells(m)
    BY <2>2, OtherMessages, "full" \in Refusals DEF Refusals, Tells
  <2>5. inbox' = [s \in Sockets |-> IF Seated(s) THEN Append(inbox[s], m) ELSE inbox[s]]
    BY <2>1 DEF BroadcastOther
  <2> HIDE DEF m
  <2> QED BY <2>3, <2>4, <2>5, OtherRelay
<1> QED BY <1>1, <1>2, <1>3, <1>4, <1>5 DEF Handlers

LEMMA StepRelay ==
  ASSUME SessionInv, RelayInv, [Next]_vars
  PROVE  RelayInv'
<1>0. ServerTypes'
  BY ServerTypesPreserved
<1>1. ASSUME UNCHANGED <<ws, sock, inbox, lastPhase, terrain, latest, coins, serverVars>>
      PROVE  RelayInv'
  BY <1>1, SameRelay DEF serverVars, InUseSeated, Seated
<1>2. CASE UNCHANGED vars
  BY <1>1, <1>2 DEF vars, browserVars
<1>3. CASE Page
  <2>1. CASE AskForRoom \/ AskFailed
    BY <1>1, <2>1 DEF AskForRoom, AskFailed
  <2>2. CASE Leave
    BY <2>2, EndedRelay DEF Leave, otherServer
  <2>3. CASE \E s \in Sockets : Connect(s)
    BY <2>3, ConnectRelay
  <2>4. CASE ConnectThrows
    BY <2>4, EndedRelay DEF ConnectThrows, serverVars
  <2> QED BY <1>3, <2>1, <2>2, <2>3, <2>4 DEF Page
<1>4. CASE Loop
  BY <1>0, <1>4, LoopRelay
<1>5. CASE Handlers
  BY <1>0, <1>5, HandlersRelay
<1>6. ASSUME NEW s \in Sockets, Browser(s)
      PROVE  RelayInv'
  <2>1. CASE Opens(s)
    <3>1. /\ sock[s] = "connecting"
          /\ UNCHANGED <<ws, inbox, lastPhase, terrain, latest, coins, serverVars>>
      BY <2>1 DEF Opens
    <3>2. s = ws /\ seat[s] = "none"
      BY <3>1, LivePage DEF SessionInv, MailIsAddressed
    <3>3. ~InUseSeated'
      BY <3>1, <3>2 DEF InUseSeated, Seated, serverVars
    <3> QED BY <3>1, <3>3, SameRelay DEF serverVars
  <2>2. CASE OpenFails(s)
    <3>1. /\ sock[s] = "connecting" /\ OnClose(s, "lost")
          /\ UNCHANGED <<room, announced, pc, unheralded>>
      BY <2>2 DEF OpenFails, otherServer
    <3>2. s = ws
      BY <3>1, LivePage
    <3>3. ws' = 0 /\ latest' = NoSnapshot
      BY <3>1, <3>2 DEF OnClose, HandleClose
    <3> QED BY <3>1, <3>3, EndedRelay
  <2>3. CASE Deliver(s)
    BY <2>3, DeliverRelay
  <2>4. CASE CloseArrives(s)
    <3>1. sock[s] = "closing" /\ OnClose(s, "normal") /\ UNCHANGED serverVars
      BY <2>4 DEF CloseArrives
    <3>2. ws # s
      BY <3>1, LivePage DEF SessionInv, InUse
    <3>3. /\ UNCHANGED <<ws, lastPhase, terrain, latest, coins>>
          /\ inbox' = [inbox EXCEPT ![s] = <<>>] /\ sock' = [sock EXCEPT ![s] = "closed"]
      BY <3>1, <3>2 DEF OnClose
    <3>4. ws # 0 => inbox'[ws] = inbox[ws] /\ sock'[ws] = sock[ws]
      BY <3>2, <3>3, LivePage DEF SessionInv, PageTypes
    <3> QED BY <3>1, <3>3, <3>4, SameRelay DEF serverVars, InUseSeated, Seated
  <2> QED BY <1>6, <2>1, <2>2, <2>3, <2>4 DEF Browser
<1>7. ASSUME NEW s \in Sockets, Answer(s) \/ Cut(s)
      PROVE  RelayInv'
  BY <1>7, AdmitRelay, RefuseRelay, CutRelay DEF Answer
<1> QED BY <1>2, <1>3, <1>4, <1>5, <1>6, <1>7 DEF Next

\* What the mail under way says agrees with the room: the announcements of
\* main._tick_once and the broadcasts of the handlers leave no gap that a
\* snapshot could fall into.
THEOREM MailAgreesWithTheRoom == Spec => []RelayInv
<1>1. SessionInv /\ RelayInv /\ [Next]_vars => RelayInv'
  BY StepRelay
<1> QED BY <1>1, InitIsRelayed, SessionInvariant, PTL DEF Spec

\* No snapshot is drawn on another map's terrain, but for the rematch maps that
\* the loop does not announce (withTerrain, main._tick_once).
THEOREM SnapshotsFitTheTerrain == Spec => []TerrainIsTheMaps
<1>1. RelayInv => TerrainIsTheMaps
  BY DEF RelayInv, TerrainIsTheMaps
<1> QED BY <1>1, MailAgreesWithTheRoom, PTL

\* Coins that were earned are in the profile once the mail is read, although
\* the filter keeps most snapshots from the store (syncMyCoins, lastPhase).
THEOREM EarnedCoinsArrive == Spec => []CoinsArrive
<1>1. SessionInv /\ RelayInv => CoinsArrive
  <2> SUFFICES ASSUME SessionInv, RelayInv, NEW s \in Sockets, Seated(s), inbox[s] = <<>>, paid
               PROVE  coins = purse
    BY DEF CoinsArrive
  <2>1. s = ws /\ InUseSeated
    BY LivePage DEF Seated, InUseSeated
  <2>2. Brings(inbox[ws], lastPhase, coins, purse)
    BY <2>1 DEF RelayInv, CoinsCome
  <2> QED BY <2>1, <2>2 DEF Brings
<1> QED BY <1>1, SessionInvariant, MailAgreesWithTheRoom, PTL
=============================================================================
