----------------------------- MODULE PlayProofs -----------------------------
(***************************************************************************)
(* Proofs about Play, for any number of rounds and any length of the wire: *)
(* an overlay that has sampled the end of a round has forgotten the window *)
(* before it, and what the server makes of the hands is always what the    *)
(* last message on the wire about them says.                               *)
(***************************************************************************)
EXTENDS Play, TLAPS

Rooms == [phase : Phases, mine : BOOLEAN, round : Nat]
Messages ==
  [type : {"input"}, now : BOOLEAN]
    \cup [type : {"strong_start", "strong_release", "pick_card"}]
    \cup [type : {"rematch"}, accept : BOOLEAN]

ScreenTypes ==
  /\ room \in Rooms /\ latest \in Rooms
  /\ pick \in [shown : Nat, mine : BOOLEAN, picked : Nat]
  /\ over \in [shown : Nat, voted : Nat]
HandTypes ==
  /\ {inputs, charging, sent, strong, holdTimer, keyBlock, mouseBlock} \subseteq BOOLEAN
  /\ wire \in Seq(Messages)

(***************************************************************************)
(* The wire                                                                *)
(***************************************************************************)

\* The last message of a kind, and a wire without any.
FinalOf(w, kinds, i) ==
  /\ i \in DOMAIN w /\ w[i].type \in kinds
  /\ \A j \in DOMAIN w : j > i => w[j].type \notin kinds
NoneOf(w, kinds) == \A i \in DOMAIN w : w[i].type \notin kinds

InputKinds  == {"input"}
StrongKinds == {"strong_start", "strong_release"}

\* When all of w has been handled, the server's inputs are now.
TellsInput(w, in, now) ==
  /\ NoneOf(w, InputKinds) => in = now
  /\ \A i \in DOMAIN w : FinalOf(w, InputKinds, i) => w[i].now = now

\* When all of w has been handled, the server charges only if on.
TellsStrong(w, ch, on) ==
  /\ NoneOf(w, StrongKinds) /\ ch => on
  /\ \A i \in DOMAIN w :
       FinalOf(w, StrongKinds, i) /\ w[i].type = "strong_start" => on

LEMMA MessagesHaveTypes ==
  /\ \A b \in BOOLEAN : [type |-> "input", now |-> b] \in Messages
  /\ \A b \in BOOLEAN : [type |-> "rematch", accept |-> b] \in Messages
  /\ [type |-> "strong_start"] \in Messages
  /\ [type |-> "strong_release"] \in Messages
  /\ [type |-> "pick_card"] \in Messages
  BY DEF Messages

LEMMA AppendFacts ==
  ASSUME NEW w \in Seq(Messages), NEW m \in Messages
  PROVE  /\ Append(w, m) \in Seq(Messages)
         /\ w \o <<m>> = Append(w, m)
         /\ w \o <<>> = w
         /\ DOMAIN w = 1 .. Len(w) /\ Len(w) \in Nat
         /\ DOMAIN Append(w, m) = 1 .. Len(w) + 1
         /\ \A i \in DOMAIN w : Append(w, m)[i] = w[i]
         /\ Append(w, m)[Len(w) + 1] = m
  OBVIOUS

LEMMA AppendOther ==
  ASSUME NEW w \in Seq(Messages), NEW m \in Messages, NEW in, NEW now, NEW ch, NEW on
  PROVE  /\ m.type # "input" /\ TellsInput(w, in, now) => TellsInput(Append(w, m), in, now)
         /\ m.type \notin StrongKinds /\ TellsStrong(w, ch, on)
              => TellsStrong(Append(w, m), ch, on)
  BY AppendFacts DEF TellsInput, TellsStrong, NoneOf, FinalOf, InputKinds, StrongKinds

LEMMA AppendInput ==
  ASSUME NEW w \in Seq(Messages), NEW in, NEW now \in BOOLEAN
  PROVE  TellsInput(Append(w, [type |-> "input", now |-> now]), in, now)
<1> DEFINE m == [type |-> "input", now |-> now]
           v == Append(w, m)
<1>1. m \in Messages /\ m.type \in InputKinds /\ m.now = now
  BY MessagesHaveTypes DEF InputKinds
<1>2. /\ DOMAIN v = 1 .. Len(w) + 1 /\ Len(w) \in Nat
      /\ Len(w) + 1 \in DOMAIN v /\ v[Len(w) + 1] = m
  BY <1>1, AppendFacts
<1> HIDE DEF m, v
<1>3. ~NoneOf(v, InputKinds)
  BY <1>1, <1>2 DEF NoneOf
<1>4. ASSUME NEW i \in DOMAIN v, FinalOf(v, InputKinds, i) PROVE v[i].now = now
  <2>1. i = Len(w) + 1 \/ Len(w) + 1 > i
    BY <1>2
  <2> QED
    BY <1>1, <1>2, <1>4, <2>1 DEF FinalOf
<1>5. TellsInput(v, in, now)
  BY <1>3, <1>4 DEF TellsInput
<1> QED
  BY <1>5 DEF m, v

LEMMA AppendStrong ==
  ASSUME NEW w \in Seq(Messages), NEW ch
  PROVE  /\ TellsStrong(Append(w, [type |-> "strong_start"]), ch, TRUE)
         /\ TellsStrong(Append(w, [type |-> "strong_release"]), ch, FALSE)
  BY AppendFacts, MessagesHaveTypes DEF TellsStrong, NoneOf, FinalOf, StrongKinds

LEMMA TailFacts ==
  ASSUME NEW w \in Seq(Messages), w # <<>>
  PROVE  /\ Tail(w) \in Seq(Messages)
         /\ Head(w) = w[1] /\ Head(w) \in Messages
         /\ DOMAIN w = 1 .. Len(w) /\ Len(w) \in Nat \ {0}
         /\ DOMAIN Tail(w) = 1 .. Len(w) - 1
         /\ \A i \in DOMAIN Tail(w) : Tail(w)[i] = w[i + 1]
  OBVIOUS

\* Handling a message leaves to the rest what the rest says.
LEMMA TailTells ==
  ASSUME NEW w \in Seq(Messages), w # <<>>, NEW in, NEW now, NEW ch, NEW on,
         NEW in2, NEW ch2
  PROVE  /\ /\ TellsInput(w, in, now)
            /\ \/ Head(w).type # "input" /\ in2 = in
               \/ Head(w).type = "input" /\ in2 = Head(w).now
            => TellsInput(Tail(w), in2, now)
         /\ /\ TellsStrong(w, ch, on)
            /\ ch2 => \/ Head(w).type \notin StrongKinds /\ ch
                      \/ Head(w).type = "strong_start"
            => TellsStrong(Tail(w), ch2, on)
<1> DEFINE t == Tail(w)
<1>0. \A j \in DOMAIN w : j > 1 => j - 1 \in DOMAIN t /\ t[j - 1] = w[j]
  BY TailFacts
<1>1. ASSUME NEW kinds, NEW i \in DOMAIN t, FinalOf(t, kinds, i)
      PROVE  i + 1 \in DOMAIN w /\ FinalOf(w, kinds, i + 1) /\ t[i] = w[i + 1]
  <2>1. i \in Nat /\ i >= 1 /\ i + 1 \in DOMAIN w /\ t[i] = w[i + 1]
    BY TailFacts
  <2>2. ASSUME NEW j \in DOMAIN w, j > i + 1 PROVE w[j].type \notin kinds
    <3>1. j \in Nat
      BY TailFacts
    <3>2. j - 1 \in DOMAIN t /\ t[j - 1] = w[j] /\ j - 1 > i
      BY <1>0, <2>1, <2>2, <3>1
    <3> QED
      BY <1>1, <3>2 DEF FinalOf
  <2> QED
    BY <1>1, <2>1, <2>2 DEF FinalOf
<1>2. ASSUME NEW kinds, NoneOf(t, kinds)
      PROVE  /\ \A j \in DOMAIN w : j > 1 => w[j].type \notin kinds
             /\ 1 \in DOMAIN w /\ Head(w) = w[1] /\ \A j \in DOMAIN w : j = 1 \/ j > 1
  BY <1>0, <1>2, TailFacts DEF NoneOf
<1>3. ASSUME NEW kinds, NoneOf(t, kinds)
      PROVE  /\ Head(w).type \in kinds => FinalOf(w, kinds, 1)
             /\ Head(w).type \notin kinds => NoneOf(w, kinds)
  BY <1>2, <1>3 DEF NoneOf, FinalOf
<1>4. ASSUME TellsInput(w, in, now),
             \/ Head(w).type # "input" /\ in2 = in
             \/ Head(w).type = "input" /\ in2 = Head(w).now
      PROVE  TellsInput(t, in2, now)
  <2>1. ASSUME NoneOf(t, InputKinds) PROVE in2 = now
    <3>1. Head(w) = w[1] /\ 1 \in DOMAIN w
      BY TailFacts
    <3> QED
      BY <1>3, <1>4, <2>1, <3>1 DEF TellsInput, InputKinds
  <2>2. ASSUME NEW i \in DOMAIN t, FinalOf(t, InputKinds, i) PROVE t[i].now = now
    BY <1>1, <1>4, <2>2 DEF TellsInput
  <2> QED
    BY <2>1, <2>2 DEF TellsInput
<1>5. ASSUME TellsStrong(w, ch, on),
             ch2 => \/ Head(w).type \notin StrongKinds /\ ch
                    \/ Head(w).type = "strong_start"
      PROVE  TellsStrong(t, ch2, on)
  <2>1. ASSUME NoneOf(t, StrongKinds), ch2 PROVE on
    <3>1. Head(w) = w[1] /\ 1 \in DOMAIN w
      BY TailFacts
    <3>2. CASE Head(w).type \notin StrongKinds /\ ch
      BY <1>3, <1>5, <2>1, <3>2 DEF TellsStrong
    <3>3. CASE Head(w).type = "strong_start"
      BY <1>3, <1>5, <2>1, <3>1, <3>3 DEF TellsStrong, StrongKinds
    <3> QED
      BY <1>5, <2>1, <3>2, <3>3
  <2>2. ASSUME NEW i \in DOMAIN t, FinalOf(t, StrongKinds, i), t[i].type = "strong_start"
        PROVE  on
    BY <1>1, <1>5, <2>2 DEF TellsStrong
  <2> QED
    BY <2>1, <2>2 DEF TellsStrong
<1> QED
  BY <1>4, <1>5

(***************************************************************************)
(* The hands                                                               *)
(***************************************************************************)

\* What is kept of the hands is in them, or was let go while nobody listened;
\* and nothing is kept while the screen is not there.
KeptIsHeld ==
  /\ keyBlock => "guard" \in held \/ "guard" \in missed
  /\ mouseBlock => "right" \in buttons
  /\ strong => "strong" \in held \/ "left" \in buttons \/ "strong" \in missed
  /\ holdTimer => "left" \in buttons
NothingIsKept == ~Mounted => ~(keyBlock \/ mouseBlock \/ strong \/ holdTimer)

HandInv ==
  /\ HandTypes /\ KeptIsHeld /\ NothingIsKept
  /\ sent = Now
  /\ TellsInput(wire, inputs, sent)
  /\ TellsStrong(wire, charging, strong)

LEMMA HandsInit == Init => HandInv
<1> SUFFICES ASSUME Init PROVE HandInv
  OBVIOUS
<1>1. /\ inputs = FALSE /\ charging = FALSE /\ sent = FALSE /\ strong = FALSE
      /\ holdTimer = FALSE /\ keyBlock = FALSE /\ mouseBlock = FALSE /\ wire = <<>>
  BY DEF Init
<1>2. DOMAIN wire = {} /\ wire \in Seq(Messages)
  BY <1>1
<1>3. HandTypes /\ KeptIsHeld /\ NothingIsKept /\ sent = Now
  BY <1>1, <1>2 DEF HandTypes, KeptIsHeld, NothingIsKept, Now
<1>4. TellsInput(wire, inputs, sent) /\ TellsStrong(wire, charging, strong)
  BY <1>1, <1>2 DEF TellsInput, TellsStrong
<1> QED
  BY <1>3, <1>4 DEF HandInv

\* flushInput
LEMMA FlushTells ==
  ASSUME NEW w \in Seq(Messages), NEW now \in BOOLEAN, NEW in, NEW ch, NEW on,
         sent \in BOOLEAN, TellsInput(w, in, sent), TellsStrong(w, ch, on)
  PROVE  /\ w \o Told(now) \in Seq(Messages)
         /\ TellsInput(w \o Told(now), in, now)
         /\ TellsStrong(w \o Told(now), ch, on)
<1> DEFINE m == [type |-> "input", now |-> now]
<1>1. m \in Messages /\ m.type \notin StrongKinds
  BY MessagesHaveTypes DEF StrongKinds
<1>2. CASE now = sent
  BY <1>1, <1>2, AppendFacts DEF Told
<1>3. CASE now # sent
  <2>1. w \o Told(now) = Append(w, m) /\ Append(w, m) \in Seq(Messages)
    BY <1>1, <1>3, AppendFacts DEF Told
  <2>2. TellsInput(Append(w, m), in, now)
    BY AppendInput
  <2>3. TellsStrong(Append(w, m), ch, on)
    BY <1>1, AppendOther
  <2> QED
    BY <2>1, <2>2, <2>3
<1> QED
  BY <1>2, <1>3

\* releaseStrong, as the wire has it
LEMMA ReleaseTells ==
  ASSUME HandInv,
         NEW w, w = IF strong THEN Append(wire, [type |-> "strong_release"]) ELSE wire
  PROVE  /\ w \in Seq(Messages)
         /\ TellsInput(w, inputs, sent) /\ TellsStrong(w, charging, FALSE)
<1>1. wire \in Seq(Messages) /\ strong \in BOOLEAN
  BY DEF HandInv, HandTypes
<1>2. CASE strong
  BY <1>1, <1>2, MessagesHaveTypes, AppendFacts, AppendOther, AppendStrong DEF HandInv
<1>3. CASE ~strong
  BY <1>1, <1>3 DEF HandInv, TellsStrong
<1> QED
  BY <1>2, <1>3

\* startStrong
LEMMA StartTells ==
  ASSUME HandInv, StartStrong
  PROVE  /\ wire' \in Seq(Messages) /\ strong' = TRUE
         /\ TellsInput(wire', inputs, sent) /\ TellsStrong(wire', charging, TRUE)
<1>1. wire \in Seq(Messages) /\ strong \in BOOLEAN
  BY DEF HandInv, HandTypes
<1>2. CASE strong
  BY <1>1, <1>2 DEF HandInv, StartStrong, TellsStrong
<1>3. CASE ~strong
  BY <1>1, <1>3, MessagesHaveTypes, AppendFacts, AppendOther, AppendStrong
     DEF HandInv, StartStrong
<1> QED
  BY <1>2, <1>3

LEMMA ClearAllTells ==
  ASSUME HandInv, ClearAll
  PROVE  /\ wire' \in Seq(Messages) /\ strong' = FALSE /\ sent' = FALSE
         /\ keyBlock' = FALSE /\ mouseBlock' = FALSE /\ holdTimer' = FALSE
         /\ TellsInput(wire', inputs, FALSE) /\ TellsStrong(wire', charging, FALSE)
<1> DEFINE w == IF strong THEN Append(wire, [type |-> "strong_release"]) ELSE wire
<1>1. /\ w \in Seq(Messages)
      /\ TellsInput(w, inputs, sent) /\ TellsStrong(w, charging, FALSE)
  BY ReleaseTells
<1>2. wire' = w \o Told(FALSE)
  <2>1. wire \in Seq(Messages)
    BY DEF HandInv, HandTypes
  <2>2. wire \o (IF strong THEN <<[type |-> "strong_release"]>> ELSE <<>>) = w
    BY <2>1, AppendFacts, MessagesHaveTypes
  <2>3. wire' = (wire \o (IF strong THEN <<[type |-> "strong_release"]>> ELSE <<>>))
                  \o Told(FALSE)
    BY Zenon DEF ClearAll
  <2> QED
    BY <2>2, <2>3
<1>3. sent \in BOOLEAN
  BY DEF HandInv, HandTypes
<1> HIDE DEF w
<1>4. /\ w \o Told(FALSE) \in Seq(Messages)
      /\ TellsInput(w \o Told(FALSE), inputs, FALSE)
      /\ TellsStrong(w \o Told(FALSE), charging, FALSE)
  BY <1>1, <1>3, FlushTells
<1> QED
  BY <1>2, <1>4 DEF ClearAll

\* What flushInput does, the two ways to guard being now what they are.
LEMMA FlushInputTells ==
  ASSUME HandInv, FlushInput, {keyBlock', mouseBlock'} \subseteq BOOLEAN
  PROVE  /\ wire' \in Seq(Messages) /\ sent' = Now' /\ sent' \in BOOLEAN
         /\ TellsInput(wire', inputs, sent') /\ TellsStrong(wire', charging, strong)
<1>1. Now' \in BOOLEAN
  BY DEF Now
<1>2. sent \in BOOLEAN /\ wire \in Seq(Messages)
  BY DEF HandInv, HandTypes
<1> QED
  BY <1>1, <1>2, FlushTells DEF FlushInput, HandInv

LEMMA HandsStayPut ==
  ASSUME HandInv, UNCHANGED <<inputVars, wire, inputs, charging, missed>>,
         held \subseteq held', buttons \subseteq buttons', Mounted' = Mounted
  PROVE  HandInv'
  BY DEF HandInv, HandTypes, KeptIsHeld, NothingIsKept, Now, inputVars

LEMMA ClearAllHands ==
  ASSUME HandInv, ClearAll, UNCHANGED <<inputs, charging>>
  PROVE  HandInv'
<1>1. /\ wire' \in Seq(Messages) /\ strong' = FALSE /\ sent' = FALSE
      /\ keyBlock' = FALSE /\ mouseBlock' = FALSE /\ holdTimer' = FALSE
      /\ TellsInput(wire', inputs', sent') /\ TellsStrong(wire', charging', strong')
  BY ClearAllTells
<1>2. HandTypes'
  BY <1>1 DEF HandInv, HandTypes
<1> QED
  BY <1>1, <1>2 DEF HandInv, KeptIsHeld, NothingIsKept, Now

LEMMA HandsStep == HandInv /\ [Next]_vars => HandInv'
<1> SUFFICES ASSUME HandInv, [Next]_vars PROVE HandInv'
  OBVIOUS
<1>0. HandTypes /\ KeptIsHeld /\ NothingIsKept /\ sent = Now
  BY DEF HandInv
<1>1. ASSUME NEW k \in Keys, KeyDown(k) PROVE HandInv'
  <2>1. /\ held' = held \cup {k} /\ UNCHANGED <<inputs, charging, buttons, latest, banner>>
        /\ missed' = missed \/ missed' = missed \ {k}
    BY <1>1 DEF KeyDown, serverVars, screenVars
  <2>2. CASE ~Enabled \/ typing
    BY <1>1, <2>1, <2>2, HandsStayPut DEF KeyDown, Mounted
  <2>3. CASE Enabled /\ ~typing /\ k = "strong"
    <3>1. StartStrong /\ UNCHANGED <<mouseBlock, holdTimer, keyBlock, sent>>
          /\ missed' = missed \ {k}
      BY <1>1, <2>3 DEF KeyDown
    <3>2. KeptIsHeld' /\ NothingIsKept' /\ (sent = Now)'
      BY <1>0, <2>1, <2>3, <3>1 DEF KeptIsHeld, NothingIsKept, Now, Mounted, Enabled
    <3>3. /\ HandTypes' /\ TellsInput(wire', inputs', sent')
          /\ TellsStrong(wire', charging', strong')
      BY <1>0, <2>1, <3>1, StartTells DEF HandTypes
    <3> QED
      BY <3>2, <3>3 DEF HandInv
  <2>4. CASE Enabled /\ ~typing /\ k = "guard"
    <3>1. /\ FlushInput /\ keyBlock' = TRUE /\ missed' = missed \ {k}
          /\ UNCHANGED <<mouseBlock, holdTimer, strong>>
      BY <1>1, <2>4 DEF KeyDown
    <3>2. KeptIsHeld' /\ NothingIsKept'
      BY <1>0, <2>1, <2>4, <3>1 DEF KeptIsHeld, NothingIsKept, Mounted, Enabled
    <3>3. {keyBlock', mouseBlock'} \subseteq BOOLEAN
      BY <1>0, <3>1 DEF HandTypes
    <3>4. /\ wire' \in Seq(Messages) /\ sent' = Now' /\ sent' \in BOOLEAN
          /\ TellsInput(wire', inputs', sent') /\ TellsStrong(wire', charging', strong')
      BY <2>1, <3>1, <3>3, FlushInputTells
    <3>5. HandTypes'
      BY <1>0, <2>1, <3>1, <3>3, <3>4 DEF HandTypes
    <3> QED
      BY <3>2, <3>4, <3>5 DEF HandInv
  <2> QED
    BY <2>2, <2>3, <2>4 DEF Keys
<1>2. ASSUME NEW k \in Keys, KeyUp(k) PROVE HandInv'
  <2>1. /\ held' = held \ {k} /\ UNCHANGED <<inputs, charging, buttons, latest, banner>>
    BY <1>2 DEF KeyUp, serverVars, screenVars
  <2>2. CASE ~Enabled
    <3>1. missed' = missed \cup {k} /\ UNCHANGED <<inputVars, wire>>
      BY <1>2, <2>2 DEF KeyUp
    <3> QED
      BY <2>1, <3>1 DEF HandInv, HandTypes, KeptIsHeld, NothingIsKept, Now, inputVars, Mounted
  <2>3. CASE Enabled /\ k = "strong"
    <3>1. ReleaseStrong /\ UNCHANGED <<mouseBlock, holdTimer, keyBlock, sent>>
          /\ missed' = missed \ {k}
      BY <1>2, <2>3 DEF KeyUp
    <3>2. strong' = FALSE
          /\ wire' = IF strong THEN Append(wire, [type |-> "strong_release"]) ELSE wire
      BY <3>1 DEF ReleaseStrong
    <3>3. KeptIsHeld' /\ NothingIsKept' /\ (sent = Now)'
      BY <1>0, <2>1, <2>3, <3>1, <3>2 DEF KeptIsHeld, NothingIsKept, Now, Mounted, Enabled
    <3>4. /\ wire' \in Seq(Messages) /\ TellsInput(wire', inputs', sent')
          /\ TellsStrong(wire', charging', strong')
      BY <2>1, <3>1, <3>2, ReleaseTells
    <3>5. HandTypes'
      BY <1>0, <2>1, <3>1, <3>2, <3>4 DEF HandTypes
    <3> QED
      BY <3>3, <3>4, <3>5 DEF HandInv
  <2>4. CASE Enabled /\ k = "guard"
    <3>1. /\ FlushInput /\ keyBlock' = FALSE /\ missed' = missed \ {k}
          /\ UNCHANGED <<mouseBlock, holdTimer, strong>>
      BY <1>2, <2>4 DEF KeyUp
    <3>2. KeptIsHeld' /\ NothingIsKept'
      BY <1>0, <2>1, <2>4, <3>1 DEF KeptIsHeld, NothingIsKept, Mounted, Enabled
    <3>3. {keyBlock', mouseBlock'} \subseteq BOOLEAN
      BY <1>0, <3>1 DEF HandTypes
    <3>4. /\ wire' \in Seq(Messages) /\ sent' = Now' /\ sent' \in BOOLEAN
          /\ TellsInput(wire', inputs', sent') /\ TellsStrong(wire', charging', strong')
      BY <2>1, <3>1, <3>3, FlushInputTells
    <3>5. HandTypes'
      BY <1>0, <2>1, <3>1, <3>3, <3>4 DEF HandTypes
    <3> QED
      BY <3>2, <3>4, <3>5 DEF HandInv
  <2> QED
    BY <2>2, <2>3, <2>4 DEF Keys
<1>3. ASSUME NEW b \in Buttons, MouseDown(b) PROVE HandInv'
  <2>1. /\ buttons' = buttons \cup {b}
        /\ UNCHANGED <<inputs, charging, held, latest, banner, missed>>
    BY <1>3 DEF MouseDown, serverVars, screenVars
  <2>2. CASE UNCHANGED <<inputVars, wire>>
    BY <2>1, <2>2, HandsStayPut DEF Mounted
  <2>3. CASE /\ Enabled /\ b = "left" /\ holdTimer' = TRUE
             /\ UNCHANGED <<mouseBlock, sent, wire, keyBlock, strong>>
    BY <2>1, <2>3 DEF HandInv, HandTypes, KeptIsHeld, NothingIsKept, Now, Mounted, Enabled
  <2>4. CASE /\ Enabled /\ b = "right" /\ mouseBlock' = TRUE /\ FlushInput
             /\ UNCHANGED <<holdTimer, keyBlock, strong>>
    <3>1. KeptIsHeld' /\ NothingIsKept'
      BY <1>0, <2>1, <2>4 DEF KeptIsHeld, NothingIsKept, Mounted, Enabled
    <3>2. {keyBlock', mouseBlock'} \subseteq BOOLEAN
      BY <1>0, <2>4 DEF HandTypes
    <3>3. /\ wire' \in Seq(Messages) /\ sent' = Now' /\ sent' \in BOOLEAN
          /\ TellsInput(wire', inputs', sent') /\ TellsStrong(wire', charging', strong')
      BY <2>1, <2>4, <3>2, FlushInputTells
    <3>4. HandTypes'
      BY <1>0, <2>1, <2>4, <3>2, <3>3 DEF HandTypes
    <3> QED
      BY <3>1, <3>3, <3>4 DEF HandInv
  <2> QED
    BY <1>3, <2>2, <2>3, <2>4 DEF MouseDown, Buttons
<1>4. ASSUME NEW b \in Buttons, MouseUp(b) PROVE HandInv'
  <2>1. /\ buttons' = buttons \ {b} /\ UNCHANGED keyBlock
        /\ UNCHANGED <<inputs, charging, held, latest, banner, missed>>
    BY <1>4 DEF MouseUp, serverVars, screenVars
  <2>2. CASE ~Mounted
    <3>1. UNCHANGED <<mouseBlock, sent, strong, holdTimer, wire>>
      BY <1>4, <2>2 DEF MouseUp
    <3> QED
      BY <2>1, <2>2, <3>1 DEF HandInv, HandTypes, KeptIsHeld, NothingIsKept, Now, Mounted
  <2>3. CASE Mounted /\ b = "left"
    <3>1. /\ holdTimer' = FALSE /\ UNCHANGED <<mouseBlock, sent>> /\ strong' = FALSE
          /\ wire' = IF strong THEN Append(wire, [type |-> "strong_release"]) ELSE wire
      BY <1>4, <2>3 DEF MouseUp, ReleaseStrong
    <3>2. KeptIsHeld' /\ NothingIsKept' /\ (sent = Now)'
      BY <1>0, <2>1, <2>3, <3>1 DEF KeptIsHeld, NothingIsKept, Now, Mounted
    <3>3. /\ wire' \in Seq(Messages) /\ TellsInput(wire', inputs', sent')
          /\ TellsStrong(wire', charging', strong')
      BY <2>1, <3>1, ReleaseTells
    <3>4. HandTypes'
      BY <1>0, <2>1, <3>1, <3>3 DEF HandTypes
    <3> QED
      BY <3>2, <3>3, <3>4 DEF HandInv
  <2>4. CASE Mounted /\ b = "right"
    <3>1. mouseBlock' = FALSE /\ FlushInput /\ UNCHANGED <<holdTimer, strong>>
      BY <1>4, <2>4 DEF MouseUp
    <3>2. KeptIsHeld' /\ NothingIsKept'
      BY <1>0, <2>1, <2>4, <3>1 DEF KeptIsHeld, NothingIsKept, Mounted
    <3>3. {keyBlock', mouseBlock'} \subseteq BOOLEAN
      BY <1>0, <2>1, <3>1 DEF HandTypes
    <3>4. /\ wire' \in Seq(Messages) /\ sent' = Now' /\ sent' \in BOOLEAN
          /\ TellsInput(wire', inputs', sent') /\ TellsStrong(wire', charging', strong')
      BY <2>1, <3>1, <3>3, FlushInputTells
    <3>5. HandTypes'
      BY <1>0, <2>1, <3>1, <3>3, <3>4 DEF HandTypes
    <3> QED
      BY <3>2, <3>4, <3>5 DEF HandInv
  <2> QED
    BY <2>2, <2>3, <2>4 DEF Buttons
<1>5. CASE Blur
  <2>1. ClearAll /\ UNCHANGED <<inputs, charging>>
    BY <1>5 DEF Blur, serverVars
  <2> QED
    BY <2>1, ClearAllHands
<1>6. CASE HoldTimer
  <2>1. /\ holdTimer /\ holdTimer' = FALSE /\ StartStrong
        /\ UNCHANGED <<inputs, charging, held, buttons, keyBlock, mouseBlock, sent, latest, missed>>
    BY <1>6 DEF HoldTimer, serverVars, handVars, screenVars
  <2>2. /\ strong' = TRUE /\ wire' \in Seq(Messages)
        /\ TellsInput(wire', inputs', sent') /\ TellsStrong(wire', charging', strong')
    BY <2>1, StartTells
  <2>3. KeptIsHeld' /\ NothingIsKept' /\ (sent = Now)'
    BY <1>0, <2>1, <2>2 DEF KeptIsHeld, NothingIsKept, Now, Mounted
  <2>4. HandTypes'
    BY <1>0, <2>1, <2>2 DEF HandTypes
  <2> QED
    BY <2>2, <2>3, <2>4 DEF HandInv
<1>7. CASE Snapshot
  <2>1. UNCHANGED <<inputs, charging, held, buttons>> /\ latest' = room
    BY <1>7 DEF Snapshot, serverVars
  <2>2. CASE room.phase = "waiting"
    <3>1. ClearAll
      BY <1>7, <2>2 DEF Snapshot
    <3> QED
      BY <2>1, <3>1, ClearAllHands
  <2>3. CASE room.phase # "waiting"
    <3>1. UNCHANGED <<wire, inputVars, missed>>
      BY <1>7, <2>3 DEF Snapshot
    <3> QED
      BY <2>1, <2>3, <3>1
         DEF HandInv, HandTypes, KeptIsHeld, NothingIsKept, Now, inputVars, Mounted
  <2> QED
    BY <2>2, <2>3
<1>8. CASE Receive
  <2> DEFINE m == Head(wire)
  <2>1. /\ wire # <<>> /\ wire' = Tail(wire)
        /\ UNCHANGED <<inputVars, held, buttons, latest, missed>>
    BY <1>8 DEF Receive, browserVars, handVars, inputVars
  <2>2. wire \in Seq(Messages) /\ m \in Messages /\ wire' \in Seq(Messages)
    BY <1>0, <2>1, TailFacts DEF HandTypes
  <2>3. /\ \/ m.type # "input" /\ inputs' = inputs
           \/ m.type = "input" /\ inputs' = m.now
        /\ charging' => \/ m.type \notin StrongKinds /\ charging
                        \/ m.type = "strong_start"
        /\ inputs' \in BOOLEAN /\ charging' \in BOOLEAN
    <3>0. inputs \in BOOLEAN /\ charging \in BOOLEAN
      BY <1>0 DEF HandTypes
    <3>1. CASE m.type = "input"
      <4>1. inputs' = m.now /\ UNCHANGED charging /\ m.now \in BOOLEAN
        BY <1>8, <2>2, <3>1 DEF Receive, Messages
      <4> QED
        BY <3>0, <3>1, <4>1 DEF StrongKinds
    <3>2. CASE m.type = "strong_start"
      <4>1. UNCHANGED inputs /\ charging' \in {charging, TRUE}
        BY <1>8, <3>2 DEF Receive
      <4> QED
        BY <3>0, <3>2, <4>1
    <3>3. CASE m.type = "strong_release"
      <4>1. UNCHANGED inputs /\ charging' = FALSE
        BY <1>8, <3>3 DEF Receive
      <4> QED
        BY <3>0, <3>3, <4>1
    <3>4. CASE m.type \in {"pick_card", "rematch"}
      <4>1. UNCHANGED inputs
        BY <1>8, <3>4 DEF Receive
      <4>2. m.type = "pick_card" => charging' = charging \/ charging' = FALSE
        BY <1>8 DEF Receive, NextRound
      <4>3. m.type = "rematch" => charging' = charging \/ charging' = FALSE
        BY <1>8 DEF Receive, NextRound
      <4>4. charging' = charging \/ charging' = FALSE
        BY <3>4, <4>2, <4>3
      <4>5. m.type \notin StrongKinds /\ m.type # "input"
        BY <3>4 DEF StrongKinds
      <4>6. (charging' => charging) /\ charging' \in BOOLEAN /\ inputs' \in BOOLEAN
        <5>1. CASE charging' = charging
          BY <3>0, <4>1, <5>1, Zenon
        <5>2. CASE charging' = FALSE
          BY <3>0, <4>1, <5>2
        <5> QED
          BY <4>4, <5>1, <5>2
      <4> QED
        BY <4>1, <4>5, <4>6
    <3> QED
      BY <2>2, <3>1, <3>2, <3>3, <3>4 DEF Messages
  <2>4. TellsInput(wire', inputs', sent) /\ TellsStrong(wire', charging', strong)
    <3>1. TellsInput(wire, inputs, sent) /\ TellsStrong(wire, charging, strong)
      BY DEF HandInv
    <3> QED
      BY <2>1, <2>2, <2>3, <3>1, TailTells
  <2>5. HandTypes'
    BY <1>0, <2>1, <2>2, <2>3 DEF HandTypes, inputVars
  <2> QED
    BY <1>0, <2>1, <2>4, <2>5 DEF HandInv, KeptIsHeld, NothingIsKept, Now, inputVars, Mounted
<1>9. CASE PickCard \/ \E accept \in BOOLEAN : Vote(accept)
  <2>1. /\ UNCHANGED <<inputVars, inputs, charging, held, buttons, latest, missed>>
        /\ \E m \in Messages : m.type \in {"pick_card", "rematch"} /\ wire' = Append(wire, m)
    BY <1>9, MessagesHaveTypes DEF PickCard, Vote, serverVars, handVars, inputVars
  <2>2. /\ wire' \in Seq(Messages)
        /\ TellsInput(wire', inputs, sent) /\ TellsStrong(wire', charging, strong)
    BY <1>0, <2>1, AppendFacts, AppendOther DEF HandInv, HandTypes, StrongKinds
  <2> QED
    BY <1>0, <2>1, <2>2
       DEF HandInv, HandTypes, KeptIsHeld, NothingIsKept, Now, inputVars, Mounted
<1>10. CASE RoundOverTimer \/ OthersAct
  <2>1. /\ UNCHANGED <<inputs, wire, held, buttons, inputVars, latest, missed>>
        /\ charging' = charging \/ charging' = FALSE
    BY <1>10 DEF RoundOverTimer, OthersAct, NextRound, browserVars, handVars, inputVars
  <2>2. TellsStrong(wire', charging', strong')
    BY <2>1 DEF HandInv, TellsStrong, inputVars
  <2>3. HandTypes'
    BY <1>0, <2>1 DEF HandTypes, inputVars
  <2>4. KeptIsHeld' /\ NothingIsKept' /\ (sent = Now)'
    BY <1>0, <2>1 DEF KeptIsHeld, NothingIsKept, Now, inputVars, Mounted
  <2>5. TellsInput(wire', inputs', sent')
    BY <2>1 DEF HandInv, inputVars
  <2> QED
    BY <2>2, <2>3, <2>4, <2>5 DEF HandInv
<1>11. CASE Focus \/ SampleBanner \/ SamplePick \/ SampleOver \/ RoundEnds \/ UNCHANGED vars
  BY <1>11, HandsStayPut
     DEF Focus, SampleBanner, SamplePick, SampleOver, RoundEnds, vars, serverVars,
         handVars, browserVars, inputVars, screenVars, Mounted
<1> QED
  BY <1>1, <1>2, <1>3, <1>4, <1>5, <1>6, <1>7, <1>8, <1>9, <1>10, <1>11
     DEF Next, Hands, Screen, Server

\* What is kept, what was told and what the wire still says agree.
THEOREM HandsInvariant == Spec => []HandInv
  BY HandsInit, HandsStep, PTL DEF Spec

\* When the wire is empty the server guards and charges only for hands that do,
\* or for a key that was let go while input was disabled.
THEOREM HandsAct == Spec => []NothingActsByItself
<1>1. HandInv => NothingActsByItself
  <2> SUFFICES ASSUME HandInv, wire = <<>> PROVE
        /\ inputs => Guarding \/ "guard" \in missed
        /\ charging => Charging \/ "strong" \in missed
        /\ strong => Charging \/ "strong" \in missed
    BY DEF NothingActsByItself
  <2>1. NoneOf(wire, InputKinds) /\ NoneOf(wire, StrongKinds)
    BY DEF NoneOf
  <2>2. inputs = Now /\ (charging => strong)
    BY <2>1 DEF HandInv, TellsInput, TellsStrong
  <2> QED
    BY <2>2 DEF HandInv, KeptIsHeld, Now, Guarding, Charging
<1> QED
  BY <1>1, HandsInvariant, PTL

(***************************************************************************)
(* The overlays                                                            *)
(***************************************************************************)

\* After it has sampled the end of the round an overlay is empty, and the last
\* snapshot is the room as it is.
Forgotten ==
  room.phase = "round_over" =>
    /\ "pick" \in seen => pick = NoWindow /\ latest = room
    /\ "over" \in seen => over = NoEnd /\ latest = room

\* From there on only the new window can be shown, and picked from.
NewWindow ==
  room.phase = "picking" =>
    latest.round = room.round /\ {pick.shown, pick.picked} \subseteq {0, room.round}
NewEnd ==
  room.phase = "finished" =>
    latest.round = room.round /\ {over.shown, over.voted} \subseteq {0, room.round}

ScreenInv == ScreenTypes /\ Forgotten /\ NewWindow /\ NewEnd

\* What the hands do, and what the screen does without sampling.
LEMMA ScreenStaysPut ==
  ASSUME ScreenInv, UNCHANGED <<room, latest, pick, over>>, seen' = seen
  PROVE  ScreenInv'
  BY DEF ScreenInv, ScreenTypes, Forgotten, NewWindow, NewEnd

LEMMA ScreenInit == Init => ScreenInv
  BY DEF Init, ScreenInv, ScreenTypes, Forgotten, NewWindow, NewEnd, Rooms, Phases,
         NoWindow, NoEnd

\* The phases of play and of the lobby ask nothing of the overlays.
LEMMA PlainRoom ==
  ASSUME ScreenInv, UNCHANGED <<latest, pick, over>>,
         room' \in Rooms, room'.phase \in {"playing", "waiting"}
  PROVE  ScreenInv'
  BY DEF ScreenInv, ScreenTypes, Forgotten, NewWindow, NewEnd

LEMMA NextRoundIsPlain ==
  ASSUME room \in Rooms, NextRound
  PROVE  room' \in Rooms /\ room'.phase = "playing"
  BY DEF NextRound, Rooms, Phases

LEMMA LobbyIsPlain ==
  ASSUME NEW r \in Rooms
  PROVE  /\ [r EXCEPT !.phase = "waiting"] \in Rooms
         /\ [r EXCEPT !.phase = "waiting"].phase = "waiting"
         /\ [r EXCEPT !.phase = "waiting", !.mine = FALSE] \in Rooms
         /\ [r EXCEPT !.phase = "waiting", !.mine = FALSE].phase = "waiting"
<1> DEFINE s == [r EXCEPT !.phase = "waiting"]
<1>1. s \in Rooms /\ s.phase = "waiting"
  BY DEF Rooms, Phases
<1>2. [r EXCEPT !.phase = "waiting", !.mine = FALSE] = [s EXCEPT !.mine = FALSE]
  BY Zenon
<1>3. [s EXCEPT !.mine = FALSE] \in Rooms /\ [s EXCEPT !.mine = FALSE].phase = "waiting"
  <2> HIDE DEF s
  <2> QED
    BY <1>1 DEF Rooms
<1> QED
  BY <1>1, <1>2, <1>3

LEMMA ScreenStep == ScreenInv /\ wire \in Seq(Messages) /\ [Next]_vars => ScreenInv'
<1> SUFFICES ASSUME ScreenInv, wire \in Seq(Messages), [Next]_vars PROVE ScreenInv'
  OBVIOUS
<1> USE DEF ScreenInv, ScreenTypes, Forgotten, NewWindow, NewEnd
<1>1. CASE Hands \/ UNCHANGED vars
  BY <1>1, ScreenStaysPut
     DEF Hands, KeyDown, KeyUp, MouseDown, MouseUp, Blur, Focus, HoldTimer,
         vars, serverVars, screenVars
<1>2. CASE Snapshot
  <2>1. UNCHANGED <<room, seen>> /\ latest' = room
    BY <1>2 DEF Snapshot, serverVars
  <2>2. CASE room.phase = "waiting"
    <3>1. pick' = NoWindow /\ over' = NoEnd
      BY <1>2, <2>2 DEF Snapshot
    <3> QED
      BY <2>1, <2>2, <3>1 DEF NoWindow, NoEnd
  <2>3. CASE room.phase # "waiting"
    <3>1. UNCHANGED <<pick, over>>
      BY <1>2, <2>3 DEF Snapshot
    <3> QED
      BY <2>1, <3>1
  <2> QED
    BY <2>2, <2>3
<1>3. CASE SampleBanner
  BY <1>3 DEF SampleBanner, Saw, serverVars
<1>4. CASE SamplePick
  BY <1>4 DEF SamplePick, Saw, serverVars, NoWindow, Rooms
<1>5. CASE SampleOver
  BY <1>5 DEF SampleOver, Saw, serverVars, NoEnd, Rooms
<1>6. CASE PickCard
  <2>1. /\ pick.shown # 0 /\ pick' = [pick EXCEPT !.picked = pick.shown]
        /\ UNCHANGED <<room, latest, over, seen>>
    BY <1>6 DEF PickCard, CardsAreOpen, serverVars
  <2> QED
    BY <2>1 DEF NoWindow
<1>7. ASSUME NEW accept \in BOOLEAN, Vote(accept) PROVE ScreenInv'
  BY <1>7 DEF Vote, VoteIsOpen, serverVars, NoEnd
<1>8. CASE RoundEnds
  BY <1>8 DEF RoundEnds, browserVars, Rooms, Phases
<1>9. CASE RoundOverTimer
  <2>1. /\ latest = room /\ pick = NoWindow /\ over = NoEnd
        /\ UNCHANGED <<latest, pick, over>>
    BY <1>9 DEF RoundOverTimer, Overlays, browserVars
  <2>2. CASE NextRound
    BY <2>1, <2>2, NextRoundIsPlain, PlainRoom
  <2>3. ASSUME NEW mine \in BOOLEAN, room' = [room EXCEPT !.phase = "picking", !.mine = mine]
        PROVE  ScreenInv'
    <3> DEFINE s == [room EXCEPT !.phase = "picking"]
    <3>1. s \in Rooms /\ s.phase = "picking" /\ s.round = room.round
      BY DEF Rooms, Phases
    <3>2. room' = [s EXCEPT !.mine = mine]
      BY <2>3, Zenon
    <3>3. room' \in Rooms /\ room'.phase = "picking" /\ room'.round = room.round
      <4> HIDE DEF s
      <4> QED
        BY <3>1, <3>2 DEF Rooms
    <3> QED
      BY <2>1, <3>3 DEF NoWindow, NoEnd
  <2>4. CASE room' = [room EXCEPT !.phase = "finished"]
    BY <2>1, <2>4 DEF NoWindow, NoEnd, Rooms, Phases
  <2> QED
    BY <1>9, <2>2, <2>3, <2>4 DEF RoundOverTimer
<1>10. CASE OthersAct
  <2>1. UNCHANGED <<latest, pick, over>>
    BY <1>10 DEF OthersAct, browserVars
  <2>2. NextRound \/ room' = [room EXCEPT !.phase = "waiting", !.mine = FALSE]
    BY <1>10 DEF OthersAct
  <2> QED
    BY <2>1, <2>2, NextRoundIsPlain, LobbyIsPlain, PlainRoom
<1>11. CASE Receive
  <2>1. UNCHANGED <<latest, pick, over, seen>>
    BY <1>11 DEF Receive, browserVars
  <2>2. NextRound \/ UNCHANGED room \/ room' = [room EXCEPT !.phase = "waiting"]
    <3>1. Head(wire) \in Messages
      BY <1>11, TailFacts DEF Receive
    <3>2. CASE Head(wire).type \in {"input", "strong_start", "strong_release"}
      BY <1>11, <3>2 DEF Receive
    <3>3. CASE Head(wire).type = "pick_card"
      BY <1>11, <3>3 DEF Receive
    <3>4. CASE Head(wire).type = "rematch"
      BY <1>11, <3>4 DEF Receive
    <3> QED
      BY <3>1, <3>2, <3>3, <3>4 DEF Messages
  <2> QED
    BY <2>1, <2>2, NextRoundIsPlain, LobbyIsPlain, PlainRoom, ScreenStaysPut
<1> QED
  BY <1>1, <1>2, <1>3, <1>4, <1>5, <1>6, <1>7, <1>8, <1>9, <1>10, <1>11
     DEF Next, Screen, Server

\* An overlay never takes the window or the end of one round for that of another.
THEOREM ScreenInvariant == Spec => []ScreenInv
<1>1. HandInv => wire \in Seq(Messages)
  BY DEF HandInv, HandTypes
<1> QED
  BY <1>1, ScreenInit, ScreenStep, HandsInvariant, PTL DEF Spec

\* Whoever is to pick a card can: no pick of an earlier window locks his.
THEOREM PickerCanPick == Spec => []PickerIsNotLocked
<1>1. ScreenInv => PickerIsNotLocked
  BY DEF ScreenInv, NewWindow, PickerIsNotLocked
<1> QED
  BY <1>1, ScreenInvariant, PTL

\* The vote that is shown as cast is one for the match that has just ended.
THEOREM VotesAreFresh == Spec => []VoteIsThisMatchs
<1>1. ScreenInv => VoteIsThisMatchs
  BY DEF ScreenInv, NewEnd, VoteIsThisMatchs
<1> QED
  BY <1>1, ScreenInvariant, PTL
=============================================================================
