------------------------- MODULE ServeStaticProofs -------------------------
(***************************************************************************)
(* Proofs about ServeStatic, for any callers and any number of checks.     *)
(***************************************************************************)
EXTENDS ServeStatic, TLAPS

ServeInv == ServeTypeOK /\ MoveIsFinal /\ HealthzNamesTheTarget /\ RefusalsAreReadable

\* A caller's record may be replaced by another of the type.
LEMMA OneCaller ==
  ASSUME ServeTypeOK, NEW c \in Clients, NEW r \in ConnTypes,
         conn' = [conn EXCEPT ![c] = r]
  PROVE  conn' \in [Clients -> ConnTypes]
BY DEF ServeTypeOK

\* An answer for this caller keeps the promise if it is a readable one, or if
\* what was asked for is none of the game server's.
Readable(path, answer) ==
  IsApiPath(path) =>
    /\ answer.from \in Servers \cup {"proxy"}
    /\ answer.status >= 400 => answer.json

LEMMA AnswersAreReadable ==
  ASSUME ServeTypeOK, RefusalsAreReadable, NEW c \in Clients, NEW path \in Paths,
         NEW answer \in AnswerTypes, Answered(c, path, answer), Readable(path, answer)
  PROVE  conn' \in [Clients -> ConnTypes] /\ RefusalsAreReadable'
<1> DEFINE r == [conn[c] EXCEPT !.at = "answered", !.path = path, !.answer = answer]
<1>1. conn' = [conn EXCEPT ![c] = r]
  BY DEF Answered, ServeTypeOK, ConnTypes
<1>2. r \in ConnTypes /\ r.at = "answered" /\ r.path = path /\ r.answer = answer
  BY DEF ServeTypeOK, ConnTypes
<1> HIDE DEF r
<1>3. conn' \in [Clients -> ConnTypes]
  BY <1>1, <1>2, OneCaller
<1>4. \A d \in Clients : conn'[d] = IF d = c THEN r ELSE conn[d]
  BY <1>1 DEF ServeTypeOK
<1>5. RefusalsAreReadable'
  BY <1>2, <1>4 DEF RefusalsAreReadable, Readable, IsApiPath
<1> QED BY <1>3, <1>5

\* What is not an answer promises nothing.
LEMMA OthersAreReadable ==
  ASSUME ServeTypeOK, RefusalsAreReadable, NEW c \in Clients, NEW r \in ConnTypes,
         conn' = [conn EXCEPT ![c] = r], r.at # "answered"
  PROVE  conn' \in [Clients -> ConnTypes] /\ RefusalsAreReadable'
<1>1. conn' \in [Clients -> ConnTypes]
  BY OneCaller
<1>2. \A d \in Clients : conn'[d] = IF d = c THEN r ELSE conn[d]
  BY DEF ServeTypeOK
<1>3. RefusalsAreReadable'
  BY <1>2 DEF RefusalsAreReadable, IsApiPath
<1> QED BY <1>1, <1>3

\* A caller that asks for nothing, and a new request, which is remembered with
\* where it goes.
LEMMA IdleIsTyped == Idle \in ConnTypes /\ Idle.at = "idle"
<1>1. NoAnswer \in AnswerTypes
  BY DEF NoAnswer, Answer, AnswerTypes
<1> QED BY <1>1 DEF Idle, ConnTypes, Paths, Servers

LEMMA ForwardedIsTyped ==
  ASSUME NEW at \in {"forwarded", "upgrading"}, NEW path \in Paths, NEW to \in Servers
  PROVE  LET r == [Idle EXCEPT !.at = at, !.path = path, !.to = to]
         IN  r \in ConnTypes /\ r.at = at
BY IdleIsTyped DEF ConnTypes

\* The callers' steps leave the attempt alone, and the attempt the callers.
LEMMA AttemptRests ==
  ASSUME ServeInv, conn' \in [Clients -> ConnTypes], RefusalsAreReadable',
         asks' \in 0 .. MaxAsks, UNCHANGED <<target, embedState, child, poll>>
  PROVE  ServeInv'
<1>1. ServeTypeOK'
  BY DEF ServeInv, ServeTypeOK
<1>2. MoveIsFinal' /\ HealthzNamesTheTarget'
  BY DEF ServeInv, MoveIsFinal, HealthzNamesTheTarget
<1> QED BY <1>1, <1>2 DEF ServeInv

\* Each step of startEmbeddedApi and of the child keeps the reports agreeing:
\* only a child that never listened fails to start, and only the loop that is
\* still running gives up.
LEMMA AttemptPreserves ==
  ASSUME ServeInv, Embed
  PROVE  ServeInv'
<1> USE ServeAssumption
<1>0. ServeTypeOK /\ MoveIsFinal /\ HealthzNamesTheTarget /\ RefusalsAreReadable
  BY DEF ServeInv
<1>k. ASSUME target' \in Servers, ServeTypeOK', MoveIsFinal', HealthzNamesTheTarget',
             UNCHANGED conn
      PROVE  ServeInv'
  BY <1>0, <1>k DEF ServeInv, RefusalsAreReadable, IsApiPath
<1>1. CASE EmbedSkipped
  <2>1. ServeTypeOK'
    BY <1>0, <1>1 DEF EmbedSkipped, ServeTypeOK
  <2>2. MoveIsFinal' /\ HealthzNamesTheTarget'
    BY <1>0, <1>1 DEF EmbedSkipped, ServeTypeOK, MoveIsFinal, HealthzNamesTheTarget
  <2> QED BY <2>1, <2>2, <1>k, <1>1 DEF EmbedSkipped, ServeTypeOK
<1>2. CASE Spawn
  <2>1. ServeTypeOK'
    BY <1>0, <1>2 DEF Spawn, ServeTypeOK
  <2>2. MoveIsFinal' /\ HealthzNamesTheTarget'
    BY <1>0, <1>2 DEF Spawn, ServeTypeOK, MoveIsFinal, HealthzNamesTheTarget
  <2> QED BY <2>1, <2>2, <1>k, <1>2 DEF Spawn, ServeTypeOK
<1>3. CASE SpawnFails
  <2>1. ServeTypeOK'
    BY <1>0, <1>3 DEF SpawnFails, ServeTypeOK, Gone
  <2>2. MoveIsFinal' /\ HealthzNamesTheTarget'
    BY <1>0, <1>3 DEF SpawnFails, ServeTypeOK, MoveIsFinal, HealthzNamesTheTarget, Servers
  <2> QED BY <2>1, <2>2, <1>k, <1>3 DEF SpawnFails, ServeTypeOK
<1>4. CASE ChildListens
  <2>1. ServeTypeOK'
    BY <1>0, <1>4 DEF ChildListens, ServeTypeOK
  <2>2. MoveIsFinal' /\ HealthzNamesTheTarget'
    BY <1>0, <1>4 DEF ChildListens, ServeTypeOK, MoveIsFinal, HealthzNamesTheTarget
  <2> QED BY <2>1, <2>2, <1>k, <1>4 DEF ChildListens, ServeTypeOK
<1>5. CASE ChildExits
  <2>1. ServeTypeOK'
    BY <1>0, <1>5 DEF ChildExits, Reported, ServeTypeOK, Gone
  <2>2. MoveIsFinal' /\ HealthzNamesTheTarget'
    BY <1>0, <1>5 DEF ChildExits, Reported, ServeTypeOK, MoveIsFinal, HealthzNamesTheTarget
  <2> QED BY <2>1, <2>2, <1>k, <1>5 DEF ChildExits, ServeTypeOK
<1>6. CASE HealthSent
  <2>1. ServeTypeOK'
    BY <1>0, <1>6 DEF HealthSent, ServeTypeOK
  <2>2. MoveIsFinal' /\ HealthzNamesTheTarget'
    BY <1>0, <1>6 DEF HealthSent, ServeTypeOK, MoveIsFinal, HealthzNamesTheTarget
  <2> QED BY <2>1, <2>2, <1>k, <1>6 DEF HealthSent, ServeTypeOK
<1>7. CASE HealthOk
  <2>1. ServeTypeOK'
    BY <1>0, <1>7 DEF HealthOk, ServeTypeOK, Servers
  <2>2. MoveIsFinal' /\ HealthzNamesTheTarget'
    BY <1>0, <1>7 DEF HealthOk, ServeTypeOK, MoveIsFinal, HealthzNamesTheTarget
  <2> QED BY <2>1, <2>2, <1>k, <1>7 DEF HealthOk, ServeTypeOK
<1>8. CASE Wake
  <2>1. ServeTypeOK'
    BY <1>0, <1>8 DEF Wake, GiveUp, ServeTypeOK
  <2>2. MoveIsFinal' /\ HealthzNamesTheTarget'
    BY <1>0, <1>8 DEF Wake, GiveUp, ServeTypeOK, MoveIsFinal, HealthzNamesTheTarget, Servers
  <2> QED BY <2>1, <2>2, <1>k, <1>8 DEF Wake, ServeTypeOK
<1>9. CASE poll.at = "asking" /\ NextPoll
  <2>0. target # "embedded" /\ embedState # "ok" /\ poll.n \in 0 .. MaxPolls - 1
    BY <1>0, <1>9 DEF MoveIsFinal, HealthzNamesTheTarget, ServeTypeOK
  <2>1. UNCHANGED <<target, child, conn, asks>>
    BY <1>9 DEF NextPoll
  <2>2. embedState' \in {embedState, "timeout"} /\ embedState' # "ok"
    BY <2>0, <1>9 DEF NextPoll, GiveUp
  <2>3. /\ poll' \in [at : {"begin", "sleep", "asking", "over"},
                     n : 0 .. MaxPolls - 1, ok : BOOLEAN]
        /\ poll'.at # "begin" /\ poll'.ok = FALSE
    <3>1. CASE poll.n + 1 = MaxPolls
      BY <1>0, <1>9, <3>1 DEF NextPoll, GiveUp, ServeTypeOK
    <3>2. CASE poll.n + 1 # MaxPolls
      <4>1. poll.n + 1 \in 0 .. MaxPolls - 1
        BY <2>0, <3>2
      <4>2. poll' = [at |-> "sleep", n |-> poll.n + 1, ok |-> FALSE]
        BY <1>9, <3>2 DEF NextPoll
      <4> QED BY <4>1, <4>2
    <3> QED BY <3>1, <3>2
  <2>4. ServeTypeOK'
    BY <1>0, <2>1, <2>2, <2>3 DEF ServeTypeOK
  <2>5. MoveIsFinal' /\ HealthzNamesTheTarget'
    BY <2>0, <2>1, <2>2, <2>3 DEF MoveIsFinal, HealthzNamesTheTarget
  <2> QED BY <2>1, <2>4, <2>5, <1>k, <1>0 DEF ServeTypeOK
<1> QED
  BY <1>1, <1>2, <1>3, <1>4, <1>5, <1>6, <1>7, <1>8, <1>9
     DEF Embed, Poll, HealthRefused, HealthTimesOut

\* A new request: forwarded to a server of the two, or answered by the static
\* part, which is never asked for what belongs to the game server.
LEMMA RequestPreserves ==
  ASSUME ServeInv, NEW c \in Clients, NEW path \in Paths, NEW method \in Methods,
         Request(c, path, method)
  PROVE  ServeInv'
<1> USE ServeAssumption
<1>0. ServeTypeOK /\ RefusalsAreReadable
  BY DEF ServeInv
<1>1. asks' \in 0 .. MaxAsks /\ UNCHANGED <<target, embedState, child, poll>>
  BY <1>0 DEF Request, Ask, ServeTypeOK, embedVars
<1>2. CASE Forwarded(c, path, "forwarded")
  <2> DEFINE r == [Idle EXCEPT !.at = "forwarded", !.path = path, !.to = target]
  <2>1. r \in ConnTypes /\ r.at # "answered"
    BY <1>0, ForwardedIsTyped DEF ServeTypeOK
  <2>2. conn' = [conn EXCEPT ![c] = r]
    BY <1>2 DEF Forwarded
  <2> HIDE DEF r
  <2> QED BY <2>1, <2>2, <1>0, <1>1, OthersAreReadable, AttemptRests
<1>3. ASSUME NEW answer \in AnswerTypes, ~IsApiPath(path), Answered(c, path, answer)
      PROVE  ServeInv'
  <2>1. Readable(path, answer)
    BY <1>3 DEF Readable
  <2> QED BY <2>1, <1>3, <1>0, <1>1, AnswersAreReadable, AttemptRests
<1>4. CASE ~IsApiPath(path) /\ Answered(c, path, Answer(405, FALSE, "static"))
  BY <1>3, <1>4 DEF Answer, AnswerTypes
<1>5. CASE path = "healthz" /\ Answered(c, path, Answer(200, TRUE, "healthz"))
  BY <1>3, <1>5 DEF Answer, AnswerTypes, IsApiPath
<1>6. CASE path \in {"file", "unknown"} /\ Answered(c, path, Answer(200, FALSE, ResolveFile(path)))
  BY <1>3, <1>6 DEF Answer, AnswerTypes, IsApiPath, ResolveFile
<1> QED BY <1>2, <1>4, <1>5, <1>6 DEF Request

\* The proxied answers: what is passed on is the server's and readable, the
\* rest is the proxy's own 502.
LEMMA RelayPreserves ==
  ASSUME ServeInv, NEW c \in Clients, UpstreamReplies(c) \/ UpstreamFails(c)
  PROVE  ServeInv'
<1>0. ServeTypeOK /\ RefusalsAreReadable /\ conn[c] \in ConnTypes
  BY DEF ServeInv, ServeTypeOK
<1>1. asks' \in 0 .. MaxAsks /\ UNCHANGED <<target, embedState, child, poll>>
  BY <1>0 DEF UpstreamReplies, UpstreamFails, ServeTypeOK, embedVars
<1>2. ASSUME NEW answer \in AnswerTypes, Answered(c, conn[c].path, answer),
             Readable(conn[c].path, answer)
      PROVE  ServeInv'
  <2>1. conn[c].path \in Paths
    BY <1>0 DEF ConnTypes
  <2> QED BY <2>1, <1>2, <1>0, <1>1, AnswersAreReadable, AttemptRests
<1>3. Unreachable \in AnswerTypes /\ Readable(conn[c].path, Unreachable)
  BY DEF Unreachable, Answer, AnswerTypes, Readable
<1>4. CASE UpstreamFails(c)
  BY <1>2, <1>3, <1>4 DEF UpstreamFails
<1>5. CASE UpstreamReplies(c)
  <2>1. PICK reply \in Replies : Relay(c, reply[1], reply[2])
    BY <1>5 DEF UpstreamReplies
  <2> DEFINE answer == Answer(reply[1], reply[2], conn[c].to)
  <2>2. CASE reply[1] >= 400 /\ ~reply[2]
    BY <2>1, <2>2, <1>2, <1>3 DEF Relay
  <2>3. CASE ~(reply[1] >= 400 /\ ~reply[2])
    <3>1. answer \in AnswerTypes
      <4>1. reply[1] \in {200, 404, 500} /\ reply[2] \in BOOLEAN
        <5>1. CASE reply = <<200, TRUE>>
          BY <5>1
        <5>2. CASE reply = <<404, TRUE>>
          BY <5>2
        <5>3. CASE reply = <<404, FALSE>>
          BY <5>3
        <5>4. CASE reply = <<500, FALSE>>
          BY <5>4
        <5> QED BY <5>1, <5>2, <5>3, <5>4 DEF Replies
      <4>2. conn[c].to \in Servers
        BY <1>0 DEF ConnTypes
      <4> QED BY <4>1, <4>2 DEF Answer, AnswerTypes
    <3>2. Readable(conn[c].path, answer)
      BY <1>0, <2>3 DEF Answer, Readable, ConnTypes
    <3>3. Answered(c, conn[c].path, answer)
      BY <2>1, <2>3 DEF Relay
    <3> QED BY <3>1, <3>2, <3>3, <1>2
  <2> QED BY <2>2, <2>3
<1> QED BY <1>4, <1>5

\* The upgrade side and the end of a call: nothing of it is an answer.
LEMMA TunnelPreserves ==
  ASSUME ServeInv, NEW c \in Clients,
         \/ \E path \in Paths : Upgrade(c, path)
         \/ UpgradeAccepted(c) \/ UpgradeRefused(c)
         \/ \E side \in Sides : EndArrives(c, side) \/ PipeEnds(c, side)
         \/ TunnelBreaks(c) \/ CallerIsDone(c)
  PROVE  ServeInv'
<1> USE ServeAssumption
<1>0. ServeTypeOK /\ RefusalsAreReadable /\ conn[c] \in ConnTypes /\ target \in Servers
  BY DEF ServeInv, ServeTypeOK
<1>1. ASSUME NEW r \in ConnTypes, r.at # "answered", conn' = [conn EXCEPT ![c] = r],
             asks' \in 0 .. MaxAsks, UNCHANGED <<target, embedState, child, poll>>
      PROVE  ServeInv'
  BY <1>0, <1>1, OthersAreReadable, AttemptRests
<1>2. ASSUME NEW path \in Paths, Upgrade(c, path) PROVE ServeInv'
  <2>1. asks' \in 0 .. MaxAsks /\ UNCHANGED <<target, embedState, child, poll>>
    BY <1>0, <1>2 DEF Upgrade, Ask, ServeTypeOK, embedVars
  <2>2. CASE IsApiPath(path)
    <3>1. conn' = [conn EXCEPT ![c] = [Idle EXCEPT !.at = "upgrading", !.path = path, !.to = target]]
      BY <1>2, <2>2 DEF Upgrade, Forwarded
    <3>2. [Idle EXCEPT !.at = "upgrading", !.path = path, !.to = target] \in ConnTypes
      BY <1>0, ForwardedIsTyped
    <3>3. [Idle EXCEPT !.at = "upgrading", !.path = path, !.to = target].at = "upgrading"
      BY <1>0, ForwardedIsTyped
    <3> QED BY <3>1, <3>2, <3>3, <2>1, <1>1
  <2>3. CASE ~IsApiPath(path)
    <3>1. conn' = [conn EXCEPT ![c] = [conn[c] EXCEPT !.at = "dropped", !.path = path]]
      BY <1>0, <1>2, <2>3 DEF Upgrade, ServeTypeOK
    <3>2. [conn[c] EXCEPT !.at = "dropped", !.path = path] \in ConnTypes
      BY <1>0 DEF ConnTypes
    <3>3. [conn[c] EXCEPT !.at = "dropped", !.path = path].at = "dropped"
      BY <1>0 DEF ConnTypes
    <3> QED BY <3>1, <3>2, <3>3, <2>1, <1>1
  <2> QED BY <2>2, <2>3
<1>3. ASSUME Dropped(c), UNCHANGED <<target, embedVars, asks>> PROVE ServeInv'
  <2>1. [conn[c] EXCEPT !.at = "dropped"] \in ConnTypes
    BY <1>0 DEF ConnTypes
  <2>2. [conn[c] EXCEPT !.at = "dropped"].at = "dropped"
    BY <1>0 DEF ConnTypes
  <2>3. conn' = [conn EXCEPT ![c] = [conn[c] EXCEPT !.at = "dropped"]]
    BY <1>0, <1>3 DEF Dropped, ServeTypeOK
  <2>4. asks' \in 0 .. MaxAsks /\ UNCHANGED <<target, embedState, child, poll>>
    BY <1>0, <1>3 DEF ServeTypeOK, embedVars
  <2> QED BY <2>1, <2>2, <2>3, <2>4, <1>1
<1>4. CASE UpgradeAccepted(c)
  <2>1. [conn[c] EXCEPT !.at = "tunnel"] \in ConnTypes
    BY <1>0 DEF ConnTypes
  <2>2. [conn[c] EXCEPT !.at = "tunnel"].at = "tunnel"
    BY <1>0 DEF ConnTypes
  <2>3. conn' = [conn EXCEPT ![c] = [conn[c] EXCEPT !.at = "tunnel"]]
    BY <1>0, <1>4 DEF UpgradeAccepted, ServeTypeOK
  <2>4. asks' \in 0 .. MaxAsks /\ UNCHANGED <<target, embedState, child, poll>>
    BY <1>0, <1>4 DEF UpgradeAccepted, ServeTypeOK, embedVars
  <2> QED BY <2>1, <2>2, <2>3, <2>4, <1>1
<1>5. ASSUME NEW side \in Sides, EndArrives(c, side) PROVE ServeInv'
  <2> DEFINE r == [conn[c] EXCEPT !.ended = @ \cup {side}]
  <2>1. r \in ConnTypes /\ r.at # "answered"
    BY <1>0, <1>5 DEF ConnTypes, EndArrives
  <2>2. conn' = [conn EXCEPT ![c] = r]
    BY <1>0, <1>5 DEF EndArrives, ServeTypeOK
  <2>3. asks' \in 0 .. MaxAsks /\ UNCHANGED <<target, embedState, child, poll>>
    BY <1>0, <1>5 DEF EndArrives, ServeTypeOK, embedVars
  <2> HIDE DEF r
  <2> QED BY <2>1, <2>2, <2>3, <1>1
<1>6. ASSUME NEW side \in Sides, PipeEnds(c, side) PROVE ServeInv'
  <2> DEFINE r == [conn[c] EXCEPT !.told = @ \cup {Other(side)},
                                  !.at = IF side \in conn[c].told THEN "dropped" ELSE @]
  <2>1. r \in ConnTypes /\ r.at # "answered"
    BY <1>0, <1>6 DEF ConnTypes, PipeEnds, Other, Sides
  <2>2. conn' = [conn EXCEPT ![c] = r]
    BY <1>0, <1>6 DEF PipeEnds, ServeTypeOK
  <2>3. asks' \in 0 .. MaxAsks /\ UNCHANGED <<target, embedState, child, poll>>
    BY <1>0, <1>6 DEF PipeEnds, ServeTypeOK, embedVars
  <2> HIDE DEF r
  <2> QED BY <2>1, <2>2, <2>3, <1>1
<1>7. CASE CallerIsDone(c)
  <2>1. conn' = [conn EXCEPT ![c] = Idle] /\ asks' \in 0 .. MaxAsks
        /\ UNCHANGED <<target, embedState, child, poll>>
    BY <1>0, <1>7 DEF CallerIsDone, ServeTypeOK, embedVars
  <2> QED BY <2>1, IdleIsTyped, <1>1
<1> QED
  BY <1>2, <1>3, <1>4, <1>5, <1>6, <1>7 DEF UpgradeRefused, TunnelBreaks

\* The four invariants together are inductive.
THEOREM ServeInvariant == Spec => []ServeInv
<1> USE ServeAssumption
<1>1. Init => ServeInv
  <2> SUFFICES ASSUME Init PROVE ServeInv
    OBVIOUS
  <2>1. Idle \in ConnTypes /\ Idle.at = "idle"
    BY IdleIsTyped
  <2>2. ServeTypeOK
    BY <2>1 DEF Init, ServeTypeOK, Servers
  <2>3. MoveIsFinal /\ HealthzNamesTheTarget
    BY DEF Init, MoveIsFinal, HealthzNamesTheTarget
  <2>4. RefusalsAreReadable
    BY <2>1 DEF Init, RefusalsAreReadable
  <2> QED BY <2>2, <2>3, <2>4 DEF ServeInv
<1>2. ServeInv /\ [Next]_vars => ServeInv'
  <2> SUFFICES ASSUME ServeInv, [Next]_vars PROVE ServeInv'
    OBVIOUS
  <2>1. CASE Embed
    BY <2>1, AttemptPreserves
  <2>2. ASSUME NEW c \in Clients, Call(c) PROVE ServeInv'
    BY <2>2, RequestPreserves, RelayPreserves, TunnelPreserves DEF Call
  <2>3. CASE UNCHANGED vars
    <3>1. ServeTypeOK'
      BY <2>3 DEF ServeInv, ServeTypeOK, vars, embedVars
    <3>2. MoveIsFinal' /\ HealthzNamesTheTarget'
      BY <2>3 DEF ServeInv, MoveIsFinal, HealthzNamesTheTarget, vars, embedVars
    <3>3. RefusalsAreReadable'
      BY <2>3 DEF ServeInv, RefusalsAreReadable, IsApiPath, vars
    <3> QED BY <3>1, <3>2, <3>3 DEF ServeInv
  <2> QED BY <2>1, <2>2, <2>3 DEF Next
<1> QED BY <1>1, <1>2, PTL DEF Spec

\* Every error of the game server's paths is one the client can show.
THEOREM ErrorsAreReadable == Spec => []RefusalsAreReadable
BY ServeInvariant, PTL DEF ServeInv

\* /healthz never says ok of a server that requests do not go to, nor sends
\* them to the child without saying ok.
THEOREM HealthzIsConsistent == Spec => []HealthzNamesTheTarget
BY ServeInvariant, PTL DEF ServeInv
=============================================================================
