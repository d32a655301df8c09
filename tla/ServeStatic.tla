---------------------------- MODULE ServeStatic ----------------------------
(***************************************************************************)
(* scripts/serve-static.mjs: one Node process that serves the built        *)
(* client, forwards /api and /ws to a game server, and tries to run that   *)
(* server as its own child.  It starts with the external server as its     *)
(* target and moves to the child when the child first answers a health     *)
(* check.  The child may fail to start, be slow, exit or be killed at any  *)
(* moment; requests and sockets are in flight all the while.               *)
(*                                                                         *)
(* A response is its status, its content type and who made it; the bodies  *)
(* that pass through pipe() are left out, and of a tunnel only the ends    *)
(* that were closed and passed on are kept.                                *)
(***************************************************************************)
EXTENDS Integers, FiniteSets

CONSTANTS Clients,   \* the callers: each has one request or socket at a time
          MaxPolls,  \* health checks before startEmbeddedApi gives up (40)
          MaxAsks    \* bound: requests the callers make in all

ASSUME ServeAssumption == /\ MaxPolls \in Nat \ {0}
                          /\ MaxAsks \in Nat

VARIABLES
  target,      \* where the proxy forwards: the external server or the child
  embedState,  \* what /healthz reports of the attempt
  child,       \* the child process; killed by a signal it has no exitCode
  poll,        \* the loop of startEmbeddedApi: where it waits, checks made,
               \* and whether a 200 is on its way back
  conn,        \* each caller's request, from arrival to the end of it
  asks         \* requests made so far

embedVars == <<embedState, child, poll>>
vars == <<target, embedVars, conn, asks>>

Servers == {"external", "embedded"}
Paths == {"api", "ws", "healthz", "file", "unknown"}
Methods == {"GET", "HEAD", "POST"}
Sides == {"client", "server"}
Other(side) == IF side = "client" THEN "server" ELSE "client"
Gone == {"exited", "killed", "failed"}

Answer(status, json, from) == [status |-> status, json |-> json, from |-> from]
NoAnswer == Answer(0, FALSE, "nobody")
Idle == [at |-> "idle", path |-> "api", to |-> "external",
         answer |-> NoAnswer, ended |-> {}, told |-> {}]

Init ==
  /\ target = "external" /\ embedState = "pending" /\ child = "none"
  /\ poll = [at |-> "begin", n |-> 0, ok |-> FALSE]
  /\ conn = [c \in Clients |-> Idle]
  /\ asks = 0

(***************************************************************************)
(* startEmbeddedApi.                                                       *)
(***************************************************************************)

\* EMBED_API=0, no python, no apps/api: the three early returns.
EmbedSkipped ==
  /\ poll.at = "begin"
  /\ embedState' \in {"disabled", "no-python", "no-source"}
  /\ poll' = [poll EXCEPT !.at = "over"]
  /\ UNCHANGED <<target, child, conn, asks>>

Spawn ==
  /\ poll.at = "begin"
  /\ child' = "starting"
  /\ poll' = [poll EXCEPT !.at = "sleep"]
  /\ UNCHANGED <<target, embedState, conn, asks>>

\* The child's "error" event.  Node has set a negative exitCode by then.
SpawnFails ==
  /\ child = "starting"
  /\ child' = "failed" /\ embedState' = "spawn-failed"
  /\ UNCHANGED <<target, poll, conn, asks>>

ChildListens ==
  /\ child = "starting"
  /\ child' = "serving"
  /\ UNCHANGED <<target, embedState, poll, conn, asks>>

\* bug: the exit handler without its test of embedState.
ReportedAlways == "exited"

\* The "exit" event.  A child ended by a signal has no exitCode.
Reported == IF embedState = "ok" THEN embedState ELSE "exited"
ChildExits ==
  /\ child \in {"starting", "serving"}
  /\ child' \in {"exited", "killed"}
  /\ embedState' = Reported
  /\ UNCHANGED <<target, poll, conn, asks>>

\* The end of the loop without an answer.
GiveUp ==
  /\ poll' = [poll EXCEPT !.at = "over", !.ok = FALSE]
  /\ embedState' = IF embedState = "pending" THEN "timeout" ELSE embedState

\* The 500 ms are over: stop if the child has an exitCode, or else ask it.
Wake ==
  /\ poll.at = "sleep"
  /\ IF child \in {"exited", "failed"}
       THEN GiveUp
       ELSE poll' = [poll EXCEPT !.at = "asking"] /\ UNCHANGED embedState
  /\ UNCHANGED <<target, child, conn, asks>>

\* The child answers; it may be gone before the answer is read.
HealthSent ==
  /\ poll.at = "asking" /\ ~poll.ok /\ child = "serving"
  /\ poll' = [poll EXCEPT !.ok = TRUE]
  /\ UNCHANGED <<target, embedState, child, conn, asks>>

HealthOk ==
  /\ poll.at = "asking" /\ poll.ok
  /\ target' = "embedded" /\ embedState' = "ok"
  /\ poll' = [poll EXCEPT !.at = "over", !.ok = FALSE]
  /\ UNCHANGED <<child, conn, asks>>

NextPoll ==
  /\ IF poll.n + 1 = MaxPolls
       THEN GiveUp
       ELSE /\ poll' = [at |-> "sleep", n |-> poll.n + 1, ok |-> FALSE]
            /\ UNCHANGED embedState
  /\ UNCHANGED <<target, child, conn, asks>>

\* The connection is refused: nothing listens on the port.
HealthRefused == poll.at = "asking" /\ ~poll.ok /\ child # "serving" /\ NextPoll

\* bug: healthy() without its timeout.
HealthNeverTimesOut == FALSE

\* 1500 ms without an answer that was read: the request is destroyed.
HealthTimesOut == poll.at = "asking" /\ NextPoll

(***************************************************************************)
(* The HTTP side.                                                          *)
(***************************************************************************)
IsApiPath(path) == path \in {"api", "ws"}

\* upstreamOptions reads the target once, when the request is forwarded.
Forwarded(c, path, at) ==
  conn' = [conn EXCEPT ![c] = [Idle EXCEPT !.at = at, !.path = path, !.to = target]]

Answered(c, path, answer) ==
  conn' = [conn EXCEPT ![c].at = "answered", ![c].path = path, ![c].answer = answer]

\* A path that is no file of dist, or cannot be decoded, gets index.html.
ResolveFile(path) == IF path = "file" THEN "file" ELSE "index"

Ask(c) == conn[c].at = "idle" /\ asks < MaxAsks /\ asks' = asks + 1

Request(c, path, method) ==
  /\ Ask(c)
  /\ \/ IsApiPath(path) /\ Forwarded(c, path, "forwarded")
     \/ /\ ~IsApiPath(path) /\ method \notin {"GET", "HEAD"}
        /\ Answered(c, path, Answer(405, FALSE, "static"))
     \/ /\ path = "healthz" /\ method \in {"GET", "HEAD"}
        /\ Answered(c, path, Answer(200, TRUE, "healthz"))
     \/ /\ path \in {"file", "unknown"} /\ method \in {"GET", "HEAD"}
        /\ Answered(c, path, Answer(200, FALSE, ResolveFile(path)))
  /\ UNCHANGED <<target, embedVars>>

\* A server that is up answers; the host of an external service that is not
\* deployed answers too, with a page of its own.
Up(s) == s = "external" \/ child = "serving"
Replies == {<<200, TRUE>>, <<404, TRUE>>, <<404, FALSE>>, <<500, FALSE>>}

Unreachable == Answer(502, TRUE, "proxy")

\* bug: the error page of whoever stands before the server, as it is.
RelayAsIs(c, status, json) ==
  Answered(c, conn[c].path, Answer(status, json, conn[c].to))

Relay(c, status, json) ==
  Answered(c, conn[c].path, IF status >= 400 /\ ~json THEN Unreachable
                            ELSE Answer(status, json, conn[c].to))

UpstreamReplies(c) ==
  /\ conn[c].at = "forwarded" /\ Up(conn[c].to)
  /\ \E reply \in Replies : Relay(c, reply[1], reply[2])
  /\ UNCHANGED <<target, embedVars, asks>>

UpstreamFails(c) ==
  /\ conn[c].at = "forwarded"
  /\ Answered(c, conn[c].path, Unreachable)
  /\ UNCHANGED <<target, embedVars, asks>>

(***************************************************************************)
(* The upgrade side.                                                       *)
(***************************************************************************)
Dropped(c) == conn' = [conn EXCEPT ![c].at = "dropped"]

Upgrade(c, path) ==
  /\ Ask(c)
  /\ IF IsApiPath(path) THEN Forwarded(c, path, "upgrading")
     ELSE conn' = [conn EXCEPT ![c].at = "dropped", ![c].path = path]
  /\ UNCHANGED <<target, embedVars>>

UpgradeAccepted(c) ==
  /\ conn[c].at = "upgrading" /\ Up(conn[c].to)
  /\ conn' = [conn EXCEPT ![c].at = "tunnel"]
  /\ UNCHANGED <<target, embedVars, asks>>

\* A plain response (its status line is passed on) or an error: the socket
\* is destroyed.
UpgradeRefused(c) ==
  /\ conn[c].at = "upgrading"
  /\ Dropped(c)
  /\ UNCHANGED <<target, embedVars, asks>>

\* The browser closes its end, the game server closes its own, or the
\* process behind it is gone.
EndArrives(c, side) ==
  /\ conn[c].at = "tunnel" /\ side \notin conn[c].ended
  /\ conn' = [conn EXCEPT ![c].ended = @ \cup {side}]
  /\ UNCHANGED <<target, embedVars, asks>>

\* bug: only the client's end is piped.
PipedOneWay(side) == side = "client"

\* pipe() passes the end of a socket on to the other one, whose own end is for
\* its peer to close: the tunnel is gone when both were closed and passed on.
Piped(side) == side \in Sides
PipeEnds(c, side) ==
  /\ conn[c].at = "tunnel" /\ side \in conn[c].ended /\ Piped(side)
  /\ Other(side) \notin conn[c].told
  /\ conn' = [conn EXCEPT ![c].told = @ \cup {Other(side)},
                           ![c].at = IF side \in conn[c].told THEN "dropped" ELSE @]
  /\ UNCHANGED <<target, embedVars, asks>>

\* An "error" event on either socket destroys both.
TunnelBreaks(c) ==
  /\ conn[c].at = "tunnel"
  /\ Dropped(c)
  /\ UNCHANGED <<target, embedVars, asks>>

\* The caller has read its answer, or seen its socket close.
CallerIsDone(c) ==
  /\ conn[c].at \in {"answered", "dropped"}
  /\ conn' = [conn EXCEPT ![c] = Idle]
  /\ UNCHANGED <<target, embedVars, asks>>

(***************************************************************************)
Poll == Wake \/ HealthOk \/ HealthRefused \/ HealthTimesOut

Embed == EmbedSkipped \/ Spawn \/ SpawnFails \/ ChildListens \/ ChildExits
         \/ HealthSent \/ Poll

Call(c) ==
  \/ \E path \in Paths, method \in Methods : Request(c, path, method)
  \/ \E path \in Paths : Upgrade(c, path)
  \/ UpstreamReplies(c) \/ UpstreamFails(c)
  \/ UpgradeAccepted(c) \/ UpgradeRefused(c)
  \/ \E side \in Sides : EndArrives(c, side) \/ PipeEnds(c, side)
  \/ TunnelBreaks(c) \/ CallerIsDone(c)

Next == Embed \/ \E c \in Clients : Call(c)

Spec == Init /\ [][Next]_vars

\* listen() calls startEmbeddedApi, whose timers fire; a socket's end is read
\* and piped.  Nothing is assumed of the child, the servers or the callers.
Fairness ==
  /\ WF_vars(EmbedSkipped \/ Spawn)
  /\ WF_vars(Poll)
  /\ \A c \in Clients : \A side \in Sides : WF_vars(PipeEnds(c, side))

FairSpec == Spec /\ Fairness

(***************************************************************************)
(* Properties.                                                             *)
(***************************************************************************)
AnswerTypes == [status : {0, 200, 404, 405, 500, 502}, json : BOOLEAN,
                from : Servers \cup {"nobody", "static", "healthz", "file", "index", "proxy"}]

ConnTypes == [at : {"idle", "forwarded", "answered", "upgrading", "tunnel", "dropped"},
              path : Paths, to : Servers, answer : AnswerTypes,
              ended : SUBSET Sides, told : SUBSET Sides]

\* Types: what the process keeps of the attempt, and of each caller.
ServeTypeOK ==
  /\ target \in Servers
  /\ embedState \in {"pending", "disabled", "no-python", "no-source",
                     "spawn-failed", "exited", "timeout", "ok"}
  /\ child \in {"none", "starting", "serving"} \cup Gone
  /\ poll \in [at : {"begin", "sleep", "asking", "over"},
               n : 0 .. MaxPolls - 1, ok : BOOLEAN]
  /\ conn \in [Clients -> ConnTypes]
  /\ asks \in 0 .. MaxAsks

\* Why the two reports of /healthz agree: the check is answered by a child
\* that has listened, a child that has listened cannot fail to start any more,
\* and the loop ends with the move to it.
MoveIsFinal ==
  /\ poll.at = "begin" => child = "none"
  /\ poll.ok => poll.at = "asking" /\ child \notin {"none", "starting"}
  /\ target = "embedded" => poll.at = "over" /\ child \notin {"none", "starting"}

\* What the client reads from /api is the game server's, or the proxy's own
\* 502: never a page of the static part (the 405 and the index.html that a
\* misrouted POST /api/rooms used to get), and an error always carries the
\* JSON detail that api/client.ts shows, whoever stands before the game
\* server and whenever the child dies.
RefusalsAreReadable ==
  \A c \in Clients :
    conn[c].at = "answered" /\ IsApiPath(conn[c].path) =>
      /\ conn[c].answer.from \in Servers \cup {"proxy"}
      /\ conn[c].answer.status >= 400 => conn[c].answer.json

\* /healthz reports api_target and embedded together: they must agree, with
\* the exit of the child before, between and after the health check and its
\* answer.  (They agree on where requests go, not on whether the child lives.)
HealthzNamesTheTarget == (embedState = "ok") <=> (target = "embedded")

\* The attempt ends: whatever the child does, also when it accepts the check
\* and never answers it, /healthz stops saying "pending".
EmbedIsDecided == <>(embedState # "pending")

\* An end that is closed is passed on, in either direction and with the other
\* end open or closing too: the game server learns that a player left, the
\* browser that its server is gone.  (What the other peer then does is its own
\* affair: a tunnel whose peer never closes stays half open.)
EndsArePassedOn ==
  \A c \in Clients : \A side \in Sides :
    (conn[c].at = "tunnel" /\ side \in conn[c].ended)
      ~> (conn[c].at # "tunnel" \/ Other(side) \in conn[c].told)

\* What the comment on the stderr tail wants of /healthz and the code does
\* not give: it tells of the child's death.  An exit after the first health
\* check leaves embedState "ok" and the target dead.
HealthzTellsOfDeath == child \in Gone => embedState # "ok"

\* What a player needs of the switch and the code does not promise: a socket
\* is opened on the server its request was answered by.
OneServer ==
  \A c, d \in Clients :
    conn[c].at = "tunnel" /\ conn[d].at = "tunnel" => conn[c].to = conn[d].to
=============================================================================
