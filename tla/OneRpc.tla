------------------------------ MODULE OneRpc ------------------------------
(***************************************************************************)
(* The whole relay in demo mode: the process (App), the HTTP side          *)
(* (HttpForwarder) and the websocket handler (DemoWsHandler) on the one    *)
(* thread that src/apps/1rpc/src/one_rpc.rs puts them on.  A tick of the   *)
(* loop is what App leaves open: the server's callbacks in any order, then *)
(* on_tick.  Requests drive the channels: each one that is forwarded is    *)
(* shown to the handler of the websockets first.                           *)
(***************************************************************************)
EXTENDS Integers, Sequences, FiniteSets, Functions

CONSTANTS
  Conns, NoPath, Scheme, Shapes, HttpMaxBody, MaxBatch, Timeout, IdSpace,
  MaxRequests,                       \* see HttpForwarder; a shape has a token, too
  WsIds,                          \* ids of the websocket connections
  Tokens, BadPath, NoToken,          \* see DemoWsHandler
  CommandLines, Dcap                 \* see App

\* What the parts assume, and that a shape has a token, or none, to witness.
ASSUME OneRpcConstants ==
  /\ Timeout \in Nat /\ MaxRequests \in Nat /\ IdSpace \in Nat
  /\ MaxRequests < IdSpace
  /\ BadPath \notin Tokens /\ NoToken \notin Tokens
  /\ \A q \in Shapes : q.token \in Tokens \cup {NoToken}
  /\ \A options \in CommandLines : options \in Seq([opt : STRING, val : STRING])
  /\ Dcap \in BOOLEAN

VARIABLES
  main, alive, line, arg, cfg, serving,
  phase, conn, asked, nextId, reqs, responses, pools, remote, inbox, sends, out,
  ws, wsResponses, sent, tokenToConn, connToToken, path, witnessed

appVars  == <<main, alive, line, arg, cfg, serving>>
httpVars == <<phase, conn, asked, nextId, reqs, responses, pools, remote, inbox,
              sends, out>>
demoVars == <<ws, wsResponses, sent, tokenToConn, connToToken, path, witnessed>>

vars == <<appVars, httpVars, demoVars>>

Proc == INSTANCE App
Http == INSTANCE HttpForwarder
Demo == INSTANCE DemoWsHandler WITH Conns <- WsIds, MaxDetails <- MaxRequests

Init == Proc!Init /\ Http!Init /\ Demo!Init

-----------------------------------------------------------------------------
(* What the server calls while the main thread is in its tick.             *)

Callbacks == main = "tick" /\ phase = "serve"

\* Mutant of Shown: the hook is called before the size of a batch is checked.
ShownEarly(q) == q.len <= HttpMaxBody /\ q.path \in Http!HttpRoutes /\ q.kind # "garbage"

\* Mutant of Shown: a batch is not shown.
ShownSingle(q) == ~Http!Refused(q) /\ q.kind = "single"

\* on_http_request is called behind the early returns of on_new_http_request.
Shown(q) == ~Http!Refused(q)

OnNewHttpRequest(c, q) ==
  /\ Callbacks
  /\ Http!OnNewHttpRequest(c, q)
  /\ \/ Shown(q) /\ Demo!WitnessRequest(q.token)
     \/ ~Shown(q) /\ UNCHANGED demoVars
  /\ UNCHANGED appVars

HttpConnections ==
  /\ Callbacks
  /\ \E c \in Conns : Http!Connect(c) \/ Http!DropConn(c)
  /\ UNCHANGED <<appVars, demoVars>>

WsConnections ==
  /\ Callbacks
  /\ \/ \E c \in WsIds, p \in Tokens \cup {BadPath} : Demo!OnConnectionOpen(c, p)
     \/ \E c \in WsIds : Demo!OnConnectionClose(c)
  /\ UNCHANGED <<appVars, httpVars>>

-----------------------------------------------------------------------------
(* on_tick: the HTTP side, then tick_ws, with which the tick is over.      *)

OnTick ==
  /\ main = "tick"
  /\ \/ Http!OnTick
     \/ Http!TickHttpReqs
     \/ Http!TickHttpRecvRemote
     \/ Http!TickHttpSendResponse
  /\ UNCHANGED <<appVars, demoVars>>

TickWs ==
  /\ Http!TickWs
  /\ Demo!TickWs
  /\ \E result \in {"Idle", "Busy"} : Proc!Tick(result)

\* The server fails on its own, or a callback panics on what it was given: the
\* sanitizer does, on call data that is cut off, before anything is pushed.
ServerFails ==
  /\ Callbacks
  /\ \E result \in {"Error", "Panic"} : Proc!Tick(result)
  /\ UNCHANGED <<httpVars, demoVars>>

\* The rest of the main thread, and the signal.
Outside ==
  /\ Proc!Prepare \/ Proc!Check \/ Proc!Sleep
  /\ UNCHANGED <<httpVars, demoVars>>

Terminate == Proc!Terminate /\ UNCHANGED <<httpVars, demoVars>>

Over == Proc!Over /\ UNCHANGED <<httpVars, demoVars>>

\* Remotes answer and time passes, whatever the main thread is doing.
World ==
  /\ (\E m \in remote : Http!RemoteAnswer(m)) \/ Http!Elapse
  /\ UNCHANGED <<appVars, demoVars>>

-----------------------------------------------------------------------------

MainThread ==
  \/ \E c \in Conns, q \in Shapes : OnNewHttpRequest(c, q)
  \/ HttpConnections
  \/ WsConnections
  \/ OnTick
  \/ TickWs
  \/ ServerFails
  \/ Outside

Next == MainThread \/ World \/ Terminate \/ Over

Spec == Init /\ [][Next]_vars

\* There is one thread, and it goes on; time passes; a pool that cannot be
\* created now is created later.  Nothing is assumed of clients, remotes and
\* the readers of channels.
TimePasses == Http!Elapse /\ UNCHANGED <<appVars, demoVars>>

PoolsCreated == main = "tick" /\ Http!EveryClientFound /\ UNCHANGED <<appVars, demoVars>>

FairSpec == Spec /\ WF_vars(MainThread) /\ WF_vars(TimePasses) /\ SF_vars(PoolsCreated)

-----------------------------------------------------------------------------
(* Properties.                                                             *)

Forwarded(b) == ~Http!Refused(asked[b].req)

\* How many of the first b requests were forwarded.
Rank(b) == Cardinality({i \in 1..b : Forwarded(i)})

\* A channel shows requests that were made with its token and are forwarded, no
\* refused one: as seen from the clients, through the hook, the registry that
\* changes under it and the queue that is written ticks later.
ChannelShowsForwarded ==
  \A c \in WsIds : \A d \in Range(sent[c]) \ {Demo!LastWord} :
    \E b \in 1..Len(asked) :
      Forwarded(b) /\ Rank(b) = d /\ asked[b].req.token = path[c]

\* A request does not leave the relay before the handler of its channel was
\* told of it, with its token.
SentWasWitnessed ==
  \A b \in 1..Len(asked) : sends[b] > 0 =>
    Rank(b) <= Len(witnessed) /\ witnessed[Rank(b)] = asked[b].req.token

\* The parts share one thread, and that is enough for all of them: whoever
\* asked is served or closed, unless the process ends, with channels opening,
\* closing, being written to and blocking in between.
ClientsServed ==
  \A c \in Conns :
    (conn[c] = "open" /\ Http!HasAsked(c)) ~> (conn[c] # "open" \/ main \in Proc!Ended)

\* A signal ends the process also in the middle of a tick with requests under
\* way, without waiting for any of them.
TerminateEndsServe == Proc!TerminateEndsServe
=============================================================================
