--------------------------- MODULE HttpForwarder ---------------------------
(***************************************************************************)
(* The HTTP side of the relay: ServerHandler of                            *)
(* src/common/forwarder/src/jsonrpc_forwarder.rs with its request and      *)
(* response maps and its client pools.  One thread runs everything: the    *)
(* server first calls on_new_http_request for whatever arrived, then       *)
(* on_tick runs tick_http_reqs, tick_http_recv_remote,                     *)
(* tick_http_send_response and tick_ws in this order.  Clients, remote     *)
(* endpoints and the clock move on their own between these steps.          *)
(***************************************************************************)
EXTENDS JsonrpcMgr

CONSTANTS
  Conns,         \* ids of the HTTP connections of a run; an id is never reused
  NoPath,        \* the path of a request target without a "/"
  Scheme,        \* the static routes: path -> scheme of the configured uri
  Shapes,        \* what clients send: records with path, len, kind, size
  HttpMaxBody,   \* http_max_body_length
  MaxBatch,      \* longest batch the server takes (30 in the code)
  Timeout,       \* units of time after which a request is given up (20 s)
  IdSpace,       \* number of values of a request id (2^64 in the code)
  MaxRequests    \* bound: requests arriving in one run

ASSUME ConstantsAssumption ==
  /\ Timeout \in Nat
  /\ MaxRequests \in Nat
  /\ IdSpace \in Nat
  /\ MaxRequests < IdSpace    \* no run exhausts the ids

VARIABLES
  phase,      \* which part of the server's tick runs next
  conn,       \* connection -> "new", "open", "closing" or "gone"
  asked,      \* history: the requests in order of arrival, [conn, req]
  nextId,     \* http_reqs.req_id
  reqs,       \* http_reqs.reqs
  responses,  \* http_responses
  pools,      \* keys of http_client
  remote,     \* messages written to remote endpoints, not yet answered
  inbox,      \* answers the pools hold for read_response
  sends,      \* history: how often each request was written to a remote
  out         \* history: what was written to the clients

vars == <<phase, conn, asked, nextId, reqs, responses, pools, remote, inbox,
          sends, out>>

Bodies  == 1..MaxRequests    \* a request is known by its place in `asked`
NotSent == -1                \* last_send = None
Live    == {"open", "closing"}

Request == [conn : Conns, path : DOMAIN Scheme, body : Bodies,
            elapsed : NotSent..(Timeout + 1)]

Message == [id : Nat, path : DOMAIN Scheme, body : Bodies]

TypeOK ==
  /\ phase \in {"serve", "http_reqs", "http_recv", "http_send", "ws"}
  /\ conn \in [Conns -> {"new", "open", "closing", "gone"}]
  /\ asked \in Seq([conn : Conns, req : Shapes])
  /\ Len(asked) <= MaxRequests
  /\ nextId \in 0..(IdSpace - 1)
  /\ DOMAIN reqs \subseteq Nat
  /\ \A id \in DOMAIN reqs : reqs[id] \in Request
  /\ DOMAIN responses \subseteq Conns
  /\ \A c \in DOMAIN responses :
       responses[c] \in [kind : {"raw", "jsonrpc"}, items : Seq(Bodies),
                         close : BOOLEAN]
  /\ pools \subseteq DOMAIN Scheme
  /\ remote \subseteq Message
  /\ inbox \subseteq Message
  /\ sends \in [Bodies -> Nat]
  /\ out \subseteq [conn : Conns, body : Bodies, kind : {"error", "result"}]

Init ==
  /\ phase = "serve"
  /\ conn = [c \in Conns |-> "new"]
  /\ asked = <<>>
  /\ nextId = 0
  /\ reqs = Empty
  /\ responses = Empty
  /\ pools = {}
  /\ remote = {}
  /\ inbox = {}
  /\ sends = [b \in Bodies |-> 0]
  /\ out = {}

-----------------------------------------------------------------------------
(* The server takes a request.                                             *)

\* get_http_uri: the routes that serve HTTP requests
HttpRoutes == {p \in DOMAIN Scheme : Scheme[p] = "https"}

\* Mutant of Refused: the unknown path is let through.
RefusedAnyRoute(q) == q.len > HttpMaxBody \/ q.path = NoPath \/ q.kind = "garbage"

\* The early returns of on_new_http_request; each queues one error.
Refused(q) ==
  \/ q.len > HttpMaxBody                       \* request is too large
  \/ q.path = NoPath                           \* no path specified
  \/ q.path \notin HttpRoutes                  \* unknown path
  \/ q.kind = "garbage"                        \* parse error
  \/ q.kind = "batch" /\ q.size > MaxBatch     \* batch size is too large

NewRequest(c, q, b) ==
  [conn |-> c, path |-> q.path, body |-> b, elapsed |-> NotSent]

OnNewHttpRequest(c, q) ==
  LET b == Len(asked) + 1
  IN  /\ phase = "serve"
      /\ conn[c] \in Live
      /\ b <= MaxRequests
      /\ asked' = Append(asked, [conn |-> c, req |-> q])
      /\ \/ /\ Refused(q)
            /\ responses' = AddSingleErrorMsgClosed(responses, c, b)
            /\ UNCHANGED <<nextId, reqs>>
         \/ /\ ~Refused(q)
            /\ reqs' = Push(reqs, nextId, NewRequest(c, q, b))
            /\ nextId' = NextReqId(nextId, IdSpace)
            /\ UNCHANGED responses
      /\ UNCHANGED <<phase, conn, pools, remote, inbox, sends, out>>

\* The server is done reading its sockets and calls on_tick.
OnTick ==
  /\ phase = "serve"
  /\ phase' = "http_reqs"
  /\ UNCHANGED <<conn, asked, nextId, reqs, responses, pools, remote, inbox,
                 sends, out>>

-----------------------------------------------------------------------------
(* tick_http_reqs: give up overdue requests, send the others once.         *)

\* Mutants of Unsent and Overdue: a request whose answer takes long is sent
\* again; requests of clients that hung up are never given up.
UnsentOrSlow  == {id \in DOMAIN reqs : reqs[id].elapsed # 0}
OverdueOfLive == {id \in DOMAIN reqs : /\ reqs[id].elapsed > Timeout
                                       /\ conn[reqs[id].conn] # "gone"}

Unsent  == {id \in DOMAIN reqs : reqs[id].elapsed = NotSent}
Overdue == {id \in DOMAIN reqs : reqs[id].elapsed > Timeout}

\* HttpForwardClient::get_or_new fails only while the key has no pool, and the
\* first success of the pass (ids ascending) serves the requests after it.
ClientFound(found) ==
  \A id \in Unsent :
    \/ id \in found
    \/ /\ reqs[id].path \notin pools
       /\ \A id2 \in found : reqs[id2].path = reqs[id].path => id < id2

\* write_request: Ok, WouldBlock and Err leave the handler in the same state;
\* which of the requests really reach the remote is not known to it.
Written(wired) ==
  {[id |-> id, path |-> reqs[id].path, body |-> reqs[id].body] : id \in wired}

\* last_send is set before the write, whatever comes of it.
MarkSent(found) ==
  [id \in DOMAIN reqs |->
     IF id \in found THEN [reqs[id] EXCEPT !.elapsed = 0] ELSE reqs[id]]

CountSends(wired) ==
  [b \in Bodies |->
     IF \E id \in wired : reqs[id].body = b THEN sends[b] + 1 ELSE sends[b]]

\* Mutant of RemoveConns: the timeout only forgets the request.
RemoveNoConns(cs) == conn

RemoveConns(cs) == [c \in Conns |-> IF c \in cs THEN "gone" ELSE conn[c]]

TickHttpReqs ==
  /\ phase = "http_reqs"
  /\ phase' = "http_recv"
  /\ \E found \in SUBSET Unsent :
       /\ ClientFound(found)
       /\ pools' = pools \cup {reqs[id].path : id \in found}
       /\ reqs' = Pop(MarkSent(found), Overdue)
       /\ \E wired \in SUBSET found :
            /\ remote' = remote \cup Written(wired)
            /\ sends' = CountSends(wired)
  /\ conn' = RemoveConns({reqs[id].conn : id \in Overdue})
  /\ UNCHANGED <<asked, nextId, responses, inbox, out>>

-----------------------------------------------------------------------------
(* tick_http_recv_remote: read every pool until it blocks or fails, match  *)
(* each answer with its request by id, write it to the client and mark the *)
(* connection for closing.                                                 *)

\* A failing pool stops the loop over it: answers behind the failure stay
\* unread, and some of what its connections carried is lost.
Of(ms, ps) == {m \in ms : m.path \in ps}

\* An answer whose request is not in the map any more is dropped.
Known(read) == {m \in read : m.id \in DOMAIN reqs}

ReplyTo(m) == [conn |-> reqs[m.id].conn, body |-> m.body, kind |-> "result"]

\* write_to fails, then remove_conn; in any case close_conn.
AfterWrites(written, failed) ==
  [c \in Conns |-> IF c \in failed THEN "gone"
                   ELSE IF c \in written /\ conn[c] = "open" THEN "closing"
                   ELSE conn[c]]

TickHttpRecvRemote ==
  /\ phase = "http_recv"
  /\ phase' = "http_send"
  /\ \E broken \in SUBSET pools :
     \E unread \in SUBSET Of(inbox, broken) :
     \E lost \in SUBSET Of(remote \cup unread, broken) :
       LET hits == Known(inbox \ unread)
       IN  /\ remote' = remote \ lost
           /\ inbox' = unread \ lost
           /\ reqs' = Pop(reqs, {m.id : m \in hits})
           /\ \E ok \in SUBSET {m \in hits : conn[reqs[m.id].conn] # "gone"} :
                /\ out' = out \cup {ReplyTo(m) : m \in ok}
                /\ conn' = AfterWrites({reqs[m.id].conn : m \in ok},
                                       {reqs[m.id].conn : m \in hits \ ok})
  /\ UNCHANGED <<asked, nextId, responses, pools, sends>>

-----------------------------------------------------------------------------
(* tick_http_send_response: write the server's own errors, all of a        *)
(* connection's in one go, close where asked, and clear the map.           *)

Errors(c) ==
  {[conn |-> c, body |-> b, kind |-> "error"] : b \in Range(responses[c].items)}

\* Mutant of LeftToSend: the map is not cleared.
LeftAll(ok) == responses

LeftToSend(ok) == Empty    \* no matter write success or error

TickHttpSendResponse ==
  /\ phase = "http_send"
  /\ phase' = "ws"
  /\ \E ok \in SUBSET {c \in DOMAIN responses : conn[c] # "gone"} :
       /\ out' = out \cup UNION {Errors(c) : c \in ok}
       /\ conn' = AfterWrites({c \in ok : responses[c].close},
                              DOMAIN responses \ ok)
       /\ responses' = LeftToSend(ok)
  /\ UNCHANGED <<asked, nextId, reqs, pools, remote, inbox, sends>>

\* tick_ws goes to the websocket handler, which shares no state with this one.
TickWs ==
  /\ phase = "ws"
  /\ phase' = "serve"
  /\ UNCHANGED <<conn, asked, nextId, reqs, responses, pools, remote, inbox,
                 sends, out>>

-----------------------------------------------------------------------------
(* The environment.                                                        *)

Connect(c) ==
  /\ phase = "serve"
  /\ conn[c] = "new"
  /\ conn' = [conn EXCEPT ![c] = "open"]
  /\ UNCHANGED <<phase, asked, nextId, reqs, responses, pools, remote, inbox,
                 sends, out>>

\* The client hung up, or the server flushed a connection marked for closing.
DropConn(c) ==
  /\ phase = "serve"
  /\ conn[c] \in Live
  /\ conn' = [conn EXCEPT ![c] = "gone"]
  /\ UNCHANGED <<phase, asked, nextId, reqs, responses, pools, remote, inbox,
                 sends, out>>

RemoteAnswer(m) ==
  /\ m \in remote
  /\ remote' = remote \ {m}
  /\ inbox' = inbox \cup {m}
  /\ UNCHANGED <<phase, conn, asked, nextId, reqs, responses, pools, sends, out>>

\* Time passes for every request sent; beyond Timeout it makes no difference.
Elapse ==
  /\ \E id \in DOMAIN reqs : reqs[id].elapsed \in 0..Timeout
  /\ reqs' = [id \in DOMAIN reqs |->
                IF reqs[id].elapsed \in 0..Timeout
                THEN [reqs[id] EXCEPT !.elapsed = @ + 1] ELSE reqs[id]]
  /\ UNCHANGED <<phase, conn, asked, nextId, responses, pools, remote, inbox,
                 sends, out>>

-----------------------------------------------------------------------------

Handlers ==
  \/ TickHttpReqs
  \/ TickHttpRecvRemote
  \/ TickHttpSendResponse
  \/ TickWs

Next ==
  \/ \E c \in Conns, q \in Shapes : OnNewHttpRequest(c, q)
  \/ OnTick
  \/ Handlers
  \/ \E c \in Conns : Connect(c)
  \/ \E c \in Conns : DropConn(c)
  \/ \E m \in remote : RemoteAnswer(m)
  \/ Elapse

Spec == Init /\ [][Next]_vars

\* The thread keeps ticking and time passes.  A pool that cannot be created now
\* is created later: without that a request is neither sent nor given up.
EveryClientFound == TickHttpReqs /\ {reqs[id].path : id \in Unsent} \subseteq pools'

Fairness ==
  /\ WF_vars(OnTick)
  /\ WF_vars(Handlers)
  /\ WF_vars(Elapse)
  /\ SF_vars(EveryClientFound)

FairSpec == Spec /\ Fairness

-----------------------------------------------------------------------------
(* Properties.                                                             *)

Pending(c) == {id \in DOMAIN reqs : reqs[id].conn = c}

HasAsked(c) == \E b \in 1..Len(asked) : asked[b].conn = c

\* A client that has asked is never forgotten: while its connection is open, a
\* request of it waits in http_reqs or an error for it in http_responses.  It is
\* what the paired lists remove_req / close_conn, and close_conn after each
\* write, have to keep up over all phases of a tick.
NoClientForgotten ==
  \A c \in Conns :
    conn[c] = "open" /\ HasAsked(c) => Pending(c) # {} \/ c \in DOMAIN responses

\* What a client reads answers a request of that client, even when the answer
\* comes after its request was given up and others were accepted since:
\* tick_http_recv_remote finds the connection by request id alone.
RepliesReachAsker ==
  \A r \in out : asked[r.body].conn = r.conn

\* A request reaches its remote at most once (it may be a transaction):
\* tick_http_reqs marks it sent before the write and never sends it again, also
\* when the write would block or the pool breaks.
SentAtMostOnce == \A b \in Bodies : sends[b] <= 1

\* A request still waiting, for a remote or with an error for the next tick, has
\* not been answered, and it waits only once.
PendingUnanswered ==
  /\ \A id \in DOMAIN reqs : \A r \in out : r.body # reqs[id].body
  /\ \A c \in DOMAIN responses : \A r \in out :
       r.body \notin Range(responses[c].items)
  /\ \A id1, id2 \in DOMAIN reqs : reqs[id1].body = reqs[id2].body => id1 = id2
  /\ \A id \in DOMAIN reqs, c \in DOMAIN responses :
       reqs[id].body \notin Range(responses[c].items)

\* The handlers close or drop an open connection only in the step that settles
\* something of that client: a request answered or given up, an error written.
ClosedOnlyWhenSettled ==
  [][\A c \in Conns :
       conn[c] = "open" /\ conn'[c] # "open" /\ phase # "serve"
         => \/ \E id \in Pending(c) : id \notin DOMAIN reqs'
            \/ c \in DOMAIN responses /\ c \notin DOMAIN responses']_vars

\* No client waits for ever: the connection of a client that has asked gets
\* closed, be it by an answer, an error or the time limit.
NoClientHangs ==
  \A c \in Conns :
    (conn[c] = "open" /\ HasAsked(c)) ~> conn[c] # "open"

\* http_reqs does not leak: every request leaves the map, also when its client
\* is long gone or its remote never answers.
NoRequestStays ==
  \A id \in 0..(MaxRequests - 1) :
    id \in DOMAIN reqs ~> id \notin DOMAIN reqs

\* A single, well-formed request of allowed length to a configured HTTP endpoint
\* is not answered with an error of the server: README.md shows an "http://"
\* endpoint as the one to make such requests to.
ConfiguredRoutesServe ==
  \A r \in out : r.kind = "error" =>
    LET q == asked[r.body].req
    IN  \/ q.path \notin DOMAIN Scheme
        \/ Scheme[q.path] \notin {"http", "https"}
        \/ q.len > HttpMaxBody
        \/ q.kind # "single"

-----------------------------------------------------------------------------
(* What the clients are promised, and what of the state stands for it.     *)

Waiting == {c \in Conns : conn[c] = "open"}

Owed ==
  {[conn |-> reqs[id].conn, body |-> reqs[id].body] : id \in DOMAIN reqs}
    \cup UNION {{[conn |-> c, body |-> b] : b \in Range(responses[c].items)} :
                  c \in DOMAIN responses}

Answered == {[conn |-> r.conn, body |-> r.body] : r \in out}

Contract == INSTANCE RequestContract
              WITH live <- Waiting, owed <- Owed, answered <- Answered

\* The handlers keep the contract: whatever a tick does to the two maps, the
\* connections and the replies is one settling of requests, at most once each
\* and to the client that asked, and nobody is left waiting after it.
KeepsContract == Contract!Spec
=============================================================================
