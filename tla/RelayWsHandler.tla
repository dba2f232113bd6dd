--------------------------- MODULE RelayWsHandler ---------------------------
(***************************************************************************)
(* The websocket handler of relay mode: RelayWsHandler of                  *)
(* src/apps/1rpc/src/handler.rs.  Each local connection gets a stream of   *)
(* its own to the remote; requests go through ws_reqs to the stream,       *)
(* whatever the stream delivers goes straight to the local connection.     *)
(* The three parts of tick_ws run one after the other; between two ticks   *)
(* the server calls the handler for new, active and closed connections.    *)
(***************************************************************************)
EXTENDS WsConns

CONSTANTS
  Paths,        \* what connections are opened with
  Routes,       \* the configured routes
  IdSpace,      \* number of values of a request id (2^64 in the code)
  MaxRequests,  \* bound: messages of clients in one run
  MaxDown       \* bound: messages of one remote stream

ASSUME RelayConstants ==
  /\ Paths # {}
  /\ Routes \subseteq Paths
  /\ IdSpace \in Nat
  /\ MaxRequests \in Nat
  /\ MaxRequests < IdSpace
  /\ MaxDown \in Nat

VARIABLES
  phase,        \* which part of the server's tick runs next
  path,         \* history: what each connection was opened with
  remoteConns,  \* remote_ws_conns, the rpc_path and what the stream delivered
  nextId,       \* ws_reqs.req_id
  wsReqs,       \* ws_reqs.reqs
  taken,        \* how many messages clients have sent so far
  submitted     \* history: how often each of them was written to a stream

vars == <<wsVars, phase, path, remoteConns, nextId, wsReqs, taken, submitted>>

Bodies == 1..MaxRequests

TypeOK ==
  /\ WsTypeOK
  /\ phase \in {"serve", "ws_reqs", "ws_recv", "ws_send"}
  /\ path \in [Conns -> Paths]
  /\ DOMAIN remoteConns \subseteq Conns
  /\ \A c \in DOMAIN remoteConns :
       /\ remoteConns[c] \in [path : Routes, down : 0..MaxDown, read : 0..MaxDown]
       /\ remoteConns[c].read <= remoteConns[c].down
  /\ nextId \in 0..(IdSpace - 1)
  /\ DOMAIN wsReqs \subseteq Nat
  /\ \A id \in DOMAIN wsReqs : wsReqs[id] \in [conn : Conns, body : Bodies]
  /\ taken \in 0..MaxRequests
  /\ submitted \in [Bodies -> Nat]

Init ==
  /\ WsInit
  /\ phase = "serve"
  /\ path = [c \in Conns |-> CHOOSE p \in Paths : TRUE]
  /\ remoteConns = Empty
  /\ nextId = 0
  /\ wsReqs = Empty
  /\ taken = 0
  /\ submitted = [b \in Bodies |-> 0]

-----------------------------------------------------------------------------
(* The callbacks of the server.                                            *)

\* Mutant of HasRoute: every path is taken for a route.
HasRouteAny(p) == TRUE

HasRoute(p) == p \in Routes

Stream(p) == [path |-> p, down |-> 0, read |-> 0]

\* on_connection_open.  Without a path or a route, or when the remote cannot be
\* connected, the connection gets an error and is closed.
OnConnectionOpen(c, p) ==
  /\ phase = "serve"
  /\ Opened(c)
  /\ path' = [path EXCEPT ![c] = p]
  /\ \/ /\ wsResponses' = AddSingleErrorMsgClosed(wsResponses, c, LastWord)
        /\ UNCHANGED remoteConns
     \/ /\ HasRoute(p)
        /\ remoteConns' = Put(remoteConns, c, Stream(p))
        /\ UNCHANGED wsResponses
  /\ UNCHANGED <<sent, phase, nextId, wsReqs, taken, submitted>>

AfterClose(c) == Without(remoteConns, {c})

OnConnectionClose(c) ==
  /\ phase = "serve"
  /\ Closed(c)
  /\ remoteConns' = AfterClose(c)
  /\ UNCHANGED <<wsResponses, sent, phase, path, nextId, wsReqs, taken, submitted>>

\* process_request.  A message without a stream closes the connection, one that
\* is too large or no JSON-RPC gets an error first.  The request keeps the
\* connection; it is not sanitized.
ProcessRequest(c) ==
  LET b == taken + 1
  IN  /\ phase = "serve"
      /\ ws[c] = "open"
      /\ b <= MaxRequests
      /\ taken' = b
      /\ \/ /\ c \notin DOMAIN remoteConns
            /\ ws' = Drop({c})    \* ctx.is_close
            /\ UNCHANGED <<wsResponses, nextId, wsReqs>>
         \/ /\ c \in DOMAIN remoteConns
            /\ wsResponses' = AddSingleErrorMsgClosed(wsResponses, c, LastWord)
            /\ UNCHANGED <<ws, nextId, wsReqs>>
         \/ /\ c \in DOMAIN remoteConns
            /\ wsReqs' = Push(wsReqs, nextId, [conn |-> c, body |-> b])
            /\ nextId' = NextReqId(nextId, IdSpace)
            /\ UNCHANGED <<ws, wsResponses>>
      /\ UNCHANGED <<sent, phase, path, remoteConns, submitted>>

OnTick ==
  /\ phase = "serve"
  /\ phase' = "ws_reqs"
  /\ UNCHANGED <<wsVars, path, remoteConns, nextId, wsReqs, taken, submitted>>

-----------------------------------------------------------------------------
(* tick_ws_reqs: write every queued request to its stream.                 *)

Orphans == {id \in DOMAIN wsReqs : wsReqs[id].conn \notin DOMAIN remoteConns}

ConnsOf(ids) == {wsReqs[id].conn : id \in ids}

CountSubmits(ok) ==
  [b \in Bodies |-> IF \E id \in ok : wsReqs[id].body = b THEN submitted[b] + 1
                    ELSE submitted[b]]

\* Mutants of Done: a request written stays queued; orphans stay queued; one
\* whose write would block does not.
DoneOrphans(ok) == Orphans
DoneWritten(ok) == ok
DoneBlocked(ok) == DOMAIN wsReqs

Done(ok) == ok \cup Orphans

Lost(failed) == failed \cup Orphans

\* Mutant of CloseRemote: the streams that failed are kept.
CloseRemoteNever(failed) == {}

CloseRemote(failed) == ConnsOf(failed)

\* A request whose write would block stays and so does one whose write failed;
\* the latter goes with the next tick, which does not find the stream.
TickWsReqs ==
  /\ phase = "ws_reqs"
  /\ phase' = "ws_recv"
  /\ \E ok \in SUBSET (DOMAIN wsReqs \ Orphans) :
     \E failed \in SUBSET (DOMAIN wsReqs \ (Orphans \cup ok)) :
       /\ submitted' = CountSubmits(ok)
       /\ wsReqs' = Pop(wsReqs, Done(ok))
       /\ ws' = Drop(ConnsOf(Lost(failed)))
       /\ remoteConns' = Without(remoteConns, CloseRemote(failed))
  /\ UNCHANGED <<wsResponses, sent, path, nextId, taken>>

-----------------------------------------------------------------------------
(* tick_ws_recv_remote: read every stream once and pass the message on.    *)

Readable == {c \in DOMAIN remoteConns : remoteConns[c].read < remoteConns[c].down}

\* Mutant of Reads: the message is not taken off the stream.
ReadsAgain(got) == remoteConns

Reads(got) ==
  [c \in DOMAIN remoteConns |->
     IF c \in got THEN [remoteConns[c] EXCEPT !.read = @ + 1] ELSE remoteConns[c]]

\* Mutant of Detached: a stream without a local connection goes on.
DetachedNever(got) == {}

Detached(got) == {c \in got : ws[c] # "open"}

\* Mutant of RemoteLost: the local connection of a broken stream stays open.
RemoteLostQuietly(broken, got) == Detached(got)

RemoteLost(broken, got) == broken \cup Detached(got)

\* Whatever error the write to the local connection ends with, also that it
\* would block, the message is lost.
TickWsRecvRemote ==
  /\ phase = "ws_recv"
  /\ phase' = "ws_send"
  /\ \E got \in SUBSET Readable :
     \E broken \in SUBSET (DOMAIN remoteConns \ got) :
       /\ remoteConns' = Without(Reads(got), broken \cup Detached(got))
       /\ ws' = Drop(RemoteLost(broken, got))
       /\ \E ok \in SUBSET (got \ Detached(got)) :
            sent' = [c \in Conns |->
                       IF c \in ok THEN Append(sent[c], remoteConns[c].read + 1)
                       ELSE sent[c]]
  /\ UNCHANGED <<wsResponses, path, nextId, wsReqs, taken, submitted>>

TickSend ==
  /\ phase = "ws_send"
  /\ phase' = "serve"
  /\ TickSendResponse
  /\ UNCHANGED <<path, remoteConns, nextId, wsReqs, taken, submitted>>

\* The remote delivers an answer or a notification.
RemoteSends(c) ==
  /\ c \in DOMAIN remoteConns
  /\ remoteConns[c].down < MaxDown
  /\ remoteConns' = [remoteConns EXCEPT ![c].down = @ + 1]
  /\ UNCHANGED <<wsVars, phase, path, nextId, wsReqs, taken, submitted>>

-----------------------------------------------------------------------------

Next ==
  \/ \E c \in Conns, p \in Paths : OnConnectionOpen(c, p)
  \/ \E c \in Conns : OnConnectionClose(c)
  \/ \E c \in Conns : ProcessRequest(c)
  \/ OnTick
  \/ TickWsReqs
  \/ TickWsRecvRemote
  \/ TickSend
  \/ \E c \in Conns : RemoteSends(c)

Spec == Init /\ [][Next]_vars

\* The server keeps ticking; neither a peer nor a remote blocks its writer for
\* ever, it takes the data or its connection fails; and now and then a tick finds
\* all that the remotes have sent, unless their streams fail.  Each of the three
\* can happen whenever its part of the tick is next, so that part is run.
PeerReads(c) ==
  TickSend /\ (c \notin DOMAIN wsResponses' \/ ws'[c] # "open")

RemoteReads(id) ==
  /\ TickWsReqs
  /\ id \in DOMAIN wsReqs' => wsReqs[id].conn \notin DOMAIN remoteConns'

RemotesHeard ==
  /\ TickWsRecvRemote
  /\ \A c \in Readable :
       c \in DOMAIN remoteConns' => remoteConns'[c].read > remoteConns[c].read

Fairness ==
  /\ WF_vars(OnTick)
  /\ \A c \in Conns : SF_vars(PeerReads(c))
  /\ \A id \in 0..(MaxRequests - 1) : SF_vars(RemoteReads(id))
  /\ SF_vars(RemotesHeard)

FairSpec == Spec /\ Fairness

-----------------------------------------------------------------------------
(* Properties.                                                             *)

\* A request is written to its stream at most once, through blocked writes,
\* failing streams and connections that go away: it may be a transaction.
SubmittedAtMostOnce == \A b \in Bodies : submitted[b] <= 1

\* No connection is left hanging: one that is open has a stream of the route it
\* asked for, or the error and the close mark that end it are queued, whichever
\* side failed in which part of the tick.
OpenHasStream ==
  \A c \in Conns : ws[c] = "open" =>
    \/ c \in DOMAIN remoteConns /\ remoteConns[c].path = path[c]
    \/ c \in DOMAIN wsResponses /\ wsResponses[c].close

\* A failure seen on the side of the remote, by a write, a read or a message for
\* nobody, takes both sides down in the same part of the tick.  Only
\* tick_send_response leaves a stream behind, for it does not know the streams:
\* when it shuts a connection after its error, or when the write of that error
\* fails, and then the entry is left as well.  No stream is left once the
\* connection was reported closed.
StreamsLeftBehind ==
  \A c \in DOMAIN remoteConns :
    \/ ws[c] \in {"open", "shut"}
    \/ ws[c] = "dropped" /\ c \in DOMAIN wsResponses

\* The state as RelayContract sees it.
LiveConns == {c \in Conns : ws[c] = "open"}

Linked == DOMAIN remoteConns

Owed == {wsReqs[id] : id \in DOMAIN wsReqs}

Sent == {b \in Bodies : submitted[b] > 0}

Contract ==
  INSTANCE RelayContract
    WITH live <- LiveConns, linked <- Linked, owed <- Owed, submitted <- Sent

\* No message is dropped without a trace, also if another one overtook it: what
\* leaves ws_reqs was submitted in that step, or its connection is down.  And no
\* open connection loses its stream, whichever part of the tick saw it break.
KeepsContract == Contract!Spec

\* ws_reqs does not leak: every request is written or given up, also when its
\* stream or its connection is gone.
NoWsRequestStays ==
  \A id \in 0..(MaxRequests - 1) : id \in DOMAIN wsReqs ~> id \notin DOMAIN wsReqs

\* A stream left behind ends with the next message of its remote, even if the
\* server never reports the connection closed.
LeftStreamsEnd ==
  \A c \in Conns :
    (c \in Readable /\ ws[c] # "open") ~> c \notin DOMAIN remoteConns
=============================================================================
