------------------------------ MODULE WsConns ------------------------------
(***************************************************************************)
(* What the two websocket handlers share: the server's side of the local   *)
(* websocket connections (WsServerConns of the external crate net_http, as *)
(* the handlers use it), the responses queued for them (ws_responses of    *)
(* OneRpcJsonrpcForwarderHandler) and the step that writes the queue,      *)
(* tick_send_response of the trait JsonrpcForwarderWsHandler.              *)
(***************************************************************************)
EXTENDS JsonrpcMgr

CONSTANT Conns    \* ids of the websocket connections; an id is never reused

VARIABLES
  ws,           \* connection -> where it is in its life, see WsStates
  wsResponses,  \* ws_responses
  sent          \* history: the messages written to each connection

wsVars == <<ws, wsResponses, sent>>

\* "dropped": removed by a handler after a failure; "shut": removed because its
\* entry asked for it.  The server may still call on_close_ws_conn for both.
\* "closed": that call is over, or the peer was first and it is, too.
WsStates == {"new", "open", "dropped", "shut", "closed"}

\* Messages are numbers; LastWord is an error text that announces the closing.
LastWord == 0

WsTypeOK ==
  /\ ws \in [Conns -> WsStates]
  /\ DOMAIN wsResponses \subseteq Conns
  /\ \A c \in DOMAIN wsResponses :
       wsResponses[c] \in [kind : {"raw", "jsonrpc"}, items : Seq(Nat),
                           close : BOOLEAN]
  /\ sent \in [Conns -> Seq(Nat)]

WsInit ==
  /\ ws = [c \in Conns |-> "new"]
  /\ wsResponses = Empty
  /\ sent = [c \in Conns |-> <<>>]

-----------------------------------------------------------------------------

Opened(c) ==
  /\ ws[c] = "new"
  /\ ws' = [ws EXCEPT ![c] = "open"]

Closed(c) ==
  /\ ws[c] \in {"open", "dropped", "shut"}
  /\ ws' = [ws EXCEPT ![c] = "closed"]

\* ws_conns.remove: nothing happens to a connection that is not there.
Drop(cs) ==
  [c \in Conns |-> IF c \in cs /\ ws[c] = "open" THEN "dropped" ELSE ws[c]]

-----------------------------------------------------------------------------
(* tick_send_response.  A write that would block leaves everything to the  *)
(* next tick, the closing too; one that fails drops the connection but not *)
(* the entry, nor does the entry of a connection that is gone leave.       *)

\* Mutant of Writable: raw data is left out.
WritableJsonrpc ==
  {c \in DOMAIN wsResponses : ws[c] = "open" /\ wsResponses[c].kind = "jsonrpc"}

Writable == {c \in DOMAIN wsResponses : ws[c] = "open"}

\* Mutant of Finished: the entry stays after the write.
FinishedNever(ok, failed) == {}

Finished(ok, failed) == ok

\* Mutants of Closing: a blocked write does not keep the connection open; the
\* close mark is ignored.
ClosingBlocked(ok, failed) == {c \in Writable \ failed : wsResponses[c].close}
ClosingNever(ok, failed)   == {}

Closing(ok, failed) == {c \in ok : wsResponses[c].close}

TickSendResponse ==
  \E ok \in SUBSET Writable : \E failed \in SUBSET (Writable \ ok) :
    /\ sent' = [c \in Conns |-> IF c \in ok THEN sent[c] \o wsResponses[c].items
                                ELSE sent[c]]
    /\ ws' = [c \in Conns |-> IF c \in failed THEN "dropped"
                              ELSE IF c \in Closing(ok, failed) THEN "shut"
                              ELSE ws[c]]
    /\ wsResponses' = Without(wsResponses, Finished(ok, failed))

\* A tick in which the write to this connection, if any, does not block.
WriteDone(c) ==
  TickSendResponse /\ (c \notin DOMAIN wsResponses' \/ ws'[c] # "open")

-----------------------------------------------------------------------------
(* Properties of both handlers.                                            *)

\* A connection is shut only after its last word was written: the remark in the
\* code that closing at the end of the loop is safe.
ShutAfterLastWord ==
  \A c \in Conns :
    ws[c] = "shut" => sent[c] # <<>> /\ c \notin DOMAIN wsResponses

\* The messages relayed over a connection arrive in the order they were made
\* and none of them twice, through an entry that is overwritten, appended to
\* and retried after a blocked write.
InOrder ==
  \A c \in Conns : \A i, j \in 1..Len(sent[c]) :
    i < j /\ sent[c][i] # LastWord /\ sent[c][j] # LastWord
      => sent[c][i] < sent[c][j]

\* The entry of a connection that is gone stays in ws_responses, but it does not
\* grow, and none is added: a connection leaves one entry at most.
GoneLeavesOneEntry ==
  [][\A c \in Conns : ws[c] = "closed" =>
       /\ c \in DOMAIN wsResponses' <=> c \in DOMAIN wsResponses
       /\ c \in DOMAIN wsResponses => wsResponses'[c] = wsResponses[c]]_wsVars

\* What is queued for an open connection is written, unless the connection goes
\* away: a write that blocked is tried again.
QueueDrains ==
  \A c \in Conns :
    (c \in DOMAIN wsResponses /\ ws[c] = "open")
      ~> (c \notin DOMAIN wsResponses \/ ws[c] # "open")

\* A connection that was refused is closed, also when the error text could not
\* be written at once.
RefusedGetClosed ==
  \A c \in Conns :
    (ws[c] = "open" /\ c \in DOMAIN wsResponses /\ wsResponses[c].close)
      ~> ws[c] # "open"
=============================================================================
