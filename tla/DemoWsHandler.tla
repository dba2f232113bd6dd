--------------------------- MODULE DemoWsHandler ---------------------------
(***************************************************************************)
(* The websocket handler of demo mode: DemoWsHandler of                    *)
(* src/apps/1rpc/src/handler.rs.  A client opens a channel at /ws/{token}; *)
(* for each HTTP request forwarded with that token, the handler queues     *)
(* what was protected of it for the channel.  Callbacks of the server and  *)
(* the tick run on one thread, in any order.                               *)
(***************************************************************************)
EXTENDS WsConns

CONSTANTS
  Tokens,
  BadPath,     \* stands for the paths that do not start with "/ws/"
  NoToken,     \* stands for a request path without a token
  MaxDetails   \* bound: HTTP requests forwarded in one run

ASSUME DemoConstants ==
  /\ MaxDetails \in Nat
  /\ BadPath \notin Tokens
  /\ NoToken \notin Tokens

VARIABLES
  tokenToConn,   \* token_to_conn
  connToToken,   \* conn_to_token
  path,          \* history: what each connection was opened with
  witnessed      \* history: the token of each forwarded HTTP request

registry == <<tokenToConn, connToToken>>

vars == <<wsVars, registry, path, witnessed>>

Details == 1..MaxDetails

TypeOK ==
  /\ WsTypeOK
  /\ DOMAIN tokenToConn \subseteq Tokens
  /\ \A t \in DOMAIN tokenToConn : tokenToConn[t] \in Conns
  /\ DOMAIN connToToken \subseteq Conns
  /\ \A c \in DOMAIN connToToken : connToToken[c] \in Tokens
  /\ path \in [Conns -> Tokens \cup {BadPath}]
  /\ witnessed \in Seq(Tokens \cup {NoToken})
  /\ Len(witnessed) <= MaxDetails

Init ==
  /\ WsInit
  /\ tokenToConn = Empty
  /\ connToToken = Empty
  /\ path = [c \in Conns |-> BadPath]
  /\ witnessed = <<>>

-----------------------------------------------------------------------------

\* Mutant of HasToken: the prefix of the path is not looked at.
HasTokenAny(p) == TRUE

\* A path that starts with "/ws/" always has a token, if an empty one.
HasToken(p) == p # BadPath

\* on_connection_open.  The latest channel of a token takes it over.
OnConnectionOpen(c, p) ==
  /\ Opened(c)
  /\ path' = [path EXCEPT ![c] = p]
  /\ \/ /\ ~HasToken(p)
        /\ wsResponses' = AddRawClosed(wsResponses, c, LastWord)
        /\ UNCHANGED registry
     \/ /\ HasToken(p)
        /\ tokenToConn' = Put(tokenToConn, p, c)
        /\ connToToken' = Put(connToToken, c, p)
        /\ UNCHANGED wsResponses
  /\ UNCHANGED <<sent, witnessed>>

\* Mutant of TokensOf: the token stays behind.
TokensOfNone(c) == {}

\* What on_connection_close takes out of token_to_conn, be it the entry of this
\* connection or of one that took the token over.
TokensOf(c) == {t \in Tokens : c \in DOMAIN connToToken /\ connToToken[c] = t}

OnConnectionClose(c) ==
  /\ Closed(c)
  /\ tokenToConn' = Without(tokenToConn, TokensOf(c))
  /\ connToToken' = Without(connToToken, {c})
  /\ UNCHANGED <<wsResponses, sent, path, witnessed>>

\* Mutant of Channels: a request without a channel goes to some other one.
ChannelsAny(t) == Range(tokenToConn)

Channels(t) == {tokenToConn[u] : u \in {t} \cap DOMAIN tokenToConn}

\* witness_request, the hook of every HTTP request that is forwarded.
WitnessRequest(t) ==
  LET d == Len(witnessed) + 1
  IN  /\ d <= MaxDetails
      /\ witnessed' = Append(witnessed, t)
      /\ \/ /\ Channels(t) = {}
            /\ UNCHANGED wsResponses
         \/ \E c \in Channels(t) : wsResponses' = AddRaw(wsResponses, c, d)
      /\ UNCHANGED <<ws, sent, registry, path>>

\* tick_ws: tick_ws_reqs and tick_ws_recv_remote do nothing in this handler.
TickWs ==
  /\ TickSendResponse
  /\ UNCHANGED <<registry, path, witnessed>>

Next ==
  \/ \E c \in Conns, p \in Tokens \cup {BadPath} : OnConnectionOpen(c, p)
  \/ \E c \in Conns : OnConnectionClose(c)
  \/ \E t \in Tokens \cup {NoToken} : WitnessRequest(t)
  \/ TickWs

Spec == Init /\ [][Next]_vars

\* The server keeps ticking, and the peer of a connection does not block the
\* writer for ever: it reads on or its connection fails.
PeerReads(c) == WriteDone(c) /\ UNCHANGED <<registry, path, witnessed>>

FairSpec == Spec /\ \A c \in Conns : WF_vars(PeerReads(c))

-----------------------------------------------------------------------------
(* Properties.                                                             *)

\* The two maps agree: whoever a token is registered for is registered under
\* that token, and its closing was not reported yet, over take-overs and
\* closings in any order.  So on_connection_close always finds what to take out
\* and witness_request never queues for a connection reported closed.
RegistryMatches ==
  \A t \in DOMAIN tokenToConn :
    LET c == tokenToConn[t]
    IN  /\ c \in DOMAIN connToToken
        /\ connToToken[c] = t
        /\ ws[c] # "closed"

\* The details of a request are written to a channel opened with its token, and
\* to one such channel only, also when the token moved to another one while the
\* details were queued.
DetailsToOwner ==
  /\ \A c \in Conns : \A d \in Range(sent[c]) \cap Details :
       witnessed[d] = path[c]
  /\ \A c1, c2 \in Conns :
       c1 # c2 => Range(sent[c1]) \cap Range(sent[c2]) \subseteq {LastWord}

\* README.md promises the client that opened a channel the details of the
\* requests it makes with the token.  So, first, while a channel of a token is
\* open, the token leads to one of its channels.
OpenChannelRegistered ==
  \A c \in Conns :
    ws[c] = "open" /\ path[c] \in Tokens => path[c] \in DOMAIN tokenToConn

\* And, second, details once queued for a channel are not lost before they are
\* written, as long as the channel is open.
QueuedDetailsKept ==
  [][\A c \in Conns :
       c \in DOMAIN wsResponses /\ ws'[c] = "open" =>
         \A d \in Range(wsResponses[c].items) :
            \/ d \in Range(sent'[c])
            \/ c \in DOMAIN wsResponses' /\ d \in Range(wsResponses'[c].items)]_vars
=============================================================================
