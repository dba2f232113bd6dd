------------------------ MODULE HttpForwarder_proofs ------------------------
(***************************************************************************)
(* What is proved of HttpForwarder for every number of connections,        *)
(* routes and requests.                                                    *)
(***************************************************************************)
EXTENDS HttpForwarder, JsonrpcMgr_proofs, TLAPS

-----------------------------------------------------------------------------
(* The inductive invariant: TypeOK, NoClientForgotten and PendingUnanswered *)
(* joined with what makes an answer find its request.                       *)

\* Ids are given out in order, to requests and so to messages.
IdsInOrder ==
  /\ nextId <= Len(asked)
  /\ \A id \in DOMAIN reqs : id < nextId
  /\ \A m \in remote \cup inbox : m.id < nextId

\* A request keeps the connection it came from.
ReqsOfAsker ==
  \A id \in DOMAIN reqs :
    /\ reqs[id].body <= Len(asked)
    /\ asked[reqs[id].body].conn = reqs[id].conn

\* An answer whose id is in the map answers the request under that id.
AnswersMatch ==
  \A m \in remote \cup inbox : m.id \in DOMAIN reqs => reqs[m.id].body = m.body

\* What is not marked sent was not sent.
UnsentNotSent ==
  /\ \A id \in DOMAIN reqs : reqs[id].elapsed = NotSent => sends[reqs[id].body] = 0
  /\ \A b \in Bodies : b > Len(asked) => sends[b] = 0

\* The server's own errors wait for the connection that asked and close it.
ErrorsOfAsker ==
  \A c \in DOMAIN responses :
    /\ responses[c].kind = "jsonrpc"
    /\ responses[c].close
    /\ responses[c].items # <<>>
    /\ \A i \in 1..Len(responses[c].items) :
         /\ responses[c].items[i] <= Len(asked)
         /\ asked[responses[c].items[i]].conn = c

OutOfAsked == \A r \in out : r.body <= Len(asked)

NewAsksNothing == \A c \in Conns : conn[c] = "new" => ~HasAsked(c)

IInv ==
  /\ TypeOK
  /\ IdsInOrder
  /\ ReqsOfAsker
  /\ AnswersMatch
  /\ UnsentNotSent
  /\ ErrorsOfAsker
  /\ OutOfAsked
  /\ NewAsksNothing
  /\ NoClientForgotten
  /\ RepliesReachAsker
  /\ SentAtMostOnce
  /\ PendingUnanswered

-----------------------------------------------------------------------------
(* Type correctness.                                                       *)

LEMMA InitTypeOK == Init => TypeOK
<1> SUFFICES ASSUME Init PROVE TypeOK
  OBVIOUS
<1>1. asked \in Seq([conn : Conns, req : Shapes]) /\ Len(asked) <= MaxRequests
  BY ConstantsAssumption DEF Init
<1>2. nextId \in 0..(IdSpace - 1)
  BY ConstantsAssumption DEF Init
<1>3. DOMAIN reqs = {} /\ DOMAIN responses = {}
  BY EmptyMap DEF Init
<1> QED BY <1>1, <1>2, <1>3 DEF Init, TypeOK, Bodies

LEMMA NewHttpRequestTypeOK ==
  ASSUME TypeOK, NEW c \in Conns, NEW q \in Shapes, OnNewHttpRequest(c, q)
  PROVE  TypeOK'
<1> DEFINE b == Len(asked) + 1
<1>1. b \in Bodies /\ asked' = Append(asked, [conn |-> c, req |-> q])
  BY ConstantsAssumption DEF TypeOK, OnNewHttpRequest, Bodies
<1>2. /\ asked' \in Seq([conn : Conns, req : Shapes])
      /\ Len(asked') <= MaxRequests
  BY <1>1, ConstantsAssumption DEF TypeOK, Bodies
<1>3. CASE Refused(q)
  <2>1. responses' = AddSingleErrorMsgClosed(responses, c, b) /\ UNCHANGED <<nextId, reqs>>
    BY <1>3 DEF OnNewHttpRequest
  <2>2. /\ DOMAIN responses' \subseteq Conns
        /\ \A x \in DOMAIN responses' :
             responses'[x] \in [kind : {"raw", "jsonrpc"}, items : Seq(Bodies),
                               close : BOOLEAN]
    BY <2>1, <1>1 DEF TypeOK, AddSingleErrorMsgClosed, ResponseAndClose, Put
  <2> QED BY <2>1, <2>2, <1>2 DEF TypeOK, OnNewHttpRequest
<1>4. CASE ~Refused(q)
  <2>1. /\ reqs' = Put(reqs, nextId, NewRequest(c, q, b))
        /\ nextId' = NextReqId(nextId, IdSpace)
        /\ UNCHANGED responses
    BY <1>4 DEF OnNewHttpRequest, Push
  <2>2. nextId' \in 0..(IdSpace - 1)
    BY <2>1, ConstantsAssumption DEF NextReqId, TypeOK
  <2>3. NewRequest(c, q, b) \in Request
    BY <1>4, <1>1, ConstantsAssumption DEF NewRequest, Refused, HttpRoutes, NotSent, Request
  <2>4. DOMAIN reqs' \subseteq Nat /\ \A id \in DOMAIN reqs' : reqs'[id] \in Request
    BY <2>1, <2>3 DEF TypeOK, Put
  <2> QED BY <2>1, <2>2, <2>4, <1>2 DEF TypeOK, OnNewHttpRequest
<1> QED BY <1>3, <1>4

\* Setting the time of a request changes nothing else of it.
LEMMA SetElapsed ==
  ASSUME NEW r \in Request, NEW e \in NotSent..(Timeout + 1)
  PROVE  /\ [r EXCEPT !.elapsed = e] \in Request
         /\ [r EXCEPT !.elapsed = e].conn = r.conn
         /\ [r EXCEPT !.elapsed = e].path = r.path
         /\ [r EXCEPT !.elapsed = e].body = r.body
         /\ [r EXCEPT !.elapsed = e].elapsed = e
  BY DEF Request

\* Sending marks the requests that were sent, and changes nothing else.
LEMMA MarkSentReqs ==
  ASSUME TypeOK, NEW found
  PROVE  /\ DOMAIN MarkSent(found) = DOMAIN reqs
         /\ \A id \in DOMAIN reqs :
              /\ MarkSent(found)[id] \in Request
              /\ MarkSent(found)[id].conn = reqs[id].conn
              /\ MarkSent(found)[id].path = reqs[id].path
              /\ MarkSent(found)[id].body = reqs[id].body
              /\ MarkSent(found)[id].elapsed =
                   IF id \in found THEN 0 ELSE reqs[id].elapsed
<1>1. 0 \in NotSent..(Timeout + 1)
  BY ConstantsAssumption DEF NotSent
<1>2. DOMAIN MarkSent(found) = DOMAIN reqs
  BY DEF MarkSent
<1>3. ASSUME NEW id \in DOMAIN reqs
      PROVE  /\ MarkSent(found)[id] \in Request
             /\ MarkSent(found)[id].conn = reqs[id].conn
             /\ MarkSent(found)[id].path = reqs[id].path
             /\ MarkSent(found)[id].body = reqs[id].body
             /\ MarkSent(found)[id].elapsed =
                  IF id \in found THEN 0 ELSE reqs[id].elapsed
  <2>1. reqs[id] \in Request
    BY DEF TypeOK
  <2>2. MarkSent(found)[id] =
          IF id \in found THEN [reqs[id] EXCEPT !.elapsed = 0] ELSE reqs[id]
    BY DEF MarkSent
  <2> QED BY <2>1, <2>2, <1>1, SetElapsed
<1> QED BY <1>2, <1>3

\* So does the passing of time.
LEMMA ElapseReqs ==
  ASSUME TypeOK, Elapse
  PROVE  /\ DOMAIN reqs' = DOMAIN reqs
         /\ \A id \in DOMAIN reqs :
              /\ reqs'[id] \in Request
              /\ reqs'[id].conn = reqs[id].conn
              /\ reqs'[id].body = reqs[id].body
              /\ reqs'[id].elapsed = NotSent => reqs[id].elapsed = NotSent
<1>1. DOMAIN reqs' = DOMAIN reqs
  BY DEF Elapse
<1>2. ASSUME NEW id \in DOMAIN reqs
      PROVE  /\ reqs'[id] \in Request
             /\ reqs'[id].conn = reqs[id].conn
             /\ reqs'[id].body = reqs[id].body
             /\ reqs'[id].elapsed = NotSent => reqs[id].elapsed = NotSent
  <2>1. reqs[id] \in Request
    BY DEF TypeOK
  <2>2. CASE reqs[id].elapsed \in 0..Timeout
    <3>1. reqs'[id] = [reqs[id] EXCEPT !.elapsed = reqs[id].elapsed + 1]
      BY <2>2 DEF Elapse
    <3>2. /\ reqs[id].elapsed + 1 \in NotSent..(Timeout + 1)
          /\ reqs[id].elapsed + 1 # NotSent
      BY <2>2, ConstantsAssumption DEF NotSent
    <3> QED BY <2>1, <3>1, <3>2, SetElapsed
  <2>3. CASE reqs[id].elapsed \notin 0..Timeout
    BY <2>1, <2>3 DEF Elapse
  <2> QED BY <2>2, <2>3
<1> QED BY <1>1, <1>2

LEMMA RemoveConnsType ==
  ASSUME TypeOK, NEW cs
  PROVE  RemoveConns(cs) \in [Conns -> {"new", "open", "closing", "gone"}]
  BY DEF TypeOK, RemoveConns

LEMMA AfterWritesType ==
  ASSUME TypeOK, NEW written, NEW failed
  PROVE  AfterWrites(written, failed) \in [Conns -> {"new", "open", "closing", "gone"}]
  BY DEF TypeOK, AfterWrites

LEMMA TickHttpReqsTypeOK ==
  ASSUME TypeOK, TickHttpReqs
  PROVE  TypeOK'
<1>1. PICK found \in SUBSET Unsent :
        /\ pools' = pools \cup {reqs[id].path : id \in found}
        /\ reqs' = Pop(MarkSent(found), Overdue)
        /\ \E wired \in SUBSET found :
             /\ remote' = remote \cup Written(wired)
             /\ sends' = CountSends(wired)
  BY DEF TickHttpReqs
<1>2. PICK wired \in SUBSET found :
        /\ remote' = remote \cup Written(wired)
        /\ sends' = CountSends(wired)
  BY <1>1
<1>3. found \subseteq DOMAIN reqs
  BY DEF Unsent
<1>4. conn' \in [Conns -> {"new", "open", "closing", "gone"}]
  BY RemoveConnsType DEF TickHttpReqs
<1>5. DOMAIN reqs' \subseteq Nat /\ \A id \in DOMAIN reqs' : reqs'[id] \in Request
  BY <1>1, MarkSentReqs DEF TypeOK, Pop, Without, Restrict
<1>6. pools' \subseteq DOMAIN Scheme
  BY <1>1, <1>3 DEF TypeOK, Request
<1>7. remote' \subseteq Message
  BY <1>2, <1>3 DEF TypeOK, Written, Message, Request
<1>8. sends' \in [Bodies -> Nat]
  BY <1>2 DEF TypeOK, CountSends
<1> QED BY <1>4, <1>5, <1>6, <1>7, <1>8 DEF TypeOK, TickHttpReqs

\* What tick_http_recv_remote does, for one choice of what is read and lost.
Reading(broken, unread, lost) ==
  LET hits == Known(inbox \ unread)
  IN  /\ broken \in SUBSET pools
      /\ unread \in SUBSET Of(inbox, broken)
      /\ lost \in SUBSET Of(remote \cup unread, broken)
      /\ remote' = remote \ lost
      /\ inbox' = unread \ lost
      /\ reqs' = Pop(reqs, {m.id : m \in hits})
      /\ \E ok \in SUBSET {m \in hits : conn[reqs[m.id].conn] # "gone"} :
           /\ out' = out \cup {ReplyTo(m) : m \in ok}
           /\ conn' = AfterWrites({reqs[m.id].conn : m \in ok},
                                  {reqs[m.id].conn : m \in hits \ ok})

LEMMA TickHttpRecvRemoteTypeOK ==
  ASSUME TypeOK, TickHttpRecvRemote
  PROVE  TypeOK'
<1>1. PICK broken, unread, lost : Reading(broken, unread, lost)
  BY DEF TickHttpRecvRemote, Reading
<1> DEFINE hits == Known(inbox \ unread)
<1>2. PICK ok \in SUBSET {m \in hits : conn[reqs[m.id].conn] # "gone"} :
        /\ out' = out \cup {ReplyTo(m) : m \in ok}
        /\ conn' = AfterWrites({reqs[m.id].conn : m \in ok},
                               {reqs[m.id].conn : m \in hits \ ok})
  BY <1>1 DEF Reading
<1>3. conn' \in [Conns -> {"new", "open", "closing", "gone"}]
  BY <1>2, AfterWritesType
<1>4. DOMAIN reqs' \subseteq Nat /\ \A id \in DOMAIN reqs' : reqs'[id] \in Request
  BY <1>1 DEF TypeOK, Pop, Without, Restrict, Reading
<1>5. remote' \subseteq Message /\ inbox' \subseteq Message
  BY <1>1 DEF TypeOK, Of, Reading
<1>6. \A m \in ok : m \in Message /\ m.id \in DOMAIN reqs
  BY <1>2 DEF TypeOK, Known
<1>7. \A m \in ok : ReplyTo(m) \in [conn : Conns, body : Bodies, kind : {"error", "result"}]
  BY <1>6 DEF TypeOK, ReplyTo, Message, Request
<1>8. out' \subseteq [conn : Conns, body : Bodies, kind : {"error", "result"}]
  BY <1>2, <1>7 DEF TypeOK
<1> QED BY <1>3, <1>4, <1>5, <1>8 DEF TypeOK, TickHttpRecvRemote

LEMMA TickHttpSendResponseTypeOK ==
  ASSUME TypeOK, TickHttpSendResponse
  PROVE  TypeOK'
<1>1. PICK ok \in SUBSET {c \in DOMAIN responses : conn[c] # "gone"} :
        /\ out' = out \cup UNION {Errors(c) : c \in ok}
        /\ conn' = AfterWrites({c \in ok : responses[c].close},
                               DOMAIN responses \ ok)
        /\ responses' = Empty
  BY DEF TickHttpSendResponse, LeftToSend
<1>2. conn' \in [Conns -> {"new", "open", "closing", "gone"}]
  BY <1>1, AfterWritesType
<1>3. DOMAIN responses' = {}
  BY <1>1, EmptyMap
<1>4. \A c \in ok : Errors(c) \subseteq [conn : Conns, body : Bodies, kind : {"error", "result"}]
  BY DEF TypeOK, Errors, Range
<1>5. out' \subseteq [conn : Conns, body : Bodies, kind : {"error", "result"}]
  BY <1>1, <1>4 DEF TypeOK
<1> QED BY <1>2, <1>3, <1>5 DEF TypeOK, TickHttpSendResponse

LEMMA EnvironmentTypeOK ==
  ASSUME TypeOK,
         \/ OnTick
         \/ TickWs
         \/ \E c \in Conns : Connect(c) \/ DropConn(c)
         \/ \E m \in remote : RemoteAnswer(m)
         \/ Elapse
  PROVE  TypeOK'
<1>1. CASE OnTick
  BY <1>1 DEF OnTick, TypeOK
<1>2. CASE TickWs
  BY <1>2 DEF TickWs, TypeOK
<1>3. CASE \E c \in Conns : Connect(c) \/ DropConn(c)
  BY <1>3 DEF Connect, DropConn, TypeOK
<1>4. CASE \E m \in remote : RemoteAnswer(m)
  BY <1>4 DEF RemoteAnswer, TypeOK
<1>5. CASE Elapse
  BY <1>5, ElapseReqs DEF Elapse, TypeOK
<1> QED BY <1>1, <1>2, <1>3, <1>4, <1>5

\* Everything the relay's HTTP side keeps has the type it should have.
THEOREM TypeCorrect == Spec => []TypeOK
<1>1. TypeOK /\ [Next]_vars => TypeOK'
  <2> SUFFICES ASSUME TypeOK, [Next]_vars PROVE TypeOK'
    OBVIOUS
  <2>1. CASE \E c \in Conns, q \in Shapes : OnNewHttpRequest(c, q)
    BY <2>1, NewHttpRequestTypeOK
  <2>2. CASE Handlers
    BY <2>2, TickHttpReqsTypeOK, TickHttpRecvRemoteTypeOK, TickHttpSendResponseTypeOK,
       EnvironmentTypeOK DEF Handlers
  <2>3. CASE UNCHANGED vars
    BY <2>3 DEF TypeOK, vars
  <2> QED BY <2>1, <2>2, <2>3, EnvironmentTypeOK DEF Next
<1> QED BY <1>1, InitTypeOK, PTL DEF Spec

-----------------------------------------------------------------------------
(* The inductive invariant holds.                                          *)

LEMMA InitIInv == Init => IInv
<1> SUFFICES ASSUME Init PROVE IInv
  OBVIOUS
<1>1. TypeOK
  BY InitTypeOK
<1>2. DOMAIN reqs = {} /\ DOMAIN responses = {} /\ Len(asked) = 0
  BY EmptyMap DEF Init
<1>3. IdsInOrder
  BY <1>2 DEF Init, IdsInOrder
<1>4. ReqsOfAsker /\ AnswersMatch /\ ErrorsOfAsker
  BY <1>2 DEF ReqsOfAsker, AnswersMatch, ErrorsOfAsker
<1>5. UnsentNotSent /\ SentAtMostOnce
  BY <1>2 DEF Init, UnsentNotSent, SentAtMostOnce
<1>6. \A c \in Conns : ~HasAsked(c)
  BY <1>2 DEF HasAsked
<1>7. NewAsksNothing /\ NoClientForgotten
  BY <1>6 DEF NewAsksNothing, NoClientForgotten
<1>8. OutOfAsked /\ RepliesReachAsker /\ PendingUnanswered
  BY <1>2 DEF Init, OutOfAsked, RepliesReachAsker, PendingUnanswered
<1> QED BY <1>1, <1>3, <1>4, <1>5, <1>7, <1>8 DEF IInv

\* What a new request does to the history of requests.
LEMMA AskedGrows ==
  ASSUME TypeOK, NEW c \in Conns, NEW q \in Shapes, OnNewHttpRequest(c, q)
  PROVE  /\ Len(asked') = Len(asked) + 1
         /\ Len(asked) \in Nat
         /\ Len(asked) + 1 \in Bodies
         /\ \A b \in 1..Len(asked) : asked'[b] = asked[b]
         /\ asked'[Len(asked) + 1].conn = c
         /\ \A x \in Conns : HasAsked(x)' => HasAsked(x) \/ x = c
<1>1. asked' = Append(asked, [conn |-> c, req |-> q]) /\ Len(asked) + 1 <= MaxRequests
  BY DEF OnNewHttpRequest
<1>2. /\ Len(asked') = Len(asked) + 1
      /\ Len(asked) \in Nat
      /\ \A b \in 1..Len(asked) : asked'[b] = asked[b]
      /\ asked'[Len(asked) + 1] = [conn |-> c, req |-> q]
  BY <1>1 DEF TypeOK
<1>3. Len(asked) + 1 \in Bodies
  BY <1>1, <1>2, ConstantsAssumption DEF Bodies
<1>4. ASSUME NEW x \in Conns, HasAsked(x)' PROVE HasAsked(x) \/ x = c
  <2>1. PICK b \in 1..Len(asked') : asked'[b].conn = x
    BY <1>4 DEF HasAsked
  <2>2. CASE b \in 1..Len(asked)
    BY <2>1, <2>2, <1>2 DEF HasAsked
  <2>3. CASE b = Len(asked) + 1
    BY <2>1, <2>3, <1>2
  <2> QED BY <2>1, <2>2, <2>3, <1>2
<1> QED BY <1>2, <1>3, <1>4

\* The errors that wait for a connection answer requests of it.
LEMMA ListedByAsker ==
  ASSUME IInv, NEW c \in DOMAIN responses
  PROVE  /\ responses[c].items \in Seq(Bodies)
         /\ \A i \in 1..Len(responses[c].items) :
              /\ responses[c].items[i] \in 1..Len(asked)
              /\ asked[responses[c].items[i]].conn = c
<1>1. responses[c].items \in Seq(Bodies) /\ Len(asked) \in Nat
  BY DEF IInv, TypeOK
<1>2. ASSUME NEW i \in 1..Len(responses[c].items)
      PROVE  responses[c].items[i] \in 1..Len(asked)
  <2>1. responses[c].items[i] \in Bodies
    BY <1>1
  <2>2. responses[c].items[i] <= Len(asked)
    BY DEF IInv, ErrorsOfAsker
  <2> QED BY <1>1, <2>1, <2>2, ConstantsAssumption DEF Bodies
<1> QED BY <1>1, <1>2 DEF IInv, ErrorsOfAsker

\* on_new_http_request, the early returns: the error joins the others that wait
\* for the connection.
LEMMA RefusedIInv ==
  ASSUME IInv, NEW c \in Conns, NEW q \in Shapes, OnNewHttpRequest(c, q), Refused(q)
  PROVE  IInv'
<1> DEFINE b == Len(asked) + 1
<1>1. /\ responses' = AddSingleErrorMsgClosed(responses, c, b)
      /\ UNCHANGED <<nextId, reqs, phase, conn, pools, remote, inbox, sends, out>>
      /\ conn[c] \in Live
  BY DEF OnNewHttpRequest
<1>2. TypeOK /\ TypeOK'
  BY NewHttpRequestTypeOK DEF IInv
<1>3. /\ Len(asked') = b
      /\ Len(asked) \in Nat
      /\ b \in Bodies
      /\ \A i \in 1..Len(asked) : asked'[i] = asked[i]
      /\ asked'[b].conn = c
      /\ \A x \in Conns : HasAsked(x)' => HasAsked(x) \/ x = c
  BY <1>2, AskedGrows
<1> DEFINE list == Listed(responses, c)
<1>4. list \in Seq(Bodies) /\ \A i \in 1..Len(list) :
        list[i] \in 1..Len(asked) /\ asked[list[i]].conn = c
  <2>1. CASE c \in DOMAIN responses
    BY <2>1, ListedByAsker DEF Listed
  <2>2. CASE c \notin DOMAIN responses
    BY <2>2 DEF Listed
  <2> QED BY <2>1, <2>2
<1>5. /\ DOMAIN responses' = DOMAIN responses \cup {c}
      /\ responses'[c] = ResponseAndClose("jsonrpc", Append(list, b), TRUE)
      /\ \A x \in DOMAIN responses : x # c => responses'[x] = responses[x]
  <2>1. c \in DOMAIN responses => responses[c].kind # "raw"
    BY DEF IInv, ErrorsOfAsker
  <2> DEFINE entry == ResponseAndClose("jsonrpc", Append(list, b), TRUE)
  <2>2. responses' = Put(responses, c, entry)
    BY <1>1, <2>1, AddErrorIsPut, Zenon
  <2> HIDE DEF entry
  <2>3. /\ DOMAIN responses' = DOMAIN responses \cup {c}
        /\ responses'[c] = entry
        /\ \A x \in DOMAIN responses : x # c => responses'[x] = responses[x]
    BY <2>2 DEF Put
  <2> QED BY <2>3 DEF entry
<1>6. Range(Append(list, b)) = Range(list) \cup {b}
  BY <1>3, <1>4, RangeAppend
<1> HIDE DEF list, b
<1>7. responses'[c].items = Append(list, b) /\ responses'[c].close /\ responses'[c].kind = "jsonrpc"
  BY <1>5 DEF ResponseAndClose
<1>8. IdsInOrder'
  BY <1>1, <1>2, <1>3 DEF IInv, IdsInOrder, TypeOK, b
<1>9. ReqsOfAsker'
  BY <1>1, <1>2, <1>3 DEF IInv, ReqsOfAsker, TypeOK, Request, Bodies, b
<1>10. AnswersMatch' /\ SentAtMostOnce'
  BY <1>1 DEF IInv, AnswersMatch, SentAtMostOnce
<1>11. UnsentNotSent'
  BY <1>1, <1>2, <1>3 DEF IInv, UnsentNotSent, TypeOK, Bodies, b
<1>12. ErrorsOfAsker'
  <2>1. ASSUME NEW i \in 1..Len(Append(list, b))
        PROVE  Append(list, b)[i] <= Len(asked') /\ asked'[Append(list, b)[i]].conn = c
    <3>1. CASE i \in 1..Len(list)
      <4>1. Append(list, b)[i] = list[i]
        BY <3>1, <1>3, <1>4
      <4> QED BY <3>1, <4>1, <1>3, <1>4 DEF b
    <3>2. CASE i = Len(list) + 1
      <4>1. Append(list, b)[i] = b
        BY <3>2, <1>3, <1>4
      <4> QED BY <4>1, <1>3 DEF b
    <3> QED BY <2>1, <3>1, <3>2, <1>3, <1>4
  <2>2. ASSUME NEW x \in DOMAIN responses, x # c, NEW i \in 1..Len(responses[x].items)
        PROVE  /\ responses[x].items[i] <= Len(asked')
               /\ asked'[responses[x].items[i]].conn = x
    <3>1. responses[x].items[i] \in 1..Len(asked) /\ asked[responses[x].items[i]].conn = x
      BY <2>2, ListedByAsker
    <3> QED BY <3>1, <1>3 DEF b
  <2>3. ASSUME NEW x \in DOMAIN responses'
        PROVE  /\ responses'[x].kind = "jsonrpc"
               /\ responses'[x].close
               /\ responses'[x].items # <<>>
               /\ \A i \in 1..Len(responses'[x].items) :
                    /\ responses'[x].items[i] <= Len(asked')
                    /\ asked'[responses'[x].items[i]].conn = x
    <3>1. CASE x = c
      <4>1. Append(list, b) # <<>>
        BY <1>3, <1>4
      <4> QED BY <3>1, <4>1, <2>1, <1>7
    <3>2. CASE x # c
      <4>1. x \in DOMAIN responses /\ responses'[x] = responses[x]
        BY <3>2, <1>5
      <4> QED BY <3>2, <4>1, <2>2 DEF IInv, ErrorsOfAsker
    <3> QED BY <3>1, <3>2
  <2> QED BY <2>3 DEF ErrorsOfAsker
<1>13. OutOfAsked' /\ RepliesReachAsker'
  BY <1>1, <1>2, <1>3 DEF IInv, OutOfAsked, RepliesReachAsker, TypeOK, Bodies, b
<1>14. NewAsksNothing'
  BY <1>1, <1>3 DEF IInv, NewAsksNothing, Live
<1>15. NoClientForgotten'
  BY <1>1, <1>3, <1>5 DEF IInv, NoClientForgotten, Pending
<1>16. PendingUnanswered'
  <2>1. \A r \in out : r.body # b
    BY <1>2, <1>3 DEF IInv, OutOfAsked, TypeOK, Bodies, b
  <2>2. \A id \in DOMAIN reqs : reqs[id].body # b
    BY <1>2, <1>3 DEF IInv, ReqsOfAsker, TypeOK, Request, Bodies, b
  <2>3. \A r \in out : r.body \notin Range(list)
    BY DEF IInv, PendingUnanswered, list, Listed, Range
  <2>4. \A id \in DOMAIN reqs : reqs[id].body \notin Range(list)
    BY DEF IInv, PendingUnanswered, list, Listed, Range
  <2>5. ASSUME NEW x \in DOMAIN responses'
        PROVE  /\ \A r \in out : r.body \notin Range(responses'[x].items)
               /\ \A id \in DOMAIN reqs : reqs[id].body \notin Range(responses'[x].items)
    <3>1. CASE x = c
      BY <3>1, <2>1, <2>2, <2>3, <2>4, <1>6, <1>7
    <3>2. CASE x # c
      BY <3>2, <1>5 DEF IInv, PendingUnanswered
    <3> QED BY <3>1, <3>2
  <2> QED BY <2>5, <1>1 DEF IInv, PendingUnanswered
<1> QED BY <1>2, <1>8, <1>9, <1>10, <1>11, <1>12, <1>13, <1>14, <1>15, <1>16 DEF IInv

\* on_new_http_request, the rest: the request gets the next id.
LEMMA AcceptedIInv ==
  ASSUME IInv, NEW c \in Conns, NEW q \in Shapes, OnNewHttpRequest(c, q), ~Refused(q)
  PROVE  IInv'
<1> DEFINE b == Len(asked) + 1
<1>1. /\ reqs' = Put(reqs, nextId, NewRequest(c, q, b))
      /\ nextId' = NextReqId(nextId, IdSpace)
      /\ UNCHANGED <<responses, phase, conn, pools, remote, inbox, sends, out>>
      /\ conn[c] \in Live
      /\ b <= MaxRequests
  BY DEF OnNewHttpRequest, Push
<1>2. TypeOK /\ TypeOK'
  BY NewHttpRequestTypeOK DEF IInv
<1>3. /\ Len(asked') = b
      /\ Len(asked) \in Nat
      /\ b \in Bodies
      /\ \A i \in 1..Len(asked) : asked'[i] = asked[i]
      /\ asked'[b].conn = c
      /\ \A x \in Conns : HasAsked(x)' => HasAsked(x) \/ x = c
  BY <1>2, AskedGrows
<1> DEFINE new == NewRequest(c, q, b)
<1>4. new.conn = c /\ new.body = b /\ new.elapsed = NotSent
  BY DEF NewRequest
<1>5. /\ nextId \in Nat
      /\ nextId <= Len(asked)
      /\ nextId' = nextId + 1
  <2>1. nextId \in Nat /\ nextId <= Len(asked) /\ nextId + 1 < IdSpace
    BY <1>1, <1>2, <1>3, ConstantsAssumption DEF IInv, IdsInOrder, TypeOK
  <2> QED BY <1>1, <2>1, NextReqIdCounts, ConstantsAssumption
<1> HIDE DEF new, b
<1>6. /\ DOMAIN reqs' = DOMAIN reqs \cup {nextId}
      /\ nextId \notin DOMAIN reqs
      /\ reqs'[nextId] = new
      /\ \A id \in DOMAIN reqs : reqs'[id] = reqs[id]
  <2>1. nextId \notin DOMAIN reqs
    BY <1>5 DEF IInv, IdsInOrder
  <2> QED BY <1>1, <2>1 DEF Put, new
<1>7. IdsInOrder'
  <2>1. nextId' <= Len(asked')
    BY <1>3, <1>5 DEF b
  <2>2. \A id \in DOMAIN reqs' : id < nextId'
    BY <1>5, <1>6, <1>2 DEF IInv, IdsInOrder, TypeOK
  <2>3. \A m \in remote \cup inbox : m.id \in Nat /\ m.id < nextId
    BY <1>2 DEF IInv, IdsInOrder, TypeOK, Message
  <2>4. \A m \in remote' \cup inbox' : m.id < nextId'
    BY <1>1, <1>5, <2>3
  <2> QED BY <2>1, <2>2, <2>4 DEF IdsInOrder
<1>8. ReqsOfAsker'
  <2>1. ASSUME NEW id \in DOMAIN reqs
        PROVE  reqs[id].body <= Len(asked') /\ asked'[reqs[id].body].conn = reqs[id].conn
    <3>1. reqs[id].body \in 1..Len(asked) /\ asked[reqs[id].body].conn = reqs[id].conn
      BY <1>2, <1>3 DEF IInv, ReqsOfAsker, TypeOK, Request, Bodies
    <3> QED BY <3>1, <1>3 DEF b
  <2>2. new.body <= Len(asked') /\ asked'[new.body].conn = new.conn
    BY <1>3, <1>4 DEF b
  <2> QED BY <2>1, <2>2, <1>6 DEF ReqsOfAsker
<1>9. AnswersMatch'
  <2>1. \A m \in remote \cup inbox : m.id # nextId
    BY <1>2, <1>5 DEF IInv, IdsInOrder, TypeOK, Message
  <2> QED BY <1>1, <1>6, <2>1 DEF IInv, AnswersMatch
<1>10. UnsentNotSent'
  <2>1. \A i \in Bodies : i > Len(asked) => sends[i] = 0
    BY DEF IInv, UnsentNotSent
  <2>2. sends[b] = 0
    BY <2>1, <1>3 DEF b
  <2>3. \A i \in Bodies : i > Len(asked') => sends[i] = 0
    BY <2>1, <1>3 DEF b, Bodies
  <2> QED BY <2>2, <2>3, <1>1, <1>4, <1>6 DEF IInv, UnsentNotSent
<1>11. ErrorsOfAsker'
  <2>1. ASSUME NEW x \in DOMAIN responses, NEW i \in 1..Len(responses[x].items)
        PROVE  /\ responses[x].items[i] <= Len(asked')
               /\ asked'[responses[x].items[i]].conn = x
    <3>1. responses[x].items[i] \in 1..Len(asked) /\ asked[responses[x].items[i]].conn = x
      BY <2>1, ListedByAsker
    <3> QED BY <3>1, <1>3 DEF b
  <2> QED BY <2>1, <1>1 DEF IInv, ErrorsOfAsker
<1>12. OutOfAsked' /\ RepliesReachAsker'
  BY <1>1, <1>2, <1>3 DEF IInv, OutOfAsked, RepliesReachAsker, TypeOK, Bodies, b
<1>13. NewAsksNothing'
  BY <1>1, <1>3 DEF IInv, NewAsksNothing, Live
<1>14. NoClientForgotten'
  <2>1. Pending(c)' # {}
    BY <1>4, <1>6 DEF Pending
  <2>2. \A x \in Conns : Pending(x) \subseteq Pending(x)'
    BY <1>6 DEF Pending
  <2> QED BY <1>1, <1>3, <2>1, <2>2 DEF IInv, NoClientForgotten
<1>15. SentAtMostOnce'
  BY <1>1 DEF IInv, SentAtMostOnce
<1>16. PendingUnanswered'
  <2>1. \A r \in out : r.body # b
    BY <1>2, <1>3 DEF IInv, OutOfAsked, TypeOK, Bodies, b
  <2>2. \A id \in DOMAIN reqs : reqs[id].body # b
    BY <1>2, <1>3 DEF IInv, ReqsOfAsker, TypeOK, Request, Bodies, b
  <2>3. \A x \in DOMAIN responses : b \notin Range(responses[x].items)
    <3> SUFFICES ASSUME NEW x \in DOMAIN responses, NEW i \in DOMAIN responses[x].items
                 PROVE  responses[x].items[i] # b
      BY DEF Range
    <3>1. responses[x].items \in Seq(Bodies) /\ i \in 1..Len(responses[x].items)
      BY ListedByAsker
    <3>2. responses[x].items[i] \in 1..Len(asked)
      BY <3>1, ListedByAsker
    <3> QED BY <3>2, <1>3 DEF b
  <2> QED BY <2>1, <2>2, <2>3, <1>1, <1>4, <1>6 DEF IInv, PendingUnanswered
<1> QED BY <1>2, <1>7, <1>8, <1>9, <1>10, <1>11, <1>12, <1>13, <1>14, <1>15, <1>16 DEF IInv

\* tick_http_reqs: overdue requests go with their connections, the others are
\* marked before their message can exist.
LEMMA TickHttpReqsIInv ==
  ASSUME IInv, TickHttpReqs
  PROVE  IInv'
<1>1. PICK found \in SUBSET Unsent :
        /\ reqs' = Pop(MarkSent(found), Overdue)
        /\ \E wired \in SUBSET found :
             /\ remote' = remote \cup Written(wired)
             /\ sends' = CountSends(wired)
  BY DEF TickHttpReqs
<1>2. PICK wired \in SUBSET found :
        /\ remote' = remote \cup Written(wired)
        /\ sends' = CountSends(wired)
  BY <1>1
<1>3. /\ conn' = RemoveConns({reqs[id].conn : id \in Overdue})
      /\ UNCHANGED <<asked, nextId, responses, inbox, out>>
  BY DEF TickHttpReqs
<1>4. TypeOK /\ TypeOK'
  BY TickHttpReqsTypeOK DEF IInv
<1>5. /\ DOMAIN reqs' = DOMAIN reqs \ Overdue
      /\ \A id \in DOMAIN reqs' :
           /\ reqs'[id].conn = reqs[id].conn
           /\ reqs'[id].body = reqs[id].body
           /\ reqs'[id].elapsed = IF id \in found THEN 0 ELSE reqs[id].elapsed
  BY <1>1, <1>4, MarkSentReqs DEF Pop, Without, Restrict
<1>6. found \subseteq DOMAIN reqs /\ \A id \in found : reqs[id].elapsed = NotSent
  BY DEF Unsent
<1>7. \A m \in Written(wired) : \E id \in wired : m.id = id /\ m.body = reqs[id].body
  BY DEF Written
<1>8. IdsInOrder'
  BY <1>2, <1>3, <1>5, <1>6, <1>7 DEF IInv, IdsInOrder
<1>9. ReqsOfAsker'
  BY <1>3, <1>5 DEF IInv, ReqsOfAsker
<1>10. AnswersMatch'
  BY <1>2, <1>3, <1>5, <1>7 DEF IInv, AnswersMatch
<1>11. UnsentNotSent'
  <2>1. ASSUME NEW id \in DOMAIN reqs', reqs'[id].elapsed = NotSent
        PROVE  sends'[reqs'[id].body] = 0
    <3>1. id \in DOMAIN reqs /\ id \notin found /\ reqs[id].elapsed = NotSent
      BY <2>1, <1>5 DEF NotSent
    <3>2. \A id2 \in wired : reqs[id2].body # reqs[id].body
      BY <3>1, <1>6 DEF IInv, PendingUnanswered
    <3>3. reqs[id].body \in Bodies /\ sends[reqs[id].body] = 0
      BY <3>1, <1>4 DEF IInv, UnsentNotSent, TypeOK, Request
    <3> QED BY <3>1, <3>2, <3>3, <1>2, <1>5 DEF CountSends
  <2>2. ASSUME NEW b \in Bodies, b > Len(asked)
        PROVE  sends'[b] = 0
    <3>1. \A id \in DOMAIN reqs : reqs[id].body # b
      BY <2>2, <1>4 DEF IInv, ReqsOfAsker, TypeOK, Request, Bodies
    <3> QED BY <3>1, <2>2, <1>2, <1>6 DEF CountSends, IInv, UnsentNotSent
  <2> QED BY <2>1, <2>2, <1>3 DEF UnsentNotSent
<1>12. ErrorsOfAsker' /\ OutOfAsked' /\ RepliesReachAsker'
  BY <1>3 DEF IInv, ErrorsOfAsker, OutOfAsked, RepliesReachAsker
<1>13. \A c \in Conns : conn'[c] = conn[c] \/ conn'[c] = "gone"
  BY <1>3 DEF RemoveConns
<1>14. NewAsksNothing'
  BY <1>3, <1>13 DEF IInv, NewAsksNothing, HasAsked
<1>15. NoClientForgotten'
  <2> SUFFICES ASSUME NEW c \in Conns, conn'[c] = "open", HasAsked(c)', c \notin DOMAIN responses
               PROVE  Pending(c)' # {}
    BY <1>3 DEF NoClientForgotten
  <2>1. conn[c] = "open" /\ HasAsked(c)
    BY <1>3, <1>13 DEF HasAsked
  <2>2. PICK id \in DOMAIN reqs : reqs[id].conn = c
    BY <2>1 DEF IInv, NoClientForgotten, Pending
  <2>3. id \notin Overdue
    BY <2>2, <1>3 DEF RemoveConns
  <2> QED BY <2>2, <2>3, <1>5 DEF Pending
<1>16. SentAtMostOnce'
  <2> SUFFICES ASSUME NEW b \in Bodies PROVE sends'[b] <= 1
    BY DEF SentAtMostOnce
  <2>1. CASE \E id \in wired : reqs[id].body = b
    <3>1. sends[b] = 0
      BY <2>1, <1>6 DEF IInv, UnsentNotSent
    <3> QED BY <3>1, <2>1, <1>2 DEF CountSends
  <2>2. CASE ~\E id \in wired : reqs[id].body = b
    BY <2>2, <1>2 DEF CountSends, IInv, SentAtMostOnce
  <2> QED BY <2>1, <2>2
<1>17. PendingUnanswered'
  BY <1>3, <1>5 DEF IInv, PendingUnanswered
<1> QED BY <1>4, <1>8, <1>9, <1>10, <1>11, <1>12, <1>14, <1>15, <1>16, <1>17 DEF IInv

\* tick_http_recv_remote: an answer settles the request under its id, on the
\* connection that request kept.
LEMMA TickHttpRecvRemoteIInv ==
  ASSUME IInv, TickHttpRecvRemote
  PROVE  IInv'
<1>1. PICK broken, unread, lost : Reading(broken, unread, lost)
  BY DEF TickHttpRecvRemote, Reading
<1> DEFINE hits == Known(inbox \ unread)
<1>2. /\ remote' \cup inbox' \subseteq remote \cup inbox
      /\ reqs' = Pop(reqs, {m.id : m \in hits})
  BY <1>1 DEF Reading, Of
<1>3. PICK ok \in SUBSET {m \in hits : conn[reqs[m.id].conn] # "gone"} :
        /\ out' = out \cup {ReplyTo(m) : m \in ok}
        /\ conn' = AfterWrites({reqs[m.id].conn : m \in ok},
                               {reqs[m.id].conn : m \in hits \ ok})
  BY <1>1 DEF Reading
<1>4. UNCHANGED <<asked, nextId, responses, sends>>
  BY DEF TickHttpRecvRemote
<1>5. TypeOK /\ TypeOK'
  BY TickHttpRecvRemoteTypeOK DEF IInv
<1>6. /\ DOMAIN reqs' = DOMAIN reqs \ {m.id : m \in hits}
      /\ \A id \in DOMAIN reqs' : reqs'[id] = reqs[id]
  BY <1>2 DEF Pop, Without, Restrict
<1>7. \A m \in hits : /\ m \in remote \cup inbox
                     /\ m.id \in DOMAIN reqs
                     /\ m.body = reqs[m.id].body
                     /\ m.id \notin DOMAIN reqs'
  BY <1>6 DEF Known, IInv, AnswersMatch
<1> HIDE DEF hits
<1>8. \A r \in out' : r \in out \/ \E m \in ok :
        m \in hits /\ r.body = reqs[m.id].body /\ r.conn = reqs[m.id].conn
  <2>1. \A m \in ok : /\ m \in hits
                     /\ ReplyTo(m).body = reqs[m.id].body
                     /\ ReplyTo(m).conn = reqs[m.id].conn
    BY <1>7 DEF ReplyTo
  <2> QED BY <1>3, <2>1
<1>9. IdsInOrder' /\ ReqsOfAsker' /\ AnswersMatch'
  BY <1>2, <1>4, <1>6 DEF IInv, IdsInOrder, ReqsOfAsker, AnswersMatch
<1>10. UnsentNotSent' /\ SentAtMostOnce'
  BY <1>4, <1>6 DEF IInv, UnsentNotSent, SentAtMostOnce
<1>11. ErrorsOfAsker'
  BY <1>4 DEF IInv, ErrorsOfAsker
<1>12. OutOfAsked' /\ RepliesReachAsker'
  BY <1>4, <1>7, <1>8 DEF IInv, OutOfAsked, RepliesReachAsker, ReqsOfAsker
<1>13. /\ \A c \in Conns : conn'[c] \in {conn[c], "gone", "closing"}
       /\ \A c \in Conns : conn[c] = "new" /\ conn'[c] # "gone" => conn'[c] = "new"
       /\ \A m \in hits : conn'[reqs[m.id].conn] # "open"
  <2>1. \A m \in hits : reqs[m.id].conn \in Conns
    BY <1>5, <1>7 DEF TypeOK, Request
  <2> QED BY <1>3, <2>1 DEF AfterWrites
<1>14. NewAsksNothing'
  BY <1>4, <1>13 DEF IInv, NewAsksNothing, HasAsked
<1>15. NoClientForgotten'
  <2> SUFFICES ASSUME NEW c \in Conns, conn'[c] = "open", HasAsked(c)', c \notin DOMAIN responses
               PROVE  Pending(c)' # {}
    BY <1>4 DEF NoClientForgotten
  <2>1. conn[c] = "open" /\ HasAsked(c)
    BY <1>4, <1>13 DEF HasAsked
  <2>2. PICK id \in DOMAIN reqs : reqs[id].conn = c
    BY <2>1 DEF IInv, NoClientForgotten, Pending
  <2>3. id \notin {m.id : m \in hits}
    BY <2>2, <1>13
  <2> QED BY <2>2, <2>3, <1>6 DEF Pending
<1>16. PendingUnanswered'
  <2>1. \A id \in DOMAIN reqs', m \in hits : reqs[id].body # reqs[m.id].body
    BY <1>6, <1>7 DEF IInv, PendingUnanswered
  <2>2. \A c \in DOMAIN responses, m \in hits : reqs[m.id].body \notin Range(responses[c].items)
    BY <1>7 DEF IInv, PendingUnanswered
  <2> QED BY <2>1, <2>2, <1>4, <1>6, <1>8 DEF IInv, PendingUnanswered
<1> QED BY <1>5, <1>9, <1>10, <1>11, <1>12, <1>14, <1>15, <1>16 DEF IInv

\* tick_http_send_response: the errors of a connection are written to it and the
\* connection is closed, in any case.
LEMMA TickHttpSendResponseIInv ==
  ASSUME IInv, TickHttpSendResponse
  PROVE  IInv'
<1>1. PICK ok \in SUBSET {c \in DOMAIN responses : conn[c] # "gone"} :
        /\ out' = out \cup UNION {Errors(c) : c \in ok}
        /\ conn' = AfterWrites({c \in ok : responses[c].close},
                               DOMAIN responses \ ok)
        /\ responses' = Empty
  BY DEF TickHttpSendResponse, LeftToSend
<1>2. UNCHANGED <<asked, nextId, reqs, remote, inbox, sends>>
  BY DEF TickHttpSendResponse
<1>3. TypeOK /\ TypeOK'
  BY TickHttpSendResponseTypeOK DEF IInv
<1>4. DOMAIN responses' = {}
  BY <1>1, EmptyMap
<1>5. \A r \in out' : r \in out \/ \E c \in ok : r.conn = c /\ r.body \in Range(responses[c].items)
  BY <1>1 DEF Errors
<1>6. \A c \in ok : \A b \in Range(responses[c].items) : b \in 1..Len(asked) /\ asked[b].conn = c
  <2> SUFFICES ASSUME NEW c \in ok, NEW i \in DOMAIN responses[c].items
               PROVE  /\ responses[c].items[i] \in 1..Len(asked)
                      /\ asked[responses[c].items[i]].conn = c
    BY DEF Range
  <2>1. c \in DOMAIN responses
    BY <1>1
  <2>2. responses[c].items \in Seq(Bodies)
    BY <2>1, ListedByAsker
  <2>3. i \in 1..Len(responses[c].items)
    BY <2>2
  <2> QED BY <2>1, <2>3, ListedByAsker
<1>7. OutOfAsked' /\ RepliesReachAsker'
  BY <1>2, <1>3, <1>5, <1>6 DEF IInv, OutOfAsked, RepliesReachAsker, TypeOK
<1>8. /\ \A c \in Conns : conn'[c] \in {conn[c], "gone", "closing"}
      /\ \A c \in Conns : conn[c] = "new" /\ conn'[c] # "gone" => conn'[c] = "new"
      /\ \A c \in DOMAIN responses : conn'[c] # "open"
  <2>1. \A c \in Conns : conn'[c] = IF c \in DOMAIN responses \ ok THEN "gone"
                                   ELSE IF c \in {d \in ok : responses[d].close} /\ conn[c] = "open"
                                        THEN "closing" ELSE conn[c]
    BY <1>1 DEF AfterWrites
  <2>2. \A c \in DOMAIN responses : responses[c].close
    BY DEF IInv, ErrorsOfAsker
  <2>3. DOMAIN responses \subseteq Conns
    BY <1>3 DEF TypeOK
  <2> QED BY <2>1, <2>2, <2>3
<1>9. NewAsksNothing' /\ NoClientForgotten'
  BY <1>2, <1>3, <1>8 DEF IInv, NewAsksNothing, NoClientForgotten, HasAsked, Pending, TypeOK
<1>10. ErrorsOfAsker'
  BY <1>4 DEF ErrorsOfAsker
<1>11. PendingUnanswered'
  <2>1. \A id \in DOMAIN reqs, c \in ok : reqs[id].body \notin Range(responses[c].items)
    BY <1>1 DEF IInv, PendingUnanswered
  <2> QED BY <2>1, <1>2, <1>4, <1>5 DEF IInv, PendingUnanswered
<1>12. IdsInOrder' /\ ReqsOfAsker' /\ AnswersMatch' /\ UnsentNotSent' /\ SentAtMostOnce'
  BY <1>2 DEF IInv, IdsInOrder, ReqsOfAsker, AnswersMatch, UnsentNotSent, SentAtMostOnce
<1> QED BY <1>3, <1>7, <1>9, <1>10, <1>11, <1>12 DEF IInv

\* The parts of the invariant that do not look at connections, phase or pools.
LEMMA DataUnchanged ==
  ASSUME IInv, UNCHANGED <<asked, nextId, reqs, responses, sends, out>>,
         remote' \cup inbox' \subseteq remote \cup inbox
  PROVE  /\ IdsInOrder' /\ ReqsOfAsker' /\ AnswersMatch' /\ UnsentNotSent'
         /\ ErrorsOfAsker' /\ OutOfAsked' /\ RepliesReachAsker'
         /\ SentAtMostOnce' /\ PendingUnanswered'
<1>1. IdsInOrder' /\ ReqsOfAsker' /\ AnswersMatch' /\ UnsentNotSent'
  BY DEF IInv, IdsInOrder, ReqsOfAsker, AnswersMatch, UnsentNotSent
<1>2. ErrorsOfAsker' /\ OutOfAsked' /\ RepliesReachAsker'
  BY DEF IInv, ErrorsOfAsker, OutOfAsked, RepliesReachAsker
<1>3. SentAtMostOnce' /\ PendingUnanswered'
  BY DEF IInv, SentAtMostOnce, PendingUnanswered
<1> QED BY <1>1, <1>2, <1>3

LEMMA EnvironmentIInv ==
  ASSUME IInv,
         \/ OnTick
         \/ TickWs
         \/ \E c \in Conns : Connect(c) \/ DropConn(c)
         \/ \E m \in remote : RemoteAnswer(m)
         \/ Elapse
  PROVE  IInv'
<1>1. TypeOK /\ TypeOK'
  BY EnvironmentTypeOK DEF IInv
<1>2. CASE OnTick \/ TickWs
  <2>1. NewAsksNothing' /\ NoClientForgotten'
    BY <1>2 DEF OnTick, TickWs, IInv, NewAsksNothing, NoClientForgotten, HasAsked, Pending
  <2>2. UNCHANGED <<asked, nextId, reqs, responses, remote, inbox, sends, out>>
    BY <1>2 DEF OnTick, TickWs
  <2> QED BY <1>1, <2>1, <2>2, DataUnchanged DEF IInv
<1>3. CASE \E c \in Conns : Connect(c) \/ DropConn(c)
  <2>1. UNCHANGED <<asked, nextId, reqs, responses, remote, inbox, sends, out>>
    BY <1>3 DEF Connect, DropConn
  <2>2. \A x \in Conns : conn'[x] # conn[x] =>
          conn'[x] = "gone" \/ (conn[x] = "new" /\ conn'[x] = "open")
    BY <1>1, <1>3 DEF Connect, DropConn, TypeOK
  <2>3. NewAsksNothing' /\ NoClientForgotten'
    BY <2>1, <2>2 DEF IInv, NewAsksNothing, NoClientForgotten, HasAsked, Pending
  <2> QED BY <1>1, <2>1, <2>3, DataUnchanged DEF IInv
<1>4. CASE \E m \in remote : RemoteAnswer(m)
  <2>1. UNCHANGED <<asked, nextId, reqs, responses, sends, out, conn>>
    BY <1>4 DEF RemoteAnswer
  <2>2. remote' \cup inbox' \subseteq remote \cup inbox
    BY <1>4 DEF RemoteAnswer
  <2>3. NewAsksNothing' /\ NoClientForgotten'
    BY <2>1 DEF IInv, NewAsksNothing, NoClientForgotten, HasAsked, Pending
  <2> QED BY <1>1, <2>1, <2>2, <2>3, DataUnchanged DEF IInv
<1>5. CASE Elapse
  <2>1. UNCHANGED <<asked, nextId, responses, remote, inbox, sends, out, conn>>
    BY <1>5 DEF Elapse
  <2>2. /\ DOMAIN reqs' = DOMAIN reqs
        /\ \A id \in DOMAIN reqs :
             /\ reqs'[id].conn = reqs[id].conn
             /\ reqs'[id].body = reqs[id].body
             /\ reqs'[id].elapsed = NotSent => reqs[id].elapsed = NotSent
    BY <1>1, <1>5, ElapseReqs
  <2>3. IdsInOrder' /\ ReqsOfAsker' /\ AnswersMatch' /\ UnsentNotSent'
    BY <2>1, <2>2 DEF IInv, IdsInOrder, ReqsOfAsker, AnswersMatch, UnsentNotSent
  <2>4. ErrorsOfAsker' /\ OutOfAsked' /\ RepliesReachAsker' /\ SentAtMostOnce'
    BY <2>1 DEF IInv, ErrorsOfAsker, OutOfAsked, RepliesReachAsker, SentAtMostOnce
  <2>5. NewAsksNothing' /\ NoClientForgotten'
    BY <2>1, <2>2 DEF IInv, NewAsksNothing, NoClientForgotten, HasAsked, Pending
  <2>6. PendingUnanswered'
    BY <2>1, <2>2 DEF IInv, PendingUnanswered
  <2> QED BY <1>1, <2>3, <2>4, <2>5, <2>6 DEF IInv
<1> QED BY <1>2, <1>3, <1>4, <1>5

LEMMA NextIInv == IInv /\ [Next]_vars => IInv'
<1> SUFFICES ASSUME IInv, [Next]_vars PROVE IInv'
  OBVIOUS
<1>1. CASE \E c \in Conns, q \in Shapes : OnNewHttpRequest(c, q)
  BY <1>1, RefusedIInv, AcceptedIInv
<1>2. CASE Handlers
  BY <1>2, TickHttpReqsIInv, TickHttpRecvRemoteIInv, TickHttpSendResponseIInv,
     EnvironmentIInv DEF Handlers
<1>3. CASE UNCHANGED vars
  <2>1. UNCHANGED <<phase, conn, asked, nextId, reqs, responses, pools, remote,
                    inbox, sends, out>>
    BY <1>3 DEF vars
  <2>2. TypeOK' /\ NewAsksNothing' /\ NoClientForgotten'
    BY <2>1 DEF IInv, TypeOK, NewAsksNothing, NoClientForgotten, HasAsked, Pending
  <2> QED BY <2>1, <2>2, DataUnchanged DEF IInv
<1> QED BY <1>1, <1>2, <1>3, EnvironmentIInv DEF Next

THEOREM Invariance == Spec => []IInv
  BY InitIInv, NextIInv, PTL DEF Spec

\* No client that has asked is left on an open connection with nothing pending:
\* the two maps and the closing of connections keep up with each other.
THEOREM ClientsNotForgotten == Spec => []NoClientForgotten
<1>1. IInv => NoClientForgotten
  BY DEF IInv
<1> QED BY <1>1, Invariance, PTL

\* Late answers included, no client ever reads the answer to another's request.
THEOREM RepliesCorrect == Spec => []RepliesReachAsker
<1>1. IInv => RepliesReachAsker
  BY DEF IInv
<1> QED BY <1>1, Invariance, PTL

\* The relay never submits a request twice.
THEOREM NeverSentTwice == Spec => []SentAtMostOnce
<1>1. IInv => SentAtMostOnce
  BY DEF IInv
<1> QED BY <1>1, Invariance, PTL

\* What is still owed to a client has not been answered and is owed once.
THEOREM PendingCorrect == Spec => []PendingUnanswered
<1>1. IInv => PendingUnanswered
  BY DEF IInv
<1> QED BY <1>1, Invariance, PTL

\* A tick closes or drops an open connection only when it settles something of
\* that client in the same step.
THEOREM ClosingSettles == Spec => ClosedOnlyWhenSettled
<1>1. IInv /\ [Next]_vars =>
        (\A c \in Conns :
           conn[c] = "open" /\ conn'[c] # "open" /\ phase # "serve"
             => \/ \E id \in Pending(c) : id \notin DOMAIN reqs'
                \/ c \in DOMAIN responses /\ c \notin DOMAIN responses')
  <2> SUFFICES ASSUME IInv, [Next]_vars, NEW c \in Conns,
                      conn[c] = "open", conn'[c] # "open", phase # "serve"
               PROVE  \/ \E id \in Pending(c) : id \notin DOMAIN reqs'
                      \/ c \in DOMAIN responses /\ c \notin DOMAIN responses'
    OBVIOUS
  <2>1. CASE TickHttpReqs
    <3>1. PICK id \in Overdue : reqs[id].conn = c
      BY <2>1 DEF TickHttpReqs, RemoveConns
    <3>2. id \in Pending(c) /\ id \notin DOMAIN reqs'
      BY <2>1, <3>1 DEF TickHttpReqs, Overdue, Pending, Pop, Without, Restrict
    <3> QED BY <3>2
  <2>2. CASE TickHttpRecvRemote
    <3>1. PICK broken, unread, lost : Reading(broken, unread, lost)
      BY <2>2 DEF TickHttpRecvRemote, Reading
    <3> DEFINE hits == Known(inbox \ unread)
    <3>2. PICK ok \in SUBSET hits :
            conn' = AfterWrites({reqs[m.id].conn : m \in ok},
                                {reqs[m.id].conn : m \in hits \ ok})
      BY <3>1 DEF Reading
    <3>3. PICK m \in hits : reqs[m.id].conn = c
      BY <3>2 DEF AfterWrites
    <3>4. m.id \in Pending(c)
      BY <3>3 DEF Known, Pending
    <3>5. m.id \notin DOMAIN reqs'
      BY <3>1, <3>3 DEF Reading, Pop, Without, Restrict
    <3> QED BY <3>4, <3>5
  <2>3. CASE TickHttpSendResponse
    <3>1. PICK ok \in SUBSET {x \in DOMAIN responses : conn[x] # "gone"} :
            /\ conn' = AfterWrites({x \in ok : responses[x].close},
                                   DOMAIN responses \ ok)
            /\ responses' = Empty
      BY <2>3 DEF TickHttpSendResponse, LeftToSend
    <3>2. c \in DOMAIN responses
      BY <3>1 DEF AfterWrites
    <3> QED BY <3>1, <3>2, EmptyMap
  <2>4. CASE conn' = conn
    BY <2>4
  <2> QED
    BY <2>1, <2>2, <2>3, <2>4 DEF Next, Handlers, vars, OnNewHttpRequest, OnTick,
       TickWs, Connect, DropConn, RemoteAnswer, Elapse
<1> QED BY <1>1, Invariance, PTL DEF Spec, ClosedOnlyWhenSettled

-----------------------------------------------------------------------------
(* Every step of the forwarder is a step of the contract or none.          *)

\* A request of the contract, of each of the two maps.
OfReq(id) == [conn |-> reqs[id].conn, body |-> reqs[id].body]

LEMMA OwedMembers ==
  ASSUME TypeOK
  PROVE  \A o : o \in Owed <=>
           \/ \E id \in DOMAIN reqs : o = OfReq(id)
           \/ \E c \in DOMAIN responses : \E b \in Range(responses[c].items) :
                o = [conn |-> c, body |-> b]
  BY DEF Owed, OfReq

LEMMA AskIsAsk ==
  ASSUME IInv, NEW c \in Conns, NEW q \in Shapes, OnNewHttpRequest(c, q)
  PROVE  \E r \in Contract!Request : Contract!Ask(r)
<1> DEFINE b == Len(asked) + 1
           r == [conn |-> c, body |-> b]
<1>1. TypeOK /\ TypeOK' /\ Len(asked) \in Nat /\ b \in Bodies
  BY NewHttpRequestTypeOK, AskedGrows DEF IInv
<1>2. UNCHANGED <<conn, out>>
  BY DEF OnNewHttpRequest
<1>3. \A id \in DOMAIN reqs : reqs[id].body # b
  BY <1>1 DEF IInv, ReqsOfAsker, TypeOK, Request, Bodies
<1>4. \A x \in DOMAIN responses : b \notin Range(responses[x].items)
  <2> SUFFICES ASSUME NEW x \in DOMAIN responses, NEW i \in DOMAIN responses[x].items
               PROVE  responses[x].items[i] # b
    BY DEF Range
  <2>1. responses[x].items \in Seq(Bodies) /\ i \in 1..Len(responses[x].items)
    BY ListedByAsker
  <2>2. responses[x].items[i] \in 1..Len(asked)
    BY <2>1, ListedByAsker
  <2> QED BY <2>2, <1>1
<1>5. \A a \in out : a.body # b
  BY <1>1 DEF IInv, OutOfAsked, TypeOK, Bodies
<1> HIDE DEF b
<1>6. \A o \in Owed \cup Answered : o.body # r.body
  BY <1>1, <1>3, <1>4, <1>5, OwedMembers DEF Answered, OfReq
<1>7. Owed' = Owed \cup {r}
  <2>1. CASE Refused(q)
    <3> DEFINE list == Listed(responses, c)
    <3>1. UNCHANGED reqs /\ responses' = AddSingleErrorMsgClosed(responses, c, b)
      BY <2>1 DEF OnNewHttpRequest, b
    <3>2. c \in DOMAIN responses => responses[c].kind # "raw"
      BY DEF IInv, ErrorsOfAsker
    <3> DEFINE entry == ResponseAndClose("jsonrpc", Append(list, b), TRUE)
    <3>3. responses' = Put(responses, c, entry)
      BY <3>1, <3>2, AddErrorIsPut, Zenon
    <3>4. list \in Seq(Bodies)
      BY ListedByAsker DEF Listed
    <3>5. Range(Append(list, b)) = Range(list) \cup {b}
      BY <1>1, <3>4, RangeAppend
    <3>6. entry.items = Append(list, b)
      BY DEF ResponseAndClose
    <3>7. c \notin DOMAIN responses => Range(list) = {}
      BY DEF Listed, Range
    <3>8. c \in DOMAIN responses => Range(list) = Range(responses[c].items)
      BY DEF Listed
    <3> HIDE DEF entry, list
    <3>9. /\ DOMAIN responses' = DOMAIN responses \cup {c}
          /\ responses'[c] = entry
          /\ \A x \in DOMAIN responses : x # c => responses'[x] = responses[x]
      BY <3>3 DEF Put
    <3>10. Range(responses'[c].items) = Range(list) \cup {b}
      BY <3>5, <3>6, <3>9
    <3>11. ASSUME NEW o PROVE o \in Owed' <=> o \in Owed \cup {r}
      <4>1. o \in Owed' <=>
              \/ \E id \in DOMAIN reqs : o = OfReq(id)
              \/ \E x \in DOMAIN responses' : \E i \in Range(responses'[x].items) :
                   o = [conn |-> x, body |-> i]
        BY <3>1 DEF Owed, OfReq
      <4>2. o \in Owed <=>
              \/ \E id \in DOMAIN reqs : o = OfReq(id)
              \/ \E x \in DOMAIN responses : \E i \in Range(responses[x].items) :
                   o = [conn |-> x, body |-> i]
        BY DEF Owed, OfReq
      <4> QED BY <4>1, <4>2, <3>7, <3>8, <3>9, <3>10
    <3> QED BY <3>11
  <2>2. CASE ~Refused(q)
    <3>1. /\ reqs' = Put(reqs, nextId, NewRequest(c, q, b))
          /\ UNCHANGED responses
      BY <2>2 DEF OnNewHttpRequest, Push, b
    <3>2. nextId \notin DOMAIN reqs
      BY <1>1 DEF IInv, IdsInOrder, TypeOK
    <3>3. NewRequest(c, q, b).conn = c /\ NewRequest(c, q, b).body = b
      BY DEF NewRequest
    <3>4. /\ DOMAIN reqs' = DOMAIN reqs \cup {nextId}
          /\ reqs'[nextId].conn = c
          /\ reqs'[nextId].body = b
          /\ \A id \in DOMAIN reqs : reqs'[id] = reqs[id]
      BY <3>1, <3>2, <3>3 DEF Put
    <3> QED BY <3>1, <3>4 DEF Owed
  <2> QED BY <2>1, <2>2
<1>8. r \in Contract!Request
  BY <1>1 DEF Contract!Request
<1>9. UNCHANGED <<Waiting, Answered>>
  BY <1>2 DEF Waiting, Answered
<1>10. Contract!Ask(r)
  BY <1>6, <1>7, <1>9 DEF Contract!Ask
<1> QED BY <1>8, <1>10

\* Requests that leave http_reqs are no longer owed, and nothing else changes.
LEMMA OwedWithoutReqs ==
  ASSUME IInv, NEW ids \in SUBSET DOMAIN reqs,
         DOMAIN reqs' = DOMAIN reqs \ ids,
         \A id \in DOMAIN reqs' : reqs'[id].conn = reqs[id].conn /\ reqs'[id].body = reqs[id].body,
         UNCHANGED responses
  PROVE  Owed' = Owed \ {OfReq(id) : id \in ids}
<1> SUFFICES ASSUME NEW o PROVE o \in Owed' <=> o \in Owed /\ o \notin {OfReq(id) : id \in ids}
  OBVIOUS
<1>1. o \in Owed <=>
        \/ \E id \in DOMAIN reqs : o = OfReq(id)
        \/ \E x \in DOMAIN responses : \E b \in Range(responses[x].items) :
             o = [conn |-> x, body |-> b]
  BY DEF Owed, OfReq
<1>2. o \in Owed' <=>
        \/ \E id \in DOMAIN reqs' : o = OfReq(id)
        \/ \E x \in DOMAIN responses : \E b \in Range(responses[x].items) :
             o = [conn |-> x, body |-> b]
  <2>1. \A id \in DOMAIN reqs' : [conn |-> reqs'[id].conn, body |-> reqs'[id].body] = OfReq(id)
    BY DEF OfReq
  <2> QED BY <2>1 DEF Owed
<1>3. \A id \in DOMAIN reqs, id2 \in ids : OfReq(id) = OfReq(id2) => id \in ids
  BY DEF OfReq, IInv, PendingUnanswered
<1>4. \A x \in DOMAIN responses : \A b \in Range(responses[x].items) : \A id \in ids :
        OfReq(id) # [conn |-> x, body |-> b]
  BY DEF OfReq, IInv, PendingUnanswered
<1> QED BY <1>1, <1>2, <1>3, <1>4

LEMMA HandlersSettle ==
  ASSUME IInv, Handlers
  PROVE  [Contract!Next]_(Contract!vars)
<1>1. CASE TickHttpReqs
  <2> DEFINE settled == {OfReq(id) : id \in Overdue}
  <2>1. PICK found \in SUBSET Unsent : reqs' = Pop(MarkSent(found), Overdue)
    BY <1>1 DEF TickHttpReqs
  <2>2. /\ DOMAIN reqs' = DOMAIN reqs \ Overdue
        /\ \A id \in DOMAIN reqs' : reqs'[id].conn = reqs[id].conn /\ reqs'[id].body = reqs[id].body
    BY <2>1, MarkSentReqs DEF Pop, Without, Restrict, IInv
  <2>3. Overdue \in SUBSET DOMAIN reqs
    BY DEF Overdue
  <2>4. Owed' = Owed \ settled
    BY <1>1, <2>2, <2>3, OwedWithoutReqs DEF TickHttpReqs
  <2>5. settled \in SUBSET Owed
    BY <2>3 DEF Owed, OfReq
  <2>6. Waiting' = Waiting \ Contract!ConnsOf(settled)
    <3>1. Contract!ConnsOf(settled) = {reqs[id].conn : id \in Overdue}
      <4>1. \A o \in settled : \E id \in Overdue : o.conn = reqs[id].conn
        BY DEF OfReq
      <4>2. \A id \in Overdue : \E o \in settled : o.conn = reqs[id].conn
        <5>1. \A id \in Overdue : OfReq(id) \in settled /\ OfReq(id).conn = reqs[id].conn
          BY DEF OfReq
        <5> HIDE DEF settled
        <5> QED BY <5>1
      <4> HIDE DEF settled
      <4> QED BY <4>1, <4>2 DEF Contract!ConnsOf
    <3>2. conn' = RemoveConns({reqs[id].conn : id \in Overdue})
      BY <1>1 DEF TickHttpReqs
    <3> HIDE DEF settled
    <3> QED BY <3>1, <3>2 DEF Waiting, RemoveConns
  <2>7. Answered' = Answered \cup {}
    BY <1>1 DEF TickHttpReqs, Answered
  <2>8. Contract!Settle(settled, {})
    BY <2>4, <2>6, <2>7 DEF Contract!Settle
  <2> HIDE DEF settled
  <2> QED BY <2>5, <2>8 DEF Contract!Next
<1>2. CASE TickHttpRecvRemote
  <2>1. PICK broken, unread, lost : Reading(broken, unread, lost)
    BY <1>2 DEF TickHttpRecvRemote, Reading
  <2> DEFINE hits == Known(inbox \ unread)
             ids  == {m.id : m \in hits}
  <2>2. PICK ok \in SUBSET {m \in hits : conn[reqs[m.id].conn] # "gone"} :
          /\ out' = out \cup {ReplyTo(m) : m \in ok}
          /\ conn' = AfterWrites({reqs[m.id].conn : m \in ok},
                                 {reqs[m.id].conn : m \in hits \ ok})
    BY <2>1 DEF Reading
  <2> DEFINE settled == {OfReq(id) : id \in ids}
             replied == {OfReq(m.id) : m \in ok}
  <2>3. \A m \in hits : m.id \in DOMAIN reqs /\ m.body = reqs[m.id].body
    BY DEF Known, IInv, AnswersMatch
  <2>4. /\ DOMAIN reqs' = DOMAIN reqs \ ids
        /\ \A id \in DOMAIN reqs' : reqs'[id].conn = reqs[id].conn /\ reqs'[id].body = reqs[id].body
    BY <2>1 DEF Reading, Pop, Without, Restrict
  <2>5. ids \in SUBSET DOMAIN reqs
    BY <2>3
  <2>6. Owed' = Owed \ settled
    <3> HIDE DEF ids
    <3> QED BY <1>2, <2>4, <2>5, OwedWithoutReqs DEF TickHttpRecvRemote
  <2>7. settled \in SUBSET Owed /\ replied \in SUBSET settled
    BY <2>5, <2>2 DEF Owed, OfReq
  <2>8. Waiting' = Waiting \ Contract!ConnsOf(settled)
    <3>1. Contract!ConnsOf(settled) = {reqs[m.id].conn : m \in hits}
      <4>1. \A o \in settled : \E m \in hits : o.conn = reqs[m.id].conn
        <5> HIDE DEF hits
        <5> QED BY DEF OfReq
      <4>2. \A m \in hits : \E o \in settled : o.conn = reqs[m.id].conn
        <5>1. \A m \in hits : OfReq(m.id) \in settled /\ OfReq(m.id).conn = reqs[m.id].conn
          <6> HIDE DEF hits
          <6> QED BY DEF OfReq
        <5> HIDE DEF settled, hits
        <5> QED BY <5>1
      <4> HIDE DEF settled, hits
      <4> QED BY <4>1, <4>2 DEF Contract!ConnsOf
    <3> HIDE DEF hits, settled
    <3> QED BY <2>2, <3>1 DEF Waiting, AfterWrites
  <2>9. Answered' = Answered \cup replied
    <3>1. \A m \in ok : [conn |-> ReplyTo(m).conn, body |-> ReplyTo(m).body] = OfReq(m.id)
      BY <2>2, <2>3 DEF ReplyTo, OfReq
    <3> QED BY <2>2, <3>1 DEF Answered
  <2>10. Contract!Settle(settled, replied)
    BY <2>6, <2>8, <2>9 DEF Contract!Settle
  <2> HIDE DEF settled, replied
  <2> QED BY <2>7, <2>10 DEF Contract!Next
<1>3. CASE TickHttpSendResponse
  <2>1. PICK ok \in SUBSET {c \in DOMAIN responses : conn[c] # "gone"} :
          /\ out' = out \cup UNION {Errors(c) : c \in ok}
          /\ conn' = AfterWrites({c \in ok : responses[c].close},
                                 DOMAIN responses \ ok)
          /\ responses' = Empty
    BY <1>3 DEF TickHttpSendResponse, LeftToSend
  <2> DEFINE err(c)  == {[conn |-> c, body |-> b] : b \in Range(responses[c].items)}
             settled == UNION {err(c) : c \in DOMAIN responses}
             replied == UNION {err(c) : c \in ok}
  <2>2. UNCHANGED reqs /\ DOMAIN responses' = {}
    BY <1>3, <2>1, EmptyMap DEF TickHttpSendResponse
  <2>3. Owed' = {OfReq(id) : id \in DOMAIN reqs}
    BY <2>2 DEF Owed, OfReq
  <2>4. Owed = {OfReq(id) : id \in DOMAIN reqs} \cup settled
    BY DEF Owed, OfReq
  <2>5. \A o \in settled, id \in DOMAIN reqs : o # OfReq(id)
    BY DEF OfReq, IInv, PendingUnanswered
  <2>6. \A c \in DOMAIN responses : \E o \in err(c) : o.conn = c
    <3> SUFFICES ASSUME NEW c \in DOMAIN responses PROVE \E o \in err(c) : o.conn = c
      OBVIOUS
    <3>1. responses[c].items \in Seq(Bodies) /\ responses[c].items # <<>>
      BY DEF IInv, TypeOK, ErrorsOfAsker
    <3>2. 1 \in DOMAIN responses[c].items
      BY <3>1
    <3>3. responses[c].items[1] \in Range(responses[c].items)
      BY <3>2 DEF Range
    <3>4. [conn |-> c, body |-> responses[c].items[1]] \in err(c)
      BY <3>3
    <3> HIDE DEF err
    <3> QED BY <3>4
  <2>7. Contract!ConnsOf(settled) = DOMAIN responses
    <3>1. \A c \in DOMAIN responses : c \in Contract!ConnsOf(settled)
      BY <2>6 DEF Contract!ConnsOf
    <3>2. \A o \in settled : o.conn \in DOMAIN responses
      OBVIOUS
    <3> QED BY <3>1, <3>2 DEF Contract!ConnsOf
  <2>8. Waiting' = Waiting \ DOMAIN responses
    BY <2>1 DEF Waiting, AfterWrites, IInv, ErrorsOfAsker
  <2>9. Answered' = Answered \cup replied
    <3>1. \A c \in ok : {[conn |-> e.conn, body |-> e.body] : e \in Errors(c)} = err(c)
      <4> SUFFICES ASSUME NEW c \in ok
                   PROVE  {[conn |-> e.conn, body |-> e.body] : e \in Errors(c)} = err(c)
        OBVIOUS
      <4> DEFINE bs   == Range(responses[c].items)
                 e(b) == [conn |-> c, body |-> b, kind |-> "error"]
                 key(x) == [conn |-> x.conn, body |-> x.body]
      <4>1. Errors(c) = {e(b) : b \in bs}
        BY DEF Errors
      <4>2. \A b \in bs : key(e(b)) = [conn |-> c, body |-> b]
        OBVIOUS
      <4>3. {key(x) : x \in Errors(c)} = {[conn |-> c, body |-> b] : b \in bs}
        <5> HIDE DEF bs, e, key
        <5>1. {key(x) : x \in Errors(c)} = {key(e(b)) : b \in bs}
          BY <4>1
        <5> QED BY <5>1, <4>2
      <4> QED BY <4>3
    <3>2. Answered' = Answered \cup
            {[conn |-> e.conn, body |-> e.body] : e \in UNION {Errors(c) : c \in ok}}
      BY <2>1 DEF Answered
    <3> HIDE DEF err
    <3> QED BY <3>1, <3>2
  <2>10. Owed' = Owed \ settled
    <3> HIDE DEF settled
    <3> QED BY <2>3, <2>4, <2>5
  <2>11. settled \in SUBSET Owed /\ replied \in SUBSET settled
    BY <2>1, <2>4
  <2> HIDE DEF settled, replied
  <2>12. Contract!Settle(settled, replied)
    BY <2>7, <2>8, <2>9, <2>10 DEF Contract!Settle
  <2> QED BY <2>11, <2>12 DEF Contract!Next
<1>4. CASE TickWs
  BY <1>4 DEF TickWs, Contract!vars, Waiting, Owed, Answered
<1> QED BY <1>1, <1>2, <1>3, <1>4 DEF Handlers

LEMMA NextKeepsContract == IInv /\ [Next]_vars => [Contract!Next]_(Contract!vars)
<1> SUFFICES ASSUME IInv, [Next]_vars PROVE [Contract!Next]_(Contract!vars)
  OBVIOUS
<1>1. CASE \E c \in Conns, q \in Shapes : OnNewHttpRequest(c, q)
  BY <1>1, AskIsAsk DEF Contract!Next
<1>2. CASE OnTick \/ \E m \in remote : RemoteAnswer(m)
  BY <1>2 DEF OnTick, RemoteAnswer, Contract!vars, Waiting, Owed, Answered
<1>3. CASE \E c \in Conns : Connect(c)
  <2>1. PICK c \in Conns : Connect(c)
    BY <1>3
  <2>2. UNCHANGED <<Owed, Answered>>
    BY <2>1 DEF Connect, Owed, Answered
  <2>3. c \notin Waiting /\ Waiting' = Waiting \cup {c}
    BY <2>1 DEF Connect, Waiting, IInv, TypeOK
  <2> QED BY <2>2, <2>3 DEF Contract!Next, Contract!Join
<1>4. CASE \E c \in Conns : DropConn(c)
  <2>1. PICK c \in Conns : DropConn(c)
    BY <1>4
  <2>2. UNCHANGED <<Owed, Answered>>
    BY <2>1 DEF DropConn, Owed, Answered
  <2>3. Waiting' = Waiting \ {c}
    BY <2>1 DEF DropConn, Waiting, IInv, TypeOK
  <2>4. CASE c \in Waiting
    BY <2>2, <2>3, <2>4 DEF Contract!Next, Contract!Leave
  <2>5. CASE c \notin Waiting
    BY <2>2, <2>3, <2>5 DEF Contract!vars
  <2> QED BY <2>4, <2>5
<1>5. CASE Elapse
  <2>1. UNCHANGED <<conn, responses, out>>
    BY <1>5 DEF Elapse
  <2>2. /\ DOMAIN reqs' = DOMAIN reqs \ {}
        /\ \A id \in DOMAIN reqs' : reqs'[id].conn = reqs[id].conn /\ reqs'[id].body = reqs[id].body
    BY <1>5, ElapseReqs DEF IInv
  <2>3. Owed' = Owed
    <3>1. {} \in SUBSET DOMAIN reqs /\ {OfReq(id) : id \in {}} = {}
      OBVIOUS
    <3>2. Owed' = Owed \ {OfReq(id) : id \in {}}
      BY <2>1, <2>2, <3>1, OwedWithoutReqs
    <3> QED BY <3>1, <3>2
  <2> QED BY <2>1, <2>3 DEF Contract!vars, Waiting, Answered
<1>6. CASE UNCHANGED vars
  BY <1>6 DEF vars, Contract!vars, Waiting, Owed, Answered
<1> QED BY <1>1, <1>2, <1>3, <1>4, <1>5, <1>6, HandlersSettle DEF Next

\* The forwarder keeps the contract, for any number of clients and requests.
THEOREM Refinement == Spec => KeepsContract
<1>1. Init => Contract!Init
  <2> SUFFICES ASSUME Init PROVE Contract!Init
    OBVIOUS
  <2>1. DOMAIN reqs = {} /\ DOMAIN responses = {}
    BY EmptyMap DEF Init
  <2> QED BY <2>1 DEF Init, Contract!Init, Waiting, Owed, Answered
<1> QED BY <1>1, NextKeepsContract, Invariance, PTL DEF Spec, KeepsContract, Contract!Spec

-----------------------------------------------------------------------------
(* What the contract says of the HTTP side.                                *)

\* No request is owed twice; without it two replies could settle one request.
OwedOnce == \A r, s \in Owed : r.body = s.body => r = s

\* Under the contract a request that is answered is not owed any more, and it is
\* answered once, whatever the state is that stands for what is owed.
THEOREM ContractAnswersOnce ==
  Contract!Spec => [](Contract!TypeOK /\ Contract!AnsweredOnce)
<1> DEFINE Inv == Contract!TypeOK /\ Contract!AnsweredOnce /\ OwedOnce
<1>1. Contract!Init => Inv
  BY DEF Contract!Init, Contract!TypeOK, Contract!AnsweredOnce, OwedOnce
<1>2. Inv /\ [Contract!Next]_(Contract!vars) => Inv'
  <2> SUFFICES ASSUME Inv, [Contract!Next]_(Contract!vars) PROVE Inv'
    OBVIOUS
  <2> USE DEF Contract!TypeOK, Contract!AnsweredOnce, OwedOnce
  <2>1. CASE \E c \in Conns : Contract!Join(c) \/ Contract!Leave(c)
    BY <2>1 DEF Contract!Join, Contract!Leave
  <2>2. CASE \E r \in Contract!Request : Contract!Ask(r)
    BY <2>2 DEF Contract!Ask
  <2>3. CASE \E settled \in SUBSET Owed : \E replied \in SUBSET settled :
               Contract!Settle(settled, replied)
    BY <2>3 DEF Contract!Settle
  <2>4. CASE UNCHANGED Contract!vars
    BY <2>4 DEF Contract!vars
  <2> QED BY <2>1, <2>2, <2>3, <2>4 DEF Contract!Next
<1> QED BY <1>1, <1>2, PTL DEF Contract!Spec

\* So the forwarder answers no request twice, and owes none that it answered.
THEOREM RequestsAnsweredOnce == Spec => []Contract!AnsweredOnce
BY Refinement, ContractAnswersOnce, PTL DEF KeepsContract
=============================================================================
