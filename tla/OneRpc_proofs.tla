--------------------------- MODULE OneRpc_proofs ---------------------------
(***************************************************************************)
(* What is proved of the whole relay: that the invariants proved of its    *)
(* parts hold of it, and what the two sides, HTTP and channels, promise    *)
(* together.                                                               *)
(***************************************************************************)
EXTENDS OneRpc, FiniteSetTheorems, TLAPS

AppP  == INSTANCE App_proofs
HttpP == INSTANCE HttpForwarder_proofs
DemoP == INSTANCE DemoWsHandler_proofs WITH Conns <- WsIds, MaxDetails <- MaxRequests

-----------------------------------------------------------------------------
(* Steps of the whole are steps of the parts.                              *)

\* Everything starts in the initial states of its parts.
LEMMA InitOfParts == Init => Proc!Init /\ Http!Init /\ Demo!Init
  BY DEF Init

\* A tick of the process, whatever its result.
LEMMA TicksAreSteps ==
  ASSUME NEW result \in {"Idle", "Busy", "Error", "Panic"}, Proc!Tick(result)
  PROVE  Proc!Next
  BY DEF Proc!Next, Proc!MainThread

\* Each step of the whole is a step of the process or leaves it alone.
LEMMA StepOfProc == [Next]_vars => [Proc!Next]_(Proc!vars)
<1> SUFFICES ASSUME [Next]_vars PROVE [Proc!Next]_(Proc!vars)
  OBVIOUS
<1>1. UNCHANGED appVars => UNCHANGED Proc!vars
  BY DEF appVars, Proc!vars
<1>2. ASSUME NEW c \in Conns, NEW q \in Shapes, OnNewHttpRequest(c, q)
      PROVE  UNCHANGED appVars
  BY <1>2 DEF OnNewHttpRequest
<1>3. CASE HttpConnections
  BY <1>1, <1>3 DEF HttpConnections
<1>4. CASE WsConnections
  BY <1>1, <1>4 DEF WsConnections
<1>5. CASE OnTick
  BY <1>1, <1>5 DEF OnTick
<1>6. CASE TickWs
  <2>1. PICK result \in {"Idle", "Busy"} : Proc!Tick(result)
    BY <1>6 DEF TickWs
  <2> QED BY <2>1, TicksAreSteps
<1>7. CASE ServerFails
  BY <1>7, TicksAreSteps DEF ServerFails
<1>8. CASE Outside
  BY <1>8 DEF Outside, Proc!Next, Proc!MainThread, Proc!Prepare
<1>9. CASE World
  BY <1>1, <1>9 DEF World
<1>10. CASE Terminate
  BY <1>10 DEF Terminate, Proc!Next
<1>11. CASE Over
  BY <1>11 DEF Over, Proc!Next
<1>12. CASE UNCHANGED vars
  BY <1>1, <1>12 DEF vars
<1> QED BY <1>1, <1>2, <1>3, <1>4, <1>5, <1>6, <1>7, <1>8, <1>9, <1>10, <1>11, <1>12
        DEF Next, MainThread

\* Each step of the whole is a step of the HTTP side or leaves it alone.
LEMMA StepOfHttp == [Next]_vars => [Http!Next]_(Http!vars)
<1> SUFFICES ASSUME [Next]_vars PROVE [Http!Next]_(Http!vars)
  OBVIOUS
<1>1. UNCHANGED httpVars => UNCHANGED Http!vars
  BY DEF httpVars, Http!vars
<1>2. ASSUME NEW c \in Conns, NEW q \in Shapes, OnNewHttpRequest(c, q)
      PROVE  Http!Next
  BY <1>2 DEF OnNewHttpRequest, Http!Next
<1>3. CASE HttpConnections
  BY <1>3 DEF HttpConnections, Http!Next
<1>4. CASE WsConnections
  BY <1>1, <1>4 DEF WsConnections
<1>5. CASE OnTick
  BY <1>5 DEF OnTick, Http!Next, Http!Handlers
<1>6. CASE TickWs
  BY <1>6 DEF TickWs, Http!Next, Http!Handlers
<1>7. CASE ServerFails
  BY <1>1, <1>7 DEF ServerFails
<1>8. CASE Outside
  BY <1>1, <1>8 DEF Outside
<1>9. CASE World
  BY <1>9 DEF World, Http!Next
<1>10. CASE Terminate
  BY <1>1, <1>10 DEF Terminate
<1>11. CASE Over
  BY <1>1, <1>11 DEF Over
<1>12. CASE UNCHANGED vars
  BY <1>1, <1>12 DEF vars
<1> QED BY <1>2, <1>3, <1>4, <1>5, <1>6, <1>7, <1>8, <1>9, <1>10, <1>11, <1>12
        DEF Next, MainThread

\* Each step of the whole is a step of the channels or leaves them alone.
LEMMA StepOfDemo == [Next]_vars => [Demo!Next]_(Demo!vars)
<1> SUFFICES ASSUME [Next]_vars PROVE [Demo!Next]_(Demo!vars)
  OBVIOUS
<1>1. UNCHANGED demoVars => UNCHANGED Demo!vars
  BY DEF demoVars, Demo!vars, Demo!wsVars, Demo!registry
<1>2. ASSUME NEW c \in Conns, NEW q \in Shapes, OnNewHttpRequest(c, q)
      PROVE  [Demo!Next]_(Demo!vars)
  <2>1. q.token \in Tokens \cup {NoToken}
    BY OneRpcConstants
  <2>2. CASE Demo!WitnessRequest(q.token)
    BY <2>1, <2>2 DEF Demo!Next
  <2>3. CASE UNCHANGED demoVars
    BY <1>1, <2>3
  <2> QED BY <1>2, <2>2, <2>3 DEF OnNewHttpRequest
<1>3. CASE HttpConnections
  BY <1>1, <1>3 DEF HttpConnections
<1>4. CASE WsConnections
  BY <1>4 DEF WsConnections, Demo!Next
<1>5. CASE OnTick
  BY <1>1, <1>5 DEF OnTick
<1>6. CASE TickWs
  BY <1>6 DEF TickWs, Demo!Next
<1>7. CASE ServerFails
  BY <1>1, <1>7 DEF ServerFails
<1>8. CASE Outside
  BY <1>1, <1>8 DEF Outside
<1>9. CASE World
  BY <1>1, <1>9 DEF World
<1>10. CASE Terminate
  BY <1>1, <1>10 DEF Terminate
<1>11. CASE Over
  BY <1>1, <1>11 DEF Over
<1>12. CASE UNCHANGED vars
  BY <1>1, <1>12 DEF vars
<1> QED BY <1>2, <1>3, <1>4, <1>5, <1>6, <1>7, <1>8, <1>9, <1>10, <1>11, <1>12
        DEF Next, MainThread

-----------------------------------------------------------------------------
(* What is proved of a part holds of the whole.                            *)

\* The HTTP side that was proved about is the one of the relay.
LEMMA SameHttp ==
  /\ Http!Init <=> HttpP!Init
  /\ Http!Next <=> HttpP!Next
  /\ UNCHANGED Http!vars <=> UNCHANGED HttpP!vars
  BY DEF Http!vars, Http!NotSent, Http!Bodies, Http!Live, Http!Init,
         Http!HttpRoutes, Http!Refused, Http!NewRequest, Http!OnNewHttpRequest,
         Http!OnTick, Http!Unsent, Http!Overdue, Http!ClientFound, Http!Written,
         Http!MarkSent, Http!CountSends, Http!RemoveConns, Http!TickHttpReqs,
         Http!Of, Http!Known, Http!ReplyTo, Http!AfterWrites,
         Http!TickHttpRecvRemote, Http!Errors, Http!LeftToSend,
         Http!TickHttpSendResponse, Http!TickWs, Http!Connect, Http!DropConn,
         Http!RemoteAnswer, Http!Elapse, Http!Handlers, Http!Next, Http!Push,
         Http!NextReqId, Http!Pop, Http!AddSingleErrorMsgClosed, Http!Range,
         Http!Empty, Http!Put, Http!Without, Http!Restrict, Http!ResponseAndClose,
         HttpP!vars, HttpP!NotSent, HttpP!Bodies, HttpP!Live, HttpP!Init,
         HttpP!HttpRoutes, HttpP!Refused, HttpP!NewRequest, HttpP!OnNewHttpRequest,
         HttpP!OnTick, HttpP!Unsent, HttpP!Overdue, HttpP!ClientFound,
         HttpP!Written, HttpP!MarkSent, HttpP!CountSends, HttpP!RemoveConns,
         HttpP!TickHttpReqs, HttpP!Of, HttpP!Known, HttpP!ReplyTo,
         HttpP!AfterWrites, HttpP!TickHttpRecvRemote, HttpP!Errors,
         HttpP!LeftToSend, HttpP!TickHttpSendResponse, HttpP!TickWs, HttpP!Connect,
         HttpP!DropConn, HttpP!RemoteAnswer, HttpP!Elapse, HttpP!Handlers,
         HttpP!Next, HttpP!Push, HttpP!NextReqId, HttpP!Pop,
         HttpP!AddSingleErrorMsgClosed, HttpP!Range, HttpP!Empty, HttpP!Put,
         HttpP!Without, HttpP!Restrict, HttpP!ResponseAndClose

\* So are the channels.
LEMMA SameDemo ==
  /\ Demo!Init <=> DemoP!Init
  /\ Demo!Next <=> DemoP!Next
  /\ UNCHANGED Demo!vars <=> UNCHANGED DemoP!vars
  BY DEF Demo!wsVars, Demo!registry, Demo!vars, Demo!LastWord, Demo!WsInit,
         Demo!Init, Demo!Opened, Demo!Closed, Demo!Writable, Demo!Finished,
         Demo!Closing, Demo!TickSendResponse, Demo!HasToken, Demo!OnConnectionOpen,
         Demo!TokensOf, Demo!OnConnectionClose, Demo!Channels, Demo!WitnessRequest,
         Demo!TickWs, Demo!Next, Demo!AddRaw, Demo!AddRawClosed, Demo!Empty,
         Demo!Put, Demo!Without, Demo!Restrict, Demo!ResponseAndClose,
         DemoP!wsVars, DemoP!registry, DemoP!vars, DemoP!LastWord, DemoP!WsInit,
         DemoP!Init, DemoP!Opened, DemoP!Closed, DemoP!Writable, DemoP!Finished,
         DemoP!Closing, DemoP!TickSendResponse, DemoP!HasToken,
         DemoP!OnConnectionOpen, DemoP!TokensOf, DemoP!OnConnectionClose,
         DemoP!Channels, DemoP!WitnessRequest, DemoP!TickWs, DemoP!Next,
         DemoP!AddRaw, DemoP!AddRawClosed, DemoP!Empty, DemoP!Put, DemoP!Without,
         DemoP!Restrict, DemoP!ResponseAndClose

\* And so is the process.
LEMMA SameProc ==
  /\ Proc!Init <=> AppP!Init
  /\ Proc!Next <=> AppP!Next
  /\ UNCHANGED Proc!vars <=> UNCHANGED AppP!vars
<1>1. /\ Proc!Init <=> AppP!Init
      /\ UNCHANGED Proc!vars <=> UNCHANGED AppP!vars
      /\ Proc!SetCtrlc <=> AppP!SetCtrlc
      /\ Proc!GetConfig <=> AppP!GetConfig
      /\ Proc!Build <=> AppP!Build
      /\ Proc!Check <=> AppP!Check
      /\ Proc!Sleep <=> AppP!Sleep
      /\ Proc!Terminate <=> AppP!Terminate
      /\ Proc!Over <=> AppP!Over
  BY DEF Proc!Init, Proc!vars, Proc!SetCtrlc, Proc!GetConfig, Proc!Build, Proc!Check,
         Proc!Sleep, Proc!Terminate, Proc!Over, Proc!Ended, Proc!Unset, Proc!DefaultArgs,
         Proc!NoKey, Proc!Generate, Proc!Get, Proc!IsUnset, Proc!Refuses,
         AppP!Init, AppP!vars, AppP!SetCtrlc, AppP!GetConfig, AppP!Build, AppP!Check,
         AppP!Sleep, AppP!Terminate, AppP!Over, AppP!Ended, AppP!Unset, AppP!DefaultArgs,
         AppP!NoKey, AppP!Generate, AppP!Get, AppP!IsUnset, AppP!Refuses
<1>2. Proc!SetArgs <=> AppP!SetArgs
  BY DEF Proc!SetArgs, Proc!FromArgs, Proc!Parsable, Proc!FoldLeft, Proc!MapThenFoldSet,
         Proc!Override, Proc!Field, Proc!DefaultArgs, Proc!NoKey, Proc!ToSet, Proc!Max,
         AppP!SetArgs, AppP!FromArgs, AppP!Parsable, AppP!FoldLeft, AppP!MapThenFoldSet,
         AppP!Override, AppP!Field, AppP!DefaultArgs, AppP!NoKey, AppP!ToSet, AppP!Max
<1>3. \A result \in {"Idle", "Busy", "Error", "Panic"} : Proc!Tick(result) <=> AppP!Tick(result)
  BY DEF Proc!Tick, Proc!AfterTick, AppP!Tick, AppP!AfterTick
<1> QED BY <1>1, <1>2, <1>3 DEF Proc!Next, Proc!MainThread, Proc!Prepare,
                               AppP!Next, AppP!MainThread, AppP!Prepare

\* The invariants of the process and of both sides hold of the relay.
THEOREM PartsInvariance == Spec => [](AppP!IInv /\ HttpP!IInv /\ DemoP!IInv)
<1>1. AppP!AppConstants /\ HttpP!ConstantsAssumption /\ DemoP!DemoConstants
  BY OneRpcConstants
     DEF AppP!AppConstants, HttpP!ConstantsAssumption, DemoP!DemoConstants
<1>2. Init => AppP!Init /\ HttpP!Init /\ DemoP!Init
  BY InitOfParts, SameProc, SameHttp, SameDemo
<1>3. [Next]_vars => [AppP!Next]_(AppP!vars)
  BY StepOfProc, SameProc
<1>4. [Next]_vars => [HttpP!Next]_(HttpP!vars)
  BY StepOfHttp, SameHttp
<1>5. [Next]_vars => [DemoP!Next]_(DemoP!vars)
  BY StepOfDemo, SameDemo
<1>6. Spec => AppP!Spec /\ HttpP!Spec /\ DemoP!Spec
  BY <1>2, <1>3, <1>4, <1>5, PTL DEF Spec, AppP!Spec, HttpP!Spec, DemoP!Spec
<1>7. AppP!Spec => []AppP!IInv
  BY <1>1, AppP!Invariance, OneRpcConstants
<1>8. HttpP!Spec => []HttpP!IInv
  BY <1>1, HttpP!Invariance, OneRpcConstants
<1>9. DemoP!Spec => []DemoP!IInv
  BY <1>1, DemoP!Invariance, OneRpcConstants
<1> QED BY <1>6, <1>7, <1>8, <1>9, PTL

-----------------------------------------------------------------------------
(* What ties the two sides together.                                       *)

\* The handler of the channels was told of the requests that were forwarded, of
\* all of them, in order, and of no other.
Told ==
  /\ Len(witnessed) = Rank(Len(asked))
  /\ \A b \in 1..Len(asked) : Forwarded(b) =>
       Rank(b) \in 1..Len(witnessed) /\ witnessed[Rank(b)] = asked[b].req.token
  /\ \A d \in 1..Len(witnessed) :
       \E b \in 1..Len(asked) : Forwarded(b) /\ Rank(b) = d

\* What waits for an answer or was sent is a request that was forwarded.
OnlyForwarded ==
  /\ \A id \in DOMAIN reqs :
       reqs[id].body \in 1..Len(asked) /\ Forwarded(reqs[id].body)
  /\ \A b \in 1..MaxRequests : sends[b] > 0 => b \in 1..Len(asked) /\ Forwarded(b)

Joined == Told /\ OnlyForwarded

\* A rank is a number, for it counts a finite set.
LEMMA RankCounts ==
  ASSUME NEW n \in Nat
  PROVE  IsFiniteSet({i \in 1..n : Forwarded(i)}) /\ Rank(n) \in Nat
<1>1. IsFiniteSet(1..n)
  BY FS_Interval
<1>2. {i \in 1..n : Forwarded(i)} \subseteq 1..n
  OBVIOUS
<1>3. IsFiniteSet({i \in 1..n : Forwarded(i)})
  BY <1>1, <1>2, FS_Subset
<1> QED BY <1>3, FS_CardinalityType DEF Rank

\* Nothing was asked before anything was asked.
LEMMA RankOfNone == Rank(0) = 0
<1>1. {i \in 1..0 : Forwarded(i)} = {}
  OBVIOUS
<1> QED BY <1>1, FS_EmptySet DEF Rank

\* A request that arrives changes no rank of those before it, and has the next
\* one if it is forwarded.
LEMMA RankGrows ==
  ASSUME NEW S, asked \in Seq(S), NEW a \in S, asked' = Append(asked, a),
         NEW n, n = Len(asked)
  PROVE  /\ \A b \in 1..n : asked'[b] = asked[b] /\ (Forwarded(b)' <=> Forwarded(b))
         /\ asked'[n + 1] = a
         /\ Forwarded(n + 1)' <=> ~Http!Refused(a.req)
         /\ \A b \in 0..n : Rank(b)' = Rank(b)
         /\ Rank(n + 1)' = IF Http!Refused(a.req) THEN Rank(n) ELSE Rank(n) + 1
<1> DEFINE F == {i \in 1..n : Forwarded(i)}
           G == {i \in 1..(n + 1) : Forwarded(i)'}
<1>1. /\ n \in Nat
      /\ \A b \in 1..n : asked'[b] = asked[b]
      /\ asked'[n + 1] = a
  OBVIOUS
<1>2. /\ \A b \in 1..n : Forwarded(b)' <=> Forwarded(b)
      /\ Forwarded(n + 1)' <=> ~Http!Refused(a.req)
  <2>1. ASSUME NEW b
        PROVE  /\ Forwarded(b) <=> ~Http!Refused(asked[b].req)
               /\ Forwarded(b)' <=> ~Http!Refused(asked'[b].req)
    BY DEF Forwarded, Http!Refused, Http!HttpRoutes
  <2>2. ASSUME NEW b \in 1..n PROVE Forwarded(b)' <=> Forwarded(b)
    <3>1. asked'[b] = asked[b]
      BY <1>1
    <3> QED BY <2>1, <3>1
  <2>3. Forwarded(n + 1)' <=> ~Http!Refused(a.req)
    <3>1. asked'[n + 1] = a
      BY <1>1
    <3> QED BY <2>1, <3>1
  <2> QED BY <2>2, <2>3
<1>3. \A b \in 0..n : Rank(b)' = Rank(b)
  <2>1. TAKE b \in 0..n
  <2>2. {i \in 1..b : Forwarded(i)'} = {i \in 1..b : Forwarded(i)}
    BY <1>1, <1>2
  <2> QED BY <2>2 DEF Rank
<1>4. IsFiniteSet(F) /\ Cardinality(F) = Rank(n)
  BY <1>1, RankCounts DEF Rank
<1>5. Cardinality(G) = Rank(n + 1)'
  BY DEF Rank
<1>6. 1..(n + 1) = (1..n) \cup {n + 1} /\ n + 1 \notin 1..n
  BY <1>1
<1>7. CASE Http!Refused(a.req)
  <2>1. G = F
    BY <1>2, <1>6, <1>7
  <2> HIDE DEF F, G
  <2> QED BY <1>1, <1>2, <1>3, <1>4, <1>5, <1>7, <2>1
<1>8. CASE ~Http!Refused(a.req)
  <2>1. G = F \cup {n + 1} /\ n + 1 \notin F
    BY <1>2, <1>6, <1>8
  <2> HIDE DEF F, G
  <2>2. Cardinality(F \cup {n + 1}) = Cardinality(F) + 1
    BY <1>4, <2>1, FS_AddElement
  <2> QED BY <1>1, <1>2, <1>3, <1>4, <1>5, <1>8, <2>1, <2>2
<1> QED BY <1>7, <1>8

\* What is to show for Told after a step, with the number of requests then.
LEMMA ToldNext ==
  ASSUME NEW n, Len(asked') = n, Len(witnessed') = Rank(n)',
         \A b \in 1..n : Forwarded(b)' =>
           Rank(b)' \in 1..Len(witnessed') /\ witnessed'[Rank(b)'] = asked'[b].req.token,
         \A d \in 1..Len(witnessed') :
           \E b \in 1..n : Forwarded(b)' /\ Rank(b)' = d
  PROVE  Told'
  BY DEF Told, Rank

\* A step that asks nothing, forgets requests at most and sends what waits
\* keeps both sides together.
LEMMA NothingAsked ==
  ASSUME Joined, UNCHANGED <<asked, witnessed>>,
         \A id \in DOMAIN reqs' : id \in DOMAIN reqs /\ reqs'[id].body = reqs[id].body,
         \A b \in 1..MaxRequests :
           sends'[b] > 0 => sends[b] > 0 \/ \E id \in DOMAIN reqs : reqs[id].body = b
  PROVE  Joined'
<1>1. \A b : Forwarded(b)' <=> Forwarded(b)
  BY DEF Forwarded, Http!Refused, Http!HttpRoutes
<1>2. Told'
  <2>1. ASSUME NEW b PROVE Rank(b)' = Rank(b)
    BY <1>1 DEF Rank
  <2>2. PICK n : n = Len(asked)
    OBVIOUS
  <2> QED BY <1>1, <2>1, <2>2, ToldNext DEF Joined, Told
<1>3. OnlyForwarded'
  BY <1>1 DEF Joined, OnlyForwarded
<1> QED BY <1>2, <1>3 DEF Joined

\* A request that arrives: the handler is told of it if it is forwarded.
LEMMA ArrivalKeepsTold ==
  ASSUME HttpP!IInv, DemoP!IInv, Joined,
         NEW c \in Conns, NEW q \in Shapes, OnNewHttpRequest(c, q)
  PROVE  Joined'
<1> DEFINE S == [conn : Conns, req : Shapes]
           a == [conn |-> c, req |-> q]
<1>1. asked \in Seq(S) /\ witnessed \in Seq(Tokens \cup {NoToken})
  BY DEF HttpP!IInv, HttpP!TypeOK, DemoP!IInv, DemoP!TypeOK
<1>2. a \in S /\ a.req = q
  OBVIOUS
<1>3. PICK n : n = Len(asked)
  OBVIOUS
<1>4. /\ n \in Nat
      /\ asked' = Append(asked, a) /\ Len(asked') = n + 1
  BY <1>1, <1>2, <1>3 DEF OnNewHttpRequest, Http!OnNewHttpRequest
<1> HIDE DEF S, a
<1>5. /\ \A b \in 1..n : asked'[b] = asked[b] /\ (Forwarded(b)' <=> Forwarded(b))
      /\ asked'[n + 1] = a
      /\ Forwarded(n + 1)' <=> ~Http!Refused(q)
      /\ \A b \in 0..n : Rank(b)' = Rank(b)
      /\ Rank(n + 1)' = IF Http!Refused(q) THEN Rank(n) ELSE Rank(n) + 1
  BY <1>1, <1>2, <1>3, <1>4, RankGrows
<1>6. Rank(n) \in Nat /\ Rank(n) = Len(witnessed)
  BY <1>3, <1>4, RankCounts DEF Joined, Told
<1>7. CASE Http!Refused(q)
  <2>1. UNCHANGED <<reqs, sends, witnessed>>
    BY <1>7 DEF OnNewHttpRequest, Http!OnNewHttpRequest, Shown, demoVars
  <2>2. Told'
    BY <1>3, <1>4, <1>5, <1>6, <1>7, <2>1, ToldNext DEF Joined, Told
  <2>3. OnlyForwarded'
    BY <1>3, <1>4, <1>5, <2>1 DEF Joined, OnlyForwarded
  <2> QED BY <2>2, <2>3 DEF Joined
<1>8. CASE ~Http!Refused(q)
  <2>1. /\ witnessed' = Append(witnessed, q.token)
        /\ reqs' = Http!Push(reqs, nextId, Http!NewRequest(c, q, n + 1))
        /\ sends' = sends
    BY <1>3, <1>8 DEF OnNewHttpRequest, Http!OnNewHttpRequest, Shown, Demo!WitnessRequest
  <2>2. /\ Len(witnessed') = Len(witnessed) + 1
        /\ \A d \in 1..Len(witnessed) : witnessed'[d] = witnessed[d]
        /\ witnessed'[Len(witnessed) + 1] = q.token
    BY <1>1, <2>1, OneRpcConstants
  <2>3. Told'
    <3>1. \A b \in 1..n : Forwarded(b)' =>
            Rank(b)' \in 1..Len(witnessed') /\ witnessed'[Rank(b)'] = asked'[b].req.token
      <4>1. TAKE b \in 1..n
      <4>2. HAVE Forwarded(b)'
      <4>3. /\ Forwarded(b) /\ asked'[b] = asked[b]
            /\ Rank(b)' = Rank(b)
        BY <1>4, <1>5, <4>2
      <4>4. /\ Rank(b) \in 1..Len(witnessed)
            /\ witnessed[Rank(b)] = asked[b].req.token
        BY <1>3, <4>3 DEF Joined, Told
      <4> QED BY <1>6, <2>2, <4>3, <4>4
    <3>2. \A d \in 1..Len(witnessed) :
            \E b \in 1..n : Forwarded(b)' /\ Rank(b)' = d
      BY <1>3, <1>4, <1>5 DEF Joined, Told
    <3>3. /\ Forwarded(n + 1)'
          /\ Rank(n + 1)' = Len(witnessed) + 1
          /\ asked'[n + 1].req.token = q.token
      BY <1>2, <1>5, <1>6, <1>8
    <3>4. Len(witnessed) \in Nat /\ n + 1 \in 1..(n + 1)
      BY <1>4, <1>6
    <3>5. \A b \in 1..(n + 1) : Forwarded(b)' =>
            Rank(b)' \in 1..Len(witnessed') /\ witnessed'[Rank(b)'] = asked'[b].req.token
      <4>1. TAKE b \in 1..(n + 1)
      <4>2. HAVE Forwarded(b)'
      <4>3. CASE b = n + 1
        BY <2>2, <3>3, <3>4, <4>3
      <4>4. CASE b # n + 1
        <5>1. b \in 1..n
          BY <1>4, <4>4
        <5> QED BY <3>1, <4>2, <5>1
      <4> QED BY <4>3, <4>4
    <3>6. \A d \in 1..Len(witnessed') :
            \E b \in 1..(n + 1) : Forwarded(b)' /\ Rank(b)' = d
      <4>1. TAKE d \in 1..Len(witnessed')
      <4>2. CASE d = Len(witnessed) + 1
        BY <3>3, <3>4, <4>2
      <4>3. CASE d # Len(witnessed) + 1
        <5>1. d \in 1..Len(witnessed)
          BY <2>2, <3>4, <4>3
        <5>2. PICK b \in 1..n : Forwarded(b)' /\ Rank(b)' = d
          BY <3>2, <5>1
        <5>3. b \in 1..(n + 1)
          BY <1>4
        <5> QED BY <5>2, <5>3
      <4> QED BY <4>2, <4>3
    <3>7. Len(witnessed') = Rank(n + 1)'
      BY <2>2, <3>3
    <3>8. Len(asked') = n + 1
      BY <1>4
    <3> QED BY <3>5, <3>6, <3>7, <3>8, ToldNext
  <2>4. OnlyForwarded'
    <3>1. \A id \in DOMAIN reqs' :
            \/ reqs'[id].body = n + 1
            \/ id \in DOMAIN reqs /\ reqs'[id].body = reqs[id].body
      BY <2>1 DEF Http!Push, Http!Put, Http!NewRequest
    <3> QED BY <1>3, <1>4, <1>5, <1>8, <2>1, <3>1 DEF Joined, OnlyForwarded
  <2> QED BY <2>3, <2>4 DEF Joined
<1> QED BY <1>7, <1>8

\* Sending: every request is sent or given up that waits, no other.
LEMMA SendingKeepsTold ==
  ASSUME HttpP!IInv, Joined, Http!TickHttpReqs, UNCHANGED witnessed
  PROVE  Joined'
<1>1. HttpP!TypeOK /\ HttpP!ConstantsAssumption
  BY OneRpcConstants DEF HttpP!IInv, HttpP!ConstantsAssumption
<1>2. PICK found \in SUBSET Http!Unsent :
        /\ reqs' = Http!Pop(Http!MarkSent(found), Http!Overdue)
        /\ \E wired \in SUBSET found : sends' = Http!CountSends(wired)
  BY DEF Http!TickHttpReqs
<1>3. PICK wired \in SUBSET found : sends' = Http!CountSends(wired)
  BY <1>2
<1>4. Http!MarkSent(found) = HttpP!MarkSent(found)
  BY DEF Http!MarkSent, HttpP!MarkSent
<1>5. /\ DOMAIN HttpP!MarkSent(found) = DOMAIN reqs
      /\ \A id \in DOMAIN reqs : HttpP!MarkSent(found)[id].body = reqs[id].body
  BY <1>1, HttpP!MarkSentReqs, OneRpcConstants
<1>6. \A id \in DOMAIN reqs' : id \in DOMAIN reqs /\ reqs'[id].body = reqs[id].body
  BY <1>2, <1>4, <1>5 DEF Http!Pop, Http!Without, Http!Restrict
<1>7. \A b \in 1..MaxRequests :
        sends'[b] > 0 => sends[b] > 0 \/ \E id \in DOMAIN reqs : reqs[id].body = b
  BY <1>3 DEF Http!CountSends, Http!Bodies, Http!Unsent
<1> QED BY <1>6, <1>7, NothingAsked DEF Http!TickHttpReqs

\* Neither does anything else that happens on the HTTP side.
LEMMA OthersKeepTold ==
  ASSUME HttpP!IInv, Joined, UNCHANGED witnessed,
         \/ Http!OnTick \/ Http!TickHttpRecvRemote \/ Http!TickHttpSendResponse
         \/ Http!TickWs \/ Http!Elapse
         \/ \E c \in Conns : Http!Connect(c) \/ Http!DropConn(c)
         \/ \E m \in remote : Http!RemoteAnswer(m)
         \/ UNCHANGED httpVars
  PROVE  Joined'
<1>1. CASE Http!TickHttpRecvRemote
  <2>1. /\ UNCHANGED <<asked, sends>>
        /\ \E hits : reqs' = Http!Pop(reqs, hits)
    BY <1>1 DEF Http!TickHttpRecvRemote
  <2>2. \A id \in DOMAIN reqs' : id \in DOMAIN reqs /\ reqs'[id].body = reqs[id].body
    BY <2>1 DEF Http!Pop, Http!Without, Http!Restrict
  <2> QED BY <2>1, <2>2, NothingAsked
<1>2. CASE Http!Elapse
  <2>1. HttpP!TypeOK /\ HttpP!ConstantsAssumption
    BY OneRpcConstants DEF HttpP!IInv, HttpP!ConstantsAssumption
  <2>2. HttpP!Elapse
    BY <1>2 DEF Http!Elapse, HttpP!Elapse
  <2>3. \A id \in DOMAIN reqs' : id \in DOMAIN reqs /\ reqs'[id].body = reqs[id].body
    BY <2>1, <2>2, HttpP!ElapseReqs, OneRpcConstants
  <2>4. UNCHANGED <<asked, sends>>
    BY <1>2 DEF Http!Elapse
  <2> QED BY <2>3, <2>4, NothingAsked
<1>3. CASE UNCHANGED <<asked, reqs, sends>>
  BY <1>3, NothingAsked
<1> QED BY <1>1, <1>2, <1>3 DEF Http!OnTick, Http!TickHttpSendResponse, Http!TickWs,
        Http!Connect, Http!DropConn, Http!RemoteAnswer, httpVars

\* The two sides stay together over every step.
LEMMA NextJoined ==
  ASSUME HttpP!IInv, DemoP!IInv, Joined, [Next]_vars
  PROVE  Joined'
<1>1. ASSUME NEW c \in Conns, NEW q \in Shapes, OnNewHttpRequest(c, q)
      PROVE  Joined'
  BY <1>1, ArrivalKeepsTold
<1>2. CASE HttpConnections
  BY <1>2, OthersKeepTold DEF HttpConnections, demoVars
<1>3. CASE WsConnections
  BY <1>3, OthersKeepTold
     DEF WsConnections, Demo!OnConnectionOpen, Demo!OnConnectionClose
<1>4. CASE OnTick
  BY <1>4, SendingKeepsTold, OthersKeepTold DEF OnTick, demoVars
<1>5. CASE TickWs
  BY <1>5, OthersKeepTold DEF TickWs, Demo!TickWs
<1>6. CASE ServerFails
  BY <1>6, OthersKeepTold DEF ServerFails, demoVars
<1>7. CASE Outside \/ Terminate \/ Over
  BY <1>7, OthersKeepTold DEF Outside, Terminate, Over, demoVars
<1>8. CASE World
  BY <1>8, OthersKeepTold DEF World, demoVars
<1>9. CASE UNCHANGED vars
  BY <1>9, OthersKeepTold DEF vars, demoVars
<1> QED BY <1>1, <1>2, <1>3, <1>4, <1>5, <1>6, <1>7, <1>8, <1>9 DEF Next, MainThread

\* Nothing was asked, shown or sent at first.
LEMMA InitJoined == Init => Joined
<1> SUFFICES ASSUME Init PROVE Joined
  OBVIOUS
<1>1. /\ asked = <<>> /\ witnessed = <<>>
      /\ DOMAIN reqs = {} /\ \A b \in 1..MaxRequests : sends[b] = 0
  BY DEF Init, Http!Init, Demo!Init, Http!Empty, Http!Bodies
<1>2. Len(asked) = 0 /\ Len(witnessed) = 0
  BY <1>1
<1>3. Told
  BY <1>2, RankOfNone DEF Told
<1>4. OnlyForwarded
  BY <1>1 DEF OnlyForwarded
<1> QED BY <1>3, <1>4 DEF Joined

\* The invariant of the whole: those of its parts and what ties them together.
THEOREM Invariance == Spec => [](HttpP!IInv /\ DemoP!IInv /\ Joined)
<1>1. Init => Joined
  BY InitJoined
<1>2. HttpP!IInv /\ DemoP!IInv /\ Joined /\ [Next]_vars => Joined'
  BY NextJoined
<1> QED BY <1>1, <1>2, PartsInvariance, PTL DEF Spec

\* A request does not leave the relay before the handler of its channel was told
\* of it (SentWasWitnessed).
THEOREM ToldBeforeSent == Spec => []SentWasWitnessed
<1>1. HttpP!IInv /\ DemoP!IInv /\ Joined => SentWasWitnessed
  <2> SUFFICES ASSUME HttpP!IInv, DemoP!IInv, Joined,
                      NEW b \in 1..Len(asked), sends[b] > 0
               PROVE  /\ Rank(b) <= Len(witnessed)
                      /\ witnessed[Rank(b)] = asked[b].req.token
    BY DEF SentWasWitnessed
  <2>1. b \in 1..MaxRequests
    <3>1. Len(asked) \in Nat /\ Len(asked) <= MaxRequests
      BY DEF HttpP!IInv, HttpP!TypeOK
    <3> QED BY <3>1, OneRpcConstants
  <2>2. Len(witnessed) \in Nat
    BY DEF DemoP!IInv, DemoP!TypeOK
  <2> QED BY <2>1, <2>2 DEF Joined, Told, OnlyForwarded
<1> QED BY <1>1, Invariance, PTL

\* A channel shows requests that were made with its token and are forwarded, and
\* no other (ChannelShowsForwarded).
THEOREM ShownWasForwarded == Spec => []ChannelShowsForwarded
<1>1. HttpP!IInv /\ DemoP!IInv /\ Joined => ChannelShowsForwarded
  <2> SUFFICES ASSUME HttpP!IInv, DemoP!IInv, Joined, NEW c \in WsIds,
                      NEW d \in Range(sent[c]) \ {Demo!LastWord}
               PROVE  \E b \in 1..Len(asked) :
                        Forwarded(b) /\ Rank(b) = d /\ asked[b].req.token = path[c]
    BY DEF ChannelShowsForwarded
  <2>1. d \in DemoP!Held(c) /\ d # DemoP!LastWord
    BY DEF DemoP!Held, DemoP!Range, Range, Demo!LastWord, DemoP!LastWord
  <2>2. d \in 1..Len(witnessed) /\ witnessed[d] = path[c]
    BY <2>1 DEF DemoP!IInv, DemoP!HeldByOwner
  <2> QED BY <2>2 DEF Joined, Told
<1> QED BY <1>1, Invariance, PTL

=============================================================================
