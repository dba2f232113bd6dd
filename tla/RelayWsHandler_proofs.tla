----------------------- MODULE RelayWsHandler_proofs -----------------------
(***************************************************************************)
(* What is proved of RelayWsHandler for every number of connections,       *)
(* routes, messages and deliveries.                                        *)
(***************************************************************************)
EXTENDS RelayWsHandler, WsConns_proofs, TLAPS

-----------------------------------------------------------------------------
(* The inductive invariant: the safety properties of the handler joined    *)
(* with what the parts of its state know of each other.                    *)

\* Ids are given out in order, so a push never replaces a queued request.
IdsInOrder ==
  /\ nextId <= taken
  /\ \A id \in DOMAIN wsReqs : id < nextId

\* What is queued was taken from a client, is queued once, and was not sent.
QueuedNotSubmitted ==
  /\ \A id \in DOMAIN wsReqs :
       wsReqs[id].body <= taken /\ submitted[wsReqs[id].body] = 0
  /\ \A i, j \in DOMAIN wsReqs : wsReqs[i].body = wsReqs[j].body => i = j
  /\ \A b \in Bodies : b > taken => submitted[b] = 0

\* Before a connection is opened there is nothing of it.
NewHasNothing ==
  \A c \in Conns : ws[c] = "new" =>
    c \notin DOMAIN remoteConns /\ c \notin DOMAIN wsResponses /\ sent[c] = <<>>

\* ws_responses holds error texts only, and each closes its connection.
QueueHoldsErrors ==
  \A c \in DOMAIN wsResponses :
    /\ wsResponses[c].kind = "jsonrpc"
    /\ wsResponses[c].close
    /\ Bounded(wsResponses[c].items, LastWord)

\* A connection was sent no more than was read from its stream.
SentWasRead ==
  \A c \in DOMAIN remoteConns : Bounded(sent[c], remoteConns[c].read)

IInv ==
  /\ TypeOK
  /\ IdsInOrder
  /\ QueuedNotSubmitted
  /\ NewHasNothing
  /\ QueueHoldsErrors
  /\ SentWasRead
  /\ SubmittedAtMostOnce
  /\ OpenHasStream
  /\ StreamsLeftBehind
  /\ InOrder

-----------------------------------------------------------------------------
(* Type correctness.                                                       *)

StreamType == [path : Routes, down : 0..MaxDown, read : 0..MaxDown]

LEMMA InitTypeOK == Init => TypeOK
<1> SUFFICES ASSUME Init PROVE TypeOK
  OBVIOUS
<1>1. DOMAIN wsResponses = {} /\ DOMAIN remoteConns = {} /\ DOMAIN wsReqs = {}
  BY EmptyMap DEF Init, WsInit
<1>2. WsTypeOK
  BY <1>1 DEF Init, WsInit, WsTypeOK, WsStates
<1>3. path \in [Conns -> Paths] /\ nextId \in 0..(IdSpace - 1)
  BY RelayConstants DEF Init
<1> QED BY <1>1, <1>2, <1>3, RelayConstants DEF Init, TypeOK

\* The error that closes a connection is queued behind those that wait already.
LEMMA AddErrorType ==
  ASSUME WsTypeOK, NEW c \in Conns,
         wsResponses' = AddSingleErrorMsgClosed(wsResponses, c, LastWord)
  PROVE  /\ DOMAIN wsResponses' = DOMAIN wsResponses \cup {c}
         /\ \A x \in DOMAIN wsResponses' : wsResponses'[x] \in Entry
         /\ \A x \in DOMAIN wsResponses \ {c} : wsResponses'[x] = wsResponses[x]
         /\ wsResponses'[c].close
<1>1. /\ DOMAIN wsResponses' = DOMAIN wsResponses \cup {c}
      /\ \A x \in DOMAIN wsResponses \ {c} : wsResponses'[x] = wsResponses[x]
      /\ wsResponses'[c].close
  BY DEF AddSingleErrorMsgClosed, ResponseAndClose, Put
<1>2. wsResponses'[c] \in Entry
  <2>1. LastWord \in Nat
    BY DEF LastWord
  <2>2. CASE c \in DOMAIN wsResponses
    BY <2>1, <2>2 DEF AddSingleErrorMsgClosed, ResponseAndClose, Put, Entry, WsTypeOK
  <2>3. CASE c \notin DOMAIN wsResponses
    BY <2>1, <2>3 DEF AddSingleErrorMsgClosed, ResponseAndClose, Put, Entry
  <2> QED BY <2>2, <2>3
<1> QED BY <1>1, <1>2 DEF WsTypeOK, Entry

\* Reading takes one message off each of the streams that were read.
LEMMA ReadsStreams ==
  ASSUME TypeOK, NEW got
  PROVE  /\ DOMAIN Reads(got) = DOMAIN remoteConns
         /\ \A c \in DOMAIN remoteConns :
              Reads(got)[c] = [path |-> remoteConns[c].path,
                               down |-> remoteConns[c].down,
                               read |-> IF c \in got THEN remoteConns[c].read + 1
                                        ELSE remoteConns[c].read]
<1>1. \A c \in DOMAIN remoteConns : remoteConns[c] \in StreamType
  BY DEF TypeOK, StreamType
<1>2. ASSUME NEW c \in DOMAIN remoteConns
      PROVE  [remoteConns[c] EXCEPT !.read = @ + 1] =
               [path |-> remoteConns[c].path, down |-> remoteConns[c].down,
                read |-> remoteConns[c].read + 1]
  BY <1>1 DEF StreamType
<1> QED BY <1>1, <1>2 DEF Reads, StreamType

LEMMA ServeTypeOK ==
  ASSUME TypeOK, NEW c \in Conns,
         \/ \E p \in Paths : OnConnectionOpen(c, p)
         \/ OnConnectionClose(c)
         \/ ProcessRequest(c)
  PROVE  TypeOK'
<1>1. CASE \E p \in Paths : OnConnectionOpen(c, p)
  <2>1. PICK p \in Paths : OnConnectionOpen(c, p)
    BY <1>1
  <2>2. ws' \in [Conns -> WsStates] /\ path' \in [Conns -> Paths]
    BY <2>1 DEF OnConnectionOpen, Opened, TypeOK, WsTypeOK, WsStates
  <2>3. CASE wsResponses' = AddSingleErrorMsgClosed(wsResponses, c, LastWord) /\ UNCHANGED remoteConns
    <3>1. /\ DOMAIN wsResponses' \subseteq Conns
          /\ \A x \in DOMAIN wsResponses' : wsResponses'[x] \in Entry
      <4>1. WsTypeOK
        BY DEF TypeOK
      <4>2. /\ DOMAIN wsResponses' = DOMAIN wsResponses \cup {c}
            /\ \A x \in DOMAIN wsResponses' : wsResponses'[x] \in Entry
        BY <2>3, <4>1, AddErrorType
      <4> QED BY <4>1, <4>2 DEF WsTypeOK
    <3> QED BY <2>1, <2>2, <2>3, <3>1 DEF OnConnectionOpen, TypeOK, WsTypeOK, Entry
  <2>4. CASE HasRoute(p) /\ remoteConns' = Put(remoteConns, c, Stream(p)) /\ UNCHANGED wsResponses
    <3>1. Stream(p) \in StreamType /\ Stream(p).read <= Stream(p).down
      BY <2>4, RelayConstants DEF Stream, StreamType, HasRoute
    <3>2. /\ DOMAIN remoteConns' \subseteq Conns
          /\ \A x \in DOMAIN remoteConns' :
               remoteConns'[x] \in StreamType /\ remoteConns'[x].read <= remoteConns'[x].down
      BY <2>4, <3>1 DEF Put, TypeOK, StreamType
    <3> QED BY <2>1, <2>2, <2>4, <3>2 DEF OnConnectionOpen, TypeOK, WsTypeOK, StreamType
  <2> QED BY <2>1, <2>3, <2>4 DEF OnConnectionOpen
<1>2. CASE OnConnectionClose(c)
  <2>1. ws' \in [Conns -> WsStates]
    BY <1>2 DEF OnConnectionClose, Closed, TypeOK, WsTypeOK, WsStates
  <2>2. /\ DOMAIN remoteConns' \subseteq DOMAIN remoteConns
        /\ \A x \in DOMAIN remoteConns' : remoteConns'[x] = remoteConns[x]
    BY <1>2 DEF OnConnectionClose, AfterClose, Without, Restrict
  <2> QED BY <1>2, <2>1, <2>2 DEF OnConnectionClose, TypeOK, WsTypeOK
<1>3. CASE ProcessRequest(c)
  <2>1. taken' = taken + 1 /\ taken' \in 0..MaxRequests /\ taken' \in Bodies
    BY <1>3, RelayConstants DEF ProcessRequest, TypeOK, Bodies
  <2>2. CASE ws' = Drop({c}) /\ UNCHANGED <<wsResponses, nextId, wsReqs>>
    <3>1. ws' \in [Conns -> WsStates]
      BY <2>2, DropType DEF TypeOK, WsTypeOK
    <3> QED BY <1>3, <2>1, <2>2, <3>1 DEF ProcessRequest, TypeOK, WsTypeOK
  <2>3. CASE /\ wsResponses' = AddSingleErrorMsgClosed(wsResponses, c, LastWord)
             /\ UNCHANGED <<ws, nextId, wsReqs>>
    <3>1. /\ DOMAIN wsResponses' \subseteq Conns
          /\ \A x \in DOMAIN wsResponses' : wsResponses'[x] \in Entry
      <4>1. WsTypeOK
        BY DEF TypeOK
      <4>2. /\ DOMAIN wsResponses' = DOMAIN wsResponses \cup {c}
            /\ \A x \in DOMAIN wsResponses' : wsResponses'[x] \in Entry
        BY <2>3, <4>1, AddErrorType
      <4> QED BY <4>1, <4>2 DEF WsTypeOK
    <3> QED BY <1>3, <2>1, <2>3, <3>1 DEF ProcessRequest, TypeOK, WsTypeOK, Entry
  <2>4. CASE /\ wsReqs' = Push(wsReqs, nextId, [conn |-> c, body |-> taken + 1])
             /\ nextId' = NextReqId(nextId, IdSpace)
             /\ UNCHANGED <<ws, wsResponses>>
    <3>1. nextId' \in 0..(IdSpace - 1)
      BY <2>4, RelayConstants DEF NextReqId, TypeOK
    <3>2. /\ DOMAIN wsReqs' \subseteq Nat
          /\ \A id \in DOMAIN wsReqs' : wsReqs'[id] \in [conn : Conns, body : Bodies]
      BY <2>1, <2>4 DEF Push, Put, TypeOK
    <3> QED BY <1>3, <2>1, <2>4, <3>1, <3>2 DEF ProcessRequest, TypeOK, WsTypeOK
  <2> QED BY <1>3, <2>2, <2>3, <2>4 DEF ProcessRequest
<1> QED BY <1>1, <1>2, <1>3

LEMMA TickTypeOK ==
  ASSUME TypeOK, OnTick \/ TickWsReqs \/ TickWsRecvRemote \/ TickSend
  PROVE  TypeOK'
<1>1. CASE OnTick
  BY <1>1 DEF OnTick, wsVars, TypeOK, WsTypeOK
<1>2. CASE TickWsReqs
  <2>1. PICK ok, failed :
          /\ submitted' = CountSubmits(ok)
          /\ wsReqs' = Pop(wsReqs, Done(ok))
          /\ ws' = Drop(ConnsOf(Lost(failed)))
          /\ remoteConns' = Without(remoteConns, CloseRemote(failed))
    BY <1>2 DEF TickWsReqs
  <2>2. ws' \in [Conns -> WsStates]
    BY <2>1, DropType DEF TypeOK, WsTypeOK
  <2>3. submitted' \in [Bodies -> Nat]
    BY <2>1 DEF CountSubmits, TypeOK
  <2>4. /\ DOMAIN wsReqs' \subseteq DOMAIN wsReqs
        /\ \A id \in DOMAIN wsReqs' : wsReqs'[id] = wsReqs[id]
    BY <2>1 DEF Pop, Without, Restrict
  <2>5. /\ DOMAIN remoteConns' \subseteq DOMAIN remoteConns
        /\ \A x \in DOMAIN remoteConns' : remoteConns'[x] = remoteConns[x]
    BY <2>1 DEF Without, Restrict
  <2> QED BY <1>2, <2>2, <2>3, <2>4, <2>5 DEF TickWsReqs, TypeOK, WsTypeOK
<1>3. CASE TickWsRecvRemote
  <2>1. PICK got \in SUBSET Readable, broken \in SUBSET DOMAIN remoteConns :
          /\ remoteConns' = Without(Reads(got), broken \cup Detached(got))
          /\ ws' = Drop(RemoteLost(broken, got))
          /\ \E ok \in SUBSET (got \ Detached(got)) :
               sent' = [c \in Conns |->
                          IF c \in ok THEN Append(sent[c], remoteConns[c].read + 1)
                          ELSE sent[c]]
    BY <1>3 DEF TickWsRecvRemote
  <2>2. ws' \in [Conns -> WsStates]
    BY <2>1, DropType DEF TypeOK, WsTypeOK
  <2>3. sent' \in [Conns -> Seq(Nat)]
    <3>1. PICK ok \in SUBSET (got \ Detached(got)) :
            sent' = [c \in Conns |->
                       IF c \in ok THEN Append(sent[c], remoteConns[c].read + 1)
                       ELSE sent[c]]
      BY <2>1
    <3>2. \A c \in ok : remoteConns[c].read + 1 \in Nat
      BY <2>1, RelayConstants DEF TypeOK, Readable
    <3> QED BY <3>1, <3>2 DEF TypeOK, WsTypeOK
  <2>4. /\ DOMAIN remoteConns' \subseteq DOMAIN remoteConns
        /\ \A x \in DOMAIN remoteConns' : remoteConns'[x] = Reads(got)[x]
    BY <2>1 DEF Without, Restrict, Reads
  <2>5. \A x \in DOMAIN remoteConns :
          Reads(got)[x] \in StreamType /\ Reads(got)[x].read <= Reads(got)[x].down
    <3>1. \A x \in got : remoteConns[x].read < remoteConns[x].down
      BY <2>1 DEF Readable
    <3> SUFFICES ASSUME NEW x \in DOMAIN remoteConns
                 PROVE  Reads(got)[x] \in StreamType /\ Reads(got)[x].read <= Reads(got)[x].down
      OBVIOUS
    <3>2. remoteConns[x] \in StreamType /\ remoteConns[x].read <= remoteConns[x].down
      BY DEF TypeOK, StreamType
    <3>3. Reads(got)[x] = [path |-> remoteConns[x].path,
                           down |-> remoteConns[x].down,
                           read |-> IF x \in got THEN remoteConns[x].read + 1
                                    ELSE remoteConns[x].read]
      BY ReadsStreams
    <3> QED BY <3>1, <3>2, <3>3, RelayConstants DEF StreamType
  <2> QED BY <1>3, <2>2, <2>3, <2>4, <2>5 DEF TickWsRecvRemote, TypeOK, WsTypeOK, StreamType
<1>4. CASE TickSend
  <2>1. WsTypeOK'
    BY <1>4, TickSendType DEF TickSend, TypeOK
  <2> QED BY <1>4, <2>1 DEF TickSend, TypeOK
<1> QED BY <1>1, <1>2, <1>3, <1>4

LEMMA RemoteSendsTypeOK ==
  ASSUME TypeOK, NEW c \in Conns, RemoteSends(c)
  PROVE  TypeOK'
<1>1. /\ DOMAIN remoteConns' = DOMAIN remoteConns
      /\ \A x \in DOMAIN remoteConns' :
           remoteConns'[x] \in StreamType /\ remoteConns'[x].read <= remoteConns'[x].down
  BY RelayConstants DEF RemoteSends, TypeOK, StreamType
<1> QED BY <1>1 DEF RemoteSends, wsVars, TypeOK, WsTypeOK, StreamType

LEMMA NextTypeOK == TypeOK /\ [Next]_vars => TypeOK'
<1> SUFFICES ASSUME TypeOK, [Next]_vars PROVE TypeOK'
  OBVIOUS
<1>1. CASE UNCHANGED vars
  BY <1>1 DEF vars, wsVars, TypeOK, WsTypeOK
<1> QED BY <1>1, ServeTypeOK, TickTypeOK, RemoteSendsTypeOK DEF Next

\* The relay handler is type correct, for any connections, routes and limits.
THEOREM TypeCorrect == Spec => []TypeOK
  BY InitTypeOK, NextTypeOK, PTL DEF Spec

-----------------------------------------------------------------------------
(* The invariant.                                                          *)

LEMMA InitIInv == Init => IInv
<1> SUFFICES ASSUME Init PROVE IInv
  OBVIOUS
<1>1. TypeOK
  BY InitTypeOK
<1>2. DOMAIN wsResponses = {} /\ DOMAIN remoteConns = {} /\ DOMAIN wsReqs = {}
  BY EmptyMap DEF Init, WsInit
<1>3. \A c \in Conns : ws[c] = "new" /\ sent[c] = <<>>
  BY DEF Init, WsInit
<1>4. nextId = 0 /\ taken = 0 /\ \A b \in Bodies : submitted[b] = 0
  BY DEF Init
<1> QED BY <1>1, <1>2, <1>3, <1>4
        DEF IInv, IdsInOrder, QueuedNotSubmitted, NewHasNothing, QueueHoldsErrors,
            SentWasRead, SubmittedAtMostOnce, OpenHasStream, StreamsLeftBehind, InOrder

\* The parts of the invariant that are about messages of clients.
LEMMA RequestsUnchanged ==
  ASSUME IInv, UNCHANGED <<nextId, wsReqs, taken, submitted>>
  PROVE  IdsInOrder' /\ QueuedNotSubmitted' /\ SubmittedAtMostOnce'
  BY DEF IInv, IdsInOrder, QueuedNotSubmitted, SubmittedAtMostOnce

\* Another error text in ws_responses does not change what the map holds.
LEMMA ErrorQueued ==
  ASSUME WsTypeOK, QueueHoldsErrors, NEW c \in Conns,
         wsResponses' = AddSingleErrorMsgClosed(wsResponses, c, LastWord)
  PROVE  QueueHoldsErrors'
<1>1. /\ DOMAIN wsResponses' = DOMAIN wsResponses \cup {c}
      /\ \A x \in DOMAIN wsResponses \ {c} : wsResponses'[x] = wsResponses[x]
  BY AddErrorType
<1>2. wsResponses'[c] = ResponseAndClose("jsonrpc", Append(Listed(wsResponses, c), LastWord), TRUE)
  <2>1. c \in DOMAIN wsResponses => wsResponses[c].kind # "raw"
    BY DEF QueueHoldsErrors
  <2>2. wsResponses' = Put(wsResponses, c, ResponseAndClose("jsonrpc",
                             Append(Listed(wsResponses, c), LastWord), TRUE))
    BY <2>1, AddErrorIsPut
  <2> QED BY <2>2 DEF Put
<1>3. Listed(wsResponses, c) \in Seq(Nat) /\ Bounded(Listed(wsResponses, c), LastWord)
  BY DEF Listed, WsTypeOK, QueueHoldsErrors, Bounded
<1>4. Bounded(Append(Listed(wsResponses, c), LastWord), LastWord)
  BY <1>3 DEF Bounded, LastWord
<1>5. /\ wsResponses'[c].kind = "jsonrpc"
      /\ wsResponses'[c].close
      /\ Bounded(wsResponses'[c].items, LastWord)
  BY <1>2, <1>4 DEF ResponseAndClose
<1> QED BY <1>1, <1>5 DEF QueueHoldsErrors

LEMMA ConnectionOpenIInv ==
  ASSUME IInv, NEW c \in Conns, NEW p \in Paths, OnConnectionOpen(c, p)
  PROVE  IInv'
<1>1. TypeOK'
  BY ServeTypeOK DEF IInv
<1>2. /\ ws[c] = "new" /\ ws'[c] = "open"
      /\ \A x \in Conns : x # c => ws'[x] = ws[x] /\ path'[x] = path[x]
      /\ path'[c] = p
      /\ sent' = sent
  BY DEF OnConnectionOpen, Opened, IInv, TypeOK, WsTypeOK
<1>3. IdsInOrder' /\ QueuedNotSubmitted' /\ SubmittedAtMostOnce'
  BY RequestsUnchanged DEF OnConnectionOpen
<1>4. InOrder'
  BY <1>2 DEF IInv, InOrder
<1>5. c \notin DOMAIN remoteConns /\ c \notin DOMAIN wsResponses /\ sent[c] = <<>>
  BY <1>2 DEF IInv, NewHasNothing
<1>6. CASE wsResponses' = AddSingleErrorMsgClosed(wsResponses, c, LastWord) /\ UNCHANGED remoteConns
  <2>1. WsTypeOK /\ QueueHoldsErrors
    BY DEF IInv, TypeOK
  <2>2. /\ DOMAIN wsResponses' = DOMAIN wsResponses \cup {c}
        /\ \A x \in DOMAIN wsResponses \ {c} : wsResponses'[x] = wsResponses[x]
        /\ QueueHoldsErrors'
        /\ wsResponses'[c].close
    BY <1>6, <2>1, AddErrorType, ErrorQueued
  <2>3. NewHasNothing' /\ SentWasRead' /\ StreamsLeftBehind'
    BY <1>2, <1>6, <2>2 DEF IInv, TypeOK, NewHasNothing, SentWasRead, StreamsLeftBehind
  <2>4. OpenHasStream'
    BY <1>2, <1>6, <2>2 DEF IInv, OpenHasStream
  <2> QED BY <1>1, <1>3, <1>4, <2>2, <2>3, <2>4 DEF IInv
<1>7. CASE HasRoute(p) /\ remoteConns' = Put(remoteConns, c, Stream(p)) /\ UNCHANGED wsResponses
  <2>1. /\ DOMAIN remoteConns' = DOMAIN remoteConns \cup {c}
        /\ \A x \in DOMAIN remoteConns : remoteConns'[x] = remoteConns[x]
        /\ remoteConns'[c].path = p /\ remoteConns'[c].read = 0
    BY <1>5, <1>7 DEF Put, Stream
  <2>2. NewHasNothing' /\ QueueHoldsErrors' /\ StreamsLeftBehind'
    BY <1>2, <1>7, <2>1
       DEF IInv, TypeOK, NewHasNothing, QueueHoldsErrors, StreamsLeftBehind
  <2>3. SentWasRead'
    BY <1>2, <1>5, <2>1 DEF IInv, SentWasRead, Bounded
  <2>4. OpenHasStream'
    BY <1>2, <1>7, <2>1 DEF IInv, OpenHasStream
  <2> QED BY <1>1, <1>3, <1>4, <2>2, <2>3, <2>4 DEF IInv
<1> QED BY <1>6, <1>7 DEF OnConnectionOpen

LEMMA ConnectionCloseIInv ==
  ASSUME IInv, NEW c \in Conns, OnConnectionClose(c)
  PROVE  IInv'
<1>1. TypeOK'
  BY ServeTypeOK DEF IInv
<1>2. /\ ws[c] # "new" /\ ws'[c] = "closed"
      /\ \A x \in Conns : x # c => ws'[x] = ws[x]
      /\ UNCHANGED <<wsResponses, sent, path>>
  BY DEF OnConnectionClose, Closed, IInv, TypeOK, WsTypeOK
<1>3. /\ DOMAIN remoteConns' = DOMAIN remoteConns \ {c}
      /\ \A x \in DOMAIN remoteConns' : remoteConns'[x] = remoteConns[x]
  BY DEF OnConnectionClose, AfterClose, Without, Restrict
<1>4. IdsInOrder' /\ QueuedNotSubmitted' /\ SubmittedAtMostOnce'
  BY RequestsUnchanged DEF OnConnectionClose
<1>5. NewHasNothing' /\ QueueHoldsErrors' /\ SentWasRead' /\ InOrder'
  BY <1>2, <1>3 DEF IInv, NewHasNothing, QueueHoldsErrors, SentWasRead, InOrder
<1>6. OpenHasStream' /\ StreamsLeftBehind'
  BY <1>2, <1>3 DEF IInv, TypeOK, OpenHasStream, StreamsLeftBehind
<1> QED BY <1>1, <1>4, <1>5, <1>6 DEF IInv

\* A message that is pushed gets an id and a number nobody had before.
LEMMA PushedIsNew ==
  ASSUME IInv, NEW c \in Conns, ProcessRequest(c),
         wsReqs' = Push(wsReqs, nextId, [conn |-> c, body |-> taken + 1])
  PROVE  /\ nextId \notin DOMAIN wsReqs
         /\ DOMAIN wsReqs' = DOMAIN wsReqs \cup {nextId}
         /\ wsReqs'[nextId] = [conn |-> c, body |-> taken + 1]
         /\ \A id \in DOMAIN wsReqs : wsReqs'[id] = wsReqs[id]
         /\ \A id \in DOMAIN wsReqs : wsReqs[id].body # taken + 1
         /\ taken + 1 \in Bodies /\ submitted[taken + 1] = 0
<1>1. nextId \in Nat /\ taken \in Nat /\ DOMAIN wsReqs \subseteq Nat
  BY RelayConstants DEF IInv, TypeOK
<1>2. nextId \notin DOMAIN wsReqs
  BY <1>1 DEF IInv, IdsInOrder
<1>3. taken + 1 \in Bodies
  BY <1>1, RelayConstants DEF ProcessRequest, Bodies
<1>4. \A id \in DOMAIN wsReqs : wsReqs[id].body # taken + 1
  <2> SUFFICES ASSUME NEW id \in DOMAIN wsReqs PROVE wsReqs[id].body # taken + 1
    OBVIOUS
  <2>1. wsReqs[id].body <= taken
    BY DEF IInv, QueuedNotSubmitted
  <2> QED BY <2>1, <1>1
<1>5. submitted[taken + 1] = 0
  BY <1>1, <1>3 DEF IInv, QueuedNotSubmitted
<1> QED BY <1>2, <1>3, <1>4, <1>5 DEF Push, Put

LEMMA ProcessRequestIInv ==
  ASSUME IInv, NEW c \in Conns, ProcessRequest(c)
  PROVE  IInv'
<1>1. TypeOK'
  BY ServeTypeOK DEF IInv
<1>2. /\ ws[c] = "open" /\ taken' = taken + 1 /\ taken + 1 <= MaxRequests
      /\ UNCHANGED <<sent, path, remoteConns, submitted>>
  BY DEF ProcessRequest
<1>3. SentWasRead' /\ SubmittedAtMostOnce' /\ InOrder'
  BY <1>2 DEF IInv, SentWasRead, SubmittedAtMostOnce, InOrder
<1>4. nextId \in Nat /\ taken \in Nat
  BY RelayConstants DEF IInv, TypeOK
<1>5. ASSUME UNCHANGED <<nextId, wsReqs>>
      PROVE  IdsInOrder' /\ QueuedNotSubmitted'
  <2>1. \A id \in DOMAIN wsReqs : wsReqs[id].body \in Nat
    BY RelayConstants DEF IInv, TypeOK, Bodies
  <2>2. \A b \in Bodies : b \in Nat
    BY DEF Bodies
  <2> QED BY <1>2, <1>4, <1>5, <2>1, <2>2 DEF IInv, IdsInOrder, QueuedNotSubmitted
<1>6. CASE c \notin DOMAIN remoteConns /\ ws' = Drop({c}) /\ UNCHANGED <<wsResponses, nextId, wsReqs>>
  <2>1. /\ \A x \in Conns : x # c => ws'[x] = ws[x]
        /\ ws'[c] = "dropped"
    BY <1>2, <1>6 DEF Drop
  <2>2. NewHasNothing' /\ QueueHoldsErrors' /\ StreamsLeftBehind'
    BY <1>2, <1>6, <2>1 DEF IInv, TypeOK, NewHasNothing, QueueHoldsErrors, StreamsLeftBehind
  <2>3. OpenHasStream'
    BY <1>2, <1>6, <2>1 DEF IInv, OpenHasStream
  <2> QED BY <1>1, <1>3, <1>5, <1>6, <2>2, <2>3 DEF IInv
<1>7. CASE /\ wsResponses' = AddSingleErrorMsgClosed(wsResponses, c, LastWord)
           /\ UNCHANGED <<ws, nextId, wsReqs>>
  <2>1. WsTypeOK /\ QueueHoldsErrors
    BY DEF IInv, TypeOK
  <2>2. /\ DOMAIN wsResponses' = DOMAIN wsResponses \cup {c}
        /\ \A x \in DOMAIN wsResponses \ {c} : wsResponses'[x] = wsResponses[x]
        /\ QueueHoldsErrors'
        /\ wsResponses'[c].close
    BY <1>7, <2>1, AddErrorType, ErrorQueued
  <2>3. NewHasNothing' /\ StreamsLeftBehind'
    BY <1>2, <1>7, <2>2 DEF IInv, NewHasNothing, StreamsLeftBehind
  <2>4. OpenHasStream'
    BY <1>2, <1>7, <2>2 DEF IInv, OpenHasStream
  <2> QED BY <1>1, <1>3, <1>5, <1>7, <2>2, <2>3, <2>4 DEF IInv
<1>8. CASE /\ wsReqs' = Push(wsReqs, nextId, [conn |-> c, body |-> taken + 1])
           /\ nextId' = NextReqId(nextId, IdSpace)
           /\ UNCHANGED <<ws, wsResponses>>
  <2>1. NewHasNothing' /\ QueueHoldsErrors' /\ StreamsLeftBehind' /\ OpenHasStream'
    BY <1>2, <1>8 DEF IInv, NewHasNothing, QueueHoldsErrors, StreamsLeftBehind, OpenHasStream
  <2>2. nextId' = nextId + 1
    <3>1. nextId <= taken
      BY DEF IInv, IdsInOrder
    <3>2. nextId + 1 < IdSpace /\ IdSpace \in Nat
      BY <3>1, <1>2, <1>4, RelayConstants
    <3> QED BY <1>4, <1>8, <3>2, NextReqIdCounts
  <2>3. /\ nextId \notin DOMAIN wsReqs
        /\ DOMAIN wsReqs' = DOMAIN wsReqs \cup {nextId}
        /\ wsReqs'[nextId].body = taken + 1
        /\ \A id \in DOMAIN wsReqs : wsReqs'[id] = wsReqs[id]
        /\ \A id \in DOMAIN wsReqs : wsReqs[id].body # taken + 1
        /\ submitted[taken + 1] = 0
    BY <1>8, PushedIsNew
  <2>4. DOMAIN wsReqs \subseteq Nat
    BY DEF IInv, TypeOK
  <2>5. IdsInOrder'
    BY <1>2, <1>4, <2>2, <2>3, <2>4 DEF IInv, IdsInOrder
  <2>6. QueuedNotSubmitted'
    <3>1. \A id \in DOMAIN wsReqs : wsReqs[id].body \in Nat
      BY RelayConstants DEF IInv, TypeOK, Bodies
    <3>2. \A b \in Bodies : b \in Nat
      BY DEF Bodies
    <3>3. \A id \in DOMAIN wsReqs' : wsReqs'[id].body <= taken' /\ submitted'[wsReqs'[id].body] = 0
      BY <1>2, <1>4, <2>3, <3>1 DEF IInv, QueuedNotSubmitted
    <3>4. \A i, j \in DOMAIN wsReqs' : wsReqs'[i].body = wsReqs'[j].body => i = j
      BY <2>3 DEF IInv, QueuedNotSubmitted
    <3>5. \A b \in Bodies : b > taken' => submitted'[b] = 0
      BY <1>2, <1>4, <3>2 DEF IInv, QueuedNotSubmitted
    <3> QED BY <3>3, <3>4, <3>5 DEF QueuedNotSubmitted
  <2> QED BY <1>1, <1>3, <2>1, <2>5, <2>6 DEF IInv
<1> QED BY <1>6, <1>7, <1>8 DEF ProcessRequest

\* A part of the tick that drops connections and their streams together leaves
\* no open connection without a stream, nor a stream of those it dropped.
LEMMA DroppedTogether ==
  ASSUME IInv, NEW cs, UNCHANGED <<wsResponses, path>>,
         ws' = Drop(cs),
         DOMAIN remoteConns' \subseteq DOMAIN remoteConns,
         \A x \in DOMAIN remoteConns' : remoteConns'[x].path = remoteConns[x].path,
         \A x \in DOMAIN remoteConns : x \in DOMAIN remoteConns' \/ x \in cs,
         \A x \in DOMAIN remoteConns' : x \notin cs
  PROVE  /\ NewHasNothing' <=> \A c \in Conns : ws[c] = "new" => sent'[c] = <<>>
         /\ QueueHoldsErrors' /\ OpenHasStream' /\ StreamsLeftBehind'
<1>1. \A x \in Conns : ws'[x] = IF x \in cs /\ ws[x] = "open" THEN "dropped" ELSE ws[x]
  BY DEF Drop
<1>2. \A x \in Conns : ws'[x] = "new" <=> ws[x] = "new"
  BY <1>1
<1>3. NewHasNothing' <=> \A c \in Conns : ws[c] = "new" => sent'[c] = <<>>
  BY <1>2 DEF IInv, NewHasNothing
<1>4. QueueHoldsErrors'
  BY DEF IInv, QueueHoldsErrors
<1>5. OpenHasStream'
  <2> SUFFICES ASSUME NEW c \in Conns, ws'[c] = "open"
               PROVE  \/ c \in DOMAIN remoteConns' /\ remoteConns'[c].path = path'[c]
                      \/ c \in DOMAIN wsResponses' /\ wsResponses'[c].close
    BY DEF OpenHasStream
  <2>1. ws[c] = "open" /\ c \notin cs
    BY <1>1
  <2>2. \/ c \in DOMAIN remoteConns /\ remoteConns[c].path = path[c]
        \/ c \in DOMAIN wsResponses /\ wsResponses[c].close
    BY <2>1 DEF IInv, OpenHasStream
  <2> QED BY <2>1, <2>2
<1>6. StreamsLeftBehind'
  <2>1. DOMAIN remoteConns \subseteq Conns
    BY DEF IInv, TypeOK
  <2> QED BY <1>1, <2>1 DEF IInv, StreamsLeftBehind
<1> QED BY <1>3, <1>4, <1>5, <1>6

LEMMA TickWsReqsIInv ==
  ASSUME IInv, TickWsReqs
  PROVE  IInv'
<1>1. TypeOK'
  BY TickTypeOK DEF IInv
<1>2. PICK ok \in SUBSET (DOMAIN wsReqs \ Orphans), failed \in SUBSET DOMAIN wsReqs :
        /\ submitted' = CountSubmits(ok)
        /\ wsReqs' = Pop(wsReqs, Done(ok))
        /\ ws' = Drop(ConnsOf(Lost(failed)))
        /\ remoteConns' = Without(remoteConns, CloseRemote(failed))
  BY DEF TickWsReqs
<1>3. UNCHANGED <<wsResponses, sent, path, nextId, taken>>
  BY DEF TickWsReqs
<1>4. /\ DOMAIN remoteConns' = DOMAIN remoteConns \ ConnsOf(failed)
      /\ \A x \in DOMAIN remoteConns' : remoteConns'[x] = remoteConns[x]
  BY <1>2 DEF CloseRemote, Without, Restrict
<1>5. /\ ConnsOf(failed) \subseteq ConnsOf(Lost(failed))
      /\ \A x \in DOMAIN remoteConns' : x \notin ConnsOf(Lost(failed))
  BY <1>4 DEF ConnsOf, Lost, Orphans
<1>6. NewHasNothing' /\ QueueHoldsErrors' /\ OpenHasStream' /\ StreamsLeftBehind'
  <2>1. \A c \in Conns : ws[c] = "new" => sent'[c] = <<>>
    BY <1>3 DEF IInv, NewHasNothing
  <2> QED BY <1>2, <1>3, <1>4, <1>5, <2>1, DroppedTogether
<1>7. SentWasRead' /\ InOrder'
  BY <1>3, <1>4 DEF IInv, SentWasRead, InOrder
<1>8. /\ DOMAIN wsReqs' = DOMAIN wsReqs \ Done(ok)
      /\ \A id \in DOMAIN wsReqs' : wsReqs'[id] = wsReqs[id]
      /\ ok \subseteq Done(ok)
  BY <1>2 DEF Pop, Without, Restrict, Done
<1>9. \A b \in Bodies :
        submitted'[b] = IF \E id \in ok : wsReqs[id].body = b THEN submitted[b] + 1
                        ELSE submitted[b]
  BY <1>2 DEF CountSubmits
<1>10. \A id \in DOMAIN wsReqs : wsReqs[id].body \in Bodies
  BY DEF IInv, TypeOK
<1>11. IdsInOrder'
  BY <1>3, <1>8 DEF IInv, IdsInOrder
<1>12. \A b \in Bodies : (\E id \in ok : wsReqs[id].body = b) =>
         submitted[b] = 0 /\ b <= taken
  BY DEF IInv, QueuedNotSubmitted
<1>13. SubmittedAtMostOnce'
  BY <1>9, <1>12 DEF IInv, SubmittedAtMostOnce
<1>14. QueuedNotSubmitted'
  <2>1. \A id \in DOMAIN wsReqs' : submitted'[wsReqs'[id].body] = 0
    <3> SUFFICES ASSUME NEW id \in DOMAIN wsReqs' PROVE submitted'[wsReqs'[id].body] = 0
      OBVIOUS
    <3>1. ~\E x \in ok : wsReqs[x].body = wsReqs[id].body
      BY <1>8 DEF IInv, QueuedNotSubmitted
    <3> QED BY <3>1, <1>8, <1>9, <1>10 DEF IInv, QueuedNotSubmitted
  <2>2. \A b \in Bodies : b > taken => submitted'[b] = 0
    <3>1. taken \in Nat /\ Bodies \subseteq Nat
      BY RelayConstants DEF IInv, TypeOK, Bodies
    <3>2. \A b \in Bodies : b > taken => ~(b <= taken)
      BY <3>1
    <3> QED BY <1>9, <1>12, <3>2 DEF IInv, QueuedNotSubmitted
  <2> QED BY <1>3, <1>8, <2>1, <2>2 DEF IInv, QueuedNotSubmitted
<1> QED BY <1>1, <1>6, <1>7, <1>11, <1>13, <1>14 DEF IInv

LEMMA TickWsRecvRemoteIInv ==
  ASSUME IInv, TickWsRecvRemote
  PROVE  IInv'
<1>1. TypeOK'
  BY TickTypeOK DEF IInv
<1>2. PICK got \in SUBSET Readable, broken \in SUBSET DOMAIN remoteConns :
        /\ remoteConns' = Without(Reads(got), broken \cup Detached(got))
        /\ ws' = Drop(RemoteLost(broken, got))
        /\ \E ok \in SUBSET (got \ Detached(got)) :
             sent' = [c \in Conns |->
                        IF c \in ok THEN Append(sent[c], remoteConns[c].read + 1)
                        ELSE sent[c]]
  BY DEF TickWsRecvRemote
<1>3. PICK ok \in SUBSET (got \ Detached(got)) :
        sent' = [c \in Conns |->
                   IF c \in ok THEN Append(sent[c], remoteConns[c].read + 1)
                   ELSE sent[c]]
  BY <1>2
<1>4. UNCHANGED <<wsResponses, path, nextId, wsReqs, taken, submitted>>
  BY DEF TickWsRecvRemote
<1>5. /\ DOMAIN remoteConns' = DOMAIN remoteConns \ (broken \cup Detached(got))
      /\ \A x \in DOMAIN remoteConns' :
           /\ remoteConns'[x].path = remoteConns[x].path
           /\ remoteConns'[x].read = IF x \in got THEN remoteConns[x].read + 1
                                     ELSE remoteConns[x].read
  <2>1. TypeOK
    BY DEF IInv
  <2>2. /\ DOMAIN remoteConns' = DOMAIN Reads(got) \ (broken \cup Detached(got))
        /\ \A x \in DOMAIN remoteConns' : remoteConns'[x] = Reads(got)[x]
    BY <1>2 DEF Without, Restrict
  <2>3. /\ DOMAIN Reads(got) = DOMAIN remoteConns
        /\ \A x \in DOMAIN remoteConns :
             Reads(got)[x] = [path |-> remoteConns[x].path, down |-> remoteConns[x].down,
                              read |-> IF x \in got THEN remoteConns[x].read + 1
                                       ELSE remoteConns[x].read]
    BY <2>1, ReadsStreams
  <2>4. \A x \in DOMAIN remoteConns :
          /\ Reads(got)[x].path = remoteConns[x].path
          /\ Reads(got)[x].read = IF x \in got THEN remoteConns[x].read + 1
                                  ELSE remoteConns[x].read
    BY <2>3
  <2> QED BY <2>2, <2>3, <2>4
<1>6. \A c \in ok : c \in DOMAIN remoteConns /\ c \in got /\ ws[c] = "open"
  BY <1>2, <1>3 DEF Readable, Detached
<1>7. NewHasNothing' /\ QueueHoldsErrors' /\ OpenHasStream' /\ StreamsLeftBehind'
  <2>1. \A c \in Conns : ws[c] = "new" => sent'[c] = <<>>
    BY <1>3, <1>6 DEF IInv, NewHasNothing
  <2> QED BY <1>2, <1>4, <1>5, <2>1, DroppedTogether DEF RemoteLost
<1>8. IdsInOrder' /\ QueuedNotSubmitted' /\ SubmittedAtMostOnce'
  BY <1>4, RequestsUnchanged
<1>9. \A c \in DOMAIN remoteConns :
        /\ c \in Conns /\ remoteConns[c].read \in Nat
        /\ sent[c] \in Seq(Nat) /\ Bounded(sent[c], remoteConns[c].read)
  BY RelayConstants DEF IInv, TypeOK, WsTypeOK, SentWasRead
<1>10. ASSUME NEW c \in ok
       PROVE  /\ sent'[c] = Append(sent[c], remoteConns[c].read + 1)
              /\ Bounded(sent'[c], remoteConns[c].read + 1)
              /\ Ordered(sent'[c])
  <2> DEFINE s == sent[c]
             n == remoteConns[c].read
  <2>1. sent'[c] = Append(s, n + 1)
    BY <1>3, <1>6, <1>9
  <2>2. s \in Seq(Nat) /\ n \in Nat /\ Bounded(s, n)
    BY <1>6, <1>9
  <2>3. Ordered(s)
    BY <1>6, <1>9 DEF IInv, InOrder, Ordered
  <2> HIDE DEF s, n
  <2>4. /\ Len(Append(s, n + 1)) = Len(s) + 1
        /\ Append(s, n + 1)[Len(s) + 1] = n + 1
        /\ \A i \in 1..Len(s) : Append(s, n + 1)[i] = s[i] /\ s[i] \in Nat /\ s[i] <= n
    BY <2>2 DEF Bounded
  <2>5. Bounded(Append(s, n + 1), n + 1)
    BY <2>2, <2>4 DEF Bounded
  <2>6. Ordered(Append(s, n + 1))
    <3> DEFINE t == Append(s, n + 1)
    <3> SUFFICES ASSUME NEW i \in 1..(Len(s) + 1), NEW j \in 1..(Len(s) + 1), i < j,
                        t[i] # LastWord, t[j] # LastWord
                 PROVE  t[i] < t[j]
      BY <2>4 DEF Ordered
    <3>1. i \in 1..Len(s)
      BY <2>2
    <3>2. CASE j = Len(s) + 1
      BY <2>2, <2>4, <3>1, <3>2
    <3>3. CASE j # Len(s) + 1
      <4>1. j \in 1..Len(s)
        BY <2>2, <3>3
      <4> QED BY <2>3, <2>4, <3>1, <4>1 DEF Ordered
    <3> QED BY <3>2, <3>3
  <2> QED BY <2>1, <2>5, <2>6 DEF s, n
<1>11. \A c \in Conns : c \notin ok => sent'[c] = sent[c]
  BY <1>3
<1>12. InOrder'
  BY <1>10, <1>11 DEF IInv, InOrder, Ordered
<1>13. SentWasRead'
  <2> SUFFICES ASSUME NEW c \in DOMAIN remoteConns'
               PROVE  Bounded(sent'[c], remoteConns'[c].read)
    BY DEF SentWasRead
  <2>1. CASE c \in ok
    BY <1>5, <1>6, <1>10, <2>1
  <2>2. CASE c \notin ok
    <3>1. sent'[c] = sent[c] /\ sent[c] \in Seq(Nat) /\ Bounded(sent[c], remoteConns[c].read)
      BY <1>5, <1>9, <1>11, <2>2
    <3>2. /\ remoteConns[c].read \in Nat /\ remoteConns'[c].read \in Nat
          /\ remoteConns[c].read <= remoteConns'[c].read
      BY <1>5, <1>9
    <3>3. \A i \in 1..Len(sent[c]) : sent[c][i] \in Nat
      BY <3>1
    <3> QED BY <3>1, <3>2, <3>3 DEF Bounded
  <2> QED BY <2>1, <2>2
<1> QED BY <1>1, <1>7, <1>8, <1>12, <1>13 DEF IInv

LEMMA TickSendIInv ==
  ASSUME IInv, TickSend
  PROVE  IInv'
<1>1. TypeOK'
  BY TickTypeOK DEF IInv
<1>2. UNCHANGED <<path, remoteConns, nextId, wsReqs, taken, submitted>>
  BY DEF TickSend
<1>3. /\ DOMAIN wsResponses' \subseteq DOMAIN wsResponses
      /\ \A c \in DOMAIN wsResponses' : wsResponses'[c] = wsResponses[c]
      /\ \A c \in Conns : Flushed(c) \/ FlushFailed(c) \/ NotFlushed(c)
  BY TickSendEffect DEF TickSend, IInv, TypeOK
<1>4. IdsInOrder' /\ QueuedNotSubmitted' /\ SubmittedAtMostOnce'
  BY <1>2, RequestsUnchanged
<1>5. QueueHoldsErrors'
  BY <1>3 DEF IInv, QueueHoldsErrors
<1>6. \A c \in Conns : Flushed(c) => ws[c] = "open" /\ ws'[c] = "shut"
  BY DEF Flushed, IInv, QueueHoldsErrors
<1>7. NewHasNothing'
  BY <1>2, <1>3, <1>6 DEF FlushFailed, NotFlushed, IInv, NewHasNothing
<1>8. StreamsLeftBehind'
  BY <1>2, <1>3, <1>6 DEF FlushFailed, NotFlushed, IInv, TypeOK, StreamsLeftBehind
<1>9. OpenHasStream'
  BY <1>2, <1>3, <1>6 DEF FlushFailed, NotFlushed, IInv, OpenHasStream
<1>10. \A c \in Conns :
         \/ sent'[c] = sent[c]
         \/ /\ c \in DOMAIN wsResponses
            /\ sent'[c] = sent[c] \o wsResponses[c].items
  BY <1>3 DEF Flushed, FlushFailed, NotFlushed
<1>11. \A c \in DOMAIN wsResponses :
         /\ c \in Conns /\ sent[c] \in Seq(Nat)
         /\ wsResponses[c].items \in Seq(Nat)
         /\ \A i \in 1..Len(wsResponses[c].items) : wsResponses[c].items[i] = LastWord
  <2> SUFFICES ASSUME NEW c \in DOMAIN wsResponses
               PROVE  /\ c \in Conns /\ sent[c] \in Seq(Nat)
                      /\ wsResponses[c].items \in Seq(Nat)
                      /\ \A i \in 1..Len(wsResponses[c].items) :
                           wsResponses[c].items[i] = LastWord
    OBVIOUS
  <2>1. c \in Conns /\ sent[c] \in Seq(Nat) /\ wsResponses[c].items \in Seq(Nat)
    BY DEF IInv, TypeOK, WsTypeOK
  <2>2. \A i \in 1..Len(wsResponses[c].items) :
          wsResponses[c].items[i] \in Nat /\ wsResponses[c].items[i] <= LastWord
    BY <2>1 DEF IInv, QueueHoldsErrors, Bounded
  <2> QED BY <2>1, <2>2 DEF LastWord
<1>12. InOrder'
  <2> SUFFICES ASSUME NEW c \in Conns PROVE Ordered(sent'[c])
    BY DEF InOrder, Ordered
  <2>1. Ordered(sent[c])
    BY DEF IInv, InOrder, Ordered
  <2>2. CASE c \in DOMAIN wsResponses /\ sent'[c] = sent[c] \o wsResponses[c].items
    <3>1. Ordered(wsResponses[c].items)
      BY <1>11, <2>2 DEF Ordered
    <3> QED BY <1>11, <2>1, <2>2, <3>1, ConcatOrdered
  <2> QED BY <1>10, <2>1, <2>2
<1>13. SentWasRead'
  <2> SUFFICES ASSUME NEW c \in DOMAIN remoteConns
               PROVE  Bounded(sent'[c], remoteConns[c].read)
    BY <1>2 DEF SentWasRead
  <2>1. /\ c \in Conns /\ remoteConns[c].read \in Nat
        /\ Bounded(sent[c], remoteConns[c].read)
    BY RelayConstants DEF IInv, TypeOK, SentWasRead
  <2>2. CASE c \in DOMAIN wsResponses /\ sent'[c] = sent[c] \o wsResponses[c].items
    <3>1. Bounded(wsResponses[c].items, remoteConns[c].read)
      BY <1>11, <2>1, <2>2 DEF Bounded, LastWord
    <3> QED BY <1>11, <2>1, <2>2, <3>1, ConcatBounded
  <2> QED BY <1>10, <2>1, <2>2
<1> QED BY <1>1, <1>4, <1>5, <1>7, <1>8, <1>9, <1>12, <1>13 DEF IInv

LEMMA RemoteSendsIInv ==
  ASSUME IInv, NEW c \in Conns, RemoteSends(c)
  PROVE  IInv'
<1>1. TypeOK'
  BY RemoteSendsTypeOK DEF IInv
<1>2. UNCHANGED <<ws, wsResponses, sent, path, nextId, wsReqs, taken, submitted>>
  BY DEF RemoteSends, wsVars
<1>3. /\ DOMAIN remoteConns' = DOMAIN remoteConns
      /\ \A x \in DOMAIN remoteConns :
           remoteConns'[x].path = remoteConns[x].path /\ remoteConns'[x].read = remoteConns[x].read
  <2>1. remoteConns[c] \in StreamType
    BY DEF RemoteSends, IInv, TypeOK, StreamType
  <2> QED BY <2>1 DEF RemoteSends, StreamType
<1>4. IdsInOrder' /\ QueuedNotSubmitted' /\ SubmittedAtMostOnce'
  BY <1>2, RequestsUnchanged
<1>5. NewHasNothing' /\ QueueHoldsErrors' /\ SentWasRead' /\ InOrder'
  BY <1>2, <1>3 DEF IInv, NewHasNothing, QueueHoldsErrors, SentWasRead, InOrder
<1>6. OpenHasStream' /\ StreamsLeftBehind'
  BY <1>2, <1>3 DEF IInv, OpenHasStream, StreamsLeftBehind
<1> QED BY <1>1, <1>4, <1>5, <1>6 DEF IInv

LEMMA UnchangedIInv ==
  ASSUME IInv, UNCHANGED <<wsVars, path, remoteConns, nextId, wsReqs, taken, submitted>>, TypeOK'
  PROVE  IInv'
<1>1. UNCHANGED <<ws, wsResponses, sent>>
  BY DEF wsVars
<1>2. IdsInOrder' /\ QueuedNotSubmitted' /\ SubmittedAtMostOnce'
  BY RequestsUnchanged
<1>3. NewHasNothing' /\ QueueHoldsErrors' /\ SentWasRead' /\ InOrder'
  BY <1>1 DEF IInv, NewHasNothing, QueueHoldsErrors, SentWasRead, InOrder
<1>4. OpenHasStream' /\ StreamsLeftBehind'
  BY <1>1 DEF IInv, OpenHasStream, StreamsLeftBehind
<1> QED BY <1>2, <1>3, <1>4 DEF IInv

LEMMA NextIInv == IInv /\ [Next]_vars => IInv'
<1> SUFFICES ASSUME IInv, [Next]_vars PROVE IInv'
  OBVIOUS
<1>1. TypeOK'
  BY NextTypeOK DEF IInv
<1>2. CASE OnTick
  BY <1>1, <1>2, UnchangedIInv DEF OnTick
<1>3. CASE UNCHANGED vars
  BY <1>1, <1>3, UnchangedIInv DEF vars
<1> QED BY <1>2, <1>3, ConnectionOpenIInv, ConnectionCloseIInv, ProcessRequestIInv,
           TickWsReqsIInv, TickWsRecvRemoteIInv, TickSendIInv, RemoteSendsIInv DEF Next

-----------------------------------------------------------------------------
(* The theorems.                                                           *)

\* The inductive invariant holds in every reachable state.
THEOREM Invariance == Spec => []IInv
  BY InitIInv, NextIInv, PTL DEF Spec

\* A message of a client is written to a stream of the remote at most once.
THEOREM NeverSubmittedTwice == Spec => []SubmittedAtMostOnce
<1>1. IInv => SubmittedAtMostOnce
  BY DEF IInv
<1> QED BY <1>1, Invariance, PTL

\* No open connection is left without a stream of its route or an error that
\* closes it, whatever failed in whichever part of the tick.
THEOREM OpenConnsServed == Spec => []OpenHasStream
<1>1. IInv => OpenHasStream
  BY DEF IInv
<1> QED BY <1>1, Invariance, PTL

\* A failure on the side of the remote takes both sides down at once: a stream is
\* left behind only by tick_send_response, when it shuts a connection or cannot
\* write to it, and until the closing of that connection is reported.
THEOREM FailuresTakeBothDown == Spec => []StreamsLeftBehind
<1>1. IInv => StreamsLeftBehind
  BY DEF IInv
<1> QED BY <1>1, Invariance, PTL

\* What a remote sends over a stream is passed on in its order and not twice.
THEOREM DeliveredInOrder == Spec => []InOrder
<1>1. IInv => InOrder
  BY DEF IInv
<1> QED BY <1>1, Invariance, PTL

-----------------------------------------------------------------------------
(* The handler implements RelayContract.                                   *)

\* What leaves a queue takes nothing else with it, as nothing is queued twice.
LEMMA OwedWithout ==
  ASSUME IInv, NEW ids \in SUBSET DOMAIN wsReqs,
         DOMAIN wsReqs' = DOMAIN wsReqs \ ids,
         \A id \in DOMAIN wsReqs' : wsReqs'[id] = wsReqs[id]
  PROVE  Owed' = Owed \ {wsReqs[id] : id \in ids}
<1>1. \A i, j \in DOMAIN wsReqs : wsReqs[i] = wsReqs[j] => i = j
  BY DEF IInv, QueuedNotSubmitted
<1> QED BY <1>1 DEF Owed

\* A step that ends connections and settles nothing.
LEMMA EndIsSettle ==
  ASSUME LiveConns' \subseteq LiveConns,
         DOMAIN remoteConns' \subseteq DOMAIN remoteConns,
         DOMAIN remoteConns \cap LiveConns' \subseteq DOMAIN remoteConns',
         UNCHANGED <<wsReqs, submitted>>
  PROVE  Contract!Next
<1>1. Contract!End
  BY DEF Contract!End, Linked
<1>2. Owed' = Owed \ {} /\ Sent' = Sent \cup {m.body : m \in {}}
  BY DEF Owed, Sent
<1>3. Contract!Settle({}, {})
  BY <1>1, <1>2 DEF Contract!Settle
<1> QED BY <1>3 DEF Contract!Next

LEMMA ServeKeepsContract ==
  ASSUME IInv, NEW c \in Conns,
         \/ \E p \in Paths : OnConnectionOpen(c, p)
         \/ OnConnectionClose(c)
         \/ ProcessRequest(c)
  PROVE  [Contract!Next]_(Contract!vars)
<1>1. CASE \E p \in Paths : OnConnectionOpen(c, p)
  <2>1. PICK p \in Paths : OnConnectionOpen(c, p)
    BY <1>1
  <2>2. c \notin LiveConns \cup DOMAIN remoteConns /\ LiveConns' = LiveConns \cup {c}
    BY <2>1 DEF OnConnectionOpen, Opened, LiveConns, IInv, TypeOK, WsTypeOK, NewHasNothing
  <2>3. \E link \in SUBSET {c} : DOMAIN remoteConns' = DOMAIN remoteConns \cup link
    <3>1. CASE UNCHANGED remoteConns
      <4>1. {} \in SUBSET {c} /\ DOMAIN remoteConns' = DOMAIN remoteConns \cup {}
        BY <3>1
      <4> QED BY <4>1
    <3>2. CASE remoteConns' = Put(remoteConns, c, Stream(p))
      <4>1. {c} \in SUBSET {c} /\ DOMAIN remoteConns' = DOMAIN remoteConns \cup {c}
        BY <3>2 DEF Put
      <4> QED BY <4>1
    <3> QED BY <2>1, <3>1, <3>2 DEF OnConnectionOpen
  <2>4. UNCHANGED <<Owed, Sent>>
    BY <2>1 DEF OnConnectionOpen, Owed, Sent
  <2>5. \E link \in SUBSET {c} : Contract!Open(c, link)
    BY <2>2, <2>3, <2>4 DEF Contract!Open, Linked
  <2> QED BY <2>5 DEF Contract!Next
<1>2. CASE OnConnectionClose(c)
  <2>1. LiveConns' = LiveConns \ {c}
    BY <1>2 DEF OnConnectionClose, Closed, LiveConns, IInv, TypeOK, WsTypeOK
  <2>2. DOMAIN remoteConns' = DOMAIN remoteConns \ {c}
    BY <1>2 DEF OnConnectionClose, AfterClose, Without, Restrict
  <2>3. UNCHANGED <<wsReqs, submitted>>
    BY <1>2 DEF OnConnectionClose
  <2> QED BY <2>1, <2>2, <2>3, EndIsSettle
<1>3. CASE ProcessRequest(c)
  <2>1. UNCHANGED <<remoteConns, submitted>>
    BY <1>3 DEF ProcessRequest
  <2>2. CASE ws' = Drop({c}) /\ UNCHANGED <<wsResponses, nextId, wsReqs>>
    <3>1. LiveConns' \subseteq LiveConns
      BY <2>2 DEF LiveConns, Drop
    <3> QED BY <2>1, <2>2, <3>1, EndIsSettle
  <2>3. CASE UNCHANGED <<ws, nextId, wsReqs>>
    BY <2>1, <2>3 DEF Contract!vars, LiveConns, Linked, Owed, Sent
  <2>4. CASE /\ c \in DOMAIN remoteConns
             /\ wsReqs' = Push(wsReqs, nextId, [conn |-> c, body |-> taken + 1])
             /\ UNCHANGED <<ws, wsResponses>>
    <3> DEFINE m == [conn |-> c, body |-> taken + 1]
    <3>1. /\ nextId \notin DOMAIN wsReqs
          /\ DOMAIN wsReqs' = DOMAIN wsReqs \cup {nextId}
          /\ wsReqs'[nextId] = m
          /\ \A id \in DOMAIN wsReqs : wsReqs'[id] = wsReqs[id]
          /\ \A id \in DOMAIN wsReqs : wsReqs[id].body # taken + 1
          /\ taken + 1 \in Bodies /\ submitted[taken + 1] = 0
      BY <1>3, <2>4, PushedIsNew
    <3>2. m \in Contract!Message
      BY <3>1 DEF Contract!Message
    <3>3. m.conn \in LiveConns \cap DOMAIN remoteConns
      BY <1>3, <2>4 DEF ProcessRequest, LiveConns
    <3>4. m.body \notin Sent /\ \A n \in Owed : n.body # m.body
      BY <3>1 DEF Sent, Owed
    <3>5. Owed' = Owed \cup {m}
      BY <3>1 DEF Owed
    <3>6. UNCHANGED <<LiveConns, Sent>>
      BY <2>1, <2>4 DEF LiveConns, Sent
    <3> HIDE DEF m
    <3>7. Contract!Accept(m)
      BY <2>1, <3>3, <3>4, <3>5, <3>6 DEF Contract!Accept, Linked
    <3> QED BY <3>2, <3>7 DEF Contract!Next
  <2> QED BY <1>3, <2>2, <2>3, <2>4 DEF ProcessRequest
<1> QED BY <1>1, <1>2, <1>3

LEMMA TickWsReqsSettles ==
  ASSUME IInv, TickWsReqs
  PROVE  Contract!Next
<1>1. PICK ok \in SUBSET (DOMAIN wsReqs \ Orphans), failed \in SUBSET DOMAIN wsReqs :
        /\ submitted' = CountSubmits(ok)
        /\ wsReqs' = Pop(wsReqs, Done(ok))
        /\ ws' = Drop(ConnsOf(Lost(failed)))
        /\ remoteConns' = Without(remoteConns, CloseRemote(failed))
  BY DEF TickWsReqs
<1> DEFINE settled == {wsReqs[id] : id \in Done(ok)}
           sending == {wsReqs[id] : id \in ok}
<1>2. Done(ok) \in SUBSET DOMAIN wsReqs /\ ok \subseteq Done(ok)
  BY DEF Done, Orphans
<1>3. Owed' = Owed \ settled
  <2>1. /\ DOMAIN wsReqs' = DOMAIN wsReqs \ Done(ok)
        /\ \A id \in DOMAIN wsReqs' : wsReqs'[id] = wsReqs[id]
    BY <1>1 DEF Pop, Without, Restrict
  <2> QED BY <1>2, <2>1, OwedWithout
<1>4. settled \in SUBSET Owed /\ sending \in SUBSET settled
  BY <1>2 DEF Owed
<1>5. Sent' = Sent \cup {m.body : m \in sending}
  <2>1. {m.body : m \in sending} = {wsReqs[id].body : id \in ok}
    OBVIOUS
  <2>2. \A id \in ok : wsReqs[id].body \in Bodies
    BY <1>2 DEF IInv, TypeOK
  <2>3. \A b \in Bodies : submitted[b] \in Nat /\
          submitted'[b] = IF \E id \in ok : wsReqs[id].body = b THEN submitted[b] + 1
                          ELSE submitted[b]
    BY <1>1 DEF CountSubmits, IInv, TypeOK
  <2>4. \A b \in Bodies :
          submitted'[b] > 0 <=> submitted[b] > 0 \/ \E id \in ok : wsReqs[id].body = b
    BY <2>3
  <2> HIDE DEF sending
  <2> QED BY <2>1, <2>2, <2>4 DEF Sent
<1>6. LiveConns' = LiveConns \ ConnsOf(Lost(failed))
  BY <1>1 DEF LiveConns, Drop
<1>7. \A m \in settled \ sending : m.conn \notin LiveConns'
  <2> SUFFICES ASSUME NEW id \in Done(ok), wsReqs[id] \notin sending
               PROVE  wsReqs[id].conn \notin LiveConns'
    OBVIOUS
  <2>1. id \in Orphans
    BY DEF Done
  <2>2. wsReqs[id].conn \in ConnsOf(Lost(failed))
    BY <2>1 DEF Lost, ConnsOf
  <2> QED BY <1>6, <2>2
<1>8. Contract!End
  <2>1. DOMAIN remoteConns' = DOMAIN remoteConns \ ConnsOf(failed)
    BY <1>1 DEF CloseRemote, Without, Restrict
  <2>2. ConnsOf(failed) \subseteq ConnsOf(Lost(failed))
    BY DEF ConnsOf, Lost
  <2> QED BY <1>6, <2>1, <2>2 DEF Contract!End, Linked
<1> HIDE DEF settled, sending
<1>9. Contract!Settle(settled, sending)
  BY <1>3, <1>5, <1>7, <1>8 DEF Contract!Settle
<1> QED BY <1>4, <1>9 DEF Contract!Next

LEMMA TickWsRecvRemoteEnds ==
  ASSUME IInv, TickWsRecvRemote
  PROVE  Contract!Next
<1>1. PICK got \in SUBSET Readable, broken \in SUBSET DOMAIN remoteConns :
        /\ remoteConns' = Without(Reads(got), broken \cup Detached(got))
        /\ ws' = Drop(RemoteLost(broken, got))
  BY DEF TickWsRecvRemote
<1>2. DOMAIN remoteConns' = DOMAIN remoteConns \ (broken \cup Detached(got))
  BY <1>1 DEF Without, Restrict, Reads
<1>3. LiveConns' = LiveConns \ (broken \cup Detached(got))
  BY <1>1 DEF LiveConns, Drop, RemoteLost
<1>4. UNCHANGED <<wsReqs, submitted>>
  BY DEF TickWsRecvRemote
<1> QED BY <1>2, <1>3, <1>4, EndIsSettle

LEMMA TickSendEnds ==
  ASSUME IInv, TickSend
  PROVE  Contract!Next
<1>1. UNCHANGED <<remoteConns, wsReqs, submitted>>
  BY DEF TickSend
<1>2. \A c \in Conns : Flushed(c) \/ FlushFailed(c) \/ NotFlushed(c)
  BY TickSendEffect DEF TickSend, IInv, TypeOK
<1>3. LiveConns' \subseteq LiveConns
  BY <1>2 DEF LiveConns, Flushed, FlushFailed, NotFlushed
<1> QED BY <1>1, <1>3, EndIsSettle

LEMMA NextKeepsContract == IInv /\ [Next]_vars => [Contract!Next]_(Contract!vars)
<1> SUFFICES ASSUME IInv, [Next]_vars PROVE [Contract!Next]_(Contract!vars)
  OBVIOUS
<1>1. CASE OnTick
  BY <1>1 DEF OnTick, wsVars, Contract!vars, LiveConns, Linked, Owed, Sent
<1>2. CASE \E c \in Conns : RemoteSends(c)
  <2>1. DOMAIN remoteConns' = DOMAIN remoteConns
    BY <1>2 DEF RemoteSends
  <2> QED BY <1>2, <2>1 DEF RemoteSends, wsVars, Contract!vars,
                          LiveConns, Linked, Owed, Sent
<1>3. CASE UNCHANGED vars
  BY <1>3 DEF vars, wsVars, Contract!vars, LiveConns, Linked, Owed, Sent
<1> QED BY <1>1, <1>2, <1>3, ServeKeepsContract, TickWsReqsSettles,
           TickWsRecvRemoteEnds, TickSendEnds DEF Next

\* The relay handler keeps the contract of relay mode, for any connections,
\* messages and failures: a message is submitted once or given up with its
\* connection, and an open connection keeps its stream.
THEOREM Refinement == Spec => KeepsContract
<1>1. Init => Contract!Init
  <2> SUFFICES ASSUME Init PROVE Contract!Init
    OBVIOUS
  <2>1. DOMAIN remoteConns = {} /\ DOMAIN wsReqs = {}
    BY EmptyMap DEF Init
  <2> QED BY <2>1 DEF Init, WsInit, Contract!Init, LiveConns, Linked, Owed, Sent
<1> QED BY <1>1, NextKeepsContract, Invariance, PTL DEF Spec, KeepsContract, Contract!Spec

-----------------------------------------------------------------------------
(* What the contract says of relay mode.                                   *)

\* No message is owed twice; without it submitting one could leave the other.
OwedOnce == \A m, n \in Owed : m.body = n.body => m = n

\* Under the contract a message that was submitted is not owed any more, whatever
\* the state is that stands for what is owed.
THEOREM ContractSubmitsOnce ==
  Contract!Spec => [](Contract!TypeOK /\ Contract!SubmittedIsSettled)
<1> DEFINE Inv == Contract!TypeOK /\ Contract!SubmittedIsSettled /\ OwedOnce
<1>1. Contract!Init => Inv
  BY DEF Contract!Init, Contract!TypeOK, Contract!SubmittedIsSettled, OwedOnce
<1>2. Inv /\ [Contract!Next]_(Contract!vars) => Inv'
  <2> SUFFICES ASSUME Inv, [Contract!Next]_(Contract!vars) PROVE Inv'
    OBVIOUS
  <2> USE DEF Contract!TypeOK, Contract!SubmittedIsSettled, OwedOnce
  <2>1. CASE \E c \in Conns : \E link \in SUBSET {c} : Contract!Open(c, link)
    BY <2>1 DEF Contract!Open
  <2>2. CASE \E m \in Contract!Message : Contract!Accept(m)
    BY <2>2 DEF Contract!Accept
  <2>3. CASE \E settled \in SUBSET Owed : \E sending \in SUBSET settled :
               Contract!Settle(settled, sending)
    BY <2>3 DEF Contract!Settle, Contract!End, Contract!Message
  <2>4. CASE UNCHANGED Contract!vars
    BY <2>4 DEF Contract!vars
  <2> QED BY <2>1, <2>2, <2>3, <2>4 DEF Contract!Next
<1> QED BY <1>1, <1>2, PTL DEF Contract!Spec

\* So a message the handler has written to its stream does not wait in ws_reqs
\* for another write, nor does one with its number come back.
THEOREM SubmittedNotKept == Spec => []Contract!SubmittedIsSettled
BY Refinement, ContractSubmitsOnce, PTL DEF KeepsContract
=============================================================================
