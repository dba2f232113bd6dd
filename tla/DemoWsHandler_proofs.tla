------------------------ MODULE DemoWsHandler_proofs ------------------------
(***************************************************************************)
(* What is proved of DemoWsHandler for every number of channels, tokens    *)
(* and requests.                                                           *)
(***************************************************************************)
EXTENDS DemoWsHandler, WsConns_proofs, TLAPS

-----------------------------------------------------------------------------
(* The inductive invariant: the safety properties of the handler joined    *)
(* with what ties the registry and the queue to the connections.           *)

\* Before a connection is opened there is nothing of it.
NewHasNothing ==
  \A c \in Conns : ws[c] = "new" =>
    /\ c \notin DOMAIN wsResponses
    /\ c \notin DOMAIN connToToken
    /\ sent[c] = <<>>

\* A connection is registered under the token it was opened with.
RegisteredAsOpened == \A c \in DOMAIN connToToken : connToToken[c] = path[c]

\* ws_responses holds one message for a connection: the latest.
QueueHoldsOne ==
  \A c \in DOMAIN wsResponses : Len(wsResponses[c].items) = 1

\* Only a connection that was refused is closed by the handler.
ClosedIsRefused ==
  \A c \in Conns :
    ws[c] = "shut" \/ (c \in DOMAIN wsResponses /\ wsResponses[c].close)
      => path[c] = BadPath

\* What was written to a connection or waits for it.
Held(c) ==
  Range(sent[c]) \cup
    (IF c \in DOMAIN wsResponses THEN Range(wsResponses[c].items) ELSE {})

\* A connection holds details of its token only, and no two hold the same.
HeldByOwner ==
  /\ \A c \in Conns : \A d \in Held(c) :
       d # LastWord => d \in 1..Len(witnessed) /\ witnessed[d] = path[c]
  /\ \A c, e \in Conns : c # e => Held(c) \cap Held(e) \subseteq {LastWord}

\* What waits for a connection is newer than what was written to it.
QueuedAfterSent ==
  \A c \in DOMAIN wsResponses : \A i \in 1..Len(sent[c]) :
    wsResponses[c].items[1] # LastWord => sent[c][i] < wsResponses[c].items[1]

IInv ==
  /\ TypeOK
  /\ NewHasNothing
  /\ RegisteredAsOpened
  /\ RegistryMatches
  /\ QueueHoldsOne
  /\ ClosedIsRefused
  /\ HeldByOwner
  /\ QueuedAfterSent
  /\ InOrder
  /\ ShutAfterLastWord

-----------------------------------------------------------------------------
(* Type correctness.                                                       *)

LEMMA InitTypeOK == Init => TypeOK
<1> SUFFICES ASSUME Init PROVE TypeOK
  OBVIOUS
<1>1. DOMAIN wsResponses = {} /\ DOMAIN tokenToConn = {} /\ DOMAIN connToToken = {}
  BY EmptyMap DEF Init, WsInit
<1>2. WsTypeOK
  BY <1>1 DEF Init, WsInit, WsTypeOK, WsStates
<1> QED BY <1>1, <1>2, DemoConstants DEF Init, TypeOK

\* A message that is queued replaces what waited for its connection.
LEMMA RawQueued ==
  ASSUME WsTypeOK, NEW c \in Conns, NEW d \in Nat,
         \/ wsResponses' = AddRaw(wsResponses, c, d)
         \/ wsResponses' = AddRawClosed(wsResponses, c, d)
  PROVE  /\ DOMAIN wsResponses' = DOMAIN wsResponses \cup {c}
         /\ \A x \in DOMAIN wsResponses' : wsResponses'[x] \in Entry
         /\ \A x \in DOMAIN wsResponses \ {c} : wsResponses'[x] = wsResponses[x]
         /\ wsResponses'[c].items = <<d>>
<1>1. /\ DOMAIN wsResponses' = DOMAIN wsResponses \cup {c}
      /\ \A x \in DOMAIN wsResponses \ {c} : wsResponses'[x] = wsResponses[x]
  BY DEF AddRaw, AddRawClosed, Put
<1>2. PICK close \in BOOLEAN : wsResponses'[c] = ResponseAndClose("raw", <<d>>, close)
  <2>1. CASE wsResponses' = AddRaw(wsResponses, c, d)
    <3>1. wsResponses'[c] = ResponseAndClose("raw", <<d>>,
                              c \in DOMAIN wsResponses /\ wsResponses[c].close)
      BY <2>1 DEF AddRaw, Put
    <3>2. (c \in DOMAIN wsResponses /\ wsResponses[c].close) \in BOOLEAN
      OBVIOUS
    <3> QED BY <3>1, <3>2, Zenon
  <2>2. CASE wsResponses' = AddRawClosed(wsResponses, c, d)
    <3>1. wsResponses'[c] = ResponseAndClose("raw", <<d>>, TRUE)
      BY <2>2 DEF AddRawClosed, Put
    <3> QED BY <3>1
  <2> QED BY <2>1, <2>2
<1>3. wsResponses'[c] \in Entry /\ wsResponses'[c].items = <<d>>
  BY <1>2 DEF ResponseAndClose, Entry
<1>4. \A x \in DOMAIN wsResponses : wsResponses[x] \in Entry
  BY DEF WsTypeOK, Entry
<1> QED BY <1>1, <1>3, <1>4

LEMMA ConnectionTypeOK ==
  ASSUME TypeOK, NEW c \in Conns,
         (\E p \in Tokens \cup {BadPath} : OnConnectionOpen(c, p)) \/ OnConnectionClose(c)
  PROVE  TypeOK'
<1>1. CASE \E p \in Tokens \cup {BadPath} : OnConnectionOpen(c, p)
  <2>1. PICK p \in Tokens \cup {BadPath} : OnConnectionOpen(c, p)
    BY <1>1
  <2>2. ws' \in [Conns -> WsStates] /\ path' \in [Conns -> Tokens \cup {BadPath}]
    BY <2>1 DEF OnConnectionOpen, Opened, TypeOK, WsTypeOK, WsStates
  <2>3. CASE wsResponses' = AddRawClosed(wsResponses, c, LastWord) /\ UNCHANGED registry
    <3>1. WsTypeOK /\ LastWord \in Nat
      BY DEF TypeOK, LastWord
    <3>2. /\ DOMAIN wsResponses' = DOMAIN wsResponses \cup {c}
          /\ \A x \in DOMAIN wsResponses' : wsResponses'[x] \in Entry
      BY <2>3, <3>1, RawQueued
    <3> QED BY <2>1, <2>2, <2>3, <3>2
            DEF OnConnectionOpen, TypeOK, WsTypeOK, Entry, registry
  <2>4. CASE /\ HasToken(p)
             /\ tokenToConn' = Put(tokenToConn, p, c)
             /\ connToToken' = Put(connToToken, c, p)
             /\ UNCHANGED wsResponses
    <3>1. p \in Tokens
      BY <2>4 DEF HasToken
    <3>2. /\ DOMAIN tokenToConn' \subseteq Tokens
          /\ \A t \in DOMAIN tokenToConn' : tokenToConn'[t] \in Conns
          /\ DOMAIN connToToken' \subseteq Conns
          /\ \A x \in DOMAIN connToToken' : connToToken'[x] \in Tokens
      BY <2>4, <3>1 DEF Put, TypeOK
    <3> QED BY <2>1, <2>2, <2>4, <3>2 DEF OnConnectionOpen, TypeOK, WsTypeOK
  <2> QED BY <2>1, <2>3, <2>4 DEF OnConnectionOpen
<1>2. CASE OnConnectionClose(c)
  <2>1. ws' \in [Conns -> WsStates]
    BY <1>2 DEF OnConnectionClose, Closed, TypeOK, WsTypeOK, WsStates
  <2>2. /\ DOMAIN tokenToConn' \subseteq Tokens
        /\ \A t \in DOMAIN tokenToConn' : tokenToConn'[t] \in Conns
        /\ DOMAIN connToToken' \subseteq Conns
        /\ \A x \in DOMAIN connToToken' : connToToken'[x] \in Tokens
    BY <1>2 DEF OnConnectionClose, Without, Restrict, TypeOK
  <2> QED BY <1>2, <2>1, <2>2 DEF OnConnectionClose, TypeOK, WsTypeOK
<1> QED BY <1>1, <1>2

LEMMA WitnessRequestTypeOK ==
  ASSUME TypeOK, NEW t \in Tokens \cup {NoToken}, WitnessRequest(t)
  PROVE  TypeOK'
<1> DEFINE d == Len(witnessed) + 1
<1>1. /\ witnessed' = Append(witnessed, t) /\ d <= MaxDetails /\ d \in Nat
      /\ UNCHANGED <<ws, sent, registry, path>>
  BY DEF WitnessRequest, TypeOK
<1>2. witnessed' \in Seq(Tokens \cup {NoToken}) /\ Len(witnessed') <= MaxDetails
  BY <1>1 DEF TypeOK
<1>3. CASE UNCHANGED wsResponses
  BY <1>1, <1>2, <1>3 DEF TypeOK, WsTypeOK, registry
<1>4. CASE \E c \in Channels(t) : wsResponses' = AddRaw(wsResponses, c, d)
  <2>1. PICK c \in Channels(t) : wsResponses' = AddRaw(wsResponses, c, d)
    BY <1>4
  <2>2. c \in Conns
    BY DEF Channels, TypeOK
  <2>3. WsTypeOK
    BY DEF TypeOK
  <2> HIDE DEF d
  <2>4. /\ DOMAIN wsResponses' = DOMAIN wsResponses \cup {c}
        /\ \A x \in DOMAIN wsResponses' : wsResponses'[x] \in Entry
    BY <1>1, <2>1, <2>2, <2>3, RawQueued
  <2> QED BY <1>1, <1>2, <2>2, <2>4 DEF TypeOK, WsTypeOK, Entry, registry
<1> QED BY <1>3, <1>4 DEF WitnessRequest

LEMMA NextTypeOK == TypeOK /\ [Next]_vars => TypeOK'
<1> SUFFICES ASSUME TypeOK, [Next]_vars PROVE TypeOK'
  OBVIOUS
<1>1. CASE TickWs
  <2>1. WsTypeOK'
    BY <1>1, TickSendType DEF TickWs, TypeOK
  <2> QED BY <1>1, <2>1 DEF TickWs, registry, TypeOK
<1>2. CASE UNCHANGED vars
  BY <1>2 DEF vars, wsVars, registry, TypeOK, WsTypeOK
<1> QED BY <1>1, <1>2, ConnectionTypeOK, WitnessRequestTypeOK DEF Next

\* The demo handler is type correct, for any channels, tokens and requests.
THEOREM TypeCorrect == Spec => []TypeOK
  BY InitTypeOK, NextTypeOK, PTL DEF Spec

-----------------------------------------------------------------------------
(* The invariant.                                                          *)

LEMMA InitIInv == Init => IInv
<1> SUFFICES ASSUME Init PROVE IInv
  OBVIOUS
<1>1. TypeOK
  BY InitTypeOK
<1>2. DOMAIN wsResponses = {} /\ DOMAIN tokenToConn = {} /\ DOMAIN connToToken = {}
  BY EmptyMap DEF Init, WsInit
<1>3. \A c \in Conns : ws[c] = "new" /\ sent[c] = <<>>
  BY DEF Init, WsInit
<1>4. \A c \in Conns : Held(c) = {}
  BY <1>2, <1>3 DEF Held, Range
<1> QED BY <1>1, <1>2, <1>3, <1>4
        DEF IInv, NewHasNothing, RegisteredAsOpened, RegistryMatches, QueueHoldsOne,
            ClosedIsRefused, HeldByOwner, QueuedAfterSent, InOrder, ShutAfterLastWord

\* What is written to a connection is held by it, and so is what waits.
LEMMA HeldMembers ==
  ASSUME TypeOK, NEW c \in Conns
  PROVE  /\ sent[c] \in Seq(Nat)
         /\ \A i \in 1..Len(sent[c]) : sent[c][i] \in Nat /\ sent[c][i] \in Held(c)
         /\ c \in DOMAIN wsResponses => wsResponses[c] \in Entry
<1>1. sent[c] \in Seq(Nat) /\ (c \in DOMAIN wsResponses => wsResponses[c] \in Entry)
  BY DEF TypeOK, WsTypeOK, Entry
<1>2. \A i \in 1..Len(sent[c]) : sent[c][i] \in Nat /\ sent[c][i] \in Range(sent[c])
  BY <1>1 DEF Range
<1> QED BY <1>1, <1>2 DEF Held

LEMMA ConnectionOpenIInv ==
  ASSUME IInv, NEW c \in Conns, NEW p \in Tokens \cup {BadPath}, OnConnectionOpen(c, p)
  PROVE  IInv'
<1>1. TypeOK'
  BY ConnectionTypeOK DEF IInv
<1>2. /\ ws[c] = "new" /\ ws'[c] = "open" /\ path'[c] = p
      /\ \A x \in Conns : x # c => ws'[x] = ws[x] /\ path'[x] = path[x]
      /\ UNCHANGED <<sent, witnessed>>
  BY DEF OnConnectionOpen, Opened, IInv, TypeOK, WsTypeOK
<1>3. /\ c \notin DOMAIN wsResponses /\ c \notin DOMAIN connToToken /\ sent[c] = <<>>
      /\ Held(c) = {}
  BY <1>2 DEF IInv, NewHasNothing, Held, Range
<1>4. InOrder'
  BY <1>2 DEF IInv, InOrder
<1>5. DOMAIN wsResponses \subseteq Conns /\ DOMAIN connToToken \subseteq Conns
  BY DEF IInv, TypeOK, WsTypeOK
<1>6. CASE /\ ~HasToken(p)
           /\ wsResponses' = AddRawClosed(wsResponses, c, LastWord)
           /\ UNCHANGED registry
  <2>1. WsTypeOK /\ LastWord \in Nat
    BY DEF IInv, TypeOK, LastWord
  <2>2. /\ DOMAIN wsResponses' = DOMAIN wsResponses \cup {c}
        /\ \A x \in DOMAIN wsResponses : wsResponses'[x] = wsResponses[x]
        /\ wsResponses'[c].items = <<LastWord>>
    BY <1>3, <1>6, <2>1, RawQueued
  <2>3. p = BadPath /\ UNCHANGED <<tokenToConn, connToToken>>
    BY <1>6 DEF HasToken, registry
  <2>4. Held(c)' = {LastWord} /\ \A x \in Conns : x # c => Held(x)' = Held(x)
    BY <1>2, <1>3, <2>2 DEF Held, Range
  <2>5. NewHasNothing' /\ RegisteredAsOpened' /\ RegistryMatches'
    BY <1>2, <1>3, <1>5, <2>2, <2>3
       DEF IInv, NewHasNothing, RegisteredAsOpened, RegistryMatches
  <2>6. QueueHoldsOne'
    <3>1. Len(wsResponses'[c].items) = 1
      BY <2>2
    <3> QED BY <2>2, <3>1 DEF IInv, QueueHoldsOne
  <2>7. QueuedAfterSent'
    BY <1>2, <1>3, <2>2 DEF IInv, QueuedAfterSent
  <2>8. ClosedIsRefused' /\ ShutAfterLastWord'
    BY <1>2, <2>2, <2>3 DEF IInv, ClosedIsRefused, ShutAfterLastWord
  <2>9. HeldByOwner'
    BY <1>2, <2>4 DEF IInv, HeldByOwner
  <2> QED BY <1>1, <1>4, <2>5, <2>6, <2>7, <2>8, <2>9 DEF IInv
<1>7. CASE /\ HasToken(p)
           /\ tokenToConn' = Put(tokenToConn, p, c)
           /\ connToToken' = Put(connToToken, c, p)
           /\ UNCHANGED wsResponses
  <2>1. /\ DOMAIN tokenToConn' = DOMAIN tokenToConn \cup {p}
        /\ tokenToConn'[p] = c
        /\ \A t \in DOMAIN tokenToConn : t # p => tokenToConn'[t] = tokenToConn[t]
        /\ DOMAIN connToToken' = DOMAIN connToToken \cup {c}
        /\ connToToken'[c] = p
        /\ \A x \in DOMAIN connToToken : connToToken'[x] = connToToken[x]
    BY <1>3, <1>7 DEF Put
  <2>2. \A x \in Conns : Held(x)' = Held(x)
    BY <1>2, <1>7 DEF Held
  <2>3. NewHasNothing' /\ RegisteredAsOpened' /\ ClosedIsRefused' /\ ShutAfterLastWord'
    BY <1>2, <1>3, <1>5, <1>7, <2>1
       DEF IInv, NewHasNothing, RegisteredAsOpened, ClosedIsRefused, ShutAfterLastWord
  <2>4. RegistryMatches'
    BY <1>2, <1>3, <1>5, <2>1 DEF IInv, RegistryMatches
  <2>5. QueueHoldsOne' /\ QueuedAfterSent'
    BY <1>2, <1>7 DEF IInv, QueueHoldsOne, QueuedAfterSent
  <2>6. HeldByOwner'
    BY <1>2, <1>3, <2>2 DEF IInv, HeldByOwner
  <2> QED BY <1>1, <1>4, <2>3, <2>4, <2>5, <2>6 DEF IInv
<1> QED BY <1>6, <1>7 DEF OnConnectionOpen

LEMMA ConnectionCloseIInv ==
  ASSUME IInv, NEW c \in Conns, OnConnectionClose(c)
  PROVE  IInv'
<1>1. TypeOK'
  BY ConnectionTypeOK DEF IInv
<1>2. /\ ws[c] # "new" /\ ws'[c] = "closed"
      /\ \A x \in Conns : x # c => ws'[x] = ws[x]
      /\ UNCHANGED <<wsResponses, sent, path, witnessed>>
  BY DEF OnConnectionClose, Closed, IInv, TypeOK, WsTypeOK
<1>3. /\ DOMAIN tokenToConn' = DOMAIN tokenToConn \ TokensOf(c)
      /\ \A t \in DOMAIN tokenToConn' : tokenToConn'[t] = tokenToConn[t]
      /\ DOMAIN connToToken' = DOMAIN connToToken \ {c}
      /\ \A x \in DOMAIN connToToken' : connToToken'[x] = connToToken[x]
  BY DEF OnConnectionClose, Without, Restrict
<1>4. NewHasNothing' /\ RegisteredAsOpened' /\ QueueHoldsOne' /\ QueuedAfterSent'
  BY <1>2, <1>3 DEF IInv, NewHasNothing, RegisteredAsOpened, QueueHoldsOne, QueuedAfterSent
<1>5. RegistryMatches'
  <2> SUFFICES ASSUME NEW t \in DOMAIN tokenToConn'
               PROVE  LET x == tokenToConn[t]
                      IN  x \in DOMAIN connToToken' /\ connToToken[x] = t /\ ws'[x] # "closed"
    BY <1>3 DEF RegistryMatches
  <2> DEFINE x == tokenToConn[t]
  <2>1. /\ t \in Tokens /\ t \notin TokensOf(c) /\ x \in Conns
        /\ x \in DOMAIN connToToken /\ connToToken[x] = t /\ ws[x] # "closed"
    BY <1>3 DEF IInv, TypeOK, RegistryMatches
  <2>2. x # c
    BY <2>1 DEF TokensOf
  <2> QED BY <1>2, <1>3, <2>1, <2>2
<1>6. \A x \in Conns : Held(x)' = Held(x)
  BY <1>2 DEF Held
<1>7. HeldByOwner' /\ ClosedIsRefused' /\ InOrder' /\ ShutAfterLastWord'
  BY <1>2, <1>6 DEF IInv, HeldByOwner, ClosedIsRefused, InOrder, ShutAfterLastWord
<1> QED BY <1>1, <1>4, <1>5, <1>7 DEF IInv

\* The channel of a token is a connection opened with it, not closed since.
LEMMA ChannelIsOwner ==
  ASSUME IInv, NEW t, NEW c \in Channels(t)
  PROVE  /\ c \in Conns
         /\ t \in Tokens /\ path[c] = t
         /\ ws[c] \notin {"new", "shut", "closed"}
         /\ c \in DOMAIN wsResponses => ~wsResponses[c].close
<1>1. t \in DOMAIN tokenToConn /\ c = tokenToConn[t]
  BY DEF Channels
<1>2. /\ t \in Tokens /\ c \in Conns
      /\ c \in DOMAIN connToToken /\ connToToken[c] = t /\ ws[c] # "closed"
  BY <1>1 DEF IInv, TypeOK, RegistryMatches
<1>3. path[c] = t /\ ws[c] # "new"
  BY <1>2 DEF IInv, RegisteredAsOpened, NewHasNothing
<1>4. path[c] # BadPath
  BY <1>2, <1>3, DemoConstants
<1>5. ws[c] # "shut" /\ ~(c \in DOMAIN wsResponses /\ wsResponses[c].close)
  BY <1>2, <1>4 DEF IInv, ClosedIsRefused
<1> QED BY <1>2, <1>3, <1>5

LEMMA WitnessRequestIInv ==
  ASSUME IInv, NEW t \in Tokens \cup {NoToken}, WitnessRequest(t)
  PROVE  IInv'
<1> DEFINE d == Len(witnessed) + 1
<1>1. TypeOK'
  BY WitnessRequestTypeOK DEF IInv
<1>2. /\ witnessed' = Append(witnessed, t)
      /\ UNCHANGED <<ws, sent, tokenToConn, connToToken, path>>
  BY DEF WitnessRequest, registry
<1>3. /\ d \in Nat /\ d # LastWord /\ d \notin 1..Len(witnessed)
      /\ 1..Len(witnessed') = 1..Len(witnessed) \cup {d}
      /\ witnessed'[d] = t
      /\ \A e \in 1..Len(witnessed) : witnessed'[e] = witnessed[e]
  BY <1>2 DEF IInv, TypeOK, LastWord
<1>4. \A c \in Conns : d \notin Held(c)
  BY <1>3 DEF IInv, HeldByOwner
<1>5. RegisteredAsOpened' /\ RegistryMatches' /\ InOrder'
  BY <1>2 DEF IInv, RegisteredAsOpened, RegistryMatches, InOrder
<1>6. CASE UNCHANGED wsResponses
  <2>1. \A c \in Conns : Held(c)' = Held(c)
    BY <1>2, <1>6 DEF Held
  <2> HIDE DEF d
  <2>2. HeldByOwner'
    BY <1>3, <2>1, <1>2 DEF IInv, HeldByOwner
  <2>3. NewHasNothing' /\ QueueHoldsOne' /\ ClosedIsRefused' /\ QueuedAfterSent' /\ ShutAfterLastWord'
    BY <1>2, <1>6
       DEF IInv, NewHasNothing, QueueHoldsOne, ClosedIsRefused, QueuedAfterSent, ShutAfterLastWord
  <2> QED BY <1>1, <1>5, <2>2, <2>3 DEF IInv
<1>7. CASE \E c \in Channels(t) : wsResponses' = AddRaw(wsResponses, c, d)
  <2>1. PICK c \in Channels(t) : wsResponses' = AddRaw(wsResponses, c, d)
    BY <1>7
  <2> HIDE DEF d
  <2>2. /\ c \in Conns /\ t \in Tokens /\ path[c] = t
        /\ ws[c] \notin {"new", "shut", "closed"}
        /\ c \in DOMAIN wsResponses => ~wsResponses[c].close
    BY ChannelIsOwner
  <2>3. WsTypeOK
    BY DEF IInv, TypeOK
  <2>4. /\ DOMAIN wsResponses' = DOMAIN wsResponses \cup {c}
        /\ \A x \in DOMAIN wsResponses \ {c} : wsResponses'[x] = wsResponses[x]
        /\ wsResponses'[c].items = <<d>>
    BY <1>3, <2>1, <2>2, <2>3, RawQueued
  <2>5. ~wsResponses'[c].close
    <3>1. wsResponses'[c].close = (c \in DOMAIN wsResponses /\ wsResponses[c].close)
      BY <2>1 DEF AddRaw, Put, ResponseAndClose
    <3> QED BY <2>2, <3>1
  <2>6. NewHasNothing' /\ ClosedIsRefused' /\ ShutAfterLastWord'
    BY <1>2, <2>2, <2>4, <2>5 DEF IInv, NewHasNothing, ClosedIsRefused, ShutAfterLastWord
  <2>7. QueueHoldsOne'
    <3>1. Len(wsResponses'[c].items) = 1
      BY <2>4
    <3> QED BY <2>4, <3>1 DEF IInv, QueueHoldsOne
  <2>8. Held(c)' \subseteq Held(c) \cup {d} /\ \A x \in Conns : x # c => Held(x)' = Held(x)
    <3>1. Range(<<d>>) = {d}
      BY DEF Range
    <3> QED BY <1>2, <2>2, <2>4, <3>1 DEF Held
  <2>9. HeldByOwner'
    <3>1. \A x \in Conns : \A e \in Held(x)' :
            e # LastWord => e \in 1..Len(witnessed') /\ witnessed'[e] = path'[x]
      <4> SUFFICES ASSUME NEW x \in Conns, NEW e \in Held(x)', e # LastWord
                   PROVE  e \in 1..Len(witnessed') /\ witnessed'[e] = path'[x]
        OBVIOUS
      <4>1. CASE e \in Held(x)
        BY <1>2, <1>3, <4>1 DEF IInv, HeldByOwner
      <4>2. CASE e \notin Held(x)
        BY <1>2, <1>3, <2>2, <2>8, <4>2
      <4> QED BY <4>1, <4>2
    <3>2. \A x, y \in Conns : x # y => Held(x)' \cap Held(y)' \subseteq {LastWord}
      BY <1>4, <2>8 DEF IInv, HeldByOwner
    <3> QED BY <3>1, <3>2 DEF HeldByOwner
  <2>10. QueuedAfterSent'
    <3> SUFFICES ASSUME NEW x \in DOMAIN wsResponses', NEW i \in 1..Len(sent[x]),
                        wsResponses'[x].items[1] # LastWord
                 PROVE  sent[x][i] < wsResponses'[x].items[1]
      BY <1>2 DEF QueuedAfterSent
    <3>1. CASE x = c
      <4>1. sent[c][i] \in Nat /\ sent[c][i] \in Held(c)
        BY <2>2, <3>1, HeldMembers DEF IInv
      <4>2. sent[c][i] = LastWord \/ sent[c][i] \in 1..Len(witnessed)
        BY <2>2, <4>1 DEF IInv, HeldByOwner
      <4>3. Len(witnessed) \in Nat
        BY DEF IInv, TypeOK
      <4>4. sent[c][i] < d
        BY <4>2, <4>3 DEF d, LastWord
      <4> QED BY <2>4, <3>1, <4>4
    <3>2. CASE x # c
      BY <2>4, <3>2 DEF IInv, QueuedAfterSent
    <3> QED BY <3>1, <3>2
  <2> QED BY <1>1, <1>5, <2>6, <2>7, <2>9, <2>10 DEF IInv
<1> QED BY <1>6, <1>7 DEF WitnessRequest

LEMMA TickWsIInv ==
  ASSUME IInv, TickWs
  PROVE  IInv'
<1>1. TypeOK'
  BY NextTypeOK DEF IInv, Next
<1>2. UNCHANGED <<tokenToConn, connToToken, path, witnessed>>
  BY DEF TickWs, registry
<1>3. /\ DOMAIN wsResponses' \subseteq DOMAIN wsResponses
      /\ \A c \in DOMAIN wsResponses' : wsResponses'[c] = wsResponses[c]
      /\ \A c \in Conns : Flushed(c) \/ FlushFailed(c) \/ NotFlushed(c)
  BY TickSendEffect DEF TickWs, IInv, TypeOK
<1>4. DOMAIN wsResponses \subseteq Conns /\ DOMAIN connToToken \subseteq Conns
  BY DEF IInv, TypeOK, WsTypeOK
<1>5. \A c \in Conns : /\ ws'[c] = "new" => ws[c] = "new" /\ sent'[c] = sent[c]
                       /\ ws'[c] = "closed" => ws[c] = "closed"
  BY <1>3 DEF Flushed, FlushFailed, NotFlushed
<1>6. NewHasNothing' /\ RegisteredAsOpened' /\ RegistryMatches' /\ QueueHoldsOne'
  <2>1. \A t \in DOMAIN tokenToConn : tokenToConn[t] \in Conns
    BY DEF IInv, TypeOK
  <2>2. NewHasNothing'
    BY <1>2, <1>3, <1>5 DEF IInv, NewHasNothing
  <2>3. RegisteredAsOpened' /\ QueueHoldsOne'
    BY <1>2, <1>3 DEF IInv, RegisteredAsOpened, QueueHoldsOne
  <2>4. RegistryMatches'
    BY <1>2, <1>5, <2>1 DEF IInv, RegistryMatches
  <2> QED BY <2>2, <2>3, <2>4
<1>7. \A c \in DOMAIN wsResponses :
        /\ sent[c] \in Seq(Nat)
        /\ wsResponses[c].items \in Seq(Nat) /\ Len(wsResponses[c].items) = 1
  BY <1>4 DEF IInv, TypeOK, WsTypeOK, QueueHoldsOne
<1>8. \A c \in Conns : Flushed(c) =>
        /\ ws'[c] = "shut" => wsResponses[c].close /\ sent'[c] # <<>>
  <2> SUFFICES ASSUME NEW c \in Conns, Flushed(c), ws'[c] = "shut"
               PROVE  wsResponses[c].close /\ sent'[c] # <<>>
    OBVIOUS
  <2>1. wsResponses[c].close /\ sent'[c] = sent[c] \o wsResponses[c].items
    BY DEF Flushed
  <2>2. /\ sent[c] \in Seq(Nat)
        /\ wsResponses[c].items \in Seq(Nat) /\ Len(wsResponses[c].items) = 1
    BY <1>7 DEF Flushed
  <2> QED BY <2>1, <2>2, ConcatNotEmpty
<1>9. ClosedIsRefused' /\ ShutAfterLastWord'
  BY <1>2, <1>3, <1>8
     DEF IInv, ClosedIsRefused, ShutAfterLastWord, Flushed, FlushFailed, NotFlushed
<1>10. \A c \in Conns : Held(c)' = Held(c)
  <2> SUFFICES ASSUME NEW c \in Conns PROVE Held(c)' = Held(c)
    OBVIOUS
  <2>1. CASE Flushed(c)
    <3>1. Range(sent'[c]) = Range(sent[c]) \cup Range(wsResponses[c].items)
      BY <1>7, <2>1, RangeConcat DEF Flushed
    <3> QED BY <2>1, <3>1 DEF Held, Flushed
  <2>2. CASE FlushFailed(c)
    BY <1>3, <2>2 DEF Held, FlushFailed
  <2>3. CASE NotFlushed(c)
    BY <1>3, <2>3 DEF Held, NotFlushed
  <2> QED BY <1>3, <2>1, <2>2, <2>3
<1>11. HeldByOwner'
  BY <1>2, <1>10 DEF IInv, HeldByOwner
<1>12. QueuedAfterSent'
  <2>1. \A c \in DOMAIN wsResponses' : sent'[c] = sent[c]
    BY <1>3, <1>4 DEF Flushed, FlushFailed, NotFlushed
  <2> QED BY <1>3, <2>1 DEF IInv, QueuedAfterSent
<1>13. InOrder'
  <2> SUFFICES ASSUME NEW c \in Conns PROVE Ordered(sent'[c])
    BY DEF InOrder, Ordered
  <2>1. Ordered(sent[c])
    BY DEF IInv, InOrder, Ordered
  <2>2. CASE Flushed(c)
    <3>1. /\ c \in DOMAIN wsResponses
          /\ sent'[c] = sent[c] \o wsResponses[c].items
      BY <2>2 DEF Flushed
    <3>2. Ordered(wsResponses[c].items)
      BY <1>7, <3>1 DEF Ordered
    <3>3. \A i \in 1..Len(sent[c]), j \in 1..Len(wsResponses[c].items) :
            wsResponses[c].items[j] # LastWord => sent[c][i] < wsResponses[c].items[j]
      BY <1>7, <3>1 DEF IInv, QueuedAfterSent
    <3> QED BY <1>7, <2>1, <3>1, <3>2, <3>3, ConcatOrdered
  <2> QED BY <1>3, <2>1, <2>2 DEF FlushFailed, NotFlushed
<1> QED BY <1>1, <1>6, <1>9, <1>11, <1>12, <1>13 DEF IInv

LEMMA NextIInv == IInv /\ [Next]_vars => IInv'
<1> SUFFICES ASSUME IInv, [Next]_vars PROVE IInv'
  OBVIOUS
<1>1. CASE UNCHANGED vars
  <2>1. UNCHANGED <<ws, wsResponses, sent, tokenToConn, connToToken, path, witnessed>>
    BY <1>1 DEF vars, wsVars, registry
  <2>2. TypeOK'
    BY <1>1, NextTypeOK DEF IInv
  <2>3. HeldByOwner'
    BY <2>1 DEF IInv, HeldByOwner, Held
  <2> QED BY <2>1, <2>2, <2>3
          DEF IInv, NewHasNothing, RegisteredAsOpened, RegistryMatches, QueueHoldsOne,
              ClosedIsRefused, QueuedAfterSent, InOrder, ShutAfterLastWord
<1> QED BY <1>1, ConnectionOpenIInv, ConnectionCloseIInv, WitnessRequestIInv, TickWsIInv
        DEF Next

-----------------------------------------------------------------------------
(* The theorems.                                                           *)

\* The inductive invariant holds in every reachable state.
THEOREM Invariance == Spec => []IInv
  BY InitIInv, NextIInv, PTL DEF Spec

\* token_to_conn and conn_to_token agree, whoever took over from whom and in
\* whatever order the closings are reported.
THEOREM RegistryCorrect == Spec => []RegistryMatches
<1>1. IInv => RegistryMatches
  BY DEF IInv
<1> QED BY <1>1, Invariance, PTL

\* The details of a request reach one channel of its token and no other one.
THEOREM DetailsReachOwner == Spec => []DetailsToOwner
<1>1. IInv => DetailsToOwner
  <2> SUFFICES ASSUME IInv PROVE DetailsToOwner
    OBVIOUS
  <2>1. \A c \in Conns : Range(sent[c]) \subseteq Held(c)
    BY DEF Held
  <2>2. \A d \in Details : d # LastWord
    BY DEF Details, LastWord
  <2> QED BY <2>1, <2>2 DEF IInv, HeldByOwner, DetailsToOwner
<1> QED BY <1>1, Invariance, PTL

\* The messages of a channel are written in the order they were made, through
\* writes that block and entries that are replaced.
THEOREM DetailsInOrder == Spec => []InOrder
<1>1. IInv => InOrder
  BY DEF IInv
<1> QED BY <1>1, Invariance, PTL

\* A connection is shut after the error text was written to it, not before.
THEOREM ShutLast == Spec => []ShutAfterLastWord
<1>1. IInv => ShutAfterLastWord
  BY DEF IInv
<1> QED BY <1>1, Invariance, PTL

\* What is left in ws_responses of a connection reported closed never changes,
\* and nothing is added there.
THEOREM GoneLeftAlone == Spec => GoneLeavesOneEntry
<1> DEFINE Left(c) ==
      /\ c \in DOMAIN wsResponses' <=> c \in DOMAIN wsResponses
      /\ c \in DOMAIN wsResponses => wsResponses'[c] = wsResponses[c]
<1>1. IInv /\ [Next]_vars => [\A c \in Conns : ws[c] = "closed" => Left(c)]_wsVars
  <2> SUFFICES ASSUME IInv, [Next]_vars, NEW c \in Conns, ws[c] = "closed" PROVE Left(c)
    OBVIOUS
  <2>1. CASE \E x \in Conns, p \in Tokens \cup {BadPath} : OnConnectionOpen(x, p)
    <3>1. PICK x \in Conns, p \in Tokens \cup {BadPath} : OnConnectionOpen(x, p)
      BY <2>1
    <3>2. x # c
      BY <3>1 DEF OnConnectionOpen, Opened
    <3> QED BY <3>1, <3>2 DEF OnConnectionOpen, AddRawClosed, Put
  <2>2. CASE \E x \in Conns : OnConnectionClose(x)
    BY <2>2 DEF OnConnectionClose
  <2>3. CASE \E t \in Tokens \cup {NoToken} : WitnessRequest(t)
    <3>1. PICK t : WitnessRequest(t)
      BY <2>3
    <3>2. c \notin Channels(t)
      BY ChannelIsOwner
    <3> QED BY <3>1, <3>2 DEF WitnessRequest, AddRaw, Put
  <2>4. CASE TickWs
    <3>1. /\ \A x \in DOMAIN wsResponses' : wsResponses'[x] = wsResponses[x]
          /\ Flushed(c) \/ FlushFailed(c) \/ NotFlushed(c)
      BY <2>4, TickSendEffect DEF TickWs, IInv, TypeOK
    <3> QED BY <3>1 DEF Flushed, FlushFailed, NotFlushed
  <2>5. CASE UNCHANGED vars
    BY <2>5 DEF vars, wsVars
  <2> QED BY <2>1, <2>2, <2>3, <2>4, <2>5 DEF Next
<1> QED BY <1>1, Invariance, PTL DEF Spec, GoneLeavesOneEntry
=============================================================================
