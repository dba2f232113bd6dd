--------------------------- MODULE WsConns_proofs ---------------------------
(***************************************************************************)
(* What the steps of WsConns do to one connection and to one entry of      *)
(* ws_responses, for the proofs about both websocket handlers.             *)
(***************************************************************************)
EXTENDS WsConns, JsonrpcMgr_proofs, TLAPS

Entry == [kind : {"raw", "jsonrpc"}, items : Seq(Nat), close : BOOLEAN]

\* The messages of a list are in order, but for the error texts among them.
Ordered(s) ==
  \A i, j \in 1..Len(s) :
    i < j /\ s[i] # LastWord /\ s[j] # LastWord => s[i] < s[j]

\* Every message of the list is at most n; LastWord is below them all.
Bounded(s, n) == \A i \in 1..Len(s) : s[i] <= n

-----------------------------------------------------------------------------
(* Lists of messages.                                                      *)

\* A list grows by a list that continues it.
LEMMA ConcatOrdered ==
  ASSUME NEW s \in Seq(Nat), NEW t \in Seq(Nat), Ordered(s), Ordered(t),
         \A i \in 1..Len(s), j \in 1..Len(t) : t[j] # LastWord => s[i] < t[j]
  PROVE  Ordered(s \o t)
<1>1. /\ Len(s) \in Nat /\ Len(t) \in Nat
      /\ Len(s \o t) = Len(s) + Len(t)
      /\ \A i \in 1..(Len(s) + Len(t)) :
           (s \o t)[i] = IF i <= Len(s) THEN s[i] ELSE t[i - Len(s)]
  OBVIOUS
<1> SUFFICES ASSUME NEW i \in 1..Len(s \o t), NEW j \in 1..Len(s \o t), i < j,
                    (s \o t)[i] # LastWord, (s \o t)[j] # LastWord
             PROVE  (s \o t)[i] < (s \o t)[j]
  BY DEF Ordered
<1>2. CASE j <= Len(s)
  BY <1>1, <1>2 DEF Ordered
<1>3. CASE i <= Len(s) /\ ~(j <= Len(s))
  <2>1. i \in 1..Len(s) /\ j - Len(s) \in 1..Len(t)
    BY <1>1, <1>3
  <2>2. (s \o t)[i] = s[i] /\ (s \o t)[j] = t[j - Len(s)]
    BY <1>1, <1>3
  <2> QED BY <2>1, <2>2
<1>4. CASE ~(i <= Len(s))
  <2>1. i - Len(s) \in 1..Len(t) /\ j - Len(s) \in 1..Len(t) /\ i - Len(s) < j - Len(s)
    BY <1>1, <1>4
  <2>2. (s \o t)[i] = t[i - Len(s)] /\ (s \o t)[j] = t[j - Len(s)]
    BY <1>1, <1>4
  <2> QED BY <2>1, <2>2 DEF Ordered
<1> QED BY <1>1, <1>2, <1>3, <1>4

LEMMA ConcatBounded ==
  ASSUME NEW s \in Seq(Nat), NEW t \in Seq(Nat), NEW n \in Nat,
         Bounded(s, n), Bounded(t, n)
  PROVE  Bounded(s \o t, n)
<1>1. /\ Len(s) \in Nat /\ Len(t) \in Nat
      /\ Len(s \o t) = Len(s) + Len(t)
      /\ \A i \in 1..(Len(s) + Len(t)) :
           (s \o t)[i] = IF i <= Len(s) THEN s[i] ELSE t[i - Len(s)]
  OBVIOUS
<1> SUFFICES ASSUME NEW i \in 1..Len(s \o t) PROVE (s \o t)[i] <= n
  BY DEF Bounded
<1>2. CASE i <= Len(s)
  BY <1>1, <1>2 DEF Bounded
<1>3. CASE ~(i <= Len(s))
  <2>1. i - Len(s) \in 1..Len(t) /\ (s \o t)[i] = t[i - Len(s)]
    BY <1>1, <1>3
  <2> QED BY <2>1 DEF Bounded
<1> QED BY <1>2, <1>3

\* Nothing is lost when messages are written behind others.
LEMMA ConcatLength ==
  ASSUME NEW s \in Seq(Nat), NEW t \in Seq(Nat)
  PROVE  Len(s \o t) = Len(s) + Len(t)
  OBVIOUS

\* Something was written.
LEMMA ConcatNotEmpty ==
  ASSUME NEW s \in Seq(Nat), NEW t \in Seq(Nat), Len(t) = 1
  PROVE  s \o t # <<>>
<1>1. Len(s) \in Nat
  OBVIOUS
<1>2. Len(s \o t) = Len(s) + Len(t)
  BY ConcatLength
<1> QED BY <1>1, <1>2

\* What a list made of two has in it.
LEMMA RangeConcat ==
  ASSUME NEW s \in Seq(Nat), NEW t \in Seq(Nat)
  PROVE  Range(s \o t) = Range(s) \cup Range(t)
<1>1. /\ Len(s) \in Nat /\ Len(t) \in Nat
      /\ DOMAIN s = 1..Len(s) /\ DOMAIN t = 1..Len(t)
      /\ DOMAIN (s \o t) = 1..(Len(s) + Len(t))
      /\ \A i \in 1..(Len(s) + Len(t)) :
           (s \o t)[i] = IF i <= Len(s) THEN s[i] ELSE t[i - Len(s)]
  OBVIOUS
<1>2. Range(s \o t) \subseteq Range(s) \cup Range(t)
  <2> SUFFICES ASSUME NEW i \in 1..(Len(s) + Len(t))
               PROVE  (s \o t)[i] \in Range(s) \cup Range(t)
    BY <1>1 DEF Range
  <2>1. CASE i <= Len(s)
    BY <1>1, <2>1 DEF Range
  <2>2. CASE ~(i <= Len(s))
    <3>1. i - Len(s) \in 1..Len(t)
      BY <1>1, <2>2
    <3> QED BY <1>1, <2>2, <3>1 DEF Range
  <2> QED BY <2>1, <2>2
<1>3. \A i \in 1..Len(s) : i \in 1..(Len(s) + Len(t)) /\ (s \o t)[i] = s[i]
  BY <1>1
<1>4. \A i \in 1..Len(t) : Len(s) + i \in 1..(Len(s) + Len(t)) /\ (s \o t)[Len(s) + i] = t[i]
  BY <1>1
<1>5. Range(s) \subseteq Range(s \o t)
  <2> SUFFICES ASSUME NEW i \in 1..Len(s) PROVE s[i] \in Range(s \o t)
    BY <1>1 DEF Range
  <2>1. i \in DOMAIN (s \o t) /\ (s \o t)[i] = s[i]
    BY <1>1, <1>3
  <2> QED BY <2>1 DEF Range
<1>6. Range(t) \subseteq Range(s \o t)
  <2> SUFFICES ASSUME NEW i \in 1..Len(t) PROVE t[i] \in Range(s \o t)
    BY <1>1 DEF Range
  <2>1. Len(s) + i \in DOMAIN (s \o t) /\ (s \o t)[Len(s) + i] = t[i]
    BY <1>1, <1>4
  <2> QED BY <2>1 DEF Range
<1> QED BY <1>2, <1>5, <1>6

-----------------------------------------------------------------------------
(* The response queue.                                                     *)

\* What tick_send_response does to a connection: everything that waited for it
\* was written, after which it is closed if the entry asked for it; or the write
\* failed; or nothing was written.
Flushed(c) ==
  /\ c \in DOMAIN wsResponses
  /\ ws[c] = "open"
  /\ c \notin DOMAIN wsResponses'
  /\ sent'[c] = sent[c] \o wsResponses[c].items
  /\ ws'[c] = IF wsResponses[c].close THEN "shut" ELSE "open"

FlushFailed(c) ==
  /\ c \in DOMAIN wsResponses
  /\ ws[c] = "open"
  /\ c \in DOMAIN wsResponses'
  /\ sent'[c] = sent[c]
  /\ ws'[c] = "dropped"

NotFlushed(c) ==
  /\ c \in DOMAIN wsResponses' <=> c \in DOMAIN wsResponses
  /\ sent'[c] = sent[c]
  /\ ws'[c] = ws[c]

LEMMA TickSendEffect ==
  ASSUME WsTypeOK, TickSendResponse
  PROVE  /\ DOMAIN wsResponses' \subseteq DOMAIN wsResponses
         /\ \A c \in DOMAIN wsResponses' : wsResponses'[c] = wsResponses[c]
         /\ \A c \in Conns : Flushed(c) \/ FlushFailed(c) \/ NotFlushed(c)
<1>1. PICK ok \in SUBSET Writable, failed \in SUBSET Writable :
        /\ ok \cap failed = {}
        /\ sent' = [c \in Conns |-> IF c \in ok THEN sent[c] \o wsResponses[c].items
                                    ELSE sent[c]]
        /\ ws' = [c \in Conns |-> IF c \in failed THEN "dropped"
                                  ELSE IF c \in Closing(ok, failed) THEN "shut"
                                  ELSE ws[c]]
        /\ wsResponses' = Without(wsResponses, ok)
  BY DEF TickSendResponse, Finished
<1>2. /\ DOMAIN wsResponses' = DOMAIN wsResponses \ ok
      /\ \A c \in DOMAIN wsResponses' : wsResponses'[c] = wsResponses[c]
  BY <1>1 DEF Without, Restrict
<1>3. \A c \in Writable : c \in DOMAIN wsResponses /\ ws[c] = "open"
  BY DEF Writable
<1>4. ASSUME NEW c \in Conns
      PROVE  Flushed(c) \/ FlushFailed(c) \/ NotFlushed(c)
  <2>1. CASE c \in ok
    BY <1>1, <1>2, <1>3, <2>1 DEF Flushed, Closing
  <2>2. CASE c \in failed
    BY <1>1, <1>2, <1>3, <2>2 DEF FlushFailed
  <2>3. CASE c \notin ok /\ c \notin failed
    BY <1>1, <1>2, <2>3 DEF NotFlushed, Closing
  <2> QED BY <2>1, <2>2, <2>3
<1> QED BY <1>2, <1>4

LEMMA TickSendType ==
  ASSUME WsTypeOK, TickSendResponse
  PROVE  WsTypeOK'
<1>1. ws' \in [Conns -> WsStates]
  BY DEF WsTypeOK, TickSendResponse, WsStates
<1>2. sent' \in [Conns -> Seq(Nat)]
  <2>1. \A c \in Conns : c \in Writable => sent[c] \o wsResponses[c].items \in Seq(Nat)
    BY DEF WsTypeOK, Writable
  <2> QED BY <2>1 DEF WsTypeOK, TickSendResponse
<1>3. /\ DOMAIN wsResponses' \subseteq Conns
      /\ \A c \in DOMAIN wsResponses' : wsResponses'[c] \in Entry
  BY TickSendEffect DEF WsTypeOK, Entry
<1> QED BY <1>1, <1>2, <1>3 DEF WsTypeOK, Entry

\* Removing connections touches nothing but open ones.
LEMMA DropType ==
  ASSUME ws \in [Conns -> WsStates], NEW cs
  PROVE  /\ Drop(cs) \in [Conns -> WsStates]
         /\ \A c \in Conns : Drop(cs)[c] = IF c \in cs /\ ws[c] = "open"
                                           THEN "dropped" ELSE ws[c]
  BY DEF Drop, WsStates
=============================================================================
