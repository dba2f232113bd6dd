------------------------- MODULE JsonrpcMgr_proofs -------------------------
(***************************************************************************)
(* What the operators of JsonrpcMgr return, for any maps.                  *)
(***************************************************************************)
EXTENDS JsonrpcMgr, TLAPS

\* The empty map has no keys.
LEMMA EmptyMap == DOMAIN Empty = {}
  BY DEF Empty

\* While ids are left, req_id counts up.
LEMMA NextReqIdCounts ==
  ASSUME NEW id \in Nat, NEW space \in Nat, id + 1 < space
  PROVE  NextReqId(id, space) = id + 1
  BY DEF NextReqId

\* A list that grows by an element has this one more.
LEMMA RangeAppend ==
  ASSUME NEW S, NEW s \in Seq(S), NEW e \in S
  PROVE  Range(Append(s, e)) = Range(s) \cup {e}
<1>1. /\ DOMAIN s = 1..Len(s)
      /\ Len(s) \in Nat
      /\ DOMAIN Append(s, e) = 1..(Len(s) + 1)
  OBVIOUS
<1>2. /\ \A i \in 1..Len(s) : Append(s, e)[i] = s[i]
      /\ Append(s, e)[Len(s) + 1] = e
  OBVIOUS
<1> QED BY <1>1, <1>2 DEF Range

\* The list of errors that waits for a connection.
Listed(m, c) == IF c \in DOMAIN m THEN m[c].items ELSE <<>>

\* add_single_error_msg_closed replaces one entry by one that is marked for
\* closing; unless raw data waits there, the error is the last of its list.
LEMMA AddErrorIsPut ==
  ASSUME NEW m, NEW c, NEW err,
         c \in DOMAIN m => m[c].kind # "raw"
  PROVE  AddSingleErrorMsgClosed(m, c, err) =
           Put(m, c, ResponseAndClose("jsonrpc", Append(Listed(m, c), err), TRUE))
<1>1. CASE c \in DOMAIN m
  BY <1>1 DEF AddSingleErrorMsgClosed, Listed
<1>2. CASE c \notin DOMAIN m
  BY <1>2 DEF AddSingleErrorMsgClosed, Listed
<1> QED BY <1>1, <1>2
=============================================================================
