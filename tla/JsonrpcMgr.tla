----------------------------- MODULE JsonrpcMgr -----------------------------
(***************************************************************************)
(* The two maps the handlers of the server keep, as operators on           *)
(* functions: JsonrpcRequestMgr (request id -> forwarded request) and      *)
(* JsonrpcResponseMgr (connection id -> pending response), both in         *)
(* src/common/forwarder/src/types.rs.  A BTreeMap is a function whose      *)
(* DOMAIN is the set of its keys.                                          *)
(***************************************************************************)
EXTENDS Integers, Sequences, Functions

Empty == [x \in {} |-> x]

Put(f, k, v) == [x \in DOMAIN f \cup {k} |-> IF x = k THEN v ELSE f[x]]

Without(f, S) == Restrict(f, DOMAIN f \ S)

-----------------------------------------------------------------------------
(* JsonrpcRequestMgr.  `space` is the number of values of usize.           *)

Push(reqs, id, req) == Put(reqs, id, req)

\* Mutants of NextReqId and Pop: ids are used again; a request is read and left
\* in the map.
NextReqIdReused(id, space) == 0
PopNothing(reqs, ids) == reqs

NextReqId(id, space) == (id + 1) % space

Pop(reqs, ids) == Without(reqs, ids)

-----------------------------------------------------------------------------
(* JsonrpcResponseMgr.  An entry holds either raw bytes, then `items` has  *)
(* that one element, or the list of JSON-RPC responses collected so far;   *)
(* `close` asks the sender to close the connection after the entry.        *)

ResponseAndClose(kind, items, close) ==
  [kind |-> kind, items |-> items, close |-> close]

\* Raw data replaces whatever was pending and leaves the close mark alone.
AddRaw(m, c, raw) ==
  Put(m, c, ResponseAndClose("raw", <<raw>>, c \in DOMAIN m /\ m[c].close))

AddRawClosed(m, c, raw) ==
  Put(m, c, ResponseAndClose("raw", <<raw>>, TRUE))

\* An error joins the pending list; next to raw data it is dropped, and only
\* the close mark of the entry is set.
AddSingleErrorMsgClosed(m, c, err) ==
  LET pending == c \in DOMAIN m
      raw     == pending /\ m[c].kind = "raw"
      list    == IF pending THEN m[c].items ELSE <<>>
  IN  Put(m, c, IF raw THEN ResponseAndClose("raw", list, TRUE)
                       ELSE ResponseAndClose("jsonrpc", Append(list, err), TRUE))
=============================================================================
