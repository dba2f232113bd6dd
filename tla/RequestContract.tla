-------------------------- MODULE RequestContract --------------------------
(***************************************************************************)
(* What the HTTP side of the relay promises its clients, whatever goes on  *)
(* inside: every request the server takes is owed one reply; it is settled *)
(* at most once, either by a reply to the client that asked or without     *)
(* one; and settling a request of a client always ends that client's       *)
(* connection, so that it never waits for a reply that nobody owes it.     *)
(***************************************************************************)
EXTENDS Naturals

CONSTANTS Conns, Bodies

VARIABLES
  live,      \* the connections on which a client may wait for replies
  owed,      \* requests taken and not settled, [conn, body]
  answered   \* requests answered, [conn, body], the conn that got the reply

vars == <<live, owed, answered>>

Request == [conn : Conns, body : Bodies]

TypeOK ==
  /\ live \subseteq Conns
  /\ owed \subseteq Request
  /\ answered \subseteq Request

ConnsOf(rs) == {r.conn : r \in rs}

Init ==
  /\ live = {}
  /\ owed = {}
  /\ answered = {}

Join(c) ==
  /\ c \notin live
  /\ live' = live \cup {c}
  /\ UNCHANGED <<owed, answered>>

\* A request is new: nothing was ever owed or answered under its number.
Ask(r) ==
  /\ \A s \in owed \cup answered : s.body # r.body
  /\ owed' = owed \cup {r}
  /\ UNCHANGED <<live, answered>>

\* Some requests are settled together, those in `replied` by a reply.
Settle(settled, replied) ==
  /\ owed' = owed \ settled
  /\ answered' = answered \cup replied
  /\ live' = live \ ConnsOf(settled)

Leave(c) ==
  /\ c \in live
  /\ live' = live \ {c}
  /\ UNCHANGED <<owed, answered>>

Next ==
  \/ \E c \in Conns : Join(c) \/ Leave(c)
  \/ \E r \in Request : Ask(r)
  \/ \E settled \in SUBSET owed : \E replied \in SUBSET settled :
       Settle(settled, replied)

Spec == Init /\ [][Next]_vars

-----------------------------------------------------------------------------

\* A request that is answered is not owed any more, and two replies never
\* answer the same request.
AnsweredOnce ==
  /\ \A r \in answered, s \in owed : r.body # s.body
  /\ \A r, s \in answered : r.body = s.body => r = s
=============================================================================
