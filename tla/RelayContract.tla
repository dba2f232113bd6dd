--------------------------- MODULE RelayContract ---------------------------
(***************************************************************************)
(* What relay mode promises: a connection that is linked to a remote works *)
(* or ends.  As long as it is open it keeps its link, and each message     *)
(* taken from it is owed to the remote until it is submitted, which        *)
(* happens once; it may be given up, but not behind the back of a client   *)
(* that is still connected.                                                *)
(***************************************************************************)
CONSTANTS Conns, Bodies

VARIABLES
  live,      \* connections that are open
  linked,    \* connections with a stream to their remote
  owed,      \* messages taken and not settled, [conn, body]
  submitted  \* messages the remote was sent

vars == <<live, linked, owed, submitted>>

Message == [conn : Conns, body : Bodies]

TypeOK ==
  /\ live \subseteq Conns
  /\ linked \subseteq Conns
  /\ owed \subseteq Message
  /\ submitted \subseteq Bodies

Init ==
  /\ live = {}
  /\ linked = {}
  /\ owed = {}
  /\ submitted = {}

\* An open connection without a link was refused, and will be closed.
Open(c, link) ==
  /\ c \notin live \cup linked
  /\ live' = live \cup {c}
  /\ linked' = linked \cup link
  /\ UNCHANGED <<owed, submitted>>

\* A message is new: nothing was ever owed or submitted under its number.
Accept(m) ==
  /\ m.conn \in live \cap linked
  /\ m.body \notin submitted /\ \A n \in owed : n.body # m.body
  /\ owed' = owed \cup {m}
  /\ UNCHANGED <<live, linked, submitted>>

\* Connections end; what is still open keeps its link.
End ==
  /\ live' \subseteq live
  /\ linked' \subseteq linked
  /\ linked \cap live' \subseteq linked'

\* Some messages are settled together, those in `sent` by submitting them.
Settle(settled, sent) ==
  /\ End
  /\ \A m \in settled \ sent : m.conn \notin live'
  /\ owed' = owed \ settled
  /\ submitted' = submitted \cup {m.body : m \in sent}

Next ==
  \/ \E c \in Conns : \E link \in SUBSET {c} : Open(c, link)
  \/ \E m \in Message : Accept(m)
  \/ \E settled \in SUBSET owed : \E sent \in SUBSET settled : Settle(settled, sent)

Spec == Init /\ [][Next]_vars

-----------------------------------------------------------------------------

\* A message that was submitted is not owed any more, so it is not submitted
\* again.
SubmittedIsSettled == \A m \in owed : m.body \notin submitted
=============================================================================
