------------------------------- MODULE MCApp -------------------------------
(* Values for the constants of App, for TLC.                               *)
EXTENDS App

Opt(opt, val) == [opt |-> opt, val |-> val]

\* One option of a kind, several, of both spellings, unknown or not parsable.
\* With dcap one of them has to be the submitter, which leaves two others.
MCOptions ==
  {Opt("a", ":1"), Opt("a", ":2"), Opt("d", "false"), Opt("d", "maybe"),
   Opt("r", "relay.json"), Opt("t", "crt"), Opt("tls", "domain"),
   Opt("s", "0x01"), Opt("submitter", NoKey), Opt("v", "")}

MCCommandLines == BoundedSeq(MCOptions, 3)
=============================================================================
