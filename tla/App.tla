-------------------------------- MODULE App --------------------------------
(***************************************************************************)
(* The life of the process: the entry points under src/bin/, App of        *)
(* src/apps/1rpc/src/app.rs with the cells of src/apps/src/lib.rs it keeps *)
(* its arguments and config in, and the loop of OneRpc::serve.  The main   *)
(* thread reads the command line, builds the server and serves; the signal *)
(* handler's thread may clear the alive flag between any two of its steps. *)
(* What a tick of the server does is left open here.                       *)
(***************************************************************************)
EXTENDS Sequences, SequencesExt

CONSTANTS
  CommandLines,  \* the command lines: sequences of options [opt, val]
  Dcap           \* built with the feature dcap

ASSUME AppConstants ==
  /\ \A options \in CommandLines : options \in Seq([opt : STRING, val : STRING])
  /\ Dcap \in BOOLEAN

VARIABLES
  main,      \* where the main thread is
  alive,     \* App.alive
  line,      \* the command line of this process
  arg,       \* App.arg
  cfg,       \* App.cfg
  serving    \* what the server was built with

vars == <<main, alive, line, arg, cfg, serving>>

NoKey == "0x00"       \* the default submitter: 32 zero bytes
Unset == <<>>         \* Var: None; no server yet

IsUnset(var) == DOMAIN var = {}

DefaultArgs == [addr |-> "0.0.0.0:3400", is_demo |-> "true",
                routes |-> "config.json", tls |-> "", submitter |-> NoKey]

\* What an argument may be: what some command line says, or the default.
Texts == {DefaultArgs[field] : field \in DOMAIN DefaultArgs}
           \cup UNION {{o.val : o \in ToSet(options)} : options \in CommandLines}

Args == [addr : Texts, is_demo : {"true", "false"}, routes : Texts,
         tls : Texts, submitter : Texts]

\* The options from_args knows, and what each of them sets.
Field == [a |-> "addr", d |-> "is_demo", r |-> "routes", t |-> "tls",
          tls |-> "tls", s |-> "submitter", submitter |-> "submitter"]

Serving == {"check", "tick", "sleep"}
Ended   == {"quit", "failed"}

TypeOK ==
  /\ main \in {"start", "ready", "parsed", "build"} \cup Serving \cup Ended
  /\ alive \in BOOLEAN
  /\ line \in CommandLines
  /\ arg \in Args
  /\ IsUnset(cfg) \/ cfg \in [listen_addr : Texts, tls : Texts]
  /\ IsUnset(serving)
       \/ serving \in [listen_addr : Texts, tls : Texts, routes : Texts,
                       handler : {"demo", "relay"}]

Init ==
  /\ main = "start"
  /\ alive = TRUE
  /\ line \in CommandLines
  /\ arg = DefaultArgs
  /\ cfg = Unset
  /\ serving = Unset

-----------------------------------------------------------------------------

\* Mutant of Override: the first option of a kind is kept.
OverrideOnce(out, o) ==
  IF o.opt \in DOMAIN Field /\ out[Field[o.opt]] = DefaultArgs[Field[o.opt]]
  THEN [out EXCEPT ![Field[o.opt]] = o.val] ELSE out

\* Unknown options are skipped.
Override(out, o) ==
  IF o.opt \in DOMAIN Field THEN [out EXCEPT ![Field[o.opt]] = o.val] ELSE out

\* Mutant of Parsable: whatever -d is given is taken.
ParsableAny(o) == TRUE

\* Of the values only that of -d is parsed into something else than a string.
Parsable(o) == o.opt = "d" => o.val \in {"true", "false"}

FromArgs(options) == FoldLeft(Override, DefaultArgs, options)

SetCtrlc ==
  /\ main = "start"
  /\ main' = "ready"
  /\ UNCHANGED <<alive, line, arg, cfg, serving>>

\* run: arg.set.  A value that cannot be parsed is a panic.
SetArgs ==
  /\ main = "ready"
  /\ \/ /\ \A o \in ToSet(line) : Parsable(o)
        /\ arg' = FromArgs(line)
        /\ main' = "parsed"
     \/ /\ \E o \in ToSet(line) : ~Parsable(o)
        /\ main' = "failed"
        /\ UNCHANGED arg
  /\ UNCHANGED <<alive, line, cfg, serving>>

Generate == [listen_addr |-> arg.addr, tls |-> arg.tls]

\* Var::get: whatever was generated first is what everybody gets.
Get(var, generated) == IF IsUnset(var) THEN generated ELSE var

\* run: cfg.get.  Files that cannot be read are a panic; without a name for
\* them there is nothing to read.
GetConfig ==
  /\ main = "parsed"
  /\ \/ /\ cfg' = Get(cfg, Generate)
        /\ main' = "build"
     \/ /\ arg.tls # ""
        /\ main' = "failed"
        /\ UNCHANGED cfg
  /\ UNCHANGED <<alive, line, arg, serving>>

\* With dcap, run wants an account to pay for the attestation with.
Refuses == Dcap /\ arg.submitter = NoKey

\* OneRpc::new.  Routes that cannot be read and an address that cannot be
\* listened on are a panic, as with dcap are the endpoint and the key of the
\* attestation, if they cannot be used.  How the attestation itself ends is
\* logged, and the server is built in any case.
Build ==
  /\ main = "build"
  /\ \/ /\ ~Refuses
        /\ serving' = [listen_addr |-> cfg.listen_addr, tls |-> cfg.tls,
                       routes |-> arg.routes,
                       handler |-> IF arg.is_demo = "true" THEN "demo" ELSE "relay"]
        /\ main' = "check"
     \/ /\ main' = "failed"
        /\ UNCHANGED serving
  /\ UNCHANGED <<alive, line, arg, cfg>>

-----------------------------------------------------------------------------
(* serve.                                                                  *)

Check ==
  /\ main = "check"
  /\ main' = IF alive THEN "tick" ELSE "quit"
  /\ UNCHANGED <<alive, line, arg, cfg, serving>>

\* Mutant of AfterTick: while there is work, the flag is not looked at.
AfterTickWorking(result) ==
  CASE result = "Idle"  -> "sleep"
    [] result = "Busy"  -> "tick"
    [] result = "Error" -> "quit"
    [] result = "Panic" -> "failed"

\* A tick panics when a handler does: nothing between it and main catches that.
AfterTick(result) ==
  CASE result = "Idle"  -> "sleep"
    [] result = "Busy"  -> "check"
    [] result = "Error" -> "quit"
    [] result = "Panic" -> "failed"

Tick(result) ==
  /\ main = "tick"
  /\ main' = AfterTick(result)
  /\ UNCHANGED <<alive, line, arg, cfg, serving>>

Sleep ==
  /\ main = "sleep"
  /\ main' = "check"
  /\ UNCHANGED <<alive, line, arg, cfg, serving>>

\* terminate, from the thread of the signal handler (through an ecall, if run
\* is inside an enclave).
Terminate ==
  /\ main \notin {"start"} \cup Ended
  /\ alive' = FALSE
  /\ UNCHANGED <<main, line, arg, cfg, serving>>

\* The process is over.
Over == main \in Ended /\ UNCHANGED vars

Prepare == SetCtrlc \/ SetArgs \/ GetConfig \/ Build

MainThread ==
  \/ Prepare
  \/ Check
  \/ \E result \in {"Idle", "Busy", "Error", "Panic"} : Tick(result)
  \/ Sleep

Next == MainThread \/ Terminate \/ Over

Spec == Init /\ [][Next]_vars

-----------------------------------------------------------------------------
(* Properties.                                                             *)

\* Where the command line sets a field.
Settings(field) ==
  {i \in DOMAIN line : line[i].opt \in DOMAIN Field /\ Field[line[i].opt] = field}

\* The last option that sets a field, if any, decides.
Said(field) ==
  IF Settings(field) = {} THEN DefaultArgs[field] ELSE line[Max(Settings(field))].val

\* The server runs with what this command line says, the last of several
\* options of a kind: the config is generated once for all from the arguments,
\* so they have to be there before, and each part comes from another cell.
ServesAsAsked ==
  main \in Serving =>
    serving = [listen_addr |-> Said("addr"), tls |-> Said("tls"),
               routes |-> Said("routes"),
               handler |-> IF Said("is_demo") = "true" THEN "demo" ELSE "relay"]

\* A signal ends the process, whenever it comes: before the server is built,
\* while it sleeps, and also if there is always something to do.
TerminateEndsServe == ~alive ~> main \in Ended
=============================================================================
