----------------------------- MODULE App_proofs -----------------------------
(***************************************************************************)
(* What is proved of App for every command line: the fold over its options *)
(* leaves the last one of each kind, and the server is built from them.    *)
(***************************************************************************)
EXTENDS App, WellFoundedInduction, TLAPS

-----------------------------------------------------------------------------
(* Least and greatest elements.                                            *)

\* A set of natural numbers has a least element.
LEMMA Least ==
  ASSUME NEW T \in SUBSET Nat, T # {}
  PROVE  \E m \in T : \A k \in T : m <= k
<1>1. \E m \in T : \A k \in T : ~ (<<k, m>> \in OpToRel(<, Nat))
  BY NatLessThanWellFounded, WFMin, Zenon
<1>2. PICK m \in T : \A k \in T : ~ (<<k, m>> \in OpToRel(<, Nat))
  BY <1>1, Zenon
<1>3. \A k \in T : ~(k < m)
  BY <1>2 DEF OpToRel
<1> QED BY <1>3

\* The maximum of a set of positions is one of them.
LEMMA MaxOfPositions ==
  ASSUME NEW n \in Nat, NEW s \in SUBSET (1..n), s # {}
  PROVE  Max(s) \in s /\ \A i \in s : i <= Max(s)
<1> DEFINE d == {n - i : i \in s}
<1>1. \A i \in s : i \in Nat /\ n - i \in Nat
  OBVIOUS
<1>2. d \in SUBSET Nat /\ d # {}
  BY <1>1
<1>3. PICK m \in d : \A k \in d : m <= k
  BY <1>2, Least
<1>4. PICK i \in s : m = n - i
  OBVIOUS
<1>5. \A j \in s : i >= j
  <2> SUFFICES ASSUME NEW j \in s PROVE i >= j
    OBVIOUS
  <2>1. m <= n - j
    BY <1>3
  <2>2. i \in Nat /\ j \in Nat
    BY <1>1
  <2> HIDE DEF d
  <2> QED BY <1>4, <2>1, <2>2
<1> QED BY <1>1, <1>5 DEF Max

-----------------------------------------------------------------------------
(* What the fold over the options leaves.                                  *)

Fields == {"addr", "is_demo", "routes", "tls", "submitter"}

Sets(o, field) == o.opt \in DOMAIN Field /\ Field[o.opt] = field

\* The positions of s whose options set a field, and what the last one says.
Setting(options, s, field) == {i \in s : Sets(options[i], field)}

LastSaid(options, s, field) ==
  IF Setting(options, s, field) = {} THEN DefaultArgs[field]
  ELSE options[Max(Setting(options, s, field))].val

AllSaid(options, s) == [field \in Fields |-> LastSaid(options, s, field)]

\* What FoldLeft solves for, of which FromArgs is the value at all positions.
IsFold(f, options) ==
  f = [s \in SUBSET DOMAIN options |->
         IF s = {} THEN DefaultArgs
         ELSE Override(f[s \ {Max(s)}], options[Max(s)])]

LEMMA FromArgsIsFold ==
  ASSUME NEW options
  PROVE  FromArgs(options) = (CHOOSE f : IsFold(f, options))[DOMAIN options]
BY DEF FromArgs, FoldLeft, MapThenFoldSet, IsFold

LEMMA DefaultArgsByField ==
  DefaultArgs = [field \in Fields |-> DefaultArgs[field]]
BY DEF DefaultArgs, Fields

LEMMA FieldsOfOptions == \A opt \in DOMAIN Field : Field[opt] \in Fields
BY DEF Field, Fields

\* One more option overrides what it sets and leaves the rest.
LEMMA OneMoreOption ==
  ASSUME NEW n \in Nat, NEW options, DOMAIN options = 1..n,
         NEW s \in SUBSET (1..n), s # {}
  PROVE  AllSaid(options, s) =
           Override(AllSaid(options, s \ {Max(s)}), options[Max(s)])
<1> DEFINE m == Max(s)
           t == s \ {m}
           o == options[m]
<1>1. m \in s /\ \A i \in s : i <= m
  BY MaxOfPositions
<1>2. DOMAIN AllSaid(options, t) = Fields
  BY DEF AllSaid
<1> HIDE DEF m
<1>3. CASE o.opt \notin DOMAIN Field
  <2>1. \A field : Setting(options, s, field) = Setting(options, t, field)
    BY <1>3 DEF Setting, Sets
  <2>2. ASSUME NEW field
        PROVE  LastSaid(options, s, field) = LastSaid(options, t, field)
    <3>1. Setting(options, s, field) = Setting(options, t, field)
      BY <2>1
    <3> QED BY <3>1 DEF LastSaid
  <2>3. AllSaid(options, s) = AllSaid(options, t)
    BY <2>2 DEF AllSaid
  <2>4. Override(AllSaid(options, t), o) = AllSaid(options, t)
    BY <1>3 DEF Override
  <2> QED BY <2>3, <2>4 DEF m
<1>4. CASE o.opt \in DOMAIN Field
  <2> DEFINE set == Setting(options, s, Field[o.opt])
  <2>1. Field[o.opt] \in Fields
    BY <1>4, FieldsOfOptions
  <2>2. ASSUME NEW field, field # Field[o.opt]
        PROVE  LastSaid(options, s, field) = LastSaid(options, t, field)
    <3>1. Setting(options, s, field) = Setting(options, t, field)
      BY <1>4, <2>2 DEF Setting, Sets
    <3> QED BY <3>1 DEF LastSaid
  <2>3. LastSaid(options, s, Field[o.opt]) = o.val
    <3>1. m \in set /\ set \in SUBSET (1..n) /\ set \in SUBSET s
      BY <1>1, <1>4 DEF Setting, Sets
    <3>2. Max(set) \in set /\ m <= Max(set)
      BY <3>1, MaxOfPositions
    <3>3. Max(set) <= m
      BY <1>1, <3>1, <3>2
    <3>4. m \in 1..n /\ Max(set) \in 1..n
      BY <3>1, <3>2
    <3> HIDE DEF set
    <3>5. Max(set) = m
      BY <3>2, <3>3, <3>4
    <3> QED BY <3>1, <3>5 DEF LastSaid, set
  <2>4. AllSaid(options, s) = [AllSaid(options, t) EXCEPT ![Field[o.opt]] = o.val]
    <3> HIDE DEF o
    <3>1. \A field \in Fields : AllSaid(options, s)[field] =
            IF field = Field[o.opt] THEN o.val ELSE AllSaid(options, t)[field]
      BY <2>2, <2>3 DEF AllSaid
    <3>2. AllSaid(options, s) = [field \in Fields |-> AllSaid(options, s)[field]]
      BY DEF AllSaid
    <3> QED BY <1>2, <2>1, <3>1, <3>2
  <2> QED BY <1>4, <2>4 DEF Override, m
<1> QED BY <1>3, <1>4

\* AllSaid solves the equation of the fold, so there is a solution.
LEMMA FoldExists ==
  ASSUME NEW n \in Nat, NEW options, DOMAIN options = 1..n
  PROVE  /\ IsFold([s \in SUBSET DOMAIN options |-> AllSaid(options, s)], options)
         /\ AllSaid(options, {}) = DefaultArgs
<1>1. AllSaid(options, {}) = DefaultArgs
  <2>1. \A field : Setting(options, {}, field) = {}
    BY DEF Setting
  <2> QED BY <2>1, DefaultArgsByField DEF AllSaid, LastSaid
<1>2. \A s \in SUBSET DOMAIN options : s # {} =>
        AllSaid(options, s) =
          Override(AllSaid(options, s \ {Max(s)}), options[Max(s)])
  BY OneMoreOption
<1> QED BY <1>1, <1>2 DEF IsFold

\* Any solution agrees with AllSaid on every prefix: take the shortest one on
\* which it does not.
LEMMA FromArgsTakesLast ==
  ASSUME NEW n \in Nat, NEW options, DOMAIN options = 1..n
  PROVE  FromArgs(options) = AllSaid(options, 1..n)
<1> DEFINE f == CHOOSE g : IsFold(g, options)
           wrong == {k \in 0..n : f[1..k] # AllSaid(options, 1..k)}
<1>1. IsFold(f, options)
  BY FoldExists
<1> HIDE DEF f
<1>2. wrong = {}
  <2> SUFFICES ASSUME wrong # {} PROVE FALSE
    OBVIOUS
  <2>1. wrong \in SUBSET Nat
    OBVIOUS
  <2>2. PICK k \in wrong : \A j \in wrong : k <= j
    BY <2>1, Least
  <2>3. k # 0
    <3>1. 1..0 = {}
      OBVIOUS
    <3>2. f[{}] = DefaultArgs
      BY <1>1 DEF IsFold
    <3> QED BY <3>1, <3>2, FoldExists
  <2>4. f[1..(k - 1)] = AllSaid(options, 1..(k - 1))
    BY <2>2, <2>3
  <2>5. Max(1..k) = k
    <3>1. k \in Nat /\ 1..k \in SUBSET (1..k) /\ 1..k # {}
      BY <2>3
    <3>2. Max(1..k) \in 1..k /\ \A i \in 1..k : i <= Max(1..k)
      BY <3>1, MaxOfPositions
    <3> QED BY <2>3, <3>2
  <2>6. (1..k) \ {k} = 1..(k - 1)
    OBVIOUS
  <2>7. 1..k # {} /\ 1..k \in SUBSET (1..n)
    <3>1. k \in 0..n
      OBVIOUS
    <3> HIDE DEF wrong
    <3> QED BY <2>3, <3>1
  <2>8. f[1..k] = Override(f[1..(k - 1)], options[k])
    BY <1>1, <2>5, <2>6, <2>7 DEF IsFold
  <2>9. AllSaid(options, 1..k) = Override(AllSaid(options, 1..(k - 1)), options[k])
    BY <2>5, <2>6, <2>7, OneMoreOption
  <2> QED BY <2>4, <2>8, <2>9
<1> QED BY <1>2, FromArgsIsFold DEF f

-----------------------------------------------------------------------------
(* The life of the process.                                                *)

\* What the arguments and the config are at each stage, by which the server is
\* built from the command line although it only reads the two cells.
ArgsAsSaid ==
  /\ main \in {"start", "ready"} => arg = DefaultArgs
  /\ main \in {"parsed", "build"} => arg = AllSaid(line, DOMAIN line)

ConfigFromArgs ==
  /\ main \in {"start", "ready", "parsed"} => cfg = Unset
  /\ main = "build" => cfg = Generate

IInv == TypeOK /\ ArgsAsSaid /\ ConfigFromArgs /\ ServesAsAsked

\* A command line is a sequence of options, of which each is a text.
LEMMA OptionsOfLine ==
  ASSUME NEW options \in CommandLines
  PROVE  /\ Len(options) \in Nat
         /\ DOMAIN options = 1..Len(options)
         /\ \A i \in DOMAIN options : options[i].val \in Texts
<1>1. options \in Seq([opt : STRING, val : STRING])
  BY AppConstants
<1>2. \A i \in DOMAIN options : options[i] \in ToSet(options)
  BY DEF ToSet
<1> QED BY <1>1, <1>2 DEF Texts

\* What FromArgs returns are arguments, if the options can be parsed.
LEMMA FromArgsType ==
  ASSUME NEW options \in CommandLines, \A o \in ToSet(options) : Parsable(o)
  PROVE  AllSaid(options, DOMAIN options) \in Args
<1> DEFINE said(field) == LastSaid(options, DOMAIN options, field)
           set(field) == Setting(options, DOMAIN options, field)
<1>1. ASSUME NEW field, set(field) # {}
      PROVE  /\ Max(set(field)) \in DOMAIN options
             /\ Sets(options[Max(set(field))], field)
             /\ said(field) = options[Max(set(field))].val
  <2>1. set(field) \in SUBSET (1..Len(options))
    BY OptionsOfLine DEF Setting
  <2>2. Max(set(field)) \in set(field)
    BY <1>1, <2>1, OptionsOfLine, MaxOfPositions
  <2> QED BY <1>1, <2>2 DEF Setting, LastSaid
<1>2. ASSUME NEW field \in Fields
      PROVE  said(field) \in Texts
  <2>1. CASE set(field) = {}
    <3>1. said(field) = DefaultArgs[field]
      BY <2>1 DEF LastSaid
    <3>2. field \in DOMAIN DefaultArgs
      BY DEF DefaultArgs, Fields
    <3> QED BY <3>1, <3>2 DEF Texts
  <2>2. CASE set(field) # {}
    BY <1>1, <2>2, OptionsOfLine
  <2> QED BY <2>1, <2>2
<1>3. said("is_demo") \in {"true", "false"}
  <2>1. CASE set("is_demo") = {}
    BY <2>1 DEF LastSaid, DefaultArgs
  <2>2. CASE set("is_demo") # {}
    <3> DEFINE o == options[Max(set("is_demo"))]
    <3>1. o \in ToSet(options) /\ Sets(o, "is_demo") /\ said("is_demo") = o.val
      BY <1>1, <2>2 DEF ToSet
    <3>2. Parsable(o)
      BY <3>1
    <3> HIDE DEF o, said
    <3>3. o.opt = "d"
      BY <3>1 DEF Sets, Field
    <3> QED BY <3>1, <3>2, <3>3 DEF Parsable
  <2> QED BY <2>1, <2>2
<1> QED BY <1>2, <1>3 DEF Args, AllSaid, Fields

\* What the arguments say is what Said reads off the command line.
LEMMA SaidIsLastSaid ==
  ASSUME NEW field \in Fields
  PROVE  AllSaid(line, DOMAIN line)[field] = Said(field)
BY DEF AllSaid, LastSaid, Said, Setting, Settings, Sets

LEMMA InitIInv == Init => IInv
<1> SUFFICES ASSUME Init PROVE IInv
  OBVIOUS
<1>1. IsUnset(cfg) /\ IsUnset(serving)
  BY DEF Init, IsUnset, Unset
<1>2. DefaultArgs \in Args
  <2>1. \A field \in Fields : DefaultArgs[field] \in Texts
    BY DEF Texts, DefaultArgs, Fields
  <2> QED BY <2>1 DEF DefaultArgs, Args, Fields
<1>3. TypeOK
  BY <1>1, <1>2 DEF Init, TypeOK
<1> QED BY <1>3 DEF IInv, Init, ArgsAsSaid, ConfigFromArgs, ServesAsAsked, Serving

LEMMA SetArgsIInv ==
  ASSUME IInv, SetArgs
  PROVE  IInv'
<1>1. CASE main' = "parsed"
  <2>1. /\ \A o \in ToSet(line) : Parsable(o)
        /\ arg' = FromArgs(line)
        /\ line \in CommandLines
    BY <1>1 DEF SetArgs, IInv, TypeOK
  <2>2. arg' = AllSaid(line, DOMAIN line)
    BY <2>1, OptionsOfLine, FromArgsTakesLast
  <2>3. arg' \in Args
    BY <2>1, <2>2, FromArgsType
  <2>4. /\ main = "ready"
        /\ UNCHANGED <<alive, line, cfg, serving>>
    BY DEF SetArgs
  <2>5. TypeOK'
    BY <1>1, <2>3, <2>4 DEF IInv, TypeOK
  <2>6. ConfigFromArgs'
    BY <1>1, <2>4 DEF IInv, ConfigFromArgs
  <2>7. ServesAsAsked'
    BY <1>1 DEF ServesAsAsked, Serving
  <2> QED BY <1>1, <2>2, <2>4, <2>5, <2>6, <2>7 DEF IInv, ArgsAsSaid
<1>2. CASE main' = "failed"
  <2>1. UNCHANGED <<arg, alive, line, cfg, serving>>
    BY <1>2 DEF SetArgs
  <2> QED BY <1>2, <2>1 DEF IInv, TypeOK, Ended, ArgsAsSaid, ConfigFromArgs,
                            ServesAsAsked, Serving
<1> QED BY <1>1, <1>2 DEF SetArgs

LEMMA GetConfigIInv ==
  ASSUME IInv, GetConfig
  PROVE  IInv'
<1>1. main = "parsed" /\ UNCHANGED <<alive, line, arg, serving>>
  BY DEF GetConfig
<1>2. CASE main' = "build" /\ cfg' = Get(cfg, Generate)
  <2>1. cfg' = Generate
    BY <1>1, <1>2 DEF IInv, ConfigFromArgs, Get, IsUnset, Unset
  <2>2. Generate \in [listen_addr : Texts, tls : Texts]
    BY DEF IInv, TypeOK, Args, Generate
  <2>3. TypeOK'
    BY <1>1, <1>2, <2>1, <2>2 DEF IInv, TypeOK
  <2> QED BY <1>1, <1>2, <2>1, <2>3 DEF IInv, ArgsAsSaid, ConfigFromArgs, Generate,
                                         ServesAsAsked, Serving
<1>3. CASE main' = "failed" /\ UNCHANGED cfg
  BY <1>1, <1>3 DEF IInv, TypeOK, Ended, ArgsAsSaid, ConfigFromArgs,
                    ServesAsAsked, Serving
<1> QED BY <1>2, <1>3 DEF GetConfig

\* The server reads the config for some of its parts and the arguments for others.
LEMMA BuildIInv ==
  ASSUME IInv, Build
  PROVE  IInv'
<1>1. main = "build" /\ UNCHANGED <<alive, line, arg, cfg>>
  BY DEF Build
<1>2. CASE main' = "check"
  <2>1. serving' = [listen_addr |-> cfg.listen_addr, tls |-> cfg.tls,
                    routes |-> arg.routes,
                    handler |-> IF arg.is_demo = "true" THEN "demo" ELSE "relay"]
    BY <1>2 DEF Build
  <2>2. cfg.listen_addr = arg.addr /\ cfg.tls = arg.tls
    BY <1>1 DEF IInv, ConfigFromArgs, Generate
  <2>3. arg \in Args
    BY DEF IInv, TypeOK
  <2>4. TypeOK'
    BY <1>1, <1>2, <2>1, <2>2, <2>3 DEF IInv, TypeOK, Serving, Args
  <2>5. /\ arg.addr = Said("addr") /\ arg.tls = Said("tls")
        /\ arg.routes = Said("routes") /\ arg.is_demo = Said("is_demo")
    <3>1. arg = AllSaid(line, DOMAIN line)
      BY <1>1 DEF IInv, ArgsAsSaid
    <3>2. \A field \in Fields : arg[field] = Said(field)
      BY <3>1, SaidIsLastSaid
    <3> QED BY <3>2 DEF Fields
  <2>6. \A field : Said(field)' = Said(field)
    BY <1>1 DEF Said, Settings
  <2>7. ServesAsAsked'
    BY <2>1, <2>2, <2>5, <2>6 DEF ServesAsAsked
  <2> QED BY <1>1, <1>2, <2>4, <2>7 DEF IInv, ArgsAsSaid, ConfigFromArgs
<1>3. CASE main' = "failed" /\ UNCHANGED serving
  BY <1>1, <1>3 DEF IInv, TypeOK, Ended, ArgsAsSaid, ConfigFromArgs,
                    ServesAsAsked, Serving
<1> QED BY <1>2, <1>3 DEF Build

\* The loop of serve and the signal leave what the server was built with alone.
LEMMA ServeIInv ==
  ASSUME IInv, UNCHANGED <<line, arg, cfg, serving>>, alive' \in BOOLEAN,
         \/ main' = main
         \/ main = "start" /\ main' = "ready"
         \/ main \in Serving /\ main' \in Serving \cup Ended
  PROVE  IInv'
<1>1. TypeOK'
  BY DEF IInv, TypeOK, Serving, Ended
<1>2. ArgsAsSaid' /\ ConfigFromArgs'
  BY DEF IInv, ArgsAsSaid, ConfigFromArgs, Serving, Ended, Generate
<1>3. \A field : Said(field)' = Said(field)
  BY DEF Said, Settings
<1>4. ServesAsAsked'
  BY <1>3 DEF IInv, ServesAsAsked, Serving, Ended
<1> QED BY <1>1, <1>2, <1>4 DEF IInv

LEMMA NextIInv == IInv /\ [Next]_vars => IInv'
<1> SUFFICES ASSUME IInv, [Next]_vars PROVE IInv'
  OBVIOUS
<1>0. alive \in BOOLEAN
  BY DEF IInv, TypeOK
<1>1. CASE SetCtrlc
  BY <1>0, <1>1, ServeIInv DEF SetCtrlc
<1>2. CASE Check
  BY <1>0, <1>2, ServeIInv DEF Check, Serving, Ended
<1>3. CASE \E result \in {"Idle", "Busy", "Error", "Panic"} : Tick(result)
  <2>1. main \in Serving /\ main' \in Serving \cup Ended
    BY <1>3 DEF Tick, AfterTick, Serving, Ended
  <2> QED BY <1>0, <1>3, <2>1, ServeIInv DEF Tick
<1>4. CASE Sleep
  BY <1>0, <1>4, ServeIInv DEF Sleep, Serving
<1>5. CASE Terminate
  BY <1>5, ServeIInv DEF Terminate
<1>6. CASE Over \/ UNCHANGED vars
  BY <1>0, <1>6, ServeIInv DEF Over, vars
<1> QED BY <1>1, <1>2, <1>3, <1>4, <1>5, <1>6, SetArgsIInv, GetConfigIInv, BuildIInv
        DEF Next, MainThread, Prepare

\* The inductive invariant holds of every reachable state.
THEOREM Invariance == Spec => []IInv
BY InitIInv, NextIInv, PTL DEF Spec

\* The process is type correct: in particular the mode is one of two.
THEOREM TypeCorrect == Spec => []TypeOK
BY Invariance, PTL DEF IInv

\* The server runs with what the command line says, for every command line:
\* the last of several options of a kind counts, in each of its parts.
THEOREM LastOptionCounts == Spec => []ServesAsAsked
BY Invariance, PTL DEF IInv
=============================================================================
