----------------------------- MODULE Sanitizer -----------------------------
(***************************************************************************)
(* What happens to the content of an HTTP request and of its answer:       *)
(* src/common/forwarder/src/sanitizer.rs and sol.rs, called from           *)
(* on_new_http_request and tick_http_recv_remote.  An eth_call of          *)
(* balances(address[],address[]) for the native token is broken down into  *)
(* a batch of eth_getBalance, and the answers are put together again.      *)
(* Who made the request is noted for demo mode and not passed on.          *)
(* The sanitizer keeps no state, so one request at a time is enough.       *)
(*                                                                         *)
(* Call data is a sequence of bytes, for the code cuts it at offsets the   *)
(* client chooses; where that cannot be done it panics, and the process is *)
(* over.  Results of calls are sequences of words, and words are numbers.  *)
(* Requests and answers are [batch, items].                                *)
(***************************************************************************)
EXTENDS Integers, Sequences, SequencesExt, Functions

CONSTANTS
  Methods,          \* names of JSON-RPC methods
  Selectors,        \* of contract functions, and NoData, CutOff
  Contracts,        \* what may be called, and NoContract
  Checkers,         \* the contracts that offer balances(address[],address[])
  Blocks,           \* what a call may ask about
  Requests,         \* the requests clients make
  Clients,          \* who makes them: [peer, host, cf, xff, ua], see utils.rs
  Resolved,         \* what a host name may be resolved to
  UsizeMax,         \* usize::MAX
  Balance(_, _, _)  \* at a block, of an account, of a token: what the chain holds

Byte       == 0..255
WordLen    == 32
AddressLen == 20
Address    == [1..AddressLen -> Byte]

NativeToken == [i \in 1..AddressLen |-> 0]    \* H160::zero()
BalancesSig == "0xf0002ea9"
NoData      == ""                             \* no call data that could be parsed
CutOff      == "0x"                           \* shorter than a selector
NoContract  == "none"
NoId        == -1

\* args is what follows the selector, or the address eth_getBalance is asked for.
Item == [id : Nat, method : Methods, to : Contracts, block : Blocks,
         sig : Selectors, args : Seq(Byte)]

ASSUME NamesExist ==
  /\ "eth_getBalance" \in Methods
  /\ NoData \in Selectors
  /\ NoContract \in Contracts
  /\ "latest" \in Blocks

\* What could be parsed as JSON-RPC: one item, or a batch of any length.  No
\* data is longer than a usize can tell.
ASSUME RequestsAreJsonrpc ==
  /\ UsizeMax \in Nat
  /\ \A q \in Requests :
       /\ q \in [batch : BOOLEAN, items : Seq(Item)]
       /\ q.batch \/ Len(q.items) = 1
       /\ \A item \in Range(q.items) : Len(item.args) <= UsizeMax

VARIABLES
  forwarded,  \* requests with the remote, [request, client, sr, wire]
  replies,    \* history: the last reply, [request, sr, answer, reply]
  panicked    \* the request the process has ended on

vars == <<forwarded, replies, panicked>>

AtMost(n, bound) == IF n < bound THEN n ELSE bound

-----------------------------------------------------------------------------
(* sol.rs.                                                                 *)

\* U256::from_big_endian: shorter data is a smaller number.
Number(bytes) ==
  LET value[n \in 0..Len(bytes)] ==
        IF n = 0 THEN 0 ELSE value[n - 1] * 256 + bytes[n]
  IN  value[Len(bytes)]

\* slice::chunks: the last one may be shorter.
Chunks(data) ==
  [i \in 1..((Len(data) + WordLen - 1) \div WordLen) |->
     SubSeq(data, WordLen * (i - 1) + 1, AtMost(WordLen * i, Len(data)))]

\* Mutant of From: a byte is lost.
FromBehind(data, offset) == SubSeq(data, offset + 2, Len(data))

From(data, offset) == SubSeq(data, offset + 1, Len(data))

\* decode_uint256, of data that is there.
DecodeUint256(data) == Number(Chunks(data)[1])

\* As many elements as the first word says, or as there are.
Taken(data) ==
  SubSeq(Chunks(data), 2, AtMost(DecodeUint256(data) + 1, Len(Chunks(data))))

DecodeAddressArray(data) ==
  IF data = <<>> THEN <<>>
  ELSE [i \in 1..Len(Taken(data)) |->
          SubSeq(Taken(data)[i], WordLen - AddressLen + 1, WordLen)]

\* as_usize panics on a larger number, H160::from_slice on fewer bytes.
ArrayPanics(data) ==
  /\ data # <<>>
  /\ \/ DecodeUint256(data) > UsizeMax
     \/ \E i \in 1..Len(Taken(data)) : Len(Taken(data)[i]) < WordLen

EncodeUint256Array(vs) == <<WordLen, Len(vs)>> \o vs

-----------------------------------------------------------------------------
(* SanitizedRequest and its transforms.                                    *)

NewSanitizedRequest(body) ==
  [original_ids |-> [i \in DOMAIN body.items |-> body.items[i].id],
   req_body     |-> body,
   tr           |-> <<>>]

UsersAt(args)  == DecodeUint256(args)
TokensAt(args) == DecodeUint256(From(args, WordLen))

Users(args)  == DecodeAddressArray(From(args, UsersAt(args)))
Tokens(args) == DecodeAddressArray(From(args, TokensAt(args)))

SlicePanics(args, offset) == offset > Len(args) \/ ArrayPanics(From(args, offset))

\* Slicing call data beyond its end: for the first array, for the second word,
\* for the second array.  Without a first or a second word the call is passed on.
ArgsPanic(args) ==
  /\ args # <<>>
  /\ \/ SlicePanics(args, UsersAt(args))
     \/ Len(args) < WordLen
     \/ Len(args) > WordLen /\ SlicePanics(args, TokensAt(args))

IsBalancesCall(req) == req.method = "eth_call" /\ req.sig = BalancesSig

\* A panic of protect_account_relationship: nothing catches it.
Panics(body) ==
  /\ ~body.batch
  /\ body.items[1].method = "eth_call"
  /\ \/ body.items[1].sig = CutOff
     \/ IsBalancesCall(body.items[1]) /\ ArgsPanic(body.items[1].args)

\* Mutant of BreaksDown: whatever the token is.
BreaksDownAnyToken(body) ==
  /\ ~body.batch
  /\ IsBalancesCall(body.items[1])
  /\ Len(body.items[1].args) > WordLen

\* The early returns of protect_account_relationship, where it does not panic.
\* It looks neither at the contract nor at the block.
BreaksDown(body) ==
  /\ ~body.batch
  /\ IsBalancesCall(body.items[1])
  /\ Len(body.items[1].args) > WordLen
  /\ LET tokens == Tokens(body.items[1].args)
     IN  tokens # <<>> /\ tokens[1] = NativeToken

\* Mutant of GetBalance: the ids start one too low.
GetBalanceBelow(i, account) ==
  [id |-> i - 2, method |-> "eth_getBalance", to |-> NoContract,
   block |-> "latest", sig |-> NoData, args |-> account]

\* At the latest block, whichever the call was about.
GetBalance(i, account) ==
  [id |-> i - 1, method |-> "eth_getBalance", to |-> NoContract,
   block |-> "latest", sig |-> NoData, args |-> account]

\* Mutant of AccountRelationship: the two halves are mixed up.
AccountRelationshipTurned(users) ==
  [type        |-> "accountRelationship",
   protected   |-> <<[method |-> "eth_call", accounts |-> users,
                      params |-> <<BalancesSig, "latest">>]>>,
   unprotected |-> [method |-> "eth_getBalance", accounts |-> users, params |-> <<>>]]

\* The Transform of the first protection, for the channel of demo mode.  Its
\* params are fixed texts.
AccountRelationship(users) ==
  [type        |-> "accountRelationship",
   protected   |-> [i \in DOMAIN users |->
                      [method   |-> "eth_getBalance",
                       accounts |-> <<users[i]>>,
                       params   |-> <<>>]],
   unprotected |-> [method   |-> "eth_call",
                    accounts |-> users,
                    params   |-> <<BalancesSig, "latest">>]]

ProtectAccountRelationship(sr) ==
  IF ~BreaksDown(sr.req_body) THEN sr
  ELSE LET users == Users(sr.req_body.items[1].args)
       IN  [sr EXCEPT
              !.req_body = [batch |-> TRUE,
                            items |-> [i \in DOMAIN users |-> GetBalance(i, users[i])]],
              !.tr = Append(@, AccountRelationship(users))]

-----------------------------------------------------------------------------
(* utils.rs and protect_metadata: who is talking to whom.                  *)

Absent == "absent"    \* no such header, or no peer address
NA     == "N/A"

First(values) ==
  LET given == SelectSeq(values, LAMBDA v : v # Absent)
  IN  IF given = <<>> THEN NA ELSE given[1]

\* The relay's own address, by the name the client used; `found` is what the
\* resolver makes of it, NA included.
GetHostIp(client, found) ==
  IF client.host = Absent THEN NA
  ELSE IF client.host = "localhost" THEN "127.0.0.1" ELSE found

\* Behind a proxy the peer is the proxy.
GetClientIp(client) == First(<<client.cf, client.xff, client.peer>>)

GetClientUa(client) == IF client.ua = Absent THEN "" ELSE client.ua

Metadata(client, found) ==
  [type        |-> "metadata",
   protected   |-> [ip |-> GetHostIp(client, found), ua |-> "1rpc-demo/0.1"],
   unprotected |-> [ip |-> GetClientIp(client), ua |-> GetClientUa(client)]]

ProtectMetadata(sr, client, found) ==
  [sr EXCEPT !.tr = Append(@, Metadata(client, found))]

Sanitized(request, client, found) ==
  ProtectMetadata(ProtectAccountRelationship(NewSanitizedRequest(request)), client, found)

FirstMetadata(sr) == sr.tr[SelectInSeq(sr.tr, LAMBDA t : t.type = "metadata")]

\* Mutant of UserAgent: the other half of the first metadata is taken.
UserAgentOfClient(sr) == FirstMetadata(sr).unprotected.ua

UserAgent(sr) == FirstMetadata(sr).protected.ua

\* What tick_http_reqs sends: nothing is copied from the client's request but
\* its body.
BuildHttpRequest(sr) ==
  [body    |-> sr.req_body,
   headers |-> <<<<"Content-Type", "application/json">>,
                 <<"Connection", "keep-alive">>,
                 <<"User-Agent", UserAgent(sr)>>>>]

-----------------------------------------------------------------------------
(* rewrite_response.  An answer has items [id, ok, result]; the result of  *)
(* eth_getBalance is one word, anything else cannot be decoded.            *)

Single(item) == [batch |-> FALSE, items |-> <<item>>]

Error(id) == [id |-> id, ok |-> FALSE, result |-> <<>>]

\* Mutant of Failed: the lengths are not compared.
FailedAnyLength(sr, resp) ==
  \/ ~resp.batch
  \/ \E r \in Range(resp.items) : ~r.ok \/ Len(r.result) # 1

Failed(sr, resp) ==
  \/ ~resp.batch
  \/ Len(sr.req_body.items) # Len(resp.items)
  \/ \E r \in Range(resp.items) : ~r.ok \/ Len(r.result) # 1

PutTogether(sr, resp) ==
  [id     |-> sr.original_ids[1],
   ok     |-> TRUE,
   result |-> EncodeUint256Array([i \in DOMAIN resp.items |-> resp.items[i].result[1]])]

IsAccountRelationship(sr) == \E t \in Range(sr.tr) : t.type = "accountRelationship"

RewriteResponse(sr, resp) ==
  IF ~IsAccountRelationship(sr) THEN resp
  ELSE Single(IF Failed(sr, resp) THEN Error(NoId) ELSE PutTogether(sr, resp))

-----------------------------------------------------------------------------
(* The remote.                                                             *)

\* How a contract decodes two arrays of addresses.  Each of the first two words
\* says where an array starts, there is its length, and behind it its elements,
\* a word for each, which must be within the data and padded with zeros.
Uint(args, at)       == Number(SubSeq(args, at + 1, at + WordLen))
Start(args, k)       == Uint(args, WordLen * (k - 1))
Count(args, k)       == Uint(args, Start(args, k))
Element(args, k, i)  == Start(args, k) + WordLen * i
Argument(args, k) ==
  [i \in 1..Count(args, k) |->
     SubSeq(args, Element(args, k, i) + WordLen - AddressLen + 1,
                  Element(args, k, i) + WordLen)]

WellFormed(args) ==
  /\ Len(args) >= 2 * WordLen
  /\ \A k \in {1, 2} :
       /\ Start(args, k) + WordLen <= Len(args)
       /\ Element(args, k, Count(args, k)) + WordLen <= Len(args)
       /\ \A i \in 1..Count(args, k), j \in 1..(WordLen - AddressLen) :
            args[Element(args, k, i) + j] = 0

AsksChecker(item) ==
  /\ IsBalancesCall(item)
  /\ item.to \in Checkers
  /\ WellFormed(item.args)

\* What balances() returns: a row of tokens per user.
BalanceTable(block, users, tokens) ==
  [k \in 1..(Len(users) * Len(tokens)) |->
     Balance(block, users[(k - 1) \div Len(tokens) + 1],
                    tokens[((k - 1) % Len(tokens)) + 1])]

\* Of other calls the answer is passed on, whatever it is.
Result(item) ==
  IF item.method = "eth_getBalance"
  THEN <<Balance(item.block, item.args, NativeToken)>>
  ELSE IF AsksChecker(item)
  THEN EncodeUint256Array(BalanceTable(item.block, Argument(item.args, 1),
                                                   Argument(item.args, 2)))
  ELSE <<>>

\* An empty batch is an error in JSON-RPC.
TrueAnswer(body) ==
  IF body.items = <<>> THEN Single(Error(NoId))
  ELSE [batch |-> body.batch,
        items |-> [i \in DOMAIN body.items |->
                     [id |-> body.items[i].id, ok |-> TRUE,
                      result |-> Result(body.items[i])]]]

\* Or it refuses the whole, fails for one of the items, gives a result of one
\* that cannot be decoded, leaves out the last ones, or answers in another
\* order, some of them twice.
Answers(body) ==
  LET true == TrueAnswer(body)
      all  == DOMAIN true.items
  IN  {true, Single(Error(NoId))}
        \cup {[true EXCEPT !.items[i] = Error(@.id)] : i \in all}
        \cup {[true EXCEPT !.items[i].result = <<>>] : i \in all}
        \cup {[batch |-> TRUE, items |-> SubSeq(true.items, 1, n)] : n \in 0..Len(true.items)}
        \cup {[true EXCEPT !.items = [i \in all |-> true.items[p[i]]]] : p \in [all -> all]}

\* What is no JSON-RPC at all.
Unparsable == [batch |-> FALSE, items |-> <<>>]

-----------------------------------------------------------------------------

TypeOK ==
  /\ panicked \subseteq Requests
  /\ \A f \in forwarded :
       /\ f.request \in Requests
       /\ f.client \in Clients
       /\ f.sr.req_body.batch \in BOOLEAN
       /\ \A item \in Range(f.sr.req_body.items) : item \in Item
       /\ \A t \in Range(f.sr.tr) :
            t.type = "accountRelationship" =>
              t.unprotected.accounts \in Seq(Address)

Init ==
  /\ forwarded = {}
  /\ replies = {}
  /\ panicked = {}

OnNewHttpRequest(q, client) ==
  /\ forwarded = {} /\ replies = {} /\ panicked = {}
  /\ \/ /\ Panics(q)
        /\ panicked' = {q}
        /\ UNCHANGED forwarded
     \/ /\ ~Panics(q)
        /\ \E found \in Resolved \cup {NA} :
             LET sr == Sanitized(q, client, found)
             IN  forwarded' = {[request |-> q, client |-> client, sr |-> sr,
                                wire |-> BuildHttpRequest(sr)]}
        /\ UNCHANGED panicked
  /\ UNCHANGED replies

\* The answer is matched with its request in HttpForwarder; here it is parsed
\* and rewritten.
Receive(sr, answer) ==
  IF answer = Unparsable THEN Single(Error(NoId)) ELSE RewriteResponse(sr, answer)

TickHttpRecvRemote(f) ==
  /\ forwarded' = forwarded \ {f}
  /\ \E a \in Answers(f.wire.body) \cup {Unparsable} :
       replies' = {[request |-> f.request, sr |-> f.sr, answer |-> a,
                    reply |-> Receive(f.sr, a)]}
  /\ UNCHANGED panicked

\* The reply is read and the connection closed; the next request may come.
CloseConn ==
  /\ replies # {}
  /\ replies' = {}
  /\ UNCHANGED <<forwarded, panicked>>

\* Nothing is read or answered any more.
Over == panicked # {} /\ UNCHANGED vars

Next ==
  \/ \E q \in Requests, client \in Clients : OnNewHttpRequest(q, client)
  \/ \E f \in forwarded : TickHttpRecvRemote(f)
  \/ CloseConn
  \/ Over

Spec == Init /\ [][Next]_vars

-----------------------------------------------------------------------------
(* Properties.                                                             *)

\* The calls that breaking down is meant for: a contract that has the balances,
\* the block that is asked about in its place, users, and one token.
Meant(request) ==
  LET call == request.items[1]
  IN  /\ AsksChecker(call)
      /\ call.block = "latest"
      /\ Count(call.args, 1) > 0
      /\ Count(call.args, 2) = 1

\* The relay is transparent: if the remote does its part, the client reads what
\* the remote would have answered to the very request of the client, with its id
\* and its shape, whether or not something else was asked in its place.  Of the
\* calls that are broken down this is said of those that are meant; those about
\* another block, to another contract, with more tokens, without users or with
\* call data cut off, which are broken down as well, may be answered otherwise.
Transparent ==
  \A r \in replies :
    /\ r.answer = TrueAnswer(r.sr.req_body)
    /\ BreaksDown(r.request) => Meant(r.request)
    => r.reply = TrueAnswer(r.request)

\* The remote answers a batch in its order.  JSON-RPC does not ask that of it,
\* and the code does not look at the ids.
AnsweredInOrder(r) ==
  r.answer.batch =>
    \A i \in DOMAIN r.answer.items \cap DOMAIN r.sr.req_body.items :
      r.answer.items[i].id = r.sr.req_body.items[i].id

\* The balances of all users at the latest block, under the id of the client.
AllBalances(request) ==
  LET users == Users(request.items[1].args)
  IN  Single([id |-> request.items[1].id, ok |-> TRUE,
              result |-> EncodeUint256Array(
                           [i \in DOMAIN users |-> Balance("latest", users[i], NativeToken)])])

\* There is no half answer to a call that was broken down: as soon as one of the
\* balances fails, is missing or cannot be read, the client gets an error,
\* otherwise each of the users has the right balance.  A remote that answers in
\* another order is not told apart, so this is said of those that keep it.
NoHalfAnswers ==
  \A r \in replies :
    IsAccountRelationship(r.sr) /\ AnsweredInOrder(r) =>
      r.reply \in {AllBalances(r.request), Single(Error(NoId))}

\* Only call data that is cut off or that no contract could decode ends the
\* process: whatever a wallet encodes as the ABI says is taken apart within its
\* bounds, also if its two arrays are in another order, overlap or are followed
\* by something else.
FailsOnMalformedOnly ==
  \A q \in panicked : q.items[1].sig = CutOff \/ ~WellFormed(q.items[1].args)

\* The metadata is masked (README.md): what the remote reads is the same
\* whichever client made the request and however it was reached.
RemoteCannotTellClients ==
  \A f \in forwarded : \A client \in Clients, found \in Resolved :
    f.wire = BuildHttpRequest(Sanitized(f.request, client, found))

\* The details shown in demo mode name the calls that are made: the protected
\* side lists the accounts that the remote reads, one by one, and with which
\* method, the unprotected side the accounts that the call of the client names,
\* and its method.  The params beside them are fixed and may say something else.
DetailsNameCalls ==
  \A f \in forwarded : \A t \in Range(f.sr.tr) :
    /\ t.type = "accountRelationship" =>
         /\ DOMAIN t.protected = DOMAIN f.wire.body.items
         /\ \A i \in DOMAIN t.protected :
              /\ t.protected[i].method = f.wire.body.items[i].method
              /\ t.protected[i].accounts = <<f.wire.body.items[i].args>>
         /\ t.unprotected.method = f.request.items[1].method
         /\ WellFormed(f.request.items[1].args) =>
              t.unprotected.accounts = Argument(f.request.items[1].args, 1)
    /\ t.type = "metadata" =>
         /\ <<"User-Agent", t.protected.ua>> \in Range(f.wire.headers)
         /\ t.unprotected.ua = GetClientUa(f.client)

\* "native token address only" (sanitizer.rs:215): what is broken down asks for
\* no other token, since for that one the answers would not be put together.
NativeTokenOnly ==
  \A f \in forwarded :
    IsAccountRelationship(f.sr) =>
      \A t \in Range(Tokens(f.request.items[1].args)) : t = NativeToken
=============================================================================
