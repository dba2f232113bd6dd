# A TLA+ model of 1RPC lite

1RPC lite relays JSON-RPC requests of HTTP and websocket clients to remote
endpoints. This directory holds TLA+ modules for the parts of it that carry
state, configurations with which TLC checks them on small instances, and proofs
that TLAPS checks for every instance. Paths below are relative to the root of
the sources; `jsonrpc_forwarder.rs`, `types.rs`, `client.rs`, `sanitizer.rs`
and `utils.rs` are in `src/common/forwarder/src/`; `handler.rs`, `one_rpc.rs`,
`app.rs` and the arguments' `types.rs` in `src/apps/1rpc/src/`.

## The system

One thread runs everything. `OneRpc::serve` calls `HttpWsServer::tick` in a
loop; the server (crate `net_http`, not part of this repository) reads its
sockets, calls `on_new_http_request`, `on_new_ws_conn`, `on_new_ws_request` and
`on_close_ws_conn` for what it found, and then `on_tick`. All I/O is
non-blocking: what would block is tried again in a later tick, or is not. So
there are no data races, but there is concurrency: clients, remote endpoints,
the state of connections and the clock change between any two steps of the
thread, and every handler has to cope with what the others, or an earlier tick,
left behind.

| Component | State | Operations | Interacts with |
|---|---|---|---|
| Request manager (`types.rs:64-99`) | next request id; map id -> request | `push`, `pop`, iteration | owned by the HTTP forwarder and by the relay handler |
| Response manager (`types.rs:101-207`) | map connection id -> body and close mark | `add_raw`, `add_raw_closed`, `add_single_error_msg_closed` | `http_responses` of the forwarder, `ws_responses` of the websocket handlers |
| HTTP forwarder (`jsonrpc_forwarder.rs:164-440`, `client.rs`) | `http_reqs`, `http_responses`, one client pool per route | `on_new_http_request`; per tick `tick_http_reqs`, `tick_http_recv_remote`, `tick_http_send_response` | HTTP clients, remote pools, the clock; calls the sanitizer and the websocket handler's `witness_request` |
| Websocket response queue (`jsonrpc_forwarder.rs:82-122`) | `ws_responses` | `tick_send_response` | local websocket connections |
| Demo handler (`handler.rs:20-92`) | token -> connection, connection -> token | `on_connection_open`, `on_connection_close`, `witness_request` | queues protection details in `ws_responses` |
| Relay handler (`handler.rs:94-296`) | remote stream per connection, `ws_reqs` | `on_connection_open`, `on_connection_close`, `process_request`, `tick_ws_reqs`, `tick_ws_recv_remote` | local connections and remote streams |
| Router, forwarder handler (`one_rpc.rs`) | static routes | `get_route`, `get_http_uri`, the hooks | passes the hooks on to the websocket handler |
| Sanitizer (`sanitizer.rs`, `sol.rs`, `utils.rs`) | none | breaks an `eth_call` for balances down into a batch, puts the answers together, records what was hidden | called for each HTTP request and answer |
| Application (`app.rs`, `src/apps/src/lib.rs`, entry points under `bin/`) | arguments, config, alive flag | `run`, `terminate` | a signal handler clears the flag that the loop of `serve` reads |

What makes each part correct, and what makes that hard:

* **HTTP forwarder.** Each client that asks is answered once, by the answer to
  its own request, or has its connection closed; no request is sent to a remote
  twice. The difficulty: answers are matched by request id alone and may come
  after the request was given up; writes may block or fail after the request was
  marked sent; a failing pool loses requests; clients hang up, or have several
  requests pending on one connection that the first answer closes; requests and
  connections are removed in separate loops.
* **Response queue.** What is queued is written in order and the connection is
  closed only after it, although a write may block in one tick and succeed in a
  later one.
* **Demo handler.** The two maps agree, and details of a request go to the
  channel of its token, although a token may be taken over by a newer channel
  while the old one is open, and channels close in any order.
* **Relay handler.** A message is submitted to the remote at most once; a local
  connection and its remote stream go away together, whichever side fails first,
  in whichever of the three parts of a tick.
* **Sanitizer.** The answers to the broken-down request are put together into
  what the one call would have returned; a remote cannot tell the clients apart by
  what it reads, and what is shown in demo mode names the accounts that it reads.
  Call data is cut at offsets that the client has encoded; only data that no
  contract could decode may make that panic, which ends the process.
* **Application.** The server is built from what the command line says. Once the
  alive flag is cleared, whenever that happens, the loop ends.
* **Together.** A channel shows what is forwarded and nothing else, before it is
  sent. The parts share one thread, and none holds up or disturbs another.

## The modules

| Module | Models | State in the code |
|---|---|---|
| `JsonrpcMgr` | the two managers, as operators on functions | a `BTreeMap` is a function, its keys are its `DOMAIN` |
| `HttpForwarder` | the HTTP side of `ServerHandler`, the client pools, client connections, remotes, the clock | `reqs`, `nextId` = `http_reqs`; `responses` = `http_responses`; `pools` = keys of `http_client`; `phase` = position in `on_tick` |
| `RequestContract` | nothing in the code: the abstract specification of the HTTP side | `live`, `owed`, `answered` |
| `WsConns` | local websocket connections, `ws_responses`, `tick_send_response` | `ws`, `wsResponses` |
| `DemoWsHandler` | demo mode; extends `WsConns` | `tokenToConn`, `connToToken` |
| `RelayWsHandler` | relay mode; extends `WsConns` | `remoteConns` = `remote_ws_conns`; `wsReqs`, `nextId` = `ws_reqs` |
| `RelayContract` | nothing in the code: the abstract specification of relay mode | `live`, `linked`, `owed`, `submitted` |
| `Sanitizer` | `sanitizer.rs`, `sol.rs`, `utils.rs`, `build_http_request` and their calls in the forwarder | none in the code; `forwarded`, `replies` hold the request under way and its reply, `panicked` the one the process has ended on |
| `App` | entry points, `app.rs`, the cells of `src/apps/src/lib.rs`, `from_args`, the loop of `serve` | `main` = position of the main thread; `alive`, `arg`, `cfg` |
| `OneRpc` | the whole in demo mode: `App`, `HttpForwarder` and `DemoWsHandler` on one thread | the variables of the three |
| `MCSanitizer`, `MCHttpForwarder`, `MCDemoWsHandler`, `MCRelayWsHandler`, `MCApp`, `MCOneRpc` | values of constants for TLC | |
| `JsonrpcMgr_proofs`, `WsConns_proofs` | lemmas about the managers, about lists of messages and about the response queue | |
| `HttpForwarder_proofs`, `DemoWsHandler_proofs`, `RelayWsHandler_proofs`, `Sanitizer_proofs`, `App_proofs`, `OneRpc_proofs` | theorems about the module of that name | |

`map` in `PROJECT.json` names the lines behind each definition.

**HttpForwarder.** `OnNewHttpRequest(c, q)` is the whole handler: the early
returns are `Refused`, each of which queues one error; what passes is pushed.
`TickHttpReqs`, `TickHttpRecvRemote`, `TickHttpSendResponse` and `TickWs` are the
four calls of `on_tick`, each one step, in this order. They are steps of their
own, not one, since remotes answer and time passes between them. Requests are
abstracted to the shapes on which the handler branches: path, length against the
limit, single, batch or garbage, and the size of the batch. A request is known
by its place in the order of arrival; that number stands for the body and is
carried along by everything that derives from it, so that the properties can
tell whose request an answer answers. The time since `last_send` is counted in
units up to one more than `Timeout`; beyond that it makes no difference.

Nondeterminism stands for what the code does not decide: which pool can be
created (`ClientFound`: a failure only while the route has none), which writes
reach the remote (`wired`: whether `write_request` returns `Ok`, `WouldBlock` or
an error, the handler goes on in the same way), which pools break while they are
read (`broken`), which answers are left unread or lost by that, which writes to
clients fail, and when clients, remotes and the clock move. Ids of connections
are assumed to be fresh; `net_http` gives them out.

The variables marked "history" (`asked`, `sends`, `out`; `sent`, `path`,
`witnessed`, `submitted` in the websocket modules) record what happened for the
properties; no action reads them but to number requests.

**WsConns** is shared by the websocket handlers as `ws_responses` and
`tick_send_response` are in the code. Connections go from "open" to "dropped"
(removed after a failure) or "shut" (removed because the entry asked for it),
and the server reports a closing (`on_close_ws_conn`) at any time after the
opening: before, after or without a removal by a handler. A message is a
number; `LastWord` is an error text that precedes a closing.

**DemoWsHandler.** `HasToken` is the prefix test: a path that passes it always
has a third component, so "No token" cannot be answered. The requests witnessed
are those that `OnNewHttpRequest` forwards; here they arrive at any time between
ticks, in `OneRpc` when they are forwarded.

**RelayWsHandler.** A connection is opened with a path; without a route, or when
the remote cannot be connected, it gets an error. `TickWsReqs`,
`TickWsRecvRemote` and `TickSend` are the three parts of `tick_ws`. In each,
`ok` and `failed` are the writes that succeed and fail; the rest would block.
`RelayContract` knows connections, whether they are linked to a remote, and the
messages owed and submitted: an open connection keeps its link, and a message is
given up only when its connection is down.

**App.** The main thread takes one step per stage of `run` and per part of an
iteration of `serve`; `Terminate` is the handler's thread and may come between
any two of them once the handler is set. A panic and an `Err` of `run` end the
process alike ("failed"), whether the panic comes while the server is built or
in a tick. A quote that cannot be had is only logged (`app.rs:44`); the endpoint
and its key before it are not. The command line is a sequence of options; `FromArgs`
folds them in their order. What a tick does is left open, only its result counts.

**OneRpc** joins three modules by `INSTANCE`: each action of the whole is one of
a part, or two that happen in the same call, and leaves the others alone. While
`main` is in a tick the server makes its callbacks in any order, then the four
parts of `on_tick` follow, the last of which ends the tick (`TickWs`); that it is
the last thing in the server's tick is an assumption about `net_http`.
`OnNewHttpRequest` calls the hook of the demo handler when `Shown`. A callback may
panic instead of returning, as the sanitizer does on call data that is cut off:
that is `ServerFails`, which ends the process.

**Sanitizer.** Pure operators between two actions: `Sanitized` is what
`on_new_http_request` makes of a request, `Receive` what `tick_http_recv_remote`
makes of an answer. Call data is a sequence of bytes behind the selector, since
`sol.rs` cuts it in chunks of 32 at byte offsets that the client chooses: `From`,
`Chunks`, `Taken` and `DecodeAddressArray` are that, with its shorter last chunk and
with a length that counts more elements than there are. `Panics` is where slicing
or converting fails; nothing catches it. `CutOff` is call data shorter than a
selector, `NoData` none that could be parsed. Results are words, and words are
numbers. A call names its contract and its block; `GetBalance` asks at the latest
one whatever the call it replaces was about, as `sanitizer.rs:229` does.

What makes the functions checkable is a model of the remote (`Result`,
`TrueAnswer`): what `eth_getBalance` and the contracts behind
`balances(address[],address[])` (`Checkers`) answer, for a chain given by the
constant `Balance` (block, account, token). The contract decodes its arguments by
a definition of its own (`WellFormed`, `Argument`), written from the ABI and not
from `sol.rs`, so that decoding is checked and not assumed. `Methods` and
`Selectors` are the names that calls use. Then "correct" means that the client
reads what its own request would have been answered. A client is given by its
address and the headers the code looks at; the name of the host the request was
made to is resolved to any of `Resolved`, or not at all. `HttpForwarder` does not
look into requests, so the two modules share nothing but the two handlers, of
which each models its half.

## The runs

| Run | Question | Instance | States |
|---|---|---|---|
| `http_safety` | safety of the HTTP side | 2 clients, 3 requests, 1 route, a forwarded and a refused shape, time limit 1 | 338 000 |
| `http_contract` | does it implement `RequestContract`, and is every client served and every request removed | 2 clients, 2 requests, 3 routes, 8 shapes | 185 000 |
| `http_example_routes` | is the request of `README.md` served (violation) | the routes of the example config | |
| `demo` | safety of the demo handler and the queue; are details delivered, refused channels closed | 3 connections, 2 tokens, 2 requests | 53 000 |
| `demo_channel`, `demo_details` | does an open channel get its details (violations) | 2 connections, 2 tokens, 2 requests | |
| `relay` | safety of the relay handler; does it implement `RelayContract`; is every message sent or given up, does every stream end that lost its local side | 2 connections, 2 messages, 2 deliveries per stream | 137 000 |
| `sanitizer` | is a broken down request answered like the request itself, who made it hidden, and what ends the process | 49 calls of `balances` in two layouts, 3 unusual and 13 malformed ones, other blocks and contracts, 4 other calls, 25 batches, 5 clients | 8 000 |
| `sanitizer_tokens` | is only the native token's call broken down (violation) | the same | |
| `app` | is the server built from what the command line says | command lines of up to 3 of 10 options | 11 000 |
| `onerpc_safety` | do the parts work together | 1 client, 2 requests, 2 channels of a token, a forwarded and a refused shape, time limit 0 | 788 000 |
| `onerpc_liveness` | are clients served and signals obeyed on the shared thread | 1 client, 2 requests, 1 channel, time limit 0 | 73 000 |

What the properties say:

* `NoClientForgotten`: as long as the connection of a client that has asked is
  open, a request of it is pending or an error for it is queued.
* `RepliesReachAsker`, `SentAtMostOnce`, `PendingUnanswered`: who gets an answer,
  how often a request leaves the relay, and that what is settled is not kept.
* `ClosedOnlyWhenSettled`: the handlers close an open connection only in a step
  that settles something of its client.
* `NoClientHangs`, `NoRequestStays`: each client that asked gets its connection
  closed in the end, and each request leaves the map.
* `KeepsContract`: all of that as a refinement. `RequestContract` knows only who
  waits, what is owed and what was answered; a tick may settle any set of owed
  requests at once, reply to some of them, and ends every connection concerned.
* `RegistryMatches`, `DetailsToOwner`, `InOrder`, `ShutAfterLastWord`: the maps of
  the demo handler agree; details go to one channel of their token, in order;
  a connection is shut only after its last word.
* `GoneLeavesOneEntry`: what stays in `ws_responses` for a closed connection neither
  grows nor appears later.
* `SubmittedAtMostOnce`, `OpenHasStream`: a message is written to its stream at
  most once; an open connection has its stream or an error that ends it. In
  this run `InOrder` says that what the remote sends is passed on in order, at
  most once, and `KeepsContract` that the handler implements `RelayContract`.
* `StreamsLeftBehind`, `LeftStreamsEnd`: streams do outlive their local connection,
  since `tick_send_response` does not know them. The invariant says that this is
  the only place (a shut connection, or a failed write, which leaves its entry):
  a failure seen on the side of the remote takes both down in the same part of
  the tick. The liveness property says that such a stream ends with the next
  message of its remote, even if the closing is never reported.
* `QueueDrains`, `RefusedGetClosed`, `NoWsRequestStays`: a blocked write is made
  up for, refused connections get closed, and the queue of messages empties.
* `Transparent`: if the remote does its part the client reads what its own request
  would have been answered, with its id, its block and its contract. Of the calls
  that are broken down this is said of those that are meant to be (`Meant`): to a
  contract that has the balances, about the latest block, with users and one
  token. About others the code may answer something else, see "Violations" and
  "Seen while modelling".
* `NoHalfAnswers`: every call that is broken down, meant or not, is answered with
  the latest balances of all the users that the code decodes, or with an error as
  soon as one balance fails, is missing or cannot be read. Answers in another
  order are in the run and are left out here (`AnsweredInOrder`), for the code does
  not look at ids and does mix them up.
* `FailsOnMalformedOnly`: the process ends on data only that no contract could
  decode. The run has arrays in both orders, both the same, one reaching into the
  other, followed by more; and malformed ones that panic, are passed on and are
  broken down.
* `RemoteCannotTellClients`, `DetailsNameCalls`: the request a remote reads is the
  same whoever made it; the details recorded for demo mode name the accounts and
  methods of the calls that the remote reads, and of the call of the client. The
  `params` beside them are fixed texts in the code (`sanitizer.rs:242`, `249`): `[]`
  for the calls, which do have parameters, and "latest" whatever block the client
  asked about. They are in the model, and nothing is claimed of them.
* `ServesAsAsked`: the address, the certificates, the routes and the mode the
  server runs with are those of the last option of each kind.
* `ChannelShowsForwarded`, `SentWasWitnessed`: channels show forwarded requests of
  their token, never a refused one, through take-overs and late writes; no request
  leaves before the handler was told of it. The handler knows requests by their number among those it is told of, which is
  `Rank` on the other side: how many were forwarded up to that one.
* `ClientsServed`, `TerminateEndsServe`: on the shared thread every client that
  asked has its connection closed in the end unless the process ends, and once
  the flag is cleared it does.

**Bounds.** `Timeout = 1` is enough: a request is unsent, in time or overdue,
and answers may come on both sides of the limit. Three requests allow one that
is given up, one pushed after it and a refused one, on the same connection or on
different ones; the run over all shapes, which also checks liveness, has two.
Two clients allow one to hang up while the other waits; a third would only
repeat the roles. `MaxBatch = 2` and `HttpMaxBody = 1` stand for 30 and 2 MiB
with a shape on either side of each limit. `IdSpace` stands for 2^64 and exceeds
`MaxRequests` (`ConstantsAssumption`): that the id wraps is modelled
(`NextReqId`), but a run that exhausts the ids is excluded. For the demo handler
three connections are the take-over of a take-over. The relay run has two
messages and two deliveries, so that a message overtakes another, and order and
loss of deliveries show; with three messages (352 000 states up to symmetry) the
safety properties hold as well. In the two runs of `OneRpc` the time limit is 0:
a request is overdue as soon as time passes; the other side of the limit is
covered by the runs of `HttpForwarder`. Two channels there allow a take-over
while requests arrive, and two requests one that is refused between or before
forwarded ones. In `app` one of the three options has to be the submitter, as
`Dcap` is set; two others may be of the same kind. Clients and channels are
symmetric, which the two safety runs use; runs with liveness do not.

Deadlock is checked in every run: the thread ticks on for ever, and where the
process may end its end is a step of its own (`Over`).

**Fairness.** The thread loops for ever, hence weak fairness of the steps of
`on_tick`; time passes (`Elapse`). For `NoClientHangs` and `NoRequestStays` a pool
that cannot be created must be created in some later tick (`EveryClientFound`,
strong): as the code remarks at `jsonrpc_forwarder.rs:214`, "`get_or_new` is not
likely to fail". It is needed: before the first attempt to send there is no
`last_send`, hence no time limit, and a request whose route never gets a pool
stays for ever with its connection open. No fairness is assumed of remotes or
clients. For the websocket modules a peer or remote does not block its writer
for ever (`PeerReads`, `RemoteReads`): it takes the data or its connection fails.
There is no time limit for websocket messages, so without it they would stay.
Each tick reads each stream once (`handler.rs:264`); that ticks keep coming that
find everything the remotes have sent, unless a stream fails (`RemotesHeard`), is
needed for `LeftStreamsEnd`; the other properties only need that this part of the
tick runs, which it implies, as `PeerReads` and `RemoteReads` do for theirs. Nothing says that the server ever reports a
connection closed.
In `OneRpc` there is one thread, hence one weak fairness for everything it does
(`MainThread`) instead of one per part. In a tick it may be at callbacks or go on to
`on_tick`, and fairness does not choose; but connections come and go once and
requests are bounded, so the callbacks end, as they do in the server, which
reads each socket once per tick. Time passes, a pool is created in the end;
nothing is assumed of clients, remotes or readers of channels.

**Violations.** Four runs show where the code differs from what `README.md`
or a comment says:

* `http_example_routes`: `get_http_uri` (`one_rpc.rs:57`) serves `https` routes
  only; the example routes are `http`, so the request of `README.md:69` is
  answered "Unknown path".
* `demo_channel`: `on_connection_close` (`handler.rs:57`) removes the token even
  if another connection took it over. After reopening a channel, the late report
  of the old one's closing unregisters the new one.
* `demo_details`: `add_raw` (`types.rs:126`) replaces an entry that was not
  written yet, so of two requests taken before the next tick only the last one's
  details arrive.
* `sanitizer_tokens`: the comment at `sanitizer.rs:215` says "native token address
  only", but only the first token is compared; a call for the native token and
  another one is answered for the native one alone.

Seen while modelling, with nothing in the repository that says otherwise: the
entries of connections that are gone stay in `ws_responses`
(`jsonrpc_forwarder.rs:109`); a message from the remote that meets a blocked
local writer is dropped (`handler.rs:270`); a later message may overtake one
whose write would block (`handler.rs:237`); details for a channel that a tick has
removed and whose closing was not reported yet are queued and lost
(`handler.rs:71`); a lookup of the host's name blocks the thread (`utils.rs:65`);
websocket messages (`handler.rs:218`)
and the calls in a batch (`sanitizer.rs:182`) are not broken down; a call of
`balances` without users becomes an empty batch, which JSON-RPC makes an error;
the error that replaces a failed batch has no id (`sanitizer.rs:49`); neither the
contract nor the block of a call is looked at, and the balances are those of the
latest block (`sanitizer.rs:229`); an array that is cut off between two elements is
read as far as it goes (`sol.rs:21`); the answers to the batch are taken by position
(`sanitizer.rs:86`); and call data shorter than a selector (`sol.rs:5`), or sliced
beyond its end (`sanitizer.rs:203`, `208`, `210`), panics on the one thread there is.

## The proofs

Every safety invariant and action property that a passing run checks is also
proved, for every value of the constants that satisfies the assumptions below;
the two refinements are, too. The proofs need none of the
bounds of the runs.

| Module | Theorems | Assumptions |
|---|---|---|
| `HttpForwarder_proofs` | `TypeCorrect`, `ClientsNotForgotten`, `RepliesCorrect`, `NeverSentTwice`, `PendingCorrect`, `ClosingSettles`, `Refinement`, `RequestsAnsweredOnce` | fewer requests than ids (`ConstantsAssumption`) |
| `DemoWsHandler_proofs` | `TypeCorrect`, `RegistryCorrect`, `DetailsReachOwner`, `DetailsInOrder`, `ShutLast`, `GoneLeftAlone` | the names for "no token" are no tokens (`DemoConstants`) |
| `RelayWsHandler_proofs` | `TypeCorrect`, `NeverSubmittedTwice`, `OpenConnsServed`, `FailuresTakeBothDown`, `DeliveredInOrder`, `Refinement`, `SubmittedNotKept` | fewer messages than ids, routes are paths (`RelayConstants`) |
| `Sanitizer_proofs` | `TypeCorrect`, `ClientsMasked`, `DetailsNamed`, `OnlyMalformedFails`, `AllOrNothing`, `RelayTransparent` | the names the code uses exist, requests are lists of calls, one if it is no batch, and no call data is longer than a `usize` can count (`NamesExist`, `RequestsAreJsonrpc`) |
| `App_proofs` | `TypeCorrect`, `LastOptionCounts` | a command line is a sequence of options (`AppConstants`) |
| `OneRpc_proofs` | `PartsInvariance`, `ToldBeforeSent`, `ShownWasForwarded` | those of its parts, and that a request names a token or none (`OneRpcConstants`) |

Each module has an inductive invariant `IInv` and a theorem `Invariance`; a safety
property is a part of it or follows in a few steps. There is one lemma per
action, and under it one step per conjunct that the action can disturb.

**HTTP side.** `IInv` joins the safety properties with what makes them inductive:

* `IdsInOrder`: ids in the maps and on the wire are below `nextId`, so that `push`
  never replaces a request and an answer never meets a younger one.
* `AnswersMatch`: an answer whose id is still in the map belongs to the request
  under that id; with `ReqsOfAsker` this gives `RepliesReachAsker`.
* `UnsentNotSent`: what is not marked sent was not sent; it gives `SentAtMostOnce`.
* `ErrorsOfAsker`: each entry of `http_responses` is a non-empty list of errors for
  the client that asked, with the close mark set, so that writing or failing to
  write it closes the connection; `NoClientForgotten` rests on it.
* `OutOfAsked`, `NewAsksNothing`: replies are to requests that exist, and who is not
  connected has asked nothing.

`Refinement` maps the state to `RequestContract` (`Waiting`, `Owed`, `Answered`): under
`IInv` each action is `Ask`, `Settle`, `Join`, `Leave` or a stutter. The contract by
itself answers a request once and owes it no more (`ContractAnswersOnce`), so the
HTTP side does (`RequestsAnsweredOnce`).

**Demo handler.** Who reads what is a matter of three places: the registry, the
queue and what was written. `RegisteredAsOpened` ties the registry to the path of
a connection, `HeldByOwner` says of queue and writings together that they are
details of that token and that no two connections share any; with
`QueuedAfterSent` (what waits is newer than what was written) and `QueueHoldsOne`
(`add_raw` replaces) this is inductive and gives order and ownership.
`ClosedIsRefused` is what `ShutAfterLastWord` needs: only refused connections are shut.

**Relay handler.** `QueuedNotSubmitted` is what `SubmittedAtMostOnce` needs: what is
queued was never written and is queued once, also after a failed write, since a
stream that failed is gone together with its connection (`OpenHasStream`) and
what is left in the queue is an orphan. `QueueHoldsErrors` says that the queue of
relay mode holds errors only, which end their connection, and `SentWasRead` that
a connection got no more than was read of its stream, which makes order
inductive. The state maps to `RelayContract` by `LiveConns`, `Linked`, `Owed` and
`Sent`. The contract by itself does not owe what was submitted
(`ContractSubmitsOnce`), so the handler does not keep it (`SubmittedNotKept`).

**Sanitizer.** It keeps no state, so the invariant only says where a forwarded
request and a reply come from (`Sanitized` of a request, `Receive` of an answer) and
that the process ended on a request that it panics on. The work is in lemmas on
the operators, in two parts. The first is about bytes: a sequence of bytes is a
number, by a least position at which the recursive function were none
(`NumberIsNat`); how data falls into chunks (`ManyChunks`, `AChunk`, `TakenChunks`); and
that an array which a contract can decode, at any offset, is within the bounds of
`sol.rs` and decoded to the same elements (`AbiArray`, `AbiArguments`). This gives
`OnlyMalformedFails`, and that `DetailsNamed` and `RelayTransparent` can speak of the
arguments as the contract reads them. The second is about the batch: which calls
are broken down (`BrokenDown`) and into what, what a remote that does its part
answers to it (`TrueBalances`), that whatever is not refused and in its order holds
all balances (`NotFailedMeansHeld`), and that putting this together gives the answer
to the call itself (`PutTogetherIsAll`, `TrueAnswerToCall`), for any number of users
and any chain.

**Application.** `from_args` is a fold over the command line. That it leaves the last
option of each kind is proved by hand for sequences of any length
(`FromArgsTakesLast`): the table `AllSaid` of what was said last solves the equation
of the fold (`FoldExists`), and a shortest prefix on which a solution differed
from it would not be the shortest. `ArgsAsSaid` and `ConfigFromArgs` carry this through
the stages of `run` to the server, which takes some parts from the config and
others from the arguments.

**Together.** Each step of the whole is a step or a stutter of the process, of the
HTTP side and of the demo handler (`StepOfProc`, `StepOfHttp`, `StepOfDemo`). That is how
the actions are written; it is stated because with it the invariants proved of
the parts hold of the whole (`PartsInvariance`): `App_proofs`, `HttpForwarder_proofs`
and `DemoWsHandler_proofs` are instances there, whose assumptions
`OneRpcConstants` implies, and whose `Spec` the lemmas `SameProc`, `SameHttp` and `SameDemo`
show to be that of the parts of `OneRpc`. What ties the two sides is `Joined`: the
handler was told of all forwarded requests, in order and of no other (`Told`),
and what waits or was sent was forwarded (`OnlyForwarded`).

Only model-checked: liveness (`NoClientHangs`, `NoRequestStays`, `QueueDrains`,
`RefusedGetClosed`, `NoWsRequestStays`, `LeftStreamsEnd`, `ClientsServed`,
`TerminateEndsServe`), which is out
of the prover's reach; the four violations are counterexamples.

## Not modelled

* Of the sanitizer: the time in the details of demo mode and the texts of errors.
* A call that blocks the thread: writes refuse instead (`WouldBlock`), and lookups
  of host names (`utils.rs:65`) return at once.
* The contents of the files read at the start (routes, certificates) beyond
  that they can be read or not; an option without its value, which is a panic
  like a value that cannot be parsed; the attestation and the enclave, which are
  external and may fail as a whole (`Build`).
* `RelayWsHandler` in the composition: in relay mode `witness_request` does nothing
  (`handler.rs:173`), so the two sides share the thread and no state.
* The helpers of `src/apps/src/lib.rs` without a caller (`Var::set`, `with`,
  `cloned`, `VarMutex`, `DumpApp`), `get_ws_uri` and `to_close`.
* Formatting and parsing of HTTP and JSON-RPC, log messages, error texts.
* `net_http` itself: sockets, TLS, framing, keep-alive, the two connections of a
  pool. It is modelled from how the handlers use it and may do more than the real
  one: lose or delay anything, fail at any time.

## Plan

Done: every component with its runs, the two contracts, the composition for demo
mode, and proofs of all safety and action properties. What may still be added,
in this order:

1. The composition for relay mode, whose parts share the thread and no state.
2. Response queue: the lemmas on `tick_send_response` that both handlers use,
   stated as a contract of the queue by itself.
3. For the sanitizer, that the panics on malformed data are gone once the code
   checks its offsets: `FailsOnMalformedOnly` then becomes "nothing panics".
