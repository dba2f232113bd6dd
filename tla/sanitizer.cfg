CONSTANTS
  Methods = {"eth_call", "eth_getBalance"}
  Selectors = {"", "0x", "0xf0002ea9", "0x70a08231"}
  Contracts = {"none", "checker", "other"}
  Checkers = {"checker"}
  Blocks = {"latest", "earlier"}
  UsizeMax = 100000
  Balance <- MCBalance
  Requests <- MCRequests
  Clients <- MCClients
  Resolved = {"5.5.5.5"}
SPECIFICATION Spec
INVARIANTS
  TypeOK
  Transparent
  NoHalfAnswers
  FailsOnMalformedOnly
  RemoteCannotTellClients
  DetailsNameCalls
