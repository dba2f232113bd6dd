---------------------------- MODULE MCSanitizer ----------------------------
(* Values for the constants of Sanitizer, for TLC.                         *)
EXTENDS Sanitizer

\* A word of a number below 2^24, an address told by its last byte.
Word(n) ==
  [i \in 1..WordLen |-> CASE i = 32 -> n % 256
                          [] i = 31 -> (n \div 256) % 256
                          [] i = 30 -> n \div 65536
                          [] OTHER  -> 0]

Account(n) == [NativeToken EXCEPT ![AddressLen] = n]

\* Each block, account and token has a balance of its own.
MCBalance(block, account, token) ==
  (IF block = "latest" THEN 0 ELSE 100) + 10 * account[AddressLen] + token[AddressLen]

\* Up to two users, up to two tokens, the native one and another.
UserLists  == BoundedSeq({Account(1), Account(2)}, 2)
TokenLists == BoundedSeq({NativeToken, Account(3)}, 2)

Padded(account) == [i \in 1..(WordLen - AddressLen) |-> 0] \o account

Encoded(list) ==
  Word(Len(list)) \o FlattenSeq([i \in DOMAIN list |-> Padded(list[i])])

\* The two arguments of balances(), one array behind the other.
Args(users, tokens) ==
  Word(64) \o Word(64 + Len(Encoded(users))) \o Encoded(users) \o Encoded(tokens)

\* Or the other way round, which is as good.
ArgsTurned(users, tokens) ==
  Word(64 + Len(Encoded(tokens))) \o Word(64) \o Encoded(tokens) \o Encoded(users)

Plain   == Args(<<Account(1), Account(2)>>, <<NativeToken>>)
OneUser == Args(<<Account(1)>>, <<NativeToken>>)

\* Followed by something, both arrays the same, one reaching into the other.
Unusual ==
  {Plain \o <<7>>,
   Word(64) \o Word(64) \o Encoded(<<NativeToken>>),
   Word(64) \o Word(128) \o Word(3) \o Padded(Account(1)) \o Encoded(<<NativeToken>>)}

\* What no contract could decode: some of it is passed on by the code, some of
\* it broken down, and some of it ends the process.
Malformed ==
  {<<>>, <<0>>, Word(0), Word(64),
   Word(1000) \o Word(64) \o Encoded(<<NativeToken>>),
   Word(64) \o Word(1000) \o Encoded(<<NativeToken>>),
   Word(128) \o Word(64) \o Encoded(<<NativeToken>>),
   Word(65) \o Word(128) \o Encoded(<<Account(1)>>) \o Encoded(<<NativeToken>>),
   SubSeq(OneUser, 1, Len(OneUser) - 1),
   SubSeq(OneUser, 1, Len(OneUser) - WordLen),
   Word(64) \o Word(128) \o Word(4) \o Padded(Account(1)) \o Encoded(<<NativeToken>>),
   Word(64) \o Word(128) \o Word(200000) \o Padded(Account(1)) \o Encoded(<<NativeToken>>),
   Word(64) \o Word(128) \o Word(1) \o [Word(1) EXCEPT ![12] = 1] \o Encoded(<<NativeToken>>)}

Call(method, to, block, sig, args) ==
  [id |-> 7, method |-> method, to |-> to, block |-> block, sig |-> sig, args |-> args]

Ask(args) == Call("eth_call", "checker", "latest", BalancesSig, args)

BalancesCalls ==
  {Ask(Args(us, ts)) : us \in UserLists, ts \in TokenLists}
    \cup {Ask(ArgsTurned(us, ts)) : us \in UserLists, ts \in TokenLists}
    \cup {Ask(args) : args \in Unusual \cup Malformed}
    \cup {Call("eth_call", "checker", "earlier", BalancesSig, Plain),
          Call("eth_call", "other", "latest", BalancesSig, Plain),
          Call("eth_call", "other", "latest", BalancesSig, SubSeq(Plain, 1, 100))}

OtherCalls ==
  {Call("eth_call", "other", "latest", "0x70a08231", Word(1)),
   Call("eth_call", "checker", "latest", NoData, <<>>),
   Call("eth_call", "other", "latest", CutOff, <<>>),
   Call("eth_getBalance", NoContract, "earlier", NoData, Account(2))}

MCRequests ==
  {Single(c) : c \in BalancesCalls \cup OtherCalls}
    \cup {[batch |-> TRUE, items |-> <<c, d>>] :
            c \in OtherCalls, d \in OtherCalls \cup {Ask(Plain), Ask(Word(64))}}
    \cup {[batch |-> TRUE, items |-> <<>>]}

Client(peer, host, cf, xff, ua) ==
  [peer |-> peer, host |-> host, cf |-> cf, xff |-> xff, ua |-> ua]

\* Direct, behind either proxy or both, and with nothing known.
MCClients ==
  {Client("1.1.1.1", "relay", Absent, Absent, "curl"),
   Client("9.9.9.9", "localhost", "1.1.1.1", Absent, Absent),
   Client("9.9.9.9", "relay", Absent, "1.1.1.1", "wallet"),
   Client("9.9.9.9", "relay", "1.1.1.1", "2.2.2.2", "wallet"),
   Client(Absent, Absent, Absent, Absent, Absent)}
=============================================================================
