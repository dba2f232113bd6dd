-------------------------- MODULE Sanitizer_proofs --------------------------
(***************************************************************************)
(* The sanitizer does what it promises for any requests, clients, host     *)
(* names and balances.  It keeps no state: the inductive invariant only    *)
(* says where a forwarded request and a reply come from and on what the    *)
(* process ends, and the properties are facts about the functions that     *)
(* made them.  The longest of them is that sol.rs decodes what is encoded  *)
(* as the ABI says, which is about bytes and offsets into them.            *)
(***************************************************************************)
EXTENDS Sanitizer, SequenceTheorems, WellFoundedInduction, TLAPS

-----------------------------------------------------------------------------
(* Numbers and sequences.                                                  *)

\* A set of natural numbers has a least element.
LEMMA Least ==
  ASSUME NEW T \in SUBSET Nat, T # {}
  PROVE  \E m \in T : \A k \in T : m <= k
<1>1. \E m \in T : \A k \in T : ~ (<<k, m>> \in OpToRel(<, Nat))
  BY NatLessThanWellFounded, WFMin, Zenon
<1>2. PICK m \in T : \A k \in T : ~ (<<k, m>> \in OpToRel(<, Nat))
  BY <1>1, Zenon
<1>3. \A k \in T : ~(k < m)
  BY <1>2 DEF OpToRel
<1> QED BY <1>3

\* A function on an initial segment is a sequence.
LEMMA FunctionsAreSequences ==
  ASSUME NEW S, NEW n \in Nat, NEW f \in [1..n -> S]
  PROVE  f \in Seq(S) /\ Len(f) = n
  OBVIOUS

\* What a piece of a sequence is.
LEMMA Piece ==
  ASSUME NEW S, NEW s \in Seq(S), NEW m \in Nat \ {0}, NEW n \in Nat,
         n <= Len(s), m <= n + 1
  PROVE  /\ SubSeq(s, m, n) \in Seq(S)
         /\ Len(SubSeq(s, m, n)) = n - m + 1
         /\ DOMAIN SubSeq(s, m, n) = 1..(n - m + 1)
         /\ \A i \in 1..(n - m + 1) : SubSeq(s, m, n)[i] = s[m + i - 1]
  OBVIOUS

\* A piece of a piece is a piece.
LEMMA PieceOfPiece ==
  ASSUME NEW S, NEW s \in Seq(S), NEW a \in Nat, NEW e \in Nat, a <= e, e <= Len(s),
         NEW m \in Nat \ {0}, NEW n \in Nat, m <= n + 1, a + n <= e
  PROVE  SubSeq(SubSeq(s, a + 1, e), m, n) = SubSeq(s, a + m, a + n)
<1> DEFINE t == SubSeq(s, a + 1, e)
<1>1. /\ t \in Seq(S) /\ Len(t) = e - a
      /\ \A i \in 1..(e - a) : t[i] = s[a + i]
  <2>1. a + 1 \in Nat \ {0} /\ a + 1 <= e + 1 /\ e - (a + 1) + 1 = e - a
    OBVIOUS
  <2>2. \A i \in 1..(e - a) : (a + 1) + i - 1 = a + i
    OBVIOUS
  <2> QED BY <2>1, <2>2, Piece
<1> HIDE DEF t
<1>2. /\ SubSeq(t, m, n) \in Seq(S)
      /\ DOMAIN SubSeq(t, m, n) = 1..(n - m + 1)
      /\ \A i \in 1..(n - m + 1) : SubSeq(t, m, n)[i] = t[m + i - 1]
  BY <1>1, Piece
<1>3. /\ SubSeq(s, a + m, a + n) \in Seq(S)
      /\ DOMAIN SubSeq(s, a + m, a + n) = 1..(n - m + 1)
      /\ \A i \in 1..(n - m + 1) : SubSeq(s, a + m, a + n)[i] = s[a + m + i - 1]
  <2>1. /\ a + m \in Nat \ {0} /\ a + n \in Nat /\ a + n <= Len(s)
        /\ a + m <= a + n + 1 /\ (a + n) - (a + m) + 1 = n - m + 1
    OBVIOUS
  <2>2. \A i \in 1..(n - m + 1) : (a + m) + i - 1 = a + m + i - 1
    OBVIOUS
  <2> QED BY <2>1, <2>2, Piece
<1>4. \A i \in 1..(n - m + 1) : t[m + i - 1] = s[a + m + i - 1]
  <2>1. TAKE i \in 1..(n - m + 1)
  <2>2. m + i - 1 \in 1..(e - a) /\ a + (m + i - 1) = a + m + i - 1
    OBVIOUS
  <2> QED BY <1>1, <2>2
<1>5. SubSeq(t, m, n) = SubSeq(s, a + m, a + n)
  <2>1. \A i \in 1..(n - m + 1) : SubSeq(t, m, n)[i] = SubSeq(s, a + m, a + n)[i]
    BY <1>2, <1>3, <1>4
  <2>2. Len(SubSeq(t, m, n)) = n - m + 1 /\ Len(SubSeq(s, a + m, a + n)) = n - m + 1
    BY <1>2, <1>3
  <2> QED BY <1>2, <1>3, <2>1, <2>2, SeqEqual
<1> QED BY <1>5 DEF t

-----------------------------------------------------------------------------
(* sol.rs.                                                                 *)

\* What the value of the first k bytes has to be, for a function of k.
IsValue(f, bytes, k) ==
  f = [n \in 0..k |-> IF n = 0 THEN 0 ELSE f[n - 1] * 256 + bytes[n]]

\* There is such a function, for any number of bytes.
LEMMA ValueExists ==
  ASSUME NEW bytes, NEW k \in Nat
  PROVE  \E f : IsValue(f, bytes, k)
<1> DEFINE T == {n \in Nat : ~ \E f : IsValue(f, bytes, n)}
<1> SUFFICES ASSUME T # {} PROVE FALSE
  OBVIOUS
<1>1. PICK m \in T : \A n \in T : m <= n
  <2>1. T \in SUBSET Nat
    OBVIOUS
  <2> HIDE DEF T
  <2> QED BY <2>1, Least
<1>2. m \in Nat /\ ~ \E f : IsValue(f, bytes, m)
  OBVIOUS
<1>3. CASE m = 0
  <2> DEFINE f == [n \in 0..0 |-> 0]
  <2>1. f = [n \in 0..0 |-> IF n = 0 THEN 0 ELSE f[n - 1] * 256 + bytes[n]]
    OBVIOUS
  <2> QED BY <1>2, <1>3, <2>1 DEF IsValue
<1>4. CASE m # 0
  <2>1. m - 1 \in Nat /\ m - 1 \notin T
    BY <1>1, <1>2, <1>4
  <2>2. PICK g : IsValue(g, bytes, m - 1)
    BY <2>1
  <2> DEFINE f == [n \in 0..m |-> IF n = m THEN g[m - 1] * 256 + bytes[m] ELSE g[n]]
  <2>3. \A n \in 0..m : f[n] = IF n = 0 THEN 0 ELSE f[n - 1] * 256 + bytes[n]
    <3>1. TAKE n \in 0..m
    <3>2. CASE n = m
      <4>1. n # 0 /\ n - 1 \in 0..m /\ n - 1 # m
        BY <1>2, <1>4, <3>2
      <4> QED BY <3>2, <4>1
    <3>3. CASE n # m
      <4>1. n \in 0..(m - 1)
        BY <1>2, <3>3
      <4>2. g[n] = IF n = 0 THEN 0 ELSE g[n - 1] * 256 + bytes[n]
        BY <2>2, <4>1 DEF IsValue
      <4>3. n # 0 => n - 1 \in 0..m /\ n - 1 # m
        BY <1>2, <4>1
      <4> QED BY <3>3, <4>2, <4>3
    <3> QED BY <3>2, <3>3
  <2>4. f = [n \in 0..m |-> f[n]]
    OBVIOUS
  <2> HIDE DEF f
  <2>5. f = [n \in 0..m |-> IF n = 0 THEN 0 ELSE f[n - 1] * 256 + bytes[n]]
    BY <2>3, <2>4
  <2> QED BY <1>2, <2>5 DEF IsValue
<1> QED BY <1>3, <1>4

\* So bytes are a number.
LEMMA NumberIsNat ==
  ASSUME NEW bytes \in Seq(Byte)
  PROVE  Number(bytes) \in Nat
<1> DEFINE L == Len(bytes)
           v == CHOOSE f : IsValue(f, bytes, L)
<1>1. Number(bytes) = v[L]
  BY DEF Number, IsValue
<1>2. L \in Nat
  OBVIOUS
<1>3. IsValue(v, bytes, L)
  BY <1>2, ValueExists
<1>4. \A n \in 0..L : v[n] = IF n = 0 THEN 0 ELSE v[n - 1] * 256 + bytes[n]
  BY <1>3 DEF IsValue
<1> HIDE DEF v
<1> DEFINE T == {n \in 0..L : v[n] \notin Nat}
<1>5. T = {}
  <2> SUFFICES ASSUME T # {} PROVE FALSE
    OBVIOUS
  <2>1. PICK m \in T : \A n \in T : m <= n
    <3>1. T \in SUBSET Nat
      BY <1>2
    <3> HIDE DEF T
    <3> QED BY <3>1, Least
  <2>2. m \in 0..L /\ v[m] \notin Nat
    OBVIOUS
  <2>3. m # 0
    BY <1>4, <2>2
  <2>4. m - 1 \in 0..L /\ m - 1 \notin T
    BY <1>2, <2>1, <2>2, <2>3
  <2>5. v[m - 1] \in Nat
    BY <2>4
  <2>6. bytes[m] \in Nat
    <3>1. m \in 1..L
      BY <1>2, <2>2, <2>3
    <3>2. bytes[m] \in Byte
      BY <3>1
    <3>3. \A b \in Byte : b \in Nat
      BY DEF Byte
    <3> QED BY <3>2, <3>3
  <2>7. v[m] = v[m - 1] * 256 + bytes[m]
    BY <1>4, <2>2, <2>3
  <2> HIDE DEF T
  <2> QED BY <2>2, <2>5, <2>6, <2>7
<1> QED BY <1>1, <1>2, <1>5

\* As many chunks as fit, and one more for what is left.
LEMMA ManyChunks ==
  ASSUME NEW data \in Seq(Byte)
  PROVE  /\ Len(Chunks(data)) \in Nat
         /\ DOMAIN Chunks(data) = 1..Len(Chunks(data))
         /\ WordLen * Len(Chunks(data)) >= Len(data)
         /\ Len(data) > 0 => WordLen * (Len(Chunks(data)) - 1) < Len(data)
         /\ \A i \in 1..Len(Chunks(data)) :
              Chunks(data)[i] = SubSeq(data, WordLen * (i - 1) + 1,
                                             AtMost(WordLen * i, Len(data)))
<1> DEFINE c == (Len(data) + WordLen - 1) \div WordLen
           chunk(i) == SubSeq(data, WordLen * (i - 1) + 1, AtMost(WordLen * i, Len(data)))
<1>1. \A x \in Nat : /\ (x + 31) \div 32 \in Nat
                     /\ 32 * ((x + 31) \div 32) >= x
                     /\ x > 0 => 32 * ((x + 31) \div 32 - 1) < x
  OBVIOUS
<1>2. /\ c \in Nat /\ WordLen * c >= Len(data)
      /\ Len(data) > 0 => WordLen * (c - 1) < Len(data)
  <2>1. Len(data) \in Nat /\ Len(data) + WordLen - 1 = Len(data) + 31
    BY DEF WordLen
  <2>2. c = (Len(data) + 31) \div 32
    BY <2>1 DEF WordLen
  <2> HIDE DEF c
  <2> QED BY <1>1, <2>1, <2>2 DEF WordLen
<1>3. Chunks(data) = [i \in 1..c |-> chunk(i)]
  BY DEF Chunks
<1> HIDE DEF c
<1>4. DOMAIN Chunks(data) = 1..c /\ \A i \in 1..c : Chunks(data)[i] = chunk(i)
  BY <1>3
<1> DEFINE S == {chunk(i) : i \in 1..c}
<1>5. [i \in 1..c |-> chunk(i)] \in [1..c -> S]
  OBVIOUS
<1> HIDE DEF S, chunk
<1>6. Len(Chunks(data)) = c
  BY <1>2, <1>3, <1>5, FunctionsAreSequences
<1> QED BY <1>2, <1>4, <1>6 DEF chunk

\* A chunk is a piece of the data, a whole word unless the data ends before.
LEMMA AChunk ==
  ASSUME NEW data \in Seq(Byte), NEW i \in 1..Len(Chunks(data))
  PROVE  /\ Chunks(data)[i] \in Seq(Byte)
         /\ Len(Chunks(data)[i]) <= WordLen
         /\ WordLen * i <= Len(data) =>
              /\ Len(Chunks(data)[i]) = WordLen
              /\ Chunks(data)[i] = SubSeq(data, WordLen * (i - 1) + 1, WordLen * i)
<1> DEFINE c == Len(Chunks(data))
           m == WordLen * (i - 1) + 1
           n == AtMost(WordLen * i, Len(data))
<1>1. /\ c \in Nat /\ WordLen * c >= Len(data)
      /\ Len(data) > 0 => WordLen * (c - 1) < Len(data)
      /\ Chunks(data)[i] = SubSeq(data, m, n)
  BY ManyChunks
<1>2. i \in Nat \ {0} /\ i <= c /\ Len(data) \in Nat
  BY <1>1
<1> HIDE DEF c
<1>3. Len(data) > 0 \/ c = 0
  <2>1. CASE Len(data) = 0
    <3>1. Len(Chunks(data)) = 0
      <4>1. (0 + 32 - 1) \div 32 = 0
        OBVIOUS
      <4>2. (Len(data) + WordLen - 1) \div WordLen = 0
        BY <2>1, <4>1 DEF WordLen
      <4>3. DOMAIN Chunks(data) = 1..0
        BY <4>2 DEF Chunks
      <4>4. 1..Len(Chunks(data)) = 1..0 /\ Len(Chunks(data)) \in Nat
        BY <4>3, ManyChunks
      <4>5. \A x \in Nat : 1..x = 1..0 => x = 0
        <5>1. TAKE x \in Nat
        <5>2. x # 0 => 1 \in 1..x /\ 1 \notin 1..0
          OBVIOUS
        <5> QED BY <5>2
      <4> QED BY <4>4, <4>5
    <3> QED BY <3>1 DEF c
  <2> QED BY <1>2, <2>1
<1>4. WordLen * (i - 1) < Len(data)
  BY <1>1, <1>2, <1>3 DEF WordLen
<1>5. /\ m \in Nat \ {0} /\ n \in Nat /\ n <= Len(data) /\ m <= n + 1
      /\ n - m + 1 <= WordLen
      /\ WordLen * i <= Len(data) => n = WordLen * i /\ n - m + 1 = WordLen
  BY <1>2, <1>4 DEF WordLen, AtMost
<1> HIDE DEF m, n
<1>6. SubSeq(data, m, n) \in Seq(Byte) /\ Len(SubSeq(data, m, n)) = n - m + 1
  BY <1>5, Piece
<1> QED BY <1>1, <1>5, <1>6 DEF m

\* There is a first chunk as soon as there is data, and it is a number.
LEMMA FirstChunk ==
  ASSUME NEW data \in Seq(Byte), data # <<>>
  PROVE  /\ Len(Chunks(data)) \in Nat \ {0}
         /\ DecodeUint256(data) \in Nat
         /\ Len(data) >= WordLen =>
              DecodeUint256(data) = Number(SubSeq(data, 1, WordLen))
<1>1. Len(data) \in Nat /\ Len(data) > 0
  OBVIOUS
<1>2. Len(Chunks(data)) \in Nat /\ WordLen * Len(Chunks(data)) >= Len(data)
  BY ManyChunks
<1>3. Len(Chunks(data)) \in Nat \ {0}
  BY <1>1, <1>2 DEF WordLen
<1>4. 1 \in 1..Len(Chunks(data))
  BY <1>3
<1>5. Chunks(data)[1] \in Seq(Byte)
  BY <1>4, AChunk
<1>6. WordLen * 1 = WordLen /\ WordLen * (1 - 1) + 1 = 1
  BY DEF WordLen
<1>7. Len(data) >= WordLen => Chunks(data)[1] = SubSeq(data, 1, WordLen)
  <2>1. HAVE Len(data) >= WordLen
  <2>2. WordLen * 1 <= Len(data)
    BY <1>1, <2>1 DEF WordLen
  <2> QED BY <1>4, <1>6, <2>2, AChunk
<1> QED BY <1>3, <1>5, <1>7, NumberIsNat DEF DecodeUint256

\* The elements that are taken are the chunks behind the first.
LEMMA TakenChunks ==
  ASSUME NEW data \in Seq(Byte), data # <<>>
  PROVE  LET k == AtMost(DecodeUint256(data), Len(Chunks(data)) - 1)
         IN  /\ k \in Nat /\ k < Len(Chunks(data))
             /\ Len(Taken(data)) = k /\ DOMAIN Taken(data) = 1..k
             /\ \A i \in 1..k : Taken(data)[i] = Chunks(data)[i + 1]
<1> DEFINE d == DecodeUint256(data)
           c == Len(Chunks(data))
           k == AtMost(d, c - 1)
           S == {Chunks(data)[i] : i \in 1..c}
<1>1. d \in Nat /\ c \in Nat \ {0}
  BY FirstChunk
<1>2. DOMAIN Chunks(data) = 1..c
  BY ManyChunks
<1>3. Chunks(data) = [i \in 1..c |-> Chunks(data)[i]]
  BY <1>2 DEF Chunks
<1>4. Chunks(data) \in Seq(S)
  <2>1. [i \in 1..c |-> Chunks(data)[i]] \in [1..c -> S]
    OBVIOUS
  <2> HIDE DEF S, c
  <2> QED BY <1>1, <1>3, <2>1, FunctionsAreSequences
<1>5. Taken(data) = SubSeq(Chunks(data), 2, AtMost(d + 1, c))
  BY DEF Taken
<1> HIDE DEF d, S
<1>6. /\ k \in Nat /\ k < c
      /\ AtMost(d + 1, c) = k + 1 /\ AtMost(d + 1, c) \in Nat
      /\ AtMost(d + 1, c) <= c
  BY <1>1 DEF AtMost
<1> DEFINE e == AtMost(d + 1, c)
<1>7. e \in Nat /\ e <= Len(Chunks(data)) /\ 2 <= e + 1 /\ e - 2 + 1 = k
  BY <1>6
<1> HIDE DEF e
<1>8. /\ Len(SubSeq(Chunks(data), 2, e)) = e - 2 + 1
      /\ DOMAIN SubSeq(Chunks(data), 2, e) = 1..(e - 2 + 1)
      /\ \A i \in 1..(e - 2 + 1) : SubSeq(Chunks(data), 2, e)[i] = Chunks(data)[2 + i - 1]
  BY <1>4, <1>7, Piece
<1>9. \A i \in 1..k : 2 + i - 1 = i + 1
  BY <1>6
<1> QED BY <1>5, <1>6, <1>7, <1>8, <1>9 DEF e, d

\* The last bytes of a word.
LEMMA LastBytes ==
  ASSUME NEW w \in Seq(Byte), NEW m \in Nat \ {0}, NEW k \in Nat, m + k = Len(w) + 1
  PROVE  SubSeq(w, m, Len(w)) \in [1..k -> Byte]
<1> DEFINE n == Len(w)
<1>1. n \in Nat /\ n <= Len(w) /\ m <= n + 1 /\ n - m + 1 = k
  OBVIOUS
<1> HIDE DEF n
<1>2. /\ SubSeq(w, m, n) \in Seq(Byte)
      /\ Len(SubSeq(w, m, n)) = n - m + 1
  BY <1>1, Piece
<1> DEFINE u == SubSeq(w, m, n)
<1>3. u \in Seq(Byte) /\ Len(u) = k
  BY <1>1, <1>2
<1> HIDE DEF u
<1>4. u \in [1..k -> Byte]
  BY <1>3
<1> QED BY <1>4 DEF u, n

\* Where it does not panic, a decoded array is a sequence of addresses.
LEMMA DecodedAreAddresses ==
  ASSUME NEW data \in Seq(Byte), ~ArrayPanics(data)
  PROVE  DecodeAddressArray(data) \in Seq(Address)
<1>1. CASE data = <<>>
  BY <1>1 DEF DecodeAddressArray
<1>2. CASE data # <<>>
  <2> DEFINE k == AtMost(DecodeUint256(data), Len(Chunks(data)) - 1)
  <2>1. /\ k \in Nat /\ k < Len(Chunks(data))
        /\ Len(Taken(data)) = k /\ DOMAIN Taken(data) = 1..k
        /\ \A i \in 1..k : Taken(data)[i] = Chunks(data)[i + 1]
    BY <1>2, TakenChunks
  <2> HIDE DEF k
  <2>2. \A i \in 1..k : SubSeq(Taken(data)[i], WordLen - AddressLen + 1, WordLen) \in Address
    <3> SUFFICES ASSUME NEW i \in 1..k
                 PROVE  SubSeq(Taken(data)[i], WordLen - AddressLen + 1, WordLen) \in Address
      OBVIOUS
    <3>1. Len(Chunks(data)) \in Nat
      BY ManyChunks
    <3>2. i + 1 \in 1..Len(Chunks(data))
      BY <2>1, <3>1
    <3>3. Taken(data)[i] \in Seq(Byte) /\ Len(Taken(data)[i]) <= WordLen
      BY <2>1, <3>2, AChunk
    <3>4. ~(Len(Taken(data)[i]) < WordLen)
      BY <1>2, <2>1 DEF ArrayPanics
    <3> DEFINE w == Taken(data)[i]
    <3>5. w \in Seq(Byte) /\ Len(w) <= WordLen /\ ~(Len(w) < WordLen)
      BY <3>3, <3>4
    <3> HIDE DEF w
    <3>6. Len(w) = 32
      <4>1. Len(w) \in Nat
        BY <3>5
      <4>2. \A x \in Nat : x <= WordLen /\ ~(x < WordLen) => x = 32
        BY DEF WordLen
      <4> QED BY <3>5, <4>1, <4>2
    <3>7. /\ WordLen - AddressLen + 1 \in Nat \ {0} /\ AddressLen \in Nat
          /\ WordLen - AddressLen + 1 + AddressLen = Len(w) + 1
          /\ WordLen = Len(w)
      BY <3>6 DEF WordLen, AddressLen
    <3>8. SubSeq(w, WordLen - AddressLen + 1, WordLen) \in [1..AddressLen -> Byte]
      BY <3>5, <3>7, LastBytes
    <3> QED BY <3>8 DEF Address, w
  <2>3. DecodeAddressArray(data) =
          [i \in 1..k |-> SubSeq(Taken(data)[i], WordLen - AddressLen + 1, WordLen)]
    BY <1>2, <2>1 DEF DecodeAddressArray
  <2>4. [i \in 1..k |-> SubSeq(Taken(data)[i], WordLen - AddressLen + 1, WordLen)]
          \in [1..k -> Address]
    BY <2>2
  <2> QED BY <2>1, <2>3, <2>4, FunctionsAreSequences
<1> QED BY <1>1, <1>2

\* What is behind an offset within the data.
LEMMA Behind ==
  ASSUME NEW data \in Seq(Byte), NEW offset \in Nat, offset <= Len(data)
  PROVE  /\ From(data, offset) \in Seq(Byte)
         /\ Len(From(data, offset)) = Len(data) - offset
         /\ \A m \in Nat \ {0}, n \in Nat :
              m <= n + 1 /\ offset + n <= Len(data) =>
                SubSeq(From(data, offset), m, n) = SubSeq(data, offset + m, offset + n)
<1>1. /\ offset + 1 \in Nat \ {0} /\ Len(data) \in Nat
      /\ offset + 1 <= Len(data) + 1 /\ Len(data) - (offset + 1) + 1 = Len(data) - offset
  OBVIOUS
<1>2. /\ From(data, offset) \in Seq(Byte)
      /\ Len(From(data, offset)) = Len(data) - offset
  <2> DEFINE m == offset + 1
             n == Len(data)
  <2>1. m \in Nat \ {0} /\ n \in Nat /\ n <= Len(data) /\ m <= n + 1
    OBVIOUS
  <2> HIDE DEF m, n
  <2>2. /\ SubSeq(data, m, n) \in Seq(Byte)
        /\ Len(SubSeq(data, m, n)) = n - m + 1
    BY <2>1, Piece
  <2> QED BY <1>1, <2>2 DEF From, m, n
<1>3. \A m \in Nat \ {0}, n \in Nat :
        m <= n + 1 /\ offset + n <= Len(data) =>
          SubSeq(SubSeq(data, offset + 1, Len(data)), m, n) = SubSeq(data, offset + m, offset + n)
  BY <1>1, PieceOfPiece
<1> QED BY <1>2, <1>3 DEF From

\* An array that is encoded as the ABI says, at any offset, is within the data
\* and is decoded to its elements.
LEMMA AbiArray ==
  ASSUME NEW args \in Seq(Byte), Len(args) <= UsizeMax,
         NEW p \in Nat, p + WordLen <= Len(args),
         NEW c \in Nat, c = Number(SubSeq(args, p + 1, p + WordLen)),
         p + WordLen * c + WordLen <= Len(args)
  PROVE  /\ ~SlicePanics(args, p)
         /\ DecodeAddressArray(From(args, p)) =
              [i \in 1..c |-> SubSeq(args, p + WordLen * i + WordLen - AddressLen + 1,
                                           p + WordLen * i + WordLen)]
<1> DEFINE data == From(args, p)
<1>1. Len(args) \in Nat /\ p <= Len(args) /\ UsizeMax \in Nat
  BY RequestsAreJsonrpc DEF WordLen
<1>2. /\ data \in Seq(Byte) /\ Len(data) = Len(args) - p
      /\ \A m \in Nat \ {0}, n \in Nat :
           m <= n + 1 /\ p + n <= Len(args) =>
             SubSeq(data, m, n) = SubSeq(args, p + m, p + n)
  BY <1>1, Behind
<1> HIDE DEF data
<1>3. data # <<>> /\ Len(data) >= WordLen /\ WordLen * c + WordLen <= Len(data)
  BY <1>1, <1>2 DEF WordLen
<1>4. DecodeUint256(data) = c
  <2>1. SubSeq(data, 1, WordLen) = SubSeq(args, p + 1, p + WordLen)
    <3>1. /\ 1 \in Nat \ {0} /\ WordLen \in Nat /\ 1 <= WordLen + 1
          /\ p + WordLen <= Len(args)
      BY DEF WordLen
    <3> QED BY <1>2, <3>1
  <2> QED BY <1>2, <1>3, <2>1, FirstChunk
<1>5. Len(Chunks(data)) \in Nat /\ c <= Len(Chunks(data)) - 1
  <2>1. Len(Chunks(data)) \in Nat /\ WordLen * Len(Chunks(data)) >= Len(data)
    BY <1>2, ManyChunks
  <2> QED BY <1>1, <1>2, <1>3, <2>1 DEF WordLen
<1>6. /\ Len(Taken(data)) = c /\ DOMAIN Taken(data) = 1..c
      /\ \A i \in 1..c : Taken(data)[i] = Chunks(data)[i + 1]
  <2>1. AtMost(c, Len(Chunks(data)) - 1) = c
    BY <1>5 DEF AtMost
  <2> QED BY <1>2, <1>3, <1>4, <2>1, TakenChunks
<1>7. ASSUME NEW i \in 1..c
      PROVE  /\ Len(Taken(data)[i]) = WordLen
             /\ SubSeq(Taken(data)[i], WordLen - AddressLen + 1, WordLen) =
                  SubSeq(args, p + WordLen * i + WordLen - AddressLen + 1,
                               p + WordLen * i + WordLen)
  <2>1. i \in Nat \ {0} /\ i <= c
    OBVIOUS
  <2>2. i + 1 \in 1..Len(Chunks(data))
    BY <1>5, <2>1
  <2>3. WordLen * (i + 1) <= Len(data)
    BY <1>2, <1>3, <2>1 DEF WordLen
  <2> DEFINE a == WordLen * i
             e == WordLen * i + WordLen
  <2>4. Len(Taken(data)[i]) = WordLen /\ Taken(data)[i] = SubSeq(data, a + 1, e)
    <3> DEFINE j == i + 1
    <3>1. /\ j \in 1..Len(Chunks(data)) /\ WordLen * j <= Len(data)
          /\ Taken(data)[i] = Chunks(data)[j]
      BY <1>6, <2>2, <2>3
    <3>2. WordLen * (j - 1) + 1 = a + 1 /\ WordLen * j = e
      BY <2>1 DEF WordLen
    <3> HIDE DEF j, a, e
    <3>3. /\ Len(Chunks(data)[j]) = WordLen
          /\ Chunks(data)[j] = SubSeq(data, WordLen * (j - 1) + 1, WordLen * j)
      BY <1>2, <3>1, AChunk
    <3> QED BY <3>1, <3>2, <3>3
  <2>5. /\ a \in Nat /\ e \in Nat /\ a <= e /\ e <= Len(data)
        /\ 13 \in Nat \ {0} /\ 32 \in Nat /\ 13 <= 32 + 1 /\ a + 32 <= e
        /\ a + 13 \in Nat \ {0} /\ a + 32 \in Nat /\ a + 13 <= a + 32 + 1
        /\ p + (a + 32) <= Len(args)
    BY <1>1, <1>2, <2>1, <2>3 DEF WordLen
  <2>6. /\ p + (a + 13) = p + WordLen * i + WordLen - AddressLen + 1
        /\ p + (a + 32) = p + WordLen * i + WordLen
        /\ WordLen - AddressLen + 1 = 13 /\ WordLen = 32
    BY <2>1 DEF WordLen, AddressLen
  <2> HIDE DEF a, e
  <2>7. SubSeq(SubSeq(data, a + 1, e), 13, 32) = SubSeq(data, a + 13, a + 32)
    BY <1>2, <2>5, PieceOfPiece
  <2>8. SubSeq(data, a + 13, a + 32) = SubSeq(args, p + (a + 13), p + (a + 32))
    BY <1>2, <2>5
  <2> QED BY <2>4, <2>6, <2>7, <2>8
<1>8. ~ArrayPanics(data)
  <2>1. ~(DecodeUint256(data) > UsizeMax)
    BY <1>1, <1>2, <1>3, <1>4 DEF WordLen
  <2>2. \A i \in 1..Len(Taken(data)) : ~(Len(Taken(data)[i]) < WordLen)
    <3> SUFFICES ASSUME NEW i \in 1..Len(Taken(data))
                 PROVE  ~(Len(Taken(data)[i]) < WordLen)
      OBVIOUS
    <3>1. Len(Taken(data)[i]) = WordLen
      BY <1>6, <1>7
    <3>2. ~(WordLen < WordLen)
      BY DEF WordLen
    <3> QED BY <3>1, <3>2
  <2> QED BY <2>1, <2>2 DEF ArrayPanics
<1>9. ~(p > Len(args))
  BY <1>1
<1>10. DecodeAddressArray(data) =
         [i \in 1..c |-> SubSeq(args, p + WordLen * i + WordLen - AddressLen + 1,
                                      p + WordLen * i + WordLen)]
  BY <1>3, <1>6, <1>7 DEF DecodeAddressArray
<1> QED BY <1>8, <1>9, <1>10 DEF data, SlicePanics

-----------------------------------------------------------------------------
(* The arguments of a call.                                                *)

\* Whatever the data, if the code does not panic on it the users are addresses,
\* and so are the tokens.
LEMMA ArgumentsAreAddresses ==
  ASSUME NEW args \in Seq(Byte), Len(args) > WordLen, ~ArgsPanic(args)
  PROVE  /\ Users(args) \in Seq(Address)
         /\ Tokens(args) \in Seq(Address)
<1>1. args # <<>> /\ Len(args) \in Nat /\ WordLen \in Nat /\ WordLen <= Len(args)
  BY DEF WordLen
<1>2. ~SlicePanics(args, UsersAt(args)) /\ ~SlicePanics(args, TokensAt(args))
  BY <1>1 DEF ArgsPanic
<1>3. UsersAt(args) \in Nat
  BY <1>1, FirstChunk DEF UsersAt
<1>4. TokensAt(args) \in Nat
  <2> DEFINE data == From(args, WordLen)
  <2>1. data \in Seq(Byte) /\ Len(data) = Len(args) - WordLen
    BY <1>1, Behind
  <2> HIDE DEF data
  <2>2. data # <<>>
    BY <1>1, <2>1
  <2>3. DecodeUint256(data) \in Nat
    BY <2>1, <2>2, FirstChunk
  <2> QED BY <2>3 DEF TokensAt, data
<1>5. ASSUME NEW offset \in Nat, ~SlicePanics(args, offset)
      PROVE  DecodeAddressArray(From(args, offset)) \in Seq(Address)
  <2>1. offset <= Len(args) /\ ~ArrayPanics(From(args, offset))
    BY <1>1, <1>5 DEF SlicePanics
  <2>2. From(args, offset) \in Seq(Byte)
    BY <2>1, Behind
  <2> QED BY <2>1, <2>2, DecodedAreAddresses
<1> QED BY <1>2, <1>3, <1>4, <1>5 DEF Users, Tokens

\* The length of an array is a number.
LEMMA CountIsNat ==
  ASSUME NEW args \in Seq(Byte), WellFormed(args), NEW k \in {1, 2}
  PROVE  Start(args, k) \in Nat /\ Count(args, k) \in Nat
<1>1. Len(args) \in Nat /\ Len(args) >= 2 * WordLen /\ WordLen \in Nat
  BY DEF WellFormed, WordLen
<1>2. ASSUME NEW p \in Nat, p + WordLen <= Len(args)
      PROVE  Number(SubSeq(args, p + 1, p + WordLen)) \in Nat
  <2> DEFINE m == p + 1
             n == p + WordLen
  <2>1. m \in Nat \ {0} /\ n \in Nat /\ n <= Len(args) /\ m <= n + 1
    BY <1>1, <1>2 DEF WordLen
  <2> HIDE DEF m, n
  <2>2. SubSeq(args, m, n) \in Seq(Byte)
    BY <2>1, Piece
  <2>3. Number(SubSeq(args, m, n)) \in Nat
    BY <2>2, NumberIsNat
  <2> QED BY <2>3 DEF m, n
<1>3. Start(args, k) \in Nat
  <2>1. WordLen * (k - 1) \in Nat /\ WordLen * (k - 1) + WordLen <= Len(args)
    BY <1>1 DEF WordLen
  <2> QED BY <1>2, <2>1 DEF Start, Uint
<1>4. Start(args, k) + WordLen <= Len(args)
  BY DEF WellFormed
<1>5. Count(args, k) \in Nat
  BY <1>2, <1>3, <1>4 DEF Count, Uint
<1> QED BY <1>3, <1>5

\* What a contract can decode the code takes apart in the same way, and does not
\* panic on.
LEMMA AbiArguments ==
  ASSUME NEW args \in Seq(Byte), Len(args) <= UsizeMax, WellFormed(args)
  PROVE  /\ Len(args) > WordLen
         /\ ~ArgsPanic(args)
         /\ Users(args) = Argument(args, 1)
         /\ Tokens(args) = Argument(args, 2)
<1>1. /\ Len(args) \in Nat /\ Len(args) >= 2 * WordLen
      /\ args # <<>> /\ Len(args) >= WordLen /\ ~(Len(args) < WordLen)
      /\ Len(args) > WordLen
  BY DEF WellFormed, WordLen
<1>2. UsersAt(args) = Start(args, 1) /\ UsersAt(args) \in Nat
  <2>1. WordLen * (1 - 1) = 0 /\ 0 + 1 = 1 /\ 0 + WordLen = WordLen
    BY DEF WordLen
  <2> QED BY <1>1, <2>1, FirstChunk DEF UsersAt, Start, Uint
<1>3. TokensAt(args) = Start(args, 2) /\ TokensAt(args) \in Nat
  <2> DEFINE data == From(args, WordLen)
  <2>1. /\ data \in Seq(Byte) /\ Len(data) = Len(args) - WordLen
        /\ SubSeq(data, 1, WordLen) = SubSeq(args, WordLen + 1, WordLen + WordLen)
    <3>1. /\ WordLen \in Nat /\ WordLen <= Len(args) /\ 1 \in Nat \ {0}
          /\ 1 <= WordLen + 1 /\ WordLen + WordLen <= Len(args)
      BY <1>1 DEF WordLen
    <3> QED BY <3>1, Behind
  <2> HIDE DEF data
  <2>2. data # <<>> /\ Len(data) >= WordLen
    <3>1. Len(data) >= WordLen /\ Len(data) # 0
      <4>1. Len(data) = Len(args) - WordLen
        BY <2>1
      <4>2. \A x, y \in Nat : x = y - WordLen /\ y >= 2 * WordLen => x >= WordLen /\ x # 0
        BY DEF WordLen
      <4>3. Len(data) \in Nat
        BY <2>1
      <4> QED BY <1>1, <4>1, <4>2, <4>3
    <3> QED BY <3>1
  <2>3. /\ DecodeUint256(data) \in Nat
        /\ DecodeUint256(data) = Number(SubSeq(args, WordLen + 1, WordLen + WordLen))
    BY <2>1, <2>2, FirstChunk
  <2>4. WordLen * (2 - 1) = WordLen
    BY DEF WordLen
  <2> QED BY <2>3, <2>4 DEF TokensAt, Start, Uint, data
<1>4. ASSUME NEW k \in {1, 2}, Start(args, k) \in Nat
      PROVE  /\ ~SlicePanics(args, Start(args, k))
             /\ DecodeAddressArray(From(args, Start(args, k))) = Argument(args, k)
  <2> DEFINE p == Start(args, k)
             c == Count(args, k)
  <2>1. /\ p \in Nat /\ p + WordLen <= Len(args)
        /\ p + WordLen * c + WordLen <= Len(args)
    BY <1>4 DEF WellFormed, Element
  <2>2. c = Number(SubSeq(args, p + 1, p + WordLen))
    BY DEF Count, Uint
  <2>3. c \in Nat
    BY CountIsNat
  <2>4. Argument(args, k) =
          [i \in 1..c |-> SubSeq(args, p + WordLen * i + WordLen - AddressLen + 1,
                                       p + WordLen * i + WordLen)]
    BY DEF Argument, Element
  <2> HIDE DEF p, c
  <2>5. /\ ~SlicePanics(args, p)
        /\ DecodeAddressArray(From(args, p)) = Argument(args, k)
    BY <2>1, <2>2, <2>3, <2>4, AbiArray
  <2> QED BY <2>5 DEF p
<1>5. /\ ~SlicePanics(args, UsersAt(args)) /\ ~SlicePanics(args, TokensAt(args))
      /\ Users(args) = Argument(args, 1) /\ Tokens(args) = Argument(args, 2)
  BY <1>2, <1>3, <1>4 DEF Users, Tokens
<1> QED BY <1>1, <1>5 DEF ArgsPanic

-----------------------------------------------------------------------------
(* What the protections make of a request.                                 *)

Balances(users) ==
  [batch |-> TRUE, items |-> [i \in DOMAIN users |-> GetBalance(i, users[i])]]

\* A request that is broken down is single, and its users are addresses.
LEMMA BrokenDown ==
  ASSUME NEW q \in Requests, BreaksDown(q), ~Panics(q)
  PROVE  /\ q.batch = FALSE
         /\ q.items \in Seq(Item) /\ Len(q.items) = 1
         /\ q.items[1] \in Item
         /\ IsBalancesCall(q.items[1])
         /\ Users(q.items[1].args) \in Seq(Address)
         /\ Tokens(q.items[1].args) \in Seq(Address)
         /\ Tokens(q.items[1].args) # <<>>
         /\ Tokens(q.items[1].args)[1] = NativeToken
<1>1. /\ q.batch = FALSE
      /\ q.items \in Seq(Item) /\ Len(q.items) = 1
  BY RequestsAreJsonrpc DEF BreaksDown
<1>2. q.items[1] \in Item
  BY <1>1
<1>3. /\ q.items[1].args \in Seq(Byte)
      /\ Len(q.items[1].args) > WordLen
      /\ ~ArgsPanic(q.items[1].args)
  <2>1. q.items[1].args \in Seq(Byte)
    BY <1>2 DEF Item
  <2> QED BY <2>1 DEF BreaksDown, Panics, IsBalancesCall
<1>4. /\ Users(q.items[1].args) \in Seq(Address)
      /\ Tokens(q.items[1].args) \in Seq(Address)
  BY <1>3, ArgumentsAreAddresses
<1> QED BY <1>1, <1>2, <1>4 DEF BreaksDown

\* What the client calls is data in bytes, which a usize can count.
LEMMA ArgsOfRequest ==
  ASSUME NEW q \in Requests, q.batch = FALSE
  PROVE  q.items[1].args \in Seq(Byte) /\ Len(q.items[1].args) <= UsizeMax
<1>1. q.items \in Seq(Item) /\ Len(q.items) = 1
  BY RequestsAreJsonrpc
<1>2. q.items[1] \in Item /\ 1 \in DOMAIN q.items
  BY <1>1
<1>3. q.items[1] \in Range(q.items)
  BY <1>2 DEF Range
<1> QED BY <1>2, <1>3, RequestsAreJsonrpc DEF Item

\* Appending to no element and to one.
LEMMA ShortLists ==
  ASSUME NEW x, NEW y
  PROVE  /\ Len(Append(<<>>, y)) = 1 /\ DOMAIN Append(<<>>, y) = {1}
         /\ Append(<<>>, y)[1] = y
         /\ Len(Append(<<x>>, y)) = 2 /\ DOMAIN Append(<<x>>, y) = {1, 2}
         /\ Append(<<x>>, y)[1] = x /\ Append(<<x>>, y)[2] = y
<1> DEFINE S == {x, y}
<1>1. /\ <<>> \in Seq(S) /\ <<x>> \in Seq(S)
      /\ x \in S /\ y \in S
  OBVIOUS
<1>2. 1..2 = {1, 2} /\ 1..1 = {1}
  OBVIOUS
<1> QED BY <1>1, <1>2

\* The steps of sanitizing, as records.
LEMMA SanitizedRecord ==
  ASSUME NEW q, NEW client, NEW found
  PROVE  LET users == Users(q.items[1].args)
             prot  == IF BreaksDown(q)
                      THEN [original_ids |-> [i \in DOMAIN q.items |-> q.items[i].id],
                            req_body |-> Balances(users),
                            tr |-> Append(<<>>, AccountRelationship(users))]
                      ELSE [original_ids |-> [i \in DOMAIN q.items |-> q.items[i].id],
                            req_body |-> q, tr |-> <<>>]
         IN  Sanitized(q, client, found) =
               [original_ids |-> prot.original_ids, req_body |-> prot.req_body,
                tr |-> Append(prot.tr, Metadata(client, found))]
<1> DEFINE users == Users(q.items[1].args)
           new   == NewSanitizedRequest(q)
           prot  == ProtectAccountRelationship(new)
<1>1. new = [original_ids |-> [i \in DOMAIN q.items |-> q.items[i].id],
             req_body |-> q, tr |-> <<>>]
  BY DEF NewSanitizedRequest
<1>2. ~BreaksDown(q) => prot = new
  BY <1>1 DEF ProtectAccountRelationship
<1>3. BreaksDown(q) =>
        prot = [original_ids |-> [i \in DOMAIN q.items |-> q.items[i].id],
                req_body |-> Balances(users),
                tr |-> Append(<<>>, AccountRelationship(users))]
  <2>1. HAVE BreaksDown(q)
  <2>2. prot = [new EXCEPT !.req_body = Balances(users),
                           !.tr = Append(@, AccountRelationship(users))]
    BY <1>1, <2>1 DEF ProtectAccountRelationship, Balances
  <2> HIDE DEF users, prot, new
  <2> QED BY <1>1, <2>2
<1>4. Sanitized(q, client, found) = [prot EXCEPT !.tr = Append(@, Metadata(client, found))]
  BY DEF Sanitized, ProtectMetadata
<1> HIDE DEF new, prot
<1> QED BY <1>1, <1>2, <1>3, <1>4

\* What is asked in place of the request.
LEMMA SanitizedBody ==
  ASSUME NEW q, NEW client, NEW found
  PROVE  Sanitized(q, client, found).req_body =
           IF BreaksDown(q) THEN Balances(Users(q.items[1].args)) ELSE q
  BY SanitizedRecord

\* Its ids are kept.
LEMMA SanitizedIds ==
  ASSUME NEW q, NEW client, NEW found
  PROVE  Sanitized(q, client, found).original_ids =
           [i \in DOMAIN q.items |-> q.items[i].id]
  BY SanitizedRecord

\* The transforms that are noted.
LEMMA SanitizedTransforms ==
  ASSUME NEW q, NEW client, NEW found
  PROVE  LET tr == Sanitized(q, client, found).tr
         IN  /\ BreaksDown(q) =>
                  /\ Len(tr) = 2 /\ DOMAIN tr = {1, 2}
                  /\ tr[1] = AccountRelationship(Users(q.items[1].args))
                  /\ tr[2] = Metadata(client, found)
             /\ ~BreaksDown(q) =>
                  /\ Len(tr) = 1 /\ DOMAIN tr = {1}
                  /\ tr[1] = Metadata(client, found)
<1> DEFINE tr == Sanitized(q, client, found).tr
<1>1. BreaksDown(q) =>
        tr = Append(Append(<<>>, AccountRelationship(Users(q.items[1].args))),
                    Metadata(client, found))
  BY SanitizedRecord
<1>2. ~BreaksDown(q) => tr = Append(<<>>, Metadata(client, found))
  BY SanitizedRecord
<1> HIDE DEF tr
<1>3. \A x : Append(<<>>, x) = <<x>>
  OBVIOUS
<1>4. BreaksDown(q) =>
        /\ Len(tr) = 2 /\ DOMAIN tr = {1, 2}
        /\ tr[1] = AccountRelationship(Users(q.items[1].args))
        /\ tr[2] = Metadata(client, found)
  BY <1>1, <1>3, ShortLists
<1>5. ~BreaksDown(q) =>
        /\ Len(tr) = 1 /\ DOMAIN tr = {1}
        /\ tr[1] = Metadata(client, found)
  BY <1>2, ShortLists
<1> QED BY <1>4, <1>5 DEF tr

\* A request counts as broken down when its transforms say so.
LEMMA SaysBrokenDown ==
  ASSUME NEW q, NEW client, NEW found, NEW sr, sr = Sanitized(q, client, found)
  PROVE  IsAccountRelationship(sr) <=> BreaksDown(q)
<1>1. Metadata(client, found).type = "metadata"
  BY DEF Metadata
<1>2. \A users : AccountRelationship(users).type = "accountRelationship"
  BY DEF AccountRelationship
<1>3. CASE BreaksDown(q)
  <2>1. /\ 1 \in DOMAIN sr.tr
        /\ sr.tr[1] = AccountRelationship(Users(q.items[1].args))
    BY <1>3, SanitizedTransforms
  <2> QED BY <1>2, <1>3, <2>1 DEF IsAccountRelationship, Range
<1>4. CASE ~BreaksDown(q)
  <2>1. \A i \in DOMAIN sr.tr : sr.tr[i] = Metadata(client, found)
    BY <1>4, SanitizedTransforms
  <2> QED BY <1>1, <1>4, <2>1 DEF IsAccountRelationship, Range
<1> QED BY <1>3, <1>4

\* The remote reads the protected side of the metadata, whatever else was noted.
LEMMA UserAgentIsMasked ==
  ASSUME NEW q, NEW client, NEW found, NEW sr, sr = Sanitized(q, client, found)
  PROVE  UserAgent(sr) = "1rpc-demo/0.1"
<1>1. /\ Metadata(client, found).type = "metadata"
      /\ Metadata(client, found).protected.ua = "1rpc-demo/0.1"
  BY DEF Metadata
<1>2. \A users : AccountRelationship(users).type = "accountRelationship"
  BY DEF AccountRelationship
<1> DEFINE I == {i \in 1..Len(sr.tr) : sr.tr[i].type = "metadata"}
<1>3. SelectInSeq(sr.tr, LAMBDA t : t.type = "metadata") = IF I # {} THEN Min(I) ELSE 0
  BY DEF SelectInSeq
<1>4. \A n \in Nat : Min({n}) = n
  BY DEF Min
<1>5. CASE BreaksDown(q)
  <2>1. /\ Len(sr.tr) = 2
        /\ sr.tr[1] = AccountRelationship(Users(q.items[1].args))
        /\ sr.tr[2] = Metadata(client, found)
    BY <1>5, SanitizedTransforms
  <2>2. 1..2 = {1, 2}
    OBVIOUS
  <2>3. I = {2}
    BY <1>1, <1>2, <2>1, <2>2
  <2>4. FirstMetadata(sr) = Metadata(client, found)
    BY <1>3, <1>4, <2>1, <2>3 DEF FirstMetadata
  <2> QED BY <1>1, <2>4 DEF UserAgent
<1>6. CASE ~BreaksDown(q)
  <2>1. Len(sr.tr) = 1 /\ sr.tr[1] = Metadata(client, found)
    BY <1>6, SanitizedTransforms
  <2>2. I = {1}
    BY <1>1, <2>1
  <2>3. FirstMetadata(sr) = Metadata(client, found)
    BY <1>3, <1>4, <2>1, <2>2 DEF FirstMetadata
  <2> QED BY <1>1, <2>3 DEF UserAgent
<1> QED BY <1>5, <1>6

-----------------------------------------------------------------------------
(* What the remote answers, and what is read from it.                      *)

\* The latest balances of the users, a word each.
Held(users) == [i \in DOMAIN users |-> Balance("latest", users[i], NativeToken)]

\* What is asked for one user.
LEMMA BalanceRequest ==
  ASSUME NEW i \in Int, i - 1 \in Nat, NEW account \in Address
  PROVE  /\ GetBalance(i, account) \in Item
         /\ GetBalance(i, account).id = i - 1
         /\ GetBalance(i, account).method = "eth_getBalance"
         /\ GetBalance(i, account).block = "latest"
         /\ GetBalance(i, account).args = account
<1>1. account \in Seq(Byte)
  <2>1. AddressLen \in Nat
    BY DEF AddressLen
  <2> QED BY <2>1, FunctionsAreSequences DEF Address
<1>2. GetBalance(i, account) \in Item
  BY <1>1, NamesExist DEF GetBalance, Item
<1> QED BY <1>2 DEF GetBalance

\* The batch that is asked in place of a call: one item per user.
LEMMA BalancesBody ==
  ASSUME NEW users \in Seq(Address)
  PROVE  /\ Balances(users).batch = TRUE
         /\ DOMAIN Balances(users).items = 1..Len(users)
         /\ Len(Balances(users).items) = Len(users)
         /\ Balances(users).items \in Seq(Item)
         /\ \A i \in 1..Len(users) :
              /\ Balances(users).items[i].id = i - 1
              /\ Balances(users).items[i].method = "eth_getBalance"
              /\ Balances(users).items[i].block = "latest"
              /\ Balances(users).items[i].args = users[i]
<1> DEFINE items == [i \in DOMAIN users |-> GetBalance(i, users[i])]
<1>1. Balances(users) = [batch |-> TRUE, items |-> items]
  BY DEF Balances
<1>2. DOMAIN users = 1..Len(users) /\ Len(users) \in Nat
  OBVIOUS
<1>3. \A i \in 1..Len(users) :
        /\ GetBalance(i, users[i]) \in Item
        /\ GetBalance(i, users[i]).id = i - 1
        /\ GetBalance(i, users[i]).method = "eth_getBalance"
        /\ GetBalance(i, users[i]).block = "latest"
        /\ GetBalance(i, users[i]).args = users[i]
  <2>1. TAKE i \in 1..Len(users)
  <2>2. users[i] \in Address /\ i - 1 \in Nat /\ i \in Int
    OBVIOUS
  <2> QED BY <2>2, BalanceRequest
<1>4. items \in [1..Len(users) -> Item]
  BY <1>2, <1>3
<1>5. \A i \in 1..Len(users) : items[i] = GetBalance(i, users[i])
  BY <1>2
<1> HIDE DEF items
<1>6. items \in Seq(Item) /\ Len(items) = Len(users) /\ DOMAIN items = 1..Len(users)
  BY <1>2, <1>4, FunctionsAreSequences
<1>7. /\ Balances(users).batch = TRUE
      /\ Balances(users).items = items
  BY <1>1
<1>8. \A i \in 1..Len(users) :
        /\ items[i].id = i - 1
        /\ items[i].method = "eth_getBalance"
        /\ items[i].block = "latest"
        /\ items[i].args = users[i]
  BY <1>3, <1>5
<1> QED BY <1>6, <1>7, <1>8

\* An answer has as many items as were asked for, at least one.
LEMMA TrueAnswerItems ==
  ASSUME NEW body, NEW n \in Nat, DOMAIN body.items = 1..n, body.items # <<>>
  PROVE  /\ TrueAnswer(body).batch = body.batch
         /\ DOMAIN TrueAnswer(body).items = 1..n
         /\ \A i \in 1..n :
              /\ TrueAnswer(body).items[i].id = body.items[i].id
              /\ TrueAnswer(body).items[i].ok = TRUE
              /\ TrueAnswer(body).items[i].result = Result(body.items[i])
  BY DEF TrueAnswer

\* To an empty batch it has one, an error.
LEMMA EmptyAnswer ==
  ASSUME NEW body, body.items = <<>>
  PROVE  TrueAnswer(body) = Single(Error(NoId))
  BY DEF TrueAnswer

\* A function on 1..1 is a list of one element.
LEMMA OneElement ==
  ASSUME NEW f, f = [i \in 1..1 |-> f[i]]
  PROVE  f = <<f[1]>>
<1>1. DOMAIN <<f[1]>> = 1..1 /\ <<f[1]>>[1] = f[1]
  OBVIOUS
<1>2. DOMAIN f = 1..1 /\ \A i \in 1..1 : i = 1
  OBVIOUS
<1> QED BY <1>1, <1>2

\* It is never something that cannot be parsed.
LEMMA TrueAnswerParsable ==
  ASSUME NEW body, body.items \in Seq(Item)
  PROVE  TrueAnswer(body) # Unparsable
<1> DEFINE answer == TrueAnswer(body)
<1> SUFFICES DOMAIN answer.items # {}
  BY DEF Unparsable
<1>1. CASE body.items = <<>>
  <2>1. /\ Single(Error(NoId)).items = <<Error(NoId)>>
        /\ DOMAIN <<Error(NoId)>> = 1..1
    BY DEF Single
  <2>2. answer = Single(Error(NoId))
    BY <1>1, EmptyAnswer
  <2> HIDE DEF answer
  <2>3. 1 \in DOMAIN answer.items
    BY <2>1, <2>2
  <2> QED BY <2>3
<1>2. CASE body.items # <<>>
  <2>1. DOMAIN body.items = 1..Len(body.items) /\ Len(body.items) \in Nat \ {0}
    BY <1>2
  <2>2. DOMAIN answer.items = 1..Len(body.items)
    BY <1>2, <2>1, TrueAnswerItems
  <2>3. 1 \in DOMAIN answer.items
    BY <2>1, <2>2
  <2> HIDE DEF answer
  <2> QED BY <2>3
<1> QED BY <1>1, <1>2

\* For one token the table of the contract is the list of balances.
LEMMA TableOfOneToken ==
  ASSUME NEW users \in Seq(Address), NEW tokens \in Seq(Address),
         Len(tokens) = 1, tokens[1] = NativeToken
  PROVE  BalanceTable("latest", users, tokens) = Held(users)
<1>1. DOMAIN users = 1..Len(users) /\ Len(users) * Len(tokens) = Len(users)
  OBVIOUS
<1>2. \A k \in 1..Len(users) : ((k - 1) \div 1) + 1 = k /\ ((k - 1) % 1) + 1 = 1
  OBVIOUS
<1> QED BY <1>1, <1>2 DEF BalanceTable, Held

\* What the remote would have answered to a call that is broken down.
LEMMA TrueAnswerToCall ==
  ASSUME NEW q \in Requests, BreaksDown(q), ~Panics(q), Meant(q)
  PROVE  TrueAnswer(q) = AllBalances(q)
<1> DEFINE item   == q.items[1]
           answer == [id |-> item.id, ok |-> TRUE,
                      result |-> EncodeUint256Array(Held(Users(item.args)))]
<1>1. /\ q.batch = FALSE
      /\ q.items \in Seq(Item) /\ Len(q.items) = 1
      /\ IsBalancesCall(item)
      /\ Users(item.args) \in Seq(Address)
      /\ Tokens(item.args) \in Seq(Address)
      /\ Tokens(item.args)[1] = NativeToken
  BY BrokenDown
<1>2. AsksChecker(item) /\ item.block = "latest" /\ Count(item.args, 2) = 1
  BY DEF Meant
<1>3. /\ Users(item.args) = Argument(item.args, 1)
      /\ Tokens(item.args) = Argument(item.args, 2)
  <2>1. item.args \in Seq(Byte) /\ Len(item.args) <= UsizeMax
    BY <1>1, ArgsOfRequest
  <2>2. WellFormed(item.args)
    BY <1>2 DEF AsksChecker
  <2> HIDE DEF item
  <2> QED BY <2>1, <2>2, AbiArguments
<1> HIDE DEF item
<1>4. Result(item) = EncodeUint256Array(Held(Users(item.args)))
  <2>1. DOMAIN Tokens(item.args) = 1..1
    BY <1>2, <1>3 DEF Argument
  <2>2. Len(Tokens(item.args)) = 1
    BY <1>1, <2>1
  <2>3. BalanceTable("latest", Users(item.args), Tokens(item.args)) = Held(Users(item.args))
    BY <1>1, <2>2, TableOfOneToken
  <2>4. item.method # "eth_getBalance"
    BY <1>1 DEF IsBalancesCall
  <2> QED BY <1>2, <1>3, <2>3, <2>4 DEF Result
<1>5. TrueAnswer(q) =
        [batch |-> q.batch,
         items |-> [i \in 1..1 |-> [id |-> q.items[i].id, ok |-> TRUE,
                                    result |-> Result(q.items[i])]]]
  <2>1. q.items # <<>> /\ DOMAIN q.items = 1..1
    <3>1. \A s \in Seq(Item) : Len(s) = 1 => s # <<>> /\ DOMAIN s = 1..1
      OBVIOUS
    <3> QED BY <1>1, <3>1
  <2> QED BY <2>1 DEF TrueAnswer
<1> DEFINE items == [i \in 1..1 |-> [id |-> q.items[i].id, ok |-> TRUE,
                                     result |-> Result(q.items[i])]]
<1>6. DOMAIN items = 1..1 /\ items[1] = answer
  <2>1. items[1] = [id |-> q.items[1].id, ok |-> TRUE, result |-> Result(q.items[1])]
    OBVIOUS
  <2>2. answer = [id |-> q.items[1].id, ok |-> TRUE, result |-> Result(q.items[1])]
    BY <1>4 DEF item
  <2> QED BY <2>1, <2>2
<1>7. items = [i \in 1..1 |-> items[i]]
  OBVIOUS
<1> HIDE DEF items
<1>8. items = <<items[1]>>
  BY <1>7, OneElement
<1>9. AllBalances(q) = Single(answer)
  BY DEF AllBalances, Held, item
<1> QED BY <1>1, <1>5, <1>6, <1>8, <1>9 DEF Single, items, item

\* An answer has these two fields.
LEMMA AnswerRecord ==
  ASSUME NEW body
  PROVE  TrueAnswer(body) = [batch |-> TrueAnswer(body).batch,
                             items |-> TrueAnswer(body).items]
  BY DEF TrueAnswer, Single

\* The answers to a batch of balances, for at least one user.
LEMMA TrueBalances ==
  ASSUME NEW users \in Seq(Address), users # <<>>
  PROVE  LET true == TrueAnswer(Balances(users))
         IN  /\ true.batch = TRUE
             /\ DOMAIN true.items = 1..Len(users)
             /\ \E S : true.items \in Seq(S)
             /\ Len(true.items) = Len(users)
             /\ \A i \in 1..Len(users) :
                  /\ true.items[i].ok = TRUE
                  /\ true.items[i].id = i - 1
                  /\ true.items[i].result = <<Balance("latest", users[i], NativeToken)>>
<1> DEFINE body == Balances(users)
           true == TrueAnswer(body)
           n    == Len(users)
<1>1. /\ body.batch = TRUE /\ n \in Nat \ {0}
      /\ DOMAIN body.items = 1..n
      /\ \A i \in 1..n : /\ body.items[i].id = i - 1
                        /\ body.items[i].method = "eth_getBalance"
                        /\ body.items[i].block = "latest"
                        /\ body.items[i].args = users[i]
  <2>1. n \in Nat \ {0}
    OBVIOUS
  <2>2. body.batch = TRUE /\ DOMAIN body.items = 1..n
    BY BalancesBody
  <2>3. ASSUME NEW i \in 1..n
        PROVE  /\ body.items[i].id = i - 1
               /\ body.items[i].method = "eth_getBalance"
               /\ body.items[i].block = "latest"
               /\ body.items[i].args = users[i]
    BY BalancesBody, Zenon
  <2> HIDE DEF body, n
  <2> QED BY <2>1, <2>2, <2>3
<1>2. body.items # <<>>
  BY <1>1
<1> HIDE DEF body
<1>3. \A i \in 1..n : Result(body.items[i]) = <<Balance("latest", users[i], NativeToken)>>
  BY <1>1 DEF Result
<1>4. /\ true.batch = TRUE
      /\ DOMAIN true.items = 1..n
      /\ \A i \in 1..n :
           /\ true.items[i].ok = TRUE
           /\ true.items[i].id = body.items[i].id
           /\ true.items[i].result = Result(body.items[i])
  BY <1>1, <1>2, TrueAnswerItems
<1>5. true.items = [i \in 1..n |-> true.items[i]]
  <2>1. true = [batch |-> body.batch,
                items |-> [i \in DOMAIN body.items |->
                             [id |-> body.items[i].id, ok |-> TRUE,
                              result |-> Result(body.items[i])]]]
    BY <1>2 DEF TrueAnswer
  <2>2. true.items = [i \in DOMAIN body.items |->
                        [id |-> body.items[i].id, ok |-> TRUE,
                         result |-> Result(body.items[i])]]
    BY <2>1
  <2> QED BY <1>1, <2>2
<1> HIDE DEF true
<1> DEFINE S == {true.items[i] : i \in 1..n}
<1>6. [i \in 1..n |-> true.items[i]] \in [1..n -> S]
  OBVIOUS
<1> HIDE DEF S
<1>7. true.items \in Seq(S) /\ Len(true.items) = n
  BY <1>1, <1>5, <1>6, FunctionsAreSequences
<1>8. \E T : true.items \in Seq(T)
  BY <1>7
<1> QED BY <1>1, <1>3, <1>4, <1>7, <1>8 DEF true, body

\* A list of one element.
LEMMA OneElementList ==
  ASSUME NEW e
  PROVE  <<e>> \in Seq({e})
  OBVIOUS

\* The first elements of a list.
LEMMA FirstElements ==
  ASSUME NEW S, NEW s \in Seq(S), NEW k \in 0..Len(s)
  PROVE  /\ DOMAIN SubSeq(s, 1, k) = 1..k
         /\ Len(SubSeq(s, 1, k)) = k
         /\ \A i \in 1..k : SubSeq(s, 1, k)[i] = s[i]
  OBVIOUS

\* Whatever passes for an answer to the batch, and is in its order, holds all
\* balances.
LEMMA NotFailedMeansHeld ==
  ASSUME NEW users \in Seq(Address), NEW sr, sr.req_body = Balances(users),
         NEW a \in Answers(Balances(users)), ~Failed(sr, a),
         \A i \in DOMAIN a.items \cap DOMAIN sr.req_body.items :
           a.items[i].id = sr.req_body.items[i].id
  PROVE  [i \in DOMAIN a.items |-> a.items[i].result[1]] = Held(users)
<1> DEFINE true == TrueAnswer(Balances(users))
           n    == Len(users)
<1>1. n \in Nat /\ DOMAIN users = 1..n
  OBVIOUS
<1>2. Len(Balances(users).items) = n
  BY BalancesBody
<1>3. /\ a.batch
      /\ Len(a.items) = n
      /\ \A i \in DOMAIN a.items : a.items[i].ok /\ Len(a.items[i].result) = 1
  BY <1>2 DEF Failed, Range
<1>4. \/ a = true
      \/ a = Single(Error(NoId))
      \/ \E i \in DOMAIN true.items : a = [true EXCEPT !.items[i] = Error(@.id)]
      \/ \E i \in DOMAIN true.items : a = [true EXCEPT !.items[i].result = <<>>]
      \/ \E k \in 0..Len(true.items) :
           a = [batch |-> TRUE, items |-> SubSeq(true.items, 1, k)]
      \/ \E p \in [DOMAIN true.items -> DOMAIN true.items] :
           a = [true EXCEPT !.items = [i \in DOMAIN true.items |-> true.items[p[i]]]]
  BY DEF Answers
<1>5. a # Single(Error(NoId))
  BY <1>3 DEF Single
<1> SUFFICES /\ DOMAIN a.items = 1..n
             /\ \A i \in 1..n :
                  a.items[i].result[1] = Balance("latest", users[i], NativeToken)
  BY <1>1 DEF Held
<1>6. CASE users = <<>>
  <2>1. true = [batch |-> FALSE, items |-> <<Error(NoId)>>]
    BY <1>1, <1>2, <1>6, EmptyAnswer, BalancesBody DEF Single
  <2> HIDE DEF true
  <2>2. \A i \in DOMAIN true.items :
          /\ [true EXCEPT !.items[i] = Error(@.id)].batch = FALSE
          /\ [true EXCEPT !.items[i].result = <<>>].batch = FALSE
    BY <2>1
  <2>11. \A items : [true EXCEPT !.items = items].batch = FALSE
    BY <2>1
  <2>3. PICK k \in 0..Len(true.items) :
          a = [batch |-> TRUE, items |-> SubSeq(true.items, 1, k)]
    BY <1>3, <1>4, <1>5, <2>1, <2>2, <2>11
  <2>4. true.items \in Seq({Error(NoId)})
    <3>1. <<Error(NoId)>> \in Seq({Error(NoId)})
      BY OneElementList
    <3>2. true.items = <<Error(NoId)>>
      BY <2>1
    <3> QED BY <3>1, <3>2
  <2>5. DOMAIN SubSeq(true.items, 1, k) = 1..k /\ Len(SubSeq(true.items, 1, k)) = k
    BY <2>4, FirstElements
  <2>6. n = 0
    BY <1>6
  <2>7. k = 0
    BY <1>3, <2>3, <2>5, <2>6
  <2>8. DOMAIN a.items = 1..0
    BY <2>3, <2>5, <2>7
  <2>9. 1..n = 1..0
    BY <2>6
  <2>10. \A i \in 1..0 : FALSE
    OBVIOUS
  <2> QED BY <2>8, <2>9, <2>10
<1>7. CASE users # <<>>
  <2>1. /\ true.batch = TRUE
        /\ DOMAIN true.items = 1..n
        /\ Len(true.items) = n
        /\ \A i \in 1..n :
             /\ true.items[i].ok = TRUE
             /\ true.items[i].id = i - 1
             /\ true.items[i].result = <<Balance("latest", users[i], NativeToken)>>
    BY <1>7, TrueBalances
  <2>2. PICK S : true.items \in Seq(S)
    BY <1>7, TrueBalances
  <2> HIDE DEF true
  <2>3. CASE a = true
    BY <2>1, <2>3
  <2>4. ASSUME NEW i \in DOMAIN true.items, a = [true EXCEPT !.items[i] = Error(@.id)]
        PROVE  FALSE
    BY <1>3, <2>1, <2>4 DEF Error
  <2>5. ASSUME NEW i \in DOMAIN true.items, a = [true EXCEPT !.items[i].result = <<>>]
        PROVE  FALSE
    BY <1>3, <2>1, <2>5
  <2>6. ASSUME NEW k \in 0..Len(true.items),
               a = [batch |-> TRUE, items |-> SubSeq(true.items, 1, k)]
        PROVE  /\ DOMAIN a.items = 1..n
               /\ \A i \in 1..n :
                    a.items[i].result[1] = Balance("latest", users[i], NativeToken)
    <3>1. a.items = SubSeq(true.items, 1, k)
      BY <2>6
    <3>2. k = n
      <4>1. Len(SubSeq(true.items, 1, k)) = k
        BY <2>2, FirstElements
      <4> QED BY <1>3, <3>1, <4>1
    <3>3. a.items = true.items
      BY <1>1, <2>1, <2>2, <3>1, <3>2
    <3> QED BY <2>1, <3>3
  <2>7. ASSUME NEW p \in [DOMAIN true.items -> DOMAIN true.items],
               a = [true EXCEPT !.items = [i \in DOMAIN true.items |-> true.items[p[i]]]]
        PROVE  /\ DOMAIN a.items = 1..n
               /\ \A i \in 1..n :
                    a.items[i].result[1] = Balance("latest", users[i], NativeToken)
    <3> DEFINE items == [i \in DOMAIN true.items |-> true.items[p[i]]]
    <3>0. a.items = items
      <4> HIDE DEF items
      <4>1. a = [true EXCEPT !.items = items]
        BY <2>7 DEF items
      <4>2. true = [batch |-> true.batch, items |-> true.items]
        BY AnswerRecord DEF true
      <4> QED BY <4>1, <4>2
    <3>1. a.items = [i \in 1..n |-> true.items[p[i]]]
      BY <2>1, <3>0
    <3>2. DOMAIN a.items = 1..n /\ \A i \in 1..n : a.items[i] = true.items[p[i]]
      BY <3>1
    <3>3. ASSUME NEW i \in 1..n
          PROVE  a.items[i].result[1] = Balance("latest", users[i], NativeToken)
      <4>1. a.items[i].id = i - 1
        <5>1. /\ DOMAIN Balances(users).items = 1..n
              /\ Balances(users).items[i].id = i - 1
          BY BalancesBody
        <5> QED BY <3>2, <5>1
      <4>2. p[i] \in 1..n
        BY <2>1
      <4>3. a.items[i].id = p[i] - 1
        BY <2>1, <3>2, <4>2
      <4>4. p[i] = i
        BY <4>1, <4>2, <4>3
      <4>5. \A b : <<b>>[1] = b
        OBVIOUS
      <4> QED BY <2>1, <3>2, <4>4, <4>5
    <3> QED BY <3>2, <3>3
  <2> QED BY <1>4, <1>5, <2>3, <2>4, <2>5, <2>6, <2>7
<1> QED BY <1>6, <1>7

-----------------------------------------------------------------------------
(* The invariant: where a forwarded request and a reply come from.         *)

SentAs(f) ==
  /\ f.request \in Requests /\ ~Panics(f.request) /\ f.client \in Clients
  /\ \E found \in Resolved \cup {NA} : f.sr = Sanitized(f.request, f.client, found)
  /\ f.wire = BuildHttpRequest(f.sr)

AnsweredAs(r) ==
  /\ r.request \in Requests /\ ~Panics(r.request)
  /\ \E client, found : r.sr = Sanitized(r.request, client, found)
  /\ r.answer \in Answers(r.sr.req_body) \cup {Unparsable}
  /\ r.reply = Receive(r.sr, r.answer)

IInv ==
  /\ \A f \in forwarded : SentAs(f)
  /\ \A r \in replies : AnsweredAs(r)
  /\ \A q \in panicked : q \in Requests /\ Panics(q)

\* Nothing is forwarded or answered at first, and every step of Sanitizer
\* makes what it adds in this way.
THEOREM Invariance == Spec => []IInv
<1>1. Init => IInv
  BY DEF Init, IInv
<1>2. IInv /\ [Next]_vars => IInv'
  <2> SUFFICES ASSUME IInv, [Next]_vars PROVE IInv'
    OBVIOUS
  <2>1. ASSUME NEW q \in Requests, NEW client \in Clients, OnNewHttpRequest(q, client)
        PROVE  IInv'
    <3>1. CASE Panics(q) /\ panicked' = {q} /\ UNCHANGED <<forwarded, replies>>
      BY <3>1 DEF IInv
    <3>2. CASE ~Panics(q) /\ UNCHANGED <<panicked, replies>>
               /\ \E found \in Resolved \cup {NA} :
                    forwarded' = {[request |-> q, client |-> client,
                                   sr |-> Sanitized(q, client, found),
                                   wire |-> BuildHttpRequest(Sanitized(q, client, found))]}
      <4>1. \A f \in forwarded' : SentAs(f)
        BY <3>2 DEF SentAs
      <4> QED BY <3>2, <4>1 DEF IInv
    <3> QED BY <2>1, <3>1, <3>2 DEF OnNewHttpRequest
  <2>2. ASSUME NEW f \in forwarded, TickHttpRecvRemote(f)
        PROVE  IInv'
    <3>1. SentAs(f) /\ forwarded' = forwarded \ {f}
      BY <2>2 DEF IInv, TickHttpRecvRemote
    <3>2. f.wire.body = f.sr.req_body
      BY <3>1 DEF SentAs, BuildHttpRequest
    <3>3. PICK a \in Answers(f.sr.req_body) \cup {Unparsable} :
            replies' = {[request |-> f.request, sr |-> f.sr, answer |-> a,
                         reply |-> Receive(f.sr, a)]}
      BY <2>2, <3>2 DEF TickHttpRecvRemote
    <3>4. \A r \in replies' : AnsweredAs(r)
      BY <3>1, <3>3 DEF SentAs, AnsweredAs
    <3>5. panicked' = panicked
      BY <2>2 DEF TickHttpRecvRemote
    <3> QED BY <3>1, <3>4, <3>5 DEF IInv
  <2>3. CASE CloseConn
    BY <2>3 DEF CloseConn, IInv
  <2>4. CASE UNCHANGED vars
    BY <2>4 DEF vars, IInv
  <2> QED BY <2>1, <2>2, <2>3, <2>4 DEF Next, Over
<1> QED BY <1>1, <1>2, PTL DEF Spec

\* The remote cannot tell clients apart: whoever made a request and however it
\* came, what the remote reads is the same (RemoteCannotTellClients).
THEOREM ClientsMasked == Spec => []RemoteCannotTellClients
<1>1. ASSUME NEW q, NEW client1, NEW found1, NEW client2, NEW found2
      PROVE  BuildHttpRequest(Sanitized(q, client1, found1)) =
               BuildHttpRequest(Sanitized(q, client2, found2))
  <2> DEFINE sr1 == Sanitized(q, client1, found1)
             sr2 == Sanitized(q, client2, found2)
  <2>1. sr1.req_body = sr2.req_body
    BY SanitizedBody
  <2>2. UserAgent(sr1) = UserAgent(sr2)
    BY UserAgentIsMasked
  <2> HIDE DEF sr1, sr2
  <2>3. BuildHttpRequest(sr1) = BuildHttpRequest(sr2)
    BY <2>1, <2>2 DEF BuildHttpRequest
  <2> QED BY <2>3 DEF sr1, sr2
<1>2. IInv => RemoteCannotTellClients
  BY <1>1 DEF IInv, SentAs, RemoteCannotTellClients
<1> QED BY <1>2, Invariance, PTL

\* Each of the details, for one request that was forwarded.
LEMMA DetailsOfForwarded ==
  ASSUME IInv, NEW f \in forwarded, NEW t \in Range(f.sr.tr)
  PROVE  /\ t.type = "accountRelationship" =>
              /\ DOMAIN t.protected = DOMAIN f.wire.body.items
              /\ \A i \in DOMAIN t.protected :
                   /\ t.protected[i].method = f.wire.body.items[i].method
                   /\ t.protected[i].accounts = <<f.wire.body.items[i].args>>
              /\ t.unprotected.method = f.request.items[1].method
              /\ t.unprotected.accounts = Users(f.request.items[1].args)
         /\ t.type = "metadata" =>
              /\ <<"User-Agent", t.protected.ua>> \in Range(f.wire.headers)
              /\ t.unprotected.ua = GetClientUa(f.client)
<1> DEFINE q     == f.request
           users == Users(q.items[1].args)
<1>1. /\ q \in Requests /\ ~Panics(q)
      /\ f.wire = BuildHttpRequest(f.sr)
  BY DEF IInv, SentAs
<1>2. PICK found \in Resolved \cup {NA} : f.sr = Sanitized(q, f.client, found)
  BY DEF IInv, SentAs
<1>3. f.wire.body = f.sr.req_body
  BY <1>1 DEF BuildHttpRequest
<1>4. /\ Metadata(f.client, found).type = "metadata"
      /\ Metadata(f.client, found).protected.ua = "1rpc-demo/0.1"
      /\ Metadata(f.client, found).unprotected.ua = GetClientUa(f.client)
      /\ AccountRelationship(users).type = "accountRelationship"
  BY DEF Metadata, AccountRelationship
<1>5. CASE t.type = "accountRelationship"
  <2>1. BreaksDown(q)
    BY <1>2, <1>5, SaysBrokenDown DEF IsAccountRelationship
  <2>2. t = AccountRelationship(users)
    BY <1>2, <1>4, <1>5, <2>1, SanitizedTransforms DEF Range
  <2>3. users \in Seq(Address) /\ q.items[1].method = "eth_call"
    BY <1>1, <2>1, BrokenDown DEF IsBalancesCall
  <2>4. f.wire.body = Balances(users)
    BY <1>2, <1>3, <2>1, SanitizedBody
  <2>5. /\ DOMAIN f.wire.body.items = DOMAIN users
        /\ \A i \in DOMAIN users : /\ f.wire.body.items[i].method = "eth_getBalance"
                                  /\ f.wire.body.items[i].args = users[i]
    <3> HIDE DEF users
    <3>1. DOMAIN users = 1..Len(users)
      BY <2>3
    <3>2. DOMAIN Balances(users).items = 1..Len(users)
      BY <2>3, BalancesBody
    <3>3. \A i \in 1..Len(users) :
            /\ Balances(users).items[i].id = i - 1
            /\ Balances(users).items[i].method = "eth_getBalance"
            /\ Balances(users).items[i].block = "latest"
            /\ Balances(users).items[i].args = users[i]
      <4>1. users \in Seq(Address)
        BY <2>3
      <4> QED BY <4>1, BalancesBody, Zenon
    <3> QED BY <2>4, <3>1, <3>2, <3>3
  <2>6. /\ DOMAIN t.protected = DOMAIN users
        /\ \A i \in DOMAIN users : /\ t.protected[i].method = "eth_getBalance"
                                  /\ t.protected[i].accounts = <<users[i]>>
        /\ t.unprotected.method = "eth_call"
        /\ t.unprotected.accounts = users
    <3> HIDE DEF users
    <3> QED BY <2>2 DEF AccountRelationship
  <2> HIDE DEF users
  <2>7. \A i \in DOMAIN t.protected :
          /\ t.protected[i].method = f.wire.body.items[i].method
          /\ t.protected[i].accounts = <<f.wire.body.items[i].args>>
    BY <2>5, <2>6
  <2> QED BY <1>5, <2>3, <2>5, <2>6, <2>7 DEF users
<1>6. CASE t.type = "metadata"
  <2>1. t = Metadata(f.client, found)
    BY <1>2, <1>4, <1>6, SanitizedTransforms DEF Range
  <2>2. UserAgent(f.sr) = "1rpc-demo/0.1"
    BY <1>2, UserAgentIsMasked
  <2>3. /\ 3 \in DOMAIN f.wire.headers
        /\ f.wire.headers[3] = <<"User-Agent", UserAgent(f.sr)>>
    BY <1>1 DEF BuildHttpRequest
  <2>4. <<"User-Agent", UserAgent(f.sr)>> \in Range(f.wire.headers)
    BY <2>3 DEF Range
  <2>5. t.protected.ua = UserAgent(f.sr) /\ t.unprotected.ua = GetClientUa(f.client)
    BY <1>4, <2>1, <2>2
  <2> QED BY <1>6, <2>4, <2>5
<1> QED BY <1>5, <1>6

\* The details of demo mode name the calls that are made, account by account:
\* the protected side those the remote reads, the unprotected side the one of the
\* client, as a contract would decode it (DetailsNameCalls).
THEOREM DetailsNamed == Spec => []DetailsNameCalls
<1>1. ASSUME IInv, NEW f \in forwarded, NEW t \in Range(f.sr.tr),
             t.type = "accountRelationship", WellFormed(f.request.items[1].args)
      PROVE  Users(f.request.items[1].args) = Argument(f.request.items[1].args, 1)
  <2>1. /\ f.request \in Requests /\ ~Panics(f.request)
        /\ \E client, found : f.sr = Sanitized(f.request, client, found)
    BY <1>1 DEF IInv, SentAs
  <2>2. BreaksDown(f.request)
    BY <1>1, <2>1, SaysBrokenDown DEF IsAccountRelationship
  <2>3. f.request.batch = FALSE
    BY <2>1, <2>2, BrokenDown
  <2> QED BY <1>1, <2>1, <2>3, ArgsOfRequest, AbiArguments
<1>2. IInv => DetailsNameCalls
  BY <1>1, DetailsOfForwarded DEF DetailsNameCalls
<1> QED BY <1>2, Invariance, PTL

\* Whatever is encoded as the ABI says does not end the process, at any offsets,
\* lengths and order of its arrays (FailsOnMalformedOnly).
THEOREM OnlyMalformedFails == Spec => []FailsOnMalformedOnly
<1>1. ASSUME IInv, NEW q \in panicked, q.items[1].sig # CutOff
      PROVE  ~WellFormed(q.items[1].args)
  <2>1. q \in Requests /\ Panics(q)
    BY <1>1 DEF IInv
  <2>2. q.batch = FALSE /\ ArgsPanic(q.items[1].args)
    BY <1>1, <2>1, RequestsAreJsonrpc DEF Panics
  <2> QED BY <2>1, <2>2, ArgsOfRequest, AbiArguments
<1>2. IInv => FailsOnMalformedOnly
  BY <1>1 DEF FailsOnMalformedOnly
<1> QED BY <1>2, Invariance, PTL

\* Items and addresses are such, whatever is asked (TypeOK).
THEOREM TypeCorrect == Spec => []TypeOK
<1>1. ASSUME IInv, NEW f \in forwarded
      PROVE  /\ f.request \in Requests
             /\ f.client \in Clients
             /\ f.sr.req_body.batch \in BOOLEAN
             /\ \A item \in Range(f.sr.req_body.items) : item \in Item
             /\ \A t \in Range(f.sr.tr) :
                  t.type = "accountRelationship" => t.unprotected.accounts \in Seq(Address)
  <2> DEFINE q     == f.request
             users == Users(q.items[1].args)
  <2>1. q \in Requests /\ ~Panics(q) /\ f.client \in Clients
    BY <1>1 DEF IInv, SentAs
  <2>2. PICK found \in Resolved \cup {NA} : f.sr = Sanitized(q, f.client, found)
    BY <1>1 DEF IInv, SentAs
  <2>3. f.sr.req_body = IF BreaksDown(q) THEN Balances(users) ELSE q
    BY <2>2, SanitizedBody
  <2>4. BreaksDown(q) => users \in Seq(Address)
    BY <2>1, BrokenDown
  <2>5. f.sr.req_body.batch \in BOOLEAN /\ f.sr.req_body.items \in Seq(Item)
    <3>1. CASE BreaksDown(q)
      <4> HIDE DEF users
      <4> QED BY <2>3, <2>4, <3>1, BalancesBody
    <3>2. CASE ~BreaksDown(q)
      BY <2>1, <2>3, <3>2, RequestsAreJsonrpc
    <3> QED BY <3>1, <3>2
  <2>6. \A item \in Range(f.sr.req_body.items) : item \in Item
    BY <2>5 DEF Range
  <2>7. ASSUME NEW t \in Range(f.sr.tr), t.type = "accountRelationship"
        PROVE  t.unprotected.accounts \in Seq(Address)
    <3>1. BreaksDown(q)
      BY <2>2, <2>7, SaysBrokenDown DEF IsAccountRelationship
    <3>2. t.unprotected.accounts = users
      BY <1>1, <2>7, DetailsOfForwarded
    <3> QED BY <2>4, <3>1, <3>2
  <2> QED BY <2>1, <2>5, <2>6, <2>7
<1>2. IInv => panicked \subseteq Requests
  BY DEF IInv
<1>3. IInv => TypeOK
  BY <1>1, <1>2 DEF TypeOK
<1> QED BY <1>3, Invariance, PTL

\* A reply to a call that was broken down, when the answers could be used and
\* are in their order: they are put together to the balances of all users.
LEMMA PutTogetherIsAll ==
  ASSUME NEW r, AnsweredAs(r), BreaksDown(r.request), AnsweredInOrder(r),
         r.answer # Unparsable, ~Failed(r.sr, r.answer)
  PROVE  r.reply = AllBalances(r.request)
<1> DEFINE q     == r.request
           users == Users(q.items[1].args)
<1>1. /\ q \in Requests /\ ~Panics(q)
      /\ r.answer \in Answers(r.sr.req_body)
      /\ r.reply = Receive(r.sr, r.answer)
  BY DEF AnsweredAs
<1>2. PICK client, found : r.sr = Sanitized(q, client, found)
  BY DEF AnsweredAs
<1>3. IsAccountRelationship(r.sr)
  BY <1>2, SaysBrokenDown
<1>4. users \in Seq(Address) /\ q.items \in Seq(Item) /\ Len(q.items) = 1
  BY <1>1, BrokenDown
<1>5. r.sr.req_body = Balances(users)
  BY <1>2, SanitizedBody
<1>6. r.sr.original_ids[1] = q.items[1].id
  <2>1. 1 \in DOMAIN q.items
    BY <1>4
  <2>2. r.sr.original_ids = [i \in DOMAIN q.items |-> q.items[i].id]
    BY <1>2, SanitizedIds
  <2> QED BY <2>1, <2>2
<1>7. r.reply = Single(PutTogether(r.sr, r.answer))
  BY <1>1, <1>3 DEF Receive, RewriteResponse
<1>8. [i \in DOMAIN r.answer.items |-> r.answer.items[i].result[1]] = Held(users)
  <2>1. r.answer.batch
    BY DEF Failed
  <2>2. \A i \in DOMAIN r.answer.items \cap DOMAIN r.sr.req_body.items :
          r.answer.items[i].id = r.sr.req_body.items[i].id
    BY <2>1 DEF AnsweredInOrder
  <2> HIDE DEF users
  <2> QED BY <1>1, <1>4, <1>5, <2>2, NotFailedMeansHeld
<1>9. PutTogether(r.sr, r.answer) =
        [id |-> q.items[1].id, ok |-> TRUE, result |-> EncodeUint256Array(Held(users))]
  BY <1>6, <1>8 DEF PutTogether
<1> QED BY <1>7, <1>9 DEF AllBalances, Held

\* A call that was broken down is answered with the balances of all of the users
\* it names or with an error, whatever the remote does but change the order: no
\* answer is half of one (NoHalfAnswers).
THEOREM AllOrNothing == Spec => []NoHalfAnswers
<1>1. ASSUME IInv, NEW r \in replies, IsAccountRelationship(r.sr), AnsweredInOrder(r)
      PROVE  r.reply \in {AllBalances(r.request), Single(Error(NoId))}
  <2>1. AnsweredAs(r) /\ r.reply = Receive(r.sr, r.answer)
    BY <1>1 DEF IInv, AnsweredAs
  <2>2. BreaksDown(r.request)
    BY <1>1, <2>1, SaysBrokenDown DEF AnsweredAs
  <2>3. CASE r.answer = Unparsable \/ Failed(r.sr, r.answer)
    BY <1>1, <2>1, <2>3 DEF Receive, RewriteResponse
  <2>4. CASE r.answer # Unparsable /\ ~Failed(r.sr, r.answer)
    BY <1>1, <2>1, <2>2, <2>4, PutTogetherIsAll
  <2> QED BY <2>3, <2>4
<1>2. IInv => NoHalfAnswers
  BY <1>1 DEF NoHalfAnswers
<1> QED BY <1>2, Invariance, PTL

\* If the remote does its part, the client reads what the remote would have
\* answered to the client's own request, with its block and its contract.  Of
\* the calls that are broken down this holds for those about the latest block
\* and to a contract that has the balances (Transparent).
THEOREM RelayTransparent == Spec => []Transparent
<1>1. ASSUME IInv, NEW r \in replies,
             r.answer = TrueAnswer(r.sr.req_body),
             BreaksDown(r.request) => Meant(r.request)
      PROVE  r.reply = TrueAnswer(r.request)
  <2> DEFINE q     == r.request
             users == Users(q.items[1].args)
  <2>1. /\ AnsweredAs(r) /\ r.reply = Receive(r.sr, r.answer)
        /\ q \in Requests /\ ~Panics(q)
    BY <1>1 DEF IInv, AnsweredAs
  <2>2. PICK client, found : r.sr = Sanitized(q, client, found)
    BY <2>1 DEF AnsweredAs
  <2>3. CASE BreaksDown(q)
    <3>1. users \in Seq(Address)
      BY <2>1, <2>3, BrokenDown
    <3>2. users # <<>>
      <4>1. q.batch = FALSE
        BY <2>1, <2>3, BrokenDown
      <4>2. AsksChecker(q.items[1]) /\ Count(q.items[1].args, 1) > 0
        BY <1>1, <2>3 DEF Meant
      <4>3. users = Argument(q.items[1].args, 1)
        BY <2>1, <4>1, <4>2, ArgsOfRequest, AbiArguments DEF AsksChecker
      <4>4. DOMAIN users = 1..Count(q.items[1].args, 1)
        BY <4>3 DEF Argument
      <4>5. Count(q.items[1].args, 1) \in Nat
        BY <2>1, <4>1, <4>2, ArgsOfRequest, CountIsNat DEF AsksChecker
      <4>6. 1 \in DOMAIN users
        BY <4>2, <4>4, <4>5
      <4> QED BY <4>6
    <3>3. r.sr.req_body = Balances(users)
      BY <2>2, <2>3, SanitizedBody
    <3> HIDE DEF users
    <3>4. /\ r.sr.req_body.items \in Seq(Item) /\ Len(r.sr.req_body.items) = Len(users)
          /\ \A i \in 1..Len(users) : r.sr.req_body.items[i].id = i - 1
      <4>1. /\ Balances(users).items \in Seq(Item)
            /\ Len(Balances(users).items) = Len(users)
            /\ \A i \in 1..Len(users) : Balances(users).items[i].id = i - 1
        BY <3>1, BalancesBody, Zenon
      <4> QED BY <3>3, <4>1, Zenon
    <3>5. r.answer # Unparsable
      BY <1>1, <3>4, TrueAnswerParsable
    <3>6. /\ r.answer.batch = TRUE
          /\ DOMAIN r.answer.items = 1..Len(users)
          /\ Len(r.answer.items) = Len(users)
          /\ \A i \in 1..Len(users) :
               /\ r.answer.items[i].ok = TRUE
               /\ r.answer.items[i].id = i - 1
               /\ r.answer.items[i].result = <<Balance("latest", users[i], NativeToken)>>
      BY <1>1, <3>1, <3>2, <3>3, TrueBalances
    <3>7. \A b : Len(<<b>>) = 1
      OBVIOUS
    <3>8. ~Failed(r.sr, r.answer)
      <4>1. \A i \in DOMAIN r.answer.items :
              r.answer.items[i].ok = TRUE /\ Len(r.answer.items[i].result) = 1
        BY <3>6, <3>7
      <4>2. \A b \in Range(r.answer.items) : b.ok = TRUE /\ Len(b.result) = 1
        BY <4>1 DEF Range
      <4> QED BY <3>4, <3>6, <4>2 DEF Failed
    <3>9. AnsweredInOrder(r)
      BY <3>4, <3>6 DEF AnsweredInOrder
    <3> QED BY <1>1, <2>1, <2>3, <3>5, <3>8, <3>9, PutTogetherIsAll, TrueAnswerToCall
  <2>4. CASE ~BreaksDown(q)
    <3>1. r.sr.req_body = q /\ ~IsAccountRelationship(r.sr)
      BY <2>2, <2>4, SanitizedBody, SaysBrokenDown
    <3>2. r.answer # Unparsable
      BY <1>1, <2>1, <3>1, RequestsAreJsonrpc, TrueAnswerParsable
    <3> QED BY <1>1, <2>1, <3>1, <3>2 DEF Receive, RewriteResponse
  <2> QED BY <2>3, <2>4
<1>2. IInv => Transparent
  BY <1>1 DEF Transparent
<1> QED BY <1>2, Invariance, PTL

=============================================================================
