------------------------- MODULE DnsReplies_proofs --------------------------
(***************************************************************************)
(* Proofs about the replies the resolver makes up (DnsWire), for every     *)
(* message, whatever its bytes, every list of addresses and every TTL.     *)
(*                                                                         *)
(* A reply is a sequence of pieces one behind the other, each of which is  *)
(* read back from where it stands (Carries).  The walkers skip the echoed  *)
(* question as it was skipped in the query (SkipAlike) and go from record  *)
(* to record as build_response wrote them.                                 *)
(*                                                                         *)
(* The theorem is about the reader as well: that a reply can be made at    *)
(* all, and which one, follows from where the reader stopped (ReaderInv).  *)
(***************************************************************************)
EXTENDS Wire_proofs

\* A slice of a message.
LEMMA SliceOf ==
  ASSUME NEW m \in Seq(Octet), NEW p \in Nat, NEW n \in Nat, p + n <= Len(m)
  PROVE  Slice(m, p, n) \in Seq(Octet) /\ Len(Slice(m, p, n)) = n /\ Carries(m, p, Slice(m, p, n))
<1> DEFINE u == SubSeq(m, p + 1, p + n)
<1>1. Len(m) \in Nat
  BY LenProperties, Zenon
<1>2. \A i \in p + 1 .. p + n : m[i] \in Octet
  <2> TAKE i \in p + 1 .. p + n
  <2>1. i \in 1 .. Len(m)
    BY <1>1
  <2> QED
    BY <2>1, ElementOfSeq, Zenon
<1>3. /\ u \in Seq(Octet)
      /\ Len(u) = IF p + 1 <= p + n THEN (p + n) - (p + 1) + 1 ELSE 0
      /\ \A i \in 1 .. (p + n) - (p + 1) + 1 : u[i] = m[(p + 1) + i - 1]
  <2>1. p + 1 \in Int /\ p + n \in Int
    OBVIOUS
  <2> QED
    BY <1>2, <2>1, SubSeqProperties, SMTT(30)
<1> HIDE DEF u
<1>4. Len(u) = n
  BY <1>3
<1>5. \A i \in 1 .. n : i \in 1 .. (p + n) - (p + 1) + 1 /\ (p + 1) + i - 1 = p + i
  OBVIOUS
<1>6. Carries(m, p, u)
  BY <1>3, <1>4, <1>5, Zenon DEF Carries
<1> QED
  BY <1>3, <1>4, <1>6, Zenon DEF Slice, u

\* What stands at an offset is the slice there.
LEMMA SliceThere ==
  ASSUME NEW b \in Seq(Octet), NEW P \in Nat, NEW s \in Seq(Octet), Carries(b, P, s)
  PROVE  Slice(b, P, Len(s)) = s
<1>1. SubSeq(b, P + 1, P + Len(s)) = s
  BY SliceIs, Zenon DEF Carries
<1> QED
  BY <1>1, Zenon DEF Slice

\* The parts of a reply that echo the query, and where they stand.
EchoAt(E, e, count) ==
  /\ E \in Seq(Octet) /\ Len(E) = e + 4
  /\ Carries(E, 0, Slice(msg, 0, 2)) /\ Carries(E, 4, Two(1)) /\ Carries(E, 6, Two(count))
  /\ Carries(E, HEADER_LEN, Slice(msg, HEADER_LEN, (e + 4) - HEADER_LEN))

\* The start of a reply: the query's own bytes, but for the counts.
LEMMA EchoIs ==
  ASSUME msg \in Seq(Octet), NEW e \in Nat, SkipName(msg, HEADER_LEN) = e, e >= HEADER_LEN,
         e + 4 <= Len(msg), NEW rcode \in 0 .. 3, NEW count \in Word
  PROVE  EchoAt(Echo(rcode, count), e, count)
<1> DEFINE n == (e + 4) - HEADER_LEN
           y0 == Slice(msg, 0, 2)
           y1 == <<129, 128 + rcode>>
           y2 == Two(1)
           y3 == Two(count)
           y4 == <<0, 0, 0, 0>>
           y5 == Slice(msg, HEADER_LEN, n)
           z == y0 \o y1 \o y2 \o y3 \o y4 \o y5
<1>0. Len(msg) \in Nat
  BY LenProperties, Zenon
<1>1. Echo(rcode, count) = z
  <2> DEFINE k == SkipName(msg, HEADER_LEN)
  <2>1. Echo(rcode, count) = y0 \o y1 \o y2 \o y3 \o y4 \o Slice(msg, HEADER_LEN, (k + 4) - HEADER_LEN)
    BY DEF Echo
  <2>2. k = e
    BY Zenon
  <2> HIDE DEF k, y0, y1, y2, y3, y4
  <2> QED
    BY <2>1, <2>2, Zenon
<1>2. n \in Nat /\ HEADER_LEN + n <= Len(msg) /\ HEADER_LEN = 12 /\ HEADER_LEN \in Nat
      /\ HEADER_LEN + n = e + 4 /\ 0 \in Nat /\ 2 \in Nat /\ 0 + 2 <= Len(msg) /\ 1 \in Word
  BY <1>0 DEF HEADER_LEN, Word
<1> HIDE DEF n
<1>3. y0 \in Seq(Octet) /\ Len(y0) = 2
  BY <1>2, SliceOf, Zenon
<1>4. y5 \in Seq(Octet) /\ Len(y5) = n
  BY <1>2, SliceOf, Zenon
<1>5. y2 \in Seq(Octet) /\ Len(y2) = 2 /\ y3 \in Seq(Octet) /\ Len(y3) = 2
  BY <1>2, TwoIs, Zenon
<1>6. y1 \in Seq(Octet) /\ Len(y1) = 2
  <2>1. 129 \in Octet /\ 128 + rcode \in Octet
    BY DEF Octet
  <2> QED
    BY <2>1
<1>7. y4 \in Seq(Octet) /\ Len(y4) = 4
  <2>1. 0 \in Octet
    BY DEF Octet
  <2> QED
    BY <2>1
<1> HIDE DEF y0, y1, y2, y3, y4, y5
<1>8. /\ 2 \in Nat /\ 4 \in Nat /\ 6 \in Nat /\ 8 \in Nat /\ 12 \in Nat
      /\ Len(y0) = 2 /\ 2 + Len(y1) = 4 /\ 4 + Len(y2) = 6 /\ 6 + Len(y3) = 8 /\ 8 + Len(y4) = 12
  BY <1>3, <1>5, <1>6, <1>7
<1>9. y0 \in Seq(Octet) /\ y1 \in Seq(Octet) /\ y2 \in Seq(Octet)
      /\ y3 \in Seq(Octet) /\ y4 \in Seq(Octet) /\ y5 \in Seq(Octet)
  BY <1>3, <1>4, <1>5, <1>6, <1>7, Zenon
<1>10. SixAt(z, y0, y1, y2, y3, y4, y5, 2, 4, 6, 8, 12)
  BY <1>8, <1>9, SixPieces, Zenon
<1> HIDE DEF z
<1>11. z \in Seq(Octet) /\ Len(z) = 12 + Len(y5) /\ Carries(z, 0, y0) /\ Carries(z, 4, y2)
       /\ Carries(z, 6, y3) /\ Carries(z, 12, y5)
  BY <1>10, Zenon DEF SixAt
<1>12. Len(z) = e + 4
  BY <1>2, <1>4, <1>11
<1>13. Carries(z, HEADER_LEN, y5)
  BY <1>2, <1>11, Zenon
<1>14. EchoAt(z, e, count)
  BY <1>11, <1>12, <1>13, Zenon DEF EchoAt, y0, y2, y3, y5, n
<1> QED
  BY <1>1, <1>14, Zenon

\* No offset is taken for a failure.
LEMMA NoneIsNoNumber ==
  \A n \in Nat : n # None
BY WireAssumption

\* A message that has the bytes of another's name has the name end at the same place.
LEMMA SkipAlike ==
  ASSUME NEW m \in Seq(Octet), NEW b \in Seq(Octet), NEW e \in Nat, NEW h \in Nat,
         e <= Len(b), \A p \in h .. e - 1 : At(b, p) = At(m, p),
         SkipName(m, h) = e
  PROVE  SkipName(b, h) = e
<1> DEFINE L == Len(m)
           Ok(p) == SkipName(m, p) = e => p < e /\ SkipName(b, p) = e
           G == {k \in 0 .. L : \A p \in Nat : p >= L - k /\ p >= h => Ok(p)}
<1>1. L \in Nat /\ Len(b) \in Nat /\ e # None
  BY LenProperties, NoneIsNoNumber, Zenon
<1> HIDE DEF L
<1>2. 0 \in G
  <2>1. ASSUME NEW p \in Nat, p >= L - 0 PROVE SkipName(m, p) = None
    <3>1. p >= Len(m)
      BY <1>1, <2>1 DEF L
    <3> QED
      BY <3>1, Skips, Zenon
  <2>2. 0 \in 0 .. L
    BY <1>1
  <2> QED
    BY <1>1, <2>1, <2>2, Zenon
<1>3. ASSUME NEW k \in 0 .. L - 1, k \in G PROVE k + 1 \in G
  <2>1. ASSUME NEW p \in Nat, p >= L - (k + 1), p >= h, SkipName(m, p) = e
        PROVE  p < e /\ SkipName(b, p) = e
    <3> DEFINE c == At(m, p)
    <3>1. CASE p >= L
      <4>1. SkipName(m, p) = None
        BY <3>1, Skips, Zenon DEF L
      <4> QED
        BY <1>1, <2>1, <4>1, Zenon
    <3>2. CASE p < L
      <4>1. c \in Octet /\ c \in Nat
        BY <3>2, ByteOf, Zenon DEF L
      <4>2. CASE c = 0
        <5>1. e = p + 1
          BY <2>1, <3>2, <4>2, Skips, Zenon DEF L
        <5>2. p < e /\ p \in h .. e - 1 /\ p < Len(b)
          BY <1>1, <2>1, <5>1
        <5>3. At(b, p) = 0
          BY <4>2, <5>2, Zenon
        <5> QED
          BY <5>1, <5>2, <5>3, Skips, Zenon
      <4>3. CASE IsLabel(c)
        <5> DEFINE q == p + 1 + c
        <5>1. SkipName(m, q) = e
          BY <2>1, <3>2, <4>3, Skips, Zenon DEF L
        <5>2. q \in Nat /\ q >= L - k /\ q >= h /\ p < q
          <6> HIDE DEF c
          <6> QED
            BY <1>1, <2>1, <4>1
        <5>3. Ok(q)
          BY <1>3, <5>2, Zenon
        <5>4. q < e /\ SkipName(b, q) = e
          BY <5>1, <5>3, Zenon
        <5>5. p < e /\ p \in h .. e - 1 /\ p < Len(b)
          <6> HIDE DEF q
          <6> QED
            BY <1>1, <2>1, <5>2, <5>4
        <5>6. At(b, p) = c
          BY <5>5, Zenon
        <5>7. SkipName(b, p) = SkipName(b, p + 1 + At(b, p))
          BY <4>3, <5>5, <5>6, Skips, Zenon
        <5> QED
          BY <5>4, <5>5, <5>6, <5>7, Zenon
      <4>4. CASE IsPointer(c)
        <5>1. e = p + 2
          <6>1. SkipName(m, p) = IF p + 1 < L THEN p + 2 ELSE None
            BY <3>2, <4>4, Skips, Zenon DEF L
          <6> QED
            BY <1>1, <2>1, <6>1, Zenon
        <5>2. p < e /\ p \in h .. e - 1 /\ p < Len(b) /\ p + 1 < Len(b)
          BY <1>1, <2>1, <5>1
        <5>3. IsPointer(At(b, p))
          BY <4>4, <5>2, Zenon
        <5> QED
          BY <5>1, <5>2, <5>3, Skips, Zenon
      <4>5. CASE IsReserved(c)
        <5>1. SkipName(m, p) = None
          BY <3>2, <4>5, Skips, Zenon DEF L
        <5> QED
          BY <1>1, <2>1, <5>1, Zenon
      <4> QED
        BY <4>1, <4>2, <4>3, <4>4, <4>5, KindIs, Zenon
    <3>3. p >= L \/ p < L
      BY <1>1
    <3> QED
      BY <3>1, <3>2, <3>3, Zenon
  <2>2. k + 1 \in 0 .. L
    BY <1>1
  <2> QED
    BY <2>1, <2>2, Zenon
<1>4. L \in G
  <2>1. 0 .. L \subseteq G
    <3> HIDE DEF G
    <3> QED
      BY <1>1, <1>2, <1>3, CountUp, Zenon
  <2>2. L \in 0 .. L
    BY <1>1
  <2> HIDE DEF G
  <2> QED
    BY <2>1, <2>2, Zenon
<1>5. h >= L - L /\ h >= h
  BY <1>1
<1> QED
  BY <1>4, <1>5, Zenon

\* A 16-bit field of a message.
LEMMA ShortIsWord ==
  ASSUME NEW m \in Seq(Octet), NEW p \in Nat, p + 2 <= Len(m)
  PROVE  Short(m, p) \in Word
<1> DEFINE x == At(m, p)
           y == At(m, p + 1)
<1>0. Len(m) \in Nat
  BY LenProperties, Zenon
<1>1. p < Len(m) /\ p + 1 < Len(m) /\ p + 1 \in Nat
  BY <1>0
<1>2. x \in Octet /\ y \in Octet
  BY <1>1, ByteOf, Zenon
<1>3. Short(m, p) = 256 * x + y
  BY DEF Short
<1> HIDE DEF x, y
<1> QED
  BY <1>2, <1>3 DEF Octet, Word

\* One question is skipped.
LEMMA PastOneQuestion ==
  ASSUME NEW b \in Seq(Octet), NEW e \in Nat, Short(b, 4) = 1, SkipName(b, HEADER_LEN) = e,
         e + 4 <= Len(b)
  PROVE  PastQuestions(b) = e + 4
<1> DEFINE Eq(f) == f = [n \in 0 .. 1 |-> IF n = 0 THEN HEADER_LEN ELSE PastQuestion(b, f[n - 1])]
           g == [n \in 0 .. 1 |-> IF n = 0 THEN HEADER_LEN ELSE e + 4]
           past == CHOOSE f : Eq(f)
<1>0. Len(b) \in Nat
  BY LenProperties, Zenon
<1>1. PastQuestion(b, HEADER_LEN) = e + 4
  <2>1. HEADER_LEN # None /\ e # None
    BY NoneIsNoNumber DEF HEADER_LEN
  <2>2. ~(e + 4 > Len(b))
    BY <1>0
  <2> QED
    BY <2>1, <2>2, Zenon DEF PastQuestion
<1>2. 0 \in 0 .. 1 /\ 1 \in 0 .. 1 /\ (\A n \in 0 .. 1 : n # 0 => n = 1) /\ 1 # 0 /\ 1 - 1 = 0
  OBVIOUS
<1>3. g[0] = HEADER_LEN /\ g[1] = e + 4 /\ g = [n \in 0 .. 1 |-> g[n]]
  BY <1>2, Zenon
<1> HIDE DEF g
<1>4. ASSUME NEW n \in 0 .. 1
      PROVE  g[n] = IF n = 0 THEN HEADER_LEN ELSE PastQuestion(b, g[n - 1])
  <2>1. CASE n = 0
    BY <1>3, <2>1, Zenon
  <2>2. CASE n # 0
    <3>1. n = 1 /\ n - 1 = 0
      BY <2>2
    <3>2. g[n] = PastQuestion(b, g[n - 1])
      BY <1>1, <1>3, <3>1, Zenon
    <3> QED
      BY <2>2, <3>2, Zenon
  <2> QED
    BY <2>1, <2>2
<1>5. Eq(g)
  BY <1>3, <1>4, Zenon
<1>6. Eq(past)
  BY <1>5, Zenon
<1>7. PastQuestions(b) = past[1]
  BY Zenon DEF PastQuestions
<1> HIDE DEF past
<1>8. past[0] = HEADER_LEN
  BY <1>2, <1>6, Zenon
<1>9. past[1] = PastQuestion(b, past[1 - 1])
  BY <1>2, <1>6, Zenon
<1> QED
  BY <1>1, <1>2, <1>7, <1>8, <1>9, Zenon

\* A function that starts as a walk does and takes its steps.
AddressWalkOf(W, b, type, width, N) ==
  /\ N \in Nat /\ Short(b, 6) = N /\ ~(Len(b) < HEADER_LEN)
  /\ W = [n \in 0 .. N |-> W[n]] /\ W[0] = [out |-> <<>>, p |-> PastQuestions(b)]
  /\ \A n \in 1 .. N : W[n] = AddressStep(b, type, width, W[n - 1])

\* What the walk over a message finds.
AddressesAre(b, type, width, out) == Addresses(b, type, width) = out

\* a_records and aaaa_records find what a walk with their steps finds,
LEMMA AddressWalk ==
  ASSUME NEW b, NEW type, NEW width, NEW N, NEW W, AddressWalkOf(W, b, type, width, N)
  PROVE  AddressesAre(b, type, width, W[N].out)
<1> DEFINE start == [out |-> <<>>, p |-> PastQuestions(b)]
           Eq(f) == f = [n \in 0 .. N |-> IF n = 0 THEN start
                                          ELSE AddressStep(b, type, width, f[n - 1])]
           walk == CHOOSE f : Eq(f)
           G == {n \in 0 .. N : walk[n] = W[n]}
<1>0. /\ N \in Nat /\ Short(b, 6) = N /\ ~(Len(b) < HEADER_LEN)
      /\ W = [n \in 0 .. N |-> W[n]] /\ W[0] = start
      /\ \A n \in 1 .. N : W[n] = AddressStep(b, type, width, W[n - 1])
  BY Zenon DEF AddressWalkOf
<1>1. /\ 0 \in 0 .. N /\ N \in 0 .. N /\ \A n \in 0 .. N : n = 0 \/ n \in 1 .. N
      /\ \A n \in 0 .. N - 1 : n + 1 \in 0 .. N /\ n + 1 \in 1 .. N /\ n + 1 # 0 /\ (n + 1) - 1 = n
      /\ \A n \in 1 .. N : n # 0
  BY <1>0
<1>2. Addresses(b, type, width) = walk[N].out
  BY <1>0, Zenon DEF Addresses
<1>3. W[0] = start
  BY <1>0, Zenon
<1> HIDE DEF start
<1>4. \A n \in 0 .. N : W[n] = IF n = 0 THEN start ELSE AddressStep(b, type, width, W[n - 1])
  BY <1>0, <1>1, <1>3, Zenon
<1>5. Eq(W)
  BY <1>0, <1>4, Zenon
<1>6. Eq(walk)
  BY <1>5, Zenon
<1> HIDE DEF walk
<1>7. \A n \in 0 .. N : walk[n] = IF n = 0 THEN start ELSE AddressStep(b, type, width, walk[n - 1])
  BY <1>6, Zenon
<1>8. 0 \in G
  BY <1>1, <1>3, <1>7, Zenon
<1>9. ASSUME NEW n \in 0 .. N - 1, n \in G PROVE n + 1 \in G
  <2>1. walk[n] = W[n]
    BY <1>9, Zenon
  <2>2. walk[n + 1] = AddressStep(b, type, width, walk[n])
    BY <1>1, <1>7, Zenon
  <2>3. W[n + 1] = AddressStep(b, type, width, W[n])
    BY <1>1, <1>4, Zenon
  <2> QED
    BY <1>1, <2>1, <2>2, <2>3, Zenon
<1>10. 0 .. N \subseteq G
  <2> HIDE DEF G
  <2> QED
    BY <1>0, <1>8, <1>9, CountUp, Zenon
<1> QED
  BY <1>1, <1>2, <1>10, Zenon DEF AddressesAre

\* The same for the walk of min_ttl.
TtlWalkOf(W, b, N) ==
  /\ N \in Nat /\ Short(b, 6) = N
  /\ W = [n \in 0 .. N |-> W[n]] /\ W[0] = [p |-> PastQuestions(b), stop |-> FALSE, ttls |-> {}]
  /\ \A n \in 1 .. N : W[n] = TtlStep(b, W[n - 1])

\* ... and min_ttl what one with its own finds.
LEMMA TtlWalk ==
  ASSUME NEW b, NEW N, NEW W, TtlWalkOf(W, b, N)
  PROVE  MinTtl(b) = IF W[N].ttls = {} THEN None
                     ELSE CHOOSE t \in W[N].ttls : \A u \in W[N].ttls : t <= u
<1> DEFINE start == [p |-> PastQuestions(b), stop |-> FALSE, ttls |-> {}]
           Eq(f) == f = [n \in 0 .. N |-> IF n = 0 THEN start
                                          ELSE TtlStep(b, f[n - 1])]
           walk == CHOOSE f : Eq(f)
           G == {n \in 0 .. N : walk[n] = W[n]}
<1>0. /\ N \in Nat /\ Short(b, 6) = N
      /\ W = [n \in 0 .. N |-> W[n]] /\ W[0] = start
      /\ \A n \in 1 .. N : W[n] = TtlStep(b, W[n - 1])
  BY Zenon DEF TtlWalkOf
<1>1. /\ 0 \in 0 .. N /\ N \in 0 .. N /\ \A n \in 0 .. N : n = 0 \/ n \in 1 .. N
      /\ \A n \in 0 .. N - 1 : n + 1 \in 0 .. N /\ n + 1 \in 1 .. N /\ n + 1 # 0 /\ (n + 1) - 1 = n
      /\ \A n \in 1 .. N : n # 0
  BY <1>0
<1>2. MinTtl(b) = IF walk[N].ttls = {} THEN None
                  ELSE CHOOSE t \in walk[N].ttls : \A u \in walk[N].ttls : t <= u
  <2> DEFINE Least(S) == IF S = {} THEN None ELSE CHOOSE t \in S : \A u \in S : t <= u
             Walk(M) == CHOOSE f : f = [n \in 0 .. M |-> IF n = 0 THEN start ELSE TtlStep(b, f[n - 1])]
             Last(M) == Walk(M)[M]
  <2>1. MinTtl(b) = Least(Last(Short(b, 6)).ttls)
    BY Zenon DEF MinTtl
  <2>2. Last(N) = walk[N]
    BY Zenon
  <2> HIDE DEF Least, Last, walk
  <2>3. MinTtl(b) = Least(walk[N].ttls)
    BY <1>0, <2>1, <2>2, Zenon
  <2> QED
    BY <2>3, Zenon DEF Least
<1>3. W[0] = start
  BY <1>0, Zenon
<1> HIDE DEF start
<1>4. \A n \in 0 .. N : W[n] = IF n = 0 THEN start ELSE TtlStep(b, W[n - 1])
  BY <1>0, <1>1, <1>3, Zenon
<1>5. Eq(W)
  BY <1>0, <1>4, Zenon
<1>6. Eq(walk)
  BY <1>5, Zenon
<1> HIDE DEF walk
<1>7. \A n \in 0 .. N : walk[n] = IF n = 0 THEN start ELSE TtlStep(b, walk[n - 1])
  BY <1>6, Zenon
<1>8. 0 \in G
  BY <1>1, <1>3, <1>7, Zenon
<1>9. ASSUME NEW n \in 0 .. N - 1, n \in G PROVE n + 1 \in G
  <2>1. walk[n] = W[n]
    BY <1>9, Zenon
  <2>2. walk[n + 1] = TtlStep(b, walk[n])
    BY <1>1, <1>7, Zenon
  <2>3. W[n + 1] = TtlStep(b, W[n])
    BY <1>1, <1>4, Zenon
  <2> QED
    BY <1>1, <2>1, <2>2, <2>3, Zenon
<1>10. 0 .. N \subseteq G
  <2> HIDE DEF G
  <2> QED
    BY <1>0, <1>8, <1>9, CountUp, Zenon
<1>11. walk[N] = W[N]
  BY <1>1, <1>10, Zenon
<1> QED
  BY <1>2, <1>11, Zenon

\* The bodies of build_response after each record.
BodyOf(f, E, type, recs) ==
  /\ f \in [0 .. Len(recs) -> Seq(Octet)] /\ f[0] = E
  /\ \A n \in 1 .. Len(recs) : f[n] = f[n - 1] \o RecordBytes(type, recs[n])

\* Records build_response can write.
Writable(recs) == recs \in Seq(Seq(Octet)) /\ \A n \in 1 .. Len(recs) : Len(recs[n]) \in Word

\* A record is written as bytes.
LEMMA RecordOf ==
  ASSUME NEW type \in Word, NEW recs, Writable(recs), NEW n \in 1 .. Len(recs)
  PROVE  recs[n] \in Seq(Octet) /\ Len(recs[n]) \in Word /\ RecordBytes(type, recs[n]) \in Seq(Octet)
<1>1. recs[n] \in Seq(Octet) /\ Len(recs[n]) \in Word
  BY ElementOfSeq, Zenon DEF Writable
<1> QED
  BY <1>1, RecordIs, Zenon

\* The loop of build_response writes one record after the other.
LEMMA BodyExists ==
  ASSUME NEW E \in Seq(Octet), NEW type \in Word, NEW recs, Writable(recs)
  PROVE  LET N == Len(recs)
             body == CHOOSE f : f = [n \in 0 .. N |-> IF n = 0 THEN E
                                       ELSE f[n - 1] \o RecordBytes(type, recs[n])]
         IN  BodyOf(body, E, type, recs)
<1> DEFINE N == Len(recs)
           S == Seq(Octet)
           step == [q \in S \X (1 .. N) |-> q[1] \o RecordBytes(type, recs[q[2]])]
           Eq(f) == f = [n \in 0 .. N |-> IF n = 0 THEN E ELSE f[n - 1] \o RecordBytes(type, recs[n])]
           body == CHOOSE f : Eq(f)
<1>1. N \in Nat
  BY LenProperties, Zenon DEF Writable
<1>2. step \in [S \X (1 .. N) -> S]
  <2>1. ASSUME NEW q \in S \X (1 .. N) PROVE q[1] \o RecordBytes(type, recs[q[2]]) \in S
    <3>1. q[1] \in S /\ q[2] \in 1 .. N
      BY Zenon
    <3>2. RecordBytes(type, recs[q[2]]) \in S
      BY <3>1, RecordOf, Zenon
    <3> QED
      BY <3>1, <3>2, ConcatCarries, Zenon
  <2> QED
    BY <2>1, Zenon
<1>3. \A s \in S, n \in 1 .. N : step[<<s, n>>] = s \o RecordBytes(type, recs[n])
  BY Zenon
<1> HIDE DEF step
<1>4. PICK g : Iterates(g, N, S, E, step)
  BY <1>1, <1>2, Iteration, Zenon
<1>5. /\ g \in [0 .. N -> S] /\ g[0] = E
      /\ \A n \in 1 .. N : g[n] = step[<<g[n - 1], n>>]
  BY <1>4, Zenon DEF Iterates
<1>6. /\ 0 \in 0 .. N /\ \A n \in 0 .. N : n = 0 \/ n \in 1 .. N
      /\ \A n \in 1 .. N : n # 0 /\ n \in 0 .. N /\ n - 1 \in 0 .. N
  BY <1>1
<1>7. \A n \in 1 .. N : g[n] = g[n - 1] \o RecordBytes(type, recs[n])
  BY <1>3, <1>5, <1>6, Zenon
<1>8. \A n \in 0 .. N : g[n] = IF n = 0 THEN E ELSE g[n - 1] \o RecordBytes(type, recs[n])
  BY <1>5, <1>6, <1>7, Zenon
<1>9. g = [n \in 0 .. N |-> g[n]]
  BY <1>5, Zenon
<1>10. Eq(g)
  BY <1>8, <1>9, Zenon
<1>11. Eq(body)
  BY <1>10, Zenon
<1> HIDE DEF body
<1> DEFINE G == {n \in 0 .. N : body[n] \in S}
<1>12. 0 \in G
  BY <1>6, <1>11, Zenon
<1>13. ASSUME NEW n \in 0 .. N - 1, n \in G PROVE n + 1 \in G
  <2>1. n + 1 \in 0 .. N /\ n + 1 # 0 /\ (n + 1) - 1 = n /\ n + 1 \in 1 .. N
    BY <1>1
  <2>2. body[n + 1] = body[n] \o RecordBytes(type, recs[n + 1])
    BY <1>11, <2>1, Zenon
  <2>3. body[n] \in S
    BY <1>13, Zenon
  <2>4. RecordBytes(type, recs[n + 1]) \in S
    BY <2>1, RecordOf, Zenon
  <2> QED
    BY <2>1, <2>2, <2>3, <2>4, ConcatCarries, Zenon
<1>14. 0 .. N \subseteq G
  <2> HIDE DEF G
  <2> QED
    BY <1>1, <1>12, <1>13, CountUp, Zenon
<1>15. body \in [0 .. N -> S]
  <2>1. body = [n \in 0 .. N |-> body[n]]
    BY <1>11, Zenon
  <2> QED
    BY <1>14, <2>1, Zenon
<1>16. body[0] = E /\ \A n \in 1 .. N : body[n] = body[n - 1] \o RecordBytes(type, recs[n])
  BY <1>6, <1>11, Zenon
<1>17. BodyOf(body, E, type, recs)
  BY <1>15, <1>16, Zenon DEF BodyOf
<1> QED
  BY <1>17, Zenon DEF body

\* The n-th record stands in the whole reply where it was written.
InBody(f, type, recs, n) ==
  /\ Carries(f[Len(recs)], Len(f[n - 1]), RecordBytes(type, recs[n]))
  /\ Len(f[n]) = Len(f[n - 1]) + 12 + Len(recs[n])

\* Every record stands in the finished reply, right behind the body before it.
LEMMA BodyCarries ==
  ASSUME NEW E \in Seq(Octet), NEW type \in Word, NEW recs, Writable(recs),
         NEW f, BodyOf(f, E, type, recs)
  PROVE  LET N == Len(recs) IN
           /\ \A n \in 0 .. N : Carries(f[N], 0, f[n])
           /\ \A n \in 1 .. N : InBody(f, type, recs, n)
<1> DEFINE N == Len(recs)
           G == {n \in 0 .. N : \A k \in 0 .. n : Carries(f[n], 0, f[k])}
<1>1. N \in Nat /\ 0 \in Nat
  BY LenProperties, SMT DEF Writable
<1>2. /\ 0 \in 0 .. N /\ N \in 0 .. N
      /\ \A n \in 1 .. N : n \in 0 .. N /\ n - 1 \in 0 .. N
  BY <1>1
<1>3. /\ \A n \in 0 .. N : f[n] \in Seq(Octet)
      /\ \A n \in 1 .. N : f[n] = f[n - 1] \o RecordBytes(type, recs[n])
  BY Zenon DEF BodyOf
<1>4. \A n \in 0 .. N : Carries(f[n], 0, f[n])
  <2> TAKE n \in 0 .. N
  <2>1. Len(f[n]) \in Nat
    BY <1>3, LenProperties, Zenon
  <2>2. 0 + Len(f[n]) <= Len(f[n]) /\ \A i \in 1 .. Len(f[n]) : 0 + i = i
    BY <2>1
  <2> QED
    BY <2>2, Zenon DEF Carries
<1>5. 0 \in G
  <2>1. \A k \in 0 .. 0 : k = 0
    OBVIOUS
  <2> QED
    BY <1>2, <1>4, <2>1, Zenon
<1>6. ASSUME NEW n \in 0 .. N - 1, n \in G PROVE n + 1 \in G
  <2>1. /\ n + 1 \in 0 .. N /\ n \in 0 .. N /\ (n + 1) - 1 = n /\ n + 1 \in 1 .. N
        /\ \A k \in 0 .. n + 1 : k = n + 1 \/ k \in 0 .. n
        /\ \A k \in 0 .. n : k \in 0 .. N
    BY <1>1
  <2> DEFINE r == RecordBytes(type, recs[n + 1])
  <2>2. f[n + 1] = f[n] \o r
    BY <1>3, <2>1, Zenon
  <2>3. r \in Seq(Octet)
    BY <2>1, RecordOf, Zenon
  <2> HIDE DEF r
  <2>4. ASSUME NEW k \in 0 .. n PROVE Carries(f[n + 1], 0, f[k])
    <3>1. Carries(f[n], 0, f[k])
      BY <1>6, Zenon
    <3>2. f[n] \in Seq(Octet) /\ f[k] \in Seq(Octet)
      BY <1>3, <2>1, Zenon
    <3>3. Carries(f[n] \o r, 0, f[k])
      BY <1>1, <2>3, <3>1, <3>2, ConcatKeeps, Zenon
    <3> QED
      BY <2>2, <3>3, Zenon
  <2>5. \A k \in 0 .. n + 1 : Carries(f[n + 1], 0, f[k])
    BY <1>4, <2>1, <2>4, Zenon
  <2> QED
    BY <2>1, <2>5, Zenon
<1>7. 0 .. N \subseteq G
  <2> HIDE DEF G
  <2> QED
    BY <1>1, <1>5, <1>6, CountUp, Zenon
<1>8. \A n \in 0 .. N : Carries(f[N], 0, f[n])
  BY <1>2, <1>7, Zenon
<1>9. ASSUME NEW n \in 1 .. N
      PROVE  /\ Carries(f[N], Len(f[n - 1]), RecordBytes(type, recs[n]))
             /\ Len(f[n]) = Len(f[n - 1]) + 12 + Len(recs[n])
  <2> DEFINE r == RecordBytes(type, recs[n])
             s == f[n - 1]
  <2>1. s \in Seq(Octet) /\ f[n] = s \o r /\ f[n] \in Seq(Octet) /\ f[N] \in Seq(Octet)
    BY <1>2, <1>3, Zenon
  <2>2. r \in Seq(Octet) /\ Len(r) = 12 + Len(recs[n]) /\ Len(recs[n]) \in Nat
    <3>1. recs[n] \in Seq(Octet) /\ Len(recs[n]) \in Word
      BY RecordOf, Zenon
    <3>2. RecordBytes(type, recs[n]) \in Seq(Octet) /\ Len(RecordBytes(type, recs[n])) = 12 + Len(recs[n])
      BY <3>1, RecordIs, Zenon
    <3>3. Len(recs[n]) \in Nat
      BY <3>1, LenProperties, Zenon
    <3> QED
      BY <3>2, <3>3, Zenon
  <2> HIDE DEF r, s
  <2>3. Carries(f[n], Len(s), r) /\ Len(f[n]) = Len(s) + Len(r)
    BY <2>1, <2>2, ConcatCarries, Zenon
  <2>4. Len(s) \in Nat /\ Len(f[n]) \in Nat /\ Len(f[N]) \in Nat /\ Len(r) \in Nat
    BY <2>1, <2>2, LenProperties, Zenon
  <2>5. Carries(f[N], 0, f[n])
    BY <1>2, <1>8, Zenon
  <2>6. Carries(f[N], 0 + Len(s), r)
    BY <1>1, <2>2, <2>3, <2>4, <2>5, CarriesThrough, Zenon
  <2>7. 0 + Len(s) = Len(s) /\ Len(f[n]) = Len(s) + 12 + Len(recs[n])
    <3> DEFINE a == Len(f[n])
               c == Len(s)
               d == Len(recs[n])
    <3>1. a = c + (12 + d) /\ c \in Nat /\ d \in Nat
      BY <2>2, <2>3, <2>4, Zenon
    <3> HIDE DEF a, c, d
    <3>2. 0 + c = c /\ a = c + 12 + d
      BY <3>1
    <3> QED
      BY <3>2, Zenon DEF a, c, d
  <2> QED
    BY <2>6, <2>7, Zenon DEF r, s
<1>10. \A n \in 1 .. N : InBody(f, type, recs, n)
  BY <1>9, Zenon DEF InBody
<1> QED
  BY <1>8, <1>10, Zenon

\* A record of build_response stands in b at P, and the next one at next.
Placed(b, P, type, addr, next) ==
  /\ b \in Seq(Octet) /\ P \in Nat /\ type \in Word /\ addr \in Seq(Octet) /\ Len(addr) \in Word
  /\ Carries(b, P, RecordBytes(type, addr)) /\ next = P + 12 + Len(addr)

\* One step of a walk.
StepsTo(b, t, w, W1, W2) == AddressStep(b, t, w, W1) = W2
TtlStepsTo(b, W1, W2) == TtlStep(b, W1) = W2

\* a_records and aaaa_records at a record of build_response.
LEMMA AddressStepIs ==
  ASSUME NEW b, NEW P, NEW type, NEW addr, NEW next, Placed(b, P, type, addr, next), NEW o, NEW t, NEW w
  PROVE  StepsTo(b, t, w, [out |-> o, p |-> P],
                 [out |-> IF type = t /\ Len(addr) = w THEN Append(o, addr) ELSE o, p |-> next])
<1> DEFINE W == [out |-> o, p |-> P]
           q == P + 2
           n == Len(addr)
<1>0. /\ b \in Seq(Octet) /\ P \in Nat /\ type \in Word /\ addr \in Seq(Octet) /\ n \in Word
      /\ Carries(b, P, RecordBytes(type, addr)) /\ next = P + 12 + n
  BY Zenon DEF Placed
<1>1. /\ SkipName(b, P) = q
      /\ P + 12 + n <= Len(b)
      /\ Short(b, q) = type /\ Short(b, q + 2) = CLASS_IN
      /\ Short(b, q + 8) = n
      /\ Slice(b, q + 10, n) = addr
  BY <1>0, RecordIsRead, Zenon
<1>2. W.p = P /\ W.out = o
  BY Zenon
<1>3. Len(b) \in Nat /\ n \in Nat
  BY <1>0, LenProperties, Zenon
<1>4. q \in Nat /\ ~(q + 10 > Len(b)) /\ ~(q + 10 + n > Len(b)) /\ q + 10 + n = next
  <2> HIDE DEF n
  <2> QED
    BY <1>0, <1>1, <1>3
<1>5. P # None /\ q # None
  BY <1>0, <1>4, NoneIsNoNumber, Zenon
<1> HIDE DEF W, q, n
<1>6. AddressStep(b, t, w, W)
        = [out |-> IF type = t /\ CLASS_IN = CLASS_IN /\ n = w THEN Append(o, addr) ELSE o,
           p |-> q + 10 + n]
  BY <1>1, <1>2, <1>4, <1>5, Zenon DEF AddressStep
<1>7. AddressStep(b, t, w, W)
        = [out |-> IF type = t /\ n = w THEN Append(o, addr) ELSE o, p |-> next]
  BY <1>4, <1>6, Zenon
<1> QED
  BY <1>7, Zenon DEF W, n, StepsTo

\* min_ttl at a record of build_response.
LEMMA TtlStepIs ==
  ASSUME NEW b, NEW P, NEW type, NEW addr, NEW next, Placed(b, P, type, addr, next), NEW T
  PROVE  TtlStepsTo(b, [p |-> P, stop |-> FALSE, ttls |-> T],
                    [p |-> next, stop |-> FALSE, ttls |-> T \cup {Ttl}])
<1> DEFINE W == [p |-> P, stop |-> FALSE, ttls |-> T]
           q == P + 2
           n == Len(addr)
<1>0. /\ b \in Seq(Octet) /\ P \in Nat /\ type \in Word /\ addr \in Seq(Octet) /\ n \in Word
      /\ Carries(b, P, RecordBytes(type, addr)) /\ next = P + 12 + n
  BY Zenon DEF Placed
<1>1. /\ SkipName(b, P) = q
      /\ P + 12 + n <= Len(b)
      /\ Long(b, q + 4) = Ttl
      /\ Short(b, q + 8) = n
  BY <1>0, RecordIsRead, Zenon
<1>2. W.p = P /\ ~W.stop /\ W.ttls = T
  BY Zenon
<1>3. Len(b) \in Nat /\ n \in Nat
  BY <1>0, LenProperties, Zenon
<1>4. q \in Nat /\ ~(q + 10 > Len(b)) /\ q + 10 + n = next
  <2> HIDE DEF n
  <2> QED
    BY <1>0, <1>1, <1>3
<1>5. P # None /\ q # None
  BY <1>0, <1>4, NoneIsNoNumber, Zenon
<1> HIDE DEF W, q, n
<1>6. TtlStep(b, W) = [p |-> q + 10 + n, stop |-> FALSE, ttls |-> T \cup {Ttl}]
  BY <1>1, <1>2, <1>4, <1>5, Zenon DEF TtlStep
<1>7. TtlStep(b, W) = [p |-> next, stop |-> FALSE, ttls |-> T \cup {Ttl}]
  BY <1>4, <1>6, Zenon
<1> QED
  BY <1>7, Zenon DEF W, n, TtlStepsTo

\* f are the bodies of a reply to msg, whose question's name ends at e.
Made(f, e, type, recs) ==
  /\ e \in Nat /\ e >= HEADER_LEN /\ e + 4 <= Len(msg) /\ SkipName(msg, HEADER_LEN) = e
  /\ type \in Word /\ Writable(recs) /\ Len(recs) \in Word
  /\ EchoAt(f[0], e, Len(recs)) /\ BodyOf(f, f[0], type, recs)

\* What precedes the records of a reply, as the walkers read it.
ReplyStarts(b, e, count, P) ==
  /\ b \in Seq(Octet) /\ ~(Len(b) < HEADER_LEN)
  /\ Slice(b, 0, 2) = Slice(msg, 0, 2)
  /\ Slice(b, HEADER_LEN, (e + 4) - HEADER_LEN) = Slice(msg, HEADER_LEN, (e + 4) - HEADER_LEN)
  /\ Short(b, 6) = count /\ PastQuestions(b) = P

\* A reply starts as the query did, and its records behind the question.
LEMMA ReplyStart ==
  ASSUME msg \in Seq(Octet), NEW f, NEW e, NEW type, NEW recs, Made(f, e, type, recs)
  PROVE  ReplyStarts(f[Len(recs)], e, Len(recs), Len(f[0]))
<1> DEFINE N == Len(recs)
           b == f[N]
           E == f[0]
           x == Slice(msg, 0, 2)
           k == (e + 4) - HEADER_LEN
           y == Slice(msg, HEADER_LEN, k)
<1>0. /\ e \in Nat /\ e >= HEADER_LEN /\ e + 4 <= Len(msg) /\ SkipName(msg, HEADER_LEN) = e
      /\ type \in Word /\ Writable(recs) /\ N \in Word
      /\ EchoAt(E, e, N) /\ BodyOf(f, E, type, recs)
  BY Zenon DEF Made
<1>1. /\ E \in Seq(Octet) /\ Len(E) = e + 4
      /\ Carries(E, 0, x) /\ Carries(E, 4, Two(1)) /\ Carries(E, 6, Two(N))
      /\ Carries(E, HEADER_LEN, y)
  BY <1>0, Zenon DEF EchoAt
<1>2. N \in Nat /\ 0 \in 0 .. N /\ N \in 0 .. N
  <2>1. N \in Nat
    BY <1>0, LenProperties, Zenon DEF Writable
  <2> HIDE DEF N
  <2> QED
    BY <2>1
<1>3. b \in Seq(Octet) /\ Len(b) \in Nat /\ Len(E) \in Nat /\ Len(msg) \in Nat
  <2>1. b \in Seq(Octet)
    BY <1>0, <1>2, Zenon DEF BodyOf
  <2> HIDE DEF b, E
  <2> QED
    BY <1>1, <2>1, LenProperties, Zenon
<1>4. Carries(b, 0, E)
  BY <1>0, <1>1, <1>2, BodyCarries, Zenon
<1> HIDE DEF b, E, N
<1>5. HEADER_LEN = 12 /\ HEADER_LEN \in Nat /\ 0 \in Nat /\ 2 \in Nat /\ 4 \in Nat /\ 6 \in Nat
      /\ k \in Nat /\ 0 + 2 <= Len(msg) /\ HEADER_LEN + k <= Len(msg) /\ 1 \in Word
      /\ 0 + 0 = 0 /\ 0 + 4 = 4 /\ 0 + 6 = 6 /\ 0 + HEADER_LEN = HEADER_LEN
      /\ HEADER_LEN + k = e + 4
  BY <1>0, <1>3 DEF HEADER_LEN, Word
<1> HIDE DEF k
<1>6. x \in Seq(Octet) /\ Len(x) = 2 /\ y \in Seq(Octet) /\ Len(y) = k
      /\ Carries(msg, HEADER_LEN, y)
  BY <1>5, SliceOf, Zenon
<1> HIDE DEF x, y
<1>7. Two(1) \in Seq(Octet) /\ Two(N) \in Seq(Octet)
  BY <1>0, <1>5, TwoIs, Zenon
<1>8. Carries(b, 0, x)
  <2>1. Carries(b, 0 + 0, x)
    BY <1>1, <1>3, <1>4, <1>5, <1>6, CarriesThrough, Zenon
  <2> QED
    BY <1>5, <2>1, Zenon
<1>9. Carries(b, 4, Two(1))
  <2>1. Carries(b, 0 + 4, Two(1))
    BY <1>1, <1>3, <1>4, <1>5, <1>7, CarriesThrough, Zenon
  <2> QED
    BY <1>5, <2>1, Zenon
<1>10. Carries(b, 6, Two(N))
  <2>1. Carries(b, 0 + 6, Two(N))
    BY <1>1, <1>3, <1>4, <1>5, <1>7, CarriesThrough, Zenon
  <2> QED
    BY <1>5, <2>1, Zenon
<1>11. Carries(b, HEADER_LEN, y)
  <2>1. Carries(b, 0 + HEADER_LEN, y)
    BY <1>1, <1>3, <1>4, <1>5, <1>6, CarriesThrough, Zenon
  <2> QED
    BY <1>5, <2>1, Zenon
<1>12. Short(b, 4) = 1 /\ Short(b, 6) = N
  BY <1>0, <1>5, <1>9, <1>10, ReadsTwo, Zenon
<1>13. Slice(b, 0, 2) = x /\ Slice(b, HEADER_LEN, k) = y
  <2>1. Slice(b, 0, Len(x)) = x
    BY <1>3, <1>5, <1>6, <1>8, SliceThere, Zenon
  <2>2. Slice(b, HEADER_LEN, Len(y)) = y
    BY <1>3, <1>5, <1>6, <1>11, SliceThere, Zenon
  <2> QED
    BY <1>6, <2>1, <2>2, Zenon
<1>14. e + 4 <= Len(b) /\ e <= Len(b) /\ ~(Len(b) < HEADER_LEN)
  <2>1. HEADER_LEN + Len(y) <= Len(b)
    BY <1>11, Zenon DEF Carries
  <2> QED
    BY <1>0, <1>3, <1>5, <1>6, <2>1
<1>15. ASSUME NEW p \in HEADER_LEN .. e - 1 PROVE At(b, p) = At(msg, p)
  <2> DEFINE i == (p + 1) - HEADER_LEN
  <2>1. i \in 1 .. k /\ HEADER_LEN + i = p + 1
    BY <1>0, <1>5
  <2> HIDE DEF i
  <2>2. b[HEADER_LEN + i] = y[i] /\ msg[HEADER_LEN + i] = y[i]
    BY <1>6, <1>11, <2>1, Zenon DEF Carries
  <2> QED
    BY <2>1, <2>2, Zenon DEF At
<1>16. SkipName(b, HEADER_LEN) = e
  BY <1>0, <1>3, <1>5, <1>14, <1>15, SkipAlike, Zenon
<1>17. PastQuestions(b) = e + 4
  BY <1>0, <1>3, <1>12, <1>14, <1>16, PastOneQuestion, Zenon
<1>18. ReplyStarts(b, e, N, Len(E))
  BY <1>1, <1>3, <1>12, <1>13, <1>14, <1>17, Zenon DEF ReplyStarts, x, y, k
<1> QED
  BY <1>18, Zenon DEF b, N, E

\* The n-th record in the finished reply.
LEMMA RecordInReply ==
  ASSUME NEW f, NEW e, NEW type, NEW recs, Made(f, e, type, recs), NEW n \in 1 .. Len(recs)
  PROVE  Placed(f[Len(recs)], Len(f[n - 1]), type, recs[n], Len(f[n]))
<1> DEFINE N == Len(recs)
           E == f[0]
<1>0. type \in Word /\ Writable(recs) /\ EchoAt(E, e, N) /\ BodyOf(f, E, type, recs)
  BY Zenon DEF Made
<1>1. E \in Seq(Octet)
  BY <1>0, Zenon DEF EchoAt
<1>2. recs[n] \in Seq(Octet) /\ Len(recs[n]) \in Word
  BY <1>0, RecordOf, Zenon
<1>3. N \in Nat
  BY <1>0, LenProperties, Zenon DEF Writable
<1>4. n - 1 \in 0 .. N
  <2> HIDE DEF N
  <2> QED
    BY <1>3 DEF N
<1>5. f[n - 1] \in Seq(Octet)
  BY <1>0, <1>4, Zenon DEF BodyOf
<1>6. Len(f[n - 1]) \in Nat
  BY <1>5, LenProperties, Zenon
<1>7. /\ Carries(f[N], Len(f[n - 1]), RecordBytes(type, recs[n]))
      /\ Len(f[n]) = Len(f[n - 1]) + 12 + Len(recs[n])
  <2>1. InBody(f, type, recs, n)
    BY <1>0, <1>1, BodyCarries, Zenon
  <2> QED
    BY <2>1, Zenon DEF InBody
<1>8. f[N] \in Seq(Octet)
  <2>1. N \in 0 .. N
    <3> HIDE DEF N
    <3> QED
      BY <1>3
  <2> QED
    BY <1>0, <2>1, Zenon DEF BodyOf
<1> QED
  BY <1>0, <1>2, <1>6, <1>7, <1>8, Zenon DEF Placed

\* Records of one width; a type other than the one asked for.
Uniform(recs, w) == \A n \in 1 .. Len(recs) : Len(recs[n]) = w
Another(type, t) == type # t

\* What the walkers find: all the addresses if they were asked for, none if another type was.
LEMMA AddressesAsked ==
  ASSUME msg \in Seq(Octet), NEW f, NEW e, NEW type, NEW recs, Made(f, e, type, recs),
         NEW w, Uniform(recs, w)
  PROVE  Addresses(f[Len(recs)], type, w) = recs
<1> DEFINE N == Len(recs)
           b == f[N]
           W == [n \in 0 .. N |-> [out |-> SubSeq(recs, 1, n), p |-> Len(f[n])]]
<1>1. ReplyStarts(b, e, N, Len(f[0]))
  BY ReplyStart, Zenon
<1>2. b \in Seq(Octet) /\ ~(Len(b) < HEADER_LEN) /\ Short(b, 6) = N /\ PastQuestions(b) = Len(f[0])
  BY <1>1, Zenon DEF ReplyStarts
<1>3. recs \in Seq(Seq(Octet)) /\ N \in Nat
  BY LenProperties, Zenon DEF Made, Writable
<1>4. /\ 0 \in 0 .. N /\ N \in 0 .. N
      /\ \A n \in 1 .. N : n \in 0 .. N /\ n - 1 \in 0 .. N /\ n - 1 \in 0 .. N - 1 /\ (n - 1) + 1 = n
  <2> HIDE DEF N
  <2> QED
    BY <1>3
<1>5. W = [n \in 0 .. N |-> W[n]] /\ \A n \in 0 .. N : W[n] = [out |-> SubSeq(recs, 1, n), p |-> Len(f[n])]
  BY Zenon
<1>6. W[N].out = recs
  <2>1. W[N].out = SubSeq(recs, 1, N)
    BY <1>4, <1>5, Zenon
  <2> HIDE DEF W
  <2> QED
    BY <1>3, <2>1, SubSeqFull, Zenon
<1> HIDE DEF W
<1>7. W[0] = [out |-> <<>>, p |-> PastQuestions(b)]
  <2>1. SubSeq(recs, 1, 0) = <<>>
    <3>1. 1 \in Int /\ 0 \in Int /\ 0 < 1
      OBVIOUS
    <3> QED
      BY <3>1, SubSeqEmpty, Zenon
  <2> QED
    BY <1>2, <1>4, <1>5, <2>1, Zenon
<1>8. ASSUME NEW n \in 1 .. N PROVE W[n] = AddressStep(b, type, w, W[n - 1])
  <2> DEFINE P == Len(f[n - 1])
             o == SubSeq(recs, 1, n - 1)
             a == recs[n]
  <2>1. Placed(b, P, type, a, Len(f[n]))
    BY RecordInReply, Zenon
  <2>2. Len(a) = w
    BY Zenon DEF Uniform
  <2>3. Append(o, a) = SubSeq(recs, 1, n)
    BY <1>3, <1>4, PrefixGrows, Zenon
  <2>4. W[n - 1] = [out |-> o, p |-> P] /\ W[n] = [out |-> SubSeq(recs, 1, n), p |-> Len(f[n])]
    BY <1>4, <1>5, Zenon
  <2> HIDE DEF P, o, a, b
  <2>5. StepsTo(b, type, w, [out |-> o, p |-> P],
                [out |-> IF type = type /\ Len(a) = w THEN Append(o, a) ELSE o, p |-> Len(f[n])])
    BY <2>1, AddressStepIs, Zenon
  <2>6. AddressStep(b, type, w, [out |-> o, p |-> P]) = [out |-> Append(o, a), p |-> Len(f[n])]
    BY <2>2, <2>5, Zenon DEF StepsTo
  <2> QED
    BY <2>3, <2>4, <2>6, Zenon
<1> HIDE DEF b
<1>9. Addresses(b, type, w) = W[N].out
  <2>1. AddressWalkOf(W, b, type, w, N)
    BY <1>2, <1>3, <1>5, <1>7, <1>8, Zenon DEF AddressWalkOf
  <2>2. AddressesAre(b, type, w, W[N].out)
    BY <2>1, AddressWalk, Zenon
  <2> QED
    BY <2>2, Zenon DEF AddressesAre
<1> QED
  BY <1>6, <1>9, Zenon DEF b

\* ... none of another type,
LEMMA AddressesNotAsked ==
  ASSUME msg \in Seq(Octet), NEW f, NEW e, NEW type, NEW recs, Made(f, e, type, recs),
         NEW w, NEW t, Another(type, t)
  PROVE  Addresses(f[Len(recs)], t, w) = <<>>
<1> DEFINE N == Len(recs)
           b == f[N]
           W == [n \in 0 .. N |-> [out |-> <<>>, p |-> Len(f[n])]]
<1>1. ReplyStarts(b, e, N, Len(f[0]))
  BY ReplyStart, Zenon
<1>2. b \in Seq(Octet) /\ ~(Len(b) < HEADER_LEN) /\ Short(b, 6) = N /\ PastQuestions(b) = Len(f[0])
  BY <1>1, Zenon DEF ReplyStarts
<1>3. recs \in Seq(Seq(Octet)) /\ N \in Nat
  BY LenProperties, Zenon DEF Made, Writable
<1>4. /\ 0 \in 0 .. N /\ N \in 0 .. N
      /\ \A n \in 1 .. N : n \in 0 .. N /\ n - 1 \in 0 .. N
  <2> HIDE DEF N
  <2> QED
    BY <1>3
<1>5. W = [n \in 0 .. N |-> W[n]] /\ \A n \in 0 .. N : W[n] = [out |-> <<>>, p |-> Len(f[n])]
  BY Zenon
<1>6. W[N].out = <<>>
  BY <1>4, <1>5, Zenon
<1> HIDE DEF W
<1>7. W[0] = [out |-> <<>>, p |-> PastQuestions(b)]
  BY <1>2, <1>4, <1>5, Zenon
<1>8. ASSUME NEW n \in 1 .. N PROVE W[n] = AddressStep(b, t, w, W[n - 1])
  <2> DEFINE P == Len(f[n - 1])
             a == recs[n]
  <2>1. Placed(b, P, type, a, Len(f[n]))
    BY RecordInReply, Zenon
  <2>2. W[n - 1] = [out |-> <<>>, p |-> P] /\ W[n] = [out |-> <<>>, p |-> Len(f[n])]
    BY <1>4, <1>5, Zenon
  <2> HIDE DEF P, a, b
  <2>3. StepsTo(b, t, w, [out |-> <<>>, p |-> P],
                [out |-> IF type = t /\ Len(a) = w THEN Append(<<>>, a) ELSE <<>>, p |-> Len(f[n])])
    BY <2>1, AddressStepIs, Zenon
  <2>4. AddressStep(b, t, w, [out |-> <<>>, p |-> P]) = [out |-> <<>>, p |-> Len(f[n])]
    BY <2>3, Zenon DEF StepsTo, Another
  <2> QED
    BY <2>2, <2>4, Zenon
<1> HIDE DEF b
<1>9. Addresses(b, t, w) = W[N].out
  <2>1. AddressWalkOf(W, b, t, w, N)
    BY <1>2, <1>3, <1>5, <1>7, <1>8, Zenon DEF AddressWalkOf
  <2>2. AddressesAre(b, t, w, W[N].out)
    BY <2>1, AddressWalk, Zenon
  <2> QED
    BY <2>2, Zenon DEF AddressesAre
<1> QED
  BY <1>6, <1>9, Zenon DEF b

\* What min_ttl finds: the TTL the records were given.
LEMMA TtlFound ==
  ASSUME msg \in Seq(Octet), NEW f, NEW e, NEW type, NEW recs, Made(f, e, type, recs)
  PROVE  MinTtl(f[Len(recs)]) = IF recs = <<>> THEN None ELSE Ttl
<1> DEFINE N == Len(recs)
           b == f[N]
           T(n) == IF n = 0 THEN {} ELSE {Ttl}
           W == [n \in 0 .. N |-> [p |-> Len(f[n]), stop |-> FALSE, ttls |-> T(n)]]
<1>1. ReplyStarts(b, e, N, Len(f[0]))
  BY ReplyStart, Zenon
<1>2. b \in Seq(Octet) /\ Short(b, 6) = N /\ PastQuestions(b) = Len(f[0])
  BY <1>1, Zenon DEF ReplyStarts
<1>3. recs \in Seq(Seq(Octet)) /\ N \in Nat
  BY LenProperties, Zenon DEF Made, Writable
<1>4. /\ 0 \in 0 .. N /\ N \in 0 .. N
      /\ \A n \in 1 .. N : n \in 0 .. N /\ n - 1 \in 0 .. N /\ n # 0
  <2> HIDE DEF N
  <2> QED
    BY <1>3
<1>5. /\ W = [n \in 0 .. N |-> W[n]]
      /\ \A n \in 0 .. N : W[n] = [p |-> Len(f[n]), stop |-> FALSE, ttls |-> T(n)]
  BY Zenon
<1>6. W[N].ttls = T(N)
  BY <1>4, <1>5, Zenon
<1> HIDE DEF W
<1>7. W[0] = [p |-> PastQuestions(b), stop |-> FALSE, ttls |-> {}]
  BY <1>2, <1>4, <1>5, Zenon
<1>8. ASSUME NEW n \in 1 .. N PROVE W[n] = TtlStep(b, W[n - 1])
  <2> DEFINE P == Len(f[n - 1])
             a == recs[n]
             u == T(n - 1)
  <2>1. Placed(b, P, type, a, Len(f[n]))
    BY RecordInReply, Zenon
  <2>2. W[n - 1] = [p |-> P, stop |-> FALSE, ttls |-> u]
    BY <1>4, <1>5, Zenon
  <2>3. W[n] = [p |-> Len(f[n]), stop |-> FALSE, ttls |-> T(n)]
    BY <1>4, <1>5, Zenon
  <2>4. u \cup {Ttl} = T(n)
    BY <1>4, Zenon
  <2> HIDE DEF P, a, b, u, T
  <2>5. TtlStepsTo(b, [p |-> P, stop |-> FALSE, ttls |-> u],
                   [p |-> Len(f[n]), stop |-> FALSE, ttls |-> u \cup {Ttl}])
    BY <2>1, TtlStepIs, Zenon
  <2> QED
    BY <2>2, <2>3, <2>4, <2>5, Zenon DEF TtlStepsTo
<1> HIDE DEF b
<1>9. MinTtl(b) = IF W[N].ttls = {} THEN None
                  ELSE CHOOSE t \in W[N].ttls : \A u \in W[N].ttls : t <= u
  <2>1. TtlWalkOf(W, b, N)
    BY <1>2, <1>3, <1>5, <1>7, <1>8, Zenon DEF TtlWalkOf
  <2> QED
    BY <2>1, TtlWalk, Zenon
<1>10. MinTtl(b) = IF T(N) = {} THEN None ELSE CHOOSE t \in T(N) : \A u \in T(N) : t <= u
  BY <1>6, <1>9, Zenon
<1>11. CASE N = 0
  <2>1. recs = <<>>
    BY <1>3, <1>11, EmptySeq
  <2> QED
    BY <1>10, <1>11, <2>1, Zenon DEF b
<1>12. CASE N # 0
  <2>1. recs # <<>>
    BY <1>12
  <2>2. T(N) = {Ttl} /\ {Ttl} # {}
    BY <1>12, Zenon
  <2>3. Ttl <= Ttl
    BY WireAssumption
  <2>4. (CHOOSE t \in {Ttl} : \A u \in {Ttl} : t <= u) = Ttl
    BY <2>3, Zenon
  <2> QED
    BY <1>10, <2>1, <2>2, <2>4, Zenon DEF b
<1> QED
  BY <1>11, <1>12, Zenon

\* The addresses build_response keeps: no more than it was given, all of the right length.
LEMMA FittingIs ==
  ASSUME NEW addrs \in Seq(Seq(Octet)), NEW type
  PROVE  LET F == Fitting(addrs, type) IN
           /\ F \in Seq(Seq(Octet)) /\ Len(F) <= Len(addrs)
           /\ \A n \in 1 .. Len(F) : Fits(F[n], type)
<1> DEFINE N == Len(addrs)
           A == Seq(Octet)
           Eq(f) == f = [n \in 0 .. N |-> IF n = 0 THEN <<>>
                           ELSE IF Fits(addrs[n], type) THEN Append(f[n - 1], addrs[n]) ELSE f[n - 1]]
           keep == CHOOSE f : Eq(f)
           step == [q \in Seq(A) \X (1 .. N) |->
                      IF Fits(addrs[q[2]], type) THEN Append(q[1], addrs[q[2]]) ELSE q[1]]
<1>1. N \in Nat
  BY LenProperties, Zenon
<1>2. \A n \in 1 .. N : addrs[n] \in A
  BY ElementOfSeq, Zenon
<1>3. Fitting(addrs, type) = keep[N]
  BY Zenon DEF Fitting
<1>4. <<>> \in Seq(A) /\ Len(<<>>) = 0
  BY EmptySeq, Zenon
<1>5. step \in [Seq(A) \X (1 .. N) -> Seq(A)]
  <2>1. ASSUME NEW q \in Seq(A) \X (1 .. N)
        PROVE  (IF Fits(addrs[q[2]], type) THEN Append(q[1], addrs[q[2]]) ELSE q[1]) \in Seq(A)
    <3>1. q[1] \in Seq(A) /\ addrs[q[2]] \in A
      BY <1>2, Zenon
    <3>2. Append(q[1], addrs[q[2]]) \in Seq(A)
      BY <3>1, AppendProperties, Zenon
    <3> QED
      BY <3>1, <3>2, Zenon
  <2> QED
    BY <2>1, Zenon
<1>6. \A s \in Seq(A), n \in 1 .. N :
        step[<<s, n>>] = IF Fits(addrs[n], type) THEN Append(s, addrs[n]) ELSE s
  BY Zenon
<1> HIDE DEF step
<1>7. PICK g : Iterates(g, N, Seq(A), <<>>, step)
  BY <1>1, <1>4, <1>5, Iteration, Zenon
<1>8. /\ g \in [0 .. N -> Seq(A)] /\ g[0] = <<>>
      /\ \A n \in 1 .. N : g[n] = step[<<g[n - 1], n>>]
  BY <1>7, Zenon DEF Iterates
<1>9. /\ 0 \in 0 .. N /\ N \in 0 .. N /\ \A n \in 0 .. N : n = 0 \/ n \in 1 .. N
      /\ \A n \in 1 .. N : n # 0 /\ n \in 0 .. N /\ n - 1 \in 0 .. N
  <2> HIDE DEF N
  <2> QED
    BY <1>1
<1>10. \A n \in 1 .. N : g[n] = IF Fits(addrs[n], type) THEN Append(g[n - 1], addrs[n]) ELSE g[n - 1]
  BY <1>6, <1>8, <1>9, Zenon
<1>11. \A n \in 0 .. N : g[n] = IF n = 0 THEN <<>>
          ELSE IF Fits(addrs[n], type) THEN Append(g[n - 1], addrs[n]) ELSE g[n - 1]
  <2> TAKE n \in 0 .. N
  <2>1. CASE n = 0
    BY <1>8, <2>1, Zenon
  <2>2. CASE n # 0
    BY <1>9, <1>10, <2>2, Zenon
  <2> QED
    BY <2>1, <2>2
<1>12. g = [n \in 0 .. N |-> g[n]]
  BY <1>8, Zenon
<1>13. Eq(g)
  BY <1>11, <1>12, Zenon
<1>14. Eq(keep)
  BY <1>13, Zenon
<1> HIDE DEF keep
<1>15. \A n \in 0 .. N : keep[n] = IF n = 0 THEN <<>>
          ELSE IF Fits(addrs[n], type) THEN Append(keep[n - 1], addrs[n]) ELSE keep[n - 1]
  BY <1>14, Zenon
<1> DEFINE Ok(s, n) == s \in Seq(A) /\ Len(s) <= n /\ \A i \in 1 .. Len(s) : Fits(s[i], type)
           G == {n \in 0 .. N : Ok(keep[n], n)}
<1>16. 0 \in G
  <2>1. keep[0] = <<>>
    BY <1>9, <1>15, Zenon
  <2>2. 0 <= 0 /\ 1 .. 0 = {}
    OBVIOUS
  <2>3. Ok(<<>>, 0)
    BY <1>4, <2>2, Zenon
  <2> QED
    BY <1>9, <2>1, <2>3, Zenon
<1>17. ASSUME NEW n \in 0 .. N - 1, n \in G PROVE n + 1 \in G
  <2> DEFINE s == keep[n]
             a == addrs[n + 1]
             u == Append(s, a)
  <2>1. n + 1 \in 0 .. N /\ n + 1 # 0 /\ (n + 1) - 1 = n /\ n + 1 \in 1 .. N
    <3> HIDE DEF N
    <3> QED
      BY <1>1
  <2>2. keep[n + 1] = IF Fits(a, type) THEN u ELSE s
    BY <1>15, <2>1, Zenon
  <2>3. s \in Seq(A) /\ Len(s) <= n /\ (\A i \in 1 .. Len(s) : Fits(s[i], type)) /\ a \in A
    BY <1>2, <1>17, <2>1, Zenon
  <2> HIDE DEF s, a, N
  <2>4. Len(s) \in Nat /\ n \in Nat
    BY <1>1, <2>3, LenProperties, SMT
  <2>5. Len(s) <= n + 1 /\ Len(s) + 1 <= n + 1
    BY <2>3, <2>4
  <2>6. Ok(s, n + 1)
    BY <2>3, <2>5, Zenon
  <2>7. ASSUME Fits(a, type) PROVE Ok(u, n + 1)
    <3>1. u \in Seq(A) /\ Len(u) = Len(s) + 1 /\ (\A i \in 1 .. Len(s) : u[i] = s[i])
          /\ u[Len(s) + 1] = a
      <4>1. s \in Seq(A) /\ a \in A
        BY <2>3, Zenon
      <4> HIDE DEF A
      <4> QED
        BY <4>1, AppendProperties
    <3> HIDE DEF u
    <3>2. \A i \in 1 .. Len(u) : i \in 1 .. Len(s) \/ i = Len(s) + 1
      BY <2>4, <3>1
    <3>3. \A i \in 1 .. Len(u) : Fits(u[i], type)
      BY <2>3, <2>7, <3>1, <3>2, Zenon
    <3>4. Len(u) <= n + 1
      BY <2>5, <3>1, Zenon
    <3> QED
      BY <3>1, <3>3, <3>4, Zenon
  <2> HIDE DEF u, Ok
  <2>8. Ok(keep[n + 1], n + 1)
    BY <2>2, <2>6, <2>7, Zenon
  <2> QED
    BY <2>1, <2>8, Zenon
<1>18. 0 .. N \subseteq G
  <2> HIDE DEF G, N
  <2> QED
    BY <1>1, <1>16, <1>17, CountUp, Zenon
<1>19. Ok(keep[N], N)
  BY <1>9, <1>18, Zenon
<1> QED
  BY <1>3, <1>19, Zenon

\* The records of a reply to the question that was read.
RecordsFor(of) == IF Question.class = CLASS_IN THEN Fitting(of, Question.type) ELSE <<>>

\* They fit into 16 bits, and into the type of the question.
LEMMA RecordsForIs ==
  ASSUME NEW of \in Seq(Seq(Octet)), Len(of) \in Word
  PROVE  LET recs == RecordsFor(of) IN
           /\ recs \in Seq(Seq(Octet)) /\ Len(recs) \in Word
           /\ \A n \in 1 .. Len(recs) : Fits(recs[n], Question.type)
<1> DEFINE t == Question.type
           F == Fitting(of, t)
<1>1. F \in Seq(Seq(Octet)) /\ Len(F) <= Len(of) /\ \A n \in 1 .. Len(F) : Fits(F[n], t)
  BY FittingIs, Zenon
<1>2. Len(F) \in Nat /\ Len(of) \in Nat
  BY <1>1, LenProperties, Zenon
<1>3. Len(F) \in Word
  <2> HIDE DEF F
  <2> QED
    BY <1>1, <1>2 DEF Word
<1>4. <<>> \in Seq(Seq(Octet)) /\ Len(<<>>) = 0
  BY EmptySeq, Zenon
<1>5. 0 \in Word /\ 1 .. 0 = {}
  BY DEF Word
<1>6. <<>> \in Seq(Seq(Octet)) /\ Len(<<>>) \in Word /\ \A n \in 1 .. Len(<<>>) : Fits(<<>>[n], t)
  BY <1>4, <1>5, Zenon
<1> QED
  BY <1>1, <1>3, <1>6, Zenon DEF RecordsFor

\* Addresses that fit a type are as long as the type says.
LEMMA FitsMeans ==
  ASSUME NEW recs \in Seq(Seq(Octet)), NEW t, \A n \in 1 .. Len(recs) : Fits(recs[n], t)
  PROVE  /\ Writable(recs)
         /\ t = TYPE_A => Uniform(recs, 4)
         /\ t = TYPE_AAAA => Uniform(recs, 16)
         /\ t # TYPE_A /\ t # TYPE_AAAA => recs = <<>>
<1>0. TYPE_A # TYPE_AAAA /\ 4 \in Word /\ 16 \in Word
  BY DEF TYPE_A, TYPE_AAAA, Word
<1>1. \A n \in 1 .. Len(recs) : (t = TYPE_A /\ Len(recs[n]) = 4) \/ (t = TYPE_AAAA /\ Len(recs[n]) = 16)
  BY Zenon DEF Fits
<1>2. Writable(recs)
  BY <1>0, <1>1, Zenon DEF Writable
<1>3. t = TYPE_A => Uniform(recs, 4)
  BY <1>0, <1>1, Zenon DEF Uniform
<1>4. t = TYPE_AAAA => Uniform(recs, 16)
  BY <1>0, <1>1, Zenon DEF Uniform
<1>5. ASSUME t # TYPE_A, t # TYPE_AAAA PROVE recs = <<>>
  <2>1. \A n \in 1 .. Len(recs) : FALSE
    BY <1>1, <1>5, Zenon
  <2> QED
    BY <2>1
<1> QED
  BY <1>2, <1>3, <1>4, <1>5, Zenon

\* A reply made of the records for its addresses is read back.
LEMMA MadeReadsBack ==
  ASSUME msg \in Seq(Octet), NEW of \in Seq(Seq(Octet)), Len(of) \in Word,
         NEW f, Made(f, after, Question.type, RecordsFor(of)),
         reply = [of |-> of, bytes |-> f[Len(RecordsFor(of))]]
  PROVE  RepliesReadBack
<1> DEFINE recs == RecordsFor(of)
           t == Question.type
           c == Question.class
           b == f[Len(recs)]
           v4 == IF t = TYPE_A /\ c = CLASS_IN THEN Fitting(of, TYPE_A) ELSE <<>>
           v6 == IF t = TYPE_AAAA /\ c = CLASS_IN THEN Fitting(of, TYPE_AAAA) ELSE <<>>
<1>1. recs \in Seq(Seq(Octet)) /\ \A n \in 1 .. Len(recs) : Fits(recs[n], t)
  BY RecordsForIs, Zenon
<1>2. reply.of = of /\ reply.bytes = b
  BY Zenon
<1>3. Made(f, after, t, recs)
  BY Zenon
<1>4. v4 = IF t = TYPE_A THEN recs ELSE <<>>
  BY Zenon DEF RecordsFor
<1>5. v6 = IF t = TYPE_AAAA THEN recs ELSE <<>>
  BY Zenon DEF RecordsFor
<1>6. TYPE_A # TYPE_AAAA
  BY DEF TYPE_A, TYPE_AAAA
<1>7. ReplyStarts(b, after, Len(recs), Len(f[0]))
  BY <1>3, ReplyStart, Zenon
<1>8. MinTtl(b) = IF recs = <<>> THEN None ELSE Ttl
  BY <1>3, TtlFound, Zenon
<1>9. /\ t = TYPE_A => Uniform(recs, 4)
      /\ t = TYPE_AAAA => Uniform(recs, 16)
      /\ t # TYPE_A /\ t # TYPE_AAAA => recs = <<>>
  BY <1>1, FitsMeans, Zenon
<1>10. Addresses(b, TYPE_A, 4) = v4
  <2>1. CASE t = TYPE_A
    <3>0. Uniform(recs, 4)
      BY <1>9, <2>1, Zenon
    <3>1. Addresses(b, t, 4) = recs
      BY <1>3, <3>0, AddressesAsked, Zenon
    <3> QED
      BY <1>4, <2>1, <3>1, Zenon
  <2>2. CASE t # TYPE_A
    <3>1. Another(t, TYPE_A)
      BY <2>2, Zenon DEF Another
    <3>2. Addresses(b, TYPE_A, 4) = <<>>
      BY <1>3, <3>1, AddressesNotAsked, Zenon
    <3> QED
      BY <1>4, <2>2, <3>2, Zenon
  <2> QED
    BY <2>1, <2>2
<1>11. Addresses(b, TYPE_AAAA, 16) = v6
  <2>1. CASE t = TYPE_AAAA
    <3>0. Uniform(recs, 16)
      BY <1>9, <2>1, Zenon
    <3>1. Addresses(b, t, 16) = recs
      BY <1>3, <3>0, AddressesAsked, Zenon
    <3> QED
      BY <1>5, <2>1, <3>1, Zenon
  <2>2. CASE t # TYPE_AAAA
    <3>1. Another(t, TYPE_AAAA)
      BY <2>2, Zenon DEF Another
    <3>2. Addresses(b, TYPE_AAAA, 16) = <<>>
      BY <1>3, <3>1, AddressesNotAsked, Zenon
    <3> QED
      BY <1>5, <2>2, <3>2, Zenon
  <2> QED
    BY <2>1, <2>2
<1>12. v4 \o v6 = recs
  <2> HIDE DEF v4, v6, recs, t
  <2>1. recs \o <<>> = recs /\ <<>> \o recs = recs
    BY <1>1, ConcatEmptySeq, Zenon
  <2>2. CASE t = TYPE_A
    BY <1>4, <1>5, <1>6, <2>1, <2>2, Zenon
  <2>3. CASE t = TYPE_AAAA
    BY <1>4, <1>5, <1>6, <2>1, <2>3, Zenon
  <2>4. CASE t # TYPE_A /\ t # TYPE_AAAA
    BY <1>4, <1>5, <1>9, <2>1, <2>4, Zenon
  <2> QED
    BY <2>2, <2>3, <2>4, Zenon
<1>13. (after + 4) - HEADER_LEN = after + 4 - HEADER_LEN
  <2>1. after \in Nat
    BY <1>3, Zenon DEF Made
  <2> QED
    BY <2>1 DEF HEADER_LEN
<1>14. /\ Slice(b, 0, 2) = Slice(msg, 0, 2)
       /\ Slice(b, HEADER_LEN, after + 4 - HEADER_LEN) = Slice(msg, HEADER_LEN, after + 4 - HEADER_LEN)
  BY <1>7, <1>13, Zenon DEF ReplyStarts
<1> HIDE DEF b, recs, t, c
<1>15. MinTtl(b) = IF v4 \o v6 = <<>> THEN None ELSE Ttl
  BY <1>8, <1>12, Zenon
<1> QED
  BY <1>2, <1>10, <1>11, <1>14, <1>15, Zenon DEF RepliesReadBack, t, c

\* A question that was read has a type and ends inside its message.
LEMMA QuestionIs ==
  ASSUME ReaderInv, HasQuestion
  PROVE  /\ msg \in Seq(Octet) /\ after \in Nat /\ after >= HEADER_LEN
         /\ SkipName(msg, HEADER_LEN) = after /\ after + 4 <= Len(msg)
         /\ Question.type \in Word
<1>1. /\ msg \in Inputs /\ after \in Nat /\ after >= HEADER_LEN
      /\ SkipName(msg, HEADER_LEN) = after /\ after + 4 <= Len(msg)
  BY Zenon DEF ReaderInv, HasQuestion, WireTypeOK, SkipperFollows
<1>2. msg \in Seq(Octet) /\ Len(msg) \in Nat
  BY <1>1, MessageIs, Zenon
<1>3. after + 2 <= Len(msg)
  BY <1>1, <1>2
<1>4. Short(msg, after) \in Word
  BY <1>1, <1>2, <1>3, ShortIsWord, Zenon
<1>5. Question.type = Short(msg, after)
  BY Zenon DEF Question
<1> QED
  BY <1>1, <1>2, <1>4, <1>5, Zenon

\* build_response, of the message and what was read of it.
ResponseTo(m, e, ls, addrs) ==
  LET q == [name |-> ls, type |-> Short(m, e), class |-> Short(m, e + 2)]
      recs == IF q.class = CLASS_IN THEN Fitting(addrs, q.type) ELSE <<>>
      body[n \in 0 .. Len(recs)] ==
        IF n = 0
        THEN LET past == SkipName(m, HEADER_LEN) + 4
             IN  Slice(m, 0, 2) \o <<129, 128 + 0>> \o Two(1) \o Two(Len(recs)) \o <<0, 0, 0, 0>>
                   \o Slice(m, HEADER_LEN, past - HEADER_LEN)
        ELSE body[n - 1] \o RecordBytes(q.type, recs[n])
  IN  body[Len(recs)]

\* build_nxdomain, likewise.
NxdomainTo(m) ==
  LET past == SkipName(m, HEADER_LEN) + 4
  IN  Slice(m, 0, 2) \o <<129, 128 + 3>> \o Two(1) \o Two(0) \o <<0, 0, 0, 0>>
        \o Slice(m, HEADER_LEN, past - HEADER_LEN)

\* That is what they are.
LEMMA ResponseIs ==
  ASSUME NEW a
  PROVE  BuildResponse(a) = ResponseTo(msg, after, labels, a)
BY Zenon DEF BuildResponse, ResponseTo, Echo, Question

\* The same for build_nxdomain.
LEMMA NxdomainIs == BuildNxdomain = NxdomainTo(msg)
BY Zenon DEF BuildNxdomain, NxdomainTo, Echo

\* What build_response makes is read back,
LEMMA ResponseReadsBack ==
  ASSUME ReaderInv, HasQuestion, NEW a \in Answers, reply = [of |-> a, bytes |-> BuildResponse(a)]
  PROVE  RepliesReadBack
<1> DEFINE recs == RecordsFor(a)
           N == Len(recs)
           t == Question.type
           E == Echo(0, N)
           f == CHOOSE g : g = [n \in 0 .. N |-> IF n = 0 THEN E
                                       ELSE g[n - 1] \o RecordBytes(t, recs[n])]
<1>1. /\ msg \in Seq(Octet) /\ after \in Nat /\ after >= HEADER_LEN
      /\ SkipName(msg, HEADER_LEN) = after /\ after + 4 <= Len(msg)
      /\ t \in Word
  BY QuestionIs, Zenon
<1>2. a \in Seq(Seq(Octet)) /\ Len(a) \in Word
  <2>1. a \in Seq(Seq(0 .. 255)) /\ Len(a) < 65536
    BY WireAssumption
  <2>2. a \in Seq(Seq(Octet))
    <3>1. a \in Seq(Seq(0 .. 255))
      BY WireAssumption
    <3> QED
      BY ONLY <3>1, Zenon DEF Octet
  <2>3. Len(a) \in Nat
    BY <2>2, LenProperties, Zenon
  <2>4. Len(a) \in Word
    BY <2>1, <2>3 DEF Word
  <2> QED
    BY <2>2, <2>4, Zenon
<1>3. /\ recs \in Seq(Seq(Octet)) /\ N \in Word
      /\ \A n \in 1 .. N : Fits(recs[n], t)
  BY <1>2, RecordsForIs, Zenon
<1>4. Writable(recs)
  BY <1>3, FitsMeans, Zenon
<1>5. EchoAt(E, after, N)
  <2>1. 0 \in 0 .. 3
    OBVIOUS
  <2> HIDE DEF N
  <2> QED
    BY <1>1, <1>3, <2>1, EchoIs, Zenon
<1>6. E \in Seq(Octet)
  BY <1>5, Zenon DEF EchoAt
<1>7. BodyOf(f, E, t, recs)
  <2> HIDE DEF E, t, recs
  <2> QED
    BY <1>1, <1>4, <1>6, BodyExists, Zenon
<1>8. BuildResponse(a) = f[N]
  BY Zenon DEF BuildResponse, RecordsFor
<1> HIDE DEF f, E
<1>9. f[0] = E
  BY <1>7, Zenon DEF BodyOf
<1>10. Made(f, after, t, recs)
  BY <1>1, <1>3, <1>4, <1>5, <1>7, <1>9, Zenon DEF Made
<1>11. reply = [of |-> a, bytes |-> f[N]]
  BY <1>8, Zenon
<1> QED
  BY <1>1, <1>2, <1>10, <1>11, MadeReadsBack, Zenon

\* ... and what build_nxdomain makes.
LEMMA NxdomainReadsBack ==
  ASSUME ReaderInv, HasQuestion, reply = [of |-> <<>>, bytes |-> BuildNxdomain]
  PROVE  RepliesReadBack
<1> DEFINE t == Question.type
           E == Echo(3, 0)
           f == [n \in {0} |-> E]
           none == <<>>
           recs == RecordsFor(none)
<1>1. /\ msg \in Seq(Octet) /\ after \in Nat /\ after >= HEADER_LEN
      /\ SkipName(msg, HEADER_LEN) = after /\ after + 4 <= Len(msg)
      /\ t \in Word
  BY QuestionIs, Zenon
<1>2. 0 \in Word /\ 3 \in 0 .. 3 /\ 1 .. 0 = {} /\ 0 .. 0 = {0}
  BY DEF Word
<1>3. none \in Seq(Seq(Octet)) /\ Len(none) = 0
  BY EmptySeq, Zenon
<1>4. Len(none) \in Word
  BY <1>2, <1>3, Zenon
<1>5. recs = none
  <2>1. /\ Fitting(none, t) \in Seq(Seq(Octet))
        /\ Len(Fitting(none, t)) <= Len(none)
    BY <1>3, FittingIs, Zenon
  <2>2. Fitting(none, t) = <<>>
    <3> DEFINE F == Fitting(none, t)
               A == Seq(Octet)
    <3>1. F \in Seq(A) /\ Len(F) <= 0
      BY <1>3, <2>1, Zenon
    <3> HIDE DEF F, A
    <3>2. F = <<>>
      BY <3>1
    <3> QED
      BY <3>2 DEF F
  <2> QED
    BY <2>2, Zenon DEF RecordsFor
<1>6. Len(recs) = 0
  BY <1>3, <1>5, Zenon
<1>7. EchoAt(E, after, 0)
  BY <1>1, <1>2, EchoIs, Zenon
<1>8. E \in Seq(Octet)
  BY <1>7, Zenon DEF EchoAt
<1>9. Writable(recs) /\ Len(recs) \in Word
  BY <1>2, <1>3, <1>5, <1>6, Zenon DEF Writable
<1>10. f[0] = E /\ f \in [{0} -> Seq(Octet)]
  <2> HIDE DEF E
  <2> QED
    BY <1>8, Zenon
<1> HIDE DEF f, E, recs
<1>11. BodyOf(f, f[0], t, recs)
  BY <1>2, <1>6, <1>10, Zenon DEF BodyOf
<1>12. EchoAt(f[0], after, Len(recs))
  BY <1>6, <1>7, <1>10, Zenon
<1>13. Made(f, after, t, recs)
  BY <1>1, <1>9, <1>11, <1>12, Zenon DEF Made
<1>14. reply = [of |-> none, bytes |-> f[Len(recs)]]
  <2>1. BuildNxdomain = f[Len(recs)]
    BY <1>6, <1>10, Zenon DEF BuildNxdomain, E
  <2> QED
    BY <2>1, Zenon
<1> HIDE DEF none, t
<1> QED
  BY <1>1, <1>3, <1>4, <1>13, <1>14, MadeReadsBack, Zenon DEF recs, t

\* Every reply is made of the question that was read, and ends the reading.
ReplyInv ==
  reply # None =>
    /\ HasQuestion
    /\ \/ \E a \in Answers : reply = [of |-> a, bytes |-> ResponseTo(msg, after, labels, a)]
       \/ reply = [of |-> <<>>, bytes |-> NxdomainTo(msg)]

\* Every reply is read back.
LEMMA RepliesAreRight ==
  ASSUME ReaderInv, ReplyInv
  PROVE  RepliesReadBack
<1>1. CASE reply = None
  BY <1>1, Zenon DEF RepliesReadBack
<1>2. ASSUME reply # None, NEW a \in Answers,
             reply = [of |-> a, bytes |-> ResponseTo(msg, after, labels, a)]
      PROVE  RepliesReadBack
  <2>1. HasQuestion
    BY <1>2, Zenon DEF ReplyInv
  <2>2. reply = [of |-> a, bytes |-> BuildResponse(a)]
    BY <1>2, ResponseIs, Zenon
  <2> QED
    BY <2>1, <2>2, ResponseReadsBack, Zenon
<1>3. ASSUME reply # None, reply = [of |-> <<>>, bytes |-> NxdomainTo(msg)]
      PROVE  RepliesReadBack
  <2>1. HasQuestion
    BY <1>3, Zenon DEF ReplyInv
  <2>2. reply = [of |-> <<>>, bytes |-> BuildNxdomain]
    BY <1>3, NxdomainIs, Zenon
  <2> QED
    BY <2>1, <2>2, NxdomainReadsBack, Zenon
<1> QED
  BY <1>1, <1>2, <1>3, Zenon DEF ReplyInv

\* A reply is the last step, and made of the question that was read.
LEMMA ReplyKept ==
  ASSUME ReplyInv, WireNext \/ UNCHANGED wvars
  PROVE  ReplyInv'
<1>1. ASSUME ReadStep PROVE ReplyInv'
  <2>1. done = "reading" /\ reply' = reply
    BY <1>1, Zenon DEF ReadStep, Refuses, ReadsLabel, ReadsEnd, ReadsPointer, Reading, Hop
  <2>2. reply = None
    BY <2>1 DEF ReplyInv, HasQuestion
  <2> QED
    BY <2>1, <2>2, Zenon DEF ReplyInv
<1>2. ASSUME NEW a \in Answers, Responds(a) PROVE ReplyInv'
  <2>1. /\ HasQuestion /\ msg' = msg /\ after' = after /\ labels' = labels /\ done' = done
        /\ reply' = [of |-> a, bytes |-> BuildResponse(a)]
    BY <1>2, Zenon DEF Responds, reader
  <2>2. HasQuestion'
    BY <2>1, Zenon DEF HasQuestion
  <2>3. reply' = [of |-> a, bytes |-> ResponseTo(msg', after', labels', a)]
    BY <2>1, ResponseIs, Zenon
  <2> QED
    BY <2>2, <2>3, Zenon DEF ReplyInv
<1>3. ASSUME RespondsNxdomain PROVE ReplyInv'
  <2>1. /\ HasQuestion /\ msg' = msg /\ after' = after /\ labels' = labels /\ done' = done
        /\ reply' = [of |-> <<>>, bytes |-> BuildNxdomain]
    BY <1>3, Zenon DEF RespondsNxdomain, reader
  <2>2. HasQuestion'
    BY <2>1, Zenon DEF HasQuestion
  <2>3. reply' = [of |-> <<>>, bytes |-> NxdomainTo(msg')]
    BY <2>1, NxdomainIs, Zenon
  <2> QED
    BY <2>2, <2>3, Zenon DEF ReplyInv
<1>4. ASSUME UNCHANGED wvars PROVE ReplyInv'
  <2>1. msg' = msg /\ after' = after /\ labels' = labels /\ done' = done /\ reply' = reply
    BY <1>4, Zenon DEF wvars, reader
  <2>2. HasQuestion => HasQuestion'
    BY <2>1, Zenon DEF HasQuestion
  <2> QED
    BY <2>1, <2>2, Zenon DEF ReplyInv
<1> QED
  BY <1>1, <1>2, <1>3, <1>4, Zenon DEF WireNext

\* For every message, whatever its bytes, and every list of addresses and TTL: where a
\* name ends read_name and skip_name agree, read_name gives up for want of budget only
\* in a pointer loop, and a reply build_response or build_nxdomain makes is read back by
\* question, a_records, aaaa_records and min_ttl as what it was made of.
THEOREM WireRepliesAreRead == WireSpec => []WireIsRead
<1>1. WireInit => ReaderInv /\ ReplyInv
  BY ReaderStarts, Zenon DEF WireInit, ReplyInv
<1>2. ReaderInv /\ ReplyInv /\ [WireNext]_wvars => ReaderInv' /\ ReplyInv'
  <2> SUFFICES ASSUME ReaderInv, ReplyInv, WireNext \/ UNCHANGED wvars
               PROVE  ReaderInv' /\ ReplyInv'
    BY Zenon
  <2>1. ReplyInv'
    BY ReplyKept, Zenon
  <2>2. ASSUME ReadStep PROVE ReaderInv'
    BY <2>2, LabelKeeps, EndKeeps, PointerKeeps, RefusalKeeps, Zenon DEF ReadStep
  <2>3. ASSUME (\E a \in Answers : Responds(a)) \/ RespondsNxdomain \/ UNCHANGED wvars
        PROVE  ReaderInv'
    <3>1. UNCHANGED <<msg, reader>>
      BY <2>3, Zenon DEF Responds, RespondsNxdomain, wvars
    <3> QED
      BY <3>1, RestKeeps, Zenon
  <2> QED
    BY <2>1, <2>2, <2>3, Zenon DEF WireNext
<1>3. ReaderInv /\ ReplyInv => WireIsRead
  BY ReaderIsRight, RepliesAreRight, Zenon DEF WireIsRead
<1> QED
  BY <1>1, <1>2, <1>3, PTL DEF WireSpec
=============================================================================
