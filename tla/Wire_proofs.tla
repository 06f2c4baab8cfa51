---------------------------- MODULE Wire_proofs -----------------------------
(***************************************************************************)
(* Proofs about the carriers of a datagram (Obfs) and the reader of names  *)
(* in DNS messages (DnsWire), for every datagram, message and choice of    *)
(* random bits, and what they need of numbers, of functions defined by     *)
(* recursion and of sequences.                                             *)
(*                                                                         *)
(* A recursive function is known by its equation only after it has been    *)
(* shown to exist: Iteration makes one step by step, CountUp shows that    *)
(* what holds at 0 and is kept by every step holds up to the end.          *)
(*                                                                         *)
(* base64: the encoder is taken group by group, three bytes to four        *)
(* characters.  The decoder works on a buffer of bits that does not stop   *)
(* at groups, so the invariant of its loop says what is in the buffer      *)
(* after each character of a group.                                        *)
(*                                                                         *)
(* read_name and skip_name: from where the reader stands the skipper ends  *)
(* where it ends from the start, until the first jump fixes that place     *)
(* (SkipperFollows).  Each hop of the reader costs one of the budget and,  *)
(* unless it repeats one, adds an offset to those it has stood on.  There  *)
(* are fewer offsets to leave than the budget, so who has spent it has     *)
(* come back (TrailOK).                                                    *)
(***************************************************************************)
EXTENDS Obfs, DnsWire, Integers, FiniteSetTheorems, WellFoundedInduction,
        SequenceTheorems, TLAPS

-----------------------------------------------------------------------------
(* Numbers, recursion and sequences.                                       *)

\* A set of natural numbers has a least element.
LEMMA LeastNat ==
  ASSUME NEW S, S \subseteq Nat, S # {}
  PROVE  \E k \in S : \A j \in S : k <= j
<1> DEFINE R == {e \in Nat \X Nat : e[1] < e[2]}
<1>1. IsWellFoundedOn(R, Nat)
  BY NatLessThanWellFounded, Zenon DEF OpToRel
<1> HIDE DEF R
<1>2. PICK k \in S : \A j \in S : ~(<<j, k>> \in R)
  BY <1>1, WFMin, Zenon
<1>3. \A j \in S : ~(j < k)
  BY <1>2, Zenon DEF R
<1> QED
  BY <1>3

\* Induction up to a bound, for a set of numbers.
LEMMA CountUp ==
  ASSUME NEW N \in Nat, NEW G, 0 \in G, \A i \in 0 .. N - 1 : i \in G => i + 1 \in G
  PROVE  0 .. N \subseteq G
<1> DEFINE bad == {i \in 0 .. N : i \notin G}
<1>1. SUFFICES ASSUME bad # {} PROVE FALSE
  BY Zenon
<1>2. PICK n \in bad : \A k \in bad : n <= k
  <2>1. bad \subseteq Nat
    OBVIOUS
  <2> QED
    BY <1>1, <2>1, LeastNat, Zenon
<1>3. n \in 0 .. N /\ n \notin G /\ n # 0
  BY Zenon
<1>4. n - 1 \in 0 .. N - 1 /\ n - 1 \in 0 .. N /\ ~(n <= n - 1) /\ (n - 1) + 1 = n
  BY <1>3, SMT
<1>5. n - 1 \in G
  BY <1>2, <1>4, Zenon
<1> QED
  BY <1>3, <1>4, <1>5, Zenon

\* f is the iteration of step, from base, N times.
Iterates(f, N, S, base, step) ==
  f \in [0 .. N -> S] /\ f[0] = base /\ \A i \in 1 .. N : f[i] = step[<<f[i - 1], i>>]

\* A function can be defined by recursion over the numbers up to N.
LEMMA Iteration ==
  ASSUME NEW N \in Nat, NEW S, NEW base \in S, NEW step \in [S \X (1 .. N) -> S]
  PROVE  \E f : Iterates(f, N, S, base, step)
<1> DEFINE Upto(n, f) == f[0] = base /\ \A i \in 1 .. n : f[i] = step[<<f[i - 1], i>>]
           bad == {n \in 0 .. N : ~ \E f \in [0 .. n -> S] : Upto(n, f)}
<1>1. SUFFICES ASSUME bad # {} PROVE FALSE
  <2>1. N \in 0 .. N
    OBVIOUS
  <2> QED
    BY <2>1, Zenon DEF Iterates
<1>2. PICK n \in bad : \A k \in bad : n <= k
  <2>1. bad \subseteq Nat
    OBVIOUS
  <2> QED
    BY <1>1, <2>1, LeastNat, Zenon
<1>3. n \in 0 .. N /\ n \in Nat
  OBVIOUS
<1>4. n # 0
  <2>1. [i \in 0 .. 0 |-> base] \in [0 .. 0 -> S] /\ Upto(0, [i \in 0 .. 0 |-> base])
    BY SMT
  <2> QED
    BY <2>1, Zenon
<1>5. PICK f \in [0 .. n - 1 -> S] : Upto(n - 1, f)
  <2>1. n - 1 \in 0 .. N /\ ~(n <= n - 1)
    BY <1>3, <1>4
  <2> QED
    BY <1>2, <2>1, Zenon
<1> DEFINE v == step[<<f[n - 1], n>>]
           g == [i \in 0 .. n |-> IF i = n THEN v ELSE f[i]]
<1>6. v \in S
  <2>1. n - 1 \in 0 .. n - 1 /\ n \in 1 .. N
    BY <1>3, <1>4
  <2>2. <<f[n - 1], n>> \in S \X (1 .. N)
    BY <2>1, Zenon
  <2> QED
    BY <2>2, Zenon
<1>7. \A i \in 0 .. n : i = n \/ i \in 0 .. n - 1
  BY <1>3
<1>8. g \in [0 .. n -> S]
  BY <1>6, <1>7, Zenon
<1>9. Upto(n, g)
  <2>1. g[0] = base
    <3>1. 0 \in 0 .. n /\ 0 # n
      BY <1>3, <1>4
    <3> QED
      BY <1>5, <3>1, Zenon
  <2>2. ASSUME NEW i \in 1 .. n PROVE g[i] = step[<<g[i - 1], i>>]
    <3>1. i \in 0 .. n /\ i - 1 \in 0 .. n /\ i - 1 # n /\ (i # n => i \in 1 .. n - 1)
      BY <1>3, <1>4
    <3>2. g[i - 1] = f[i - 1]
      BY <3>1, Zenon
    <3>3. g[i] = IF i = n THEN v ELSE f[i]
      BY <3>1, Zenon
    <3> QED
      BY <1>5, <3>1, <3>2, <3>3, Zenon
  <2> QED
    BY <2>1, <2>2, Zenon
<1> QED
  BY <1>8, <1>9, Zenon

\* A slice is what stands at its place.
LEMMA SliceIs ==
  ASSUME NEW S, NEW s \in Seq(S), NEW t \in Seq(S), NEW m \in Nat,
         m + Len(t) <= Len(s), \A i \in 1 .. Len(t) : s[m + i] = t[i]
  PROVE  SubSeq(s, m + 1, m + Len(t)) = t
<1> DEFINE u == SubSeq(s, m + 1, m + Len(t))
<1>1. Len(t) \in Nat /\ Len(s) \in Nat
  OBVIOUS
<1>2. \A i \in m + 1 .. m + Len(t) : s[i] \in S
  <2> TAKE i \in m + 1 .. m + Len(t)
  <2>1. i \in 1 .. Len(s)
    BY <1>1
  <2> QED
    BY <2>1, ElementOfSeq, Zenon
<1>3. /\ u \in Seq(S)
      /\ Len(u) = IF m + 1 <= m + Len(t) THEN (m + Len(t)) - (m + 1) + 1 ELSE 0
      /\ \A i \in 1 .. (m + Len(t)) - (m + 1) + 1 : u[i] = s[(m + 1) + i - 1]
  <2>1. m + 1 \in Int /\ m + Len(t) \in Int
    BY <1>1
  <2> QED
    BY <1>2, <2>1, SubSeqProperties, SMTT(30)
<1> HIDE DEF u
<1>4. Len(u) = Len(t)
  BY <1>1, <1>3
<1>5. ASSUME NEW i \in 1 .. Len(u) PROVE u[i] = t[i]
  <2>1. i \in 1 .. (m + Len(t)) - (m + 1) + 1 /\ i \in 1 .. Len(t) /\ (m + 1) + i - 1 = m + i
    BY <1>1, <1>4
  <2> QED
    BY <1>3, <2>1, Zenon
<1>6. u = t
  BY <1>3, <1>4, <1>5, SeqEqual, Zenon
<1> QED
  BY <1>6, Zenon DEF u

\* Where the two parts of a concatenation stand.
LEMMA ConcatIs ==
  ASSUME NEW S, NEW s \in Seq(S), NEW t \in Seq(S)
  PROVE  /\ s \o t \in Seq(S) /\ Len(s \o t) = Len(s) + Len(t)
         /\ \A i \in 1 .. Len(s) : (s \o t)[i] = s[i]
         /\ \A i \in 1 .. Len(t) : (s \o t)[Len(s) + i] = t[i]
         /\ SubSeq(s \o t, Len(s) + 1, Len(s) + Len(t)) = t
<1> DEFINE u == s \o t
<1>1. /\ u \in Seq(S) /\ Len(u) = Len(s) + Len(t) /\ Len(s) \in Nat /\ Len(t) \in Nat
      /\ \A i \in 1 .. Len(s) + Len(t) : u[i] = IF i <= Len(s) THEN s[i] ELSE t[i - Len(s)]
  BY ConcatProperties
<1> HIDE DEF u
<1>2. ASSUME NEW i \in 1 .. Len(s) PROVE u[i] = s[i]
  <2>1. i \in 1 .. Len(s) + Len(t) /\ i <= Len(s)
    BY <1>1
  <2> QED
    BY <1>1, <2>1, Zenon
<1>3. ASSUME NEW i \in 1 .. Len(t) PROVE u[Len(s) + i] = t[i]
  <2>1. Len(s) + i \in 1 .. Len(s) + Len(t) /\ ~(Len(s) + i <= Len(s)) /\ (Len(s) + i) - Len(s) = i
    BY <1>1
  <2> QED
    BY <1>1, <2>1, Zenon
<1>4. SubSeq(u, Len(s) + 1, Len(s) + Len(t)) = t
  <2>1. Len(s) + Len(t) <= Len(u)
    BY <1>1
  <2> QED
    BY <1>1, <1>3, <2>1, SliceIs, Zenon
<1> QED
  BY <1>1, <1>2, <1>3, <1>4, Zenon DEF u

\* A prefix grows by the element after it.
LEMMA PrefixGrows ==
  ASSUME NEW S, NEW s \in Seq(S), NEW n \in 0 .. Len(s) - 1
  PROVE  Append(SubSeq(s, 1, n), s[n + 1]) = SubSeq(s, 1, n + 1)
<1>1. Len(s) \in Nat /\ n \in Nat /\ n + 1 \in 1 .. Len(s) /\ n + 1 \in 1 .. Len(s) /\ 1 \in 1 .. Len(s)
      /\ (n + 1) - 1 = n
  BY SMT
<1>2. s[n + 1] \in S
  BY <1>1, ElementOfSeq, Zenon
<1>3. SubSeq(s, 1, n) \in Seq(S)
  <2>1. ASSUME NEW i \in 1 .. n PROVE s[i] \in S
    <3>1. i \in 1 .. Len(s)
      BY <1>1, SMT
    <3> QED
      BY <3>1, ElementOfSeq, Zenon
  <2>2. 1 \in Int /\ n \in Int
    BY <1>1, SMT
  <2> QED
    BY <2>1, <2>2, SubSeqProperties, SMT
<1>4. Append(SubSeq(s, 1, n), s[n + 1]) = SubSeq(s, 1, n) \o <<s[n + 1]>>
  BY <1>2, <1>3, AppendIsConcat, Zenon
<1>5. SubSeq(s, 1, n + 1) = SubSeq(s, 1, (n + 1) - 1) \o <<s[n + 1]>>
  BY <1>1, SubSeqRecursiveSecond, Zenon
<1> QED
  BY <1>1, <1>4, <1>5, Zenon

-----------------------------------------------------------------------------
(* Obfs.                                                                   *)

\* The values of a byte.
Octet == 0 .. 255

\* quic_unwrap undoes quic_wrap, whatever the random bits and the filler.
LEMMA QuicIsUndone ==
  ASSUME NEW d \in Seq(Octet), NEW pnlen \in 1 .. 4, NEW random \in 0 .. 15,
         NEW filler \in Octet
  PROVE  QuicUnwrap(QuicWrap(d, pnlen, random, filler)) = d
<1> DEFINE b == 64 + 4 * random + (pnlen - 1)
           h == <<b>>
           n == DcidLen + pnlen
           f == [i \in 1 .. n |-> filler]
           p == QuicWrap(d, pnlen, random, filler)
<1>1. b \in Octet /\ b % 4 = pnlen - 1 /\ b \div 128 = 0 /\ (b \div 64) % 2 = 1
  BY DEF Octet
<1>2. n \in Nat
  BY ObfsAssumption
<1> HIDE DEF n
<1>3. f \in Seq(Octet) /\ Len(f) = n
  <2>1. f \in [1 .. n -> Octet]
    BY Zenon
  <2> HIDE DEF f
  <2>2. f \in Seq(Octet)
    BY <1>2, <2>1
  <2>3. DOMAIN f = 1 .. n
    BY <2>1, Zenon
  <2> QED
    BY <1>2, <2>2, <2>3
<1> HIDE DEF b, f
<1>4. h \in Seq(Octet) /\ Len(h) = 1 /\ h[1] = b
  BY <1>1
<1> HIDE DEF h
<1>5. /\ h \o f \in Seq(Octet) /\ Len(h \o f) = 1 + n
      /\ (h \o f)[1] = b
  <2>1. /\ h \o f \in Seq(Octet) /\ Len(h \o f) = Len(h) + Len(f)
        /\ \A i \in 1 .. Len(h) : (h \o f)[i] = h[i]
    BY <1>3, <1>4, ConcatIs, Zenon
  <2>2. 1 \in 1 .. 1
    OBVIOUS
  <2> QED
    BY <1>3, <1>4, <2>1, <2>2, Zenon
<1> DEFINE g == h \o f
<1>6. p = g \o d
  BY Zenon DEF QuicWrap, g, h, f, b, n
<1> HIDE DEF g, p
<1>7. Len(p) = 1 + n + Len(d) /\ p[1] = b /\ SubSeq(p, n + 2, Len(p)) = d /\ p \in Seq(Octet)
  <2>0. g \in Seq(Octet)
    BY <1>5, Zenon DEF g
  <2>1. /\ p \in Seq(Octet) /\ Len(p) = Len(g) + Len(d)
        /\ \A i \in 1 .. Len(g) : p[i] = g[i]
        /\ SubSeq(p, Len(g) + 1, Len(g) + Len(d)) = d
    BY <1>6, <2>0, ConcatIs, Zenon
  <2>2. 1 \in 1 .. Len(g) /\ Len(g) = 1 + n /\ Len(g) + 1 = n + 2
    BY <1>2, <1>5 DEF g
  <2> QED
    BY <1>5, <2>1, <2>2, Zenon DEF g
<1>8. QuicUnwrap(p) = SubSeq(p, n + 2, Len(p))
  <2>1. 1 + DcidLen + (p[1] % 4) + 1 = n + 1 /\ ~(Len(p) < n + 1) /\ p # <<>>
    BY <1>1, <1>2, <1>7, ObfsAssumption DEF n
  <2>2. ~(p[1] \div 128 # 0 \/ (p[1] \div 64) % 2 = 0)
    BY <1>1, <1>7
  <2>3. (n + 1) + 1 = n + 2
    BY <1>2
  <2> QED
    BY <2>1, <2>2, <2>3, Zenon DEF QuicUnwrap
<1> QED
  BY <1>7, <1>8, Zenon DEF p

\* A sextet, or the pad character.
Char == 0 .. 256

\* The byte that starts with the first, the third or the fifth bit of v, and ends in w.
Top8(v, w) == (v * 64 + w) \div 16
\* The second and the third byte of a group of four characters.
Mid8(v, w) == ((v % 16) * 64 + w) \div 4
Low8(v, w) == (v % 4) * 64 + w

\* The groups of three bytes, the last one possibly short.
Groups(d) == (Len(d) + 2) \div 3
Third(d, i) == SubSeq(d, 3*i - 2, IF 3*i > Len(d) THEN Len(d) ELSE 3*i)

\* The bytes of the i-th chunk of base64_encode.
LEMMA ThirdIs ==
  ASSUME NEW d \in Seq(Octet), NEW i \in 1 .. Groups(d)
  PROVE  LET c == Third(d, i) IN
         /\ c \in Seq(Octet) /\ Len(c) \in 1 .. 3
         /\ Len(c) = IF 3*i > Len(d) THEN Len(d) - 3*i + 3 ELSE 3
         /\ \A k \in 1 .. Len(c) : c[k] = d[3 * (i - 1) + k]
<1> DEFINE c == Third(d, i)
           to == IF 3*i > Len(d) THEN Len(d) ELSE 3*i
           from == 3*i - 2
           n == IF 3*i > Len(d) THEN Len(d) - 3*i + 3 ELSE 3
<1>1. Len(d) \in Nat /\ i \in Nat /\ 3*i - 2 <= Len(d) /\ i >= 1
  <2> QED
    BY SMT DEF Groups
<1>2. /\ 1 <= from /\ from <= to /\ to <= Len(d) /\ from = 3 * (i - 1) + 1
      /\ n \in 1 .. 3 /\ to - from + 1 = n
  <2>1. CASE 3*i > Len(d)
    BY <1>1, <2>1, SMT
  <2>2. CASE ~(3*i > Len(d))
    BY <1>1, <2>2, SMT
  <2> QED
    BY <2>1, <2>2, Zenon
<1>3. from \in Int /\ to \in Int
  BY <1>1, SMT
<1> HIDE DEF from, to, n
<1>4. c = SubSeq(d, from, to)
  BY Zenon DEF Third, from, to
<1> HIDE DEF c
<1>5. c \in Seq(Octet) /\ Len(c) = n /\ \A k \in 1 .. n : c[k] = d[from + k - 1]
  <2>1. \A k \in from .. to : d[k] \in Octet
    <3> TAKE k \in from .. to
    <3>1. k \in 1 .. Len(d)
      BY <1>1, <1>2, <1>3, SMT
    <3> QED
      BY <3>1, ElementOfSeq, Zenon
  <2>2. /\ c \in Seq(Octet) /\ Len(c) = IF from <= to THEN to - from + 1 ELSE 0
        /\ \A k \in 1 .. to - from + 1 : c[k] = d[from + k - 1]
    BY <1>3, <1>4, <2>1, SubSeqProperties, SMT
  <2> QED
    BY <1>2, <2>2, Zenon
<1>6. ASSUME NEW k \in 1 .. Len(c) PROVE c[k] = d[3 * (i - 1) + k]
  <2>1. k \in 1 .. n /\ from + k - 1 = 3 * (i - 1) + k
    BY <1>1, <1>2, <1>3, <1>5, SMT
  <2> QED
    BY <1>5, <2>1, Zenon
<1> QED
  BY <1>2, <1>5, <1>6, Zenon DEF c, n

\* The sextets of three bytes, and the bytes back from them.
LEMMA SextetsOf ==
  ASSUME NEW b1 \in Octet, NEW b2 \in Octet, NEW b3 \in Octet, NEW n,
         n = b1 * 65536 + b2 * 256 + b3
  PROVE  LET v1 == n \div 262144
             v2 == (n \div 4096) % 64
             v3 == (n \div 64) % 64
             v4 == n % 64
         IN /\ v1 \in Sextet /\ v2 \in Sextet /\ v3 \in Sextet /\ v4 \in Sextet
            /\ (v1 * 64 + v2) \div 16 = b1
            /\ ((v2 % 16) * 64 + v3) \div 4 = b2
            /\ (v3 % 4) * 64 + v4 = b3
<1> USE DEF Octet, Sextet
<1> DEFINE v1 == n \div 262144
           v2 == (n \div 4096) % 64
           v3 == (n \div 64) % 64
           v4 == n % 64
<1>1. v1 = b1 \div 4
  BY SMTT(20)
<1>2. v2 = (b1 % 4) * 16 + (b2 \div 16)
  BY SMTT(20)
<1>3. v3 = (b2 % 16) * 4 + (b3 \div 64)
  BY SMTT(20)
<1>4. v4 = b3 % 64
  BY SMTT(20)
<1> HIDE DEF v1, v2, v3, v4
<1>5. /\ v1 \in Sextet /\ v2 \in Sextet /\ (v1 * 64 + v2) \div 16 = b1 /\ v2 % 16 = b2 \div 16
  BY <1>1, <1>2, SMTT(20)
<1>6. v3 \in Sextet /\ ((v2 % 16) * 64 + v3) \div 4 = b2 /\ v3 % 4 = b3 \div 64
  BY <1>3, <1>5, SMTT(20)
<1>7. v4 \in Sextet /\ (v3 % 4) * 64 + v4 = b3
  BY <1>4, <1>6, SMTT(20)
<1> QED
  BY <1>5, <1>6, <1>7, SMT DEF v1, v2, v3, v4

\* The characters of a chunk, and how its bytes are found in them.
LEMMA ChunkIs ==
  ASSUME NEW c \in Seq(Octet), Len(c) \in 1 .. 3
  PROVE  LET v == Chunk(c) IN
         /\ v \in Seq(Char) /\ Len(v) = 4
         /\ v[1] \in Sextet /\ v[2] \in Sextet /\ Top8(v[1], v[2]) = c[1]
         /\ IF Len(c) > 1 THEN v[3] \in Sextet /\ Mid8(v[2], v[3]) = c[2] ELSE v[3] = Equals
         /\ IF Len(c) > 2 THEN v[4] \in Sextet /\ Low8(v[3], v[4]) = c[3] ELSE v[4] = Equals
<1> DEFINE b(i) == IF i <= Len(c) THEN c[i] ELSE 0
           n == b(1) * 65536 + b(2) * 256 + b(3)
           v1 == n \div 262144
           v2 == (n \div 4096) % 64
           v3 == (n \div 64) % 64
           v4 == n % 64
           v == Chunk(c)
<1>1. b(1) \in Octet /\ b(2) \in Octet /\ b(3) \in Octet /\ b(1) = c[1]
  <2>1. ASSUME NEW i \in {1, 2, 3} PROVE b(i) \in Octet
    <3>1. CASE i <= Len(c)
      <4>1. i \in 1 .. Len(c)
        BY <3>1, SMT
      <4> QED
        BY <3>1, <4>1, ElementOfSeq, Zenon
    <3>2. CASE ~(i <= Len(c))
      BY <3>2, SMT DEF Octet
    <3> QED
      BY <3>1, <3>2, Zenon
  <2>2. 1 <= Len(c)
    BY SMT
  <2> QED
    BY <2>1, <2>2, Zenon
<1>2. v = <<v1, v2, IF Len(c) > 1 THEN v3 ELSE Equals, IF Len(c) > 2 THEN v4 ELSE Equals>>
  BY SMT DEF Chunk
<1>3. /\ v1 \in Sextet /\ v2 \in Sextet /\ v3 \in Sextet /\ v4 \in Sextet
      /\ (v1 * 64 + v2) \div 16 = b(1)
      /\ ((v2 % 16) * 64 + v3) \div 4 = b(2)
      /\ (v3 % 4) * 64 + v4 = b(3)
  <2> HIDE DEF b
  <2> QED
    BY <1>1, SextetsOf, SMT
<1> HIDE DEF v1, v2, v3, v4, v, n
<1> DEFINE w3 == IF Len(c) > 1 THEN v3 ELSE Equals
           w4 == IF Len(c) > 2 THEN v4 ELSE Equals
<1>4. v1 \in Char /\ v2 \in Char /\ w3 \in Char /\ w4 \in Char
  BY <1>3, SMT DEF Char, Sextet, Equals
<1>5. v = <<v1, v2, w3, w4>>
  BY <1>2, Zenon
<1>6. /\ Len(c) > 1 => w3 = v3 /\ b(2) = c[2]
      /\ Len(c) > 2 => w3 = v3 /\ w4 = v4 /\ b(3) = c[3]
      /\ ~(Len(c) > 1) => w3 = Equals
      /\ ~(Len(c) > 2) => w4 = Equals
  BY SMT
<1> HIDE DEF w3, w4, b
<1>7. /\ v \in Seq(Char) /\ Len(v) = 4
      /\ v[1] = v1 /\ v[2] = v2 /\ v[3] = w3 /\ v[4] = w4
  BY <1>4, <1>5, SMT
<1>8. IF Len(c) > 1 THEN w3 \in Sextet /\ ((v2 % 16) * 64 + w3) \div 4 = c[2] ELSE w3 = Equals
  BY <1>3, <1>6, SMT
<1>9. IF Len(c) > 2 THEN w4 \in Sextet /\ (w3 % 4) * 64 + w4 = c[3] ELSE w4 = Equals
  BY <1>3, <1>6, SMT
<1> QED
  BY <1>1, <1>3, <1>7, <1>8, <1>9, SMT DEF v, Top8, Mid8, Low8

\* base64_encode is the characters of its chunks, one after the other.
LEMMA EncodeIs ==
  ASSUME NEW d \in Seq(Octet)
  PROVE  /\ Groups(d) \in Nat
         /\ Base64Encode(d) \in Seq(Char) /\ Len(Base64Encode(d)) = 4 * Groups(d)
         /\ \A i \in 1 .. Groups(d), k \in 1 .. 4 :
               Base64Encode(d)[4 * (i - 1) + k] = Chunk(Third(d, i))[k]
<1> DEFINE K == Groups(d)
           C(i) == Chunk(Third(d, i))
           step == [e \in Seq(Char) \X (1 .. K) |-> e[1] \o C(e[2])]
           enc == CHOOSE f : f = [i \in 0 .. K |-> IF i = 0 THEN <<>> ELSE f[i - 1] \o C(i)]
<1>1. K \in Nat
  BY SMT DEF Groups
<1>2. Base64Encode(d) = enc[K]
  BY Zenon DEF Base64Encode, Groups, Third
<1> HIDE DEF K
<1>3. ASSUME NEW i \in 1 .. K PROVE C(i) \in Seq(Char) /\ Len(C(i)) = 4
  BY ThirdIs, ChunkIs, Zenon DEF K
<1>4. <<>> \in Seq(Char) /\ Len(<<>>) = 0
  BY SMT
<1> HIDE DEF C
<1>5. enc = [i \in 0 .. K |-> IF i = 0 THEN <<>> ELSE enc[i - 1] \o C(i)]
  <2>1. step \in [Seq(Char) \X (1 .. K) -> Seq(Char)]
    <3>1. ASSUME NEW e \in Seq(Char) \X (1 .. K) PROVE e[1] \o C(e[2]) \in Seq(Char)
      <4>1. e[1] \in Seq(Char) /\ C(e[2]) \in Seq(Char)
        BY <1>3, Zenon
      <4> QED
        BY <4>1, ConcatIs, Zenon
    <3> QED
      BY <3>1, Zenon
  <2>2. PICK f \in [0 .. K -> Seq(Char)] :
               f[0] = <<>> /\ \A i \in 1 .. K : f[i] = step[<<f[i - 1], i>>]
    <3> HIDE DEF step
    <3>1. \E f : Iterates(f, K, Seq(Char), <<>>, step)
      BY <1>1, <1>4, <2>1, Iteration, Zenon
    <3> QED
      BY <3>1, Zenon DEF Iterates
  <2>3. ASSUME NEW i \in 0 .. K PROVE f[i] = IF i = 0 THEN <<>> ELSE f[i - 1] \o C(i)
    <3>1. i = 0 \/ (i \in 1 .. K /\ i - 1 \in 0 .. K)
      BY <1>1, SMT
    <3>2. CASE i = 0
      BY <2>2, <3>2, Zenon
    <3>3. CASE i # 0 /\ i \in 1 .. K /\ i - 1 \in 0 .. K
      <4>1. <<f[i - 1], i>> \in Seq(Char) \X (1 .. K)
        BY <3>3, Zenon
      <4>2. step[<<f[i - 1], i>>] = f[i - 1] \o C(i)
        BY <4>1, Zenon
      <4> QED
        BY <2>2, <3>3, <4>2, Zenon
    <3> QED
      BY <3>1, <3>2, <3>3, Zenon
  <2>4. f = [i \in 0 .. K |-> IF i = 0 THEN <<>> ELSE f[i - 1] \o C(i)]
    BY <2>3, Zenon
  <2> HIDE DEF step
  <2> QED
    BY <2>4, Zenon
<1> HIDE DEF enc
<1> DEFINE P(n) == /\ enc[n] \in Seq(Char) /\ Len(enc[n]) = 4 * n
                   /\ \A i \in 1 .. n, k \in 1 .. 4 : enc[n][4 * (i - 1) + k] = C(i)[k]
           G == {n \in 0 .. K : P(n)}
<1>6. 0 \in G
  <2>1. enc[0] = <<>> /\ 0 \in 0 .. K
    <3>1. 0 \in 0 .. K
      BY <1>1, SMT
    <3> QED
      BY <1>5, <3>1, Zenon
  <2>2. 4 * 0 = 0 /\ 1 .. 0 = {}
    BY SMT
  <2> QED
    BY <1>4, <2>1, <2>2, Zenon
<1>7. ASSUME NEW n \in 0 .. K - 1, n \in G PROVE n + 1 \in G
  <2> DEFINE m == n + 1
             e == enc[n]
             c == C(m)
             u == enc[m]
  <2>1. m \in 1 .. K /\ m \in 0 .. K /\ m # 0 /\ m - 1 = n /\ n \in 0 .. K /\ m \in Nat /\ n \in Nat
        /\ 4 * m = 4 * n + 4 /\ m = n + 1
    BY <1>1, SMT
  <2>2. u = e \o c
    BY <1>5, <2>1, Zenon
  <2>3. e \in Seq(Char) /\ Len(e) = 4 * n /\ c \in Seq(Char) /\ Len(c) = 4
    BY <1>3, <1>7, <2>1, Zenon
  <2>4. \A i \in 1 .. n, k \in 1 .. 4 : e[4 * (i - 1) + k] = C(i)[k]
    BY <1>7, Zenon
  <2> HIDE DEF m, e, c, u
  <2>5. /\ u \in Seq(Char) /\ Len(u) = 4 * n + 4
        /\ \A i \in 1 .. 4 * n : u[i] = e[i]
        /\ \A i \in 1 .. 4 : u[4 * n + i] = c[i]
    <3>0. e \in Seq(Char) /\ c \in Seq(Char)
      BY <2>3, Zenon
    <3>1. /\ e \o c \in Seq(Char) /\ Len(e \o c) = Len(e) + Len(c)
          /\ \A i \in 1 .. Len(e) : (e \o c)[i] = e[i]
          /\ \A i \in 1 .. Len(c) : (e \o c)[Len(e) + i] = c[i]
      BY <3>0, ConcatIs, SMTT(30)
    <3> QED
      BY <2>2, <2>3, <3>1, Zenon
  <2>6. ASSUME NEW i \in 1 .. m, NEW k \in 1 .. 4 PROVE u[4 * (i - 1) + k] = C(i)[k]
    <3>1. CASE i = m
      <4>1. 4 * (i - 1) + k = 4 * n + k
        BY <2>1, <3>1, SMT
      <4> QED
        BY <2>5, <3>1, <4>1, Zenon DEF c
    <3>2. CASE i # m
      <4>1. i \in 1 .. n /\ 4 * (i - 1) + k \in 1 .. 4 * n
        BY <2>1, <3>2, SMT
      <4> QED
        BY <2>4, <2>5, <4>1, Zenon
    <3> QED
      BY <3>1, <3>2, Zenon
  <2> QED
    BY <2>1, <2>5, <2>6, Zenon DEF m, u
<1>8. K \in G
  <2> HIDE DEF G
  <2>1. 0 .. K \subseteq G
    BY <1>1, <1>6, <1>7, CountUp, Zenon
  <2>2. K \in 0 .. K
    BY <1>1, SMT
  <2> QED
    BY <2>1, <2>2, Zenon
<1> QED
  BY <1>1, <1>2, <1>8, Zenon DEF K, C

\* The decoder's buffer, a character shifted in, a byte read from it, and its state.
Buf16 == {b \in Int : 0 <= b /\ b < 65536}
Shl(b, v) == (b * 64 + v) % 65536
ByteAt(b, n) == (b \div n) % 256
St == [buf : Buf16, bits : {0, 2, 4, 6}, out : Seq(Octet)]

\* What base64_decode's buffer holds after a character, and the byte it gives.
LEMMA ShlIs ==
  ASSUME NEW b \in Buf16, NEW v \in Sextet
  PROVE  Shl(b, v) \in Buf16 /\ Shl(b, v) % 64 = v /\ Shl(b, v) \div 64 = b % 1024
<1>1. ASSUME NEW x \in Int, 0 <= x, x < 65536, NEW y \in Int, 0 <= y, y < 64
      PROVE  /\ (x * 64 + y) % 65536 >= 0 /\ (x * 64 + y) % 65536 < 65536
             /\ ((x * 64 + y) % 65536) % 64 = y
             /\ (x * 64 + y) % 65536 \in Int
  BY <1>1, SMT
<1>2. ASSUME NEW x \in Int, 0 <= x, x < 65536, NEW y \in Int, 0 <= y, y < 64
      PROVE  ((x * 64 + y) % 65536) \div 64 = x % 1024
  BY <1>2, SMT
<1>3. b \in Int /\ 0 <= b /\ b < 65536 /\ v \in Int /\ 0 <= v /\ v < 64
  BY SMT DEF Buf16, Sextet
<1> QED
  BY <1>1, <1>2, <1>3, SMT DEF Shl, Buf16

\* What a byte shifted into the buffer is read back as.
LEMMA ReadsByte ==
  ASSUME NEW b \in Buf16, NEW v \in Sextet, NEW w \in Sextet
  PROVE  LET e == Shl(Shl(b, v), w) IN
         /\ ByteAt(e, 16) = Top8(v, w) /\ ByteAt(e, 4) = Mid8(v, w) /\ ByteAt(e, 1) = Low8(v, w)
         /\ Top8(v, w) \in Octet /\ Mid8(v, w) \in Octet /\ Low8(v, w) \in Octet
<1>1. ASSUME NEW c \in Int, 0 <= c, c < 65536, NEW e \in Int, 0 <= e, e < 65536,
             NEW x \in Int, 0 <= x, x < 64, NEW y \in Int, 0 <= y, y < 64,
             c % 64 = x, e % 64 = y, e \div 64 = c % 1024
      PROVE  /\ (e \div 16) % 256 = (x * 64 + y) \div 16
             /\ (e \div 4) % 256 = ((x % 16) * 64 + y) \div 4
             /\ (e \div 1) % 256 = (x % 4) * 64 + y
  <2>1. (e \div 16) % 256 = (x * 64 + y) \div 16
    BY <1>1, SMT
  <2>2. (e \div 4) % 256 = ((x % 16) * 64 + y) \div 4
    BY <1>1, SMT
  <2>3. (e \div 1) % 256 = (x % 4) * 64 + y
    BY <1>1, SMT
  <2> QED
    BY <2>1, <2>2, <2>3, SMT
<1>2. ASSUME NEW e \in Int
      PROVE  (e \div 16) % 256 \in 0 .. 255 /\ (e \div 4) % 256 \in 0 .. 255 /\ (e \div 1) % 256 \in 0 .. 255
  BY SMT
<1> DEFINE c == Shl(b, v)
           e == Shl(c, w)
<1>3. c \in Buf16 /\ e \in Buf16 /\ c % 64 = v /\ e % 64 = w /\ e \div 64 = c % 1024
  BY ShlIs, SMT
<1> HIDE DEF c, e
<1>4. /\ c \in Int /\ 0 <= c /\ c < 65536 /\ e \in Int /\ 0 <= e /\ e < 65536
      /\ v \in Int /\ 0 <= v /\ v < 64 /\ w \in Int /\ 0 <= w /\ w < 64
  BY <1>3, SMT DEF Buf16, Sextet
<1>5. /\ (e \div 16) % 256 = Top8(v, w) /\ (e \div 4) % 256 = Mid8(v, w)
      /\ (e \div 1) % 256 = Low8(v, w)
  BY <1>1, <1>3, <1>4, SMT DEF Top8, Mid8, Low8
<1>6. (e \div 16) % 256 \in Octet /\ (e \div 4) % 256 \in Octet /\ (e \div 1) % 256 \in Octet
  BY <1>2, <1>4, SMT DEF Octet
<1> QED
  BY <1>5, <1>6, SMT DEF c, e, ByteAt

\* A character leaves the decoder with six, four, two or no bits, and gives a byte
\* unless there were none.
LEMMA StepIs ==
  ASSUME NEW s \in St, NEW v \in Sextet
  PROVE  LET t == Base64Step(s, v)
             byte(n) == ByteAt(Shl(s.buf, v), n)
         IN /\ t \in St /\ t.buf = Shl(s.buf, v)
            /\ s.bits = 0 => t.bits = 6 /\ t.out = s.out
            /\ s.bits = 6 => t.bits = 4 /\ t.out = Append(s.out, byte(16))
            /\ s.bits = 4 => t.bits = 2 /\ t.out = Append(s.out, byte(4))
            /\ s.bits = 2 => t.bits = 0 /\ t.out = Append(s.out, byte(1))
<1> DEFINE c == Shl(s.buf, v)
           t == Base64Step(s, v)
           byte(n) == ByteAt(c, n)
<1>1. s.buf \in Buf16 /\ s.bits \in {0, 2, 4, 6} /\ s.out \in Seq(Octet)
  BY Zenon DEF St
<1>2. c \in Buf16
  BY <1>1, ShlIs, SMT
<1>3. byte(1) \in Octet /\ byte(4) \in Octet /\ byte(16) \in Octet
  <2> HIDE DEF c
  <2> QED
    BY <1>2, SMT DEF Octet, Buf16, ByteAt
<1>4. t = IF s.bits + 6 >= 8
          THEN [buf |-> c, bits |-> (s.bits + 6) - 8,
                out |-> Append(s.out, byte(2^((s.bits + 6) - 8)))]
          ELSE [buf |-> c, bits |-> s.bits + 6, out |-> s.out]
  BY SMT DEF Base64Step, Shl, ByteAt
<1> HIDE DEF c, t
<1>5. CASE s.bits = 0
  <2>1. t = [buf |-> c, bits |-> 6, out |-> s.out]
    <3>1. s.bits + 6 = 6 /\ ~(s.bits + 6 >= 8)
      BY <1>5, SMT
    <3> QED
      BY <1>4, <3>1, Zenon
  <2> QED
    BY <1>1, <1>2, <1>5, <2>1, SMT DEF St, c, t
<1>6. ASSUME NEW k, NEW n, (s.bits + 6) - 8 = k, s.bits + 6 >= 8, 2^k = n
      PROVE  t = [buf |-> c, bits |-> k, out |-> Append(s.out, byte(n))]
  <2> HIDE DEF byte
  <2> QED
    BY <1>4, <1>6, Zenon
<1>7. 2^4 = 16 /\ 2^2 = 4 /\ 2^0 = 1
  BY SMT
<1>8. CASE s.bits = 6
  <2>1. (s.bits + 6) - 8 = 4 /\ s.bits + 6 >= 8
    BY <1>8, SMT
  <2>2. t = [buf |-> c, bits |-> 4, out |-> Append(s.out, byte(16))]
    BY <1>6, <1>7, <2>1, Zenon
  <2>3. Append(s.out, byte(16)) \in Seq(Octet)
    BY <1>1, <1>3, AppendProperties, SMT
  <2> QED
    BY <1>1, <1>2, <1>8, <2>2, <2>3, SMT DEF St, c, t
<1>9. CASE s.bits = 4
  <2>1. (s.bits + 6) - 8 = 2 /\ s.bits + 6 >= 8
    BY <1>9, SMT
  <2>2. t = [buf |-> c, bits |-> 2, out |-> Append(s.out, byte(4))]
    BY <1>6, <1>7, <2>1, Zenon
  <2>3. Append(s.out, byte(4)) \in Seq(Octet)
    BY <1>1, <1>3, AppendProperties, SMT
  <2> QED
    BY <1>1, <1>2, <1>9, <2>2, <2>3, SMT DEF St, c, t
<1>10. CASE s.bits = 2
  <2>1. (s.bits + 6) - 8 = 0 /\ s.bits + 6 >= 8
    BY <1>10, SMT
  <2>2. t = [buf |-> c, bits |-> 0, out |-> Append(s.out, byte(1))]
    BY <1>6, <1>7, <2>1, Zenon
  <2>3. Append(s.out, byte(1)) \in Seq(Octet)
    BY <1>1, <1>3, AppendProperties, SMT
  <2> QED
    BY <1>1, <1>2, <1>10, <2>2, <2>3, SMT DEF St, c, t
<1> QED
  BY <1>1, <1>5, <1>8, <1>9, <1>10, Zenon

\* What the decoder has once it was at s0 and has read v1 and v2, and what comes next.
Chunked(s0, s2, v1, v2) ==
  /\ s2.out = Append(s0.out, Top8(v1, v2))
  /\ \A v3 \in Sextet : LET s3 == Base64Step(s2, v3) IN
        /\ s3.out = Append(s2.out, Mid8(v2, v3))
        /\ \A v4 \in Sextet : LET s4 == Base64Step(s3, v4) IN
              s4 \in St /\ s4.bits = 0 /\ s4.out = Append(s3.out, Low8(v3, v4))

\* From a chunk's characters the decoder gets its bytes.
LEMMA DecodesChunk ==
  ASSUME NEW s0 \in St, s0.bits = 0, NEW v1 \in Sextet, NEW v2 \in Sextet
  PROVE  Chunked(s0, Base64Step(Base64Step(s0, v1), v2), v1, v2)
<1> DEFINE s1 == Base64Step(s0, v1)
           s2 == Base64Step(s1, v2)
<1>1. s1 \in St /\ s1.bits = 6 /\ s1.out = s0.out /\ s1.buf = Shl(s0.buf, v1)
  BY StepIs, Zenon
<1> HIDE DEF s1
<1>2. /\ s2 \in St /\ s2.bits = 4 /\ s2.buf = Shl(s1.buf, v2)
      /\ s2.out = Append(s1.out, ByteAt(Shl(s1.buf, v2), 16))
  BY <1>1, StepIs, Zenon
<1> HIDE DEF s2
<1>3. s0.buf \in Buf16 /\ s1.buf \in Buf16 /\ s2.buf \in Buf16
  BY <1>1, <1>2, Zenon DEF St
<1>4. s2.out = Append(s0.out, Top8(v1, v2))
  BY <1>1, <1>2, <1>3, ReadsByte, SMT
<1>5. ASSUME NEW v3 \in Sextet
      PROVE  LET s3 == Base64Step(s2, v3) IN
               /\ s3.out = Append(s2.out, Mid8(v2, v3))
               /\ \A v4 \in Sextet : LET s4 == Base64Step(s3, v4) IN
                     s4 \in St /\ s4.bits = 0 /\ s4.out = Append(s3.out, Low8(v3, v4))
  <2> DEFINE s3 == Base64Step(s2, v3)
  <2>1. /\ s3 \in St /\ s3.bits = 2 /\ s3.buf = Shl(s2.buf, v3)
        /\ s3.out = Append(s2.out, ByteAt(Shl(s2.buf, v3), 4))
    <3>1. s2 \in St /\ s2.bits = 4
      BY <1>2, Zenon
    <3> QED
      BY <3>1, StepIs, Zenon
  <2> HIDE DEF s3
  <2>2. s3.out = Append(s2.out, Mid8(v2, v3))
    BY <1>2, <1>3, <2>1, ReadsByte, SMT
  <2>3. ASSUME NEW v4 \in Sextet
        PROVE  LET s4 == Base64Step(s3, v4) IN
                 s4 \in St /\ s4.bits = 0 /\ s4.out = Append(s3.out, Low8(v3, v4))
    <3> DEFINE s4 == Base64Step(s3, v4)
    <3>1. /\ s4 \in St /\ s4.bits = 0
          /\ s4.out = Append(s3.out, ByteAt(Shl(s3.buf, v4), 1))
      <4>1. s3 \in St /\ s3.bits = 2
        BY <2>1, Zenon
      <4> QED
        BY <4>1, StepIs, Zenon
    <3> HIDE DEF s4
    <3>2. s4.out = Append(s3.out, Low8(v3, v4))
      BY <1>3, <2>1, <3>1, ReadsByte, SMT
    <3> QED
      BY <3>1, <3>2, Zenon DEF s4
  <2> QED
    BY <2>1, <2>2, <2>3, Zenon DEF s3
<1> QED
  BY <1>4, <1>5, Zenon DEF Chunked, s1, s2

\* The padding of a base64 text, and where it starts.
Padding(d) == 3 * Groups(d) - Len(d)
Stop(d) == 4 * Groups(d) - Padding(d)

\* The characters of the j-th chunk, and what they say.
LEMMA CharsOfChunk ==
  ASSUME NEW d \in Seq(Octet), NEW j \in 1 .. Groups(d)
  PROVE  LET E == Base64Encode(d)
             b == 4 * (j - 1)
             o == 3 * (j - 1)
         IN /\ E[b + 1] \in Sextet /\ E[b + 2] \in Sextet /\ Top8(E[b + 1], E[b + 2]) = d[o + 1]
            /\ IF o + 2 <= Len(d) THEN E[b + 3] \in Sextet /\ Mid8(E[b + 2], E[b + 3]) = d[o + 2]
               ELSE E[b + 3] = Equals
            /\ IF o + 3 <= Len(d) THEN E[b + 4] \in Sextet /\ Low8(E[b + 3], E[b + 4]) = d[o + 3]
               ELSE E[b + 4] = Equals
<1> DEFINE E == Base64Encode(d)
           b == 4 * (j - 1)
           o == 3 * (j - 1)
           c == Third(d, j)
           v == Chunk(c)
<1>1. /\ c \in Seq(Octet) /\ Len(c) \in 1 .. 3
      /\ Len(c) = IF 3*j > Len(d) THEN Len(d) - 3*j + 3 ELSE 3
      /\ \A k \in 1 .. Len(c) : c[k] = d[o + k]
  BY ThirdIs, Zenon
<1>2. Len(d) \in Nat /\ j \in Nat /\ Len(c) \in Nat
  <2>1. Groups(d) \in Nat
    BY EncodeIs, Zenon
  <2>2. j \in Nat /\ Len(d) \in Nat
    BY <2>1, SMT
  <2>3. Len(c) \in Nat
    BY <1>1, SMT
  <2> QED
    BY <2>2, <2>3, Zenon
<1>3. \A k \in 1 .. 4 : E[b + k] = v[k]
  BY EncodeIs, Zenon
<1> HIDE DEF E, b, c, v
<1>4. E[b + 1] = v[1] /\ E[b + 2] = v[2] /\ E[b + 3] = v[3] /\ E[b + 4] = v[4]
  <2>1. 1 \in 1 .. 4 /\ 2 \in 1 .. 4 /\ 3 \in 1 .. 4 /\ 4 \in 1 .. 4
    BY SMT
  <2> QED
    BY <1>3, <2>1, Zenon
<1>5. /\ v[1] \in Sextet /\ v[2] \in Sextet /\ Top8(v[1], v[2]) = c[1]
      /\ IF Len(c) > 1 THEN v[3] \in Sextet /\ Mid8(v[2], v[3]) = c[2] ELSE v[3] = Equals
      /\ IF Len(c) > 2 THEN v[4] \in Sextet /\ Low8(v[3], v[4]) = c[3] ELSE v[4] = Equals
  BY <1>1, ChunkIs, Zenon DEF v
<1>6. /\ o + 2 <= Len(d) <=> Len(c) > 1
      /\ o + 3 <= Len(d) <=> Len(c) > 2
      /\ 1 \in 1 .. Len(c)
      /\ Len(c) > 1 => 2 \in 1 .. Len(c)
      /\ Len(c) > 2 => 3 \in 1 .. Len(c)
  <2>1. CASE 3*j > Len(d)
    <3>1. Len(c) = Len(d) - 3*j + 3
      BY <1>1, <2>1, Zenon
    <3>2. 1 <= Len(c) /\ Len(c) <= 3
      BY <1>1, SMT
    <3> QED
      BY <1>2, <2>1, <3>1, <3>2, SMT
  <2>2. CASE ~(3*j > Len(d))
    <3>1. Len(c) = 3
      BY <1>1, <2>2, Zenon
    <3> QED
      BY <1>2, <2>2, <3>1, SMT
  <2> QED
    BY <2>1, <2>2, Zenon
<1>7. c[1] = d[o + 1] /\ (Len(c) > 1 => c[2] = d[o + 2]) /\ (Len(c) > 2 => c[3] = d[o + 3])
  BY <1>1, <1>6, Zenon
<1> HIDE DEF o
<1> QED
  BY <1>4, <1>5, <1>6, <1>7, Zenon DEF E, b, o

\* The padding is at the end, and everything before it is of the alphabet.
LEMMA PaddingIs ==
  ASSUME NEW d \in Seq(Octet)
  PROVE  LET E == Base64Encode(d)
         IN /\ Stop(d) \in Nat /\ Stop(d) <= Len(E) /\ Padding(d) \in 0 .. 2
            /\ \A i \in 1 .. Stop(d) : E[i] \in Sextet
            /\ \A i \in Stop(d) + 1 .. Len(E) : E[i] = Equals
<1> DEFINE E == Base64Encode(d)
           K == Groups(d)
           L == Len(d)
<1>1. K \in Nat /\ L \in Nat /\ 3 * K - L \in 0 .. 2 /\ 3 * K - 2 <= L /\ L <= 3 * K
  BY SMT DEF Groups
<1>2. Len(E) = 4 * K
  BY EncodeIs, Zenon
<1>3. Stop(d) = K + L /\ Padding(d) = 3 * K - L
  BY <1>1, SMT DEF Stop, Padding
<1>4. ASSUME NEW i \in 1 .. 4 * K
      PROVE  /\ i <= K + L => E[i] \in Sextet
             /\ i > K + L => E[i] = Equals
  <2> DEFINE j == ((i - 1) \div 4) + 1
             b == 4 * (j - 1)
             o == 3 * (j - 1)
             k == i - b
  <2>1. j \in 1 .. K /\ k \in {1, 2, 3, 4} /\ i = b + k
    BY <1>1, SMT
  <2>2. /\ E[b + 1] \in Sextet /\ E[b + 2] \in Sextet
        /\ IF o + 2 <= Len(d) THEN E[b + 3] \in Sextet ELSE E[b + 3] = Equals
        /\ IF o + 3 <= Len(d) THEN E[b + 4] \in Sextet ELSE E[b + 4] = Equals
    BY <2>1, CharsOfChunk, Zenon
  <2> HIDE DEF j, k, E
  <2>3. CASE k = 1 \/ k = 2
    <3>1. ~(i > K + L)
      BY <1>1, <2>1, <2>3, SMT
    <3> QED
      BY <2>1, <2>2, <2>3, <3>1, Zenon
  <2>4. CASE k = 3
    <3>1. i <= K + L <=> o + 2 <= L
      BY <1>1, <2>1, <2>4, SMT
    <3>2. i > K + L <=> ~(i <= K + L)
      BY <1>1, SMT
    <3> QED
      BY <2>1, <2>2, <2>4, <3>1, <3>2, Zenon
  <2>5. CASE k = 4
    <3>1. i <= K + L <=> o + 3 <= L
      BY <1>1, <2>1, <2>5, SMT
    <3>2. i > K + L <=> ~(i <= K + L)
      BY <1>1, SMT
    <3> QED
      BY <2>1, <2>2, <2>5, <3>1, <3>2, Zenon
  <2> QED
    BY <2>1, <2>3, <2>4, <2>5, Zenon
<1> HIDE DEF E, K, L
<1>5. ASSUME NEW i \in 1 .. Stop(d) PROVE E[i] \in Sextet
  <2>1. i \in 1 .. 4 * K /\ i <= K + L
    BY <1>1, <1>3, SMT
  <2> QED
    BY <1>4, <2>1, Zenon
<1>6. ASSUME NEW i \in Stop(d) + 1 .. Len(E) PROVE E[i] = Equals
  <2>1. i \in 1 .. 4 * K /\ i > K + L
    BY <1>1, <1>2, <1>3, SMT
  <2> QED
    BY <1>4, <2>1, Zenon
<1>7. Stop(d) \in Nat /\ Stop(d) <= Len(E) /\ Padding(d) \in 0 .. 2
  BY <1>1, <1>2, <1>3, SMT
<1> QED
  BY <1>5, <1>6, <1>7, Zenon DEF E

\* base64_decode undoes base64_encode.
LEMMA Base64IsUndone ==
  ASSUME NEW d \in Seq(Octet)
  PROVE  Base64Decode(Base64Encode(d)) = d
<1> DEFINE E == Base64Encode(d)
           K == Groups(d)
           L == Len(d)
           zero == [buf |-> 0, bits |-> 0, out |-> <<>>]
           end == IF \E i \in DOMAIN E : E[i] = Equals
                  THEN (CHOOSE i \in DOMAIN E :
                           E[i] = Equals /\ \A j \in 1 .. i - 1 : E[j] # Equals) - 1
                  ELSE Len(E)
           st == CHOOSE f : f = [i \in 0 .. end |-> IF i = 0 THEN zero ELSE Base64Step(f[i - 1], E[i])]
<1>1. /\ K \in Nat /\ L \in Nat /\ 3 * K - 2 <= L /\ L <= 3 * K
      /\ Stop(d) = K + L /\ Stop(d) \in Nat
  BY SMT DEF Groups, Stop, Padding
<1>2. E \in Seq(Char) /\ Len(E) = 4 * K /\ DOMAIN E = 1 .. 4 * K
  <2>1. E \in Seq(Char) /\ Len(E) = 4 * K
    BY EncodeIs, Zenon
  <2>2. DOMAIN E = 1 .. Len(E)
    BY <2>1, LenProperties, Zenon
  <2> QED
    BY <2>1, <2>2, Zenon
<1>3. /\ \A i \in 1 .. K + L : E[i] \in Sextet
      /\ \A i \in K + L + 1 .. 4 * K : E[i] = Equals
  BY <1>1, <1>2, PaddingIs, Zenon
<1>4. Base64Decode(E) = IF \A i \in 1 .. end : E[i] \in Sextet THEN st[end].out ELSE None
  BY Zenon DEF Base64Decode
<1> HIDE DEF E, K, L
<1>5. \A i \in 1 .. K + L : E[i] # Equals
  <2>1. Equals \notin Sextet
    BY SMT DEF Equals, Sextet
  <2> QED
    BY <1>3, <2>1, Zenon
<1>6. end = K + L
  <2>1. CASE K + L = 4 * K
    <3>1. ~ \E i \in DOMAIN E : E[i] = Equals
      BY <1>2, <1>5, <2>1, Zenon
    <3> QED
      BY <1>2, <2>1, <3>1, Zenon
  <2>2. CASE K + L # 4 * K
    <3> DEFINE first == K + L + 1
               pred(i) == E[i] = Equals /\ \A j \in 1 .. i - 1 : E[j] # Equals
    <3>1. first \in DOMAIN E /\ first \in K + L + 1 .. 4 * K /\ first - 1 = K + L
      BY <1>1, <1>2, <2>2, SMT
    <3>2. pred(first)
      BY <1>3, <1>5, <3>1, Zenon
    <3>3. ASSUME NEW i \in DOMAIN E, pred(i) PROVE i = first
      <4>1. i \notin 1 .. K + L
        BY <1>5, <3>3, Zenon
      <4>2. first \notin 1 .. i - 1
        BY <3>2, <3>3, Zenon
      <4> QED
        BY <1>1, <1>2, <4>1, <4>2, SMT
    <3>4. (CHOOSE i \in DOMAIN E : pred(i)) = first
      <4> HIDE DEF pred, first
      <4> QED
        BY <3>1, <3>2, <3>3, Zenon
    <3> QED
      BY <3>1, <3>2, <3>4, Zenon
  <2> QED
    BY <2>1, <2>2, Zenon
<1> HIDE DEF end
<1>7. zero \in St
  BY SMT DEF St, Buf16
<1>8. ASSUME NEW s \in St, NEW i \in 1 .. end PROVE Base64Step(s, E[i]) \in St
  <2>1. E[i] \in Sextet
    BY <1>3, <1>6, Zenon
  <2> QED
    BY <2>1, StepIs, Zenon
<1> HIDE DEF zero
<1>9. st = [i \in 0 .. end |-> IF i = 0 THEN zero ELSE Base64Step(st[i - 1], E[i])]
  <2> DEFINE step == [e \in St \X (1 .. end) |-> Base64Step(e[1], E[e[2]])]
  <2>1. step \in [St \X (1 .. end) -> St]
    BY <1>8, Zenon
  <2>2. PICK f \in [0 .. end -> St] :
               f[0] = zero /\ \A i \in 1 .. end : f[i] = step[<<f[i - 1], i>>]
    <3> HIDE DEF step
    <3>1. end \in Nat
      BY <1>1, <1>6, SMT
    <3>2. \E f : Iterates(f, end, St, zero, step)
      BY <1>7, <2>1, <3>1, Iteration, Zenon
    <3> QED
      BY <3>2, Zenon DEF Iterates
  <2>3. ASSUME NEW i \in 0 .. end PROVE f[i] = IF i = 0 THEN zero ELSE Base64Step(f[i - 1], E[i])
    <3>1. i = 0 \/ (i # 0 /\ i \in 1 .. end /\ i - 1 \in 0 .. end)
      BY <1>1, <1>6, SMT
    <3>2. CASE i = 0
      BY <2>2, <3>2, Zenon
    <3>3. CASE i # 0 /\ i \in 1 .. end /\ i - 1 \in 0 .. end
      <4>1. <<f[i - 1], i>> \in St \X (1 .. end)
        BY <3>3, Zenon
      <4>2. step[<<f[i - 1], i>>] = Base64Step(f[i - 1], E[i])
        BY <4>1, Zenon
      <4> QED
        BY <2>2, <3>3, <4>2, Zenon
    <3> QED
      BY <3>1, <3>2, <3>3, Zenon
  <2>4. f = [i \in 0 .. end |-> IF i = 0 THEN zero ELSE Base64Step(f[i - 1], E[i])]
    BY <2>3, Zenon
  <2> HIDE DEF step
  <2> QED
    BY <2>4, Zenon
<1> HIDE DEF st
<1>10. ASSUME NEW i \in 1 .. K + L PROVE st[i] = Base64Step(st[i - 1], E[i])
  <2>1. i \in 0 .. end /\ i # 0
    BY <1>1, <1>6, SMT
  <2> QED
    BY <1>9, <2>1, Zenon
<1>11. st[0] = zero
  <2>1. 0 \in 0 .. end
    BY <1>1, <1>6, SMT
  <2> QED
    BY <1>9, <2>1, Zenon
<1> DEFINE A(j) == st[4 * j] \in St /\ st[4 * j].bits = 0 /\ st[4 * j].out = SubSeq(d, 1, 3 * j)
<1>12. ASSUME NEW j \in 0 .. K - 1, A(j)
       PROVE  /\ st[4 * j + 2].out = SubSeq(d, 1, 3 * j + 1)
              /\ 3 * j + 2 <= L => st[4 * j + 3].out = SubSeq(d, 1, 3 * j + 2)
              /\ 3 * j + 3 <= L => A(j + 1)
  <2> DEFINE b == 4 * j
             o == 3 * j
             s0 == st[b]
             s1 == st[b + 1]
             s2 == st[b + 2]
             s3 == st[b + 3]
             s4 == st[b + 4]
  <2>1. /\ j + 1 \in 1 .. K /\ 4 * ((j + 1) - 1) = b /\ 3 * ((j + 1) - 1) = o
        /\ 4 * (j + 1) = b + 4 /\ 3 * (j + 1) = o + 3
    BY <1>1, SMT
  <2>2. /\ E[b + 1] \in Sextet /\ E[b + 2] \in Sextet /\ Top8(E[b + 1], E[b + 2]) = d[o + 1]
        /\ o + 2 <= L => E[b + 3] \in Sextet /\ Mid8(E[b + 2], E[b + 3]) = d[o + 2]
        /\ o + 3 <= L => E[b + 4] \in Sextet /\ Low8(E[b + 3], E[b + 4]) = d[o + 3]
    BY <2>1, CharsOfChunk, Zenon DEF E, K, L
  <2>3. /\ b + 1 \in 1 .. K + L /\ b + 2 \in 1 .. K + L /\ o \in 0 .. L - 1
        /\ o + 2 <= L => b + 3 \in 1 .. K + L /\ o + 1 \in 0 .. L - 1
        /\ o + 3 <= L => b + 4 \in 1 .. K + L /\ o + 2 \in 0 .. L - 1 /\ o + 2 <= L
    BY <1>1, SMT
  <2>4. /\ (b + 1) - 1 = b /\ (b + 2) - 1 = b + 1 /\ (b + 3) - 1 = b + 2 /\ (b + 4) - 1 = b + 3
        /\ (o + 1) + 1 = o + 2 /\ (o + 2) + 1 = o + 3
    BY <1>1, SMT
  <2>5. s0 \in St /\ s0.bits = 0 /\ s0.out = SubSeq(d, 1, o)
    BY <1>12, Zenon
  <2> HIDE DEF b, o
  <2>6. s1 = Base64Step(s0, E[b + 1]) /\ s2 = Base64Step(s1, E[b + 2])
    BY <1>10, <2>3, <2>4, Zenon
  <2>7. o + 2 <= L => s3 = Base64Step(s2, E[b + 3])
    BY <1>10, <2>3, <2>4, Zenon
  <2>8. o + 3 <= L => s4 = Base64Step(s3, E[b + 4])
    BY <1>10, <2>3, <2>4, Zenon
  <2> HIDE DEF s0, s1, s2, s3, s4
  <2>9. Chunked(s0, s2, E[b + 1], E[b + 2])
    <3> DEFINE x1 == E[b + 1]
               x2 == E[b + 2]
    <3>1. x1 \in Sextet /\ x2 \in Sextet /\ s2 = Base64Step(Base64Step(s0, x1), x2)
      BY <2>2, <2>6, Zenon
    <3>2. s0 \in St /\ s0.bits = 0
      BY <2>5, Zenon
    <3> HIDE DEF x1, x2
    <3>3. Chunked(s0, s2, x1, x2)
      BY <3>1, <3>2, DecodesChunk, Zenon
    <3> QED
      BY <3>3, Zenon DEF x1, x2
  <2>10. s2.out = SubSeq(d, 1, o + 1)
    <3>1. Append(SubSeq(d, 1, o), d[o + 1]) = SubSeq(d, 1, o + 1)
      BY <2>3, PrefixGrows, Zenon DEF L
    <3> QED
      BY <2>2, <2>5, <2>9, <3>1, Zenon DEF Chunked
  <2>11. ASSUME o + 2 <= L
         PROVE  s3.out = SubSeq(d, 1, o + 2)
    <3>1. s3.out = Append(s2.out, d[o + 2])
      BY <2>2, <2>7, <2>9, <2>11, Zenon DEF Chunked
    <3>2. Append(SubSeq(d, 1, o + 1), d[(o + 1) + 1]) = SubSeq(d, 1, (o + 1) + 1)
      BY <2>3, <2>11, PrefixGrows, Zenon DEF L
    <3> QED
      BY <2>4, <2>10, <3>1, <3>2, Zenon
  <2>12. ASSUME o + 3 <= L
         PROVE  s4 \in St /\ s4.bits = 0 /\ s4.out = SubSeq(d, 1, o + 3)
    <3>1. o + 2 <= L /\ E[b + 3] \in Sextet /\ E[b + 4] \in Sextet
      BY <2>2, <2>3, <2>12, Zenon
    <3>2. s4 \in St /\ s4.bits = 0 /\ s4.out = Append(s3.out, Low8(E[b + 3], E[b + 4]))
      <4> DEFINE x3 == E[b + 3]
                 x4 == E[b + 4]
      <4>1. x3 \in Sextet /\ x4 \in Sextet /\ s3 = Base64Step(s2, x3) /\ s4 = Base64Step(s3, x4)
        BY <2>7, <2>8, <2>12, <3>1, Zenon
      <4> HIDE DEF x3, x4
      <4>2. \A v4 \in Sextet : LET t4 == Base64Step(Base64Step(s2, x3), v4) IN
              t4 \in St /\ t4.bits = 0 /\ t4.out = Append(Base64Step(s2, x3).out, Low8(x3, v4))
        BY <2>9, <4>1, Zenon DEF Chunked
      <4>3. s4 \in St /\ s4.bits = 0 /\ s4.out = Append(s3.out, Low8(x3, x4))
        BY <4>1, <4>2, Zenon
      <4> QED
        BY <4>3, Zenon DEF x3, x4
    <3>3. Append(SubSeq(d, 1, o + 2), d[(o + 2) + 1]) = SubSeq(d, 1, (o + 2) + 1)
      BY <2>3, <2>12, PrefixGrows, Zenon DEF L
    <3> QED
      BY <2>2, <2>4, <2>11, <2>12, <3>1, <3>2, <3>3, Zenon
  <2>13. o + 3 <= L => A(j + 1)
    BY <2>1, <2>12, Zenon DEF s4
  <2> QED
    BY <2>10, <2>11, <2>13, Zenon DEF s2, s3, b, o
<1>13. ASSUME NEW j \in 0 .. K, 3 * j <= L PROVE A(j)
  <2> DEFINE G == {n \in 0 .. K : 3 * n <= L => A(n)}
  <2>1. 0 \in G
    <3>1. 4 * 0 = 0 /\ 3 * 0 = 0 /\ 0 \in 0 .. K
      BY <1>1, SMT
    <3>2. zero.bits = 0 /\ zero.out = <<>>
      BY Zenon DEF zero
    <3>3. SubSeq(d, 1, 0) = <<>>
      BY SubSeqEmpty, SMT
    <3> QED
      BY <1>7, <1>11, <3>1, <3>2, <3>3, Zenon
  <2>2. ASSUME NEW n \in 0 .. K - 1, n \in G PROVE n + 1 \in G
    <3>1. n + 1 \in 0 .. K /\ (3 * (n + 1) <= L => 3 * n <= L /\ 3 * n + 3 <= L)
      BY <1>1, SMT
    <3> HIDE DEF A
    <3> QED
      BY <1>12, <2>2, <3>1, Zenon
  <2>3. 0 .. K \subseteq G
    <3> HIDE DEF G
    <3> QED
      BY <1>1, <2>1, <2>2, CountUp, Zenon
  <2> QED
    BY <1>13, <2>3, Zenon
<1>14. SubSeq(d, 1, L) = d
  BY SubSeqFull, Zenon DEF L
<1>15. st[K + L].out = d
  <2>1. CASE L = 3 * K
    <3>1. A(K) /\ K + L = 4 * K
      <4>1. K \in 0 .. K /\ 3 * K <= L /\ K + L = 4 * K
        BY <1>1, <2>1, SMT
      <4> QED
        BY <1>13, <4>1, Zenon
    <3> QED
      BY <1>14, <2>1, <3>1, Zenon
  <2>2. CASE L = 3 * K - 1
    <3>1. K - 1 \in 0 .. K /\ K - 1 \in 0 .. K - 1 /\ 3 * (K - 1) <= L /\ 3 * (K - 1) + 2 = L
          /\ 4 * (K - 1) + 3 = K + L /\ 3 * (K - 1) + 2 <= L
      BY <1>1, <2>2, SMT
    <3>2. st[4 * (K - 1) + 3].out = SubSeq(d, 1, 3 * (K - 1) + 2)
      <4>1. A(K - 1)
        BY <1>13, <3>1, Zenon
      <4> HIDE DEF A
      <4> QED
        BY <1>12, <3>1, <4>1, Zenon
    <3> QED
      BY <1>14, <3>1, <3>2, Zenon
  <2>3. CASE L = 3 * K - 2
    <3>1. K - 1 \in 0 .. K /\ K - 1 \in 0 .. K - 1 /\ 3 * (K - 1) <= L /\ 3 * (K - 1) + 1 = L
          /\ 4 * (K - 1) + 2 = K + L
      BY <1>1, <2>3, SMT
    <3>2. st[4 * (K - 1) + 2].out = SubSeq(d, 1, 3 * (K - 1) + 1)
      <4>1. A(K - 1)
        BY <1>13, <3>1, Zenon
      <4> HIDE DEF A
      <4> QED
        BY <1>12, <3>1, <4>1, Zenon
    <3> QED
      BY <1>14, <3>1, <3>2, Zenon
  <2> QED
    BY <1>1, <2>1, <2>2, <2>3, SMT
<1> QED
  BY <1>3, <1>4, <1>6, <1>15, Zenon DEF E

-----------------------------------------------------------------------------
(* The specification of Obfs.                                              *)

\* The packet under way: the datagram as its carrier wraps it.
Wrapped ==
  \/ carrier = "quic" /\ \E pnlen \in PnLens, random \in 0 .. 15, filler \in {0, 255} :
        packet = QuicWrap(datagram, pnlen, random, filler)
  \/ carrier = "base64" /\ packet = Base64Encode(datagram)

\* The inductive invariant: between the wrapping and the unwrapping, the packet is a
\* wrapping of the datagram.
ObfsInv ==
  /\ datagram \in Datagrams /\ carrier \in {"quic", "base64"}
  /\ packet # None => Wrapped
  /\ WrapIsUndone

\* Either way of wrapping is undone by the unwrapping of the same carrier.
LEMMA UnwrapsWrapped ==
  ASSUME datagram \in Datagrams, Wrapped
  PROVE  (IF carrier = "quic" THEN QuicUnwrap(packet) ELSE Base64Decode(packet)) = datagram
<1>1. datagram \in Seq(Octet)
  BY ObfsAssumption, Zenon DEF Octet
<1>2. ASSUME carrier = "quic",
             NEW pnlen \in PnLens, NEW random \in 0 .. 15, NEW filler \in {0, 255},
             packet = QuicWrap(datagram, pnlen, random, filler)
      PROVE  QuicUnwrap(packet) = datagram
  <2>1. pnlen \in 1 .. 4
    BY ObfsAssumption, Zenon
  <2>2. filler \in Octet
    BY SMT DEF Octet
  <2> QED
    BY <1>1, <1>2, <2>1, <2>2, QuicIsUndone, Zenon
<1>3. ASSUME carrier = "base64", packet = Base64Encode(datagram)
      PROVE  Base64Decode(packet) = datagram
  BY <1>1, <1>3, Base64IsUndone, Zenon
<1>4. CASE carrier = "quic"
  BY <1>2, <1>4, Zenon DEF Wrapped
<1>5. CASE carrier # "quic"
  BY <1>3, <1>5, Zenon DEF Wrapped
<1> QED
  BY <1>4, <1>5

\* A datagram of any bytes and any length, wrapped with any random bits and any length of
\* packet number, is what the peer unwraps: the two carriers of src/obfs.rs lose nothing.
THEOREM CarriersAreUndone == ObfsSpec => []WrapIsUndone
<1>1. ObfsInit => ObfsInv
  BY Zenon DEF ObfsInit, ObfsInv, WrapIsUndone
<1>2. ObfsInv /\ [ObfsNext]_ovars => ObfsInv'
  <2> SUFFICES ASSUME ObfsInv, [ObfsNext]_ovars
               PROVE  ObfsInv'
    OBVIOUS
  <2>1. CASE ObfsWrap
    <3>1. Wrapped'
      BY <2>1, Zenon DEF ObfsWrap, Wrapped
    <3>2. WrapIsUndone'
      BY <2>1, Zenon DEF ObfsWrap, ObfsInv, WrapIsUndone
    <3> QED
      BY <2>1, <3>1, <3>2, Zenon DEF ObfsWrap, ObfsInv
  <2>2. CASE ObfsUnwrap
    <3>1. Wrapped /\ datagram \in Datagrams
      BY <2>2, Zenon DEF ObfsUnwrap, ObfsInv
    <3>2. Wrapped'
      BY <2>2, <3>1, Zenon DEF ObfsUnwrap, Wrapped
    <3>3. unwrapped' = <<datagram>>
      BY <2>2, <3>1, UnwrapsWrapped, Zenon DEF ObfsUnwrap
    <3>4. WrapIsUndone'
      BY <2>2, <3>3, Zenon DEF ObfsUnwrap, WrapIsUndone
    <3> QED
      BY <2>2, <3>2, <3>4, Zenon DEF ObfsUnwrap, ObfsInv
  <2>3. CASE UNCHANGED ovars
    BY <2>3, Zenon DEF ovars, ObfsInv, Wrapped, WrapIsUndone
  <2> QED
    BY <2>1, <2>2, <2>3 DEF ObfsNext
<1>3. ObfsInv => WrapIsUndone
  BY DEF ObfsInv
<1> QED
  BY <1>1, <1>2, <1>3, PTL DEF ObfsSpec

-----------------------------------------------------------------------------
(* DnsWire: names.                                                         *)

\* The three kinds of a length byte.
IsLabel(b) == b > 0 /\ b < 64
IsPointer(b) == b >= 192
IsReserved(b) == b >= 64 /\ b < 192

\* The three kinds of length byte, and zero.
LEMMA KindIs ==
  ASSUME NEW b \in Octet
  PROVE  /\ Kind(b) = "label" /\ b > 0 <=> IsLabel(b)
         /\ Kind(b) = "label" <=> IsLabel(b) \/ b = 0
         /\ Kind(b) = "pointer" <=> IsPointer(b)
         /\ Kind(b) = "reserved" <=> IsReserved(b)
         /\ b = 0 \/ IsLabel(b) \/ IsPointer(b) \/ IsReserved(b)
         /\ b = 0 => ~IsLabel(b) /\ ~IsPointer(b) /\ ~IsReserved(b)
         /\ IsLabel(b) => ~IsPointer(b) /\ ~IsReserved(b)
         /\ IsPointer(b) => ~IsReserved(b)
<1>1. CASE b < 64
  BY <1>1 DEF Kind, Octet, IsLabel, IsPointer, IsReserved
<1>2. CASE b >= 192
  BY <1>2 DEF Kind, Octet, IsLabel, IsPointer, IsReserved
<1>3. CASE b >= 64 /\ b < 192
  BY <1>3 DEF Kind, Octet, IsLabel, IsPointer, IsReserved
<1> QED
  BY <1>1, <1>2, <1>3 DEF Octet

\* A byte of a message.
LEMMA ByteOf ==
  ASSUME NEW m \in Seq(Octet), NEW p \in Nat, p < Len(m)
  PROVE  At(m, p) \in Octet /\ At(m, p) \in Nat
<1>1. p + 1 \in 1 .. Len(m)
  OBVIOUS
<1>2. At(m, p) \in Octet
  BY <1>1, ElementOfSeq, Zenon DEF At
<1>3. \A x \in Octet : x \in Nat
  BY DEF Octet
<1> QED
  BY <1>2, <1>3

\* The value of the recursive function of skip_name at p, given the function.
SkipBody(m, f, p) ==
  IF p >= Len(m) THEN None
  ELSE CASE At(m, p) = 0 -> p + 1
         [] Kind(At(m, p)) = "label" /\ At(m, p) > 0 -> f[p + 1 + At(m, p)]
         [] Kind(At(m, p)) = "pointer" -> IF p + 1 < Len(m) THEN p + 2 ELSE None
         [] Kind(At(m, p)) = "reserved" -> None

\* SkipBody by cases.
LEMMA SkipBodyIs ==
  ASSUME NEW m \in Seq(Octet), NEW f, NEW p \in Nat
  PROVE  /\ p >= Len(m) => SkipBody(m, f, p) = None
         /\ p < Len(m) =>
              /\ At(m, p) = 0 => SkipBody(m, f, p) = p + 1
              /\ IsLabel(At(m, p)) => SkipBody(m, f, p) = f[p + 1 + At(m, p)]
              /\ IsPointer(At(m, p)) =>
                    SkipBody(m, f, p) = IF p + 1 < Len(m) THEN p + 2 ELSE None
              /\ IsReserved(At(m, p)) => SkipBody(m, f, p) = None
<1> DEFINE b == At(m, p)
           k == Kind(b)
<1>0. Len(m) \in Nat
  OBVIOUS
<1>1. CASE p >= Len(m)
  BY <1>0, <1>1 DEF SkipBody
<1>2. CASE p < Len(m)
  <2>1. b \in Octet /\ b \in Nat
    BY <1>2, ByteOf, Zenon
  <2>2. ~(p >= Len(m))
    BY <1>0, <1>2
  <2>3. /\ k = "label" /\ b > 0 <=> IsLabel(b)
        /\ k = "pointer" <=> IsPointer(b)
        /\ k = "reserved" <=> IsReserved(b)
        /\ b = 0 => ~IsLabel(b) /\ ~IsPointer(b) /\ ~IsReserved(b)
        /\ IsLabel(b) => ~IsPointer(b) /\ ~IsReserved(b)
        /\ IsPointer(b) => ~IsReserved(b)
    BY <2>1, KindIs, Zenon
  <2>4. SkipBody(m, f, p) =
          CASE b = 0 -> p + 1
            [] k = "label" /\ b > 0 -> f[p + 1 + b]
            [] k = "pointer" -> IF p + 1 < Len(m) THEN p + 2 ELSE None
            [] k = "reserved" -> None
    BY <2>2, Zenon DEF SkipBody
  <2> HIDE DEF b, k
  <2>5. b = 0 => SkipBody(m, f, p) = p + 1
    BY <2>3, <2>4
  <2>6. IsLabel(b) => SkipBody(m, f, p) = f[p + 1 + b]
    BY <2>3, <2>4
  <2>7. IsPointer(b) => SkipBody(m, f, p) = IF p + 1 < Len(m) THEN p + 2 ELSE None
    BY <2>3, <2>4
  <2>8. IsReserved(b) => SkipBody(m, f, p) = None
    BY <2>3, <2>4
  <2> QED
    BY <2>2, <2>5, <2>6, <2>7, <2>8, Zenon DEF b
<1>3. p >= Len(m) \/ p < Len(m)
  BY <1>0
<1> QED
  BY <1>1, <1>2, <1>3, Zenon

\* Where a label leads: further on, and not far past the end.
LEMMA LabelLeadsOn ==
  ASSUME NEW m \in Seq(Octet), NEW p \in Nat, p < Len(m), IsLabel(At(m, p))
  PROVE  p + 1 + At(m, p) \in p + 1 .. Len(m) + 63
<1>1. At(m, p) \in Nat /\ Len(m) \in Nat
  BY ByteOf, LenProperties, Zenon
<1> QED
  BY <1>1 DEF IsLabel

\* Two functions that agree past p have the same value at p.
LEMMA SkipBodyLooksOn ==
  ASSUME NEW m \in Seq(Octet), NEW f, NEW g, NEW p \in Nat,
         \A q \in p + 1 .. Len(m) + 63 : f[q] = g[q]
  PROVE  SkipBody(m, f, p) = SkipBody(m, g, p)
<1> DEFINE b == At(m, p)
<1>0. Len(m) \in Nat
  OBVIOUS
<1>1. CASE p >= Len(m)
  BY <1>1, SkipBodyIs, Zenon
<1>2. CASE p < Len(m)
  <2>1. b = 0 \/ IsLabel(b) \/ IsPointer(b) \/ IsReserved(b)
    BY <1>2, ByteOf, KindIs, Zenon
  <2>2. CASE IsLabel(b)
    <3>1. f[p + 1 + b] = g[p + 1 + b]
      BY <1>2, <2>2, LabelLeadsOn, Zenon
    <3> QED
      BY <1>2, <2>2, <3>1, SkipBodyIs, Zenon
  <2>3. CASE b = 0
    BY <1>2, <2>3, SkipBodyIs, Zenon
  <2>4. CASE IsPointer(b)
    BY <1>2, <2>4, SkipBodyIs, Zenon
  <2>5. CASE IsReserved(b)
    BY <1>2, <2>5, SkipBodyIs, Zenon
  <2> QED
    BY <2>1, <2>2, <2>3, <2>4, <2>5, Zenon
<1> QED
  BY <1>0, <1>1, <1>2

\* The recursive function of skip_name exists.
LEMMA SkipExists ==
  ASSUME NEW m \in Seq(Octet)
  PROVE  \E f : f = [p \in 0 .. (Len(m) + 63) |-> SkipBody(m, f, p)]
<1> DEFINE M == Len(m) + 63
           Good(k, f) == \A p \in M - k .. M : f[p] = SkipBody(m, f, p)
           G == {k \in 0 .. M : \E f : Good(k, f)}
<1>1. M \in Nat /\ M = Len(m) + 63 /\ Len(m) \in Nat
  OBVIOUS
<1>2. \A f : SkipBody(m, f, M) = None
  <2>1. M >= Len(m)
    BY <1>1
  <2> QED
    BY <1>1, <2>1, SkipBodyIs, Zenon
<1> HIDE DEF M
<1>3. 0 \in G
  <2> DEFINE f == [p \in 0 .. M |-> None]
  <2>1. Good(0, f)
    <3> TAKE p \in M - 0 .. M
    <3>1. p = M /\ M \in 0 .. M
      BY <1>1
    <3> QED
      BY <1>2, <3>1, Zenon
  <2>2. 0 \in 0 .. M
    BY <1>1
  <2> QED
    BY <2>1, <2>2, Zenon
<1>4. ASSUME NEW k \in 0 .. M - 1, k \in G PROVE k + 1 \in G
  <2>1. PICK f : Good(k, f)
    BY <1>4, Zenon
  <2> DEFINE n == M - (k + 1)
             g == [p \in 0 .. M |-> IF p = n THEN SkipBody(m, f, n) ELSE f[p]]
  <2>2. n \in Nat /\ n \in 0 .. M /\ k + 1 \in 0 .. M
        /\ (\A p \in n .. M : p = n \/ (p # n /\ p \in M - k .. M)) /\ (\A p \in n .. M : p \in 0 .. M /\ p \in Nat)
        /\ (\A p \in n .. M : \A q \in p + 1 .. M : q \in n + 1 .. M)
        /\ (\A q \in n + 1 .. M : q \in 0 .. M /\ q # n)
    BY <1>1
  <2> HIDE DEF n
  <2>3. \A q \in n + 1 .. M : g[q] = f[q]
    BY <2>2, Zenon
  <2>4. ASSUME NEW p \in n .. M PROVE SkipBody(m, f, p) = SkipBody(m, g, p)
    <3> HIDE DEF g
    <3>1. p \in Nat /\ \A q \in p + 1 .. Len(m) + 63 : f[q] = g[q]
      BY <1>1, <2>2, <2>3, Zenon
    <3> QED
      BY <3>1, SkipBodyLooksOn, Zenon
  <2>5. ASSUME NEW p \in n .. M PROVE g[p] = SkipBody(m, g, p)
    <3>1. CASE p = n
      <4>1. g[n] = SkipBody(m, f, n)
        BY <2>2, Zenon
      <4> HIDE DEF g
      <4> QED
        BY <2>4, <3>1, <4>1, Zenon
    <3>2. CASE p # n /\ p \in M - k .. M
      <4>1. g[p] = f[p]
        BY <2>2, <3>2, Zenon
      <4>2. f[p] = SkipBody(m, f, p)
        BY <2>1, <3>2, Zenon
      <4> HIDE DEF g
      <4> QED
        BY <2>4, <4>1, <4>2, Zenon
    <3> QED
      BY <2>2, <3>1, <3>2, Zenon
  <2> HIDE DEF g
  <2>6. Good(k + 1, g)
    BY <2>5, Zenon DEF n
  <2> QED
    BY <2>2, <2>6, Zenon
<1>5. M \in G
  <2>1. 0 .. M \subseteq G
    <3> HIDE DEF G
    <3> QED
      BY <1>1, <1>3, <1>4, CountUp, Zenon
  <2>2. M \in 0 .. M
    BY <1>1
  <2> HIDE DEF G
  <2> QED
    BY <2>1, <2>2, Zenon
<1>6. PICK f : Good(M, f)
  BY <1>5, Zenon
<1> DEFINE g == [p \in 0 .. M |-> f[p]]
<1>7. ASSUME NEW p \in 0 .. M PROVE g[p] = SkipBody(m, g, p)
  <2>1. p \in M - M .. M /\ p \in Nat /\ \A q \in p + 1 .. M : q \in 0 .. M
    BY <1>1
  <2>2. f[p] = SkipBody(m, f, p)
    BY <1>6, <2>1, Zenon
  <2>3. \A q \in p + 1 .. M : f[q] = g[q]
    BY <2>1, Zenon
  <2>4. g[p] = f[p]
    BY Zenon
  <2> HIDE DEF g
  <2>5. SkipBody(m, f, p) = SkipBody(m, g, p)
    BY <1>1, <2>1, <2>3, SkipBodyLooksOn, Zenon
  <2> QED
    BY <2>2, <2>4, <2>5, Zenon
<1>8. g = [p \in 0 .. M |-> g[p]]
  BY Zenon
<1> HIDE DEF g
<1>9. g = [p \in 0 .. M |-> SkipBody(m, g, p)]
  BY <1>7, <1>8, Zenon
<1> QED
  BY <1>9, Zenon DEF M

\* skip_name, one length byte at a time.
LEMMA Skips ==
  ASSUME NEW m \in Seq(Octet), NEW p \in Nat
  PROVE  /\ p >= Len(m) => SkipName(m, p) = None
         /\ p < Len(m) =>
              /\ At(m, p) = 0 => SkipName(m, p) = p + 1
              /\ IsLabel(At(m, p)) => SkipName(m, p) = SkipName(m, p + 1 + At(m, p))
              /\ IsPointer(At(m, p)) => SkipName(m, p) = IF p + 1 < Len(m) THEN p + 2 ELSE None
              /\ IsReserved(At(m, p)) => SkipName(m, p) = None
<1> DEFINE s == CHOOSE f : f = [q \in 0 .. (Len(m) + 63) |-> SkipBody(m, f, q)]
<1>1. s = [q \in 0 .. (Len(m) + 63) |-> SkipBody(m, s, q)]
  BY SkipExists, Zenon
<1>2. \A q : SkipName(m, q) = IF q > Len(m) THEN None ELSE s[q]
  BY DEF SkipName, SkipBody
<1> HIDE DEF s
<1>3. Len(m) \in Nat
  OBVIOUS
<1>4. \A q \in 0 .. Len(m) + 63 : s[q] = SkipBody(m, s, q)
  BY <1>1, Zenon
<1>5. ASSUME NEW q \in Nat, q >= Len(m) PROVE SkipName(m, q) = None
  <2>1. CASE q = Len(m)
    <3>1. q \in 0 .. Len(m) + 63 /\ ~(q > Len(m))
      BY <1>3, <2>1
    <3>2. SkipBody(m, s, q) = None
      BY <1>5, SkipBodyIs, Zenon
    <3>3. s[q] = None
      BY <1>4, <3>1, <3>2, Zenon
    <3> QED
      BY <1>2, <3>1, <3>3, Zenon
  <2>2. CASE q > Len(m)
    BY <1>2, <2>2, Zenon
  <2> QED
    BY <1>3, <1>5, <2>1, <2>2
<1>6. ASSUME p < Len(m) PROVE SkipName(m, p) = SkipBody(m, s, p)
  <2>1. p \in 0 .. Len(m) + 63 /\ ~(p > Len(m))
    BY <1>3, <1>6
  <2> QED
    BY <1>2, <1>4, <2>1, Zenon
<1>7. ASSUME p < Len(m), IsLabel(At(m, p))
      PROVE  SkipName(m, p) = SkipName(m, p + 1 + At(m, p))
  <2> DEFINE q == p + 1 + At(m, p)
  <2>1. q \in p + 1 .. Len(m) + 63
    BY <1>7, LabelLeadsOn, Zenon
  <2>2. SkipName(m, p) = s[q]
    BY <1>6, <1>7, SkipBodyIs, Zenon
  <2> HIDE DEF q
  <2>3. q \in Nat /\ q \in 0 .. Len(m) + 63 /\ (q >= Len(m) \/ ~(q > Len(m)))
    BY <1>3, <2>1
  <2>4. CASE q >= Len(m)
    <3>1. s[q] = None
      BY <1>4, <2>3, <2>4, SkipBodyIs, Zenon
    <3>2. SkipName(m, q) = None
      BY <1>5, <2>3, <2>4, Zenon
    <3> QED
      BY <2>2, <3>1, <3>2, Zenon DEF q
  <2>5. CASE ~(q > Len(m))
    <3>1. SkipName(m, q) = s[q]
      BY <1>2, <2>5, Zenon
    <3> QED
      BY <2>2, <3>1, Zenon DEF q
  <2> QED
    BY <2>3, <2>4, <2>5, Zenon
<1> QED
  BY <1>5, <1>6, <1>7, SkipBodyIs, Zenon

\* Types, and where the reader stands.
WireTypeOK ==
  /\ msg \in Inputs /\ pos \in Nat /\ pos <= Len(msg) /\ budget \in Nat
  /\ jumped \in BOOLEAN /\ after \in Nat /\ after >= HEADER_LEN
  /\ ~jumped => pos >= HEADER_LEN
  /\ done \in {"reading", "some", "none"}

\* The skipper, from where the reader stands, ends where it ends from the start; once
\* the reader has jumped or has finished, its `after' is that place.
SkipperFollows ==
  /\ jumped \/ done = "some" => SkipName(msg, HEADER_LEN) = after
  /\ ~jumped /\ done = "reading" => SkipName(msg, pos) = SkipName(msg, HEADER_LEN)

\* Where the reader goes from q when it does not stop there.
Succ(q) == IF At(msg, q) < 64 THEN q + 1 + At(msg, q) ELSE PointsTo(q)

\* The way the reader has come: it leaves every offset on it for one on it or for where
\* it stands, never past the last offset, and each hop that did not repeat one cost one
\* of the budget.
TrailOK ==
  /\ seen \subseteq 0 .. Len(msg) - 2
  /\ \A q \in seen : Succ(q) \in seen \cup {pos}
  /\ pos \in seen \/ Cardinality(seen) = Len(msg) - budget

\* The invariant of the reader.
ReaderInv == WireTypeOK /\ SkipperFollows /\ (done # "some" => TrailOK)

\* Messages are bytes, and as long as a header.
LEMMA MessageIs ==
  ASSUME NEW m \in Inputs
  PROVE  m \in Seq(Octet) /\ Len(m) \in Nat /\ Len(m) >= 12
<1>1. m \in Seq(0 .. 255) /\ Len(m) >= 12
  BY WireAssumption
<1>2. m \in Seq(Octet)
  BY <1>1, Zenon DEF Octet
<1> QED
  BY <1>1, <1>2, LenProperties, Zenon

\* An interval of numbers is finite, and as large as it is long.
LEMMA TrailIsFinite ==
  ASSUME NEW n \in Nat, n >= 1, NEW S \in SUBSET (0 .. n - 2)
  PROVE  IsFiniteSet(S) /\ Cardinality(S) \in Nat /\ Cardinality(S) < n
<1> DEFINE I == 0 .. n - 2
<1>1. IsFiniteSet(I) /\ Cardinality(I) = IF 0 > n - 2 THEN 0 ELSE (n - 2) - 0 + 1
  <2>1. 0 \in Int /\ n - 2 \in Int
    OBVIOUS
  <2> QED
    BY <2>1, FS_Interval
<1>2. IsFiniteSet(S) /\ Cardinality(S) <= Cardinality(I)
  BY <1>1, FS_Subset, Zenon
<1>3. Cardinality(S) \in Nat
  BY <1>2, FS_CardinalityType, Zenon
<1> HIDE DEF I
<1> QED
  BY <1>1, <1>2, <1>3

\* A hop of the reader to where Succ says, off an offset that is not the last.
LEMMA TrailGrows ==
  ASSUME NEW n \in Nat, n >= 1, NEW S \in SUBSET (0 .. n - 2), NEW x \in 0 .. n - 2,
         NEW b \in Nat, b > 0, x \in S \/ Cardinality(S) = n - b
  PROVE  /\ S \cup {x} \subseteq 0 .. n - 2
         /\ x \notin S => Cardinality(S \cup {x}) = n - (b - 1)
<1>1. IsFiniteSet(S) /\ Cardinality(S) \in Nat
  BY TrailIsFinite, Zenon
<1>2. ASSUME x \notin S PROVE Cardinality(S \cup {x}) = n - (b - 1)
  <2>1. Cardinality(S \cup {x}) = Cardinality(S) + 1
    BY <1>1, <1>2, FS_AddElement, Zenon
  <2> QED
    BY <1>1, <1>2, <2>1
<1> QED
  BY <1>2, Zenon

\* A reader that goes on leaves a trail again.
LEMMA HopKeepsTrail ==
  ASSUME WireTypeOK, TrailOK, Reading, Hop, pos <= Len(msg) - 2, pos' = Succ(pos)
  PROVE  TrailOK'
<1> DEFINE n == Len(msg)
<1>1. n \in Nat /\ n >= 1 /\ msg' = msg
  BY MessageIs, SMT DEF WireTypeOK, Hop
<1>2. /\ seen \in SUBSET (0 .. n - 2) /\ pos \in 0 .. n - 2 /\ budget \in Nat /\ budget > 0
      /\ pos \in seen \/ Cardinality(seen) = n - budget
      /\ budget' = budget - 1 /\ seen' = seen \cup {pos}
  BY <1>1 DEF WireTypeOK, TrailOK, Reading, Hop
<1>3. \A q : Succ(q)' = IF At(msg, q) < 64 THEN q + 1 + At(msg, q) ELSE PointsTo(q)
  BY <1>1, Zenon DEF Succ, At, PointsTo
<1>4. \A q : Succ(q)' = Succ(q)
  BY <1>3, Zenon DEF Succ
<1>5. \A q \in seen : Succ(q) \in seen \cup {pos}
  BY DEF TrailOK
<1>6. ASSUME NEW q \in seen' PROVE Succ(q)' \in seen' \cup {pos'}
  BY <1>2, <1>4, <1>5, Zenon
<1>7. pos' \in seen' \/ Cardinality(seen') = n - budget'
  <2>1. CASE pos \in seen
    <3>1. pos' \in seen \cup {pos}
      BY <1>5, <2>1, Zenon
    <3> QED
      BY <1>2, <3>1, Zenon
  <2>2. CASE pos \notin seen
    <3> HIDE DEF n
    <3> QED
      BY <1>1, <1>2, <2>2, TrailGrows, Zenon
  <2> QED
    BY <2>1, <2>2, Zenon
<1>8. seen' \subseteq 0 .. n - 2
  BY <1>2, Zenon
<1> QED
  BY <1>1, <1>6, <1>7, <1>8, Zenon DEF TrailOK

\* The byte the reader looks at.
LEMMA StandsOn ==
  ASSUME WireTypeOK, Reading
  PROVE  /\ At(msg, pos) \in Octet /\ At(msg, pos) \in Nat /\ Len(msg) \in Nat
         /\ msg \in Seq(Octet) /\ pos < Len(msg)
<1>1. msg \in Seq(Octet) /\ Len(msg) \in Nat /\ pos \in Nat /\ pos < Len(msg)
  BY MessageIs, Zenon DEF WireTypeOK, Reading
<1> QED
  BY <1>1, ByteOf, Zenon

\* Each step of read_name keeps the invariant: past a label,
LEMMA LabelKeeps ==
  ASSUME ReaderInv, ReadsLabel
  PROVE  ReaderInv'
<1> DEFINE b == At(msg, pos)
<1>1. /\ WireTypeOK /\ SkipperFollows /\ TrailOK /\ Reading /\ Hop /\ done = "reading"
      /\ b > 0 /\ Kind(b) = "label" /\ pos + 1 + b <= Len(msg) /\ pos' = pos + 1 + b
      /\ jumped' = jumped /\ after' = after /\ done' = done /\ msg' = msg
  BY Zenon DEF ReaderInv, ReadsLabel, Hop, Reading
<1>2. /\ b \in Octet /\ b \in Nat /\ Len(msg) \in Nat
      /\ msg \in Seq(Octet) /\ pos < Len(msg)
  BY <1>1, StandsOn, Zenon
<1>3. IsLabel(b)
  BY <1>1, <1>2, KindIs, Zenon
<1>4. SkipName(msg, pos) = SkipName(msg, pos + 1 + b)
  <2>1. pos \in Nat
    BY <1>1, Zenon DEF WireTypeOK
  <2> QED
    BY <1>2, <1>3, <2>1, Skips, Zenon
<1>5. WireTypeOK'
  <2> HIDE DEF b
  <2>1. pos' \in Nat /\ pos' <= Len(msg) /\ (~jumped => pos' >= HEADER_LEN)
        /\ budget' \in Nat
    BY <1>1, <1>2 DEF WireTypeOK, HEADER_LEN, Hop, Reading
  <2> QED
    BY <1>1, <2>1, Zenon DEF WireTypeOK
<1>6. SkipperFollows'
  BY <1>1, <1>4, Zenon DEF SkipperFollows
<1>7. TrailOK'
  <2>1. pos' = Succ(pos)
    BY <1>1, <1>3, Zenon DEF Succ, IsLabel
  <2>2. pos <= Len(msg) - 2
    <3> HIDE DEF b
    <3> QED
      BY <1>1, <1>2 DEF WireTypeOK
  <2> QED
    BY <1>1, <2>1, <2>2, HopKeepsTrail, Zenon
<1> QED
  BY <1>5, <1>6, <1>7, Zenon DEF ReaderInv

\* ... at the end of the name,
LEMMA EndKeeps ==
  ASSUME ReaderInv, ReadsEnd
  PROVE  ReaderInv'
<1> DEFINE b == At(msg, pos)
<1>1. /\ WireTypeOK /\ SkipperFollows /\ Reading /\ Hop /\ done = "reading"
      /\ b = 0 /\ pos' = pos + 1 /\ after' = (IF jumped THEN after ELSE pos + 1)
      /\ jumped' = jumped /\ done' = "some" /\ msg' = msg
  BY Zenon DEF ReaderInv, ReadsEnd, Hop, Reading
<1>2. Len(msg) \in Nat /\ msg \in Seq(Octet) /\ pos < Len(msg)
  BY <1>1, StandsOn, Zenon
<1>4. SkipName(msg, pos) = pos + 1
  <2>1. pos \in Nat
    BY <1>1, Zenon DEF WireTypeOK
  <2> QED
    BY <1>1, <1>2, <2>1, Skips, Zenon
<1>5. WireTypeOK'
  <2> HIDE DEF b
  <2>1. pos' \in Nat /\ pos' <= Len(msg) /\ (~jumped => pos' >= HEADER_LEN)
        /\ budget' \in Nat /\ after' \in Nat /\ after' >= HEADER_LEN
    BY <1>1, <1>2 DEF WireTypeOK, HEADER_LEN, Hop, Reading
  <2> QED
    BY <1>1, <2>1, Zenon DEF WireTypeOK
<1>6. SkipperFollows'
  BY <1>1, <1>4, Zenon DEF SkipperFollows
<1> QED
  BY <1>1, <1>5, <1>6, Zenon DEF ReaderInv

\* ... to where a pointer leads,
LEMMA PointerKeeps ==
  ASSUME ReaderInv, ReadsPointer
  PROVE  ReaderInv'
<1> DEFINE b == At(msg, pos)
           t == PointsTo(pos)
<1>1. /\ WireTypeOK /\ SkipperFollows /\ TrailOK /\ Reading /\ Hop /\ done = "reading"
      /\ Kind(b) = "pointer" /\ pos + 1 < Len(msg) /\ t < Len(msg) /\ pos' = t
      /\ after' = (IF jumped THEN after ELSE pos + 2)
      /\ jumped' = TRUE /\ done' = done /\ msg' = msg
  BY Zenon DEF ReaderInv, ReadsPointer, Hop, Reading
<1>2. /\ b \in Octet /\ b \in Nat /\ Len(msg) \in Nat
      /\ msg \in Seq(Octet) /\ pos < Len(msg) /\ pos \in Nat
  BY <1>1, StandsOn, Zenon DEF WireTypeOK
<1>3. IsPointer(b)
  BY <1>1, <1>2, KindIs, Zenon
<1>4. SkipName(msg, pos) = pos + 2
  BY <1>1, <1>2, <1>3, Skips, Zenon
<1>5. t \in Nat
  <2>1. pos + 1 \in Nat
    BY <1>2
  <2>2. At(msg, pos + 1) \in Nat
    BY <1>1, <1>2, <2>1, ByteOf, Zenon
  <2> DEFINE c == At(msg, pos + 1)
  <2>3. t = 256 * (b - 192) + c
    BY DEF PointsTo
  <2> HIDE DEF b, c, t
  <2> QED
    BY <1>2, <1>3, <2>2, <2>3 DEF IsPointer, c
<1>6. WireTypeOK'
  <2> HIDE DEF b, t
  <2>1. pos' \in Nat /\ pos' <= Len(msg)
        /\ budget' \in Nat /\ after' \in Nat /\ after' >= HEADER_LEN
    BY <1>1, <1>2, <1>5 DEF WireTypeOK, HEADER_LEN, Hop, Reading
  <2> QED
    BY <1>1, <2>1, Zenon DEF WireTypeOK
<1>7. SkipperFollows'
  BY <1>1, <1>4, Zenon DEF SkipperFollows
<1>8. TrailOK'
  <2>1. ~(b < 64)
    <3> HIDE DEF b
    <3> QED
      BY <1>2, <1>3 DEF IsPointer
  <2>2. pos' = Succ(pos)
    BY <1>1, <2>1, Zenon DEF Succ
  <2>3. pos <= Len(msg) - 2
    BY <1>1, <1>2
  <2> QED
    BY <1>1, <2>2, <2>3, HopKeepsTrail, Zenon
<1> QED
  BY <1>6, <1>7, <1>8, Zenon DEF ReaderInv

\* ... giving up,
LEMMA RefusalKeeps ==
  ASSUME ReaderInv, Refuses
  PROVE  ReaderInv'
<1>1. /\ done = "reading" /\ done' = "none"
      /\ UNCHANGED <<msg, pos, budget, jumped, after, labels, seen, reply>>
  BY Zenon DEF Refuses
<1>2. /\ done = "reading" /\ done' = "none" /\ msg' = msg /\ pos' = pos /\ budget' = budget
      /\ jumped' = jumped /\ after' = after /\ seen' = seen
  BY <1>1, Zenon
<1>3. TrailOK'
  <2>1. \A q : Succ(q)' = Succ(q)
    BY <1>2, Zenon DEF Succ, At, PointsTo
  <2> QED
    BY <1>2, <2>1, Zenon DEF ReaderInv, TrailOK
<1>4. WireTypeOK'
  <2>1. WireTypeOK
    BY Zenon DEF ReaderInv
  <2> QED
    BY <1>2, <2>1, Zenon DEF WireTypeOK
<1>5. SkipperFollows'
  <2>1. SkipperFollows
    BY Zenon DEF ReaderInv
  <2> QED
    BY <1>2, <2>1, Zenon DEF SkipperFollows
<1> QED
  BY <1>3, <1>4, <1>5, Zenon DEF ReaderInv

\* ... and what leaves the reader alone.
LEMMA RestKeeps ==
  ASSUME ReaderInv, UNCHANGED <<msg, reader>>
  PROVE  ReaderInv'
<1>1. UNCHANGED <<msg, pos, budget, jumped, after, seen, done>>
  BY Zenon DEF reader
<1>3. TrailOK => TrailOK'
  <2>1. \A q : Succ(q)' = Succ(q)
    BY <1>1, Zenon DEF Succ, At, PointsTo
  <2> QED
    BY <1>1, <2>1, Zenon DEF TrailOK
<1>4. WireTypeOK' /\ SkipperFollows'
  BY <1>1, Zenon DEF ReaderInv, WireTypeOK, SkipperFollows
<1> QED
  BY <1>1, <1>3, <1>4, Zenon DEF ReaderInv

\* The invariant holds when read_name starts,
LEMMA ReaderStarts ==
  ASSUME WireInit
  PROVE  ReaderInv
<1>1. msg \in Inputs /\ Len(msg) \in Nat /\ Len(msg) >= 12
  BY MessageIs, Zenon DEF WireInit
<1>2. WireTypeOK
  <2>1. pos \in Nat /\ pos <= Len(msg) /\ budget \in Nat /\ after \in Nat /\ after >= HEADER_LEN
        /\ pos >= HEADER_LEN
    BY <1>1 DEF WireInit, HEADER_LEN, Budget
  <2>2. jumped \in BOOLEAN /\ done \in {"reading", "some", "none"}
    BY Zenon DEF WireInit
  <2> QED
    BY <1>1, <2>1, <2>2, Zenon DEF WireTypeOK
<1>3. SkipperFollows
  BY Zenon DEF WireInit, SkipperFollows
<1>4. TrailOK
  <2>1. Cardinality({}) = 0
    BY FS_EmptySet, Zenon
  <2>2. Cardinality(seen) = Len(msg) - budget
    BY <1>1, <2>1 DEF WireInit, Budget
  <2> QED
    BY <2>2, Zenon DEF WireInit, TrailOK
<1> QED
  BY <1>2, <1>3, <1>4, Zenon DEF ReaderInv

\* ... and says what is to be shown of read_name.
LEMMA ReaderIsRight ==
  ASSUME ReaderInv
  PROVE  ReaderAgreesWithSkipper /\ OnlyLoopsRunOut
<1>1. ReaderAgreesWithSkipper
  BY Zenon DEF ReaderInv, SkipperFollows, ReaderAgreesWithSkipper
<1>2. ASSUME done = "none", budget = 0, pos \notin seen PROVE FALSE
  <2>1. Len(msg) \in Nat /\ Len(msg) >= 1 /\ Cardinality(seen) = Len(msg) - 0
        /\ seen \in SUBSET (0 .. Len(msg) - 2)
    <3>1. Len(msg) \in Nat /\ Len(msg) >= 12
      BY MessageIs, Zenon DEF ReaderInv, WireTypeOK
    <3>2. TrailOK
      BY <1>2, Zenon DEF ReaderInv
    <3> QED
      BY <1>2, <3>1, <3>2 DEF TrailOK
  <2>2. Cardinality(seen) \in Nat /\ Cardinality(seen) < Len(msg)
    BY <2>1, TrailIsFinite, Zenon
  <2> QED
    BY <2>1, <2>2
<1> QED
  BY <1>1, <1>2, Zenon DEF OnlyLoopsRunOut

-----------------------------------------------------------------------------
(* Pieces of a message.                                                    *)

\* The values of 16 bits.
Word == {n \in Int : 0 <= n /\ n < 65536}

\* s stands in b at offset P.
Carries(b, P, s) == P + Len(s) <= Len(b) /\ \A i \in 1 .. Len(s) : b[P + i] = s[i]

\* What is appended to a message is carried at its end,
LEMMA ConcatCarries ==
  ASSUME NEW s \in Seq(Octet), NEW t \in Seq(Octet)
  PROVE  /\ s \o t \in Seq(Octet) /\ Len(s \o t) = Len(s) + Len(t)
         /\ Carries(s \o t, 0, s) /\ Carries(s \o t, Len(s), t)
<1> DEFINE u == s \o t
<1>0. Len(s) \in Nat /\ Len(t) \in Nat
  BY LenProperties, Zenon
<1>1. /\ u \in Seq(Octet) /\ Len(u) = Len(s) + Len(t)
      /\ \A i \in 1 .. Len(s) : u[i] = s[i]
      /\ \A i \in 1 .. Len(t) : u[Len(s) + i] = t[i]
  BY ConcatIs, SMTT(30)
<1> HIDE DEF u
<1>2. \A i \in 1 .. Len(s) : 0 + i = i
  BY <1>0
<1>3. 0 + Len(s) <= Len(u) /\ Len(s) + Len(t) <= Len(u)
  BY <1>0, <1>1
<1> QED
  BY <1>1, <1>2, <1>3, Zenon DEF u, Carries

\* ... what is carried by what is carried is carried, too,
LEMMA CarriesThrough ==
  ASSUME NEW c, NEW b, NEW x \in Seq(Octet), NEW P \in Nat, NEW Q \in Nat,
         Len(c) \in Nat, Len(b) \in Nat,
         Carries(c, Q, b), Carries(b, P, x)
  PROVE  Carries(c, Q + P, x)
<1>1. Len(x) \in Nat /\ Q + Len(b) <= Len(c) /\ P + Len(x) <= Len(b)
  BY LenProperties, Zenon DEF Carries
<1>2. Q + P + Len(x) <= Len(c)
  BY <1>1
<1>3. ASSUME NEW i \in 1 .. Len(x) PROVE c[Q + P + i] = x[i]
  <2>1. P + i \in 1 .. Len(b) /\ Q + P + i = Q + (P + i)
    BY <1>1
  <2>2. c[Q + (P + i)] = b[P + i]
    BY <2>1, Zenon DEF Carries
  <2>3. b[P + i] = x[i]
    BY Zenon DEF Carries
  <2> QED
    BY <2>1, <2>2, <2>3, Zenon
<1> QED
  BY <1>2, <1>3, Zenon DEF Carries

\* ... and what it carried stays where it is.
LEMMA ConcatKeeps ==
  ASSUME NEW s \in Seq(Octet), NEW t \in Seq(Octet), NEW x \in Seq(Octet), NEW P \in Nat,
         Carries(s, P, x)
  PROVE  Carries(s \o t, P, x)
<1> DEFINE u == s \o t
<1>1. u \in Seq(Octet) /\ Carries(u, 0, s)
  BY ConcatCarries, Zenon
<1> HIDE DEF u
<1>2. Len(u) \in Nat /\ Len(s) \in Nat
  BY <1>1, LenProperties, Zenon
<1>3. 0 \in Nat /\ 0 + P = P
  OBVIOUS
<1>4. Carries(u, 0 + P, x)
  BY <1>1, <1>2, <1>3, CarriesThrough, Zenon
<1> QED
  BY <1>3, <1>4, Zenon DEF u

\* A word as two bytes,
LEMMA TwoIs ==
  ASSUME NEW n \in Word
  PROVE  Two(n) \in Seq(Octet) /\ Len(Two(n)) = 2
<1>1. n \div 256 \in Octet /\ n % 256 \in Octet
  BY DEF Octet, Word
<1> DEFINE a == n \div 256
           c == n % 256
<1> HIDE DEF a, c
<1>2. <<a, c>> \in Seq(Octet) /\ Len(<<a, c>>) = 2
  BY <1>1 DEF a, c
<1> QED
  BY <1>2, Zenon DEF Two, a, c

\* ... and read back.
LEMMA ReadsTwo ==
  ASSUME NEW b, NEW P \in Nat, NEW n \in Word, Carries(b, P, Two(n))
  PROVE  Short(b, P) = n
<1>1. Len(Two(n)) = 2 /\ 1 \in 1 .. 2 /\ 2 \in 1 .. 2
  BY TwoIs, SMT
<1>2. b[P + 1] = Two(n)[1] /\ b[P + 2] = Two(n)[2]
  BY <1>1, Zenon DEF Carries
<1>3. Two(n)[1] = n \div 256 /\ Two(n)[2] = n % 256
  BY DEF Two
<1>4. P + 1 + 1 = P + 2
  OBVIOUS
<1>5. Short(b, P) = 256 * (n \div 256) + (n % 256)
  BY <1>2, <1>3, <1>4 DEF Short, At
<1>6. 256 * (n \div 256) + (n % 256) = n
  BY DEF Word
<1> QED
  BY <1>5, <1>6

\* The two halves of the TTL as build_response writes it.
TtlHigh == Ttl \div 65536
TtlLow == Ttl % 65536

\* The two words of a TTL,
LEMMA TtlWords ==
  TtlHigh \in Word /\ TtlLow \in Word
<1>1. Ttl \in Nat /\ Ttl \div 65536 < 65536
  BY WireAssumption
<1> QED
  BY <1>1 DEF Word, TtlHigh, TtlLow

\* ... and what they come to.
LEMMA TtlSum ==
  65536 * TtlHigh + TtlLow = Ttl
<1>1. Ttl \in Nat
  BY WireAssumption
<1> QED
  BY <1>1 DEF TtlHigh, TtlLow

\* One more piece: what stood in the message still does, and the piece stands at its end.
LEMMA PieceAdded ==
  ASSUME NEW z \in Seq(Octet), NEW y \in Seq(Octet), NEW n \in Nat, Len(z) = n
  PROVE  z \o y \in Seq(Octet) /\ Len(z \o y) = n + Len(y) /\ Carries(z \o y, n, y)
BY ConcatCarries, Zenon

\* Six pieces, one behind the other, and where each starts.
SixAt(z, y0, y1, y2, y3, y4, y5, n1, n2, n3, n4, n5) ==
  /\ z \in Seq(Octet) /\ Len(z) = n5 + Len(y5)
  /\ Carries(z, 0, y0) /\ Carries(z, n1, y1) /\ Carries(z, n2, y2)
  /\ Carries(z, n3, y3) /\ Carries(z, n4, y4) /\ Carries(z, n5, y5)

\* Six pieces put together.
LEMMA SixPieces ==
  ASSUME NEW y0 \in Seq(Octet), NEW y1 \in Seq(Octet), NEW y2 \in Seq(Octet),
         NEW y3 \in Seq(Octet), NEW y4 \in Seq(Octet), NEW y5 \in Seq(Octet),
         NEW n1 \in Nat, NEW n2 \in Nat, NEW n3 \in Nat, NEW n4 \in Nat, NEW n5 \in Nat,
         Len(y0) = n1, n1 + Len(y1) = n2, n2 + Len(y2) = n3, n3 + Len(y3) = n4,
         n4 + Len(y4) = n5
  PROVE  SixAt(y0 \o y1 \o y2 \o y3 \o y4 \o y5, y0, y1, y2, y3, y4, y5, n1, n2, n3, n4, n5)
<1> DEFINE z1 == y0 \o y1
           z2 == z1 \o y2
           z3 == z2 \o y3
           z4 == z3 \o y4
           z5 == z4 \o y5
<1>0. 0 \in Nat
  OBVIOUS
<1>1. z1 \in Seq(Octet) /\ Len(z1) = n2 /\ Carries(z1, n1, y1)
  BY PieceAdded, Zenon
<1>2. Carries(z1, 0, y0)
  BY ConcatCarries, Zenon
<1> HIDE DEF z1
<1>3. z2 \in Seq(Octet) /\ Len(z2) = n3 /\ Carries(z2, n2, y2)
  <2>1. z2 \in Seq(Octet) /\ Len(z2) = n2 + Len(y2) /\ Carries(z2, n2, y2)
    BY <1>1, PieceAdded, Zenon
  <2> HIDE DEF z2
  <2> QED
    BY <2>1, Zenon
<1>4. Carries(z2, 0, y0) /\ Carries(z2, n1, y1)
  BY <1>0, <1>1, <1>2, ConcatKeeps, Zenon
<1> HIDE DEF z2
<1>5. z3 \in Seq(Octet) /\ Len(z3) = n4 /\ Carries(z3, n3, y3)
  <2>1. z3 \in Seq(Octet) /\ Len(z3) = n3 + Len(y3) /\ Carries(z3, n3, y3)
    BY <1>3, PieceAdded, Zenon
  <2> HIDE DEF z3
  <2> QED
    BY <2>1, Zenon
<1>6. Carries(z3, 0, y0) /\ Carries(z3, n1, y1) /\ Carries(z3, n2, y2)
  BY <1>0, <1>3, <1>4, ConcatKeeps, Zenon
<1> HIDE DEF z3
<1>7. z4 \in Seq(Octet) /\ Len(z4) = n5 /\ Carries(z4, n4, y4)
  <2>1. z4 \in Seq(Octet) /\ Len(z4) = n4 + Len(y4) /\ Carries(z4, n4, y4)
    BY <1>5, PieceAdded, Zenon
  <2> HIDE DEF z4
  <2> QED
    BY <2>1, Zenon
<1>8. Carries(z4, 0, y0) /\ Carries(z4, n1, y1) /\ Carries(z4, n2, y2) /\ Carries(z4, n3, y3)
  BY <1>0, <1>5, <1>6, ConcatKeeps, Zenon
<1> HIDE DEF z4
<1>9. z5 \in Seq(Octet) /\ Len(z5) = n5 + Len(y5) /\ Carries(z5, n5, y5)
  BY <1>7, PieceAdded, Zenon
<1>10. Carries(z5, 0, y0) /\ Carries(z5, n1, y1) /\ Carries(z5, n2, y2) /\ Carries(z5, n3, y3) /\ Carries(z5, n4, y4)
  BY <1>0, <1>7, <1>8, ConcatKeeps, Zenon
<1> HIDE DEF z5
<1> QED
  BY <1>9, <1>10, Zenon DEF z1, z2, z3, z4, z5, SixAt

\* The address record of build_response: a pointer to the question's name, then its fields.
LEMMA RecordIs ==
  ASSUME NEW type \in Word, NEW addr \in Seq(Octet), Len(addr) \in Word
  PROVE  LET r == RecordBytes(type, addr) IN
           /\ r \in Seq(Octet) /\ Len(r) = 12 + Len(addr)
           /\ IsPointer(r[1])
           /\ Carries(r, 2, Two(type)) /\ Carries(r, 4, Two(CLASS_IN))
           /\ Carries(r, 6, Two(TtlHigh)) /\ Carries(r, 8, Two(TtlLow))
           /\ Carries(r, 10, Two(Len(addr))) /\ Carries(r, 12, addr)
<1> DEFINE y0 == <<192, 12>>
           y1 == Two(type)
           y2 == Two(CLASS_IN)
           y3 == Two(TtlHigh)
           y4 == Two(TtlLow)
           y5 == Two(Len(addr))
           z == y0 \o y1 \o y2 \o y3 \o y4 \o y5
           r == z \o addr
<1>1. RecordBytes(type, addr) = r
  BY DEF RecordBytes, TtlHigh, TtlLow
<1>2. /\ y1 \in Seq(Octet) /\ Len(y1) = 2 /\ y2 \in Seq(Octet) /\ Len(y2) = 2
      /\ y3 \in Seq(Octet) /\ Len(y3) = 2 /\ y4 \in Seq(Octet) /\ Len(y4) = 2
      /\ y5 \in Seq(Octet) /\ Len(y5) = 2
  <2>1. CLASS_IN \in Word
    BY DEF CLASS_IN, Word
  <2> QED
    BY <2>1, TtlWords, TwoIs, Zenon
<1>3. y0 \in Seq(Octet) /\ Len(y0) = 2 /\ IsPointer(y0[1])
  <2>1. 192 \in Octet /\ 12 \in Octet
    BY DEF Octet
  <2> QED
    BY <2>1 DEF IsPointer
<1> HIDE DEF y0, y1, y2, y3, y4, y5
<1>4. /\ 2 \in Nat /\ 4 \in Nat /\ 6 \in Nat /\ 8 \in Nat /\ 10 \in Nat
      /\ Len(y0) = 2 /\ 2 + Len(y1) = 4 /\ 4 + Len(y2) = 6 /\ 6 + Len(y3) = 8 /\ 8 + Len(y4) = 10
  BY <1>2, <1>3
<1>5. y0 \in Seq(Octet) /\ y1 \in Seq(Octet) /\ y2 \in Seq(Octet)
      /\ y3 \in Seq(Octet) /\ y4 \in Seq(Octet) /\ y5 \in Seq(Octet)
  BY <1>2, <1>3, Zenon
<1>6. /\ z \in Seq(Octet) /\ Len(z) = 10 + Len(y5)
      /\ Carries(z, 0, y0) /\ Carries(z, 2, y1) /\ Carries(z, 4, y2)
      /\ Carries(z, 6, y3) /\ Carries(z, 8, y4) /\ Carries(z, 10, y5)
  <2>1. SixAt(z, y0, y1, y2, y3, y4, y5, 2, 4, 6, 8, 10)
    BY <1>4, <1>5, SixPieces, Zenon
  <2> HIDE DEF z
  <2> QED
    BY <2>1, Zenon DEF SixAt
<1> HIDE DEF z
<1>7. Len(z) = 12 /\ 0 \in Nat /\ 12 \in Nat
  BY <1>2, <1>6
<1>8. r \in Seq(Octet) /\ Len(r) = 12 + Len(addr) /\ Carries(r, 12, addr)
  BY <1>6, <1>7, PieceAdded, Zenon
<1>9. /\ Carries(r, 0, y0) /\ Carries(r, 2, y1) /\ Carries(r, 4, y2)
      /\ Carries(r, 6, y3) /\ Carries(r, 8, y4) /\ Carries(r, 10, y5)
  BY <1>4, <1>5, <1>6, <1>7, ConcatKeeps, Zenon
<1> HIDE DEF r
<1>10. IsPointer(r[1])
  <2>1. 1 \in 1 .. Len(y0) /\ 0 + 1 = 1
    BY <1>3
  <2>2. Carries(r, 0, y0)
    BY <1>9, Zenon
  <2>3. r[0 + 1] = y0[1]
    BY <2>1, <2>2, Zenon DEF Carries
  <2> QED
    BY <1>3, <2>1, <2>3, Zenon
<1> QED
  BY <1>1, <1>8, <1>9, <1>10, Zenon DEF y1, y2, y3, y4, y5

\* The record, standing in a message at offset P, as the record walkers see it.
LEMMA RecordIsRead ==
  ASSUME NEW b \in Seq(Octet), NEW P \in Nat, NEW type \in Word, NEW addr \in Seq(Octet),
         Len(addr) \in Word, Carries(b, P, RecordBytes(type, addr))
  PROVE  /\ SkipName(b, P) = P + 2
         /\ P + 12 + Len(addr) <= Len(b)
         /\ Short(b, P + 2) = type /\ Short(b, P + 2 + 2) = CLASS_IN
         /\ Long(b, P + 2 + 4) = Ttl /\ Short(b, P + 2 + 8) = Len(addr)
         /\ Slice(b, P + 2 + 10, Len(addr)) = addr
<1> DEFINE r == RecordBytes(type, addr)
<1>1. /\ r \in Seq(Octet) /\ Len(r) = 12 + Len(addr)
      /\ IsPointer(r[1])
      /\ Carries(r, 2, Two(type)) /\ Carries(r, 4, Two(CLASS_IN))
      /\ Carries(r, 6, Two(TtlHigh)) /\ Carries(r, 8, Two(TtlLow))
      /\ Carries(r, 10, Two(Len(addr))) /\ Carries(r, 12, addr)
  BY RecordIs, Zenon
<1>2. Carries(b, P, r)
  BY Zenon
<1> HIDE DEF r
<1>3. Len(r) \in Nat /\ Len(b) \in Nat /\ Len(addr) \in Nat
  BY <1>1, LenProperties, Zenon
<1>4. P + 12 + Len(addr) <= Len(b)
  <2>1. P + Len(r) <= Len(b)
    BY <1>2, Zenon DEF Carries
  <2> QED
    BY <1>1, <1>3, <2>1
<1>5. 2 \in Nat /\ 4 \in Nat /\ 6 \in Nat /\ 8 \in Nat /\ 10 \in Nat /\ 12 \in Nat
      /\ P + 2 \in Nat /\ P + 4 \in Nat /\ P + 6 \in Nat /\ P + 8 \in Nat /\ P + 10 \in Nat
      /\ P + 2 + 2 = P + 4 /\ P + 2 + 4 = P + 6 /\ P + 6 + 2 = P + 8 /\ P + 2 + 8 = P + 10
      /\ P + 2 + 10 = P + 12 /\ P + 12 \in Nat
  OBVIOUS
<1>6. SkipName(b, P) = P + 2
  <2>1. 1 \in 1 .. Len(r)
    BY <1>1, <1>3
  <2>2. b[P + 1] = r[1]
    BY <1>2, <2>1, Zenon DEF Carries
  <2>3. IsPointer(At(b, P))
    BY <1>1, <2>2, Zenon DEF At
  <2>4. P < Len(b) /\ P + 1 < Len(b)
    BY <1>3, <1>4
  <2> QED
    BY <2>3, <2>4, Skips, Zenon
<1>7. CLASS_IN \in Word
  BY DEF CLASS_IN, Word
<1>8. /\ Two(type) \in Seq(Octet) /\ Two(CLASS_IN) \in Seq(Octet)
      /\ Two(TtlHigh) \in Seq(Octet) /\ Two(TtlLow) \in Seq(Octet)
      /\ Two(Len(addr)) \in Seq(Octet)
  BY <1>7, TtlWords, TwoIs, Zenon
<1>9. Short(b, P + 2) = type
  <2>1. Carries(b, P + 2, Two(type))
    BY <1>1, <1>2, <1>3, <1>5, <1>8, CarriesThrough, Zenon
  <2> QED
    BY <1>5, <2>1, ReadsTwo, Zenon
<1>10. Short(b, P + 4) = CLASS_IN
  <2>1. Carries(b, P + 4, Two(CLASS_IN))
    BY <1>1, <1>2, <1>3, <1>5, <1>8, CarriesThrough, Zenon
  <2> QED
    BY <1>5, <1>7, <2>1, ReadsTwo, Zenon
<1>11. Short(b, P + 6) = TtlHigh
  <2>1. Carries(b, P + 6, Two(TtlHigh))
    BY <1>1, <1>2, <1>3, <1>5, <1>8, CarriesThrough, Zenon
  <2> QED
    BY <1>5, TtlWords, <2>1, ReadsTwo, Zenon
<1>12. Short(b, P + 8) = TtlLow
  <2>1. Carries(b, P + 8, Two(TtlLow))
    BY <1>1, <1>2, <1>3, <1>5, <1>8, CarriesThrough, Zenon
  <2> QED
    BY <1>5, TtlWords, <2>1, ReadsTwo, Zenon
<1>13. Short(b, P + 10) = Len(addr)
  <2>1. Carries(b, P + 10, Two(Len(addr)))
    BY <1>1, <1>2, <1>3, <1>5, <1>8, CarriesThrough, Zenon
  <2> QED
    BY <1>5, <2>1, ReadsTwo, Zenon
<1>14. Long(b, P + 6) = Ttl
  BY <1>5, <1>11, <1>12, TtlSum DEF Long
<1>15. Slice(b, P + 12, Len(addr)) = addr
  <2>1. Carries(b, P + 12, addr)
    BY <1>1, <1>2, <1>3, <1>5, CarriesThrough, Zenon
  <2>2. SubSeq(b, P + 12 + 1, P + 12 + Len(addr)) = addr
    BY <1>5, <2>1, SliceIs, Zenon DEF Carries
  <2> QED
    BY <2>2, Zenon DEF Slice
<1> QED
  BY <1>4, <1>5, <1>6, <1>9, <1>10, <1>13, <1>14, <1>15, Zenon
=============================================================================
