---------------------------- MODULE Codec_proofs ----------------------------
(***************************************************************************)
(* Proofs about the control messages (Codec), for any messages with ASCII  *)
(* names, any bytes a payload may differ in and any limits that fit a      *)
(* byte.                                                                   *)
(*                                                                         *)
(* What is encoded is a concatenation; each field is read back because it  *)
(* stands where the parser looks (Carries).  A list is a concatenation of  *)
(* entries, and the parser's loop takes off one entry at a time: after k   *)
(* rounds it holds the first k entries, cleaned up, and what is left is    *)
(* the rest of the list (RoutesAreRead, PeersAreRead).                     *)
(*                                                                         *)
(* The other way round, a loop that comes to its end has taken off, round  *)
(* by round, as many bytes as the entry it read has when it is written, so *)
(* that what was accepted has exactly the length of what it encodes to     *)
(* (RoutesAreTaken, PeersAreTaken).  Nothing of it is left out or changed  *)
(* by cleaning it up again (TakenFrom).                                    *)
(*                                                                         *)
(* A push of one-byte entries would have the length of a keepalive with an *)
(* address: entries have at least two (NeverOne).                          *)
(***************************************************************************)
EXTENDS Codec, Integers, WellFoundedInduction, SequenceTheorems, TLAPS

-----------------------------------------------------------------------------
(* Induction and recursive functions.                                      *)

\* A set of natural numbers has a least element.
LEMMA LeastNat ==
  ASSUME NEW S, S \subseteq Nat, S # {}
  PROVE  \E k \in S : \A j \in S : k <= j
<1> DEFINE R == {e \in Nat \X Nat : e[1] < e[2]}
<1>1. IsWellFoundedOn(R, Nat)
  BY NatLessThanWellFounded, Zenon DEF OpToRel
<1> HIDE DEF R
<1>2. PICK k \in S : \A j \in S : ~(<<j, k>> \in R)
  BY <1>1, WFMin, Zenon
<1>3. \A j \in S : ~(j < k)
  BY <1>2, Zenon DEF R
<1> QED
  BY <1>3

\* Induction up to a bound, for a set of numbers.
LEMMA CountUp ==
  ASSUME NEW N \in Nat, NEW G, 0 \in G, \A i \in 0 .. N - 1 : i \in G => i + 1 \in G
  PROVE  0 .. N \subseteq G
<1> DEFINE bad == {i \in 0 .. N : i \notin G}
<1>1. SUFFICES ASSUME bad # {} PROVE FALSE
  BY Zenon
<1>2. PICK n \in bad : \A k \in bad : n <= k
  <2>1. bad \subseteq Nat
    OBVIOUS
  <2> QED
    BY <1>1, <2>1, LeastNat, Zenon
<1>3. n \in 0 .. N /\ n \notin G /\ n # 0
  BY Zenon
<1>4. n - 1 \in 0 .. N - 1 /\ n - 1 \in 0 .. N /\ ~(n <= n - 1) /\ (n - 1) + 1 = n
  BY <1>3, SMT
<1>5. n - 1 \in G
  BY <1>2, <1>4, Zenon
<1> QED
  BY <1>3, <1>4, <1>5, Zenon

\* f is the iteration of step, from base, N times.
Iterates(f, N, S, base, step) ==
  f \in [0 .. N -> S] /\ f[0] = base /\ \A i \in 1 .. N : f[i] = step[<<f[i - 1], i>>]

\* A function can be defined by recursion over the numbers up to N.
LEMMA Iteration ==
  ASSUME NEW N \in Nat, NEW S, NEW base \in S, NEW step \in [S \X (1 .. N) -> S]
  PROVE  \E f : Iterates(f, N, S, base, step)
<1> DEFINE Reaches(n, f) == f[0] = base /\ \A i \in 1 .. n : f[i] = step[<<f[i - 1], i>>]
           bad == {n \in 0 .. N : ~ \E f \in [0 .. n -> S] : Reaches(n, f)}
<1>1. SUFFICES ASSUME bad # {} PROVE FALSE
  <2>1. N \in 0 .. N
    OBVIOUS
  <2> QED
    BY <2>1, Zenon DEF Iterates
<1>2. PICK n \in bad : \A k \in bad : n <= k
  <2>1. bad \subseteq Nat
    OBVIOUS
  <2> QED
    BY <1>1, <2>1, LeastNat, Zenon
<1>3. n \in 0 .. N /\ n \in Nat
  OBVIOUS
<1>4. n # 0
  <2>1. [i \in 0 .. 0 |-> base] \in [0 .. 0 -> S] /\ Reaches(0, [i \in 0 .. 0 |-> base])
    BY SMT
  <2> QED
    BY <2>1, Zenon
<1>5. PICK f \in [0 .. n - 1 -> S] : Reaches(n - 1, f)
  <2>1. n - 1 \in 0 .. N /\ ~(n <= n - 1)
    BY <1>3, <1>4
  <2> QED
    BY <1>2, <2>1, Zenon
<1> DEFINE v == step[<<f[n - 1], n>>]
           g == [i \in 0 .. n |-> IF i = n THEN v ELSE f[i]]
<1>6. v \in S
  <2>1. n - 1 \in 0 .. n - 1 /\ n \in 1 .. N
    BY <1>3, <1>4
  <2>2. <<f[n - 1], n>> \in S \X (1 .. N)
    BY <2>1, Zenon
  <2> QED
    BY <2>2, Zenon
<1>7. \A i \in 0 .. n : i = n \/ i \in 0 .. n - 1
  BY <1>3
<1>8. g \in [0 .. n -> S]
  BY <1>6, <1>7, Zenon
<1>9. Reaches(n, g)
  <2>1. g[0] = base
    <3>1. 0 \in 0 .. n /\ 0 # n
      BY <1>3, <1>4
    <3> QED
      BY <1>5, <3>1, Zenon
  <2>2. ASSUME NEW i \in 1 .. n PROVE g[i] = step[<<g[i - 1], i>>]
    <3>1. i \in 0 .. n /\ i - 1 \in 0 .. n /\ i - 1 # n /\ (i # n => i \in 1 .. n - 1)
      BY <1>3, <1>4
    <3>2. g[i - 1] = f[i - 1]
      BY <3>1, Zenon
    <3>3. g[i] = IF i = n THEN v ELSE f[i]
      BY <3>1, Zenon
    <3> QED
      BY <1>5, <3>1, <3>2, <3>3, Zenon
  <2> QED
    BY <2>1, <2>2, Zenon
<1> QED
  BY <1>8, <1>9, Zenon

\* A slice that agrees with t, element by element, is t.
LEMMA SliceIs ==
  ASSUME NEW S, NEW s \in Seq(S), NEW t \in Seq(S), NEW m \in Nat,
         m + Len(t) <= Len(s), \A i \in 1 .. Len(t) : s[m + i] = t[i]
  PROVE  SubSeq(s, m + 1, m + Len(t)) = t
<1> DEFINE u == SubSeq(s, m + 1, m + Len(t))
<1>1. Len(t) \in Nat /\ Len(s) \in Nat
  OBVIOUS
<1>2. \A i \in m + 1 .. m + Len(t) : s[i] \in S
  <2> TAKE i \in m + 1 .. m + Len(t)
  <2>1. i \in 1 .. Len(s)
    BY <1>1
  <2> QED
    BY <2>1, ElementOfSeq, Zenon
<1>3. /\ u \in Seq(S)
      /\ Len(u) = IF m + 1 <= m + Len(t) THEN (m + Len(t)) - (m + 1) + 1 ELSE 0
      /\ \A i \in 1 .. (m + Len(t)) - (m + 1) + 1 : u[i] = s[(m + 1) + i - 1]
  <2>1. m + 1 \in Int /\ m + Len(t) \in Int
    BY <1>1
  <2> QED
    BY <1>2, <2>1, SubSeqProperties
<1> HIDE DEF u
<1>4. Len(u) = Len(t)
  BY <1>1, <1>3
<1>5. ASSUME NEW i \in 1 .. Len(u) PROVE u[i] = t[i]
  <2>1. i \in 1 .. (m + Len(t)) - (m + 1) + 1 /\ i \in 1 .. Len(t) /\ (m + 1) + i - 1 = m + i
    BY <1>1, <1>4
  <2> QED
    BY <1>3, <2>1, Zenon
<1>6. u = t
  BY <1>3, <1>4, <1>5, SeqEqual, Zenon
<1> QED
  BY <1>6, Zenon DEF u

\* What stands where in a concatenation.
LEMMA ConcatIs ==
  ASSUME NEW S, NEW s \in Seq(S), NEW t \in Seq(S)
  PROVE  /\ s \o t \in Seq(S) /\ Len(s \o t) = Len(s) + Len(t)
         /\ \A i \in 1 .. Len(s) : (s \o t)[i] = s[i]
         /\ \A i \in 1 .. Len(t) : (s \o t)[Len(s) + i] = t[i]
         /\ SubSeq(s \o t, Len(s) + 1, Len(s) + Len(t)) = t
<1> DEFINE u == s \o t
<1>1. /\ u \in Seq(S) /\ Len(u) = Len(s) + Len(t) /\ Len(s) \in Nat /\ Len(t) \in Nat
      /\ \A i \in 1 .. Len(s) + Len(t) : u[i] = IF i <= Len(s) THEN s[i] ELSE t[i - Len(s)]
  BY ConcatProperties
<1> HIDE DEF u
<1>2. ASSUME NEW i \in 1 .. Len(s) PROVE u[i] = s[i]
  <2>1. i \in 1 .. Len(s) + Len(t) /\ i <= Len(s)
    BY <1>1
  <2> QED
    BY <1>1, <2>1, Zenon
<1>3. ASSUME NEW i \in 1 .. Len(t) PROVE u[Len(s) + i] = t[i]
  <2>1. Len(s) + i \in 1 .. Len(s) + Len(t) /\ ~(Len(s) + i <= Len(s)) /\ (Len(s) + i) - Len(s) = i
    BY <1>1
  <2> QED
    BY <1>1, <2>1, Zenon
<1>4. SubSeq(u, Len(s) + 1, Len(s) + Len(t)) = t
  <2>1. Len(s) + Len(t) <= Len(u)
    BY <1>1
  <2> QED
    BY <1>1, <1>3, <2>1, SliceIs, Zenon
<1> QED
  BY <1>1, <1>2, <1>3, <1>4, Zenon DEF u
-----------------------------------------------------------------------------
(* Payloads as concatenations, and the fields of a payload.                *)

\* s stands in b at offset P.
Carries(b, P, s) == P + Len(s) <= Len(b) /\ \A i \in 1 .. Len(s) : b[P + i] = s[i]

\* What is appended to a payload is carried at its end,
LEMMA ConcatCarries ==
  ASSUME NEW s \in Seq(Byte), NEW t \in Seq(Byte)
  PROVE  /\ s \o t \in Seq(Byte) /\ Len(s \o t) = Len(s) + Len(t)
         /\ Carries(s \o t, 0, s) /\ Carries(s \o t, Len(s), t)
<1> DEFINE u == s \o t
<1>0. Len(s) \in Nat /\ Len(t) \in Nat
  BY LenProperties, Zenon
<1>1. /\ u \in Seq(Byte) /\ Len(u) = Len(s) + Len(t)
      /\ \A i \in 1 .. Len(s) : u[i] = s[i]
      /\ \A i \in 1 .. Len(t) : u[Len(s) + i] = t[i]
  BY ConcatIs, SMTT(30)
<1> HIDE DEF u
<1>2. \A i \in 1 .. Len(s) : 0 + i = i
  BY <1>0
<1>3. 0 + Len(s) <= Len(u) /\ Len(s) + Len(t) <= Len(u)
  BY <1>0, <1>1
<1> QED
  BY <1>1, <1>2, <1>3, Zenon DEF u, Carries

\* ... what is carried by what is carried is carried, too,
LEMMA CarriesThrough ==
  ASSUME NEW c, NEW b, NEW x \in Seq(Byte), NEW P \in Nat, NEW Q \in Nat,
         Len(c) \in Nat, Len(b) \in Nat,
         Carries(c, Q, b), Carries(b, P, x)
  PROVE  Carries(c, Q + P, x)
<1>1. Len(x) \in Nat /\ Q + Len(b) <= Len(c) /\ P + Len(x) <= Len(b)
  BY LenProperties, Zenon DEF Carries
<1>2. Q + P + Len(x) <= Len(c)
  BY <1>1
<1>3. ASSUME NEW i \in 1 .. Len(x) PROVE c[Q + P + i] = x[i]
  <2>1. P + i \in 1 .. Len(b) /\ Q + P + i = Q + (P + i)
    BY <1>1
  <2>2. c[Q + (P + i)] = b[P + i]
    BY <2>1, Zenon DEF Carries
  <2>3. b[P + i] = x[i]
    BY Zenon DEF Carries
  <2> QED
    BY <2>1, <2>2, <2>3, Zenon
<1> QED
  BY <1>2, <1>3, Zenon DEF Carries

\* ... and what it carried stays where it is.
LEMMA ConcatKeeps ==
  ASSUME NEW s \in Seq(Byte), NEW t \in Seq(Byte), NEW x \in Seq(Byte), NEW P \in Nat,
         Carries(s, P, x)
  PROVE  Carries(s \o t, P, x)
<1> DEFINE u == s \o t
<1>0. Len(s) \in Nat /\ Len(t) \in Nat /\ Len(x) \in Nat
  BY LenProperties, Zenon
<1>1. Len(u) = Len(s) + Len(t) /\ Carries(u, 0, s)
  BY ConcatCarries, Zenon
<1> HIDE DEF u
<1>2. \A i \in 1 .. Len(s) : u[i] = s[i]
  <2>1. \A i \in 1 .. Len(s) : 0 + i = i
    BY <1>0
  <2> QED
    BY <1>1, <2>1, Zenon DEF Carries
<1>3. P + Len(x) <= Len(s) /\ \A i \in 1 .. Len(x) : s[P + i] = x[i]
  BY Zenon DEF Carries
<1>4. \A i \in 1 .. Len(x) : P + i \in 1 .. Len(s)
  BY <1>0, <1>3
<1>5. P + Len(x) <= Len(u)
  BY <1>0, <1>1, <1>3
<1>6. \A i \in 1 .. Len(x) : u[P + i] = x[i]
  BY <1>2, <1>3, <1>4, Zenon
<1> QED
  BY <1>5, <1>6, Zenon DEF u, Carries

\* A field, read where it stands.
LEMMA FieldIs ==
  ASSUME NEW b \in Seq(Byte), NEW s \in Seq(Byte), NEW P \in Nat, Carries(b, P, s)
  PROVE  Field(b, P + 1, Len(s)) = s
<1>1. SubSeq(b, P + 1, P + Len(s)) = s
  BY SliceIs, Zenon DEF Carries
<1>2. Len(s) \in Nat
  BY LenProperties, Zenon
<1>3. P + 1 + Len(s) - 1 = P + Len(s)
  BY <1>2
<1> QED
  BY <1>1, <1>3, Zenon DEF Field

\* The rest of a payload, read from where it starts.
LEMMA FromIs ==
  ASSUME NEW s \in Seq(Byte), NEW t \in Seq(Byte)
  PROVE  From(s \o t, Len(s) + 1) = t
<1>1. Len(s \o t) = Len(s) + Len(t) /\ SubSeq(s \o t, Len(s) + 1, Len(s) + Len(t)) = t
  BY ConcatIs, Zenon
<1> QED
  BY <1>1, Zenon DEF From

\* Concatenation does not depend on the brackets.
LEMMA Regroup ==
  ASSUME NEW x \in Seq(Byte), NEW y \in Seq(Byte), NEW z \in Seq(Byte)
  PROVE  x \o y \o z = x \o (y \o z)
  BY ConcatAssociative, SMT

\* Three pieces, one behind the other, and where each starts.
LEMMA ThreePieces ==
  ASSUME NEW x \in Seq(Byte), NEW y \in Seq(Byte), NEW z \in Seq(Byte)
  PROVE  /\ x \o y \o z \in Seq(Byte) /\ Len(x \o y \o z) = Len(x) + Len(y) + Len(z)
         /\ Carries(x \o y \o z, 0, x) /\ Carries(x \o y \o z, Len(x), y)
         /\ Carries(x \o y \o z, Len(x) + Len(y), z)
<1> DEFINE u == x \o y
<1>1. u \in Seq(Byte) /\ Len(u) = Len(x) + Len(y) /\ Carries(u, 0, x) /\ Carries(u, Len(x), y)
  BY ConcatCarries, Zenon
<1> HIDE DEF u
<1>2. u \o z \in Seq(Byte) /\ Len(u \o z) = Len(u) + Len(z) /\ Carries(u \o z, Len(u), z)
  BY <1>1, ConcatCarries, Zenon
<1>3. Carries(u \o z, 0, x) /\ Carries(u \o z, Len(x), y)
  <2>1. 0 \in Nat /\ Len(x) \in Nat
    BY LenProperties, Zenon
  <2> QED
    BY <1>1, <2>1, ConcatKeeps, Zenon
<1> QED
  BY <1>1, <1>2, <1>3, Zenon DEF u

\* A payload with the header of an advert: where its fields are read.
Headed(b, h, x, y, n, t) ==
  /\ b \in Seq(Byte) /\ Len(b) = 24 + Len(t)
  /\ b[1] = h[1] /\ b[2] = h[2] /\ b[3] = h[3] /\ b[24] = n
  /\ Field(b, 4, 4) = x /\ Field(b, 8, 16) = y /\ From(b, 25) = t

\* A payload with the header of a push.
Pushed(b, h, n, t) ==
  /\ b \in Seq(Byte) /\ Len(b) = 4 + Len(t)
  /\ b[1] = h[1] /\ b[2] = h[2] /\ b[4] = n /\ From(b, 5) = t

\* A payload that begins with three bytes and two fields: the adverts.
LEMMA HeadIs ==
  ASSUME NEW h \in Octets(3), NEW x \in Octets(4), NEW y \in Octets(16), NEW n \in Byte,
         NEW t \in Seq(Byte), NEW b, b = h \o x \o y \o (<<n>> \o t)
  PROVE  Headed(b, h, x, y, n, t)
<1> DEFINE o == <<n>>
           z == h \o x \o y
           q == o \o t
<1>1. h \in Seq(Byte) /\ x \in Seq(Byte) /\ y \in Seq(Byte) /\ o \in Seq(Byte)
  BY DEF Octets
<1>2. Len(h) = 3 /\ Len(x) = 4 /\ Len(y) = 16
  BY Zenon DEF Octets
<1>3. Len(o) = 1 /\ o[1] = n
  OBVIOUS
<1>4. b = z \o q
  BY Zenon
<1> HIDE DEF o
<1>5. /\ z \in Seq(Byte) /\ Len(z) = Len(h) + Len(x) + Len(y)
      /\ Carries(z, 0, h) /\ Carries(z, Len(h), x) /\ Carries(z, Len(h) + Len(x), y)
  BY <1>1, ThreePieces, Zenon
<1>6. Len(z) = 23 /\ Carries(z, 3, x) /\ Carries(z, 7, y) /\ 3 \in Nat /\ 7 \in Nat /\ 0 \in Nat
  BY <1>2, <1>5, SMT
<1>7. q \in Seq(Byte) /\ Len(q) = Len(o) + Len(t) /\ Carries(q, 0, o)
  BY <1>1, ConcatCarries, Zenon
<1>8. Len(t) \in Nat
  BY LenProperties, Zenon
<1>9. Len(q) = 1 + Len(t) /\ q[1] = n
  BY <1>3, <1>7, SMT DEF Carries
<1>10. z \in Seq(Byte)
  BY <1>5, Zenon
<1>11. b = z \o o \o t
  <2> HIDE DEF z
  <2> QED
    BY <1>1, <1>4, <1>10, Regroup, Zenon
<1> HIDE DEF z, q
<1>12. From(b, 25) = t
  <2> DEFINE w == z \o o
  <2>1. w \in Seq(Byte) /\ Len(w) = Len(z) + Len(o)
    BY <1>1, <1>10, ConcatCarries, Zenon
  <2>2. Len(w) + 1 = 25
    BY <1>3, <1>6, <2>1
  <2> HIDE DEF w
  <2>3. From(w \o t, Len(w) + 1) = t
    BY <2>1, FromIs, Zenon
  <2> QED
    BY <1>11, <2>2, <2>3, Zenon DEF w
<1>13. z \o q \in Seq(Byte) /\ Len(z \o q) = Len(z) + Len(q) /\ Carries(z \o q, Len(z), q)
  BY <1>7, <1>10, ConcatCarries, Zenon
<1>14. Carries(z \o q, 0, h) /\ Carries(z \o q, 3, x) /\ Carries(z \o q, 7, y)
  <2>1. Carries(z \o q, 0, h)
    BY <1>1, <1>5, <1>6, <1>7, ConcatKeeps, Zenon
  <2>2. Carries(z \o q, 3, x)
    BY <1>1, <1>6, <1>7, <1>10, ConcatKeeps, Zenon
  <2>3. Carries(z \o q, 7, y)
    BY <1>1, <1>6, <1>7, <1>10, ConcatKeeps, Zenon
  <2> QED
    BY <2>1, <2>2, <2>3, Zenon
<1>15. b \in Seq(Byte) /\ Len(b) = 23 + Len(q) /\ Carries(b, 23, q)
  BY <1>4, <1>6, <1>13, Zenon
<1>16. Carries(b, 0, h) /\ Carries(b, 3, x) /\ Carries(b, 7, y)
  BY <1>4, <1>14, Zenon
<1>17. b[1] = h[1] /\ b[2] = h[2] /\ b[3] = h[3]
  <2>1. \A i \in 1 .. Len(h) : b[0 + i] = h[i]
    BY <1>16, Zenon DEF Carries
  <2>2. 1 \in 1 .. Len(h) /\ 2 \in 1 .. Len(h) /\ 3 \in 1 .. Len(h)
    BY <1>2
  <2>3. b[0 + 1] = h[1] /\ b[0 + 2] = h[2] /\ b[0 + 3] = h[3]
    BY <2>1, <2>2, Zenon
  <2>4. 0 + 1 = 1 /\ 0 + 2 = 2 /\ 0 + 3 = 3
    OBVIOUS
  <2> QED
    BY <2>3, <2>4, Zenon
<1>18. b[24] = n
  BY <1>8, <1>9, <1>15, SMT DEF Carries
<1>19. Field(b, 3 + 1, Len(x)) = x /\ Field(b, 7 + 1, Len(y)) = y
  <2>1. Field(b, 3 + 1, Len(x)) = x
    BY <1>1, <1>6, <1>15, <1>16, FieldIs, Zenon
  <2>2. Field(b, 7 + 1, Len(y)) = y
    BY <1>1, <1>6, <1>15, <1>16, FieldIs, Zenon
  <2> QED
    BY <2>1, <2>2, Zenon
<1>20. Field(b, 4, 4) = x /\ Field(b, 8, 16) = y
  BY <1>2, <1>19, SMT
<1>21. Len(b) = 24 + Len(t)
  BY <1>8, <1>9, <1>15
<1> QED
  BY <1>12, <1>15, <1>17, <1>18, <1>20, <1>21, Zenon DEF Headed

\* A payload of three bytes, a count and the rest: the pushes.
LEMMA PushIs ==
  ASSUME NEW h \in Octets(3), NEW n \in Byte, NEW t \in Seq(Byte), NEW b, b = h \o (<<n>> \o t)
  PROVE  Pushed(b, h, n, t)
<1> DEFINE q == <<n>>
           w == h \o q
<1>1. h \in Seq(Byte) /\ q \in Seq(Byte)
  BY DEF Octets
<1>2. Len(h) = 3 /\ Len(q) = 1 /\ q[1] = n
  BY DEF Octets
<1>3. Len(t) \in Nat
  BY LenProperties, Zenon
<1>4. b = h \o (q \o t)
  BY Zenon
<1> HIDE DEF q
<1>5. b = h \o q \o t
  BY <1>1, <1>4, Regroup, Zenon
<1>6. /\ h \o q \o t \in Seq(Byte) /\ Len(h \o q \o t) = Len(h) + Len(q) + Len(t)
      /\ Carries(h \o q \o t, 0, h) /\ Carries(h \o q \o t, Len(h), q)
  BY <1>1, ThreePieces, Zenon
<1>7. b \in Seq(Byte) /\ Len(b) = Len(h) + Len(q) + Len(t) /\ Carries(b, 0, h) /\ Carries(b, Len(h), q)
  BY <1>5, <1>6, Zenon
<1>8. Len(b) = 4 + Len(t)
  BY <1>2, <1>3, <1>7
<1>9. b[1] = h[1] /\ b[2] = h[2] /\ b[4] = n
  BY <1>2, <1>7, SMT DEF Carries
<1>10. From(b, 5) = t
  <2>1. w \in Seq(Byte) /\ Len(w) = Len(h) + Len(q)
    BY <1>1, ConcatCarries, Zenon
  <2>2. Len(w) + 1 = 5
    BY <1>2, <2>1
  <2> HIDE DEF w
  <2>3. From(w \o t, Len(w) + 1) = t
    BY <2>1, FromIs, Zenon
  <2> QED
    BY <1>5, <2>2, <2>3, Zenon DEF w
<1> QED
  BY <1>7, <1>8, <1>9, <1>10, Zenon DEF Pushed

-----------------------------------------------------------------------------
(* The fixed-length messages.                                              *)

\* One more piece: what stood in the payload still does, and the piece stands at its end.
LEMMA PieceAdded ==
  ASSUME NEW z \in Seq(Byte), NEW y \in Seq(Byte), NEW n \in Nat, Len(z) = n
  PROVE  z \o y \in Seq(Byte) /\ Len(z \o y) = n + Len(y) /\ Carries(z \o y, n, y)
  BY ConcatCarries, Zenon

\* The fields of a request for an address.
Requested(b, h, x, y, t) ==
  /\ b \in Seq(Byte) /\ Len(b) = 39
  /\ b[1] = h[1] /\ b[2] = h[2] /\ b[3] = h[3]
  /\ Field(b, 4, 16) = x /\ Field(b, 20, 4) = y /\ Field(b, 24, 16) = t

\* The payload of a request for an address.
LEMMA RequestIs ==
  ASSUME NEW h \in Octets(3), NEW x \in Octets(16), NEW y \in Octets(4), NEW t \in Octets(16),
         NEW b, b = h \o x \o y \o t
  PROVE  Requested(b, h, x, y, t)
<1> DEFINE z == h \o x \o y
<1>1. h \in Seq(Byte) /\ x \in Seq(Byte) /\ y \in Seq(Byte) /\ t \in Seq(Byte)
  BY Zenon DEF Octets
<1>2. Len(h) = 3 /\ Len(x) = 16 /\ Len(y) = 4 /\ Len(t) = 16
  BY Zenon DEF Octets
<1>3. b = z \o t
  BY Zenon
<1>4. /\ z \in Seq(Byte) /\ Len(z) = Len(h) + Len(x) + Len(y)
      /\ Carries(z, 0, h) /\ Carries(z, Len(h), x) /\ Carries(z, Len(h) + Len(x), y)
  BY <1>1, ThreePieces, Zenon
<1>5. Len(z) = 23 /\ Carries(z, 3, x) /\ Carries(z, 19, y) /\ 3 \in Nat /\ 19 \in Nat /\ 0 \in Nat /\ 23 \in Nat
  BY <1>2, <1>4, SMT
<1>6. z \in Seq(Byte) /\ Carries(z, 0, h)
  BY <1>4, Zenon
<1> HIDE DEF z
<1>7. z \o t \in Seq(Byte) /\ Len(z \o t) = Len(z) + Len(t) /\ Carries(z \o t, Len(z), t)
  BY <1>1, <1>6, ConcatCarries, Zenon
<1>8. Carries(z \o t, 0, h)
  BY <1>1, <1>5, <1>6, ConcatKeeps, Zenon
<1>9. Carries(z \o t, 3, x)
  BY <1>1, <1>5, <1>6, ConcatKeeps, Zenon
<1>10. Carries(z \o t, 19, y)
  BY <1>1, <1>5, <1>6, ConcatKeeps, Zenon
<1>11. b \in Seq(Byte) /\ Len(b) = Len(z) + Len(t) /\ Carries(b, Len(z), t)
  BY <1>3, <1>7, Zenon
<1>12. Carries(b, 0, h) /\ Carries(b, 3, x) /\ Carries(b, 19, y)
  BY <1>3, <1>8, <1>9, <1>10, Zenon
<1>13. Len(b) = 39 /\ Carries(b, 23, t)
  BY <1>2, <1>5, <1>11, SMT
<1>14. b[1] = h[1] /\ b[2] = h[2] /\ b[3] = h[3]
  <2>1. \A i \in 1 .. Len(h) : b[0 + i] = h[i]
    BY <1>12, Zenon DEF Carries
  <2>2. 1 \in 1 .. Len(h) /\ 2 \in 1 .. Len(h) /\ 3 \in 1 .. Len(h)
    BY <1>2
  <2>3. b[0 + 1] = h[1] /\ b[0 + 2] = h[2] /\ b[0 + 3] = h[3]
    BY <2>1, <2>2, Zenon
  <2>4. 0 + 1 = 1 /\ 0 + 2 = 2 /\ 0 + 3 = 3
    OBVIOUS
  <2> QED
    BY <2>3, <2>4, Zenon
<1>15. Field(b, 3 + 1, Len(x)) = x
  BY <1>1, <1>5, <1>11, <1>12, FieldIs, Zenon
<1>16. Field(b, 19 + 1, Len(y)) = y
  BY <1>1, <1>5, <1>11, <1>12, FieldIs, Zenon
<1>17. Field(b, 23 + 1, Len(t)) = t
  BY <1>1, <1>5, <1>11, <1>13, FieldIs, Zenon
<1>18. Field(b, 4, 16) = x /\ Field(b, 20, 4) = y /\ Field(b, 24, 16) = t
  BY <1>2, <1>15, <1>16, <1>17, SMT
<1> QED
  BY <1>11, <1>13, <1>14, <1>18, Zenon DEF Requested

\* The fields of an assignment.
Assigned(b, h, x, y, v, w, p, t) ==
  /\ b \in Seq(Byte) /\ Len(b) = 37
  /\ b[1] = h[1] /\ b[2] = h[2] /\ b[3] = h[3] /\ b[32] = p[1] /\ b[33] = p[2]
  /\ Field(b, 4, 4) = x /\ Field(b, 8, 4) = y /\ Field(b, 12, 4) = v
  /\ Field(b, 16, 16) = w /\ Field(b, 34, 4) = t

\* The payload of an assignment.
LEMMA AssignIs ==
  ASSUME NEW h \in Octets(3), NEW x \in Octets(4), NEW y \in Octets(4), NEW v \in Octets(4),
         NEW w \in Octets(16), NEW p \in Octets(2), NEW t \in Octets(4),
         NEW b, b = h \o x \o y \o v \o w \o p \o t
  PROVE  Assigned(b, h, x, y, v, w, p, t)
<1> DEFINE f == h \o x \o y
           g == f \o v \o w
<1>1. /\ h \in Seq(Byte) /\ x \in Seq(Byte) /\ y \in Seq(Byte) /\ v \in Seq(Byte)
      /\ w \in Seq(Byte) /\ p \in Seq(Byte) /\ t \in Seq(Byte)
  BY Zenon DEF Octets
<1>2. Len(h) = 3 /\ Len(x) = 4 /\ Len(y) = 4 /\ Len(v) = 4 /\ Len(w) = 16 /\ Len(p) = 2 /\ Len(t) = 4
  BY Zenon DEF Octets
<1>3. b = g \o p \o t
  BY Zenon
<1>4. /\ f \in Seq(Byte) /\ Len(f) = Len(h) + Len(x) + Len(y)
      /\ Carries(f, 0, h) /\ Carries(f, Len(h), x) /\ Carries(f, Len(h) + Len(x), y)
  BY <1>1, ThreePieces, Zenon
<1>5. Len(f) = 11 /\ Carries(f, 3, x) /\ Carries(f, 7, y)
  BY <1>2, <1>4, SMT
<1>6. f \in Seq(Byte) /\ Carries(f, 0, h)
  BY <1>4, Zenon
<1> HIDE DEF f
<1>7. /\ g \in Seq(Byte) /\ Len(g) = Len(f) + Len(v) + Len(w)
      /\ Carries(g, 0, f) /\ Carries(g, Len(f), v) /\ Carries(g, Len(f) + Len(v), w)
  BY <1>1, <1>6, ThreePieces, Zenon
<1>8. Len(g) = 31 /\ Carries(g, 11, v) /\ Carries(g, 15, w)
  BY <1>2, <1>5, <1>7, SMT
<1>9. g \in Seq(Byte) /\ Carries(g, 0, f)
  BY <1>7, Zenon
<1> HIDE DEF g
<1>10. /\ g \o p \o t \in Seq(Byte) /\ Len(g \o p \o t) = Len(g) + Len(p) + Len(t)
       /\ Carries(g \o p \o t, 0, g) /\ Carries(g \o p \o t, Len(g), p)
       /\ Carries(g \o p \o t, Len(g) + Len(p), t)
  BY <1>1, <1>9, ThreePieces, Zenon
<1>11. /\ b \in Seq(Byte) /\ Len(b) = Len(g) + Len(p) + Len(t)
       /\ Carries(b, 0, g) /\ Carries(b, Len(g), p) /\ Carries(b, Len(g) + Len(p), t)
  BY <1>3, <1>10, Zenon
<1>12. Len(b) = 37 /\ Carries(b, 31, p) /\ Carries(b, 33, t)
  BY <1>2, <1>8, <1>11, SMT
<1>13. b \in Seq(Byte) /\ Carries(b, 0, g)
  BY <1>11, Zenon
<1>14. /\ 0 \in Nat /\ 3 \in Nat /\ 7 \in Nat /\ 11 \in Nat /\ 15 \in Nat /\ 33 \in Nat
       /\ 0 + 0 = 0 /\ 0 + 3 = 3 /\ 0 + 7 = 7 /\ 0 + 11 = 11 /\ 0 + 15 = 15
  OBVIOUS
<1>15. Len(b) \in Nat /\ Len(g) \in Nat /\ Len(f) \in Nat
  BY <1>6, <1>9, <1>13, LenProperties, Zenon
<1>16. Carries(b, 0 + 0, f)
  BY <1>6, <1>9, <1>13, <1>14, <1>15, CarriesThrough, Zenon
<1>17. Carries(b, 0, f)
  BY <1>14, <1>16, Zenon
<1>18. Carries(b, 0 + 0, h)
  BY <1>1, <1>6, <1>14, <1>15, <1>17, CarriesThrough, Zenon
<1>19. Carries(b, 0 + 3, x)
  BY <1>1, <1>5, <1>14, <1>15, <1>17, CarriesThrough, Zenon
<1>20. Carries(b, 0 + 7, y)
  BY <1>1, <1>5, <1>14, <1>15, <1>17, CarriesThrough, Zenon
<1>21. Carries(b, 0 + 11, v)
  BY <1>1, <1>8, <1>13, <1>14, <1>15, CarriesThrough, Zenon
<1>22. Carries(b, 0 + 15, w)
  BY <1>1, <1>8, <1>13, <1>14, <1>15, CarriesThrough, Zenon
<1>23. /\ Carries(b, 0, h) /\ Carries(b, 3, x) /\ Carries(b, 7, y) /\ Carries(b, 11, v)
       /\ Carries(b, 15, w)
  BY <1>14, <1>18, <1>19, <1>20, <1>21, <1>22, Zenon
<1>24. b[1] = h[1] /\ b[2] = h[2] /\ b[3] = h[3]
  <2>1. \A i \in 1 .. Len(h) : b[0 + i] = h[i]
    BY <1>23, Zenon DEF Carries
  <2>2. 1 \in 1 .. Len(h) /\ 2 \in 1 .. Len(h) /\ 3 \in 1 .. Len(h)
    BY <1>2
  <2>3. b[0 + 1] = h[1] /\ b[0 + 2] = h[2] /\ b[0 + 3] = h[3]
    BY <2>1, <2>2, Zenon
  <2>4. 0 + 1 = 1 /\ 0 + 2 = 2 /\ 0 + 3 = 3
    OBVIOUS
  <2> QED
    BY <2>3, <2>4, Zenon
<1>25. b[32] = p[1] /\ b[33] = p[2]
  <2>1. \A i \in 1 .. Len(p) : b[31 + i] = p[i]
    BY <1>12, Zenon DEF Carries
  <2>2. 1 \in 1 .. Len(p) /\ 2 \in 1 .. Len(p)
    BY <1>2
  <2>3. b[31 + 1] = p[1] /\ b[31 + 2] = p[2]
    BY <2>1, <2>2, Zenon
  <2>4. 31 + 1 = 32 /\ 31 + 2 = 33
    OBVIOUS
  <2> QED
    BY <2>3, <2>4, Zenon
<1>26. Field(b, 3 + 1, Len(x)) = x
  BY <1>1, <1>13, <1>14, <1>23, FieldIs, Zenon
<1>27. Field(b, 7 + 1, Len(y)) = y
  BY <1>1, <1>13, <1>14, <1>23, FieldIs, Zenon
<1>28. Field(b, 11 + 1, Len(v)) = v
  BY <1>1, <1>13, <1>14, <1>23, FieldIs, Zenon
<1>29. Field(b, 15 + 1, Len(w)) = w
  BY <1>1, <1>13, <1>14, <1>23, FieldIs, Zenon
<1>30. Field(b, 33 + 1, Len(t)) = t
  BY <1>1, <1>12, <1>13, <1>14, FieldIs, Zenon
<1>31. Field(b, 4, 4) = x /\ Field(b, 8, 4) = y /\ Field(b, 12, 4) = v
  BY <1>2, <1>26, <1>27, <1>28, SMT
<1>32. Field(b, 16, 16) = w /\ Field(b, 34, 4) = t
  BY <1>2, <1>29, <1>30, SMT
<1> QED
  BY <1>12, <1>13, <1>24, <1>25, <1>31, <1>32, Zenon DEF Assigned

-----------------------------------------------------------------------------
(* Networks and their bytes.                                               *)

\* Clearing twice is clearing once.
LEMMA ClearedIs ==
  ASSUME NEW v \in Byte, NEW keep \in Int
  PROVE  Cleared(v, keep) \in Byte /\ Cleared(Cleared(v, keep), keep) = Cleared(v, keep)
<1>1. CASE keep >= 8
  BY <1>1, Zenon DEF Cleared
<1>2. CASE keep <= 0
  <2>1. ~(keep >= 8) /\ 0 \in Byte
    BY <1>2 DEF Byte
  <2>2. \A u : Cleared(u, keep) = 0
    BY <1>2, <2>1, Zenon DEF Cleared
  <2> QED
    BY <2>1, <2>2, Zenon
<1>3. CASE ~(keep >= 8) /\ ~(keep <= 0)
  <2> DEFINE unit == <<128, 64, 32, 16, 8, 4, 2>>[keep]
  <2>1. unit \in {128, 64, 32, 16, 8, 4, 2}
    BY <1>3, SMT
  <2>2. \A u : Cleared(u, keep) = unit * (u \div unit)
    BY <1>3, Zenon DEF Cleared
  <2> HIDE DEF unit
  <2>3. unit * (v \div unit) \in Byte
    BY <2>1, SMT DEF Byte
  <2>4. unit * ((unit * (v \div unit)) \div unit) = unit * (v \div unit)
    BY <2>1, SMT DEF Byte
  <2> QED
    BY <2>2, <2>3, <2>4, Zenon
<1> QED
  BY <1>1, <1>2, <1>3, Zenon

\* The bytes of a network's address, the host bits cleared.
Masked(addr, plen) == [i \in DOMAIN addr |-> Cleared(addr[i], plen - 8 * (i - 1))]

\* Clearing the host bits keeps the length, and a second time changes nothing.
LEMMA MaskedIs ==
  ASSUME NEW addr \in Seq(Byte), NEW plen \in Byte
  PROVE  /\ Masked(addr, plen) \in Seq(Byte) /\ Len(Masked(addr, plen)) = Len(addr)
         /\ Masked(Masked(addr, plen), plen) = Masked(addr, plen)
<1> DEFINE n == Len(addr)
           keep(i) == plen - 8 * (i - 1)
           m == Masked(addr, plen)
<1>1. n \in Nat /\ DOMAIN addr = 1 .. n
  BY LenProperties, Zenon
<1>2. \A i \in 1 .. n : addr[i] \in Byte /\ keep(i) \in Int
  <2>1. \A i \in 1 .. n : addr[i] \in Byte
    BY ElementOfSeq, Zenon
  <2>2. \A i \in 1 .. n : keep(i) \in Int
    BY SMT DEF Byte
  <2> QED
    BY <2>1, <2>2, Zenon
<1>3. m = [i \in 1 .. n |-> Cleared(addr[i], keep(i))]
  BY <1>1, Zenon DEF Masked
<1> HIDE DEF keep
<1>4. \A i \in 1 .. n : Cleared(addr[i], keep(i)) \in Byte
  BY <1>2, ClearedIs, Zenon
<1>5. m \in [1 .. n -> Byte]
  BY <1>3, <1>4, Zenon
<1> HIDE DEF m, n
<1>6. m \in Seq(Byte) /\ Len(m) = n /\ DOMAIN m = 1 .. n
  BY <1>1, <1>5, SMT
<1>7. Masked(m, plen) = [i \in 1 .. n |-> Cleared(m[i], keep(i))]
  BY <1>6, Zenon DEF Masked, keep
<1>8. \A i \in 1 .. n : Cleared(m[i], keep(i)) = m[i]
  <2> TAKE i \in 1 .. n
  <2>1. m[i] = Cleared(addr[i], keep(i))
    BY <1>3, Zenon
  <2> QED
    BY <1>2, <2>1, ClearedIs, Zenon
<1>9. Masked(m, plen) = m
  BY <1>5, <1>7, <1>8, Zenon
<1> QED
  BY <1>6, <1>9, Zenon DEF m, n

\* A network is its three fields,
LEMMA NetworkIs ==
  ASSUME NEW net \in Network
  PROVE  /\ net = [fam |-> net.fam, plen |-> net.plen, addr |-> net.addr]
         /\ net.fam \in {4, 6} /\ net.plen \in Byte /\ net.addr \in Seq(Byte)
         /\ Len(net.addr) = Width(net.fam) /\ net.plen <= 8 * Width(net.fam)
<1>1. net \in [fam : {4, 6}, plen : Byte, addr : Seq(Byte)]
  BY Zenon DEF Network
<1>2. net = [fam |-> net.fam, plen |-> net.plen, addr |-> net.addr]
  BY <1>1, Zenon
<1> QED
  BY <1>1, <1>2, Zenon DEF Network

\* ... of which canonical changes one,
LEMMA CanonicalOf ==
  ASSUME NEW f, NEW p, NEW a
  PROVE  Canonical([fam |-> f, plen |-> p, addr |-> a])
           = [fam |-> f, plen |-> p, addr |-> Masked(a, p)]
  BY DEF Canonical, Masked

\* ... once and for all.
LEMMA CanonicalIs ==
  ASSUME NEW net \in Network
  PROVE  /\ Canonical(net) \in Network /\ Canonical(Canonical(net)) = Canonical(net)
         /\ Canonical(net) = [fam |-> net.fam, plen |-> net.plen, addr |-> Masked(net.addr, net.plen)]
         /\ Canonical(net).fam = net.fam /\ Canonical(net).addr = Masked(net.addr, net.plen)
<1> DEFINE f == net.fam
           p == net.plen
           a == net.addr
           m == Masked(a, p)
           c == [fam |-> f, plen |-> p, addr |-> m]
<1>1. /\ net = [fam |-> f, plen |-> p, addr |-> a] /\ f \in {4, 6} /\ p \in Byte /\ a \in Seq(Byte)
      /\ Len(a) = Width(f) /\ p <= 8 * Width(f)
  BY NetworkIs, Zenon
<1>2. m \in Seq(Byte) /\ Len(m) = Len(a) /\ Masked(m, p) = m
  BY <1>1, MaskedIs, Zenon
<1> HIDE DEF m
<1>3. Canonical(net) = c
  <2>1. Canonical([fam |-> f, plen |-> p, addr |-> a]) = [fam |-> f, plen |-> p, addr |-> Masked(a, p)]
    BY CanonicalOf, Zenon
  <2> QED
    BY <1>1, <2>1, Zenon DEF m
<1> HIDE DEF f, p, a
<1>4. Canonical(c) = c
  BY <1>2, CanonicalOf, Zenon
<1>5. c \in Network
  <2>1. c \in [fam : {4, 6}, plen : Byte, addr : Seq(Byte)] /\ c.fam = f /\ c.plen = p /\ c.addr = m
    BY <1>1, <1>2, Zenon
  <2> HIDE DEF c
  <2> QED
    BY <1>1, <1>2, <2>1, Zenon DEF Network
<1>6. c.fam = f /\ c.addr = m
  BY Zenon
<1> HIDE DEF c
<1>7. Canonical(net).fam = f /\ Canonical(net).addr = m
  BY <1>3, <1>6, Zenon
<1> QED
  BY <1>3, <1>4, <1>5, <1>7, Zenon DEF f, p, a, m, c

\* The state of parse_routes' loop.
RouteState == [rest : Seq(Byte), routes : Seq(Network)]

\* What push_route writes.
LEMMA RouteBytesIs ==
  ASSUME NEW net \in Network
  PROVE  /\ RouteBytes(net) = <<net.fam, net.plen>> \o Canonical(net).addr
         /\ <<net.fam, net.plen>> \in Seq(Byte) /\ Canonical(net).addr \in Seq(Byte)
         /\ Len(<<net.fam, net.plen>>) = 2 /\ Len(Canonical(net).addr) = Width(net.fam)
         /\ RouteBytes(net) \in Seq(Byte) /\ Len(RouteBytes(net)) = 2 + Width(net.fam)
         /\ Width(net.fam) \in {4, 16}
<1> DEFINE h == <<net.fam, net.plen>>
           a == Canonical(net).addr
<1>1. Canonical(net) \in Network /\ net.fam = Canonical(net).fam
  BY CanonicalIs, Zenon
<1>2. net.fam \in {4, 6} /\ net.plen \in Byte
  BY NetworkIs, Zenon
<1>3. a \in Seq(Byte) /\ Len(a) = Width(net.fam)
  BY <1>1, NetworkIs, Zenon
<1>4. h \in Seq(Byte) /\ Len(h) = 2
  <2>1. net.fam \in Byte
    BY <1>2 DEF Byte
  <2> QED
    BY <1>2, <2>1, SMT
<1>5. RouteBytes(net) = h \o a
  BY Zenon DEF RouteBytes
<1> HIDE DEF h, a
<1>6. h \o a \in Seq(Byte) /\ Len(h \o a) = Len(h) + Len(a)
  BY <1>3, <1>4, ConcatCarries, Zenon
<1>7. Width(net.fam) \in {4, 16}
  BY DEF Width
<1> QED
  BY <1>3, <1>4, <1>5, <1>6, <1>7, Zenon DEF h, a

\* An entry parse_routes reads as push_route wrote it.
LEMMA RouteIsRead ==
  ASSUME NEW net \in Network, NEW t \in Seq(Byte), NEW rs \in Seq(Network)
  PROVE  RouteStep([rest |-> RouteBytes(net) \o t, routes |-> rs])
           = [rest |-> t, routes |-> Append(rs, Canonical(net))]
<1> DEFINE h == <<net.fam, net.plen>>
           c == Canonical(net)
           a == c.addr
           e == RouteBytes(net)
           r == e \o t
           st == [rest |-> r, routes |-> rs]
           wd == Width(net.fam)
           entry == [fam |-> r[1], plen |-> r[2], addr |-> Field(r, 3, Width(r[1]))]
<1>1. /\ e = h \o a /\ h \in Seq(Byte) /\ a \in Seq(Byte) /\ Len(h) = 2 /\ Len(a) = wd
      /\ e \in Seq(Byte) /\ Len(e) = 2 + wd /\ wd \in {4, 16}
  BY RouteBytesIs, Zenon
<1>2. net.fam \in {4, 6} /\ net.plen \in Byte /\ net.plen <= 8 * wd
  BY NetworkIs, Zenon
<1>3. h[1] = net.fam /\ h[2] = net.plen
  OBVIOUS
<1>4. c = [fam |-> net.fam, plen |-> net.plen, addr |-> a] /\ Canonical(c) = c
  <2>1. c = [fam |-> net.fam, plen |-> net.plen, addr |-> Masked(net.addr, net.plen)] /\ Canonical(c) = c
    BY CanonicalIs, Zenon
  <2>2. a = Masked(net.addr, net.plen)
    BY CanonicalIs, Zenon
  <2> QED
    BY <2>1, <2>2, Zenon
<1> HIDE DEF h, a, c, e, wd
<1>5. r \in Seq(Byte) /\ Len(r) = Len(e) + Len(t) /\ Carries(r, 0, e)
  BY <1>1, ConcatCarries, Zenon
<1>6. r = h \o a \o t
  BY <1>1, Zenon
<1>7. Carries(r, 0, h) /\ Carries(r, Len(h), a)
  BY <1>1, <1>6, ThreePieces, Zenon
<1>8. Len(t) \in Nat
  BY LenProperties, Zenon
<1>9. From(r, Len(e) + 1) = t
  BY <1>1, FromIs, Zenon
<1>10. From(r, 3 + wd) = t
  <2>1. Len(e) + 1 = 3 + wd
    BY <1>1
  <2> QED
    BY <1>9, <2>1, Zenon
<1> HIDE DEF r
<1>11. r[1] = net.fam /\ r[2] = net.plen
  <2>1. \A i \in 1 .. Len(h) : r[0 + i] = h[i]
    BY <1>7, Zenon DEF Carries
  <2>2. 1 \in 1 .. Len(h) /\ 2 \in 1 .. Len(h) /\ 0 + 1 = 1 /\ 0 + 2 = 2
    BY <1>1
  <2>3. r[0 + 1] = h[1] /\ r[0 + 2] = h[2]
    BY <2>1, <2>2, Zenon
  <2> QED
    BY <1>3, <2>2, <2>3, Zenon
<1>12. Field(r, 3, wd) = a
  <2>1. Len(h) \in Nat /\ Len(h) + 1 = 3
    BY <1>1
  <2>2. Field(r, Len(h) + 1, Len(a)) = a
    BY <1>1, <1>5, <1>7, <2>1, FieldIs, Zenon
  <2> QED
    BY <1>1, <2>1, <2>2, Zenon
<1>13. Width(r[1]) = wd
  BY <1>11, Zenon DEF wd
<1>14. entry = c
  BY <1>4, <1>11, <1>12, <1>13, Zenon
<1>15. st # None /\ st.rest = r /\ st.routes = rs
  <2>1. st \in [rest : Seq(Byte), routes : Seq(Network)]
    BY <1>5, Zenon
  <2> QED
    BY <2>1, CodecAssumption, Zenon
<1>16. ~(Len(r) < 2) /\ r[1] \in {4, 6} /\ ~(Len(r) < 2 + wd) /\ ~(r[2] > 8 * wd)
  <2>1. r[1] \in {4, 6}
    BY <1>2, <1>11, Zenon
  <2>2. ~(Len(r) < 2) /\ ~(Len(r) < 2 + wd)
    BY <1>1, <1>5, <1>8, SMT
  <2>3. ~(net.plen > 8 * wd)
    <3> DEFINE pl == net.plen
    <3>1. pl \in Byte /\ pl <= 8 * wd /\ wd \in {4, 16}
      BY <1>1, <1>2, Zenon
    <3> HIDE DEF pl
    <3>2. ~(pl > 8 * wd)
      BY <3>1, SMT DEF Byte
    <3> QED
      BY <3>2, Zenon DEF pl
  <2> QED
    BY <1>11, <2>1, <2>2, <2>3, Zenon
<1> HIDE DEF st, entry
<1>17. RouteStep(st) = [rest |-> From(r, 3 + wd), routes |-> Append(rs, Canonical(c))]
  <2>1. RouteStep(st) = [rest |-> From(r, 3 + Width(r[1])), routes |-> Append(rs, Canonical(entry))]
    BY <1>13, <1>15, <1>16, Zenon DEF RouteStep, entry
  <2> QED
    BY <1>13, <1>14, <2>1, Zenon
<1> QED
  BY <1>4, <1>10, <1>17, Zenon DEF st, r, e, c

-----------------------------------------------------------------------------
(* Lists of entries, one after the other.                                  *)

\* Parts that are joined, and what is left of them from each on.
LEMMA JoinedTails ==
  ASSUME NEW parts \in Seq(Seq(Byte))
  PROVE  \E tl \in [0 .. Len(parts) -> Seq(Byte)] :
           /\ tl[0] = Joined(parts) /\ tl[Len(parts)] = <<>>
           /\ \A k \in 0 .. Len(parts) - 1 : tl[k] = parts[k + 1] \o tl[k + 1]
<1> DEFINE n == Len(parts)
           S == Seq(Byte)
           up == [e \in S \X (1 .. n) |-> e[1] \o parts[e[2]]]
           down == [e \in S \X (1 .. n) |-> parts[n - e[2] + 1] \o e[1]]
           cat == CHOOSE f : f = [i \in 0 .. n |-> IF i = 0 THEN <<>> ELSE f[i - 1] \o parts[i]]
<1>1. n \in Nat /\ DOMAIN parts = 1 .. n
  BY LenProperties, Zenon
<1>2. \A i \in 1 .. n : parts[i] \in S
  BY ElementOfSeq, Zenon
<1>3. <<>> \in S
  OBVIOUS
<1>4. \A x, y \in S : x \o y \in S
  BY ConcatCarries, Zenon
<1>5. Joined(parts) = cat[n]
  BY Zenon DEF Joined
<1>6. \A i \in 1 .. n : n - i + 1 \in 1 .. n
  BY <1>1
<1> HIDE DEF S, n
<1>7. up \in [S \X (1 .. n) -> S]
  BY <1>2, <1>4, Zenon
<1>8. down \in [S \X (1 .. n) -> S]
  BY <1>2, <1>4, <1>6, Zenon
<1>9. /\ \A x \in S, i \in 1 .. n : up[<<x, i>>] = x \o parts[i]
      /\ \A x \in S, i \in 1 .. n : down[<<x, i>>] = parts[n - i + 1] \o x
  BY Zenon
<1> HIDE DEF up, down
<1>10. PICK f : f \in [0 .. n -> S] /\ f[0] = <<>> /\ \A i \in 1 .. n : f[i] = up[<<f[i - 1], i>>]
  <2>1. \E f : Iterates(f, n, S, <<>>, up)
    BY <1>1, <1>3, <1>7, Iteration, Zenon
  <2> QED
    BY <2>1, Zenon DEF Iterates
<1>11. PICK g : g \in [0 .. n -> S] /\ g[0] = <<>> /\ \A i \in 1 .. n : g[i] = down[<<g[i - 1], i>>]
  <2>1. \E g : Iterates(g, n, S, <<>>, down)
    BY <1>1, <1>3, <1>8, Iteration, Zenon
  <2> QED
    BY <2>1, Zenon DEF Iterates
<1>12. /\ \A k \in 0 .. n : k = 0 \/ (k \in 1 .. n /\ k - 1 \in 0 .. n)
       /\ \A k \in 1 .. n : k \in 0 .. n /\ k - 1 \in 0 .. n /\ k # 0
       /\ 0 \in 0 .. n /\ n \in 0 .. n
  BY <1>1
<1>13. cat = [i \in 0 .. n |-> IF i = 0 THEN <<>> ELSE cat[i - 1] \o parts[i]]
  <2>1. ASSUME NEW i \in 0 .. n PROVE f[i] = IF i = 0 THEN <<>> ELSE f[i - 1] \o parts[i]
    BY <1>9, <1>10, <1>12, Zenon
  <2>2. f = [i \in 0 .. n |-> IF i = 0 THEN <<>> ELSE f[i - 1] \o parts[i]]
    BY <1>10, <2>1, Zenon
  <2> QED
    BY <2>2, Zenon
<1> HIDE DEF cat
<1>14. cat[0] = <<>> /\ \A i \in 1 .. n : cat[i] = cat[i - 1] \o parts[i]
  BY <1>12, <1>13, Zenon
<1> DEFINE tl == [k \in 0 .. n |-> g[n - k]]
<1>15. /\ \A k \in 0 .. n : n - k \in 0 .. n
       /\ \A k \in 0 .. n - 1 : /\ k \in 0 .. n /\ k + 1 \in 0 .. n /\ k + 1 \in 1 .. n
                                /\ (k + 1) - 1 = k /\ n - k \in 1 .. n
                                /\ (n - k) - 1 = n - (k + 1) /\ n - (n - k) + 1 = k + 1
       /\ n - n = 0
  BY <1>1
<1>16. tl \in [0 .. n -> S]
  BY <1>11, <1>15, Zenon
<1>17. \A k \in 0 .. n : tl[k] = g[n - k]
  BY Zenon
<1> HIDE DEF tl
<1>18. tl[n] = <<>>
  BY <1>11, <1>12, <1>15, <1>17, Zenon
<1>19. ASSUME NEW k \in 0 .. n - 1 PROVE tl[k] = parts[k + 1] \o tl[k + 1]
  <2>1. tl[k] = g[n - k] /\ tl[k + 1] = g[n - (k + 1)] /\ g[n - (k + 1)] \in S
    BY <1>11, <1>15, <1>17, Zenon
  <2>2. g[n - k] = down[<<g[(n - k) - 1], n - k>>]
    BY <1>11, <1>15, Zenon
  <2>3. g[n - k] = down[<<g[n - (k + 1)], n - k>>]
    BY <1>15, <2>2, Zenon
  <2>4. down[<<g[n - (k + 1)], n - k>>] = parts[n - (n - k) + 1] \o g[n - (k + 1)]
    BY <1>9, <1>15, <2>1, Zenon
  <2>5. n - (n - k) + 1 = k + 1
    BY <1>15, Zenon
  <2>6. g[n - k] = parts[k + 1] \o g[n - (k + 1)]
    BY <2>3, <2>4, <2>5, Zenon
  <2> QED
    BY <2>1, <2>6, Zenon
<1> DEFINE G == {k \in 0 .. n : cat[k] \in S /\ cat[k] \o tl[k] = tl[0]}
<1>20. 0 \in G
  <2>1. tl[0] \in S
    BY <1>12, <1>16, Zenon
  <2>2. <<>> \o tl[0] = tl[0]
    BY <2>1, ConcatEmptySeq, Zenon DEF S
  <2> QED
    BY <1>3, <1>12, <1>14, <2>2, Zenon
<1>21. ASSUME NEW k \in 0 .. n - 1, k \in G PROVE k + 1 \in G
  <2> DEFINE x == cat[k]
             y == parts[k + 1]
             z == tl[k + 1]
  <2>1. x \in S /\ y \in S /\ z \in S /\ x \o tl[k] = tl[0]
    BY <1>2, <1>15, <1>16, <1>21, Zenon
  <2>2. cat[k + 1] = x \o y
    <3>1. cat[k + 1] = cat[(k + 1) - 1] \o y
      BY <1>14, <1>15, Zenon
    <3> QED
      BY <1>15, <3>1, Zenon
  <2>3. tl[k] = y \o z
    BY <1>19, Zenon
  <2> HIDE DEF x, y, z
  <2>4. x \o y \o z = x \o (y \o z)
    BY <2>1, Regroup, Zenon DEF S
  <2>5. cat[k + 1] \o z = tl[0] /\ cat[k + 1] \in S
    BY <1>4, <2>1, <2>2, <2>3, <2>4, Zenon
  <2> QED
    BY <1>15, <2>5, Zenon DEF z
<1>22. n \in G
  <2> HIDE DEF G
  <2> QED
    BY <1>1, <1>12, <1>20, <1>21, CountUp, Zenon
<1>23. tl[0] = cat[n]
  <2>1. cat[n] \in S /\ cat[n] \o <<>> = tl[0]
    BY <1>18, <1>22, Zenon
  <2>2. cat[n] \o <<>> = cat[n]
    BY <2>1, ConcatEmptySeq, Zenon DEF S
  <2> QED
    BY <2>1, <2>2, Zenon
<1> QED
  BY <1>5, <1>16, <1>18, <1>19, <1>23, Zenon DEF S, n

\* The length of what is joined, counted down part by part.
LEMMA JoinedLength ==
  ASSUME NEW parts \in Seq(Seq(Byte)), NEW left \in [0 .. Len(parts) -> Nat],
         left[Len(parts)] = 0,
         \A k \in 0 .. Len(parts) - 1 : left[k] = Len(parts[k + 1]) + left[k + 1]
  PROVE  Joined(parts) \in Seq(Byte) /\ Len(Joined(parts)) = left[0]
<1> DEFINE n == Len(parts)
<1>1. n \in Nat
  BY LenProperties, Zenon
<1>2. PICK tl \in [0 .. n -> Seq(Byte)] :
        /\ tl[0] = Joined(parts) /\ tl[n] = <<>>
        /\ \A k \in 0 .. n - 1 : tl[k] = parts[k + 1] \o tl[k + 1]
  BY JoinedTails, Zenon
<1>3. \A k \in 0 .. n : Len(tl[k]) \in Nat
  BY LenProperties, Zenon
<1>4. \A i \in 1 .. n : parts[i] \in Seq(Byte)
  BY ElementOfSeq, Zenon
<1>5. ASSUME NEW k \in 0 .. n - 1
      PROVE  /\ Len(tl[k]) = Len(parts[k + 1]) + Len(tl[k + 1])
             /\ left[k] = Len(parts[k + 1]) + left[k + 1]
             /\ Len(parts[k + 1]) \in Nat
  <2>1. k + 1 \in 0 .. n /\ k + 1 \in 1 .. n
    BY <1>1
  <2>2. parts[k + 1] \in Seq(Byte) /\ tl[k + 1] \in Seq(Byte)
    BY <1>4, <2>1, Zenon
  <2>3. Len(parts[k + 1] \o tl[k + 1]) = Len(parts[k + 1]) + Len(tl[k + 1])
    BY <2>2, ConcatCarries, Zenon
  <2>4. Len(parts[k + 1]) \in Nat
    BY <2>2, LenProperties, Zenon
  <2> QED
    BY <1>2, <2>3, <2>4, Zenon
<1>6. Len(<<>>) = 0
  OBVIOUS
<1> HIDE DEF n
<1> DEFINE D(k) == Len(tl[k]) + left[0] = left[k] + Len(tl[0])
           G == {k \in 0 .. n : D(k)}
<1>7. 0 \in G
  <2>1. 0 \in 0 .. n
    BY <1>1
  <2>2. Len(tl[0]) \in Nat /\ left[0] \in Nat
    BY <1>3, <2>1, Zenon DEF n
  <2>3. D(0)
    BY <2>2
  <2> QED
    BY <2>1, <2>3, Zenon
<1>8. ASSUME NEW k \in 0 .. n - 1, k \in G PROVE k + 1 \in G
  <2>1. k + 1 \in 0 .. n /\ k \in 0 .. n /\ 0 \in 0 .. n
    BY <1>1
  <2> DEFINE a == Len(tl[k])
             b == Len(tl[k + 1])
             c == left[k]
             d == left[k + 1]
             e == Len(parts[k + 1])
             a0 == Len(tl[0])
             c0 == left[0]
  <2>2. /\ a \in Nat /\ b \in Nat /\ c \in Nat /\ d \in Nat /\ a0 \in Nat /\ c0 \in Nat
    BY <1>3, <2>1, Zenon DEF n
  <2>3. e \in Nat /\ a = e + b /\ c = e + d /\ a + c0 = c + a0
    BY <1>5, <1>8, Zenon
  <2> HIDE DEF a, b, c, d, e, a0, c0
  <2>4. b + c0 = d + a0
    BY <2>2, <2>3
  <2> QED
    BY <2>1, <2>4, Zenon DEF b, d, a0, c0
<1>9. n \in G
  <2>1. n \in 0 .. n
    BY <1>1
  <2> HIDE DEF G
  <2> QED
    BY <1>1, <1>7, <1>8, <2>1, CountUp, Zenon
<1>10. 0 + left[0] = 0 + Len(tl[0])
  BY <1>2, <1>6, <1>9, Zenon DEF n
<1>11. 0 \in 0 .. n
  BY <1>1
<1>12. left[0] \in Nat /\ Len(tl[0]) \in Nat
  BY <1>3, <1>11, Zenon DEF n
<1>13. left[0] = Len(tl[0])
  BY <1>10, <1>12
<1> QED
  BY <1>2, <1>11, <1>13, Zenon

\* Append, entry by entry.
LEMMA Appended ==
  ASSUME NEW S, NEW s \in Seq(S), NEW e \in S
  PROVE  /\ Append(s, e) \in Seq(S) /\ Len(Append(s, e)) = Len(s) + 1
         /\ \A i \in 1 .. Len(s) : Append(s, e)[i] = s[i]
         /\ Append(s, e)[Len(s) + 1] = e
<1>1. Append(s, e) \in Seq(S) /\ Len(Append(s, e)) = Len(s) + 1
  BY SMT
<1>2. \A i \in 1 .. Len(s) : Append(s, e)[i] = s[i]
  BY SMT
<1>3. Append(s, e)[Len(s) + 1] = e
  BY SMT
<1> QED
  BY <1>1, <1>2, <1>3, Zenon

\* The list s of n entries: what is left of it after each one.
Listed(s, n, T, left, size) ==
  Len(s) = n /\ \A k \in 1 .. n : s[k] \in T /\ left[k - 1] = size[s[k]] + left[k]

\* A list that grows by one entry a step, and the bytes left before each.
LEMMA ListGrows ==
  ASSUME NEW n \in Nat, NEW S, NEW lst \in [0 .. n -> Seq(S)], NEW left \in [0 .. n -> Nat],
         NEW T \in SUBSET S, NEW size \in [S -> Nat], Len(lst[0]) = 0,
         \A k \in 1 .. n : \E e \in T : lst[k] = Append(lst[k - 1], e) /\ left[k - 1] = size[e] + left[k]
  PROVE  Listed(lst[n], n, T, left, size)
<1> DEFINE P(k) == /\ Len(lst[k]) = k
                   /\ \A i \in 1 .. k : lst[k][i] \in T /\ left[i - 1] = size[lst[k][i]] + left[i]
           G == {k \in 0 .. n : P(k)}
<1>1. 0 \in G
  <2>1. 1 .. 0 = {} /\ 0 \in 0 .. n
    BY SMT
  <2> QED
    BY <2>1, Zenon
<1>2. ASSUME NEW k \in 0 .. n - 1, k \in G PROVE k + 1 \in G
  <2>1. k + 1 \in 1 .. n /\ k + 1 \in 0 .. n /\ k \in 0 .. n /\ (k + 1) - 1 = k
    BY SMT
  <2>2. PICK e \in T : lst[k + 1] = Append(lst[k], e) /\ left[k] = size[e] + left[k + 1]
    <3>1. \E e \in T : lst[k + 1] = Append(lst[(k + 1) - 1], e)
                       /\ left[(k + 1) - 1] = size[e] + left[k + 1]
      BY <2>1, Zenon
    <3> QED
      BY <2>1, <3>1, Zenon
  <2> DEFINE s == lst[k]
             t == lst[k + 1]
  <2>3. s \in Seq(S) /\ Len(s) = k
    BY <1>2, <2>1, Zenon
  <2>4. \A i \in 1 .. k : s[i] \in T /\ left[i - 1] = size[s[i]] + left[i]
    BY <1>2, Zenon
  <2>5. t = Append(s, e)
    BY <2>2, Zenon
  <2> HIDE DEF s, t
  <2>6. /\ Append(s, e) \in Seq(S) /\ Len(Append(s, e)) = Len(s) + 1
        /\ \A i \in 1 .. Len(s) : Append(s, e)[i] = s[i]
        /\ Append(s, e)[Len(s) + 1] = e
    BY <2>3, Appended, Zenon
  <2>7. Len(t) = k + 1 /\ (\A i \in 1 .. k : t[i] = s[i]) /\ t[k + 1] = e
    BY <2>3, <2>5, <2>6, Zenon
  <2>8. ASSUME NEW i \in 1 .. k + 1 PROVE t[i] \in T /\ left[i - 1] = size[t[i]] + left[i]
    <3>1. i \in 1 .. k \/ i = k + 1
      BY SMT
    <3>2. CASE i \in 1 .. k
      BY <2>4, <2>7, <3>2, Zenon
    <3>3. CASE i = k + 1
      <4>1. i - 1 = k
        BY <3>3, SMT
      <4> QED
        BY <2>2, <2>7, <3>3, <4>1, Zenon
    <3> QED
      BY <3>1, <3>2, <3>3, Zenon
  <2> QED
    BY <2>1, <2>7, <2>8, Zenon DEF t
<1>3. n \in G
  <2>1. n \in 0 .. n
    BY SMT
  <2> HIDE DEF G
  <2> QED
    BY <1>1, <1>2, <2>1, CountUp, Zenon
<1> QED
  BY <1>3, Zenon DEF Listed

-----------------------------------------------------------------------------
(* An entry of parse_routes.                                               *)

\* A piece of a payload that is long enough,
LEMMA PieceOf ==
  ASSUME NEW b \in Seq(Byte), NEW p \in Nat, NEW q \in Nat, 1 <= p, p <= q + 1, q <= Len(b)
  PROVE  SubSeq(b, p, q) \in Seq(Byte) /\ Len(SubSeq(b, p, q)) = (q + 1) - p
<1>1. Len(b) \in Nat
  BY LenProperties, Zenon
<1>2. ASSUME NEW i \in p .. q PROVE b[i] \in Byte
  <2>1. i \in 1 .. Len(b)
    BY <1>1
  <2> QED
    BY <2>1, ElementOfSeq, Zenon
<1>3. p \in Int /\ q \in Int
  OBVIOUS
<1> DEFINE u == SubSeq(b, p, q)
<1>4. u \in Seq(Byte)
  BY <1>2, <1>3, SubSeqProperties, Zenon
<1>5. Len(u) = IF p <= q THEN q - p + 1 ELSE 0
  BY <1>2, <1>3, SubSeqProperties, SMT
<1> HIDE DEF u
<1>6. Len(u) = (q + 1) - p
  BY <1>5, SMT
<1> QED
  BY <1>4, <1>6, Zenon DEF u

\* ... a field of it,
LEMMA FieldOf ==
  ASSUME NEW b \in Seq(Byte), NEW p \in Nat, NEW n \in Nat, 1 <= p, (p + n) - 1 <= Len(b)
  PROVE  Field(b, p, n) \in Seq(Byte) /\ Len(Field(b, p, n)) = n
<1> DEFINE q == (p + n) - 1
<1>1. q \in Nat /\ p <= q + 1 /\ (q + 1) - p = n /\ p + n - 1 = q
  OBVIOUS
<1>2. SubSeq(b, p, q) \in Seq(Byte) /\ Len(SubSeq(b, p, q)) = (q + 1) - p
  <2>1. q <= Len(b)
    BY Zenon
  <2> HIDE DEF q
  <2> QED
    BY <1>1, <2>1, PieceOf, Zenon
<1> HIDE DEF q
<1> QED
  BY <1>1, <1>2, Zenon DEF Field

\* ... and what follows.
LEMMA FromOf ==
  ASSUME NEW b \in Seq(Byte), NEW p \in Nat, 1 <= p, p <= Len(b) + 1
  PROVE  From(b, p) \in Seq(Byte) /\ Len(From(b, p)) = (Len(b) + 1) - p
<1>1. Len(b) \in Nat
  BY LenProperties, Zenon
<1>2. Len(b) <= Len(b)
  BY <1>1
<1> QED
  BY <1>1, <1>2, PieceOf, Zenon DEF From

\* An entry parse_routes takes: a network without host bits, and the bytes it took.
LEMMA RouteIsTaken ==
  ASSUME NEW st \in RouteState, RouteStep(st) # None
  PROVE  /\ RouteStep(st) \in RouteState
         /\ \E net \in Network :
              /\ Canonical(net) = net
              /\ RouteStep(st).routes = Append(st.routes, net)
              /\ Len(st.rest) = Len(RouteBytes(net)) + Len(RouteStep(st).rest)
<1> DEFINE r == st.rest
           fam == r[1]
           pl == r[2]
           wd == Width(r[1])
           a == Field(r, 3, wd)
           entry == [fam |-> fam, plen |-> pl, addr |-> a]
           net == Canonical(entry)
           t == From(r, 3 + wd)
<1>1. r \in Seq(Byte) /\ st.routes \in Seq(Network)
  BY Zenon DEF RouteState
<1>2. st # None
  BY CodecAssumption, Zenon DEF RouteState
<1>3. /\ ~(Len(r) < 2) /\ fam \in {4, 6} /\ ~(Len(r) < 2 + wd) /\ ~(pl > 8 * wd)
      /\ RouteStep(st) = [rest |-> t, routes |-> Append(st.routes, net)]
  BY <1>2, Zenon DEF RouteStep
<1>4. wd \in {4, 16}
  BY DEF Width
<1>5. Len(r) \in Nat
  BY <1>1, LenProperties, Zenon
<1>6. pl \in Byte
  <2>1. 2 \in 1 .. Len(r)
    BY <1>3, <1>5
  <2> QED
    BY <1>1, <2>1, ElementOfSeq, Zenon
<1> HIDE DEF r, fam, pl, wd
<1>7. /\ pl <= 8 * wd /\ 3 \in Nat /\ 1 <= 3 /\ wd \in Nat /\ (3 + wd) - 1 <= Len(r)
      /\ 3 + wd \in Nat /\ 1 <= 3 + wd /\ 3 + wd <= Len(r) + 1
  BY <1>3, <1>4, <1>5, <1>6, SMT DEF Byte
<1>8. a \in Seq(Byte) /\ Len(a) = wd
  BY <1>1, <1>7, FieldOf, Zenon
<1>9. t \in Seq(Byte) /\ Len(t) = (Len(r) + 1) - (3 + wd)
  BY <1>1, <1>7, FromOf, Zenon
<1> HIDE DEF a, t
<1>10. wd = Width(fam)
  BY Zenon DEF wd, fam
<1>11. entry \in Network
  <2>1. /\ entry \in [fam : {4, 6}, plen : Byte, addr : Seq(Byte)]
        /\ entry.fam = fam /\ entry.plen = pl /\ entry.addr = a
    BY <1>3, <1>6, <1>8, Zenon
  <2> HIDE DEF entry
  <2> QED
    BY <1>7, <1>8, <1>10, <2>1, Zenon DEF Network
<1>12. entry.fam = fam
  BY Zenon
<1> HIDE DEF entry
<1>13. net \in Network /\ Canonical(net) = net /\ net.fam = entry.fam
  BY <1>11, CanonicalIs, Zenon
<1> HIDE DEF net
<1>14. Len(RouteBytes(net)) = 2 + Width(net.fam)
  BY <1>13, RouteBytesIs, Zenon
<1>15. Len(RouteBytes(net)) = 2 + wd
  BY <1>10, <1>12, <1>13, <1>14, Zenon
<1>16. Len(r) = Len(RouteBytes(net)) + Len(t)
  BY <1>5, <1>7, <1>9, <1>15
<1>17. Append(st.routes, net) \in Seq(Network)
  BY <1>1, <1>13, Appended, Zenon
<1> DEFINE nx == RouteStep(st)
<1>18. nx \in RouteState /\ nx.routes = Append(st.routes, net) /\ nx.rest = t
  <2> DEFINE rs == Append(st.routes, net)
             rec == [rest |-> t, routes |-> rs]
  <2>1. nx = rec /\ rs \in Seq(Network)
    BY <1>3, <1>17, Zenon
  <2> HIDE DEF rs, nx
  <2>2. rec \in RouteState /\ rec.routes = rs /\ rec.rest = t
    BY <1>9, <2>1, Zenon DEF RouteState
  <2> HIDE DEF rec
  <2> QED
    BY <2>1, <2>2, Zenon DEF rs
<1> HIDE DEF nx
<1>19. Len(st.rest) = Len(RouteBytes(net)) + Len(nx.rest)
  BY <1>16, <1>18, Zenon DEF r
<1> QED
  BY <1>13, <1>18, <1>19, Zenon DEF nx

\* parse_routes' loop, state by state.
LEMMA RouteLoop ==
  ASSUME NEW b \in Seq(Byte), NEW count \in Nat
  PROVE  \E step \in [0 .. count -> RouteState \cup {None}] :
           /\ step[0] = [rest |-> b, routes |-> <<>>]
           /\ \A k \in 1 .. count : step[k] = RouteStep(step[k - 1])
           /\ ParseRoutes(b, count) = IF step[count] = None THEN None
                                      ELSE IF step[count].rest # <<>> THEN None
                                      ELSE step[count].routes
<1> DEFINE S == RouteState \cup {None}
           first == [rest |-> b, routes |-> <<>>]
           up == [e \in S \X (1 .. count) |-> RouteStep(e[1])]
           step == CHOOSE f : f = [k \in 0 .. count |-> IF k = 0 THEN first ELSE RouteStep(f[k - 1])]
<1>1. first \in S
  <2>1. <<>> \in Seq(Network)
    OBVIOUS
  <2> QED
    BY <2>1, Zenon DEF RouteState
<1>2. \A x \in S : RouteStep(x) \in S
  <2>1. RouteStep(None) = None
    BY Zenon DEF RouteStep
  <2> QED
    BY <2>1, RouteIsTaken, Zenon
<1>3. ParseRoutes(b, count) = IF step[count] = None THEN None
                              ELSE IF step[count].rest # <<>> THEN None ELSE step[count].routes
  BY Zenon DEF ParseRoutes
<1> HIDE DEF S, first
<1>4. up \in [S \X (1 .. count) -> S]
  BY <1>2, Zenon
<1>5. \A x \in S, i \in 1 .. count : up[<<x, i>>] = RouteStep(x)
  BY Zenon
<1> HIDE DEF up
<1>6. PICK f : f \in [0 .. count -> S] /\ f[0] = first /\ \A i \in 1 .. count : f[i] = up[<<f[i - 1], i>>]
  <2>1. \E f : Iterates(f, count, S, first, up)
    BY <1>1, <1>4, Iteration, Zenon
  <2> QED
    BY <2>1, Zenon DEF Iterates
<1>7. /\ \A k \in 0 .. count : k = 0 \/ (k \in 1 .. count /\ k - 1 \in 0 .. count)
      /\ \A k \in 1 .. count : k \in 0 .. count /\ k # 0 /\ k - 1 \in 0 .. count
      /\ 0 \in 0 .. count
  OBVIOUS
<1>8. step = [k \in 0 .. count |-> IF k = 0 THEN first ELSE RouteStep(step[k - 1])]
  <2>1. ASSUME NEW i \in 0 .. count PROVE f[i] = IF i = 0 THEN first ELSE RouteStep(f[i - 1])
    BY <1>5, <1>6, <1>7, Zenon
  <2>2. f = [k \in 0 .. count |-> IF k = 0 THEN first ELSE RouteStep(f[k - 1])]
    BY <1>6, <2>1, Zenon
  <2> QED
    BY <2>2, Zenon
<1> HIDE DEF step
<1>9. step[0] = first /\ \A i \in 1 .. count : step[i] = RouteStep(step[i - 1])
  BY <1>7, <1>8, Zenon
<1>10. step \in [0 .. count -> S]
  <2> DEFINE G == {k \in 0 .. count : step[k] \in S}
  <2>1. 0 \in G
    BY <1>1, <1>7, <1>9, Zenon
  <2>2. ASSUME NEW k \in 0 .. count - 1, k \in G PROVE k + 1 \in G
    <3>1. k + 1 \in 1 .. count /\ k + 1 \in 0 .. count /\ (k + 1) - 1 = k
      OBVIOUS
    <3>2. step[k + 1] = RouteStep(step[(k + 1) - 1])
      BY <1>9, <3>1, Zenon
    <3> QED
      BY <1>2, <2>2, <3>1, <3>2, Zenon
  <2>3. \A k \in 0 .. count : k \in G
    <3> HIDE DEF G
    <3> QED
      BY <2>1, <2>2, CountUp, Zenon
  <2> QED
    BY <1>8, <2>3, Zenon
<1> QED
  BY <1>3, <1>9, <1>10, Zenon DEF S, first

-----------------------------------------------------------------------------
(* Lists of routes.                                                        *)

\* The first elements of a list, and one more.
FirstOf(f, k) == [i \in 1 .. k |-> f[i]]
Extending(f, k, S) == FirstOf(f, k) \in Seq(S) /\ Append(FirstOf(f, k), f[k + 1]) = FirstOf(f, k + 1)

\* The first k of a list and one more.
LEMMA OneMore ==
  ASSUME NEW n \in Nat, NEW S, NEW f \in [1 .. n -> S], NEW k \in 0 .. n - 1
  PROVE  Extending(f, k, S)
<1> DEFINE s == [i \in 1 .. k |-> f[i]]
           t == [i \in 1 .. k + 1 |-> f[i]]
           v == f[k + 1]
           a == Append(s, v)
<1>1. k \in Nat /\ k + 1 \in Nat /\ k + 1 \in 1 .. n /\ \A i \in 1 .. k : i \in 1 .. n
  OBVIOUS
<1>2. s \in [1 .. k -> S] /\ v \in S
  BY <1>1, Zenon
<1>3. \A i \in 1 .. k : s[i] = f[i]
  BY Zenon
<1> HIDE DEF s, v
<1>4. s \in Seq(S) /\ Len(s) = k
  BY <1>1, <1>2, SMT
<1>5. /\ a \in Seq(S) /\ Len(a) = Len(s) + 1 /\ (\A i \in 1 .. Len(s) : a[i] = s[i])
      /\ a[Len(s) + 1] = v
  BY <1>2, <1>4, SMT
<1> HIDE DEF a
<1>6. DOMAIN a = 1 .. k + 1 /\ a \in [1 .. k + 1 -> S]
  <2>1. DOMAIN a = 1 .. Len(a) /\ a \in [1 .. Len(a) -> S]
    BY <1>5, LenProperties, Zenon
  <2> QED
    BY <1>4, <1>5, <2>1, Zenon
<1>7. ASSUME NEW i \in 1 .. k + 1 PROVE a[i] = f[i]
  <2>1. i \in 1 .. k \/ i = k + 1
    BY <1>1
  <2> QED
    BY <1>3, <1>4, <1>5, <2>1, Zenon DEF v
<1>8. a = t
  BY <1>6, <1>7, Zenon
<1> QED
  BY <1>4, <1>8, Zenon DEF a, s, v, FirstOf, Extending

\* A loop that has not stopped has not stopped before.
LEMMA NeverStopped ==
  ASSUME NEW n \in Nat, NEW f, f[n] # None, \A k \in 1 .. n : f[k - 1] = None => f[k] = None
  PROVE  \A k \in 0 .. n : f[k] # None
<1> SUFFICES ASSUME NEW k \in 0 .. n, f[k] = None PROVE FALSE
  BY Zenon
<1> DEFINE G == {j \in 0 .. n : j < k \/ f[j] = None}
<1>1. 0 \in G
  <2>1. 0 \in 0 .. n /\ (0 < k \/ 0 = k)
    OBVIOUS
  <2> QED
    BY <2>1, Zenon
<1>2. ASSUME NEW j \in 0 .. n - 1, j \in G PROVE j + 1 \in G
  <2>1. j + 1 \in 1 .. n /\ j + 1 \in 0 .. n /\ (j + 1) - 1 = j /\ (j < k => (j + 1 < k \/ j + 1 = k))
    OBVIOUS
  <2>2. f[(j + 1) - 1] = None => f[j + 1] = None
    BY <2>1, Zenon
  <2>3. j < k \/ f[j] = None
    BY <1>2, Zenon
  <2>4. j + 1 < k \/ f[j + 1] = None
    BY <2>1, <2>2, <2>3, Zenon
  <2> QED
    BY <2>1, <2>4, Zenon
<1>3. n \in 0 .. n /\ ~(n < k)
  OBVIOUS
<1>4. n \in G
  <2> HIDE DEF G
  <2> QED
    BY <1>1, <1>2, <1>3, CountUp, Zenon
<1> QED
  BY <1>3, <1>4, Zenon

\* The entries of a list of routes, one for each route.
LEMMA RoutePartsAre ==
  ASSUME NEW nets \in Seq(Network)
  PROVE  /\ Len(nets) \in Nat /\ \A i \in 1 .. Len(nets) : nets[i] \in Network
         /\ RouteParts(nets) \in Seq(Seq(Byte)) /\ Len(RouteParts(nets)) = Len(nets)
         /\ \A i \in 1 .. Len(nets) : RouteParts(nets)[i] = RouteBytes(nets[i])
<1> DEFINE n == Len(nets)
           p == RouteParts(nets)
<1>1. n \in Nat
  BY LenProperties, Zenon
<1>2. \A i \in 1 .. n : nets[i] \in Network
  BY ElementOfSeq, Zenon
<1>3. \A i \in 1 .. n : RouteBytes(nets[i]) \in Seq(Byte)
  BY <1>2, RouteBytesIs, Zenon
<1>4. p = [i \in 1 .. n |-> RouteBytes(nets[i])]
  BY Zenon DEF RouteParts
<1> HIDE DEF n, p
<1>5. p \in [1 .. n -> Seq(Byte)] /\ \A i \in 1 .. n : p[i] = RouteBytes(nets[i])
  BY <1>3, <1>4, Zenon
<1> DEFINE B == Seq(Byte)
<1>6. p \in [1 .. n -> B]
  BY <1>5, Zenon
<1> HIDE DEF B
<1>7. p \in Seq(B) /\ Len(p) = n
  BY <1>1, <1>6, SMT
<1> QED
  BY <1>1, <1>2, <1>5, <1>7, Zenon DEF n, p, B

\* parse_routes reads the list that push_route wrote, entry by entry.
LEMMA RoutesAreRead ==
  ASSUME NEW nets \in Seq(Network)
  PROVE  /\ Joined(RouteParts(nets)) \in Seq(Byte)
         /\ ParseRoutes(Joined(RouteParts(nets)), Len(nets))
              = [i \in 1 .. Len(nets) |-> Canonical(nets[i])]
         /\ [i \in 1 .. Len(nets) |-> Canonical(nets[i])] \in Seq(Network)
<1> DEFINE n == Len(nets)
           p == RouteParts(nets)
           b == Joined(p)
           want == [i \in 1 .. n |-> Canonical(nets[i])]
           sofar(k) == FirstOf(want, k)
<1>1. /\ n \in Nat /\ (\A i \in 1 .. n : nets[i] \in Network)
      /\ p \in Seq(Seq(Byte)) /\ Len(p) = n /\ \A i \in 1 .. n : p[i] = RouteBytes(nets[i])
  BY RoutePartsAre, Zenon
<1> HIDE DEF n, p
<1>2. PICK tl \in [0 .. n -> Seq(Byte)] :
        tl[0] = b /\ tl[n] = <<>> /\ \A k \in 0 .. n - 1 : tl[k] = p[k + 1] \o tl[k + 1]
  <2>1. \E tl \in [0 .. Len(p) -> Seq(Byte)] :
          tl[0] = b /\ tl[Len(p)] = <<>> /\ \A k \in 0 .. Len(p) - 1 : tl[k] = p[k + 1] \o tl[k + 1]
    BY <1>1, JoinedTails, Zenon
  <2> QED
    BY <1>1, <2>1, Zenon
<1>3. 0 \in 0 .. n /\ n \in 0 .. n
  BY <1>1
<1>4. b \in Seq(Byte)
  BY <1>2, <1>3, Zenon
<1> HIDE DEF b
<1>5. PICK step \in [0 .. n -> RouteState \cup {None}] :
           /\ step[0] = [rest |-> b, routes |-> <<>>]
           /\ \A k \in 1 .. n : step[k] = RouteStep(step[k - 1])
           /\ ParseRoutes(b, n) = IF step[n] = None THEN None
                                  ELSE IF step[n].rest # <<>> THEN None ELSE step[n].routes
  BY <1>1, <1>4, RouteLoop, Zenon
<1>6. want \in [1 .. n -> Network] /\ \A i \in 1 .. n : want[i] = Canonical(nets[i])
  BY <1>1, CanonicalIs, Zenon
<1> HIDE DEF want
<1>7. want \in Seq(Network)
  BY <1>1, <1>6, SMT
<1>8. sofar(0) = <<>>
  BY SMT DEF FirstOf
<1>9. sofar(n) = want
  BY <1>6, Zenon DEF FirstOf
<1> DEFINE G == {k \in 0 .. n : step[k] = [rest |-> tl[k], routes |-> sofar(k)]}
<1>10. 0 \in G
  BY <1>2, <1>3, <1>5, <1>8, Zenon
<1>11. ASSUME NEW k \in 0 .. n - 1, k \in G PROVE k + 1 \in G
  <2>1. k + 1 \in 1 .. n /\ k + 1 \in 0 .. n /\ (k + 1) - 1 = k
    BY <1>1
  <2>2. step[k] = [rest |-> tl[k], routes |-> sofar(k)]
    BY <1>11, Zenon
  <2>3. tl[k] = RouteBytes(nets[k + 1]) \o tl[k + 1] /\ tl[k + 1] \in Seq(Byte)
    BY <1>1, <1>2, <2>1, Zenon
  <2>4. sofar(k) \in Seq(Network) /\ Append(sofar(k), want[k + 1]) = sofar(k + 1)
    <3>1. Extending(want, k, Network)
      BY <1>1, <1>6, OneMore, Zenon
    <3> QED
      BY <3>1, Zenon DEF Extending
  <2>5. want[k + 1] = Canonical(nets[k + 1]) /\ nets[k + 1] \in Network
    BY <1>1, <1>6, <2>1, Zenon
  <2>6. step[k + 1] = RouteStep(step[k])
    <3>1. step[k + 1] = RouteStep(step[(k + 1) - 1])
      BY <1>5, <2>1, Zenon
    <3> QED
      BY <2>1, <3>1, Zenon
  <2> DEFINE s == sofar(k)
             s2 == sofar(k + 1)
             e == nets[k + 1]
             t == tl[k + 1]
  <2> HIDE DEF sofar
  <2>7. RouteStep([rest |-> RouteBytes(e) \o t, routes |-> s]) = [rest |-> t, routes |-> Append(s, Canonical(e))]
    BY <2>3, <2>4, <2>5, RouteIsRead, Zenon
  <2>8. step[k + 1] = [rest |-> t, routes |-> s2]
    BY <2>2, <2>3, <2>4, <2>5, <2>6, <2>7, Zenon
  <2> QED
    BY <2>1, <2>8, Zenon
<1>12. n \in G
  <2> HIDE DEF G
  <2> QED
    BY <1>1, <1>3, <1>10, <1>11, CountUp, Zenon
<1>13. step[n] = [rest |-> <<>>, routes |-> want]
  BY <1>2, <1>9, <1>12, Zenon
<1>14. step[n] # None /\ step[n].rest = <<>> /\ step[n].routes = want
  <2>1. <<>> \in Seq(Byte)
    OBVIOUS
  <2> DEFINE em == <<>>
             z == [rest |-> em, routes |-> want]
  <2>2. step[n] = z /\ em \in Seq(Byte)
    BY <1>13, <2>1, Zenon
  <2> HIDE DEF em
  <2>3. z \in [rest : Seq(Byte), routes : Seq(Network)] /\ z.rest = em /\ z.routes = want
    BY <1>7, <2>2, Zenon
  <2> HIDE DEF z
  <2>4. z # None
    BY <2>3, CodecAssumption, Zenon
  <2> QED
    BY <2>2, <2>3, <2>4, Zenon DEF em
<1>15. ParseRoutes(b, n) = want
  BY <1>5, <1>14, Zenon
<1> QED
  BY <1>4, <1>7, <1>15, Zenon DEF n, p, b, want

\* What parse_routes takes: that many networks, none with host bits, which push_route
\* writes in as many bytes.
LEMMA RoutesAreTaken ==
  ASSUME NEW b \in Seq(Byte), NEW count \in Nat, ParseRoutes(b, count) # None
  PROVE  /\ ParseRoutes(b, count) \in Seq(Network) /\ Len(ParseRoutes(b, count)) = count
         /\ \A i \in 1 .. count : Canonical(ParseRoutes(b, count)[i]) = ParseRoutes(b, count)[i]
         /\ Len(Joined(RouteParts(ParseRoutes(b, count)))) = Len(b)
<1>1. PICK step \in [0 .. count -> RouteState \cup {None}] :
           /\ step[0] = [rest |-> b, routes |-> <<>>]
           /\ \A k \in 1 .. count : step[k] = RouteStep(step[k - 1])
           /\ ParseRoutes(b, count) = IF step[count] = None THEN None
                                  ELSE IF step[count].rest # <<>> THEN None ELSE step[count].routes
  BY RouteLoop, Zenon
<1> DEFINE R == ParseRoutes(b, count)
           T == {net \in Network : Canonical(net) = net}
           lst == [k \in 0 .. count |-> step[k].routes]
           left == [k \in 0 .. count |-> Len(step[k].rest)]
           size == [net \in Network |-> Len(RouteBytes(net))]
<1>2. step[count] # None /\ step[count].rest = <<>> /\ R = step[count].routes
  BY <1>1, Zenon
<1>3. \A k \in 0 .. count : step[k] # None
  <2>1. \A k \in 1 .. count : step[k - 1] = None => step[k] = None
    BY <1>1, Zenon DEF RouteStep
  <2> QED
    BY <1>2, <2>1, NeverStopped, Zenon
<1>4. \A k \in 0 .. count : step[k] \in RouteState
  BY <1>3, Zenon
<1>5. \A k \in 0 .. count : step[k].routes \in Seq(Network) /\ step[k].rest \in Seq(Byte)
  BY <1>4, Zenon DEF RouteState
<1>6. \A k \in 0 .. count : Len(step[k].rest) \in Nat
  BY <1>5, LenProperties, Zenon
<1>7. lst \in [0 .. count -> Seq(Network)] /\ left \in [0 .. count -> Nat]
  BY <1>5, <1>6, Zenon
<1>8. \A net \in Network : Len(RouteBytes(net)) \in Nat
  <2> TAKE net \in Network
  <2>1. RouteBytes(net) \in Seq(Byte)
    BY RouteBytesIs, Zenon
  <2> QED
    BY <2>1, LenProperties, Zenon
<1>9. size \in [Network -> Nat] /\ T \in SUBSET Network
  BY <1>8, Zenon
<1>10. /\ 0 \in 0 .. count /\ count \in 0 .. count
       /\ \A k \in 1 .. count : k \in 0 .. count /\ k - 1 \in 0 .. count
  OBVIOUS
<1>11. /\ \A k \in 0 .. count : lst[k] = step[k].routes /\ left[k] = Len(step[k].rest)
       /\ \A net \in Network : size[net] = Len(RouteBytes(net))
  BY Zenon
<1> HIDE DEF lst, left, size
<1>12. Len(lst[0]) = 0 /\ left[0] = Len(b) /\ left[count] = 0 /\ lst[count] = R
  <2>1. step[0].routes = <<>> /\ step[0].rest = b
    <3> DEFINE em == <<>>
    <3>1. step[0] = [rest |-> b, routes |-> em]
      BY <1>1, Zenon
    <3> HIDE DEF em
    <3>2. step[0].routes = em /\ step[0].rest = b
      BY <3>1, SMT
    <3> QED
      BY <3>2, Zenon DEF em
  <2>2. Len(<<>>) = 0
    OBVIOUS
  <2> QED
    BY <1>2, <1>10, <1>11, <2>1, <2>2, Zenon
<1>13. ASSUME NEW k \in 1 .. count
       PROVE  \E e \in T : lst[k] = Append(lst[k - 1], e) /\ left[k - 1] = size[e] + left[k]
  <2>1. step[k - 1] \in RouteState /\ step[k] # None /\ step[k] = RouteStep(step[k - 1])
    BY <1>1, <1>3, <1>4, <1>10, Zenon
  <2> DEFINE o == step[k - 1]
             w == step[k]
  <2>2. \E net \in Network :
              /\ Canonical(net) = net
              /\ RouteStep(o).routes = Append(o.routes, net)
              /\ Len(o.rest) = Len(RouteBytes(net)) + Len(RouteStep(o).rest)
    BY <2>1, RouteIsTaken, Zenon
  <2>3. PICK net \in Network :
              /\ Canonical(net) = net
              /\ w.routes = Append(o.routes, net)
              /\ Len(o.rest) = Len(RouteBytes(net)) + Len(w.rest)
    BY <2>1, <2>2, Zenon
  <2>4. lst[k] = Append(lst[k - 1], net) /\ left[k - 1] = size[net] + left[k]
    BY <1>10, <1>11, <2>3, Zenon
  <2> QED
    BY <2>3, <2>4, Zenon
<1>14. Len(lst[count]) = count
       /\ \A k \in 1 .. count : lst[count][k] \in T /\ left[k - 1] = size[lst[count][k]] + left[k]
  <2>1. Len(lst[0]) = 0
    BY <1>12, Zenon
  <2> HIDE DEF T
  <2>2. Listed(lst[count], count, T, left, size)
    BY <1>7, <1>9, <1>13, <2>1, ListGrows, Zenon
  <2> QED
    BY <2>2, Zenon DEF Listed
<1>15. R \in Seq(Network) /\ Len(R) = count
       /\ \A k \in 1 .. count : R[k] \in T /\ left[k - 1] = size[R[k]] + left[k]
  BY <1>7, <1>10, <1>12, <1>14, Zenon
<1> HIDE DEF R
<1> DEFINE p == RouteParts(R)
<1>16. p \in Seq(Seq(Byte)) /\ Len(p) = count /\ \A i \in 1 .. count : p[i] = RouteBytes(R[i])
  BY <1>15, RoutePartsAre, Zenon
<1> HIDE DEF p
<1>17. ASSUME NEW k \in 0 .. count - 1 PROVE left[k] = Len(p[k + 1]) + left[k + 1]
  <2>1. k + 1 \in 1 .. count /\ (k + 1) - 1 = k
    OBVIOUS
  <2>2. left[(k + 1) - 1] = size[R[k + 1]] + left[k + 1] /\ R[k + 1] \in Network
    BY <1>15, <2>1, Zenon
  <2>3. size[R[k + 1]] = Len(p[k + 1])
    BY <1>11, <1>16, <2>1, <2>2, Zenon
  <2> QED
    BY <2>1, <2>2, <2>3, Zenon
<1>18. Len(Joined(p)) = left[0]
  BY <1>7, <1>12, <1>16, <1>17, JoinedLength, Zenon
<1> QED
  BY <1>12, <1>15, <1>18, Zenon DEF R, p

-----------------------------------------------------------------------------
(* Names.                                                                  *)

\* A list cut to a limit.
LEMMA UptoIs ==
  ASSUME NEW S, NEW s \in Seq(S), NEW n \in Nat
  PROVE  /\ Upto(s, n) \in Seq(S) /\ Len(Upto(s, n)) <= n /\ Len(Upto(s, n)) <= Len(s)
         /\ \A i \in 1 .. Len(Upto(s, n)) : Upto(s, n)[i] = s[i]
         /\ Len(s) <= n => Upto(s, n) = s
<1>1. Len(s) \in Nat
  BY LenProperties, Zenon
<1>2. CASE Len(s) > n
  <2> DEFINE u == SubSeq(s, 1, n)
  <2>1. Upto(s, n) = u
    BY <1>2, Zenon DEF Upto
  <2>2. u \in Seq(S) /\ Len(u) = n /\ \A i \in 1 .. n : u[i] = s[i]
    BY <1>1, <1>2, SMT
  <2>3. n <= n /\ n <= Len(s) /\ ~(Len(s) <= n)
    BY <1>1, <1>2
  <2> HIDE DEF u
  <2> QED
    BY <2>1, <2>2, <2>3, Zenon
<1>3. CASE ~(Len(s) > n)
  <2>1. Upto(s, n) = s
    BY <1>3, Zenon DEF Upto
  <2>2. Len(s) <= n /\ Len(s) <= Len(s)
    BY <1>1, <1>3
  <2> QED
    BY <2>1, <2>2, Zenon
<1> QED
  BY <1>2, <1>3, Zenon

\* A name that is written as it is, but for its length.
GoodName(name) == Utf8(Upto(name, MAX_NAME_LEN)) /\ EndsWhole(Upto(name, MAX_NAME_LEN))

\* The limits fit the byte that holds a count or a length.
LEMMA LimitsAre ==
  /\ MAX_ROUTES \in Byte /\ MAX_PEERS \in Byte /\ MAX_NAME_LEN \in Byte
  /\ MAX_ROUTES \in Nat /\ MAX_PEERS \in Nat /\ MAX_NAME_LEN \in Nat
<1>1. MAX_ROUTES \in Byte /\ MAX_PEERS \in Byte /\ MAX_NAME_LEN \in Byte
  BY CodecAssumption, Zenon
<1>2. \A v \in Byte : v \in Nat
  BY DEF Byte
<1> QED
  BY <1>1, <1>2, Zenon

\* name_bytes writes a name that ends whole as it is, up to the limit.
LEMMA NameIs ==
  ASSUME NEW name \in Seq(Byte), GoodName(name)
  PROVE  /\ NameBytes(name) = Upto(name, MAX_NAME_LEN)
         /\ Upto(name, MAX_NAME_LEN) \in Seq(Byte)
         /\ Len(Upto(name, MAX_NAME_LEN)) \in Byte /\ Len(Upto(name, MAX_NAME_LEN)) <= MAX_NAME_LEN
<1> DEFINE cut == Upto(name, MAX_NAME_LEN)
           P(n) == /\ n = 0 \/ ~Continuation(cut[n])
                   /\ \A k \in n + 1 .. Len(cut) : Continuation(cut[k])
           end == CHOOSE n \in 0 .. Len(cut) : P(n)
<1>1. cut \in Seq(Byte) /\ Len(cut) <= MAX_NAME_LEN
  BY LimitsAre, UptoIs, Zenon
<1>2. NameBytes(name) = SubSeq(cut, 1, end)
  BY Zenon DEF NameBytes
<1>3. cut = <<>> \/ ~Continuation(cut[Len(cut)])
  BY Zenon DEF GoodName, EndsWhole
<1> HIDE DEF cut
<1>4. Len(cut) \in Nat /\ Len(cut) \in Byte
  <2>1. Len(cut) \in Nat
    BY <1>1, LenProperties, Zenon
  <2>2. MAX_NAME_LEN \in Byte
    BY LimitsAre, Zenon
  <2> DEFINE n == Len(cut)
  <2>3. n \in Nat /\ n <= MAX_NAME_LEN
    BY <1>1, <2>1, Zenon
  <2> HIDE DEF n
  <2>4. n \in Byte
    BY <2>2, <2>3 DEF Byte
  <2> QED
    BY <2>1, <2>4, Zenon DEF n
<1>5. /\ Len(cut) \in 0 .. Len(cut) /\ Len(cut) + 1 .. Len(cut) = {}
      /\ (\A n \in 0 .. Len(cut) : n = Len(cut) \/ Len(cut) \in n + 1 .. Len(cut))
      /\ (cut = <<>> => Len(cut) = 0)
  BY <1>4
<1>6. P(Len(cut))
  BY <1>3, <1>5, Zenon
<1>7. ASSUME NEW n \in 0 .. Len(cut), P(n) PROVE n = Len(cut)
  <2>1. CASE cut = <<>>
    BY <1>4, <1>5, <2>1
  <2>2. CASE ~Continuation(cut[Len(cut)])
    BY <1>5, <1>7, <2>2, Zenon
  <2> QED
    BY <1>3, <2>1, <2>2, Zenon
<1>8. end = Len(cut)
  <2>1. end \in 0 .. Len(cut) /\ P(end)
    <3> HIDE DEF P
    <3> QED
      BY <1>5, <1>6, Zenon
  <2> QED
    BY <1>7, <2>1, Zenon
<1>9. SubSeq(cut, 1, Len(cut)) = cut
  BY <1>1, SubSeqFull, Zenon
<1> HIDE DEF end
<1> QED
  BY <1>1, <1>2, <1>4, <1>8, <1>9, Zenon DEF cut

\* ASCII is good.
LEMMA AsciiIsGood ==
  ASSUME NEW name \in Seq(0 .. 127)
  PROVE  name \in Seq(Byte) /\ GoodName(name)
<1> DEFINE cut == Upto(name, MAX_NAME_LEN)
           A == 0 .. 127
<1>1. name \in Seq(Byte)
  <2>1. A \subseteq Byte
    BY DEF Byte
  <2> QED
    BY <2>1, SeqMonotonic, Zenon
<1>2. cut \in Seq(A)
  BY LimitsAre, UptoIs, Zenon
<1> HIDE DEF cut
<1>3. \A i \in 1 .. Len(cut) : cut[i] \in A
  BY <1>2, ElementOfSeq, Zenon
<1>4. \A v \in A : ~Continuation(v) /\ Size(v) = 1
  BY DEF Continuation, Size
<1>5. Len(cut) \in Nat
  BY <1>2, LenProperties, Zenon
<1>6. Utf8(cut)
  <2> SUFFICES ASSUME NEW i \in 1 .. Len(cut)
               PROVE  /\ ~Continuation(cut[i]) /\ Size(cut[i]) > 0 /\ i + Size(cut[i]) - 1 <= Len(cut)
                      /\ \A j \in i + 1 .. i + Size(cut[i]) - 1 : Continuation(cut[j])
                      /\ ~(Size(cut[i]) > 1)
    BY Zenon DEF Utf8
  <2>1. ~Continuation(cut[i]) /\ Size(cut[i]) = 1
    BY <1>3, <1>4, Zenon
  <2>2. 1 > 0 /\ i + 1 - 1 <= Len(cut) /\ i + 1 .. i + 1 - 1 = {} /\ ~(1 > 1)
    BY <1>5
  <2> QED
    BY <2>1, <2>2, Zenon
<1>7. EndsWhole(cut)
  <2>1. cut = <<>> \/ Len(cut) \in 1 .. Len(cut)
    BY <1>2, <1>5, EmptySeq, SMT
  <2> QED
    BY <1>3, <1>4, <2>1, Zenon DEF EndsWhole
<1> QED
  BY <1>1, <1>6, <1>7, Zenon DEF GoodName, cut

\* A peer's entry e, field by field, at the head of r and before t.
PeerLaid(e, r, f, x, y, n, nb, t) ==
  /\ e \in Seq(Byte) /\ Len(e) = 22 + Len(nb)
  /\ r \in Seq(Byte) /\ Len(r) = 22 + Len(nb) + Len(t)
  /\ r[1] = f /\ r[22] = n
  /\ Field(r, 2, 4) = x /\ Field(r, 6, 16) = y /\ Field(r, 23, Len(nb)) = nb
  /\ From(r, 23 + Len(nb)) = t

\* Where the fields of a peer stand in its entry, and in a list that starts with it.
LEMMA PeerLayout ==
  ASSUME NEW o \in Octets(1), NEW x \in Octets(4), NEW y \in Octets(16), NEW q \in Octets(1),
         NEW nb \in Seq(Byte), NEW t \in Seq(Byte), NEW e, e = o \o x \o y \o q \o nb,
         NEW r, r = e \o t
  PROVE  PeerLaid(e, r, o[1], x, y, q[1], nb, t)
<1> DEFINE z == o \o x \o y
           w == z \o q
<1>1. o \in Seq(Byte) /\ x \in Seq(Byte) /\ y \in Seq(Byte) /\ q \in Seq(Byte)
  BY Zenon DEF Octets
<1>2. Len(o) = 1 /\ Len(x) = 4 /\ Len(y) = 16 /\ Len(q) = 1
  BY Zenon DEF Octets
<1>3. e = w \o nb
  BY Zenon
<1>4. /\ z \in Seq(Byte) /\ Len(z) = Len(o) + Len(x) + Len(y)
      /\ Carries(z, 0, o) /\ Carries(z, Len(o), x) /\ Carries(z, Len(o) + Len(x), y)
  BY <1>1, ThreePieces, Zenon
<1>5. Len(z) = 21 /\ Carries(z, 1, x) /\ Carries(z, 5, y) /\ 0 \in Nat /\ 1 \in Nat /\ 5 \in Nat /\ 21 \in Nat /\ 22 \in Nat
  BY <1>2, <1>4, SMT
<1>6. z \in Seq(Byte) /\ Carries(z, 0, o)
  BY <1>4, Zenon
<1> HIDE DEF z
<1>7. w \in Seq(Byte) /\ Len(w) = 21 + Len(q) /\ Carries(w, 21, q)
  BY <1>1, <1>5, <1>6, PieceAdded, Zenon
<1>8. Carries(w, 0, o)
  BY <1>1, <1>5, <1>6, ConcatKeeps, Zenon
<1>9. Carries(w, 1, x)
  BY <1>1, <1>5, <1>6, ConcatKeeps, Zenon
<1>10. Carries(w, 5, y)
  BY <1>1, <1>5, <1>6, ConcatKeeps, Zenon
<1>11. Len(w) = 22
  BY <1>2, <1>7
<1> HIDE DEF w
<1>12. r = w \o nb \o t
  BY <1>3, Zenon
<1> DEFINE v == nb \o t
<1>13. r = w \o v
  BY <1>7, <1>12, Regroup, Zenon
<1>14. v \in Seq(Byte) /\ Len(v) = Len(nb) + Len(t) /\ Carries(v, 0, nb)
  BY ConcatCarries, Zenon
<1> HIDE DEF v
<1>15. w \o v \in Seq(Byte) /\ Len(w \o v) = 22 + Len(v)
  BY <1>5, <1>7, <1>11, <1>14, PieceAdded, Zenon
<1>16. Carries(w \o v, 0, o)
  BY <1>1, <1>5, <1>7, <1>8, <1>14, ConcatKeeps, Zenon
<1>17. Carries(w \o v, 1, x)
  BY <1>1, <1>5, <1>7, <1>9, <1>14, ConcatKeeps, Zenon
<1>18. Carries(w \o v, 5, y)
  BY <1>1, <1>5, <1>7, <1>10, <1>14, ConcatKeeps, Zenon
<1>19. Carries(w \o v, 21, q)
  BY <1>1, <1>5, <1>7, <1>14, ConcatKeeps, Zenon
<1>20. Len(nb) \in Nat /\ Len(t) \in Nat
  BY LenProperties, Zenon
<1>21. e \in Seq(Byte) /\ Len(e) = 22 + Len(nb) /\ Carries(e, 22, nb)
  <2>1. w \o nb \in Seq(Byte) /\ Len(w \o nb) = 22 + Len(nb) /\ Carries(w \o nb, 22, nb)
    BY <1>5, <1>7, <1>11, PieceAdded, Zenon
  <2> QED
    BY <1>3, <2>1, Zenon
<1>22. Carries(r, 22, nb)
  BY <1>5, <1>21, ConcatKeeps, Zenon
<1>23. /\ r \in Seq(Byte) /\ Len(r) = 22 + Len(v) /\ Carries(r, 0, o) /\ Carries(r, 1, x)
       /\ Carries(r, 5, y) /\ Carries(r, 21, q)
  BY <1>13, <1>15, <1>16, <1>17, <1>18, <1>19, Zenon
<1>24. Len(r) = 22 + Len(nb) + Len(t)
  BY <1>14, <1>20, <1>23
<1>25. r[1] = o[1] /\ r[22] = q[1]
  <2>1. (\A i \in 1 .. Len(o) : r[0 + i] = o[i]) /\ \A i \in 1 .. Len(q) : r[21 + i] = q[i]
    BY <1>23, Zenon DEF Carries
  <2>2. 1 \in 1 .. Len(o) /\ 1 \in 1 .. Len(q)
    BY <1>2
  <2>3. r[0 + 1] = o[1] /\ r[21 + 1] = q[1]
    BY <2>1, <2>2, Zenon
  <2>4. 0 + 1 = 1 /\ 21 + 1 = 22
    OBVIOUS
  <2> QED
    BY <2>3, <2>4, Zenon
<1>26. Field(r, 1 + 1, Len(x)) = x
  BY <1>1, <1>5, <1>23, FieldIs, Zenon
<1>27. Field(r, 5 + 1, Len(y)) = y
  BY <1>1, <1>5, <1>23, FieldIs, Zenon
<1>28. Field(r, 22 + 1, Len(nb)) = nb
  BY <1>1, <1>5, <1>22, <1>23, FieldIs, Zenon
<1>29. Field(r, 2, 4) = x /\ Field(r, 6, 16) = y /\ Field(r, 23, Len(nb)) = nb
  BY <1>2, <1>26, <1>27, <1>28, SMT
<1>30. From(r, Len(e) + 1) = t
  BY <1>21, FromIs, Zenon
<1>31. Len(e) + 1 = 23 + Len(nb)
  BY <1>20, <1>21
<1> QED
  BY <1>21, <1>23, <1>24, <1>25, <1>29, <1>30, <1>31, Zenon DEF PeerLaid

-----------------------------------------------------------------------------
(* An entry of the peer list.                                              *)

\* The unspecified IPv6 address stands for none, and none for it.
LEMMA Ip6Is ==
  /\ \A ip \in OptIp6 : Ip6(ip) \in Octets(16) /\ Specified(Ip6(ip)) \in OptIp6
  /\ \A x \in Octets(16) : /\ Specified(x) \in OptIp6 /\ x # None
                           /\ Specified(Ip6(Specified(x))) = Specified(x)
  /\ Ip6(None) = Unspecified /\ Specified(Unspecified) = None
<1>1. Unspecified \in Octets(16)
  BY DEF Unspecified, Wide, Octets, Byte
<1>2. \A x \in Octets(16) : x # None
  BY CodecAssumption, Zenon DEF Octets
<1>3. Ip6(None) = Unspecified /\ Specified(Unspecified) = None
  BY Zenon DEF Ip6, Specified
<1>4. \A x \in Octets(16) : Specified(x) \in OptIp6 /\ Ip6(x) = x
  BY <1>2, Zenon DEF Specified, Ip6, OptIp6
<1>5. \A ip \in OptIp6 : Ip6(ip) \in Octets(16)
  BY <1>1, <1>2, Zenon DEF Ip6, OptIp6
<1>6. \A x \in Octets(16) : Specified(Ip6(Specified(x))) = Specified(x)
  <2> TAKE x \in Octets(16)
  <2>1. CASE x = Unspecified
    BY <1>3, <2>1, Zenon
  <2>2. CASE x # Unspecified
    BY <1>4, <2>2, Zenon DEF Specified
  <2> QED
    BY <2>1, <2>2, Zenon
<1> QED
  BY <1>2, <1>3, <1>4, <1>5, <1>6, Zenon

\* A peer as it is received.
NormalPeer(p) ==
  [name |-> Upto(p.name, MAX_NAME_LEN), ip4 |-> p.ip4, ip6 |-> Specified(Ip6(p.ip6))]

\* The fields of a peer, and what a receiver may hold instead of it.
LEMMA PeerIs ==
  ASSUME NEW p \in PeerEntry
  PROVE  /\ p.name \in Seq(Byte) /\ p.ip4 \in Octets(4) /\ p.ip6 \in OptIp6
         /\ p = [name |-> p.name, ip4 |-> p.ip4, ip6 |-> p.ip6]
         /\ NormalPeer(p) = [p EXCEPT !.name = Upto(p.name, MAX_NAME_LEN), !.ip6 = Specified(Ip6(p.ip6))]
         /\ NormalPeer(p) \in PeerEntry
<1>1. p.name \in Seq(Byte) /\ p.ip4 \in Octets(4) /\ p.ip6 \in OptIp6
  BY Zenon DEF PeerEntry
<1>2. p = [name |-> p.name, ip4 |-> p.ip4, ip6 |-> p.ip6]
  BY Zenon DEF PeerEntry
<1> DEFINE u == Upto(p.name, MAX_NAME_LEN)
           v == Specified(Ip6(p.ip6))
           q == [p EXCEPT !.name = u, !.ip6 = v]
<1>3. u \in Seq(Byte) /\ v \in OptIp6
  BY <1>1, LimitsAre, UptoIs, Ip6Is, Zenon
<1>4. NormalPeer(p) = [name |-> u, ip4 |-> p.ip4, ip6 |-> v]
  BY Zenon DEF NormalPeer
<1> HIDE DEF u, v
<1>5. q = [name |-> u, ip4 |-> p.ip4, ip6 |-> v]
  <2>1. \A a, b, c : [[name |-> a, ip4 |-> b, ip6 |-> c] EXCEPT !.name = u, !.ip6 = v]
                       = [name |-> u, ip4 |-> b, ip6 |-> v]
    <3> TAKE a, b, c
    <3> DEFINE d == [name |-> a, ip4 |-> b, ip6 |-> c]
    <3>1. [d EXCEPT !.name = u] = [name |-> u, ip4 |-> b, ip6 |-> c]
      OBVIOUS
    <3>2. [[name |-> u, ip4 |-> b, ip6 |-> c] EXCEPT !.ip6 = v] = [name |-> u, ip4 |-> b, ip6 |-> v]
      OBVIOUS
    <3>3. [d EXCEPT !.name = u, !.ip6 = v] = [[d EXCEPT !.name = u] EXCEPT !.ip6 = v]
      OBVIOUS
    <3> QED
      BY <3>1, <3>2, <3>3, Zenon
  <2> DEFINE a == p.name
             b == p.ip4
             c == p.ip6
  <2>2. p = [name |-> a, ip4 |-> b, ip6 |-> c]
    BY <1>2, Zenon
  <2> HIDE DEF a, b, c
  <2>3. q = [name |-> u, ip4 |-> b, ip6 |-> v]
    BY <2>1, <2>2, Zenon
  <2> QED
    BY <2>3, Zenon DEF b
<1>6. [name |-> u, ip4 |-> p.ip4, ip6 |-> v] \in PeerEntry
  BY <1>1, <1>3, Zenon DEF PeerEntry
<1> QED
  BY <1>1, <1>2, <1>4, <1>5, <1>6, Zenon DEF u, v

\* An entry, field by field.
LEMMA PeerBytesAre ==
  ASSUME NEW p \in PeerEntry, GoodName(p.name), NEW t \in Seq(Byte),
         NEW nb, nb = Upto(p.name, MAX_NAME_LEN), NEW r, r = PeerBytes(p) \o t
  PROVE  /\ PeerLaid(PeerBytes(p), r, Flag(p.ip6 # None), p.ip4, Ip6(p.ip6), Len(nb), nb, t)
         /\ nb \in Seq(Byte) /\ Len(nb) \in Byte /\ Len(nb) <= MAX_NAME_LEN /\ Utf8(nb)
<1> DEFINE f == Flag(p.ip6 # None)
           n == Len(nb)
           o == <<f>>
           q == <<n>>
           x == p.ip4
           y == Ip6(p.ip6)
           e == PeerBytes(p)
<1>1. p.name \in Seq(Byte) /\ x \in Octets(4) /\ p.ip6 \in OptIp6
  BY PeerIs, Zenon
<1>2. y \in Octets(16)
  BY <1>1, Ip6Is, Zenon
<1>3. NameBytes(p.name) = nb /\ nb \in Seq(Byte) /\ n \in Byte /\ n <= MAX_NAME_LEN
  BY <1>1, NameIs, Zenon
<1>4. e = o \o x \o y \o q \o nb
  BY <1>3, Zenon DEF PeerBytes
<1>5. f \in Byte
  BY DEF Flag, Byte
<1>6. Utf8(nb)
  BY Zenon DEF GoodName
<1> HIDE DEF f, n, x, y, e
<1>7. o \in Octets(1) /\ q \in Octets(1) /\ o[1] = f /\ q[1] = n
  BY <1>3, <1>5 DEF Octets
<1> HIDE DEF o, q
<1>8. r = e \o t
  BY Zenon DEF e
<1>9. PeerLaid(e, r, o[1], x, y, q[1], nb, t)
  BY <1>1, <1>2, <1>3, <1>4, <1>7, <1>8, PeerLayout, Zenon
<1> QED
  BY <1>3, <1>6, <1>7, <1>9, Zenon DEF e, f, n, x, y

\* The state of the peer loop.
PeerState == [rest : Seq(Byte), peers : Seq(PeerEntry)]

\* An entry is read as it was written.
LEMMA PeerIsRead ==
  ASSUME NEW p \in PeerEntry, GoodName(p.name), NEW t \in Seq(Byte), NEW ps \in Seq(PeerEntry)
  PROVE  PeerStep([rest |-> PeerBytes(p) \o t, peers |-> ps])
           = [rest |-> t, peers |-> Append(ps, NormalPeer(p))]
<1> DEFINE r == PeerBytes(p) \o t
           nb == Upto(p.name, MAX_NAME_LEN)
           st == [rest |-> r, peers |-> ps]
           n == Len(nb)
<1>1. /\ r \in Seq(Byte) /\ Len(r) = 22 + Len(nb) + Len(t)
      /\ r[1] = Flag(p.ip6 # None) /\ r[22] = Len(nb)
      /\ Field(r, 2, 4) = p.ip4 /\ Field(r, 6, 16) = Ip6(p.ip6) /\ Field(r, 23, Len(nb)) = nb
      /\ From(r, 23 + Len(nb)) = t
      /\ nb \in Seq(Byte) /\ Len(nb) \in Byte /\ Len(nb) <= MAX_NAME_LEN /\ Utf8(nb)
  <2>1. /\ PeerLaid(PeerBytes(p), r, Flag(p.ip6 # None), p.ip4, Ip6(p.ip6), Len(nb), nb, t)
        /\ nb \in Seq(Byte) /\ Len(nb) \in Byte /\ Len(nb) <= MAX_NAME_LEN /\ Utf8(nb)
    BY PeerBytesAre, Zenon
  <2> HIDE DEF r, nb
  <2> QED
    BY <2>1, Zenon DEF PeerLaid
<1> HIDE DEF r, nb
<1>2. st # None /\ st.rest = r /\ st.peers = ps
  <2>1. st \in [rest : Seq(Byte), peers : Seq(PeerEntry)] /\ st.rest = r /\ st.peers = ps
    BY <1>1, Zenon
  <2> HIDE DEF st
  <2> QED
    BY <2>1, CodecAssumption, Zenon
<1>3. Len(t) \in Nat /\ MAX_NAME_LEN \in Nat
  BY LenProperties, LimitsAre, Zenon
<1>4. ~(Len(r) < 22) /\ ~(r[22] > MAX_NAME_LEN) /\ ~(Len(r) < 22 + r[22])
  <2>1. Len(r) = 22 + n + Len(t) /\ r[22] = n /\ n \in Byte /\ n <= MAX_NAME_LEN
    BY <1>1, Zenon
  <2> DEFINE lr == Len(r)
             lt == Len(t)
  <2>2. lr = 22 + n + lt /\ lt \in Nat
    BY <1>3, <2>1, Zenon
  <2> HIDE DEF n, lr, lt
  <2>3. ~(lr < 22) /\ ~(n > MAX_NAME_LEN) /\ ~(lr < 22 + n)
    BY <1>3, <2>1, <2>2 DEF Byte
  <2> QED
    BY <2>1, <2>3, Zenon DEF lr
<1>5. Utf8(Field(r, 23, r[22])) /\ Field(r, 23, r[22]) = nb /\ From(r, 23 + r[22]) = t
  BY <1>1, Zenon
<1>6. (IF Low(r[1]) THEN Specified(Field(r, 6, 16)) ELSE None) = Specified(Ip6(p.ip6))
  <2>1. Low(Flag(TRUE)) /\ ~Low(Flag(FALSE))
    BY DEF Low, Flag
  <2>2. CASE p.ip6 # None
    <3>1. (p.ip6 # None) = TRUE
      BY <2>2, Zenon
    <3>2. r[1] = Flag(TRUE)
      BY <1>1, <3>1, Zenon
    <3> QED
      BY <1>1, <2>1, <3>2, Zenon
  <2>3. CASE p.ip6 = None
    <3>1. (p.ip6 # None) = FALSE
      BY <2>3, Zenon
    <3>2. r[1] = Flag(FALSE)
      BY <1>1, <3>1, Zenon
    <3> QED
      BY <2>1, <2>3, <3>2, Ip6Is, Zenon
  <2> QED
    BY <2>2, <2>3, Zenon
<1> HIDE DEF st
<1>7. PeerStep(st) = [rest |-> From(r, 23 + r[22]),
          peers |-> Append(st.peers,
              [name |-> Field(r, 23, r[22]), ip4 |-> Field(r, 2, 4),
               ip6 |-> IF Low(r[1]) THEN Specified(Field(r, 6, 16)) ELSE None])]
  BY <1>2, <1>4, <1>5, Zenon DEF PeerStep
<1>8. PeerStep(st) = [rest |-> t, peers |-> Append(ps, [name |-> nb, ip4 |-> p.ip4, ip6 |-> Specified(Ip6(p.ip6))])]
  <2> DEFINE i6 == IF Low(r[1]) THEN Specified(Field(r, 6, 16)) ELSE None
  <2>1. PeerStep(st) = [rest |-> From(r, 23 + r[22]),
          peers |-> Append(st.peers, [name |-> Field(r, 23, r[22]), ip4 |-> Field(r, 2, 4), ip6 |-> i6])]
    BY <1>7, Zenon
  <2>2. i6 = Specified(Ip6(p.ip6))
    BY <1>6, Zenon
  <2> HIDE DEF i6
  <2> QED
    BY <1>1, <1>2, <1>5, <2>1, <2>2, Zenon
<1> QED
  BY <1>8, Zenon DEF NormalPeer, st, r, nb

-----------------------------------------------------------------------------
(* The loop over the peers.                                                *)

\* The bytes a peer's entry takes, its name as it is.
PeerSize(p) == 22 + Len(p.name)

\* What the peer loop takes: a peer that is received as it is, and the bytes it took.
Received(p) == NormalPeer(p) = p /\ Utf8(p.name) /\ Len(p.name) <= MAX_NAME_LEN

\* A peer taken from a list is a peer, and uses up the bytes its entry would have.
LEMMA PeerIsTaken ==
  ASSUME NEW st \in PeerState, PeerStep(st) # None
  PROVE  /\ PeerStep(st) \in PeerState
         /\ \E p \in PeerEntry : /\ Received(p)
                            /\ PeerStep(st).peers = Append(st.peers, p)
                            /\ Len(st.rest) = PeerSize(p) + Len(PeerStep(st).rest)
<1> DEFINE r == st.rest
           n == r[22]
           nm == Field(r, 23, n)
           i4 == Field(r, 2, 4)
           w == Field(r, 6, 16)
           i6 == IF Low(r[1]) THEN Specified(w) ELSE None
           p == [name |-> nm, ip4 |-> i4, ip6 |-> i6]
           t == From(r, 23 + n)
           ps == st.peers
           nx == PeerStep(st)
<1>1. r \in Seq(Byte) /\ ps \in Seq(PeerEntry)
  BY Zenon DEF PeerState
<1>2. st # None
  BY CodecAssumption, Zenon DEF PeerState
<1>3. /\ ~(Len(r) < 22) /\ ~(n > MAX_NAME_LEN) /\ ~(Len(r) < 22 + n) /\ Utf8(nm)
      /\ nx = [rest |-> t, peers |-> Append(ps, p)]
  BY <1>2, Zenon DEF PeerStep
<1>4. Len(r) \in Nat
  BY <1>1, LenProperties, Zenon
<1>5. n \in Byte
  <2>1. 22 \in 1 .. Len(r)
    BY <1>3, <1>4
  <2> QED
    BY <1>1, <2>1, ElementOfSeq, Zenon
<1>6. MAX_NAME_LEN \in Nat
  BY LimitsAre, Zenon
<1> HIDE DEF r, n
<1> DEFINE l == Len(r)
<1>7. /\ n \in Nat /\ n <= MAX_NAME_LEN /\ (23 + n) - 1 <= l /\ (2 + 4) - 1 <= l /\ (6 + 16) - 1 <= l
      /\ 23 + n \in Nat /\ 1 <= 23 + n /\ 23 + n <= l + 1
      /\ (l + 1) - (23 + n) = l - (22 + n)
  <2>1. l \in Nat /\ ~(l < 22) /\ ~(l < 22 + n) /\ ~(n > MAX_NAME_LEN)
    BY <1>3, <1>4, Zenon
  <2> HIDE DEF l
  <2> QED
    BY <1>5, <1>6, <2>1 DEF Byte
<1>8. /\ 23 \in Nat /\ 1 <= 23 /\ 2 \in Nat /\ 1 <= 2 /\ 6 \in Nat /\ 1 <= 6 /\ 4 \in Nat /\ 16 \in Nat
  OBVIOUS
<1>9. nm \in Seq(Byte) /\ Len(nm) = n
  BY <1>1, <1>7, <1>8, FieldOf, Zenon
<1>10. i4 \in Seq(Byte) /\ Len(i4) = 4
  BY <1>1, <1>7, <1>8, FieldOf, Zenon
<1>11. w \in Seq(Byte) /\ Len(w) = 16
  BY <1>1, <1>7, <1>8, FieldOf, Zenon
<1>12. t \in Seq(Byte) /\ Len(t) = (l + 1) - (23 + n)
  BY <1>1, <1>7, FromOf, Zenon
<1> HIDE DEF nm, i4, w, t
<1>13. i4 \in Octets(4) /\ w \in Octets(16)
  BY <1>10, <1>11, Zenon DEF Octets
<1>14. i6 \in OptIp6 /\ Specified(Ip6(i6)) = i6
  <2>1. CASE Low(r[1])
    BY <1>13, <2>1, Ip6Is, Zenon
  <2>2. CASE ~Low(r[1])
    <3>1. None \in OptIp6
      BY Zenon DEF OptIp6
    <3> QED
      BY <2>2, <3>1, Ip6Is, Zenon
  <2> QED
    BY <2>1, <2>2, Zenon
<1> HIDE DEF i6
<1>15. p \in PeerEntry /\ p.name = nm /\ p.ip4 = i4 /\ p.ip6 = i6
  BY <1>9, <1>13, <1>14, Zenon DEF PeerEntry
<1>16. p = [name |-> nm, ip4 |-> i4, ip6 |-> i6]
  BY Zenon
<1> HIDE DEF p
<1>17. Upto(nm, MAX_NAME_LEN) = nm
  BY <1>6, <1>7, <1>9, UptoIs, Zenon
<1>18. Received(p)
  <2>1. NormalPeer(p) = [name |-> Upto(nm, MAX_NAME_LEN), ip4 |-> i4, ip6 |-> Specified(Ip6(i6))]
    BY <1>15, Zenon DEF NormalPeer
  <2>2. NormalPeer(p) = p
    BY <1>14, <1>16, <1>17, <2>1, Zenon
  <2> QED
    BY <1>3, <1>7, <1>9, <1>15, <2>2, Zenon DEF Received
<1>19. Append(ps, p) \in Seq(PeerEntry)
  BY <1>1, <1>15, Appended, Zenon
<1>20. nx \in PeerState /\ nx.peers = Append(ps, p) /\ nx.rest = t
  <2> DEFINE qs == Append(ps, p)
             rec == [rest |-> t, peers |-> qs]
  <2>1. nx = rec /\ qs \in Seq(PeerEntry)
    BY <1>3, <1>19, Zenon
  <2> HIDE DEF qs, nx
  <2>2. rec \in PeerState /\ rec.peers = qs /\ rec.rest = t
    BY <1>12, <2>1, Zenon DEF PeerState
  <2> HIDE DEF rec
  <2> QED
    BY <2>1, <2>2, Zenon DEF qs
<1> HIDE DEF nx
<1>21. PeerSize(p) = 22 + n
  BY <1>9, <1>15, Zenon DEF PeerSize
<1>22. l = PeerSize(p) + Len(t)
  <2>1. l \in Nat
    BY <1>4, Zenon
  <2> HIDE DEF l
  <2> QED
    BY <1>7, <1>12, <1>21, <2>1
<1>23. Len(st.rest) = PeerSize(p) + Len(nx.rest)
  BY <1>20, <1>22, Zenon DEF r
<1> QED
  BY <1>15, <1>18, <1>20, <1>23, Zenon DEF nx, ps

\* The loop over the peers is a function of the number of entries read.
LEMMA PeerLoop ==
  ASSUME NEW b \in Seq(Byte), NEW count \in Nat
  PROVE  \E step \in [0 .. count -> PeerState \cup {None}] :
           /\ step[0] = [rest |-> b, peers |-> <<>>]
           /\ \A k \in 1 .. count : step[k] = PeerStep(step[k - 1])
           /\ ParsePeers(b, count) = IF step[count] = None THEN None
                                     ELSE IF step[count].rest # <<>> THEN None
                                     ELSE step[count].peers
<1> DEFINE S == PeerState \cup {None}
           first == [rest |-> b, peers |-> <<>>]
           up == [e \in S \X (1 .. count) |-> PeerStep(e[1])]
           step == CHOOSE f : f = [k \in 0 .. count |-> IF k = 0 THEN first ELSE PeerStep(f[k - 1])]
<1>1. first \in S
  <2>1. <<>> \in Seq(PeerEntry)
    OBVIOUS
  <2> QED
    BY <2>1, Zenon DEF PeerState
<1>2. \A x \in S : PeerStep(x) \in S
  <2>1. PeerStep(None) = None
    BY Zenon DEF PeerStep
  <2> QED
    BY <2>1, PeerIsTaken, Zenon
<1>3. ParsePeers(b, count) = IF step[count] = None THEN None
                             ELSE IF step[count].rest # <<>> THEN None ELSE step[count].peers
  BY Zenon DEF ParsePeers
<1> HIDE DEF S, first
<1>4. up \in [S \X (1 .. count) -> S]
  BY <1>2, Zenon
<1>5. \A x \in S, i \in 1 .. count : up[<<x, i>>] = PeerStep(x)
  BY Zenon
<1> HIDE DEF up
<1>6. PICK f : f \in [0 .. count -> S] /\ f[0] = first /\ \A i \in 1 .. count : f[i] = up[<<f[i - 1], i>>]
  <2>1. \E f : Iterates(f, count, S, first, up)
    BY <1>1, <1>4, Iteration, Zenon
  <2> QED
    BY <2>1, Zenon DEF Iterates
<1>7. /\ \A k \in 0 .. count : k = 0 \/ (k \in 1 .. count /\ k - 1 \in 0 .. count)
      /\ \A k \in 1 .. count : k \in 0 .. count /\ k # 0 /\ k - 1 \in 0 .. count
      /\ 0 \in 0 .. count
  OBVIOUS
<1>8. step = [k \in 0 .. count |-> IF k = 0 THEN first ELSE PeerStep(step[k - 1])]
  <2>1. ASSUME NEW i \in 0 .. count PROVE f[i] = IF i = 0 THEN first ELSE PeerStep(f[i - 1])
    BY <1>5, <1>6, <1>7, Zenon
  <2>2. f = [k \in 0 .. count |-> IF k = 0 THEN first ELSE PeerStep(f[k - 1])]
    BY <1>6, <2>1, Zenon
  <2> QED
    BY <2>2, Zenon
<1> HIDE DEF step
<1>9. step[0] = first /\ \A i \in 1 .. count : step[i] = PeerStep(step[i - 1])
  BY <1>7, <1>8, Zenon
<1>10. step \in [0 .. count -> S]
  <2> DEFINE G == {k \in 0 .. count : step[k] \in S}
  <2>1. 0 \in G
    BY <1>1, <1>7, <1>9, Zenon
  <2>2. ASSUME NEW k \in 0 .. count - 1, k \in G PROVE k + 1 \in G
    <3>1. k + 1 \in 1 .. count /\ k + 1 \in 0 .. count /\ (k + 1) - 1 = k
      OBVIOUS
    <3>2. step[k + 1] = PeerStep(step[(k + 1) - 1])
      BY <1>9, <3>1, Zenon
    <3> QED
      BY <1>2, <2>2, <3>1, <3>2, Zenon
  <2>3. \A k \in 0 .. count : k \in G
    <3> HIDE DEF G
    <3> QED
      BY <2>1, <2>2, CountUp, Zenon
  <2> QED
    BY <1>8, <2>3, Zenon
<1> QED
  BY <1>3, <1>9, <1>10, Zenon DEF S, first

-----------------------------------------------------------------------------
(* Lists of peers.                                                         *)

\* What is written for a peer, whatever follows.
LEMMA PeerBytesIs ==
  ASSUME NEW p \in PeerEntry, GoodName(p.name)
  PROVE  PeerBytes(p) \in Seq(Byte) /\ Len(PeerBytes(p)) = 22 + Len(Upto(p.name, MAX_NAME_LEN))
<1> DEFINE t == <<>>
           nb == Upto(p.name, MAX_NAME_LEN)
           r == PeerBytes(p) \o t
<1>1. t \in Seq(Byte)
  OBVIOUS
<1> HIDE DEF t
<1>2. PeerLaid(PeerBytes(p), r, Flag(p.ip6 # None), p.ip4, Ip6(p.ip6), Len(nb), nb, t)
  BY <1>1, PeerBytesAre, Zenon
<1> HIDE DEF r, nb
<1> QED
  BY <1>2, Zenon DEF PeerLaid, nb

\* A name within the limit that ends whole is written as it is.
LEMMA WholeIsGood ==
  ASSUME NEW p \in PeerEntry, Received(p), EndsWhole(p.name)
  PROVE  GoodName(p.name) /\ Len(PeerBytes(p)) = PeerSize(p)
<1>1. p.name \in Seq(Byte) /\ Len(p.name) <= MAX_NAME_LEN /\ Utf8(p.name)
  BY PeerIs, Zenon DEF Received
<1>2. Upto(p.name, MAX_NAME_LEN) = p.name
  BY <1>1, LimitsAre, UptoIs, Zenon
<1>3. GoodName(p.name)
  BY <1>1, <1>2, Zenon DEF GoodName
<1> QED
  BY <1>2, <1>3, PeerBytesIs, Zenon DEF PeerSize

\* The entries of a list of peers, one for each peer.
LEMMA PeerPartsAre ==
  ASSUME NEW ps \in Seq(PeerEntry), \A i \in 1 .. Len(ps) : GoodName(ps[i].name)
  PROVE  /\ Len(ps) \in Nat /\ \A i \in 1 .. Len(ps) : ps[i] \in PeerEntry
         /\ PeerParts(ps) \in Seq(Seq(Byte)) /\ Len(PeerParts(ps)) = Len(ps)
         /\ \A i \in 1 .. Len(ps) : PeerParts(ps)[i] = PeerBytes(ps[i])
<1> DEFINE n == Len(ps)
           p == PeerParts(ps)
<1>1. n \in Nat
  BY LenProperties, Zenon
<1>2. \A i \in 1 .. n : ps[i] \in PeerEntry
  BY ElementOfSeq, Zenon
<1>3. \A i \in 1 .. n : PeerBytes(ps[i]) \in Seq(Byte)
  BY <1>2, PeerBytesIs, Zenon
<1>4. p = [i \in 1 .. n |-> PeerBytes(ps[i])]
  BY Zenon DEF PeerParts
<1> HIDE DEF n, p
<1>5. p \in [1 .. n -> Seq(Byte)] /\ \A i \in 1 .. n : p[i] = PeerBytes(ps[i])
  BY <1>3, <1>4, Zenon
<1> DEFINE B == Seq(Byte)
<1>6. p \in [1 .. n -> B]
  BY <1>5, Zenon
<1> HIDE DEF B
<1>7. p \in Seq(B) /\ Len(p) = n
  BY <1>1, <1>6, SMT
<1> QED
  BY <1>1, <1>2, <1>5, <1>7, Zenon DEF n, p, B

\* The peers are read as they were written, entry by entry.
LEMMA PeersAreRead ==
  ASSUME NEW ps \in Seq(PeerEntry), \A i \in 1 .. Len(ps) : GoodName(ps[i].name)
  PROVE  /\ Joined(PeerParts(ps)) \in Seq(Byte)
         /\ ParsePeers(Joined(PeerParts(ps)), Len(ps))
              = [i \in 1 .. Len(ps) |-> NormalPeer(ps[i])]
         /\ [i \in 1 .. Len(ps) |-> NormalPeer(ps[i])] \in Seq(PeerEntry)
<1> DEFINE n == Len(ps)
           p == PeerParts(ps)
           b == Joined(p)
           want == [i \in 1 .. n |-> NormalPeer(ps[i])]
           sofar(k) == FirstOf(want, k)
<1>1. /\ n \in Nat /\ (\A i \in 1 .. n : ps[i] \in PeerEntry)
      /\ p \in Seq(Seq(Byte)) /\ Len(p) = n /\ \A i \in 1 .. n : p[i] = PeerBytes(ps[i])
  BY PeerPartsAre, Zenon
<1> HIDE DEF n, p
<1>2. PICK tl \in [0 .. n -> Seq(Byte)] :
        tl[0] = b /\ tl[n] = <<>> /\ \A k \in 0 .. n - 1 : tl[k] = p[k + 1] \o tl[k + 1]
  <2>1. \E tl \in [0 .. Len(p) -> Seq(Byte)] :
          tl[0] = b /\ tl[Len(p)] = <<>> /\ \A k \in 0 .. Len(p) - 1 : tl[k] = p[k + 1] \o tl[k + 1]
    BY <1>1, JoinedTails, Zenon
  <2> QED
    BY <1>1, <2>1, Zenon
<1>3. 0 \in 0 .. n /\ n \in 0 .. n
  BY <1>1
<1>4. b \in Seq(Byte)
  BY <1>2, <1>3, Zenon
<1> HIDE DEF b
<1>5. PICK step \in [0 .. n -> PeerState \cup {None}] :
           /\ step[0] = [rest |-> b, peers |-> <<>>]
           /\ \A k \in 1 .. n : step[k] = PeerStep(step[k - 1])
           /\ ParsePeers(b, n) = IF step[n] = None THEN None
                                  ELSE IF step[n].rest # <<>> THEN None ELSE step[n].peers
  BY <1>1, <1>4, PeerLoop, Zenon
<1>6. want \in [1 .. n -> PeerEntry] /\ \A i \in 1 .. n : want[i] = NormalPeer(ps[i])
  BY <1>1, PeerIs, Zenon
<1> HIDE DEF want
<1>7. want \in Seq(PeerEntry)
  BY <1>1, <1>6, SMT
<1>8. sofar(0) = <<>>
  BY SMT DEF FirstOf
<1>9. sofar(n) = want
  BY <1>6, Zenon DEF FirstOf
<1> DEFINE G == {k \in 0 .. n : step[k] = [rest |-> tl[k], peers |-> sofar(k)]}
<1>10. 0 \in G
  BY <1>2, <1>3, <1>5, <1>8, Zenon
<1>11. ASSUME NEW k \in 0 .. n - 1, k \in G PROVE k + 1 \in G
  <2>1. k + 1 \in 1 .. n /\ k + 1 \in 0 .. n /\ (k + 1) - 1 = k
    BY <1>1
  <2>2. step[k] = [rest |-> tl[k], peers |-> sofar(k)]
    BY <1>11, Zenon
  <2>3. tl[k] = PeerBytes(ps[k + 1]) \o tl[k + 1] /\ tl[k + 1] \in Seq(Byte)
    BY <1>1, <1>2, <2>1, Zenon
  <2>4. sofar(k) \in Seq(PeerEntry) /\ Append(sofar(k), want[k + 1]) = sofar(k + 1)
    <3>1. Extending(want, k, PeerEntry)
      BY <1>1, <1>6, OneMore, Zenon
    <3> QED
      BY <3>1, Zenon DEF Extending
  <2>5. want[k + 1] = NormalPeer(ps[k + 1]) /\ ps[k + 1] \in PeerEntry /\ GoodName(ps[k + 1].name)
    BY <1>1, <1>6, <2>1, Zenon DEF n
  <2>6. step[k + 1] = PeerStep(step[k])
    <3>1. step[k + 1] = PeerStep(step[(k + 1) - 1])
      BY <1>5, <2>1, Zenon
    <3> QED
      BY <2>1, <3>1, Zenon
  <2> DEFINE s == sofar(k)
             s2 == sofar(k + 1)
             e == ps[k + 1]
             t == tl[k + 1]
  <2> HIDE DEF sofar
  <2>7. PeerStep([rest |-> PeerBytes(e) \o t, peers |-> s]) = [rest |-> t, peers |-> Append(s, NormalPeer(e))]
    BY <2>3, <2>4, <2>5, PeerIsRead, Zenon
  <2>8. step[k + 1] = [rest |-> t, peers |-> s2]
    BY <2>2, <2>3, <2>4, <2>5, <2>6, <2>7, Zenon
  <2> QED
    BY <2>1, <2>8, Zenon
<1>12. n \in G
  <2> HIDE DEF G
  <2> QED
    BY <1>1, <1>3, <1>10, <1>11, CountUp, Zenon
<1>13. step[n] = [rest |-> <<>>, peers |-> want]
  BY <1>2, <1>9, <1>12, Zenon
<1>14. step[n] # None /\ step[n].rest = <<>> /\ step[n].peers = want
  <2>1. <<>> \in Seq(Byte)
    OBVIOUS
  <2> DEFINE em == <<>>
             z == [rest |-> em, peers |-> want]
  <2>2. step[n] = z /\ em \in Seq(Byte)
    BY <1>13, <2>1, Zenon
  <2> HIDE DEF em
  <2>3. z \in [rest : Seq(Byte), peers : Seq(PeerEntry)] /\ z.rest = em /\ z.peers = want
    BY <1>7, <2>2, Zenon
  <2> HIDE DEF z
  <2>4. z # None
    BY <2>3, CodecAssumption, Zenon
  <2> QED
    BY <2>2, <2>3, <2>4, Zenon DEF em
<1>15. ParsePeers(b, n) = want
  BY <1>5, <1>14, Zenon
<1> QED
  BY <1>4, <1>7, <1>15, Zenon DEF n, p, b, want

\* What the peer loop takes: that many peers, received as they are, which are written in
\* as many bytes when name_bytes leaves their names alone.
LEMMA PeersAreTaken ==
  ASSUME NEW b \in Seq(Byte), NEW count \in Nat, ParsePeers(b, count) # None
  PROVE  /\ ParsePeers(b, count) \in Seq(PeerEntry) /\ Len(ParsePeers(b, count)) = count
         /\ \A i \in 1 .. count : ParsePeers(b, count)[i] \in PeerEntry /\ Received(ParsePeers(b, count)[i])
         /\ (\A i \in 1 .. count : EndsWhole(ParsePeers(b, count)[i].name)) =>
              Len(Joined(PeerParts(ParsePeers(b, count)))) = Len(b)
<1>1. PICK step \in [0 .. count -> PeerState \cup {None}] :
           /\ step[0] = [rest |-> b, peers |-> <<>>]
           /\ \A k \in 1 .. count : step[k] = PeerStep(step[k - 1])
           /\ ParsePeers(b, count) = IF step[count] = None THEN None
                                  ELSE IF step[count].rest # <<>> THEN None ELSE step[count].peers
  BY PeerLoop, Zenon
<1> DEFINE R == ParsePeers(b, count)
           T == {net \in PeerEntry : Received(net)}
           lst == [k \in 0 .. count |-> step[k].peers]
           left == [k \in 0 .. count |-> Len(step[k].rest)]
           size == [net \in PeerEntry |-> PeerSize(net)]
<1>2. step[count] # None /\ step[count].rest = <<>> /\ R = step[count].peers
  BY <1>1, Zenon
<1>3. \A k \in 0 .. count : step[k] # None
  <2>1. \A k \in 1 .. count : step[k - 1] = None => step[k] = None
    BY <1>1, Zenon DEF PeerStep
  <2> QED
    BY <1>2, <2>1, NeverStopped, Zenon
<1>4. \A k \in 0 .. count : step[k] \in PeerState
  BY <1>3, Zenon
<1>5. \A k \in 0 .. count : step[k].peers \in Seq(PeerEntry) /\ step[k].rest \in Seq(Byte)
  BY <1>4, Zenon DEF PeerState
<1>6. \A k \in 0 .. count : Len(step[k].rest) \in Nat
  BY <1>5, LenProperties, Zenon
<1>7. lst \in [0 .. count -> Seq(PeerEntry)] /\ left \in [0 .. count -> Nat]
  BY <1>5, <1>6, Zenon
<1>8. \A net \in PeerEntry : PeerSize(net) \in Nat
  <2> TAKE net \in PeerEntry
  <2> DEFINE l == Len(net.name)
  <2>1. net.name \in Seq(Byte)
    BY PeerIs, Zenon
  <2>2. l \in Nat /\ PeerSize(net) = 22 + l
    BY <2>1, LenProperties, Zenon DEF PeerSize
  <2> HIDE DEF l
  <2> QED
    BY <2>2
<1>9. size \in [PeerEntry -> Nat] /\ T \in SUBSET PeerEntry
  BY <1>8, Zenon
<1>10. /\ 0 \in 0 .. count /\ count \in 0 .. count
       /\ \A k \in 1 .. count : k \in 0 .. count /\ k - 1 \in 0 .. count
  OBVIOUS
<1>11. /\ \A k \in 0 .. count : lst[k] = step[k].peers /\ left[k] = Len(step[k].rest)
       /\ \A net \in PeerEntry : size[net] = PeerSize(net)
  BY Zenon
<1> HIDE DEF lst, left, size
<1>12. Len(lst[0]) = 0 /\ left[0] = Len(b) /\ left[count] = 0 /\ lst[count] = R
  <2>1. step[0].peers = <<>> /\ step[0].rest = b
    <3> DEFINE em == <<>>
    <3>1. step[0] = [rest |-> b, peers |-> em]
      BY <1>1, Zenon
    <3> HIDE DEF em
    <3>2. step[0].peers = em /\ step[0].rest = b
      BY <3>1, SMT
    <3> QED
      BY <3>2, Zenon DEF em
  <2>2. Len(<<>>) = 0
    OBVIOUS
  <2> QED
    BY <1>2, <1>10, <1>11, <2>1, <2>2, Zenon
<1>13. ASSUME NEW k \in 1 .. count
       PROVE  \E e \in T : lst[k] = Append(lst[k - 1], e) /\ left[k - 1] = size[e] + left[k]
  <2>1. step[k - 1] \in PeerState /\ step[k] # None /\ step[k] = PeerStep(step[k - 1])
    BY <1>1, <1>3, <1>4, <1>10, Zenon
  <2> DEFINE o == step[k - 1]
             w == step[k]
  <2>2. \E net \in PeerEntry :
              /\ Received(net)
              /\ PeerStep(o).peers = Append(o.peers, net)
              /\ Len(o.rest) = PeerSize(net) + Len(PeerStep(o).rest)
    BY <2>1, PeerIsTaken, Zenon
  <2>3. PICK net \in PeerEntry :
              /\ Received(net)
              /\ w.peers = Append(o.peers, net)
              /\ Len(o.rest) = PeerSize(net) + Len(w.rest)
    BY <2>1, <2>2, Zenon
  <2>4. lst[k] = Append(lst[k - 1], net) /\ left[k - 1] = size[net] + left[k]
    BY <1>10, <1>11, <2>3, Zenon
  <2> QED
    BY <2>3, <2>4, Zenon
<1>14. Len(lst[count]) = count
       /\ \A k \in 1 .. count : lst[count][k] \in T /\ left[k - 1] = size[lst[count][k]] + left[k]
  <2>1. Len(lst[0]) = 0
    BY <1>12, Zenon
  <2> HIDE DEF T
  <2>2. Listed(lst[count], count, T, left, size)
    BY <1>7, <1>9, <1>13, <2>1, ListGrows, Zenon
  <2> QED
    BY <2>2, Zenon DEF Listed
<1>15. R \in Seq(PeerEntry) /\ Len(R) = count
       /\ \A k \in 1 .. count : R[k] \in T /\ left[k - 1] = size[R[k]] + left[k]
  BY <1>7, <1>10, <1>12, <1>14, Zenon
<1> HIDE DEF R
<1>16. ASSUME \A i \in 1 .. count : EndsWhole(R[i].name) PROVE Len(Joined(PeerParts(R))) = Len(b)
  <2> DEFINE p == PeerParts(R)
  <2>1. \A i \in 1 .. count : /\ R[i] \in PeerEntry /\ GoodName(R[i].name)
                              /\ Len(PeerBytes(R[i])) = PeerSize(R[i])
    BY <1>15, <1>16, WholeIsGood, Zenon
  <2>2. p \in Seq(Seq(Byte)) /\ Len(p) = count /\ \A i \in 1 .. count : p[i] = PeerBytes(R[i])
    BY <1>15, <2>1, PeerPartsAre, Zenon
  <2> HIDE DEF p
  <2>3. ASSUME NEW k \in 0 .. count - 1 PROVE left[k] = Len(p[k + 1]) + left[k + 1]
    <3>1. k + 1 \in 1 .. count /\ (k + 1) - 1 = k
      OBVIOUS
    <3>2. left[(k + 1) - 1] = size[R[k + 1]] + left[k + 1] /\ R[k + 1] \in PeerEntry
      BY <1>15, <3>1, Zenon
    <3>3. size[R[k + 1]] = Len(p[k + 1])
      BY <1>11, <2>1, <2>2, <3>1, Zenon
    <3> QED
      BY <3>1, <3>2, <3>3, Zenon
  <2>4. Len(Joined(p)) = left[0]
    BY <1>7, <1>12, <2>2, <2>3, JoinedLength, Zenon
  <2> QED
    BY <1>12, <2>4, Zenon DEF p
<1> QED
  BY <1>15, <1>16, Zenon DEF R

-----------------------------------------------------------------------------
(* Which encoder and which parser a message meets.                         *)

\* The type byte, once the payload is no keepalive.
Dispatch(b) ==
    CASE b[2] = 1 -> ParseAdvert(b)
      [] b[2] = 2 -> ParsePush(b)
      [] b[2] = 3 -> ParseAssignReq(b)
      [] b[2] = 4 -> ParseAssign(b)
      [] b[2] = 5 -> ParseName(b)
      [] b[2] = 6 -> ParsePeerPush(b)
      [] OTHER -> None

\* The type byte decides which parser reads a payload.
LEMMA DispatchIs ==
  ASSUME NEW b
  PROVE  /\ b[2] = 1 => Dispatch(b) = ParseAdvert(b)
         /\ b[2] = 2 => Dispatch(b) = ParsePush(b)
         /\ b[2] = 3 => Dispatch(b) = ParseAssignReq(b)
         /\ b[2] = 4 => Dispatch(b) = ParseAssign(b)
         /\ b[2] = 5 => Dispatch(b) = ParseName(b)
         /\ b[2] = 6 => Dispatch(b) = ParsePeerPush(b)
         /\ b[2] \notin {1, 2, 3, 4, 5, 6} => Dispatch(b) = None
<1> DEFINE x == b[2]
           A == ParseAdvert(b)
           B == ParsePush(b)
           C == ParseAssignReq(b)
           D == ParseAssign(b)
           E == ParseName(b)
           F == ParsePeerPush(b)
<1>1. Dispatch(b) = CASE x = 1 -> A [] x = 2 -> B [] x = 3 -> C [] x = 4 -> D [] x = 5 -> E
                      [] x = 6 -> F [] OTHER -> None
  BY Zenon DEF Dispatch
<1> HIDE DEF x, A, B, C, D, E, F
<1>2. /\ x = 1 => Dispatch(b) = A
      /\ x = 2 => Dispatch(b) = B
      /\ x = 3 => Dispatch(b) = C
      /\ x = 4 => Dispatch(b) = D
      /\ x = 5 => Dispatch(b) = E
      /\ x = 6 => Dispatch(b) = F
      /\ x \notin {1, 2, 3, 4, 5, 6} => Dispatch(b) = None
  BY <1>1, SMT
<1> QED
  BY <1>2, Zenon DEF x, A, B, C, D, E, F

\* A payload that is long enough not to be a keepalive.
LEMMA ControlIs ==
  ASSUME NEW b \in Seq(Byte), Len(b) > 1, Len(b) # 5, b[1] = 0
  PROVE  ParseControl(b) = Dispatch(b)
<1>1. b # <<>> /\ Len(b) # 1
  <2> DEFINE l == Len(b)
  <2>1. Len(<<>>) = 0
    OBVIOUS
  <2>2. l \in Nat /\ l > 1
    BY LenProperties, Zenon
  <2>3. b = <<>> => l = 0
    BY <2>1, Zenon
  <2> HIDE DEF l
  <2>4. l # 0 /\ l # 1
    BY <2>2
  <2> QED
    BY <2>3, <2>4, Zenon DEF l
<1> QED
  BY <1>1, Zenon DEF ParseControl, Dispatch

\* What a message's kind makes of it.
LEMMA EncodeIs ==
  ASSUME NEW m
  PROVE  /\ m.kind = "keepalive" => Encode(m) = <<0>> \o (IF m.ip = None THEN <<>> ELSE m.ip)
         /\ m.kind = "route_advert" =>
              Encode(m) = <<0, 1, Flag(m.accept)>> \o m.ip \o Ip6(m.ip6) \o RouteList(m.routes)
         /\ m.kind = "route_push" => Encode(m) = <<0, 2, 0>> \o RouteList(m.routes)
         /\ m.kind = "assign_req" => Encode(m) = <<0, 3, m.flags>> \o m.node \o m.ip \o Ip6(m.ip6)
         /\ m.kind = "assign" =>
              Encode(m) = <<0, 4, m.status>> \o m.ip \o m.mask \o m.peer \o Ip6(m.ip6)
                             \o <<m.plen6, m.flags>> \o m.ttl
         /\ m.kind = "name_advert" =>
              Encode(m) = <<0, 5, Flag(m.want)>> \o m.ip \o Ip6(m.ip6)
                             \o <<Len(NameBytes(m.name))>> \o NameBytes(m.name)
         /\ m.kind = "peer_push" => Encode(m) = <<0, 6, 0>> \o PeerList(m.peers)
<1> DEFINE x == m.kind
           A == <<0>> \o (IF m.ip = None THEN <<>> ELSE m.ip)
           B == <<0, 1, Flag(m.accept)>> \o m.ip \o Ip6(m.ip6) \o RouteList(m.routes)
           C == <<0, 2, 0>> \o RouteList(m.routes)
           D == <<0, 3, m.flags>> \o m.node \o m.ip \o Ip6(m.ip6)
           E == <<0, 4, m.status>> \o m.ip \o m.mask \o m.peer \o Ip6(m.ip6)
                             \o <<m.plen6, m.flags>> \o m.ttl
           F == <<0, 5, Flag(m.want)>> \o m.ip \o Ip6(m.ip6)
                             \o <<Len(NameBytes(m.name))>> \o NameBytes(m.name)
           G == <<0, 6, 0>> \o PeerList(m.peers)
<1>1. Encode(m) = CASE x = "keepalive" -> A [] x = "route_advert" -> B [] x = "route_push" -> C
                    [] x = "assign_req" -> D [] x = "assign" -> E [] x = "name_advert" -> F
                    [] x = "peer_push" -> G
  BY Zenon DEF Encode
<1> HIDE DEF x, A, B, C, D, E, F, G
<1>2. /\ x = "keepalive" => Encode(m) = A
      /\ x = "route_advert" => Encode(m) = B
      /\ x = "route_push" => Encode(m) = C
      /\ x = "assign_req" => Encode(m) = D
      /\ x = "assign" => Encode(m) = E
      /\ x = "name_advert" => Encode(m) = F
      /\ x = "peer_push" => Encode(m) = G
  BY <1>1, SMT
<1> QED
  BY <1>2, Zenon DEF x, A, B, C, D, E, F, G

\* The networks that are received.
Nets(s) == [i \in DOMAIN Upto(s, MAX_ROUTES) |-> Canonical(s[i])]
Peers(s) == [i \in DOMAIN Upto(s, MAX_PEERS) |->
                [s[i] EXCEPT !.name = Upto(s[i].name, MAX_NAME_LEN), !.ip6 = Specified(Ip6(s[i].ip6))]]

\* What a receiver may hold, kind by kind.
LEMMA NormalIs ==
  ASSUME NEW m
  PROVE  /\ m.kind = "keepalive" => Normal(m) = m
         /\ m.kind = "route_push" => Normal(m) = [m EXCEPT !.routes = Nets(m.routes)]
         /\ m.kind = "route_advert" =>
              Normal(m) = [m EXCEPT !.routes = Nets(m.routes), !.ip6 = Specified(Ip6(m.ip6))]
         /\ m.kind = "assign_req" => Normal(m) = [m EXCEPT !.ip6 = Specified(Ip6(m.ip6))]
         /\ m.kind = "assign" => Normal(m) = [m EXCEPT !.ip6 = IF m.plen6 = 0 THEN None ELSE Ip6(m.ip6)]
         /\ m.kind = "name_advert" =>
              Normal(m) = [m EXCEPT !.name = Upto(m.name, MAX_NAME_LEN), !.ip6 = Specified(Ip6(m.ip6))]
         /\ m.kind = "peer_push" => Normal(m) = [m EXCEPT !.peers = Peers(m.peers)]
<1> DEFINE x == m.kind
           B == [m EXCEPT !.routes = Nets(m.routes), !.ip6 = Specified(Ip6(m.ip6))]
           C == [m EXCEPT !.routes = Nets(m.routes)]
           D == [m EXCEPT !.ip6 = Specified(Ip6(m.ip6))]
           E == [m EXCEPT !.ip6 = IF m.plen6 = 0 THEN None ELSE Ip6(m.ip6)]
           F == [m EXCEPT !.name = Upto(m.name, MAX_NAME_LEN), !.ip6 = Specified(Ip6(m.ip6))]
           G == [m EXCEPT !.peers = Peers(m.peers)]
<1>1. Normal(m) = CASE x = "keepalive" -> m [] x = "route_push" -> C [] x = "route_advert" -> B
                    [] x = "assign_req" -> D [] x = "assign" -> E [] x = "name_advert" -> F
                    [] x = "peer_push" -> G
  BY Zenon DEF Normal, Nets, Peers
<1> HIDE DEF x, B, C, D, E, F, G
<1>2. /\ x = "keepalive" => Normal(m) = m
      /\ x = "route_advert" => Normal(m) = B
      /\ x = "route_push" => Normal(m) = C
      /\ x = "assign_req" => Normal(m) = D
      /\ x = "assign" => Normal(m) = E
      /\ x = "name_advert" => Normal(m) = F
      /\ x = "peer_push" => Normal(m) = G
  BY <1>1, SMT
<1> QED
  BY <1>2, Zenon DEF x, B, C, D, E, F, G

\* Entries of two bytes or more never make up one byte.
LEMMA NeverOne ==
  ASSUME NEW parts \in Seq(Seq(Byte)), \A i \in 1 .. Len(parts) : Len(parts[i]) >= 2
  PROVE  Len(Joined(parts)) # 1
<1>1. PICK tl \in [0 .. Len(parts) -> Seq(Byte)] :
           /\ tl[0] = Joined(parts) /\ tl[Len(parts)] = <<>>
           /\ \A k \in 0 .. Len(parts) - 1 : tl[k] = parts[k + 1] \o tl[k + 1]
  BY JoinedTails, Zenon
<1>2. Len(parts) \in Nat
  BY LenProperties, Zenon
<1>3. CASE Len(parts) = 0
  <2>1. tl[0] = <<>>
    BY <1>1, <1>3, Zenon
  <2>2. Len(<<>>) = 0 /\ 0 # 1
    OBVIOUS
  <2> QED
    BY <1>1, <2>1, <2>2, Zenon
<1>4. CASE Len(parts) # 0
  <2>1. 0 \in 0 .. Len(parts) - 1 /\ 0 + 1 = 1 /\ 1 \in 1 .. Len(parts) /\ 1 \in 0 .. Len(parts)
    BY <1>2, <1>4
  <2> DEFINE x == parts[1]
             y == tl[1]
  <2>2. x \in Seq(Byte) /\ y \in Seq(Byte) /\ Len(x) >= 2
    BY <2>1, ElementOfSeq, Zenon
  <2>3. tl[0] = parts[0 + 1] \o tl[0 + 1]
    BY <1>1, <2>1, Zenon
  <2>4. tl[0] = x \o y
    BY <2>1, <2>3, Zenon
  <2> HIDE DEF x, y
  <2>5. Len(x \o y) = Len(x) + Len(y)
    BY <2>2, ConcatCarries, Zenon
  <2> DEFINE lx == Len(x)
             ly == Len(y)
  <2>6. lx \in Nat /\ ly \in Nat /\ lx >= 2
    BY <2>2, LenProperties, Zenon
  <2>7. Len(Joined(parts)) = lx + ly
    BY <1>1, <2>4, <2>5, Zenon
  <2> HIDE DEF lx, ly
  <2>8. lx + ly # 1
    BY <2>6
  <2> QED
    BY <2>7, <2>8, Zenon
<1> QED
  BY <1>3, <1>4, Zenon

\* What stands for a list on the wire, and what it is read as.
LEMMA RouteListIs ==
  ASSUME NEW s \in Seq(Network), NEW kept, kept = Upto(s, MAX_ROUTES), NEW t, t = Joined(RouteParts(kept))
  PROVE  /\ RouteList(s) = <<Len(kept)>> \o t /\ t \in Seq(Byte) /\ kept \in Seq(Network)
         /\ Len(kept) \in Byte /\ ~(Len(kept) > MAX_ROUTES)
         /\ ParseRoutes(t, Len(kept)) = Nets(s) /\ Nets(s) \in Seq(Network) /\ Nets(s) # None
         /\ Len(t) # 1
<1>1. MAX_ROUTES \in Nat /\ MAX_ROUTES \in Byte
  BY LimitsAre, Zenon
<1>2. kept \in Seq(Network) /\ Len(kept) <= MAX_ROUTES /\ \A i \in 1 .. Len(kept) : kept[i] = s[i]
  BY <1>1, UptoIs, Zenon
<1> DEFINE n == Len(kept)
           want == [i \in 1 .. n |-> Canonical(kept[i])]
<1>3. n \in Nat /\ DOMAIN kept = 1 .. n
  BY <1>2, LenProperties, Zenon
<1>4. t \in Seq(Byte) /\ ParseRoutes(t, n) = want /\ want \in Seq(Network)
  BY <1>2, RoutesAreRead, Zenon
<1>5. Nets(s) = want
  BY <1>2, <1>3, Zenon DEF Nets
<1>6. RouteList(s) = <<n>> \o t
  BY Zenon DEF RouteList
<1>7. n \in Byte /\ ~(n > MAX_ROUTES)
  <2>1. n <= MAX_ROUTES
    BY <1>2, Zenon
  <2> HIDE DEF n
  <2> QED
    BY <1>1, <1>3, <2>1 DEF Byte
<1>8. want # None
  BY <1>4, CodecAssumption, Zenon
<1>9. Len(t) # 1
  <2> DEFINE p == RouteParts(kept)
  <2>1. /\ \A i \in 1 .. n : kept[i] \in Network
        /\ p \in Seq(Seq(Byte)) /\ Len(p) = n /\ \A i \in 1 .. n : p[i] = RouteBytes(kept[i])
    BY <1>2, RoutePartsAre, Zenon
  <2> HIDE DEF p
  <2>2. ASSUME NEW i \in 1 .. Len(p) PROVE Len(p[i]) >= 2
    <3>1. /\ Len(p[i]) = 2 + Width(kept[i].fam) /\ Width(kept[i].fam) \in {4, 16}
      BY <2>1, RouteBytesIs, Zenon
    <3> QED
      BY <3>1
  <2> QED
    BY <2>1, <2>2, NeverOne, Zenon DEF p
<1> HIDE DEF want
<1> QED
  BY <1>2, <1>4, <1>5, <1>6, <1>7, <1>8, <1>9, Zenon

\* A list of peers, cut to its limit, is read as the peers it holds.
LEMMA PeerListIs ==
  ASSUME NEW s \in Seq(PeerEntry), \A i \in 1 .. Len(s) : GoodName(s[i].name),
         NEW kept, kept = Upto(s, MAX_PEERS), NEW t, t = Joined(PeerParts(kept))
  PROVE  /\ PeerList(s) = <<Len(kept)>> \o t /\ t \in Seq(Byte) /\ kept \in Seq(PeerEntry)
         /\ Len(kept) \in Byte /\ ~(Len(kept) > MAX_PEERS)
         /\ ParsePeers(t, Len(kept)) = Peers(s) /\ Peers(s) \in Seq(PeerEntry) /\ Peers(s) # None
         /\ Len(t) # 1
<1>1. MAX_PEERS \in Nat /\ MAX_PEERS \in Byte
  BY LimitsAre, Zenon
<1>2. /\ kept \in Seq(PeerEntry) /\ Len(kept) <= MAX_PEERS /\ Len(kept) <= Len(s)
      /\ \A i \in 1 .. Len(kept) : kept[i] = s[i]
  BY <1>1, UptoIs, Zenon
<1> DEFINE n == Len(kept)
           want == [i \in 1 .. n |-> NormalPeer(kept[i])]
<1>3. n \in Nat /\ DOMAIN kept = 1 .. n /\ Len(s) \in Nat
  BY <1>2, LenProperties, Zenon
<1>4. \A i \in 1 .. n : i \in 1 .. Len(s) /\ kept[i] \in PeerEntry
  <2>1. \A i \in 1 .. n : kept[i] \in PeerEntry
    BY <1>2, ElementOfSeq, Zenon
  <2>2. \A i \in 1 .. n : i \in 1 .. Len(s)
    BY <1>2, <1>3
  <2> QED
    BY <2>1, <2>2, Zenon
<1>5. \A i \in 1 .. n : GoodName(kept[i].name)
  BY <1>2, <1>4, Zenon
<1>6. t \in Seq(Byte) /\ ParsePeers(t, n) = want /\ want \in Seq(PeerEntry)
  BY <1>2, <1>5, PeersAreRead, Zenon
<1>7. Peers(s) = want
  <2>1. \A i \in 1 .. n : NormalPeer(kept[i]) =
          [s[i] EXCEPT !.name = Upto(s[i].name, MAX_NAME_LEN), !.ip6 = Specified(Ip6(s[i].ip6))]
    BY <1>2, <1>4, PeerIs, Zenon
  <2> QED
    BY <1>3, <2>1, Zenon DEF Peers
<1>8. PeerList(s) = <<n>> \o t
  BY Zenon DEF PeerList
<1>9. n \in Byte /\ ~(n > MAX_PEERS)
  <2>1. n <= MAX_PEERS
    BY <1>2, Zenon
  <2> HIDE DEF n
  <2> QED
    BY <1>1, <1>3, <2>1 DEF Byte
<1>10. want # None
  BY <1>6, CodecAssumption, Zenon
<1>11. Len(t) # 1
  <2> DEFINE p == PeerParts(kept)
  <2>1. p \in Seq(Seq(Byte)) /\ Len(p) = n /\ \A i \in 1 .. n : p[i] = PeerBytes(kept[i])
    BY <1>2, <1>5, PeerPartsAre, Zenon
  <2> HIDE DEF p
  <2>2. ASSUME NEW i \in 1 .. Len(p) PROVE Len(p[i]) >= 2
    <3> DEFINE nb == Upto(kept[i].name, MAX_NAME_LEN)
               l == Len(nb)
    <3>1. kept[i] \in PeerEntry /\ GoodName(kept[i].name)
      BY <1>4, <1>5, <2>1, Zenon
    <3>2. Len(p[i]) = 22 + l
      BY <2>1, <3>1, PeerBytesIs, Zenon
    <3>3. kept[i].name \in Seq(Byte)
      BY <3>1, PeerIs, Zenon
    <3>4. nb \in Seq(Byte)
      BY <3>3, LimitsAre, UptoIs, Zenon
    <3>5. l \in Nat
      BY <3>4, LenProperties, Zenon
    <3> HIDE DEF l
    <3> QED
      BY <3>2, <3>5
  <2> QED
    BY <2>1, <2>2, NeverOne, Zenon DEF p
<1> HIDE DEF want
<1> QED
  BY <1>2, <1>6, <1>7, <1>8, <1>9, <1>10, <1>11, Zenon

-----------------------------------------------------------------------------
(* Whatever is sent is understood: routes, addresses, names.               *)

\* What is sent is received, up to the limits.
Understood(m) == Encode(m) \in Seq(Byte) /\ ParseControl(Encode(m)) = Normal(m)

\* The messages, kind by kind.
Adverts == [kind : {"route_advert"}, accept : BOOLEAN, ip : Octets(4), ip6 : OptIp6,
            routes : Seq(Network)]
Pushes == [kind : {"route_push"}, routes : Seq(Network)]
Requests == [kind : {"assign_req"}, flags : Byte, node : Octets(16), ip : Octets(4), ip6 : OptIp6]
Assigns == [kind : {"assign"}, status : 0..2, ip : Octets(4), mask : Octets(4), peer : Octets(4),
            ip6 : OptIp6, plen6 : Byte, flags : Byte, ttl : Octets(4)]
NameAdverts == [kind : {"name_advert"}, want : BOOLEAN, ip : Octets(4), ip6 : OptIp6, name : Seq(Byte)]
PeerPushes == [kind : {"peer_push"}, peers : Seq(PeerEntry)]

\* A flag is read as it was written.
LEMMA FlagIs ==
  \A a \in BOOLEAN : Flag(a) \in Byte /\ Low(Flag(a)) = a
<1>1. Flag(TRUE) = 1 /\ Flag(FALSE) = 0
  BY DEF Flag
<1>2. 1 \in Byte /\ 0 \in Byte /\ 1 % 2 = 1 /\ ~(0 % 2 = 1)
  BY DEF Byte
<1>3. Low(1) /\ ~Low(0)
  BY <1>2, Zenon DEF Low
<1>4. Low(1) = TRUE /\ Low(0) = FALSE
  BY <1>3, Zenon DEF Low
<1> QED
  BY <1>1, <1>2, <1>4, Zenon

\* A header of three bytes.
LEMMA HeaderIs ==
  ASSUME NEW k \in 1 .. 6, NEW v \in Byte
  PROVE  /\ <<0, k, v>> \in Octets(3)
         /\ <<0, k, v>>[1] = 0 /\ <<0, k, v>>[2] = k /\ <<0, k, v>>[3] = v
<1>1. 0 \in Byte /\ k \in Byte
  BY DEF Byte
<1>2. <<0, k, v>> \in Seq(Byte) /\ Len(<<0, k, v>>) = 3
  BY <1>1, SMT
<1> QED
  BY <1>2 DEF Octets

\* A route advert is understood, and how long it is.
LEMMA AdvertIsUnderstood ==
  ASSUME NEW m \in Adverts
  PROVE  /\ Understood(m)
         /\ Len(Encode(m)) = 24 + Len(Joined(RouteParts(Upto(m.routes, MAX_ROUTES))))
<1> DEFINE a == m.accept
           i == m.ip
           v == m.ip6
           s == m.routes
           y == Ip6(v)
           kept == Upto(s, MAX_ROUTES)
           n == Len(kept)
           t == Joined(RouteParts(kept))
           h == <<0, 1, Flag(a)>>
           b == Encode(m)
<1>1. /\ m = [kind |-> "route_advert", accept |-> a, ip |-> i, ip6 |-> v, routes |-> s]
      /\ a \in BOOLEAN /\ i \in Octets(4) /\ v \in OptIp6 /\ s \in Seq(Network)
      /\ m.kind = "route_advert"
  BY Zenon DEF Adverts
<1>2. /\ RouteList(s) = <<n>> \o t /\ t \in Seq(Byte) /\ n \in Byte /\ ~(n > MAX_ROUTES)
      /\ ParseRoutes(t, n) = Nets(s) /\ Nets(s) # None /\ Nets(s) \in Seq(Network)
      /\ kept \in Seq(Network) /\ Len(t) # 1
  BY <1>1, RouteListIs, Zenon
<1>3. y \in Octets(16)
  BY <1>1, Ip6Is, Zenon
<1>4. h \in Octets(3) /\ h[1] = 0 /\ h[2] = 1 /\ h[3] = Flag(a) /\ Low(Flag(a)) = a
  <2>1. 1 \in 1 .. 6
    OBVIOUS
  <2> QED
    BY <1>1, <2>1, HeaderIs, FlagIs, Zenon
<1>5. b = h \o i \o y \o (<<n>> \o t)
  <2>1. b = h \o i \o y \o RouteList(s)
    BY <1>1, EncodeIs, Zenon
  <2> QED
    BY <1>2, <2>1, Zenon
<1>6. Normal(m) = [kind |-> "route_advert", accept |-> a, ip |-> i, ip6 |-> Specified(y), routes |-> Nets(s)]
  <2>1. Normal(m) = [m EXCEPT !.routes = Nets(s), !.ip6 = Specified(y)]
    BY <1>1, NormalIs, Zenon
  <2> DEFINE d == [kind |-> "route_advert", accept |-> a, ip |-> i, ip6 |-> v, routes |-> s]
             ns == Nets(s)
             sp == Specified(y)
  <2>2. Normal(m) = [d EXCEPT !.routes = ns, !.ip6 = sp]
    BY <1>1, <2>1, Zenon
  <2> HIDE DEF a, i, v, s, ns, sp
  <2>3. [d EXCEPT !.routes = ns] = [kind |-> "route_advert", accept |-> a, ip |-> i, ip6 |-> v, routes |-> ns]
    OBVIOUS
  <2>4. [[kind |-> "route_advert", accept |-> a, ip |-> i, ip6 |-> v, routes |-> ns] EXCEPT !.ip6 = sp]
          = [kind |-> "route_advert", accept |-> a, ip |-> i, ip6 |-> sp, routes |-> ns]
    OBVIOUS
  <2>5. [d EXCEPT !.routes = ns, !.ip6 = sp] = [[d EXCEPT !.routes = ns] EXCEPT !.ip6 = sp]
    OBVIOUS
  <2> QED
    BY <2>2, <2>3, <2>4, <2>5, Zenon DEF ns, sp
<1> HIDE DEF a, i, v, s, y, kept, n, t, h, b
<1>7. /\ b \in Seq(Byte) /\ Len(b) = 24 + Len(t)
      /\ b[1] = h[1] /\ b[2] = h[2] /\ b[3] = h[3] /\ b[24] = n
      /\ Field(b, 4, 4) = i /\ Field(b, 8, 16) = y /\ From(b, 25) = t
  <2>1. Headed(b, h, i, y, n, t)
    BY <1>1, <1>2, <1>3, <1>4, <1>5, HeadIs, Zenon
  <2> QED
    BY <2>1, Zenon DEF Headed
<1>8. b \in Seq(Byte) /\ b[1] = 0 /\ b[2] = 1 /\ Low(b[3]) = a /\ b[24] = n
  BY <1>4, <1>7, Zenon
<1>9. Len(b) > 1 /\ Len(b) # 5 /\ ~(Len(b) < 24) /\ 24 + 1 = 25
  <2>1. Len(t) \in Nat
    BY <1>2, LenProperties, Zenon
  <2>2. Len(b) = 24 + Len(t)
    BY <1>7, Zenon
  <2> DEFINE lb == Len(b)
             lt == Len(t)
  <2> HIDE DEF lb, lt
  <2>3. lb = 24 + lt /\ lt \in Nat
    BY <2>1, <2>2, Zenon DEF lb, lt
  <2>4. lb > 1 /\ lb # 5 /\ ~(lb < 24) /\ 24 + 1 = 25
    BY <2>3
  <2> QED
    BY <2>4, Zenon DEF lb
<1>10. ParseControl(b) = ParseAdvert(b)
  BY <1>8, <1>9, ControlIs, DispatchIs, Zenon
<1>11. HEADER = 24
  BY Zenon DEF HEADER
<1>12. ParseRoutes(From(b, 24 + 1), b[24]) = Nets(s)
  BY <1>2, <1>7, <1>9, Zenon
<1>13. ParseAdvert(b) = [kind |-> "route_advert", accept |-> Low(b[3]), ip |-> Field(b, 4, 4),
                         ip6 |-> Specified(Field(b, 8, 16)), routes |-> Nets(s)]
  BY <1>2, <1>8, <1>9, <1>11, <1>12, Zenon DEF ParseAdvert
<1>14. ParseControl(b) = Normal(m)
  BY <1>6, <1>7, <1>8, <1>10, <1>13, Zenon
<1> QED
  BY <1>7, <1>8, <1>14, Zenon DEF Understood, b, t, kept, s

\* A route push is understood, and how long it is.
LEMMA PushIsUnderstood ==
  ASSUME NEW m \in Pushes
  PROVE  /\ Understood(m)
         /\ Len(Encode(m)) = 4 + Len(Joined(RouteParts(Upto(m.routes, MAX_ROUTES))))
<1> DEFINE s == m.routes
           kept == Upto(s, MAX_ROUTES)
           n == Len(kept)
           t == Joined(RouteParts(kept))
           h == <<0, 2, 0>>
           b == Encode(m)
<1>1. m = [kind |-> "route_push", routes |-> s] /\ s \in Seq(Network) /\ m.kind = "route_push"
  BY Zenon DEF Pushes
<1>2. /\ RouteList(s) = <<n>> \o t /\ t \in Seq(Byte) /\ n \in Byte /\ ~(n > MAX_ROUTES)
      /\ ParseRoutes(t, n) = Nets(s) /\ Nets(s) # None /\ Nets(s) \in Seq(Network)
      /\ kept \in Seq(Network) /\ Len(t) # 1
  BY <1>1, RouteListIs, Zenon
<1>3. h \in Octets(3) /\ h[1] = 0 /\ h[2] = 2
  <2>1. 2 \in 1 .. 6 /\ 0 \in Byte
    BY DEF Byte
  <2> QED
    BY <2>1, HeaderIs, Zenon
<1>4. b = h \o (<<n>> \o t)
  <2>1. b = h \o RouteList(s)
    BY <1>1, EncodeIs, Zenon
  <2> QED
    BY <1>2, <2>1, Zenon
<1>5. Normal(m) = [kind |-> "route_push", routes |-> Nets(s)]
  <2> DEFINE ns == Nets(s)
  <2>1. Normal(m) = [m EXCEPT !.routes = ns]
    BY <1>1, NormalIs, Zenon
  <2>2. Normal(m) = [[kind |-> "route_push", routes |-> s] EXCEPT !.routes = ns]
    BY <1>1, <2>1, Zenon
  <2> HIDE DEF s, ns
  <2>3. [[kind |-> "route_push", routes |-> s] EXCEPT !.routes = ns] = [kind |-> "route_push", routes |-> ns]
    OBVIOUS
  <2> QED
    BY <2>2, <2>3, Zenon DEF ns
<1> HIDE DEF s, kept, n, t, h, b
<1>6. /\ b \in Seq(Byte) /\ Len(b) = 4 + Len(t)
      /\ b[1] = h[1] /\ b[2] = h[2] /\ b[4] = n /\ From(b, 5) = t
  <2>1. Pushed(b, h, n, t)
    BY <1>2, <1>3, <1>4, PushIs, Zenon
  <2> QED
    BY <2>1, Zenon DEF Pushed
<1>7. b \in Seq(Byte) /\ b[1] = 0 /\ b[2] = 2 /\ b[4] = n
  BY <1>3, <1>6, Zenon
<1>8. Len(b) > 1 /\ ~(Len(b) < 4)
  <2>1. Len(t) \in Nat
    BY <1>2, LenProperties, Zenon
  <2>2. Len(b) = 4 + Len(t)
    BY <1>6, Zenon
  <2> DEFINE lb == Len(b)
             lt == Len(t)
  <2> HIDE DEF lb, lt
  <2>3. lb = 4 + lt /\ lt \in Nat
    BY <2>1, <2>2, Zenon DEF lb, lt
  <2>4. lb > 1 /\ ~(lb < 4)
    BY <2>3
  <2> QED
    BY <2>4, Zenon DEF lb
<1>9. Len(b) # 5
  <2> DEFINE lb == Len(b)
             lt == Len(t)
  <2>1. lb = 4 + lt /\ lt # 1 /\ lt \in Nat
    BY <1>2, <1>6, LenProperties, Zenon
  <2> HIDE DEF lb, lt
  <2>2. lb # 5
    BY <2>1
  <2> QED
    BY <2>2, Zenon DEF lb
<1>10. ParseControl(b) = ParsePush(b)
  BY <1>7, <1>8, <1>9, ControlIs, DispatchIs, Zenon
<1>11. ParseRoutes(From(b, 5), b[4]) = Nets(s)
  BY <1>2, <1>6, Zenon
<1>12. ParsePush(b) = [kind |-> "route_push", routes |-> Nets(s)]
  BY <1>2, <1>7, <1>8, <1>11, Zenon DEF ParsePush
<1>13. ParseControl(b) = Normal(m)
  BY <1>5, <1>10, <1>12, Zenon
<1> QED
  BY <1>6, <1>7, <1>13, Zenon DEF Understood, b, t, kept, s

\* An address request is understood, and how long it is.
LEMMA RequestIsUnderstood ==
  ASSUME NEW m \in Requests
  PROVE  Understood(m) /\ Len(Encode(m)) = 39
<1> DEFINE f == m.flags
           d == m.node
           i == m.ip
           v == m.ip6
           y == Ip6(v)
           h == <<0, 3, f>>
           b == Encode(m)
<1>1. /\ m = [kind |-> "assign_req", flags |-> f, node |-> d, ip |-> i, ip6 |-> v]
      /\ f \in Byte /\ d \in Octets(16) /\ i \in Octets(4) /\ v \in OptIp6
      /\ m.kind = "assign_req"
  BY Zenon DEF Requests
<1>2. y \in Octets(16)
  BY <1>1, Ip6Is, Zenon
<1>3. h \in Octets(3) /\ h[1] = 0 /\ h[2] = 3 /\ h[3] = f
  <2>1. 3 \in 1 .. 6
    OBVIOUS
  <2> QED
    BY <1>1, <2>1, HeaderIs, Zenon
<1>4. b = h \o d \o i \o y
  BY <1>1, EncodeIs, Zenon
<1>5. Normal(m) = [kind |-> "assign_req", flags |-> f, node |-> d, ip |-> i, ip6 |-> Specified(y)]
  <2> DEFINE sp == Specified(y)
             e == [kind |-> "assign_req", flags |-> f, node |-> d, ip |-> i, ip6 |-> v]
  <2>1. Normal(m) = [m EXCEPT !.ip6 = sp]
    BY <1>1, NormalIs, Zenon
  <2>2. Normal(m) = [e EXCEPT !.ip6 = sp]
    BY <1>1, <2>1, Zenon
  <2> HIDE DEF f, d, i, v, sp
  <2>3. [e EXCEPT !.ip6 = sp] = [kind |-> "assign_req", flags |-> f, node |-> d, ip |-> i, ip6 |-> sp]
    OBVIOUS
  <2> QED
    BY <2>2, <2>3, Zenon DEF sp
<1> HIDE DEF f, d, i, v, y, h, b
<1>6. /\ b \in Seq(Byte) /\ Len(b) = 39
      /\ b[1] = h[1] /\ b[2] = h[2] /\ b[3] = h[3]
      /\ Field(b, 4, 16) = d /\ Field(b, 20, 4) = i /\ Field(b, 24, 16) = y
  <2>1. Requested(b, h, d, i, y)
    BY <1>1, <1>2, <1>3, <1>4, RequestIs, Zenon
  <2> QED
    BY <2>1, Zenon DEF Requested
<1>7. b \in Seq(Byte) /\ b[1] = 0 /\ b[2] = 3 /\ b[3] = f /\ Len(b) = 39
  BY <1>3, <1>6, Zenon
<1>8. Len(b) > 1 /\ Len(b) # 5 /\ ~(Len(b) # ASSIGN_REQ_LEN)
  <2>1. 39 > 1 /\ 39 # 5
    OBVIOUS
  <2> QED
    BY <1>7, <2>1, Zenon DEF ASSIGN_REQ_LEN
<1>9. ParseControl(b) = ParseAssignReq(b)
  BY <1>7, <1>8, ControlIs, DispatchIs, Zenon
<1>10. ParseAssignReq(b) = [kind |-> "assign_req", flags |-> b[3], node |-> Field(b, 4, 16),
                            ip |-> Field(b, 20, 4), ip6 |-> Specified(Field(b, 24, 16))]
  BY <1>8, Zenon DEF ParseAssignReq
<1>11. ParseControl(b) = Normal(m)
  BY <1>5, <1>6, <1>7, <1>9, <1>10, Zenon
<1> QED
  BY <1>7, <1>11, Zenon DEF Understood, b

\* An assignment is understood, and how long it is.
LEMMA AssignIsUnderstood ==
  ASSUME NEW m \in Assigns
  PROVE  Understood(m) /\ Len(Encode(m)) = 37
<1> DEFINE st == m.status
           i == m.ip
           k == m.mask
           pr == m.peer
           v == m.ip6
           l == m.plen6
           f == m.flags
           t == m.ttl
           y == Ip6(v)
           h == <<0, 4, st>>
           q == <<l, f>>
           b == Encode(m)
           i6 == IF l = 0 THEN None ELSE y
           rec == [kind |-> "assign", status |-> st, ip |-> i, mask |-> k, peer |-> pr, ip6 |-> i6,
                   plen6 |-> l, flags |-> f, ttl |-> t]
<1>1. /\ m = [kind |-> "assign", status |-> st, ip |-> i, mask |-> k, peer |-> pr, ip6 |-> v,
              plen6 |-> l, flags |-> f, ttl |-> t]
      /\ st \in 0..2 /\ i \in Octets(4) /\ k \in Octets(4) /\ pr \in Octets(4) /\ v \in OptIp6
      /\ l \in Byte /\ f \in Byte /\ t \in Octets(4) /\ m.kind = "assign"
  BY Zenon DEF Assigns
<1>2. y \in Octets(16)
  BY <1>1, Ip6Is, Zenon
<1>3. st \in Byte /\ ~(st > 2)
  <2>1. st \in 0..2
    BY <1>1, Zenon
  <2> HIDE DEF st
  <2> QED
    BY <2>1 DEF Byte
<1>4. h \in Octets(3) /\ h[1] = 0 /\ h[2] = 4 /\ h[3] = st
  <2>1. 4 \in 1 .. 6
    OBVIOUS
  <2> QED
    BY <1>3, <2>1, HeaderIs, Zenon
<1>5. q \in Octets(2) /\ q[1] = l /\ q[2] = f
  <2>1. l \in Byte /\ f \in Byte
    BY <1>1, Zenon
  <2> HIDE DEF l, f
  <2>2. q \in Seq(Byte) /\ Len(q) = 2
    BY <2>1, SMT
  <2> QED
    BY <2>2 DEF Octets
<1>6. b = h \o i \o k \o pr \o y \o q \o t
  BY <1>1, EncodeIs, Zenon
<1>7. Normal(m) = rec
  <2> DEFINE e == [kind |-> "assign", status |-> st, ip |-> i, mask |-> k, peer |-> pr, ip6 |-> v,
                   plen6 |-> l, flags |-> f, ttl |-> t]
  <2>1. Normal(m) = [m EXCEPT !.ip6 = i6]
    BY <1>1, NormalIs, Zenon
  <2>2. Normal(m) = [e EXCEPT !.ip6 = i6]
    BY <1>1, <2>1, Zenon
  <2> HIDE DEF st, i, k, pr, v, l, f, t, i6
  <2>3. [e EXCEPT !.ip6 = i6] = rec
    OBVIOUS
  <2> QED
    BY <2>2, <2>3, Zenon
<1> HIDE DEF st, i, k, pr, v, l, f, t, y, h, q, b
<1>8. /\ b \in Seq(Byte) /\ Len(b) = 37
      /\ b[1] = h[1] /\ b[2] = h[2] /\ b[3] = h[3] /\ b[32] = q[1] /\ b[33] = q[2]
      /\ Field(b, 4, 4) = i /\ Field(b, 8, 4) = k /\ Field(b, 12, 4) = pr
      /\ Field(b, 16, 16) = y /\ Field(b, 34, 4) = t
  <2>1. Assigned(b, h, i, k, pr, y, q, t)
    BY <1>1, <1>2, <1>4, <1>5, <1>6, AssignIs, Zenon
  <2> QED
    BY <2>1, Zenon DEF Assigned
<1>9. b \in Seq(Byte) /\ b[1] = 0 /\ b[2] = 4 /\ b[3] = st /\ b[32] = l /\ b[33] = f /\ Len(b) = 37
  BY <1>4, <1>5, <1>8, Zenon
<1>10. Len(b) > 1 /\ Len(b) # 5 /\ ~(Len(b) # ASSIGN_LEN)
  <2>1. 37 > 1 /\ 37 # 5
    OBVIOUS
  <2> QED
    BY <1>9, <2>1, Zenon DEF ASSIGN_LEN
<1>11. ParseControl(b) = ParseAssign(b)
  BY <1>9, <1>10, ControlIs, DispatchIs, Zenon
<1> DEFINE j6 == IF b[32] = 0 THEN None ELSE Field(b, 16, 16)
<1>12. ParseAssign(b) = [kind |-> "assign", status |-> b[3], ip |-> Field(b, 4, 4),
          mask |-> Field(b, 8, 4), peer |-> Field(b, 12, 4), ip6 |-> j6,
          plen6 |-> b[32], flags |-> b[33], ttl |-> Field(b, 34, 4)]
  BY <1>3, <1>9, <1>10, Zenon DEF ParseAssign
<1>13. j6 = i6
  BY <1>8, <1>9, Zenon
<1> HIDE DEF j6, i6
<1>14. ParseControl(b) = Normal(m)
  BY <1>7, <1>8, <1>9, <1>11, <1>12, <1>13, Zenon
<1> QED
  BY <1>9, <1>14, Zenon DEF Understood, b

\* A name advert is understood, and how long it is.
LEMMA NameIsUnderstood ==
  ASSUME NEW m \in NameAdverts, GoodName(m.name)
  PROVE  Understood(m) /\ Len(Encode(m)) = 24 + Len(Upto(m.name, MAX_NAME_LEN))
<1> DEFINE a == m.want
           i == m.ip
           v == m.ip6
           s == m.name
           y == Ip6(v)
           t == Upto(s, MAX_NAME_LEN)
           n == Len(t)
           h == <<0, 5, Flag(a)>>
           b == Encode(m)
<1>1. /\ m = [kind |-> "name_advert", want |-> a, ip |-> i, ip6 |-> v, name |-> s]
      /\ a \in BOOLEAN /\ i \in Octets(4) /\ v \in OptIp6 /\ s \in Seq(Byte)
      /\ m.kind = "name_advert"
  BY Zenon DEF NameAdverts
<1>2. NameBytes(s) = t /\ t \in Seq(Byte) /\ n \in Byte /\ n <= MAX_NAME_LEN /\ Utf8(t)
  <2>1. GoodName(s)
    BY Zenon
  <2>2. NameBytes(s) = t /\ t \in Seq(Byte) /\ n \in Byte /\ n <= MAX_NAME_LEN
    BY <1>1, <2>1, NameIs, Zenon
  <2> QED
    BY <2>1, <2>2, Zenon DEF GoodName
<1>3. y \in Octets(16)
  BY <1>1, Ip6Is, Zenon
<1>4. h \in Octets(3) /\ h[1] = 0 /\ h[2] = 5 /\ h[3] = Flag(a) /\ Low(Flag(a)) = a
  <2>1. 5 \in 1 .. 6
    OBVIOUS
  <2> QED
    BY <1>1, <2>1, HeaderIs, FlagIs, Zenon
<1> DEFINE o == <<n>>
           z == h \o i \o y
<1>5. b = z \o o \o t
  <2>1. b = h \o i \o y \o <<Len(NameBytes(s))>> \o NameBytes(s)
    BY <1>1, EncodeIs, Zenon
  <2> QED
    BY <1>2, <2>1, Zenon
<1>6. Normal(m) = [kind |-> "name_advert", want |-> a, ip |-> i, ip6 |-> Specified(y), name |-> t]
  <2> DEFINE sp == Specified(y)
             d == [kind |-> "name_advert", want |-> a, ip |-> i, ip6 |-> v, name |-> s]
  <2>1. Normal(m) = [m EXCEPT !.name = t, !.ip6 = sp]
    BY <1>1, NormalIs, Zenon
  <2>2. Normal(m) = [d EXCEPT !.name = t, !.ip6 = sp]
    BY <1>1, <2>1, Zenon
  <2> HIDE DEF a, i, v, s, t, sp
  <2>3. [d EXCEPT !.name = t] = [kind |-> "name_advert", want |-> a, ip |-> i, ip6 |-> v, name |-> t]
    OBVIOUS
  <2>4. [[kind |-> "name_advert", want |-> a, ip |-> i, ip6 |-> v, name |-> t] EXCEPT !.ip6 = sp]
          = [kind |-> "name_advert", want |-> a, ip |-> i, ip6 |-> sp, name |-> t]
    OBVIOUS
  <2>5. [d EXCEPT !.name = t, !.ip6 = sp] = [[d EXCEPT !.name = t] EXCEPT !.ip6 = sp]
    OBVIOUS
  <2> QED
    BY <2>2, <2>3, <2>4, <2>5, Zenon DEF sp
<1> HIDE DEF a, i, v, s, y, t, n, h, b
<1>7. o \in Seq(Byte)
  BY <1>2
<1>8. z \in Seq(Byte)
  <2>1. h \in Seq(Byte) /\ i \in Seq(Byte) /\ y \in Seq(Byte)
    BY <1>1, <1>3, <1>4, Zenon DEF Octets
  <2> QED
    BY <2>1, ThreePieces, Zenon
<1>9. z \o o \o t = z \o (o \o t)
  <2> HIDE DEF z, o
  <2> QED
    BY <1>2, <1>7, <1>8, Regroup, Zenon
<1>10. b = h \o i \o y \o (<<n>> \o t)
  BY <1>5, <1>9, Zenon
<1> HIDE DEF z, o
<1>11. /\ b \in Seq(Byte) /\ Len(b) = 24 + Len(t)
       /\ b[1] = h[1] /\ b[2] = h[2] /\ b[3] = h[3] /\ b[24] = n
       /\ Field(b, 4, 4) = i /\ Field(b, 8, 16) = y /\ From(b, 25) = t
  <2>1. Headed(b, h, i, y, n, t)
    BY <1>1, <1>2, <1>3, <1>4, <1>10, HeadIs, Zenon
  <2> QED
    BY <2>1, Zenon DEF Headed
<1>12. b \in Seq(Byte) /\ b[1] = 0 /\ b[2] = 5 /\ Low(b[3]) = a /\ b[24] = n /\ Len(b) = 24 + n
  BY <1>4, <1>11, Zenon DEF n
<1>13. Len(b) > 1 /\ Len(b) # 5 /\ ~(Len(b) < 24) /\ 24 + 1 = 25 /\ ~(n > MAX_NAME_LEN)
  <2> DEFINE lb == Len(b)
  <2>1. lb = 24 + n /\ n \in Byte /\ n <= MAX_NAME_LEN /\ MAX_NAME_LEN \in Nat
    BY <1>2, <1>12, LimitsAre, Zenon
  <2> HIDE DEF lb
  <2>2. lb > 1 /\ lb # 5 /\ ~(lb < 24) /\ 24 + 1 = 25 /\ ~(n > MAX_NAME_LEN)
    BY <2>1 DEF Byte
  <2> QED
    BY <2>2, Zenon DEF lb
<1>14. ParseControl(b) = ParseName(b)
  BY <1>12, <1>13, ControlIs, DispatchIs, Zenon
<1>15. HEADER = 24
  BY Zenon DEF HEADER
<1>16. From(b, 24 + 1) = t
  BY <1>11, <1>13, Zenon
<1>17. ParseName(b) = [kind |-> "name_advert", want |-> Low(b[3]), ip |-> Field(b, 4, 4),
                       ip6 |-> Specified(Field(b, 8, 16)), name |-> t]
  BY <1>2, <1>12, <1>13, <1>15, <1>16, Zenon DEF ParseName
<1>18. ParseControl(b) = Normal(m)
  BY <1>6, <1>11, <1>12, <1>14, <1>17, Zenon
<1> QED
  BY <1>11, <1>12, <1>18, Zenon DEF Understood, b, t, s

-----------------------------------------------------------------------------
(* Whatever is sent is understood: peers, keepalives, all of them.         *)

\* The keepalives, with an address or without.
Keepalives == [kind : {"keepalive"}, ip : Octets(4) \cup {None}]

\* A peer push is understood, and how long it is.
LEMMA PeersAreUnderstood ==
  ASSUME NEW m \in PeerPushes, \A i \in 1 .. Len(m.peers) : GoodName(m.peers[i].name)
  PROVE  /\ Understood(m)
         /\ Len(Encode(m)) = 4 + Len(Joined(PeerParts(Upto(m.peers, MAX_PEERS))))
<1> DEFINE s == m.peers
           kept == Upto(s, MAX_PEERS)
           n == Len(kept)
           t == Joined(PeerParts(kept))
           h == <<0, 6, 0>>
           b == Encode(m)
<1>1. m = [kind |-> "peer_push", peers |-> s] /\ s \in Seq(PeerEntry) /\ m.kind = "peer_push"
  BY Zenon DEF PeerPushes
<1>2. /\ PeerList(s) = <<n>> \o t /\ t \in Seq(Byte) /\ n \in Byte /\ ~(n > MAX_PEERS)
      /\ ParsePeers(t, n) = Peers(s) /\ Peers(s) # None /\ Peers(s) \in Seq(PeerEntry)
      /\ kept \in Seq(PeerEntry) /\ Len(t) # 1
  <2>1. \A i \in 1 .. Len(s) : GoodName(s[i].name)
    BY Zenon
  <2> HIDE DEF s
  <2> QED
    BY <1>1, <2>1, PeerListIs, Zenon
<1>3. h \in Octets(3) /\ h[1] = 0 /\ h[2] = 6
  <2>1. 6 \in 1 .. 6 /\ 0 \in Byte
    BY DEF Byte
  <2> QED
    BY <2>1, HeaderIs, Zenon
<1>4. b = h \o (<<n>> \o t)
  <2>1. b = h \o PeerList(s)
    BY <1>1, EncodeIs, Zenon
  <2> QED
    BY <1>2, <2>1, Zenon
<1>5. Normal(m) = [kind |-> "peer_push", peers |-> Peers(s)]
  <2> DEFINE ns == Peers(s)
  <2>1. Normal(m) = [m EXCEPT !.peers = ns]
    BY <1>1, NormalIs, Zenon
  <2>2. Normal(m) = [[kind |-> "peer_push", peers |-> s] EXCEPT !.peers = ns]
    BY <1>1, <2>1, Zenon
  <2> HIDE DEF s, ns
  <2>3. [[kind |-> "peer_push", peers |-> s] EXCEPT !.peers = ns] = [kind |-> "peer_push", peers |-> ns]
    OBVIOUS
  <2> QED
    BY <2>2, <2>3, Zenon DEF ns
<1> HIDE DEF s, kept, n, t, h, b
<1>6. /\ b \in Seq(Byte) /\ Len(b) = 4 + Len(t)
      /\ b[1] = h[1] /\ b[2] = h[2] /\ b[4] = n /\ From(b, 5) = t
  <2>1. Pushed(b, h, n, t)
    BY <1>2, <1>3, <1>4, PushIs, Zenon
  <2> QED
    BY <2>1, Zenon DEF Pushed
<1>7. b \in Seq(Byte) /\ b[1] = 0 /\ b[2] = 6 /\ b[4] = n
  BY <1>3, <1>6, Zenon
<1>8. Len(b) > 1 /\ ~(Len(b) < 4) /\ Len(b) # 5
  <2> DEFINE lb == Len(b)
             lt == Len(t)
  <2>1. lb = 4 + lt /\ lt # 1 /\ lt \in Nat
    BY <1>2, <1>6, LenProperties, Zenon
  <2> HIDE DEF lb, lt
  <2>2. lb > 1 /\ ~(lb < 4) /\ lb # 5
    BY <2>1
  <2> QED
    BY <2>2, Zenon DEF lb
<1>9. ParseControl(b) = ParsePeerPush(b)
  BY <1>7, <1>8, ControlIs, DispatchIs, Zenon
<1>10. ParsePeers(From(b, 5), b[4]) = Peers(s)
  BY <1>2, <1>6, Zenon
<1>11. ParsePeerPush(b) = [kind |-> "peer_push", peers |-> Peers(s)]
  BY <1>2, <1>7, <1>8, <1>10, Zenon DEF ParsePeerPush
<1>12. ParseControl(b) = Normal(m)
  BY <1>5, <1>9, <1>11, Zenon
<1> QED
  BY <1>6, <1>7, <1>12, Zenon DEF Understood, b, t, kept, s

\* A keepalive is understood, with an address or without.
LEMMA KeepaliveIsUnderstood ==
  ASSUME NEW m \in Keepalives
  PROVE  Understood(m) /\ Len(Encode(m)) = IF m.ip = None THEN 1 ELSE 5
<1> DEFINE i == m.ip
           z == <<0>>
           b == Encode(m)
<1>1. /\ m = [kind |-> "keepalive", ip |-> i] /\ i \in Octets(4) \cup {None} /\ m.kind = "keepalive"
  BY Zenon DEF Keepalives
<1>2. z \in Seq(Byte) /\ Len(z) = 1 /\ z[1] = 0 /\ z # <<>>
  BY DEF Byte
<1>3. Normal(m) = m
  BY <1>1, NormalIs, Zenon
<1>4. b = <<0>> \o (IF i = None THEN <<>> ELSE i)
  BY <1>1, EncodeIs, Zenon
<1> HIDE DEF i, b
<1>5. CASE i = None
  <2>1. b = z
    <3>1. b = <<0>> \o <<>>
      BY <1>4, <1>5, Zenon
    <3>2. z \o <<>> = z
      BY <1>2, ConcatEmptySeq, Zenon
    <3> QED
      BY <3>1, <3>2, Zenon
  <2> HIDE DEF z
  <2>2. ParseControl(b) = [kind |-> "keepalive", ip |-> None]
    BY <1>2, <2>1, Zenon DEF ParseControl
  <2> QED
    BY <1>1, <1>2, <1>3, <1>5, <2>1, <2>2, Zenon DEF Understood, b, i
<1>6. CASE i # None
  <2>1. i \in Octets(4)
    BY <1>1, <1>6, Zenon
  <2>2. i \in Seq(Byte) /\ Len(i) = 4
    BY <2>1, Zenon DEF Octets
  <2>3. b = z \o i
    BY <1>4, <1>6, Zenon
  <2> HIDE DEF z
  <2>4. z \o i \in Seq(Byte) /\ Len(z \o i) = Len(z) + Len(i) /\ Carries(z \o i, 0, z) /\ Carries(z \o i, Len(z), i)
    BY <1>2, <2>2, ConcatCarries, Zenon
  <2>5. b \in Seq(Byte) /\ Len(b) = Len(z) + Len(i) /\ Carries(b, 0, z) /\ Carries(b, Len(z), i)
    BY <2>3, <2>4, Zenon
  <2>6. Len(b) = 5 /\ 1 \in Nat /\ 1 + 1 = 2 /\ Len(b) # 1
    BY <1>2, <2>2, <2>5
  <2>7. b[1] = 0
    <3>1. \A j \in 1 .. Len(z) : b[0 + j] = z[j]
      BY <2>5, Zenon DEF Carries
    <3>2. 1 \in 1 .. Len(z) /\ 0 + 1 = 1
      BY <1>2
    <3>3. b[0 + 1] = z[1]
      BY <3>1, <3>2, Zenon
    <3> QED
      BY <1>2, <3>2, <3>3, Zenon
  <2>8. Carries(b, 1, i)
    BY <1>2, <2>5, Zenon
  <2>9. Field(b, 1 + 1, Len(i)) = i
    BY <2>2, <2>5, <2>6, <2>8, FieldIs, Zenon
  <2>10. Field(b, 2, 4) = i
    BY <2>2, <2>6, <2>9, Zenon
  <2>11. b # <<>>
    <3>1. Len(<<>>) = 0 /\ 0 # 5
      OBVIOUS
    <3> QED
      BY <2>6, <3>1, Zenon
  <2>12. ParseControl(b) = [kind |-> "keepalive", ip |-> i]
    BY <2>6, <2>7, <2>10, <2>11, Zenon DEF ParseControl
  <2> QED
    BY <1>1, <1>3, <1>6, <2>5, <2>6, <2>12, Zenon DEF Understood, b, i
<1> QED
  BY <1>5, <1>6, Zenon

\* Every message is understood whose names are written as they are.
LEMMA MessageIs ==
  Message = Keepalives \cup Adverts \cup Pushes \cup Requests \cup Assigns \cup NameAdverts \cup PeerPushes
  BY Zenon DEF Message, Keepalives, Adverts, Pushes, Requests, Assigns, NameAdverts, PeerPushes

\* The names of the two kinds of message that have any.
LEMMA NamesAre ==
  ASSUME NEW m
  PROVE  /\ m.kind = "name_advert" => NamesIn(m) = {m.name}
         /\ m.kind = "peer_push" => NamesIn(m) = {m.peers[i].name : i \in DOMAIN m.peers}
<1> DEFINE x == m.kind
           A == {m.name}
           B == {m.peers[i].name : i \in DOMAIN m.peers}
<1>1. NamesIn(m) = CASE x = "name_advert" -> A [] x = "peer_push" -> B [] OTHER -> {}
  BY Zenon DEF NamesIn
<1> HIDE DEF x, A, B
<1>2. (x = "name_advert" => NamesIn(m) = A) /\ (x = "peer_push" => NamesIn(m) = B)
  BY <1>1, SMT
<1> QED
  BY <1>2, Zenon DEF x, A, B

\* Every message whose names end whole is understood.
LEMMA MessageIsUnderstood ==
  ASSUME NEW m \in Message, \A n \in NamesIn(m) : GoodName(n)
  PROVE  Understood(m)
<1>1. CASE m \in Keepalives
  BY <1>1, KeepaliveIsUnderstood, Zenon
<1>2. CASE m \in Adverts
  BY <1>2, AdvertIsUnderstood, Zenon
<1>3. CASE m \in Pushes
  BY <1>3, PushIsUnderstood, Zenon
<1>4. CASE m \in Requests
  BY <1>4, RequestIsUnderstood, Zenon
<1>5. CASE m \in Assigns
  BY <1>5, AssignIsUnderstood, Zenon
<1>6. CASE m \in NameAdverts
  <2>1. m.kind = "name_advert"
    BY <1>6, Zenon DEF NameAdverts
  <2>2. GoodName(m.name)
    BY <2>1, NamesAre, Zenon
  <2> QED
    BY <1>6, <2>2, NameIsUnderstood, Zenon
<1>7. CASE m \in PeerPushes
  <2>1. m.kind = "peer_push" /\ m.peers \in Seq(PeerEntry)
    BY <1>7, Zenon DEF PeerPushes
  <2>2. DOMAIN m.peers = 1 .. Len(m.peers)
    BY <2>1, LenProperties, Zenon
  <2>3. \A i \in 1 .. Len(m.peers) : GoodName(m.peers[i].name)
    <3>1. NamesIn(m) = {m.peers[i].name : i \in DOMAIN m.peers}
      BY <2>1, NamesAre, Zenon
    <3> TAKE i \in 1 .. Len(m.peers)
    <3>2. i \in DOMAIN m.peers
      BY <2>2, Zenon
    <3>3. m.peers[i].name \in NamesIn(m)
      BY <3>1, <3>2, Zenon
    <3> QED
      BY <3>3, Zenon
  <2> QED
    BY <1>7, <2>3, PeersAreUnderstood, Zenon
<1> QED
  BY <1>1, <1>2, <1>3, <1>4, <1>5, <1>6, <1>7, MessageIs, Zenon

-----------------------------------------------------------------------------
(* Whatever is accepted is read to its last byte: adverts.                 *)

\* What was read from a payload w is a message, and the same when it is sent again; and as
\* many bytes as it was read from, unless name_bytes shortens a name.
TakenFrom(g, w) ==
  /\ g \in Message /\ Normal(g) = g
  /\ (\A n \in NamesIn(g) : EndsWhole(n)) =>
       (\A n \in NamesIn(g) : GoodName(n)) /\ Len(Encode(g)) = Len(w)

\* Lists that are within their limits and received as they are.
LEMMA ListsStay ==
  /\ \A R \in Seq(Network) :
       (Len(R) <= MAX_ROUTES /\ \A i \in 1 .. Len(R) : Canonical(R[i]) = R[i])
         => Upto(R, MAX_ROUTES) = R /\ Nets(R) = R
  /\ \A R \in Seq(PeerEntry) :
       (Len(R) <= MAX_PEERS /\ \A i \in 1 .. Len(R) : R[i] \in PeerEntry /\ Received(R[i]))
         => Upto(R, MAX_PEERS) = R /\ Peers(R) = R
<1>1. ASSUME NEW R \in Seq(Network), Len(R) <= MAX_ROUTES, \A i \in 1 .. Len(R) : Canonical(R[i]) = R[i]
      PROVE  Upto(R, MAX_ROUTES) = R /\ Nets(R) = R
  <2>1. Upto(R, MAX_ROUTES) = R
    BY <1>1, LimitsAre, UptoIs, Zenon
  <2>2. DOMAIN R = 1 .. Len(R) /\ R \in [1 .. Len(R) -> Network]
    BY LenProperties, Zenon
  <2>3. Nets(R) = [i \in 1 .. Len(R) |-> Canonical(R[i])]
    BY <2>1, <2>2, Zenon DEF Nets
  <2> QED
    BY <1>1, <2>1, <2>2, <2>3, Zenon
<1>2. ASSUME NEW R \in Seq(PeerEntry), Len(R) <= MAX_PEERS, \A i \in 1 .. Len(R) : R[i] \in PeerEntry /\ Received(R[i])
      PROVE  Upto(R, MAX_PEERS) = R /\ Peers(R) = R
  <2>1. Upto(R, MAX_PEERS) = R
    BY <1>2, LimitsAre, UptoIs, Zenon
  <2>2. DOMAIN R = 1 .. Len(R) /\ R \in [1 .. Len(R) -> PeerEntry]
    BY LenProperties, Zenon
  <2> DEFINE as(p) == [p EXCEPT !.name = Upto(p.name, MAX_NAME_LEN), !.ip6 = Specified(Ip6(p.ip6))]
  <2>3. Peers(R) = [i \in 1 .. Len(R) |-> as(R[i])]
    BY <2>1, <2>2, Zenon DEF Peers
  <2>4. \A i \in 1 .. Len(R) : as(R[i]) = R[i]
    BY <1>2, PeerIs, Zenon DEF Received
  <2> HIDE DEF as
  <2> QED
    BY <2>1, <2>2, <2>3, <2>4, Zenon
<1> QED
  BY <1>1, <1>2, Zenon

\* The other kinds have none.
LEMMA NoNames ==
  ASSUME NEW m, m.kind \notin {"name_advert", "peer_push"}
  PROVE  NamesIn(m) = {}
<1> DEFINE x == m.kind
           A == {m.name}
           B == {m.peers[i].name : i \in DOMAIN m.peers}
<1>1. NamesIn(m) = CASE x = "name_advert" -> A [] x = "peer_push" -> B [] OTHER -> {}
  BY Zenon DEF NamesIn
<1>2. x \notin {"name_advert", "peer_push"}
  BY Zenon
<1> HIDE DEF x, A, B
<1> QED
  BY <1>1, <1>2, SMT

\* A byte of a payload.
LEMMA ByteOf ==
  ASSUME NEW w \in Seq(Byte), NEW k \in Nat, 1 <= k, k <= Len(w)
  PROVE  w[k] \in Byte
<1>1. Len(w) \in Nat
  BY LenProperties, Zenon
<1>2. k \in 1 .. Len(w)
  BY <1>1
<1> QED
  BY <1>2, ElementOfSeq, Zenon

\* The fields of an advert.
LEMMA HeaderOf ==
  ASSUME NEW w \in Seq(Byte), ~(Len(w) < 24)
  PROVE  /\ Field(w, 4, 4) \in Octets(4) /\ Field(w, 8, 16) \in Octets(16)
         /\ From(w, 25) \in Seq(Byte) /\ Len(w) = 24 + Len(From(w, 25))
         /\ w[24] \in Byte /\ w[24] \in Nat
<1> DEFINE l == Len(w)
<1>1. l \in Nat
  BY LenProperties, Zenon
<1>2. ~(l < 24)
  BY Zenon
<1> HIDE DEF l
<1>3. /\ (4 + 4) - 1 <= l /\ (8 + 16) - 1 <= l /\ 25 <= l + 1 /\ 24 <= l
      /\ 4 \in Nat /\ 8 \in Nat /\ 16 \in Nat /\ 24 \in Nat /\ 25 \in Nat
      /\ 1 <= 4 /\ 1 <= 8 /\ 1 <= 24 /\ 1 <= 25
  BY <1>1, <1>2
<1>4. Field(w, 4, 4) \in Seq(Byte) /\ Len(Field(w, 4, 4)) = 4
  BY <1>3, FieldOf, Zenon DEF l
<1>5. Field(w, 8, 16) \in Seq(Byte) /\ Len(Field(w, 8, 16)) = 16
  BY <1>3, FieldOf, Zenon DEF l
<1>6. From(w, 25) \in Seq(Byte) /\ Len(From(w, 25)) = (l + 1) - 25
  BY <1>3, FromOf, Zenon DEF l
<1>7. l = 24 + Len(From(w, 25))
  BY <1>1, <1>6
<1>8. w[24] \in Byte
  BY <1>3, ByteOf, Zenon DEF l
<1>9. \A v \in Byte : v \in Nat
  BY DEF Byte
<1> QED
  BY <1>4, <1>5, <1>6, <1>7, <1>8, <1>9, Zenon DEF Octets, l

\* A route advert is read to its last byte (parse_control, RouteAdvert).
LEMMA AdvertIsTaken ==
  ASSUME NEW w \in Seq(Byte), NEW g, g = ParseAdvert(w), g # None
  PROVE  TakenFrom(g, w)
<1> DEFINE a == Low(w[3])
           i == Field(w, 4, 4)
           y == Field(w, 8, 16)
           t == From(w, 25)
           n == w[24]
           R == ParseRoutes(t, n)
           v == Specified(y)
<1>1. HEADER = 24 /\ 24 + 1 = 25
  BY DEF HEADER
<1>2. HEADER + 1 = 25
  BY <1>1, Zenon
<1>3. /\ ~(Len(w) < 24) /\ ~(n > MAX_ROUTES) /\ R # None
      /\ g = [kind |-> "route_advert", accept |-> a, ip |-> i, ip6 |-> v, routes |-> R]
  <2>1. ~(Len(w) < HEADER) /\ ~(w[HEADER] > MAX_ROUTES)
    BY Zenon DEF ParseAdvert
  <2>2. g = LET routes == ParseRoutes(From(w, HEADER + 1), w[HEADER]) IN
            IF routes = None THEN None
            ELSE [kind |-> "route_advert", accept |-> Low(w[3]), ip |-> Field(w, 4, 4),
                  ip6 |-> Specified(Field(w, 8, 16)), routes |-> routes]
    BY <2>1, Zenon DEF ParseAdvert
  <2>3. ParseRoutes(From(w, HEADER + 1), w[HEADER]) = R
    BY <1>1, <1>2, Zenon
  <2>4. g = IF R = None THEN None
            ELSE [kind |-> "route_advert", accept |-> a, ip |-> i, ip6 |-> v, routes |-> R]
    BY <2>2, <2>3, Zenon
  <2> HIDE DEF R
  <2> QED
    BY <1>1, <2>1, <2>4, Zenon
<1>4. /\ i \in Octets(4) /\ y \in Octets(16) /\ t \in Seq(Byte) /\ Len(w) = 24 + Len(t)
      /\ n \in Byte /\ n \in Nat
  BY <1>3, HeaderOf, Zenon
<1>5. R \in Seq(Network) /\ Len(R) = n /\ (\A k \in 1 .. n : Canonical(R[k]) = R[k])
      /\ Len(Joined(RouteParts(R))) = Len(t)
  BY <1>3, <1>4, RoutesAreTaken, Zenon
<1>6. v \in OptIp6 /\ Specified(Ip6(v)) = v
  BY <1>4, Ip6Is, Zenon
<1>7. a \in BOOLEAN
  BY Zenon DEF Low
<1> HIDE DEF a, i, y, t, n, R, v
<1>8. n <= MAX_ROUTES
  BY <1>3, <1>4, LimitsAre, SMT
<1>9. Upto(R, MAX_ROUTES) = R /\ Nets(R) = R
  BY <1>5, <1>8, ListsStay, Zenon
<1> DEFINE d == [kind |-> "route_advert", accept |-> a, ip |-> i, ip6 |-> v, routes |-> R]
<1>10. d \in Adverts /\ d.kind = "route_advert" /\ d.routes = R /\ d.ip6 = v
  BY <1>4, <1>5, <1>6, <1>7, Zenon DEF Adverts
<1>11. g = d
  BY <1>3, Zenon
<1> HIDE DEF d
<1>12. g \in Adverts /\ g.kind = "route_advert" /\ g.routes = R /\ g.ip6 = v
  BY <1>10, <1>11, Zenon
<1>13. Normal(g) = g
  <2>1. Normal(g) = [g EXCEPT !.routes = Nets(g.routes), !.ip6 = Specified(Ip6(g.ip6))]
    BY <1>12, NormalIs, Zenon
  <2>2. Normal(g) = [g EXCEPT !.routes = R, !.ip6 = v]
    BY <1>6, <1>9, <1>12, <2>1, Zenon
  <2>3. [d EXCEPT !.routes = R] = d
    BY DEF d
  <2>4. [d EXCEPT !.ip6 = v] = d
    BY DEF d
  <2>5. [d EXCEPT !.routes = R, !.ip6 = v] = [[d EXCEPT !.routes = R] EXCEPT !.ip6 = v]
    BY DEF d
  <2> QED
    BY <1>11, <2>2, <2>3, <2>4, <2>5, Zenon
<1>14. Len(Encode(g)) = Len(w)
  <2>1. Len(Encode(g)) = 24 + Len(Joined(RouteParts(Upto(g.routes, MAX_ROUTES))))
    BY <1>12, AdvertIsUnderstood, Zenon
  <2>2. Len(Encode(g)) = 24 + Len(Joined(RouteParts(R)))
    BY <1>9, <1>12, <2>1, Zenon
  <2> QED
    BY <1>4, <1>5, <2>2, Zenon
<1>15. NamesIn(g) = {}
  BY <1>12, NoNames, SMT
<1> QED
  BY <1>13, <1>14, <1>15, <1>12, MessageIs, Zenon DEF TakenFrom

-----------------------------------------------------------------------------
(* Whatever is accepted is read to its last byte: the other messages.      *)

\* What follows the header of a push.
LEMMA PushOf ==
  ASSUME NEW w \in Seq(Byte), ~(Len(w) < 4)
  PROVE  /\ From(w, 5) \in Seq(Byte) /\ Len(w) = 4 + Len(From(w, 5))
         /\ w[4] \in Byte /\ w[4] \in Nat
<1> DEFINE l == Len(w)
<1>1. l \in Nat
  BY LenProperties, Zenon
<1>2. ~(l < 4)
  BY Zenon
<1> HIDE DEF l
<1>3. 5 <= l + 1 /\ 4 <= l /\ 4 \in Nat /\ 5 \in Nat /\ 1 <= 4 /\ 1 <= 5
  BY <1>1, <1>2
<1>4. From(w, 5) \in Seq(Byte) /\ Len(From(w, 5)) = (l + 1) - 5
  BY <1>3, FromOf, Zenon DEF l
<1>5. l = 4 + Len(From(w, 5))
  BY <1>1, <1>4
<1>6. w[4] \in Byte
  BY <1>3, ByteOf, Zenon DEF l
<1>7. \A v \in Byte : v \in Nat
  BY DEF Byte
<1> QED
  BY <1>4, <1>5, <1>6, <1>7, Zenon DEF l

\* A route push is read to its last byte (parse_control, RoutePush).
LEMMA PushIsTaken ==
  ASSUME NEW w \in Seq(Byte), NEW g, g = ParsePush(w), g # None
  PROVE  TakenFrom(g, w)
<1> DEFINE t == From(w, 5)
           n == w[4]
           R == ParseRoutes(t, n)
           d == [kind |-> "route_push", routes |-> R]
<1>1. ~(Len(w) < 4) /\ ~(n > MAX_ROUTES)
  BY Zenon DEF ParsePush
<1>2. g = IF R = None THEN None ELSE d
  BY <1>1, Zenon DEF ParsePush
<1>3. t \in Seq(Byte) /\ Len(w) = 4 + Len(t) /\ n \in Byte /\ n \in Nat
  BY <1>1, PushOf, Zenon
<1>4. R # None /\ g = d
  BY <1>2, Zenon
<1>5. R \in Seq(Network) /\ Len(R) = n /\ (\A k \in 1 .. n : Canonical(R[k]) = R[k])
      /\ Len(Joined(RouteParts(R))) = Len(t)
  BY <1>3, <1>4, RoutesAreTaken, Zenon
<1> HIDE DEF t, n, R
<1>6. n <= MAX_ROUTES
  BY <1>1, <1>3, LimitsAre, SMT
<1>7. Upto(R, MAX_ROUTES) = R /\ Nets(R) = R
  BY <1>5, <1>6, ListsStay, Zenon
<1>8. d \in Pushes /\ d.kind = "route_push" /\ d.routes = R
  BY <1>5, Zenon DEF Pushes
<1> HIDE DEF d
<1>9. g \in Pushes /\ g.kind = "route_push" /\ g.routes = R
  BY <1>4, <1>8, Zenon
<1>10. Normal(g) = g
  <2>1. Normal(g) = [g EXCEPT !.routes = Nets(g.routes)]
    BY <1>9, NormalIs, Zenon
  <2>2. [d EXCEPT !.routes = R] = d
    BY DEF d
  <2> QED
    BY <1>4, <1>7, <1>9, <2>1, <2>2, Zenon
<1>11. Len(Encode(g)) = Len(w)
  <2>1. Len(Encode(g)) = 4 + Len(Joined(RouteParts(Upto(g.routes, MAX_ROUTES))))
    BY <1>9, PushIsUnderstood, Zenon
  <2>2. Len(Encode(g)) = 4 + Len(Joined(RouteParts(R)))
    BY <1>7, <1>9, <2>1, Zenon
  <2> QED
    BY <1>3, <1>5, <2>2, Zenon
<1>12. NamesIn(g) = {}
  BY <1>9, NoNames, SMT
<1> QED
  BY <1>9, <1>10, <1>11, <1>12, MessageIs, Zenon DEF TakenFrom

\* A field inside a payload of a known length.
LEMMA FieldWithin ==
  ASSUME NEW w \in Seq(Byte), NEW L \in Nat, Len(w) = L, NEW p \in Nat, NEW n \in Nat,
         1 <= p, (p + n) - 1 <= L
  PROVE  Field(w, p, n) \in Octets(n)
<1>1. Field(w, p, n) \in Seq(Byte) /\ Len(Field(w, p, n)) = n
  BY FieldOf, Zenon
<1> QED
  BY <1>1, Zenon DEF Octets

\* An address request is read to its last byte (parse_control, AddrAssignReq).
LEMMA RequestIsTaken ==
  ASSUME NEW w \in Seq(Byte), NEW g, g = ParseAssignReq(w), g # None
  PROVE  TakenFrom(g, w)
<1> DEFINE f == w[3]
           x == Field(w, 4, 16)
           i == Field(w, 20, 4)
           y == Field(w, 24, 16)
           v == Specified(y)
           d == [kind |-> "assign_req", flags |-> f, node |-> x, ip |-> i, ip6 |-> v]
<1>1. Len(w) = 39 /\ g = d
  <2>1. Len(w) = ASSIGN_REQ_LEN
    BY Zenon DEF ParseAssignReq
  <2> QED
    BY <2>1, Zenon DEF ParseAssignReq, ASSIGN_REQ_LEN
<1>2. /\ 39 \in Nat /\ 3 \in Nat /\ 4 \in Nat /\ 20 \in Nat /\ 24 \in Nat /\ 16 \in Nat
      /\ 1 <= 3 /\ 1 <= 4 /\ 1 <= 20 /\ 1 <= 24 /\ 3 <= 39
      /\ (4 + 16) - 1 <= 39 /\ (20 + 4) - 1 <= 39 /\ (24 + 16) - 1 <= 39
  OBVIOUS
<1>3. f \in Byte
  BY <1>1, <1>2, ByteOf, Zenon
<1>4. x \in Octets(16)
  BY <1>1, <1>2, FieldWithin, Zenon
<1>5. i \in Octets(4)
  BY <1>1, <1>2, FieldWithin, Zenon
<1>6. y \in Octets(16)
  BY <1>1, <1>2, FieldWithin, Zenon
<1>7. v \in OptIp6 /\ Specified(Ip6(v)) = v
  BY <1>6, Ip6Is, Zenon
<1> HIDE DEF f, x, i, y, v
<1>8. d \in Requests /\ d.kind = "assign_req" /\ d.ip6 = v
  BY <1>3, <1>4, <1>5, <1>7, Zenon DEF Requests
<1> HIDE DEF d
<1>9. g \in Requests /\ g.kind = "assign_req" /\ g.ip6 = v
  BY <1>1, <1>8, Zenon
<1>10. Normal(g) = g
  <2>1. Normal(g) = [g EXCEPT !.ip6 = Specified(Ip6(g.ip6))]
    BY <1>9, NormalIs, Zenon
  <2>2. [d EXCEPT !.ip6 = v] = d
    BY DEF d
  <2> QED
    BY <1>1, <1>7, <1>9, <2>1, <2>2, Zenon
<1>11. Len(Encode(g)) = Len(w)
  BY <1>1, <1>9, RequestIsUnderstood, Zenon
<1>12. NamesIn(g) = {}
  BY <1>9, NoNames, SMT
<1> QED
  BY <1>9, <1>10, <1>11, <1>12, MessageIs, Zenon DEF TakenFrom

\* An assignment is read to its last byte (parse_control, AddrAssign).
LEMMA AssignIsTaken ==
  ASSUME NEW w \in Seq(Byte), NEW g, g = ParseAssign(w), g # None
  PROVE  TakenFrom(g, w)
<1> DEFINE st == w[3]
           i == Field(w, 4, 4)
           k == Field(w, 8, 4)
           pr == Field(w, 12, 4)
           y == Field(w, 16, 16)
           l == w[32]
           f == w[33]
           t == Field(w, 34, 4)
           v == IF l = 0 THEN None ELSE y
           d == [kind |-> "assign", status |-> st, ip |-> i, mask |-> k, peer |-> pr, ip6 |-> v,
                 plen6 |-> l, flags |-> f, ttl |-> t]
<1>1. Len(w) = 37 /\ ~(st > 2) /\ g = d
  <2>1. Len(w) = ASSIGN_LEN /\ ~(st > 2)
    BY Zenon DEF ParseAssign
  <2> QED
    BY <2>1, Zenon DEF ParseAssign, ASSIGN_LEN
<1>2. /\ 37 \in Nat /\ 3 \in Nat /\ 4 \in Nat /\ 8 \in Nat /\ 12 \in Nat /\ 16 \in Nat /\ 32 \in Nat
      /\ 33 \in Nat /\ 34 \in Nat
      /\ 1 <= 3 /\ 1 <= 4 /\ 1 <= 8 /\ 1 <= 12 /\ 1 <= 16 /\ 1 <= 32 /\ 1 <= 33 /\ 1 <= 34
      /\ 3 <= 37 /\ 32 <= 37 /\ 33 <= 37
      /\ (4 + 4) - 1 <= 37 /\ (8 + 4) - 1 <= 37 /\ (12 + 4) - 1 <= 37 /\ (16 + 16) - 1 <= 37
      /\ (34 + 4) - 1 <= 37
  OBVIOUS
<1>3. st \in Byte /\ l \in Byte /\ f \in Byte
  BY <1>1, <1>2, ByteOf, Zenon
<1>4. i \in Octets(4) /\ k \in Octets(4) /\ pr \in Octets(4)
  BY <1>1, <1>2, FieldWithin, Zenon
<1>5. y \in Octets(16) /\ t \in Octets(4)
  BY <1>1, <1>2, FieldWithin, Zenon
<1>6. v \in OptIp6 /\ (IF l = 0 THEN None ELSE Ip6(v)) = v
  <2>1. y # None
    BY <1>5, Ip6Is, Zenon
  <2>2. CASE l = 0
    BY <2>2, Zenon DEF OptIp6
  <2>3. CASE l # 0
    BY <1>5, <2>1, <2>3, Zenon DEF OptIp6, Ip6
  <2> QED
    BY <2>2, <2>3, Zenon
<1> HIDE DEF st, i, k, pr, y, l, f, t
<1>7. st \in 0..2
  <2>1. st \in Byte /\ ~(st > 2)
    BY <1>1, <1>3, Zenon
  <2> QED
    BY <2>1, SMT DEF Byte
<1> HIDE DEF v
<1>8. d \in Assigns /\ d.kind = "assign" /\ d.ip6 = v /\ d.plen6 = l
  BY <1>3, <1>4, <1>5, <1>6, <1>7, Zenon DEF Assigns
<1> HIDE DEF d
<1>9. g \in Assigns /\ g.kind = "assign" /\ g.ip6 = v /\ g.plen6 = l
  BY <1>1, <1>8, Zenon
<1>10. Normal(g) = g
  <2>1. Normal(g) = [g EXCEPT !.ip6 = IF g.plen6 = 0 THEN None ELSE Ip6(g.ip6)]
    BY <1>9, NormalIs, Zenon
  <2>2. (IF g.plen6 = 0 THEN None ELSE Ip6(g.ip6)) = v
    BY <1>6, <1>9, Zenon
  <2>3. [d EXCEPT !.ip6 = v] = d
    BY DEF d
  <2>4. Normal(g) = [g EXCEPT !.ip6 = v]
    BY <2>1, <2>2, Zenon
  <2> QED
    BY <1>1, <2>3, <2>4, Zenon
<1>11. Len(Encode(g)) = Len(w)
  BY <1>1, <1>9, AssignIsUnderstood, Zenon
<1>12. NamesIn(g) = {}
  BY <1>9, NoNames, SMT
<1> QED
  BY <1>9, <1>10, <1>11, <1>12, MessageIs, Zenon DEF TakenFrom

\* A name advert is read to its last byte (parse_control, NameAdvert).
LEMMA NameIsTaken ==
  ASSUME NEW w \in Seq(Byte), NEW g, g = ParseName(w), g # None
  PROVE  TakenFrom(g, w)
<1> DEFINE a == Low(w[3])
           i == Field(w, 4, 4)
           y == Field(w, 8, 16)
           t == From(w, 25)
           n == w[24]
           v == Specified(y)
           d == [kind |-> "name_advert", want |-> a, ip |-> i, ip6 |-> v, name |-> t]
<1>1. HEADER = 24 /\ 24 + 1 = 25
  BY DEF HEADER
<1>2. ~(Len(w) < 24) /\ ~(n > MAX_NAME_LEN) /\ Len(w) = 24 + n /\ Utf8(t) /\ g = d
  <2>1. /\ ~(Len(w) < HEADER) /\ ~(w[HEADER] > MAX_NAME_LEN) /\ ~(Len(w) # HEADER + w[HEADER])
        /\ ~(~Utf8(From(w, HEADER + 1)))
    BY Zenon DEF ParseName
  <2>2. g = [kind |-> "name_advert", want |-> Low(w[3]), ip |-> Field(w, 4, 4),
             ip6 |-> Specified(Field(w, 8, 16)), name |-> From(w, HEADER + 1)]
    BY <2>1, Zenon DEF ParseName
  <2>3. HEADER + 1 = 25
    BY <1>1, Zenon
  <2> QED
    BY <1>1, <2>1, <2>2, <2>3, Zenon
<1>3. /\ i \in Octets(4) /\ y \in Octets(16) /\ t \in Seq(Byte) /\ Len(w) = 24 + Len(t)
      /\ n \in Byte /\ n \in Nat
  BY <1>2, HeaderOf, Zenon
<1>4. v \in OptIp6 /\ Specified(Ip6(v)) = v
  BY <1>3, Ip6Is, Zenon
<1>5. a \in BOOLEAN
  BY Zenon DEF Low
<1> HIDE DEF a, i, y, t, n, v
<1>6. Len(t) <= MAX_NAME_LEN
  <2> DEFINE lt == Len(t)
             lw == Len(w)
  <2>1. lt \in Nat /\ lw = 24 + lt /\ lw = 24 + n /\ ~(n > MAX_NAME_LEN) /\ n \in Nat /\ MAX_NAME_LEN \in Nat
    BY <1>2, <1>3, LenProperties, LimitsAre, Zenon
  <2> HIDE DEF lt, lw
  <2>2. lt <= MAX_NAME_LEN
    BY <2>1
  <2> QED
    BY <2>2, Zenon DEF lt
<1>7. Upto(t, MAX_NAME_LEN) = t
  BY <1>3, <1>6, LimitsAre, UptoIs, Zenon
<1>8. d \in NameAdverts /\ d.kind = "name_advert" /\ d.name = t /\ d.ip6 = v
  BY <1>3, <1>4, <1>5, Zenon DEF NameAdverts
<1> HIDE DEF d
<1>9. g \in NameAdverts /\ g.kind = "name_advert" /\ g.name = t /\ g.ip6 = v
  BY <1>2, <1>8, Zenon
<1>10. Normal(g) = g
  <2>1. Normal(g) = [g EXCEPT !.name = Upto(g.name, MAX_NAME_LEN), !.ip6 = Specified(Ip6(g.ip6))]
    BY <1>9, NormalIs, Zenon
  <2>2. Normal(g) = [g EXCEPT !.name = t, !.ip6 = v]
    BY <1>4, <1>7, <1>9, <2>1, Zenon
  <2>3. [d EXCEPT !.name = t] = d
    BY DEF d
  <2>4. [d EXCEPT !.ip6 = v] = d
    BY DEF d
  <2>5. [d EXCEPT !.name = t, !.ip6 = v] = [[d EXCEPT !.name = t] EXCEPT !.ip6 = v]
    BY DEF d
  <2> QED
    BY <1>2, <2>2, <2>3, <2>4, <2>5, Zenon
<1>11. NamesIn(g) = {t}
  BY <1>9, NamesAre, Zenon
<1>12. ASSUME EndsWhole(t) PROVE GoodName(t) /\ Len(Encode(g)) = Len(w)
  <2>1. GoodName(t)
    BY <1>2, <1>7, <1>12, Zenon DEF GoodName
  <2>2. Len(Encode(g)) = 24 + Len(Upto(g.name, MAX_NAME_LEN))
    BY <1>9, <2>1, NameIsUnderstood, Zenon
  <2> QED
    BY <1>3, <1>7, <1>9, <2>1, <2>2, Zenon
<1> QED
  BY <1>9, <1>10, <1>11, <1>12, MessageIs, Zenon DEF TakenFrom

\* A peer push is read to its last byte (parse_control, PeerPush).
LEMMA PeerPushIsTaken ==
  ASSUME NEW w \in Seq(Byte), NEW g, g = ParsePeerPush(w), g # None
  PROVE  TakenFrom(g, w)
<1> DEFINE t == From(w, 5)
           n == w[4]
           R == ParsePeers(t, n)
           d == [kind |-> "peer_push", peers |-> R]
<1>1. ~(Len(w) < 4) /\ ~(n > MAX_PEERS)
  BY Zenon DEF ParsePeerPush
<1>2. g = IF R = None THEN None ELSE d
  BY <1>1, Zenon DEF ParsePeerPush
<1>3. t \in Seq(Byte) /\ Len(w) = 4 + Len(t) /\ n \in Byte /\ n \in Nat
  BY <1>1, PushOf, Zenon
<1>4. R # None /\ g = d
  BY <1>2, Zenon
<1>5. R \in Seq(PeerEntry) /\ Len(R) = n /\ (\A k \in 1 .. n : R[k] \in PeerEntry /\ Received(R[k]))
      /\ ((\A k \in 1 .. n : EndsWhole(R[k].name)) => Len(Joined(PeerParts(R))) = Len(t))
  BY <1>3, <1>4, PeersAreTaken, Zenon
<1> HIDE DEF t, n, R
<1>6. n <= MAX_PEERS
  BY <1>1, <1>3, LimitsAre, SMT
<1>7. Upto(R, MAX_PEERS) = R /\ Peers(R) = R
  BY <1>5, <1>6, ListsStay, Zenon
<1>8. d \in PeerPushes /\ d.kind = "peer_push" /\ d.peers = R
  BY <1>5, Zenon DEF PeerPushes
<1> HIDE DEF d
<1>9. g \in PeerPushes /\ g.kind = "peer_push" /\ g.peers = R
  BY <1>4, <1>8, Zenon
<1>10. Normal(g) = g
  <2>1. Normal(g) = [g EXCEPT !.peers = Peers(g.peers)]
    BY <1>9, NormalIs, Zenon
  <2>2. [d EXCEPT !.peers = R] = d
    BY DEF d
  <2> QED
    BY <1>4, <1>7, <1>9, <2>1, <2>2, Zenon
<1>11. NamesIn(g) = {R[k].name : k \in 1 .. n}
  <2>1. g.kind = "peer_push" => NamesIn(g) = {g.peers[k].name : k \in DOMAIN g.peers}
    BY NamesAre, SMT
  <2>2. DOMAIN R = 1 .. n
    BY <1>5, LenProperties, Zenon
  <2> QED
    BY <1>9, <2>1, <2>2, Zenon
<1>12. ASSUME \A m \in NamesIn(g) : EndsWhole(m)
       PROVE  (\A m \in NamesIn(g) : GoodName(m)) /\ Len(Encode(g)) = Len(w)
  <2>1. \A k \in 1 .. n : EndsWhole(R[k].name)
    BY <1>11, <1>12, Zenon
  <2>2. \A k \in 1 .. n : GoodName(R[k].name)
    BY <1>5, <2>1, WholeIsGood, Zenon
  <2>3. Len(Joined(PeerParts(R))) = Len(t)
    BY <1>5, <2>1, Zenon
  <2>4. \A k \in 1 .. Len(g.peers) : GoodName(g.peers[k].name)
    BY <1>5, <1>9, <2>2, Zenon
  <2>5. Len(Encode(g)) = 4 + Len(Joined(PeerParts(Upto(g.peers, MAX_PEERS))))
    BY <1>9, <2>4, PeersAreUnderstood, Zenon
  <2>6. Len(Encode(g)) = Len(w)
    BY <1>3, <1>7, <1>9, <2>3, <2>5, Zenon
  <2> QED
    BY <1>11, <2>2, <2>6, Zenon
<1> QED
  BY <1>9, <1>10, <1>12, MessageIs, Zenon DEF TakenFrom

\* A keepalive is read to its last byte.
LEMMA KeepaliveIsTaken ==
  ASSUME NEW w \in Seq(Byte), NEW g, NEW i \in Octets(4) \cup {None},
         g = [kind |-> "keepalive", ip |-> i], Len(w) = IF i = None THEN 1 ELSE 5
  PROVE  TakenFrom(g, w)
<1>1. g \in Keepalives /\ g.kind = "keepalive" /\ g.ip = i
  BY Zenon DEF Keepalives
<1>2. Len(Encode(g)) = Len(w)
  BY <1>1, KeepaliveIsUnderstood, Zenon
<1>3. Normal(g) = g
  BY <1>1, NormalIs, Zenon
<1>4. NamesIn(g) = {}
  BY <1>1, NoNames, SMT
<1> QED
  BY <1>1, <1>2, <1>3, <1>4, MessageIs, Zenon DEF TakenFrom

\* Whatever payload parse_control accepts, it reads to the last byte.
LEMMA ControlIsTaken ==
  ASSUME NEW w \in Seq(Byte), NEW g, g = ParseControl(w), g # None
  PROVE  TakenFrom(g, w)
<1>1. w # <<>> /\ w[1] = 0
  BY Zenon DEF ParseControl
<1>2. CASE Len(w) = 1
  <2>1. g = [kind |-> "keepalive", ip |-> None]
    BY <1>1, <1>2, Zenon DEF ParseControl
  <2> QED
    BY <1>2, <2>1, KeepaliveIsTaken, Zenon
<1>3. CASE Len(w) = 5
  <2> DEFINE f == Field(w, 2, 4)
  <2>1. 5 # 1 /\ 5 \in Nat /\ 2 \in Nat /\ 4 \in Nat /\ 1 <= 2 /\ (2 + 4) - 1 <= 5
    OBVIOUS
  <2>2. g = [kind |-> "keepalive", ip |-> f]
    BY <1>1, <1>3, <2>1, Zenon DEF ParseControl
  <2>3. f \in Octets(4)
    BY <1>3, <2>1, FieldWithin, Zenon
  <2>4. f # None
    BY <2>3, CodecAssumption, Zenon DEF Octets
  <2> HIDE DEF f
  <2> QED
    BY <1>3, <2>2, <2>3, <2>4, KeepaliveIsTaken, Zenon
<1>4. CASE Len(w) # 1 /\ Len(w) # 5
  <2>1. g = Dispatch(w)
    BY <1>1, <1>4, Zenon DEF ParseControl, Dispatch
  <2>2. w[2] \in {1, 2, 3, 4, 5, 6}
    BY <2>1, DispatchIs, Zenon
  <2>3. CASE w[2] = 1
    BY <2>1, <2>3, DispatchIs, AdvertIsTaken, Zenon
  <2>4. CASE w[2] = 2
    BY <2>1, <2>4, DispatchIs, PushIsTaken, Zenon
  <2>5. CASE w[2] = 3
    BY <2>1, <2>5, DispatchIs, RequestIsTaken, Zenon
  <2>6. CASE w[2] = 4
    BY <2>1, <2>6, DispatchIs, AssignIsTaken, Zenon
  <2>7. CASE w[2] = 5
    BY <2>1, <2>7, DispatchIs, NameIsTaken, Zenon
  <2>8. CASE w[2] = 6
    BY <2>1, <2>8, DispatchIs, PeerPushIsTaken, Zenon
  <2> QED
    BY <2>2, <2>3, <2>4, <2>5, <2>6, <2>7, <2>8, Zenon
<1> QED
  BY <1>2, <1>3, <1>4, Zenon

-----------------------------------------------------------------------------
(* The inductive invariant and the theorem.                                *)

\* What is under way is bytes, and each stage says what the one before it left.
CodecInv ==
    /\ wire \in Seq(Byte)
    /\ stage \in {"idle", "sent", "changed", "parsed", "guessed"}
    /\ stage \in {"sent", "parsed"} => sent \in Messages /\ wire = Encode(sent)
    /\ stage \in {"parsed", "guessed"} => got = ParseControl(wire)

\* What this program sends is understood.
LEMMA SentIsUnderstood ==
  ASSUME NEW m \in Messages
  PROVE  Understood(m)
<1>1. m \in Message /\ \A n \in NamesIn(m) : n \in Seq(0 .. 127)
  BY CodecAssumption, Zenon
<1>2. \A n \in NamesIn(m) : GoodName(n)
  BY <1>1, AsciiIsGood, Zenon
<1> QED
  BY <1>1, <1>2, MessageIsUnderstood, Zenon

\* A payload that differs in a byte, or by one, is bytes.
LEMMA OtherBytes ==
  ASSUME NEW w \in Seq(Byte), NEW b \in Byte
  PROVE  /\ \A i \in 2 .. Len(w) : [w EXCEPT ![i] = b] \in Seq(Byte)
         /\ Upto(w, Len(w) - 1) \in Seq(Byte)
         /\ Append(w, b) \in Seq(Byte)
<1> DEFINE l == Len(w)
<1>1. l \in Nat /\ w \in [1 .. l -> Byte]
  BY LenProperties, Zenon
<1>2. ASSUME NEW i \in 2 .. Len(w) PROVE [w EXCEPT ![i] = b] \in Seq(Byte)
  <2>1. i \in 1 .. l
    <3>1. i \in 2 .. l
      BY <1>2, Zenon
    <3> HIDE DEF l
    <3> QED
      BY <1>1, <3>1
  <2> QED
    BY <2>1, ExceptSeq, Zenon
<1>3. Upto(w, l - 1) \in Seq(Byte)
  <2>1. CASE ~(l > l - 1)
    BY <2>1, Zenon DEF Upto
  <2>2. CASE l > l - 1
    <3>1. Upto(w, l - 1) = SubSeq(w, 1, l - 1)
      BY <2>2, Zenon DEF Upto
    <3> HIDE DEF l
    <3>2. 1 \in Int /\ l - 1 \in Int
      BY <1>1
    <3>3. \A i \in 1 .. l - 1 : i \in 1 .. l
      BY <1>1
    <3>4. \A i \in 1 .. l : w[i] \in Byte
      BY <1>1, Zenon
    <3>5. \A i \in 1 .. l - 1 : w[i] \in Byte
      BY <3>3, <3>4, Zenon
    <3>6. SubSeq(w, 1, l - 1) \in Seq(Byte)
      BY <3>2, <3>5, SubSeqProperties, Zenon
    <3> QED
      BY <3>1, <3>6, Zenon
  <2> QED
    BY <2>1, <2>2, Zenon
<1>4. Append(w, b) \in Seq(Byte)
  BY Appended, Zenon
<1> QED
  BY <1>2, <1>3, <1>4, Zenon

\* Every step keeps CodecInv.
LEMMA CodecStep ==
  ASSUME CodecInv, [CodecNext]_cvars
  PROVE  CodecInv'
<1> USE DEF CodecInv
<1>1. ASSUME NEW m \in Messages, Send(m) PROVE CodecInv'
  <2>1. Encode(m) \in Seq(Byte)
    BY SentIsUnderstood, Zenon DEF Understood
  <2> QED
    BY <1>1, <2>1 DEF Send
<1>2. ASSUME NEW b \in Bytes, Differs(b) PROVE CodecInv'
  <2>1. b \in Byte
    BY CodecAssumption, Zenon
  <2>2. wire' \in Seq(Byte)
    BY <1>2, <2>1, OtherBytes, Zenon DEF Differs
  <2>3. stage' = "changed"
    BY <1>2, Zenon DEF Differs
  <2> QED
    BY <2>2, <2>3
<1>3. CASE Receive
  BY <1>3 DEF Receive
<1>4. CASE UNCHANGED cvars
  BY <1>4 DEF cvars
<1> QED
  BY <1>1, <1>2, <1>3, <1>4, Zenon DEF CodecNext

\* Every control message sent is understood, and every payload accepted is understood
\* to its last byte, for every set of messages, of bytes and every limit
\* (mesh.rs encode, parse_control).
THEOREM ControlIsSafe == CodecSpec => []ControlIsUnderstood
<1>1. CodecInit => CodecInv
  BY EmptySeq DEF CodecInit, CodecInv
<1>2. CodecInv /\ [CodecNext]_cvars => CodecInv'
  BY CodecStep
<1>3. CodecInv => ControlIsUnderstood
  <2> SUFFICES ASSUME CodecInv PROVE ControlIsUnderstood
    OBVIOUS
  <2>1. ASSUME stage = "parsed" PROVE got = Normal(sent)
    <3>1. sent \in Messages /\ wire = Encode(sent) /\ got = ParseControl(wire)
      BY <2>1, Zenon DEF CodecInv
    <3> QED
      BY <3>1, SentIsUnderstood, Zenon DEF Understood
  <2>2. ASSUME stage = "guessed", got # None, \A n \in NamesIn(got) : EndsWhole(n)
        PROVE  Len(Encode(got)) = Len(wire) /\ ParseControl(Encode(got)) = got
    <3>1. wire \in Seq(Byte) /\ got = ParseControl(wire)
      BY <2>2, Zenon DEF CodecInv
    <3>2. TakenFrom(got, wire)
      BY <2>2, <3>1, ControlIsTaken, Zenon
    <3>3. /\ got \in Message /\ Normal(got) = got /\ (\A n \in NamesIn(got) : GoodName(n))
          /\ Len(Encode(got)) = Len(wire)
      BY <2>2, <3>2, Zenon DEF TakenFrom
    <3>4. Understood(got)
      BY <3>3, MessageIsUnderstood, Zenon
    <3> QED
      BY <3>3, <3>4, Zenon DEF Understood
  <2> QED
    BY <2>1, <2>2, Zenon DEF ControlIsUnderstood
<1> QED
  BY <1>1, <1>2, <1>3, PTL DEF CodecSpec
=============================================================================
