------------------------------ MODULE DnsWire ------------------------------
(***************************************************************************)
(* DNS wire parsing for the split-DNS resolver, src/policy/dns.rs: the     *)
(* reader of possibly compressed names as a step machine (read_name), the  *)
(* skipper the record walkers rely on (skip_name), and the replies the     *)
(* resolver synthesizes for Magic DNS names (build_response, build_nxdomain) *)
(* read back by the functions that read upstream answers (question,        *)
(* a_records, aaaa_records, min_ttl).                                      *)
(*                                                                         *)
(* A message is a sequence of bytes behind a header of HEADER_LEN bytes;   *)
(* offsets count from 0 as in the source.                                  *)
(***************************************************************************)
EXTENDS Naturals, Sequences, Absent

CONSTANTS Inputs,     \* messages handed to the reader
          Answers,    \* address lists handed to build_response: 4- or 16-byte addresses
          Ttl         \* their TTL

\* question and question_name hand read_name no message shorter than a header; the
\* number of records goes into 16 bits.
ASSUME WireAssumption ==
    /\ Inputs \subseteq Seq(0..255) /\ \A m \in Inputs : Len(m) >= 12
    /\ Answers \subseteq Seq(Seq(0..255)) /\ \A a \in Answers : Len(a) < 65536
    /\ Ttl \in Nat /\ Ttl \div 65536 < 65536
    /\ None \notin Nat

HEADER_LEN == 12
TYPE_A == 1
TYPE_AAAA == 28
CLASS_IN == 1

VARIABLES msg,      \* the message
          pos, budget, jumped, after, labels,   \* the locals of read_name
          seen,     \* history: the offsets the reader has stood on
          done,     \* "reading", then what it returned: "some" or "none"
          reply     \* what build_response or build_nxdomain made of the query

reader == <<pos, budget, jumped, after, labels, seen, done>>
wvars == <<msg, reader, reply>>

At(m, p) == m[p + 1]
Slice(m, p, n) == SubSeq(m, p + 1, p + n)
Short(m, p) == 256 * At(m, p) + At(m, p + 1)
Long(m, p) == 65536 * Short(m, p) + Short(m, p + 2)
Kind(byte) == CASE byte < 64 -> "label" [] byte >= 192 -> "pointer" [] OTHER -> "reserved"

Lower(byte) == IF byte \in 65..90 THEN byte + 32 ELSE byte

-----------------------------------------------------------------------------
(* read_name.                                                              *)

Budget(m) == Len(m)

Hop == budget' = budget - 1 /\ seen' = seen \cup {pos} /\ UNCHANGED <<msg, reply>>

Reading == done = "reading" /\ pos < Len(msg) /\ budget > 0

PointsTo(p) == 256 * (At(msg, p) - 192) + At(msg, p + 1)

\* Out of the message, out of budget, a reserved length, or a label or pointer that
\* leads past the end.
Refuses ==
    /\ done = "reading"
    /\ \/ pos >= Len(msg) \/ budget = 0
       \/ /\ Reading
          /\ LET len == At(msg, pos) IN
                \/ Kind(len) = "reserved"
                \/ Kind(len) = "label" /\ pos + 1 + len > Len(msg)
                \/ Kind(len) = "pointer" /\ pos + 1 >= Len(msg)
                \/ Kind(len) = "pointer" /\ pos + 1 < Len(msg) /\ PointsTo(pos) >= Len(msg)
    /\ done' = "none"
    /\ UNCHANGED <<msg, pos, budget, jumped, after, labels, seen, reply>>

ReadsLabel ==
    /\ Reading /\ Kind(At(msg, pos)) = "label" /\ At(msg, pos) > 0
    /\ pos + 1 + At(msg, pos) <= Len(msg)
    /\ labels' = Append(labels, [i \in 1..At(msg, pos) |-> Lower(At(msg, pos + i))])
    /\ pos' = pos + 1 + At(msg, pos)
    /\ Hop /\ UNCHANGED <<jumped, after, done>>

ReadsEnd ==
    /\ Reading /\ At(msg, pos) = 0
    /\ after' = IF jumped THEN after ELSE pos + 1
    /\ pos' = pos + 1 /\ done' = "some"
    /\ Hop /\ UNCHANGED <<jumped, labels>>

\* A plausible slip: every pointer moves the end of the name.
ReadsPointer_Last ==
    /\ Reading /\ Kind(At(msg, pos)) = "pointer" /\ pos + 1 < Len(msg)
    /\ PointsTo(pos) < Len(msg)
    /\ after' = pos + 2
    /\ jumped' = TRUE /\ pos' = PointsTo(pos)
    /\ Hop /\ UNCHANGED <<labels, done>>

ReadsPointer ==
    /\ Reading /\ Kind(At(msg, pos)) = "pointer" /\ pos + 1 < Len(msg)
    /\ PointsTo(pos) < Len(msg)
    /\ after' = IF jumped THEN after ELSE pos + 2
    /\ jumped' = TRUE /\ pos' = PointsTo(pos)
    /\ Hop /\ UNCHANGED <<labels, done>>

-----------------------------------------------------------------------------
(* skip_name, the record walkers and the synthesized replies.              *)

\* skip_name: the offset just past the name at p, a pointer ending it.
SkipName(m, start) ==
    LET skip[p \in 0..(Len(m) + 63)] ==
            IF p >= Len(m) THEN None
            ELSE CASE At(m, p) = 0 -> p + 1
                   [] Kind(At(m, p)) = "label" /\ At(m, p) > 0 -> skip[p + 1 + At(m, p)]
                   [] Kind(At(m, p)) = "pointer" -> IF p + 1 < Len(m) THEN p + 2 ELSE None
                   [] Kind(At(m, p)) = "reserved" -> None
    IN IF start > Len(m) THEN None ELSE skip[start]

\* The offset past the question section, None if it does not fit.
PastQuestion(m, p) ==
    LET q == SkipName(m, p)
    IN IF p = None THEN None ELSE IF q = None THEN None ELSE IF q + 4 > Len(m) THEN None ELSE q + 4

PastQuestions(m) ==
    LET past[n \in 0..Short(m, 4)] == IF n = 0 THEN HEADER_LEN ELSE PastQuestion(m, past[n - 1])
    IN past[Short(m, 4)]

\* One answer record in a_records or aaaa_records: its address is taken if it has the
\* type asked for; a record that does not fit is the end.
AddressStep(m, type, width, w) ==
    LET p == SkipName(m, w.p)
        size == Short(m, p + 8)
    IN IF w.p = None \/ p = None THEN [w EXCEPT !.p = None]
       ELSE IF p + 10 > Len(m) THEN [w EXCEPT !.p = None]
       ELSE IF p + 10 + size > Len(m) THEN [w EXCEPT !.p = None]
       ELSE [out |-> IF Short(m, p) = type /\ Short(m, p + 2) = CLASS_IN /\ size = width
                     THEN Append(w.out, Slice(m, p + 10, size)) ELSE w.out,
             p |-> p + 10 + size]

Addresses(m, type, width) ==
    LET walk[n \in 0..Short(m, 6)] ==
            IF n = 0 THEN [out |-> <<>>, p |-> PastQuestions(m)]
            ELSE AddressStep(m, type, width, walk[n - 1])
    IN IF Len(m) < HEADER_LEN THEN <<>> ELSE walk[Short(m, 6)].out

\* One answer record in min_ttl: unlike the above it does not ask that the last record's
\* data fit, and a name it cannot skip voids what came before.
TtlStep(m, w) ==
    LET p == SkipName(m, w.p)
    IN IF w.stop THEN w
       ELSE IF w.p = None \/ p = None THEN [p |-> None, stop |-> TRUE, ttls |-> {}]
       ELSE IF p + 10 > Len(m) THEN [w EXCEPT !.stop = TRUE]
       ELSE [p |-> p + 10 + Short(m, p + 8), stop |-> FALSE, ttls |-> w.ttls \cup {Long(m, p + 4)}]

MinTtl(m) ==
    LET walk[n \in 0..Short(m, 6)] ==
            IF n = 0 THEN [p |-> PastQuestions(m), stop |-> FALSE, ttls |-> {}]
            ELSE TtlStep(m, walk[n - 1])
        ttls == walk[Short(m, 6)].ttls
    IN IF ttls = {} THEN None ELSE CHOOSE t \in ttls : \A u \in ttls : t <= u

\* question: the type and class follow the name read_name has read.
Question == [name |-> labels, type |-> Short(msg, after), class |-> Short(msg, after + 2)]
HasQuestion == done = "some" /\ Len(msg) >= HEADER_LEN /\ Short(msg, 4) # 0
                             /\ after + 4 <= Len(msg)

Two(n) == <<n \div 256, n % 256>>
RecordBytes(type, addr) ==
    <<192, 12>> \o Two(type) \o Two(CLASS_IN) \o Two(Ttl \div 65536) \o Two(Ttl % 65536)
        \o Two(Len(addr)) \o addr

\* The query up to the end of its question, with the header of a reply.
Echo(rcode, count) ==
    LET q == SkipName(msg, HEADER_LEN) + 4
    IN Slice(msg, 0, 2) \o <<129, 128 + rcode>> \o Two(1) \o Two(count) \o <<0, 0, 0, 0>>
         \o Slice(msg, HEADER_LEN, q - HEADER_LEN)

\* build_response keeps the addresses that fit the question's type.
Fits(a, type) == (type = TYPE_A /\ Len(a) = 4) \/ (type = TYPE_AAAA /\ Len(a) = 16)
Fitting(addrs, type) ==
    LET keep[n \in 0..Len(addrs)] ==
            IF n = 0 THEN <<>>
            ELSE IF Fits(addrs[n], type) THEN Append(keep[n - 1], addrs[n]) ELSE keep[n - 1]
    IN keep[Len(addrs)]

BuildResponse(addrs) ==
    LET recs == IF Question.class = CLASS_IN THEN Fitting(addrs, Question.type) ELSE <<>>
        body[n \in 0..Len(recs)] ==
            IF n = 0 THEN Echo(0, Len(recs)) ELSE body[n - 1] \o RecordBytes(Question.type, recs[n])
    IN body[Len(recs)]

BuildNxdomain == Echo(3, 0)

Responds(addrs) ==
    /\ HasQuestion /\ reply = None
    /\ reply' = [of |-> addrs, bytes |-> BuildResponse(addrs)]
    /\ UNCHANGED <<msg, reader>>

RespondsNxdomain ==
    /\ HasQuestion /\ reply = None
    /\ reply' = [of |-> <<>>, bytes |-> BuildNxdomain]
    /\ UNCHANGED <<msg, reader>>

-----------------------------------------------------------------------------

WireInit ==
    /\ msg \in Inputs /\ pos = HEADER_LEN /\ budget = Budget(msg)
    /\ jumped = FALSE /\ after = HEADER_LEN /\ labels = <<>> /\ seen = {}
    /\ done = "reading" /\ reply = None

ReadStep == Refuses \/ ReadsLabel \/ ReadsEnd \/ ReadsPointer
WireNext == ReadStep \/ (\E a \in Answers : Responds(a)) \/ RespondsNxdomain

WireSpec == WireInit /\ [][WireNext]_wvars

-----------------------------------------------------------------------------

\* The two ways of getting past a name agree: when the reader succeeds, it stopped
\* where the skipper stops, however many pointers it followed (read_name, skip_name).
ReaderAgreesWithSkipper == done = "some" => SkipName(msg, HEADER_LEN) = after

\* The guard against pointer loops refuses nothing but loops: a name that runs out of
\* budget has brought the reader back to an offset it had already stood on (read_name).
OnlyLoopsRunOut == (done = "none" /\ budget = 0) => pos \in seen

\* A reply the resolver makes up is read back as a reply to the same question with
\* exactly the addresses of the question's type, and the TTL it was given
\* (build_response and build_nxdomain against question, a_records, aaaa_records, min_ttl).
RepliesReadBack ==
    reply # None =>
        LET b == reply.bytes
            q == Question
            v4 == IF q.type = TYPE_A /\ q.class = CLASS_IN THEN Fitting(reply.of, TYPE_A) ELSE <<>>
            v6 == IF q.type = TYPE_AAAA /\ q.class = CLASS_IN THEN Fitting(reply.of, TYPE_AAAA)
                  ELSE <<>>
        IN /\ Slice(b, 0, 2) = Slice(msg, 0, 2)
           /\ Slice(b, HEADER_LEN, after + 4 - HEADER_LEN)
                = Slice(msg, HEADER_LEN, after + 4 - HEADER_LEN)
           /\ Addresses(b, TYPE_A, 4) = v4 /\ Addresses(b, TYPE_AAAA, 16) = v6
           /\ MinTtl(b) = IF v4 \o v6 = <<>> THEN None ELSE Ttl

\* read_name, skip_name and the builders agree about every message, well-formed or
\* not: where a name ends, which names are loops, and what a made-up reply says.
WireIsRead == ReaderAgreesWithSkipper /\ OnlyLoopsRunOut /\ RepliesReadBack
=============================================================================
