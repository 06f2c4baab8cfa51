------------------------------ MODULE Matching ------------------------------
(***************************************************************************)
(* The lookups a split decision and a name rest on, as functions of their  *)
(* input: the China route table (src/policy/chnroute.rs), the domain list  *)
(* (src/policy/gfwlist.rs) and the labels of Magic DNS (src/magic.rs).     *)
(* Each is compared with what it is meant to answer, on every small input. *)
(*                                                                         *)
(* An address is a number up to MaxIp (2^32 - 1 in the code); a name is a  *)
(* sequence of characters, "." the separator.                              *)
(***************************************************************************)
EXTENDS Naturals, FiniteSetsExt, SequencesExt

CONSTANTS IpBits,     \* width of an address
          MaxLines,   \* lines in a route file
          Chars,      \* characters of names and labels
          MaxChars,   \* length of the domains tried
          MaxHost,    \* length of the hostnames tried
          MaxLabel,   \* MAX_NAME_LEN, the longest label
          NodeLabel,  \* the label of a host without a usable name
          Extras      \* the suffixes unique_name appends to a taken label

VARIABLES input,      \* what is looked up: a record, tagged by kind
          answer      \* what the code makes of it

MaxIp == 2^IpBits - 1
Lines == [base : 0 .. MaxIp, len : 0 .. IpBits + 1]
Domains == SeqOf(Chars, MaxChars)
Hosts == SeqOf(Chars, MaxHost)

-----------------------------------------------------------------------------
(* chnroute.rs                                                             *)

\* parse_cidr: a range [start, end]; lines with len > 32 are skipped.
ParseCidr(l) ==
    LET size == 2^(IpBits - l.len)
        start == l.base - (l.base % size)
    IN <<start, start + size - 1>>

\* ranges.sort_unstable(): by start, then end.
SortRanges(rs) ==
    SetToSortSeq(rs, LAMBDA a, b : a[1] < b[1] \/ (a[1] = b[1] /\ a[2] < b[2]))

\* Overlapping or directly adjacent.
Joins(out, r) ==
    /\ out # <<>>
    /\ \/ r[1] <= Last(out)[2]
       \/ Last(out)[2] # MaxIp /\ r[1] = Last(out)[2] + 1

\* A plausible slip: the end of the last range is overwritten, not extended.
MergeOne_Overwrites(out, r) ==
    IF Joins(out, r)
    THEN Front(out) \o <<<<Last(out)[1], r[2]>>>>
    ELSE Append(out, r)

\* The body of merge's loop.
MergeOne(out, r) ==
    IF Joins(out, r)
    THEN IF r[2] > Last(out)[2] THEN Front(out) \o <<<<Last(out)[1], r[2]>>>> ELSE out
    ELSE Append(out, r)

\* from_lines.
FromLines(ls) == FoldLeft(MergeOne, <<>>, SortRanges({ParseCidr(l) : l \in {m \in ls : m.len <= IpBits}}))

\* contains: the range the binary search ends at.
InTable(ranges, v) ==
    LET idx == Cardinality({i \in DOMAIN ranges : ranges[i][1] <= v})
    IN idx # 0 /\ (ranges[idx][1] = v \/ v <= ranges[idx][2])

-----------------------------------------------------------------------------
(* gfwlist.rs; case folding is left out: both sides are folded.            *)

Count(s, c) == IF \A i \in DOMAIN s : s[i] = c THEN Len(s)
               ELSE Min({i \in DOMAIN s : s[i] # c}) - 1
TrimStart(s, c) == SubSeq(s, Count(s, c) + 1, Len(s))
TrimEnd(s, c) == Reverse(TrimStart(Reverse(s), c))

\* trim_start_matches("*."): every leading pair.
Stars(s) == Max({k \in 0 .. Len(s) \div 2 : \A i \in 1 .. k : s[2*i - 1] = "*" /\ s[2*i] = "."})

\* normalize; <<>> stands for None.
Normalize(line) == TrimEnd(TrimStart(SubSeq(line, 2 * Stars(line) + 1, Len(line)), "."), ".")

\* matches: the whole name, then what follows each dot.
Matches(suffixes, domain) ==
    LET d == TrimEnd(domain, ".")
    IN d # <<>> /\ (\/ d \in suffixes
                    \/ \E i \in DOMAIN d : d[i] = "." /\ SubSeq(d, i + 1, Len(d)) \in suffixes)

-----------------------------------------------------------------------------
(* magic.rs                                                                *)

\* The first label that is not empty.
FirstLabel(raw) ==
    LET s == TrimStart(raw, ".")
    IN IF "." \in Range(s) THEN SubSeq(s, 1, Min({i \in DOMAIN s : s[i] = "."}) - 1) ELSE s

Alphanumeric(c) == c \notin {"-", "_", ".", "*"}

\* One character of sanitize_hostname's loop; "*" stands for every other character.
Push(out, c) ==
    IF Len(out) >= MaxLabel \/ c = "*" THEN out
    ELSE IF Alphanumeric(c) THEN Append(out, c)
    ELSE IF out = <<>> \/ Last(out) = "-" THEN out ELSE Append(out, "-")

\* sanitize_hostname.
SanitizeHostname(raw) ==
    LET out == TrimEnd(FoldLeft(Push, <<>>, FirstLabel(raw)), "-")
    IN IF out = <<>> THEN NodeLabel ELSE out

\* fit_label; extra is shorter than a label.
FitLabel(base, extra) ==
    LET head == TrimEnd(SubSeq(base, 1, Min({Len(base), MaxLabel - Len(extra)})), "-")
    IN IF head = <<>> THEN TrimStart(extra, "-") ELSE head \o extra

-----------------------------------------------------------------------------

Files == {Range(ls) : ls \in SeqOf(Lines, MaxLines)}

Lookup ==
    /\ answer = <<>>
    /\ answer' = <<CASE input.kind = "route" -> FromLines(input.lines)
                     [] input.kind = "domain" -> Matches({Normalize(input.line)} \ {<<>>}, input.name)
                     [] input.kind = "label" ->
                          LET l == SanitizeHostname(input.name)
                          IN [label |-> l, variants |-> {FitLabel(l, e) : e \in Extras}]>>
    /\ UNCHANGED input

MInit ==
    /\ answer = <<>>
    /\ \/ \E ls \in Files : input = [kind |-> "route", lines |-> ls]
       \/ \E l, n \in Domains : input = [kind |-> "domain", line |-> l, name |-> n]
       \/ \E n \in Hosts : input = [kind |-> "label", name |-> n]

MSpec == MInit /\ [][Lookup]_<<input, answer>>

-----------------------------------------------------------------------------
(* Properties.                                                             *)

Looked(kind) == answer # <<>> /\ input.kind = kind

\* An address is in the China table exactly if a line of the file covers it, and the
\* binary search may rely on the table: its ranges are sorted and do not touch
\* (ChnRoute::from_lines, merge, contains).
TableIsTheFile ==
    Looked("route") =>
        LET rs == answer[1] IN
        /\ \A v \in 0 .. MaxIp :
             InTable(rs, v) <=>
               \E l \in input.lines : l.len <= IpBits
                                      /\ v \div 2^(IpBits - l.len) = l.base \div 2^(IpBits - l.len)
        /\ \A i \in 1 .. Len(rs) - 1 : rs[i][2] + 1 < rs[i + 1][1]

\* A listed domain covers itself and its subdomains, and nothing that only ends in the
\* same letters (GfwList::matches): the name is the suffix, or the suffix preceded by a dot.
ListedDomainsMatch ==
    Looked("domain") =>
        LET sfx == Normalize(input.line)  d == TrimEnd(input.name, ".")
        IN answer[1] <=> /\ sfx # <<>> /\ IsSuffix(sfx, d)
                         /\ \/ Len(d) = Len(sfx)
                            \/ d[Len(d) - Len(sfx)] = "."

\* What a label may look like on the wire.
CleanLabel(s) ==
    /\ s # <<>> /\ Len(s) <= MaxLabel
    /\ \A i \in DOMAIN s : Alphanumeric(s[i]) \/ s[i] = "-"
    /\ s[1] # "-" /\ Last(s) # "-"
    /\ \A i \in 1 .. Len(s) - 1 : ~(s[i] = "-" /\ s[i + 1] = "-")

\* Whatever a host calls itself becomes a proper label that sanitizing again leaves
\* alone, and so does every variant the server makes of it when the label is taken
\* (sanitize_hostname, fit_label).
LabelsAreClean ==
    Looked("label") =>
        /\ SanitizeHostname(answer[1].label) = answer[1].label
        /\ \A l \in {answer[1].label} \cup answer[1].variants : CleanLabel(l)

\* The three lookups by which traffic and names are told apart are right for every
\* short list, name and host name: the China table, the list of blocked domains and
\* the labels of the overlay (chnroute.rs, gfwlist.rs, magic.rs).
LookupsAreRight == TableIsTheFile /\ ListedDomainsMatch /\ LabelsAreClean
=============================================================================
