------------------------------ MODULE DnsNames ------------------------------
(***************************************************************************)
(* What the sidecar does to the text of a name.  A name is a sequence of   *)
(* pieces of text, the dot being one of them: pieces that stand together   *)
(* are one label, so that a suffix may begin inside a label, as it may in  *)
(* the code, which compares texts and not labels.                          *)
(***************************************************************************)
EXTENDS Integers, Sequences, SequencesExt

CONSTANT Lower      \* strings.ToLower, for the pieces it changes

Dot == <<".">>

ToLower(name) == [i \in DOMAIN name |-> IF name[i] \in DOMAIN Lower THEN Lower[name[i]] ELSE name[i]]

DropEnd(name, end) == SubSeq(name, 1, Len(name) - Len(end))

\* utils.AddQuota and RemoveQuota: the dot at the end of a name.
AddQuota(name) == IF IsSuffix(Dot, name) THEN name ELSE name \o Dot
RemoveQuota(name) == IF IsSuffix(Dot, name) THEN DropEnd(name, Dot) ELSE name

\* A MatchSuffix that cuts without looking.
MatchSuffixUnchecked(name, suffix) ==
    [matched |-> TRUE, rest |-> DropEnd(AddQuota(name), suffix)]

\* utils.MatchSuffix
MatchSuffix(name, suffix) ==
    IF suffix = <<>> THEN [matched |-> TRUE, rest |-> name]
    ELSE LET n == AddQuota(name)
             s == AddQuota(suffix)
         IN  IF IsSuffix(s, n) THEN [matched |-> TRUE, rest |-> DropEnd(n, s)]
                               ELSE [matched |-> FALSE, rest |-> n]

IsDot(piece) == piece = "."

LastDot(name) == SelectLastInSeq(name, IsDot)

\* The namespace of the Polaris servers is asked for in lower case.
SystemNamespace(namespace) ==
    IF ToLower(namespace) = <<"polaris">> THEN <<"Polaris">> ELSE namespace

\* utils.ParseQname, of what MatchSuffix left of the name.
ServiceKey(rest, currentNs) ==
    LET n == RemoveQuota(rest)
        d == LastDot(n)
    IN  IF d = 0 THEN [service |-> n, namespace |-> currentNs]
        ELSE [service |-> SubSeq(n, 1, d - 1),
              namespace |-> SystemNamespace(SubSeq(n, d + 1, Len(n)))]

\* A Preprocess that takes the last search domain that fits.
PreprocessLast(name, search) ==
    LET fits(domain) == IsSuffix(AddQuota(domain), name)
        i == SelectLastInSeq(search, fits)
    IN  IF i = 0 \/ AddQuota(search[i]) = name THEN name ELSE DropEnd(name, AddQuota(search[i]))

\* dnsHandler.Preprocess: the first search domain that ends the name, unless it
\* is the whole name.
Preprocess(name, search) ==
    LET fits(domain) == IsSuffix(AddQuota(domain), name)
        i == SelectInSeq(search, fits)
    IN  IF i = 0 \/ AddQuota(search[i]) = name THEN name ELSE DropEnd(name, AddQuota(search[i]))

\* recursor.expandQuery.  The name ends with a dot, which counts.
Dots(name) == Len(SelectSeq(name, IsDot))

ExpandQuery(name, ndots, search) ==
    IF Dots(name) < ndots THEN [i \in DOMAIN search |-> AddQuota(name \o search[i])]
                          ELSE <<name>>

\* The label _addr that dnsagent looks for: where it is, and the text before it.
AddrLabel(name) ==
    LET at(i) == /\ name[i] = "_addr"
                 /\ i = 1 \/ name[i - 1] = "."
                 /\ i = Len(name) \/ name[i + 1] = "."
        found == {i \in DOMAIN name : at(i)}
    IN  IF found = {} THEN 0 ELSE CHOOSE i \in found : \A j \in found : i <= j

LabelBefore(name, i) ==
    LET start == SelectLastInSubSeq(name, 1, i - 2, IsDot)
    IN  SubSeq(name, start + 1, i - 2)
=============================================================================
