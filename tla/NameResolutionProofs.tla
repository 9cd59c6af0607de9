------------------------ MODULE NameResolutionProofs ------------------------
(* What the names of queries lead to, for any names, services, suffixes and *)
(* search domains.                                                         *)
EXTENDS DnsHandlerProofs

\* The first position that the search of a sequence finds is the first of those found.
LEMMA MinOf ==
    ASSUME NEW T \in SUBSET Nat, T # {}
    PROVE  Min(T) \in T /\ \A y \in T : Min(T) <= y
BY NatMin DEF Min

\* And the last is the last of them.
LEMMA MaxOf ==
    ASSUME NEW n \in Nat, NEW T \in SUBSET (1..n), T # {}
    PROVE  Max(T) \in T /\ \A y \in T : Max(T) >= y
<1> DEFINE U == {n - x : x \in T}
<1>1. U \in SUBSET Nat /\ U # {}
  <2>1. \A x \in T : n - x \in Nat
    OBVIOUS
  <2>2. PICK x \in T : TRUE
    OBVIOUS
  <2>3. n - x \in U
    OBVIOUS
  <2> QED
    BY <2>1, <2>3
<1>2. PICK u \in U : \A y \in U : u <= y
  BY <1>1, NatMin
<1>3. PICK x \in T : u = n - x
  BY <1>2
<1>4. \A y \in T : x >= y
  <2> TAKE y \in T
  <2>1. n - y \in U
    OBVIOUS
  <2>2. n - x <= n - y
    BY <1>2, <1>3, <2>1
  <2>3. x \in 1..n /\ y \in 1..n
    OBVIOUS
  <2> HIDE DEF U
  <2> QED
    BY <2>2, <2>3
<1> HIDE DEF U
<1> QED
  BY <1>3, <1>4 DEF Max

-----------------------------------------------------------------------------
(* Sequences and their ends                                                *)

\* The pieces of a suffix are the last of the sequence.
LEMMA SuffixPieces ==
    ASSUME NEW S, NEW a \in Seq(S), NEW e \in Seq(S)
    PROVE  IsSuffix(e, a) <=> /\ Len(e) <= Len(a)
                              /\ \A j \in 1..Len(e) : a[Len(a) - Len(e) + j] = e[j]
<1> DEFINE ra == Reverse(a)
           re == Reverse(e)
<1>1. /\ Len(a) \in Nat /\ Len(e) \in Nat
  OBVIOUS
<1>2. /\ ra \in Seq(S) /\ Len(ra) = Len(a) /\ \A i \in 1..Len(a) : ra[i] = a[Len(a) - i + 1]
      /\ re \in Seq(S) /\ Len(re) = Len(e) /\ \A i \in 1..Len(e) : re[i] = e[Len(e) - i + 1]
  BY DEF Reverse
<1> HIDE DEF ra, re
<1>3. CASE Len(e) <= Len(a)
  <2>1. SubSeq(re, 1, Len(re)) = re
    BY <1>2
  <2>2. /\ SubSeq(ra, 1, Len(e)) \in Seq(S) /\ Len(SubSeq(ra, 1, Len(e))) = Len(e)
        /\ \A i \in 1..Len(e) : SubSeq(ra, 1, Len(e))[i] = ra[i]
    BY <1>1, <1>2, <1>3
  <2>3. re = SubSeq(ra, 1, Len(e)) <=> \A i \in 1..Len(e) : re[i] = ra[i]
    BY <1>2, <2>2
  <2>4. (\A i \in 1..Len(e) : re[i] = ra[i])
          <=> \A j \in 1..Len(e) : a[Len(a) - Len(e) + j] = e[j]
    <3>1. ASSUME \A i \in 1..Len(e) : re[i] = ra[i], NEW j \in 1..Len(e)
          PROVE  a[Len(a) - Len(e) + j] = e[j]
      <4> DEFINE i == Len(e) - j + 1
      <4>1. i \in 1..Len(e) /\ i \in 1..Len(a) /\ Len(e) - i + 1 = j /\ Len(a) - i + 1 = Len(a) - Len(e) + j
        BY <1>1, <1>3
      <4> HIDE DEF i
      <4> QED
        BY <1>2, <3>1, <4>1
    <3>2. ASSUME \A j \in 1..Len(e) : a[Len(a) - Len(e) + j] = e[j], NEW i \in 1..Len(e)
          PROVE  re[i] = ra[i]
      <4> DEFINE j == Len(e) - i + 1
      <4>1. i \in 1..Len(a) /\ j \in 1..Len(e) /\ Len(a) - i + 1 = Len(a) - Len(e) + j
        BY <1>1, <1>3
      <4>2. ra[i] = a[Len(a) - i + 1] /\ re[i] = e[j]
        BY <1>2, <4>1
      <4> HIDE DEF j
      <4> QED
        BY <3>2, <4>1, <4>2
    <3> QED
      BY <3>1, <3>2
  <2> QED
    BY <1>2, <1>3, <2>1, <2>3, <2>4 DEF IsSuffix, IsPrefix, ra, re
<1>4. CASE ~(Len(e) <= Len(a))
  BY <1>2, <1>4 DEF IsSuffix, IsPrefix, ra, re
<1> QED
  BY <1>3, <1>4

\* A sequence is what its suffix leaves and the suffix.
LEMMA SuffixDropped ==
    ASSUME NEW S, NEW a \in Seq(S), NEW e \in Seq(S), IsSuffix(e, a)
    PROVE  DropEnd(a, e) \in Seq(S) /\ a = DropEnd(a, e) \o e
<1>1. /\ Len(a) \in Nat /\ Len(e) \in Nat /\ Len(e) <= Len(a)
      /\ \A j \in 1..Len(e) : a[Len(a) - Len(e) + j] = e[j]
  BY SuffixPieces
<1> DEFINE m == Len(a) - Len(e)
           d == SubSeq(a, 1, m)
<1>2. m \in Nat /\ m <= Len(a)
  BY <1>1
<1>3. d \in Seq(S) /\ Len(d) = m /\ \A i \in 1..m : d[i] = a[i]
  BY <1>2
<1>4. d \o e \in Seq(S) /\ Len(d \o e) = Len(a)
  BY <1>1, <1>3
<1> HIDE DEF d
<1>5. ASSUME NEW i \in 1..Len(a) PROVE (d \o e)[i] = a[i]
  <2>1. CASE i <= m
    BY <1>1, <1>3, <2>1
  <2>2. CASE ~(i <= m)
    <3>1. (d \o e)[i] = e[i - m] /\ i - m \in 1..Len(e)
      BY <1>1, <1>3, <2>2
    <3>2. a[m + (i - m)] = e[i - m]
      BY <1>1, <3>1
    <3> QED
      BY <1>1, <3>1, <3>2
  <2> QED
    BY <1>1, <2>1, <2>2
<1>6. d \o e = a
  BY <1>4, <1>5, SeqEqual
<1> QED
  BY <1>3, <1>6 DEF DropEnd, d

\* What follows a sequence is a suffix, and leaves it.
LEMMA SuffixAppended ==
    ASSUME NEW S, NEW b \in Seq(S), NEW e \in Seq(S)
    PROVE  IsSuffix(e, b \o e) /\ DropEnd(b \o e, e) = b
<1>1. /\ b \o e \in Seq(S) /\ Len(b \o e) = Len(b) + Len(e) /\ Len(b) \in Nat /\ Len(e) \in Nat
      /\ \A i \in 1..Len(b) : (b \o e)[i] = b[i]
      /\ \A j \in 1..Len(e) : (b \o e)[Len(b) + j] = e[j]
  OBVIOUS
<1>2. IsSuffix(e, b \o e)
  <2>1. Len(b \o e) - Len(e) = Len(b) /\ Len(e) <= Len(b \o e)
    BY <1>1
  <2> QED
    BY <1>1, <2>1, SuffixPieces
<1>3. SubSeq(b \o e, 1, Len(b)) = b
  BY <1>1
<1> QED
  BY <1>1, <1>2, <1>3 DEF DropEnd

\* A suffix of one piece is the last piece.
LEMMA LastPiece ==
    ASSUME NEW S, NEW x \in S, NEW a \in Seq(S)
    PROVE  IsSuffix(<<x>>, a) <=> Len(a) > 0 /\ a[Len(a)] = x
<1> DEFINE e == <<x>>
<1>1. e \in Seq(S) /\ Len(e) = 1 /\ e[1] = x /\ Len(a) \in Nat
  OBVIOUS
<1> HIDE DEF e
<1>2. IsSuffix(e, a) <=> Len(e) <= Len(a) /\ \A j \in 1..Len(e) : a[Len(a) - Len(e) + j] = e[j]
  <2>1. \A u, v \in Seq(S) :
           IsSuffix(u, v) <=> Len(u) <= Len(v) /\ \A j \in 1..Len(u) : v[Len(v) - Len(u) + j] = u[j]
    BY ONLY SuffixPieces
  <2> QED
    BY ONLY <1>1, <2>1
<1>3. Len(a) - Len(e) + 1 = Len(a)
  BY <1>1
<1>4. \A j \in 1..Len(e) : j = 1
  BY <1>1
<1>5. 1 \in 1..Len(e) /\ (Len(e) <= Len(a) <=> Len(a) > 0)
  BY <1>1
<1>6. IsSuffix(e, a) <=> Len(a) > 0 /\ a[Len(a)] = x
  <2>1. (\A j \in 1..Len(e) : a[Len(a) - Len(e) + j] = e[j]) <=> a[Len(a)] = x
    BY <1>1, <1>3, <1>4, <1>5, Zenon
  <2> QED
    BY <1>2, <1>5, <2>1, Zenon
<1> QED
  BY <1>6 DEF e

\* A name that ends with a dot.
LEMMA EndsWithDot ==
    ASSUME NEW S, "." \in S, NEW a \in Seq(S)
    PROVE  IsSuffix(Dot, a) <=> Len(a) > 0 /\ a[Len(a)] = "."
BY LastPiece DEF Dot

\* utils.AddQuota puts a dot after what utils.RemoveQuota leaves.
LEMMA QuotaParts ==
    ASSUME NEW S, "." \in S, NEW a \in Seq(S)
    PROVE  /\ RemoveQuota(a) \in Seq(S) /\ AddQuota(a) \in Seq(S)
           /\ AddQuota(a) = RemoveQuota(a) \o Dot
           /\ a = RemoveQuota(a) \/ a = RemoveQuota(a) \o Dot
           /\ RemoveQuota(a) = a => AddQuota(a) = a \o Dot
<1>1. Dot \in Seq(S)
  BY DEF Dot
<1>2. CASE IsSuffix(Dot, a)
  <2>1. DropEnd(a, Dot) \in Seq(S) /\ a = DropEnd(a, Dot) \o Dot
    BY <1>1, <1>2, SuffixDropped
  <2> QED
    BY <1>2, <2>1 DEF AddQuota, RemoveQuota
<1>3. CASE ~IsSuffix(Dot, a)
  <2>1. a \o Dot \in Seq(S)
    BY <1>1, ConcatProperties
  <2> QED
    BY <1>3, <2>1 DEF AddQuota, RemoveQuota
<1> QED
  BY <1>2, <1>3

\* A name with a dot at its end.
LEMMA QuotaOfDotted ==
    ASSUME NEW S, "." \in S, NEW a \in Seq(S)
    PROVE  AddQuota(a \o Dot) = a \o Dot /\ RemoveQuota(a \o Dot) = a
<1>1. Dot \in Seq(S)
  BY DEF Dot
<1>2. IsSuffix(Dot, a \o Dot) /\ DropEnd(a \o Dot, Dot) = a
  BY <1>1, SuffixAppended
<1> QED
  BY <1>2 DEF AddQuota, RemoveQuota

\* Nothing is cut off a name that does not end with a dot.
LEMMA QuotaOfUndotted ==
    ASSUME NEW S, "." \in S, NEW a \in Seq(S), ~IsSuffix(Dot, a)
    PROVE  AddQuota(a) = a \o Dot /\ RemoveQuota(a) = a
BY DEF AddQuota, RemoveQuota

\* LastDot is the position of the last dot.
LEMMA LastDotFound ==
    ASSUME NEW S, NEW a \in Seq(S)
    PROVE  /\ LastDot(a) \in 0..Len(a)
           /\ LastDot(a) > 0 => a[LastDot(a)] = "."
           /\ \A i \in 1..Len(a) : i > LastDot(a) => a[i] # "."
<1> DEFINE I == {i \in 1..Len(a) : IsDot(a[i])}
           d == IF I # {} THEN Max(I) ELSE 0
<1>1. LastDot(a) = d
  BY DEF LastDot, SelectLastInSeq
<1>2. Len(a) \in Nat /\ I \in SUBSET (1..Len(a))
  OBVIOUS
<1>3. \A i \in 1..Len(a) : i \in I <=> a[i] = "."
  BY DEF IsDot
<1>4. I # {} => Max(I) \in I /\ \A y \in I : Max(I) >= y
  <2> HIDE DEF I
  <2> QED
    BY <1>2, MaxOf
<1> HIDE DEF I
<1>5. CASE I = {}
  BY <1>1, <1>2, <1>3, <1>5
<1>6. CASE I # {}
  <2>1. d \in I /\ d \in 1..Len(a) /\ \A y \in I : d >= y
    BY <1>2, <1>4, <1>6
  <2> HIDE DEF d
  <2> QED
    BY <1>1, <1>2, <1>3, <2>1
<1> QED
  BY <1>5, <1>6

\* A name is its service, a dot and its namespace.
LEMMA SplitAtLastDot ==
    ASSUME NEW S, NEW a \in Seq(S), LastDot(a) > 0
    PROVE  LET d == LastDot(a)
           IN  /\ SubSeq(a, 1, d - 1) \in Seq(S) /\ SubSeq(a, d + 1, Len(a)) \in Seq(S)
               /\ a = SubSeq(a, 1, d - 1) \o Dot \o SubSeq(a, d + 1, Len(a))
<1> DEFINE d == LastDot(a)
<1>1. d \in 1..Len(a) /\ a[d] = "." /\ Len(a) \in Nat
  BY LastDotFound
<1> HIDE DEF d
<1>2. a = SubSeq(a, 1, d) \o SubSeq(a, d + 1, Len(a))
  <2>1. 1 \in 1..(Len(a) + 1) /\ d \in (1 - 1)..Len(a) /\ Len(a) \in d..Len(a)
    BY <1>1
  <2>2. SubSeq(a, 1, d) \o SubSeq(a, d + 1, Len(a)) = SubSeq(a, 1, Len(a))
    BY <2>1, ConcatAdjacentSubSeq
  <2> QED
    BY <2>2, SubSeqFull
<1>3. SubSeq(a, 1, d) = SubSeq(a, 1, d - 1) \o Dot
  <2>1. 1 \in 1..Len(a) /\ d \in 1..Len(a)
    BY <1>1
  <2>2. SubSeq(a, 1, d) = SubSeq(a, 1, d - 1) \o <<a[d]>>
    BY <2>1, SubSeqRecursiveSecond
  <2> QED
    BY <1>1, <2>2 DEF Dot
<1>4. SubSeq(a, 1, d - 1) \in Seq(S) /\ SubSeq(a, d + 1, Len(a)) \in Seq(S)
  BY <1>1
<1> QED
  BY <1>2, <1>3, <1>4 DEF d

\* The split of a service and a namespace that has no dot.
LEMMA SplitOfFullName ==
    ASSUME NEW S, "." \in S, NEW b \in Seq(S), NEW c \in Seq(S), LastDot(c) = 0
    PROVE  LET a == b \o Dot \o c
               d == LastDot(a)
           IN  d > 0 /\ SubSeq(a, 1, d - 1) = b /\ SubSeq(a, d + 1, Len(a)) = c
<1> DEFINE a == b \o Dot \o c
           d == LastDot(a)
<1>1. /\ Dot \in Seq(S) /\ Len(Dot) = 1 /\ Dot[1] = "."
      /\ Len(b) \in Nat /\ Len(c) \in Nat
  BY DEF Dot
<1>2. /\ a \in Seq(S) /\ Len(a) = Len(b) + 1 + Len(c)
      /\ \A i \in 1..Len(b) : a[i] = b[i]
      /\ a[Len(b) + 1] = "."
      /\ \A i \in 1..Len(c) : a[Len(b) + 1 + i] = c[i]
  <2> DEFINE bd == b \o Dot
  <2>1. /\ bd \in Seq(S) /\ Len(bd) = Len(b) + 1 /\ bd[Len(b) + 1] = "."
        /\ \A i \in 1..Len(b) : bd[i] = b[i]
    <3>1. /\ bd \in Seq(S) /\ Len(bd) = Len(b) + 1
          /\ \A i \in 1..(Len(b) + 1) : bd[i] = IF i <= Len(b) THEN b[i] ELSE Dot[i - Len(b)]
      <4>1. /\ bd \in Seq(S) /\ Len(bd) = Len(b) + Len(Dot)
            /\ \A i \in 1..(Len(b) + Len(Dot)) :
                  bd[i] = IF i <= Len(b) THEN b[i] ELSE Dot[i - Len(b)]
        BY <1>1, ConcatProperties
      <4> HIDE DEF bd
      <4> QED
        BY <1>1, <4>1
    <3>2. Len(b) + 1 \in 1..(Len(b) + 1) /\ (Len(b) + 1) - Len(b) = 1 /\ ~(Len(b) + 1 <= Len(b))
      BY <1>1
    <3>3. bd[Len(b) + 1] = "."
      BY <1>1, <3>1, <3>2
    <3>4. \A i \in 1..Len(b) : bd[i] = b[i]
      BY <1>1, <3>1
    <3> QED
      BY <3>1, <3>3, <3>4
  <2> HIDE DEF bd
  <2>2. /\ bd \o c \in Seq(S) /\ Len(bd \o c) = Len(bd) + Len(c)
        /\ \A i \in 1..Len(bd) : (bd \o c)[i] = bd[i]
        /\ \A i \in 1..Len(c) : (bd \o c)[Len(bd) + i] = c[i]
    BY <2>1
  <2> QED
    BY <1>1, <2>1, <2>2 DEF bd
<1>3. \A i \in 1..Len(c) : c[i] # "."
  BY <1>1, LastDotFound
<1> HIDE DEF a
<1>4. d = Len(b) + 1
  <2>1. /\ d \in 0..Len(a) /\ (d > 0 => a[d] = ".")
        /\ \A i \in 1..Len(a) : i > d => a[i] # "."
    BY <1>2, LastDotFound
  <2> HIDE DEF d
  <2>2. ASSUME d > Len(b) + 1 PROVE FALSE
    <3>1. d - (Len(b) + 1) \in 1..Len(c)
      BY <1>1, <1>2, <2>1, <2>2
    <3>2. a[Len(b) + 1 + (d - (Len(b) + 1))] # "."
      BY <1>2, <1>3, <3>1
    <3> QED
      BY <1>1, <2>1, <2>2, <3>2
  <2>3. ~(d < Len(b) + 1)
    BY <1>1, <1>2, <2>1
  <2> QED
    BY <1>1, <2>1, <2>2, <2>3
<1>5. SubSeq(a, 1, Len(b)) = b
  <2>1. SubSeq(a, 1, Len(b)) \in Seq(S) /\ Len(SubSeq(a, 1, Len(b))) = Len(b)
        /\ \A i \in 1..Len(b) : SubSeq(a, 1, Len(b))[i] = b[i]
    BY <1>1, <1>2
  <2> QED
    BY <2>1, SeqEqual
<1>6. SubSeq(a, Len(b) + 2, Len(a)) = c
  <2> DEFINE e == SubSeq(a, Len(b) + 2, Len(a))
  <2>1. e \in Seq(S) /\ Len(e) = Len(c) /\ \A i \in 1..Len(c) : e[i] = a[Len(b) + 1 + i]
    BY <1>1, <1>2
  <2> HIDE DEF e
  <2>2. e = c
    BY <1>2, <2>1, SeqEqual
  <2> QED
    BY <2>2 DEF e
<1>7. d > 0 /\ d - 1 = Len(b) /\ d + 1 = Len(b) + 2
  BY <1>1, <1>4
<1> QED
  BY <1>5, <1>6, <1>7 DEF a, d

-----------------------------------------------------------------------------
(* Queries without a reply                                                  *)

\* A name with its dot has a length.
LEMMA AddQuotaIsName ==
    ASSUME NEW S, NEW name \in Seq(S)
    PROVE  Len(AddQuota(name)) \in Nat
<1>1. name \in Seq(S \cup {"."})
  BY SeqMonotonic
<1>2. Dot \in Seq(S \cup {"."})
  BY DEF Dot
<1>3. Len(name) \in Nat /\ Len(name \o Dot) \in Nat
  BY <1>1, <1>2, ConcatProperties
<1>4. AddQuota(name) = name \/ AddQuota(name) = name \o Dot
  BY DEF AddQuota
<1> QED
  BY <1>3, <1>4

\* Preprocess only cuts at the end.
LEMMA PreprocessShortens ==
    ASSUME NEW name \in Seq(STRING), NEW search \in Seq(Seq(STRING))
    PROVE  \E m \in Int : m <= Len(name) /\ Preprocess(name, search) = SubSeq(name, 1, m)
<1>1. SubSeq(name, 1, Len(name)) = name
  OBVIOUS
<1> DEFINE I == {i \in 1..Len(search) : IsSuffix(AddQuota(search[i]), name)}
           i0 == IF I # {} THEN Min(I) ELSE 0
<1>2. Preprocess(name, search) = IF i0 = 0 \/ AddQuota(search[i0]) = name THEN name
                                 ELSE DropEnd(name, AddQuota(search[i0]))
  BY DEF Preprocess, SelectInSeq
<1>3. i0 = 0 \/ i0 \in 1..Len(search)
  <2>1. I \in SUBSET Nat
    OBVIOUS
  <2>2. I # {} => Min(I) \in I
    BY <2>1, MinOf
  <2> QED
    BY <2>2
<1> HIDE DEF i0
<1>4. CASE i0 = 0 \/ AddQuota(search[i0]) = name
  <2>1. Len(name) \in Int
    OBVIOUS
  <2> QED
    BY <1>1, <1>2, <1>4, <2>1
<1>5. CASE i0 # 0 /\ AddQuota(search[i0]) # name
  <2>1. search[i0] \in Seq(STRING)
    BY <1>3, <1>5
  <2>2. Len(AddQuota(search[i0])) \in Nat
    BY <2>1, AddQuotaIsName
  <2>3. /\ Len(name) - Len(AddQuota(search[i0])) \in Int
        /\ Len(name) - Len(AddQuota(search[i0])) <= Len(name)
    BY <2>2
  <2> QED
    BY <1>2, <1>5, <2>3 DEF DropEnd
<1> QED
  BY <1>4, <1>5

\* The pieces of a beginning stand where they stood.
LEMMA BeginningOf ==
    ASSUME NEW name \in Seq(STRING), NEW m \in Int, m <= Len(name)
    PROVE  /\ SubSeq(name, 1, m) \in Seq(STRING)
           /\ Len(SubSeq(name, 1, m)) <= Len(name)
           /\ \A i \in 1..Len(SubSeq(name, 1, m)) : SubSeq(name, 1, m)[i] = name[i]
OBVIOUS

\* The label _addr is where AddrLabel says.
LEMMA AddrLabelFound ==
    ASSUME NEW name \in Seq(STRING), AddrLabel(name) > 0
    PROVE  /\ AddrLabel(name) \in 1..Len(name) /\ name[AddrLabel(name)] = "_addr"
<1> DEFINE at(i) == /\ name[i] = "_addr"
                    /\ i = 1 \/ name[i - 1] = "."
                    /\ i = Len(name) \/ name[i + 1] = "."
           found == {i \in DOMAIN name : at(i)}
<1>1. AddrLabel(name) = IF found = {} THEN 0 ELSE CHOOSE i \in found : \A j \in found : i <= j
  BY DEF AddrLabel
<1>2. \A i : at(i) => name[i] = "_addr"
  OBVIOUS
<1>3. DOMAIN name = 1..Len(name)
  OBVIOUS
<1> HIDE DEF at
<1>4. found \in SUBSET Nat /\ \A i \in found : i \in 1..Len(name) /\ name[i] = "_addr"
  BY <1>2, <1>3
<1> HIDE DEF found
<1>5. found # {}
  BY <1>1
<1>6. \E i \in found : \A j \in found : i <= j
  BY <1>4, <1>5, NatMin
<1>7. AddrLabel(name) \in found
  BY <1>1, <1>5, <1>6
<1> QED
  BY <1>4, <1>7

\* A text of one piece before the label is the piece that stands there.
LEMMA TextBefore ==
    ASSUME NEW name \in Seq(STRING), NEW i \in 2..Len(name), Len(LabelBefore(name, i)) = 1
    PROVE  i - 2 \in 1..Len(name) /\ LabelBefore(name, i)[1] = name[i - 2]
<1> DEFINE I == {j \in 1..(i - 2) : IsDot(name[j])}
           start == IF I # {} THEN Max(I) ELSE 0
<1>1. LabelBefore(name, i) = SubSeq(name, start + 1, i - 2)
  BY DEF LabelBefore, SelectLastInSubSeq
<1>2. start \in 0..(i - 2)
  <2>1. i - 2 \in Nat /\ I \in SUBSET (1..(i - 2))
    OBVIOUS
  <2>2. I # {} => Max(I) \in 1..(i - 2)
    BY <2>1, MaxOf
  <2> HIDE DEF I
  <2> QED
    BY <2>1, <2>2
<1> HIDE DEF start
<1>3. start + 1 = i - 2
  <2>1. start + 1 \in Int /\ i - 2 \in Int /\ \A j \in (start + 1)..(i - 2) : name[j] \in STRING
    BY <1>2
  <2>2. Len(SubSeq(name, start + 1, i - 2)) =
            IF start + 1 <= i - 2 THEN (i - 2) - (start + 1) + 1 ELSE 0
    BY <2>1, SubSeqProperties
  <2> QED
    BY <1>1, <1>2, <2>2
<1>4. i - 2 \in 1..Len(name)
  BY <1>2, <1>3
<1>5. SubSeq(name, i - 2, i - 2)[1] = name[i - 2]
  <2> DEFINE j == i - 2
  <2>1. j \in 1..Len(name) /\ j \in Int /\ \A k \in j..j : name[k] \in STRING
    BY <1>4
  <2> HIDE DEF j
  <2>2. \A k \in 1..(j - j + 1) : SubSeq(name, j, j)[k] = name[j + k - 1]
    BY <2>1, SubSeqProperties
  <2>3. SubSeq(name, j, j)[1] = name[j]
    BY <2>1, <2>2
  <2> QED
    BY <2>3 DEF j
<1>6. LabelBefore(name, i) = SubSeq(name, i - 2, i - 2)
  BY <1>1, <1>3
<1> QED
  BY <1>4, <1>5, <1>6

\* The reasons for which a resolver leaves a question without a reply.
LossReason(k) ==
    \/ \E i \in DOMAIN k.name :
          /\ k.name[i] = "_addr"
          /\ \/ i = 1 \/ k.qtype = "SRV"
             \/ k.name[i - 2] \in HexWords
             \/ k.qtype = "AAAA" /\ \E h \in V4 : k.name[i - 2] = Hex4[h]
    \/ k.qtype = "SRV" /\ \E s \in Polaris : s.host \notin V4 \cup V6

\* dnsagent/plugin.go:112-146: a resolver loses a question only for one
\* of the named reasons.
LEMMA ResolverLosesForReason ==
    ASSUME conf \in Configs, NEW k \in Questions, NEW r, Ask(r, k).kind = "lost"
    PROVE  LossReason(k)
<1>1. /\ k.name \in Seq(STRING) /\ conf.search \in Seq(Seq(STRING))
      /\ \A s \in Polaris : s.service # <<>>
  BY NameAssumption DEF NamesAreWellFormed
<1> DEFINE name == ResolvedName(k.name)
<1>2. PICK m \in Int : m <= Len(k.name) /\ name = SubSeq(k.name, 1, m)
  <2>1. Len(k.name) \in Int /\ SubSeq(k.name, 1, Len(k.name)) = k.name
    BY <1>1
  <2>2. \E m \in Int : m <= Len(k.name) /\ Preprocess(k.name, conf.search) = SubSeq(k.name, 1, m)
    BY <1>1, PreprocessShortens
  <2>3. name = k.name \/ name = Preprocess(k.name, conf.search)
    BY DEF ResolvedName
  <2> HIDE DEF name
  <2>4. CASE name = k.name
    BY <2>1, <2>4
  <2> QED
    BY <2>2, <2>3, <2>4
<1> HIDE DEF name
<1>3. /\ name \in Seq(STRING) /\ Len(name) <= Len(k.name) /\ Len(name) \in Nat
      /\ \A i \in 1..Len(name) : name[i] = k.name[i]
      /\ DOMAIN k.name = 1..Len(k.name) /\ Len(k.name) \in Nat
  BY <1>1, <1>2, BeginningOf
<1>4. MeshProxy(k.qtype, name).kind # "lost"
  BY DEF MeshProxy, Declined, Answered
<1>5. DnsAgent(k.qtype, name).kind = "lost"
  BY <1>4 DEF Ask, name
<1>6. CASE AddrLabel(name) > 0
  <2> DEFINE i == AddrLabel(name)
             text == LabelBefore(name, i)
  <2>1. i \in 1..Len(name) /\ name[i] = "_addr"
    BY <1>3, <1>6, AddrLabelFound
  <2>2. \/ i = 1
        \/ \E h : MarkRecord(k.qtype, h, NoInstance).kind = "lost"
        \/ Len(text) = 1 /\ text[1] \in HexWords
        \/ k.qtype = "AAAA" /\ \E h \in V4 : text = <<Hex4[h]>>
    BY <1>5, <1>6 DEF DnsAgent, ServeAddr, Declined
  <2> HIDE DEF i, text
  <2>3. i \in DOMAIN k.name /\ k.name[i] = "_addr"
    BY <1>3, <2>1
  <2>4. CASE i = 1
    BY <2>3, <2>4 DEF LossReason
  <2>5. CASE \E h : MarkRecord(k.qtype, h, NoInstance).kind = "lost"
    <3>1. k.qtype = "SRV"
      BY <2>5 DEF MarkRecord, Answered
    <3> QED
      BY <2>3, <3>1 DEF LossReason
  <2>6. CASE i # 1 /\ Len(text) = 1 /\ text[1] \in HexWords
    <3>1. i \in 2..Len(name)
      BY <1>3, <2>1, <2>6
    <3>2. i - 2 \in 1..Len(name) /\ text[1] = name[i - 2]
      BY <1>3, <2>6, <3>1, TextBefore DEF text
    <3>3. k.name[i - 2] \in HexWords
      BY <1>3, <2>6, <3>2
    <3> QED
      BY <2>3, <3>3 DEF LossReason
  <2>7. CASE i # 1 /\ k.qtype = "AAAA" /\ \E h \in V4 : text = <<Hex4[h]>>
    <3>1. PICK h \in V4 : text = <<Hex4[h]>>
      BY <2>7
    <3>2. i \in 2..Len(name) /\ Len(text) = 1 /\ text[1] = Hex4[h]
      BY <1>3, <2>1, <2>7, <3>1
    <3>3. i - 2 \in 1..Len(name) /\ text[1] = name[i - 2]
      BY <1>3, <3>2, TextBefore DEF text
    <3>4. k.name[i - 2] = Hex4[h]
      BY <1>3, <3>2, <3>3
    <3> QED
      BY <2>3, <2>7, <3>4 DEF LossReason
  <2> QED
    BY <2>2, <2>4, <2>5, <2>6, <2>7
<1>7. CASE ~(AddrLabel(name) > 0)
  <2>1. \E s \in Polaris : MarkRecord(k.qtype, s.host, s).kind = "lost"
    <3>1. ServeService(k.qtype, name).kind = "lost"
      BY <1>5, <1>7 DEF DnsAgent
    <3>2. \A key : Lookup(key) \in SUBSET Polaris
      BY DEF Lookup
    <3> QED
      BY <3>1, <3>2 DEF ServeService, Declined
  <2>2. PICK s \in Polaris : MarkRecord(k.qtype, s.host, s).kind = "lost"
    BY <2>1
  <2>3. k.qtype = "SRV" /\ s.host \notin V4 \cup V6
    BY <1>1, <2>2 DEF MarkRecord, Answered
  <2> QED
    BY <2>3 DEF LossReason
<1> QED
  BY <1>6, <1>7

\* handler.go:52-57 and proxy.go:47: a client waits in vain only for the four
\* named reasons, whatever the names, services, suffixes and search domains.
THEOREM LossesNamed == NameSpec => []LossesAreNamed
<1> DEFINE Asked == question \in [Queries -> Questions]
<1>1. NameInit => Asked /\ LossesAreNamed
  BY DEF NameInit, Init, LossesAreNamed
<1>2. Asked /\ TypeOK /\ LossesAreNamed /\ [NameNext]_nameVars => Asked' /\ LossesAreNamed'
  <2> SUFFICES ASSUME Asked, TypeOK, LossesAreNamed, [NameNext]_nameVars
               PROVE  Asked' /\ LossesAreNamed'
    OBVIOUS
  <2>1. UNCHANGED question
    BY DEF NameNext, NameStep, Resolve, UpstreamAnswers, Fail, Continue, Reply, NoWords, nameVars
  <2>2. UNCHANGED <<conf, kind, query>> /\ Upstream' = Upstream
    BY NamedStep, FixedStep, FixedNumbers
  <2>3. \A q \in Queries : LossReason(question[q]) \/ Len(Upstream) = 0 \/ out[q] # "lost"
    BY DEF LossesAreNamed, LossReason
  <2>4. ASSUME NEW p \in Queries, out'[p] = "lost"
        PROVE  LossReason(question[p]) \/ Len(Upstream) = 0
    <3>1. ASSUME NEW q \in Queries, NameStep(q), p # q
          PROVE  out'[p] = out[p]
      <4>1. Step(q)
        BY <3>1 DEF NameStep, Resolve, UpstreamAnswers, Fail, Continue, Step
      <4> QED
        BY <3>1, <4>1, OtherQueries
    <3>2. ASSUME NameStep(p) PROVE LossReason(question[p]) \/ Len(Upstream) = 0
      <4>1. CASE ResolverLoses(p) /\ Outcome(p).kind = "lost"
        <5>1. conf \in Configs /\ question[p] \in Questions
          BY DEF TypeOK
        <5> QED
          BY <4>1, <5>1, ResolverLosesForReason DEF Outcome
      <4>2. CASE NoUpstream(p)
        BY <4>2 DEF NoUpstream
      <4>3. CASE ~(ResolverLoses(p) /\ Outcome(p).kind = "lost") /\ ~NoUpstream(p)
        <5>1. out'[p] # "lost" \/ out'[p] = out[p]
          BY <3>2, <4>3 DEF TypeOK, NameStep, Resolve, UpstreamAnswers, Fail, Continue,
             Accept, FallBack, BeginRecursion, LockRotation, ReadServer, AdvanceRotation,
             ExchangeRejected,
             ResolverAnswers, ResolverDeclines, ExchangeAccepted, NoRecursion, GiveUp,
             Write, Silent
        <5> QED
          BY <2>3, <2>4, <5>1
      <4> QED
        BY <4>1, <4>2, <4>3
    <3>3. CASE AllEnded \/ UNCHANGED nameVars
      BY <2>3, <2>4, <3>3 DEF AllEnded, vars, nameVars
    <3> QED
      BY <2>3, <2>4, <3>1, <3>2, <3>3 DEF NameNext
  <2> QED
    BY <2>1, <2>2, <2>4 DEF LossesAreNamed, LossReason
<1> QED
  BY <1>1, <1>2, TypeCorrect, PTL DEF NameSpec

-----------------------------------------------------------------------------
(* Names                                                                    *)

Piece == STRING \cup {".", "_addr", "polaris"}
Name == Seq(Piece)

\* The names of configurations, services and questions are names.
LEMMA NamesOfText ==
    /\ "." \in Piece /\ "_addr" \in Piece /\ "polaris" \in Piece
    /\ Dot \in Name /\ <<>> \in Name
    /\ \A n \in Seq(STRING) : n \in Name
<1>1. \A n \in Seq(STRING) : n \in Name
  BY SeqMonotonic DEF Name, Piece
<1> QED
  BY <1>1 DEF Name, Piece, Dot

\* The full name of a service splits at its last dot.
LEMMA SplitOfName ==
    ASSUME NEW b \in Name, NEW c \in Name, LastDot(c) = 0
    PROVE  LET a == b \o Dot \o c
               d == LastDot(a)
           IN  d > 0 /\ SubSeq(a, 1, d - 1) = b /\ SubSeq(a, d + 1, Len(a)) = c
<1>1. "." \in Piece /\ b \in Seq(Piece) /\ c \in Seq(Piece)
  BY NamesOfText DEF Name
<1>2. \A u, v \in Seq(Piece) :
         LastDot(v) = 0 =>
            LET a == u \o Dot \o v
                d == LastDot(a)
            IN  d > 0 /\ SubSeq(a, 1, d - 1) = u /\ SubSeq(a, d + 1, Len(a)) = v
  BY ONLY <1>1, SplitOfFullName
<1> QED
  BY ONLY <1>1, LastDot(c) = 0, <1>2

\* Names put together are a name, in whatever order they are put together.
LEMMA NamesTogether ==
    ASSUME NEW a \in Name, NEW b \in Name
    PROVE  a \o b \in Name /\ \A c \in Name : (a \o b) \o c = a \o (b \o c)
BY ConcatProperties, ConcatAssociative DEF Name

\* handler.go:30-48: what Preprocess does is decided by the first search domain that
\* ends the name.
LEMMA PreprocessCuts ==
    ASSUME NEW name, NEW search \in Seq(Seq(STRING))
    PROVE  LET Fits(i) == IsSuffix(AddQuota(search[i]), name)
           IN  \/ /\ \A i \in DOMAIN search : ~Fits(i)
                  /\ Preprocess(name, search) = name
               \/ \E i \in DOMAIN search :
                     /\ Fits(i) /\ \A j \in DOMAIN search : Fits(j) => i <= j
                     /\ Preprocess(name, search) =
                            IF AddQuota(search[i]) = name THEN name
                            ELSE DropEnd(name, AddQuota(search[i]))
<1> DEFINE Fits(i) == IsSuffix(AddQuota(search[i]), name)
           I == {i \in 1..Len(search) : Fits(i)}
           i0 == IF I # {} THEN Min(I) ELSE 0
<1>1. Preprocess(name, search) = IF i0 = 0 \/ AddQuota(search[i0]) = name THEN name
                                 ELSE DropEnd(name, AddQuota(search[i0]))
  BY DEF Preprocess, SelectInSeq
<1>2. I \in SUBSET Nat /\ DOMAIN search = 1..Len(search)
  OBVIOUS
<1>3. \A i \in DOMAIN search : i \in I <=> Fits(i)
  BY <1>2
<1> HIDE DEF Fits
<1>4. CASE I = {}
  BY <1>1, <1>2, <1>3, <1>4 DEF Fits
<1>5. CASE I # {}
  <2>1. i0 \in I /\ \A j \in I : i0 <= j
    BY <1>2, <1>5, MinOf
  <2>2. i0 \in DOMAIN search /\ i0 # 0 /\ Fits(i0)
    BY <1>2, <2>1
  <2>3. \A j \in DOMAIN search : Fits(j) => i0 <= j
    BY <1>3, <2>1
  <2> HIDE DEF i0
  <2> QED
    BY <1>1, <2>2, <2>3 DEF Fits
<1> QED
  BY <1>4, <1>5

\* A name in lower case is a name, as long and with its pieces where they were.
LEMMA LowerPieces ==
    ASSUME NEW a \in Name
    PROVE  /\ ToLower(a) \in Name /\ Len(ToLower(a)) = Len(a)
           /\ \A i \in 1..Len(a) :
                 ToLower(a)[i] = IF a[i] \in DOMAIN Lower THEN Lower[a[i]] ELSE a[i]
<1>1. \A x \in DOMAIN Lower : Lower[x] \in Piece
  <2>1. Lower \in [DOMAIN Lower -> STRING]
    BY NameAssumption DEF NamesAreWellFormed
  <2> QED
    BY <2>1 DEF Piece
<1>2. DOMAIN a = 1..Len(a) /\ Len(a) \in Nat /\ \A i \in 1..Len(a) : a[i] \in Piece
  BY DEF Name
<1> DEFINE Low(i) == IF a[i] \in DOMAIN Lower THEN Lower[a[i]] ELSE a[i]
<1>3. \A i \in 1..Len(a) : Low(i) \in Piece
  BY <1>1, <1>2
<1>4. ToLower(a) = [i \in 1..Len(a) |-> Low(i)]
  BY <1>2 DEF ToLower
<1> HIDE DEF Low
<1>5. ToLower(a) \in Seq(Piece) /\ Len(ToLower(a)) = Len(a)
      /\ \A i \in 1..Len(a) : ToLower(a)[i] = Low(i)
  BY <1>2, <1>3, <1>4
<1> QED
  BY <1>5 DEF Name, Low

\* strings.ToLower of two texts together is that of each.
LEMMA LowerOfBoth ==
    ASSUME NEW a \in Name, NEW b \in Name
    PROVE  ToLower(a \o b) = ToLower(a) \o ToLower(b)
<1> DEFINE ab == a \o b
           lab == ToLower(a) \o ToLower(b)
<1>1. /\ ab \in Name /\ Len(ab) = Len(a) + Len(b) /\ Len(a) \in Nat /\ Len(b) \in Nat
      /\ \A i \in 1..(Len(a) + Len(b)) : ab[i] = IF i <= Len(a) THEN a[i] ELSE b[i - Len(a)]
  BY ConcatProperties DEF Name
<1>2. /\ ToLower(ab) \in Name /\ Len(ToLower(ab)) = Len(ab)
      /\ \A i \in 1..Len(ab) :
            ToLower(ab)[i] = IF ab[i] \in DOMAIN Lower THEN Lower[ab[i]] ELSE ab[i]
  BY <1>1, LowerPieces
<1>3. /\ lab \in Name /\ Len(lab) = Len(a) + Len(b)
      /\ \A i \in 1..(Len(a) + Len(b)) :
            lab[i] = IF i <= Len(a) THEN ToLower(a)[i] ELSE ToLower(b)[i - Len(a)]
  <2> DEFINE la == ToLower(a)
             lb == ToLower(b)
  <2>1. la \in Name /\ lb \in Name /\ Len(la) = Len(a) /\ Len(lb) = Len(b)
    BY LowerPieces
  <2> HIDE DEF la, lb
  <2>2. /\ la \o lb \in Name /\ Len(la \o lb) = Len(la) + Len(lb)
        /\ \A i \in 1..(Len(la) + Len(lb)) :
              (la \o lb)[i] = IF i <= Len(la) THEN la[i] ELSE lb[i - Len(la)]
    BY <2>1, ConcatProperties DEF Name
  <2> QED
    BY <2>1, <2>2 DEF la, lb
<1> HIDE DEF ab, lab
<1>4. ASSUME NEW i \in 1..Len(ab) PROVE ToLower(ab)[i] = lab[i]
  <2>1. CASE i <= Len(a)
    <3>1. i \in 1..Len(a) /\ i \in 1..(Len(a) + Len(b))
      BY <1>1, <2>1
    <3>2. ab[i] = a[i] /\ lab[i] = ToLower(a)[i]
      BY <1>1, <1>3, <2>1, <3>1
    <3>3. ToLower(ab)[i] = IF ab[i] \in DOMAIN Lower THEN Lower[ab[i]] ELSE ab[i]
      BY <1>2
    <3>4. ToLower(a)[i] = IF a[i] \in DOMAIN Lower THEN Lower[a[i]] ELSE a[i]
      BY <3>1, LowerPieces
    <3> QED
      BY <3>2, <3>3, <3>4
  <2>2. CASE ~(i <= Len(a))
    <3>1. i - Len(a) \in 1..Len(b) /\ i \in 1..(Len(a) + Len(b))
      BY <1>1, <2>2
    <3> DEFINE j == i - Len(a)
    <3>2. ab[i] = b[j] /\ lab[i] = ToLower(b)[j] /\ j \in 1..Len(b)
      BY <1>1, <1>3, <2>2, <3>1
    <3> HIDE DEF j
    <3>3. ToLower(ab)[i] = IF ab[i] \in DOMAIN Lower THEN Lower[ab[i]] ELSE ab[i]
      BY <1>2
    <3>4. ToLower(b)[j] = IF b[j] \in DOMAIN Lower THEN Lower[b[j]] ELSE b[j]
      BY <3>2, LowerPieces
    <3> QED
      BY <3>2, <3>3, <3>4
  <2> QED
    BY <2>1, <2>2
<1>5. ToLower(ab) = lab
  BY <1>1, <1>2, <1>3, <1>4, SeqEqual DEF Name
<1> QED
  BY <1>5 DEF ab, lab

\* The beginning of a text is a prefix of it.
LEMMA PrefixOfBoth ==
    ASSUME NEW S, NEW a \in Seq(S), NEW b \in Seq(S)
    PROVE  IsPrefix(a, a \o b)
<1>1. SubSeq(a \o b, 1, Len(a)) = a /\ SubSeq(a, 1, Len(a)) = a /\ Len(a) <= Len(a \o b)
  OBVIOUS
<1> QED
  BY <1>1 DEF IsPrefix

-----------------------------------------------------------------------------
(* The targets of SRV answers                                               *)

\* In a name that begins with an address and _addr, that is what dnsagent finds.
LEMMA AddrIsThird ==
    ASSUME NEW S, NEW name \in Seq(S), Len(name) >= 3, name[1] \notin {".", "_addr"},
           name[2] = ".", name[3] = "_addr", Len(name) = 3 \/ name[4] = "."
    PROVE  AddrLabel(name) = 3 /\ LabelBefore(name, 3) = <<name[1]>>
<1>1. DOMAIN name = 1..Len(name) /\ Len(name) \in Nat
  OBVIOUS
<1>2. AddrLabel(name) = 3
  <2> DEFINE at(i) == /\ name[i] = "_addr"
                      /\ i = 1 \/ name[i - 1] = "."
                      /\ i = Len(name) \/ name[i + 1] = "."
             found == {i \in DOMAIN name : at(i)}
  <2>1. AddrLabel(name) = IF found = {} THEN 0 ELSE CHOOSE i \in found : \A j \in found : i <= j
    BY DEF AddrLabel
  <2>2. at(3) /\ ~at(1) /\ ~at(2)
    BY <1>1
  <2> HIDE DEF at
  <2>3. 3 \in found /\ \A j \in found : j \in 1..Len(name) /\ j # 1 /\ j # 2
    BY <1>1, <2>2
  <2>4. \A j \in found : 3 <= j /\ j \in Nat
    BY <1>1, <2>3
  <2> HIDE DEF found
  <2>5. \A i \in found : (\A j \in found : i <= j) => i = 3
    BY <2>3, <2>4
  <2> QED
    BY <2>1, <2>3, <2>4, <2>5
<1>3. LabelBefore(name, 3) = SubSeq(name, 1, 1)
  <2> DEFINE I == {j \in 1..(3 - 2) : IsDot(name[j])}
  <2>1. LabelBefore(name, 3) = SubSeq(name, (IF I # {} THEN Max(I) ELSE 0) + 1, 3 - 2)
    BY DEF LabelBefore, SelectLastInSubSeq
  <2>2. I = {}
    BY DEF IsDot
  <2> HIDE DEF I
  <2> QED
    BY <2>1, <2>2
<1>4. SubSeq(name, 1, 1) = <<name[1]>>
  <2>1. /\ SubSeq(name, 1, 1) \in Seq(S) /\ Len(SubSeq(name, 1, 1)) = 1
        /\ SubSeq(name, 1, 1)[1] = name[1]
    BY <1>1
  <2>2. name[1] \in S
    BY <1>1
  <2>3. <<name[1]>> \in Seq(S) /\ Len(<<name[1]>>) = 1 /\ <<name[1]>>[1] = name[1]
    BY <2>2
  <2>4. \A i \in 1..1 : i = 1
    OBVIOUS
  <2> QED
    BY <2>1, <2>3, <2>4, SeqEqual
<1> QED
  BY <1>2, <1>3, <1>4

\* The name that encodeIPAsFqdn makes begins with the address and _addr.
LEMMA TargetPieces ==
    ASSUME NEW s \in Polaris, NEW h \in V4 \cup V6
    PROVE  LET target == EncodeIPAsFqdn(h, s)
           IN  /\ target \in Name /\ Len(target) >= 4
               /\ target[1] = Hex[h] /\ target[2] = "." /\ target[3] = "_addr" /\ target[4] = "."
<1> DEFINE begin == <<Hex[h], ".", "_addr", ".">>
           full == FullName(s)
           t == begin \o full
<1>1. begin \in Name
  <2>1. Hex[h] \in STRING
    BY NameAssumption DEF NamesAreWellFormed
  <2>2. Hex[h] \in Piece
    BY <2>1 DEF Piece
  <2> QED
    BY <2>2, NamesOfText DEF Name
<1>2. s.service \in Name /\ s.namespace \in Name
  <2>1. s.service \in Seq(STRING) /\ s.namespace \in Seq(STRING)
    BY NameAssumption DEF NamesAreWellFormed
  <2> QED
    BY <2>1, NamesOfText
<1>3. full \in Name
  BY <1>2, NamesOfText, ConcatProperties DEF FullName, Name
<1>4. /\ Len(begin) = 4 /\ begin[1] = Hex[h] /\ begin[2] = "." /\ begin[3] = "_addr"
      /\ begin[4] = "."
  OBVIOUS
<1> HIDE DEF begin, full
<1>5. /\ t \in Name /\ Len(t) = Len(begin) + Len(full) /\ Len(full) \in Nat
      /\ \A i \in 1..(Len(begin) + Len(full)) : i <= Len(begin) => t[i] = begin[i]
  BY <1>1, <1>3, ConcatProperties DEF Name
<1>6. /\ t \in Name /\ Len(t) \in Nat /\ Len(t) >= 4 /\ \A i \in 1..4 : t[i] = begin[i]
  BY <1>4, <1>5
<1> HIDE DEF t
<1>7. t \o Dot \in Name /\ Len(t \o Dot) >= 4 /\ \A i \in 1..4 : (t \o Dot)[i] = t[i]
  <2>1. /\ t \o Dot \in Name /\ Len(t \o Dot) = Len(t) + Len(Dot) /\ Len(Dot) \in Nat
        /\ \A i \in 1..(Len(t) + Len(Dot)) : i <= Len(t) => (t \o Dot)[i] = t[i]
    BY <1>6, NamesOfText, ConcatProperties DEF Name
  <2> QED
    BY <1>6, <2>1
<1>8. EncodeIPAsFqdn(h, s) = t \/ EncodeIPAsFqdn(h, s) = t \o Dot
  BY DEF EncodeIPAsFqdn, AddQuota, t, begin, full
<1> DEFINE target == EncodeIPAsFqdn(h, s)
<1> HIDE DEF target
<1>9. target \in Name /\ Len(target) >= 4 /\ \A i \in 1..4 : target[i] = begin[i]
  BY <1>6, <1>7, <1>8 DEF target
<1>10. 1 \in 1..4 /\ 2 \in 1..4 /\ 3 \in 1..4 /\ 4 \in 1..4
  OBVIOUS
<1>11. target[1] = Hex[h] /\ target[2] = "." /\ target[3] = "_addr" /\ target[4] = "."
  BY <1>4, <1>9, <1>10
<1> QED
  BY <1>9, <1>11 DEF target

\* A name with its dot has no other piece than the dot that it did not have.
LEMMA QuotaAddsDot ==
    ASSUME NEW a \in Name, ~Contains(a, "_addr"), NEW i \in 1..Len(AddQuota(a))
    PROVE  AddQuota(a)[i] # "_addr"
<1>1. CASE AddQuota(a) = a
  BY <1>1 DEF Contains
<1>2. CASE AddQuota(a) = a \o Dot
  <2>1. /\ Len(a \o Dot) = Len(a) + Len(Dot) /\ Len(a) \in Nat
        /\ \A j \in 1..(Len(a) + Len(Dot)) :
              (a \o Dot)[j] = IF j <= Len(a) THEN a[j] ELSE Dot[j - Len(a)]
    BY NamesOfText, ConcatProperties DEF Name
  <2>2. Len(Dot) = 1 /\ Dot[1] = "."
    BY DEF Dot
  <2>3. CASE i <= Len(a)
    <3>1. i \in 1..Len(a) /\ AddQuota(a)[i] = a[i]
      BY <1>2, <2>1, <2>2, <2>3
    <3> QED
      BY <3>1 DEF Contains
  <2>4. CASE ~(i <= Len(a))
    <3>1. i - Len(a) = 1 /\ AddQuota(a)[i] = Dot[i - Len(a)]
      BY <1>2, <2>1, <2>2, <2>4
    <3> QED
      BY <2>2, <3>1
  <2> QED
    BY <2>3, <2>4
<1> QED
  BY <1>1, <1>2 DEF AddQuota

\* handler.go:30-48: Preprocess leaves a search domain's name without one.
LEMMA ResolvedIsName ==
    ASSUME conf \in Configs, NEW name \in Name
    PROVE  /\ ResolvedName(name) \in Name
           /\ \/ ResolvedName(name) = name
              \/ \E i \in DOMAIN conf.search :
                    LET end == AddQuota(conf.search[i])
                    IN  /\ conf.search[i] \in Name /\ end \in Name
                        /\ IsSuffix(end, name) /\ name = ResolvedName(name) \o end
                        /\ i \in SearchEnds(name) /\ end # name
<1>1. conf.search \in Seq(Seq(STRING))
  BY NameAssumption DEF NamesAreWellFormed
<1> DEFINE P == Preprocess(name, conf.search)
<1>2. \/ P = name
      \/ \E i \in DOMAIN conf.search :
            /\ IsSuffix(AddQuota(conf.search[i]), name) /\ AddQuota(conf.search[i]) # name
            /\ P = DropEnd(name, AddQuota(conf.search[i]))
  BY <1>1, PreprocessCuts
<1>3. CASE ResolvedName(name) = name
  BY <1>3
<1>4. CASE conf.recurse /\ ResolvedName(name) = P /\ P # name
  <2>1. PICK i \in DOMAIN conf.search :
            /\ IsSuffix(AddQuota(conf.search[i]), name) /\ AddQuota(conf.search[i]) # name
            /\ P = DropEnd(name, AddQuota(conf.search[i]))
    BY <1>2, <1>4
  <2>2. conf.search[i] \in Name
    <3>1. conf.search[i] \in Seq(STRING)
      BY <1>1
    <3> QED
      BY <3>1, NamesOfText
  <2>3. AddQuota(conf.search[i]) \in Name
    BY <2>2, QuotaParts, NamesOfText DEF Name
  <2>4. P \in Name /\ name = P \o AddQuota(conf.search[i])
    BY <2>1, <2>3, SuffixDropped DEF Name
  <2>5. i \in SearchEnds(name)
    BY <1>4, <2>1 DEF SearchEnds
  <2> QED
    BY <1>4, <2>1, <2>2, <2>3, <2>4, <2>5
<1> QED
  BY <1>3, <1>4 DEF ResolvedName

\* The exclusions of SrvTargetResolves.
NoAddrAround ==
    /\ \A i \in DOMAIN conf.search : ~Contains(conf.search[i], "_addr")
    /\ \A t \in Polaris : ~Contains(ToLower(FullName(t)), "_addr")

\* What Preprocess leaves of a target still begins with the address and _addr.
LEMMA ResolvedTarget ==
    ASSUME conf \in Configs, NoAddrAround, NEW s \in Polaris, NEW h \in V4 \cup V6
    PROVE  LET P == ResolvedName(EncodeIPAsFqdn(h, s))
           IN  /\ P \in Name /\ Len(P) >= 3 /\ P[1] = Hex[h] /\ P[2] = "." /\ P[3] = "_addr"
               /\ Len(P) = 3 \/ P[4] = "."
<1> DEFINE target == EncodeIPAsFqdn(h, s)
           P == ResolvedName(target)
<1>1. /\ target \in Name /\ Len(target) >= 4
      /\ target[1] = Hex[h] /\ target[2] = "." /\ target[3] = "_addr" /\ target[4] = "."
  BY TargetPieces
<1> HIDE DEF target
<1>2. CASE P = target
  BY <1>1, <1>2 DEF target
<1>3. CASE P # target
  <2>1. P \in Name
    BY <1>1, ResolvedIsName
  <2>2. PICK i \in DOMAIN conf.search :
            /\ conf.search[i] \in Name /\ AddQuota(conf.search[i]) \in Name
            /\ target = P \o AddQuota(conf.search[i])
    BY <1>1, <1>3, ResolvedIsName
  <2> DEFINE end == AddQuota(conf.search[i])
  <2>3. \A j \in 1..Len(end) : end[j] # "_addr"
    BY <2>2, QuotaAddsDot DEF NoAddrAround
  <2> HIDE DEF end, P
  <2>4. /\ Len(target) = Len(P) + Len(end) /\ Len(P) \in Nat /\ Len(end) \in Nat
        /\ \A j \in 1..(Len(P) + Len(end)) :
              target[j] = IF j <= Len(P) THEN P[j] ELSE end[j - Len(P)]
    BY <2>1, <2>2, ConcatProperties DEF Name, end
  <2>5. Len(P) >= 3
    <3>1. ASSUME ~(Len(P) >= 3) PROVE FALSE
      <4>1. 3 \in 1..(Len(P) + Len(end)) /\ 3 - Len(P) \in 1..Len(end) /\ ~(3 <= Len(P))
        BY <1>1, <2>4, <3>1
      <4>2. target[3] = end[3 - Len(P)]
        BY <2>4, <4>1
      <4> QED
        BY <1>1, <2>3, <4>1, <4>2
    <3> QED
      BY <3>1
  <2>6. \A j \in 1..(Len(P) + Len(end)) : j <= Len(P) => target[j] = P[j]
    BY <2>4
  <2>7. P[1] = target[1] /\ P[2] = target[2] /\ P[3] = target[3] /\ (Len(P) = 3 \/ P[4] = target[4])
    <3>1. /\ 1 \in 1..(Len(P) + Len(end)) /\ 2 \in 1..(Len(P) + Len(end))
          /\ 3 \in 1..(Len(P) + Len(end)) /\ 3 <= Len(P) /\ 2 <= Len(P) /\ 1 <= Len(P)
          /\ Len(P) = 3 \/ (4 <= Len(P) /\ 4 \in 1..(Len(P) + Len(end)))
      <4>1. \A p, e \in Nat : p >= 3 =>
               /\ 1 \in 1..(p + e) /\ 2 \in 1..(p + e) /\ 3 \in 1..(p + e)
               /\ 3 <= p /\ 2 <= p /\ 1 <= p
               /\ p = 3 \/ (4 <= p /\ 4 \in 1..(p + e))
        OBVIOUS
      <4> QED
        BY <2>4, <2>5, <4>1
    <3> QED
      BY <2>6, <3>1
  <2> QED
    BY <1>1, <2>1, <2>5, <2>7 DEF P, target
<1> QED
  BY <1>2, <1>3

\* registry_proxy.go: no name in the table of the mesh resolver has the label _addr
\* in third place.
LEMMA TableWithoutAddr ==
    ASSUME NoAddrAround, NEW name \in Name, Len(name) >= 3, name[3] = "_addr"
    PROVE  ToLower(name) \notin Table
<1>1. ToLower(name) \in Name /\ Len(ToLower(name)) >= 3 /\ ToLower(name)[3] = "_addr"
  <2>1. "_addr" \notin DOMAIN Lower
    BY NameAssumption DEF NamesAreWellFormed
  <2>2. 3 \in 1..Len(name) /\ Len(ToLower(name)) = Len(name)
    BY LowerPieces DEF Name
  <2> QED
    BY <2>1, <2>2, LowerPieces
<1>2. ASSUME NEW t \in Polaris, ToLower(name) = ToLower(FullName(t) \o Dot) PROVE FALSE
  <2> DEFINE full == FullName(t)
             low == ToLower(full)
  <2>1. full \in Name
    <3>1. t.service \in Seq(STRING) /\ t.namespace \in Seq(STRING)
      BY NameAssumption DEF NamesAreWellFormed
    <3>2. t.service \in Name /\ t.namespace \in Name
      BY <3>1, NamesOfText
    <3> QED
      BY <3>2, NamesOfText, ConcatProperties DEF FullName, Name
  <2>2. \A i \in 1..Len(low) : low[i] # "_addr"
    BY DEF NoAddrAround, Contains
  <2>3. ToLower(full \o Dot) = low \o ToLower(Dot)
    <3> HIDE DEF full
    <3> QED
      BY <2>1, LowerOfBoth, NamesOfText
  <2>4. low \in Name /\ Len(low) \in Nat
    <3> HIDE DEF full
    <3> QED
      BY <2>1, LowerPieces DEF Name
  <2>5. ToLower(Dot) \in Name /\ Len(ToLower(Dot)) = 1 /\ ToLower(Dot)[1] = "."
    <3>1. Len(Dot) = 1 /\ Dot[1] = "." /\ 1 \in 1..1
      BY DEF Dot
    <3>2. "." \notin DOMAIN Lower
      BY NameAssumption DEF NamesAreWellFormed
    <3> QED
      BY <3>1, <3>2, LowerPieces, NamesOfText
  <2> DEFINE ld == ToLower(Dot)
  <2> HIDE DEF low, ld
  <2>6. /\ Len(low \o ld) = Len(low) + 1
        /\ \A i \in 1..(Len(low) + 1) :
              (low \o ld)[i] = IF i <= Len(low) THEN low[i] ELSE ld[i - Len(low)]
    <3>1. /\ Len(low \o ld) = Len(low) + Len(ld)
          /\ \A i \in 1..(Len(low) + Len(ld)) :
                (low \o ld)[i] = IF i <= Len(low) THEN low[i] ELSE ld[i - Len(low)]
      BY <2>4, <2>5, ConcatProperties DEF Name, ld
    <3>2. Len(ld) = 1
      BY <2>5 DEF ld
    <3> QED
      BY <3>1, <3>2
  <2>7. ToLower(name) = low \o ld
    BY <1>2, <2>3 DEF ld
  <2>8. 3 \in 1..(Len(low) + 1)
    BY <1>1, <2>4, <2>6, <2>7
  <2>9. CASE 3 <= Len(low)
    BY <1>1, <2>2, <2>4, <2>6, <2>7, <2>8, <2>9
  <2>10. CASE ~(3 <= Len(low))
    <3>1. 3 - Len(low) = 1
      BY <2>4, <2>8, <2>10
    <3> QED
      BY <1>1, <2>5, <2>6, <2>7, <2>8, <2>10, <3>1 DEF ld
  <2> QED
    BY <2>9, <2>10
<1> QED
  BY <1>2 DEF Table

\* The answers to the question for the address of a target.
LEMMA TargetResolves ==
    ASSUME conf \in Configs, NoAddrAround, NEW s \in Polaris, s.host \in V4 \cup V6,
           NEW k, k.qtype = IF s.host \in V4 THEN "A" ELSE "AAAA",
           k.name = EncodeIPAsFqdn(s.host, s)
    PROVE  /\ Ask("dnsagent", k).kind = "answered" /\ Ask("dnsagent", k).data = <<s.host>>
           /\ Ask("meshproxy", k).kind = "declined"
<1> DEFINE P == ResolvedName(k.name)
<1>1. /\ P \in Name /\ Len(P) >= 3 /\ P[1] = Hex[s.host] /\ P[2] = "." /\ P[3] = "_addr"
      /\ Len(P) = 3 \/ P[4] = "."
  BY ResolvedTarget
<1>2. /\ Hex[s.host] \notin {".", "_addr"} /\ V4 \cap V6 = {}
      /\ \A h \in V4 \cup V6 : Hex[h] = Hex[s.host] => h = s.host
  BY NameAssumption DEF NamesAreWellFormed
<1> HIDE DEF P
<1>3. DnsAgent(k.qtype, P) = Answered(<<s.host>>, Key(NoInstance))
  <2>1. AddrLabel(P) = 3 /\ LabelBefore(P, 3) = <<Hex[s.host]>>
    BY <1>1, <1>2, AddrIsThird DEF Name
  <2> DEFINE hosts == {h \in V4 \cup V6 : <<Hex[h]>> = <<Hex[s.host]>>}
  <2>2. \A h \in V4 \cup V6 : <<Hex[h]>> = <<Hex[s.host]>> => h = s.host
    <3>1. \A x, y : <<x>> = <<y>> => x = y
      OBVIOUS
    <3> QED
      BY <1>2, <3>1
  <2>3. hosts = {s.host}
    BY <2>2
  <2>4. (CHOOSE h \in hosts : TRUE) = s.host
    BY <2>3
  <2>5. ServeAddr(k.qtype, P) = MarkRecord(k.qtype, CHOOSE h \in hosts : TRUE, NoInstance)
    BY <2>1, <2>3 DEF ServeAddr
  <2>6. MarkRecord(k.qtype, s.host, NoInstance) = Answered(<<s.host>>, Key(NoInstance))
    BY <1>2 DEF MarkRecord, AddressData
  <2>7. AddrLabel(P) > 0
    BY <2>1
  <2>8. DnsAgent(k.qtype, P) = ServeAddr(k.qtype, P)
    BY <2>7 DEF DnsAgent
  <2> HIDE DEF hosts
  <2> QED
    BY <2>4, <2>5, <2>6, <2>8
<1>4. MeshProxy(k.qtype, P) = Declined
  <2> DEFINE R == RemoveQuota(P)
             longer == R \o Dot \o conf.namespace \o Dot
  <2>1. conf.namespace \in Name
    <3>1. conf.namespace \in Seq(STRING)
      BY NameAssumption DEF NamesAreWellFormed
    <3> QED
      BY <3>1, NamesOfText
  <2>2. R \in Name /\ (P = R \/ P = R \o Dot)
    BY <1>1, QuotaParts, NamesOfText DEF Name
  <2> HIDE DEF R
  <2>3. Len(R) >= 3 /\ R[3] = "_addr"
    <3>1. CASE P = R
      BY <1>1, <3>1
    <3>2. CASE P = R \o Dot
      <4>1. Len(Dot) = 1 /\ Dot[1] = "." /\ Len(R) \in Nat
        BY <2>2 DEF Dot, Name
      <4>2. /\ Len(R \o Dot) = Len(R) + Len(Dot)
            /\ \A i \in 1..(Len(R) + Len(Dot)) :
                  (R \o Dot)[i] = IF i <= Len(R) THEN R[i] ELSE Dot[i - Len(R)]
        BY <2>2, NamesOfText, ConcatProperties DEF Name
      <4>3. 3 \in 1..(Len(R) + Len(Dot))
        BY <1>1, <3>2, <4>1, <4>2
      <4>4. 3 <= Len(R) \/ 3 - Len(R) = 1
        BY <4>1, <4>3
      <4> QED
        BY <1>1, <3>2, <4>1, <4>2, <4>3, <4>4
    <3> QED
      BY <2>2, <3>1, <3>2
  <2>4. longer \in Name /\ Len(longer) >= 3 /\ longer[3] = "_addr"
    <3> DEFINE tail == Dot \o conf.namespace \o Dot
    <3>1. tail \in Name
      BY <2>1, NamesOfText, ConcatProperties DEF Name
    <3>2. longer = R \o tail
      <4>1. (R \o Dot) \o conf.namespace = R \o (Dot \o conf.namespace)
        BY <2>1, <2>2, NamesOfText, NamesTogether
      <4>2. (R \o (Dot \o conf.namespace)) \o Dot = R \o ((Dot \o conf.namespace) \o Dot)
        <5> DEFINE m == Dot \o conf.namespace
        <5>1. R \in Name /\ m \in Name /\ Dot \in Name
          BY <2>1, <2>2, NamesOfText, NamesTogether
        <5> HIDE DEF m
        <5>2. (R \o m) \o Dot = R \o (m \o Dot)
          BY ONLY <5>1, ConcatAssociative DEF Name
        <5> QED
          BY <5>2 DEF m
      <4> QED
        BY <4>1, <4>2
    <3> HIDE DEF tail
    <3>3. /\ R \o tail \in Name /\ Len(R \o tail) = Len(R) + Len(tail)
          /\ \A i \in 1..(Len(R) + Len(tail)) : i <= Len(R) => (R \o tail)[i] = R[i]
      BY <2>2, <3>1, ConcatProperties DEF Name
    <3>4. Len(R) \in Nat /\ Len(tail) \in Nat
      BY <2>2, <3>1 DEF Name
    <3>5. 3 \in 1..(Len(R) + Len(tail))
      BY <2>3, <3>4
    <3> QED
      BY <2>3, <3>2, <3>3, <3>4, <3>5
  <2>5. ToLower(P) \notin Table /\ ToLower(longer) \notin Table
    <3> HIDE DEF longer
    <3> QED
      BY <1>1, <2>4, TableWithoutAddr
  <2> QED
    BY <2>5 DEF MeshProxy, R
<1> QED
  BY <1>3, <1>4 DEF Ask, P, Answered, Declined

\* dnsagent/plugin.go:131-146: an answer about a service is the record of its instance,
\* found under the key that the name gives.
LEMMA AnswerOfService ==
    ASSUME NEW k, NEW s \in Polaris,
           Ask("dnsagent", k).kind = "answered", Ask("dnsagent", k).about = Key(s)
    PROVE  LET m == MatchSuffix(ResolvedName(k.name), AddQuota(conf.suffix["dnsagent"]))
               key == ServiceKey(m.rest, conf.namespace)
           IN  /\ m.matched /\ key.service = s.service /\ key.namespace = s.namespace
               /\ Ask("dnsagent", k) = MarkRecord(k.qtype, s.host, s)
<1> DEFINE P == ResolvedName(k.name)
           m == MatchSuffix(P, AddQuota(conf.suffix["dnsagent"]))
           key == ServiceKey(m.rest, conf.namespace)
           found == Lookup(key)
           answer == Ask("dnsagent", k)
<1>1. s.service \in Seq(STRING) \ {<<>>} /\ \A t \in Polaris : Key(t) = Key(s) => t = s
  <2>1. {s.service, s.namespace} \subseteq Seq(STRING) \ {<<>>}
    BY NameAssumption DEF NamesAreWellFormed
  <2>2. \A t \in Polaris : t.service = s.service /\ t.namespace = s.namespace => t = s
    BY NameAssumption DEF NamesAreWellFormed
  <2>3. \A a, b, c, d : <<a, b>> = <<c, d>> => a = c /\ b = d
    OBVIOUS
  <2> QED
    BY <2>1, <2>2, <2>3 DEF Key
<1>2. answer = DnsAgent(k.qtype, P)
  BY DEF Ask
<1> HIDE DEF P, m, key, found, answer
<1>3. answer = ServeService(k.qtype, P)
  <2>1. ASSUME answer = ServeAddr(k.qtype, P) PROVE FALSE
    <3>1. answer.kind = "answered" /\ answer.about = Key(s)
      BY DEF answer
    <3>2. \E h : answer = MarkRecord(k.qtype, h, NoInstance)
      BY <2>1, <3>1 DEF ServeAddr, Lost, Declined
    <3>3. answer.about = Key(NoInstance)
      BY <3>1, <3>2 DEF MarkRecord, Answered, Lost
    <3>4. Key(NoInstance) = <<<<>>, <<>>>>
      BY DEF Key, NoInstance
    <3>5. Key(s) = <<s.service, s.namespace>>
      BY DEF Key
    <3>6. <<s.service, s.namespace>> = <<<<>>, <<>>>>
      BY <3>1, <3>3, <3>4, <3>5
    <3>7. s.service = <<>>
      BY <3>6
    <3> QED
      BY <1>1, <3>7
  <2> QED
    BY <1>2, <2>1 DEF DnsAgent
<1>4. answer.kind = "answered" /\ answer.about = Key(s)
  BY DEF answer
<1>5. m.matched /\ found # {} /\ answer = MarkRecord(k.qtype, (CHOOSE t \in found : TRUE).host,
                                                    CHOOSE t \in found : TRUE)
  BY <1>3, <1>4 DEF ServeService, Declined, m, key, found
<1>6. PICK t \in found : answer = MarkRecord(k.qtype, t.host, t)
  BY <1>5
<1>7. t \in Polaris /\ t.service = key.service /\ t.namespace = key.namespace
  BY <1>6 DEF found, Lookup
<1>8. answer.about = Key(t)
  BY <1>4, <1>6 DEF MarkRecord, Answered, Lost
<1>9. t = s
  BY <1>1, <1>4, <1>7, <1>8
<1> QED
  BY <1>5, <1>6, <1>7, <1>9 DEF P, m, key, answer

-----------------------------------------------------------------------------
(* Replies                                                                  *)

\* A reply of dnsagent is what it makes of the question, and dnsagent is one of
\* the resolvers.
ReplyOfDnsAgent ==
    /\ DOMAIN reply = Queries /\ question \in [Queries -> Questions]
    /\ \A q \in Queries :
          LET outcome == Ask("dnsagent", question[q])
          IN  reply[q].from = "dnsagent" =>
                /\ \E i \in DOMAIN conf.resolvers : conf.resolvers[i] = "dnsagent"
                /\ outcome.kind = "answered"
                /\ reply[q].data = outcome.data /\ reply[q].about = outcome.about

\* handler.go:58-66: dnsagent is quoted as it answered, whatever the other queries
\* and resolvers do.
THEOREM RepliesAreOutcomes == NameSpec => []ReplyOfDnsAgent
<1>1. NameInit => ReplyOfDnsAgent
  BY DEF NameInit, ReplyOfDnsAgent, NoReply
<1>2. TypeOK /\ ReplyOfDnsAgent /\ [NameNext]_nameVars => ReplyOfDnsAgent'
  <2> SUFFICES ASSUME TypeOK, ReplyOfDnsAgent, [NameNext]_nameVars
               PROVE  ReplyOfDnsAgent'
    OBVIOUS
  <2>1. UNCHANGED question /\ UNCHANGED conf
    <3>1. UNCHANGED question
      BY DEF NameNext, NameStep, Resolve, UpstreamAnswers, Fail, Continue, Reply, NoWords, nameVars
    <3> QED
      BY <3>1, NamedStep, FixedStep
  <2>2. \A r, k : Ask(r, k)' = Ask(r, k')
    BY <2>1 DEF Ask, DnsAgent, MeshProxy, ServeAddr, ServeService, ResolvedName
  <2>3. DOMAIN reply = Queries
    BY DEF ReplyOfDnsAgent
  <2>4. CASE UNCHANGED reply
    BY <2>1, <2>2, <2>4 DEF ReplyOfDnsAgent
  <2>5. ASSUME NEW q \in Queries, NameStep(q), ~UNCHANGED reply PROVE ReplyOfDnsAgent'
    <3>1. PICK from, rcode, data, about :
              reply' = [reply EXCEPT ![q] = [from |-> from, rcode |-> rcode, data |-> data,
                                             about |-> about]]
      BY <2>5 DEF NameStep, Resolve, UpstreamAnswers, Fail, Continue, Reply, NoWords
    <3>2. DOMAIN reply' = Queries /\ \A p \in Queries : p # q => reply'[p] = reply[p]
      BY <2>3, <3>1
    <3>3. reply'[q].from = "dnsagent" =>
            /\ \E i \in DOMAIN conf.resolvers : conf.resolvers[i] = "dnsagent"
            /\ Ask("dnsagent", question[q]).kind = "answered"
            /\ reply'[q].data = Ask("dnsagent", question[q]).data
            /\ reply'[q].about = Ask("dnsagent", question[q]).about
      <4>1. CASE ResolverAnswers(q) /\ Outcome(q).kind = "answered"
                 /\ Reply(q, conf.resolvers[pos[q] + 1], WrittenRcode("NOERROR"),
                          Outcome(q).data, Outcome(q).about)
        <5>1. pos[q] + 1 \in DOMAIN conf.resolvers
          <6>1. conf.resolvers \in Seq({"dnsagent", "meshproxy"})
            BY NameAssumption DEF NamesAreWellFormed, TypeOK
          <6>2. pos[q] \in 0..Len(conf.resolvers) /\ pos[q] < Len(conf.resolvers)
            BY <4>1 DEF TypeOK, ResolverAnswers, Resolvers
          <6> QED
            BY <6>1, <6>2
        <5>2. /\ reply'[q].from = conf.resolvers[pos[q] + 1]
              /\ reply'[q].data = Outcome(q).data /\ reply'[q].about = Outcome(q).about
          BY <2>3, <4>1 DEF Reply
        <5>3. CASE conf.resolvers[pos[q] + 1] = "dnsagent"
          BY <4>1, <5>1, <5>2, <5>3 DEF Outcome
        <5> QED
          BY <5>2, <5>3
      <4>2. CASE UpstreamAnswers(q) \/ Fail(q)
        <5>1. reply'[q].from \in {"recursor", "handler"}
          BY <2>3, <4>2 DEF UpstreamAnswers, Fail, Reply
        <5> QED
          BY <5>1
      <4> QED
        BY <2>5, <4>1, <4>2 DEF NameStep, Resolve, Continue, NoWords
    <3> QED
      BY <2>1, <2>2, <3>2, <3>3 DEF ReplyOfDnsAgent
  <2>6. UNCHANGED nameVars => UNCHANGED reply
    BY DEF nameVars
  <2> QED
    BY <2>4, <2>5, <2>6 DEF NameNext, NoWords
<1> QED
  BY <1>1, <1>2, NamesAreQueries, TypeCorrect, PTL DEF NameSpec

\* dnsagent/plugin.go:170-173 with 116-128: the target of an SRV answer leads to the
\* instance, whatever the services, addresses, suffixes and search domains.
THEOREM TargetsResolve == NameSpec => []SrvTargetResolves
<1>1. TypeOK /\ ReplyOfDnsAgent => SrvTargetResolves
  <2> SUFFICES ASSUME TypeOK, ReplyOfDnsAgent, NEW q \in Queries, NEW s \in Polaris,
                      reply[q].from = "dnsagent", reply[q].about = Key(s),
                      question[q].qtype = "SRV", NoAddrAround
               PROVE  LET k == [qtype |-> IF s.host \in V4 THEN "A" ELSE "AAAA",
                                name |-> reply[q].data]
                          answers == {i \in DOMAIN conf.resolvers :
                                         Ask(conf.resolvers[i], k).kind # "declined"}
                      IN  /\ answers # {}
                          /\ \A i \in answers : Ask(conf.resolvers[i], k).data = <<s.host>>
    BY DEF SrvTargetResolves, NoAddrAround
  <2> DEFINE k == [qtype |-> IF s.host \in V4 THEN "A" ELSE "AAAA", name |-> reply[q].data]
  <2>1. /\ \E i \in DOMAIN conf.resolvers : conf.resolvers[i] = "dnsagent"
        /\ Ask("dnsagent", question[q]).kind = "answered"
        /\ reply[q].data = Ask("dnsagent", question[q]).data
        /\ Ask("dnsagent", question[q]).about = Key(s)
    BY DEF ReplyOfDnsAgent
  <2>2. Ask("dnsagent", question[q]) = MarkRecord("SRV", s.host, s)
    BY <2>1, AnswerOfService
  <2>3. s.host \in V4 \cup V6 /\ reply[q].data = EncodeIPAsFqdn(s.host, s)
    BY <2>1, <2>2 DEF MarkRecord, Answered, Lost
  <2>4. /\ Ask("dnsagent", k).kind = "answered" /\ Ask("dnsagent", k).data = <<s.host>>
        /\ Ask("meshproxy", k).kind = "declined"
    BY <2>3, TargetResolves DEF TypeOK
  <2>5. \A i \in DOMAIN conf.resolvers : conf.resolvers[i] \in {"dnsagent", "meshproxy"}
    <3>1. conf.resolvers \in Seq({"dnsagent", "meshproxy"})
      BY NameAssumption DEF NamesAreWellFormed, TypeOK
    <3> QED
      BY <3>1
  <2> HIDE DEF k
  <2>6. \A i \in DOMAIN conf.resolvers :
           Ask(conf.resolvers[i], k).kind # "declined" <=> conf.resolvers[i] = "dnsagent"
    BY <2>4, <2>5
  <2>7. /\ {i \in DOMAIN conf.resolvers : Ask(conf.resolvers[i], k).kind # "declined"} # {}
        /\ \A i \in {j \in DOMAIN conf.resolvers : Ask(conf.resolvers[j], k).kind # "declined"} :
              Ask(conf.resolvers[i], k).data = <<s.host>>
    BY <2>1, <2>4, <2>6
  <2> QED
    BY <2>7 DEF k
<1> QED
  BY <1>1, RepliesAreOutcomes, NamesAreQueries, TypeCorrect, PTL

-----------------------------------------------------------------------------
(* The services that answers are about                                      *)

\* The dot alone, as a suffix that is none.
LEMMA QuotaOfDot == AddQuota(Dot) = Dot /\ RemoveQuota(Dot) = <<>>
<1>1. <<>> \o Dot = Dot
  BY ConcatEmptySeq, NamesOfText DEF Name
<1>2. AddQuota(<<>> \o Dot) = <<>> \o Dot /\ RemoveQuota(<<>> \o Dot) = <<>>
  BY QuotaOfDotted, NamesOfText DEF Name
<1> QED
  BY <1>1, <1>2

\* Is the name cut inside a label where a search domain begins?
CutsSearch(name) ==
    \E i \in SearchEnds(name) : conf.search[i] # Dot /\ CutsLabel(name, AddQuota(conf.search[i]))

\* What Preprocess leaves, with its dot, is the beginning of the name.
LEMMA ResolvedBegins ==
    ASSUME conf \in Configs, NEW name \in Name, AddQuota(name) = name, ~CutsSearch(name)
    PROVE  \E rest \in Name : name = AddQuota(ResolvedName(name)) \o rest
<1> DEFINE P == ResolvedName(name)
<1>1. P \in Name
  BY ResolvedIsName
<1> HIDE DEF P
<1>2. CASE P = name
  <2>1. name = name \o <<>>
    BY ConcatEmptySeq DEF Name
  <2> QED
    BY <1>2, <2>1, NamesOfText DEF P
<1>3. CASE P # name
  <2>1. PICK i \in DOMAIN conf.search :
            LET end == AddQuota(conf.search[i])
            IN  /\ end \in Name /\ IsSuffix(end, name) /\ name = P \o end
                /\ i \in SearchEnds(name) /\ end # name
    BY <1>3, ResolvedIsName DEF P
  <2> DEFINE end == AddQuota(conf.search[i])
  <2>2. CASE IsSuffix(Dot, P)
    <3>1. AddQuota(P) = P
      BY <2>2 DEF AddQuota
    <3> QED
      BY <2>1, <3>1 DEF P
  <2>3. CASE ~IsSuffix(Dot, P)
    <3>1. AddQuota(P) = P \o Dot
      BY <2>3 DEF AddQuota
    <3>2. CASE end = Dot
      <4>1. name = AddQuota(P)
        BY <2>1, <3>1, <3>2
      <4>2. name = name \o <<>>
        BY ConcatEmptySeq DEF Name
      <4>3. name = AddQuota(P) \o <<>>
        BY <4>1, <4>2
      <4> QED
        BY <4>3, NamesOfText DEF P
    <3>3. CASE end # Dot
      <4>1. conf.search[i] # Dot
        BY <3>3, QuotaOfDot
      <4>2. ~CutsLabel(name, end)
        BY <2>1, <4>1 DEF CutsSearch
      <4> HIDE DEF end
      <4>3. end \in Name /\ IsSuffix(end, name) /\ name = P \o end /\ end # name
        BY <2>1 DEF end
      <4>4. /\ Len(P) \in Nat /\ Len(end) \in Nat /\ Len(name) = Len(P) + Len(end)
            /\ \A j \in 1..Len(P) : name[j] = P[j]
        BY <1>1, <4>3 DEF Name
      <4>5. Len(P) # 0
        <5>1. ASSUME P = <<>> PROVE FALSE
          <6>1. P \o end = end
            BY <4>3, <5>1, ConcatEmptySeq DEF Name
          <6> QED
            BY <4>3, <6>1
        <5> QED
          BY <1>1, <5>1, EmptySeq DEF Name
      <4>6. name[Len(name) - Len(end)] = "."
        BY <4>2, <4>3, <4>4, <4>5 DEF CutsLabel
      <4>7. P[Len(P)] = "."
        BY <4>4, <4>5, <4>6
      <4>8. IsSuffix(Dot, P)
        BY <1>1, <4>4, <4>5, <4>7, EndsWithDot, NamesOfText DEF Name
      <4> QED
        BY <2>3, <4>8
    <3> QED
      BY <3>2, <3>3
  <2> QED
    BY <2>2, <2>3
<1> QED
  BY <1>2, <1>3

\* The texts by which OfferedNames names a service, before the suffix.
Offered(s) ==
    LET namespace == IF s.namespace = <<"Polaris">> THEN <<"polaris">> ELSE s.namespace
    IN  {s.service \o Dot \o namespace}
        \cup IF s.namespace = conf.namespace /\ LastDot(s.service) = 0 THEN {s.service} ELSE {}

\* The service and the namespace of a service of Polaris.
LEMMA ServiceIsNamed ==
    ASSUME NEW s \in Polaris
    PROVE  /\ s.service \in Name /\ s.namespace \in Name
           /\ s.service # <<>> /\ s.namespace # <<>>
<1>1. {s.service, s.namespace} \subseteq Seq(STRING) \ {<<>>}
  BY NameAssumption DEF NamesAreWellFormed
<1> QED
  BY <1>1, NamesOfText

\* What OfferedNames makes of them.
LEMMA OfferedWithSuffix ==
    ASSUME NEW s
    PROVE  LET end == RemoveQuota(conf.suffix["dnsagent"])
           IN  OfferedNames(s) = {IF end = <<>> THEN n \o Dot ELSE n \o Dot \o end \o Dot :
                                     n \in Offered(s)}
BY DEF OfferedNames, Offered

\* util.go:32-55: a text that ParseQname takes for a service is, but for the case of
\* the namespace of Polaris, one by which it is offered.
LEMMA KeyIsOffered ==
    ASSUME NEW s \in Polaris, NEW rest \in Name,
           ServiceKey(rest, conf.namespace).service = s.service,
           ServiceKey(rest, conf.namespace).namespace = s.namespace
    PROVE  LET n == RemoveQuota(rest)
           IN  /\ \E b \in Offered(s) : b \in Name /\ ToLower(b) = ToLower(n)
               /\ \E u \in Name : n = s.service \o u
<1> DEFINE n == RemoveQuota(rest)
           d == LastDot(n)
<1>1. n \in Name
  BY QuotaParts, NamesOfText DEF Name
<1>2. s.service \in Name /\ s.namespace \in Name
  BY ServiceIsNamed
<1>3. ServiceKey(rest, conf.namespace) =
         IF d = 0 THEN [service |-> n, namespace |-> conf.namespace]
         ELSE [service |-> SubSeq(n, 1, d - 1),
               namespace |-> SystemNamespace(SubSeq(n, d + 1, Len(n)))]
  BY DEF ServiceKey
<1> HIDE DEF n
<1>4. CASE d = 0
  <2>1. n = s.service /\ s.namespace = conf.namespace
    BY <1>3, <1>4
  <2>2. n \in Offered(s)
    BY <1>4, <2>1 DEF Offered
  <2>3. n = s.service \o <<>>
    BY <1>2, <2>1, ConcatEmptySeq DEF Name
  <2> QED
    BY <1>1, <2>2, <2>3, NamesOfText DEF n
<1>5. CASE d # 0
  <2> DEFINE t == SubSeq(n, d + 1, Len(n))
             namespace == IF s.namespace = <<"Polaris">> THEN <<"polaris">> ELSE s.namespace
             b == s.service \o Dot \o namespace
  <2>1. d > 0
    <3>1. d \in 0..Len(n) /\ Len(n) \in Nat
      BY <1>1, LastDotFound DEF Name
    <3> QED
      BY <1>5, <3>1
  <2>2. SubSeq(n, 1, d - 1) = s.service /\ SystemNamespace(t) = s.namespace
    BY <1>3, <1>5
  <2>3. t \in Name /\ n = s.service \o Dot \o t
    BY <1>1, <2>1, <2>2, SplitAtLastDot DEF Name
  <2> HIDE DEF t
  <2>4. namespace \in Name
    <3>1. <<"polaris">> \in Name
      BY NamesOfText DEF Name
    <3> QED
      BY <1>2, <3>1
  <2>5. ToLower(namespace) = ToLower(t)
    <3>1. ToLower(<<"polaris">>) = <<"polaris">> /\ ToLower(<<"Polaris">>) = <<"polaris">>
      <4>1. /\ "polaris" \notin DOMAIN Lower
            /\ "Polaris" \in DOMAIN Lower /\ Lower["Polaris"] = "polaris"
        BY NameAssumption DEF NamesAreWellFormed
      <4> QED
        BY <4>1 DEF ToLower
    <3>2. CASE ToLower(t) = <<"polaris">>
      BY <2>2, <3>1, <3>2 DEF SystemNamespace
    <3>3. CASE ToLower(t) # <<"polaris">>
      <4>1. s.namespace = t
        BY <2>2, <3>3 DEF SystemNamespace
      <4>2. s.namespace # <<"Polaris">>
        BY <3>1, <3>3, <4>1
      <4> QED
        BY <4>1, <4>2
    <3> QED
      BY <3>2, <3>3
  <2> HIDE DEF namespace
  <2>6. s.service \o Dot \in Name
    BY <1>2, NamesOfText, NamesTogether
  <2>7. b \in Name /\ ToLower(b) = ToLower(n)
    <3> DEFINE sd == s.service \o Dot
    <3> HIDE DEF sd
    <3>1. sd \in Name
      BY <2>6 DEF sd
    <3>2. sd \o namespace \in Name /\ ToLower(sd \o namespace) = ToLower(sd) \o ToLower(namespace)
      BY <2>4, <3>1, NamesTogether, LowerOfBoth
    <3>3. ToLower(sd \o t) = ToLower(sd) \o ToLower(t)
      BY <2>3, <3>1, LowerOfBoth
    <3> QED
      BY <2>3, <2>5, <3>2, <3>3 DEF sd
  <2>8. b \in Offered(s)
    BY DEF Offered, namespace
  <2>9. Dot \o t \in Name /\ n = s.service \o (Dot \o t)
    <3>1. Dot \o t \in Name
      BY <2>3, NamesOfText, NamesTogether
    <3>2. (s.service \o Dot) \o t = s.service \o (Dot \o t)
      <4>1. \A x, y, z \in Name : (x \o y) \o z = x \o (y \o z)
        BY NamesTogether
      <4>2. s.service \in Name /\ Dot \in Name /\ t \in Name
        BY <1>2, <2>3, NamesOfText
      <4> QED
        BY ONLY <4>1, <4>2
    <3> QED
      BY <2>3, <3>1, <3>2
  <2> QED
    BY <2>7, <2>8, <2>9 DEF n
<1> QED
  BY <1>4, <1>5

\* plugin.go:131-168 with util.go:32-69: the name asked for begins with what is left of
\* it for ParseQname and the suffix of the resolver, as an offered name does.
LEMMA SuffixLeaves ==
    ASSUME conf \in Configs, NEW P \in Name,
           LET suffix == AddQuota(conf.suffix["dnsagent"])
           IN  /\ MatchSuffix(P, suffix).matched
               /\ suffix # Dot => ~CutsLabel(AddQuota(P), suffix)
    PROVE  LET rest == MatchSuffix(P, AddQuota(conf.suffix["dnsagent"])).rest
               n == RemoveQuota(rest)
               end == RemoveQuota(conf.suffix["dnsagent"])
           IN  /\ rest \in Name /\ n \in Name /\ end \in Name
               /\ n # <<>> =>
                    \E more \in Name :
                        AddQuota(P) = (IF end = <<>> THEN n \o Dot ELSE n \o Dot \o end \o Dot) \o more
<1> DEFINE suffix == AddQuota(conf.suffix["dnsagent"])
           end == RemoveQuota(conf.suffix["dnsagent"])
           A == AddQuota(P)
           rest == MatchSuffix(P, suffix).rest
           n == RemoveQuota(rest)
<1>1. conf.suffix["dnsagent"] \in Name
  <2>1. conf.suffix["dnsagent"] \in Seq(STRING)
    BY NameAssumption DEF NamesAreWellFormed
  <2> QED
    BY <2>1, NamesOfText
<1>2. end \in Name /\ suffix \in Name /\ suffix = end \o Dot
  BY <1>1, QuotaParts, NamesOfText DEF Name
<1>3. AddQuota(suffix) = suffix
  BY <1>2, QuotaOfDotted, NamesOfText DEF Name
<1>4. A \in Name
  BY QuotaParts, NamesOfText DEF Name
<1>5. suffix # <<>>
  BY <1>2, NamesOfText, ConcatEqualIffEmpty DEF Name, Dot
<1> HIDE DEF suffix, end
<1>6. IsSuffix(suffix, A) /\ rest = DropEnd(A, suffix)
  BY <1>3, <1>5 DEF MatchSuffix, suffix
<1> HIDE DEF A, rest
<1>7. rest \in Name /\ A = rest \o suffix
  <2>1. A \in Seq(Piece) /\ suffix \in Seq(Piece)
    BY <1>2, <1>4 DEF Name
  <2>2. DropEnd(A, suffix) \in Seq(Piece) /\ A = DropEnd(A, suffix) \o suffix
    BY ONLY <1>6, <2>1, SuffixDropped
  <2> QED
    BY <1>6, <2>2 DEF Name
<1>8. /\ n \in Name /\ (rest = n \/ rest = n \o Dot)
      /\ IsSuffix(Dot, rest) => rest = n \o Dot
  <2>1. n \in Name /\ (rest = n \/ rest = n \o Dot) /\ AddQuota(rest) = n \o Dot
    BY <1>7, QuotaParts, NamesOfText DEF Name
  <2>2. IsSuffix(Dot, rest) => AddQuota(rest) = rest
    BY DEF AddQuota
  <2> QED
    BY <2>1, <2>2
<1> HIDE DEF n
<1>9. n \o Dot \in Name
  BY <1>8, NamesOfText, NamesTogether
<1>10. ASSUME n # <<>>
       PROVE  \E more \in Name :
                  A = (IF end = <<>> THEN n \o Dot ELSE n \o Dot \o end \o Dot) \o more
  <2>1. CASE end = <<>>
    <3>1. suffix = Dot
      BY <1>2, <2>1, NamesOfText, ConcatEmptySeq DEF Name
    <3>2. CASE rest = n
      <4>1. A = (n \o Dot) \o <<>>
        BY <1>7, <1>9, <3>1, <3>2, ConcatEmptySeq DEF Name
      <4> QED
        BY <2>1, <4>1, NamesOfText
    <3>3. CASE rest = n \o Dot
      <4>1. A = (n \o Dot) \o Dot
        BY <1>7, <3>1, <3>3
      <4> QED
        BY <2>1, <4>1, NamesOfText
    <3> QED
      BY <1>8, <3>2, <3>3
  <2>2. CASE end # <<>>
    <3>1. suffix # Dot
      BY <1>2, <2>2, NamesOfText, ConcatEqualIffEmpty DEF Name
    <3>2. ~CutsLabel(A, suffix)
      BY <3>1 DEF suffix, A
    <3>3. /\ Len(rest) \in Nat /\ Len(suffix) \in Nat /\ Len(A) = Len(rest) + Len(suffix)
          /\ \A j \in 1..Len(rest) : A[j] = rest[j]
      BY <1>2, <1>7 DEF Name
    <3>4. rest # <<>>
      <4>1. ASSUME rest = <<>> PROVE FALSE
        <5>1. n \o Dot # <<>>
          BY <1>8, NamesOfText, ConcatEqualIffEmpty DEF Name, Dot
        <5> QED
          BY <1>8, <1>10, <4>1, <5>1
      <4> QED
        BY <4>1
    <3>5. Len(rest) # 0
      BY <1>7, <3>4, EmptySeq DEF Name
    <3>6. A[Len(A) - Len(suffix)] = "."
      BY <1>6, <3>2, <3>3, <3>5 DEF CutsLabel
    <3>7. rest[Len(rest)] = "."
      BY <3>3, <3>5, <3>6
    <3>8. rest = n \o Dot
      BY <1>7, <1>8, <3>3, <3>5, <3>7, EndsWithDot, NamesOfText DEF Name
    <3>9. A = ((n \o Dot) \o end) \o Dot
      <4>1. \A x, y, z \in Name : (x \o y) \o z = x \o (y \o z)
        BY NamesTogether
      <4>2. n \o Dot \in Name /\ end \in Name /\ Dot \in Name
        BY <1>2, <1>9, NamesOfText
      <4>3. A = (n \o Dot) \o (end \o Dot)
        BY <1>2, <1>7, <3>8
      <4> QED
        BY ONLY <4>1, <4>2, <4>3
    <3>10. ((n \o Dot) \o end) \o Dot \in Name
      BY <1>4, <3>9 DEF A
    <3>11. A = (((n \o Dot) \o end) \o Dot) \o <<>>
      BY <3>9, <3>10, ConcatEmptySeq DEF Name
    <3> QED
      BY <2>2, <3>11, NamesOfText
  <2> QED
    BY <2>1, <2>2
<1> QED
  BY <1>2, <1>7, <1>8, <1>10 DEF suffix, end, A, rest, n

\* The name a begins n, which goes on with a name.
Begins(a, n) == \E v \in Name : n = a \o v

\* A name begins what is put together from it and another, and what that begins.
LEMMA BeginsOn ==
    /\ \A a, b \in Name : Begins(a, a \o b)
    /\ \A a, b, c \in Name : Begins(a, b) /\ Begins(b, c) => Begins(a, c)
<1>1. ASSUME NEW a \in Name, NEW b \in Name, NEW c \in Name, Begins(a, b), Begins(b, c)
      PROVE  Begins(a, c)
  <2>1. PICK v \in Name : b = a \o v
    BY <1>1 DEF Begins
  <2>2. PICK w \in Name : c = b \o w
    BY <1>1 DEF Begins
  <2>3. v \o w \in Name
    BY NamesTogether
  <2>4. (a \o v) \o w = a \o (v \o w)
    BY ONLY a \in Name, v \in Name, w \in Name, ConcatAssociative, SMTT(30) DEF Name
  <2> QED
    BY <2>1, <2>2, <2>3, <2>4 DEF Begins
<1>2. ASSUME NEW a \in Name, NEW b \in Name
      PROVE  Begins(a, a \o b)
  BY Zenon DEF Begins
<1> QED
  BY <1>1, <1>2, Zenon

\* One text in lower case begins another.
LEMMA LowerBegins ==
    ASSUME NEW a \in Name, NEW b \in Name, NEW more \in Name, ToLower(a) = ToLower(b)
    PROVE  IsPrefix(ToLower(a), ToLower(b \o more))
<1>1. ToLower(b \o more) = ToLower(b) \o ToLower(more)
  BY LowerOfBoth
<1>2. ToLower(b) \in Name /\ ToLower(more) \in Name
  BY LowerPieces
<1>3. IsPrefix(ToLower(b), ToLower(b) \o ToLower(more))
  BY <1>2, PrefixOfBoth DEF Name
<1> QED
  BY <1>1, <1>3

\* plugin.go:112-146: no name leads to the service of another.
LEMMA NamesLeadToTheirServices ==
    ASSUME conf \in Configs, NEW k \in Questions, NEW s \in Polaris,
           Ask("dnsagent", k).kind = "answered", Ask("dnsagent", k).about = Key(s),
           ~CutsSearch(k.name),
           LET suffix == AddQuota(conf.suffix["dnsagent"])
           IN  suffix # Dot => ~CutsLabel(AddQuota(ResolvedName(k.name)), suffix)
    PROVE  /\ IsPrefix(s.service, k.name)
           /\ \E n \in OfferedNames(s) : IsPrefix(ToLower(n), ToLower(k.name))
<1> DEFINE P == ResolvedName(k.name)
           m == MatchSuffix(P, AddQuota(conf.suffix["dnsagent"]))
           n == RemoveQuota(m.rest)
           end == RemoveQuota(conf.suffix["dnsagent"])
           With(b) == IF end = <<>> THEN b \o Dot ELSE b \o Dot \o end \o Dot
<1>1. k.name \in Name /\ AddQuota(k.name) = k.name
  <2>1. k.name \in Seq(STRING) /\ AddQuota(k.name) = k.name
    BY NameAssumption DEF NamesAreWellFormed
  <2> QED
    BY <2>1, NamesOfText
<1>2. P \in Name
  BY <1>1, ResolvedIsName
<1>3. PICK w \in Name : k.name = AddQuota(P) \o w
  BY <1>1, ResolvedBegins
<1>4. /\ m.matched
      /\ ServiceKey(m.rest, conf.namespace).service = s.service
      /\ ServiceKey(m.rest, conf.namespace).namespace = s.namespace
  BY AnswerOfService
<1> HIDE DEF P
<1>5. /\ m.rest \in Name /\ n \in Name /\ end \in Name
      /\ n # <<>> => \E more \in Name : AddQuota(P) = With(n) \o more
  BY <1>2, <1>4, SuffixLeaves DEF P
<1> HIDE DEF m, end
<1>6. PICK b \in Offered(s) : b \in Name /\ ToLower(b) = ToLower(n)
  BY <1>4, <1>5, KeyIsOffered
<1>7. PICK u \in Name : n = s.service \o u
  BY <1>4, <1>5, KeyIsOffered
<1> HIDE DEF n
<1>8. s.service \in Name /\ s.service # <<>>
  BY ServiceIsNamed
<1>9. n # <<>>
  BY <1>7, <1>8, ConcatEqualIffEmpty DEF Name
<1>10. PICK more \in Name : AddQuota(P) = With(n) \o more
  BY <1>5, <1>9
<1>11. \A x, y \in Name : x \o y \in Name
  BY NamesTogether
<1>12. \A x, y, z \in Name : (x \o y) \o z = x \o (y \o z)
  BY NamesTogether
<1>13. Dot \in Name
  BY NamesOfText
<1>14. With(n) \in Name /\ With(b) \in Name /\ ToLower(With(b)) = ToLower(With(n))
  <2>1. \A x, y, z \in Name : ToLower(x) = ToLower(y) =>
           x \o z \in Name /\ y \o z \in Name /\ ToLower(x \o z) = ToLower(y \o z)
    <3> SUFFICES ASSUME NEW x \in Name, NEW y \in Name, NEW z \in Name, ToLower(x) = ToLower(y)
                 PROVE  x \o z \in Name /\ y \o z \in Name /\ ToLower(x \o z) = ToLower(y \o z)
      OBVIOUS
    <3>1. ToLower(x \o z) = ToLower(x) \o ToLower(z) /\ ToLower(y \o z) = ToLower(y) \o ToLower(z)
      BY LowerOfBoth
    <3> QED
      BY <1>11, <3>1
  <2>2. n \in Name /\ b \in Name /\ end \in Name /\ ToLower(b) = ToLower(n)
    BY <1>5, <1>6
  <2>3. /\ n \o Dot \in Name /\ b \o Dot \in Name
        /\ ToLower(b \o Dot) = ToLower(n \o Dot)
    BY ONLY <1>13, <2>1, <2>2
  <2>4. /\ n \o Dot \o end \in Name /\ b \o Dot \o end \in Name
        /\ ToLower(b \o Dot \o end) = ToLower(n \o Dot \o end)
    BY ONLY <2>1, <2>2, <2>3
  <2>5. /\ n \o Dot \o end \o Dot \in Name /\ b \o Dot \o end \o Dot \in Name
        /\ ToLower(b \o Dot \o end \o Dot) = ToLower(n \o Dot \o end \o Dot)
    BY ONLY <1>13, <2>1, <2>4
  <2> QED
    BY <2>3, <2>5
<1>15. Begins(n, With(n))
  <2>1. n \in Name /\ Dot \in Name /\ end \in Name
    BY <1>5, <1>13
  <2>2. n \o Dot \in Name /\ Begins(n, n \o Dot)
    BY <1>11, <2>1, BeginsOn
  <2>3. CASE end = <<>>
    BY <2>2, <2>3
  <2>4. CASE end # <<>>
    <3>1. n \o Dot \o end \in Name /\ Begins(n \o Dot, n \o Dot \o end)
      BY <1>11, <2>1, <2>2, BeginsOn
    <3>2. Begins(n \o Dot \o end, n \o Dot \o end \o Dot)
      BY <2>1, <3>1, BeginsOn
    <3>3. Begins(n \o Dot, With(n))
      BY <1>14, <2>2, <2>4, <3>1, <3>2, BeginsOn
    <3> QED
      BY <1>14, <2>1, <2>2, <3>3, BeginsOn
  <2> QED
    BY <2>3, <2>4
<1>17. With(b) \in OfferedNames(s)
  BY <1>6, OfferedWithSuffix DEF end
<1> HIDE DEF With
<1>18. more \o w \in Name /\ k.name = With(n) \o (more \o w)
  <2>1. With(n) \in Name /\ more \in Name /\ w \in Name
    BY <1>14
  <2>2. more \o w \in Name /\ (With(n) \o more) \o w = With(n) \o (more \o w)
    BY ONLY <1>11, <1>12, <2>1
  <2> QED
    BY <1>3, <1>10, <2>2
<1>19. IsPrefix(ToLower(With(b)), ToLower(k.name))
  BY <1>14, <1>18, LowerBegins
<1>20. IsPrefix(s.service, k.name)
  <2>1. Begins(s.service, n) /\ Begins(With(n), k.name)
    BY <1>7, <1>18 DEF Begins
  <2>2. Begins(s.service, k.name)
    <3>1. Begins(s.service, With(n))
      BY <1>5, <1>8, <1>14, <1>15, <2>1, BeginsOn
    <3> QED
      BY <1>1, <1>8, <1>14, <2>1, <3>1, BeginsOn
  <2>3. PICK v \in Name : k.name = s.service \o v
    BY <2>2 DEF Begins
  <2> QED
    BY <1>8, <2>3, PrefixOfBoth DEF Name
<1> QED
  BY <1>17, <1>19, <1>20

\* plugin.go:112-168 with handler.go:30-48: an answer about a service goes to a name of
\* that service, unless a search domain or the suffix is cut inside a label.
THEOREM AnswersAreOwn == NameSpec => []NoForeignAnswer
<1>1. TypeOK /\ ReplyOfDnsAgent => NoForeignAnswer
  <2> SUFFICES ASSUME TypeOK, ReplyOfDnsAgent, NEW q \in Queries, NEW s \in Polaris,
                      reply[q].from = "dnsagent", reply[q].about = Key(s),
                      ~CutsSearch(question[q].name),
                      LET suffix == AddQuota(conf.suffix["dnsagent"])
                      IN  suffix # Dot =>
                            ~CutsLabel(AddQuota(ResolvedName(question[q].name)), suffix)
               PROVE  /\ IsPrefix(s.service, question[q].name)
                      /\ \E n \in OfferedNames(s) : IsPrefix(ToLower(n), ToLower(question[q].name))
    BY DEF NoForeignAnswer, CutsSearch
  <2>1. /\ Ask("dnsagent", question[q]).kind = "answered"
        /\ Ask("dnsagent", question[q]).about = Key(s) /\ question[q] \in Questions
    BY DEF ReplyOfDnsAgent
  <2> QED
    BY <2>1, NamesLeadToTheirServices DEF TypeOK
<1> QED
  BY <1>1, RepliesAreOutcomes, NamesAreQueries, TypeCorrect, PTL

-----------------------------------------------------------------------------
(* The services that clients name                                           *)

\* A name from which RemoveQuota cuts nothing does not end with a dot.
LEMMA Undotted ==
    ASSUME NEW a \in Name, RemoveQuota(a) = a
    PROVE  AddQuota(a) = a \o Dot /\ ~IsSuffix(Dot, a)
<1>1. AddQuota(a) = a \o Dot
  BY QuotaParts, NamesOfText DEF Name
<1>2. a \o Dot # a
  BY ConcatEqualIffEmpty, NamesOfText DEF Name, Dot
<1>3. IsSuffix(Dot, a) => AddQuota(a) = a
  BY DEF AddQuota
<1> QED
  BY <1>1, <1>2, <1>3

\* A name without any dot does not end with one.
LEMMA NoDotAtEnd ==
    ASSUME NEW a \in Name, LastDot(a) = 0
    PROVE  RemoveQuota(a) = a
<1>1. Len(a) \in Nat /\ \A i \in 1..Len(a) : i > 0 => a[i] # "."
  BY LastDotFound DEF Name
<1>2. ~IsSuffix(Dot, a)
  BY <1>1, EndsWithDot, NamesOfText DEF Name
<1> QED
  BY <1>2 DEF RemoveQuota

\* What ends two names together ends the second.
LEMMA UndottedTogether ==
    ASSUME NEW a \in Name, NEW b \in Name, b # <<>>, RemoveQuota(b) = b
    PROVE  a \o b \in Name /\ a \o b # <<>> /\ RemoveQuota(a \o b) = a \o b
<1> DEFINE ab == a \o b
<1>1. /\ ab \in Name /\ Len(a) \in Nat /\ Len(b) \in Nat /\ Len(ab) = Len(a) + Len(b)
      /\ \A i \in 1..(Len(a) + Len(b)) : ab[i] = IF i <= Len(a) THEN a[i] ELSE b[i - Len(a)]
  BY ConcatProperties DEF Name
<1>2. Len(b) > 0
  BY <1>1, EmptySeq DEF Name
<1>3. b[Len(b)] # "."
  BY <1>2, Undotted, EndsWithDot, NamesOfText DEF Name
<1> HIDE DEF ab
<1>4. Len(ab) \in 1..(Len(a) + Len(b)) /\ ~(Len(ab) <= Len(a)) /\ Len(ab) - Len(a) = Len(b)
  BY <1>1, <1>2
<1>5. ab[Len(ab)] # "."
  BY <1>1, <1>3, <1>4
<1>6. ~IsSuffix(Dot, ab)
  BY <1>1, <1>5, EndsWithDot, NamesOfText DEF Name
<1>7. RemoveQuota(ab) = ab
  BY <1>6 DEF RemoveQuota
<1>8. ab # <<>>
  BY <1>1, <1>2
<1> QED
  BY <1>1, <1>7, <1>8 DEF ab

\* util.go:32-55: an offered text is a name, and ParseQname finds in it the service
\* and its namespace.
LEMMA OfferedIsFound ==
    ASSUME NEW s \in Polaris, Nameable(s), NEW b \in Offered(s)
    PROVE  /\ b \in Name /\ b # <<>> /\ RemoveQuota(b) = b
           /\ \A rest : RemoveQuota(rest) = b =>
                  ServiceKey(rest, conf.namespace) =
                      [service |-> s.service, namespace |-> s.namespace]
<1> DEFINE namespace == IF s.namespace = <<"Polaris">> THEN <<"polaris">> ELSE s.namespace
<1>1. /\ s.service \in Name /\ s.namespace \in Name
      /\ s.service # <<>> /\ s.namespace # <<>>
  BY ServiceIsNamed
<1>2. CASE b = s.service /\ s.namespace = conf.namespace /\ LastDot(s.service) = 0
  BY <1>1, <1>2 DEF ServiceKey, Nameable
<1>3. CASE b = s.service \o Dot \o namespace
  <2>1. /\ ToLower(<<"polaris">>) = <<"polaris">> /\ ToLower(<<"Polaris">>) = <<"polaris">>
    <3>1. /\ "polaris" \notin DOMAIN Lower
          /\ "Polaris" \in DOMAIN Lower /\ Lower["Polaris"] = "polaris"
      BY NameAssumption DEF NamesAreWellFormed
    <3> QED
      BY <3>1 DEF ToLower
  <2>2. <<"polaris">> \in Name /\ <<"polaris">> # <<>> /\ LastDot(<<"polaris">>) = 0
    <3>1. <<"polaris">> \in Name /\ Len(<<"polaris">>) = 1
      BY NamesOfText DEF Name
    <3>2. /\ LastDot(<<"polaris">>) \in 0..1
          /\ LastDot(<<"polaris">>) > 0 => <<"polaris">>[LastDot(<<"polaris">>)] = "."
      BY <3>1, LastDotFound DEF Name
    <3>3. \A d \in 0..1 : d > 0 => d = 1
      OBVIOUS
    <3>4. <<"polaris">>[1] # "."
      OBVIOUS
    <3> QED
      BY <3>1, <3>2, <3>3, <3>4
  <2>3. namespace \in Name /\ namespace # <<>> /\ LastDot(namespace) = 0
    BY <1>1, <2>2 DEF Nameable
  <2>4. SystemNamespace(namespace) = s.namespace
    <3>1. CASE s.namespace = <<"Polaris">>
      BY <2>1, <3>1 DEF SystemNamespace
    <3>2. CASE s.namespace # <<"Polaris">>
      BY <3>2 DEF SystemNamespace, Nameable
    <3> QED
      BY <3>1, <3>2
  <2> HIDE DEF namespace
  <2>5. LET d == LastDot(b)
        IN  d > 0 /\ SubSeq(b, 1, d - 1) = s.service /\ SubSeq(b, d + 1, Len(b)) = namespace
    <3> DEFINE name == s.service
               a == name \o Dot \o namespace
    <3>1. name \in Name /\ namespace \in Name /\ LastDot(namespace) = 0
      BY <1>1, <2>3
    <3> HIDE DEF name
    <3>2. LastDot(a) > 0 /\ SubSeq(a, 1, LastDot(a) - 1) = name
          /\ SubSeq(a, LastDot(a) + 1, Len(a)) = namespace
      BY <3>1, SplitOfName
    <3>3. a = b
      BY <1>3 DEF name
    <3> HIDE DEF a
    <3> QED
      BY <3>2, <3>3 DEF name
  <2>6. s.service \o Dot \in Name
    BY <1>1, NamesOfText, NamesTogether
  <2>7. RemoveQuota(namespace) = namespace
    BY <2>3, NoDotAtEnd
  <2>8. b \in Name /\ b # <<>> /\ RemoveQuota(b) = b
    BY <1>3, <2>3, <2>6, <2>7, UndottedTogether
  <2>9. ASSUME NEW rest, RemoveQuota(rest) = b
        PROVE  ServiceKey(rest, conf.namespace) =
                   [service |-> s.service, namespace |-> s.namespace]
    <3>1. LastDot(RemoveQuota(rest)) # 0
      BY <2>5, <2>9
    <3>2. ServiceKey(rest, conf.namespace) =
             [service |-> SubSeq(b, 1, LastDot(b) - 1),
              namespace |-> SystemNamespace(SubSeq(b, LastDot(b) + 1, Len(b)))]
      BY <2>9, <3>1 DEF ServiceKey
    <3> QED
      BY <2>4, <2>5, <3>2
  <2> QED
    BY <2>8, <2>9
<1> QED
  BY <1>2, <1>3 DEF Offered

\* An offered name is some text and a dot; MatchSuffix finds the suffix in it and
\* leaves the offered text.
LEMMA OfferedMatches ==
    ASSUME conf \in Configs, NEW s \in Polaris, Nameable(s), NEW n \in OfferedNames(s),
           LET end == RemoveQuota(conf.suffix["dnsagent"]) IN RemoveQuota(end) = end
    PROVE  /\ \E text \in Name : text # <<>> /\ RemoveQuota(text) = text /\ n = text \o Dot
           /\ \A P : AddQuota(P) = n =>
                 LET m == MatchSuffix(P, AddQuota(conf.suffix["dnsagent"]))
                 IN  m.matched /\ RemoveQuota(m.rest) \in Offered(s)
<1> DEFINE suffix == AddQuota(conf.suffix["dnsagent"])
           end == RemoveQuota(conf.suffix["dnsagent"])
<1>1. conf.suffix["dnsagent"] \in Name
  <2>1. conf.suffix["dnsagent"] \in Seq(STRING)
    BY NameAssumption DEF NamesAreWellFormed
  <2> QED
    BY <2>1, NamesOfText
<1>2. end \in Name /\ suffix \in Name /\ suffix = end \o Dot
  BY <1>1, QuotaParts, NamesOfText DEF Name
<1>3. AddQuota(suffix) = suffix /\ suffix # <<>>
  BY <1>2, QuotaOfDotted, NamesOfText, ConcatEqualIffEmpty DEF Name, Dot
<1>4. PICK b \in Offered(s) : n = IF end = <<>> THEN b \o Dot ELSE b \o Dot \o end \o Dot
  BY OfferedWithSuffix
<1>5. RemoveQuota(end) = end
  OBVIOUS
<1> HIDE DEF suffix, end
<1>6. b \in Name /\ b # <<>> /\ RemoveQuota(b) = b
  BY OfferedIsFound
<1>7. b \o Dot \in Name
  BY <1>6, NamesOfText, NamesTogether
<1>8. PICK rest \in Name : n = rest \o suffix /\ RemoveQuota(rest) = b
  <2>1. CASE end = <<>>
    <3>1. suffix = Dot
      BY <1>2, <2>1, NamesOfText, ConcatEmptySeq DEF Name
    <3> QED
      BY <1>4, <1>6, <2>1, <3>1
  <2>2. CASE end # <<>>
    <3> DEFINE bd == b \o Dot
    <3>1. bd \in Name /\ RemoveQuota(bd) = b
      BY <1>6, <1>7, QuotaOfDotted, NamesOfText DEF Name
    <3>2. n = (bd \o end) \o Dot
      BY <1>4, <2>2
    <3> HIDE DEF bd
    <3>3. (bd \o end) \o Dot = bd \o (end \o Dot)
      BY ONLY <1>2, <3>1, NamesOfText, ConcatAssociative DEF Name
    <3> QED
      BY <1>2, <3>1, <3>2, <3>3
  <2> QED
    BY <2>1, <2>2
<1>9. \E text \in Name : text # <<>> /\ RemoveQuota(text) = text /\ n = text \o Dot
  <2>1. CASE end = <<>>
    BY <1>4, <1>6, <2>1
  <2>2. CASE end # <<>>
    BY <1>2, <1>4, <1>5, <1>7, <2>2, UndottedTogether
  <2> QED
    BY <2>1, <2>2
<1>10. ASSUME NEW P, AddQuota(P) = n
       PROVE  MatchSuffix(P, suffix).matched /\ RemoveQuota(MatchSuffix(P, suffix).rest) = b
  <2>1. IsSuffix(suffix, n) /\ DropEnd(n, suffix) = rest
    BY <1>2, <1>8, SuffixAppended DEF Name
  <2>2. MatchSuffix(P, suffix) = [matched |-> TRUE, rest |-> rest]
    BY <1>3, <1>10, <2>1 DEF MatchSuffix
  <2> QED
    BY <1>8, <2>2
<1> QED
  BY <1>9, <1>10 DEF suffix

\* handler.go:30-48: from the name that a client of the service asks for, Preprocess
\* leaves the offered name, with or without its last dot.
LEMMA ResolvedIsOffered ==
    ASSUME conf \in Configs, NEW s \in Polaris, Nameable(s), NEW name \in Name,
           AsksFor(name, s), AddrLabel(name) = 0,
           LET end == RemoveQuota(conf.suffix["dnsagent"]) IN RemoveQuota(end) = end
    PROVE  /\ AddQuota(ResolvedName(name)) \in OfferedNames(s)
           /\ \/ ResolvedName(name) = name
              \/ \E e \in Name : /\ name = ResolvedName(name) \o e
                                 /\ IsSuffix(Dot, ResolvedName(name)) \/ e = Dot
<1> DEFINE P == ResolvedName(name)
<1>1. conf.search \in Seq(Seq(STRING))
  BY NameAssumption DEF NamesAreWellFormed
<1>2. \A n \in OfferedNames(s) :
         \E text \in Name : /\ text # <<>> /\ RemoveQuota(text) = text
                            /\ n = text \o Dot /\ n \in Name /\ n # <<>>
                            /\ AddQuota(text) = n /\ AddQuota(n) = n /\ IsSuffix(Dot, n)
  <2> SUFFICES ASSUME NEW n \in OfferedNames(s)
               PROVE  \E text \in Name : /\ text # <<>> /\ RemoveQuota(text) = text
                                         /\ n = text \o Dot /\ n \in Name /\ n # <<>>
                                         /\ AddQuota(text) = n /\ AddQuota(n) = n
                                         /\ IsSuffix(Dot, n)
    OBVIOUS
  <2>1. PICK text \in Name : text # <<>> /\ RemoveQuota(text) = text /\ n = text \o Dot
    BY OfferedMatches
  <2>2. n \in Name /\ n # <<>>
    BY <2>1, NamesOfText, NamesTogether, ConcatEqualIffEmpty DEF Name, Dot
  <2>3. AddQuota(text) = n /\ AddQuota(n) = n
    BY <2>1, Undotted, QuotaOfDotted, NamesOfText DEF Name
  <2>4. IsSuffix(Dot, n)
    BY <2>1, SuffixAppended, NamesOfText DEF Name
  <2> QED
    BY <2>1, <2>2, <2>3, <2>4
<1>3. CASE P = name /\ name \in OfferedNames(s)
  BY <1>2, <1>3
<1>4. ASSUME conf.recurse PROVE P = Preprocess(name, conf.search)
  BY <1>4 DEF ResolvedName
<1>5. ASSUME ~conf.recurse PROVE P = name /\ SearchEnds(name) = {}
  BY <1>5 DEF ResolvedName, SearchEnds
<1>6. \A i : i \in SearchEnds(name) <=>
         /\ conf.recurse /\ i \in DOMAIN conf.search
         /\ IsSuffix(AddQuota(conf.search[i]), name)
  BY DEF SearchEnds
<1>7. \/ P = name /\ SearchEnds(name) = {}
      \/ \E i \in SearchEnds(name) :
            /\ \A j \in SearchEnds(name) : i <= j
            /\ P = IF AddQuota(conf.search[i]) = name THEN name
                   ELSE DropEnd(name, AddQuota(conf.search[i]))
  <2>1. CASE ~conf.recurse
    BY <1>5, <2>1
  <2>2. CASE conf.recurse
    BY <1>1, <1>4, <1>6, <2>2, PreprocessCuts
  <2> QED
    BY <2>1, <2>2
<1> HIDE DEF P
<1>8. CASE name \in OfferedNames(s) /\ \A i \in SearchEnds(name) : conf.search[i] = Dot
  <2>1. CASE P = name
    BY <1>3, <1>8, <2>1
  <2>2. CASE P # name
    <3>1. P = DropEnd(name, Dot)
      BY <1>7, <1>8, <2>2, QuotaOfDot
    <3>2. PICK text \in Name : name = text \o Dot /\ AddQuota(text) = name
      BY <1>2, <1>8
    <3>3. P = text
      BY <3>1, <3>2, SuffixAppended, NamesOfText DEF Name
    <3> QED
      BY <1>8, <3>2, <3>3, NamesOfText DEF P
  <2> QED
    BY <2>1, <2>2
<1>9. CASE \E i \in SearchEnds(name) :
              /\ \A j \in SearchEnds(name) : i <= j
              /\ \E n \in OfferedNames(s) : name = n \o AddQuota(conf.search[i])
  <2>1. PICK i \in SearchEnds(name) :
              /\ \A j \in SearchEnds(name) : i <= j
              /\ \E n \in OfferedNames(s) : name = n \o AddQuota(conf.search[i])
    BY <1>9
  <2>2. PICK n \in OfferedNames(s) : name = n \o AddQuota(conf.search[i])
    BY <2>1
  <2> DEFINE e == AddQuota(conf.search[i])
  <2>3. e \in Name
    <3>1. conf.search[i] \in Seq(STRING)
      BY <1>1, <1>6
    <3> QED
      BY <3>1, QuotaParts, NamesOfText DEF Name
  <2>4. n \in Name /\ n # <<>> /\ AddQuota(n) = n /\ IsSuffix(Dot, n)
    BY <1>2
  <2>5. P = IF e = name THEN name ELSE DropEnd(name, e)
    <3>1. PICK j \in SearchEnds(name) :
              /\ \A l \in SearchEnds(name) : j <= l
              /\ P = IF AddQuota(conf.search[j]) = name THEN name
                     ELSE DropEnd(name, AddQuota(conf.search[j]))
      BY <1>7, <2>1
    <3>2. i = j
      <4>1. i \in Nat /\ j \in Nat /\ i <= j /\ j <= i
        BY <1>1, <1>6, <2>1, <3>1
      <4> QED
        BY <4>1
    <3> QED
      BY <3>1, <3>2
  <2> HIDE DEF e
  <2>6. name = n \o e
    BY <2>2 DEF e
  <2>7. e # name
    BY <2>3, <2>4, <2>6, ConcatEqualIffEmpty DEF Name
  <2>8. P = n
    BY <2>3, <2>4, <2>5, <2>6, <2>7, SuffixAppended DEF Name
  <2> QED
    BY <2>3, <2>4, <2>6, <2>8 DEF P
<1> QED
  BY <1>8, <1>9 DEF AsksFor

\* plugin.go:113-128: without the label _addr in the name there is none in what
\* Preprocess leaves of it.
LEMMA NoLabelAppears ==
    ASSUME NEW P \in Name, NEW e \in Name, AddrLabel(P \o e) = 0, IsSuffix(Dot, P) \/ e = Dot
    PROVE  AddrLabel(P) = 0
<1> DEFINE at(name, i) == /\ name[i] = "_addr"
                          /\ i = 1 \/ name[i - 1] = "."
                          /\ i = Len(name) \/ name[i + 1] = "."
           name == P \o e
<1>1. ASSUME NEW a \in Name
      PROVE  AddrLabel(a) = 0 <=> \A i \in 1..Len(a) : ~at(a, i)
  <2> DEFINE found == {i \in DOMAIN a : at(a, i)}
  <2>1. AddrLabel(a) = IF found = {} THEN 0 ELSE CHOOSE i \in found : \A j \in found : i <= j
    BY DEF AddrLabel
  <2>2. DOMAIN a = 1..Len(a) /\ Len(a) \in Nat
    BY DEF Name
  <2> HIDE DEF at
  <2>3. found \in SUBSET Nat /\ (0 \notin found) /\ (found = {} <=> \A i \in 1..Len(a) : ~at(a, i))
    BY <2>2
  <2> HIDE DEF found
  <2>4. found # {} => AddrLabel(a) \in found
    <3>1. found # {} => \E i \in found : \A j \in found : i <= j
      BY <2>3, NatMin
    <3> QED
      BY <2>1, <3>1
  <2> QED
    BY <2>1, <2>3, <2>4
<1>2. /\ name \in Name /\ Len(P) \in Nat /\ Len(e) \in Nat /\ Len(name) = Len(P) + Len(e)
      /\ \A i \in 1..(Len(P) + Len(e)) : name[i] = IF i <= Len(P) THEN P[i] ELSE e[i - Len(P)]
  BY ConcatProperties DEF Name
<1> HIDE DEF name
<1>3. ASSUME NEW i \in 1..Len(P), at(P, i) PROVE at(name, i)
  <2>1. i \in 1..Len(name) /\ \A j \in 1..Len(P) : name[j] = P[j]
    BY <1>2
  <2>2. name[i] = "_addr"
    BY <1>3, <2>1
  <2>3. i = 1 \/ name[i - 1] = "."
    <3>1. i # 1 => i - 1 \in 1..Len(P)
      BY <1>2
    <3> QED
      BY <1>3, <2>1, <3>1
  <2>4. i = Len(name) \/ name[i + 1] = "."
    <3>1. CASE i = Len(P)
      <4>1. ~IsSuffix(Dot, P)
        <5>1. P[Len(P)] = "_addr"
          BY <1>3, <3>1
        <5>2. "_addr" # "."
          OBVIOUS
        <5> QED
          BY <5>1, <5>2, EndsWithDot, NamesOfText DEF Name
      <4>2. e = Dot
        BY <4>1
      <4>3. Len(e) = 1 /\ e[1] = "."
        BY <4>2 DEF Dot
      <4>4. /\ i + 1 \in 1..(Len(P) + Len(e)) /\ ~(i + 1 <= Len(P)) /\ (i + 1) - Len(P) = 1
        BY <1>2, <3>1, <4>3
      <4> QED
        BY <1>2, <4>3, <4>4
    <3>2. CASE i # Len(P)
      <4>1. i + 1 \in 1..Len(P) /\ P[i + 1] = "."
        BY <1>2, <1>3, <3>2
      <4> QED
        BY <2>1, <4>1
    <3> QED
      BY <3>1, <3>2
  <2> QED
    BY <2>2, <2>3, <2>4
<1>4. \A i \in 1..Len(name) : ~at(name, i)
  BY <1>1, <1>2 DEF name
<1>5. \A i \in 1..Len(P) : i \in 1..Len(name)
  BY <1>2
<1> HIDE DEF at
<1>6. \A i \in 1..Len(P) : ~at(P, i)
  BY <1>3, <1>4, <1>5
<1> QED
  BY <1>1, <1>6

\* plugin.go:112-146: an offered name leads dnsagent to the service and its address.
LEMMA OfferedNamesLead ==
    ASSUME conf \in Configs, NEW k \in Questions, NEW s \in Polaris, Nameable(s),
           k.qtype = "A", s.host \in V4, AddrLabel(k.name) = 0, AsksFor(k.name, s),
           LET end == RemoveQuota(conf.suffix["dnsagent"]) IN RemoveQuota(end) = end
    PROVE  Ask("dnsagent", k) = Answered(<<s.host>>, Key(s))
<1> DEFINE P == ResolvedName(k.name)
           m == MatchSuffix(P, AddQuota(conf.suffix["dnsagent"]))
           found == Lookup(ServiceKey(m.rest, conf.namespace))
<1>1. k.name \in Name
  <2>1. k.name \in Seq(STRING)
    BY NameAssumption DEF NamesAreWellFormed
  <2> QED
    BY <2>1, NamesOfText
<1>2. P \in Name
  BY <1>1, ResolvedIsName
<1>3. /\ AddQuota(P) \in OfferedNames(s)
      /\ P = k.name \/ \E e \in Name : k.name = P \o e /\ (IsSuffix(Dot, P) \/ e = Dot)
  BY <1>1, ResolvedIsOffered
<1> HIDE DEF P
<1>4. AddrLabel(P) = 0
  BY <1>2, <1>3, NoLabelAppears
<1>5. m.matched /\ RemoveQuota(m.rest) \in Offered(s)
  BY <1>3, OfferedMatches
<1>6. ServiceKey(m.rest, conf.namespace) = [service |-> s.service, namespace |-> s.namespace]
  BY <1>5, OfferedIsFound
<1>7. found = {s}
  <2>1. \A t \in Polaris : t.service = s.service /\ t.namespace = s.namespace => t = s
    BY NameAssumption DEF NamesAreWellFormed
  <2> QED
    BY <1>6, <2>1 DEF Lookup
<1>8. Ask("dnsagent", k) = ServeService("A", P)
  BY <1>4 DEF Ask, DnsAgent, P
<1>9. ServeService("A", P) = MarkRecord("A", s.host, s)
  <2>1. ServeService("A", P) =
           IF ~m.matched \/ found = {} THEN Declined
           ELSE LET t == CHOOSE t \in found : TRUE IN MarkRecord("A", t.host, t)
    BY DEF ServeService
  <2> HIDE DEF m, found
  <2> QED
    BY <1>5, <1>7, <2>1
<1> QED
  BY <1>8, <1>9 DEF MarkRecord, Answered, AddressData

\* Does dnsagent answer the query, and is it asked first?
DnsAgentAnswers(q) ==
    /\ question[q].qtype \in {"A", "AAAA", "SRV"}
    /\ conf.resolvers # <<>> /\ conf.resolvers[1] = "dnsagent"
    /\ Ask("dnsagent", question[q]).kind = "answered"

\* Then that answer is the reply, and nothing else is done for the query.
FirstAnswer ==
    /\ DOMAIN reply = Queries /\ question \in [Queries -> Questions]
    /\ \A q \in Queries : DnsAgentAnswers(q) =>
          /\ query[q].qtype = "addr"
          /\ \/ pc[q] \in {"idle", "resolve"} /\ pos[q] = 0
             \/ /\ pc[q] = "end" /\ reply[q].from = "dnsagent"
                /\ reply[q].data = Ask("dnsagent", question[q]).data

\* handler.go:52-57: the loop over the resolvers ends with the first that answers.
THEOREM FirstAnswers == NameSpec => []FirstAnswer
<1>1. NameInit => FirstAnswer
  <2> SUFFICES ASSUME NameInit PROVE FirstAnswer
    OBVIOUS
  <2>1. DOMAIN reply = Queries /\ question \in [Queries -> Questions]
    BY DEF NameInit, NoReply
  <2>2. ASSUME NEW q \in Queries, DnsAgentAnswers(q)
        PROVE  query[q].qtype = "addr" /\ pc[q] = "idle" /\ pos[q] = 0
    BY <2>2 DEF NameInit, Init, ClassOf, DnsAgentAnswers
  <2> QED
    BY <2>1, <2>2 DEF FirstAnswer
<1>2. TypeOK /\ FirstAnswer /\ [NameNext]_nameVars => FirstAnswer'
  <2> SUFFICES ASSUME TypeOK, FirstAnswer, [NameNext]_nameVars
               PROVE  FirstAnswer'
    OBVIOUS
  <2>1. UNCHANGED question /\ UNCHANGED <<conf, query>>
    <3>1. UNCHANGED question
      BY DEF NameNext, NameStep, Resolve, UpstreamAnswers, Fail, Continue, Reply, NoWords, nameVars
    <3> QED
      BY <3>1, NamedStep, FixedStep
  <2>2. \A r, k : Ask(r, k)' = Ask(r, k')
    BY <2>1 DEF Ask, DnsAgent, MeshProxy, ServeAddr, ServeService, ResolvedName
  <2>3. \A q \in Queries : DnsAgentAnswers(q)' <=> DnsAgentAnswers(q)
    BY <2>1, <2>2 DEF DnsAgentAnswers
  <2>4. DOMAIN reply = Queries /\ question \in [Queries -> Questions]
    BY DEF FirstAnswer
  <2>5. CASE UNCHANGED <<pc, pos, reply>>
    BY <2>1, <2>2, <2>3, <2>5 DEF FirstAnswer
  <2>6. ASSUME NEW q \in Queries, NameStep(q) PROVE FirstAnswer'
    <3>1. \A p \in Queries : p # q => pc'[p] = pc[p] /\ pos'[p] = pos[p]
      BY <2>6 DEF TypeOK, NameStep, Resolve, UpstreamAnswers, Fail, Continue, At,
         Accept, FallBack, BeginRecursion, LockRotation, ReadServer, AdvanceRotation,
         NoUpstream, ExchangeRejected,
         ResolverAnswers, ResolverDeclines, ResolverLoses, ExchangeAccepted, NoRecursion,
         GiveUp
    <3>2. DOMAIN reply' = Queries /\ \A p \in Queries : p # q => reply'[p] = reply[p]
      BY <2>4, <2>6 DEF NameStep, Resolve, UpstreamAnswers, Fail, Continue, Reply, NoWords
    <3>3. ASSUME DnsAgentAnswers(q)
          PROVE  /\ query[q].qtype = "addr"
                 /\ \/ pc'[q] \in {"idle", "resolve"} /\ pos'[q] = 0
                    \/ /\ pc'[q] = "end" /\ reply'[q].from = "dnsagent"
                       /\ reply'[q].data = Ask("dnsagent", question[q]).data
      <4>1. /\ query[q].qtype = "addr" /\ DOMAIN pc = Queries
            /\ pc[q] = "end" \/ (pc[q] \in {"idle", "resolve"} /\ pos[q] = 0)
        BY <3>3 DEF FirstAnswer, TypeOK
      <4>2. pc[q] # "end"
        BY <2>6 DEF NameStep, Resolve, UpstreamAnswers, Fail, Continue, At,
           Accept, FallBack, BeginRecursion, LockRotation, ReadServer, AdvanceRotation,
           NoUpstream, ExchangeRejected,
           ResolverAnswers, ResolverDeclines, ResolverLoses, ExchangeAccepted, NoRecursion,
           GiveUp
      <4>3. Outcome(q) = Ask("dnsagent", question[q]) /\ Outcome(q).kind = "answered"
            /\ pos[q] < Resolvers /\ conf.resolvers[pos[q] + 1] = "dnsagent"
        <5>1. conf.resolvers \in Seq({"dnsagent", "meshproxy"})
          BY NameAssumption DEF NamesAreWellFormed, TypeOK
        <5>2. Resolvers > 0
          BY <3>3, <5>1, EmptySeq DEF DnsAgentAnswers, Resolvers
        <5>3. pos[q] = 0
          BY <4>1, <4>2
        <5> QED
          BY <3>3, <5>2, <5>3 DEF Outcome, DnsAgentAnswers
      <4>4. CASE ResolverAnswers(q) /\ Reply(q, conf.resolvers[pos[q] + 1],
                     WrittenRcode("NOERROR"), Outcome(q).data, Outcome(q).about)
        <5>1. pc'[q] = "end"
          BY <4>1, <4>4 DEF ResolverAnswers, At
        <5>2. reply'[q].from = conf.resolvers[pos[q] + 1] /\ reply'[q].data = Outcome(q).data
          BY <2>4, <4>4 DEF Reply
        <5> QED
          BY <4>1, <4>3, <5>1, <5>2
      <4>5. CASE Accept(q)
        <5>1. pc'[q] = "resolve" /\ pos'[q] = pos[q]
          BY <4>1, <4>5 DEF Accept, At
        <5> QED
          BY <4>1, <4>2, <5>1
      <4>6. Resolve(q) \/ Accept(q)
        BY <2>6, <4>1, <4>2, <4>3 DEF NameStep, Resolve, UpstreamAnswers, Fail, Continue, At,
           FallBack, BeginRecursion, LockRotation, ReadServer, AdvanceRotation, NoUpstream,
           ExchangeRejected,
           ExchangeAccepted, NoRecursion, GiveUp
      <4> QED
        BY <4>3, <4>4, <4>5, <4>6 DEF Resolve
    <3> QED
      BY <2>1, <2>2, <2>3, <3>1, <3>2, <3>3 DEF FirstAnswer
  <2> QED
    BY <2>5, <2>6 DEF NameNext, AllEnded, NoWords, nameVars, vars
<1> QED
  BY <1>1, <1>2, NamesAreQueries, TypeCorrect, PTL DEF NameSpec

\* dnsagent/plugin.go:112-168 with handler.go:30-57: a client gets the address of the
\* service that it names, whatever the services, suffix and search domains.
THEOREM NamesResolve == NameSpec => []ServiceNameResolves
<1>1. TypeOK /\ FirstAnswer => ServiceNameResolves
  <2> SUFFICES ASSUME TypeOK, FirstAnswer, NEW q \in Queries, NEW s \in Polaris,
                      LET end == RemoveQuota(conf.suffix["dnsagent"])
                      IN  /\ pc[q] = "end" /\ question[q].qtype = "A" /\ s.host \in V4
                          /\ Nameable(s)
                          /\ conf.resolvers # <<>> /\ conf.resolvers[1] = "dnsagent"
                          /\ AddrLabel(question[q].name) = 0 /\ RemoveQuota(end) = end
                          /\ AsksFor(question[q].name, s)
               PROVE  reply[q].from = "dnsagent" /\ reply[q].data = <<s.host>>
    BY DEF ServiceNameResolves
  <2>1. conf \in Configs /\ question[q] \in Questions
    BY DEF TypeOK, FirstAnswer
  <2>2. Ask("dnsagent", question[q]) = Answered(<<s.host>>, Key(s))
    BY <2>1, OfferedNamesLead
  <2>3. DnsAgentAnswers(q)
    BY <2>2 DEF DnsAgentAnswers, Answered
  <2>4. reply[q].from = "dnsagent" /\ reply[q].data = Ask("dnsagent", question[q]).data
    BY <2>3 DEF FirstAnswer
  <2> QED
    BY <2>2, <2>4 DEF Answered
<1> QED
  BY <1>1, FirstAnswers, NamesAreQueries, TypeCorrect, PTL
=============================================================================
