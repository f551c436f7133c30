--------------------------- MODULE HttpParserProofs ---------------------------
(***************************************************************************)
(* Theorems about HttpParser, for every text of the client, every way to   *)
(* cut it, and every size of the buffer.                                   *)
(***************************************************************************)
EXTENDS HttpParser, SequenceTheorems, WellFoundedInduction, TLAPS

\* The order of the natural numbers, as a set of pairs, is well-founded.
Less == {pair \in Nat \X Nat : pair[1] < pair[2]}

LEMMA LessIsWellFounded == IsWellFoundedOn(Less, Nat)
  BY NatLessThanWellFounded, Zenon DEF OpToRel, Less

\* A set of natural numbers that is not empty has one least member, which Min is.
LEMMA MinIsLeast ==
  ASSUME NEW S \in SUBSET Nat, S # {}
  PROVE  /\ Min(S) \in S /\ \A x \in S : Min(S) <= x
         /\ \A y \in S : (\A x \in S : y <= x) => Min(S) = y
<1>1. PICK least \in S : \A y \in S : ~(<<y, least>> \in Less)
  BY LessIsWellFounded, WFMin, Zenon
<1>2. \A y \in S : ~(y < least)
  BY <1>1 DEF Less
<1>3. \A y \in S : least <= y
  BY <1>2
<1>4. Min(S) \in S /\ \A y \in S : Min(S) <= y
  BY <1>3 DEF Min
<1>5. ASSUME NEW y \in S, \A x \in S : y <= x
      PROVE  Min(S) = y
  <2>1. Min(S) <= y /\ y <= Min(S) /\ Min(S) \in Nat /\ y \in Nat
    BY <1>4, <1>5
  <2> QED
    BY <2>1
<1> QED
  BY <1>4, <1>5

-------------------------------------------------------------------------------
(* The request line: a suffix of the text t is named by the index at which  *)
(* it begins.                                                               *)

\* A part of a text.
LEMMA PartOf ==
  ASSUME NEW S, NEW t \in Seq(S), NEW a \in 1 .. Len(t) + 1, NEW b \in 0 .. Len(t)
  PROVE  /\ Len(t) \in Nat /\ SubSeq(t, a, b) \in Seq(S)
         /\ Len(SubSeq(t, a, b)) = IF a <= b THEN b - a + 1 ELSE 0
         /\ \A k \in 1 .. b - a + 1 : SubSeq(t, a, b)[k] = t[a + k - 1]
<1>1. Len(t) \in Nat /\ \A k \in 1 .. Len(t) : t[k] \in S
  BY LenProperties, ElementOfSeq
<1>2. a \in Int /\ b \in Int /\ \A k \in a .. b : t[k] \in S
  BY <1>1
<1> QED
  BY <1>1, <1>2, SubSeqProperties

\* A part of a suffix is a part of the text.
LEMMA PartOfSuffix ==
  ASSUME NEW S, NEW t \in Seq(S), NEW a \in 1 .. Len(t) + 1
  PROVE  LET s == SubSeq(t, a, Len(t))
         IN /\ \A k \in 1 .. Len(s) + 1 : From(s, k) = SubSeq(t, a + k - 1, Len(t))
            /\ \A k \in 0 .. Len(s) : SubSeq(s, 1, k) = SubSeq(t, a, a + k - 1)
<1> DEFINE s == SubSeq(t, a, Len(t))
           n == Len(t)
<1>1. /\ n \in Nat /\ s \in Seq(S) /\ Len(s) = n - a + 1
      /\ \A k \in 1 .. n - a + 1 : s[k] = t[a + k - 1]
  BY PartOf, LenProperties
<1> HIDE DEF s, n
<1>2. ASSUME NEW k \in 1 .. Len(s) + 1
      PROVE  From(s, k) = SubSeq(t, a + k - 1, n)
  <2>1. /\ From(s, k) \in Seq(S) /\ Len(From(s, k)) = IF k <= Len(s) THEN Len(s) - k + 1 ELSE 0
        /\ \A m \in 1 .. Len(s) - k + 1 : From(s, k)[m] = s[k + m - 1]
    BY <1>1, PartOf DEF From
  <2>2. a + k - 1 \in 1 .. n + 1
    BY <1>1
  <2>3. /\ SubSeq(t, a + k - 1, n) \in Seq(S)
        /\ Len(SubSeq(t, a + k - 1, n)) = IF a + k - 1 <= n THEN n - (a + k - 1) + 1 ELSE 0
        /\ \A m \in 1 .. n - (a + k - 1) + 1 : SubSeq(t, a + k - 1, n)[m] = t[(a + k - 1) + m - 1]
    BY <1>1, <2>2, PartOf DEF n
  <2>4. Len(From(s, k)) = Len(SubSeq(t, a + k - 1, n))
    BY <1>1, <2>1, <2>3
  <2>5. ASSUME NEW m \in 1 .. Len(From(s, k))
        PROVE  From(s, k)[m] = SubSeq(t, a + k - 1, n)[m]
    <3>1. m \in 1 .. Len(s) - k + 1 /\ k + m - 1 \in 1 .. n - a + 1
      BY <1>1, <2>1
    <3>2. From(s, k)[m] = t[a + (k + m - 1) - 1]
      BY <1>1, <2>1, <3>1
    <3>3. SubSeq(t, a + k - 1, n)[m] = t[(a + k - 1) + m - 1]
      BY <1>1, <2>3, <3>1
    <3>4. a + (k + m - 1) - 1 = (a + k - 1) + m - 1
      BY <1>1, <3>1
    <3> QED
      BY <3>2, <3>3, <3>4
  <2> QED
    BY <2>1, <2>3, <2>4, <2>5, SeqEqual
<1>3. ASSUME NEW k \in 0 .. Len(s)
      PROVE  SubSeq(s, 1, k) = SubSeq(t, a, a + k - 1)
  <2>1. /\ SubSeq(s, 1, k) \in Seq(S) /\ Len(SubSeq(s, 1, k)) = k
        /\ \A m \in 1 .. k : SubSeq(s, 1, k)[m] = s[m]
    BY <1>1, PartOf
  <2>2. a + k - 1 \in 0 .. n
    BY <1>1
  <2>3. /\ SubSeq(t, a, a + k - 1) \in Seq(S) /\ Len(SubSeq(t, a, a + k - 1)) = k
        /\ \A m \in 1 .. k : SubSeq(t, a, a + k - 1)[m] = t[a + m - 1]
    BY <1>1, <2>2, PartOf DEF n
  <2>4. \A m \in 1 .. k : SubSeq(s, 1, k)[m] = SubSeq(t, a, a + k - 1)[m]
    BY <1>1, <2>1, <2>3
  <2> QED
    BY <2>1, <2>3, <2>4, SeqEqual
<1> QED
  BY <1>2, <1>3 DEF s, n

\* The first blank of a suffix: at index b of the text, or nowhere (b is behind it).
LEMMA FirstBlankOf ==
  ASSUME NEW S, NEW t \in Seq(S), NEW a \in 1 .. Len(t) + 1
  PROVE  \E b \in a .. Len(t) + 1 :
           /\ \A k \in a .. b - 1 : t[k] # "SP"
           /\ b <= Len(t) => t[b] = "SP"
           /\ FirstBlank(SubSeq(t, a, Len(t))) = IF b <= Len(t) THEN b - a + 1 ELSE 0
<1> DEFINE s == SubSeq(t, a, Len(t))
           n == Len(t)
           I == {k \in 1 .. Len(s) : s[k] = "SP"}
<1>1. /\ n \in Nat /\ Len(s) = n - a + 1
      /\ \A k \in 1 .. n - a + 1 : s[k] = t[a + k - 1]
  BY PartOf, LenProperties
<1>2. FirstBlank(s) = IF I # {} THEN Min(I) ELSE 0
  BY DEF FirstBlank, SelectInSeq
<1> HIDE DEF s, n
<1>3. \A k \in a .. n : k - a + 1 \in 1 .. Len(s) /\ s[k - a + 1] = t[k]
  <2> SUFFICES ASSUME NEW k \in a .. n
               PROVE  k - a + 1 \in 1 .. Len(s) /\ s[k - a + 1] = t[k]
    OBVIOUS
  <2>1. k - a + 1 \in 1 .. n - a + 1 /\ a + (k - a + 1) - 1 = k
    BY <1>1
  <2> QED
    BY <1>1, <2>1
<1>4. CASE I = {}
  <2>1. \A k \in a .. n : t[k] # "SP"
    BY <1>3, <1>4
  <2>2. n + 1 \in a .. n + 1 /\ ~(n + 1 <= n) /\ n + 1 - 1 = n
    BY <1>1 DEF n
  <2> QED
    BY <1>2, <1>4, <2>1, <2>2 DEF s, n
<1>5. CASE I # {}
  <2>1. I \in SUBSET Nat
    BY <1>1
  <2>2. Min(I) \in I /\ \A k \in I : Min(I) <= k
    BY <1>5, <2>1, MinIsLeast
  <2> DEFINE m == Min(I)
             b == a + m - 1
  <2>3. /\ m \in 1 .. n - a + 1 /\ s[m] = "SP"
        /\ \A k \in I : m <= k
        /\ FirstBlank(s) = m
    BY <1>1, <1>2, <1>5, <2>2
  <2> HIDE DEF m
  <2>4. b \in a .. n /\ b - a + 1 = m /\ t[b] = "SP"
    BY <1>1, <2>3
  <2>5. ASSUME NEW k \in a .. b - 1
        PROVE  t[k] # "SP"
    <3>1. k \in a .. n /\ k - a + 1 < m
      BY <1>1, <2>3, <2>4
    <3>2. k - a + 1 \notin I
      <4> SUFFICES ASSUME k - a + 1 \in I PROVE FALSE
        OBVIOUS
      <4>1. m <= k - a + 1
        BY <2>3
      <4> QED
        BY <1>1, <2>3, <3>1, <4>1
    <3> QED
      BY <1>3, <3>1, <3>2
  <2> QED
    <3>1. b \in a .. n + 1 /\ b <= n
      BY <1>1, <2>4
    <3>2. FirstBlank(s) = b - a + 1
      BY <2>3, <2>4
    <3> QED
      BY <2>4, <2>5, <3>1, <3>2 DEF s, n
<1> QED
  BY <1>4, <1>5

\* A suffix without the blanks at its start: the suffix at c.
LEMMA BlanksSkipped ==
  ASSUME NEW S, NEW t \in Seq(S), NEW a \in 1 .. Len(t) + 1
  PROVE  \E c \in a .. Len(t) + 1 :
           /\ \A k \in a .. c - 1 : t[k] = "SP"
           /\ c <= Len(t) => t[c] # "SP"
           /\ SkipBlanks(SubSeq(t, a, Len(t))) = SubSeq(t, c, Len(t))
<1> DEFINE s == SubSeq(t, a, Len(t))
           n == Len(t)
           I == {k \in 1 .. Len(s) : s[k] # "SP"}
<1>1. /\ n \in Nat /\ Len(s) = n - a + 1
      /\ \A k \in 1 .. n - a + 1 : s[k] = t[a + k - 1]
  BY PartOf, LenProperties
<1>2. SkipBlanks(s) = IF (IF I # {} THEN Min(I) ELSE 0) = 0 THEN <<>>
                      ELSE From(s, IF I # {} THEN Min(I) ELSE 0)
  BY DEF SkipBlanks, SelectInSeq
<1>3. \A k \in 1 .. Len(s) + 1 : From(s, k) = SubSeq(t, a + k - 1, n)
  BY PartOfSuffix
<1> HIDE DEF s, n
<1>4. \A k \in a .. n : k - a + 1 \in 1 .. Len(s) /\ s[k - a + 1] = t[k]
  <2> SUFFICES ASSUME NEW k \in a .. n
               PROVE  k - a + 1 \in 1 .. Len(s) /\ s[k - a + 1] = t[k]
    OBVIOUS
  <2>1. k - a + 1 \in 1 .. n - a + 1 /\ a + (k - a + 1) - 1 = k
    BY <1>1
  <2> QED
    BY <1>1, <2>1
<1>5. CASE I = {}
  <2>1. \A k \in a .. n : t[k] = "SP"
    BY <1>4, <1>5
  <2>2. n + 1 \in a .. n + 1 /\ ~(n + 1 <= n) /\ n + 1 - 1 = n
    BY <1>1 DEF n
  <2>3. SubSeq(t, n + 1, n) = <<>>
    BY <1>1, SubSeqEmpty
  <2>4. SkipBlanks(s) = <<>>
    BY <1>2, <1>5
  <2> QED
    BY <2>1, <2>2, <2>3, <2>4 DEF s, n
<1>6. CASE I # {}
  <2>1. I \in SUBSET Nat
    BY <1>1
  <2>2. Min(I) \in I /\ \A k \in I : Min(I) <= k
    BY <1>6, <2>1, MinIsLeast
  <2> DEFINE m == Min(I)
             c == a + m - 1
  <2>3. /\ m \in 1 .. n - a + 1 /\ s[m] # "SP"
        /\ \A k \in I : m <= k
    BY <1>1, <2>2
  <2>4. SkipBlanks(s) = From(s, m)
    BY <1>2, <1>6, <2>3
  <2> HIDE DEF m
  <2>5. c \in a .. n /\ t[c] # "SP"
    BY <1>1, <2>3
  <2>6. ASSUME NEW k \in a .. c - 1
        PROVE  t[k] = "SP"
    <3>1. k \in a .. n /\ k - a + 1 < m
      BY <1>1, <2>3, <2>5
    <3>2. k - a + 1 \notin I
      <4> SUFFICES ASSUME k - a + 1 \in I PROVE FALSE
        OBVIOUS
      <4>1. m <= k - a + 1
        BY <2>3
      <4> QED
        BY <1>1, <2>3, <3>1, <4>1
    <3> QED
      BY <1>4, <3>1, <3>2
  <2>7. SkipBlanks(s) = SubSeq(t, c, n)
    <3>1. m \in 1 .. Len(s) + 1
      BY <1>1, <2>3
    <3> QED
      BY <1>3, <2>4, <3>1
  <2>8. c \in a .. n + 1
    BY <1>1, <2>5
  <2> QED
    BY <2>5, <2>6, <2>7, <2>8 DEF s, n
<1> QED
  BY <1>5, <1>6

\* A url from index i to j of the text t begins with a slash, or has one after http://.
UrlHasSlash(t, i, j) ==
  \/ t[i] = "/"
  \/ t[i] = "http://" /\ \E k \in i + 1 .. j : t[k] \in HasSlash

\* What parse_requestline and the pattern say of a url, in indices of the text.
LEMMA UrlOf ==
  ASSUME NEW S, NEW t \in Seq(S), NEW i \in 1 .. Len(t), NEW j \in i .. Len(t)
  PROVE  LET url == SubSeq(t, i, j)
         IN /\ (IF url[1] = "http://" THEN \E k \in 2 .. Len(url) : url[k] \in HasSlash
                                      ELSE url[1] = "/") <=> UrlHasSlash(t, i, j)
            /\ (\/ url[1] = "/"
                \/ url[1] = "http://" /\ {url[k] : k \in 2 .. Len(url)} \cap HasSlash # {})
               <=> UrlHasSlash(t, i, j)
            /\ "SP" \notin {url[k] : k \in DOMAIN url} <=> \A k \in i .. j : t[k] # "SP"
<1> DEFINE url == SubSeq(t, i, j)
<1>1. /\ Len(t) \in Nat /\ url \in Seq(S) /\ Len(url) = j - i + 1
      /\ \A k \in 1 .. j - i + 1 : url[k] = t[i + k - 1]
  BY PartOf
<1>2. DOMAIN url = 1 .. j - i + 1
  BY <1>1, LenProperties
<1> HIDE DEF url
<1>3. url[1] = t[i]
  BY <1>1
<1>4. \A k \in i .. j : k - i + 1 \in 1 .. j - i + 1 /\ url[k - i + 1] = t[k]
  <2> SUFFICES ASSUME NEW k \in i .. j
               PROVE  k - i + 1 \in 1 .. j - i + 1 /\ url[k - i + 1] = t[k]
    OBVIOUS
  <2>1. k - i + 1 \in 1 .. j - i + 1 /\ i + (k - i + 1) - 1 = k
    BY <1>1
  <2> QED
    BY <1>1, <2>1
<1>5. (\E k \in 2 .. Len(url) : url[k] \in HasSlash) <=> \E k \in i + 1 .. j : t[k] \in HasSlash
  <2>1. ASSUME NEW k \in 2 .. Len(url), url[k] \in HasSlash
        PROVE  \E m \in i + 1 .. j : t[m] \in HasSlash
    <3>1. i + k - 1 \in i + 1 .. j /\ k \in 1 .. j - i + 1
      BY <1>1
    <3> QED
      BY <1>1, <2>1, <3>1
  <2>2. ASSUME NEW k \in i + 1 .. j, t[k] \in HasSlash
        PROVE  \E m \in 2 .. Len(url) : url[m] \in HasSlash
    <3>1. k - i + 1 \in 2 .. Len(url) /\ k \in i .. j
      BY <1>1
    <3> QED
      BY <1>4, <2>2, <3>1
  <2> QED
    BY <2>1, <2>2
<1>6. {url[k] : k \in 2 .. Len(url)} \cap HasSlash # {} <=> \E k \in 2 .. Len(url) : url[k] \in HasSlash
  OBVIOUS
<1>7. "SP" \notin {url[k] : k \in DOMAIN url} <=> \A k \in i .. j : t[k] # "SP"
  <2>1. \A k \in 1 .. j - i + 1 : i + k - 1 \in i .. j
    BY <1>1
  <2>2. (\A k \in 1 .. j - i + 1 : url[k] # "SP") <=> \A k \in i .. j : t[k] # "SP"
    BY <1>1, <1>4, <2>1
  <2> QED
    BY <1>2, <2>2
<1> QED
  BY <1>3, <1>5, <1>6, <1>7 DEF url, UrlHasSlash

\* The pattern in indices of the text.
LEMMA PatternOf ==
  ASSUME NEW t \in Seq(Symbols)
  PROVE  IsRequestLine(t) <=>
           \E i \in 3 .. Len(t), j \in 2 .. Len(t) :
             /\ i <= j /\ j < Len(t) - 1
             /\ t[1] = "GET" /\ t[Len(t)] = "HTTP/1.1"
             /\ \A k \in 2 .. i - 1 : t[k] = "SP"
             /\ \A k \in j + 1 .. Len(t) - 1 : t[k] = "SP"
             /\ \A k \in i .. j : t[k] # "SP"
             /\ UrlHasSlash(t, i, j)
<1>1. Len(t) \in Nat
  BY LenProperties
<1>2. ASSUME NEW i \in 2 .. Len(t), NEW j \in 2 .. Len(t), i <= j
      PROVE  LET url == SubSeq(t, i, j)
             IN /\ (\/ url[1] = "/"
                    \/ url[1] = "http://" /\ {url[k] : k \in 2 .. Len(url)} \cap HasSlash # {})
                   <=> UrlHasSlash(t, i, j)
                /\ "SP" \notin {url[k] : k \in DOMAIN url} <=> \A k \in i .. j : t[k] # "SP"
  <2>1. i \in 1 .. Len(t) /\ j \in i .. Len(t)
    BY <1>1, <1>2
  <2> QED
    BY <2>1, UrlOf
<1>3. \A i \in 2 .. Len(t) : i > 2 <=> i \in 3 .. Len(t)
  BY <1>1
<1>4. \A i \in 3 .. Len(t) : i \in 2 .. Len(t)
  BY <1>1
<1> QED
  BY <1>2, <1>3, <1>4 DEF IsRequestLine

\* What parse_requestline does, in indices of the text: b and c are the ends of the
\* method and of the url, a and d the starts of the url and of the version.
LEMMA RequestLineCut ==
  ASSUME NEW t \in Seq(Symbols)
  PROVE  \E b \in 1 .. Len(t) + 1 :
           /\ \A k \in 1 .. b - 1 : t[k] # "SP"
           /\ b > Len(t) => ~ParseRequestLine(t)
           /\ b <= Len(t) =>
                /\ t[b] = "SP"
                /\ \E a \in b .. Len(t) + 1 :
                     /\ \A k \in b .. a - 1 : t[k] = "SP"
                     /\ a <= Len(t) => t[a] # "SP"
                     /\ \E c \in a .. Len(t) + 1 :
                          /\ \A k \in a .. c - 1 : t[k] # "SP"
                          /\ c > Len(t) => ~ParseRequestLine(t)
                          /\ c <= Len(t) =>
                               /\ t[c] = "SP"
                               /\ \E d \in c .. Len(t) + 1 :
                                    /\ \A k \in c .. d - 1 : t[k] = "SP"
                                    /\ d <= Len(t) => t[d] # "SP"
                                    /\ ParseRequestLine(t) <=>
                                         /\ SubSeq(t, 1, b - 1) = <<"GET">>
                                         /\ SubSeq(t, d, Len(t)) = <<"HTTP/1.1">>
                                         /\ UrlHasSlash(t, a, c - 1)
<1> DEFINE n == Len(t)
           rest == SkipBlanks(From(t, FirstBlank(t)))
           url == SubSeq(rest, 1, FirstBlank(rest) - 1)
           version == SkipBlanks(From(rest, FirstBlank(rest)))
           slash == IF url[1] = "http://" THEN \E i \in 2 .. Len(url) : url[i] \in HasSlash
                                          ELSE url[1] = "/"
<1>1. n \in Nat /\ SubSeq(t, 1, n) = t /\ 1 \in 1 .. n + 1
  BY LenProperties, SubSeqFull
<1>2. ParseRequestLine(t) <=>
        /\ FirstBlank(t) # 0 /\ SubSeq(t, 1, FirstBlank(t) - 1) = <<"GET">>
        /\ FirstBlank(rest) # 0 /\ version = <<"HTTP/1.1">>
        /\ slash
  BY Zenon DEF ParseRequestLine
<1>3. PICK b \in 1 .. n + 1 :
        /\ \A k \in 1 .. b - 1 : t[k] # "SP"
        /\ b <= n => t[b] = "SP"
        /\ FirstBlank(t) = IF b <= n THEN b - 1 + 1 ELSE 0
  BY <1>1, FirstBlankOf
<1>4. CASE b > n
  BY <1>1, <1>2, <1>3, <1>4
<1>5. CASE b <= n
  <2>1. FirstBlank(t) = b /\ From(t, b) = SubSeq(t, b, n)
    BY <1>1, <1>3, <1>5 DEF From
  <2>2. PICK a \in b .. n + 1 :
          /\ \A k \in b .. a - 1 : t[k] = "SP"
          /\ a <= n => t[a] # "SP"
          /\ rest = SubSeq(t, a, n)
    BY <2>1, BlanksSkipped
  <2>3. a \in 1 .. n + 1 /\ b \in 1 .. n /\ t[b] = "SP"
    BY <1>1, <1>3, <1>5
  <2>4. PICK c \in a .. n + 1 :
          /\ \A k \in a .. c - 1 : t[k] # "SP"
          /\ c <= n => t[c] = "SP"
          /\ FirstBlank(rest) = IF c <= n THEN c - a + 1 ELSE 0
    BY <2>2, <2>3, FirstBlankOf
  <2>5. CASE c > n
    <3>1. ~ParseRequestLine(t)
      BY <1>1, <1>2, <2>4, <2>5
    <3> HIDE DEF rest, url, version, slash
    <3>2. ~(c <= n)
      BY <1>1, <2>5
    <3> QED
      BY <1>1, <1>3, <1>5, <2>2, <2>3, <2>4, <3>1, <3>2
  <2>6. CASE c <= n
    <3>1. c \in 1 .. n + 1 /\ c \in 1 .. n /\ a \in 1 .. n /\ c - 1 \in a .. n /\ t[c] = "SP"
      <4>1. a # c
        BY <1>1, <2>2, <2>4, <2>6
      <4> QED
        BY <1>1, <2>3, <2>4, <2>6, <4>1
    <3>2. FirstBlank(rest) = c - a + 1 /\ FirstBlank(rest) # 0
      BY <1>1, <2>3, <2>4, <2>6
    <3>3. Len(rest) = n - a + 1
      BY <2>2, <3>1, <1>1, PartOf
    <3>4. c - a + 1 \in 1 .. Len(rest) + 1 /\ c - a \in 0 .. Len(rest)
      BY <1>1, <3>1, <3>3
    <3>5. From(rest, c - a + 1) = SubSeq(t, a + (c - a + 1) - 1, n)
      BY <2>2, <2>3, <3>4, PartOfSuffix
    <3>6. SubSeq(rest, 1, c - a) = SubSeq(t, a, a + (c - a) - 1)
      BY <2>2, <2>3, <3>4, PartOfSuffix
    <3>7. a + (c - a + 1) - 1 = c /\ a + (c - a) - 1 = c - 1 /\ (c - a + 1) - 1 = c - a
      BY <1>1, <3>1
    <3>8. url = SubSeq(t, a, c - 1)
      BY <3>2, <3>6, <3>7
    <3>9. From(rest, FirstBlank(rest)) = SubSeq(t, c, n)
      BY <3>2, <3>5, <3>7
    <3>10. PICK d \in c .. n + 1 :
            /\ \A k \in c .. d - 1 : t[k] = "SP"
            /\ d <= n => t[d] # "SP"
            /\ version = SubSeq(t, d, n)
      BY <3>1, <3>9, BlanksSkipped
    <3>11. slash <=> UrlHasSlash(t, a, c - 1)
      <4> DEFINE u == SubSeq(t, a, c - 1)
      <4>1. (IF u[1] = "http://" THEN \E k \in 2 .. Len(u) : u[k] \in HasSlash
                                 ELSE u[1] = "/") <=> UrlHasSlash(t, a, c - 1)
        BY <3>1, UrlOf
      <4> HIDE DEF u, rest
      <4>2. url = u
        BY <3>8 DEF u
      <4> QED
        BY <4>1, <4>2
    <3>12. b # 0
      BY <2>3
    <3>13. ParseRequestLine(t) <=>
             /\ SubSeq(t, 1, b - 1) = <<"GET">>
             /\ SubSeq(t, d, n) = <<"HTTP/1.1">>
             /\ UrlHasSlash(t, a, c - 1)
      BY <1>2, <2>1, <3>2, <3>10, <3>11, <3>12
    <3> HIDE DEF rest, url, version, slash
    <3>14. ~(c > n) /\ ~(b > n)
      BY <1>1, <2>3, <3>1
    <3> QED
      BY <1>3, <2>2, <2>3, <2>4, <3>1, <3>10, <3>13, <3>14
  <2> QED
    <3>1. c > n \/ c <= n
      BY <1>1, <2>3, <2>4
    <3> QED
      BY <2>5, <2>6, <3>1
<1> QED
  BY <1>1, <1>3, <1>4, <1>5

\* parse_requestline (src/HTTP/http.c:48-88) accepts exactly the lines that are GET, blanks,
\* a url with a slash, blanks and HTTP/1.1.
THEOREM RequestLineAccepted ==
  ASSUME NEW t \in Seq(Symbols)
  PROVE  ParseRequestLine(t) <=> IsRequestLine(t)
<1> DEFINE n == Len(t)
<1>1. n \in Nat /\ \A i \in 1 .. n : t[i] \in Symbols
  BY LenProperties, ElementOfSeq
<1>2. PICK b \in 1 .. n + 1 :
        /\ \A k \in 1 .. b - 1 : t[k] # "SP"
        /\ b > n => ~ParseRequestLine(t)
        /\ b <= n =>
             /\ t[b] = "SP"
             /\ \E a \in b .. n + 1 :
                  /\ \A k \in b .. a - 1 : t[k] = "SP"
                  /\ a <= n => t[a] # "SP"
                  /\ \E c \in a .. n + 1 :
                       /\ \A k \in a .. c - 1 : t[k] # "SP"
                       /\ c > n => ~ParseRequestLine(t)
                       /\ c <= n =>
                            /\ t[c] = "SP"
                            /\ \E d \in c .. n + 1 :
                                 /\ \A k \in c .. d - 1 : t[k] = "SP"
                                 /\ d <= n => t[d] # "SP"
                                 /\ ParseRequestLine(t) <=>
                                      /\ SubSeq(t, 1, b - 1) = <<"GET">>
                                      /\ SubSeq(t, d, n) = <<"HTTP/1.1">>
                                      /\ UrlHasSlash(t, a, c - 1)
  BY RequestLineCut
<1>3. IsRequestLine(t) <=>
        \E i \in 3 .. n, j \in 2 .. n :
          /\ i <= j /\ j < n - 1
          /\ t[1] = "GET" /\ t[n] = "HTTP/1.1"
          /\ \A k \in 2 .. i - 1 : t[k] = "SP"
          /\ \A k \in j + 1 .. n - 1 : t[k] = "SP"
          /\ \A k \in i .. j : t[k] # "SP"
          /\ UrlHasSlash(t, i, j)
  BY PatternOf
<1>4. \A i \in 1 .. n : SubSeq(t, 1, i) = <<"GET">> <=> i = 1 /\ t[1] = "GET"
  <2> SUFFICES ASSUME NEW i \in 1 .. n
               PROVE  SubSeq(t, 1, i) = <<"GET">> <=> i = 1 /\ t[1] = "GET"
    OBVIOUS
  <2>1. 1 \in 1 .. n + 1 /\ i \in 0 .. n /\ i - 1 + 1 = i
    BY <1>1
  <2>2. /\ SubSeq(t, 1, i) \in Seq(Symbols) /\ Len(SubSeq(t, 1, i)) = i
        /\ \A k \in 1 .. i : SubSeq(t, 1, i)[k] = t[1 + k - 1]
    BY <2>1, PartOf
  <2>3. ASSUME SubSeq(t, 1, i) = <<"GET">>
        PROVE  i = 1 /\ t[i] = "GET"
    <3>1. Len(SubSeq(t, 1, i)) = 1 /\ SubSeq(t, 1, i)[1] = "GET"
      <4>1. Len(<<"GET">>) = 1 /\ <<"GET">>[1] = "GET"
        OBVIOUS
      <4> QED
        BY <2>3, <4>1, Zenon
    <3> QED
      BY <1>1, <2>2, <3>1
  <2>4. ASSUME i = 1, t[i] = "GET"
        PROVE  SubSeq(t, 1, i) = <<"GET">>
    <3>1. <<"GET">> \in Seq(Symbols) /\ Len(<<"GET">>) = 1 /\ <<"GET">>[1] = "GET"
      BY DEF Symbols
    <3>2. Len(SubSeq(t, 1, i)) = 1 /\ SubSeq(t, 1, i)[1] = "GET"
      BY <1>1, <2>2, <2>4
    <3>3. \A k \in 1 .. 1 : SubSeq(t, 1, i)[k] = <<"GET">>[k]
      BY <3>1, <3>2
    <3> QED
      BY <2>2, <3>1, <3>2, <3>3, SeqEqual
  <2> QED
    BY <2>3, <2>4
<1>5. \A i \in 1 .. n : SubSeq(t, i, n) = <<"HTTP/1.1">> <=> i = n /\ t[n] = "HTTP/1.1"
  <2> SUFFICES ASSUME NEW i \in 1 .. n
               PROVE  SubSeq(t, i, n) = <<"HTTP/1.1">> <=> i = n /\ t[n] = "HTTP/1.1"
    OBVIOUS
  <2>1. i \in 1 .. n + 1 /\ n \in 0 .. n
    BY <1>1
  <2>2. /\ SubSeq(t, i, n) \in Seq(Symbols) /\ Len(SubSeq(t, i, n)) = n - i + 1
        /\ \A k \in 1 .. n - i + 1 : SubSeq(t, i, n)[k] = t[i + k - 1]
    BY <1>1, <2>1, PartOf
  <2>3. ASSUME SubSeq(t, i, n) = <<"HTTP/1.1">>
        PROVE  i = n /\ t[i] = "HTTP/1.1"
    <3>1. Len(SubSeq(t, i, n)) = 1 /\ SubSeq(t, i, n)[1] = "HTTP/1.1"
      BY <2>3
    <3> QED
      BY <1>1, <2>2, <3>1
  <2>4. ASSUME i = n, t[i] = "HTTP/1.1"
        PROVE  SubSeq(t, i, n) = <<"HTTP/1.1">>
    <3>1. <<"HTTP/1.1">> \in Seq(Symbols) /\ Len(<<"HTTP/1.1">>) = 1 /\ <<"HTTP/1.1">>[1] = "HTTP/1.1"
      BY DEF Symbols
    <3>2. Len(SubSeq(t, i, n)) = 1 /\ SubSeq(t, i, n)[1] = "HTTP/1.1"
      BY <1>1, <2>2, <2>4
    <3>3. \A k \in 1 .. 1 : SubSeq(t, i, n)[k] = <<"HTTP/1.1">>[k]
      BY <3>1, <3>2
    <3> QED
      BY <2>2, <3>1, <3>2, <3>3, SeqEqual
  <2> QED
    BY <2>3, <2>4
<1> HIDE DEF n
<1>6. ASSUME ParseRequestLine(t)
      PROVE  IsRequestLine(t)
  <2>1. b \in 1 .. n /\ t[b] = "SP"
    BY <1>1, <1>2, <1>6
  <2>2. PICK a \in b .. n + 1 :
          /\ \A k \in b .. a - 1 : t[k] = "SP"
          /\ a <= n => t[a] # "SP"
          /\ \E c \in a .. n + 1 :
               /\ \A k \in a .. c - 1 : t[k] # "SP"
               /\ c > n => ~ParseRequestLine(t)
               /\ c <= n =>
                    /\ t[c] = "SP"
                    /\ \E d \in c .. n + 1 :
                         /\ SubSeq(t, 1, b - 1) = <<"GET">>
                         /\ SubSeq(t, d, n) = <<"HTTP/1.1">>
                         /\ \A k \in c .. d - 1 : t[k] = "SP"
                         /\ UrlHasSlash(t, a, c - 1)
    BY <1>1, <1>2, <1>6, <2>1
  <2>3. PICK c \in a .. n + 1 :
          /\ \A k \in a .. c - 1 : t[k] # "SP"
          /\ c <= n
          /\ t[c] = "SP"
          /\ \E d \in c .. n + 1 :
               /\ SubSeq(t, 1, b - 1) = <<"GET">>
               /\ SubSeq(t, d, n) = <<"HTTP/1.1">>
               /\ \A k \in c .. d - 1 : t[k] = "SP"
               /\ UrlHasSlash(t, a, c - 1)
    BY <1>1, <1>6, <2>1, <2>2
  <2>4. PICK d \in c .. n + 1 :
          /\ SubSeq(t, 1, b - 1) = <<"GET">>
          /\ SubSeq(t, d, n) = <<"HTTP/1.1">>
          /\ \A k \in c .. d - 1 : t[k] = "SP"
          /\ UrlHasSlash(t, a, c - 1)
    BY <2>3
  <2>5. b = 2 /\ t[1] = "GET"
    <3>1. b # 1
      <4> SUFFICES ASSUME b = 1 PROVE FALSE
        OBVIOUS
      <4>1. SubSeq(t, 1, 0) = <<>>
        BY SubSeqEmpty
      <4>2. SubSeq(t, 1, 0) = <<"GET">>
        BY <2>4
      <4> QED
        BY <4>1, <4>2
    <3>2. b - 1 \in 1 .. n
      BY <1>1, <2>1, <3>1
    <3> QED
      BY <1>4, <2>1, <2>4, <3>2
  <2>6. d = n /\ t[n] = "HTTP/1.1"
    <3>1. d # n + 1
      <4> SUFFICES ASSUME d = n + 1 PROVE FALSE
        OBVIOUS
      <4>1. SubSeq(t, n + 1, n) = <<>>
        BY <1>1, SubSeqEmpty
      <4>2. SubSeq(t, n + 1, n) = <<"HTTP/1.1">>
        BY <2>4
      <4>3. <<>> # <<"HTTP/1.1">>
        OBVIOUS
      <4> QED
        BY <4>1, <4>2, <4>3, Zenon
    <3>2. d \in 1 .. n
      BY <1>1, <2>1, <2>2, <2>3, <2>4, <3>1
    <3> QED
      BY <1>5, <2>4, <3>2
  <2>7. a \in 3 .. n /\ c - 1 \in 2 .. n /\ a <= c - 1 /\ c - 1 < n - 1
    <3>1. a # c /\ a # b /\ c # n
      BY <1>1, <2>1, <2>2, <2>3, <2>6
    <3> QED
      BY <1>1, <2>1, <2>2, <2>3, <2>5, <3>1
  <2>8. (c - 1) + 1 = c
    BY <1>1, <2>7
  <2> QED
    BY <1>3, <2>2, <2>3, <2>4, <2>5, <2>6, <2>7, <2>8
<1>7. ASSUME IsRequestLine(t)
      PROVE  ParseRequestLine(t)
  <2>1. PICK i \in 3 .. n, j \in 2 .. n :
          /\ i <= j /\ j < n - 1
          /\ t[1] = "GET" /\ t[n] = "HTTP/1.1"
          /\ \A k \in 2 .. i - 1 : t[k] = "SP"
          /\ \A k \in j + 1 .. n - 1 : t[k] = "SP"
          /\ \A k \in i .. j : t[k] # "SP"
          /\ UrlHasSlash(t, i, j)
    BY <1>3, <1>7
  <2>2. b = 2
    <3>1. 2 \in 2 .. i - 1 /\ t[2] = "SP"
      BY <1>1, <2>1
    <3>2. b # 1
      BY <1>1, <1>2, <2>1
    <3> QED
      BY <1>1, <1>2, <2>1, <3>1, <3>2
  <2>3. PICK a \in 2 .. n + 1 :
          /\ \A k \in 2 .. a - 1 : t[k] = "SP"
          /\ a <= n => t[a] # "SP"
          /\ \E c \in a .. n + 1 :
               /\ \A k \in a .. c - 1 : t[k] # "SP"
               /\ c > n => ~ParseRequestLine(t)
               /\ c <= n =>
                    /\ t[c] = "SP"
                    /\ \E d \in c .. n + 1 :
                         /\ \A k \in c .. d - 1 : t[k] = "SP"
                         /\ d <= n => t[d] # "SP"
                         /\ ParseRequestLine(t) <=>
                              /\ SubSeq(t, 1, 1) = <<"GET">>
                              /\ SubSeq(t, d, n) = <<"HTTP/1.1">>
                              /\ UrlHasSlash(t, a, c - 1)
    <3>1. 2 <= n /\ b - 1 = 1
      BY <1>1, <2>1, <2>2
    <3> QED
      BY <1>2, <2>2, <3>1
  <2>4. a = i
    <3>1. ~(a < i)
      BY <1>1, <2>1, <2>3
    <3>2. ~(i < a)
      BY <1>1, <2>1, <2>3
    <3> QED
      BY <1>1, <2>1, <2>3, <3>1, <3>2
  <2>5. PICK c \in i .. n + 1 :
          /\ \A k \in i .. c - 1 : t[k] # "SP"
          /\ c > n => ~ParseRequestLine(t)
          /\ c <= n =>
               /\ t[c] = "SP"
               /\ \E d \in c .. n + 1 :
                    /\ \A k \in c .. d - 1 : t[k] = "SP"
                    /\ d <= n => t[d] # "SP"
                    /\ ParseRequestLine(t) <=>
                         /\ SubSeq(t, 1, 1) = <<"GET">>
                         /\ SubSeq(t, d, n) = <<"HTTP/1.1">>
                         /\ UrlHasSlash(t, i, c - 1)
    BY <2>3, <2>4
  <2>6. c = j + 1
    <3>1. j + 1 \in j + 1 .. n - 1 /\ t[j + 1] = "SP"
      BY <1>1, <2>1
    <3>2. ~(c > j + 1)
      BY <1>1, <2>1, <2>5, <3>1
    <3>3. ~(c < j + 1)
      BY <1>1, <2>1, <2>5
    <3> QED
      BY <1>1, <2>1, <2>5, <3>2, <3>3
  <2>7. PICK d \in j + 1 .. n + 1 :
          /\ \A k \in j + 1 .. d - 1 : t[k] = "SP"
          /\ d <= n => t[d] # "SP"
          /\ ParseRequestLine(t) <=>
               /\ SubSeq(t, 1, 1) = <<"GET">>
               /\ SubSeq(t, d, n) = <<"HTTP/1.1">>
               /\ UrlHasSlash(t, i, j)
    <3>1. j + 1 <= n /\ (j + 1) - 1 = j
      BY <1>1, <2>1
    <3> QED
      BY <2>5, <2>6, <3>1
  <2>8. d = n
    <3>1. ~(d < n)
      BY <1>1, <2>1, <2>7
    <3>2. ~(d > n)
      BY <1>1, <2>1, <2>7
    <3> QED
      BY <1>1, <2>1, <2>7, <3>1, <3>2
  <2>9. 1 \in 1 .. n /\ n \in 1 .. n
    BY <1>1, <2>1
  <2> QED
    BY <1>4, <1>5, <2>1, <2>7, <2>8, <2>9
<1> QED
  BY <1>6, <1>7

-------------------------------------------------------------------------------
(* The verdict, in indices of what the client sends. *)

Received == SubSeq(stream, 1, read_index)

\* The flaws and the ends of lines among the first n symbols.
FlawsIn(n) ==
  {i \in 1 .. n : \/ stream[i] = "LF" /\ (i = 1 \/ stream[i - 1] # "CR")
                  \/ stream[i] = "CR" /\ i < n /\ stream[i + 1] # "LF"}
EndsIn(n) == {i \in 1 .. n : stream[i] = "LF" /\ \A f \in FlawsIn(n) : i < f}

\* One of the lines between the given ends of lines has no text.
LastLineIn(ends) == \E i, j \in ends : i < j /\ stream[i + 1] \in {"CR", "NUL"}

LEMMA VerdictOf ==
  ASSUME TypeOK, read_index <= Len(stream)
  PROVE  LET flaws == FlawsIn(read_index)
             ends == EndsIn(read_index)
         IN /\ ends = {} => Verdict(Received) = IF flaws # {} THEN "bad" ELSE "none"
            /\ \A e \in ends :
                 (\A i \in ends : e <= i) =>
                 Verdict(Received) =
                   IF ~IsRequestLine(UpToNul(SubSeq(stream, 1, e - 2))) THEN "bad"
                   ELSE IF LastLineIn(ends) THEN "good"
                   ELSE IF flaws # {} THEN "bad" ELSE "none"
<1> DEFINE n == read_index
           s == Received
           flaws == {i \in DOMAIN s : \/ s[i] = "LF" /\ (i = 1 \/ s[i - 1] # "CR")
                                      \/ s[i] = "CR" /\ i < Len(s) /\ s[i + 1] # "LF"}
           ends == {i \in DOMAIN s : s[i] = "LF" /\ \A f \in flaws : i < f}
<1>1. stream \in Seq(Symbols) /\ Len(stream) \in Nat /\ n \in Nat /\ n <= Len(stream)
  BY LenProperties DEF TypeOK, read_index
<1>2. /\ s \in Seq(Symbols) /\ Len(s) = n
      /\ \A i \in 1 .. n : s[i] = stream[i]
  <2>1. 1 \in 1 .. Len(stream) + 1 /\ n \in 0 .. Len(stream)
    BY <1>1
  <2>2. /\ s \in Seq(Symbols) /\ Len(s) = IF 1 <= n THEN n - 1 + 1 ELSE 0
        /\ \A i \in 1 .. n - 1 + 1 : s[i] = stream[1 + i - 1]
    BY <1>1, <2>1, PartOf DEF Received
  <2> QED
    BY <1>1, <2>2
<1>3. DOMAIN s = 1 .. n
  BY <1>2, LenProperties
<1>4. Verdict(s) =
        CASE ends # {} /\ ~IsRequestLine(UpToNul(SubSeq(s, 1, Min(ends) - 2))) -> "bad"
          [] ends # {} /\ IsRequestLine(UpToNul(SubSeq(s, 1, Min(ends) - 2))) ->
               IF \E i, j \in ends : i < j /\ s[i + 1] \in {"CR", "NUL"} THEN "good"
               ELSE IF flaws # {} THEN "bad" ELSE "none"
          [] ends = {} -> IF flaws # {} THEN "bad" ELSE "none"
  BY Zenon DEF Verdict
<1> HIDE DEF n, s
<1>5. flaws = FlawsIn(n)
  <2>1. \A i \in 1 .. n : i # 1 => i - 1 \in 1 .. n
    BY <1>1
  <2>2. \A i \in 1 .. n : i < n => i + 1 \in 1 .. n
    BY <1>1
  <2> QED
    BY <1>2, <1>3, <2>1, <2>2 DEF FlawsIn
<1> HIDE DEF flaws
<1>6. ends = EndsIn(n)
  BY <1>2, <1>3, <1>5 DEF EndsIn
<1> HIDE DEF ends
<1>7. CASE ends = {}
  BY <1>4, <1>5, <1>6, <1>7 DEF n, s
<1>8. ASSUME NEW e \in ends, \A i \in ends : e <= i
      PROVE  Verdict(s) = IF ~IsRequestLine(UpToNul(SubSeq(stream, 1, e - 2))) THEN "bad"
                          ELSE IF LastLineIn(ends) THEN "good"
                          ELSE IF flaws # {} THEN "bad" ELSE "none"
  <2>1. ends \in SUBSET Nat
    BY <1>1, <1>6 DEF EndsIn
  <2>2. Min(ends) = e
    BY <1>8, <2>1, MinIsLeast
  <2>3. e \in 1 .. n /\ stream[e] = "LF" /\ e \notin FlawsIn(n)
    BY <1>1, <1>6 DEF EndsIn
  <2>4. e \in 2 .. n /\ e - 2 \in 0 .. n
    BY <1>1, <2>3 DEF FlawsIn
  <2>5. SubSeq(s, 1, e - 2) = SubSeq(stream, 1, e - 2)
    <3> DEFINE m == e - 2
    <3>1. /\ m \in 0 .. Len(s) /\ m \in 0 .. Len(stream)
          /\ 1 \in 1 .. Len(s) + 1 /\ 1 \in 1 .. Len(stream) + 1
          /\ m \in 0 .. n
      BY <1>1, <1>2, <2>4
    <3> HIDE DEF m
    <3>2. /\ SubSeq(s, 1, m) \in Seq(Symbols)
          /\ Len(SubSeq(s, 1, m)) = IF 1 <= m THEN m - 1 + 1 ELSE 0
          /\ \A i \in 1 .. m - 1 + 1 : SubSeq(s, 1, m)[i] = s[1 + i - 1]
      BY <1>2, <3>1, PartOf
    <3>3. /\ SubSeq(stream, 1, m) \in Seq(Symbols)
          /\ Len(SubSeq(stream, 1, m)) = IF 1 <= m THEN m - 1 + 1 ELSE 0
          /\ \A i \in 1 .. m - 1 + 1 : SubSeq(stream, 1, m)[i] = stream[1 + i - 1]
      BY <1>1, <3>1, PartOf
    <3>4. \A i \in 1 .. Len(SubSeq(s, 1, m)) : SubSeq(s, 1, m)[i] = SubSeq(stream, 1, m)[i]
      BY <1>1, <1>2, <3>1, <3>2, <3>3
    <3> QED
      BY <3>2, <3>3, <3>4, SeqEqual DEF m
  <2>6. (\E i, j \in ends : i < j /\ s[i + 1] \in {"CR", "NUL"}) <=> LastLineIn(ends)
    <3>1. \A i, j \in ends : i < j => i + 1 \in 1 .. n
      BY <1>1, <1>6 DEF EndsIn
    <3> QED
      BY <1>2, <3>1 DEF LastLineIn
  <2> QED
    BY <1>4, <1>8, <2>2, <2>5, <2>6
<1> QED
  BY <1>5, <1>6, <1>7, <1>8 DEF n, s

-------------------------------------------------------------------------------
(* The inductive invariant: what has been parsed, and what has not. *)

IsBreak(i) == stream[i] \in {"CR", "LF"}

\* The first m symbols are whole lines: CR and LF come in pairs only.
WholeLines(m) ==
  \A i \in 1 .. m :
    /\ stream[i] = "LF" => i > 1 /\ stream[i - 1] = "CR"
    /\ stream[i] = "CR" => i < m /\ stream[i + 1] = "LF"

\* The lines before start_line, which are ended in the buffer, are whole and good, and none
\* of them was the last.  After start_line the buffer is as it was received, and parse_line
\* has passed no end of a line there.
LinesRead ==
  /\ read_index <= Len(stream)
  /\ \A i \in start_line + 1 .. read_index : buffer[i] = stream[i]
  /\ start_line > 0 => buffer[start_line] = "NUL" /\ stream[start_line] = "LF"
  /\ WholeLines(start_line)
  /\ \A i \in start_line + 1 .. checked_index : ~IsBreak(i)
  /\ checkstate = "REQUESTLINE" => start_line = 0
  /\ checkstate = "HEADER" =>
       /\ \E e \in 1 .. start_line :
            /\ stream[e] = "LF" /\ \A i \in 1 .. e - 1 : stream[i] # "LF"
            /\ IsRequestLine(UpToNul(SubSeq(stream, 1, e - 2)))
       /\ \A i \in 1 .. start_line - 1 :
            stream[i] = "LF" => stream[i + 1] \notin {"CR", "NUL"}
  /\ answer = "none"

\* While recv waits, at most a CR at the end is not parsed.
NoneLeft ==
  \A i \in start_line + 1 .. read_index :
    stream[i] # "LF" /\ (stream[i] = "CR" => i = read_index)

Inv ==
  /\ TypeOK
  /\ pc # "closed" => LinesRead
  /\ pc = "recv" => NoneLeft
  /\ pc = "closed" => read_index <= Len(stream) /\ answer = Verdict(Received)

\* The types, in the form the proofs use.
LEMMA Types ==
  ASSUME TypeOK
  PROVE  /\ stream \in Seq(Symbols) /\ Len(stream) \in Nat
         /\ buffer \in Seq(Symbols) /\ read_index \in Nat
         /\ read_index = Len(buffer)
         /\ checked_index \in 0 .. read_index /\ start_line \in 0 .. checked_index
         /\ checked_index \in Nat /\ start_line \in Nat
         /\ \A i \in 1 .. Len(stream) : stream[i] \in Symbols
<1>1. /\ Len(stream) \in Nat /\ Len(buffer) \in Nat
      /\ \A i \in 1 .. Len(stream) : stream[i] \in Symbols
  BY LenProperties, ElementOfSeq DEF TypeOK
<1> QED
  BY <1>1 DEF TypeOK, read_index

\* What parse_line finds: nothing; a CR at the end; a line that ends at c; or a flaw at k.
FindsNothing ==
  /\ ParseLine.status = "OPEN" /\ ParseLine.checked = read_index
  /\ \A i \in start_line + 1 .. read_index : ~IsBreak(i)
FindsCR ==
  /\ ParseLine.status = "OPEN" /\ ParseLine.checked = read_index - 1
  /\ read_index > checked_index /\ stream[read_index] = "CR"
  /\ \A i \in start_line + 1 .. read_index - 1 : ~IsBreak(i)
FindsLine(c) ==
  /\ ParseLine.status = "OK" /\ ParseLine.checked = c
  /\ stream[c - 1] = "CR" /\ stream[c] = "LF"
  /\ \A i \in start_line + 1 .. c - 2 : ~IsBreak(i)
FindsFlaw(k) ==
  /\ ParseLine.status = "BAD"
  /\ \/ stream[k] = "LF" /\ (k = 1 \/ stream[k - 1] # "CR")
     \/ stream[k] = "CR" /\ k < read_index /\ stream[k + 1] # "LF"
  /\ \A i \in start_line + 1 .. k - 1 : ~IsBreak(i)

LEMMA ParseLineFinds ==
  ASSUME TypeOK, LinesRead
  PROVE  \/ FindsNothing
         \/ FindsCR
         \/ \E c \in start_line + 2 .. read_index : FindsLine(c)
         \/ \E k \in start_line + 1 .. read_index : FindsFlaw(k)
<1> DEFINE n == read_index
           breaks == {i \in checked_index + 1 .. n : buffer[i] \in {"CR", "LF"}}
           k == Min(breaks)
<1>1. /\ n \in Nat /\ checked_index \in 0 .. n /\ start_line \in 0 .. checked_index
      /\ checked_index \in Nat /\ start_line \in Nat
  BY Types
<1>2. ParseLine =
        CASE breaks = {} -> [status |-> "OPEN", checked |-> n]
          [] breaks # {} /\ buffer[k] = "CR" /\ k = n -> [status |-> "OPEN", checked |-> k - 1]
          [] breaks # {} /\ buffer[k] = "CR" /\ k < n ->
               IF buffer[k + 1] = "LF" THEN [status |-> "OK", checked |-> k + 1]
                                       ELSE [status |-> "BAD", checked |-> k - 1]
          [] breaks # {} /\ buffer[k] = "LF" ->
               IF k > 2 /\ buffer[k - 1] = "CR" THEN [status |-> "OK", checked |-> k]
                                                ELSE [status |-> "BAD", checked |-> k - 1]
  BY Zenon DEF ParseLine
<1>3. /\ \A i \in start_line + 1 .. n : buffer[i] = stream[i]
      /\ start_line > 0 => buffer[start_line] = "NUL" /\ stream[start_line] = "LF"
      /\ \A i \in start_line + 1 .. checked_index : ~IsBreak(i)
  BY DEF LinesRead
<1> HIDE DEF n
<1>4. \A i \in start_line + 1 .. n : IsBreak(i) => i \in breaks
  BY <1>1, <1>3 DEF IsBreak
<1>5. CASE breaks = {}
  <2>1. ParseLine = [status |-> "OPEN", checked |-> n]
    BY <1>2, <1>5
  <2>2. \A i \in start_line + 1 .. n : ~IsBreak(i)
    BY <1>4, <1>5
  <2> QED
    BY <2>1, <2>2 DEF FindsNothing, n
<1>6. CASE breaks # {}
  <2>1. breaks \in SUBSET Nat
    BY <1>1
  <2>2. k \in breaks /\ \A i \in breaks : k <= i
    BY <1>6, <2>1, MinIsLeast
  <2> HIDE DEF k
  <2>3. /\ k \in start_line + 1 .. n /\ k \in checked_index + 1 .. n
        /\ buffer[k] = stream[k] /\ stream[k] \in {"CR", "LF"}
    BY <1>1, <1>3, <2>2
  <2>4. \A i \in start_line + 1 .. k - 1 : ~IsBreak(i)
    <3> SUFFICES ASSUME NEW i \in start_line + 1 .. k - 1, IsBreak(i)
                 PROVE  FALSE
      OBVIOUS
    <3>1. i \in start_line + 1 .. n /\ i < k
      BY <1>1, <2>3
    <3>2. k <= i
      BY <1>4, <2>2, <3>1
    <3> QED
      BY <1>1, <2>3, <3>1, <3>2
  <2>5. CASE stream[k] = "CR" /\ k = n
    <3>1. ParseLine = [status |-> "OPEN", checked |-> k - 1]
      BY <1>2, <1>6, <2>3, <2>5
    <3>2. n > checked_index
      BY <1>1, <2>3, <2>5
    <3> QED
      BY <2>4, <2>5, <3>1, <3>2 DEF FindsCR, n
  <2>6. CASE stream[k] = "CR" /\ k < n
    <3>1. k + 1 \in start_line + 1 .. n /\ k + 1 \in start_line + 2 .. n
      BY <1>1, <2>3, <2>6
    <3>2. buffer[k + 1] = stream[k + 1] /\ k # n
      BY <1>1, <1>3, <2>3, <2>6, <3>1
    <3>3. ParseLine = IF stream[k + 1] = "LF" THEN [status |-> "OK", checked |-> k + 1]
                                              ELSE [status |-> "BAD", checked |-> k - 1]
      BY <1>2, <1>6, <2>3, <2>6, <3>2
    <3>4. CASE stream[k + 1] = "LF"
      <4>1. (k + 1) - 1 = k /\ (k + 1) - 2 = k - 1
        BY <1>1, <2>3
      <4>2. FindsLine(k + 1)
        BY <2>4, <2>6, <3>3, <3>4, <4>1 DEF FindsLine
      <4> QED
        BY <3>1, <4>2 DEF n
    <3>5. CASE stream[k + 1] # "LF"
      <4>1. FindsFlaw(k)
        BY <2>4, <2>6, <3>3, <3>5 DEF FindsFlaw, n
      <4> QED
        BY <2>3, <4>1 DEF n
    <3> QED
      BY <3>4, <3>5
  <2>7. CASE stream[k] = "LF"
    <3>1. k > 1 => buffer[k - 1] # "CR" /\ stream[k - 1] # "CR"
      <4> SUFFICES ASSUME k > 1
                   PROVE  buffer[k - 1] # "CR" /\ stream[k - 1] # "CR"
        OBVIOUS
      <4>1. CASE k - 1 = start_line
        <5>1. start_line > 0
          BY <1>1, <2>3, <4>1
        <5> QED
          BY <1>3, <4>1, <5>1
      <4>2. CASE k - 1 # start_line
        <5>1. k - 1 \in start_line + 1 .. k - 1 /\ k - 1 \in start_line + 1 .. n
          BY <1>1, <2>3, <4>2
        <5> QED
          BY <1>3, <2>4, <5>1 DEF IsBreak
      <4> QED
        BY <4>1, <4>2
    <3>2. ~(k > 2 /\ buffer[k - 1] = "CR")
      BY <1>1, <2>3, <3>1
    <3>3. ParseLine = [status |-> "BAD", checked |-> k - 1]
      BY <1>2, <1>6, <2>3, <2>7, <3>2
    <3>4. k = 1 \/ stream[k - 1] # "CR"
      BY <1>1, <2>3, <3>1
    <3>5. FindsFlaw(k)
      BY <2>4, <2>7, <3>3, <3>4 DEF FindsFlaw
    <3> QED
      BY <2>3, <3>5 DEF n
  <2>8. k < n \/ k = n
    BY <1>1, <2>3
  <2> QED
    BY <2>3, <2>5, <2>6, <2>7, <2>8
<1> QED
  BY <1>5, <1>6

-------------------------------------------------------------------------------
(* The verdict on what was received, as far as it was parsed. *)

\* Whole lines have no flaw, and each LF in them ends a line.
LEMMA WholeLinesEnd ==
  ASSUME TypeOK, NEW m \in 0 .. read_index, WholeLines(m)
  PROVE  /\ \A f \in FlawsIn(read_index) : f > m
         /\ \A i \in 1 .. m : stream[i] = "LF" => i \in EndsIn(read_index)
<1> DEFINE n == read_index
<1>1. n \in Nat
  BY Types
<1> HIDE DEF n
<1>2. ASSUME NEW f \in FlawsIn(n)
      PROVE  f > m
  <2> SUFFICES ASSUME f <= m PROVE FALSE
    BY <1>1 DEF FlawsIn, n
  <2>1. f \in 1 .. m
    BY <1>1 DEF FlawsIn, n
  <2>2. /\ stream[f] = "LF" => f > 1 /\ stream[f - 1] = "CR"
        /\ stream[f] = "CR" => f < m /\ stream[f + 1] = "LF"
    BY <2>1 DEF WholeLines
  <2>3. ~(f > 1 /\ f = 1)
    BY <2>1
  <2> QED
    BY <1>2, <2>2, <2>3 DEF FlawsIn
<1>3. ASSUME NEW i \in 1 .. m, stream[i] = "LF"
      PROVE  i \in EndsIn(n)
  <2>1. i \in 1 .. n
    BY <1>1 DEF n
  <2>2. \A f \in FlawsIn(n) : i < f
    <3> SUFFICES ASSUME NEW f \in FlawsIn(n) PROVE i < f
      OBVIOUS
    <3>1. f > m /\ f \in 1 .. n
      BY <1>2 DEF FlawsIn
    <3> QED
      BY <1>1, <2>1, <3>1 DEF n
  <2> QED
    BY <1>3, <2>1, <2>2 DEF EndsIn
<1> QED
  BY <1>2, <1>3 DEF n

\* As long as no line has ended, only a flaw counts.
LEMMA VerdictBefore ==
  ASSUME TypeOK, LinesRead, \A i \in EndsIn(read_index) : FALSE
  PROVE  Verdict(Received) = IF FlawsIn(read_index) # {} THEN "bad" ELSE "none"
<1>1. EndsIn(read_index) = {} /\ read_index <= Len(stream)
  BY DEF LinesRead
<1> QED
  BY <1>1, VerdictOf

\* Behind a good request line, the rest decides.
LEMMA VerdictBehind ==
  ASSUME TypeOK, LinesRead, checkstate = "HEADER"
  PROVE  /\ start_line > 0
         /\ Verdict(Received) =
              IF LastLineIn(EndsIn(read_index)) THEN "good"
              ELSE IF FlawsIn(read_index) # {} THEN "bad" ELSE "none"
<1>1. PICK e \in 1 .. start_line :
        /\ stream[e] = "LF" /\ \A i \in 1 .. e - 1 : stream[i] # "LF"
        /\ IsRequestLine(UpToNul(SubSeq(stream, 1, e - 2)))
  BY DEF LinesRead
<1>2. /\ read_index \in Nat /\ start_line \in Nat /\ start_line \in 0 .. read_index
      /\ read_index <= Len(stream) /\ WholeLines(start_line)
  BY Types DEF LinesRead
<1>3. e \in EndsIn(read_index)
  BY <1>1, <1>2, WholeLinesEnd
<1>4. \A i \in EndsIn(read_index) : e <= i
  <2> SUFFICES ASSUME NEW i \in EndsIn(read_index), ~(e <= i)
               PROVE  FALSE
    OBVIOUS
  <2>1. i \in 1 .. read_index /\ stream[i] = "LF"
    BY DEF EndsIn
  <2>2. i \in 1 .. e - 1
    BY <1>1, <1>2, <2>1
  <2> QED
    BY <1>1, <2>1, <2>2
<1>5. start_line > 0
  BY <1>1, <1>2
<1> QED
  BY <1>1, <1>2, <1>3, <1>4, <1>5, VerdictOf

\* The lines before start_line are none of them the last.
LEMMA NoEmptyLine ==
  ASSUME TypeOK, LinesRead, checkstate = "HEADER", \A i \in EndsIn(read_index) : i <= start_line
  PROVE  ~LastLineIn(EndsIn(read_index))
<1> SUFFICES ASSUME NEW i \in EndsIn(read_index), NEW j \in EndsIn(read_index), i < j
             PROVE  stream[i + 1] \notin {"CR", "NUL"}
  BY DEF LastLineIn
<1>1. i \in 1 .. read_index /\ stream[i] = "LF" /\ j \in 1 .. read_index /\ j <= start_line
  BY DEF EndsIn
<1>2. read_index \in Nat /\ start_line \in Nat
  BY Types
<1>3. i \in 1 .. start_line - 1
  BY <1>1, <1>2
<1> QED
  BY <1>1, <1>3 DEF LinesRead

\* While recv waits there is no answer yet.
LEMMA WaitingVerdict ==
  ASSUME TypeOK, LinesRead, NoneLeft
  PROVE  Verdict(Received) = "none"
<1> DEFINE n == read_index
<1>1. /\ n \in Nat /\ start_line \in Nat /\ start_line \in 0 .. n
      /\ WholeLines(start_line) /\ checkstate \in {"REQUESTLINE", "HEADER"}
  BY Types DEF LinesRead, TypeOK
<1>2. FlawsIn(n) = {}
  <2> SUFFICES ASSUME NEW f \in FlawsIn(n) PROVE FALSE
    OBVIOUS
  <2>1. f \in 1 .. n /\ f > start_line
    BY <1>1, WholeLinesEnd DEF FlawsIn
  <2>2. f \in start_line + 1 .. n
    BY <1>1, <2>1
  <2>3. stream[f] # "LF" /\ (stream[f] = "CR" => ~(f < n))
    BY <1>1, <2>2 DEF NoneLeft
  <2> QED
    BY <2>3 DEF FlawsIn
<1>3. \A i \in EndsIn(n) : i \in 1 .. start_line
  <2> SUFFICES ASSUME NEW i \in EndsIn(n) PROVE i \in 1 .. start_line
    OBVIOUS
  <2>1. i \in 1 .. n /\ stream[i] = "LF"
    BY DEF EndsIn
  <2>2. i \notin start_line + 1 .. n
    BY <2>1 DEF NoneLeft
  <2> QED
    BY <1>1, <2>1, <2>2
<1>4. CASE checkstate = "REQUESTLINE"
  <2>1. \A i \in EndsIn(n) : FALSE
    BY <1>3, <1>4 DEF LinesRead
  <2> QED
    BY <1>2, <2>1, VerdictBefore
<1>5. CASE checkstate = "HEADER"
  <2>1. \A i \in EndsIn(n) : i <= start_line
    BY <1>1, <1>3
  <2>2. ~LastLineIn(EndsIn(n))
    BY <1>5, <2>1, NoEmptyLine
  <2> HIDE DEF n
  <2> QED
    BY <1>2, <1>5, <2>2, VerdictBehind DEF n
<1> QED
  BY <1>1, <1>4, <1>5

\* A flaw that parse_line finds makes the request bad.
LEMMA FlawVerdict ==
  ASSUME TypeOK, LinesRead, NEW k \in start_line + 1 .. read_index, FindsFlaw(k)
  PROVE  Verdict(Received) = "bad"
<1> DEFINE n == read_index
<1>1. /\ n \in Nat /\ start_line \in Nat /\ start_line \in 0 .. n
      /\ checkstate \in {"REQUESTLINE", "HEADER"}
  BY Types DEF TypeOK
<1>2. k \in 1 .. n /\ k \in FlawsIn(n)
  BY <1>1 DEF FindsFlaw, FlawsIn
<1>3. \A i \in EndsIn(n) : i \in 1 .. start_line
  <2> SUFFICES ASSUME NEW i \in EndsIn(n) PROVE i \in 1 .. start_line
    OBVIOUS
  <2>1. i \in 1 .. n /\ stream[i] = "LF" /\ i < k
    BY <1>2 DEF EndsIn
  <2>2. i \notin start_line + 1 .. k - 1
    BY <2>1 DEF FindsFlaw, IsBreak
  <2> QED
    BY <1>1, <1>2, <2>1, <2>2
<1>4. CASE checkstate = "REQUESTLINE"
  <2>1. \A i \in EndsIn(n) : FALSE
    BY <1>3, <1>4 DEF LinesRead
  <2> QED
    BY <1>2, <2>1, VerdictBefore
<1>5. CASE checkstate = "HEADER"
  <2>1. \A i \in EndsIn(n) : i <= start_line
    BY <1>1, <1>3
  <2>2. ~LastLineIn(EndsIn(n))
    BY <1>5, <2>1, NoEmptyLine
  <2> HIDE DEF n
  <2> QED
    BY <1>2, <1>5, <2>2, VerdictBehind DEF n
<1> QED
  BY <1>1, <1>4, <1>5

-------------------------------------------------------------------------------
(* The steps. *)

\* The C string of a text is what is before its first byte 0, or all of it.
LEMMA UpToNulOf ==
  ASSUME NEW t \in Seq(Symbols)
  PROVE  \E e \in 1 .. Len(t) + 1 :
           /\ \A k \in 1 .. e - 1 : t[k] # "NUL"
           /\ e <= Len(t) => t[e] = "NUL"
           /\ UpToNul(t) = SubSeq(t, 1, e - 1)
<1> DEFINE I == {i \in 1 .. Len(t) : t[i] = "NUL"}
<1>1. Len(t) \in Nat /\ SubSeq(t, 1, Len(t)) = t
  BY LenProperties, SubSeqFull
<1>2. UpToNul(t) = IF (IF I # {} THEN Min(I) ELSE 0) = 0 THEN t
                   ELSE SubSeq(t, 1, (IF I # {} THEN Min(I) ELSE 0) - 1)
  BY DEF UpToNul, SelectInSeq
<1>3. CASE I = {}
  <2>1. UpToNul(t) = t
    BY <1>2, <1>3
  <2>2. Len(t) + 1 \in 1 .. Len(t) + 1 /\ (Len(t) + 1) - 1 = Len(t)
    BY <1>1
  <2>3. \A k \in 1 .. Len(t) : t[k] # "NUL"
    BY <1>3
  <2> QED
    BY <1>1, <2>1, <2>2, <2>3
<1>4. CASE I # {}
  <2>1. I \in SUBSET Nat
    OBVIOUS
  <2>2. Min(I) \in I /\ \A k \in I : Min(I) <= k
    BY <1>4, <2>1, MinIsLeast
  <2>7. Min(I) # 0
    BY <2>2
  <2> DEFINE e == Min(I)
  <2>3. UpToNul(t) = SubSeq(t, 1, e - 1)
    BY <1>2, <1>4, <2>7, Zenon
  <2> HIDE DEF e
  <2>4. e \in 1 .. Len(t) /\ t[e] = "NUL" /\ \A k \in I : e <= k
    BY <2>2 DEF e
  <2>5. \A k \in 1 .. e - 1 : t[k] # "NUL"
    <3> SUFFICES ASSUME NEW k \in 1 .. e - 1, t[k] = "NUL" PROVE FALSE
      OBVIOUS
    <3>1. k \in I /\ k < e
      BY <1>1, <2>4
    <3> QED
      BY <1>1, <2>4, <3>1
  <2>6. e \in 1 .. Len(t) + 1
    BY <1>1, <2>4
  <2> QED
    BY <2>3, <2>4, <2>5, <2>6
<1> QED
  BY <1>3, <1>4

\* Of a text with a byte 0 at m, the C string is that of what is before.
LEMMA SameUpToNul ==
  ASSUME NEW rest \in Seq(Symbols), NEW line \in Seq(Symbols), NEW m \in 1 .. Len(rest),
         rest[m] = "NUL", Len(line) = m - 1, \A i \in 1 .. m - 1 : rest[i] = line[i]
  PROVE  /\ UpToNul(rest) = UpToNul(line) /\ UpToNul(line) \in Seq(Symbols)
         /\ UpToNul(line) = <<>> <=> m = 1 \/ line[1] = "NUL"
<1>1. Len(rest) \in Nat /\ Len(line) \in Nat
  BY LenProperties
<1>2. PICK d \in 1 .. Len(rest) + 1 :
        /\ \A k \in 1 .. d - 1 : rest[k] # "NUL"
        /\ d <= Len(rest) => rest[d] = "NUL"
        /\ UpToNul(rest) = SubSeq(rest, 1, d - 1)
  BY UpToNulOf
<1>3. PICK e \in 1 .. m :
        /\ \A k \in 1 .. e - 1 : line[k] # "NUL"
        /\ e <= m - 1 => line[e] = "NUL"
        /\ UpToNul(line) = SubSeq(line, 1, e - 1)
  <2>1. Len(line) + 1 = m
    BY <1>1
  <2> QED
    BY <2>1, UpToNulOf
<1>4. rest[e] = "NUL" /\ \A k \in 1 .. e - 1 : rest[k] # "NUL"
  <2>1. rest[e] = "NUL"
    <3>1. CASE e = m
      BY <3>1
    <3>2. CASE e # m
      <4>1. e \in 1 .. m - 1 /\ e <= m - 1
        BY <1>1, <1>3, <3>2
      <4>2. rest[e] = line[e]
        BY <4>1
      <4> QED
        BY <1>3, <4>1, <4>2
    <3> QED
      BY <3>1, <3>2
  <2>2. ASSUME NEW k \in 1 .. e - 1
        PROVE  rest[k] # "NUL"
    <3>1. k \in 1 .. m - 1
      BY <1>1, <1>3
    <3>2. rest[k] = line[k]
      BY <3>1
    <3> QED
      BY <1>3, <3>2
  <2> QED
    BY <2>1, <2>2
<1>5. d = e
  <2>1. ~(e < d)
    BY <1>1, <1>2, <1>3, <1>4
  <2>2. ~(d < e)
    BY <1>1, <1>2, <1>3, <1>4
  <2> QED
    BY <1>1, <1>2, <1>3, <2>1, <2>2
<1> DEFINE q == e - 1
<1>6. q \in Nat /\ q \in 0 .. Len(rest) /\ q \in 0 .. Len(line)
      /\ 1 \in 1 .. Len(rest) + 1 /\ 1 \in 1 .. Len(line) + 1
      /\ \A k \in 1 .. q : k \in 1 .. m - 1 /\ k \in 1 .. q - 1 + 1 /\ 1 + k - 1 = k
  BY <1>1, <1>3
<1> HIDE DEF q
<1>7. /\ SubSeq(rest, 1, q) \in Seq(Symbols)
      /\ Len(SubSeq(rest, 1, q)) = IF 1 <= q THEN q - 1 + 1 ELSE 0
      /\ \A k \in 1 .. q - 1 + 1 : SubSeq(rest, 1, q)[k] = rest[1 + k - 1]
  BY <1>6, PartOf
<1>8. /\ SubSeq(line, 1, q) \in Seq(Symbols)
      /\ Len(SubSeq(line, 1, q)) = IF 1 <= q THEN q - 1 + 1 ELSE 0
      /\ \A k \in 1 .. q - 1 + 1 : SubSeq(line, 1, q)[k] = line[1 + k - 1]
  BY <1>6, PartOf
<1>9. Len(SubSeq(rest, 1, q)) = q /\ Len(SubSeq(line, 1, q)) = q
  BY <1>6, <1>7, <1>8
<1>10. \A k \in 1 .. q : SubSeq(rest, 1, q)[k] = SubSeq(line, 1, q)[k]
  BY <1>6, <1>7, <1>8
<1>11. SubSeq(rest, 1, q) = SubSeq(line, 1, q)
  BY <1>7, <1>8, <1>9, <1>10, SeqEqual
<1>12. SubSeq(line, 1, q) = <<>> <=> q = 0
  BY <1>8, <1>9, EmptySeq
<1>13. q = 0 <=> m = 1 \/ line[1] = "NUL"
  <2>1. q = 0 <=> e = 1
    BY <1>3 DEF q
  <2>2. e = 1 => m = 1 \/ line[1] = "NUL"
    BY <1>1, <1>3
  <2>3. m = 1 => e = 1
    BY <1>3
  <2>4. line[1] = "NUL" /\ m # 1 => e = 1
    BY <1>1, <1>3
  <2> QED
    BY <2>1, <2>2, <2>3, <2>4
<1> QED
  BY <1>2, <1>3, <1>5, <1>8, <1>11, <1>12, <1>13 DEF q

\* The buffer in which the line up to c was ended, and the text of that line.
LEMMA LineText ==
  ASSUME TypeOK, LinesRead, NEW c \in start_line + 2 .. read_index, FindsLine(c)
  PROVE  /\ Ended \in Seq(Symbols) /\ Len(Ended) = read_index
         /\ Ended[c] = "NUL" /\ \A i \in c + 1 .. read_index : Ended[i] = stream[i]
         /\ Text(Ended, start_line) = UpToNul(SubSeq(stream, start_line + 1, c - 2))
         /\ Text(Ended, start_line) \in Seq(Symbols)
         /\ Text(Ended, start_line) = <<>> <=> stream[start_line + 1] \in {"CR", "NUL"}
         /\ WholeLines(c)
<1> DEFINE n == read_index
           b == start_line
           S == Symbols
           rest == SubSeq(Ended, b + 1, Len(Ended))
           line == SubSeq(stream, b + 1, c - 2)
           m == c - 1 - b
<1>1. /\ n \in Nat /\ b \in Nat /\ b \in 0 .. n /\ c \in b + 2 .. n
      /\ stream \in Seq(Symbols) /\ Len(stream) \in Nat /\ n <= Len(stream)
      /\ \A i \in 1 .. Len(stream) : stream[i] \in Symbols
      /\ \A i \in b + 1 .. n : buffer[i] = stream[i]
      /\ \A i \in b + 1 .. c - 2 : ~IsBreak(i)
      /\ stream[c - 1] = "CR" /\ stream[c] = "LF"
  BY Types DEF LinesRead, FindsLine
<1>2. /\ c \in 1 .. n /\ c - 1 \in 1 .. n /\ c - 1 # c
      /\ Ended = [[buffer EXCEPT ![c - 1] = "NUL"] EXCEPT ![c] = "NUL"]
  BY <1>1 DEF Ended, FindsLine
<1>3. /\ Ended \in Seq(S) /\ Len(Ended) = n
      /\ \A i \in 1 .. n : Ended[i] = IF i \in {c - 1, c} THEN "NUL" ELSE buffer[i]
  <2> DEFINE q == [buffer EXCEPT ![c - 1] = "NUL"]
  <2>1. buffer \in Seq(S) /\ Len(buffer) = n /\ "NUL" \in S
    BY Types DEF Symbols
  <2>2. /\ q \in Seq(S) /\ Len(q) = n
        /\ \A i \in 1 .. n : q[i] = IF i = c - 1 THEN "NUL" ELSE buffer[i]
    BY <1>2, <2>1, ExceptSeq
  <2> HIDE DEF q, n, S
  <2>3. /\ [q EXCEPT ![c] = "NUL"] \in Seq(S) /\ Len([q EXCEPT ![c] = "NUL"]) = n
        /\ \A i \in 1 .. n : [q EXCEPT ![c] = "NUL"][i] = IF i = c THEN "NUL" ELSE q[i]
    BY <1>2, <2>1, <2>2, ExceptSeq
  <2>4. Ended = [q EXCEPT ![c] = "NUL"]
    BY <1>2 DEF q
  <2> QED
    BY <1>2, <2>2, <2>3, <2>4
<1> HIDE DEF n
<1>4. /\ rest \in Seq(S) /\ Len(rest) = n - b
      /\ \A i \in 1 .. n - b : rest[i] = Ended[b + i]
  <2>1. b + 1 \in 1 .. Len(Ended) + 1 /\ Len(Ended) \in 0 .. Len(Ended)
    BY <1>1, <1>3
  <2>2. /\ rest \in Seq(S)
        /\ Len(rest) = IF b + 1 <= Len(Ended) THEN Len(Ended) - (b + 1) + 1 ELSE 0
        /\ \A i \in 1 .. Len(Ended) - (b + 1) + 1 : rest[i] = Ended[(b + 1) + i - 1]
    BY <1>3, <2>1, PartOf
  <2>3. Len(Ended) - (b + 1) + 1 = n - b /\ b + 1 <= Len(Ended)
    BY <1>1, <1>3
  <2>4. \A i \in 1 .. n - b : (b + 1) + i - 1 = b + i
    BY <1>1
  <2> QED
    BY <2>2, <2>3, <2>4
<1>5. Text(Ended, b) = UpToNul(rest)
  BY DEF Text, From
<1> HIDE DEF rest
<1>6. m \in 1 .. n - b /\ rest[m] = "NUL"
  BY <1>1, <1>3, <1>4
<1>7. /\ line \in Seq(Symbols) /\ Len(line) = m - 1
      /\ \A i \in 1 .. m - 1 : line[i] = stream[b + i]
  <2>1. /\ b + 1 \in 1 .. Len(stream) + 1 /\ c - 2 \in 0 .. Len(stream)
        /\ c - 2 - (b + 1) + 1 = m - 1
        /\ (b + 1 <= c - 2) <=> (1 <= m - 1)
    BY <1>1, <1>6
  <2>2. /\ line \in Seq(Symbols)
        /\ Len(line) = IF b + 1 <= c - 2 THEN c - 2 - (b + 1) + 1 ELSE 0
        /\ \A i \in 1 .. c - 2 - (b + 1) + 1 : line[i] = stream[(b + 1) + i - 1]
    BY <1>1, <2>1, PartOf
  <2>3. \A i \in 1 .. m - 1 : (b + 1) + i - 1 = b + i
    BY <1>1
  <2> QED
    BY <1>6, <2>1, <2>2, <2>3
<1>8. \A i \in 1 .. m - 1 : rest[i] = line[i]
  <2> SUFFICES ASSUME NEW i \in 1 .. m - 1 PROVE rest[i] = stream[b + i]
    BY <1>7
  <2>1. /\ i \in 1 .. n - b /\ b + i \in 1 .. n /\ b + i \in b + 1 .. n
        /\ b + i \notin {c - 1, c}
    BY <1>1, <1>6
  <2> QED
    BY <1>1, <1>3, <1>4, <2>1
<1> HIDE DEF line
<1>9. UpToNul(rest) = UpToNul(line) /\ UpToNul(line) \in Seq(Symbols)
      /\ (UpToNul(line) = <<>> <=> m = 1 \/ line[1] = "NUL")
  <2> HIDE DEF m
  <2> QED
    BY <1>4, <1>6, <1>7, <1>8, SameUpToNul
<1>10. (m = 1 \/ line[1] = "NUL") <=> stream[b + 1] \in {"CR", "NUL"}
  <2>1. CASE m = 1
    <3>1. b + 1 = c - 1
      BY <1>1, <2>1
    <3> QED
      BY <1>1, <2>1, <3>1
  <2>2. CASE m # 1
    <3>1. 1 \in 1 .. m - 1 /\ b + 1 \in b + 1 .. c - 2
      BY <1>1, <1>6, <2>2
    <3>2. line[1] = stream[b + 1] /\ stream[b + 1] # "CR"
      BY <1>1, <1>7, <3>1 DEF IsBreak
    <3> QED
      BY <2>2, <3>2
  <2> QED
    BY <2>1, <2>2
<1>11. Ended[c] = "NUL" /\ \A i \in c + 1 .. n : Ended[i] = stream[i]
  <2>1. \A i \in c + 1 .. n : i \in 1 .. n /\ i \notin {c - 1, c} /\ i \in b + 1 .. n
    BY <1>1
  <2> QED
    BY <1>1, <1>2, <1>3, <2>1
<1>12. WholeLines(c)
  <2> SUFFICES ASSUME NEW i \in 1 .. c
               PROVE  /\ stream[i] = "LF" => i > 1 /\ stream[i - 1] = "CR"
                      /\ stream[i] = "CR" => i < c /\ stream[i + 1] = "LF"
    BY DEF WholeLines
  <2>1. CASE i \in 1 .. b
    BY <1>1, <2>1 DEF LinesRead, WholeLines
  <2>2. CASE i \in b + 1 .. c - 2
    BY <1>1, <2>2 DEF IsBreak
  <2>3. CASE i = c - 1
    BY <1>1, <2>3
  <2>4. CASE i = c
    BY <1>1, <2>4
  <2> QED
    BY <1>1, <2>1, <2>2, <2>3, <2>4
<1> QED
  BY <1>3, <1>5, <1>9, <1>10, <1>11, <1>12 DEF n, line

LEMMA InvInit == Init => Inv
<1> SUFFICES ASSUME Init PROVE Inv
  OBVIOUS
<1>1. stream \in Seq(Symbols) /\ Len(stream) \in Nat /\ read_index = 0
  BY StreamsAssumption, LenProperties DEF Init, read_index
<1>2. TypeOK
  BY <1>1, BufferAssumption DEF Init, TypeOK, read_index
<1>3. LinesRead
  BY <1>1 DEF Init, LinesRead, WholeLines
<1>4. NoneLeft
  BY <1>1 DEF Init, NoneLeft
<1> QED
  BY <1>2, <1>3, <1>4 DEF Inv, Init

\* recv adds to the buffer what the client sends next.
LEMMA RecvStep ==
  ASSUME Inv, NEW n \in 1 .. BUFFER_SIZE, Recv(n)
  PROVE  Inv'
<1> DEFINE r == read_index
           more == SubSeq(stream, r + 1, r + n)
<1>1. /\ TypeOK /\ LinesRead /\ pc' = "parse" /\ n \in Nat /\ n > 0
      /\ r + n <= BUFFER_SIZE /\ r + n <= Len(stream) /\ buffer' = buffer \o more
      /\ UNCHANGED <<stream, checked_index, start_line, checkstate, answer>>
  BY BufferAssumption DEF Inv, Recv
<1>2. /\ stream \in Seq(Symbols) /\ Len(stream) \in Nat /\ r \in Nat /\ Len(buffer) = r
      /\ buffer \in Seq(Symbols)
      /\ checked_index \in 0 .. r /\ start_line \in 0 .. checked_index
      /\ checked_index \in Nat /\ start_line \in Nat
  BY <1>1, Types
<1> HIDE DEF r
<1>3. /\ more \in Seq(Symbols) /\ Len(more) = n
      /\ \A i \in 1 .. n : more[i] = stream[r + i]
  <2>1. /\ r + 1 \in 1 .. Len(stream) + 1 /\ r + n \in 0 .. Len(stream)
        /\ r + 1 <= r + n /\ r + n - (r + 1) + 1 = n
    BY <1>1, <1>2
  <2>2. /\ more \in Seq(Symbols)
        /\ Len(more) = IF r + 1 <= r + n THEN r + n - (r + 1) + 1 ELSE 0
        /\ \A i \in 1 .. r + n - (r + 1) + 1 : more[i] = stream[(r + 1) + i - 1]
    BY <1>2, <2>1, PartOf
  <2>3. more \in Seq(Symbols)
    BY <2>2, SeqMonotonic
  <2>4. \A i \in 1 .. n : (r + 1) + i - 1 = r + i
    BY <1>1, <1>2
  <2> QED
    BY <2>1, <2>2, <2>3, <2>4
<1> HIDE DEF more
<1>4. /\ buffer' \in Seq(Symbols) /\ Len(buffer') = r + n
      /\ \A i \in 1 .. r + n : buffer'[i] = IF i <= r THEN buffer[i] ELSE more[i - r]
  BY <1>1, <1>2, <1>3, ConcatProperties
<1>5. read_index' = r + n
  BY <1>4 DEF read_index
<1>6. TypeOK'
  <2>1. read_index' <= BUFFER_SIZE /\ checked_index' \in 0 .. read_index'
    BY <1>1, <1>2, <1>5
  <2> QED
    BY <1>1, <1>4, <2>1 DEF TypeOK
<1>7. LinesRead'
  <2>1. ASSUME NEW i \in start_line' + 1 .. read_index'
        PROVE  buffer'[i] = stream'[i]
    <3>1. i \in 1 .. r + n /\ (i <= r => i \in start_line + 1 .. r)
          /\ (~(i <= r) => i - r \in 1 .. n /\ r + (i - r) = i)
      BY <1>1, <1>2, <1>5
    <3>2. i \in start_line + 1 .. r => buffer[i] = stream[i]
      BY <1>1 DEF LinesRead, r
    <3> QED
      BY <1>1, <1>3, <1>4, <3>1, <3>2
  <2>2. start_line > 0 => buffer'[start_line] = buffer[start_line]
    <3>1. start_line > 0 => start_line \in 1 .. r + n /\ start_line <= r
      BY <1>1, <1>2
    <3> QED
      BY <1>4, <3>1
  <2>3. read_index' <= Len(stream')
    BY <1>1, <1>5
  <2> QED
    BY <1>1, <2>1, <2>2, <2>3 DEF LinesRead, WholeLines, IsBreak
<1> QED
  BY <1>1, <1>6, <1>7 DEF Inv

\* The client is gone before the request was complete.
LEMMA RecvNothingStep ==
  ASSUME Inv, RecvNothing
  PROVE  Inv'
<1>1. /\ TypeOK /\ LinesRead /\ NoneLeft /\ pc' = "closed"
      /\ UNCHANGED <<stream, buffer, checked_index, start_line, checkstate, answer>>
  BY DEF Inv, RecvNothing
<1>2. Verdict(Received) = "none" /\ answer = "none" /\ read_index <= Len(stream)
  BY <1>1, WaitingVerdict DEF LinesRead
<1>3. Received' = Received /\ read_index' = read_index
  BY <1>1 DEF Received, read_index
<1>4. TypeOK'
  BY <1>1, <1>3 DEF TypeOK
<1> QED
  BY <1>1, <1>2, <1>3, <1>4 DEF Inv

\* A line is complete: what holds of the parser before it looks at the text of the line.
LEMMA NextLineStep ==
  ASSUME Inv, NextLine, checkstate' \in {"REQUESTLINE", "HEADER"},
         pc' \in {"recv", "parse", "closed"}, answer' \in {"good", "bad", "none"}
  PROVE  \E c \in start_line + 2 .. read_index :
           /\ FindsLine(c) /\ TypeOK' /\ read_index' = read_index /\ Received' = Received
           /\ stream' = stream /\ start_line' = c /\ checked_index' = c
           /\ \A i \in c + 1 .. read_index : buffer'[i] = stream[i]
           /\ buffer'[c] = "NUL" /\ WholeLines(c)
           /\ Text(Ended, start_line) = UpToNul(SubSeq(stream, start_line + 1, c - 2))
           /\ Text(Ended, start_line) \in Seq(Symbols)
           /\ Text(Ended, start_line) = <<>> <=> stream[start_line + 1] \in {"CR", "NUL"}
<1>1. /\ TypeOK /\ LinesRead /\ ParseLine.status = "OK"
      /\ buffer' = Ended /\ checked_index' = ParseLine.checked
      /\ start_line' = ParseLine.checked /\ stream' = stream
  BY DEF Inv, NextLine
<1>2. PICK c \in start_line + 2 .. read_index : FindsLine(c)
  BY <1>1, ParseLineFinds DEF FindsNothing, FindsCR, FindsFlaw
<1>3. checked_index' = c /\ start_line' = c
  BY <1>1, <1>2 DEF FindsLine
<1>4. /\ Ended \in Seq(Symbols) /\ Len(Ended) = read_index
      /\ Ended[c] = "NUL" /\ \A i \in c + 1 .. read_index : Ended[i] = stream[i]
      /\ Text(Ended, start_line) = UpToNul(SubSeq(stream, start_line + 1, c - 2))
      /\ Text(Ended, start_line) \in Seq(Symbols)
      /\ Text(Ended, start_line) = <<>> <=> stream[start_line + 1] \in {"CR", "NUL"}
      /\ WholeLines(c)
  BY <1>1, <1>2, LineText
<1>5. read_index' = read_index /\ Received' = Received
  BY <1>1, <1>4 DEF read_index, Received
<1>6. TypeOK'
  <2>1. read_index \in Nat /\ start_line \in Nat
    BY <1>1, Types
  <2>2. c \in 0 .. read_index /\ c \in 0 .. c
    BY <2>1
  <2> QED
    BY <1>1, <1>3, <1>4, <1>5, <2>2 DEF TypeOK
<1> QED
  BY <1>1, <1>2, <1>3, <1>4, <1>5, <1>6

\* The first line is complete.
LEMMA RequestLineStep ==
  ASSUME Inv, RequestLine
  PROVE  Inv'
<1> DEFINE n == read_index
           text == Text(Ended, start_line)
<1>1. /\ TypeOK /\ LinesRead /\ pc = "parse" /\ answer = "none" /\ NextLine
      /\ checkstate = "REQUESTLINE" /\ start_line = 0
      /\ IF ParseRequestLine(text)
         THEN checkstate' = "HEADER" /\ UNCHANGED <<pc, answer>>
         ELSE answer' = "bad" /\ pc' = "closed" /\ UNCHANGED checkstate
  BY DEF Inv, RequestLine, NextLine, Answer, LinesRead
<1>2. /\ checkstate' \in {"REQUESTLINE", "HEADER"} /\ pc' \in {"recv", "parse", "closed"}
      /\ answer' \in {"good", "bad", "none"}
  BY <1>1
<1>3. n \in Nat /\ n <= Len(stream)
  BY <1>1, Types DEF LinesRead
<1>4. PICK c \in start_line + 2 .. n :
        /\ FindsLine(c) /\ TypeOK' /\ read_index' = n /\ Received' = Received
        /\ stream' = stream /\ start_line' = c /\ checked_index' = c
        /\ \A i \in c + 1 .. n : buffer'[i] = stream[i]
        /\ buffer'[c] = "NUL" /\ WholeLines(c)
        /\ text = UpToNul(SubSeq(stream, start_line + 1, c - 2))
        /\ text \in Seq(Symbols)
        /\ text = <<>> <=> stream[start_line + 1] \in {"CR", "NUL"}
  BY <1>1, <1>2, NextLineStep
<1> HIDE DEF n, text
<1>5. /\ c \in 2 .. n /\ stream[c - 1] = "CR" /\ stream[c] = "LF"
      /\ \A i \in 1 .. c - 2 : ~IsBreak(i)
      /\ text = UpToNul(SubSeq(stream, 1, c - 2))
  BY <1>1, <1>3, <1>4 DEF FindsLine
<1>6. \A i \in 1 .. c - 1 : stream[i] # "LF"
  <2> SUFFICES ASSUME NEW i \in 1 .. c - 1 PROVE stream[i] # "LF"
    OBVIOUS
  <2>1. i \in 1 .. c - 2 \/ i = c - 1
    BY <1>3, <1>5
  <2> QED
    BY <1>5, <2>1 DEF IsBreak
<1>7. ParseRequestLine(text) <=> IsRequestLine(UpToNul(SubSeq(stream, 1, c - 2)))
  BY <1>4, <1>5, RequestLineAccepted
<1>8. CASE ParseRequestLine(text)
  <2>1. pc' = "parse" /\ answer' = "none" /\ checkstate' = "HEADER"
    BY <1>1, <1>8
  <2>2. c \in Nat /\ c \in 1 .. c /\ (c + 1 .. c) = {}
    BY <1>3, <1>5
  <2>3. \A i \in 1 .. c - 1 : stream[i] = "LF" => stream[i + 1] \notin {"CR", "NUL"}
    BY <1>6
  <2>4. LinesRead'
    <3>1. WholeLines(c)'
      BY <1>4 DEF WholeLines
    <3>2. /\ read_index' <= Len(stream')
          /\ \A i \in start_line' + 1 .. read_index' : buffer'[i] = stream'[i]
          /\ start_line' > 0 => buffer'[start_line'] = "NUL" /\ stream'[start_line'] = "LF"
      BY <1>3, <1>4, <1>5
    <3>3. WholeLines(start_line)'
      BY <1>4, <3>1 DEF WholeLines
    <3>4. \A i \in start_line' + 1 .. checked_index' : ~IsBreak(i)'
      BY <1>4, <2>2
    <3>5. \E e \in 1 .. start_line' :
            /\ stream'[e] = "LF" /\ \A i \in 1 .. e - 1 : stream'[i] # "LF"
            /\ IsRequestLine(UpToNul(SubSeq(stream', 1, e - 2)))
      BY <1>4, <1>5, <1>6, <1>7, <1>8, <2>2
    <3>6. \A i \in 1 .. start_line' - 1 :
            stream'[i] = "LF" => stream'[i + 1] \notin {"CR", "NUL"}
      BY <1>4, <2>3
    <3> QED
      BY <2>1, <3>2, <3>3, <3>4, <3>5, <3>6 DEF LinesRead
  <2> QED
    BY <1>4, <2>1, <2>4 DEF Inv
<1>9. CASE ~ParseRequestLine(text)
  <2>1. pc' = "closed" /\ answer' = "bad"
    BY <1>1, <1>9
  <2>2. c \in EndsIn(n)
    <3>1. c \in 0 .. n /\ c \in 1 .. c
      BY <1>3, <1>5
    <3> QED
      BY <1>1, <1>4, <1>5, <3>1, WholeLinesEnd DEF n
  <2>3. \A i \in EndsIn(n) : c <= i
    <3> SUFFICES ASSUME NEW i \in EndsIn(n), ~(c <= i) PROVE FALSE
      OBVIOUS
    <3>1. i \in 1 .. n /\ stream[i] = "LF"
      BY DEF EndsIn
    <3>2. i \in 1 .. c - 1
      BY <1>3, <1>5, <3>1
    <3> QED
      BY <1>6, <3>1, <3>2
  <2>4. Verdict(Received) = "bad"
    BY <1>1, <1>3, <1>7, <1>9, <2>2, <2>3, VerdictOf DEF n
  <2> QED
    BY <1>3, <1>4, <2>1, <2>4 DEF Inv
<1> QED
  BY <1>8, <1>9

\* A header, or the empty line, is complete.
LEMMA HeaderStep ==
  ASSUME Inv, Header
  PROVE  Inv'
<1> DEFINE n == read_index
           text == Text(Ended, start_line)
<1>1. /\ TypeOK /\ LinesRead /\ pc = "parse" /\ answer = "none" /\ NextLine
      /\ checkstate = "HEADER" /\ checkstate' = "HEADER"
      /\ IF text = <<>> THEN answer' = "good" /\ pc' = "closed" ELSE UNCHANGED <<pc, answer>>
  BY DEF Inv, Header, NextLine, Answer, LinesRead
<1>2. pc' \in {"recv", "parse", "closed"} /\ answer' \in {"good", "bad", "none"}
  BY <1>1
<1>3. n \in Nat /\ n <= Len(stream) /\ start_line \in Nat /\ start_line \in 0 .. n
  BY <1>1, Types DEF LinesRead
<1>4. PICK c \in start_line + 2 .. n :
        /\ FindsLine(c) /\ TypeOK' /\ read_index' = n /\ Received' = Received
        /\ stream' = stream /\ start_line' = c /\ checked_index' = c
        /\ \A i \in c + 1 .. n : buffer'[i] = stream[i]
        /\ buffer'[c] = "NUL" /\ WholeLines(c)
        /\ text = UpToNul(SubSeq(stream, start_line + 1, c - 2))
        /\ text \in Seq(Symbols)
        /\ text = <<>> <=> stream[start_line + 1] \in {"CR", "NUL"}
  BY <1>1, <1>2, NextLineStep
<1> HIDE DEF n, text
<1>5. /\ c \in Nat /\ c \in 1 .. n /\ c > start_line /\ stream[c - 1] = "CR" /\ stream[c] = "LF"
      /\ \A i \in start_line + 1 .. c - 2 : ~IsBreak(i)
  BY <1>3, <1>4 DEF FindsLine
<1>6. CASE text = <<>>
  <2>1. pc' = "closed" /\ answer' = "good"
    BY <1>1, <1>6
  <2>2. start_line > 0 /\ stream[start_line] = "LF" /\ stream[start_line + 1] \in {"CR", "NUL"}
    BY <1>1, <1>4, <1>6, VerdictBehind DEF LinesRead
  <2>3. c \in EndsIn(n) /\ start_line \in EndsIn(n)
    <3>1. c \in 0 .. n /\ c \in 1 .. c /\ start_line \in 1 .. c
      BY <1>3, <1>5, <2>2
    <3> QED
      BY <1>1, <1>4, <1>5, <2>2, <3>1, WholeLinesEnd DEF n
  <2>4. LastLineIn(EndsIn(n))
    BY <1>5, <2>2, <2>3 DEF LastLineIn
  <2>5. Verdict(Received) = "good"
    BY <1>1, <2>4, VerdictBehind DEF n
  <2> QED
    BY <1>3, <1>4, <2>1, <2>5 DEF Inv
<1>7. CASE text # <<>>
  <2>1. pc' = "parse" /\ answer' = "none"
    BY <1>1, <1>7
  <2>2. stream[start_line + 1] \notin {"CR", "NUL"}
    BY <1>4, <1>7
  <2>3. \A i \in 1 .. c - 1 : stream[i] = "LF" => stream[i + 1] \notin {"CR", "NUL"}
    <3> SUFFICES ASSUME NEW i \in 1 .. c - 1, stream[i] = "LF"
                 PROVE  stream[i + 1] \notin {"CR", "NUL"}
      OBVIOUS
    <3>1. i \in 1 .. start_line - 1 \/ i = start_line \/ i \in start_line + 1 .. c - 2 \/ i = c - 1
      BY <1>3, <1>5
    <3>2. CASE i \in 1 .. start_line - 1
      BY <1>1, <3>2 DEF LinesRead
    <3> QED
      BY <1>5, <2>2, <3>1, <3>2 DEF IsBreak
  <2>4. PICK e \in 1 .. start_line :
          /\ stream[e] = "LF" /\ \A i \in 1 .. e - 1 : stream[i] # "LF"
          /\ IsRequestLine(UpToNul(SubSeq(stream, 1, e - 2)))
    BY <1>1 DEF LinesRead
  <2>5. e \in 1 .. c /\ (c + 1 .. c) = {}
    BY <1>3, <1>5, <2>4
  <2>6. LinesRead'
    <3>1. WholeLines(start_line)'
      BY <1>4 DEF WholeLines
    <3>2. /\ read_index' <= Len(stream')
          /\ \A i \in start_line' + 1 .. read_index' : buffer'[i] = stream'[i]
          /\ start_line' > 0 => buffer'[start_line'] = "NUL" /\ stream'[start_line'] = "LF"
      BY <1>3, <1>4, <1>5
    <3>3. \A i \in start_line' + 1 .. checked_index' : ~IsBreak(i)'
      BY <1>4, <2>5
    <3>4. \E d \in 1 .. start_line' :
            /\ stream'[d] = "LF" /\ \A i \in 1 .. d - 1 : stream'[i] # "LF"
            /\ IsRequestLine(UpToNul(SubSeq(stream', 1, d - 2)))
      BY <1>4, <2>4, <2>5
    <3>5. \A i \in 1 .. start_line' - 1 :
            stream'[i] = "LF" => stream'[i + 1] \notin {"CR", "NUL"}
      BY <1>4, <2>3
    <3> QED
      BY <1>1, <2>1, <3>1, <3>2, <3>3, <3>4, <3>5 DEF LinesRead
  <2> QED
    BY <1>4, <2>1, <2>6 DEF Inv
<1> QED
  BY <1>6, <1>7

\* No line is complete: recv goes on.
LEMMA LineOpenStep ==
  ASSUME Inv, LineOpen
  PROVE  Inv'
<1>1. /\ TypeOK /\ LinesRead /\ pc' = "recv" /\ ParseLine.status = "OPEN"
      /\ checked_index' = ParseLine.checked
      /\ UNCHANGED <<stream, buffer, start_line, checkstate, answer>>
  BY DEF Inv, LineOpen
<1>2. read_index' = read_index
  BY <1>1 DEF read_index
<1>3. /\ read_index \in Nat /\ start_line \in Nat /\ start_line \in 0 .. checked_index
      /\ checked_index \in 0 .. read_index /\ checked_index \in Nat
  BY <1>1, Types
<1>4. /\ checked_index' \in 0 .. read_index /\ start_line \in 0 .. checked_index'
      /\ \A i \in start_line + 1 .. checked_index' : ~IsBreak(i)
      /\ NoneLeft
  <2>1. CASE FindsNothing
    BY <1>1, <1>3, <2>1 DEF FindsNothing, NoneLeft, IsBreak
  <2>2. CASE FindsCR
    <3>1. checked_index' = read_index - 1 /\ read_index - 1 >= checked_index
      BY <1>1, <1>3, <2>2 DEF FindsCR
    <3>2. \A i \in start_line + 1 .. read_index : i \in start_line + 1 .. read_index - 1 \/ i = read_index
      BY <1>3
    <3>3. NoneLeft
      BY <2>2, <3>2 DEF FindsCR, NoneLeft, IsBreak
    <3> QED
      BY <1>3, <2>2, <3>1, <3>3 DEF FindsCR
  <2> QED
    BY <1>1, <2>1, <2>2, ParseLineFinds DEF FindsLine, FindsFlaw
<1>5. TypeOK'
  BY <1>1, <1>2, <1>4 DEF TypeOK
<1>6. LinesRead'
  BY <1>1, <1>2, <1>4 DEF LinesRead, WholeLines, IsBreak
<1>7. NoneLeft'
  BY <1>1, <1>2, <1>4 DEF NoneLeft
<1> QED
  BY <1>1, <1>5, <1>6, <1>7 DEF Inv

\* A flaw is found.
LEMMA LineBadStep ==
  ASSUME Inv, LineBad
  PROVE  Inv'
<1>1. /\ TypeOK /\ LinesRead /\ pc' = "closed" /\ answer' = "bad" /\ ParseLine.status = "BAD"
      /\ UNCHANGED <<stream, buffer, checked_index, start_line, checkstate>>
  BY DEF Inv, LineBad, Answer
<1>2. PICK k \in start_line + 1 .. read_index : FindsFlaw(k)
  BY <1>1, ParseLineFinds DEF FindsNothing, FindsCR, FindsLine
<1>3. Verdict(Received) = "bad" /\ read_index <= Len(stream)
  BY <1>1, <1>2, FlawVerdict DEF LinesRead
<1>4. Received' = Received /\ read_index' = read_index
  BY <1>1 DEF Received, read_index
<1>5. TypeOK'
  BY <1>1, <1>4 DEF TypeOK
<1> QED
  BY <1>1, <1>3, <1>4, <1>5 DEF Inv

LEMMA InvStep == Inv /\ [Next]_vars => Inv'
<1> SUFFICES ASSUME Inv, [Next]_vars PROVE Inv'
  OBVIOUS
<1>1. CASE UNCHANGED vars
  <2>1. read_index' = read_index /\ Received' = Received
    BY <1>1 DEF vars, read_index, Received
  <2>2. TypeOK'
    BY <1>1, <2>1 DEF vars, Inv, TypeOK
  <2>3. LinesRead => LinesRead'
    BY <1>1, <2>1 DEF vars, LinesRead, WholeLines, IsBreak
  <2>4. NoneLeft => NoneLeft'
    BY <1>1, <2>1 DEF vars, NoneLeft
  <2> QED
    BY <1>1, <2>1, <2>2, <2>3, <2>4 DEF vars, Inv
<1> QED
  BY <1>1, RecvStep, RecvNothingStep, RequestLineStep, HeaderStep, LineOpenStep, LineBadStep
     DEF Next, Parse

LEMMA InvCorrect == Spec => []Inv
  BY InvInit, InvStep, PTL DEF Spec

\* Whatever the client sends, and however it is cut, the answer is the verdict on all that
\* was received, given as soon as it can be (src/HTTP/http.c:105-136, 168-199).
THEOREM AnswerIsVerdictCorrect == Spec => []AnswerIsVerdict
<1>1. Inv => AnswerIsVerdict
  <2> SUFFICES ASSUME Inv PROVE AnswerIsVerdict
    OBVIOUS
  <2>1. CASE pc = "recv"
    BY <2>1, WaitingVerdict DEF Inv, AnswerIsVerdict, LinesRead, Received
  <2>2. CASE pc = "closed"
    BY <2>2 DEF Inv, AnswerIsVerdict, Received
  <2> QED
    BY <2>1, <2>2 DEF Inv, AnswerIsVerdict
<1> QED
  BY <1>1, InvCorrect, PTL

\* parse_requestline is given the client's first line, up to a byte 0 in it, and decides
\* as the pattern does (src/HTTP/http.c:48-88, 107-117).
THEOREM RequestLineIsPatternCorrect == Spec => []RequestLineIsPattern
<1>1. Inv => RequestLineIsPattern
  <2> SUFFICES ASSUME Inv, pc = "parse", checkstate = "REQUESTLINE", ParseLine.status = "OK"
               PROVE  LET n == ParseLine.checked - 2
                      IN /\ \A i \in 1 .. n : stream[i] \notin {"CR", "LF"}
                         /\ stream[n + 1] = "CR" /\ stream[n + 2] = "LF"
                         /\ ParseRequestLine(Text(Ended, start_line))
                              <=> IsRequestLine(UpToNul(SubSeq(stream, 1, n)))
    BY Zenon DEF RequestLineIsPattern
  <2>1. TypeOK /\ LinesRead /\ start_line = 0 /\ read_index \in Nat
    BY Types DEF Inv, LinesRead
  <2>2. PICK c \in start_line + 2 .. read_index : FindsLine(c)
    BY <2>1, ParseLineFinds DEF FindsNothing, FindsCR, FindsFlaw
  <2>3. ParseLine.checked = c /\ c - 2 + 1 = c - 1 /\ c - 2 + 2 = c
    BY <2>1, <2>2 DEF FindsLine
  <2>4. /\ \A i \in 1 .. c - 2 : stream[i] \notin {"CR", "LF"}
        /\ stream[c - 1] = "CR" /\ stream[c] = "LF"
    BY <2>1, <2>2 DEF FindsLine, IsBreak
  <2>5. Text(Ended, start_line) = UpToNul(SubSeq(stream, 1, c - 2))
        /\ Text(Ended, start_line) \in Seq(Symbols)
    BY <2>1, <2>2, LineText
  <2>6. ParseRequestLine(Text(Ended, start_line)) <=> IsRequestLine(Text(Ended, start_line))
    BY <2>5, RequestLineAccepted
  <2> QED
    BY <2>3, <2>4, <2>5, <2>6
<1> QED
  BY <1>1, InvCorrect, PTL
===============================================================================
