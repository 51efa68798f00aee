------------------------------ MODULE JsonProofs ------------------------------
(***************************************************************************)
(* Proofs about CJsonNode, for any keys, names and values, any depth of a   *)
(* document and any sequence of calls: the text of a document is read back *)
(* to the last element, and a scalar to the last character.                *)
(***************************************************************************)
EXTENDS JsonDocument, SequenceTheorems, FiniteSetTheorems, TLAPS

-------------------------------------------------------------------------------
(* Sequences that are put together from pieces.                              *)

\* A set of numbers that is not empty has a least one.
LEMMA LeastNumber ==
    ASSUME NEW T, T \subseteq Nat, T # {}
    PROVE  \E i \in T : \A j \in T : i <= j
<1> DEFINE R == StrictSubsetOrdering(Nat)
           S == FiniteSubsetsOf(Nat)
           I == {0..i : i \in T}
<1>1. IsWellFoundedOn(R, S)
  BY FS_StrictSubsetOrderingWellFounded
<1>2. I \subseteq S
  <2>1. \A i \in T : i \in Int /\ 0..i \in SUBSET Nat
    OBVIOUS
  <2>2. \A i \in T : IsFiniteSet(0..i)
    <3>1. 0 \in Int
      OBVIOUS
    <3> QED BY <2>1, <3>1, FS_Interval
  <2> QED BY <2>1, <2>2 DEF FiniteSubsetsOf
<1>3. I # {}
  OBVIOUS
<1>4. \E x \in I : \A y \in I : ~ (<<y, x>> \in R)
  <2> HIDE DEF R, S, I
  <2> QED BY <1>1, <1>2, <1>3, WFMin
<1>5. PICK i \in T : \A j \in T : ~ (<<0..j, 0..i>> \in R)
  BY <1>4
<1>6. ASSUME NEW j \in T, j < i PROVE FALSE
  <2>1. 0..j \subseteq 0..i /\ 0..j # 0..i
    <3>1. i \in 0..i /\ i \notin 0..j
      BY <1>6
    <3> QED BY <1>6, <3>1
  <2>2. <<0..j, 0..i>> \in R
    BY <2>1 DEF StrictSubsetOrdering
  <2> QED BY <2>2, <1>5, <1>6
<1> QED BY <1>6

\* What holds of 0 and goes on from each number to the next holds of them all.
LEMMA Upwards ==
    ASSUME NEW n \in Nat, NEW G, 0 \in G, \A m \in 1..n : m - 1 \in G => m \in G
    PROVE  \A m \in 0..n : m \in G
<1>. DEFINE T == {m \in 0..n : m \notin G}
<1>. SUFFICES ASSUME T # {} PROVE FALSE
  OBVIOUS
<1>1. T \subseteq Nat
  OBVIOUS
<1>2. PICK m \in T : \A j \in T : m <= j
  <2>. HIDE DEF T
  <2>. QED  BY <1>1, LeastNumber
<1>3. m \in 0..n /\ m \notin G
  BY <1>2
<1>4. m # 0 /\ m \in 1..n /\ m - 1 \in 0..n
  BY <1>3
<1>5. m - 1 \notin T
  BY <1>2, <1>3
<1>. QED  BY <1>3, <1>4, <1>5

\* The function that FlattenSeq defines: the first i sequences, one after the other.
Flattens(f, seqs, n) == f = [i \in 1..n |-> IF i = 1 THEN seqs[i] ELSE f[i-1] \o seqs[i]]
FlatOf(seqs) == CHOOSE f : Flattens(f, seqs, Len(seqs))

LEMMA FlattenedBy ==
    ASSUME NEW seqs
    PROVE  FlattenSeq(seqs) = IF Len(seqs) = 0 THEN seqs ELSE FlatOf(seqs)[Len(seqs)]
BY DEF FlattenSeq, FlatOf, Flattens

LEMMA FlatExists == ASSUME NEW seqs, NEW n \in Nat PROVE \E f : Flattens(f, seqs, n)
<1>. DEFINE T == {m \in Nat : ~ \E f : Flattens(f, seqs, m)}
<1>. SUFFICES ASSUME T # {} PROVE FALSE
  OBVIOUS
<1>1. PICK m \in T : \A j \in T : m <= j
  BY LeastNumber
<1>2. m \in Nat /\ ~ \E f : Flattens(f, seqs, m)
  BY <1>1
<1>3. CASE m = 0
  <2>1. 1..m = {}
    BY <1>3
  <2>2. Flattens([i \in {} |-> seqs], seqs, m)
    BY <2>1 DEF Flattens
  <2>. QED  BY <1>2, <2>2
<1>4. CASE m # 0
  <2>1. m - 1 \in Nat /\ m - 1 \notin T
    BY <1>1, <1>2, <1>4
  <2>2. PICK g : Flattens(g, seqs, m - 1)
    BY <2>1
  <2>. DEFINE f == [i \in 1..m |-> IF i = m THEN IF m = 1 THEN seqs[m] ELSE g[m-1] \o seqs[m] ELSE g[i]]
  <2>3. ASSUME NEW i \in 1..m PROVE f[i] = IF i = 1 THEN seqs[i] ELSE f[i-1] \o seqs[i]
    <3>1. CASE i = m
      <4>1. i # 1 => i - 1 \in 1..m /\ i - 1 # m
        BY <1>2, <3>1
      <4>. QED  BY <3>1, <4>1
    <3>2. CASE i # m
      <4>1. i \in 1..(m - 1) /\ (i # 1 => i - 1 \in 1..m /\ i - 1 # m)
        BY <1>2, <3>2
      <4>2. g[i] = IF i = 1 THEN seqs[i] ELSE g[i-1] \o seqs[i]
        BY <2>2, <4>1 DEF Flattens
      <4>. QED  BY <3>2, <4>1, <4>2
    <3>. QED  BY <3>1, <3>2
  <2>4. f = [i \in 1..m |-> f[i]]
    OBVIOUS
  <2>. HIDE DEF f
  <2>5. Flattens(f, seqs, m)
    BY <2>3, <2>4 DEF Flattens
  <2>. QED  BY <1>2, <2>5
<1>. QED  BY <1>3, <1>4

LEMMA FlatIs ==
    ASSUME NEW seqs, Len(seqs) \in Nat, NEW i \in 1..Len(seqs)
    PROVE  FlatOf(seqs)[i] = IF i = 1 THEN seqs[i] ELSE FlatOf(seqs)[i-1] \o seqs[i]
<1>1. Flattens(FlatOf(seqs), seqs, Len(seqs))
  BY FlatExists DEF FlatOf
<1>. HIDE DEF FlatOf
<1>. QED  BY <1>1 DEF Flattens

\* The first k pieces, one after the other.
FlatTo(seqs, k) == IF k = 0 THEN <<>> ELSE FlatOf(seqs)[k]

LEMMA FlatGrows ==
    ASSUME NEW S, NEW seqs \in Seq(Seq(S)), NEW k \in 1..Len(seqs), FlatTo(seqs, k - 1) \in Seq(S)
    PROVE  FlatTo(seqs, k) = FlatTo(seqs, k - 1) \o seqs[k]
<1>1. Len(seqs) \in Nat /\ seqs[k] \in Seq(S) /\ k # 0
  OBVIOUS
<1>2. FlatOf(seqs)[k] = IF k = 1 THEN seqs[k] ELSE FlatOf(seqs)[k - 1] \o seqs[k]
  BY <1>1, FlatIs
<1>3. CASE k = 1
  <2>1. FlatTo(seqs, k - 1) = <<>> /\ FlatTo(seqs, k) = seqs[k]
    BY <1>2, <1>3 DEF FlatTo
  <2>. QED  BY <1>1, <2>1, ConcatEmptySeq
<1>4. CASE k # 1
  <2>1. k - 1 # 0
    BY <1>4
  <2>. QED  BY <1>1, <1>2, <1>4, <2>1 DEF FlatTo
<1>. QED  BY <1>3, <1>4

LEMMA FlatToIsSeq ==
    ASSUME NEW S, NEW seqs \in Seq(Seq(S))
    PROVE  \A k \in 0..Len(seqs) : FlatTo(seqs, k) \in Seq(S)
<1>. DEFINE G == {k \in 0..Len(seqs) : FlatTo(seqs, k) \in Seq(S)}
<1>0. Len(seqs) \in Nat
  OBVIOUS
<1>1. 0 \in G
  BY <1>0 DEF FlatTo
<1>2. ASSUME NEW m \in 1..Len(seqs), m - 1 \in G PROVE m \in G
  <2>1. FlatTo(seqs, m - 1) \in Seq(S) /\ seqs[m] \in Seq(S)
    BY <1>2
  <2>2. FlatTo(seqs, m) = FlatTo(seqs, m - 1) \o seqs[m]
    BY <2>1, FlatGrows
  <2>3. FlatTo(seqs, m - 1) \o seqs[m] \in Seq(S) /\ m \in 0..Len(seqs)
    BY <1>0, <2>1
  <2>. QED  BY <2>2, <2>3
<1>3. \A k \in 0..Len(seqs) : k \in G
  <2>. HIDE DEF G
  <2>. QED  BY <1>0, <1>1, <1>2, Upwards
<1>. QED  BY <1>3

LEMMA FlatIsFlatTo ==
    ASSUME NEW S, NEW seqs \in Seq(Seq(S))
    PROVE  FlattenSeq(seqs) = FlatTo(seqs, Len(seqs)) /\ FlattenSeq(seqs) \in Seq(S)
<1>1. Len(seqs) \in Nat /\ (Len(seqs) = 0 => seqs = <<>>)
  OBVIOUS
<1>2. FlattenSeq(seqs) = FlatTo(seqs, Len(seqs))
  BY <1>1, FlattenedBy DEF FlatTo
<1>. QED  BY <1>1, <1>2, FlatToIsSeq

\* A text stands in another one, behind the first k tokens of it.
Stands(text, s, k) ==
    /\ k + Len(s) <= Len(text)
    /\ \A j \in 1..Len(s) : text[k + j] = s[j]

LEMMA StandsConcat ==
    ASSUME NEW S, NEW s \in Seq(S), NEW t \in Seq(S), NEW text \in Seq(S), NEW k \in Nat,
           Stands(text, s \o t, k)
    PROVE  Stands(text, s, k) /\ Stands(text, t, k + Len(s))
<1>1. /\ Len(s) \in Nat /\ Len(t) \in Nat /\ Len(text) \in Nat
      /\ Len(s \o t) = Len(s) + Len(t)
  OBVIOUS
<1>2. ASSUME NEW j \in 1..Len(s) PROVE text[k + j] = s[j]
  <2>1. j \in 1..Len(s \o t) /\ (s \o t)[j] = s[j]
    BY <1>1
  <2>. QED  BY <2>1 DEF Stands
<1>3. ASSUME NEW j \in 1..Len(t) PROVE text[(k + Len(s)) + j] = t[j]
  <2>1. Len(s) + j \in 1..Len(s \o t) /\ (s \o t)[Len(s) + j] = t[j]
    BY <1>1
  <2>2. text[k + (Len(s) + j)] = t[j]
    BY <2>1 DEF Stands
  <2>3. k + (Len(s) + j) = (k + Len(s)) + j
    BY <1>1
  <2>. QED  BY <2>2, <2>3
<1>4. k + Len(s) <= Len(text) /\ (k + Len(s)) + Len(t) <= Len(text)
  BY <1>1 DEF Stands
<1>. QED  BY <1>2, <1>3, <1>4 DEF Stands

\* Where a flattened sequence stands, its pieces stand one behind the other.
LEMMA FlatStandsTo ==
    ASSUME NEW S, NEW seqs \in Seq(Seq(S)), NEW text \in Seq(S), NEW k \in Nat,
           Stands(text, FlattenSeq(seqs), k), NEW n \in 0..Len(seqs)
    PROVE  Stands(text, FlatTo(seqs, n), k)
<1>. DEFINE G == {d \in 0..Len(seqs) : Stands(text, FlatTo(seqs, Len(seqs) - d), k)}
<1>0. Len(seqs) \in Nat
  OBVIOUS
<1>1. 0 \in G
  BY <1>0, FlatIsFlatTo
<1>2. ASSUME NEW m \in 1..Len(seqs), m - 1 \in G PROVE m \in G
  <2>. DEFINE i == Len(seqs) - (m - 1)
  <2>1. Stands(text, FlatTo(seqs, i), k)
    BY <1>2
  <2>2. i \in 1..Len(seqs) /\ i - 1 \in 0..Len(seqs) /\ i - 1 = Len(seqs) - m
    BY <1>0
  <2>. HIDE DEF i
  <2>3. FlatTo(seqs, i - 1) \in Seq(S) /\ seqs[i] \in Seq(S)
    BY <2>2, FlatToIsSeq
  <2>4. FlatTo(seqs, i) = FlatTo(seqs, i - 1) \o seqs[i]
    BY <2>2, <2>3, FlatGrows
  <2>5. Stands(text, FlatTo(seqs, i - 1), k)
    BY <2>1, <2>3, <2>4, StandsConcat
  <2>6. m \in 0..Len(seqs)
    BY <1>0
  <2>. QED  BY <2>2, <2>5, <2>6
<1>3. \A d \in 0..Len(seqs) : d \in G
  <2>. HIDE DEF G
  <2>. QED  BY <1>0, <1>1, <1>2, Upwards
<1>4. Len(seqs) - n \in 0..Len(seqs) /\ Len(seqs) - (Len(seqs) - n) = n
  BY <1>0
<1>. QED  BY <1>3, <1>4

LEMMA FlatStands ==
    ASSUME NEW S, NEW seqs \in Seq(Seq(S)), NEW text \in Seq(S), NEW k \in Nat,
           Stands(text, FlattenSeq(seqs), k), NEW i \in 1..Len(seqs)
    PROVE  /\ Stands(text, seqs[i], k + Len(FlatTo(seqs, i - 1)))
           /\ Len(FlatTo(seqs, i - 1)) \in Nat /\ Len(seqs[i]) \in Nat
           /\ Len(FlatTo(seqs, i)) = Len(FlatTo(seqs, i - 1)) + Len(seqs[i])
<1>1. i \in 0..Len(seqs) /\ i - 1 \in 0..Len(seqs)
  OBVIOUS
<1>2. FlatTo(seqs, i - 1) \in Seq(S) /\ seqs[i] \in Seq(S)
  BY <1>1, FlatToIsSeq
<1>3. FlatTo(seqs, i) = FlatTo(seqs, i - 1) \o seqs[i]
  BY <1>2, FlatGrows
<1>4. Stands(text, FlatTo(seqs, i), k)
  BY <1>1, FlatStandsTo
<1>5. Stands(text, seqs[i], k + Len(FlatTo(seqs, i - 1)))
  BY <1>2, <1>3, <1>4, StandsConcat
<1>. QED  BY <1>2, <1>3, <1>5

-------------------------------------------------------------------------------
(* The characters of a scalar.                                               *)

Chars == {Quotation, Backslash, Bracket, Letter, Blank}
Outside == [data |-> <<>>, escape |-> FALSE, inside |-> FALSE, stop |-> FALSE]

\* The function that Scan defines: what is known behind the first i characters.
ScanFirst(chars) == Outside
ScanNext(prev, chars, i) == ScanOne(prev, chars[i])
ScanIs(f, chars, n) == f = [i \in 0..n |-> IF i = 0 THEN ScanFirst(chars) ELSE ScanNext(f[i - 1], chars, i)]

LEMMA ScanExists == ASSUME NEW chars, NEW n \in Nat PROVE \E f : ScanIs(f, chars, n)
<1>. DEFINE G == {m \in 0..n : \E f : ScanIs(f, chars, m)}
<1>1. 0 \in G
  <2>. DEFINE f == [i \in 0..0 |-> ScanFirst(chars)]
  <2>1. \A i \in 0..0 : i = 0
    OBVIOUS
  <2>2. ScanIs(f, chars, 0)
    BY <2>1 DEF ScanIs
  <2>. HIDE DEF f
  <2>. QED  BY <2>2
<1>2. ASSUME NEW m \in 1..n, m - 1 \in G PROVE m \in G
  <2>1. PICK g : ScanIs(g, chars, m - 1)
    BY <1>2
  <2>. DEFINE f == [i \in 0..m |-> IF i = m THEN ScanNext(g[m - 1], chars, m) ELSE g[i]]
  <2>2. ASSUME NEW i \in 0..m PROVE f[i] = IF i = 0 THEN ScanFirst(chars) ELSE ScanNext(f[i - 1], chars, i)
    <3>1. i # 0 => i - 1 \in 0..m /\ i - 1 # m
      OBVIOUS
    <3>2. CASE i = m
      BY <3>1, <3>2
    <3>3. CASE i # m
      <4>1. i \in 0..(m - 1)
        BY <3>3
      <4>2. g[i] = IF i = 0 THEN ScanFirst(chars) ELSE ScanNext(g[i - 1], chars, i)
        BY <2>1, <4>1 DEF ScanIs
      <4>. QED  BY <3>1, <3>3, <4>2
    <3>. QED  BY <3>2, <3>3
  <2>3. f = [i \in 0..m |-> f[i]]
    OBVIOUS
  <2>. HIDE DEF f
  <2>4. ScanIs(f, chars, m)
    BY <2>2, <2>3 DEF ScanIs
  <2>5. m \in 0..n
    OBVIOUS
  <2>. QED  BY <2>4, <2>5
<1>3. \A m \in 0..n : m \in G
  <2>. HIDE DEF G
  <2>. QED  BY <1>1, <1>2, Upwards
<1>4. n \in G
  BY <1>3
<1>. QED  BY <1>4

ScanTo(chars, k) == (CHOOSE f : ScanIs(f, chars, Len(chars)))[k]

LEMMA ScanGoesOn ==
    ASSUME NEW chars, Len(chars) \in Nat
    PROVE  /\ Scan(chars) = ScanTo(chars, Len(chars))
           /\ ScanTo(chars, 0) = Outside
           /\ \A i \in 1..Len(chars) : ScanTo(chars, i) = ScanOne(ScanTo(chars, i - 1), chars[i])
<1>1. Scan(chars) = ScanTo(chars, Len(chars))
  BY DEF Scan, ScanTo, ScanIs, ScanFirst, ScanNext, Outside
<1>. DEFINE f == CHOOSE f : ScanIs(f, chars, Len(chars))
<1>2. ScanIs(f, chars, Len(chars))
  BY ScanExists
<1>3. \A i \in 0..Len(chars) : ScanTo(chars, i) = f[i]
  BY DEF ScanTo
<1>. HIDE DEF f
<1>4. f[0] = Outside /\ \A i \in 1..Len(chars) : f[i] = ScanOne(f[i - 1], chars[i])
  BY <1>2 DEF ScanIs, ScanFirst, ScanNext
<1>5. \A i \in 1..Len(chars) : i \in 0..Len(chars) /\ i - 1 \in 0..Len(chars)
  OBVIOUS
<1>. QED  BY <1>1, <1>3, <1>4, <1>5

\* Inside a quoted text, when these characters of it have been read.
Inside(data) == [data |-> data, escape |-> FALSE, inside |-> TRUE, stop |-> FALSE]

LEMMA KindsDiffer ==
    /\ Backslash # Quotation /\ Bracket # Quotation /\ Letter # Quotation /\ Blank # Quotation
    /\ Bracket # Backslash /\ Letter # Backslash /\ Blank # Backslash
    /\ Letter # Bracket /\ Blank # Bracket /\ Letter # Blank
  BY DEF Quotation, Backslash, Bracket, Letter, Blank

\* The quotation marks, and the bracket that ends the text.
Behind(data) == [data |-> data, escape |-> FALSE, inside |-> FALSE, stop |-> FALSE]

LEMMA Opens == ScanOne(Outside, Quotation) = Inside(<<>>)
<1>1. Outside.stop = FALSE /\ Outside.escape = FALSE /\ (~Outside.inside) = TRUE
  BY DEF Outside
<1>2. ScanOne(Outside, Quotation) = [Outside EXCEPT !.inside = ~Outside.inside]
  BY <1>1, KindsDiffer DEF ScanOne
<1>3. ScanOne(Outside, Quotation) = [Outside EXCEPT !.inside = TRUE]
  BY <1>1, <1>2
<1>. QED  BY <1>3 DEF Outside, Inside

LEMMA Closes == ASSUME NEW data PROVE ScanOne(Inside(data), Quotation) = Behind(data)
<1>1. Inside(data).stop = FALSE /\ Inside(data).escape = FALSE /\ (~Inside(data).inside) = FALSE
  BY DEF Inside
<1>2. ScanOne(Inside(data), Quotation) = [Inside(data) EXCEPT !.inside = ~Inside(data).inside]
  BY <1>1, KindsDiffer DEF ScanOne
<1>3. ScanOne(Inside(data), Quotation) = [Inside(data) EXCEPT !.inside = FALSE]
  BY <1>1, <1>2
<1>. QED  BY <1>3 DEF Behind, Inside

LEMMA Ends ==
    ASSUME NEW data
    PROVE  ScanOne(Behind(data), Bracket) = [data |-> data, escape |-> FALSE, inside |-> FALSE, stop |-> TRUE]
<1>1. Behind(data).stop = FALSE /\ Behind(data).inside = FALSE
  BY DEF Behind
<1>2. ScanOne(Behind(data), Bracket) = [Behind(data) EXCEPT !.stop = TRUE]
  BY <1>1, KindsDiffer DEF ScanOne
<1>. QED  BY <1>2 DEF Behind

\* A character is read as itself, an escaped one as well.
LEMMA PlainIsRead ==
    ASSUME NEW data, NEW c \in Chars, c \notin {Backslash, Quotation}
    PROVE  ScanOne(Inside(data), c) = Inside(Append(data, c))
<1>1. c = Bracket \/ c = Letter \/ c = Blank
  BY DEF Chars
<1>2. CASE c = Bracket
  BY <1>2, KindsDiffer DEF ScanOne, Inside
<1>3. CASE c = Letter
  BY <1>3, KindsDiffer DEF ScanOne, Inside
<1>4. CASE c = Blank
  BY <1>4, KindsDiffer DEF ScanOne, Inside
<1>. QED  BY <1>1, <1>2, <1>3, <1>4

LEMMA EscapedIsRead ==
    ASSUME NEW data, NEW c \in {Backslash, Quotation}
    PROVE  ScanOne(ScanOne(Inside(data), Backslash), c) = Inside(Append(data, c))
<1>. DEFINE at == [data |-> data, escape |-> TRUE, inside |-> TRUE, stop |-> FALSE]
<1>1. ScanOne(Inside(data), Backslash) = at
  BY KindsDiffer DEF ScanOne, Inside
<1>2. ScanOne(at, c) = Inside(Append(data, c))
  <2>1. CASE c = Backslash
    BY <2>1, KindsDiffer DEF ScanOne, Inside
  <2>2. CASE c = Quotation
    BY <2>2, KindsDiffer DEF ScanOne, Inside
  <2>. QED  BY <2>1, <2>2
<1>. QED  BY <1>1, <1>2

\* One piece of a quoted text.
LEMMA PieceIsRead ==
    ASSUME NEW text \in Seq(Chars), NEW n \in Nat, NEW data, ScanTo(text, n) = Inside(data),
           NEW c \in Chars, Stands(text, Escaped(c), n)
    PROVE  ScanTo(text, n + Len(Escaped(c))) = Inside(Append(data, c))
<1>0. Len(text) \in Nat
  OBVIOUS
<1>1. CASE c \in {Backslash, Quotation}
  <2>1. Escaped(c) = <<Backslash, c>>
    BY <1>1 DEF Escaped
  <2>2. n + 2 <= Len(text) /\ text[n + 1] = Backslash /\ text[n + 2] = c
    BY <2>1 DEF Stands
  <2>3. n + 1 \in 1..Len(text) /\ n + 2 \in 1..Len(text) /\ (n + 1) - 1 = n /\ (n + 2) - 1 = n + 1
    BY <1>0, <2>2
  <2>4. ScanTo(text, n + 1) = ScanOne(Inside(data), Backslash)
    BY <1>0, <2>2, <2>3, ScanGoesOn
  <2>5. ScanTo(text, n + 2) = ScanOne(ScanTo(text, n + 1), c)
    BY <1>0, <2>2, <2>3, ScanGoesOn
  <2>6. Len(Escaped(c)) = 2
    BY <2>1
  <2>. QED  BY <1>1, <2>4, <2>5, <2>6, EscapedIsRead
<1>2. CASE c \notin {Backslash, Quotation}
  <2>1. Escaped(c) = <<c>> /\ Len(Escaped(c)) = 1
    BY <1>2 DEF Escaped
  <2>2. n + 1 <= Len(text) /\ text[n + 1] = c
    BY <2>1 DEF Stands
  <2>3. n + 1 \in 1..Len(text) /\ (n + 1) - 1 = n
    BY <1>0, <2>2
  <2>4. ScanTo(text, n + 1) = ScanOne(Inside(data), c)
    BY <1>0, <2>2, <2>3, ScanGoesOn
  <2>. QED  BY <1>2, <2>1, <2>4, PlainIsRead
<1>. QED  BY <1>1, <1>2

Pieces(chars) == [i \in DOMAIN chars |-> Escaped(chars[i])]

LEMMA PiecesAre ==
    ASSUME NEW chars \in Seq(Chars)
    PROVE  /\ Pieces(chars) \in Seq(Seq(Chars)) /\ Len(Pieces(chars)) = Len(chars)
           /\ \A i \in 1..Len(chars) : Pieces(chars)[i] = Escaped(chars[i])
<1>1. DOMAIN chars = 1..Len(chars) /\ Len(chars) \in Nat /\ \A i \in 1..Len(chars) : chars[i] \in Chars
  OBVIOUS
<1>2. \A c \in Chars : Escaped(c) \in Seq(Chars)
  <2>. SUFFICES ASSUME NEW c \in Chars PROVE Escaped(c) \in Seq(Chars)
    OBVIOUS
  <2>1. <<Backslash, c>> \in Seq(Chars) /\ <<c>> \in Seq(Chars)
    <3>1. Backslash \in Chars
      BY DEF Chars
    <3>. QED  BY <3>1
  <2>. QED  BY <2>1 DEF Escaped
<1>3. Pieces(chars) = [i \in 1..Len(chars) |-> Escaped(chars[i])]
  BY <1>1 DEF Pieces
<1>4. \A i \in 1..Len(chars) : Escaped(chars[i]) \in Seq(Chars)
  BY <1>1, <1>2
<1>. QED  BY <1>1, <1>3, <1>4

\* The scanner inverts the quoting.
LEMMA QuotedIsRead ==
    ASSUME NEW chars \in Seq(Chars), NEW at, at = Scan(Quote(chars) \o <<Bracket>>)
    PROVE  at.stop /\ at.data = chars
<1>. DEFINE F    == FlattenSeq(Pieces(chars))
            text == Quote(chars) \o <<Bracket>>
            To(k) == 1 + Len(FlatTo(Pieces(chars), k))
<1>1. F \in Seq(Chars) /\ Len(chars) \in Nat /\ Len(F) \in Nat /\ F = FlatTo(Pieces(chars), Len(chars))
  BY PiecesAre, FlatIsFlatTo
<1>2. Quote(chars) = <<Quotation>> \o F \o <<Quotation>>
  BY DEF Quote, Pieces
<1>3. <<Quotation>> \in Seq(Chars) /\ <<Bracket>> \in Seq(Chars)
  <2>1. Quotation \in Chars /\ Bracket \in Chars
    BY DEF Chars
  <2>. QED  BY <2>1
<1>. HIDE DEF F
<1>4. /\ text \in Seq(Chars) /\ Len(text) = 3 + Len(F) /\ Stands(text, F, 1)
      /\ text[1] = Quotation /\ text[2 + Len(F)] = Quotation /\ text[3 + Len(F)] = Bracket
  <2>. DEFINE U == <<Quotation>> \o F
              V == U \o <<Quotation>>
  <2>1. text = V \o <<Bracket>>
    BY <1>2
  <2>2. U \in Seq(Chars) /\ Len(U) = 1 + Len(F) /\ U[1] = Quotation /\ \A j \in 1..Len(F) : U[1 + j] = F[j]
    BY <1>1, <1>3
  <2>. HIDE DEF U
  <2>3. V \in Seq(Chars) /\ Len(V) = 2 + Len(F) /\ V[2 + Len(F)] = Quotation /\ \A j \in 1..Len(U) : V[j] = U[j]
    BY <1>1, <1>3, <2>2
  <2>. HIDE DEF V, text
  <2>4. /\ text \in Seq(Chars) /\ Len(text) = 3 + Len(F) /\ text[3 + Len(F)] = Bracket
        /\ \A j \in 1..Len(V) : text[j] = V[j]
    BY <1>1, <1>3, <2>1, <2>3
  <2>5. text[1] = Quotation /\ text[2 + Len(F)] = Quotation
    <3>1. 1 \in 1..Len(U) /\ 1 \in 1..Len(V) /\ 2 + Len(F) \in 1..Len(V)
      BY <1>1, <2>2, <2>3
    <3>. QED  BY <2>2, <2>3, <2>4, <3>1
  <2>6. ASSUME NEW j \in 1..Len(F) PROVE text[1 + j] = F[j]
    <3>1. 1 + j \in 1..Len(U) /\ 1 + j \in 1..Len(V)
      BY <1>1, <2>2, <2>3
    <3>. QED  BY <2>2, <2>3, <2>4, <3>1
  <2>. QED  BY <1>1, <2>4, <2>5, <2>6 DEF Stands
<1>. HIDE DEF text
<1>5. ScanTo(text, 1) = Inside(<<>>)
  <2>1. ScanTo(text, 0) = Outside /\ ScanTo(text, 1) = ScanOne(ScanTo(text, 0), Quotation)
    BY <1>1, <1>4, ScanGoesOn
  <2>. QED  BY <2>1, Opens
<1>. DEFINE G == {k \in 0..Len(chars) : ScanTo(text, To(k)) = Inside(SubSeq(chars, 1, k))}
<1>6. 0 \in G
  <2>1. SubSeq(chars, 1, 0) = <<>>
    OBVIOUS
  <2>2. To(0) = 1
    BY DEF FlatTo
  <2>3. 0 \in 0..Len(chars)
    BY <1>1
  <2>. QED  BY <1>5, <2>1, <2>2, <2>3
<1>7. ASSUME NEW m \in 1..Len(chars), m - 1 \in G PROVE m \in G
  <2>1. ScanTo(text, To(m - 1)) = Inside(SubSeq(chars, 1, m - 1))
    BY <1>7
  <2>2. Stands(text, Escaped(chars[m]), To(m - 1)) /\ To(m - 1) \in Nat
        /\ To(m) = To(m - 1) + Len(Escaped(chars[m])) /\ Len(Escaped(chars[m])) \in Nat
    <3>1. Pieces(chars) \in Seq(Seq(Chars)) /\ m \in 1..Len(Pieces(chars)) /\ Pieces(chars)[m] = Escaped(chars[m])
      BY PiecesAre
    <3>2. 1 \in Nat /\ Stands(text, FlattenSeq(Pieces(chars)), 1)
      BY <1>4 DEF F
    <3>3. /\ Stands(text, Escaped(chars[m]), 1 + Len(FlatTo(Pieces(chars), m - 1)))
          /\ Len(FlatTo(Pieces(chars), m - 1)) \in Nat /\ Len(Escaped(chars[m])) \in Nat
          /\ Len(FlatTo(Pieces(chars), m)) = Len(FlatTo(Pieces(chars), m - 1)) + Len(Escaped(chars[m]))
      BY <1>4, <3>1, <3>2, FlatStands
    <3>. QED  BY <3>3
  <2>3. chars[m] \in Chars
    OBVIOUS
  <2>. HIDE DEF To
  <2>4. ScanTo(text, To(m)) = Inside(Append(SubSeq(chars, 1, m - 1), chars[m]))
    BY <1>4, <2>1, <2>2, <2>3, PieceIsRead
  <2>5. Append(SubSeq(chars, 1, m - 1), chars[m]) = SubSeq(chars, 1, m)
    BY <1>1
  <2>6. m \in 0..Len(chars)
    BY <1>1
  <2>. QED  BY <2>4, <2>5, <2>6
<1>8. ScanTo(text, 1 + Len(F)) = Inside(chars)
  <2>1. \A k \in 0..Len(chars) : k \in G
    <3>. HIDE DEF G
    <3>. QED  BY <1>1, <1>6, <1>7, Upwards
  <2>2. Len(chars) \in G
    BY <1>1, <2>1
  <2>3. SubSeq(chars, 1, Len(chars)) = chars
    OBVIOUS
  <2>. QED  BY <1>1, <2>2, <2>3
<1>9. ScanTo(text, 2 + Len(F)) = Behind(chars)
  <2>1. ScanTo(text, 2 + Len(F)) = ScanOne(Inside(chars), Quotation)
    <3>1. 2 + Len(F) \in 1..Len(text) /\ (2 + Len(F)) - 1 = 1 + Len(F) /\ Len(text) \in Nat
      BY <1>1, <1>4
    <3>. QED  BY <1>4, <1>8, <3>1, ScanGoesOn
  <2>. QED  BY <2>1, Closes 
<1>10. Scan(text) = [data |-> chars, escape |-> FALSE, inside |-> FALSE, stop |-> TRUE]
  <2>1. Scan(text) = ScanOne(ScanTo(text, 2 + Len(F)), Bracket)
    <3>1. 3 + Len(F) \in 1..Len(text) /\ (3 + Len(F)) - 1 = 2 + Len(F) /\ Len(text) \in Nat
      BY <1>1, <1>4
    <3>. QED  BY <1>4, <3>1, ScanGoesOn
  <2>. QED  BY <1>9, <2>1, Ends 
<1>. QED  BY <1>10 DEF text

\* ScanInvertsQuote, for any number of characters.
THEOREM EveryTextIsRead == Spec => []ScanInvertsQuote
<1>1. ScanInvertsQuote
  <2>1. BoundedSeq({Quotation, Backslash, Bracket, Letter, Blank}, MaxChars) \subseteq Seq(Chars)
    BY DEF BoundedSeq, SeqOf, Chars
  <2>. QED  BY <2>1, QuotedIsRead DEF ScanInvertsQuote
<1>. QED  BY <1>1, PTL

-------------------------------------------------------------------------------
(* Places in a tree.                                                         *)

\* The function that At defines: the node behind the first i steps.
AtFirst(node, place) == node
AtNext(prev, node, place, i) == prev.elements[place[i]]
AtIs(f, node, place, n) == f = [i \in 0..n |-> IF i = 0 THEN AtFirst(node, place) ELSE AtNext(f[i - 1], node, place, i)]

LEMMA AtExists == ASSUME NEW node, NEW place, NEW n \in Nat PROVE \E f : AtIs(f, node, place, n)
<1>. DEFINE G == {m \in 0..n : \E f : AtIs(f, node, place, m)}
<1>1. 0 \in G
  <2>. DEFINE f == [i \in 0..0 |-> AtFirst(node, place)]
  <2>1. \A i \in 0..0 : i = 0
    OBVIOUS
  <2>2. AtIs(f, node, place, 0)
    BY <2>1 DEF AtIs
  <2>. HIDE DEF f
  <2>. QED  BY <2>2
<1>2. ASSUME NEW m \in 1..n, m - 1 \in G PROVE m \in G
  <2>1. PICK g : AtIs(g, node, place, m - 1)
    BY <1>2
  <2>. DEFINE f == [i \in 0..m |-> IF i = m THEN AtNext(g[m - 1], node, place, m) ELSE g[i]]
  <2>2. ASSUME NEW i \in 0..m PROVE f[i] = IF i = 0 THEN AtFirst(node, place) ELSE AtNext(f[i - 1], node, place, i)
    <3>1. i # 0 => i - 1 \in 0..m /\ i - 1 # m
      OBVIOUS
    <3>2. CASE i = m
      BY <3>1, <3>2
    <3>3. CASE i # m
      <4>1. i \in 0..(m - 1)
        BY <3>3
      <4>2. g[i] = IF i = 0 THEN AtFirst(node, place) ELSE AtNext(g[i - 1], node, place, i)
        BY <2>1, <4>1 DEF AtIs
      <4>. QED  BY <3>1, <3>3, <4>2
    <3>. QED  BY <3>2, <3>3
  <2>3. f = [i \in 0..m |-> f[i]]
    OBVIOUS
  <2>. HIDE DEF f
  <2>4. AtIs(f, node, place, m)
    BY <2>2, <2>3 DEF AtIs
  <2>5. m \in 0..n
    OBVIOUS
  <2>. QED  BY <2>4, <2>5
<1>3. \A m \in 0..n : m \in G
  <2>. HIDE DEF G
  <2>. QED  BY <1>1, <1>2, Upwards
<1>4. n \in G
  BY <1>3
<1>. QED  BY <1>4

AtTo(node, place, k) == (CHOOSE f : AtIs(f, node, place, Len(place)))[k]

AtSteps(node, place) ==
    \A i \in 1..Len(place) : AtTo(node, place, i) = AtTo(node, place, i - 1).elements[place[i]]

LEMMA AtGoesOn ==
    ASSUME NEW node, NEW place, Len(place) \in Nat
    PROVE  /\ At(node, place) = AtTo(node, place, Len(place))
           /\ AtTo(node, place, 0) = node
           /\ AtSteps(node, place)
<1>1. At(node, place) = AtTo(node, place, Len(place))
  BY DEF At, AtTo, AtIs, AtFirst, AtNext
<1>. DEFINE f == CHOOSE f : AtIs(f, node, place, Len(place))
<1>2. AtIs(f, node, place, Len(place))
  BY AtExists
<1>3. \A i \in 0..Len(place) : AtTo(node, place, i) = f[i]
  BY DEF AtTo
<1>. HIDE DEF f
<1>4. f[0] = node /\ \A i \in 1..Len(place) : f[i] = f[i - 1].elements[place[i]]
  BY <1>2 DEF AtIs, AtFirst, AtNext
<1>5. ASSUME NEW i \in 1..Len(place)
      PROVE  AtTo(node, place, i) = AtTo(node, place, i - 1).elements[place[i]]
  <2>1. i \in 0..Len(place) /\ i - 1 \in 0..Len(place)
    OBVIOUS
  <2>2. AtTo(node, place, i) = f[i] /\ AtTo(node, place, i - 1) = f[i - 1]
    BY <1>3, <2>1
  <2>. QED  BY <1>4, <2>2
<1>6. 0 \in 0..Len(place)
  OBVIOUS
<1>. QED  BY <1>1, <1>3, <1>4, <1>5, <1>6 DEF AtSteps

LEMMA AtStep ==
    ASSUME NEW node, NEW place, Len(place) \in Nat, NEW i \in 1..Len(place)
    PROVE  AtTo(node, place, i) = AtTo(node, place, i - 1).elements[place[i]]
<1>1. AtSteps(node, place)
  BY AtGoesOn
<1>. QED  BY <1>1 DEF AtSteps

AllPlaces == Seq(Nat)

LEMMA PlaceParts ==
    ASSUME NEW i \in Nat, NEW q \in AllPlaces
    PROVE  /\ <<i>> \o q \in AllPlaces /\ Len(<<i>> \o q) = 1 + Len(q) /\ Len(q) \in Nat
           /\ (<<i>> \o q)[1] = i /\ \A k \in 1..Len(q) : (<<i>> \o q)[1 + k] = q[k]
<1>1. <<i>> \in Seq(Nat) /\ q \in Seq(Nat) /\ Len(<<i>>) = 1 /\ <<i>>[1] = i
  BY DEF AllPlaces
<1>. QED  BY <1>1 DEF AllPlaces

\* What holds of the root and of every place behind one step holds of every place.
LEMMA EveryPlace ==
    ASSUME NEW G, <<>> \in G, \A i \in Nat : \A q \in AllPlaces : q \in G => <<i>> \o q \in G
    PROVE  \A p \in AllPlaces : p \in G
<1>. SUFFICES ASSUME NEW p \in AllPlaces PROVE p \in G
  OBVIOUS
<1>0. p \in Seq(Nat) /\ Len(p) \in Nat
  BY DEF AllPlaces
<1>. DEFINE Rest(n) == SubSeq(p, Len(p) - n + 1, Len(p))
            H       == {n \in 0..Len(p) : Rest(n) \in G}
<1>1. 0 \in H
  <2>1. Rest(0) = SubSeq(p, Len(p) + 1, Len(p)) /\ Rest(0) = <<>>
    <3>1. Len(p) - 0 + 1 = Len(p) + 1
      BY <1>0
    <3>2. SubSeq(p, Len(p) + 1, Len(p)) = <<>>
      BY <1>0, SubSeqEmpty
    <3>. QED  BY <3>1, <3>2
  <2>2. 0 \in 0..Len(p)
    BY <1>0
  <2>3. Rest(0) \in G
    BY <2>1
  <2>. HIDE DEF Rest
  <2>. QED  BY <2>2, <2>3
<1>2. ASSUME NEW m \in 1..Len(p), m - 1 \in H PROVE m \in H
  <2>. DEFINE i == p[Len(p) - m + 1]
  <2>1. i \in Nat /\ Rest(m - 1) \in AllPlaces
    BY <1>0 DEF AllPlaces
  <2>2. Rest(m) = <<i>> \o Rest(m - 1)
    BY <1>0
  <2>3. Rest(m - 1) \in G /\ m \in 0..Len(p)
    BY <1>0, <1>2
  <2>. QED  BY <2>1, <2>2, <2>3
<1>3. \A n \in 0..Len(p) : n \in H
  <2>. HIDE DEF H
  <2>. QED  BY <1>0, <1>1, <1>2, Upwards
<1>4. Rest(Len(p)) \in G
  BY <1>0, <1>3
<1>5. Rest(Len(p)) = p
  BY <1>0
<1>. QED  BY <1>4, <1>5

LEMMA AtRoot == ASSUME NEW node PROVE At(node, <<>>) = node
<1>1. Len(<<>>) = 0 /\ Len(<<>>) \in Nat
  OBVIOUS
<1>. QED  BY <1>1, AtGoesOn

LEMMA AtToChild ==
    ASSUME NEW node, NEW i \in Nat, NEW q \in AllPlaces
    PROVE  \A k \in 0..Len(q) : AtTo(node, <<i>> \o q, 1 + k) = AtTo(node.elements[i], q, k)
<1>. DEFINE p == <<i>> \o q
            child == node.elements[i]
            G == {k \in 0..Len(q) : AtTo(node, p, 1 + k) = AtTo(child, q, k)}
<1>0. /\ Len(p) = 1 + Len(q) /\ Len(q) \in Nat /\ Len(p) \in Nat
      /\ p[1] = i /\ \A k \in 1..Len(q) : p[1 + k] = q[k]
  BY PlaceParts
<1>a. child = node.elements[i]
  OBVIOUS
<1>b. AtSteps(node, p) /\ AtTo(node, p, 0) = node /\ AtSteps(child, q) /\ AtTo(child, q, 0) = child
  <2>. HIDE DEF p, child
  <2>. QED  BY <1>0, AtGoesOn
<1>. HIDE DEF p, child
<1>1. 0 \in G
  <2>1. 1 \in 1..Len(p) /\ 1 - 1 = 0 /\ 0 \in 0..Len(q) /\ 1 + 0 = 1
    BY <1>0
  <2>2. AtTo(node, p, 1) = AtTo(node, p, 1 - 1).elements[p[1]]
    BY <1>b, <2>1 DEF AtSteps
  <2>3. AtTo(node, p, 1) = child
    BY <1>0, <1>a, <1>b, <2>1, <2>2
  <2>. QED  BY <1>b, <2>1, <2>3
<1>2. ASSUME NEW m \in 1..Len(q), m - 1 \in G PROVE m \in G
  <2>1. AtTo(node, p, 1 + (m - 1)) = AtTo(child, q, m - 1) /\ m \in 0..Len(q)
    BY <1>0, <1>2
  <2>2. 1 + m \in 1..Len(p) /\ (1 + m) - 1 = 1 + (m - 1)
    BY <1>0
  <2>3. AtTo(node, p, 1 + m) = AtTo(node, p, 1 + (m - 1)).elements[p[1 + m]]
    BY <1>b, <2>2 DEF AtSteps
  <2>4. AtTo(child, q, m) = AtTo(child, q, m - 1).elements[q[m]]
    BY <1>b DEF AtSteps
  <2>. QED  BY <1>0, <2>1, <2>3, <2>4
<1>3. \A k \in 0..Len(q) : k \in G
  <2>. HIDE DEF G
  <2>. QED  BY <1>0, <1>1, <1>2, Upwards
<1>. QED  BY <1>3 DEF p, child

LEMMA AtChild ==
    ASSUME NEW node, NEW i \in Nat, NEW q \in AllPlaces
    PROVE  At(node, <<i>> \o q) = At(node.elements[i], q)
<1>1. Len(<<i>> \o q) = 1 + Len(q) /\ Len(q) \in Nat /\ Len(q) \in 0..Len(q) /\ Len(<<i>> \o q) \in Nat
  BY PlaceParts
<1>. DEFINE p == <<i>> \o q
<1>2. At(node, p) = AtTo(node, p, Len(p))
  <2>. HIDE DEF p
  <2>. QED  BY <1>1, AtGoesOn DEF p
<1>3. At(node.elements[i], q) = AtTo(node.elements[i], q, Len(q))
  BY <1>1, AtGoesOn
<1>. QED  BY <1>1, <1>2, <1>3, AtToChild

\* A place is in a tree if every step leads to an element.
InTree(node, place) ==
    \A k \in 1..Len(place) : place[k] \in 1..Len(AtTo(node, place, k - 1).elements)

LEMMA RootInTree == ASSUME NEW node PROVE InTree(node, <<>>)
  BY DEF InTree

LEMMA ChildInTree ==
    ASSUME NEW node, NEW i \in Nat, NEW q \in AllPlaces
    PROVE  InTree(node, <<i>> \o q) <=> i \in 1..Len(node.elements) /\ InTree(node.elements[i], q)
<1>. DEFINE p == <<i>> \o q
<1>0. /\ Len(p) = 1 + Len(q) /\ Len(q) \in Nat /\ Len(p) \in Nat
      /\ p[1] = i /\ \A k \in 1..Len(q) : p[1 + k] = q[k]
  BY PlaceParts
<1>1. \A k \in 0..Len(q) : AtTo(node, p, 1 + k) = AtTo(node.elements[i], q, k)
  BY AtToChild
<1>. HIDE DEF p
<1>2. AtTo(node, p, 0) = node
  BY <1>0, AtGoesOn
<1>3. ASSUME InTree(node, p) PROVE i \in 1..Len(node.elements) /\ InTree(node.elements[i], q)
  <2>1. 1 \in 1..Len(p) /\ 1 - 1 = 0
    BY <1>0
  <2>2. i \in 1..Len(node.elements)
    BY <1>0, <1>2, <1>3, <2>1 DEF InTree
  <2>3. ASSUME NEW k \in 1..Len(q) PROVE q[k] \in 1..Len(AtTo(node.elements[i], q, k - 1).elements)
    <3>1. 1 + k \in 1..Len(p) /\ (1 + k) - 1 = 1 + (k - 1) /\ k - 1 \in 0..Len(q)
      BY <1>0
    <3>2. p[1 + k] \in 1..Len(AtTo(node, p, 1 + (k - 1)).elements)
      BY <1>3, <3>1 DEF InTree
    <3>. QED  BY <1>0, <1>1, <3>1, <3>2
  <2>. QED  BY <2>2, <2>3 DEF InTree
<1>4. ASSUME i \in 1..Len(node.elements), InTree(node.elements[i], q) PROVE InTree(node, p)
  <2>1. ASSUME NEW k \in 1..Len(p) PROVE p[k] \in 1..Len(AtTo(node, p, k - 1).elements)
    <3>1. CASE k = 1
      <4>1. k - 1 = 0
        BY <3>1
      <4>. QED  BY <1>0, <1>2, <1>4, <3>1, <4>1
    <3>2. CASE k # 1
      <4>. DEFINE j == k - 1
      <4>1. j \in 1..Len(q) /\ k = 1 + j /\ k - 1 = 1 + (j - 1) /\ j - 1 \in 0..Len(q)
        BY <1>0, <3>2
      <4>2. q[j] \in 1..Len(AtTo(node.elements[i], q, j - 1).elements)
        BY <1>4, <4>1 DEF InTree
      <4>. HIDE DEF j
      <4>. QED  BY <1>0, <1>1, <4>1, <4>2
    <3>. QED  BY <3>1, <3>2
  <2>. QED  BY <2>1 DEF InTree
<1>. QED  BY <1>3, <1>4 DEF p

-------------------------------------------------------------------------------
(* The levels of a tree.                                                     *)

\* The function that Trees defines.
TreesNext(prev, i) == 
    [name : STRING, type : {Object, Array, Value}, value : STRING, quoted : BOOLEAN,
     elements : IF i = 0 THEN {<<>>} ELSE Seq(prev)]
TreesIs(f, n) == f = [i \in 0..n |-> TreesNext(f[i - 1], i)]

LEMMA TreesExists ==
    ASSUME NEW n \in Nat, \A x, y : TreesNext(x, 0) = TreesNext(y, 0)
    PROVE  \E f : TreesIs(f, n)
<1>. DEFINE G == {m \in 0..n : \E f : TreesIs(f, m)}
<1>1. 0 \in G
  <2>. DEFINE f == [i \in 0..0 |-> TreesNext(0, 0)]
  <2>1. \A i \in 0..0 : i = 0 /\ f[i] = TreesNext(f[i - 1], i)
    OBVIOUS
  <2>2. f = [i \in 0..0 |-> f[i]]
    OBVIOUS
  <2>. HIDE DEF f
  <2>3. TreesIs(f, 0)
    BY <2>1, <2>2 DEF TreesIs
  <2>. QED  BY <2>3
<1>2. ASSUME NEW m \in 1..n, m - 1 \in G PROVE m \in G
  <2>1. PICK g : TreesIs(g, m - 1)
    BY <1>2
  <2>. DEFINE f == [i \in 0..m |-> IF i = m THEN TreesNext(g[m - 1], m) ELSE g[i]]
  <2>2. ASSUME NEW i \in 0..m PROVE f[i] = TreesNext(f[i - 1], i)
    <3>1. i # 0 => i - 1 \in 0..m /\ i - 1 # m
      OBVIOUS
    <3>2. CASE i = m
      BY <3>1, <3>2
    <3>3. CASE i # m
      <4>1. i \in 0..(m - 1)
        BY <3>3
      <4>2. g[i] = TreesNext(g[i - 1], i)
        BY <2>1, <4>1 DEF TreesIs
      <4>3. CASE i = 0
        BY <3>3, <4>2, <4>3
      <4>4. CASE i # 0
        BY <3>1, <3>3, <4>2, <4>4
      <4>. QED  BY <4>3, <4>4
    <3>. QED  BY <3>2, <3>3
  <2>3. f = [i \in 0..m |-> f[i]]
    OBVIOUS
  <2>. HIDE DEF f
  <2>4. TreesIs(f, m)
    BY <2>2, <2>3 DEF TreesIs
  <2>5. m \in 0..n
    OBVIOUS
  <2>. QED  BY <2>4, <2>5
<1>3. \A m \in 0..n : m \in G
  <2>. HIDE DEF G
  <2>. QED  BY <1>1, <1>2, Upwards
<1>4. n \in G
  BY <1>3
<1>. QED  BY <1>4

Nodes(S) ==
    [name : STRING, type : {Object, Array, Value}, value : STRING, quoted : BOOLEAN, elements : S]

LEMMA TreesGoOn ==
    ASSUME DepthAssumption
    PROVE  /\ 0 \in 0..MaxDepth /\ Trees[0] = Nodes({<<>>})
           /\ \A h \in 1..MaxDepth : h \in 0..MaxDepth /\ h - 1 \in 0..MaxDepth /\ Trees[h] = Nodes(Seq(Trees[h - 1]))
<1>0. MaxDepth \in Nat
  BY DEF DepthAssumption
<1>1. \A x, y : TreesNext(x, 0) = TreesNext(y, 0)
  BY DEF TreesNext
<1>2. TreesIs(Trees, MaxDepth)
  <2>1. \E f : TreesIs(f, MaxDepth)
    BY <1>0, <1>1, TreesExists
  <2>2. Trees = CHOOSE f : TreesIs(f, MaxDepth)
    BY DEF Trees, TreesIs, TreesNext
  <2>. QED  BY <2>1, <2>2
<1>3. \A h \in 0..MaxDepth : Trees[h] = TreesNext(Trees[h - 1], h)
  BY <1>2 DEF TreesIs
<1>4. Trees[0] = Nodes({<<>>})
  <2>1. Trees[0] = TreesNext(Trees[0 - 1], 0)
    BY <1>0, <1>3
  <2>. QED  BY <2>1 DEF TreesNext, Nodes
<1>5. ASSUME NEW h \in 1..MaxDepth
      PROVE  h \in 0..MaxDepth /\ h - 1 \in 0..MaxDepth /\ Trees[h] = Nodes(Seq(Trees[h - 1]))
  <2>1. h \in 0..MaxDepth /\ h - 1 \in 0..MaxDepth /\ h # 0
    BY <1>0
  <2>2. Trees[h] = TreesNext(Trees[h - 1], h)
    BY <1>3, <2>1
  <2>. QED  BY <2>1, <2>2 DEF TreesNext, Nodes
<1>. QED  BY <1>0, <1>4, <1>5

LEMMA NodeParts ==
    ASSUME NEW S, NEW x \in Nodes(S)
    PROVE  /\ x = Node(x.name, x.type, x.value, x.quoted, x.elements)
           /\ x.name \in STRING /\ x.type \in {Object, Array, Value} /\ x.value \in STRING
           /\ x.quoted \in BOOLEAN /\ x.elements \in S
  BY DEF Nodes, Node

\* A tree is one with more levels as well.
LEMMA TreesGrow == ASSUME DepthAssumption PROVE \A h \in 1..MaxDepth : Trees[h - 1] \subseteq Trees[h]
<1>. DEFINE G == {h \in 0..MaxDepth : h = 0 \/ Trees[h - 1] \subseteq Trees[h]}
<1>0. MaxDepth \in Nat
  BY DEF DepthAssumption
<1>1. 0 \in G
  BY <1>0
<1>2. ASSUME NEW m \in 1..MaxDepth, m - 1 \in G PROVE m \in G
  <2>1. m \in 0..MaxDepth /\ m - 1 \in 0..MaxDepth /\ Trees[m] = Nodes(Seq(Trees[m - 1]))
    BY TreesGoOn
  <2>2. CASE m - 1 = 0
    <3>1. Trees[m - 1] = Nodes({<<>>})
      BY <2>2, TreesGoOn
    <3>2. <<>> \in Seq(Trees[m - 1])
      OBVIOUS
    <3>3. Nodes({<<>>}) \subseteq Nodes(Seq(Trees[m - 1]))
      BY <3>2 DEF Nodes
    <3>. QED  BY <2>1, <3>1, <3>3
  <2>3. CASE m - 1 # 0
    <3>1. Trees[(m - 1) - 1] \subseteq Trees[m - 1]
      BY <1>2, <2>3
    <3>2. m - 1 \in 1..MaxDepth
      BY <2>1, <2>3
    <3>3. Trees[m - 1] = Nodes(Seq(Trees[(m - 1) - 1]))
      BY <3>2, TreesGoOn
    <3>4. Seq(Trees[(m - 1) - 1]) \subseteq Seq(Trees[m - 1])
      BY <3>1
    <3>5. Nodes(Seq(Trees[(m - 1) - 1])) \subseteq Nodes(Seq(Trees[m - 1]))
      BY <3>4 DEF Nodes
    <3>. QED  BY <2>1, <3>3, <3>5
  <2>. QED  BY <2>2, <2>3
<1>3. \A h \in 0..MaxDepth : h \in G
  <2>. HIDE DEF G
  <2>. QED  BY <1>0, <1>1, <1>2, Upwards
<1>4. ASSUME NEW h \in 1..MaxDepth PROVE Trees[h - 1] \subseteq Trees[h]
  <2>1. h \in 0..MaxDepth /\ h # 0
    BY <1>0
  <2>. QED  BY <1>3, <2>1
<1>. QED  BY <1>4

\* The elements of a document are documents.
LEMMA DocumentParts ==
    ASSUME DepthAssumption, NEW x \in Documents
    PROVE  /\ x = Node(x.name, x.type, x.value, x.quoted, x.elements)
           /\ x.name \in STRING /\ x.type \in {Object, Array, Value} /\ x.value \in STRING
           /\ x.quoted \in BOOLEAN /\ x.elements \in Seq(Documents)
<1>0. MaxDepth \in Nat
  BY DEF DepthAssumption
<1>1. CASE MaxDepth = 0
  <2>1. x \in Nodes({<<>>})
    BY <1>1, TreesGoOn DEF Documents
  <2>2. <<>> \in Seq(Documents)
    OBVIOUS
  <2>. QED  BY <2>1, <2>2, NodeParts
<1>2. CASE MaxDepth # 0
  <2>1. MaxDepth \in 1..MaxDepth
    BY <1>0, <1>2
  <2>2. Documents = Nodes(Seq(Trees[MaxDepth - 1])) /\ Trees[MaxDepth - 1] \subseteq Documents
    BY <2>1, TreesGoOn, TreesGrow DEF Documents
  <2>3. x.elements \in Seq(Trees[MaxDepth - 1]) => x.elements \in Seq(Documents)
    BY <2>2
  <2>. QED  BY <2>2, <2>3, NodeParts
<1>. QED  BY <1>1, <1>2

\* What goes on from the elements of a document to the document holds of every one.
LEMMA EveryDocument ==
    ASSUME DepthAssumption, NEW G,
           \A x \in Documents : (\A i \in 1..Len(x.elements) : x.elements[i] \in G) => x \in G
    PROVE  \A x \in Documents : x \in G
<1>. DEFINE H == {h \in 0..MaxDepth : Trees[h] \subseteq G /\ Trees[h] \subseteq Documents}
<1>0. MaxDepth \in Nat
  BY DEF DepthAssumption
<1>a. \A h \in 0..MaxDepth : Trees[h] \subseteq Documents
  <2>. DEFINE J == {d \in 0..MaxDepth : Trees[MaxDepth - d] \subseteq Documents}
  <2>1. 0 \in J
    BY <1>0 DEF Documents
  <2>2. ASSUME NEW m \in 1..MaxDepth, m - 1 \in J PROVE m \in J
    <3>. DEFINE h == MaxDepth - (m - 1)
    <3>1. h \in 1..MaxDepth /\ h - 1 = MaxDepth - m /\ m \in 0..MaxDepth
      BY <1>0
    <3>2. Trees[h] \subseteq Documents
      BY <2>2
    <3>. HIDE DEF h
    <3>3. Trees[h - 1] \subseteq Documents
      BY <3>1, <3>2, TreesGrow
    <3>. QED  BY <3>1, <3>3
  <2>3. \A d \in 0..MaxDepth : d \in J
    <3>. HIDE DEF J
    <3>. QED  BY <1>0, <2>1, <2>2, Upwards
  <2>4. ASSUME NEW h \in 0..MaxDepth PROVE Trees[h] \subseteq Documents
    <3>1. MaxDepth - h \in 0..MaxDepth /\ MaxDepth - (MaxDepth - h) = h
      BY <1>0
    <3>. QED  BY <2>3, <3>1
  <2>. QED  BY <2>4
<1>1. Trees[0] \subseteq G
  <2>. SUFFICES ASSUME NEW x \in Trees[0] PROVE x \in G
    OBVIOUS
  <2>1. x \in Nodes({<<>>}) /\ x \in Documents
    BY <1>a, TreesGoOn
  <2>2. x.elements = <<>>
    BY <2>1, NodeParts
  <2>3. Len(x.elements) = 0
    BY <2>2
  <2>4. \A i \in 1..Len(x.elements) : x.elements[i] \in G
    BY <2>3
  <2>. QED  BY <2>1, <2>4
<1>2. ASSUME NEW m \in 1..MaxDepth, m - 1 \in H PROVE m \in H
  <2>1. m \in 0..MaxDepth /\ Trees[m] = Nodes(Seq(Trees[m - 1])) /\ Trees[m - 1] \subseteq G
    BY <1>2, TreesGoOn
  <2>2. ASSUME NEW x \in Trees[m] PROVE x \in G
    <3>1. x.elements \in Seq(Trees[m - 1]) /\ x \in Documents
      BY <1>a, <2>1, NodeParts
    <3>2. \A i \in 1..Len(x.elements) : x.elements[i] \in G
      BY <2>1, <3>1
    <3>. QED  BY <3>1, <3>2
  <2>. QED  BY <1>a, <2>1, <2>2
<1>3. \A h \in 0..MaxDepth : h \in H
  <2>1. 0 \in H
    BY <1>a, <1>0, <1>1
  <2>. HIDE DEF H
  <2>. QED  BY <1>0, <1>2, <2>1, Upwards
<1>4. MaxDepth \in H
  BY <1>0, <1>3
<1>. QED  BY <1>4 DEF Documents

-------------------------------------------------------------------------------
(* The places of a document.                                                 *)

PlacesIn(node) == {p \in AllPlaces : InTree(node, p)}

\* A place is the root, or it is behind a first step.
LEMMA PlaceSplits ==
    ASSUME NEW p \in AllPlaces, p # <<>>
    PROVE  \E i \in Nat : \E q \in AllPlaces : p = <<i>> \o q
<1>. DEFINE G == {r \in AllPlaces : r = <<>> \/ \E i \in Nat : \E q \in AllPlaces : r = <<i>> \o q}
<1>1. <<>> \in G
  BY DEF AllPlaces
<1>2. \A i \in Nat : \A q \in AllPlaces : q \in G => <<i>> \o q \in G
  BY PlaceParts
<1>3. \A r \in AllPlaces : r \in G
  <2>. HIDE DEF G
  <2>. QED  BY <1>1, <1>2, EveryPlace
<1>4. p \in G
  BY <1>3
<1>. QED  BY <1>4

LEMMA PlacesSplit ==
    ASSUME NEW node, NEW S, node.elements \in Seq(S), NEW p
    PROVE  p \in PlacesIn(node) <=>
              p = <<>> \/ \E i \in DOMAIN node.elements : \E q \in PlacesIn(node.elements[i]) : p = <<i>> \o q
<1>0. DOMAIN node.elements = 1..Len(node.elements) /\ Len(node.elements) \in Nat
  OBVIOUS
<1>1. <<>> \in PlacesIn(node)
  BY RootInTree DEF PlacesIn, AllPlaces
<1>2. ASSUME NEW i \in DOMAIN node.elements, NEW q \in PlacesIn(node.elements[i]), p = <<i>> \o q
      PROVE  p \in PlacesIn(node)
  <2>1. i \in Nat /\ i \in 1..Len(node.elements) /\ q \in AllPlaces /\ InTree(node.elements[i], q)
    BY <1>0 DEF PlacesIn
  <2>2. <<i>> \o q \in AllPlaces /\ InTree(node, <<i>> \o q)
    BY <2>1, PlaceParts, ChildInTree
  <2>. QED  BY <1>2, <2>2 DEF PlacesIn
<1>3. ASSUME p \in PlacesIn(node), p # <<>>
      PROVE  \E i \in DOMAIN node.elements : \E q \in PlacesIn(node.elements[i]) : p = <<i>> \o q
  <2>1. p \in AllPlaces /\ InTree(node, p)
    BY <1>3 DEF PlacesIn
  <2>2. PICK i \in Nat : \E q \in AllPlaces : p = <<i>> \o q
    BY <1>3, <2>1, PlaceSplits
  <2>3. PICK q \in AllPlaces : p = <<i>> \o q
    BY <2>2
  <2>4. i \in 1..Len(node.elements) /\ InTree(node.elements[i], q)
    BY <2>1, <2>3, ChildInTree
  <2>5. q \in PlacesIn(node.elements[i]) /\ i \in DOMAIN node.elements
    BY <1>0, <2>4 DEF PlacesIn
  <2>. QED  BY <2>3, <2>5
<1>. QED  BY <1>1, <1>2, <1>3

Stepped(places, node, p) ==
    \E i \in DOMAIN node.elements : \E q \in places[node.elements[i]] : p = <<i>> \o q

LEMMA BelowIs ==
    ASSUME NEW places, NEW node, NEW p
    PROVE  p \in Below(places, node) <=> p = <<>> \/ Stepped(places, node, p)
<1>. DEFINE D == DOMAIN node.elements
            A(i) == places[node.elements[i]]
            B(i) == {<<i>> \o q : q \in A(i)}
<1>1. Below(places, node) = {<<>>} \cup UNION {B(i) : i \in D}
  BY DEF Below
<1>2. \A i : p \in B(i) <=> \E q \in A(i) : p = <<i>> \o q
  OBVIOUS
<1>. HIDE DEF A, B, D
<1>3. p \in UNION {B(i) : i \in D} <=> \E i \in D : p \in B(i)
  OBVIOUS
<1>4. p \in Below(places, node) <=> p = <<>> \/ \E i \in D : \E q \in A(i) : p = <<i>> \o q
  BY <1>1, <1>2, <1>3
<1>. QED  BY <1>4 DEF A, D, Stepped

\* The function that PlacesOf defines.
PlacesOfNext(prev, i) == [node \in Trees[i] |-> Below(prev, node)]
PlacesOfIs(f, n) == f = [i \in 0..n |-> PlacesOfNext(f[i - 1], i)]

LEMMA PlacesOfExists ==
    ASSUME NEW n \in Nat, \A x, y : PlacesOfNext(x, 0) = PlacesOfNext(y, 0)
    PROVE  \E f : PlacesOfIs(f, n)
<1>. DEFINE G == {m \in 0..n : \E f : PlacesOfIs(f, m)}
<1>1. 0 \in G
  <2>. DEFINE f == [i \in 0..0 |-> PlacesOfNext(0, 0)]
  <2>1. \A i \in 0..0 : i = 0 /\ f[i] = PlacesOfNext(f[i - 1], i)
    OBVIOUS
  <2>2. f = [i \in 0..0 |-> f[i]]
    OBVIOUS
  <2>. HIDE DEF f
  <2>3. PlacesOfIs(f, 0)
    BY <2>1, <2>2 DEF PlacesOfIs
  <2>. QED  BY <2>3
<1>2. ASSUME NEW m \in 1..n, m - 1 \in G PROVE m \in G
  <2>1. PICK g : PlacesOfIs(g, m - 1)
    BY <1>2
  <2>. DEFINE f == [i \in 0..m |-> IF i = m THEN PlacesOfNext(g[m - 1], m) ELSE g[i]]
  <2>2. ASSUME NEW i \in 0..m PROVE f[i] = PlacesOfNext(f[i - 1], i)
    <3>1. i # 0 => i - 1 \in 0..m /\ i - 1 # m
      OBVIOUS
    <3>2. CASE i = m
      BY <3>1, <3>2
    <3>3. CASE i # m
      <4>1. i \in 0..(m - 1)
        BY <3>3
      <4>2. g[i] = PlacesOfNext(g[i - 1], i)
        BY <2>1, <4>1 DEF PlacesOfIs
      <4>3. CASE i = 0
        BY <3>3, <4>2, <4>3
      <4>4. CASE i # 0
        BY <3>1, <3>3, <4>2, <4>4
      <4>. QED  BY <4>3, <4>4
    <3>. QED  BY <3>2, <3>3
  <2>3. f = [i \in 0..m |-> f[i]]
    OBVIOUS
  <2>. HIDE DEF f
  <2>4. PlacesOfIs(f, m)
    BY <2>2, <2>3 DEF PlacesOfIs
  <2>5. m \in 0..n
    OBVIOUS
  <2>. QED  BY <2>4, <2>5
<1>3. \A m \in 0..n : m \in G
  <2>. HIDE DEF G
  <2>. QED  BY <1>1, <1>2, Upwards
<1>4. n \in G
  BY <1>3
<1>. QED  BY <1>4


LEMMA PlacesGoOn ==
    ASSUME DepthAssumption
    PROVE  \A h \in 0..MaxDepth : PlacesOf[h] = PlacesOfNext(PlacesOf[h - 1], h)
<1>0. MaxDepth \in Nat
  BY DEF DepthAssumption
<1>1. ASSUME NEW f, NEW g PROVE PlacesOfNext(f, 0) = PlacesOfNext(g, 0)
  <2>1. ASSUME NEW node \in Trees[0] PROVE Below(f, node) = Below(g, node)
    <3>1. node.elements = <<>>
      BY TreesGoOn, NodeParts
    <3>2. DOMAIN node.elements = {}
      BY <3>1
    <3>3. \A p : p \in Below(f, node) <=> p \in Below(g, node)
      BY <3>2, BelowIs DEF Stepped
    <3>. QED  BY <3>3
  <2>. QED  BY <2>1 DEF PlacesOfNext
<1>2. PlacesOfIs(PlacesOf, MaxDepth)
  <2>1. \E f : PlacesOfIs(f, MaxDepth)
    BY <1>0, <1>1, PlacesOfExists
  <2>2. PlacesOf = CHOOSE f : PlacesOfIs(f, MaxDepth)
    BY DEF PlacesOf, PlacesOfIs, PlacesOfNext
  <2>. QED  BY <2>1, <2>2
<1>. QED  BY <1>2 DEF PlacesOfIs

LEMMA PlacesAre ==
    ASSUME DepthAssumption, NEW doc0 \in Documents
    PROVE  Places(doc0) = PlacesIn(doc0)
<1>. DEFINE G == {h \in 0..MaxDepth : \A x \in Trees[h] : PlacesOf[h][x] = PlacesIn(x)}
<1>0. MaxDepth \in Nat
  BY DEF DepthAssumption
<1>a. ASSUME NEW h \in 0..MaxDepth, NEW x \in Trees[h]
      PROVE  PlacesOf[h][x] = Below(PlacesOf[h - 1], x)
  <2>1. PlacesOf[h] = PlacesOfNext(PlacesOf[h - 1], h)
    BY PlacesGoOn
  <2>. QED  BY <2>1 DEF PlacesOfNext
<1>1. 0 \in G
  <2>1. ASSUME NEW x \in Trees[0] PROVE PlacesOf[0][x] = PlacesIn(x)
    <3>1. x.elements = <<>>
      BY TreesGoOn, NodeParts
    <3>2. DOMAIN x.elements = {} /\ x.elements \in Seq({}) /\ 0 \in 0..MaxDepth
      BY <1>0, <3>1
    <3>a. PlacesOf[0][x] = Below(PlacesOf[0 - 1], x)
      BY <1>a, <3>2
    <3>3. ASSUME NEW p PROVE p \in PlacesOf[0][x] <=> p = <<>>
      <4>. DEFINE e == PlacesOf[0 - 1]
      <4>. HIDE DEF e
      <4>1. p \in Below(e, x) <=> p = <<>> \/ Stepped(e, x, p)
        BY BelowIs
      <4>. QED  BY <3>a, <3>2, <4>1 DEF e, Stepped
    <3>4. \A p : p \in PlacesIn(x) <=> p = <<>>
      BY <3>2, PlacesSplit
    <3>. QED  BY <3>3, <3>4
  <2>. QED  BY <1>0, <2>1
<1>2. ASSUME NEW m \in 1..MaxDepth, m - 1 \in G PROVE m \in G
  <2>1. m \in 0..MaxDepth /\ Trees[m] = Nodes(Seq(Trees[m - 1])) /\ \A x \in Trees[m - 1] : PlacesOf[m - 1][x] = PlacesIn(x)
    BY <1>2, TreesGoOn
  <2>2. ASSUME NEW x \in Trees[m] PROVE PlacesOf[m][x] = PlacesIn(x)
    <3>1. x.elements \in Seq(Trees[m - 1])
      BY <2>1, NodeParts
    <3>2. \A k \in DOMAIN x.elements : x.elements[k] \in Trees[m - 1]
      BY <3>1
    <3>3. PlacesOf[m][x] = Below(PlacesOf[m - 1], x)
      BY <1>a, <2>1
    <3>4. \A p : p \in PlacesIn(x) <=> p = <<>> \/ \E i \in DOMAIN x.elements : \E q \in PlacesIn(x.elements[i]) : p = <<i>> \o q
      BY <3>1, PlacesSplit
    <3>5. \A k \in DOMAIN x.elements : PlacesOf[m - 1][x.elements[k]] = PlacesIn(x.elements[k])
      BY <2>1, <3>2
    <3>6. ASSUME NEW p PROVE p \in PlacesOf[m][x] <=> p \in PlacesIn(x)
      <4>1. p \in PlacesOf[m][x] <=>
              p = <<>> \/ \E i \in DOMAIN x.elements : \E q \in PlacesOf[m - 1][x.elements[i]] : p = <<i>> \o q
        <5>. DEFINE e == PlacesOf[m - 1]
        <5>. HIDE DEF e
        <5>1. p \in Below(e, x) <=> p = <<>> \/ Stepped(e, x, p)
          BY BelowIs
        <5>. QED  BY <3>3, <5>1 DEF e, Stepped
      <4>. QED  BY <3>4, <3>5, <4>1
    <3>. QED  BY <3>6
  <2>. QED  BY <2>1, <2>2
<1>3. \A h \in 0..MaxDepth : h \in G
  <2>. HIDE DEF G
  <2>. QED  BY <1>0, <1>1, <1>2, Upwards
<1>4. MaxDepth \in G
  BY <1>0, <1>3
<1>. QED  BY <1>4 DEF Documents, Places

-------------------------------------------------------------------------------
(* The text of a document.                                                   *)

\* The function that TextOf defines.
TextOfNext(prev, i) == [node \in Trees[i] |-> NodeText(prev, node)]
TextOfIs(f, n) == f = [i \in 0..n |-> TextOfNext(f[i - 1], i)]

LEMMA TextOfExists ==
    ASSUME NEW n \in Nat, \A x, y : TextOfNext(x, 0) = TextOfNext(y, 0)
    PROVE  \E f : TextOfIs(f, n)
<1>. DEFINE G == {m \in 0..n : \E f : TextOfIs(f, m)}
<1>1. 0 \in G
  <2>. DEFINE f == [i \in 0..0 |-> TextOfNext(0, 0)]
  <2>1. \A i \in 0..0 : i = 0 /\ f[i] = TextOfNext(f[i - 1], i)
    OBVIOUS
  <2>2. f = [i \in 0..0 |-> f[i]]
    OBVIOUS
  <2>. HIDE DEF f
  <2>3. TextOfIs(f, 0)
    BY <2>1, <2>2 DEF TextOfIs
  <2>. QED  BY <2>3
<1>2. ASSUME NEW m \in 1..n, m - 1 \in G PROVE m \in G
  <2>1. PICK g : TextOfIs(g, m - 1)
    BY <1>2
  <2>. DEFINE f == [i \in 0..m |-> IF i = m THEN TextOfNext(g[m - 1], m) ELSE g[i]]
  <2>2. ASSUME NEW i \in 0..m PROVE f[i] = TextOfNext(f[i - 1], i)
    <3>1. i # 0 => i - 1 \in 0..m /\ i - 1 # m
      OBVIOUS
    <3>2. CASE i = m
      BY <3>1, <3>2
    <3>3. CASE i # m
      <4>1. i \in 0..(m - 1)
        BY <3>3
      <4>2. g[i] = TextOfNext(g[i - 1], i)
        BY <2>1, <4>1 DEF TextOfIs
      <4>3. CASE i = 0
        BY <3>3, <4>2, <4>3
      <4>4. CASE i # 0
        BY <3>1, <3>3, <4>2, <4>4
      <4>. QED  BY <4>3, <4>4
    <3>. QED  BY <3>2, <3>3
  <2>3. f = [i \in 0..m |-> f[i]]
    OBVIOUS
  <2>. HIDE DEF f
  <2>4. TextOfIs(f, m)
    BY <2>2, <2>3 DEF TextOfIs
  <2>5. m \in 0..n
    OBVIOUS
  <2>. QED  BY <2>4, <2>5
<1>3. \A m \in 0..n : m \in G
  <2>. HIDE DEF G
  <2>. QED  BY <1>1, <1>2, Upwards
<1>4. n \in G
  BY <1>3
<1>. QED  BY <1>4


ChildTexts(texts, node) == [i \in DOMAIN node.elements |-> ChildText(texts, node, i)]

\* The texts of the elements are all that matters.
LEMMA NodeTextSame ==
    ASSUME NEW f, NEW g, NEW x,
           \A i \in DOMAIN x.elements : f[x.elements[i]] = g[x.elements[i]]
    PROVE  NodeText(f, x) = NodeText(g, x)
<1>1. \A i \in DOMAIN x.elements : ChildText(f, x, i) = ChildText(g, x, i)
  BY DEF ChildText
<1>2. ChildTexts(f, x) = ChildTexts(g, x)
  BY <1>1 DEF ChildTexts
<1>. QED  BY <1>2 DEF NodeText, ChildTexts

LEMMA TextGoesOn ==
    ASSUME DepthAssumption
    PROVE  \A h \in 0..MaxDepth : \A x \in Trees[h] : TextOf[h][x] = NodeText(TextOf[h - 1], x)
<1>0. MaxDepth \in Nat
  BY DEF DepthAssumption
<1>1. ASSUME NEW f, NEW g PROVE TextOfNext(f, 0) = TextOfNext(g, 0)
  <2>1. ASSUME NEW x \in Trees[0] PROVE NodeText(f, x) = NodeText(g, x)
    <3>1. x.elements = <<>>
      BY TreesGoOn, NodeParts
    <3>2. DOMAIN x.elements = {}
      BY <3>1
    <3>. QED  BY <3>2, NodeTextSame
  <2>. QED  BY <2>1 DEF TextOfNext
<1>2. TextOfIs(TextOf, MaxDepth)
  <2>1. \E f : TextOfIs(f, MaxDepth)
    BY <1>0, <1>1, TextOfExists
  <2>2. TextOf = CHOOSE f : TextOfIs(f, MaxDepth)
    BY DEF TextOf, TextOfIs, TextOfNext
  <2>. QED  BY <2>1, <2>2
<1>3. \A h \in 0..MaxDepth : TextOf[h] = TextOfNext(TextOf[h - 1], h)
  BY <1>2 DEF TextOfIs
<1>. QED  BY <1>3 DEF TextOfNext

\* One more level makes no difference to the text of a tree.
LEMMA TextStays ==
    ASSUME DepthAssumption
    PROVE  \A h \in 1..MaxDepth : \A x \in Trees[h - 1] : TextOf[h][x] = TextOf[h - 1][x]
<1>. DEFINE G == {h \in 0..MaxDepth : h = 0 \/ \A x \in Trees[h - 1] : TextOf[h][x] = TextOf[h - 1][x]}
<1>0. MaxDepth \in Nat
  BY DEF DepthAssumption
<1>1. 0 \in G
  BY <1>0
<1>2. ASSUME NEW m \in 1..MaxDepth, m - 1 \in G PROVE m \in G
  <2>1. m \in 0..MaxDepth /\ m - 1 \in 0..MaxDepth
    BY TreesGoOn
  <2>2. ASSUME NEW x \in Trees[m - 1] PROVE TextOf[m][x] = TextOf[m - 1][x]
    <3>1. x \in Trees[m]
      BY TreesGrow
    <3>2. TextOf[m][x] = NodeText(TextOf[m - 1], x) /\ TextOf[m - 1][x] = NodeText(TextOf[(m - 1) - 1], x)
      BY <2>1, <3>1, TextGoesOn
    <3>3. \A i \in DOMAIN x.elements : TextOf[m - 1][x.elements[i]] = TextOf[(m - 1) - 1][x.elements[i]]
      <4>1. CASE m - 1 = 0
        <5>1. x.elements = <<>>
          BY <4>1, TreesGoOn, NodeParts
        <5>2. DOMAIN x.elements = {}
          BY <5>1
        <5>. QED  BY <5>2
      <4>2. CASE m - 1 # 0
        <5>1. m - 1 \in 1..MaxDepth
          BY <2>1, <4>2
        <5>2. x.elements \in Seq(Trees[(m - 1) - 1])
          BY <5>1, TreesGoOn, NodeParts
        <5>3. \A i \in DOMAIN x.elements : x.elements[i] \in Trees[(m - 1) - 1]
          BY <5>2
        <5>4. \A y \in Trees[(m - 1) - 1] : TextOf[m - 1][y] = TextOf[(m - 1) - 1][y]
          BY <1>2, <4>2
        <5>. QED  BY <5>3, <5>4
      <4>. QED  BY <4>1, <4>2
    <3>. QED  BY <3>2, <3>3, NodeTextSame
  <2>. QED  BY <2>1, <2>2
<1>3. \A h \in 0..MaxDepth : h \in G
  <2>. HIDE DEF G
  <2>. QED  BY <1>0, <1>1, <1>2, Upwards
<1>4. ASSUME NEW h \in 1..MaxDepth, NEW x \in Trees[h - 1] PROVE TextOf[h][x] = TextOf[h - 1][x]
  <2>1. h \in 0..MaxDepth /\ h # 0
    BY <1>0
  <2>. QED  BY <1>3, <2>1
<1>. QED  BY <1>4

\* The texts of all documents.
Texts == TextOf[MaxDepth]

LEMMA SerializeIs ==
    ASSUME DepthAssumption, NEW x \in Documents
    PROVE  Serialize(x) = NodeText(Texts, x) /\ Texts[x] = Serialize(x)
<1>0. MaxDepth \in Nat /\ MaxDepth \in 0..MaxDepth
  BY DEF DepthAssumption
<1>1. Serialize(x) = NodeText(TextOf[MaxDepth - 1], x)
  BY <1>0, TextGoesOn DEF Serialize, Documents
<1>2. \A i \in DOMAIN x.elements : TextOf[MaxDepth - 1][x.elements[i]] = TextOf[MaxDepth][x.elements[i]]
  <2>1. CASE MaxDepth = 0
    <3>1. x.elements = <<>>
      BY <2>1, TreesGoOn, NodeParts DEF Documents
    <3>2. DOMAIN x.elements = {}
      BY <3>1
    <3>. QED  BY <3>2
  <2>2. CASE MaxDepth # 0
    <3>1. MaxDepth \in 1..MaxDepth
      BY <1>0, <2>2
    <3>2. x.elements \in Seq(Trees[MaxDepth - 1])
      BY <3>1, TreesGoOn, NodeParts DEF Documents
    <3>3. \A i \in DOMAIN x.elements : x.elements[i] \in Trees[MaxDepth - 1]
      BY <3>2
    <3>. QED  BY <3>1, <3>3, TextStays
  <2>. QED  BY <2>1, <2>2
<1>3. NodeText(TextOf[MaxDepth - 1], x) = NodeText(Texts, x)
  BY <1>2, NodeTextSame DEF Texts
<1>. QED  BY <1>1, <1>3 DEF Texts, Serialize

Tokens ==
    {Open(Object), Open(Array), Close(Object), Close(Array), Colon, Comma}
    \cup {Text(w[1], w[2]) : w \in STRING \X BOOLEAN} \cup {OpenName}

LEMMA TokensAre ==
    /\ \A type : Open(type) \in Tokens /\ Close(type) \in Tokens
    /\ Colon \in Tokens /\ Comma \in Tokens
    /\ \A s \in STRING, quoted \in BOOLEAN : Text(s, quoted) \in Tokens
<1>1. \A type : Open(type) \in {Open(Object), Open(Array)} /\ Close(type) \in {Close(Object), Close(Array)}
  BY DEF Open, Close, Object, Array
<1>2. ASSUME NEW s \in STRING, NEW quoted \in BOOLEAN PROVE Text(s, quoted) \in Tokens
  <2>. DEFINE w == <<s, quoted>>
  <2>1. w \in STRING \X BOOLEAN /\ w[1] = s /\ w[2] = quoted
    OBVIOUS
  <2>2. Text(w[1], w[2]) \in Tokens
    <3>. HIDE DEF w
    <3>. QED  BY <2>1 DEF Tokens
  <2>3. Text(w[1], w[2]) = Text(s, quoted)
    BY <2>1
  <2>. QED  BY <2>2, <2>3
<1>3. {Open(Object), Open(Array)} \subseteq Tokens /\ {Close(Object), Close(Array)} \subseteq Tokens
  BY DEF Tokens
<1>4. Colon \in Tokens /\ Comma \in Tokens
  BY DEF Tokens
<1>. QED  BY <1>1, <1>2, <1>3, <1>4

LEMMA NameTextIs == ASSUME NEW name \in STRING PROVE NameText(name) \in Tokens
<1>1. CASE name \in Unclosed
  BY <1>1 DEF NameText, Tokens
<1>2. CASE name \notin Unclosed
  <2>. DEFINE s == IF name \in DOMAIN Misread THEN Misread[name] ELSE name
  <2>1. s \in STRING
    BY NamesAssumption
  <2>2. NameText(name) = Text(s, TRUE)
    BY <1>2 DEF NameText
  <2>. HIDE DEF s
  <2>. QED  BY <2>1, <2>2, TokensAre
<1>. QED  BY <1>1, <1>2

LEMMA NameIsText == ASSUME NEW x, x.name \in STRING PROVE NameOf(x) \in Seq(Tokens)
<1>1. NameText(x.name) \in Tokens /\ Colon \in Tokens
  BY NameTextIs, TokensAre
<1>. HIDE DEF Tokens
<1>2. <<NameText(x.name), Colon>> \in Seq(Tokens) /\ <<>> \in Seq(Tokens)
  <2>. DEFINE a == NameText(x.name)
              b == Colon
  <2>1. a \in Tokens /\ b \in Tokens
    BY <1>1
  <2>. HIDE DEF a, b
  <2>2. <<a, b>> \in Seq(Tokens) /\ <<>> \in Seq(Tokens)
    BY <2>1
  <2>. QED  BY <2>2 DEF a, b
<1>. QED  BY <1>2 DEF NameOf

LEMMA ChildTextIs ==
    ASSUME NEW texts, NEW x, NEW i, x.elements[i].name \in STRING, texts[x.elements[i]] \in Seq(Tokens)
    PROVE  ChildText(texts, x, i) \in Seq(Tokens)
<1>1. NameOf(x.elements[i]) \in Seq(Tokens)
  BY NameIsText
<1>2. <<Comma>> \in Seq(Tokens) /\ <<>> \in Seq(Tokens)
  BY TokensAre
<1>3. (IF i > 1 THEN <<Comma>> ELSE <<>>) \in Seq(Tokens)
  BY <1>2
<1>. HIDE DEF Tokens
<1>. QED  BY <1>1, <1>3, ConcatProperties DEF ChildText

LEMMA ChildTextsAre ==
    ASSUME NEW texts, NEW x, x.elements \in Seq(Documents), DepthAssumption,
           \A i \in 1..Len(x.elements) : texts[x.elements[i]] \in Seq(Tokens)
    PROVE  /\ ChildTexts(texts, x) \in Seq(Seq(Tokens)) /\ Len(ChildTexts(texts, x)) = Len(x.elements)
           /\ \A i \in 1..Len(x.elements) : ChildTexts(texts, x)[i] = ChildText(texts, x, i)
<1>1. DOMAIN x.elements = 1..Len(x.elements) /\ Len(x.elements) \in Nat
  OBVIOUS
<1>2. ASSUME NEW i \in 1..Len(x.elements) PROVE ChildText(texts, x, i) \in Seq(Tokens)
  <2>1. x.elements[i] \in Documents
    OBVIOUS
  <2>. QED  BY <2>1, ChildTextIs, DocumentParts
<1>3. ChildTexts(texts, x) = [i \in 1..Len(x.elements) |-> ChildText(texts, x, i)]
  BY <1>1 DEF ChildTexts
<1>. QED  BY <1>1, <1>2, <1>3

LEMMA TextIsText == ASSUME DepthAssumption PROVE \A x \in Documents : Serialize(x) \in Seq(Tokens)
<1>. DEFINE G == {x \in Documents : Serialize(x) \in Seq(Tokens)}
<1>1. ASSUME NEW x \in Documents, \A i \in 1..Len(x.elements) : x.elements[i] \in G
      PROVE  x \in G
  <2>1. x.elements \in Seq(Documents) /\ x.value \in STRING /\ x.quoted \in BOOLEAN
    BY DocumentParts
  <2>2. \A i \in 1..Len(x.elements) : Texts[x.elements[i]] \in Seq(Tokens)
    BY <1>1, <2>1, SerializeIs
  <2>3. ChildTexts(Texts, x) \in Seq(Seq(Tokens))
    BY <2>1, <2>2, ChildTextsAre
  <2>4. FlattenSeq(ChildTexts(Texts, x)) \in Seq(Tokens)
    BY <2>3, FlatIsFlatTo
  <2>5. /\ <<Text(x.value, x.quoted)>> \in Seq(Tokens)
        /\ <<Open(x.type)>> \in Seq(Tokens) /\ <<Close(x.type)>> \in Seq(Tokens)
    <3>1. Text(x.value, x.quoted) \in Tokens /\ Open(x.type) \in Tokens /\ Close(x.type) \in Tokens
      BY <2>1, TokensAre
    <3>2. ASSUME NEW t \in Tokens PROVE <<t>> \in Seq(Tokens)
      <4>. HIDE DEF Tokens
      <4>. QED  OBVIOUS
    <3>. QED  BY <3>1, <3>2
  <2>6. <<Open(x.type)>> \o FlattenSeq(ChildTexts(Texts, x)) \o <<Close(x.type)>> \in Seq(Tokens)
    BY <2>4, <2>5, ConcatProperties
  <2>7. NodeText(Texts, x) \in Seq(Tokens)
    BY <2>5, <2>6 DEF NodeText, ChildTexts
  <2>. QED  BY <2>7, SerializeIs
<1>2. \A x \in Documents : x \in G
  <2>. HIDE DEF G
  <2>. QED  BY <1>1, EveryDocument
<1>. QED  BY <1>2

-------------------------------------------------------------------------------
(* What parse() reads: its loop only goes forward.                           *)

IsScalar(token) ==
    token # Colon /\ ~IsOpening(token) /\ ~IsSeparator(token) /\ token[2] \in STRING /\ token[3] \in BOOLEAN

LEMMA OpenKind == ASSUME NEW type PROVE IsOpening(Open(type)) /\ ~IsSeparator(Open(type)) /\ Open(type) # Colon
  BY DEF IsOpening, IsSeparator, Open, Close, Colon, Comma, Object, Array

LEMMA CloseKind == ASSUME NEW type PROVE IsSeparator(Close(type)) /\ Close(type) # Colon
  BY DEF IsSeparator, Open, Close, Colon, Comma, Object, Array

LEMMA DelimiterKind == IsSeparator(Comma) /\ Comma # Colon /\ ~IsOpening(Colon) /\ ~IsSeparator(Colon)
  BY DEF IsOpening, IsSeparator, Open, Close, Colon, Comma, Object, Array

LEMMA TextKind ==
    ASSUME NEW s \in STRING, NEW quoted \in BOOLEAN
    PROVE  IsScalar(Text(s, quoted)) /\ Text(s, quoted)[2] = s /\ Text(s, quoted)[3] = quoted
<1>1. Text(s, quoted)[1] = "s" /\ Text(s, quoted)[2] = s /\ Text(s, quoted)[3] = quoted
  BY DEF Text
<1>2. \A type : Open(type)[1] # "s" /\ Close(type)[1] # "s"
  BY DEF Open, Close
<1>3. Colon[1] # "s" /\ Comma[1] # "s"
  BY DEF Colon, Comma
<1>. QED  BY <1>1, <1>2, <1>3 DEF IsScalar, IsOpening, IsSeparator

\* A name that leaves its string open is a scalar, and no other one is such a name.
LEMMA OpenNameKind == IsScalar(OpenName)
<1>0. Swallowed \in STRING
  BY NamesAssumption
<1>1. OpenName[1] = "s" /\ OpenName[2] = Swallowed /\ OpenName[3] = TRUE
  BY DEF OpenName
<1>2. \A type : Open(type)[1] # "s" /\ Close(type)[1] # "s"
  BY DEF Open, Close
<1>3. Colon[1] # "s" /\ Comma[1] # "s"
  BY DEF Colon, Comma
<1>. HIDE DEF OpenName
<1>. QED  BY <1>0, <1>1, <1>2, <1>3 DEF IsScalar, IsOpening, IsSeparator

LEMMA TextIsClosed == ASSUME NEW s, NEW quoted PROVE Text(s, quoted) # OpenName
<1>1. Len(Text(s, quoted)) = 3 /\ Len(OpenName) = 4
  BY DEF Text, OpenName
<1>. QED  BY <1>1

LEMMA TokenKinds ==
    ASSUME NEW t \in Tokens
    PROVE  (IsOpening(t) /\ ~IsSeparator(t)) \/ IsSeparator(t) \/ t = Colon \/ IsScalar(t)
<1>1. CASE t \in {Open(Object), Open(Array)}
  BY <1>1, OpenKind
<1>2. CASE t \in {Close(Object), Close(Array)}
  BY <1>2, CloseKind
<1>3. CASE t \in {Colon, Comma}
  BY <1>3, DelimiterKind
<1>4. CASE t \in {Text(w[1], w[2]) : w \in STRING \X BOOLEAN}
  <2>1. PICK w \in STRING \X BOOLEAN : t = Text(w[1], w[2])
    BY <1>4
  <2>2. w[1] \in STRING /\ w[2] \in BOOLEAN
    OBVIOUS
  <2>. QED  BY <2>1, <2>2, TextKind
<1>. QED  BY <1>1, <1>2, <1>3, <1>4, OpenNameKind DEF Tokens

LEMMA CursorParts ==
    ASSUME NEW at \in Cursors
    PROVE  /\ at = Cursor(at.pos, at.key, at.type) /\ at.pos \in Nat /\ at.pos > 0
           /\ at.key \in STRING /\ at.type \in {Object, Array, Value}
  BY DEF Cursors, Cursor

LEMMA CursorIs ==
    ASSUME NEW pos \in Nat, pos > 0, NEW key \in STRING, NEW type \in {Object, Array, Value}
    PROVE  Cursor(pos, key, type) \in Cursors
  BY DEF Cursors, Cursor

LEMMA CursorHas ==
    ASSUME NEW pos, NEW key, NEW type
    PROVE  Cursor(pos, key, type).pos = pos /\ Cursor(pos, key, type).key = key /\ Cursor(pos, key, type).type = type
  BY DEF Cursor

\* Where parse() starts behind an opening bracket.
InsideOf(text, pos) == Cursor(pos + 1, NoName, IF text[pos] = Open(Object) THEN Object ELSE Array)

LEMMA EnteredIs ==
    ASSUME NEW text, NEW pos, NEW type, pos <= Len(text), IsOpening(text[pos])
    PROVE  Entered(text, pos, type) = InsideOf(text, pos)
  BY DEF Entered, InsideOf

\* One turn of the loop, case by case.
Plain(text, at) == ~(at.pos > Len(text)) /\ IsScalar(text[at.pos])

LEMMA TurnStops ==
    ASSUME NEW text, NEW f, NEW at, at.pos > Len(text) \/ IsSeparator(text[at.pos])
    PROVE  Turn(text, f, at) = Stop(at.pos)
  BY DEF Turn

LEMMA TurnEnters ==
    ASSUME NEW text, NEW f, NEW at, at.pos <= Len(text), ~(at.pos > Len(text)),
           IsOpening(text[at.pos]), ~IsSeparator(text[at.pos])
    PROVE  Turn(text, f, at) =
             Read(Node(at.key, InsideOf(text, at.pos).type, "", TRUE, f[InsideOf(text, at.pos)].elements),
                  f[Cursor(f[InsideOf(text, at.pos)].pos + 1, at.key, at.type)])
<1>1. Entered(text, at.pos, Object) = InsideOf(text, at.pos)
  BY EnteredIs
<1>. QED  BY <1>1 DEF Turn, Past

LEMMA TurnColon ==
    ASSUME NEW text, NEW f, NEW at, ~(at.pos > Len(text)), text[at.pos] = Colon
    PROVE  Turn(text, f, at) = IF at.type = Array THEN Stop(at.pos) ELSE f[Cursor(at.pos + 1, NoName, at.type)]
  BY DelimiterKind DEF Turn

\* A string that is left open ends further behind, all other scalars where they stand.
LEMMA EndIs ==
    ASSUME NEW text, Len(text) \in Nat, NEW p \in Nat, ~(p > Len(text))
    PROVE  /\ EndOf(text, p) \in Nat /\ EndOf(text, p) >= p
           /\ text[p] # OpenName => EndOf(text, p) = p
<1>. DEFINE later == {q \in p + 1..Len(text) : text[q] = OpenName}
<1>1. CASE text[p] # OpenName
  BY <1>1 DEF EndOf
<1>2. CASE text[p] = OpenName /\ later = {}
  <2>1. EndOf(text, p) = Len(text)
    BY <1>2 DEF EndOf
  <2>. QED  BY <1>2, <2>1
<1>3. CASE text[p] = OpenName /\ later # {}
  <2>. DEFINE first == CHOOSE q \in later : \A r \in later : q <= r
  <2>1. EndOf(text, p) = first
    BY <1>3 DEF EndOf
  <2>2. \E q \in later : \A r \in later : q <= r
    <3>1. later \subseteq Nat
      OBVIOUS
    <3>. HIDE DEF later
    <3>. QED  BY <1>3, <3>1, LeastNumber
  <2>3. first \in later
    BY <2>2
  <2>4. first \in Nat /\ first >= p
    <3>. HIDE DEF first
    <3>. QED  BY <2>3
  <2>. HIDE DEF first
  <2>. QED  BY <1>3, <2>1, <2>4
<1>. QED  BY <1>1, <1>2, <1>3

LEMMA TurnKey ==
    ASSUME NEW text, NEW f, NEW at, Plain(text, at), NEW end, end = EndOf(text, at.pos), IsKey(text, end)
    PROVE  Turn(text, f, at) =
             IF at.type = Array THEN Stop(end + 1) ELSE f[Cursor(end + 2, text[at.pos][2], at.type)]
  BY DEF Turn, IsScalar, Plain

LEMMA TurnScalar ==
    ASSUME NEW text, NEW f, NEW at, Plain(text, at),
           NEW end \in Nat, end = EndOf(text, at.pos), ~IsKey(text, end)
    PROVE  Turn(text, f, at) =
             Read(Scalar(IF at.type = Array THEN NoName ELSE at.key, text[at.pos][2], text[at.pos][3]),
                  f[Cursor(end + 2, NoName, at.type)])
<1>1. (end + 1) + 1 = end + 2
  OBVIOUS
<1>. QED  BY <1>1 DEF Turn, IsScalar, Past, Plain

Later(at) == {c \in Cursors : c.pos > at.pos}
Ahead(f, at) == \A c \in Later(at) : f[c].pos \in Nat /\ f[c].pos >= c.pos

\* A turn looks only at what is read further behind, and it does not go back.
LEMMA TurnGoesOn ==
    ASSUME NEW text \in Seq(Tokens), NEW f, NEW g, NEW at \in Cursors,
           \A c \in Later(at) : f[c] = g[c], Ahead(f, at)
    PROVE  /\ Turn(text, f, at) = Turn(text, g, at)
           /\ Turn(text, f, at).pos \in Nat /\ Turn(text, f, at).pos >= at.pos
<1>1. at.pos \in Nat /\ at.pos > 0 /\ at.key \in STRING /\ at.type \in {Object, Array, Value}
  BY CursorParts
<1>2. ASSUME NEW p \in Nat, p > at.pos, NEW k \in STRING
      PROVE  /\ f[Cursor(p, k, at.type)] = g[Cursor(p, k, at.type)]
             /\ f[Cursor(p, k, at.type)].pos \in Nat /\ f[Cursor(p, k, at.type)].pos >= p
  <2>1. p > 0
    BY <1>1, <1>2
  <2>2. Cursor(p, k, at.type) \in Cursors /\ Cursor(p, k, at.type).pos = p
    BY <1>1, <2>1, CursorIs, CursorHas
  <2>3. Cursor(p, k, at.type) \in Later(at)
    BY <1>2, <2>2 DEF Later
  <2>. QED  BY <2>2, <2>3 DEF Ahead
<1>3. \A p : Stop(p).pos = p
  BY DEF Stop
<1>4. \A e, r : Read(e, r).pos = r.pos
  BY DEF Read
<1>5. NoName \in STRING
  BY NoNameAssumption
<1>6. CASE at.pos > Len(text) \/ IsSeparator(text[at.pos])
  <2>1. \A h : Turn(text, h, at) = Stop(at.pos)
    BY <1>6, TurnStops
  <2>. QED  BY <1>1, <1>3, <2>1
<1>7. CASE ~(at.pos > Len(text)) /\ IsOpening(text[at.pos]) /\ ~IsSeparator(text[at.pos])
  <2>0. at.pos <= Len(text)
    BY <1>1, <1>7
  <2>. DEFINE inner == InsideOf(text, at.pos)
              next  == Cursor(f[inner].pos + 1, at.key, at.type)
              new   == Node(at.key, inner.type, "", TRUE, f[inner].elements)
  <2>1. inner \in Later(at) /\ inner.pos = at.pos + 1
    <3>1. at.pos + 1 \in Nat /\ at.pos + 1 > 0 /\ at.pos + 1 > at.pos
      BY <1>1
    <3>2. (IF text[at.pos] = Open(Object) THEN Object ELSE Array) \in {Object, Array, Value}
      OBVIOUS
    <3>3. inner \in Cursors
      BY <1>5, <3>1, <3>2, CursorIs DEF InsideOf
    <3>4. inner.pos = at.pos + 1
      BY CursorHas DEF InsideOf
    <3>. QED  BY <3>1, <3>3, <3>4 DEF Later
  <2>. HIDE DEF inner
  <2>2. f[inner] = g[inner] /\ f[inner].pos \in Nat /\ f[inner].pos >= at.pos + 1
    BY <2>1 DEF Ahead
  <2>3. f[next] = g[next] /\ f[next].pos \in Nat /\ f[next].pos >= f[inner].pos + 1
    <3>1. f[inner].pos + 1 \in Nat /\ f[inner].pos + 1 > at.pos
      BY <1>1, <2>2
    <3>. QED  BY <1>1, <1>2, <3>1
  <2>4. Turn(text, f, at) = Read(new, f[next])
    BY <1>7, <2>0, TurnEnters DEF inner
  <2>5. Turn(text, g, at) = Read(new, g[next])
    <3>1. Turn(text, g, at) = Read(Node(at.key, inner.type, "", TRUE, g[inner].elements),
                                   g[Cursor(g[inner].pos + 1, at.key, at.type)])
      BY <1>7, <2>0, TurnEnters DEF inner
    <3>. QED  BY <2>2, <3>1
  <2>. HIDE DEF next, new
  <2>6. f[next].pos >= at.pos
    BY <1>1, <2>2, <2>3
  <2>. QED  BY <1>4, <2>3, <2>4, <2>5, <2>6
<1>8. CASE ~(at.pos > Len(text)) /\ text[at.pos] = Colon
  <2>. DEFINE next == Cursor(at.pos + 1, NoName, at.type)
  <2>1. \A h : Turn(text, h, at) = IF at.type = Array THEN Stop(at.pos) ELSE h[next]
    BY <1>8, TurnColon
  <2>2. at.pos + 1 \in Nat /\ at.pos + 1 > at.pos
    BY <1>1
  <2>3. f[next] = g[next] /\ f[next].pos \in Nat /\ f[next].pos >= at.pos + 1
    BY <1>2, <1>5, <2>2
  <2>. HIDE DEF next
  <2>. QED  BY <1>1, <1>3, <2>1, <2>3
<1>. DEFINE end == EndOf(text, at.pos)
<1>12. Plain(text, at) => end \in Nat /\ end >= at.pos
  <2>1. Len(text) \in Nat
    <3>. HIDE DEF Tokens
    <3>. QED  OBVIOUS
  <2>. QED  BY <1>1, <2>1, EndIs DEF Plain
<1>. HIDE DEF end
<1>9. CASE Plain(text, at) /\ IsKey(text, end)
  <2>. DEFINE next == Cursor(end + 2, text[at.pos][2], at.type)
  <2>1. \A h : Turn(text, h, at) = IF at.type = Array THEN Stop(end + 1) ELSE h[next]
    BY <1>9, TurnKey DEF end
  <2>2. end + 2 \in Nat /\ end + 2 > at.pos /\ text[at.pos][2] \in STRING
    BY <1>1, <1>9, <1>12 DEF Plain, IsScalar
  <2>3. f[next] = g[next] /\ f[next].pos \in Nat /\ f[next].pos >= end + 2
    BY <1>2, <2>2
  <2>. HIDE DEF next
  <2>. QED  BY <1>1, <1>3, <1>9, <1>12, <2>1, <2>3
<1>10. CASE Plain(text, at) /\ ~IsKey(text, end)
  <2>. DEFINE next == Cursor(end + 2, NoName, at.type)
              new == Scalar(IF at.type = Array THEN NoName ELSE at.key, text[at.pos][2], text[at.pos][3])
  <2>1. \A h : Turn(text, h, at) = Read(new, h[next])
    BY <1>10, <1>12, TurnScalar DEF end
  <2>2. end + 2 \in Nat /\ end + 2 > at.pos
    BY <1>1, <1>10, <1>12
  <2>3. f[next] = g[next] /\ f[next].pos \in Nat /\ f[next].pos >= end + 2
    BY <1>2, <1>5, <2>2
  <2>. HIDE DEF next, new
  <2>. QED  BY <1>1, <1>4, <1>10, <1>12, <2>1, <2>3
<1>11. CASE ~(at.pos > Len(text))
  <2>1. text[at.pos] \in Tokens
    <3>1. at.pos \in 1..Len(text)
      BY <1>1, <1>11
    <3>. HIDE DEF Tokens
    <3>. QED  BY <3>1
  <2>. QED  BY <1>6, <1>7, <1>8, <1>9, <1>10, <1>11, <2>1, TokenKinds DEF Plain
<1>. QED  BY <1>6, <1>11

\* Cursors from the last n tokens of a text on.
From(text, n) == {c \in Cursors : c.pos + n > Len(text)}

LEMMA FromParts ==
    ASSUME NEW S, NEW text \in Seq(S), NEW n \in Nat, NEW at \in Cursors
    PROVE  /\ at \in From(text, n) => Later(at) \subseteq From(text, n)
           /\ at \in From(text, n + 1) => Later(at) \subseteq From(text, n)
           /\ at \in From(text, n) => at \in From(text, n + 1)
           /\ at \in From(text, 0) <=> at.pos > Len(text)
           /\ at \in From(text, Len(text))
<1>1. Len(text) \in Nat /\ at.pos \in Nat /\ at.pos > 0
  BY CursorParts
<1>2. \A c \in Later(at) : c \in Cursors /\ c.pos \in Nat /\ c.pos > at.pos
  BY CursorParts DEF Later
<1>3. \A m : at \in From(text, m) <=> at.pos + m > Len(text)
  BY DEF From
<1>4. \A m : \A c \in Later(at) : c \in From(text, m) <=> c.pos + m > Len(text)
  BY <1>2 DEF From
<1>5. at \in From(text, n) => Later(at) \subseteq From(text, n)
  BY <1>1, <1>2, <1>3, <1>4
<1>6. at \in From(text, n + 1) => Later(at) \subseteq From(text, n)
  BY <1>1, <1>2, <1>3, <1>4
<1>7. at \in From(text, n) => at \in From(text, n + 1)
  BY <1>1, <1>3
<1>8. at \in From(text, 0) <=> at.pos > Len(text)
  BY <1>1, <1>3
<1>9. at \in From(text, Len(text))
  BY <1>1, <1>3
<1>. QED  BY <1>5, <1>6, <1>7, <1>8, <1>9

\* What holds at the end of a text, and at every cursor if it holds further behind.
LEMMA EveryCursor ==
    ASSUME NEW S, NEW text \in Seq(S), NEW G,
           \A at \in Cursors : (at.pos <= Len(text) => \A c \in Later(at) : c \in G) => at \in G
    PROVE  \A at \in Cursors : at \in G
<1>. DEFINE H == {n \in 0..Len(text) : From(text, n) \subseteq G}
<1>0. Len(text) \in Nat /\ 0 \in Nat
  OBVIOUS
<1>1. 0 \in H
  <2>1. ASSUME NEW at \in From(text, 0) PROVE at \in G
    <3>1. at \in Cursors
      BY DEF From
    <3>2. at.pos > Len(text) /\ at.pos \in Nat
      BY <1>0, <3>1, FromParts, CursorParts
    <3>3. ~(at.pos <= Len(text))
      BY <1>0, <3>2
    <3>. QED  BY <3>1, <3>3
  <2>. QED  BY <1>0, <2>1
<1>2. ASSUME NEW m \in 1..Len(text), m - 1 \in H PROVE m \in H
  <2>1. m - 1 \in Nat /\ (m - 1) + 1 = m /\ m \in 0..Len(text)
    BY <1>0
  <2>2. From(text, m - 1) \subseteq G
    BY <1>2
  <2>3. ASSUME NEW at \in From(text, m) PROVE at \in G
    <3>1. at \in Cursors
      BY DEF From
    <3>2. at \in From(text, (m - 1) + 1)
      BY <2>1
    <3>3. Later(at) \subseteq From(text, m - 1)
      BY <2>1, <3>1, <3>2, FromParts
    <3>. QED  BY <2>2, <3>1, <3>3
  <2>. QED  BY <2>1, <2>3
<1>3. \A m \in 0..Len(text) : m \in H
  <2>. HIDE DEF H
  <2>. QED  BY <1>0, <1>1, <1>2, Upwards
<1>4. From(text, Len(text)) \subseteq G
  BY <1>0, <1>3
<1>5. ASSUME NEW at \in Cursors PROVE at \in From(text, Len(text))
  BY <1>0, FromParts
<1>. QED  BY <1>4, <1>5

Fits(f, text, n) == f = [at \in From(text, n) |-> Turn(text, f, at)]
Forward(f, text, n) == \A c \in From(text, n) : f[c].pos \in Nat /\ f[c].pos >= c.pos

LEMMA ReadingExists ==
    ASSUME NEW text \in Seq(Tokens), NEW n \in Nat
    PROVE  \E f : Fits(f, text, n) /\ Forward(f, text, n)
<1>. DEFINE G == {m \in 0..n : \E f : Fits(f, text, m) /\ Forward(f, text, m)}
<1>1. 0 \in G
  <2>. DEFINE f == [at \in From(text, 0) |-> Stop(at.pos)]
  <2>1. ASSUME NEW at \in From(text, 0)
        PROVE  f[at] = Turn(text, f, at) /\ f[at].pos \in Nat /\ f[at].pos >= at.pos
    <3>1. at \in Cursors
      BY DEF From
    <3>2. at.pos > Len(text) /\ at.pos \in Nat
      BY <3>1, FromParts, CursorParts
    <3>3. \A h : Turn(text, h, at) = Stop(at.pos)
      BY <3>2, TurnStops
    <3>4. f[at] = Stop(at.pos) /\ Stop(at.pos).pos = at.pos
      BY DEF Stop
    <3>. QED  BY <3>2, <3>3, <3>4
  <2>2. f = [at \in From(text, 0) |-> f[at]]
    OBVIOUS
  <2>. HIDE DEF f
  <2>3. Fits(f, text, 0) /\ Forward(f, text, 0)
    BY <2>1, <2>2 DEF Fits, Forward
  <2>. QED  BY <2>3
<1>2. ASSUME NEW m \in 1..n, m - 1 \in G PROVE m \in G
  <2>1. PICK g : Fits(g, text, m - 1) /\ Forward(g, text, m - 1)
    BY <1>2
  <2>2. m - 1 \in Nat /\ (m - 1) + 1 = m
    OBVIOUS
  <2>. DEFINE f == [at \in From(text, m) |-> IF at \in From(text, m - 1) THEN g[at] ELSE Turn(text, g, at)]
  <2>3. \A at \in From(text, m) : f[at] = IF at \in From(text, m - 1) THEN g[at] ELSE Turn(text, g, at)
    OBVIOUS
  <2>4. f = [at \in From(text, m) |-> f[at]]
    OBVIOUS
  <2>. HIDE DEF f
  <2>5. ASSUME NEW at \in From(text, m)
        PROVE  f[at] = Turn(text, f, at) /\ f[at].pos \in Nat /\ f[at].pos >= at.pos
    <3>1. at \in Cursors
      BY DEF From
    <3>2. Later(at) \subseteq From(text, m - 1)
      BY <2>2, <3>1, FromParts
    <3>3. \A c \in Later(at) : g[c] = f[c]
      <4>1. ASSUME NEW c \in Later(at) PROVE c \in From(text, m)
        <5>1. c \in Cursors
          BY DEF Later
        <5>. QED  BY <2>2, <3>2, <5>1, FromParts
      <4>. QED  BY <2>3, <3>2, <4>1
    <3>4. Ahead(g, at)
      BY <2>1, <3>2 DEF Forward, Ahead
    <3>5. Turn(text, g, at) = Turn(text, f, at) /\ Turn(text, g, at).pos \in Nat /\ Turn(text, g, at).pos >= at.pos
      BY <3>1, <3>3, <3>4, TurnGoesOn
    <3>6. at \in From(text, m - 1) => g[at] = Turn(text, g, at)
      BY <2>1 DEF Fits
    <3>. QED  BY <2>3, <3>5, <3>6
  <2>6. Fits(f, text, m) /\ Forward(f, text, m)
    BY <2>4, <2>5 DEF Fits, Forward
  <2>. QED  BY <2>6
<1>3. \A m \in 0..n : m \in G
  <2>. HIDE DEF G
  <2>. QED  BY <1>1, <1>2, Upwards
<1>4. n \in G
  BY <1>3
<1>. QED  BY <1>4

\* The function that Reading defines.
LEMMA ReadingIs ==
    ASSUME NEW text \in Seq(Tokens), NEW at \in Cursors
    PROVE  /\ Reading(text)[at] = Turn(text, Reading(text), at)
           /\ Reading(text)[at].pos \in Nat /\ Reading(text)[at].pos >= at.pos
<1>. DEFINE n == Len(text)
            R == Reading(text)
            IsReading(f) == f = [c \in Cursors |-> Turn(text, f, c)]
<1>1. n \in Nat
  OBVIOUS
<1>2. From(text, n) = Cursors
  <2>1. \A c \in Cursors : c \in From(text, n)
    BY FromParts
  <2>. QED  BY <2>1 DEF From
<1>3. R = CHOOSE f : IsReading(f)
  BY DEF Reading
<1>4. \E f : IsReading(f)
  <2>1. PICK f : Fits(f, text, n)
    BY <1>1, ReadingExists
  <2>. QED  BY <1>2, <2>1 DEF Fits
<1>5. IsReading(R)
  <2>. HIDE DEF IsReading, R
  <2>. QED  BY <1>3, <1>4
<1>. HIDE DEF R
<1>6. \A c \in Cursors : R[c] = Turn(text, R, c)
  BY <1>5
<1>. DEFINE H == {c \in Cursors : R[c].pos \in Nat /\ R[c].pos >= c.pos}
<1>7. ASSUME NEW c \in Cursors, c.pos <= Len(text) => \A d \in Later(c) : d \in H PROVE c \in H
  <2>1. CASE c.pos > Len(text)
    <3>1. Turn(text, R, c) = Stop(c.pos) /\ Stop(c.pos).pos = c.pos
      BY <2>1, TurnStops DEF Stop
    <3>2. c.pos \in Nat
      BY CursorParts
    <3>. QED  BY <1>6, <3>1, <3>2
  <2>2. CASE c.pos <= Len(text)
    <3>1. Ahead(R, c)
      BY <1>7, <2>2 DEF Ahead
    <3>2. Turn(text, R, c).pos \in Nat /\ Turn(text, R, c).pos >= c.pos
      BY <3>1, TurnGoesOn
    <3>. QED  BY <1>6, <3>2
  <2>3. c.pos > Len(text) \/ c.pos <= Len(text)
    BY <1>1, CursorParts
  <2>. QED  BY <2>1, <2>2, <2>3
<1>8. \A c \in Cursors : c \in H
  <2>. HIDE DEF H
  <2>. QED  BY <1>7, EveryCursor
<1>. QED  BY <1>6, <1>8 DEF R

-------------------------------------------------------------------------------
(* Where the parts of a document stand in its text.                          *)

\* The tokens that the first i elements of a node take.
Before(node, i) == Len(FlatTo(ChildTexts(Texts, node), i))

LEMMA TextsOfElements ==
    ASSUME DepthAssumption, NEW x \in Documents
    PROVE  /\ ChildTexts(Texts, x) \in Seq(Seq(Tokens)) /\ Len(ChildTexts(Texts, x)) = Len(x.elements)
           /\ \A i \in 1..Len(x.elements) : ChildTexts(Texts, x)[i] = ChildText(Texts, x, i)
           /\ Len(x.elements) \in Nat
<1>1. x.elements \in Seq(Documents)
  BY DocumentParts
<1>2. \A i \in 1..Len(x.elements) : x.elements[i] \in Documents
  BY <1>1
<1>3. \A i \in 1..Len(x.elements) : Texts[x.elements[i]] \in Seq(Tokens)
  BY <1>2, SerializeIs, TextIsText
<1>4. Len(x.elements) \in Nat
  BY <1>1
<1>. QED  BY <1>1, <1>3, <1>4, ChildTextsAre

LEMMA OneStands ==
    ASSUME NEW text, NEW t, NEW k, Stands(text, <<t>>, k)
    PROVE  text[k + 1] = t /\ k + 1 <= Len(text)
<1>1. Len(<<t>>) = 1 /\ <<t>>[1] = t /\ 1 \in 1..1
  OBVIOUS
<1>. QED  BY <1>1 DEF Stands

LEMMA OneToken == ASSUME NEW S, NEW t \in S PROVE <<t>> \in Seq(S) /\ Len(<<t>>) = 1
  OBVIOUS

LEMMA WrittenParts ==
    ASSUME DepthAssumption, NEW y \in Documents, y.type # Value, NEW text \in Seq(Tokens), NEW k \in Nat,
           Stands(text, Serialize(y), k)
    PROVE  /\ text[k + 1] = Open(y.type) /\ k + 1 <= Len(text)
           /\ Stands(text, FlattenSeq(ChildTexts(Texts, y)), k + 1)
           /\ Before(y, Len(y.elements)) \in Nat
           /\ Len(Serialize(y)) = Before(y, Len(y.elements)) + 2
           /\ text[k + Before(y, Len(y.elements)) + 2] = Close(y.type)
           /\ k + Before(y, Len(y.elements)) + 2 <= Len(text)
<1>. DEFINE u == <<Open(y.type)>>
            v == FlattenSeq(ChildTexts(Texts, y))
            w == <<Close(y.type)>>
            n == Before(y, Len(y.elements))
<1>1. Serialize(y) = (u \o v) \o w
  BY SerializeIs DEF NodeText, ChildTexts
<1>2. u \in Seq(Tokens) /\ w \in Seq(Tokens) /\ Len(u) = 1 /\ Len(w) = 1
  BY TokensAre, OneToken
<1>3. v \in Seq(Tokens) /\ Len(v) = n
  BY TextsOfElements, FlatIsFlatTo DEF Before
<1>4. \A t : Stands(text, <<t>>, k) => text[k + 1] = t /\ k + 1 <= Len(text)
  BY OneStands
<1>5. \A t, j : Stands(text, <<t>>, j) => text[j + 1] = t /\ j + 1 <= Len(text)
  BY OneStands
<1>6. u = <<Open(y.type)>> /\ w = <<Close(y.type)>>
  OBVIOUS
<1>. HIDE DEF u, v, w, n
<1>7. n \in Nat
  BY <1>3
<1>8. u \o v \in Seq(Tokens) /\ Len(u \o v) = 1 + n
  <2>. HIDE DEF Tokens
  <2>1. u \o v \in Seq(Tokens) /\ Len(u \o v) = Len(u) + Len(v)
    BY <1>2, <1>3, ConcatProperties
  <2>. QED  BY <1>2, <1>3, <2>1
<1>9. Stands(text, u \o v, k) /\ Stands(text, w, k + Len(u \o v))
  BY <1>1, <1>2, <1>8, StandsConcat
<1>10. Stands(text, u, k) /\ Stands(text, v, k + Len(u))
  BY <1>2, <1>3, <1>9, StandsConcat
<1>11. Len(Serialize(y)) = n + 2
  <2>. HIDE DEF Tokens
  <2>1. Len((u \o v) \o w) = Len(u \o v) + Len(w)
    BY <1>2, <1>8, ConcatProperties
  <2>. QED  BY <1>1, <1>2, <1>7, <1>8, <2>1
<1>12. text[k + 1] = Open(y.type) /\ k + 1 <= Len(text)
  BY <1>4, <1>6, <1>10
<1>13. text[k + n + 2] = Close(y.type) /\ k + n + 2 <= Len(text)
  <2>1. Stands(text, w, k + (1 + n))
    BY <1>8, <1>9
  <2>2. text[(k + (1 + n)) + 1] = Close(y.type) /\ (k + (1 + n)) + 1 <= Len(text)
    BY <1>5, <1>6, <2>1
  <2>3. (k + (1 + n)) + 1 = k + n + 2
    BY <1>7
  <2>. QED  BY <2>2, <2>3
<1>14. Stands(text, v, k + 1)
  BY <1>2, <1>10
<1>. QED  BY <1>7, <1>11, <1>12, <1>13, <1>14 DEF n, v

\* The tokens in front of an element and of its name.
Begin(y, k, i) == k + 1 + Before(y, i - 1) + (IF i > 1 THEN 1 ELSE 0)

LEMMA NameLength == ASSUME NEW x PROVE Len(NameOf(x)) = IF x.name # NoName THEN 2 ELSE 0
  BY DEF NameOf

LEMMA ChildWritten ==
    ASSUME DepthAssumption, NEW y \in Documents, y.type # Value, NEW text \in Seq(Tokens), NEW k \in Nat,
           Stands(text, Serialize(y), k), NEW i \in 1..Len(y.elements)
    PROVE  /\ Before(y, i - 1) \in Nat /\ Before(y, i) \in Nat
           /\ i > 1 => text[k + Before(y, i - 1) + 2] = Comma /\ k + Before(y, i - 1) + 2 <= Len(text)
           /\ Stands(text, NameOf(y.elements[i]), Begin(y, k, i))
           /\ Stands(text, Serialize(y.elements[i]), Begin(y, k, i) + Len(NameOf(y.elements[i])))
           /\ Begin(y, k, i) + Len(NameOf(y.elements[i])) + Len(Serialize(y.elements[i])) = k + 1 + Before(y, i)
<1>. DEFINE c == y.elements[i]
            a == IF i > 1 THEN <<Comma>> ELSE <<>>
            b == NameOf(c)
            t == Serialize(c)
            m == Before(y, i - 1)
            piece == ChildTexts(Texts, y)[i]
<1>1. c \in Documents
  BY DocumentParts
<1>2. piece = (a \o b) \o t
  BY <1>1, TextsOfElements, SerializeIs DEF ChildText
<1>3. b \in Seq(Tokens) /\ t \in Seq(Tokens)
  BY <1>1, DocumentParts, NameIsText, TextIsText
<1>4. a \in Seq(Tokens) /\ Len(a) = IF i > 1 THEN 1 ELSE 0
  BY TokensAre, OneToken
<1>5. /\ Stands(text, piece, (k + 1) + m) /\ m \in Nat /\ Before(y, i) = m + Len(piece)
  <2>1. Stands(text, FlattenSeq(ChildTexts(Texts, y)), k + 1)
    BY WrittenParts
  <2>2. k + 1 \in Nat
    OBVIOUS
  <2>3. i \in 1..Len(ChildTexts(Texts, y)) /\ ChildTexts(Texts, y) \in Seq(Seq(Tokens))
    BY TextsOfElements
  <2>. HIDE DEF Tokens
  <2>. QED  BY <2>1, <2>2, <2>3, FlatStands DEF Before
<1>6. i > 1 => a = <<Comma>>
  OBVIOUS
<1>7. \A s, j : Stands(text, <<s>>, j) => text[j + 1] = s /\ j + 1 <= Len(text)
  BY OneStands
<1>. HIDE DEF a, b, c, t, m, piece, Tokens
<1>8. a \o b \in Seq(Tokens) /\ Len(a \o b) = Len(a) + Len(b)
  BY <1>3, <1>4, ConcatProperties
<1>9. Len(piece) = Len(a) + Len(b) + Len(t)
  <2>1. Len((a \o b) \o t) = Len(a \o b) + Len(t)
    BY <1>3, <1>8, ConcatProperties
  <2>. QED  BY <1>2, <1>8, <2>1
<1>10. (k + 1) + m \in Nat /\ Len(a) \in Nat /\ Len(b) \in Nat /\ Len(t) \in Nat
  BY <1>3, <1>4, <1>5
<1>11. Stands(text, a \o b, (k + 1) + m) /\ Stands(text, t, ((k + 1) + m) + Len(a \o b))
  BY <1>2, <1>3, <1>5, <1>8, <1>10, StandsConcat
<1>12. Stands(text, a, (k + 1) + m) /\ Stands(text, b, ((k + 1) + m) + Len(a))
  BY <1>3, <1>4, <1>10, <1>11, StandsConcat
<1>13. Begin(y, k, i) = ((k + 1) + m) + Len(a) /\ Begin(y, k, i) + Len(b) = ((k + 1) + m) + Len(a \o b)
  BY <1>4, <1>5, <1>8, <1>10 DEF Begin, m
<1>14. Before(y, i) \in Nat /\ Begin(y, k, i) + Len(b) + Len(t) = k + 1 + Before(y, i)
  BY <1>5, <1>8, <1>9, <1>10, <1>13
<1>15. ASSUME i > 1 PROVE text[k + m + 2] = Comma /\ k + m + 2 <= Len(text)
  <2>1. text[((k + 1) + m) + 1] = Comma /\ ((k + 1) + m) + 1 <= Len(text)
    BY <1>6, <1>7, <1>12, <1>15
  <2>2. ((k + 1) + m) + 1 = k + m + 2
    BY <1>5
  <2>. QED  BY <2>1, <2>2
<1>16. Stands(text, b, Begin(y, k, i)) /\ Stands(text, t, Begin(y, k, i) + Len(b))
  BY <1>11, <1>12, <1>13
<1>. QED  BY <1>5, <1>14, <1>15, <1>16 DEF b, t, c, m

\* Behind an element is a comma, or the closing bracket.
LEMMA ChildEnds ==
    ASSUME DepthAssumption, NEW y \in Documents, y.type # Value, NEW text \in Seq(Tokens), NEW k \in Nat,
           Stands(text, Serialize(y), k), NEW i \in 1..Len(y.elements)
    PROVE  /\ IsSeparator(text[k + Before(y, i) + 2]) /\ text[k + Before(y, i) + 2] # Colon
           /\ k + Before(y, i) + 2 <= Len(text)
           /\ Begin(y, k, i + 1) = k + Before(y, i) + 2
<1>1. Before(y, i) \in Nat
  BY ChildWritten
<1>2. Begin(y, k, i + 1) = k + Before(y, i) + 2
  <2>1. i + 1 > 1 /\ (i + 1) - 1 = i
    OBVIOUS
  <2>2. Begin(y, k, i + 1) = k + 1 + Before(y, i) + 1
    BY <2>1 DEF Begin
  <2>. QED  BY <1>1, <2>2
<1>3. CASE i = Len(y.elements)
  <2>1. text[k + Before(y, i) + 2] = Close(y.type) /\ k + Before(y, i) + 2 <= Len(text)
    BY <1>3, WrittenParts
  <2>. QED  BY <1>2, <2>1, CloseKind
<1>4. CASE i # Len(y.elements)
  <2>1. i + 1 \in 1..Len(y.elements) /\ i + 1 > 1 /\ (i + 1) - 1 = i
    BY <1>4, TextsOfElements
  <2>. DEFINE j == i + 1
  <2>2. j \in 1..Len(y.elements) /\ j > 1 /\ j - 1 = i
    BY <2>1
  <2>. HIDE DEF j
  <2>3. text[k + Before(y, j - 1) + 2] = Comma /\ k + Before(y, j - 1) + 2 <= Len(text)
    BY <2>2, ChildWritten
  <2>. QED  BY <1>2, <2>2, <2>3, DelimiterKind
<1>. QED  BY <1>3, <1>4

-------------------------------------------------------------------------------
(* Trees in which every node is sound, and copies of them.                   *)

IsSeq(e) == \E S : e \in Seq(S)

\* A node, of any depth: the elements of an array have no names.  With unique, a value
\* has no elements and an object has no two of a name.
Sound(x, unique) ==
    /\ x = Node(x.name, x.type, x.value, x.quoted, x.elements)
    /\ IsSeq(x.elements)
    /\ x.type = Array => \A i \in 1..Len(x.elements) : x.elements[i].name = NoName
    /\ unique /\ x.type = Value => x.elements = <<>>
    /\ unique /\ x.type = Object =>
          \A i, j \in 1..Len(x.elements) :
              x.elements[i].name = x.elements[j].name /\ x.elements[i].name # NoName => i = j

Tidy(x, unique) == \A p \in AllPlaces : InTree(x, p) => Sound(At(x, p), unique)

LEMMA SeqParts ==
    ASSUME NEW e, IsSeq(e)
    PROVE  Len(e) \in Nat /\ DOMAIN e = 1..Len(e) /\ (Len(e) = 0 <=> e = <<>>) /\ e = [i \in 1..Len(e) |-> e[i]]
<1>1. PICK S : e \in Seq(S)
  BY DEF IsSeq
<1>. QED  BY <1>1

LEMMA TidySplits ==
    ASSUME NEW x, NEW unique
    PROVE  Tidy(x, unique) <=> Sound(x, unique) /\ \A i \in 1..Len(x.elements) : Tidy(x.elements[i], unique)
<1>1. <<>> \in AllPlaces
  BY DEF AllPlaces
<1>2. ASSUME Tidy(x, unique) PROVE Sound(x, unique)
  <2>1. InTree(x, <<>>) /\ At(x, <<>>) = x
    BY RootInTree, AtRoot
  <2>. QED  BY <1>1, <1>2, <2>1 DEF Tidy
<1>3. Sound(x, unique) => Len(x.elements) \in Nat
  BY SeqParts DEF Sound
<1>4. ASSUME Tidy(x, unique), NEW i \in 1..Len(x.elements) PROVE Tidy(x.elements[i], unique)
  <2>1. i \in Nat
    BY <1>2, <1>3, <1>4
  <2>2. ASSUME NEW q \in AllPlaces, InTree(x.elements[i], q) PROVE Sound(At(x.elements[i], q), unique)
    <3>1. <<i>> \o q \in AllPlaces
      BY <2>1, PlaceParts
    <3>2. InTree(x, <<i>> \o q) /\ At(x, <<i>> \o q) = At(x.elements[i], q)
      BY <2>1, <2>2, ChildInTree, AtChild
    <3>. QED  BY <1>4, <3>1, <3>2 DEF Tidy
  <2>. QED  BY <2>2 DEF Tidy
<1>5. ASSUME Sound(x, unique), \A i \in 1..Len(x.elements) : Tidy(x.elements[i], unique)
      PROVE  Tidy(x, unique)
  <2>1. ASSUME NEW p \in AllPlaces, InTree(x, p) PROVE Sound(At(x, p), unique)
    <3>1. CASE p = <<>>
      BY <1>5, <3>1, AtRoot
    <3>2. CASE p # <<>>
      <4>1. PICK i \in Nat : \E q \in AllPlaces : p = <<i>> \o q
        BY <3>2, PlaceSplits
      <4>2. PICK q \in AllPlaces : p = <<i>> \o q
        BY <4>1
      <4>3. i \in 1..Len(x.elements) /\ InTree(x.elements[i], q)
        BY <2>1, <4>2, ChildInTree
      <4>4. At(x, p) = At(x.elements[i], q)
        BY <4>2, AtChild
      <4>. QED  BY <1>5, <4>3, <4>4 DEF Tidy
    <3>. QED  BY <3>1, <3>2
  <2>. QED  BY <2>1 DEF Tidy
<1>. QED  BY <1>2, <1>4, <1>5

\* What is read from the text of a tree.
Copy(x, y) ==
    /\ \A h \in 0..MaxDepth : y \in Trees[h] => x \in Trees[h]
    /\ Serialize(x) = Serialize(y)
    /\ Tidy(y, TRUE) => Tidy(x, TRUE)

Copies(e, f) ==
    /\ IsSeq(e) /\ Len(e) = Len(f)
    /\ \A i \in 1..Len(f) : e[i].name = f[i].name /\ Copy(e[i], f[i])

LEMMA NodeIs ==
    ASSUME NEW name, NEW type, NEW value, NEW quoted, NEW elements, NEW x, x = Node(name, type, value, quoted, elements)
    PROVE  /\ x.name = name /\ x.type = type /\ x.value = value /\ x.quoted = quoted /\ x.elements = elements
           /\ x = Node(x.name, x.type, x.value, x.quoted, x.elements)
  BY DEF Node

LEMMA NodeInTree ==
    ASSUME DepthAssumption, NEW h \in 0..MaxDepth, NEW x, x = Node(x.name, x.type, x.value, x.quoted, x.elements),
           x.name \in STRING, x.type \in {Object, Array, Value}, x.value \in STRING, x.quoted \in BOOLEAN,
           h = 0 => x.elements = <<>>, h > 0 => x.elements \in Seq(Trees[h - 1])
    PROVE  x \in Trees[h]
<1>1. CASE h = 0
  <2>1. x \in Nodes({<<>>})
    BY <1>1 DEF Nodes, Node
  <2>. QED  BY <1>1, <2>1, TreesGoOn
<1>2. CASE h # 0
  <2>1. h > 0 /\ h \in 1..MaxDepth
    BY <1>2 DEF DepthAssumption
  <2>2. x \in Nodes(Seq(Trees[h - 1]))
    BY <2>1 DEF Nodes, Node
  <2>. QED  BY <2>1, <2>2, TreesGoOn
<1>. QED  BY <1>1, <1>2

LEMMA TreeElements ==
    ASSUME DepthAssumption, NEW h \in 0..MaxDepth, NEW x \in Trees[h]
    PROVE  (h = 0 => x.elements = <<>>) /\ (h > 0 => x.elements \in Seq(Trees[h - 1]))
<1>1. CASE h = 0
  BY <1>1, TreesGoOn, NodeParts
<1>2. CASE h # 0
  <2>1. h > 0 /\ h \in 1..MaxDepth
    BY <1>2 DEF DepthAssumption
  <2>. QED  BY <2>1, TreesGoOn, NodeParts
<1>. QED  BY <1>1, <1>2

\* A node is a copy if its elements are copies.
LEMMA CopyMade ==
    ASSUME DepthAssumption, NEW y \in Documents, NEW x,
           x = Node(x.name, x.type, x.value, x.quoted, x.elements), x.type = y.type,
           x.name \in STRING, x.value \in STRING, x.quoted \in BOOLEAN,
           y.type = Value => x.value = y.value /\ x.quoted = y.quoted /\ x.elements = <<>>,
           y.type # Value => Copies(x.elements, y.elements)
    PROVE  Copy(x, y)
<1>1. MaxDepth \in 0..MaxDepth
  BY DEF DepthAssumption
<1>2. y.type \in {Object, Array, Value} /\ y.elements \in Seq(Documents) /\ IsSeq(y.elements)
  BY DocumentParts DEF IsSeq
<1>3. IsSeq(x.elements)
  <2>1. <<>> \in Seq({})
    OBVIOUS
  <2>2. IsSeq(<<>>)
    BY <2>1 DEF IsSeq
  <2>. QED  BY <2>2 DEF Copies
<1>4. ASSUME NEW h \in 0..MaxDepth, y \in Trees[h] PROVE x \in Trees[h]
  <2>1. (h = 0 => y.elements = <<>>) /\ (h > 0 => y.elements \in Seq(Trees[h - 1]))
    BY <1>4, TreeElements
  <2>2. h = 0 => x.elements = <<>>
    <3>1. ASSUME h = 0, y.type # Value PROVE x.elements = <<>>
      <4>1. Len(x.elements) = 0
        BY <2>1, <3>1 DEF Copies
      <4>. QED  BY <1>3, <4>1, SeqParts
    <3>. QED  BY <3>1
  <2>3. ASSUME h > 0 PROVE x.elements \in Seq(Trees[h - 1])
    <3>1. CASE y.type = Value
      <4>1. x.elements = <<>>
        BY <3>1
      <4>2. \A S : <<>> \in Seq(S)
        OBVIOUS
      <4>. QED  BY <4>1, <4>2
    <3>2. CASE y.type # Value
      <4>1. h - 1 \in 0..MaxDepth
        BY <2>3
      <4>2. ASSUME NEW i \in 1..Len(x.elements) PROVE x.elements[i] \in Trees[h - 1]
        <5>1. i \in 1..Len(y.elements) /\ y.elements[i] \in Trees[h - 1]
          BY <2>1, <2>3, <3>2 DEF Copies
        <5>2. Copy(x.elements[i], y.elements[i])
          BY <3>2, <5>1 DEF Copies
        <5>. QED  BY <4>1, <5>1, <5>2 DEF Copy
      <4>3. x.elements = [i \in 1..Len(x.elements) |-> x.elements[i]] /\ Len(x.elements) \in Nat
        BY <1>3, SeqParts
      <4>. QED  BY <4>2, <4>3
    <3>. QED  BY <3>1, <3>2
  <2>. QED  BY <1>2, <2>2, <2>3, NodeInTree
<1>5. x \in Documents
  BY <1>1, <1>4 DEF Documents
<1>6. Serialize(x) = Serialize(y)
  <2>1. Serialize(x) = NodeText(Texts, x) /\ Serialize(y) = NodeText(Texts, y)
    BY <1>5, SerializeIs
  <2>2. CASE y.type = Value
    BY <2>1, <2>2 DEF NodeText
  <2>3. CASE y.type # Value
    <3>1. DOMAIN x.elements = DOMAIN y.elements /\ DOMAIN y.elements = 1..Len(y.elements)
      BY <1>2, <1>3, <2>3, SeqParts DEF Copies
    <3>2. ASSUME NEW i \in 1..Len(y.elements) PROVE ChildText(Texts, x, i) = ChildText(Texts, y, i)
      <4>1. x.elements[i] \in Documents /\ y.elements[i] \in Documents
        <5>1. x.elements \in Seq(Documents) /\ i \in DOMAIN x.elements /\ DOMAIN x.elements = 1..Len(x.elements)
          BY <1>3, <1>5, <3>1, DocumentParts, SeqParts
        <5>. QED  BY <1>2, <5>1
      <4>2. x.elements[i].name = y.elements[i].name /\ Serialize(x.elements[i]) = Serialize(y.elements[i])
        BY <2>3 DEF Copies, Copy
      <4>3. Texts[x.elements[i]] = Texts[y.elements[i]]
        BY <4>1, <4>2, SerializeIs
      <4>. QED  BY <4>2, <4>3 DEF ChildText, NameOf
    <3>3. ChildTexts(Texts, x) = ChildTexts(Texts, y)
      BY <3>1, <3>2 DEF ChildTexts
    <3>. QED  BY <2>1, <2>3, <3>3 DEF NodeText, ChildTexts
  <2>. QED  BY <2>2, <2>3
<1>7. ASSUME Tidy(y, TRUE) PROVE Tidy(x, TRUE)
  <2>1. Sound(y, TRUE) /\ \A i \in 1..Len(y.elements) : Tidy(y.elements[i], TRUE)
    BY <1>7, TidySplits
  <2>2. CASE y.type = Value
    <3>1. Len(x.elements) = 0
      BY <1>3, <2>2, SeqParts
    <3>2. Sound(x, TRUE)
      BY <1>3, <2>2 DEF Sound, Value, Object, Array
    <3>3. 1..Len(x.elements) = {}
      BY <3>1
    <3>. QED  BY <3>2, <3>3, TidySplits
  <2>3. CASE y.type # Value
    <3>1. Len(x.elements) = Len(y.elements) /\ \A i \in 1..Len(y.elements) : x.elements[i].name = y.elements[i].name
      BY <2>3 DEF Copies
    <3>2. Sound(x, TRUE)
      BY <1>3, <2>1, <2>3, <3>1 DEF Sound
    <3>3. \A i \in 1..Len(x.elements) : Tidy(x.elements[i], TRUE)
      BY <2>1, <2>3, <3>1 DEF Copies, Copy
    <3>. QED  BY <3>2, <3>3, TidySplits
  <2>. QED  BY <2>2, <2>3
<1>. QED  BY <1>4, <1>6, <1>7 DEF Copy

-------------------------------------------------------------------------------
(* The text of a document is read back, to the last element.                 *)

\* What a node must be for its text to be read back.
Legible(x) ==
    /\ x.type # Value => x.elements # <<>>
    /\ x.type = Array  => \A i \in 1..Len(x.elements) : x.elements[i].name = NoName
    /\ x.type = Object => \A i \in 1..Len(x.elements) : x.elements[i].name # NoName
    /\ \A i \in 1..Len(x.elements) : IsPlain(x.elements[i].name)

Readable(x) == \A p \in AllPlaces : InTree(x, p) => Legible(At(x, p))

LEMMA ReadableParts ==
    ASSUME NEW x, Len(x.elements) \in Nat, Readable(x)
    PROVE  Legible(x) /\ \A i \in 1..Len(x.elements) : Readable(x.elements[i])
<1>1. <<>> \in AllPlaces /\ InTree(x, <<>>) /\ At(x, <<>>) = x
  BY RootInTree, AtRoot DEF AllPlaces
<1>2. Legible(x)
  BY <1>1 DEF Readable
<1>3. ASSUME NEW i \in 1..Len(x.elements) PROVE Readable(x.elements[i])
  <2>1. i \in Nat
    OBVIOUS
  <2>2. ASSUME NEW q \in AllPlaces, InTree(x.elements[i], q) PROVE Legible(At(x.elements[i], q))
    <3>1. <<i>> \o q \in AllPlaces
      BY <2>1, PlaceParts
    <3>2. InTree(x, <<i>> \o q) /\ At(x, <<i>> \o q) = At(x.elements[i], q)
      BY <2>1, <2>2, ChildInTree, AtChild
    <3>. QED  BY <3>1, <3>2 DEF Readable
  <2>. QED  BY <2>2 DEF Readable
<1>. QED  BY <1>2, <1>3

\* The text of y stands behind the first k tokens, and the text or an element ends there.
Written(text, y, k) ==
    /\ Stands(text, Serialize(y), k)
    /\ k + Len(Serialize(y)) + 1 > Len(text) \/ IsSeparator(text[k + Len(Serialize(y)) + 1])

ReadsAs(read, y, end) == read.pos = end /\ Copies(read.elements, y.elements)

ReadAt(text, y, k) ==
    /\ text[k + 1] = Open(y.type) /\ k + 1 <= Len(text)
    /\ ReadsAs(Reading(text)[Cursor(k + 2, NoName, y.type)], y, k + Len(Serialize(y)) + 1)

\* A key that the loop may hold in a node of a type.
KeyOf(type) == {key \in STRING : type = Array => key = NoName}

LEMMA KeyIs == ASSUME NEW type PROVE NoName \in KeyOf(type)
  BY NoNameAssumption DEF KeyOf

\* The name of an element has been read.
LEMMA NameRead ==
    ASSUME NEW text \in Seq(Tokens), NEW c, c.name \in STRING, IsPlain(c.name), NEW p \in Nat,
           Stands(text, NameOf(c), p), NEW type \in {Object, Array}, NEW key \in KeyOf(type),
           type = Array => c.name = NoName, type = Object => c.name # NoName
    PROVE  Reading(text)[Cursor(p + 1, key, type)]
             = Reading(text)[Cursor(p + Len(NameOf(c)) + 1, c.name, type)]
<1>0. key \in STRING /\ p + 1 \in Nat /\ p + 1 > 0
  BY DEF KeyOf
<1>1. CASE type = Array
  <2>1. c.name = NoName /\ key = NoName /\ Len(NameOf(c)) = 0
    BY <1>1, NameLength DEF KeyOf
  <2>2. p + 0 + 1 = p + 1
    OBVIOUS
  <2>. QED  BY <2>1, <2>2
<1>2. CASE type # Array
  <2>1. type = Object /\ c.name # NoName /\ NameOf(c) = <<Text(c.name, TRUE), Colon>>
    BY <1>2 DEF NameOf, NameText, IsPlain
  <2>. DEFINE a == Text(c.name, TRUE)
              b == Colon
              at == Cursor(p + 1, key, type)
  <2>2. text[p + 1] = a /\ text[p + 2] = b /\ p + 2 <= Len(text)
    <3>1. NameOf(c) = <<a, b>>
      BY <2>1
    <3>. HIDE DEF a, b
    <3>2. Len(<<a, b>>) = 2 /\ <<a, b>>[1] = a /\ <<a, b>>[2] = b /\ 1 \in 1..2 /\ 2 \in 1..2
      OBVIOUS
    <3>. QED  BY <3>1, <3>2 DEF Stands
  <2>3. at \in Cursors /\ at.pos = p + 1 /\ at.key = key /\ at.type = type
    BY <1>0, CursorIs, CursorHas
  <2>4. IsScalar(a) /\ a[2] = c.name /\ a # OpenName
    BY TextKind, TextIsClosed
  <2>5. ~(at.pos > Len(text)) /\ at.pos < Len(text) /\ at.pos + 1 = p + 2 /\ at.pos + 2 = p + 2 + 1
    BY <2>2, <2>3
  <2>. HIDE DEF at, a
  <2>6. Plain(text, at) /\ IsKey(text, at.pos) /\ at.pos = EndOf(text, at.pos)
    BY <2>2, <2>3, <2>4, <2>5 DEF Plain, IsKey, EndOf
  <2>7. Turn(text, Reading(text), at) = Reading(text)[Cursor(at.pos + 2, text[at.pos][2], at.type)]
    BY <1>2, <2>3, <2>6, TurnKey
  <2>8. Turn(text, Reading(text), at) = Reading(text)[Cursor(p + 2 + 1, c.name, type)]
    BY <2>2, <2>3, <2>4, <2>5, <2>7
  <2>9. Reading(text)[at] = Turn(text, Reading(text), at)
    BY <2>3, ReadingIs
  <2>10. Len(NameOf(c)) = 2
    BY <2>1, NameLength
  <2>. QED  BY <2>8, <2>9, <2>10 DEF at
<1>. QED  BY <1>1, <1>2

\* An element is read as a copy of it, and the loop goes on behind the delimiter.
ElementRead(text, c, at, end, type) ==
    \E e : \E key \in KeyOf(type) :
        /\ Reading(text)[at] = Read(e, Reading(text)[Cursor(end + 1, key, type)])
        /\ e.name = c.name /\ Copy(e, c)

LEMMA ScalarRead ==
    ASSUME DepthAssumption, NEW text \in Seq(Tokens), NEW c \in Documents, c.type = Value, NEW p \in Nat,
           Stands(text, Serialize(c), p), NEW type \in {Object, Array},
           type = Array => c.name = NoName,
           text[p + 2] # Colon
    PROVE  ElementRead(text, c, Cursor(p + 1, c.name, type), p + Len(Serialize(c)) + 1, type)
<1>. DEFINE t  == Text(c.value, c.quoted)
            at == Cursor(p + 1, c.name, type)
            e  == Scalar(c.name, c.value, c.quoted)
<1>1. c.name \in STRING /\ c.value \in STRING /\ c.quoted \in BOOLEAN
  BY DocumentParts
<1>2. Serialize(c) = <<t>>
  BY SerializeIs DEF NodeText
<1>3. IsScalar(t) /\ t[2] = c.value /\ t[3] = c.quoted
  BY <1>1, TextKind
<1>0. t # OpenName
  BY TextIsClosed
<1>. HIDE DEF t
<1>4. text[p + 1] = t /\ p + 1 <= Len(text)
  BY <1>2, OneStands
<1>5. Len(Serialize(c)) = 1
  BY <1>2
<1>6. p + 1 \in Nat /\ p + 1 > 0 /\ (p + 1) + 1 = p + 2 /\ (p + 1) + 2 = (p + 1 + 1) + 1
  OBVIOUS
<1>7. at \in Cursors /\ at.pos = p + 1 /\ at.key = c.name /\ at.type = type
  <2>. DEFINE name == c.name
  <2>1. name \in STRING /\ type \in {Object, Array, Value}
    BY <1>1
  <2>. HIDE DEF name
  <2>2. Cursor(p + 1, name, type) \in Cursors
    BY <1>6, <2>1, CursorIs
  <2>. QED  BY <2>2, CursorHas DEF name
<1>. HIDE DEF at
<1>8. Plain(text, at) /\ ~IsKey(text, at.pos) /\ at.pos = EndOf(text, at.pos) /\ at.pos \in Nat
  BY <1>0, <1>3, <1>4, <1>6, <1>7 DEF Plain, IsKey, EndOf
<1>9. Turn(text, Reading(text), at) =
        Read(Scalar(IF at.type = Array THEN NoName ELSE at.key, text[at.pos][2], text[at.pos][3]),
             Reading(text)[Cursor(at.pos + 2, NoName, at.type)])
  BY <1>6, <1>7, <1>8, TurnScalar
<1>10. Turn(text, Reading(text), at) = Read(e, Reading(text)[Cursor((p + 1 + 1) + 1, NoName, type)])
  <2>1. (IF at.type = Array THEN NoName ELSE at.key) = c.name
    BY <1>7
  <2>. QED  BY <1>3, <1>4, <1>6, <1>7, <1>9, <2>1
<1>11. Reading(text)[at] = Turn(text, Reading(text), at)
  BY <1>7, ReadingIs
<1>12. e.name = c.name /\ Copy(e, c)
  <2>1. e = Node(c.name, Value, c.value, c.quoted, <<>>)
    BY DEF Scalar
  <2>. HIDE DEF e
  <2>2. /\ e.name = c.name /\ e.type = Value /\ e.value = c.value /\ e.quoted = c.quoted /\ e.elements = <<>>
        /\ e = Node(e.name, e.type, e.value, e.quoted, e.elements)
    BY <2>1, NodeIs
  <2>. QED  BY <1>1, <2>2, CopyMade
<1>. HIDE DEF e
<1>. QED  BY <1>5, <1>10, <1>11, <1>12, KeyIs DEF ElementRead, at

LEMMA ContainerRead ==
    ASSUME DepthAssumption, NEW text \in Seq(Tokens), NEW c \in Documents, c.type # Value, NEW p \in Nat,
           ReadAt(text, c, p), NEW type \in {Object, Array},
           type = Array => c.name = NoName
    PROVE  ElementRead(text, c, Cursor(p + 1, c.name, type), p + Len(Serialize(c)) + 1, type)
<1>. DEFINE at == Cursor(p + 1, c.name, type)
            sub == Reading(text)[Cursor(p + 2, NoName, c.type)]
            e == Node(c.name, c.type, "", TRUE, sub.elements)
            end == p + Len(Serialize(c)) + 1
<1>1. c.name \in STRING /\ c.type \in {Object, Array}
  BY DocumentParts
<1>2. text[p + 1] = Open(c.type) /\ p + 1 <= Len(text) /\ sub.pos = end /\ Copies(sub.elements, c.elements)
  BY DEF ReadAt, ReadsAs
<1>3. p + 1 \in Nat /\ p + 1 > 0 /\ (p + 1) + 1 = p + 2 /\ ~(p + 1 > Len(text))
  BY <1>2
<1>4. at \in Cursors /\ at.pos = p + 1 /\ at.key = c.name /\ at.type = type
  <2>. DEFINE name == c.name
  <2>1. name \in STRING /\ type \in {Object, Array, Value}
    BY <1>1
  <2>. HIDE DEF name
  <2>2. Cursor(p + 1, name, type) \in Cursors
    BY <1>3, <2>1, CursorIs
  <2>. QED  BY <2>2, CursorHas DEF name
<1>5. IsOpening(text[p + 1]) /\ ~IsSeparator(text[p + 1])
  BY <1>2, OpenKind
<1>6. InsideOf(text, p + 1) = Cursor(p + 2, NoName, c.type) /\ InsideOf(text, p + 1).type = c.type
  <2>1. (IF text[p + 1] = Open(Object) THEN Object ELSE Array) = c.type
    <3>1. Open(Array) # Open(Object)
      BY DEF Open, Object, Array
    <3>. QED  BY <1>1, <1>2, <3>1
  <2>2. InsideOf(text, p + 1) = Cursor(p + 2, NoName, c.type)
    BY <1>3, <2>1 DEF InsideOf
  <2>. QED  BY <2>2, CursorHas
<1>. HIDE DEF at, sub, e, end
<1>7. Turn(text, Reading(text), at) =
        Read(Node(at.key, InsideOf(text, at.pos).type, "", TRUE, Reading(text)[InsideOf(text, at.pos)].elements),
             Reading(text)[Cursor(Reading(text)[InsideOf(text, at.pos)].pos + 1, at.key, at.type)])
  BY <1>2, <1>3, <1>4, <1>5, TurnEnters
<1>8. Turn(text, Reading(text), at) = Read(e, Reading(text)[Cursor(end + 1, c.name, type)])
  BY <1>2, <1>4, <1>6, <1>7 DEF e, sub
<1>9. Reading(text)[at] = Turn(text, Reading(text), at)
  BY <1>4, ReadingIs
<1>10. e.name = c.name /\ Copy(e, c)
  <2>1. e = Node(c.name, c.type, NoName, TRUE, sub.elements)
    BY DEF e, NoName
  <2>. DEFINE f == sub.elements
              name == c.name
              type0 == c.type
  <2>0. e = Node(name, type0, NoName, TRUE, f)
    BY <2>1
  <2>2. /\ e.name = c.name /\ e.type = c.type /\ e.value = NoName /\ e.quoted \in BOOLEAN /\ e.elements = sub.elements
        /\ e = Node(e.name, e.type, e.value, e.quoted, e.elements)
    <3>. HIDE DEF f, name, type0
    <3>1. e.name = name /\ e.type = type0 /\ e.value = NoName /\ e.elements = f
      BY <2>0 DEF Node
    <3>2. e.quoted \in BOOLEAN
      BY <2>0 DEF Node
    <3>3. e = Node(e.name, e.type, e.value, e.quoted, e.elements)
      BY <2>0 DEF Node
    <3>. QED  BY <3>1, <3>2, <3>3 DEF f, name, type0
  <2>. QED  BY <1>1, <1>2, <2>2, CopyMade, NoNameAssumption
<1>11. c.name \in KeyOf(type)
  BY <1>1 DEF KeyOf
<1>. QED  BY <1>8, <1>9, <1>10, <1>11 DEF ElementRead, at, end

LEMMA ChildRead ==
    ASSUME DepthAssumption, NEW y \in Documents, y.type # Value, Readable(y),
           NEW text \in Seq(Tokens), NEW k \in Nat, Stands(text, Serialize(y), k),
           NEW i \in 1..Len(y.elements),
           y.elements[i].type # Value =>
              \A p \in Nat : Written(text, y.elements[i], p) => ReadAt(text, y.elements[i], p),
           NEW key \in KeyOf(y.type)
    PROVE  ElementRead(text, y.elements[i], Cursor(Begin(y, k, i) + 1, key, y.type), Begin(y, k, i + 1), y.type)
<1>. DEFINE c == y.elements[i]
            p == Begin(y, k, i) + Len(NameOf(c))
            b == Begin(y, k, i)
            type == y.type
            end == k + Before(y, i) + 2
<1>1. c \in Documents /\ c.name \in STRING /\ type \in {Object, Array} /\ Len(y.elements) \in Nat
  <2>1. c \in Documents /\ Len(y.elements) \in Nat
    BY DocumentParts
  <2>. HIDE DEF c
  <2>. QED  BY <2>1, DocumentParts
<1>2. (type = Array => c.name = NoName) /\ (type = Object => c.name # NoName) /\ IsPlain(c.name)
  BY <1>1, ReadableParts DEF Legible
<1>3. /\ Before(y, i - 1) \in Nat /\ Before(y, i) \in Nat
      /\ Stands(text, NameOf(c), b) /\ Stands(text, Serialize(c), p)
      /\ p + Len(Serialize(c)) = k + 1 + Before(y, i)
  BY ChildWritten
<1>4. IsSeparator(text[end]) /\ text[end] # Colon /\ end <= Len(text) /\ Begin(y, k, i + 1) = end
  BY ChildEnds
<1>5. b \in Nat /\ Len(NameOf(c)) \in Nat /\ p \in Nat
  <2>1. b \in Nat
    BY <1>3 DEF Begin
  <2>2. Len(NameOf(c)) \in Nat
    BY NameLength
  <2>. QED  BY <2>1, <2>2
<1>6. Len(Serialize(c)) \in Nat
  <2>. HIDE DEF c
  <2>1. Serialize(c) \in Seq(Tokens)
    BY <1>1, TextIsText
  <2>. HIDE DEF Tokens
  <2>. QED  BY <2>1
<1>7. p + Len(Serialize(c)) + 1 = end
  BY <1>3, <1>5, <1>6
<1>8. c.type # Value => \A q \in Nat : Written(text, c, q) => ReadAt(text, c, q)
  OBVIOUS
<1>9. p = b + Len(NameOf(c)) /\ key \in KeyOf(type)
  OBVIOUS
<1>. HIDE DEF c, p, b, type, end
<1>10. Reading(text)[Cursor(b + 1, key, type)] = Reading(text)[Cursor(p + 1, c.name, type)]
  BY <1>1, <1>2, <1>3, <1>5, <1>9, NameRead
<1>11. ElementRead(text, c, Cursor(p + 1, c.name, type), end, type)
  <2>1. CASE c.type = Value
    <3>1. Len(Serialize(c)) = 1
      <4>. DEFINE t == Text(c.value, c.quoted)
      <4>1. Serialize(c) = <<t>>
        BY <1>1, <2>1, SerializeIs DEF NodeText
      <4>. HIDE DEF t
      <4>. QED  BY <4>1
    <3>2. p + 2 = end
      BY <1>5, <1>7, <3>1
    <3>3. text[p + 2] # Colon
      BY <1>4, <3>2
    <3>. QED  BY <1>1, <1>2, <1>3, <1>5, <1>7, <2>1, <3>3, ScalarRead
  <2>2. CASE c.type # Value
    <3>1. Written(text, c, p)
      BY <1>3, <1>4, <1>7 DEF Written
    <3>2. ReadAt(text, c, p)
      BY <1>5, <1>8, <2>2, <3>1
    <3>. QED  BY <1>1, <1>2, <1>5, <1>7, <2>2, <3>2, ContainerRead
  <2>. QED  BY <2>1, <2>2
<1>. QED  BY <1>4, <1>10, <1>11 DEF ElementRead, c, b, type

\* What is read from the element i on.
RestOf(text, y, i, at, end) ==
    /\ Reading(text)[at].pos = end /\ IsSeq(Reading(text)[at].elements)
    /\ Len(Reading(text)[at].elements) = Len(y.elements) + 1 - i
    /\ \A j \in 1..Len(Reading(text)[at].elements) :
          /\ Reading(text)[at].elements[j].name = y.elements[j + i - 1].name
          /\ Copy(Reading(text)[at].elements[j], y.elements[j + i - 1])

LEMMA RestGrows ==
    ASSUME NEW text, NEW y, Len(y.elements) \in Nat, NEW i \in 1..Len(y.elements), NEW at, NEW next, NEW end, NEW e,
           Reading(text)[at] = Read(e, Reading(text)[next]),
           e.name = y.elements[i].name, Copy(e, y.elements[i]),
           RestOf(text, y, i + 1, next, end)
    PROVE  RestOf(text, y, i, at, end)
<1>. DEFINE f == Reading(text)[next].elements
            g == Reading(text)[at].elements
<1>1. g = <<e>> \o f /\ Reading(text)[at].pos = Reading(text)[next].pos
  BY DEF Read
<1>2. PICK S : f \in Seq(S)
  BY DEF RestOf, IsSeq
<1>3. Len(f) = Len(y.elements) - i
  <2>1. RestOf(text, y, i + 1, next, end)
    OBVIOUS
  <2>2. Len(f) = Len(y.elements) + 1 - (i + 1)
    BY <2>1, Zenon DEF RestOf
  <2>3. ASSUME NEW a \in Nat, NEW b \in 1..a PROVE a + 1 - (b + 1) = a - b
    OBVIOUS
  <2>4. Len(y.elements) + 1 - (i + 1) = Len(y.elements) - i
    BY <2>3
  <2>. HIDE DEF f
  <2>. QED  BY <2>2, <2>4
<1>4. \A j \in 1..Len(f) : f[j].name = y.elements[j + (i + 1) - 1].name /\ Copy(f[j], y.elements[j + (i + 1) - 1])
  <2>1. RestOf(text, y, i + 1, next, end)
    OBVIOUS
  <2>. QED  BY <2>1, Zenon DEF RestOf
<1>. HIDE DEF f, g
<1>5. f \in Seq(S \cup {e}) /\ <<e>> \in Seq(S \cup {e}) /\ Len(<<e>>) = 1 /\ <<e>>[1] = e /\ Len(f) \in Nat
  BY <1>2
<1>6. /\ g \in Seq(S \cup {e}) /\ Len(g) = 1 + Len(f) /\ g[1] = e
      /\ \A j \in 2..Len(g) : g[j] = f[j - 1]
  <2>1. /\ <<e>> \o f \in Seq(S \cup {e}) /\ Len(<<e>> \o f) = Len(<<e>>) + Len(f)
        /\ \A j \in 1..(Len(<<e>>) + Len(f)) :
              (<<e>> \o f)[j] = IF j <= Len(<<e>>) THEN <<e>>[j] ELSE f[j - Len(<<e>>)]
    BY <1>5, ConcatProperties
  <2>. QED  BY <1>1, <1>5, <2>1
<1>7. ASSUME NEW j \in 1..Len(g)
      PROVE  g[j].name = y.elements[j + i - 1].name /\ Copy(g[j], y.elements[j + i - 1])
  <2>1. CASE j = 1
    <3>1. j + i - 1 = i
      BY <2>1
    <3>. QED  BY <1>6, <2>1, <3>1
  <2>2. CASE j # 1
    <3>1. j \in 2..Len(g) /\ j - 1 \in 1..Len(f) /\ (j - 1) + (i + 1) - 1 = j + i - 1
      BY <1>5, <1>6, <2>2
    <3>. QED  BY <1>4, <1>6, <3>1
  <2>. QED  BY <2>1, <2>2
<1>8. Len(g) = Len(y.elements) + 1 - i
  BY <1>3, <1>6
<1>9. IsSeq(g)
  BY <1>6 DEF IsSeq
<1>10. Reading(text)[at].pos = end
  BY <1>1 DEF RestOf
<1>. QED  BY <1>7, <1>8, <1>9, <1>10 DEF RestOf, g

\* A node is read if its elements are.
LEMMA NodeRead ==
    ASSUME DepthAssumption, NEW y \in Documents, y.type # Value, Readable(y),
           NEW text \in Seq(Tokens), NEW k \in Nat, Written(text, y, k),
           \A i \in 1..Len(y.elements) : y.elements[i].type # Value =>
              \A p \in Nat : Written(text, y.elements[i], p) => ReadAt(text, y.elements[i], p)
    PROVE  ReadAt(text, y, k)
<1>. DEFINE n == Len(y.elements)
            end == k + Len(Serialize(y)) + 1
            type == y.type
            At_(i, key) == Cursor(Begin(y, k, i) + 1, key, type)
            G == {d \in 0..n : \A key \in KeyOf(type) : RestOf(text, y, n + 1 - d, At_(n + 1 - d, key), end)}
<1>0. n \in Nat /\ n # 0 /\ type \in {Object, Array} /\ Stands(text, Serialize(y), k)
  <2>1. y.elements \in Seq(Documents) /\ y.type \in {Object, Array, Value}
    BY DocumentParts
  <2>2. y.elements # <<>>
    BY <2>1, ReadableParts DEF Legible
  <2>. QED  BY <2>1, <2>2 DEF Written
<1>1. 0 \in G
  <2>1. ASSUME NEW key \in KeyOf(type) PROVE RestOf(text, y, n + 1, At_(n + 1, key), end)
    <3>. DEFINE at == At_(n + 1, key)
    <3>1. n \in 1..n
      BY <1>0
    <3>2. Begin(y, k, n + 1) = k + Before(y, n) + 2
      BY <1>0, <3>1, ChildEnds
    <3>3. Len(Serialize(y)) = Before(y, n) + 2 /\ Before(y, n) \in Nat
      BY <1>0, WrittenParts
    <3>4. Begin(y, k, n + 1) + 1 = end /\ end \in Nat /\ end > 0
      BY <3>2, <3>3
    <3>5. key \in STRING /\ type \in {Object, Array, Value}
      BY <1>0 DEF KeyOf
    <3>6. at = Cursor(end, key, type)
      BY <3>4
    <3>7. end > Len(text) \/ IsSeparator(text[end])
      BY DEF Written
    <3>. HIDE DEF at, end, type
    <3>8. at \in Cursors /\ at.pos = end
      BY <3>4, <3>5, <3>6, CursorIs, CursorHas
    <3>9. Turn(text, Reading(text), at) = Stop(end)
      BY <3>7, <3>8, TurnStops
    <3>10. Reading(text)[at] = Stop(end)
      BY <3>8, <3>9, ReadingIs
    <3>11. Stop(end).pos = end /\ Stop(end).elements = <<>>
      BY DEF Stop
    <3>12. IsSeq(<<>>) /\ Len(<<>>) = 0
      <4>1. <<>> \in Seq({}) /\ Len(<<>>) = 0
        OBVIOUS
      <4>. QED  BY <4>1 DEF IsSeq
    <3>13. Len(y.elements) + 1 - (n + 1) = 0 /\ 1..0 = {}
      BY <1>0
    <3>14. RestOf(text, y, n + 1, at, end)
      BY <3>10, <3>11, <3>12, <3>13 DEF RestOf
    <3>. QED  BY <3>14 DEF at
  <2>2. n + 1 - 0 = n + 1 /\ 0 \in 0..n
    BY <1>0
  <2>. QED  BY <2>1, <2>2
<1>2. ASSUME NEW m \in 1..n, m - 1 \in G PROVE m \in G
  <2>. DEFINE i == n + 1 - m
  <2>1. i \in 1..n /\ i + 1 = n + 1 - (m - 1) /\ m \in 0..n
    BY <1>0
  <2>2. \A key \in KeyOf(type) : RestOf(text, y, i + 1, At_(i + 1, key), end)
    BY <1>2, <2>1
  <2>. HIDE DEF i
  <2>3. ASSUME NEW key \in KeyOf(type) PROVE RestOf(text, y, i, At_(i, key), end)
    <3>1. ElementRead(text, y.elements[i], Cursor(Begin(y, k, i) + 1, key, y.type), Begin(y, k, i + 1), y.type)
      BY <1>0, <2>1, ChildRead
    <3>2. PICK e : \E key0 \in KeyOf(type) :
            /\ Reading(text)[At_(i, key)] = Read(e, Reading(text)[At_(i + 1, key0)])
            /\ e.name = y.elements[i].name /\ Copy(e, y.elements[i])
      BY <3>1 DEF ElementRead
    <3>3. PICK key0 \in KeyOf(type) :
            /\ Reading(text)[At_(i, key)] = Read(e, Reading(text)[At_(i + 1, key0)])
            /\ e.name = y.elements[i].name /\ Copy(e, y.elements[i])
      BY <3>2
    <3>4. RestOf(text, y, i + 1, At_(i + 1, key0), end)
      BY <2>2
    <3>. HIDE DEF At_, end
    <3>. QED  BY <1>0, <2>1, <3>3, <3>4, RestGrows
  <2>. QED  BY <2>1, <2>3 DEF i
<1>3. \A d \in 0..n : d \in G
  <2>. HIDE DEF G
  <2>. QED  BY <1>0, <1>1, <1>2, Upwards
<1>4. RestOf(text, y, 1, At_(1, NoName), end)
  <2>1. n \in G
    <3>1. n \in 0..n
      BY <1>0
    <3>. HIDE DEF G
    <3>. QED  BY <1>3, <3>1
  <2>2. n + 1 - n = 1
    BY <1>0
  <2>3. RestOf(text, y, n + 1 - n, At_(n + 1 - n, NoName), end)
    BY <2>1, KeyIs
  <2>. QED  BY <2>2, <2>3
<1>5. At_(1, NoName) = Cursor(k + 2, NoName, y.type)
  <2>1. Begin(y, k, 1) = k + 1
    <3>1. Before(y, 1 - 1) = 0
      BY DEF Before, FlatTo
    <3>. QED  BY <3>1 DEF Begin
  <2>2. (k + 1) + 1 = k + 2
    OBVIOUS
  <2>. QED  BY <2>1, <2>2
<1>6. ReadsAs(Reading(text)[Cursor(k + 2, NoName, y.type)], y, end)
  <2>. DEFINE r == Reading(text)[Cursor(k + 2, NoName, y.type)]
  <2>1. r.pos = end /\ IsSeq(r.elements) /\ Len(r.elements) = n + 1 - 1
    BY <1>4, <1>5 DEF RestOf
  <2>2. \A j \in 1..Len(r.elements) : r.elements[j].name = y.elements[j + 1 - 1].name /\ Copy(r.elements[j], y.elements[j + 1 - 1])
    BY <1>4, <1>5 DEF RestOf
  <2>3. n + 1 - 1 = n /\ \A j \in 1..n : j + 1 - 1 = j
    BY <1>0
  <2>4. Len(r.elements) = Len(y.elements)
    BY <2>1, <2>3
  <2>. HIDE DEF r, end, n
  <2>5. \A j \in 1..Len(y.elements) : r.elements[j].name = y.elements[j].name /\ Copy(r.elements[j], y.elements[j])
    <3>1. n = Len(y.elements)
      BY DEF n
    <3>. QED  BY <2>2, <2>3, <2>4, <3>1
  <2>6. Copies(r.elements, y.elements)
    BY <2>1, <2>4, <2>5 DEF Copies
  <2>. QED  BY <2>1, <2>6 DEF ReadsAs, r
<1>7. text[k + 1] = Open(y.type) /\ k + 1 <= Len(text)
  BY <1>0, WrittenParts
<1>. QED  BY <1>6, <1>7 DEF ReadAt

LEMMA ReadsBack ==
    ASSUME DepthAssumption
    PROVE  \A y \in Documents : y.type # Value /\ Readable(y) =>
              \A text \in Seq(Tokens) : \A k \in Nat : Written(text, y, k) => ReadAt(text, y, k)
<1>. DEFINE IsRead(y) == y.type # Value /\ Readable(y) =>
              \A text \in Seq(Tokens) : \A k \in Nat : Written(text, y, k) => ReadAt(text, y, k)
            G == {y \in Documents : IsRead(y)}
<1>1. ASSUME NEW y \in Documents, \A i \in 1..Len(y.elements) : y.elements[i] \in G
      PROVE  y \in G
  <2>1. ASSUME y.type # Value, Readable(y), NEW text \in Seq(Tokens), NEW k \in Nat, Written(text, y, k)
        PROVE  ReadAt(text, y, k)
    <3>1. \A i \in 1..Len(y.elements) : Readable(y.elements[i])
      <4>1. Len(y.elements) \in Nat
        BY DocumentParts
      <4>. QED  BY <2>1, <4>1, ReadableParts
    <3>2. \A i \in 1..Len(y.elements) : y.elements[i].type # Value =>
              \A p \in Nat : Written(text, y.elements[i], p) => ReadAt(text, y.elements[i], p)
      <4>. HIDE DEF Tokens
      <4>. QED  BY <1>1, <3>1
    <3>. HIDE DEF Tokens
    <3>. QED  BY <2>1, <3>2, NodeRead
  <2>2. IsRead(y)
    BY <2>1
  <2>. QED  BY <2>2
<1>2. \A y \in Documents : y \in G
  <2>. HIDE DEF G
  <2>. QED  BY <1>1, EveryDocument
<1>. QED  BY <1>2

-------------------------------------------------------------------------------
(* A document that is saved and loaded again.                                *)

\* What parse() makes of a new document.
LEMMA ParseIs ==
    ASSUME NEW text, 1 <= Len(text), text[1] = Open(Object), NEW e, e = Reading(text)[Cursor(2, NoName, Object)].elements,
           IsSeq(e)
    PROVE  Parse(NewDocument, text) = Node(NoName, Object, NoName, TRUE, e)
<1>1. Entered(text, 1, Object) = InsideOf(text, 1)
  BY OpenKind, EnteredIs
<1>2. InsideOf(text, 1) = Cursor(2, NoName, Object) /\ Cursor(2, NoName, Object).type = Object
  <2>1. InsideOf(text, 1) = Cursor(1 + 1, NoName, Object)
    BY DEF InsideOf
  <2>2. 1 + 1 = 2
    OBVIOUS
  <2>. QED  BY <2>1, <2>2, CursorHas
<1>3. <<>> \o e = e
  <2>1. PICK S : e \in Seq(S)
    BY DEF IsSeq
  <2>. QED  BY <2>1, ConcatEmptySeq
<1>4. NewDocument.type = Object /\ NewDocument.elements = <<>> /\ NewDocument = Node(NoName, Object, NoName, TRUE, <<>>)
  BY DEF NewDocument, Empty, Node, NoName
<1>5. NewDocument.name = NoName /\ NewDocument.value = NoName /\ NewDocument.quoted = TRUE
  BY DEF NewDocument, Empty, Node, NoName
<1>6. Parse(NewDocument, text) = Node(NoName, Object, NoName, TRUE, <<>> \o e)
  BY <1>1, <1>2, <1>4, <1>5 DEF Parse
<1>. QED  BY <1>3, <1>6

\* The elements of the document are read, if there are any or not.
LEMMA RootRead ==
    ASSUME DepthAssumption, NEW y \in Documents, y.type = Object,
           y.elements # <<>> => Readable(y)
    PROVE  /\ 1 <= Len(Serialize(y)) /\ Serialize(y)[1] = Open(Object)
           /\ Copies(Reading(Serialize(y))[Cursor(2, NoName, Object)].elements, y.elements)
<1>. DEFINE text == Serialize(y)
            at == Cursor(2, NoName, Object)
<1>1. text \in Seq(Tokens) /\ y.type # Value
  BY TextIsText DEF Object, Value
<1>2. Stands(text, text, 0) /\ Len(text) \in Nat
  <2>1. Len(text) \in Nat
    <3>. HIDE DEF text, Tokens
    <3>. QED  BY <1>1
  <2>2. \A j \in 1..Len(text) : 0 + j = j
    BY <2>1
  <2>. QED  BY <2>1, <2>2 DEF Stands
<1>3. 0 + 1 = 1 /\ 0 + 2 = 2 /\ 0 \in Nat
  OBVIOUS
<1>4. /\ text[0 + 1] = Open(y.type) /\ 0 + 1 <= Len(text)
      /\ Before(y, Len(y.elements)) \in Nat
      /\ Len(text) = Before(y, Len(y.elements)) + 2
      /\ text[0 + Before(y, Len(y.elements)) + 2] = Close(y.type)
  BY <1>1, <1>2, <1>3, WrittenParts
<1>5. CASE y.elements = <<>>
  <2>1. Len(y.elements) = 0 /\ Before(y, 0) = 0
    BY <1>5 DEF Before, FlatTo
  <2>2. text[2] = Close(y.type)
    BY <1>4, <2>1
  <2>3. at \in Cursors /\ at.pos = 2
    <3>1. 2 \in Nat /\ 2 > 0 /\ NoName \in STRING /\ Object \in {Object, Array, Value}
      BY NoNameAssumption
    <3>. QED  BY <3>1, CursorIs, CursorHas
  <2>. HIDE DEF at, text
  <2>4. Turn(text, Reading(text), at) = Stop(2)
    BY <2>2, <2>3, CloseKind, TurnStops
  <2>5. Reading(text)[at] = Stop(2)
    BY <1>1, <2>3, <2>4, ReadingIs
  <2>6. Reading(text)[at].elements = <<>>
    BY <2>5 DEF Stop
  <2>7. Copies(<<>>, y.elements)
    <3>1. <<>> \in Seq({}) /\ 1..0 = {}
      OBVIOUS
    <3>. QED  BY <1>5, <2>1, <3>1 DEF Copies, IsSeq
  <2>. QED  BY <1>3, <1>4, <2>6, <2>7 DEF text, at
<1>6. CASE y.elements # <<>>
  <2>1. 0 + Len(text) + 1 > Len(text)
    BY <1>2
  <2>2. Written(text, y, 0)
    BY <1>2, <2>1 DEF Written
  <2>3. ReadAt(text, y, 0)
    BY <1>1, <1>3, <1>6, <2>2, ReadsBack
  <2>4. Copies(Reading(text)[Cursor(0 + 2, NoName, y.type)].elements, y.elements)
    BY <2>3 DEF ReadAt, ReadsAs
  <2>. QED  BY <1>3, <1>4, <2>4
<1>. QED  BY <1>5, <1>6

LEMMA ReloadedIsCopy ==
    ASSUME DepthAssumption, NEW y \in Documents, y.type = Object, y.elements # <<>> => Readable(y)
    PROVE  /\ Copy(Reloaded(y), y)
           /\ Reloaded(y).type = Object
<1>. DEFINE text == Serialize(y)
            e == Reading(text)[Cursor(2, NoName, Object)].elements
            x == Reloaded(y)
<1>1. 1 <= Len(text) /\ text[1] = Open(Object) /\ Copies(e, y.elements)
  BY RootRead
<1>. HIDE DEF e
<1>2. IsSeq(e)
  BY <1>1 DEF Copies
<1>3. x = Node(NoName, Object, NoName, TRUE, e)
  BY <1>1, <1>2, ParseIs DEF Reloaded, e
<1>. HIDE DEF x
<1>4. /\ x.name = NoName /\ x.type = Object /\ x.value = NoName /\ x.quoted \in BOOLEAN /\ x.elements = e
  BY <1>3 DEF Node
<1>5. x = Node(x.name, x.type, x.value, x.quoted, x.elements)
  BY <1>3 DEF Node
<1>6. Copy(x, y)
  <2>1. y.type # Value
    BY DEF Object, Value
  <2>. QED  BY <1>1, <1>4, <1>5, <2>1, CopyMade, NoNameAssumption
<1>. QED  BY <1>4, <1>6 DEF x

-------------------------------------------------------------------------------
(* A tree with another node at a place.                                      *)

\* The function that Put defines: what stands i steps above the place.
PutFirst(node, place, new) == new
PutNext(prev, node, place, new, i) == WithElement(At(node, SubSeq(place, 1, Len(place) - i)), place[Len(place) - i + 1], prev)
PutIs(f, node, place, new, n) == f = [i \in 0..n |-> IF i = 0 THEN PutFirst(node, place, new) ELSE PutNext(f[i - 1], node, place, new, i)]

LEMMA PutExists == ASSUME NEW node, NEW place, NEW new, NEW n \in Nat PROVE \E f : PutIs(f, node, place, new, n)
<1>. DEFINE G == {m \in 0..n : \E f : PutIs(f, node, place, new, m)}
<1>1. 0 \in G
  <2>. DEFINE f == [i \in 0..0 |-> PutFirst(node, place, new)]
  <2>1. \A i \in 0..0 : i = 0
    OBVIOUS
  <2>2. PutIs(f, node, place, new, 0)
    BY <2>1 DEF PutIs
  <2>. HIDE DEF f
  <2>. QED  BY <2>2
<1>2. ASSUME NEW m \in 1..n, m - 1 \in G PROVE m \in G
  <2>1. PICK g : PutIs(g, node, place, new, m - 1)
    BY <1>2
  <2>. DEFINE f == [i \in 0..m |-> IF i = m THEN PutNext(g[m - 1], node, place, new, m) ELSE g[i]]
  <2>2. ASSUME NEW i \in 0..m PROVE f[i] = IF i = 0 THEN PutFirst(node, place, new) ELSE PutNext(f[i - 1], node, place, new, i)
    <3>1. i # 0 => i - 1 \in 0..m /\ i - 1 # m
      OBVIOUS
    <3>2. CASE i = m
      BY <3>1, <3>2
    <3>3. CASE i # m
      <4>1. i \in 0..(m - 1)
        BY <3>3
      <4>2. g[i] = IF i = 0 THEN PutFirst(node, place, new) ELSE PutNext(g[i - 1], node, place, new, i)
        BY <2>1, <4>1 DEF PutIs
      <4>. QED  BY <3>1, <3>3, <4>2
    <3>. QED  BY <3>2, <3>3
  <2>3. f = [i \in 0..m |-> f[i]]
    OBVIOUS
  <2>. HIDE DEF f
  <2>4. PutIs(f, node, place, new, m)
    BY <2>2, <2>3 DEF PutIs
  <2>5. m \in 0..n
    OBVIOUS
  <2>. QED  BY <2>4, <2>5
<1>3. \A m \in 0..n : m \in G
  <2>. HIDE DEF G
  <2>. QED  BY <1>1, <1>2, Upwards
<1>4. n \in G
  BY <1>3
<1>. QED  BY <1>4

PutTo(node, place, new, k) == (CHOOSE f : PutIs(f, node, place, new, Len(place)))[k]

PutSteps(node, place, new) ==
    \A i \in 1..Len(place) : PutTo(node, place, new, i) = PutNext(PutTo(node, place, new, i - 1), node, place, new, i)

LEMMA PutGoesOn ==
    ASSUME NEW node, NEW place, NEW new, Len(place) \in Nat
    PROVE  /\ Put(node, place, new) = PutTo(node, place, new, Len(place))
           /\ PutTo(node, place, new, 0) = new
           /\ PutSteps(node, place, new)
<1>1. Put(node, place, new) = PutTo(node, place, new, Len(place))
  BY DEF Put, PutTo, PutIs, PutFirst, PutNext
<1>. DEFINE f == CHOOSE f : PutIs(f, node, place, new, Len(place))
<1>2. PutIs(f, node, place, new, Len(place))
  BY PutExists
<1>3. \A i \in 0..Len(place) : PutTo(node, place, new, i) = f[i]
  BY DEF PutTo
<1>. HIDE DEF f
<1>4. f[0] = new /\ \A i \in 1..Len(place) : f[i] = PutNext(f[i - 1], node, place, new, i)
  BY <1>2 DEF PutIs, PutFirst
<1>5. ASSUME NEW i \in 1..Len(place)
      PROVE  PutTo(node, place, new, i) = PutNext(PutTo(node, place, new, i - 1), node, place, new, i)
  <2>1. i \in 0..Len(place) /\ i - 1 \in 0..Len(place)
    OBVIOUS
  <2>2. PutTo(node, place, new, i) = f[i] /\ PutTo(node, place, new, i - 1) = f[i - 1]
    BY <1>3, <2>1
  <2>. QED  BY <1>4, <2>2
<1>6. 0 \in 0..Len(place)
  OBVIOUS
<1>. QED  BY <1>1, <1>3, <1>4, <1>5, <1>6 DEF PutSteps

LEMMA PutRoot == ASSUME NEW node, NEW new PROVE Put(node, <<>>, new) = new
<1>1. Len(<<>>) = 0 /\ Len(<<>>) \in Nat
  OBVIOUS
<1>. QED  BY <1>1, PutGoesOn

\* The first steps of a place that begins with i.
LEMMA FirstSteps ==
    ASSUME NEW i \in Nat, NEW q \in AllPlaces, NEW m \in 0..Len(q)
    PROVE  /\ SubSeq(<<i>> \o q, 1, 1 + m) = <<i>> \o SubSeq(q, 1, m)
           /\ SubSeq(q, 1, m) \in AllPlaces
<1>. DEFINE p == <<i>> \o q
            a == SubSeq(p, 1, 1 + m)
            r == SubSeq(q, 1, m)
            b == <<i>> \o r
<1>1. /\ p \in AllPlaces /\ Len(p) = 1 + Len(q) /\ Len(q) \in Nat
      /\ p[1] = i /\ \A k \in 1..Len(q) : p[1 + k] = q[k]
  BY PlaceParts
<1>2. m \in Nat /\ m \in Int /\ 1 + m \in Int /\ 1 \in Int
  BY <1>1
<1>3. r \in Seq(Nat) /\ Len(r) = m /\ \A k \in 1..m : r[k] = q[k]
  <2>1. \A k \in 1..m : q[k] \in Nat
    BY <1>1 DEF AllPlaces
  <2>2. /\ r \in Seq(Nat) /\ Len(r) = IF 1 <= m THEN m - 1 + 1 ELSE 0
        /\ \A k \in 1..(m - 1 + 1) : r[k] = q[1 + k - 1]
    BY <1>2, <2>1, SubSeqProperties
  <2>. HIDE DEF r
  <2>3. m - 1 + 1 = m /\ (1 <= m \/ m = 0)
    BY <1>2
  <2>4. Len(r) = m
    BY <2>2, <2>3
  <2>5. ASSUME NEW k \in 1..m PROVE r[k] = q[k]
    <3>1. k \in 1..(m - 1 + 1) /\ 1 + k - 1 = k
      BY <1>2
    <3>. QED  BY <2>2, <3>1
  <2>. QED  BY <2>2, <2>4, <2>5
<1>. HIDE DEF p
<1>4. a \in Seq(Nat) /\ Len(a) = 1 + m /\ \A k \in 1..(1 + m) : a[k] = p[k]
  <2>1. \A k \in 1..(1 + m) : p[k] \in Nat
    BY <1>1, <1>2 DEF AllPlaces
  <2>2. /\ a \in Seq(Nat) /\ Len(a) = IF 1 <= 1 + m THEN (1 + m) - 1 + 1 ELSE 0
        /\ \A k \in 1..((1 + m) - 1 + 1) : a[k] = p[1 + k - 1]
    BY <1>2, <2>1, SubSeqProperties
  <2>. HIDE DEF a
  <2>3. (1 + m) - 1 + 1 = 1 + m /\ 1 <= 1 + m /\ \A k \in 1..(1 + m) : 1 + k - 1 = k
    BY <1>2
  <2>. QED  BY <2>2, <2>3
<1>. HIDE DEF a, r
<1>5. r \in AllPlaces
  BY <1>3 DEF AllPlaces
<1>6. /\ b \in Seq(Nat) /\ Len(b) = 1 + m /\ b[1] = i /\ \A k \in 1..m : b[1 + k] = r[k]
  BY <1>3, <1>5, PlaceParts DEF AllPlaces
<1>. HIDE DEF b
<1>7. \A k \in 1..(1 + m) : a[k] = b[k]
  <2>1. ASSUME NEW k \in 1..(1 + m) PROVE a[k] = b[k]
    <3>1. CASE k = 1
      BY <1>1, <1>4, <1>6, <3>1
    <3>2. CASE k # 1
      <4>1. k - 1 \in 1..m /\ k - 1 \in 1..Len(q) /\ 1 + (k - 1) = k
        BY <1>1, <1>2, <3>2
      <4>2. a[1 + (k - 1)] = p[1 + (k - 1)] /\ p[1 + (k - 1)] = q[k - 1] /\ b[1 + (k - 1)] = r[k - 1] /\ r[k - 1] = q[k - 1]
        BY <1>1, <1>3, <1>4, <1>6, <4>1
      <4>. QED  BY <4>1, <4>2
    <3>. QED  BY <3>1, <3>2
  <2>. QED  BY <2>1
<1>8. a = b
  BY <1>4, <1>6, <1>7, SeqEqual
<1>. QED  BY <1>5, <1>8 DEF a, b, r, p

LEMMA PutToChild ==
    ASSUME NEW node, NEW i \in Nat, NEW q \in AllPlaces, NEW new
    PROVE  \A k \in 0..Len(q) : PutTo(node, <<i>> \o q, new, k) = PutTo(node.elements[i], q, new, k)
<1>. DEFINE p == <<i>> \o q
            child == node.elements[i]
            G == {k \in 0..Len(q) : PutTo(node, p, new, k) = PutTo(child, q, new, k)}
<1>0. /\ Len(p) = 1 + Len(q) /\ Len(q) \in Nat /\ Len(p) \in Nat
      /\ p[1] = i /\ \A k \in 1..Len(q) : p[1 + k] = q[k]
  BY PlaceParts
<1>a. child = node.elements[i] /\ p = <<i>> \o q
  OBVIOUS
<1>b. /\ PutSteps(node, p, new) /\ PutTo(node, p, new, 0) = new
      /\ PutSteps(child, q, new) /\ PutTo(child, q, new, 0) = new
  <2>. HIDE DEF p, child
  <2>. QED  BY <1>0, PutGoesOn
<1>. HIDE DEF p, child
<1>1. 0 \in G
  BY <1>0, <1>b
<1>2. ASSUME NEW m \in 1..Len(q), m - 1 \in G PROVE m \in G
  <2>. DEFINE r == SubSeq(q, 1, Len(q) - m)
              v == PutTo(child, q, new, m - 1)
  <2>1. PutTo(node, p, new, m - 1) = v /\ m \in 0..Len(q) /\ m \in 1..Len(p)
    BY <1>0, <1>2
  <2>2. /\ Len(p) - m = 1 + (Len(q) - m) /\ Len(q) - m \in 0..Len(q) /\ Len(q) - m + 1 \in 1..Len(q)
        /\ Len(p) - m + 1 = 1 + (Len(q) - m + 1)
    BY <1>0
  <2>3. SubSeq(p, 1, Len(p) - m) = <<i>> \o r /\ r \in AllPlaces
    BY <1>a, <2>2, FirstSteps
  <2>4. At(node, SubSeq(p, 1, Len(p) - m)) = At(child, r)
    <3>. HIDE DEF r
    <3>. QED  BY <1>a, <2>3, AtChild
  <2>5. p[Len(p) - m + 1] = q[Len(q) - m + 1]
    BY <1>0, <2>2
  <2>6. PutTo(node, p, new, m) = WithElement(At(node, SubSeq(p, 1, Len(p) - m)), p[Len(p) - m + 1], PutTo(node, p, new, m - 1))
    BY <1>b, <2>1 DEF PutSteps, PutNext
  <2>7. PutTo(child, q, new, m) = WithElement(At(child, r), q[Len(q) - m + 1], v)
    BY <1>b DEF PutSteps, PutNext
  <2>. HIDE DEF r, v
  <2>8. PutTo(node, p, new, m) = PutTo(child, q, new, m)
    BY <2>1, <2>4, <2>5, <2>6, <2>7
  <2>. QED  BY <2>1, <2>8
<1>3. \A k \in 0..Len(q) : k \in G
  <2>. HIDE DEF G
  <2>. QED  BY <1>0, <1>1, <1>2, Upwards
<1>. QED  BY <1>3 DEF p, child

LEMMA PutChild ==
    ASSUME NEW node, NEW i \in Nat, NEW q \in AllPlaces, NEW new
    PROVE  Put(node, <<i>> \o q, new) = WithElement(node, i, Put(node.elements[i], q, new))
<1>. DEFINE p == <<i>> \o q
            child == node.elements[i]
            n == Len(q)
<1>1. Len(p) = 1 + n /\ n \in Nat /\ n \in 0..n /\ Len(p) \in Nat /\ p[1] = i
  BY PlaceParts
<1>2. PutTo(node, p, new, n) = PutTo(child, q, new, n)
  <2>1. \A k \in 0..Len(q) : PutTo(node, p, new, k) = PutTo(child, q, new, k)
    BY PutToChild
  <2>. HIDE DEF p, child
  <2>. QED  BY <1>1, <2>1
<1>3. Put(child, q, new) = PutTo(child, q, new, n)
  BY <1>1, PutGoesOn
<1>4. SubSeq(p, 1, 0) = <<>>
  <2>. HIDE DEF p
  <2>1. 1 \in Int /\ 0 \in Int /\ 0 < 1
    OBVIOUS
  <2>. QED  BY <2>1, SubSeqEmpty
<1>. HIDE DEF p, child, n
<1>5. Put(node, p, new) = PutTo(node, p, new, Len(p)) /\ PutSteps(node, p, new)
  BY <1>1, PutGoesOn
<1>6. Len(p) \in 1..Len(p) /\ Len(p) - 1 = n /\ Len(p) - Len(p) = 0 /\ Len(p) - Len(p) + 1 = 1
  BY <1>1
<1>7. PutTo(node, p, new, Len(p)) = WithElement(At(node, SubSeq(p, 1, Len(p) - Len(p))), p[Len(p) - Len(p) + 1], PutTo(node, p, new, Len(p) - 1))
  BY <1>5, <1>6 DEF PutSteps, PutNext
<1>8. At(node, SubSeq(p, 1, Len(p) - Len(p))) = node
  BY <1>4, <1>6, AtRoot
<1>9. PutTo(node, p, new, Len(p)) = WithElement(node, i, PutTo(node, p, new, n))
  BY <1>1, <1>6, <1>7, <1>8
<1>. QED  BY <1>2, <1>3, <1>5, <1>9 DEF p, child

\* A place behind a place.
LEMMA PlaceJoin ==
    ASSUME NEW i \in Nat, NEW q \in AllPlaces, NEW r \in AllPlaces
    PROVE  /\ (<<i>> \o q) \o r = <<i>> \o (q \o r)
           /\ q \o r \in AllPlaces /\ <<>> \o r = r
<1>1. <<i>> \in Seq(Nat) /\ q \in Seq(Nat) /\ r \in Seq(Nat)
  BY DEF AllPlaces
<1>2. q \o r \in Seq(Nat)
  BY <1>1, ConcatProperties
<1>3. (<<i>> \o q) \o r = <<i>> \o (q \o r)
  BY <1>1, ConcatAssociative
<1>4. <<>> \o r = r
  BY <1>1, ConcatEmptySeq
<1>. QED  BY <1>2, <1>3, <1>4 DEF AllPlaces

Joined(x, p, r) ==
    /\ At(x, p \o r) = At(At(x, p), r)
    /\ (InTree(x, p \o r) <=> (InTree(x, p) /\ InTree(At(x, p), r)))

LEMMA PlaceBehind ==
    ASSUME NEW r \in AllPlaces
    PROVE  \A p \in AllPlaces : \A x : Joined(x, p, r)
<1>. DEFINE G == {p \in AllPlaces : \A x : Joined(x, p, r)}
<1>1. <<>> \in G
  <2>1. ASSUME NEW x PROVE Joined(x, <<>>, r)
    <3>1. <<>> \o r = r
      BY ConcatEmptySeq DEF AllPlaces
    <3>. QED  BY <3>1, AtRoot, RootInTree DEF Joined
  <2>. QED  BY <2>1 DEF AllPlaces
<1>2. ASSUME NEW i \in Nat, NEW q \in AllPlaces, q \in G PROVE <<i>> \o q \in G
  <2>1. ASSUME NEW x PROVE Joined(x, <<i>> \o q, r)
    <3>. DEFINE c == x.elements[i]
                s == q \o r
    <3>1. Joined(c, q, r)
      BY <1>2
    <3>2. s \in AllPlaces /\ (<<i>> \o q) \o r = <<i>> \o s
      BY PlaceJoin
    <3>3. At(x, <<i>> \o q) = At(c, q) /\ (InTree(x, <<i>> \o q) <=> i \in 1..Len(x.elements) /\ InTree(c, q))
      BY AtChild, ChildInTree
    <3>. HIDE DEF s
    <3>4. At(x, <<i>> \o s) = At(c, s) /\ (InTree(x, <<i>> \o s) <=> i \in 1..Len(x.elements) /\ InTree(c, s))
      BY <3>2, AtChild, ChildInTree
    <3>5. At(c, s) = At(At(c, q), r) /\ (InTree(c, s) <=> InTree(c, q) /\ InTree(At(c, q), r))
      BY <3>1 DEF Joined, s
    <3>. HIDE DEF c
    <3>. QED  BY <3>2, <3>3, <3>4, <3>5 DEF Joined
  <2>2. <<i>> \o q \in AllPlaces
    BY PlaceParts
  <2>. QED  BY <2>1, <2>2
<1>3. \A p \in AllPlaces : p \in G
  <2>. HIDE DEF G
  <2>. QED  BY <1>1, <1>2, EveryPlace
<1>. QED  BY <1>3

LEMMA TidyAt ==
    ASSUME NEW x, NEW unique, Tidy(x, unique), NEW p \in AllPlaces, InTree(x, p)
    PROVE  Tidy(At(x, p), unique)
<1>1. ASSUME NEW r \in AllPlaces, InTree(At(x, p), r) PROVE Sound(At(At(x, p), r), unique)
  <2>1. Joined(x, p, r)
    BY PlaceBehind
  <2>2. p \o r \in AllPlaces
    BY ConcatProperties DEF AllPlaces
  <2>3. InTree(x, p \o r) /\ At(x, p \o r) = At(At(x, p), r)
    BY <1>1, <2>1 DEF Joined
  <2>4. Sound(At(x, p \o r), unique)
    BY <2>2, <2>3 DEF Tidy
  <2>. QED  BY <2>3, <2>4
<1>. QED  BY <1>1 DEF Tidy

Same(x, y) == y.name = x.name /\ y.type = x.type

LEMMA WithElementIs ==
    ASSUME NEW x, x = Node(x.name, x.type, x.value, x.quoted, x.elements), IsSeq(x.elements),
           NEW i \in 1..Len(x.elements), NEW e, NEW w, w = WithElement(x, i, e)
    PROVE  /\ w = Node(w.name, w.type, w.value, w.quoted, w.elements) /\ Same(x, w)
           /\ IsSeq(w.elements) /\ Len(w.elements) = Len(x.elements)
           /\ \A j \in 1..Len(x.elements) : w.elements[j] = IF j = i THEN e ELSE x.elements[j]
<1>. DEFINE f == [x.elements EXCEPT ![i] = e]
<1>1. w = Node(x.name, x.type, x.value, x.quoted, f)
  BY DEF WithElement, Node
<1>2. PICK S : x.elements \in Seq(S)
  BY DEF IsSeq
<1>3. /\ f \in Seq(S \cup {e}) /\ Len(f) = Len(x.elements)
      /\ \A j \in 1..Len(x.elements) : f[j] = IF j = i THEN e ELSE x.elements[j]
  BY <1>2
<1>. HIDE DEF f
<1>4. w = Node(w.name, w.type, w.value, w.quoted, w.elements) /\ w.elements = f /\ w.name = x.name /\ w.type = x.type
  BY <1>1 DEF Node
<1>. QED  BY <1>3, <1>4 DEF IsSeq, Same

\* A node in a sound one gives way to another with its name.
LEMMA WithElementTidy ==
    ASSUME NEW x, NEW unique, Tidy(x, unique), NEW i \in 1..Len(x.elements), NEW e, Tidy(e, unique),
           e.name = x.elements[i].name, NEW w, w = WithElement(x, i, e)
    PROVE  /\ Tidy(w, unique) /\ Same(x, w) /\ Len(w.elements) = Len(x.elements)
           /\ w.elements[i] = e
<1>1. Sound(x, unique) /\ \A j \in 1..Len(x.elements) : Tidy(x.elements[j], unique)
  BY TidySplits
<1>2. x = Node(x.name, x.type, x.value, x.quoted, x.elements) /\ IsSeq(x.elements) /\ Len(x.elements) \in Nat
  BY <1>1, SeqParts DEF Sound
<1>3. /\ w = Node(w.name, w.type, w.value, w.quoted, w.elements) /\ Same(x, w)
      /\ IsSeq(w.elements) /\ Len(w.elements) = Len(x.elements)
      /\ \A j \in 1..Len(x.elements) : w.elements[j] = IF j = i THEN e ELSE x.elements[j]
  BY <1>2, WithElementIs
<1>4. \A j \in 1..Len(x.elements) : w.elements[j].name = x.elements[j].name
  BY <1>3
<1>5. ASSUME x.elements = <<>> PROVE FALSE
  BY <1>5
<1>6. Sound(w, unique)
  BY <1>1, <1>3, <1>4, <1>5 DEF Sound, Same
<1>7. \A j \in 1..Len(w.elements) : Tidy(w.elements[j], unique)
  BY <1>1, <1>3
<1>8. Tidy(w, unique)
  BY <1>6, <1>7, TidySplits
<1>. QED  BY <1>3, <1>8

PutKeeps(x, p, new, unique) ==
    Tidy(x, unique) /\ InTree(x, p) /\ new.name = At(x, p).name =>
        /\ Tidy(Put(x, p, new), unique) /\ Put(x, p, new).name = x.name
        /\ p # <<>> \/ new.type = At(x, p).type => Put(x, p, new).type = x.type
        /\ InTree(Put(x, p, new), p) /\ At(Put(x, p, new), p) = new

LEMMA PutTidy ==
    ASSUME NEW unique, NEW new, Tidy(new, unique)
    PROVE  \A p \in AllPlaces : \A x : PutKeeps(x, p, new, unique)
<1>. DEFINE G == {p \in AllPlaces : \A x : PutKeeps(x, p, new, unique)}
<1>1. <<>> \in G
  <2>1. ASSUME NEW x PROVE PutKeeps(x, <<>>, new, unique)
    BY AtRoot, RootInTree, PutRoot DEF PutKeeps
  <2>. QED  BY <2>1 DEF AllPlaces
<1>2. ASSUME NEW i \in Nat, NEW q \in AllPlaces, q \in G PROVE <<i>> \o q \in G
  <2>0. <<i>> \o q \in AllPlaces /\ <<i>> \o q # <<>>
    <3>1. Len(<<i>> \o q) = 1 + Len(q) /\ Len(q) \in Nat /\ <<i>> \o q \in AllPlaces
      BY PlaceParts
    <3>2. Len(<<i>> \o q) # 0
      BY <3>1
    <3>. QED  BY <3>1, <3>2
  <2>1. ASSUME NEW x, Tidy(x, unique), InTree(x, <<i>> \o q), new.name = At(x, <<i>> \o q).name
        PROVE  /\ Tidy(Put(x, <<i>> \o q, new), unique) /\ Same(x, Put(x, <<i>> \o q, new))
               /\ InTree(Put(x, <<i>> \o q, new), <<i>> \o q) /\ At(Put(x, <<i>> \o q, new), <<i>> \o q) = new
    <3>. DEFINE c == x.elements[i]
                e == Put(c, q, new)
                w == Put(x, <<i>> \o q, new)
    <3>1. i \in 1..Len(x.elements) /\ InTree(c, q) /\ At(x, <<i>> \o q) = At(c, q)
      BY <2>1, ChildInTree, AtChild
    <3>2. w = WithElement(x, i, e)
      BY PutChild
    <3>3. Tidy(c, unique)
      BY <2>1, <3>1, TidySplits
    <3>4. PutKeeps(c, q, new, unique)
      BY <1>2
    <3>. HIDE DEF c
    <3>5. Tidy(e, unique) /\ e.name = c.name /\ InTree(e, q) /\ At(e, q) = new
      BY <2>1, <3>1, <3>3, <3>4 DEF PutKeeps
    <3>. HIDE DEF e, w
    <3>6. Tidy(w, unique) /\ Same(x, w) /\ Len(w.elements) = Len(x.elements) /\ w.elements[i] = e
      <4>1. e.name = x.elements[i].name
        BY <3>5 DEF c
      <4>. QED  BY <2>1, <3>1, <3>2, <3>5, <4>1, WithElementTidy
    <3>7. InTree(w, <<i>> \o q) /\ At(w, <<i>> \o q) = new
      <4>1. InTree(w, <<i>> \o q) <=> i \in 1..Len(w.elements) /\ InTree(w.elements[i], q)
        BY ChildInTree
      <4>2. At(w, <<i>> \o q) = At(w.elements[i], q)
        BY AtChild
      <4>. QED  BY <3>1, <3>5, <3>6, <4>1, <4>2
    <3>. QED  BY <3>6, <3>7 DEF w
  <2>2. \A x : PutKeeps(x, <<i>> \o q, new, unique)
    BY <2>1 DEF PutKeeps, Same
  <2>. QED  BY <2>0, <2>2
<1>3. \A p \in AllPlaces : p \in G
  <2>. HIDE DEF G
  <2>. QED  BY <1>1, <1>2, EveryPlace
<1>. QED  BY <1>3

-------------------------------------------------------------------------------
(* What the operations make of a sound tree.                                 *)

LEMMA BareTidy ==
    ASSUME NEW x, x = Node(x.name, x.type, x.value, x.quoted, x.elements), x.elements = <<>>, NEW unique
    PROVE  Tidy(x, unique)
<1>1. IsSeq(x.elements) /\ Len(x.elements) = 0 /\ 1..0 = {}
  <2>1. <<>> \in Seq({}) /\ Len(<<>>) = 0 /\ 1..0 = {}
    OBVIOUS
  <2>. QED  BY <2>1 DEF IsSeq
<1>2. Sound(x, unique)
  BY <1>1 DEF Sound
<1>. QED  BY <1>1, <1>2, TidySplits

\* A child is added that a node of this type may have.
LEMMA AddTidy ==
    ASSUME NEW x, NEW unique, Tidy(x, unique), NEW c, Tidy(c, unique), x.type # Value,
           x.type = Array => c.name = NoName,
           unique /\ x.type = Object => \A j \in 1..Len(x.elements) : x.elements[j].name # c.name \/ c.name = NoName,
           NEW w, w = AddChild(x, c)
    PROVE  /\ Tidy(w, unique) /\ Same(x, w) /\ Len(x.elements) \in Nat
           /\ Len(w.elements) = Len(x.elements) + 1 /\ w.elements[Len(x.elements) + 1] = c
           /\ \A j \in 1..Len(x.elements) : w.elements[j] = x.elements[j]
<1>. DEFINE f == Append(x.elements, c)
            n == Len(x.elements)
<1>1. Sound(x, unique) /\ \A j \in 1..Len(x.elements) : Tidy(x.elements[j], unique)
  BY TidySplits
<1>2. x = Node(x.name, x.type, x.value, x.quoted, x.elements) /\ IsSeq(x.elements) /\ n \in Nat
  BY <1>1, SeqParts DEF Sound
<1>3. w = Node(x.name, x.type, x.value, x.quoted, f)
  BY <1>2 DEF AddChild, Node
<1>4. PICK S : x.elements \in Seq(S)
  BY <1>2 DEF IsSeq
<1>5. f \in Seq(S \cup {c}) /\ Len(f) = n + 1 /\ f[n + 1] = c /\ \A j \in 1..n : f[j] = x.elements[j]
  <2>1. x.elements \in Seq(S \cup {c}) /\ c \in S \cup {c}
    BY <1>4
  <2>. QED  BY <2>1, AppendProperties
<1>. HIDE DEF f
<1>6. /\ w = Node(w.name, w.type, w.value, w.quoted, w.elements) /\ w.elements = f
      /\ w.name = x.name /\ w.type = x.type
  BY <1>3 DEF Node
<1>7. ASSUME NEW j \in 1..(n + 1) PROVE j = n + 1 \/ j \in 1..n
  BY <1>2
<1>8. Sound(w, unique)
  <2>1. IsSeq(w.elements)
    BY <1>5, <1>6 DEF IsSeq
  <2>2. ASSUME w.type = Array, NEW j \in 1..Len(w.elements) PROVE w.elements[j].name = NoName
    <3>1. j = n + 1 \/ j \in 1..n
      BY <1>5, <1>6, <1>7, <2>2
    <3>. QED  BY <1>1, <1>5, <1>6, <2>2, <3>1 DEF Sound
  <2>3. ASSUME unique, w.type = Object, NEW i \in 1..Len(w.elements), NEW j \in 1..Len(w.elements),
               w.elements[i].name = w.elements[j].name, w.elements[i].name # NoName
        PROVE  i = j
    <3>1. (i = n + 1 \/ i \in 1..n) /\ (j = n + 1 \/ j \in 1..n)
      BY <1>5, <1>6, <1>7
    <3>2. \A l \in 1..n : x.elements[l].name # c.name \/ c.name = NoName
      BY <1>6, <2>3
    <3>3. \A l, m \in 1..n : x.elements[l].name = x.elements[m].name /\ x.elements[l].name # NoName => l = m
      BY <1>1, <1>6, <2>3 DEF Sound
    <3>4. CASE i \in 1..n /\ j \in 1..n
      <4>1. w.elements[i] = x.elements[i] /\ w.elements[j] = x.elements[j]
        BY <1>5, <1>6, <3>4
      <4>. QED  BY <2>3, <3>3, <3>4, <4>1
    <3>5. CASE i = n + 1 /\ j \in 1..n
      <4>1. w.elements[i] = c /\ w.elements[j] = x.elements[j]
        BY <1>5, <1>6, <3>5
      <4>. QED  BY <2>3, <3>2, <3>5, <4>1
    <3>6. CASE i \in 1..n /\ j = n + 1
      <4>1. w.elements[j] = c /\ w.elements[i] = x.elements[i]
        BY <1>5, <1>6, <3>6
      <4>. QED  BY <2>3, <3>2, <3>6, <4>1
    <3>. QED  BY <3>1, <3>4, <3>5, <3>6
  <2>. QED  BY <1>6, <2>1, <2>2, <2>3 DEF Sound
<1>9. ASSUME NEW j \in 1..Len(w.elements) PROVE Tidy(w.elements[j], unique)
  <2>1. j = n + 1 \/ j \in 1..n
    BY <1>5, <1>6, <1>7
  <2>. QED  BY <1>1, <1>5, <1>6, <2>1
<1>10. Tidy(w, unique)
  BY <1>8, <1>9, TidySplits
<1>. QED  BY <1>2, <1>5, <1>6, <1>10 DEF Same

LEMMA ChildNamedIs ==
    ASSUME NEW node, IsSeq(node.elements), NEW name
    PROVE  \/ /\ ChildNamed(node, name) = 0
              /\ \A j \in 1..Len(node.elements) : node.elements[j].name # name
           \/ /\ ChildNamed(node, name) \in 1..Len(node.elements)
              /\ node.elements[ChildNamed(node, name)].name = name
              /\ \A j \in 1..Len(node.elements) : node.elements[j].name = name => ChildNamed(node, name) <= j
<1>. DEFINE found == {i \in 1..Len(node.elements) : node.elements[i].name = name}
            Least(i) == \A j \in found : i <= j
<1>0. Len(node.elements) \in Nat
  BY SeqParts
<1>1. ChildNamed(node, name) = IF found = {} THEN 0 ELSE CHOOSE i \in found : Least(i)
  BY DEF ChildNamed
<1>2. CASE found = {}
  BY <1>1, <1>2
<1>3. CASE found # {}
  <2>1. found \subseteq Nat
    BY <1>0
  <2>2. \E i \in found : Least(i)
    <3>. HIDE DEF found
    <3>. QED  BY <1>3, <2>1, LeastNumber
  <2>. DEFINE c == CHOOSE i \in found : Least(i)
  <2>3. c \in found /\ Least(c)
    <3>. HIDE DEF found, Least
    <3>. QED  BY <2>2
  <2>4. ChildNamed(node, name) = c
    BY <1>1, <1>3
  <2>. HIDE DEF c
  <2>. QED  BY <2>3, <2>4
<1>. QED  BY <1>2, <1>3

\* A child is removed.
LEMMA RemovedTidy ==
    ASSUME NEW x, NEW unique, Tidy(x, unique), NEW name, NEW w, w = Removed(x, name)
    PROVE  Tidy(w, unique) /\ Same(x, w)
<1>. DEFINE i == ChildNamed(x, name)
            n == Len(x.elements)
<1>1. Sound(x, unique) /\ \A j \in 1..Len(x.elements) : Tidy(x.elements[j], unique)
  BY TidySplits
<1>2. x = Node(x.name, x.type, x.value, x.quoted, x.elements) /\ IsSeq(x.elements) /\ n \in Nat
  BY <1>1, SeqParts DEF Sound
<1>3. i = 0 \/ i \in 1..n
  BY <1>2, ChildNamedIs
<1>4. CASE i = 0
  BY <1>4 DEF Removed, Same
<1>5. CASE i \in 1..n
  <2>. DEFINE f == RemoveAt(x.elements, i)
              a == SubSeq(x.elements, 1, i - 1)
              b == SubSeq(x.elements, i + 1, n)
  <2>1. w = [x EXCEPT !.elements = f]
    BY <1>2, <1>5 DEF Removed
  <2>2. f = a \o b
    BY DEF RemoveAt
  <2>3. PICK S : x.elements \in Seq(S)
    BY <1>2 DEF IsSeq
  <2>. HIDE DEF i
  <2>4. i \in Int /\ i - 1 \in Int /\ i + 1 \in Int /\ n \in Int /\ 1 \in Int
    BY <1>2, <1>5
  <2>5. a \in Seq(S) /\ Len(a) = i - 1 /\ \A j \in 1..(i - 1) : a[j] = x.elements[j]
    <3>1. \A j \in 1..(i - 1) : x.elements[j] \in S
      BY <1>2, <1>5, <2>3
    <3>2. /\ a \in Seq(S) /\ Len(a) = IF 1 <= i - 1 THEN (i - 1) - 1 + 1 ELSE 0
          /\ \A j \in 1..((i - 1) - 1 + 1) : a[j] = x.elements[1 + j - 1]
      BY <2>4, <3>1, SubSeqProperties
    <3>. HIDE DEF a
    <3>3. (i - 1) - 1 + 1 = i - 1 /\ (~(1 <= i - 1) => i - 1 = 0) /\ \A j \in 1..(i - 1) : 1 + j - 1 = j
      BY <1>2, <1>5
    <3>. QED  BY <3>2, <3>3
  <2>6. b \in Seq(S) /\ Len(b) = n - i /\ \A j \in 1..(n - i) : b[j] = x.elements[i + j]
    <3>1. \A j \in (i + 1)..n : x.elements[j] \in S
      BY <1>2, <1>5, <2>3
    <3>2. /\ b \in Seq(S) /\ Len(b) = IF i + 1 <= n THEN n - (i + 1) + 1 ELSE 0
          /\ \A j \in 1..(n - (i + 1) + 1) : b[j] = x.elements[(i + 1) + j - 1]
      BY <2>4, <3>1, SubSeqProperties
    <3>. HIDE DEF b, n
    <3>3. n - (i + 1) + 1 = n - i /\ (~(i + 1 <= n) => n - i = 0) /\ \A j \in 1..(n - i) : (i + 1) + j - 1 = i + j
      BY <1>2, <1>5
    <3>. QED  BY <3>2, <3>3
  <2>. HIDE DEF a, b, f
  <2>. DEFINE old(j) == IF j < i THEN j ELSE j + 1
  <2>7. f \in Seq(S) /\ Len(f) = n - 1 /\ \A j \in 1..(n - 1) : f[j] = x.elements[old(j)]
    <3>1. /\ a \o b \in Seq(S) /\ Len(a \o b) = Len(a) + Len(b)
          /\ \A j \in 1..(Len(a) + Len(b)) : (a \o b)[j] = IF j <= Len(a) THEN a[j] ELSE b[j - Len(a)]
      BY <2>5, <2>6, ConcatProperties
    <3>2. Len(a) + Len(b) = n - 1
      <4>. HIDE DEF n
      <4>. QED  BY <1>2, <1>5, <2>5, <2>6
    <3>3. ASSUME NEW j \in 1..(n - 1) PROVE f[j] = x.elements[old(j)]
      <4>. HIDE DEF n
      <4>1. f[j] = IF j <= Len(a) THEN a[j] ELSE b[j - Len(a)]
        BY <2>2, <3>1, <3>2
      <4>2. CASE j < i
        <5>1. j <= Len(a) /\ j \in 1..(i - 1)
          BY <1>2, <1>5, <2>5, <4>2
        <5>. QED  BY <2>5, <4>1, <4>2, <5>1
      <4>3. CASE ~(j < i)
        <5>1. ~(j <= Len(a)) /\ j - Len(a) \in 1..(n - i) /\ i + (j - Len(a)) = j + 1
          BY <1>2, <1>5, <2>5, <4>3
        <5>. QED  BY <2>6, <4>1, <4>3, <5>1
      <4>. QED  BY <4>2, <4>3
    <3>. QED  BY <2>2, <3>1, <3>2, <3>3
  <2>8. w = Node(x.name, x.type, x.value, x.quoted, f)
    BY <1>2, <2>1 DEF Node
  <2>9. /\ w = Node(w.name, w.type, w.value, w.quoted, w.elements) /\ w.elements = f
        /\ w.name = x.name /\ w.type = x.type
    BY <2>8 DEF Node
  <2>10. \A j \in 1..(n - 1) : old(j) \in 1..n
    <3>. HIDE DEF n
    <3>. QED  BY <1>2, <1>5
  <2>11. \A j, l \in 1..(n - 1) : old(j) = old(l) => j = l
    <3>. HIDE DEF n
    <3>. QED  BY <1>2, <1>5
  <2>. HIDE DEF old
  <2>12. Sound(w, unique)
    <3>1. IsSeq(w.elements)
      BY <2>7, <2>9 DEF IsSeq
    <3>2. ASSUME w.type = Array, NEW j \in 1..Len(w.elements) PROVE w.elements[j].name = NoName
      BY <1>1, <2>7, <2>9, <2>10, <3>2 DEF Sound
    <3>3. ASSUME unique, w.type = Value PROVE FALSE
      <4>1. x.elements = <<>>
        BY <1>1, <2>9, <3>3 DEF Sound
      <4>2. n = 0
        BY <4>1
      <4>. QED  BY <1>5, <4>2
    <3>4. ASSUME unique, w.type = Object, NEW j \in 1..Len(w.elements), NEW l \in 1..Len(w.elements),
                 w.elements[j].name = w.elements[l].name, w.elements[j].name # NoName
          PROVE  j = l
      <4>1. old(j) \in 1..n /\ old(l) \in 1..n /\ w.elements[j] = x.elements[old(j)] /\ w.elements[l] = x.elements[old(l)]
        BY <2>7, <2>9, <2>10
      <4>2. \A p, q \in 1..n : x.elements[p].name = x.elements[q].name /\ x.elements[p].name # NoName => p = q
        BY <1>1, <2>9, <3>4 DEF Sound
      <4>3. old(j) = old(l)
        BY <3>4, <4>1, <4>2
      <4>4. j \in 1..(n - 1) /\ l \in 1..(n - 1)
        BY <2>7, <2>9
      <4>. QED  BY <2>11, <4>3, <4>4
    <3>. QED  BY <2>9, <3>1, <3>2, <3>3, <3>4 DEF Sound
  <2>13. \A j \in 1..Len(w.elements) : Tidy(w.elements[j], unique)
    BY <1>1, <2>7, <2>9, <2>10
  <2>14. Tidy(w, unique)
    BY <2>12, <2>13, TidySplits
  <2>. QED  BY <2>9, <2>14 DEF Same
<1>. QED  BY <1>3, <1>4, <1>5

\* All children are removed.
LEMMA ClearedTidy ==
    ASSUME NEW x, NEW unique, Tidy(x, unique), NEW w, w = [x EXCEPT !.elements = <<>>]
    PROVE  Tidy(w, unique) /\ Same(x, w)
<1>1. x = Node(x.name, x.type, x.value, x.quoted, x.elements)
  BY TidySplits DEF Sound
<1>2. w = Node(x.name, x.type, x.value, x.quoted, <<>>)
  BY <1>1 DEF Node
<1>3. w = Node(w.name, w.type, w.value, w.quoted, w.elements) /\ w.elements = <<>> /\ w.name = x.name /\ w.type = x.type
  BY <1>2 DEF Node
<1>4. Tidy(w, unique)
  BY <1>3, BareTidy
<1>. QED  BY <1>3, <1>4 DEF Same

LegalKey(key) == key \in Seq(STRING) /\ Len(key) > 0 /\ \A i \in 1..Len(key) : key[i] # NoName

\* The function that Find defines: what is found of the first i names.
FindFirst(node, key) == <<>>
FindNext(prev, node, key, i) == IF prev = Nowhere THEN Nowhere
    ELSE LET n == ChildNamed(At(node, prev), key[i]) IN IF n = 0 THEN Nowhere ELSE Append(prev, n)
FindIs(f, node, key, n) == f = [i \in 0..n |-> IF i = 0 THEN FindFirst(node, key) ELSE FindNext(f[i - 1], node, key, i)]

LEMMA FindExists == ASSUME NEW node, NEW key, NEW n \in Nat PROVE \E f : FindIs(f, node, key, n)
<1>. DEFINE G == {m \in 0..n : \E f : FindIs(f, node, key, m)}
<1>1. 0 \in G
  <2>. DEFINE f == [i \in 0..0 |-> FindFirst(node, key)]
  <2>1. \A i \in 0..0 : i = 0
    OBVIOUS
  <2>2. FindIs(f, node, key, 0)
    BY <2>1 DEF FindIs
  <2>. HIDE DEF f
  <2>. QED  BY <2>2
<1>2. ASSUME NEW m \in 1..n, m - 1 \in G PROVE m \in G
  <2>1. PICK g : FindIs(g, node, key, m - 1)
    BY <1>2
  <2>. DEFINE f == [i \in 0..m |-> IF i = m THEN FindNext(g[m - 1], node, key, m) ELSE g[i]]
  <2>2. ASSUME NEW i \in 0..m PROVE f[i] = IF i = 0 THEN FindFirst(node, key) ELSE FindNext(f[i - 1], node, key, i)
    <3>1. i # 0 => i - 1 \in 0..m /\ i - 1 # m
      OBVIOUS
    <3>2. CASE i = m
      BY <3>1, <3>2
    <3>3. CASE i # m
      <4>1. i \in 0..(m - 1)
        BY <3>3
      <4>2. g[i] = IF i = 0 THEN FindFirst(node, key) ELSE FindNext(g[i - 1], node, key, i)
        BY <2>1, <4>1 DEF FindIs
      <4>. QED  BY <3>1, <3>3, <4>2
    <3>. QED  BY <3>2, <3>3
  <2>3. f = [i \in 0..m |-> f[i]]
    OBVIOUS
  <2>. HIDE DEF f
  <2>4. FindIs(f, node, key, m)
    BY <2>2, <2>3 DEF FindIs
  <2>5. m \in 0..n
    OBVIOUS
  <2>. QED  BY <2>4, <2>5
<1>3. \A m \in 0..n : m \in G
  <2>. HIDE DEF G
  <2>. QED  BY <1>1, <1>2, Upwards
<1>4. n \in G
  BY <1>3
<1>. QED  BY <1>4

FindTo(node, key, k) == (CHOOSE f : FindIs(f, node, key, Len(key)))[k]

LEMMA FindGoesOn ==
    ASSUME NEW node, NEW key, Len(key) \in Nat
    PROVE  /\ Find(node, key) = FindTo(node, key, Len(key))
           /\ FindTo(node, key, 0) = <<>>
           /\ \A i \in 1..Len(key) : FindTo(node, key, i) = FindNext(FindTo(node, key, i - 1), node, key, i)
<1>1. Find(node, key) = FindTo(node, key, Len(key))
  BY DEF Find, FindTo, FindIs, FindFirst, FindNext
<1>. DEFINE f == CHOOSE f : FindIs(f, node, key, Len(key))
<1>2. FindIs(f, node, key, Len(key))
  BY FindExists
<1>3. \A i \in 0..Len(key) : FindTo(node, key, i) = f[i]
  BY DEF FindTo
<1>. HIDE DEF f
<1>4. f[0] = <<>> /\ \A i \in 1..Len(key) : f[i] = FindNext(f[i - 1], node, key, i)
  BY <1>2 DEF FindIs, FindFirst
<1>5. ASSUME NEW i \in 1..Len(key)
      PROVE  FindTo(node, key, i) = FindNext(FindTo(node, key, i - 1), node, key, i)
  <2>1. i \in 0..Len(key) /\ i - 1 \in 0..Len(key)
    OBVIOUS
  <2>2. FindTo(node, key, i) = f[i] /\ FindTo(node, key, i - 1) = f[i - 1]
    BY <1>3, <2>1
  <2>. QED  BY <1>4, <2>2
<1>6. 0 \in 0..Len(key)
  OBVIOUS
<1>. QED  BY <1>1, <1>3, <1>4, <1>5, <1>6

LEMMA OneStep ==
    ASSUME NEW x, NEW i \in Nat
    PROVE  <<i>> \in AllPlaces /\ At(x, <<i>>) = x.elements[i] /\ (InTree(x, <<i>>) <=> i \in 1..Len(x.elements))
<1>1. <<>> \in AllPlaces /\ <<i>> \in Seq(Nat)
  BY DEF AllPlaces
<1>2. <<i>> \o <<>> = <<i>>
  BY <1>1, ConcatEmptySeq
<1>3. At(x, <<i>> \o <<>>) = At(x.elements[i], <<>>)
  BY <1>1, AtChild
<1>4. InTree(x, <<i>> \o <<>>) <=> i \in 1..Len(x.elements) /\ InTree(x.elements[i], <<>>)
  BY <1>1, ChildInTree
<1>. QED  BY <1>1, <1>2, <1>3, <1>4, AtRoot, RootInTree DEF AllPlaces

LEMMA PutOne ==
    ASSUME NEW x, NEW i \in Nat, NEW new
    PROVE  Put(x, <<i>>, new) = WithElement(x, i, new)
<1>1. <<>> \in AllPlaces /\ <<i>> \o <<>> = <<i>>
  BY ConcatEmptySeq DEF AllPlaces
<1>2. Put(x, <<i>> \o <<>>, new) = WithElement(x, i, Put(x.elements[i], <<>>, new))
  BY <1>1, PutChild
<1>. QED  BY <1>1, <1>2, PutRoot

LEMMA StepBehind ==
    ASSUME NEW x, NEW p \in AllPlaces, InTree(x, p), NEW i \in Nat, i \in 1..Len(At(x, p).elements)
    PROVE  Append(p, i) \in AllPlaces /\ InTree(x, Append(p, i)) /\ Len(Append(p, i)) = Len(p) + 1
<1>1. Append(p, i) = p \o <<i>>
  BY AppendIsConcat DEF AllPlaces
<1>2. <<i>> \in AllPlaces /\ InTree(At(x, p), <<i>>)
  BY OneStep
<1>3. Joined(x, p, <<i>>)
  BY <1>2, PlaceBehind
<1>4. InTree(x, p \o <<i>>)
  BY <1>2, <1>3 DEF Joined
<1>5. Append(p, i) \in AllPlaces /\ Len(Append(p, i)) = Len(p) + 1
  BY DEF AllPlaces
<1>. QED  BY <1>1, <1>4, <1>5

Leads(node, place, n) == place \in AllPlaces /\ InTree(node, place) /\ Len(place) = n

LEMMA FindLeads ==
    ASSUME NEW node, NEW unique, Tidy(node, unique), NEW key, Len(key) \in Nat
    PROVE  Find(node, key) = Nowhere \/ Leads(node, Find(node, key), Len(key))
<1>. DEFINE G == {k \in 0..Len(key) : FindTo(node, key, k) = Nowhere \/ Leads(node, FindTo(node, key, k), k)}
<1>1. 0 \in G
  <2>1. Leads(node, <<>>, 0)
    BY RootInTree DEF Leads, AllPlaces
  <2>. QED  BY <2>1, FindGoesOn
<1>2. ASSUME NEW m \in 1..Len(key), m - 1 \in G PROVE m \in G
  <2>. DEFINE p == FindTo(node, key, m - 1)
              i == ChildNamed(At(node, p), key[m])
  <2>1. FindTo(node, key, m) = IF p = Nowhere THEN Nowhere ELSE IF i = 0 THEN Nowhere ELSE Append(p, i)
    BY FindGoesOn DEF FindNext
  <2>2. p = Nowhere \/ Leads(node, p, m - 1)
    BY <1>2
  <2>3. m \in 0..Len(key) /\ (m - 1) + 1 = m
    OBVIOUS
  <2>4. CASE p = Nowhere \/ i = 0
    <3>1. FindTo(node, key, m) = Nowhere
      BY <2>1, <2>4
    <3>. QED  BY <2>3, <3>1
  <2>5. CASE p # Nowhere /\ i # 0
    <3>. DEFINE x == At(node, p)
    <3>1. Leads(node, p, m - 1)
      BY <2>2, <2>5
    <3>2. Tidy(x, unique)
      BY <3>1, TidyAt DEF Leads
    <3>. HIDE DEF x
    <3>3. IsSeq(x.elements) /\ Len(x.elements) \in Nat
      BY <3>2, TidySplits, SeqParts DEF Sound
    <3>4. ChildNamed(x, key[m]) = 0 \/ ChildNamed(x, key[m]) \in 1..Len(x.elements)
      BY <3>3, ChildNamedIs
    <3>5. i \in 1..Len(At(node, p).elements) /\ i \in Nat
      BY <2>5, <3>3, <3>4 DEF x
    <3>. HIDE DEF i, p
    <3>6. Leads(node, Append(p, i), m)
      BY <2>3, <3>1, <3>5, StepBehind DEF Leads
    <3>7. FindTo(node, key, m) = Append(p, i)
      BY <2>1, <2>5
    <3>. QED  BY <2>3, <3>6, <3>7
  <2>. QED  BY <2>4, <2>5
<1>3. \A k \in 0..Len(key) : k \in G
  <2>. HIDE DEF G
  <2>. QED  BY <1>1, <1>2, Upwards
<1>4. Len(key) \in G
  <2>1. Len(key) \in 0..Len(key)
    OBVIOUS
  <2>. HIDE DEF G
  <2>. QED  BY <1>3, <2>1
<1>. QED  BY <1>4, FindGoesOn

\* An element that is got, in a tree that is sound.
Got(g, owner, type, unique) ==
    /\ Tidy(g.tree, unique) /\ Same(owner, g.tree)
    /\ g.place \in AllPlaces /\ InTree(g.tree, g.place)
    /\ At(g.tree, g.place).type = type

LEMMA ConvertedTidy ==
    ASSUME NEW x, NEW unique, Tidy(x, unique), NEW type
    PROVE  Tidy(Converted(x, type), unique) /\ Converted(x, type).type = type /\ Converted(x, type).name = x.name
<1>. DEFINE w == Converted(x, type)
<1>1. CASE x.type = type
  BY <1>1 DEF Converted
<1>2. CASE x.type # type
  <2>1. w = Node(x.name, type, x.value, x.quoted, <<>>)
    BY <1>2 DEF Converted
  <2>. HIDE DEF w
  <2>2. w = Node(w.name, w.type, w.value, w.quoted, w.elements) /\ w.elements = <<>> /\ w.type = type /\ w.name = x.name
    BY <2>1 DEF Node
  <2>. QED  BY <2>2, BareTidy DEF w
<1>. QED  BY <1>1, <1>2

LEMMA GetOrAddTidy ==
    ASSUME NEW owner, NEW unique, Tidy(owner, unique), owner.type = Object,
           NEW key, LegalKey(key), unique => Len(key) = 1, NEW type
    PROVE  Got(GetOrAdd(owner, key, type), owner, type, unique) /\ GetOrAdd(owner, key, type).place # <<>>
<1>. DEFINE place == Find(owner, key)
            g == GetOrAdd(owner, key, type)
<1>1. Len(key) \in Nat /\ Len(key) # 0 /\ Len(key) \in 1..Len(key) /\ 1 \in 1..Len(key)
  BY DEF LegalKey
<1>2. place = Nowhere \/ Leads(owner, place, Len(key))
  BY <1>1, FindLeads
<1>3. CASE place # Nowhere
  <2>. DEFINE x == At(owner, place)
              new == Converted(x, type)
              w == Put(owner, place, new)
  <2>1. Leads(owner, place, Len(key))
    BY <1>2, <1>3
  <2>2. g.tree = w /\ g.place = place
    BY <1>3 DEF GetOrAdd
  <2>. HIDE DEF place, g
  <2>3. place \in AllPlaces /\ InTree(owner, place) /\ place # <<>>
    BY <1>1, <2>1 DEF Leads
  <2>4. Tidy(x, unique)
    BY <2>3, TidyAt
  <2>. HIDE DEF x
  <2>5. Tidy(new, unique) /\ new.type = type /\ new.name = x.name
    BY <2>4, ConvertedTidy
  <2>. HIDE DEF new
  <2>6. PutKeeps(owner, place, new, unique)
    BY <2>3, <2>5, PutTidy
  <2>7. new.name = At(owner, place).name
    BY <2>5 DEF x
  <2>8. Tidy(w, unique) /\ w.name = owner.name /\ w.type = owner.type /\ InTree(w, place) /\ At(w, place) = new
    BY <2>3, <2>6, <2>7 DEF PutKeeps
  <2>. HIDE DEF w
  <2>9. Got(g, owner, type, unique) /\ g.place # <<>>
    BY <2>2, <2>3, <2>5, <2>8 DEF Got, Same
  <2>. QED  BY <2>9 DEF g
<1>4. CASE place = Nowhere
  <2>. DEFINE c == Empty(Last(key), type)
              w == AddChild(owner, c)
              n == Len(owner.elements)
  <2>1. g.tree = w /\ g.place = <<n + 1>>
    BY <1>4 DEF GetOrAdd
  <2>2. c = Node(c.name, c.type, c.value, c.quoted, c.elements) /\ c.elements = <<>> /\ c.type = type /\ c.name = key[Len(key)]
    <3>1. c = Node(key[Len(key)], type, "", TRUE, <<>>)
      BY DEF Empty, Last
    <3>. HIDE DEF c
    <3>. QED  BY <3>1 DEF Node
  <2>3. ASSUME unique, NEW j \in 1..n PROVE owner.elements[j].name # c.name
    <3>1. Len(key) = 1 /\ 1 - 1 = 0
      BY <2>3
    <3>2. FindTo(owner, key, 1) = FindNext(<<>>, owner, key, 1) /\ FindTo(owner, key, 1) = Nowhere
      <4>1. Find(owner, key) = FindTo(owner, key, 1) /\ FindTo(owner, key, 0) = <<>>
        BY <1>1, <3>1, FindGoesOn
      <4>2. FindTo(owner, key, 1) = FindNext(FindTo(owner, key, 1 - 1), owner, key, 1)
        BY <1>1, FindGoesOn
      <4>. QED  BY <1>4, <3>1, <4>1, <4>2
    <3>3. Nowhere # <<>> /\ At(owner, <<>>) = owner
      BY AtRoot DEF Nowhere
    <3>4. ChildNamed(owner, key[1]) = 0 \/ Append(<<>>, ChildNamed(owner, key[1])) = Nowhere
      BY <3>2, <3>3 DEF FindNext
    <3>5. IsSeq(owner.elements) /\ Len(owner.elements) \in Nat
      BY TidySplits, SeqParts DEF Sound
    <3>6. ChildNamed(owner, key[1]) = 0
      <4>1. ChildNamed(owner, key[1]) = 0 \/ ChildNamed(owner, key[1]) \in 1..n
        BY <3>5, ChildNamedIs
      <4>2. ASSUME NEW i, Append(<<>>, i) = Nowhere PROVE i = 0
        <5>1. Append(<<>>, i) = <<i>> /\ <<i>>[1] = i /\ Nowhere[1] = 0
          BY DEF Nowhere
        <5>. QED  BY <4>2, <5>1
      <4>. QED  BY <3>4, <4>2
    <3>7. \A l \in 1..Len(owner.elements) : owner.elements[l].name # key[1]
      BY <3>5, <3>6, ChildNamedIs
    <3>8. 0 \notin 1..Len(owner.elements)
      BY <3>5
    <3>. QED  BY <2>2, <3>1, <3>7, <3>8
  <2>. HIDE DEF c
  <2>4. Tidy(c, unique)
    BY <2>2, BareTidy
  <2>5. owner.type # Value /\ owner.type # Array
    BY DEF Object, Array, Value
  <2>6. /\ Tidy(w, unique) /\ Same(owner, w) /\ n \in Nat /\ Len(w.elements) = n + 1 /\ w.elements[n + 1] = c
    <3>1. unique /\ owner.type = Object => \A j \in 1..Len(owner.elements) : owner.elements[j].name # c.name \/ c.name = NoName
      BY <2>3
    <3>. HIDE DEF n
    <3>2. /\ Tidy(w, unique) /\ Same(owner, w) /\ Len(owner.elements) \in Nat
          /\ Len(w.elements) = Len(owner.elements) + 1 /\ w.elements[Len(owner.elements) + 1] = c
      BY <2>4, <2>5, <3>1, AddTidy
    <3>. QED  BY <3>2 DEF n
  <2>. HIDE DEF w, n, g, place
  <2>7. n + 1 \in Nat /\ n + 1 \in 1..Len(w.elements)
    BY <2>6
  <2>8. <<n + 1>> \in AllPlaces /\ At(w, <<n + 1>>) = w.elements[n + 1] /\ InTree(w, <<n + 1>>)
    BY <2>7, OneStep
  <2>9. <<n + 1>> # <<>>
    OBVIOUS
  <2>10. Got(g, owner, type, unique) /\ g.place # <<>>
    BY <2>1, <2>2, <2>6, <2>8, <2>9 DEF Got
  <2>. QED  BY <2>10 DEF g
<1>. QED  BY <1>3, <1>4

LEMMA WithinTidy ==
    ASSUME NEW outer, NEW inner, NEW unique, NEW node, NEW type, NEW type0,
           Got(outer, node, type0, unique), Got(inner, At(outer.tree, outer.place), type, unique)
    PROVE  /\ Got(Within(outer, inner), node, type, unique)
           /\ inner.place # <<>> => Within(outer, inner).place # <<>>
<1>. DEFINE x == outer.tree
            p == outer.place
            new == inner.tree
            r == inner.place
            w == Put(x, p, new)
            g == Within(outer, inner)
<1>1. g.tree = w /\ g.place = p \o r
  BY DEF Within
<1>2. Tidy(x, unique) /\ Same(node, x) /\ p \in AllPlaces /\ InTree(x, p)
  BY DEF Got
<1>3. Tidy(new, unique) /\ Same(At(x, p), new) /\ r \in AllPlaces /\ InTree(new, r) /\ At(new, r).type = type
  BY DEF Got
<1>. HIDE DEF x, p, new, r, g
<1>4. PutKeeps(x, p, new, unique)
  BY <1>2, <1>3, PutTidy
<1>5. Tidy(w, unique) /\ w.name = x.name /\ w.type = x.type /\ InTree(w, p) /\ At(w, p) = new
  BY <1>2, <1>3, <1>4 DEF PutKeeps, Same
<1>. HIDE DEF w
<1>6. Joined(w, p, r)
  BY <1>2, <1>3, PlaceBehind
<1>7. At(w, p \o r) = At(new, r) /\ InTree(w, p \o r)
  BY <1>3, <1>5, <1>6 DEF Joined
<1>8. p \o r \in AllPlaces /\ (r # <<>> => p \o r # <<>>)
  <2>1. p \in Seq(Nat) /\ r \in Seq(Nat)
    BY <1>2, <1>3 DEF AllPlaces
  <2>2. p \o r \in Seq(Nat) /\ Len(p \o r) = Len(p) + Len(r)
    BY <2>1, ConcatProperties
  <2>3. r # <<>> => Len(r) > 0
    BY <2>1
  <2>4. Len(<<>>) = 0 /\ Len(p) \in Nat /\ Len(r) \in Nat
    BY <2>1
  <2>5. r # <<>> => Len(p \o r) # 0
    BY <2>2, <2>3, <2>4
  <2>. QED  BY <2>2, <2>4, <2>5 DEF AllPlaces
<1>9. Got(g, node, type, unique)
  BY <1>1, <1>2, <1>3, <1>5, <1>7, <1>8 DEF Got, Same
<1>. QED  BY <1>1, <1>8, <1>9 DEF g, r

\* The function that PathTo defines: the path to the first i names.
PathFirst(node, key) == [tree |-> node, place |-> <<>>]
PathNext(prev, node, key, i) == Within(prev, GetOrAdd(At(prev.tree, prev.place), <<key[i]>>, Object))
PathIs(f, node, key, n) == f = [i \in 0..n |-> IF i = 0 THEN PathFirst(node, key) ELSE PathNext(f[i - 1], node, key, i)]

LEMMA PathExists == ASSUME NEW node, NEW key, NEW n \in Nat PROVE \E f : PathIs(f, node, key, n)
<1>. DEFINE G == {m \in 0..n : \E f : PathIs(f, node, key, m)}
<1>1. 0 \in G
  <2>. DEFINE f == [i \in 0..0 |-> PathFirst(node, key)]
  <2>1. \A i \in 0..0 : i = 0
    OBVIOUS
  <2>2. PathIs(f, node, key, 0)
    BY <2>1 DEF PathIs
  <2>. HIDE DEF f
  <2>. QED  BY <2>2
<1>2. ASSUME NEW m \in 1..n, m - 1 \in G PROVE m \in G
  <2>1. PICK g : PathIs(g, node, key, m - 1)
    BY <1>2
  <2>. DEFINE f == [i \in 0..m |-> IF i = m THEN PathNext(g[m - 1], node, key, m) ELSE g[i]]
  <2>2. ASSUME NEW i \in 0..m PROVE f[i] = IF i = 0 THEN PathFirst(node, key) ELSE PathNext(f[i - 1], node, key, i)
    <3>1. i # 0 => i - 1 \in 0..m /\ i - 1 # m
      OBVIOUS
    <3>2. CASE i = m
      BY <3>1, <3>2
    <3>3. CASE i # m
      <4>1. i \in 0..(m - 1)
        BY <3>3
      <4>2. g[i] = IF i = 0 THEN PathFirst(node, key) ELSE PathNext(g[i - 1], node, key, i)
        BY <2>1, <4>1 DEF PathIs
      <4>. QED  BY <3>1, <3>3, <4>2
    <3>. QED  BY <3>2, <3>3
  <2>3. f = [i \in 0..m |-> f[i]]
    OBVIOUS
  <2>. HIDE DEF f
  <2>4. PathIs(f, node, key, m)
    BY <2>2, <2>3 DEF PathIs
  <2>5. m \in 0..n
    OBVIOUS
  <2>. QED  BY <2>4, <2>5
<1>3. \A m \in 0..n : m \in G
  <2>. HIDE DEF G
  <2>. QED  BY <1>1, <1>2, Upwards
<1>4. n \in G
  BY <1>3
<1>. QED  BY <1>4


LEMMA PathTidy ==
    ASSUME NEW node, NEW unique, Tidy(node, unique), node.type = Object, NEW key, LegalKey(key)
    PROVE  Got(PathTo(node, key), node, Object, unique)
<1>. DEFINE n == Len(key) - 1
            f == CHOOSE f : PathIs(f, node, key, n)
            G == {k \in 0..n : Got(f[k], node, Object, unique)}
<1>0. n \in Nat /\ key \in Seq(STRING)
  BY DEF LegalKey
<1>1. PathTo(node, key) = f[n]
  BY DEF PathTo, PathIs, PathFirst, PathNext
<1>2. PathIs(f, node, key, n)
  <2>. HIDE DEF n
  <2>. QED  BY <1>0, PathExists
<1>. HIDE DEF f
<1>3. 0 \in G
  <2>1. 0 \in 0..n
    BY <1>0
  <2>2. f[0] = [tree |-> node, place |-> <<>>]
    BY <1>2, <2>1 DEF PathIs, PathFirst
  <2>3. f[0].tree = node /\ f[0].place = <<>>
    BY <2>2
  <2>4. Got(f[0], node, Object, unique)
    BY <2>3, AtRoot, RootInTree DEF Got, Same, AllPlaces
  <2>. QED  BY <2>1, <2>4
<1>4. ASSUME NEW m \in 1..n, m - 1 \in G PROVE m \in G
  <2>. DEFINE prev == f[m - 1]
              x == At(prev.tree, prev.place)
              k == <<key[m]>>
              inner == GetOrAdd(x, k, Object)
  <2>1. m \in 0..n /\ m # 0 /\ Got(prev, node, Object, unique)
    BY <1>0, <1>4
  <2>2. f[m] = Within(prev, inner)
    BY <1>2, <2>1 DEF PathIs, PathNext
  <2>. HIDE DEF prev
  <2>3. Tidy(x, unique) /\ x.type = Object
    BY <2>1, TidyAt DEF Got
  <2>4. LegalKey(k) /\ Len(k) = 1
    <3>. DEFINE s == key[m]
    <3>1. s \in STRING /\ s # NoName
      <4>1. m \in 1..Len(key)
        BY <1>0
      <4>. QED  BY <1>0, <4>1 DEF LegalKey
    <3>2. k = <<s>>
      OBVIOUS
    <3>. HIDE DEF s, k
    <3>. QED  BY <3>1, <3>2 DEF LegalKey
  <2>. HIDE DEF x, k
  <2>5. Got(inner, x, Object, unique)
    BY <2>3, <2>4, GetOrAddTidy
  <2>. HIDE DEF inner
  <2>6. Got(f[m], node, Object, unique)
    BY <2>1, <2>2, <2>5, WithinTidy DEF x
  <2>. QED  BY <2>1, <2>6
<1>5. \A k \in 0..n : k \in G
  <2>. HIDE DEF G, n
  <2>. QED  BY <1>0, <1>3, <1>4, Upwards
<1>6. n \in G
  <2>. HIDE DEF G
  <2>. QED  BY <1>0, <1>5
<1>. QED  BY <1>1, <1>6

LEMMA GetTidy ==
    ASSUME NEW node, NEW unique, Tidy(node, unique), node.type = Object,
           NEW key, LegalKey(key), unique => Len(key) = 1, NEW type
    PROVE  Got(Get(node, key, type), node, type, unique) /\ Get(node, key, type).place # <<>>
<1>. DEFINE path == PathTo(node, key)
            x == At(path.tree, path.place)
            inner == GetOrAdd(x, key, type)
<1>1. Got(path, node, Object, unique)
  BY PathTidy
<1>2. Tidy(x, unique) /\ x.type = Object
  BY <1>1, TidyAt DEF Got
<1>3. Get(node, key, type) = Within(path, inner)
  BY DEF Get
<1>. HIDE DEF path, x
<1>4. Got(inner, x, type, unique) /\ inner.place # <<>>
  BY <1>2, GetOrAddTidy
<1>. HIDE DEF inner
<1>. QED  BY <1>1, <1>3, <1>4, WithinTidy DEF x

LEMMA AssignTidy ==
    ASSUME NEW node, NEW unique, Tidy(node, unique), node.type = Object,
           NEW key, LegalKey(key), unique => Len(key) = 1, NEW value, NEW quoted
    PROVE  Tidy(Assign(node, key, value, quoted), unique) /\ Same(node, Assign(node, key, value, quoted))
<1>. DEFINE g == Get(node, key, Value)
            x == At(g.tree, g.place)
            new == Scalar(x.name, value, quoted)
            w == Put(g.tree, g.place, new)
<1>1. Assign(node, key, value, quoted) = w
  BY DEF Assign, SetScalar
<1>2. Got(g, node, Value, unique) /\ g.place # <<>>
  BY GetTidy
<1>3. new = Node(new.name, new.type, new.value, new.quoted, new.elements) /\ new.elements = <<>> /\ new.name = x.name
  <2>1. new = Node(x.name, Value, value, quoted, <<>>)
    BY DEF Scalar
  <2>. HIDE DEF new
  <2>. QED  BY <2>1 DEF Node
<1>. HIDE DEF g, new
<1>4. Tidy(new, unique)
  BY <1>3, BareTidy
<1>5. PutKeeps(g.tree, g.place, new, unique)
  BY <1>2, <1>4, PutTidy DEF Got
<1>6. Tidy(w, unique) /\ Same(node, w)
  BY <1>2, <1>3, <1>5 DEF Got, Same, PutKeeps
<1>. QED  BY <1>1, <1>6

-------------------------------------------------------------------------------
(* Whatever text parse() reads, the nodes it makes are sound.                *)

TidyElements(e, nameless) ==
    /\ IsSeq(e)
    /\ \A i \in 1..Len(e) : Tidy(e[i], FALSE) /\ (nameless => e[i].name = NoName)

LEMMA TidyElementsEmpty == ASSUME NEW nameless PROVE TidyElements(<<>>, nameless)
<1>1. <<>> \in Seq({}) /\ 1..Len(<<>>) = {}
  OBVIOUS
<1>. QED  BY <1>1 DEF TidyElements, IsSeq

LEMMA TidyElementsGrow ==
    ASSUME NEW e, NEW nameless, TidyElements(e, nameless),
           NEW x, Tidy(x, FALSE), nameless => x.name = NoName
    PROVE  TidyElements(<<x>> \o e, nameless)
<1>1. PICK S : e \in Seq(S)
  BY DEF TidyElements, IsSeq
<1>. DEFINE w == <<x>> \o e
<1>2. <<x>> \in Seq(S \cup {x}) /\ e \in Seq(S \cup {x})
  BY <1>1
<1>3. w \in Seq(S \cup {x}) /\ Len(w) = 1 + Len(e) /\ Len(e) \in Nat
  BY <1>2
<1>4. ASSUME NEW i \in 1..Len(w) PROVE w[i] = x \/ \E j \in 1..Len(e) : w[i] = e[j]
  <2>1. CASE i = 1
    BY <1>2, <2>1
  <2>2. CASE i # 1
    <3>1. i - 1 \in 1..Len(e) /\ w[i] = e[i - 1]
      BY <1>2, <1>3, <2>2
    <3>. QED  BY <3>1
  <2>. QED  BY <2>1, <2>2
<1>. HIDE DEF w
<1>5. ASSUME NEW i \in 1..Len(w) PROVE Tidy(w[i], FALSE) /\ (nameless => w[i].name = NoName)
  <2>1. CASE w[i] = x
    BY <2>1
  <2>2. CASE \E j \in 1..Len(e) : w[i] = e[j]
    BY <2>2 DEF TidyElements
  <2>. QED  BY <1>4, <2>1, <2>2
<1>6. IsSeq(w)
  BY <1>3 DEF IsSeq
<1>7. TidyElements(w, nameless)
  BY <1>5, <1>6 DEF TidyElements
<1>. QED  BY <1>7 DEF w

\* A node that is filled with what is read inside its brackets.
LEMMA ContainerTidy ==
    ASSUME NEW name, NEW type, NEW e, TidyElements(e, type = Array)
    PROVE  Tidy(Node(name, type, "", TRUE, e), FALSE) /\ Node(name, type, "", TRUE, e).name = name
<1>. DEFINE x == Node(name, type, "", TRUE, e)
<1>0. x = Node(name, type, "", TRUE, e)
  OBVIOUS
<1>. HIDE DEF x
<1>1. x.name = name /\ x.type = type /\ x.elements = e /\ x = Node(x.name, x.type, x.value, x.quoted, x.elements)
  BY <1>0 DEF Node
<1>2. Sound(x, FALSE)
  BY <1>1 DEF Sound, TidyElements
<1>3. \A i \in 1..Len(x.elements) : Tidy(x.elements[i], FALSE)
  BY <1>1 DEF TidyElements
<1>4. Tidy(x, FALSE)
  BY <1>2, <1>3, TidySplits
<1>. QED  BY <1>1, <1>4 DEF x

LEMMA ScalarTidy ==
    ASSUME NEW name, NEW value, NEW quoted, NEW unique
    PROVE  Tidy(Scalar(name, value, quoted), unique) /\ Scalar(name, value, quoted).name = name
<1>. DEFINE x == Scalar(name, value, quoted)
<1>1. x = Node(name, Value, value, quoted, <<>>)
  BY DEF Scalar
<1>. HIDE DEF x
<1>2. x.name = name /\ x.elements = <<>> /\ x = Node(x.name, x.type, x.value, x.quoted, x.elements)
  BY <1>1, NodeIs
<1>3. Tidy(x, unique)
  BY <1>2, BareTidy
<1>. QED  BY <1>2, <1>3 DEF x

Nameless(at) == at.type = Array /\ at.key = NoName
Filled(text, at) == TidyElements(Reading(text)[at].elements, Nameless(at))

LEMMA ReadIsTidy == ASSUME NEW text \in Seq(Tokens) PROVE \A at \in Cursors : Filled(text, at)
<1>. DEFINE G == {at \in Cursors : Filled(text, at)}
            R == Reading(text)
<1>1. \A p, e : Stop(p).elements = <<>> /\ (\A r : Read(e, r).elements = <<e>> \o r.elements)
  BY DEF Stop, Read
<1>2. NoName \in STRING
  BY NoNameAssumption
<1>3. ASSUME NEW at \in Cursors, at.pos <= Len(text) => \A c \in Later(at) : c \in G PROVE at \in G
  <2>0. at.pos \in Nat /\ at.pos > 0 /\ at.key \in STRING /\ at.type \in {Object, Array, Value} /\ Len(text) \in Nat
    <3>1. Len(text) \in Nat
      <4>. HIDE DEF Tokens
      <4>. QED  OBVIOUS
    <3>. QED  BY <3>1, CursorParts
  <2>1. R[at] = Turn(text, R, at)
    BY ReadingIs
  <2>. HIDE DEF R
  <2>2. SUFFICES TidyElements(Turn(text, R, at).elements, Nameless(at))
    BY <2>1 DEF Filled, R
  <2>3. CASE at.pos > Len(text) \/ IsSeparator(text[at.pos])
    <3>1. Turn(text, R, at).elements = <<>>
      BY <1>1, <2>3, TurnStops
    <3>. QED  BY <3>1, TidyElementsEmpty
  <2>4. ASSUME ~(at.pos > Len(text)), NEW p \in Nat, p > at.pos, NEW k \in STRING
        PROVE  /\ TidyElements(R[Cursor(p, k, at.type)].elements, at.type = Array /\ k = NoName)
               /\ R[Cursor(p, k, at.type)].pos \in Nat /\ R[Cursor(p, k, at.type)].pos >= p
    <3>. DEFINE c == Cursor(p, k, at.type)
    <3>0. p > 0 /\ at.pos <= Len(text)
      BY <2>0, <2>4
    <3>1. c \in Cursors /\ c.pos = p /\ c.key = k /\ c.type = at.type
      BY <2>0, <2>4, <3>0, CursorIs, CursorHas
    <3>. HIDE DEF c
    <3>2. Filled(text, c)
      <4>1. c \in Later(at)
        BY <2>4, <3>1 DEF Later
      <4>. QED  BY <1>3, <3>0, <4>1
    <3>3. R[c].pos \in Nat /\ R[c].pos >= p
      BY <3>1, ReadingIs DEF R
    <3>. QED  BY <3>1, <3>2, <3>3 DEF c, Filled, Nameless, R
  <2>5. CASE ~(at.pos > Len(text)) /\ IsOpening(text[at.pos]) /\ ~IsSeparator(text[at.pos])
    <3>. DEFINE inner == InsideOf(text, at.pos)
                next  == Cursor(R[inner].pos + 1, at.key, at.type)
                new   == Node(at.key, inner.type, "", TRUE, R[inner].elements)
    <3>0. at.pos <= Len(text) /\ at.pos + 1 \in Nat /\ at.pos + 1 > 0 /\ at.pos + 1 > at.pos
      BY <2>0, <2>5
    <3>1. inner \in Cursors /\ inner.pos = at.pos + 1 /\ inner.key = NoName
      <4>1. (IF text[at.pos] = Open(Object) THEN Object ELSE Array) \in {Object, Array, Value}
        OBVIOUS
      <4>. QED  BY <1>2, <3>0, <4>1, CursorIs, CursorHas DEF InsideOf
    <3>2. Turn(text, R, at) = Read(new, R[next])
      BY <2>5, <3>0, TurnEnters
    <3>. HIDE DEF inner
    <3>3. Filled(text, inner) /\ R[inner].pos \in Nat /\ R[inner].pos >= at.pos + 1
      <4>1. inner \in Later(at)
        BY <3>0, <3>1 DEF Later
      <4>2. Filled(text, inner)
        BY <1>3, <3>0, <4>1
      <4>3. R[inner].pos \in Nat /\ R[inner].pos >= at.pos + 1
        BY <3>1, ReadingIs DEF R
      <4>. QED  BY <4>2, <4>3
    <3>4. TidyElements(R[inner].elements, inner.type = Array)
      BY <3>1, <3>3 DEF Filled, Nameless, R
    <3>5. Tidy(new, FALSE) /\ new.name = at.key
      BY <3>4, ContainerTidy
    <3>6. TidyElements(R[next].elements, Nameless(at))
      <4>1. R[inner].pos + 1 \in Nat /\ R[inner].pos + 1 > at.pos
        BY <2>0, <3>3
      <4>. QED  BY <2>0, <2>4, <2>5, <4>1 DEF Nameless
    <3>. HIDE DEF next, new
    <3>7. TidyElements(<<new>> \o R[next].elements, Nameless(at))
      BY <3>5, <3>6, TidyElementsGrow DEF Nameless
    <3>. QED  BY <1>1, <3>2, <3>7
  <2>6. CASE ~(at.pos > Len(text)) /\ text[at.pos] = Colon
    <3>. DEFINE next == Cursor(at.pos + 1, NoName, at.type)
    <3>1. Turn(text, R, at) = IF at.type = Array THEN Stop(at.pos) ELSE R[next]
      BY <2>6, TurnColon
    <3>2. at.pos + 1 \in Nat /\ at.pos + 1 > at.pos
      BY <2>0
    <3>3. TidyElements(R[next].elements, at.type = Array /\ NoName = NoName)
      BY <1>2, <2>4, <2>6, <3>2
    <3>. HIDE DEF next
    <3>4. CASE at.type = Array
      <4>1. Turn(text, R, at).elements = <<>>
        BY <1>1, <3>1, <3>4
      <4>. QED  BY <4>1, TidyElementsEmpty
    <3>5. CASE at.type # Array
      <4>1. Turn(text, R, at) = R[next]
        BY <3>1, <3>5
      <4>. QED  BY <3>3, <3>5, <4>1 DEF TidyElements, Nameless
    <3>. QED  BY <3>4, <3>5
  <2>. DEFINE end == EndOf(text, at.pos)
  <2>10. Plain(text, at) => end \in Nat /\ end >= at.pos
    BY <2>0, EndIs DEF Plain
  <2>. HIDE DEF end
  <2>7. CASE Plain(text, at) /\ IsKey(text, end)
    <3>. DEFINE next == Cursor(end + 2, text[at.pos][2], at.type)
    <3>1. Turn(text, R, at) = IF at.type = Array THEN Stop(end + 1) ELSE R[next]
      BY <2>7, TurnKey DEF end
    <3>2. end + 2 \in Nat /\ end + 2 > at.pos /\ text[at.pos][2] \in STRING
      BY <2>0, <2>7, <2>10 DEF Plain, IsScalar
    <3>3. TidyElements(R[next].elements, at.type = Array /\ text[at.pos][2] = NoName)
      BY <2>4, <2>7, <3>2 DEF Plain
    <3>. HIDE DEF next
    <3>4. CASE at.type = Array
      <4>1. Turn(text, R, at).elements = <<>>
        BY <1>1, <3>1, <3>4
      <4>. QED  BY <4>1, TidyElementsEmpty
    <3>5. CASE at.type # Array
      <4>1. Turn(text, R, at) = R[next]
        BY <3>1, <3>5
      <4>. QED  BY <3>3, <3>5, <4>1 DEF TidyElements, Nameless
    <3>. QED  BY <3>4, <3>5
  <2>8. CASE Plain(text, at) /\ ~IsKey(text, end)
    <3>. DEFINE next == Cursor(end + 2, NoName, at.type)
                name == IF at.type = Array THEN NoName ELSE at.key
                new == Scalar(name, text[at.pos][2], text[at.pos][3])
    <3>1. Turn(text, R, at) = Read(new, R[next])
      BY <2>8, <2>10, TurnScalar DEF end
    <3>2. end + 2 \in Nat /\ end + 2 > at.pos
      BY <2>0, <2>8, <2>10
    <3>3. TidyElements(R[next].elements, at.type = Array /\ NoName = NoName)
      BY <1>2, <2>4, <2>8, <3>2 DEF Plain
    <3>4. TidyElements(R[next].elements, Nameless(at))
      BY <3>3 DEF TidyElements, Nameless
    <3>. HIDE DEF next, name
    <3>5. Tidy(new, FALSE) /\ new.name = name
      BY ScalarTidy
    <3>. HIDE DEF new
    <3>6. Nameless(at) => new.name = NoName
      BY <3>5 DEF Nameless, name
    <3>7. TidyElements(<<new>> \o R[next].elements, Nameless(at))
      BY <3>4, <3>5, <3>6, TidyElementsGrow
    <3>. QED  BY <1>1, <3>1, <3>7
  <2>9. CASE ~(at.pos > Len(text))
    <3>1. text[at.pos] \in Tokens
      <4>1. at.pos \in 1..Len(text)
        BY <2>0, <2>9
      <4>. HIDE DEF Tokens
      <4>. QED  BY <4>1
    <3>. QED  BY <2>3, <2>5, <2>6, <2>7, <2>8, <2>9, <3>1, TokenKinds DEF Plain
  <2>. QED  BY <2>3, <2>9
<1>. HIDE DEF G
<1>4. \A at \in Cursors : at \in G
  BY <1>3, EveryCursor
<1>. QED  BY <1>4 DEF G

\* A document that is loaded is sound, whether it is the one that was saved or not.
LEMMA ReloadedTidy ==
    ASSUME DepthAssumption, NEW y \in Documents, y.type = Object
    PROVE  Tidy(Reloaded(y), FALSE) /\ Reloaded(y).type = Object
<1>. DEFINE text == Serialize(y)
            at == Cursor(2, NoName, Object)
            e == Reading(text)[at].elements
<1>1. text \in Seq(Tokens) /\ y.type # Value
  BY TextIsText DEF Object, Value
<1>2. 1 <= Len(text) /\ text[1] = Open(Object)
  <2>1. Len(text) \in Nat
    <3>. HIDE DEF text, Tokens
    <3>. QED  BY <1>1
  <2>2. \A j \in 1..Len(text) : 0 + j = j
    BY <2>1
  <2>3. Stands(text, text, 0)
    BY <2>1, <2>2 DEF Stands
  <2>4. 0 + 1 = 1 /\ 0 \in Nat
    OBVIOUS
  <2>5. text[0 + 1] = Open(y.type) /\ 0 + 1 <= Len(text)
    BY <1>1, <2>3, <2>4, WrittenParts
  <2>. QED  BY <2>4, <2>5
<1>3. at \in Cursors /\ at.type = Object
  <2>1. 2 \in Nat /\ 2 > 0 /\ NoName \in STRING /\ Object \in {Object, Array, Value}
    BY NoNameAssumption
  <2>. QED  BY <2>1, CursorIs, CursorHas
<1>. HIDE DEF text
<1>4. Filled(text, at)
  BY <1>1, <1>3, ReadIsTidy
<1>5. TidyElements(e, FALSE) /\ IsSeq(e)
  BY <1>4 DEF Filled, TidyElements
<1>6. Reloaded(y) = Node(NoName, Object, NoName, TRUE, e)
  BY <1>2, <1>5, ParseIs DEF Reloaded, text
<1>. HIDE DEF e
<1>7. TidyElements(e, Object = Array)
  BY <1>5 DEF Object, Array
<1>8. Reloaded(y) = Node(NoName, Object, "", TRUE, e)
  BY <1>6 DEF NoName
<1>9. Reloaded(y).type = Object
  <2>. DEFINE x == Reloaded(y)
  <2>1. x = Node(NoName, Object, NoName, TRUE, e)
    BY <1>6
  <2>. HIDE DEF x
  <2>2. x.type = Object
    BY <2>1 DEF Node
  <2>. QED  BY <2>2 DEF x
<1>10. Tidy(Reloaded(y), FALSE)
  <2>1. Tidy(Node(NoName, Object, "", TRUE, e), FALSE)
    BY <1>7, ContainerTidy
  <2>. QED  BY <1>8, <2>1
<1>. QED  BY <1>9, <1>10
-------------------------------------------------------------------------------
(* The document, from call to call.                                          *)

\* One call replaces the node at a place by a sound one.
LEMMA ChangedTidy ==
    ASSUME DepthAssumption, doc \in Documents, NEW unique, Tidy(doc, unique), NEW p \in Places(doc), NEW new,
           Tidy(At(doc, p), unique) => Tidy(new, unique) /\ Same(At(doc, p), new), Changed(p, new)
    PROVE  doc' \in Documents /\ Tidy(doc', unique) /\ doc'.type = doc.type
<1>1. p \in AllPlaces /\ InTree(doc, p)
  <2>1. Places(doc) = PlacesIn(doc)
    BY PlacesAre
  <2>. QED  BY <2>1 DEF PlacesIn
<1>2. Tidy(new, unique) /\ Same(At(doc, p), new)
  BY <1>1, TidyAt
<1>3. PutKeeps(doc, p, new, unique)
  BY <1>1, <1>2, PutTidy
<1>4. doc' = Put(doc, p, new) /\ doc' \in Documents
  BY DEF Changed, Bounded
<1>5. Tidy(doc', unique) /\ (p # <<>> \/ new.type = At(doc, p).type => doc'.type = doc.type)
  BY <1>1, <1>2, <1>3, <1>4 DEF PutKeeps, Same
<1>. QED  BY <1>2, <1>4, <1>5 DEF Same

\* The keys in use are such as find() is made for.
LEMMA KeysAreLegal == ASSUME DocumentAssumption, NEW key \in Keys PROVE LegalKey(key)
  BY DEF DocumentAssumption, LegalKey

\* What createElement() makes anew or once more.
LEMMA NewIs ==
    ASSUME NEW name, NEW new \in NewElements(name)
    PROVE  /\ new = Node(new.name, new.type, new.value, new.quoted, new.elements) /\ new.elements = <<>>
           /\ \A unique : Tidy(new, unique)
<1>1. CASE new \in {Scalar(name, v, TRUE) : v \in Values}
  <2>1. PICK v \in Values : new = Scalar(name, v, TRUE)
    BY <1>1
  <2>2. new = Node(name, Value, v, TRUE, <<>>)
    BY <2>1 DEF Scalar
  <2>3. new = Node(new.name, new.type, new.value, new.quoted, new.elements) /\ new.elements = <<>>
    BY <2>2 DEF Node
  <2>. QED  BY <2>3, BareTidy
<1>2. CASE new \in {Empty(name, type) : type \in {Object, Array}}
  <2>1. PICK type \in {Object, Array} : new = Empty(name, type)
    BY <1>2
  <2>2. new = Node(name, type, "", TRUE, <<>>)
    BY <2>1 DEF Empty
  <2>3. new = Node(new.name, new.type, new.value, new.quoted, new.elements) /\ new.elements = <<>>
    BY <2>2 DEF Node
  <2>. QED  BY <2>3, BareTidy
<1>. QED  BY <1>1, <1>2 DEF NewElements

LEMMA TwiceTidy ==
    ASSUME NEW x, Tidy(x, FALSE), x.type = Object, NEW name, NEW new \in NewElements(name), ChildNamed(x, new.name) # 0
    PROVE  LET y == Twice(x, ChildNamed(x, new.name), new) IN Tidy(y, FALSE) /\ Same(x, y)
<1>. DEFINE i == ChildNamed(x, new.name)
            old == x.elements[i]
            again == Again(old, new)
            w == WithElement(x, i, again)
            y == AddChild(w, again)
<1>1. IsSeq(x.elements) /\ Len(x.elements) \in Nat
  BY TidySplits, SeqParts DEF Sound
<1>2. i \in 1..Len(x.elements) /\ old.name = new.name
  BY <1>1, ChildNamedIs
<1>3. Tidy(again, FALSE) /\ again.name = new.name
  <2>1. CASE new.type = Value
    BY <2>1, NewIs DEF Again
  <2>2. CASE new.type # Value
    <3>. DEFINE n == Node(new.name, new.type, old.value, old.quoted, <<>>)
    <3>1. again = n
      BY <2>2 DEF Again
    <3>2. n = Node(n.name, n.type, n.value, n.quoted, n.elements) /\ n.elements = <<>> /\ n.name = new.name
      BY NodeIs
    <3>. HIDE DEF n, again
    <3>. QED  BY <3>1, <3>2, BareTidy
  <2>. QED  BY <2>1, <2>2
<1>. HIDE DEF again, i
<1>4. Tidy(w, FALSE) /\ Same(x, w)
  <2>1. i \in Nat
    BY <1>1, <1>2
  <2>2. /\ <<i>> \in AllPlaces /\ InTree(x, <<i>>) /\ At(x, <<i>>) = old
        /\ Put(x, <<i>>, again) = WithElement(x, i, again)
    BY <1>2, <2>1, OneStep, PutOne
  <2>3. PutKeeps(x, <<i>>, again, FALSE)
    BY <1>3, <2>2, PutTidy
  <2>4. Tidy(w, FALSE)
    BY <1>2, <1>3, <2>2, <2>3 DEF PutKeeps
  <2>5. Same(x, w)
    BY <1>1, <1>2, TidySplits, WithElementIs DEF Sound
  <2>. QED  BY <2>4, <2>5
<1>5. w.type = Object /\ w.type # Value /\ w.type # Array
  BY <1>4 DEF Same, Object, Value, Array
<1>. HIDE DEF w
<1>6. Tidy(y, FALSE) /\ Same(w, y)
  BY <1>3, <1>4, <1>5, AddTidy
<1>7. Same(x, y)
  BY <1>4, <1>6 DEF Same
<1>. QED  BY <1>6, <1>7 DEF Twice, y, w, again, old, i

\* Every call but loading, for documents whose names stay unique and for all others:
\* a key of several names is searched for behind its path and may be added twice, and
\* createElement() adds the node of a name that exists once more.
LEMMA CallsTidy ==
    ASSUME DocumentAssumption, DepthAssumption, doc \in Documents, NEW unique \in BOOLEAN, Tidy(doc, unique),
           unique => \A key \in Keys : Len(key) = 1, Next
    PROVE  \/ Reload \/ (unique /\ CreatedAgain)
           \/ doc' \in Documents /\ Tidy(doc', unique) /\ doc'.type = doc.type
<1>. DEFINE Kept == doc' \in Documents /\ Tidy(doc', unique) /\ doc'.type = doc.type
<1>1. ASSUME NEW p \in ObjectsOf(doc), NEW key \in Keys,
             GetObject(p, key) \/ GetArray(p, key) \/ \E v \in Values : SetValue(p, key, v)
      PROVE  Kept
  <2>. DEFINE x == At(doc, p)
  <2>1. p \in Places(doc) /\ x.type = Object
    BY DEF ObjectsOf
  <2>2. LegalKey(key) /\ (unique => Len(key) = 1)
    BY KeysAreLegal
  <2>3. ASSUME NEW type, Changed(p, Get(x, key, type).tree) PROVE Kept
    <3>. DEFINE new == Get(x, key, type).tree
    <3>1. ASSUME Tidy(x, unique) PROVE Tidy(new, unique) /\ Same(x, new)
      <4>. HIDE DEF x
      <4>1. Got(Get(x, key, type), x, type, unique)
        BY <2>1, <2>2, <3>1, GetTidy
      <4>. QED  BY <4>1 DEF Got
    <3>. HIDE DEF new
    <3>. QED  BY <2>1, <2>3, <3>1, ChangedTidy DEF new
  <2>4. CASE GetObject(p, key)
    BY <2>3, <2>4 DEF GetObject
  <2>5. CASE GetArray(p, key)
    BY <2>3, <2>5 DEF GetArray
  <2>6. ASSUME NEW v \in Values, SetValue(p, key, v) PROVE Kept
    <3>. DEFINE new == Assign(x, key, v, TRUE)
    <3>1. ASSUME Tidy(x, unique) PROVE Tidy(new, unique) /\ Same(x, new)
      <4>. HIDE DEF x
      <4>1. \A quoted : Tidy(Assign(x, key, v, quoted), unique) /\ Same(x, Assign(x, key, v, quoted))
        BY <2>1, <2>2, <3>1, AssignTidy
      <4>. QED  BY <4>1
    <3>2. Changed(p, new)
      BY <2>6 DEF SetValue
    <3>. HIDE DEF new
    <3>. QED  BY <2>1, <3>1, <3>2, ChangedTidy
  <2>. QED  BY <1>1, <2>4, <2>5, <2>6
<1>2. ASSUME NEW p \in ArraysOf(doc), NEW c, Changed(p, AddChild(At(doc, p), c)), Tidy(c, unique), c.name = NoName
      PROVE  Kept
  <2>. DEFINE x == At(doc, p)
              new == AddChild(x, c)
  <2>1. p \in Places(doc) /\ x.type = Array
    BY DEF ArraysOf
  <2>2. ASSUME Tidy(x, unique) PROVE Tidy(new, unique) /\ Same(x, new)
    <3>. HIDE DEF x
    <3>1. x.type # Value /\ x.type # Object
      BY <2>1 DEF Object, Array, Value
    <3>. QED  BY <1>2, <2>2, <3>1, AddTidy
  <2>. HIDE DEF new
  <2>. QED  BY <1>2, <2>1, <2>2, ChangedTidy DEF new
<1>3. ASSUME NEW p \in ArraysOf(doc), CreateObject(p) PROVE Kept
  <2>. DEFINE c == Empty(NoName, Object)
  <2>1. c = Node(c.name, c.type, c.value, c.quoted, c.elements) /\ c.elements = <<>> /\ c.name = NoName
    <3>1. c = Node(NoName, Object, "", TRUE, <<>>)
      BY DEF Empty
    <3>. HIDE DEF c
    <3>. QED  BY <3>1 DEF Node
  <2>2. Changed(p, AddChild(At(doc, p), c))
    BY <1>3 DEF CreateObject
  <2>. HIDE DEF c
  <2>3. Tidy(c, unique)
    BY <2>1, BareTidy
  <2>. QED  BY <1>2, <2>1, <2>2, <2>3
<1>4. ASSUME NEW p \in ArraysOf(doc), NEW v \in Values, CreateElement(p, v) PROVE Kept
  <2>. DEFINE c == Scalar(NoName, v, TRUE)
  <2>1. \A quoted : Tidy(Scalar(NoName, v, quoted), unique) /\ Scalar(NoName, v, quoted).name = NoName
    BY ScalarTidy
  <2>2. Tidy(c, unique) /\ c.name = NoName
    BY <2>1
  <2>3. Changed(p, AddChild(At(doc, p), c))
    BY <1>4 DEF CreateElement
  <2>. HIDE DEF c
  <2>. QED  BY <1>2, <2>2, <2>3
<1>5. ASSUME NEW p \in ObjectsOf(doc), NEW name \in Names, RemoveChild(p, name) PROVE Kept
  <2>. DEFINE x == At(doc, p)
              new == Removed(x, name)
  <2>1. p \in Places(doc) /\ Changed(p, new)
    BY <1>5 DEF ObjectsOf, RemoveChild
  <2>2. Tidy(x, unique) => Tidy(new, unique) /\ Same(x, new)
    BY RemovedTidy
  <2>. HIDE DEF new
  <2>. QED  BY <2>1, <2>2, ChangedTidy
<1>6. ASSUME NEW p \in ObjectsOf(doc) \cup ArraysOf(doc), Clear(p) PROVE Kept
  <2>. DEFINE x == At(doc, p)
              new == [x EXCEPT !.elements = <<>>]
  <2>1. p \in Places(doc) /\ Changed(p, new)
    BY <1>6 DEF ObjectsOf, ArraysOf, Clear
  <2>2. Tidy(x, unique) => Tidy(new, unique) /\ Same(x, new)
    BY ClearedTidy
  <2>. HIDE DEF new
  <2>. QED  BY <2>1, <2>2, ChangedTidy
<1>7. ASSUME NEW p \in ObjectsOf(doc), NEW name, NEW new \in NewElements(name), CreateNamed(p, new) PROVE Kept
  <2>. DEFINE x == At(doc, p)
              y == AddChild(x, new)
  <2>1. p \in Places(doc) /\ x.type = Object /\ ChildNamed(x, new.name) = 0 /\ Changed(p, y)
    BY <1>7 DEF ObjectsOf, CreateNamed
  <2>2. ASSUME Tidy(x, unique) PROVE Tidy(y, unique) /\ Same(x, y)
    <3>. HIDE DEF x
    <3>1. x.type # Value /\ x.type # Array
      BY <2>1 DEF Object, Array, Value
    <3>2. \A j \in 1..Len(x.elements) : x.elements[j].name # new.name
      <4>1. IsSeq(x.elements) /\ Len(x.elements) \in Nat
        BY <2>2, TidySplits, SeqParts DEF Sound
      <4>. QED  BY <2>1, <4>1, ChildNamedIs
    <3>. QED  BY <2>2, <3>1, <3>2, NewIs, AddTidy
  <2>. HIDE DEF y
  <2>. QED  BY <2>1, <2>2, ChangedTidy
<1>8. ASSUME NEW p \in ObjectsOf(doc), NEW name, NEW new \in NewElements(name), CreateAgain(p, new) PROVE Kept \/ unique
  <2>. DEFINE x == At(doc, p)
              y == Twice(x, ChildNamed(x, new.name), new)
  <2>1. p \in Places(doc) /\ x.type = Object /\ ChildNamed(x, new.name) # 0 /\ Changed(p, y)
    BY <1>8 DEF ObjectsOf, CreateAgain
  <2>2. ASSUME ~unique, Tidy(x, unique) PROVE Tidy(y, unique) /\ Same(x, y)
    <3>1. unique = FALSE
      BY <2>2
    <3>. HIDE DEF x
    <3>. QED  BY <2>1, <2>2, <3>1, TwiceTidy
  <2>. HIDE DEF y
  <2>. QED  BY <2>1, <2>2, ChangedTidy
<1>. HIDE DEF Kept
<1>9. CreatedAgain => Kept \/ (unique /\ CreatedAgain)
  BY <1>8 DEF CreatedAgain
<1>10. Reload \/ Kept \/ (unique /\ CreatedAgain)
  BY <1>1, <1>3, <1>4, <1>5, <1>6, <1>7, <1>9 DEF Next, Call
<1>. QED  BY <1>10 DEF Kept

\* The inductive invariant: the document is an object whose nodes, at any depth,
\* are whole, and the elements of whose arrays have no names.
Inv == doc \in Documents /\ doc.type = Object /\ Tidy(doc, FALSE)

LEMMA NewIsTidy ==
    ASSUME DepthAssumption, NEW unique
    PROVE  NewDocument \in Documents /\ NewDocument.type = Object /\ Tidy(NewDocument, unique)
<1>. DEFINE x == NewDocument
<1>1. x = Node(NoName, Object, NoName, TRUE, <<>>)
  BY DEF NewDocument, Empty, NoName
<1>. HIDE DEF x
<1>2. /\ x = Node(x.name, x.type, x.value, x.quoted, x.elements) /\ x.elements = <<>>
      /\ x.type = Object /\ x.name = NoName /\ x.value = NoName /\ x.quoted \in BOOLEAN
  BY <1>1 DEF Node
<1>3. MaxDepth \in 0..MaxDepth /\ \A S : <<>> \in Seq(S)
  BY DEF DepthAssumption
<1>4. x \in Trees[MaxDepth]
  <2>1. x.type \in {Object, Array, Value} /\ x.name \in STRING /\ x.value \in STRING
    BY <1>2, NoNameAssumption
  <2>2. x.elements \in Seq(Trees[MaxDepth - 1])
    BY <1>2, <1>3
  <2>. QED  BY <1>2, <1>3, <2>1, <2>2, NodeInTree
<1>5. Tidy(x, unique)
  BY <1>2, BareTidy
<1>. QED  BY <1>2, <1>4, <1>5 DEF x, Documents

LEMMA InvHolds == ASSUME DocumentAssumption, DepthAssumption PROVE Spec => []Inv
<1>1. Init => Inv
  BY NewIsTidy DEF Init, Inv
<1>2. Inv /\ [Next]_doc => Inv'
  <2>1. CASE UNCHANGED doc
    BY <2>1 DEF Inv
  <2>2. ASSUME Inv, Next PROVE Inv'
    <3>1. doc \in Documents /\ doc.type = Object /\ Tidy(doc, FALSE)
      BY <2>2 DEF Inv
    <3>2. Reload \/ (FALSE /\ CreatedAgain) \/ (doc' \in Documents /\ Tidy(doc', FALSE) /\ doc'.type = doc.type)
      BY <2>2, <3>1, CallsTidy
    <3>3. ASSUME Reload PROVE Inv'
      <4>1. doc' = Reloaded(doc) /\ doc' \in Documents
        BY <3>3 DEF Reload, Bounded
      <4>2. Tidy(Reloaded(doc), FALSE) /\ Reloaded(doc).type = Object
        BY <3>1, ReloadedTidy
      <4>. QED  BY <4>1, <4>2 DEF Inv
    <3>. QED  BY <3>1, <3>2, <3>3 DEF Inv
  <2>. QED  BY <2>1, <2>2
<1>. QED  BY <1>1, <1>2, PTL DEF Spec

LEMMA OneMoreStep ==
    ASSUME NEW i \in Nat
    PROVE  \A p \in AllPlaces : \A y : InTree(y, p) /\ i \in 1..Len(At(y, p).elements) =>
             p \o <<i>> \in AllPlaces /\ InTree(y, p \o <<i>>) /\ At(y, p \o <<i>>) = At(y, p).elements[i]
<1>. DEFINE More(p, y) == InTree(y, p) /\ i \in 1..Len(At(y, p).elements) =>
              p \o <<i>> \in AllPlaces /\ InTree(y, p \o <<i>>) /\ At(y, p \o <<i>>) = At(y, p).elements[i]
            G == {p \in AllPlaces : \A y : More(p, y)}
<1>1. <<>> \in G
  <2>1. <<>> \o <<i>> = <<i>> /\ <<>> \in AllPlaces
    BY DEF AllPlaces
  <2>2. ASSUME NEW y PROVE More(<<>>, y)
    BY <2>1, AtRoot, OneStep
  <2>. QED  BY <2>1, <2>2
<1>2. ASSUME NEW j \in Nat, NEW q \in AllPlaces, q \in G PROVE <<j>> \o q \in G
  <2>1. (<<j>> \o q) \o <<i>> = <<j>> \o (q \o <<i>>)
    <3>1. <<j>> \in Seq(Nat) /\ q \in Seq(Nat) /\ <<i>> \in Seq(Nat)
      BY DEF AllPlaces
    <3>. QED  BY <3>1, ConcatAssociative
  <2>2. ASSUME NEW y PROVE More(<<j>> \o q, y)
    <3>. SUFFICES ASSUME InTree(y, <<j>> \o q), i \in 1..Len(At(y, <<j>> \o q).elements)
                  PROVE  /\ (<<j>> \o q) \o <<i>> \in AllPlaces
                         /\ InTree(y, (<<j>> \o q) \o <<i>>)
                         /\ At(y, (<<j>> \o q) \o <<i>>) = At(y, <<j>> \o q).elements[i]
      OBVIOUS
    <3>. DEFINE c == y.elements[j]
    <3>1. j \in 1..Len(y.elements) /\ InTree(c, q) /\ At(y, <<j>> \o q) = At(c, q)
      BY ChildInTree, AtChild
    <3>. HIDE DEF c
    <3>2. More(q, c)
      BY <1>2
    <3>3. q \o <<i>> \in AllPlaces /\ InTree(c, q \o <<i>>) /\ At(c, q \o <<i>>) = At(c, q).elements[i]
      BY <3>1, <3>2
    <3>4. /\ <<j>> \o (q \o <<i>>) \in AllPlaces /\ InTree(y, <<j>> \o (q \o <<i>>))
          /\ At(y, <<j>> \o (q \o <<i>>)) = At(c, q \o <<i>>)
      <4>. DEFINE r == q \o <<i>>
      <4>1. r \in AllPlaces /\ InTree(c, r)
        BY <3>3
      <4>. HIDE DEF r
      <4>2. <<j>> \o r \in AllPlaces
        BY <4>1, PlaceParts
      <4>3. InTree(y, <<j>> \o r)
        BY <3>1, <4>1, ChildInTree DEF c
      <4>4. At(y, <<j>> \o r) = At(c, r)
        BY <4>1, AtChild DEF c
      <4>. QED  BY <4>2, <4>3, <4>4 DEF r
    <3>. QED  BY <2>1, <3>1, <3>3, <3>4
  <2>3. <<j>> \o q \in AllPlaces
    BY PlaceParts
  <2>. HIDE DEF More
  <2>. QED  BY <2>2, <2>3
<1>. HIDE DEF G
<1>3. \A p \in AllPlaces : p \in G
  BY <1>1, <1>2, EveryPlace
<1>. QED  BY <1>3 DEF G

\* A document without empty containers, in which the elements of objects have plain names.
LEMMA WhatIsReadable ==
    ASSUME DepthAssumption, NEW y \in Documents, y.type = Object, Tidy(y, FALSE),
           NoEmptyContainer(y), ElementsAreNamed(y), NamesArePlain(y), y.elements # <<>>
    PROVE  Readable(y)
<1>1. Places(y) = PlacesIn(y)
  BY PlacesAre
<1>2. ASSUME NEW p \in AllPlaces, InTree(y, p) PROVE Legible(At(y, p))
  <2>. DEFINE x == At(y, p)
  <2>1. p \in Places(y)
    BY <1>1, <1>2 DEF PlacesIn
  <2>2. x.type # Value => x.elements # <<>>
    <3>1. CASE p = <<>>
      <4>1. x = y
        BY <3>1, AtRoot
      <4>. QED  BY <4>1
    <3>2. CASE p # <<>>
      BY <2>1, <3>2 DEF NoEmptyContainer
    <3>. QED  BY <3>1, <3>2
  <2>3. Sound(x, FALSE)
    BY <1>2 DEF Tidy
  <2>4. x.type = Object => \A i \in 1..Len(x.elements) : x.elements[i].name # NoName
    BY <2>1 DEF ElementsAreNamed, ObjectsOf
  <2>6. ASSUME NEW i \in 1..Len(x.elements) PROVE IsPlain(x.elements[i].name)
    <3>1. IsSeq(x.elements) /\ Len(x.elements) \in Nat
      BY <2>3, SeqParts DEF Sound
    <3>2. p \o <<i>> \in AllPlaces /\ InTree(y, p \o <<i>>) /\ At(y, p \o <<i>>) = x.elements[i]
      <4>1. i \in Nat
        BY <3>1
      <4>. QED  BY <1>2, <4>1, OneMoreStep
    <3>3. p \o <<i>> \in Places(y)
      BY <1>1, <3>2 DEF PlacesIn
    <3>. QED  BY <3>2, <3>3 DEF NamesArePlain
  <2>. HIDE DEF x
  <2>5. Legible(x)
    BY <2>2, <2>3, <2>4, <2>6 DEF Legible, Sound
  <2>. QED  BY <2>5 DEF x
<1>. QED  BY <1>2 DEF Readable

\* RoundTrip (CJsonNode.cpp: parse() after serializeNode()): for any keys, names and values,
\* any depth and any sequence of calls, a document that is saved is read back to the last
\* element, as long as it holds no empty object or array, no nameless element, and no name
\* that would need to be quoted.  (No further call is made on a document in which
\* createElement() has put one node twice.)
THEOREM WhatIsSavedIsRead == Spec => []RoundTrip
<1>0. DocumentAssumption /\ DepthAssumption
  BY DocumentAssumption, DepthAssumption DEF DocumentAssumption, DepthAssumption
<1>1. ASSUME Inv PROVE RoundTrip
  <2>1. doc \in Documents /\ doc.type = Object /\ Tidy(doc, FALSE)
    BY <1>1 DEF Inv
  <2>2. ASSUME NoEmptyContainer(doc), ElementsAreNamed(doc), NamesArePlain(doc)
        PROVE  Serialize(Reloaded(doc)) = Serialize(doc)
    <3>1. doc.elements # <<>> => Readable(doc)
      BY <1>0, <2>1, <2>2, WhatIsReadable
    <3>2. Copy(Reloaded(doc), doc)
      BY <1>0, <2>1, <3>1, ReloadedIsCopy
    <3>. QED  BY <3>2 DEF Copy
  <2>. QED  BY <2>2 DEF RoundTrip
<1>2. Inv => RoundTrip
  BY <1>1
<1>3. Spec => []Inv
  BY <1>0, InvHolds
<1>. QED  BY <1>2, <1>3, PTL
-------------------------------------------------------------------------------
(* Names in an object stay unique, when keys are single names.               *)

LEMMA AtIsDocument ==
    ASSUME DepthAssumption
    PROVE  \A p \in AllPlaces : \A y \in Documents : InTree(y, p) => At(y, p) \in Documents
<1>. DEFINE G == {p \in AllPlaces : \A y \in Documents : InTree(y, p) => At(y, p) \in Documents}
<1>1. <<>> \in G
  BY AtRoot DEF AllPlaces
<1>2. ASSUME NEW i \in Nat, NEW q \in AllPlaces, q \in G PROVE <<i>> \o q \in G
  <2>1. ASSUME NEW y \in Documents, InTree(y, <<i>> \o q) PROVE At(y, <<i>> \o q) \in Documents
    <3>. DEFINE c == y.elements[i]
    <3>1. i \in 1..Len(y.elements) /\ InTree(c, q) /\ At(y, <<i>> \o q) = At(c, q)
      BY <2>1, ChildInTree, AtChild
    <3>2. c \in Documents
      <4>1. y.elements \in Seq(Documents)
        BY DocumentParts
      <4>. HIDE DEF Documents
      <4>. QED  BY <3>1, <4>1
    <3>. HIDE DEF c
    <3>. QED  BY <1>2, <3>1, <3>2
  <2>2. <<i>> \o q \in AllPlaces
    BY PlaceParts
  <2>. QED  BY <2>1, <2>2
<1>3. \A p \in AllPlaces : p \in G
  <2>. HIDE DEF G
  <2>. QED  BY <1>1, <1>2, EveryPlace
<1>. QED  BY <1>3

LEMMA SoundIs ==
    ASSUME NEW x, Sound(x, FALSE)
    PROVE  Sound(x, TRUE) <=>
             /\ x.type = Value => x.elements = <<>>
             /\ x.type = Object =>
                   \A i, j \in 1..Len(x.elements) :
                       x.elements[i].name = x.elements[j].name /\ x.elements[i].name # NoName => i = j
  BY DEF Sound

\* What WellFormed says of one node.
Alone(x) ==
    \A i, j \in 1..Len(x.elements) :
        x.elements[i].name = x.elements[j].name /\ x.elements[i].name # NoName => i = j

Formed(x) ==
    CASE x.type = Value -> x.elements = <<>>
      [] x.type = Array -> TRUE
      [] x.type = Object -> Alone(x)

Whole(x)  == Sound(x, FALSE)
Unique(x) == Sound(x, TRUE)

LEMMA FormedIs ==
    ASSUME NEW x, x.type \in {Object, Array, Value}, Whole(x)
    PROVE  Formed(x) <=> Unique(x)
<1>1. Unique(x) <=> (x.type = Value => x.elements = <<>>) /\ (x.type = Object => Alone(x))
  BY SoundIs DEF Alone, Whole, Unique
<1>2. CASE x.type = Value
  <2>1. x.type # Array /\ x.type # Object
    BY <1>2 DEF Object, Array, Value
  <2>2. Formed(x) <=> x.elements = <<>>
    BY <1>2, <2>1 DEF Formed
  <2>. QED  BY <1>1, <1>2, <2>1, <2>2
<1>3. CASE x.type = Array
  <2>1. x.type # Value /\ x.type # Object
    BY <1>3 DEF Object, Array, Value
  <2>2. Formed(x)
    BY <1>3, <2>1 DEF Formed
  <2>. QED  BY <1>1, <2>1, <2>2
<1>4. CASE x.type = Object
  <2>1. x.type # Value /\ x.type # Array
    BY <1>4 DEF Object, Array, Value
  <2>2. Formed(x) <=> Alone(x)
    BY <1>4, <2>1 DEF Formed
  <2>. QED  BY <1>1, <1>4, <2>1, <2>2
<1>. QED  BY <1>2, <1>3, <1>4

LEMMA WellFormedIs ==
    ASSUME DepthAssumption, NEW y \in Documents, Tidy(y, FALSE)
    PROVE  WellFormed(y) <=> Tidy(y, TRUE)
<1>1. Places(y) = PlacesIn(y)
  BY PlacesAre
<1>2. ASSUME NEW p \in AllPlaces, InTree(y, p) PROVE Formed(At(y, p)) <=> Sound(At(y, p), TRUE)
  <2>1. At(y, p) \in Documents
    BY <1>2, AtIsDocument
  <2>2. At(y, p).type \in {Object, Array, Value}
    BY <2>1, DocumentParts
  <2>3. Whole(At(y, p))
    BY <1>2 DEF Tidy, Whole
  <2>4. Formed(At(y, p)) <=> Unique(At(y, p))
    BY <2>2, <2>3, FormedIs
  <2>. QED  BY <2>4 DEF Unique
<1>3. WellFormed(y) <=> \A p \in PlacesIn(y) : Formed(At(y, p))
  BY <1>1 DEF WellFormed, Formed, Alone
<1>. QED  BY <1>2, <1>3 DEF PlacesIn, Tidy

\* NamesStayUnique (CJsonNode.cpp: find() takes the first element of a name): no loading, and
\* no call but createElement() with the name of an element that exists, gives an object a
\* second element of a name - for any single names as keys.  A key of several names does
\* (getObject() looks for the complete key below the path it made).
THEOREM NoNameIsDoubled ==
    ASSUME \A key \in Keys : Len(key) = 1
    PROVE  Spec => NamesStayUnique
<1>0. DocumentAssumption /\ DepthAssumption
  BY DocumentAssumption, DepthAssumption DEF DocumentAssumption, DepthAssumption
<1>. DEFINE Step == WellFormed(doc) /\ NoEmptyContainer(doc) /\ ElementsAreNamed(doc) /\ NamesArePlain(doc)
                      => WellFormed(doc') \/ CreatedAgain
<1>1. ASSUME Inv, Next, WellFormed(doc), NoEmptyContainer(doc), ElementsAreNamed(doc), NamesArePlain(doc),
             ~CreatedAgain
      PROVE  WellFormed(doc')
  <2>1. doc \in Documents /\ doc.type = Object /\ Tidy(doc, FALSE)
    BY <1>1 DEF Inv
  <2>2. Tidy(doc, TRUE)
    BY <1>0, <1>1, <2>1, WellFormedIs
  <2>3. Reload \/ (doc' \in Documents /\ Tidy(doc', TRUE))
    BY <1>0, <1>1, <2>1, <2>2, CallsTidy
  <2>4. ASSUME Reload PROVE doc' \in Documents /\ Tidy(doc', TRUE)
    <3>1. doc' = Reloaded(doc) /\ doc' \in Documents
      BY <2>4 DEF Reload, Bounded
    <3>2. doc.elements # <<>> => Readable(doc)
      BY <1>0, <1>1, <2>1, WhatIsReadable
    <3>3. Copy(Reloaded(doc), doc)
      BY <1>0, <2>1, <3>2, ReloadedIsCopy
    <3>. QED  BY <2>2, <3>1, <3>3 DEF Copy
  <2>5. doc' \in Documents /\ Tidy(doc', TRUE) /\ Tidy(doc', FALSE)
    <3>1. \A x : Sound(x, TRUE) => Sound(x, FALSE)
      BY DEF Sound
    <3>. QED  BY <2>3, <2>4, <3>1 DEF Tidy
  <2>. QED  BY <1>0, <2>5, WellFormedIs
<1>2. Inv /\ [Next]_doc => [Step]_doc
  BY <1>1
<1>3. Spec => []Inv
  BY <1>0, InvHolds
<1>. QED  BY <1>2, <1>3, PTL DEF Spec, NamesStayUnique
-------------------------------------------------------------------------------
(* What is assigned to a name is what is found there.                        *)

\* Single names: the path to them is the node itself.
LEMMA FindOne ==
    ASSUME NEW x, IsSeq(x.elements), NEW key, Len(key) = 1
    PROVE  /\ Find(x, key) = IF ChildNamed(x, key[1]) = 0 THEN Nowhere ELSE <<ChildNamed(x, key[1])>>
           /\ ChildNamed(x, key[1]) # 0 => <<ChildNamed(x, key[1])>> # Nowhere
           /\ ChildNamed(x, key[1]) \in Nat
<1>. DEFINE i == ChildNamed(x, key[1])
<1>1. Len(key) \in Nat /\ 1 \in 1..Len(key) /\ 1 - 1 = 0
  OBVIOUS
<1>2. FindTo(x, key, 1) = FindNext(FindTo(x, key, 0), x, key, 1) /\ FindTo(x, key, 0) = <<>>
  BY <1>1, FindGoesOn
<1>3. Find(x, key) = FindTo(x, key, 1)
  BY <1>1, FindGoesOn
<1>4. At(x, <<>>) = x /\ <<>> # Nowhere
  BY AtRoot DEF Nowhere
<1>5. Find(x, key) = IF i = 0 THEN Nowhere ELSE Append(<<>>, i)
  BY <1>2, <1>3, <1>4 DEF FindNext
<1>6. i \in Nat
  <2>1. Len(x.elements) \in Nat
    BY SeqParts
  <2>2. i = 0 \/ i \in 1..Len(x.elements)
    BY ChildNamedIs
  <2>. QED  BY <2>1, <2>2
<1>. HIDE DEF i
<1>7. Append(<<>>, i) = <<i>> /\ (i # 0 => <<i>> # Nowhere)
  BY DEF Nowhere
<1>. QED  BY <1>5, <1>6, <1>7 DEF i

LEMMA LookupOne ==
    ASSUME NEW x, IsSeq(x.elements), NEW key, Len(key) = 1
    PROVE  Lookup(x, key) = IF ChildNamed(x, key[1]) = 0 THEN "" ELSE x.elements[ChildNamed(x, key[1])].value
<1>. DEFINE i == ChildNamed(x, key[1])
<1>1. Find(x, key) = (IF i = 0 THEN Nowhere ELSE <<i>>) /\ (i # 0 => <<i>> # Nowhere) /\ i \in Nat
  BY FindOne
<1>. HIDE DEF i
<1>2. At(x, <<i>>) = x.elements[i]
  BY <1>1, OneStep
<1>3. Lookup(x, key) = IF i = 0 THEN "" ELSE x.elements[i].value
  BY <1>1, <1>2 DEF Lookup
<1>. QED  BY <1>3 DEF i

LEMMA PathToOne ==
    ASSUME NEW x, NEW key, Len(key) = 1
    PROVE  PathTo(x, key) = [tree |-> x, place |-> <<>>]
<1>. DEFINE f == CHOOSE f : PathIs(f, x, key, 0)
<1>1. Len(key) - 1 = 0 /\ 0 \in Nat /\ 0 \in 0..0
  OBVIOUS
<1>2. PathTo(x, key) = f[0]
  BY <1>1 DEF PathTo, PathIs, PathFirst, PathNext
<1>3. PathIs(f, x, key, 0)
  BY <1>1, PathExists
<1>. HIDE DEF f
<1>4. f[0] = PathFirst(x, key)
  BY <1>1, <1>3 DEF PathIs
<1>. QED  BY <1>2, <1>4 DEF PathFirst

\* In w, x has a value for a name: the first element of that name, or one behind all others.
AssignedAt(x, w, name, value, k) ==
    /\ IsSeq(x.elements) /\ IsSeq(w.elements)
    /\ k \in 1..Len(w.elements) /\ w.elements[k].name = name /\ w.elements[k].value = value
    /\ \A j \in 1..Len(w.elements) : j # k => j \in 1..Len(x.elements) /\ w.elements[j] = x.elements[j]
    /\ \A j \in 1..Len(x.elements) : j \in 1..Len(w.elements) /\ (x.elements[j].name = name => k <= j)
    /\ k \in 1..Len(x.elements) => x.elements[k].name = name

LEMMA GetOne ==
    ASSUME NEW x, NEW unique, Tidy(x, unique), x.type = Object, NEW key, LegalKey(key), Len(key) = 1
    PROVE  \E k \in Nat : \E t : /\ Get(x, key, Value).tree = t /\ Get(x, key, Value).place = <<k>>
                                 /\ t = Node(t.name, t.type, t.value, t.quoted, t.elements)
                                 /\ AssignedAt(x, t, key[1], t.elements[k].value, k)
<1>. DEFINE name == key[1]
            i == ChildNamed(x, name)
            inner == GetOrAdd(x, key, Value)
            place == Find(x, key)
            n == Len(x.elements)
            g == Get(x, key, Value)
<1>1. IsSeq(x.elements) /\ x = Node(x.name, x.type, x.value, x.quoted, x.elements) /\ n \in Nat
  BY TidySplits, SeqParts DEF Sound
<1>2. place = (IF i = 0 THEN Nowhere ELSE <<i>>) /\ (i # 0 => <<i>> # Nowhere) /\ i \in Nat
  BY <1>1, FindOne
<1>3. g.tree = inner.tree /\ g.place = <<>> \o inner.place
  <2>1. PathTo(x, key) = [tree |-> x, place |-> <<>>]
    BY PathToOne
  <2>2. PathTo(x, key).tree = x /\ PathTo(x, key).place = <<>> /\ At(x, <<>>) = x
    BY <2>1, AtRoot
  <2>3. g = Within(PathTo(x, key), inner)
    BY <2>2 DEF Get
  <2>4. g = [tree |-> Put(x, <<>>, inner.tree), place |-> <<>> \o inner.place]
    BY <2>2, <2>3 DEF Within
  <2>. HIDE DEF g, inner
  <2>. QED  BY <2>4, PutRoot
<1>4. \A k \in Nat : <<>> \o <<k>> = <<k>>
  OBVIOUS
<1>5. CASE i = 0
  <2>. DEFINE c == Empty(name, Value)
              t == AddChild(x, c)
  <2>1. inner.tree = t /\ inner.place = <<n + 1>>
    <3>1. Last(key) = name
      BY DEF Last
    <3>2. place = Nowhere
      BY <1>2, <1>5
    <3>. QED  BY <3>1, <3>2 DEF GetOrAdd
  <2>2. c = Node(c.name, c.type, c.value, c.quoted, c.elements) /\ c.elements = <<>> /\ c.name = name
    <3>1. c = Node(name, Value, "", TRUE, <<>>)
      BY DEF Empty
    <3>. HIDE DEF c, name
    <3>. QED  BY <3>1 DEF Node
  <2>. HIDE DEF c, name
  <2>3. Tidy(c, unique)
    BY <2>2, BareTidy
  <2>4. x.type # Value /\ x.type # Array
    BY DEF Object, Array, Value
  <2>5. \A j \in 1..n : x.elements[j].name # name
    <3>1. 0 \notin 1..n
      BY <1>1
    <3>. QED  BY <1>1, <1>5, <3>1, ChildNamedIs DEF i, n
  <2>6. /\ Tidy(t, unique) /\ Len(t.elements) = n + 1 /\ t.elements[n + 1] = c
        /\ \A j \in 1..n : t.elements[j] = x.elements[j]
    <3>1. x.type = Array => c.name = NoName
      BY <2>4
    <3>2. unique /\ x.type = Object => \A j \in 1..Len(x.elements) : x.elements[j].name # c.name \/ c.name = NoName
      BY <2>2, <2>5
    <3>. HIDE DEF n
    <3>3. /\ Tidy(t, unique) /\ Len(t.elements) = Len(x.elements) + 1 /\ t.elements[Len(x.elements) + 1] = c
          /\ \A j \in 1..Len(x.elements) : t.elements[j] = x.elements[j]
      BY <2>3, <2>4, <3>1, <3>2, AddTidy
    <3>. QED  BY <3>3 DEF n
  <2>. HIDE DEF n
  <2>. HIDE DEF t
  <2>7. IsSeq(t.elements) /\ t = Node(t.name, t.type, t.value, t.quoted, t.elements)
    BY <2>6, TidySplits DEF Sound
  <2>8. n + 1 \in 1..(n + 1) /\ n + 1 \notin 1..n /\ (\A j \in 1..(n + 1) : j # n + 1 => j \in 1..n) /\ \A j \in 1..n : j \in 1..(n + 1)
    BY <1>1
  <2>9. AssignedAt(x, t, name, t.elements[n + 1].value, n + 1)
    BY <1>1, <2>2, <2>6, <2>7, <2>5, <2>8 DEF AssignedAt, n
  <2>10. n + 1 \in Nat
    BY <1>1
  <2>. HIDE DEF g, inner
  <2>. QED  BY <1>3, <1>4, <2>1, <2>7, <2>9, <2>10 DEF g, name
<1>6. CASE i # 0
  <2>. DEFINE old == x.elements[i]
              c == Converted(old, Value)
              t == Put(x, <<i>>, c)
  <2>1. i \in 1..n /\ old.name = name /\ \A j \in 1..n : x.elements[j].name = name => i <= j
    BY <1>1, <1>6, ChildNamedIs
  <2>2. inner.tree = t /\ inner.place = <<i>>
    <3>1. place = <<i>> /\ place # Nowhere
      BY <1>2, <1>6
    <3>2. At(x, <<i>>) = old
      BY <1>2, OneStep
    <3>3. inner = [tree |-> Put(x, place, Converted(At(x, place), Value)), place |-> place]
      BY <3>1 DEF GetOrAdd
    <3>. HIDE DEF i, inner, place, old
    <3>. QED  BY <3>1, <3>2, <3>3
  <2>. HIDE DEF i
  <2>3. Tidy(old, unique)
    BY <2>1, TidySplits
  <2>. HIDE DEF old
  <2>4. c.name = name
    BY <2>1, <2>3, ConvertedTidy
  <2>. HIDE DEF c
  <2>5. t = WithElement(x, i, c)
    BY <1>2, PutOne
  <2>. HIDE DEF t, n, name
  <2>6. /\ t = Node(t.name, t.type, t.value, t.quoted, t.elements)
        /\ IsSeq(t.elements) /\ Len(t.elements) = n
        /\ \A j \in 1..n : t.elements[j] = IF j = i THEN c ELSE x.elements[j]
    BY <1>1, <2>1, <2>5, WithElementIs DEF n
  <2>7. x.elements[i].name = name
    BY <2>1 DEF old
  <2>8. AssignedAt(x, t, name, t.elements[i].value, i)
    BY <1>1, <2>1, <2>4, <2>6, <2>7 DEF AssignedAt, n
  <2>. HIDE DEF g, inner
  <2>. QED  BY <1>2, <1>3, <1>4, <2>2, <2>6, <2>8 DEF g, name
<1>. QED  BY <1>5, <1>6

LEMMA AssignOne ==
    ASSUME NEW x, NEW unique, Tidy(x, unique), x.type = Object, NEW key, LegalKey(key), Len(key) = 1, NEW value
    PROVE  \E k : AssignedAt(x, Assign(x, key, value, TRUE), key[1], value, k)
<1>. DEFINE g == Get(x, key, Value)
            name == key[1]
            w == Assign(x, key, value, TRUE)
<1>1. PICK k \in Nat : \E t : /\ g.tree = t /\ g.place = <<k>>
                              /\ t = Node(t.name, t.type, t.value, t.quoted, t.elements)
                              /\ AssignedAt(x, t, name, t.elements[k].value, k)
  BY GetOne
<1>. DEFINE t == g.tree
<1>2. /\ g.place = <<k>> /\ t = Node(t.name, t.type, t.value, t.quoted, t.elements)
      /\ AssignedAt(x, t, name, t.elements[k].value, k)
  BY <1>1
<1>. DEFINE c == Scalar(At(t, <<k>>).name, value, TRUE)
<1>3. w = Put(t, <<k>>, c)
  BY <1>2 DEF Assign, SetScalar
<1>. HIDE DEF g, t, w, name
<1>4. At(t, <<k>>) = t.elements[k] /\ t.elements[k].name = name /\ k \in 1..Len(t.elements) /\ IsSeq(t.elements)
  BY <1>2, OneStep DEF AssignedAt
<1>5. c.name = name /\ c.value = value
  <2>1. c = Node(name, Value, value, TRUE, <<>>)
    BY <1>4 DEF Scalar
  <2>. HIDE DEF c
  <2>. QED  BY <2>1 DEF Node
<1>. HIDE DEF c
<1>6. w = WithElement(t, k, c)
  BY <1>3, PutOne
<1>7. /\ IsSeq(w.elements) /\ Len(w.elements) = Len(t.elements)
      /\ \A j \in 1..Len(t.elements) : w.elements[j] = IF j = k THEN c ELSE t.elements[j]
  BY <1>2, <1>4, <1>6, WithElementIs
<1>8. AssignedAt(x, w, name, value, k)
  BY <1>2, <1>4, <1>5, <1>7 DEF AssignedAt
<1>. QED  BY <1>8 DEF w, name

LEMMA AssignedIsFound ==
    ASSUME NEW x, NEW w, NEW name, NEW value, NEW k, AssignedAt(x, w, name, value, k)
    PROVE  /\ ChildNamed(w, name) = k
           /\ \A other : other # name =>
                 /\ ChildNamed(w, other) = ChildNamed(x, other)
                 /\ ChildNamed(x, other) # 0 => w.elements[ChildNamed(x, other)] = x.elements[ChildNamed(x, other)]
<1>1. /\ IsSeq(x.elements) /\ IsSeq(w.elements)
      /\ k \in 1..Len(w.elements) /\ w.elements[k].name = name
      /\ \A j \in 1..Len(w.elements) : j # k => j \in 1..Len(x.elements) /\ w.elements[j] = x.elements[j]
      /\ \A j \in 1..Len(x.elements) : j \in 1..Len(w.elements) /\ (x.elements[j].name = name => k <= j)
      /\ k \in 1..Len(x.elements) => x.elements[k].name = name
  BY DEF AssignedAt
<1>2. Len(x.elements) \in Nat /\ Len(w.elements) \in Nat
  BY <1>1, SeqParts
<1>3. ChildNamed(w, name) = k
  <2>. DEFINE c == ChildNamed(w, name)
  <2>1. c \in 1..Len(w.elements) /\ w.elements[c].name = name /\ c <= k
    BY <1>1, ChildNamedIs
  <2>. HIDE DEF c
  <2>2. c # k => k <= c
    BY <1>1, <2>1
  <2>3. c = k
    BY <1>1, <1>2, <2>1, <2>2
  <2>. QED  BY <2>3 DEF c
<1>4. ASSUME NEW other, other # name
      PROVE  /\ ChildNamed(w, other) = ChildNamed(x, other)
             /\ ChildNamed(x, other) # 0 => w.elements[ChildNamed(x, other)] = x.elements[ChildNamed(x, other)]
  <2>. DEFINE c == ChildNamed(w, other)
              d == ChildNamed(x, other)
  <2>1. \/ c = 0 /\ \A j \in 1..Len(w.elements) : w.elements[j].name # other
        \/ /\ c \in 1..Len(w.elements) /\ w.elements[c].name = other
           /\ \A j \in 1..Len(w.elements) : w.elements[j].name = other => c <= j
    BY <1>1, ChildNamedIs
  <2>2. \/ d = 0 /\ \A j \in 1..Len(x.elements) : x.elements[j].name # other
        \/ /\ d \in 1..Len(x.elements) /\ x.elements[d].name = other
           /\ \A j \in 1..Len(x.elements) : x.elements[j].name = other => d <= j
    BY <1>1, ChildNamedIs
  <2>. HIDE DEF c, d
  <2>3. CASE d = 0
    <3>1. \A j \in 1..Len(x.elements) : x.elements[j].name # other
      BY <1>2, <2>2, <2>3
    <3>2. ~ (c \in 1..Len(w.elements) /\ w.elements[c].name = other)
      BY <1>1, <1>4, <3>1
    <3>. QED  BY <2>1, <2>3, <3>2 DEF c, d
  <2>4. CASE d # 0
    <3>1. d \in 1..Len(x.elements) /\ x.elements[d].name = other
      BY <2>2, <2>4
    <3>2. d # k /\ d \in 1..Len(w.elements) /\ w.elements[d] = x.elements[d]
      BY <1>1, <1>4, <3>1
    <3>3. c \in 1..Len(w.elements) /\ w.elements[c].name = other /\ c <= d
      BY <2>1, <3>1, <3>2
    <3>4. c # k
      BY <1>1, <1>4, <3>3
    <3>5. c \in 1..Len(x.elements) /\ x.elements[c].name = other
      BY <1>1, <3>3, <3>4
    <3>6. d <= c
      BY <2>2, <2>4, <3>5
    <3>7. c = d
      BY <1>2, <3>1, <3>3, <3>6
    <3>. QED  BY <3>2, <3>7 DEF c, d
  <2>. QED  BY <2>3, <2>4
<1>. QED  BY <1>3, <1>4

\* AssignedIsRead (CJsonNode.cpp: operator[] and getValue()): in any object of the document,
\* whatever calls made it, the value assigned to a key is what is read of it, and what is read
\* of the other keys stays - for any single names as keys.
THEOREM WhatIsAssignedIsRead ==
    ASSUME \A key \in Keys : Len(key) = 1
    PROVE  Spec => []AssignedIsRead
<1>0. DocumentAssumption /\ DepthAssumption
  BY DocumentAssumption, DepthAssumption DEF DocumentAssumption, DepthAssumption
<1>. DEFINE IsRead(p, key, v) ==
              LET before == At(doc, p)
                  after  == Assign(before, key, v, TRUE)
              IN  /\ Lookup(after, key) = v
                  /\ \A other \in Keys : Unrelated(key, other) => Lookup(after, other) = Lookup(before, other)
<1>1. ASSUME Inv, NEW p \in ObjectsOf(doc), NEW key \in Keys, NEW v PROVE IsRead(p, key, v)
  <2>. DEFINE x == At(doc, p)
              w == Assign(x, key, v, TRUE)
  <2>1. Tidy(x, FALSE) /\ x.type = Object
    <3>1. p \in Places(doc) /\ x.type = Object /\ Places(doc) = PlacesIn(doc)
      BY <1>0, <1>1, PlacesAre DEF ObjectsOf, Inv
    <3>. QED  BY <1>1, <3>1, TidyAt DEF Inv, PlacesIn
  <2>2. LegalKey(key) /\ Len(key) = 1
    BY <1>0, KeysAreLegal
  <2>. HIDE DEF x
  <2>3. PICK k : AssignedAt(x, w, key[1], v, k)
    BY <2>1, <2>2, AssignOne
  <2>. HIDE DEF w
  <2>4. IsSeq(x.elements) /\ IsSeq(w.elements) /\ w.elements[k].value = v
        /\ k \in 1..Len(w.elements) /\ Len(w.elements) \in Nat
    BY <2>3, SeqParts DEF AssignedAt
  <2>5. Lookup(w, key) = v
    <3>1. ChildNamed(w, key[1]) = k
      BY <2>3, AssignedIsFound
    <3>2. k # 0
      BY <2>4
    <3>. QED  BY <2>2, <2>4, <3>1, <3>2, LookupOne
  <2>6. ASSUME NEW other \in Keys, Unrelated(key, other) PROVE Lookup(w, other) = Lookup(x, other)
    <3>1. LegalKey(other) /\ Len(other) = 1
      BY <1>0, KeysAreLegal
    <3>2. other[1] # key[1]
      BY <2>2, <2>6, <3>1 DEF Unrelated, IsPrefix, LegalKey
    <3>. DEFINE i == ChildNamed(x, other[1])
    <3>3. ChildNamed(w, other[1]) = i /\ (i # 0 => w.elements[i] = x.elements[i])
      BY <2>3, <3>2, AssignedIsFound
    <3>4. Lookup(x, other) = IF i = 0 THEN "" ELSE x.elements[i].value
      BY <2>4, <3>1, LookupOne
    <3>5. Lookup(w, other) = IF i = 0 THEN "" ELSE w.elements[i].value
      BY <2>4, <3>1, <3>3, LookupOne
    <3>. HIDE DEF i
    <3>6. CASE i = 0
      BY <3>4, <3>5, <3>6
    <3>7. CASE i # 0
      BY <3>3, <3>4, <3>5, <3>7
    <3>. QED  BY <3>6, <3>7
  <2>. QED  BY <2>5, <2>6 DEF w, x
<1>2. Inv => AssignedIsRead
  <2>1. AssignedIsRead <=> \A p \in ObjectsOf(doc), key \in Keys, v \in Values \cup {"another value"} : IsRead(p, key, v)
    BY DEF AssignedIsRead
  <2>. HIDE DEF IsRead
  <2>. QED  BY <1>1, <2>1
<1>3. Spec => []Inv
  BY <1>0, InvHolds
<1>. QED  BY <1>2, <1>3, PTL
===============================================================================
