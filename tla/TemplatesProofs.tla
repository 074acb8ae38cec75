-------------------------- MODULE TemplatesProofs --------------------------
(***************************************************************************)
(* Proofs about string templates, for templates, values and given terms of *)
(* any length.  The scans of a template, of an escaped text and of the     *)
(* parts of a text are recursive functions: each is first shown to exist   *)
(* and to obey its equations, place by place.                              *)
(***************************************************************************)
EXTENDS Templates, Integers, SequenceTheorems, NaturalsInduction, WellFoundedInduction, TLAPS

Text == Seq(STRING)

-----------------------------------------------------------------------------
(* Induction over the numbers and over the places of a sequence.           *)
LEMMA LeastNumber ==
  ASSUME NEW T \in SUBSET Nat, T # {}
  PROVE  \E n \in T : \A m \in T : n <= m
<1>1. IsWellFoundedOn(OpToRel(<, Nat), Nat)
  BY NatLessThanWellFounded
<1>2. PICK n \in T : \A m \in T : ~(<< m, n >> \in OpToRel(<, Nat))
  BY <1>1, WFMin
<1>3. \A m \in T : m < n => << m, n >> \in OpToRel(<, Nat)
  BY DEF OpToRel
<1>4. \A m \in T : ~(m < n)
  BY <1>2, <1>3
<1> QED
  BY <1>4

LEMMA Upwards ==
  ASSUME NEW N \in Nat, NEW G, 0 \in G, \A n \in 0 .. N - 1 : n \in G => n + 1 \in G
  PROVE  \A n \in 0 .. N : n \in G
<1> DEFINE T == { n \in 0 .. N : n \notin G }
<1> SUFFICES ASSUME T # {} PROVE FALSE
  OBVIOUS
<1>1. PICK n \in T : \A m \in T : n <= m
  BY LeastNumber, T \in SUBSET Nat
<1>2. n # 0 /\ n - 1 \in 0 .. N - 1 /\ n = (n - 1) + 1
  BY <1>1
<1>3. n - 1 \in G
  BY <1>1, <1>2
<1> QED
  BY <1>1, <1>2, <1>3

LEMMA Downwards ==
  ASSUME NEW N \in Nat, NEW G, \A k \in 1 .. N : (\A j \in k + 1 .. N : j \in G) => k \in G
  PROVE  \A k \in 1 .. N : k \in G
<1> DEFINE Bad == { k \in 1 .. N : k \notin G }
           T == { n \in 0 .. N : \E k \in Bad : n = N - k }
<1> SUFFICES ASSUME Bad # {} PROVE FALSE
  OBVIOUS
<1>1. T # {} /\ T \in SUBSET Nat
  <2>1. PICK k \in Bad : TRUE
    OBVIOUS
  <2>2. N - k \in 0 .. N
    BY <2>1
  <2>3. N - k \in T
    BY <2>1, <2>2
  <2>4. T \in SUBSET Nat
    OBVIOUS
  <2> QED
    BY <2>3, <2>4
<1>2. PICK n \in T : \A m \in T : n <= m
  BY <1>1, LeastNumber
<1>3. PICK k \in Bad : n = N - k
  BY <1>2
<1>4. ASSUME NEW j \in k + 1 .. N, j \notin G PROVE FALSE
  <2>1. j \in Bad /\ N - j \in T
    BY <1>3, <1>4
  <2> QED
    BY <1>2, <1>3, <1>4, <2>1
<1> QED
  BY <1>3, <1>4

-----------------------------------------------------------------------------
(* Putting texts together.                                                 *)
UpTo(texts, n, f) == f = [k \in 0 .. n |-> IF k = 0 THEN << >> ELSE f[k - 1] \o texts[k]]

LEMMA UpToExists ==
  ASSUME NEW texts, NEW N \in Nat
  PROVE  \E f : UpTo(texts, N, f)
<1> DEFINE G == { n \in 0 .. N : \E f : UpTo(texts, n, f) }
<1>1. 0 \in G
  <2> DEFINE f == [k \in 0 .. 0 |-> << >>]
  <2>1. UpTo(texts, 0, f)
    BY DEF UpTo
  <2> QED
    BY <2>1
<1>2. ASSUME NEW n \in 0 .. N - 1, n \in G PROVE n + 1 \in G
  <2>1. PICK f : UpTo(texts, n, f)
    BY <1>2
  <2> DEFINE g == [k \in 0 .. n + 1 |-> IF k = 0 THEN << >> ELSE f[k - 1] \o texts[k]]
  <2>2. ASSUME NEW k \in 0 .. n PROVE g[k] = f[k]
    BY <2>1 DEF UpTo
  <2>3. ASSUME NEW k \in 0 .. n + 1 PROVE g[k] = IF k = 0 THEN << >> ELSE g[k - 1] \o texts[k]
    <3>1. k # 0 => k - 1 \in 0 .. n
      OBVIOUS
    <3> QED
      BY <2>2, <3>1
  <2>4. g = [k \in 0 .. n + 1 |-> g[k]]
    OBVIOUS
  <2> HIDE DEF g
  <2>5. UpTo(texts, n + 1, g)
    BY <2>3, <2>4 DEF UpTo
  <2> QED
    BY <2>5
<1> HIDE DEF G
<1>3. \A n \in 0 .. N : n \in G
  BY <1>1, <1>2, Upwards
<1> QED
  BY <1>3 DEF G

ConcatUpTo(texts) == CHOOSE f : UpTo(texts, Len(texts), f)

LEMMA EmptyText == << >> \in Text /\ Len(<< >>) = 0
BY EmptySeq DEF Text

LEMMA LongerText ==
  ASSUME NEW a \in Text, NEW b \in Text
  PROVE  /\ a \o b \in Text /\ Len(a \o b) = Len(a) + Len(b) /\ Len(a) \in Nat /\ Len(b) \in Nat
         /\ \A k \in 1 .. Len(a) : (a \o b)[k] = a[k]
         /\ \A k \in 1 .. Len(b) : (a \o b)[Len(a) + k] = b[k]
<1>1. Len(a) \in Nat /\ Len(b) \in Nat /\ a \o b \in Text /\ Len(a \o b) = Len(a) + Len(b)
  BY LenProperties, ConcatProperties DEF Text
<1>2. \A k \in 1 .. Len(a) + Len(b) : (a \o b)[k] = IF k <= Len(a) THEN a[k] ELSE b[k - Len(a)]
  BY ConcatProperties DEF Text
<1>3. ASSUME NEW k \in 1 .. Len(a) PROVE (a \o b)[k] = a[k]
  BY <1>1, <1>2
<1>4. ASSUME NEW k \in 1 .. Len(b) PROVE (a \o b)[Len(a) + k] = b[k]
  <2>1. Len(a) + k \in 1 .. Len(a) + Len(b) /\ ~(Len(a) + k <= Len(a)) /\ (Len(a) + k) - Len(a) = k
    BY <1>1
  <2> QED
    BY <1>2, <2>1
<1> QED
  BY <1>1, <1>3, <1>4

LEMMA ConcatIsLast == ASSUME NEW texts PROVE Concat(texts) = ConcatUpTo(texts)[Len(texts)]
BY DEF Concat, ConcatUpTo, UpTo

LEMMA ConcatIsUpTo ==
  ASSUME NEW texts \in Seq(Text)
  PROVE  /\ Concat(texts) = ConcatUpTo(texts)[Len(texts)]
         /\ ConcatUpTo(texts)[0] = << >>
         /\ \A k \in 1 .. Len(texts) : ConcatUpTo(texts)[k] = ConcatUpTo(texts)[k - 1] \o texts[k]
         /\ \A k \in 0 .. Len(texts) : ConcatUpTo(texts)[k] \in Text
<1> DEFINE f == ConcatUpTo(texts)
           n == Len(texts)
<1>1. n \in Nat
  BY LenProperties
<1>2. UpTo(texts, n, f)
  BY <1>1, UpToExists DEF ConcatUpTo
<1>3. Concat(texts) = f[n]
  BY ConcatIsLast
<1> HIDE DEF f, n
<1>4. \A k \in 0 .. n : f[k] = IF k = 0 THEN << >> ELSE f[k - 1] \o texts[k]
  BY <1>2 DEF UpTo
<1>5. f[0] = << >> /\ \A k \in 1 .. n : f[k] = f[k - 1] \o texts[k]
  <2>1. 0 \in 0 .. n /\ \A k \in 1 .. n : k \in 0 .. n /\ k # 0
    BY <1>1
  <2> QED
    BY <1>4, <2>1
<1>6. \A k \in 0 .. n : f[k] \in Text
  <2> DEFINE G == { k \in 0 .. n : f[k] \in Text }
  <2>1. 0 \in G
    BY <1>1, <1>5, EmptyText
  <2>2. ASSUME NEW k \in 0 .. n - 1, k \in G PROVE k + 1 \in G
    <3>0. k \in 0 .. n /\ k + 1 \in 1 .. n /\ (k + 1) - 1 = k /\ k + 1 \in 0 .. n
      BY <1>1
    <3>1. texts[k + 1] \in Text
      BY <1>1, ElementOfSeq DEF n
    <3>2. f[k] \o texts[k + 1] \in Text
      BY <2>2, <3>1, LongerText
    <3>3. f[k + 1] = f[k] \o texts[k + 1]
      BY <1>5, <3>0
    <3> QED
      BY <3>0, <3>2, <3>3
  <2> HIDE DEF G
  <2>3. \A k \in 0 .. n : k \in G
    BY <1>1, <2>1, <2>2, Upwards
  <2> QED
    BY <2>3 DEF G
<1> QED
  BY <1>3, <1>5, <1>6 DEF f, n

LEMMA ConcatOneMore ==
  ASSUME NEW texts \in Seq(Text), NEW text \in Text
  PROVE  /\ Concat(<< >>) = << >>
         /\ Concat(texts) \in Text
         /\ Concat(Append(texts, text)) = Concat(texts) \o text
<1>1. Concat(<< >>) = << >>
  BY ConcatIsUpTo, EmptySeq
<1>2. Concat(texts) \in Text /\ Len(texts) \in Nat
  <2>1. Len(texts) \in Nat
    BY LenProperties
  <2>2. Len(texts) \in 0 .. Len(texts)
    BY <2>1
  <2> QED
    BY <2>1, <2>2, ConcatIsUpTo
<1>3. Concat(Append(texts, text)) = Concat(texts) \o text
  <2> DEFINE more == Append(texts, text)
             n == Len(texts)
             f == ConcatUpTo(texts)
             g == ConcatUpTo(more)
  <2>1. more \in Seq(Text) /\ Len(more) = n + 1 /\ more[n + 1] = text
    BY AppendProperties
  <2>2. \A k \in 1 .. n : more[k] = texts[k]
    BY AppendProperties
  <2> HIDE DEF more
  <2>3. g[0] = << >> /\ f[0] = << >> /\ \A k \in 1 .. n : f[k] = f[k - 1] \o texts[k]
    BY <2>1, ConcatIsUpTo
  <2>4. \A k \in 1 .. n + 1 : g[k] = g[k - 1] \o more[k]
    BY <2>1, ConcatIsUpTo
  <2>5. Concat(texts) = f[n] /\ Concat(more) = g[n + 1]
    BY <2>1, ConcatIsUpTo
  <2> DEFINE G == { k \in 0 .. n : g[k] = f[k] }
  <2>20. n \in Nat
    BY <1>2
  <2> HIDE DEF f, g, n
  <2>6. 0 \in G
    BY <2>20, <2>3
  <2>7. ASSUME NEW k \in 0 .. n - 1, k \in G PROVE k + 1 \in G
    <3>1. k + 1 \in 1 .. n /\ (k + 1) - 1 = k /\ k + 1 \in 1 .. n + 1 /\ k + 1 \in 0 .. n
      BY <2>20
    <3>2. f[k + 1] = f[k] \o texts[k + 1] /\ g[k + 1] = g[k] \o more[k + 1]
      BY <2>3, <2>4, <3>1
    <3> QED
      BY <2>2, <2>7, <3>1, <3>2
  <2> HIDE DEF G
  <2>8. n \in G
    BY <2>20, <2>6, <2>7, Upwards, SMTT(30)
  <2>9. g[n + 1] = g[n] \o more[n + 1]
    <3>1. n + 1 \in 1 .. n + 1 /\ (n + 1) - 1 = n
      BY <2>20
    <3> QED
      BY <2>4, <3>1
  <2>10. g[n] = f[n]
    BY <2>8 DEF G
  <2> QED
    BY <2>1, <2>5, <2>9, <2>10 DEF more, n
<1> QED
  BY <1>1, <1>2, <1>3

LEMMA LenText == ASSUME NEW S, NEW s \in Seq(S) PROVE Len(s) \in Nat /\ DOMAIN s = 1 .. Len(s)
BY LenProperties

LEMMA ConcatNothing == Concat(<< >>) = << >>
BY ConcatOneMore, EmptyText, EmptySeq

LEMMA ConcatIsText == ASSUME NEW texts \in Seq(Text) PROVE Concat(texts) \in Text
BY ConcatOneMore, EmptyText

LEMMA TextsAssociate ==
  ASSUME NEW a \in Text, NEW b \in Text, NEW c \in Text
  PROVE  (a \o b) \o c = a \o (b \o c)
BY ConcatAssociative DEF Text

LEMMA NothingAdded == ASSUME NEW a \in Text PROVE a \o << >> = a /\ << >> \o a = a
BY ConcatEmptySeq DEF Text

LEMMA ConcatOne ==
  ASSUME NEW text \in Text
  PROVE  Concat(<< text >>) = text
<1>1. << >> \in Seq(Text) /\ Append(<< >>, text) = << text >>
  BY EmptySeq
<1>2. Concat(<< text >>) = Concat(<< >>) \o text
  BY <1>1, ConcatOneMore
<1>3. Concat(<< >>) = << >>
  BY ConcatNothing
<1> QED
  BY <1>2, <1>3, NothingAdded

LEMMA ConcatBoth ==
  ASSUME NEW a \in Seq(Text), NEW b \in Seq(Text)
  PROVE  Concat(a \o b) = Concat(a) \o Concat(b)
<1> DEFINE G == { n \in 0 .. Len(b) : \A s \in Seq(Text) : Len(s) = n => Concat(a \o s) = Concat(a) \o Concat(s) }
<1>1. Len(b) \in Nat
  BY LenText
<1>2. 0 \in G
  <2>1. ASSUME NEW s \in Seq(Text), Len(s) = 0 PROVE Concat(a \o s) = Concat(a) \o Concat(s)
    <3>1. s = << >>
      BY <2>1, EmptySeq
    <3>2. a \o s = a
      BY <3>1, ConcatEmptySeq
    <3>3. Concat(s) = << >> /\ Concat(a) \in Text
      BY <3>1, ConcatNothing, ConcatIsText
    <3>4. Concat(a) \o << >> = Concat(a)
      BY <3>3, NothingAdded
    <3> QED
      BY <3>2, <3>3, <3>4
  <2> QED
    BY <1>1, <2>1
<1>3. ASSUME NEW n \in 0 .. Len(b) - 1, n \in G PROVE n + 1 \in G
  <2>1. ASSUME NEW s \in Seq(Text), Len(s) = n + 1 PROVE Concat(a \o s) = Concat(a) \o Concat(s)
    <3>1. s # << >>
      BY <1>1, <2>1, EmptySeq
    <3>2. PICK r \in Seq(Text), x \in Text : s = Append(r, x)
      BY <3>1, SequenceEmptyOrAppend
    <3>3. Len(r) = n
      <4>1. Len(s) = Len(r) + 1 /\ Len(r) \in Nat
        BY <3>2, AppendProperties, LenText
      <4> QED
        BY <1>1, <2>1, <4>1
    <3>4. Concat(a \o r) = Concat(a) \o Concat(r)
      BY <1>3, <3>3
    <3>5. a \o s = Append(a \o r, x) /\ a \o r \in Seq(Text)
      <4>1. s = r \o << x >> /\ << x >> \in Seq(Text) /\ a \o r \in Seq(Text)
        BY <3>2, AppendIsConcat, ConcatProperties
      <4>2. a \o (r \o << x >>) = (a \o r) \o << x >>
        BY <4>1, ConcatAssociative
      <4> QED
        BY <4>1, <4>2, AppendIsConcat
    <3>6. Concat(a \o s) = (Concat(a) \o Concat(r)) \o x
      BY <3>4, <3>5, ConcatOneMore
    <3>7. Concat(s) = Concat(r) \o x /\ Concat(r) \in Text /\ Concat(a) \in Text
      BY <3>2, ConcatOneMore
    <3> QED
      <4>1. (Concat(a) \o Concat(r)) \o x = Concat(a) \o (Concat(r) \o x)
        BY <3>2, <3>7, TextsAssociate
      <4> QED
        BY <3>6, <3>7, <4>1, Zenon
  <2>2. n + 1 \in 0 .. Len(b)
    BY <1>1
  <2> QED
    BY <2>1, <2>2
<1> HIDE DEF G
<1>4. \A n \in 0 .. Len(b) : n \in G
  BY <1>1, <1>2, <1>3, Upwards
<1>5. Len(b) \in 0 .. Len(b)
  BY <1>1
<1> QED
  BY <1>4, <1>5 DEF G

LEMMA ConcatSplit ==
  ASSUME NEW s \in Seq(Text), NEW k \in 1 .. Len(s)
  PROVE  /\ SubSeq(s, 1, k - 1) \in Seq(Text) /\ SubSeq(s, 1, k) \in Seq(Text) /\ SubSeq(s, k + 1, Len(s)) \in Seq(Text)
         /\ s[k] \in Text
         /\ Concat(SubSeq(s, 1, k)) = Concat(SubSeq(s, 1, k - 1)) \o s[k]
         /\ Concat(s) = Concat(SubSeq(s, 1, k)) \o Concat(SubSeq(s, k + 1, Len(s)))
<1>1. Len(s) \in Nat /\ k \in Int /\ k - 1 \in Int /\ k + 1 \in Int /\ 1 \in Int /\ Len(s) \in Int
  BY LenText
<1>2. \A j \in 1 .. Len(s) : s[j] \in Text
  BY ElementOfSeq
<1>3. SubSeq(s, 1, k - 1) \in Seq(Text)
  BY <1>1, <1>2, SubSeqProperties
<1>4. SubSeq(s, 1, k) \in Seq(Text)
  BY <1>1, <1>2, SubSeqProperties
<1>5. SubSeq(s, k + 1, Len(s)) \in Seq(Text)
  BY <1>1, <1>2, SubSeqProperties
<1>6. SubSeq(s, 1, k) = SubSeq(s, 1, k - 1) \o << s[k] >>
  BY <1>1, SubSeqRecursiveSecond, 1 \in 1 .. Len(s), k \in 1 .. Len(s)
<1>7. SubSeq(s, 1, k) = Append(SubSeq(s, 1, k - 1), s[k])
  BY <1>2, <1>3, <1>6, AppendIsConcat
<1>8. Concat(SubSeq(s, 1, k)) = Concat(SubSeq(s, 1, k - 1)) \o s[k]
  BY <1>2, <1>3, <1>7, ConcatOneMore
<1>9. s = SubSeq(s, 1, k) \o SubSeq(s, k + 1, Len(s))
  <2>1. 1 \in 1 .. Len(s) + 1 /\ k \in 1 - 1 .. Len(s) /\ Len(s) \in k .. Len(s)
    BY <1>1
  <2>2. SubSeq(s, 1, k) \o SubSeq(s, k + 1, Len(s)) = SubSeq(s, 1, Len(s))
    BY <2>1, ConcatAdjacentSubSeq
  <2> QED
    BY <2>2, SubSeqFull
<1>10. Concat(s) = Concat(SubSeq(s, 1, k)) \o Concat(SubSeq(s, k + 1, Len(s)))
  BY <1>4, <1>5, <1>9, ConcatBoth
<1> QED
  BY <1>2, <1>3, <1>4, <1>5, <1>8, <1>10

-----------------------------------------------------------------------------
(* Escaping a value and taking the escapes out again.                      *)
Clean(text) == \A k \in DOMAIN text : text[k] \notin Reserved \ {"%"}

Escape(c) == IF c \in Reserved THEN << "%", CodeOf[c] >> ELSE << c >>

Escapes(text) == [k \in DOMAIN text |-> Escape(text[k])]

LEMMA CodesAreCharacters ==
  /\ "%" \in STRING /\ "%" \in Reserved
  /\ \A c \in Reserved : c \in STRING /\ CodeOf[c] \in STRING /\ CodeOf[c] \in DOMAIN CharOf /\ CodeOf[c] \notin Reserved
  /\ \A c \in Reserved : CharOf[CodeOf[c]] = c
  /\ \A code \in DOMAIN CharOf : CharOf[code] \in STRING
BY CodesAssumption, TextsAssumption

LEMMA OneIsSequence == ASSUME NEW S, NEW c \in S PROVE << c >> \in Seq(S)
OBVIOUS

LEMMA EscapeIsText ==
  ASSUME NEW c \in STRING
  PROVE  Escape(c) \in Text /\ Clean(Escape(c))
<1>1. CASE c \in Reserved
  <2>1. Escape(c) = << "%", CodeOf[c] >>
    BY <1>1 DEF Escape
  <2>2. Escape(c) \in Text
    BY <1>1, <2>1, CodesAreCharacters DEF Text
  <2>3. DOMAIN Escape(c) = 1 .. 2 /\ Escape(c)[1] = "%" /\ Escape(c)[2] = CodeOf[c]
    BY <2>1
  <2> QED
    BY <1>1, <2>2, <2>3, CodesAreCharacters DEF Clean
<1>2. CASE c \notin Reserved
  <2>1. Escape(c) = << c >>
    BY <1>2 DEF Escape
  <2>2. Escape(c) \in Text
    BY <2>1, OneIsSequence DEF Text
  <2>3. DOMAIN Escape(c) = 1 .. 1 /\ Escape(c)[1] = c
    BY <2>1
  <2> QED
    BY <1>2, <2>2, <2>3 DEF Clean
<1> QED
  BY <1>1, <1>2

LEMMA EscapesAreTexts ==
  ASSUME NEW text \in Text
  PROVE  /\ Len(text) \in Nat /\ DOMAIN text = 1 .. Len(text) /\ \A k \in 1 .. Len(text) : text[k] \in STRING
         /\ Escapes(text) \in Seq(Text) /\ Len(Escapes(text)) = Len(text)
         /\ \A k \in 1 .. Len(text) : Escapes(text)[k] = Escape(text[k])
<1>1. Len(text) \in Nat /\ DOMAIN text = 1 .. Len(text) /\ \A k \in 1 .. Len(text) : text[k] \in STRING
  BY LenText, ElementOfSeq DEF Text
<1>2. \A k \in 1 .. Len(text) : Escape(text[k]) \in Text
  BY <1>1, EscapeIsText
<1> DEFINE n == Len(text)
<1>3. Escapes(text) = [k \in 1 .. n |-> Escape(text[k])]
  BY <1>1 DEF Escapes
<1> HIDE DEF n
<1>4. n \in Nat
  BY <1>1 DEF n
<1>5. Escapes(text) \in Seq(Text) /\ Len(Escapes(text)) = n
  BY <1>2, <1>3, <1>4 DEF n
<1> QED
  BY <1>1, <1>3, <1>5 DEF n

LEMMA CleanTogether ==
  ASSUME NEW a \in Text, NEW b \in Text, Clean(a), Clean(b)
  PROVE  Clean(a \o b)
<1>1. /\ a \o b \in Text /\ Len(a) \in Nat /\ Len(b) \in Nat
      /\ DOMAIN a = 1 .. Len(a) /\ DOMAIN b = 1 .. Len(b) /\ DOMAIN (a \o b) = 1 .. Len(a) + Len(b)
  BY LongerText, LenText DEF Text
<1>2. ASSUME NEW k \in 1 .. Len(a) + Len(b) PROVE (a \o b)[k] \notin Reserved \ {"%"}
  <2>1. CASE k <= Len(a)
    <3>1. k \in 1 .. Len(a)
      BY <1>1, <2>1
    <3>2. (a \o b)[k] = a[k]
      BY <3>1, LongerText
    <3> QED
      BY <1>1, <3>1, <3>2 DEF Clean
  <2>2. CASE ~(k <= Len(a))
    <3>1. k - Len(a) \in 1 .. Len(b) /\ k = Len(a) + (k - Len(a))
      BY <1>1, <2>2
    <3>2. (a \o b)[k] = b[k - Len(a)]
      BY <3>1, LongerText
    <3> QED
      BY <1>1, <3>1, <3>2 DEF Clean
  <2> QED
    BY <2>1, <2>2
<1> QED
  BY <1>1, <1>2 DEF Clean

(* What the encoder writes holds no reserved character but the sign that   *)
(* begins an escape (percentEncode).                                       *)
LEMMA EncodedIsClean ==
  ASSUME NEW text \in Text
  PROVE  PercentEncode(text) \in Text /\ Clean(PercentEncode(text))
<1> DEFINE n == Len(text)
           s == Escapes(text)
           G == { k \in 0 .. n : Clean(Concat(SubSeq(s, 1, k))) }
<1>1. n \in Nat /\ s \in Seq(Text) /\ Len(s) = n /\ \A k \in 1 .. n : s[k] = Escape(text[k]) /\ text[k] \in STRING
  BY EscapesAreTexts
<1>2. PercentEncode(text) = Concat(s)
  BY DEF PercentEncode, Escapes, Escape
<1>3. SubSeq(s, 1, n) = s
  BY <1>1, SubSeqFull
<1>4. SubSeq(s, 1, 0) = << >>
  BY SubSeqEmpty
<1> HIDE DEF s, n
<1>5. 0 \in G
  <2>1. Clean(<< >>)
    BY DEF Clean
  <2>2. Concat(SubSeq(s, 1, 0)) = << >>
    BY <1>4, ConcatNothing
  <2> QED
    BY <1>1, <2>1, <2>2
<1>6. ASSUME NEW k \in 0 .. n - 1, k \in G PROVE k + 1 \in G
  <2>1. k + 1 \in 1 .. Len(s) /\ (k + 1) - 1 = k /\ k + 1 \in 0 .. n /\ k + 1 \in 1 .. n
    BY <1>1
  <2>2. Concat(SubSeq(s, 1, k + 1)) = Concat(SubSeq(s, 1, k)) \o s[k + 1] /\ SubSeq(s, 1, k) \in Seq(Text)
    BY <1>1, <2>1, ConcatSplit
  <2>3. s[k + 1] \in Text /\ Clean(s[k + 1])
    BY <1>1, <2>1, EscapeIsText
  <2>4. Concat(SubSeq(s, 1, k)) \in Text /\ Clean(Concat(SubSeq(s, 1, k)))
    BY <1>6, <2>2, ConcatIsText
  <2> HIDE DEF G
  <2>5. Clean(Concat(SubSeq(s, 1, k + 1)))
    BY <2>2, <2>3, <2>4, CleanTogether
  <2> QED
    BY <2>1, <2>5 DEF G
<1> HIDE DEF G
<1>7. \A k \in 0 .. n : k \in G
  BY <1>1, <1>5, <1>6, Upwards
<1>8. n \in 0 .. n
  BY <1>1
<1>9. Clean(Concat(SubSeq(s, 1, n)))
  BY <1>7, <1>8 DEF G
<1> QED
  BY <1>1, <1>2, <1>3, <1>9, ConcatIsText

(* The scan of percentDecode.                                              *)
IsEscape(text, k) == text[k] = "%" /\ k < Len(text) /\ text[k + 1] \in DOMAIN CharOf

DecodeStep(text, f, k) ==
  IF k > Len(text) THEN << >>
  ELSE IF IsEscape(text, k) THEN << CharOf[text[k + 1]] >> \o f[k + 2]
  ELSE << text[k] >> \o f[k + 1]

DecodesFrom(text, n, f) ==
  /\ f = [k \in 1 .. Len(text) + 2 |-> f[k]]
  /\ \A k \in n .. Len(text) + 2 : f[k] = DecodeStep(text, f, k)

LEMMA DecodeExists ==
  ASSUME NEW text, Len(text) \in Nat
  PROVE  \E f : f = [k \in 1 .. Len(text) + 2 |-> DecodeStep(text, f, k)]
<1> DEFINE G == { n \in 1 .. Len(text) + 2 : \E f : DecodesFrom(text, n, f) }
<1>1. ASSUME NEW n \in 1 .. Len(text) + 2, \A j \in n + 1 .. Len(text) + 2 : j \in G PROVE n \in G
  <2>1. CASE n = Len(text) + 2
    <3> DEFINE f == [k \in 1 .. Len(text) + 2 |-> << >>]
    <3>1. \A k \in n .. Len(text) + 2 : f[k] = DecodeStep(text, f, k)
      BY <2>1 DEF DecodeStep
    <3>2. f = [k \in 1 .. Len(text) + 2 |-> f[k]]
      OBVIOUS
    <3> QED
      BY <3>1, <3>2 DEF DecodesFrom
  <2>2. CASE n # Len(text) + 2
    <3>1. n + 1 \in G
      BY <1>1, <2>2
    <3>2. PICK f : DecodesFrom(text, n + 1, f)
      BY <3>1
    <3> DEFINE g == [k \in 1 .. Len(text) + 2 |-> IF k = n THEN DecodeStep(text, f, k) ELSE f[k]]
    <3>3. \A k \in n + 1 .. Len(text) + 2 : g[k] = f[k]
      OBVIOUS
    <3>4. g[n] = DecodeStep(text, f, n)
      OBVIOUS
    <3>5. g = [k \in 1 .. Len(text) + 2 |-> g[k]]
      OBVIOUS
    <3> HIDE DEF g, G
    <3>6. ASSUME NEW k \in n .. Len(text) + 2 PROVE g[k] = DecodeStep(text, g, k)
      <4>1. g[k] = DecodeStep(text, f, k)
        BY <3>2, <3>3, <3>4 DEF DecodesFrom
      <4>2. CASE k > Len(text)
        BY <4>1, <4>2 DEF DecodeStep
      <4>3. CASE ~(k > Len(text))
        <5>1. g[k + 1] = f[k + 1] /\ g[k + 2] = f[k + 2]
          BY <3>3, <4>3
        <5> QED
          BY <4>1, <5>1 DEF DecodeStep
      <4> QED
        BY <4>2, <4>3
    <3>7. DecodesFrom(text, n, g)
      BY <3>5, <3>6 DEF DecodesFrom
    <3> QED
      BY <3>7 DEF G
  <2> QED
    BY <2>1, <2>2
<1>2. Len(text) + 2 \in Nat /\ 1 \in 1 .. Len(text) + 2
  OBVIOUS
<1> HIDE DEF G
<1>3. 1 \in G
  BY <1>1, <1>2, Downwards
<1>4. PICK f : DecodesFrom(text, 1, f)
  BY <1>3 DEF G
<1>5. f = [k \in 1 .. Len(text) + 2 |-> DecodeStep(text, f, k)]
  BY <1>4 DEF DecodesFrom
<1> QED
  BY <1>5

Decoding(text) == CHOOSE f : f = [k \in 1 .. Len(text) + 2 |-> DecodeStep(text, f, k)]

LEMMA DecodingIsScan ==
  ASSUME NEW text, Len(text) \in Nat
  PROVE  /\ PercentDecode(text) = Decoding(text)[1]
         /\ \A k \in 1 .. Len(text) + 2 : Decoding(text)[k] = DecodeStep(text, Decoding(text), k)
<1>1. PercentDecode(text) = Decoding(text)[1]
  BY DEF PercentDecode, Decoding, DecodeStep, IsEscape
<1>2. Decoding(text) = [k \in 1 .. Len(text) + 2 |-> DecodeStep(text, Decoding(text), k)]
  BY DecodeExists DEF Decoding
<1> DEFINE f == Decoding(text)
<1> HIDE DEF f
<1>3. f = [k \in 1 .. Len(text) + 2 |-> DecodeStep(text, f, k)]
  BY <1>2 DEF f
<1>4. \A k \in 1 .. Len(text) + 2 : f[k] = DecodeStep(text, f, k)
  BY <1>3
<1> QED
  BY <1>1, <1>4 DEF f

LEMMA InTheMiddle ==
  ASSUME NEW a \in Text, NEW e \in Text, NEW b \in Text
  PROVE  /\ (a \o e) \o b \in Text /\ Len((a \o e) \o b) = Len(a) + Len(e) + Len(b)
         /\ Len(a) \in Nat /\ Len(e) \in Nat /\ Len(b) \in Nat
         /\ \A k \in 1 .. Len(a) : ((a \o e) \o b)[k] = a[k]
         /\ \A k \in 1 .. Len(e) : ((a \o e) \o b)[Len(a) + k] = e[k]
         /\ \A k \in 1 .. Len(b) : ((a \o e) \o b)[Len(a) + Len(e) + k] = b[k]
<1>1. a \o e \in Text /\ Len(a \o e) = Len(a) + Len(e) /\ Len(a) \in Nat /\ Len(e) \in Nat /\ Len(b) \in Nat
  BY LongerText
<1>2. (a \o e) \o b \in Text /\ Len((a \o e) \o b) = Len(a) + Len(e) + Len(b)
  BY <1>1, LongerText
<1>3. ASSUME NEW k \in 1 .. Len(a) PROVE ((a \o e) \o b)[k] = a[k]
  <2>1. k \in 1 .. Len(a \o e) /\ (a \o e)[k] = a[k]
    BY <1>1, LongerText
  <2>2. ((a \o e) \o b)[k] = (a \o e)[k]
    BY <1>1, <2>1, LongerText
  <2> QED
    BY <2>1, <2>2
<1>4. ASSUME NEW k \in 1 .. Len(e) PROVE ((a \o e) \o b)[Len(a) + k] = e[k]
  <2>1. Len(a) + k \in 1 .. Len(a \o e)
    BY <1>1
  <2>3. (a \o e)[Len(a) + k] = e[k]
    BY LongerText
  <2>2. ((a \o e) \o b)[Len(a) + k] = (a \o e)[Len(a) + k]
    BY <1>1, <2>1, LongerText
  <2> QED
    BY <2>2, <2>3
<1>5. ASSUME NEW k \in 1 .. Len(b) PROVE ((a \o e) \o b)[Len(a) + Len(e) + k] = b[k]
  <2>1. ((a \o e) \o b)[Len(a \o e) + k] = b[k]
    BY <1>1, LongerText
  <2> QED
    BY <1>1, <2>1
<1> QED
  BY <1>1, <1>2, <1>3, <1>4, <1>5

(* Decoding an encoded value gives it back (percentEncode, percentDecode). *)
LEMMA DecodeEncoded ==
  ASSUME NEW v \in Text
  PROVE  PercentDecode(PercentEncode(v)) = v
<1> DEFINE s == Escapes(v)
           n == Len(v)
           w == Concat(s)
           f == Decoding(w)
           At(k) == Len(Concat(SubSeq(s, 1, k)))
           G == { m \in 1 .. n + 1 : f[At(m - 1) + 1] = SubSeq(v, m, n) }
<1>1. n \in Nat /\ s \in Seq(Text) /\ Len(s) = n /\ \A k \in 1 .. n : s[k] = Escape(v[k]) /\ v[k] \in STRING
  BY EscapesAreTexts
<1>2. PercentEncode(v) = w
  BY DEF PercentEncode, Escapes, Escape
<1>3. w \in Text
  BY <1>1, ConcatIsText
<1>4. Len(w) \in Nat
  BY <1>3, LongerText
<1>5. PercentDecode(w) = f[1] /\ \A k \in 1 .. Len(w) + 2 : f[k] = DecodeStep(w, f, k)
  BY <1>4, DecodingIsScan
<1>6. SubSeq(s, 1, n) = s /\ SubSeq(s, 1, 0) = << >> /\ SubSeq(v, 1, n) = v /\ SubSeq(v, n + 1, n) = << >>
  BY <1>1, SubSeqFull, SubSeqEmpty DEF Text
<1>7. At(0) = 0 /\ At(n) = Len(w)
  BY <1>6, ConcatNothing, EmptyText
<1>8. ASSUME NEW m \in 1 .. n
      PROVE  /\ w = (Concat(SubSeq(s, 1, m - 1)) \o s[m]) \o Concat(SubSeq(s, m + 1, n))
             /\ Concat(SubSeq(s, 1, m - 1)) \in Text /\ Concat(SubSeq(s, m + 1, n)) \in Text /\ s[m] \in Text
             /\ At(m) = At(m - 1) + Len(s[m])
  <2>1. m \in 1 .. Len(s)
    BY <1>1
  <2>2. /\ SubSeq(s, 1, m - 1) \in Seq(Text) /\ SubSeq(s, m + 1, n) \in Seq(Text) /\ s[m] \in Text
        /\ Concat(SubSeq(s, 1, m)) = Concat(SubSeq(s, 1, m - 1)) \o s[m]
        /\ w = Concat(SubSeq(s, 1, m)) \o Concat(SubSeq(s, m + 1, n))
    BY <1>1, <2>1, ConcatSplit
  <2>3. Concat(SubSeq(s, 1, m - 1)) \in Text /\ Concat(SubSeq(s, m + 1, n)) \in Text
    BY <2>2, ConcatIsText
  <2>4. Len(Concat(SubSeq(s, 1, m - 1)) \o s[m]) = Len(Concat(SubSeq(s, 1, m - 1))) + Len(s[m])
    BY <2>2, <2>3, LongerText
  <2> QED
    BY <2>2, <2>3, <2>4
<1>9. ASSUME NEW m \in 1 .. n + 1, \A j \in m + 1 .. n + 1 : j \in G PROVE m \in G
  <2>1. CASE m = n + 1
    <3>1. At(m - 1) = Len(w)
      BY <1>1, <1>7, <2>1
    <3>2. Len(w) + 1 \in 1 .. Len(w) + 2 /\ Len(w) + 1 > Len(w)
      BY <1>4
    <3>3. f[Len(w) + 1] = << >>
      BY <1>5, <3>2 DEF DecodeStep
    <3> QED
      BY <1>6, <2>1, <3>1, <3>3
  <2>2. CASE m # n + 1
    <3> DEFINE a == Concat(SubSeq(s, 1, m - 1))
               e == s[m]
               b == Concat(SubSeq(s, m + 1, n))
               p == Len(a)
    <3>0. m \in 1 .. n /\ m + 1 \in m + 1 .. n + 1 /\ (m + 1) - 1 = m
      BY <1>1, <2>2
    <3>1. m \in 1 .. n /\ m + 1 \in G /\ (m + 1) - 1 = m
      BY <1>9, <3>0, Zenon
    <3>2. w = (a \o e) \o b /\ a \in Text /\ b \in Text /\ e \in Text /\ At(m) = p + Len(e) /\ At(m - 1) = p
      BY <1>8, <3>1
    <3>3. f[At(m) + 1] = SubSeq(v, m + 1, n)
      BY <3>1
    <3>4. e = Escape(v[m]) /\ v[m] \in STRING
      BY <1>1, <3>1
    <3>5. SubSeq(v, m, n) = << v[m] >> \o SubSeq(v, m + 1, n)
      BY <1>1, <3>1, SubSeqRecursiveFirst, n \in m .. n DEF Text
    <3> HIDE DEF a, e, b, p, w, f, At, G
    <3>6. p \in Nat /\ Len(e) \in Nat /\ Len(w) = p + Len(e) + Len(b) /\ Len(b) \in Nat
      BY <3>2, InTheMiddle DEF p
    <3>7. \A k \in 1 .. Len(e) : w[p + k] = e[k]
      BY <3>2, InTheMiddle DEF p
    <3>8. f[p + 1] = << v[m] >> \o f[p + Len(e) + 1]
      <4>1. CASE v[m] \in Reserved
        <5>1. e = << "%", CodeOf[v[m]] >>
          BY <3>4, <4>1 DEF Escape
        <5>2. Len(e) = 2 /\ e[1] = "%" /\ e[2] = CodeOf[v[m]]
          BY <5>1
        <5>3. w[p + 1] = "%" /\ w[p + 2] = CodeOf[v[m]]
          BY <3>7, <5>2
        <5>4. p + 1 \in 1 .. Len(w) + 2 /\ ~(p + 1 > Len(w)) /\ p + 1 < Len(w) /\ (p + 1) + 1 = p + 2 /\ (p + 1) + 2 = p + Len(e) + 1
          BY <3>6, <5>2
        <5>5. IsEscape(w, p + 1) /\ CharOf[w[p + 2]] = v[m]
          BY <4>1, <5>3, <5>4, CodesAreCharacters DEF IsEscape
        <5>6. f[p + 1] = DecodeStep(w, f, p + 1)
          BY <1>5, <5>4
        <5>7. DecodeStep(w, f, p + 1) = << CharOf[w[(p + 1) + 1]] >> \o f[(p + 1) + 2]
          BY <5>4, <5>5 DEF DecodeStep
        <5> QED
          BY <5>4, <5>5, <5>6, <5>7
      <4>2. CASE v[m] \notin Reserved
        <5>1. e = << v[m] >>
          BY <3>4, <4>2 DEF Escape
        <5>2. Len(e) = 1 /\ e[1] = v[m]
          BY <5>1
        <5>3. w[p + 1] = v[m]
          BY <3>7, <5>2
        <5>4. p + 1 \in 1 .. Len(w) + 2 /\ ~(p + 1 > Len(w)) /\ (p + 1) + 1 = p + Len(e) + 1
          BY <3>6, <5>2
        <5>5. ~IsEscape(w, p + 1)
          BY <4>2, <5>3, CodesAreCharacters DEF IsEscape
        <5>6. f[p + 1] = DecodeStep(w, f, p + 1)
          BY <1>5, <5>4
        <5>7. DecodeStep(w, f, p + 1) = << w[p + 1] >> \o f[(p + 1) + 1]
          BY <5>4, <5>5 DEF DecodeStep
        <5> QED
          BY <5>3, <5>4, <5>6, <5>7
      <4> QED
        BY <4>1, <4>2
    <3>9. f[At(m - 1) + 1] = SubSeq(v, m, n)
      BY <3>2, <3>3, <3>5, <3>8
    <3> QED
      BY <3>9 DEF G
  <2> QED
    BY <2>1, <2>2
<1>10. n + 1 \in Nat /\ 1 \in 1 .. n + 1
  BY <1>1
<1> HIDE DEF G
<1>11. \A m \in 1 .. n + 1 : m \in G
  BY <1>9, <1>10, Downwards
<1>12. f[At(1 - 1) + 1] = SubSeq(v, 1, n)
  BY <1>10, <1>11 DEF G
<1> HIDE DEF f, w, At
<1>13. f[1] = v
  BY <1>6, <1>7, <1>12
<1> QED
  BY <1>2, <1>5, <1>13

LEMMA EncodedValues ==
  ASSUME NEW v \in Text, iri \in BOOLEAN
  PROVE  Encoded(v) \in Text /\ Decoded(Encoded(v)) = v /\ (iri => Clean(Encoded(v)))
BY DecodeEncoded, EncodedIsClean DEF Encoded, Decoded

-----------------------------------------------------------------------------
(* Where a text stands in another.                                         *)
Stands(text, part, p) == SubSeq(text, p, p + Len(part) - 1) = part

LEMMA FindRange ==
  ASSUME NEW text, NEW part, NEW k \in Nat \ {0}, Len(text) \in Nat, Len(part) \in Nat
  PROVE  \/ Find(text, part, k) = 0
         \/ /\ Find(text, part, k) \in k .. Len(text) - Len(part) + 1
            /\ Stands(text, part, Find(text, part, k))
<1> DEFINE places == { p \in k .. Len(text) - Len(part) + 1 : SubSeq(text, p, p + Len(part) - 1) = part }
<1>1. CASE places = {}
  BY <1>1 DEF Find
<1>2. CASE places # {}
  <2>1. PICK least \in places : \A q \in places : least <= q
    BY <1>2, LeastNumber, places \in SUBSET Nat
  <2>2. Find(text, part, k) = CHOOSE p \in places : \A q \in places : p <= q
    BY <1>2 DEF Find
  <2>3. (CHOOSE p \in places : \A q \in places : p <= q) \in places
    BY <2>1
  <2> QED
    BY <2>2, <2>3 DEF Stands
<1> QED
  BY <1>1, <1>2

LEMMA FindIsFirst ==
  ASSUME NEW text, NEW part, NEW k \in Nat \ {0}, Len(text) \in Nat, Len(part) \in Nat,
         NEW p \in k .. Len(text) - Len(part) + 1, Stands(text, part, p),
         \A q \in k .. p - 1 : ~Stands(text, part, q)
  PROVE  Find(text, part, k) = p
<1> DEFINE places == { q \in k .. Len(text) - Len(part) + 1 : SubSeq(text, q, q + Len(part) - 1) = part }
<1>1. p \in places /\ places \in SUBSET Nat
  BY DEF Stands
<1>2. \A q \in places : p <= q
  BY DEF Stands
<1>3. Find(text, part, k) = CHOOSE r \in places : \A q \in places : r <= q
  BY <1>1 DEF Find
<1>4. \A r \in places : (\A q \in places : r <= q) => r = p
  <2> SUFFICES ASSUME NEW r \in places, \A q \in places : r <= q PROVE r = p
    OBVIOUS
  <2>1. r <= p /\ p <= r /\ r \in Nat /\ p \in Nat
    BY <1>1, <1>2
  <2> QED
    BY <2>1
<1> HIDE DEF places
<1> QED
  BY <1>1, <1>2, <1>3, <1>4

LEMMA StandsAt ==
  ASSUME NEW w \in Text, NEW part \in Text, NEW p \in 1 .. Len(w) - Len(part) + 1
  PROVE  Stands(w, part, p) <=> \A k \in 1 .. Len(part) : w[p + k - 1] = part[k]
<1> DEFINE n == Len(part)
           u == SubSeq(w, p, p + n - 1)
<1>1. n \in Nat /\ Len(w) \in Nat /\ p \in Nat
  BY LenText DEF Text
<1>2. \A j \in p .. p + n - 1 : w[j] \in STRING
  <2>1. \A j \in p .. p + n - 1 : j \in 1 .. Len(w)
    BY <1>1
  <2> QED
    BY <2>1, ElementOfSeq DEF Text
<1>3. u \in Text /\ Len(u) = (IF p <= p + n - 1 THEN (p + n - 1) - p + 1 ELSE 0)
      /\ \A j \in 1 .. (p + n - 1) - p + 1 : u[j] = w[p + j - 1]
  BY <1>1, <1>2, SubSeqProperties, p \in Int, p + n - 1 \in Int DEF Text
<1>4. Len(u) = n /\ \A j \in 1 .. n : u[j] = w[p + j - 1]
  BY <1>1, <1>3
<1>5. ASSUME u = part PROVE \A k \in 1 .. n : w[p + k - 1] = part[k]
  BY <1>4, <1>5
<1>6. ASSUME \A k \in 1 .. n : w[p + k - 1] = part[k] PROVE u = part
  <2>1. \A k \in 1 .. Len(u) : u[k] = part[k]
    BY <1>4, <1>6
  <2> HIDE DEF u
  <2> QED
    BY <1>3, <1>4, <2>1, SeqEqual DEF Text
<1> QED
  BY <1>5, <1>6 DEF Stands

Marked(text) == \E k \in DOMAIN text : text[k] \in Reserved \ {"%"}

(* The value before a delimiter with a reserved character ends at the      *)
(* first place where that delimiter stands.                                *)
LEMMA FirstPlace ==
  ASSUME NEW a \in Text, NEW e \in Text, NEW d \in Text, NEW b \in Text,
         Clean(e), Marked(d)
  PROVE  Find(((a \o e) \o d) \o b, d, Len(a) + 1) = Len(a) + Len(e) + 1
<1> DEFINE c == a \o e
           w == (c \o d) \o b
           n == Len(d)
           p == Len(a) + Len(e) + 1
<1>1. /\ c \in Text /\ Len(c) = Len(a) + Len(e) /\ Len(a) \in Nat /\ Len(e) \in Nat
      /\ \A k \in 1 .. Len(e) : c[Len(a) + k] = e[k]
  BY LongerText
<1> HIDE DEF c
<1>2. /\ w \in Text /\ Len(w) = Len(c) + n + Len(b) /\ n \in Nat /\ Len(b) \in Nat
      /\ \A k \in 1 .. Len(c) : w[k] = c[k]
      /\ \A k \in 1 .. n : w[Len(c) + k] = d[k]
  <2>1. w = (c \o d) \o b
    OBVIOUS
  <2> HIDE DEF w
  <2>2. /\ (c \o d) \o b \in Text /\ Len((c \o d) \o b) = Len(c) + Len(d) + Len(b)
        /\ Len(d) \in Nat /\ Len(b) \in Nat
        /\ \A k \in 1 .. Len(c) : ((c \o d) \o b)[k] = c[k]
    <3>1. c \in Text
      BY <1>1
    <3> QED
      BY <3>1, InTheMiddle, ZenonT(60)
  <2>3. /\ w \in Text /\ Len(w) = Len(c) + Len(d) + Len(b)
        /\ \A k \in 1 .. Len(c) : w[k] = c[k]
    BY <2>1, <2>2
  <2>4. ASSUME NEW k \in 1 .. Len(d) PROVE w[Len(c) + k] = d[k]
    <3>1. c \o d \in Text /\ Len(c \o d) = Len(c) + Len(d) /\ Len(c) \in Nat /\ Len(d) \in Nat
      BY <1>1, LongerText
    <3>2. \A j \in 1 .. Len(d) : (c \o d)[Len(c) + j] = d[j]
      BY <1>1, LongerText, ZenonT(60)
    <3>3. Len(c) + k \in 1 .. Len(c \o d)
      BY <3>1
    <3>4. w[Len(c) + k] = (c \o d)[Len(c) + k]
      BY <2>1, <3>1, <3>3, LongerText
    <3> QED
      BY <3>2, <3>4
  <2> QED
    BY <2>2, <2>3, <2>4
<1>3. DOMAIN d = 1 .. n /\ DOMAIN e = 1 .. Len(e)
  BY LenText DEF Text
<1> HIDE DEF w, n
<1>4. \A k \in 1 .. n : w[p + k - 1] = d[k]
  <2>1. \A k \in 1 .. n : p + k - 1 = Len(c) + k
    BY <1>1, <1>2
  <2> QED
    BY <1>2, <2>1
<1>5. p \in Len(a) + 1 .. Len(w) - n + 1 /\ p \in 1 .. Len(w) - n + 1
  BY <1>1, <1>2
<1>6. \A k \in 1 .. Len(e) : w[Len(a) + k] = e[k]
  <2>1. \A k \in 1 .. Len(e) : Len(a) + k \in 1 .. Len(c)
    BY <1>1
  <2> QED
    BY <1>1, <1>2, <2>1
<1> DEFINE R == { k \in 1 .. n : d[k] \in Reserved \ {"%"} }
<1>7. PICK r \in R : \A k \in R : r <= k
  BY <1>3, LeastNumber, R \in SUBSET Nat DEF Marked
<1>8. ASSUME NEW q \in Len(a) + 1 .. p - 1, Stands(w, d, q) PROVE FALSE
  <2>1. q \in 1 .. Len(w) - n + 1
    BY <1>1, <1>2
  <2>2. w[q + r - 1] = d[r]
    BY <1>2, <1>8, <2>1, StandsAt DEF n
  <2>3. CASE q + r - 1 < p
    <3>1. (q + r - 1) - Len(a) \in 1 .. Len(e) /\ q + r - 1 = Len(a) + ((q + r - 1) - Len(a))
      BY <1>1, <1>2, <2>3
    <3>2. e[(q + r - 1) - Len(a)] = d[r]
      BY <1>6, <2>2, <3>1
    <3> QED
      BY <1>3, <1>7, <3>1, <3>2 DEF Clean
  <2>4. CASE ~(q + r - 1 < p)
    <3> DEFINE k == (q + r - 1) - p + 1
    <3>1. k \in 1 .. n /\ k < r /\ p + k - 1 = q + r - 1
      BY <1>1, <1>2, <2>4
    <3>2. d[k] = d[r]
      BY <1>4, <2>2, <3>1
    <3>3. k \in R
      BY <1>7, <3>1, <3>2
    <3> QED
      BY <1>7, <3>1, <3>3
  <2> QED
    BY <2>3, <2>4
<1>9. Stands(w, d, p)
  BY <1>2, <1>4, <1>5, StandsAt DEF n
<1>10. Len(a) + 1 \in Nat \ {0} /\ Len(w) \in Nat /\ n \in Nat
  BY <1>1, <1>2
<1>11. \A q \in Len(a) + 1 .. p - 1 : ~Stands(w, d, q)
  BY <1>8
<1> HIDE DEF p, R
<1>12. Find(w, d, Len(a) + 1) = p
  <2>1. Len(d) \in Nat /\ p \in Len(a) + 1 .. Len(w) - Len(d) + 1
    BY <1>5, <1>10 DEF n
  <2> QED
    BY <1>9, <1>10, <1>11, <2>1, FindIsFirst
<1> QED
  BY <1>12 DEF w, c, p

-----------------------------------------------------------------------------
(* The two scans of a template.                                            *)
LEMMA ClosingRange ==
  ASSUME NEW t, Len(t) \in Nat, NEW k \in 1 .. Len(t)
  PROVE  Closing(t, k) = 0 \/ Closing(t, k) \in k + 1 .. Len(t)
<1>1. Len(<< "}" >>) = 1 /\ k + 1 \in Nat \ {0}
  OBVIOUS
<1>2. Find(t, << "}" >>, k + 1) = 0 \/ Find(t, << "}" >>, k + 1) \in k + 1 .. Len(t) - Len(<< "}" >>) + 1
  BY <1>1, FindRange
<1>3. Closing(t, k) = Find(t, << "}" >>, k + 1)
  BY DEF Closing
<1>4. Closing(t, k) = 0 \/ Closing(t, k) \in k + 1 .. Len(t) - Len(<< "}" >>) + 1
  BY <1>2, <1>3
<1>5. Len(t) - Len(<< "}" >>) + 1 = Len(t)
  BY <1>1
<1> QED
  BY <1>4, <1>5, Zenon

Value(row, c) == IF row[c] = NULL THEN NULL ELSE Encoded(row[c])

ExpandStep(t, row, f, k) ==
  IF k > Len(t) THEN << << >> >>
  ELSE IF t[k] # "{" THEN << << t[k] >> >> \o f[k + 1]
  ELSE IF Closing(t, k) = 0 THEN << << >> >>
  ELSE << Value(row, t[k + 1]) >> \o f[Closing(t, k) + 1]

ExpandsFrom(t, row, n, f) ==
  /\ f = [k \in 1 .. Len(t) + 1 |-> f[k]]
  /\ \A k \in n .. Len(t) + 1 : f[k] = ExpandStep(t, row, f, k)

LEMMA ExpandsExists ==
  ASSUME NEW t, NEW row, Len(t) \in Nat
  PROVE  \E f : f = [k \in 1 .. Len(t) + 1 |-> ExpandStep(t, row, f, k)]
<1> DEFINE N == Len(t) + 1
           G == { n \in 1 .. N : \E f : ExpandsFrom(t, row, n, f) }
<1>1. ASSUME NEW n \in 1 .. N, \A j \in n + 1 .. N : j \in G PROVE n \in G
  <2>1. PICK f : f = [k \in 1 .. N |-> f[k]] /\ \A k \in n + 1 .. N : f[k] = ExpandStep(t, row, f, k)
    <3>1. CASE n = N
      <4> DEFINE f == [k \in 1 .. N |-> << >>]
      <4>1. f = [k \in 1 .. N |-> f[k]] /\ \A k \in n + 1 .. N : f[k] = ExpandStep(t, row, f, k)
        BY <3>1
      <4> QED
        BY <4>1
    <3>2. CASE n # N
      <4>1. n + 1 \in n + 1 .. N
        BY <3>2
      <4>2. n + 1 \in G
        BY <1>1, <4>1
      <4>3. PICK f : ExpandsFrom(t, row, n + 1, f)
        BY <4>2
      <4> QED
        BY <4>3 DEF ExpandsFrom
    <3> QED
      BY <3>1, <3>2
  <2> DEFINE g == [k \in 1 .. N |-> IF k = n THEN ExpandStep(t, row, f, k) ELSE f[k]]
  <2>2. \A k \in n + 1 .. N : g[k] = f[k]
    OBVIOUS
  <2>3. g[n] = ExpandStep(t, row, f, n)
    OBVIOUS
  <2>4. g = [k \in 1 .. N |-> g[k]]
    OBVIOUS
  <2> HIDE DEF g, G
  <2>5. ASSUME NEW k \in n .. N PROVE g[k] = ExpandStep(t, row, g, k)
    <3>1. g[k] = ExpandStep(t, row, f, k)
      BY <2>1, <2>2, <2>3
    <3>2. ExpandStep(t, row, f, k) = ExpandStep(t, row, g, k)
      <4>1. CASE k > Len(t)
        BY <4>1 DEF ExpandStep
      <4>2. CASE ~(k > Len(t))
        <5>1. k \in 1 .. Len(t) /\ k + 1 \in n + 1 .. N
          BY <4>2
        <5>2. Closing(t, k) = 0 \/ Closing(t, k) + 1 \in n + 1 .. N
          BY <5>1, ClosingRange
        <5> QED
          BY <2>2, <5>1, <5>2 DEF ExpandStep
      <4> QED
        BY <4>1, <4>2
    <3> QED
      BY <3>1, <3>2
  <2>6. ExpandsFrom(t, row, n, g)
    BY <2>4, <2>5 DEF ExpandsFrom
  <2> QED
    BY <2>6 DEF G
<1>2. N \in Nat /\ 1 \in 1 .. N
  OBVIOUS
<1> HIDE DEF G
<1>3. 1 \in G
  BY <1>1, <1>2, Downwards
<1>4. PICK f : ExpandsFrom(t, row, 1, f)
  BY <1>3 DEF G
<1>5. f = [k \in 1 .. Len(t) + 1 |-> ExpandStep(t, row, f, k)]
  BY <1>4 DEF ExpandsFrom
<1> QED
  BY <1>5

Parts(t, row) == CHOOSE f : f = [k \in 1 .. Len(t) + 1 |-> ExpandStep(t, row, f, k)]

Missing(parts) == \E k \in DOMAIN parts : parts[k] = NULL

LEMMA ExpandIsScan ==
  ASSUME NEW t, NEW row, Len(t) \in Nat
  PROVE  /\ Expand(t, row) = IF Missing(Parts(t, row)[1]) THEN NULL ELSE Concat(Parts(t, row)[1])
         /\ \A k \in 1 .. Len(t) + 1 : Parts(t, row)[k] = ExpandStep(t, row, Parts(t, row), k)
<1>1. Expand(t, row) = IF Missing(Parts(t, row)[1]) THEN NULL ELSE Concat(Parts(t, row)[1])
  BY DEF Expand, Parts, ExpandStep, Missing, Value
<1>2. Parts(t, row) = [k \in 1 .. Len(t) + 1 |-> ExpandStep(t, row, Parts(t, row), k)]
  BY ExpandsExists DEF Parts
<1> DEFINE f == Parts(t, row)
<1> HIDE DEF f
<1>3. f = [k \in 1 .. Len(t) + 1 |-> ExpandStep(t, row, f, k)]
  BY <1>2 DEF f
<1>4. \A k \in 1 .. Len(t) + 1 : f[k] = ExpandStep(t, row, f, k)
  BY <1>3
<1> QED
  BY <1>1, <1>4 DEF f

ParseStep(t, f, k) == [text \in Seq(STRING) |->
  IF k > Len(t) THEN Flushed(text)
  ELSE IF t[k] # "{" THEN f[k + 1][Append(text, t[k])]
  ELSE IF Closing(t, k) = 0 THEN Flushed(text)
  ELSE Flushed(text) \o << Placeholder(t[k + 1]) >> \o f[Closing(t, k) + 1][<< >>]]

ParsesFrom(t, n, f) ==
  /\ f = [k \in 1 .. Len(t) + 1 |-> f[k]]
  /\ \A k \in n .. Len(t) + 1 : f[k] = ParseStep(t, f, k)

LEMMA ParsesExists ==
  ASSUME NEW t, Len(t) \in Nat
  PROVE  \E f : f = [k \in 1 .. Len(t) + 1 |-> ParseStep(t, f, k)]
<1> DEFINE N == Len(t) + 1
           G == { n \in 1 .. N : \E f : ParsesFrom(t, n, f) }
<1>1. ASSUME NEW n \in 1 .. N, \A j \in n + 1 .. N : j \in G PROVE n \in G
  <2>1. PICK f : f = [k \in 1 .. N |-> f[k]] /\ \A k \in n + 1 .. N : f[k] = ParseStep(t, f, k)
    <3>1. CASE n = N
      <4> DEFINE f == [k \in 1 .. N |-> << >>]
      <4>1. f = [k \in 1 .. N |-> f[k]] /\ \A k \in n + 1 .. N : f[k] = ParseStep(t, f, k)
        BY <3>1
      <4> QED
        BY <4>1
    <3>2. CASE n # N
      <4>1. n + 1 \in n + 1 .. N
        BY <3>2
      <4>2. n + 1 \in G
        BY <1>1, <4>1
      <4>3. PICK f : ParsesFrom(t, n + 1, f)
        BY <4>2
      <4> QED
        BY <4>3 DEF ParsesFrom
    <3> QED
      BY <3>1, <3>2
  <2> DEFINE g == [k \in 1 .. N |-> IF k = n THEN ParseStep(t, f, k) ELSE f[k]]
  <2>2. \A k \in n + 1 .. N : g[k] = f[k]
    OBVIOUS
  <2>3. g[n] = ParseStep(t, f, n)
    OBVIOUS
  <2>4. g = [k \in 1 .. N |-> g[k]]
    OBVIOUS
  <2> HIDE DEF g, G
  <2>5. ASSUME NEW k \in n .. N PROVE g[k] = ParseStep(t, g, k)
    <3>1. g[k] = ParseStep(t, f, k)
      BY <2>1, <2>2, <2>3
    <3>2. ParseStep(t, f, k) = ParseStep(t, g, k)
      <4>1. CASE k > Len(t)
        BY <4>1 DEF ParseStep
      <4>2. CASE ~(k > Len(t))
        <5>1. k \in 1 .. Len(t) /\ k + 1 \in n + 1 .. N
          BY <4>2
        <5>2. Closing(t, k) = 0 \/ Closing(t, k) + 1 \in n + 1 .. N
          BY <5>1, ClosingRange
        <5> QED
          BY <2>2, <5>1, <5>2 DEF ParseStep
      <4> QED
        BY <4>1, <4>2
    <3> QED
      BY <3>1, <3>2
  <2>6. ParsesFrom(t, n, g)
    BY <2>4, <2>5 DEF ParsesFrom
  <2> QED
    BY <2>6 DEF G
<1>2. N \in Nat /\ 1 \in 1 .. N
  OBVIOUS
<1> HIDE DEF G
<1>3. 1 \in G
  BY <1>1, <1>2, Downwards
<1>4. PICK f : ParsesFrom(t, 1, f)
  BY <1>3 DEF G
<1>5. f = [k \in 1 .. Len(t) + 1 |-> ParseStep(t, f, k)]
  BY <1>4 DEF ParsesFrom
<1> QED
  BY <1>5

Segments(t) == CHOOSE f : f = [k \in 1 .. Len(t) + 1 |-> ParseStep(t, f, k)]

LEMMA ParseIsScan ==
  ASSUME NEW t, Len(t) \in Nat
  PROVE  /\ ParseTemplate(t) = Segments(t)[1][<< >>]
         /\ \A k \in 1 .. Len(t) + 1 : Segments(t)[k] = ParseStep(t, Segments(t), k)
<1>1. ParseTemplate(t) = Segments(t)[1][<< >>]
  BY DEF ParseTemplate, Segments, ParseStep
<1>2. Segments(t) = [k \in 1 .. Len(t) + 1 |-> ParseStep(t, Segments(t), k)]
  BY ParsesExists DEF Segments
<1> DEFINE f == Segments(t)
<1> HIDE DEF f
<1>3. f = [k \in 1 .. Len(t) + 1 |-> ParseStep(t, f, k)]
  BY <1>2 DEF f
<1>4. \A k \in 1 .. Len(t) + 1 : f[k] = ParseStep(t, f, k)
  BY <1>3
<1> QED
  BY <1>1, <1>4 DEF f

(* What each scan does at a place: at the end, at a character, at a brace  *)
(* that is not closed, and at a column name.                               *)
Ends(t, k) == k > Len(t) \/ (t[k] = "{" /\ Closing(t, k) = 0)

Reads(t, k) == ~(k > Len(t)) /\ t[k] # "{"

Names(t, k) == ~(k > Len(t)) /\ t[k] = "{" /\ Closing(t, k) # 0

LEMMA ParseCases ==
  ASSUME NEW t \in Text, NEW k \in 1 .. Len(t) + 1, NEW text \in Text
  PROVE  /\ Ends(t, k) => Segments(t)[k][text] = Flushed(text)
         /\ Reads(t, k) => Segments(t)[k][text] = Segments(t)[k + 1][Append(text, t[k])]
         /\ Names(t, k) => Segments(t)[k][text]
              = (Flushed(text) \o << Placeholder(t[k + 1]) >>) \o Segments(t)[Closing(t, k) + 1][<< >>]
<1>1. Len(t) \in Nat
  BY LenText DEF Text
<1> DEFINE f == Segments(t)
<1>2. f[k] = ParseStep(t, f, k)
  BY <1>1, ParseIsScan
<1> HIDE DEF f
<1>3. ParseStep(t, f, k)[text] =
        IF k > Len(t) THEN Flushed(text)
        ELSE IF t[k] # "{" THEN f[k + 1][Append(text, t[k])]
        ELSE IF Closing(t, k) = 0 THEN Flushed(text)
        ELSE Flushed(text) \o << Placeholder(t[k + 1]) >> \o f[Closing(t, k) + 1][<< >>]
  BY DEF ParseStep, Text
<1>4. f[k][text] = ParseStep(t, f, k)[text]
  BY <1>2
<1>5. Ends(t, k) => f[k][text] = Flushed(text)
  BY <1>3, <1>4 DEF Ends
<1>6. Reads(t, k) => f[k][text] = f[k + 1][Append(text, t[k])]
  BY <1>3, <1>4 DEF Reads
<1>7. Names(t, k) => f[k][text] = (Flushed(text) \o << Placeholder(t[k + 1]) >>) \o f[Closing(t, k) + 1][<< >>]
  BY <1>3, <1>4 DEF Names
<1> QED
  BY <1>5, <1>6, <1>7 DEF f

LEMMA ExpandCases ==
  ASSUME NEW t \in Text, NEW row, NEW k \in 1 .. Len(t) + 1
  PROVE  /\ Ends(t, k) => Parts(t, row)[k] = << << >> >>
         /\ Reads(t, k) => Parts(t, row)[k] = << << t[k] >> >> \o Parts(t, row)[k + 1]
         /\ Names(t, k) => Parts(t, row)[k] = << Value(row, t[k + 1]) >> \o Parts(t, row)[Closing(t, k) + 1]
<1>1. Len(t) \in Nat
  BY LenText DEF Text
<1> DEFINE f == Parts(t, row)
<1>2. f[k] = ExpandStep(t, row, f, k)
  BY <1>1, ExpandIsScan
<1> HIDE DEF f
<1>3. Ends(t, k) => f[k] = << << >> >>
  BY <1>2 DEF ExpandStep, Ends
<1>4. Reads(t, k) => f[k] = << << t[k] >> >> \o f[k + 1]
  BY <1>2 DEF ExpandStep, Reads
<1>5. Names(t, k) => f[k] = << Value(row, t[k + 1]) >> \o f[Closing(t, k) + 1]
  BY <1>2 DEF ExpandStep, Names
<1> QED
  BY <1>3, <1>4, <1>5 DEF f

LEMMA OneCase ==
  ASSUME NEW t \in Text, NEW k \in 1 .. Len(t) + 1
  PROVE  /\ Ends(t, k) \/ Reads(t, k) \/ Names(t, k)
         /\ Reads(t, k) => k + 1 \in k + 1 .. Len(t) + 1 /\ t[k] \in STRING
         /\ Names(t, k) => Closing(t, k) + 1 \in k + 1 .. Len(t) + 1 /\ t[k + 1] \in STRING
<1>1. Len(t) \in Nat /\ \A j \in 1 .. Len(t) : t[j] \in STRING
  BY LenText, ElementOfSeq DEF Text
<1>2. Ends(t, k) \/ Reads(t, k) \/ Names(t, k)
  BY DEF Ends, Reads, Names
<1>3. ASSUME Reads(t, k) PROVE k + 1 \in k + 1 .. Len(t) + 1 /\ t[k] \in STRING
  <2>1. ~(k > Len(t))
    BY <1>3, Zenon DEF Reads
  <2>2. k \in 1 .. Len(t)
    BY <1>1, <2>1
  <2> QED
    BY <1>1, <2>2
<1>4. ASSUME Names(t, k) PROVE Closing(t, k) + 1 \in k + 1 .. Len(t) + 1 /\ t[k + 1] \in STRING
  <2>3. ~(k > Len(t)) /\ Closing(t, k) # 0
    BY <1>4, Zenon DEF Names
  <2>1. k \in 1 .. Len(t) /\ Closing(t, k) # 0
    BY <1>1, <2>3
  <2>2. Closing(t, k) \in k + 1 .. Len(t)
    BY <1>1, <2>1, ClosingRange
  <2> QED
    BY <1>1, <2>1, <2>2
<1> QED
  BY <1>2, <1>3, <1>4

-----------------------------------------------------------------------------
(* The segments of a template and what fills them.                         *)
Segment == [placeholder : {TRUE}, text : STRING] \cup [placeholder : {FALSE}, text : Text]

LEMMA SegmentsAreTyped ==
  /\ \A text \in Text : Flushed(text) \in Seq(Segment)
  /\ \A c \in STRING : << Placeholder(c) >> \in Seq(Segment)
<1>1. ASSUME NEW text \in Text PROVE Flushed(text) \in Seq(Segment)
  <2>1. Literal(text) \in Segment
    BY DEF Literal, Segment
  <2> QED
    BY <2>1, OneIsSequence, EmptySeq DEF Flushed
<1>2. ASSUME NEW c \in STRING PROVE << Placeholder(c) >> \in Seq(Segment)
  <2>1. Placeholder(c) \in Segment
    BY DEF Placeholder, Segment
  <2> QED
    BY <2>1, OneIsSequence
<1> QED
  BY <1>1, <1>2

LEMMA ColumnsOfBoth ==
  ASSUME NEW a \in Seq(Segment), NEW b \in Seq(Segment)
  PROVE  ReferencedColumns(a \o b) = ReferencedColumns(a) \cup ReferencedColumns(b)
<1>1. /\ Len(a) \in Nat /\ Len(b) \in Nat /\ DOMAIN a = 1 .. Len(a) /\ DOMAIN b = 1 .. Len(b)
      /\ DOMAIN (a \o b) = 1 .. Len(a) + Len(b)
  BY LenText, ConcatProperties
<1>2. \A k \in 1 .. Len(a) + Len(b) : (a \o b)[k] = IF k <= Len(a) THEN a[k] ELSE b[k - Len(a)]
  BY ConcatProperties
<1>3. ASSUME NEW c \in ReferencedColumns(a \o b) PROVE c \in ReferencedColumns(a) \cup ReferencedColumns(b)
  <2>1. PICK k \in 1 .. Len(a) + Len(b) : (a \o b)[k].placeholder /\ c = (a \o b)[k].text
    BY <1>1 DEF ReferencedColumns
  <2>2. CASE k <= Len(a)
    <3>1. k \in DOMAIN a /\ a[k].placeholder /\ c = a[k].text
      BY <1>1, <1>2, <2>1, <2>2
    <3> QED
      BY <3>1 DEF ReferencedColumns
  <2>3. CASE ~(k <= Len(a))
    <3>1. k - Len(a) \in DOMAIN b /\ b[k - Len(a)].placeholder /\ c = b[k - Len(a)].text
      BY <1>1, <1>2, <2>1, <2>3
    <3> QED
      BY <3>1 DEF ReferencedColumns
  <2> QED
    BY <2>2, <2>3
<1>4. ASSUME NEW c \in ReferencedColumns(a) PROVE c \in ReferencedColumns(a \o b)
  <2>1. PICK k \in 1 .. Len(a) : a[k].placeholder /\ c = a[k].text
    BY <1>1 DEF ReferencedColumns
  <2>2. k \in DOMAIN (a \o b) /\ (a \o b)[k] = a[k]
    BY <1>1, <1>2
  <2> QED
    BY <2>1, <2>2 DEF ReferencedColumns
<1>5. ASSUME NEW c \in ReferencedColumns(b) PROVE c \in ReferencedColumns(a \o b)
  <2>1. PICK k \in 1 .. Len(b) : b[k].placeholder /\ c = b[k].text
    BY <1>1 DEF ReferencedColumns
  <2>2. Len(a) + k \in DOMAIN (a \o b) /\ (a \o b)[Len(a) + k] = b[k]
    <3>1. Len(a) + k \in 1 .. Len(a) + Len(b) /\ ~(Len(a) + k <= Len(a)) /\ (Len(a) + k) - Len(a) = k
      BY <1>1
    <3> QED
      BY <1>1, <1>2, <3>1
  <2> QED
    BY <2>1, <2>2 DEF ReferencedColumns
<1> QED
  BY <1>3, <1>4, <1>5

LEMMA ColumnsOfOne ==
  /\ \A text : ReferencedColumns(Flushed(text)) = {}
  /\ \A c : ReferencedColumns(<< Placeholder(c) >>) = {c}
<1>1. ASSUME NEW text PROVE ReferencedColumns(Flushed(text)) = {}
  BY DEF ReferencedColumns, Flushed, Literal
<1>2. ASSUME NEW c PROVE ReferencedColumns(<< Placeholder(c) >>) = {c}
  <2>1. DOMAIN << Placeholder(c) >> = {1} /\ << Placeholder(c) >>[1] = Placeholder(c)
    OBVIOUS
  <2>2. Placeholder(c).placeholder /\ Placeholder(c).text = c
    BY DEF Placeholder
  <2> QED
    BY <2>1, <2>2 DEF ReferencedColumns
<1> QED
  BY <1>1, <1>2

Fits(segs, row) == ReferencedColumns(segs) \subseteq Columns /\ \A c \in ReferencedColumns(segs) : row[c] # NULL

LEMMA ValuesAreTexts ==
  ASSUME NEW row \in Rows, NEW c \in Columns
  PROVE  /\ NULL \notin Text
         /\ row[c] = NULL \/ row[c] \in Text
BY TextsAssumption DEF Rows, Text

LEMMA FilledIsTexts ==
  ASSUME NEW segs \in Seq(Segment), NEW row \in Rows, Fits(segs, row), iri \in BOOLEAN
  PROVE  /\ Filled(segs, row) \in Seq(Text) /\ Len(Filled(segs, row)) = Len(segs) /\ Len(segs) \in Nat
         /\ \A k \in 1 .. Len(segs) :
              /\ segs[k].placeholder => /\ segs[k].text \in ReferencedColumns(segs)
                                        /\ row[segs[k].text] \in Text
                                        /\ Filled(segs, row)[k] = Encoded(row[segs[k].text])
              /\ ~segs[k].placeholder => segs[k].text \in Text /\ Filled(segs, row)[k] = segs[k].text
<1> DEFINE n == Len(segs)
           Fill(k) == IF segs[k].placeholder THEN Encoded(row[segs[k].text]) ELSE segs[k].text
<1>1. n \in Nat /\ DOMAIN segs = 1 .. n /\ \A k \in 1 .. n : segs[k] \in Segment
  BY LenText, ElementOfSeq
<1>2. ASSUME NEW k \in 1 .. n, segs[k].placeholder
      PROVE  segs[k].text \in ReferencedColumns(segs) /\ row[segs[k].text] \in Text
  <2>1. segs[k].text \in ReferencedColumns(segs)
    BY <1>1, <1>2 DEF ReferencedColumns
  <2>2. segs[k].text \in Columns /\ row[segs[k].text] # NULL
    BY <2>1 DEF Fits
  <2> QED
    BY <2>1, <2>2, ValuesAreTexts
<1>3. ASSUME NEW k \in 1 .. n, ~segs[k].placeholder PROVE segs[k].text \in Text
  BY <1>1, <1>3 DEF Segment
<1>4. \A k \in 1 .. n : Fill(k) \in Text
  BY <1>2, <1>3, EncodedValues
<1>5. Filled(segs, row) = [k \in 1 .. n |-> Fill(k)]
  BY <1>1 DEF Filled
<1> HIDE DEF n
<1>6. \A k \in 1 .. n : Filled(segs, row)[k] = Fill(k)
  BY <1>5
<1> HIDE DEF Fill
<1>7. Filled(segs, row) \in Seq(Text) /\ Len(Filled(segs, row)) = n
  BY <1>1, <1>4, <1>5
<1> QED
  BY <1>1, <1>2, <1>3, <1>6, <1>7 DEF n, Fill

LEMMA FilledBoth ==
  ASSUME NEW a \in Seq(Segment), NEW b \in Seq(Segment), NEW row \in Rows,
         Fits(a, row), Fits(b, row), iri \in BOOLEAN
  PROVE  Filled(a \o b, row) = Filled(a, row) \o Filled(b, row)
<1>1. a \o b \in Seq(Segment) /\ Len(a \o b) = Len(a) + Len(b) /\ Len(a) \in Nat /\ Len(b) \in Nat
      /\ \A k \in 1 .. Len(a) + Len(b) : (a \o b)[k] = IF k <= Len(a) THEN a[k] ELSE b[k - Len(a)]
  BY ConcatProperties, LenText
<1>2. Fits(a \o b, row)
  BY ColumnsOfBoth DEF Fits
<1> DEFINE f == Filled(a, row)
           g == Filled(b, row)
           h == Filled(a \o b, row)
<1>3. f \in Seq(Text) /\ g \in Seq(Text) /\ h \in Seq(Text)
      /\ Len(f) = Len(a) /\ Len(g) = Len(b) /\ Len(h) = Len(a) + Len(b)
  BY <1>1, <1>2, FilledIsTexts
<1>4. DOMAIN a = 1 .. Len(a) /\ DOMAIN b = 1 .. Len(b) /\ DOMAIN (a \o b) = 1 .. Len(a) + Len(b)
  BY <1>1, LenText
<1>5. f \o g \in Seq(Text) /\ Len(f \o g) = Len(a) + Len(b)
      /\ \A k \in 1 .. Len(a) + Len(b) : (f \o g)[k] = IF k <= Len(a) THEN f[k] ELSE g[k - Len(a)]
  BY <1>3, ConcatProperties
<1>6. ASSUME NEW k \in 1 .. Len(a) + Len(b) PROVE h[k] = (f \o g)[k]
  <2>1. h[k] = IF (a \o b)[k].placeholder THEN Encoded(row[(a \o b)[k].text]) ELSE (a \o b)[k].text
    BY <1>4 DEF Filled
  <2>2. CASE k <= Len(a)
    <3>1. (a \o b)[k] = a[k] /\ k \in DOMAIN a
      BY <1>1, <1>4, <2>2
    <3>2. f[k] = IF a[k].placeholder THEN Encoded(row[a[k].text]) ELSE a[k].text
      BY <3>1 DEF Filled
    <3>3. (f \o g)[k] = f[k]
      BY <1>5, <2>2
    <3> QED
      BY <2>1, <3>1, <3>2, <3>3
  <2>3. CASE ~(k <= Len(a))
    <3>1. (a \o b)[k] = b[k - Len(a)] /\ k - Len(a) \in DOMAIN b
      BY <1>1, <1>4, <2>3
    <3>2. g[k - Len(a)] = IF b[k - Len(a)].placeholder THEN Encoded(row[b[k - Len(a)].text]) ELSE b[k - Len(a)].text
      BY <3>1 DEF Filled
    <3>3. (f \o g)[k] = g[k - Len(a)]
      BY <1>5, <2>3
    <3> QED
      BY <2>1, <3>1, <3>2, <3>3
  <2> QED
    BY <2>2, <2>3
<1> HIDE DEF f, g, h
<1>7. h = f \o g
  BY <1>1, <1>3, <1>5, <1>6, SeqEqual
<1> QED
  BY <1>7 DEF f, g, h

LEMMA FilledOne ==
  ASSUME NEW row \in Rows, iri \in BOOLEAN
  PROVE  /\ \A text \in Text : Fits(Flushed(text), row) /\ Concat(Filled(Flushed(text), row)) = text
         /\ \A c \in STRING : Fits(<< Placeholder(c) >>, row) => Concat(Filled(<< Placeholder(c) >>, row)) = Encoded(row[c])
<1>1. ASSUME NEW text \in Text PROVE Fits(Flushed(text), row) /\ Concat(Filled(Flushed(text), row)) = text
  <2>1. Fits(Flushed(text), row)
    BY ColumnsOfOne DEF Fits
  <2>2. CASE text = << >>
    <3>1. Filled(Flushed(text), row) = << >>
      BY <2>2 DEF Filled, Flushed
    <3> QED
      BY <2>1, <2>2, <3>1, ConcatNothing
  <2>3. CASE text # << >>
    <3>1. Filled(Flushed(text), row) = << text >>
      BY <2>3 DEF Filled, Flushed, Literal
    <3> QED
      BY <2>1, <3>1, ConcatOne
  <2> QED
    BY <2>2, <2>3
<1>2. ASSUME NEW c \in STRING, Fits(<< Placeholder(c) >>, row)
      PROVE  Concat(Filled(<< Placeholder(c) >>, row)) = Encoded(row[c])
  <2>1. c \in Columns /\ row[c] # NULL
    BY <1>2, ColumnsOfOne DEF Fits
  <2>2. Encoded(row[c]) \in Text
    BY <2>1, ValuesAreTexts, EncodedValues
  <2>3. Filled(<< Placeholder(c) >>, row) = << Encoded(row[c]) >>
    BY DEF Filled, Placeholder
  <2> QED
    BY <2>2, <2>3, ConcatOne
<1> QED
  BY <1>1, <1>2

-----------------------------------------------------------------------------
(* The conversion and the SQL read the same text into a template: from any *)
(* place on, what is left to expand is what is left to project.            *)
PartOrNull == Text \cup {NULL}

Same(segs, parts, text, row) ==
  /\ segs \in Seq(Segment)
  /\ ReferencedColumns(segs) \subseteq Columns =>
       /\ parts \in Seq(PartOrNull)
       /\ Missing(parts) <=> ~Fits(segs, row)
       /\ ~Missing(parts) => parts \in Seq(Text) /\ Concat(Filled(segs, row)) = text \o Concat(parts)

LEMMA MissingOneMore ==
  ASSUME NEW x \in PartOrNull, NEW parts \in Seq(PartOrNull)
  PROVE  /\ << x >> \o parts \in Seq(PartOrNull)
         /\ Missing(<< x >> \o parts) <=> x = NULL \/ Missing(parts)
<1> DEFINE more == << x >> \o parts
<1>1. << x >> \in Seq(PartOrNull) /\ Len(<< x >>) = 1 /\ << x >>[1] = x
  BY OneIsSequence
<1>2. more \in Seq(PartOrNull) /\ Len(more) = 1 + Len(parts) /\ Len(parts) \in Nat
      /\ \A k \in 1 .. 1 + Len(parts) : more[k] = IF k <= 1 THEN x ELSE parts[k - 1]
  BY <1>1, ConcatProperties, LenText
<1>3. DOMAIN parts = 1 .. Len(parts) /\ DOMAIN more = 1 .. 1 + Len(parts)
  BY <1>2, LenText
<1> HIDE DEF more
<1>4. ASSUME Missing(more) PROVE x = NULL \/ Missing(parts)
  <2>1. PICK k \in 1 .. 1 + Len(parts) : more[k] = NULL
    BY <1>3, <1>4 DEF Missing
  <2>2. k <= 1 \/ k - 1 \in 1 .. Len(parts)
    BY <1>2
  <2> QED
    BY <1>2, <1>3, <2>1, <2>2 DEF Missing
<1>5. ASSUME x = NULL PROVE Missing(more)
  <2>1. 1 \in 1 .. 1 + Len(parts) /\ more[1] = x
    BY <1>2
  <2> QED
    BY <1>3, <1>5, <2>1 DEF Missing
<1>6. ASSUME Missing(parts) PROVE Missing(more)
  <2>1. PICK k \in 1 .. Len(parts) : parts[k] = NULL
    BY <1>3, <1>6 DEF Missing
  <2>2. k + 1 \in 1 .. 1 + Len(parts) /\ ~(k + 1 <= 1) /\ (k + 1) - 1 = k
    BY <1>2
  <2>3. more[k + 1] = NULL
    BY <1>2, <2>1, <2>2
  <2> QED
    BY <1>3, <2>2, <2>3 DEF Missing
<1> QED
  BY <1>2, <1>4, <1>5, <1>6 DEF more

LEMMA NothingMissing ==
  ASSUME NEW parts \in Seq(PartOrNull), ~Missing(parts)
  PROVE  parts \in Seq(Text)
<1>1. Len(parts) \in Nat /\ parts \in [1 .. Len(parts) -> PartOrNull] /\ DOMAIN parts = 1 .. Len(parts)
  BY LenProperties
<1>2. \A k \in 1 .. Len(parts) : parts[k] \in Text
  BY <1>1 DEF Missing, PartOrNull
<1>3. parts \in [1 .. Len(parts) -> Text]
  BY <1>1, <1>2
<1> QED
  BY <1>1, <1>3, SeqDef

LEMMA SameAtEnd ==
  ASSUME NEW row \in Rows, NEW text \in Text, iri \in BOOLEAN
  PROVE  Same(Flushed(text), << << >> >>, text, row)
<1>1. Flushed(text) \in Seq(Segment) /\ Fits(Flushed(text), row) /\ Concat(Filled(Flushed(text), row)) = text
  BY SegmentsAreTyped, FilledOne
<1>2. << << >> >> \in Seq(Text) /\ << << >> >> \in Seq(PartOrNull)
  BY EmptyText, OneIsSequence DEF PartOrNull
<1>3. ~Missing(<< << >> >>)
  <2>1. NULL # << >>
    BY TextsAssumption, EmptyText DEF Text
  <2>2. DOMAIN << << >> >> = {1} /\ << << >> >>[1] = << >>
    OBVIOUS
  <2> QED
    BY <2>1, <2>2 DEF Missing
<1>4. text \o Concat(<< << >> >>) = text
  BY ConcatOne, EmptyText, NothingAdded
<1> QED
  BY <1>1, <1>2, <1>3, <1>4 DEF Same

LEMMA SameWithCharacter ==
  ASSUME NEW row \in Rows, NEW text \in Text, NEW c \in STRING, NEW segs, NEW parts,
         Same(segs, parts, Append(text, c), row), iri \in BOOLEAN
  PROVE  Same(segs, << << c >> >> \o parts, text, row)
<1> SUFFICES ASSUME ReferencedColumns(segs) \subseteq Columns
             PROVE  /\ << << c >> >> \o parts \in Seq(PartOrNull)
                    /\ Missing(<< << c >> >> \o parts) <=> ~Fits(segs, row)
                    /\ ~Missing(<< << c >> >> \o parts) =>
                         /\ << << c >> >> \o parts \in Seq(Text)
                         /\ Concat(Filled(segs, row)) = text \o Concat(<< << c >> >> \o parts)
  BY DEF Same
<1>1. parts \in Seq(PartOrNull) /\ (Missing(parts) <=> ~Fits(segs, row))
  BY DEF Same
<1>2. << c >> \in Text /\ << c >> \in PartOrNull /\ << c >> # NULL
  BY OneIsSequence, TextsAssumption DEF Text, PartOrNull
<1>3. << << c >> >> \o parts \in Seq(PartOrNull) /\ (Missing(<< << c >> >> \o parts) <=> Missing(parts))
  BY <1>1, <1>2, MissingOneMore
<1>4. ASSUME ~Missing(parts)
      PROVE  << << c >> >> \o parts \in Seq(Text) /\ Concat(Filled(segs, row)) = text \o Concat(<< << c >> >> \o parts)
  <2>1. parts \in Seq(Text) /\ Concat(Filled(segs, row)) = Append(text, c) \o Concat(parts)
    BY <1>4 DEF Same
  <2>2. << << c >> >> \in Seq(Text) /\ << << c >> >> \o parts \in Seq(Text)
    BY <1>2, <2>1, OneIsSequence, ConcatProperties
  <2>3. Concat(<< << c >> >> \o parts) = << c >> \o Concat(parts) /\ Concat(parts) \in Text
    <3>1. Concat(<< << c >> >> \o parts) = Concat(<< << c >> >>) \o Concat(parts)
      BY <2>1, <2>2, ConcatBoth
    <3>2. Concat(<< << c >> >>) = << c >>
      BY <1>2, ConcatOne
    <3>3. Concat(parts) \in Text
      BY <2>1, ConcatIsText
    <3> QED
      BY <3>1, <3>2, <3>3
  <2>4. Append(text, c) = text \o << c >>
    BY AppendIsConcat DEF Text
  <2>5. (text \o << c >>) \o Concat(parts) = text \o (<< c >> \o Concat(parts))
    BY <1>2, <2>3, TextsAssociate
  <2> QED
    BY <2>1, <2>2, <2>3, <2>4, <2>5
<1> QED
  BY <1>1, <1>3, <1>4

LEMMA SameWithName ==
  ASSUME NEW row \in Rows, NEW text \in Text, NEW c \in STRING, NEW segs, NEW parts,
         Same(segs, parts, << >>, row), iri \in BOOLEAN
  PROVE  Same((Flushed(text) \o << Placeholder(c) >>) \o segs, << Value(row, c) >> \o parts, text, row)
<1> DEFINE before == Flushed(text)
           name == << Placeholder(c) >>
           all == (before \o name) \o segs
           more == << Value(row, c) >> \o parts
<1>1. before \in Seq(Segment) /\ name \in Seq(Segment) /\ segs \in Seq(Segment)
  BY SegmentsAreTyped DEF Same
<1>2. before \o name \in Seq(Segment) /\ all \in Seq(Segment)
  BY <1>1, ConcatProperties
<1>3. ReferencedColumns(all) = {c} \cup ReferencedColumns(segs)
  <2>1. ReferencedColumns(before) = {} /\ ReferencedColumns(name) = {c}
    BY ColumnsOfOne
  <2> HIDE DEF before, name
  <2>2. ReferencedColumns(before \o name) = {c}
    BY <1>1, <2>1, ColumnsOfBoth
  <2> QED
    BY <1>1, <1>2, <2>2, ColumnsOfBoth
<1>4. ASSUME ReferencedColumns(all) \subseteq Columns
      PROVE  /\ more \in Seq(PartOrNull)
             /\ Missing(more) <=> ~Fits(all, row)
             /\ ~Missing(more) => more \in Seq(Text) /\ Concat(Filled(all, row)) = text \o Concat(more)
  <2>1. c \in Columns /\ ReferencedColumns(segs) \subseteq Columns
    BY <1>3, <1>4
  <2>2. /\ parts \in Seq(PartOrNull) /\ (Missing(parts) <=> ~Fits(segs, row))
        /\ ~Missing(parts) => parts \in Seq(Text) /\ Concat(Filled(segs, row)) = << >> \o Concat(parts)
    BY <2>1 DEF Same
  <2>3. Value(row, c) \in PartOrNull /\ (Value(row, c) = NULL <=> row[c] = NULL)
        /\ (row[c] # NULL => Value(row, c) = Encoded(row[c]) /\ Encoded(row[c]) \in Text)
    BY <2>1, ValuesAreTexts, EncodedValues DEF Value, PartOrNull
  <2>4. more \in Seq(PartOrNull) /\ (Missing(more) <=> Value(row, c) = NULL \/ Missing(parts))
    BY <2>2, <2>3, MissingOneMore
  <2>5. Fits(all, row) <=> row[c] # NULL /\ Fits(segs, row)
    BY <1>3, <1>4, <2>1 DEF Fits
  <2>6. Missing(more) <=> ~Fits(all, row)
    BY <2>2, <2>3, <2>4, <2>5
  <2>7. ASSUME ~Missing(more) PROVE more \in Seq(Text) /\ Concat(Filled(all, row)) = text \o Concat(more)
    <3>1. more \in Seq(Text)
      BY <2>4, <2>7, NothingMissing
    <3>2. row[c] # NULL /\ Fits(segs, row) /\ parts \in Seq(Text) /\ Value(row, c) = Encoded(row[c]) /\ Encoded(row[c]) \in Text
      BY <2>2, <2>3, <2>4, <2>7
    <3>3. Fits(before, row) /\ Concat(Filled(before, row)) = text
      BY FilledOne
    <3>4. Fits(name, row) /\ Concat(Filled(name, row)) = Encoded(row[c])
      <4>1. ReferencedColumns(name) = {c}
        BY ColumnsOfOne
      <4>2. Fits(name, row)
        BY <2>1, <3>2, <4>1 DEF Fits
      <4> QED
        BY <4>2, FilledOne
    <3>5. Concat(Filled(segs, row)) = Concat(parts) /\ Concat(parts) \in Text
      BY <2>2, <2>4, <2>7, <3>2, ConcatIsText, NothingAdded
    <3>6. Concat(more) = Encoded(row[c]) \o Concat(parts)
      <4>1. << Value(row, c) >> \in Seq(Text)
        BY <3>2, OneIsSequence
      <4>2. Concat(<< Value(row, c) >> \o parts) = Concat(<< Value(row, c) >>) \o Concat(parts)
        BY <3>2, <4>1, ConcatBoth
      <4>3. Concat(<< Value(row, c) >>) = Value(row, c)
        BY <3>2, ConcatOne
      <4> QED
        BY <3>2, <4>2, <4>3
    <3> HIDE DEF before, name, more
    <3>7. Fits(before \o name, row)
      BY <1>1, <3>3, <3>4, ColumnsOfBoth DEF Fits
    <3>8. Filled(all, row) = (Filled(before, row) \o Filled(name, row)) \o Filled(segs, row)
      <4>1. Filled(before \o name, row) = Filled(before, row) \o Filled(name, row)
        BY <1>1, <3>3, <3>4, FilledBoth
      <4>2. Filled((before \o name) \o segs, row) = Filled(before \o name, row) \o Filled(segs, row)
        BY <1>1, <1>2, <3>2, <3>7, FilledBoth
      <4> QED
        BY <4>1, <4>2
    <3>9. Filled(before, row) \in Seq(Text) /\ Filled(name, row) \in Seq(Text) /\ Filled(segs, row) \in Seq(Text)
      BY <1>1, <3>2, <3>3, <3>4, FilledIsTexts
    <3>10. Filled(before, row) \o Filled(name, row) \in Seq(Text)
      BY <3>9, ConcatProperties
    <3>11. Concat(Filled(all, row)) = (text \o Encoded(row[c])) \o Concat(parts)
      <4>1. Concat(Filled(all, row)) = Concat(Filled(before, row) \o Filled(name, row)) \o Concat(Filled(segs, row))
        BY <3>8, <3>9, <3>10, ConcatBoth
      <4>2. Concat(Filled(before, row) \o Filled(name, row)) = Concat(Filled(before, row)) \o Concat(Filled(name, row))
        BY <3>9, ConcatBoth
      <4> QED
        BY <3>3, <3>4, <3>5, <4>1, <4>2
    <3>12. (text \o Encoded(row[c])) \o Concat(parts) = text \o (Encoded(row[c]) \o Concat(parts))
      BY <3>2, <3>5, TextsAssociate
    <3> QED
      BY <3>1, <3>6, <3>11, <3>12
  <2> QED
    BY <2>4, <2>6, <2>7
<1> HIDE DEF all, more
<1>5. Same(all, more, text, row)
  BY <1>2, <1>4 DEF Same
<1> QED
  BY <1>5 DEF all, more

LEMMA SameScans ==
  ASSUME NEW t \in Text, NEW row \in Rows, iri \in BOOLEAN
  PROVE  \A k \in 1 .. Len(t) + 1 : \A text \in Text : Same(Segments(t)[k][text], Parts(t, row)[k], text, row)
<1> DEFINE N == Len(t) + 1
           G == { k \in 1 .. N : \A text \in Text : Same(Segments(t)[k][text], Parts(t, row)[k], text, row) }
<1>1. N \in Nat
  BY LenText DEF Text
<1>2. ASSUME NEW k \in 1 .. N, \A j \in k + 1 .. N : j \in G PROVE k \in G
  <2>1. ASSUME NEW text \in Text PROVE Same(Segments(t)[k][text], Parts(t, row)[k], text, row)
    <3>1. CASE Ends(t, k)
      <4>1. Segments(t)[k][text] = Flushed(text) /\ Parts(t, row)[k] = << << >> >>
        BY <3>1, ParseCases, ExpandCases
      <4> QED
        BY <4>1, SameAtEnd
    <3>2. CASE Reads(t, k)
      <4>1. Segments(t)[k][text] = Segments(t)[k + 1][Append(text, t[k])]
            /\ Parts(t, row)[k] = << << t[k] >> >> \o Parts(t, row)[k + 1]
        BY <3>2, ParseCases, ExpandCases
      <4>2. k + 1 \in k + 1 .. N /\ t[k] \in STRING
        BY <3>2, OneCase
      <4>3. Append(text, t[k]) \in Text
        BY <4>2, AppendProperties DEF Text
      <4>4. k + 1 \in G
        BY <1>2, <4>2, Zenon
      <4>5. Same(Segments(t)[k + 1][Append(text, t[k])], Parts(t, row)[k + 1], Append(text, t[k]), row)
        BY <4>3, <4>4
      <4> QED
        BY <4>1, <4>2, <4>5, SameWithCharacter
    <3>3. CASE Names(t, k)
      <4>1. Segments(t)[k][text] = (Flushed(text) \o << Placeholder(t[k + 1]) >>) \o Segments(t)[Closing(t, k) + 1][<< >>]
            /\ Parts(t, row)[k] = << Value(row, t[k + 1]) >> \o Parts(t, row)[Closing(t, k) + 1]
        BY <3>3, ParseCases, ExpandCases
      <4>2. Closing(t, k) + 1 \in k + 1 .. N /\ t[k + 1] \in STRING
        BY <3>3, OneCase
      <4>3. Closing(t, k) + 1 \in G
        BY <1>2, <4>2, Zenon
      <4>4. Same(Segments(t)[Closing(t, k) + 1][<< >>], Parts(t, row)[Closing(t, k) + 1], << >>, row)
        BY <4>3, EmptyText
      <4> QED
        BY <4>1, <4>2, <4>4, SameWithName
    <3> QED
      BY <3>1, <3>2, <3>3, OneCase
  <2> QED
    BY <2>1
<1> HIDE DEF G
<1>3. \A k \in 1 .. N : k \in G
  BY <1>1, <1>2, Downwards
<1> QED
  BY <1>3 DEF G

LEMMA ExpandIsProjection ==
  ASSUME NEW t \in TemplateTexts, NEW row \in Rows, iri \in BOOLEAN
  PROVE  /\ t \in Text
         /\ ParseTemplate(t) \in Seq(Segment)
         /\ ReferencedColumns(ParseTemplate(t)) \subseteq Columns
         /\ Projection(ParseTemplate(t), row) = IF Fits(ParseTemplate(t), row) THEN Concat(Filled(ParseTemplate(t), row)) ELSE NULL
         /\ Expand(t, row) = Projection(ParseTemplate(t), row)
<1> DEFINE segs == ParseTemplate(t)
           parts == Parts(t, row)[1]
<1>1. t \in Text /\ Len(t) \in Nat /\ 1 \in 1 .. Len(t) + 1
  BY TextsAssumption, LenText DEF Text
<1>2. segs = Segments(t)[1][<< >>] /\ Expand(t, row) = IF Missing(parts) THEN NULL ELSE Concat(parts)
  BY <1>1, ParseIsScan, ExpandIsScan
<1>3. Same(segs, parts, << >>, row)
  BY <1>1, <1>2, SameScans, EmptyText
<1>4. ReferencedColumns(segs) \subseteq Columns
  BY ColumnsAssumption
<1> HIDE DEF segs, parts
<1>5. segs \in Seq(Segment) /\ (Missing(parts) <=> ~Fits(segs, row))
      /\ (~Missing(parts) => parts \in Seq(Text) /\ Concat(Filled(segs, row)) = << >> \o Concat(parts))
  BY <1>3, <1>4 DEF Same
<1>6. Projection(segs, row) = IF Fits(segs, row) THEN Concat(Filled(segs, row)) ELSE NULL
  BY <1>4 DEF Projection, Fits
<1>7. CASE Missing(parts)
  BY <1>1, <1>2, <1>4, <1>5, <1>6, <1>7 DEF segs
<1>8. CASE ~Missing(parts)
  <2>1. Concat(Filled(segs, row)) = Concat(parts)
    BY <1>5, <1>8, ConcatIsText, NothingAdded
  <2> QED
    BY <1>1, <1>2, <1>4, <1>5, <1>6, <1>8, <2>1 DEF segs
<1> QED
  BY <1>7, <1>8

(* A template without placeholders that is not cut off stands for itself.  *)
LEMMA LiteralStandsForItself ==
  ASSUME NEW t \in TemplateTexts, NEW row \in Rows, iri \in BOOLEAN,
         LiteralOnly(ParseTemplate(t)), ~CutOff(t)
  PROVE  Expand(t, row) = t
<1> DEFINE n == Len(t)
           Segs(k, text) == Segments(t)[k][text]
           G == { k \in 1 .. n + 1 : \A text \in Text :
                    ReferencedColumns(Segs(k, text)) = {} => Concat(Parts(t, row)[k]) = SubSeq(t, k, n) /\ Parts(t, row)[k] \in Seq(Text) }
<1>1. t \in Text /\ n \in Nat /\ DOMAIN t = 1 .. n /\ n + 1 \in Nat /\ 1 \in 1 .. n + 1
  BY ExpandIsProjection, LenText DEF Text
<1>2. ASSUME NEW k \in 1 .. n + 1, \A j \in k + 1 .. n + 1 : j \in G PROVE k \in G
  <2>1. ASSUME NEW text \in Text, ReferencedColumns(Segs(k, text)) = {}
        PROVE  Concat(Parts(t, row)[k]) = SubSeq(t, k, n) /\ Parts(t, row)[k] \in Seq(Text)
    <3>1. CASE Ends(t, k)
      <4>1. k = n + 1
        <5>1. CASE k > n
          BY <1>1, <5>1
        <5>2. CASE ~(k > n)
          <6>1. t[k] = "{" /\ Closing(t, k) = 0
            BY <3>1, <5>2, Zenon DEF Ends
          <6>2. k \in DOMAIN t
            BY <1>1, <5>2
          <6> QED
            BY <6>1, <6>2 DEF CutOff
        <5> QED
          BY <5>1, <5>2
      <4>2. SubSeq(t, k, n) = << >>
        BY <1>1, <4>1, SubSeqEmpty
      <4>3. Parts(t, row)[k] = << << >> >>
        BY <1>1, <3>1, ExpandCases
      <4> QED
        BY <4>2, <4>3, ConcatOne, EmptyText, OneIsSequence
    <3>2. CASE Reads(t, k)
      <4> DEFINE rest == Parts(t, row)[k + 1]
      <4>1. Segs(k, text) = Segs(k + 1, Append(text, t[k])) /\ Parts(t, row)[k] = << << t[k] >> >> \o rest
        BY <1>1, <3>2, ParseCases, ExpandCases
      <4>2. k + 1 \in k + 1 .. n + 1 /\ t[k] \in STRING
        BY <1>1, <3>2, OneCase
      <4>3. Append(text, t[k]) \in Text
        BY <4>2, AppendProperties DEF Text
      <4>4. k + 1 \in G
        BY <1>2, <4>2, Zenon
      <4>5. Concat(rest) = SubSeq(t, k + 1, n) /\ rest \in Seq(Text)
        BY <2>1, <4>1, <4>3, <4>4
      <4>6. << t[k] >> \in Text /\ << << t[k] >> >> \in Seq(Text)
        BY <4>2, OneIsSequence DEF Text
      <4> HIDE DEF rest, G, Segs
      <4>7. Concat(<< << t[k] >> >> \o rest) = << t[k] >> \o SubSeq(t, k + 1, n) /\ << << t[k] >> >> \o rest \in Seq(Text)
        BY <4>5, <4>6, ConcatBoth, ConcatOne, ConcatProperties
      <4>8. k \in 1 .. n /\ n \in k .. n
        BY <1>1, <4>2
      <4>9. SubSeq(t, k, n) = << t[k] >> \o SubSeq(t, k + 1, n)
        BY <1>1, <4>8, SubSeqRecursiveFirst DEF Text
      <4> QED
        BY <4>1, <4>7, <4>9
    <3>3. CASE Names(t, k)
      <4> DEFINE c == t[k + 1]
                 rest == Segs(Closing(t, k) + 1, << >>)
      <4>1. Segs(k, text) = (Flushed(text) \o << Placeholder(c) >>) \o rest
        BY <1>1, <3>3, ParseCases
      <4>2. Closing(t, k) + 1 \in 1 .. n + 1 /\ c \in STRING
        BY <1>1, <3>3, OneCase
      <4>3. rest \in Seq(Segment)
        BY <1>1, <4>2, SameScans, EmptyText DEF Same
      <4> HIDE DEF c, rest, Segs, G
      <4>4. Flushed(text) \in Seq(Segment) /\ << Placeholder(c) >> \in Seq(Segment)
        BY <4>2, SegmentsAreTyped
      <4>5. Flushed(text) \o << Placeholder(c) >> \in Seq(Segment)
        BY <4>4, ConcatProperties
      <4>6. c \in ReferencedColumns(Flushed(text) \o << Placeholder(c) >>)
        <5>1. c \in ReferencedColumns(<< Placeholder(c) >>)
          BY ColumnsOfOne
        <5> QED
          BY <4>4, <5>1, ColumnsOfBoth
      <4>7. c \in ReferencedColumns(Segs(k, text))
        BY <4>1, <4>3, <4>5, <4>6, ColumnsOfBoth
      <4> QED
        BY <2>1, <4>7
    <3> QED
      BY <1>1, <3>1, <3>2, <3>3, OneCase
  <2> QED
    BY <2>1
<1> HIDE DEF G
<1>3. 1 \in G
  BY <1>1, <1>2, Downwards
<1>4. ParseTemplate(t) = Segs(1, << >>)
  BY <1>1, ParseIsScan
<1>5. Concat(Parts(t, row)[1]) = SubSeq(t, 1, n)
  BY <1>3, <1>4, EmptyText DEF G, LiteralOnly
<1>6. SubSeq(t, 1, n) = t
  BY <1>1, SubSeqFull DEF Text
<1>7. Expand(t, row) # NULL
  <2>1. Fits(ParseTemplate(t), row) /\ ParseTemplate(t) \in Seq(Segment)
    BY ExpandIsProjection DEF LiteralOnly, Fits
  <2>2. Concat(Filled(ParseTemplate(t), row)) \in Text
    BY <2>1, FilledIsTexts, ConcatIsText
  <2>3. Expand(t, row) \in Text
    BY <2>1, <2>2, ExpandIsProjection
  <2> QED
    BY <2>3, TextsAssumption DEF Text
<1> QED
  BY <1>1, <1>5, <1>6, <1>7, ExpandIsScan

-----------------------------------------------------------------------------
(* The inductive invariant.                                                *)
Typed ==
  /\ template \in TemplateTexts /\ iri \in BOOLEAN /\ bound \in Text
  /\ other = NULL \/ other \in TemplateTexts
  /\ i \in 1 .. Len(segments) + 1 /\ pos \in 0 .. Len(bound)
  /\ values \in Seq(STRING \X Text)
  /\ outcome \in {"none", "never", "whole", "columns", "pruned", "keys", "texts"}

(* What the outcome says of the loop and of the comparison.                *)
Settled ==
  /\ outcome \in {"never", "whole", "columns"} => other = NULL
  /\ outcome \in {"pruned", "keys", "texts"} => other # NULL
  /\ outcome = "pruned" => ~CanEverMatch(template, other)
  /\ outcome = "keys" => NativelyJoined(template, other)
  /\ outcome = "columns" => i = Len(segments) + 1 /\ pos = Len(bound)

(* The text of the first k segments, filled from a row.                    *)
Front(row, k) == Concat(SubSeq(Filled(segments, row), 1, k))

Produces(row) == Fits(segments, row) /\ Concat(Filled(segments, row)) = bound

AllCanonical == \A k \in DOMAIN values : Canonical(values[k][2])

(* A row that produces the given term is still in the running: it agrees   *)
(* with the values found, and what was consumed is what it put there.      *)
KeepsAnswers ==
  other = NULL /\ SplitsOneWay(segments) =>
    \A row \in Rows : Produces(row) =>
      Agrees(row) /\ outcome # "never" /\ Front(row, i - 1) = SubSeq(bound, 1, pos)

(* A row that agrees with the values found produces what was consumed.     *)
AddsNoAnswers ==
  \A row \in Rows :
    Fits(segments, row) /\ Agrees(row) /\ AllCanonical => Front(row, i - 1) = SubSeq(bound, 1, pos)

IInv == Typed /\ Settled /\ KeepsAnswers /\ AddsNoAnswers


LEMMA SegmentsFacts ==
  ASSUME template \in TemplateTexts, iri \in BOOLEAN
  PROVE  /\ segments \in Seq(Segment) /\ Len(segments) \in Nat /\ DOMAIN segments = 1 .. Len(segments)
         /\ \A k \in 1 .. Len(segments) : segments[k] \in Segment
         /\ \A k \in 1 .. Len(segments) : segments[k].placeholder => segments[k].text \in STRING
         /\ \A k \in 1 .. Len(segments) : ~segments[k].placeholder => segments[k].text \in Text
<1>1. segments \in Seq(Segment)
  <2>1. template \in Text /\ Len(template) \in Nat /\ 1 \in 1 .. Len(template) + 1
    BY TextsAssumption, LenText DEF Text
  <2>2. segments = Segments(template)[1][<< >>]
    BY <2>1, ParseIsScan DEF segments
  <2>3. PICK row \in Rows : TRUE
    <3> DEFINE row == [c \in Columns |-> NULL]
    <3>1. row \in Rows
      BY DEF Rows
    <3> QED
      BY <3>1
  <2> QED
    BY <2>1, <2>2, <2>3, SameScans, EmptyText DEF Same
<1>2. Len(segments) \in Nat /\ DOMAIN segments = 1 .. Len(segments) /\ \A k \in 1 .. Len(segments) : segments[k] \in Segment
  BY <1>1, LenText, ElementOfSeq
<1> QED
  BY <1>1, <1>2 DEF Segment

(* For every template, term map and row, the conversion and the SQL read   *)
(* the same text into the template, or NULL (TemplateTermMap.cpp:36,       *)
(* TemplateUtil.h:19).                                                     *)
THEOREM OneReading == Spec => []ReadersAgree
<1> DEFINE J == template \in TemplateTexts /\ iri \in BOOLEAN
<1>1. Init => J
  BY DEF Init
<1>2. J /\ [Next]_vars => J'
  BY DEF Next, vars, Compare, Unsplit, ReadLiteral, ReadPlaceholder, Finish, End, TakeTo
<1>3. J => ReadersAgree
  BY ExpandIsProjection DEF ReadersAgree, segments
<1> QED
  BY <1>1, <1>2, <1>3, PTL DEF Spec

-----------------------------------------------------------------------------
(* Pieces of the given term.                                               *)
LEMMA PieceIsText ==
  ASSUME NEW w \in Text, NEW m \in 1 .. Len(w) + 1, NEW n \in 0 .. Len(w)
  PROVE  SubSeq(w, m, n) \in Text /\ (m <= n + 1 => Len(SubSeq(w, m, n)) = n - m + 1)
<1>1. Len(w) \in Nat /\ \A j \in 1 .. Len(w) : w[j] \in STRING
  BY LenText, ElementOfSeq DEF Text
<1>2. \A j \in m .. n : j \in 1 .. Len(w)
  BY <1>1
<1>3. \A j \in m .. n : w[j] \in STRING
  BY <1>1, <1>2
<1>4. SubSeq(w, m, n) \in Text /\ Len(SubSeq(w, m, n)) = IF m <= n THEN n - m + 1 ELSE 0
  BY <1>1, <1>3, SubSeqProperties, m \in Int, n \in Int DEF Text
<1> QED
  BY <1>1, <1>4

LEMMA PiecesMeet ==
  ASSUME NEW w \in Text, NEW m \in 0 .. Len(w), NEW n \in m .. Len(w)
  PROVE  SubSeq(w, 1, m) \o SubSeq(w, m + 1, n) = SubSeq(w, 1, n)
<1>1. Len(w) \in Nat
  BY LenText DEF Text
<1>2. 1 \in 1 .. Len(w) + 1 /\ m \in 1 - 1 .. Len(w) /\ n \in m .. Len(w)
  BY <1>1
<1> QED
  BY <1>2, ConcatAdjacentSubSeq DEF Text

LEMMA Pieces ==
  ASSUME NEW a \in Text, NEW e \in Text, NEW b \in Text
  PROVE  /\ Len(a) \in Nat /\ Len(e) \in Nat /\ Len(a) + Len(e) <= Len((a \o e) \o b) /\ (a \o e) \o b \in Text
         /\ SubSeq((a \o e) \o b, Len(a) + 1, Len(a) + Len(e)) = e
         /\ SubSeq((a \o e) \o b, 1, Len(a) + Len(e)) = a \o e
<1> DEFINE w == (a \o e) \o b
           ae == a \o e
           n == Len(a) + Len(e)
<1>1. /\ w \in Text /\ Len(w) = Len(a) + Len(e) + Len(b) /\ Len(a) \in Nat /\ Len(e) \in Nat /\ Len(b) \in Nat
      /\ \A k \in 1 .. Len(e) : w[Len(a) + k] = e[k]
  BY InTheMiddle
<1>2. ae \in Text /\ Len(ae) = n /\ \A k \in 1 .. Len(ae) : w[k] = ae[k]
  <2>1. ae \in Text /\ Len(ae) = n
    BY LongerText
  <2> HIDE DEF ae
  <2>2. \A k \in 1 .. Len(ae) : (ae \o b)[k] = ae[k]
    BY <2>1, LongerText
  <2> QED
    BY <2>1, <2>2 DEF ae
<1> HIDE DEF w, ae
<1>3. SubSeq(w, Len(a) + 1, n) = e
  <2>1. Len(a) + 1 \in 1 .. Len(w) - Len(e) + 1 /\ \A k \in 1 .. Len(e) : (Len(a) + 1) + k - 1 = Len(a) + k
    BY <1>1
  <2>2. \A k \in 1 .. Len(e) : w[(Len(a) + 1) + k - 1] = e[k]
    BY <1>1, <2>1
  <2>3. Stands(w, e, Len(a) + 1)
    BY <1>1, <2>1, <2>2, StandsAt
  <2>4. (Len(a) + 1) + Len(e) - 1 = n
    BY <1>1
  <2> QED
    BY <2>3, <2>4 DEF Stands
<1>4. SubSeq(w, 1, n) = ae
  <2>1. 1 \in 1 .. Len(w) - Len(ae) + 1 /\ \A k \in 1 .. Len(ae) : 1 + k - 1 = k
    BY <1>1, <1>2
  <2>2. \A k \in 1 .. Len(ae) : w[1 + k - 1] = ae[k]
    BY <1>2, <2>1
  <2>3. Stands(w, ae, 1)
    BY <1>1, <1>2, <2>1, <2>2, StandsAt
  <2>4. 1 + Len(ae) - 1 = n
    BY <1>1, <1>2
  <2> QED
    BY <2>3, <2>4 DEF Stands
<1>5. n <= Len(w)
  BY <1>1
<1> QED
  BY <1>1, <1>3, <1>4, <1>5 DEF w, ae

LEMMA RestStarts ==
  ASSUME NEW w \in Text, NEW p \in 0 .. Len(w), NEW d \in Text
  PROVE  StartsWith(SubSeq(w, p + 1, Len(w)), d) <=> p + Len(d) <= Len(w) /\ SubSeq(w, p + 1, p + Len(d)) = d
<1> DEFINE r == SubSeq(w, p + 1, Len(w))
           n == Len(d)
<1>1. n \in Nat /\ Len(w) \in Nat /\ p + 1 \in 1 .. Len(w) + 1 /\ Len(w) \in 0 .. Len(w) /\ p \in Nat
  BY LenText DEF Text
<1>2. r \in Text /\ Len(r) = Len(w) - p
  BY <1>1, PieceIsText
<1> HIDE DEF r
<1>3. CASE p + n <= Len(w)
  <2>1. SubSeq(w, p + 1, p + n) = SubSeq(r, 1, n)
    <3>1. CASE n = 0
      BY <1>1, <3>1, SubSeqEmpty
    <3>2. CASE n # 0
      <4>1. p + 1 \in 1 .. Len(w) /\ Len(w) \in 1 .. Len(w) /\ 1 \in 1 .. Len(w) - (p + 1) + 1 /\ n \in 1 .. Len(w) - (p + 1) + 1
        BY <1>1, <1>3, <3>2
      <4>2. SubSeq(SubSeq(w, p + 1, Len(w)), 1, n) = SubSeq(w, (p + 1) + 1 - 1, (p + 1) + n - 1)
        BY <4>1, SubSeqOfSubSeq DEF Text
      <4>3. (p + 1) + 1 - 1 = p + 1 /\ (p + 1) + n - 1 = p + n
        BY <1>1
      <4> QED
        BY <4>2, <4>3 DEF r
    <3> QED
      BY <3>1, <3>2
  <2>2. n <= Len(r)
    BY <1>1, <1>2, <1>3
  <2> QED
    BY <1>3, <2>1, <2>2 DEF StartsWith, r
<1>4. CASE ~(p + n <= Len(w))
  <2>1. ~(n <= Len(r))
    BY <1>1, <1>2, <1>4
  <2> QED
    BY <1>4, <2>1 DEF StartsWith, r
<1> QED
  BY <1>3, <1>4

-----------------------------------------------------------------------------
(* The loop of invertTemplate.                                             *)
LEMMA FrontOfAll ==
  ASSUME NEW segs \in Seq(Segment), NEW row \in Rows, Fits(segs, row), iri \in BOOLEAN
  PROVE  /\ Concat(SubSeq(Filled(segs, row), 1, 0)) = << >>
         /\ Concat(SubSeq(Filled(segs, row), 1, Len(segs))) = Concat(Filled(segs, row))
         /\ Concat(Filled(segs, row)) \in Text
<1>1. Filled(segs, row) \in Seq(Text) /\ Len(Filled(segs, row)) = Len(segs)
  BY FilledIsTexts
<1>2. SubSeq(Filled(segs, row), 1, 0) = << >>
  BY SubSeqEmpty
<1>3. SubSeq(Filled(segs, row), 1, Len(Filled(segs, row))) = Filled(segs, row)
  BY <1>1, SubSeqFull
<1> QED
  BY <1>1, <1>2, <1>3, ConcatNothing, ConcatIsText

LEMMA FrontStep ==
  ASSUME NEW segs \in Seq(Segment), NEW row \in Rows, Fits(segs, row), iri \in BOOLEAN, NEW k \in 1 .. Len(segs)
  PROVE  /\ Filled(segs, row)[k] \in Text /\ Concat(SubSeq(Filled(segs, row), 1, k - 1)) \in Text
         /\ Concat(SubSeq(Filled(segs, row), 1, k)) = Concat(SubSeq(Filled(segs, row), 1, k - 1)) \o Filled(segs, row)[k]
         /\ \E b \in Text : Concat(Filled(segs, row)) = Concat(SubSeq(Filled(segs, row), 1, k)) \o b
         /\ k = Len(segs) => Concat(Filled(segs, row)) = Concat(SubSeq(Filled(segs, row), 1, k))
<1> DEFINE f == Filled(segs, row)
<1>1. f \in Seq(Text) /\ Len(f) = Len(segs)
  BY FilledIsTexts
<1> HIDE DEF f
<1>2. k \in 1 .. Len(f)
  BY <1>1
<1>3. /\ SubSeq(f, 1, k - 1) \in Seq(Text) /\ f[k] \in Text /\ SubSeq(f, k + 1, Len(f)) \in Seq(Text)
      /\ Concat(SubSeq(f, 1, k)) = Concat(SubSeq(f, 1, k - 1)) \o f[k]
      /\ Concat(f) = Concat(SubSeq(f, 1, k)) \o Concat(SubSeq(f, k + 1, Len(f)))
  BY <1>1, <1>2, ConcatSplit
<1>4. Concat(SubSeq(f, 1, k - 1)) \in Text
  BY <1>3, ConcatIsText
<1>5. Concat(SubSeq(f, k + 1, Len(f))) \in Text
  BY <1>3, ConcatIsText
<1>6. \E b \in Text : Concat(f) = Concat(SubSeq(f, 1, k)) \o b
  BY <1>3, <1>5
<1>7. k = Len(segs) => Concat(f) = Concat(SubSeq(f, 1, k))
  BY <1>1, SubSeqFull
<1> QED
  BY <1>3, <1>4, <1>6, <1>7 DEF f

LEMMA FrontTwice ==
  ASSUME NEW segs \in Seq(Segment), NEW row \in Rows, Fits(segs, row), iri \in BOOLEAN, NEW k \in 1 .. Len(segs) - 1
  PROVE  \E b \in Text : Concat(Filled(segs, row))
           = ((Concat(SubSeq(Filled(segs, row), 1, k - 1)) \o Filled(segs, row)[k]) \o Filled(segs, row)[k + 1]) \o b
<1> DEFINE f == Filled(segs, row)
<1>1. Len(segs) \in Nat
  BY LenText
<1>2. k \in 1 .. Len(segs) /\ k + 1 \in 1 .. Len(segs) /\ (k + 1) - 1 = k
  BY <1>1
<1>3. Concat(SubSeq(f, 1, k)) = Concat(SubSeq(f, 1, k - 1)) \o f[k]
  BY <1>2, FrontStep
<1>4. Concat(SubSeq(f, 1, k + 1)) = Concat(SubSeq(f, 1, k)) \o f[k + 1]
  BY <1>2, FrontStep
<1>5. PICK b \in Text : Concat(f) = Concat(SubSeq(f, 1, k + 1)) \o b
  BY <1>2, FrontStep
<1> HIDE DEF f
<1>6. Concat(f) = ((Concat(SubSeq(f, 1, k - 1)) \o f[k]) \o f[k + 1]) \o b
  BY <1>3, <1>4, <1>5
<1> QED
  BY <1>6 DEF f

LEMMA SameParts ==
  ASSUME UNCHANGED << template, other, iri, bound >>
  PROVE  /\ segments' = segments /\ Adjacent(segments)' = Adjacent(segments)
         /\ SplitsOneWay(segments)' = SplitsOneWay(segments)
         /\ \A row : Filled(segments, row)' = Filled(segments, row)
         /\ \A row : Fits(segments, row)' = Fits(segments, row)
         /\ \A row : Produces(row)' = Produces(row)
         /\ \A row : Front(row, i - 1)' = Front(row, i' - 1)
<1>1. segments' = segments
  BY DEF segments
<1>2. Adjacent(segments)' = Adjacent(segments)
  BY <1>1 DEF Adjacent
<1>3. SplitsOneWay(segments)' = SplitsOneWay(segments)
  BY <1>1, <1>2 DEF SplitsOneWay, Unmistakable
<1>4. \A row : Filled(segments, row)' = Filled(segments, row)
  BY <1>1 DEF Filled, Encoded
<1>5. \A row : Fits(segments, row)' = Fits(segments, row)
  BY <1>1 DEF Fits
<1>6. \A row : Produces(row)' = Produces(row)
  BY <1>4, <1>5 DEF Produces
<1>7. \A row : Front(row, i - 1)' = Front(row, i' - 1)
  BY <1>4 DEF Front
<1> QED
  BY <1>1, <1>2, <1>3, <1>4, <1>5, <1>6, <1>7

LEMMA OneMoreValue ==
  ASSUME values \in Seq(STRING \X Text), NEW c \in STRING, NEW span \in Text,
         values' = Append(values, << c, span >>), iri' = iri
  PROVE  /\ values' \in Seq(STRING \X Text)
         /\ \A row : Agrees(row)' <=> Agrees(row) /\ row[c] = Decoded(span)
         /\ AllCanonical' <=> AllCanonical /\ Canonical(span)
<1> DEFINE n == Len(values)
<1>1. /\ values' \in Seq(STRING \X Text) /\ n \in Nat /\ Len(values') = n + 1
      /\ \A k \in 1 .. n : values'[k] = values[k]
      /\ values'[n + 1] = << c, span >>
  <2> DEFINE S == STRING \X Text
             pair == << c, span >>
  <2>1. pair \in S /\ values \in Seq(S) /\ values' = Append(values, pair)
    OBVIOUS
  <2>2. n \in Nat
    BY <2>1, LenText
  <2> HIDE DEF S, pair
  <2>3. Append(values, pair) \in Seq(S)
    BY <2>1, AppendProperties
  <2>4. Len(Append(values, pair)) = Len(values) + 1
    BY <2>1, AppendProperties
  <2>5. \A k \in 1 .. Len(values) : Append(values, pair)[k] = values[k]
    BY <2>1, AppendProperties
  <2>6. Append(values, pair)[Len(values) + 1] = pair
    BY <2>1, AppendProperties
  <2> QED
    BY <2>1, <2>2, <2>3, <2>4, <2>5, <2>6 DEF S, pair
<1>2. DOMAIN values = 1 .. n /\ DOMAIN values' = 1 .. n + 1
  BY <1>1, LenText
<1> HIDE DEF n
<1>3. n + 1 \in 1 .. n + 1 /\ \A k \in 1 .. n + 1 : k \in 1 .. n \/ k = n + 1
  BY <1>1
<1>4. \A k \in 1 .. n : k \in 1 .. n + 1
  BY <1>1
<1>5. ASSUME NEW row PROVE Agrees(row)' <=> Agrees(row) /\ row[c] = Decoded(span)
  <2>1. Agrees(row) <=> \A k \in 1 .. n : row[values[k][1]] = Decoded(values[k][2])
    BY <1>2 DEF Agrees
  <2>2. Agrees(row)' <=> \A k \in 1 .. n + 1 : row[values'[k][1]] = IF iri THEN PercentDecode(values'[k][2]) ELSE values'[k][2]
    BY <1>2 DEF Agrees, Decoded
  <2>3. Agrees(row)' <=> \A k \in 1 .. n + 1 : row[values'[k][1]] = Decoded(values'[k][2])
    BY <2>2 DEF Decoded
  <2>4. << c, span >>[1] = c /\ << c, span >>[2] = span
    OBVIOUS
  <2>5. row[values'[n + 1][1]] = Decoded(values'[n + 1][2]) <=> row[c] = Decoded(span)
    BY <1>1, <2>4
  <2> QED
    BY <1>1, <1>3, <1>4, <2>1, <2>3, <2>5
<1>6. AllCanonical' <=> AllCanonical /\ Canonical(span)
  <2>1. AllCanonical <=> \A k \in 1 .. n : Canonical(values[k][2])
    BY <1>2 DEF AllCanonical
  <2>2. AllCanonical' <=> \A k \in 1 .. n + 1 : Canonical(values'[k][2])
    BY <1>2 DEF AllCanonical, Canonical, Encoded, Decoded
  <2>3. << c, span >>[2] = span
    OBVIOUS
  <2>4. Canonical(values'[n + 1][2]) <=> Canonical(span)
    BY <1>1, <2>3
  <2> QED
    BY <1>1, <1>3, <1>4, <2>1, <2>2, <2>4
<1> QED
  BY <1>1, <1>5, <1>6

LEMMA SameValues ==
  ASSUME values' = values, iri' = iri
  PROVE  /\ \A row : Agrees(row)' = Agrees(row)
         /\ AllCanonical' = AllCanonical
BY DEF Agrees, Decoded, AllCanonical, Canonical, Encoded

-----------------------------------------------------------------------------
(* The inductive invariant holds at first, and every action keeps it.       *)
LEMMA EmptySpan == ASSUME NEW w \in Text PROVE SubSeq(w, 1, 0) = << >> /\ 0 \in 0 .. Len(w) /\ Len(w) \in Nat
BY LenText, SubSeqEmpty DEF Text

LEMMA InitIInv == Init => IInv
<1> SUFFICES ASSUME Init PROVE IInv
  OBVIOUS
<1>1. template \in TemplateTexts /\ iri \in BOOLEAN /\ bound \in Text /\ (other = NULL \/ other \in TemplateTexts)
  BY TextsAssumption, EmptyText DEF Init, Text
<1>2. i = 1 /\ pos = 0 /\ values = << >> /\ outcome = "none"
  BY DEF Init
<1>3. segments \in Seq(Segment) /\ Len(segments) \in Nat
  BY <1>1, SegmentsFacts
<1>4. Typed
  <2>1. values \in Seq(STRING \X Text)
    BY <1>2, EmptySeq
  <2>2. i \in 1 .. Len(segments) + 1
    BY <1>2, <1>3
  <2>3. pos \in 0 .. Len(bound)
    BY <1>1, <1>2, EmptySpan
  <2> QED
    BY <1>1, <1>2, <2>1, <2>2, <2>3 DEF Typed
<1>5. Settled
  BY <1>2 DEF Settled
<1>6. ASSUME NEW row PROVE Agrees(row)
  BY <1>2 DEF Agrees
<1>7. ASSUME NEW row \in Rows, Fits(segments, row) PROVE Front(row, i - 1) = SubSeq(bound, 1, pos)
  <2>1. Front(row, 0) = << >>
    BY <1>1, <1>3, <1>7, FrontOfAll DEF Front
  <2>2. i - 1 = 0
    BY <1>2
  <2> QED
    BY <1>1, <1>2, <2>1, <2>2, EmptySpan
<1>8. KeepsAnswers
  BY <1>2, <1>6, <1>7 DEF KeepsAnswers, Produces
<1>9. AddsNoAnswers
  BY <1>7 DEF AddsNoAnswers
<1> QED
  BY <1>4, <1>5, <1>8, <1>9 DEF IInv

(* An action that only settles the outcome.                                *)
LEMMA EndStep ==
  ASSUME IInv, NEW result \in {"never", "whole", "columns", "pruned", "keys", "texts"}, End(result),
         result \in {"never", "whole", "columns"} => other = NULL,
         result \in {"pruned", "keys", "texts"} => other # NULL,
         result = "pruned" => ~CanEverMatch(template, other),
         result = "keys" => NativelyJoined(template, other),
         result = "columns" => i = Len(segments) + 1 /\ pos = Len(bound),
         result = "never" /\ other = NULL /\ SplitsOneWay(segments) => \A row \in Rows : ~Produces(row)
  PROVE  IInv'
<1>1. outcome' = result /\ UNCHANGED << template, other, iri, bound, i, pos, values >>
  BY DEF End
<1>2. /\ segments' = segments /\ SplitsOneWay(segments)' = SplitsOneWay(segments)
      /\ \A row : Fits(segments, row)' = Fits(segments, row)
      /\ \A row : Produces(row)' = Produces(row)
      /\ \A row : Front(row, i - 1)' = Front(row, i - 1)
      /\ \A row : Agrees(row)' = Agrees(row)
      /\ AllCanonical' = AllCanonical
  BY <1>1, SameParts, SameValues
<1>3. Typed'
  BY <1>1, <1>2 DEF IInv, Typed
<1>4. Settled'
  <2>1. CanEverMatch(template, other)' = CanEverMatch(template, other)
    BY <1>1
  <2>2. NativelyJoined(template, other)' = NativelyJoined(template, other)
    BY <1>1
  <2> QED
    BY <1>1, <1>2, <2>1, <2>2 DEF Settled
<1>5. KeepsAnswers'
  <2>1. ASSUME other = NULL, SplitsOneWay(segments), NEW row \in Rows, Produces(row)
        PROVE  Agrees(row) /\ result # "never" /\ Front(row, i - 1) = SubSeq(bound, 1, pos)
    BY <2>1 DEF IInv, KeepsAnswers
  <2>2. SubSeq(bound, 1, pos)' = SubSeq(bound, 1, pos) /\ Rows' = Rows
    BY <1>1 DEF Rows
  <2> QED
    BY <1>1, <1>2, <2>1, <2>2 DEF KeepsAnswers
<1>6. AddsNoAnswers'
  <2>1. SubSeq(bound, 1, pos)' = SubSeq(bound, 1, pos)
    BY <1>1
  <2> QED
    BY <1>1, <1>2, <2>1 DEF IInv, AddsNoAnswers
<1> QED
  BY <1>3, <1>4, <1>5, <1>6 DEF IInv

(* A step of the loop past a segment.                                      *)
LEMMA AdvanceStep ==
  ASSUME IInv, UNCHANGED << template, other, iri, bound, outcome >>, outcome = "none",
         i \in 1 .. Len(segments), i' = i + 1, pos' \in 0 .. Len(bound), values' \in Seq(STRING \X Text),
         \A row \in Rows :
           SplitsOneWay(segments) /\ Produces(row) /\ Agrees(row) /\ Front(row, i - 1) = SubSeq(bound, 1, pos) =>
             Agrees(row)' /\ Front(row, i) = SubSeq(bound, 1, pos'),
         \A row \in Rows :
           Fits(segments, row) /\ Agrees(row)' /\ AllCanonical' =>
             /\ Agrees(row) /\ AllCanonical
             /\ Front(row, i - 1) = SubSeq(bound, 1, pos) => Front(row, i) = SubSeq(bound, 1, pos')
  PROVE  IInv'
<1>1. /\ segments' = segments /\ SplitsOneWay(segments)' = SplitsOneWay(segments)
      /\ \A row : Fits(segments, row)' = Fits(segments, row)
      /\ \A row : Produces(row)' = Produces(row)
      /\ \A row : Front(row, i - 1)' = Front(row, i' - 1)
  BY SameParts
<1>2. Len(segments) \in Nat /\ i' - 1 = i /\ i' \in 1 .. Len(segments) + 1
  <2>1. Len(segments) \in Nat
    BY SegmentsFacts DEF IInv, Typed
  <2> QED
    BY <2>1
<1>3. \A row : Front(row, i - 1)' = Front(row, i)
  BY <1>1, <1>2
<1>4. Typed'
  BY <1>1, <1>2 DEF IInv, Typed
<1>5. Settled'
  BY DEF Settled
<1>6. KeepsAnswers'
  <2>1. ASSUME other = NULL, SplitsOneWay(segments), NEW row \in Rows, Produces(row)
        PROVE  Agrees(row)' /\ Front(row, i) = SubSeq(bound, 1, pos')
    BY <2>1 DEF IInv, KeepsAnswers
  <2>2. SubSeq(bound, 1, pos)' = SubSeq(bound, 1, pos') /\ outcome' # "never"
    OBVIOUS
  <2> QED
    BY <1>1, <1>3, <2>1, <2>2 DEF KeepsAnswers
<1>7. AddsNoAnswers'
  <2>1. ASSUME NEW row \in Rows, Fits(segments, row), Agrees(row)', AllCanonical'
        PROVE  Front(row, i) = SubSeq(bound, 1, pos')
    BY <2>1 DEF IInv, AddsNoAnswers
  <2>2. SubSeq(bound, 1, pos)' = SubSeq(bound, 1, pos')
    OBVIOUS
  <2> QED
    BY <1>1, <1>3, <2>1, <2>2 DEF AddsNoAnswers
<1> QED
  BY <1>4, <1>5, <1>6, <1>7 DEF IInv

LEMMA StepCompare == ASSUME IInv, Compare PROVE IInv'
<1> DEFINE result == IF ~CanEverMatch(template, other) THEN "pruned" ELSE IF NativelyJoined(template, other) THEN "keys" ELSE "texts"
<1>1. other # NULL /\ End(result)
  BY DEF Compare
<1>2. /\ result \in {"pruned", "keys", "texts"}
      /\ result = "pruned" => ~CanEverMatch(template, other)
      /\ result = "keys" => NativelyJoined(template, other)
  OBVIOUS
<1> HIDE DEF result
<1>3. result \in {"never", "whole", "columns", "pruned", "keys", "texts"} /\ result # "never" /\ result # "columns" /\ result # "whole"
  BY <1>2
<1> QED
  BY <1>1, <1>2, <1>3, EndStep

(* What a text made of parts begins and ends with.                         *)
LEMMA StartsWithFirst == ASSUME NEW a \in Text, NEW b \in Text PROVE StartsWith(a \o b, a)
<1>1. << >> \in Text /\ << >> \o a = a /\ Len(<< >>) = 0 /\ 0 + Len(a) = Len(a) /\ Len(a) \in Nat
  BY EmptyText, NothingAdded, LongerText
<1>2. /\ Len(<< >>) + Len(a) <= Len((<< >> \o a) \o b)
      /\ SubSeq((<< >> \o a) \o b, 1, Len(<< >>) + Len(a)) = << >> \o a
  BY <1>1, Pieces
<1> QED
  BY <1>1, <1>2 DEF StartsWith

LEMMA EndsWithLast == ASSUME NEW a \in Text, NEW b \in Text PROVE EndsWith(a \o b, b)
<1> DEFINE w == a \o b
<1>1. /\ << >> \in Text /\ w \in Text /\ w \o << >> = w
      /\ Len(a) \in Nat /\ Len(b) \in Nat /\ Len(w) = Len(a) + Len(b)
  BY EmptyText, NothingAdded, LongerText
<1>2. SubSeq((a \o b) \o << >>, Len(a) + 1, Len(a) + Len(b)) = b
  BY <1>1, Pieces
<1>3. SubSeq(w, Len(a) + 1, Len(w)) = b
  BY <1>1, <1>2
<1> HIDE DEF w
<1>4. Len(w) - Len(b) + 1 = Len(a) + 1 /\ Len(b) <= Len(w)
  BY <1>1
<1>5. EndsWith(w, b)
  BY <1>3, <1>4 DEF EndsWith
<1> QED
  BY <1>5 DEF w

(* A projected text begins and ends with the literals at its ends.         *)
LEMMA ProducedEnds ==
  ASSUME NEW segs \in Seq(Segment), segs # << >>, NEW row \in Rows, Fits(segs, row), iri \in BOOLEAN
  PROVE  /\ Len(segs) \in Nat /\ 1 \in 1 .. Len(segs) /\ Len(segs) \in 1 .. Len(segs)
         /\ ~segs[1].placeholder => StartsWith(Concat(Filled(segs, row)), segs[1].text)
         /\ ~segs[Len(segs)].placeholder => EndsWith(Concat(Filled(segs, row)), segs[Len(segs)].text)
<1> DEFINE n == Len(segs)
           f == Filled(segs, row)
<1>1. n \in Nat /\ 1 \in 1 .. n /\ n \in 1 .. n
  <2>1. n \in Nat /\ n # 0
    BY LenText, EmptySeq
  <2> QED
    BY <2>1
<1>2. ASSUME ~segs[1].placeholder PROVE StartsWith(Concat(f), segs[1].text)
  <2>1. segs[1].text \in Text /\ f[1] = segs[1].text
    BY <1>1, <1>2, FilledIsTexts
  <2>2. PICK b \in Text : Concat(f) = Concat(SubSeq(f, 1, 1)) \o b
    BY <1>1, FrontStep
  <2>3. Concat(SubSeq(f, 1, 1)) = Concat(SubSeq(f, 1, 1 - 1)) \o f[1]
    BY <1>1, FrontStep
  <2>4. Concat(SubSeq(f, 1, 0)) = << >> /\ 1 - 1 = 0
    BY FrontOfAll
  <2>5. Concat(SubSeq(f, 1, 1)) = segs[1].text
    BY <2>1, <2>3, <2>4, NothingAdded
  <2> QED
    BY <2>1, <2>2, <2>5, StartsWithFirst
<1>3. ASSUME ~segs[n].placeholder PROVE EndsWith(Concat(f), segs[n].text)
  <2>1. segs[n].text \in Text /\ f[n] = segs[n].text
    BY <1>1, <1>3, FilledIsTexts
  <2>2. Concat(f) = Concat(SubSeq(f, 1, n))
    BY <1>1, FrontStep
  <2>3. Concat(SubSeq(f, 1, n)) = Concat(SubSeq(f, 1, n - 1)) \o f[n] /\ Concat(SubSeq(f, 1, n - 1)) \in Text
    BY <1>1, FrontStep
  <2> QED
    BY <2>1, <2>2, <2>3, EndsWithLast
<1> QED
  BY <1>1, <1>2, <1>3

LEMMA StepUnsplit == ASSUME IInv, Unsplit PROVE IInv'
<1>0. /\ template \in TemplateTexts /\ iri \in BOOLEAN /\ bound \in Text /\ other = NULL
      /\ segments \in Seq(Segment)
  BY SegmentsFacts DEF IInv, Typed, Unsplit
<1>1. ASSUME segments = << >>, End(IF bound = << >> THEN "whole" ELSE "never") PROVE IInv'
  <2> DEFINE result == IF bound = << >> THEN "whole" ELSE "never"
  <2>1. End(result) /\ result \in {"whole", "never"} /\ (result = "never" => bound # << >>)
    BY <1>1
  <2> HIDE DEF result
  <2>2. ASSUME result = "never", NEW row \in Rows, Produces(row) PROVE FALSE
    <3>1. Filled(segments, row) = << >>
      BY <1>1 DEF Filled
    <3> QED
      BY <2>1, <2>2, <3>1, ConcatNothing DEF Produces
  <2>3. result \in {"never", "whole", "columns", "pruned", "keys", "texts"}
        /\ result # "pruned" /\ result # "keys" /\ result # "texts" /\ result # "columns"
    BY <2>1
  <2> QED
    BY <1>0, <2>1, <2>2, <2>3, EndStep
<1>2. ASSUME Adjacent(segments), NEW first, NEW last, first = segments[1], last = segments[Len(segments)],
             End(IF /\ first.placeholder \/ StartsWith(bound, first.text)
                    /\ last.placeholder \/ EndsWith(bound, last.text)
                   THEN "whole" ELSE "never")
      PROVE  IInv'
  <2> DEFINE anchored == /\ first.placeholder \/ StartsWith(bound, first.text)
                         /\ last.placeholder \/ EndsWith(bound, last.text)
             result == IF anchored THEN "whole" ELSE "never"
  <2>1. End(result) /\ result \in {"whole", "never"} /\ (result = "never" => ~anchored)
    BY <1>2
  <2> HIDE DEF result
  <2>2. segments # << >>
    BY <1>2 DEF Adjacent
  <2>3. ASSUME NEW row \in Rows, Produces(row) PROVE anchored
    <3>1. Fits(segments, row) /\ Concat(Filled(segments, row)) = bound
      BY <2>3 DEF Produces
    <3> QED
      BY <1>0, <1>2, <2>2, <3>1, ProducedEnds
  <2> HIDE DEF anchored
  <2>4. result \in {"never", "whole", "columns", "pruned", "keys", "texts"}
        /\ result # "pruned" /\ result # "keys" /\ result # "texts" /\ result # "columns"
    BY <2>1
  <2>5. result = "never" => \A row \in Rows : ~Produces(row)
    BY <2>1, <2>3
  <2> QED
    BY <1>0, <2>1, <2>4, <2>5, EndStep
<1> QED
  BY <1>1, <1>2 DEF Unsplit

LEMMA LoopFacts ==
  ASSUME IInv, Running, i <= Len(segments)
  PROVE  /\ template \in TemplateTexts /\ iri \in BOOLEAN /\ bound \in Text /\ other = NULL /\ outcome = "none"
         /\ segments \in Seq(Segment) /\ Len(segments) \in Nat /\ i \in 1 .. Len(segments)
         /\ pos \in 0 .. Len(bound) /\ Len(bound) \in Nat /\ values \in Seq(STRING \X Text) /\ ~Adjacent(segments)
         /\ SubSeq(bound, 1, pos) \in Text /\ Len(SubSeq(bound, 1, pos)) = pos
         /\ segments[i].placeholder => segments[i].text \in STRING
         /\ ~segments[i].placeholder => segments[i].text \in Text
<1>1. /\ template \in TemplateTexts /\ iri \in BOOLEAN /\ bound \in Text /\ other = NULL /\ outcome = "none"
      /\ pos \in 0 .. Len(bound) /\ values \in Seq(STRING \X Text) /\ ~Adjacent(segments) /\ i \in 1 .. Len(segments) + 1
  BY DEF IInv, Typed, Running
<1>2. /\ segments \in Seq(Segment) /\ Len(segments) \in Nat
      /\ \A k \in 1 .. Len(segments) : segments[k].placeholder => segments[k].text \in STRING
      /\ \A k \in 1 .. Len(segments) : ~segments[k].placeholder => segments[k].text \in Text
  BY <1>1, SegmentsFacts
<1>3. i \in 1 .. Len(segments)
  BY <1>1, <1>2
<1>4. Len(bound) \in Nat
  BY <1>1, LenText DEF Text
<1>5. 1 \in 1 .. Len(bound) + 1 /\ 1 <= pos + 1 /\ pos - 1 + 1 = pos
  BY <1>1, <1>4
<1>6. SubSeq(bound, 1, pos) \in Text /\ Len(SubSeq(bound, 1, pos)) = pos
  BY <1>1, <1>5, PieceIsText
<1> QED
  BY <1>1, <1>2, <1>3, <1>4, <1>6

(* The part of a produced term that a segment put there.                   *)
LEMMA PartPut ==
  ASSUME IInv, Running, i <= Len(segments), NEW row \in Rows, Fits(segments, row)
  PROVE  /\ Filled(segments, row)[i] \in Text /\ Len(Filled(segments, row)[i]) \in Nat
         /\ Front(row, i) = Front(row, i - 1) \o Filled(segments, row)[i]
         /\ segments[i].placeholder => /\ row[segments[i].text] \in Text
                                       /\ Filled(segments, row)[i] = Encoded(row[segments[i].text])
         /\ ~segments[i].placeholder => Filled(segments, row)[i] = segments[i].text
         /\ Produces(row) /\ Front(row, i - 1) = SubSeq(bound, 1, pos) =>
              /\ pos + Len(Filled(segments, row)[i]) <= Len(bound)
              /\ SubSeq(bound, pos + 1, pos + Len(Filled(segments, row)[i])) = Filled(segments, row)[i]
              /\ SubSeq(bound, 1, pos + Len(Filled(segments, row)[i])) = Front(row, i)
<1> DEFINE f == Filled(segments, row)
           e == f[i]
           a == SubSeq(bound, 1, pos)
<1>1. /\ segments \in Seq(Segment) /\ iri \in BOOLEAN /\ i \in 1 .. Len(segments)
      /\ a \in Text /\ Len(a) = pos
  BY LoopFacts
<1>2. /\ e \in Text /\ Front(row, i) = Front(row, i - 1) \o e
      /\ \E b \in Text : Concat(f) = Front(row, i) \o b
  BY <1>1, FrontStep DEF Front
<1>3. /\ segments[i].placeholder => row[segments[i].text] \in Text /\ e = Encoded(row[segments[i].text])
      /\ ~segments[i].placeholder => e = segments[i].text
  BY <1>1, FilledIsTexts
<1>4. Len(e) \in Nat
  BY <1>2, LongerText
<1> HIDE DEF e, a
<1>5. ASSUME Produces(row), Front(row, i - 1) = a
      PROVE  pos + Len(e) <= Len(bound) /\ SubSeq(bound, pos + 1, pos + Len(e)) = e /\ SubSeq(bound, 1, pos + Len(e)) = Front(row, i)
  <2>1. PICK b \in Text : Concat(f) = Front(row, i) \o b
    BY <1>2
  <2>2. bound = (a \o e) \o b /\ Front(row, i) = a \o e
    BY <1>2, <1>5, <2>1 DEF Produces
  <2>3. /\ Len(a) + Len(e) <= Len((a \o e) \o b)
        /\ SubSeq((a \o e) \o b, Len(a) + 1, Len(a) + Len(e)) = e
        /\ SubSeq((a \o e) \o b, 1, Len(a) + Len(e)) = a \o e
    <3>1. a \in Text /\ e \in Text /\ b \in Text
      BY <1>1, <1>2, <2>1
    <3> QED
      BY <3>1, Pieces, ZenonT(60)
  <2> QED
    BY <1>1, <2>2, <2>3
<1> QED
  BY <1>2, <1>3, <1>4, <1>5 DEF e, a

LEMMA StepReadLiteral == ASSUME IInv, ReadLiteral PROVE IInv'
<1> DEFINE d == segments[i].text
<1>1. Running /\ i <= Len(segments) /\ ~segments[i].placeholder
  BY DEF ReadLiteral
<1>2. /\ other = NULL /\ outcome = "none" /\ segments \in Seq(Segment) /\ i \in 1 .. Len(segments)
      /\ bound \in Text /\ pos \in 0 .. Len(bound) /\ Len(bound) \in Nat /\ values \in Seq(STRING \X Text) /\ d \in Text
  BY <1>1, LoopFacts
<1>3. Len(d) \in Nat
  BY <1>2, LongerText
<1>4. StartsWith(Rest, d) <=> pos + Len(d) <= Len(bound) /\ SubSeq(bound, pos + 1, pos + Len(d)) = d
  BY <1>2, RestStarts DEF Rest
<1>5. ASSUME ~StartsWith(Rest, d), End("never") PROVE IInv'
  <2>1. ASSUME SplitsOneWay(segments), NEW row \in Rows, Produces(row) PROVE FALSE
    <3>1. Fits(segments, row) /\ Front(row, i - 1) = SubSeq(bound, 1, pos)
      BY <1>2, <2>1 DEF IInv, KeepsAnswers, Produces
    <3>2. Filled(segments, row)[i] = d
      BY <1>1, <3>1, PartPut
    <3>3. pos + Len(d) <= Len(bound) /\ SubSeq(bound, pos + 1, pos + Len(d)) = d
      BY <1>1, <2>1, <3>1, <3>2, PartPut
    <3> QED
      BY <1>4, <1>5, <3>3
  <2> QED
    BY <1>2, <1>5, <2>1, EndStep
<1>6. ASSUME StartsWith(Rest, d), i' = i + 1, pos' = pos + Len(d), UNCHANGED << template, other, iri, bound, values, outcome >>
      PROVE  IInv'
  <2>1. pos + Len(d) <= Len(bound) /\ SubSeq(bound, pos + 1, pos') = d
    BY <1>4, <1>6
  <2>2. pos' \in 0 .. Len(bound) /\ pos' \in pos .. Len(bound)
    BY <1>2, <1>3, <1>6, <2>1
  <2>3. SubSeq(bound, 1, pos) \o d = SubSeq(bound, 1, pos')
    BY <1>2, <2>1, <2>2, PiecesMeet
  <2>4. ASSUME NEW row \in Rows, Fits(segments, row), Front(row, i - 1) = SubSeq(bound, 1, pos)
        PROVE  Front(row, i) = SubSeq(bound, 1, pos')
    <3>1. Front(row, i) = Front(row, i - 1) \o d
      BY <1>1, <2>4, PartPut
    <3> QED
      BY <2>3, <2>4, <3>1
  <2>5. (\A row : Agrees(row)' = Agrees(row)) /\ AllCanonical' = AllCanonical
    BY <1>6, SameValues
  <2>6. \A row \in Rows : Produces(row) => Fits(segments, row)
    BY DEF Produces
  <2>7. \A row \in Rows :
          SplitsOneWay(segments) /\ Produces(row) /\ Agrees(row) /\ Front(row, i - 1) = SubSeq(bound, 1, pos) =>
            Agrees(row)' /\ Front(row, i) = SubSeq(bound, 1, pos')
    BY <2>4, <2>5, <2>6
  <2>8. \A row \in Rows :
          Fits(segments, row) /\ Agrees(row)' /\ AllCanonical' =>
            /\ Agrees(row) /\ AllCanonical
            /\ Front(row, i - 1) = SubSeq(bound, 1, pos) => Front(row, i) = SubSeq(bound, 1, pos')
    BY <2>4, <2>5
  <2> HIDE DEF d
  <2> QED
    BY <1>2, <1>6, <2>2, <2>7, <2>8, AdvanceStep
<1> QED
  BY <1>5, <1>6 DEF ReadLiteral

(* A span is taken for a placeholder.                                      *)
LEMMA StepTake ==
  ASSUME IInv, Running, i <= Len(segments), segments[i].placeholder, NEW end \in pos .. Len(bound), TakeTo(end),
         \A row \in Rows :
           SplitsOneWay(segments) /\ Produces(row) /\ Front(row, i - 1) = SubSeq(bound, 1, pos) =>
             end = pos + Len(Filled(segments, row)[i])
  PROVE  IInv'
<1> DEFINE c == segments[i].text
           span == SubSeq(bound, pos + 1, end)
<1>1. /\ other = NULL /\ outcome = "none" /\ segments \in Seq(Segment) /\ i \in 1 .. Len(segments) /\ iri \in BOOLEAN
      /\ bound \in Text /\ pos \in 0 .. Len(bound) /\ Len(bound) \in Nat /\ values \in Seq(STRING \X Text) /\ c \in STRING
  BY LoopFacts
<1>2. /\ values' = Append(values, << c, span >>) /\ pos' = end /\ i' = i + 1
      /\ UNCHANGED << template, other, iri, bound, outcome >>
  BY DEF TakeTo
<1>3. pos + 1 \in 1 .. Len(bound) + 1 /\ end \in 0 .. Len(bound)
  BY <1>1
<1>4. span \in Text
  BY <1>1, <1>3, PieceIsText
<1>5. SubSeq(bound, 1, pos) \o span = SubSeq(bound, 1, end)
  BY <1>1, PiecesMeet
<1> HIDE DEF span, c
<1>6. /\ values' \in Seq(STRING \X Text)
      /\ \A row : Agrees(row)' <=> Agrees(row) /\ row[c] = Decoded(span)
      /\ AllCanonical' <=> AllCanonical /\ Canonical(span)
  BY <1>1, <1>2, <1>4, OneMoreValue
<1>7. ASSUME NEW row \in Rows, SplitsOneWay(segments), Produces(row), Agrees(row), Front(row, i - 1) = SubSeq(bound, 1, pos)
      PROVE  Agrees(row)' /\ Front(row, i) = SubSeq(bound, 1, pos')
  <2> DEFINE e == Filled(segments, row)[i]
  <2>1. end = pos + Len(e)
    BY <1>7
  <2>2. Fits(segments, row)
    BY <1>7 DEF Produces
  <2>3. row[c] \in Text /\ e = Encoded(row[c])
    BY <2>2, PartPut DEF c
  <2>4. SubSeq(bound, pos + 1, pos + Len(e)) = e /\ SubSeq(bound, 1, pos + Len(e)) = Front(row, i)
    BY <1>7, <2>2, PartPut
  <2> HIDE DEF e
  <2>5. span = e
    BY <2>1, <2>4 DEF span
  <2>6. Decoded(span) = row[c]
    BY <1>1, <2>3, <2>5, EncodedValues
  <2> QED
    BY <1>2, <1>6, <1>7, <2>1, <2>4, <2>6
<1>8. ASSUME NEW row \in Rows, Fits(segments, row), Agrees(row)', AllCanonical'
      PROVE  /\ Agrees(row) /\ AllCanonical
             /\ Front(row, i - 1) = SubSeq(bound, 1, pos) => Front(row, i) = SubSeq(bound, 1, pos')
  <2>1. Agrees(row) /\ AllCanonical /\ row[c] = Decoded(span) /\ Canonical(span)
    BY <1>6, <1>8
  <2>2. Front(row, i) = Front(row, i - 1) \o Filled(segments, row)[i] /\ Filled(segments, row)[i] = Encoded(row[c])
    BY <1>8, PartPut DEF c
  <2>3. Encoded(row[c]) = span
    BY <2>1 DEF Canonical
  <2> QED
    BY <1>2, <1>5, <2>1, <2>2, <2>3
<1> QED
  BY <1>1, <1>2, <1>3, <1>6, <1>7, <1>8, AdvanceStep

(* The literal after a placeholder is first found where a row put it.      *)
LEMMA DelimiterFound ==
  ASSUME IInv, Running, i < Len(segments), segments[i].placeholder, NEW row \in Rows,
         SplitsOneWay(segments), Produces(row), Front(row, i - 1) = SubSeq(bound, 1, pos)
  PROVE  Find(bound, segments[i + 1].text, pos + 1) = pos + Len(Filled(segments, row)[i]) + 1
<1> DEFINE a == SubSeq(bound, 1, pos)
           e == Filled(segments, row)[i]
           d == segments[i + 1].text
<1>1. i <= Len(segments) /\ i \in 1 .. Len(segments) - 1 /\ i + 1 \in 2 .. Len(segments) /\ (i + 1) - 1 = i /\ i + 1 \in 1 .. Len(segments)
  <2>1. i \in 1 .. Len(segments) + 1
    BY DEF IInv, Typed
  <2>2. Len(segments) \in Nat
    BY SegmentsFacts DEF IInv, Typed
  <2> QED
    BY <2>1, <2>2
<1>2. /\ segments \in Seq(Segment) /\ iri \in BOOLEAN /\ a \in Text /\ Len(a) = pos /\ ~Adjacent(segments)
      /\ bound \in Text /\ template \in TemplateTexts
  BY <1>1, LoopFacts
<1>3. Fits(segments, row)
  BY DEF Produces
<1>4. ~segments[i + 1].placeholder
  BY <1>1, <1>2 DEF Adjacent
<1>5. d \in Text /\ Filled(segments, row)[i + 1] = d
  BY <1>1, <1>2, <1>3, <1>4, FilledIsTexts
<1>6. iri /\ Marked(d)
  <2>1. Unmistakable(d)
    BY <1>1, <1>2 DEF SplitsOneWay
  <2> QED
    BY <2>1 DEF Unmistakable, Marked
<1>7. e \in Text /\ Clean(e)
  <2>1. row[segments[i].text] \in Text /\ e = Encoded(row[segments[i].text])
    BY <1>1, <1>3, PartPut
  <2> QED
    BY <1>2, <1>6, <2>1, EncodedValues
<1>8. PICK b \in Text : Concat(Filled(segments, row)) = ((Front(row, i - 1) \o e) \o Filled(segments, row)[i + 1]) \o b
  BY <1>1, <1>2, <1>3, FrontTwice DEF Front
<1>9. bound = ((a \o e) \o d) \o b
  BY <1>5, <1>8 DEF Produces
<1> HIDE DEF a, e, d
<1>10. Find(((a \o e) \o d) \o b, d, Len(a) + 1) = Len(a) + Len(e) + 1
  <2>1. a \in Text /\ e \in Text /\ d \in Text /\ b \in Text
    BY <1>2, <1>5, <1>7, <1>8
  <2>2. Clean(e) /\ Marked(d)
    BY <1>6, <1>7
  <2> QED
    BY <2>1, <2>2, FirstPlace, ZenonT(60)
<1>11. Find(bound, d, pos + 1) = pos + Len(e) + 1
  BY <1>2, <1>9, <1>10
<1> QED
  BY <1>11 DEF d, e

LEMMA StepReadPlaceholder == ASSUME IInv, ReadPlaceholder PROVE IInv'
<1>1. Running /\ i <= Len(segments) /\ segments[i].placeholder
  BY DEF ReadPlaceholder
<1>2. /\ other = NULL /\ outcome = "none" /\ segments \in Seq(Segment) /\ i \in 1 .. Len(segments) /\ iri \in BOOLEAN
      /\ bound \in Text /\ pos \in 0 .. Len(bound) /\ Len(bound) \in Nat /\ Len(segments) \in Nat /\ ~Adjacent(segments)
      /\ template \in TemplateTexts
  BY <1>1, LoopFacts
<1>3. \A row \in Rows : Produces(row) => Fits(segments, row)
  BY DEF Produces
<1>4. ASSUME i = Len(segments), TakeTo(Len(bound)) PROVE IInv'
  <2>1. Len(bound) \in pos .. Len(bound)
    BY <1>2
  <2>2. ASSUME NEW row \in Rows, Produces(row), Front(row, i - 1) = SubSeq(bound, 1, pos)
        PROVE  Len(bound) = pos + Len(Filled(segments, row)[i])
    <3> DEFINE e == Filled(segments, row)[i]
               a == SubSeq(bound, 1, pos)
    <3>1. Fits(segments, row)
      BY <1>3, <2>2
    <3>2. Concat(Filled(segments, row)) = Front(row, i)
      BY <1>2, <1>4, <3>1, FrontStep DEF Front
    <3>3. Front(row, i) = Front(row, i - 1) \o e /\ e \in Text
      BY <1>1, <3>1, PartPut
    <3>4. a \in Text /\ Len(a) = pos
      BY <1>1, LoopFacts
    <3>5. bound = a \o e
      BY <2>2, <3>2, <3>3 DEF Produces
    <3> HIDE DEF a, e
    <3>6. Len(a \o e) = Len(a) + Len(e)
      BY <3>3, <3>4, LongerText
    <3>7. Len(bound) = pos + Len(e)
      BY <3>4, <3>5, <3>6
    <3> QED
      BY <3>7 DEF e
  <2> QED
    BY <1>1, <1>4, <2>1, <2>2, StepTake
<1>5. ASSUME i # Len(segments), NEW at, at = Find(bound, segments[i + 1].text, pos + 1),
             IF at = 0 THEN End("never") ELSE TakeTo(at - 1)
      PROVE  IInv'
  <2>1. i < Len(segments) /\ i + 1 \in 1 .. Len(segments) /\ i \in 1 .. Len(segments) - 1
    BY <1>2, <1>5
  <2>2. ASSUME NEW row \in Rows, SplitsOneWay(segments), Produces(row), Front(row, i - 1) = SubSeq(bound, 1, pos)
        PROVE  at = pos + Len(Filled(segments, row)[i]) + 1 /\ Len(Filled(segments, row)[i]) \in Nat
    <3>1. at = pos + Len(Filled(segments, row)[i]) + 1
      BY <1>1, <1>5, <2>1, <2>2, DelimiterFound
    <3>2. Len(Filled(segments, row)[i]) \in Nat
      BY <1>1, <1>3, <2>2, PartPut
    <3> QED
      BY <3>1, <3>2
  <2>3. CASE at = 0
    <3>1. ASSUME SplitsOneWay(segments), NEW row \in Rows, Produces(row) PROVE FALSE
      <4>1. Front(row, i - 1) = SubSeq(bound, 1, pos)
        BY <1>2, <3>1 DEF IInv, KeepsAnswers
      <4>2. at = pos + Len(Filled(segments, row)[i]) + 1 /\ Len(Filled(segments, row)[i]) \in Nat
        BY <2>2, <3>1, <4>1
      <4> QED
        BY <1>2, <2>3, <4>2
    <3> QED
      BY <1>2, <1>5, <2>3, <3>1, EndStep
  <2>4. CASE at # 0
    <3>1. ~segments[i + 1].placeholder
      BY <1>1, <1>2, <2>1 DEF Adjacent
    <3>2. segments[i + 1].text \in Text
      BY <1>2, <2>1, <3>1, SegmentsFacts
    <3>3. Len(segments[i + 1].text) \in Nat
      BY <3>2, LongerText
    <3>4. pos + 1 \in Nat \ {0}
      BY <1>2
    <3>5. at \in pos + 1 .. Len(bound) - Len(segments[i + 1].text) + 1
      BY <1>2, <1>5, <2>4, <3>3, <3>4, FindRange
    <3>6. at \in Nat /\ pos + 1 <= at /\ at <= Len(bound) + 1
      BY <1>2, <3>3, <3>5
    <3>7. at - 1 \in pos .. Len(bound)
      BY <1>2, <3>6
    <3>8. ASSUME NEW row \in Rows, SplitsOneWay(segments), Produces(row), Front(row, i - 1) = SubSeq(bound, 1, pos)
          PROVE  at - 1 = pos + Len(Filled(segments, row)[i])
      <4>1. at = pos + Len(Filled(segments, row)[i]) + 1 /\ Len(Filled(segments, row)[i]) \in Nat
        BY <2>2, <3>8
      <4> QED
        BY <1>2, <4>1
    <3>9. TakeTo(at - 1)
      BY <1>5, <2>4
    <3> QED
      BY <1>1, <3>7, <3>8, <3>9, StepTake
  <2> QED
    BY <2>3, <2>4
<1> QED
  BY <1>4, <1>5 DEF ReadPlaceholder

LEMMA StepFinish == ASSUME IInv, Finish PROVE IInv'
<1> DEFINE result == IF pos = Len(bound) THEN "columns" ELSE "never"
<1>1. Running /\ i > Len(segments) /\ End(result)
  BY DEF Finish
<1>2. result \in {"columns", "never"} /\ (result = "columns" => pos = Len(bound)) /\ (result = "never" => pos # Len(bound))
  OBVIOUS
<1> HIDE DEF result
<1>3. /\ template \in TemplateTexts /\ iri \in BOOLEAN /\ bound \in Text /\ other = NULL /\ segments \in Seq(Segment)
      /\ i = Len(segments) + 1 /\ Len(segments) \in Nat /\ pos \in 0 .. Len(bound) /\ Len(bound) \in Nat
  <2>1. template \in TemplateTexts /\ iri \in BOOLEAN /\ bound \in Text /\ other = NULL
        /\ i \in 1 .. Len(segments) + 1 /\ pos \in 0 .. Len(bound)
    BY <1>1 DEF IInv, Typed, Running
  <2>2. segments \in Seq(Segment) /\ Len(segments) \in Nat
    BY <2>1, SegmentsFacts
  <2>3. Len(bound) \in Nat
    BY <2>1, LenText DEF Text
  <2> QED
    BY <1>1, <2>1, <2>2, <2>3
<1>4. ASSUME result = "never", SplitsOneWay(segments), NEW row \in Rows, Produces(row) PROVE FALSE
  <2>1. Fits(segments, row) /\ Concat(Filled(segments, row)) = bound
    BY <1>4 DEF Produces
  <2>2. Front(row, i - 1) = SubSeq(bound, 1, pos) /\ i - 1 = Len(segments)
    BY <1>3, <1>4 DEF IInv, KeepsAnswers
  <2>3. Front(row, Len(segments)) = bound
    BY <1>3, <2>1, FrontOfAll DEF Front
  <2>4. Len(SubSeq(bound, 1, pos)) = pos
    <3>1. 1 \in 1 .. Len(bound) + 1 /\ 1 <= pos + 1 /\ pos - 1 + 1 = pos
      BY <1>3
    <3> QED
      BY <1>3, <3>1, PieceIsText
  <2> QED
    BY <1>2, <1>4, <2>2, <2>3, <2>4
<1>5. result \in {"never", "whole", "columns", "pruned", "keys", "texts"} /\ result # "pruned" /\ result # "keys" /\ result # "texts"
  BY <1>2
<1> QED
  BY <1>1, <1>2, <1>3, <1>4, <1>5, EndStep

LEMMA StepIInv == ASSUME IInv, [Next]_vars PROVE IInv'
<1>1. ASSUME UNCHANGED vars PROVE IInv'
  <2>1. /\ template' = template /\ iri' = iri /\ other' = other /\ bound' = bound /\ i' = i /\ pos' = pos
        /\ values' = values /\ outcome' = outcome /\ segments' = segments
    BY <1>1 DEF vars, segments
  <2>2. Typed' /\ Settled'
    BY <2>1 DEF IInv, Typed, Settled
  <2>3. KeepsAnswers'
    BY <2>1 DEF IInv, KeepsAnswers, SplitsOneWay, Adjacent, Unmistakable, Produces, Fits, Filled, Front, Agrees,
                AllCanonical, Canonical, Encoded, Decoded
  <2>4. AddsNoAnswers'
    BY <2>1 DEF IInv, AddsNoAnswers, SplitsOneWay, Adjacent, Unmistakable, Produces, Fits, Filled, Front, Agrees,
                AllCanonical, Canonical, Encoded, Decoded
  <2> QED
    BY <2>2, <2>3, <2>4 DEF IInv
<1>2. CASE Next
  BY <1>2, StepCompare, StepUnsplit, StepReadLiteral, StepReadPlaceholder, StepFinish DEF Next
<1> QED
  BY <1>1, <1>2

(* The loop keeps its state in these bounds: the place in the given term,  *)
(* the segment, and the pairs of a column and its span.                    *)
THEOREM TypeCorrect == Spec => []Typed
<1>1. IInv => Typed
  BY DEF IInv
<1> QED
  BY <1>1, InitIInv, StepIInv, PTL DEF Spec

-----------------------------------------------------------------------------
(* A row that makes the given term is one that produces it.                *)
LEMMA MakesAndProduces ==
  ASSUME IInv, NEW row \in Rows
  PROVE  /\ Expand(template, row) = Projection(segments, row)
         /\ Projection(segments, row) = bound <=> Produces(row)
         /\ Fits(segments, row) <=> \A c \in ReferencedColumns(segments) : row[c] # NULL
<1>1. template \in TemplateTexts /\ iri \in BOOLEAN /\ bound \in Text /\ bound # NULL
  <2>1. template \in TemplateTexts /\ iri \in BOOLEAN /\ bound \in Text
    BY DEF IInv, Typed
  <2> QED
    BY <2>1, TextsAssumption DEF Text
<1>2. /\ ReferencedColumns(segments) \subseteq Columns
      /\ Projection(segments, row) = IF Fits(segments, row) THEN Concat(Filled(segments, row)) ELSE NULL
      /\ Expand(template, row) = Projection(segments, row)
  BY <1>1, ExpandIsProjection DEF segments
<1>3. Projection(segments, row) = bound <=> Produces(row)
  BY <1>1, <1>2 DEF Produces
<1>4. Fits(segments, row) <=> \A c \in ReferencedColumns(segments) : row[c] # NULL
  BY <1>2 DEF Fits
<1> QED
  BY <1>2, <1>3, <1>4

LEMMA RightFromIInv == IInv => InversionIsRight
<1> SUFFICES ASSUME IInv PROVE NoAnswerLost /\ NoAnswerInvented
  BY DEF InversionIsRight
<1>1. NoAnswerLost
  <2>1. ASSUME other = NULL, SplitsOneWay(segments), NEW row \in Rows, Expand(template, row) = bound
        PROVE  Agrees(row) /\ (outcome # "none" => Admits(row))
    <3>1. Produces(row) /\ Projection(segments, row) = bound /\ \A c \in ReferencedColumns(segments) : row[c] # NULL
      <4>1. Produces(row) /\ Projection(segments, row) = bound
        BY <2>1, MakesAndProduces
      <4>2. Fits(segments, row)
        BY <4>1 DEF Produces
      <4> QED
        BY <4>1, <4>2, MakesAndProduces
    <3>2. Agrees(row) /\ outcome # "never"
      BY <2>1, <3>1 DEF IInv, KeepsAnswers
    <3>3. outcome \in {"none", "never", "whole", "columns"}
      BY <2>1 DEF IInv, Typed, Settled
    <3> QED
      BY <3>1, <3>2, <3>3 DEF Admits
  <2> QED
    BY <2>1 DEF NoAnswerLost
<1>2. NoAnswerInvented
  <2>1. ASSUME NEW row \in Rows, Admits(row), AllCanonical PROVE Expand(template, row) = bound
    <3>1. Fits(segments, row)
      BY <2>1, MakesAndProduces DEF Admits
    <3>2. CASE outcome = "whole"
      BY <2>1, <3>2, MakesAndProduces DEF Admits
    <3>3. CASE outcome = "columns" /\ Agrees(row)
      <4>1. /\ template \in TemplateTexts /\ iri \in BOOLEAN /\ bound \in Text /\ segments \in Seq(Segment) /\ Len(segments) \in Nat
            /\ i = Len(segments) + 1 /\ pos = Len(bound)
        BY <3>3, SegmentsFacts DEF IInv, Typed, Settled
      <4>2. Front(row, i - 1) = SubSeq(bound, 1, pos)
        BY <2>1, <3>1, <3>3 DEF IInv, AddsNoAnswers
      <4>3. i - 1 = Len(segments) /\ SubSeq(bound, 1, pos) = bound
        BY <4>1, SubSeqFull DEF Text
      <4>4. Front(row, Len(segments)) = Concat(Filled(segments, row))
        BY <3>1, <4>1, FrontOfAll DEF Front
      <4>5. Produces(row)
        BY <3>1, <4>2, <4>3, <4>4 DEF Produces
      <4> QED
        BY <4>5, MakesAndProduces
    <3> QED
      BY <2>1, <3>2, <3>3 DEF Admits
  <2> QED
    BY <2>1 DEF NoAnswerInvented, AllCanonical
<1> QED
  BY <1>1, <1>2

(* Taking a term apart finds the rows that produce it, at every step and   *)
(* at the end, if no value can hold a delimiter, and no others, if every   *)
(* span is one that the encoder writes (TemplateUtil.h:50).                *)
THEOREM InversionRight == Spec => []InversionIsRight
<1> QED
  BY InitIInv, StepIInv, RightFromIInv, PTL DEF Spec

-----------------------------------------------------------------------------
(* Two texts that one text begins with, or ends with, are compatible.      *)
LEMMA PieceOfPiece ==
  ASSUME NEW x \in Text, NEW m \in 1 .. Len(x) + 1, NEW n \in 0 .. Len(x), m <= n + 1,
         NEW j \in Nat \ {0}, NEW l \in Nat, l <= n - m + 1, j <= l + 1
  PROVE  SubSeq(SubSeq(x, m, n), j, l) = SubSeq(x, m + j - 1, m + l - 1)
<1>1. Len(x) \in Nat
  BY LenText DEF Text
<1>2. CASE j = l + 1
  <2>1. m + j - 1 \in Int /\ m + l - 1 \in Int /\ m + l - 1 < m + j - 1 /\ l < j /\ j \in Int /\ l \in Int
    BY <1>1, <1>2
  <2>2. SubSeq(SubSeq(x, m, n), j, l) = << >>
    BY <2>1, SubSeqEmpty
  <2>3. SubSeq(x, m + j - 1, m + l - 1) = << >>
    BY <2>1, SubSeqEmpty
  <2> QED
    BY <2>2, <2>3
<1>3. CASE j # l + 1
  <2>1. m \in 1 .. Len(x) /\ n \in 1 .. Len(x) /\ j \in 1 .. n - m + 1 /\ l \in 1 .. n - m + 1
    BY <1>1, <1>3
  <2> QED
    BY <2>1, SubSeqOfSubSeq DEF Text
<1> QED
  BY <1>2, <1>3

LEMMA ShorterStart ==
  ASSUME NEW x \in Text, NEW p \in Text, NEW q \in Text, StartsWith(x, p), StartsWith(x, q), Len(p) <= Len(q)
  PROVE  SubSeq(p, 1, Len(p)) = SubSeq(q, 1, Len(p))
<1>1. Len(x) \in Nat /\ Len(p) \in Nat /\ Len(q) \in Nat /\ Len(q) <= Len(x) /\ SubSeq(x, 1, Len(p)) = p /\ SubSeq(x, 1, Len(q)) = q
  BY LenText DEF StartsWith, Text
<1>2. /\ 1 \in 1 .. Len(x) + 1 /\ Len(q) \in 0 .. Len(x) /\ 1 <= Len(q) + 1 /\ 1 \in Nat \ {0}
      /\ Len(p) <= Len(q) - 1 + 1 /\ 1 <= Len(p) + 1 /\ 1 + 1 - 1 = 1 /\ 1 + Len(p) - 1 = Len(p)
  BY <1>1
<1>3. SubSeq(SubSeq(x, 1, Len(q)), 1, Len(p)) = SubSeq(x, 1 + 1 - 1, 1 + Len(p) - 1)
  BY <1>1, <1>2, PieceOfPiece
<1>4. SubSeq(p, 1, Len(p)) = p
  BY SubSeqFull DEF Text
<1> QED
  BY <1>1, <1>2, <1>3, <1>4

LEMMA StartsAreCompatible ==
  ASSUME NEW x \in Text, NEW p \in Text, NEW q \in Text, StartsWith(x, p), StartsWith(x, q)
  PROVE  PrefixesCompatible(p, q)
<1>1. Len(p) \in Nat /\ Len(q) \in Nat
  BY LenText DEF Text
<1>2. CASE Len(p) <= Len(q)
  BY <1>2, ShorterStart DEF PrefixesCompatible, Shorter
<1>3. CASE ~(Len(p) <= Len(q))
  <2>1. Len(q) <= Len(p)
    BY <1>1, <1>3
  <2>2. SubSeq(q, 1, Len(q)) = SubSeq(p, 1, Len(q))
    BY <2>1, ShorterStart
  <2> QED
    BY <1>3, <2>2 DEF PrefixesCompatible, Shorter
<1> QED
  BY <1>2, <1>3

LEMMA ShorterEnd ==
  ASSUME NEW x \in Text, NEW p \in Text, NEW q \in Text, EndsWith(x, p), EndsWith(x, q), Len(p) <= Len(q)
  PROVE  EndsWith(q, p)
<1>1. /\ Len(x) \in Nat /\ Len(p) \in Nat /\ Len(q) \in Nat /\ Len(q) <= Len(x)
      /\ SubSeq(x, Len(x) - Len(p) + 1, Len(x)) = p /\ SubSeq(x, Len(x) - Len(q) + 1, Len(x)) = q
  BY LenText DEF EndsWith, Text
<1> DEFINE m == Len(x) - Len(q) + 1
           j == Len(q) - Len(p) + 1
<1>2. /\ m \in 1 .. Len(x) + 1 /\ Len(x) \in 0 .. Len(x) /\ m <= Len(x) + 1 /\ j \in Nat \ {0}
      /\ Len(q) <= Len(x) - m + 1 /\ j <= Len(q) + 1 /\ m + j - 1 = Len(x) - Len(p) + 1 /\ m + Len(q) - 1 = Len(x)
  BY <1>1
<1> HIDE DEF m, j
<1>3. SubSeq(SubSeq(x, m, Len(x)), j, Len(q)) = SubSeq(x, m + j - 1, m + Len(q) - 1)
  BY <1>1, <1>2, PieceOfPiece
<1>4. SubSeq(q, j, Len(q)) = p
  BY <1>1, <1>2, <1>3 DEF m
<1> QED
  BY <1>4 DEF EndsWith, j

LEMMA EndsAreCompatible ==
  ASSUME NEW x \in Text, NEW p \in Text, NEW q \in Text, EndsWith(x, p), EndsWith(x, q)
  PROVE  SuffixesCompatible(p, q)
<1>1. Len(p) \in Nat /\ Len(q) \in Nat
  BY LenText DEF Text
<1>2. Len(p) <= Len(q) \/ Len(q) <= Len(p)
  BY <1>1
<1> QED
  BY <1>2, ShorterEnd DEF SuffixesCompatible

(* What a text that a template stands for begins and ends with.            *)
LEMMA TermEnds ==
  ASSUME NEW t \in TemplateTexts, NEW x \in Terms(t), iri \in BOOLEAN, NEW segs, segs = ParseTemplate(t), segs # << >>
  PROVE  /\ x \in Text
         /\ ~segs[1].placeholder => segs[1].text \in Text /\ StartsWith(x, segs[1].text)
         /\ ~segs[Len(segs)].placeholder => segs[Len(segs)].text \in Text /\ EndsWith(x, segs[Len(segs)].text)
<1>1. PICK row \in Rows : x = Expand(t, row) /\ x # NULL
  BY DEF Terms
<1>2. /\ segs \in Seq(Segment)
      /\ Expand(t, row) = IF Fits(segs, row) THEN Concat(Filled(segs, row)) ELSE NULL
  BY ExpandIsProjection
<1>3. Fits(segs, row) /\ x = Concat(Filled(segs, row))
  BY <1>1, <1>2
<1>4. x \in Text
  BY <1>2, <1>3, FrontOfAll
<1>5. /\ 1 \in 1 .. Len(segs) /\ Len(segs) \in 1 .. Len(segs)
      /\ ~segs[1].placeholder => StartsWith(x, segs[1].text)
      /\ ~segs[Len(segs)].placeholder => EndsWith(x, segs[Len(segs)].text)
  BY <1>2, <1>3, ProducedEnds
<1>6. \A k \in 1 .. Len(segs) : ~segs[k].placeholder => segs[k].text \in Text
  BY <1>2, <1>3, FilledIsTexts
<1> QED
  BY <1>4, <1>5, <1>6

LEMMA PrunedNeverMeet ==
  ASSUME NEW t \in TemplateTexts, NEW u \in TemplateTexts, iri \in BOOLEAN,
         ~CanEverMatch(t, u), ~CutOff(t), ~CutOff(u), NEW x \in Terms(t), x \in Terms(u)
  PROVE  FALSE
<1> DEFINE a == ParseTemplate(t)
           b == ParseTemplate(u)
<1>1. /\ t # u /\ a # << >> /\ b # << >>
      /\ \/ LiteralOnly(a) /\ LiteralOnly(b)
         \/ ~a[1].placeholder /\ ~b[1].placeholder /\ ~PrefixesCompatible(a[1].text, b[1].text)
         \/ ~a[Len(a)].placeholder /\ ~b[Len(b)].placeholder /\ ~SuffixesCompatible(a[Len(a)].text, b[Len(b)].text)
  BY DEF CanEverMatch
<1>2. /\ x \in Text
      /\ ~a[1].placeholder => a[1].text \in Text /\ StartsWith(x, a[1].text)
      /\ ~a[Len(a)].placeholder => a[Len(a)].text \in Text /\ EndsWith(x, a[Len(a)].text)
  BY <1>1, TermEnds
<1>3. /\ ~b[1].placeholder => b[1].text \in Text /\ StartsWith(x, b[1].text)
      /\ ~b[Len(b)].placeholder => b[Len(b)].text \in Text /\ EndsWith(x, b[Len(b)].text)
  BY <1>1, TermEnds
<1>4. ASSUME LiteralOnly(a), LiteralOnly(b) PROVE FALSE
  <2>1. PICK r1 \in Rows : x = Expand(t, r1)
    BY DEF Terms
  <2>2. PICK r2 \in Rows : x = Expand(u, r2)
    BY DEF Terms
  <2>3. x = t
    BY <1>4, <2>1, LiteralStandsForItself
  <2>4. x = u
    BY <1>4, <2>2, LiteralStandsForItself
  <2> QED
    BY <1>1, <2>3, <2>4
<1> HIDE DEF a, b
<1>5. ASSUME ~a[1].placeholder, ~b[1].placeholder PROVE PrefixesCompatible(a[1].text, b[1].text)
  BY <1>2, <1>3, <1>5, StartsAreCompatible
<1>6. ASSUME ~a[Len(a)].placeholder, ~b[Len(b)].placeholder PROVE SuffixesCompatible(a[Len(a)].text, b[Len(b)].text)
  BY <1>2, <1>3, <1>6, EndsAreCompatible
<1> QED
  BY <1>1, <1>4, <1>5, <1>6

(* An arm of a union is pruned only if no term of its template is one of   *)
(* the other's, unless one is cut off at a brace (TemplateUtil.h:96).      *)
THEOREM PruningSound == Spec => []PruningIsSound
<1>1. IInv => PruningIsSound
  <2> SUFFICES ASSUME IInv, outcome = "pruned", ~CutOff(template), ~CutOff(other)
               PROVE  Terms(template) \cap Terms(other) = {}
    BY DEF PruningIsSound
  <2>1. template \in TemplateTexts /\ other \in TemplateTexts /\ iri \in BOOLEAN /\ ~CanEverMatch(template, other)
    BY DEF IInv, Typed, Settled
  <2> QED
    BY <2>1, PrunedNeverMeet
<1> QED
  BY <1>1, InitIInv, StepIInv, PTL DEF Spec

-----------------------------------------------------------------------------
LEMMA SameBefore ==
  ASSUME NEW x \in Text, NEW a \in Text, NEW b \in Text
  PROVE  x \o a = x \o b => a = b
<1> SUFFICES ASSUME x \o a = x \o b PROVE a = b
  OBVIOUS
<1>1. (x \o a) \o << >> = x \o a /\ (x \o b) \o << >> = x \o b
  BY LongerText, NothingAdded
<1>2. Len(x \o a) = Len(x) + Len(a) /\ Len(x \o b) = Len(x) + Len(b) /\ Len(x) \in Nat /\ Len(a) \in Nat /\ Len(b) \in Nat
  BY LongerText
<1>3. Len(a) = Len(b)
  BY <1>2
<1>4. SubSeq((x \o a) \o << >>, Len(x) + 1, Len(x) + Len(a)) = a
  BY EmptyText, Pieces, ZenonT(60)
<1>5. SubSeq((x \o b) \o << >>, Len(x) + 1, Len(x) + Len(b)) = b
  BY EmptyText, Pieces, ZenonT(60)
<1> QED
  BY <1>1, <1>3, <1>4, <1>5

(* A text split at an unmistakable delimiter is split in one way.          *)
LEMMA SplitAt ==
  ASSUME NEW x \in Text, NEW e \in Text, NEW d \in Text, NEW p \in Text, Clean(e), Marked(d)
  PROVE  e = SubSeq(((x \o e) \o d) \o p, Len(x) + 1, Find(((x \o e) \o d) \o p, d, Len(x) + 1) - 1)
<1> DEFINE w == ((x \o e) \o d) \o p
<1>1. Find(w, d, Len(x) + 1) = Len(x) + Len(e) + 1
  BY FirstPlace, ZenonT(60)
<1>2. Len(x) \in Nat /\ Len(e) \in Nat
  BY LongerText
<1>3. d \o p \in Text
  BY LongerText
<1>4. x \o e \in Text
  BY LongerText
<1>5. w = (x \o e) \o (d \o p)
  BY <1>4, TextsAssociate
<1>6. SubSeq((x \o e) \o (d \o p), Len(x) + 1, Len(x) + Len(e)) = e
  BY <1>3, Pieces
<1> HIDE DEF w
<1>7. Find(w, d, Len(x) + 1) - 1 = Len(x) + Len(e)
  BY <1>1, <1>2
<1>8. e = SubSeq(w, Len(x) + 1, Find(w, d, Len(x) + 1) - 1)
  BY <1>5, <1>6, <1>7
<1> QED
  BY <1>8 DEF w

LEMMA SplitOnce ==
  ASSUME NEW x \in Text, NEW e \in Text, NEW f \in Text, NEW d \in Text, NEW p \in Text, NEW q \in Text,
         Clean(e), Clean(f), Marked(d)
  PROVE  ((x \o e) \o d) \o p = ((x \o f) \o d) \o q => e = f
<1>1. e = SubSeq(((x \o e) \o d) \o p, Len(x) + 1, Find(((x \o e) \o d) \o p, d, Len(x) + 1) - 1)
  BY SplitAt, Zenon
<1>2. f = SubSeq(((x \o f) \o d) \o q, Len(x) + 1, Find(((x \o f) \o d) \o q, d, Len(x) + 1) - 1)
  BY SplitAt, Zenon
<1> QED
  BY <1>1, <1>2, Zenon

LEMMA SameBounds == ASSUME NEW m \in Nat, NEW n \in Nat, 1 .. m = 1 .. n PROVE m = n
<1>1. \A k \in Nat : k \in 1 .. m <=> k \in 1 .. n
  OBVIOUS
<1>2. ASSUME m # n PROVE FALSE
  <2>1. CASE m > n
    BY <1>1, <2>1, m \in 1 .. m, m \notin 1 .. n
  <2>2. CASE n > m
    BY <1>1, <2>2, n \in 1 .. n, n \notin 1 .. m
  <2> QED
    BY <1>2, <2>1, <2>2
<1> QED
  BY <1>2

(* Two templates of one shape.                                             *)
Shaped(a, b) == a \in Seq(Segment) /\ b \in Seq(Segment) /\ SameLiterals(a, b)

LEMMA ShapedFacts ==
  ASSUME NEW a, NEW b, Shaped(a, b), NEW r1 \in Rows, NEW r2 \in Rows, Fits(a, r1), Fits(b, r2), iri \in BOOLEAN
  PROVE  /\ Len(a) \in Nat /\ Len(b) = Len(a) /\ DOMAIN a = 1 .. Len(a)
         /\ Filled(a, r1) \in Seq(Text) /\ Len(Filled(a, r1)) = Len(a)
         /\ Filled(b, r2) \in Seq(Text) /\ Len(Filled(b, r2)) = Len(a)
         /\ \A k \in 1 .. Len(a) :
              /\ ~a[k].placeholder => /\ Filled(a, r1)[k] = Filled(b, r2)[k]
                                      /\ Filled(a, r1)[k] = a[k].text
                                      /\ a[k].text \in Text
              /\ a[k].placeholder => /\ r1[a[k].text] \in Text /\ Filled(a, r1)[k] = Encoded(r1[a[k].text])
                                     /\ r2[b[k].text] \in Text /\ Filled(b, r2)[k] = Encoded(r2[b[k].text])
<1>1. Len(a) \in Nat /\ Len(b) \in Nat /\ DOMAIN a = 1 .. Len(a) /\ DOMAIN b = 1 .. Len(b)
  BY LenText DEF Shaped
<1>2. DOMAIN a = DOMAIN b /\ \A k \in DOMAIN a : a[k].placeholder = b[k].placeholder /\ (~a[k].placeholder => a[k].text = b[k].text)
  BY DEF Shaped, SameLiterals
<1>3. Len(b) = Len(a)
  <2>1. 1 .. Len(a) = 1 .. Len(b)
    BY <1>1, <1>2
  <2> QED
    BY <1>1, <2>1, SameBounds
<1>4. /\ Filled(a, r1) \in Seq(Text) /\ Len(Filled(a, r1)) = Len(a)
      /\ \A k \in 1 .. Len(a) :
              /\ a[k].placeholder => r1[a[k].text] \in Text /\ Filled(a, r1)[k] = Encoded(r1[a[k].text])
              /\ ~a[k].placeholder => a[k].text \in Text /\ Filled(a, r1)[k] = a[k].text
  BY FilledIsTexts DEF Shaped
<1>5. /\ Filled(b, r2) \in Seq(Text) /\ Len(Filled(b, r2)) = Len(b)
      /\ \A k \in 1 .. Len(b) :
              /\ b[k].placeholder => r2[b[k].text] \in Text /\ Filled(b, r2)[k] = Encoded(r2[b[k].text])
              /\ ~b[k].placeholder => b[k].text \in Text /\ Filled(b, r2)[k] = b[k].text
  BY FilledIsTexts DEF Shaped
<1>6. ASSUME NEW k \in 1 .. Len(a), ~a[k].placeholder
      PROVE  Filled(a, r1)[k] = Filled(b, r2)[k] /\ Filled(a, r1)[k] = a[k].text /\ a[k].text \in Text
  BY <1>1, <1>2, <1>3, <1>4, <1>5, <1>6
<1>7. ASSUME NEW k \in 1 .. Len(a), a[k].placeholder
      PROVE  /\ r1[a[k].text] \in Text /\ Filled(a, r1)[k] = Encoded(r1[a[k].text])
             /\ r2[b[k].text] \in Text /\ Filled(b, r2)[k] = Encoded(r2[b[k].text])
  BY <1>1, <1>2, <1>3, <1>4, <1>5, <1>7
<1> QED
  BY <1>1, <1>3, <1>4, <1>5, <1>6, <1>7

LEMMA SameValuesSameText ==
  ASSUME NEW a, NEW b, Shaped(a, b), NEW r1 \in Rows, NEW r2 \in Rows, Fits(a, r1), Fits(b, r2), iri \in BOOLEAN,
         \A k \in Placeholders(a) : r1[a[k].text] = r2[b[k].text]
  PROVE  Concat(Filled(a, r1)) = Concat(Filled(b, r2))
<1> DEFINE f == Filled(a, r1)
           g == Filled(b, r2)
<1>1. Len(a) \in Nat /\ DOMAIN a = 1 .. Len(a) /\ f \in Seq(Text) /\ g \in Seq(Text) /\ Len(f) = Len(a) /\ Len(g) = Len(a)
  BY ShapedFacts
<1>2. ASSUME NEW k \in 1 .. Len(a) PROVE f[k] = g[k]
  <2>1. CASE a[k].placeholder
    <3>1. k \in Placeholders(a)
      BY <1>1, <2>1 DEF Placeholders
    <3>2. f[k] = Encoded(r1[a[k].text]) /\ g[k] = Encoded(r2[b[k].text])
      BY <2>1, ShapedFacts
    <3> QED
      BY <3>1, <3>2
  <2>2. CASE ~a[k].placeholder
    BY <2>2, ShapedFacts
  <2> QED
    BY <2>1, <2>2
<1> HIDE DEF f, g
<1>3. f = g
  BY <1>1, <1>2, SeqEqual
<1> QED
  BY <1>3 DEF f, g

LEMMA SameTextSameValues ==
  ASSUME NEW a, NEW b, Shaped(a, b), NEW r1 \in Rows, NEW r2 \in Rows, Fits(a, r1), Fits(b, r2), iri \in BOOLEAN,
         ~Adjacent(a), SplitsOneWay(a), Concat(Filled(a, r1)) = Concat(Filled(b, r2))
  PROVE  \A k \in Placeholders(a) : r1[a[k].text] = r2[b[k].text]
<1> DEFINE f == Filled(a, r1)
           g == Filled(b, r2)
           n == Len(a)
           G == { k \in 0 .. n : Concat(SubSeq(f, 1, k)) = Concat(SubSeq(g, 1, k)) }
<1>1. /\ a \in Seq(Segment) /\ b \in Seq(Segment) /\ n \in Nat /\ Len(b) = n /\ DOMAIN a = 1 .. n
  BY ShapedFacts DEF Shaped
<1>2. ASSUME NEW k \in 1 .. n, k - 1 \in G PROVE k \in G /\ f[k] = g[k]
  <2> DEFINE x == Concat(SubSeq(f, 1, k - 1))
  <2>1. /\ f[k] \in Text /\ x \in Text
        /\ Concat(SubSeq(f, 1, k)) = x \o f[k]
        /\ k = n => Concat(f) = Concat(SubSeq(f, 1, k))
    BY <1>1, FrontStep
  <2>2. /\ g[k] \in Text /\ x = Concat(SubSeq(g, 1, k - 1))
        /\ Concat(SubSeq(g, 1, k)) = x \o g[k]
        /\ k = n => Concat(g) = Concat(SubSeq(g, 1, k))
    <3>1. x = Concat(SubSeq(g, 1, k - 1))
      BY <1>2
    <3>2. k \in 1 .. Len(b)
      BY <1>1
    <3>3. /\ g[k] \in Text
          /\ Concat(SubSeq(g, 1, k)) = Concat(SubSeq(g, 1, k - 1)) \o g[k]
          /\ k = Len(b) => Concat(g) = Concat(SubSeq(g, 1, k))
      BY <1>1, <3>2, FrontStep
    <3> QED
      BY <1>1, <3>1, <3>3
  <2>3. k \in 0 .. n
    BY <1>1
  <2>4. f[k] = g[k]
    <3>1. CASE ~a[k].placeholder
      BY <3>1, ShapedFacts
    <3>2. CASE k = n
      <4>1. x \o f[k] = x \o g[k]
        BY <2>1, <2>2, <3>2
      <4> HIDE DEF x, f, g
      <4> QED
        BY <2>1, <2>2, <4>1, SameBefore
    <3>3. CASE a[k].placeholder /\ k # n
      <4> DEFINE d == a[k + 1].text
      <4>1. k \in 1 .. n - 1 /\ k \in 1 .. Len(b) - 1 /\ k + 1 \in 1 .. n /\ k + 1 \in 2 .. n /\ (k + 1) - 1 = k
        BY <1>1, <3>3
      <4>2. ~a[k + 1].placeholder
        BY <3>3, <4>1 DEF Adjacent
      <4>3. d \in Text /\ f[k + 1] = d /\ g[k + 1] = d
        BY <4>1, <4>2, ShapedFacts
      <4>4. iri /\ Marked(d)
        <5>1. Unmistakable(d)
          BY <3>3, <4>1 DEF SplitsOneWay
        <5> QED
          BY <5>1 DEF Unmistakable, Marked
      <4>5. Clean(f[k]) /\ Clean(g[k])
        <5>1. /\ r1[a[k].text] \in Text /\ f[k] = Encoded(r1[a[k].text])
              /\ r2[b[k].text] \in Text /\ g[k] = Encoded(r2[b[k].text])
          BY <3>3, ShapedFacts
        <5> QED
          BY <4>4, <5>1, EncodedValues
      <4>6. PICK p \in Text : Concat(f) = ((x \o f[k]) \o f[k + 1]) \o p
        BY <1>1, <4>1, FrontTwice
      <4>7. PICK q \in Text : Concat(g) = ((x \o g[k]) \o g[k + 1]) \o q
        BY <1>1, <2>2, <4>1, FrontTwice
      <4>8. ((x \o f[k]) \o d) \o p = ((x \o g[k]) \o d) \o q
        BY <4>3, <4>6, <4>7
      <4>9. x \in Text /\ f[k] \in Text /\ g[k] \in Text /\ d \in Text /\ p \in Text /\ q \in Text
        BY <2>1, <2>2, <4>3
      <4>10. Clean(f[k]) /\ Clean(g[k]) /\ Marked(d)
        BY <4>4, <4>5
      <4> HIDE DEF x, f, g, d
      <4> QED
        BY <4>8, <4>9, <4>10, SplitOnce, Zenon
    <3> QED
      BY <3>1, <3>2, <3>3
  <2> HIDE DEF x, f, g
  <2>5. Concat(SubSeq(f, 1, k)) = Concat(SubSeq(g, 1, k))
    BY <2>1, <2>2, <2>4
  <2> QED
    BY <2>3, <2>4, <2>5
<1>3. \A k \in 0 .. n : k \in G
  <2>1. 0 \in G
    <3>1. Concat(SubSeq(f, 1, 0)) = << >>
      BY <1>1, FrontOfAll
    <3>2. Concat(SubSeq(g, 1, 0)) = << >>
      BY <1>1, FrontOfAll
    <3>3. 0 \in 0 .. n
      BY <1>1
    <3> QED
      BY <3>1, <3>2, <3>3
  <2>2. ASSUME NEW k \in 0 .. n - 1, k \in G PROVE k + 1 \in G
    <3>1. k + 1 \in 1 .. n /\ (k + 1) - 1 = k
      BY <1>1
    <3> HIDE DEF G, f, g
    <3> QED
      BY <1>2, <2>2, <3>1
  <2> HIDE DEF G
  <2> QED
    BY <1>1, <2>1, <2>2, Upwards
<1>4. ASSUME NEW k \in Placeholders(a) PROVE r1[a[k].text] = r2[b[k].text]
  <2>1. k \in 1 .. n /\ a[k].placeholder
    BY <1>1 DEF Placeholders
  <2>2. k - 1 \in 0 .. n
    BY <1>1, <2>1
  <2>3. f[k] = g[k]
    <3> HIDE DEF G, f, g
    <3> QED
      BY <1>2, <1>3, <2>1, <2>2
  <2>4. /\ r1[a[k].text] \in Text /\ f[k] = Encoded(r1[a[k].text])
        /\ r2[b[k].text] \in Text /\ g[k] = Encoded(r2[b[k].text])
    BY <2>1, ShapedFacts
  <2>5. Decoded(Encoded(r1[a[k].text])) = r1[a[k].text]
    BY <2>4, EncodedValues
  <2>6. Decoded(Encoded(r2[b[k].text])) = r2[b[k].text]
    BY <2>4, EncodedValues
  <2> QED
    BY <2>3, <2>4, <2>5, <2>6
<1> QED
  BY <1>4

(* A join of two templates of equal shape is put on their columns only if  *)
(* equal columns are equal terms, unless a value can hold a delimiter.     *)
THEOREM KeysRight == Spec => []KeysAreTermsIfSplit
<1>1. IInv => KeysAreTermsIfSplit
  <2> SUFFICES ASSUME IInv, outcome = "keys", SplitsOneWay(segments), NEW r1 \in Rows, NEW r2 \in Rows,
                      Expand(template, r1) # NULL, Expand(other, r2) # NULL
               PROVE  Expand(template, r1) = Expand(other, r2) <=> SameKeys(r1, r2)
    BY DEF KeysAreTermsIfSplit, KeysAreTerms
  <2> DEFINE a == ParseTemplate(template)
             b == ParseTemplate(other)
  <2>1. template \in TemplateTexts /\ other \in TemplateTexts /\ iri \in BOOLEAN /\ NativelyJoined(template, other)
    BY DEF IInv, Typed, Settled
  <2>2. /\ a \in Seq(Segment) /\ Expand(template, r1) = IF Fits(a, r1) THEN Concat(Filled(a, r1)) ELSE NULL
    BY <2>1, ExpandIsProjection
  <2>3. /\ b \in Seq(Segment) /\ Expand(other, r2) = IF Fits(b, r2) THEN Concat(Filled(b, r2)) ELSE NULL
    BY <2>1, ExpandIsProjection
  <2>4. SameLiterals(a, b) /\ ~Adjacent(a)
    BY <2>1 DEF NativelyJoined, SameShape, SameLiterals
  <2>5. SplitsOneWay(a)
    BY DEF segments
  <2>6. SameKeys(r1, r2) <=> \A k \in Placeholders(a) : r1[a[k].text] = r2[b[k].text]
    <3>1. KeyPairs(template, other) = { << a[k].text, b[k].text >> : k \in Placeholders(a) }
      BY DEF KeyPairs
    <3> HIDE DEF a, b
    <3>2. ASSUME SameKeys(r1, r2), NEW k \in Placeholders(a) PROVE r1[a[k].text] = r2[b[k].text]
      <4> DEFINE pair == << a[k].text, b[k].text >>
      <4>1. pair \in KeyPairs(template, other) /\ pair[1] = a[k].text /\ pair[2] = b[k].text
        BY <3>1
      <4> HIDE DEF pair
      <4> QED
        BY <3>2, <4>1 DEF SameKeys
    <3>3. ASSUME \A k \in Placeholders(a) : r1[a[k].text] = r2[b[k].text], NEW p \in KeyPairs(template, other)
          PROVE  r1[p[1]] = r2[p[2]]
      <4>1. PICK k \in Placeholders(a) : p = << a[k].text, b[k].text >>
        BY <3>1
      <4>2. p[1] = a[k].text /\ p[2] = b[k].text
        BY <4>1
      <4> QED
        BY <3>3, <4>2
    <3> QED
      BY <3>2, <3>3 DEF SameKeys
  <2> HIDE DEF a, b
  <2>7. Shaped(a, b) /\ Fits(a, r1) /\ Fits(b, r2)
        /\ Expand(template, r1) = Concat(Filled(a, r1)) /\ Expand(other, r2) = Concat(Filled(b, r2))
    BY <2>2, <2>3, <2>4 DEF Shaped
  <2>8. ASSUME SameKeys(r1, r2) PROVE Concat(Filled(a, r1)) = Concat(Filled(b, r2))
    BY <2>1, <2>6, <2>7, <2>8, SameValuesSameText
  <2>9. ASSUME Concat(Filled(a, r1)) = Concat(Filled(b, r2)) PROVE SameKeys(r1, r2)
    BY <2>1, <2>4, <2>5, <2>6, <2>7, <2>9, SameTextSameValues
  <2> QED
    BY <2>7, <2>8, <2>9
<1> QED
  BY <1>1, InitIInv, StepIInv, PTL DEF Spec

=============================================================================
