--------------------------- MODULE JoinTokenProofs ---------------------------
(***************************************************************************)
(* Proofs about the join-token codec for strings of every length, where   *)
(* TLC tries strings of up to MaxLen characters only: parseToken decodes  *)
(* every string as spec section 4.1 says (DecodeAsSpecified), and what    *)
(* Info.String prints parseToken reads back whenever the username holds   *)
(* no ":" (PrintParsesBack).  The lemmas describe strings.SplitN(s, sep,  *)
(* 2) through the first occurrence of sep, and tokenFormat through the    *)
(* pieces it concatenates.                                                *)
(***************************************************************************)
EXTENDS JoinToken, SequenceTheorems, WellFoundedInduction, TLAPS

(* A string without the separator character.                              *)
NoColon(a) == \A k \in 1 .. Len(a) : a[k] # ":"

(* The characters of a concatenation of three strings.                   *)
LEMMA Concat3 ==
  ASSUME NEW X, NEW a \in Seq(X), NEW b \in Seq(X), NEW c \in Seq(X)
  PROVE  /\ a \o b \o c \in Seq(X)
         /\ Len(a \o b \o c) = Len(a) + Len(b) + Len(c)
         /\ \A k \in 1 .. Len(a) : (a \o b \o c)[k] = a[k]
         /\ \A k \in Len(a) + 1 .. Len(a) + Len(b) :
              (a \o b \o c)[k] = b[k - Len(a)]
         /\ \A k \in Len(a) + Len(b) + 1 .. Len(a) + Len(b) + Len(c) :
              (a \o b \o c)[k] = c[k - Len(a) - Len(b)]
OBVIOUS

(* The characters of a substring.                                         *)
LEMMA SubSeqChars ==
  ASSUME NEW X, NEW s \in Seq(X), NEW m \in 1 .. Len(s) + 1,
         NEW n \in m - 1 .. Len(s)
  PROVE  /\ SubSeq(s, m, n) \in Seq(X)
         /\ Len(SubSeq(s, m, n)) = n - m + 1
         /\ \A k \in 1 .. n - m + 1 : SubSeq(s, m, n)[k] = s[m + k - 1]
OBVIOUS

(* The separators are strings of ":".                                     *)
LEMMA Separators ==
  ASSUME NEW X, ":" \in X, NEW sep \in {Colon, DoubleColon}
  PROVE  /\ sep \in Seq(X) /\ Len(sep) \in {1, 2}
         /\ \A k \in 1 .. Len(sep) : sep[k] = ":"
<1>1. CASE sep = Colon
  BY <1>1 DEF Colon
<1>2. CASE sep = DoubleColon
  BY <1>2 DEF DoubleColon
<1>3. QED
  BY <1>1, <1>2

(* Membership in SubSeqs, the contiguous substrings of s.                 *)
LEMMA InSubSeqs ==
  ASSUME NEW s, NEW x, NEW m \in 1 .. Len(s) + 1, NEW j \in 0 .. Len(s),
         x = SubSeq(s, m, j)
  PROVE  x \in SubSeqs(s)
<1>1. m - 1 \in 0 .. Len(s) /\ x = SubSeq(s, (m - 1) + 1, j)
  OBVIOUS
<1>2. \E ii, jj \in 0 .. Len(s) : x = SubSeq(s, ii + 1, jj)
  BY <1>1
<1>3. QED
  BY <1>2 DEF SubSeqs

LEMMA SubSeqsElim ==
  ASSUME NEW s, NEW x \in SubSeqs(s)
  PROVE  \E i, j \in 0 .. Len(s) : x = SubSeq(s, i + 1, j)
BY DEF SubSeqs

(* strings.SplitN(a + sep + b, sep, 2) splits at the sep after a when a   *)
(* holds no ":": no occurrence of sep ends before it.                     *)
LEMMA SplitAtFirst ==
  ASSUME NEW X, ":" \in X, NEW a \in Seq(X), NEW b \in Seq(X),
         NEW sep \in {Colon, DoubleColon}, NoColon(a)
  PROVE  SplitN2(a \o sep \o b, sep) = <<a, b>>
<1> DEFINE s == a \o sep \o b
           L == Len(a) + Len(sep)
           P0(j) == sep \in SubSeqs(SubSeq(s, 1, j))
<1>1. /\ sep \in Seq(X) /\ Len(sep) \in {1, 2}
      /\ \A k \in 1 .. Len(sep) : sep[k] = ":"
  BY Separators
<1>2. /\ s \in Seq(X)
      /\ Len(s) = L + Len(b)
      /\ \A k \in 1 .. Len(a) : s[k] = a[k]
      /\ \A k \in Len(a) + 1 .. L : s[k] = ":"
      /\ \A k \in L + 1 .. Len(s) : s[k] = b[k - L]
  BY <1>1, Concat3
<1>3. P0(L)
  <2>1. SubSeq(s, 1, L) \in Seq(X) /\ Len(SubSeq(s, 1, L)) = L
        /\ \A k \in 1 .. L : SubSeq(s, 1, L)[k] = s[k]
    BY <1>1, <1>2, SubSeqChars
  <2>2. SubSeq(SubSeq(s, 1, L), Len(a) + 1, L) = sep
    BY <1>1, <1>2, <2>1
  <2>3. Len(a) + 1 \in 1 .. Len(SubSeq(s, 1, L)) + 1
        /\ L \in 0 .. Len(SubSeq(s, 1, L))
    BY <1>1, <2>1
  <2>4. QED
    BY <2>2, <2>3, InSubSeqs
<1>4. ASSUME NEW j \in 0 .. L - 1 PROVE ~P0(j)
  <2> DEFINE t == SubSeq(s, 1, j)
  <2>1. t \in Seq(X) /\ Len(t) = j /\ \A k \in 1 .. j : t[k] = s[k]
    BY <1>1, <1>2, SubSeqChars
  <2> SUFFICES ASSUME sep \in SubSeqs(t) PROVE FALSE
    OBVIOUS
  <2>a. \E i, m \in 0 .. Len(t) : sep = SubSeq(t, i + 1, m)
    BY SubSeqsElim
  <2>2. PICK i, m \in 0 .. j : sep = SubSeq(t, i + 1, m)
    BY <2>1, <2>a
  <2>3. m >= i + 1
    <3> SUFFICES ASSUME m < i + 1 PROVE FALSE
      OBVIOUS
    <3>1. SubSeq(t, i + 1, m) = << >>
      BY SubSeqEmpty
    <3>2. Len(sep) = 0
      BY <2>2, <3>1
    <3>3. QED
      BY <1>1, <3>2
  <2>4. Len(SubSeq(t, i + 1, m)) = m - i
        /\ SubSeq(t, i + 1, m)[1] = t[i + 1]
    <3>1. i + 1 \in 1 .. Len(t) + 1 /\ m \in (i + 1) - 1 .. Len(t)
      BY <2>1, <2>3
    <3>2. Len(SubSeq(t, i + 1, m)) = m - (i + 1) + 1
          /\ \A k \in 1 .. m - (i + 1) + 1 :
               SubSeq(t, i + 1, m)[k] = t[(i + 1) + k - 1]
      BY <2>1, <3>1, SubSeqChars
    <3>3. 1 \in 1 .. m - (i + 1) + 1
      BY <2>3
    <3>4. QED
      BY <3>2, <3>3
  <2>5. m - i = Len(sep) /\ sep[1] = t[i + 1]
    BY <2>2, <2>4
  <2>6. i + 1 \in 1 .. Len(a) /\ i + 1 <= j
    BY <1>1, <2>5
  <2>7. t[i + 1] = ":"
    BY <1>1, <2>5
  <2>8. s[i + 1] = a[i + 1]
    BY <1>2, <2>6
  <2>9. QED
    BY <2>1, <2>6, <2>7, <2>8 DEF NoColon
<1>5. IndexFirstSubSeq(sep, s) = Len(a) + 1
  <2> DEFINE Q(i) == P0(i) /\ \A j \in 0 .. i - 1 : ~P0(j)
  <2>1. L \in 0 .. Len(s) /\ Q(L)
    BY <1>1, <1>2, <1>3, <1>4
  <2>2. ASSUME NEW i \in 0 .. Len(s), Q(i) PROVE i = L
    <3>1. i >= L
      BY <1>4, <2>2, <1>1
    <3>2. ~(L < i)
      BY <1>3, <2>2, <1>1
    <3>3. QED
      BY <3>1, <3>2, <1>1, <1>2
  <2> DEFINE c == CHOOSE i \in 0 .. Len(s) :
                    /\ sep \in SubSeqs(SubSeq(s, 1, i))
                    /\ \A j \in 0 .. i - 1 : sep \notin SubSeqs(SubSeq(s, 1, j))
  <2>3. c \in 0 .. Len(s) /\ Q(c)
    BY <2>1, Zenon
  <2>5. IndexFirstSubSeq(sep, s) = c - (Len(sep) - 1)
    BY Zenon DEF IndexFirstSubSeq
  <2> HIDE DEF c
  <2>4. c = L
    BY <2>2, <2>3
  <2>6. QED
    BY <1>1, <2>4, <2>5
<1>6. sep \in SubSeqs(s)
  <2>1. SubSeq(s, Len(a) + 1, L) = sep
    BY <1>1, <1>2
  <2>2. Len(a) + 1 \in 1 .. Len(s) + 1 /\ L \in 0 .. Len(s)
    BY <1>1, <1>2
  <2>3. QED
    BY <2>1, <2>2, InSubSeqs
<1>7. SubSeq(s, 1, Len(a)) = a /\ SubSeq(s, Len(a) + 1 + Len(sep), Len(s)) = b
  BY <1>1, <1>2
<1>8. SplitN2(s, sep) = <<SubSeq(s, 1, IndexFirstSubSeq(sep, s) - 1),
                          SubSeq(s, IndexFirstSubSeq(sep, s) + Len(sep), Len(s))>>
  BY <1>6, Zenon DEF SplitN2
<1>9. /\ IndexFirstSubSeq(sep, s) - 1 = Len(a)
      /\ IndexFirstSubSeq(sep, s) + Len(sep) = Len(a) + 1 + Len(sep)
  BY <1>1, <1>5
<1>10. QED
  BY <1>7, <1>8, <1>9

(* A string is a prefix of its concatenation with another, and what      *)
(* follows that prefix is the other string.                               *)
LEMMA PrefixOfConcat ==
  ASSUME NEW X, NEW a \in Seq(X), NEW b \in Seq(X)
  PROVE  /\ IsPrefix(a, a \o b)
         /\ SubSeq(a \o b, Len(a) + 1, Len(a \o b)) = b
<1>1. /\ SubSeq(a \o b, 1, Len(a)) \in Seq(X)
      /\ Len(SubSeq(a \o b, 1, Len(a))) = Len(a)
      /\ \A i \in 1 .. Len(a) : SubSeq(a \o b, 1, Len(a))[i] = a[i]
  OBVIOUS
<1>2. SubSeq(a \o b, 1, Len(a)) = a
  BY <1>1, SeqEqual
<1>3. SubSeq(a, 1, Len(a)) = a
  BY SubSeqFull
<1>4. IsPrefix(a, a \o b)
  BY <1>2, <1>3 DEF IsPrefix
<1>5. /\ SubSeq(a \o b, Len(a) + 1, Len(a \o b)) \in Seq(X)
      /\ Len(SubSeq(a \o b, Len(a) + 1, Len(a \o b))) = Len(b)
      /\ \A i \in 1 .. Len(b) :
           SubSeq(a \o b, Len(a) + 1, Len(a \o b))[i] = b[i]
  OBVIOUS
<1>6. QED
  BY <1>4, <1>5, SeqEqual

(* A string with no ":" among its substrings has no ":" character.         *)
LEMMA NoColonSubSeq ==
  ASSUME NEW X, NEW u \in Seq(X), Colon \notin SubSeqs(u)
  PROVE  NoColon(u)
<1> SUFFICES ASSUME NEW k \in 1 .. Len(u), u[k] = ":" PROVE FALSE
  BY DEF NoColon
<1>1. /\ SubSeq(u, k, k) \in Seq(X) /\ Len(SubSeq(u, k, k)) = 1
      /\ SubSeq(u, k, k)[1] = ":"
  BY SubSeqChars
<1>2. Colon \in Seq(X) /\ Len(Colon) = 1 /\ Colon[1] = ":"
  BY DEF Colon
<1>3. SubSeq(u, k, k) = Colon
  BY <1>1, <1>2, SeqEqual
<1>4. k \in 1 .. Len(u) + 1 /\ k \in 0 .. Len(u)
  OBVIOUS
<1>5. QED
  BY <1>3, <1>4, InSubSeqs

-----------------------------------------------------------------------------
(* strings.SplitN(s, sep, 2) in general: sep occurs in s at offset i.     *)
Occurs(sep, s, i) ==
  i + Len(sep) <= Len(s) /\ SubSeq(s, i + 1, i + Len(sep)) = sep

(* A nonempty set of naturals has a least element.                       *)
LEMMA MinNat ==
  ASSUME NEW T \in SUBSET Nat, T # {}
  PROVE  \E x \in T : \A y \in T : x <= y
<1>1. \E x \in T : \A y \in T : ~(<<y, x>> \in OpToRel(<, Nat))
  BY NatLessThanWellFounded, WFMin
<1>2. PICK x \in T : \A y \in T : ~(<<y, x>> \in OpToRel(<, Nat))
  BY <1>1
<1>3. \A y \in T : ~(y < x)
  BY <1>2 DEF OpToRel
<1>4. QED
  BY <1>3

(* A substring of a prefix is the same substring of the whole string.    *)
LEMMA PrefixSubSeq ==
  ASSUME NEW X, NEW s \in Seq(X), NEW j \in 0 .. Len(s),
         NEW m \in 1 .. j + 1, NEW n \in m - 1 .. j
  PROVE  SubSeq(SubSeq(s, 1, j), m, n) = SubSeq(s, m, n)
<1>1. SubSeq(s, 1, j) \in Seq(X) /\ Len(SubSeq(s, 1, j)) = j
      /\ \A k \in 1 .. j : SubSeq(s, 1, j)[k] = s[k]
  BY SubSeqChars
<1>2. /\ SubSeq(SubSeq(s, 1, j), m, n) \in Seq(X)
      /\ Len(SubSeq(SubSeq(s, 1, j), m, n)) = n - m + 1
      /\ \A k \in 1 .. n - m + 1 :
           SubSeq(SubSeq(s, 1, j), m, n)[k] = s[m + k - 1]
  BY <1>1, SubSeqChars
<1>3. /\ SubSeq(s, m, n) \in Seq(X) /\ Len(SubSeq(s, m, n)) = n - m + 1
      /\ \A k \in 1 .. n - m + 1 : SubSeq(s, m, n)[k] = s[m + k - 1]
  BY SubSeqChars
<1>4. QED
  BY <1>2, <1>3, SeqEqual

(* A nonempty sep is a substring of the first j characters of s exactly  *)
(* when it occurs in s at an offset that ends by j.                       *)
LEMMA OccursInPrefix ==
  ASSUME NEW X, NEW s \in Seq(X), NEW sep \in Seq(X), Len(sep) >= 1,
         NEW j \in 0 .. Len(s)
  PROVE  sep \in SubSeqs(SubSeq(s, 1, j))
           <=> \E i \in 0 .. j : i + Len(sep) <= j /\ Occurs(sep, s, i)
<1> DEFINE t == SubSeq(s, 1, j)
<1>1. t \in Seq(X) /\ Len(t) = j
  BY SubSeqChars
<1>2. ASSUME sep \in SubSeqs(t)
      PROVE  \E i \in 0 .. j : i + Len(sep) <= j /\ Occurs(sep, s, i)
  <2>1. \E i, m \in 0 .. Len(t) : sep = SubSeq(t, i + 1, m)
    BY <1>2, SubSeqsElim
  <2>2. PICK i, m \in 0 .. j : sep = SubSeq(t, i + 1, m)
    BY <1>1, <2>1
  <2>3. m >= i + 1
    <3> SUFFICES ASSUME m < i + 1 PROVE FALSE
      OBVIOUS
    <3>1. SubSeq(t, i + 1, m) = << >>
      BY SubSeqEmpty
    <3>2. QED
      BY <2>2, <3>1
  <2>4. sep = SubSeq(s, i + 1, m)
    BY <2>2, <2>3, PrefixSubSeq
  <2>5. Len(sep) = m - i
    BY <2>3, <2>4, SubSeqChars
  <2>6. i + Len(sep) = m /\ m <= j /\ i \in 0 .. j
    BY <2>2, <2>5
  <2>7. Occurs(sep, s, i)
    BY <2>4, <2>6 DEF Occurs
  <2>8. QED
    BY <2>6, <2>7
<1>3. ASSUME NEW i \in 0 .. j, i + Len(sep) <= j, Occurs(sep, s, i)
      PROVE  sep \in SubSeqs(t)
  <2>1. SubSeq(t, i + 1, i + Len(sep)) = sep
    BY <1>3, PrefixSubSeq DEF Occurs
  <2>2. i + 1 \in 1 .. Len(t) + 1 /\ i + Len(sep) \in 0 .. Len(t)
    BY <1>1, <1>3
  <2>3. QED
    BY <2>1, <2>2, InSubSeqs
<1>4. QED
  BY <1>2, <1>3

(* If sep occurs in s, it has a first occurrence.                        *)
LEMMA FirstOccurrence ==
  ASSUME NEW sep, NEW s, NEW i0 \in 0 .. Len(s), Occurs(sep, s, i0)
  PROVE  \E k \in 0 .. Len(s) :
           Occurs(sep, s, k) /\ \A i \in 0 .. k - 1 : ~Occurs(sep, s, i)
<1> DEFINE T == {i \in 0 .. Len(s) : Occurs(sep, s, i)}
<1>1. T \in SUBSET Nat /\ T # {}
  OBVIOUS
<1>2. PICK k \in T : \A y \in T : k <= y
  BY <1>1, MinNat
<1>3. QED
  BY <1>2

(* strings.SplitN(s, sep, 2) splits s at the first occurrence of sep.    *)
LEMMA SplitFirst ==
  ASSUME NEW X, NEW s \in Seq(X), NEW sep \in Seq(X), Len(sep) >= 1,
         NEW k \in Nat, Occurs(sep, s, k),
         \A i \in 0 .. k - 1 : ~Occurs(sep, s, i)
  PROVE  SplitN2(s, sep) = <<SubSeq(s, 1, k), SubSeq(s, k + Len(sep) + 1, Len(s))>>
<1> DEFINE L == k + Len(sep)
           P0(j) == sep \in SubSeqs(SubSeq(s, 1, j))
<1>1. L \in 0 .. Len(s) /\ k \in 0 .. Len(s)
  BY DEF Occurs
<1>2. P0(L)
  <2>1. k \in 0 .. L /\ k + Len(sep) <= L /\ Occurs(sep, s, k)
    OBVIOUS
  <2>2. QED
    BY <1>1, <2>1, OccursInPrefix
<1>3. ASSUME NEW j \in 0 .. L - 1 PROVE ~P0(j)
  <2> SUFFICES ASSUME P0(j) PROVE FALSE
    OBVIOUS
  <2>1. j \in 0 .. Len(s)
    BY <1>1
  <2>2. PICK i \in 0 .. j : i + Len(sep) <= j /\ Occurs(sep, s, i)
    BY <2>1, OccursInPrefix
  <2>3. i \in 0 .. k - 1
    BY <2>2
  <2>4. QED
    BY <2>2, <2>3
<1>4. IndexFirstSubSeq(sep, s) = k + 1
  <2> DEFINE Q(i) == P0(i) /\ \A j \in 0 .. i - 1 : ~P0(j)
  <2>1. L \in 0 .. Len(s) /\ Q(L)
    BY <1>1, <1>2, <1>3
  <2>2. ASSUME NEW i \in 0 .. Len(s), Q(i) PROVE i = L
    <3>1. ~(i < L)
      BY <1>3, <2>2
    <3>2. ~(L < i)
      BY <1>2, <2>2, <1>1
    <3>3. QED
      BY <3>1, <3>2, <1>1
  <2> DEFINE c == CHOOSE i \in 0 .. Len(s) :
                    /\ sep \in SubSeqs(SubSeq(s, 1, i))
                    /\ \A j \in 0 .. i - 1 : sep \notin SubSeqs(SubSeq(s, 1, j))
  <2>3. c \in 0 .. Len(s) /\ Q(c)
    BY <2>1, Zenon
  <2>4. IndexFirstSubSeq(sep, s) = c - (Len(sep) - 1)
    BY Zenon DEF IndexFirstSubSeq
  <2> HIDE DEF c
  <2>5. c = L
    BY <2>2, <2>3
  <2>6. QED
    BY <2>4, <2>5
<1>5. sep \in SubSeqs(s)
  <2>1. P0(Len(s))
    <3>1. k \in 0 .. Len(s) /\ k + Len(sep) <= Len(s) /\ Occurs(sep, s, k)
      BY <1>1
    <3>2. QED
      BY <3>1, OccursInPrefix
  <2>2. SubSeq(s, 1, Len(s)) = s
    BY SubSeqFull
  <2>3. QED
    BY <2>1, <2>2
<1>6. SplitN2(s, sep) = <<SubSeq(s, 1, IndexFirstSubSeq(sep, s) - 1),
                          SubSeq(s, IndexFirstSubSeq(sep, s) + Len(sep), Len(s))>>
  BY <1>5, Zenon DEF SplitN2
<1>7. QED
  BY <1>4, <1>6

(* Where sep does not occur, strings.SplitN returns s whole.             *)
LEMMA SplitNone ==
  ASSUME NEW X, NEW s \in Seq(X), NEW sep \in Seq(X), Len(sep) >= 1,
         \A i \in 0 .. Len(s) : ~Occurs(sep, s, i)
  PROVE  SplitN2(s, sep) = <<s>>
<1>1. sep \notin SubSeqs(SubSeq(s, 1, Len(s)))
  BY OccursInPrefix
<1>2. SubSeq(s, 1, Len(s)) = s
  BY SubSeqFull
<1>3. QED
  BY <1>1, <1>2 DEF SplitN2

(* ":" occurs at offset i when the (i+1)-th character is ":".             *)
LEMMA OccursColon ==
  ASSUME NEW X, NEW s \in Seq(X), NEW i \in Nat
  PROVE  Occurs(Colon, s, i) <=> i + 1 <= Len(s) /\ s[i + 1] = ":"
<1>1. Len(Colon) = 1 /\ Colon[1] = ":"
  BY DEF Colon
<1>2. ASSUME i + 1 <= Len(s) PROVE
        /\ SubSeq(s, i + 1, i + 1) \in Seq(X)
        /\ Len(SubSeq(s, i + 1, i + 1)) = 1
        /\ SubSeq(s, i + 1, i + 1)[1] = s[i + 1]
  BY <1>2, SubSeqChars
<1>3. ASSUME i + 1 <= Len(s), s[i + 1] = ":"
      PROVE  SubSeq(s, i + 1, i + 1) = Colon
  <2>1. Colon \in Seq(X)
    BY <1>3 DEF Colon
  <2>2. QED
    BY <1>1, <1>2, <1>3, <2>1, SeqEqual
<1>4. QED
  BY <1>1, <1>2, <1>3 DEF Occurs

(* "::" occurs at offset i when the (i+1)-th and (i+2)-th characters are  *)
(* ":".                                                                   *)
LEMMA OccursDoubleColon ==
  ASSUME NEW X, NEW s \in Seq(X), NEW i \in Nat
  PROVE  Occurs(DoubleColon, s, i)
           <=> i + 2 <= Len(s) /\ s[i + 1] = ":" /\ s[i + 2] = ":"
<1>1. Len(DoubleColon) = 2 /\ DoubleColon[1] = ":" /\ DoubleColon[2] = ":"
  BY DEF DoubleColon
<1>2. ASSUME i + 2 <= Len(s) PROVE
        /\ SubSeq(s, i + 1, i + 2) \in Seq(X)
        /\ Len(SubSeq(s, i + 1, i + 2)) = 2
        /\ SubSeq(s, i + 1, i + 2)[1] = s[i + 1]
        /\ SubSeq(s, i + 1, i + 2)[2] = s[i + 2]
  BY <1>2, SubSeqChars
<1>3. ASSUME i + 2 <= Len(s), s[i + 1] = ":", s[i + 2] = ":"
      PROVE  SubSeq(s, i + 1, i + 2) = DoubleColon
  <2>1. DoubleColon \in Seq(X)
    BY <1>3 DEF DoubleColon
  <2>2. QED
    BY <1>1, <1>2, <1>3, <2>1, SeqEqual
<1>4. QED
  BY <1>1, <1>2, <1>3 DEF Occurs

(* The pieces of the join-token codec are strings over Chars.            *)
LEMMA Pieces ==
  ASSUME JoinTokenAssumption
  PROVE  /\ TokenPrefix \in Seq(Chars)
         /\ Colon \in Seq(Chars) /\ DoubleColon \in Seq(Chars)
<1>1. TokenPrefix \in Seq(Chars)
  BY SeqMonotonic DEF JoinTokenAssumption
<1>2. QED
  BY <1>1, Separators DEF JoinTokenAssumption

(* tokenFormat puts the prefix first, and what follows the prefix is the  *)
(* hash, "::", the username, ":" and the password.                        *)
LEMMA PrintedBody ==
  ASSUME JoinTokenAssumption,
         NEW h \in Seq(Chars), NEW u \in Seq(Chars), NEW p \in Seq(Chars)
  PROVE  /\ TokenFormat(TokenPrefix, h, u, p) \in Seq(Chars)
         /\ IsPrefix(TokenPrefix, TokenFormat(TokenPrefix, h, u, p))
         /\ SubSeq(TokenFormat(TokenPrefix, h, u, p), Len(TokenPrefix) + 1,
                   Len(TokenFormat(TokenPrefix, h, u, p)))
              = h \o DoubleColon \o (u \o Colon \o p)
<1> DEFINE P == TokenPrefix
           C == Colon
           D == DoubleColon
           tok == TokenFormat(P, h, u, p)
           body == h \o D \o (u \o C \o p)
<1>1. P \in Seq(Chars) /\ C \in Seq(Chars) /\ D \in Seq(Chars)
  BY Pieces
<1>2. body \in Seq(Chars)
  BY <1>1
<1>3. tok = P \o body
  <2> HIDE DEF P, C, D
  <2>1. P \o h \o D \o u \o C \o p = P \o (h \o D \o (u \o C \o p))
    BY <1>1, SMTT(120)
  <2>2. QED
    BY <2>1 DEF TokenFormat, P, C, D
<1> HIDE DEF P, body
<1>4. /\ P \o body \in Seq(Chars)
      /\ IsPrefix(P, P \o body)
      /\ SubSeq(P \o body, Len(P) + 1, Len(P \o body)) = body
  BY <1>1, <1>2, PrefixOfConcat
<1>5. QED
  BY <1>3, <1>4 DEF P, body

(* parseToken reads back every token printed in the format of            *)
(* tokenFormat, when neither the CA hash nor the username holds a ":".    *)
LEMMA ParsePrinted ==
  ASSUME JoinTokenAssumption,
         NEW h \in Seq(Chars), NoColon(h),
         NEW u \in Seq(Chars), NoColon(u),
         NEW p \in Seq(Chars)
  PROVE  ParseToken(TokenFormat(TokenPrefix, h, u, p))
           = [caHash |-> h, username |-> u, password |-> p]
<1> DEFINE P == TokenPrefix
           C == Colon
           D == DoubleColon
           tok == TokenFormat(P, h, u, p)
           rest == u \o C \o p
           body == h \o D \o rest
<1>1. C \in Seq(Chars) /\ D \in Seq(Chars)
  BY Pieces
<1>2. rest \in Seq(Chars)
  BY <1>1
<1>3. IsPrefix(P, tok) /\ SubSeq(tok, Len(P) + 1, Len(tok)) = body
  BY PrintedBody
<1>4. SplitN2(body, D) = <<h, rest>>
  BY <1>2, SplitAtFirst DEF JoinTokenAssumption
<1>5. SplitN2(rest, C) = <<u, p>>
  BY SplitAtFirst DEF JoinTokenAssumption
<1> HIDE DEF P, C, D, tok, rest, body
<1>6. ParseToken(tok) =
        LET p1 == SplitN2(body, D)
            caHash == IF Len(p1) > 1 THEN p1[1] ELSE <<>>
            rest2 == IF Len(p1) > 1 THEN p1[2] ELSE p1[1]
            p2 == SplitN2(rest2, C)
        IN IF Len(p2) # 2 THEN InvalidFormat
           ELSE [caHash |-> caHash, username |-> p2[1], password |-> p2[2]]
  BY <1>3, Zenon DEF ParseToken, P, C, D
<1>7. QED
  BY <1>4, <1>5, <1>6 DEF tok, P

-----------------------------------------------------------------------------
(* The pieces of SpecDecode and of parseToken, named so that the proofs  *)
(* can speak of them: the cut before the first "::", the end of the      *)
(* username at the first ":", and what each side makes of the rest.      *)
SpecCut(r, k) ==
  /\ k + 2 <= Len(r)
  /\ SubSeq(r, k + 1, k + 2) = DoubleColon
  /\ DoubleColon \notin SubSeqs(SubSeq(r, 1, k) \o Colon)

SpecUserEnd(rest, m) ==
  /\ m + 1 <= Len(rest)
  /\ rest[m + 1] = ":"
  /\ \A j \in 1 .. m : rest[j] # ":"

SpecRest(h, rest) ==
  IF \E m \in 0 .. Len(rest) : SpecUserEnd(rest, m)
  THEN LET m0 == CHOOSE m \in 0 .. Len(rest) : SpecUserEnd(rest, m)
       IN [caHash |-> h, username |-> SubSeq(rest, 1, m0),
           password |-> SubSeq(rest, m0 + 2, Len(rest))]
  ELSE InvalidFormat

ParseRest(caHash, rest) ==
  LET p2 == SplitN2(rest, Colon)
  IN IF Len(p2) # 2 THEN InvalidFormat
     ELSE [caHash |-> caHash, username |-> p2[1], password |-> p2[2]]

(* The username ends at the first ":" of the rest.                       *)
LEMMA UserEndIsFirst ==
  ASSUME NEW X, NEW t \in Seq(X), NEW m \in 0 .. Len(t)
  PROVE  SpecUserEnd(t, m)
           <=> Occurs(Colon, t, m) /\ \A i \in 0 .. m - 1 : ~Occurs(Colon, t, i)
<1>1. Occurs(Colon, t, m) <=> m + 1 <= Len(t) /\ t[m + 1] = ":"
  BY OccursColon
<1>2. ASSUME m + 1 <= Len(t)
      PROVE  (\A j \in 1 .. m : t[j] # ":")
               <=> \A i \in 0 .. m - 1 : ~Occurs(Colon, t, i)
  <2>1. \A i \in 0 .. m - 1 :
          Occurs(Colon, t, i) <=> i + 1 <= Len(t) /\ t[i + 1] = ":"
    BY OccursColon
  <2>2. ASSUME \A j \in 1 .. m : t[j] # ":", NEW i \in 0 .. m - 1
        PROVE  ~Occurs(Colon, t, i)
    <3>1. i + 1 \in 1 .. m
      OBVIOUS
    <3>2. QED
      BY <2>1, <2>2, <3>1
  <2>3. ASSUME \A i \in 0 .. m - 1 : ~Occurs(Colon, t, i), NEW j \in 1 .. m
        PROVE  t[j] # ":"
    <3>1. j - 1 \in 0 .. m - 1 /\ (j - 1) + 1 = j /\ j <= Len(t)
      BY <1>2
    <3>2. QED
      BY <2>1, <2>3, <3>1
  <2>4. QED
    BY <2>2, <2>3
<1>3. QED
  BY <1>1, <1>2 DEF SpecUserEnd

(* After the hash, parseToken and SpecDecode read the same username and  *)
(* password out of the rest, or both reject it.                           *)
LEMMA RestAgree ==
  ASSUME NEW X, ":" \in X, NEW t \in Seq(X), NEW h
  PROVE  ParseRest(h, t) = SpecRest(h, t)
<1>0. Colon \in Seq(X) /\ Len(Colon) = 1
  BY DEF Colon
<1>1. CASE \E i \in 0 .. Len(t) : Occurs(Colon, t, i)
  <2>1. PICK k \in 0 .. Len(t) :
          Occurs(Colon, t, k) /\ \A i \in 0 .. k - 1 : ~Occurs(Colon, t, i)
    BY <1>1, FirstOccurrence
  <2>2. SpecUserEnd(t, k)
    BY <2>1, UserEndIsFirst
  <2>3. ASSUME NEW m \in 0 .. Len(t), SpecUserEnd(t, m) PROVE m = k
    <3>1. Occurs(Colon, t, m) /\ \A i \in 0 .. m - 1 : ~Occurs(Colon, t, i)
      BY <2>3, UserEndIsFirst
    <3>2. ~(m < k) /\ ~(k < m)
      BY <2>1, <3>1
    <3>3. QED
      BY <3>2
  <2> DEFINE c == CHOOSE m \in 0 .. Len(t) : SpecUserEnd(t, m)
  <2>4. c \in 0 .. Len(t) /\ SpecUserEnd(t, c)
    BY <2>2, Zenon
  <2>5. c = k
    BY <2>3, <2>4
  <2>6. SpecRest(h, t) = [caHash |-> h, username |-> SubSeq(t, 1, c),
                          password |-> SubSeq(t, c + 2, Len(t))]
    BY <2>2, Zenon DEF SpecRest
  <2>7. SplitN2(t, Colon) = <<SubSeq(t, 1, k), SubSeq(t, k + 2, Len(t))>>
    <3>1. SplitN2(t, Colon)
            = <<SubSeq(t, 1, k), SubSeq(t, k + Len(Colon) + 1, Len(t))>>
      <4>1. k \in Nat /\ Len(Colon) >= 1
        BY <1>0
      <4>2. QED
        BY <1>0, <4>1, <2>1, SplitFirst, Zenon
    <3>2. QED
      BY <1>0, <3>1
  <2>8. ParseRest(h, t) = [caHash |-> h, username |-> SubSeq(t, 1, k),
                           password |-> SubSeq(t, k + 2, Len(t))]
    BY <2>7 DEF ParseRest
  <2>9. QED
    BY <2>5, <2>6, <2>8
<1>2. CASE ~\E i \in 0 .. Len(t) : Occurs(Colon, t, i)
  <2>1. SplitN2(t, Colon) = <<t>>
    <3>1. Len(Colon) >= 1
      BY <1>0
    <3>2. QED
      BY <1>0, <1>2, <3>1, SplitNone, Zenon
  <2>2. ~\E m \in 0 .. Len(t) : SpecUserEnd(t, m)
    BY <1>2, UserEndIsFirst
  <2>3. QED
    BY <2>1, <2>2 DEF ParseRest, SpecRest
<1>3. QED
  BY <1>1, <1>2

(* SpecDecode cuts the hash at the first "::" of the body.               *)
LEMMA CutIsFirst ==
  ASSUME NEW X, ":" \in X, NEW r \in Seq(X), NEW j \in 0 .. Len(r)
  PROVE  SpecCut(r, j)
           <=> Occurs(DoubleColon, r, j)
               /\ \A i \in 0 .. j - 1 : ~Occurs(DoubleColon, r, i)
<1>0. /\ DoubleColon \in Seq(X) /\ Len(DoubleColon) = 2
      /\ Colon \in Seq(X) /\ Len(Colon) = 1 /\ Colon[1] = ":"
  BY DEF DoubleColon, Colon
<1>1. Occurs(DoubleColon, r, j)
        <=> j + 2 <= Len(r) /\ SubSeq(r, j + 1, j + 2) = DoubleColon
  BY <1>0 DEF Occurs
<1>2. CASE ~Occurs(DoubleColon, r, j)
  BY <1>1, <1>2 DEF SpecCut
<1>3. CASE Occurs(DoubleColon, r, j)
  <2> DEFINE q == SubSeq(r, 1, j) \o Colon
  <2>1. j + 2 <= Len(r) /\ r[j + 1] = ":"
    BY <1>3, OccursDoubleColon
  <2>2. /\ SubSeq(r, 1, j) \in Seq(X) /\ Len(SubSeq(r, 1, j)) = j
        /\ \A k \in 1 .. j : SubSeq(r, 1, j)[k] = r[k]
    BY SubSeqChars
  <2>3. q \in Seq(X) /\ Len(q) = j + 1 /\ \A k \in 1 .. j + 1 : q[k] = r[k]
    <3> DEFINE a == SubSeq(r, 1, j)
    <3>0. a \in Seq(X) /\ Len(a) = j /\ \A k \in 1 .. j : a[k] = r[k]
      BY <2>2
    <3> HIDE DEF a
    <3>1. a \o Colon \in Seq(X) /\ Len(a \o Colon) = j + 1
      BY <3>0 DEF Colon
    <3>2. \A k \in 1 .. j : (a \o Colon)[k] = r[k]
      BY <3>0 DEF Colon
    <3>3. (a \o Colon)[j + 1] = r[j + 1]
      BY <2>1, <3>0 DEF Colon
    <3>4. QED
      BY <3>1, <3>2, <3>3 DEF a
  <2>4. /\ SubSeq(r, 1, j + 1) \in Seq(X) /\ Len(SubSeq(r, 1, j + 1)) = j + 1
        /\ \A k \in 1 .. j + 1 : SubSeq(r, 1, j + 1)[k] = r[k]
    BY <2>1, SubSeqChars
  <2>5. q = SubSeq(r, 1, j + 1)
    BY <2>3, <2>4, SeqEqual
  <2>6. DoubleColon \in SubSeqs(q)
          <=> \E i \in 0 .. j + 1 : i + Len(DoubleColon) <= j + 1
                                    /\ Occurs(DoubleColon, r, i)
    <3>1. j + 1 \in 0 .. Len(r) /\ Len(DoubleColon) >= 1
      BY <1>0, <2>1
    <3>2. QED
      BY <1>0, <2>5, <3>1, OccursInPrefix
  <2>7. (\E i \in 0 .. j + 1 : i + Len(DoubleColon) <= j + 1
                               /\ Occurs(DoubleColon, r, i))
          <=> \E i \in 0 .. j - 1 : Occurs(DoubleColon, r, i)
    BY <1>0
  <2>8. QED
    BY <1>1, <1>3, <2>6, <2>7 DEF SpecCut
<1>4. QED
  BY <1>2, <1>3

(* parseToken decodes every string the way spec section 4.1 describes.  *)
LEMMA DecodeAgrees ==
  ASSUME JoinTokenAssumption, NEW raw \in Seq(Chars)
  PROVE  ParseToken(raw) = SpecDecode(raw)
<1>0. /\ TokenPrefix \in Seq(Chars) /\ ":" \in Chars
      /\ DoubleColon \in Seq(Chars) /\ Len(DoubleColon) = 2
  <2>1. TokenPrefix \in Seq(Chars) /\ DoubleColon \in Seq(Chars)
    BY Pieces
  <2>2. QED
    BY <2>1 DEF JoinTokenAssumption, DoubleColon
<1>1. CASE ~IsPrefix(TokenPrefix, raw)
  <2> DEFINE w == TokenFormat(TokenPrefix, <<>>, <<>>, raw)
  <2>1. <<>> \in Seq(Chars) /\ NoColon(<<>>)
    BY DEF NoColon
  <2>2. IsPrefix(TokenPrefix, w)
    BY <2>1, PrintedBody
  <2>3. ParseToken(raw) = ParseToken(w)
    BY <1>1, <2>2, Zenon DEF ParseToken
  <2>4. ParseToken(w) = [caHash |-> <<>>, username |-> <<>>, password |-> raw]
    BY <2>1, ParsePrinted
  <2>5. SpecDecode(raw) = [caHash |-> <<>>, username |-> <<>>, password |-> raw]
    BY <1>1 DEF SpecDecode
  <2>6. QED
    BY <2>3, <2>4, <2>5
<1>2. CASE IsPrefix(TokenPrefix, raw)
  <2> DEFINE r == SubSeq(raw, Len(TokenPrefix) + 1, Len(raw))
             p1 == SplitN2(r, DoubleColon)
             caH == IF Len(p1) > 1 THEN p1[1] ELSE <<>>
             restP == IF Len(p1) > 1 THEN p1[2] ELSE p1[1]
             hasHash == \E k \in 0 .. Len(r) : SpecCut(r, k)
             k0 == CHOOSE k \in 0 .. Len(r) : SpecCut(r, k)
             hS == IF hasHash THEN SubSeq(r, 1, k0) ELSE <<>>
             restS == IF hasHash THEN SubSeq(r, k0 + 3, Len(r)) ELSE r
  <2>1. r \in Seq(Chars)
    <3>1. Len(TokenPrefix) + 1 \in 1 .. Len(raw) + 1
      BY <1>0, <1>2 DEF IsPrefix
    <3>2. QED
      BY <3>1, SubSeqChars
  <2>2. ParseToken(raw) = ParseRest(caH, restP)
    BY <1>2, Zenon DEF ParseToken, ParseRest
  <2>3. SpecDecode(raw) = SpecRest(hS, restS)
    BY <1>2, Zenon DEF SpecDecode, SpecRest, SpecCut, SpecUserEnd
  <2>4. caH = hS /\ restP = restS /\ restS \in Seq(Chars)
    <3>1. CASE \E i \in 0 .. Len(r) : Occurs(DoubleColon, r, i)
      <4>1. PICK k \in 0 .. Len(r) :
              /\ Occurs(DoubleColon, r, k)
              /\ \A i \in 0 .. k - 1 : ~Occurs(DoubleColon, r, i)
        BY <3>1, FirstOccurrence
      <4>2. SpecCut(r, k)
        BY <1>0, <2>1, <4>1, CutIsFirst
      <4>3. ASSUME NEW j \in 0 .. Len(r), SpecCut(r, j) PROVE j = k
        <5>1. /\ Occurs(DoubleColon, r, j)
              /\ \A i \in 0 .. j - 1 : ~Occurs(DoubleColon, r, i)
          BY <1>0, <2>1, <4>3, CutIsFirst
        <5>2. ~(j < k) /\ ~(k < j)
          BY <4>1, <5>1
        <5>3. QED
          BY <5>2
      <4>4. k0 \in 0 .. Len(r) /\ SpecCut(r, k0)
        BY <4>2, Zenon
      <4>5. k0 = k /\ hasHash
        BY <4>2, <4>3, <4>4
      <4>6. p1 = <<SubSeq(r, 1, k), SubSeq(r, k + 3, Len(r))>>
        <5>1. p1 = <<SubSeq(r, 1, k),
                     SubSeq(r, k + Len(DoubleColon) + 1, Len(r))>>
          <6>1. k \in Nat /\ Len(DoubleColon) >= 1
            BY <1>0
          <6>2. QED
            BY <1>0, <2>1, <4>1, <6>1, SplitFirst, Zenon
        <5>2. k + Len(DoubleColon) + 1 = k + 3
          BY <1>0
        <5>3. QED
          BY <5>1, <5>2, Zenon
      <4>7. SubSeq(r, k + 3, Len(r)) \in Seq(Chars)
        <5>1. k + 3 \in 1 .. Len(r) + 1
          BY <1>0, <4>1 DEF Occurs
        <5>2. QED
          BY <2>1, <5>1, SubSeqChars
      <4> HIDE DEF r, p1, hasHash, k0
      <4>8. caH = SubSeq(r, 1, k) /\ restP = SubSeq(r, k + 3, Len(r))
        BY <4>6 DEF caH, restP
      <4>9. hS = SubSeq(r, 1, k) /\ restS = SubSeq(r, k + 3, Len(r))
        BY <4>5 DEF hS, restS
      <4>10. QED
        BY <4>7, <4>8, <4>9
    <3>2. CASE ~\E i \in 0 .. Len(r) : Occurs(DoubleColon, r, i)
      <4>1. p1 = <<r>>
        <5>1. Len(DoubleColon) >= 1
          BY <1>0
        <5>2. QED
          BY <1>0, <2>1, <3>2, <5>1, SplitNone, Zenon
      <4>2. ~hasHash
        BY <1>0, <2>1, <3>2, CutIsFirst
      <4>3. QED
        BY <2>1, <4>1, <4>2
    <3>3. QED
      BY <3>1, <3>2
  <2> HIDE DEF r, p1, caH, restP, hasHash, k0, hS, restS
  <2>5. ParseRest(hS, restS) = SpecRest(hS, restS)
    BY <1>0, <2>4, RestAgree
  <2>6. QED
    BY <2>2, <2>3, <2>4, <2>5
<1>3. QED
  BY <1>1, <1>2

-----------------------------------------------------------------------------
(* A CA hash is hex, so it holds no ":".                                  *)
LEMMA HashNoColon ==
  ASSUME JoinTokenAssumption, NEW b \in CABundles
  PROVE  HashCA[b] \in Seq(Chars) /\ NoColon(HashCA[b])
<1>1. HashCA[b] \in Seq(Chars \ {":"})
  BY DEF JoinTokenAssumption
<1>2. HashCA[b] \in Seq(Chars)
  BY <1>1, SeqMonotonic
<1>3. QED
  BY <1>1, <1>2 DEF NoColon

(* The invariant behind PrintParsesBack and DecodeAsSpecified: the token *)
(* is a string, a printed Info is one a node may hold and the token is    *)
(* what Info.String printed for it, and a parse result is parseToken of   *)
(* the current token.                                                     *)
TInv ==
  /\ token \in Seq(Chars)
  /\ info # NoInfo => info \in Infos /\ token = InfoString(info)
  /\ decoded # NotParsed => decoded = ParseToken(token)

LEMMA TInvInit == Init => TInv
<1> SUFFICES ASSUME Init PROVE TInv
  OBVIOUS
<1>1. token \in Seq(Chars)
  BY JoinTokenAssumption DEF Init, Strings, SeqOf
<1>2. QED
  BY <1>1 DEF Init, TInv

LEMMA TInvStep == TInv /\ [Next]_vars => TInv'
<1> SUFFICES ASSUME TInv, [Next]_vars PROVE TInv'
  OBVIOUS
<1>1. CASE PrintInfo
  <2>1. info' \in Infos /\ token' = InfoString(info')
    BY <1>1 DEF PrintInfo
  <2>2. /\ info'.cacerts \in CABundles
        /\ info'.username \in Seq(Chars) /\ info'.password \in Seq(Chars)
    BY <2>1, JoinTokenAssumption DEF Infos
  <2>3. HashCA[info'.cacerts] \in Seq(Chars)
    BY <2>2, HashNoColon, JoinTokenAssumption
  <2>4. token' \in Seq(Chars)
    BY <2>1, <2>2, <2>3, PrintedBody, JoinTokenAssumption DEF InfoString
  <2>5. QED
    BY <1>1, <2>1, <2>4 DEF PrintInfo, TInv
<1>2. CASE Parse
  BY <1>2 DEF Parse, TInv
<1>3. CASE UNCHANGED vars
  BY <1>3 DEF vars, TInv
<1>4. QED
  BY <1>1, <1>2, <1>3 DEF Next

THEOREM TInvariant == Spec => []TInv
BY TInvInit, TInvStep, PTL DEF Spec

(* Info.String followed by parseToken, on the tokens a node prints for   *)
(* the Infos it holds, gives back the username and the password and the   *)
(* hash of the Info's CA bundle, whenever the username holds no ":".      *)
THEOREM PrintParsesBackInvariant == Spec => []PrintParsesBack
<1>1. TInv => PrintParsesBack
  <2> SUFFICES ASSUME TInv, decoded # NotParsed, info # NoInfo,
                      Colon \notin SubSeqs(info.username)
               PROVE  decoded = [caHash |-> HashCA[info.cacerts],
                                 username |-> info.username,
                                 password |-> info.password]
    BY DEF PrintParsesBack
  <2>1. /\ info \in Infos /\ token = InfoString(info)
        /\ decoded = ParseToken(token)
    BY DEF TInv
  <2>2. /\ info.cacerts \in CABundles
        /\ info.username \in Seq(Chars) /\ info.password \in Seq(Chars)
    BY <2>1, JoinTokenAssumption DEF Infos
  <2>3. HashCA[info.cacerts] \in Seq(Chars) /\ NoColon(HashCA[info.cacerts])
    BY <2>2, HashNoColon, JoinTokenAssumption
  <2>4. NoColon(info.username)
    BY <2>2, NoColonSubSeq
  <2>5. QED
    BY <2>1, <2>2, <2>3, <2>4, ParsePrinted, JoinTokenAssumption
       DEF InfoString
<1>2. QED
  BY <1>1, TInvariant, PTL

(* parseToken, run on the configured token or on a token Info.String    *)
(* printed, decodes it as spec section 4.1 says: untagged strings are     *)
(* passwords, only the first "::" and the first ":" count, and a tagged   *)
(* string without a user separator is the one format error.               *)
THEOREM DecodeAsSpecifiedInvariant == Spec => []DecodeAsSpecified
<1>1. TInv => DecodeAsSpecified
  <2> SUFFICES ASSUME TInv, decoded # NotParsed
               PROVE  decoded = SpecDecode(token)
    BY DEF DecodeAsSpecified
  <2>1. token \in Seq(Chars) /\ decoded = ParseToken(token)
    BY DEF TInv
  <2>2. QED
    BY <2>1, DecodeAgrees, JoinTokenAssumption
<1>2. QED
  BY <1>1, TInvariant, PTL

=============================================================================
