--------------------------- MODULE OwnershipFacts ---------------------------
(***************************************************************************)
(* What the ownership proofs of all programs rest on: what appending to,   *)
(* cutting and taking the head of a sequence of mbufs does to the set of   *)
(* mbufs in it, and to the sequence two of them make; how many mbufs there *)
(* are in a set; and that mbufs which change hands among places that share *)
(* none go on having one owner.                                            *)
(***************************************************************************)
EXTENDS SequenceTheorems, FiniteSetTheorems, TLAPS

(* The empty sequence holds nothing, and nothing twice.                    *)
LEMMA NothingInEmptySeq ==
  Range(<<>>) = {} /\ IsInjective(<<>>)
BY DEF Range, IsInjective

(* What the range of a sequence is made of.                                *)
LEMMA RangeElement ==
  ASSUME NEW S, NEW s \in Seq(S), NEW x
  PROVE  x \in Range(s) <=> \E i \in 1 .. Len(s) : x = s[i]
BY DOMAIN s = 1 .. Len(s) DEF Range

(* What it means that a sequence has no repeats.                           *)
LEMMA InjectiveElements ==
  ASSUME NEW S, NEW s \in Seq(S)
  PROVE  IsInjective(s) <=> \A i, j \in 1 .. Len(s) : s[i] = s[j] => i = j
BY DOMAIN s = 1 .. Len(s) DEF IsInjective

(* The range of a sequence over S is part of S.                            *)
LEMMA RangeInSet ==
  ASSUME NEW S, NEW s \in Seq(S)
  PROVE  Range(s) \subseteq S
<1> SUFFICES ASSUME NEW x \in Range(s) PROVE x \in S
  OBVIOUS
<1>1. PICK i \in 1 .. Len(s) : x = s[i]
  BY RangeElement
<1> QED BY <1>1

(* Appending an element adds it to the range.                              *)
LEMMA AppendSeq ==
  ASSUME NEW S, NEW s \in Seq(S), NEW e \in S
  PROVE  /\ Append(s, e) \in Seq(S)
         /\ Len(Append(s, e)) = Len(s) + 1
         /\ Range(Append(s, e)) = Range(s) \cup {e}
         /\ IsInjective(s) /\ e \notin Range(s) => IsInjective(Append(s, e))
<1> DEFINE t == Append(s, e)
<1>1. /\ t \in Seq(S)
      /\ Len(t) = Len(s) + 1 /\ Len(s) \in Nat
      /\ \A i \in 1 .. Len(s) : t[i] = s[i]
      /\ t[Len(s) + 1] = e
  OBVIOUS
<1> HIDE DEF t
<1>2. ASSUME NEW x
      PROVE  x \in Range(t) <=> x \in Range(s) \cup {e}
  <2>1. x \in Range(t) <=> \E i \in 1 .. Len(s) + 1 : x = t[i]
    BY <1>1, RangeElement
  <2>2. x \in Range(s) <=> \E i \in 1 .. Len(s) : x = s[i]
    BY RangeElement
  <2>3. ASSUME x \in Range(s) PROVE x \in Range(t)
    <3>1. PICK i \in 1 .. Len(s) : x = s[i]
      BY <2>2, <2>3
    <3>2. i \in 1 .. Len(s) + 1 /\ x = t[i]
      BY <1>1, <3>1
    <3> QED BY <2>1, <3>2
  <2>4. e \in Range(t)
    <3>1. Len(s) + 1 \in 1 .. Len(t)
      BY <1>1
    <3> QED BY <1>1, <3>1, RangeElement
  <2>5. ASSUME x \in Range(t) PROVE x \in Range(s) \cup {e}
    <3>1. PICK i \in 1 .. Len(s) + 1 : x = t[i]
      BY <2>1, <2>5
    <3>2. CASE i = Len(s) + 1
      BY <1>1, <3>1, <3>2
    <3>3. CASE i # Len(s) + 1
      BY <1>1, <2>2, <3>1, <3>3
    <3> QED BY <3>2, <3>3
  <2> QED BY <2>3, <2>4, <2>5
<1>3. Range(t) = Range(s) \cup {e}
  BY <1>2
<1>4. ASSUME IsInjective(s), e \notin Range(s)
      PROVE  IsInjective(t)
  <2>1. \A i, j \in 1 .. Len(s) : s[i] = s[j] => i = j
    BY <1>4, InjectiveElements
  <2>2. \A i \in 1 .. Len(s) : s[i] # e
    BY <1>4, RangeElement
  <2>3. SUFFICES ASSUME NEW i \in 1 .. Len(t), NEW j \in 1 .. Len(t), t[i] = t[j]
                 PROVE  i = j
    BY <1>1, InjectiveElements
  <2> QED BY <1>1, <2>1, <2>2, <2>3
<1> QED BY <1>1, <1>3, <1>4 DEF t

(* Removing the head removes it from the range.                            *)
LEMMA TailSeq ==
  ASSUME NEW S, NEW s \in Seq(S), s # <<>>
  PROVE  /\ Head(s) \in S /\ Head(s) \in Range(s)
         /\ Tail(s) \in Seq(S)
         /\ Len(s) \in Nat \ {0} /\ Len(Tail(s)) = Len(s) - 1
         /\ Tail(s) = <<>> <=> Len(s) = 1
         /\ IsInjective(s) => /\ IsInjective(Tail(s))
                            /\ Range(Tail(s)) = Range(s) \ {Head(s)}
<1> DEFINE t == Tail(s)
<1>1. /\ t \in Seq(S) /\ Len(s) \in Nat \ {0}
      /\ Len(t) = Len(s) - 1
      /\ \A i \in 1 .. Len(s) - 1 : t[i] = s[i + 1]
      /\ Head(s) = s[1] /\ s[1] \in S
  OBVIOUS
<1> HIDE DEF t
<1>2. Head(s) \in Range(s)
  <2>1. 1 \in 1 .. Len(s)
    BY <1>1
  <2> QED BY <1>1, <2>1, RangeElement
<1>3. ASSUME IsInjective(s)
      PROVE  IsInjective(t) /\ Range(t) = Range(s) \ {s[1]}
  <2>1. \A i, j \in 1 .. Len(s) : s[i] = s[j] => i = j
    BY <1>3, InjectiveElements
  <2>2. IsInjective(t)
    <3>1. SUFFICES ASSUME NEW i \in 1 .. Len(t), NEW j \in 1 .. Len(t),
                          t[i] = t[j]
                   PROVE  i = j
      BY <1>1, InjectiveElements
    <3>2. s[i + 1] = s[j + 1] /\ i + 1 \in 1 .. Len(s) /\ j + 1 \in 1 .. Len(s)
      BY <1>1, <3>1
    <3>3. i + 1 = j + 1
      BY <2>1, <3>2
    <3> QED BY <3>3
  <2>3. ASSUME NEW x \in Range(t)
        PROVE  x \in Range(s) \ {s[1]}
    <3>1. PICK i \in 1 .. Len(t) : x = t[i]
      BY <1>1, RangeElement
    <3>2. x = s[i + 1] /\ i + 1 \in 1 .. Len(s) /\ i + 1 # 1 /\ 1 \in 1 .. Len(s)
      BY <1>1, <3>1
    <3>3. x # s[1]
      BY <2>1, <3>2
    <3> QED BY <3>2, <3>3, RangeElement
  <2>4. ASSUME NEW x \in Range(s), x # s[1]
        PROVE  x \in Range(t)
    <3>1. PICK i \in 1 .. Len(s) : x = s[i]
      BY RangeElement
    <3>2. i - 1 \in 1 .. Len(t) /\ t[i - 1] = s[i]
      BY <1>1, <2>4, <3>1
    <3> QED BY <1>1, <3>1, <3>2, RangeElement
  <2> QED BY <2>2, <2>3, <2>4
<1>4. t = <<>> <=> Len(s) = 1
  <2>1. t = <<>> => Len(t) = 0
    BY EmptySeq
  <2>2. t # <<>> => Len(t) \in Nat \ {0}
    BY <1>1, EmptySeq
  <2> QED BY <1>1, <2>1, <2>2
<1> QED BY <1>1, <1>2, <1>3, <1>4 DEF t

(* Cutting a sequence in two divides its range.                            *)
LEMMA CutSeq ==
  ASSUME NEW S, NEW s \in Seq(S), NEW k \in 0 .. Len(s)
  PROVE  LET a == SubSeq(s, 1, k)
             b == SubSeq(s, k + 1, Len(s))
         IN
         /\ a \in Seq(S) /\ Len(a) = k
         /\ b \in Seq(S) /\ Len(b) = Len(s) - k
         /\ Range(s) = Range(a) \cup Range(b)
         /\ IsInjective(s) => /\ IsInjective(a) /\ IsInjective(b)
                            /\ Range(a) \cap Range(b) = {}
<1> DEFINE a == SubSeq(s, 1, k)
           b == SubSeq(s, k + 1, Len(s))
<1>1. /\ a \in Seq(S) /\ Len(a) = k
      /\ \A i \in 1 .. k : a[i] = s[i]
  <2>1. \A i \in 1 .. k : s[i] \in S
    OBVIOUS
  <2> QED BY <2>1, SubSeqProperties
<1>2. /\ b \in Seq(S) /\ Len(b) = Len(s) - k
      /\ \A i \in 1 .. Len(s) - k : b[i] = s[k + i]
  <2>1. \A i \in k + 1 .. Len(s) : s[i] \in S
    OBVIOUS
  <2> QED BY <2>1, SubSeqProperties
<1>3. Len(s) \in Nat
  OBVIOUS
<1> HIDE DEF a, b
<1>4. ASSUME NEW x \in Range(a) PROVE \E i \in 1 .. k : x = s[i]
  <2>1. a \in Seq(S)
    BY <1>1
  <2>2. PICK i \in 1 .. Len(a) : x = a[i]
    BY <2>1, RangeElement
  <2> QED BY <1>1, <2>2
<1>5. ASSUME NEW x \in Range(b) PROVE \E i \in k + 1 .. Len(s) : x = s[i]
  <2>1. b \in Seq(S)
    BY <1>2
  <2>2. PICK i \in 1 .. Len(b) : x = b[i]
    BY <2>1, RangeElement
  <2>3. k + i \in k + 1 .. Len(s) /\ x = s[k + i]
    BY <1>2, <1>3, <2>2
  <2> QED BY <2>3
<1>6. ASSUME NEW x \in Range(s)
      PROVE  x \in Range(a) \cup Range(b)
  <2>1. PICK i \in 1 .. Len(s) : x = s[i]
    BY RangeElement
  <2>2. CASE i <= k
    <3>1. i \in 1 .. Len(a) /\ x = a[i]
      BY <1>1, <2>1, <2>2
    <3> QED BY <1>1, <3>1, RangeElement
  <2>3. CASE i > k
    <3>1. i - k \in 1 .. Len(b) /\ x = b[i - k]
      BY <1>2, <1>3, <2>1, <2>3
    <3> QED BY <1>2, <3>1, RangeElement
  <2> QED BY <2>2, <2>3
<1>7. Range(a) \cup Range(b) \subseteq Range(s)
  <2>1. ASSUME NEW x \in Range(a) PROVE x \in Range(s)
    <3>1. PICK i \in 1 .. k : x = s[i]
      BY <1>4
    <3>2. i \in 1 .. Len(s)
      BY <1>3
    <3> QED BY <3>1, <3>2, RangeElement
  <2>2. ASSUME NEW x \in Range(b) PROVE x \in Range(s)
    <3>1. PICK i \in k + 1 .. Len(s) : x = s[i]
      BY <1>5
    <3>2. i \in 1 .. Len(s)
      BY <1>3
    <3> QED BY <3>1, <3>2, RangeElement
  <2> QED BY <2>1, <2>2
<1>8. ASSUME IsInjective(s)
      PROVE  /\ IsInjective(a) /\ IsInjective(b)
             /\ Range(a) \cap Range(b) = {}
  <2>1. \A i, j \in 1 .. Len(s) : s[i] = s[j] => i = j
    BY <1>8, InjectiveElements
  <2>2. IsInjective(a)
    <3>1. \A i, j \in 1 .. Len(a) : a[i] = a[j] => i = j
      BY <1>1, <1>3, <2>1
    <3> QED BY <1>1, <3>1, InjectiveElements
  <2>3. IsInjective(b)
    <3>1. SUFFICES ASSUME NEW i \in 1 .. Len(b), NEW j \in 1 .. Len(b),
                          b[i] = b[j]
                   PROVE  i = j
      BY <1>2, InjectiveElements
    <3>2. s[k + i] = s[k + j] /\ k + i \in 1 .. Len(s) /\ k + j \in 1 .. Len(s)
      BY <1>2, <1>3, <3>1
    <3>3. k + i = k + j
      BY <2>1, <3>2
    <3> QED BY <3>3
  <2>4. ASSUME NEW x \in Range(a), x \in Range(b) PROVE FALSE
    <3>1. PICK i \in 1 .. k : x = s[i]
      BY <1>4
    <3>2. PICK j \in k + 1 .. Len(s) : x = s[j]
      BY <1>5, <2>4
    <3>3. i \in 1 .. Len(s) /\ j \in 1 .. Len(s) /\ i # j
      BY <1>3
    <3> QED BY <2>1, <3>1, <3>2, <3>3
  <2> QED BY <2>2, <2>3, <2>4
<1> QED BY <1>1, <1>2, <1>6, <1>7, <1>8 DEF a, b

(* There are n numbers from 1 to n.                                        *)
LEMMA UpTo ==
  ASSUME NEW n \in Nat
  PROVE  IsFiniteSet(1 .. n) /\ Cardinality(1 .. n) = n
<1>1. Cardinality(1 .. n) = IF 1 > n THEN 0 ELSE n - 1 + 1
  BY FS_Interval
<1>2. IsFiniteSet(1 .. n)
  BY FS_Interval
<1> QED BY <1>1, <1>2

(* A sequence has no more different elements than its length says.         *)
LEMMA RangeIsSmall ==
  ASSUME NEW S, NEW s \in Seq(S)
  PROVE  IsFiniteSet(Range(s)) /\ Cardinality(Range(s)) <= Len(s)
<1>1. Len(s) \in Nat /\ DOMAIN s = 1 .. Len(s)
  OBVIOUS
<1>2. IsFiniteSet(1 .. Len(s)) /\ Cardinality(1 .. Len(s)) = Len(s)
  BY <1>1, UpTo
<1>3. s \in Surjection(1 .. Len(s), Range(s))
  <2>1. \A x \in Range(s) : \E i \in 1 .. Len(s) : s[i] = x
    BY RangeElement
  <2>2. \A i \in 1 .. Len(s) : s[i] \in Range(s)
    BY RangeElement
  <2>3. s \in [1 .. Len(s) -> Range(s)]
    BY <1>1, <2>2
  <2> QED BY <2>1, <2>3 DEF Surjection
<1> QED BY <1>2, <1>3, FS_Surjection

(* A sequence without repeats is no longer than its elements are many.     *)
LEMMA InjectiveIsShort ==
  ASSUME NEW S, IsFiniteSet(S), NEW s \in Seq(S), IsInjective(s)
  PROVE  Len(s) <= Cardinality(S)
<1>1. /\ Len(s) \in Nat /\ s \in [1 .. Len(s) -> S]
      /\ Cardinality(S) \in Nat
  BY FS_CardinalityType
<1>2. IsFiniteSet(1 .. Len(s)) /\ Cardinality(1 .. Len(s)) = Len(s)
  BY <1>1, UpTo
<1>3. \A i, j \in 1 .. Len(s) : s[i] = s[j] => i = j
  BY InjectiveElements
<1>4. ~(Cardinality(S) < Cardinality(1 .. Len(s)))
  BY <1>1, <1>2, <1>3, FS_PigeonHole
<1> QED BY <1>1, <1>2, <1>4

-----------------------------------------------------------------------------
(* Sequences one after the other.                                          *)

(* A function on 1 .. n is a sequence of length n.                         *)
LEMMA FunctionIsSeq ==
  ASSUME NEW n \in Nat, NEW S, NEW f \in [1 .. n -> S]
  PROVE  f \in Seq(S) /\ Len(f) = n
OBVIOUS

(* The head of the second sequence may as well be the end of the first.    *)
LEMMA HeadChangesSides ==
  ASSUME NEW S, NEW s \in Seq(S), NEW t \in Seq(S), t # <<>>
  PROVE  Append(s, Head(t)) \o Tail(t) = s \o t
<1>1. /\ Append(s, Head(t)) \in Seq(S) /\ Tail(t) \in Seq(S)
      /\ Len(Tail(t)) = Len(t) - 1 /\ Len(t) \in Nat \ {0} /\ Len(s) \in Nat
      /\ Len(Append(s, Head(t))) = Len(s) + 1
  OBVIOUS
<1>2. s \o t \in Seq(S) /\ Append(s, Head(t)) \o Tail(t) \in Seq(S)
  BY <1>1, ConcatProperties
<1> QED OBVIOUS

(* The head of the first is the head of both.                              *)
LEMMA HeadOfBoth ==
  ASSUME NEW S, NEW s \in Seq(S), NEW t \in Seq(S), s # <<>>
  PROVE  s \o t # <<>> /\ Head(s \o t) = Head(s) /\ Tail(s \o t) = Tail(s) \o t
OBVIOUS

(* What is appended to the second is appended to both.                     *)
LEMMA AppendToBoth ==
  ASSUME NEW S, NEW s \in Seq(S), NEW t \in Seq(S), NEW e \in S
  PROVE  s \o Append(t, e) = Append(s \o t, e)
OBVIOUS

(* Cut in two and put together a sequence is what it was.                  *)
LEMMA CutAndJoined ==
  ASSUME NEW S, NEW s \in Seq(S), NEW k \in 0 .. Len(s)
  PROVE  SubSeq(s, 1, k) \o SubSeq(s, k + 1, Len(s)) = s
<1>1. Len(s) \in Nat
  OBVIOUS
<1>2. 1 \in 1 .. Len(s) + 1 /\ k \in 1 - 1 .. Len(s) /\ Len(s) \in k .. Len(s)
  BY <1>1
<1>3. SubSeq(s, 1, k) \o SubSeq(s, k + 1, Len(s)) = SubSeq(s, 1, Len(s))
  BY <1>2, ConcatAdjacentSubSeq
<1> QED BY <1>3, SubSeqFull

(* A sequence without its kth element.                                     *)
CutOut(s, k) == SubSeq(s, 1, k - 1) \o SubSeq(s, k + 1, Len(s))

(* It is one shorter, and what was behind the kth moves up by one.         *)
LEMMA CutOutOne ==
  ASSUME NEW S, NEW s \in Seq(S), NEW k \in 1 .. Len(s)
  PROVE  /\ CutOut(s, k) \in Seq(S) /\ Len(CutOut(s, k)) = Len(s) - 1
         /\ \A i \in 1 .. Len(s) - 1 :
              CutOut(s, k)[i] = IF i < k THEN s[i] ELSE s[i + 1]
<1> DEFINE a == SubSeq(s, 1, k - 1)
           b == SubSeq(s, k + 1, Len(s))
<1>1. Len(s) \in Nat /\ \A i \in 1 .. Len(s) : s[i] \in S
  OBVIOUS
<1>2. a \in Seq(S) /\ Len(a) = k - 1 /\ \A i \in 1 .. k - 1 : a[i] = s[i]
  <2>1. \A i \in 1 .. k - 1 : s[i] \in S
    BY <1>1
  <2> QED BY <1>1, <2>1, SubSeqProperties
<1>3. /\ b \in Seq(S) /\ Len(b) = Len(s) - k
      /\ \A i \in 1 .. Len(s) - k : b[i] = s[k + i]
  <2>1. \A i \in k + 1 .. Len(s) : s[i] \in S
    BY <1>1
  <2>2. /\ b \in Seq(S)
        /\ Len(b) = IF k + 1 <= Len(s) THEN Len(s) - (k + 1) + 1 ELSE 0
        /\ \A i \in 1 .. Len(s) - (k + 1) + 1 : b[i] = s[(k + 1) + i - 1]
    BY <1>1, <2>1, SubSeqProperties
  <2> HIDE DEF b
  <2> QED BY <1>1, <2>2
<1>7. CutOut(s, k) = a \o b
  BY DEF CutOut
<1> HIDE DEF a, b
<1>4. /\ a \o b \in Seq(S) /\ Len(a \o b) = Len(a) + Len(b)
      /\ \A i \in 1 .. Len(a) + Len(b) :
           (a \o b)[i] = IF i <= Len(a) THEN a[i] ELSE b[i - Len(a)]
  BY <1>2, <1>3, ConcatProperties
<1>5. ASSUME NEW i \in 1 .. Len(s) - 1
      PROVE  (a \o b)[i] = IF i < k THEN s[i] ELSE s[i + 1]
  <2>1. i \in 1 .. Len(a) + Len(b)
    BY <1>1, <1>2, <1>3
  <2>2. CASE i < k
    BY <1>1, <1>2, <1>4, <2>1, <2>2
  <2>3. CASE ~(i < k)
    <3>1. i - (k - 1) \in 1 .. Len(s) - k /\ ~(i <= k - 1)
      BY <1>1, <2>3
    <3>2. (a \o b)[i] = s[k + (i - (k - 1))]
      BY <1>2, <1>3, <1>4, <2>1, <3>1
    <3>3. k + (i - (k - 1)) = i + 1
      BY <1>1
    <3> QED BY <2>3, <3>2, <3>3
  <2> QED BY <2>2, <2>3
<1>6. Len(a) + Len(b) = Len(s) - 1
  BY <1>1, <1>2, <1>3
<1> QED BY <1>4, <1>5, <1>6, <1>7

(* Without the head of the second sequence both are without that element.  *)
LEMMA HeadOfSecondCutOut ==
  ASSUME NEW S, NEW s \in Seq(S), NEW t \in Seq(S), t # <<>>
  PROVE  /\ Len(s) + 1 \in 1 .. Len(s \o t)
         /\ s \o Tail(t) = CutOut(s \o t, Len(s) + 1)
<1> DEFINE u == s \o t
           v == s \o Tail(t)
<1>1. /\ Len(s) \in Nat /\ Len(t) \in Nat \ {0} /\ Tail(t) \in Seq(S)
      /\ Len(Tail(t)) = Len(t) - 1
      /\ \A i \in 1 .. Len(t) - 1 : Tail(t)[i] = t[i + 1]
  OBVIOUS
<1>2. /\ u \in Seq(S) /\ Len(u) = Len(s) + Len(t)
      /\ \A i \in 1 .. Len(s) + Len(t) :
           u[i] = IF i <= Len(s) THEN s[i] ELSE t[i - Len(s)]
  BY ConcatProperties
<1>3. /\ v \in Seq(S) /\ Len(v) = Len(s) + Len(Tail(t))
      /\ \A i \in 1 .. Len(s) + Len(Tail(t)) :
           v[i] = IF i <= Len(s) THEN s[i] ELSE Tail(t)[i - Len(s)]
  BY <1>1, ConcatProperties
<1> HIDE DEF u, v
<1>4. Len(s) + 1 \in 1 .. Len(u)
  BY <1>1, <1>2
<1>5. /\ CutOut(u, Len(s) + 1) \in Seq(S)
      /\ Len(CutOut(u, Len(s) + 1)) = Len(u) - 1
      /\ \A i \in 1 .. Len(u) - 1 :
           CutOut(u, Len(s) + 1)[i] = IF i < Len(s) + 1 THEN u[i] ELSE u[i + 1]
  BY <1>2, <1>4, CutOutOne
<1>6. ASSUME NEW i \in 1 .. Len(v)
      PROVE  v[i] = CutOut(u, Len(s) + 1)[i]
  <2>1. i \in 1 .. Len(s) + Len(t) - 1 /\ i \in 1 .. Len(u) - 1
    BY <1>1, <1>2, <1>3
  <2>2. CASE i <= Len(s)
    BY <1>1, <1>2, <1>3, <1>5, <2>1, <2>2
  <2>3. CASE ~(i <= Len(s))
    <3>1. /\ i - Len(s) \in 1 .. Len(t) - 1 /\ i - Len(s) + 1 = (i + 1) - Len(s)
          /\ i + 1 \in 1 .. Len(s) + Len(t) /\ ~(i + 1 <= Len(s))
          /\ ~(i < Len(s) + 1)
      BY <1>1, <2>1, <2>3
    <3>2. v[i] = t[i - Len(s) + 1]
      BY <1>1, <1>3, <2>3, <3>1
    <3>3. CutOut(u, Len(s) + 1)[i] = t[(i + 1) - Len(s)]
      BY <1>2, <1>5, <2>1, <3>1
    <3> QED BY <3>1, <3>2, <3>3
  <2> QED BY <2>2, <2>3
<1>7. Len(v) = Len(CutOut(u, Len(s) + 1))
  BY <1>1, <1>2, <1>3, <1>5
<1>8. v = CutOut(u, Len(s) + 1)
  BY <1>3, <1>5, <1>6, <1>7, SeqEqual
<1> QED BY <1>4, <1>8 DEF u, v

-----------------------------------------------------------------------------
(* Sizes.                                                                  *)

(* Taking an element of a finite set out, and putting one in.              *)
LEMMA OneMoreOneLess ==
  ASSUME NEW S, IsFiniteSet(S), NEW x
  PROVE  /\ Cardinality(S) \in Nat
         /\ Cardinality(S \cup {x}) <= Cardinality(S) + 1
         /\ x \notin S => Cardinality(S \cup {x}) = Cardinality(S) + 1
         /\ x \in S => Cardinality(S \ {x}) = Cardinality(S) - 1
<1>1. Cardinality(S) \in Nat
  BY FS_CardinalityType
<1>2. Cardinality(S \cup {x})
        = IF x \in S THEN Cardinality(S) ELSE Cardinality(S) + 1
  BY FS_AddElement
<1>3. Cardinality(S \ {x})
        = IF x \in S THEN Cardinality(S) - 1 ELSE Cardinality(S)
  BY FS_RemoveElement
<1> QED BY <1>1, <1>2, <1>3

(* Two sets have together no more elements than the sum of their sizes.    *)
LEMMA UnionIsSmall ==
  ASSUME NEW S, NEW T, IsFiniteSet(S), IsFiniteSet(T)
  PROVE  /\ IsFiniteSet(S \cup T)
         /\ Cardinality(S) \in Nat /\ Cardinality(T) \in Nat
         /\ Cardinality(S \cup T) \in Nat
         /\ Cardinality(S \cup T) <= Cardinality(S) + Cardinality(T)
         /\ S \cap T = {} =>
              Cardinality(S \cup T) = Cardinality(S) + Cardinality(T)
<1>1. /\ IsFiniteSet(S \cup T) /\ IsFiniteSet(S \cap T)
      /\ Cardinality(S \cup T)
           = Cardinality(S) + Cardinality(T) - Cardinality(S \cap T)
  <2>1. IsFiniteSet(S \cup T)
    BY FS_Union
  <2>2. S \cap T \in SUBSET S
    OBVIOUS
  <2>3. IsFiniteSet(S \cap T)
    BY <2>2, FS_Subset
  <2> QED BY <2>1, <2>3, FS_Union
<1>2. /\ Cardinality(S) \in Nat /\ Cardinality(T) \in Nat
      /\ Cardinality(S \cap T) \in Nat /\ Cardinality(S \cup T) \in Nat
  BY <1>1, FS_CardinalityType
<1>3. S \cap T = {} => Cardinality(S \cap T) = 0
  BY FS_EmptySet
<1> QED BY <1>1, <1>2, <1>3

(* A part of a set is no larger than the whole.                            *)
LEMMA PartIsSmall ==
  ASSUME NEW S, IsFiniteSet(S), NEW T \in SUBSET S
  PROVE  /\ IsFiniteSet(T)
         /\ Cardinality(T) \in Nat /\ Cardinality(S) \in Nat
         /\ Cardinality(T) <= Cardinality(S)
         /\ Cardinality(S) = Cardinality(T) => S = T
BY FS_Subset, FS_CardinalityType

(* A transmit queue that has room for the packets it accepts, once it has  *)
(* reclaimed the descriptors of freed ones, does not outgrow its limit.    *)
LEMMA BurstFits ==
  ASSUME NEW Q, NEW D, IsFiniteSet(Q), IsFiniteSet(D), NEW F \in SUBSET D,
         NEW A, IsFiniteSet(A), NEW limit \in Nat,
         Cardinality(Q) + Cardinality(D) <= limit,
         Cardinality(A) <= limit - Cardinality(Q) - Cardinality(D \ F)
  PROVE  Cardinality(Q \cup A) + Cardinality(D \ F) <= limit
<1>1. /\ Cardinality(D \ F) \in Nat /\ Cardinality(Q) \in Nat
      /\ Cardinality(A) \in Nat
  <2>1. D \ F \in SUBSET D
    OBVIOUS
  <2> QED BY <2>1, PartIsSmall, FS_CardinalityType
<1>2. /\ Cardinality(Q \cup A) \in Nat
      /\ Cardinality(Q \cup A) <= Cardinality(Q) + Cardinality(A)
  BY UnionIsSmall
<1> QED BY <1>1, <1>2

-----------------------------------------------------------------------------
(* Owners.                                                                 *)

(* The first n places share no mbuf, hold all of S, hold nothing else.     *)
Apart(n, places) ==
  \A g, h \in 1 .. n : g # h => places[g] \cap places[h] = {}
HoldAll(n, places, S) == \A m \in S : \E h \in 1 .. n : m \in places[h]
HoldOnly(n, places, S) == \A h \in 1 .. n : places[h] \subseteq S

(* Between a and b, mbufs change hands among three places only, each to    *)
(* one of them.                                                            *)
Exchange(n, a, b, i, j, k) ==
  /\ \A h \in (1 .. n) \ {i, j, k} : b[h] = a[h]
  /\ b[i] \cup b[j] \cup b[k] = a[i] \cup a[j] \cup a[k]
  /\ b[i] \cap b[j] = {} /\ b[i] \cap b[k] = {} /\ b[j] \cap b[k] = {}

(* What one place, or two places together, held before and hold after: the *)
(* mbufs of ms go from i to k, or from i and j to k, or from k to i and j. *)
Moved(n, a, b, i, k, ms) ==
  /\ \A h \in (1 .. n) \ {i, k} : b[h] = a[h]
  /\ ms \subseteq a[i] /\ b[i] = a[i] \ ms /\ b[k] = a[k] \cup ms

TakenFrom(n, a, b, i, j, k, ms) ==
  /\ \A h \in (1 .. n) \ {i, j, k} : b[h] = a[h]
  /\ ms \subseteq a[i] \cup a[j]
  /\ b[i] \cup b[j] = (a[i] \cup a[j]) \ ms /\ b[i] \cap b[j] = {}
  /\ b[k] = a[k] \cup ms

GivenTo(n, a, b, i, j, k, ms) ==
  /\ \A h \in (1 .. n) \ {i, j, k} : b[h] = a[h]
  /\ ms \subseteq a[k]
  /\ b[i] \cup b[j] = a[i] \cup a[j] \cup ms /\ b[i] \cap b[j] = {}
  /\ b[k] = a[k] \ ms

(* What holds of the places before holds of them after.                    *)
OwnersKept(n, a, b) ==
  /\ Apart(n, b)
  /\ \A S : HoldAll(n, a, S) => HoldAll(n, b, S)
  /\ \A S : HoldOnly(n, a, S) => HoldOnly(n, b, S)

(* An exchange leaves every mbuf with one owner.                           *)
LEMMA ExchangeKeepsOwners ==
  ASSUME NEW n \in Nat, NEW a, NEW b,
         NEW i \in 1 .. n, NEW j \in 1 .. n, NEW k \in 1 .. n,
         Apart(n, a), Exchange(n, a, b, i, j, k)
  PROVE  OwnersKept(n, a, b)
<1> USE DEF Exchange
<1>1. ASSUME NEW S, HoldAll(n, a, S), NEW m \in S
      PROVE  \E h \in 1 .. n : m \in b[h]
  <2>1. PICK h \in 1 .. n : m \in a[h]
    BY <1>1 DEF HoldAll
  <2>2. CASE h \in {i, j, k}
    BY <2>1, <2>2
  <2>3. CASE h \notin {i, j, k}
    BY <2>1, <2>3
  <2> QED BY <2>2, <2>3
<1>2. ASSUME NEW g \in 1 .. n, NEW h \in 1 .. n, g # h,
             NEW m, m \in b[g], m \in b[h]
      PROVE  FALSE
  <2>1. \A x, y \in 1 .. n : x # y => ~(m \in a[x] /\ m \in a[y])
    BY DEF Apart
  <2>2. CASE g \in {i, j, k} /\ h \in {i, j, k}
    BY <1>2, <2>2
  <2>3. CASE g \in {i, j, k} /\ h \notin {i, j, k}
    <3>1. PICK x \in {i, j, k} : m \in a[x]
      BY <1>2, <2>3
    <3> QED BY <1>2, <2>1, <2>3, <3>1
  <2>4. CASE g \notin {i, j, k} /\ h \in {i, j, k}
    <3>1. PICK x \in {i, j, k} : m \in a[x]
      BY <1>2, <2>4
    <3> QED BY <1>2, <2>1, <2>4, <3>1
  <2>5. CASE g \notin {i, j, k} /\ h \notin {i, j, k}
    BY <1>2, <2>1, <2>5
  <2> QED BY <2>2, <2>3, <2>4, <2>5
<1>3. ASSUME NEW S, HoldOnly(n, a, S), NEW h \in 1 .. n, NEW m \in b[h]
      PROVE  m \in S
  <2>1. a[i] \subseteq S /\ a[j] \subseteq S /\ a[k] \subseteq S /\ a[h] \subseteq S
    BY <1>3 DEF HoldOnly
  <2>2. CASE h \in {i, j, k}
    BY <1>3, <2>1, <2>2
  <2>3. CASE h \notin {i, j, k}
    BY <1>3, <2>1, <2>3
  <2> QED BY <2>2, <2>3
<1>4. Apart(n, b)
  BY <1>2 DEF Apart
<1>5. \A S : HoldAll(n, a, S) => HoldAll(n, b, S)
  BY <1>1 DEF HoldAll
<1>6. \A S : HoldOnly(n, a, S) => HoldOnly(n, b, S)
  BY <1>3 DEF HoldOnly
<1> QED BY <1>4, <1>5, <1>6 DEF OwnersKept

(* So does a move from one place to another ...                            *)
LEMMA MovedKeepsOwners ==
  ASSUME NEW n \in Nat, NEW a, NEW b, NEW i \in 1 .. n, NEW k \in 1 .. n,
         i # k, NEW ms, Apart(n, a), Moved(n, a, b, i, k, ms)
  PROVE  OwnersKept(n, a, b)
<1>1. a[i] \cap a[k] = {}
  BY DEF Apart
<1>2. CASE \E h \in 1 .. n : h # i /\ h # k
  <2>1. PICK h \in 1 .. n : h # i /\ h # k
    BY <1>2
  <2>2. a[h] \cap a[i] = {} /\ a[h] \cap a[k] = {} /\ b[h] = a[h]
    BY <2>1 DEF Apart, Moved
  <2>3. Exchange(n, a, b, i, k, h)
    <3>1. \A g \in (1 .. n) \ {i, k, h} : b[g] = a[g]
      BY DEF Moved
    <3>2. /\ b[i] \cup b[k] \cup b[h] = a[i] \cup a[k] \cup a[h]
          /\ b[i] \cap b[k] = {} /\ b[i] \cap b[h] = {} /\ b[k] \cap b[h] = {}
      BY <1>1, <2>2 DEF Moved
    <3> QED BY <3>1, <3>2 DEF Exchange
  <2> QED BY <2>3, ExchangeKeepsOwners
<1>3. CASE \A h \in 1 .. n : h = i \/ h = k
  <2>1. b[i] \cap b[k] = {} /\ b[i] \cup b[k] = a[i] \cup a[k]
    BY <1>1 DEF Moved
  <2>2. Apart(n, b)
    BY <1>3, <2>1 DEF Apart
  <2>3. \A S : HoldAll(n, a, S) => HoldAll(n, b, S)
    <3> SUFFICES ASSUME NEW S, HoldAll(n, a, S), NEW m \in S
                 PROVE  \E h \in 1 .. n : m \in b[h]
      BY DEF HoldAll
    <3>1. m \in a[i] \cup a[k]
      BY <1>3 DEF HoldAll
    <3> QED BY <2>1, <3>1
  <2>4. \A S : HoldOnly(n, a, S) => HoldOnly(n, b, S)
    BY <1>3, <2>1 DEF HoldOnly
  <2> QED BY <2>2, <2>3, <2>4 DEF OwnersKept
<1> QED BY <1>2, <1>3

(* ... what an allocation takes ...                                        *)
LEMMA TakenKeepsOwners ==
  ASSUME NEW n \in Nat, NEW a, NEW b,
         NEW i \in 1 .. n, NEW j \in 1 .. n, NEW k \in 1 .. n,
         i # j, i # k, j # k, NEW ms,
         Apart(n, a), TakenFrom(n, a, b, i, j, k, ms)
  PROVE  OwnersKept(n, a, b)
<1>1. a[i] \cap a[j] = {} /\ a[i] \cap a[k] = {} /\ a[j] \cap a[k] = {}
  BY DEF Apart
<1>2. /\ b[i] \cup b[j] \cup b[k] = a[i] \cup a[j] \cup a[k]
      /\ b[i] \cap b[j] = {} /\ b[i] \cap b[k] = {} /\ b[j] \cap b[k] = {}
  BY <1>1 DEF TakenFrom
<1>3. Exchange(n, a, b, i, j, k)
  BY <1>2 DEF Exchange, TakenFrom
<1> QED BY <1>3, ExchangeKeepsOwners

(* ... and what a free gives back.                                         *)
LEMMA GivenKeepsOwners ==
  ASSUME NEW n \in Nat, NEW a, NEW b,
         NEW i \in 1 .. n, NEW j \in 1 .. n, NEW k \in 1 .. n,
         i # j, i # k, j # k, NEW ms,
         Apart(n, a), GivenTo(n, a, b, i, j, k, ms)
  PROVE  OwnersKept(n, a, b)
<1>1. a[i] \cap a[j] = {} /\ a[i] \cap a[k] = {} /\ a[j] \cap a[k] = {}
  BY DEF Apart
<1>2. /\ b[i] \cup b[j] \cup b[k] = a[i] \cup a[j] \cup a[k]
      /\ b[i] \cap b[j] = {} /\ b[i] \cap b[k] = {} /\ b[j] \cap b[k] = {}
  BY <1>1 DEF GivenTo
<1>3. Exchange(n, a, b, i, j, k)
  BY <1>2 DEF Exchange, GivenTo
<1> QED BY <1>3, ExchangeKeepsOwners

=============================================================================
