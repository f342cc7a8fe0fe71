---------------------------- MODULE QueueLemmas ----------------------------
(***************************************************************************)
(* Facts about the queues of the kernel: sequences without repetition, as  *)
(* a list is while each tag is linked into it at most once.  What matters  *)
(* of a list operation is which elements it leaves on the list, and that   *)
(* it repeats none.                                                        *)
(***************************************************************************)
EXTENDS Integers, SequencesExt, SequenceTheorems, TLAPS

\* What an element of the range of a sequence is.
LEMMA RangeLemma ==
  ASSUME NEW S, NEW s \in Seq(S)
  PROVE  /\ Range(s) \subseteq S
         /\ \A x : x \in Range(s) <=> \E i \in 1 .. Len(s) : s[i] = x
BY LenProperties DEF Range

\* dlist_push_back of an element that is not on the list.
LEMMA PushBackLemma ==
  ASSUME NEW S, NEW s \in Seq(S), NEW e \in S,
         IsInjective(s), e \notin Range(s)
  PROVE  /\ Append(s, e) \in Seq(S)
         /\ IsInjective(Append(s, e))
         /\ Range(Append(s, e)) = Range(s) \cup {e}
         /\ Append(s, e) # <<>>
<1> DEFINE r == Append(s, e)
<1>1. /\ r \in Seq(S) /\ Len(r) = Len(s) + 1
      /\ \A i \in 1 .. Len(s) : r[i] = s[i]
      /\ r[Len(s) + 1] = e
  BY AppendProperties
<1>2. /\ DOMAIN s = 1 .. Len(s) /\ Len(s) \in Nat
      /\ DOMAIN r = 1 .. Len(s) + 1
  BY <1>1, LenProperties
<1> HIDE DEF r
<1>3. \A i \in 1 .. Len(s) : s[i] # e
  BY RangeLemma
<1>4. IsInjective(r)
  BY <1>1, <1>2, <1>3 DEF IsInjective
<1>5. Range(r) = Range(s) \cup {e}
  <2>1. ASSUME NEW x PROVE x \in Range(r) => x \in Range(s) \cup {e}
    BY <1>1, <1>2, RangeLemma
  <2>2. ASSUME NEW x \in Range(s) PROVE x \in Range(r)
    <3>1. PICK i \in 1 .. Len(s) : s[i] = x
      BY RangeLemma
    <3>2. i \in 1 .. Len(r) /\ r[i] = x
      BY <1>1, <1>2, <3>1
    <3> QED BY <1>1, <3>2, RangeLemma
  <2>3. e \in Range(r)
    BY <1>1, <1>2, RangeLemma
  <2> QED BY <2>1, <2>2, <2>3
<1>6. r # <<>>
  BY <1>1, <1>2, EmptySeq
<1> QED BY <1>1, <1>4, <1>5, <1>6 DEF r

\* dlist_push_front of an element that is not on the list.
LEMMA PushFrontLemma ==
  ASSUME NEW S, NEW s \in Seq(S), NEW e \in S,
         IsInjective(s), e \notin Range(s)
  PROVE  /\ <<e>> \o s \in Seq(S)
         /\ IsInjective(<<e>> \o s)
         /\ Range(<<e>> \o s) = Range(s) \cup {e}
<1> DEFINE r == <<e>> \o s
<1>0. <<e>> \in Seq(S) /\ Len(<<e>>) = 1 /\ <<e>>[1] = e
  OBVIOUS
<1>1. /\ r \in Seq(S) /\ Len(r) = Len(s) + 1
      /\ r[1] = e
      /\ \A i \in 1 .. Len(s) : r[i + 1] = s[i]
  <2>1. /\ r \in Seq(S) /\ Len(r) = 1 + Len(s)
        /\ \A i \in 1 .. 1 + Len(s) :
             r[i] = IF i <= 1 THEN <<e>>[i] ELSE s[i - 1]
    BY <1>0, ConcatProperties
  <2>2. Len(s) \in Nat
    BY LenProperties
  <2> HIDE DEF r
  <2>3. ASSUME NEW i \in 1 .. Len(s) PROVE r[i + 1] = s[i]
    <3>1. i + 1 \in 1 .. 1 + Len(s) /\ ~ (i + 1 <= 1) /\ (i + 1) - 1 = i
      BY <2>2
    <3> QED BY <2>1, <3>1
  <2> QED BY <1>0, <2>1, <2>2, <2>3
<1>2. /\ DOMAIN s = 1 .. Len(s) /\ Len(s) \in Nat
      /\ DOMAIN r = 1 .. Len(s) + 1
  BY <1>1, LenProperties
<1> HIDE DEF r
<1>3. \A i \in 1 .. Len(s) : s[i] # e
  BY RangeLemma
<1>7. ASSUME NEW i \in 2 .. Len(s) + 1
      PROVE  i - 1 \in 1 .. Len(s) /\ r[i] = s[i - 1]
  <2>1. i - 1 \in 1 .. Len(s) /\ (i - 1) + 1 = i
    BY <1>2
  <2> QED BY <1>1, <2>1
<1>4. IsInjective(r)
  <2> SUFFICES ASSUME NEW i \in 1 .. Len(s) + 1, NEW j \in 1 .. Len(s) + 1, r[i] = r[j]
               PROVE  i = j
    BY <1>2 DEF IsInjective
  <2>1. CASE i = 1
    BY <1>1, <1>2, <1>3, <1>7, <2>1
  <2>2. CASE j = 1
    BY <1>1, <1>2, <1>3, <1>7, <2>2
  <2>3. CASE i # 1 /\ j # 1
    <3>1. i - 1 = j - 1
      BY <1>2, <1>7, <2>3 DEF IsInjective
    <3> QED BY <3>1
  <2> QED BY <2>1, <2>2, <2>3
<1>5. Range(r) = Range(s) \cup {e}
  <2>1. ASSUME NEW x \in Range(r) PROVE x \in Range(s) \cup {e}
    <3>1. PICK i \in 1 .. Len(s) + 1 : r[i] = x
      BY <1>1, RangeLemma
    <3>2. CASE i = 1
      BY <1>1, <3>1, <3>2
    <3>3. CASE i # 1
      BY <1>2, <1>7, <3>1, <3>3, RangeLemma
    <3> QED BY <3>2, <3>3
  <2>2. ASSUME NEW x \in Range(s) PROVE x \in Range(r)
    <3>1. PICK i \in 1 .. Len(s) : s[i] = x
      BY RangeLemma
    <3>2. i + 1 \in 1 .. Len(r) /\ r[i + 1] = x
      BY <1>1, <1>2, <3>1
    <3> QED BY <1>1, <3>2, RangeLemma
  <2>3. e \in Range(r)
    <3>1. 1 \in 1 .. Len(r)
      BY <1>1, <1>2
    <3> QED BY <1>1, <3>1, RangeLemma
  <2> QED BY <2>1, <2>2, <2>3
<1> QED BY <1>1, <1>4, <1>5 DEF r

\* dlist_remove of the k-th element.
LEMMA RemoveLemma ==
  ASSUME NEW S, NEW s \in Seq(S), NEW k \in 1 .. Len(s), IsInjective(s)
  PROVE  /\ RemoveAt(s, k) \in Seq(S)
         /\ IsInjective(RemoveAt(s, k))
         /\ Range(RemoveAt(s, k)) = Range(s) \ {s[k]}
<1> DEFINE a == SubSeq(s, 1, k - 1)
           b == SubSeq(s, k + 1, Len(s))
           r == RemoveAt(s, k)
           n == Len(s)
<1>1. /\ n \in Nat /\ k \in Nat /\ 1 <= k /\ k <= n
      /\ DOMAIN s = 1 .. n
  BY LenProperties
<1>a. /\ a \in Seq(S) /\ Len(a) = k - 1
      /\ \A i \in 1 .. k - 1 : a[i] = s[i]
  BY <1>1
<1>b. /\ b \in Seq(S) /\ Len(b) = n - k
      /\ \A i \in 1 .. n - k : b[i] = s[i + k]
  <2>1. k + 1 \in 1 .. Len(s) + 1 /\ Len(s) \in k .. Len(s)
    BY <1>1 DEF n
  <2>2. /\ b \in Seq(S)
        /\ Len(b) = IF k + 1 <= Len(s) THEN Len(s) - (k + 1) + 1 ELSE 0
        /\ \A i \in 1 .. Len(s) - (k + 1) + 1 : b[i] = s[k + 1 + i - 1]
    BY <2>1, SubSeqProperties
  <2> HIDE DEF b
  <2>3. ASSUME NEW i \in 1 .. n - k PROVE b[i] = s[i + k]
    <3>1. i \in 1 .. Len(s) - (k + 1) + 1 /\ k + 1 + i - 1 = i + k
      BY <1>1 DEF n
    <3> QED BY <2>2, <3>1
  <2>4. Len(b) = n - k
    <3>1. Len(b) = IF k + 1 <= n THEN n - (k + 1) + 1 ELSE 0
      BY <2>2 DEF n
    <3>2. n \in Nat /\ k \in Nat /\ k <= n
      BY <1>1
    <3> HIDE DEF n
    <3> QED BY <3>1, <3>2
  <2> QED BY <2>2, <2>3, <2>4
<1>c. r = a \o b
  BY DEF RemoveAt
<1> HIDE DEF a, b, r, n
<1>2. /\ r \in Seq(S) /\ Len(r) = n - 1
      /\ \A i \in 1 .. n - 1 :
           r[i] = IF i <= Len(a) THEN a[i] ELSE b[i - Len(a)]
  BY <1>1, <1>a, <1>b, <1>c, ConcatProperties
<1>3. ASSUME NEW i \in 1 .. n - 1
      PROVE  r[i] = IF i < k THEN s[i] ELSE s[i + 1]
  <2>1. CASE i < k
    BY <1>1, <1>2, <1>a, <2>1
  <2>2. CASE i >= k
    <3>1. i - (k - 1) \in 1 .. n - k /\ (i - (k - 1)) + k = i + 1
      BY <1>1, <2>2
    <3> QED BY <1>1, <1>2, <1>a, <1>b, <2>2, <3>1
  <2> QED BY <1>1, <2>1, <2>2
<1>4. DOMAIN r = 1 .. n - 1
  BY <1>2, LenProperties
<1>5. IsInjective(r)
  <2> SUFFICES ASSUME NEW i \in 1 .. n - 1, NEW j \in 1 .. n - 1, r[i] = r[j]
               PROVE  i = j
    BY <1>4 DEF IsInjective
  <2>1. \A x, y \in 1 .. n : s[x] = s[y] => x = y
    BY <1>1 DEF IsInjective
  <2> QED BY <1>1, <1>3, <2>1
<1>6. ASSUME NEW x \in Range(r) PROVE x \in Range(s) \ {s[k]}
  <2>1. PICK i \in 1 .. n - 1 : r[i] = x
    BY <1>2, RangeLemma
  <2>2. \A u, v \in 1 .. n : s[u] = s[v] => u = v
    BY <1>1 DEF IsInjective
  <2>3. \E j \in 1 .. n : s[j] = x /\ j # k
    BY <1>1, <1>3, <2>1
  <2> QED BY <1>1, <2>2, <2>3, RangeLemma DEF n
<1>7. ASSUME NEW x \in Range(s), x # s[k] PROVE x \in Range(r)
  <2>1. PICK i \in 1 .. n : s[i] = x
    BY RangeLemma DEF n
  <2>2. \E j \in 1 .. n - 1 : r[j] = x
    <3>1. CASE i < k
      BY <1>1, <1>3, <2>1, <3>1
    <3>2. CASE i > k
      <4>1. i - 1 \in 1 .. n - 1 /\ ~ (i - 1 < k) /\ (i - 1) + 1 = i
        BY <1>1, <3>2
      <4> QED BY <1>3, <2>1, <4>1
    <3> QED BY <1>1, <1>7, <2>1, <3>1, <3>2
  <2> QED BY <1>2, <2>2, RangeLemma
<1> QED BY <1>2, <1>5, <1>6, <1>7 DEF r

\* dlist_pop_front of a list that is not empty.
LEMMA PopFrontLemma ==
  ASSUME NEW S, NEW s \in Seq(S), s # <<>>, IsInjective(s)
  PROVE  /\ Head(s) \in Range(s)
         /\ Tail(s) \in Seq(S)
         /\ IsInjective(Tail(s))
         /\ Range(Tail(s)) = Range(s) \ {Head(s)}
<1>1. /\ Len(s) \in Nat \ {0} /\ DOMAIN s = 1 .. Len(s)
      /\ Head(s) = s[1]
      /\ Tail(s) \in Seq(S) /\ Len(Tail(s)) = Len(s) - 1
      /\ \A i \in 1 .. Len(s) - 1 : Tail(s)[i] = s[i + 1]
  BY EmptySeq, LenProperties, HeadTailProperties
<1> DEFINE r == Tail(s)
           n == Len(s)
<1>2. DOMAIN r = 1 .. n - 1
  BY <1>1, LenProperties
<1>3. \A x, y \in 1 .. n : s[x] = s[y] => x = y
  BY <1>1 DEF IsInjective
<1>4. /\ n \in Nat \ {0} /\ r \in Seq(S) /\ Len(r) = n - 1
      /\ \A i \in 1 .. n - 1 : r[i] = s[i + 1]
  BY <1>1
<1>5. Head(s) \in Range(s)
  BY <1>1, RangeLemma
<1>6. \A x : x \in Range(s) <=> \E i \in 1 .. n : s[i] = x
  BY RangeLemma
<1> HIDE DEF r, n
<1>7. \A x : x \in Range(r) <=> \E i \in 1 .. n - 1 : r[i] = x
  BY <1>4, RangeLemma
<1>8. IsInjective(r)
  <2> SUFFICES ASSUME NEW i \in 1 .. n - 1, NEW j \in 1 .. n - 1, r[i] = r[j]
               PROVE  i = j
    BY <1>2 DEF IsInjective
  <2> QED BY <1>3, <1>4
<1>9. ASSUME NEW x \in Range(r) PROVE x \in Range(s) /\ x # s[1]
  BY <1>3, <1>4, <1>6, <1>7
<1>10. ASSUME NEW x \in Range(s), x # s[1] PROVE x \in Range(r)
  <2>1. PICK i \in 1 .. n : s[i] = x
    BY <1>6
  <2>2. i - 1 \in 1 .. n - 1 /\ (i - 1) + 1 = i
    BY <1>4, <1>10, <2>1
  <2>3. r[i - 1] = x
    BY <1>4, <2>1, <2>2
  <2> QED BY <1>7, <2>2, <2>3
<1> QED BY <1>1, <1>4, <1>5, <1>8, <1>9, <1>10 DEF r
=============================================================================
