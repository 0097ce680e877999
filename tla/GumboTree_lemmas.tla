-------------------------- MODULE GumboTree_lemmas --------------------------
(***************************************************************************)
(* Lemmas about the operators of GumboTree that more than one module uses: *)
(* what the operations on a list of children make of it, where an element  *)
(* of a list is, which nodes the ancestors of a node are, and that the     *)
(* operations on a node table keep it sound.                               *)
(***************************************************************************)
EXTENDS GumboTree, FoldLemmas, SequenceTheorems, TLAPS

-----------------------------------------------------------------------------
(***************************************************************************)
(* One element inserted in a list, one removed.                            *)
(***************************************************************************)

\* gumbo_vector_insert_at: the elements from position i on move one place back.
LEMMA InsertAtProperties ==
    ASSUME NEW S, NEW s \in Seq(S), NEW i, NEW e \in S, i \in 1..(Len(s) + 1)
    PROVE  /\ InsertAt(s, i, e) \in Seq(S)
           /\ Len(InsertAt(s, i, e)) = Len(s) + 1
           /\ \A j \in 1..(Len(s) + 1) :
                InsertAt(s, i, e)[j] = IF j < i THEN s[j] ELSE IF j = i THEN e ELSE s[j - 1]
  <1> DEFINE front == SubSeq(s, 1, i - 1)
             back  == SubSeq(s, i, Len(s))
  <1>0. Len(s) \in Nat /\ i \in Nat
    OBVIOUS
  <1>1. /\ front \in Seq(S) /\ Len(front) = i - 1
        /\ \A j \in 1..(i - 1) : front[j] = s[j]
    BY SubSeqProperties
  <1>2. /\ back \in Seq(S) /\ Len(back) = Len(s) + 1 - i
        /\ \A j \in 1..(Len(s) + 1 - i) : back[j] = s[i + j - 1]
    BY SubSeqProperties
  <1>3. <<e>> \in Seq(S) /\ Len(<<e>>) = 1 /\ <<e>>[1] = e
    OBVIOUS
  <1> HIDE DEF front, back
  <1> DEFINE left == front \o <<e>>
  <1>4. /\ left \in Seq(S) /\ Len(left) = i
        /\ \A j \in 1..i : left[j] = IF j < i THEN s[j] ELSE e
    <2>1. Len(front) + Len(<<e>>) = i
      BY <1>0, <1>1, <1>3
    <2>2. /\ left \in Seq(S) /\ Len(left) = Len(front) + Len(<<e>>)
          /\ \A j \in 1..(Len(front) + Len(<<e>>)) :
                left[j] = IF j <= Len(front) THEN front[j] ELSE <<e>>[j - Len(front)]
      BY <1>1, <1>3, ConcatProperties
    <2> HIDE DEF left
    <2>3. ASSUME NEW j \in 1..i
          PROVE  left[j] = IF j < i THEN s[j] ELSE e
      <3>1. left[j] = IF j <= i - 1 THEN front[j] ELSE <<e>>[j - (i - 1)]
        BY <1>1, <2>1, <2>2
      <3>2. CASE j < i
        BY <1>0, <1>1, <3>1, <3>2
      <3>3. CASE j = i
        BY <1>0, <1>3, <3>1, <3>3
      <3>4. j < i \/ j = i
        BY <1>0
      <3> QED
        BY <1>0, <3>2, <3>3, <3>4
    <2> QED
      BY <2>1, <2>2, <2>3
  <1>5. InsertAt(s, i, e) = left \o back
    BY DEF InsertAt, left, front, back
  <1> HIDE DEF left
  <1>6. /\ left \o back \in Seq(S)
        /\ Len(left \o back) = Len(s) + 1
        /\ \A j \in 1..(Len(s) + 1) :
              (left \o back)[j] = IF j <= i THEN left[j] ELSE back[j - i]
    <2>1. Len(left) + Len(back) = Len(s) + 1
      BY <1>0, <1>2, <1>4
    <2>2. /\ left \o back \in Seq(S)
          /\ Len(left \o back) = Len(left) + Len(back)
          /\ \A j \in 1..(Len(left) + Len(back)) :
                (left \o back)[j] = IF j <= Len(left) THEN left[j] ELSE back[j - Len(left)]
      BY <1>2, <1>4, ConcatProperties
    <2> QED
      BY <1>4, <2>1, <2>2
  <1>7. ASSUME NEW j \in 1..(Len(s) + 1)
        PROVE  (left \o back)[j] = IF j < i THEN s[j] ELSE IF j = i THEN e ELSE s[j - 1]
    <2>1. CASE j <= i
      BY <1>4, <1>6, <2>1
    <2>2. CASE j > i
      <3>1. j - i \in 1..(Len(s) + 1 - i) /\ i + (j - i) - 1 = j - 1
        BY <2>2
      <3>2. ~(j <= i)
        BY <1>0, <2>2
      <3>3. (left \o back)[j] = back[j - i]
        BY <1>6, <3>2
      <3>4. back[j - i] = s[j - 1]
        BY <1>2, <3>1
      <3>5. ~(j < i) /\ j # i
        BY <1>0, <2>2
      <3> QED
        BY <3>3, <3>4, <3>5
    <2>3. j <= i \/ j > i
      BY <1>0, <1>7
    <2> QED
      BY <2>1, <2>2, <2>3
  <1> QED
    BY <1>5, <1>6, <1>7

\* gumbo_vector_remove_at: the elements behind position i move one place forward.
LEMMA RemoveAtProperties ==
    ASSUME NEW S, NEW s \in Seq(S), NEW i, i \in 1..Len(s)
    PROVE  /\ RemoveAt(s, i) \in Seq(S)
           /\ Len(RemoveAt(s, i)) = Len(s) - 1
           /\ \A j \in 1..(Len(s) - 1) :
                RemoveAt(s, i)[j] = IF j < i THEN s[j] ELSE s[j + 1]
  <1> DEFINE front == SubSeq(s, 1, i - 1)
             back  == SubSeq(s, i + 1, Len(s))
  <1>0. Len(s) \in Nat /\ i \in Nat
    OBVIOUS
  <1>1. /\ front \in Seq(S) /\ Len(front) = i - 1
        /\ \A j \in 1..(i - 1) : front[j] = s[j]
    BY SubSeqProperties
  <1>2. /\ back \in Seq(S) /\ Len(back) = Len(s) - i
        /\ \A j \in 1..(Len(s) - i) : back[j] = s[i + j]
    BY SubSeqProperties
  <1>3. RemoveAt(s, i) = front \o back
    BY DEF RemoveAt
  <1> HIDE DEF front, back
  <1>4. /\ front \o back \in Seq(S)
        /\ Len(front \o back) = Len(s) - 1
        /\ \A j \in 1..(Len(s) - 1) :
              (front \o back)[j] = IF j <= i - 1 THEN front[j] ELSE back[j - (i - 1)]
    <2>1. Len(front) + Len(back) = Len(s) - 1
      BY <1>0, <1>1, <1>2
    <2>2. /\ front \o back \in Seq(S)
          /\ Len(front \o back) = Len(front) + Len(back)
          /\ \A j \in 1..(Len(front) + Len(back)) :
                (front \o back)[j] = IF j <= Len(front) THEN front[j] ELSE back[j - Len(front)]
      BY <1>1, <1>2, ConcatProperties
    <2> QED
      BY <1>1, <2>1, <2>2
  <1>5. ASSUME NEW j \in 1..(Len(s) - 1)
        PROVE  (front \o back)[j] = IF j < i THEN s[j] ELSE s[j + 1]
    <2>1. CASE j < i
      BY <1>1, <1>4, <2>1
    <2>2. CASE j >= i
      <3>1. j - (i - 1) \in 1..(Len(s) - i) /\ i + (j - (i - 1)) = j + 1
        BY <2>2
      <3>2. ~(j <= i - 1)
        BY <1>0, <2>2
      <3>3. (front \o back)[j] = back[j - (i - 1)]
        BY <1>4, <3>2
      <3>4. back[j - (i - 1)] = s[j + 1]
        BY <1>2, <3>1
      <3>5. ~(j < i)
        BY <1>0, <2>2
      <3> QED
        BY <3>3, <3>4, <3>5
    <2>3. j < i \/ j >= i
      BY <1>0, <1>5
    <2> QED
      BY <2>1, <2>2, <2>3
  <1> QED
    BY <1>3, <1>4, <1>5

\* An element inserted behind the last one is appended,
LEMMA InsertAtEnd ==
    ASSUME NEW S, NEW s \in Seq(S), NEW e \in S
    PROVE  InsertAt(s, Len(s) + 1, e) = Append(s, e)
  <1> DEFINE r == InsertAt(s, Len(s) + 1, e)
             a == Append(s, e)
  <1>1. Len(s) \in Nat /\ Len(s) + 1 \in 1..(Len(s) + 1)
    OBVIOUS
  <1>2. /\ r \in Seq(S) /\ Len(r) = Len(s) + 1
        /\ \A j \in 1..(Len(s) + 1) :
             r[j] = IF j < Len(s) + 1 THEN s[j] ELSE IF j = Len(s) + 1 THEN e ELSE s[j - 1]
    <2> DEFINE i == Len(s) + 1
    <2>1. i \in 1..(Len(s) + 1) /\ i = Len(s) + 1
      BY <1>1
    <2> HIDE DEF i
    <2>2. /\ InsertAt(s, i, e) \in Seq(S) /\ Len(InsertAt(s, i, e)) = Len(s) + 1
          /\ \A j \in 1..(Len(s) + 1) :
               InsertAt(s, i, e)[j] = IF j < i THEN s[j] ELSE IF j = i THEN e ELSE s[j - 1]
      BY <2>1, InsertAtProperties
    <2> QED
      BY <2>1, <2>2
  <1>3. /\ a \in Seq(S) /\ Len(a) = Len(s) + 1
        /\ \A j \in 1..Len(s) : a[j] = s[j]
        /\ a[Len(s) + 1] = e
    BY AppendProperties
  <1> HIDE DEF r, a
  <1>4. ASSUME NEW j \in 1..(Len(s) + 1) PROVE r[j] = a[j]
    <2>1. CASE j = Len(s) + 1
      BY <1>1, <1>2, <1>3, <2>1
    <2>2. CASE j # Len(s) + 1
      <3>1. j \in 1..Len(s) /\ j < Len(s) + 1
        BY <1>1, <2>2
      <3> QED
        BY <1>2, <1>3, <3>1
    <2> QED
      BY <2>1, <2>2
  <1>5. r = a
    BY <1>2, <1>3, <1>4, SeqEqual
  <1> QED
    BY <1>5 DEF r, a

\* and one inserted where another was removed is in its place.
LEMMA InsertAtRemoved ==
    ASSUME NEW S, NEW s \in Seq(S), NEW i, i \in 1..Len(s), NEW e \in S
    PROVE  InsertAt(RemoveAt(s, i), i, e) = [s EXCEPT ![i] = e]
  <1> DEFINE l == RemoveAt(s, i)
             r == InsertAt(l, i, e)
             x == [s EXCEPT ![i] = e]
  <1>1. Len(s) \in Nat /\ i \in Nat /\ i \in 1..Len(s) /\ DOMAIN s = 1..Len(s)
    OBVIOUS
  <1>2. /\ l \in Seq(S) /\ Len(l) = Len(s) - 1
        /\ \A j \in 1..(Len(s) - 1) : l[j] = IF j < i THEN s[j] ELSE s[j + 1]
    BY RemoveAtProperties
  <1> HIDE DEF l
  <1>3. i \in 1..(Len(l) + 1) /\ Len(l) + 1 = Len(s)
    BY <1>1, <1>2
  <1>4. /\ r \in Seq(S) /\ Len(r) = Len(l) + 1
        /\ \A j \in 1..(Len(l) + 1) : r[j] = IF j < i THEN l[j] ELSE IF j = i THEN e ELSE l[j - 1]
    BY <1>2, <1>3, InsertAtProperties
  <1>5. /\ x \in Seq(S) /\ Len(x) = Len(s)
        /\ \A j \in 1..Len(s) : x[j] = IF j = i THEN e ELSE s[j]
    BY <1>1
  <1> HIDE DEF r, x
  <1>6. ASSUME NEW j \in 1..Len(s) PROVE r[j] = x[j]
    <2>1. r[j] = IF j < i THEN l[j] ELSE IF j = i THEN e ELSE l[j - 1]
      BY <1>3, <1>4
    <2>2. CASE j < i
      <3>1. j \in 1..(Len(s) - 1)
        BY <1>1, <2>2
      <3> QED
        BY <1>1, <1>2, <1>5, <2>1, <2>2, <3>1
    <2>3. CASE j = i
      BY <1>1, <1>5, <2>1, <2>3
    <2>4. CASE j > i
      <3>1. j - 1 \in 1..(Len(s) - 1) /\ ~(j - 1 < i) /\ (j - 1) + 1 = j
        BY <1>1, <2>4
      <3>2. l[j - 1] = s[j]
        BY <1>2, <3>1
      <3> QED
        BY <1>1, <1>5, <2>1, <2>4, <3>2
    <2> QED
      BY <1>1, <2>2, <2>3, <2>4
  <1>7. r = x
    BY <1>3, <1>4, <1>5, <1>6, SeqEqual
  <1> QED
    BY <1>7 DEF r, x, l

\* The same for a list in which nothing occurs twice.
LEMMA InsertAtOnce ==
    ASSUME NEW S, NEW s \in Seq(S), NEW i, NEW e \in S, i \in 1..(Len(s) + 1),
           IsInjective(s), e \notin ToSet(s)
    PROVE  /\ IsInjective(InsertAt(s, i, e))
           /\ ToSet(InsertAt(s, i, e)) = ToSet(s) \cup {e}
  <1> DEFINE r == InsertAt(s, i, e)
  <1>0. Len(s) \in Nat /\ i \in 1..(Len(s) + 1) /\ DOMAIN s = 1..Len(s)
    OBVIOUS
  <1>1. /\ r \in Seq(S) /\ Len(r) = Len(s) + 1
        /\ \A j \in 1..(Len(s) + 1) : r[j] = IF j < i THEN s[j] ELSE IF j = i THEN e ELSE s[j - 1]
    BY InsertAtProperties
  <1> HIDE DEF r
  <1>2. DOMAIN r = 1..(Len(s) + 1)
    BY <1>1
  <1>3. \A j \in DOMAIN s : s[j] # e
    BY DEF ToSet
  <1>4. ASSUME NEW j \in DOMAIN r
        PROVE  \/ j = i /\ r[j] = e
               \/ j < i /\ j \in DOMAIN s /\ r[j] = s[j]
               \/ j > i /\ j - 1 \in DOMAIN s /\ r[j] = s[j - 1]
    BY <1>0, <1>1, <1>2
  <1>5. IsInjective(r)
    <2>1. ASSUME NEW j \in DOMAIN r, NEW k \in DOMAIN r, r[j] = r[k] PROVE j = k
      <3>1. j \in Nat /\ k \in Nat /\ i \in Nat
        BY <1>0, <1>2
      <3>2. \A x, y \in DOMAIN s : s[x] = s[y] => x = y
        BY DEF IsInjective
      <3>3. CASE j = i
        BY <1>3, <1>4, <2>1, <3>1, <3>3
      <3>4. CASE k = i
        BY <1>3, <1>4, <2>1, <3>1, <3>4
      <3>5. CASE j < i /\ k < i
        BY <1>4, <2>1, <3>1, <3>2, <3>5
      <3>6. CASE j > i /\ k > i
        <4>1. j - 1 \in DOMAIN s /\ k - 1 \in DOMAIN s /\ s[j - 1] = s[k - 1]
          BY <1>4, <2>1, <3>1, <3>6
        <4>2. j - 1 = k - 1
          BY <3>2, <4>1
        <4> QED
          BY <3>1, <4>2
      <3>7. CASE j < i /\ k > i
        <4>1. k - 1 \in DOMAIN s /\ j \in DOMAIN s /\ s[j] = s[k - 1]
          BY <1>4, <2>1, <3>1, <3>7
        <4>2. j = k - 1
          BY <3>2, <4>1
        <4> QED
          BY <3>1, <3>7, <4>2
      <3>8. CASE j > i /\ k < i
        <4>1. j - 1 \in DOMAIN s /\ k \in DOMAIN s /\ s[j - 1] = s[k]
          BY <1>4, <2>1, <3>1, <3>8
        <4>2. j - 1 = k
          BY <3>2, <4>1
        <4> QED
          BY <3>1, <3>8, <4>2
      <3> QED
        BY <3>1, <3>3, <3>4, <3>5, <3>6, <3>7, <3>8
    <2> QED
      BY <2>1 DEF IsInjective
  <1>6. ToSet(r) = ToSet(s) \cup {e}
    <2>1. ToSet(r) \subseteq ToSet(s) \cup {e}
      BY <1>4 DEF ToSet
    <2>2. e \in ToSet(r)
      BY <1>0, <1>1, <1>2 DEF ToSet
    <2>3. ASSUME NEW j \in DOMAIN s PROVE s[j] \in ToSet(r)
      <3>1. CASE j < i
        BY <1>0, <1>1, <1>2, <3>1 DEF ToSet
      <3>2. CASE ~(j < i)
        <4>1. j + 1 \in DOMAIN r /\ ~(j + 1 < i) /\ j + 1 # i /\ (j + 1) - 1 = j
          BY <1>0, <1>2, <3>2
        <4>2. r[j + 1] = s[j]
          BY <1>1, <1>2, <4>1
        <4> QED
          BY <4>1, <4>2 DEF ToSet
      <3> QED
        BY <3>1, <3>2
    <2>4. ToSet(s) \subseteq ToSet(r)
      BY <2>3 DEF ToSet
    <2> QED
      BY <2>1, <2>2, <2>4
  <1> QED
    BY <1>5, <1>6 DEF r

LEMMA RemoveAtOnce ==
    ASSUME NEW S, NEW s \in Seq(S), NEW i, i \in 1..Len(s), IsInjective(s)
    PROVE  /\ IsInjective(RemoveAt(s, i))
           /\ ToSet(RemoveAt(s, i)) = ToSet(s) \ {s[i]}
  <1> DEFINE r == RemoveAt(s, i)
  <1>0. Len(s) \in Nat /\ i \in 1..Len(s) /\ DOMAIN s = 1..Len(s)
    OBVIOUS
  <1>1. /\ r \in Seq(S) /\ Len(r) = Len(s) - 1
        /\ \A j \in 1..(Len(s) - 1) : r[j] = IF j < i THEN s[j] ELSE s[j + 1]
    BY RemoveAtProperties
  <1> HIDE DEF r
  <1>2. DOMAIN r = 1..(Len(s) - 1)
    BY <1>1
  <1>3. \A x, y \in DOMAIN s : s[x] = s[y] => x = y
    BY DEF IsInjective
  <1>4. ASSUME NEW j \in DOMAIN r
        PROVE  \/ j < i /\ j \in DOMAIN s /\ r[j] = s[j]
               \/ j >= i /\ j + 1 \in DOMAIN s /\ r[j] = s[j + 1]
    BY <1>0, <1>1, <1>2
  <1>5. IsInjective(r)
    <2>1. ASSUME NEW j \in DOMAIN r, NEW k \in DOMAIN r, r[j] = r[k] PROVE j = k
      <3>1. j \in Nat /\ k \in Nat /\ i \in Nat
        BY <1>0, <1>2
      <3>2. CASE j < i /\ k < i
        BY <1>3, <1>4, <2>1, <3>1, <3>2
      <3>3. CASE j >= i /\ k >= i
        <4>1. j + 1 \in DOMAIN s /\ k + 1 \in DOMAIN s /\ s[j + 1] = s[k + 1]
          BY <1>4, <2>1, <3>1, <3>3
        <4>2. j + 1 = k + 1
          BY <1>3, <4>1
        <4> QED
          BY <3>1, <4>2
      <3>4. CASE j < i /\ k >= i
        <4>1. j \in DOMAIN s /\ k + 1 \in DOMAIN s /\ s[j] = s[k + 1]
          BY <1>4, <2>1, <3>1, <3>4
        <4>2. j = k + 1
          BY <1>3, <4>1
        <4> QED
          BY <3>1, <3>4, <4>2
      <3>5. CASE j >= i /\ k < i
        <4>1. j + 1 \in DOMAIN s /\ k \in DOMAIN s /\ s[j + 1] = s[k]
          BY <1>4, <2>1, <3>1, <3>5
        <4>2. j + 1 = k
          BY <1>3, <4>1
        <4> QED
          BY <3>1, <3>5, <4>2
      <3> QED
        BY <3>1, <3>2, <3>3, <3>4, <3>5
    <2> QED
      BY <2>1 DEF IsInjective
  <1>6. ToSet(r) = ToSet(s) \ {s[i]}
    <2>1. ASSUME NEW j \in DOMAIN r PROVE r[j] \in ToSet(s) /\ r[j] # s[i]
      <3>1. j \in Nat /\ i \in Nat /\ i \in DOMAIN s
        BY <1>0, <1>2
      <3>2. CASE j < i
        BY <1>3, <1>4, <3>1, <3>2 DEF ToSet
      <3>3. CASE j >= i
        <4>1. j + 1 \in DOMAIN s /\ r[j] = s[j + 1] /\ j + 1 # i
          BY <1>4, <3>1, <3>3
        <4> QED
          BY <1>3, <3>1, <4>1 DEF ToSet
      <3> QED
        BY <3>1, <3>2, <3>3
    <2>2. ASSUME NEW j \in DOMAIN s, j # i PROVE s[j] \in ToSet(r)
      <3>1. CASE j < i
        <4>1. j \in DOMAIN r /\ r[j] = s[j]
          BY <1>0, <1>1, <1>2, <3>1
        <4> QED
          BY <4>1 DEF ToSet
      <3>2. CASE ~(j < i)
        <4>1. j - 1 \in DOMAIN r /\ ~(j - 1 < i) /\ (j - 1) + 1 = j
          BY <1>0, <1>2, <2>2, <3>2
        <4>2. r[j - 1] = s[j]
          BY <1>1, <1>2, <4>1
        <4> QED
          BY <4>1, <4>2 DEF ToSet
      <3> QED
        BY <3>1, <3>2
    <2>3. \A x \in ToSet(r) : x \in ToSet(s) \ {s[i]}
      BY <2>1 DEF ToSet
    <2>4. \A x \in ToSet(s) \ {s[i]} : x \in ToSet(r)
      BY <2>2 DEF ToSet
    <2> QED
      BY <2>3, <2>4
  <1> QED
    BY <1>5, <1>6 DEF r

\* Where an element is, or 0.
LEMMA PositionInFinds ==
    ASSUME NEW S, NEW s \in Seq(S), NEW x
    PROVE  IF x \in ToSet(s)
           THEN /\ PositionIn(s, x) \in 1..Len(s) /\ PositionIn(s, x) # 0
                /\ s[PositionIn(s, x)] = x
           ELSE PositionIn(s, x) = 0
  <1>0. DOMAIN s = 1..Len(s) /\ Len(s) \in Nat
    OBVIOUS
  <1>1. CASE x \in ToSet(s)
    <2> DEFINE at == {i \in DOMAIN s : s[i] = x}
    <2>1. at \subseteq Nat /\ at # {}
      BY <1>0, <1>1 DEF ToSet
    <2>2. PICK i \in at : \A j \in at : i <= j
      BY <2>1, LeastNumber
    <2>3. ASSUME NEW j \in 1..(i - 1) PROVE s[j] # x
      <3>1. i \in 1..Len(s)
        BY <1>0
      <3>2. j \in DOMAIN s /\ ~(i <= j)
        BY <1>0, <3>1
      <3> QED
        BY <2>2, <3>2
    <2>4. \E k \in DOMAIN s : s[k] = x /\ \A j \in 1..(k - 1) : s[j] # x
      BY <2>2, <2>3
    <2>5. PositionIn(s, x) \in DOMAIN s /\ s[PositionIn(s, x)] = x
      BY <2>4 DEF PositionIn
    <2>6. PositionIn(s, x) # 0
      BY <1>0, <2>5
    <2> QED
      BY <1>0, <1>1, <2>5, <2>6
  <1>2. CASE x \notin ToSet(s)
    BY <1>2 DEF ToSet, PositionIn
  <1> QED
    BY <1>1, <1>2

\* In a list in which nothing occurs twice it is at no other place.
LEMMA PositionInOnce ==
    ASSUME NEW S, NEW s \in Seq(S), IsInjective(s), NEW i \in 1..Len(s)
    PROVE  PositionIn(s, s[i]) = i
  <1>1. s[i] \in ToSet(s) /\ DOMAIN s = 1..Len(s)
    BY DEF ToSet
  <1>2. PositionIn(s, s[i]) \in 1..Len(s) /\ s[PositionIn(s, s[i])] = s[i]
    BY <1>1, PositionInFinds
  <1> QED
    BY <1>1, <1>2 DEF IsInjective

-----------------------------------------------------------------------------
(***************************************************************************)
(* The ancestors of a node.                                                *)
(***************************************************************************)

\* The fold that Ancestors is: as many times as there are nodes, the parents are added.
LEMMA AncestorsFold ==
    ASSUME NEW t, NEW n
    PROVE  Ancestors(t, n) =
             (CHOOSE f : f = [s \in SUBSET DOMAIN t |->
                                IF s = {} THEN {n}
                                ELSE f[s \ {Max(s)}]
                                        \cup ({t[m].parent : m \in f[s \ {Max(s)}]} \ {NULL})])[DOMAIN t]
  BY DEF Ancestors, FoldLeft, MapThenFoldSet

\* They are n, the parent of n and so on: the least set with n and the parents of its nodes.
LEMMA AncestorsClosed ==
    ASSUME NEW t, NEW N \in Nat, DOMAIN t = 1 .. N,
           \A m \in 1 .. N : t[m].parent \in 0 .. N, NEW n \in 1 .. N
    PROVE  /\ n \in Ancestors(t, n) /\ Ancestors(t, n) \subseteq 1 .. N
           /\ \A m \in Ancestors(t, n) : t[m].parent \in Ancestors(t, n) \cup {NULL}
           /\ \A C \in SUBSET (1 .. N) :
                 n \in C /\ (\A m \in C : t[m].parent \in C \cup {NULL})
                    => Ancestors(t, n) \subseteq C
  <1> DEFINE S == SUBSET (1 .. N)
             Up(s) == s \cup ({t[m].parent : m \in s} \ {NULL})
             Step == [x \in (1 .. N) \X S |-> Up(x[2])]
             F == [s \in S |-> Up(s)]
             Unfolds(f) == f = [s \in S |-> IF s = {} THEN {n} ELSE Up(f[s \ {Max(s)}])]
             g == CHOOSE f : Unfolds(f)
  <1>1. Ancestors(t, n) = g[1 .. N]
    BY AncestorsFold
  <1>2. ASSUME NEW s \in S PROVE Up(s) \in S /\ s \subseteq Up(s)
    <2>1. \A m \in s : t[m].parent \in 0 .. N
      OBVIOUS
    <2>2. \A m \in s : t[m].parent = NULL \/ t[m].parent \in 1 .. N
      BY <2>1 DEF NULL
    <2> QED
      BY <2>2
  <1>3. Unfolds(g)
    <2>1. Step \in [(1 .. N) \X S -> S] /\ {n} \in S
      BY <1>2
    <2> HIDE DEF Step
    <2>2. PICK f \in [S -> S] : IsFold(f, N, {n}, Step)
      BY <2>1, FoldExists
    <2>3. ASSUME NEW s \in S, s # {} PROVE Step[<<Max(s), f[s \ {Max(s)}]>>] = Up(f[s \ {Max(s)}])
      <3>1. Max(s) \in s
        BY <2>3, MaxOfPositions
      <3>2. Max(s) \in 1 .. N /\ s \ {Max(s)} \in S
        BY <3>1
      <3>3. f[s \ {Max(s)}] \in S
        BY <2>2, <3>2
      <3> DEFINE x == <<Max(s), f[s \ {Max(s)}]>>
      <3>4. x \in (1 .. N) \X S /\ x[2] = f[s \ {Max(s)}]
        BY <3>2, <3>3
      <3> HIDE DEF x
      <3>5. Step[x] = Up(x[2])
        BY <3>4 DEF Step
      <3> QED
        BY <3>4, <3>5 DEF x
    <2>4. Unfolds(f)
      <3>1. f = [s \in S |-> IF s = {} THEN {n} ELSE Step[<<Max(s), f[s \ {Max(s)}]>>]]
        BY <2>2 DEF IsFold
      <3> HIDE DEF Up
      <3> QED
        BY <2>3, <3>1
    <2> HIDE DEF Unfolds
    <2> QED
      BY <2>4
  <1> HIDE DEF g
  <1>4. F \in [S -> S] /\ \A s \in S : s \subseteq F[s]
    BY <1>2
  <1>5. g[1 .. 0] = {n}
    <2>1. 1 .. 0 = {} /\ {} \in S
      OBVIOUS
    <2> HIDE DEF Up
    <2> QED
      BY <1>3, <2>1
  <1>6. ASSUME NEW k \in 0 .. N - 1, g[1 .. k] \in S PROVE g[1 .. (k + 1)] = F[g[1 .. k]]
    <2>1. k + 1 \in Nat \ {0} /\ (k + 1) - 1 = k /\ 1 .. (k + 1) \in S
      OBVIOUS
    <2>2. 1 .. (k + 1) # {} /\ Max(1 .. (k + 1)) = k + 1 /\ (1 .. (k + 1)) \ {k + 1} = 1 .. k
      BY ONLY <2>1, MaxOfPrefix
    <2> HIDE DEF Up
    <2>3. g[1 .. (k + 1)] = Up(g[1 .. k])
      BY <1>3, <2>1, <2>2
    <2> QED
      BY <1>6, <2>3
  <1> DEFINE A == g[1 .. N]
  <1>7. IsClosure(A, N, F, {n})
    <2>1. {n} \in S /\ {n} # {}
      OBVIOUS
    <2> HIDE DEF F
    <2> QED
      BY <1>4, <1>5, <1>6, <2>1, FoldIsClosure
  <1>8. ASSUME NEW m \in A PROVE t[m].parent \in A \cup {NULL}
    <2>1. A \in S /\ Up(A) = A
      BY <1>7 DEF IsClosure
    <2> HIDE DEF A
    <2> QED
      BY <2>1
  <1>9. ASSUME NEW C \in S, n \in C, \A m \in C : t[m].parent \in C \cup {NULL}
        PROVE  A \subseteq C
    <2>1. ASSUME NEW s \in S, s \subseteq C PROVE F[s] \subseteq C
      BY <1>9, <2>1
    <2> HIDE DEF A, F
    <2> QED
      BY <1>7, <1>9, <2>1 DEF IsClosure
  <1>10. A \in S /\ n \in A
    BY <1>7 DEF IsClosure
  <1> QED
    BY <1>1, <1>8, <1>9, <1>10

-----------------------------------------------------------------------------
(***************************************************************************)
(* A table is sound when each child knows its parent and its position, and *)
(* each node that has a parent sits at its position among the children.    *)
(***************************************************************************)
Sound(t) ==
    /\ \A n \in DOMAIN t : \A i \in DOMAIN t[n].kids :
          /\ t[n].kids[i] \in DOMAIN t
          /\ t[t[n].kids[i]].parent = n
          /\ t[t[n].kids[i]].idx = i - 1
    /\ \A k \in DOMAIN t : t[k].parent # NULL =>
          /\ t[k].parent \in DOMAIN t
          /\ t[k].idx + 1 \in DOMAIN t[t[k].parent].kids
          /\ t[t[k].parent].kids[t[k].idx + 1] = k

(***************************************************************************)
(* S is a set of nodes that point only to the nodes of Ptr: what the       *)
(* lemmas below ask of the nodes of a table, whatever else these hold.     *)
(***************************************************************************)
NodeSet(S, Ptr) ==
    /\ Ptr \subseteq Nat
    /\ \E types, names, tags, contents : S = NodesOf(Ptr, types, names, tags, contents)

\* The fields of a node that link it into the tree.
LEMMA NodeFields ==
    ASSUME NEW Ptr, NEW S, NodeSet(S, Ptr), NEW x \in S
    PROVE  /\ x.parent \in Ptr \cup {NULL} /\ x.parent \in Nat
           /\ x.idx \in Indices /\ x.idx \in Int
           /\ x.kids \in Seq(Ptr)
           /\ Len(x.kids) \in Nat /\ DOMAIN x.kids = 1..Len(x.kids)
  <1>1. /\ x.parent \in Ptr \cup {NULL} /\ x.idx \in Indices
        /\ x.kids \in Seq(Ptr) /\ Ptr \subseteq Nat
    BY DEF NodeSet, NodesOf
  <1>2. NULL \in Nat /\ Detached \in Int /\ Indices = Nat \cup {Detached}
    BY DEF NULL, Detached, Indices
  <1>3. x.parent \in Nat /\ x.idx \in Int
    <2>1. x.parent \in Ptr \/ x.parent = NULL
      BY <1>1
    <2>2. x.idx \in Nat \/ x.idx = Detached
      BY <1>1, <1>2
    <2>3. x.idx \in Int
      BY <1>2, <2>2
    <2> QED
      BY ONLY <1>1, <1>2, <2>1, <2>3, Zenon
  <1>4. Len(x.kids) \in Nat /\ DOMAIN x.kids = 1..Len(x.kids)
    BY <1>1, LenProperties
  <1> QED
    BY <1>1, <1>3, <1>4

\* The four ways in which an operation changes one node.
WithPlace(x, p, i)   == [x EXCEPT !.parent = p, !.idx = i]
Renamed(x, p)     == [x EXCEPT !.parent = p]
Reindexed(x, i)   == [x EXCEPT !.idx = i]
WithKids(x, s)    == [x EXCEPT !.kids = s]

\* WithPlace changes the parent and the index of a node and nothing else.
LEMMA PlacedFields ==
    ASSUME NEW Ptr, NEW S, NodeSet(S, Ptr), NEW x \in S,
           NEW p \in Ptr \cup {NULL}, NEW i \in Indices
    PROVE  /\ WithPlace(x, p, i) \in S
           /\ WithPlace(x, p, i).parent = p
           /\ WithPlace(x, p, i).idx = i
           /\ WithPlace(x, p, i).kids = x.kids
           /\ WithPlace(x, p, i).type = x.type
  <1>1. PICK types, names, tags, contents : S = NodesOf(Ptr, types, names, tags, contents)
    BY DEF NodeSet
  <1> QED
    BY <1>1 DEF NodesOf, WithPlace

\* Renamed changes the parent of a node and nothing else.
LEMMA RenamedFields ==
    ASSUME NEW Ptr, NEW S, NodeSet(S, Ptr), NEW x \in S, NEW p \in Ptr \cup {NULL}
    PROVE  /\ Renamed(x, p) \in S
           /\ Renamed(x, p).parent = p
           /\ Renamed(x, p).idx = x.idx
           /\ Renamed(x, p).kids = x.kids
           /\ Renamed(x, p).type = x.type
  <1>1. PICK types, names, tags, contents : S = NodesOf(Ptr, types, names, tags, contents)
    BY DEF NodeSet
  <1> QED
    BY <1>1 DEF NodesOf, Renamed

\* Reindexed changes the index of a node and nothing else.
LEMMA ReindexedFields ==
    ASSUME NEW Ptr, NEW S, NodeSet(S, Ptr), NEW x \in S, NEW i \in Indices
    PROVE  /\ Reindexed(x, i) \in S
           /\ Reindexed(x, i).parent = x.parent
           /\ Reindexed(x, i).idx = i
           /\ Reindexed(x, i).kids = x.kids
           /\ Reindexed(x, i).type = x.type
  <1>1. PICK types, names, tags, contents : S = NodesOf(Ptr, types, names, tags, contents)
    BY DEF NodeSet
  <1> QED
    BY <1>1 DEF NodesOf, Reindexed

\* WithKids changes the children of a node and nothing else.
LEMMA WithKidsFields ==
    ASSUME NEW Ptr, NEW S, NodeSet(S, Ptr), NEW x \in S, NEW s \in Seq(Ptr)
    PROVE  /\ WithKids(x, s) \in S
           /\ WithKids(x, s).parent = x.parent
           /\ WithKids(x, s).idx = x.idx
           /\ WithKids(x, s).kids = s
           /\ WithKids(x, s).type = x.type
  <1>1. PICK types, names, tags, contents : S = NodesOf(Ptr, types, names, tags, contents)
    BY DEF NodeSet
  <1> QED
    BY <1>1 DEF NodesOf, WithKids

\* In a sound table children and parents agree, and children know their position.
LEMMA SoundAgrees ==
    ASSUME NEW Ptr, NEW S, NodeSet(S, Ptr), NEW t \in Seq(S), Sound(t)
    PROVE  LinksAgree(t) /\ IndexAgrees(t)
  <1>1. \A n \in DOMAIN t : DOMAIN t[n].kids = 1..Len(t[n].kids) /\ Len(t[n].kids) \in Nat
    BY NodeFields
  <1>2. LinksAgree(t)
    <2>1. ASSUME NEW n \in DOMAIN t, NEW i \in DOMAIN t[n].kids, NEW j \in DOMAIN t[n].kids,
                 t[n].kids[i] = t[n].kids[j]
          PROVE  i = j
      <3>1. i - 1 = j - 1
        BY <2>1 DEF Sound
      <3>2. i \in Nat /\ j \in Nat
        BY <1>1
      <3> QED
        BY <3>1, <3>2
    <2> QED
      BY <2>1 DEF LinksAgree, Sound
  <1>3. IndexAgrees(t)
    BY DEF IndexAgrees, Sound
  <1> QED
    BY <1>2, <1>3

\* What append_node writes: the child's two back links and the parent's vector.
LEMMA AppendFields ==
    ASSUME NEW Ptr, NEW S, NodeSet(S, Ptr), NEW t \in Seq(S), DOMAIN t \subseteq Ptr,
           NEW parent \in DOMAIN t, NEW n \in DOMAIN t
    PROVE  LET u == append_node(t, parent, n)
           IN  /\ u \in Seq(S) /\ DOMAIN u = DOMAIN t
               /\ \A k \in DOMAIN t :
                     /\ u[k].parent = IF k = n THEN parent ELSE t[k].parent
                     /\ u[k].idx = IF k = n THEN Len(t[parent].kids) ELSE t[k].idx
                     /\ u[k].kids = IF k = parent THEN Append(t[k].kids, n) ELSE t[k].kids
                     /\ u[k].type = t[k].type
  <1> DEFINE len    == Len(t[parent].kids)
             child  == WithPlace(t[n], parent, len)
             w == [t EXCEPT ![n] = child]
             kids == Append(w[parent].kids, n)
             holder == WithKids(w[parent], kids)
             v == [w EXCEPT ![parent] = holder]
  <1>1. append_node(t, parent, n) = v
    BY DEF append_node, WithPlace, WithKids
  <1>2. /\ t[n] \in S /\ t[parent] \in S /\ parent \in Ptr \cup {NULL} /\ n \in Ptr
        /\ len \in Indices
    BY NodeFields DEF Indices
  <1> HIDE DEF len
  <1>3. /\ child \in S /\ child.parent = parent /\ child.idx = len
        /\ child.kids = t[n].kids /\ child.type = t[n].type
    BY <1>2, PlacedFields
  <1> HIDE DEF child
  <1>4. /\ w \in Seq(S) /\ DOMAIN w = DOMAIN t
        /\ \A k \in DOMAIN t : w[k] = IF k = n THEN child ELSE t[k]
    BY <1>3
  <1> HIDE DEF w
  <1>5. w[parent] \in S /\ w[parent].kids = t[parent].kids
    BY <1>2, <1>3, <1>4
  <1>6. kids \in Seq(Ptr) /\ kids = Append(t[parent].kids, n)
    BY <1>2, <1>5, NodeFields
  <1> HIDE DEF kids
  <1>7. /\ holder \in S /\ holder.parent = w[parent].parent /\ holder.idx = w[parent].idx
        /\ holder.kids = kids /\ holder.type = w[parent].type
    <2>1. NodeSet(S, Ptr) /\ w[parent] \in S /\ kids \in Seq(Ptr)
      BY <1>5, <1>6
    <2> QED
      BY ONLY <2>1, WithKidsFields DEF holder
  <1> HIDE DEF holder
  <1>8. /\ v \in Seq(S) /\ DOMAIN v = DOMAIN t
        /\ \A k \in DOMAIN t : v[k] = IF k = parent THEN holder ELSE w[k]
    BY <1>4, <1>7
  <1> HIDE DEF v
  <1>9. \A k \in DOMAIN t :
           /\ v[k].parent = IF k = n THEN parent ELSE t[k].parent
           /\ v[k].idx = IF k = n THEN len ELSE t[k].idx
           /\ v[k].kids = IF k = parent THEN Append(t[k].kids, n) ELSE t[k].kids
           /\ v[k].type = t[k].type
    BY <1>3, <1>4, <1>6, <1>7, <1>8
  <1> QED
    BY <1>1, <1>8, <1>9 DEF len

\* append_node, on a child without a parent, keeps the table sound.
LEMMA AppendKeepsSound ==
    ASSUME NEW Ptr, NEW S, NodeSet(S, Ptr), NEW t \in Seq(S), DOMAIN t \subseteq Ptr,
           NEW parent \in DOMAIN t, NEW n \in DOMAIN t, t[n].parent = NULL, Sound(t)
    PROVE  append_node(t, parent, n) \in Seq(S) /\ Sound(append_node(t, parent, n))
  <1> DEFINE u    == append_node(t, parent, n)
             len  == Len(t[parent].kids)
             kids == Append(t[parent].kids, n)
  <1>1. /\ u \in Seq(S) /\ DOMAIN u = DOMAIN t
        /\ \A k \in DOMAIN t :
              /\ u[k].parent = IF k = n THEN parent ELSE t[k].parent
              /\ u[k].idx = IF k = n THEN len ELSE t[k].idx
              /\ u[k].kids = IF k = parent THEN kids ELSE t[k].kids
    <2>1. \A k \in DOMAIN t :
             u[k].kids = IF k = parent THEN Append(t[k].kids, n) ELSE t[k].kids
      BY AppendFields, SMTT(20)
    <2> QED
      BY <2>1, AppendFields
  <1>2. \A k \in DOMAIN t : k \in Nat /\ k # NULL
    BY DEF NULL
  <1>3. len \in Nat /\ DOMAIN t[parent].kids = 1..len
    BY NodeFields
  <1>4. \A k \in DOMAIN t : \A i \in DOMAIN t[k].kids : t[k].kids[i] # n
    BY <1>2 DEF Sound
  <1>5. /\ DOMAIN kids = 1..(len + 1)
        /\ \A i \in 1..len : kids[i] = t[parent].kids[i]
        /\ kids[len + 1] = n
    <2>1. t[parent].kids \in Seq(Ptr) /\ n \in Ptr
      BY NodeFields
    <2> QED
      BY <1>3, <2>1, AppendProperties DEF len
  <1> HIDE DEF u, len, kids
  <1>6. ASSUME NEW k \in DOMAIN u, NEW i \in DOMAIN u[k].kids
        PROVE  /\ u[k].kids[i] \in DOMAIN u
               /\ u[u[k].kids[i]].parent = k
               /\ u[u[k].kids[i]].idx = i - 1
    <2>1. CASE k = parent /\ i = len + 1
      <3>1. u[k].kids[i] = n /\ i - 1 = len
        BY <1>1, <1>3, <1>5, <2>1
      <3> QED
        BY <1>1, <2>1, <3>1
    <2>2. CASE ~(k = parent /\ i = len + 1)
      <3>1. i \in DOMAIN t[k].kids /\ u[k].kids[i] = t[k].kids[i]
        <4>1. CASE k = parent
          <5>1. i \in 1..(len + 1) /\ i # len + 1
            BY <1>1, <1>5, <1>6, <2>2, <4>1
          <5>2. i \in 1..len
            BY <1>3, <5>1
          <5> QED
            BY <1>1, <1>3, <1>5, <4>1, <5>2
        <4>2. CASE k # parent
          BY <1>1, <1>6, <4>2
        <4> QED
          BY <4>1, <4>2
      <3>2. t[k].kids[i] # n /\ t[k].kids[i] \in DOMAIN t
        BY <1>1, <1>4, <3>1 DEF Sound
      <3>3. t[t[k].kids[i]].parent = k /\ t[t[k].kids[i]].idx = i - 1
        BY <1>1, <3>1 DEF Sound
      <3> QED
        BY <1>1, <3>1, <3>2, <3>3
    <2> QED
      BY <2>1, <2>2
  <1>7. ASSUME NEW k \in DOMAIN u, u[k].parent # NULL
        PROVE  /\ u[k].parent \in DOMAIN u
               /\ u[k].idx + 1 \in DOMAIN u[u[k].parent].kids
               /\ u[u[k].parent].kids[u[k].idx + 1] = k
    <2>1. CASE k = n
      <3>1. u[k].parent = parent /\ u[k].idx = len /\ u[parent].kids = kids
        BY <1>1, <2>1
      <3>2. len + 1 \in DOMAIN kids
        BY <1>3, <1>5
      <3> QED
        BY <1>1, <1>5, <2>1, <3>1, <3>2
    <2>2. CASE k # n
      <3>1. /\ u[k].parent = t[k].parent /\ u[k].idx = t[k].idx
            /\ t[k].parent \in DOMAIN t /\ t[k].idx + 1 \in DOMAIN t[t[k].parent].kids
            /\ t[t[k].parent].kids[t[k].idx + 1] = k
        BY <1>1, <1>7, <2>2 DEF Sound
      <3>2. CASE t[k].parent = parent
        <4>1. t[k].idx + 1 \in 1..len
          BY <1>3, <3>1, <3>2
        <4>2. t[k].idx + 1 \in DOMAIN kids
          BY <1>3, <1>5, <4>1
        <4>3. kids[t[k].idx + 1] = k
          BY <1>5, <3>1, <3>2, <4>1
        <4> QED
          BY <1>1, <3>1, <3>2, <4>2, <4>3
      <3>3. CASE t[k].parent # parent
        BY <1>1, <3>1, <3>3
      <3> QED
        BY <3>2, <3>3
    <2> QED
      BY <2>1, <2>2
  <1>8. Sound(u)
    BY <1>6, <1>7 DEF Sound
  <1> QED
    BY <1>1, <1>8 DEF u

(***************************************************************************)
(* The loop at the end of insert_node and remove_from_parent changes only  *)
(* the index of nodes; when no child is listed twice, those from position  *)
(* `from` on get their position as index, and no other node gets a new one.*)
(***************************************************************************)
Renumbered(t, u, kids, from) ==
    /\ DOMAIN u = DOMAIN t
    /\ \A k \in DOMAIN t :
          u[k].parent = t[k].parent /\ u[k].kids = t[k].kids /\ u[k].type = t[k].type
    /\ (\A i, j \in from..Len(kids) : kids[i] = kids[j] => i = j)
         => /\ \A j \in from..Len(kids) : kids[j] \in DOMAIN t => u[kids[j]].idx = j - 1
            /\ \A k \in DOMAIN t :
                  (\A j \in from..Len(kids) : kids[j] # k) => u[k].idx = t[k].idx

LEMMA RenumberFields ==
    ASSUME NEW Ptr, NEW S, NodeSet(S, Ptr), NEW t \in Seq(S), NEW kids \in Seq(Ptr), NEW from \in Nat
    PROVE  /\ Renumber(t, kids, from) \in Seq(S)
           /\ Renumbered(t, Renumber(t, kids, from), kids, from)
  <1> DEFINE Listed(k) == \E j \in from..Len(kids) : kids[j] = k
             At(k)     == CHOOSE j \in from..Len(kids) : kids[j] = k
             u == [k \in DOMAIN t |->
                      IF Listed(k) THEN Reindexed(t[k], At(k) - 1) ELSE t[k]]
  <1>1. Renumber(t, kids, from) = u
    BY DEF Renumber, Reindexed
  <1>2. ASSUME NEW k \in DOMAIN t, Listed(k)
        PROVE  At(k) - 1 \in Indices
    <2>1. At(k) \in from..Len(kids)
      BY <1>2
    <2> HIDE DEF At
    <2>2. At(k) - 1 \in Nat \/ At(k) - 1 = -1
      BY <2>1
    <2> QED
      BY <2>2 DEF Detached, Indices
  <1>3. ASSUME \A i, j \in from..Len(kids) : kids[i] = kids[j] => i = j,
               NEW j \in from..Len(kids)
        PROVE  Listed(kids[j]) /\ At(kids[j]) = j
    BY <1>3
  <1> HIDE DEF At
  <1>4. \A k \in DOMAIN t : t[k] \in S
    OBVIOUS
  <1>5. ASSUME NEW k \in DOMAIN t, Listed(k)
        PROVE  /\ Reindexed(t[k], At(k) - 1) \in S
               /\ Reindexed(t[k], At(k) - 1).parent = t[k].parent
               /\ Reindexed(t[k], At(k) - 1).idx = At(k) - 1
               /\ Reindexed(t[k], At(k) - 1).kids = t[k].kids
               /\ Reindexed(t[k], At(k) - 1).type = t[k].type
    <2> DEFINE i == At(k) - 1
    <2>1. t[k] \in S /\ i \in Indices
      BY <1>2, <1>4, <1>5
    <2> HIDE DEF i, Listed
    <2> QED
      BY <2>1, ReindexedFields DEF i
  <1> HIDE DEF Listed
  <1>6. u \in Seq(S) /\ DOMAIN u = DOMAIN t
    BY <1>4, <1>5
  <1>7. \A k \in DOMAIN t : u[k].parent = t[k].parent /\ u[k].kids = t[k].kids /\ u[k].type = t[k].type
    BY <1>5
  <1>8. ASSUME \A i, j \in from..Len(kids) : kids[i] = kids[j] => i = j,
               NEW j \in from..Len(kids), kids[j] \in DOMAIN t
        PROVE  u[kids[j]].idx = j - 1
    BY <1>3, <1>5, <1>8
  <1>9. ASSUME NEW k \in DOMAIN t, \A j \in from..Len(kids) : kids[j] # k
        PROVE  u[k].idx = t[k].idx
    BY <1>9 DEF Listed
  <1> HIDE DEF u
  <1>10. Renumbered(t, u, kids, from)
    BY <1>6, <1>7, <1>8, <1>9 DEF Renumbered
  <1> QED
    BY <1>1, <1>6, <1>10

\* No node is twice among the children of a sound table's node.
LEMMA KidsDistinct ==
    ASSUME NEW Ptr, NEW S, NodeSet(S, Ptr), NEW t \in Seq(S), NEW n \in DOMAIN t, Sound(t)
    PROVE  \A i, j \in DOMAIN t[n].kids : t[n].kids[i] = t[n].kids[j] => i = j
  BY SoundAgrees DEF LinksAgree

\* insert_node in front of the child at position `at`.
Inserted(t, n, target, at) ==
    LET kids == InsertAt(t[target].kids, at, n)
    IN  Renumber([t EXCEPT ![n].parent = target, ![target].kids = kids], kids, at)

\* What insert_node writes: the parent of n, the parent's vector, and indices.
PutIn(t, u, n, target, kids, at) ==
    /\ DOMAIN u = DOMAIN t
    /\ \A k \in DOMAIN t :
          /\ u[k].parent = IF k = n THEN target ELSE t[k].parent
          /\ u[k].kids = IF k = target THEN kids ELSE t[k].kids
          /\ u[k].type = t[k].type
    /\ (\A i, j \in at..Len(kids) : kids[i] = kids[j] => i = j)
         => /\ \A j \in at..Len(kids) : kids[j] \in DOMAIN t => u[kids[j]].idx = j - 1
            /\ \A k \in DOMAIN t :
                  (\A j \in at..Len(kids) : kids[j] # k) => u[k].idx = t[k].idx

LEMMA InsertFields ==
    ASSUME NEW Ptr, NEW S, NodeSet(S, Ptr), NEW t \in Seq(S), DOMAIN t \subseteq Ptr,
           NEW n \in DOMAIN t, NEW target \in DOMAIN t, NEW at, at \in 1..Len(t[target].kids)
    PROVE  /\ Inserted(t, n, target, at) \in Seq(S)
           /\ PutIn(t, Inserted(t, n, target, at), n, target, InsertAt(t[target].kids, at, n), at)
  <1> DEFINE old  == t[target].kids
             kids == InsertAt(old, at, n)
             child  == Renamed(t[n], target)
             w == [t EXCEPT ![n] = child]
             holder == WithKids(w[target], kids)
             v == [w EXCEPT ![target] = holder]
             u == Renumber(v, kids, at)
  <1>1. /\ old \in Seq(Ptr) /\ Len(old) \in Nat /\ n \in Ptr /\ target \in Ptr \cup {NULL}
        /\ t[n] \in S /\ t[target] \in S
    BY NodeFields
  <1>2. kids \in Seq(Ptr) /\ at \in Nat
    <2> HIDE DEF old
    <2>1. at \in 1..(Len(old) + 1) /\ at \in Nat
      BY <1>1 DEF old
    <2> QED
      BY ONLY <1>1, <2>1, InsertAtProperties DEF kids
  <1>3. Inserted(t, n, target, at) = u
    <2>1. w[target].kids = old
      BY DEF Renamed
    <2>2. [t EXCEPT ![n].parent = target, ![target].kids = kids] = v
      BY DEF Renamed, WithKids
    <2> QED
      BY <2>2 DEF Inserted
  <1> HIDE DEF kids
  <1>4. /\ child \in S /\ child.parent = target /\ child.idx = t[n].idx
        /\ child.kids = t[n].kids /\ child.type = t[n].type
    BY <1>1, RenamedFields
  <1> HIDE DEF child
  <1>5. /\ w \in Seq(S) /\ DOMAIN w = DOMAIN t
        /\ \A k \in DOMAIN t : w[k] = IF k = n THEN child ELSE t[k]
    BY <1>4
  <1> HIDE DEF w
  <1>6. /\ holder \in S /\ holder.parent = w[target].parent /\ holder.idx = w[target].idx
        /\ holder.kids = kids /\ holder.type = w[target].type
    <2>1. w[target] \in S
      BY <1>5
    <2> QED
      BY ONLY NodeSet(S, Ptr), <1>2, <2>1, WithKidsFields DEF holder
  <1> HIDE DEF holder
  <1>7. /\ v \in Seq(S) /\ DOMAIN v = DOMAIN t
        /\ \A k \in DOMAIN t : v[k] = IF k = target THEN holder ELSE w[k]
    BY <1>5, <1>6
  <1> HIDE DEF v
  <1>8. \A k \in DOMAIN t :
           /\ v[k].parent = IF k = n THEN target ELSE t[k].parent
           /\ v[k].idx = t[k].idx
           /\ v[k].kids = IF k = target THEN kids ELSE t[k].kids
           /\ v[k].type = t[k].type
    BY <1>4, <1>5, <1>6, <1>7
  <1>9. u \in Seq(S) /\ Renumbered(v, u, kids, at)
    BY ONLY NodeSet(S, Ptr), <1>2, <1>7, RenumberFields DEF u
  <1> HIDE DEF u
  <1>10. PutIn(t, u, n, target, kids, at)
    BY <1>7, <1>8, <1>9 DEF PutIn, Renumbered
  <1> QED
    BY <1>3, <1>9, <1>10 DEF kids

(***************************************************************************)
(* insert_node in front of another child keeps the table sound: the        *)
(* children in front keep their index, n takes the place named, and the    *)
(* children behind get the index that follows their old one.               *)
(***************************************************************************)
LEMMA InsertKeepsSound ==
    ASSUME NEW Ptr, NEW S, NodeSet(S, Ptr), NEW t \in Seq(S), DOMAIN t \subseteq Ptr,
           NEW n \in DOMAIN t, NEW target \in DOMAIN t,
           NEW at, at \in 1..Len(t[target].kids), t[n].parent = NULL, Sound(t)
    PROVE  Sound(Inserted(t, n, target, at))
  <1> DEFINE old  == t[target].kids
             len  == Len(old)
             kids == InsertAt(old, at, n)
             u == Inserted(t, n, target, at)
  <1>1. /\ len \in Nat /\ DOMAIN old = 1..len /\ old \in Seq(Ptr)
        /\ n \in Ptr /\ n # NULL /\ target \in Nat /\ target # NULL
        /\ t[n] \in S /\ t[target] \in S
    BY NodeFields DEF NULL
  <1>2. /\ kids \in Seq(Ptr) /\ Len(kids) = len + 1 /\ DOMAIN kids = 1..(len + 1)
        /\ \A j \in 1..(len + 1) :
              kids[j] = IF j < at THEN old[j] ELSE IF j = at THEN n ELSE old[j - 1]
    <2> HIDE DEF old
    <2>1. old \in Seq(Ptr) /\ at \in 1..(Len(old) + 1) /\ n \in Ptr
      BY <1>1 DEF old
    <2> HIDE DEF kids, len
    <2>2. \A j \in 1..(Len(old) + 1) :
             InsertAt(old, at, n)[j] = IF j < at THEN old[j] ELSE IF j = at THEN n ELSE old[j - 1]
      BY ONLY <2>1, InsertAtProperties
    <2>3. kids \in Seq(Ptr) /\ Len(kids) = len + 1
      BY ONLY <2>1, InsertAtProperties DEF kids, len
    <2>4. DOMAIN kids = 1..(len + 1)
      BY <2>3, LenProperties
    <2> QED
      BY <2>2, <2>3, <2>4 DEF kids, len
  <1>3. PutIn(t, u, n, target, kids, at)
    BY InsertFields
  <1> HIDE DEF kids, u
  <1>8. \A k \in DOMAIN t : \A i \in DOMAIN t[k].kids : t[k].kids[i] # n
    BY <1>1 DEF Sound, NULL
  <1>9. \A i, j \in 1..len : old[i] = old[j] => i = j
    BY <1>1, KidsDistinct
  <1> HIDE DEF old, len
  <1>10. ASSUME NEW i \in at..(len + 1), NEW j \in at..(len + 1), kids[i] = kids[j]
         PROVE  i = j
    <2>1. i \in 1..(len + 1) /\ j \in 1..(len + 1)
      BY <1>1, <1>10
    <2>2. ASSUME NEW m \in 1..(len + 1), m > at
          PROVE  m - 1 \in 1..len /\ kids[m] = old[m - 1] /\ kids[m] # n
      <3>1. m - 1 \in 1..len
        BY <1>1, <2>2
      <3>2. kids[m] = old[m - 1]
        BY <1>1, <1>2, <2>2
      <3>3. old[m - 1] # n
        BY <1>1, <1>8, <3>1 DEF old
      <3> QED
        BY <3>1, <3>2, <3>3
    <2>3. kids[at] = n /\ at \in Nat
      BY <1>1, <1>2
    <2>4. CASE i > at /\ j > at
      <3>1. i - 1 = j - 1
        BY <1>9, <1>10, <2>1, <2>2, <2>4
      <3> QED
        BY <2>1, <3>1
    <2>5. CASE ~(i > at /\ j > at)
      BY <1>10, <2>1, <2>2, <2>3, <2>5
    <2> QED
      BY <2>4, <2>5
  <1>11. /\ \A j \in at..Len(kids) : kids[j] \in DOMAIN t => u[kids[j]].idx = j - 1
         /\ \A k \in DOMAIN t : (\A j \in at..Len(kids) : kids[j] # k) => u[k].idx = t[k].idx
    <2>1. \A i, j \in at..Len(kids) : kids[i] = kids[j] => i = j
      BY <1>2, <1>10
    <2> QED
      BY <1>3, <2>1 DEF PutIn
  <1>12. /\ DOMAIN u = DOMAIN t
         /\ \A k \in DOMAIN t :
               /\ u[k].parent = IF k = n THEN target ELSE t[k].parent
               /\ u[k].kids = IF k = target THEN kids ELSE t[k].kids
    BY <1>3 DEF PutIn
  <1>13. at \in Nat /\ at \in 1..len
    BY <1>1 DEF old, len
  <1>14. \A j \in 1..(len + 1) : kids[j] \in DOMAIN t
    <2>1. \A j \in 1..len : old[j] \in DOMAIN t
      BY <1>1 DEF Sound, old
    <2>2. ASSUME NEW j \in 1..(len + 1)
          PROVE  kids[j] \in DOMAIN t
      <3>1. j < at => j \in 1..len
        BY <1>1, <1>13
      <3>2. j > at => j - 1 \in 1..len
        BY <1>1, <1>13
      <3>3. j < at \/ j = at \/ j > at
        BY <1>13, <2>2
      <3>4. CASE j < at
        BY <1>2, <2>1, <3>1, <3>4
      <3>5. CASE j = at
        BY <1>1, <1>2, <1>13, <3>5
      <3>6. CASE j > at
        <4>1. j - 1 \in 1..len /\ ~(j < at) /\ j # at
          BY <1>13, <3>2, <3>6
        <4>2. kids[j] = old[j - 1]
          BY <1>2, <4>1
        <4> QED
          BY <2>1, <4>1, <4>2
      <3> QED
        BY <3>3, <3>4, <3>5, <3>6
    <2> QED
      BY <2>2
  <1>15. ASSUME NEW j \in 1..(len + 1)
         PROVE  u[kids[j]].idx = j - 1
    <2>1. CASE j >= at
      <3>1. j \in at..Len(kids)
        BY <1>1, <1>2, <1>13, <2>1
      <3> QED
        BY <1>11, <1>14, <3>1
    <2>2. CASE j < at
      <3>1. j \in 1..len /\ kids[j] = old[j]
        BY <1>1, <1>2, <1>13, <2>2
      <3>2. ASSUME NEW i \in at..Len(kids)
            PROVE  kids[i] # kids[j]
        <4>1. i \in 1..(len + 1)
          BY <1>1, <1>2, <1>13
        <4>2. CASE i = at
          <5>1. kids[i] = n
            BY <1>2, <1>13, <4>1, <4>2
          <5>2. old[j] # n
            BY <1>1, <1>8, <3>1 DEF old
          <5> QED
            BY <3>1, <5>1, <5>2
        <4>3. CASE i # at
          <5>1. i - 1 \in 1..len /\ i - 1 # j /\ ~(i < at)
            BY <1>1, <1>13, <2>2, <4>1, <4>3
          <5>2. kids[i] = old[i - 1]
            BY <1>2, <4>1, <4>3, <5>1
          <5> QED
            BY <1>9, <3>1, <5>1, <5>2
        <4> QED
          BY <4>2, <4>3
      <3>3. u[kids[j]].idx = t[kids[j]].idx
        BY <1>11, <1>14, <3>2
      <3>4. t[old[j]].idx = j - 1
        BY <1>1, <3>1 DEF Sound, old
      <3> QED
        BY <1>14, <3>1, <3>3, <3>4
    <2>3. j < at \/ j >= at
      BY <1>13, <1>15
    <2> QED
      BY <2>1, <2>2, <2>3
  <1>16. \A j \in 1..(len + 1) : u[kids[j]].parent = target
    <2>1. \A j \in 1..len : t[old[j]].parent = target
      BY <1>1 DEF Sound, old
    <2>2. ASSUME NEW j \in 1..(len + 1)
          PROVE  u[kids[j]].parent = target
      <3>1. j < at => j \in 1..len
        BY <1>1, <1>13
      <3>2. j > at => j - 1 \in 1..len
        BY <1>1, <1>13
      <3>3. kids[j] \in DOMAIN t
        BY <1>14
      <3>4. CASE kids[j] = n
        BY <1>1, <1>12, <3>4
      <3>5. CASE kids[j] # n
        <4>1. t[kids[j]].parent = target
          <5>1. j < at \/ j > at
            BY <1>2, <1>13, <2>2, <3>5
          <5> QED
            BY <1>2, <1>13, <2>1, <3>1, <3>2, <5>1
        <4> QED
          BY <1>12, <3>3, <4>1
      <3> QED
        BY <3>4, <3>5
    <2> QED
      BY <2>2
  <1>17. ASSUME NEW k \in DOMAIN t, k # n, t[k].parent # target
         PROVE  u[k].idx = t[k].idx
    <2>1. \A j \in at..Len(kids) : kids[j] # k
      <3>1. ASSUME NEW j \in at..Len(kids) PROVE kids[j] # k
        <4>1. j \in 1..(len + 1)
          BY <1>1, <1>2, <1>13
        <4> QED
          BY <1>12, <1>16, <1>17, <4>1
      <3> QED
        BY <3>1
    <2> QED
      BY <1>11, <2>1
  <1>18. \A k \in DOMAIN t : t[k].parent = target =>
            \E j \in 1..(len + 1) : kids[j] = k
    <2>1. ASSUME NEW k \in DOMAIN t, t[k].parent = target
          PROVE  \E j \in 1..(len + 1) : kids[j] = k
      <3>1. t[k].idx + 1 \in 1..len /\ old[t[k].idx + 1] = k
        BY <1>1, <2>1 DEF Sound, old
      <3> DEFINE i == t[k].idx + 1
      <3>2. i \in 1..len /\ old[i] = k
        BY <3>1
      <3> HIDE DEF i
      <3>3. CASE i < at
        <4>1. i \in 1..(len + 1) /\ kids[i] = old[i]
          BY <1>1, <1>2, <1>13, <3>2, <3>3
        <4> QED
          BY <3>2, <4>1
      <3>4. CASE i >= at
        <4>1. i + 1 \in 1..(len + 1) /\ ~(i + 1 < at) /\ i + 1 # at /\ (i + 1) - 1 = i
          BY <1>1, <1>13, <3>2, <3>4
        <4>2. kids[i + 1] = old[i]
          BY <1>2, <4>1
        <4> QED
          BY <3>2, <4>1, <4>2
      <3>5. i < at \/ i >= at
        BY <1>13, <3>2
      <3> QED
        BY <3>3, <3>4, <3>5
    <2> QED
      BY <2>1
  <1>19. ASSUME NEW k \in DOMAIN u, NEW i \in DOMAIN u[k].kids
         PROVE  /\ u[k].kids[i] \in DOMAIN u
                /\ u[u[k].kids[i]].parent = k
                /\ u[u[k].kids[i]].idx = i - 1
    <2>1. CASE k = target
      <3>1. u[k].kids = kids /\ i \in 1..(len + 1)
        BY <1>2, <1>12, <1>19, <2>1
      <3> QED
        BY <1>12, <1>14, <1>15, <1>16, <2>1, <3>1
    <2>2. CASE k # target
      <3>1. u[k].kids = t[k].kids /\ i \in DOMAIN t[k].kids
        BY <1>12, <1>19, <2>2
      <3>2. /\ t[k].kids[i] \in DOMAIN t /\ t[k].kids[i] # n
            /\ t[t[k].kids[i]].parent = k /\ t[t[k].kids[i]].idx = i - 1
        BY <1>8, <1>12, <3>1 DEF Sound
      <3> QED
        BY <1>12, <1>17, <2>2, <3>1, <3>2
    <2> QED
      BY <2>1, <2>2
  <1>20. ASSUME NEW k \in DOMAIN u, u[k].parent # NULL
         PROVE  /\ u[k].parent \in DOMAIN u
                /\ u[k].idx + 1 \in DOMAIN u[u[k].parent].kids
                /\ u[u[k].parent].kids[u[k].idx + 1] = k
    <2>1. CASE u[k].parent = target
      <3>1. PICK j \in 1..(len + 1) : kids[j] = k
        <4>1. CASE k = n
          <5>1. at \in 1..(len + 1)
            BY <1>1, <1>13
          <5> QED
            BY <1>2, <1>13, <4>1, <5>1
        <4>2. CASE k # n
          BY <1>12, <1>18, <2>1, <4>2
        <4> QED
          BY <4>1, <4>2
      <3>2. u[k].idx = j - 1
        BY <1>15, <3>1
      <3>3. u[k].idx + 1 = j
        BY <3>2
      <3> QED
        BY <1>2, <1>12, <2>1, <3>1, <3>3
    <2>2. CASE u[k].parent # target
      <3>1. k # n /\ u[k].parent = t[k].parent /\ u[k].idx = t[k].idx
        BY <1>12, <1>17, <2>2
      <3>2. /\ t[k].parent \in DOMAIN t /\ t[k].idx + 1 \in DOMAIN t[t[k].parent].kids
            /\ t[t[k].parent].kids[t[k].idx + 1] = k
        BY <1>12, <1>20, <3>1 DEF Sound
      <3> QED
        BY <1>12, <2>2, <3>1, <3>2
    <2> QED
      BY <2>1, <2>2
  <1>21. Sound(u)
    BY <1>19, <1>20 DEF Sound
  <1> QED
    BY <1>21 DEF u

\* gumbo_vector_remove_at keeps the elements in their set, wherever the position is.
LEMMA RemoveAtTyped ==
    ASSUME NEW S, NEW s \in Seq(S), NEW i \in 0..Len(s)
    PROVE  RemoveAt(s, i) \in Seq(S)
  <1>1. CASE i = 0
    <2>1. SubSeq(s, 1, -1) \in Seq(S)
      BY SubSeqProperties
    <2>2. SubSeq(s, 1, Len(s)) \in Seq(S)
      BY SubSeqProperties
    <2>3. SubSeq(s, 1, -1) \o SubSeq(s, 1, Len(s)) \in Seq(S)
      BY <2>1, <2>2, ConcatProperties
    <2> QED
      BY <1>1, <2>3 DEF RemoveAt
  <1>2. CASE i # 0
    BY <1>2, RemoveAtProperties
  <1> QED
    BY <1>1, <1>2

(***************************************************************************)
(* What remove_from_parent writes when n has a parent: the two back links  *)
(* of n, the parent's vector, and indices.                                 *)
(***************************************************************************)
KidRemoved(t, u, n, kids, at) ==
    /\ DOMAIN u = DOMAIN t
    /\ \A k \in DOMAIN t :
          /\ u[k].parent = IF k = n THEN NULL ELSE t[k].parent
          /\ u[k].kids = IF k = t[n].parent THEN kids ELSE t[k].kids
          /\ u[k].type = t[k].type
    /\ (\A i, j \in at..Len(kids) : kids[i] = kids[j] => i = j)
         => /\ \A j \in at..Len(kids) : kids[j] \in DOMAIN t => u[kids[j]].idx = j - 1
            /\ \A k \in DOMAIN t :
                  k # n /\ (\A j \in at..Len(kids) : kids[j] # k) => u[k].idx = t[k].idx

LEMMA RemoveFields ==
    ASSUME NEW Ptr, NEW S, NodeSet(S, Ptr), NEW t \in Seq(S), DOMAIN t \subseteq Ptr,
           NEW n \in DOMAIN t, t[n].parent # NULL, t[n].parent \in DOMAIN t
    PROVE  LET old == t[t[n].parent].kids
               at  == PositionIn(old, n)
           IN  /\ remove_from_parent(t, n) \in Seq(S)
               /\ KidRemoved(t, remove_from_parent(t, n), n, RemoveAt(old, at), at)
  <1> DEFINE p    == t[n].parent
             old  == t[p].kids
             at   == PositionIn(old, n)
             kids == RemoveAt(old, at)
             child  == WithPlace(t[n], NULL, Detached)
             w == [t EXCEPT ![n] = child]
             holder == WithKids(w[p], kids)
             v == [w EXCEPT ![p] = holder]
             u == Renumber(v, kids, at)
  <1>1. remove_from_parent(t, n) = u
    BY DEF remove_from_parent, WithPlace, WithKids
  <1>2. /\ p \in DOMAIN t /\ t[n] \in S /\ old \in Seq(Ptr) /\ Len(old) \in Nat
        /\ NULL \in Ptr \cup {NULL} /\ Detached \in Indices
    BY NodeFields DEF Indices
  <1>3. at \in 0..Len(old) /\ at \in Nat
    <2> HIDE DEF old
    <2>1. IF n \in ToSet(old) THEN at \in 1..Len(old) ELSE at = 0
      BY <1>2, PositionInFinds
    <2> HIDE DEF at
    <2> QED
      BY <1>2, <2>1
  <1>4. kids \in Seq(Ptr)
    <2> HIDE DEF old, at
    <2> QED
      BY ONLY <1>2, <1>3, RemoveAtTyped DEF kids
  <1> HIDE DEF kids
  <1>5. /\ child \in S /\ child.parent = NULL /\ child.idx = Detached
        /\ child.kids = t[n].kids /\ child.type = t[n].type
    <2>1. NodeSet(S, Ptr) /\ t[n] \in S /\ NULL \in Ptr \cup {NULL} /\ Detached \in Indices
      BY DEF Indices
    <2>2. /\ WithPlace(t[n], NULL, Detached) \in S
          /\ WithPlace(t[n], NULL, Detached).parent = NULL
          /\ WithPlace(t[n], NULL, Detached).idx = Detached
          /\ WithPlace(t[n], NULL, Detached).kids = t[n].kids
          /\ WithPlace(t[n], NULL, Detached).type = t[n].type
      BY ONLY <2>1, PlacedFields
    <2> QED
      BY <2>2
  <1> HIDE DEF child
  <1>6. /\ w \in Seq(S) /\ DOMAIN w = DOMAIN t
        /\ \A k \in DOMAIN t : w[k] = IF k = n THEN child ELSE t[k]
    BY <1>5
  <1> HIDE DEF w
  <1>7. /\ holder \in S /\ holder.parent = w[p].parent /\ holder.idx = w[p].idx
        /\ holder.kids = kids /\ holder.type = w[p].type
    <2>1. w[p] \in S
      BY <1>2, <1>6
    <2> QED
      BY ONLY NodeSet(S, Ptr), <1>4, <2>1, WithKidsFields DEF holder
  <1> HIDE DEF holder
  <1>8. /\ v \in Seq(S) /\ DOMAIN v = DOMAIN t
        /\ \A k \in DOMAIN t : v[k] = IF k = p THEN holder ELSE w[k]
    BY <1>2, <1>6, <1>7
  <1> HIDE DEF v
  <1>9. \A k \in DOMAIN t :
           /\ v[k].parent = IF k = n THEN NULL ELSE t[k].parent
           /\ v[k].idx = IF k = n THEN Detached ELSE t[k].idx
           /\ v[k].kids = IF k = p THEN kids ELSE t[k].kids
           /\ v[k].type = t[k].type
    BY <1>2, <1>5, <1>6, <1>7, <1>8
  <1>10. u \in Seq(S) /\ Renumbered(v, u, kids, at)
    <2> HIDE DEF at
    <2> QED
      BY ONLY NodeSet(S, Ptr), <1>3, <1>4, <1>8, RenumberFields DEF u
  <1> HIDE DEF u, at
  <1>11. KidRemoved(t, u, n, kids, at)
    BY <1>8, <1>9, <1>10 DEF KidRemoved, Renumbered
  <1> QED
    BY <1>1, <1>10, <1>11 DEF kids, at

(***************************************************************************)
(* remove_from_parent keeps the table sound: index_of finds n where its    *)
(* own index says it is, and the children behind it close the gap.         *)
(***************************************************************************)
LEMMA RemoveKeepsSound ==
    ASSUME NEW Ptr, NEW S, NodeSet(S, Ptr), NEW t \in Seq(S), DOMAIN t \subseteq Ptr,
           NEW n \in DOMAIN t, t[n].parent # NULL, Sound(t)
    PROVE  LET u == remove_from_parent(t, n)
           IN  /\ u \in Seq(S) /\ Sound(u) /\ DOMAIN u = DOMAIN t
               /\ \A k \in DOMAIN t :
                    /\ u[k].parent = IF k = n THEN NULL ELSE t[k].parent
                    /\ u[k].type = t[k].type
  <1> DEFINE p    == t[n].parent
             old  == t[p].kids
             len  == Len(old)
             at   == PositionIn(old, n)
             kids == RemoveAt(old, at)
             u == remove_from_parent(t, n)
             Old(j) == IF j < at THEN j ELSE j + 1
  <1>2. /\ p \in DOMAIN t /\ p \in Nat /\ n \in Nat /\ t[n] \in S /\ t[p] \in S
        /\ old \in Seq(Ptr) /\ len \in Nat /\ DOMAIN old = 1..len
    BY NodeFields DEF Sound
  <1>3. \A i, j \in 1..len : old[i] = old[j] => i = j
    BY <1>2, KidsDistinct
  <1>4. \A j \in 1..len : /\ old[j] \in DOMAIN t
                          /\ t[old[j]].parent = p /\ t[old[j]].idx = j - 1
    BY <1>2 DEF Sound
  <1>5. \A k \in DOMAIN t : t[k].parent = p =>
            t[k].idx + 1 \in 1..len /\ old[t[k].idx + 1] = k
    BY <1>2 DEF Sound
  <1> HIDE DEF old, len
  <1>6. at \in 1..len /\ old[at] = n
    <2>1. PICK i \in 1..len : old[i] = n
      BY <1>5
    <2>2. \A j \in 1..(i - 1) : old[j] # n
      <3>1. ASSUME NEW j \in 1..(i - 1) PROVE old[j] # n
        <4>1. j \in 1..len /\ j # i
          BY <1>2
        <4> QED
          BY <1>3, <2>1, <4>1
      <3> QED
        BY <3>1
    <2>3. DOMAIN old = 1..len
      BY <1>2 DEF old, len
    <2> QED
      BY <2>1, <2>2, <2>3 DEF PositionIn
  <1> HIDE DEF at
  <1>7. at \in Nat
    BY <1>2, <1>6
  <1>8. /\ kids \in Seq(Ptr) /\ Len(kids) = len - 1 /\ DOMAIN kids = 1..(len - 1)
        /\ \A j \in 1..(len - 1) : kids[j] = IF j < at THEN old[j] ELSE old[j + 1]
    <2>1. old \in Seq(Ptr) /\ at \in 1..Len(old)
      BY <1>2, <1>6 DEF old, len
    <2>2. \A s \in Seq(Ptr) : \A i : i \in 1..Len(s) =>
             /\ RemoveAt(s, i) \in Seq(Ptr) /\ Len(RemoveAt(s, i)) = Len(s) - 1
             /\ \A j \in 1..(Len(s) - 1) : RemoveAt(s, i)[j] = IF j < i THEN s[j] ELSE s[j + 1]
      BY ONLY RemoveAtProperties
    <2>3. kids \in Seq(Ptr) /\ Len(kids) = len - 1
      BY ONLY <2>1, <2>2 DEF kids, len
    <2>4. \A j \in 1..(len - 1) : kids[j] = IF j < at THEN old[j] ELSE old[j + 1]
      BY ONLY <2>1, <2>2 DEF kids, len
    <2> QED
      BY <2>3, <2>4, LenProperties
  <1> HIDE DEF kids
  <1>9. ASSUME NEW j \in 1..(len - 1)
        PROVE  /\ Old(j) \in 1..len /\ Old(j) # at /\ Old(j) \in Nat
               /\ kids[j] = old[Old(j)]
    <2>1. Old(j) \in 1..len /\ Old(j) # at /\ Old(j) \in Nat
      BY <1>2, <1>7, <1>9
    <2> QED
      BY <1>8, <1>9, <2>1
  <1>10. \A i, j \in 1..(len - 1) : Old(i) = Old(j) => i = j
    BY <1>2, <1>7
  <1> HIDE DEF Old
  <1>11. \A i, j \in 1..(len - 1) : kids[i] = kids[j] => i = j
    BY <1>3, <1>9, <1>10
  <1>12. \A j \in 1..(len - 1) :
            kids[j] \in DOMAIN t /\ kids[j] # n /\ t[kids[j]].parent = p
    <2>1. ASSUME NEW j \in 1..(len - 1)
          PROVE  kids[j] \in DOMAIN t /\ kids[j] # n /\ t[kids[j]].parent = p
      <3>1. Old(j) \in 1..len /\ Old(j) # at /\ kids[j] = old[Old(j)]
        BY <1>9
      <3>2. old[Old(j)] # n
        BY <1>3, <1>6, <3>1
      <3> QED
        BY <1>4, <3>1, <3>2
    <2> QED
      BY <2>1
  <1>13. u \in Seq(S) /\ KidRemoved(t, u, n, kids, at)
    BY <1>2, RemoveFields DEF kids, at, old
  <1>16. DOMAIN u = DOMAIN t
    BY <1>13 DEF KidRemoved
  <1>18. /\ \A j \in at..Len(kids) : kids[j] \in DOMAIN t => u[kids[j]].idx = j - 1
         /\ \A k \in DOMAIN t :
               k # n /\ (\A j \in at..Len(kids) : kids[j] # k) => u[k].idx = t[k].idx
    <2>1. \A j \in at..Len(kids) : j \in 1..(len - 1)
      BY <1>2, <1>6, <1>7, <1>8
    <2>2. \A i, j \in at..Len(kids) : kids[i] = kids[j] => i = j
      BY <1>11, <2>1
    <2> QED
      BY <1>13, <2>2 DEF KidRemoved
  <1>19. /\ DOMAIN u = DOMAIN t
         /\ \A k \in DOMAIN t :
               /\ u[k].parent = IF k = n THEN NULL ELSE t[k].parent
               /\ u[k].kids = IF k = p THEN kids ELSE t[k].kids
    BY <1>13 DEF KidRemoved
  <1> HIDE DEF u
  <1>20. \A j \in at..Len(kids) : j \in 1..(len - 1)
    BY <1>2, <1>6, <1>8
  <1>21. ASSUME NEW j \in 1..(len - 1)
         PROVE  u[kids[j]].idx = j - 1
    <2>1. CASE j >= at
      <3>1. j \in at..Len(kids)
        BY <1>2, <1>7, <1>8, <2>1
      <3> QED
        BY <1>12, <1>18, <3>1
    <2>2. CASE j < at
      <3>1. Old(j) = j
        BY <2>2 DEF Old
      <3>2. \A i \in at..Len(kids) : kids[i] # kids[j]
        <4>1. ASSUME NEW i \in at..Len(kids) PROVE kids[i] # kids[j]
          <5>1. i \in 1..(len - 1) /\ i # j
            BY <1>7, <1>20, <2>2
          <5> QED
            BY <1>11, <5>1
        <4> QED
          BY <4>1
      <3>3. u[kids[j]].idx = t[kids[j]].idx
        BY <1>12, <1>18, <3>2
      <3> QED
        BY <1>4, <1>9, <3>1, <3>3
    <2>3. j < at \/ j >= at
      BY <1>7, <1>21
    <2> QED
      BY <2>1, <2>2, <2>3
  <1>22. ASSUME NEW k \in DOMAIN t, k # n, t[k].parent # p
         PROVE  u[k].idx = t[k].idx
    <2>1. \A j \in at..Len(kids) : kids[j] # k
      BY <1>12, <1>20, <1>22
    <2> QED
      BY <1>18, <1>22, <2>1
  <1>23. ASSUME NEW k \in DOMAIN t, k # n, t[k].parent = p
         PROVE  \E j \in 1..(len - 1) : kids[j] = k
    <2>1. PICK i \in 1..len : old[i] = k
      BY <1>5, <1>23
    <2>2. i # at
      BY <1>6, <1>23, <2>1
    <2>3. CASE i < at
      <3>1. i \in 1..(len - 1)
        BY <1>2, <1>6, <2>3
      <3> QED
        BY <1>8, <2>1, <2>3, <3>1
    <2>4. CASE i > at
      <3>1. i - 1 \in 1..(len - 1) /\ ~(i - 1 < at) /\ (i - 1) + 1 = i
        BY <1>2, <1>6, <1>7, <2>4
      <3>2. kids[i - 1] = old[i]
        BY <1>8, <3>1
      <3> QED
        BY <2>1, <3>1, <3>2
    <2>5. i < at \/ i > at
      BY <1>2, <1>7, <2>2
    <2> QED
      BY <2>3, <2>4, <2>5
  <1>24. ASSUME NEW k \in DOMAIN u, NEW i \in DOMAIN u[k].kids
         PROVE  /\ u[k].kids[i] \in DOMAIN u
                /\ u[u[k].kids[i]].parent = k
                /\ u[u[k].kids[i]].idx = i - 1
    <2>1. CASE k = p
      <3>1. u[k].kids = kids /\ i \in 1..(len - 1)
        BY <1>8, <1>19, <1>24, <2>1
      <3> QED
        BY <1>12, <1>19, <1>21, <2>1, <3>1
    <2>2. CASE k # p
      <3>1. u[k].kids = t[k].kids /\ i \in DOMAIN t[k].kids
        BY <1>19, <1>24, <2>2
      <3>2. /\ t[k].kids[i] \in DOMAIN t
            /\ t[t[k].kids[i]].parent = k /\ t[t[k].kids[i]].idx = i - 1
        BY <1>19, <3>1 DEF Sound
      <3>3. t[k].kids[i] # n
        BY <2>2, <3>2
      <3> QED
        BY <1>19, <1>22, <2>2, <3>1, <3>2, <3>3
    <2> QED
      BY <2>1, <2>2
  <1>25. ASSUME NEW k \in DOMAIN u, u[k].parent # NULL
         PROVE  /\ u[k].parent \in DOMAIN u
                /\ u[k].idx + 1 \in DOMAIN u[u[k].parent].kids
                /\ u[u[k].parent].kids[u[k].idx + 1] = k
    <2>1. k # n /\ k \in DOMAIN t /\ u[k].parent = t[k].parent
      BY <1>19, <1>25
    <2>2. CASE t[k].parent = p
      <3>1. PICK j \in 1..(len - 1) : kids[j] = k
        BY <1>23, <2>1, <2>2
      <3>2. u[k].idx = j - 1
        BY <1>21, <3>1
      <3>3. u[k].idx + 1 = j
        BY <3>2
      <3> QED
        BY <1>2, <1>8, <1>19, <2>1, <2>2, <3>1, <3>3
    <2>3. CASE t[k].parent # p
      <3>1. u[k].idx = t[k].idx
        BY <1>22, <2>1, <2>3
      <3>2. /\ t[k].parent \in DOMAIN t /\ t[k].idx + 1 \in DOMAIN t[t[k].parent].kids
            /\ t[t[k].parent].kids[t[k].idx + 1] = k
        BY <1>25, <2>1 DEF Sound
      <3> QED
        BY <1>19, <2>1, <2>3, <3>1, <3>2
    <2> QED
      BY <2>2, <2>3
  <1>26. Sound(u)
    BY <1>24, <1>25 DEF Sound
  <1>27. \A k \in DOMAIN t :
            u[k].parent = (IF k = n THEN NULL ELSE t[k].parent) /\ u[k].type = t[k].type
    BY <1>13 DEF KidRemoved
  <1> QED
    BY <1>13, <1>16, <1>26, <1>27 DEF u

(***************************************************************************)
(* What step 16 of the adoption agency algorithm writes: two vectors, and  *)
(* the parent of the children of `from`.                                   *)
(***************************************************************************)
Moved(t, u, from, to) ==
    /\ DOMAIN u = DOMAIN t
    /\ \A k \in DOMAIN t :
          /\ u[k].parent = IF k \in ToSet(t[from].kids) THEN to ELSE t[k].parent
          /\ u[k].idx = t[k].idx
          /\ u[k].kids = IF k = from THEN t[to].kids ELSE IF k = to THEN t[from].kids ELSE t[k].kids
          /\ u[k].type = t[k].type

LEMMA MoveFields ==
    ASSUME NEW Ptr, NEW S, NodeSet(S, Ptr), NEW t \in Seq(S), DOMAIN t \subseteq Ptr,
           NEW from \in DOMAIN t, NEW to \in DOMAIN t, from # to
    PROVE  /\ move_children(t, from, to) \in Seq(S)
           /\ Moved(t, move_children(t, from, to), from, to)
  <1> DEFINE kids     == t[from].kids
             InKids(k) == k \in ToSet(kids)
             emptied == WithKids(t[from], t[to].kids)
             filled  == WithKids(t[to], kids)
             w == [[t EXCEPT ![from] = emptied] EXCEPT ![to] = filled]
             u == [k \in DOMAIN w |->
                      IF k \in ToSet(w[to].kids) THEN Renamed(w[k], to) ELSE w[k]]
  <1>1. /\ \A k \in DOMAIN t : t[k] \in S /\ k \in Nat /\ k # NULL
        /\ t[from].kids \in Seq(Ptr) /\ t[to].kids \in Seq(Ptr)
    BY NodeFields DEF NULL
  <1>2. move_children(t, from, to) = u
    BY DEF move_children, Reparented, WithKids, Renamed
  <1>3. /\ emptied \in S /\ emptied.parent = t[from].parent
        /\ emptied.idx = t[from].idx /\ emptied.kids = t[to].kids /\ emptied.type = t[from].type
    BY <1>1, WithKidsFields
  <1>4. /\ filled \in S /\ filled.parent = t[to].parent
        /\ filled.idx = t[to].idx /\ filled.kids = kids /\ filled.type = t[to].type
    BY <1>1, WithKidsFields
  <1> HIDE DEF emptied, filled
  <1>5. /\ DOMAIN w = DOMAIN t
        /\ \A k \in DOMAIN t :
              w[k] = IF k = to THEN filled ELSE IF k = from THEN emptied ELSE t[k]
    OBVIOUS
  <1> HIDE DEF w, InKids
  <1>6. /\ \A k \in DOMAIN t :
              /\ w[k] \in S /\ w[k].parent = t[k].parent /\ w[k].idx = t[k].idx
              /\ w[k].kids = IF k = from THEN t[to].kids ELSE IF k = to THEN kids ELSE t[k].kids
              /\ w[k].type = t[k].type
              /\ k \in ToSet(w[to].kids) <=> InKids(k)
    <2>1. w[to].kids = kids
      BY <1>4, <1>5
    <2>2. \A k \in DOMAIN t : k \in ToSet(w[to].kids) <=> InKids(k)
      BY <2>1 DEF InKids
    <2> QED
      BY <1>1, <1>3, <1>4, <1>5, <2>2
  <1>7. \A k \in DOMAIN t :
           /\ Renamed(w[k], to) \in S
           /\ Renamed(w[k], to).parent = to
           /\ Renamed(w[k], to).idx = w[k].idx
           /\ Renamed(w[k], to).kids = w[k].kids
           /\ Renamed(w[k], to).type = w[k].type
    <2>1. to \in Ptr \cup {NULL}
      OBVIOUS
    <2>2. ASSUME NEW k \in DOMAIN t PROVE w[k] \in S
      BY <1>6
    <2> QED
      BY ONLY NodeSet(S, Ptr), <2>1, <2>2, RenamedFields
  <1>8. u \in Seq(S) /\ DOMAIN u = DOMAIN t
    <2>1. \A k \in DOMAIN t : u[k] \in S
      BY <1>5, <1>6, <1>7
    <2>2. DOMAIN t = 1..Len(t) /\ Len(t) \in Nat
      BY LenProperties
    <2>3. u \in [1..Len(t) -> S]
      BY <1>5, <2>1, <2>2
    <2> QED
      BY <1>5, <2>2, <2>3, SeqDef
  <1>9. \A k \in DOMAIN t :
           /\ u[k].parent = IF InKids(k) THEN to ELSE t[k].parent
           /\ u[k].idx = t[k].idx
           /\ u[k].kids = IF k = from THEN t[to].kids ELSE IF k = to THEN t[from].kids ELSE t[k].kids
           /\ u[k].type = t[k].type
    BY <1>5, <1>6, <1>7
  <1> HIDE DEF u
  <1>10. Moved(t, u, from, to)
    BY <1>8, <1>9 DEF Moved, InKids
  <1> QED
    BY <1>2, <1>8, <1>10

(***************************************************************************)
(* It keeps the table sound: the children of `from` keep their index and   *)
(* get `to` as their parent.                                               *)
(***************************************************************************)
LEMMA MoveKeepsSound ==
    ASSUME NEW Ptr, NEW S, NodeSet(S, Ptr), NEW t \in Seq(S), DOMAIN t \subseteq Ptr,
           NEW from \in DOMAIN t, NEW to \in DOMAIN t, from # to,
           t[to].parent = NULL, t[to].kids = <<>>, Sound(t)
    PROVE  LET u == move_children(t, from, to)
           IN  /\ u \in Seq(S) /\ Sound(u) /\ DOMAIN u = DOMAIN t
               /\ \A k \in DOMAIN t : u[k].parent \in {to, t[k].parent}
               /\ u[to].parent = NULL
               /\ \A k \in DOMAIN t : u[k].type = t[k].type
  <1> DEFINE kids == t[from].kids
             InKids(k) == k \in ToSet(kids)
             u == move_children(t, from, to)
  <1>1. \A k \in DOMAIN t : k \in Nat /\ k # NULL /\ t[k].parent \in Nat
    BY NodeFields DEF NULL
  <1>2. u \in Seq(S) /\ Moved(t, u, from, to)
    BY MoveFields
  <1> HIDE DEF u, InKids
  <1>8. DOMAIN u = DOMAIN t
    BY <1>2 DEF Moved
  <1>9. \A k \in DOMAIN t :
           /\ u[k].parent = IF InKids(k) THEN to ELSE t[k].parent
           /\ u[k].idx = t[k].idx
           /\ u[k].kids = IF k = from THEN <<>> ELSE IF k = to THEN t[from].kids ELSE t[k].kids
           /\ u[k].type = t[k].type
    BY <1>2 DEF Moved, InKids
  <1>10. \A k \in DOMAIN t : t[k].parent # to
    BY <1>1 DEF Sound
  <1>11. \A k \in DOMAIN t : InKids(k) <=> t[k].parent = from
    <2>1. \A k \in DOMAIN t : InKids(k) <=> \E i \in DOMAIN kids : kids[i] = k
      BY DEF InKids, ToSet
    <2>2. ASSUME NEW k \in DOMAIN t, InKids(k)
          PROVE  t[k].parent = from
      <3>1. PICK i \in DOMAIN kids : kids[i] = k
        BY <2>1, <2>2
      <3> QED
        BY <3>1 DEF Sound
    <2>3. ASSUME NEW k \in DOMAIN t, t[k].parent = from
          PROVE  InKids(k)
      <3>1. t[k].idx + 1 \in DOMAIN kids /\ kids[t[k].idx + 1] = k
        BY <1>1, <2>3 DEF Sound
      <3> QED
        BY <2>1, <3>1
    <2> QED
      BY <2>2, <2>3
  <1>12. DOMAIN <<>> = {}
    OBVIOUS
  <1>13. ASSUME NEW k \in DOMAIN u, NEW i \in DOMAIN u[k].kids
         PROVE  /\ u[k].kids[i] \in DOMAIN u
                /\ u[u[k].kids[i]].parent = k
                /\ u[u[k].kids[i]].idx = i - 1
    <2>1. k # from
      BY <1>8, <1>9, <1>12, <1>13
    <2>2. CASE k = to
      <3>1. u[k].kids = t[from].kids
        BY <1>8, <1>9, <2>1, <2>2
      <3>2. /\ t[from].kids[i] \in DOMAIN t
            /\ t[t[from].kids[i]].parent = from /\ t[t[from].kids[i]].idx = i - 1
        BY <1>13, <3>1 DEF Sound
      <3> QED
        BY <1>8, <1>9, <1>11, <2>2, <3>1, <3>2
    <2>3. CASE k # to
      <3>1. u[k].kids = t[k].kids
        BY <1>8, <1>9, <2>1, <2>3
      <3>2. /\ t[k].kids[i] \in DOMAIN t
            /\ t[t[k].kids[i]].parent = k /\ t[t[k].kids[i]].idx = i - 1
        BY <1>8, <1>13, <3>1 DEF Sound
      <3> QED
        BY <1>8, <1>9, <1>11, <2>1, <3>1, <3>2
    <2> QED
      BY <2>2, <2>3
  <1>14. ASSUME NEW k \in DOMAIN u, u[k].parent # NULL
         PROVE  /\ u[k].parent \in DOMAIN u
                /\ u[k].idx + 1 \in DOMAIN u[u[k].parent].kids
                /\ u[u[k].parent].kids[u[k].idx + 1] = k
    <2>1. k \in DOMAIN t /\ t[k].parent # NULL
      BY <1>1, <1>8, <1>9, <1>11, <1>14
    <2>2. /\ t[k].parent \in DOMAIN t /\ t[k].idx + 1 \in DOMAIN t[t[k].parent].kids
          /\ t[t[k].parent].kids[t[k].idx + 1] = k
      BY <2>1 DEF Sound
    <2>3. CASE t[k].parent = from
      <3>1. u[k].parent = to /\ u[k].idx = t[k].idx /\ u[to].kids = t[from].kids
        BY <1>9, <1>11, <2>1, <2>3
      <3> QED
        BY <1>8, <2>2, <2>3, <3>1
    <2>4. CASE t[k].parent # from
      <3>1. u[k].parent = t[k].parent /\ u[k].idx = t[k].idx
        BY <1>9, <1>11, <2>1, <2>4
      <3>2. u[t[k].parent].kids = t[t[k].parent].kids
        BY <1>9, <1>10, <2>1, <2>2, <2>4
      <3> QED
        BY <1>8, <2>2, <3>1, <3>2
    <2> QED
      BY <2>3, <2>4
  <1>15. Sound(u)
    BY <1>13, <1>14 DEF Sound
  <1>16. u[to].parent = NULL
    BY <1>1, <1>9, <1>11
  <1>17. \A k \in DOMAIN t : u[k].parent \in {to, t[k].parent}
    BY <1>9
  <1> QED
    BY <1>2, <1>8, <1>9, <1>15, <1>16, <1>17 DEF u

\* create_node: a new node without links keeps the table sound.
LEMMA CreateKeepsSound ==
    ASSUME NEW S, NEW t \in Seq(S), NEW x \in S, x.parent = NULL, x.kids = <<>>, Sound(t)
    PROVE  Sound(Append(t, x))
  <1> DEFINE u == Append(t, x)
  <1>1. /\ u \in Seq(S) /\ Len(u) = Len(t) + 1
        /\ \A k \in DOMAIN t : u[k] = t[k]
        /\ u[Len(t) + 1] = x
    BY AppendProperties, LenProperties
  <1>2. /\ Len(t) \in Nat /\ DOMAIN t = 1..Len(t)
        /\ DOMAIN u = 1..(Len(t) + 1)
    BY <1>1, LenProperties
  <1> HIDE DEF u
  <1>3. \A k \in DOMAIN u : k \in DOMAIN t \/ k = Len(t) + 1
    BY <1>2
  <1>4. \A k \in DOMAIN t : k \in DOMAIN u
    BY <1>2
  <1>5. DOMAIN x.kids = {}
    OBVIOUS
  <1>6. ASSUME NEW k \in DOMAIN u, NEW i \in DOMAIN u[k].kids
        PROVE  /\ u[k].kids[i] \in DOMAIN u
               /\ u[u[k].kids[i]].parent = k
               /\ u[u[k].kids[i]].idx = i - 1
    <2>1. k \in DOMAIN t /\ u[k].kids = t[k].kids
      BY <1>1, <1>3, <1>5, <1>6
    <2>2. /\ t[k].kids[i] \in DOMAIN t
          /\ t[t[k].kids[i]].parent = k /\ t[t[k].kids[i]].idx = i - 1
      BY <1>6, <2>1 DEF Sound
    <2> QED
      BY <1>1, <1>4, <2>1, <2>2
  <1>7. ASSUME NEW k \in DOMAIN u, u[k].parent # NULL
        PROVE  /\ u[k].parent \in DOMAIN u
               /\ u[k].idx + 1 \in DOMAIN u[u[k].parent].kids
               /\ u[u[k].parent].kids[u[k].idx + 1] = k
    <2>1. k \in DOMAIN t /\ u[k] = t[k]
      BY <1>1, <1>3, <1>7
    <2>2. /\ t[k].parent \in DOMAIN t /\ t[k].idx + 1 \in DOMAIN t[t[k].parent].kids
          /\ t[t[k].parent].kids[t[k].idx + 1] = k
      BY <1>7, <2>1 DEF Sound
    <2> QED
      BY <1>1, <1>4, <2>1, <2>2
  <1> QED
    BY <1>6, <1>7 DEF Sound, u

\* Tables with the same positions have the same length.
LEMMA SameLength ==
    ASSUME NEW S, NEW t \in Seq(S), NEW u \in Seq(S), DOMAIN u = DOMAIN t
    PROVE  Len(u) = Len(t)
  <1>1. Len(u) \in Nat /\ Len(t) \in Nat /\ DOMAIN u = 1..Len(u) /\ DOMAIN t = 1..Len(t)
    BY LenProperties
  <1>2. CASE Len(u) < Len(t)
    <2>1. Len(t) \in 1..Len(t) /\ Len(t) \notin 1..Len(u)
      BY <1>1, <1>2
    <2> QED
      BY <1>1, <2>1
  <1>3. CASE Len(t) < Len(u)
    <2>1. Len(u) \in 1..Len(u) /\ Len(u) \notin 1..Len(t)
      BY <1>1, <1>3
    <2> QED
      BY <1>1, <2>1
  <1>4. Len(u) < Len(t) \/ Len(t) < Len(u) \/ Len(u) = Len(t)
    <2>1. Len(u) \in Nat /\ Len(t) \in Nat
      BY <1>1
    <2> QED
      BY ONLY <2>1
  <1> QED
    BY <1>2, <1>3, <1>4
=============================================================================
