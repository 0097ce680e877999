------------------------ MODULE GrowingArrays_proofs ------------------------
(***************************************************************************)
(* Proofs about GrowingArrays, for every set of elements, strings and      *)
(* characters and all capacities: a GumboVector and a GumboStringBuffer    *)
(* are lists.  Each operation is followed cell by cell, through the block  *)
(* that grows and the cells that are moved or written, and its result is   *)
(* compared with the operation on sequences that ItemList has.  That the   *)
(* loop of maybe_resize_string_buffer ends, and with enough room, is an    *)
(* induction on how much is missing; that what is appended is the          *)
(* character is a fold over the digits that its bytes hold.                *)
(***************************************************************************)
EXTENDS GrowingArrays, FoldLemmas, SequenceTheorems, WellFoundedInduction, TLAPS

\* What a cell in use may hold: a pointer or a byte.
Values == Elements \cup Nat

\* The record is an array, its block has as many cells as it says, and nothing overran it.
Block(a) ==
    /\ DOMAIN a = {"cells", "length", "capacity", "overrun"}
    /\ a.capacity \in Nat /\ a.length \in 0 .. a.capacity
    /\ DOMAIN a.cells = 0 .. a.capacity - 1
    /\ a.cells = [i \in DOMAIN a.cells |-> a.cells[i]]
    /\ a.overrun = FALSE

\* What is in use was put there.
Filled(a) == \A i \in 0 .. a.length - 1 : a.cells[i] \in Values

\* The invariant: nothing is left of an array that nobody uses, and a buffer that is in use
\* has a capacity that can be doubled.
IInv ==
    /\ kind \in {"vector", "buffer"} /\ inUse \in BOOLEAN
    /\ Block(array) /\ Filled(array) /\ array.length <= MaxLength
    /\ ~inUse => array.length = 0 /\ array.capacity = 0
    /\ inUse /\ kind = "buffer" => array.capacity # 0

-----------------------------------------------------------------------------
(***************************************************************************)
(* The operations on the memory.                                           *)
(***************************************************************************)

\* A vector that nobody uses, and a new one, hold nothing.
LEMMA NewIsEmpty ==
    ASSUME NEW n \in Nat
    PROVE  Block(New(n)) /\ Filled(New(n)) /\ Items(New(n)) = <<>>
              /\ New(n).length = 0 /\ New(n).capacity = n /\ New(n).cells = Cells(n)
  <1>1. /\ Block(New(n)) /\ New(n).length = 0 /\ New(n).capacity = n
        /\ New(n).cells = Cells(n)
    BY DEF New, Block, Cells
  <1>2. Filled(New(n)) /\ Items(New(n)) = <<>>
    BY <1>1 DEF Filled, Items
  <1> QED
    BY <1>1, <1>2

\* What a block without a cell holds.
LEMMA NoCells ==
    ASSUME NEW a, Block(a), a.capacity = 0
    PROVE  a.cells = Cells(0) /\ Items(a) = <<>>
  <1>1. a.length = 0 /\ DOMAIN a.cells = {} /\ 0 .. 0 - 1 = {}
    BY DEF Block
  <1>2. a.cells = [i \in {} |-> a.cells[i]]
    BY <1>1 DEF Block
  <1>3. a.cells = Cells(0)
    BY <1>1, <1>2 DEF Cells
  <1>4. Items(a) = <<>>
    BY <1>1 DEF Items
  <1> QED
    BY <1>3, <1>4

\* gumbo_realloc to a larger block: what was in use stays.
LEMMA ReallocKeeps ==
    ASSUME NEW a, Block(a), NEW n \in Nat, a.capacity <= n
    PROVE  /\ Block(gumbo_realloc(a, n)) /\ gumbo_realloc(a, n).length = a.length
           /\ gumbo_realloc(a, n).capacity = n
           /\ \A i \in 0 .. a.length - 1 : gumbo_realloc(a, n).cells[i] = a.cells[i]
  BY DEF Block, gumbo_realloc

\* An assertion that holds changes nothing.
LEMMA RequireHolds ==
    ASSUME NEW a, Block(a), NEW c \in BOOLEAN, c
    PROVE  /\ Block(Require(a, c)) /\ Require(a, c).length = a.length
           /\ Require(a, c).capacity = a.capacity /\ Require(a, c).cells = a.cells
  <1>1. (a.overrun \/ ~c) = FALSE
    BY DEF Block
  <1> DEFINE fails == a.overrun \/ ~c
             b == [a EXCEPT !.overrun = fails]
  <1>2. Require(a, c) = b
    BY DEF Require
  <1>3. fails = FALSE
    BY <1>1
  <1> HIDE DEF fails
  <1>4. Block(b) /\ b.length = a.length /\ b.capacity = a.capacity /\ b.cells = a.cells
    BY <1>3 DEF Block
  <1> QED
    BY <1>2, <1>4

\* The cells of a block get other values.
LEMMA CellsSet ==
    ASSUME NEW a, Block(a), NEW f, DOMAIN f = 0 .. a.capacity - 1,
           f = [i \in DOMAIN f |-> f[i]]
    PROVE  /\ Block([a EXCEPT !.cells = f]) /\ [a EXCEPT !.cells = f].length = a.length
           /\ [a EXCEPT !.cells = f].capacity = a.capacity
           /\ [a EXCEPT !.cells = f].cells = f
  BY DEF Block

\* A cell of the block is written.
LEMMA WriteSets ==
    ASSUME NEW a, Block(a), NEW x, NEW at \in 0 .. a.capacity - 1
    PROVE  /\ Block(Write(a, at, <<x>>)) /\ Write(a, at, <<x>>).length = a.length
           /\ Write(a, at, <<x>>).capacity = a.capacity
           /\ \A i \in 0 .. a.capacity - 1 :
                 Write(a, at, <<x>>).cells[i] = IF i = at THEN x ELSE a.cells[i]
  <1> DEFINE target == at .. (at + Len(<<x>>) - 1)
             b == Require(a, target \subseteq DOMAIN a.cells)
             f == [i \in DOMAIN b.cells |-> IF i \in target THEN <<x>>[i - at + 1] ELSE b.cells[i]]
  <1>1. target = {at} /\ at \in Nat /\ target \subseteq DOMAIN a.cells
    BY DEF Block
  <1>2. /\ Block(b) /\ b.length = a.length /\ b.capacity = a.capacity /\ b.cells = a.cells
    BY <1>1, RequireHolds
  <1>3. Write(a, at, <<x>>) = [b EXCEPT !.cells = f]
    BY DEF Write
  <1> HIDE DEF b
  <1>4. DOMAIN f = 0 .. b.capacity - 1 /\ f = [i \in DOMAIN f |-> f[i]]
    BY <1>2 DEF Block
  <1>5. \A i \in 0 .. a.capacity - 1 : f[i] = IF i = at THEN x ELSE a.cells[i]
    <2>1. <<x>>[1] = x /\ DOMAIN b.cells = 0 .. a.capacity - 1
      BY <1>2 DEF Block
    <2>2. ASSUME NEW i \in 0 .. a.capacity - 1
          PROVE  f[i] = IF i = at THEN <<x>>[i - at + 1] ELSE a.cells[i]
      BY <1>1, <1>2, <2>1
    <2>3. at - at + 1 = 1
      BY <1>1
    <2> HIDE DEF f
    <2> QED
      BY <2>1, <2>2, <2>3
  <1> HIDE DEF f
  <1>6. /\ Block([b EXCEPT !.cells = f]) /\ [b EXCEPT !.cells = f].length = a.length
        /\ [b EXCEPT !.cells = f].capacity = a.capacity /\ [b EXCEPT !.cells = f].cells = f
    BY <1>2, <1>4, CellsSet
  <1> QED
    BY <1>3, <1>5, <1>6

\* b is a, but that n cells have what was in n others.
IsMoved(b, a, to, from, n) ==
    /\ Block(b) /\ b.length = a.length /\ b.capacity = a.capacity
    /\ \A i \in 0 .. a.capacity - 1 :
          b.cells[i] = IF i \in to .. (to + n - 1) THEN a.cells[i - to + from] ELSE a.cells[i]

\* Cells of the block are moved to other cells of the block.
LEMMA MemmoveMoves ==
    ASSUME NEW a, Block(a), NEW to \in Nat, NEW from \in Nat, NEW n \in Nat,
           to + n <= a.capacity, from + n <= a.capacity
    PROVE  IsMoved(memmove(a, to, from, n), a, to, from, n)
  <1> DEFINE target == to .. (to + n - 1)
             b == Require(a, target \cup from .. (from + n - 1) \subseteq DOMAIN a.cells)
             f == [i \in DOMAIN b.cells |->
                      IF i \in target /\ i - to + from \in DOMAIN b.cells THEN b.cells[i - to + from]
                      ELSE b.cells[i]]
  <1>1. (target \cup from .. (from + n - 1)) \subseteq DOMAIN a.cells
    BY DEF Block
  <1>2. /\ Block(b) /\ b.length = a.length /\ b.capacity = a.capacity /\ b.cells = a.cells
    BY <1>1, RequireHolds
  <1>3. memmove(a, to, from, n) = [b EXCEPT !.cells = f]
    BY DEF memmove
  <1> HIDE DEF b
  <1>4. DOMAIN f = 0 .. b.capacity - 1 /\ f = [i \in DOMAIN f |-> f[i]]
    BY <1>2 DEF Block
  <1>5. ASSUME NEW i \in 0 .. a.capacity - 1
        PROVE  f[i] = IF i \in target THEN a.cells[i - to + from] ELSE a.cells[i]
    <2>1. a.capacity \in Nat /\ DOMAIN b.cells = 0 .. a.capacity - 1
      BY <1>2 DEF Block
    <2>2. i \in target => i - to + from \in DOMAIN b.cells
      BY <2>1
    <2> QED
      BY <1>2, <2>1, <2>2
  <1> HIDE DEF f
  <1>6. /\ Block([b EXCEPT !.cells = f]) /\ [b EXCEPT !.cells = f].length = a.length
        /\ [b EXCEPT !.cells = f].capacity = a.capacity /\ [b EXCEPT !.cells = f].cells = f
    BY <1>2, <1>4, CellsSet
  <1> QED
    BY <1>3, <1>5, <1>6 DEF IsMoved

\* Another length: what is in use is what was in its cells.
LEMMA UsedKeeps ==
    ASSUME NEW a, Block(a), NEW n \in 0 .. a.capacity
    PROVE  /\ Block(Used(a, n)) /\ Used(a, n).length = n /\ Used(a, n).capacity = a.capacity
           /\ \A i \in 0 .. n - 1 : Used(a, n).cells[i] = a.cells[i]
  BY DEF Block, Used

\* enlarge_vector_if_full: nothing changes but that there is room for one more, as long as
\* the doubled capacity is a number of the machine.
LEMMA EnlargeMakesRoom ==
    ASSUME NEW v, Block(v), v.length <= MaxLength
    PROVE  /\ Block(enlarge_vector_if_full(v)) /\ enlarge_vector_if_full(v).length = v.length
           /\ v.length < enlarge_vector_if_full(v).capacity
           /\ \A i \in 0 .. v.length - 1 : enlarge_vector_if_full(v).cells[i] = v.cells[i]
  <1>1. CASE v.length < v.capacity
    BY <1>1 DEF enlarge_vector_if_full, Block
  <1>2. CASE ~(v.length < v.capacity)
    <2> DEFINE n == IF v.capacity = 0 THEN 2 ELSE (2 * v.capacity) % WordSize
    <2>1. v.capacity \in Nat /\ v.length = v.capacity
      BY <1>2 DEF Block
    <2>2. 2 * v.capacity \in 0 .. WordSize - 1
      BY <2>1, SizesAssumption
    <2>3. (2 * v.capacity) % WordSize = 2 * v.capacity
      BY <2>2, SizesAssumption
    <2>4. n \in Nat /\ v.capacity < n
      BY <2>1, <2>3
    <2>5. enlarge_vector_if_full(v) = gumbo_realloc(v, n)
      BY <1>2 DEF enlarge_vector_if_full
    <2> HIDE DEF n
    <2>6. v.capacity <= n
      BY <2>1, <2>4
    <2> QED
      BY <2>1, <2>4, <2>5, <2>6, ReallocKeeps
  <1> QED
    BY <1>1, <1>2

-----------------------------------------------------------------------------
(***************************************************************************)
(* The list that an array is, and the operations on sequences.             *)
(***************************************************************************)

\* What is in use is a sequence of elements.
LEMMA ItemsAreValues ==
    ASSUME NEW v, Block(v), Filled(v)
    PROVE  /\ Items(v) \in Seq(Values) /\ Len(Items(v)) = v.length
           /\ \A i \in 1 .. v.length : Items(v)[i] = v.cells[i - 1]
  <1>1. v.length \in Nat
    BY DEF Block
  <1>2. ASSUME NEW i \in 1 .. v.length
        PROVE  i - 1 \in 0 .. v.length - 1 /\ i - 1 \in DOMAIN v.cells /\ v.cells[i - 1] \in Values
    BY <1>1 DEF Block, Filled
  <1>3. Items(v) \in [1 .. v.length -> Values]
    BY <1>2 DEF Items
  <1>4. Items(v) \in Seq(Values) /\ Len(Items(v)) = v.length
    BY <1>1, <1>3
  <1>5. \A i \in 1 .. v.length : Items(v)[i] = v.cells[i - 1]
    BY <1>2 DEF Items
  <1> QED
    BY <1>4, <1>5

\* A sequence is known by its length and what is at each place.
LEMMA SameItems ==
    ASSUME NEW v, Block(v), Filled(v), NEW s \in Seq(Values), Len(s) = v.length,
           \A i \in 0 .. v.length - 1 : s[i + 1] = v.cells[i]
    PROVE  Items(v) = s
  <1>1. /\ Items(v) \in Seq(Values) /\ Len(Items(v)) = v.length
        /\ \A i \in 1 .. v.length : Items(v)[i] = v.cells[i - 1]
    BY ItemsAreValues
  <1>2. ASSUME NEW i \in 1 .. Len(s)
        PROVE  Items(v)[i] = s[i]
    <2>1. i - 1 \in 0 .. v.length - 1 /\ (i - 1) + 1 = i
      BY DEF Block
    <2>2. s[(i - 1) + 1] = v.cells[i - 1]
      BY <2>1
    <2> QED
      BY <1>1, <2>1, <2>2
  <1> QED
    BY <1>1, <1>2, SeqEqual

\* Where the elements are after one is inserted.
LEMMA InsertAtProperties ==
    ASSUME NEW s \in Seq(Values), NEW i, NEW e \in Values, i \in 1..(Len(s) + 1)
    PROVE  /\ List!InsertAt(s, i, e) \in Seq(Values)
           /\ Len(List!InsertAt(s, i, e)) = Len(s) + 1
           /\ \A j \in 1..(Len(s) + 1) :
                List!InsertAt(s, i, e)[j] = IF j < i THEN s[j] ELSE IF j = i THEN e ELSE s[j - 1]
  <1> DEFINE front == SubSeq(s, 1, i - 1)
             back  == SubSeq(s, i, Len(s))
  <1>0. Len(s) \in Nat /\ i \in Nat
    OBVIOUS
  <1>1. /\ front \in Seq(Values) /\ Len(front) = i - 1
        /\ \A j \in 1..(i - 1) : front[j] = s[j]
    BY SubSeqProperties
  <1>2. /\ back \in Seq(Values) /\ Len(back) = Len(s) + 1 - i
        /\ \A j \in 1..(Len(s) + 1 - i) : back[j] = s[i + j - 1]
    BY SubSeqProperties
  <1>3. <<e>> \in Seq(Values) /\ Len(<<e>>) = 1 /\ <<e>>[1] = e
    OBVIOUS
  <1> HIDE DEF front, back
  <1> DEFINE left == front \o <<e>>
  <1>4. /\ left \in Seq(Values) /\ Len(left) = i
        /\ \A j \in 1..i : left[j] = IF j < i THEN s[j] ELSE e
    <2>1. Len(front) + Len(<<e>>) = i
      BY <1>0, <1>1, <1>3
    <2>2. /\ left \in Seq(Values) /\ Len(left) = Len(front) + Len(<<e>>)
          /\ \A j \in 1..(Len(front) + Len(<<e>>)) :
                left[j] = IF j <= Len(front) THEN front[j] ELSE <<e>>[j - Len(front)]
      BY <1>1, <1>3, ConcatProperties
    <2> HIDE DEF left
    <2>3. ASSUME NEW j \in 1..i
          PROVE  left[j] = IF j < i THEN s[j] ELSE e
      <3>1. left[j] = IF j <= i - 1 THEN front[j] ELSE <<e>>[j - (i - 1)]
        BY <1>1, <2>1, <2>2
      <3>2. CASE j < i
        BY <1>0, <1>1, <3>1, <3>2
      <3>3. CASE j = i
        BY <1>0, <1>3, <3>1, <3>3
      <3>4. j < i \/ j = i
        BY <1>0
      <3> QED
        BY <1>0, <3>2, <3>3, <3>4
    <2> QED
      BY <2>1, <2>2, <2>3
  <1>5. List!InsertAt(s, i, e) = left \o back
    BY DEF List!InsertAt, left, front, back
  <1> HIDE DEF left
  <1>6. /\ left \o back \in Seq(Values)
        /\ Len(left \o back) = Len(s) + 1
        /\ \A j \in 1..(Len(s) + 1) :
              (left \o back)[j] = IF j <= i THEN left[j] ELSE back[j - i]
    <2>1. Len(left) + Len(back) = Len(s) + 1
      BY <1>0, <1>2, <1>4
    <2>2. /\ left \o back \in Seq(Values)
          /\ Len(left \o back) = Len(left) + Len(back)
          /\ \A j \in 1..(Len(left) + Len(back)) :
                (left \o back)[j] = IF j <= Len(left) THEN left[j] ELSE back[j - Len(left)]
      BY <1>2, <1>4, ConcatProperties
    <2> QED
      BY <1>4, <2>1, <2>2
  <1>7. ASSUME NEW j \in 1..(Len(s) + 1)
        PROVE  (left \o back)[j] = IF j < i THEN s[j] ELSE IF j = i THEN e ELSE s[j - 1]
    <2>1. CASE j <= i
      BY <1>4, <1>6, <2>1
    <2>2. CASE j > i
      <3>1. j - i \in 1..(Len(s) + 1 - i) /\ i + (j - i) - 1 = j - 1
        BY <2>2
      <3>2. ~(j <= i)
        BY <1>0, <2>2
      <3>3. (left \o back)[j] = back[j - i]
        BY <1>6, <3>2
      <3>4. back[j - i] = s[j - 1]
        BY <1>2, <3>1
      <3>5. ~(j < i) /\ j # i
        BY <1>0, <2>2
      <3> QED
        BY <3>3, <3>4, <3>5
    <2>3. j <= i \/ j > i
      BY <1>0, <1>7
    <2> QED
      BY <2>1, <2>2, <2>3
  <1> QED
    BY <1>5, <1>6, <1>7

\* Where the elements are after one is removed.
LEMMA RemoveAtProperties ==
    ASSUME NEW s \in Seq(Values), NEW i, i \in 1..Len(s)
    PROVE  /\ List!RemoveAt(s, i) \in Seq(Values)
           /\ Len(List!RemoveAt(s, i)) = Len(s) - 1
           /\ \A j \in 1..(Len(s) - 1) :
                List!RemoveAt(s, i)[j] = IF j < i THEN s[j] ELSE s[j + 1]
  <1> DEFINE front == SubSeq(s, 1, i - 1)
             back  == SubSeq(s, i + 1, Len(s))
  <1>0. Len(s) \in Nat /\ i \in Nat
    OBVIOUS
  <1>1. /\ front \in Seq(Values) /\ Len(front) = i - 1
        /\ \A j \in 1..(i - 1) : front[j] = s[j]
    BY SubSeqProperties
  <1>2. /\ back \in Seq(Values) /\ Len(back) = Len(s) - i
        /\ \A j \in 1..(Len(s) - i) : back[j] = s[i + j]
    BY SubSeqProperties
  <1>3. List!RemoveAt(s, i) = front \o back
    BY DEF List!RemoveAt
  <1> HIDE DEF front, back
  <1>4. /\ front \o back \in Seq(Values)
        /\ Len(front \o back) = Len(s) - 1
        /\ \A j \in 1..(Len(s) - 1) :
              (front \o back)[j] = IF j <= i - 1 THEN front[j] ELSE back[j - (i - 1)]
    <2>1. Len(front) + Len(back) = Len(s) - 1
      BY <1>0, <1>1, <1>2
    <2>2. /\ front \o back \in Seq(Values)
          /\ Len(front \o back) = Len(front) + Len(back)
          /\ \A j \in 1..(Len(front) + Len(back)) :
                (front \o back)[j] = IF j <= Len(front) THEN front[j] ELSE back[j - Len(front)]
      BY <1>1, <1>2, ConcatProperties
    <2> QED
      BY <1>1, <2>1, <2>2
  <1>5. ASSUME NEW j \in 1..(Len(s) - 1)
        PROVE  (front \o back)[j] = IF j < i THEN s[j] ELSE s[j + 1]
    <2>1. CASE j < i
      BY <1>1, <1>4, <2>1
    <2>2. CASE j >= i
      <3>1. j - (i - 1) \in 1..(Len(s) - i) /\ i + (j - (i - 1)) = j + 1
        BY <2>2
      <3>2. ~(j <= i - 1)
        BY <1>0, <2>2
      <3>3. (front \o back)[j] = back[j - (i - 1)]
        BY <1>4, <3>2
      <3>4. back[j - (i - 1)] = s[j + 1]
        BY <1>2, <3>1
      <3>5. ~(j < i)
        BY <1>0, <2>2
      <3> QED
        BY <3>3, <3>4, <3>5
    <2>3. j < i \/ j >= i
      BY <1>0, <1>5
    <2> QED
      BY <2>1, <2>2, <2>3
  <1> QED
    BY <1>3, <1>4, <1>5

-----------------------------------------------------------------------------
(***************************************************************************)
(* The operations of a vector.                                             *)
(***************************************************************************)

\* gumbo_vector_add appends.
LEMMA AddAppends ==
    ASSUME NEW v, Block(v), Filled(v), v.length <= MaxLength, NEW x \in Values
    PROVE  /\ Block(gumbo_vector_add(v, x)) /\ Filled(gumbo_vector_add(v, x))
           /\ Items(gumbo_vector_add(v, x)) = Append(Items(v), x)
  <1> DEFINE large   == enlarge_vector_if_full(v)
             fits    == Require(large, large.length < large.capacity)
             written == Write(fits, v.length, <<x>>)
             w       == Used(written, v.length + 1)
  <1>1. v.length \in Nat
    BY DEF Block
  <1>2. /\ Block(large) /\ large.length = v.length /\ v.length < large.capacity
        /\ \A i \in 0 .. v.length - 1 : large.cells[i] = v.cells[i]
    BY EnlargeMakesRoom
  <1>3. gumbo_vector_add(v, x) = w
    BY DEF gumbo_vector_add
  <1> HIDE DEF large
  <1>4. /\ Block(fits) /\ fits.length = v.length
        /\ fits.capacity = large.capacity /\ fits.cells = large.cells
    <2>1. large.length < large.capacity
      BY <1>2
    <2> QED
      BY <1>2, <2>1, RequireHolds
  <1> HIDE DEF fits
  <1>5. v.length \in 0 .. fits.capacity - 1 /\ fits.capacity \in Nat
    BY <1>1, <1>2, <1>4 DEF Block
  <1>6. /\ Block(written) /\ written.capacity = fits.capacity
        /\ \A i \in 0 .. fits.capacity - 1 :
              written.cells[i] = IF i = v.length THEN x ELSE fits.cells[i]
    BY <1>4, <1>5, WriteSets
  <1> HIDE DEF written
  <1>7. v.length + 1 \in 0 .. written.capacity
    BY <1>1, <1>5, <1>6
  <1>8. /\ Block(w) /\ w.length = v.length + 1
        /\ \A i \in 0 .. v.length : w.cells[i] = written.cells[i]
    <2>1. (v.length + 1) - 1 = v.length
      BY <1>1
    <2> QED
      BY <1>6, <1>7, <2>1, UsedKeeps
  <1> HIDE DEF w
  <1>9. ASSUME NEW i \in 0 .. v.length
        PROVE  w.cells[i] = IF i = v.length THEN x ELSE v.cells[i]
    <2>1. i \in 0 .. fits.capacity - 1 /\ (i = v.length \/ i \in 0 .. v.length - 1)
      BY <1>1, <1>5
    <2> QED
      BY <1>2, <1>4, <1>6, <1>8, <2>1
  <1>10. Filled(w)
    <2> SUFFICES ASSUME NEW i \in 0 .. w.length - 1 PROVE w.cells[i] \in Values
      BY DEF Filled
    <2>1. i \in 0 .. v.length /\ (i = v.length \/ i \in 0 .. v.length - 1)
      BY <1>1, <1>8
    <2> QED
      BY <1>9, <2>1 DEF Filled
  <1>11. /\ Items(v) \in Seq(Values) /\ Len(Items(v)) = v.length
         /\ \A i \in 1 .. v.length : Items(v)[i] = v.cells[i - 1]
    BY ItemsAreValues
  <1>12. /\ Append(Items(v), x) \in Seq(Values)
         /\ Len(Append(Items(v), x)) = v.length + 1
         /\ \A i \in 1 .. v.length : Append(Items(v), x)[i] = Items(v)[i]
         /\ Append(Items(v), x)[v.length + 1] = x
    BY <1>11, AppendProperties
  <1>13. ASSUME NEW i \in 0 .. w.length - 1
         PROVE  Append(Items(v), x)[i + 1] = w.cells[i]
    <2>1. i \in 0 .. v.length /\ (i = v.length \/ (i + 1 \in 1 .. v.length /\ i # v.length))
          /\ (i + 1) - 1 = i
      BY <1>1, <1>8
    <2>2. CASE i = v.length
      BY <1>9, <1>12, <2>1, <2>2
    <2>3. CASE i + 1 \in 1 .. v.length /\ i # v.length
      BY <1>9, <1>11, <1>12, <2>1, <2>3
    <2> QED
      BY <2>1, <2>2, <2>3
  <1>14. Items(w) = Append(Items(v), x)
    BY <1>8, <1>10, <1>12, <1>13, SameItems
  <1> QED
    BY <1>3, <1>8, <1>10, <1>14

\* gumbo_vector_pop takes the last one.
LEMMA PopTakesLast ==
    ASSUME NEW v, Block(v), Filled(v), v.length # 0
    PROVE  /\ Block(gumbo_vector_pop(v)) /\ Filled(gumbo_vector_pop(v))
           /\ Items(gumbo_vector_pop(v)) = List!Front(Items(v))
           /\ v.cells[v.length - 1] = List!Last(Items(v))
  <1> DEFINE w == Used(v, v.length - 1)
  <1>1. v.length \in Nat \ {0} /\ v.length - 1 \in 0 .. v.capacity /\ v.length - 1 \in Nat
    BY DEF Block
  <1>2. gumbo_vector_pop(v) = w
    BY DEF gumbo_vector_pop
  <1>3. /\ Block(w) /\ w.length = v.length - 1
        /\ \A i \in 0 .. (v.length - 1) - 1 : w.cells[i] = v.cells[i]
    BY <1>1, UsedKeeps
  <1> HIDE DEF w
  <1>4. Filled(w)
    BY <1>1, <1>3 DEF Filled
  <1>5. /\ Items(v) \in Seq(Values) /\ Len(Items(v)) = v.length
        /\ \A i \in 1 .. v.length : Items(v)[i] = v.cells[i - 1]
    BY ItemsAreValues
  <1> DEFINE front == SubSeq(Items(v), 1, v.length - 1)
  <1>6. /\ front \in Seq(Values) /\ Len(front) = v.length - 1
        /\ \A i \in 1 .. v.length - 1 : front[i] = Items(v)[i]
    BY <1>1, <1>5, SubSeqProperties
  <1>7. List!Front(Items(v)) = front
    BY <1>5 DEF List!Front
  <1> HIDE DEF front
  <1>8. ASSUME NEW i \in 0 .. w.length - 1
        PROVE  front[i + 1] = w.cells[i]
    <2>1. /\ i \in 0 .. (v.length - 1) - 1 /\ i + 1 \in 1 .. v.length - 1
          /\ i + 1 \in 1 .. v.length /\ (i + 1) - 1 = i
      BY <1>1, <1>3
    <2> QED
      BY <1>3, <1>5, <1>6, <2>1
  <1>9. Items(w) = front
    BY <1>3, <1>4, <1>6, <1>8, SameItems
  <1>10. v.cells[v.length - 1] = List!Last(Items(v))
    BY <1>1, <1>5 DEF List!Last
  <1> QED
    BY <1>2, <1>3, <1>4, <1>7, <1>9, <1>10

\* gumbo_vector_insert_at moves the elements from the index on out of the way.
LEMMA InsertAtInserts ==
    ASSUME NEW v, Block(v), Filled(v), v.length <= MaxLength, NEW x \in Values,
           NEW index \in 0 .. v.length
    PROVE  /\ Block(gumbo_vector_insert_at(v, x, index)) /\ Filled(gumbo_vector_insert_at(v, x, index))
           /\ Items(gumbo_vector_insert_at(v, x, index)) = List!InsertAt(Items(v), index + 1, x)
  <1> DEFINE large   == enlarge_vector_if_full(v)
             next    == index + 1
             size    == v.length - index
             moved   == memmove(large, next, index, size)
             written == Write(moved, index, <<x>>)
             w       == Used(written, v.length + 1)
  <1>1. v.length \in Nat /\ index \in Nat /\ index + 1 \in Nat /\ v.length - index \in Nat
    BY DEF Block
  <1>2. /\ Block(large) /\ large.length = v.length /\ v.length < large.capacity
        /\ \A i \in 0 .. v.length - 1 : large.cells[i] = v.cells[i]
    BY EnlargeMakesRoom
  <1>3. gumbo_vector_insert_at(v, x, index) = w
    BY DEF gumbo_vector_insert_at
  <1> HIDE DEF large
  <1>4. large.capacity \in Nat
    BY <1>2 DEF Block
  <1>5. /\ next = index + 1 /\ size = v.length - index /\ next \in Nat /\ size \in Nat
        /\ next + size <= large.capacity /\ index + size <= large.capacity
    BY <1>1, <1>2, <1>4
  <1> HIDE DEF next, size
  <1>6. /\ Block(moved) /\ moved.capacity = large.capacity
        /\ \A i \in 0 .. large.capacity - 1 :
              moved.cells[i] =
                 IF i \in next .. (next + size - 1)
                 THEN large.cells[i - next + index] ELSE large.cells[i]
    <2>1. Block(large) /\ next \in Nat /\ index \in Nat /\ size \in Nat
      BY <1>1, <1>2, <1>5
    <2>2. next + size <= large.capacity /\ index + size <= large.capacity
      BY <1>5
    <2>3. IsMoved(memmove(large, next, index, size), large, next, index, size)
      BY <2>1, <2>2, MemmoveMoves
    <2> QED
      BY <2>3 DEF IsMoved
  <1> HIDE DEF moved
  <1>7. index \in 0 .. moved.capacity - 1
    BY <1>1, <1>2, <1>4, <1>6
  <1>8. /\ Block(written) /\ written.capacity = large.capacity
        /\ \A i \in 0 .. large.capacity - 1 :
              written.cells[i] = IF i = index THEN x ELSE moved.cells[i]
    BY <1>6, <1>7, WriteSets
  <1> HIDE DEF written
  <1>9. v.length + 1 \in 0 .. written.capacity
    BY <1>1, <1>2, <1>4, <1>8
  <1>10. /\ Block(w) /\ w.length = v.length + 1
         /\ \A i \in 0 .. v.length : w.cells[i] = written.cells[i]
    <2>1. (v.length + 1) - 1 = v.length
      BY <1>1
    <2> QED
      BY <1>8, <1>9, <2>1, UsedKeeps
  <1> HIDE DEF w
  <1>11. ASSUME NEW i \in 0 .. v.length
         PROVE  w.cells[i] = IF i < index THEN v.cells[i] ELSE IF i = index THEN x ELSE v.cells[i - 1]
    <2>1. i \in 0 .. large.capacity - 1
      BY <1>1, <1>2, <1>4
    <2>2. w.cells[i] = IF i = index THEN x ELSE moved.cells[i]
      BY <1>8, <1>10, <2>1
    <2>3. CASE i < index
      <3>1. /\ i \in 0 .. v.length - 1 /\ i # index
            /\ i \notin next .. (next + size - 1)
        BY <1>1, <1>5, <2>3
      <3> QED
        BY <1>2, <1>6, <2>1, <2>2, <2>3, <3>1
    <2>4. CASE i = index
      BY <1>1, <2>2, <2>4
    <2>5. CASE i > index
      <3>1. /\ i - 1 \in 0 .. v.length - 1 /\ i # index /\ ~(i < index)
            /\ i \in next .. (next + size - 1) /\ i - next + index = i - 1
        BY <1>1, <1>5, <2>5
      <3>2. moved.cells[i] = large.cells[i - 1]
        BY <1>6, <2>1, <3>1
      <3> QED
        BY <1>2, <2>2, <3>1, <3>2
    <2> QED
      BY <1>1, <2>3, <2>4, <2>5
  <1>12. Filled(w)
    <2> SUFFICES ASSUME NEW i \in 0 .. w.length - 1 PROVE w.cells[i] \in Values
      BY DEF Filled
    <2>1. /\ i \in 0 .. v.length
          /\ i < index => i \in 0 .. v.length - 1
          /\ i > index => i - 1 \in 0 .. v.length - 1
          /\ i < index \/ i = index \/ i > index
      BY <1>1, <1>10
    <2> QED
      BY <1>1, <1>11, <2>1 DEF Filled
  <1>13. /\ Items(v) \in Seq(Values) /\ Len(Items(v)) = v.length
         /\ \A i \in 1 .. v.length : Items(v)[i] = v.cells[i - 1]
    BY ItemsAreValues
  <1> DEFINE inserted == List!InsertAt(Items(v), index + 1, x)
  <1>14. index + 1 \in 1 .. (Len(Items(v)) + 1)
    BY <1>1, <1>13
  <1>15. /\ inserted \in Seq(Values) /\ Len(inserted) = v.length + 1
         /\ \A j \in 1 .. (v.length + 1) :
               inserted[j] = IF j < index + 1 THEN Items(v)[j]
                             ELSE IF j = index + 1 THEN x ELSE Items(v)[j - 1]
    BY <1>13, <1>14, InsertAtProperties
  <1> HIDE DEF inserted
  <1>16. ASSUME NEW i \in 0 .. w.length - 1
         PROVE  inserted[i + 1] = w.cells[i]
    <2>1. /\ i \in 0 .. v.length /\ i + 1 \in 1 .. (v.length + 1)
          /\ (i + 1 < index + 1) <=> (i < index)
          /\ (i + 1 = index + 1) <=> (i = index)
          /\ (i + 1) - 1 = i
          /\ i < index => i + 1 \in 1 .. v.length
          /\ (~(i < index) /\ i # index) => i \in 1 .. v.length
      BY <1>1, <1>10
    <2> QED
      BY <1>11, <1>13, <1>15, <2>1
  <1>17. Items(w) = inserted
    BY <1>10, <1>12, <1>15, <1>16, SameItems
  <1> QED
    BY <1>3, <1>10, <1>12, <1>17 DEF inserted

\* gumbo_vector_remove_at closes the gap.
LEMMA RemoveAtRemoves ==
    ASSUME NEW v, Block(v), Filled(v), NEW index \in 0 .. v.length - 1
    PROVE  /\ Block(gumbo_vector_remove_at(v, index)) /\ Filled(gumbo_vector_remove_at(v, index))
           /\ Items(gumbo_vector_remove_at(v, index)) = List!RemoveAt(Items(v), index + 1)
           /\ v.cells[index] = Items(v)[index + 1]
  <1> DEFINE next  == index + 1
             size  == v.length - index - 1
             moved == memmove(v, index, next, size)
             w     == Used(moved, v.length - 1)
  <1>1. /\ v.length \in Nat /\ index \in Nat /\ index + 1 \in Nat
        /\ v.length - index - 1 \in Nat /\ v.capacity \in Nat /\ v.length <= v.capacity
    BY DEF Block
  <1>2. gumbo_vector_remove_at(v, index) = w
    BY DEF gumbo_vector_remove_at
  <1>3. /\ next = index + 1 /\ size = v.length - index - 1 /\ next \in Nat /\ size \in Nat
        /\ index + size <= v.capacity /\ next + size <= v.capacity
    BY <1>1
  <1> HIDE DEF next, size
  <1>4. /\ Block(moved) /\ moved.capacity = v.capacity
        /\ \A i \in 0 .. v.capacity - 1 :
              moved.cells[i] =
                 IF i \in index .. (index + size - 1)
                 THEN v.cells[i - index + next] ELSE v.cells[i]
    <2>1. Block(v) /\ next \in Nat /\ index \in Nat /\ size \in Nat
      BY <1>1, <1>3
    <2>2. index + size <= v.capacity /\ next + size <= v.capacity
      BY <1>3
    <2>3. IsMoved(memmove(v, index, next, size), v, index, next, size)
      BY <2>1, <2>2, MemmoveMoves
    <2> QED
      BY <2>3 DEF IsMoved
  <1> HIDE DEF moved
  <1>5. v.length - 1 \in 0 .. moved.capacity
    BY <1>1, <1>4
  <1>6. /\ Block(w) /\ w.length = v.length - 1
        /\ \A i \in 0 .. (v.length - 1) - 1 : w.cells[i] = moved.cells[i]
    BY <1>4, <1>5, UsedKeeps
  <1> HIDE DEF w
  <1>7. ASSUME NEW i \in 0 .. w.length - 1
        PROVE  w.cells[i] = IF i < index THEN v.cells[i] ELSE v.cells[i + 1]
    <2>1. i \in 0 .. v.capacity - 1 /\ i \in 0 .. (v.length - 1) - 1
      BY <1>1, <1>6
    <2>2. CASE i < index
      <3>1. i \notin index .. (index + size - 1)
        BY <1>1, <1>3, <2>2
      <3> QED
        BY <1>4, <1>6, <2>1, <2>2, <3>1
    <2>3. CASE ~(i < index)
      <3>1. i \in index .. (index + size - 1) /\ i - index + next = i + 1
        BY <1>1, <1>3, <2>1, <2>3
      <3> QED
        BY <1>4, <1>6, <2>1, <2>3, <3>1
    <2> QED
      BY <2>2, <2>3
  <1>8. Filled(w)
    <2> SUFFICES ASSUME NEW i \in 0 .. w.length - 1 PROVE w.cells[i] \in Values
      BY DEF Filled
    <2>1. i \in 0 .. v.length - 1 /\ i + 1 \in 0 .. v.length - 1
      BY <1>1, <1>6
    <2> QED
      BY <1>7, <2>1 DEF Filled
  <1>9. /\ Items(v) \in Seq(Values) /\ Len(Items(v)) = v.length
        /\ \A i \in 1 .. v.length : Items(v)[i] = v.cells[i - 1]
    BY ItemsAreValues
  <1> DEFINE removed == List!RemoveAt(Items(v), next)
  <1>10. next \in 1 .. Len(Items(v))
    BY <1>1, <1>3, <1>9
  <1>11. /\ removed \in Seq(Values) /\ Len(removed) = v.length - 1
         /\ \A j \in 1 .. (v.length - 1) :
               removed[j] = IF j < next THEN Items(v)[j] ELSE Items(v)[j + 1]
    <2>1. /\ removed \in Seq(Values) /\ Len(removed) = Len(Items(v)) - 1
          /\ \A j \in 1 .. (Len(Items(v)) - 1) :
                removed[j] = IF j < next THEN Items(v)[j] ELSE Items(v)[j + 1]
      BY <1>9, <1>10, RemoveAtProperties
    <2> QED
      BY <1>9, <2>1
  <1> HIDE DEF removed
  <1>12. ASSUME NEW i \in 0 .. w.length - 1
         PROVE  removed[i + 1] = w.cells[i]
    <2>1. /\ i + 1 \in 1 .. (v.length - 1)
          /\ i + 1 \in 1 .. v.length /\ (i + 1) + 1 \in 1 .. v.length
          /\ (i + 1) - 1 = i /\ ((i + 1) + 1) - 1 = i + 1
          /\ (i + 1 < next) <=> (i < index)
      BY <1>1, <1>3, <1>6
    <2> QED
      BY <1>7, <1>9, <1>11, <2>1
  <1>13. Items(w) = removed
    BY <1>6, <1>8, <1>11, <1>12, SameItems
  <1>14. v.cells[index] = Items(v)[index + 1]
    <2>1. index + 1 \in 1 .. v.length /\ (index + 1) - 1 = index
      BY <1>1
    <2> QED
      BY <1>9, <2>1
  <1> QED
    BY <1>2, <1>3, <1>6, <1>8, <1>13, <1>14 DEF removed

\* The places of an element, counted from 0 in the cells and from 1 in the list.
PlacesOf(s, x) == {i - 1 : i \in {j \in DOMAIN s : s[j] = x}}

\* gumbo_vector_index_of finds the first place.
LEMMA IndexOfFindsFirst ==
    ASSUME NEW v, Block(v), Filled(v), NEW x
    PROVE  \/ PlacesOf(Items(v), x) = {} /\ gumbo_vector_index_of(v, x) = -1
           \/ /\ gumbo_vector_index_of(v, x) \in PlacesOf(Items(v), x)
              /\ gumbo_vector_index_of(v, x) \in 0 .. v.length - 1
              /\ \A j \in PlacesOf(Items(v), x) : gumbo_vector_index_of(v, x) <= j
  <1> DEFINE found == {i \in 0 .. v.length - 1 : v.cells[i] = x}
  <1>1. v.length \in Nat
    BY DEF Block
  <1>2. /\ Items(v) \in Seq(Values) /\ Len(Items(v)) = v.length
        /\ \A i \in 1 .. v.length : Items(v)[i] = v.cells[i - 1]
    BY ItemsAreValues
  <1>3. DOMAIN Items(v) = 1 .. v.length
    BY <1>2
  <1>4. PlacesOf(Items(v), x) = found
    <2>1. ASSUME NEW p \in PlacesOf(Items(v), x)
          PROVE  p \in found
      <3>1. PICK j \in 1 .. v.length : Items(v)[j] = x /\ p = j - 1
        BY <1>3 DEF PlacesOf
      <3>2. p \in 0 .. v.length - 1
        BY <1>1, <3>1
      <3> QED
        BY <1>2, <3>1, <3>2
    <2>2. ASSUME NEW p \in found
          PROVE  p \in PlacesOf(Items(v), x)
      <3>1. p + 1 \in 1 .. v.length /\ (p + 1) - 1 = p
        BY <1>1
      <3>2. Items(v)[p + 1] = x
        BY <1>2, <3>1
      <3> QED
        BY <1>3, <3>1, <3>2 DEF PlacesOf
    <2> QED
      BY <2>1, <2>2
  <1>5. gumbo_vector_index_of(v, x)
           = IF found = {} THEN -1 ELSE CHOOSE i \in found : \A j \in found : i <= j
    BY DEF gumbo_vector_index_of
  <1>6. found \subseteq Nat /\ found \subseteq 0 .. v.length - 1
    BY <1>1
  <1> HIDE DEF found
  <1>7. CASE found = {}
    BY <1>4, <1>5, <1>7
  <1>8. CASE found # {}
    <2>1. \E c \in found : \A d \in found : c <= d
      BY <1>6, <1>8, LeastNumber
    <2> DEFINE least == CHOOSE i \in found : \A j \in found : i <= j
    <2>2. least \in found /\ \A j \in found : least <= j
      BY <2>1
    <2>3. gumbo_vector_index_of(v, x) = least
      BY <1>5, <1>8
    <2> HIDE DEF least
    <2> QED
      BY <1>4, <1>6, <2>2, <2>3
  <1> QED
    BY <1>7, <1>8

\* gumbo_vector_remove takes the first one out, if there is one.
LEMMA RemoveForgets ==
    ASSUME NEW v, Block(v), Filled(v), NEW x
    PROVE  /\ Block(gumbo_vector_remove(v, x)) /\ Filled(gumbo_vector_remove(v, x))
           /\ Items(gumbo_vector_remove(v, x)) = List!RemoveFirst(Items(v), x)
  <1> DEFINE s == Items(v)
             index == gumbo_vector_index_of(v, x)
             there == {i \in 1 .. Len(s) : s[i] = x}
  <1>1. v.length \in Nat
    BY DEF Block
  <1>2. s \in Seq(Values) /\ Len(s) = v.length /\ DOMAIN s = 1 .. v.length
    BY ItemsAreValues
  <1>3. CASE PlacesOf(s, x) = {} /\ index = -1
    <2>1. ~ \E i \in 1 .. Len(s) : s[i] = x
      BY <1>2, <1>3 DEF PlacesOf
    <2>2. List!RemoveFirst(s, x) = s
      BY <2>1 DEF List!RemoveFirst
    <2>3. gumbo_vector_remove(v, x) = v
      BY <1>3 DEF gumbo_vector_remove
    <2> QED
      BY <2>2, <2>3
  <1>4. CASE /\ index \in PlacesOf(s, x) /\ index \in 0 .. v.length - 1
             /\ \A j \in PlacesOf(s, x) : index <= j
    <2>1. PICK k \in 1 .. Len(s) : s[k] = x /\ index = k - 1
      BY <1>2, <1>4 DEF PlacesOf
    <2>2. k \in Nat /\ index + 1 = k /\ index # -1
      BY <1>1, <1>2, <2>1
    <2>3. ASSUME NEW j \in there PROVE k <= j
      <3>1. j - 1 \in PlacesOf(s, x)
        BY <1>2 DEF PlacesOf
      <3>2. index <= j - 1 /\ j \in Nat
        BY <1>4, <3>1
      <3> QED
        BY <2>1, <2>2, <3>2
    <2>4. k \in there /\ there \subseteq Nat
      BY <2>1
    <2> HIDE DEF there
    <2>5. (CHOOSE i \in there : \A j \in there : i <= j) = k
      <3> DEFINE least == CHOOSE i \in there : \A j \in there : i <= j
      <3>1. least \in there /\ \A j \in there : least <= j
        BY <2>3, <2>4
      <3>2. least <= k /\ k <= least /\ least \in Nat
        BY <2>2, <2>3, <2>4, <3>1
      <3> HIDE DEF least
      <3>3. least = k
        BY <2>2, <3>2
      <3> QED
        BY <3>3 DEF least
    <2>6. List!SelectInSeq(s, LAMBDA e : e = x) = k
      BY <2>4, <2>5 DEF List!SelectInSeq, List!Min, there
    <2>7. List!RemoveFirst(s, x) = List!RemoveAt(s, k)
      BY <2>1, <2>6 DEF List!RemoveFirst
    <2>8. gumbo_vector_remove(v, x) = gumbo_vector_remove_at(v, index)
      BY <2>2 DEF gumbo_vector_remove
    <2> HIDE DEF index
    <2> QED
      BY <1>4, <2>2, <2>7, <2>8, RemoveAtRemoves
  <1> QED
    BY <1>3, <1>4, IndexOfFindsFirst

-----------------------------------------------------------------------------
(***************************************************************************)
(* The operations of a string buffer.                                      *)
(***************************************************************************)

\* What the loop of maybe_resize_string_buffer makes of each capacity.
Doubling(f, needed) == f = [c \in Nat |-> IF c < needed THEN f[(2 * c) % WordSize] ELSE c]

\* The loop comes to an end while twice a capacity that is too small is a number of the
\* machine: the function is there, from the large capacities down to the small ones.
LEMMA DoublingEnds ==
    ASSUME NEW needed \in Nat, \A c \in Nat : c < needed => (2 * c) % WordSize = 2 * c
    PROVE  \E f : Doubling(f, needed)
  <1> DEFINE Turn(f, c) == f[c] = IF c < needed THEN f[2 * c] ELSE c
             T == {k \in 0 .. needed : \E f \in [Nat -> Nat] :
                                          \A c \in Nat : needed <= c + k => Turn(f, c)}
  <1>1. 0 \in T
    <2> DEFINE f == [c \in Nat |-> c]
    <2>1. f \in [Nat -> Nat] /\ \A c \in Nat : needed <= c + 0 => Turn(f, c)
      OBVIOUS
    <2> HIDE DEF f
    <2> QED
      BY <2>1
  <1>2. ASSUME NEW k \in 0 .. needed - 1, k \in T PROVE k + 1 \in T
    <2>1. PICK f \in [Nat -> Nat] : \A c \in Nat : needed <= c + k => Turn(f, c)
      BY <1>2
    <2> DEFINE d == needed - (k + 1)
               g == [f EXCEPT ![d] = f[2 * d]]
    <2>2. d \in Nat /\ d < needed /\ 2 * d \in Nat /\ (2 * d = d => d = 0)
      OBVIOUS
    <2>3. g \in [Nat -> Nat]
      BY <2>2
    <2>4. ASSUME NEW c \in Nat, needed <= c + (k + 1) PROVE Turn(g, c)
      <3>1. CASE c = d
        <4>1. g[d] = f[2 * d]
          BY <2>2
        <4>2. g[2 * d] = f[2 * d]
          BY <2>2
        <4> QED
          BY <2>2, <3>1, <4>1, <4>2
      <3>2. CASE c # d
        <4>1. needed <= c + k /\ 2 * c \in Nat /\ 2 * c # d
          BY <2>4, <3>2
        <4>2. g[c] = f[c] /\ g[2 * c] = f[2 * c]
          BY <2>2, <3>2, <4>1
        <4> QED
          BY <2>1, <4>1, <4>2
      <3> QED
        BY <3>1, <3>2
    <2>5. k + 1 \in 0 .. needed
      OBVIOUS
    <2> HIDE DEF g, Turn
    <2> QED
      BY <2>3, <2>4, <2>5
  <1>3. PICK f \in [Nat -> Nat] : \A c \in Nat : needed <= c + needed => Turn(f, c)
    <2> HIDE DEF T
    <2>1. needed \in T
      BY <1>1, <1>2, InductionUpTo
    <2> QED
      BY <2>1 DEF T
  <1>4. \A c \in Nat : needed <= c + needed
    OBVIOUS
  <1>5. \A c \in Nat : f[c] = IF c < needed THEN f[(2 * c) % WordSize] ELSE c
    BY <1>3, <1>4
  <1>6. Doubling(f, needed)
    BY <1>5 DEF Doubling
  <1> QED
    BY <1>6

\* Where the loop ends there is enough room, and it does not begin when there is already.
LEMMA DoubledSuffices ==
    ASSUME NEW needed \in Nat, \A c \in Nat : c < needed => (2 * c) % WordSize = 2 * c,
           NEW capacity \in Nat \ {0}
    PROVE  /\ Doubled(capacity, needed) \in Nat
           /\ needed <= Doubled(capacity, needed) /\ capacity <= Doubled(capacity, needed)
  <1> DEFINE after == CHOOSE f : Doubling(f, needed)
             Enough(c) == after[c] \in Nat /\ needed <= after[c] /\ c <= after[c]
             T == {k \in 0 .. needed : \A c \in Nat \ {0} : needed <= c + k => Enough(c)}
  <1>1. Doubled(capacity, needed) = after[capacity]
    BY DEF Doubled, Doubling
  <1>2. Doubling(after, needed)
    BY DoublingEnds
  <1> HIDE DEF after
  <1>3. \A c \in Nat : after[c] = IF c < needed THEN after[2 * c] ELSE c
    BY <1>2 DEF Doubling
  <1>4. 0 \in T
    BY <1>3
  <1>5. ASSUME NEW k \in 0 .. needed - 1, k \in T PROVE k + 1 \in T
    <2>1. ASSUME NEW c \in Nat \ {0}, needed <= c + (k + 1) PROVE Enough(c)
      <3>1. CASE c < needed
        <4>1. 2 * c \in Nat \ {0} /\ needed <= 2 * c + k /\ c <= 2 * c
          BY <2>1
        <4>2. Enough(2 * c)
          BY <1>5, <4>1
        <4> QED
          BY <1>3, <3>1, <4>1, <4>2
      <3>2. CASE ~(c < needed)
        BY <1>3, <3>2
      <3> QED
        BY <3>1, <3>2
    <2> HIDE DEF Enough
    <2> QED
      BY <2>1
  <1>6. needed \in T
    <2> HIDE DEF T
    <2> QED
      BY <1>4, <1>5, InductionUpTo
  <1>7. Enough(capacity)
    BY <1>6
  <1> QED
    BY <1>1, <1>7

\* large is the buffer b with room for so many cells, and what was in use is there.
HasRoom(large, b, needed) ==
    /\ Block(large) /\ large.length = b.length
    /\ needed <= large.capacity /\ large.capacity # 0
    /\ \A i \in 0 .. b.length - 1 : large.cells[i] = b.cells[i]

LEMMA ResizeMakesRoom ==
    ASSUME NEW b, Block(b), b.capacity # 0, NEW additional \in Int, NEW needed \in Nat,
           (b.length + additional) % WordSize = needed, 2 * needed < WordSize + 2
    PROVE  HasRoom(maybe_resize_string_buffer(b, additional), b, needed)
  <1> DEFINE capacity == Doubled(b.capacity, needed)
  <1>1. b.capacity \in Nat \ {0}
    BY DEF Block
  <1>2. ASSUME NEW c \in Nat, c < needed PROVE (2 * c) % WordSize = 2 * c
    <2>1. 2 * c \in 0 .. WordSize - 1
      BY <1>2, SizesAssumption
    <2> QED
      BY <2>1, SizesAssumption
  <1>3. capacity \in Nat /\ needed <= capacity /\ b.capacity <= capacity
    BY <1>1, <1>2, DoubledSuffices
  <1>4. maybe_resize_string_buffer(b, additional)
           = IF capacity = b.capacity THEN b ELSE gumbo_realloc(b, capacity)
    BY DEF maybe_resize_string_buffer
  <1> HIDE DEF capacity
  <1>5. CASE capacity = b.capacity
    BY <1>1, <1>3, <1>4, <1>5 DEF HasRoom
  <1>6. CASE capacity # b.capacity
    <2>1. /\ Block(gumbo_realloc(b, capacity)) /\ gumbo_realloc(b, capacity).length = b.length
          /\ gumbo_realloc(b, capacity).capacity = capacity
          /\ \A i \in 0 .. b.length - 1 : gumbo_realloc(b, capacity).cells[i] = b.cells[i]
      BY <1>3, ReallocKeeps
    <2>2. capacity # 0
      BY <1>1, <1>3
    <2> QED
      BY <1>3, <1>4, <1>6, <2>1, <2>2 DEF HasRoom
  <1> QED
    BY <1>5, <1>6

\* As many cells as the call asks for, when the sum is a number of the machine.
LEMMA ResizeBy ==
    ASSUME NEW b, Block(b), b.capacity # 0, NEW n \in Nat, b.length + n <= MaxLength + 1
    PROVE  HasRoom(maybe_resize_string_buffer(b, n), b, b.length + n)
  <1> DEFINE needed == b.length + n
  <1>1. b.length \in Nat /\ needed \in Nat /\ 2 * needed < WordSize + 2
    BY SizesAssumption DEF Block
  <1>2. needed \in 0 .. WordSize - 1
    BY <1>1, SizesAssumption
  <1>3. (b.length + n) % WordSize = needed
    BY <1>2, SizesAssumption
  <1> QED
    BY <1>1, <1>3, ResizeMakesRoom

\* A string is written into cells of the block.
LEMMA WriteBytes ==
    ASSUME NEW a, Block(a), NEW s \in Seq(Nat), NEW at \in Nat, at + Len(s) <= a.capacity
    PROVE  /\ Block(Write(a, at, s)) /\ Write(a, at, s).capacity = a.capacity
           /\ \A i \in 0 .. a.capacity - 1 :
                 Write(a, at, s).cells[i] =
                    IF i \in at .. (at + Len(s) - 1) THEN s[i - at + 1] ELSE a.cells[i]
  <1> DEFINE target == at .. (at + Len(s) - 1)
             b == Require(a, target \subseteq DOMAIN a.cells)
             f == [i \in DOMAIN b.cells |-> IF i \in target THEN s[i - at + 1] ELSE b.cells[i]]
  <1>1. target \subseteq DOMAIN a.cells
    BY DEF Block
  <1>2. /\ Block(b) /\ b.length = a.length /\ b.capacity = a.capacity /\ b.cells = a.cells
    BY <1>1, RequireHolds
  <1>3. Write(a, at, s) = [b EXCEPT !.cells = f]
    BY DEF Write
  <1> HIDE DEF b
  <1>4. DOMAIN f = 0 .. b.capacity - 1 /\ f = [i \in DOMAIN f |-> f[i]]
    BY <1>2 DEF Block
  <1>5. ASSUME NEW i \in 0 .. a.capacity - 1
        PROVE  f[i] = IF i \in target THEN s[i - at + 1] ELSE a.cells[i]
    <2>1. DOMAIN b.cells = 0 .. a.capacity - 1
      BY <1>2 DEF Block
    <2> HIDE DEF target
    <2> QED
      BY <1>2, <2>1
  <1> HIDE DEF f
  <1>6. /\ Block([b EXCEPT !.cells = f]) /\ [b EXCEPT !.cells = f].length = a.length
        /\ [b EXCEPT !.cells = f].capacity = a.capacity /\ [b EXCEPT !.cells = f].cells = f
    BY <1>2, <1>4, CellsSet
  <1> QED
    BY <1>3, <1>5, <1>6

\* w is a buffer that holds what b does and the string s behind it.
Appended(w, b, s) == Block(w) /\ Filled(w) /\ w.capacity # 0 /\ Items(w) = Items(b) \o s

\* A string is a sequence of values.
LEMMA NumbersAreValues ==
    ASSUME NEW s \in Seq(Nat)
    PROVE  s \in Seq(Values)
  <1>1. Len(s) \in Nat /\ s \in [1 .. Len(s) -> Nat]
    BY LenProperties
  <1>2. Nat \subseteq Values
    BY DEF Values
  <1>3. s \in [1 .. Len(s) -> Values]
    BY ONLY <1>1, <1>2
  <1> QED
    BY ONLY <1>1, <1>3

\* A place behind what was in use is one of the string.
LEMMA BehindAt ==
    ASSUME NEW at \in Nat, NEW m \in Nat, NEW n \in Nat, n <= m,
           NEW i \in 0 .. (at + n) - 1, ~(i < at)
    PROVE  i \in at .. (at + m - 1) /\ i - at + 1 \in 1 .. n
  OBVIOUS

\* The string t is written behind what is in use, and as much of it as s is in use then.
LEMMA WrittenBehind ==
    ASSUME NEW b, Block(b), Filled(b), NEW t \in Seq(Nat), NEW s \in Seq(Nat),
           Len(s) <= Len(t), \A i \in 1 .. Len(s) : t[i] = s[i],
           NEW large, HasRoom(large, b, b.length + Len(t))
    PROVE  Appended(Used(Write(large, b.length, t), b.length + Len(s)), b, s)
  <1> DEFINE written == Write(large, b.length, t)
             w == Used(written, b.length + Len(s))
  <1>1. /\ b.length \in Nat /\ Len(t) \in Nat /\ Len(s) \in Nat
        /\ Block(large) /\ large.capacity \in Nat
        /\ b.length + Len(t) <= large.capacity /\ large.capacity # 0
        /\ \A i \in 0 .. b.length - 1 : large.cells[i] = b.cells[i]
    BY DEF HasRoom, Block
  <1>2. /\ Block(written) /\ written.capacity = large.capacity
        /\ \A i \in 0 .. large.capacity - 1 :
              written.cells[i] =
                 IF i \in b.length .. (b.length + Len(t) - 1)
                 THEN t[i - b.length + 1] ELSE large.cells[i]
    BY <1>1, WriteBytes
  <1> HIDE DEF written
  <1>4. b.length + Len(s) \in 0 .. written.capacity
    BY <1>1, <1>2
  <1>5. /\ Block(w) /\ w.length = b.length + Len(s) /\ w.capacity = written.capacity
        /\ \A i \in 0 .. (b.length + Len(s)) - 1 : w.cells[i] = written.cells[i]
    BY <1>2, <1>4, UsedKeeps
  <1> HIDE DEF w
  <1>6. ASSUME NEW i \in 0 .. (b.length + Len(s)) - 1
        PROVE  w.cells[i] = IF i < b.length THEN b.cells[i] ELSE s[i - b.length + 1]
    <2>1. i \in 0 .. large.capacity - 1
      BY <1>1
    <2>2. CASE i < b.length
      <3>1. i \in 0 .. b.length - 1 /\ i \notin b.length .. (b.length + Len(t) - 1)
        BY <1>1, <2>2
      <3> QED
        BY <1>1, <1>2, <1>5, <2>1, <2>2, <3>1
    <2>3. CASE ~(i < b.length)
      <3>0. /\ b.length \in Nat /\ Len(t) \in Nat /\ Len(s) \in Nat /\ Len(s) <= Len(t)
            /\ i \in 0 .. (b.length + Len(s)) - 1
        BY <1>1
      <3>1. i \in b.length .. (b.length + Len(t) - 1) /\ i - b.length + 1 \in 1 .. Len(s)
        BY <2>3, <3>0, BehindAt
      <3>2. w.cells[i] = t[i - b.length + 1] /\ t[i - b.length + 1] = s[i - b.length + 1]
        BY <1>2, <1>5, <2>1, <3>1
      <3> QED
        BY <2>3, <3>2
    <2> QED
      BY <2>2, <2>3
  <1>7. Filled(w)
    <2> SUFFICES ASSUME NEW i \in 0 .. w.length - 1 PROVE w.cells[i] \in Values
      BY DEF Filled
    <2>1. i \in 0 .. (b.length + Len(s)) - 1
      BY <1>5
    <2>2. CASE i < b.length
      <3>1. i \in 0 .. b.length - 1
        BY <1>1, <2>1, <2>2
      <3> QED
        BY <1>6, <2>1, <2>2, <3>1 DEF Filled
    <2>3. CASE ~(i < b.length)
      <3>0. b.length \in Nat /\ Len(s) \in Nat /\ Len(s) <= Len(s)
        BY <1>1
      <3>1. i - b.length + 1 \in 1 .. Len(s)
        BY <2>1, <2>3, <3>0, BehindAt
      <3>2. s[i - b.length + 1] \in Nat
        BY <3>1
      <3> QED
        BY <1>6, <2>1, <2>3, <3>2 DEF Values
    <2> QED
      BY <2>2, <2>3
  <1>8. /\ Items(b) \in Seq(Values) /\ Len(Items(b)) = b.length
        /\ \A i \in 1 .. b.length : Items(b)[i] = b.cells[i - 1]
    BY ItemsAreValues
  <1>9. s \in Seq(Values)
    BY NumbersAreValues
  <1> DEFINE both == Items(b) \o s
  <1>10. /\ both \in Seq(Values) /\ Len(both) = b.length + Len(s)
         /\ \A i \in 1 .. (b.length + Len(s)) :
               both[i] = IF i <= b.length THEN Items(b)[i] ELSE s[i - b.length]
    <2>1. /\ both \in Seq(Values) /\ Len(both) = Len(Items(b)) + Len(s)
          /\ \A i \in 1 .. (Len(Items(b)) + Len(s)) :
                both[i] = IF i <= Len(Items(b)) THEN Items(b)[i] ELSE s[i - Len(Items(b))]
      BY ONLY <1>8, <1>9, ConcatProperties DEF both
    <2> QED
      BY <1>8, <2>1
  <1> HIDE DEF both
  <1>11. ASSUME NEW i \in 0 .. w.length - 1
         PROVE  both[i + 1] = w.cells[i]
    <2>0. i \in 0 .. (b.length + Len(s)) - 1
      BY <1>5
    <2>1. b.length \in Nat /\ Len(s) \in Nat
      BY <1>1
    <2>2. /\ i + 1 \in 1 .. (b.length + Len(s))
          /\ (i + 1 <= b.length) <=> (i < b.length)
          /\ (i + 1) - b.length = i - b.length + 1 /\ (i + 1) - 1 = i
          /\ i < b.length => i + 1 \in 1 .. b.length
      BY ONLY <2>0, <2>1
    <2>3. both[i + 1] = IF i < b.length THEN Items(b)[i + 1] ELSE s[i - b.length + 1]
      BY <1>10, <2>2
    <2> QED
      BY <1>6, <1>8, <2>0, <2>2, <2>3
  <1>12. Items(w) = both
    BY <1>5, <1>7, <1>10, <1>11, SameItems
  <1> QED
    BY <1>1, <1>2, <1>5, <1>7, <1>12 DEF Appended, both, w, written

\* Nothing to see of more room.
LEMMA RoomIsNotSeen ==
    ASSUME NEW b, Block(b), Filled(b), NEW large, NEW needed, HasRoom(large, b, needed)
    PROVE  Block(large) /\ Filled(large) /\ large.capacity # 0 /\ Items(large) = Items(b)
  <1>1. /\ Block(large) /\ large.capacity # 0 /\ large.length = b.length
        /\ \A i \in 0 .. b.length - 1 : large.cells[i] = b.cells[i]
    BY DEF HasRoom
  <1>2. Filled(large)
    BY <1>1 DEF Filled
  <1>3. /\ Items(b) \in Seq(Values) /\ Len(Items(b)) = b.length
        /\ \A i \in 1 .. b.length : Items(b)[i] = b.cells[i - 1]
    BY ItemsAreValues
  <1>4. ASSUME NEW i \in 0 .. large.length - 1 PROVE Items(b)[i + 1] = large.cells[i]
    <2>1. i + 1 \in 1 .. b.length /\ (i + 1) - 1 = i /\ i \in 0 .. b.length - 1
      BY <1>1 DEF Block
    <2> QED
      BY <1>1, <1>3, <2>1
  <1>5. Items(large) = Items(b)
    BY <1>1, <1>2, <1>3, <1>4, SameItems
  <1> QED
    BY <1>1, <1>2, <1>5

\* An append that fits is a longer list.
LEMMA AppendBytesAppends ==
    ASSUME NEW b, Block(b), Filled(b), b.capacity # 0, NEW s \in Seq(Nat),
           b.length + Len(s) <= MaxLength
    PROVE  Appended(AppendBytes(b, s), b, s)
  <1> DEFINE large == maybe_resize_string_buffer(b, Len(s))
  <1>1. b.length \in Nat /\ Len(s) \in Nat /\ b.length + Len(s) <= MaxLength + 1
    BY SizesAssumption DEF Block
  <1>2. HasRoom(large, b, b.length + Len(s))
    BY <1>1, ResizeBy
  <1>3. AppendBytes(b, s) = Used(Write(large, b.length, s), b.length + Len(s))
    BY DEF AppendBytes
  <1> HIDE DEF large
  <1>4. Len(s) <= Len(s) /\ \A i \in 1 .. Len(s) : s[i] = s[i]
    BY <1>1
  <1> QED
    BY <1>2, <1>3, <1>4, WrittenBehind

\* So is one of a formatted text: the null behind it is not in use.
LEMMA VsprintfAppends ==
    ASSUME NEW b, Block(b), Filled(b), b.capacity # 0, NEW s \in Seq(Nat),
           b.length + Len(s) <= MaxLength
    PROVE  Appended(gumbo_string_buffer_vsprintf(b, s), b, s)
  <1>1. b.length \in Nat /\ Len(s) \in Nat /\ b.length + (Len(s) + 1) <= MaxLength + 1
    BY SizesAssumption DEF Block
  <1>2. CASE s = <<>>
    <2>1. gumbo_string_buffer_vsprintf(b, s) = b
      BY <1>2 DEF gumbo_string_buffer_vsprintf
    <2>2. Items(b) \in Seq(Values)
      BY ItemsAreValues
    <2>3. Items(b) \o s = Items(b)
      BY <1>2, <2>2, ConcatEmptySeq
    <2> QED
      BY <2>1, <2>3 DEF Appended
  <1>3. CASE s # <<>>
    <2> DEFINE t == Append(s, 0)
               large == maybe_resize_string_buffer(b, Len(s) + 1)
    <2>1. t \in Seq(Nat) /\ Len(t) = Len(s) + 1 /\ \A i \in 1 .. Len(s) : t[i] = s[i]
      BY AppendProperties
    <2>2. Len(s) + 1 \in Nat /\ Len(s) <= Len(t)
      BY <1>1, <2>1
    <2>3. HasRoom(large, b, b.length + (Len(s) + 1))
      BY <1>1, <2>2, ResizeBy
    <2>4. gumbo_string_buffer_vsprintf(b, s) = Used(Write(large, b.length, t), b.length + Len(s))
      BY <1>3 DEF gumbo_string_buffer_vsprintf
    <2> HIDE DEF large, t
    <2>5. HasRoom(large, b, b.length + Len(t))
      BY <2>1, <2>3
    <2> QED
      BY <2>1, <2>2, <2>4, <2>5, WrittenBehind
  <1> QED
    BY <1>2, <1>3

\* The null that ends the text is not in use.
LEMMA NullIsNotSeen ==
    ASSUME NEW b, Block(b), Filled(b), b.capacity # 0, b.length <= MaxLength
    PROVE  /\ Block(gumbo_string_buffer_null_terminate(b))
           /\ Filled(gumbo_string_buffer_null_terminate(b))
           /\ gumbo_string_buffer_null_terminate(b).capacity # 0
           /\ Items(gumbo_string_buffer_null_terminate(b)) = Items(b)
  <1> DEFINE large == maybe_resize_string_buffer(b, 1)
             t == <<0>>
             s == <<>>
  <1>1. b.length \in Nat /\ b.length + 1 <= MaxLength + 1 /\ b.length + 0 = b.length
    BY SizesAssumption DEF Block
  <1>2. HasRoom(large, b, b.length + 1)
    BY <1>1, ResizeBy
  <1>3. t \in Seq(Nat) /\ s \in Seq(Nat) /\ Len(t) = 1 /\ Len(s) = 0
    OBVIOUS
  <1>4. gumbo_string_buffer_null_terminate(b) = Used(Write(large, b.length, t), b.length + Len(s))
    BY <1>1, <1>3 DEF gumbo_string_buffer_null_terminate
  <1>5. Items(b) \o s = Items(b)
    <2>1. Items(b) \in Seq(Values)
      BY ItemsAreValues
    <2> QED
      BY <2>1, ConcatEmptySeq
  <1> HIDE DEF large, t, s
  <1>6. Len(s) <= Len(t) /\ (\A i \in 1 .. Len(s) : t[i] = s[i])
        /\ HasRoom(large, b, b.length + Len(t))
    BY <1>2, <1>3
  <1> QED
    <2>1. Appended(gumbo_string_buffer_null_terminate(b), b, s)
      BY <1>3, <1>4, <1>6, WrittenBehind
    <2> QED
      BY <1>5, <2>1 DEF Appended

\* What the machine makes of a number: if it is too small or too large by one word, that
\* much is added or taken away.
LEMMA Remainders ==
    ASSUME NEW W \in Nat \ {0}, NEW x \in 0 .. W - 1
    PROVE  x % W = x /\ (x - W) % W = x /\ (x + W) % W = x
  <1>1. x % W = x
    BY SMTT(30)
  <1>2. (x - W) % W = x
    BY SMTT(30)
  <1>3. (x + W) % W = x
    BY SMTT(30)
  <1> QED
    BY <1>1, <1>2, <1>3

\* Bytes and characters are numbers.
LEMMA BytesAreNumbers ==
    ASSUME NEW s \in Strings
    PROVE  s \in Seq(Nat) /\ Len(s) \in Nat
  <1>1. s \in Seq(Nat)
    BY BytesAssumption
  <1> QED
    BY <1>1

LEMMA CharactersAreNumbers == \A c \in Codepoints : c \in Nat
  BY SMT, CharactersAssumption

\* gumbo_string_buffer_reserve: the difference that wraps around comes back when the length
\* is added to it.
LEMMA ReserveIsNotSeen ==
    ASSUME NEW b, Block(b), Filled(b), b.capacity # 0, b.length <= MaxLength, NEW n \in Reserved
    PROVE  /\ Block(gumbo_string_buffer_reserve(b, n)) /\ Filled(gumbo_string_buffer_reserve(b, n))
           /\ gumbo_string_buffer_reserve(b, n).capacity # 0
           /\ Items(gumbo_string_buffer_reserve(b, n)) = Items(b)
  <1> DEFINE difference == (n - b.length) % WordSize
  <1>1. /\ n \in Nat /\ 2 * n < WordSize /\ WordSize \in Nat \ {0}
        /\ b.length \in Nat /\ b.length < WordSize
    BY SizesAssumption DEF Block
  <1>2. difference \in Int
    BY <1>1
  <1>3. (b.length + difference) % WordSize = n
    <2>1. CASE b.length <= n
      <3>1. n - b.length \in 0 .. WordSize - 1 /\ n \in 0 .. WordSize - 1
        BY ONLY <1>1, <2>1
      <3>2. difference = n - b.length
        BY <1>1, <3>1, Remainders
      <3>3. b.length + difference = n
        BY ONLY <1>1, <3>2
      <3> QED
        BY ONLY <1>1, <3>1, <3>3, Remainders
    <2>2. CASE ~(b.length <= n)
      <3> DEFINE x == n - b.length + WordSize
      <3>1. x \in 0 .. WordSize - 1 /\ n \in 0 .. WordSize - 1 /\ x - WordSize = n - b.length
        BY ONLY <1>1, <2>2 DEF x
      <3>2. (x - WordSize) % WordSize = x
        <4> HIDE DEF x
        <4> QED
          BY ONLY <1>1, <3>1, Remainders
      <3>3. difference = x
        BY ONLY <3>1, <3>2 DEF difference
      <3>4. b.length + difference = n + WordSize
        BY ONLY <1>1, <3>3 DEF x
      <3>5. (n + WordSize) % WordSize = n
        BY ONLY <1>1, <3>1, Remainders
      <3> QED
        BY ONLY <3>4, <3>5
    <2> QED
      BY <2>1, <2>2
  <1> HIDE DEF difference
  <1>4. 2 * n < WordSize + 2
    BY <1>1
  <1>5. HasRoom(maybe_resize_string_buffer(b, difference), b, n)
    BY <1>1, <1>2, <1>3, <1>4, ResizeMakesRoom
  <1>6. gumbo_string_buffer_reserve(b, n) = maybe_resize_string_buffer(b, difference)
    BY DEF gumbo_string_buffer_reserve, difference
  <1> QED
    BY <1>5, <1>6, RoomIsNotSeen

\* How long the buffer is after what is written behind what was in use.
LEMMA LengthAfter ==
    ASSUME NEW b, Block(b), NEW n, NEW at, NEW t, NEW length
    PROVE  Used(Write(maybe_resize_string_buffer(b, n), at, t), length).length = length
  <1> DEFINE large == maybe_resize_string_buffer(b, n)
             written == Write(large, at, t)
  <1>1. DOMAIN large = {"cells", "length", "capacity", "overrun"}
    <2>1. DOMAIN b = {"cells", "length", "capacity", "overrun"}
      BY DEF Block
    <2>2. \A c : DOMAIN gumbo_realloc(b, c) = DOMAIN b
      BY DEF gumbo_realloc
    <2> QED
      BY <2>1, <2>2 DEF maybe_resize_string_buffer
  <1> HIDE DEF large
  <1>2. DOMAIN written = DOMAIN large
    BY DEF Write, Require
  <1> HIDE DEF written
  <1>3. "length" \in DOMAIN written
    BY <1>1, <1>2
  <1>4. Used(written, length).length = length
    BY <1>3 DEF Used
  <1> QED
    BY <1>4 DEF written, large

-----------------------------------------------------------------------------
(***************************************************************************)
(* Characters as UTF-8.                                                    *)
(***************************************************************************)

\* The digits, to the base 64, that the bytes of a character hold.
DigitOf(s, i) == IF i = 1 THEN s[1] - List!LeadOf[Len(s)] ELSE s[i] - 128

\* f is the fold that adds up the N digits D.
Sums(f, N, D) == f = [u \in SUBSET (1 .. N) |->
                         IF u = {} THEN 0 ELSE f[u \ {Max(u)}] * 64 + D[Max(u)]]

\* The number that digits are is got from left to right.
LEMMA SumOfDigits ==
    ASSUME NEW N \in Nat, NEW D \in [1 .. N -> Int], NEW g, g = CHOOSE f : Sums(f, N, D)
    PROVE  g[1 .. 0] = 0 /\ \A k \in 0 .. N - 1 : g[1 .. (k + 1)] = g[1 .. k] * 64 + D[k + 1]
  <1> DEFINE S == SUBSET (1 .. N)
             Step == [x \in (1 .. N) \X Int |-> x[2] * 64 + D[x[1]]]
  <1>1. Step \in [(1 .. N) \X Int -> Int] /\ 0 \in Int
    OBVIOUS
  <1> HIDE DEF Step
  <1>2. PICK f \in [S -> Int] : IsFold(f, N, 0, Step)
    BY <1>1, FoldExists
  <1>3. ASSUME NEW u \in S, u # {}
        PROVE  Step[<<Max(u), f[u \ {Max(u)}]>>] = f[u \ {Max(u)}] * 64 + D[Max(u)]
    <2>1. Max(u) \in u
      BY <1>3, MaxOfPositions
    <2>2. Max(u) \in 1 .. N /\ u \ {Max(u)} \in S
      BY <2>1
    <2>3. f[u \ {Max(u)}] \in Int
      BY <1>2, <2>2
    <2> DEFINE x == <<Max(u), f[u \ {Max(u)}]>>
    <2>4. x \in (1 .. N) \X Int /\ x[1] = Max(u) /\ x[2] = f[u \ {Max(u)}]
      BY <2>2, <2>3
    <2> HIDE DEF x
    <2>5. Step[x] = x[2] * 64 + D[x[1]]
      BY <2>4 DEF Step
    <2> QED
      BY <2>4, <2>5 DEF x
  <1>4. Sums(f, N, D)
    <2>1. f = [u \in S |-> IF u = {} THEN 0 ELSE Step[<<Max(u), f[u \ {Max(u)}]>>]]
      BY <1>2 DEF IsFold
    <2> QED
      BY <1>3, <2>1 DEF Sums
  <1>5. Sums(g, N, D)
    BY <1>4
  <1>6. \A u \in S : g[u] = IF u = {} THEN 0 ELSE g[u \ {Max(u)}] * 64 + D[Max(u)]
    BY <1>5 DEF Sums
  <1>7. g[1 .. 0] = 0
    <2>1. 1 .. 0 = {} /\ {} \in S
      OBVIOUS
    <2> QED
      BY <1>6, <2>1
  <1>8. ASSUME NEW k \in 0 .. N - 1
        PROVE  g[1 .. (k + 1)] = g[1 .. k] * 64 + D[k + 1]
    <2>1. k + 1 \in Nat \ {0} /\ (k + 1) - 1 = k /\ 1 .. (k + 1) \in S
      OBVIOUS
    <2>2. 1 .. (k + 1) # {} /\ Max(1 .. (k + 1)) = k + 1 /\ (1 .. (k + 1)) \ {k + 1} = 1 .. k
      BY ONLY <2>1, MaxOfPrefix
    <2> QED
      BY <1>6, <2>1, <2>2
  <1> QED
    BY <1>7, <1>8

\* What Encodes says of bytes, with the fold of its digits.
LEMMA EncodesBySum ==
    ASSUME NEW s, Len(s) \in 1 .. 4, NEW c,
           c >= List!LeastOf[Len(s)], \A i \in 2 .. Len(s) : s[i] \in 128 .. 191,
           NEW D, D = [i \in 1 .. Len(s) |-> DigitOf(s, i)],
           (CHOOSE f : Sums(f, Len(s), D))[1 .. Len(s)] = c
    PROVE  List!Encodes(s, c)
  <1> DEFINE N == Len(s)
             places == [i \in 1 .. N |-> i]
             Folded(f) == f = [u \in SUBSET DOMAIN places |->
                                 IF u = {} THEN 0
                                 ELSE f[u \ {List!Max(u)}] * 64 + DigitOf(s, places[List!Max(u)])]
  <1>1. List!Encodes(s, c) <=>
           /\ Len(s) \in 1 .. 4 /\ c >= List!LeastOf[Len(s)]
           /\ \A i \in 2 .. Len(s) : s[i] \in 128 .. 191
           /\ (CHOOSE f : Folded(f))[DOMAIN places] = c
    BY DEF List!Encodes, List!FoldLeft, List!MapThenFoldSet, DigitOf
  <1>2. DOMAIN places = 1 .. N /\ \A i \in 1 .. N : places[i] = i
    OBVIOUS
  <1>3. ASSUME NEW u \in SUBSET (1 .. N), u # {}
        PROVE  List!Max(u) = Max(u) /\ Max(u) \in 1 .. N
    <2>1. List!Max(u) = Max(u)
      BY DEF List!Max, Max
    <2>2. N \in Nat
      OBVIOUS
    <2>3. Max(u) \in u
      BY <1>3, <2>2, MaxOfPositions
    <2> QED
      BY <2>1, <2>3
  <1> HIDE DEF places, N
  <1>4. ASSUME NEW f
        PROVE  Folded(f) <=> Sums(f, N, D)
    <2>1. ASSUME NEW u \in SUBSET (1 .. N), u # {}
          PROVE  f[u \ {List!Max(u)}] * 64 + DigitOf(s, places[List!Max(u)])
                    = f[u \ {Max(u)}] * 64 + D[Max(u)]
      BY <1>2, <1>3, <2>1 DEF N
    <2>2. [u \in SUBSET (1 .. N) |->
              IF u = {} THEN 0 ELSE f[u \ {List!Max(u)}] * 64 + DigitOf(s, places[List!Max(u)])]
            = [u \in SUBSET (1 .. N) |-> IF u = {} THEN 0 ELSE f[u \ {Max(u)}] * 64 + D[Max(u)]]
      BY <2>1
    <2> QED
      BY <1>2, <2>2 DEF Sums
  <1> HIDE DEF Folded
  <1>5. (CHOOSE f : Folded(f)) = (CHOOSE f : Sums(f, N, D))
    BY <1>4
  <1> QED
    BY <1>1, <1>2, <1>5 DEF N

\* The bytes that gumbo_string_buffer_append_codepoint appends.
BytesOf(c) ==
    <<Prefix[num_bytes(c) + 1] + (c \div Shift[num_bytes(c) + 1])>>
       \o [k \in 1 .. num_bytes(c) |-> 128 + ((c \div Shift[num_bytes(c) - k + 1]) % 64)]

\* A shift by six bits more drops the last of the digits.
LEMMA ShiftDropsDigit ==
    ASSUME NEW c \in Nat
    PROVE  /\ c \div Shift[1] = c
           /\ \A k \in 1 .. 4 : c \div Shift[k] \in Nat /\ (c \div Shift[k]) % 64 \in 0 .. 63
           /\ \A k \in 1 .. 3 : (c \div Shift[k + 1]) * 64 + ((c \div Shift[k]) % 64) = c \div Shift[k]
  <1>1. c \div 1 = c
    BY SMT
  <1>2. (c \div 64) * 64 + (c % 64) = c
    BY SMT
  <1>3. (c \div 4096) * 64 + ((c \div 64) % 64) = c \div 64
    BY SMT
  <1>4. (c \div 262144) * 64 + ((c \div 4096) % 64) = c \div 4096
    BY SMT
  <1>5. \A d \in {1, 64, 4096, 262144} : c \div d \in Nat /\ (c \div d) % 64 \in 0 .. 63
    BY SMT
  <1>6. Shift[1] = 1 /\ Shift[2] = 64 /\ Shift[3] = 4096 /\ Shift[4] = 262144
    BY SMT DEF Shift
  <1>7. \A k \in 1 .. 4 : Shift[k] \in {1, 64, 4096, 262144}
    BY SMT, <1>6
  <1>8. \A k \in 1 .. 4 : c \div Shift[k] \in Nat /\ (c \div Shift[k]) % 64 \in 0 .. 63
    BY SMT, <1>5, <1>7
  <1>9. ASSUME NEW k \in 1 .. 3
        PROVE  (c \div Shift[k + 1]) * 64 + ((c \div Shift[k]) % 64) = c \div Shift[k]
    <2>1. CASE k = 1
      BY SMT, <1>1, <1>2, <1>6, <2>1
    <2>2. CASE k = 2
      BY SMT, <1>3, <1>6, <2>2
    <2>3. CASE k = 3
      BY SMT, <1>4, <1>6, <2>3
    <2> QED
      BY SMT, <2>1, <2>2, <2>3
  <1> QED
    BY SMT, <1>1, <1>6, <1>8, <1>9

\* Fewer bytes would not do.
LEMMA NumBytesNeeded ==
    ASSUME NEW c \in Nat
    PROVE  num_bytes(c) \in 0 .. 3 /\ c >= List!LeastOf[num_bytes(c) + 1]
  BY SMT DEF num_bytes, List!LeastOf

LEMMA BytesAre ==
    ASSUME NEW c \in Nat, NEW n, n = num_bytes(c)
    PROVE  /\ n \in 0 .. 3 /\ BytesOf(c) \in Seq(Nat) /\ Len(BytesOf(c)) = n + 1
           /\ BytesOf(c)[1] = Prefix[n + 1] + (c \div Shift[n + 1])
           /\ \A i \in 2 .. n + 1 : BytesOf(c)[i] = 128 + ((c \div Shift[n - i + 2]) % 64)
  <1> DEFINE lead == Prefix[n + 1] + (c \div Shift[n + 1])
             first == <<lead>>
             rest == [k \in 1 .. n |-> 128 + ((c \div Shift[n - k + 1]) % 64)]
  <1>1. n \in 0 .. 3
    BY NumBytesNeeded
  <1>2. \A i \in 1 .. 4 : Prefix[i] \in Nat
    BY DEF Prefix
  <1>3. \A k \in 1 .. 4 : c \div Shift[k] \in Nat /\ (c \div Shift[k]) % 64 \in 0 .. 63
    BY ShiftDropsDigit
  <1>4. lead \in Nat
    <2>1. n + 1 \in 1 .. 4
      BY <1>1
    <2> QED
      BY <1>2, <1>3, <2>1
  <1>5. \A k \in 1 .. n : 128 + ((c \div Shift[n - k + 1]) % 64) \in Nat
    <2> TAKE k \in 1 .. n
    <2>1. n - k + 1 \in 1 .. 4
      BY <1>1
    <2> QED
      BY <1>2, <1>3, <2>1
  <1>6. first \in Seq(Nat) /\ Len(first) = 1 /\ first[1] = lead
    BY <1>4
  <1>7. rest \in Seq(Nat) /\ Len(rest) = n
    <2>1. rest \in [1 .. n -> Nat] /\ n \in Nat
      BY <1>1, <1>5
    <2> HIDE DEF rest
    <2> QED
      BY <2>1
  <1>8. BytesOf(c) = first \o rest
    BY DEF BytesOf
  <1>9. \A i \in 1 .. n : rest[i] = 128 + ((c \div Shift[n - i + 1]) % 64)
    OBVIOUS
  <1> HIDE DEF first, rest, lead
  <1>10. /\ first \o rest \in Seq(Nat) /\ Len(first \o rest) = 1 + n
         /\ \A i \in 1 .. (1 + n) :
               (first \o rest)[i] = IF i <= 1 THEN first[i] ELSE rest[i - 1]
    <2>1. /\ first \o rest \in Seq(Nat) /\ Len(first \o rest) = Len(first) + Len(rest)
          /\ \A i \in 1 .. (Len(first) + Len(rest)) :
                (first \o rest)[i] = IF i <= Len(first) THEN first[i] ELSE rest[i - Len(first)]
      BY ONLY <1>6, <1>7, ConcatProperties
    <2> QED
      BY ONLY <1>6, <1>7, <2>1
  <1>11. ASSUME NEW i \in 2 .. n + 1
         PROVE  BytesOf(c)[i] = 128 + ((c \div Shift[n - i + 2]) % 64)
    <2>1. i - 1 \in 1 .. n /\ n - (i - 1) + 1 = n - i + 2 /\ i \in 1 .. (1 + n) /\ ~(i <= 1)
      BY <1>1
    <2>2. BytesOf(c)[i] = rest[i - 1]
      BY <1>8, <1>10, <2>1
    <2> QED
      BY <1>9, <2>1, <2>2
  <1>12. 1 \in 1 .. (1 + n) /\ 1 + n = n + 1 /\ 1 <= 1
    BY <1>1
  <1>13. BytesOf(c) \in Seq(Nat) /\ Len(BytesOf(c)) = n + 1 /\ BytesOf(c)[1] = lead
    <2>1. (first \o rest)[1] = first[1]
      BY <1>10, <1>12
    <2> QED
      BY ONLY <1>6, <1>8, <1>10, <1>12, <2>1
  <1> QED
    BY <1>1, <1>11, <1>13 DEF lead

\* They are the character, and no fewer bytes would do.
LEMMA BytesEncode ==
    ASSUME NEW c \in Nat
    PROVE  List!Encodes(BytesOf(c), c)
  <1> DEFINE n == num_bytes(c)
             s == BytesOf(c)
             D == [i \in 1 .. n + 1 |-> DigitOf(s, i)]
             g == CHOOSE f : Sums(f, n + 1, D)
  <1>1. /\ n \in 0 .. 3 /\ s \in Seq(Nat) /\ Len(s) = n + 1
        /\ s[1] = Prefix[n + 1] + (c \div Shift[n + 1])
        /\ \A i \in 2 .. n + 1 : s[i] = 128 + ((c \div Shift[n - i + 2]) % 64)
    BY BytesAre
  <1>2. \A k \in 1 .. 4 : Prefix[k] = List!LeadOf[k] /\ Prefix[k] \in Nat
    BY DEF Prefix, List!LeadOf
  <1>3. c >= List!LeastOf[n + 1]
    BY NumBytesNeeded
  <1>4. /\ c \div Shift[1] = c
        /\ \A k \in 1 .. 4 : c \div Shift[k] \in Nat /\ (c \div Shift[k]) % 64 \in 0 .. 63
        /\ \A k \in 1 .. 3 : (c \div Shift[k + 1]) * 64 + ((c \div Shift[k]) % 64) = c \div Shift[k]
    BY ShiftDropsDigit
  <1> HIDE DEF n, s
  <1>5. D \in [1 .. n + 1 -> Int]
    <2>1. s[1] \in Int /\ \A i \in 1 .. n + 1 : s[i] \in Int
      BY <1>1
    <2>2. List!LeadOf[Len(s)] \in Int
      <3>1. n + 1 \in 1 .. 4
        BY <1>1
      <3>2. Prefix[n + 1] = List!LeadOf[n + 1] /\ Prefix[n + 1] \in Nat
        BY <1>2, <3>1
      <3> QED
        BY <1>1, <3>2
    <2> QED
      BY <2>1, <2>2 DEF DigitOf
  <1>6. g[1 .. 0] = 0 /\ \A k \in 0 .. n : g[1 .. (k + 1)] = g[1 .. k] * 64 + D[k + 1]
    <2>1. n + 1 \in Nat /\ (n + 1) - 1 = n
      BY <1>1
    <2> HIDE DEF D
    <2> QED
      BY <1>5, <2>1, SumOfDigits
  <1>7. /\ D[1] = c \div Shift[n + 1]
        /\ \A i \in 2 .. n + 1 : D[i] = (c \div Shift[n - i + 2]) % 64
    <2>1. D[1] = s[1] - List!LeadOf[n + 1]
      BY <1>1 DEF DigitOf
    <2>2. n + 1 \in 1 .. 4
      BY <1>1
    <2>3. Prefix[n + 1] = List!LeadOf[n + 1] /\ Prefix[n + 1] \in Nat
      BY <1>2, <2>2
    <2>4. c \div Shift[n + 1] \in Nat
      BY <1>4, <2>2
    <2>5. s[1] = Prefix[n + 1] + (c \div Shift[n + 1])
      BY <1>1
    <2>6. D[1] = c \div Shift[n + 1]
      BY ONLY <2>1, <2>3, <2>4, <2>5
    <2>7. ASSUME NEW i \in 2 .. n + 1
          PROVE  D[i] = (c \div Shift[n - i + 2]) % 64
      <3>1. D[i] = s[i] - 128 /\ s[i] = 128 + ((c \div Shift[n - i + 2]) % 64)
        BY <1>1 DEF DigitOf
      <3>2. n - i + 2 \in 1 .. 4
        BY <1>1
      <3>3. (c \div Shift[n - i + 2]) % 64 \in 0 .. 63
        BY <1>4, <3>2
      <3> DEFINE r == (c \div Shift[n - i + 2]) % 64
      <3>4. r \in 0 .. 63 /\ s[i] = 128 + r /\ D[i] = s[i] - 128
        BY ONLY <3>1, <3>3 DEF r
      <3> HIDE DEF r
      <3>5. D[i] = r
        BY ONLY <3>4
      <3> QED
        BY <3>5 DEF r
    <2> QED
      BY <2>6, <2>7
  <1> HIDE DEF D, g
  <1>8. g[1 .. (n + 1)] = c
    <2> DEFINE q(k) == c \div Shift[k]
               r(k) == q(k) % 64
    <2>1. /\ q(1) = c /\ q(1) \in Nat /\ q(2) \in Nat /\ q(3) \in Nat /\ q(4) \in Nat
          /\ q(2) * 64 + r(1) = c /\ q(3) * 64 + r(2) = q(2) /\ q(4) * 64 + r(3) = q(3)
      BY <1>4
    <2>2. D[1] = q(n + 1) /\ \A i \in 2 .. n + 1 : D[i] = r(n - i + 2)
      BY <1>7
    <2> HIDE DEF q, r
    <2>5. g[1 .. 1] = D[1]
      <3>1. 0 \in 0 .. n /\ 0 + 1 = 1 /\ 1 \in 1 .. n + 1
        BY <1>1
      <3>2. g[1 .. (0 + 1)] = g[1 .. 0] * 64 + D[0 + 1]
        BY ONLY <1>6, <3>1
      <3>3. D[1] \in Int
        BY <1>5, <3>1
      <3> QED
        BY ONLY <1>6, <3>1, <3>2, <3>3
    <2>6. CASE n = 0
      BY <2>1, <2>2, <2>5, <2>6
    <2>7. CASE n = 1
      <3>1. g[1 .. (1 + 1)] = g[1 .. 1] * 64 + D[1 + 1]
        BY <1>6, <2>7
      <3>2. D[1] = q(2) /\ D[2] = r(1)
        BY <2>2, <2>7
      <3> QED
        BY <2>1, <2>5, <2>7, <3>1, <3>2
    <2>8. CASE n = 2
      <3>1. /\ g[1 .. (1 + 1)] = g[1 .. 1] * 64 + D[1 + 1]
            /\ g[1 .. (2 + 1)] = g[1 .. 2] * 64 + D[2 + 1]
        BY <1>6, <2>8
      <3>2. D[1] = q(3) /\ D[2] = r(2) /\ D[3] = r(1)
        BY <2>2, <2>8
      <3>3. g[1 .. 2] = q(2)
        BY <2>1, <2>5, <3>1, <3>2
      <3> QED
        BY <2>1, <2>8, <3>1, <3>2, <3>3
    <2>9. CASE n = 3
      <3>1. /\ g[1 .. (1 + 1)] = g[1 .. 1] * 64 + D[1 + 1]
            /\ g[1 .. (2 + 1)] = g[1 .. 2] * 64 + D[2 + 1]
            /\ g[1 .. (3 + 1)] = g[1 .. 3] * 64 + D[3 + 1]
        BY <1>6, <2>9
      <3>2. D[1] = q(4) /\ D[2] = r(3) /\ D[3] = r(2) /\ D[4] = r(1)
        BY <2>2, <2>9
      <3>3. g[1 .. 2] = q(3)
        BY <2>1, <2>5, <3>1, <3>2
      <3>4. g[1 .. 3] = q(2)
        BY <2>1, <3>1, <3>2, <3>3
      <3> QED
        BY <2>1, <2>9, <3>1, <3>2, <3>4
    <2>10. n = 0 \/ n = 1 \/ n = 2 \/ n = 3
      BY <1>1
    <2> QED
      BY <2>6, <2>7, <2>8, <2>9, <2>10
  <1>9. Len(s) \in 1 .. 4 /\ c >= List!LeastOf[Len(s)]
    BY <1>1, <1>3
  <1>10. ASSUME NEW i \in 2 .. Len(s) PROVE s[i] \in 128 .. 191
    <2>1. i \in 2 .. n + 1 /\ n - i + 2 \in 1 .. 4
      BY <1>1
    <2>2. s[i] = 128 + ((c \div Shift[n - i + 2]) % 64)
      BY <1>1, <2>1
    <2>3. (c \div Shift[n - i + 2]) % 64 \in 0 .. 63
      BY <1>4, <2>1
    <2> DEFINE r == (c \div Shift[n - i + 2]) % 64
    <2>4. r \in 0 .. 63 /\ s[i] = 128 + r
      BY ONLY <2>2, <2>3 DEF r
    <2> HIDE DEF r
    <2> QED
      BY ONLY <2>4
  <1>11. D = [i \in 1 .. Len(s) |-> DigitOf(s, i)]
    BY <1>1 DEF D
  <1>12. (CHOOSE f : Sums(f, Len(s), D))[1 .. Len(s)] = c
    BY <1>1, <1>8 DEF g
  <1>13. List!Encodes(s, c)
    BY <1>9, <1>10, <1>11, <1>12, EncodesBySum
  <1> QED
    BY <1>13 DEF s

\* What was appended is what is behind the items that were there.
LEMMA AppendedIsBehind ==
    ASSUME NEW S, NEW u \in Seq(S), NEW s \in Seq(S)
    PROVE  SubSeq(u \o s, Len(u) + 1, Len(u \o s)) = s
  <1> DEFINE both == u \o s
             back == SubSeq(both, Len(u) + 1, Len(both))
  <1>1. /\ both \in Seq(S) /\ Len(both) = Len(u) + Len(s)
        /\ \A i \in 1 .. (Len(u) + Len(s)) : both[i] = IF i <= Len(u) THEN u[i] ELSE s[i - Len(u)]
    BY ConcatProperties
  <1>2. Len(u) \in Nat /\ Len(s) \in Nat
    OBVIOUS
  <1> HIDE DEF both
  <1>3. /\ back \in Seq(S) /\ Len(back) = Len(s)
        /\ \A i \in 1 .. Len(s) : back[i] = both[Len(u) + i]
    <2>1. Len(u) + 1 \in 1 .. Len(both) + 1 /\ Len(both) \in Len(u) .. Len(both)
      BY <1>1, <1>2
    <2>2. /\ back \in Seq(S)
          /\ Len(back) = IF Len(u) + 1 <= Len(both) THEN Len(both) - (Len(u) + 1) + 1 ELSE 0
          /\ \A i \in 1 .. Len(both) - (Len(u) + 1) + 1 : back[i] = both[(Len(u) + 1) + i - 1]
      BY <1>1, <1>2, <2>1, SubSeqProperties
    <2>3. Len(both) - (Len(u) + 1) + 1 = Len(s)
      BY <1>1, <1>2
    <2>4. \A i \in 1 .. Len(s) : (Len(u) + 1) + i - 1 = Len(u) + i
      BY <1>2
    <2> HIDE DEF back
    <2>5. \A i \in 1 .. Len(s) : back[i] = both[Len(u) + i]
      BY <2>2, <2>3, <2>4
    <2>6. Len(both) = Len(u) + Len(s)
      BY <1>1
    <2>7. Len(back) = IF Len(u) + 1 <= Len(both) THEN Len(both) - (Len(u) + 1) + 1 ELSE 0
      BY <2>2
    <2>8. Len(back) = Len(s)
      BY ONLY <1>2, <2>6, <2>7
    <2> QED
      BY <2>2, <2>5, <2>8
  <1> HIDE DEF back
  <1>4. ASSUME NEW i \in 1 .. Len(s) PROVE back[i] = s[i]
    <2>1. Len(u) + i \in 1 .. (Len(u) + Len(s)) /\ ~(Len(u) + i <= Len(u)) /\ (Len(u) + i) - Len(u) = i
      BY <1>2
    <2> QED
      BY <1>1, <1>3, <2>1
  <1>5. back = s
    BY <1>3, <1>4, SeqEqual
  <1> QED
    BY <1>5 DEF back, both

-----------------------------------------------------------------------------
(***************************************************************************)
(* The steps.                                                              *)
(***************************************************************************)
TheItems == IF array.overrun THEN <<Junk>> ELSE Items(array)
HasMemory == inUse \/ array.cells # Cells(0)

\* A call whose array is as it should be is a change of the list.
LEMMA CallChanges ==
    ASSUME IInv, NEW a, NEW value, Block(a), Filled(a), Call(a, value),
           kind = "buffer" => a.capacity # 0
    PROVE  IInv' /\ TheItems = Items(array) /\ List!Changed(Items(a), value)
  <1>1. /\ inUse /\ array' = a /\ result' = value /\ kind' = kind /\ inUse' = inUse
    BY DEF Call
  <1>2. array.overrun = FALSE /\ a.overrun = FALSE
    BY DEF IInv, Block
  <1>3. TheItems = Items(array) /\ TheItems' = Items(a)
    BY <1>1, <1>2 DEF TheItems
  <1>4. HasMemory /\ HasMemory' = HasMemory
    BY <1>1 DEF HasMemory
  <1>5. IInv'
    BY <1>1 DEF IInv, Call
  <1>6. List!Changed(Items(a), value)
    BY <1>1, <1>3, <1>4 DEF List!Changed, TheItems, HasMemory
  <1> QED
    BY <1>3, <1>5, <1>6

LEMMA InitRefines ==
    ASSUME Init
    PROVE  IInv /\ List!Init
  <1>1. array = New(0) /\ inUse = FALSE /\ result = <<>> /\ kind \in {"vector", "buffer"}
    BY DEF Init, None
  <1>2. /\ Block(array) /\ Filled(array) /\ Items(array) = <<>>
        /\ array.length = 0 /\ array.capacity = 0 /\ array.cells = Cells(0)
    BY <1>1, NewIsEmpty
  <1>3. IInv
    <2>1. 0 <= MaxLength
      BY SizesAssumption
    <2> QED
      BY <1>1, <1>2, <2>1 DEF IInv
  <1>4. array.overrun = FALSE
    BY <1>2 DEF Block
  <1>5. List!Init
    BY <1>1, <1>2, <1>4 DEF List!Init, List!None
  <1> QED
    BY <1>3, <1>5

\* gumbo_vector_init and gumbo_string_buffer_init.
LEMMA InitArrayRefines ==
    ASSUME IInv, InitArray
    PROVE  IInv' /\ List!Create
  <1>1. PICK n \in Nat : array' = New(n) /\ (kind = "buffer" => n # 0)
    <2>1. CASE kind = "vector"
      BY <2>1, SizesAssumption DEF InitArray
    <2>2. CASE kind # "vector"
      BY <2>2 DEF InitArray, kDefaultStringBufferSize
    <2> QED
      BY <2>1, <2>2
  <1>2. ~inUse /\ inUse' = TRUE /\ result' = <<>> /\ kind' = kind
    BY DEF InitArray, None
  <1>4. /\ Block(array') /\ Filled(array') /\ Items(array') = <<>>
        /\ array'.length = 0 /\ array'.capacity = n
    BY <1>1, NewIsEmpty
  <1>5. array.cells = Cells(0)
    BY <1>2, NoCells DEF IInv
  <1>6. array'.overrun = FALSE
    BY <1>4 DEF Block
  <1>7. ~HasMemory /\ HasMemory' = TRUE /\ TheItems' = <<>>
    BY <1>2, <1>4, <1>5, <1>6 DEF HasMemory, TheItems
  <1>8. List!Create
    BY <1>2, <1>7 DEF List!Create, List!None, HasMemory, TheItems
  <1>9. IInv'
    <2>1. 0 <= MaxLength
      BY SizesAssumption
    <2>2. kind' = "buffer" => array'.capacity # 0
      BY <1>1, <1>2, <1>4
    <2> QED
      BY <1>2, <1>4, <2>1, <2>2 DEF IInv
  <1> QED
    BY <1>8, <1>9

\* gumbo_vector_destroy and gumbo_string_buffer_destroy.
LEMMA DestroyArrayRefines ==
    ASSUME IInv, DestroyArray
    PROVE  IInv' /\ List!Release
  <1>1. /\ inUse /\ inUse' = FALSE /\ result' = <<>> /\ kind' = kind
        /\ array' = IF kind = "vector" /\ array.capacity = 0 THEN array ELSE New(0)
    BY DEF DestroyArray, None
  <1>2. /\ Block(array') /\ Filled(array') /\ Items(array') = <<>>
        /\ array'.length = 0 /\ array'.capacity = 0 /\ array'.cells = Cells(0)
    <2>1. CASE kind = "vector" /\ array.capacity = 0
      <3>1. array' = array /\ Block(array) /\ Filled(array)
        BY <1>1, <2>1 DEF IInv
      <3>2. array.cells = Cells(0) /\ Items(array) = <<>>
        BY <2>1, <3>1, NoCells
      <3>3. array.length = 0
        BY <2>1, <3>1 DEF Block
      <3> QED
        BY <2>1, <3>1, <3>2, <3>3
    <2>2. CASE ~(kind = "vector" /\ array.capacity = 0)
      BY <1>1, <2>2, NewIsEmpty
    <2> QED
      BY <2>1, <2>2
  <1>3. array'.overrun = FALSE
    BY <1>2 DEF Block
  <1>4. HasMemory /\ HasMemory' = FALSE /\ TheItems' = <<>>
    BY <1>1, <1>2, <1>3 DEF HasMemory, TheItems
  <1>5. List!Release
    BY <1>1, <1>4 DEF List!Release, List!None, HasMemory, TheItems
  <1>6. IInv'
    <2>1. 0 <= MaxLength
      BY SizesAssumption
    <2> QED
      BY <1>1, <1>2, <2>1 DEF IInv
  <1> QED
    BY <1>5, <1>6

\* Each call is the operation of the list that has its name.
LEMMA VectorCallRefines ==
    ASSUME IInv, VectorCall
    PROVE  IInv' /\ List!Next
  <1>1. Block(array) /\ Filled(array) /\ kind # "buffer"
    BY DEF IInv, VectorCall
  <1>2. array.overrun = FALSE /\ array.length \in Nat
    BY <1>1 DEF Block
  <1>3. TheItems = Items(array)
    BY <1>2 DEF TheItems
  <1>4. /\ Items(array) \in Seq(Values) /\ Len(Items(array)) = array.length
        /\ \A i \in 1 .. array.length : Items(array)[i] = array.cells[i - 1]
    BY <1>1, ItemsAreValues
  <1> USE <1>1
  <1>0. Elements \subseteq Values
    BY DEF Values
  <1>5. ASSUME NEW x \in Elements, Call(gumbo_vector_add(array, x), None)
        PROVE  IInv' /\ List!Next
    <2>1. array.length <= MaxLength
      BY DEF IInv
    <2>2. IInv' /\ List!Changed(Append(Items(array), x), None)
      BY <1>0, <1>5, <2>1, AddAppends, CallChanges
    <2>3. List!Add(x)
      BY <1>3, <2>2 DEF List!Add, List!None, None, TheItems
    <2> QED
      BY <2>2, <2>3 DEF List!Next
  <1>6. ASSUME Call(gumbo_vector_pop(array),
                    IF array.length = 0 THEN None ELSE <<array.cells[array.length - 1]>>)
        PROVE  IInv' /\ List!Next
    <2>1. CASE array.length = 0
      <3>1. gumbo_vector_pop(array) = array
        BY <2>1 DEF gumbo_vector_pop
      <3>2. Items(array) = <<>>
        BY <1>4, <2>1
      <3>3. IInv' /\ List!Changed(Items(array), None)
        BY <1>1, <1>6, <2>1, <3>1, CallChanges
      <3>4. List!Pop
        BY <1>3, <3>2, <3>3 DEF List!Pop, List!None, None, TheItems
      <3> QED
        BY <3>3, <3>4 DEF List!Next
    <2>2. CASE array.length # 0
      <3>1. Items(array) # <<>>
        BY <1>4, <2>2
      <3>2. /\ Block(gumbo_vector_pop(array)) /\ Filled(gumbo_vector_pop(array))
            /\ Items(gumbo_vector_pop(array)) = List!Front(Items(array))
            /\ array.cells[array.length - 1] = List!Last(Items(array))
        BY <1>1, <2>2, PopTakesLast
      <3>3. IInv' /\ List!Changed(List!Front(Items(array)), <<List!Last(Items(array))>>)
        BY <1>6, <2>2, <3>2, CallChanges
      <3>4. List!Pop
        BY <1>3, <3>1, <3>3 DEF List!Pop, TheItems
      <3> QED
        BY <3>3, <3>4 DEF List!Next
    <2> QED
      BY <2>1, <2>2
  <1>7. ASSUME NEW x \in Elements, Call(array, <<gumbo_vector_index_of(array, x)>>)
        PROVE  IInv' /\ List!Next
    <2>1. IInv' /\ List!Changed(Items(array), <<gumbo_vector_index_of(array, x)>>)
      BY <1>1, <1>7, CallChanges
    <2>2. List!Positions(x) = PlacesOf(Items(array), x)
      BY <1>3 DEF List!Positions, PlacesOf, TheItems
    <2>3. List!IndexOf(x)
      <3>1. CASE PlacesOf(Items(array), x) = {} /\ gumbo_vector_index_of(array, x) = -1
        BY <1>3, <2>1, <2>2, <3>1 DEF List!IndexOf, TheItems
      <3>2. CASE /\ gumbo_vector_index_of(array, x) \in PlacesOf(Items(array), x)
                 /\ \A j \in PlacesOf(Items(array), x) : gumbo_vector_index_of(array, x) <= j
        BY <1>3, <2>1, <2>2, <3>2 DEF List!IndexOf, TheItems
      <3> QED
        BY <1>1, <3>1, <3>2, IndexOfFindsFirst
    <2> QED
      BY <2>1, <2>3 DEF List!Next
  <1>8. ASSUME NEW x \in Elements, NEW i \in 0 .. array.length,
               Call(gumbo_vector_insert_at(array, x, i), None)
        PROVE  IInv' /\ List!Next
    <2>1. array.length <= MaxLength
      BY DEF IInv
    <2>2. IInv' /\ List!Changed(List!InsertAt(Items(array), i + 1, x), None)
      BY <1>0, <1>8, <2>1, InsertAtInserts, CallChanges
    <2>3. List!Insert(x, i)
      BY <1>3, <2>2 DEF List!Insert, List!None, None, TheItems
    <2>4. i \in 0 .. Len(TheItems)
      BY <1>3, <1>4
    <2> QED
      BY <2>2, <2>3, <2>4 DEF List!Next, TheItems
  <1>9. ASSUME NEW x \in Elements, Call(gumbo_vector_remove(array, x), None)
        PROVE  IInv' /\ List!Next
    <2>1. IInv' /\ List!Changed(List!RemoveFirst(Items(array), x), None)
      BY <1>1, <1>9, RemoveForgets, CallChanges
    <2>2. List!Forget(x)
      BY <1>3, <2>1 DEF List!Forget, List!None, None, TheItems
    <2> QED
      BY <2>1, <2>2 DEF List!Next
  <1>10. ASSUME NEW i \in 0 .. array.length - 1,
                Call(gumbo_vector_remove_at(array, i), <<array.cells[i]>>)
         PROVE  IInv' /\ List!Next
    <2>1. IInv' /\ List!Changed(List!RemoveAt(Items(array), i + 1), <<Items(array)[i + 1]>>)
      BY <1>1, <1>10, RemoveAtRemoves, CallChanges
    <2>2. List!TakeOut(i)
      BY <1>3, <2>1 DEF List!TakeOut, TheItems
    <2>3. i \in 0 .. (Len(TheItems) - 1)
      BY <1>3, <1>4
    <2> QED
      BY <2>1, <2>2, <2>3 DEF List!Next, TheItems
  <1> QED
    BY <1>5, <1>6, <1>7, <1>8, <1>9, <1>10 DEF VectorCall

\* The calls of a buffer, too.
LEMMA BufferCallRefines ==
    ASSUME IInv, BufferCall
    PROVE  IInv' /\ List!Next
  <1>1. /\ kind = "buffer" /\ Block(array) /\ Filled(array) /\ array.length <= MaxLength
    BY DEF IInv, BufferCall
  <1>2. array.overrun = FALSE /\ array.length \in Nat
    BY <1>1 DEF Block
  <1>3. TheItems = Items(array)
    BY <1>2 DEF TheItems
  <1>4. Items(array) \in Seq(Values) /\ Len(Items(array)) = array.length
    BY <1>1, ItemsAreValues
  <1>5. ASSUME inUse PROVE array.capacity # 0
    BY <1>1, <1>5 DEF IInv
  <1>6. ASSUME NEW a, Call(a, None), Block(a), Filled(a), a.capacity # 0, Items(a) = Items(array)
        PROVE  IInv' /\ List!Next
    <2>1. IInv' /\ List!Changed(Items(array), None)
      BY <1>6, CallChanges
    <2>2. List!MakeRoom
      BY <1>3, <2>1 DEF List!MakeRoom, List!None, None, TheItems
    <2> QED
      BY <2>1, <2>2 DEF List!Next
  <1>7. ASSUME NEW s \in Seq(Nat), NEW a, Call(a, None), Appended(a, array, s)
        PROVE  IInv' /\ List!Changed(TheItems \o s, None)
    BY <1>3, <1>7, CallChanges DEF Appended
  <1>8. ASSUME NEW n \in Reserved, Call(gumbo_string_buffer_reserve(array, n), None)
        PROVE  IInv' /\ List!Next
    <2>1. inUse
      BY <1>8 DEF Call
    <2> QED
      BY <1>1, <1>5, <1>6, <1>8, <2>1, ReserveIsNotSeen
  <1>9. ASSUME Call(gumbo_string_buffer_null_terminate(array), None)
        PROVE  IInv' /\ List!Next
    <2>1. inUse
      BY <1>9 DEF Call
    <2> QED
      BY <1>1, <1>5, <1>6, <1>9, <2>1, NullIsNotSeen
  <1>10. ASSUME NEW s \in Seq(Nat), Call(AppendBytes(array, s), None)
         PROVE  IInv' /\ List!Changed(TheItems \o s, None)
    <2>1. inUse /\ AppendBytes(array, s).length <= MaxLength
      BY <1>10 DEF Call
    <2>2. AppendBytes(array, s).length = array.length + Len(s)
      BY <1>1, LengthAfter DEF AppendBytes
    <2>3. Appended(AppendBytes(array, s), array, s)
      BY <1>1, <1>5, <2>1, <2>2, AppendBytesAppends
    <2> QED
      BY <1>7, <1>10, <2>3
  <1>11. ASSUME NEW c \in Codepoints, Call(gumbo_string_buffer_append_codepoint(array, c), None)
         PROVE  IInv' /\ List!Next
    <2> DEFINE s == BytesOf(c)
    <2>1. gumbo_string_buffer_append_codepoint(array, c) = AppendBytes(array, s)
      BY DEF gumbo_string_buffer_append_codepoint, BytesOf
    <2>2. c \in Nat
      BY <1>11, CharactersAreNumbers
    <2>3. s \in Seq(Nat)
      BY <2>2, BytesAre
    <2>4. List!Encodes(s, c)
      BY <2>2, BytesEncode
    <2> HIDE DEF s
    <2>5. IInv' /\ List!Changed(TheItems \o s, None)
      BY <1>10, <1>11, <2>1, <2>3
    <2>6. TheItems' = TheItems \o s
      BY <2>5 DEF List!Changed, TheItems
    <2>7. TheItems \in Seq(Values) /\ s \in Seq(Values)
      BY <1>3, <1>4, <2>3, NumbersAreValues
    <2>8. SubSeq(TheItems', Len(TheItems) + 1, Len(TheItems')) = s
      BY <2>6, <2>7, AppendedIsBehind
    <2>9. List!AppendCodepoint(c)
      BY <2>4, <2>5, <2>8 DEF List!AppendCodepoint, List!None, None, TheItems
    <2> QED
      BY <2>5, <2>9 DEF List!Next
  <1>12. ASSUME NEW s \in Strings, Call(AppendBytes(array, s), None)
         PROVE  IInv' /\ List!Next
    <2>1. s \in Seq(Nat)
      BY <1>12, BytesAreNumbers
    <2>2. IInv' /\ List!Changed(TheItems \o s, None)
      BY <1>10, <1>12, <2>1
    <2>3. List!AppendString(s)
      BY <2>2 DEF List!AppendString, List!None, None, TheItems
    <2> QED
      BY <2>2, <2>3 DEF List!Next
  <1>13. ASSUME NEW s \in Strings, Call(gumbo_string_buffer_vsprintf(array, s), None)
         PROVE  IInv' /\ List!Next
    <2> DEFINE a == gumbo_string_buffer_vsprintf(array, s)
    <2>1. s \in Seq(Nat) /\ Len(s) \in Nat
      BY <1>13, BytesAreNumbers
    <2>2. inUse /\ a.length <= MaxLength
      BY <1>13 DEF Call
    <2>3. array.length + Len(s) <= MaxLength
      <3>1. CASE s = <<>>
        <4>1. Len(s) = 0
          BY <3>1
        <4> QED
          BY <1>1, <1>2, <4>1
      <3>2. CASE s # <<>>
        <4>1. a.length = array.length + Len(s)
          BY <1>1, <3>2, LengthAfter DEF gumbo_string_buffer_vsprintf
        <4> QED
          BY <2>2, <4>1
      <3> QED
        BY <3>1, <3>2
    <2>4. Appended(a, array, s)
      BY <1>1, <1>5, <2>1, <2>2, <2>3, VsprintfAppends
    <2>5. IInv' /\ List!Changed(TheItems \o s, None)
      BY <1>7, <1>13, <2>1, <2>4
    <2>6. List!AppendString(s)
      BY <2>5 DEF List!AppendString, List!None, None, TheItems
    <2> QED
      BY <2>5, <2>6 DEF List!Next
  <1>14. ASSUME Call(array, Items(array))
         PROVE  IInv' /\ List!Next
    <2>1. array.capacity # 0
      BY <1>5, <1>14 DEF Call
    <2>2. IInv' /\ List!Changed(Items(array), Items(array))
      BY <1>1, <1>14, <2>1, CallChanges
    <2>3. List!Copy
      BY <1>3, <2>2 DEF List!Copy, TheItems
    <2> QED
      BY <2>2, <2>3 DEF List!Next
  <1>15. ASSUME Call(Used(array, 0), None)
         PROVE  IInv' /\ List!Next
    <2>1. array.capacity # 0
      BY <1>5, <1>15 DEF Call
    <2>2. 0 \in 0 .. array.capacity
      BY <1>1 DEF Block
    <2>3. /\ Block(Used(array, 0)) /\ Used(array, 0).length = 0
          /\ Used(array, 0).capacity = array.capacity
      BY <1>1, <2>2, UsedKeeps
    <2>4. Filled(Used(array, 0)) /\ Items(Used(array, 0)) = <<>>
      BY <2>3 DEF Filled, Items
    <2>5. IInv' /\ List!Changed(<<>>, None)
      BY <1>15, <2>1, <2>3, <2>4, CallChanges
    <2>6. List!Clear
      BY <2>5 DEF List!Clear, List!None, None
    <2> QED
      BY <2>5, <2>6 DEF List!Next
  <1> QED
    BY <1>8, <1>9, <1>11, <1>12, <1>13, <1>14, <1>15 DEF BufferCall

\* Every step is one of the list, or leaves it alone.
LEMMA NextRefines ==
    ASSUME IInv, [Next]_vars
    PROVE  IInv' /\ [List!Next]_(List!listVars)
  <1>1. CASE InitArray
    BY <1>1, InitArrayRefines DEF List!Next
  <1>2. CASE DestroyArray
    BY <1>2, DestroyArrayRefines DEF List!Next
  <1>3. CASE VectorCall
    BY <1>3, VectorCallRefines
  <1>4. CASE BufferCall
    BY <1>4, BufferCallRefines
  <1>5. CASE UNCHANGED vars
    <2>1. kind' = kind /\ array' = array /\ inUse' = inUse /\ result' = result
      BY <1>5 DEF vars
    <2>2. IInv'
      BY <2>1 DEF IInv
    <2>3. UNCHANGED List!listVars
      BY <2>1 DEF List!listVars
    <2> QED
      BY <2>2, <2>3
  <1> QED
    BY <1>1, <1>2, <1>3, <1>4, <1>5 DEF Next

\* A GumboVector is the list that src/lib/vector.h promises, and a GumboStringBuffer that
\* of string_buffer.h: whatever the elements, strings and characters, the capacities and the
\* order of the calls, each of them changes the list as its name says and returns what the
\* list has, what is appended as UTF-8 is the character, nothing outside of the block is
\* touched, and destroy leaves no memory, as long as twice the length is a number of the
\* machine.
THEOREM ArrayIsItemList == Spec => IsItemList
  <1>1. Init => IInv /\ List!Init
    BY InitRefines
  <1>2. IInv /\ [Next]_vars => IInv' /\ [List!Next]_(List!listVars)
    BY NextRefines
  <1> QED
    BY <1>1, <1>2, PTL DEF Spec, IsItemList, List!Spec
=============================================================================
