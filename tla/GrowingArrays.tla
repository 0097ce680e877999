---------------------------- MODULE GrowingArrays ----------------------------
(***************************************************************************)
(* GumboVector and GumboStringBuffer, src/lib/vector.c and string_buffer.c:*)
(* a block of memory, how much of it is in use, and how large it is.  The  *)
(* block is doubled when it is full.  Cells are counted from 0; what is in *)
(* a cell that is not in use is Junk, for nobody may read it.              *)
(***************************************************************************)
EXTENDS Integers, Sequences

CONSTANTS Elements,    \* the pointers a vector may hold
          Strings,     \* the strings of bytes that may be appended to a buffer
          Codepoints,  \* the characters that may be
          Capacities,  \* the initial capacities that vectors are given
          Reserved,    \* the capacities that a buffer may be asked to have
          WordSize,    \* one more than the largest unsigned int and size_t
          MaxLength    \* bound: how many cells are in use at most

\* While twice the length is a number that the machine has, no capacity wraps around.
ASSUME SizesAssumption ==
    /\ WordSize \in Nat /\ MaxLength \in Nat \ {0} /\ 2 * MaxLength < WordSize
    /\ Capacities \subseteq 0..MaxLength /\ \A n \in Reserved : n \in Nat /\ 2 * n < WordSize

\* Strings are bytes, and characters are those of Unicode.
ASSUME BytesAssumption == \A s \in Strings : s \in Seq(Nat) /\ \A i \in 1..Len(s) : s[i] <= 255
ASSUME CharactersAssumption == \A c \in Codepoints : c \in Nat /\ c <= 1114111

VARIABLES kind,     \* "vector" or "buffer"
          array,    \* [cells, length, capacity, overrun], see New
          inUse,    \* between init and destroy
          result    \* the tuple of what the last call returned

vars == <<kind, array, inUse, result>>

None == <<>>
Junk == -1

kDefaultStringBufferSize == 5

-----------------------------------------------------------------------------
(***************************************************************************)
(* The memory.  A read or write outside of the block is an overrun, and so *)
(* is an assertion that fails.                                             *)
(***************************************************************************)
Cells(n) == [i \in 0..n - 1 |-> Junk]

New(capacity) ==
    [cells |-> Cells(capacity), length |-> 0, capacity |-> capacity, overrun |-> FALSE]

gumbo_realloc(a, capacity) ==
    [a EXCEPT !.capacity = capacity,
              !.cells = [i \in 0..capacity - 1 |-> IF i \in DOMAIN @ THEN @[i] ELSE Junk]]

Require(a, condition) == [a EXCEPT !.overrun = @ \/ ~condition]

\* The bytes s are written from the cell `at` on.
Write(a, at, s) ==
    LET to == at..(at + Len(s) - 1)
    IN  [Require(a, to \subseteq DOMAIN a.cells) EXCEPT
            !.cells = [i \in DOMAIN @ |-> IF i \in to THEN s[i - at + 1] ELSE @[i]]]

memmove(a, to, from, n) ==
    LET target == to..(to + n - 1)
    IN  [Require(a, target \cup from..(from + n - 1) \subseteq DOMAIN a.cells) EXCEPT
            !.cells = [i \in DOMAIN @ |->
                          IF i \in target /\ i - to + from \in DOMAIN @ THEN @[i - to + from]
                          ELSE @[i]]]

\* The cells behind the length are given up.
Used(a, length) ==
    [a EXCEPT !.length = length,
              !.cells = [i \in DOMAIN @ |-> IF i < length THEN @[i] ELSE Junk]]

Items(a) == [i \in 1..a.length |-> IF i - 1 \in DOMAIN a.cells THEN a.cells[i - 1] ELSE Junk]

-----------------------------------------------------------------------------
(***************************************************************************)
(* GumboVector.                                                            *)
(***************************************************************************)
\* As enlarge_vector_if_full, but it is full only when it holds one more than it can.
enlarge_vector_if_full_Late(v) ==
    IF v.length <= v.capacity THEN v
    ELSE gumbo_realloc(v, IF v.capacity = 0 THEN 2 ELSE (2 * v.capacity) % WordSize)

enlarge_vector_if_full(v) ==
    IF v.length < v.capacity THEN v
    ELSE gumbo_realloc(v, IF v.capacity = 0 THEN 2 ELSE (2 * v.capacity) % WordSize)

gumbo_vector_add(v, x) ==
    LET large == enlarge_vector_if_full(v)
        fits  == Require(large, large.length < large.capacity)
    IN  Used(Write(fits, v.length, <<x>>), v.length + 1)

gumbo_vector_pop(v) == IF v.length = 0 THEN v ELSE Used(v, v.length - 1)

gumbo_vector_index_of(v, x) ==
    LET found == {i \in 0..v.length - 1 : v.cells[i] = x}
    IN  IF found = {} THEN -1 ELSE CHOOSE i \in found : \A j \in found : i <= j

gumbo_vector_insert_at(v, x, index) ==
    LET large == enlarge_vector_if_full(v)
        moved == memmove(large, index + 1, index, v.length - index)
    IN  Used(Write(moved, index, <<x>>), v.length + 1)

gumbo_vector_remove_at(v, index) ==
    Used(memmove(v, index, index + 1, v.length - index - 1), v.length - 1)

gumbo_vector_remove(v, x) ==
    LET index == gumbo_vector_index_of(v, x)
    IN  IF index = -1 THEN v ELSE gumbo_vector_remove_at(v, index)

-----------------------------------------------------------------------------
(***************************************************************************)
(* GumboStringBuffer.                                                      *)
(***************************************************************************)
\* The loop that doubles the capacity until it suffices.
Doubled(capacity, needed) ==
    LET after[c \in Nat] == IF c < needed THEN after[(2 * c) % WordSize] ELSE c
    IN  after[capacity]

maybe_resize_string_buffer(b, additional) ==
    LET capacity == Doubled(b.capacity, (b.length + additional) % WordSize)
    IN  IF capacity = b.capacity THEN b ELSE gumbo_realloc(b, capacity)

\* The difference is unsigned: it wraps around, and back when the length is added.
gumbo_string_buffer_reserve(b, min_capacity) ==
    maybe_resize_string_buffer(b, (min_capacity - b.length) % WordSize)

\* The null goes behind what is in use.
gumbo_string_buffer_null_terminate(b) ==
    LET large == maybe_resize_string_buffer(b, 1)
    IN  Used(Write(large, b.length, <<0>>), b.length)

AppendBytes(b, s) ==
    LET large == maybe_resize_string_buffer(b, Len(s))
    IN  Used(Write(large, b.length, s), b.length + Len(s))

\* How many continuation bytes a character has, and the prefix of its first byte.
num_bytes(c) == IF c <= 127 THEN 0 ELSE IF c <= 2047 THEN 1 ELSE IF c <= 65535 THEN 2 ELSE 3

Prefix == <<0, 192, 224, 240>>

\* By what a character is divided when it is shifted right by so many times six bits.
Shift == <<1, 64, 4096, 262144>>

gumbo_string_buffer_append_codepoint(b, c) ==
    LET n == num_bytes(c)
    IN  AppendBytes(b, <<Prefix[n + 1] + (c \div Shift[n + 1])>>
                          \o [k \in 1..n |-> 128 + ((c \div Shift[n - k + 1]) % 64)])

\* vsnprintf writes a null behind the text; an empty text changes nothing.
gumbo_string_buffer_vsprintf(b, s) ==
    LET large == maybe_resize_string_buffer(b, Len(s) + 1)
    IN  IF s = <<>> THEN b ELSE Used(Write(large, b.length, Append(s, 0)), b.length + Len(s))

-----------------------------------------------------------------------------
Init == kind \in {"vector", "buffer"} /\ array = New(0) /\ inUse = FALSE /\ result = None

Call(a, value) ==
    /\ inUse /\ a.length <= MaxLength
    /\ array' = a /\ result' = value /\ UNCHANGED <<kind, inUse>>

InitArray ==
    /\ ~inUse /\ inUse' = TRUE /\ result' = None /\ UNCHANGED kind
    /\ IF kind = "vector" THEN \E n \in Capacities : array' = New(n)
       ELSE array' = New(kDefaultStringBufferSize)

\* gumbo_vector_destroy frees nothing when there is no capacity: then nothing was allocated.
DestroyArray ==
    /\ inUse /\ inUse' = FALSE /\ result' = None /\ UNCHANGED kind
    /\ array' = IF kind = "vector" /\ array.capacity = 0 THEN array ELSE New(0)

VectorCall ==
    /\ kind = "vector"
    /\ \/ \E x \in Elements : Call(gumbo_vector_add(array, x), None)
       \/ Call(gumbo_vector_pop(array),
               IF array.length = 0 THEN None ELSE <<array.cells[array.length - 1]>>)
       \/ \E x \in Elements : Call(array, <<gumbo_vector_index_of(array, x)>>)
       \/ \E x \in Elements : \E i \in 0..array.length : Call(gumbo_vector_insert_at(array, x, i), None)
       \/ \E x \in Elements : Call(gumbo_vector_remove(array, x), None)
       \/ \E i \in 0..array.length - 1 : Call(gumbo_vector_remove_at(array, i), <<array.cells[i]>>)

BufferCall ==
    /\ kind = "buffer"
    /\ \/ \E n \in Reserved : Call(gumbo_string_buffer_reserve(array, n), None)
       \/ Call(gumbo_string_buffer_null_terminate(array), None)
       \/ \E c \in Codepoints : Call(gumbo_string_buffer_append_codepoint(array, c), None)
       \/ \E s \in Strings : Call(AppendBytes(array, s), None)
       \/ \E s \in Strings : Call(gumbo_string_buffer_vsprintf(array, s), None)
       \/ Call(array, Items(array))     \* gumbo_string_buffer_to_string
       \/ Call(Used(array, 0), None)    \* gumbo_string_buffer_clear

Next == InitArray \/ DestroyArray \/ VectorCall \/ BufferCall

Spec == Init /\ [][Next]_vars

-----------------------------------------------------------------------------
(***************************************************************************)
(* Whatever the calls and wherever the block has to grow, a vector or a    *)
(* buffer is the list that its callers take it for: no operation reads or  *)
(* writes outside of the block or moves the wrong cells, what is appended  *)
(* as UTF-8 is the character, and what destroy leaves holds no memory.     *)
(***************************************************************************)
List == INSTANCE ItemList WITH
            items <- IF array.overrun THEN <<Junk>> ELSE Items(array),
            alive <- inUse \/ array.cells # Cells(0)

IsItemList == List!Spec
===============================================================================
