--------------------------- MODULE LuaDom_proofs ---------------------------
(***************************************************************************)
(* Proofs about LuaDom, for every set of documents to begin with and every *)
(* value of MaxDomNodes; and about DomWalk, for all that the parser may    *)
(* have given and all that is set and removed: first the attributes, then  *)
(* what the walks see and in which order, and what the sanitizer leaves.   *)
(*                                                                         *)
(* WalksEnd says that following childNodes never leads back; what a call   *)
(* that links one more node needs of the table is rather that there is a   *)
(* bottom to every set of nodes.  Founded says that, and is the same.      *)
(***************************************************************************)
EXTENDS DomWalk, GumboTree_lemmas

-----------------------------------------------------------------------------
(***************************************************************************)
(* The fields of a node, and the nodes above and below it.                 *)
(***************************************************************************)

\* What the type of a table says of its nodes.
LEMMA DomFields ==
    ASSUME NEW t, IsDom(t)
    PROVE  /\ Len(t) \in Nat /\ DOMAIN t = 1 .. Len(t) /\ NULL \notin DOMAIN t
           /\ \A m \in DOMAIN t :
                 /\ t[m] \in DomNodes(Len(t))
                 /\ t[m].own \in 0 .. Len(t) /\ t[m].parent \in 0 .. Len(t)
                 /\ t[m].kids \in Seq(DOMAIN t) /\ ToSet(t[m].kids) \subseteq DOMAIN t
                 /\ t[m].parent = NULL \/ t[m].parent \in DOMAIN t
                 /\ t[m].own = NULL \/ t[m].own \in DOMAIN t
  <1>1. Len(t) \in Nat /\ DOMAIN t = 1 .. Len(t) /\ \A m \in DOMAIN t : t[m] \in DomNodes(Len(t))
    BY DEF IsDom
  <1>2. \A x \in DomNodes(Len(t)) :
           /\ x.own \in 0 .. Len(t) /\ x.parent \in 0 .. Len(t) /\ x.kids \in Seq(1 .. Len(t))
           /\ x.type \in {"document", "element", "text", "doctype", "fragment"}
    BY DEF DomNodes
  <1>3. \A s \in Seq(1 .. Len(t)) : ToSet(s) \subseteq 1 .. Len(t)
    BY DEF ToSet
  <1>4. \A x \in 0 .. Len(t) : x = NULL \/ x \in 1 .. Len(t)
    BY <1>1 DEF NULL
  <1>5. NULL \notin DOMAIN t
    BY <1>1 DEF NULL
  <1> QED
    BY <1>1, <1>2, <1>3, <1>4, <1>5

\* The nodes above n: the least set with n and the parents of its nodes.
LEMMA Above ==
    ASSUME NEW t, IsDom(t), NEW n \in DOMAIN t
    PROVE  /\ n \in Ancestors(t, n) /\ Ancestors(t, n) \subseteq DOMAIN t
           /\ \A m \in Ancestors(t, n) : t[m].parent \in Ancestors(t, n) \cup {NULL}
           /\ \A C \in SUBSET DOMAIN t :
                 n \in C /\ (\A m \in C : t[m].parent \in C \cup {NULL})
                    => Ancestors(t, n) \subseteq C
  <1>1. /\ Len(t) \in Nat /\ DOMAIN t = 1 .. Len(t) /\ n \in 1 .. Len(t)
        /\ \A m \in 1 .. Len(t) : t[m].parent \in 0 .. Len(t)
    BY DomFields
  <1> QED
    BY ONLY <1>1, AncestorsClosed

\* The fold that Below is: as many times as there are nodes, the children are added.
LEMMA BelowFold ==
    ASSUME NEW t, NEW n
    PROVE  Below(t, n) =
             (CHOOSE f : f = [s \in SUBSET DOMAIN t |->
                                IF s = {} THEN {n}
                                ELSE f[s \ {Max(s)}]
                                        \cup UNION {ToSet(t[m].kids) : m \in f[s \ {Max(s)}]}])[DOMAIN t]
  BY DEF Below, FoldLeft, MapThenFoldSet

\* The nodes below n: the least set with n and the children of its nodes.
LEMMA BelowClosed ==
    ASSUME NEW t, IsDom(t), NEW n \in DOMAIN t
    PROVE  /\ n \in Below(t, n) /\ Below(t, n) \subseteq DOMAIN t
           /\ \A m \in Below(t, n) : ToSet(t[m].kids) \subseteq Below(t, n)
           /\ \A C \in SUBSET DOMAIN t :
                 n \in C /\ (\A m \in C : ToSet(t[m].kids) \subseteq C) => Below(t, n) \subseteq C
  <1> DEFINE N == Len(t)
             S == SUBSET (1 .. N)
             Down(s) == s \cup UNION {ToSet(t[m].kids) : m \in s}
             Step == [x \in (1 .. N) \X S |-> Down(x[2])]
             F == [s \in S |-> Down(s)]
             Unfolds(f) == f = [s \in S |-> IF s = {} THEN {n} ELSE Down(f[s \ {Max(s)}])]
             g == CHOOSE f : Unfolds(f)
  <1>0. N \in Nat /\ DOMAIN t = 1 .. N /\ n \in 1 .. N
    BY DomFields
  <1>1. Below(t, n) = g[1 .. N]
    BY <1>0, BelowFold
  <1>2. ASSUME NEW s \in S PROVE Down(s) \in S /\ s \subseteq Down(s)
    <2>1. \A m \in s : ToSet(t[m].kids) \subseteq 1 .. N
      BY <1>0, DomFields
    <2> QED
      BY <2>1
  <1> HIDE DEF N
  <1>3. Unfolds(g)
    <2>1. Step \in [(1 .. N) \X S -> S] /\ {n} \in S
      BY <1>0, <1>2
    <2> HIDE DEF Step
    <2>2. PICK f \in [S -> S] : IsFold(f, N, {n}, Step)
      BY <1>0, <2>1, FoldExists
    <2>3. ASSUME NEW s \in S, s # {} PROVE Step[<<Max(s), f[s \ {Max(s)}]>>] = Down(f[s \ {Max(s)}])
      <3>1. Max(s) \in s
        BY <1>0, <2>3, MaxOfPositions
      <3>2. Max(s) \in 1 .. N /\ s \ {Max(s)} \in S
        BY <3>1
      <3>3. f[s \ {Max(s)}] \in S
        BY <2>2, <3>2
      <3> DEFINE x == <<Max(s), f[s \ {Max(s)}]>>
      <3>4. x \in (1 .. N) \X S /\ x[2] = f[s \ {Max(s)}]
        BY <3>2, <3>3
      <3> HIDE DEF x
      <3>5. Step[x] = Down(x[2])
        BY <3>4 DEF Step
      <3> QED
        BY <3>4, <3>5 DEF x
    <2>4. Unfolds(f)
      <3>1. f = [s \in S |-> IF s = {} THEN {n} ELSE Step[<<Max(s), f[s \ {Max(s)}]>>]]
        BY <2>2 DEF IsFold
      <3> HIDE DEF Down
      <3> QED
        BY <2>3, <3>1
    <2> HIDE DEF Unfolds
    <2> QED
      BY <2>4
  <1> HIDE DEF g
  <1>4. F \in [S -> S] /\ \A s \in S : s \subseteq F[s]
    BY <1>2
  <1>5. g[1 .. 0] = {n}
    <2>1. 1 .. 0 = {} /\ {} \in S
      OBVIOUS
    <2> HIDE DEF Down
    <2> QED
      BY <1>3, <2>1
  <1>6. ASSUME NEW k \in 0 .. N - 1, g[1 .. k] \in S PROVE g[1 .. (k + 1)] = F[g[1 .. k]]
    <2>1. k + 1 \in Nat \ {0} /\ (k + 1) - 1 = k /\ 1 .. (k + 1) \in S
      BY <1>0
    <2>2. 1 .. (k + 1) # {} /\ Max(1 .. (k + 1)) = k + 1 /\ (1 .. (k + 1)) \ {k + 1} = 1 .. k
      BY ONLY <2>1, MaxOfPrefix
    <2> HIDE DEF Down
    <2>3. g[1 .. (k + 1)] = Down(g[1 .. k])
      BY <1>3, <2>1, <2>2
    <2> QED
      BY <1>6, <2>3
  <1> DEFINE B == g[1 .. N]
  <1>7. IsClosure(B, N, F, {n})
    <2>1. {n} \in S /\ {n} # {}
      BY <1>0
    <2> HIDE DEF F
    <2> QED
      BY <1>0, <1>4, <1>5, <1>6, <2>1, FoldIsClosure
  <1>8. ASSUME NEW m \in B PROVE ToSet(t[m].kids) \subseteq B
    <2>1. B \in S /\ Down(B) = B
      BY <1>7 DEF IsClosure
    <2> HIDE DEF B
    <2> QED
      BY <2>1
  <1>9. ASSUME NEW C \in S, n \in C, \A m \in C : ToSet(t[m].kids) \subseteq C
        PROVE  B \subseteq C
    <2>1. ASSUME NEW s \in S, s \subseteq C PROVE F[s] \subseteq C
      BY <1>9, <2>1
    <2> HIDE DEF B, F
    <2> QED
      BY <1>7, <1>9, <2>1 DEF IsClosure
  <1>10. B \in S /\ n \in B
    BY <1>7 DEF IsClosure
  <1> QED
    BY <1>0, <1>1, <1>8, <1>9, <1>10

\* What is below a child of m is below m.
LEMMA BelowChild ==
    ASSUME NEW t, IsDom(t), NEW m \in DOMAIN t, NEW k \in ToSet(t[m].kids)
    PROVE  k \in DOMAIN t /\ Below(t, k) \subseteq Below(t, m)
  <1>1. k \in DOMAIN t
    BY DomFields
  <1>2. /\ Below(t, m) \in SUBSET DOMAIN t /\ m \in Below(t, m)
        /\ \A x \in Below(t, m) : ToSet(t[x].kids) \subseteq Below(t, m)
    BY BelowClosed
  <1>3. k \in Below(t, m)
    BY <1>2
  <1>4. Below(t, k) \subseteq Below(t, m)
    BY <1>1, <1>2, <1>3, BelowClosed
  <1> QED
    BY <1>1, <1>4

\* What is below m is m or below one of its children.
LEMMA BelowCases ==
    ASSUME NEW t, IsDom(t), NEW m \in DOMAIN t, NEW x \in Below(t, m), x # m
    PROVE  \E k \in ToSet(t[m].kids) : x \in Below(t, k)
  <1> DEFINE C == {m} \cup UNION {Below(t, k) : k \in ToSet(t[m].kids)}
  <1>1. \A k \in ToSet(t[m].kids) :
           /\ k \in DOMAIN t /\ k \in Below(t, k) /\ Below(t, k) \subseteq DOMAIN t
           /\ \A y \in Below(t, k) : ToSet(t[y].kids) \subseteq Below(t, k)
    BY BelowChild, BelowClosed
  <1>2. C \in SUBSET DOMAIN t /\ m \in C
    BY <1>1
  <1>3. ASSUME NEW y \in C PROVE ToSet(t[y].kids) \subseteq C
    BY <1>1
  <1>4. Below(t, m) \subseteq C
    <2> HIDE DEF C
    <2> QED
      BY <1>2, <1>3, BelowClosed
  <1> QED
    BY <1>4

\* Every set of nodes has one with no child in the set.
Founded(t) ==
    \A S \in SUBSET DOMAIN t : S # {} => \E n \in S : ToSet(t[n].kids) \cap S = {}

\* If no node lies below itself, among the nodes of a set take one with the least below it.
LEMMA EndingIsFounded ==
    ASSUME NEW t, IsDom(t), EndsBelow(t)
    PROVE  Founded(t)
  <1> SUFFICES ASSUME NEW S \in SUBSET DOMAIN t, S # {},
                      \A n \in S : ToSet(t[n].kids) \cap S # {}
               PROVE  FALSE
    BY DEF Founded
  <1> DEFINE under(n) == Below(t, n) \cap S
  <1>1. \A n \in S : IsFiniteSet(under(n)) /\ Cardinality(under(n)) \in Nat
    <2>1. Len(t) \in Nat /\ DOMAIN t = 1 .. Len(t)
      BY DomFields
    <2>2. IsFiniteSet(DOMAIN t)
      BY <2>1, FS_Interval
    <2>3. \A n \in S : under(n) \subseteq DOMAIN t
      OBVIOUS
    <2>4. \A n \in S : IsFiniteSet(under(n))
      BY <2>2, <2>3, FS_Subset
    <2> QED
      BY <2>4, FS_CardinalityType
  <1> DEFINE sizes == {Cardinality(under(n)) : n \in S}
  <1>2. sizes \subseteq Nat /\ sizes # {}
    BY <1>1
  <1>3. PICK c \in sizes : \A d \in sizes : c <= d
    BY <1>2, LeastNumber
  <1>4. PICK n \in S : c = Cardinality(under(n))
    OBVIOUS
  <1>5. PICK m \in S : m \in ToSet(t[n].kids)
    OBVIOUS
  <1>6. n \in Below(t, n) /\ n \notin Below(t, m) /\ Below(t, m) \subseteq Below(t, n)
    BY <1>5, BelowClosed, BelowChild DEF EndsBelow
  <1>7. under(m) \subseteq under(n) /\ under(m) # under(n)
    BY <1>6
  <1> HIDE DEF under
  <1>8. Cardinality(under(m)) <= Cardinality(under(n)) /\ Cardinality(under(m)) # Cardinality(under(n))
    BY <1>1, <1>7, FS_Subset
  <1>9. Cardinality(under(n)) <= Cardinality(under(m))
    BY <1>3, <1>4
  <1> QED
    BY <1>1, <1>8, <1>9

\* If a node lies below its child, so does every node on the way there.
LEMMA FoundedEnds ==
    ASSUME NEW t, IsDom(t), Founded(t)
    PROVE  EndsBelow(t)
  <1> SUFFICES ASSUME NEW n \in DOMAIN t, NEW m \in ToSet(t[n].kids), n \in Below(t, m)
               PROVE  FALSE
    BY DEF EndsBelow
  <1>1. m \in DOMAIN t
    BY BelowChild
  <1>2. /\ m \in Below(t, m) /\ Below(t, m) \subseteq DOMAIN t
        /\ \A x \in Below(t, m) : ToSet(t[x].kids) \subseteq Below(t, m)
    BY <1>1, BelowClosed
  <1> DEFINE S == {x \in Below(t, m) : n \in Below(t, x)}
  <1>3. S \in SUBSET DOMAIN t /\ m \in S
    BY <1>2
  <1>4. ASSUME NEW x \in S PROVE ToSet(t[x].kids) \cap S # {}
    <2>1. CASE x = n
      BY <1>3, <2>1
    <2>2. CASE x # n
      <3>1. x \in DOMAIN t /\ n \in Below(t, x)
        BY <1>3
      <3>2. PICK k \in ToSet(t[x].kids) : n \in Below(t, k)
        BY <2>2, <3>1, BelowCases
      <3>3. k \in Below(t, m)
        BY <1>2, <3>2
      <3> QED
        BY <3>2, <3>3
    <2> QED
      BY <2>1, <2>2
  <1> HIDE DEF S
  <1> QED
    BY <1>3, <1>4 DEF Founded

-----------------------------------------------------------------------------
(***************************************************************************)
(* The invariant, and tables that list no more than before.                *)
(***************************************************************************)
Good(t) == IsDom(t) /\ Listed(t) /\ Founded(t)

IInv == Good(nodes)

\* A list is empty if nothing is in it.
LEMMA EmptyList ==
    ASSUME NEW S, NEW s \in Seq(S)
    PROVE  s = <<>> <=> ToSet(s) = {}
  <1>1. DOMAIN s = 1 .. Len(s) /\ Len(s) \in Nat
    OBVIOUS
  <1>2. ASSUME s # <<>> PROVE ToSet(s) # {}
    <2>1. 1 \in DOMAIN s
      BY <1>1, <1>2
    <2> QED
      BY <2>1 DEF ToSet
  <1>3. ToSet(<<>>) = {}
    BY DEF ToSet
  <1> QED
    BY <1>2, <1>3

\* If lists only lose nodes and what stays listed keeps its parent, all stays as it should be.
LEMMA Shrinks ==
    ASSUME NEW t, Good(t), NEW u, IsDom(u), Len(u) = Len(t),
           \A m \in DOMAIN t :
              /\ u[m].type = t[m].type
              /\ IsInjective(u[m].kids) /\ ToSet(u[m].kids) \subseteq ToSet(t[m].kids)
              /\ \A k \in ToSet(u[m].kids) : u[k].parent = t[k].parent
    PROVE  Good(u)
  <1>1. IsDom(t) /\ Listed(t) /\ Founded(t)
    BY DEF Good
  <1>2. DOMAIN u = DOMAIN t
    BY <1>1, DomFields
  <1>3. \A m \in DOMAIN t :
           /\ u[m].kids \in Seq(DOMAIN t) /\ t[m].kids \in Seq(DOMAIN t)
           /\ ToSet(t[m].kids) \subseteq DOMAIN t
    BY <1>1, <1>2, DomFields
  <1>4. Listed(u)
    <2>1. ASSUME NEW n \in DOMAIN t, u[n].kids # <<>> PROVE implementsParentNode(u[n])
      <3>1. ToSet(u[n].kids) # {}
        BY <1>3, <2>1, EmptyList
      <3>2. ToSet(t[n].kids) # {}
        BY <3>1
      <3>3. t[n].kids # <<>>
        BY <1>3, <3>2, EmptyList
      <3>4. implementsParentNode(t[n])
        BY <1>1, <3>3 DEF Listed
      <3> QED
        BY <3>4 DEF implementsParentNode
    <2>2. ASSUME NEW n \in DOMAIN t, NEW m \in ToSet(u[n].kids)
          PROVE  /\ implementsChildNode(u[m])
                 /\ IF u[m].type = "doctype" THEN u[n].type = "document" ELSE u[m].parent = n
      <3>1. m \in ToSet(t[n].kids) /\ m \in DOMAIN t
        BY <1>3
      <3>2. /\ implementsChildNode(t[m])
            /\ IF t[m].type = "doctype" THEN t[n].type = "document" ELSE t[m].parent = n
        BY <1>1, <3>1 DEF Listed
      <3> QED
        BY <3>1, <3>2 DEF implementsChildNode
    <2>3. ASSUME NEW n \in DOMAIN t, NEW k \in DOMAIN t \ {n}
          PROVE  ToSet(u[n].kids) \cap ToSet(u[k].kids) = {}
      <3>1. ToSet(t[n].kids) \cap ToSet(t[k].kids) = {}
        BY <1>1 DEF Listed
      <3> QED
        BY <3>1
    <2> QED
      BY <1>2, <2>1, <2>2, <2>3 DEF Listed
  <1>5. Founded(u)
    <2>1. ASSUME NEW S \in SUBSET DOMAIN t, S # {} PROVE \E n \in S : ToSet(u[n].kids) \cap S = {}
      <3>1. PICK n \in S : ToSet(t[n].kids) \cap S = {}
        BY <1>1, <2>1 DEF Founded
      <3> QED
        BY <3>1
    <2> QED
      BY <1>2, <2>1 DEF Founded
  <1> QED
    BY <1>4, <1>5 DEF Good

-----------------------------------------------------------------------------
(***************************************************************************)
(* A node is taken out of the list it is in.                               *)
(***************************************************************************)

\* n is in no list any more and has no parent; all else is as it was, but who owns n.
TakenOut(t, u, n) ==
    /\ IsDom(u) /\ Len(u) = Len(t)
    /\ \A m \in DOMAIN t :
          /\ u[m].type = t[m].type /\ u[m].kids = Without(t[m].kids, n)
          /\ u[m].parent = IF m = n THEN NULL ELSE t[m].parent
          /\ m # n => u[m].own = t[m].own

\* Without takes out that element and no other.
LEMMA WithoutOnce ==
    ASSUME NEW S, NEW s \in Seq(S), IsInjective(s), NEW n
    PROVE  /\ Without(s, n) \in Seq(S) /\ IsInjective(Without(s, n))
           /\ ToSet(Without(s, n)) = ToSet(s) \ {n}
  <1>1. CASE n \in ToSet(s)
    <2>1. PositionIn(s, n) \in 1 .. Len(s) /\ s[PositionIn(s, n)] = n
      BY <1>1, PositionInFinds
    <2> DEFINE at == PositionIn(s, n)
    <2> HIDE DEF at
    <2>2. at \in 1 .. Len(s) /\ s[at] = n
      BY <2>1 DEF at
    <2>3. /\ RemoveAt(s, at) \in Seq(S) /\ IsInjective(RemoveAt(s, at))
          /\ ToSet(RemoveAt(s, at)) = ToSet(s) \ {s[at]}
      BY <2>2, RemoveAtProperties, RemoveAtOnce
    <2> QED
      BY <1>1, <2>2, <2>3 DEF Without, at
  <1>2. CASE n \notin ToSet(s)
    BY <1>2 DEF Without
  <1> QED
    BY <1>1, <1>2

LEMMA TakingOutKeepsGood ==
    ASSUME NEW t, Good(t), NEW u, NEW n \in DOMAIN t, TakenOut(t, u, n)
    PROVE  Good(u) /\ DOMAIN u = DOMAIN t /\ \A m \in DOMAIN u : n \notin ToSet(u[m].kids)
  <1>1. IsDom(t) /\ IsDom(u) /\ Len(u) = Len(t)
    BY DEF Good, TakenOut
  <1>2. DOMAIN u = DOMAIN t
    BY <1>1, DomFields
  <1>3. ASSUME NEW m \in DOMAIN t
        PROVE  IsInjective(u[m].kids) /\ ToSet(u[m].kids) = ToSet(t[m].kids) \ {n}
    <2>1. t[m].kids \in Seq(DOMAIN t) /\ IsInjective(t[m].kids)
      BY <1>1, DomFields DEF Good, Listed
    <2>2. u[m].kids = Without(t[m].kids, n)
      BY DEF TakenOut
    <2> QED
      BY <2>1, <2>2, WithoutOnce
  <1>4. ASSUME NEW m \in DOMAIN t, NEW k \in ToSet(u[m].kids) PROVE u[k].parent = t[k].parent
    <2>1. k \in DOMAIN t /\ k # n
      BY <1>1, <1>2, <1>3, DomFields
    <2> QED
      BY <2>1 DEF TakenOut
  <1>5. \A m \in DOMAIN t : u[m].type = t[m].type
    BY DEF TakenOut
  <1>6. Good(u)
    BY <1>1, <1>3, <1>4, <1>5, Shrinks
  <1> QED
    BY <1>2, <1>3, <1>6

\* removeChild, when it returns.
LEMMA RemoveChildTakesOut ==
    ASSUME NEW t, Good(t), NEW self \in DOMAIN t, NEW child \in DOMAIN t,
           removeChild(t, self, child).outcome = "returns"
    PROVE  TakenOut(t, removeChild(t, self, child).nodes, child)
  <1> DEFINE at == PositionIn(t[self].kids, child)
             u  == [t EXCEPT ![self].kids = RemoveAt(@, at), ![child].parent = NULL]
  <1>1. IsDom(t) /\ Listed(t)
    BY DEF Good
  <1>2. t[child].parent = self /\ at # 0 /\ removeChild(t, self, child).nodes = u
    BY DEF removeChild, Returned, Raised, Result
  <1>3. /\ t[self].kids \in Seq(DOMAIN t) /\ DOMAIN t = 1 .. Len(t) /\ Len(t) \in Nat
        /\ t \in Seq(DomNodes(Len(t))) /\ \A m \in DOMAIN t : t[m] \in DomNodes(Len(t))
    BY <1>1, DomFields DEF IsDom
  <1>4. child \in ToSet(t[self].kids) /\ at \in 1 .. Len(t[self].kids)
    BY <1>2, <1>3, PositionInFinds
  <1> DEFINE kids == RemoveAt(t[self].kids, at)
  <1>5. kids = Without(t[self].kids, child)
    BY <1>4 DEF Without
  <1>6. kids \in Seq(DOMAIN t)
    <2> HIDE DEF at
    <2> QED
      BY <1>3, <1>4, RemoveAtProperties
  <1> HIDE DEF kids, at
  <1>7. u = [t EXCEPT ![self].kids = kids, ![child].parent = NULL]
    BY DEF kids
  <1>8. ASSUME NEW m \in DOMAIN t
        PROVE  /\ u[m] \in DomNodes(Len(t))
               /\ u[m].type = t[m].type /\ u[m].own = t[m].own
               /\ u[m].kids = IF m = self THEN kids ELSE t[m].kids
               /\ u[m].parent = IF m = child THEN NULL ELSE t[m].parent
    <2>1. NULL \in 0 .. Len(t) /\ kids \in Seq(1 .. Len(t))
      BY <1>3, <1>6 DEF NULL
    <2>2. t[m] \in DomNodes(Len(t))
      BY <1>3
    <2>3. CASE m = self /\ m = child
      <3>1. u[m] = [t[m] EXCEPT !.kids = kids, !.parent = NULL]
        BY <1>7, <2>2, <2>3 DEF DomNodes
      <3>2. \A x \in DomNodes(Len(t)) :
               LET y == [x EXCEPT !.kids = kids, !.parent = NULL]
               IN  /\ y \in DomNodes(Len(t)) /\ y.type = x.type /\ y.own = x.own
                   /\ y.kids = kids /\ y.parent = NULL
        BY <2>1 DEF DomNodes
      <3> QED
        BY <2>2, <2>3, <3>1, <3>2
    <2>4. CASE m = self /\ m # child
      BY <1>7, <2>1, <2>2, <2>4 DEF DomNodes
    <2>5. CASE m # self /\ m = child
      BY <1>7, <2>1, <2>2, <2>5 DEF DomNodes
    <2>6. CASE m # self /\ m # child
      BY <1>7, <2>1, <2>2, <2>6 DEF DomNodes
    <2> QED
      BY <2>3, <2>4, <2>5, <2>6
  <1>9. DOMAIN u = DOMAIN t
    OBVIOUS
  <1> HIDE DEF u
  <1>10. u \in Seq(DomNodes(Len(t))) /\ Len(u) = Len(t)
    <2>1. u = [m \in 1 .. Len(t) |-> u[m]]
      BY <1>3, <1>9 DEF u
    <2> QED
      BY <1>3, <1>8, <2>1
  <1>11. IsDom(u)
    BY <1>1, <1>8, <1>9, <1>10 DEF IsDom
  <1>12. ASSUME NEW m \in DOMAIN t PROVE u[m].kids = Without(t[m].kids, child)
    <2>1. CASE m = self
      BY <1>5, <1>8, <2>1
    <2>2. CASE m # self
      <3>1. ToSet(t[self].kids) \cap ToSet(t[m].kids) = {}
        BY <1>1, <2>2 DEF Listed
      <3>2. child \notin ToSet(t[m].kids)
        BY <1>4, <3>1
      <3> QED
        BY <1>8, <2>2, <3>2 DEF Without
    <2> QED
      BY <2>1, <2>2
  <1>13. TakenOut(t, u, child)
    BY <1>8, <1>10, <1>11, <1>12 DEF TakenOut
  <1> QED
    BY <1>2, <1>13

\* remove() and removeChild(): when they do not return they have changed nothing.
LEMMA RemoveChildEnds ==
    ASSUME NEW t, NEW self, NEW child
    PROVE  /\ removeChild(t, self, child).outcome \in {"returns", "raises"}
           /\ removeChild(t, self, child).outcome # "returns" => removeChild(t, self, child).nodes = t
  BY DEF removeChild, Returned, Raised, Result

LEMMA RemoveEnds ==
    ASSUME NEW t, NEW n
    PROVE  /\ remove(t, n).outcome \in {"returns", "raises"}
           /\ remove(t, n).outcome # "returns" => remove(t, n).nodes = t
  <1>1. CASE t[n].parent = NULL
    BY <1>1 DEF remove, Returned, Result
  <1>2. CASE t[n].parent # NULL
    BY <1>2, RemoveChildEnds DEF remove
  <1> QED
    BY <1>1, <1>2

\* remove() takes the node out; only a doctype without a parent stays where it is.
LEMMA RemoveTakesOut ==
    ASSUME NEW t, Good(t), NEW n \in DOMAIN t, remove(t, n).outcome = "returns",
           t[n].type # "doctype" \/ t[n].parent # NULL
    PROVE  TakenOut(t, remove(t, n).nodes, n)
  <1>1. CASE t[n].parent = NULL
    <2>1. remove(t, n).nodes = t /\ IsDom(t) /\ Listed(t)
      BY <1>1 DEF remove, Returned, Result, Good
    <2>2. ASSUME NEW m \in DOMAIN t PROVE t[m].kids = Without(t[m].kids, n)
      <3>1. n \notin ToSet(t[m].kids)
        <4>1. NULL \notin DOMAIN t
          BY <2>1, DomFields
        <4> QED
          BY <1>1, <2>1, <4>1 DEF Listed
      <3> QED
        BY <3>1 DEF Without
    <2> QED
      BY <1>1, <2>1, <2>2 DEF TakenOut
  <1>2. CASE t[n].parent # NULL
    <2>1. t[n].parent \in DOMAIN t
      BY <1>2, DomFields DEF Good
    <2>2. remove(t, n) = removeChild(t, t[n].parent, n)
      BY <1>2 DEF remove
    <2> QED
      BY <2>1, <2>2, RemoveChildTakesOut
  <1> QED
    BY <1>1, <1>2

LEMMA RemoveKeepsGood ==
    ASSUME NEW t, Good(t), NEW n \in DOMAIN t
    PROVE  /\ Good(remove(t, n).nodes) /\ Len(remove(t, n).nodes) = Len(t)
           /\ DOMAIN remove(t, n).nodes = DOMAIN t
  <1>1. CASE remove(t, n).outcome = "returns" /\ t[n].parent # NULL
    <2> DEFINE u == remove(t, n).nodes
    <2>1. TakenOut(t, u, n)
      BY <1>1, RemoveTakesOut
    <2> HIDE DEF u
    <2>2. Good(u)
      BY <2>1, TakingOutKeepsGood
    <2>3. Len(u) = Len(t) /\ DOMAIN u = DOMAIN t
      BY <2>1 DEF TakenOut
    <2> QED
      BY <2>2, <2>3 DEF u
  <1>2. CASE remove(t, n).outcome = "returns" /\ t[n].parent = NULL
    BY <1>2 DEF remove, Returned, Result
  <1>3. CASE remove(t, n).outcome # "returns"
    BY <1>3, RemoveEnds
  <1> QED
    BY <1>1, <1>2, <1>3

-----------------------------------------------------------------------------
(***************************************************************************)
(* A node is adopted.                                                      *)
(***************************************************************************)

\* A document or what holds it: what ownerDocument gives when it ends.
LEMMA OwnerIsANode ==
    ASSUME NEW t, IsDom(t), NEW n \in DOMAIN t, ~ownerDocumentHangs(t, n)
    PROVE  /\ ownerDocument(t, n) \in 0 .. Len(t)
           /\ t[n].type = "document" => ownerDocument(t, n) = NULL
  <1>1. t[n].own \in 0 .. Len(t) /\ (t[n].type = "document" => t[n].own = NULL)
    BY DomFields DEF IsDom
  <1>2. CASE t[n].own # NULL \/ t[n].type = "document"
    BY <1>1, <1>2 DEF ownerDocument
  <1>3. CASE ~(t[n].own # NULL \/ t[n].type = "document")
    <2>1. \E m \in Ancestors(t, n) : t[m].parent = NULL
      BY <1>3 DEF ownerDocumentHangs, Endless
    <2>2. Top(t, n) \in Ancestors(t, n)
      BY <2>1 DEF Top
    <2>3. Top(t, n) \in DOMAIN t
      BY <2>2, Above
    <2>4. Top(t, n) \in 0 .. Len(t) /\ t[Top(t, n)].own \in 0 .. Len(t)
      BY <2>3, DomFields
    <2> QED
      BY <1>3, <2>4 DEF ownerDocument
  <1> QED
    BY <1>2, <1>3

\* ownerDocument is set, and nothing else.
LEMMA SetOwnerSets ==
    ASSUME NEW t, IsDom(t), NEW n \in DOMAIN t, t[n].type # "document", NEW doc \in 0 .. Len(t)
    PROVE  /\ IsDom(SetOwner(t, n, doc)) /\ Len(SetOwner(t, n, doc)) = Len(t)
           /\ DOMAIN SetOwner(t, n, doc) = DOMAIN t
           /\ \A m \in DOMAIN t :
                 /\ SetOwner(t, n, doc)[m].type = t[m].type
                 /\ SetOwner(t, n, doc)[m].parent = t[m].parent
                 /\ SetOwner(t, n, doc)[m].kids = t[m].kids
                 /\ m # n => SetOwner(t, n, doc)[m].own = t[m].own
  <1>1. CASE t[n].own # NULL
    <2> DEFINE u == [t EXCEPT ![n].own = doc]
    <2>1. /\ t \in Seq(DomNodes(Len(t))) /\ DOMAIN t = 1 .. Len(t) /\ Len(t) \in Nat
          /\ \A m \in DOMAIN t : t[m] \in DomNodes(Len(t))
      BY DomFields DEF IsDom
    <2>2. ASSUME NEW m \in DOMAIN t
          PROVE  /\ u[m] \in DomNodes(Len(t)) /\ u[m].type = t[m].type
                 /\ u[m].parent = t[m].parent /\ u[m].kids = t[m].kids
                 /\ u[m].own = IF m = n THEN doc ELSE t[m].own
      <3>1. t[m] \in DomNodes(Len(t))
        BY <2>1
      <3> QED
        BY <3>1 DEF DomNodes
    <2>3. u = [m \in 1 .. Len(t) |-> u[m]] /\ DOMAIN u = DOMAIN t
      BY <2>1
    <2> HIDE DEF u
    <2>4. u \in Seq(DomNodes(Len(t))) /\ Len(u) = Len(t)
      BY <2>1, <2>2, <2>3
    <2>5. IsDom(u)
      <3>1. \A m \in DOMAIN u : u[m].type = "document" => u[m].own = NULL
        BY <2>2, <2>3 DEF IsDom
      <3> QED
        BY <2>4, <3>1 DEF IsDom
    <2>6. SetOwner(t, n, doc) = u
      BY <1>1 DEF SetOwner, u
    <2> QED
      BY <2>2, <2>3, <2>4, <2>5, <2>6
  <1>2. CASE t[n].own = NULL
    BY <1>2 DEF SetOwner
  <1> QED
    BY <1>1, <1>2

LEMMA SetOwnerKeepsGood ==
    ASSUME NEW t, Good(t), NEW n \in DOMAIN t, t[n].type # "document", NEW doc \in 0 .. Len(t)
    PROVE  Good(SetOwner(t, n, doc))
  <1> DEFINE u == SetOwner(t, n, doc)
  <1>1. /\ IsDom(u) /\ Len(u) = Len(t)
        /\ \A m \in DOMAIN t :
              u[m].type = t[m].type /\ u[m].parent = t[m].parent /\ u[m].kids = t[m].kids
    BY SetOwnerSets DEF Good
  <1>2. \A m \in DOMAIN t : IsInjective(t[m].kids) /\ ToSet(t[m].kids) \subseteq DOMAIN t
    BY DomFields DEF Good, Listed
  <1> HIDE DEF u
  <1>3. Good(u)
    BY <1>1, <1>2, Shrinks
  <1> QED
    BY <1>3 DEF u

\* adoptNode: what it raises it raises before it has changed anything.
LEMMA AdoptNodeEnds ==
    ASSUME NEW t, NEW doc, NEW n
    PROVE  /\ adoptNode(t, doc, n).outcome \in {"returns", "raises"}
           /\ adoptNode(t, doc, n).outcome # "returns" => adoptNode(t, doc, n).nodes = t
           /\ adoptNode(t, doc, n).outcome = "returns" =>
                 /\ t[n].type # "document" /\ remove(t, n).outcome = "returns"
                 /\ adoptNode(t, doc, n).nodes = SetOwner(remove(t, n).nodes, n, doc)
  BY RemoveEnds DEF adoptNode, Returned, Raised, Result

LEMMA AdoptNodeKeepsGood ==
    ASSUME NEW t, Good(t), NEW n \in DOMAIN t, NEW doc \in 0 .. Len(t)
    PROVE  /\ Good(adoptNode(t, doc, n).nodes) /\ Len(adoptNode(t, doc, n).nodes) = Len(t)
  <1>1. CASE adoptNode(t, doc, n).outcome = "returns"
    <2> DEFINE u == remove(t, n).nodes
    <2>1. t[n].type # "document" /\ adoptNode(t, doc, n).nodes = SetOwner(u, n, doc)
      BY <1>1, AdoptNodeEnds
    <2>2. Good(u) /\ Len(u) = Len(t) /\ DOMAIN u = DOMAIN t
      BY RemoveKeepsGood
    <2>3. u[n].type = t[n].type
      <3>1. CASE t[n].parent = NULL
        BY <3>1 DEF remove, Returned, Result
      <3>2. CASE t[n].parent # NULL
        <4>1. TakenOut(t, u, n)
          BY <1>1, <3>2, AdoptNodeEnds, RemoveTakesOut
        <4> QED
          BY <4>1 DEF TakenOut
      <3> QED
        BY <3>1, <3>2
    <2> HIDE DEF u
    <2> QED
      BY <2>1, <2>2, <2>3, SetOwnerKeepsGood, SetOwnerSets DEF Good
  <1>2. CASE adoptNode(t, doc, n).outcome # "returns"
    BY <1>2, AdoptNodeEnds
  <1> QED
    BY <1>1, <1>2

\* The same for parent.ownerDocument:adoptNode(node).
LEMMA AdoptForEnds ==
    ASSUME NEW t, NEW parent, NEW n
    PROVE  /\ AdoptFor(t, parent, n).outcome \in {"returns", "raises", "hangs"}
           /\ AdoptFor(t, parent, n).outcome # "returns" => AdoptFor(t, parent, n).nodes = t
           /\ AdoptFor(t, parent, n).outcome = "returns" =>
                 /\ ~ownerDocumentHangs(t, parent) /\ ownerDocument(t, parent) # NULL
                 /\ AdoptFor(t, parent, n) = adoptNode(t, ownerDocument(t, parent), n)
  BY AdoptNodeEnds DEF AdoptFor, Raised, Hung, Result

\* When it returns the node is in no list, and the parent is no document.
LEMMA AdoptForTakesOut ==
    ASSUME NEW t, Good(t), NEW parent \in DOMAIN t, NEW n \in DOMAIN t,
           AdoptFor(t, parent, n).outcome = "returns",
           t[n].type = "doctype" => t[parent].type = "document"
    PROVE  /\ TakenOut(t, AdoptFor(t, parent, n).nodes, n)
           /\ t[parent].type # "document" /\ t[n].type # "doctype" /\ t[n].type # "document"
  <1> DEFINE doc == ownerDocument(t, parent)
             u   == remove(t, n).nodes
  <1>1. ~ownerDocumentHangs(t, parent) /\ doc # NULL /\ AdoptFor(t, parent, n) = adoptNode(t, doc, n)
    BY AdoptForEnds
  <1>2. IsDom(t)
    BY DEF Good
  <1>3. doc \in 0 .. Len(t) /\ t[parent].type # "document"
    BY <1>1, <1>2, OwnerIsANode
  <1> HIDE DEF doc
  <1>4. /\ t[n].type # "document" /\ remove(t, n).outcome = "returns"
        /\ AdoptFor(t, parent, n).nodes = SetOwner(u, n, doc)
    BY <1>1, AdoptNodeEnds
  <1>5. t[n].type # "doctype"
    BY <1>3
  <1>6. TakenOut(t, u, n)
    BY <1>4, <1>5, RemoveTakesOut
  <1>7. IsDom(u) /\ Len(u) = Len(t) /\ DOMAIN u = DOMAIN t /\ u[n].type # "document"
    BY <1>2, <1>4, <1>6, DomFields DEF TakenOut
  <1> HIDE DEF u
  <1> DEFINE w == SetOwner(u, n, doc)
  <1>8. /\ IsDom(w) /\ Len(w) = Len(t)
        /\ \A m \in DOMAIN t :
              /\ w[m].type = u[m].type /\ w[m].parent = u[m].parent /\ w[m].kids = u[m].kids
              /\ m # n => w[m].own = u[m].own
    BY <1>3, <1>7, SetOwnerSets
  <1> HIDE DEF w
  <1>9. TakenOut(t, w, n)
    BY <1>6, <1>8 DEF TakenOut
  <1> QED
    BY <1>3, <1>4, <1>5, <1>9 DEF w

-----------------------------------------------------------------------------
(***************************************************************************)
(* A node that is in no list is put into one.                              *)
(***************************************************************************)
Placed(t, u, parent, n, at) ==
    /\ IsDom(u) /\ Len(u) = Len(t) /\ DOMAIN u = DOMAIN t
    /\ \A m \in DOMAIN t :
          /\ u[m].type = t[m].type /\ u[m].own = t[m].own
          /\ u[m].kids = IF m = parent THEN InsertAt(t[parent].kids, at, n) ELSE t[m].kids
          /\ u[m].parent = IF m = n THEN parent ELSE t[m].parent

LEMMA PlacingSets ==
    ASSUME NEW t, IsDom(t), NEW parent \in DOMAIN t, NEW n \in DOMAIN t, parent # n,
           NEW at, at \in 1 .. Len(t[parent].kids) + 1
    PROVE  Placed(t, [t EXCEPT ![parent].kids = InsertAt(@, at, n), ![n].parent = parent],
                  parent, n, at)
  <1> DEFINE kids == InsertAt(t[parent].kids, at, n)
             u == [t EXCEPT ![parent].kids = kids, ![n].parent = parent]
  <1>1. /\ t \in Seq(DomNodes(Len(t))) /\ DOMAIN t = 1 .. Len(t) /\ Len(t) \in Nat
        /\ \A m \in DOMAIN t : t[m] \in DomNodes(Len(t)) /\ t[m].kids \in Seq(DOMAIN t)
    BY DomFields DEF IsDom
  <1>2. kids \in Seq(DOMAIN t)
    BY <1>1, InsertAtProperties
  <1> HIDE DEF kids
  <1>3. ASSUME NEW m \in DOMAIN t
        PROVE  /\ u[m] \in DomNodes(Len(t))
               /\ u[m].type = t[m].type /\ u[m].own = t[m].own
               /\ u[m].kids = IF m = parent THEN kids ELSE t[m].kids
               /\ u[m].parent = IF m = n THEN parent ELSE t[m].parent
    <2>1. parent \in 0 .. Len(t) /\ kids \in Seq(1 .. Len(t)) /\ t[m] \in DomNodes(Len(t))
      BY <1>1, <1>2
    <2>2. CASE m = parent
      BY <2>1, <2>2 DEF DomNodes
    <2>3. CASE m = n
      BY <2>1, <2>3 DEF DomNodes
    <2>4. CASE m # n /\ m # parent
      BY <2>1, <2>4 DEF DomNodes
    <2> QED
      BY <2>2, <2>3, <2>4
  <1>4. u = [m \in 1 .. Len(t) |-> u[m]] /\ DOMAIN u = DOMAIN t
    BY <1>1
  <1> HIDE DEF u
  <1>5. u \in Seq(DomNodes(Len(t))) /\ Len(u) = Len(t)
    BY <1>1, <1>3, <1>4
  <1>6. IsDom(u)
    BY <1>3, <1>4, <1>5 DEF IsDom
  <1>7. Placed(t, u, parent, n, at)
    BY <1>3, <1>4, <1>5, <1>6 DEF Placed, kids
  <1> QED
    BY <1>7 DEF u, kids

(***************************************************************************)
(* A set of which every node has a child in it would be one before, when   *)
(* the nodes above parent are left out of it: n is not one of these, or it *)
(* has no children.                                                        *)
(***************************************************************************)
LEMMA PlacingKeepsGood ==
    ASSUME NEW t, Good(t), NEW parent \in DOMAIN t, NEW n \in DOMAIN t, parent # n,
           NEW at, at \in 1 .. Len(t[parent].kids) + 1,
           implementsParentNode(t[parent]), implementsChildNode(t[n]), t[n].type # "doctype",
           \A m \in DOMAIN t : n \notin ToSet(t[m].kids),
           t[n].kids = <<>> \/ n \notin Ancestors(t, parent),
           NEW u, Placed(t, u, parent, n, at)
    PROVE  Good(u)
  <1>0. IsDom(t) /\ Listed(t) /\ Founded(t) /\ IsDom(u) /\ DOMAIN u = DOMAIN t
    BY DEF Good, Placed
  <1>1. \A m \in DOMAIN t :
           /\ t[m].kids \in Seq(DOMAIN t) /\ IsInjective(t[m].kids)
           /\ ToSet(t[m].kids) \subseteq DOMAIN t
    BY <1>0, DomFields DEF Listed
  <1> DEFINE kids == InsertAt(t[parent].kids, at, n)
  <1>2. IsInjective(kids) /\ ToSet(kids) = ToSet(t[parent].kids) \cup {n}
    <2> DEFINE s == t[parent].kids
               D == DOMAIN t
    <2>1. s \in Seq(D) /\ IsInjective(s) /\ n \in D /\ n \notin ToSet(s) /\ at \in 1 .. (Len(s) + 1)
      BY <1>1
    <2> HIDE DEF s, D
    <2>2. IsInjective(InsertAt(s, at, n)) /\ ToSet(InsertAt(s, at, n)) = ToSet(s) \cup {n}
      BY ONLY <2>1, InsertAtOnce
    <2> QED
      BY <2>2 DEF s
  <1> HIDE DEF kids
  <1>3. ASSUME NEW m \in DOMAIN t
        PROVE  /\ u[m].type = t[m].type /\ IsInjective(u[m].kids)
               /\ u[m].parent = IF m = n THEN parent ELSE t[m].parent
               /\ ToSet(u[m].kids) = IF m = parent THEN ToSet(t[m].kids) \cup {n} ELSE ToSet(t[m].kids)
               /\ m # parent => u[m].kids = t[m].kids
    BY <1>1, <1>2 DEF Placed, kids
  <1>4. Listed(u)
    <2>1. ASSUME NEW m \in DOMAIN t, u[m].kids # <<>> PROVE implementsParentNode(u[m])
      <3>1. implementsParentNode(t[m])
        BY <1>0, <1>3, <2>1 DEF Listed
      <3> QED
        BY <1>3, <3>1 DEF implementsParentNode
    <2>2. ASSUME NEW m \in DOMAIN t, NEW k \in ToSet(u[m].kids)
          PROVE  /\ implementsChildNode(u[k])
                 /\ IF u[k].type = "doctype" THEN u[m].type = "document" ELSE u[k].parent = m
      <3>1. CASE k = n
        <4>1. m = parent
          BY <1>3, <3>1
        <4> QED
          BY <1>3, <3>1, <4>1 DEF implementsChildNode
      <3>2. CASE k # n
        <4>1. k \in ToSet(t[m].kids) /\ k \in DOMAIN t
          <5>1. ToSet(u[m].kids) \subseteq ToSet(t[m].kids) \cup {n}
            BY <1>3
          <5> QED
            BY <1>1, <3>2, <5>1
        <4>2. /\ implementsChildNode(t[k])
              /\ IF t[k].type = "doctype" THEN t[m].type = "document" ELSE t[k].parent = m
          BY <1>0, <4>1 DEF Listed
        <4> QED
          BY <1>3, <3>2, <4>1, <4>2 DEF implementsChildNode
      <3> QED
        BY <3>1, <3>2
    <2>3. ASSUME NEW m \in DOMAIN t, NEW k \in DOMAIN t \ {m}
          PROVE  ToSet(u[m].kids) \cap ToSet(u[k].kids) = {}
      <3>1. ToSet(t[m].kids) \cap ToSet(t[k].kids) = {}
        BY <1>0 DEF Listed
      <3>2. n \notin ToSet(t[m].kids) /\ n \notin ToSet(t[k].kids)
        OBVIOUS
      <3> QED
        BY <1>3, <3>1, <3>2
    <2> QED
      BY <1>0, <1>3, <2>1, <2>2, <2>3 DEF Listed
  <1>5. Founded(u)
    <2> SUFFICES ASSUME NEW S \in SUBSET DOMAIN t, S # {},
                        \A m \in S : ToSet(u[m].kids) \cap S # {}
                 PROVE  FALSE
      BY <1>0 DEF Founded
    <2> DEFINE above == Ancestors(t, parent)
               rest  == S \ above
    <2>1. /\ parent \in above /\ above \subseteq DOMAIN t
          /\ \A m \in above : t[m].parent \in above \cup {NULL}
      BY <1>0, Above
    <2> HIDE DEF above
    <2>2. ASSUME NEW m \in S PROVE t[m].type # "doctype"
      <3>1. CASE m = parent
        BY <3>1 DEF implementsParentNode
      <3>2. CASE m # parent
        <4>1. ToSet(t[m].kids) # {}
          BY <1>3, <3>2
        <4>2. t[m].kids # <<>>
          BY <1>1, <4>1, EmptyList
        <4> QED
          BY <1>0, <4>2 DEF Listed, implementsParentNode
      <3> QED
        BY <3>1, <3>2
    <2>3. ASSUME NEW m \in rest PROVE ToSet(t[m].kids) \cap rest # {}
      <3>1. m \in S /\ m # parent
        BY <2>1
      <3>2. PICK k \in S : k \in ToSet(t[m].kids)
        BY <1>3, <3>1
      <3>3. k \in DOMAIN t /\ t[k].parent = m
        BY <1>0, <1>1, <2>2, <3>1, <3>2 DEF Listed
      <3>4. NULL \notin DOMAIN t
        BY <1>0, DomFields
      <3>5. k \notin above
        BY <2>1, <3>1, <3>3, <3>4
      <3> QED
        BY <3>2, <3>5
    <2>4. rest = {}
      BY <1>0, <2>3 DEF Founded
    <2>5. n \notin S
      <3>1. CASE t[n].kids = <<>>
        <4>1. ToSet(t[n].kids) = {}
          BY <1>1, <3>1, EmptyList
        <4> QED
          BY <1>3, <4>1
      <3>2. CASE n \notin above
        BY <2>4, <3>2
      <3> QED
        BY <3>1, <3>2 DEF above
    <2>6. \A m \in S : ToSet(t[m].kids) \cap S # {}
      BY <1>3, <2>5
    <2> QED
      BY <1>0, <2>6 DEF Founded
  <1> QED
    BY <1>0, <1>4, <1>5 DEF Good

-----------------------------------------------------------------------------
(***************************************************************************)
(* insertBefore and appendChild, replaceChild.                             *)
(***************************************************************************)

\* What is known once the checks have passed.
LEMMA ValidSays ==
    ASSUME NEW t, NEW n, NEW parent, NEW child,
           ensurePreInsertionValidity(t, n, parent, child) = "returns"
    PROVE  /\ implementsParentNode(t[parent]) /\ implementsChildNode(t[n]) /\ parent # n
           /\ t[n].kids = <<>> \/ n \notin Ancestors(t, parent)
           /\ child = NULL \/ t[child].parent = parent
           /\ t[n].type = "doctype" => t[parent].type = "document"
  BY DEF ensurePreInsertionValidity, contains

LEMMA ValidEnds ==
    ASSUME NEW t, NEW n, NEW parent, NEW child
    PROVE  ensurePreInsertionValidity(t, n, parent, child) \in {"returns", "raises", "hangs"}
  BY DEF ensurePreInsertionValidity

\* Where preInsert puts a node into the list of parent in u.
PlaceFor(u, parent, ref) ==
    IF ref = NULL THEN Len(u[parent].kids) + 1 ELSE PositionIn(u[parent].kids, ref)

RefOf(t, n, child) == IF child = n THEN nextSibling(t, n) ELSE child

\* The two parts of preInsert: u is what adoption leaves, the node is put into it at PlaceFor.
LEMMA PreInsertParts ==
    ASSUME NEW t, Good(t), NEW n \in DOMAIN t, NEW parent \in DOMAIN t, NEW child,
           ensurePreInsertionValidity(t, n, parent, child) = "returns",
           AdoptFor(t, parent, n).outcome = "returns"
    PROVE  LET u  == AdoptFor(t, parent, n).nodes
               at == PlaceFor(u, parent, RefOf(t, n, child))
               r  == preInsert(t, n, parent, child)
           IN  /\ TakenOut(t, u, n) /\ Good(u)
               /\ t[parent].type # "document"
               /\ at = 0 => r.outcome = "raises" /\ r.nodes = u
               /\ at # 0 => /\ at \in 1 .. Len(u[parent].kids) + 1
                            /\ r.outcome = "returns"
                            /\ Placed(u, r.nodes, parent, n, at) /\ Good(r.nodes)
  <1> DEFINE u  == AdoptFor(t, parent, n).nodes
             at == PlaceFor(u, parent, RefOf(t, n, child))
             r  == preInsert(t, n, parent, child)
  <1>1. /\ implementsParentNode(t[parent]) /\ implementsChildNode(t[n]) /\ parent # n
        /\ t[n].kids = <<>> \/ n \notin Ancestors(t, parent)
        /\ t[n].type = "doctype" => t[parent].type = "document"
    BY ValidSays
  <1>2. TakenOut(t, u, n) /\ t[parent].type # "document" /\ t[n].type # "doctype"
    BY <1>1, AdoptForTakesOut
  <1>3. r = PlaceBefore(u, parent, n, RefOf(t, n, child))
    BY DEF preInsert, RefOf
  <1> HIDE DEF u
  <1>4. Good(u) /\ DOMAIN u = DOMAIN t /\ \A m \in DOMAIN u : n \notin ToSet(u[m].kids)
    BY <1>2, TakingOutKeepsGood
  <1>5. /\ r.outcome = IF at = 0 THEN "raises" ELSE "returns"
        /\ r.nodes = IF at = 0 THEN u
                     ELSE [u EXCEPT ![parent].kids = InsertAt(@, at, n), ![n].parent = parent]
    BY <1>3 DEF PlaceBefore, PlaceFor, Raised, Returned, Result
  <1>6. ASSUME at # 0 PROVE at \in 1 .. Len(u[parent].kids) + 1
    <2> DEFINE s == u[parent].kids
    <2>1. s \in Seq(DOMAIN u)
      BY <1>4, DomFields DEF Good
    <2> HIDE DEF s
    <2>2. Len(s) \in Nat
      BY <2>1
    <2>3. \A x : PositionIn(s, x) # 0 => PositionIn(s, x) \in 1 .. Len(s)
      BY <2>1, PositionInFinds
    <2>4. Len(s) + 1 \in 1 .. Len(s) + 1 /\ 1 .. Len(s) \subseteq 1 .. Len(s) + 1
      BY <2>2
    <2> QED
      BY <1>6, <2>3, <2>4 DEF PlaceFor, s
  <1>7. ASSUME at # 0 PROVE Placed(u, r.nodes, parent, n, at) /\ Good(r.nodes)
    <2>1. IsDom(u) /\ parent \in DOMAIN u /\ n \in DOMAIN u
      BY <1>4 DEF Good
    <2>2. at \in 1 .. Len(u[parent].kids) + 1
      BY <1>6, <1>7
    <2> HIDE DEF at
    <2>3. r.nodes = [u EXCEPT ![parent].kids = InsertAt(@, at, n), ![n].parent = parent]
      BY <1>5, <1>7
    <2>4. Placed(u, [u EXCEPT ![parent].kids = InsertAt(@, at, n), ![n].parent = parent],
                 parent, n, at)
      BY <1>1, <2>1, <2>2, PlacingSets
    <2> HIDE DEF r
    <2>5. Placed(u, r.nodes, parent, n, at)
      BY <2>3, <2>4
    <2>6. u[parent].type = t[parent].type /\ u[n].type = t[n].type
      BY <1>2 DEF TakenOut
    <2>7. implementsParentNode(u[parent]) /\ implementsChildNode(u[n]) /\ u[n].type # "doctype"
      BY <1>1, <1>2, <2>6 DEF implementsParentNode, implementsChildNode
    <2>8. u[n].kids = <<>> \/ n \notin Ancestors(u, parent)
      <3>1. CASE t[n].kids = <<>>
        <4>1. u[n].kids = Without(<<>>, n)
          BY <1>2, <3>1 DEF TakenOut
        <4>2. n \notin ToSet(<<>>)
          BY DEF ToSet
        <4> QED
          BY <4>1, <4>2 DEF Without
      <3>2. CASE n \notin Ancestors(t, parent)
        <4> DEFINE above == Ancestors(t, parent)
        <4>1. /\ parent \in above /\ above \subseteq DOMAIN t
              /\ \A m \in above : t[m].parent \in above \cup {NULL}
          BY Above DEF Good
        <4> HIDE DEF above
        <4>2. \A m \in above : u[m].parent \in above \cup {NULL}
          BY <1>2, <4>1 DEF TakenOut
        <4>3. Ancestors(u, parent) \subseteq above
          BY <1>4, <2>1, <4>1, <4>2, Above
        <4> QED
          BY <3>2, <4>3 DEF above
      <3> QED
        BY <1>1, <3>1, <3>2
    <2>9. Good(r.nodes)
      BY <1>1, <1>4, <2>1, <2>2, <2>5, <2>7, <2>8, PlacingKeepsGood
    <2> QED
      BY <2>5, <2>9
  <1> HIDE DEF r, at
  <1>8. /\ TakenOut(t, u, n) /\ Good(u) /\ t[parent].type # "document"
        /\ at = 0 => r.outcome = "raises" /\ r.nodes = u
        /\ at # 0 => /\ at \in 1 .. Len(u[parent].kids) + 1 /\ r.outcome = "returns"
                     /\ Placed(u, r.nodes, parent, n, at) /\ Good(r.nodes)
    BY <1>2, <1>4, <1>5, <1>6, <1>7
  <1> QED
    BY <1>8 DEF r, at, u

\* What it raises before that it raises on a table it has not changed.
LEMMA PreInsertEnds ==
    ASSUME NEW t, NEW n, NEW parent, NEW child,
           \/ ensurePreInsertionValidity(t, n, parent, child) # "returns"
           \/ AdoptFor(t, parent, n).outcome # "returns"
    PROVE  /\ preInsert(t, n, parent, child).nodes = t
           /\ preInsert(t, n, parent, child).outcome # "returns"
           /\ preInsert(t, n, parent, child).outcome =
                 IF ensurePreInsertionValidity(t, n, parent, child) # "returns"
                 THEN ensurePreInsertionValidity(t, n, parent, child)
                 ELSE AdoptFor(t, parent, n).outcome
  BY AdoptForEnds DEF preInsert, Result

LEMMA PreInsertKeepsGood ==
    ASSUME NEW t, Good(t), NEW n \in DOMAIN t, NEW parent \in DOMAIN t, NEW child
    PROVE  Good(preInsert(t, n, parent, child).nodes)
  <1>1. CASE /\ ensurePreInsertionValidity(t, n, parent, child) = "returns"
             /\ AdoptFor(t, parent, n).outcome = "returns"
    <2> DEFINE u  == AdoptFor(t, parent, n).nodes
               at == PlaceFor(u, parent, RefOf(t, n, child))
    <2>1. /\ Good(u) /\ (at = 0 => preInsert(t, n, parent, child).nodes = u)
          /\ (at # 0 => Good(preInsert(t, n, parent, child).nodes))
      BY <1>1, PreInsertParts
    <2> HIDE DEF at, u
    <2> QED
      BY <2>1
  <1>2. CASE ~(/\ ensurePreInsertionValidity(t, n, parent, child) = "returns"
               /\ AdoptFor(t, parent, n).outcome = "returns")
    BY <1>2, PreInsertEnds
  <1> QED
    BY <1>1, <1>2

LEMMA ReplaceChildKeepsGood ==
    ASSUME NEW t, Good(t), NEW parent \in DOMAIN t, NEW n \in DOMAIN t, NEW child \in DOMAIN t
    PROVE  Good(replaceChild(t, parent, n, child).nodes)
  <1> DEFINE u == AdoptFor(t, parent, n).nodes
             w == remove(u, child).nodes
             valid == ensurePreInsertionValidity(t, n, parent, child)
             ref == SiblingAfter(t, n, child)
  <1>1. CASE valid # "returns"
    BY <1>1 DEF replaceChild, Result
  <1>2. CASE valid = "returns" /\ AdoptFor(t, parent, n).outcome # "returns"
    BY <1>2, AdoptForEnds DEF replaceChild
  <1>3. CASE valid = "returns" /\ AdoptFor(t, parent, n).outcome = "returns"
    <2>1. t[n].type = "doctype" => t[parent].type = "document"
      BY <1>3, ValidSays
    <2>2. TakenOut(t, u, n)
      BY <1>3, <2>1, AdoptForTakesOut
    <2>3. \/ replaceChild(t, parent, n, child).nodes = w
          \/ replaceChild(t, parent, n, child) = preInsert(w, n, parent, ref)
      BY <1>3 DEF replaceChild
    <2> HIDE DEF u, ref
    <2>4. Good(u) /\ DOMAIN u = DOMAIN t
      BY <2>2, TakingOutKeepsGood
    <2>5. Good(w) /\ DOMAIN w = DOMAIN t
      BY <2>4, RemoveKeepsGood
    <2> HIDE DEF w
    <2>6. Good(preInsert(w, n, parent, ref).nodes)
      BY <2>5, PreInsertKeepsGood
    <2> QED
      BY <2>3, <2>5, <2>6
  <1> QED
    BY <1>1, <1>2, <1>3

-----------------------------------------------------------------------------
(***************************************************************************)
(* Nodes are added: one by the functions that create nodes, several by     *)
(* cloneNode.                                                              *)
(***************************************************************************)

\* In u are the nodes of c behind those of t.
IsLonger(t, u, c) ==
    /\ IsDom(u) /\ DOMAIN u = 1 .. (Len(t) + Len(c))
    /\ \A m \in DOMAIN t : m \in DOMAIN u /\ u[m] = t[m]
    /\ \A m \in DOMAIN u \ DOMAIN t : m - Len(t) \in DOMAIN c /\ u[m] = c[m - Len(t)]

LEMMA Longer ==
    ASSUME NEW t, IsDom(t), NEW c, c \in Seq(DomNodes(Len(t) + Len(c))),
           \A i \in DOMAIN c : c[i].type = "document" => c[i].own = NULL
    PROVE  IsLonger(t, t \o c, c)
  <1> DEFINE u == t \o c
             S == DomNodes(Len(t) + Len(c))
  <1>1. /\ Len(t) \in Nat /\ DOMAIN t = 1 .. Len(t) /\ Len(c) \in Nat /\ DOMAIN c = 1 .. Len(c)
        /\ t \in Seq(DomNodes(Len(t)))
    BY DomFields DEF IsDom
  <1>2. DomNodes(Len(t)) \subseteq S
    <2>1. 0 .. Len(t) \subseteq 0 .. Len(t) + Len(c) /\ 1 .. Len(t) \subseteq 1 .. Len(t) + Len(c)
      BY <1>1
    <2>2. Seq(1 .. Len(t)) \subseteq Seq(1 .. Len(t) + Len(c))
      BY <2>1
    <2> QED
      BY <2>1, <2>2 DEF DomNodes
  <1>3. t \in Seq(S) /\ c \in Seq(S)
    BY <1>1, <1>2
  <1> HIDE DEF S
  <1>4. /\ u \in Seq(S) /\ Len(u) = Len(t) + Len(c)
        /\ \A m \in 1 .. (Len(t) + Len(c)) : u[m] = IF m <= Len(t) THEN t[m] ELSE c[m - Len(t)]
    BY <1>3, ConcatProperties
  <1>5. DOMAIN u = 1 .. (Len(t) + Len(c))
    BY <1>1, <1>4
  <1> HIDE DEF u
  <1>6. ASSUME NEW m \in DOMAIN t PROVE m \in DOMAIN u /\ u[m] = t[m]
    <2>1. m \in 1 .. (Len(t) + Len(c)) /\ m <= Len(t)
      BY <1>1
    <2> QED
      BY <1>4, <1>5, <2>1
  <1>7. ASSUME NEW m \in DOMAIN u \ DOMAIN t PROVE m - Len(t) \in DOMAIN c /\ u[m] = c[m - Len(t)]
    <2>1. m \in 1 .. (Len(t) + Len(c)) /\ ~(m <= Len(t)) /\ m - Len(t) \in 1 .. Len(c)
      BY <1>1, <1>5
    <2> QED
      BY <1>1, <1>4, <2>1
  <1>8. ASSUME NEW m \in DOMAIN u, u[m].type = "document" PROVE u[m].own = NULL
    <2>1. CASE m \in DOMAIN t
      BY <1>6, <1>8, <2>1 DEF IsDom
    <2>2. CASE m \notin DOMAIN t
      BY <1>7, <1>8, <2>2
    <2> QED
      BY <2>1, <2>2
  <1>9. IsDom(u)
    BY <1>4, <1>8 DEF IsDom, S
  <1> QED
    BY <1>4, <1>5, <1>6, <1>7, <1>9 DEF u, IsLonger

\* If the old nodes stay as they are and the new ones list new ones only, and as they should.
LEMMA Extends ==
    ASSUME NEW t, Good(t), NEW u, IsDom(u), DOMAIN t \subseteq DOMAIN u,
           \A m \in DOMAIN t : u[m] = t[m],
           NEW new, new = DOMAIN u \ DOMAIN t,
           \A m \in new :
              /\ IsInjective(u[m].kids) /\ ToSet(u[m].kids) \subseteq new
              /\ u[m].kids # <<>> => implementsParentNode(u[m])
              /\ \A k \in ToSet(u[m].kids) :
                    implementsChildNode(u[k]) /\ u[k].type # "doctype" /\ u[k].parent = m,
           \A S \in SUBSET new : S # {} => \E m \in S : ToSet(u[m].kids) \cap S = {}
    PROVE  Good(u)
  <1>1. IsDom(t) /\ Listed(t) /\ Founded(t)
    BY DEF Good
  <1>2. \A m \in DOMAIN t : ToSet(t[m].kids) \subseteq DOMAIN t
    BY <1>1, DomFields
  <1>3. Listed(u)
    <2>1. ASSUME NEW m \in DOMAIN u
          PROVE  /\ IsInjective(u[m].kids)
                 /\ u[m].kids # <<>> => implementsParentNode(u[m])
                 /\ \A k \in ToSet(u[m].kids) :
                       /\ implementsChildNode(u[k])
                       /\ IF u[k].type = "doctype" THEN u[m].type = "document" ELSE u[k].parent = m
      <3>1. CASE m \in DOMAIN t
        <4>1. u[m] = t[m] /\ \A k \in ToSet(t[m].kids) : u[k] = t[k]
          BY <1>2, <3>1
        <4> QED
          BY <1>1, <3>1, <4>1 DEF Listed
      <3>2. CASE m \in new
        BY <3>2
      <3> QED
        BY <3>1, <3>2
    <2>2. ASSUME NEW m \in DOMAIN u, NEW k \in DOMAIN u \ {m}
          PROVE  ToSet(u[m].kids) \cap ToSet(u[k].kids) = {}
      <3>1. CASE m \in DOMAIN t /\ k \in DOMAIN t
        BY <1>1, <3>1 DEF Listed
      <3>2. CASE m \in new /\ k \in new
        BY <3>2
      <3>3. CASE m \in DOMAIN t /\ k \in new
        BY <1>2, <3>3
      <3>4. CASE m \in new /\ k \in DOMAIN t
        BY <1>2, <3>4
      <3> QED
        BY <3>1, <3>2, <3>3, <3>4
    <2> QED
      BY <2>1, <2>2 DEF Listed
  <1>4. Founded(u)
    <2> SUFFICES ASSUME NEW S \in SUBSET DOMAIN u, S # {},
                        \A m \in S : ToSet(u[m].kids) \cap S # {}
                 PROVE  FALSE
      BY DEF Founded
    <2>1. ASSUME NEW m \in S \cap DOMAIN t PROVE ToSet(t[m].kids) \cap (S \cap DOMAIN t) # {}
      BY <1>2
    <2>2. S \cap DOMAIN t = {}
      <3> DEFINE R == S \cap DOMAIN t
      <3>1. R \in SUBSET DOMAIN t /\ \A m \in R : ToSet(t[m].kids) \cap R # {}
        BY <2>1
      <3> HIDE DEF R
      <3>2. R = {}
        BY <1>1, <3>1 DEF Founded
      <3> QED
        BY <3>2 DEF R
    <2>3. S \in SUBSET new
      BY <2>2
    <2> QED
      BY <2>3
  <1> QED
    BY <1>3, <1>4 DEF Good

LEMMA CreatingKeepsGood ==
    ASSUME NEW t, Good(t), NEW type \in {"element", "text"}, NEW own \in 0 .. Len(t)
    PROVE  /\ Good(Append(t, DomNode(type, own)))
           /\ Len(t) + 1 \in DOMAIN Append(t, DomNode(type, own))
           /\ DOMAIN t \subseteq DOMAIN Append(t, DomNode(type, own))
  <1> DEFINE x == DomNode(type, own)
             c == <<x>>
             u == t \o c
  <1>1. IsDom(t) /\ Len(t) \in Nat /\ DOMAIN t = 1 .. Len(t)
    BY DomFields DEF Good
  <1>2. Append(t, x) = u
    BY <1>1 DEF IsDom
  <1>3. x.kids = <<>> /\ x.type = type /\ x \in DomNodes(Len(t) + 1)
    <2>1. <<>> \in Seq(1 .. Len(t) + 1) /\ NULL \in 0 .. Len(t) + 1 /\ own \in 0 .. Len(t) + 1
      BY <1>1 DEF NULL
    <2> QED
      BY <2>1 DEF DomNode, DomNodes
  <1> HIDE DEF x
  <1>4. Len(c) = 1 /\ DOMAIN c = {1} /\ c[1] = x /\ c \in Seq(DomNodes(Len(t) + 1))
    BY <1>3
  <1> HIDE DEF c
  <1>5. /\ IsDom(u) /\ DOMAIN u = 1 .. (Len(t) + 1)
        /\ \A m \in DOMAIN t : m \in DOMAIN u /\ u[m] = t[m]
        /\ \A m \in DOMAIN u \ DOMAIN t : m - Len(t) \in DOMAIN c /\ u[m] = c[m - Len(t)]
    <2>1. c \in Seq(DomNodes(Len(t) + Len(c)))
      BY <1>4
    <2>2. \A i \in DOMAIN c : c[i].type = "document" => c[i].own = NULL
      BY <1>3, <1>4
    <2>3. IsLonger(t, u, c)
      BY <1>1, <2>1, <2>2, Longer
    <2> QED
      BY <1>4, <2>3 DEF IsLonger
  <1> HIDE DEF u
  <1> DEFINE new == DOMAIN u \ DOMAIN t
  <1>6. \A m \in new : u[m].kids = <<>>
    BY <1>3, <1>4, <1>5
  <1>7. ToSet(<<>>) = {} /\ IsInjective(<<>>)
    BY DEF ToSet, IsInjective
  <1>8. Good(u)
    <2>1. /\ \A m \in new :
              /\ IsInjective(u[m].kids) /\ ToSet(u[m].kids) \subseteq new
              /\ u[m].kids # <<>> => implementsParentNode(u[m])
              /\ \A k \in ToSet(u[m].kids) :
                    implementsChildNode(u[k]) /\ u[k].type # "doctype" /\ u[k].parent = m
          /\ \A S \in SUBSET new : S # {} => \E m \in S : ToSet(u[m].kids) \cap S = {}
      BY <1>6, <1>7
    <2>2. DOMAIN t \subseteq DOMAIN u /\ \A m \in DOMAIN t : u[m] = t[m]
      BY <1>5
    <2> QED
      BY <1>5, <2>1, <2>2, Extends
  <1>9. Len(t) + 1 \in DOMAIN u /\ DOMAIN t \subseteq DOMAIN u
    BY <1>1, <1>5
  <1> QED
    BY <1>2, <1>8, <1>9 DEF x

\* A list is emptied.
LEMMA ClearingKeepsGood ==
    ASSUME NEW t, Good(t), NEW n \in DOMAIN t
    PROVE  LET u == [t EXCEPT ![n].kids = <<>>]
           IN  /\ Good(u) /\ Len(u) = Len(t) /\ DOMAIN u = DOMAIN t
               /\ \A m \in DOMAIN t :
                     /\ u[m].type = t[m].type /\ u[m].own = t[m].own /\ u[m].parent = t[m].parent
                     /\ u[m].kids = IF m = n THEN <<>> ELSE t[m].kids
  <1> DEFINE cleared == [t EXCEPT ![n].kids = <<>>]
  <1>1. /\ IsDom(t) /\ Len(t) \in Nat /\ DOMAIN t = 1 .. Len(t)
        /\ \A m \in DOMAIN t : t[m] \in DomNodes(Len(t))
    BY DomFields DEF Good
  <1>2. ASSUME NEW m \in DOMAIN t
        PROVE  /\ cleared[m] \in DomNodes(Len(t))
               /\ cleared[m].type = t[m].type /\ cleared[m].own = t[m].own
               /\ cleared[m].parent = t[m].parent
               /\ cleared[m].kids = IF m = n THEN <<>> ELSE t[m].kids
    <2>1. t[m] \in DomNodes(Len(t)) /\ <<>> \in Seq(1 .. Len(t))
      BY <1>1
    <2> QED
      BY <2>1 DEF DomNodes
  <1>3. DOMAIN cleared = DOMAIN t /\ cleared = [m \in 1 .. Len(t) |-> cleared[m]]
    BY <1>1
  <1> HIDE DEF cleared
  <1>4. Len(cleared) = Len(t) /\ cleared \in Seq(DomNodes(Len(t)))
    BY <1>1, <1>2, <1>3
  <1>5. IsDom(cleared)
    BY <1>1, <1>2, <1>3, <1>4 DEF IsDom
  <1>6. ToSet(<<>>) = {} /\ IsInjective(<<>>)
    BY DEF ToSet, IsInjective
  <1>7. Good(cleared)
    <2>1. ASSUME NEW m \in DOMAIN t
          PROVE  /\ cleared[m].type = t[m].type
                 /\ IsInjective(cleared[m].kids) /\ ToSet(cleared[m].kids) \subseteq ToSet(t[m].kids)
                 /\ \A k \in ToSet(cleared[m].kids) : cleared[k].parent = t[k].parent
      <3>1. IsInjective(t[m].kids) /\ ToSet(t[m].kids) \subseteq DOMAIN t
        BY <1>1, DomFields DEF Good, Listed
      <3> QED
        BY <1>2, <1>6, <3>1
    <2> QED
      BY <1>4, <1>5, <2>1, Shrinks
  <1> QED
    BY <1>2, <1>3, <1>4, <1>7 DEF cleared

LEMMA SetTextContentKeepsGood ==
    ASSUME NEW t, Good(t), NEW n \in DOMAIN t, NEW hasValue
    PROVE  Good(setTextContent(t, n, hasValue).nodes)
  <1> DEFINE cleared == [t EXCEPT ![n].kids = <<>>]
             text == DomNode("text", ownerDocument(cleared, n))
             added == Append(cleared, text)
  <1>1. Good(cleared) /\ Len(cleared) = Len(t) /\ DOMAIN cleared = DOMAIN t
    BY ClearingKeepsGood
  <1> HIDE DEF cleared
  <1>2. ASSUME ~ownerDocumentHangs(cleared, n) PROVE Good(preInsert(added, Len(t) + 1, n, NULL).nodes)
    <2>1. ownerDocument(cleared, n) \in 0 .. Len(cleared)
      BY <1>1, <1>2, OwnerIsANode DEF Good
    <2>2. /\ Good(added) /\ Len(t) + 1 \in DOMAIN added /\ n \in DOMAIN added
      BY <1>1, <2>1, CreatingKeepsGood
    <2> HIDE DEF added
    <2> QED
      BY <2>2, PreInsertKeepsGood
  <1>3. setTextContent(t, n, hasValue) =
           IF t[n].type \notin {"element", "fragment"} THEN Returned(t)
           ELSE IF ~hasValue THEN Returned(cleared)
           ELSE IF ownerDocumentHangs(cleared, n) THEN Hung(cleared)
           ELSE IF ownerDocument(cleared, n) = NULL THEN Raised(cleared)
           ELSE preInsert(added, Len(t) + 1, n, NULL)
    BY DEF setTextContent, cleared
  <1> HIDE DEF added
  <1> QED
    BY <1>1, <1>2, <1>3 DEF Returned, Raised, Hung, Result

\* A set of nodes in one order or other.
LEMMA InSomeOrder ==
    ASSUME NEW S, IsFiniteSet(S)
    PROVE  SetToSeq(S) \in Seq(S) /\ IsInjective(SetToSeq(S)) /\ ToSet(SetToSeq(S)) = S
  <1> DEFINE N == Cardinality(S)
             s == SetToSeq(S)
  <1>1. N \in Nat /\ ExistsBijection(1 .. N, S)
    BY FS_CardinalityType
  <1>2. \E f \in [1 .. N -> S] : IsInjective(f)
    BY <1>1 DEF ExistsBijection, Bijection, Injection, IsInjective
  <1>3. s \in [1 .. N -> S] /\ IsInjective(s)
    BY <1>2 DEF SetToSeq
  <1>4. s \in Injection(1 .. N, S)
    BY <1>3 DEF Injection
  <1>5. Cardinality(1 .. N) = N
    <2>1. Cardinality(1 .. N) = IF 1 > N THEN 0 ELSE N - 1 + 1
      BY <1>1, FS_Interval
    <2> QED
      BY <1>1, <2>1
  <1> HIDE DEF s, N
  <1>6. s \in Surjection(1 .. N, S)
    <2>1. N = Cardinality(S)
      BY DEF N
    <2> QED
      BY <1>4, <1>5, <2>1, FS_Injection
  <1>7. \A x \in S : \E i \in 1 .. N : s[i] = x
    BY <1>6 DEF Surjection
  <1>8. ToSet(s) = S /\ s \in Seq(S)
    BY <1>1, <1>3, <1>7 DEF ToSet
  <1> QED
    BY <1>3, <1>8 DEF s

\* Clones of the nodes in c, with the fields that f has for them.
Clones(c, f, n, id) == [i \in DOMAIN c |-> CloneOf(f, c[i], n, id)]

LEMMA CloneFields ==
    ASSUME NEW f, NEW m, NEW n, NEW id
    PROVE  LET x == CloneOf(f, m, n, id)
           IN  /\ x.type = f[m].type
               /\ x.own = IF f[m].type = "element" THEN ownerDocument(f, m) ELSE NULL
               /\ x.parent = IF m = n THEN NULL ELSE id[f[m].parent]
               /\ x.kids = [i \in DOMAIN f[m].kids |-> id[f[m].kids[i]]]
               /\ x = [type |-> x.type, own |-> x.own, parent |-> x.parent, kids |-> x.kids]
  <1> DEFINE own    == IF f[m].type = "element" THEN ownerDocument(f, m) ELSE NULL
             parent == IF m = n THEN NULL ELSE id[f[m].parent]
             kids   == [i \in DOMAIN f[m].kids |-> id[f[m].kids[i]]]
             type   == f[m].type
  <1>1. CloneOf(f, m, n, id) = [DomNode(type, own) EXCEPT !.parent = parent, !.kids = kids]
    BY DEF CloneOf
  <1> HIDE DEF own, parent, kids, type
  <1>2. CloneOf(f, m, n, id) = [type |-> type, own |-> own, parent |-> parent, kids |-> kids]
    BY <1>1 DEF DomNode
  <1> QED
    BY <1>2 DEF own, parent, kids, type

\* The clones of the nodes in c are numbered from L + 1 on.
Numbers(id, c, L) ==
    /\ \A m \in ToSet(c) :
          /\ id[m] \in L + 1 .. L + Len(c) /\ id[m] - L \in 1 .. Len(c) /\ c[id[m] - L] = m
    /\ \A i \in 1 .. Len(c) : c[i] \in ToSet(c) /\ id[c[i]] = L + i
    /\ \A m, k \in ToSet(c) : id[m] = id[k] => m = k

LEMMA Numbering ==
    ASSUME NEW S, NEW c \in Seq(S), IsInjective(c), NEW L \in Nat
    PROVE  Numbers([m \in ToSet(c) |-> L + PositionIn(c, m)], c, L)
  <1> DEFINE id == [m \in ToSet(c) |-> L + PositionIn(c, m)]
  <1>1. Len(c) \in Nat /\ DOMAIN c = 1 .. Len(c)
    OBVIOUS
  <1>2. \A i \in 1 .. Len(c) : c[i] \in ToSet(c) /\ PositionIn(c, c[i]) = i
    BY <1>1, PositionInOnce DEF ToSet
  <1>3. \A m \in ToSet(c) : PositionIn(c, m) \in 1 .. Len(c) /\ c[PositionIn(c, m)] = m
    BY PositionInFinds
  <1>4. \A m \in ToSet(c) : id[m] = L + PositionIn(c, m)
    OBVIOUS
  <1> HIDE DEF id
  <1>5. ASSUME NEW m \in ToSet(c)
        PROVE  id[m] \in L + 1 .. L + Len(c) /\ id[m] - L \in 1 .. Len(c) /\ c[id[m] - L] = m
    <2>1. PositionIn(c, m) \in 1 .. Len(c) /\ id[m] = L + PositionIn(c, m)
      BY <1>3, <1>4
    <2>2. id[m] - L = PositionIn(c, m)
      BY <1>1, <2>1
    <2>3. id[m] \in L + 1 .. L + Len(c)
      BY <1>1, <2>1
    <2> QED
      BY <1>3, <2>1, <2>2, <2>3
  <1>6. \A m, k \in ToSet(c) : id[m] = id[k] => m = k
    BY <1>5
  <1>7. \A i \in 1 .. Len(c) : c[i] \in ToSet(c) /\ id[c[i]] = L + i
    BY <1>2, <1>4
  <1> QED
    BY <1>5, <1>6, <1>7 DEF Numbers, id

(***************************************************************************)
(* What cloneNode copies: a set C of nodes that lists only nodes of the    *)
(* set, but not n, and no doctypes; all but n have their parent in it.     *)
(***************************************************************************)
Cloneable(f, C, n) ==
    /\ n \in C /\ C \subseteq DOMAIN f
    /\ \A m \in C :
          /\ implementsChildNode(f[m])
          /\ ToSet(f[m].kids) \subseteq C \ {n}
          /\ \A k \in ToSet(f[m].kids) : f[k].type # "doctype" /\ f[k].parent = m
          /\ m # n => f[m].parent \in C
          /\ f[m].type = "element" => ownerDocument(f, m) \in 0 .. Len(f)

\* A clone x of m: a node of a table of that size, which lists the clones of the children.
IsClone(x, f, m, n, id, size) ==
    /\ x \in DomNodes(size) /\ x.type = f[m].type /\ x.type # "document"
    /\ x.parent = IF m = n THEN NULL ELSE id[f[m].parent]
    /\ IsInjective(x.kids) /\ ToSet(x.kids) = {id[k] : k \in ToSet(f[m].kids)}
    /\ x.kids # <<>> => f[m].kids # <<>>

LEMMA CloneIsNode ==
    ASSUME NEW f, Good(f), NEW c, c \in Seq(DOMAIN f), IsInjective(c), NEW n,
           Cloneable(f, ToSet(c), n), NEW id, Numbers(id, c, Len(f)), NEW m \in ToSet(c)
    PROVE  IsClone(CloneOf(f, m, n, id), f, m, n, id, Len(f) + Len(c))
  <1> DEFINE x == CloneOf(f, m, n, id)
             s == f[m].kids
             N == Len(f) + Len(c)
             C == ToSet(c)
  <1>1. /\ IsDom(f) /\ Listed(f) /\ Len(f) \in Nat /\ DOMAIN f = 1 .. Len(f)
        /\ Len(c) \in Nat /\ DOMAIN c = 1 .. Len(c) /\ m \in DOMAIN f
    BY DomFields DEF Good, Cloneable
  <1>2. /\ x.type = f[m].type
        /\ x.own = IF f[m].type = "element" THEN ownerDocument(f, m) ELSE NULL
        /\ x.parent = IF m = n THEN NULL ELSE id[f[m].parent]
        /\ x.kids = [i \in DOMAIN s |-> id[s[i]]]
        /\ x = [type |-> x.type, own |-> x.own, parent |-> x.parent, kids |-> x.kids]
    BY CloneFields
  <1> HIDE DEF x
  <1>3. s \in Seq(DOMAIN f) /\ IsInjective(s) /\ f[m] \in DomNodes(Len(f))
    BY <1>1, DomFields DEF Listed
  <1>4. /\ implementsChildNode(f[m]) /\ ToSet(s) \subseteq C
        /\ m # n => f[m].parent \in C
        /\ f[m].type = "element" => ownerDocument(f, m) \in 0 .. Len(f)
    BY DEF Cloneable
  <1>5. DOMAIN s = 1 .. Len(s) /\ Len(s) \in Nat /\ \A i \in DOMAIN s : s[i] \in C
    <2>1. \A i \in DOMAIN s : s[i] \in ToSet(s)
      BY DEF ToSet
    <2> QED
      BY <1>3, <1>4, <2>1
  <1>6. \A k \in C : id[k] \in 1 .. N /\ id[k] \in 0 .. N
    <2>1. ASSUME NEW k \in C PROVE id[k] \in 1 .. N /\ id[k] \in 0 .. N
      <3>1. id[k] \in Len(f) + 1 .. Len(f) + Len(c)
        BY DEF Numbers
      <3> QED
        BY <1>1, <3>1
    <2> QED
      BY <2>1
  <1>7. NULL \in 0 .. N /\ 0 .. Len(f) \subseteq 0 .. N
    BY <1>1 DEF NULL
  <1>8. \A j, k \in C : id[j] = id[k] => j = k
    BY DEF Numbers
  <1> HIDE DEF s, N, C
  <1>9. f[m].type \in {"document", "element", "text", "doctype", "fragment"} /\ f[m].type # "document"
    BY <1>3, <1>4 DEF DomNodes, implementsChildNode
  <1>10. x.own \in 0 .. N
    BY <1>2, <1>4, <1>7
  <1>11. x.parent \in 0 .. N
    BY <1>2, <1>4, <1>6, <1>7
  <1>12. x.kids \in Seq(1 .. N)
    <2>1. \A i \in DOMAIN s : id[s[i]] \in 1 .. N
      BY <1>5, <1>6
    <2> QED
      BY <1>2, <1>5, <2>1
  <1>13. x \in DomNodes(N)
    BY <1>2, <1>9, <1>10, <1>11, <1>12 DEF DomNodes
  <1>14. IsInjective(x.kids)
    BY <1>2, <1>3, <1>5, <1>8 DEF IsInjective
  <1>15. ToSet(x.kids) = {id[k] : k \in ToSet(s)}
    BY <1>2 DEF ToSet
  <1>16. x.kids # <<>> => s # <<>>
    BY <1>2
  <1> QED
    BY <1>2, <1>9, <1>13, <1>14, <1>15, <1>16 DEF x, s, N, IsClone

\* The table with the clones of the nodes in c behind its own.
LEMMA CloningKeepsGood ==
    ASSUME NEW t, Good(t), NEW f, Good(f), Len(f) = Len(t), NEW n,
           NEW c, c \in Seq(DOMAIN t), IsInjective(c), Cloneable(f, ToSet(c), n),
           NEW id, Numbers(id, c, Len(t))
    PROVE  Good(t \o Clones(c, f, n, id))
  <1> DEFINE L == Len(t)
             K == Len(c)
             C == ToSet(c)
             d == Clones(c, f, n, id)
             u == t \o d
             x(m) == CloneOf(f, m, n, id)
  <1>1. /\ IsDom(t) /\ L \in Nat /\ DOMAIN t = 1 .. L /\ DOMAIN f = 1 .. L
        /\ Listed(f) /\ Founded(f) /\ K \in Nat /\ DOMAIN c = 1 .. K
    BY DomFields DEF Good
  <1>0. \A m \in C : IsClone(x(m), f, m, n, id, L + K)
    BY CloneIsNode
  <1>2. \A m \in C :
           /\ x(m) \in DomNodes(L + K) /\ x(m).type = f[m].type /\ x(m).type # "document"
           /\ x(m).parent = IF m = n THEN NULL ELSE id[f[m].parent]
           /\ IsInjective(x(m).kids) /\ ToSet(x(m).kids) = {id[k] : k \in ToSet(f[m].kids)}
           /\ x(m).kids # <<>> => f[m].kids # <<>>
    <2> HIDE DEF x, C, L, K
    <2> QED
      BY <1>0 DEF IsClone
  <1>3. /\ \A m \in C : id[m] \in L + 1 .. L + K /\ id[m] - L \in 1 .. K /\ c[id[m] - L] = m
        /\ \A i \in 1 .. K : c[i] \in C /\ id[c[i]] = L + i
    BY DEF Numbers
  <1>4. C \subseteq DOMAIN f /\ n \in C
    BY DEF Cloneable
  <1>5. \A m \in C :
          /\ implementsChildNode(f[m])
          /\ ToSet(f[m].kids) \subseteq C \ {n}
          /\ \A k \in ToSet(f[m].kids) : f[k].type # "doctype" /\ f[k].parent = m
    BY DEF Cloneable
  <1>6. \A m \in C : f[m].kids # <<>> => implementsParentNode(f[m])
    BY <1>1, <1>4 DEF Listed
  <1> HIDE DEF x, C
  <1>7. Len(d) = K /\ DOMAIN d = 1 .. K /\ \A i \in 1 .. K : d[i] = x(c[i])
    BY <1>1 DEF Clones, x
  <1>8. d \in Seq(DomNodes(L + K))
    <2>1. \A i \in 1 .. K : d[i] \in DomNodes(L + K)
      BY <1>2, <1>3, <1>7
    <2>2. d = [i \in 1 .. K |-> d[i]]
      BY <1>1 DEF Clones
    <2>3. K \in Nat
      BY <1>1
    <2> HIDE DEF d, K, L
    <2>4. d \in [1 .. K -> DomNodes(L + K)]
      BY <2>1, <2>2
    <2> QED
      BY <2>3, <2>4, SeqDef
  <1> HIDE DEF d
  <1>9. /\ IsDom(u) /\ DOMAIN u = 1 .. L + K
        /\ \A m \in DOMAIN t : m \in DOMAIN u /\ u[m] = t[m]
        /\ \A m \in DOMAIN u \ DOMAIN t : m - L \in DOMAIN d /\ u[m] = d[m - L]
    <2>1. d \in Seq(DomNodes(Len(t) + Len(d)))
      BY <1>7, <1>8
    <2>2. \A i \in DOMAIN d : d[i].type = "document" => d[i].own = NULL
      BY <1>2, <1>3, <1>7
    <2>3. IsLonger(t, u, d)
      BY <1>1, <2>1, <2>2, Longer
    <2> QED
      BY <1>7, <2>3 DEF IsLonger
  <1> HIDE DEF u
  <1> DEFINE new == DOMAIN u \ DOMAIN t
             orig(k) == c[k - L]
  <1>10. ASSUME NEW k \in new PROVE orig(k) \in C /\ id[orig(k)] = k /\ u[k] = x(orig(k))
    <2>1. k - L \in 1 .. K /\ u[k] = d[k - L] /\ L + (k - L) = k
      BY <1>1, <1>7, <1>9
    <2> QED
      BY <1>3, <1>7, <2>1
  <1>11. ASSUME NEW m \in C PROVE id[m] \in new /\ orig(id[m]) = m
    <2>1. id[m] \in L + 1 .. L + K
      BY <1>3
    <2>2. id[m] \in 1 .. L + K /\ id[m] \notin 1 .. L
      BY <1>1, <2>1
    <2> QED
      BY <1>1, <1>3, <1>9, <2>2
  <1> HIDE DEF orig, L, K
  <1>12. ASSUME NEW k \in new
         PROVE  /\ IsInjective(u[k].kids) /\ ToSet(u[k].kids) \subseteq new
                /\ u[k].kids # <<>> => implementsParentNode(u[k])
                /\ \A j \in ToSet(u[k].kids) :
                      implementsChildNode(u[j]) /\ u[j].type # "doctype" /\ u[j].parent = k
    <2> DEFINE m == orig(k)
    <2>1. m \in C /\ id[m] = k /\ u[k] = x(m)
      BY <1>10
    <2> HIDE DEF m, new
    <2>2. /\ u[k].type = f[m].type /\ IsInjective(u[k].kids)
          /\ ToSet(u[k].kids) = {id[y] : y \in ToSet(f[m].kids)}
          /\ u[k].kids # <<>> => f[m].kids # <<>>
      BY <1>2, <2>1
    <2>3. ToSet(f[m].kids) \subseteq C \ {n}
      BY <1>5, <2>1
    <2>4. ToSet(u[k].kids) \subseteq new
      BY <1>11, <2>2, <2>3
    <2>5. u[k].kids # <<>> => implementsParentNode(u[k])
      BY <1>6, <2>1, <2>2 DEF implementsParentNode
    <2>6. ASSUME NEW j \in ToSet(u[k].kids)
          PROVE  implementsChildNode(u[j]) /\ u[j].type # "doctype" /\ u[j].parent = k
      <3>1. PICK y \in ToSet(f[m].kids) : j = id[y]
        BY <2>2, <2>6
      <3>2. y \in C /\ y # n /\ j \in new /\ orig(j) = y
        BY <1>11, <2>3, <3>1
      <3>3. u[j] = x(y)
        BY <1>10, <3>2
      <3>4. implementsChildNode(f[y]) /\ f[y].type # "doctype" /\ f[y].parent = m
        BY <1>5, <2>1, <3>1, <3>2
      <3>5. u[j].type = f[y].type /\ u[j].parent = id[m]
        BY <1>2, <3>2, <3>3, <3>4
      <3> QED
        BY <2>1, <3>4, <3>5 DEF implementsChildNode
    <2> QED
      BY <2>2, <2>4, <2>5, <2>6
  <1>13. ASSUME NEW S \in SUBSET new, S # {} PROVE \E k \in S : ToSet(u[k].kids) \cap S = {}
    <2> DEFINE R == {orig(k) : k \in S}
    <2>1. R \in SUBSET DOMAIN f /\ R # {}
      BY <1>4, <1>10, <1>13
    <2>2. PICK m \in R : ToSet(f[m].kids) \cap R = {}
      <3> HIDE DEF R
      <3> QED
        BY <1>1, <2>1 DEF Founded
    <2>3. PICK k \in S : m = orig(k)
      BY <2>2
    <2>4. m \in C /\ u[k] = x(m)
      BY <1>10, <2>3
    <2>5. ASSUME NEW j \in ToSet(u[k].kids), j \in S PROVE FALSE
      <3>0. ToSet(u[k].kids) = {id[y] : y \in ToSet(f[m].kids)}
        BY <1>2, <2>4
      <3>1. PICK y \in ToSet(f[m].kids) : j = id[y]
        BY <2>5, <3>0
      <3>2. y \in C
        BY <1>5, <2>4, <3>1
      <3>3. orig(j) = y /\ orig(j) \in R
        BY <1>11, <2>5, <3>1, <3>2
      <3> QED
        BY <2>2, <3>1, <3>3
    <2> QED
      BY <2>3, <2>5
  <1> HIDE DEF new
  <1>14. DOMAIN t \subseteq DOMAIN u /\ (\A m \in DOMAIN t : u[m] = t[m]) /\ new = DOMAIN u \ DOMAIN t
    BY <1>9 DEF new
  <1>15. Good(u)
    BY <1>9, <1>12, <1>13, <1>14, Extends
  <1> QED
    BY <1>15 DEF u, d

\* If the nodes above n keep their parents, these are the nodes above n.
LEMMA SameAbove ==
    ASSUME NEW t, IsDom(t), NEW u, IsDom(u), DOMAIN u = DOMAIN t, NEW n \in DOMAIN t,
           \A m \in Ancestors(t, n) : u[m].parent = t[m].parent
    PROVE  Ancestors(u, n) = Ancestors(t, n)
  <1> DEFINE A == Ancestors(t, n)
             B == Ancestors(u, n)
  <1>1. n \in A /\ A \in SUBSET DOMAIN t /\ \A m \in A : t[m].parent \in A \cup {NULL}
    BY Above
  <1>2. n \in B /\ B \in SUBSET DOMAIN u /\ \A m \in B : u[m].parent \in B \cup {NULL}
    BY Above
  <1>3. \A C \in SUBSET DOMAIN t : n \in C /\ (\A m \in C : t[m].parent \in C \cup {NULL}) => A \subseteq C
    BY Above
  <1>4. \A C \in SUBSET DOMAIN u : n \in C /\ (\A m \in C : u[m].parent \in C \cup {NULL}) => B \subseteq C
    BY Above
  <1>5. \A m \in A : u[m].parent = t[m].parent
    OBVIOUS
  <1> HIDE DEF A, B
  <1>6. B \subseteq A
    BY <1>1, <1>4, <1>5
  <1>7. A \subseteq B
    BY <1>2, <1>3, <1>5, <1>6
  <1> QED
    BY <1>6, <1>7 DEF A, B

\* With all that is below it n can be cloned.
LEMMA BelowIsCloneable ==
    ASSUME NEW t, Good(t), NEW n \in DOMAIN t, implementsChildNode(t[n]),
           \A m \in Below(t, n) : t[m].type = "element" => ~ownerDocumentHangs(t, m)
    PROVE  Cloneable(t, Below(t, n), n)
  <1> DEFINE C == Below(t, n)
  <1>1. IsDom(t) /\ Listed(t) /\ EndsBelow(t)
    BY FoundedEnds DEF Good
  <1>2. /\ n \in C /\ C \subseteq DOMAIN t /\ \A m \in C : ToSet(t[m].kids) \subseteq C
        /\ \A D \in SUBSET DOMAIN t :
              n \in D /\ (\A m \in D : ToSet(t[m].kids) \subseteq D) => C \subseteq D
    BY <1>1, BelowClosed
  <1>3. \A m \in C : n \notin ToSet(t[m].kids)
    BY <1>1, <1>2 DEF EndsBelow
  <1>4. \A m \in C : t[m].type = "element" => ownerDocument(t, m) \in 0 .. Len(t)
    BY <1>1, <1>2, OwnerIsANode
  <1> HIDE DEF C
  <1>5. \A m \in C : m # n => \E y \in C : m \in ToSet(t[y].kids)
    <2> DEFINE D == {m \in C : m # n => \E y \in C : m \in ToSet(t[y].kids)}
    <2>1. D \in SUBSET DOMAIN t /\ n \in D /\ \A m \in D : ToSet(t[m].kids) \subseteq D
      BY <1>2
    <2> HIDE DEF D
    <2>2. C \subseteq D
      BY <1>2, <2>1
    <2> QED
      BY <2>2 DEF D
  <1>6. \A m \in C : implementsChildNode(t[m])
    BY <1>1, <1>2, <1>5 DEF Listed
  <1>7. \A m \in C : \A k \in ToSet(t[m].kids) : t[k].type # "doctype" /\ t[k].parent = m
    <2>1. ASSUME NEW m \in C, NEW k \in ToSet(t[m].kids) PROVE t[k].type # "doctype" /\ t[k].parent = m
      <3>1. t[m].type # "document"
        BY <1>6 DEF implementsChildNode
      <3> QED
        BY <1>1, <1>2, <3>1 DEF Listed
    <2> QED
      BY <2>1
  <1>8. \A m \in C : m # n => t[m].parent \in C
    BY <1>5, <1>7
  <1>9. \A m \in C : ToSet(t[m].kids) \subseteq C \ {n}
    BY <1>2, <1>3
  <1> QED
    BY <1>2, <1>4, <1>6, <1>7, <1>8, <1>9 DEF Cloneable, C

LEMMA CloneNodeKeepsGood ==
    ASSUME NEW t, Good(t), NEW n \in DOMAIN t, NEW deep \in BOOLEAN
    PROVE  Good(cloneNode(t, n, deep).nodes)
  <1> DEFINE C      == IF deep THEN Below(t, n) ELSE {n}
             copied == SetToSeq(C)
             id     == [m \in ToSet(copied) |-> Len(t) + PositionIn(copied, m)]
             from   == IF deep THEN t ELSE [t EXCEPT ![n].kids = <<>>]
             hangs  == \E m \in ToSet(copied) : t[m].type = "element" /\ ownerDocumentHangs(t, m)
  <1>1. IsDom(t) /\ Len(t) \in Nat /\ DOMAIN t = 1 .. Len(t)
    BY DomFields DEF Good
  <1>2. C \subseteq DOMAIN t
    BY <1>1, BelowClosed
  <1>3. copied \in Seq(C) /\ IsInjective(copied) /\ ToSet(copied) = C
    <2>1. IsFiniteSet(DOMAIN t)
      BY <1>1, FS_Interval
    <2>2. IsFiniteSet(C)
      BY <1>2, <2>1, FS_Subset
    <2> HIDE DEF C
    <2> QED
      BY <2>2, InSomeOrder
  <1>4. cloneNode(t, n, deep).nodes =
           IF ~implementsChildNode(t[n]) \/ hangs THEN t ELSE t \o Clones(copied, from, n, id)
    BY DEF cloneNode, Raised, Hung, Returned, Result, Clones
  <1>5. Good(from) /\ Len(from) = Len(t)
    BY ClearingKeepsGood
  <1>6. ASSUME implementsChildNode(t[n]), ~hangs PROVE Cloneable(from, C, n)
    <2> HIDE DEF copied
    <2>1. \A m \in C : t[m].type = "element" => ~ownerDocumentHangs(t, m)
      BY <1>3, <1>6
    <2>2. CASE deep
      BY <1>6, <2>1, <2>2, BelowIsCloneable
    <2>3. CASE ~deep
      <3> DEFINE u == [t EXCEPT ![n].kids = <<>>]
      <3>1. /\ Good(u) /\ Len(u) = Len(t) /\ DOMAIN u = DOMAIN t
            /\ \A m \in DOMAIN t :
                  /\ u[m].type = t[m].type /\ u[m].own = t[m].own /\ u[m].parent = t[m].parent
                  /\ u[m].kids = IF m = n THEN <<>> ELSE t[m].kids
        BY ClearingKeepsGood
      <3> HIDE DEF u
      <3>2. Ancestors(t, n) \subseteq DOMAIN t
        BY <1>1, Above
      <3>3. Ancestors(u, n) = Ancestors(t, n)
        BY <1>1, <3>1, <3>2, SameAbove DEF Good
      <3>4. ownerDocumentHangs(u, n) <=> ownerDocumentHangs(t, n)
        BY <3>1, <3>2, <3>3 DEF ownerDocumentHangs, Endless
      <3>5. u[n].type = "element" => ownerDocument(u, n) \in 0 .. Len(u)
        BY <2>1, <2>3, <3>1, <3>4, OwnerIsANode DEF Good
      <3>6. u[n].kids = <<>> /\ ToSet(<<>>) = {} /\ implementsChildNode(u[n])
        BY <1>6, <3>1 DEF ToSet, implementsChildNode
      <3>7. Cloneable(u, {n}, n)
        BY <3>1, <3>5, <3>6 DEF Cloneable
      <3> QED
        BY <2>3, <3>7 DEF u
    <2> QED
      BY <2>2, <2>3
  <1>7. copied \in Seq(DOMAIN t)
    <2> HIDE DEF copied, C
    <2> QED
      BY <1>2, <1>3
  <1> HIDE DEF copied
  <1>8. Numbers(id, copied, Len(t))
    BY <1>1, <1>3, <1>7, Numbering
  <1> HIDE DEF from, C, id
  <1>9. ASSUME implementsChildNode(t[n]), ~hangs PROVE Good(t \o Clones(copied, from, n, id))
    <2>1. Cloneable(from, ToSet(copied), n)
      BY <1>3, <1>6, <1>9
    <2> QED
      BY <1>3, <1>5, <1>7, <1>8, <2>1, CloningKeepsGood
  <1> QED
    BY <1>4, <1>9

-----------------------------------------------------------------------------
(***************************************************************************)
(* The invariant is inductive.                                             *)
(***************************************************************************)
LEMMA InitIInv == Init => IInv
  BY ParsedAssumption, EndingIsFounded DEF Init, IInv, Good

\* A call leaves what its method makes of the nodes.
LEMMA CallLeaves ==
    ASSUME NEW result, Call(result)
    PROVE  nodes' = result.nodes
  BY DEF Call

LEMMA StepIInv == IInv /\ [Next]_vars => IInv'
  <1> SUFFICES ASSUME Good(nodes), [Next]_vars PROVE Good(nodes')
    BY DEF IInv
  <1>0. /\ Len(nodes) \in Nat /\ DOMAIN nodes = 1 .. Len(nodes)
        /\ NULL \in 0 .. Len(nodes) /\ DOMAIN nodes \subseteq 0 .. Len(nodes)
    <2>1. Len(nodes) \in Nat /\ DOMAIN nodes = 1 .. Len(nodes)
      BY DomFields DEF Good
    <2> QED
      BY <2>1 DEF NULL
  <1>1. \A t : Returned(t).nodes = t
    BY DEF Returned, Result
  <1>2. ASSUME NEW doc \in DocumentNodes, createElement(doc) \/ createTextNode(doc)
        PROVE  Good(nodes')
    <2>1. doc \in 0 .. Len(nodes)
      BY <1>0 DEF DocumentNodes, Nodes
    <2>2. \/ nodes' = Append(nodes, DomNode("element", doc))
          \/ nodes' = Append(nodes, DomNode("text", doc))
      BY <1>1, <1>2, CallLeaves DEF createElement, createTextNode
    <2> QED
      BY <2>1, <2>2, CreatingKeepsGood
  <1>3. ASSUME Text PROVE Good(nodes')
    <2>1. nodes' = Append(nodes, DomNode("text", NULL))
      BY <1>1, <1>3, CallLeaves DEF Text
    <2> QED
      BY <1>0, <2>1, CreatingKeepsGood
  <1>4. ASSUME NEW doc \in DocumentNodes, NEW n \in Nodes, AdoptNode(doc, n) PROVE Good(nodes')
    <2>1. doc \in 0 .. Len(nodes)
      BY <1>0 DEF DocumentNodes, Nodes
    <2>2. nodes' = adoptNode(nodes, doc, n).nodes
      BY <1>4, CallLeaves DEF AdoptNode
    <2> QED
      BY <2>1, <2>2, AdoptNodeKeepsGood DEF Nodes
  <1>5. ASSUME NEW self \in Nodes, NEW n \in Nodes, AppendChild(self, n) PROVE Good(nodes')
    BY <1>5, CallLeaves, PreInsertKeepsGood DEF AppendChild, Nodes
  <1>6. ASSUME NEW self \in Nodes, NEW n \in Nodes, NEW child \in Nodes, InsertBefore(self, n, child)
        PROVE  Good(nodes')
    BY <1>6, CallLeaves, PreInsertKeepsGood DEF InsertBefore, Nodes
  <1>7. ASSUME NEW self \in Nodes, NEW n \in Nodes, NEW child \in Nodes, ReplaceChild(self, n, child)
        PROVE  Good(nodes')
    BY <1>7, CallLeaves, ReplaceChildKeepsGood DEF ReplaceChild, Nodes
  <1>8. ASSUME NEW self \in Nodes, NEW child \in Nodes, RemoveChild(self, child) PROVE Good(nodes')
    <2>1. nodes' = removeChild(nodes, self, child).nodes
      BY <1>8, CallLeaves DEF RemoveChild
    <2>2. CASE removeChild(nodes, self, child).outcome = "returns"
      BY <2>1, <2>2, RemoveChildTakesOut, TakingOutKeepsGood DEF Nodes
    <2>3. CASE removeChild(nodes, self, child).outcome # "returns"
      BY <2>1, <2>3, RemoveChildEnds
    <2> QED
      BY <2>2, <2>3
  <1>9. ASSUME NEW n \in Nodes, RemoveNode(n) PROVE Good(nodes')
    BY <1>9, CallLeaves, RemoveKeepsGood DEF RemoveNode, Nodes
  <1>10. ASSUME NEW n \in Nodes, NEW hasValue \in BOOLEAN, SetTextContent(n, hasValue)
         PROVE  Good(nodes')
    BY <1>10, CallLeaves, SetTextContentKeepsGood DEF SetTextContent, Nodes
  <1>11. ASSUME NEW n \in Nodes, NEW deep \in BOOLEAN, CloneNode(n, deep) PROVE Good(nodes')
    BY <1>11, CallLeaves, CloneNodeKeepsGood DEF CloneNode, Nodes
  <1>12. CASE UNCHANGED vars
    BY <1>12 DEF vars
  <1> QED
    BY <1>2, <1>3, <1>4, <1>5, <1>6, <1>7, <1>8, <1>9, <1>10, <1>11, <1>12 DEF Next

THEOREM InductiveInvariant == Spec => []IInv
  BY InitIInv, StepIInv, PTL DEF Spec

(***************************************************************************)
(* However the methods are called, a node is in one childNodes at most,    *)
(* once, and names the owner of that list as its parentNode.               *)
(***************************************************************************)
THEOREM ChildrenListedByParent == Spec => []ListedByParent
  <1>1. IInv => ListedByParent
    BY DEF IInv, Good, ListedByParent
  <1> QED
    BY <1>1, InductiveInvariant, PTL

\* And no node comes to lie below itself: what follows childNodes ends.
THEOREM WalksAlwaysEnd == Spec => []WalksEnd
  <1>1. IInv => WalksEnd
    BY FoundedEnds DEF IInv, Good, WalksEnd
  <1> QED
    BY <1>1, InductiveInvariant, PTL

-----------------------------------------------------------------------------
(***************************************************************************)
(* The chain of parents.                                                   *)
(***************************************************************************)

\* What is above n is n or above its parent.
LEMMA AboveCases ==
    ASSUME NEW t, IsDom(t), NEW n \in DOMAIN t, NEW x \in Ancestors(t, n), x # n
    PROVE  t[n].parent \in DOMAIN t /\ x \in Ancestors(t, t[n].parent)
  <1> DEFINE p == t[n].parent
  <1>1. p = NULL \/ p \in DOMAIN t
    BY DomFields
  <1>2. \A C \in SUBSET DOMAIN t :
           n \in C /\ (\A m \in C : t[m].parent \in C \cup {NULL}) => Ancestors(t, n) \subseteq C
    BY Above
  <1>3. CASE p = NULL
    <2>1. Ancestors(t, n) \subseteq {n}
      BY <1>2, <1>3
    <2> QED
      BY <2>1
  <1>4. CASE p \in DOMAIN t
    <2> DEFINE C == {n} \cup Ancestors(t, p)
    <2>1. /\ p \in Ancestors(t, p) /\ Ancestors(t, p) \subseteq DOMAIN t
          /\ \A m \in Ancestors(t, p) : t[m].parent \in Ancestors(t, p) \cup {NULL}
      BY <1>4, Above
    <2>2. C \in SUBSET DOMAIN t /\ n \in C /\ \A m \in C : t[m].parent \in C \cup {NULL}
      BY <2>1
    <2> HIDE DEF C
    <2>3. Ancestors(t, n) \subseteq C
      BY <1>2, <2>2
    <2> QED
      BY <1>4, <2>3 DEF C
  <1> QED
    BY <1>1, <1>3, <1>4

\* The chain has one end at most.
LEMMA OneTop ==
    ASSUME NEW t, IsDom(t), NEW n \in DOMAIN t,
           NEW x \in Ancestors(t, n), t[x].parent = NULL,
           NEW y \in Ancestors(t, n), t[y].parent = NULL
    PROVE  x = y
  <1> DEFINE C == {m \in Ancestors(t, n) : x \in Ancestors(t, m)}
  <1>1. /\ n \in Ancestors(t, n) /\ Ancestors(t, n) \subseteq DOMAIN t
        /\ \A m \in Ancestors(t, n) : t[m].parent \in Ancestors(t, n) \cup {NULL}
    BY Above
  <1>2. ASSUME NEW m \in C PROVE t[m].parent \in C \cup {NULL}
    <2>1. m \in DOMAIN t /\ x \in Ancestors(t, m)
      BY <1>1
    <2>2. CASE x = m
      BY <2>2
    <2>3. CASE x # m
      BY <1>1, <2>1, <2>3, AboveCases
    <2> QED
      BY <2>2, <2>3
  <1>3. C \in SUBSET DOMAIN t /\ n \in C
    BY <1>1
  <1>4. y \in C
    <2> HIDE DEF C
    <2>1. Ancestors(t, n) \subseteq C
      BY <1>2, <1>3, Above
    <2> QED
      BY <2>1
  <1>5. x \in Ancestors(t, y) /\ y \in DOMAIN t
    BY <1>1, <1>4
  <1>6. NULL \notin DOMAIN t
    BY DomFields
  <1> QED
    BY <1>5, <1>6, AboveCases

\* Every parentNode is honoured by the list of that parent: ParentListsChild.
Honoured(t) == \A n \in DOMAIN t : t[n].parent # NULL => n \in ToSet(t[t[n].parent].kids)

\* Then what is above p has p below it,
LEMMA AboveBelow ==
    ASSUME NEW t, IsDom(t), Honoured(t), NEW p \in DOMAIN t, NEW x \in Ancestors(t, p)
    PROVE  p \in Below(t, x)
  <1> DEFINE C == {m \in DOMAIN t : p \in Below(t, m)}
  <1>1. C \in SUBSET DOMAIN t /\ p \in C
    BY BelowClosed
  <1>2. ASSUME NEW m \in C PROVE t[m].parent \in C \cup {NULL}
    <2>1. CASE t[m].parent # NULL
      <3>1. t[m].parent \in DOMAIN t /\ m \in ToSet(t[t[m].parent].kids)
        BY <2>1, DomFields DEF Honoured
      <3>2. Below(t, m) \subseteq Below(t, t[m].parent)
        BY <3>1, BelowChild
      <3> QED
        BY <3>1, <3>2
    <2> QED
      BY <2>1
  <1> HIDE DEF C
  <1>3. Ancestors(t, p) \subseteq C
    BY <1>1, <1>2, Above
  <1> QED
    BY <1>3 DEF C

(***************************************************************************)
(* and the chain of parents ends: among the nodes from where it does not,  *)
(* take one with the fewest nodes above it; its parent has fewer.          *)
(***************************************************************************)
LEMMA ParentsEnd ==
    ASSUME NEW t, Good(t), Honoured(t), NEW n \in DOMAIN t
    PROVE  ~Endless(t, n)
  <1> SUFFICES ASSUME Endless(t, n) PROVE FALSE
    OBVIOUS
  <1> DEFINE S == {m \in DOMAIN t : Endless(t, m)}
             size(m) == Cardinality(Ancestors(t, m))
             sizes == {size(m) : m \in S}
  <1>1. IsDom(t) /\ EndsBelow(t) /\ Len(t) \in Nat /\ DOMAIN t = 1 .. Len(t)
    BY FoundedEnds, DomFields DEF Good
  <1>2. \A m \in DOMAIN t : IsFiniteSet(Ancestors(t, m)) /\ size(m) \in Nat
    <2>1. IsFiniteSet(DOMAIN t)
      BY <1>1, FS_Interval
    <2>2. \A m \in DOMAIN t : IsFiniteSet(Ancestors(t, m))
      BY <1>1, <2>1, Above, FS_Subset
    <2> QED
      BY <2>2, FS_CardinalityType
  <1>3. sizes \subseteq Nat /\ sizes # {}
    BY <1>2
  <1>4. PICK c \in sizes : \A d \in sizes : c <= d
    BY <1>3, LeastNumber
  <1>5. PICK m \in S : c = size(m)
    OBVIOUS
  <1> DEFINE p == t[m].parent
  <1>6. m \in DOMAIN t /\ Endless(t, m)
    BY <1>5
  <1>7. m \in Ancestors(t, m) /\ p # NULL
    BY <1>1, <1>6, Above DEF Endless
  <1>8. p \in DOMAIN t /\ p \in Ancestors(t, m) /\ m \in ToSet(t[p].kids)
    BY <1>1, <1>6, <1>7, Above DEF Honoured
  <1>9. Ancestors(t, p) \subseteq Ancestors(t, m)
    <2>1. /\ Ancestors(t, m) \in SUBSET DOMAIN t
          /\ \A x \in Ancestors(t, m) : t[x].parent \in Ancestors(t, m) \cup {NULL}
      BY <1>1, <1>6, Above
    <2> QED
      BY <1>1, <1>8, <2>1, Above
  <1>10. p \in S
    BY <1>6, <1>8, <1>9 DEF Endless
  <1>11. m \notin Ancestors(t, p)
    <2>1. m \in Ancestors(t, p) => p \in Below(t, m)
      BY <1>1, <1>8, AboveBelow
    <2>2. p \notin Below(t, m)
      BY <1>1, <1>8 DEF EndsBelow
    <2> QED
      BY <2>1, <2>2
  <1>12. Ancestors(t, p) # Ancestors(t, m)
    BY <1>7, <1>11
  <1>13. size(p) <= size(m) /\ size(p) # size(m)
    BY <1>2, <1>6, <1>9, <1>12, FS_Subset
  <1>14. size(m) <= size(p)
    BY <1>4, <1>5, <1>10
  <1>15. size(p) \in Nat /\ size(m) \in Nat
    BY <1>2, <1>6, <1>8
  <1> HIDE DEF size
  <1> QED
    BY <1>13, <1>14, <1>15

-----------------------------------------------------------------------------
(***************************************************************************)
(* Calls that leave no half of their work behind.                          *)
(***************************************************************************)

\* The sibling that follows a node: the next element of the list it is in.
LEMMA NextSibling ==
    ASSUME NEW t, Good(t), NEW n \in DOMAIN t, nextSibling(t, n) # NULL
    PROVE  /\ t[n].parent \in DOMAIN t
           /\ nextSibling(t, n) \in ToSet(t[t[n].parent].kids)
           /\ nextSibling(t, n) \in DOMAIN t /\ nextSibling(t, n) # n
           /\ n \in ToSet(t[t[n].parent].kids)
           /\ PositionIn(t[t[n].parent].kids, nextSibling(t, n)) =
                PositionIn(t[t[n].parent].kids, n) + 1
  <1> DEFINE s == t[t[n].parent].kids
             at == PositionIn(s, n)
  <1>1. t[n].parent # NULL /\ at \notin {0, Len(s)} /\ nextSibling(t, n) = s[at + 1]
    BY DEF nextSibling
  <1>2. t[n].parent \in DOMAIN t
    BY <1>1, DomFields DEF Good
  <1>3. s \in Seq(DOMAIN t) /\ IsInjective(s)
    BY <1>2, DomFields DEF Good, Listed
  <1> HIDE DEF s
  <1>4. n \in ToSet(s) /\ at \in 1 .. Len(s) /\ s[at] = n
    BY <1>1, <1>3, PositionInFinds
  <1> HIDE DEF at
  <1>5. Len(s) \in Nat /\ DOMAIN s = 1 .. Len(s) /\ at \in DOMAIN s
    BY <1>3, <1>4
  <1>6. at + 1 \in 1 .. Len(s) /\ at + 1 # at
    BY <1>1, <1>4, <1>5
  <1>7. s[at + 1] # n
    BY <1>3, <1>4, <1>5, <1>6 DEF IsInjective
  <1>8. s[at + 1] \in ToSet(s) /\ s[at + 1] \in DOMAIN t
    <2>1. \A i \in DOMAIN s : s[i] \in ToSet(s)
      BY DEF ToSet
    <2> QED
      BY <1>3, <1>5, <1>6, <2>1
  <1>9. PositionIn(s, s[at + 1]) = at + 1
    BY <1>3, <1>6, PositionInOnce
  <1> QED
    BY <1>1, <1>2, <1>4, <1>7, <1>8, <1>9 DEF s, at

\* A node that is taken out leaves the lists of the others honoured.
LEMMA HonouredStays ==
    ASSUME NEW t, Good(t), Honoured(t), NEW n \in DOMAIN t, NEW u, TakenOut(t, u, n)
    PROVE  Honoured(u)
  <1>1. DOMAIN u = DOMAIN t /\ IsDom(t)
    BY TakingOutKeepsGood DEF Good
  <1>2. SUFFICES ASSUME NEW m \in DOMAIN t, u[m].parent # NULL
                 PROVE  m \in ToSet(u[u[m].parent].kids)
    BY <1>1 DEF Honoured
  <1>3. m # n /\ u[m].parent = t[m].parent
    BY <1>2 DEF TakenOut
  <1>4. t[m].parent \in DOMAIN t /\ m \in ToSet(t[t[m].parent].kids)
    BY <1>1, <1>2, <1>3, DomFields DEF Honoured
  <1> DEFINE s == t[t[m].parent].kids
  <1>5. s \in Seq(DOMAIN t) /\ IsInjective(s)
    BY <1>1, <1>4, DomFields DEF Good, Listed
  <1>6. u[t[m].parent].kids = Without(s, n)
    BY <1>4 DEF TakenOut
  <1> HIDE DEF s
  <1>7. m \in ToSet(Without(s, n))
    BY <1>3, <1>4, <1>5, WithoutOnce DEF s
  <1> QED
    BY <1>3, <1>6, <1>7

\* Then whatever has a parent can be taken out,
LEMMA RemoveReturns ==
    ASSUME NEW t, Good(t), Honoured(t), NEW n \in DOMAIN t
    PROVE  remove(t, n).outcome = "returns"
  <1>1. CASE t[n].parent = NULL
    BY <1>1 DEF remove, Returned, Result
  <1>2. CASE t[n].parent # NULL
    <2>1. t[n].parent \in DOMAIN t /\ n \in ToSet(t[t[n].parent].kids)
      BY <1>2, DomFields DEF Good, Honoured
    <2>2. t[t[n].parent].kids \in Seq(DOMAIN t)
      BY <2>1, DomFields DEF Good
    <2>3. PositionIn(t[t[n].parent].kids, n) # 0
      BY <2>1, <2>2, PositionInFinds
    <2> QED
      BY <1>2, <2>3 DEF remove, removeChild, Returned, Result
  <1> QED
    BY <1>1, <1>2

\* and whatever is no document can be adopted wherever there is a document to adopt it.
LEMMA AdoptForReturns ==
    ASSUME NEW t, Good(t), Honoured(t), NEW parent \in DOMAIN t, NEW n \in DOMAIN t
    PROVE  /\ AdoptFor(t, parent, n).outcome \in {"returns", "raises"}
           /\ ownerDocument(t, parent) # NULL /\ t[n].type # "document"
                 => AdoptFor(t, parent, n).outcome = "returns"
  <1>1. ~ownerDocumentHangs(t, parent)
    BY ParentsEnd DEF ownerDocumentHangs
  <1>2. remove(t, n).outcome = "returns"
    BY RemoveReturns
  <1> QED
    BY <1>1, <1>2 DEF AdoptFor, adoptNode, Raised, Returned, Result

LEMMA ValidReturns ==
    ASSUME NEW t, Good(t), Honoured(t), NEW parent \in DOMAIN t, NEW n, NEW child
    PROVE  ensurePreInsertionValidity(t, n, parent, child) \in {"returns", "raises"}
  <1>1. ~containsHangs(t, n, parent)
    BY ParentsEnd DEF containsHangs
  <1> QED
    BY <1>1 DEF ensurePreInsertionValidity

(***************************************************************************)
(* Whatever preInsert has checked and adopted it can put in its place,     *)
(* which no other node has left meanwhile.                                 *)
(***************************************************************************)
LEMMA PreInsertReturns ==
    ASSUME NEW t, Good(t), Honoured(t), NEW n \in DOMAIN t, NEW parent \in DOMAIN t,
           NEW child \in DOMAIN t \cup {NULL},
           ensurePreInsertionValidity(t, n, parent, child) = "returns",
           AdoptFor(t, parent, n).outcome = "returns"
    PROVE  preInsert(t, n, parent, child).outcome = "returns"
  <1> DEFINE u   == AdoptFor(t, parent, n).nodes
             ref == RefOf(t, n, child)
  <1>1. /\ TakenOut(t, u, n)
        /\ PlaceFor(u, parent, ref) # 0 => preInsert(t, n, parent, child).outcome = "returns"
    BY PreInsertParts
  <1> DEFINE s == t[parent].kids
  <1>2. s \in Seq(DOMAIN t) /\ IsInjective(s) /\ Len(s) \in Nat
    BY DomFields DEF Good, Listed
  <1>3. u[parent].kids = Without(s, n)
    BY <1>1 DEF TakenOut
  <1>4. child = NULL \/ t[child].parent = parent
    BY ValidSays
  <1>5. NULL \notin DOMAIN t
    BY DomFields DEF Good
  <1>6. ASSUME ref # NULL PROVE ref \in ToSet(s) /\ ref # n
    <2>1. CASE child = n
      <3>1. t[n].parent = parent
        BY <1>4, <1>5, <2>1
      <3> QED
        BY <1>6, <2>1, <3>1, NextSibling DEF RefOf
    <2>2. CASE child # n
      <3>1. ref = child /\ child \in DOMAIN t /\ t[child].parent = parent
        BY <1>4, <1>6, <2>2 DEF RefOf
      <3> QED
        BY <1>5, <2>2, <3>1 DEF Honoured
    <2> QED
      BY <2>1, <2>2
  <1> HIDE DEF u, ref, s
  <1>7. Without(s, n) \in Seq(DOMAIN t) /\ ToSet(Without(s, n)) = ToSet(s) \ {n}
    BY <1>2, WithoutOnce
  <1>8. PlaceFor(u, parent, ref) # 0
    <2> DEFINE l == Without(s, n)
    <2>1. u[parent].kids = l /\ l \in Seq(DOMAIN t)
      BY <1>3, <1>7
    <2>2. ref # NULL => ref \in ToSet(l)
      BY <1>6, <1>7
    <2> HIDE DEF l
    <2>3. CASE ref = NULL
      <3>1. Len(l) \in Nat
        BY <2>1
      <3> QED
        BY <2>1, <2>3, <3>1 DEF PlaceFor
    <2>4. CASE ref # NULL
      BY <2>1, <2>2, <2>4, PositionInFinds DEF PlaceFor
    <2> QED
      BY <2>3, <2>4
  <1> QED
    BY <1>1, <1>8 DEF u, ref

\* What is taken out and is not above p changes nothing for p: neither what is above nor who owns it.
LEMMA SameOwner ==
    ASSUME NEW t, Good(t), Honoured(t), NEW p \in DOMAIN t, NEW x \in DOMAIN t,
           x \notin Ancestors(t, p), NEW u, TakenOut(t, u, x)
    PROVE  Ancestors(u, p) = Ancestors(t, p) /\ ownerDocument(u, p) = ownerDocument(t, p)
  <1> DEFINE A == Ancestors(t, p)
  <1>1. IsDom(t) /\ IsDom(u) /\ DOMAIN u = DOMAIN t
    BY TakingOutKeepsGood DEF Good
  <1>2. p \in A /\ A \subseteq DOMAIN t
    BY <1>1, Above
  <1>3. \A m \in A : u[m].parent = t[m].parent /\ u[m].own = t[m].own /\ u[m].type = t[m].type
    BY <1>2 DEF TakenOut
  <1>4. Ancestors(u, p) = A
    BY <1>1, <1>3, SameAbove
  <1>5. PICK top \in A : t[top].parent = NULL
    BY ParentsEnd DEF Endless
  <1>6. \A m \in A : t[m].parent = NULL => m = top
    BY <1>1, <1>5, OneTop
  <1>7. Top(t, p) \in A /\ t[Top(t, p)].parent = NULL
    BY <1>5 DEF Top
  <1>8. Top(t, p) = top
    BY <1>6, <1>7
  <1>9. Top(u, p) \in A /\ u[Top(u, p)].parent = NULL
    <2>1. \E m \in Ancestors(u, p) : u[m].parent = NULL
      BY <1>3, <1>4, <1>5
    <2> HIDE DEF A
    <2> QED
      BY <1>4, <2>1 DEF Top
  <1> HIDE DEF A
  <1>10. Top(u, p) = top
    BY <1>3, <1>6, <1>9
  <1>11. ownerDocument(u, p) = ownerDocument(t, p)
    BY <1>2, <1>3, <1>5, <1>8, <1>10 DEF ownerDocument
  <1> QED
    BY <1>4, <1>11 DEF A

\* A node without children is above no other, and a child is not above its parent.
LEMMA NotAbove ==
    ASSUME NEW t, Good(t), Honoured(t), NEW p \in DOMAIN t, NEW x \in DOMAIN t,
           \/ t[x].kids = <<>> /\ x # p
           \/ x \in ToSet(t[p].kids)
    PROVE  x \notin Ancestors(t, p)
  <1>1. SUFFICES ASSUME x \in Ancestors(t, p) PROVE FALSE
    OBVIOUS
  <1>2. IsDom(t) /\ EndsBelow(t)
    BY FoundedEnds DEF Good
  <1>3. p \in Below(t, x)
    BY <1>1, <1>2, AboveBelow
  <1>4. CASE t[x].kids = <<>> /\ x # p
    <2>1. ToSet(t[x].kids) = {}
      BY <1>4 DEF ToSet
    <2> QED
      BY <1>2, <1>3, <1>4, <2>1, BelowCases
  <1>5. CASE x \in ToSet(t[p].kids)
    BY <1>2, <1>3, <1>5 DEF EndsBelow
  <1> QED
    BY <1>4, <1>5

\* The reference child of replaceChild stays where it is while node and child are taken out.
LEMMA SiblingAfterStays ==
    ASSUME NEW t, Good(t), NEW n \in DOMAIN t, NEW child \in DOMAIN t, t[n].type # "doctype",
           SiblingAfter(t, n, child) # NULL
    PROVE  /\ SiblingAfter(t, n, child) \in ToSet(t[t[child].parent].kids)
           /\ SiblingAfter(t, n, child) \notin {n, child}
           /\ SiblingAfter(t, n, child) \in DOMAIN t
  <1> DEFINE after == nextSibling(t, child)
             s == t[t[child].parent].kids
  <1>1. CASE after # n
    BY <1>1, NextSibling DEF SiblingAfter
  <1>2. CASE after = n
    <2>1. SiblingAfter(t, n, child) = nextSibling(t, n) /\ nextSibling(t, n) # NULL
      BY <1>2 DEF SiblingAfter
    <2>2. n # NULL
      BY DomFields DEF Good
    <2>3. t[child].parent \in DOMAIN t /\ n \in ToSet(s) /\ PositionIn(s, n) = PositionIn(s, child) + 1
      BY <1>2, <2>2, NextSibling
    <2>4. t[n].parent = t[child].parent
      BY <2>3 DEF Good, Listed
    <2>5. /\ nextSibling(t, n) \in ToSet(s) /\ nextSibling(t, n) \in DOMAIN t
          /\ nextSibling(t, n) # n
          /\ PositionIn(s, nextSibling(t, n)) = PositionIn(s, n) + 1
      BY <2>1, <2>4, NextSibling
    <2>6. PositionIn(s, child) \in Nat
      <3>1. s \in Seq(DOMAIN t) /\ child \in ToSet(s)
        BY <1>2, <2>2, <2>3, NextSibling, DomFields DEF Good
      <3> HIDE DEF s
      <3> QED
        BY <3>1, PositionInFinds
    <2>7. nextSibling(t, n) # child
      <3> HIDE DEF s
      <3> QED
        BY <2>3, <2>5, <2>6
    <2> QED
      BY <2>1, <2>5, <2>7
  <1> QED
    BY <1>1, <1>2

(***************************************************************************)
(* Between the checks of replaceChild and its insertion both nodes leave   *)
(* the tree: u is what adoption of the node leaves, w what the removal of  *)
(* the child does.  The checks would still pass on w.                      *)
(***************************************************************************)
LEMMA ReplaceChildParts ==
    ASSUME NEW t, Good(t), Honoured(t), NEW parent \in DOMAIN t, NEW n \in DOMAIN t,
           NEW child \in DOMAIN t,
           ensurePreInsertionValidity(t, n, parent, child) = "returns",
           AdoptFor(t, parent, n).outcome = "returns"
    PROVE  LET u   == AdoptFor(t, parent, n).nodes
               w   == remove(u, child).nodes
               ref == SiblingAfter(t, n, child)
           IN  /\ TakenOut(t, u, n) /\ Good(u)
               /\ remove(u, child).outcome = "returns" /\ TakenOut(u, w, child)
               /\ Good(w) /\ Honoured(w) /\ DOMAIN w = DOMAIN t
               /\ ensurePreInsertionValidity(w, n, parent, ref) = "returns"
               /\ AdoptFor(w, parent, n).outcome = "returns"
               /\ t[child].parent = parent /\ t[parent].type # "document"
               /\ replaceChild(t, parent, n, child) = preInsert(w, n, parent, ref)
  <1> DEFINE u   == AdoptFor(t, parent, n).nodes
             w   == remove(u, child).nodes
             ref == SiblingAfter(t, n, child)
  <1>1. /\ implementsParentNode(t[parent]) /\ implementsChildNode(t[n]) /\ parent # n
        /\ t[n].kids = <<>> \/ n \notin Ancestors(t, parent)
        /\ child = NULL \/ t[child].parent = parent
        /\ t[n].type = "doctype" => t[parent].type = "document"
    BY ValidSays
  <1>2. /\ TakenOut(t, u, n)
        /\ t[parent].type # "document" /\ t[n].type # "doctype" /\ t[n].type # "document"
    BY <1>1, AdoptForTakesOut
  <1>3. ownerDocument(t, parent) # NULL
    BY AdoptForEnds
  <1>4. NULL \notin DOMAIN t /\ IsDom(t)
    BY DomFields DEF Good
  <1>5. t[child].parent = parent /\ child \in ToSet(t[parent].kids)
    BY <1>1, <1>4 DEF Honoured
  <1>6. replaceChild(t, parent, n, child) =
           IF remove(u, child).outcome # "returns" THEN remove(u, child)
           ELSE preInsert(w, n, parent, ref)
    BY DEF replaceChild
  <1>7. ASSUME ref # NULL
        PROVE  ref \in DOMAIN t /\ t[ref].parent = parent /\ ref \notin {n, child}
    <2>1. ref \in ToSet(t[parent].kids) /\ ref \notin {n, child} /\ ref \in DOMAIN t
      BY <1>2, <1>5, <1>7, SiblingAfterStays
    <2>2. t[ref].parent = parent
      BY <1>2, <2>1 DEF Good, Listed
    <2> QED
      BY <2>1, <2>2
  <1> HIDE DEF u, ref
  <1>8. Good(u) /\ Honoured(u) /\ DOMAIN u = DOMAIN t
    BY <1>2, TakingOutKeepsGood, HonouredStays
  <1>9. remove(u, child).outcome = "returns"
    BY <1>8, RemoveReturns
  <1>10. TakenOut(u, w, child)
    <2>1. u[child].type # "doctype" \/ u[child].parent # NULL
      BY <1>2, <1>4, <1>5 DEF TakenOut
    <2> QED
      BY <1>8, <1>9, <2>1, RemoveTakesOut
  <1> HIDE DEF w
  <1>11. Good(w) /\ Honoured(w) /\ DOMAIN w = DOMAIN t
    BY <1>8, <1>10, TakingOutKeepsGood, HonouredStays
  <1>12. /\ w[parent].type = t[parent].type /\ w[n].type = t[n].type
         /\ ref # NULL => w[ref].parent = parent
    BY <1>2, <1>7, <1>8, <1>10 DEF TakenOut
  <1>13. n \notin Ancestors(t, parent) /\ child \notin Ancestors(t, parent)
    BY <1>1, <1>5, NotAbove
  <1>14. /\ Ancestors(u, parent) = Ancestors(t, parent)
         /\ ownerDocument(u, parent) = ownerDocument(t, parent)
    BY <1>2, <1>13, SameOwner
  <1>15. /\ Ancestors(w, parent) = Ancestors(t, parent)
         /\ ownerDocument(w, parent) = ownerDocument(t, parent)
    <2>1. child \notin Ancestors(u, parent)
      BY <1>13, <1>14
    <2> QED
      BY <1>8, <1>10, <1>14, <2>1, SameOwner
  <1>16. ensurePreInsertionValidity(w, n, parent, ref) = "returns"
    <2>1. ~containsHangs(w, n, parent)
      BY <1>11, ParentsEnd DEF containsHangs
    <2>2. ~contains(w, n, parent)
      BY <1>1, <1>13, <1>15 DEF contains
    <2>3. implementsParentNode(w[parent]) /\ implementsChildNode(w[n]) /\ w[n].type # "doctype"
      BY <1>1, <1>2, <1>12 DEF implementsParentNode, implementsChildNode
    <2> QED
      BY <1>1, <1>12, <2>1, <2>2, <2>3 DEF ensurePreInsertionValidity
  <1>17. AdoptFor(w, parent, n).outcome = "returns"
    BY <1>2, <1>3, <1>11, <1>12, <1>15, AdoptForReturns
  <1>18. replaceChild(t, parent, n, child) = preInsert(w, n, parent, ref)
    BY <1>6, <1>9
  <1> QED
    BY <1>2, <1>5, <1>8, <1>9, <1>10, <1>11, <1>16, <1>17, <1>18 DEF u, w, ref

LEMMA ReplaceChildReturns ==
    ASSUME NEW t, Good(t), Honoured(t), NEW parent \in DOMAIN t, NEW n \in DOMAIN t,
           NEW child \in DOMAIN t,
           ensurePreInsertionValidity(t, n, parent, child) = "returns",
           AdoptFor(t, parent, n).outcome = "returns"
    PROVE  replaceChild(t, parent, n, child).outcome = "returns"
  <1> DEFINE w   == remove(AdoptFor(t, parent, n).nodes, child).nodes
             ref == SiblingAfter(t, n, child)
  <1>1. /\ Good(w) /\ Honoured(w) /\ DOMAIN w = DOMAIN t
        /\ ensurePreInsertionValidity(w, n, parent, ref) = "returns"
        /\ AdoptFor(w, parent, n).outcome = "returns" /\ t[n].type # "doctype"
        /\ replaceChild(t, parent, n, child) = preInsert(w, n, parent, ref)
    <2>1. t[n].type # "doctype"
      BY ValidSays, AdoptForTakesOut
    <2> QED
      BY <2>1, ReplaceChildParts
  <1>2. ref \in DOMAIN w \cup {NULL}
    BY <1>1, SiblingAfterStays
  <1> HIDE DEF w, ref
  <1> QED
    BY <1>1, <1>2, PreInsertReturns

(***************************************************************************)
(* As long as no textContent was set (ParentListsChild), each call ends,   *)
(* and one that raises an error has changed nothing.                       *)
(***************************************************************************)
THEOREM AtomicCalls == Spec => []CallsAreAtomic
  <1> DEFINE Ends(r) == r.outcome = "returns" \/ (r.outcome = "raises" /\ r.nodes = nodes)
  <1>1. ASSUME IInv, ParentListsChild, NEW a \in Nodes, NEW b \in Nodes,
               NEW r \in {removeChild(nodes, a, b)}
                           \cup {preInsert(nodes, a, b, c) : c \in Nodes \cup {NULL}}
                           \cup {replaceChild(nodes, a, b, c) : c \in Nodes}
        PROVE  Ends(r)
    <2>1. Good(nodes) /\ Honoured(nodes) /\ a \in DOMAIN nodes /\ b \in DOMAIN nodes
      BY <1>1 DEF IInv, ParentListsChild, Honoured, Nodes
    <2>2. CASE r = removeChild(nodes, a, b)
      BY <2>2, RemoveChildEnds
    <2>3. ASSUME NEW c \in DOMAIN nodes \cup {NULL}, r = preInsert(nodes, a, b, c) PROVE Ends(r)
      <3>1. /\ ensurePreInsertionValidity(nodes, a, b, c) \in {"returns", "raises"}
            /\ AdoptFor(nodes, b, a).outcome \in {"returns", "raises"}
        BY <2>1, ValidReturns, AdoptForReturns
      <3>2. CASE /\ ensurePreInsertionValidity(nodes, a, b, c) = "returns"
                 /\ AdoptFor(nodes, b, a).outcome = "returns"
        BY <2>1, <2>3, <3>2, PreInsertReturns
      <3>3. CASE \/ ensurePreInsertionValidity(nodes, a, b, c) # "returns"
                 \/ AdoptFor(nodes, b, a).outcome # "returns"
        BY <2>3, <3>1, <3>3, PreInsertEnds
      <3> QED
        BY <3>2, <3>3
    <2>4. ASSUME NEW c \in DOMAIN nodes, r = replaceChild(nodes, a, b, c) PROVE Ends(r)
      <3>1. /\ ensurePreInsertionValidity(nodes, b, a, c) \in {"returns", "raises"}
            /\ AdoptFor(nodes, a, b).outcome \in {"returns", "raises"}
            /\ AdoptFor(nodes, a, b).outcome # "returns" => AdoptFor(nodes, a, b).nodes = nodes
        BY <2>1, ValidReturns, AdoptForReturns, AdoptForEnds
      <3>2. CASE /\ ensurePreInsertionValidity(nodes, b, a, c) = "returns"
                 /\ AdoptFor(nodes, a, b).outcome = "returns"
        BY <2>1, <2>4, <3>2, ReplaceChildReturns
      <3>3. CASE ensurePreInsertionValidity(nodes, b, a, c) # "returns"
        BY <2>4, <3>1, <3>3 DEF replaceChild, Result
      <3>4. CASE /\ ensurePreInsertionValidity(nodes, b, a, c) = "returns"
                 /\ AdoptFor(nodes, a, b).outcome # "returns"
        BY <2>4, <3>1, <3>4 DEF replaceChild
      <3> QED
        BY <3>2, <3>3, <3>4
    <2> HIDE DEF Ends
    <2> QED
      BY <1>1, <2>2, <2>3, <2>4 DEF Nodes
  <1>2. IInv => CallsAreAtomic
    BY <1>1 DEF CallsAreAtomic
  <1> QED
    BY <1>2, InductiveInvariant, PTL

-----------------------------------------------------------------------------
(***************************************************************************)
(* Where a node comes to be.                                               *)
(***************************************************************************)

\* The list s without s[k].
LEMMA WithoutAt ==
    ASSUME NEW S, NEW s \in Seq(S), IsInjective(s), NEW k \in 1 .. Len(s)
    PROVE  /\ Without(s, s[k]) = RemoveAt(s, k)
           /\ Without(s, s[k]) \in Seq(S) /\ Len(Without(s, s[k])) = Len(s) - 1
           /\ \A j \in 1 .. Len(s) - 1 :
                Without(s, s[k])[j] = IF j < k THEN s[j] ELSE s[j + 1]
           /\ IsInjective(Without(s, s[k]))
  <1>1. s[k] \in ToSet(s) /\ k \in 1 .. Len(s)
    BY DEF ToSet
  <1>2. PositionIn(s, s[k]) = k
    BY PositionInOnce
  <1>3. Without(s, s[k]) = RemoveAt(s, k)
    BY <1>1, <1>2 DEF Without
  <1>4. /\ RemoveAt(s, k) \in Seq(S) /\ Len(RemoveAt(s, k)) = Len(s) - 1
        /\ \A j \in 1 .. Len(s) - 1 : RemoveAt(s, k)[j] = IF j < k THEN s[j] ELSE s[j + 1]
        /\ IsInjective(RemoveAt(s, k))
    BY <1>1, RemoveAtProperties, RemoveAtOnce
  <1> QED
    BY <1>3, <1>4

\* Where PlaceBefore puts an element into the list l.
Slot(l, ref) == IF ref = NULL THEN Len(l) + 1 ELSE PositionIn(l, ref)

\* Before what follows an element is where that element was, or last if nothing does.
LEMMA SlotBehind ==
    ASSUME NEW S, NULL \notin S, NEW s \in Seq(S), IsInjective(s), NEW j \in 1 .. Len(s),
           NEW ref, ref = IF j = Len(s) THEN NULL ELSE s[j + 1]
    PROVE  Slot(Without(s, s[j]), ref) = j
  <1> DEFINE l == Without(s, s[j])
  <1>1. /\ l \in Seq(S) /\ Len(l) = Len(s) - 1 /\ IsInjective(l)
        /\ \A i \in 1 .. Len(s) - 1 : l[i] = IF i < j THEN s[i] ELSE s[i + 1]
    BY WithoutAt
  <1> HIDE DEF l
  <1>2. Len(s) \in Nat /\ j \in Nat /\ j \in 1 .. Len(s)
    OBVIOUS
  <1>3. CASE j = Len(s)
    BY <1>1, <1>2, <1>3 DEF Slot, l
  <1>4. CASE j # Len(s)
    <2>1. j \in 1 .. Len(s) - 1 /\ j + 1 \in 1 .. Len(s) /\ ~(j < j)
      BY <1>2, <1>4
    <2>2. l[j] = s[j + 1] /\ ref = s[j + 1] /\ s[j + 1] \in S
      BY <1>1, <1>4, <2>1
    <2>3. PositionIn(l, l[j]) = j
      <3>1. j \in 1 .. Len(l)
        BY <1>1, <2>1
      <3> QED
        BY <1>1, <3>1, PositionInOnce
    <2>4. ref # NULL
      BY <2>2
    <2> QED
      BY <2>2, <2>3, <2>4 DEF Slot, l
  <1> QED
    BY <1>3, <1>4

\* A node put before the sibling that follows it, or last if none does, is where it was.
LEMMA StaysInPlace ==
    ASSUME NEW t, Good(t), NEW n \in DOMAIN t, t[n].parent # NULL,
           n \in ToSet(t[t[n].parent].kids)
    PROVE  LET s == t[t[n].parent].kids
               l == Without(s, n)
           IN  InsertAt(l, Slot(l, nextSibling(t, n)), n) = s
  <1> DEFINE s   == t[t[n].parent].kids
             l   == Without(s, n)
             k   == PositionIn(s, n)
             ref == nextSibling(t, n)
  <1>1. t[n].parent \in DOMAIN t /\ NULL \notin DOMAIN t
    BY DomFields DEF Good
  <1>2. s \in Seq(DOMAIN t) /\ IsInjective(s) /\ n \in ToSet(s)
    BY <1>1, DomFields DEF Good, Listed
  <1>3. k \in 1 .. Len(s) /\ s[k] = n /\ k # 0
    <2> HIDE DEF s
    <2> QED
      BY <1>2, PositionInFinds
  <1>4. ref = IF k = Len(s) THEN NULL ELSE s[k + 1]
    BY <1>3 DEF nextSibling
  <1> HIDE DEF s, k, ref
  <1>5. Slot(Without(s, s[k]), ref) = k
    BY <1>1, <1>2, <1>3, <1>4, SlotBehind
  <1>6. l = RemoveAt(s, k)
    BY <1>2, <1>3, WithoutAt
  <1>7. InsertAt(RemoveAt(s, k), k, n) = [s EXCEPT ![k] = n]
    BY <1>2, <1>3, InsertAtRemoved
  <1>8. [s EXCEPT ![k] = n] = s
    BY <1>2, <1>3
  <1>9. InsertAt(l, Slot(l, ref), n) = s
    BY <1>3, <1>5, <1>6, <1>7, <1>8
  <1> QED
    BY <1>9 DEF s, ref

(***************************************************************************)
(* Of the children of the same parent without n, SiblingAfter is the one   *)
(* that follows child: also when n stood between the two.                  *)
(***************************************************************************)
LEMMA SiblingAfterFollows ==
    ASSUME NEW t, Good(t), NEW n \in DOMAIN t, NEW child \in DOMAIN t, child # n,
           t[n].type # "doctype", t[child].parent # NULL,
           child \in ToSet(t[t[child].parent].kids)
    PROVE  LET others == Without(t[t[child].parent].kids, n)
               j      == PositionIn(others, child)
           IN  /\ j \in 1 .. Len(others) /\ others[j] = child
               /\ SiblingAfter(t, n, child) = IF j = Len(others) THEN NULL ELSE others[j + 1]
  <1> DEFINE p == t[child].parent
             s == t[p].kids
             others == Without(s, n)
             j == PositionIn(others, child)
             c == PositionIn(s, child)
             after == nextSibling(t, child)
             ref == SiblingAfter(t, n, child)
             size == Len(s)
             Goal == /\ j \in 1 .. Len(others) /\ others[j] = child
                     /\ ref = IF j = Len(others) THEN NULL ELSE others[j + 1]
  <1>1. p \in DOMAIN t /\ NULL \notin DOMAIN t
    BY DomFields DEF Good
  <1>2. s \in Seq(DOMAIN t) /\ IsInjective(s) /\ child \in ToSet(s)
    BY <1>1, DomFields DEF Good, Listed
  <1>3. c \in 1 .. size /\ s[c] = child /\ c # 0
    <2> HIDE DEF s
    <2> QED
      BY <1>2, PositionInFinds
  <1>4. after = IF c = size THEN NULL ELSE s[c + 1]
    BY <1>3 DEF nextSibling
  <1>5. ref = IF after = n THEN nextSibling(t, n) ELSE after
    BY DEF SiblingAfter
  <1>6. n \in ToSet(s) => t[n].parent = p
    BY <1>1 DEF Good, Listed
  <1>7. n \in ToSet(s) =>
          nextSibling(t, n) = IF PositionIn(s, n) \in {0, size} THEN NULL ELSE s[PositionIn(s, n) + 1]
    BY <1>1, <1>6 DEF nextSibling
  <1> HIDE DEF p, s, c, after, ref, size
  <1>8. size \in Nat /\ c \in Nat /\ DOMAIN s = 1 .. size /\ n # NULL
    BY <1>1, <1>2, <1>3 DEF size
  <1>9. \A x, y \in 1 .. size : s[x] = s[y] => x = y
    BY <1>2, <1>8 DEF IsInjective
  <1>10. ASSUME n \notin ToSet(s) PROVE Goal
    <2>1. others = s /\ j = c
      BY <1>10 DEF Without, c
    <2>2. after # n
      <3>1. c # size => s[c + 1] \in ToSet(s)
        <4>1. \A i \in DOMAIN s : s[i] \in ToSet(s)
          BY DEF ToSet
        <4> QED
          BY <1>3, <1>8, <4>1
      <3> QED
        BY <1>4, <1>8, <1>10, <3>1
    <2> QED
      BY <1>3, <1>4, <1>5, <2>1, <2>2 DEF size
  <1>11. ASSUME n \in ToSet(s) PROVE Goal
    <2> DEFINE k == PositionIn(s, n)
    <2>1. k \in 1 .. size /\ s[k] = n /\ k # 0
      BY <1>2, <1>11, PositionInFinds DEF size
    <2>2. nextSibling(t, n) = IF k = size THEN NULL ELSE s[k + 1]
      BY <1>7, <1>11, <2>1
    <2> HIDE DEF k
    <2>3. k \in Nat /\ k # c
      BY <1>3, <1>8, <2>1
    <2>4. /\ others \in Seq(DOMAIN t) /\ IsInjective(others) /\ Len(others) = size - 1
          /\ \A i \in 1 .. size - 1 : others[i] = IF i < k THEN s[i] ELSE s[i + 1]
      BY <1>2, <2>1, WithoutAt DEF size
    <2> HIDE DEF others
    <2> DEFINE d == IF c < k THEN c ELSE c - 1
    <2>5. d \in 1 .. size - 1 /\ others[d] = child
      <3>1. CASE c < k
        <4>1. c \in 1 .. size - 1
          BY <1>3, <1>8, <2>1, <2>3, <3>1
        <4> QED
          BY <1>3, <2>4, <3>1, <4>1
      <3>2. CASE c > k
        <4>1. c - 1 \in 1 .. size - 1 /\ ~(c - 1 < k) /\ ~(c < k) /\ (c - 1) + 1 = c
          BY <1>3, <1>8, <2>1, <2>3, <3>2
        <4>2. others[c - 1] = s[c]
          BY <2>4, <4>1
        <4> QED
          BY <1>3, <4>1, <4>2
      <3> QED
        BY <1>8, <2>3, <3>1, <3>2
    <2>6. j = d
      <3>1. d \in 1 .. Len(others)
        BY <2>4, <2>5
      <3> HIDE DEF d
      <3>2. PositionIn(others, others[d]) = d
        BY <2>4, <3>1, PositionInOnce
      <3> QED
        BY <2>5, <3>2
    <2>7. ref = IF d = size - 1 THEN NULL ELSE others[d + 1]
      <3>1. CASE c = size
        <4>1. after = NULL /\ c > k /\ d = size - 1
          BY <1>3, <1>4, <1>8, <2>1, <2>3, <3>1
        <4> QED
          BY <1>5, <1>8, <4>1
      <3>2. CASE c + 1 = k
        <4>1. after = n /\ d = c /\ c < k
          BY <1>3, <1>4, <1>8, <2>1, <3>2
        <4>2. ref = IF k = size THEN NULL ELSE s[k + 1]
          BY <1>5, <2>2, <4>1
        <4>3. CASE k = size
          BY <1>8, <3>2, <4>1, <4>2, <4>3
        <4>4. CASE k # size
          <5>1. k \in 1 .. size - 1 /\ ~(k < k) /\ c # size - 1
            BY <1>8, <2>1, <3>2, <4>4
          <5>2. others[k] = s[k + 1]
            BY <2>4, <5>1
          <5> QED
            BY <3>2, <4>1, <4>2, <4>4, <5>1, <5>2
        <4> QED
          BY <4>3, <4>4
      <3>3. CASE c # size /\ c + 1 # k
        <4>1. c + 1 \in 1 .. size /\ after = s[c + 1]
          BY <1>3, <1>4, <1>8, <3>3
        <4>2. after # n
          BY <1>9, <2>1, <3>3, <4>1
        <4>3. ref = s[c + 1]
          BY <1>5, <4>1, <4>2
        <4>4. CASE c < k
          <5>1. c + 1 < k /\ c + 1 \in 1 .. size - 1 /\ d = c /\ d # size - 1
            BY <1>3, <1>8, <2>1, <2>3, <3>3, <4>4
          <5>2. others[c + 1] = s[c + 1]
            BY <2>4, <5>1
          <5> QED
            BY <4>3, <5>1, <5>2
        <4>5. CASE c > k
          <5>1. /\ d = c - 1 /\ d + 1 = c /\ c \in 1 .. size - 1 /\ ~(c < k)
                /\ d # size - 1
            BY <1>3, <1>8, <2>1, <2>3, <3>3, <4>5
          <5>2. others[c] = s[c + 1]
            BY <2>4, <5>1
          <5> QED
            BY <4>3, <5>1, <5>2
        <4> QED
          BY <1>8, <2>3, <4>4, <4>5
      <3> QED
        BY <3>1, <3>2, <3>3
    <2> HIDE DEF d
    <2> QED
      BY <2>4, <2>5, <2>6, <2>7
  <1> HIDE DEF others, j
  <1>12. Goal
    BY <1>10, <1>11
  <1> QED
    BY <1>12 DEF others, j, s, p, ref

\* What adoption could take out of its list was in the list of its parent.
LEMMA RemovedWasListed ==
    ASSUME NEW t, Good(t), NEW n \in DOMAIN t, t[n].parent # NULL, remove(t, n).outcome = "returns"
    PROVE  t[n].parent \in DOMAIN t /\ n \in ToSet(t[t[n].parent].kids)
  <1>1. t[n].parent \in DOMAIN t
    BY DomFields DEF Good
  <1>2. t[t[n].parent].kids \in Seq(DOMAIN t)
    BY <1>1, DomFields DEF Good
  <1>3. PositionIn(t[t[n].parent].kids, n) # 0
    BY DEF remove, removeChild, Raised, Result
  <1> QED
    BY <1>1, <1>2, <1>3, PositionInFinds

LEMMA InsertionInPlace ==
    ASSUME NEW t, Good(t), NEW n \in DOMAIN t, NEW parent \in DOMAIN t,
           NEW child \in DOMAIN t \cup {NULL},
           preInsert(t, n, parent, child).outcome = "returns"
    PROVE  LET r      == preInsert(t, n, parent, child)
               others == Without(t[parent].kids, n)
           IN  /\ r.nodes[n].parent = parent
               /\ r.nodes[parent].kids = IF child = n THEN t[parent].kids
                                         ELSE IF child = NULL THEN Append(others, n)
                                         ELSE InsertAt(others, PositionIn(others, child), n)
               /\ \A m \in DOMAIN t \ {parent} : r.nodes[m].kids = Without(t[m].kids, n)
               /\ \A m \in DOMAIN t \ {n} : r.nodes[m].parent = t[m].parent
               /\ r.nodes[parent].kids = InsertAt(others, Slot(others, RefOf(t, n, child)), n)
  <1> DEFINE u   == AdoptFor(t, parent, n).nodes
             r   == preInsert(t, n, parent, child)
             ref == RefOf(t, n, child)
             s   == t[parent].kids
             others == Without(s, n)
             at  == PlaceFor(u, parent, ref)
  <1>1. /\ ensurePreInsertionValidity(t, n, parent, child) = "returns"
        /\ AdoptFor(t, parent, n).outcome = "returns"
    BY PreInsertEnds
  <1>2. TakenOut(t, u, n) /\ at # 0 /\ Placed(u, r.nodes, parent, n, at)
    BY <1>1, PreInsertParts
  <1>3. NULL \notin DOMAIN t /\ (child = NULL \/ t[child].parent = parent)
    BY <1>1, ValidSays, DomFields DEF Good
  <1>4. remove(t, n).outcome = "returns"
    BY <1>1, AdoptForEnds, AdoptNodeEnds
  <1>5. child = n => ref = nextSibling(t, n)
    BY DEF RefOf
  <1>6. child # n => ref = child
    BY DEF RefOf
  <1>7. s \in Seq(DOMAIN t) /\ IsInjective(s)
    BY DomFields DEF Good, Listed
  <1> HIDE DEF u, r, ref
  <1>8. /\ DOMAIN u = DOMAIN t /\ u[parent].kids = others
        /\ \A m \in DOMAIN t : u[m].kids = Without(t[m].kids, n)
        /\ \A m \in DOMAIN t \ {n} : u[m].parent = t[m].parent
    BY <1>2, TakingOutKeepsGood DEF TakenOut
  <1>9. at = Slot(others, ref)
    BY <1>8 DEF PlaceFor, Slot
  <1> HIDE DEF at
  <1>10. /\ r.nodes[n].parent = parent
         /\ r.nodes[parent].kids = InsertAt(others, Slot(others, ref), n)
         /\ \A m \in DOMAIN t \ {parent} : r.nodes[m].kids = Without(t[m].kids, n)
         /\ \A m \in DOMAIN t \ {n} : r.nodes[m].parent = t[m].parent
    BY <1>2, <1>8, <1>9 DEF Placed
  <1>11. CASE child = n
    <2>1. t[n].parent = parent /\ t[n].parent # NULL
      BY <1>3, <1>11
    <2>2. n \in ToSet(t[t[n].parent].kids)
      BY <1>4, <2>1, RemovedWasListed
    <2>3. InsertAt(others, Slot(others, ref), n) = s
      BY <1>5, <1>11, <2>1, <2>2, StaysInPlace
    <2> QED
      BY <1>10, <1>11, <2>3 DEF r, ref
  <1>12. CASE child # n /\ child = NULL
    <2>1. others \in Seq(DOMAIN t)
      BY <1>7, WithoutOnce
    <2> HIDE DEF others
    <2>2. Slot(others, ref) = Len(others) + 1
      BY <1>6, <1>12 DEF Slot
    <2>3. InsertAt(others, Slot(others, ref), n) = Append(others, n)
      BY <2>1, <2>2, InsertAtEnd
    <2> QED
      BY <1>10, <1>12, <2>3 DEF r, ref, others
  <1>13. CASE child # n /\ child # NULL
    <2>1. Slot(others, ref) = PositionIn(others, child)
      BY <1>6, <1>13 DEF Slot
    <2> QED
      BY <1>10, <1>13, <2>1 DEF r, ref
  <1> QED
    BY <1>11, <1>12, <1>13

LEMMA ReplacementInPlace ==
    ASSUME NEW t, Good(t), NEW n \in DOMAIN t, NEW parent \in DOMAIN t, NEW child \in DOMAIN t,
           replaceChild(t, parent, n, child).outcome = "returns"
    PROVE  LET r      == replaceChild(t, parent, n, child)
               others == Without(t[parent].kids, n)
           IN  /\ r.nodes[n].parent = parent
               /\ r.nodes[parent].kids = IF child = n THEN t[parent].kids
                                         ELSE [others EXCEPT ![PositionIn(others, child)] = n]
               /\ \A m \in DOMAIN t \ {parent} : r.nodes[m].kids = Without(t[m].kids, n)
               /\ child # n => r.nodes[child].parent = NULL
  <1> DEFINE u   == AdoptFor(t, parent, n).nodes
             w   == remove(u, child).nodes
             r   == replaceChild(t, parent, n, child)
             ref == SiblingAfter(t, n, child)
             s   == t[parent].kids
             others == Without(s, n)
  <1>1. /\ ensurePreInsertionValidity(t, n, parent, child) = "returns"
        /\ AdoptFor(t, parent, n).outcome = "returns"
        /\ remove(u, child).outcome = "returns"
        /\ r = preInsert(w, n, parent, ref)
    BY DEF replaceChild, Result
  <1>2. NULL \notin DOMAIN t /\ t[child].parent = parent /\ t[child].parent # NULL
    BY <1>1, ValidSays, DomFields DEF Good
  <1>3. TakenOut(t, u, n) /\ t[n].type # "doctype"
    BY <1>1, ValidSays, AdoptForTakesOut
  <1>4. ref # NULL => ref \in DOMAIN t /\ ref # n
    BY <1>3, SiblingAfterStays
  <1>5. remove(t, n).outcome = "returns"
    BY <1>1, AdoptForEnds, AdoptNodeEnds
  <1>6. s \in Seq(DOMAIN t) /\ IsInjective(s)
    BY DomFields DEF Good, Listed
  <1>7. child = n => ref = nextSibling(t, n)
    BY NextSibling DEF SiblingAfter
  <1>8. child # n /\ child \in ToSet(s) =>
           /\ PositionIn(others, child) \in 1 .. Len(others)
           /\ others[PositionIn(others, child)] = child
           /\ ref = IF PositionIn(others, child) = Len(others) THEN NULL
                    ELSE others[PositionIn(others, child) + 1]
    BY <1>2, <1>3, SiblingAfterFollows
  <1> HIDE DEF u, r, ref
  <1>9. Good(u) /\ DOMAIN u = DOMAIN t
    BY <1>3, TakingOutKeepsGood
  <1>10. TakenOut(u, w, child)
    <2>1. u[child].type # "doctype" \/ u[child].parent # NULL
      BY <1>2, <1>3 DEF TakenOut
    <2> QED
      BY <1>1, <1>9, <2>1, RemoveTakesOut
  <1> HIDE DEF w
  <1>11. Good(w) /\ DOMAIN w = DOMAIN t
    BY <1>9, <1>10, TakingOutKeepsGood
  <1>12. \A m \in DOMAIN t : w[m].kids = Without(Without(t[m].kids, n), child)
    BY <1>3, <1>9, <1>10 DEF TakenOut
  <1>13. RefOf(w, n, ref) = ref
    <2>1. ref # n
      BY <1>2, <1>4
    <2> QED
      BY <2>1 DEF RefOf
  <1> DEFINE l == Without(w[parent].kids, n)
  <1>14. /\ r.nodes[n].parent = parent
         /\ \A m \in DOMAIN t \ {parent} : r.nodes[m].kids = Without(w[m].kids, n)
         /\ \A m \in DOMAIN t \ {n} : r.nodes[m].parent = w[m].parent
         /\ r.nodes[parent].kids = InsertAt(l, Slot(l, ref), n)
    <2>1. ref \in DOMAIN w \cup {NULL} /\ preInsert(w, n, parent, ref).outcome = "returns"
      BY <1>1, <1>4, <1>11 DEF r
    <2> HIDE DEF l
    <2> QED
      BY <1>1, <1>11, <1>13, <2>1, InsertionInPlace DEF l
  <1>15. ASSUME NEW m \in DOMAIN t
         PROVE  /\ Without(Without(Without(t[m].kids, n), n), n) = Without(t[m].kids, n)
                /\ Without(Without(Without(t[m].kids, n), child), n) = Without(Without(t[m].kids, n), child)
                /\ ToSet(Without(t[m].kids, n)) = ToSet(t[m].kids) \ {n}
    <2> DEFINE k == t[m].kids
               x == Without(k, n)
               y == Without(x, child)
    <2>1. k \in Seq(DOMAIN t) /\ IsInjective(k)
      BY DomFields DEF Good, Listed
    <2> HIDE DEF k
    <2>2. x \in Seq(DOMAIN t) /\ IsInjective(x) /\ ToSet(x) = ToSet(k) \ {n}
      BY <2>1, WithoutOnce
    <2> HIDE DEF x
    <2>3. ToSet(y) = ToSet(x) \ {child}
      BY <2>2, WithoutOnce
    <2> HIDE DEF y
    <2>4. n \notin ToSet(x) /\ n \notin ToSet(y)
      BY <2>2, <2>3
    <2>5. Without(x, n) = x /\ Without(y, n) = y
      BY <2>4 DEF Without
    <2> QED
      BY <2>2, <2>5 DEF k, x, y
  <1>16. CASE child = n
    <2>1. t[n].parent # NULL /\ t[n].parent = parent /\ n \in ToSet(s)
      BY <1>2, <1>5, <1>16, RemovedWasListed
    <2>2. l = others
      BY <1>12, <1>15, <1>16
    <2>3. InsertAt(others, Slot(others, ref), n) = s
      BY <1>7, <1>16, <2>1, StaysInPlace
    <2>4. \A m \in DOMAIN t \ {parent} : r.nodes[m].kids = Without(t[m].kids, n)
      BY <1>12, <1>14, <1>15, <1>16
    <2> QED
      BY <1>14, <1>16, <2>2, <2>3, <2>4 DEF r
  <1>17. CASE child # n
    <2> DEFINE j == PositionIn(others, child)
    <2>1. child \in ToSet(s)
      <3>1. u[child].parent = parent
        BY <1>2, <1>3, <1>17 DEF TakenOut
      <3>2. child \in ToSet(u[parent].kids)
        BY <1>1, <1>2, <1>9, <3>1, RemovedWasListed
      <3>3. u[parent].kids = Without(s, n)
        BY <1>3 DEF TakenOut
      <3> QED
        BY <1>15, <3>2, <3>3
    <2>2. j \in 1 .. Len(others) /\ others[j] = child
          /\ ref = IF j = Len(others) THEN NULL ELSE others[j + 1]
      BY <1>8, <1>17, <2>1
    <2>3. others \in Seq(DOMAIN t) /\ IsInjective(others)
      BY <1>6, WithoutOnce
    <2>4. l = Without(others, child)
      BY <1>12, <1>15
    <2> HIDE DEF others, l, j
    <2>5. Without(others, child) = RemoveAt(others, j)
      BY <2>2, <2>3, WithoutAt
    <2>6. Slot(l, ref) = j
      BY <1>2, <2>2, <2>3, <2>4, SlotBehind
    <2>7. InsertAt(l, Slot(l, ref), n) = [others EXCEPT ![j] = n]
      BY <2>2, <2>3, <2>4, <2>5, <2>6, InsertAtRemoved
    <2>8. r.nodes[child].parent = NULL
      BY <1>9, <1>10, <1>14, <1>17 DEF TakenOut
    <2>9. ASSUME NEW m \in DOMAIN t \ {parent} PROVE r.nodes[m].kids = Without(t[m].kids, n)
      <3>1. child \notin ToSet(t[m].kids)
        <4>1. ToSet(t[parent].kids) \cap ToSet(t[m].kids) = {}
          BY DEF Good, Listed
        <4> QED
          BY <2>1, <4>1
      <3>2. child \notin ToSet(Without(t[m].kids, n))
        BY <1>15, <3>1
      <3>3. w[m].kids = Without(t[m].kids, n)
        BY <1>12, <3>2 DEF Without
      <3> QED
        BY <1>12, <1>14, <1>15, <3>3
    <2> QED
      BY <1>14, <1>17, <2>7, <2>8, <2>9 DEF r, others, j
  <1> QED
    BY <1>16, <1>17

(***************************************************************************)
(* Wherever a node came from, an insertion puts it right before the        *)
(* reference child, a replacement where the replaced child was, and every  *)
(* other child keeps its order.                                            *)
(***************************************************************************)
THEOREM EveryMoveInPlace == Spec => []MovesInPlace
  <1>1. ASSUME IInv PROVE InsertsInPlace
    <2>1. Good(nodes)
      BY <1>1 DEF IInv
    <2> QED
      BY <2>1, InsertionInPlace DEF InsertsInPlace, MovedTo, Nodes
  <1>2. ASSUME IInv PROVE ReplacesInPlace
    <2>1. Good(nodes)
      BY <1>2 DEF IInv
    <2> QED
      BY <2>1, ReplacementInPlace DEF ReplacesInPlace, MovedTo, Nodes
  <1>3. IInv => MovesInPlace
    BY <1>1, <1>2 DEF MovesInPlace
  <1> QED
    BY <1>3, InductiveInvariant, PTL

-----------------------------------------------------------------------------
(***************************************************************************)
(* The attributes of the elements, which walks and their callers change:   *)
(* what getAttribute finds.                                                *)
(***************************************************************************)

\* The attributes of an element: a list, and the names under which attributes are found.
AttributeTable(as) ==
    /\ DOMAIN as = {"list", "byName", "hasTable"}
    /\ as.list \in Seq(Attributes)
    /\ as.byName \in [Names -> Nat]
    /\ as.hasTable \/ as.list = <<>>

\* All of it, when no two attributes have one name.
Found(as) == AttributeTable(as) /\ NamesDiffer(as) /\ Agrees(as)

\* Agrees, with positions for attributes.
LEMMA AgreesAt ==
    ASSUME NEW as
    PROVE  Agrees(as) <=>
             /\ \A i \in DOMAIN as.list : as.byName[as.list[i].name] = as.list[i].id
             /\ \A name \in Names :
                   as.byName[name] # 0 => \E i \in DOMAIN as.list : as.list[i].name = name
  <1>1. ToSet(as.list) = {as.list[i] : i \in DOMAIN as.list}
    BY DEF ToSet
  <1>2. (\A a \in ToSet(as.list) : as.byName[a.name] = a.id)
           <=> \A i \in DOMAIN as.list : as.byName[as.list[i].name] = as.list[i].id
    BY Zenon, <1>1
  <1>3. \A name : (\E a \in ToSet(as.list) : a.name = name)
                     <=> \E i \in DOMAIN as.list : as.list[i].name = name
    BY Zenon, <1>1
  <1> QED
    BY Zenon, <1>2, <1>3 DEF Agrees

\* The fields of the attributes in a list.
LEMMA AttributeFields ==
    ASSUME NEW list \in Seq(Attributes)
    PROVE  /\ Len(list) \in Nat /\ DOMAIN list = 1 .. Len(list)
           /\ \A i \in DOMAIN list :
                 /\ list[i] \in Attributes /\ list[i].id \in Nat /\ list[i].id # 0
                 /\ list[i].name \in Names /\ list[i].isAllowed \in BOOLEAN
  <1>1. \A a \in Attributes : a.id \in Nat /\ a.id # 0 /\ a.name \in Names /\ a.isAllowed \in BOOLEAN
    BY DEF Attributes
  <1> QED
    BY <1>1

-----------------------------------------------------------------------------
(***************************************************************************)
(* The folds of the two loops over a list.                                 *)
(***************************************************************************)

LEMMA IndexingFold ==
    ASSUME NEW list
    PROVE  set_attributes(list).byName =
             (CHOOSE f : f = [s \in SUBSET DOMAIN list |->
                                IF s = {} THEN NoAttributes.byName
                                ELSE [f[s \ {Max(s)}] EXCEPT ![list[Max(s)].name] = list[Max(s)].id]])
                [DOMAIN list]
  BY DEF set_attributes, FoldLeft, MapThenFoldSet

LEMMA RemovingFold ==
    ASSUME NEW as, NEW name
    PROVE  LET Round(l, i) == IF i \in DOMAIN l /\ l[i].name = name THEN RemoveAt(l, i) ELSE l
               at          == [i \in DOMAIN as.list |-> i]
               list        == (CHOOSE f : f = [s \in SUBSET DOMAIN at |->
                                                  IF s = {} THEN as.list
                                                  ELSE Round(f[s \ {Max(s)}], at[Max(s)])])
                                 [DOMAIN at]
           IN  removeAttribute(as, name) =
                  [as EXCEPT !.list = list,
                             !.byName = IF list = as.list THEN @ ELSE [@ EXCEPT ![name] = 0]]
  BY DEF removeAttribute, FoldLeftDomain, FoldLeft, MapThenFoldSet

(***************************************************************************)
(* What the parser's attributes are found under: after k of them the names *)
(* find these, and nothing else.                                           *)
(***************************************************************************)
LEMMA SetAttributesFound ==
    ASSUME NEW list \in Seq(Attributes), NamesDiffer(set_attributes(list))
    PROVE  Found(set_attributes(list))
  <1> DEFINE N == Len(list)
             B == [Names -> Nat]
             b == NoAttributes.byName
             Indexed(byName, i) == [byName EXCEPT ![list[i].name] = list[i].id]
             F == [x \in (1 .. N) \X B |-> Indexed(x[2], x[1])]
             Unfolds(f) == f = [s \in SUBSET (1 .. N) |->
                                   IF s = {} THEN b ELSE Indexed(f[s \ {Max(s)}], Max(s))]
             g == CHOOSE f : Unfolds(f)
  <1>0. /\ N \in Nat /\ DOMAIN list = 1 .. N
        /\ \A i \in 1 .. N : list[i].name \in Names /\ list[i].id \in Nat /\ list[i].id # 0
    BY AttributeFields
  <1>1. b \in B /\ \A name \in Names : b[name] = 0
    BY DEF NoAttributes
  <1>2. set_attributes(list).byName = g[1 .. N]
    BY <1>0, IndexingFold
  <1> HIDE DEF N, b
  <1>3. ASSUME NEW byName \in B, NEW i \in 1 .. N
        PROVE  /\ Indexed(byName, i) \in B /\ Indexed(byName, i)[list[i].name] = list[i].id
               /\ \A name \in Names \ {list[i].name} : Indexed(byName, i)[name] = byName[name]
    BY <1>0
  <1>4. F \in [(1 .. N) \X B -> B]
    BY <1>3
  <1>5. \A i \in 1 .. N, byName \in B : F[<<i, byName>>] = Indexed(byName, i)
    OBVIOUS
  <1> HIDE DEF F
  <1>6. Unfolds(g)
    <2>1. PICK f \in [SUBSET (1 .. N) -> B] : IsFold(f, N, b, F)
      BY <1>0, <1>1, <1>4, FoldExists
    <2>2. ASSUME NEW s \in SUBSET (1 .. N), s # {}
          PROVE  F[<<Max(s), f[s \ {Max(s)}]>>] = Indexed(f[s \ {Max(s)}], Max(s))
      <3>1. Max(s) \in 1 .. N /\ f[s \ {Max(s)}] \in B
        BY <1>0, <2>1, <2>2, MaxOfPositions
      <3> HIDE DEF Indexed
      <3> QED
        BY <1>5, <3>1
    <2>3. Unfolds(f)
      <3> HIDE DEF Indexed
      <3> QED
        BY <2>1, <2>2 DEF IsFold
    <2> HIDE DEF Unfolds
    <2> QED
      BY <2>3
  <1> HIDE DEF g
  <1>7. /\ g[1 .. 0] = b
        /\ \A k \in 0 .. N - 1 : g[1 .. (k + 1)] = Indexed(g[1 .. k], k + 1)
    <2>1. g[1 .. 0] = b
      <3>1. 1 .. 0 = {} /\ {} \in SUBSET (1 .. N)
        OBVIOUS
      <3> HIDE DEF Indexed
      <3> QED
        BY <1>6, <3>1
    <2>2. ASSUME NEW k \in 0 .. N - 1 PROVE g[1 .. (k + 1)] = Indexed(g[1 .. k], k + 1)
      <3>1. k + 1 \in Nat \ {0} /\ (k + 1) - 1 = k /\ 1 .. (k + 1) \in SUBSET (1 .. N)
        BY <1>0
      <3>2. 1 .. (k + 1) # {} /\ Max(1 .. (k + 1)) = k + 1 /\ (1 .. (k + 1)) \ {k + 1} = 1 .. k
        BY ONLY <3>1, MaxOfPrefix
      <3> HIDE DEF Indexed
      <3> QED
        BY <1>6, <3>1, <3>2
    <2> QED
      BY <2>1, <2>2
  <1>8. \A i, j \in 1 .. N : list[i].name = list[j].name => i = j
    BY <1>0 DEF NamesDiffer, set_attributes
  <1> DEFINE Finds(byName, k) ==
                 /\ byName \in B
                 /\ \A i \in 1 .. k : byName[list[i].name] = list[i].id
                 /\ \A name \in Names : byName[name] # 0 => \E i \in 1 .. k : list[i].name = name
             T == {k \in 0 .. N : Finds(g[1 .. k], k)}
  <1>9. 0 \in T
    BY <1>0, <1>1, <1>7
  <1>10. ASSUME NEW k \in 0 .. N - 1, k \in T PROVE k + 1 \in T
    <2>1. Finds(g[1 .. k], k) /\ k + 1 \in 1 .. N /\ k \in Nat
      BY <1>0, <1>10
    <2>2. /\ g[1 .. (k + 1)] \in B /\ g[1 .. (k + 1)][list[k + 1].name] = list[k + 1].id
          /\ \A name \in Names \ {list[k + 1].name} : g[1 .. (k + 1)][name] = g[1 .. k][name]
      <3> HIDE DEF Indexed
      <3> QED
        BY <1>3, <1>7, <2>1
    <2>3. 1 .. (k + 1) = (1 .. k) \cup {k + 1}
      BY <2>1
    <2>4. ASSUME NEW i \in 1 .. k PROVE i \in 1 .. N /\ list[i].name # list[k + 1].name
      <3>1. i \in 1 .. N /\ i # k + 1
        BY <1>0, <2>1
      <3> QED
        BY <1>8, <2>1, <3>1
    <2>5. Finds(g[1 .. (k + 1)], k + 1)
      BY <1>0, <2>1, <2>2, <2>3, <2>4
    <2>6. k + 1 \in 0 .. N
      BY <2>1
    <2> HIDE DEF Finds
    <2> QED
      BY <2>5, <2>6
  <1>11. N \in T
    <2> HIDE DEF T
    <2>1. \A k \in 0 .. N : k \in T
      BY <1>0, <1>9, <1>10, InductionUpTo
    <2> QED
      BY <1>0, <2>1
  <1>12. Finds(set_attributes(list).byName, N)
    BY <1>2, <1>11
  <1>13. /\ DOMAIN set_attributes(list) = {"list", "byName", "hasTable"}
         /\ set_attributes(list).list = list /\ set_attributes(list).hasTable = (list # <<>>)
    BY DEF set_attributes
  <1>14. AttributeTable(set_attributes(list))
    BY <1>12, <1>13 DEF AttributeTable
  <1>15. Agrees(set_attributes(list))
    BY <1>0, <1>12, <1>13, AgreesAt
  <1> QED
    BY <1>14, <1>15 DEF Found

\* After removeAttribute there is no attribute with the name, and the others are where they were.
LEMMA RemoveAttributeFound ==
    ASSUME NEW as, Found(as), NEW name
    PROVE  Found(removeAttribute(as, name))
  <1> DEFINE list == as.list
             N == Len(list)
             L == Seq(Attributes)
             at == [i \in DOMAIN list |-> i]
             Round(l, i) == IF i \in DOMAIN l /\ l[i].name = name THEN RemoveAt(l, i) ELSE l
             F == [x \in (1 .. N) \X L |-> Round(x[2], x[1])]
             Unfolds(f) == f = [s \in SUBSET (1 .. N) |->
                                   IF s = {} THEN list ELSE Round(f[s \ {Max(s)}], at[Max(s)])]
             g == CHOOSE f : Unfolds(f)
             r == g[1 .. N]
  <1>0. /\ N \in Nat /\ DOMAIN list = 1 .. N /\ DOMAIN at = 1 .. N /\ list \in L
        /\ \A i \in 1 .. N : list[i] \in Attributes
        /\ DOMAIN as = {"list", "byName", "hasTable"} /\ (as.hasTable \/ list = <<>>)
    BY AttributeFields DEF Found, AttributeTable
  <1>1. removeAttribute(as, name) =
           [as EXCEPT !.list = r, !.byName = IF r = list THEN @ ELSE [@ EXCEPT ![name] = 0]]
    <2>1. SUBSET DOMAIN at = SUBSET (1 .. N) /\ DOMAIN at = 1 .. N
      BY <1>0
    <2> QED
      BY <2>1, RemovingFold
  <1>2. \A i \in 1 .. N : at[i] = i
    BY <1>0
  <1> HIDE DEF N, at
  <1>3. ASSUME NEW l \in L, NEW i \in 1 .. N PROVE Round(l, i) \in L
    <2>1. CASE i \in DOMAIN l
      <3>1. i \in 1 .. Len(l)
        BY <2>1
      <3>2. RemoveAt(l, i) \in L
        BY <3>1, RemoveAtProperties
      <3> QED
        BY <3>2
    <2>2. CASE i \notin DOMAIN l
      BY <2>2
    <2> QED
      BY <2>1, <2>2
  <1>4. F \in [(1 .. N) \X L -> L]
    <2> HIDE DEF Round
    <2> QED
      BY <1>3
  <1>5. \A i \in 1 .. N, l \in L : F[<<i, l>>] = Round(l, i)
    <2> HIDE DEF Round
    <2> QED
      OBVIOUS
  <1> HIDE DEF F, Round
  <1>6. Unfolds(g)
    <2>1. PICK f \in [SUBSET (1 .. N) -> L] : IsFold(f, N, list, F)
      BY <1>0, <1>4, FoldExists
    <2>2. ASSUME NEW s \in SUBSET (1 .. N), s # {}
          PROVE  F[<<Max(s), f[s \ {Max(s)}]>>] = Round(f[s \ {Max(s)}], at[Max(s)])
      <3>1. Max(s) \in 1 .. N /\ f[s \ {Max(s)}] \in L
        BY <1>0, <2>1, <2>2, MaxOfPositions
      <3> QED
        BY <1>2, <1>5, <3>1
    <2>3. Unfolds(f)
      BY <2>1, <2>2 DEF IsFold
    <2> HIDE DEF Unfolds
    <2> QED
      BY <2>3
  <1> HIDE DEF g
  <1>7. g[1 .. 0] = list
    <2>1. 1 .. 0 = {} /\ {} \in SUBSET (1 .. N)
      OBVIOUS
    <2> QED
      BY <1>6, <2>1
  <1>8. ASSUME NEW k \in 0 .. N - 1 PROVE g[1 .. (k + 1)] = Round(g[1 .. k], k + 1)
    <2>1. k + 1 \in Nat \ {0} /\ (k + 1) - 1 = k /\ 1 .. (k + 1) \in SUBSET (1 .. N) /\ k + 1 \in 1 .. N
      BY <1>0
    <2>2. 1 .. (k + 1) # {} /\ Max(1 .. (k + 1)) = k + 1 /\ (1 .. (k + 1)) \ {k + 1} = 1 .. k
      BY ONLY <2>1, MaxOfPrefix
    <2>3. at[k + 1] = k + 1
      BY <1>2, <2>1
    <2> QED
      <3>1. g[1 .. (k + 1)] =
               Round(g[(1 .. (k + 1)) \ {Max(1 .. (k + 1))}], at[Max(1 .. (k + 1))])
        BY <1>6, <2>1, <2>2
      <3> QED
        BY <2>2, <2>3, <3>1
  <1>9. \A i, j \in 1 .. N : list[i].name = list[j].name => i = j
    BY <1>0 DEF Found, NamesDiffer
  \* Either the name is still to come, or the attribute that had it is gone.
  <1> DEFINE Kept(l, k) == l = list /\ \A i \in 1 .. k : list[i].name # name
             Gone(l) == \E p \in 1 .. N : list[p].name = name /\ l = RemoveAt(list, p)
             T == {k \in 0 .. N : Kept(g[1 .. k], k) \/ Gone(g[1 .. k])}
  <1>10. ASSUME NEW p \in 1 .. N, list[p].name = name
         PROVE  /\ RemoveAt(list, p) \in L /\ Len(RemoveAt(list, p)) = N - 1
                /\ DOMAIN RemoveAt(list, p) = 1 .. (N - 1)
                /\ \A j \in 1 .. (N - 1) :
                      RemoveAt(list, p)[j] = list[IF j < p THEN j ELSE j + 1]
                /\ \A j \in 1 .. (N - 1) : RemoveAt(list, p)[j].name # name
    <2>1. /\ RemoveAt(list, p) \in L /\ Len(RemoveAt(list, p)) = N - 1
          /\ \A j \in 1 .. (N - 1) :
                RemoveAt(list, p)[j] = IF j < p THEN list[j] ELSE list[j + 1]
      <3>1. list \in Seq(Attributes) /\ p \in 1 .. Len(list) /\ N = Len(list)
        BY <1>0 DEF N
      <3> HIDE DEF list
      <3> QED
        BY ONLY <3>1, RemoveAtProperties
    <2>2. DOMAIN RemoveAt(list, p) = 1 .. (N - 1)
      <3> DEFINE q == RemoveAt(list, p)
      <3>1. q \in Seq(Attributes) /\ Len(q) = N - 1
        BY <2>1
      <3> HIDE DEF q
      <3>2. DOMAIN q = 1 .. (N - 1)
        BY <3>1
      <3> QED
        BY <3>2 DEF q
    <2>3. ASSUME NEW j \in 1 .. (N - 1)
          PROVE  /\ (IF j < p THEN j ELSE j + 1) \in 1 .. N
                 /\ (IF j < p THEN j ELSE j + 1) # p
      BY <1>0
    <2>4. ASSUME NEW j \in 1 .. (N - 1)
          PROVE  /\ RemoveAt(list, p)[j] = list[IF j < p THEN j ELSE j + 1]
                 /\ RemoveAt(list, p)[j].name # name
      BY <1>9, <1>10, <2>1, <2>3
    <2> QED
      BY <2>1, <2>2, <2>4
  <1>11. 0 \in T
    <2>1. 1 .. 0 = {} /\ 0 \in 0 .. N
      BY <1>0
    <2> QED
      BY <1>7, <2>1
  <1>12. ASSUME NEW k \in 0 .. N - 1, k \in T PROVE k + 1 \in T
    <2>1. /\ k + 1 \in 1 .. N /\ k + 1 \in 0 .. N /\ 1 .. (k + 1) = (1 .. k) \cup {k + 1}
          /\ g[1 .. (k + 1)] = Round(g[1 .. k], k + 1)
      BY <1>0, <1>8
    <2>2. CASE Kept(g[1 .. k], k)
      <3>1. CASE list[k + 1].name = name
        <4>1. g[1 .. (k + 1)] = RemoveAt(list, k + 1)
          BY <1>0, <2>1, <2>2, <3>1 DEF Round
        <4> QED
          BY <2>1, <3>1, <4>1
      <3>2. CASE list[k + 1].name # name
        <4>1. g[1 .. (k + 1)] = list
          BY <1>0, <2>1, <2>2, <3>2 DEF Round
        <4> QED
          BY <2>1, <2>2, <3>2, <4>1
      <3> QED
        BY <3>1, <3>2
    <2>3. CASE Gone(g[1 .. k])
      <3>1. \A j \in DOMAIN g[1 .. k] : g[1 .. k][j].name # name
        BY <1>10, <2>3
      <3>2. g[1 .. (k + 1)] = g[1 .. k]
        BY <2>1, <3>1 DEF Round
      <3> QED
        BY <2>1, <2>3, <3>2
    <2> QED
      BY <1>12, <2>2, <2>3
  <1>13. N \in T
    <2> HIDE DEF T
    <2>1. \A k \in 0 .. N : k \in T
      BY <1>0, <1>11, <1>12, InductionUpTo
    <2> QED
      BY <1>0, <2>1
  <1> HIDE DEF r
  <1>14. Kept(r, N) \/ Gone(r)
    BY <1>13 DEF r
  <1> DEFINE rs == removeAttribute(as, name)
  <1>15. /\ DOMAIN rs = {"list", "byName", "hasTable"} /\ rs.list = r /\ rs.hasTable = as.hasTable
         /\ rs.byName = IF r = list THEN as.byName ELSE [as.byName EXCEPT ![name] = 0]
    BY <1>0, <1>1
  <1> HIDE DEF rs
  <1>16. /\ as.byName \in [Names -> Nat]
         /\ \A i \in 1 .. N : as.byName[list[i].name] = list[i].id
         /\ \A n \in Names : as.byName[n] # 0 => \E i \in 1 .. N : list[i].name = n
    BY <1>0, AgreesAt DEF Found, AttributeTable
  <1>17. CASE r = list
    <2>1. AttributeTable(rs) /\ NamesDiffer(rs)
      BY <1>15, <1>17 DEF Found, AttributeTable, NamesDiffer
    <2>2. Agrees(rs)
      <3>1. rs.list = list /\ rs.byName = as.byName
        BY <1>15, <1>17
      <3>2. Agrees(as)
        BY DEF Found
      <3> QED
        BY Zenon, <3>1, <3>2 DEF Agrees
    <2> QED
      BY <2>1, <2>2 DEF Found, rs
  <1>18. CASE r # list
    <2>1. PICK p \in 1 .. N : list[p].name = name /\ r = RemoveAt(list, p)
      BY <1>14, <1>18
    <2> DEFINE back(j) == IF j < p THEN j ELSE j + 1
    <2>2. /\ r \in L /\ DOMAIN r = 1 .. (N - 1)
          /\ \A j \in 1 .. (N - 1) : r[j] = list[back(j)] /\ r[j].name # name
      BY <1>10, <2>1
    <2>3. \A j \in 1 .. (N - 1) : back(j) \in 1 .. N
      BY <1>0
    <2>4. \A i, j \in 1 .. (N - 1) : back(i) = back(j) => i = j
      BY <1>0
    <2>5. \A i \in 1 .. N : i # p => \E j \in 1 .. (N - 1) : back(j) = i
      <3>1. ASSUME NEW i \in 1 .. N, i < p PROVE i \in 1 .. (N - 1) /\ back(i) = i
        BY <1>0, <3>1
      <3>2. ASSUME NEW i \in 1 .. N, p < i PROVE i - 1 \in 1 .. (N - 1) /\ back(i - 1) = i
        BY <1>0, <3>2
      <3>3. \A i \in 1 .. N : i # p => i < p \/ p < i
        BY <1>0
      <3> HIDE DEF back
      <3> QED
        BY <3>1, <3>2, <3>3
    <2> HIDE DEF back
    <2>6. /\ rs.byName \in [Names -> Nat]
          /\ \A n \in Names : rs.byName[n] = IF n = name THEN 0 ELSE as.byName[n]
      <3>1. rs.byName = [as.byName EXCEPT ![name] = 0]
        BY <1>15, <1>18
      <3>2. as.byName = [n \in Names |-> as.byName[n]] /\ \A n \in Names : as.byName[n] \in Nat
        BY <1>16
      <3>3. rs.byName = [n \in Names |-> IF n = name THEN 0 ELSE as.byName[n]]
        BY <3>1, <3>2
      <3>4. \A n \in Names : (IF n = name THEN 0 ELSE as.byName[n]) \in Nat
        BY <3>2
      <3>5. rs.byName \in [Names -> Nat]
        BY <3>3, <3>4
      <3>6. \A n \in Names : rs.byName[n] = IF n = name THEN 0 ELSE as.byName[n]
        BY <3>3
      <3> QED
        BY <3>5, <3>6
    <2>7. AttributeTable(rs)
      <3>1. p \in DOMAIN list
        BY <1>0
      <3>2. list # <<>>
        <4>1. DOMAIN <<>> = {}
          OBVIOUS
        <4> QED
          BY Zenon, <3>1, <4>1
      <3> QED
        BY <1>0, <1>15, <2>2, <2>6, <3>2 DEF AttributeTable
    <2>8. NamesDiffer(rs)
      <3>1. ASSUME NEW i \in 1 .. (N - 1), NEW j \in 1 .. (N - 1), r[i].name = r[j].name
            PROVE  i = j
        <4>1. list[back(i)].name = list[back(j)].name
          BY <2>2, <3>1
        <4>2. back(i) = back(j)
          BY <1>9, <2>3, <4>1
        <4> QED
          BY <2>4, <4>2
      <3> QED
        BY <1>15, <2>2, <3>1 DEF NamesDiffer
    <2>9. ASSUME NEW j \in DOMAIN rs.list PROVE rs.byName[rs.list[j].name] = rs.list[j].id
      <3>1. j \in 1 .. (N - 1) /\ rs.list[j] = list[back(j)] /\ rs.list[j].name # name
        BY <1>15, <2>2
      <3>2. back(j) \in 1 .. N /\ list[back(j)].name \in Names
        BY <1>0, <2>3, <3>1, AttributeFields
      <3> QED
        <4>1. rs.byName[list[back(j)].name] = as.byName[list[back(j)].name]
          BY <2>6, <3>1, <3>2
        <4>2. as.byName[list[back(j)].name] = list[back(j)].id
          BY <1>16, <3>2
        <4> QED
          BY <3>1, <4>1, <4>2
    <2>10. ASSUME NEW n \in Names, rs.byName[n] # 0
           PROVE  \E j \in DOMAIN rs.list : rs.list[j].name = n
      <3>1. n # name /\ as.byName[n] # 0
        BY <2>6, <2>10
      <3>2. PICK i \in 1 .. N : list[i].name = n
        BY <1>16, <3>1
      <3>3. i # p
        BY <2>1, <3>1, <3>2
      <3>4. PICK j \in 1 .. (N - 1) : back(j) = i
        BY <2>5, <3>3
      <3> QED
        BY <1>15, <2>2, <3>2, <3>4
    <2>11. Agrees(rs)
      BY <2>9, <2>10, AgreesAt
    <2> QED
      BY <2>7, <2>8, <2>11 DEF Found, rs
  <1> QED
    BY <1>17, <1>18

\* A new attribute behind the others is found, and so is the one there was, changed.
LEMMA SetAttributeFound ==
    ASSUME NEW as, Found(as), NEW name \in Names, NEW isAllowed \in BOOLEAN, NEW newId \in Nat \ {0}
    PROVE  Found(setAttribute(as, name, isAllowed, newId))
  <1> DEFINE list == as.list
             N == Len(list)
             rs == setAttribute(as, name, isAllowed, newId)
             r == rs.list
  <1>0. /\ N \in Nat /\ DOMAIN list = 1 .. N /\ list \in Seq(Attributes)
        /\ DOMAIN as = {"list", "byName", "hasTable"} /\ (as.hasTable \/ list = <<>>)
        /\ \A i \in 1 .. N : list[i] \in Attributes /\ list[i].id # 0 /\ list[i].name \in Names
    BY AttributeFields DEF Found, AttributeTable
  <1>1. /\ as.byName \in [Names -> Nat]
        /\ \A i \in 1 .. N : as.byName[list[i].name] = list[i].id
        /\ \A n \in Names : as.byName[n] # 0 => \E i \in 1 .. N : list[i].name = n
    BY <1>0, AgreesAt DEF Found, AttributeTable
  <1>2. \A i, j \in 1 .. N : list[i].name = list[j].name => i = j
    BY <1>0 DEF Found, NamesDiffer
  <1>3. CASE ~as.hasTable \/ LookedUp(as, name) = "nil"
    <2>0. as.byName[name] = 0
      <3>1. CASE ~as.hasTable
        <4>1. DOMAIN list = {}
          <5>1. list = <<>>
            BY Zenon, <1>0, <3>1
          <5>2. DOMAIN <<>> = {}
            OBVIOUS
          <5> QED
            BY Zenon, <5>1, <5>2
        <4>2. 1 .. N = {}
          BY Zenon, <1>0, <4>1
        <4> QED
          BY <1>1, <4>2
      <3>2. CASE LookedUp(as, name) = "nil"
        BY <3>2 DEF LookedUp
      <3> QED
        BY <1>3, <3>1, <3>2
    <2> DEFINE a == Attribute(newId, name, isAllowed)
    <2>1. a \in Attributes /\ a.id = newId /\ a.name = name
      BY DEF Attribute, Attributes
    <2>2. rs = [list |-> Append(list, a), byName |-> [as.byName EXCEPT ![a.name] = a.id], hasTable |-> TRUE]
      BY <1>3 DEF setAttribute, AddAttribute
    <2> HIDE DEF a, rs, N
    <2>3. /\ DOMAIN rs = {"list", "byName", "hasTable"} /\ r = Append(list, a) /\ rs.hasTable = TRUE
          /\ rs.byName = [as.byName EXCEPT ![name] = newId]
      BY <2>1, <2>2
    <2>4. /\ r \in Seq(Attributes) /\ DOMAIN r = 1 .. (N + 1) /\ r[N + 1] = a
          /\ \A i \in 1 .. N : r[i] = list[i]
      <3> DEFINE q == Append(list, a)
      <3>0. list \in Seq(Attributes) /\ a \in Attributes
        BY <1>0, <2>1
      <3> HIDE DEF list
      <3>1. /\ q \in Seq(Attributes) /\ Len(q) = Len(list) + 1 /\ q[Len(list) + 1] = a
            /\ \A i \in 1 .. Len(list) : q[i] = list[i]
        BY <3>0, AppendProperties
      <3> HIDE DEF q
      <3>2. DOMAIN q = 1 .. (Len(list) + 1)
        BY <3>0, <3>1
      <3> QED
        BY <2>3, <3>1, <3>2 DEF N, q
    <2>5. /\ rs.byName \in [Names -> Nat] /\ rs.byName[name] = newId
          /\ \A n \in Names \ {name} : rs.byName[n] = as.byName[n]
      BY <1>1, <2>3
    <2> HIDE DEF r
    <2>6. 1 .. (N + 1) = (1 .. N) \cup {N + 1} /\ N + 1 \notin 1 .. N
      BY <1>0
    <2>7. \A i \in 1 .. N : r[i].name # name
      <3>1. ASSUME NEW i \in 1 .. N, r[i].name = name PROVE FALSE
        <4>1. list[i].name = name /\ list[i].id # 0 /\ as.byName[list[i].name] = list[i].id
          BY <1>0, <1>1, <2>4, <3>1
        <4> QED
          BY <2>0, <4>1
      <3> QED
        BY <3>1
    <2>8. AttributeTable(rs)
      BY <2>3, <2>4, <2>5 DEF AttributeTable, r
    <2>9. \A i, j \in 1 .. (N + 1) : r[i].name = r[j].name => i = j
      BY <1>2, <2>1, <2>4, <2>6, <2>7
    <2>10. NamesDiffer(rs)
      BY <2>4, <2>9 DEF NamesDiffer, r
    <2>11. \A i \in 1 .. (N + 1) : rs.byName[r[i].name] = r[i].id
      <3>1. ASSUME NEW i \in 1 .. N PROVE rs.byName[r[i].name] = r[i].id
        <4>1. r[i] = list[i] /\ list[i].name \in Names \ {name}
          BY <1>0, <2>4, <2>7
        <4>2. rs.byName[list[i].name] = as.byName[list[i].name]
          BY <2>5, <4>1
        <4>3. as.byName[list[i].name] = list[i].id
          BY <1>1
        <4> QED
          BY <4>1, <4>2, <4>3
      <3>2. rs.byName[r[N + 1].name] = r[N + 1].id
        BY <2>1, <2>4, <2>5
      <3> QED
        BY <2>6, <3>1, <3>2
    <2>12. ASSUME NEW n \in Names, rs.byName[n] # 0 PROVE \E i \in 1 .. (N + 1) : r[i].name = n
      <3>1. CASE n = name
        BY <2>1, <2>4, <2>6, <3>1
      <3>2. CASE n # name
        BY <1>1, <2>4, <2>5, <2>6, <2>12, <3>2
      <3> QED
        BY <3>1, <3>2
    <2>13. Agrees(rs)
      BY <2>4, <2>11, <2>12, AgreesAt DEF r
    <2> QED
      BY <2>8, <2>10, <2>13 DEF Found, rs
  <1>4. CASE as.hasTable /\ LookedUp(as, name) = "attribute"
    <2> DEFINE Changed(a) == IF a.id = as.byName[name] THEN [a EXCEPT !.isAllowed = isAllowed] ELSE a
    <2>1. rs = [as EXCEPT !.list = [i \in DOMAIN list |-> Changed(list[i])]]
      BY <1>4 DEF setAttribute
    <2>2. ASSUME NEW a \in Attributes
          PROVE  Changed(a) \in Attributes /\ Changed(a).id = a.id /\ Changed(a).name = a.name
      BY DEF Attributes
    <2> HIDE DEF Changed, rs
    <2>3. /\ DOMAIN rs = {"list", "byName", "hasTable"} /\ rs.byName = as.byName /\ rs.hasTable
          /\ r = [i \in 1 .. N |-> Changed(list[i])]
      BY <1>0, <1>4, <2>1
    <2> HIDE DEF N
    <2>4. r \in Seq(Attributes)
      <3>1. \A i \in 1 .. N : Changed(list[i]) \in Attributes
        BY <1>0, <2>2
      <3> QED
        <4>1. [i \in 1 .. N |-> Changed(list[i])] \in [1 .. N -> Attributes]
          BY <3>1
        <4>2. r \in [1 .. N -> Attributes]
          BY Zenon, <2>3, <4>1
        <4> HIDE DEF r
        <4>3. N \in Nat
          BY <1>0
        <4> QED
          BY Zenon, <4>2, <4>3, SeqDef
    <2>5. /\ DOMAIN r = 1 .. N
          /\ \A i \in 1 .. N : r[i].id = list[i].id /\ r[i].name = list[i].name
      BY <1>0, <2>2, <2>3
    <2> HIDE DEF r
    <2>6. AttributeTable(rs)
      BY <1>1, <2>3, <2>4 DEF AttributeTable, r
    <2>7. NamesDiffer(rs)
      BY <1>2, <2>5 DEF NamesDiffer, r
    <2>8. Agrees(rs)
      <3>1. \A i \in 1 .. N : rs.byName[r[i].name] = r[i].id
        <4>1. ASSUME NEW i \in 1 .. N PROVE rs.byName[r[i].name] = r[i].id
          <5>1. r[i].id = list[i].id /\ r[i].name = list[i].name
            BY <2>5
          <5>2. as.byName[list[i].name] = list[i].id
            BY <1>1
          <5> QED
            BY <2>3, <5>1, <5>2
        <4> QED
          BY <4>1
      <3>2. ASSUME NEW n \in Names, rs.byName[n] # 0 PROVE \E i \in 1 .. N : r[i].name = n
        <4>1. PICK i \in 1 .. N : list[i].name = n
          BY <1>1, <2>3, <3>2
        <4> QED
          BY <2>5, <4>1
      <3> QED
        BY <2>5, <3>1, <3>2, AgreesAt DEF r
    <2> QED
      BY <2>6, <2>7, <2>8 DEF Found, rs
  \* A number: an error, and nothing has changed.
  <1>5. CASE as.hasTable /\ LookedUp(as, name) = "number"
    BY <1>5 DEF setAttribute
  <1> QED
    BY <1>3, <1>4, <1>5 DEF LookedUp

-----------------------------------------------------------------------------
(***************************************************************************)
(* The invariant: the elements that the parser gave no name twice.         *)
(***************************************************************************)
AttributesInv ==
    /\ DOMAIN attributes = Nodes /\ "parsed" \in DOMAIN given
    /\ \A n \in Nodes : NamesDiffer(given.parsed[n]) => Found(attributes[n])

\* What the actions of a walk do to the attributes, and to the number of nodes.
LEMMA AttributesKept ==
    ASSUME AttributesInv, DOMAIN nodes' = DOMAIN nodes, UNCHANGED <<attributes, given>>
    PROVE  AttributesInv'
  BY DEF AttributesInv, Nodes

\* The attributes of one element are changed.
LEMMA AttributesChanged ==
    ASSUME AttributesInv, NEW n, NEW as, Found(attributes[n]) => Found(as),
           attributes' = [attributes EXCEPT ![n] = as], UNCHANGED <<nodes, given>>
    PROVE  AttributesInv'
  <1>1. DOMAIN attributes' = DOMAIN attributes /\ Nodes' = Nodes /\ given' = given
    BY DEF Nodes
  <1>2. \A m \in DOMAIN attributes : attributes'[m] = IF m = n THEN as ELSE attributes[m]
    OBVIOUS
  <1> QED
    BY <1>1, <1>2 DEF AttributesInv

LEMMA InitAttributes == WalkInit => AttributesInv
  <1> SUFFICES ASSUME WalkInit PROVE AttributesInv
    OBVIOUS
  <1>1. PICK list \in AttributeLists :
           attributes = [n \in Nodes |-> IF n \in ElementNodes(nodes) THEN set_attributes(list)
                                         ELSE NoAttributes]
    BY DEF WalkInit
  <1>2. given = [nodes |-> nodes, attributes |-> attributes, parsed |-> attributes]
    BY DEF WalkInit
  <1>3. DOMAIN attributes = Nodes /\ "parsed" \in DOMAIN given /\ given.parsed = attributes
    BY <1>1, <1>2
  <1>4. list \in Seq(Attributes)
    BY AttributesAssumption
  <1>5. Found(NoAttributes)
    <2>1. /\ DOMAIN NoAttributes = {"list", "byName", "hasTable"} /\ NoAttributes.list = <<>>
          /\ NoAttributes.byName = [name \in Names |-> 0]
      BY DEF NoAttributes
    <2>2. DOMAIN NoAttributes.list = {} /\ NoAttributes.list \in Seq(Attributes)
      BY <2>1
    <2>3. AttributeTable(NoAttributes)
      BY <2>1, <2>2 DEF AttributeTable
    <2>4. NamesDiffer(NoAttributes)
      BY <2>2 DEF NamesDiffer
    <2>5. Agrees(NoAttributes)
      BY <2>1, <2>2, AgreesAt
    <2> QED
      BY <2>3, <2>4, <2>5 DEF Found
  <1>6. ASSUME NEW n \in Nodes, NamesDiffer(attributes[n]) PROVE Found(attributes[n])
    <2>1. CASE n \in ElementNodes(nodes)
      <3>1. attributes[n] = set_attributes(list)
        BY <1>1, <2>1
      <3> QED
        BY <1>4, <1>6, <3>1, SetAttributesFound
    <2>2. CASE n \notin ElementNodes(nodes)
      <3>1. attributes[n] = NoAttributes
        BY <1>1, <2>2
      <3> QED
        BY <1>5, <3>1
    <2> QED
      BY <2>1, <2>2
  <1> QED
    BY <1>3, <1>6 DEF AttributesInv

LEMMA StepAttributes == AttributesInv /\ [WalkNext]_walkVars => AttributesInv'
  <1> SUFFICES ASSUME AttributesInv, [WalkNext]_walkVars PROVE AttributesInv'
    OBVIOUS
  <1>1. CASE UNCHANGED walkVars
    BY <1>1, AttributesKept DEF walkVars
  <1>2. ASSUME NEW n \in ElementNodes(nodes), NEW name \in Names, RemoveAttribute(n, name)
        PROVE  AttributesInv'
    <2>1. /\ attributes' = [attributes EXCEPT ![n] = removeAttribute(attributes[n], name)]
          /\ UNCHANGED <<nodes, given>>
      BY <1>2 DEF RemoveAttribute
    <2>2. Found(attributes[n]) => Found(removeAttribute(attributes[n], name))
      BY RemoveAttributeFound
    <2> QED
      BY <2>1, <2>2, AttributesChanged
  <1>3. ASSUME NEW n \in ElementNodes(nodes), NEW name \in Names, NEW isAllowed \in BOOLEAN,
               SetAttribute(n, name, isAllowed)
        PROVE  AttributesInv'
    <2> DEFINE newId == Len(attributes[n].list) + 1
               as == setAttribute(attributes[n], name, isAllowed, newId)
    <2>1. attributes' = [attributes EXCEPT ![n] = as] /\ UNCHANGED <<nodes, given>>
      BY <1>3 DEF SetAttribute
    <2>2. Found(attributes[n]) => Found(as)
      <3>1. Found(attributes[n]) => newId \in Nat \ {0}
        BY DEF Found, AttributeTable
      <3> HIDE DEF newId
      <3> QED
        BY <3>1, SetAttributeFound
    <2> QED
      BY <2>1, <2>2, AttributesChanged
  <1>4. ASSUME NEW self \in Nodes, Start(self) PROVE AttributesInv'
    <2>1. /\ UNCHANGED <<nodes, attributes>>
          /\ given' = [given EXCEPT !.attributes = attributes]
      BY <1>4 DEF Start, walk, sanitize
    <2>2. DOMAIN given' = DOMAIN given /\ ("parsed" \in DOMAIN given => given'.parsed = given.parsed)
      BY <2>1
    <2> QED
      BY <2>1, <2>2 DEF AttributesInv, Nodes
  <1>5. CASE Loop
    <2>1. CASE YieldChild \/ IterChild \/ IterReturns \/ ReaderBody \/ CleanYielded \/ AttributesDone
      <3>1. UNCHANGED <<nodes, attributes, given>>
        BY <2>1 DEF YieldChild, IterChild, IterReturns, ReaderBody, CleanYielded, AttributesDone
      <3> QED
        BY <3>1, AttributesKept
    <2>2. CASE RemoveYielded
      <3>1. nodes' = remove(nodes, Last(visited)).nodes /\ UNCHANGED <<attributes, given>>
        BY <2>2 DEF RemoveYielded
      <3>2. \A t, n : DOMAIN remove(t, n).nodes = DOMAIN t
        BY DEF remove, removeChild, Returned, Raised, Result
      <3> QED
        BY <3>1, <3>2, AttributesKept
    <2>3. CASE CheckAttribute
      <3> DEFINE n == Last(visited)
                 list == attributes[n].list
                 as == removeAttribute(attributes[n], list[index].name)
      <3>1. \/ UNCHANGED attributes
            \/ attributes' = [attributes EXCEPT ![n] = as]
        BY <2>3 DEF CheckAttribute
      <3>2. UNCHANGED <<nodes, given>>
        BY <2>3 DEF CheckAttribute
      <3>3. Found(attributes[n]) => Found(as)
        BY RemoveAttributeFound
      <3> HIDE DEF n, as
      <3> QED
        BY <3>1, <3>2, <3>3, AttributesKept, AttributesChanged
    <2> QED
      BY <1>5, <2>1, <2>2, <2>3 DEF Loop
  <1> QED
    BY <1>1, <1>2, <1>3, <1>4, <1>5 DEF WalkNext, EditAttributes

\* What getAttribute answers, where names and list agree.
LEMMA GetAttributeAnswers ==
    ASSUME NEW as, AttributeTable(as), Agrees(as), NEW ns, NEW name \in Names
    PROVE  LET got == getAttribute(as, ns, name)
               key == Key(ns, name)
           IN  /\ \A a \in ToSet(as.list) :
                     a.name = key => got = [outcome |-> "returns", id |-> a.id]
               /\ got.id # 0 => \E a \in ToSet(as.list) : a.id = got.id /\ a.name = key
               /\ got.outcome = "raises" <=> key = "length" /\ \A a \in ToSet(as.list) : a.name # "length"
  <1> DEFINE key == Key(ns, name)
             got == getAttribute(as, ns, name)
             L == ToSet(as.list)
  <1>1. key \in Names
    BY LowerAssumption DEF Key
  <1>2. got = [outcome |-> IF as.byName[key] # 0 THEN "returns" ELSE IF key = "length" THEN "raises" ELSE "returns",
               id      |-> as.byName[key]]
    <2>1. LookedUp(as, key) = IF as.byName[key] # 0 THEN "attribute" ELSE IF key = "length" THEN "number" ELSE "nil"
      BY DEF LookedUp
    <2> HIDE DEF key
    <2> QED
      BY <2>1 DEF getAttribute, key
  <1>3. \A a \in L : a.name \in Names /\ a.id # 0 /\ as.byName[a.name] = a.id
    <2>1. L = {as.list[i] : i \in DOMAIN as.list} /\ as.list \in Seq(Attributes)
      BY DEF ToSet, AttributeTable
    <2>2. \A a \in L : as.byName[a.name] = a.id
      BY DEF Agrees
    <2> QED
      BY <2>1, <2>2, AttributeFields
  <1>4. as.byName[key] # 0 => \E a \in L : a.name = key
    BY <1>1 DEF Agrees
  <1> HIDE DEF key, got, L
  <1>5. \A a \in L : a.name = key => got = [outcome |-> "returns", id |-> a.id]
    BY <1>2, <1>3
  <1>6. got.id # 0 => \E a \in L : a.id = got.id /\ a.name = key
    BY <1>2, <1>3, <1>4
  <1>7. got.outcome = "raises" <=> key = "length" /\ as.byName[key] = 0
    BY <1>2
  <1>8. key = "length" => (as.byName[key] = 0 <=> \A a \in L : a.name # "length")
    BY <1>3, <1>4
  <1>9. got.outcome = "raises" <=> key = "length" /\ \A a \in L : a.name # "length"
    BY <1>7, <1>8
  <1> QED
    BY <1>5, <1>6, <1>9 DEF key, got, L

(***************************************************************************)
(* Unless the parser gave an element one name twice: after any calls of    *)
(* setAttribute and removeAttribute, and at every point of the sanitizer's *)
(* loops, which take attributes away by name, getAttribute finds each      *)
(* attribute under its name, but not one with a capital in its name in an  *)
(* HTML element; it finds none that is gone; and it raises an error for    *)
(* the name "length" alone, where no attribute has it.                     *)
(***************************************************************************)
THEOREM AttributesAlwaysFound == WalkSpec => []AttributesFound
  <1>1. AttributesInv => AttributesFound
    <2> SUFFICES ASSUME AttributesInv, NEW n \in ElementNodes(nodes), NEW ns \in {"html", "svg"},
                        NamesDiffer(given.parsed[n])
                 PROVE  LET list      == ToSet(attributes[n].list)
                            got(name) == getAttribute(attributes[n], ns, name)
                        IN  /\ \A a \in list :
                                  (ns = "html" => lower[a.name] = a.name)
                                     => got(a.name) = [outcome |-> "returns", id |-> a.id]
                            /\ \A name \in Names :
                                  /\ got(name).id # 0
                                        => \E a \in list : a.id = got(name).id /\ a.name = Key(ns, name)
                                  /\ got(name).outcome = "raises"
                                        <=> Key(ns, name) = "length" /\ \A a \in list : a.name # "length"
      BY DEF AttributesFound
    <2> DEFINE as == attributes[n]
    <2>1. AttributeTable(as) /\ Agrees(as)
      BY DEF AttributesInv, Found, ElementNodes, Nodes
    <2> HIDE DEF as
    <2>2. \A a \in ToSet(as.list) : a.name \in Names
      <3>1. ToSet(as.list) = {as.list[i] : i \in DOMAIN as.list} /\ as.list \in Seq(Attributes)
        BY <2>1 DEF ToSet, AttributeTable
      <3> QED
        BY <3>1, AttributeFields
    <2>3. ASSUME NEW name \in Names
          PROVE  LET got == getAttribute(as, ns, name)
                 IN  /\ \A a \in ToSet(as.list) :
                           a.name = Key(ns, name) => got = [outcome |-> "returns", id |-> a.id]
                     /\ got.id # 0 => \E a \in ToSet(as.list) : a.id = got.id /\ a.name = Key(ns, name)
                     /\ got.outcome = "raises"
                           <=> Key(ns, name) = "length" /\ \A a \in ToSet(as.list) : a.name # "length"
      BY <2>1, GetAttributeAnswers
    <2>4. ASSUME NEW a \in ToSet(as.list), ns = "html" => lower[a.name] = a.name
          PROVE  getAttribute(as, ns, a.name) = [outcome |-> "returns", id |-> a.id]
      <3>1. a.name = Key(ns, a.name) /\ a.name \in Names
        BY <2>2, <2>4 DEF Key
      <3> QED
        BY <2>3, <3>1
    <2> QED
      BY <2>3, <2>4 DEF as
  <1> QED
    BY <1>1, InitAttributes, StepAttributes, PTL DEF WalkSpec

-----------------------------------------------------------------------------
(***************************************************************************)
(* What lies below two children of a node.                                 *)
(***************************************************************************)

\* A node below n, but n itself, is in the list of one below n.
LEMMA BelowParent ==
    ASSUME NEW g, IsDom(g), NEW n \in DOMAIN g, NEW x \in Below(g, n), x # n
    PROVE  \E m \in Below(g, n) : x \in ToSet(g[m].kids)
  <1> SUFFICES ASSUME \A m \in Below(g, n) : x \notin ToSet(g[m].kids) PROVE FALSE
    OBVIOUS
  <1> DEFINE C == Below(g, n) \ {x}
  <1>1. /\ n \in Below(g, n) /\ Below(g, n) \subseteq DOMAIN g
        /\ \A m \in Below(g, n) : ToSet(g[m].kids) \subseteq Below(g, n)
    BY BelowClosed
  <1>2. C \in SUBSET DOMAIN g /\ n \in C /\ \A m \in C : ToSet(g[m].kids) \subseteq C
    BY <1>1
  <1>3. Below(g, n) \subseteq C
    <2> HIDE DEF C
    <2> QED
      BY <1>2, BelowClosed
  <1> QED
    BY <1>3

\* What lies below a node that lies below n lies below n.
LEMMA BelowDown ==
    ASSUME NEW g, IsDom(g), NEW n \in DOMAIN g, NEW m \in Below(g, n)
    PROVE  m \in DOMAIN g /\ Below(g, m) \subseteq Below(g, n)
  <1>1. /\ Below(g, n) \subseteq DOMAIN g
        /\ \A x \in Below(g, n) : ToSet(g[x].kids) \subseteq Below(g, n)
    BY BelowClosed
  <1> QED
    BY <1>1, BelowClosed

\* A node that is in the lists of two nodes: they are the same.
LEMMA ListedOnce ==
    ASSUME NEW g, Listed(g), NEW m \in DOMAIN g, NEW n \in DOMAIN g,
           NEW x \in ToSet(g[m].kids), x \in ToSet(g[n].kids)
    PROVE  m = n
  BY DEF Listed

\* A child does not lie below another child of its parent.
LEMMA SiblingAside ==
    ASSUME NEW g, Good(g), NEW n \in DOMAIN g,
           NEW a \in ToSet(g[n].kids), NEW b \in ToSet(g[n].kids), a # b
    PROVE  a \notin Below(g, b)
  <1> SUFFICES ASSUME a \in Below(g, b) PROVE FALSE
    OBVIOUS
  <1>1. IsDom(g) /\ Listed(g) /\ EndsBelow(g) /\ b \in DOMAIN g
    BY FoundedEnds, DomFields DEF Good
  <1>2. PICK m \in Below(g, b) : a \in ToSet(g[m].kids)
    BY <1>1, BelowParent
  <1>3. m \in DOMAIN g
    BY <1>1, BelowDown
  <1>4. m = n
    BY <1>1, <1>2, <1>3, ListedOnce
  <1> QED
    BY <1>1, <1>2, <1>4 DEF EndsBelow

\* Nothing lies below two children of a node.
LEMMA SiblingsApart ==
    ASSUME NEW g, Good(g), NEW n \in DOMAIN g,
           NEW a \in ToSet(g[n].kids), NEW b \in ToSet(g[n].kids), a # b
    PROVE  Below(g, a) \cap Below(g, b) = {}
  <1> DEFINE C == Below(g, a) \ Below(g, b)
  <1>1. IsDom(g) /\ Listed(g) /\ a \in DOMAIN g /\ b \in DOMAIN g
    BY DomFields DEF Good
  <1>2. a \notin Below(g, b) /\ b \notin Below(g, a)
    BY SiblingAside
  <1>3. /\ a \in Below(g, a) /\ Below(g, a) \subseteq DOMAIN g
        /\ \A m \in Below(g, a) : ToSet(g[m].kids) \subseteq Below(g, a)
    BY <1>1, BelowClosed
  <1>4. ASSUME NEW m \in C, NEW k \in ToSet(g[m].kids) PROVE k \in C
    <2>1. m \in DOMAIN g /\ k \in Below(g, a)
      BY <1>3
    <2>2. ASSUME k \in Below(g, b) PROVE FALSE
      <3>1. k # b
        BY <1>2, <2>1
      <3>2. PICK p \in Below(g, b) : k \in ToSet(g[p].kids)
        BY <1>1, <2>2, <3>1, BelowParent
      <3>3. p \in DOMAIN g
        BY <1>1, BelowDown
      <3>4. p = m
        BY <1>1, <2>1, <3>2, <3>3, ListedOnce
      <3> QED
        BY <3>2, <3>4
    <2> QED
      BY <2>1, <2>2
  <1>5. C \in SUBSET DOMAIN g /\ a \in C /\ \A m \in C : ToSet(g[m].kids) \subseteq C
    BY <1>2, <1>3, <1>4
  <1>6. Below(g, a) \subseteq C
    <2> HIDE DEF C
    <2> QED
      BY <1>1, <1>5, BelowClosed
  <1> QED
    BY <1>6

\* The children of a node, by their places.
LEMMA ChildAt ==
    ASSUME NEW g, Good(g), NEW n \in DOMAIN g, NEW i \in 1 .. Len(g[n].kids)
    PROVE  /\ g[n].kids[i] \in ToSet(g[n].kids) /\ g[n].kids[i] \in DOMAIN g
           /\ g[n].kids[i] \in Below(g, g[n].kids[i])
           /\ Below(g, g[n].kids[i]) \subseteq Below(g, n)
           /\ n \notin Below(g, g[n].kids[i])
           /\ \A j \in 1 .. Len(g[n].kids) :
                 i # j => /\ g[n].kids[i] # g[n].kids[j]
                          /\ Below(g, g[n].kids[i]) \cap Below(g, g[n].kids[j]) = {}
  <1>1. IsDom(g) /\ Listed(g) /\ EndsBelow(g)
    BY FoundedEnds DEF Good
  <1>2. DOMAIN g[n].kids = 1 .. Len(g[n].kids) /\ ToSet(g[n].kids) \subseteq DOMAIN g
    BY <1>1, DomFields
  <1>3. \A j \in 1 .. Len(g[n].kids) : g[n].kids[j] \in ToSet(g[n].kids)
    BY <1>2 DEF ToSet
  <1>4. /\ g[n].kids[i] \in DOMAIN g /\ Below(g, g[n].kids[i]) \subseteq Below(g, n)
        /\ g[n].kids[i] \in Below(g, g[n].kids[i])
    BY <1>1, <1>2, <1>3, BelowChild, BelowClosed
  <1>5. n \notin Below(g, g[n].kids[i])
    BY <1>1, <1>3 DEF EndsBelow
  <1>6. ASSUME NEW j \in 1 .. Len(g[n].kids), i # j
        PROVE  /\ g[n].kids[i] # g[n].kids[j]
               /\ Below(g, g[n].kids[i]) \cap Below(g, g[n].kids[j]) = {}
    <2>1. g[n].kids[i] # g[n].kids[j]
      BY <1>1, <1>2, <1>6 DEF Listed, IsInjective
    <2> QED
      BY <1>3, <2>1, SiblingsApart
  <1> QED
    BY <1>3, <1>4, <1>5, <1>6

-----------------------------------------------------------------------------
(***************************************************************************)
(* The calls of iter in progress.  Each but the last is at the child whose *)
(* own iter is the next; what they have seen is what lies below the        *)
(* children they have done, and the nodes that the inner ones are at.      *)
(***************************************************************************)
Directions == {"walk", "reverseWalk"}

FramesOf(g) == [node : DOMAIN g, length : Nat, done : Nat]

\* Where the loop of this call is, where it was last, and where it has been.
PositionOf(dir, f) == IF dir = "walk" THEN f.done + 1 ELSE f.length - f.done
LastDone(dir, f) == IF dir = "walk" THEN f.done ELSE f.length - f.done + 1
DonePositions(dir, f) == IF dir = "walk" THEN 1 .. f.done ELSE (f.length - f.done + 1) .. f.length

NextKid(g, dir, f) == g[f.node].kids[PositionOf(dir, f)]

DoneBelow(g, dir, f) == UNION {Below(g, g[f.node].kids[i]) : i \in DonePositions(dir, f)}

Path(g, dir, fs, r) ==
    /\ fs \in Seq(FramesOf(g)) /\ fs # <<>> /\ fs[1].node = r
    /\ \A i \in 1 .. Len(fs) : fs[i].length = Len(g[fs[i].node].kids) /\ fs[i].done <= fs[i].length
    /\ \A i \in 1 .. Len(fs) - 1 :
          fs[i].done < fs[i].length /\ fs[i + 1].node = NextKid(g, dir, fs[i])
    /\ \A j \in 1 .. Len(fs) : \A i \in 1 .. j - 1 : fs[j].node \in Below(g, NextKid(g, dir, fs[i]))

Seen(g, dir, fs) ==
    (UNION {DoneBelow(g, dir, fs[i]) : i \in 1 .. Len(fs)}) \cup {fs[i].node : i \in 2 .. Len(fs)}

\* The node that was seen last: the one that the last call is at, or one below the child it did last.
LastSeenAt(g, dir, fs, vis) ==
    LET f == fs[Len(fs)]
    IN  IF f.done = 0
        THEN (Len(fs) = 1 /\ vis = <<>>) \/ (vis # <<>> /\ vis[Len(vis)] = f.node)
        ELSE vis # <<>> /\ vis[Len(vis)] \in Below(g, g[f.node].kids[LastDone(dir, f)])

\* The places of a loop.
LEMMA Places ==
    ASSUME NEW dir \in Directions, NEW f, f.length \in Nat, f.done \in Nat, f.done <= f.length
    PROVE  /\ DonePositions(dir, f) \subseteq 1 .. f.length
           /\ f.done = 0 => DonePositions(dir, f) = {}
           /\ f.done = f.length => DonePositions(dir, f) = 1 .. f.length
           /\ f.done < f.length =>
                 PositionOf(dir, f) \in 1 .. f.length /\ PositionOf(dir, f) \notin DonePositions(dir, f)
           /\ f.done # 0 =>
                 /\ LastDone(dir, f) \in DonePositions(dir, f)
                 /\ IF dir = "walk" THEN LastDone(dir, f) < PositionOf(dir, f)
                    ELSE PositionOf(dir, f) < LastDone(dir, f)
  BY DEF DonePositions, PositionOf, LastDone, Directions

\* The loop goes one step on.
LEMMA PlacesNext ==
    ASSUME NEW dir \in Directions, NEW f, f.length \in Nat, f.done \in Nat, f.done < f.length,
           NEW e, e.length = f.length, e.done = f.done + 1
    PROVE  /\ DonePositions(dir, e) = DonePositions(dir, f) \cup {PositionOf(dir, f)}
           /\ LastDone(dir, e) = PositionOf(dir, f)
  BY DEF DonePositions, PositionOf, LastDone, Directions

\* The fields of the calls in progress.
LEMMA FrameFields ==
    ASSUME NEW g, NEW dir, NEW fs, NEW r, Path(g, dir, fs, r), NEW i \in 1 .. Len(fs)
    PROVE  /\ Len(fs) \in Nat \ {0} /\ DOMAIN fs = 1 .. Len(fs)
           /\ fs[i] \in FramesOf(g) /\ fs[i].node \in DOMAIN g
           /\ fs[i].length \in Nat /\ fs[i].done \in Nat
           /\ fs[i].length = Len(g[fs[i].node].kids) /\ fs[i].done <= fs[i].length
  <1>1. fs \in Seq(FramesOf(g)) /\ fs # <<>>
    BY DEF Path
  <1>2. Len(fs) \in Nat \ {0} /\ DOMAIN fs = 1 .. Len(fs) /\ fs[i] \in FramesOf(g)
    BY <1>1
  <1>3. \A f \in FramesOf(g) : f.node \in DOMAIN g /\ f.length \in Nat /\ f.done \in Nat
    BY DEF FramesOf
  <1> QED
    BY <1>2, <1>3 DEF Path

\* What has been seen, by the calls in progress.
LEMMA SeenCases ==
    ASSUME NEW g, NEW dir, NEW fs, NEW x
    PROVE  x \in Seen(g, dir, fs) <=>
             \/ \E i \in 1 .. Len(fs) : x \in DoneBelow(g, dir, fs[i])
             \/ \E i \in 2 .. Len(fs) : x = fs[i].node
  <1> DEFINE A == UNION {DoneBelow(g, dir, fs[i]) : i \in 1 .. Len(fs)}
             B == {fs[i].node : i \in 2 .. Len(fs)}
  <1>1. x \in A <=> \E i \in 1 .. Len(fs) : x \in DoneBelow(g, dir, fs[i])
    OBVIOUS
  <1>2. x \in B <=> \E i \in 2 .. Len(fs) : x = fs[i].node
    OBVIOUS
  <1>3. Seen(g, dir, fs) = A \cup B
    BY DEF Seen
  <1> HIDE DEF A, B
  <1>4. x \in Seen(g, dir, fs) <=> x \in A \/ x \in B
    BY ONLY <1>3
  <1> QED
    BY ONLY <1>1, <1>2, <1>4

\* The next child is at its place.
LEMMA NextKidAt ==
    ASSUME NEW g, Good(g), NEW dir \in Directions, NEW fs, NEW r, Path(g, dir, fs, r),
           NEW i \in 1 .. Len(fs), fs[i].done < fs[i].length
    PROVE  /\ PositionOf(dir, fs[i]) \in 1 .. Len(g[fs[i].node].kids)
           /\ PositionOf(dir, fs[i]) \notin DonePositions(dir, fs[i])
           /\ NextKid(g, dir, fs[i]) \in ToSet(g[fs[i].node].kids)
           /\ NextKid(g, dir, fs[i]) \in DOMAIN g
           /\ NextKid(g, dir, fs[i]) \in Below(g, NextKid(g, dir, fs[i]))
           /\ Below(g, NextKid(g, dir, fs[i])) \subseteq Below(g, fs[i].node)
           /\ fs[i].node \notin Below(g, NextKid(g, dir, fs[i]))
           /\ \A x \in DoneBelow(g, dir, fs[i]) : x \notin Below(g, NextKid(g, dir, fs[i]))
  <1> DEFINE n == fs[i].node
             p == PositionOf(dir, fs[i])
  <1>1. /\ n \in DOMAIN g /\ p \in 1 .. Len(g[n].kids) /\ p \notin DonePositions(dir, fs[i])
        /\ DonePositions(dir, fs[i]) \subseteq 1 .. Len(g[n].kids)
    BY FrameFields, Places
  <1>2. NextKid(g, dir, fs[i]) = g[n].kids[p]
    BY DEF NextKid
  <1>3. ASSUME NEW x \in DoneBelow(g, dir, fs[i]) PROVE x \notin Below(g, g[n].kids[p])
    <2>1. PICK j \in DonePositions(dir, fs[i]) : x \in Below(g, g[n].kids[j])
      BY DEF DoneBelow
    <2>2. j \in 1 .. Len(g[n].kids) /\ j # p
      BY <1>1, <2>1
    <2> HIDE DEF n, p
    <2>3. Below(g, g[n].kids[p]) \cap Below(g, g[n].kids[j]) = {}
      BY <1>1, <2>2, ChildAt
    <2> QED
      BY <2>1, <2>3
  <1> HIDE DEF n, p
  <1>4. /\ g[n].kids[p] \in ToSet(g[n].kids) /\ g[n].kids[p] \in DOMAIN g
        /\ g[n].kids[p] \in Below(g, g[n].kids[p])
        /\ Below(g, g[n].kids[p]) \subseteq Below(g, n) /\ n \notin Below(g, g[n].kids[p])
    BY <1>1, ChildAt
  <1> QED
    BY <1>1, <1>2, <1>3, <1>4 DEF n, p

\* A child that the last call has not done has not been seen.
LEMMA NotYetSeen ==
    ASSUME NEW g, Good(g), NEW dir \in Directions, NEW fs, NEW r, Path(g, dir, fs, r),
           NEW c, c = fs[Len(fs)],
           NEW q \in 1 .. Len(g[c.node].kids), q \notin DonePositions(dir, c)
    PROVE  g[c.node].kids[q] \notin Seen(g, dir, fs)
  <1> DEFINE k == g[c.node].kids[q]
             L == Len(fs)
  <1>0. L \in Nat \ {0} /\ L \in 1 .. L /\ IsDom(g)
    BY FrameFields DEF Good, Path
  <1>1. /\ k \in DOMAIN g /\ k \in Below(g, k) /\ Below(g, k) \subseteq Below(g, c.node)
        /\ c.node \notin Below(g, k) /\ \A x \in DoneBelow(g, dir, c) : x \notin Below(g, k)
    <2>1. /\ c.node \in DOMAIN g /\ c.length = Len(g[c.node].kids)
          /\ c.length \in Nat /\ c.done \in Nat /\ c.done <= c.length
      BY <1>0, FrameFields
    <2>2. DonePositions(dir, c) \subseteq 1 .. Len(g[c.node].kids)
      BY <2>1, Places
    <2>3. ASSUME NEW x \in DoneBelow(g, dir, c) PROVE x \notin Below(g, k)
      <3>1. PICK j \in DonePositions(dir, c) : x \in Below(g, g[c.node].kids[j])
        BY DEF DoneBelow
      <3>2. j \in 1 .. Len(g[c.node].kids) /\ j # q
        BY <2>2, <3>1
      <3>3. Below(g, g[c.node].kids[q]) \cap Below(g, g[c.node].kids[j]) = {}
        BY <2>1, <3>2, ChildAt
      <3> QED
        BY <3>1, <3>3
    <2> QED
      BY <2>1, <2>3, ChildAt
  <1>2. \A i \in 1 .. L - 1 : fs[i].done < fs[i].length /\ c.node \in Below(g, NextKid(g, dir, fs[i]))
    BY <1>0 DEF Path
  <1>3. c.node \in DOMAIN g /\ \A i \in 1 .. L : fs[i].node \in DOMAIN g
    BY <1>0, FrameFields
  <1>4. ASSUME NEW i \in 1 .. L - 1
        PROVE  /\ k \in Below(g, NextKid(g, dir, fs[i]))
               /\ \A x \in DoneBelow(g, dir, fs[i]) : x \notin Below(g, NextKid(g, dir, fs[i]))
               /\ c.node \in Below(g, fs[i].node)
    <2>1. i \in 1 .. L
      BY <1>0
    <2>2. /\ NextKid(g, dir, fs[i]) \in DOMAIN g
          /\ Below(g, NextKid(g, dir, fs[i])) \subseteq Below(g, fs[i].node)
          /\ \A x \in DoneBelow(g, dir, fs[i]) : x \notin Below(g, NextKid(g, dir, fs[i]))
      BY <1>2, <2>1, NextKidAt
    <2>3. Below(g, c.node) \subseteq Below(g, NextKid(g, dir, fs[i]))
      BY <1>0, <1>2, <2>2, BelowDown
    <2> QED
      BY <1>1, <1>2, <2>2, <2>3
  <1>5. ASSUME NEW i \in 1 .. L, k \in DoneBelow(g, dir, fs[i]) PROVE FALSE
    <2>1. i = L \/ i \in 1 .. L - 1
      BY <1>0
    <2> QED
      BY <1>1, <1>4, <1>5, <2>1
  <1>6. ASSUME NEW i \in 1 .. L, k = fs[i].node PROVE FALSE
    <2>1. CASE i = L
      BY <1>1, <1>6, <2>1
    <2>2. CASE i # L
      <3>1. i \in 1 .. L - 1
        BY <1>0, <2>2
      <3> QED
        BY <1>1, <1>4, <1>6, <3>1
    <2> QED
      BY <2>1, <2>2
  <1>7. \A i \in 2 .. L : i \in 1 .. L
    BY <1>0
  <1> QED
    BY <1>5, <1>6, <1>7, SeenCases

\* What was seen last comes before the next child.
LEMMA SeenBefore ==
    ASSUME NEW g, Good(g), NEW dir \in Directions, NEW fs, NEW r, Path(g, dir, fs, r),
           NEW c, c = fs[Len(fs)], c.done < c.length,
           NEW vis, vis # <<>>, LastSeenAt(g, dir, fs, vis),
           NEW l, l = vis[Len(vis)], NEW k, k = NextKid(g, dir, c)
    PROVE  \/ k \in Under(g, l)
           \/ \E p \in DOMAIN g : \E i, j \in DOMAIN g[p].kids :
                 /\ l \in Below(g, g[p].kids[i]) /\ k \in Below(g, g[p].kids[j])
                 /\ IF dir = "walk" THEN i < j ELSE j < i
  <1>0. Len(fs) \in 1 .. Len(fs)
    BY FrameFields DEF Path
  <1>1. /\ c.node \in DOMAIN g /\ c.length = Len(g[c.node].kids)
        /\ c.length \in Nat /\ c.done \in Nat
    BY <1>0, FrameFields
  <1>2. /\ k \in Below(g, k) /\ Below(g, k) \subseteq Below(g, c.node) /\ c.node \notin Below(g, k)
        /\ PositionOf(dir, c) \in 1 .. Len(g[c.node].kids)
    BY <1>0, NextKidAt
  <1>3. CASE c.done = 0
    <2>1. l = c.node
      BY <1>3 DEF LastSeenAt
    <2> QED
      BY <1>2, <2>1 DEF Under
  <1>4. CASE c.done # 0
    <2> DEFINE i == LastDone(dir, c)
               j == PositionOf(dir, c)
    <2>1. l \in Below(g, g[c.node].kids[i])
      BY <1>4 DEF LastSeenAt
    <2>2. /\ i \in 1 .. Len(g[c.node].kids)
          /\ IF dir = "walk" THEN i < j ELSE j < i
      BY <1>1, <1>4, Places
    <2>3. k = g[c.node].kids[j]
      BY DEF NextKid
    <2>4. DOMAIN g[c.node].kids = 1 .. Len(g[c.node].kids)
      BY <1>1, DomFields DEF Good
    <2> HIDE DEF i, j
    <2> QED
      BY <1>1, <1>2, <2>1, <2>2, <2>3, <2>4 DEF j
  <1> QED
    BY <1>3, <1>4

\* iter is called for the next child.
LEMMA PathDown ==
    ASSUME NEW g, Good(g), NEW dir \in Directions, NEW fs, NEW r, Path(g, dir, fs, r),
           NEW c, c = fs[Len(fs)], c.done < c.length, NEW k, k = NextKid(g, dir, c),
           NEW f, f = [node |-> k, length |-> Len(g[k].kids), done |-> 0]
    PROVE  /\ Path(g, dir, Append(fs, f), r)
           /\ Seen(g, dir, Append(fs, f)) = Seen(g, dir, fs) \cup {k}
           /\ Append(fs, f)[Len(Append(fs, f))] = f
  <1> DEFINE L == Len(fs)
             gs == Append(fs, f)
  <1>0. L \in Nat \ {0} /\ L \in 1 .. L /\ IsDom(g) /\ fs \in Seq(FramesOf(g))
    BY FrameFields DEF Good, Path
  <1>1. k \in DOMAIN g /\ k \in Below(g, k) /\ k \in ToSet(g[c.node].kids) /\ c.node \in DOMAIN g
    BY <1>0, NextKidAt, FrameFields
  <1>2. f \in FramesOf(g) /\ f.node = k /\ f.length = Len(g[k].kids) /\ f.done = 0 /\ f.length \in Nat
    <2>1. g[k].kids \in Seq(DOMAIN g)
      BY <1>0, <1>1, DomFields
    <2>2. Len(g[k].kids) \in Nat
      BY <2>1
    <2> QED
      BY <1>1, <2>2 DEF FramesOf
  <1>3. /\ gs \in Seq(FramesOf(g)) /\ Len(gs) = L + 1 /\ gs # <<>>
        /\ \A i \in 1 .. L : gs[i] = fs[i]
        /\ gs[L + 1] = f
    BY <1>0, <1>2
  <1> HIDE DEF gs
  <1>4. \A i \in 1 .. L + 1 : i = L + 1 \/ i \in 1 .. L
    BY <1>0
  <1>5. Path(g, dir, gs, r)
    <2>1. gs[1].node = r
      BY <1>0, <1>3 DEF Path
    <2>2. ASSUME NEW i \in 1 .. L + 1
          PROVE  gs[i].length = Len(g[gs[i].node].kids) /\ gs[i].done <= gs[i].length
      <3>1. CASE i = L + 1
        BY <1>2, <1>3, <3>1
      <3>2. CASE i \in 1 .. L
        BY <1>3, <3>2 DEF Path
      <3> QED
        BY <1>4, <3>1, <3>2
    <2>3. ASSUME NEW i \in 1 .. L
          PROVE  gs[i].done < gs[i].length /\ gs[i + 1].node = NextKid(g, dir, gs[i])
      <3>1. CASE i = L
        BY <1>2, <1>3, <3>1
      <3>2. CASE i # L
        <4>1. i \in 1 .. L - 1 /\ i + 1 \in 1 .. L
          BY <1>0, <3>2
        <4> QED
          BY <1>3, <4>1 DEF Path
      <3> QED
        BY <3>1, <3>2
    <2>4. ASSUME NEW j \in 1 .. L + 1, NEW i \in 1 .. j - 1
          PROVE  gs[j].node \in Below(g, NextKid(g, dir, gs[i]))
      <3>1. i \in 1 .. L /\ gs[i] = fs[i]
        BY <1>0, <1>3
      <3>2. CASE j \in 1 .. L
        BY <1>3, <3>1, <3>2 DEF Path
      <3>3. CASE j = L + 1 /\ i = L
        BY <1>1, <1>2, <1>3, <3>1, <3>3
      <3>4. CASE j = L + 1 /\ i # L
        <4>1. i \in 1 .. L - 1
          BY <1>0, <3>1, <3>4
        <4>2. c.node \in Below(g, NextKid(g, dir, fs[i])) /\ NextKid(g, dir, fs[i]) \in DOMAIN g
          BY <1>0, <3>1, <4>1, NextKidAt DEF Path
        <4>3. k \in Below(g, NextKid(g, dir, fs[i]))
          BY <1>0, <1>1, <4>2, BelowClosed
        <4> QED
          BY <1>2, <1>3, <3>1, <3>4, <4>3
      <3> QED
        BY <1>4, <3>2, <3>3, <3>4
    <2>5. (L + 1) - 1 = L
      BY <1>0
    <2> QED
      BY <1>3, <2>1, <2>2, <2>3, <2>4, <2>5 DEF Path
  <1>6. DoneBelow(g, dir, f) = {}
    <2>1. DonePositions(dir, f) = {}
      BY <1>2, Places
    <2> QED
      BY <2>1 DEF DoneBelow
  <1>7. ASSUME NEW x PROVE x \in Seen(g, dir, gs) <=> x \in Seen(g, dir, fs) \cup {k}
    <2>1. (\E i \in 1 .. L + 1 : x \in DoneBelow(g, dir, gs[i]))
            <=> \E i \in 1 .. L : x \in DoneBelow(g, dir, fs[i])
      <3>1. \A i \in 1 .. L : i \in 1 .. L + 1
        BY <1>0
      <3> QED
        BY <1>3, <1>4, <1>6, <3>1
    <2>2. (\E i \in 2 .. L + 1 : x = gs[i].node) <=> ((\E i \in 2 .. L : x = fs[i].node) \/ x = k)
      <3>1. \A i \in 2 .. L + 1 : i = L + 1 \/ i \in 2 .. L
        BY <1>0
      <3>2. \A i \in 2 .. L : i \in 2 .. L + 1 /\ i \in 1 .. L
        BY <1>0
      <3>3. L + 1 \in 2 .. L + 1
        BY <1>0
      <3> QED
        BY <1>2, <1>3, <3>1, <3>2, <3>3
    <2>3. x \in Seen(g, dir, gs) <=>
             \/ \E i \in 1 .. L + 1 : x \in DoneBelow(g, dir, gs[i])
             \/ \E i \in 2 .. L + 1 : x = gs[i].node
      BY <1>3, SeenCases
    <2>4. x \in Seen(g, dir, fs) <=>
             \/ \E i \in 1 .. L : x \in DoneBelow(g, dir, fs[i])
             \/ \E i \in 2 .. L : x = fs[i].node
      BY SeenCases
    <2> QED
      BY <2>1, <2>2, <2>3, <2>4
  <1> QED
    BY <1>3, <1>5, <1>7 DEF gs

\* What lies below a node whose children are all done.
LEMMA AllDone ==
    ASSUME NEW g, Good(g), NEW dir \in Directions, NEW f, f.node \in DOMAIN g,
           f.length = Len(g[f.node].kids), f.done = f.length
    PROVE  DoneBelow(g, dir, f) = Under(g, f.node)
  <1> DEFINE n == f.node
  <1>0. /\ IsDom(g) /\ EndsBelow(g) /\ n \in DOMAIN g
        /\ DOMAIN g[n].kids = 1 .. Len(g[n].kids) /\ Len(g[n].kids) \in Nat
    BY FoundedEnds, DomFields DEF Good
  <1>1. DonePositions(dir, f) = 1 .. Len(g[n].kids)
    BY <1>0, Places
  <1>2. ToSet(g[n].kids) = {g[n].kids[i] : i \in 1 .. Len(g[n].kids)}
    BY <1>0 DEF ToSet
  <1>3. ASSUME NEW x \in DoneBelow(g, dir, f) PROVE x \in Under(g, n)
    <2>1. PICK i \in 1 .. Len(g[n].kids) : x \in Below(g, g[n].kids[i])
      BY <1>1, <1>3 DEF DoneBelow
    <2> HIDE DEF n
    <2>2. Below(g, g[n].kids[i]) \subseteq Below(g, n) /\ n \notin Below(g, g[n].kids[i])
      BY <1>0, ChildAt
    <2> QED
      BY <2>1, <2>2 DEF Under
  <1>4. ASSUME NEW x \in Under(g, n) PROVE x \in DoneBelow(g, dir, f)
    <2>1. PICK k \in ToSet(g[n].kids) : x \in Below(g, k)
      <3> HIDE DEF n
      <3> QED
        BY <1>0, <1>4, BelowCases DEF Under
    <2> QED
      BY <1>1, <1>2, <2>1 DEF DoneBelow
  <1> QED
    BY <1>3, <1>4

\* iter returns to the call that is now the last, which goes on.
LEMMA PathUp ==
    ASSUME NEW g, Good(g), NEW dir \in Directions, NEW fs, NEW r, Path(g, dir, fs, r),
           NEW c, c = fs[Len(fs)], c.done = c.length, Len(fs) # 1,
           NEW hs, hs = Advanced(Front(fs)),
           NEW vis, LastSeenAt(g, dir, fs, vis)
    PROVE  /\ Path(g, dir, hs, r) /\ Seen(g, dir, hs) = Seen(g, dir, fs)
           /\ LastSeenAt(g, dir, hs, vis)
  <1> DEFINE K == Len(fs) - 1
             b == fs[K]
             e == [b EXCEPT !.done = @ + 1]
  <1>0. /\ Len(fs) \in Nat \ {0} /\ IsDom(g) /\ fs \in Seq(FramesOf(g))
    <2>1. fs \in Seq(FramesOf(g)) /\ fs # <<>> /\ IsDom(g)
      BY DEF Good, Path
    <2> QED
      BY <2>1
  <1>1. K \in Nat \ {0} /\ K \in 1 .. K /\ K \in 1 .. Len(fs) /\ Len(fs) = K + 1 /\ K + 1 \in 1 .. Len(fs)
    <2> DEFINE L == Len(fs)
    <2>1. L \in Nat \ {0} /\ L # 1 /\ K = L - 1
      BY <1>0
    <2> HIDE DEF L, K
    <2>2. K \in Nat \ {0} /\ K \in 1 .. K /\ K \in 1 .. L /\ L = K + 1 /\ K + 1 \in 1 .. L
      BY ONLY <2>1
    <2> QED
      BY <2>2 DEF L
  <1>2. /\ b \in FramesOf(g) /\ b.node \in DOMAIN g /\ b.length \in Nat /\ b.done \in Nat
        /\ b.length = Len(g[b.node].kids)
        /\ c.node \in DOMAIN g /\ c.length = Len(g[c.node].kids) /\ c.length \in Nat /\ c.done \in Nat
    <2> DEFINE L == Len(fs)
    <2>1. c = fs[L] /\ L \in 1 .. Len(fs) /\ K \in 1 .. Len(fs)
      BY <1>1
    <2> HIDE DEF L, K
    <2> QED
      BY <2>1, FrameFields
  <1>3. b.done < b.length /\ c.node = NextKid(g, dir, b)
    BY <1>1 DEF Path
  <1>4. /\ e \in FramesOf(g) /\ e.node = b.node /\ e.length = b.length /\ e.done = b.done + 1
        /\ e.done <= e.length
    BY <1>2, <1>3 DEF FramesOf
  <1>5. hs \in Seq(FramesOf(g)) /\ Len(hs) = K /\ hs # <<>> /\ hs[K] = e
        /\ \A i \in 1 .. K - 1 : hs[i] = fs[i]
    <2>1. /\ Front(fs) \in Seq(FramesOf(g)) /\ Len(Front(fs)) = K
          /\ \A i \in 1 .. K : Front(fs)[i] = fs[i]
      BY <1>0, <1>1 DEF Front
    <2>2. Front(fs) # <<>> /\ DOMAIN Front(fs) = 1 .. K
      BY <1>1, <2>1
    <2>3. hs = [Front(fs) EXCEPT ![K] = e]
      BY <1>1, <2>1, <2>2 DEF Advanced
    <2> DEFINE fr == Front(fs)
    <2>4. fr \in Seq(FramesOf(g)) /\ Len(fr) = K /\ fr # <<>> /\ hs = [fr EXCEPT ![K] = e]
      BY <2>1, <2>2, <2>3
    <2> HIDE DEF e, b, K, fr
    <2>5. hs \in Seq(FramesOf(g)) /\ Len(hs) = K /\ hs[K] = e /\ \A i \in 1 .. K - 1 : hs[i] = fr[i]
      BY <1>1, <1>4, <2>4
    <2>6. hs # <<>>
      BY <1>1, <2>5
    <2>7. \A i \in 1 .. K - 1 : fr[i] = fs[i]
      <3>1. \A i \in 1 .. K - 1 : i \in 1 .. K
        BY <1>1
      <3> QED
        BY <2>1, <3>1 DEF fr
    <2> QED
      BY <2>5, <2>6, <2>7
  <1> HIDE DEF e, b, K
  <1>6. Path(g, dir, hs, r)
    <2>1. hs[1].node = r
      <3>1. CASE K = 1
        BY <1>4, <1>5, <3>1 DEF Path, b
      <3>2. CASE K # 1
        <4>1. 1 \in 1 .. K - 1
          BY <1>1, <3>2
        <4> QED
          BY <1>5, <4>1 DEF Path
      <3> QED
        BY <3>1, <3>2
    <2>2. ASSUME NEW i \in 1 .. K
          PROVE  hs[i].length = Len(g[hs[i].node].kids) /\ hs[i].done <= hs[i].length
      <3>1. CASE i = K
        BY <1>2, <1>4, <1>5, <3>1
      <3>2. CASE i # K
        <4>1. i \in 1 .. K - 1 /\ i \in 1 .. Len(fs)
          BY <1>1, <3>2
        <4> QED
          BY <1>5, <4>1 DEF Path
      <3> QED
        BY <3>1, <3>2
    <2>3. \A i \in 1 .. K : hs[i].node = fs[i].node
      <3>1. ASSUME NEW i \in 1 .. K PROVE hs[i].node = fs[i].node
        <4>1. i = K \/ i \in 1 .. K - 1
          BY <1>1
        <4> QED
          BY <1>4, <1>5, <4>1 DEF b
      <3> QED
        BY <3>1
    <2>4. ASSUME NEW i \in 1 .. K - 1
          PROVE  hs[i].done < hs[i].length /\ hs[i + 1].node = NextKid(g, dir, hs[i])
      <3>1. i + 1 \in 1 .. K /\ i \in 1 .. Len(fs) - 1
        BY <1>1
      <3> QED
        BY <1>5, <2>3, <3>1 DEF Path
    <2>5. ASSUME NEW j \in 1 .. K, NEW i \in 1 .. j - 1
          PROVE  hs[j].node \in Below(g, NextKid(g, dir, hs[i]))
      <3>1. i \in 1 .. K - 1 /\ j \in 1 .. Len(fs)
        BY <1>1
      <3> QED
        BY <1>5, <2>3, <3>1 DEF Path
    <2> QED
      BY <1>5, <2>1, <2>2, <2>3, <2>4, <2>5 DEF Path
  <1>7. /\ DonePositions(dir, e) = DonePositions(dir, b) \cup {PositionOf(dir, b)}
        /\ LastDone(dir, e) = PositionOf(dir, b)
    BY <1>2, <1>3, <1>4, PlacesNext
  <1>8. g[e.node].kids[LastDone(dir, e)] = c.node
    BY <1>3, <1>4, <1>7 DEF NextKid
  <1>9. DoneBelow(g, dir, e) = DoneBelow(g, dir, b) \cup Below(g, c.node)
    BY <1>3, <1>4, <1>7 DEF DoneBelow, NextKid
  <1>10. DoneBelow(g, dir, c) = Below(g, c.node) \ {c.node} /\ c.node \in Below(g, c.node)
    BY <1>0, <1>2, AllDone, BelowClosed DEF Under
  <1>11. ASSUME NEW x PROVE x \in Seen(g, dir, hs) <=> x \in Seen(g, dir, fs)
    <2>1. (\E i \in 1 .. K : x \in DoneBelow(g, dir, hs[i]))
            <=> (\E i \in 1 .. K : x \in DoneBelow(g, dir, fs[i])) \/ x \in Below(g, c.node)
      <3>1. \A i \in 1 .. K : i = K \/ i \in 1 .. K - 1
        BY <1>1
      <3>2. \A i \in 1 .. K - 1 : i \in 1 .. K
        BY <1>1
      <3> QED
        BY <1>1, <1>5, <1>9, <3>1, <3>2 DEF b
    <2>2. (\E i \in 1 .. K + 1 : x \in DoneBelow(g, dir, fs[i]))
            <=> (\E i \in 1 .. K : x \in DoneBelow(g, dir, fs[i])) \/ x \in DoneBelow(g, dir, c)
      <3>1. \A i \in 1 .. K + 1 : i = K + 1 \/ i \in 1 .. K
        BY <1>1
      <3>2. \A i \in 1 .. K : i \in 1 .. K + 1
        BY <1>1
      <3> QED
        BY <1>1, <3>1, <3>2
    <2>3. (\E i \in 2 .. K : x = hs[i].node) <=> (\E i \in 2 .. K : x = fs[i].node)
      <3>1. \A i \in 2 .. K : hs[i].node = fs[i].node
        <4>1. ASSUME NEW i \in 2 .. K PROVE hs[i].node = fs[i].node
          <5>1. i = K \/ i \in 1 .. K - 1
            BY <1>1
          <5> QED
            BY <1>4, <1>5, <5>1 DEF b
        <4> QED
          BY <4>1
      <3> QED
        BY <3>1
    <2>4. (\E i \in 2 .. K + 1 : x = fs[i].node) <=> (\E i \in 2 .. K : x = fs[i].node) \/ x = c.node
      <3>1. \A i \in 2 .. K + 1 : i = K + 1 \/ i \in 2 .. K
        BY <1>1
      <3>2. \A i \in 2 .. K : i \in 2 .. K + 1
        BY <1>1
      <3>3. K + 1 \in 2 .. K + 1
        BY <1>1
      <3> QED
        BY <1>1, <3>1, <3>2, <3>3
    <2>5. x \in Seen(g, dir, hs) <=>
             \/ \E i \in 1 .. K : x \in DoneBelow(g, dir, hs[i])
             \/ \E i \in 2 .. K : x = hs[i].node
      BY <1>5, SeenCases
    <2>6. x \in Seen(g, dir, fs) <=>
             \/ \E i \in 1 .. K + 1 : x \in DoneBelow(g, dir, fs[i])
             \/ \E i \in 2 .. K + 1 : x = fs[i].node
      BY <1>1, SeenCases
    <2> QED
      BY <1>10, <2>1, <2>2, <2>3, <2>4, <2>5, <2>6
  <1>12. vis # <<>> /\ vis[Len(vis)] \in Below(g, c.node)
    <2>1. CASE c.done = 0
      BY <1>10, <2>1 DEF LastSeenAt
    <2>2. CASE c.done # 0
      <3>1. vis # <<>> /\ vis[Len(vis)] \in Below(g, g[c.node].kids[LastDone(dir, c)])
        BY <2>2 DEF LastSeenAt
      <3>2. LastDone(dir, c) \in 1 .. Len(g[c.node].kids)
        BY <1>2, <2>2, Places
      <3>3. Below(g, g[c.node].kids[LastDone(dir, c)]) \subseteq Below(g, c.node)
        BY <1>2, <3>2, ChildAt
      <3> QED
        BY <3>1, <3>3
    <2> QED
      BY <2>1, <2>2
  <1>13. LastSeenAt(g, dir, hs, vis)
    <2>1. hs[Len(hs)] = e /\ e.done # 0
      BY <1>2, <1>4, <1>5
    <2> QED
      BY <1>8, <1>12, <2>1 DEF LastSeenAt
  <1> QED
    BY <1>6, <1>11, <1>13

-----------------------------------------------------------------------------
(***************************************************************************)
(* What the sanitizer leaves of the tree.                                  *)
(***************************************************************************)

\* The list s is what is left of `list` without the nodes in gone; before the first of these
\* nothing has moved.
KeptOf(s, list, gone) ==
    /\ ToSet(s) = ToSet(list) \ gone
    /\ \A i, j \in DOMAIN s : i < j => PositionIn(list, s[i]) < PositionIn(list, s[j])
    /\ Len(s) <= Len(list)
    /\ \A at \in 1 .. Len(list) :
          (\A i \in 1 .. at : list[i] \notin gone) => at <= Len(s) /\ \A i \in 1 .. at : s[i] = list[i]

\* The tree t is what is left of g.
TreeKept(t, g, gone) ==
    /\ Good(t) /\ Len(t) = Len(g)
    /\ \A n \in DOMAIN g :
          /\ t[n].type = g[n].type /\ KeptOf(t[n].kids, g[n].kids, gone)
          /\ t[n].parent = IF n \in gone THEN NULL ELSE g[n].parent

LEMMA AllKept ==
    ASSUME NEW S, NEW list \in Seq(S), IsInjective(list)
    PROVE  KeptOf(list, list, {})
  <1>1. DOMAIN list = 1 .. Len(list) /\ Len(list) \in Nat
    OBVIOUS
  <1>2. \A i \in 1 .. Len(list) : PositionIn(list, list[i]) = i
    BY PositionInOnce
  <1>3. \A i, j \in DOMAIN list : i < j => PositionIn(list, list[i]) < PositionIn(list, list[j])
    BY <1>1, <1>2
  <1> QED
    BY <1>1, <1>3 DEF KeptOf

\* One more node is taken out.
LEMMA OneLess ==
    ASSUME NEW S, NEW list \in Seq(S), NEW s \in Seq(S), IsInjective(s), NEW gone,
           KeptOf(s, list, gone), NEW x
    PROVE  KeptOf(Without(s, x), list, gone \cup {x})
  <1>0. /\ Len(s) \in Nat /\ Len(list) \in Nat /\ DOMAIN s = 1 .. Len(s)
        /\ ToSet(s) = {s[i] : i \in 1 .. Len(s)}
    BY DEF ToSet
  <1>1. /\ ToSet(s) = ToSet(list) \ gone
        /\ \A i, j \in 1 .. Len(s) : i < j => PositionIn(list, s[i]) < PositionIn(list, s[j])
        /\ Len(s) <= Len(list)
        /\ \A at \in 1 .. Len(list) :
              (\A i \in 1 .. at : list[i] \notin gone) => at <= Len(s) /\ \A i \in 1 .. at : s[i] = list[i]
    BY <1>0 DEF KeptOf
  <1>2. CASE x \notin ToSet(s)
    BY <1>0, <1>1, <1>2 DEF KeptOf, Without
  <1>3. CASE x \in ToSet(s)
    <2>1. PICK p \in 1 .. Len(s) : s[p] = x
      BY <1>0, <1>3
    <2> DEFINE r == Without(s, x)
    <2>2. /\ r \in Seq(S) /\ Len(r) = Len(s) - 1
          /\ \A j \in 1 .. Len(s) - 1 : r[j] = IF j < p THEN s[j] ELSE s[j + 1]
      BY <2>1, WithoutAt
    <2>3. ToSet(r) = ToSet(s) \ {x}
      BY WithoutOnce
    <2> HIDE DEF r
    <2>4. DOMAIN r = 1 .. Len(s) - 1
      BY <2>2
    <2> DEFINE from(j) == IF j < p THEN j ELSE j + 1
    <2>5. \A j \in 1 .. Len(s) - 1 : r[j] = s[from(j)] /\ from(j) \in 1 .. Len(s)
      <3>1. \A j \in 1 .. Len(s) - 1 : r[j] = s[from(j)]
        BY ONLY <2>2
      <3>2. \A j \in 1 .. Len(s) - 1 : j \in 1 .. Len(s) /\ j + 1 \in 1 .. Len(s)
        BY ONLY <1>0
      <3> QED
        BY ONLY <3>1, <3>2
    <2>6. \A i, j \in 1 .. Len(s) - 1 : i < j => from(i) < from(j)
      BY <1>0
    <2> HIDE DEF from
    <2>7. \A i, j \in DOMAIN r : i < j => PositionIn(list, r[i]) < PositionIn(list, r[j])
      BY <1>1, <2>4, <2>5, <2>6
    <2>8. ASSUME NEW at \in 1 .. Len(list), \A i \in 1 .. at : list[i] \notin gone \cup {x}
          PROVE  at <= Len(r) /\ \A i \in 1 .. at : r[i] = list[i]
      <3>1. at <= Len(s) /\ \A i \in 1 .. at : s[i] = list[i]
        BY <1>1, <2>8
      <3>2. p \notin 1 .. at
        BY <2>1, <2>8, <3>1
      <3>3. at < p
        BY <1>0, <2>1, <3>2
      <3>4. at <= Len(s) - 1 /\ \A i \in 1 .. at : i \in 1 .. Len(s) - 1 /\ i < p
        BY <1>0, <2>1, <3>3
      <3> QED
        BY <2>2, <3>1, <3>4
    <2>9. ToSet(r) = ToSet(list) \ (gone \cup {x})
      BY <1>1, <2>3
    <2>10. Len(r) <= Len(list)
      BY <1>0, <1>1, <2>2
    <2> QED
      BY <2>7, <2>8, <2>9, <2>10 DEF KeptOf, r
  <1> QED
    BY <1>2, <1>3

\* The lists of a tree and of what is left of it.
LEMMA KeptLists ==
    ASSUME NEW g, Good(g), NEW t, NEW gone, TreeKept(t, g, gone), NEW n \in DOMAIN g
    PROVE  /\ DOMAIN t = DOMAIN g /\ IsDom(t)
           /\ g[n].kids \in Seq(DOMAIN g) /\ IsInjective(g[n].kids)
           /\ t[n].kids \in Seq(DOMAIN g) /\ IsInjective(t[n].kids)
           /\ Len(g[n].kids) \in Nat /\ Len(t[n].kids) \in Nat
           /\ DOMAIN g[n].kids = 1 .. Len(g[n].kids) /\ DOMAIN t[n].kids = 1 .. Len(t[n].kids)
           /\ KeptOf(t[n].kids, g[n].kids, gone)
  <1>1. IsDom(t) /\ Listed(t) /\ IsDom(g) /\ Listed(g) /\ Len(t) = Len(g)
    BY DEF Good, TreeKept
  <1>2. DOMAIN t = DOMAIN g
    BY <1>1, DomFields
  <1>3. g[n].kids \in Seq(DOMAIN g) /\ t[n].kids \in Seq(DOMAIN g)
    BY <1>1, <1>2, DomFields
  <1>4. IsInjective(g[n].kids) /\ IsInjective(t[n].kids)
    BY <1>1, <1>2 DEF Listed
  <1> QED
    BY <1>1, <1>2, <1>3, <1>4 DEF TreeKept

\* Where the loop looks for the next child it still is, if none before it is gone.
LEMMA StillThere ==
    ASSUME NEW g, Good(g), NEW t, NEW gone, TreeKept(t, g, gone), NEW n \in DOMAIN g,
           NEW at \in 1 .. Len(g[n].kids), \A i \in 1 .. at : g[n].kids[i] \notin gone
    PROVE  at \in DOMAIN t[n].kids /\ t[n].kids[at] = g[n].kids[at]
  <1>1. Len(g[n].kids) \in Nat /\ DOMAIN t[n].kids = 1 .. Len(t[n].kids) /\ Len(t[n].kids) \in Nat
    BY KeptLists
  <1>2. at <= Len(t[n].kids) /\ \A i \in 1 .. at : t[n].kids[i] = g[n].kids[i]
    BY KeptLists DEF KeptOf
  <1> QED
    BY <1>1, <1>2

\* A list of which nothing is gone has its length.
LEMMA AsLong ==
    ASSUME NEW g, Good(g), NEW t, NEW gone, TreeKept(t, g, gone), NEW n \in DOMAIN g,
           \A i \in 1 .. Len(g[n].kids) : g[n].kids[i] \notin gone
    PROVE  Len(t[n].kids) = Len(g[n].kids)
  <1> DEFINE N == Len(g[n].kids)
  <1>1. /\ N \in Nat /\ Len(t[n].kids) \in Nat /\ KeptOf(t[n].kids, g[n].kids, gone)
    BY KeptLists
  <1>2. Len(t[n].kids) <= N
    BY <1>1 DEF KeptOf
  <1>3. CASE N = 0
    BY <1>1, <1>2, <1>3
  <1>4. CASE N # 0
    <2>1. N \in 1 .. N
      BY <1>1, <1>4
    <2>2. N <= Len(t[n].kids)
      BY <1>1, <2>1 DEF KeptOf
    <2> HIDE DEF N
    <2> QED
      BY <1>1, <1>2, <2>2 DEF N
  <1> QED
    BY <1>3, <1>4

\* remove() of an element that is still in its list.
LEMMA RemoveKeeps ==
    ASSUME NEW g, Good(g), NEW t, NEW gone, TreeKept(t, g, gone),
           NEW n \in DOMAIN g, NEW x \in ToSet(g[n].kids), x \notin gone, g[x].type = "element"
    PROVE  /\ remove(t, x).outcome = "returns"
           /\ TreeKept(remove(t, x).nodes, g, gone \cup {x})
  <1> DEFINE u == remove(t, x).nodes
  <1>1. /\ DOMAIN t = DOMAIN g /\ IsDom(t) /\ Good(t) /\ IsDom(g) /\ Listed(g)
        /\ n \in DOMAIN t /\ x \in DOMAIN g /\ x \in DOMAIN t
    <2>1. Good(t) /\ IsDom(g) /\ Listed(g)
      BY DEF TreeKept, Good
    <2>2. DOMAIN t = DOMAIN g /\ IsDom(t)
      BY KeptLists
    <2>3. x \in DOMAIN g
      BY <2>1, DomFields
    <2> QED
      BY <2>1, <2>2, <2>3
  <1>2. t[x].type = "element" /\ t[x].parent = n
    <2>1. g[x].parent = n
      BY <1>1 DEF Listed
    <2> QED
      BY <1>1, <2>1 DEF TreeKept
  <1>3. n # NULL
    BY <1>1, DomFields
  <1>4. x \in ToSet(t[n].kids) /\ t[n].kids \in Seq(DOMAIN g)
    BY KeptLists DEF KeptOf
  <1>5. remove(t, x).outcome = "returns"
    <2>1. PositionIn(t[n].kids, x) # 0
      BY <1>4, PositionInFinds
    <2> QED
      BY <1>2, <1>3, <2>1 DEF remove, removeChild, Returned, Result
  <1>6. TakenOut(t, u, x)
    <2>1. t[x].type # "doctype" \/ t[x].parent # NULL
      BY <1>2
    <2> QED
      BY <1>1, <1>5, <2>1, RemoveTakesOut
  <1> HIDE DEF u
  <1>7. Good(u) /\ Len(u) = Len(t)
    <2>1. Good(u)
      BY <1>1, <1>6, TakingOutKeepsGood
    <2> QED
      BY <1>6, <2>1 DEF TakenOut
  <1>8. ASSUME NEW m \in DOMAIN g
        PROVE  /\ u[m].type = g[m].type /\ KeptOf(u[m].kids, g[m].kids, gone \cup {x})
               /\ u[m].parent = IF m \in gone \cup {x} THEN NULL ELSE g[m].parent
    <2>1. /\ u[m].type = t[m].type /\ u[m].kids = Without(t[m].kids, x)
          /\ u[m].parent = IF m = x THEN NULL ELSE t[m].parent
      BY <1>1, <1>6 DEF TakenOut
    <2>2. /\ g[m].kids \in Seq(DOMAIN g) /\ t[m].kids \in Seq(DOMAIN g) /\ IsInjective(t[m].kids)
          /\ KeptOf(t[m].kids, g[m].kids, gone)
      BY KeptLists
    <2>3. KeptOf(Without(t[m].kids, x), g[m].kids, gone \cup {x})
      BY <2>2, OneLess
    <2>4. t[m].type = g[m].type /\ t[m].parent = IF m \in gone THEN NULL ELSE g[m].parent
      BY DEF TreeKept
    <2> QED
      BY <2>1, <2>3, <2>4
  <1>9. Len(u) = Len(g)
    BY <1>7 DEF TreeKept
  <1> QED
    BY <1>5, <1>7, <1>8, <1>9 DEF TreeKept, u

-----------------------------------------------------------------------------
(***************************************************************************)
(* What the sanitizer leaves of the attributes.                            *)
(***************************************************************************)

\* Enough of a table of attributes to know the list, also if a name comes twice.
HasList(as) == DOMAIN as = {"list", "byName", "hasTable"} /\ as.list \in Seq(Attributes)

\* The attributes of the list `old` that are in `new`: all that are allowed and have a name of
\* their own, and no others but from the list.
Remain(new, old) ==
    /\ \A q \in DOMAIN new : \E i \in DOMAIN old : new[q] = old[i]
    /\ \A i \in DOMAIN old :
          old[i].isAllowed /\ (\A j \in DOMAIN old : old[j].name = old[i].name => j = i)
             => \E q \in DOMAIN new : new[q] = old[i]

\* What a list that had lost all of a name, in one pass, has at its places.
WithoutName(list, r, name) ==
    /\ \A q \in DOMAIN r :
          \E o \in DOMAIN list : /\ q <= o /\ r[q] = list[o]
                                 /\ o = q => list[o].name # name
    /\ \A o \in DOMAIN list : list[o].name # name => \E q \in DOMAIN r : r[q] = list[o]

AllowedBehind(list, i) == \A j \in DOMAIN list : j > i => list[j].isAllowed

(***************************************************************************)
(* removeAttribute on any list.  What is at a place in the end was there   *)
(* or behind it; where nothing has come forward the name is another one.   *)
(* (What has come forward may have the name: the loop has gone on.)  All   *)
(* that have another name are still there.                                 *)
(***************************************************************************)
LEMMA RemovedByName ==
    ASSUME NEW as, HasList(as), NEW name
    PROVE  /\ HasList(removeAttribute(as, name))
           /\ WithoutName(as.list, removeAttribute(as, name).list, name)
  <1> DEFINE list == as.list
             N == Len(list)
             L == Seq(Attributes)
             at == [i \in DOMAIN list |-> i]
             Round(l, i) == IF i \in DOMAIN l /\ l[i].name = name THEN RemoveAt(l, i) ELSE l
             F == [x \in (1 .. N) \X L |-> Round(x[2], x[1])]
             Unfolds(f) == f = [s \in SUBSET (1 .. N) |->
                                   IF s = {} THEN list ELSE Round(f[s \ {Max(s)}], at[Max(s)])]
             g == CHOOSE f : Unfolds(f)
             r == g[1 .. N]
  <1>0. /\ N \in Nat /\ DOMAIN list = 1 .. N /\ DOMAIN at = 1 .. N /\ list \in L
        /\ DOMAIN as = {"list", "byName", "hasTable"}
    <2>1. list \in Seq(Attributes) /\ DOMAIN as = {"list", "byName", "hasTable"}
      BY DEF HasList
    <2> HIDE DEF list
    <2> QED
      BY <2>1
  <1>1. removeAttribute(as, name) =
           [as EXCEPT !.list = r, !.byName = IF r = list THEN @ ELSE [@ EXCEPT ![name] = 0]]
    <2>1. SUBSET DOMAIN at = SUBSET (1 .. N) /\ DOMAIN at = 1 .. N
      BY <1>0
    <2> QED
      BY <2>1, RemovingFold
  <1>2. \A i \in 1 .. N : at[i] = i
    BY <1>0
  <1> HIDE DEF N, at
  <1>3. ASSUME NEW l \in L, NEW i \in 1 .. N PROVE Round(l, i) \in L
    <2>1. CASE i \in DOMAIN l
      <3>1. i \in 1 .. Len(l)
        BY <2>1
      <3>2. RemoveAt(l, i) \in L
        BY <3>1, RemoveAtProperties
      <3> QED
        BY <3>2
    <2>2. CASE i \notin DOMAIN l
      BY <2>2
    <2> QED
      BY <2>1, <2>2
  <1>4. F \in [(1 .. N) \X L -> L]
    <2> HIDE DEF Round
    <2> QED
      BY <1>3
  <1>5. \A i \in 1 .. N, l \in L : F[<<i, l>>] = Round(l, i)
    <2> HIDE DEF Round
    <2> QED
      OBVIOUS
  <1> HIDE DEF F, Round
  <1>6. Unfolds(g)
    <2>1. PICK f \in [SUBSET (1 .. N) -> L] : IsFold(f, N, list, F)
      BY <1>0, <1>4, FoldExists
    <2>2. ASSUME NEW s \in SUBSET (1 .. N), s # {}
          PROVE  F[<<Max(s), f[s \ {Max(s)}]>>] = Round(f[s \ {Max(s)}], at[Max(s)])
      <3>1. Max(s) \in 1 .. N /\ f[s \ {Max(s)}] \in L
        BY <1>0, <2>1, <2>2, MaxOfPositions
      <3> QED
        BY <1>2, <1>5, <3>1
    <2>3. Unfolds(f)
      BY <2>1, <2>2 DEF IsFold
    <2> HIDE DEF Unfolds
    <2> QED
      BY <2>3
  <1> HIDE DEF g
  <1>7. g[1 .. 0] = list
    <2>1. 1 .. 0 = {} /\ {} \in SUBSET (1 .. N)
      OBVIOUS
    <2> QED
      BY <1>6, <2>1
  <1>8. ASSUME NEW k \in 0 .. N - 1 PROVE g[1 .. (k + 1)] = Round(g[1 .. k], k + 1)
    <2>1. k + 1 \in Nat \ {0} /\ (k + 1) - 1 = k /\ 1 .. (k + 1) \in SUBSET (1 .. N) /\ k + 1 \in 1 .. N
      BY <1>0
    <2>2. 1 .. (k + 1) # {} /\ Max(1 .. (k + 1)) = k + 1 /\ (1 .. (k + 1)) \ {k + 1} = 1 .. k
      BY ONLY <2>1, MaxOfPrefix
    <2>3. at[k + 1] = k + 1
      BY <1>2, <2>1
    <2> QED
      <3>1. g[1 .. (k + 1)] =
               Round(g[(1 .. (k + 1)) \ {Max(1 .. (k + 1))}], at[Max(1 .. (k + 1))])
        BY <1>6, <2>1, <2>2
      <3> QED
        BY <2>2, <2>3, <3>1
  <1> DEFINE From(l, k) == \A q \in DOMAIN l : \E o \in 1 .. N :
                              /\ q <= o /\ l[q] = list[o]
                              /\ o = q /\ q <= k => list[o].name # name
             Others(l) == \A o \in 1 .. N : list[o].name # name => \E q \in DOMAIN l : l[q] = list[o]
             So(l, k) == l \in L /\ From(l, k) /\ Others(l)
             T == {k \in 0 .. N : So(g[1 .. k], k)}
  <1>9. 0 \in T
    <2>1. 0 \in 0 .. N /\ \A q \in 1 .. N : q <= q /\ ~(q <= 0)
      BY <1>0
    <2> HIDE DEF list, L
    <2>2. From(list, 0)
      BY <1>0, <2>1
    <2>3. Others(list)
      BY <1>0
    <2> HIDE DEF From, Others
    <2> QED
      BY <1>0, <1>7, <2>1, <2>2, <2>3
  <1>10. ASSUME NEW k \in 0 .. N - 1, k \in T PROVE k + 1 \in T
    <2>1. k \in Nat /\ k + 1 \in 1 .. N /\ k + 1 \in 0 .. N
      BY <1>0
    <2> DEFINE l == g[1 .. k]
    <2>2. l \in L /\ From(l, k) /\ Others(l)
      BY <1>10
    <2> HIDE DEF l, list
    <2>3. Len(l) \in Nat /\ DOMAIN l = 1 .. Len(l)
      BY <2>2
    <2>4. CASE ~(k + 1 \in DOMAIN l /\ l[k + 1].name = name)
      <3>1. Round(l, k + 1) = l
        BY <2>4 DEF Round
      <3>2. ASSUME NEW q \in DOMAIN l
            PROVE  \E o \in 1 .. N : /\ q <= o /\ l[q] = list[o]
                                     /\ o = q /\ q <= k + 1 => list[o].name # name
        <4>1. PICK o \in 1 .. N : /\ q <= o /\ l[q] = list[o]
                                  /\ o = q /\ q <= k => list[o].name # name
          BY <2>2
        <4>2. q <= k + 1 => q <= k \/ q = k + 1
          BY <2>1, <2>3
        <4> QED
          BY <2>4, <4>1, <4>2
      <3>3. So(l, k + 1)
        BY <2>2, <3>2
      <3> HIDE DEF So
      <3> QED
        BY <1>8, <2>1, <3>1, <3>3 DEF l
    <2>5. CASE k + 1 \in DOMAIN l /\ l[k + 1].name = name
      <3> DEFINE m == RemoveAt(l, k + 1)
      <3>1. Round(l, k + 1) = m
        BY <2>5 DEF Round
      <3>2. /\ m \in L /\ Len(m) = Len(l) - 1
            /\ \A j \in 1 .. (Len(l) - 1) : m[j] = IF j < k + 1 THEN l[j] ELSE l[j + 1]
        <4>1. k + 1 \in 1 .. Len(l) /\ l \in Seq(Attributes)
          BY <2>2, <2>3, <2>5
        <4> QED
          BY ONLY <4>1, RemoveAtProperties
      <3> HIDE DEF m
      <3>3. DOMAIN m = 1 .. (Len(l) - 1)
        BY <3>2
      <3>4. ASSUME NEW q \in DOMAIN m
            PROVE  \E o \in 1 .. N : /\ q <= o /\ m[q] = list[o]
                                     /\ o = q /\ q <= k + 1 => list[o].name # name
        <4>1. q \in Nat /\ q \in 1 .. Len(l) /\ q + 1 \in 1 .. Len(l)
          BY <2>3, <3>3
        <4>2. CASE q < k + 1
          <5>1. PICK o \in 1 .. N : /\ q <= o /\ l[q] = list[o]
                                    /\ o = q /\ q <= k => list[o].name # name
            BY <2>2, <2>3, <4>1
          <5>2. m[q] = l[q] /\ q <= k
            BY <2>1, <3>2, <3>3, <4>1, <4>2
          <5> QED
            BY <5>1, <5>2
        <4>3. CASE ~(q < k + 1)
          <5>1. PICK o \in 1 .. N : q + 1 <= o /\ l[q + 1] = list[o]
            BY <2>2, <2>3, <4>1
          <5>2. m[q] = l[q + 1] /\ q <= o /\ o # q
            BY <1>0, <3>2, <3>3, <4>1, <4>3, <5>1
          <5> QED
            BY <5>1, <5>2
        <4> QED
          BY <4>2, <4>3
      <3>5. ASSUME NEW o \in 1 .. N, list[o].name # name PROVE \E q \in DOMAIN m : m[q] = list[o]
        <4>1. PICK q \in DOMAIN l : l[q] = list[o]
          BY <2>2, <3>5
        <4>2. q # k + 1 /\ q \in 1 .. Len(l)
          BY <2>3, <2>5, <3>5, <4>1
        <4>3. CASE q < k + 1
          <5>1. q \in 1 .. (Len(l) - 1)
            BY <2>1, <2>3, <2>5, <4>2, <4>3
          <5> QED
            BY <3>2, <3>3, <4>1, <4>3, <5>1
        <4>4. CASE k + 1 < q
          <5>1. q - 1 \in 1 .. (Len(l) - 1) /\ ~(q - 1 < k + 1) /\ (q - 1) + 1 = q
            BY <2>1, <2>3, <4>2, <4>4
          <5>2. m[q - 1] = l[q]
            BY <3>2, <5>1
          <5> QED
            BY <3>3, <4>1, <5>1, <5>2
        <4> QED
          BY <2>1, <2>3, <4>2, <4>3, <4>4
      <3>6. So(m, k + 1)
        BY <3>2, <3>4, <3>5
      <3> HIDE DEF So
      <3> QED
        BY <1>8, <2>1, <3>1, <3>6 DEF l
    <2> QED
      BY <2>4, <2>5
  <1>11. N \in T
    <2> HIDE DEF T
    <2>1. \A k \in 0 .. N : k \in T
      BY <1>0, <1>9, <1>10, InductionUpTo
    <2> QED
      BY <1>0, <2>1
  <1> HIDE DEF r
  <1>12. So(r, N)
    BY <1>11 DEF r
  <1> DEFINE rs == removeAttribute(as, name)
  <1>13. DOMAIN rs = {"list", "byName", "hasTable"} /\ rs.list = r
    BY <1>0, <1>1
  <1>14. HasList(rs)
    BY <1>12, <1>13 DEF HasList
  <1>15. ASSUME NEW q \in DOMAIN r
         PROVE  \E o \in DOMAIN list : q <= o /\ r[q] = list[o] /\ (o = q => list[o].name # name)
    <2>1. PICK o \in 1 .. N : q <= o /\ r[q] = list[o] /\ (o = q /\ q <= N => list[o].name # name)
      BY <1>12
    <2>2. o = q => q <= N
      BY <1>0
    <2> QED
      BY <1>0, <2>1, <2>2
  <1>16. \A o \in DOMAIN list : list[o].name # name => \E q \in DOMAIN r : r[q] = list[o]
    BY <1>0, <1>12
  <1> HIDE DEF rs, list
  <1>17. WithoutName(list, rs.list, name)
    BY <1>13, <1>15, <1>16 DEF WithoutName
  <1> QED
    BY <1>14, <1>17 DEF rs, list

\* One round of the sanitizer's loop over the attributes, on one that is not allowed.
LEMMA RoundLeaves ==
    ASSUME NEW as, HasList(as), NEW old, Remain(as.list, old),
           NEW i \in DOMAIN as.list, ~as.list[i].isAllowed, AllowedBehind(as.list, i),
           NEW rs, rs = removeAttribute(as, as.list[i].name)
    PROVE  HasList(rs) /\ Remain(rs.list, old) /\ AllowedBehind(rs.list, i - 1)
  <1> DEFINE list == as.list
             name == list[i].name
             r == rs.list
  <1>1. /\ HasList(rs)
        /\ \A q \in DOMAIN r : \E o \in DOMAIN list : /\ q <= o /\ r[q] = list[o]
                                                      /\ o = q => list[o].name # name
        /\ \A o \in DOMAIN list : list[o].name # name => \E q \in DOMAIN r : r[q] = list[o]
    <2>1. HasList(rs) /\ WithoutName(as.list, rs.list, name)
      BY RemovedByName
    <2> QED
      BY <2>1 DEF WithoutName
  <1>2. /\ DOMAIN list = 1 .. Len(list) /\ Len(list) \in Nat
        /\ DOMAIN r = 1 .. Len(r) /\ Len(r) \in Nat
    <2>1. list \in Seq(Attributes) /\ r \in Seq(Attributes)
      BY <1>1 DEF HasList
    <2> HIDE DEF list, r
    <2> QED
      BY <2>1
  <1>3. /\ \A q \in DOMAIN list : \E j \in DOMAIN old : list[q] = old[j]
        /\ \A k \in DOMAIN old :
              old[k].isAllowed /\ (\A j \in DOMAIN old : old[j].name = old[k].name => j = k)
                 => \E q \in DOMAIN list : list[q] = old[k]
        /\ ~list[i].isAllowed /\ i \in DOMAIN list
        /\ \A j \in DOMAIN list : j > i => list[j].isAllowed
    BY DEF Remain, AllowedBehind
  <1>4. name = list[i].name
    OBVIOUS
  <1> HIDE DEF list, r, name
  <1>5. ASSUME NEW q \in DOMAIN r PROVE \E j \in DOMAIN old : r[q] = old[j]
    BY <1>1, <1>3
  <1>6. ASSUME NEW k \in DOMAIN old, old[k].isAllowed,
               \A j \in DOMAIN old : old[j].name = old[k].name => j = k
        PROVE  \E q \in DOMAIN r : r[q] = old[k]
    <2>1. PICK o \in DOMAIN list : list[o] = old[k]
      BY <1>3, <1>6
    <2>2. PICK j \in DOMAIN old : list[i] = old[j]
      BY <1>3
    <2>3. list[o].name # name
      BY <1>3, <1>4, <1>6, <2>1, <2>2
    <2> QED
      BY <1>1, <2>1, <2>3
  <1>7. ASSUME NEW q \in DOMAIN r, q > i - 1 PROVE r[q].isAllowed
    <2>1. PICK o \in DOMAIN list : q <= o /\ r[q] = list[o] /\ (o = q => list[o].name # name)
      BY <1>1
    <2>2. o > i \/ (o = i /\ o = q)
      BY <1>2, <1>3, <1>7, <2>1
    <2> QED
      BY <1>3, <1>4, <2>1, <2>2
  <1> QED
    BY <1>1, <1>5, <1>6, <1>7 DEF Remain, AllowedBehind, r

\* The lists that there are before the walk.
LEMMA ParsedHasList ==
    ASSUME NEW list \in AttributeLists
    PROVE  HasList(set_attributes(list)) /\ HasList(NoAttributes)
  <1>1. list \in Seq(Attributes)
    BY AttributesAssumption
  <1>2. /\ DOMAIN set_attributes(list) = {"list", "byName", "hasTable"}
        /\ set_attributes(list).list = list
    BY DEF set_attributes
  <1>3. DOMAIN NoAttributes = {"list", "byName", "hasTable"} /\ NoAttributes.list = <<>>
    BY DEF NoAttributes
  <1> QED
    BY <1>1, <1>2, <1>3 DEF HasList

LEMMA SetHasList ==
    ASSUME NEW as, HasList(as), NEW name \in Names, NEW isAllowed \in BOOLEAN, NEW newId \in Nat \ {0}
    PROVE  HasList(setAttribute(as, name, isAllowed, newId))
  <1> DEFINE list == as.list
             rs == setAttribute(as, name, isAllowed, newId)
             a == Attribute(newId, name, isAllowed)
             Changed(b) == IF b.id = as.byName[name] THEN [b EXCEPT !.isAllowed = isAllowed] ELSE b
  <1>1. \/ rs = as
        \/ rs = [list |-> Append(list, a), byName |-> [as.byName EXCEPT ![a.name] = a.id], hasTable |-> TRUE]
        \/ rs = [as EXCEPT !.list = [i \in DOMAIN list |-> Changed(list[i])]]
    BY DEF setAttribute, AddAttribute
  <1>2. a \in Attributes
    BY DEF Attribute, Attributes
  <1>3. ASSUME NEW b \in Attributes PROVE Changed(b) \in Attributes
    BY DEF Attributes
  <1> HIDE DEF a, Changed, rs
  <1>4. DOMAIN as = {"list", "byName", "hasTable"} /\ list \in Seq(Attributes)
    BY DEF HasList
  <1>5. Append(list, a) \in Seq(Attributes)
    <2> HIDE DEF list
    <2> QED
      BY <1>2, <1>4
  <1>6. [i \in DOMAIN list |-> Changed(list[i])] \in Seq(Attributes)
    <2> HIDE DEF list
    <2>1. DOMAIN list = 1 .. Len(list) /\ Len(list) \in Nat /\ \A i \in 1 .. Len(list) : list[i] \in Attributes
      BY <1>4
    <2>2. [i \in 1 .. Len(list) |-> Changed(list[i])] \in [1 .. Len(list) -> Attributes]
      BY <1>3, <2>1
    <2>3. [i \in DOMAIN list |-> Changed(list[i])] = [i \in 1 .. Len(list) |-> Changed(list[i])]
      BY <2>1
    <2> DEFINE changed == [i \in 1 .. Len(list) |-> Changed(list[i])]
               N == Len(list)
    <2>4. changed \in [1 .. N -> Attributes] /\ N \in Nat
      BY <2>1, <2>2
    <2> HIDE DEF changed, N
    <2>5. changed \in Seq(Attributes)
      BY ONLY <2>4
    <2> QED
      BY <2>3, <2>5 DEF changed, N
  <1>7. DOMAIN rs = {"list", "byName", "hasTable"} /\ rs.list \in Seq(Attributes)
    <2>1. CASE rs = as
      BY <1>4, <2>1
    <2>2. CASE rs = [list |-> Append(list, a), byName |-> [as.byName EXCEPT ![a.name] = a.id], hasTable |-> TRUE]
      BY <1>5, <2>2
    <2>3. CASE rs = [as EXCEPT !.list = [i \in DOMAIN list |-> Changed(list[i])]]
      <3> DEFINE new == [i \in DOMAIN list |-> Changed(list[i])]
      <3>1. rs = [as EXCEPT !.list = new] /\ new \in Seq(Attributes)
        BY <1>6, <2>3
      <3> HIDE DEF new
      <3> QED
        BY <1>4, <3>1
    <2> QED
      BY <1>1, <2>1, <2>2, <2>3
  <1> QED
    BY <1>7 DEF HasList, rs

\* At the call of a walk all attributes remain.
LEMMA AllRemain ==
    ASSUME NEW list
    PROVE  Remain(list, list)
  BY DEF Remain

-----------------------------------------------------------------------------
(***************************************************************************)
(* The invariant of the walks.  Until the body of the loop is done with it *)
(* the child that was yielded counts as not yet seen.                      *)
(***************************************************************************)
SeenNow == Seen(given.nodes, direction, frames)
Child   == NextKid(given.nodes, direction, Current)
DoneNow == IF control = "iter" THEN SeenNow \cup {Child} ELSE SeenNow

\* Of these nodes, the elements that are not allowed: the sanitizer takes them out.
GoneOf(dir, g, names, done) ==
    IF dir = "walk" THEN {} ELSE {n \in done : g[n].type = "element" /\ n \notin names}

\* `before` is what was yielded before the child.
Yielded(before) ==
    /\ before \in Seq(DOMAIN given.nodes) /\ visited = Append(before, Child)
    /\ ToSet(before) = SeenNow /\ LastSeenAt(given.nodes, direction, frames, before)

PlaceSo ==
    /\ direction \in Directions
    /\ Path(given.nodes, direction, frames, root)
    /\ visited \in Seq(DOMAIN given.nodes)
    /\ control = "walker" =>
          ToSet(visited) = SeenNow /\ LastSeenAt(given.nodes, direction, frames, visited)
    /\ control # "walker" => Current.done < Current.length /\ \E before : Yielded(before)

TreeSo == TreeKept(nodes, given.nodes, GoneOf(direction, given.nodes, allowed, DoneNow))

AllRemaining == \A n \in DOMAIN given.nodes : Remain(attributes[n].list, given.attributes[n].list)

CleanIn(done) == direction = "reverseWalk" => \A n \in allowed \cap done : AllowedBehind(attributes[n].list, 0)

CleaningSo ==
    control = "attributes" =>
        /\ direction = "reverseWalk" /\ Child \in allowed /\ index \in Nat
        /\ AllowedBehind(attributes[Child].list, index)

FinishedSo ==
    /\ direction \in Directions /\ root \in DOMAIN given.nodes
    /\ ToSet(visited) = Under(given.nodes, root)
    /\ TreeKept(nodes, given.nodes, GoneOf(direction, given.nodes, allowed, Under(given.nodes, root)))
    /\ AllRemaining /\ CleanIn(Under(given.nodes, root))

WalkInv ==
    /\ DOMAIN given = {"nodes", "attributes", "parsed"} /\ Good(given.nodes)
    /\ DOMAIN attributes = DOMAIN given.nodes
    /\ \A n \in DOMAIN given.nodes : HasList(attributes[n])
    /\ control \in {"call", "walker", "body", "attributes", "iter", "finished", "returned", "raised"}
    /\ control = "call" => nodes = given.nodes /\ visited = <<>>
    /\ Running => PlaceSo /\ TreeSo /\ AllRemaining /\ CleanIn(DoneNow) /\ CleaningSo
    /\ control = "finished" => FinishedSo

\* Where a running walk is.
LEMMA WalkAt ==
    ASSUME WalkInv, Running
    PROVE  /\ Good(given.nodes) /\ direction \in Directions
           /\ Path(given.nodes, direction, frames, root) /\ Current = frames[Len(frames)]
           /\ Len(frames) \in Nat \ {0} /\ Len(frames) \in 1 .. Len(frames)
           /\ Current.node \in DOMAIN given.nodes
           /\ Current.length = Len(given.nodes[Current.node].kids)
           /\ Current.length \in Nat /\ Current.done \in Nat /\ Current.done <= Current.length
  <1>1. /\ Good(given.nodes) /\ direction \in Directions /\ Path(given.nodes, direction, frames, root)
    BY DEF WalkInv, PlaceSo
  <1>2. Len(frames) \in Nat \ {0}
    BY <1>1 DEF Path
  <1>3. Len(frames) \in 1 .. Len(frames) /\ Current = frames[Len(frames)]
    BY <1>2 DEF Current, Last
  <1> QED
    BY <1>1, <1>2, <1>3, FrameFields

\* What is gone has been seen.
LEMMA GoneIsDone ==
    ASSUME NEW dir, NEW g, NEW names, NEW done
    PROVE  GoneOf(dir, g, names, done) \subseteq done
  BY DEF GoneOf

\* What the loop body looks at is the child.
LEMMA YieldedLast ==
    ASSUME WalkInv, Running, control # "walker"
    PROVE  /\ Current.done < Current.length /\ Last(visited) = Child /\ Child \notin SeenNow
           /\ Child \in DOMAIN given.nodes /\ Child \in ToSet(given.nodes[Current.node].kids)
           /\ ToSet(visited) = SeenNow \cup {Child}
  <1>1. Current.done < Current.length
    BY DEF WalkInv, PlaceSo
  <1>2. PICK before : Yielded(before)
    BY DEF WalkInv, PlaceSo
  <1>3. /\ Child \in DOMAIN given.nodes /\ Child \in ToSet(given.nodes[Current.node].kids)
        /\ PositionOf(direction, Current) \in 1 .. Len(given.nodes[Current.node].kids)
        /\ PositionOf(direction, Current) \notin DonePositions(direction, Current)
    BY <1>1, WalkAt, NextKidAt DEF Child
  <1>4. Child \notin SeenNow
    BY <1>3, WalkAt, NotYetSeen DEF Child, SeenNow, NextKid
  <1> DEFINE k == Child
  <1>5. before \in Seq(DOMAIN given.nodes) /\ visited = Append(before, k) /\ ToSet(before) = SeenNow
    BY <1>2 DEF Yielded
  <1> HIDE DEF k
  <1>6. Last(visited) = k /\ ToSet(visited) = ToSet(before) \cup {k}
    <2>1. Len(visited) = Len(before) + 1 /\ Len(before) \in Nat /\ visited[Len(visited)] = k
      BY <1>5
    <2>2. DOMAIN visited = 1 .. Len(before) + 1 /\ DOMAIN before = 1 .. Len(before)
      BY <1>5
    <2>3. \A i \in 1 .. Len(before) : visited[i] = before[i]
      BY <1>5
    <2>4. \A i \in 1 .. Len(before) + 1 : i \in 1 .. Len(before) \/ i = Len(before) + 1
      BY <2>1
    <2>5. \A i \in 1 .. Len(before) : i \in 1 .. Len(before) + 1
      BY <2>1
    <2>6. Len(before) + 1 \in 1 .. Len(before) + 1
      BY <2>1
    <2> QED
      BY <2>1, <2>2, <2>3, <2>4, <2>5, <2>6 DEF Last, ToSet
  <1> QED
    BY <1>1, <1>3, <1>4, <1>5, <1>6 DEF k

-----------------------------------------------------------------------------
(***************************************************************************)
(* The steps of a walk.                                                    *)
(***************************************************************************)

\* All but the parts about a running or a finished walk.
Rest ==
    /\ DOMAIN given = {"nodes", "attributes", "parsed"} /\ Good(given.nodes)
    /\ DOMAIN attributes = DOMAIN given.nodes
    /\ \A n \in DOMAIN given.nodes : HasList(attributes[n])

LEMMA RestStays ==
    ASSUME WalkInv, UNCHANGED <<given, attributes>>
    PROVE  Rest'
  BY DEF WalkInv, Rest

\* The child is where the loop looks for it.
LEMMA StepYieldChild ==
    ASSUME WalkInv, YieldChild
    PROVE  WalkInv'
  <1> DEFINE g == given.nodes
             n == Current.node
             at == IndexAt(Current)
             gone == GoneOf(direction, g, allowed, SeenNow)
  <1>1. /\ control = "walker" /\ Current.done < Current.length
        /\ IF at \in DOMAIN nodes[n].kids
           THEN visited' = Append(visited, nodes[n].kids[at]) /\ control' = "body"
           ELSE visited' = visited /\ control' = "cut short"
        /\ UNCHANGED <<nodes, outcome, direction, frames, attributes, index, allowed, root, given>>
    BY DEF YieldChild
  <1>2. Running /\ PlaceSo /\ TreeSo /\ AllRemaining /\ CleanIn(DoneNow)
    BY <1>1 DEF WalkInv, Running
  <1>3. at = PositionOf(direction, Current)
    BY DEF IndexAt, PositionOf
  <1>4. at \in 1 .. Len(g[n].kids) /\ Child = g[n].kids[at] /\ Child \in DOMAIN g
    <2>1. /\ Good(g) /\ direction \in Directions /\ Path(g, direction, frames, root)
          /\ Current = frames[Len(frames)] /\ Len(frames) \in 1 .. Len(frames)
      BY <1>2, WalkAt
    <2>2. /\ PositionOf(direction, Current) \in 1 .. Len(g[n].kids)
          /\ NextKid(g, direction, Current) \in DOMAIN g
      BY <1>1, <2>1, NextKidAt
    <2>3. Child = g[n].kids[PositionOf(direction, Current)] /\ Child = NextKid(g, direction, Current)
      BY DEF Child, NextKid
    <2> HIDE DEF at
    <2> QED
      BY <1>3, <2>2, <2>3
  <1>5. ASSUME NEW i \in 1 .. at PROVE g[n].kids[i] \notin gone
    <2>1. CASE direction = "walk"
      BY <2>1 DEF GoneOf
    <2>2. CASE direction # "walk"
      <3>1. i \in 1 .. Len(g[n].kids) /\ i \notin DonePositions(direction, Current)
        <4>1. Current.length = Len(g[n].kids) /\ Current.length \in Nat /\ Current.done \in Nat
          BY <1>2, WalkAt
        <4>2. at = Current.length - Current.done
          BY <2>2 DEF IndexAt
        <4>3. DonePositions(direction, Current) = (Current.length - Current.done + 1) .. Current.length
          BY <2>2 DEF DonePositions
        <4> HIDE DEF at, n, g
        <4> QED
          BY <1>4, <4>1, <4>2, <4>3
      <3>2. g[n].kids[i] \notin SeenNow
        BY <1>2, <3>1, WalkAt, NotYetSeen DEF SeenNow
      <3> QED
        BY <3>2, GoneIsDone
    <2> QED
      BY <2>1, <2>2
  <1>6. TreeKept(nodes, g, gone)
    BY <1>1, <1>2 DEF TreeSo, DoneNow
  <1>7. at \in DOMAIN nodes[n].kids /\ nodes[n].kids[at] = g[n].kids[at]
    <2>1. Good(g) /\ n \in DOMAIN g
      BY <1>2, WalkAt
    <2> HIDE DEF g, n, at, gone
    <2> QED
      BY <1>4, <1>5, <1>6, <2>1, StillThere
  <1>8. visited' = Append(visited, Child) /\ control' = "body"
    BY <1>1, <1>4, <1>7
  <1> HIDE DEF g, n, at, gone
  <1>9. Child' = Child /\ SeenNow' = SeenNow /\ DoneNow' = SeenNow /\ DoneNow = SeenNow /\ Current' = Current
    BY <1>1, <1>8 DEF Child, SeenNow, DoneNow, Current
  <1>10. PlaceSo'
    <2>1. PICK before : before = visited
      OBVIOUS
    <2>2. /\ before \in Seq(DOMAIN g) /\ visited' = Append(before, Child)
          /\ ToSet(before) = SeenNow /\ LastSeenAt(g, direction, frames, before)
      BY <1>1, <1>2, <1>8, <2>1 DEF PlaceSo, g
    <2>3. Yielded(before)'
      BY <1>1, <1>9, <2>2 DEF Yielded, g
    <2>4. visited' \in Seq(DOMAIN g)
      <3> DEFINE k == Child
      <3>1. k \in DOMAIN g /\ visited' = Append(before, k) /\ before \in Seq(DOMAIN g)
        BY <1>4, <2>2
      <3> HIDE DEF k
      <3> QED
        BY <3>1
    <2> QED
      BY <1>1, <1>2, <1>8, <1>9, <2>3, <2>4 DEF PlaceSo, g
  <1>11. TreeSo' /\ AllRemaining' /\ CleanIn(DoneNow)'
    BY <1>1, <1>2, <1>9 DEF TreeSo, AllRemaining, CleanIn
  <1>12. CleaningSo'
    BY <1>8 DEF CleaningSo
  <1>13. Rest'
    BY <1>1, RestStays
  <1> QED
    BY <1>8, <1>10, <1>11, <1>12, <1>13 DEF WalkInv, Rest

\* The list of the child is as long as it was given: nothing below the child is gone.
LEMMA StepIterChild ==
    ASSUME WalkInv, IterChild
    PROVE  WalkInv'
  <1> DEFINE g == given.nodes
             f == [node |-> Child, length |-> Len(g[Child].kids), done |-> 0]
             fs == Append(frames, f)
             gone == GoneOf(direction, g, allowed, DoneNow)
  <1>1. /\ control = "iter" /\ control' = "walker"
        /\ frames' = Append(frames, Frame(nodes, Last(visited)))
        /\ UNCHANGED <<nodes, outcome, direction, visited, attributes, index, allowed, root, given>>
    BY DEF IterChild
  <1>2. Running /\ PlaceSo /\ TreeSo /\ AllRemaining /\ CleanIn(DoneNow)
    BY <1>1 DEF WalkInv, Running
  <1>3. /\ Current.done < Current.length /\ Last(visited) = Child /\ Child \in DOMAIN g
        /\ ToSet(visited) = SeenNow \cup {Child} /\ DoneNow = SeenNow \cup {Child}
    BY <1>1, <1>2, YieldedLast DEF DoneNow
  <1>4. /\ Path(g, direction, fs, root) /\ Seen(g, direction, fs) = DoneNow
        /\ fs[Len(fs)] = f
    BY <1>2, <1>3, WalkAt, PathDown DEF Child, SeenNow
  <1>5. TreeKept(nodes, g, gone) /\ Good(g) /\ direction \in Directions
    BY <1>2, WalkAt DEF TreeSo
  <1>6. Len(g[Child].kids) \in Nat
    <2>1. g[Child].kids \in Seq(DOMAIN g)
      BY <1>3, <1>5, DomFields DEF Good
    <2> QED
      BY <2>1
  <1>7. ASSUME NEW i \in 1 .. Len(g[Child].kids) PROVE g[Child].kids[i] \notin gone
    <2>1. f.node = Child /\ f.length = Len(g[Child].kids) /\ f.done = 0
      OBVIOUS
    <2>2. i \notin DonePositions(direction, f)
      BY <1>5, <1>6, <2>1, Places
    <2> HIDE DEF fs, f, g
    <2>3. g[f.node].kids[i] \notin Seen(g, direction, fs)
      BY <1>4, <1>5, <2>1, <2>2, NotYetSeen
    <2> QED
      BY <1>4, <2>1, <2>3, GoneIsDone
  <1>8. Len(nodes[Child].kids) = Len(g[Child].kids)
    <2> DEFINE k == Child
    <2>1. k \in DOMAIN g /\ \A i \in 1 .. Len(g[k].kids) : g[k].kids[i] \notin gone
      BY <1>3, <1>7
    <2> HIDE DEF k, g, gone
    <2>2. Len(nodes[k].kids) = Len(g[k].kids)
      BY <1>5, <2>1, AsLong
    <2> QED
      BY <2>2 DEF k
  <1>9. frames' = fs
    BY <1>1, <1>3, <1>8 DEF Frame
  <1>10. f.done = 0 /\ f.node = Child
    OBVIOUS
  <1> HIDE DEF g, f, fs, gone
  <1>11. SeenNow' = DoneNow /\ DoneNow' = DoneNow
    BY <1>1, <1>4, <1>9 DEF SeenNow, DoneNow, g
  <1>12. LastSeenAt(g, direction, fs, visited)
    <2>1. visited # <<>> /\ visited[Len(visited)] = Child
      <3>1. ToSet(visited) # {} /\ visited \in Seq(DOMAIN g)
        BY <1>2, <1>3 DEF PlaceSo, g
      <3>2. visited # <<>>
        BY <3>1, EmptyList
      <3> QED
        BY <1>3, <3>2 DEF Last
    <2> QED
      BY <1>4, <1>10, <2>1 DEF LastSeenAt
  <1>13. PlaceSo'
    <2>1. ToSet(visited)' = SeenNow'
      BY <1>1, <1>3, <1>11
    <2> QED
      BY <1>1, <1>2, <1>4, <1>9, <1>12, <2>1 DEF PlaceSo, g
  <1>14. TreeSo' /\ AllRemaining' /\ CleanIn(DoneNow)'
    BY <1>1, <1>2, <1>11 DEF TreeSo, AllRemaining, CleanIn
  <1>15. CleaningSo'
    BY <1>1 DEF CleaningSo
  <1>16. Rest'
    BY <1>1, RestStays
  <1> QED
    BY <1>1, <1>13, <1>14, <1>15, <1>16 DEF WalkInv, Rest

\* When the outermost call returns all is done that lies below the root.
LEMMA StepIterReturns ==
    ASSUME WalkInv, IterReturns
    PROVE  WalkInv'
  <1> DEFINE g == given.nodes
             hs == Advanced(Front(frames))
  <1>1. /\ control = "walker" /\ Current.done = Current.length /\ frames' = hs
        /\ control' = IF Len(frames) = 1 THEN "finished" ELSE "walker"
        /\ UNCHANGED <<nodes, outcome, direction, visited, attributes, index, allowed, root, given>>
    BY DEF IterReturns
  <1>2. Running /\ PlaceSo /\ TreeSo /\ AllRemaining /\ CleanIn(DoneNow) /\ DoneNow = SeenNow
    BY <1>1 DEF WalkInv, Running, DoneNow
  <1>3. ToSet(visited) = SeenNow /\ LastSeenAt(g, direction, frames, visited)
    BY <1>1, <1>2 DEF PlaceSo
  <1>4. Rest'
    BY <1>1, RestStays
  <1>5. CASE Len(frames) = 1
    <2>1. frames[1].node = root /\ Current = frames[1]
      BY <1>2, <1>5, WalkAt DEF Path
    <2>2. DoneBelow(g, direction, Current) = Under(g, root)
      BY <1>1, <1>2, <2>1, WalkAt, AllDone
    <2>3. SeenNow = Under(g, root)
      <3>1. 1 .. Len(frames) = {1} /\ 2 .. Len(frames) = {}
        BY <1>5
      <3>2. SeenNow = DoneBelow(g, direction, Current)
        BY <2>1, <3>1 DEF SeenNow, Seen
      <3> QED
        BY <2>2, <3>2
    <2>4. FinishedSo
      <3>1. root \in DOMAIN g
        BY <1>2, <1>5, <2>1, WalkAt
      <3> QED
        BY <1>2, <1>3, <2>3, <3>1 DEF FinishedSo, PlaceSo, TreeSo
    <2>5. FinishedSo'
      BY <1>1, <2>4 DEF FinishedSo, AllRemaining, CleanIn
    <2> QED
      BY <1>1, <1>4, <1>5, <2>5 DEF WalkInv, Rest, Running
  <1>6. CASE Len(frames) # 1
    <2>1. /\ Path(g, direction, hs, root) /\ Seen(g, direction, hs) = SeenNow
          /\ LastSeenAt(g, direction, hs, visited)
      <3> HIDE DEF hs
      <3>1. hs = Advanced(Front(frames))
        BY DEF hs
      <3> QED
        BY <1>1, <1>2, <1>3, <1>6, <3>1, WalkAt, PathUp DEF SeenNow
    <2>2. control' = "walker" /\ SeenNow' = SeenNow /\ DoneNow' = SeenNow
      BY <1>1, <1>6, <2>1 DEF SeenNow, DoneNow
    <2>3. PlaceSo'
      BY <1>1, <1>2, <1>3, <2>1, <2>2 DEF PlaceSo
    <2>4. TreeSo' /\ AllRemaining' /\ CleanIn(DoneNow)' /\ CleaningSo'
      BY <1>1, <1>2, <2>2 DEF TreeSo, AllRemaining, CleanIn, CleaningSo
    <2> QED
      BY <1>1, <1>4, <2>2, <2>3, <2>4 DEF WalkInv, Rest
  <1> QED
    BY <1>5, <1>6

\* The body has done with a child that is not gone; frames, visited nodes and tree are as they were.
LEMMA BodyDone ==
    ASSUME WalkInv, control \in {"body", "attributes"}, control' = "iter",
           UNCHANGED <<nodes, direction, frames, visited, attributes, allowed, root, given>>,
           direction = "walk" \/ given.nodes[Child].type # "element" \/ Child \in allowed,
           direction # "walk" /\ Child \in allowed => AllowedBehind(attributes[Child].list, 0)
    PROVE  WalkInv'
  <1>1. Running /\ PlaceSo /\ TreeSo /\ AllRemaining /\ CleanIn(DoneNow)
    BY DEF WalkInv, Running
  <1>2. DoneNow = SeenNow /\ SeenNow' = SeenNow /\ Child' = Child /\ DoneNow' = SeenNow \cup {Child}
    BY DEF DoneNow, SeenNow, Child, Current
  <1>3. GoneOf(direction, given.nodes, allowed, DoneNow)' = GoneOf(direction, given.nodes, allowed, DoneNow)
    BY <1>2 DEF GoneOf
  <1>4. PlaceSo'
    <2>1. PICK before : Yielded(before)
      BY <1>1 DEF PlaceSo
    <2>2. Yielded(before)'
      BY <1>2, <2>1 DEF Yielded
    <2> QED
      BY <1>1, <2>2 DEF PlaceSo, Current
  <1>5. TreeSo' /\ AllRemaining'
    BY <1>1, <1>3 DEF TreeSo, AllRemaining
  <1>6. CleanIn(DoneNow)'
    BY <1>1, <1>2 DEF CleanIn
  <1>7. Rest' /\ CleaningSo'
    BY RestStays DEF CleaningSo
  <1> QED
    BY <1>4, <1>5, <1>6, <1>7 DEF WalkInv, Rest

\* The element is taken out of the list it was found in.
LEMMA StepRemoveYielded ==
    ASSUME WalkInv, RemoveYielded
    PROVE  WalkInv'
  <1> DEFINE g == given.nodes
             x == Child
             gone == GoneOf(direction, g, allowed, SeenNow)
             removed == remove(nodes, x)
  <1>1. Running /\ control = "body" /\ direction = "reverseWalk"
    BY DEF RemoveYielded, Running
  <1>2. /\ PlaceSo /\ TreeKept(nodes, g, gone) /\ AllRemaining /\ CleanIn(SeenNow)
        /\ Good(g) /\ Current.node \in DOMAIN g
    BY <1>1, WalkAt DEF WalkInv, TreeSo, DoneNow
  <1>3. /\ Last(visited) = x /\ x \notin SeenNow /\ x \in DOMAIN g /\ x \in ToSet(g[Current.node].kids)
    BY <1>1, YieldedLast
  <1>4. /\ x \in ElementNodes(nodes) /\ x \notin allowed /\ nodes' = removed.nodes
        /\ control' = IF removed.outcome = "returns" THEN "iter" ELSE "raised"
        /\ UNCHANGED <<direction, frames, visited, attributes, index, allowed, root, given>>
    BY <1>3 DEF RemoveYielded
  <1>5. g[x].type = "element" /\ x \notin gone
    BY <1>2, <1>3, <1>4, GoneIsDone DEF TreeKept, ElementNodes
  <1>6. removed.outcome = "returns" /\ TreeKept(removed.nodes, g, gone \cup {x})
    <2> DEFINE n == Current.node
    <2>1. n \in DOMAIN g /\ x \in ToSet(g[n].kids)
      BY <1>2, <1>3
    <2> HIDE DEF n, g, x, gone
    <2> QED
      BY <1>2, <1>5, <2>1, RemoveKeeps
  <1>7. control' = "iter" /\ TreeKept(nodes', g, gone \cup {x})
    BY <1>4, <1>6
  <1> HIDE DEF removed
  <1>8. SeenNow' = SeenNow /\ Child' = Child /\ DoneNow' = SeenNow \cup {x}
    BY <1>4, <1>7 DEF DoneNow, SeenNow, Child, Current
  <1>9. GoneOf(direction, given.nodes, allowed, DoneNow)' = gone \cup {x}
    BY <1>1, <1>4, <1>5, <1>8 DEF GoneOf
  <1> HIDE DEF gone, x, g
  <1>10. TreeSo'
    BY <1>4, <1>7, <1>9 DEF TreeSo, g
  <1>11. PlaceSo'
    <2>1. PICK before : Yielded(before)
      BY <1>1, <1>2 DEF PlaceSo
    <2>2. Yielded(before)'
      BY <1>4, <1>8, <2>1 DEF Yielded
    <2> QED
      BY <1>1, <1>2, <1>4, <1>7, <2>2 DEF PlaceSo, Current
  <1>12. AllRemaining' /\ CleanIn(DoneNow)'
    BY <1>2, <1>4, <1>8 DEF AllRemaining, CleanIn
  <1>13. Rest' /\ CleaningSo'
    BY <1>4, <1>7, RestStays DEF CleaningSo
  <1> QED
    BY <1>7, <1>10, <1>11, <1>12, <1>13 DEF WalkInv, Rest

\* Any other node stays; an element has its attributes looked at.
LEMMA StepCleanYielded ==
    ASSUME WalkInv, CleanYielded
    PROVE  WalkInv'
  <1>1. Running /\ control = "body" /\ direction = "reverseWalk"
    BY DEF CleanYielded, Running
  <1>2. PlaceSo /\ TreeSo /\ AllRemaining /\ CleanIn(DoneNow)
    BY <1>1 DEF WalkInv
  <1>3. Last(visited) = Child /\ Child \in DOMAIN given.nodes
    BY <1>1, YieldedLast
  <1>4. /\ Child \notin ElementNodes(nodes) \ allowed
        /\ IF Child \in allowed
           THEN control' = "attributes" /\ index' = FirstIndex(attributes[Child].list)
           ELSE control' = "iter"
        /\ UNCHANGED <<nodes, direction, frames, visited, attributes, allowed, root, given>>
    BY <1>3 DEF CleanYielded
  <1>5. CASE Child \notin allowed
    <2>1. given.nodes[Child].type # "element"
      <3>1. DOMAIN nodes = DOMAIN given.nodes /\ nodes[Child].type = given.nodes[Child].type
        BY <1>1, <1>2, <1>3, WalkAt, KeptLists DEF TreeSo, TreeKept
      <3> QED
        BY <1>3, <1>4, <1>5, <3>1 DEF ElementNodes
    <2> QED
      BY <1>1, <1>4, <1>5, <2>1, BodyDone
  <1>6. CASE Child \in allowed
    <2>1. control' = "attributes" /\ index' = Len(attributes[Child].list)
      BY <1>4, <1>6 DEF FirstIndex
    <2>2. /\ SeenNow' = SeenNow /\ Child' = Child /\ DoneNow' = DoneNow
      BY <1>1, <1>4, <2>1 DEF DoneNow, SeenNow, Child, Current
    <2>3. PlaceSo'
      <3>1. PICK before : Yielded(before)
        BY <1>1, <1>2 DEF PlaceSo
      <3>2. Yielded(before)'
        BY <1>4, <2>2, <3>1 DEF Yielded
      <3> QED
        BY <1>1, <1>2, <1>4, <2>1, <3>2 DEF PlaceSo, Current
    <2>4. TreeSo' /\ AllRemaining' /\ CleanIn(DoneNow)'
      BY <1>2, <1>4, <2>2 DEF TreeSo, AllRemaining, CleanIn
    <2>5. CleaningSo'
      <3> DEFINE list == attributes[Child].list
      <3>1. list \in Seq(Attributes)
        BY <1>3 DEF WalkInv, HasList
      <3>2. (attributes[Child].list)' = list /\ index' = Len(list)
        BY <1>4, <2>1, <2>2
      <3> HIDE DEF list
      <3>3. Len(list) \in Nat /\ AllowedBehind(list, Len(list))
        BY <3>1 DEF AllowedBehind
      <3> QED
        BY <1>1, <1>4, <1>6, <2>2, <3>2, <3>3 DEF CleaningSo
    <2>6. Rest'
      BY <1>4, RestStays
    <2> QED
      BY <2>1, <2>3, <2>4, <2>5, <2>6 DEF WalkInv, Rest
  <1> QED
    BY <1>5, <1>6

\* An attribute that is allowed is passed by; with one that is not goes what has its name.
LEMMA StepCheckAttribute ==
    ASSUME WalkInv, CheckAttribute
    PROVE  WalkInv'
  <1> DEFINE g == given.nodes
             x == Child
             list == attributes[x].list
             as == removeAttribute(attributes[x], list[index].name)
  <1>1. Running /\ control = "attributes"
    BY DEF CheckAttribute, Running
  <1>2. PlaceSo /\ TreeSo /\ AllRemaining /\ CleanIn(DoneNow) /\ CleaningSo /\ DoneNow = SeenNow
    BY <1>1 DEF WalkInv, DoneNow
  <1>3. Last(visited) = x /\ x \in DOMAIN g /\ x \notin SeenNow
    BY <1>1, YieldedLast
  <1>4. /\ direction = "reverseWalk" /\ x \in allowed /\ index \in Nat /\ AllowedBehind(list, index)
    BY <1>1, <1>2 DEF CleaningSo
  <1>5. /\ index > 0
        /\ IF index \notin DOMAIN list THEN control' = "raised" /\ UNCHANGED <<attributes, index>>
           ELSE /\ attributes' = IF list[index].isAllowed THEN attributes
                                 ELSE [attributes EXCEPT ![x] = as]
                /\ index' = index - 1 /\ UNCHANGED control
        /\ UNCHANGED <<nodes, outcome, direction, frames, visited, allowed, root, given>>
    BY <1>3 DEF CheckAttribute
  <1>6. CASE index \notin DOMAIN list
    <2>1. Rest' /\ control' = "raised"
      BY <1>5, <1>6, RestStays
    <2> QED
      BY <2>1 DEF WalkInv, Rest, Running
  <1>7. CASE index \in DOMAIN list
    <2>1. SeenNow' = SeenNow /\ Child' = Child /\ DoneNow' = SeenNow /\ control' = "attributes"
      BY <1>1, <1>5, <1>7 DEF DoneNow, SeenNow, Child, Current
    <2>2. PlaceSo'
      <3>1. PICK before : Yielded(before)
        BY <1>1, <1>2 DEF PlaceSo
      <3>2. Yielded(before)'
        BY <1>5, <2>1, <3>1 DEF Yielded
      <3> QED
        BY <1>1, <1>2, <1>5, <2>1, <3>2 DEF PlaceSo, Current
    <2>3. TreeSo'
      BY <1>2, <1>5, <2>1 DEF TreeSo
    <2>4. index' \in Nat /\ index' = index - 1
      BY <1>4, <1>5, <1>7
    <2>5. CASE list[index].isAllowed
      <3>1. attributes' = attributes
        BY <1>5, <1>7, <2>5
      <3>2. AllowedBehind(list, index - 1)
        <4>1. DOMAIN list \subseteq Nat
          <5>1. list \in Seq(Attributes)
            BY <1>3 DEF WalkInv, HasList
          <5> HIDE DEF list
          <5> QED
            BY <5>1
        <4> HIDE DEF list
        <4>2. \A j \in DOMAIN list : j > index - 1 => j = index \/ j > index
          BY <1>4, <4>1
        <4> QED
          BY <1>4, <2>5, <4>2 DEF AllowedBehind
      <3>3. Rest' /\ AllRemaining' /\ CleanIn(DoneNow)'
        BY <1>2, <1>5, <2>1, <3>1, RestStays DEF AllRemaining, CleanIn
      <3>4. CleaningSo'
        BY <1>4, <1>5, <2>1, <2>4, <3>1, <3>2 DEF CleaningSo
      <3> QED
        BY <2>1, <2>2, <2>3, <3>3, <3>4 DEF WalkInv, Rest
    <2>6. CASE ~list[index].isAllowed
      <3>1. attributes' = [attributes EXCEPT ![x] = as]
        BY <1>5, <1>7, <2>6
      <3>2. /\ DOMAIN attributes = DOMAIN g /\ \A n \in DOMAIN g : HasList(attributes[n])
            /\ \A n \in DOMAIN g : Remain(attributes[n].list, given.attributes[n].list)
        BY <1>2 DEF WalkInv, AllRemaining
      <3>3. HasList(as) /\ Remain(as.list, given.attributes[x].list) /\ AllowedBehind(as.list, index - 1)
        <4> DEFINE bs == attributes[x]
                   old == given.attributes[x].list
        <4>1. /\ HasList(bs) /\ Remain(bs.list, old) /\ index \in DOMAIN bs.list
              /\ ~bs.list[index].isAllowed /\ AllowedBehind(bs.list, index)
              /\ as = removeAttribute(bs, bs.list[index].name)
          BY <1>3, <1>4, <1>7, <2>6, <3>2
        <4> HIDE DEF bs, old, as, list
        <4>2. HasList(as) /\ Remain(as.list, old) /\ AllowedBehind(as.list, index - 1)
          BY ONLY <4>1, RoundLeaves
        <4> QED
          BY <4>2 DEF old
      <3> HIDE DEF as, list
      <3>4. DOMAIN attributes' = DOMAIN g /\ \A n \in DOMAIN g : attributes'[n] = IF n = x THEN as ELSE attributes[n]
        BY <3>1, <3>2
      <3> HIDE DEF x
      <3>5. Rest'
        <4>1. DOMAIN given = {"nodes", "attributes", "parsed"} /\ Good(given.nodes) /\ given' = given
          BY <1>5 DEF WalkInv
        <4>2. \A n \in DOMAIN g : HasList(attributes'[n])
          BY <3>2, <3>3, <3>4
        <4> QED
          BY <3>4, <4>1, <4>2 DEF Rest
      <3>6. AllRemaining'
        <4>1. \A n \in DOMAIN g : Remain(attributes'[n].list, given.attributes[n].list)
          BY <3>2, <3>3, <3>4
        <4> QED
          BY <1>5, <4>1 DEF AllRemaining
      <3>7. CleanIn(DoneNow)'
        <4>1. ASSUME NEW n \in allowed \cap SeenNow PROVE AllowedBehind(attributes'[n].list, 0)
          <5>1. n # x /\ AllowedBehind(attributes[n].list, 0)
            BY <1>2, <1>3, <1>4 DEF CleanIn
          <5>2. attributes'[n] = attributes[n]
            BY <3>1, <5>1
          <5> QED
            BY <5>1, <5>2
        <4> QED
          BY <1>5, <2>1, <4>1 DEF CleanIn
      <3>8. CleaningSo'
        BY <1>3, <1>4, <1>5, <2>1, <2>4, <3>3, <3>4 DEF CleaningSo, x
      <3> QED
        BY <2>1, <2>2, <2>3, <3>5, <3>6, <3>7, <3>8 DEF WalkInv, Rest
    <2> QED
      BY <2>5, <2>6
  <1> QED
    BY <1>6, <1>7

LEMMA StepAttributesDone ==
    ASSUME WalkInv, AttributesDone
    PROVE  WalkInv'
  <1>1. /\ Running /\ control = "attributes" /\ control' = "iter" /\ index = 0
        /\ UNCHANGED <<nodes, direction, frames, visited, attributes, allowed, root, given>>
    BY DEF AttributesDone, Running
  <1>2. Child \in allowed /\ AllowedBehind(attributes[Child].list, 0)
    BY <1>1 DEF WalkInv, CleaningSo
  <1> QED
    BY <1>1, <1>2, BodyDone

LEMMA StepReaderBody ==
    ASSUME WalkInv, ReaderBody
    PROVE  WalkInv'
  <1>1. /\ Running /\ control = "body" /\ direction = "walk" /\ control' \in {"iter", "returned"}
        /\ UNCHANGED <<nodes, direction, frames, visited, attributes, allowed, root, given>>
    BY DEF ReaderBody, Running
  <1>2. CASE control' = "iter"
    BY <1>1, <1>2, BodyDone
  <1>3. CASE control' = "returned"
    <2>1. Rest'
      BY <1>1, RestStays
    <2> QED
      BY <1>3, <2>1 DEF WalkInv, Rest, Running
  <1> QED
    BY <1>1, <1>2, <1>3

\* The call: nothing has been seen, and nothing is gone.
LEMMA StepStart ==
    ASSUME WalkInv, NEW self \in Nodes, Start(self)
    PROVE  WalkInv'
  <1> DEFINE g == given.nodes
             f == Frame(nodes, self)
             fs == <<f>>
  <1>1. /\ control = "call" /\ control' = "walker" /\ direction' \in Directions
        /\ root' = self /\ frames' = fs /\ given' = [given EXCEPT !.attributes = attributes]
        /\ UNCHANGED <<nodes, visited, attributes>>
    BY DEF Start, walk, sanitize, Directions
  <1>2. /\ nodes = g /\ visited = <<>> /\ Good(g) /\ DOMAIN given = {"nodes", "attributes", "parsed"}
        /\ DOMAIN attributes = DOMAIN g /\ \A n \in DOMAIN g : HasList(attributes[n])
    BY <1>1 DEF WalkInv
  <1>3. /\ given'.nodes = g /\ given'.attributes = attributes
        /\ DOMAIN given' = {"nodes", "attributes", "parsed"}
    BY <1>1, <1>2
  <1>4. self \in DOMAIN g
    BY <1>2 DEF Nodes
  <1>5. /\ f.node = self /\ f.length = Len(g[self].kids) /\ f.done = 0 /\ f.length \in Nat
        /\ f \in FramesOf(g)
    <2>1. g[self].kids \in Seq(DOMAIN g)
      BY <1>2, <1>4, DomFields DEF Good
    <2>2. Len(g[self].kids) \in Nat
      BY <2>1
    <2> QED
      BY <1>2, <1>4, <2>2 DEF Frame, FramesOf
  <1> HIDE DEF f
  <1>6. fs \in Seq(FramesOf(g)) /\ Len(fs) = 1 /\ fs[1] = f /\ fs # <<>>
    BY <1>5
  <1> HIDE DEF fs, g
  <1>7. ASSUME NEW dir \in Directions
        PROVE  /\ Path(g, dir, fs, self) /\ Seen(g, dir, fs) = {} /\ LastSeenAt(g, dir, fs, <<>>)
    <2>1. \A i \in 1 .. Len(fs) : i = 1 /\ fs[i].length = Len(g[fs[i].node].kids) /\ fs[i].done <= fs[i].length
      BY <1>5, <1>6
    <2>2. 1 .. Len(fs) - 1 = {} /\ 2 .. Len(fs) = {}
      BY <1>6
    <2>3. \A j \in 1 .. Len(fs) : 1 .. j - 1 = {}
      BY <1>6
    <2>4. Path(g, dir, fs, self)
      BY <1>5, <1>6, <2>1, <2>2, <2>3 DEF Path
    <2>5. DoneBelow(g, dir, f) = {}
      <3>1. DonePositions(dir, f) = {}
        BY <1>5, Places
      <3> QED
        BY <3>1 DEF DoneBelow
    <2>6. Seen(g, dir, fs) = {}
      BY <1>6, <2>1, <2>2, <2>5 DEF Seen
    <2>7. LastSeenAt(g, dir, fs, <<>>)
      BY <1>5, <1>6 DEF LastSeenAt
    <2> QED
      BY <2>4, <2>6, <2>7
  <1>8. Path(g, direction', fs, self) /\ Seen(g, direction', fs) = {} /\ LastSeenAt(g, direction', fs, <<>>)
    BY <1>1, <1>7
  <1>9. SeenNow' = {} /\ DoneNow' = {}
    BY <1>1, <1>3, <1>8 DEF SeenNow, DoneNow, g
  <1>10. PlaceSo'
    <2>1. ToSet(visited) = {} /\ visited \in Seq(DOMAIN g)
      BY <1>2 DEF ToSet
    <2> QED
      BY <1>1, <1>2, <1>3, <1>8, <1>9, <2>1 DEF PlaceSo, g
  <1>11. TreeSo'
    <2>1. GoneOf(direction, given.nodes, allowed, DoneNow)' = {}
      BY <1>9 DEF GoneOf
    <2>2. TreeKept(nodes, g, {})
      <3>1. ASSUME NEW n \in DOMAIN g PROVE KeptOf(g[n].kids, g[n].kids, {})
        <4>1. g[n].kids \in Seq(DOMAIN g) /\ IsInjective(g[n].kids)
          BY <1>2, DomFields DEF Good, Listed
        <4> QED
          BY <4>1, AllKept
      <3> QED
        BY <1>2, <3>1 DEF TreeKept, g
    <2> QED
      BY <1>1, <1>3, <2>1, <2>2 DEF TreeSo, g
  <1>12. AllRemaining' /\ CleanIn(DoneNow)' /\ CleaningSo'
    BY <1>1, <1>3, <1>9, AllRemain DEF AllRemaining, CleanIn, CleaningSo
  <1>13. Rest'
    BY <1>1, <1>2, <1>3 DEF Rest, g
  <1> QED
    BY <1>1, <1>10, <1>11, <1>12, <1>13 DEF WalkInv, Rest

LEMMA StepEditAttributes ==
    ASSUME WalkInv, EditAttributes
    PROVE  WalkInv'
  <1>1. /\ control = "call" /\ nodes = given.nodes
        /\ UNCHANGED <<nodes, control, visited, given>>
    BY DEF EditAttributes, RemoveAttribute, SetAttribute, WalkInv
  <1>2. \E n \in DOMAIN given.nodes : \E as : HasList(as) /\ attributes' = [attributes EXCEPT ![n] = as]
    <2>1. PICK n \in ElementNodes(nodes) : \E name \in Names :
             RemoveAttribute(n, name) \/ \E isAllowed \in BOOLEAN : SetAttribute(n, name, isAllowed)
      BY DEF EditAttributes
    <2>2. PICK name \in Names :
             RemoveAttribute(n, name) \/ \E isAllowed \in BOOLEAN : SetAttribute(n, name, isAllowed)
      BY <2>1
    <2>3. n \in DOMAIN given.nodes /\ HasList(attributes[n])
      BY <1>1 DEF ElementNodes, WalkInv
    <2>4. CASE RemoveAttribute(n, name)
      <3> DEFINE as == removeAttribute(attributes[n], name)
      <3>1. HasList(as) /\ attributes' = [attributes EXCEPT ![n] = as]
        BY <2>3, <2>4, RemovedByName DEF RemoveAttribute
      <3> HIDE DEF as
      <3> QED
        BY <2>3, <3>1
    <2>5. ASSUME NEW isAllowed \in BOOLEAN, SetAttribute(n, name, isAllowed)
          PROVE  \E as : HasList(as) /\ attributes' = [attributes EXCEPT ![n] = as]
      <3> DEFINE newId == Len(attributes[n].list) + 1
                 as == setAttribute(attributes[n], name, isAllowed, newId)
      <3>1. attributes' = [attributes EXCEPT ![n] = as]
        BY <2>5 DEF SetAttribute
      <3>2. newId \in Nat \ {0}
        BY <2>3 DEF HasList
      <3> HIDE DEF newId
      <3>3. HasList(as)
        BY <2>3, <3>2, SetHasList
      <3> HIDE DEF as
      <3> QED
        BY <3>1, <3>3
    <2> QED
      BY <2>2, <2>3, <2>4, <2>5
  <1>3. Rest'
    <2>1. DOMAIN given = {"nodes", "attributes", "parsed"} /\ Good(given.nodes) /\ given' = given
          /\ DOMAIN attributes = DOMAIN given.nodes /\ \A n \in DOMAIN given.nodes : HasList(attributes[n])
      BY <1>1 DEF WalkInv
    <2>2. DOMAIN attributes' = DOMAIN given.nodes /\ \A n \in DOMAIN given.nodes : HasList(attributes'[n])
      <3>1. PICK m \in DOMAIN given.nodes :
               \E as : HasList(as) /\ attributes' = [attributes EXCEPT ![m] = as]
        BY <1>2
      <3>2. PICK as : HasList(as) /\ attributes' = [attributes EXCEPT ![m] = as]
        BY <3>1
      <3> QED
        BY <2>1, <3>2
    <2> QED
      BY <2>1, <2>2 DEF Rest
  <1> QED
    BY <1>1, <1>3 DEF WalkInv, Rest, Running

LEMMA InitWalk == WalkInit => WalkInv
  <1> SUFFICES ASSUME WalkInit PROVE WalkInv
    OBVIOUS
  <1>1. /\ given = [nodes |-> nodes, attributes |-> attributes, parsed |-> attributes]
        /\ control = "call" /\ visited = <<>> /\ Init
    BY DEF WalkInit
  <1>2. Good(nodes)
    BY <1>1, InitIInv DEF IInv
  <1>3. PICK list \in AttributeLists :
           attributes = [n \in Nodes |-> IF n \in ElementNodes(nodes) THEN set_attributes(list)
                                         ELSE NoAttributes]
    BY DEF WalkInit
  <1>4. HasList(set_attributes(list)) /\ HasList(NoAttributes)
    BY ParsedHasList
  <1>5. DOMAIN attributes = DOMAIN nodes /\ \A n \in DOMAIN nodes : HasList(attributes[n])
    BY <1>3, <1>4 DEF Nodes
  <1>6. given.nodes = nodes /\ DOMAIN given = {"nodes", "attributes", "parsed"}
    BY <1>1
  <1> QED
    BY <1>1, <1>2, <1>5, <1>6 DEF WalkInv, Running

LEMMA StepWalk == WalkInv /\ [WalkNext]_walkVars => WalkInv'
  <1> SUFFICES ASSUME WalkInv, [WalkNext]_walkVars PROVE WalkInv'
    OBVIOUS
  <1>1. CASE UNCHANGED walkVars
    BY <1>1 DEF walkVars, WalkInv, Running, PlaceSo, Yielded, TreeSo, AllRemaining, CleanIn, CleaningSo,
                FinishedSo, DoneNow, SeenNow, Child, Current
  <1>2. CASE Loop
    BY <1>2, StepYieldChild, StepIterChild, StepIterReturns, StepReaderBody, StepRemoveYielded,
       StepCleanYielded, StepCheckAttribute, StepAttributesDone DEF Loop
  <1> QED
    BY <1>1, <1>2, StepEditAttributes, StepStart DEF WalkNext

(***************************************************************************)
(* The loop over a walk of any tree sees the nodes that were below the     *)
(* root at the call in document order, or with each list from its end,     *)
(* each once; when the walk is finished it has seen them all.  In the      *)
(* sanitizer's loop too, which takes nodes out of the lists that the       *)
(* coroutine has lengths and indices of.                                   *)
(***************************************************************************)
THEOREM WalksInOrder == WalkSpec => []VisitsInOrder
  <1>1. ASSUME WalkInv PROVE VisitsInOrder
    <2>1. control # "cut short"
      BY <1>1 DEF WalkInv
    <2>2. ASSUME control = "body"
          PROVE  /\ Last(visited) \in Under(given.nodes, root)
                 /\ Len(visited) > 1 => Precedes(given.nodes, visited[Len(visited) - 1], Last(visited))
      <3> DEFINE g == given.nodes
      <3>1. Running
        BY <2>2 DEF Running
      <3>2. Last(visited) = Child /\ Current.done < Current.length
        BY <1>1, <2>2, <3>1, YieldedLast
      <3>3. Child \in Under(g, root)
        <4>1. /\ frames[1].node = root /\ 1 \in 1 .. Len(frames) /\ IsDom(g) /\ root \in DOMAIN g
          <5>1. Path(g, direction, frames, root) /\ Len(frames) \in Nat \ {0} /\ IsDom(g)
            BY <1>1, <3>1, WalkAt DEF Good
          <5>2. frames[1].node = root /\ 1 \in 1 .. Len(frames)
            BY <5>1 DEF Path
          <5> QED
            BY <5>1, <5>2, FrameFields
        <4>2. /\ Child \in Below(g, Child) /\ Below(g, Child) \subseteq Below(g, Current.node)
              /\ Current.node \notin Below(g, Child)
          BY <1>1, <3>1, <3>2, WalkAt, NextKidAt DEF Child
        <4>3. CASE Len(frames) = 1
          <5>1. Current.node = root
            BY <1>1, <3>1, <4>1, <4>3, WalkAt
          <5> QED
            BY <4>2, <5>1 DEF Under
        <4>4. CASE Len(frames) # 1
          <5> DEFINE top == NextKid(g, direction, frames[1])
          <5>1. 1 \in 1 .. Len(frames) - 1 /\ Len(frames) \in 1 .. Len(frames)
            <6> DEFINE L == Len(frames)
            <6>1. L \in Nat \ {0} /\ L # 1
              BY <1>1, <3>1, <4>4, WalkAt
            <6> HIDE DEF L
            <6>2. 1 \in 1 .. L - 1 /\ L \in 1 .. L
              BY ONLY <6>1
            <6> QED
              BY <6>2 DEF L
          <5>2. Current.node \in Below(g, top) /\ frames[1].done < frames[1].length
            BY <1>1, <3>1, <5>1, WalkAt DEF Path
          <5>3. /\ top \in DOMAIN g /\ Below(g, top) \subseteq Below(g, root) /\ root \notin Below(g, top)
            BY <1>1, <3>1, <4>1, <5>2, WalkAt, NextKidAt
          <5> HIDE DEF top
          <5>4. Below(g, Current.node) \subseteq Below(g, top)
            BY <4>1, <5>2, <5>3, BelowDown
          <5> QED
            BY <4>2, <5>3, <5>4 DEF Under
        <4> QED
          BY <4>3, <4>4
      <3>4. ASSUME Len(visited) > 1 PROVE Precedes(g, visited[Len(visited) - 1], Child)
        <4>1. PICK before : Yielded(before)
          BY <1>1, <2>2, <3>1 DEF WalkInv, PlaceSo
        <4>2. before \in Seq(DOMAIN g) /\ visited = Append(before, Child)
          BY <4>1 DEF Yielded
        <4> DEFINE k == Child
                   l == before[Len(before)]
        <4>3. visited[Len(visited) - 1] = l /\ before # <<>>
          <5>1. before \in Seq(DOMAIN g) /\ visited = Append(before, k)
            BY <4>2
          <5> HIDE DEF k
          <5>2. Len(visited) = Len(before) + 1 /\ Len(before) \in Nat
            BY <5>1
          <5>3. Len(before) \in 1 .. Len(before)
            BY <3>4, <5>2
          <5> QED
            BY <5>1, <5>2, <5>3
        <4>4. LastSeenAt(g, direction, frames, before)
          BY <4>1 DEF Yielded
        <4>5. \/ k \in Under(g, l)
              \/ \E p \in DOMAIN g : \E i, j \in DOMAIN g[p].kids :
                    /\ l \in Below(g, g[p].kids[i]) /\ k \in Below(g, g[p].kids[j])
                    /\ IF direction = "walk" THEN i < j ELSE j < i
          <5>1. k = NextKid(g, direction, Current)
            BY DEF Child
          <5> HIDE DEF k, l
          <5>2. l = before[Len(before)]
            BY DEF l
          <5>3. /\ Good(g) /\ direction \in Directions /\ Path(g, direction, frames, root)
                /\ Current = frames[Len(frames)]
            BY <1>1, <3>1, WalkAt
          <5> HIDE DEF g
          <5>4. PICK c : c = Current
            OBVIOUS
          <5> QED
            BY <3>2, <4>3, <4>4, <5>1, <5>2, <5>3, <5>4, SeenBefore
        <4> QED
          BY <4>3, <4>5 DEF Precedes
      <3> QED
        BY <3>2, <3>3, <3>4
    <2>3. control = "finished" => ToSet(visited) = Under(given.nodes, root)
      BY <1>1 DEF WalkInv, FinishedSo
    <2> QED
      BY <2>1, <2>2, <2>3 DEF VisitsInOrder
  <1> QED
    BY <1>1, InitWalk, StepWalk, PTL DEF WalkSpec

(***************************************************************************)
(* When the sanitizer has finished, the tree is the one that was given     *)
(* without the elements that are not allowed, every list in its order; and *)
(* no allowed element below the root has an attribute that is not allowed, *)
(* or has lost one that is and shares its name with no other.              *)
(***************************************************************************)
THEOREM SanitizerLeavesAllowed == WalkSpec => []OnlyAllowedStay
  <1>1. ASSUME WalkInv PROVE OnlyAllowedStay
    <2> SUFFICES ASSUME control = "finished", direction = "reverseWalk"
                 PROVE  OnlyAllowedNodesStay /\ OnlyAllowedAttributesStay
      BY DEF OnlyAllowedStay
    <2> DEFINE g == given.nodes
               gone == GoneOf(direction, g, allowed, Under(g, root))
    <2>1. /\ FinishedSo /\ Good(g) /\ DOMAIN attributes = DOMAIN g
          /\ \A n \in DOMAIN g : HasList(attributes[n])
      BY <1>1 DEF WalkInv
    <2>2. TreeKept(nodes, g, gone)
      BY <2>1 DEF FinishedSo
    <2>3. gone = {n \in Under(g, root) : g[n].type = "element" /\ n \notin allowed}
      BY DEF GoneOf
    <2>4. \A n : n \in gone <=> ~Stays(n)
      BY <2>3 DEF Stays
    <2> HIDE DEF gone
    <2>5. DOMAIN nodes = DOMAIN g
      BY <2>1, <2>2, DomFields DEF TreeKept, Good
    <2>6. OnlyAllowedNodesStay
      <3>1. ASSUME NEW n \in DOMAIN g
            PROVE  /\ Remaining(nodes[n].kids, g[n].kids)
                   /\ nodes[n].parent = IF Stays(n) THEN g[n].parent ELSE NULL
        <4>1. /\ KeptOf(nodes[n].kids, g[n].kids, gone)
              /\ nodes[n].parent = IF n \in gone THEN NULL ELSE g[n].parent
          BY <2>2 DEF TreeKept
        <4> QED
          BY <2>4, <4>1 DEF KeptOf, Remaining
      <3> QED
        BY <2>5, <3>1 DEF OnlyAllowedNodesStay, Nodes
    <2>7. OnlyAllowedAttributesStay
      <3>1. ASSUME NEW n \in allowed \cap Under(g, root)
            PROVE  LET list == given.attributes[n].list
                   IN  /\ \A a \in ToSet(attributes[n].list) : a.isAllowed
                       /\ \A i \in DOMAIN list :
                             list[i].isAllowed /\ (\A j \in DOMAIN list : list[j].name = list[i].name => j = i)
                                => list[i] \in ToSet(attributes[n].list)
        <4> DEFINE new == attributes[n].list
                   old == given.attributes[n].list
        <4>1. n \in DOMAIN g
          BY <2>1, BelowClosed DEF FinishedSo, Under, Good
        <4>2. AllowedBehind(new, 0) /\ Remain(new, old) /\ new \in Seq(Attributes)
          BY <2>1, <4>1 DEF FinishedSo, CleanIn, AllRemaining, HasList
        <4> HIDE DEF new, old
        <4>3. ToSet(new) = {new[q] : q \in DOMAIN new} /\ \A q \in DOMAIN new : q > 0
          BY <4>2 DEF ToSet
        <4>4. \A a \in ToSet(new) : a.isAllowed
          BY <4>2, <4>3 DEF AllowedBehind
        <4>5. ASSUME NEW i \in DOMAIN old, old[i].isAllowed,
                     \A j \in DOMAIN old : old[j].name = old[i].name => j = i
              PROVE  old[i] \in ToSet(new)
          BY <4>2, <4>3, <4>5 DEF Remain
        <4> QED
          BY <4>4, <4>5 DEF new, old
      <3> QED
        BY <3>1 DEF OnlyAllowedAttributesStay
    <2> QED
      BY <2>6, <2>7
  <1> QED
    BY <1>1, InitWalk, StepWalk, PTL DEF WalkSpec
=============================================================================
