-------------------------- MODULE BookManagerProofs --------------------------
(***************************************************************************)
(* What every behaviour of the manager keeps, for any finite set of        *)
(* references and any number of locates, prices and sizes.                 *)
(*                                                                         *)
(* First one book as a value: what an insert, an erase and a scan of a     *)
(* side return, for every sequence; then with its orders: every operation  *)
(* keeps a well-formed book whose levels list, count and sum the live      *)
(* orders that sit at them.                                                *)
(*                                                                         *)
(* Then all the books.  The inductive invariant is IInv: the type          *)
(* invariant, OrdersPlaced, Ladders and HandlesPartitioned, and the totals *)
(* of every level.  None is inductive alone: remove() erases a level when  *)
(* its count reaches zero, so that no order is left at a freed level only  *)
(* if the count is right; the count is right only if a handle is never     *)
(* owned twice; and a handle is read off the book only if the order says   *)
(* truly where it rests.                                                   *)
(*                                                                         *)
(* Then price-time priority: the links of every queue spell out the order  *)
(* of arrival, the books implement PriceTimeQueue, and prints are true to  *)
(* what rested.  The inductive invariant is QInv: IInv, that the history   *)
(* orders the live orders strictly and totally, and TimePriority.          *)
(* remove() ties the neighbours of an order to each other without a look   *)
(* at the queue: that what it ties are neighbours in time follows only if  *)
(* the links said so before, and that the history has no ties.             *)
(*                                                                         *)
(* Last the reference book beside the manager's.  The inductive invariant  *)
(* is DInv: QInv, that the levels of the reference book total its orders,  *)
(* and that its orders are those at rest in the manager's books.           *)
(***************************************************************************)
EXTENDS BookRefinement, Differential, FiniteSetTheorems, SequenceTheorems, WellFoundedInduction,
        TLAPS

-----------------------------------------------------------------------------
(* Sums over finite sets, as the folds of the community modules compute    *)
(* them: element by element, each next one chosen.  The library's theorems *)
(* for induction and recursive functions take operators, so what follows   *)
(* goes by the least counterexample among the sizes of the sets.           *)

\* The element a fold over s goes to first, and the rest.
Picked(s) == CHOOSE x \in s : TRUE
Rest(s)   == s \ {Picked(s)}

\* g is the function over the subsets of base that a sum of f computes.
Sums(f, base, g) ==
  g = [s \in SUBSET base |-> IF s = {} THEN 0 ELSE f[Picked(s)] + g[Rest(s)]]

SumOf(f, base) == (CHOOSE g : Sums(f, base, g))[base]

\* Every inhabited set of numbers has a least.
LEMMA LeastOf ==
  ASSUME NEW ns \in SUBSET Nat, ns # {}
  PROVE  \E n \in ns : \A m \in ns : n <= m
<1>1. PICK n \in ns : \A m \in ns : ~ (<<m, n>> \in OpToRel(<, Nat))
  BY NatLessThanWellFounded, WFMin
<1>2. \A m \in ns : ~ (m < n)
  BY <1>1 DEF OpToRel
<1> QED BY <1>2

\* What is chosen is there, and the rest is smaller.
LEMMA PickedFacts ==
  ASSUME NEW s, IsFiniteSet(s), s # {}
  PROVE  /\ Picked(s) \in s /\ Rest(s) \subseteq s /\ Rest(s) # s /\ IsFiniteSet(Rest(s))
         /\ Cardinality(Rest(s)) = Cardinality(s) - 1
         /\ Cardinality(s) \in Nat /\ Cardinality(Rest(s)) \in Nat
<1>1. Picked(s) \in s
  BY DEF Picked
<1> QED BY <1>1, FS_RemoveElement, FS_CardinalityType DEF Rest

\* There is such a function.
LEMMA SumsExist ==
  ASSUME NEW f, NEW base, IsFiniteSet(base)
  PROVE  \E g : Sums(f, base, g)
<1> DEFINE Small(n) == {s \in SUBSET base : Cardinality(s) <= n}
           For(n, g) == g = [s \in Small(n) |->
                               IF s = {} THEN 0 ELSE f[Picked(s)] + g[Rest(s)]]
           bad == {n \in Nat : ~ \E g : For(n, g)}
<1>a. \A s \in SUBSET base : IsFiniteSet(s) /\ Cardinality(s) \in Nat
  BY FS_Subset, FS_CardinalityType
<1>1. \E g : For(0, g)
  <2> DEFINE h == [s \in Small(0) |-> 0]
  <2>1. \A s \in Small(0) : s = {}
    BY <1>a, FS_EmptySet
  <2>2. For(0, h)
    BY <2>1
  <2> QED BY <2>2
<1>2. ASSUME NEW n \in Nat, \E g : For(n, g)
      PROVE  \E g : For(n + 1, g)
  <2>1. PICK g : For(n, g)
    BY <1>2
  <2> DEFINE h == [s \in Small(n + 1) |->
                     IF s = {} THEN 0 ELSE f[Picked(s)] + g[Rest(s)]]
  <2>2. \A s \in Small(n) : s \in Small(n + 1) /\ h[s] = g[s]
    <3> SUFFICES ASSUME NEW s \in Small(n)
                 PROVE  s \in Small(n + 1) /\ h[s] = g[s]
      OBVIOUS
    <3>1. s \in Small(n + 1)
      BY <1>a
    <3>2. h[s] = IF s = {} THEN 0 ELSE f[Picked(s)] + g[Rest(s)]
      BY <3>1
    <3>3. g[s] = IF s = {} THEN 0 ELSE f[Picked(s)] + g[Rest(s)]
      BY <2>1
    <3> QED BY <3>1, <3>2, <3>3
  <2>3. \A s \in Small(n + 1) : s # {} => Rest(s) \in Small(n)
    BY <1>a, PickedFacts
  <2>4. \A s \in Small(n + 1) :
          h[s] = IF s = {} THEN 0 ELSE f[Picked(s)] + h[Rest(s)]
    <3> SUFFICES ASSUME NEW s \in Small(n + 1)
                 PROVE  h[s] = IF s = {} THEN 0 ELSE f[Picked(s)] + h[Rest(s)]
      OBVIOUS
    <3>1. h[s] = IF s = {} THEN 0 ELSE f[Picked(s)] + g[Rest(s)]
      OBVIOUS
    <3> HIDE DEF h, Small
    <3> QED BY <2>2, <2>3, <3>1
  <2>5. h = [s \in Small(n + 1) |-> h[s]]
    OBVIOUS
  <2>6. For(n + 1, h)
    <3> HIDE DEF h, Small
    <3> QED BY <2>4, <2>5
  <2> QED BY <2>6
<1>3. bad = {}
  <2> SUFFICES ASSUME bad # {} PROVE FALSE
    OBVIOUS
  <2>1. PICK n \in bad : \A m \in bad : n <= m
    BY LeastOf
  <2> HIDE DEF For
  <2>2. n # 0
    BY <1>1, <2>1
  <2>3. n - 1 \in Nat /\ n - 1 \notin bad
    BY <2>1, <2>2
  <2>4. \E g : For(n - 1, g)
    BY <2>3
  <2>5. \E g : For((n - 1) + 1, g)
    BY <1>2, <2>3, <2>4
  <2>6. (n - 1) + 1 = n
    BY <2>1
  <2> QED BY <2>1, <2>5, <2>6
<1> DEFINE size == Cardinality(base)
<1>4. size \in Nat
  BY FS_CardinalityType
<1>5. PICK g : For(size, g)
  <2> HIDE DEF For, size
  <2> QED BY <1>3, <1>4
<1>6. Small(size) = SUBSET base
  BY <1>4, FS_Subset
<1>7. Sums(f, base, g)
  <2> HIDE DEF Small, size
  <2> QED BY <1>5, <1>6 DEF Sums
<1> QED BY <1>7

\* Sums of functions that agree on a set are the same there, whatever set was summed.
LEMMA SumsAgree ==
  ASSUME NEW f, NEW base, NEW g, Sums(f, base, g), NEW f2, NEW base2, NEW g2,
         Sums(f2, base2, g2), NEW u, u \subseteq base, u \subseteq base2, IsFiniteSet(u),
         \A x \in u : f[x] = f2[x]
  PROVE  g[u] = g2[u]
<1> DEFINE bad == {n \in Nat : \E s \in SUBSET u : Cardinality(s) = n /\ g[s] # g2[s]}
<1>1. bad = {}
  <2> SUFFICES ASSUME bad # {} PROVE FALSE
    OBVIOUS
  <2>1. PICK n \in bad : \A m \in bad : n <= m
    BY LeastOf
  <2>2. PICK s \in SUBSET u : Cardinality(s) = n /\ g[s] # g2[s]
    BY <2>1
  <2>3. IsFiniteSet(s) /\ s \in SUBSET base /\ s \in SUBSET base2
    BY FS_Subset
  <2>4. /\ g[s] = IF s = {} THEN 0 ELSE f[Picked(s)] + g[Rest(s)]
        /\ g2[s] = IF s = {} THEN 0 ELSE f2[Picked(s)] + g2[Rest(s)]
    BY <2>3 DEF Sums
  <2>5. s # {}
    BY <2>2, <2>4
  <2>6. /\ Picked(s) \in s /\ Rest(s) \in SUBSET u
        /\ Cardinality(Rest(s)) \in Nat /\ Cardinality(Rest(s)) = n - 1
    BY <2>2, <2>3, <2>5, PickedFacts
  <2>7. g[Rest(s)] # g2[Rest(s)]
    BY <2>2, <2>4, <2>5, <2>6
  <2>8. n - 1 \in bad
    BY <2>6, <2>7
  <2> QED BY <2>1, <2>8
<1>2. Cardinality(u) \in Nat
  BY FS_CardinalityType
<1> QED BY <1>1, <1>2

\* SumOf is what any such function says.
LEMMA SumOfIs ==
  ASSUME NEW f, NEW base, IsFiniteSet(base), NEW f2, NEW base2, NEW g, Sums(f2, base2, g),
         base \subseteq base2, \A x \in base : f[x] = f2[x]
  PROVE  SumOf(f, base) = g[base]
<1>1. Sums(f, base, CHOOSE h : Sums(f, base, h))
  BY SumsExist
<1> DEFINE h == CHOOSE h : Sums(f, base, h)
<1> HIDE DEF h
<1>2. Sums(f, base, h)
  BY <1>1 DEF h
<1>3. h[base] = g[base]
  BY <1>2, SumsAgree
<1> QED BY <1>3 DEF SumOf, h

\* Of equal summands the sums are equal.
LEMMA SumSame ==
  ASSUME NEW f, NEW f2, NEW base, IsFiniteSet(base), \A x \in base : f[x] = f2[x]
  PROVE  SumOf(f, base) = SumOf(f2, base)
<1>1. PICK g : Sums(f2, base, g)
  BY SumsExist
<1>2. SumOf(f, base) = g[base] /\ SumOf(f2, base) = g[base]
  BY <1>1, SumOfIs
<1> QED BY <1>2

\* Nothing adds up to nothing.
LEMMA SumEmpty ==
  ASSUME NEW f
  PROVE  SumOf(f, {}) = 0
<1>1. IsFiniteSet({})
  BY FS_EmptySet
<1>2. PICK g : Sums(f, {}, g)
  BY <1>1, SumsExist
<1>3. g[{}] = 0
  BY <1>2 DEF Sums
<1> QED BY <1>1, <1>2, <1>3, SumOfIs

\* Sums of natural numbers are natural numbers, and any summand may be taken out first.
LEMMA SumSplits ==
  ASSUME NEW f, NEW base, IsFiniteSet(base), \A x \in base : f[x] \in Nat
  PROVE  /\ SumOf(f, base) \in Nat
         /\ \A x \in base : SumOf(f, base) = f[x] + SumOf(f, base \ {x})
<1>1. PICK g : Sums(f, base, g)
  BY SumsExist
<1> DEFINE Good(s) == g[s] \in Nat /\ \A x \in s : g[s] = f[x] + g[s \ {x}]
           bad == {n \in Nat : \E s \in SUBSET base : Cardinality(s) = n /\ ~ Good(s)}
<1>2. bad = {}
  <2> SUFFICES ASSUME bad # {} PROVE FALSE
    OBVIOUS
  <2>1. PICK n \in bad : \A m \in bad : n <= m
    BY LeastOf
  <2>2. PICK s \in SUBSET base : Cardinality(s) = n /\ ~ Good(s)
    BY <2>1
  <2>3. IsFiniteSet(s) /\ n \in Nat
    BY <2>1, FS_Subset
  <2>4. g[s] = IF s = {} THEN 0 ELSE f[Picked(s)] + g[Rest(s)]
    BY <1>1 DEF Sums
  <2>5. s # {}
    BY <2>2, <2>4
  <2>6. Picked(s) \in s
    BY <2>3, <2>5, PickedFacts
  <2>7. ASSUME NEW t \in SUBSET s, NEW x \in s, x \notin t
        PROVE  Good(t)
    <3>1. t \in SUBSET base /\ IsFiniteSet(t) /\ t \subseteq s \ {x}
      BY <2>3, <2>7, FS_Subset
    <3>2. /\ Cardinality(s \ {x}) = n - 1 /\ IsFiniteSet(s \ {x})
      BY <2>2, <2>3, FS_RemoveElement
    <3>3. Cardinality(t) \in Nat /\ Cardinality(t) <= n - 1
      BY <3>1, <3>2, FS_CardinalityType, FS_Subset
    <3>4. Cardinality(t) \notin bad
      BY <2>1, <2>3, <3>3
    <3> HIDE DEF Good
    <3> QED BY <3>1, <3>3, <3>4
  <2> DEFINE c == Picked(s)
  <2>8. Good(Rest(s)) /\ Rest(s) = s \ {c} /\ f[c] \in Nat
    BY <2>6, <2>7 DEF Rest
  <2>9. g[s] \in Nat
    BY <2>4, <2>5, <2>8
  <2>10. ASSUME NEW x \in s PROVE g[s] = f[x] + g[s \ {x}]
    <3>1. CASE x = c
      BY <2>4, <2>5, <2>8, <3>1
    <3>2. CASE x # c
      <4> DEFINE both == s \ {x, c}
      <4>1. x \in Rest(s) /\ Rest(s) \ {x} = both
        BY <2>8, <3>2
      <4>2. g[Rest(s)] = f[x] + g[both]
        BY <2>8, <4>1
      <4>3. Good(s \ {x}) /\ Good(both)
        BY <2>7
      <4>4. c \in s \ {x} /\ (s \ {x}) \ {c} = both
        BY <2>6, <3>2
      <4>5. g[s \ {x}] = f[c] + g[both]
        BY <4>3, <4>4
      <4>6. g[both] \in Nat /\ f[x] \in Nat /\ f[c] \in Nat
        BY <2>8, <4>3
      <4>7. g[s] = f[c] + g[Rest(s)]
        BY <2>4, <2>5
      <4> HIDE DEF c, both, Good
      <4> QED BY <4>2, <4>5, <4>6, <4>7
    <3> QED BY <3>1, <3>2
  <2> QED BY <2>2, <2>9, <2>10
<1>3. Cardinality(base) \in Nat
  BY FS_CardinalityType
<1>4. Good(base)
  <2> HIDE DEF Good
  <2> QED BY <1>2, <1>3
<1>5. SumOf(f, base) = g[base]
  BY <1>1, SumOfIs
<1>6. ASSUME NEW x \in base PROVE SumOf(f, base \ {x}) = g[base \ {x}]
  <2>1. IsFiniteSet(base \ {x}) /\ base \ {x} \subseteq base
    BY FS_Subset
  <2> QED BY <1>1, <2>1, SumOfIs
<1> QED BY <1>4, <1>5, <1>6

\* The sum over one element, and over two, of numbers of either sign.
LEMMA SumFew ==
  ASSUME NEW f, NEW x, NEW y, f[x] \in Int, f[y] \in Int
  PROVE  /\ SumOf(f, {x}) = f[x]
         /\ x # y => SumOf(f, {x, y}) = f[x] + f[y]
<1> DEFINE base == {x, y}
<1>1. IsFiniteSet(base) /\ IsFiniteSet({x})
  <2>1. IsFiniteSet({x}) /\ base = {x} \cup {y}
    BY FS_Singleton
  <2> QED BY <2>1, FS_AddElement
<1>2. PICK g : Sums(f, base, g)
  BY <1>1, SumsExist
<1>3. g[{}] = 0 /\ \A z \in base : g[{z}] = f[z]
  <2>1. g[{}] = 0
    BY <1>2 DEF Sums
  <2>2. ASSUME NEW z \in base PROVE g[{z}] = f[z]
    <3>1. Picked({z}) = z /\ Rest({z}) = {}
      BY DEF Picked, Rest
    <3>2. {z} \in SUBSET base /\ {z} # {}
      OBVIOUS
    <3>3. g[{z}] = f[Picked({z})] + g[Rest({z})]
      BY <1>2, <3>2 DEF Sums
    <3>4. f[z] \in Int
      OBVIOUS
    <3>5. g[{z}] = f[z] + 0
      BY ONLY <2>1, <3>1, <3>3
    <3> QED BY ONLY <3>4, <3>5
  <2> QED BY <2>1, <2>2
<1>4. ASSUME x # y PROVE g[base] = f[x] + f[y]
  <2>1. Picked(base) \in base
    BY DEF Picked
  <2>2. g[base] = f[Picked(base)] + g[Rest(base)]
    BY <1>2 DEF Sums
  <2>3. CASE Picked(base) = x
    <3>1. Rest(base) = {y}
      BY <1>4, <2>3 DEF Rest
    <3> QED BY <1>3, <2>2, <2>3, <3>1
  <2>4. CASE Picked(base) = y
    <3>1. Rest(base) = {x}
      BY <1>4, <2>4 DEF Rest
    <3>2. g[base] = f[y] + f[x]
      BY <1>3, <2>2, <2>4, <3>1
    <3> QED BY <3>2
  <2> QED BY <2>1, <2>3, <2>4
<1>5. SumOf(f, {x}) = g[{x}] /\ SumOf(f, base) = g[base]
  <2>1. {x} \subseteq base
    OBVIOUS
  <2> QED BY <1>1, <1>2, <2>1, SumOfIs
<1> QED BY <1>3, <1>4, <1>5

-----------------------------------------------------------------------------
(* Sequences.                                                              *)

\* Sequence t is s with e put in at position i.
IsInsert(S, s, i, e, t) ==
  /\ t \in Seq(S) /\ Len(t) = Len(s) + 1
  /\ \A j \in 1 .. Len(s) + 1 : t[j] = IF j < i THEN s[j] ELSE IF j = i THEN e ELSE s[j - 1]

\* What InsertAt returns: s[1 .. i - 1], e, s[i ..].
LEMMA InsertAtFacts ==
  ASSUME NEW S, NEW s \in Seq(S), NEW i \in 1 .. Len(s) + 1, NEW e \in S
  PROVE  IsInsert(S, s, i, e, Sq!InsertAt(s, i, e))
<1> DEFINE left  == SubSeq(s, 1, i - 1)
           right == SubSeq(s, i, Len(s))
<1>1. /\ left \in Seq(S) /\ Len(left) = i - 1
      /\ \A j \in 1 .. i - 1 : left[j] = s[j]
  BY SubSeqProperties
<1>2. /\ right \in Seq(S) /\ Len(right) = Len(s) - i + 1
      /\ \A j \in 1 .. Len(s) - i + 1 : right[j] = s[i + j - 1]
  BY SubSeqProperties
<1>3. /\ left \o <<e>> \in Seq(S) /\ Len(left \o <<e>>) = i
      /\ \A j \in 1 .. i : (left \o <<e>>)[j] = IF j < i THEN s[j] ELSE e
  <2>1. <<e>> \in Seq(S) /\ Len(<<e>>) = 1 /\ <<e>>[1] = e
    OBVIOUS
  <2> QED BY <1>1, <2>1, ConcatProperties
<1>0. Len(s) \in Nat /\ i \in 1 .. Len(s) + 1
  OBVIOUS
<1> HIDE DEF left, right
<1> DEFINE front == left \o <<e>>
<1> HIDE DEF front
<1>3a. /\ front \in Seq(S) /\ Len(front) = i
       /\ \A j \in 1 .. i : front[j] = IF j < i THEN s[j] ELSE e
  BY <1>3 DEF front
<1>4. /\ front \o right \in Seq(S)
      /\ Len(front \o right) = Len(front) + Len(right)
      /\ \A j \in 1 .. Len(front) + Len(right) :
           (front \o right)[j] = IF j <= Len(front) THEN front[j] ELSE right[j - Len(front)]
  BY <1>2, <1>3a, ConcatProperties
<1>5. /\ front \o right \in Seq(S)
      /\ Len(front \o right) = Len(s) + 1
      /\ \A j \in 1 .. Len(s) + 1 :
           (front \o right)[j] = IF j < i THEN s[j] ELSE IF j = i THEN e ELSE s[j - 1]
  BY <1>0, <1>2, <1>3a, <1>4
<1> QED BY <1>5 DEF IsInsert, Sq!InsertAt, front, left, right

\* What RemoveAt returns: s without its i-th member.
LEMMA RemoveAtFacts ==
  ASSUME NEW S, NEW s \in Seq(S), NEW i \in 1 .. Len(s)
  PROVE  /\ Sq!RemoveAt(s, i) \in Seq(S)
         /\ Len(Sq!RemoveAt(s, i)) = Len(s) - 1
         /\ \A j \in 1 .. Len(s) - 1 :
              Sq!RemoveAt(s, i)[j] = IF j < i THEN s[j] ELSE s[j + 1]
<1> DEFINE left  == SubSeq(s, 1, i - 1)
           right == SubSeq(s, i + 1, Len(s))
<1>1. /\ left \in Seq(S) /\ Len(left) = i - 1
      /\ \A j \in 1 .. i - 1 : left[j] = s[j]
  BY SubSeqProperties
<1>2. /\ right \in Seq(S) /\ Len(right) = Len(s) - i
      /\ \A j \in 1 .. Len(s) - i : right[j] = s[i + j]
  BY SubSeqProperties
<1> HIDE DEF left, right
<1>3. /\ left \o right \in Seq(S)
      /\ Len(left \o right) = Len(left) + Len(right)
      /\ \A j \in 1 .. Len(left) + Len(right) :
           (left \o right)[j] = IF j <= Len(left) THEN left[j] ELSE right[j - Len(left)]
  BY <1>1, <1>2, ConcatProperties
<1> DEFINE both == left \o right
<1> HIDE DEF both
<1>4. /\ both \in Seq(S) /\ Len(both) = Len(left) + Len(right)
      /\ \A j \in 1 .. Len(left) + Len(right) :
           both[j] = IF j <= Len(left) THEN left[j] ELSE right[j - Len(left)]
  BY <1>3 DEF both
<1>5. Len(s) \in Nat /\ i \in Int /\ 1 <= i /\ i <= Len(s)
  OBVIOUS
<1>6. Len(both) = Len(s) - 1
  BY <1>1, <1>2, <1>4, <1>5
<1>7. ASSUME NEW j \in 1 .. Len(s) - 1
      PROVE  both[j] = IF j < i THEN s[j] ELSE s[j + 1]
  <2>1. j \in 1 .. Len(left) + Len(right)
    BY <1>1, <1>2, <1>5
  <2>2. CASE j < i
    <3>1. j \in 1 .. i - 1 /\ j <= Len(left)
      BY <1>1, <1>5, <2>2
    <3> QED BY <1>1, <1>4, <2>1, <2>2, <3>1
  <2>3. CASE ~ (j < i)
    <3>1. j - Len(left) \in 1 .. Len(s) - i /\ ~ (j <= Len(left)) /\ i + (j - Len(left)) = j + 1
      BY <1>1, <1>5, <2>3
    <3>2. right[j - Len(left)] = s[i + (j - Len(left))]
      BY <1>2, <3>1
    <3> QED BY <1>4, <2>1, <2>3, <3>1, <3>2
  <2> QED BY <2>2, <2>3
<1> QED BY <1>4, <1>6, <1>7 DEF Sq!RemoveAt, both, left, right

\* What popping the back of a vector leaves, and what back() returns.
LEMMA FrontFacts ==
  ASSUME NEW S, NEW s \in Seq(S), s # <<>>
  PROVE  /\ Len(s) \in Nat \ {0}
         /\ Sq!Front(s) \in Seq(S)
         /\ Len(Sq!Front(s)) = Len(s) - 1
         /\ \A j \in 1 .. Len(s) - 1 : Sq!Front(s)[j] = s[j]
         /\ Sq!Last(s) = s[Len(s)] /\ Sq!Last(s) \in S
<1>1. Len(s) \in Nat \ {0}
  BY EmptySeq
<1> DEFINE n == Len(s) - 1
<1>2. /\ SubSeq(s, 1, n) \in Seq(S)
      /\ Len(SubSeq(s, 1, n)) = n
      /\ \A j \in 1 .. n : SubSeq(s, 1, n)[j] = s[j]
  <2>1. n \in Nat /\ \A j \in 1 .. n : s[j] \in S
    BY <1>1, ElementOfSeq
  <2> HIDE DEF n
  <2>2. /\ SubSeq(s, 1, n) \in Seq(S)
        /\ Len(SubSeq(s, 1, n)) = IF 1 <= n THEN n - 1 + 1 ELSE 0
        /\ \A j \in 1 .. n - 1 + 1 : SubSeq(s, 1, n)[j] = s[1 + j - 1]
    BY <2>1, SubSeqProperties
  <2> QED BY <2>1, <2>2
<1>3. s[Len(s)] \in S
  BY <1>1, ElementOfSeq
<1> QED BY <1>1, <1>2, <1>3 DEF Sq!Front, Sq!Last

\* A set of positions of a sequence has a last one, and Max returns it.
LEMMA MaxFacts ==
  ASSUME NEW n \in Nat, NEW I \in SUBSET (1 .. n), I # {}
  PROVE  Sq!Max(I) \in I /\ \A j \in I : j <= Sq!Max(I)
<1> DEFINE T == {n - i : i \in I}
<1>0. \A i \in I : i \in Int /\ i <= n
  OBVIOUS
<1>1. T \subseteq Nat /\ T # {}
  <2>1. \A i \in I : n - i \in Nat
    BY <1>0
  <2> QED BY <2>1
<1>2. PICK x \in T : \A y \in T : ~ (<<y, x>> \in OpToRel(<, Nat))
  BY <1>1, NatLessThanWellFounded, WFMin
<1>3. \A y \in T : x <= y
  <2> TAKE y \in T
  <2>1. x \in Nat /\ y \in Nat
    BY <1>1
  <2>2. ~ (y < x)
    BY <1>2, <2>1 DEF OpToRel
  <2> QED BY <2>1, <2>2
<1>4. PICK m \in I : x = n - m
  OBVIOUS
<1>m. m \in Int /\ n \in Int
  BY ONLY <1>0, m \in I, n \in Nat
<1>5. \A j \in I : m >= j
  <2>1. \A j \in I : n - m <= n - j
    BY <1>3, <1>4
  <2> QED BY ONLY <1>0, <1>m, <2>1
<1> QED BY <1>4, <1>5 DEF Sq!Max

\* The scan from the back stops at the last entry whose key is not above key,
\* or before the first.
LEMMA ScanFacts ==
  ASSUME NEW s \in Seq(Entry), NEW key \in Int
  PROVE  /\ ScanFromBack(s, key) \in 0 .. Len(s)
         /\ ScanFromBack(s, key) > 0 => s[ScanFromBack(s, key)].key <= key
         /\ \A j \in 1 .. Len(s) : j > ScanFromBack(s, key) => s[j].key > key
<1> DEFINE I == {i \in 1 .. Len(s) : s[i].key <= key}
<1>1. ScanFromBack(s, key) = IF I # {} THEN Sq!Max(I) ELSE 0
  BY DEF ScanFromBack, Sq!SelectLastInSeq
<1>2. \A j \in 1 .. Len(s) : s[j].key \in Int
  <2> TAKE j \in 1 .. Len(s)
  <2>1. s[j] \in Entry
    BY ElementOfSeq
  <2> QED BY <2>1 DEF Entry
<1>3. CASE I = {}
  BY <1>1, <1>2, <1>3
<1>4. CASE I # {}
  <2>1. Sq!Max(I) \in I /\ \A j \in I : j <= Sq!Max(I)
    <3>1. Len(s) \in Nat /\ I \in SUBSET (1 .. Len(s))
      OBVIOUS
    <3> HIDE DEF I
    <3> QED BY <1>4, <3>1, MaxFacts
  <2>2. ScanFromBack(s, key) = Sq!Max(I)
    BY <1>1, <1>4
  <2>3. \A j \in 1 .. Len(s) : j > Sq!Max(I) => s[j].key > key
    <3> SUFFICES ASSUME NEW j \in 1 .. Len(s), j > Sq!Max(I), ~ (s[j].key > key)
                 PROVE  FALSE
      OBVIOUS
    <3>1. j \in I
      BY <1>2
    <3> QED BY <2>1, <3>1
  <2> QED BY <2>1, <2>2, <2>3
<1> QED BY <1>3, <1>4

\* The scan erase_level makes finds the entry of h when there is one.
LEMMA FindLevelFacts ==
  ASSUME NEW s \in Seq(Entry), NEW h, \E j \in 1 .. Len(s) : s[j].level = h
  PROVE  LET i == Sq!SelectLastInSeq(s, LAMBDA e : e.level = h)
         IN i \in 1 .. Len(s) /\ s[i].level = h
<1> DEFINE I == {i \in 1 .. Len(s) : s[i].level = h}
<1>1. Sq!SelectLastInSeq(s, LAMBDA e : e.level = h) = IF I # {} THEN Sq!Max(I) ELSE 0
  BY DEF Sq!SelectLastInSeq
<1>2. I # {} /\ I \in SUBSET (1 .. Len(s)) /\ Len(s) \in Nat
  OBVIOUS
<1>3. Sq!Max(I) \in I
  <2> HIDE DEF I
  <2> QED BY <1>2, MaxFacts
<1> QED BY <1>1, <1>2, <1>3

-----------------------------------------------------------------------------
(* The pool of levels and the two sides.                                   *)

\* A well-formed pool and sides.
IsBook(refs, b) == b \in BookType(refs) /\ Laddered(b) /\ HandlesOwned(b)

\* Position i of a side is where key belongs: after the smaller, before the larger.
Fits(s, i, key) ==
  /\ i \in 0 .. Len(s)
  /\ \A j \in 1 .. Len(s) : j <= i => s[j].key < key
  /\ \A j \in 1 .. Len(s) : j > i => s[j].key > key

\* Book c is b with level h found, or opened empty, for key on side buy.
HasLevel(b, c, h, buy, key) ==
  /\ h \in Handles(c) /\ h \in Listed(c, buy) /\ c.levels[h].key = key
  /\ Handles(b) \subseteq Handles(c)
  /\ \A g \in Handles(b) : g # h => c.levels[g] = b.levels[g]
  /\ \/ h \in OpenLevels(b) /\ c = b
     \/ h \notin OpenLevels(b) /\ c.levels[h] = EmptyLevel(key)
  /\ Listed(c, buy) = Listed(b, buy) \cup {h}
  /\ \A other \in BOOLEAN : other # buy => Listed(c, other) = Listed(b, other)

\* What the components of a book are.
LEMMA BookTypeFacts ==
  ASSUME NEW refs, NEW b \in BookType(refs)
  PROVE  /\ b = [levels |-> b.levels, free |-> b.free, side |-> b.side]
         /\ b.levels \in Seq(Level(refs)) /\ b.free \in Seq(Nat)
         /\ b.side \in [BOOLEAN -> Seq(Entry)]
         /\ Len(b.levels) \in Nat /\ Len(b.free) \in Nat
         /\ DOMAIN b.levels = 1 .. Len(b.levels)
         /\ DOMAIN b.free = 1 .. Len(b.free)
         /\ \A buy \in BOOLEAN : /\ b.side[buy] \in Seq(Entry)
                                 /\ Len(b.side[buy]) \in Nat
                                 /\ DOMAIN b.side[buy] = 1 .. Len(b.side[buy])
                                 /\ \A i \in 1 .. Len(b.side[buy]) : b.side[buy][i] \in Entry
         /\ \A h \in 1 .. Len(b.levels) : b.levels[h] \in Level(refs)
         /\ \A i \in 1 .. Len(b.free) : b.free[i] \in Nat
<1>1. /\ b = [levels |-> b.levels, free |-> b.free, side |-> b.side]
      /\ b.levels \in Seq(Level(refs)) /\ b.free \in Seq(Nat)
      /\ b.side \in [BOOLEAN -> Seq(Entry)]
  BY DEF BookType
<1>2. \A buy \in BOOLEAN : b.side[buy] \in Seq(Entry)
  BY <1>1
<1>3. \A buy \in BOOLEAN : \A i \in 1 .. Len(b.side[buy]) : b.side[buy][i] \in Entry
  BY <1>2, ElementOfSeq
<1>4. /\ \A h \in 1 .. Len(b.levels) : b.levels[h] \in Level(refs)
      /\ \A i \in 1 .. Len(b.free) : b.free[i] \in Nat
  BY <1>1, ElementOfSeq
<1> QED BY <1>1, <1>2, <1>3, <1>4, LenProperties

\* What a side lists, entry by entry; a laddered side lists handles of the pool.
LEMMA ListedFacts ==
  ASSUME NEW refs, NEW b \in BookType(refs), NEW buy \in BOOLEAN
  PROVE  /\ \A h : h \in Listed(b, buy)
                  <=> \E i \in 1 .. Len(b.side[buy]) : b.side[buy][i].level = h
         /\ Listed(b, buy) \subseteq OpenLevels(b)
         /\ Laddered(b) => Listed(b, buy) \subseteq Handles(b)
         /\ OpenLevels(b) = Listed(b, TRUE) \cup Listed(b, FALSE)
<1>1. DOMAIN b.side[buy] = 1 .. Len(b.side[buy])
  BY BookTypeFacts
<1>2. \A h : h \in Listed(b, buy)
            <=> \E i \in 1 .. Len(b.side[buy]) : b.side[buy][i].level = h
  BY <1>1 DEF Listed
<1>3. Laddered(b) => \A i \in 1 .. Len(b.side[buy]) : b.side[buy][i].level \in Handles(b)
  BY <1>1 DEF Laddered
<1>4. Listed(b, buy) \subseteq OpenLevels(b)
  <2>1. buy = TRUE \/ buy = FALSE
    OBVIOUS
  <2> QED BY <2>1 DEF OpenLevels
<1> QED BY <1>2, <1>3, <1>4 DEF OpenLevels

\* A listed handle has an entry.
LEMMA ListedAt ==
  ASSUME NEW refs, NEW b \in BookType(refs), NEW buy \in BOOLEAN, NEW h \in Listed(b, buy)
  PROVE  \E j \in 1 .. Len(b.side[buy]) : b.side[buy][j].level = h
<1>1. DOMAIN b.side[buy] = 1 .. Len(b.side[buy])
  BY BookTypeFacts
<1> QED BY <1>1 DEF Listed

\* The parts of HandlesOwned, over the positions of the freelist and the sides.
LEMMA HandlesOwnedFacts ==
  ASSUME NEW refs, NEW b \in BookType(refs)
  PROVE  HandlesOwned(b) <=>
         /\ \A i, j \in 1 .. Len(b.free) : b.free[i] = b.free[j] => i = j
         /\ \A i \in 1 .. Len(b.free) : /\ b.free[i] \in 1 .. Len(b.levels)
                                       /\ b.free[i] \notin OpenLevels(b)
         /\ \A buy \in BOOLEAN : \A i, j \in 1 .. Len(b.side[buy]) :
              b.side[buy][i].level = b.side[buy][j].level => i = j
         /\ \A h \in 1 .. Len(b.levels) :
              h \in OpenLevels(b) \/ \E i \in 1 .. Len(b.free) : b.free[i] = h
<1>1. /\ DOMAIN b.free = 1 .. Len(b.free)
      /\ \A buy \in BOOLEAN : DOMAIN b.side[buy] = 1 .. Len(b.side[buy])
  BY BookTypeFacts
<1>2. (\A i, j \in DOMAIN b.free : b.free[i] = b.free[j] => i = j)
      <=> \A i, j \in 1 .. Len(b.free) : b.free[i] = b.free[j] => i = j
  BY <1>1
<1>3. (\A i \in DOMAIN b.free : b.free[i] \in Handles(b) \ OpenLevels(b))
      <=> \A i \in 1 .. Len(b.free) : /\ b.free[i] \in 1 .. Len(b.levels)
                                       /\ b.free[i] \notin OpenLevels(b)
  BY <1>1 DEF Handles
<1>4. (\A buy \in BOOLEAN : \A i, j \in DOMAIN b.side[buy] :
         b.side[buy][i].level = b.side[buy][j].level => i = j)
      <=> \A buy \in BOOLEAN : \A i, j \in 1 .. Len(b.side[buy]) :
            b.side[buy][i].level = b.side[buy][j].level => i = j
  BY <1>1
<1>5. (\A h \in Handles(b) : h \in OpenLevels(b) \/ \E i \in DOMAIN b.free : b.free[i] = h)
      <=> \A h \in 1 .. Len(b.levels) :
            h \in OpenLevels(b) \/ \E i \in 1 .. Len(b.free) : b.free[i] = h
  BY <1>1 DEF Handles
<1> QED BY ONLY <1>2, <1>3, <1>4, <1>5, Zenon DEF HandlesOwned

\* The parts of Laddered, over the positions of the sides.
LEMMA LadderedFacts ==
  ASSUME NEW refs, NEW b \in BookType(refs)
  PROVE  Laddered(b) <=>
         \A buy \in BOOLEAN : \A i \in 1 .. Len(b.side[buy]) :
           LET e == b.side[buy][i]
           IN /\ \A j \in 1 .. Len(b.side[buy]) : j < i => b.side[buy][j].key < e.key
              /\ e.level \in 1 .. Len(b.levels)
              /\ b.levels[e.level].key = e.key
              /\ (e.key > 0) = buy /\ e.key # 0
<1>1. \A buy \in BOOLEAN : DOMAIN b.side[buy] = 1 .. Len(b.side[buy])
  BY BookTypeFacts
<1> QED BY <1>1, SMTT(40) DEF Laddered, Handles

\* A level taken from the freelist, or from a pool one longer, belongs to
\* nobody else; listed where its key belongs it keeps the ladder sorted.
LEMMA OpenLevelFacts ==
  ASSUME NEW refs, NilRef \in refs, NEW b, IsBook(refs, b),
         NEW buy \in BOOLEAN, NEW key \in Int, key # 0, (key > 0) = buy,
         NEW i, Fits(b.side[buy], i, key)
  PROVE  /\ IsBook(refs, OpenLevel(b, buy, key, i + 1))
         /\ HasLevel(b, OpenLevel(b, buy, key, i + 1), TakeHandle(b), buy, key)
<1>a. /\ b \in BookType(refs) /\ Laddered(b) /\ HandlesOwned(b)
      /\ i \in 0 .. Len(b.side[buy])
      /\ \A j \in 1 .. Len(b.side[buy]) : j <= i => b.side[buy][j].key < key
      /\ \A j \in 1 .. Len(b.side[buy]) : j > i => b.side[buy][j].key > key
  BY DEF IsBook, Fits
<1> USE <1>a
<1> DEFINE c == OpenLevel(b, buy, key, i + 1)
           h == TakeHandle(b)
           s == b.side[buy]
           e == [key |-> key, level |-> h]
           t == Sq!InsertAt(s, i + 1, e)
<1>b. /\ b.levels \in Seq(Level(refs)) /\ b.free \in Seq(Nat)
      /\ b.side \in [BOOLEAN -> Seq(Entry)]
      /\ Len(b.levels) \in Nat /\ Len(b.free) \in Nat
      /\ DOMAIN b.levels = 1 .. Len(b.levels) /\ DOMAIN b.free = 1 .. Len(b.free)
      /\ s \in Seq(Entry) /\ Len(s) \in Nat
      /\ \A g \in BOOLEAN : DOMAIN b.side[g] = 1 .. Len(b.side[g])
      /\ \A j \in 1 .. Len(b.free) : b.free[j] \in Nat
  BY BookTypeFacts
<1>0. EmptyLevel(key) \in Level(refs)
  BY DEF EmptyLevel, Level
\* The pool and the freelist.
<1>1. /\ c.levels \in Seq(Level(refs)) /\ c.free \in Seq(Nat)
      /\ h \in Nat /\ h \in 1 .. Len(c.levels)
      /\ 1 .. Len(b.levels) \subseteq 1 .. Len(c.levels)
      /\ 1 .. Len(c.levels) = (1 .. Len(b.levels)) \cup {h}
      /\ c.levels[h] = EmptyLevel(key)
      /\ \A g \in 1 .. Len(b.levels) : g # h => c.levels[g] = b.levels[g]
      /\ h \notin OpenLevels(b)
      /\ Len(c.free) \in Nat /\ DOMAIN c.free = 1 .. Len(c.free)
      /\ \A j \in 1 .. Len(c.free) : /\ j \in 1 .. Len(b.free)
                                     /\ c.free[j] = b.free[j] /\ c.free[j] # h
      /\ \A j \in 1 .. Len(b.free) : b.free[j] = h \/ j \in 1 .. Len(c.free)
  <2>1. CASE b.free = <<>>
    <3>1. /\ h = Len(b.levels) + 1
          /\ c.levels = Append(b.levels, EmptyLevel(key)) /\ c.free = <<>>
      BY <2>1 DEF OpenLevel, TakeHandle
    <3>2. \A g \in OpenLevels(b) : g \in 1 .. Len(b.levels)
      BY ListedFacts DEF Handles
    <3> HIDE DEF c, h
    <3>3. /\ c.levels \in Seq(Level(refs)) /\ Len(c.levels) = Len(b.levels) + 1
          /\ \A g \in 1 .. Len(b.levels) : c.levels[g] = b.levels[g]
          /\ c.levels[h] = EmptyLevel(key)
      BY <1>b, <1>0, <3>1, AppendProperties
    <3>4. Len(b.free) = 0 /\ Len(c.free) = 0 /\ c.free \in Seq(Nat)
      BY <2>1, <3>1, EmptySeq
    <3> QED BY <1>b, <3>1, <3>2, <3>3, <3>4
  <2>2. CASE b.free # <<>>
    <3>1. /\ h = Sq!Last(b.free)
          /\ c.levels = [b.levels EXCEPT ![h] = EmptyLevel(key)]
          /\ c.free = Sq!Front(b.free)
      BY <2>2 DEF OpenLevel, TakeHandle
    <3> HIDE DEF c, h
    <3>2. /\ Len(b.free) \in Nat \ {0} /\ c.free \in Seq(Nat)
          /\ Len(c.free) = Len(b.free) - 1
          /\ \A j \in 1 .. Len(b.free) - 1 : c.free[j] = b.free[j]
          /\ h = b.free[Len(b.free)]
      <4>1. /\ Len(b.free) \in Nat \ {0}
            /\ Sq!Front(b.free) \in Seq(Nat)
            /\ Len(Sq!Front(b.free)) = Len(b.free) - 1
            /\ \A j \in 1 .. Len(b.free) - 1 : Sq!Front(b.free)[j] = b.free[j]
            /\ Sq!Last(b.free) = b.free[Len(b.free)]
        BY <1>b, <2>2, FrontFacts
      <4> QED BY <3>1, <4>1
    <3>2a. Len(b.free) \in 1 .. Len(b.free)
      BY <3>2
    <3>3. h \in 1 .. Len(b.levels) /\ h \notin OpenLevels(b)
      BY <3>2, <3>2a, HandlesOwnedFacts
    <3>4. /\ c.levels \in Seq(Level(refs)) /\ Len(c.levels) = Len(b.levels)
          /\ c.levels[h] = EmptyLevel(key)
          /\ \A g \in 1 .. Len(b.levels) : g # h => c.levels[g] = b.levels[g]
      BY <1>b, <1>0, <3>1, <3>3, ExceptSeq
    <3>5. \A j \in 1 .. Len(b.free) - 1 : b.free[j] # h
      <4> SUFFICES ASSUME NEW j \in 1 .. Len(b.free) - 1, b.free[j] = h PROVE FALSE
        OBVIOUS
      <4>1. j \in 1 .. Len(b.free) /\ j # Len(b.free)
        BY <3>2
      <4>2. \A m, n \in 1 .. Len(b.free) : b.free[m] = b.free[n] => m = n
        BY HandlesOwnedFacts
      <4> QED BY <3>2, <3>2a, <4>1, <4>2
    <3>6. 1 .. Len(c.levels) = 1 .. Len(b.levels)
      BY <3>4
    <3>7. /\ Len(c.free) \in Nat /\ DOMAIN c.free = 1 .. Len(c.free)
          /\ 1 .. Len(c.free) \subseteq 1 .. Len(b.free)
          /\ \A j \in 1 .. Len(c.free) : c.free[j] = b.free[j] /\ c.free[j] # h
      <4>1. Len(c.free) \in Nat /\ DOMAIN c.free = 1 .. Len(c.free)
        BY <3>2, LenProperties
      <4>2. 1 .. Len(c.free) \subseteq 1 .. Len(b.free)
        BY <3>2
      <4>3. \A j \in 1 .. Len(c.free) : c.free[j] = b.free[j]
        BY <3>2
      <4>4. \A j \in 1 .. Len(c.free) : b.free[j] # h
        BY <3>2, <3>5
      <4> QED BY <4>1, <4>2, <4>3, <4>4
    <3>8. \A j \in 1 .. Len(b.free) : b.free[j] = h \/ j \in 1 .. Len(c.free)
      <4> TAKE j \in 1 .. Len(b.free)
      <4>1. j = Len(b.free) \/ j \in 1 .. Len(b.free) - 1
        BY <3>2
      <4> QED BY <3>2, <4>1
    <3> QED BY <3>2, <3>3, <3>4, <3>6, <3>7, <3>8
  <2> QED BY <2>1, <2>2
\* The sides.
<1>2. e \in Entry /\ e.key = key /\ e.level = h
  BY <1>1 DEF Entry
<1>3. c.side = [b.side EXCEPT ![buy] = t]
  BY DEF OpenLevel
<1> HIDE DEF c, h, e
<1>4. /\ t \in Seq(Entry) /\ Len(t) = Len(s) + 1
      /\ \A j \in 1 .. Len(s) + 1 :
           t[j] = IF j < i + 1 THEN s[j] ELSE IF j = i + 1 THEN e ELSE s[j - 1]
  <2>1. i + 1 \in 1 .. Len(s) + 1
    BY <1>b
  <2>2. s \in Seq(Entry)
    BY <1>b
  <2> DEFINE k == i + 1
  <2> HIDE DEF s, k
  <2>3. /\ Sq!InsertAt(s, k, e) \in Seq(Entry) /\ Len(Sq!InsertAt(s, k, e)) = Len(s) + 1
        /\ \A j \in 1 .. Len(s) + 1 :
             Sq!InsertAt(s, k, e)[j] = IF j < k THEN s[j] ELSE IF j = k THEN e ELSE s[j - 1]
    <3>1. k \in 1 .. Len(s) + 1
      BY <2>1 DEF k
    <3>2. IsInsert(Entry, s, k, e, Sq!InsertAt(s, k, e))
      BY ONLY <1>2, <2>2, <3>1, InsertAtFacts
    <3> QED BY <3>2 DEF IsInsert
  <2> QED BY <2>3 DEF k
<1>5. /\ c.side \in [BOOLEAN -> Seq(Entry)] /\ c.side[buy] = t
      /\ \A other \in BOOLEAN : other # buy => c.side[other] = b.side[other]
  <2> HIDE DEF t, s
  <2> QED BY <1>b, <1>3, <1>4
<1>6. c \in BookType(refs)
  BY <1>1, <1>5 DEF BookType, OpenLevel, c
<1>s. Len(s) \in Nat /\ i \in 0 .. Len(s) /\ s = b.side[buy]
  BY <1>b
<1> HIDE DEF t, s
<1>7. /\ \A j \in 1 .. Len(s) : \/ j \in 1 .. Len(t) /\ t[j] = s[j]
                                \/ j + 1 \in 1 .. Len(t) /\ t[j + 1] = s[j]
      /\ i + 1 \in 1 .. Len(t) /\ t[i + 1] = e
  <2>1. i + 1 \in 1 .. Len(t) /\ t[i + 1] = e
    BY <1>s, <1>4
  <2>2. ASSUME NEW j \in 1 .. Len(s)
        PROVE  \/ j \in 1 .. Len(t) /\ t[j] = s[j]
               \/ j + 1 \in 1 .. Len(t) /\ t[j + 1] = s[j]
    <3>1. CASE j <= i
      BY <1>s, <1>4, <3>1
    <3>2. CASE ~ (j <= i)
      <4>1. j + 1 \in 1 .. Len(s) + 1 /\ ~ (j + 1 < i + 1) /\ j + 1 # i + 1 /\ (j + 1) - 1 = j
        BY <1>s, <3>2
      <4> QED BY <1>s, <1>4, <4>1
    <3> QED BY <3>1, <3>2
  <2> QED BY <2>1, <2>2
<1>8. \A j \in 1 .. Len(t) :
        \/ j = i + 1 /\ t[j] = e
        \/ j < i + 1 /\ j \in 1 .. Len(s) /\ j <= i /\ t[j] = s[j]
        \/ j > i + 1 /\ j - 1 \in 1 .. Len(s) /\ j - 1 > i /\ t[j] = s[j - 1]
  BY <1>s, <1>4, SMTT(40)
<1>9. /\ Listed(c, buy) = Listed(b, buy) \cup {h}
      /\ \A other \in BOOLEAN : other # buy => Listed(c, other) = Listed(b, other)
  <2>1. \A g : g \in Listed(c, buy) <=> \E j \in 1 .. Len(t) : t[j].level = g
    <3>1. \A g : g \in Listed(c, buy)
                <=> \E j \in 1 .. Len(c.side[buy]) : c.side[buy][j].level = g
      BY <1>6, ListedFacts
    <3> QED BY <1>5, <3>1
  <2>2. \A g : g \in Listed(b, buy) <=> \E j \in 1 .. Len(s) : s[j].level = g
    <3>1. \A g : g \in Listed(b, buy)
                <=> \E j \in 1 .. Len(b.side[buy]) : b.side[buy][j].level = g
      BY ListedFacts
    <3> QED BY <1>s, <3>1
  <2>3. \A g : g \in Listed(c, buy) => g \in Listed(b, buy) \cup {h}
    BY <1>2, <1>8, <2>1, <2>2
  <2>4. \A g : g \in Listed(b, buy) \cup {h} => g \in Listed(c, buy)
    <3>1. h \in Listed(c, buy)
      BY <1>2, <1>7, <2>1
    <3>2. ASSUME NEW g \in Listed(b, buy)
          PROVE  g \in Listed(c, buy)
      <4>1. PICK j \in 1 .. Len(s) : s[j].level = g
        BY <2>2
      <4>2. \E k \in 1 .. Len(t) : t[k] = s[j]
        BY <1>7
      <4> QED BY <2>1, <4>1, <4>2
    <3> QED BY <3>1, <3>2
  <2>5. \A other \in BOOLEAN : other # buy => Listed(c, other) = Listed(b, other)
    BY <1>5 DEF Listed
  <2> QED BY <2>3, <2>4, <2>5
<1>10. Laddered(c)
  <2> SUFFICES ASSUME NEW other \in BOOLEAN, NEW j \in 1 .. Len(c.side[other])
               PROVE  LET f == c.side[other][j]
                      IN /\ \A k \in 1 .. Len(c.side[other]) :
                              k < j => c.side[other][k].key < f.key
                         /\ f.level \in 1 .. Len(c.levels)
                         /\ c.levels[f.level].key = f.key
                         /\ (f.key > 0) = other /\ f.key # 0
    BY <1>6, LadderedFacts
  <2>1. ASSUME NEW side \in BOOLEAN, NEW m \in 1 .. Len(b.side[side])
        PROVE  LET f == b.side[side][m]
               IN /\ f.key \in Int
                  /\ f.level \in 1 .. Len(c.levels) /\ f.level # h
                  /\ c.levels[f.level].key = f.key
                  /\ (f.key > 0) = side /\ f.key # 0
    <3>1. /\ b.side[side][m].level \in 1 .. Len(b.levels)
          /\ b.levels[b.side[side][m].level].key = b.side[side][m].key
          /\ (b.side[side][m].key > 0) = side /\ b.side[side][m].key # 0
      BY LadderedFacts, SMTT(40)
    <3>2. b.side[side][m].level \in OpenLevels(b)
      BY ListedFacts
    <3>3. b.side[side][m].key \in Int
      BY BookTypeFacts DEF Entry
    <3> QED BY <1>1, <3>1, <3>2, <3>3
  <2>2. CASE other # buy
    <3>1. c.side[other] = b.side[other]
      BY <1>5, <2>2
    <3>2. \A k \in 1 .. Len(b.side[other]) :
            k < j => b.side[other][k].key < b.side[other][j].key
      BY <3>1, LadderedFacts
    <3> QED BY <2>1, <3>1, <3>2
  <2>3. CASE other = buy
    <3>1. c.side[other] = t
      BY <1>5, <2>3
    <3>2. \A m, k \in 1 .. Len(s) : k < m => s[k].key < s[m].key
      BY <1>s, LadderedFacts
    <3>3. /\ \A m \in 1 .. Len(s) : m <= i => s[m].key < key
          /\ \A m \in 1 .. Len(s) : m > i => key < s[m].key
          /\ \A m \in 1 .. Len(s) : s[m].key \in Int
      BY <1>s, <2>1
    <3>4. ASSUME NEW k \in 1 .. Len(t), k < j PROVE t[k].key < t[j].key
      <4>1. j \in 1 .. Len(t) /\ j \in Int /\ k \in Int
        BY <1>4, <3>1
      <4>2. \/ k = i + 1 /\ t[k].key = key
            \/ k < i + 1 /\ k \in 1 .. Len(s) /\ k <= i /\ t[k] = s[k]
            \/ k > i + 1 /\ k - 1 \in 1 .. Len(s) /\ k - 1 > i /\ t[k] = s[k - 1]
        BY <1>2, <1>8
      <4>3. \/ j = i + 1 /\ t[j].key = key
            \/ j < i + 1 /\ j \in 1 .. Len(s) /\ j <= i /\ t[j] = s[j]
            \/ j > i + 1 /\ j - 1 \in 1 .. Len(s) /\ j - 1 > i /\ t[j] = s[j - 1]
        BY <1>2, <1>8, <4>1
      <4>4. CASE k = i + 1 /\ t[k].key = key
        BY <1>s, <3>3, <3>4, <4>1, <4>3, <4>4
      <4>5. CASE k < i + 1 /\ k \in 1 .. Len(s) /\ k <= i /\ t[k] = s[k]
        <5>1. t[k].key < key /\ t[k].key \in Int
          BY <3>3, <4>5
        <5>2. CASE j = i + 1 /\ t[j].key = key
          BY <5>1, <5>2
        <5>3. CASE j < i + 1 /\ j \in 1 .. Len(s) /\ j <= i /\ t[j] = s[j]
          BY <3>2, <3>4, <4>5, <5>3
        <5>4. CASE j > i + 1 /\ j - 1 \in 1 .. Len(s) /\ j - 1 > i /\ t[j] = s[j - 1]
          <6>1. key < t[j].key /\ t[j].key \in Int
            BY <3>3, <5>4
          <6> QED BY <5>1, <6>1
        <5> QED BY <4>3, <5>2, <5>3, <5>4
      <4>6. CASE k > i + 1 /\ k - 1 \in 1 .. Len(s) /\ k - 1 > i /\ t[k] = s[k - 1]
        <5>1. j > i + 1 /\ j - 1 \in 1 .. Len(s) /\ t[j] = s[j - 1] /\ k - 1 < j - 1
          BY <1>s, <3>4, <4>1, <4>3, <4>6
        <5> QED BY <3>2, <4>6, <5>1
      <4> QED BY <4>2, <4>4, <4>5, <4>6
    <3>5. /\ t[j].level \in 1 .. Len(c.levels)
          /\ c.levels[t[j].level].key = t[j].key
          /\ (t[j].key > 0) = buy /\ t[j].key # 0
      <4>1. j \in 1 .. Len(t)
        BY <3>1
      <4>2. CASE t[j] = e
        <5>1. t[j].level = h /\ t[j].key = key
          BY <1>2, <4>2
        <5>2. c.levels[h].key = key
          BY <1>1 DEF EmptyLevel
        <5> QED BY <1>1, <5>1, <5>2
      <4>3. CASE \E m \in 1 .. Len(s) : t[j] = s[m]
        <5>1. PICK m \in 1 .. Len(s) : t[j] = s[m]
          BY <4>3
        <5>2. m \in 1 .. Len(b.side[buy]) /\ t[j] = b.side[buy][m]
          BY <1>s, <5>1
        <5>3. LET f == b.side[buy][m]
              IN /\ f.key \in Int
                 /\ f.level \in 1 .. Len(c.levels) /\ f.level # h
                 /\ c.levels[f.level].key = f.key
                 /\ (f.key > 0) = buy /\ f.key # 0
          BY <2>1, <5>2
        <5> QED BY <5>2, <5>3
      <4> QED BY <1>8, <4>1, <4>2, <4>3
    <3> QED BY <2>3, <3>1, <3>4, <3>5
  <2> QED BY <2>2, <2>3
<1>11. HandlesOwned(c)
  <2>1. \A j, k \in 1 .. Len(c.free) : c.free[j] = c.free[k] => j = k
    BY <1>1, HandlesOwnedFacts
  <2>2. \A g : g \in OpenLevels(c) <=> g \in OpenLevels(b) \/ g = h
    <3>1. CASE buy = TRUE
      BY <1>9, <3>1 DEF OpenLevels
    <3>2. CASE buy = FALSE
      BY <1>9, <3>2 DEF OpenLevels
    <3> QED BY <3>1, <3>2
  <2>3. \A j \in 1 .. Len(c.free) : /\ c.free[j] \in 1 .. Len(c.levels)
                                    /\ c.free[j] \notin OpenLevels(c)
    <3>1. \A j \in 1 .. Len(b.free) : /\ b.free[j] \in 1 .. Len(b.levels)
                                      /\ b.free[j] \notin OpenLevels(b)
      BY HandlesOwnedFacts
    <3> QED BY <1>1, <2>2, <3>1
  <2>4. ASSUME NEW other \in BOOLEAN,
               NEW j \in 1 .. Len(c.side[other]), NEW k \in 1 .. Len(c.side[other]),
               c.side[other][j].level = c.side[other][k].level
        PROVE  j = k
    <3>1. CASE other # buy
      BY <1>5, <2>4, <3>1, HandlesOwnedFacts
    <3>2. CASE other = buy
      <4>1. j \in 1 .. Len(t) /\ k \in 1 .. Len(t) /\ t[j].level = t[k].level
        BY <1>5, <2>4, <3>2
      <4>2. \A m, n \in 1 .. Len(s) : s[m].level = s[n].level => m = n
        <5>1. \A m, n \in 1 .. Len(b.side[buy]) :
                b.side[buy][m].level = b.side[buy][n].level => m = n
          BY HandlesOwnedFacts
        <5> QED BY <1>s, <5>1
      <4>3. \A m \in 1 .. Len(s) : s[m].level # h
        <5>1. \A m \in 1 .. Len(b.side[buy]) : b.side[buy][m].level \in OpenLevels(b)
          BY ListedFacts
        <5> QED BY <1>1, <1>s, <5>1
      <4>4. \A n \in 1 .. Len(t) :
              \/ n = i + 1 /\ t[n].level = h
              \/ n < i + 1 /\ n \in 1 .. Len(s) /\ t[n] = s[n] /\ t[n].level # h
              \/ n > i + 1 /\ n - 1 \in 1 .. Len(s) /\ t[n] = s[n - 1] /\ t[n].level # h
        BY <1>2, <1>8, <4>3
      <4>5. \/ j = i + 1 /\ t[j].level = h
            \/ j < i + 1 /\ j \in 1 .. Len(s) /\ t[j] = s[j] /\ t[j].level # h
            \/ j > i + 1 /\ j - 1 \in 1 .. Len(s) /\ t[j] = s[j - 1] /\ t[j].level # h
        BY <4>1, <4>4
      <4>6. \/ k = i + 1 /\ t[k].level = h
            \/ k < i + 1 /\ k \in 1 .. Len(s) /\ t[k] = s[k] /\ t[k].level # h
            \/ k > i + 1 /\ k - 1 \in 1 .. Len(s) /\ t[k] = s[k - 1] /\ t[k].level # h
        BY <4>1, <4>4
      <4>7. j \in Int /\ k \in Int
        BY <1>4, <4>1
      <4>8. CASE j < i + 1 /\ j \in 1 .. Len(s) /\ t[j] = s[j] /\ t[j].level # h
        <5>1. k < i + 1 => j = k
          BY <4>1, <4>2, <4>6, <4>7, <4>8
        <5>2. k > i + 1 => k - 1 = j
          BY <4>1, <4>2, <4>6, <4>7, <4>8
        <5> QED BY <1>s, <4>1, <4>6, <4>7, <4>8, <5>1, <5>2
      <4>9. CASE j > i + 1 /\ j - 1 \in 1 .. Len(s) /\ t[j] = s[j - 1] /\ t[j].level # h
        <5>1. k < i + 1 => j - 1 = k
          BY <4>1, <4>2, <4>6, <4>7, <4>9
        <5>2. k > i + 1 => k - 1 = j - 1
          BY <4>1, <4>2, <4>6, <4>7, <4>9
        <5> QED BY <1>s, <4>1, <4>6, <4>7, <4>9, <5>1, <5>2
      <4> QED BY <1>s, <4>1, <4>5, <4>6, <4>7, <4>8, <4>9
    <3> QED BY <3>1, <3>2
  <2>5. \A g \in 1 .. Len(c.levels) :
          g \in OpenLevels(c) \/ \E j \in 1 .. Len(c.free) : c.free[j] = g
    <3> SUFFICES ASSUME NEW g \in 1 .. Len(c.levels), g \notin OpenLevels(c)
                 PROVE  \E j \in 1 .. Len(c.free) : c.free[j] = g
      OBVIOUS
    <3>1. g \in 1 .. Len(b.levels) /\ g # h /\ g \notin OpenLevels(b)
      BY <1>1, <2>2
    <3>2. PICK j \in 1 .. Len(b.free) : b.free[j] = g
      BY <3>1, HandlesOwnedFacts
    <3> QED BY <1>1, <3>1, <3>2
  <2> QED BY <1>6, <2>1, <2>3, <2>4, <2>5, HandlesOwnedFacts
<1>12. c.levels[h].key = key
  BY <1>1 DEF EmptyLevel
<1> QED BY <1>1, <1>6, <1>9, <1>10, <1>11, <1>12 DEF IsBook, HasLevel, Handles, c, h

\* find_or_create: the level of the wanted key, listed by the wanted side; what
\* the book held is unchanged, and a level that was not listed starts empty.
LEMMA FindOrCreateFacts ==
  ASSUME NEW refs, NilRef \in refs, NEW b, IsBook(refs, b),
         NEW buy \in BOOLEAN, NEW key \in Int, key # 0, (key > 0) = buy
  PROVE  /\ IsBook(refs, FindOrCreate(b, buy, key).book)
         /\ HasLevel(b, FindOrCreate(b, buy, key).book, FindOrCreate(b, buy, key).level,
                     buy, key)
<1>a. b \in BookType(refs) /\ Laddered(b) /\ HandlesOwned(b)
  BY DEF IsBook
<1> USE <1>a
<1> DEFINE s == b.side[buy]
           i == ScanFromBack(s, key)
<1>1. /\ s \in Seq(Entry) /\ Len(s) \in Nat
      /\ \A j \in 1 .. Len(s) : s[j].key \in Int
  BY BookTypeFacts DEF Entry
<1>2. /\ i \in 0 .. Len(s)
      /\ i > 0 => s[i].key <= key
      /\ \A j \in 1 .. Len(s) : j > i => s[j].key > key
  BY <1>1, ScanFacts
<1>3. \A j, k \in 1 .. Len(s) : j < k => s[j].key < s[k].key
  BY LadderedFacts
<1> HIDE DEF i
<1>4. CASE i > 0 /\ s[i].key = key
  <2>1. i \in 1 .. Len(s)
    BY <1>1, <1>2, <1>4
  <2>2. FindOrCreate(b, buy, key) = [book |-> b, level |-> s[i].level]
    BY <1>4 DEF FindOrCreate, i
  <2>3. /\ s[i].level \in 1 .. Len(b.levels)
        /\ b.levels[s[i].level].key = s[i].key
    BY <2>1, LadderedFacts
  <2>4. s[i].level \in Listed(b, buy) /\ s[i].level \in OpenLevels(b)
    BY <2>1, ListedFacts
  <2>5. Listed(b, buy) = Listed(b, buy) \cup {s[i].level}
    BY <2>4
  <2>6. HasLevel(b, b, s[i].level, buy, key)
    BY <1>4, <2>3, <2>4, <2>5 DEF HasLevel, Handles
  <2> QED BY <2>2, <2>6
<1>5. CASE ~ (i > 0 /\ s[i].key = key)
  <2>1. FindOrCreate(b, buy, key) =
          [book |-> OpenLevel(b, buy, key, i + 1), level |-> TakeHandle(b)]
    BY <1>5 DEF FindOrCreate, i
  <2>2. \A j \in 1 .. Len(s) : j <= i => s[j].key < key
    <3> SUFFICES ASSUME NEW j \in 1 .. Len(s), j <= i PROVE s[j].key < key
      OBVIOUS
    <3>1. i \in 1 .. Len(s) /\ s[i].key < key
      BY <1>1, <1>2, <1>5
    <3>2. j = i \/ s[j].key < s[i].key
      BY <1>3, <3>1
    <3> QED BY <1>1, <3>1, <3>2
  <2>3. Fits(b.side[buy], i, key)
    BY <1>2, <2>2 DEF Fits
  <2> QED BY <2>1, <2>3, OpenLevelFacts
<1> QED BY <1>4, <1>5

\* No handle is listed by both sides: the sign of its key would not match one.
LEMMA SidesDisjoint ==
  ASSUME NEW refs, NEW b \in BookType(refs), Laddered(b),
         NEW buy \in BOOLEAN, NEW h \in Listed(b, buy)
  PROVE  /\ h \in Handles(b) /\ (b.levels[h].key > 0) = buy
         /\ \A other \in BOOLEAN : other # buy => h \notin Listed(b, other)
<1>1. \A side \in BOOLEAN : h \in Listed(b, side) =>
        h \in Handles(b) /\ (b.levels[h].key > 0) = side
  <2> SUFFICES ASSUME NEW side \in BOOLEAN, h \in Listed(b, side)
               PROVE  h \in Handles(b) /\ (b.levels[h].key > 0) = side
    OBVIOUS
  <2>1. PICK j \in 1 .. Len(b.side[side]) : b.side[side][j].level = h
    BY ListedAt
  <2>2. /\ b.side[side][j].level \in 1 .. Len(b.levels)
        /\ b.levels[b.side[side][j].level].key = b.side[side][j].key
        /\ (b.side[side][j].key > 0) = side
    BY LadderedFacts
  <2> QED BY <2>1, <2>2 DEF Handles
<1> QED BY <1>1

\* erase_level: the level leaves the one side that lists it and goes to the
\* freelist; everything else stays.
LEMMA EraseLevelFacts ==
  ASSUME NEW refs, NEW b, IsBook(refs, b), NEW buy \in BOOLEAN, NEW h \in Listed(b, buy)
  PROVE  /\ IsBook(refs, EraseLevel(b, h))
         /\ EraseLevel(b, h).levels = b.levels
         /\ \A side \in BOOLEAN : Listed(EraseLevel(b, h), side) = Listed(b, side) \ {h}
<1>a. b \in BookType(refs) /\ Laddered(b) /\ HandlesOwned(b)
  BY DEF IsBook
<1> USE <1>a
<1> DEFINE c == EraseLevel(b, h)
           s == b.side[buy]
           i == Sq!SelectLastInSeq(s, LAMBDA e : e.level = h)
           t == Sq!RemoveAt(s, i)
<1>1. /\ h \in Handles(b) /\ (b.levels[h].key > 0) = buy
      /\ \A other \in BOOLEAN : other # buy => h \notin Listed(b, other)
  BY SidesDisjoint
<1>2. /\ s \in Seq(Entry) /\ Len(s) \in Nat
      /\ b.free \in Seq(Nat) /\ Len(b.free) \in Nat
      /\ b.side \in [BOOLEAN -> Seq(Entry)] /\ b.levels \in Seq(Level(refs))
  BY BookTypeFacts
<1>3. i \in 1 .. Len(s) /\ s[i].level = h
  <2>1. \E j \in 1 .. Len(s) : s[j].level = h
    BY ListedAt
  <2> HIDE DEF s
  <2> QED BY <1>2, <2>1, FindLevelFacts
<1>4. c = [b EXCEPT !.side[buy] = t, !.free = Append(b.free, h)]
  <2>1. (b.levels[h].key > 0) = buy
    BY <1>1
  <2> QED BY <2>1 DEF EraseLevel
<1> HIDE DEF c, i
<1>5. /\ t \in Seq(Entry) /\ Len(t) = Len(s) - 1
      /\ \A j \in 1 .. Len(s) - 1 : t[j] = IF j < i THEN s[j] ELSE s[j + 1]
  <2> HIDE DEF s
  <2> QED BY <1>2, <1>3, RemoveAtFacts
<1> HIDE DEF t
<1>6. /\ c.levels = b.levels /\ c.free = Append(b.free, h)
      /\ c.side = [b.side EXCEPT ![buy] = t]
  BY <1>4 DEF BookType
<1>7. /\ c.side \in [BOOLEAN -> Seq(Entry)] /\ c.side[buy] = t
      /\ \A other \in BOOLEAN : other # buy => c.side[other] = b.side[other]
  BY <1>2, <1>5, <1>6
<1>8. /\ c.free \in Seq(Nat) /\ Len(c.free) = Len(b.free) + 1
      /\ \A j \in 1 .. Len(b.free) : c.free[j] = b.free[j]
      /\ c.free[Len(b.free) + 1] = h
  <2>1. h \in Nat
    BY <1>1, <1>2 DEF Handles
  <2> QED BY <1>2, <1>6, <2>1, AppendProperties
<1>9. c \in BookType(refs)
  <2>1. c = [levels |-> c.levels, free |-> c.free, side |-> c.side]
    BY <1>4 DEF BookType
  <2> QED BY <1>2, <1>6, <1>7, <1>8, <2>1 DEF BookType
<1>10. \A j \in 1 .. Len(t) : \/ j < i /\ j \in 1 .. Len(s) /\ t[j] = s[j]
                              \/ j >= i /\ j + 1 \in 1 .. Len(s) /\ t[j] = s[j + 1]
  BY <1>2, <1>3, <1>5, SMTT(40)
<1>11. \A j \in 1 .. Len(s) : \/ j = i
                              \/ j < i /\ j \in 1 .. Len(t) /\ t[j] = s[j]
                              \/ j > i /\ j - 1 \in 1 .. Len(t) /\ t[j - 1] = s[j]
  <2> SUFFICES ASSUME NEW j \in 1 .. Len(s), j # i
               PROVE  \/ j < i /\ j \in 1 .. Len(t) /\ t[j] = s[j]
                      \/ j > i /\ j - 1 \in 1 .. Len(t) /\ t[j - 1] = s[j]
    OBVIOUS
  <2>1. CASE j < i
    BY <1>2, <1>3, <1>5, <2>1
  <2>2. CASE j > i
    <3>1. j - 1 \in 1 .. Len(s) - 1 /\ ~ (j - 1 < i) /\ (j - 1) + 1 = j
      BY <1>2, <1>3, <2>2
    <3> QED BY <1>5, <2>2, <3>1
  <2> QED BY <1>2, <1>3, <2>1, <2>2
<1>s. /\ s = b.side[buy] /\ i \in 1 .. Len(s) /\ s[i].level = h /\ i \in Int
      /\ \A j, k \in 1 .. Len(s) : s[j].level = s[k].level => j = k
  BY <1>2, <1>3, HandlesOwnedFacts
<1> HIDE DEF s
<1>12. \A side \in BOOLEAN : Listed(c, side) = Listed(b, side) \ {h}
  <2>1. \A g : g \in Listed(c, buy) <=> \E j \in 1 .. Len(t) : t[j].level = g
    <3>1. \A g : g \in Listed(c, buy)
                <=> \E j \in 1 .. Len(c.side[buy]) : c.side[buy][j].level = g
      BY <1>9, ListedFacts
    <3> QED BY <1>7, <3>1
  <2>2. \A g : g \in Listed(b, buy) <=> \E j \in 1 .. Len(s) : s[j].level = g
    <3>1. \A g : g \in Listed(b, buy)
                <=> \E j \in 1 .. Len(b.side[buy]) : b.side[buy][j].level = g
      BY ListedFacts
    <3> QED BY <1>s, <3>1
  <2>3. \A g : g \in Listed(c, buy) => g \in Listed(b, buy) /\ g # h
    <3> SUFFICES ASSUME NEW j \in 1 .. Len(t)
                 PROVE  /\ t[j].level # h
                        /\ \E k \in 1 .. Len(s) : s[k].level = t[j].level
      BY <2>1, <2>2
    <3>1. CASE j < i /\ j \in 1 .. Len(s) /\ t[j] = s[j]
      BY <1>s, <3>1
    <3>2. CASE j >= i /\ j + 1 \in 1 .. Len(s) /\ t[j] = s[j + 1]
      <4>1. j + 1 # i
        BY <1>s, <3>2
      <4> QED BY <1>s, <3>2, <4>1
    <3> QED BY <1>10, <3>1, <3>2
  <2>4. \A g : g \in Listed(b, buy) /\ g # h => g \in Listed(c, buy)
    <3> SUFFICES ASSUME NEW j \in 1 .. Len(s), s[j].level # h
                 PROVE  \E k \in 1 .. Len(t) : t[k].level = s[j].level
      BY <2>1, <2>2
    <3>1. j # i
      BY <1>s
    <3> QED BY <1>11, <3>1
  <2>5. \A other \in BOOLEAN : other # buy => Listed(c, other) = Listed(b, other)
    BY <1>7 DEF Listed
  <2>6. Listed(c, buy) = Listed(b, buy) \ {h}
    BY <2>3, <2>4
  <2> QED BY <1>1, <2>5, <2>6
<1>13. Laddered(c)
  <2> SUFFICES ASSUME NEW other \in BOOLEAN, NEW j \in 1 .. Len(c.side[other])
               PROVE  LET f == c.side[other][j]
                      IN /\ \A k \in 1 .. Len(c.side[other]) :
                              k < j => c.side[other][k].key < f.key
                         /\ f.level \in 1 .. Len(c.levels)
                         /\ c.levels[f.level].key = f.key
                         /\ (f.key > 0) = other /\ f.key # 0
    BY <1>9, LadderedFacts
  <2>1. ASSUME NEW m \in 1 .. Len(b.side[other])
        PROVE  /\ \A k \in 1 .. Len(b.side[other]) :
                    k < m => b.side[other][k].key < b.side[other][m].key
               /\ b.side[other][m].level \in 1 .. Len(c.levels)
               /\ c.levels[b.side[other][m].level].key = b.side[other][m].key
               /\ (b.side[other][m].key > 0) = other /\ b.side[other][m].key # 0
    BY <1>6, LadderedFacts
  <2>2. CASE other # buy
    BY <1>7, <2>1, <2>2
  <2>3. CASE other = buy
    <3>1. c.side[other] = t /\ b.side[other] = s
      BY <1>7, <1>s, <2>3
    <3>2. \A n \in 1 .. Len(t) : \E m \in 1 .. Len(s) : t[n] = s[m]
      BY <1>10
    <3>3. ASSUME NEW k \in 1 .. Len(t), k < j PROVE t[k].key < t[j].key
      <4>1. j \in 1 .. Len(t) /\ j \in Int /\ k \in Int
        BY <1>5, <3>1
      <4>2. \/ k < i /\ k \in 1 .. Len(s) /\ t[k] = s[k]
            \/ k >= i /\ k + 1 \in 1 .. Len(s) /\ t[k] = s[k + 1]
        BY <1>10
      <4>3. \/ j < i /\ j \in 1 .. Len(s) /\ t[j] = s[j]
            \/ j >= i /\ j + 1 \in 1 .. Len(s) /\ t[j] = s[j + 1]
        BY <1>10, <4>1
      <4>4. \A m, n \in 1 .. Len(s) : m < n => s[m].key < s[n].key
        BY <2>1, <3>1
      <4>5. k < j + 1 /\ k + 1 < j + 1
        BY <3>3, <4>1
      <4>6. k >= i => ~ (j < i)
        BY <1>s, <3>3, <4>1
      <4> QED BY <3>3, <4>2, <4>3, <4>4, <4>5, <4>6
    <3>4. PICK m \in 1 .. Len(s) : t[j] = s[m]
      BY <3>1, <3>2
    <3>5. /\ t[j].level \in 1 .. Len(c.levels) /\ c.levels[t[j].level].key = t[j].key
          /\ (t[j].key > 0) = other /\ t[j].key # 0
      BY <2>1, <3>1, <3>4
    <3> QED BY <3>1, <3>3, <3>5
  <2> QED BY <2>2, <2>3
<1>14. HandlesOwned(c)
  <2>1. \A g : g \in OpenLevels(c) <=> g \in OpenLevels(b) /\ g # h
    BY <1>12 DEF OpenLevels
  <2>2. /\ \A m, n \in 1 .. Len(b.free) : b.free[m] = b.free[n] => m = n
        /\ \A m \in 1 .. Len(b.free) : /\ b.free[m] \in 1 .. Len(b.levels)
                                       /\ b.free[m] \notin OpenLevels(b)
    BY HandlesOwnedFacts
  <2>3. h \in OpenLevels(b) /\ h \in 1 .. Len(b.levels)
    BY <1>1, ListedFacts DEF Handles
  <2>4. /\ Len(c.free) \in Nat
        /\ \A m \in 1 .. Len(c.free) : \/ m \in 1 .. Len(b.free) /\ c.free[m] = b.free[m]
                                       \/ m = Len(b.free) + 1 /\ c.free[m] = h
    BY <1>2, <1>8
  <2>5. \A m, n \in 1 .. Len(c.free) : c.free[m] = c.free[n] => m = n
    BY <2>2, <2>3, <2>4
  <2>6. \A m \in 1 .. Len(c.free) : /\ c.free[m] \in 1 .. Len(c.levels)
                                    /\ c.free[m] \notin OpenLevels(c)
    BY <1>6, <2>1, <2>2, <2>3, <2>4
  <2>7. ASSUME NEW other \in BOOLEAN,
               NEW j \in 1 .. Len(c.side[other]), NEW k \in 1 .. Len(c.side[other]),
               c.side[other][j].level = c.side[other][k].level
        PROVE  j = k
    <3>1. CASE other # buy
      BY <1>7, <2>7, <3>1, HandlesOwnedFacts
    <3>2. CASE other = buy
      <4>1. j \in 1 .. Len(t) /\ k \in 1 .. Len(t) /\ t[j].level = t[k].level
        BY <1>7, <2>7, <3>2
      <4>2. j \in Int /\ k \in Int
        BY <1>5, <4>1
      <4>3. /\ \/ j < i /\ j \in 1 .. Len(s) /\ t[j] = s[j]
               \/ j >= i /\ j + 1 \in 1 .. Len(s) /\ t[j] = s[j + 1]
            /\ \/ k < i /\ k \in 1 .. Len(s) /\ t[k] = s[k]
               \/ k >= i /\ k + 1 \in 1 .. Len(s) /\ t[k] = s[k + 1]
        BY <1>10, <4>1
      <4>4. /\ (j < i /\ k < i => j = k) /\ (j < i /\ k >= i => j = k + 1)
            /\ (j >= i /\ k < i => j + 1 = k) /\ (j >= i /\ k >= i => j + 1 = k + 1)
        <5>1. CASE j < i /\ k < i
          BY <1>s, <4>1, <4>2, <4>3, <5>1
        <5>2. CASE j < i /\ ~ (k < i)
          BY <1>s, <4>1, <4>2, <4>3, <5>2
        <5>3. CASE ~ (j < i) /\ k < i
          BY <1>s, <4>1, <4>2, <4>3, <5>3
        <5>4. CASE ~ (j < i) /\ ~ (k < i)
          BY <1>s, <4>1, <4>2, <4>3, <5>4
        <5> QED BY <1>s, <4>2, <5>1, <5>2, <5>3, <5>4
      <4> QED BY <1>s, <4>2, <4>4
    <3> QED BY <3>1, <3>2
  <2>8. \A g \in 1 .. Len(c.levels) :
          g \in OpenLevels(c) \/ \E j \in 1 .. Len(c.free) : c.free[j] = g
    <3> SUFFICES ASSUME NEW g \in 1 .. Len(b.levels), g \notin OpenLevels(c)
                 PROVE  \E j \in 1 .. Len(c.free) : c.free[j] = g
      BY <1>6
    <3>1. CASE g = h
      <4>1. Len(b.free) + 1 \in 1 .. Len(c.free)
        BY <1>2, <1>8
      <4> QED BY <1>8, <3>1, <4>1
    <3>2. CASE g # h
      <4>1. PICK j \in 1 .. Len(b.free) : b.free[j] = g
        BY <2>1, <3>2, HandlesOwnedFacts
      <4>2. j \in 1 .. Len(c.free)
        BY <1>2, <1>8
      <4> QED BY <1>8, <4>1, <4>2
    <3> QED BY <3>1, <3>2
  <2> QED BY <1>9, <2>5, <2>6, <2>7, <2>8, HandlesOwnedFacts
<1> QED BY <1>6, <1>9, <1>12, <1>13, <1>14 DEF IsBook, c

\* A level whose totals or ends change while its key stays leaves the book in shape.
LEMMA RetotalFacts ==
  ASSUME NEW refs, NEW b, IsBook(refs, b), NEW h \in Handles(b),
         NEW lv \in Level(refs), lv.key = b.levels[h].key
  PROVE  LET c == WithLevel(b, h, lv)
         IN /\ IsBook(refs, c)
            /\ Handles(c) = Handles(b) /\ c.levels[h] = lv
            /\ \A g \in Handles(b) : g # h => c.levels[g] = b.levels[g]
            /\ \A side \in BOOLEAN : Listed(c, side) = Listed(b, side)
            /\ OpenLevels(c) = OpenLevels(b)
<1> DEFINE c == WithLevel(b, h, lv)
<1>a. b \in BookType(refs) /\ Laddered(b) /\ HandlesOwned(b)
  BY DEF IsBook
<1>1. /\ b.levels \in Seq(Level(refs)) /\ h \in 1 .. Len(b.levels)
      /\ b.free \in Seq(Nat) /\ b.side \in [BOOLEAN -> Seq(Entry)]
  BY <1>a, BookTypeFacts DEF Handles
<1>2. /\ c.levels = [b.levels EXCEPT ![h] = lv] /\ c.free = b.free /\ c.side = b.side
      /\ c = [levels |-> c.levels, free |-> c.free, side |-> c.side]
  <2>1. c = [b EXCEPT !.levels = [b.levels EXCEPT ![h] = lv]]
    BY DEF WithLevel
  <2> DEFINE ls == [b.levels EXCEPT ![h] = lv]
  <2> HIDE DEF ls
  <2>2. c = [b EXCEPT !.levels = ls]
    BY <2>1 DEF ls
  <2>3. c.levels = ls /\ c.free = b.free /\ c.side = b.side
    BY <1>a, <2>2 DEF BookType
  <2>4. c = [levels |-> c.levels, free |-> c.free, side |-> c.side]
    BY <1>a, <2>2 DEF BookType
  <2> QED BY <2>3, <2>4 DEF ls
<1> HIDE DEF c
<1>3. /\ c.levels \in Seq(Level(refs)) /\ Len(c.levels) = Len(b.levels)
      /\ \A g \in 1 .. Len(b.levels) : c.levels[g] = IF g = h THEN lv ELSE b.levels[g]
  BY <1>1, <1>2, ExceptSeq
<1>4. c \in BookType(refs)
  BY <1>1, <1>2, <1>3 DEF BookType
<1>5. /\ \A side \in BOOLEAN : Listed(c, side) = Listed(b, side)
      /\ OpenLevels(c) = OpenLevels(b)
  BY <1>2 DEF Listed, OpenLevels
<1>6. Laddered(c)
  <2>1. Handles(c) = Handles(b) /\ \A g \in Handles(b) : c.levels[g].key = b.levels[g].key
    BY <1>1, <1>3 DEF Handles
  <2> HIDE DEF c
  <2> QED BY ONLY <1>a, <1>2, <2>1 DEF Laddered
<1>7. HandlesOwned(c)
  <2>1. Handles(c) = Handles(b)
    BY <1>3 DEF Handles
  <2> QED BY <1>a, <1>2, <1>5, <2>1 DEF HandlesOwned
<1> QED BY <1>3, <1>4, <1>5, <1>6, <1>7 DEF IsBook, Handles, c

-----------------------------------------------------------------------------
(* A book and its orders.                                                  *)

Stores(refs, locates) == [refs -> Order(refs, locates)]

\* An order of book l.
AtBook(ords, r, l) == ords[r].level # Nil /\ ords[r].locate = l

\* Apart from their links, the orders of refs stay as they are.
SameSeats(ords, after, refs) ==
  \A r \in refs : /\ after[r].level = ords[r].level /\ after[r].locate = ords[r].locate
                  /\ after[r].buy = ords[r].buy /\ after[r].qty = ords[r].qty

\* Book b and the orders of locate l fit together.
InPlace(refs, ords, l, b) ==
  /\ IsBook(refs, b) /\ OrdersListed(ords, l, b)
  /\ OrdersCounted(ords, l, b) /\ SharesSummed(ords, l, b)

\* What the orders of q hold together.
SharesOf(ords, q) == Sq!MapThenSumSet(LAMBDA r : ords[r].qty, q)

\* Book c is b with one order of qty shares less at level h, which goes when that
\* was the last.
OneLess(b, c, h, qty) ==
  /\ \A g \in Handles(b) : g # h => /\ c.levels[g].orders = b.levels[g].orders
                                   /\ c.levels[g].shares = b.levels[g].shares
  /\ c.levels[h].orders = b.levels[h].orders - 1
  /\ c.levels[h].shares = b.levels[h].shares - qty
  /\ \A side \in BOOLEAN :
       Listed(c, side) = IF c.levels[h].orders = 0 THEN Listed(b, side) \ {h}
                                                   ELSE Listed(b, side)

\* Book c is b with one order of qty shares more at level h, which side buy may
\* only now list.
OneMore(b, c, h, buy, qty) ==
  /\ \A g \in Handles(b) : g # h => /\ c.levels[g].orders = b.levels[g].orders
                                   /\ c.levels[g].shares = b.levels[g].shares
  /\ c.levels[h].orders = 1 + IF h \in OpenLevels(b) THEN b.levels[h].orders ELSE 0
  /\ c.levels[h].shares = qty + IF h \in OpenLevels(b) THEN b.levels[h].shares ELSE 0
  /\ \A side \in BOOLEAN :
       Listed(c, side) = IF side = buy THEN Listed(b, side) \cup {h} ELSE Listed(b, side)

\* What add() makes of the store ords and book l: order x placed and nobody else
\* moved.  on_replace names the order's book only afterwards, so any store that
\* agrees with the result but for that fits the book.
AddsTo(refs, locates, ords, l, x, st) ==
  /\ st.os \in Stores(refs, locates) /\ Live(st.os, x)
  /\ SameSeats(ords, st.os, refs \ {x})
  /\ st.os[x].qty = ords[x].qty /\ st.os[x].locate = ords[x].locate
  /\ st.os[x].buy = ords[x].buy
  /\ \A after \in Stores(refs, locates) :
       /\ SameSeats(st.os, after, refs \ {x})
       /\ after[x].level = st.os[x].level /\ after[x].buy = st.os[x].buy
       /\ after[x].locate = l /\ after[x].qty = st.os[x].qty
       => InPlace(refs, after, l, st.book)

\* What reduce() makes of them: order x smaller by shares, or gone.
ReducesTo(refs, locates, ords, l, x, shares, st) ==
  /\ st.os \in Stores(refs, locates)
  /\ SameSeats(ords, st.os, refs \ {x})
  /\ InPlace(refs, st.os, l, st.book)
  /\ IF Taken(ords, x, shares) = ords[x].qty THEN ~ Live(st.os, x)
     ELSE /\ st.os[x].level = ords[x].level /\ st.os[x].locate = ords[x].locate
          /\ st.os[x].buy = ords[x].buy /\ st.os[x].qty = ords[x].qty - shares
          /\ st.os[x].qty > 0

-----------------------------------------------------------------------------
(* Queues.                                                                 *)

\* Listed handles are handles, and none of them is Nil.
LEMMA OpenHandles ==
  ASSUME NEW refs, NEW b, IsBook(refs, b)
  PROVE  /\ OpenLevels(b) \subseteq Handles(b) /\ Nil \notin Handles(b)
         /\ \A buy \in BOOLEAN : Listed(b, buy) \subseteq OpenLevels(b)
<1>1. b \in BookType(refs) /\ Laddered(b) /\ Len(b.levels) \in Nat
  BY BookTypeFacts DEF IsBook
<1>2. \A buy \in BOOLEAN : /\ Listed(b, buy) \subseteq OpenLevels(b)
                           /\ Listed(b, buy) \subseteq Handles(b)
  BY <1>1, ListedFacts
<1>3. Nil \notin Handles(b)
  BY <1>1 DEF Handles, Nil
<1>4. OpenLevels(b) \subseteq Handles(b)
  BY <1>2 DEF OpenLevels
<1> QED BY <1>2, <1>3, <1>4

\* A queue is a finite set of references.
LEMMA QueueFinite ==
  ASSUME NEW refs, IsFiniteSet(refs), NEW locates, NEW ords \in Stores(refs, locates),
         NEW l, NEW h
  PROVE  IsFiniteSet(Queue(ords, l, h)) /\ Cardinality(Queue(ords, l, h)) \in Nat
<1>1. Queue(ords, l, h) \subseteq refs
  BY DEF Queue, Stores
<1> QED BY <1>1, FS_Subset, FS_CardinalityType

\* The sum of a level, as SharesSummed has it, is SumOf.
LEMMA SharesAre ==
  ASSUME NEW ords, NEW q, IsFiniteSet(q)
  PROVE  SharesOf(ords, q) = SumOf([r \in q |-> ords[r].qty], q)
<1> DEFINE f == [r \in q |-> ords[r].qty]
           Rec(g) == g = [s \in SUBSET q |->
                            IF s = {} THEN 0
                            ELSE ords[CHOOSE x \in s : TRUE].qty + g[s \ {CHOOSE x \in s : TRUE}]]
<1>1. PICK g : Sums(f, q, g)
  BY SumsExist
<1>2. Rec(g)
  <2>1. \A s \in SUBSET q : s # {} => f[Picked(s)] = ords[Picked(s)].qty
    BY DEF Picked
  <2> QED BY <1>1, <2>1 DEF Sums, Picked, Rest
<1>3. \E h : Rec(h) /\ SharesOf(ords, q) = h[q]
  BY <1>2 DEF SharesOf, Sq!MapThenSumSet, Sq!MapThenFoldSet
<1>4. PICK h : Rec(h) /\ SharesOf(ords, q) = h[q]
  BY <1>3
<1>5. Sums(f, q, h)
  <2>1. \A s \in SUBSET q : s # {} => f[Picked(s)] = ords[Picked(s)].qty
    BY DEF Picked
  <2> QED BY <1>4, <2>1 DEF Sums, Picked, Rest
<1> QED BY <1>4, <1>5, SumOfIs

\* Orders of the same sizes hold the same together.
LEMMA SharesSame ==
  ASSUME NEW ords, NEW after, NEW q, IsFiniteSet(q), \A r \in q : after[r].qty = ords[r].qty
  PROVE  SharesOf(after, q) = SharesOf(ords, q)
<1> DEFINE f == [r \in q |-> ords[r].qty]
           g == [r \in q |-> after[r].qty]
<1>1. \A r \in q : f[r] = g[r]
  OBVIOUS
<1>2. SharesOf(ords, q) = SumOf(f, q) /\ SharesOf(after, q) = SumOf(g, q)
  BY SharesAre
<1> HIDE DEF f, g
<1> QED BY <1>1, <1>2, SumSame

\* What they hold together is what any one holds and the others do.
LEMMA SharesSplit ==
  ASSUME NEW ords, NEW q, IsFiniteSet(q), \A r \in q : ords[r].qty \in Nat
  PROVE  /\ SharesOf(ords, q) \in Nat
         /\ \A x \in q : SharesOf(ords, q) = ords[x].qty + SharesOf(ords, q \ {x})
         /\ q = {} => SharesOf(ords, q) = 0
<1> DEFINE f == [r \in q |-> ords[r].qty]
<1>1. \A r \in q : f[r] = ords[r].qty /\ f[r] \in Nat
  OBVIOUS
<1>2. SharesOf(ords, q) = SumOf(f, q)
  BY SharesAre
<1>3. ASSUME NEW x \in q PROVE SharesOf(ords, q \ {x}) = SumOf(f, q \ {x})
  <2> DEFINE h == [r \in q \ {x} |-> ords[r].qty]
  <2>1. IsFiniteSet(q \ {x})
    BY FS_Subset
  <2>2. \A r \in q \ {x} : h[r] = f[r]
    OBVIOUS
  <2>3. SharesOf(ords, q \ {x}) = SumOf(h, q \ {x})
    BY <2>1, SharesAre
  <2> HIDE DEF f, h
  <2> QED BY <2>1, <2>2, <2>3, SumSame
<1> HIDE DEF f
<1>4. SumOf(f, q) \in Nat /\ \A x \in q : SumOf(f, q) = f[x] + SumOf(f, q \ {x})
  BY <1>1, SumSplits
<1>5. q = {} => SumOf(f, q) = 0
  BY SumEmpty
<1> QED BY <1>1, <1>2, <1>3, <1>4, <1>5

\* A book nobody joined or left fits the changed store as it fitted the old one.
LEMMA FrameInPlace ==
  ASSUME NEW refs, IsFiniteSet(refs), NEW locates, NEW ords \in Stores(refs, locates),
         NEW after \in Stores(refs, locates), NEW l, NEW b, InPlace(refs, ords, l, b),
         NEW x, SameSeats(ords, after, refs \ {x}),
         ~ AtBook(ords, x, l), ~ AtBook(after, x, l)
  PROVE  InPlace(refs, after, l, b)
<1>1. DOMAIN ords = refs /\ DOMAIN after = refs
  BY DEF Stores
<1>2. \A h \in OpenLevels(b) : h # Nil
  BY OpenHandles DEF InPlace
<1>3. \A h \in OpenLevels(b) : Queue(after, l, h) = Queue(ords, l, h)
  BY <1>1, <1>2 DEF Queue, SameSeats, AtBook
<1>4. OrdersListed(after, l, b)
  BY <1>1 DEF InPlace, OrdersListed, SameSeats, AtBook
<1>5. ASSUME NEW h \in OpenLevels(b)
      PROVE  SharesOf(after, Queue(after, l, h)) = SharesOf(ords, Queue(ords, l, h))
  <2>1. \A r \in Queue(ords, l, h) : after[r].qty = ords[r].qty
    BY <1>1, <1>2 DEF Queue, SameSeats, AtBook
  <2> QED BY <1>3, <2>1, QueueFinite, SharesSame
<1>6. SharesSummed(after, l, b)
  BY <1>5 DEF InPlace, SharesSummed, SharesOf
<1> QED BY <1>3, <1>4, <1>6 DEF InPlace, OrdersCounted

\* An order leaves: its level counts one less, and is erased when that is none.
LEMMA LeaveInPlace ==
  ASSUME NEW refs, IsFiniteSet(refs), NEW locates, NEW ords \in Stores(refs, locates),
         NEW after \in Stores(refs, locates), NEW l, NEW b, InPlace(refs, ords, l, b),
         NEW x \in refs, SameSeats(ords, after, refs \ {x}),
         AtBook(ords, x, l), ~ AtBook(after, x, l),
         NEW c, IsBook(refs, c),
         OneLess(b, c, ords[x].level, ords[x].qty)
  PROVE  InPlace(refs, after, l, c)
<1> DEFINE h == ords[x].level
<1> USE DEF OneLess
<1>1. DOMAIN ords = refs /\ DOMAIN after = refs
  BY DEF Stores
<1>2. \A g \in OpenLevels(b) : g # Nil /\ g \in Handles(b)
  BY OpenHandles DEF InPlace
<1>3. h \in OpenLevels(b)
  BY <1>1, OpenHandles DEF InPlace, OrdersListed, AtBook, Stores, Order
<1>4. x \in Queue(ords, l, h)
  BY <1>1 DEF Queue, AtBook
<1>5. Queue(after, l, h) = Queue(ords, l, h) \ {x}
  BY <1>1, <1>2, <1>3 DEF Queue, SameSeats, AtBook
<1>6. \A g \in OpenLevels(b) : g # h => Queue(after, l, g) = Queue(ords, l, g)
  BY <1>1, <1>2 DEF Queue, SameSeats, AtBook
<1>7. /\ Cardinality(Queue(ords, l, h)) = b.levels[h].orders
      /\ Cardinality(Queue(after, l, h)) = b.levels[h].orders - 1
      /\ IsFiniteSet(Queue(after, l, h))
  <2>1. Cardinality(Queue(ords, l, h)) = b.levels[h].orders
    BY <1>3 DEF InPlace, OrdersCounted
  <2>2. IsFiniteSet(Queue(ords, l, h)) /\ IsFiniteSet(Queue(after, l, h))
    BY QueueFinite
  <2>3. Cardinality(Queue(ords, l, h) \ {x}) = Cardinality(Queue(ords, l, h)) - 1
    BY <1>4, <2>2, FS_RemoveElement
  <2> QED BY <1>5, <2>1, <2>2, <2>3
<1>8. c.levels[h].orders = 0 <=> Queue(after, l, h) = {}
  BY <1>7, FS_EmptySet
<1>9. OpenLevels(c) = IF c.levels[h].orders = 0 THEN OpenLevels(b) \ {h} ELSE OpenLevels(b)
  BY DEF OpenLevels
<1>10. OrdersCounted(after, l, c)
  <2> SUFFICES ASSUME NEW g \in OpenLevels(c)
               PROVE  /\ c.levels[g].orders = Cardinality(Queue(after, l, g))
                      /\ Queue(after, l, g) # {}
    BY DEF OrdersCounted
  <2>1. CASE g = h
    BY <1>7, <1>8, <1>9, <2>1
  <2>2. CASE g # h
    <3>1. g \in OpenLevels(b) /\ g \in Handles(b)
      BY <1>2, <1>9
    <3> QED BY <1>6, <2>2, <3>1 DEF InPlace, OrdersCounted
  <2> QED BY <2>1, <2>2
<1>11. OrdersListed(after, l, c)
  <2> SUFFICES ASSUME NEW r \in refs, AtBook(after, r, l)
               PROVE  after[r].level \in Listed(c, after[r].buy)
    BY <1>1 DEF OrdersListed, AtBook
  <2>1. r # x /\ after[r].level = ords[r].level /\ after[r].buy = ords[r].buy
    BY DEF SameSeats
  <2>2. ords[r].level \in Listed(b, ords[r].buy) /\ ords[r].buy \in BOOLEAN
    BY <1>1, <2>1 DEF InPlace, OrdersListed, AtBook, SameSeats, Stores, Order
  <2>3. ords[r].level = h => c.levels[h].orders # 0
    BY <1>1, <1>8, <2>1 DEF Queue, AtBook
  <2> QED BY <2>1, <2>2, <2>3
<1>12. \A g : \A r \in Queue(ords, l, g) : ords[r].qty \in Nat
  BY <1>1 DEF Queue, Stores, Order
<1>13. ASSUME NEW g \in OpenLevels(c)
       PROVE  c.levels[g].shares = SharesOf(after, Queue(after, l, g))
  <2>1. g \in OpenLevels(b) /\ g \in Handles(b)
    BY <1>2, <1>9
  <2>2. b.levels[g].shares = SharesOf(ords, Queue(ords, l, g))
    BY <2>1 DEF InPlace, SharesSummed, SharesOf
  <2>3. IsFiniteSet(Queue(ords, l, g)) /\ IsFiniteSet(Queue(after, l, g))
    BY QueueFinite
  <2>4. SharesOf(after, Queue(after, l, g)) = SharesOf(ords, Queue(after, l, g))
    <3>1. \A r \in Queue(after, l, g) : after[r].qty = ords[r].qty
      BY <1>1, <1>2, <2>1 DEF Queue, SameSeats, AtBook
    <3> QED BY <2>3, <3>1, SharesSame
  <2>5. CASE g = h
    <3>1. SharesOf(ords, Queue(ords, l, h)) =
            ords[x].qty + SharesOf(ords, Queue(ords, l, h) \ {x})
      BY <1>4, <1>12, <2>3, <2>5, SharesSplit
    <3>2. SharesOf(ords, Queue(after, l, h)) \in Nat
      <4>1. \A r \in Queue(after, l, h) : ords[r].qty \in Nat
        BY <1>5, <1>12
      <4> QED BY <2>3, <2>5, <4>1, SharesSplit
    <3>3. ords[x].qty \in Nat
      BY <1>4, <1>12
    <3>4. c.levels[h].shares = b.levels[h].shares - ords[x].qty
      OBVIOUS
    <3> DEFINE rest == SharesOf(ords, Queue(after, l, h))
               all  == SharesOf(ords, Queue(ords, l, h))
    <3>5. all = ords[x].qty + rest /\ rest \in Nat
      BY <1>5, <3>1, <3>2
    <3>6. /\ b.levels[h].shares = all
          /\ SharesOf(after, Queue(after, l, h)) = rest
      BY <2>2, <2>4, <2>5
    <3> HIDE DEF rest, all
    <3>7. c.levels[h].shares = rest
      BY <3>3, <3>4, <3>5, <3>6
    <3> QED BY <2>5, <3>6, <3>7
  <2>6. CASE g # h
    <3>1. c.levels[g].shares = b.levels[g].shares
      BY <2>1, <2>6
    <3> QED BY <1>6, <2>1, <2>2, <2>4, <2>6, <3>1
  <2> QED BY <2>5, <2>6
<1>14. SharesSummed(after, l, c)
  BY <1>13 DEF SharesSummed, SharesOf
<1> QED BY <1>10, <1>11, <1>14 DEF InPlace

\* An order joins: its level, an old one or a new one, counts one more.
LEMMA JoinInPlace ==
  ASSUME NEW refs, IsFiniteSet(refs), NEW locates, NEW ords \in Stores(refs, locates),
         NEW after \in Stores(refs, locates), NEW l, NEW b, InPlace(refs, ords, l, b),
         NEW x \in refs, SameSeats(ords, after, refs \ {x}),
         ~ AtBook(ords, x, l), AtBook(after, x, l),
         NEW c, IsBook(refs, c),
         OneMore(b, c, after[x].level, after[x].buy, after[x].qty)
  PROVE  InPlace(refs, after, l, c)
<1> DEFINE h == after[x].level
<1> USE DEF OneMore
<1>1. DOMAIN ords = refs /\ DOMAIN after = refs /\ after[x].buy \in BOOLEAN
  BY DEF Stores, Order
<1>2. \A g \in OpenLevels(b) : g # Nil /\ g \in Handles(b)
  BY OpenHandles DEF InPlace
<1>3. OpenLevels(c) = OpenLevels(b) \cup {h}
  BY <1>1 DEF OpenLevels
<1>4. h # Nil
  BY DEF AtBook
<1>5. Queue(after, l, h) = Queue(ords, l, h) \cup {x} /\ x \notin Queue(ords, l, h)
  BY <1>1, <1>4 DEF Queue, SameSeats, AtBook
<1>6. \A g \in OpenLevels(b) : g # h => Queue(after, l, g) = Queue(ords, l, g)
  BY <1>1, <1>2 DEF Queue, SameSeats, AtBook
<1>7. h \notin OpenLevels(b) => Queue(ords, l, h) = {}
  <2> SUFFICES ASSUME NEW r \in refs, ords[r].level = h, ords[r].locate = l
               PROVE  h \in OpenLevels(b)
    BY <1>1 DEF Queue
  <2>1. h \in Listed(b, ords[r].buy) /\ ords[r].buy \in BOOLEAN
    BY <1>1, <1>4 DEF InPlace, OrdersListed, Stores, Order
  <2> QED BY <2>1, OpenHandles DEF InPlace
<1>8. /\ c.levels[h].orders = Cardinality(Queue(after, l, h))
      /\ Queue(after, l, h) # {}
  <2>1. IsFiniteSet(Queue(ords, l, h)) /\ Cardinality(Queue(ords, l, h)) \in Nat
    BY QueueFinite
  <2>2. Cardinality(Queue(after, l, h)) = Cardinality(Queue(ords, l, h)) + 1
    BY <1>5, <2>1, FS_AddElement
  <2>3. Cardinality(Queue(ords, l, h)) = IF h \in OpenLevels(b) THEN b.levels[h].orders ELSE 0
    BY <1>7, FS_EmptySet DEF InPlace, OrdersCounted
  <2> QED BY <1>5, <2>1, <2>2, <2>3
<1>9. OrdersCounted(after, l, c)
  <2> SUFFICES ASSUME NEW g \in OpenLevels(c), g # h
               PROVE  /\ c.levels[g].orders = Cardinality(Queue(after, l, g))
                      /\ Queue(after, l, g) # {}
    BY <1>8 DEF OrdersCounted
  <2>1. g \in OpenLevels(b) /\ g \in Handles(b)
    BY <1>2, <1>3
  <2> QED BY <1>6, <2>1 DEF InPlace, OrdersCounted
<1>10. OrdersListed(after, l, c)
  <2> SUFFICES ASSUME NEW r \in refs, AtBook(after, r, l)
               PROVE  after[r].level \in Listed(c, after[r].buy)
    BY <1>1 DEF OrdersListed, AtBook
  <2>1. CASE r = x
    BY <1>1, <2>1
  <2>2. CASE r # x
    <3>1. /\ after[r].level = ords[r].level /\ after[r].buy = ords[r].buy
          /\ AtBook(ords, r, l)
      BY <2>2 DEF SameSeats, AtBook
    <3>2. ords[r].level \in Listed(b, ords[r].buy) /\ ords[r].buy \in BOOLEAN
      BY <1>1, <3>1 DEF InPlace, OrdersListed, AtBook, Stores, Order
    <3> QED BY <3>1, <3>2
  <2> QED BY <2>1, <2>2
<1>11. ASSUME NEW g \in OpenLevels(c)
       PROVE  c.levels[g].shares = SharesOf(after, Queue(after, l, g))
  <2>1. IsFiniteSet(Queue(ords, l, g)) /\ IsFiniteSet(Queue(after, l, g))
    BY QueueFinite
  <2>2. SharesOf(after, Queue(ords, l, g)) = SharesOf(ords, Queue(ords, l, g))
    <3>1. \A r \in Queue(ords, l, g) : after[r].qty = ords[r].qty
      <4>1. g # Nil
        BY <1>2, <1>3, <1>4
      <4> QED BY <1>1, <4>1 DEF Queue, SameSeats, AtBook
    <3> QED BY <2>1, <3>1, SharesSame
  <2>3. g \in OpenLevels(b) => b.levels[g].shares = SharesOf(ords, Queue(ords, l, g))
    BY DEF InPlace, SharesSummed, SharesOf
  <2>4. CASE g = h
    <3>1. Queue(after, l, h) \ {x} = Queue(ords, l, h) /\ x \in Queue(after, l, h)
      BY <1>5
    <3>2. SharesOf(after, Queue(after, l, h)) =
            after[x].qty + SharesOf(after, Queue(after, l, h) \ {x})
      <4>1. \A r \in Queue(after, l, h) : after[r].qty \in Nat
        BY <1>1 DEF Queue, Stores, Order
      <4> QED BY <2>1, <2>4, <3>1, <4>1, SharesSplit
    <3>3. h \notin OpenLevels(b) => SharesOf(ords, Queue(ords, l, h)) = 0
      <4>1. \A r \in Queue(ords, l, h) : ords[r].qty \in Nat
        BY <1>1 DEF Queue, Stores, Order
      <4> QED BY <1>7, <2>1, <2>4, <4>1, SharesSplit
    <3>4. c.levels[h].shares = after[x].qty + IF h \in OpenLevels(b) THEN b.levels[h].shares ELSE 0
      OBVIOUS
    <3> QED BY <2>2, <2>3, <2>4, <3>1, <3>2, <3>3, <3>4
  <2>5. CASE g # h
    <3>1. g \in OpenLevels(b) /\ g \in Handles(b)
      BY <1>2, <1>3, <2>5
    <3>2. c.levels[g].shares = b.levels[g].shares
      BY <2>5, <3>1
    <3> QED BY <1>6, <2>2, <2>3, <2>5, <3>1, <3>2
  <2> QED BY <2>4, <2>5
<1>12. SharesSummed(after, l, c)
  BY <1>11 DEF SharesSummed, SharesOf
<1> QED BY <1>9, <1>10, <1>12 DEF InPlace

-----------------------------------------------------------------------------
(* The operations.                                                         *)

\* The level a live order sits at, listed by its side and well formed.
LEMMA SeatFacts ==
  ASSUME NEW refs, NEW locates, NEW ords \in Stores(refs, locates), NEW l, NEW b,
         InPlace(refs, ords, l, b), NEW x \in refs, AtBook(ords, x, l)
  PROVE  /\ ords[x] \in Order(refs, locates) /\ ords[x].buy \in BOOLEAN
         /\ ords[x].level \in Listed(b, ords[x].buy)
         /\ ords[x].level \in Handles(b) /\ ords[x].level \in OpenLevels(b)
         /\ b.levels[ords[x].level] \in Level(refs)
         /\ b \in BookType(refs) /\ Laddered(b)
<1>1. ords[x] \in Order(refs, locates) /\ ords[x].buy \in BOOLEAN /\ DOMAIN ords = refs
  BY DEF Stores, Order
<1>2. ords[x].level \in Listed(b, ords[x].buy)
  BY <1>1 DEF InPlace, OrdersListed, AtBook
<1>3. ords[x].level \in Handles(b) /\ ords[x].level \in OpenLevels(b)
  BY <1>1, <1>2, OpenHandles DEF InPlace
<1>4. b \in BookType(refs) /\ Laddered(b)
  BY DEF InPlace, IsBook
<1>5. b.levels[ords[x].level] \in Level(refs)
  BY <1>3, <1>4, BookTypeFacts DEF Handles
<1> QED BY <1>1, <1>2, <1>3, <1>4, <1>5

\* What unlinking leaves: nobody under ref, and everybody else in their seats.
LEMMA UnlinkedFacts ==
  ASSUME NEW refs, NilRef \in refs, NEW locates, 0 \in locates,
         NEW ords \in Stores(refs, locates), NEW x \in refs
  PROVE  /\ Unlinked(ords, x) \in Stores(refs, locates)
         /\ Unlinked(ords, x)[x] = NoOrder
         /\ SameSeats(ords, Unlinked(ords, x), refs \ {x})
<1>1. DOMAIN ords = refs /\ \A r \in refs : ords[r] \in Order(refs, locates)
  BY DEF Stores
<1>2. ords[x].prev \in refs /\ ords[x].next \in refs
  BY <1>1 DEF Order
<1>3. Unlinked(ords, x)[x] = NoOrder
  BY <1>1 DEF Unlinked
<1>4. NoOrder \in Order(refs, locates)
  BY DEF NoOrder, Order, Nil
<1>5. ASSUME NEW r \in refs, r # x
      PROVE  /\ Unlinked(ords, x)[r] \in Order(refs, locates)
             /\ Unlinked(ords, x)[r].level = ords[r].level
             /\ Unlinked(ords, x)[r].locate = ords[r].locate
             /\ Unlinked(ords, x)[r].buy = ords[r].buy
             /\ Unlinked(ords, x)[r].qty = ords[r].qty
  <2> DEFINE o == ords[r]
             n == IF r = ords[x].prev /\ r # NilRef THEN ords[x].next ELSE o.next
             p == IF r = ords[x].next /\ r # NilRef THEN ords[x].prev ELSE o.prev
  <2>1. Unlinked(ords, x)[r] = [o EXCEPT !.next = n, !.prev = p]
    BY <1>1, <1>5 DEF Unlinked
  <2>2. o \in Order(refs, locates) /\ n \in refs /\ p \in refs
    BY <1>1, <1>2 DEF Order
  <2> HIDE DEF n, p, o
  <2>3. /\ Unlinked(ords, x)[r] \in Order(refs, locates)
        /\ Unlinked(ords, x)[r].level = o.level /\ Unlinked(ords, x)[r].locate = o.locate
        /\ Unlinked(ords, x)[r].buy = o.buy /\ Unlinked(ords, x)[r].qty = o.qty
    BY <2>1, <2>2 DEF Order
  <2> QED BY <2>3 DEF o
<1>6. Unlinked(ords, x) = [r \in refs |-> Unlinked(ords, x)[r]]
  BY <1>1 DEF Unlinked
<1>7. \A r \in refs : Unlinked(ords, x)[r] \in Order(refs, locates)
  BY <1>3, <1>4, <1>5
<1>8. Unlinked(ords, x) \in Stores(refs, locates)
  <2> DEFINE u == Unlinked(ords, x)
  <2> HIDE DEF u
  <2>1. u = [r \in refs |-> u[r]] /\ \A r \in refs : u[r] \in Order(refs, locates)
    BY <1>6, <1>7 DEF u
  <2>2. u \in [refs -> Order(refs, locates)]
    BY <2>1
  <2> QED BY <2>2 DEF u, Stores
<1> QED BY <1>3, <1>5, <1>8 DEF SameSeats

\* remove() keeps a book in place and leaves nobody under ref.
LEMMA RemoveInPlace ==
  ASSUME NEW refs, IsFiniteSet(refs), NilRef \in refs, NEW locates, 0 \in locates,
         NEW ords \in Stores(refs, locates), NEW l, NEW b, InPlace(refs, ords, l, b),
         NEW x \in refs, AtBook(ords, x, l)
  PROVE  LET st == Remove([os |-> ords, book |-> b], x)
         IN /\ st.os \in Stores(refs, locates) /\ ~ Live(st.os, x)
            /\ SameSeats(ords, st.os, refs \ {x})
            /\ InPlace(refs, st.os, l, st.book)
<1> DEFINE st == Remove([os |-> ords, book |-> b], x)
           o == ords[x]
           h == o.level
           lv == b.levels[h]
           left == [lv EXCEPT !.shares = @ - o.qty, !.orders = @ - 1,
                              !.head = IF o.prev = NilRef THEN o.next ELSE @,
                              !.tail = IF o.next = NilRef THEN o.prev ELSE @]
           d == WithLevel(b, h, left)
           c == st.book
<1>1. /\ o \in Order(refs, locates) /\ o.buy \in BOOLEAN
      /\ h \in Listed(b, o.buy) /\ h \in Handles(b) /\ lv \in Level(refs)
      /\ b \in BookType(refs) /\ Laddered(b) /\ IsBook(refs, b)
  BY SeatFacts DEF InPlace
<1>2. st.os = Unlinked(ords, x) /\ c = IF left.orders = 0 THEN EraseLevel(d, h) ELSE d
  BY DEF Remove
<1>3. /\ st.os \in Stores(refs, locates) /\ st.os[x] = NoOrder
      /\ SameSeats(ords, st.os, refs \ {x})
  <2> HIDE DEF st
  <2> QED BY <1>2, UnlinkedFacts
<1>4. ~ Live(st.os, x) /\ ~ AtBook(st.os, x, l)
  <2> HIDE DEF st
  <2> QED BY <1>3 DEF NoOrder, Live, AtBook
<1>5. /\ left \in Level(refs) /\ left.key = lv.key /\ left.orders = lv.orders - 1
      /\ left.shares = lv.shares - o.qty
  <2> DEFINE hd == IF o.prev = NilRef THEN o.next ELSE lv.head
             tl == IF o.next = NilRef THEN o.prev ELSE lv.tail
             sh == lv.shares - o.qty
             n  == lv.orders - 1
  <2>1. hd \in refs /\ tl \in refs /\ sh \in Int /\ n \in Int
    BY <1>1 DEF Order, Level
  <2>2. left = [lv EXCEPT !.shares = sh, !.orders = n, !.head = hd, !.tail = tl]
    OBVIOUS
  <2> HIDE DEF hd, tl, sh, lv, left, n
  <2>3. left \in Level(refs) /\ left.key = lv.key /\ left.orders = n /\ left.shares = sh
    BY <1>1, <2>1, <2>2 DEF Level
  <2> QED BY <2>3 DEF n, sh
<1> HIDE DEF st, left
<1>6. /\ IsBook(refs, d) /\ Handles(d) = Handles(b) /\ d.levels[h] = left
      /\ \A g \in Handles(b) : g # h => d.levels[g] = b.levels[g]
      /\ \A side \in BOOLEAN : Listed(d, side) = Listed(b, side)
      /\ OpenLevels(d) = OpenLevels(b)
  BY <1>1, <1>5, RetotalFacts
<1> HIDE DEF d
<1>7. h \in Listed(d, o.buy)
  BY <1>1, <1>6
<1>8. /\ IsBook(refs, EraseLevel(d, h)) /\ EraseLevel(d, h).levels = d.levels
      /\ \A side \in BOOLEAN : Listed(EraseLevel(d, h), side) = Listed(d, side) \ {h}
  <2> HIDE DEF h, o
  <2>1. o.buy \in BOOLEAN /\ h \in Listed(d, o.buy)
    BY <1>1, <1>7
  <2> QED BY <1>6, <2>1, EraseLevelFacts
<1>9. /\ IsBook(refs, c) /\ c.levels = d.levels
      /\ \A side \in BOOLEAN :
           Listed(c, side) = IF left.orders = 0 THEN Listed(b, side) \ {h} ELSE Listed(b, side)
  BY <1>2, <1>6, <1>8
<1>10. OneLess(b, c, h, o.qty)
  BY <1>5, <1>6, <1>9 DEF OneLess
<1> HIDE DEF c
<1>11. InPlace(refs, st.os, l, c)
  BY <1>3, <1>4, <1>9, <1>10, LeaveInPlace
<1> QED BY <1>3, <1>4, <1>11 DEF st, c

\* add() puts a dead order in its place and moves nobody else.
LEMMA AddInPlace ==
  ASSUME NEW refs, IsFiniteSet(refs), NilRef \in refs, NEW locates,
         NEW ords \in Stores(refs, locates), NEW l, NEW b, InPlace(refs, ords, l, b),
         NEW x \in refs, ~ Live(ords, x), NEW price \in Int, price > 0
  PROVE  AddsTo(refs, locates, ords, l, x, Add([os |-> ords, book |-> b], x, price))
<1> DEFINE st == Add([os |-> ords, book |-> b], x, price)
           o == ords[x]
           key == Key(o.buy, price)
           at == FindOrCreate(b, o.buy, key)
           h == at.level
           d == at.book
           lv == d.levels[h]
           rear == lv.tail
           placed == [o EXCEPT !.level = h, !.prev = rear, !.next = NilRef]
           more == [lv EXCEPT !.shares = @ + o.qty, !.orders = @ + 1,
                              !.head = IF rear = NilRef THEN x ELSE @, !.tail = x]
           c == st.book
<1>1. /\ o \in Order(refs, locates) /\ o.buy \in BOOLEAN /\ DOMAIN ords = refs
      /\ \A r \in refs : ords[r] \in Order(refs, locates)
  BY DEF Stores, Order
<1>2. key \in Int /\ key # 0 /\ (key > 0) = o.buy
  <2>1. CASE o.buy = TRUE
    <3>1. key = price
      BY <2>1 DEF Key
    <3> HIDE DEF key, o
    <3>2. key \in Int /\ key # 0 /\ key > 0
      BY <3>1
    <3> QED BY <2>1, <3>2, Zenon
  <2>2. CASE o.buy = FALSE
    <3>1. key = -price
      BY <2>2 DEF Key
    <3> HIDE DEF key, o
    <3>2. key \in Int /\ key # 0 /\ ~ (key > 0)
      BY <3>1
    <3>3. (key > 0) = FALSE
      BY <3>2
    <3> QED BY <2>2, <3>2, <3>3, Zenon
  <2> QED BY <1>1, <2>1, <2>2
<1>3. /\ c = WithLevel(d, h, more)
      /\ st.os = [r \in refs |-> IF r = x THEN placed
                                 ELSE IF r = rear /\ rear # NilRef
                                   THEN [ords[r] EXCEPT !.next = x] ELSE ords[r]]
  BY <1>1 DEF Add
<1>4. IsBook(refs, b)
  BY DEF InPlace
<1> HIDE DEF st, key
<1>5. IsBook(refs, d) /\ HasLevel(b, d, h, o.buy, key)
  <2> HIDE DEF o
  <2> QED BY <1>1, <1>2, <1>4, FindOrCreateFacts
<1> HIDE DEF at, h, d
<1>6. /\ h \in Handles(d) /\ h \in Listed(d, o.buy)
      /\ \A g \in Handles(b) : g # h => d.levels[g] = b.levels[g]
      /\ \/ h \in OpenLevels(b) /\ d = b
         \/ h \notin OpenLevels(b) /\ lv = EmptyLevel(key)
      /\ Listed(d, o.buy) = Listed(b, o.buy) \cup {h}
      /\ \A other \in BOOLEAN : other # o.buy => Listed(d, other) = Listed(b, other)
      /\ Handles(b) \subseteq Handles(d)
  BY <1>5 DEF HasLevel
<1>7. /\ h # Nil /\ h \in Nat /\ lv \in Level(refs)
  <2>1. h # Nil
    BY <1>5, <1>6, OpenHandles
  <2>2. d \in BookType(refs)
    BY <1>5 DEF IsBook
  <2>3. h \in Nat /\ lv \in Level(refs)
    <3>1. h \in 1 .. Len(d.levels)
      BY <1>6 DEF Handles
    <3>2. Len(d.levels) \in Nat /\ \A g \in 1 .. Len(d.levels) : d.levels[g] \in Level(refs)
      BY <2>2, BookTypeFacts
    <3> QED BY <3>1, <3>2
  <2> QED BY <2>1, <2>3
<1>8. /\ more \in Level(refs) /\ more.key = lv.key /\ more.orders = lv.orders + 1
      /\ more.shares = lv.shares + o.qty
  <2> DEFINE hd == IF rear = NilRef THEN x ELSE lv.head
             sh == lv.shares + o.qty
             n  == lv.orders + 1
  <2>1. hd \in refs /\ sh \in Int /\ n \in Int
    BY <1>1, <1>7 DEF Order, Level
  <2>2. more = [lv EXCEPT !.shares = sh, !.orders = n, !.head = hd, !.tail = x]
    OBVIOUS
  <2> HIDE DEF hd, sh, lv, more, n
  <2>3. more \in Level(refs) /\ more.key = lv.key /\ more.orders = n /\ more.shares = sh
    BY <1>7, <2>1, <2>2 DEF Level
  <2> QED BY <2>3 DEF n, sh
<1>9. /\ placed \in Order(refs, locates) /\ placed.level = h
      /\ placed.qty = o.qty /\ placed.locate = o.locate /\ placed.buy = o.buy
  <2>1. rear \in refs
    BY <1>7 DEF Level
  <2> HIDE DEF rear, o
  <2> QED BY <1>1, <1>7, <2>1 DEF Order
<1> HIDE DEF more, placed
<1>10. \A r \in refs : /\ [ords[r] EXCEPT !.next = x] \in Order(refs, locates)
                       /\ [ords[r] EXCEPT !.next = x].level = ords[r].level
                       /\ [ords[r] EXCEPT !.next = x].locate = ords[r].locate
                       /\ [ords[r] EXCEPT !.next = x].buy = ords[r].buy
                       /\ [ords[r] EXCEPT !.next = x].qty = ords[r].qty
  BY <1>1 DEF Order
<1>11. /\ st.os \in Stores(refs, locates) /\ st.os[x] = placed
       /\ SameSeats(ords, st.os, refs \ {x})
  <2> HIDE DEF rear
  <2>1. \A r \in refs : st.os[r] = IF r = x THEN placed
                                   ELSE IF r = rear /\ rear # NilRef
                                     THEN [ords[r] EXCEPT !.next = x] ELSE ords[r]
    BY <1>3
  <2>2. \A r \in refs : st.os[r] \in Order(refs, locates)
    BY <1>1, <1>9, <1>10, <2>1
  <2>3. st.os = [r \in refs |-> st.os[r]]
    BY <1>3
  <2>4. st.os \in [refs -> Order(refs, locates)]
    BY <2>2, <2>3
  <2>5. SameSeats(ords, st.os, refs \ {x})
    BY <1>10, <2>1 DEF SameSeats
  <2> QED BY <2>1, <2>4, <2>5 DEF Stores
<1>12. /\ IsBook(refs, c) /\ c.levels[h] = more
       /\ \A g \in Handles(d) : g # h => c.levels[g] = d.levels[g]
       /\ \A side \in BOOLEAN : Listed(c, side) = Listed(d, side)
  <2> HIDE DEF c
  <2> QED BY <1>3, <1>5, <1>6, <1>8, RetotalFacts
<1> HIDE DEF c
<1>13. OneMore(b, c, h, o.buy, o.qty)
  <2>1. \A g \in Handles(b) : g # h => /\ c.levels[g].orders = b.levels[g].orders
                                       /\ c.levels[g].shares = b.levels[g].shares
    BY <1>6, <1>12
  <2>2. /\ lv.orders = IF h \in OpenLevels(b) THEN b.levels[h].orders ELSE 0
        /\ lv.shares = IF h \in OpenLevels(b) THEN b.levels[h].shares ELSE 0
    BY <1>6 DEF EmptyLevel
  <2>3. lv.orders \in Int /\ lv.shares \in Int /\ o.qty \in Int
    BY <1>1, <1>7 DEF Level, Order
  <2>4. c.levels[h].orders = 1 + lv.orders /\ c.levels[h].shares = o.qty + lv.shares
    BY <1>8, <1>12, <2>3
  <2>5. \A side \in BOOLEAN :
          Listed(c, side) = IF side = o.buy THEN Listed(b, side) \cup {h} ELSE Listed(b, side)
    BY <1>6, <1>12
  <2> QED BY <2>1, <2>2, <2>4, <2>5 DEF OneMore
<1>14. ASSUME NEW after \in Stores(refs, locates), SameSeats(st.os, after, refs \ {x}),
              after[x].level = st.os[x].level, after[x].buy = st.os[x].buy,
              after[x].locate = l, after[x].qty = st.os[x].qty
       PROVE  InPlace(refs, after, l, c)
  <2>1. SameSeats(ords, after, refs \ {x})
    BY <1>11, <1>14 DEF SameSeats
  <2>2. after[x].level = h /\ after[x].buy = o.buy /\ after[x].qty = o.qty
    BY <1>9, <1>11, <1>14
  <2>3. ~ AtBook(ords, x, l) /\ AtBook(after, x, l)
    BY <1>7, <1>14, <2>2 DEF AtBook, Live
  <2>4. OneMore(b, c, after[x].level, after[x].buy, after[x].qty)
    BY <1>13, <2>2
  <2> HIDE DEF o
  <2> QED BY <1>12, <2>1, <2>3, <2>4, JoinInPlace
<1>15. Live(st.os, x)
  BY <1>7, <1>9, <1>11 DEF Live
<1> QED BY <1>9, <1>11, <1>12, <1>14, <1>15 DEF AddsTo, st, c

\* reduce() removes the order, or takes from it and its level what was asked for.
LEMMA ReduceInPlace ==
  ASSUME NEW refs, IsFiniteSet(refs), NilRef \in refs, NEW locates, 0 \in locates,
         NEW ords \in Stores(refs, locates), NEW l, NEW b, InPlace(refs, ords, l, b),
         NEW x \in refs, AtBook(ords, x, l), ords[x].qty > 0, NEW shares \in Nat
  PROVE  ReducesTo(refs, locates, ords, l, x, shares,
                   Reduce([os |-> ords, book |-> b], x, shares))
<1> DEFINE st == Reduce([os |-> ords, book |-> b], x, shares)
           o == ords[x]
           take == Taken(ords, x, shares)
           h == o.level
           lv == b.levels[h]
           less == [lv EXCEPT !.shares = lv.shares - take]
           c == WithLevel(b, h, less)
<1>1. CASE take = o.qty
  <2>1. st = Remove([os |-> ords, book |-> b], x)
    BY <1>1 DEF Reduce
  <2>2. LET rm == Remove([os |-> ords, book |-> b], x)
        IN /\ rm.os \in Stores(refs, locates) /\ ~ Live(rm.os, x)
           /\ SameSeats(ords, rm.os, refs \ {x})
           /\ InPlace(refs, rm.os, l, rm.book)
    BY RemoveInPlace
  <2> QED BY <1>1, <2>1, <2>2 DEF ReducesTo
<1>2. CASE take # o.qty
  <2> DEFINE q == o.qty - take
             p == [o EXCEPT !.qty = q]
  <2>1. st = [os |-> [ords EXCEPT ![x] = p], book |-> c]
    BY <1>2 DEF Reduce
  <2>2. /\ o \in Order(refs, locates) /\ h \in Handles(b) /\ lv \in Level(refs)
        /\ b \in BookType(refs) /\ IsBook(refs, b) /\ DOMAIN ords = refs
    BY SeatFacts DEF InPlace, Stores
  <2>3. take = shares /\ shares < o.qty /\ o.qty - take \in Nat /\ o.qty - take > 0
    BY <1>2, <2>2 DEF Taken, Order
  <2>4. p \in Order(refs, locates) /\ p.qty = q /\ p.level = o.level
        /\ p.locate = o.locate /\ p.buy = o.buy
    <3> HIDE DEF q, o
    <3>1. q \in Nat
      BY <2>3 DEF q
    <3> QED BY <2>2, <3>1 DEF Order
  <2>5. st.os = [ords EXCEPT ![x] = p]
    <3> HIDE DEF st, p, c
    <3> QED BY <2>1
  <2>6. /\ less \in Level(refs) /\ less.key = lv.key /\ less.orders = lv.orders
        /\ less.shares = lv.shares - take
    <3> DEFINE sh == lv.shares - take
    <3>1. sh \in Int
      BY <2>2, <2>3 DEF Level
    <3>2. less = [lv EXCEPT !.shares = sh]
      OBVIOUS
    <3> HIDE DEF sh, lv, less
    <3>3. /\ less \in Level(refs) /\ less.key = lv.key /\ less.orders = lv.orders
          /\ less.shares = sh
      BY <2>2, <3>1, <3>2 DEF Level
    <3> QED BY <3>3 DEF sh
  <2> HIDE DEF st, p, less
  <2>7. /\ IsBook(refs, c) /\ c.levels[h] = less
        /\ \A g \in Handles(b) : g # h => c.levels[g] = b.levels[g]
        /\ \A side \in BOOLEAN : Listed(c, side) = Listed(b, side)
        /\ OpenLevels(c) = OpenLevels(b)
    <3> HIDE DEF h
    <3> QED BY <2>2, <2>6, RetotalFacts
  <2> HIDE DEF c
  <2>8. /\ st.os \in Stores(refs, locates) /\ st.os[x] = p
        /\ \A r \in refs : r # x => st.os[r] = ords[r]
    BY <2>2, <2>4, <2>5 DEF Stores
  <2>9. \A r \in refs : /\ st.os[r].level = ords[r].level /\ st.os[r].locate = ords[r].locate
                        /\ st.os[r].buy = ords[r].buy
    BY <2>4, <2>8
  <2>10. DOMAIN st.os = refs
    BY <2>8 DEF Stores
  <2>11. \A g \in OpenLevels(b) : Queue(st.os, l, g) = Queue(ords, l, g)
    BY <2>2, <2>9, <2>10 DEF Queue
  <2>12. \A g \in OpenLevels(b) : g \in Handles(b) /\ c.levels[g].orders = b.levels[g].orders
    BY <2>2, <2>6, <2>7, OpenHandles
  <2>13. OrdersCounted(st.os, l, c)
    BY <2>7, <2>11, <2>12 DEF InPlace, OrdersCounted
  <2>14. OrdersListed(st.os, l, c)
    <3> SUFFICES ASSUME NEW r \in refs, AtBook(st.os, r, l)
                 PROVE  st.os[r].level \in Listed(c, st.os[r].buy)
      BY <2>10 DEF OrdersListed, AtBook
    <3>1. AtBook(ords, r, l) /\ ords[r].level = st.os[r].level /\ ords[r].buy = st.os[r].buy
      BY <2>9 DEF AtBook
    <3>2. ords[r].level \in Listed(b, ords[r].buy) /\ ords[r].buy \in BOOLEAN
      BY <3>1, SeatFacts
    <3> QED BY <2>7, <3>1, <3>2
  <2>15. InPlace(refs, st.os, l, c)
    <3>1. ASSUME NEW g \in OpenLevels(b)
          PROVE  c.levels[g].shares = SharesOf(st.os, Queue(st.os, l, g))
      <4>1. b.levels[g].shares = SharesOf(ords, Queue(ords, l, g)) /\ g \in Handles(b)
        BY <2>2, OpenHandles DEF InPlace, SharesSummed, SharesOf
      <4>2. IsFiniteSet(Queue(ords, l, g)) /\ Queue(st.os, l, g) = Queue(ords, l, g)
        BY <2>11, QueueFinite
      <4>3. CASE g # h
        <5>1. x \notin Queue(ords, l, g)
          BY <4>3 DEF Queue
        <5>2. \A r \in Queue(ords, l, g) : st.os[r].qty = ords[r].qty
          BY <2>2, <2>8, <5>1 DEF Queue
        <5>3. SharesOf(st.os, Queue(ords, l, g)) = SharesOf(ords, Queue(ords, l, g))
          BY <4>2, <5>2, SharesSame
        <5>4. c.levels[g] = b.levels[g]
          BY <2>7, <4>1, <4>3
        <5> QED BY <4>1, <4>2, <5>3, <5>4
      <4>4. CASE g = h
        <5> DEFINE rest == Queue(ords, l, h) \ {x}
        <5>1. x \in Queue(ords, l, h)
          BY <2>2 DEF Queue, AtBook
        <5>2. /\ \A r \in Queue(ords, l, h) : ords[r].qty \in Nat /\ st.os[r].qty \in Nat
              /\ \A r \in rest : st.os[r].qty = ords[r].qty
          BY <2>2, <2>8 DEF Queue, Stores, Order
        <5>3. /\ SharesOf(ords, Queue(ords, l, h)) = ords[x].qty + SharesOf(ords, rest)
              /\ SharesOf(st.os, Queue(ords, l, h)) = st.os[x].qty + SharesOf(st.os, rest)
          BY <4>2, <4>4, <5>1, <5>2, SharesSplit
        <5>4. IsFiniteSet(rest)
          BY <4>2, <4>4, FS_Subset
        <5>5. SharesOf(ords, rest) \in Nat /\ SharesOf(st.os, rest) = SharesOf(ords, rest)
          BY <5>2, <5>4, SharesSame, SharesSplit
        <5>6. st.os[x].qty = ords[x].qty - take /\ ords[x].qty \in Nat /\ take \in Nat
          BY <2>3, <2>4, <2>8, <5>1, <5>2
        <5>7. c.levels[h].shares = b.levels[h].shares - take
          BY <2>6, <2>7
        <5> HIDE DEF rest
        <5> QED BY <4>1, <4>2, <4>4, <5>3, <5>5, <5>6, <5>7
      <4> QED BY <4>3, <4>4
    <3>2. SharesSummed(st.os, l, c)
      BY <2>7, <3>1 DEF SharesSummed, SharesOf
    <3> QED BY <2>7, <2>13, <2>14, <3>2 DEF InPlace
  <2>16. SameSeats(ords, st.os, refs \ {x})
    BY <2>8 DEF SameSeats
  <2>17. st.book = c
    BY <2>1 DEF st
  <2> QED BY <1>2, <2>3, <2>4, <2>8, <2>15, <2>16, <2>17 DEF ReducesTo, st
<1> QED BY <1>1, <1>2

-----------------------------------------------------------------------------
(* The manager.                                                            *)

IInv == TypeOK /\ OrdersPlaced /\ Ladders /\ HandlesPartitioned /\ LevelTotals

-----------------------------------------------------------------------------
(* The order store and the books, whatever state they come from.           *)

\* A store and the books of every locate that fit together.
Sound(o, bs) ==
  /\ o \in Stores(AllRefs, Locates)
  /\ DOMAIN bs = Locates /\ bs = [l \in Locates |-> bs[l]]
  /\ \A r \in AllRefs : Live(o, r) => r \in Refs /\ o[r].qty > 0
  /\ \A l \in Locates : InPlace(AllRefs, o, l, bs[l])

\* Every live order rests in a book that exists.
Housed(o, n) == \A r \in AllRefs : Live(o, r) => o[r].locate < n

\* The sets a run is about are finite and hold the reserved values.
LEMMA ConstantFacts ==
  /\ IsFiniteSet(AllRefs) /\ NilRef \in AllRefs /\ 0 \in Locates
  /\ Refs \subseteq AllRefs /\ Locates \subseteq Nat /\ Prices \subseteq Nat /\ Sizes \subseteq Nat
<1>1. IsFiniteSet({NilRef, FarRef})
  <2>1. IsFiniteSet({NilRef}) /\ {NilRef, FarRef} = {NilRef} \cup {FarRef}
    BY FS_Singleton
  <2> QED BY <2>1, FS_AddElement
<1>2. IsFiniteSet(AllRefs)
  <2>1. AllRefs = Refs \cup {NilRef, FarRef}
    BY DEF AllRefs
  <2> QED BY <1>1, <2>1, FS_Union, RefsAssumption
<1>3. 0 \in Locates /\ Locates \subseteq Nat /\ Prices \subseteq Nat /\ Sizes \subseteq Nat
  BY BoundsAssumption DEF Locates, Prices, Sizes
<1> QED BY <1>2, <1>3 DEF AllRefs

\* One order changes seats in one book: what holds of that book holds of all.
LEMMA SettleSound ==
  ASSUME NEW o, NEW bs, Sound(o, bs), NEW x \in AllRefs, NEW l \in Locates,
         NEW after \in Stores(AllRefs, Locates), SameSeats(o, after, AllRefs \ {x}),
         Live(o, x) => o[x].locate = l,
         Live(after, x) => after[x].locate = l /\ x \in Refs /\ after[x].qty > 0,
         NEW c, InPlace(AllRefs, after, l, c)
  PROVE  /\ Sound(after, [bs EXCEPT ![l] = c])
         /\ \A k \in Locates : k # l => [bs EXCEPT ![l] = c][k] = bs[k]
         /\ [bs EXCEPT ![l] = c][l] = c
<1> DEFINE cs == [bs EXCEPT ![l] = c]
<1>1. o \in Stores(AllRefs, Locates) /\ DOMAIN bs = Locates
  BY DEF Sound
<1>2. /\ DOMAIN cs = Locates /\ cs = [k \in Locates |-> cs[k]] /\ cs[l] = c
      /\ \A k \in Locates : k # l => cs[k] = bs[k]
  BY <1>1
<1>3. \A r \in AllRefs : Live(after, r) => r \in Refs /\ after[r].qty > 0
  BY DEF Sound, SameSeats, Live
<1> HIDE DEF cs
<1>4. ASSUME NEW k \in Locates, k # l PROVE InPlace(AllRefs, after, k, cs[k])
  <2>1. InPlace(AllRefs, o, k, bs[k])
    BY DEF Sound
  <2>2. ~ AtBook(o, x, k) /\ ~ AtBook(after, x, k)
    BY <1>4 DEF AtBook, Live
  <2>3. InPlace(AllRefs, after, k, bs[k])
    BY <1>1, <2>1, <2>2, ConstantFacts, FrameInPlace
  <2> QED BY <1>2, <1>4, <2>3
<1> QED BY <1>2, <1>3, <1>4 DEF Sound, cs

\* A reference without an order may be given any size, side and book.
LEMMA SeatSound ==
  ASSUME NEW o, NEW bs, Sound(o, bs), NEW x \in AllRefs, ~ Live(o, x),
         NEW seat \in Order(AllRefs, Locates), seat.level = o[x].level
  PROVE  /\ Sound([o EXCEPT ![x] = seat], bs) /\ ~ Live([o EXCEPT ![x] = seat], x)
         /\ [o EXCEPT ![x] = seat][x] = seat
         /\ SameSeats(o, [o EXCEPT ![x] = seat], AllRefs \ {x})
<1> DEFINE after == [o EXCEPT ![x] = seat]
<1>1. o \in Stores(AllRefs, Locates)
  BY DEF Sound
<1>2. /\ after \in Stores(AllRefs, Locates) /\ after[x] = seat
      /\ \A r \in AllRefs : r # x => after[r] = o[r]
  BY <1>1 DEF Stores
<1> HIDE DEF after
<1>3. SameSeats(o, after, AllRefs \ {x}) /\ ~ Live(after, x)
  BY <1>2 DEF SameSeats, Live
<1>4. \A r \in AllRefs : Live(after, r) => r \in Refs /\ after[r].qty > 0
  BY <1>2, <1>3 DEF Sound, Live
<1>5. ASSUME NEW k \in Locates PROVE InPlace(AllRefs, after, k, bs[k])
  <2>1. InPlace(AllRefs, o, k, bs[k])
    BY DEF Sound
  <2>2. ~ AtBook(o, x, k) /\ ~ AtBook(after, x, k)
    BY <1>3 DEF AtBook, Live
  <2> QED BY <1>1, <1>2, <1>3, <2>1, <2>2, ConstantFacts, FrameInPlace
<1> QED BY <1>2, <1>3, <1>4, <1>5 DEF Sound, after

\* What removing order x makes of a store and its books: one book changes.
Drops(o, bs, x, s) ==
  /\ Sound(s.os, s.books) /\ ~ Live(s.os, x) /\ o[x].locate \in Locates
  /\ SameSeats(o, s.os, AllRefs \ {x})
  /\ \A k \in Locates : k # o[x].locate => s.books[k] = bs[k]

\* Removing a live order touches its own book only.
LEMMA DroppedSound ==
  ASSUME NEW o, NEW bs, Sound(o, bs), NEW x \in AllRefs, Live(o, x)
  PROVE  Drops(o, bs, x, Dropped([os |-> o, books |-> bs], x))
<1> DEFINE l == o[x].locate
           st == Remove([os |-> o, book |-> bs[l]], x)
<1>1. o \in Stores(AllRefs, Locates) /\ l \in Locates /\ AtBook(o, x, l)
  BY DEF Sound, Stores, Order, AtBook, Live
<1>2. InPlace(AllRefs, o, l, bs[l])
  BY <1>1 DEF Sound
<1>3. /\ st.os \in Stores(AllRefs, Locates) /\ ~ Live(st.os, x)
      /\ SameSeats(o, st.os, AllRefs \ {x}) /\ InPlace(AllRefs, st.os, l, st.book)
  BY <1>1, <1>2, ConstantFacts, RemoveInPlace
<1> DEFINE s == Dropped([os |-> o, books |-> bs], x)
<1>4. s.os = st.os /\ s.books = [bs EXCEPT ![l] = st.book]
  BY DEF Dropped
<1> HIDE DEF st, s
<1>5. /\ Sound(st.os, [bs EXCEPT ![l] = st.book])
      /\ \A k \in Locates : k # l => [bs EXCEPT ![l] = st.book][k] = bs[k]
  BY <1>1, <1>3, SettleSound
<1> QED BY <1>1, <1>3, <1>4, <1>5 DEF Drops, s

\* What adding order x, told its book l before or after, makes of a store and
\* its books: one book changes.
PutsIn(o, bs, x, l, st) ==
  LET after == [st.os EXCEPT ![x] = [@ EXCEPT !.locate = l]]
  IN /\ Sound(after, [bs EXCEPT ![l] = st.book])
     /\ SameSeats(o, after, AllRefs \ {x}) /\ after[x].locate = l
     /\ \A k \in Locates : k # l => [bs EXCEPT ![l] = st.book][k] = bs[k]
     /\ o[x].locate = l => after = st.os

\* Adding under a free reference touches the book it is added to only.
LEMMA AddedSound ==
  ASSUME NEW o, NEW bs, Sound(o, bs), NEW x \in Refs, ~ Live(o, x), o[x].qty > 0,
         NEW l \in Locates, NEW price \in Int, price > 0
  PROVE  PutsIn(o, bs, x, l, Add([os |-> o, book |-> bs[l]], x, price))
<1> DEFINE st == Add([os |-> o, book |-> bs[l]], x, price)
           after == [st.os EXCEPT ![x] = [@ EXCEPT !.locate = l]]
<1>1. o \in Stores(AllRefs, Locates) /\ InPlace(AllRefs, o, l, bs[l]) /\ x \in AllRefs
  BY ConstantFacts DEF Sound
<1>2. /\ st.os \in Stores(AllRefs, Locates) /\ Live(st.os, x)
      /\ SameSeats(o, st.os, AllRefs \ {x})
      /\ st.os[x].qty = o[x].qty /\ st.os[x].locate = o[x].locate
      /\ st.os[x].buy = o[x].buy
      /\ \A settled \in Stores(AllRefs, Locates) :
           /\ SameSeats(st.os, settled, AllRefs \ {x})
           /\ settled[x].level = st.os[x].level /\ settled[x].buy = st.os[x].buy
           /\ settled[x].locate = l /\ settled[x].qty = st.os[x].qty
           => InPlace(AllRefs, settled, l, st.book)
  <2>1. AddsTo(AllRefs, Locates, o, l, x, st)
    BY <1>1, ConstantFacts, AddInPlace
  <2> HIDE DEF st
  <2> QED BY <2>1 DEF AddsTo
<1> HIDE DEF st
<1> DEFINE seat == [st.os[x] EXCEPT !.locate = l]
<1>3. after = [st.os EXCEPT ![x] = seat]
  OBVIOUS
<1>4. /\ seat \in Order(AllRefs, Locates) /\ seat.level = st.os[x].level
      /\ seat.buy = st.os[x].buy /\ seat.qty = st.os[x].qty /\ seat.locate = l
      /\ st.os[x].locate = l => seat = st.os[x]
  <2>1. st.os[x] \in Order(AllRefs, Locates)
    BY <1>1, <1>2 DEF Stores
  <2> QED BY <2>1 DEF Order
<1> HIDE DEF seat, after
<1>5. /\ after \in Stores(AllRefs, Locates) /\ after[x] = seat
      /\ \A r \in AllRefs : r # x => after[r] = st.os[r]
      /\ seat = st.os[x] => after = st.os
  BY <1>1, <1>2, <1>3, <1>4 DEF Stores
<1>6. SameSeats(st.os, after, AllRefs \ {x}) /\ SameSeats(o, after, AllRefs \ {x})
  BY <1>2, <1>5 DEF SameSeats
<1>7. InPlace(AllRefs, after, l, st.book)
  BY <1>2, <1>4, <1>5, <1>6
<1>8. Live(after, x) => after[x].locate = l /\ x \in Refs /\ after[x].qty > 0
  BY <1>2, <1>4, <1>5
<1>9. /\ Sound(after, [bs EXCEPT ![l] = st.book])
      /\ \A k \in Locates : k # l => [bs EXCEPT ![l] = st.book][k] = bs[k]
  BY <1>1, <1>5, <1>6, <1>7, <1>8, SettleSound
<1> QED BY <1>2, <1>4, <1>5, <1>6, <1>9 DEF PutsIn, st, after

\* Reducing a live order touches its own book only.
LEMMA ReducedSound ==
  ASSUME NEW o, NEW bs, Sound(o, bs), NEW x \in AllRefs, Live(o, x), NEW shares \in Nat
  PROVE  LET l == o[x].locate
             st == Reduce([os |-> o, book |-> bs[l]], x, shares)
         IN /\ Sound(st.os, [bs EXCEPT ![l] = st.book]) /\ l \in Locates
            /\ SameSeats(o, st.os, AllRefs \ {x})
            /\ Live(st.os, x) => st.os[x].locate = l
            /\ \A k \in Locates : k # l => [bs EXCEPT ![l] = st.book][k] = bs[k]
<1> DEFINE l == o[x].locate
           st == Reduce([os |-> o, book |-> bs[l]], x, shares)
<1>1. o \in Stores(AllRefs, Locates) /\ l \in Locates /\ AtBook(o, x, l)
      /\ o[x].qty > 0 /\ x \in Refs
  BY DEF Sound, Stores, Order, AtBook, Live
<1>2. InPlace(AllRefs, o, l, bs[l])
  BY <1>1 DEF Sound
<1>3. /\ st.os \in Stores(AllRefs, Locates)
      /\ SameSeats(o, st.os, AllRefs \ {x})
      /\ InPlace(AllRefs, st.os, l, st.book)
      /\ \/ ~ Live(st.os, x)
         \/ st.os[x].locate = l /\ st.os[x].qty > 0
  <2>1. ReducesTo(AllRefs, Locates, o, l, x, shares, st)
    <3> HIDE DEF l
    <3> QED BY <1>1, <1>2, ConstantFacts, ReduceInPlace
  <2> HIDE DEF st
  <2> QED BY <1>1, <2>1 DEF ReducesTo
<1> HIDE DEF st
<1>4. /\ Sound(st.os, [bs EXCEPT ![l] = st.book])
      /\ \A k \in Locates : k # l => [bs EXCEPT ![l] = st.book][k] = bs[k]
  BY <1>1, <1>3, SettleSound
<1> QED BY <1>1, <1>3, <1>4 DEF st

\* The top of a well-formed book is a price and a size.
LEMMA BboType ==
  ASSUME NEW refs, NEW b, IsBook(refs, b)
  PROVE  Bbo(b) \in TopType
<1>1. b \in BookType(refs)
  BY DEF IsBook
<1>2. ASSUME NEW buy \in BOOLEAN PROVE Top(b, buy) \in [price : Int, shares : Int]
  <2>1. CASE b.side[buy] = <<>>
    BY <2>1 DEF Top, NoTop
  <2>2. CASE b.side[buy] # <<>>
    <3> DEFINE s == b.side[buy]
               h == Sq!Last(s).level
    <3>1. s \in Seq(Entry) /\ s # <<>>
      BY <1>1, <2>2, BookTypeFacts
    <3>2. Len(s) \in Nat \ {0} /\ Sq!Last(s) = s[Len(s)]
      <4> HIDE DEF s
      <4> QED BY <3>1, FrontFacts
    <3>3. h \in 1 .. Len(b.levels)
      <4>1. Len(s) \in 1 .. Len(b.side[buy])
        BY <3>2
      <4>2. s[Len(s)].level \in 1 .. Len(b.levels)
        BY <1>1, <4>1, LadderedFacts DEF IsBook
      <4> QED BY <3>2, <4>2
    <3>4. b.levels[h] \in Level(refs)
      BY <1>1, <3>3, BookTypeFacts
    <3>5. Top(b, buy) = [price |-> Key(buy, b.levels[h].key), shares |-> b.levels[h].shares]
      BY <2>2 DEF Top
    <3> HIDE DEF h
    <3>6. b.levels[h].key \in Int /\ b.levels[h].shares \in Int
      BY <3>4 DEF Level
    <3>7. Key(buy, b.levels[h].key) \in Int
      BY <3>6 DEF Key
    <3> QED BY <3>5, <3>6, <3>7
  <2> QED BY <2>1, <2>2
<1> QED BY <1>2 DEF Bbo, TopType

-----------------------------------------------------------------------------
(* What a step reports.                                                    *)

\* What is remembered after a step: nothing new for a book that did not change
\* or while tracking is off, what the book shows otherwise.
TellsOf(bs, ls, k) ==
  \/ bs[k] = books[k] /\ ls[k] = last[k]
  \/ track /\ ls[k] = Bbo(bs[k])
  \/ ~ track /\ ls[k] = last[k]

Tells(bs, ls) ==
  /\ DOMAIN ls = Locates /\ ls = [k \in Locates |-> ls[k]]
  /\ \A k \in Locates : TellsOf(bs, ls, k)

\* check_top() on the book of the message tells the last book that changed.
LEMMA CheckTopTells ==
  ASSUME NEW bs, NEW told, NEW l \in Locates,
         DOMAIN told = Locates, told = [k \in Locates |-> told[k]],
         ~ track => told = last,
         \A k \in Locates : k # l => TellsOf(bs, told, k)
  PROVE  Tells(bs, CheckTop(bs, told, l))
<1> DEFINE ls == CheckTop(bs, told, l)
<1>1. CASE track
  <2>1. ls = [told EXCEPT ![l] = Bbo(bs[l])]
    BY <1>1 DEF CheckTop
  <2> HIDE DEF ls
  <2>2. /\ DOMAIN ls = Locates /\ ls = [k \in Locates |-> ls[k]] /\ ls[l] = Bbo(bs[l])
        /\ \A k \in Locates : k # l => ls[k] = told[k]
    BY <2>1
  <2>3. Tells(bs, ls)
    BY <1>1, <2>2 DEF Tells, TellsOf
  <2> QED BY <2>3 DEF ls
<1>2. CASE ~ track
  BY <1>2 DEF CheckTop, Tells, TellsOf
<1> QED BY <1>1, <1>2

-----------------------------------------------------------------------------
(* The handlers.                                                           *)

\* What IInv says of the store and the books.
LEMMA IInvFacts ==
  ASSUME IInv
  PROVE  /\ Sound(os, books) /\ Housed(os, count)
         /\ DOMAIN last = Locates /\ last = [k \in Locates |-> last[k]]
         /\ ahead \in [AllRefs -> SUBSET AllRefs] /\ count \in 0 .. MaxLocate + 1
<1>1. /\ os \in Stores(AllRefs, Locates) /\ books \in [Locates -> BookType(AllRefs)]
      /\ last \in [Locates -> TopType] /\ ahead \in [AllRefs -> SUBSET AllRefs]
      /\ count \in 0 .. MaxLocate + 1
  BY DEF IInv, TypeOK, Stores
<1>2. \A l \in Locates : InPlace(AllRefs, os, l, books[l])
  BY <1>1 DEF IInv, OrdersPlaced, Ladders, HandlesPartitioned, LevelTotals, InPlace, IsBook
<1>3. \A r \in AllRefs : Live(os, r) => r \in Refs /\ os[r].qty > 0 /\ os[r].locate < count
  BY DEF IInv, OrdersPlaced, LiveRefs
<1>4. DOMAIN books = Locates /\ books = [l \in Locates |-> books[l]]
  BY <1>1
<1>5. Sound(os, books) /\ Housed(os, count)
  BY <1>1, <1>2, <1>3, <1>4 DEF Sound, Housed
<1>6. DOMAIN last = Locates /\ last = [k \in Locates |-> last[k]]
  BY <1>1
<1> QED BY <1>1, <1>5, <1>6

\* An order that joins, moves or leaves one book, which exists.
LEMMA HousedStep ==
  ASSUME NEW o, NEW after, NEW n \in Nat, NEW m \in Nat, n <= m, Housed(o, n),
         o \in Stores(AllRefs, Locates), after \in Stores(AllRefs, Locates),
         NEW x \in AllRefs, SameSeats(o, after, AllRefs \ {x}),
         Live(after, x) => after[x].locate < m
  PROVE  Housed(after, m)
<1> SUFFICES ASSUME NEW r \in AllRefs, r # x, Live(after, r) PROVE after[r].locate < m
  BY DEF Housed
<1>1. Live(o, r) /\ after[r].locate = o[r].locate
  BY DEF SameSeats, Live
<1>2. o[r].locate < n /\ o[r].locate \in Nat
  BY <1>1, ConstantFacts DEF Housed, Stores, Order
<1> QED BY <1>1, <1>2

\* A duplicate evicted from the book it rests in, if there is one.
Evicts(dup, x, l, s, told) ==
  /\ Sound(s.os, s.books) /\ Housed(s.os, count) /\ (dup => ~ Live(s.os, x))
  /\ SameSeats(os, s.os, AllRefs \ {x})
  /\ (~ dup => s.os = os)
  /\ \A bs : (\A k \in Locates : k # l => bs[k] = s.books[k])
            => Tells(bs, CheckTop(bs, told, l))

\* evict_duplicate() leaves the books sound: what rested under the reference is gone
\* whole, or nothing was there.
LEMMA EvictedSound ==
  ASSUME IInv, NEW x \in AllRefs, NEW dup, dup => Live(os, x), NEW l \in Locates
  PROVE  LET s == IF dup THEN Dropped(Now, x) ELSE Now
         IN Evicts(dup, x, l, s, EvictionTold(s, dup, os[x].locate, l))
<1>a. /\ Sound(os, books) /\ Housed(os, count)
      /\ DOMAIN last = Locates /\ last = [k \in Locates |-> last[k]]
      /\ count \in 0 .. MaxLocate + 1 /\ count \in Nat
  BY IInvFacts, BoundsAssumption
<1>1. CASE ~ dup
  <2>1. SameSeats(os, os, AllRefs \ {x})
    BY DEF SameSeats
  <2>2. ASSUME NEW bs, \A k \in Locates : k # l => bs[k] = books[k]
        PROVE  Tells(bs, CheckTop(bs, last, l))
    <3>1. \A k \in Locates : k # l => TellsOf(bs, last, k)
      BY <2>2 DEF TellsOf
    <3> QED BY <1>a, <3>1, CheckTopTells
  <2>3. EvictionTold(Now, dup, os[x].locate, l) = last
    BY <1>1 DEF EvictionTold
  <2>4. Evicts(dup, x, l, Now, last)
    BY <1>a, <1>1, <2>1, <2>2 DEF Evicts, Now
  <2> QED BY <1>1, <2>3, <2>4
<1>2. CASE dup
  <2> DEFINE s == Dropped(Now, x)
             was == os[x].locate
             told == IF was # l THEN CheckTop(s.books, last, was) ELSE last
  <2>1. /\ Sound(s.os, s.books) /\ ~ Live(s.os, x) /\ was \in Locates
        /\ SameSeats(os, s.os, AllRefs \ {x})
        /\ \A k \in Locates : k # was => s.books[k] = books[k]
    <3>1. Live(os, x)
      BY <1>2
    <3>2. Drops(os, books, x, Dropped([os |-> os, books |-> books], x))
      BY ONLY <1>a, <3>1, x \in AllRefs, DroppedSound
    <3>3. Drops(os, books, x, s)
      BY <3>2 DEF Now
    <3> HIDE DEF s
    <3> QED BY <3>3 DEF Drops
  <2> HIDE DEF s
  <2>2. Housed(s.os, count)
    BY <1>a, <2>1, HousedStep DEF Sound
  <2>3. ASSUME NEW bs, \A k \in Locates : k # l => bs[k] = s.books[k]
        PROVE  Tells(bs, CheckTop(bs, told, l))
    <3>1. DOMAIN told = Locates /\ told = [k \in Locates |-> told[k]]
      BY <1>a DEF CheckTop
    <3>2. ~ track => told = last
      BY DEF CheckTop
    <3>3. ASSUME NEW k \in Locates, k # l PROVE TellsOf(bs, told, k)
      <4>1. CASE k # was
        <5>1. bs[k] = books[k]
          BY <2>1, <2>3, <3>3, <4>1
        <5>2. told[k] = last[k]
          BY <1>a, <2>1, <4>1 DEF CheckTop
        <5> QED BY <5>1, <5>2 DEF TellsOf
      <4>2. CASE k = was
        <5>1. track => told[k] = Bbo(s.books[k])
          BY <1>a, <3>3, <4>2 DEF CheckTop
        <5>2. ~ track => told[k] = last[k]
          BY <3>2
        <5>3. bs[k] = s.books[k]
          BY <2>3, <3>3
        <5> QED BY <5>1, <5>2, <5>3 DEF TellsOf
      <4> QED BY <4>1, <4>2
    <3> HIDE DEF told
    <3> QED BY <3>1, <3>2, <3>3, CheckTopTells
  <2>4. Evicts(dup, x, l, s, told)
    BY <1>2, <2>1, <2>2, <2>3 DEF Evicts
  <2>5. told = EvictionTold(s, dup, was, l)
    BY <1>2 DEF EvictionTold
  <2> HIDE DEF told
  <2> QED BY <1>2, <2>4, <2>5 DEF s
<1> QED BY <1>1, <1>2

\* The sets of earlier orders stay sets of references.
LEMMA AheadType ==
  ASSUME IInv, NEW gone
  PROVE  /\ Departed(gone) \in [AllRefs -> SUBSET AllRefs]
         /\ \A x : Arrived(gone, x) \in [AllRefs -> SUBSET AllRefs]
<1>1. ahead \in [AllRefs -> SUBSET AllRefs]
  BY IInvFacts
<1>2. Departed(gone) \in [AllRefs -> SUBSET AllRefs]
  BY <1>1 DEF Departed
<1>3. LiveRefs \ gone \in SUBSET AllRefs
  BY DEF LiveRefs
<1> QED BY <1>2, <1>3 DEF Arrived

\* What every message handler leaves: a sound state whose changes were told.
Handled ==
  /\ Sound(os', books') /\ Housed(os', count') /\ count' \in 0 .. MaxLocate + 1
  /\ Tells(books', last') /\ track' = track
  /\ ahead' \in [AllRefs -> SUBSET AllRefs]

\* A handler that changes none of them.
LEMMA Idle ==
  ASSUME IInv, UNCHANGED <<os, books, last, track, ahead>>,
         count' \in 0 .. MaxLocate + 1, count <= count'
  PROVE  Handled
<1>1. /\ Sound(os, books) /\ Housed(os, count) /\ last = [k \in Locates |-> last[k]]
      /\ DOMAIN last = Locates
      /\ ahead \in [AllRefs -> SUBSET AllRefs] /\ count \in 0 .. MaxLocate + 1
  BY IInvFacts
<1>2. Housed(os, count')
  <2>1. \A r \in AllRefs : Live(os, r) => os[r].locate < count /\ os[r].locate \in Nat
    BY <1>1, ConstantFacts DEF Housed, Sound, Stores, Order
  <2>2. count \in Nat /\ count' \in Nat
    BY <1>1, BoundsAssumption
  <2> QED BY <2>1, <2>2 DEF Housed
<1>3. Tells(books, last)
  BY <1>1 DEF Tells, TellsOf
<1> QED BY <1>1, <1>2, <1>3 DEF Handled

\* ensure() makes room and never takes any back.
LEMMA EnsureFacts ==
  ASSUME IInv, NEW l \in Locates, Ensure(l)
  PROVE  count' \in 0 .. MaxLocate + 1 /\ count <= count' /\ l < count'
<1>1. count \in 0 .. MaxLocate + 1 /\ l \in 0 .. MaxLocate /\ MaxLocate \in Nat
  BY IInvFacts, BoundsAssumption DEF Locates
<1> QED BY <1>1 DEF Ensure, Larger

\* on_add() leaves sound books and tells bbo of what it changed.
LEMMA AddHandled ==
  ASSUME IInv, NEW ref \in AllRefs, NEW l \in Locates, NEW buy \in BOOLEAN,
         NEW price \in Prices, NEW shares \in Sizes, OnAdd(ref, l, buy, price, shares)
  PROVE  Handled
<1>1. CASE ~ Accepts(ref, price, shares)
  <2>1. UNCHANGED <<os, books, count, last, track, ahead>>
    BY <1>1 DEF OnAdd, Untold
  <2>2. count' \in 0 .. MaxLocate + 1 /\ count <= count'
    BY <2>1, IInvFacts, BoundsAssumption
  <2> QED BY <2>1, <2>2, Idle
<1>2. CASE Accepts(ref, price, shares)
  <2> DEFINE dup  == Live(os, ref)
             was  == os[ref].locate
             s    == IF dup THEN Dropped(Now, ref) ELSE Now
             told == EvictionTold(s, dup, was, l)
             seat == [s.os[ref] EXCEPT !.qty = shares, !.locate = l, !.buy = buy]
             o    == [s.os EXCEPT ![ref] = seat]
             done == Add([os |-> o, book |-> s.books[l]], ref, price)
  <2>1. /\ os' = done.os /\ books' = [s.books EXCEPT ![l] = done.book]
        /\ last' = CheckTop(books', told, l) /\ track' = track
        /\ Ensure(l) /\ ahead' = Arrived({ref}, ref)
    BY <1>2 DEF OnAdd, Untold
  <2>2. /\ ref \in Refs /\ price \in Int /\ price > 0 /\ shares \in Nat /\ shares > 0
    BY <1>2, ConstantFacts DEF Accepts, AllRefs
  <2>3. Evicts(dup, ref, l, s, told)
    BY EvictedSound
  <2> HIDE DEF s, told
  <2>4. ~ Live(s.os, ref) /\ Sound(s.os, s.books) /\ Housed(s.os, count)
        /\ SameSeats(os, s.os, AllRefs \ {ref})
    BY <2>3 DEF Evicts
  <2>5. /\ seat \in Order(AllRefs, Locates) /\ seat.level = s.os[ref].level
        /\ seat.locate = l /\ seat.qty = shares
    <3>1. s.os[ref] \in Order(AllRefs, Locates)
      BY <2>4 DEF Sound, Stores
    <3> QED BY <2>2, <3>1 DEF Order
  <2> HIDE DEF seat
  <2>6. /\ Sound(o, s.books) /\ ~ Live(o, ref) /\ o[ref] = seat
        /\ SameSeats(s.os, o, AllRefs \ {ref})
    BY <2>4, <2>5, SeatSound
  <2> HIDE DEF o
  <2> DEFINE after == [done.os EXCEPT ![ref] = [@ EXCEPT !.locate = l]]
             bs == [s.books EXCEPT ![l] = done.book]
  <2>7. /\ Sound(after, bs) /\ SameSeats(o, after, AllRefs \ {ref}) /\ after[ref].locate = l
        /\ \A k \in Locates : k # l => bs[k] = s.books[k]
        /\ after = done.os
    <3>1. PutsIn(o, s.books, ref, l, done)
      BY <2>2, <2>5, <2>6, AddedSound
    <3> HIDE DEF done
    <3> QED BY <2>5, <2>6, <3>1 DEF PutsIn
  <2> HIDE DEF done, after, bs
  <2>8. os' = after /\ books' = bs
    BY <2>1, <2>7 DEF bs
  <2>9. count' \in 0 .. MaxLocate + 1 /\ count <= count' /\ l < count'
        /\ count \in Nat /\ count' \in Nat
    BY <2>1, EnsureFacts, IInvFacts, BoundsAssumption
  <2>10. Housed(after, count')
    <3>1. SameSeats(s.os, after, AllRefs \ {ref})
      BY <2>6, <2>7 DEF SameSeats
    <3> QED BY <2>4, <2>7, <2>9, <3>1, HousedStep DEF Sound
  <2>11. Tells(bs, CheckTop(bs, told, l))
    BY <2>3, <2>7 DEF Evicts
  <2>12. ahead' \in [AllRefs -> SUBSET AllRefs]
    BY <2>1, AheadType
  <2> QED BY <2>1, <2>7, <2>8, <2>9, <2>10, <2>11, <2>12 DEF Handled
<1> QED BY <1>1, <1>2

\* So do on_execute() and on_cancel(), which reduce the order they name.
LEMMA ReduceHandled ==
  ASSUME IInv, NEW ref \in AllRefs, NEW shares \in Sizes, NEW counter,
         ReduceOrder(ref, shares, counter), track' = track
  PROVE  Handled
<1>a. /\ Sound(os, books) /\ Housed(os, count)
      /\ DOMAIN last = Locates /\ last = [k \in Locates |-> last[k]]
      /\ count \in 0 .. MaxLocate + 1 /\ count \in Nat
      /\ ahead \in [AllRefs -> SUBSET AllRefs]
  BY IInvFacts, BoundsAssumption
<1>1. CASE ~ Live(os, ref)
  <2>1. UNCHANGED <<os, books, count, last, track, ahead>>
    BY <1>1 DEF ReduceOrder, MissingRef
  <2>2. count' \in 0 .. MaxLocate + 1 /\ count <= count'
    BY <1>a, <2>1
  <2> QED BY <2>1, <2>2, Idle
<1>2. CASE Live(os, ref)
  <2> DEFINE l    == os[ref].locate
             done == Reduce([os |-> os, book |-> books[l]], ref, shares)
             bs   == [books EXCEPT ![l] = done.book]
  <2>1. /\ os' = done.os /\ books' = bs /\ last' = CheckTop(books', last, l)
        /\ count' = count
        /\ ahead' = IF Taken(os, ref, shares) = os[ref].qty THEN Departed({ref}) ELSE ahead
    BY <1>2 DEF ReduceOrder
  <2>2. shares \in Nat
    BY ConstantFacts
  <2>3. /\ Sound(done.os, bs) /\ l \in Locates
        /\ SameSeats(os, done.os, AllRefs \ {ref})
        /\ Live(done.os, ref) => done.os[ref].locate = l
        /\ \A k \in Locates : k # l => bs[k] = books[k]
    BY <1>a, <1>2, <2>2, ReducedSound
  <2> HIDE DEF done, bs
  <2>4. Housed(done.os, count)
    <3>1. l < count
      BY <1>a, <1>2 DEF Housed
    <3> QED BY <1>a, <2>3, <3>1, HousedStep DEF Sound
  <2>5. Tells(bs, CheckTop(bs, last, l))
    <3>1. \A k \in Locates : k # l => TellsOf(bs, last, k)
      BY <2>3 DEF TellsOf
    <3> QED BY <1>a, <2>3, <3>1, CheckTopTells
  <2>6. ahead' \in [AllRefs -> SUBSET AllRefs]
    BY <1>a, <2>1, AheadType
  <2> QED BY <1>a, <2>1, <2>3, <2>4, <2>5, <2>6 DEF Handled
<1> QED BY <1>1, <1>2

\* So does on_delete().
LEMMA DeleteHandled ==
  ASSUME IInv, NEW ref \in AllRefs, OnDelete(ref)
  PROVE  Handled
<1>a. /\ Sound(os, books) /\ Housed(os, count)
      /\ DOMAIN last = Locates /\ last = [k \in Locates |-> last[k]]
      /\ count \in 0 .. MaxLocate + 1 /\ count \in Nat
  BY IInvFacts, BoundsAssumption
<1>1. CASE ~ Live(os, ref)
  <2>1. UNCHANGED <<os, books, count, last, track, ahead>>
    BY <1>1 DEF OnDelete, MissingRef, Untold
  <2>2. count' \in 0 .. MaxLocate + 1 /\ count <= count'
    BY <1>a, <2>1
  <2> QED BY <2>1, <2>2, Idle
<1>2. CASE Live(os, ref)
  <2> DEFINE l == os[ref].locate
             s == Dropped(Now, ref)
  <2>1. /\ os' = s.os /\ books' = s.books /\ last' = CheckTop(s.books, last, l)
        /\ count' = count /\ track' = track /\ ahead' = Departed({ref})
    BY <1>2 DEF OnDelete, Untold
  <2>2. Drops(os, books, ref, s)
    <3>1. Drops(os, books, ref, Dropped([os |-> os, books |-> books], ref))
      BY ONLY <1>a, <1>2, ref \in AllRefs, DroppedSound
    <3> QED BY <3>1 DEF Now
  <2> HIDE DEF s
  <2>3. /\ Sound(s.os, s.books) /\ ~ Live(s.os, ref) /\ l \in Locates
        /\ SameSeats(os, s.os, AllRefs \ {ref})
        /\ \A k \in Locates : k # l => s.books[k] = books[k]
    BY <2>2 DEF Drops
  <2>4. Housed(s.os, count)
    BY <1>a, <2>3, HousedStep DEF Sound
  <2>5. Tells(s.books, CheckTop(s.books, last, l))
    <3>1. \A k \in Locates : k # l => TellsOf(s.books, last, k)
      BY <2>3 DEF TellsOf
    <3> QED BY <1>a, <2>3, <3>1, CheckTopTells
  <2>6. ahead' \in [AllRefs -> SUBSET AllRefs]
    BY <2>1, AheadType
  <2> QED BY <1>a, <2>1, <2>3, <2>4, <2>5, <2>6 DEF Handled
<1> QED BY <1>1, <1>2

\* So does on_replace(), which ends one order and starts another.
LEMMA ReplaceHandled ==
  ASSUME IInv, NEW old \in AllRefs, NEW new \in AllRefs, NEW price \in Prices,
         NEW shares \in Sizes, OnReplace(old, new, price, shares)
  PROVE  Handled
<1>a. /\ Sound(os, books) /\ Housed(os, count)
      /\ count \in 0 .. MaxLocate + 1 /\ count \in Nat
  BY IInvFacts, BoundsAssumption
<1>1. CASE ~ Live(os, old)
  <2>1. UNCHANGED <<os, books, count, last, track, ahead>>
    BY <1>1 DEF OnReplace, MissingRef, Untold
  <2>2. count' \in 0 .. MaxLocate + 1 /\ count <= count'
    BY <1>a, <2>1
  <2> QED BY <2>1, <2>2, Idle
<1>2. CASE Live(os, old)
  <2> DEFINE l    == os[old].locate
             dup  == new # old /\ Live(os, new)
             was  == os[new].locate
             s    == IF dup THEN Dropped(Now, new) ELSE Now
             told == EvictionTold(s, dup, was, l)
             gone == Dropped(s, old)
             done == Replace([os |-> s.os, book |-> s.books[l]], old, new, shares, price)
             left == IF dup THEN {old, new} ELSE {old}
  <2>1. /\ \/ /\ ~ Accepts(new, price, shares)
              /\ os' = gone.os /\ books' = gone.books /\ ahead' = Departed(left)
           \/ /\ Accepts(new, price, shares)
              /\ os' = IF done.added THEN [done.st.os EXCEPT ![new] = [@ EXCEPT !.locate = l]]
                                     ELSE done.st.os
              /\ books' = [s.books EXCEPT ![l] = done.st.book]
              /\ ahead' = IF done.added THEN Arrived(left, new) ELSE Departed(left)
        /\ last' = CheckTop(books', told, l) /\ count' = count /\ track' = track
    BY <1>2 DEF OnReplace, Untold
  <2>2. l \in Locates /\ l < count
    BY <1>a, <1>2 DEF Sound, Stores, Order, Housed
  <2>3. Evicts(dup, new, l, s, told)
    BY <2>2, EvictedSound
  <2> HIDE DEF s, told
  <2>4. /\ Sound(s.os, s.books) /\ Housed(s.os, count)
        /\ SameSeats(os, s.os, AllRefs \ {new}) /\ (~ dup => s.os = os)
        /\ (dup => ~ Live(s.os, new))
    BY <2>3 DEF Evicts
  <2>5. Live(s.os, old) /\ s.os[old].locate = l
    BY <1>2, <2>4 DEF SameSeats, Live
  <2>6. new # old => ~ Live(s.os, new)
    BY <2>4
  <2>7. Drops(s.os, s.books, old, gone)
    <3>1. Drops(s.os, s.books, old, Dropped([os |-> s.os, books |-> s.books], old))
      BY ONLY <2>4, <2>5, old \in AllRefs, DroppedSound
    <3> QED BY <3>1 DEF Dropped
  <2> DEFINE st == Remove([os |-> s.os, book |-> s.books[l]], old)
  <2>8. gone.os = st.os /\ gone.books = [s.books EXCEPT ![l] = st.book]
    BY <2>5 DEF Dropped
  <2>8a. done = [st |-> Add([os |-> [st.os EXCEPT ![new] =
                                       [@ EXCEPT !.qty = shares, !.buy = s.os[old].buy]],
                             book |-> st.book], new, price), added |-> TRUE]
         \/ Live(st.os, new)
    BY DEF Replace
  <2> HIDE DEF gone, st, done
  <2>9. /\ Sound(gone.os, gone.books) /\ ~ Live(gone.os, old)
        /\ SameSeats(s.os, gone.os, AllRefs \ {old})
        /\ \A k \in Locates : k # l => gone.books[k] = s.books[k]
    BY <2>5, <2>7 DEF Drops
  <2>10. Housed(gone.os, count)
    BY <1>a, <2>4, <2>9, HousedStep DEF Sound
  <2>11. ahead' \in [AllRefs -> SUBSET AllRefs]
    BY <2>1, AheadType
  <2>12. CASE ~ Accepts(new, price, shares)
    <3>1. os' = gone.os /\ books' = gone.books
      BY <2>1, <2>12
    <3>2. Tells(gone.books, CheckTop(gone.books, told, l))
      BY <2>3, <2>9 DEF Evicts
    <3> QED BY <1>a, <2>1, <2>9, <2>10, <2>11, <3>1, <3>2 DEF Handled
  <2>13. CASE Accepts(new, price, shares)
    <3>1. /\ new \in Refs /\ price \in Int /\ price > 0 /\ shares \in Nat /\ shares > 0
      BY <2>13, ConstantFacts DEF Accepts, AllRefs
    <3>2. ~ Live(gone.os, new)
      BY <2>6, <2>9 DEF SameSeats, Live
    <3> DEFINE seat  == [st.os[new] EXCEPT !.qty = shares, !.buy = s.os[old].buy]
               o     == [st.os EXCEPT ![new] = seat]
               put   == Add([os |-> o, book |-> st.book], new, price)
               after == [put.os EXCEPT ![new] = [@ EXCEPT !.locate = l]]
               bs    == [s.books EXCEPT ![l] = put.book]
    <3>3. done = [st |-> put, added |-> TRUE]
      BY <2>8, <2>8a, <3>2
    <3>4. os' = after /\ books' = bs
      <4> HIDE DEF put
      <4> QED BY <2>1, <2>13, <3>3
    <3>5. /\ seat \in Order(AllRefs, Locates) /\ seat.level = st.os[new].level
          /\ seat.qty = shares
      <4>1. st.os[new] \in Order(AllRefs, Locates) /\ s.os[old].buy \in BOOLEAN
        BY <2>4, <2>8, <2>9 DEF Sound, Stores, Order
      <4> QED BY <3>1, <4>1 DEF Order
    <3> HIDE DEF seat
    <3>6. /\ Sound(o, gone.books) /\ ~ Live(o, new) /\ o[new] = seat
          /\ SameSeats(gone.os, o, AllRefs \ {new})
      <4>1. /\ Sound([gone.os EXCEPT ![new] = seat], gone.books)
            /\ ~ Live([gone.os EXCEPT ![new] = seat], new)
            /\ [gone.os EXCEPT ![new] = seat][new] = seat
            /\ SameSeats(gone.os, [gone.os EXCEPT ![new] = seat], AllRefs \ {new})
        BY <2>8, <2>9, <3>2, <3>5, SeatSound
      <4> QED BY <2>8, <4>1
    <3>7. /\ gone.books[l] = st.book /\ [gone.books EXCEPT ![l] = put.book] = bs
          /\ \A k \in Locates : k # l => bs[k] = s.books[k]
      <4> HIDE DEF put
      <4>1. DOMAIN s.books = Locates
        BY <2>4 DEF Sound
      <4> QED BY <2>2, <2>8, <4>1
    <3> HIDE DEF o
    <3>8. /\ Sound(after, bs) /\ SameSeats(o, after, AllRefs \ {new})
          /\ after[new].locate = l
      <4> DEFINE add == Add([os |-> o, book |-> gone.books[l]], new, price)
                 aft == [add.os EXCEPT ![new] = [@ EXCEPT !.locate = l]]
      <4>1. /\ Sound(aft, [gone.books EXCEPT ![l] = add.book])
            /\ SameSeats(o, aft, AllRefs \ {new}) /\ aft[new].locate = l
        <5>1. o[new].qty > 0
          BY <3>1, <3>5, <3>6
        <5>2. PutsIn(o, gone.books, new, l, add)
          BY ONLY <2>2, <3>1, <3>6, <5>1, AddedSound
        <5> HIDE DEF add
        <5> QED BY <5>2 DEF PutsIn
      <4>2. add = put
        BY <3>7
      <4> HIDE DEF add, put
      <4> QED BY <3>7, <4>1, <4>2
    <3> HIDE DEF after, bs
    <3>9. Housed(after, count)
      <4>1. SameSeats(gone.os, after, AllRefs \ {new})
        BY <3>6, <3>8 DEF SameSeats
      <4> QED BY <1>a, <2>2, <2>9, <2>10, <3>8, <4>1, HousedStep DEF Sound
    <3>10. Tells(bs, CheckTop(bs, told, l))
      BY <2>3, <3>7 DEF Evicts
    <3> QED BY <1>a, <2>1, <2>11, <3>4, <3>8, <3>9, <3>10 DEF Handled
  <2> QED BY <2>12, <2>13
<1> QED BY <1>1, <1>2

-----------------------------------------------------------------------------
(* Every step.                                                             *)

\* The variables no book depends on keep their types.
RestOK ==
  /\ symbols \in [Locates -> Symbols \cup {Blank}]
  /\ state \in [Locates -> States \cup {Blank}]
  /\ track \in BOOLEAN /\ evicted \in Locates /\ counted \subseteq Counters

\* The counters, the flags and the selection keep their types whatever is handled.
LEMMA RestStep ==
  ASSUME IInv, [Next]_vars
  PROVE  RestOK'
<1>a. RestOK
  BY DEF IInv, TypeOK, RestOK
<1>b. os \in [AllRefs -> Order(AllRefs, Locates)]
  BY DEF IInv, TypeOK
<1>c. \A r \in AllRefs : os[r].locate \in Locates
  BY <1>b DEF Order
<1> USE DEF RestOK, Untold, MissingRef, Counters
<1>1. ASSUME NEW ref \in AllRefs, NEW l \in Locates, NEW buy \in BOOLEAN,
             NEW price \in Prices, NEW shares \in Sizes, OnAdd(ref, l, buy, price, shares)
      PROVE  RestOK'
  BY <1>a, <1>c, <1>1 DEF OnAdd
<1>2. ASSUME NEW ref \in AllRefs, NEW shares \in Sizes, NEW counter \in {"executes", "cancels"},
             ReduceOrder(ref, shares, counter), Untold
      PROVE  RestOK'
  BY <1>a, <1>2 DEF ReduceOrder
<1>3. ASSUME NEW ref \in AllRefs, OnDelete(ref)
      PROVE  RestOK'
  BY <1>a, <1>3 DEF OnDelete
<1>4. ASSUME NEW old \in AllRefs, NEW new \in AllRefs, NEW price \in Prices,
             NEW shares \in Sizes, OnReplace(old, new, price, shares)
      PROVE  RestOK'
  <2>1. Untold
    BY <1>4 DEF OnReplace
  <2>2. evicted' \in Locates
    <3>1. evicted' = evicted \/ evicted' = os[new].locate
      BY <1>4 DEF OnReplace
    <3> QED BY <1>a, <1>c, <3>1
  <2>3. \/ counted' = {"missing_ref"}
        \/ counted' \subseteq {"rejected", "dup_ref"}
        \/ counted' \subseteq {"replaces", "dup_ref"}
    BY <1>4 DEF OnReplace
  <2> QED BY <1>a, <2>1, <2>2, <2>3
<1>5. ASSUME NEW source, NEW l, NEW price, NEW shares, OnPrint(source, l, price, shares)
      PROVE  RestOK'
  BY <1>a, <1>5 DEF OnPrint
<1>6. ASSUME NEW l \in Locates, NEW symbol \in Symbols, OnStockDirectory(l, symbol)
      PROVE  RestOK'
  BY <1>a, <1>6 DEF OnStockDirectory
<1>7. ASSUME NEW l \in Locates, NEW now \in States, OnTradingAction(l, now)
      PROVE  RestOK'
  BY <1>a, <1>7 DEF OnTradingAction
<1>8. ASSUME NEW l \in Locates, Reserve(l)
      PROVE  RestOK'
  BY <1>a, <1>8 DEF Reserve
<1>9. ASSUME NEW on \in Toggles, TrackBbo(on)
      PROVE  RestOK'
  BY <1>a, <1>9, FlagsAssumption DEF TrackBbo
<1>10. CASE UNCHANGED vars
  BY <1>a, <1>10 DEF vars
<1> QED BY <1>1, <1>2, <1>3, <1>4, <1>5, <1>6, <1>7, <1>8, <1>9, <1>10
        DEF Next, OnExecute, OnExecutePrice, OnCancel

\* Every step is handled, or only turns tracking on or off.
LEMMA StepHandled ==
  ASSUME IInv, [Next]_vars
  PROVE  Handled \/ \E on \in Toggles : TrackBbo(on)
<1>a. count \in 0 .. MaxLocate + 1 /\ count <= count
  BY IInvFacts, BoundsAssumption
<1>1. ASSUME NEW ref \in AllRefs, NEW shares \in Sizes, NEW counter,
             ReduceOrder(ref, shares, counter), Untold
      PROVE  Handled
  <2>1. track' = track
    BY <1>1 DEF Untold
  <2> QED BY <1>1, <2>1, ReduceHandled
<1>2. ASSUME NEW source, NEW l, NEW price, NEW shares, OnPrint(source, l, price, shares)
      PROVE  Handled
  <2>1. UNCHANGED <<os, books, count, last, track, ahead>>
    BY <1>2 DEF OnPrint
  <2> QED BY <1>a, <2>1, Idle
<1>3. ASSUME NEW l \in Locates, NEW symbol, OnStockDirectory(l, symbol)
      PROVE  Handled
  <2>1. Ensure(l) /\ UNCHANGED <<os, books, last, track, ahead>>
    BY <1>3 DEF OnStockDirectory
  <2> QED BY <2>1, EnsureFacts, Idle
<1>4. ASSUME NEW l \in Locates, NEW now, OnTradingAction(l, now)
      PROVE  Handled
  <2>1. Ensure(l) /\ UNCHANGED <<os, books, last, track, ahead>>
    BY <1>4 DEF OnTradingAction
  <2> QED BY <2>1, EnsureFacts, Idle
<1>5. ASSUME NEW l \in Locates, Reserve(l)
      PROVE  Handled
  <2>1. Ensure(l) /\ UNCHANGED <<os, books, last, track, ahead>>
    BY <1>5 DEF Reserve
  <2> QED BY <2>1, EnsureFacts, Idle
<1>6. CASE UNCHANGED vars
  <2>1. UNCHANGED <<os, books, count, last, track, ahead>>
    BY <1>6 DEF vars
  <2> QED BY <1>a, <2>1, Idle
<1> QED BY <1>1, <1>2, <1>3, <1>4, <1>5, <1>6, AddHandled, DeleteHandled, ReplaceHandled
        DEF Next, OnExecute, OnExecutePrice, OnCancel

\* A handled step keeps the invariant.
LEMMA HandledInvariant ==
  ASSUME IInv, Handled, RestOK'
  PROVE  IInv'
<1>1. ASSUME NEW l \in Locates PROVE InPlace(AllRefs, os', l, books'[l])
  BY DEF Handled, Sound
<1>2. books' \in [Locates -> BookType(AllRefs)]
  <2>1. \A l \in Locates : books'[l] \in BookType(AllRefs)
    BY <1>1 DEF InPlace, IsBook
  <2> QED BY <2>1 DEF Handled, Sound
<1>3. os' \in [AllRefs -> Order(AllRefs, Locates)]
  BY DEF Handled, Sound, Stores
<1>4. OrdersPlaced'
  <2>1. \A r \in AllRefs : Live(os', r) => r \in Refs /\ os'[r].qty > 0 /\ os'[r].locate < count'
    BY DEF Handled, Sound, Housed
  <2> QED BY <1>1, <2>1 DEF OrdersPlaced, LiveRefs, InPlace
<1>5. Ladders' /\ HandlesPartitioned' /\ LevelTotals'
  BY <1>1 DEF Ladders, HandlesPartitioned, LevelTotals, InPlace, IsBook
<1>6. last' \in [Locates -> TopType]
  <2>1. last \in [Locates -> TopType]
    BY DEF IInv, TypeOK
  <2>2. \A k \in Locates : last'[k] \in TopType
    <3> TAKE k \in Locates
    <3>1. Bbo(books'[k]) \in TopType
      BY <1>1, BboType DEF InPlace
    <3> QED BY <2>1, <3>1 DEF Handled, Tells, TellsOf
  <2> QED BY <2>2 DEF Handled, Tells
<1>7. TypeOK'
  BY <1>2, <1>3, <1>6 DEF TypeOK, RestOK, Handled
<1> QED BY <1>4, <1>5, <1>7 DEF IInv

\* A manager with no message behind it satisfies the invariant.
LEMMA InitInvariant ==
  ASSUME Init
  PROVE  IInv
<1>1. /\ EmptyBook \in BookType(AllRefs)
      /\ Laddered(EmptyBook) /\ HandlesOwned(EmptyBook) /\ OpenLevels(EmptyBook) = {}
  BY DEF EmptyBook, BookType, Laddered, HandlesOwned, OpenLevels, Listed, Handles
<1>2. NoOrder \in Order(AllRefs, Locates) /\ NoOrder.level = Nil
  BY ConstantFacts DEF NoOrder, Order, Nil
<1>3. \A r \in AllRefs : ~ Live(os, r)
  BY <1>2 DEF Init, Live
<1>4. OrdersPlaced
  BY <1>3 DEF OrdersPlaced, LiveRefs, OrdersListed, Live, Init
<1>5. Ladders /\ HandlesPartitioned /\ LevelTotals
  BY <1>1 DEF Ladders, HandlesPartitioned, LevelTotals, OrdersCounted, SharesSummed, Init
<1>6. Bbo(EmptyBook) \in TopType
  <2>1. IsBook(AllRefs, EmptyBook)
    BY <1>1 DEF IsBook
  <2> QED BY <2>1, BboType
<1>7. TypeOK
  <2>1. os \in [AllRefs -> Order(AllRefs, Locates)] /\ books \in [Locates -> BookType(AllRefs)]
    BY <1>1, <1>2 DEF Init
  <2>2. last \in [Locates -> TopType]
    <3> DEFINE none == Bbo(EmptyBook)
    <3>1. last = [l \in Locates |-> none]
      BY DEF Init
    <3> HIDE DEF none
    <3> QED BY <1>6, <3>1 DEF none
  <2>3. /\ count \in 0 .. MaxLocate + 1 /\ evicted \in Locates /\ counted \subseteq Counters
        /\ track \in BOOLEAN /\ ahead \in [AllRefs -> SUBSET AllRefs]
        /\ symbols \in [Locates -> Symbols \cup {Blank}]
        /\ state \in [Locates -> States \cup {Blank}]
    BY ConstantFacts, BoundsAssumption DEF Init
  <2> QED BY <2>1, <2>2, <2>3 DEF TypeOK
<1> QED BY <1>4, <1>5, <1>7 DEF IInv

\* Every message keeps the invariant.
LEMMA StepInvariant ==
  ASSUME IInv, [Next]_vars
  PROVE  IInv'
<1>1. CASE Handled
  BY <1>1, RestStep, HandledInvariant
<1>2. ASSUME NEW on \in Toggles, TrackBbo(on) PROVE IInv'
  <2>1. UNCHANGED <<os, books, count, ahead>>
    BY <1>2 DEF TrackBbo
  <2>2. last' \in [Locates -> TopType]
    <3>1. last \in [Locates -> TopType]
      BY DEF IInv, TypeOK
    <3>2. Bbo(EmptyBook) \in TopType
      <4>1. IsBook(AllRefs, EmptyBook)
        BY DEF IsBook, EmptyBook, BookType, Laddered, HandlesOwned, OpenLevels, Listed, Handles
      <4> QED BY <4>1, BboType
    <3> DEFINE none == Bbo(EmptyBook)
    <3>3. last' = IF on /\ ~ track THEN [l \in Locates |-> none] ELSE last
      BY <1>2 DEF TrackBbo
    <3> HIDE DEF none
    <3> QED BY <3>1, <3>2, <3>3 DEF none
  <2>3. RestOK'
    BY RestStep
  <2>4. TypeOK'
    BY <2>1, <2>2, <2>3 DEF IInv, TypeOK, RestOK
  <2>5. OrdersPlaced' /\ Ladders' /\ HandlesPartitioned' /\ LevelTotals'
    BY <2>1 DEF IInv, OrdersPlaced, Ladders, HandlesPartitioned, LevelTotals, LiveRefs
  <2> QED BY <2>4, <2>5 DEF IInv
<1> QED BY <1>1, <1>2, StepHandled

\* What the books show is told as it changes, or tracking was just turned on.
LEMMA StepToldTop ==
  ASSUME IInv, ToldTop, [Next]_vars
  PROVE  ToldTop'
<1>1. CASE Handled
  <2>1. track' = track /\ \A k \in Locates : TellsOf(books', last', k)
    BY <1>1 DEF Handled, Tells
  <2> QED BY <2>1 DEF ToldTop, TellsOf
<1>2. ASSUME NEW on \in Toggles, TrackBbo(on) PROVE ToldTop'
  <2>1. /\ books' = books /\ track' = on /\ on \in BOOLEAN /\ track \in BOOLEAN
        /\ last' = IF on /\ ~ track THEN [l \in Locates |-> Bbo(EmptyBook)] ELSE last
    BY <1>2, FlagsAssumption DEF TrackBbo, IInv, TypeOK
  <2> QED BY <2>1 DEF ToldTop
<1> QED BY <1>1, <1>2, StepHandled

\* While tracking stays on, what was last told of a locate is told again when it moves.
LEMMA StepReports ==
  ASSUME IInv, [Next]_vars, NEW l \in Locates, track, track', last[l] = Bbo(books[l])
  PROVE  last'[l] = Bbo(books'[l])
<1>1. CASE Handled
  <2>1. TellsOf(books', last', l)
    BY <1>1 DEF Handled, Tells
  <2> QED BY <2>1 DEF TellsOf
<1>2. ASSUME NEW on \in Toggles, TrackBbo(on) PROVE last'[l] = Bbo(books'[l])
  BY <1>2 DEF TrackBbo
<1> QED BY <1>1, <1>2, StepHandled

-----------------------------------------------------------------------------
(* The theorems.                                                           *)

\* The strengthening that is inductive.
THEOREM Invariant == Spec => []IInv
<1>1. Init => IInv
  BY InitInvariant
<1>2. IInv /\ [Next]_vars => IInv'
  BY StepInvariant
<1> QED BY <1>1, <1>2, PTL DEF Spec

\* Every variable keeps its shape, whatever the feed carries.
THEOREM TypeCorrect == Spec => []TypeOK
<1>1. IInv => TypeOK
  BY DEF IInv
<1> QED BY <1>1, Invariant, PTL

\* books_[o->locate] and levels_[o->level] are never indexed out of range by a
\* live order, and a level an order names is one its side lists.
THEOREM OrdersStayPlaced == Spec => []OrdersPlaced
<1>1. IInv => OrdersPlaced
  BY DEF IInv
<1> QED BY <1>1, Invariant, PTL

\* Every side of every book stays sorted and agrees with its levels.
THEOREM LaddersStaySorted == Spec => []Ladders
<1>1. IInv => Ladders
  BY DEF IInv
<1> QED BY <1>1, Invariant, PTL

\* No level handle is ever lost, freed twice or listed twice.
THEOREM HandlesStayPartitioned == Spec => []HandlesPartitioned
<1>1. IInv => HandlesPartitioned
  BY DEF IInv
<1> QED BY <1>1, Invariant, PTL

\* Every level's order count and shares are those of the orders in its queue, and
\* no level without orders is listed.
THEOREM LevelTotalsHold == Spec => []LevelTotals
<1>1. IInv => LevelTotals
  BY DEF IInv
<1> QED BY <1>1, Invariant, PTL

\* What was last reported for a book is what it shows, or nothing.
THEOREM ToldTopHolds == Spec => []ToldTop
<1>1. Init => ToldTop
  BY DEF Init, ToldTop
<1>2. IInv /\ ToldTop /\ [Next]_vars => ToldTop'
  BY StepToldTop
<1> QED BY <1>1, <1>2, Invariant, PTL DEF Spec

\* No step changes a reported top without reporting the change.
THEOREM TopsAlwaysReported == Spec => TopsReported
<1>1. IInv /\ [Next]_vars =>
        [\A l \in Locates : track /\ track' /\ last[l] = Bbo(books[l])
                            => last'[l] = Bbo(books'[l])]_vars
  BY StepReports
<1> QED BY <1>1, Invariant, PTL DEF Spec, TopsReported

-----------------------------------------------------------------------------
(* One queue: orders q of store o, linked in the order a of their arrival. *)

First(x, q, a) == IF q = {} THEN x = NilRef
                  ELSE x \in q /\ \A y \in q : y = x \/ x \in a[y]
Final(x, q, a) == IF q = {} THEN x = NilRef
                  ELSE x \in q /\ \A y \in q : y = x \/ y \in a[x]

Earlier(q, a, r) == {y \in q : y \in a[r]}
Later(q, a, r)   == {y \in q : r \in a[y]}

Threaded(o, a, q, head, tail) ==
  /\ First(head, q, a) /\ Final(tail, q, a)
  /\ \A r \in q : /\ Final(o[r].prev, Earlier(q, a, r), a)
                  /\ First(o[r].next, Later(q, a, r), a)

\* The orders of q arrived one after another.
Ranked(q, a) ==
  /\ NilRef \notin q
  /\ \A r \in q : r \notin a[r]
  /\ \A r, x \in q : r # x => r \in a[x] \/ x \in a[r]
  /\ \A r, x, y \in q : r \in a[x] /\ x \in a[y] => r \in a[y]

\* Only the links of its orders and their order among themselves matter to a queue.
LEMMA FrameThreaded ==
  ASSUME NEW o, NEW a, NEW q, NEW hd, NEW tl, Threaded(o, a, q, hd, tl),
         NEW p, \A r \in q : p[r].prev = o[r].prev /\ p[r].next = o[r].next,
         NEW c, \A r, y \in q : y \in c[r] <=> y \in a[r]
  PROVE  Threaded(p, c, q, hd, tl)
<1>1. \A r \in q : Earlier(q, c, r) = Earlier(q, a, r) /\ Later(q, c, r) = Later(q, a, r)
  BY DEF Earlier, Later
<1>2. \A x, s : s \subseteq q => (First(x, s, c) <=> First(x, s, a))
                              /\ (Final(x, s, c) <=> Final(x, s, a))
  BY DEF First, Final
<1>3. \A r \in q : Earlier(q, a, r) \subseteq q /\ Later(q, a, r) \subseteq q
  BY DEF Earlier, Later
<1> QED BY <1>1, <1>2, <1>3 DEF Threaded

\* An order leaves: tying its neighbours to each other keeps the queue threaded.
LEMMA Unthread ==
  ASSUME NEW o, NEW a, NEW q, Ranked(q, a), NEW hd, NEW tl, Threaded(o, a, q, hd, tl),
         NEW x \in q,
         NEW p, \A r \in q \ {x} :
                  /\ p[r].prev = IF r = o[x].next THEN o[x].prev ELSE o[r].prev
                  /\ p[r].next = IF r = o[x].prev THEN o[x].next ELSE o[r].next,
         NEW c, \A r, y \in q \ {x} : y \in c[r] <=> y \in a[r]
  PROVE  Threaded(p, c, q \ {x}, IF o[x].prev = NilRef THEN o[x].next ELSE hd,
                                 IF o[x].next = NilRef THEN o[x].prev ELSE tl)
<1> DEFINE w == q \ {x}
           prev == o[x].prev
           next == o[x].next
<1>a. /\ Final(prev, Earlier(q, a, x), a) /\ First(next, Later(q, a, x), a)
      /\ First(hd, q, a) /\ Final(tl, q, a)
  BY DEF Threaded
<1>b. \A r \in w : /\ Final(o[r].prev, Earlier(q, a, r), a)
                   /\ First(o[r].next, Later(q, a, r), a)
  BY DEF Threaded
<1>c. /\ NilRef \notin q
      /\ \A r \in q : r \notin a[r]
      /\ \A r, y \in q : r # y => r \in a[y] \/ y \in a[r]
      /\ \A r, y, z \in q : r \in a[y] /\ y \in a[z] => r \in a[z]
  BY DEF Ranked
<1>1. prev = NilRef => Earlier(q, a, x) = {} /\ Later(q, a, x) = w
  BY <1>a, <1>c DEF Final, Earlier, Later
<1>2. next = NilRef => Later(q, a, x) = {} /\ Earlier(q, a, x) = w
  BY <1>a, <1>c DEF First, Earlier, Later
<1>3. First(IF prev = NilRef THEN next ELSE hd, w, a)
  <2>1. CASE prev = NilRef
    BY <1>a, <1>1, <2>1
  <2>2. CASE prev # NilRef
    <3>1. prev \in q /\ prev \in a[x]
      BY <1>a, <2>2 DEF Final, Earlier
    <3>2. hd \in q /\ \A y \in q : y = hd \/ hd \in a[y]
      BY <1>a DEF First
    <3>3. hd # x
      BY <1>c, <3>1, <3>2
    <3> QED BY <2>2, <3>2, <3>3 DEF First
  <2> QED BY <2>1, <2>2
<1>4. Final(IF next = NilRef THEN prev ELSE tl, w, a)
  <2>1. CASE next = NilRef
    BY <1>a, <1>2, <2>1
  <2>2. CASE next # NilRef
    <3>1. next \in q /\ x \in a[next]
      BY <1>a, <2>2 DEF First, Later
    <3>2. tl \in q /\ \A y \in q : y = tl \/ y \in a[tl]
      BY <1>a DEF Final
    <3>3. tl # x
      BY <1>c, <3>1, <3>2
    <3> QED BY <2>2, <3>2, <3>3 DEF Final
  <2> QED BY <2>1, <2>2
<1>5. ASSUME NEW r \in w PROVE Final(p[r].prev, Earlier(w, a, r), a)
  <2>1. CASE r = next
    <3>1. x \in a[r] /\ \A y \in q : x \in a[y] => y = r \/ r \in a[y]
      BY <1>a, <1>c, <1>5, <2>1 DEF First, Later
    <3>2. Earlier(w, a, r) = Earlier(q, a, x)
      <4>1. ASSUME NEW y \in w, y \in a[r] PROVE y \in a[x]
        BY <1>c, <1>5, <3>1, <4>1
      <4>2. ASSUME NEW y \in q, y \in a[x] PROVE y # x /\ y \in a[r]
        BY <1>c, <1>5, <3>1, <4>2
      <4> QED BY <4>1, <4>2 DEF Earlier
    <3> QED BY <1>a, <1>5, <2>1, <3>2
  <2>2. CASE r # next
    <3>1. p[r].prev = o[r].prev
      BY <1>5, <2>2
    <3>2. Earlier(w, a, r) = Earlier(q, a, r) \ {x}
      BY DEF Earlier
    <3>3. o[r].prev # x
      <4> SUFFICES ASSUME o[r].prev = x PROVE FALSE
        OBVIOUS
      <4>1. x \in Earlier(q, a, r) /\ \A y \in Earlier(q, a, r) : y = x \/ y \in a[x]
        BY <1>b, <1>c, <1>5 DEF Final
      <4>2. r \in Later(q, a, x)
        BY <1>5, <4>1 DEF Earlier, Later
      <4>3. next \in Later(q, a, x) /\ next \in a[r]
        BY <1>a, <2>2, <4>2 DEF First
      <4>4. next \in q /\ x \in a[next]
        BY <4>3 DEF Later
      <4>5. next = x \/ next \in a[x]
        BY <4>1, <4>3, <4>4 DEF Earlier
      <4> QED BY <1>c, <4>4, <4>5
    <3>4. Final(o[r].prev, Earlier(q, a, r), a)
      BY <1>b, <1>5
    <3> QED BY <3>1, <3>2, <3>3, <3>4 DEF Final, Earlier
  <2> QED BY <2>1, <2>2
<1>6. ASSUME NEW r \in w PROVE First(p[r].next, Later(w, a, r), a)
  <2>1. CASE r = prev
    <3>1. r \in a[x] /\ \A y \in q : y \in a[x] => y = r \/ y \in a[r]
      BY <1>a, <1>c, <1>6, <2>1 DEF Final, Earlier
    <3>2. Later(w, a, r) = Later(q, a, x)
      <4>1. ASSUME NEW y \in w, r \in a[y] PROVE x \in a[y]
        BY <1>c, <1>6, <3>1, <4>1
      <4>2. ASSUME NEW y \in q, x \in a[y] PROVE y # x /\ r \in a[y]
        BY <1>c, <1>6, <3>1, <4>2
      <4> QED BY <4>1, <4>2 DEF Later
    <3> QED BY <1>a, <1>6, <2>1, <3>2
  <2>2. CASE r # prev
    <3>1. p[r].next = o[r].next
      BY <1>6, <2>2
    <3>2. Later(w, a, r) = Later(q, a, r) \ {x}
      BY DEF Later
    <3>3. o[r].next # x
      <4> SUFFICES ASSUME o[r].next = x PROVE FALSE
        OBVIOUS
      <4>1. x \in Later(q, a, r) /\ \A y \in Later(q, a, r) : y = x \/ x \in a[y]
        BY <1>b, <1>c, <1>6 DEF First
      <4>2. r \in Earlier(q, a, x)
        BY <1>6, <4>1 DEF Earlier, Later
      <4>3. prev \in Earlier(q, a, x) /\ r \in a[prev]
        BY <1>a, <2>2, <4>2 DEF Final
      <4>4. prev \in q /\ prev \in a[x]
        BY <4>3 DEF Earlier
      <4>5. prev = x \/ x \in a[prev]
        BY <4>1, <4>3, <4>4 DEF Later
      <4> QED BY <1>c, <4>4, <4>5
    <3>4. First(o[r].next, Later(q, a, r), a)
      BY <1>b, <1>6
    <3> QED BY <3>1, <3>2, <3>3, <3>4 DEF First, Later
  <2> QED BY <2>1, <2>2
<1>7. Threaded(p, a, w, IF prev = NilRef THEN next ELSE hd,
                        IF next = NilRef THEN prev ELSE tl)
  BY <1>3, <1>4, <1>5, <1>6 DEF Threaded
<1> QED BY <1>7, FrameThreaded

\* An order joins behind everybody: linked to the tail, it is the new one.
LEMMA Thread ==
  ASSUME NEW o, NEW a, NEW q, Ranked(q, a), NEW hd, NEW tl, Threaded(o, a, q, hd, tl),
         NEW x, x \notin q, x # NilRef,
         NEW p, p[x].prev = tl, p[x].next = NilRef,
         \A r \in q : /\ p[r].prev = o[r].prev
                      /\ r = tl => p[r].next = x
                      /\ r # tl => p[r].next = o[r].next,
         NEW c, \A r, y \in q : y \in c[r] <=> y \in a[r],
         \A r \in q : r \in c[x] /\ x \notin c[r], x \notin c[x]
  PROVE  \A head : /\ tl = NilRef => head = x
                   /\ tl # NilRef => head = hd
                   => Threaded(p, c, q \cup {x}, head, x)
<1> DEFINE w == q \cup {x}
<1>a. /\ First(hd, q, c) /\ Final(tl, q, c)
      /\ \A r \in q : /\ Final(o[r].prev, Earlier(q, c, r), c)
                      /\ First(o[r].next, Later(q, c, r), c)
  BY FrameThreaded DEF Threaded
<1>b. /\ NilRef \notin q /\ \A r \in q : r \notin c[r]
      /\ \A r, y, z \in q : r \in c[y] /\ y \in c[z] => r \in c[z]
  BY DEF Ranked
<1>1. First(IF tl = NilRef THEN x ELSE hd, w, c) /\ Final(x, w, c)
  BY <1>a, <1>b DEF First, Final
<1>2. Final(p[x].prev, Earlier(w, c, x), c) /\ First(p[x].next, Later(w, c, x), c)
  <2>1. Earlier(w, c, x) = q /\ Later(w, c, x) = {}
    BY DEF Earlier, Later
  <2> QED BY <1>a, <2>1 DEF First
<1>3. ASSUME NEW r \in q PROVE Final(p[r].prev, Earlier(w, c, r), c)
  <2>1. Earlier(w, c, r) = Earlier(q, c, r)
    BY <1>3 DEF Earlier
  <2> QED BY <1>a, <1>3, <2>1
<1>4. ASSUME NEW r \in q PROVE First(p[r].next, Later(w, c, r), c)
  <2>1. Later(w, c, r) = Later(q, c, r) \cup {x}
    BY <1>4 DEF Later
  <2>2. CASE r = tl
    <3>1. \A y \in q : y = r \/ y \in c[r]
      BY <1>a, <1>4, <2>2 DEF Final
    <3>2. Later(q, c, r) = {}
      BY <1>b, <1>4, <3>1 DEF Later
    <3> QED BY <1>4, <2>1, <2>2, <3>2 DEF First
  <2>3. CASE r # tl
    <3>1. tl \in q /\ r \in c[tl]
      BY <1>a, <1>4, <2>3 DEF Final
    <3>2. tl \in Later(q, c, r)
      BY <3>1 DEF Later
    <3>3. o[r].next \in Later(q, c, r)
          /\ \A y \in Later(q, c, r) : y = o[r].next \/ o[r].next \in c[y]
      BY <1>a, <1>4, <3>2 DEF First
    <3>4. o[r].next \in q /\ p[r].next = o[r].next
      BY <1>4, <2>3, <3>3 DEF Later
    <3> QED BY <2>1, <3>3, <3>4 DEF First
  <2> QED BY <2>2, <2>3
<1> QED BY <1>1, <1>2, <1>3, <1>4 DEF Threaded

-----------------------------------------------------------------------------
(* What the operations of a book do to the ends and the keys of its levels *)
(* and to the links of its orders.                                         *)

\* Book c is b after order x of store o was unlinked from its level.
TiedPast(b, c, o, x) ==
  LET h == o[x].level
  IN /\ \A g \in Handles(b) : /\ c.levels[g].key = b.levels[g].key
                              /\ g # h => c.levels[g] = b.levels[g]
     /\ c.levels[h].head = IF o[x].prev = NilRef THEN o[x].next ELSE b.levels[h].head
     /\ c.levels[h].tail = IF o[x].next = NilRef THEN o[x].prev ELSE b.levels[h].tail
     /\ OpenLevels(c) \subseteq OpenLevels(b)

\* remove() ties what stood on both sides of the order, in the store and in its level.
LEMMA RemoveTies ==
  ASSUME NEW refs, IsFiniteSet(refs), NilRef \in refs, NEW locates,
         NEW o \in Stores(refs, locates), NEW l, NEW b, InPlace(refs, o, l, b),
         NEW x \in refs, AtBook(o, x, l)
  PROVE  LET st == Remove([os |-> o, book |-> b], x)
         IN st.os = Unlinked(o, x) /\ TiedPast(b, st.book, o, x)
<1> DEFINE st == Remove([os |-> o, book |-> b], x)
           h == o[x].level
           lv == b.levels[h]
           hd == IF o[x].prev = NilRef THEN o[x].next ELSE lv.head
           tl == IF o[x].next = NilRef THEN o[x].prev ELSE lv.tail
           sh == lv.shares - o[x].qty
           n  == lv.orders - 1
           left == [lv EXCEPT !.shares = sh, !.orders = n, !.head = hd, !.tail = tl]
           d == WithLevel(b, h, left)
           c == st.book
<1>1. /\ o[x] \in Order(refs, locates) /\ o[x].buy \in BOOLEAN
      /\ h \in Listed(b, o[x].buy) /\ h \in Handles(b) /\ lv \in Level(refs)
      /\ IsBook(refs, b)
  BY SeatFacts DEF InPlace
<1>2. st.os = Unlinked(o, x) /\ (c = EraseLevel(d, h) \/ c = d)
  BY DEF Remove
<1>3. left \in Level(refs) /\ left.key = lv.key /\ left.head = hd /\ left.tail = tl
  <2>1. hd \in refs /\ tl \in refs /\ sh \in Int /\ n \in Int
    BY <1>1 DEF Order, Level
  <2> HIDE DEF hd, tl, sh, n, lv
  <2> QED BY <1>1, <2>1 DEF Level
<1> HIDE DEF st, left
<1>4. /\ IsBook(refs, d) /\ Handles(d) = Handles(b) /\ d.levels[h] = left
      /\ \A g \in Handles(b) : g # h => d.levels[g] = b.levels[g]
      /\ \A side \in BOOLEAN : Listed(d, side) = Listed(b, side)
      /\ OpenLevels(d) = OpenLevels(b)
  BY <1>1, <1>3, RetotalFacts
<1> HIDE DEF d
<1>5. /\ EraseLevel(d, h).levels = d.levels
      /\ \A side \in BOOLEAN : Listed(EraseLevel(d, h), side) = Listed(d, side) \ {h}
  <2> HIDE DEF h
  <2>1. h \in Listed(d, o[x].buy)
    BY <1>1, <1>4
  <2> QED BY <1>1, <1>4, <2>1, EraseLevelFacts
<1>6. c.levels = d.levels /\ OpenLevels(c) \subseteq OpenLevels(b)
  BY <1>2, <1>4, <1>5 DEF OpenLevels
<1> HIDE DEF c
<1> QED BY <1>2, <1>3, <1>4, <1>6 DEF TiedPast, st, c

\* Order x was put at the back of level h: p and c are o and b afterwards.
TiedOn(b, c, o, p, x, h, key) ==
  LET back == IF h \in OpenLevels(b) THEN b.levels[h].tail ELSE NilRef
  IN /\ h = p[x].level /\ h # Nil /\ c.levels[h].key = key
     /\ \A g \in Handles(b) : g # h => c.levels[g] = b.levels[g]
     /\ h \in OpenLevels(b) => b.levels[h].key = key
     /\ OpenLevels(c) = OpenLevels(b) \cup {h}
     /\ c.levels[h].tail = x
     /\ back = NilRef => c.levels[h].head = x
     /\ back # NilRef => c.levels[h].head = b.levels[h].head
     /\ p[x].prev = back /\ p[x].next = NilRef
     /\ \A r \in DOMAIN o \ {x} : /\ p[r].prev = o[r].prev
                                  /\ p[r].next = IF r = back /\ r # NilRef THEN x ELSE o[r].next

\* add() puts the order behind the tail of its level and ties it there.
LEMMA AddTies ==
  ASSUME NEW refs, IsFiniteSet(refs), NilRef \in refs, NEW locates,
         NEW o \in Stores(refs, locates), NEW l, NEW b, InPlace(refs, o, l, b),
         NEW x \in refs, NEW price \in Int, price > 0
  PROVE  LET st == Add([os |-> o, book |-> b], x, price)
         IN TiedOn(b, st.book, o, st.os, x, st.os[x].level, Key(o[x].buy, price))
<1> DEFINE st == Add([os |-> o, book |-> b], x, price)
           key == Key(o[x].buy, price)
           at == FindOrCreate(b, o[x].buy, key)
           h == at.level
           d == at.book
           lv == d.levels[h]
           back == lv.tail
           placed == [o[x] EXCEPT !.level = h, !.prev = back, !.next = NilRef]
           hd == IF back = NilRef THEN x ELSE lv.head
           sh == lv.shares + o[x].qty
           n  == lv.orders + 1
           more == [lv EXCEPT !.shares = sh, !.orders = n, !.head = hd, !.tail = x]
           c == st.book
<1>1. /\ o[x] \in Order(refs, locates) /\ o[x].buy \in BOOLEAN /\ DOMAIN o = refs
      /\ \A r \in refs : o[r] \in Order(refs, locates)
  BY DEF Stores, Order
<1>2. key \in Int /\ key # 0 /\ (key > 0) = o[x].buy
  <2>1. CASE o[x].buy = TRUE
    <3>1. key = price
      BY <2>1 DEF Key
    <3> HIDE DEF key
    <3>2. key \in Int /\ key # 0 /\ key > 0
      BY <3>1
    <3> QED BY <2>1, <3>2, Zenon
  <2>2. CASE o[x].buy = FALSE
    <3>1. key = -price
      BY <2>2 DEF Key
    <3> HIDE DEF key
    <3>2. key \in Int /\ key # 0 /\ ~ (key > 0)
      BY <3>1
    <3>3. (key > 0) = FALSE
      BY <3>2
    <3> QED BY <2>2, <3>2, <3>3, Zenon
  <2> QED BY <1>1, <2>1, <2>2
<1>3. /\ c = WithLevel(d, h, more)
      /\ st.os = [r \in refs |-> IF r = x THEN placed
                                 ELSE IF r = back /\ back # NilRef
                                   THEN [o[r] EXCEPT !.next = x] ELSE o[r]]
  BY <1>1 DEF Add
<1>4. IsBook(refs, b)
  BY DEF InPlace
<1> HIDE DEF st, key
<1>5. IsBook(refs, d) /\ HasLevel(b, d, h, o[x].buy, key)
  BY <1>1, <1>2, <1>4, FindOrCreateFacts
<1> HIDE DEF at, h, d
<1>6. /\ h \in Handles(d) /\ h \in Listed(d, o[x].buy) /\ lv.key = key
      /\ \A g \in Handles(b) : g # h => d.levels[g] = b.levels[g]
      /\ Handles(b) \subseteq Handles(d)
      /\ \/ h \in OpenLevels(b) /\ d = b
         \/ h \notin OpenLevels(b) /\ lv = EmptyLevel(key)
      /\ Listed(d, o[x].buy) = Listed(b, o[x].buy) \cup {h}
      /\ \A other \in BOOLEAN : other # o[x].buy => Listed(d, other) = Listed(b, other)
  BY <1>5 DEF HasLevel
<1>7. h # Nil /\ lv \in Level(refs)
  <2>1. h # Nil
    BY <1>5, <1>6, OpenHandles
  <2>2. d \in BookType(refs)
    BY <1>5 DEF IsBook
  <2> QED BY <1>6, <2>1, <2>2, BookTypeFacts DEF Handles
<1>8. more \in Level(refs) /\ more.key = lv.key /\ more.head = hd /\ more.tail = x
  <2>1. hd \in refs /\ sh \in Int /\ n \in Int
    BY <1>1, <1>7 DEF Order, Level
  <2> HIDE DEF hd, sh, n, lv
  <2> QED BY <1>7, <2>1 DEF Level
<1>9. placed.level = h /\ placed.prev = back /\ placed.next = NilRef
  <2> HIDE DEF back
  <2> QED BY <1>1 DEF Order
<1> HIDE DEF more, placed
<1>10. \A r \in refs : [o[r] EXCEPT !.next = x].next = x /\ [o[r] EXCEPT !.next = x].prev = o[r].prev
  BY <1>1 DEF Order
<1>11. /\ st.os[x] = placed
       /\ \A r \in refs \ {x} :
            /\ st.os[r].prev = o[r].prev
            /\ st.os[r].next = IF r = back /\ r # NilRef THEN x ELSE o[r].next
  <2> HIDE DEF back
  <2>1. \A r \in refs : st.os[r] = IF r = x THEN placed
                                   ELSE IF r = back /\ back # NilRef
                                     THEN [o[r] EXCEPT !.next = x] ELSE o[r]
    BY <1>3
  <2> QED BY <1>10, <2>1
<1>12. /\ c.levels[h] = more
       /\ \A g \in Handles(d) : g # h => c.levels[g] = d.levels[g]
       /\ OpenLevels(c) = OpenLevels(d)
  <2> HIDE DEF c
  <2> QED BY <1>3, <1>5, <1>6, <1>8, RetotalFacts
<1> HIDE DEF c
<1>13. OpenLevels(d) = OpenLevels(b) \cup {h}
  BY <1>1, <1>6 DEF OpenLevels
<1>14. back = IF h \in OpenLevels(b) THEN b.levels[h].tail ELSE NilRef
  BY <1>6 DEF EmptyLevel
<1>15. /\ h \in OpenLevels(b) => b.levels[h].key = key
       /\ back # NilRef => h \in OpenLevels(b) /\ lv.head = b.levels[h].head
  BY <1>6, <1>14
<1>16. \A g \in Handles(b) : g # h => c.levels[g] = b.levels[g]
  BY <1>6, <1>12
<1> DEFINE was == IF h \in OpenLevels(b) THEN b.levels[h].tail ELSE NilRef
<1> HIDE DEF lv
<1>17. /\ c.levels[h].key = key /\ c.levels[h].tail = x
       /\ was = NilRef => c.levels[h].head = x
       /\ was # NilRef => c.levels[h].head = b.levels[h].head
  BY <1>6, <1>8, <1>12, <1>14, <1>15 DEF lv
<1>18. /\ h = st.os[x].level /\ st.os[x].prev = was /\ st.os[x].next = NilRef
       /\ \A r \in DOMAIN o \ {x} :
            /\ st.os[r].prev = o[r].prev
            /\ st.os[r].next = IF r = was /\ r # NilRef THEN x ELSE o[r].next
  BY <1>1, <1>9, <1>11, <1>14
<1>19. TiedOn(b, c, o, st.os, x, h, key)
  BY <1>7, <1>12, <1>13, <1>15, <1>16, <1>17, <1>18 DEF TiedOn
<1> QED BY <1>18, <1>19 DEF st, c, key

\* A partial fill touches no link, no end of a level and no key.
LEMMA ReduceTies ==
  ASSUME NEW refs, IsFiniteSet(refs), NilRef \in refs, NEW locates,
         NEW o \in Stores(refs, locates), NEW l, NEW b, InPlace(refs, o, l, b),
         NEW x \in refs, AtBook(o, x, l), NEW shares \in Nat,
         Taken(o, x, shares) # o[x].qty
  PROVE  LET st == Reduce([os |-> o, book |-> b], x, shares)
         IN /\ \A r \in refs : /\ st.os[r].prev = o[r].prev /\ st.os[r].next = o[r].next
                               /\ st.os[r].level = o[r].level
                               /\ st.os[r].locate = o[r].locate /\ st.os[r].buy = o[r].buy
            /\ st.os[x].qty = o[x].qty - shares /\ shares < o[x].qty
            /\ \A g \in Handles(b) : /\ st.book.levels[g].key = b.levels[g].key
                                     /\ st.book.levels[g].head = b.levels[g].head
                                     /\ st.book.levels[g].tail = b.levels[g].tail
            /\ OpenLevels(st.book) = OpenLevels(b)
<1> DEFINE st == Reduce([os |-> o, book |-> b], x, shares)
           take == Taken(o, x, shares)
           h == o[x].level
           lv == b.levels[h]
           sh == lv.shares - take
           less == [lv EXCEPT !.shares = sh]
           c == WithLevel(b, h, less)
           q == o[x].qty - take
           p == [o[x] EXCEPT !.qty = q]
<1>1. /\ o[x] \in Order(refs, locates) /\ h \in Handles(b) /\ lv \in Level(refs)
      /\ IsBook(refs, b) /\ DOMAIN o = refs
  BY SeatFacts DEF InPlace, Stores
<1>2. st = [os |-> [o EXCEPT ![x] = p], book |-> c]
  BY DEF Reduce
<1>3. take = shares /\ shares < o[x].qty
  BY <1>1 DEF Taken, Order
<1>4. /\ p.qty = q /\ p.level = h /\ p.locate = o[x].locate /\ p.buy = o[x].buy
      /\ p.prev = o[x].prev /\ p.next = o[x].next
  <2> HIDE DEF q
  <2> QED BY <1>1 DEF Order
<1>5. /\ less \in Level(refs) /\ less.key = lv.key /\ less.head = lv.head /\ less.tail = lv.tail
  <2>1. sh \in Int
    BY <1>1, <1>3 DEF Level
  <2> HIDE DEF sh, lv
  <2> QED BY <1>1, <2>1 DEF Level
<1> HIDE DEF st, less, p
<1>6. /\ c.levels[h] = less /\ OpenLevels(c) = OpenLevels(b)
      /\ \A g \in Handles(b) : g # h => c.levels[g] = b.levels[g]
  <2> HIDE DEF h
  <2> QED BY <1>1, <1>5, RetotalFacts
<1> HIDE DEF c
<1>7. st.book = c /\ st.os[x] = p /\ \A r \in refs : r # x => st.os[r] = o[r]
  BY <1>1, <1>2
<1> QED BY <1>3, <1>4, <1>5, <1>6, <1>7 DEF st

-----------------------------------------------------------------------------
(* The order store, the books and the history, whatever state they come    *)
(* from.                                                                   *)

\* History a orders the live orders of store o strictly and totally, and names
\* no order that left.
Lined(o, a) ==
  /\ a \in [AllRefs -> SUBSET AllRefs]
  /\ \A r \in AllRefs : r \notin a[r]
  /\ \A r \in AllRefs : \A x \in a[r] : Live(o, x) /\ a[x] \subseteq a[r]
  /\ \A r, x \in AllRefs : Live(o, r) /\ Live(o, x) /\ r # x => r \in a[x] \/ x \in a[r]

Threads(o, a, l, b) ==
  \A h \in OpenLevels(b) :
    Threaded(o, a, Queue(o, l, h), b.levels[h].head, b.levels[h].tail)

\* A sound store whose queues spell out the history.
Ordered(o, bs, a) ==
  /\ Sound(o, bs) /\ Lined(o, a)
  /\ \A l \in Locates : Threads(o, a, l, bs[l])

\* InArrivalOrder, level by level.
LEMMA ArrivalThreads ==
  ASSUME NEW o \in Stores(AllRefs, Locates), NEW l, NEW b, InPlace(AllRefs, o, l, b), NEW a
  PROVE  InArrivalOrder(o, a, l, b) <=> Threads(o, a, l, b)
<1>1. DOMAIN o = AllRefs /\ \A h \in OpenLevels(b) : h # Nil
  BY OpenHandles DEF Stores, InPlace
<1>2. \A h \in OpenLevels(b) : \A r \in Queue(o, l, h) :
        r \in AllRefs /\ o[r].level = h /\ o[r].level # Nil /\ o[r].locate = l
  BY <1>1 DEF Queue
<1>3. \A r \in AllRefs : o[r].level # Nil /\ o[r].locate = l =>
        o[r].level \in OpenLevels(b) /\ r \in Queue(o, l, o[r].level)
  <2> TAKE r \in AllRefs
  <2> HAVE o[r].level # Nil /\ o[r].locate = l
  <2>1. o[r].level \in OpenLevels(b)
    BY SeatFacts DEF AtBook
  <2> QED BY <1>1, <2>1 DEF Queue
<1>4. \A q, r : q \cap a[r] = Earlier(q, a, r) /\ {y \in q : r \in a[y]} = Later(q, a, r)
  BY DEF Earlier, Later
<1>5. ASSUME InArrivalOrder(o, a, l, b) PROVE Threads(o, a, l, b)
  <2> SUFFICES ASSUME NEW h \in OpenLevels(b)
               PROVE  Threaded(o, a, Queue(o, l, h), b.levels[h].head, b.levels[h].tail)
    BY DEF Threads
  <2>1. /\ First(b.levels[h].head, Queue(o, l, h), a)
        /\ Final(b.levels[h].tail, Queue(o, l, h), a)
    BY <1>5 DEF InArrivalOrder, IsEnd, First, Final
  <2>2. ASSUME NEW r \in Queue(o, l, h)
        PROVE  /\ Final(o[r].prev, Earlier(Queue(o, l, h), a, r), a)
               /\ First(o[r].next, Later(Queue(o, l, h), a, r), a)
    <3> DEFINE q == Queue(o, l, o[r].level)
    <3>1. r \in DOMAIN o /\ o[r].level # Nil /\ o[r].locate = l /\ o[r].level = h
      BY <1>1, <1>2
    <3>2. Final(o[r].prev, q \cap a[r], a) /\ First(o[r].next, {y \in q : r \in a[y]}, a)
      BY <1>5, <3>1 DEF InArrivalOrder, IsEnd, First, Final
    <3> QED BY <1>4, <3>1, <3>2
  <2> QED BY <2>1, <2>2 DEF Threaded
<1>6. ASSUME Threads(o, a, l, b) PROVE InArrivalOrder(o, a, l, b)
  <2>1. \A h \in OpenLevels(b) : /\ First(b.levels[h].head, Queue(o, l, h), a)
                                 /\ Final(b.levels[h].tail, Queue(o, l, h), a)
    BY <1>6 DEF Threads, Threaded
  <2>2. ASSUME NEW r \in DOMAIN o, o[r].level # Nil, o[r].locate = l
        PROVE  LET q == Queue(o, l, o[r].level)
               IN Final(o[r].prev, q \cap a[r], a) /\ First(o[r].next, {y \in q : r \in a[y]}, a)
    <3>1. o[r].level \in OpenLevels(b) /\ r \in Queue(o, l, o[r].level)
      BY <1>1, <1>3, <2>2
    <3>2. /\ Final(o[r].prev, Earlier(Queue(o, l, o[r].level), a, r), a)
          /\ First(o[r].next, Later(Queue(o, l, o[r].level), a, r), a)
      BY <1>6, <3>1 DEF Threads, Threaded
    <3> QED BY <1>4, <3>2
  <2> QED BY <2>1, <2>2 DEF InArrivalOrder, IsEnd, First, Final
<1> QED BY <1>5, <1>6

\* Queues hold live orders, all of them under acceptable references, in line.
LEMMA QueueRanked ==
  ASSUME NEW o, NEW bs, Sound(o, bs), NEW l, NEW h, h # Nil
  PROVE  /\ \A r : r \in Queue(o, l, h)
                   <=> r \in AllRefs /\ o[r].level = h /\ o[r].locate = l
         /\ NilRef \notin Queue(o, l, h)
         /\ \A a : Lined(o, a) => Ranked(Queue(o, l, h), a)
<1>1. DOMAIN o = AllRefs
  BY DEF Sound, Stores
<1>2. \A r : r \in Queue(o, l, h) <=> r \in AllRefs /\ o[r].level = h /\ o[r].locate = l
  BY <1>1 DEF Queue
<1>3. \A r \in Queue(o, l, h) : Live(o, r) /\ r \in Refs /\ r \in AllRefs
  BY <1>2 DEF Live, Sound
<1>4. NilRef \notin Queue(o, l, h)
  BY <1>3, RefsAssumption
<1>5. ASSUME NEW a, Lined(o, a) PROVE Ranked(Queue(o, l, h), a)
  <2>1. \A r, x \in Queue(o, l, h) : r # x => r \in a[x] \/ x \in a[r]
    BY <1>3, <1>5 DEF Lined
  <2>2. \A r, x, y \in Queue(o, l, h) : r \in a[x] /\ x \in a[y] => r \in a[y]
    BY <1>3, <1>5 DEF Lined
  <2> QED BY <1>3, <1>4, <1>5, <2>1, <2>2 DEF Ranked, Lined
<1> QED BY <1>2, <1>4, <1>5

\* What keeps every other order where it was, at the price it had.
Others(o, bs, p, cs, x) ==
  \A r \in AllRefs \ {x} :
    OrderAt([os |-> p, books |-> cs], r) = OrderAt([os |-> o, books |-> bs], r)

\* The others keep their orders if their records and the keys of their levels do.
LEMMA OthersKeep ==
  ASSUME NEW o, NEW bs, Sound(o, bs), NEW p, NEW x, SameSeats(o, p, AllRefs \ {x}), NEW cs,
         \A k \in Locates : \A g \in OpenLevels(bs[k]) :
           (\E r \in AllRefs \ {x} : o[r].level = g /\ o[r].locate = k)
             => cs[k].levels[g].key = bs[k].levels[g].key
  PROVE  Others(o, bs, p, cs, x)
<1> SUFFICES ASSUME NEW r \in AllRefs \ {x}
             PROVE  OrderAt([os |-> p, books |-> cs], r) = OrderAt([os |-> o, books |-> bs], r)
  BY DEF Others
<1>1. /\ p[r].level = o[r].level /\ p[r].locate = o[r].locate
      /\ p[r].buy = o[r].buy /\ p[r].qty = o[r].qty
  BY DEF SameSeats
<1>2. CASE o[r].level = Nil
  BY <1>1, <1>2 DEF OrderAt
<1>3. CASE o[r].level # Nil
  <2>1. o[r].locate \in Locates /\ o \in Stores(AllRefs, Locates)
    BY DEF Sound, Stores, Order
  <2>2. InPlace(AllRefs, o, o[r].locate, bs[o[r].locate]) /\ AtBook(o, r, o[r].locate)
    BY <1>3, <2>1 DEF Sound, AtBook
  <2>3. o[r].level \in OpenLevels(bs[o[r].locate])
    BY <2>1, <2>2, SeatFacts
  <2>4. cs[o[r].locate].levels[o[r].level].key = bs[o[r].locate].levels[o[r].level].key
    BY <2>1, <2>3
  <2> QED BY <1>1, <1>3, <2>4 DEF OrderAt
<1> QED BY <1>2, <1>3

\* The history without order x.
Without(a, x) == [r \in AllRefs |-> IF r = x THEN {} ELSE a[r] \ {x}]

\* A history stays one when an order is struck from it,
LEMMA WithoutLined ==
  ASSUME NEW o, NEW a, Lined(o, a), NEW x \in AllRefs,
         NEW p, ~ Live(p, x), SameSeats(o, p, AllRefs \ {x})
  PROVE  Lined(p, Without(a, x))
<1>1. \A r \in AllRefs \ {x} : Live(p, r) <=> Live(o, r)
  BY DEF SameSeats, Live
<1>2. /\ Without(a, x) \in [AllRefs -> SUBSET AllRefs] /\ Without(a, x)[x] = {}
      /\ \A r \in AllRefs : r # x => Without(a, x)[r] = a[r] \ {x}
  BY DEF Without, Lined
<1>3. a \in [AllRefs -> SUBSET AllRefs]
  BY DEF Lined
<1>4. \A r \in AllRefs : \A y \in Without(a, x)[r] :
        Live(p, y) /\ Without(a, x)[y] \subseteq Without(a, x)[r]
  BY <1>1, <1>2, <1>3 DEF Lined
<1>5. \A r, y \in AllRefs : Live(p, r) /\ Live(p, y) /\ r # y
        => r \in Without(a, x)[y] \/ y \in Without(a, x)[r]
  BY <1>1, <1>2 DEF Lined
<1> QED BY <1>2, <1>4, <1>5 DEF Lined

\* An order leaves one book: the queues of all books stay threaded, and nobody
\* else's order changes.
LEMMA DropOrdered ==
  ASSUME NEW o, NEW bs, NEW a, Ordered(o, bs, a), NEW x \in AllRefs, Live(o, x)
  PROVE  LET s == Dropped([os |-> o, books |-> bs], x)
         IN /\ Ordered(s.os, s.books, Without(a, x)) /\ ~ Live(s.os, x)
            /\ SameSeats(o, s.os, AllRefs \ {x})
            /\ Others(o, bs, s.os, s.books, x)
<1> DEFINE l == o[x].locate
           h == o[x].level
           st == Remove([os |-> o, book |-> bs[l]], x)
           s == Dropped([os |-> o, books |-> bs], x)
           c == Without(a, x)
<1>a. Sound(o, bs) /\ Lined(o, a) /\ \A k \in Locates : Threads(o, a, k, bs[k])
  BY DEF Ordered
<1>1. /\ Sound(s.os, s.books) /\ ~ Live(s.os, x) /\ l \in Locates
      /\ SameSeats(o, s.os, AllRefs \ {x})
      /\ \A k \in Locates : k # l => s.books[k] = bs[k]
  <2>1. Drops(o, bs, x, s)
    BY <1>a, DroppedSound
  <2> HIDE DEF s
  <2> QED BY <2>1 DEF Drops
<1>2. o \in Stores(AllRefs, Locates) /\ InPlace(AllRefs, o, l, bs[l]) /\ AtBook(o, x, l)
  BY <1>a, <1>1 DEF Sound, AtBook, Live
<1>3. st.os = Unlinked(o, x) /\ TiedPast(bs[l], st.book, o, x)
  BY <1>2, ConstantFacts, RemoveTies
<1>4. s.os = st.os /\ s.books[l] = st.book
  <2>1. DOMAIN bs = Locates
    BY <1>a DEF Sound
  <2> QED BY <1>1, <2>1 DEF Dropped
<1> HIDE DEF st, s
<1>5. /\ h \in OpenLevels(bs[l]) /\ h # Nil /\ DOMAIN o = AllRefs
      /\ \A k \in Locates : \A g \in OpenLevels(bs[k]) : g # Nil /\ g \in Handles(bs[k])
  <2>1. \A k \in Locates : InPlace(AllRefs, o, k, bs[k])
    BY <1>a DEF Sound
  <2> QED BY <1>2, <2>1, SeatFacts, OpenHandles DEF InPlace, Stores, AtBook
<1>7. ASSUME NEW r \in AllRefs, r # x
      PROVE  /\ s.os[r].next = IF r = o[x].prev /\ r # NilRef THEN o[x].next ELSE o[r].next
             /\ s.os[r].prev = IF r = o[x].next /\ r # NilRef THEN o[x].prev ELSE o[r].prev
  <2> DEFINE n == IF r = o[x].prev /\ r # NilRef THEN o[x].next ELSE o[r].next
             p == IF r = o[x].next /\ r # NilRef THEN o[x].prev ELSE o[r].prev
  <2>1. Unlinked(o, x)[r] = [o[r] EXCEPT !.next = n, !.prev = p]
    BY <1>5, <1>7 DEF Unlinked
  <2>2. o[r] \in Order(AllRefs, Locates)
    BY <1>2 DEF Stores
  <2> HIDE DEF n, p
  <2>3. Unlinked(o, x)[r].next = n /\ Unlinked(o, x)[r].prev = p
    BY <2>1, <2>2 DEF Order
  <2> QED BY <1>3, <1>4, <2>3 DEF n, p
<1>8. \A r, y \in AllRefs \ {x} : y \in c[r] <=> y \in a[r]
  BY DEF Without
<1>9. Lined(s.os, c)
  BY <1>a, <1>1, WithoutLined
<1> HIDE DEF c
<1>10. ASSUME NEW k \in Locates, NEW g \in OpenLevels(s.books[k])
       PROVE  Threaded(s.os, c, Queue(s.os, k, g), s.books[k].levels[g].head,
                       s.books[k].levels[g].tail)
  <2> DEFINE q == Queue(o, k, g)
             b == bs[k]
  <2>1. g \in OpenLevels(b) /\ g # Nil /\ g \in Handles(b)
    BY <1>1, <1>3, <1>4, <1>5, <1>10 DEF TiedPast
  <2>2. /\ Threaded(o, a, q, b.levels[g].head, b.levels[g].tail) /\ Ranked(q, a)
        /\ NilRef \notin q /\ q \subseteq AllRefs
    BY <1>a, <2>1, QueueRanked DEF Threads
  <2>3. \A r : /\ r \in q <=> r \in AllRefs /\ o[r].level = g /\ o[r].locate = k
               /\ r \in Queue(s.os, k, g)
                    <=> r \in AllRefs /\ s.os[r].level = g /\ s.os[r].locate = k
    BY <1>a, <1>1, <2>1, QueueRanked
  <2>4. x \notin Queue(s.os, k, g)
    BY <1>1, <2>1, <2>3 DEF Live
  <2>5. Queue(s.os, k, g) = q \ {x}
    BY <1>1, <2>3, <2>4 DEF SameSeats
  <2>6. CASE k = l /\ g = h
    <3>1. x \in q
      BY <2>3, <2>6
    <3>2. \A r \in q \ {x} : /\ s.os[r].prev = IF r = o[x].next THEN o[x].prev ELSE o[r].prev
                             /\ s.os[r].next = IF r = o[x].prev THEN o[x].next ELSE o[r].next
      BY <1>7, <2>2
    <3>3. \A r, y \in q \ {x} : y \in c[r] <=> y \in a[r]
      BY <1>8, <2>2
    <3> DEFINE hd == IF o[x].prev = NilRef THEN o[x].next ELSE b.levels[g].head
               tl == IF o[x].next = NilRef THEN o[x].prev ELSE b.levels[g].tail
    <3>4. Threaded(s.os, c, q \ {x}, hd, tl)
      <4> HIDE DEF q, b
      <4> QED BY <2>2, <3>1, <3>2, <3>3, Unthread
    <3>5. s.books[k].levels[g].head = hd /\ s.books[k].levels[g].tail = tl
      BY <1>3, <1>4, <2>6 DEF TiedPast
    <3> QED BY <2>5, <3>4, <3>5
  <2>7. CASE ~ (k = l /\ g = h)
    <3>1. x \notin q
      BY <2>3, <2>7
    <3>2. o[x].prev \notin q /\ o[x].next \notin q
      <4> DEFINE w == Queue(o, l, h)
      <4>1. \A r : r \in w <=> r \in AllRefs /\ o[r].level = h /\ o[r].locate = l
        BY <1>a, <1>5, QueueRanked
      <4>2. x \in w /\ Threads(o, a, l, bs[l])
        BY <1>a, <1>1, <4>1
      <4>3. /\ Final(o[x].prev, Earlier(w, a, x), a)
            /\ First(o[x].next, Later(w, a, x), a)
        BY <1>5, <4>2 DEF Threads, Threaded
      <4>4. o[x].prev = NilRef \/ o[x].prev \in w
        BY <4>3 DEF Final, Earlier
      <4>5. o[x].next = NilRef \/ o[x].next \in w
        BY <4>3 DEF First, Later
      <4>6. \A r \in w : r \notin q
        BY <2>3, <2>7, <4>1
      <4> QED BY <2>2, <4>4, <4>5, <4>6
    <3>3. \A r \in q : s.os[r].prev = o[r].prev /\ s.os[r].next = o[r].next
      BY <1>7, <2>2, <3>1, <3>2
    <3>4. \A r, y \in q : y \in c[r] <=> y \in a[r]
      BY <1>8, <2>2, <3>1
    <3>5. Threaded(s.os, c, q, b.levels[g].head, b.levels[g].tail)
      BY <2>2, <3>3, <3>4, FrameThreaded
    <3>6. s.books[k].levels[g] = b.levels[g]
      BY <1>1, <1>3, <1>4, <2>1, <2>7 DEF TiedPast
    <3>7. Queue(s.os, k, g) = q
      BY <2>5, <3>1
    <3> QED BY <3>5, <3>6, <3>7
  <2> QED BY <2>6, <2>7
<1>11. Ordered(s.os, s.books, c)
  BY <1>1, <1>9, <1>10 DEF Ordered, Threads
<1>12. Others(o, bs, s.os, s.books, x)
  <2>1. \A k \in Locates : \A g \in OpenLevels(bs[k]) :
          s.books[k].levels[g].key = bs[k].levels[g].key
    BY <1>1, <1>3, <1>4, <1>5 DEF TiedPast
  <2> QED BY <1>a, <1>1, <2>1, OthersKeep
<1> QED BY <1>1, <1>11, <1>12 DEF s, c

\* A reference without an order is given one to come.
LEMMA SeatOrdered ==
  ASSUME NEW o, NEW bs, NEW a, Ordered(o, bs, a), NEW x \in AllRefs, ~ Live(o, x),
         NEW seat \in Order(AllRefs, Locates), seat.level = o[x].level
  PROVE  LET p == [o EXCEPT ![x] = seat]
         IN /\ Ordered(p, bs, a) /\ ~ Live(p, x) /\ p[x] = seat
            /\ Others(o, bs, p, bs, x)
            /\ \A r \in AllRefs : Live(p, r) <=> Live(o, r)
<1> DEFINE p == [o EXCEPT ![x] = seat]
<1>a. Sound(o, bs) /\ Lined(o, a) /\ \A k \in Locates : Threads(o, a, k, bs[k])
  BY DEF Ordered
<1>1. /\ Sound(p, bs) /\ ~ Live(p, x) /\ p[x] = seat
      /\ SameSeats(o, p, AllRefs \ {x})
  BY <1>a, SeatSound
<1>2. \A r \in AllRefs : r # x => p[r] = o[r]
  BY <1>a DEF Sound, Stores
<1> HIDE DEF p
<1>3. Others(o, bs, p, bs, x)
  BY <1>a, <1>1, OthersKeep
<1>4. \A r \in AllRefs : Live(p, r) <=> Live(o, r)
  BY <1>1, <1>2 DEF Live
<1>5. Lined(p, a)
  <2>1. \A r \in AllRefs : \A y \in a[r] : y \in AllRefs
    BY <1>a DEF Lined
  <2> QED BY <1>a, <1>4, <2>1 DEF Lined
<1>6. ASSUME NEW k \in Locates, NEW h \in OpenLevels(bs[k])
      PROVE  Threaded(p, a, Queue(p, k, h), bs[k].levels[h].head, bs[k].levels[h].tail)
  <2>1. h # Nil
    <3>1. InPlace(AllRefs, o, k, bs[k])
      BY <1>a DEF Sound
    <3> QED BY <3>1, OpenHandles DEF InPlace
  <2>2. /\ \A r : r \in Queue(o, k, h) <=> r \in AllRefs /\ o[r].level = h /\ o[r].locate = k
        /\ \A r : r \in Queue(p, k, h) <=> r \in AllRefs /\ p[r].level = h /\ p[r].locate = k
    BY <1>a, <1>1, <2>1, QueueRanked
  <2>3. Queue(p, k, h) = Queue(o, k, h) /\ x \notin Queue(o, k, h)
    <3>1. x \notin Queue(p, k, h) /\ x \notin Queue(o, k, h)
      BY <1>1, <2>1, <2>2 DEF Live
    <3>2. \A r : r # x => (r \in Queue(p, k, h) <=> r \in Queue(o, k, h))
      BY <1>2, <2>2
    <3> QED BY <3>1, <3>2
  <2>4. \A r \in Queue(o, k, h) : p[r].prev = o[r].prev /\ p[r].next = o[r].next
    BY <1>2, <2>2, <2>3
  <2>5. Threaded(o, a, Queue(o, k, h), bs[k].levels[h].head, bs[k].levels[h].tail)
    BY <1>a, <1>6 DEF Threads
  <2>6. Threaded(p, a, Queue(o, k, h), bs[k].levels[h].head, bs[k].levels[h].tail)
    BY <2>4, <2>5, FrameThreaded
  <2> QED BY <2>3, <2>6
<1> QED BY <1>1, <1>3, <1>4, <1>5, <1>6 DEF Ordered, Threads, p

\* Everybody in line when an order arrives is ahead of it.
Behind(o) == {r \in AllRefs : Live(o, r)}

\* and when an order is put behind everybody.
LEMMA BehindLined ==
  ASSUME NEW o, NEW a, Lined(o, a), NEW x \in AllRefs, ~ Live(o, x),
         NEW p, Live(p, x), SameSeats(o, p, AllRefs \ {x})
  PROVE  /\ Lined(p, [a EXCEPT ![x] = Behind(o)])
         /\ \A r \in Behind(o) : \A y \in AllRefs :
              y \in [a EXCEPT ![x] = Behind(o)][r] <=> y \in a[r]
         /\ [a EXCEPT ![x] = Behind(o)][x] = Behind(o)
         /\ \A r \in AllRefs : x \notin [a EXCEPT ![x] = Behind(o)][r]
<1> DEFINE c == [a EXCEPT ![x] = Behind(o)]
<1>1. \A r \in AllRefs \ {x} : Live(p, r) <=> Live(o, r)
  BY DEF SameSeats, Live
<1>2. a \in [AllRefs -> SUBSET AllRefs] /\ Behind(o) \in SUBSET AllRefs
  BY DEF Lined, Behind
<1>3. /\ c \in [AllRefs -> SUBSET AllRefs] /\ c[x] = Behind(o)
      /\ \A r \in AllRefs : r # x => c[r] = a[r]
  BY <1>2
<1> HIDE DEF c
<1>4. \A r \in AllRefs : \A y \in a[r] : y \in AllRefs /\ Live(o, y) /\ y # x
  BY <1>2 DEF Lined
<1>5. \A r \in Behind(o) : r \in AllRefs /\ r # x /\ Live(o, r)
  BY DEF Behind
<1>6. \A r \in AllRefs : x \notin c[r]
  BY <1>3, <1>4, <1>5
<1>7. \A r \in AllRefs : r \notin c[r]
  BY <1>3, <1>5 DEF Lined
<1>8. ASSUME NEW r \in AllRefs, NEW y \in c[r] PROVE Live(p, y) /\ c[y] \subseteq c[r]
  <2>1. y \in AllRefs /\ y # x /\ Live(o, y)
    BY <1>3, <1>4, <1>5, <1>8
  <2>2. c[y] = a[y] /\ \A z \in a[y] : z \in Behind(o)
    BY <1>3, <1>4, <2>1 DEF Behind
  <2>3. r # x => a[y] \subseteq a[r]
    BY <1>3, <1>8 DEF Lined
  <2> QED BY <1>1, <1>3, <2>1, <2>2, <2>3
<1>9. ASSUME NEW r \in AllRefs, NEW y \in AllRefs, Live(p, r), Live(p, y), r # y
      PROVE  r \in c[y] \/ y \in c[r]
  <2>1. CASE r = x
    BY <1>1, <1>3, <1>9, <2>1 DEF Behind
  <2>2. CASE y = x
    BY <1>1, <1>3, <1>9, <2>2 DEF Behind
  <2>3. CASE r # x /\ y # x
    BY <1>1, <1>3, <1>9, <2>3 DEF Lined
  <2> QED BY <2>1, <2>2, <2>3
<1>10. Lined(p, c)
  BY <1>3, <1>7, <1>8, <1>9 DEF Lined
<1> QED BY <1>3, <1>5, <1>6, <1>10 DEF c

\* What adding order x, told its book l before or after, makes of the line.
Queues(o, bs, a, x, l, price, st) ==
  LET after == [st.os EXCEPT ![x] = [@ EXCEPT !.locate = l]]
      cs == [bs EXCEPT ![l] = st.book]
  IN /\ Ordered(after, cs, [a EXCEPT ![x] = Behind(o)])
     /\ Others(o, bs, after, cs, x)
     /\ OrderAt([os |-> after, books |-> cs], x)
          = [locate |-> l, buy |-> o[x].buy, qty |-> o[x].qty, price |-> price]
     /\ o[x].locate = l => after = st.os

\* An order arrives in one book, at the back of its level.
LEMMA AddOrdered ==
  ASSUME NEW o, NEW bs, NEW a, Ordered(o, bs, a), NEW x \in Refs, ~ Live(o, x),
         o[x].qty > 0, NEW l \in Locates, NEW price \in Int, price > 0
  PROVE  Queues(o, bs, a, x, l, price, Add([os |-> o, book |-> bs[l]], x, price))
<1> DEFINE st == Add([os |-> o, book |-> bs[l]], x, price)
           after == [st.os EXCEPT ![x] = [@ EXCEPT !.locate = l]]
           cs == [bs EXCEPT ![l] = st.book]
           c == [a EXCEPT ![x] = Behind(o)]
           key == Key(o[x].buy, price)
           h == st.os[x].level
<1>a. Sound(o, bs) /\ Lined(o, a) /\ \A k \in Locates : Threads(o, a, k, bs[k])
  BY DEF Ordered
<1>b. x \in AllRefs /\ x # NilRef
  BY ConstantFacts, RefsAssumption
<1>1. o \in Stores(AllRefs, Locates) /\ InPlace(AllRefs, o, l, bs[l]) /\ DOMAIN o = AllRefs
  BY <1>a DEF Sound, Stores
<1>2. /\ st.os \in Stores(AllRefs, Locates) /\ Live(st.os, x)
      /\ st.os[x].qty = o[x].qty /\ st.os[x].buy = o[x].buy
  <2>1. AddsTo(AllRefs, Locates, o, l, x, st)
    BY <1>1, <1>b, ConstantFacts, AddInPlace
  <2> HIDE DEF st
  <2> QED BY <2>1 DEF AddsTo
<1>3. TiedOn(bs[l], st.book, o, st.os, x, h, key)
  BY <1>1, <1>b, ConstantFacts, AddTies
<1>4. /\ Sound(after, cs) /\ SameSeats(o, after, AllRefs \ {x}) /\ after[x].locate = l
      /\ \A k \in Locates : k # l => cs[k] = bs[k]
      /\ o[x].locate = l => after = st.os
  <2>1. PutsIn(o, bs, x, l, st)
    BY <1>a, AddedSound
  <2> HIDE DEF st
  <2> QED BY <2>1 DEF PutsIn
<1> HIDE DEF st
<1>5. cs[l] = st.book
  BY <1>a DEF Sound
<1>6. /\ after[x].level = h /\ after[x].qty = o[x].qty /\ after[x].buy = o[x].buy
      /\ after[x].prev = st.os[x].prev /\ after[x].next = st.os[x].next
      /\ \A r \in AllRefs : r # x => after[r] = st.os[r]
  <2> DEFINE seat == [st.os[x] EXCEPT !.locate = l]
  <2>1. /\ seat.level = h /\ seat.qty = st.os[x].qty /\ seat.buy = st.os[x].buy
        /\ seat.prev = st.os[x].prev /\ seat.next = st.os[x].next
    <3>1. st.os[x] \in Order(AllRefs, Locates)
      BY <1>2, <1>b DEF Stores
    <3> QED BY <3>1 DEF Order
  <2>2. after = [st.os EXCEPT ![x] = seat]
    OBVIOUS
  <2> HIDE DEF seat, after
  <2>3. after[x] = seat /\ \A r \in AllRefs : r # x => after[r] = st.os[r]
    BY <1>2, <1>b, <2>2 DEF Stores
  <2> QED BY <1>2, <2>1, <2>3
<1> HIDE DEF after, cs, key, h
<1>7. /\ h # Nil /\ cs[l].levels[h].key = key
      /\ \A g \in Handles(bs[l]) : g # h => cs[l].levels[g] = bs[l].levels[g]
      /\ h \in OpenLevels(bs[l]) => bs[l].levels[h].key = key
      /\ OpenLevels(cs[l]) = OpenLevels(bs[l]) \cup {h}
  BY <1>3, <1>5 DEF TiedOn
<1>8. \A k \in Locates : \A g \in OpenLevels(bs[k]) : g # Nil /\ g \in Handles(bs[k])
  <2>1. \A k \in Locates : InPlace(AllRefs, o, k, bs[k])
    BY <1>a DEF Sound
  <2> QED BY <2>1, OpenHandles DEF InPlace
<1>9. Live(after, x)
  BY <1>6, <1>7 DEF Live
<1>10. /\ Lined(after, c) /\ c[x] = Behind(o)
       /\ \A r \in Behind(o) : \A y \in AllRefs : y \in c[r] <=> y \in a[r]
       /\ \A r \in AllRefs : x \notin c[r]
  BY <1>a, <1>b, <1>4, <1>9, BehindLined
<1> HIDE DEF c
<1>11. ASSUME NEW k \in Locates, NEW g, g # Nil
       PROVE  /\ \A r : r \in Queue(o, k, g) <=> r \in AllRefs /\ o[r].level = g /\ o[r].locate = k
              /\ Queue(after, k, g) = IF k = l /\ g = h THEN Queue(o, k, g) \cup {x}
                                                        ELSE Queue(o, k, g)
              /\ x \notin Queue(o, k, g) /\ Queue(o, k, g) \subseteq Behind(o)
              /\ Queue(o, k, g) \subseteq AllRefs
  <2>1. /\ \A r : r \in Queue(o, k, g) <=> r \in AllRefs /\ o[r].level = g /\ o[r].locate = k
        /\ \A r : r \in Queue(after, k, g)
                   <=> r \in AllRefs /\ after[r].level = g /\ after[r].locate = k
    BY <1>a, <1>4, <1>11, QueueRanked
  <2>2. x \notin Queue(o, k, g) /\ Queue(o, k, g) \subseteq Behind(o)
    BY <1>11, <2>1 DEF Live, Behind
  <2>3. x \in Queue(after, k, g) <=> k = l /\ g = h
    BY <1>b, <1>4, <1>6, <2>1
  <2>4. \A r : r # x => (r \in Queue(after, k, g) <=> r \in Queue(o, k, g))
    BY <1>4, <2>1 DEF SameSeats
  <2> QED BY <2>1, <2>2, <2>3, <2>4
<1>12. ASSUME NEW k \in Locates, NEW g \in OpenLevels(cs[k])
       PROVE  Threaded(after, c, Queue(after, k, g), cs[k].levels[g].head, cs[k].levels[g].tail)
  <2> DEFINE q == Queue(o, k, g)
  <2>1. g # Nil
    BY <1>4, <1>7, <1>8, <1>12
  <2>2. Ranked(q, a) /\ NilRef \notin q
    BY <1>a, <2>1, QueueRanked
  <2>3. x \notin q /\ q \subseteq Behind(o) /\ q \subseteq AllRefs
    BY <1>11, <2>1
  <2>4. \A r, y \in q : y \in c[r] <=> y \in a[r]
    BY <1>10, <2>3
  <2> DEFINE back == IF h \in OpenLevels(bs[l]) THEN bs[l].levels[h].tail ELSE NilRef
  <2>5. /\ \A r \in AllRefs : r # x =>
             /\ after[r].prev = o[r].prev
             /\ after[r].next = IF r = back /\ r # NilRef THEN x ELSE o[r].next
        /\ after[x].prev = back /\ after[x].next = NilRef
        /\ cs[l].levels[h].tail = x
        /\ back = NilRef => cs[l].levels[h].head = x
        /\ back # NilRef => cs[l].levels[h].head = bs[l].levels[h].head
    <3>1. /\ \A r \in DOMAIN o \ {x} :
               /\ st.os[r].prev = o[r].prev
               /\ st.os[r].next = IF r = back /\ r # NilRef THEN x ELSE o[r].next
          /\ st.os[x].prev = back /\ st.os[x].next = NilRef
          /\ st.book.levels[h].tail = x
          /\ back = NilRef => st.book.levels[h].head = x
          /\ back # NilRef => st.book.levels[h].head = bs[l].levels[h].head
      BY <1>3 DEF TiedOn
    <3> HIDE DEF back
    <3> QED BY <1>1, <1>5, <1>6, <3>1
  <2>6. CASE k = l /\ g = h
    <3>1. PICK hd : /\ Threaded(o, a, q, hd, back)
                    /\ back # NilRef => cs[l].levels[h].head = hd
      <4>1. CASE h \in OpenLevels(bs[l])
        <5>1. Threaded(o, a, q, bs[l].levels[h].head, back)
          BY <1>a, <2>6, <4>1 DEF Threads
        <5> QED BY <2>5, <5>1
      <4>2. CASE h \notin OpenLevels(bs[l])
        <5>1. q = {}
          <6> SUFFICES ASSUME NEW r \in q PROVE FALSE
            OBVIOUS
          <6>1. r \in AllRefs /\ AtBook(o, r, l) /\ o[r].level = h
            BY <1>7, <1>11, <2>1, <2>6 DEF AtBook
          <6> QED BY <1>1, <4>2, <6>1, SeatFacts
        <5>2. Threaded(o, a, q, NilRef, back)
          BY <4>2, <5>1 DEF Threaded, First, Final
        <5> QED BY <4>2, <5>2
      <4> QED BY <4>1, <4>2
    <3>2. \A r \in q : /\ after[r].prev = o[r].prev
                       /\ r = back => after[r].next = x
                       /\ r # back => after[r].next = o[r].next
      BY <2>2, <2>3, <2>5
    <3>3. (\A r \in q : r \in c[x] /\ x \notin c[r]) /\ x \notin c[x]
      BY <1>b, <1>10, <2>3
    <3> HIDE DEF q, back
    <3> DEFINE head == cs[k].levels[g].head
    <3>4. (back = NilRef => head = x) /\ (back # NilRef => head = hd)
      BY <2>5, <2>6, <3>1
    <3> HIDE DEF head
    <3>5. Threaded(after, c, q \cup {x}, head, x)
      <4>1. x \notin q /\ x # NilRef /\ after[x].prev = back /\ after[x].next = NilRef
        BY <1>b, <2>3, <2>5
      <4>2. Ranked(q, a) /\ Threaded(o, a, q, hd, back)
        BY <2>2, <3>1
      <4> QED BY ONLY <2>4, <3>2, <3>3, <3>4, <4>1, <4>2, Thread
    <3>6. Queue(after, k, g) = q \cup {x}
      BY <1>11, <2>1, <2>6 DEF q
    <3> QED BY <2>5, <2>6, <3>5, <3>6 DEF head
  <2>7. CASE ~ (k = l /\ g = h)
    <3>1. Queue(after, k, g) = q
      BY <1>11, <2>1, <2>7
    <3>2. g \in OpenLevels(bs[k]) /\ cs[k].levels[g] = bs[k].levels[g]
      BY <1>4, <1>7, <1>8, <1>12, <2>7
    <3>3. Threaded(o, a, q, bs[k].levels[g].head, bs[k].levels[g].tail)
      BY <1>a, <3>2 DEF Threads
    <3>4. back \notin q
      <4> SUFFICES ASSUME back \in q PROVE FALSE
        OBVIOUS
      <4>1. h \in OpenLevels(bs[l]) /\ back = bs[l].levels[h].tail
        BY <2>2
      <4>2. Final(back, Queue(o, l, h), a)
        BY <1>a, <4>1 DEF Threads, Threaded
      <4>3. back \in Queue(o, l, h)
        BY <2>2, <4>2 DEF Final
      <4>4. o[back].level = h /\ o[back].locate = l
        BY <1>7, <1>11, <4>3
      <4>5. o[back].level = g /\ o[back].locate = k
        BY <1>11, <2>1
      <4> QED BY <2>7, <4>4, <4>5
    <3>5. \A r \in q : after[r].prev = o[r].prev /\ after[r].next = o[r].next
      BY <2>3, <2>5, <3>4
    <3> HIDE DEF q, back
    <3>6. Threaded(after, c, q, bs[k].levels[g].head, bs[k].levels[g].tail)
      BY <2>4, <3>3, <3>5, FrameThreaded
    <3> QED BY <3>1, <3>2, <3>6
  <2> QED BY <2>6, <2>7
<1>13. Ordered(after, cs, c)
  BY <1>4, <1>10, <1>12 DEF Ordered, Threads
<1>14. Others(o, bs, after, cs, x)
  <2>1. \A k \in Locates : \A g \in OpenLevels(bs[k]) :
          cs[k].levels[g].key = bs[k].levels[g].key
    BY <1>4, <1>7, <1>8
  <2> QED BY <1>a, <1>4, <2>1, OthersKeep
<1>15. OrderAt([os |-> after, books |-> cs], x)
         = [locate |-> l, buy |-> o[x].buy, qty |-> o[x].qty, price |-> price]
  <2>1. Key(o[x].buy, key) = price
    BY DEF Key, key
  <2> QED BY <1>4, <1>6, <1>7, <2>1 DEF OrderAt
<1> QED BY <1>4, <1>13, <1>14, <1>15 DEF Queues, st, after, cs, c

\* An order shrinks in its place, or leaves.
LEMMA ReduceOrdered ==
  ASSUME NEW o, NEW bs, NEW a, Ordered(o, bs, a), NEW x \in AllRefs, Live(o, x),
         NEW shares \in Nat
  PROVE  LET l == o[x].locate
             st == Reduce([os |-> o, book |-> bs[l]], x, shares)
             cs == [bs EXCEPT ![l] = st.book]
             was == OrderAt([os |-> o, books |-> bs], x)
         IN /\ Others(o, bs, st.os, cs, x)
            /\ Taken(o, x, shares) = o[x].qty =>
                 Ordered(st.os, cs, Without(a, x)) /\ ~ Live(st.os, x)
            /\ Taken(o, x, shares) # o[x].qty =>
                 /\ Ordered(st.os, cs, a) /\ shares < o[x].qty
                 /\ OrderAt([os |-> st.os, books |-> cs], x)
                      = [was EXCEPT !.qty = o[x].qty - shares]
                 /\ \A r \in AllRefs : Live(st.os, r) <=> Live(o, r)
<1> DEFINE l == o[x].locate
           st == Reduce([os |-> o, book |-> bs[l]], x, shares)
           cs == [bs EXCEPT ![l] = st.book]
           was == OrderAt([os |-> o, books |-> bs], x)
<1>a. Sound(o, bs) /\ Lined(o, a) /\ \A k \in Locates : Threads(o, a, k, bs[k])
  BY DEF Ordered
<1>1. CASE Taken(o, x, shares) = o[x].qty
  <2> DEFINE s == Dropped([os |-> o, books |-> bs], x)
  <2>1. st.os = s.os /\ cs = s.books
    BY <1>1 DEF Reduce, Dropped
  <2>2. /\ Ordered(s.os, s.books, Without(a, x)) /\ ~ Live(s.os, x)
        /\ Others(o, bs, s.os, s.books, x)
    BY DropOrdered
  <2> HIDE DEF s, st, cs
  <2>3. /\ Ordered(st.os, cs, Without(a, x)) /\ ~ Live(st.os, x)
        /\ Others(o, bs, st.os, cs, x)
    BY <2>1, <2>2
  <2> QED BY <1>1, <2>3 DEF st, cs
<1>2. CASE Taken(o, x, shares) # o[x].qty
  <2>1. /\ Sound(st.os, cs) /\ l \in Locates /\ SameSeats(o, st.os, AllRefs \ {x})
        /\ \A k \in Locates : k # l => cs[k] = bs[k]
    BY <1>a, ReducedSound
  <2>2. o \in Stores(AllRefs, Locates) /\ InPlace(AllRefs, o, l, bs[l]) /\ AtBook(o, x, l)
    BY <1>a, <2>1 DEF Sound, AtBook, Live
  <2>3. /\ \A r \in AllRefs : /\ st.os[r].prev = o[r].prev /\ st.os[r].next = o[r].next
                              /\ st.os[r].level = o[r].level
                              /\ st.os[r].locate = o[r].locate /\ st.os[r].buy = o[r].buy
        /\ st.os[x].qty = o[x].qty - shares /\ shares < o[x].qty
        /\ \A g \in Handles(bs[l]) : /\ st.book.levels[g].key = bs[l].levels[g].key
                                     /\ st.book.levels[g].head = bs[l].levels[g].head
                                     /\ st.book.levels[g].tail = bs[l].levels[g].tail
        /\ OpenLevels(st.book) = OpenLevels(bs[l])
    BY <1>2, <2>2, ConstantFacts, ReduceTies
  <2>4. cs[l] = st.book
    BY <1>a, <2>1 DEF Sound
  <2> HIDE DEF st, cs
  <2>5. \A k \in Locates : \A g \in OpenLevels(bs[k]) : g # Nil /\ g \in Handles(bs[k])
    <3>1. \A k \in Locates : InPlace(AllRefs, o, k, bs[k])
      BY <1>a DEF Sound
    <3> QED BY <3>1, OpenHandles DEF InPlace
  <2>6. \A k \in Locates : OpenLevels(cs[k]) = OpenLevels(bs[k])
    BY <2>1, <2>3, <2>4
  <2>7. \A k \in Locates : \A g \in OpenLevels(bs[k]) :
          /\ cs[k].levels[g].key = bs[k].levels[g].key
          /\ cs[k].levels[g].head = bs[k].levels[g].head
          /\ cs[k].levels[g].tail = bs[k].levels[g].tail
    BY <2>1, <2>3, <2>4, <2>5
  <2>8. \A r \in AllRefs : Live(st.os, r) <=> Live(o, r)
    BY <2>3 DEF Live
  <2>9. Lined(st.os, a)
    <3>1. \A r \in AllRefs : \A y \in a[r] : y \in AllRefs
      BY <1>a DEF Lined
    <3> QED BY <1>a, <2>8, <3>1 DEF Lined
  <2>10. ASSUME NEW k \in Locates, NEW g \in OpenLevels(cs[k])
         PROVE  Threaded(st.os, a, Queue(st.os, k, g), cs[k].levels[g].head, cs[k].levels[g].tail)
    <3> DEFINE q == Queue(o, k, g)
    <3>1. g \in OpenLevels(bs[k]) /\ g # Nil
      BY <2>5, <2>6, <2>10
    <3>2. /\ \A r : r \in q <=> r \in AllRefs /\ o[r].level = g /\ o[r].locate = k
          /\ \A r : r \in Queue(st.os, k, g)
                     <=> r \in AllRefs /\ st.os[r].level = g /\ st.os[r].locate = k
      BY <1>a, <2>1, <3>1, QueueRanked
    <3>3. Queue(st.os, k, g) = q
      BY <2>3, <3>2
    <3>4. \A r \in q : st.os[r].prev = o[r].prev /\ st.os[r].next = o[r].next
      BY <2>3, <3>2
    <3>5. Threaded(o, a, q, bs[k].levels[g].head, bs[k].levels[g].tail)
      BY <1>a, <3>1 DEF Threads
    <3> HIDE DEF q
    <3>6. Threaded(st.os, a, q, bs[k].levels[g].head, bs[k].levels[g].tail)
      BY <3>4, <3>5, FrameThreaded
    <3> QED BY <2>7, <3>1, <3>3, <3>6
  <2>11. Ordered(st.os, cs, a)
    BY <2>1, <2>9, <2>10 DEF Ordered, Threads
  <2>12. Others(o, bs, st.os, cs, x)
    BY <1>a, <2>1, <2>7, OthersKeep
  <2>13. OrderAt([os |-> st.os, books |-> cs], x) = [was EXCEPT !.qty = o[x].qty - shares]
    <3> DEFINE q == o[x].qty - shares
    <3>1. o[x].level \in OpenLevels(bs[l]) /\ o[x].level # Nil
      BY <2>2, SeatFacts DEF AtBook
    <3>2. cs[l].levels[o[x].level].key = bs[l].levels[o[x].level].key
      BY <2>1, <2>7, <3>1
    <3>3. was = [locate |-> l, buy |-> o[x].buy, qty |-> o[x].qty,
                 price |-> Key(o[x].buy, bs[l].levels[o[x].level].key)]
      BY <3>1 DEF OrderAt
    <3>4. OrderAt([os |-> st.os, books |-> cs], x) =
            [locate |-> l, buy |-> o[x].buy, qty |-> q,
             price |-> Key(o[x].buy, bs[l].levels[o[x].level].key)]
      BY <2>3, <3>1, <3>2 DEF OrderAt
    <3> HIDE DEF q, l, was
    <3>5. [was EXCEPT !.qty = q] = [locate |-> l, buy |-> o[x].buy, qty |-> q,
             price |-> Key(o[x].buy, bs[l].levels[o[x].level].key)]
      BY <3>3
    <3> QED BY <3>4, <3>5 DEF q
  <2> QED BY <1>2, <2>3, <2>8, <2>11, <2>12, <2>13 DEF st, cs
<1> QED BY <1>1, <1>2

-----------------------------------------------------------------------------
(* What a step means to the price-time queue.                              *)

\* The references orders rest under are the live ones.
LEMMA RestingLive ==
  ASSUME NEW o, NEW bs, Sound(o, bs), NEW r \in AllRefs
  PROVE  /\ OrderAt([os |-> o, books |-> bs], r) # Absent <=> Live(o, r)
         /\ Live(o, r) => /\ OrderAt([os |-> o, books |-> bs], r).qty = o[r].qty
                          /\ OrderAt([os |-> o, books |-> bs], r).locate = o[r].locate
                          /\ OrderAt([os |-> o, books |-> bs], r).buy = o[r].buy
                          /\ o[r].qty \in Nat
<1>1. CASE ~ Live(o, r)
  BY <1>1 DEF OrderAt, Live
<1>2. CASE Live(o, r)
  <2> DEFINE l == o[r].locate
             h == o[r].level
             p == Key(o[r].buy, bs[l].levels[h].key)
  <2>1. /\ o \in Stores(AllRefs, Locates) /\ o[r] \in Order(AllRefs, Locates)
        /\ l \in Locates /\ InPlace(AllRefs, o, l, bs[l]) /\ AtBook(o, r, l)
    BY <1>2 DEF Sound, Stores, Order, AtBook, Live
  <2>2. bs[l].levels[h].key \in Int
    BY <2>1, SeatFacts DEF Level
  <2>3. p \in Int /\ l \in Nat /\ o[r].buy \in BOOLEAN /\ o[r].qty \in Nat
    BY <2>1, <2>2, ConstantFacts DEF Key, Order
  <2>4. OrderAt([os |-> o, books |-> bs], r)
          = [locate |-> l, buy |-> o[r].buy, qty |-> o[r].qty, price |-> p]
    BY <1>2 DEF OrderAt, Live
  <2> HIDE DEF l, p
  <2>5. [locate |-> l, buy |-> o[r].buy, qty |-> o[r].qty, price |-> p]
          \in [locate : Nat, buy : BOOLEAN, qty : Nat, price : Int]
    BY <2>3
  <2> QED BY <1>2, <2>3, <2>4, <2>5, AbsentAssumption DEF l
<1> QED BY <1>1, <1>2

\* Resting, in PriceTimeQueue, and what the history of a live order can name.
LEMMA LineFacts ==
  ASSUME Sound(os, books), Lined(os, ahead)
  PROVE  /\ Line!Resting = LiveRefs /\ LiveRefs \subseteq Refs /\ LiveRefs \subseteq AllRefs
         /\ \A r \in Refs : RestingOrders[r] = OrderAt(Now, r)
         /\ \A r \in Refs : RestingOrders'[r] = OrderAt(Now', r)
         /\ RestingOrders' = [r \in Refs |-> RestingOrders'[r]]
         /\ \A r \in AllRefs : ahead[r] \subseteq LiveRefs
         /\ \A r \in LiveRefs : /\ RestingOrders[r].qty = os[r].qty /\ os[r].qty \in Nat
                                /\ RestingOrders[r].locate = os[r].locate
                                /\ RestingOrders[r].buy = os[r].buy
<1>1. Refs \subseteq AllRefs
  BY ConstantFacts
<1>2. LiveRefs \subseteq Refs /\ LiveRefs \subseteq AllRefs
  BY DEF LiveRefs, Sound
<1>3. /\ \A r \in Refs : RestingOrders[r] = OrderAt(Now, r)
      /\ \A r \in Refs : RestingOrders'[r] = OrderAt(Now', r)
      /\ RestingOrders' = [r \in Refs |-> RestingOrders'[r]]
  BY DEF RestingOrders
<1>4. \A r \in AllRefs : /\ OrderAt(Now, r) # Absent <=> Live(os, r)
                         /\ Live(os, r) => /\ OrderAt(Now, r).qty = os[r].qty
                                           /\ OrderAt(Now, r).locate = os[r].locate
                                           /\ OrderAt(Now, r).buy = os[r].buy
                                           /\ os[r].qty \in Nat
  BY RestingLive DEF Now
<1>5. Line!Resting = LiveRefs
  BY <1>1, <1>2, <1>3, <1>4 DEF Line!Resting, LiveRefs
<1>6. \A r \in AllRefs : ahead[r] \subseteq LiveRefs
  BY DEF Lined, LiveRefs
<1>7. \A r \in LiveRefs : /\ RestingOrders[r].qty = os[r].qty /\ os[r].qty \in Nat
                          /\ RestingOrders[r].locate = os[r].locate
                          /\ RestingOrders[r].buy = os[r].buy
  BY <1>2, <1>3, <1>4 DEF LiveRefs
<1> QED BY <1>2, <1>3, <1>5, <1>6, <1>7

\* The orders of left go and, but for them, only that of ref changes.
LeavesLine(left) ==
  /\ \A r \in left : ~ Live(os', r)
  /\ \A r \in AllRefs \ left : OrderAt(Now', r) = OrderAt(Now, r)
  /\ ahead' = Departed(left)

JoinsLine(left, ref) ==
  /\ \A r \in left \ {ref} : ~ Live(os', r)
  /\ \A r \in AllRefs \ (left \cup {ref}) : OrderAt(Now', r) = OrderAt(Now, r)
  /\ OrderAt(Now', ref) \in [locate : Locates, buy : BOOLEAN,
                             price : Prices \ {0}, qty : Sizes \ {0}]
  /\ ahead' = Arrived(left, ref)

\* Orders that go, and nothing else, are a Leave.
LEMMA LeavesAs ==
  ASSUME Ordered(os, books, ahead), Ordered(os', books', ahead'),
         NEW left \in SUBSET LiveRefs, left # {}, LeavesLine(left)
  PROVE  Line!Leave(left)
<1>a. Sound(os, books) /\ Lined(os, ahead) /\ Sound(os', books')
  BY DEF Ordered
<1>1. /\ Line!Resting = LiveRefs /\ LiveRefs \subseteq Refs /\ LiveRefs \subseteq AllRefs
      /\ \A r \in Refs : RestingOrders[r] = OrderAt(Now, r)
      /\ \A r \in Refs : RestingOrders'[r] = OrderAt(Now', r)
      /\ RestingOrders' = [r \in Refs |-> RestingOrders'[r]]
  BY <1>a, LineFacts
<1>2. \A r \in left : OrderAt(Now', r) = Absent
  BY <1>a, <1>1, RestingLive DEF LeavesLine, Now
<1>3. \A r \in Refs : RestingOrders'[r] = IF r \in left THEN Absent ELSE RestingOrders[r]
  BY <1>1, <1>2, ConstantFacts DEF LeavesLine
<1>4. RestingOrders' = [r \in Refs |-> IF r \in left THEN Absent ELSE RestingOrders[r]]
  BY <1>1, <1>3
<1>5. [r \in Refs |-> ahead'[r]] =
        [r \in Refs |-> IF r \in left THEN {} ELSE [q \in Refs |-> ahead[q]][r] \ left]
  BY ConstantFacts DEF LeavesLine, Departed
<1> QED BY <1>1, <1>4, <1>5 DEF Line!Leave

\* Orders that go while one arrives are an Arrive.
LEMMA JoinsAs ==
  ASSUME Ordered(os, books, ahead), Ordered(os', books', ahead'), NEW ref \in Refs,
         NEW left \in SUBSET (LiveRefs \cup {ref}), Live(os, ref) => ref \in left,
         JoinsLine(left, ref)
  PROVE  Line!Arrive(ref, left \cap Line!Resting)
<1> DEFINE gone == left \cap Line!Resting
<1>a. Sound(os, books) /\ Lined(os, ahead) /\ Sound(os', books')
  BY DEF Ordered
<1>1. /\ Line!Resting = LiveRefs /\ LiveRefs \subseteq Refs /\ LiveRefs \subseteq AllRefs
      /\ \A r \in Refs : RestingOrders[r] = OrderAt(Now, r)
      /\ \A r \in Refs : RestingOrders'[r] = OrderAt(Now', r)
      /\ RestingOrders' = [r \in Refs |-> RestingOrders'[r]]
      /\ \A r \in AllRefs : ahead[r] \subseteq LiveRefs
  BY <1>a, LineFacts
<1>2. \A r \in left \ {ref} : r \in AllRefs /\ r \in gone /\ OrderAt(Now', r) = Absent
  BY <1>a, <1>1, RestingLive DEF JoinsLine, Now
<1>3. RestingOrders'[ref] \in Line!Orders
  BY <1>1 DEF JoinsLine, Line!Orders
<1>4. \A r \in Refs : RestingOrders'[r] = IF r = ref THEN RestingOrders'[ref]
                                          ELSE IF r \in gone THEN Absent ELSE RestingOrders[r]
  BY <1>1, <1>2, ConstantFacts DEF JoinsLine
<1>5. RestingOrders' = [r \in Refs |-> IF r = ref THEN RestingOrders'[ref]
                                       ELSE IF r \in gone THEN Absent ELSE RestingOrders[r]]
  BY <1>1, <1>4
<1>6. \A r \in Refs : ahead'[r] = IF r = ref THEN Line!Resting \ gone
                                  ELSE IF r \in gone THEN {} ELSE ahead[r] \ gone
  <2> SUFFICES ASSUME NEW r \in Refs
               PROVE  ahead'[r] = IF r = ref THEN Line!Resting \ gone
                                  ELSE IF r \in gone THEN {} ELSE ahead[r] \ gone
    OBVIOUS
  <2>1. r \in AllRefs /\ ref \in AllRefs
    BY ConstantFacts
  <2>2. ahead'[r] = IF r = ref THEN LiveRefs \ left
                    ELSE IF r \in left THEN {} ELSE ahead[r] \ left
    BY <2>1 DEF JoinsLine, Arrived, Departed
  <2>3. LiveRefs \ left = Line!Resting \ gone /\ ahead[r] \ left = ahead[r] \ gone
    BY <1>1, <2>1
  <2>4. r # ref => (r \in left <=> r \in gone)
    BY <1>2
  <2> QED BY <2>2, <2>3, <2>4
<1>7. [r \in Refs |-> ahead'[r]] =
        [r \in Refs |-> IF r = ref THEN Line!Resting \ gone
                        ELSE IF r \in gone THEN {} ELSE [q \in Refs |-> ahead[q]][r] \ gone]
  BY <1>6
<1>8. ref \notin Line!Resting \ gone
  BY <1>1 DEF LiveRefs
<1> HIDE DEF gone
<1>9. Line!Arrive(ref, gone)
  BY <1>3, <1>5, <1>7, <1>8 DEF Line!Arrive
<1> QED BY <1>9 DEF gone

-----------------------------------------------------------------------------
(* The handlers.                                                           *)

\* The history names no order that left, nor is one behind anybody.
LEMMA HistoryFacts ==
  ASSUME Lined(os, ahead), NEW x \in AllRefs
  PROVE  /\ Departed({x}) = Without(ahead, x)
         /\ \A y : Departed({y, x}) = Without(Without(ahead, x), y)
         /\ ~ Live(os, x) => \A s : [ahead EXCEPT ![x] = s] = [Departed({x}) EXCEPT ![x] = s]
<1>1. Departed({x}) = Without(ahead, x)
  <2>1. \A r \in AllRefs : r \in {x} <=> r = x
    OBVIOUS
  <2> QED BY <2>1 DEF Departed, Without
<1>2. ASSUME NEW y PROVE Departed({y, x}) = Without(Without(ahead, x), y)
  <2>1. \A r \in AllRefs : Departed({y, x})[r] = Without(Without(ahead, x), y)[r]
    BY DEF Departed, Without
  <2> QED BY <2>1 DEF Departed, Without
<1>3. ASSUME ~ Live(os, x), NEW s
      PROVE  [ahead EXCEPT ![x] = s] = [Departed({x}) EXCEPT ![x] = s]
  <2>1. ahead \in [AllRefs -> SUBSET AllRefs] /\ \A r \in AllRefs : x \notin ahead[r]
    BY <1>3 DEF Lined
  <2>2. \A r \in AllRefs : r # x => Departed({x})[r] = ahead[r]
    BY <2>1 DEF Departed
  <2>3. Departed({x}) = [r \in AllRefs |-> Departed({x})[r]]
    BY DEF Departed
  <2> QED BY <2>1, <2>2, <2>3
<1> QED BY <1>1, <1>2, <1>3

\* An order evicted from its queue, if there is one.
LEMMA EvictOrdered ==
  ASSUME Ordered(os, books, ahead), NEW x \in AllRefs, NEW dup, dup => Live(os, x),
         NEW s, dup => s = Dropped(Now, x), ~ dup => s = Now,
         NEW c, dup => c = Without(ahead, x), ~ dup => c = ahead
  PROVE  /\ Ordered(s.os, s.books, c) /\ SameSeats(os, s.os, AllRefs \ {x})
         /\ Others(os, books, s.os, s.books, x)
         /\ dup => ~ Live(s.os, x)
         /\ ~ dup => s.os = os /\ s.books = books
<1>1. CASE dup
  <2>1. s = Dropped([os |-> os, books |-> books], x) /\ c = Without(ahead, x)
    BY <1>1 DEF Now
  <2>2. Live(os, x)
    BY <1>1
  <2> DEFINE t == Dropped([os |-> os, books |-> books], x)
  <2>3. /\ Ordered(t.os, t.books, Without(ahead, x)) /\ ~ Live(t.os, x)
        /\ SameSeats(os, t.os, AllRefs \ {x}) /\ Others(os, books, t.os, t.books, x)
    BY <2>2, DropOrdered
  <2> HIDE DEF t
  <2> QED BY <1>1, <2>1, <2>3 DEF t
<1>2. CASE ~ dup
  <2>1. s.os = os /\ s.books = books /\ c = ahead
    BY <1>2 DEF Now
  <2>2. SameSeats(os, os, AllRefs \ {x}) /\ Others(os, books, os, books, x)
    BY DEF SameSeats, Others
  <2> QED BY <1>2, <2>1, <2>2
<1> QED BY <1>1, <1>2

\* What the handlers do to the orders at rest.
Stay == UNCHANGED <<os, books, ahead>>

DeleteDoes(ref) == IF Live(os, ref) THEN LeavesLine({ref}) ELSE Stay

ReduceDoes(ref, shares) ==
  IF ~ Live(os, ref) THEN Stay
  ELSE IF Taken(os, ref, shares) = os[ref].qty THEN LeavesLine({ref})
  ELSE /\ shares < os[ref].qty /\ ahead' = ahead /\ Live(os', ref)
       /\ OrderAt(Now', ref) = [OrderAt(Now, ref) EXCEPT !.qty = os[ref].qty - shares]
       /\ \A r \in AllRefs \ {ref} : OrderAt(Now', r) = OrderAt(Now, r)

AddDoes(ref, l, buy, price, shares) ==
  IF ~ Accepts(ref, price, shares) THEN Stay
  ELSE /\ JoinsLine({ref}, ref)
       /\ OrderAt(Now', ref) = [locate |-> l, buy |-> buy, qty |-> shares, price |-> price]

ReplaceDoes(old, new, price, shares) ==
  LET left == {old} \cup ({new} \cap LiveRefs)
  IN IF ~ Live(os, old) THEN Stay
     ELSE IF ~ Accepts(new, price, shares) THEN LeavesLine(left)
     ELSE /\ JoinsLine(left, new)
          /\ OrderAt(Now', new) = [locate |-> os[old].locate, buy |-> os[old].buy,
                                   qty |-> shares, price |-> price]

\* What a handler leaves: queues in order, and a step of the abstract queue.
Served == Ordered(os', books', ahead') /\ [Line!Next]_(Line!vars)

\* A handler that touches no order.
LEMMA IdleServed ==
  ASSUME Ordered(os, books, ahead), UNCHANGED <<os, books, ahead>>
  PROVE  Served
<1>1. UNCHANGED Line!vars
  <2>1. RestingOrders' = RestingOrders
    BY DEF RestingOrders, OrderAt, Now
  <2>2. [r \in Refs |-> ahead[r]]' = [r \in Refs |-> ahead[r]]
    OBVIOUS
  <2> QED BY <2>1, <2>2 DEF Line!vars
<1> QED BY <1>1 DEF Served

\* One order leaves.
LEMMA AloneServed ==
  ASSUME Ordered(os, books, ahead), Ordered(os', books', ahead'), NEW ref \in AllRefs,
         Live(os, ref), LeavesLine({ref})
  PROVE  Served
<1>1. Line!Leave({ref}) /\ ref \in Refs
  BY LeavesAs DEF LiveRefs, Ordered, Sound
<1>2. {ref} = {ref, ref}
  OBVIOUS
<1>3. Line!Next
  BY <1>1, <1>2 DEF Line!Next
<1> QED BY <1>3 DEF Served

\* on_delete: the order leaves, and its neighbours are tied to each other.
LEMMA DeleteDone ==
  ASSUME Ordered(os, books, ahead), NEW ref \in AllRefs, OnDelete(ref)
  PROVE  Ordered(os', books', ahead') /\ DeleteDoes(ref)
<1>1. CASE ~ Live(os, ref)
  BY <1>1 DEF OnDelete, MissingRef, DeleteDoes, Stay
<1>2. CASE Live(os, ref)
  <2> DEFINE s == Dropped([os |-> os, books |-> books], ref)
  <2>1. os' = s.os /\ books' = s.books /\ ahead' = Departed({ref})
    BY <1>2 DEF OnDelete, Now
  <2>2. /\ Ordered(s.os, s.books, Without(ahead, ref)) /\ ~ Live(s.os, ref)
        /\ Others(os, books, s.os, s.books, ref)
    BY <1>2, DropOrdered
  <2> HIDE DEF s
  <2>3. Departed({ref}) = Without(ahead, ref)
    BY HistoryFacts DEF Ordered
  <2>4. Ordered(os', books', ahead')
    BY <2>1, <2>2, <2>3
  <2>5. LeavesLine({ref})
    BY <2>1, <2>2 DEF LeavesLine, Others, Now
  <2> QED BY <1>2, <2>4, <2>5 DEF DeleteDoes
<1> QED BY <1>1, <1>2

\* So on_delete is a departure of the queue, or nothing to it.
LEMMA DeleteServed ==
  ASSUME Ordered(os, books, ahead), NEW ref \in AllRefs, OnDelete(ref)
  PROVE  Served
<1>1. Ordered(os', books', ahead') /\ DeleteDoes(ref)
  BY DeleteDone
<1>2. CASE ~ Live(os, ref)
  BY <1>1, <1>2, IdleServed DEF DeleteDoes, Stay
<1>3. CASE Live(os, ref)
  BY <1>1, <1>3, AloneServed DEF DeleteDoes
<1> QED BY <1>2, <1>3

\* on_execute, on_cancel: the order shrinks where it stands, or leaves.
LEMMA ReduceDone ==
  ASSUME Ordered(os, books, ahead), NEW ref \in AllRefs, NEW shares \in Sizes, NEW counter,
         ReduceOrder(ref, shares, counter)
  PROVE  Ordered(os', books', ahead') /\ ReduceDoes(ref, shares)
<1>1. CASE ~ Live(os, ref)
  BY <1>1 DEF ReduceOrder, MissingRef, ReduceDoes, Stay
<1>2. CASE Live(os, ref)
  <2> DEFINE l    == os[ref].locate
             done == Reduce([os |-> os, book |-> books[l]], ref, shares)
             bs   == [books EXCEPT ![l] = done.book]
             was  == OrderAt([os |-> os, books |-> books], ref)
             left == os[ref].qty - shares
  <2>1. /\ os' = done.os /\ books' = bs
        /\ ahead' = IF Taken(os, ref, shares) = os[ref].qty THEN Departed({ref}) ELSE ahead
    BY <1>2 DEF ReduceOrder
  <2>2. /\ Others(os, books, done.os, bs, ref)
        /\ Taken(os, ref, shares) = os[ref].qty =>
             Ordered(done.os, bs, Without(ahead, ref)) /\ ~ Live(done.os, ref)
        /\ Taken(os, ref, shares) # os[ref].qty =>
             /\ Ordered(done.os, bs, ahead) /\ shares < os[ref].qty
             /\ OrderAt([os |-> done.os, books |-> bs], ref) = [was EXCEPT !.qty = left]
             /\ \A r \in AllRefs : Live(done.os, r) <=> Live(os, r)
    BY <1>2, ConstantFacts, ReduceOrdered
  <2> HIDE DEF done, bs
  <2>3. Departed({ref}) = Without(ahead, ref)
    BY HistoryFacts DEF Ordered
  <2>4. CASE Taken(os, ref, shares) = os[ref].qty
    <3>1. Ordered(os', books', ahead')
      BY <2>1, <2>2, <2>3, <2>4
    <3>2. LeavesLine({ref})
      BY <2>1, <2>2, <2>3, <2>4 DEF LeavesLine, Others, Now
    <3> QED BY <1>2, <2>4, <3>1, <3>2 DEF ReduceDoes
  <2>5. CASE Taken(os, ref, shares) # os[ref].qty
    <3>1. Ordered(os', books', ahead') /\ ahead' = ahead /\ shares < os[ref].qty
      BY <2>1, <2>2, <2>5
    <3>2. \A r \in AllRefs \ {ref} : OrderAt(Now', r) = OrderAt(Now, r)
      BY <2>1, <2>2 DEF Others, Now
    <3>3. OrderAt(Now', ref) = [was EXCEPT !.qty = left]
      <4> HIDE DEF was, left
      <4> QED BY <2>1, <2>2, <2>5 DEF Now
    <3>4. OrderAt(Now, ref) = was /\ Live(os', ref)
      BY <1>2, <2>1, <2>2, <2>5 DEF Now
    <3> HIDE DEF was
    <3> QED BY <1>2, <2>5, <3>1, <3>2, <3>3, <3>4 DEF ReduceDoes
  <2> QED BY <2>4, <2>5
<1> QED BY <1>1, <1>2

\* So is a reduction: one order shrinks, one leaves, or nothing happens.
LEMMA ReduceServed ==
  ASSUME Ordered(os, books, ahead), NEW ref \in AllRefs, NEW shares \in Sizes, NEW counter,
         ReduceOrder(ref, shares, counter)
  PROVE  Served
<1>a. Ordered(os', books', ahead') /\ ReduceDoes(ref, shares)
  BY ReduceDone
<1>b. Sound(os, books) /\ Lined(os, ahead)
  BY DEF Ordered
<1>1. CASE ~ Live(os, ref)
  BY <1>a, <1>1, IdleServed DEF ReduceDoes, Stay
<1>2. CASE Live(os, ref) /\ Taken(os, ref, shares) = os[ref].qty
  BY <1>a, <1>2, AloneServed DEF ReduceDoes
<1>3. CASE Live(os, ref) /\ Taken(os, ref, shares) # os[ref].qty
  <2> DEFINE was  == OrderAt(Now, ref)
             left == os[ref].qty - shares
  <2>1. /\ shares < os[ref].qty /\ ahead' = ahead
        /\ OrderAt(Now', ref) = [was EXCEPT !.qty = left]
        /\ \A r \in AllRefs \ {ref} : OrderAt(Now', r) = OrderAt(Now, r)
    BY <1>a, <1>3 DEF ReduceDoes
  <2>2. /\ Line!Resting = LiveRefs
        /\ \A r \in Refs : RestingOrders[r] = OrderAt(Now, r)
        /\ \A r \in Refs : RestingOrders'[r] = OrderAt(Now', r)
        /\ RestingOrders' = [r \in Refs |-> RestingOrders'[r]]
        /\ \A r \in LiveRefs : RestingOrders[r].qty = os[r].qty /\ os[r].qty \in Nat
    BY <1>b, LineFacts
  <2>3. ref \in Refs /\ ref \in LiveRefs
    BY <1>3, <1>b DEF Sound, LiveRefs
  <2>4. \A r \in Refs : r # ref => RestingOrders'[r] = RestingOrders[r]
    <3> HIDE DEF was, left
    <3> QED BY <2>1, <2>2, ConstantFacts
  <2>5. left \in 1 .. RestingOrders[ref].qty
    <3>1. /\ RestingOrders[ref].qty = os[ref].qty /\ os[ref].qty \in Nat
          /\ shares \in Nat /\ shares < os[ref].qty
      <4> HIDE DEF was, left
      <4> QED BY <2>1, <2>2, <2>3, ConstantFacts
    <3> QED BY <3>1
  <2>6. RestingOrders'[ref] = [RestingOrders[ref] EXCEPT !.qty = left]
    <3> HIDE DEF left
    <3> QED BY <2>1, <2>2, <2>3
  <2> HIDE DEF left, was
  <2>7. RestingOrders' = [RestingOrders EXCEPT ![ref].qty = left]
    <3>1. RestingOrders = [r \in Refs |-> RestingOrders[r]]
      BY DEF RestingOrders
    <3> QED BY <2>2, <2>3, <2>4, <2>6, <3>1
  <2>8. [r \in Refs |-> ahead[r]]' = [r \in Refs |-> ahead[r]]
    BY <2>1
  <2>9. Line!Shrink(ref)
    BY <2>2, <2>3, <2>5, <2>7, <2>8 DEF Line!Shrink
  <2>10. Line!Next
    BY <2>3, <2>9 DEF Line!Next
  <2> QED BY <1>a, <2>10 DEF Served
<1> QED BY <1>1, <1>2, <1>3

\* on_add: the order goes to the back, the one it may evict leaves from anywhere.
LEMMA AddDone ==
  ASSUME Ordered(os, books, ahead), NEW ref \in AllRefs, NEW l \in Locates,
         NEW buy \in BOOLEAN, NEW price \in Prices, NEW shares \in Sizes,
         OnAdd(ref, l, buy, price, shares)
  PROVE  Ordered(os', books', ahead') /\ AddDoes(ref, l, buy, price, shares)
<1>1. CASE ~ Accepts(ref, price, shares)
  BY <1>1 DEF OnAdd, AddDoes, Stay
<1>2. CASE Accepts(ref, price, shares)
  <2> DEFINE dup  == Live(os, ref)
             s    == IF dup THEN Dropped(Now, ref) ELSE Now
             c    == IF dup THEN Without(ahead, ref) ELSE ahead
             seat == [s.os[ref] EXCEPT !.qty = shares, !.locate = l, !.buy = buy]
             o    == [s.os EXCEPT ![ref] = seat]
             done == Add([os |-> o, book |-> s.books[l]], ref, price)
             bs   == [s.books EXCEPT ![l] = done.book]
  <2>1. os' = done.os /\ books' = bs /\ ahead' = Arrived({ref}, ref)
    BY <1>2 DEF OnAdd
  <2>2. /\ ref \in Refs /\ price \in Int /\ price > 0 /\ shares \in Nat /\ shares > 0
        /\ shares \in Sizes \ {0} /\ price \in Prices \ {0}
    BY <1>2, ConstantFacts DEF Accepts, AllRefs
  <2>3. /\ Ordered(s.os, s.books, c) /\ SameSeats(os, s.os, AllRefs \ {ref})
        /\ Others(os, books, s.os, s.books, ref)
        /\ dup => ~ Live(s.os, ref)
        /\ ~ dup => s.os = os /\ s.books = books
    BY EvictOrdered
  <2>4. /\ c = IF dup THEN Departed({ref}) ELSE ahead
        /\ ~ dup => \A t : [ahead EXCEPT ![ref] = t] = [Departed({ref}) EXCEPT ![ref] = t]
    BY HistoryFacts DEF Ordered
  <2> HIDE DEF s
  <2>5. ~ Live(s.os, ref)
    BY <2>3
  <2>6. /\ seat \in Order(AllRefs, Locates) /\ seat.level = s.os[ref].level
        /\ seat.locate = l /\ seat.qty = shares /\ seat.buy = buy
    <3>1. s.os[ref] \in Order(AllRefs, Locates)
      BY <2>3 DEF Ordered, Sound, Stores
    <3> QED BY <2>2, <3>1 DEF Order
  <2> HIDE DEF seat, c
  <2>7. /\ Ordered(o, s.books, c) /\ ~ Live(o, ref) /\ o[ref] = seat
        /\ Others(s.os, s.books, o, s.books, ref)
        /\ \A r \in AllRefs : Live(o, r) <=> Live(s.os, r)
    BY <2>3, <2>5, <2>6, SeatOrdered
  <2> HIDE DEF o
  <2> DEFINE after == [done.os EXCEPT ![ref] = [@ EXCEPT !.locate = l]]
             d == [c EXCEPT ![ref] = Behind(o)]
  <2>8. o[ref].qty > 0 /\ o[ref].locate = l /\ o[ref].qty = shares /\ o[ref].buy = buy
    BY <2>2, <2>6, <2>7
  <2>9. /\ Ordered(after, bs, d) /\ Others(o, s.books, after, bs, ref)
        /\ OrderAt([os |-> after, books |-> bs], ref)
             = [locate |-> l, buy |-> buy, qty |-> shares, price |-> price]
        /\ after = done.os
    <3>1. Ordered(o, s.books, c) /\ ~ Live(o, ref) /\ o[ref].qty > 0
      BY <2>7, <2>8
    <3>2. Queues(o, s.books, c, ref, l, price, done)
      <4> HIDE DEF dup
      <4> QED BY ONLY <2>2, <3>1, l \in Locates, AddOrdered
    <3> HIDE DEF done
    <3> QED BY <2>8, <3>2 DEF Queues
  <2> HIDE DEF after, bs, done
  <2>10. os' = after /\ books' = bs
    BY <2>1, <2>9
  <2>11. Behind(o) = LiveRefs \ {ref}
    <3>1. \A r \in AllRefs : Live(o, r) <=> Live(os, r) /\ r # ref
      BY <2>3, <2>5, <2>7 DEF SameSeats, Live
    <3> QED BY <3>1 DEF Behind, LiveRefs
  <2>12. d = Arrived({ref}, ref)
    BY <2>4, <2>11 DEF Arrived
  <2>13. Ordered(os', books', ahead')
    BY <2>1, <2>9, <2>10, <2>12
  <2>14. OrderAt(Now', ref) = [locate |-> l, buy |-> buy, qty |-> shares, price |-> price]
    BY <2>9, <2>10 DEF Now
  <2>15. JoinsLine({ref}, ref)
    <3>1. \A r \in AllRefs \ {ref} : OrderAt(Now', r) = OrderAt(Now, r)
      BY <2>3, <2>7, <2>9, <2>10 DEF Others, Now
    <3>2. \A r \in {ref} \ {ref} : ~ Live(os', r)
      OBVIOUS
    <3> QED BY <2>1, <2>2, <2>14, <3>1, <3>2 DEF JoinsLine
  <2> QED BY <1>2, <2>13, <2>14, <2>15 DEF AddDoes
<1> QED BY <1>1, <1>2

\* So is on_add: an order goes to the back, after one of its reference left.
LEMMA AddServed ==
  ASSUME Ordered(os, books, ahead), NEW ref \in AllRefs, NEW l \in Locates,
         NEW buy \in BOOLEAN, NEW price \in Prices, NEW shares \in Sizes,
         OnAdd(ref, l, buy, price, shares)
  PROVE  Served
<1>a. Ordered(os', books', ahead') /\ AddDoes(ref, l, buy, price, shares)
  BY AddDone
<1>1. CASE ~ Accepts(ref, price, shares)
  BY <1>a, <1>1, IdleServed DEF AddDoes, Stay
<1>2. CASE Accepts(ref, price, shares)
  <2> DEFINE left == {ref}
  <2>1. left \in SUBSET (LiveRefs \cup {ref}) /\ ref \in left /\ ref \in Refs
    BY <1>2 DEF Accepts, AllRefs
  <2>2. JoinsLine(left, ref)
    BY <1>a, <1>2 DEF AddDoes
  <2> HIDE DEF left
  <2>3. Line!Arrive(ref, left \cap Line!Resting)
    BY ONLY <1>a, <2>1, <2>2, Ordered(os, books, ahead), JoinsAs
  <2>4. Line!Next
    BY <2>1, <2>3 DEF Line!Next, Line!Enter, left
  <2> QED BY <1>a, <2>4 DEF Served
<1> QED BY <1>1, <1>2

\* on_replace: up to two orders leave, and the new one, if any, goes to the back.
LEMMA ReplaceDone ==
  ASSUME Ordered(os, books, ahead), NEW old \in AllRefs, NEW new \in AllRefs,
         NEW price \in Prices, NEW shares \in Sizes, OnReplace(old, new, price, shares)
  PROVE  Ordered(os', books', ahead') /\ ReplaceDoes(old, new, price, shares)
<1>1. CASE ~ Live(os, old)
  BY <1>1 DEF OnReplace, MissingRef, ReplaceDoes, Stay
<1>2. CASE Live(os, old)
  <2> DEFINE l    == os[old].locate
             dup  == new # old /\ Live(os, new)
             s    == IF dup THEN Dropped(Now, new) ELSE Now
             c    == IF dup THEN Without(ahead, new) ELSE ahead
             gone == Dropped(s, old)
             done == Replace([os |-> s.os, book |-> s.books[l]], old, new, shares, price)
  <2>0. PICK left : left = IF dup THEN {old, new} ELSE {old}
    OBVIOUS
  <2>1. \/ /\ ~ Accepts(new, price, shares)
           /\ os' = gone.os /\ books' = gone.books /\ ahead' = Departed(left)
        \/ /\ Accepts(new, price, shares)
           /\ os' = IF done.added THEN [done.st.os EXCEPT ![new] = [@ EXCEPT !.locate = l]]
                                  ELSE done.st.os
           /\ books' = [s.books EXCEPT ![l] = done.st.book]
           /\ ahead' = IF done.added THEN Arrived(left, new) ELSE Departed(left)
    BY <1>2, <2>0 DEF OnReplace
  <2>2. Sound(os, books) /\ Lined(os, ahead) /\ old \in Refs
    BY <1>2 DEF Ordered, Sound
  <2>3. l \in Locates
    BY <2>2 DEF Sound, Stores, Order
  <2>4. /\ Ordered(s.os, s.books, c) /\ SameSeats(os, s.os, AllRefs \ {new})
        /\ Others(os, books, s.os, s.books, new)
        /\ dup => ~ Live(s.os, new)
        /\ ~ dup => s.os = os /\ s.books = books
    BY EvictOrdered
  <2>5. Without(c, old) = Departed(left)
    <3>1. Departed({old}) = Without(ahead, old)
      BY <2>2, HistoryFacts
    <3>2. Departed({old, new}) = Without(Without(ahead, new), old)
      BY <2>2, HistoryFacts
    <3> QED BY <2>0, <3>1, <3>2
  <2> HIDE DEF s
  <2>6. Live(s.os, old) /\ s.os[old].locate = l /\ s.os[old].buy = os[old].buy
    BY <1>2, <2>4 DEF SameSeats, Live
  <2>7. new # old => ~ Live(s.os, new)
    BY <2>4
  <2>8. /\ Ordered(gone.os, gone.books, Without(c, old)) /\ ~ Live(gone.os, old)
        /\ SameSeats(s.os, gone.os, AllRefs \ {old})
        /\ Others(s.os, s.books, gone.os, gone.books, old)
    <3> DEFINE t == Dropped([os |-> s.os, books |-> s.books], old)
    <3>1. /\ Ordered(t.os, t.books, Without(c, old)) /\ ~ Live(t.os, old)
          /\ SameSeats(s.os, t.os, AllRefs \ {old})
          /\ Others(s.os, s.books, t.os, t.books, old)
      <4> HIDE DEF c
      <4> QED BY <2>4, <2>6, DropOrdered
    <3>2. t = gone
      BY DEF Dropped
    <3> HIDE DEF t, gone
    <3> QED BY <3>1, <3>2
  <2> DEFINE st == Remove([os |-> s.os, book |-> s.books[l]], old)
  <2>9. gone.os = st.os /\ gone.books = [s.books EXCEPT ![l] = st.book]
    BY <2>6 DEF Dropped
  <2>10. done = [st |-> Add([os |-> [st.os EXCEPT ![new] =
                                       [@ EXCEPT !.qty = shares, !.buy = s.os[old].buy]],
                             book |-> st.book], new, price), added |-> TRUE]
         \/ Live(st.os, new)
    BY DEF Replace
  <2> HIDE DEF gone, st, done, c
  <2>11. \A r \in AllRefs : Live(gone.os, r) <=> Live(os, r) /\ r \notin left
    <3>1. \A r \in AllRefs : r \notin {old, new} => (Live(gone.os, r) <=> Live(os, r))
      BY <2>4, <2>8 DEF SameSeats, Live
    <3>2. ~ Live(gone.os, new)
      BY <2>7, <2>8 DEF SameSeats, Live
    <3> QED BY <2>0, <2>8, <3>1, <3>2
  <2>12. \A r \in AllRefs : r \notin {old, new} => OrderAt(gone, r) = OrderAt(Now, r)
    <3>1. [os |-> gone.os, books |-> gone.books] = gone
      BY DEF gone, Dropped
    <3> QED BY <2>4, <2>8, <3>1 DEF Others, Now
  <2>13. left \in SUBSET LiveRefs /\ old \in left /\ left \subseteq {old, new}
         /\ (Live(os, new) => new \in left) /\ left = {old} \cup ({new} \cap LiveRefs)
    BY <1>2, <2>0 DEF LiveRefs
  <2>14. CASE ~ Accepts(new, price, shares)
    <3>1. os' = gone.os /\ books' = gone.books /\ ahead' = Departed(left)
      BY <2>1, <2>14
    <3>2. Ordered(os', books', ahead')
      BY <2>5, <2>8, <3>1
    <3>3. LeavesLine(left)
      <4>1. \A r \in left : ~ Live(os', r)
        BY <2>11, <2>13, <3>1 DEF LiveRefs
      <4>2. \A r \in AllRefs \ left : OrderAt(Now', r) = OrderAt(Now, r)
        <5> SUFFICES ASSUME NEW r \in AllRefs \ left
                     PROVE  OrderAt(Now', r) = OrderAt(Now, r)
          OBVIOUS
        <5>1. CASE r \notin {old, new}
          BY <2>12, <3>1, <5>1 DEF Now, OrderAt
        <5>2. CASE r \in {old, new}
          <6>1. ~ Live(os, r) /\ ~ Live(os', r)
            BY <2>11, <2>13, <3>1, <5>2
          <6> QED BY <6>1 DEF Now, OrderAt, Live
        <5> QED BY <5>1, <5>2
      <4> QED BY <3>1, <4>1, <4>2 DEF LeavesLine
    <3> QED BY <1>2, <2>13, <2>14, <3>2, <3>3 DEF ReplaceDoes
  <2>15. CASE Accepts(new, price, shares)
    <3>1. /\ new \in Refs /\ price \in Int /\ price > 0 /\ shares \in Nat /\ shares > 0
          /\ shares \in Sizes \ {0} /\ price \in Prices \ {0}
      BY <2>15, ConstantFacts DEF Accepts, AllRefs
    <3>2. ~ Live(gone.os, new)
      BY <2>7, <2>8 DEF SameSeats, Live
    <3> DEFINE seat  == [st.os[new] EXCEPT !.qty = shares, !.buy = s.os[old].buy]
               o     == [st.os EXCEPT ![new] = seat]
               put   == Add([os |-> o, book |-> st.book], new, price)
               after == [put.os EXCEPT ![new] = [@ EXCEPT !.locate = l]]
               bs    == [s.books EXCEPT ![l] = put.book]
               d     == [Departed(left) EXCEPT ![new] = Behind(o)]
    <3>3. done = [st |-> put, added |-> TRUE]
      BY <2>9, <2>10, <3>2
    <3>4. os' = after /\ books' = bs /\ ahead' = Arrived(left, new)
      <4> HIDE DEF put
      <4> QED BY <2>1, <2>15, <3>3
    <3>5. /\ seat \in Order(AllRefs, Locates) /\ seat.level = st.os[new].level
          /\ seat.qty = shares /\ seat.buy = os[old].buy
      <4>1. st.os[new] \in Order(AllRefs, Locates) /\ os[old].buy \in BOOLEAN
        BY <2>2, <2>8, <2>9 DEF Ordered, Sound, Stores, Order
      <4> QED BY <2>6, <3>1, <4>1 DEF Order
    <3> HIDE DEF seat
    <3>6. /\ Ordered(o, gone.books, Departed(left)) /\ ~ Live(o, new) /\ o[new] = seat
          /\ Others(gone.os, gone.books, o, gone.books, new)
          /\ \A r \in AllRefs : Live(o, r) <=> Live(gone.os, r)
      <4> DEFINE p == [gone.os EXCEPT ![new] = seat]
      <4>1. /\ Ordered(p, gone.books, Departed(left)) /\ ~ Live(p, new) /\ p[new] = seat
            /\ Others(gone.os, gone.books, p, gone.books, new)
            /\ \A r \in AllRefs : Live(p, r) <=> Live(gone.os, r)
        BY <2>5, <2>8, <2>9, <3>2, <3>5, SeatOrdered
      <4>2. o = p
        BY <2>9
      <4> HIDE DEF o, p
      <4> QED BY <4>1, <4>2
    <3>7. gone.books[l] = st.book /\ [gone.books EXCEPT ![l] = put.book] = bs
      <4> HIDE DEF put
      <4>1. DOMAIN s.books = Locates
        BY <2>4 DEF Ordered, Sound
      <4> QED BY <2>3, <2>9, <4>1
    <3> HIDE DEF o
    <3>8. /\ Ordered(after, bs, d) /\ Others(o, gone.books, after, bs, new)
          /\ OrderAt([os |-> after, books |-> bs], new)
               = [locate |-> l, buy |-> os[old].buy, qty |-> shares, price |-> price]
      <4>1. /\ Ordered(o, gone.books, Departed(left)) /\ ~ Live(o, new)
            /\ o[new].qty > 0 /\ o[new].qty = shares /\ o[new].buy = os[old].buy
        BY <3>1, <3>5, <3>6
      <4>2. Queues(o, gone.books, Departed(left), new, l, price,
                   Add([os |-> o, book |-> gone.books[l]], new, price))
        <5> HIDE DEF l, dup
        <5> QED BY ONLY <2>3, <3>1, <4>1, AddOrdered
      <4>3. Queues(o, gone.books, Departed(left), new, l, price, put)
        BY <3>7, <4>2
      <4> HIDE DEF put
      <4> QED BY <3>7, <4>1, <4>3 DEF Queues
    <3> HIDE DEF after, bs
    <3>9. Behind(o) = LiveRefs \ left
      BY <2>11, <3>6 DEF Behind, LiveRefs
    <3>10. Ordered(os', books', ahead')
      BY <3>4, <3>8, <3>9 DEF Arrived
    <3>11. OrderAt(Now', new)
             = [locate |-> l, buy |-> os[old].buy, qty |-> shares, price |-> price]
      BY <3>4, <3>8 DEF Now
    <3>12. JoinsLine(left, new)
      <4>1. \A r \in AllRefs : r \notin {old, new} => OrderAt(Now', r) = OrderAt(Now, r)
        <5> SUFFICES ASSUME NEW r \in AllRefs, r \notin {old, new}
                     PROVE  OrderAt(Now', r) = OrderAt(Now, r)
          OBVIOUS
        <5>1. OrderAt([os |-> after, books |-> bs], r)
                = OrderAt([os |-> gone.os, books |-> gone.books], r)
          BY <3>6, <3>8 DEF Others
        <5>2. OrderAt([os |-> gone.os, books |-> gone.books], r) = OrderAt(gone, r)
          BY DEF OrderAt
        <5> QED BY <2>12, <3>4, <5>1, <5>2 DEF Now
      <4>2. os[old].buy \in BOOLEAN
        BY <2>2 DEF Sound, Stores, Order
      <4>3. \A r \in left \ {new} : ~ Live(os', r)
        <5>1. \A r \in AllRefs : r # new /\ Live(after, r) => Live(gone.os, r)
          <6> SUFFICES ASSUME NEW r \in AllRefs, r # new, Live(after, r)
                       PROVE  Live(gone.os, r)
            OBVIOUS
          <6>1. OrderAt([os |-> after, books |-> bs], r)
                  = OrderAt([os |-> o, books |-> gone.books], r)
            BY <3>8 DEF Others
          <6>2. Live(o, r)
            BY <3>6, <3>8, <6>1, RestingLive DEF Ordered
          <6> QED BY <3>6, <6>2
        <5> QED BY <2>11, <2>13, <3>4, <5>1 DEF LiveRefs
      <4> QED BY <2>3, <2>13, <3>1, <3>4, <3>11, <4>1, <4>2, <4>3 DEF JoinsLine
    <3> QED BY <1>2, <2>13, <2>15, <3>10, <3>11, <3>12 DEF ReplaceDoes
  <2> QED BY <2>14, <2>15
<1> QED BY <1>1, <1>2

\* So is on_replace: its orders leave, and the new one goes to the back.
LEMMA ReplaceServed ==
  ASSUME Ordered(os, books, ahead), NEW old \in AllRefs, NEW new \in AllRefs,
         NEW price \in Prices, NEW shares \in Sizes, OnReplace(old, new, price, shares)
  PROVE  Served
<1>a. Ordered(os', books', ahead') /\ ReplaceDoes(old, new, price, shares)
  BY ReplaceDone
<1>b. Sound(os, books) /\ Lined(os, ahead)
  BY DEF Ordered
<1>1. CASE ~ Live(os, old)
  BY <1>a, <1>1, IdleServed DEF ReplaceDoes, Stay
<1>2. CASE Live(os, old)
  <2>1. PICK left : left = {old} \cup ({new} \cap LiveRefs)
    OBVIOUS
  <2>2. old \in Refs /\ old \in LiveRefs
    BY <1>2, <1>b DEF LiveRefs, Sound
  <2>3. /\ left \in SUBSET LiveRefs /\ left # {} /\ left \in SUBSET (LiveRefs \cup {new})
        /\ (Live(os, new) => new \in left)
    BY <2>1, <2>2 DEF LiveRefs
  <2>4. CASE ~ Accepts(new, price, shares)
    <3>1. LeavesLine(left)
      BY <1>a, <1>2, <2>1, <2>4 DEF ReplaceDoes
    <3>2. Line!Leave(left)
      BY ONLY <1>a, <2>3, <3>1, Ordered(os, books, ahead), LeavesAs
    <3>3. \E r \in Refs : left = {old, r}
      <4>1. CASE Live(os, new)
        <5>1. new \in Refs /\ left = {old, new}
          BY <1>b, <2>1, <4>1 DEF LiveRefs, Sound
        <5> QED BY <5>1
      <4>2. CASE ~ Live(os, new)
        <5>1. left = {old, old}
          BY <2>1, <4>2 DEF LiveRefs
        <5> QED BY <2>2, <5>1
      <4> QED BY <4>1, <4>2
    <3>4. Line!Next
      <4>1. PICK r \in Refs : left = {old, r}
        BY <3>3
      <4> QED BY <2>2, <3>2, <4>1 DEF Line!Next
    <3> QED BY <1>a, <3>4 DEF Served
  <2>5. CASE Accepts(new, price, shares)
    <3>1. /\ JoinsLine(left, new) /\ new \in Refs
          /\ OrderAt(Now', new) = [locate |-> os[old].locate, buy |-> os[old].buy,
                                   qty |-> shares, price |-> price]
      BY <1>a, <1>2, <2>1, <2>5 DEF ReplaceDoes, Accepts, AllRefs
    <3>2. Line!Arrive(new, left \cap Line!Resting)
      BY ONLY <1>a, <2>3, <3>1, Ordered(os, books, ahead), JoinsAs
    <3>3. Line!Requeue(old, new)
      <4>1. /\ Line!Resting = LiveRefs
            /\ \A r \in Refs : RestingOrders'[r] = OrderAt(Now', r)
            /\ \A r \in LiveRefs : /\ RestingOrders[r].locate = os[r].locate
                                   /\ RestingOrders[r].buy = os[r].buy
        BY <1>b, LineFacts
      <4>2. left \cap Line!Resting = {old, new} \cap Line!Resting
        BY <2>1, <2>2, <4>1
      <4>3. /\ RestingOrders'[new].locate = RestingOrders[old].locate
            /\ RestingOrders'[new].buy = RestingOrders[old].buy
        BY <2>2, <3>1, <4>1
      <4>4. Line!Arrive(new, {old, new} \cap Line!Resting)
        BY <3>2, <4>2 DEF Line!Arrive
      <4> QED BY <2>2, <4>1, <4>3, <4>4 DEF Line!Requeue
    <3>4. Line!Next
      BY <2>2, <3>1, <3>3 DEF Line!Next
    <3> QED BY <1>a, <3>4 DEF Served
  <2> QED BY <2>4, <2>5
<1> QED BY <1>1, <1>2

-----------------------------------------------------------------------------
(* Every step, and the theorems.                                           *)

QInv == IInv /\ Lined(os, ahead) /\ TimePriority

\* The links spell out the history where the queues are threaded.
LEMMA QInvOrdered ==
  IInv => (QInv <=> Ordered(os, books, ahead))
<1> SUFFICES ASSUME IInv PROVE QInv <=> Ordered(os, books, ahead)
  OBVIOUS
<1>1. Sound(os, books)
  BY IInvFacts
<1>2. \A l \in Locates : InArrivalOrder(os, ahead, l, books[l]) <=> Threads(os, ahead, l, books[l])
  <2> SUFFICES ASSUME NEW l \in Locates
               PROVE  InArrivalOrder(os, ahead, l, books[l]) <=> Threads(os, ahead, l, books[l])
    OBVIOUS
  <2>1. os \in Stores(AllRefs, Locates) /\ InPlace(AllRefs, os, l, books[l])
    BY <1>1 DEF Sound
  <2> QED BY <2>1, ArrivalThreads
<1> QED BY <1>1, <1>2 DEF QInv, TimePriority, Ordered

\* Nothing but these handlers touches an order.
LEMMA StepServed ==
  ASSUME Ordered(os, books, ahead), [Next]_vars
  PROVE  Served
<1>1. ASSUME NEW source, NEW l, NEW price, NEW shares, OnPrint(source, l, price, shares)
      PROVE  Served
  BY <1>1, IdleServed DEF OnPrint
<1>2. ASSUME NEW l \in Locates, NEW symbol, OnStockDirectory(l, symbol)
      PROVE  Served
  BY <1>2, IdleServed DEF OnStockDirectory
<1>3. ASSUME NEW l \in Locates, NEW now, OnTradingAction(l, now)
      PROVE  Served
  BY <1>3, IdleServed DEF OnTradingAction
<1>4. ASSUME NEW l \in Locates, Reserve(l)
      PROVE  Served
  BY <1>4, IdleServed DEF Reserve
<1>5. ASSUME NEW on, TrackBbo(on)
      PROVE  Served
  BY <1>5, IdleServed DEF TrackBbo
<1>6. CASE UNCHANGED vars
  BY <1>6, IdleServed DEF vars
<1> QED BY <1>1, <1>2, <1>3, <1>4, <1>5, <1>6,
           AddServed, ReduceServed, DeleteServed, ReplaceServed
        DEF Next, OnExecute, OnExecutePrice, OnCancel

\* The invariant is kept, and what the step does is a step of the queue.
LEMMA StepQInv ==
  ASSUME QInv, [Next]_vars
  PROVE  QInv' /\ [Line!Next]_(Line!vars)
<1>1. IInv /\ IInv'
  BY StepInvariant DEF QInv
<1>2. Served
  BY <1>1, QInvOrdered, StepServed
<1>3. (IInv => (QInv <=> Ordered(os, books, ahead)))'
  BY QInvOrdered, PTL
<1> QED BY <1>1, <1>2, <1>3 DEF Served

\* What OnExecute and OnExecutePrice print, and what they do to the order printed.
PrintsTruly(p) ==
  LET r == p.order
      l == os[r].locate
  IN /\ Live(os, r) /\ p.locate = l
     /\ p.source = "E" =>
          \E i \in DOMAIN books[l].side[os[r].buy] :
            LET e == books[l].side[os[r].buy][i]
            IN e.level = os[r].level /\ p.price = Key(os[r].buy, e.key)
     /\ IF p.shares < os[r].qty THEN os'[r].qty = os[r].qty - p.shares
                                ELSE ~ Live(os', r)

\* The level an order at rest names is one its side lists, at the key of the level.
LEMMA RestingListed ==
  ASSUME Sound(os, books), NEW ref \in AllRefs, Live(os, ref)
  PROVE  LET o == os[ref]
             s == books[o.locate].side[o.buy]
         IN \E i \in DOMAIN s : /\ s[i].level = o.level
                                /\ s[i].key = books[o.locate].levels[o.level].key
<1> DEFINE l == os[ref].locate
           b == books[l]
           s == b.side[os[ref].buy]
<1>1. os[ref] \in Order(AllRefs, Locates)
  BY DEF Sound, Stores
<1>2. l \in Locates /\ os[ref].buy \in BOOLEAN /\ os[ref].level # Nil /\ DOMAIN os = AllRefs
  BY <1>1 DEF Order, Live, Sound, Stores
<1>3. IsBook(AllRefs, b) /\ OrdersListed(os, l, b)
  BY <1>2 DEF Sound, InPlace
<1>4. os[ref].level \in Listed(b, os[ref].buy)
  BY <1>2, <1>3 DEF OrdersListed
<1>5. PICK i \in DOMAIN s : s[i].level = os[ref].level
  BY <1>4 DEF Listed
<1>6. b.levels[s[i].level].key = s[i].key
  BY <1>2, <1>3 DEF IsBook, Laddered
<1> QED BY <1>5, <1>6

\* A reduction does to the order what its print says.
LEMMA PrintTrue ==
  ASSUME Ordered(os, books, ahead), NEW ref \in AllRefs, NEW shares \in Sizes, Live(os, ref),
         ReduceOrder(ref, shares, "executes"), NEW p,
         p.order = ref, p.locate = os[ref].locate, p.shares = shares,
         p.source = "E" =>
           p.price = Key(os[ref].buy, books[os[ref].locate].levels[os[ref].level].key)
  PROVE  PrintsTruly(p)
<1>1. Sound(os, books) /\ ReduceDoes(ref, shares)
  BY ReduceDone DEF Ordered
<1>2. os[ref].qty \in Nat /\ shares \in Nat
  <2>1. os[ref] \in Order(AllRefs, Locates)
    BY <1>1 DEF Sound, Stores
  <2> QED BY <2>1, ConstantFacts DEF Order
<1>3. IF shares < os[ref].qty THEN os'[ref].qty = os[ref].qty - shares
                              ELSE ~ Live(os', ref)
  <2>1. CASE shares < os[ref].qty
    <3>1. Taken(os, ref, shares) # os[ref].qty
      BY <1>2, <2>1 DEF Taken
    <3>2. /\ OrderAt(Now', ref) = [OrderAt(Now, ref) EXCEPT !.qty = os[ref].qty - shares]
          /\ Live(os', ref)
      BY <1>1, <3>1 DEF ReduceDoes
    <3>3. OrderAt(Now, ref) = [locate |-> os[ref].locate, buy |-> os[ref].buy, qty |-> os[ref].qty,
              price |-> Key(os[ref].buy, books[os[ref].locate].levels[os[ref].level].key)]
      BY DEF OrderAt, Now, Live
    <3>4. OrderAt(Now', ref).qty = os'[ref].qty
      BY <3>2 DEF OrderAt, Now, Live
    <3>5. OrderAt(Now', ref).qty = os[ref].qty - shares
      BY <3>2, <3>3
    <3> QED BY <2>1, <3>4, <3>5
  <2>2. CASE ~ (shares < os[ref].qty)
    <3>1. Taken(os, ref, shares) = os[ref].qty
      BY <2>2 DEF Taken
    <3> QED BY <1>1, <2>2, <3>1 DEF ReduceDoes, LeavesLine
  <2> QED BY <2>1, <2>2
<1>4. PICK i \in DOMAIN books[os[ref].locate].side[os[ref].buy] :
        LET e == books[os[ref].locate].side[os[ref].buy][i]
        IN e.level = os[ref].level /\ e.key = books[os[ref].locate].levels[os[ref].level].key
  BY <1>1, RestingListed
<1> QED BY <1>3, <1>4 DEF PrintsTruly

\* A print comes of those two handlers, or names no order.
LEMMA StepPrints ==
  ASSUME QInv, [Next]_vars, print' # print, print' # NoPrint, print'.source \in {"E", "C"}
  PROVE  PrintsTruly(print')
<1>a. Ordered(os, books, ahead)
  BY QInvOrdered DEF QInv
<1>1. ASSUME NEW ref \in AllRefs, NEW shares \in Sizes, OnExecute(ref, shares)
      PROVE  PrintsTruly(print')
  <2>1. /\ Live(os, ref) /\ ReduceOrder(ref, shares, "executes")
        /\ print' = Printed("E", os[ref].locate,
                            Key(os[ref].buy, books[os[ref].locate].levels[os[ref].level].key),
                            shares, ref)
    BY <1>1 DEF OnExecute
  <2> QED BY <1>a, <2>1, PrintTrue DEF Printed
<1>2. ASSUME NEW ref \in AllRefs, NEW shares \in Sizes, NEW price, NEW printable,
             OnExecutePrice(ref, shares, price, printable)
      PROVE  PrintsTruly(print')
  <2>1. /\ Live(os, ref) /\ ReduceOrder(ref, shares, "executes")
        /\ print' = Printed("C", os[ref].locate, price, shares, ref)
    BY <1>2 DEF OnExecutePrice
  <2> QED BY <1>a, <2>1, PrintTrue DEF Printed
<1>3. ASSUME NEW source \in {"P", "Q", "B"}, NEW l, NEW price, NEW shares,
             OnPrint(source, l, price, shares)
      PROVE  FALSE
  <2>1. print'.source = source \/ print'.source = "B"
    BY <1>3 DEF OnPrint, Printed
  <2> QED BY <2>1
<1>4. CASE UNCHANGED vars
  BY <1>4 DEF vars
<1>5. ASSUME NEW ref, NEW l, NEW buy, NEW price, NEW shares, OnAdd(ref, l, buy, price, shares)
      PROVE  FALSE
  BY <1>5 DEF OnAdd
<1>6. ASSUME NEW ref, NEW shares, OnCancel(ref, shares) PROVE FALSE
  BY <1>6 DEF OnCancel
<1>7. ASSUME NEW ref, OnDelete(ref) PROVE FALSE
  BY <1>7 DEF OnDelete
<1>8. ASSUME NEW old, NEW new, NEW price, NEW shares, OnReplace(old, new, price, shares)
      PROVE  FALSE
  BY <1>8 DEF OnReplace
<1>9. ASSUME NEW l, NEW symbol, OnStockDirectory(l, symbol) PROVE FALSE
  BY <1>9 DEF OnStockDirectory
<1>10. ASSUME NEW l, NEW now, OnTradingAction(l, now) PROVE FALSE
  BY <1>10 DEF OnTradingAction
<1>11. ASSUME NEW l, Reserve(l) PROVE FALSE
  BY <1>11 DEF Reserve
<1>12. ASSUME NEW on, TrackBbo(on) PROVE FALSE
  BY <1>12 DEF TrackBbo
<1> QED BY <1>1, <1>2, <1>3, <1>4, <1>5, <1>6, <1>7, <1>8, <1>9, <1>10, <1>11, <1>12 DEF Next

\* The empty books hold an empty queue.
LEMMA InitQInv ==
  ASSUME Init
  PROVE  QInv /\ Line!Init
<1>1. IInv
  BY InitInvariant
<1>2. NoOrder.level = Nil /\ \A r \in AllRefs : ~ Live(os, r)
  BY DEF NoOrder, Nil, Init, Live
<1>3. Lined(os, ahead)
  BY <1>2 DEF Init, Lined
<1>4. \A l \in Locates : Threads(os, ahead, l, books[l])
  <2>1. OpenLevels(EmptyBook) = {}
    BY DEF EmptyBook, OpenLevels, Listed
  <2>2. \A l \in Locates : books[l] = EmptyBook
    BY DEF Init
  <2> QED BY <2>1, <2>2 DEF Threads
<1>5. Ordered(os, books, ahead)
  BY <1>1, <1>3, <1>4, IInvFacts DEF Ordered
<1>6. \A r \in Refs : OrderAt(Now, r) = Absent
  BY <1>2, ConstantFacts DEF OrderAt, Now, Live
<1>7. Line!Init
  BY <1>6, ConstantFacts DEF Line!Init, RestingOrders, Init
<1> QED BY <1>1, <1>5, <1>7, QInvOrdered

\* The strengthening that is inductive: the books are in order and so is the history.
THEOREM PriorityInvariant == Spec => []QInv
<1>1. Init => QInv
  BY InitQInv
<1>2. QInv /\ [Next]_vars => QInv'
  BY StepQInv
<1> QED BY <1>1, <1>2, PTL DEF Spec

\* The prev and next of every live order name its neighbours in time, and head and
\* tail of every level the first and last to arrive, after any removals anywhere in
\* the queue, evictions, partial fills and replaces onto the same reference.
THEOREM TimePriorityHolds == Spec => []TimePriority
<1>1. QInv => TimePriority
  BY DEF QInv
<1> QED BY <1>1, PriorityInvariant, PTL

\* The manager implements PriceTimeQueue: whatever message comes, what it does to
\* the orders and to the line they stand in is one of the queue's steps or none.
THEOREM ImplementsPriceTimeQueueHolds == Spec => ImplementsPriceTimeQueue
<1>1. Init => Line!Init
  BY InitQInv
<1>2. QInv /\ [Next]_vars => [Line!Next]_(Line!vars)
  BY StepQInv
<1> QED BY <1>1, <1>2, PriorityInvariant, PTL DEF Spec, ImplementsPriceTimeQueue, Line!Spec

\* A print at the resting price names an order that was live, at the price, book and
\* locate it rested at, and that order then shrinks by what was printed or leaves.
THEOREM PrintedAtRestHolds == Spec => PrintedAtRest
<1>1. QInv /\ [Next]_vars =>
        [print' # print /\ print' # NoPrint /\ print'.source \in {"E", "C"}
           => PrintsTruly(print')]_vars
  BY StepPrints
<1> QED BY <1>1, PriorityInvariant, PTL DEF Spec, PrintedAtRest, PrintsTruly

-----------------------------------------------------------------------------
(* The reference book alone: its levels are the sums of its orders.        *)

Entries == [locate : Locates, buy : BOOLEAN, price : Prices \ {0}, qty : Nat \ {0}]

Held(w) == {r \in AllRefs : w[r] # Ref!NoEntry}

\* The orders of w at one price of one side of one book.
Priced(w, l, buy, p) ==
  {r \in Held(w) : w[r].locate = l /\ w[r].buy = buy /\ w[r].price = p}

Totals(w, q) == [shares |-> SharesOf(w, q), orders |-> Cardinality(q)]

\* A state of the reference book whose levels total its orders.
Tallied(s) ==
  /\ s = [orders |-> s.orders, levels |-> s.levels]
  /\ DOMAIN s.orders = AllRefs /\ s.orders = [r \in AllRefs |-> s.orders[r]]
  /\ \A r \in Held(s.orders) : s.orders[r] \in Entries
  /\ s.levels = [l \in Locates |-> [buy \in BOOLEAN |-> [p \in Prices |->
                   Totals(s.orders, Priced(s.orders, l, buy, p))]]]

\* No order is an entry without a price.
LEMMA NoEntryOut ==
  /\ Ref!NoEntry \notin Entries
  /\ Ref!NoLevel = [shares |-> 0, orders |-> 0]
<1>1. \A e \in Entries : e.price # 0
  BY DEF Entries
<1>2. Ref!NoEntry.price = 0
  BY DEF Ref!NoEntry
<1> QED BY <1>1, <1>2 DEF Ref!NoLevel

\* The orders at a price are finitely many, and their sizes add up.
LEMMA PricedFacts ==
  ASSUME NEW s, Tallied(s), NEW l, NEW buy, NEW p
  PROVE  LET q == Priced(s.orders, l, buy, p)
         IN /\ IsFiniteSet(q) /\ q \subseteq AllRefs
            /\ Cardinality(q) \in Nat /\ SharesOf(s.orders, q) \in Nat
            /\ \A r \in q : /\ s.orders[r].qty \in Nat
                            /\ SharesOf(s.orders, q) = s.orders[r].qty + SharesOf(s.orders, q \ {r})
                            /\ SharesOf(s.orders, q \ {r}) \in Nat
                            /\ Cardinality(q \ {r}) = Cardinality(q) - 1
            /\ q = {} <=> Cardinality(q) = 0
            /\ q = {} => SharesOf(s.orders, q) = 0
<1> DEFINE q == Priced(s.orders, l, buy, p)
<1>1. q \subseteq AllRefs /\ IsFiniteSet(q)
  BY ConstantFacts, FS_Subset DEF Priced, Held
<1>2. \A r \in q : s.orders[r].qty \in Nat
  BY DEF Priced, Tallied, Entries
<1> HIDE DEF q
<1>3. /\ SharesOf(s.orders, q) \in Nat
      /\ \A r \in q : SharesOf(s.orders, q) = s.orders[r].qty + SharesOf(s.orders, q \ {r})
      /\ q = {} => SharesOf(s.orders, q) = 0
  BY <1>1, <1>2, SharesSplit
<1>4. \A r \in q : SharesOf(s.orders, q \ {r}) \in Nat
  <2> TAKE r \in q
  <2>1. IsFiniteSet(q \ {r}) /\ \A y \in q \ {r} : s.orders[y].qty \in Nat
    BY <1>1, <1>2, FS_Subset
  <2> QED BY <2>1, SharesSplit
<1>5. /\ Cardinality(q) \in Nat /\ (q = {} <=> Cardinality(q) = 0)
      /\ \A r \in q : Cardinality(q \ {r}) = Cardinality(q) - 1
  BY <1>1, FS_CardinalityType, FS_EmptySet, FS_RemoveElement
<1> QED BY <1>1, <1>2, <1>3, <1>4, <1>5 DEF q

\* One total of one level changes.
LevelsWith(s, l, buy, p, total) ==
  [s.levels EXCEPT ![l][buy][p] = total]

\* Levels that differ from totalled ones at most at one price, where they are right.
LEMMA TalliedAgain ==
  ASSUME NEW s, Tallied(s), NEW w, w = [r \in AllRefs |-> w[r]],
         \A r \in Held(w) : w[r] \in Entries,
         NEW l \in Locates, NEW buy \in BOOLEAN, NEW p \in Prices,
         NEW total, total = Totals(w, Priced(w, l, buy, p)),
         \A k \in Locates, side \in BOOLEAN, x \in Prices :
           <<k, side, x>> # <<l, buy, p>> =>
             Totals(w, Priced(w, k, side, x)) = Totals(s.orders, Priced(s.orders, k, side, x))
  PROVE  Tallied([orders |-> w, levels |-> LevelsWith(s, l, buy, p, total)])
<1> DEFINE T(k, side, x) == Totals(s.orders, Priced(s.orders, k, side, x))
           U(k, side, x) == Totals(w, Priced(w, k, side, x))
           lv == s.levels
           new == LevelsWith(s, l, buy, p, total)
<1> HIDE DEF T, U
<1>1. /\ lv = [k \in Locates |-> [side \in BOOLEAN |-> [x \in Prices |-> T(k, side, x)]]]
  BY DEF Tallied, T
<1>2. \A k \in Locates, side \in BOOLEAN, x \in Prices :
        U(k, side, x) = IF k = l /\ side = buy /\ x = p THEN total ELSE T(k, side, x)
  BY DEF T, U
<1>3. new = [k \in Locates |-> [side \in BOOLEAN |-> [x \in Prices |-> U(k, side, x)]]]
  <2> HIDE DEF lv
  <2>1. /\ DOMAIN lv = Locates
        /\ \A k \in Locates : lv[k] = [side \in BOOLEAN |-> [x \in Prices |-> T(k, side, x)]]
    BY <1>1
  <2>2. \A k \in Locates, side \in BOOLEAN : lv[k][side] = [x \in Prices |-> T(k, side, x)]
    BY <2>1
  <2>3. new = [lv EXCEPT ![l] = [lv[l] EXCEPT ![buy] = [lv[l][buy] EXCEPT ![p] = total]]]
    BY DEF LevelsWith, lv
  <2>4. [lv[l][buy] EXCEPT ![p] = total] = [x \in Prices |-> U(l, buy, x)]
    <3> DEFINE f == lv[l][buy]
    <3>1. f = [x \in Prices |-> T(l, buy, x)]
      BY <2>2
    <3> HIDE DEF f
    <3>2. \A x \in Prices : U(l, buy, x) = IF x = p THEN total ELSE T(l, buy, x)
      BY <1>2
    <3>3. [f EXCEPT ![p] = total] = [x \in Prices |-> U(l, buy, x)]
      BY <3>1, <3>2
    <3> QED BY <3>3 DEF f
  <2>5. \A side \in BOOLEAN : side # buy => lv[l][side] = [x \in Prices |-> U(l, side, x)]
    BY <1>2, <2>2
  <2>6. [lv[l] EXCEPT ![buy] = [x \in Prices |-> U(l, buy, x)]]
          = [side \in BOOLEAN |-> [x \in Prices |-> U(l, side, x)]]
    <3> DEFINE f == lv[l]
               g(side) == [x \in Prices |-> U(l, side, x)]
    <3>1. DOMAIN f = BOOLEAN /\ f = [side \in BOOLEAN |-> f[side]]
      BY <2>1
    <3>2. \A side \in BOOLEAN : side # buy => f[side] = g(side)
      BY <2>5
    <3> HIDE DEF f, g
    <3>3. [f EXCEPT ![buy] = g(buy)] = [side \in BOOLEAN |-> g(side)]
      BY <3>1, <3>2
    <3> QED BY <3>3 DEF f, g
  <2>7. \A k \in Locates : k # l => lv[k] = [side \in BOOLEAN |-> [x \in Prices |-> U(k, side, x)]]
    BY <1>2, <2>1
  <2>8. new = [lv EXCEPT ![l] = [side \in BOOLEAN |-> [x \in Prices |-> U(l, side, x)]]]
    BY <2>3, <2>4, <2>6
  <2> DEFINE g(k) == [side \in BOOLEAN |-> [x \in Prices |-> U(k, side, x)]]
  <2>9. /\ new = [lv EXCEPT ![l] = g(l)] /\ lv = [k \in Locates |-> lv[k]]
        /\ \A k \in Locates : k # l => lv[k] = g(k)
    BY <2>1, <1>1, <2>7, <2>8
  <2> HIDE DEF g, new
  <2>10. new = [k \in Locates |-> g(k)]
    BY <2>9
  <2> QED BY <2>10 DEF g
<1> HIDE DEF new
<1> DEFINE t == [orders |-> w, levels |-> new]
<1>4. t.orders = w /\ t.levels = new /\ t = [orders |-> t.orders, levels |-> t.levels]
  OBVIOUS
<1>5. new = [k \in Locates |-> [side \in BOOLEAN |-> [x \in Prices |-> Totals(w, Priced(w, k, side, x))]]]
  BY <1>3 DEF U
<1> HIDE DEF t
<1>6. Tallied(t)
  BY <1>4, <1>5 DEF Tallied
<1> QED BY <1>6 DEF t, new

\* Orders that stay what they are total what they did.
LEMMA TotalsSame ==
  ASSUME NEW s, Tallied(s), NEW w, NEW x \in AllRefs,
         \A r \in AllRefs \ {x} : w[r] = s.orders[r],
         NEW k, NEW side, NEW p,
         x \in Held(w) => <<w[x].locate, w[x].buy, w[x].price>> # <<k, side, p>>,
         x \in Held(s.orders) =>
           <<s.orders[x].locate, s.orders[x].buy, s.orders[x].price>> # <<k, side, p>>
  PROVE  /\ Priced(w, k, side, p) = Priced(s.orders, k, side, p)
         /\ Totals(w, Priced(w, k, side, p)) = Totals(s.orders, Priced(s.orders, k, side, p))
<1>1. Priced(w, k, side, p) = Priced(s.orders, k, side, p)
  BY DEF Priced, Held
<1>2. x \notin Priced(w, k, side, p)
  BY DEF Priced
<1>3. \A r \in Priced(s.orders, k, side, p) : w[r].qty = s.orders[r].qty
  BY <1>1, <1>2 DEF Priced, Held
<1>4. IsFiniteSet(Priced(s.orders, k, side, p))
  BY PricedFacts
<1>5. SharesOf(w, Priced(s.orders, k, side, p)) = SharesOf(s.orders, Priced(s.orders, k, side, p))
  BY <1>3, <1>4, SharesSame
<1> QED BY <1>1, <1>5 DEF Totals

\* An order more among those at a price is its size more and one more.
LEMMA TotalsGrow ==
  ASSUME NEW w, NEW q, IsFiniteSet(q), NEW x, x \notin q,
         \A r \in q \cup {x} : w[r].qty \in Nat
  PROVE  /\ SharesOf(w, q) \in Nat /\ Cardinality(q) \in Nat
         /\ SharesOf(w, q \cup {x}) = SharesOf(w, q) + w[x].qty
         /\ Cardinality(q \cup {x}) = Cardinality(q) + 1
         /\ Cardinality(q) = 0 => SharesOf(w, q) = 0
<1> DEFINE more == q \cup {x}
<1>1. IsFiniteSet(more) /\ Cardinality(more) = Cardinality(q) + 1
  BY FS_AddElement
<1>2. Cardinality(q) \in Nat /\ (Cardinality(q) = 0 => q = {})
  BY FS_CardinalityType, FS_EmptySet
<1>3. more \ {x} = q /\ x \in more /\ \A r \in more : w[r].qty \in Nat
  OBVIOUS
<1>4. SharesOf(w, q) \in Nat /\ (q = {} => SharesOf(w, q) = 0)
  BY SharesSplit
<1> HIDE DEF more
<1>5. SharesOf(w, more) = w[x].qty + SharesOf(w, more \ {x})
  BY <1>1, <1>3, SharesSplit
<1>6. SharesOf(w, more \ {x}) = SharesOf(w, q) /\ w[x].qty \in Nat
  BY <1>3, Zenon
<1> DEFINE m == SharesOf(w, more)
           n == SharesOf(w, q)
           k == SharesOf(w, more \ {x})
<1>7. m = n + w[x].qty
  <2>1. m = w[x].qty + k /\ k = n /\ n \in Nat /\ w[x].qty \in Nat
    BY <1>4, <1>5, <1>6
  <2> HIDE DEF m, n, k
  <2> QED BY <2>1
<1> QED BY <1>1, <1>2, <1>4, <1>7 DEF more

\* The order at x comes, goes or changes at its price: the total of that price changes.
LEMMA OneChanges ==
  ASSUME NEW s, Tallied(s), NEW w, NEW x \in AllRefs, NEW e \in Entries \cup {Ref!NoEntry},
         w = [s.orders EXCEPT ![x] = e],
         NEW l \in Locates, NEW buy \in BOOLEAN, NEW p \in Prices,
         e \in Entries => e.locate = l /\ e.buy = buy /\ e.price = p,
         x \in Held(s.orders) => /\ s.orders[x].locate = l /\ s.orders[x].buy = buy
                                 /\ s.orders[x].price = p,
         NEW total, total = Totals(w, Priced(w, l, buy, p))
  PROVE  Tallied([orders |-> w, levels |-> LevelsWith(s, l, buy, p, total)])
<1>1. /\ DOMAIN s.orders = AllRefs /\ s.orders = [r \in AllRefs |-> s.orders[r]]
      /\ \A r \in Held(s.orders) : s.orders[r] \in Entries
  BY DEF Tallied
<1>2. w = [r \in AllRefs |-> w[r]] /\ w[x] = e /\ \A r \in AllRefs \ {x} : w[r] = s.orders[r]
  BY <1>1
<1>3. \A r \in Held(w) : w[r] \in Entries
  BY <1>1, <1>2 DEF Held
<1>4. x \in Held(w) => w[x].locate = l /\ w[x].buy = buy /\ w[x].price = p
  BY <1>2 DEF Held
<1>5. ASSUME NEW k \in Locates, NEW side \in BOOLEAN, NEW y \in Prices,
             <<k, side, y>> # <<l, buy, p>>
      PROVE  Totals(w, Priced(w, k, side, y)) = Totals(s.orders, Priced(s.orders, k, side, y))
  BY <1>2, <1>4, <1>5, TotalsSame
<1> QED BY ONLY <1>2, <1>3, <1>5, TalliedAgain, Tallied(s), l \in Locates, buy \in BOOLEAN,
           p \in Prices, total = Totals(w, Priced(w, l, buy, p))

\* A level holds the totals of its orders.
LEMMA LevelIs ==
  ASSUME NEW s, Tallied(s), NEW l \in Locates, NEW buy \in BOOLEAN, NEW p \in Prices
  PROVE  s.levels[l][buy][p] = Totals(s.orders, Priced(s.orders, l, buy, p))
<1> DEFINE T(k, side, x) == Totals(s.orders, Priced(s.orders, k, side, x))
<1>1. s.levels = [k \in Locates |-> [side \in BOOLEAN |-> [x \in Prices |-> T(k, side, x)]]]
  BY DEF Tallied
<1> HIDE DEF T
<1>2. s.levels[l][buy][p] = T(l, buy, p)
  BY <1>1
<1> QED BY <1>2 DEF T

\* An order goes in where there was none.
LEMMA InsertTallied ==
  ASSUME NEW s, Tallied(s), NEW x \in AllRefs, s.orders[x] = Ref!NoEntry, NEW e \in Entries
  PROVE  LET t == Ref!Insert(s, x, e)
         IN Tallied(t) /\ t.orders = [s.orders EXCEPT ![x] = e]
<1> DEFINE t == Ref!Insert(s, x, e)
           w == [s.orders EXCEPT ![x] = e]
           l == e.locate
           buy == e.buy
           p == e.price
           q == Priced(s.orders, l, buy, p)
           h == s.levels[l][buy][p]
           total == [shares |-> h.shares + e.qty, orders |-> h.orders + 1]
<1>1. l \in Locates /\ buy \in BOOLEAN /\ p \in Prices /\ e.qty \in Nat /\ e # Ref!NoEntry
  BY NoEntryOut DEF Entries
<1>2. /\ w[x] = e /\ \A r \in AllRefs \ {x} : w[r] = s.orders[r]
      /\ x \notin Held(s.orders)
  BY DEF Tallied, Held
<1>3. h = Totals(s.orders, q)
  BY <1>1, LevelIs
<1>4. Priced(w, l, buy, p) = q \cup {x} /\ x \notin q
  <2> HIDE DEF w
  <2> QED BY <1>1, <1>2 DEF Priced, Held
<1>5. IsFiniteSet(q) /\ \A r \in q : w[r].qty = s.orders[r].qty /\ w[r].qty \in Nat
  <2> HIDE DEF w
  <2>1. q \subseteq AllRefs /\ IsFiniteSet(q) /\ \A r \in q : s.orders[r].qty \in Nat
    BY PricedFacts
  <2> QED BY <1>2, <1>4, <2>1
<1>6. t = [orders |-> w, levels |-> LevelsWith(s, l, buy, p, total)]
  BY DEF Ref!Insert, LevelsWith
<1> HIDE DEF w, q
<1>7. SharesOf(w, q) = SharesOf(s.orders, q)
  BY <1>5, SharesSame
<1>8. /\ SharesOf(w, q \cup {x}) = SharesOf(w, q) + w[x].qty
      /\ Cardinality(q \cup {x}) = Cardinality(q) + 1
  <2>1. \A r \in q \cup {x} : w[r].qty \in Nat
    BY <1>1, <1>2, <1>5
  <2>2. IsFiniteSet(q) /\ x \notin q
    BY <1>4, <1>5
  <2> HIDE DEF l, buy, p, h, total
  <2> QED BY ONLY <2>1, <2>2, TotalsGrow
<1>9. total = Totals(w, Priced(w, l, buy, p))
  <2>1. h.shares = SharesOf(s.orders, q) /\ h.orders = Cardinality(q)
    BY <1>3 DEF Totals
  <2>2. total = [shares |-> SharesOf(w, q \cup {x}), orders |-> Cardinality(q \cup {x})]
    BY <1>2, <1>7, <1>8, <2>1
  <2> QED BY <1>4, <2>2 DEF Totals
<1>10. Tallied([orders |-> w, levels |-> LevelsWith(s, l, buy, p, total)])
  <2> HIDE DEF total, l, buy, p
  <2>1. w = [s.orders EXCEPT ![x] = e]
    BY DEF w
  <2>2. e \in Entries \cup {Ref!NoEntry} /\ (e \in Entries => e.locate = l /\ e.buy = buy /\ e.price = p)
    BY DEF l, buy, p
  <2> QED BY <1>1, <1>2, <1>9, <2>1, <2>2, OneChanges
<1> HIDE DEF l, buy, p, h, total
<1>11. t.orders = w /\ Tallied(t)
  BY ONLY <1>6, <1>10
<1> QED BY ONLY <1>11 DEF t, w

\* An order goes, and with the last one at a price the level.
LEMMA RemoveTallied ==
  ASSUME NEW s, Tallied(s), NEW x \in AllRefs, s.orders[x] # Ref!NoEntry
  PROVE  LET t == Ref!RemoveOrder(s, x)
         IN Tallied(t) /\ t.orders = [s.orders EXCEPT ![x] = Ref!NoEntry]
<1> DEFINE t == Ref!RemoveOrder(s, x)
           e == s.orders[x]
           w == [s.orders EXCEPT ![x] = Ref!NoEntry]
           l == e.locate
           buy == e.buy
           p == e.price
           q == Priced(w, l, buy, p)
           h == s.levels[l][buy][p]
           total == IF h.orders = 1 THEN Ref!NoLevel
                    ELSE [shares |-> h.shares - e.qty, orders |-> h.orders - 1]
<1>1. /\ e \in Entries /\ x \in Held(s.orders)
      /\ l \in Locates /\ buy \in BOOLEAN /\ p \in Prices /\ e.qty \in Nat
  BY DEF Tallied, Held, Entries
<1>2. /\ w[x] = Ref!NoEntry /\ \A r \in AllRefs \ {x} : w[r] = s.orders[r]
      /\ x \notin Held(w)
  BY DEF Tallied, Held
<1>4. Priced(s.orders, l, buy, p) = q \cup {x} /\ x \notin q
  <2> HIDE DEF w
  <2> QED BY <1>1, <1>2 DEF Priced, Held
<1>3. h = Totals(s.orders, q \cup {x})
  <2>1. h = Totals(s.orders, Priced(s.orders, l, buy, p))
    BY <1>1, LevelIs
  <2> HIDE DEF h, q, l, buy, p, w
  <2> QED BY <1>4, <2>1
<1>5. IsFiniteSet(q) /\ \A r \in q \cup {x} : s.orders[r].qty \in Nat
  <2> HIDE DEF w, q
  <2>1. /\ IsFiniteSet(Priced(s.orders, l, buy, p))
        /\ \A r \in Priced(s.orders, l, buy, p) : s.orders[r].qty \in Nat
    BY PricedFacts
  <2> QED BY <1>4, <2>1, FS_Subset
<1>6. t = [orders |-> w, levels |-> LevelsWith(s, l, buy, p, total)]
  BY DEF Ref!RemoveOrder, LevelsWith
<1>a. \A r \in q : w[r].qty = s.orders[r].qty
  BY <1>2, <1>4 DEF Priced, Held
<1> HIDE DEF w, q
<1>7. SharesOf(w, q) = SharesOf(s.orders, q)
  BY <1>5, <1>a, SharesSame
<1>8. /\ SharesOf(s.orders, q) \in Nat /\ Cardinality(q) \in Nat
      /\ SharesOf(s.orders, q \cup {x}) = SharesOf(s.orders, q) + e.qty
      /\ Cardinality(q \cup {x}) = Cardinality(q) + 1
      /\ Cardinality(q) = 0 => SharesOf(s.orders, q) = 0
  BY <1>4, <1>5, TotalsGrow
<1>9. total = Totals(w, q)
  <2>1. h.shares = SharesOf(s.orders, q \cup {x}) /\ h.orders = Cardinality(q \cup {x})
    BY <1>3 DEF Totals
  <2> DEFINE n == Cardinality(q)
             m == SharesOf(s.orders, q)
  <2>2. /\ h.shares = m + e.qty /\ h.orders = n + 1 /\ m \in Nat /\ n \in Nat /\ e.qty \in Nat
        /\ n = 0 => m = 0
    BY <1>1, <1>8, <2>1
  <2>3. Totals(w, q) = [shares |-> m, orders |-> n]
    BY <1>7 DEF Totals
  <2>4. Ref!NoLevel = [shares |-> 0, orders |-> 0]
    BY NoEntryOut
  <2> HIDE DEF n, m, h
  <2>5. total = [shares |-> m, orders |-> n]
    <3>1. CASE n = 0
      BY <2>2, <2>4, <3>1
    <3>2. CASE n # 0
      <4>1. h.orders # 1 /\ h.shares - e.qty = m /\ h.orders - 1 = n
        BY <2>2, <3>2
      <4> QED BY <4>1
    <3> QED BY <3>1, <3>2
  <2> QED BY <2>3, <2>5
<1>10. Tallied([orders |-> w, levels |-> LevelsWith(s, l, buy, p, total)])
  <2> HIDE DEF total
  <2>1. w = [s.orders EXCEPT ![x] = Ref!NoEntry] /\ q = Priced(w, l, buy, p)
    BY DEF w, q
  <2>2. e.locate = l /\ e.buy = buy /\ e.price = p
    OBVIOUS
  <2>3. /\ Ref!NoEntry \in Entries \cup {Ref!NoEntry} /\ Ref!NoEntry \notin Entries
        /\ total = Totals(w, Priced(w, l, buy, p))
        /\ l \in Locates /\ buy \in BOOLEAN /\ p \in Prices
        /\ s.orders[x].locate = l /\ s.orders[x].buy = buy /\ s.orders[x].price = p
    BY <1>1, <1>9, <2>1, <2>2, NoEntryOut
  <2>4. PICK none : none = Ref!NoEntry
    OBVIOUS
  <2> HIDE DEF l, buy, p, h, e
  <2>5. /\ w = [s.orders EXCEPT ![x] = none] /\ none \in Entries \cup {Ref!NoEntry}
        /\ none \in Entries => none.locate = l /\ none.buy = buy /\ none.price = p
        /\ x \in Held(s.orders) => /\ s.orders[x].locate = l /\ s.orders[x].buy = buy
                                   /\ s.orders[x].price = p
    BY <2>1, <2>3, <2>4
  <2>6. /\ total = Totals(w, Priced(w, l, buy, p))
        /\ l \in Locates /\ buy \in BOOLEAN /\ p \in Prices
    BY <2>3
  <2> QED BY ONLY <2>5, <2>6, OneChanges, Tallied(s), x \in AllRefs
<1> HIDE DEF t, total, h, l, buy, p, e
<1>11. Tallied(t) /\ t.orders = w
  BY <1>6, <1>10
<1> QED BY <1>11 DEF w, t

\* An order shrinks, and its level with it.
LEMMA ReduceTallied ==
  ASSUME NEW s, Tallied(s), NEW x \in AllRefs, s.orders[x] # Ref!NoEntry,
         NEW take \in Nat, take < s.orders[x].qty,
         NEW e, e = [s.orders[x] EXCEPT !.qty = s.orders[x].qty - take],
         NEW t, t = [orders |-> [s.orders EXCEPT ![x] = e],
                     levels |-> [s.levels EXCEPT ![s.orders[x].locate][s.orders[x].buy]
                                                  [s.orders[x].price].shares = @ - take]]
  PROVE  Tallied(t) /\ e \in Entries
<1> DEFINE o == s.orders[x]
           w == [s.orders EXCEPT ![x] = e]
           l == o.locate
           buy == o.buy
           p == o.price
           all == Priced(w, l, buy, p)
           q == all \ {x}
           h == s.levels[l][buy][p]
           total == [shares |-> h.shares - take, orders |-> h.orders]
<1>1. /\ o \in Entries /\ x \in Held(s.orders)
      /\ l \in Locates /\ buy \in BOOLEAN /\ p \in Prices /\ o.qty \in Nat
  BY DEF Tallied, Held, Entries
<1>2. /\ e \in Entries /\ e.locate = l /\ e.buy = buy /\ e.price = p /\ e.qty = o.qty - take
  <2> DEFINE left == o.qty - take
  <2>1. left \in Nat \ {0}
    <3> DEFINE sz == o.qty
    <3>1. sz \in Nat /\ take \in Nat /\ take < sz
      BY <1>1
    <3> HIDE DEF sz
    <3>2. sz - take \in Nat \ {0}
      BY ONLY <3>1
    <3> QED BY <3>2 DEF sz
  <2>2. o \in [locate : Locates, buy : BOOLEAN, price : Prices \ {0}, qty : Nat \ {0}]
    BY <1>1 DEF Entries
  <2> HIDE DEF left
  <2>3. e = [o EXCEPT !.qty = left]
    BY DEF left
  <2> HIDE DEF o
  <2>4. /\ e \in [locate : Locates, buy : BOOLEAN, price : Prices \ {0}, qty : Nat \ {0}]
        /\ e.locate = o.locate /\ e.buy = o.buy /\ e.price = o.price /\ e.qty = left
    BY ONLY <2>1, <2>2, <2>3
  <2> QED BY <2>4 DEF Entries, left
<1>b. e # Ref!NoEntry /\ e.qty \in Nat
  <2>1. \A y \in Entries : y.qty \in Nat
    BY DEF Entries
  <2> QED BY <1>2, <2>1, NoEntryOut
<1> HIDE DEF o
<1>3. /\ w[x] = e /\ \A r \in AllRefs \ {x} : w[r] = s.orders[r]
  BY DEF Tallied
<1>4. Priced(s.orders, l, buy, p) = q \cup {x} /\ all = q \cup {x} /\ x \notin q
  <2> HIDE DEF w
  <2> QED BY <1>1, <1>2, <1>b, <1>3 DEF Priced, Held, o
<1>5. IsFiniteSet(q) /\ \A r \in q \cup {x} : s.orders[r].qty \in Nat
  <2> HIDE DEF w, q, all
  <2>1. /\ IsFiniteSet(Priced(s.orders, l, buy, p))
        /\ \A r \in Priced(s.orders, l, buy, p) : s.orders[r].qty \in Nat
    BY PricedFacts
  <2> QED BY <1>4, <2>1, FS_Subset
<1>6. h = Totals(s.orders, q \cup {x})
  <2>1. h = Totals(s.orders, Priced(s.orders, l, buy, p))
    BY <1>1, LevelIs
  <2> HIDE DEF h, q, l, buy, p, w, all
  <2> QED BY <1>4, <2>1
<1>7. t = [orders |-> w, levels |-> LevelsWith(s, l, buy, p, total)]
  <2>1. /\ s.levels[l][buy][p] = h /\ h = [shares |-> h.shares, orders |-> h.orders]
    BY <1>6 DEF Totals
  <2>2. [h EXCEPT !.shares = h.shares - take] = total
    <3> HIDE DEF h
    <3>1. \A a, b, c : [[shares |-> a, orders |-> b] EXCEPT !.shares = c] = [shares |-> c, orders |-> b]
      BY ONLY TRUE
    <3>2. PICK a : a = h.shares
      OBVIOUS
    <3>3. PICK b : b = h.orders
      OBVIOUS
    <3>4. h = [shares |-> a, orders |-> b]
      BY <2>1, <3>2, <3>3
    <3>5. [h EXCEPT !.shares = a - take] = [shares |-> a - take, orders |-> b]
      BY ONLY <3>1, <3>4
    <3> QED BY <3>2, <3>3, <3>5
  <2>3. t.levels = [s.levels EXCEPT ![l][buy][p] = [h EXCEPT !.shares = h.shares - take]]
    BY DEF o
  <2>4. t = [orders |-> w, levels |-> t.levels]
    OBVIOUS
  <2> HIDE DEF h, total, w, l, buy, p
  <2> QED BY <2>2, <2>3, <2>4 DEF LevelsWith
<1>a. \A r \in q : w[r].qty = s.orders[r].qty
  BY <1>3, <1>4 DEF Priced, Held
<1> HIDE DEF w, q, all
<1>8. SharesOf(w, q) = SharesOf(s.orders, q)
  BY <1>5, <1>a, SharesSame
<1>9. /\ SharesOf(s.orders, q) \in Nat /\ Cardinality(q) \in Nat
      /\ SharesOf(s.orders, q \cup {x}) = SharesOf(s.orders, q) + o.qty
      /\ Cardinality(q \cup {x}) = Cardinality(q) + 1
  BY <1>4, <1>5, TotalsGrow DEF o
<1>c. /\ SharesOf(w, q \cup {x}) = SharesOf(w, q) + w[x].qty
  <2>1. \A r \in q \cup {x} : w[r].qty \in Nat
    BY <1>a, <1>b, <1>3, <1>5
  <2> QED BY <1>4, <1>5, <2>1, TotalsGrow
<1>10. total = Totals(w, all)
  <2>1. h.shares = SharesOf(s.orders, q \cup {x}) /\ h.orders = Cardinality(q \cup {x})
    <3> DEFINE g == h
    <3>1. g = Totals(s.orders, q \cup {x})
      BY <1>6
    <3> HIDE DEF g, h
    <3>2. g.shares = SharesOf(s.orders, q \cup {x}) /\ g.orders = Cardinality(q \cup {x})
      BY ONLY <3>1 DEF Totals
    <3> QED BY <3>2 DEF g
  <2> DEFINE n == Cardinality(q \cup {x})
             m == SharesOf(s.orders, q)
             k == SharesOf(w, q \cup {x})
  <2>2. /\ h.shares = m + o.qty /\ h.orders = n /\ m \in Nat /\ o.qty \in Nat /\ k = m + (o.qty - take)
    BY <1>1, <1>2, <1>3, <1>8, <1>9, <1>c, <2>1
  <2>3. Totals(w, all) = [shares |-> k, orders |-> n]
    BY <1>4 DEF Totals
  <2> DEFINE sz == o.qty
             hs == h.shares
  <2>5. hs = m + sz /\ m \in Nat /\ sz \in Nat /\ k = m + (sz - take) /\ take \in Nat
    BY <2>2
  <2> HIDE DEF n, m, k, sz, hs
  <2>4. hs - take = k
    BY ONLY <2>5
  <2>6. h.shares - take = k
    BY <2>4 DEF hs
  <2> HIDE DEF h
  <2> QED BY <2>2, <2>3, <2>6
<1>11. Tallied([orders |-> w, levels |-> LevelsWith(s, l, buy, p, total)])
  <2> HIDE DEF total
  <2>1. w = [s.orders EXCEPT ![x] = e] /\ all = Priced(w, l, buy, p)
    BY DEF w, all
  <2>2. s.orders[x].locate = l /\ s.orders[x].buy = buy /\ s.orders[x].price = p
    BY DEF o
  <2>3. /\ e \in Entries \cup {Ref!NoEntry} /\ e.locate = l /\ e.buy = buy /\ e.price = p
        /\ total = Totals(w, Priced(w, l, buy, p))
        /\ l \in Locates /\ buy \in BOOLEAN /\ p \in Prices
    BY <1>1, <1>2, <1>10, <2>1
  <2> HIDE DEF l, buy, p, h
  <2> QED BY ONLY <2>1, <2>2, <2>3, OneChanges, Tallied(s), x \in AllRefs
<1> QED BY <1>2, <1>7, <1>11

\* The order is gone, if there was one.
LEMMA WithoutTallied ==
  ASSUME NEW s, Tallied(s), NEW x \in AllRefs
  PROVE  LET t == Ref!Without(s, x)
         IN Tallied(t) /\ t.orders = [s.orders EXCEPT ![x] = Ref!NoEntry]
<1>1. CASE Ref!Has(s, x)
  BY <1>1, RemoveTallied DEF Ref!Without, Ref!Has
<1>2. CASE ~ Ref!Has(s, x)
  <2>1. s.orders = [s.orders EXCEPT ![x] = Ref!NoEntry]
    BY <1>2 DEF Tallied, Ref!Has
  <2> QED BY <1>2, <2>1 DEF Ref!Without
<1> QED BY <1>1, <1>2

-----------------------------------------------------------------------------
(* The two books side by side.                                             *)

\* The reference book holds the orders that rest in the manager's books.
Mirrors ==
  \A r \in AllRefs :
    IF OrderAt(Now, r) = Absent THEN refOrders[r] = Ref!NoEntry
    ELSE refOrders[r] = OrderAt(Now, r) /\ OrderAt(Now, r) \in Entries

\* What the reference book has is what is live.
LEMMA MirrorFacts ==
  ASSUME Sound(os, books), Mirrors, NEW r \in AllRefs
  PROVE  /\ Ref!Has(Ref!Now, r) <=> Live(os, r)
         /\ refOrders[r] # Ref!NoEntry <=> Live(os, r)
         /\ Live(os, r) => /\ refOrders[r] = OrderAt(Now, r) /\ refOrders[r] \in Entries
                           /\ refOrders[r].qty = os[r].qty /\ os[r].qty \in Nat
                           /\ refOrders[r].locate = os[r].locate
                           /\ refOrders[r].buy = os[r].buy
<1>1. /\ OrderAt(Now, r) # Absent <=> Live(os, r)
      /\ Live(os, r) => /\ OrderAt(Now, r).qty = os[r].qty /\ OrderAt(Now, r).locate = os[r].locate
                        /\ OrderAt(Now, r).buy = os[r].buy /\ os[r].qty \in Nat
  BY RestingLive DEF Now
<1>2. refOrders[r] # Ref!NoEntry <=> Live(os, r)
  BY <1>1, NoEntryOut DEF Mirrors
<1>3. Ref!Has(Ref!Now, r) <=> refOrders[r] # Ref!NoEntry
  BY DEF Ref!Has, Ref!Now
<1> QED BY <1>1, <1>2, <1>3 DEF Mirrors

\* What the reference book becomes is what the step says.
LEMMA BecomesTallied ==
  ASSUME NEW t, Tallied(t), Ref!Become(t)
  PROVE  Tallied(Ref!Now)' /\ refOrders' = t.orders
<1>1. Ref!Now' = t
  BY DEF Ref!Now, Ref!Become, Tallied
<1> QED BY <1>1 DEF Ref!Become, Tallied

\* Neither book moves.
LEMMA StayMirrored ==
  ASSUME Mirrors, Tallied(Ref!Now), Stay, UNCHANGED <<refOrders, refLevels>>
  PROVE  Tallied(Ref!Now)' /\ Mirrors'
<1>1. Ref!Now' = Ref!Now
  BY DEF Ref!Now
<1>2. Now' = Now
  BY DEF Now, Stay
<1>3. \A r \in AllRefs : OrderAt(Now', r) = OrderAt(Now, r)
  BY <1>2
<1> QED BY <1>1, <1>3 DEF Tallied, Mirrors

\* A reference nobody rests under.
LEMMA GoneAbsent ==
  ASSUME NEW r, ~ Live(os', r)
  PROVE  OrderAt(Now', r) = Absent
BY DEF OrderAt, Now, Live

\* The order that arrives is one.
LEMMA EntryPresent ==
  ASSUME NEW e \in Entries
  PROVE  e # Absent /\ e # Ref!NoEntry
<1>1. e \in [locate : Nat, buy : BOOLEAN, qty : Nat, price : Int]
  <2>1. /\ e = [locate |-> e.locate, buy |-> e.buy, price |-> e.price, qty |-> e.qty]
        /\ e.locate \in Nat /\ e.buy \in BOOLEAN /\ e.price \in Int /\ e.qty \in Nat
    <3>1. e \in [locate : Locates, buy : BOOLEAN, price : Prices \ {0}, qty : Nat \ {0}]
      BY ONLY e \in Entries DEF Entries
    <3>2. e = [locate |-> e.locate, buy |-> e.buy, price |-> e.price, qty |-> e.qty]
      BY ONLY <3>1
    <3>3. /\ e.locate \in Locates /\ e.buy \in BOOLEAN /\ e.price \in Prices
          /\ e.qty \in Nat
      BY ONLY <3>1
    <3>4. Locates \subseteq Nat /\ Prices \subseteq Nat
      BY ConstantFacts
    <3>5. e.locate \in Nat /\ e.price \in Nat
      BY ONLY <3>3, <3>4, Zenon
    <3>6. e.price \in Int
      BY ONLY <3>5
    <3> QED BY ONLY <3>2, <3>3, <3>5, <3>6
  <2>2. \A a \in Nat, b \in BOOLEAN, c \in Int, d \in Nat :
          [locate |-> a, buy |-> b, price |-> c, qty |-> d]
            \in [locate : Nat, buy : BOOLEAN, qty : Nat, price : Int]
    BY ONLY TRUE
  <2>3. [locate |-> e.locate, buy |-> e.buy, price |-> e.price, qty |-> e.qty]
          \in [locate : Nat, buy : BOOLEAN, qty : Nat, price : Int]
    BY ONLY <2>1, <2>2
  <2> QED BY ONLY <2>1, <2>3, Zenon
<1> QED BY <1>1, AbsentAssumption, NoEntryOut

\* A delete leaves the reference book and the manager with the same orders.
LEMMA DeleteMirrored ==
  ASSUME Sound(os, books), Mirrors, Tallied(Ref!Now), NEW ref \in AllRefs,
         DeleteDoes(ref), Ref!OnDelete(ref)
  PROVE  Tallied(Ref!Now)' /\ Mirrors'
<1> DEFINE t == Ref!Without(Ref!Now, ref)
<1>1. Tallied(t) /\ t.orders = [Ref!Now.orders EXCEPT ![ref] = Ref!NoEntry]
  BY WithoutTallied
<1>2. Ref!Become(t)
  BY DEF Ref!OnDelete
<1> HIDE DEF t
<1>3. Ref!Now.orders = refOrders
  BY DEF Ref!Now
<1>4. Tallied(Ref!Now)' /\ refOrders' = [refOrders EXCEPT ![ref] = Ref!NoEntry]
  BY <1>1, <1>2, <1>3, BecomesTallied
<1>5. DOMAIN refOrders = AllRefs
  BY <1>3 DEF Tallied
<1>6. CASE Live(os, ref)
  <2>1. /\ ~ Live(os', ref)
        /\ \A r \in AllRefs \ {ref} : OrderAt(Now', r) = OrderAt(Now, r)
    BY <1>6 DEF DeleteDoes, LeavesLine
  <2>2. OrderAt(Now', ref) = Absent
    BY <2>1, GoneAbsent
  <2> QED BY <1>4, <1>5, <2>1, <2>2 DEF Mirrors
<1>7. CASE ~ Live(os, ref)
  <2>1. Now' = Now
    BY <1>7 DEF DeleteDoes, Stay, Now
  <2>2. \A r \in AllRefs : OrderAt(Now', r) = OrderAt(Now, r)
    BY <2>1
  <2>3. refOrders[ref] = Ref!NoEntry
    BY <1>7, MirrorFacts
  <2>4. \A r \in AllRefs : refOrders'[r] = refOrders[r]
    BY <1>4, <1>5, <2>3
  <2> QED BY <1>4, <2>2, <2>4 DEF Mirrors
<1> QED BY <1>6, <1>7

\* So does an add, refused by both or taken by both.
LEMMA AddMirrored ==
  ASSUME Sound(os, books), Mirrors, Tallied(Ref!Now), NEW ref \in AllRefs,
         NEW l \in Locates, NEW buy \in BOOLEAN, NEW price \in Prices, NEW shares \in Sizes,
         AddDoes(ref, l, buy, price, shares), Ref!OnAdd(ref, l, buy, price, shares)
  PROVE  Tallied(Ref!Now)' /\ Mirrors'
<1>1. Ref!Takes(ref, price, shares) <=> Accepts(ref, price, shares)
  BY DEF Ref!Takes, Accepts
<1>2. CASE ~ Accepts(ref, price, shares)
  BY <1>1, <1>2, StayMirrored DEF AddDoes, Ref!OnAdd
<1>3. CASE Accepts(ref, price, shares)
  <2> DEFINE e == [locate |-> l, buy |-> buy, price |-> price, qty |-> shares]
             u == Ref!Without(Ref!Now, ref)
             t == Ref!Insert(u, ref, e)
  <2>1. e \in Entries
    BY <1>3, ConstantFacts DEF Entries, Accepts
  <2>2. Ref!Become(t)
    BY <1>1, <1>3 DEF Ref!OnAdd
  <2>3. OrderAt(Now', ref) = e
    BY <1>3 DEF AddDoes
  <2>4. \A r \in AllRefs \ {ref} : OrderAt(Now', r) = OrderAt(Now, r)
    BY <1>3 DEF AddDoes, JoinsLine
  <2> HIDE DEF e
  <2>5. Tallied(u) /\ u.orders = [refOrders EXCEPT ![ref] = Ref!NoEntry]
    BY WithoutTallied DEF Ref!Now
  <2>6. DOMAIN refOrders = AllRefs
    BY DEF Tallied, Ref!Now
  <2> HIDE DEF u
  <2>7. u.orders[ref] = Ref!NoEntry
    BY <2>5, <2>6
  <2>8. Tallied(t) /\ t.orders = [u.orders EXCEPT ![ref] = e]
    <3>1. Tallied(u)
      BY <2>5
    <3> HIDE DEF t
    <3>2. t = Ref!Insert(u, ref, e)
      BY DEF t
    <3> QED BY ONLY <2>1, <2>7, <3>1, <3>2, ref \in AllRefs, InsertTallied
  <2> HIDE DEF t
  <2>9. Tallied(Ref!Now)' /\ refOrders' = [u.orders EXCEPT ![ref] = e]
    BY <2>2, <2>8, BecomesTallied
  <2>10. refOrders'[ref] = e /\ \A r \in AllRefs \ {ref} : refOrders'[r] = refOrders[r]
    BY <2>5, <2>6, <2>9
  <2> QED BY <2>1, <2>3, <2>4, <2>9, <2>10, EntryPresent DEF Mirrors
<1> QED BY <1>2, <1>3

\* So does a reduction, which takes no more from either than is there.
LEMMA ReduceMirrored ==
  ASSUME Sound(os, books), Mirrors, Tallied(Ref!Now), NEW ref \in AllRefs, NEW shares \in Sizes,
         ReduceDoes(ref, shares), Ref!OnReduce(ref, shares)
  PROVE  Tallied(Ref!Now)' /\ Mirrors'
<1> DEFINE o == refOrders[ref]
           take == IF shares < o.qty THEN shares ELSE o.qty
<1>1. CASE ~ Live(os, ref)
  <2>1. ~ Ref!Has(Ref!Now, ref)
    BY <1>1, MirrorFacts
  <2>2. UNCHANGED <<refOrders, refLevels>>
    BY <2>1 DEF Ref!OnReduce
  <2> QED BY <1>1, <2>2, StayMirrored DEF ReduceDoes
<1>2. CASE Live(os, ref)
  <2>1. /\ Ref!Has(Ref!Now, ref) /\ o # Ref!NoEntry /\ o = OrderAt(Now, ref) /\ o \in Entries
        /\ o.qty = os[ref].qty /\ o.qty \in Nat /\ shares \in Nat
    BY <1>2, ConstantFacts, MirrorFacts
  <2>2. take = Taken(os, ref, shares) /\ take \in Nat
    BY <2>1 DEF Taken
  <2>3. Ref!Now.orders = refOrders /\ Ref!Now.levels = refLevels /\ DOMAIN refOrders = AllRefs
    BY DEF Ref!Now, Tallied
  <2>4. CASE take = o.qty
    <3> DEFINE t == Ref!RemoveOrder(Ref!Now, ref)
    <3>1. Ref!Become(t)
      BY <2>1, <2>4 DEF Ref!OnReduce
    <3>2. Tallied(t) /\ t.orders = [refOrders EXCEPT ![ref] = Ref!NoEntry]
      BY <2>1, <2>3, RemoveTallied
    <3> HIDE DEF t
    <3>3. Tallied(Ref!Now)' /\ refOrders' = [refOrders EXCEPT ![ref] = Ref!NoEntry]
      BY <3>1, <3>2, BecomesTallied
    <3>4. LeavesLine({ref})
      BY <1>2, <2>1, <2>2, <2>4 DEF ReduceDoes
    <3>5. /\ OrderAt(Now', ref) = Absent
          /\ \A r \in AllRefs \ {ref} : OrderAt(Now', r) = OrderAt(Now, r)
      BY <3>4, GoneAbsent DEF LeavesLine
    <3> QED BY <2>3, <3>3, <3>5 DEF Mirrors
  <2>5. CASE take # o.qty
    <3> DEFINE e == [o EXCEPT !.qty = o.qty - take]
               t == [orders |-> [refOrders EXCEPT ![ref] = e],
                     levels |-> [refLevels EXCEPT ![o.locate][o.buy][o.price].shares = @ - take]]
    <3>1. Ref!Become(t)
      BY <2>1, <2>5 DEF Ref!OnReduce
    <3>2. take < o.qty /\ take = shares
      BY <2>1, <2>5
    <3>3. Tallied(t) /\ e \in Entries
      BY <2>1, <2>2, <2>3, <3>2, ReduceTallied
    <3>4. t.orders = [refOrders EXCEPT ![ref] = e]
      <4> HIDE DEF e
      <4> QED BY ZenonT(30)
    <3>5. /\ OrderAt(Now', ref) = e
          /\ \A r \in AllRefs \ {ref} : OrderAt(Now', r) = OrderAt(Now, r)
      BY <1>2, <2>1, <2>2, <2>5, <3>2 DEF ReduceDoes
    <3> HIDE DEF t, e
    <3>6. Tallied(Ref!Now)' /\ refOrders' = [refOrders EXCEPT ![ref] = e]
      BY <3>1, <3>3, <3>4, BecomesTallied
    <3> HIDE DEF o
    <3>7. refOrders'[ref] = e /\ \A r \in AllRefs \ {ref} : refOrders'[r] = refOrders[r]
      BY <2>3, <3>6
    <3> QED BY <3>3, <3>5, <3>6, <3>7, EntryPresent DEF Mirrors
  <2> QED BY <2>4, <2>5
<1> QED BY <1>1, <1>2

\* So does a replace the feeds of test/synthetic.hpp may hold: one whose new reference
\* is accepted, is the old one, or is free.
LEMMA ReplaceMirrored ==
  ASSUME Sound(os, books), Mirrors, Tallied(Ref!Now), NEW old \in AllRefs, NEW new \in AllRefs,
         NEW price \in Prices, NEW shares \in Sizes,
         Accepts(new, price, shares) \/ old = new \/ ~ Live(os, new),
         ReplaceDoes(old, new, price, shares), Ref!OnReplace(old, new, price, shares)
  PROVE  Tallied(Ref!Now)' /\ Mirrors'
<1> DEFINE o == refOrders[old]
           gone == Ref!RemoveOrder(Ref!Now, old)
           left == {old} \cup ({new} \cap LiveRefs)
<1>1. Ref!Takes(new, price, shares) <=> Accepts(new, price, shares)
  BY DEF Ref!Takes, Accepts
<1>2. CASE ~ Live(os, old)
  <2>1. ~ Ref!Has(Ref!Now, old)
    BY <1>2, MirrorFacts
  <2>2. UNCHANGED <<refOrders, refLevels>>
    BY <2>1 DEF Ref!OnReplace
  <2> QED BY <1>2, <2>2, StayMirrored DEF ReplaceDoes
<1>3. CASE Live(os, old)
  <2>1. /\ Ref!Has(Ref!Now, old) /\ o # Ref!NoEntry /\ o \in Entries
        /\ o.locate = os[old].locate /\ o.buy = os[old].buy
    BY <1>3, MirrorFacts
  <2>2. Ref!Now.orders = refOrders /\ DOMAIN refOrders = AllRefs
    BY DEF Ref!Now, Tallied
  <2>3. Tallied(gone) /\ gone.orders = [refOrders EXCEPT ![old] = Ref!NoEntry]
    BY <2>1, <2>2, RemoveTallied
  <2>4. CASE ~ Accepts(new, price, shares)
    <3>1. Ref!Become(gone)
      BY <1>1, <2>1, <2>4 DEF Ref!OnReplace
    <3>2. LeavesLine({old} \cup ({new} \cap LiveRefs))
      BY <1>3, <2>4 DEF ReplaceDoes
    <3>3. {old} \cup ({new} \cap LiveRefs) = {old}
      BY <2>4 DEF LiveRefs
    <3>4. LeavesLine({old})
      BY <3>2, <3>3
    <3> HIDE DEF gone, left
    <3>5. Tallied(Ref!Now)' /\ refOrders' = [refOrders EXCEPT ![old] = Ref!NoEntry]
      BY <2>3, <3>1, BecomesTallied
    <3>6. /\ OrderAt(Now', old) = Absent
          /\ \A r \in AllRefs \ {old} : OrderAt(Now', r) = OrderAt(Now, r)
      BY <3>4, GoneAbsent DEF LeavesLine
    <3> QED BY <2>2, <3>5, <3>6 DEF Mirrors
  <2>5. CASE Accepts(new, price, shares)
    <3> DEFINE e == [locate |-> o.locate, buy |-> o.buy, price |-> price, qty |-> shares]
               u == Ref!Without(gone, new)
               t == Ref!Insert(u, new, e)
    <3>1. Ref!Become(t)
      BY <1>1, <2>1, <2>5 DEF Ref!OnReplace
    <3>2. e \in Entries
      BY <2>1, <2>5, ConstantFacts DEF Entries, Accepts
    <3>3. OrderAt(Now', new) = e /\ JoinsLine(left, new)
      BY <1>3, <2>1, <2>5 DEF ReplaceDoes
    <3> HIDE DEF gone, e, o
    <3>4. Tallied(u) /\ u.orders = [gone.orders EXCEPT ![new] = Ref!NoEntry]
      BY <2>3, WithoutTallied
    <3> HIDE DEF u
    <3>5. u.orders[new] = Ref!NoEntry
      BY <2>2, <2>3, <3>4
    <3>6. Tallied(t) /\ t.orders = [u.orders EXCEPT ![new] = e]
      <4>1. Tallied(u)
        BY <3>4
      <4> HIDE DEF t
      <4>2. t = Ref!Insert(u, new, e)
        BY DEF t
      <4> QED BY ONLY <3>2, <3>5, <4>1, <4>2, new \in AllRefs, InsertTallied
    <3> HIDE DEF t
    <3>7. Tallied(Ref!Now)' /\ refOrders' = [u.orders EXCEPT ![new] = e]
      BY <3>1, <3>6, BecomesTallied
    <3>8. /\ refOrders'[new] = e /\ (old # new => refOrders'[old] = Ref!NoEntry)
          /\ \A r \in AllRefs \ {old, new} : refOrders'[r] = refOrders[r]
      BY <2>2, <2>3, <3>4, <3>7
    <3>9. /\ old # new => OrderAt(Now', old) = Absent
          /\ \A r \in AllRefs \ {old, new} : OrderAt(Now', r) = OrderAt(Now, r)
      <4>1. old # new => ~ Live(os', old)
        BY <3>3 DEF JoinsLine
      <4>2. \A r \in AllRefs \ {old, new} : r \notin left \cup {new}
        OBVIOUS
      <4> QED BY <3>3, <4>1, <4>2, GoneAbsent DEF JoinsLine
    <3> HIDE DEF left
    <3> QED BY <3>2, <3>3, <3>7, <3>8, <3>9, EntryPresent DEF Mirrors
  <2> QED BY <2>4, <2>5
<1> QED BY <1>2, <1>3

-----------------------------------------------------------------------------
(* Every step, and the theorem.                                            *)

DInv == QInv /\ Tallied(Ref!Now) /\ Mirrors

\* Two books with no message behind them agree.
LEMMA InitDInv ==
  ASSUME DInit
  PROVE  DInv
<1>1. QInv
  BY InitQInv DEF DInit
<1>2. Sound(os, books)
  BY <1>1, IInvFacts DEF QInv
<1>3. refOrders = [r \in AllRefs |-> Ref!NoEntry] /\ Held(refOrders) = {}
  BY DEF DInit, Ref!Init, Held
<1>4. \A r \in AllRefs : ~ Live(os, r)
  BY DEF DInit, Init, Live, NoOrder, Nil
<1>5. Mirrors
  BY <1>3, <1>4 DEF Mirrors, OrderAt, Now, Live
<1>6. \A l, buy, p : Totals(refOrders, Priced(refOrders, l, buy, p)) = Ref!NoLevel
  <2>1. \A l, buy, p : Priced(refOrders, l, buy, p) = {}
    BY <1>3 DEF Priced
  <2>2. SharesOf(refOrders, {}) = 0
    <3>1. IsFiniteSet({}) /\ \A r \in {} : refOrders[r].qty \in Nat
      BY FS_EmptySet
    <3> QED BY <3>1, SharesSplit
  <2>3. Cardinality({}) = 0
    BY FS_EmptySet
  <2>4. Totals(refOrders, {}) = Ref!NoLevel
    BY <2>2, <2>3, NoEntryOut DEF Totals
  <2> QED BY <2>1, <2>4
<1>7. Tallied(Ref!Now)
  <2> DEFINE T(l, buy, p) == Totals(refOrders, Priced(refOrders, l, buy, p))
             s == Ref!Now
  <2>1. refLevels = [l \in Locates |-> [buy \in BOOLEAN |-> [p \in Prices |-> Ref!NoLevel]]]
    BY DEF DInit, Ref!Init
  <2>2. \A l, buy, p : T(l, buy, p) = Ref!NoLevel
    BY <1>6
  <2> HIDE DEF T
  <2>3. refLevels = [l \in Locates |-> [buy \in BOOLEAN |-> [p \in Prices |-> T(l, buy, p)]]]
    BY <2>1, <2>2
  <2>4. s.orders = refOrders /\ s.levels = refLevels /\ s = [orders |-> s.orders, levels |-> s.levels]
    BY DEF Ref!Now
  <2> HIDE DEF s
  <2>5. Tallied(s)
    BY <1>3, <2>3, <2>4 DEF Tallied, T
  <2> QED BY <2>5 DEF s
<1> QED BY <1>1, <1>5, <1>7 DEF DInv

\* Every step of the two books together is one of the manager.
LEMMA StepManager ==
  ASSUME DNext
  PROVE  Next
<1>1. 0 \in SinkPrices
  BY BoundsAssumption DEF SinkPrices, Prices
<1> QED BY <1>1 DEF DNext, Next

\* In the feeds of the tests both books do the same.
LEMMA StepDInv ==
  ASSUME DInv, AnyFeed = FALSE, [DNext]_<<vars, refVars>>
  PROVE  DInv'
<1>1. QInv'
  <2>1. [Next]_vars
    BY StepManager
  <2> QED BY <2>1, StepQInv DEF DInv
<1>2. Ordered(os, books, ahead) /\ Sound(os, books)
  BY QInvOrdered DEF DInv, QInv, Ordered
<1>3. Tallied(Ref!Now) /\ Mirrors
  BY DEF DInv
<1> DEFINE Both == Tallied(Ref!Now)' /\ Mirrors'
<1>4. CASE UNCHANGED <<vars, refVars>>
  <2>1. Both
    BY <1>3, <1>4, StayMirrored DEF vars, refVars, Stay
  <2> QED BY <1>1, <2>1 DEF DInv
<1>5. ASSUME NEW ref \in AllRefs, NEW l \in Locates, NEW buy \in BOOLEAN,
             NEW price \in Prices, NEW shares \in Sizes,
             OnAdd(ref, l, buy, price, shares), Ref!OnAdd(ref, l, buy, price, shares)
      PROVE  Both
  <2>1. AddDoes(ref, l, buy, price, shares)
    BY <1>2, <1>5, AddDone
  <2> QED BY <1>2, <1>3, <1>5, <2>1, AddMirrored
<1>6. ASSUME NEW ref \in AllRefs, NEW shares \in Sizes, NEW counter,
             ReduceOrder(ref, shares, counter), Ref!OnReduce(ref, shares)
      PROVE  Both
  <2>1. ReduceDoes(ref, shares)
    BY <1>2, <1>6, ReduceDone
  <2> QED BY <1>2, <1>3, <1>6, <2>1, ReduceMirrored
<1>7. ASSUME NEW ref \in AllRefs, OnDelete(ref), Ref!OnDelete(ref)
      PROVE  Both
  <2>1. DeleteDoes(ref)
    BY <1>2, <1>7, DeleteDone
  <2> QED BY <1>2, <1>3, <1>7, <2>1, DeleteMirrored
<1>8. ASSUME NEW old \in AllRefs, NEW new \in AllRefs, NEW price \in Prices, NEW shares \in Sizes,
             InFeed(old, new, price, shares),
             OnReplace(old, new, price, shares), Ref!OnReplace(old, new, price, shares)
      PROVE  Both
  <2>1. ReplaceDoes(old, new, price, shares)
    BY <1>2, <1>8, ReplaceDone
  <2>2. Accepts(new, price, shares) \/ old = new \/ ~ Live(os, new)
    BY <1>8 DEF InFeed
  <2> QED BY <1>2, <1>3, <1>8, <2>1, <2>2, ReplaceMirrored
<1>9. CASE DNext
  <2> HIDE DEF Both
  <2>1. Both
    BY <1>5, <1>6, <1>7, <1>8, <1>9 DEF DNext, OnExecute, OnExecutePrice, OnCancel
  <2> QED BY <1>1, <2>1 DEF DInv, Both
<1> QED BY <1>4, <1>9

\* The reference book has at a price what the manager's side has at its key.
LEMMA PricedIs ==
  ASSUME Sound(os, books), Mirrors, NEW l \in Locates, NEW buy \in BOOLEAN, NEW p \in Prices,
         NEW r \in AllRefs
  PROVE  r \in Priced(refOrders, l, buy, p) <=>
           /\ Live(os, r) /\ os[r].locate = l /\ os[r].buy = buy
           /\ books[l].levels[os[r].level].key = Key(buy, p)
<1>1. CASE ~ Live(os, r)
  BY <1>1, MirrorFacts DEF Priced, Held
<1>2. CASE Live(os, r)
  <2> DEFINE k == os[r].locate
             h == os[r].level
             x == books[k].levels[h].key
  <2>1. /\ os \in Stores(AllRefs, Locates) /\ os[r] \in Order(AllRefs, Locates)
        /\ k \in Locates /\ InPlace(AllRefs, os, k, books[k]) /\ AtBook(os, r, k)
    BY <1>2 DEF Sound, Stores, Order, AtBook, Live
  <2>2. x \in Int
    BY <2>1, SeatFacts DEF Level
  <2>3. /\ refOrders[r] = OrderAt(Now, r) /\ refOrders[r] # Ref!NoEntry
        /\ refOrders[r].locate = k /\ refOrders[r].buy = os[r].buy
    BY <1>2, MirrorFacts
  <2>4. OrderAt(Now, r).price = Key(os[r].buy, x)
    BY <1>2 DEF OrderAt, Now, Live
  <2>5. Key(buy, x) = p <=> x = Key(buy, p)
    <3>1. p \in Int
      BY ConstantFacts
    <3> HIDE DEF x
    <3> QED BY <2>2, <3>1 DEF Key
  <2>6. r \in Priced(refOrders, l, buy, p) <=> k = l /\ os[r].buy = buy /\ Key(os[r].buy, x) = p
    <3> HIDE DEF k, x
    <3> QED BY <2>3, <2>4 DEF Priced, Held
  <2> HIDE DEF x
  <2> QED BY <1>2, <2>5, <2>6 DEF x
<1> QED BY <1>1, <1>2

\* A level the manager's side lists at a price is that of the reference book.
LEMMA LevelPriced ==
  ASSUME Sound(os, books), Mirrors, NEW l \in Locates, NEW buy \in BOOLEAN, NEW p \in Prices,
         NEW i \in DOMAIN books[l].side[buy], books[l].side[buy][i].key = Key(buy, p)
  PROVE  LET h == books[l].side[buy][i].level
             q == Priced(refOrders, l, buy, p)
         IN /\ Queue(os, l, h) = q /\ q # {}
            /\ LevelAt(books[l], buy, p) = {books[l].levels[h]}
            /\ books[l].levels[h].orders = Cardinality(q)
            /\ books[l].levels[h].shares = SharesOf(os, q)
<1> DEFINE b == books[l]
           h == b.side[buy][i].level
           q == Priced(refOrders, l, buy, p)
<1>1. /\ os \in Stores(AllRefs, Locates) /\ InPlace(AllRefs, os, l, b)
      /\ IsBook(AllRefs, b) /\ b \in BookType(AllRefs) /\ Laddered(b)
      /\ OrdersListed(os, l, b) /\ OrdersCounted(os, l, b) /\ SharesSummed(os, l, b)
  BY DEF Sound, InPlace, IsBook
<1>2. /\ h \in Listed(b, buy) /\ h \in OpenLevels(b) /\ h \in Handles(b) /\ h # Nil
      /\ b.levels[h].key = Key(buy, p)
  <2>1. h \in Listed(b, buy)
    BY DEF Listed
  <2>2. h \in OpenLevels(b) /\ h \in Handles(b) /\ h # Nil
    BY <1>1, <2>1, OpenHandles
  <2> QED BY <1>1, <2>1, <2>2 DEF Laddered
<1>3. \A j \in DOMAIN b.side[buy] : b.side[buy][j].key = Key(buy, p) => j = i
  <2> SUFFICES ASSUME NEW j \in DOMAIN b.side[buy], b.side[buy][j].key = Key(buy, p), j # i
               PROVE  FALSE
    OBVIOUS
  <2>1. i \in Nat /\ j \in Nat
    BY <1>1, BookTypeFacts
  <2>2. /\ i < j => b.side[buy][i].key < b.side[buy][j].key
        /\ j < i => b.side[buy][j].key < b.side[buy][i].key
    BY <1>1 DEF Laddered
  <2>3. Key(buy, p) \in Int
    BY ConstantFacts DEF Key
  <2> QED BY <2>1, <2>2, <2>3
<1>4. DOMAIN os = AllRefs
  BY <1>1 DEF Stores
<1>5. ASSUME NEW r \in Queue(os, l, h) PROVE r \in q
  <2>1. r \in AllRefs /\ os[r].level = h /\ os[r].locate = l /\ Live(os, r)
    BY <1>2, <1>4 DEF Queue, Live
  <2>2. os[r].buy \in BOOLEAN
    BY <1>1, <2>1 DEF Stores, Order
  <2>3. h \in Listed(b, os[r].buy)
    BY <1>1, <1>2, <1>4, <2>1 DEF OrdersListed
  <2>4. os[r].buy = buy
    BY <1>1, <1>2, <2>2, <2>3, SidesDisjoint
  <2> QED BY <1>2, <2>1, <2>4, PricedIs
<1>6. ASSUME NEW r \in q PROVE r \in Queue(os, l, h)
  <2>1. r \in AllRefs
    BY DEF Priced, Held
  <2>2. /\ Live(os, r) /\ os[r].locate = l /\ os[r].buy = buy
        /\ b.levels[os[r].level].key = Key(buy, p)
    BY <2>1, PricedIs
  <2>3. PICK j \in DOMAIN b.side[buy] : /\ b.side[buy][j].level = os[r].level
                                       /\ b.side[buy][j].key = b.levels[os[r].level].key
    BY <2>1, <2>2, RestingListed
  <2>4. j = i
    BY <1>3, <2>2, <2>3
  <2> QED BY <1>4, <2>1, <2>2, <2>3, <2>4 DEF Queue
<1>7. Queue(os, l, h) = q
  <2> HIDE DEF h, q
  <2>1. Queue(os, l, h) \subseteq q /\ q \subseteq Queue(os, l, h)
    BY <1>5, <1>6
  <2> QED BY <2>1
<1>8. /\ b.levels[h].orders = Cardinality(Queue(os, l, h)) /\ Queue(os, l, h) # {}
      /\ b.levels[h].shares = SharesOf(os, Queue(os, l, h))
  BY <1>1, <1>2 DEF OrdersCounted, SharesSummed, SharesOf
<1>9. LevelAt(b, buy, p) = {b.levels[h]}
  <2>1. {j \in DOMAIN b.side[buy] : b.side[buy][j].key = Key(buy, p)} = {i}
    BY <1>3
  <2> QED BY <2>1 DEF LevelAt
<1> HIDE DEF b, h, q
<1>10. /\ Queue(os, l, h) = q /\ q # {} /\ LevelAt(b, buy, p) = {b.levels[h]}
       /\ b.levels[h].orders = Cardinality(q) /\ b.levels[h].shares = SharesOf(os, q)
  BY <1>7, <1>8, <1>9
<1> QED BY <1>10 DEF b, h, q

\* Books that hold the same orders have the same levels, totals and queues.
LEMMA MirroredMatches ==
  ASSUME Sound(os, books), Mirrors, Tallied(Ref!Now)
  PROVE  BooksMatch
<1>1. LiveRefs = {r \in AllRefs : Ref!Has(Ref!Now, r)}
  BY MirrorFacts DEF LiveRefs
<1>2. ASSUME NEW l \in Locates, NEW buy \in BOOLEAN, NEW p \in Prices
      PROVE  LET fast == LevelAt(books[l], buy, p)
                 slow == refLevels[l][buy][p]
             IN IF slow = Ref!NoLevel
                  THEN fast = {}
                  ELSE {[shares |-> lv.shares, orders |-> lv.orders] : lv \in fast} = {slow}
  <2> DEFINE q == Priced(refOrders, l, buy, p)
             slow == refLevels[l][buy][p]
             fast == LevelAt(books[l], buy, p)
             side == books[l].side[buy]
  <2>1. slow = Totals(refOrders, q)
    BY LevelIs DEF Ref!Now
  <2>2. /\ IsFiniteSet(q) /\ q \subseteq AllRefs /\ Cardinality(q) \in Nat
        /\ q = {} <=> Cardinality(q) = 0
        /\ q = {} => SharesOf(refOrders, q) = 0
    <3>1. Ref!Now.orders = refOrders
      BY DEF Ref!Now
    <3> DEFINE s == Ref!Now
    <3>2. s.orders = refOrders /\ Tallied(s)
      BY <3>1
    <3> HIDE DEF s
    <3>3. LET u == Priced(s.orders, l, buy, p)
          IN /\ IsFiniteSet(u) /\ u \subseteq AllRefs /\ Cardinality(u) \in Nat
             /\ u = {} <=> Cardinality(u) = 0
             /\ u = {} => SharesOf(s.orders, u) = 0
      BY ONLY <3>2, PricedFacts
    <3> QED BY <3>2, <3>3
  <2>3. \A r \in q : refOrders[r].qty = os[r].qty
    BY <2>2, PricedIs, MirrorFacts
  <2>4. SharesOf(refOrders, q) = SharesOf(os, q)
    <3> HIDE DEF q
    <3> QED BY <2>2, <2>3, SharesSame
  <2>5. slow = Ref!NoLevel <=> q = {}
    <3> HIDE DEF q, slow
    <3>1. slow = [shares |-> SharesOf(refOrders, q), orders |-> Cardinality(q)]
      BY <2>1 DEF Totals
    <3> QED BY <2>2, <3>1, NoEntryOut
  <2>6. CASE q = {}
    <3>1. \A i \in DOMAIN side : side[i].key # Key(buy, p)
      BY <2>6, LevelPriced
    <3>2. fast = {}
      BY <3>1 DEF LevelAt
    <3> QED BY <2>5, <2>6, <3>2
  <2>7. CASE q # {}
    <3>1. PICK r \in q : r \in AllRefs
      BY <2>2, <2>7
    <3>2. /\ Live(os, r) /\ os[r].locate = l /\ os[r].buy = buy
          /\ books[l].levels[os[r].level].key = Key(buy, p)
      BY <3>1, PricedIs
    <3>3. PICK i \in DOMAIN side : side[i].key = Key(buy, p)
      BY <3>1, <3>2, RestingListed
    <3> DEFINE lv == books[l].levels[side[i].level]
    <3>4. /\ fast = {lv} /\ lv.orders = Cardinality(q) /\ lv.shares = SharesOf(os, q)
      BY <3>3, LevelPriced
    <3> HIDE DEF fast, slow, q, lv, side
    <3>5. [shares |-> lv.shares, orders |-> lv.orders] = slow
      BY <2>1, <2>4, <3>4 DEF Totals
    <3>6. {[shares |-> x.shares, orders |-> x.orders] : x \in fast} = {slow}
      BY <3>4, <3>5
    <3> QED BY <2>5, <2>7, <3>6 DEF fast, slow
  <2> QED BY <2>6, <2>7
<1>3. \A l \in Locates, buy \in BOOLEAN : SideMatches(l, buy)
  BY <1>2 DEF SideMatches
<1> QED BY <1>1, <1>3 DEF BooksMatch

\* The strengthening that is inductive: the reference book's levels total its orders,
\* and its orders are those at rest in the manager's books.
THEOREM MirrorInvariant == AnyFeed = FALSE => (DSpec => []DInv)
<1> SUFFICES ASSUME AnyFeed = FALSE PROVE DSpec => []DInv
  OBVIOUS
<1>1. DInit => DInv
  BY InitDInv
<1>2. DInv /\ [DNext]_<<vars, refVars>> => DInv'
  BY StepDInv
<1> QED BY <1>1, <1>2, PTL DEF DSpec

\* Over every feed the generators of the tests can make, the manager and the naive
\* book agree after every message: as many live orders, and on every side of every
\* book the same prices with the same shares and order counts.
THEOREM BooksAlwaysMatch == AnyFeed = FALSE => (DSpec => []BooksMatch)
<1> SUFFICES ASSUME AnyFeed = FALSE PROVE DSpec => []BooksMatch
  OBVIOUS
<1>1. DInv => BooksMatch
  <2>1. ASSUME DInv PROVE Sound(os, books)
    BY <2>1, IInvFacts DEF DInv, QInv
  <2> QED BY <2>1, MirroredMatches DEF DInv
<1> QED BY <1>1, MirrorInvariant, PTL
=============================================================================
