------------------------------ MODULE FlatProofs ------------------------------
(***************************************************************************)
(* What the open-addressing order store guarantees, proved for every set   *)
(* of references and orders, every hash and every initial capacity: that   *)
(* no deletion and no growth breaks a probe chain, that the table stays    *)
(* below its load limit, and that under the handlers of the book it is a   *)
(* map from references to orders.                                          *)
(***************************************************************************)
EXTENDS FlatHashOrderStore, FiniteSetTheorems, WellFoundedInduction, TLAPS

\* Every inhabited set of numbers has a least.
LEMMA LeastOf ==
  ASSUME NEW ns \in SUBSET Nat, ns # {}
  PROVE  \E n \in ns : \A m \in ns : n <= m
<1>1. PICK n \in ns : \A m \in ns : ~ (<<m, n>> \in OpToRel(<, Nat))
  BY NatLessThanWellFounded, WFMin
<1>2. \A m \in ns : ~ (m < n)
  BY <1>1 DEF OpToRel
<1> QED BY <1>2

-----------------------------------------------------------------------------
(* Around a table.                                                         *)

\* How far slot j is ahead of slot i, around the end.
Ahead(cap, i, j) == (j - i) % cap

\* Sums and differences of two slots wrap at most once.
LEMMA Wraps ==
  ASSUME NEW cap \in Nat \ {0}
  PROVE  /\ \A a \in 0 .. cap - 1 : a % cap = a
         /\ \A a \in cap .. 2 * cap - 1 : a % cap = a - cap
         /\ \A a \in -cap .. -1 : a % cap = a + cap
<1>1. ASSUME NEW a \in 0 .. cap - 1 PROVE a % cap = a
  OBVIOUS
<1>2. ASSUME NEW a \in cap .. 2 * cap - 1 PROVE a % cap = a - cap
  OBVIOUS
<1>3. ASSUME NEW a \in -cap .. -1 PROVE a % cap = a + cap
  OBVIOUS
<1> QED BY <1>1, <1>2, <1>3

\* A distance is a difference, or one that wraps.
LEMMA AheadIs ==
  ASSUME NEW cap \in Nat \ {0}, NEW i \in 0 .. cap - 1, NEW j \in 0 .. cap - 1
  PROVE  /\ Ahead(cap, i, j) = IF i <= j THEN j - i ELSE j - i + cap
         /\ Ahead(cap, i, j) \in 0 .. cap - 1
<1>1. CASE i <= j
  <2>1. j - i \in 0 .. cap - 1
    BY <1>1
  <2> QED BY <1>1, <2>1, Wraps DEF Ahead
<1>2. CASE j < i
  <2>1. j - i \in -cap .. -1
    BY <1>2
  <2>2. (j - i) % cap = j - i + cap
    BY <2>1, Wraps
  <2> QED BY <1>2, <2>2 DEF Ahead
<1> QED BY <1>1, <1>2

\* A step ahead, and the slot it leads to.
LEMMA StepAhead ==
  ASSUME NEW cap \in Nat \ {0}, NEW i \in 0 .. cap - 1, NEW d \in 0 .. cap - 1
  PROVE  (i + d) % cap \in 0 .. cap - 1 /\ Ahead(cap, i, (i + d) % cap) = d
<1>1. CASE i + d < cap
  <2>1. i + d \in 0 .. cap - 1
    BY <1>1
  <2>2. (i + d) % cap = i + d
    BY <2>1, Wraps
  <2>3. Ahead(cap, i, i + d) = d
    BY <2>1, AheadIs
  <2> QED BY <2>1, <2>2, <2>3
<1>2. CASE i + d >= cap
  <2>1. i + d \in cap .. 2 * cap - 1
    BY <1>2
  <2>2. (i + d) % cap = i + d - cap
    BY <2>1, Wraps
  <2>3. i + d - cap \in 0 .. cap - 1
    BY <2>1
  <2>4. Ahead(cap, i, i + d - cap) = d
    BY <2>1, <2>3, AheadIs
  <2> QED BY <2>2, <2>3, <2>4
<1> QED BY <1>1, <1>2

\* Every slot is reached.
LEMMA Reached ==
  ASSUME NEW cap \in Nat \ {0}, NEW i \in 0 .. cap - 1, NEW j \in 0 .. cap - 1
  PROVE  (i + Ahead(cap, i, j)) % cap = j
<1>1. CASE i <= j
  <2>1. i + Ahead(cap, i, j) = j
    BY <1>1, AheadIs
  <2> QED BY <2>1, Wraps
<1>2. CASE j < i
  <2>1. i + Ahead(cap, i, j) = j + cap
    BY <1>2, AheadIs
  <2>2. j + cap \in cap .. 2 * cap - 1 /\ j + cap - cap = j
    OBVIOUS
  <2> QED BY <2>1, <2>2, Wraps
<1> QED BY <1>1, <1>2

\* No two slots are equally far ahead.
LEMMA AheadApart ==
  ASSUME NEW cap \in Nat \ {0}, NEW i \in 0 .. cap - 1, NEW j \in 0 .. cap - 1,
         NEW k \in 0 .. cap - 1
  PROVE  Ahead(cap, i, j) = Ahead(cap, i, k) <=> j = k
<1>1. (i + Ahead(cap, i, j)) % cap = j /\ (i + Ahead(cap, i, k)) % cap = k
  BY Reached
<1> QED BY <1>1

\* Who passes x on the way from h to z passes e as well, if e is on the way from x to z;
\* so does who passes j, if e is not on the way from z to j.
LEMMA PassedToo ==
  ASSUME NEW cap \in Nat \ {0}, NEW i \in 0 .. cap - 1, NEW h \in 0 .. cap - 1,
         NEW x \in 0 .. cap - 1, NEW e \in 0 .. cap - 1, NEW z \in 0 .. cap - 1,
         Ahead(cap, h, x) < Ahead(cap, h, z),
         \/ /\ Ahead(cap, i, x) < Ahead(cap, i, e)
            /\ Ahead(cap, i, e) < Ahead(cap, i, z)
         \/ /\ Ahead(cap, i, z) < Ahead(cap, i, x)
            /\ Ahead(cap, i, x) < Ahead(cap, i, e)
  PROVE  Ahead(cap, h, e) < Ahead(cap, h, z)
<1> DEFINE hx == Ahead(cap, h, x)
           hz == Ahead(cap, h, z)
           he == Ahead(cap, h, e)
           ix == Ahead(cap, i, x)
           iz == Ahead(cap, i, z)
           ie == Ahead(cap, i, e)
<1>1. /\ hx \in Int /\ hx = IF h <= x THEN x - h ELSE x - h + cap
      /\ hz \in Int /\ hz = IF h <= z THEN z - h ELSE z - h + cap
      /\ he \in Int /\ he = IF h <= e THEN e - h ELSE e - h + cap
  <2>1. hx \in Int /\ hx = IF h <= x THEN x - h ELSE x - h + cap
    BY AheadIs
  <2>2. hz \in Int /\ hz = IF h <= z THEN z - h ELSE z - h + cap
    BY AheadIs
  <2>3. he \in Int /\ he = IF h <= e THEN e - h ELSE e - h + cap
    BY AheadIs
  <2> QED BY <2>1, <2>2, <2>3
<1>2. /\ ix \in Int /\ ix = IF i <= x THEN x - i ELSE x - i + cap
      /\ iz \in Int /\ iz = IF i <= z THEN z - i ELSE z - i + cap
      /\ ie \in Int /\ ie = IF i <= e THEN e - i ELSE e - i + cap
  <2>1. ix \in Int /\ ix = IF i <= x THEN x - i ELSE x - i + cap
    BY AheadIs
  <2>2. iz \in Int /\ iz = IF i <= z THEN z - i ELSE z - i + cap
    BY AheadIs
  <2>3. ie \in Int /\ ie = IF i <= e THEN e - i ELSE e - i + cap
    BY AheadIs
  <2> QED BY <2>1, <2>2, <2>3
<1>3. hx < hz /\ ((ix < ie /\ ie < iz) \/ (iz < ix /\ ix < ie))
  OBVIOUS
<1> HIDE DEF hx, hz, he, ix, iz, ie
<1>4. he < hz
  BY <1>1, <1>2, <1>3
<1> QED BY <1>4 DEF he, hz

\* Who is no nearer to j than x is passes x on the way to j; who is nearer does not.
LEMMA PassedOver ==
  ASSUME NEW cap \in Nat \ {0}, NEW k \in 0 .. cap - 1, NEW x \in 0 .. cap - 1,
         NEW j \in 0 .. cap - 1, x # j
  PROVE  Ahead(cap, k, x) < Ahead(cap, k, j) <=> Ahead(cap, k, j) >= Ahead(cap, x, j)
<1> DEFINE kx == Ahead(cap, k, x)
           kj == Ahead(cap, k, j)
           xj == Ahead(cap, x, j)
<1>1. kx \in Int /\ kx = IF k <= x THEN x - k ELSE x - k + cap
  BY AheadIs
<1>2. kj \in Int /\ kj = IF k <= j THEN j - k ELSE j - k + cap
  BY AheadIs
<1>3. xj \in Int /\ xj = IF x <= j THEN j - x ELSE j - x + cap
  BY AheadIs
<1> HIDE DEF kx, kj, xj
<1>4. kx < kj <=> kj >= xj
  BY <1>1, <1>2, <1>3
<1> QED BY <1>4 DEF kx, kj, xj

-----------------------------------------------------------------------------
(* Definitions by recursion over numbers.                                  *)

\* f goes on from s0 as next says, up to n.
GoesOn(s0, next, n, f) == f[0] = s0 /\ \A k \in 1 .. n : f[k] = next[<<f[k - 1], k>>]

\* There is such a function.
LEMMA Iterates ==
  ASSUME NEW S, NEW s0 \in S, NEW next \in [S \X Nat -> S], NEW n \in Nat
  PROVE  \E f \in [0 .. n -> S] : GoesOn(s0, next, n, f)
<1> DEFINE Goes(f, m) == GoesOn(s0, next, m, f)
           bad == {m \in Nat : ~ \E f \in [0 .. m -> S] : Goes(f, m)}
<1>1. SUFFICES ASSUME bad # {} PROVE FALSE
  OBVIOUS
<1>2. PICK m \in bad : \A l \in bad : m <= l
  BY <1>1, LeastOf
<1>3. m \in Nat /\ m # 0
  <2>1. Goes([k \in 0 .. 0 |-> s0], 0)
    BY DEF GoesOn
  <2>2. [k \in 0 .. 0 |-> s0] \in [0 .. 0 -> S]
    OBVIOUS
  <2>3. 0 \notin bad
    BY <2>1, <2>2
  <2> QED BY <2>3
<1>4. m - 1 \in Nat /\ m - 1 \notin bad
  BY <1>2, <1>3
<1>5. PICK g \in [0 .. m - 1 -> S] : Goes(g, m - 1)
  BY <1>4
<1> DEFINE f == [k \in 0 .. m |-> IF k = m THEN next[<<g[m - 1], m>>] ELSE g[k]]
<1>6. g[m - 1] \in S
  BY <1>3, <1>5
<1>7. f \in [0 .. m -> S]
  BY <1>3, <1>5, <1>6
<1>8. \A k \in 0 .. m : f[k] = IF k = 0 THEN s0 ELSE next[<<f[k - 1], k>>]
  <2> SUFFICES ASSUME NEW k \in 0 .. m PROVE f[k] = IF k = 0 THEN s0 ELSE next[<<f[k - 1], k>>]
    OBVIOUS
  <2>1. k # 0 => k - 1 \in 0 .. m - 1 /\ f[k - 1] = g[k - 1]
    BY <1>3
  <2>2. k # m => k \in 0 .. m - 1 /\ f[k] = g[k] /\ (k # 0 => k - 1 \in 0 .. m - 1)
    BY <1>3
  <2>3. k # m => g[k] = IF k = 0 THEN s0 ELSE next[<<g[k - 1], k>>]
    BY <1>5, <2>2 DEF GoesOn
  <2> QED BY <1>3, <2>1, <2>2, <2>3
<1>9. Goes(f, m)
  <2> HIDE DEF f
  <2>1. f[0] = s0
    <3>1. 0 \in 0 .. m
      BY <1>3
    <3> QED BY <1>8, <3>1
  <2>2. \A k \in 1 .. m : f[k] = next[<<f[k - 1], k>>]
    BY <1>3, <1>8
  <2> QED BY <2>1, <2>2 DEF GoesOn
<1> QED BY <1>2, <1>7, <1>9

\* What the start is and every next one after it, all of them are.
LEMMA IteratesIn ==
  ASSUME NEW n \in Nat, NEW good, NEW g, <<g[0], 0>> \in good,
         \A k \in 0 .. n - 1 : <<g[k], k>> \in good => <<g[k + 1], k + 1>> \in good
  PROVE  <<g[n], n>> \in good
<1> DEFINE bad == {k \in 0 .. n : <<g[k], k>> \notin good}
<1>1. SUFFICES ASSUME bad # {} PROVE FALSE
  BY n \in 0 .. n
<1> bad \in SUBSET Nat
  OBVIOUS
<1>2. PICK m \in bad : \A l \in bad : m <= l
  <2> HIDE DEF bad
  <2> QED BY <1>1, LeastOf
<1>3. m # 0 /\ m - 1 \in 0 .. n - 1 /\ m - 1 \notin bad
  BY <1>2
<1>4. <<g[m - 1], m - 1>> \in good /\ (m - 1) + 1 = m
  BY <1>3
<1>5. <<g[(m - 1) + 1], (m - 1) + 1>> \in good
  BY <1>3, <1>4
<1> QED BY <1>2, <1>4, <1>5
-----------------------------------------------------------------------------
(* Slots.  cap is their number, home the homes of the references.          *)

Slot == [ref : Refs \cup {NilRef}, o : Orders \cup {Dead}]

Full(s, z) == s[z].ref # NilRef
FullSlots(cap, s) == {z \in 0 .. cap - 1 : Full(s, z)}

\* Slot z is reached from home i through full slots only.
ReachedFrom(cap, s, i, z) ==
  \A y \in 0 .. cap - 1 : Ahead(cap, i, y) < Ahead(cap, i, z) => Full(s, y)

\* Every entry is reached from its home, and no reference has two.
Tabled(cap, home, s) ==
  /\ s \in [0 .. cap - 1 -> Slot]
  /\ \A z \in FullSlots(cap, s) : ReachedFrom(cap, s, home[s[z].ref], z)
  /\ \A y, z \in FullSlots(cap, s) : s[y].ref = s[z].ref => y = z
  /\ \A z \in 0 .. cap - 1 : ~ Full(s, z) => s[z] = EmptySlot

Listed(cap, s, r) == \E z \in 0 .. cap - 1 : s[z].ref = r

WithEntry(s, p, e) == [s EXCEPT ![p] = e]
WithOrder(s, p, o) == [s EXCEPT ![p].o = o]

\* What the search for the first of some references finds, if there is one.
LEMMA FirstFromIs ==
  ASSUME NEW cap \in Nat \ {0}, NEW s, NEW i \in 0 .. cap - 1, NEW refs,
         NEW z \in 0 .. cap - 1, s[z].ref \in refs
  PROVE  /\ FirstFrom(s, cap, i, refs) \in 0 .. cap - 1
         /\ s[FirstFrom(s, cap, i, refs)].ref \in refs
         /\ \A y \in 0 .. cap - 1 :
              Ahead(cap, i, y) < Ahead(cap, i, FirstFrom(s, cap, i, refs))
                => s[y].ref \notin refs
<1> DEFINE ds == {d \in 0 .. cap - 1 : s[(i + d) % cap].ref \in refs}
           First(d) == /\ s[(i + d) % cap].ref \in refs
                       /\ \A e \in 0 .. d - 1 : s[(i + e) % cap].ref \notin refs
           d0 == CHOOSE d \in 0 .. cap - 1 : First(d)
<1>1. Ahead(cap, i, z) \in ds
  BY AheadIs, Reached
<1>2. \E d \in 0 .. cap - 1 : First(d)
  <2> ds \in SUBSET Nat
    OBVIOUS
  <2>1. PICK d \in ds : \A e \in ds : d <= e
    <3> HIDE DEF ds
    <3> QED BY <1>1, LeastOf
  <2>2. \A e \in 0 .. d - 1 : e \in 0 .. cap - 1 /\ e \notin ds
    BY <2>1
  <2> QED BY <2>1, <2>2
<1>3. d0 \in 0 .. cap - 1 /\ First(d0)
  <2> HIDE DEF First
  <2> QED BY <1>2
<1>4. FirstFrom(s, cap, i, refs) = (i + d0) % cap
  BY DEF FirstFrom
<1> HIDE DEF d0
<1>5. (i + d0) % cap \in 0 .. cap - 1 /\ Ahead(cap, i, (i + d0) % cap) = d0
  BY <1>3, StepAhead
<1>6. ASSUME NEW y \in 0 .. cap - 1, Ahead(cap, i, y) < d0
      PROVE  s[y].ref \notin refs
  <2>1. Ahead(cap, i, y) \in 0 .. d0 - 1
    BY <1>3, <1>6, AheadIs
  <2>2. (i + Ahead(cap, i, y)) % cap = y
    BY Reached
  <2>3. s[(i + Ahead(cap, i, y)) % cap].ref \notin refs
    BY <1>3, <2>1
  <2> QED BY <2>2, <2>3
<1> QED BY <1>3, <1>4, <1>5, <1>6

\* An entry is found where it is.
LEMMA EntryFound ==
  ASSUME NEW cap \in Nat \ {0}, NEW home \in [Refs -> 0 .. cap - 1], NEW s,
         Tabled(cap, home, s), NEW r \in Refs, NEW z \in 0 .. cap - 1, s[z].ref = r,
         NilRef \notin Refs
  PROVE  FirstFrom(s, cap, home[r], {r, NilRef}) = z
<1> DEFINE i == home[r]
           p == FirstFrom(s, cap, i, {r, NilRef})
<1>1. i \in 0 .. cap - 1 /\ r # NilRef /\ z \in FullSlots(cap, s)
  BY DEF FullSlots, Full
<1>2. ReachedFrom(cap, s, i, z)
  BY <1>1 DEF Tabled
<1>3. \A y \in FullSlots(cap, s) : s[y].ref = r => y = z
  BY <1>1 DEF Tabled
<1> HIDE DEF i
<1>4. s[z].ref \in {r, NilRef}
  OBVIOUS
<1>5. /\ p \in 0 .. cap - 1 /\ s[p].ref \in {r, NilRef}
      /\ \A y \in 0 .. cap - 1 : Ahead(cap, i, y) < Ahead(cap, i, p) => s[y].ref \notin {r, NilRef}
  BY <1>1, <1>4, FirstFromIs
<1> HIDE DEF p
<1>6. s[p].ref = r => p = z
  BY <1>1, <1>3, <1>5 DEF FullSlots, Full
<1>7. ASSUME s[p].ref = NilRef, p # z PROVE FALSE
  <2>1. ~ (Ahead(cap, i, z) < Ahead(cap, i, p))
    BY <1>4, <1>5
  <2>2. Ahead(cap, i, z) # Ahead(cap, i, p)
    BY <1>1, <1>5, <1>7, AheadApart
  <2>3. Ahead(cap, i, z) \in Int
    BY <1>1, AheadIs
  <2>4. Ahead(cap, i, p) \in Int
    BY <1>1, <1>5, AheadIs
  <2>5. Ahead(cap, i, p) < Ahead(cap, i, z)
    BY <2>1, <2>2, <2>3, <2>4
  <2> QED BY <1>2, <1>5, <1>7, <2>5 DEF ReachedFrom, Full
<1>8. p = z
  BY <1>5, <1>6, <1>7
<1> QED BY <1>8 DEF p, i

\* Where there is no entry for a reference the first empty slot is found.
LEMMA FreeFound ==
  ASSUME NEW cap \in Nat \ {0}, NEW s, NEW i \in 0 .. cap - 1, NEW r, ~ Listed(cap, s, r),
         NEW refs, refs \in {{r, NilRef}, {NilRef}},
         NEW z \in 0 .. cap - 1, ~ Full(s, z)
  PROVE  /\ FirstFrom(s, cap, i, refs) \in 0 .. cap - 1
         /\ ~ Full(s, FirstFrom(s, cap, i, refs))
         /\ ReachedFrom(cap, s, i, FirstFrom(s, cap, i, refs))
<1> DEFINE p == FirstFrom(s, cap, i, refs)
<1>1. s[z].ref \in refs /\ NilRef \in refs
  BY DEF Full
<1>2. /\ p \in 0 .. cap - 1 /\ s[p].ref \in refs
      /\ \A y \in 0 .. cap - 1 : Ahead(cap, i, y) < Ahead(cap, i, p) => s[y].ref \notin refs
  BY <1>1, FirstFromIs
<1> HIDE DEF p
<1>3. ~ Full(s, p)
  BY <1>2 DEF Listed, Full
<1>4. ReachedFrom(cap, s, i, p)
  BY <1>1, <1>2 DEF ReachedFrom, Full
<1> QED BY <1>2, <1>3, <1>4 DEF p

\* A table that is not full has an empty slot.
LEMMA SlotLeft ==
  ASSUME NEW cap \in Nat \ {0}, NEW s, Cardinality(FullSlots(cap, s)) < cap
  PROVE  \E z \in 0 .. cap - 1 : ~ Full(s, z)
<1> SUFFICES ASSUME \A z \in 0 .. cap - 1 : Full(s, z) PROVE FALSE
  OBVIOUS
<1>1. FullSlots(cap, s) = 0 .. cap - 1
  BY DEF FullSlots
<1>2. Cardinality(0 .. cap - 1) = cap
  BY FS_Interval
<1> QED BY <1>1, <1>2

\* An entry put at an empty slot that is reached from its home.
LEMMA EntryPut ==
  ASSUME NEW cap \in Nat \ {0}, NEW home, NEW s, Tabled(cap, home, s), NEW e \in Slot,
         e.ref # NilRef, ~ Listed(cap, s, e.ref),
         NEW p \in 0 .. cap - 1, ~ Full(s, p), ReachedFrom(cap, s, home[e.ref], p)
  PROVE  /\ Tabled(cap, home, WithEntry(s, p, e))
         /\ FullSlots(cap, WithEntry(s, p, e)) = FullSlots(cap, s) \cup {p}
         /\ WithEntry(s, p, e)[p] = e
         /\ \A y \in 0 .. cap - 1 : y # p => WithEntry(s, p, e)[y] = s[y]
<1> DEFINE t == WithEntry(s, p, e)
<1>1. /\ t \in [0 .. cap - 1 -> Slot] /\ t[p] = e
      /\ \A y \in 0 .. cap - 1 : y # p => t[y] = s[y]
  BY DEF Tabled, WithEntry
<1> HIDE DEF t
<1>2. FullSlots(cap, t) = FullSlots(cap, s) \cup {p}
  BY <1>1 DEF FullSlots, Full
<1>3. \A y \in 0 .. cap - 1 : Full(s, y) => Full(t, y)
  BY <1>1 DEF Full
<1>4. ASSUME NEW z \in FullSlots(cap, t) PROVE ReachedFrom(cap, t, home[t[z].ref], z)
  <2>1. ReachedFrom(cap, s, home[t[z].ref], z)
    <3>1. CASE z = p
      BY <1>1, <3>1
    <3>2. CASE z # p
      <4>1. z \in FullSlots(cap, s) /\ t[z] = s[z]
        BY <1>1, <1>2, <3>2 DEF FullSlots
      <4> QED BY <4>1 DEF Tabled
    <3> QED BY <3>1, <3>2
  <2> QED BY <1>3, <2>1 DEF ReachedFrom
<1>5. ASSUME NEW y \in FullSlots(cap, t), NEW z \in FullSlots(cap, t), t[y].ref = t[z].ref
      PROVE  y = z
  <2>1. \A x \in FullSlots(cap, s) : x \in 0 .. cap - 1 /\ s[x].ref # e.ref
    BY DEF FullSlots, Listed
  <2>2. \A x \in FullSlots(cap, t) : x = p \/ (x \in FullSlots(cap, s) /\ t[x] = s[x])
    BY <1>1, <1>2, <2>1
  <2>3. \A u, v \in FullSlots(cap, s) : s[u].ref = s[v].ref => u = v
    BY DEF Tabled
  <2> QED BY <1>1, <1>5, <2>1, <2>2, <2>3
<1>6. \A z \in 0 .. cap - 1 : ~ Full(t, z) => t[z] = EmptySlot
  BY <1>1 DEF Tabled, Full
<1>7. Tabled(cap, home, t)
  BY <1>1, <1>4, <1>5, <1>6 DEF Tabled
<1> QED BY <1>1, <1>2, <1>7 DEF t

\* An order written into its slot.
LEMMA EntryWritten ==
  ASSUME NEW cap \in Nat \ {0}, NEW home, NEW s, Tabled(cap, home, s),
         NEW p \in 0 .. cap - 1, Full(s, p), NEW o \in Orders \cup {Dead}
  PROVE  /\ Tabled(cap, home, WithOrder(s, p, o))
         /\ FullSlots(cap, WithOrder(s, p, o)) = FullSlots(cap, s)
         /\ \A y \in 0 .. cap - 1 : WithOrder(s, p, o)[y].ref = s[y].ref
         /\ WithOrder(s, p, o)[p].o = o
         /\ \A y \in 0 .. cap - 1 : y # p => WithOrder(s, p, o)[y] = s[y]
<1> DEFINE e == [s[p] EXCEPT !.o = o]
           t == WithOrder(s, p, o)
<1>1. s[p] \in Slot
  BY DEF Tabled
<1>2. e \in Slot /\ e.ref = s[p].ref /\ e.o = o
  BY <1>1 DEF Slot
<1>3. t = [s EXCEPT ![p] = e]
  BY DEF WithOrder
<1> HIDE DEF e, t
<1>4. /\ t \in [0 .. cap - 1 -> Slot] /\ t[p] = e
      /\ \A y \in 0 .. cap - 1 : y # p => t[y] = s[y]
  BY <1>2, <1>3 DEF Tabled
<1>5. \A y \in 0 .. cap - 1 : t[y].ref = s[y].ref
  BY <1>2, <1>4
<1>6. \A y \in 0 .. cap - 1 : Full(t, y) <=> Full(s, y)
  BY <1>5 DEF Full
<1>7. FullSlots(cap, t) = FullSlots(cap, s)
  BY <1>6 DEF FullSlots
<1>8. \A z \in FullSlots(cap, t) : ReachedFrom(cap, t, home[t[z].ref], z)
  BY <1>5, <1>6, <1>7 DEF Tabled, ReachedFrom, FullSlots
<1>9. \A z \in 0 .. cap - 1 : ~ Full(t, z) => t[z] = EmptySlot
  BY <1>4, <1>6 DEF Tabled
<1>10. \A y, z \in FullSlots(cap, t) : t[y].ref = t[z].ref => y = z
  BY <1>5, <1>7 DEF Tabled, FullSlots
<1>11. Tabled(cap, home, t)
  BY <1>4, <1>8, <1>9, <1>10 DEF Tabled
<1> QED BY <1>2, <1>4, <1>5, <1>7, <1>11 DEF t

-----------------------------------------------------------------------------
(* Growth.                                                                 *)

EntriesOf(cap, s) == {s[z] : z \in FullSlots(cap, s)}

\* What rehash() does with one entry, and with all of them.
PutFirst(hash, cap, v, e) ==
  WithEntry(v, FirstFrom(v, cap, HomeAt(hash, cap, e.ref), {NilRef}), e)

Moving(t, cap, f) ==
  f = [n \in 0 .. Cap(t) |->
         IF n = 0 THEN Blank(cap)
         ELSE IF t.slots[n - 1].ref = NilRef THEN f[n - 1]
         ELSE PutFirst(t.hash, cap, f[n - 1], t.slots[n - 1])]

MovedTo(t, cap) == (CHOOSE f : Moving(t, cap, f))[Cap(t)]

\* The slots of a rehashed table are those.
LEMMA RehashMoves ==
  ASSUME NEW t, NEW cap
  PROVE  Rehash(t, cap) = [t EXCEPT !.slots = MovedTo(t, cap)]
BY DEF Rehash, MovedTo, Moving, PutFirst, WithEntry

\* Table v has the entries of table s.
SameEntries(new, fresh, v, cap, s) ==
  /\ Tabled(new, fresh, v) /\ EntriesOf(new, v) = EntriesOf(cap, s)
  /\ Cardinality(FullSlots(new, v)) = Cardinality(FullSlots(cap, s))

\* An empty table.
LEMMA BlankTabled ==
  ASSUME NEW cap \in Nat \ {0}, NEW home
  PROVE  /\ Tabled(cap, home, Blank(cap)) /\ EntriesOf(cap, Blank(cap)) = {}
         /\ FullSlots(cap, Blank(cap)) = {}
<1>1. /\ Blank(cap) = [z \in 0 .. cap - 1 |-> EmptySlot]
      /\ EmptySlot \in Slot /\ EmptySlot.ref = NilRef
  BY DEF Blank, EmptySlot, Slot
<1>2. /\ Blank(cap) \in [0 .. cap - 1 -> Slot]
      /\ \A z \in 0 .. cap - 1 : Blank(cap)[z] = EmptySlot
  BY <1>1
<1>3. FullSlots(cap, Blank(cap)) = {}
  BY <1>1, <1>2 DEF FullSlots, Full
<1> QED BY <1>2, <1>3 DEF Tabled, EntriesOf

\* One more of the slots of a table.
LEMMA NextSlot ==
  ASSUME NEW k \in Nat, NEW s
  PROVE  /\ Full(s, k) => /\ FullSlots(k + 1, s) = FullSlots(k, s) \cup {k}
                          /\ Cardinality(FullSlots(k + 1, s)) = Cardinality(FullSlots(k, s)) + 1
         /\ ~ Full(s, k) => FullSlots(k + 1, s) = FullSlots(k, s)
         /\ IsFiniteSet(FullSlots(k, s)) /\ Cardinality(FullSlots(k, s)) \in Nat
         /\ k \notin FullSlots(k, s)
<1>1. \A z : z \in 0 .. (k + 1) - 1 <=> z \in 0 .. k - 1 \/ z = k
  OBVIOUS
<1>2. IsFiniteSet(0 .. k - 1) /\ FullSlots(k, s) \subseteq 0 .. k - 1
  BY FS_Interval DEF FullSlots
<1>3. IsFiniteSet(FullSlots(k, s))
  BY <1>2, FS_Subset
<1>4. k \notin FullSlots(k, s)
  BY <1>2
<1>5. Full(s, k) => FullSlots(k + 1, s) = FullSlots(k, s) \cup {k}
  BY <1>1 DEF FullSlots
<1>6. ~ Full(s, k) => FullSlots(k + 1, s) = FullSlots(k, s)
  BY <1>1 DEF FullSlots
<1> QED BY <1>3, <1>4, <1>5, <1>6, FS_AddElement, FS_CardinalityType

\* Fewer slots of a table have no more entries.
LEMMA FewerFull ==
  ASSUME NEW cap \in Nat, NEW k \in 0 .. cap, NEW s
  PROVE  Cardinality(FullSlots(k, s)) <= Cardinality(FullSlots(cap, s))
<1>1. FullSlots(k, s) \subseteq FullSlots(cap, s)
  BY DEF FullSlots
<1>2. IsFiniteSet(FullSlots(cap, s))
  BY NextSlot
<1> QED BY <1>1, <1>2, FS_Subset

\* Table w has the entries of v and e besides.
Joined(cap, home, v, e, w) ==
  /\ Tabled(cap, home, w) /\ EntriesOf(cap, w) = EntriesOf(cap, v) \cup {e}
  /\ Cardinality(FullSlots(cap, w)) = Cardinality(FullSlots(cap, v)) + 1

\* An entry of the old table goes where probe() will look for it.
LEMMA EntryMoved ==
  ASSUME NEW cap \in Nat \ {0}, NEW home \in [Refs -> 0 .. cap - 1], NEW hash,
         NilRef \notin Refs,
         \A r \in Refs : HomeAt(hash, cap, r) = home[r],
         NEW v, Tabled(cap, home, v), NEW e \in Slot, e.ref # NilRef,
         \A x \in EntriesOf(cap, v) : x.ref # e.ref,
         Cardinality(FullSlots(cap, v)) < cap
  PROVE  Joined(cap, home, v, e, PutFirst(hash, cap, v, e))
<1> DEFINE w == PutFirst(hash, cap, v, e)
           i == home[e.ref]
           p == FirstFrom(v, cap, i, {NilRef})
<1>1. e.ref \in Refs /\ i \in 0 .. cap - 1 /\ w = WithEntry(v, p, e)
  BY DEF Slot, PutFirst
<1>2. ~ Listed(cap, v, e.ref)
  BY DEF Listed, EntriesOf, FullSlots, Full
<1>3. PICK z \in 0 .. cap - 1 : ~ Full(v, z)
  BY SlotLeft
<1> HIDE DEF i
<1>4. {NilRef} \in {{e.ref, NilRef}, {NilRef}}
  OBVIOUS
<1>5. p \in 0 .. cap - 1 /\ ~ Full(v, p) /\ ReachedFrom(cap, v, i, p)
  BY <1>1, <1>2, <1>3, <1>4, FreeFound
<1> HIDE DEF p, w
<1>5a. ReachedFrom(cap, v, home[e.ref], p) /\ cap \in Nat \ {0} /\ p \in 0 .. cap - 1
  BY <1>5 DEF i
<1>6. /\ Tabled(cap, home, w) /\ FullSlots(cap, w) = FullSlots(cap, v) \cup {p}
      /\ w[p] = e /\ \A y \in 0 .. cap - 1 : y # p => w[y] = v[y]
  BY <1>1, <1>2, <1>5, <1>5a, EntryPut
<1>7. p \notin FullSlots(cap, v) /\ FullSlots(cap, v) \subseteq 0 .. cap - 1
  BY <1>5 DEF FullSlots
<1>8. EntriesOf(cap, w) = EntriesOf(cap, v) \cup {e}
  BY <1>6, <1>7 DEF EntriesOf
<1>9. Cardinality(FullSlots(cap, w)) = Cardinality(FullSlots(cap, v)) + 1
  <2>1. IsFiniteSet(FullSlots(cap, v))
    BY NextSlot
  <2> QED BY <1>6, <1>7, <2>1, FS_AddElement
<1> QED BY <1>6, <1>8, <1>9 DEF w, Joined

\* rehash() loses no entry and adds none, and each is where probe() will look for it.
LEMMA AllMoved ==
  ASSUME NEW t, NEW s, s = t.slots, NEW cap \in Nat \ {0}, cap = Cap(t),
         NEW home, Tabled(cap, home, s),
         NEW new \in Nat \ {0}, NEW fresh \in [Refs -> 0 .. new - 1],
         NilRef \notin Refs,
         \A r \in Refs : HomeAt(t.hash, new, r) = fresh[r],
         Cardinality(FullSlots(cap, s)) < new
  PROVE  SameEntries(new, fresh, MovedTo(t, new), cap, s)
<1> DEFINE hash == t.hash
           Tables == [0 .. new - 1 -> Slot]
           Step(v, k) == IF s[k - 1].ref = NilRef THEN v ELSE PutFirst(hash, new, v, s[k - 1])
           next == [vk \in Tables \X Nat |->
                      IF vk[2] \in 1 .. cap THEN Step(vk[1], vk[2]) ELSE vk[1]]
           blank == Blank(new)
           g == CHOOSE f : Moving(t, new, f)
<1>1. \A z \in 0 .. cap - 1 : s[z] \in Slot
  BY DEF Tabled
<1>2. \A v \in Tables, k \in 1 .. cap : Step(v, k) \in Tables
  <2> SUFFICES ASSUME NEW v \in Tables, NEW k \in 1 .. cap PROVE Step(v, k) \in Tables
    OBVIOUS
  <2>1. s[k - 1] \in Slot
    BY <1>1
  <2>2. \A p : [v EXCEPT ![p] = s[k - 1]] \in Tables
    BY <2>1
  <2> QED BY <2>2 DEF PutFirst, WithEntry
<1>3. blank \in Tables
  <2>1. Tabled(new, fresh, blank)
    BY BlankTabled
  <2> QED BY <2>1 DEF Tabled
<1> HIDE DEF Step
<1>4. next \in [Tables \X Nat -> Tables]
  BY <1>2
<1>5. \A v \in Tables, k \in 1 .. cap : next[<<v, k>>] = Step(v, k)
  <2> SUFFICES ASSUME NEW v \in Tables, NEW k \in 1 .. cap PROVE next[<<v, k>>] = Step(v, k)
    OBVIOUS
  <2>1. <<v, k>> \in Tables \X Nat
    OBVIOUS
  <2> QED BY <2>1
<1> HIDE DEF next, Tables, blank
<1>6. PICK f \in [0 .. cap -> Tables] : GoesOn(blank, next, cap, f)
  <2>1. cap \in Nat
    OBVIOUS
  <2> QED BY ONLY <1>3, <1>4, <2>1, Iterates
<1> DEFINE moved(h) == [n \in 0 .. cap |-> IF n = 0 THEN blank ELSE Step(h[n - 1], n)]
<1>7. \A h : Moving(t, new, h) <=> h = moved(h)
  BY DEF Moving, Step, blank
<1>8. f = moved(f)
  <2>1. ASSUME NEW k \in 0 .. cap PROVE f[k] = moved(f)[k]
    <3>1. k # 0 => f[k - 1] \in Tables /\ k \in 1 .. cap
      OBVIOUS
    <3>2. k # 0 => next[<<f[k - 1], k>>] = Step(f[k - 1], k)
      BY <1>5, <3>1
    <3> QED BY <1>6, <3>1, <3>2 DEF GoesOn
  <2>2. f = [k \in 0 .. cap |-> f[k]] /\ moved(f) = [k \in 0 .. cap |-> moved(f)[k]]
    OBVIOUS
  <2> HIDE DEF moved
  <2> QED BY <2>1, <2>2
<1>9. Moving(t, new, g)
  BY <1>7, <1>8
<1> HIDE DEF g
<1>10. g = moved(g)
  BY <1>7, <1>9
<1>11. g[0] = blank /\ \A k \in 0 .. cap - 1 : g[k + 1] = Step(g[k], k + 1)
  <2>1. \A n \in 0 .. cap : moved(g)[n] = IF n = 0 THEN blank ELSE Step(g[n - 1], n)
    OBVIOUS
  <2> HIDE DEF moved
  <2>2. \A n \in 0 .. cap : g[n] = IF n = 0 THEN blank ELSE Step(g[n - 1], n)
    BY <1>10, <2>1
  <2> QED BY <2>2
<1> HIDE DEF moved
<1> DEFINE Goal(v, k) == /\ Tabled(new, fresh, v) /\ EntriesOf(new, v) = EntriesOf(k, s)
                         /\ Cardinality(FullSlots(new, v)) = Cardinality(FullSlots(k, s))
           good == {vk \in Tables \X (0 .. cap) : Goal(vk[1], vk[2])}
<1>12. \A v, k : <<v, k>> \in good <=> v \in Tables /\ k \in 0 .. cap /\ Goal(v, k)
  <2> HIDE DEF Goal
  <2> QED OBVIOUS
<1>13. \A v : Tabled(new, fresh, v) => v \in Tables
  BY DEF Tabled, Tables
<1> HIDE DEF good
<1>14. <<g[0], 0>> \in good
  <2>1. FullSlots(0, s) = {} /\ EntriesOf(0, s) = {}
    BY DEF FullSlots, EntriesOf
  <2>2. Goal(blank, 0)
    BY <2>1, BlankTabled DEF blank
  <2> QED BY <1>3, <1>11, <1>12, <2>2
<1>15. ASSUME NEW k \in 0 .. cap - 1, Goal(g[k], k) PROVE Goal(g[k + 1], k + 1)
  <2> DEFINE v == g[k]
             e == s[k]
  <2>1. g[k + 1] = IF e.ref = NilRef THEN v ELSE PutFirst(hash, new, v, e)
    BY <1>11 DEF Step
  <2>2. e \in Slot
    BY <1>1
  <2>3. Goal(v, k)
    BY <1>15
  <2> HIDE DEF v
  <2>4. ASSUME ~ Full(s, k) PROVE Goal(g[k + 1], k + 1)
    <3>1. FullSlots(k + 1, s) = FullSlots(k, s)
      BY <2>4, NextSlot
    <3>2. EntriesOf(k + 1, s) = EntriesOf(k, s)
      BY <3>1 DEF EntriesOf
    <3>3. g[k + 1] = v
      BY <2>1, <2>4 DEF Full
    <3> QED BY <2>3, <3>1, <3>2, <3>3
  <2>5. ASSUME Full(s, k) PROVE Goal(g[k + 1], k + 1)
    <3>1. e.ref # NilRef
      BY <2>5 DEF Full
    <3>2. g[k + 1] = PutFirst(hash, new, v, e)
      BY <2>1, <3>1
    <3>3. FullSlots(k + 1, s) = FullSlots(k, s) \cup {k} /\ k \notin FullSlots(k, s)
      BY <2>5, NextSlot
    <3>4. Cardinality(FullSlots(k + 1, s)) = Cardinality(FullSlots(k, s)) + 1
      BY <2>5, NextSlot
    <3>5. Cardinality(FullSlots(new, v)) < new
      <4>1. k \in 0 .. cap /\ cap \in Nat
        OBVIOUS
      <4>2. Cardinality(FullSlots(k, s)) <= Cardinality(FullSlots(cap, s))
        BY <4>1, FewerFull
      <4>3. Cardinality(FullSlots(k, s)) \in Nat
        BY NextSlot
      <4>4. Cardinality(FullSlots(cap, s)) \in Nat
        BY NextSlot
      <4> QED BY <2>3, <4>2, <4>3, <4>4
    <3>6. \A x \in EntriesOf(new, v) : x.ref # e.ref
      <4>1. \A y \in FullSlots(k, s) : y \in FullSlots(cap, s) /\ y # k
        BY <3>3 DEF FullSlots
      <4>2. k \in FullSlots(cap, s)
        BY <2>5 DEF FullSlots
      <4>3. \A y, z \in FullSlots(cap, s) : s[y].ref = s[z].ref => y = z
        BY DEF Tabled
      <4> QED BY <2>3, <4>1, <4>2, <4>3 DEF EntriesOf
    <3>7. EntriesOf(k + 1, s) = EntriesOf(k, s) \cup {e}
      BY <3>3 DEF EntriesOf
    <3>8. Tabled(new, fresh, v) /\ \A r \in Refs : HomeAt(hash, new, r) = fresh[r]
      BY <2>3
    <3> HIDE DEF e, hash
    <3>9. Joined(new, fresh, v, e, PutFirst(hash, new, v, e))
      <4>1. NilRef \notin Refs /\ new \in Nat \ {0} /\ fresh \in [Refs -> 0 .. new - 1]
        OBVIOUS
      <4>2. e \in Slot /\ Tabled(new, fresh, v)
        BY <2>2, <3>8
      <4>3. \A r \in Refs : HomeAt(hash, new, r) = fresh[r]
        BY <3>8
      <4> QED BY ONLY <3>1, <3>5, <3>6, <4>1, <4>2, <4>3, EntryMoved
    <3> QED BY <2>3, <3>2, <3>4, <3>7, <3>9 DEF Joined
  <2> QED BY <2>4, <2>5
<1>16. \A k \in 0 .. cap - 1 : <<g[k], k>> \in good => <<g[k + 1], k + 1>> \in good
  <2> SUFFICES ASSUME NEW k \in 0 .. cap - 1, <<g[k], k>> \in good
               PROVE  <<g[k + 1], k + 1>> \in good
    OBVIOUS
  <2>1. Goal(g[k], k)
    BY <1>12
  <2>2. Goal(g[k + 1], k + 1)
    BY <1>15, <2>1
  <2>3. g[k + 1] \in Tables /\ k + 1 \in 0 .. cap
    BY <1>13, <2>2
  <2> HIDE DEF Goal
  <2> QED BY <1>12, <2>2, <2>3
<1>17. <<g[cap], cap>> \in good
  BY ONLY <1>14, <1>16, IteratesIn, cap \in Nat \ {0}
<1>18. Goal(g[cap], cap)
  <2> HIDE DEF Goal
  <2> QED BY <1>12, <1>17
<1> QED BY <1>18 DEF g, MovedTo, SameEntries

-----------------------------------------------------------------------------
(* Deletion.                                                               *)

\* The part of a shift that looks at slot j, its entry's home being k.
ShiftOne(cap, k, e, w, j) ==
  IF Ahead(cap, k, j) >= Ahead(cap, w.hole, j)
    THEN [slots |-> WithEntry(w.slots, w.hole, e), hole |-> j]
    ELSE w

\* What erase() has made of table s up to d slots from i: the hole is not among the
\* slots an entry is reached over, as far as the entries have been looked at.
Opened(cap, home, s, i, d, v, x) ==
  LET others == FullSlots(cap, v) \ {x}
  IN /\ v \in [0 .. cap - 1 -> Slot] /\ x \in FullSlots(cap, s) /\ Ahead(cap, i, x) <= d
     /\ \A z \in 0 .. cap - 1 : Ahead(cap, i, z) > d => v[z] = s[z]
     /\ FullSlots(cap, v) = FullSlots(cap, s)
     /\ \A z \in 0 .. cap - 1 : ~ Full(v, z) => v[z] = EmptySlot
     /\ {v[z] : z \in others} = {s[z] : z \in FullSlots(cap, s) \ {i}}
     /\ \A y, z \in others : v[y].ref = v[z].ref => y = z
     /\ \A z \in others : ReachedFrom(cap, s, home[v[z].ref], z)
     /\ \A z \in others :
          Ahead(cap, i, z) <= d
            => ~ (Ahead(cap, home[v[z].ref], x) < Ahead(cap, home[v[z].ref], z))

\* The homes of entries are slots.
LEMMA HomesAreSlots ==
  ASSUME NEW cap \in Nat \ {0}, NEW home \in [Refs -> 0 .. cap - 1],
         NEW v \in [0 .. cap - 1 -> Slot], NEW z \in 0 .. cap - 1, Full(v, z)
  PROVE  v[z].ref \in Refs /\ home[v[z].ref] \in 0 .. cap - 1
BY DEF Slot, Full

\* At the start the hole is where the entry was.
LEMMA HoleOpens ==
  ASSUME NEW cap \in Nat \ {0}, NEW home \in [Refs -> 0 .. cap - 1], NEW s,
         Tabled(cap, home, s), NEW i \in FullSlots(cap, s)
  PROVE  Opened(cap, home, s, i, 0, s, i)
<1>1. i \in 0 .. cap - 1
  BY DEF FullSlots
<1>2. Ahead(cap, i, i) = 0
  BY <1>1, AheadIs
<1>3. ASSUME NEW z \in FullSlots(cap, s) \ {i} PROVE ~ (Ahead(cap, i, z) <= 0)
  <2>1. z \in 0 .. cap - 1
    BY DEF FullSlots
  <2>2. Ahead(cap, i, z) # Ahead(cap, i, i)
    BY <1>1, <2>1, AheadApart
  <2>3. Ahead(cap, i, z) \in 0 .. cap - 1
    BY <1>1, <2>1, AheadIs
  <2> QED BY <1>2, <2>2, <2>3
<1> QED BY <1>1, <1>2, <1>3 DEF Opened, Tabled

\* One more slot looked at.
LEMMA HoleMoves ==
  ASSUME NEW cap \in Nat \ {0}, NEW home \in [Refs -> 0 .. cap - 1], NEW s,
         NEW i \in 0 .. cap - 1, NEW d \in Nat, NEW w,
         Opened(cap, home, s, i, d, w.slots, w.hole),
         NEW j \in FullSlots(cap, s), Ahead(cap, i, j) = d + 1,
         NEW e \in 0 .. cap - 1, ~ Full(s, e), d + 1 < Ahead(cap, i, e)
  PROVE  LET u == ShiftOne(cap, home[s[j].ref], s[j], w, j)
         IN Opened(cap, home, s, i, d + 1, u.slots, u.hole)
<1> DEFINE v == w.slots
           x == w.hole
           k == home[s[j].ref]
           full == FullSlots(cap, s)
           h(z) == home[v[z].ref]
<1>0. \A a, b \in 0 .. cap - 1 : Ahead(cap, a, b) \in Int
  BY AheadIs
<1>1. /\ v \in [0 .. cap - 1 -> Slot] /\ x \in full /\ Ahead(cap, i, x) <= d
      /\ \A z \in 0 .. cap - 1 : Ahead(cap, i, z) > d => v[z] = s[z]
      /\ FullSlots(cap, v) = full
      /\ \A z \in 0 .. cap - 1 : ~ Full(v, z) => v[z] = EmptySlot
      /\ {v[z] : z \in full \ {x}} = {s[z] : z \in full \ {i}}
      /\ \A y, z \in full \ {x} : v[y].ref = v[z].ref => y = z
      /\ \A z \in full \ {x} : ReachedFrom(cap, s, h(z), z)
      /\ \A z \in full \ {x} :
           Ahead(cap, i, z) <= d => ~ (Ahead(cap, h(z), x) < Ahead(cap, h(z), z))
  BY DEF Opened
<1> HIDE DEF v, x
<1>2. j \in 0 .. cap - 1 /\ x \in 0 .. cap - 1 /\ full \subseteq 0 .. cap - 1
  BY <1>1 DEF FullSlots
<1>3. j # x /\ v[j] = s[j] /\ j \in full /\ Full(v, j) /\ Full(s, j)
  BY <1>1, <1>2 DEF FullSlots
<1>4. k \in 0 .. cap - 1 /\ h(j) = k
  BY <1>1, <1>2, <1>3, HomesAreSlots
<1>5. \A z \in full \ {x} : h(z) \in 0 .. cap - 1
  BY <1>1, <1>2, HomesAreSlots DEF FullSlots
<1>6. \A z \in full : Ahead(cap, i, z) \in Nat
  BY <1>2, AheadIs
<1>7. \A z \in full : Ahead(cap, i, z) <= d + 1 => z = j \/ Ahead(cap, i, z) <= d
  BY <1>2, <1>6, AheadApart
<1>8. Ahead(cap, k, x) < Ahead(cap, k, j) <=> Ahead(cap, k, j) >= Ahead(cap, x, j)
  BY <1>2, <1>3, <1>4, PassedOver
<1>9. ASSUME Ahead(cap, k, j) >= Ahead(cap, x, j)
      PROVE  Opened(cap, home, s, i, d + 1, WithEntry(v, x, s[j]), j)
  <2> DEFINE u == WithEntry(v, x, s[j])
             g(z) == home[u[z].ref]
  <2>1. s[j] \in Slot
    BY <1>1, <1>2, <1>3
  <2>2. /\ u \in [0 .. cap - 1 -> Slot] /\ u[x] = s[j]
        /\ \A z \in 0 .. cap - 1 : z # x => u[z] = v[z]
    BY <1>1, <1>2, <2>1 DEF WithEntry
  <2> HIDE DEF u
  <2>3. FullSlots(cap, u) = full
    BY <1>1, <1>2, <1>3, <2>2 DEF FullSlots, Full
  <2>4. \A z \in 0 .. cap - 1 : Ahead(cap, i, z) > d + 1 => u[z] = s[z]
    <3> SUFFICES ASSUME NEW z \in 0 .. cap - 1, Ahead(cap, i, z) > d + 1 PROVE u[z] = s[z]
      OBVIOUS
    <3>1. Ahead(cap, i, z) \in Nat /\ Ahead(cap, i, x) \in Nat
      BY <1>1, <1>2, <1>6, AheadIs
    <3>2. Ahead(cap, i, z) > d /\ z # x
      BY <1>1, <3>1
    <3> QED BY <1>1, <2>2, <3>2
  <2>5. \A z \in 0 .. cap - 1 : ~ Full(u, z) => u[z] = EmptySlot
    BY <1>1, <1>3, <2>2 DEF Full
  <2>6. {u[z] : z \in full \ {j}} = {v[z] : z \in full \ {x}}
    <3>1. \A z \in full \ {j} : z = x \/ z \in full \ {x}
      OBVIOUS
    <3>2. \A z \in full \ {x} : z = j \/ z \in full \ {j}
      OBVIOUS
    <3>3. \A z \in full \ {x} : u[z] = v[z]
      BY <1>2, <2>2
    <3>4. u[x] = v[j] /\ x \in full \ {j} /\ j \in full \ {x}
      BY <1>1, <1>3, <2>2
    <3> QED BY <3>1, <3>2, <3>3, <3>4
  <2>7. \A y, z \in full \ {j} : u[y].ref = u[z].ref => y = z
    <3>1. \A z \in full \ {x} : u[z] = v[z]
      BY <1>2, <2>2
    <3>2. \A z \in full \ {j} : z # x => v[z].ref # u[x].ref
      BY <1>1, <1>3, <2>2
    <3> QED BY <1>1, <3>1, <3>2
  <2>8. Ahead(cap, k, x) < Ahead(cap, k, j)
    BY <1>8, <1>9
  <2>9. Ahead(cap, k, x) \in Int
    BY <1>2, <1>4, <1>0
  <2>10. Ahead(cap, k, j) \in Int
    BY <1>2, <1>4, <1>0
  <2>11. \A z \in full \ {j} : ReachedFrom(cap, s, g(z), z)
    <3> SUFFICES ASSUME NEW z \in full \ {j} PROVE ReachedFrom(cap, s, g(z), z)
      OBVIOUS
    <3>1. z # x => g(z) = h(z) /\ z \in full \ {x}
      BY <1>2, <2>2
    <3>2. ReachedFrom(cap, s, k, x)
      <4>1. ReachedFrom(cap, s, k, j)
        BY <1>1, <1>3, <1>4
      <4>2. \A y \in 0 .. cap - 1 : Ahead(cap, k, y) \in Int
        BY <1>4, <1>0
      <4>3. \A y \in 0 .. cap - 1 :
              Ahead(cap, k, y) < Ahead(cap, k, x) => Ahead(cap, k, y) < Ahead(cap, k, j)
        BY <2>8, <2>9, <2>10, <4>2
      <4> QED BY <4>1, <4>3 DEF ReachedFrom
    <3>3. z = x => g(z) = k
      BY <2>2
    <3> QED BY <1>1, <3>1, <3>2, <3>3
  <2>12. \A z \in full \ {j} :
           Ahead(cap, i, z) <= d + 1 => ~ (Ahead(cap, g(z), j) < Ahead(cap, g(z), z))
    <3> SUFFICES ASSUME NEW z \in full \ {j}, Ahead(cap, i, z) <= d + 1,
                        Ahead(cap, g(z), j) < Ahead(cap, g(z), z)
                 PROVE  FALSE
      OBVIOUS
    <3>1. z # x
      <4>1. z = x => g(z) = k
        BY <2>2
      <4> QED BY <2>8, <2>9, <2>10, <4>1
    <3>2. g(z) = h(z) /\ z \in full \ {x} /\ z \in 0 .. cap - 1
      BY <1>2, <2>2, <3>1
    <3>3. Ahead(cap, i, z) < Ahead(cap, i, j)
      BY <1>6, <1>7
    <3>4. Ahead(cap, i, j) < Ahead(cap, i, e)
      OBVIOUS
    <3>5. Ahead(cap, h(z), j) < Ahead(cap, h(z), z)
      BY <3>2
    <3>6. h(z) \in 0 .. cap - 1
      BY <1>5, <3>2
    <3> DEFINE hz == h(z)
    <3> HIDE DEF hz
    <3>7. Ahead(cap, hz, j) < Ahead(cap, hz, z) /\ hz \in 0 .. cap - 1
      BY <3>5, <3>6 DEF hz
    <3>8. Ahead(cap, hz, e) < Ahead(cap, hz, z)
      BY ONLY cap \in Nat \ {0}, i \in 0 .. cap - 1, e \in 0 .. cap - 1, <1>2, <3>2, <3>3,
              <3>4, <3>7, PassedToo
    <3>9. ReachedFrom(cap, s, hz, z)
      BY <1>1, <3>2 DEF hz
    <3> QED BY <3>8, <3>9 DEF ReachedFrom
  <2> HIDE DEF full, g
  <2>13. j \in FullSlots(cap, s) /\ Ahead(cap, i, j) <= d + 1
    BY <1>2, <1>3
  <2>14. {u[z] : z \in full \ {j}} = {s[z] : z \in full \ {i}}
    BY <1>1, <2>6
  <2> QED BY <2>2, <2>3, <2>4, <2>5, <2>7, <2>11, <2>12, <2>13, <2>14 DEF Opened, full, g, u
<1>10. ASSUME ~ (Ahead(cap, k, j) >= Ahead(cap, x, j))
       PROVE  Opened(cap, home, s, i, d + 1, v, x)
  <2>1. Ahead(cap, i, x) <= d + 1
    BY <1>1, <1>6
  <2>2. \A z \in 0 .. cap - 1 : Ahead(cap, i, z) > d + 1 => Ahead(cap, i, z) > d
    BY AheadIs
  <2>3. \A z \in full \ {x} :
          Ahead(cap, i, z) <= d + 1 => ~ (Ahead(cap, h(z), x) < Ahead(cap, h(z), z))
    BY <1>1, <1>4, <1>7, <1>8, <1>10
  <2> HIDE DEF h
  <2> QED BY <1>1, <2>1, <2>2, <2>3 DEF Opened, h
<1> QED BY <1>9, <1>10 DEF ShiftOne, v, x

\* Table u is s without the entry at slot i.
Without(cap, home, s, i, u) ==
  /\ Tabled(cap, home, u)
  /\ EntriesOf(cap, u) = {s[z] : z \in FullSlots(cap, s) \ {i}}
  /\ Cardinality(FullSlots(cap, u)) = Cardinality(FullSlots(cap, s)) - 1

\* At the next empty slot the hole can be emptied: no entry is reached over it.
LEMMA HoleCloses ==
  ASSUME NEW cap \in Nat \ {0}, NEW home \in [Refs -> 0 .. cap - 1], NEW s,
         NEW i \in 0 .. cap - 1, NEW e \in 0 .. cap - 1, ~ Full(s, e), NEW d \in Nat,
         d + 1 = Ahead(cap, i, e), NEW v, NEW x, Opened(cap, home, s, i, d, v, x)
  PROVE  Without(cap, home, s, i, WithEntry(v, x, EmptySlot))
<1> DEFINE u == WithEntry(v, x, EmptySlot)
           full == FullSlots(cap, s)
           h(z) == home[v[z].ref]
<1>0. \A a, b \in 0 .. cap - 1 : Ahead(cap, a, b) \in Int
  BY AheadIs
<1>1. /\ v \in [0 .. cap - 1 -> Slot] /\ x \in full /\ Ahead(cap, i, x) <= d
      /\ FullSlots(cap, v) = full
      /\ \A z \in 0 .. cap - 1 : ~ Full(v, z) => v[z] = EmptySlot
      /\ {v[z] : z \in full \ {x}} = {s[z] : z \in full \ {i}}
      /\ \A y, z \in full \ {x} : v[y].ref = v[z].ref => y = z
      /\ \A z \in full \ {x} : ReachedFrom(cap, s, h(z), z)
      /\ \A z \in full \ {x} :
           Ahead(cap, i, z) <= d => ~ (Ahead(cap, h(z), x) < Ahead(cap, h(z), z))
  BY DEF Opened
<1>2. x \in 0 .. cap - 1 /\ full \subseteq 0 .. cap - 1
  BY <1>1 DEF FullSlots
<1>3. EmptySlot \in Slot /\ EmptySlot.ref = NilRef
  BY DEF EmptySlot, Slot
<1>4. /\ u \in [0 .. cap - 1 -> Slot] /\ u[x] = EmptySlot
      /\ \A z \in 0 .. cap - 1 : z # x => u[z] = v[z]
  BY <1>1, <1>2, <1>3 DEF WithEntry
<1> HIDE DEF u
<1>5. FullSlots(cap, u) = full \ {x}
  BY <1>1, <1>2, <1>3, <1>4 DEF FullSlots, Full
<1>6. \A z \in full \ {x} : u[z] = v[z] /\ z \in 0 .. cap - 1
  BY <1>2, <1>4
<1>7. ASSUME NEW z \in full \ {x}, Ahead(cap, h(z), x) < Ahead(cap, h(z), z)
      PROVE  FALSE
  <2> DEFINE hz == h(z)
  <2>1. hz \in 0 .. cap - 1
    BY <1>1, <1>6, HomesAreSlots DEF FullSlots
  <2>2. z \in 0 .. cap - 1 /\ Full(s, z) /\ z # e
    BY <1>6 DEF FullSlots
  <2>3. ~ (Ahead(cap, i, z) <= d)
    BY <1>1, <1>7
  <2>4. Ahead(cap, i, z) # Ahead(cap, i, e)
    BY <2>2, AheadApart
  <2>5. Ahead(cap, i, x) < Ahead(cap, i, e) /\ Ahead(cap, i, e) < Ahead(cap, i, z)
    <3>1. /\ Ahead(cap, i, x) \in Int /\ Ahead(cap, i, e) \in Int
          /\ Ahead(cap, i, z) \in Int
      BY <1>0, <1>2, <2>2
    <3>2. Ahead(cap, i, x) <= d
      BY <1>1
    <3> QED BY <2>3, <2>4, <3>1, <3>2
  <2>6. ReachedFrom(cap, s, hz, z) /\ Ahead(cap, hz, x) < Ahead(cap, hz, z)
    BY <1>1, <1>7
  <2> HIDE DEF hz
  <2>7. Ahead(cap, hz, e) < Ahead(cap, hz, z)
    BY ONLY cap \in Nat \ {0}, i \in 0 .. cap - 1, e \in 0 .. cap - 1, <1>2, <2>1, <2>2,
            <2>5, <2>6, PassedToo
  <2> QED BY <2>6, <2>7 DEF ReachedFrom
<1>8. \A z \in FullSlots(cap, u) : ReachedFrom(cap, u, home[u[z].ref], z)
  <2> SUFFICES ASSUME NEW z \in full \ {x}, NEW y \in 0 .. cap - 1,
                      Ahead(cap, h(z), y) < Ahead(cap, h(z), z)
               PROVE  Full(u, y)
    BY <1>5, <1>6 DEF ReachedFrom
  <2>1. Full(s, y) /\ y # x
    BY <1>1, <1>7 DEF ReachedFrom
  <2>2. y \in FullSlots(cap, u)
    BY <1>5, <2>1 DEF FullSlots
  <2> QED BY <2>2 DEF FullSlots
<1>9. \A y, z \in FullSlots(cap, u) : u[y].ref = u[z].ref => y = z
  BY <1>1, <1>5, <1>6
<1>10. \A z \in 0 .. cap - 1 : ~ Full(u, z) => u[z] = EmptySlot
  BY <1>1, <1>4 DEF Full
<1>11. Tabled(cap, home, u)
  BY <1>4, <1>8, <1>9, <1>10 DEF Tabled
<1>12. EntriesOf(cap, u) = {v[z] : z \in full \ {x}}
  BY <1>5, <1>6 DEF EntriesOf
<1>13. Cardinality(FullSlots(cap, u)) = Cardinality(full) - 1
  <2>1. IsFiniteSet(full)
    BY NextSlot
  <2> QED BY <1>1, <1>5, <2>1, FS_RemoveElement
<1> QED BY <1>1, <1>11, <1>12, <1>13 DEF Without, u

\* How far erase() looks: up to the slot before the next empty one.
RunOf(cap, s, i) == (FirstFrom(s, cap, (i + 1) % cap, {NilRef}) - i - 1) % cap

\* There is such an empty slot, and every slot before it is full.
LEMMA RunEnds ==
  ASSUME NEW cap \in Nat \ {0}, NEW s, NEW i \in 0 .. cap - 1, Full(s, i),
         NEW y \in 0 .. cap - 1, ~ Full(s, y)
  PROVE  \E e \in 0 .. cap - 1 :
           /\ ~ Full(s, e) /\ RunOf(cap, s, i) \in Nat
           /\ RunOf(cap, s, i) + 1 = Ahead(cap, i, e)
           /\ \A z \in 0 .. cap - 1 : Ahead(cap, i, z) < Ahead(cap, i, e) => Full(s, z)
<1> DEFINE n == (i + 1) % cap
           e == FirstFrom(s, cap, n, {NilRef})
<1>0. \A a, b \in 0 .. cap - 1 : Ahead(cap, a, b) \in Int
  BY AheadIs
<1>1. n = (IF i + 1 = cap THEN 0 ELSE i + 1) /\ n \in 0 .. cap - 1
  <2>1. CASE i + 1 = cap
    <3>1. i + 1 \in cap .. 2 * cap - 1 /\ i + 1 - cap = 0
      BY <2>1
    <3>2. (i + 1) % cap = i + 1 - cap
      BY <3>1, Wraps
    <3> QED BY <2>1, <3>1, <3>2
  <2>2. CASE i + 1 # cap
    <3>1. i + 1 \in 0 .. cap - 1
      BY <2>2
    <3> QED BY <2>2, <3>1, Wraps
  <2> QED BY <2>1, <2>2
<1> HIDE DEF n
<1>2. /\ e \in 0 .. cap - 1 /\ s[e].ref \in {NilRef}
      /\ \A z \in 0 .. cap - 1 : Ahead(cap, n, z) < Ahead(cap, n, e) => s[z].ref \notin {NilRef}
  <2>1. s[y].ref \in {NilRef}
    BY DEF Full
  <2> QED BY <1>1, <2>1, FirstFromIs
<1>3. RunOf(cap, s, i) = (e - i - 1) % cap
  BY DEF RunOf, n
<1> HIDE DEF e
<1>4. ~ Full(s, e) /\ e # i
  BY <1>2 DEF Full
<1>5. ASSUME NEW z \in 0 .. cap - 1, z # i PROVE Ahead(cap, i, z) = Ahead(cap, n, z) + 1
  <2>1. Ahead(cap, i, z) = IF i <= z THEN z - i ELSE z - i + cap
    BY AheadIs
  <2>2. Ahead(cap, n, z) = IF n <= z THEN z - n ELSE z - n + cap
    BY <1>1, AheadIs
  <2> QED BY <1>1, <1>5, <2>1, <2>2
<1>6. RunOf(cap, s, i) \in Nat /\ RunOf(cap, s, i) + 1 = Ahead(cap, i, e)
  <2>1. Ahead(cap, i, e) = IF i <= e THEN e - i ELSE e - i + cap
    BY <1>2, AheadIs
  <2>2. CASE i < e
    <3>1. e - i - 1 \in 0 .. cap - 1
      BY <1>2, <2>2
    <3>2. (e - i - 1) % cap = e - i - 1
      BY <3>1, Wraps
    <3> QED BY <1>2, <1>3, <2>1, <2>2, <3>1, <3>2
  <2>3. CASE e < i
    <3>1. e - i - 1 \in -cap .. -1
      BY <1>2, <2>3
    <3>2. (e - i - 1) % cap = e - i - 1 + cap
      BY <3>1, Wraps
    <3> QED BY <1>2, <1>3, <2>1, <2>3, <3>1, <3>2
  <2> QED BY <1>2, <1>4, <2>2, <2>3
<1>7. ASSUME NEW z \in 0 .. cap - 1, Ahead(cap, i, z) < Ahead(cap, i, e) PROVE Full(s, z)
  <2>1. Ahead(cap, n, e) \in Int /\ Ahead(cap, n, z) \in Int
    BY <1>0, <1>1, <1>2
  <2>3. z # i => Ahead(cap, n, z) < Ahead(cap, n, e)
    BY <1>2, <1>4, <1>5, <1>7, <2>1
  <2> QED BY <1>2, <2>3 DEF Full
<1> QED BY <1>2, <1>4, <1>6, <1>7

\* What erase() does at d slots from i, and at all of them.
ShiftAt(t, i, w, d) ==
  LET j == (i + d) % Cap(t)
  IN ShiftOne(Cap(t), Home(t, t.slots[j].ref), t.slots[j], w, j)

Shifting(t, i, f) ==
  f = [d \in 0 .. RunOf(Cap(t), t.slots, i) |->
         IF d = 0 THEN [slots |-> t.slots, hole |-> i] ELSE ShiftAt(t, i, f[d - 1], d)]

\* erase() shifts by those steps.
LEMMA ShiftedIs ==
  ASSUME NEW t, NEW i
  PROVE  Shifted(t, i) = (CHOOSE f : Shifting(t, i, f))[RunOf(Cap(t), t.slots, i)]
BY DEF Shifted, Shifting, ShiftAt, ShiftOne, WithEntry, Ahead, RunOf

ErasedSlots(t, i) ==
  WithEntry(Shifted(t, i).slots, Shifted(t, i).hole, EmptySlot)

\* erase() takes one entry, and leaves the others where probe() will look for them.
LEMMA AllShifted ==
  ASSUME NEW t, NEW s, s = t.slots, NEW cap \in Nat \ {0}, cap = Cap(t),
         NEW home \in [Refs -> 0 .. cap - 1], Tabled(cap, home, s),
         \A r \in Refs : Home(t, r) = home[r],
         Cardinality(FullSlots(cap, s)) < cap, NEW i \in FullSlots(cap, s)
  PROVE  Without(cap, home, s, i, ErasedSlots(t, i))
<1>1. PICK y \in 0 .. cap - 1 : ~ Full(s, y)
  BY SlotLeft
<1>2. i \in 0 .. cap - 1 /\ Full(s, i) /\ s \in [0 .. cap - 1 -> Slot]
  BY DEF FullSlots, Tabled
<1> DEFINE run == RunOf(cap, s, i)
<1>3. PICK e \in 0 .. cap - 1 :
        /\ ~ Full(s, e) /\ run \in Nat /\ run + 1 = Ahead(cap, i, e)
        /\ \A z \in 0 .. cap - 1 : Ahead(cap, i, z) < Ahead(cap, i, e) => Full(s, z)
  BY <1>1, <1>2, RunEnds
<1> HIDE DEF run
<1> DEFINE Halves == [slots : [0 .. cap - 1 -> Slot], hole : 0 .. cap - 1]
           start == [slots |-> s, hole |-> i]
           J(d) == (i + d) % cap
           next == [wd \in Halves \X Nat |->
                      IF wd[2] \in 1 .. run THEN ShiftAt(t, i, wd[1], wd[2]) ELSE wd[1]]
           g == CHOOSE f : Shifting(t, i, f)
<1>4. \A d \in 1 .. run : /\ J(d) \in FullSlots(cap, s) /\ Ahead(cap, i, J(d)) = d
                          /\ s[J(d)] \in Slot /\ s[J(d)].ref \in Refs
  <2> SUFFICES ASSUME NEW d \in 1 .. run
               PROVE  /\ J(d) \in FullSlots(cap, s) /\ Ahead(cap, i, J(d)) = d
                      /\ s[J(d)] \in Slot /\ s[J(d)].ref \in Refs
    OBVIOUS
  <2>1. Ahead(cap, i, e) \in 0 .. cap - 1
    BY <1>2, AheadIs
  <2>2. d \in 0 .. cap - 1 /\ d < Ahead(cap, i, e)
    BY <1>3, <2>1
  <2>3. J(d) \in 0 .. cap - 1 /\ Ahead(cap, i, J(d)) = d
    BY <1>2, <2>2, StepAhead
  <2>4. Full(s, J(d))
    BY <1>3, <2>2, <2>3
  <2> QED BY <1>2, <2>3, <2>4, HomesAreSlots DEF FullSlots
<1>5. \A w, d : d \in 1 .. run =>
        ShiftAt(t, i, w, d) = ShiftOne(cap, home[s[J(d)].ref], s[J(d)], w, J(d))
  BY <1>4 DEF ShiftAt
<1>6. \A w \in Halves, d \in 1 .. run : ShiftAt(t, i, w, d) \in Halves
  <2> SUFFICES ASSUME NEW w \in Halves, NEW d \in 1 .. run PROVE ShiftAt(t, i, w, d) \in Halves
    OBVIOUS
  <2>1. J(d) \in 0 .. cap - 1 /\ s[J(d)] \in Slot
    BY <1>4 DEF FullSlots
  <2> HIDE DEF J
  <2>2. WithEntry(w.slots, w.hole, s[J(d)]) \in [0 .. cap - 1 -> Slot]
    BY <2>1 DEF WithEntry
  <2>3. [slots |-> WithEntry(w.slots, w.hole, s[J(d)]), hole |-> J(d)] \in Halves
    BY <2>1, <2>2
  <2> QED BY <1>5, <2>3 DEF ShiftOne
<1>7. start \in Halves
  BY <1>2
<1> HIDE DEF J, start
<1>8. next \in [Halves \X Nat -> Halves]
  <2> HIDE DEF Halves
  <2> QED BY <1>6
<1>9. \A w \in Halves, d \in 1 .. run : next[<<w, d>>] = ShiftAt(t, i, w, d)
  <2> SUFFICES ASSUME NEW w \in Halves, NEW d \in 1 .. run
               PROVE  next[<<w, d>>] = ShiftAt(t, i, w, d)
    OBVIOUS
  <2>1. <<w, d>> \in Halves \X Nat
    OBVIOUS
  <2> HIDE DEF Halves
  <2> QED BY <2>1
<1> HIDE DEF next, Halves
<1>10. PICK f \in [0 .. run -> Halves] : GoesOn(start, next, run, f)
  BY ONLY <1>3, <1>7, <1>8, Iterates
<1> DEFINE shifted(h) == [d \in 0 .. run |-> IF d = 0 THEN start ELSE ShiftAt(t, i, h[d - 1], d)]
<1>11. \A h : Shifting(t, i, h) <=> h = shifted(h)
  BY DEF Shifting, run, start
<1>12. f = shifted(f)
  <2>1. ASSUME NEW k \in 0 .. run PROVE f[k] = shifted(f)[k]
    <3>1. k # 0 => f[k - 1] \in Halves /\ k \in 1 .. run
      BY <1>3
    <3>2. k # 0 => next[<<f[k - 1], k>>] = ShiftAt(t, i, f[k - 1], k)
      BY <1>9, <3>1
    <3> QED BY <1>10, <3>1, <3>2 DEF GoesOn
  <2>2. f = [k \in 0 .. run |-> f[k]] /\ shifted(f) = [k \in 0 .. run |-> shifted(f)[k]]
    OBVIOUS
  <2> HIDE DEF shifted
  <2> QED BY <2>1, <2>2
<1>13. Shifting(t, i, g)
  BY <1>11, <1>12
<1> HIDE DEF g
<1>14. g = shifted(g)
  BY <1>11, <1>13
<1>15. g[0] = start /\ \A k \in 0 .. run - 1 : g[k + 1] = ShiftAt(t, i, g[k], k + 1)
  <2>1. \A n \in 0 .. run : shifted(g)[n] = IF n = 0 THEN start ELSE ShiftAt(t, i, g[n - 1], n)
    OBVIOUS
  <2> HIDE DEF shifted
  <2>2. \A n \in 0 .. run : g[n] = IF n = 0 THEN start ELSE ShiftAt(t, i, g[n - 1], n)
    BY <1>14, <2>1
  <2> QED BY <1>3, <2>2
<1> HIDE DEF shifted
<1> DEFINE Goal(w, d) == Opened(cap, home, s, i, d, w.slots, w.hole)
           good == {wd \in Halves \X (0 .. run) : Goal(wd[1], wd[2])}
<1>16. \A w, d : <<w, d>> \in good <=> w \in Halves /\ d \in 0 .. run /\ Goal(w, d)
  <2> HIDE DEF Goal
  <2> QED OBVIOUS
<1> HIDE DEF good
<1>17. <<g[0], 0>> \in good
  <2>1. start.slots = s /\ start.hole = i
    BY DEF start
  <2>2. Goal(start, 0)
    BY <2>1, HoleOpens
  <2>3. 0 \in 0 .. run
    BY <1>3
  <2> HIDE DEF Goal
  <2> QED BY <1>7, <1>15, <1>16, <2>2, <2>3
<1>18. ASSUME NEW k \in 0 .. run - 1, <<g[k], k>> \in good
       PROVE  <<g[k + 1], k + 1>> \in good
  <2> DEFINE w == g[k]
             d == k + 1
             j == J(d)
             u == ShiftOne(cap, home[s[j].ref], s[j], w, j)
  <2>1. w \in Halves /\ Goal(w, k)
    BY <1>16, <1>18
  <2>2. d \in 1 .. run /\ d \in 0 .. run /\ k \in Nat
    BY <1>3
  <2>3. g[d] = ShiftAt(t, i, w, d)
    BY <1>15
  <2>4. g[d] \in Halves
    BY <1>6, <2>1, <2>2, <2>3
  <2>5. g[d] = u
    BY <1>5, <2>2, <2>3
  <2>6. j \in FullSlots(cap, s) /\ Ahead(cap, i, j) = k + 1
    BY <1>4, <2>2
  <2>7. k + 1 < Ahead(cap, i, e)
    BY <1>3, <2>2
  <2> HIDE DEF w, j
  <2>8. Opened(cap, home, s, i, k + 1, u.slots, u.hole)
    BY <1>2, <1>3, <2>1, <2>2, <2>6, <2>7, HoleMoves
  <2>9. Goal(g[d], d)
    BY <2>5, <2>8
  <2> HIDE DEF Goal
  <2> QED BY <1>16, <2>2, <2>4, <2>9
<1>19. <<g[run], run>> \in good
  BY ONLY <1>3, <1>17, <1>18, IteratesIn
<1>20. Opened(cap, home, s, i, run, g[run].slots, g[run].hole)
  <2>1. Goal(g[run], run)
    <3> HIDE DEF Goal
    <3> QED BY <1>16, <1>19
  <2> QED BY <2>1
<1>21. Shifted(t, i) = g[run]
  BY ShiftedIs DEF g, run
<1>22. Without(cap, home, s, i, WithEntry(g[run].slots, g[run].hole, EmptySlot))
  BY <1>2, <1>3, <1>20, HoleCloses
<1> QED BY <1>21, <1>22 DEF ErasedSlots

-----------------------------------------------------------------------------
(* Tables as values.                                                       *)

Homes(hash, cap) == [r \in Refs |-> HomeAt(hash, cap, r)]

Hashes == [Refs -> 0 .. MaxCap - 1]

\* A table of a capacity in which every entry can be found, below its load limit.
Table(cap, t) ==
  /\ cap \in Caps
  /\ t \in [slots : [0 .. cap - 1 -> Slot], size : Nat, hash : Hashes]
  /\ Tabled(cap, Homes(t.hash, cap), t.slots)
  /\ t.size = Cardinality(FullSlots(cap, t.slots)) /\ 10 * t.size < 7 * cap

Sound(t) == \E cap \in Caps : Table(cap, t)

\* What is assumed of the capacities, the bounds on them and the references.
LEMMA CapBounds ==
  /\ MaxCap \in Caps /\ InitialCap \in Caps /\ MaxCap \in Nat
  /\ \A c \in Caps : /\ c \in Nat \ {0} /\ c >= 2 /\ c <= MaxCap /\ MaxCap % c = 0
                     /\ c # MaxCap => 2 * c \in Caps
  /\ IsFiniteSet(Refs) /\ Cardinality(Refs) \in Nat
  /\ 10 * Cardinality(Refs) < 7 * MaxCap
  /\ \A n \in Hints : n \in Nat /\ 10 * n < 7 * MaxCap
  /\ NilRef \notin Refs /\ Dead \notin Orders
<1>1. MaxCap \in 2 .. MaxCap /\ Caps \subseteq 2 .. MaxCap
  BY CapAssumption
<1>2. IsFiniteSet(Refs) /\ 10 * Cardinality(Refs) < 7 * MaxCap
  BY CapAssumption
<1>3. Cardinality(Refs) \in Nat
  BY <1>2, FS_CardinalityType
<1> QED BY <1>1, <1>2, <1>3, CapAssumption

\* The top bits of a hash are a slot.
LEMMA HomesFit ==
  ASSUME NEW cap \in Caps, NEW hash \in Hashes
  PROVE  Homes(hash, cap) \in [Refs -> 0 .. cap - 1]
<1>1. MaxCap \in Nat /\ cap \in Nat \ {0} /\ cap <= MaxCap /\ MaxCap % cap = 0 /\ NilRef \notin Refs
  BY CapBounds
<1> DEFINE q == MaxCap \div cap
<1>2. MaxCap = cap * q /\ q \in Nat
  BY <1>1
<1>3. q # 0
  BY <1>1, <1>2
<1> HIDE DEF q
<1>4. ASSUME NEW h \in 0 .. MaxCap - 1 PROVE h \div q \in 0 .. cap - 1
  BY <1>1, <1>2, <1>3
<1>5. ASSUME NEW r \in Refs PROVE HomeAt(hash, cap, r) \in 0 .. cap - 1
  <2>1. hash[r] \in 0 .. MaxCap - 1 /\ r # NilRef
    BY <1>1 DEF Hashes
  <2> QED BY <1>4, <2>1 DEF HomeAt, q
<1> QED BY <1>5 DEF Homes

\* A table's capacity, and what its slots are.
LEMMA TableHas ==
  ASSUME NEW cap, NEW t, Table(cap, t)
  PROVE  /\ Cap(t) = cap /\ DOMAIN t.slots = 0 .. cap - 1 /\ cap \in Nat \ {0}
         /\ Homes(t.hash, cap) \in [Refs -> 0 .. cap - 1]
         /\ \A r \in Refs : Home(t, r) = Homes(t.hash, cap)[r]
         /\ Cardinality(FullSlots(cap, t.slots)) < cap
         /\ NilRef \notin Refs /\ t.size \in Nat
         /\ \E z \in 0 .. cap - 1 : ~ Full(t.slots, z)
<1>1. cap \in Caps /\ cap \in Nat \ {0} /\ NilRef \notin Refs
  BY CapBounds DEF Table
<1>2. /\ t.slots \in [0 .. cap - 1 -> Slot] /\ t.size \in Nat /\ t.hash \in Hashes
      /\ t.size = Cardinality(FullSlots(cap, t.slots)) /\ 10 * t.size < 7 * cap
  BY DEF Table
<1>3. DOMAIN t.slots = 0 .. cap - 1
  BY <1>2
<1>4. Cardinality(0 .. cap - 1) = cap
  BY <1>1, FS_Interval
<1>5. Cap(t) = cap
  BY <1>3, <1>4 DEF Cap
<1>6. Homes(t.hash, cap) \in [Refs -> 0 .. cap - 1]
  BY <1>1, <1>2, HomesFit
<1>7. \A r \in Refs : Home(t, r) = Homes(t.hash, cap)[r]
  BY <1>5 DEF Home, Homes
<1>8. t.size < cap
  BY <1>1, <1>2
<1>9. \E z \in 0 .. cap - 1 : ~ Full(t.slots, z)
  BY <1>1, <1>2, <1>8, SlotLeft
<1> QED BY <1>1, <1>2, <1>3, <1>5, <1>6, <1>7, <1>8, <1>9

\* probe() finds an entry where it is, and else an empty slot reached from home.
LEMMA Probed ==
  ASSUME NEW cap, NEW t, Table(cap, t), NEW r \in Refs
  PROVE  /\ \A z \in 0 .. cap - 1 : t.slots[z].ref = r => Probe(t, r) = z
         /\ Probe(t, r) \in 0 .. cap - 1
         /\ ~ Listed(cap, t.slots, r) =>
              /\ ~ Full(t.slots, Probe(t, r))
              /\ ReachedFrom(cap, t.slots, Homes(t.hash, cap)[r], Probe(t, r))
<1> DEFINE s == t.slots
           home == Homes(t.hash, cap)
           i == home[r]
<1>1. /\ cap \in Nat \ {0} /\ home \in [Refs -> 0 .. cap - 1] /\ NilRef \notin Refs
      /\ \E z \in 0 .. cap - 1 : ~ Full(s, z)
  BY TableHas
<1>2. Probe(t, r) = FirstFrom(s, cap, i, {r, NilRef})
  BY TableHas DEF Probe
<1>3. Tabled(cap, home, s)
  BY DEF Table
<1> HIDE DEF s, home
<1>4. ASSUME NEW z \in 0 .. cap - 1, s[z].ref = r PROVE Probe(t, r) = z
  <2>1. FirstFrom(s, cap, home[r], {r, NilRef}) = z
    <3>1. cap \in Nat \ {0} /\ home \in [Refs -> 0 .. cap - 1] /\ NilRef \notin Refs
      BY <1>1
    <3>2. s[z].ref = r /\ r \in Refs /\ z \in 0 .. cap - 1
      BY <1>4
    <3> QED BY ONLY <1>3, <3>1, <3>2, EntryFound, Zenon
  <2> QED BY <1>2, <2>1
<1>5. ASSUME ~ Listed(cap, s, r)
      PROVE  /\ Probe(t, r) \in 0 .. cap - 1 /\ ~ Full(s, Probe(t, r))
             /\ ReachedFrom(cap, s, i, Probe(t, r))
  <2>1. PICK z \in 0 .. cap - 1 : ~ Full(s, z)
    BY <1>1
  <2>2. {r, NilRef} \in {{r, NilRef}, {NilRef}}
    OBVIOUS
  <2>3. i \in 0 .. cap - 1
    BY <1>1
  <2> HIDE DEF i
  <2> QED BY <1>1, <1>2, <1>5, <2>1, <2>2, <2>3, FreeFound
<1> QED BY <1>4, <1>5 DEF Listed, s, home

-----------------------------------------------------------------------------
(* The store interface, by the entries of a table.                         *)

Ents(t) == EntriesOf(Cap(t), t.slots)
Kept(t) == {e.ref : e \in Ents(t)}

\* An entry is where probe() looks, and find() and a held reference return its order.
LEMMA EntryAt ==
  ASSUME NEW cap, NEW t, Table(cap, t), NEW e \in Ents(t)
  PROVE  /\ e \in Slot /\ e.ref \in Refs
         /\ Probe(t, e.ref) \in FullSlots(cap, t.slots)
         /\ t.slots[Probe(t, e.ref)] = e
         /\ Find(t, e.ref) = e.o
         /\ Read(t, At(t, e.ref)) = e.o
<1>1. PICK z \in FullSlots(cap, t.slots) : t.slots[z] = e
  BY TableHas DEF Ents, EntriesOf
<1>2. z \in 0 .. cap - 1 /\ Full(t.slots, z) /\ t.slots \in [0 .. cap - 1 -> Slot]
  BY DEF FullSlots, Table
<1>3. e \in Slot /\ e.ref \in Refs
  BY <1>1, <1>2 DEF Slot, Full
<1>4. Probe(t, e.ref) = z
  BY <1>1, <1>2, <1>3, Probed
<1> QED BY <1>1, <1>3, <1>4 DEF Find, Read, At

\* No two entries have one reference.
LEMMA EntriesApart ==
  ASSUME NEW cap, NEW t, Table(cap, t), NEW e \in Ents(t), NEW f \in Ents(t),
         e.ref = f.ref
  PROVE  e = f
<1>1. t.slots[Probe(t, e.ref)] = e
  BY EntryAt
<1>2. t.slots[Probe(t, f.ref)] = f
  BY EntryAt
<1> QED BY <1>1, <1>2

\* Of a reference without an entry nothing is found.
LEMMA NoEntry ==
  ASSUME NEW cap, NEW t, Table(cap, t), NEW r \in Refs, r \notin Kept(t)
  PROVE  /\ ~ Listed(cap, t.slots, r)
         /\ t.slots[Probe(t, r)].ref # r
         /\ Find(t, r) = Dead
<1>1. Cap(t) = cap /\ NilRef \notin Refs
  BY TableHas
<1>2. ~ Listed(cap, t.slots, r)
  BY <1>1 DEF Listed, Kept, Ents, EntriesOf, FullSlots, Full
<1>3. ~ Full(t.slots, Probe(t, r))
  BY <1>2, Probed
<1>4. t.slots[Probe(t, r)].ref # r
  BY <1>1, <1>3 DEF Full
<1> QED BY <1>2, <1>4 DEF Find

\* Of the reserved reference nothing is found.
LEMMA NilFinds ==
  ASSUME NEW cap, NEW t, Table(cap, t)
  PROVE  Find(t, NilRef) = Dead
<1> DEFINE p == Probe(t, NilRef)
<1>1. /\ Cap(t) = cap /\ cap \in Nat \ {0} /\ 0 \in 0 .. cap - 1
      /\ \E z \in 0 .. cap - 1 : ~ Full(t.slots, z)
  BY TableHas
<1>2. p = FirstFrom(t.slots, cap, 0, {NilRef, NilRef})
  BY <1>1 DEF Probe, Home, HomeAt
<1>3. p \in 0 .. cap - 1 /\ t.slots[p].ref \in {NilRef, NilRef}
  <2>1. PICK z \in 0 .. cap - 1 : ~ Full(t.slots, z)
    BY <1>1
  <2>2. t.slots[z].ref \in {NilRef, NilRef}
    BY <2>1 DEF Full
  <2> HIDE DEF p
  <2> QED BY <1>1, <1>2, <2>2, FirstFromIs
<1>4. t.slots[p] = EmptySlot
  BY <1>3 DEF Table, Tabled, Full
<1> QED BY <1>4 DEF Find, EmptySlot

\* There are as many references with an entry as size_ says.
LEMMA KeptCount ==
  ASSUME NEW cap, NEW t, Table(cap, t)
  PROVE  /\ Cardinality(Kept(t)) = t.size /\ Kept(t) \subseteq Refs
         /\ t.size <= Cardinality(Refs)
         /\ \A r \in Refs \ Kept(t) : t.size + 1 <= Cardinality(Refs)
<1> DEFINE s == t.slots
           full == FullSlots(cap, s)
           f == [z \in full |-> s[z].ref]
           kept == Kept(t)
<1>1. kept = {s[z].ref : z \in full}
  BY TableHas DEF Kept, Ents, EntriesOf
<1>2. \A y, z \in full : s[y].ref = s[z].ref => y = z
  BY DEF Table, Tabled
<1>3. kept \subseteq Refs
  BY EntryAt DEF Kept
<1>4. IsFiniteSet(full)
  BY TableHas, NextSlot
<1>5. t.size = Cardinality(full) /\ t.size \in Nat
  BY TableHas DEF Table
<1> HIDE DEF kept, full, s
<1>6. f \in Bijection(full, kept)
  BY <1>1, <1>2 DEF Bijection, Injection, Surjection, IsInjective
<1> HIDE DEF f
<1>7. Cardinality(kept) = Cardinality(full) /\ IsFiniteSet(kept)
  BY <1>4, <1>6, FS_Bijection DEF ExistsBijection
<1>8. IsFiniteSet(Refs) /\ Cardinality(Refs) \in Nat
  BY CapBounds
<1>9. Cardinality(kept) <= Cardinality(Refs)
  BY <1>3, <1>8, FS_Subset
<1>10. ASSUME NEW r \in Refs \ kept PROVE Cardinality(kept) + 1 <= Cardinality(Refs)
  <2>1. kept \cup {r} \subseteq Refs
    BY <1>3
  <2>2. Cardinality(kept \cup {r}) = Cardinality(kept) + 1
    BY <1>7, FS_AddElement
  <2> QED BY <1>8, <2>1, <2>2, FS_Subset
<1> QED BY <1>3, <1>5, <1>7, <1>9, <1>10 DEF kept

\* A larger table has the same entries.
LEMMA Rehashed ==
  ASSUME NEW cap, NEW t, Table(cap, t), NEW new \in Caps, cap <= new
  PROVE  LET u == Rehash(t, new)
         IN Table(new, u) /\ Ents(u) = Ents(t) /\ u.size = t.size
<1> DEFINE s == t.slots
           v == MovedTo(t, new)
           u == Rehash(t, new)
           home == Homes(t.hash, cap)
           fresh == Homes(t.hash, new)
<1>1. /\ Cap(t) = cap /\ cap \in Nat \ {0} /\ NilRef \notin Refs
      /\ Cardinality(FullSlots(cap, s)) < cap
  BY TableHas
<1>2. /\ t \in [slots : [0 .. cap - 1 -> Slot], size : Nat, hash : Hashes]
      /\ Tabled(cap, home, s) /\ t.size = Cardinality(FullSlots(cap, s)) /\ 10 * t.size < 7 * cap
  BY DEF Table
<1>3. new \in Nat \ {0} /\ t.hash \in Hashes /\ t.size \in Nat
  BY <1>2, CapBounds
<1>4. fresh \in [Refs -> 0 .. new - 1]
  BY <1>3, HomesFit
<1>5. \A r \in Refs : HomeAt(t.hash, new, r) = fresh[r]
  BY DEF Homes
<1>6. Cardinality(FullSlots(cap, s)) < new
  BY <1>1, <1>2, <1>3
<1>7. u = [t EXCEPT !.slots = v]
  BY <1>1, RehashMoves
<1> HIDE DEF home, fresh, u
<1>8. /\ Tabled(new, fresh, v) /\ EntriesOf(new, v) = EntriesOf(cap, s)
      /\ Cardinality(FullSlots(new, v)) = Cardinality(FullSlots(cap, s))
  <2>1. s = t.slots /\ cap = Cap(t) /\ cap \in Nat \ {0} /\ NilRef \notin Refs
    BY <1>1
  <2>2. new \in Nat \ {0} /\ Tabled(cap, home, s)
    BY <1>2, <1>3
  <2> HIDE DEF s
  <2>3. SameEntries(new, fresh, v, cap, s)
    BY ONLY <1>4, <1>5, <1>6, <2>1, <2>2, AllMoved
  <2> QED BY <2>3 DEF SameEntries
<1> HIDE DEF v
<1>9. v \in [0 .. new - 1 -> Slot]
  BY <1>8 DEF Tabled
<1>10. /\ u \in [slots : [0 .. new - 1 -> Slot], size : Nat, hash : Hashes]
       /\ u.slots = v /\ u.size = t.size /\ u.hash = t.hash
  BY <1>2, <1>7, <1>9
<1>11. 10 * u.size < 7 * new
  BY <1>1, <1>2, <1>3, <1>10
<1>12. Table(new, u)
  BY <1>2, <1>8, <1>10, <1>11 DEF Table, fresh
<1>13. Ents(u) = EntriesOf(new, v) /\ Ents(t) = EntriesOf(cap, s)
  BY <1>1, <1>10, <1>12, TableHas DEF Ents
<1> QED BY <1>8, <1>10, <1>12, <1>13 DEF u

\* touch() of a reference with an entry moves nothing.
LEMMA TouchKnown ==
  ASSUME NEW t, NEW r, t.slots[Probe(t, r)].ref = r
  PROVE  Touch(t, r) = t
BY DEF Touch

\* Table t and a dead entry of reference r.
PutIn(t, r) ==
  Refilled(t, WithEntry(t.slots, Probe(t, r), [ref |-> r, o |-> Dead]), t.size + 1)

\* The entry touch() puts into a table with room for it.
LEMMA TouchPut ==
  ASSUME NEW cap, NEW t, Table(cap, t), NEW r \in Refs, r \notin Kept(t),
         10 * (t.size + 1) < 7 * cap
  PROVE  /\ Table(cap, PutIn(t, r))
         /\ Ents(PutIn(t, r)) = Ents(t) \cup {[ref |-> r, o |-> Dead]}
<1> DEFINE e == [ref |-> r, o |-> Dead]
           s == t.slots
           home == Homes(t.hash, cap)
           p == Probe(t, r)
           v == WithEntry(s, p, e)
           u == PutIn(t, r)
<1>1. Cap(t) = cap /\ cap \in Nat \ {0} /\ NilRef \notin Refs /\ t.size \in Nat
  BY TableHas
<1>2. /\ t \in [slots : [0 .. cap - 1 -> Slot], size : Nat, hash : Hashes]
      /\ Tabled(cap, home, s) /\ t.size = Cardinality(FullSlots(cap, s)) /\ cap \in Caps
  BY DEF Table
<1>3. /\ p \in 0 .. cap - 1 /\ ~ Full(s, p) /\ ReachedFrom(cap, s, home[r], p)
      /\ ~ Listed(cap, s, r)
  BY NoEntry, Probed
<1>4. e \in Slot /\ e.ref = r /\ e.ref # NilRef
  BY <1>1 DEF Slot
<1>5. u = [slots |-> v, size |-> t.size + 1, hash |-> t.hash]
  BY DEF PutIn, Refilled
<1> HIDE DEF p, home, e
<1>6. ReachedFrom(cap, s, home[e.ref], p) /\ ~ Listed(cap, s, e.ref)
  BY <1>3, <1>4
<1>7. /\ Tabled(cap, home, v) /\ FullSlots(cap, v) = FullSlots(cap, s) \cup {p}
      /\ v[p] = e /\ \A y \in 0 .. cap - 1 : y # p => v[y] = s[y]
  BY <1>1, <1>2, <1>3, <1>4, <1>6, EntryPut
<1> HIDE DEF v, u
<1>8. v \in [0 .. cap - 1 -> Slot]
  BY <1>7 DEF Tabled
<1>9. p \notin FullSlots(cap, s) /\ FullSlots(cap, s) \subseteq 0 .. cap - 1
  BY <1>3 DEF FullSlots
<1>10. Cardinality(FullSlots(cap, v)) = t.size + 1
  <2>1. IsFiniteSet(FullSlots(cap, s))
    BY <1>1, NextSlot
  <2> QED BY <1>2, <1>7, <1>9, <2>1, FS_AddElement
<1>11. EntriesOf(cap, v) = EntriesOf(cap, s) \cup {e}
  BY <1>7, <1>9 DEF EntriesOf
<1>12. /\ u.slots = v /\ u.size = t.size + 1 /\ u.hash = t.hash
       /\ u \in [slots : [0 .. cap - 1 -> Slot], size : Nat, hash : Hashes]
  BY <1>1, <1>2, <1>5, <1>8
<1>13. Table(cap, u)
  BY <1>2, <1>7, <1>10, <1>12 DEF Table, home
<1>14. Ents(u) = EntriesOf(cap, v) /\ Ents(t) = EntriesOf(cap, s)
  BY <1>1, <1>12, <1>13, TableHas DEF Ents
<1> QED BY <1>11, <1>13, <1>14 DEF u, e, p

\* touch() of a fresh reference adds its entry, dead, and loses none, grow as the table may.
LEMMA TouchFresh ==
  ASSUME NEW t, Sound(t), NEW r \in Refs, r \notin Kept(t)
  PROVE  LET u == Touch(t, r)
         IN Sound(u) /\ Ents(u) = Ents(t) \cup {[ref |-> r, o |-> Dead]}
<1>1. PICK cap \in Caps : Table(cap, t)
  BY DEF Sound
<1> DEFINE grown == Rehash(t, 2 * cap)
<1>2. Cap(t) = cap /\ cap \in Nat /\ t.size \in Nat /\ 10 * t.size < 7 * cap
  BY <1>1, TableHas DEF Table
<1>3. t.slots[Probe(t, r)].ref # r
  BY <1>1, NoEntry
<1>4. Touch(t, r) = IF (t.size + 1) * 10 >= cap * 7 THEN PutIn(grown, r) ELSE PutIn(t, r)
  BY <1>2, <1>3 DEF Touch, Grows, PutIn, WithEntry
<1>5. CASE ~ ((t.size + 1) * 10 >= cap * 7)
  <2>1. 10 * (t.size + 1) < 7 * cap
    BY <1>2, <1>5
  <2>2. Table(cap, PutIn(t, r)) /\ Ents(PutIn(t, r)) = Ents(t) \cup {[ref |-> r, o |-> Dead]}
    BY <1>1, <2>1, TouchPut
  <2> QED BY <1>4, <1>5, <2>2 DEF Sound
<1>6. CASE (t.size + 1) * 10 >= cap * 7
  <2>1. t.size + 1 <= Cardinality(Refs)
    BY <1>1, KeptCount
  <2>2. /\ 10 * Cardinality(Refs) < 7 * MaxCap /\ Cardinality(Refs) \in Nat /\ MaxCap \in Nat
        /\ cap >= 2 /\ (cap # MaxCap => 2 * cap \in Caps)
    BY CapBounds
  <2>3. 2 * cap \in Caps
    BY <1>2, <1>6, <2>1, <2>2
  <2> DEFINE new == 2 * cap
  <2>4. new \in Caps /\ cap <= new /\ 10 * (t.size + 1) < 7 * new
    BY <1>2, <2>2, <2>3
  <2> HIDE DEF new
  <2>5. LET u == Rehash(t, new)
        IN Table(new, u) /\ Ents(u) = Ents(t) /\ u.size = t.size
    BY <1>1, <2>4, Rehashed
  <2>6. Table(new, grown) /\ Ents(grown) = Ents(t) /\ grown.size = t.size
    BY <2>5 DEF new
  <2> HIDE DEF grown
  <2>7. r \notin Kept(grown) /\ 10 * (grown.size + 1) < 7 * new
    BY <2>4, <2>6 DEF Kept
  <2>8. /\ Table(new, PutIn(grown, r))
        /\ Ents(PutIn(grown, r)) = Ents(grown) \cup {[ref |-> r, o |-> Dead]}
    BY <2>6, <2>7, TouchPut
  <2> QED BY <1>4, <1>6, <2>4, <2>6, <2>8 DEF Sound
<1> QED BY <1>5, <1>6

\* Where two tables have the same entries but for one reference, they find the same orders.
LEMMA FindAlike ==
  ASSUME NEW t, Sound(t), NEW u, Sound(u), NEW r,
         \A e : e.ref # r => (e \in Ents(u) <=> e \in Ents(t))
  PROVE  /\ \A q \in AllRefs \ {r} : Find(u, q) = Find(t, q)
         /\ \A q \in AllRefs \ {r} : q \in Kept(u) <=> q \in Kept(t)
<1>1. PICK cap \in Caps : Table(cap, t)
  BY DEF Sound
<1>2. PICK new \in Caps : Table(new, u)
  BY DEF Sound
<1>3. \A q : q # r => (q \in Kept(u) <=> q \in Kept(t))
  BY DEF Kept
<1>4. ASSUME NEW q \in AllRefs \ {r} PROVE Find(u, q) = Find(t, q)
  <2>1. CASE q = NilRef
    <3>1. Find(t, NilRef) = Dead
      BY <1>1, NilFinds
    <3>2. Find(u, NilRef) = Dead
      BY <1>2, NilFinds
    <3> QED BY <2>1, <3>1, <3>2
  <2>2. CASE q \in Refs /\ q \notin Kept(t)
    <3>1. Find(t, q) = Dead
      BY <1>1, <2>2, NoEntry
    <3>2. Find(u, q) = Dead
      BY <1>2, <1>3, <2>2, NoEntry
    <3> QED BY <3>1, <3>2
  <2>3. CASE q \in Kept(t)
    <3>1. PICK e \in Ents(t) : e.ref = q
      BY <2>3 DEF Kept
    <3>2. e \in Ents(u)
      BY <3>1
    <3>3. Find(t, e.ref) = e.o
      BY <1>1, EntryAt
    <3>4. Find(u, e.ref) = e.o
      BY <1>2, <3>2, EntryAt
    <3> QED BY <3>1, <3>3, <3>4
  <2> QED BY <2>1, <2>2, <2>3 DEF AllRefs
<1> QED BY <1>3, <1>4

\* What a sound table keeps, it finds, and what it finds, it keeps.
LEMMA KeptFinds ==
  ASSUME NEW t, Sound(t), NEW r \in AllRefs
  PROVE  /\ r \notin Kept(t) => Find(t, r) = Dead
         /\ r \in Kept(t) => /\ r \in Refs /\ t.slots[Probe(t, r)].ref = r
                             /\ Read(t, At(t, r)) = Find(t, r)
         /\ Find(t, r) \in Orders \cup {Dead}
<1>1. PICK cap \in Caps : Table(cap, t)
  BY DEF Sound
<1>2. r \notin Kept(t) => Find(t, r) = Dead
  BY <1>1, NoEntry, NilFinds DEF AllRefs
<1>3. ASSUME r \in Kept(t)
      PROVE  /\ r \in Refs /\ t.slots[Probe(t, r)].ref = r
             /\ Read(t, At(t, r)) = Find(t, r)
             /\ Find(t, r) \in Orders \cup {Dead}
  <2>1. PICK e \in Ents(t) : e.ref = r
    BY <1>3 DEF Kept
  <2>2. /\ e \in Slot /\ e.ref \in Refs /\ t.slots[Probe(t, e.ref)] = e
        /\ Find(t, e.ref) = e.o /\ Read(t, At(t, e.ref)) = e.o
    BY <1>1, EntryAt
  <2> QED BY <2>1, <2>2 DEF Slot
<1> QED BY <1>2, <1>3

\* Writing through a held reference changes the order of its entry only.
LEMMA Writing ==
  ASSUME NEW t, Sound(t), NEW r \in Kept(t), NEW o \in Orders \cup {Dead}
  PROVE  LET u == Write(t, At(t, r), o)
         IN /\ Sound(u) /\ Kept(u) = Kept(t) /\ Find(u, r) = o
            /\ \A q \in AllRefs \ {r} : Find(u, q) = Find(t, q)
<1>1. PICK cap \in Caps : Table(cap, t)
  BY DEF Sound
<1>2. PICK e \in Ents(t) : e.ref = r
  BY DEF Kept
<1> DEFINE s == t.slots
           home == Homes(t.hash, cap)
           p == Probe(t, e.ref)
           v == WithOrder(s, p, o)
           u == Write(t, p, o)
<1>3. Cap(t) = cap /\ cap \in Nat \ {0} /\ t.size \in Nat
  BY <1>1, TableHas
<1>4. /\ t \in [slots : [0 .. cap - 1 -> Slot], size : Nat, hash : Hashes]
      /\ Tabled(cap, home, s) /\ t.size = Cardinality(FullSlots(cap, s))
      /\ 10 * t.size < 7 * cap
  BY <1>1 DEF Table
<1>5. p \in FullSlots(cap, s) /\ s[p] = e /\ r \in Refs
  BY <1>1, <1>2, EntryAt
<1>6. p \in 0 .. cap - 1 /\ Full(s, p)
  BY <1>5 DEF FullSlots
<1>7. u = [t EXCEPT !.slots = v]
  BY <1>4 DEF Write, WithOrder
<1>8. Write(t, At(t, r), o) = u
  BY <1>2 DEF At
<1> HIDE DEF p, home, u, s
<1>9. /\ Tabled(cap, home, v) /\ FullSlots(cap, v) = FullSlots(cap, s)
      /\ \A y \in 0 .. cap - 1 : v[y].ref = s[y].ref
      /\ v[p].o = o /\ \A y \in 0 .. cap - 1 : y # p => v[y] = s[y]
  BY <1>3, <1>4, <1>6, EntryWritten
<1> HIDE DEF v
<1>10. v \in [0 .. cap - 1 -> Slot]
  BY <1>9 DEF Tabled
<1>11. /\ u.slots = v /\ u.size = t.size /\ u.hash = t.hash
       /\ u \in [slots : [0 .. cap - 1 -> Slot], size : Nat, hash : Hashes]
  BY <1>4, <1>7, <1>10
<1>12. Table(cap, u)
  BY <1>4, <1>9, <1>11 DEF Table, home
<1>13. Ents(u) = EntriesOf(cap, v) /\ Ents(t) = EntriesOf(cap, s)
  BY <1>3, <1>11, <1>12, TableHas DEF Ents, s
<1>14. Sound(u)
  BY <1>12 DEF Sound
<1>15. \A y \in FullSlots(cap, s) : y # p => s[y].ref # r
  BY <1>2, <1>4, <1>5 DEF Tabled
<1>16. \A f : f.ref # r => (f \in Ents(u) <=> f \in Ents(t))
  <2>1. \A y \in FullSlots(cap, s) : y \in 0 .. cap - 1
    BY DEF FullSlots
  <2>2. v[p].ref = r /\ s[p].ref = r
    BY <1>2, <1>5, <1>6, <1>9
  <2> QED BY <1>9, <1>13, <2>1, <2>2 DEF EntriesOf
<1>17. v[p] \in Ents(u) /\ v[p].ref = r /\ v[p].o = o
  BY <1>2, <1>5, <1>6, <1>9, <1>13 DEF EntriesOf
<1>18. Find(u, v[p].ref) = v[p].o
  BY <1>12, <1>17, EntryAt
<1>19. /\ \A q \in AllRefs \ {r} : Find(u, q) = Find(t, q)
       /\ \A q \in AllRefs \ {r} : q \in Kept(u) <=> q \in Kept(t)
  BY <1>14, <1>16, FindAlike
<1>20. Kept(u) = Kept(t)
  <2>1. r \in Kept(u)
    BY <1>17 DEF Kept
  <2>2. Kept(u) \subseteq Refs /\ Kept(t) \subseteq Refs
    BY <1>1, <1>12, KeptCount
  <2> QED BY <1>19, <2>1, <2>2 DEF AllRefs
<1> QED BY <1>8, <1>14, <1>17, <1>18, <1>19, <1>20

\* note_dead() takes the entry of its reference, and no other.
LEMMA Dying ==
  ASSUME NEW t, Sound(t), NEW r \in Kept(t)
  PROVE  LET u == NoteDead(t, r)
         IN /\ Sound(u) /\ Kept(u) = Kept(t) \ {r}
            /\ \A q \in AllRefs \ {r} : Find(u, q) = Find(t, q)
<1>1. PICK cap \in Caps : Table(cap, t)
  BY DEF Sound
<1>2. PICK e \in Ents(t) : e.ref = r
  BY DEF Kept
<1> DEFINE s == t.slots
           home == Homes(t.hash, cap)
           p == Probe(t, r)
           v == ErasedSlots(t, p)
           u == NoteDead(t, r)
<1>3. /\ Cap(t) = cap /\ cap \in Nat \ {0} /\ t.size \in Nat
      /\ home \in [Refs -> 0 .. cap - 1] /\ \A q \in Refs : Home(t, q) = home[q]
      /\ Cardinality(FullSlots(cap, s)) < cap
  BY <1>1, TableHas
<1>4. /\ t \in [slots : [0 .. cap - 1 -> Slot], size : Nat, hash : Hashes]
      /\ Tabled(cap, home, s) /\ t.size = Cardinality(FullSlots(cap, s))
      /\ 10 * t.size < 7 * cap
  BY <1>1 DEF Table
<1>5. p \in FullSlots(cap, s) /\ s[p] = e /\ r \in Refs
  BY <1>1, <1>2, EntryAt
<1>6. u = [slots |-> v, size |-> t.size - 1, hash |-> t.hash]
  BY DEF NoteDead, Erase, Refilled, ErasedSlots, WithEntry
<1> HIDE DEF p, home, u
<1>7. Without(cap, home, s, p, ErasedSlots(t, p))
  <2>1. s = t.slots /\ cap = Cap(t)
    BY <1>3
  <2> HIDE DEF s
  <2> QED BY ONLY <1>3, <1>4, <1>5, <2>1, AllShifted
<1> HIDE DEF v, s
<1>8. /\ Tabled(cap, home, v) /\ EntriesOf(cap, v) = {s[z] : z \in FullSlots(cap, s) \ {p}}
      /\ Cardinality(FullSlots(cap, v)) = Cardinality(FullSlots(cap, s)) - 1
  BY <1>7 DEF Without, v
<1>9. v \in [0 .. cap - 1 -> Slot]
  BY <1>8 DEF Tabled
<1>10. Cardinality(FullSlots(cap, v)) \in Nat
  BY <1>3, NextSlot
<1>11. /\ u.slots = v /\ u.size = t.size - 1 /\ u.hash = t.hash /\ u.size \in Nat
       /\ u \in [slots : [0 .. cap - 1 -> Slot], size : Nat, hash : Hashes]
  BY <1>4, <1>6, <1>8, <1>9, <1>10
<1>12. u.size = Cardinality(FullSlots(cap, v)) /\ 10 * u.size < 7 * cap
  BY <1>3, <1>4, <1>8, <1>11
<1>13. Table(cap, u)
  BY <1>8, <1>11, <1>12 DEF Table, home
<1>14. Ents(u) = EntriesOf(cap, v) /\ Ents(t) = EntriesOf(cap, s)
  BY <1>3, <1>11, <1>13, TableHas DEF Ents, s
<1>15. Sound(u)
  BY <1>13 DEF Sound
<1>16. \A f : f \in Ents(u) <=> f \in Ents(t) /\ f.ref # r
  <2>1. \A y \in FullSlots(cap, s) : s[y].ref = r => y = p
    BY <1>2, <1>4, <1>5 DEF Tabled
  <2> QED BY <1>2, <1>5, <1>8, <1>14, <2>1 DEF EntriesOf
<1>17. \A q \in AllRefs \ {r} : Find(u, q) = Find(t, q)
  BY <1>15, <1>16, FindAlike
<1>18. Kept(u) = Kept(t) \ {r}
  BY <1>16 DEF Kept
<1> QED BY <1>15, <1>17, <1>18 DEF u

\* reserve() changes no entry.
LEMMA Reserving ==
  ASSUME NEW t, Sound(t), NEW n \in Hints
  PROVE  LET u == Reserved(t, n)
         IN /\ Sound(u) /\ Kept(u) = Kept(t)
            /\ \A q \in AllRefs : Find(u, q) = Find(t, q)
<1>1. PICK cap \in Caps : Table(cap, t)
  BY DEF Sound
<1> DEFINE enough == {c \in Caps : c >= Cap(t) /\ n * 10 < c * 7}
           want == CHOOSE c \in enough : \A d \in enough : c <= d
           u == Reserved(t, n)
<1>2. Cap(t) = cap
  BY <1>1, TableHas
<1>3. /\ Caps \subseteq Nat /\ MaxCap \in Caps /\ \A c \in Caps : c <= MaxCap
      /\ n \in Nat /\ 10 * n < 7 * MaxCap
  BY CapBounds
<1>4. MaxCap \in enough
  BY <1>2, <1>3
<1>5. want \in enough
  <2>1. enough \in SUBSET Nat /\ enough # {}
    BY <1>3, <1>4
  <2> HIDE DEF enough
  <2>2. \E c \in enough : \A d \in enough : c <= d
    BY <2>1, LeastOf
  <2> QED BY <2>2
<1>6. u = IF want > cap THEN Rehash(t, want) ELSE t
  BY <1>2 DEF Reserved
<1>7. want \in Caps /\ cap <= want
  BY <1>2, <1>5
<1> HIDE DEF want
<1>8. LET w == Rehash(t, want)
      IN Table(want, w) /\ Ents(w) = Ents(t) /\ w.size = t.size
  BY <1>1, <1>7, Rehashed
<1>9. Sound(u) /\ Ents(u) = Ents(t)
  BY <1>6, <1>7, <1>8 DEF Sound
<1> HIDE DEF u
\* No reference is both 0 and 1.
<1>10. \A q \in AllRefs \ {0} : Find(u, q) = Find(t, q)
  BY <1>9, FindAlike
<1>11. \A q \in AllRefs \ {1} : Find(u, q) = Find(t, q)
  BY <1>9, FindAlike
<1> QED BY <1>9, <1>10, <1>11 DEF Kept, u

\* A new table is empty.
LEMMA NewTable ==
  ASSUME NEW t \in Empties
  PROVE  /\ Sound(t) /\ Kept(t) = {}
         /\ \A q \in AllRefs : Find(t, q) = Dead
<1> DEFINE cap == InitialCap
           blank == Blank(cap)
<1>1. /\ t.slots = blank /\ t.size = 0 /\ t.hash \in Hashes
      /\ t = [slots |-> t.slots, size |-> t.size, hash |-> t.hash]
  BY DEF Empties, Hashes
<1>2. cap \in Caps /\ cap \in Nat \ {0}
  BY CapBounds
<1>3. /\ Tabled(cap, Homes(t.hash, cap), blank) /\ EntriesOf(cap, blank) = {}
      /\ FullSlots(cap, blank) = {}
  BY <1>2, BlankTabled
<1> HIDE DEF cap, blank
<1>4. blank \in [0 .. cap - 1 -> Slot]
  BY <1>3 DEF Tabled
<1>5. t \in [slots : [0 .. cap - 1 -> Slot], size : Nat, hash : Hashes]
  BY <1>1, <1>4
<1>6. Cardinality(FullSlots(cap, blank)) = 0
  BY <1>3, FS_EmptySet
<1>7. Table(cap, t)
  BY <1>1, <1>2, <1>3, <1>5, <1>6 DEF Table
<1>8. Ents(t) = {} /\ Kept(t) = {} /\ Sound(t)
  BY <1>1, <1>2, <1>3, <1>7, TableHas DEF Ents, Kept, Sound
<1>9. \A q \in AllRefs : Find(t, q) = Dead
  BY <1>8, KeptFinds
<1> QED BY <1>8, <1>9

-----------------------------------------------------------------------------
(* The handlers, on a table.                                               *)

\* A neighbour whose links are rewritten is in the table: touching it moves nothing.
LEMMA RelinkedSame ==
  ASSUME NEW t, NEW near
  PROVE  Relinked(t, near) = t
<1>1. CASE Holds(t, near)
  <2>1. t.slots[Probe(t, near)].ref = near
    BY <1>1 DEF Holds, Find
  <2> QED BY <2>1, TouchKnown DEF Relinked
<1>2. CASE ~ Holds(t, near)
  BY <1>2 DEF Relinked
<1> QED BY <1>1, <1>2

\* touch() of a fresh reference finds every order as before.
LEMMA Touching ==
  ASSUME NEW t, Sound(t), NEW ref \in Refs, ref \notin Kept(t)
  PROVE  LET u == Touch(t, ref)
         IN /\ Sound(u) /\ Kept(u) = Kept(t) \cup {ref}
            /\ Find(u, ref) = Dead
            /\ \A r \in AllRefs \ {ref} : Find(u, r) = Find(t, r)
<1> DEFINE u == Touch(t, ref)
           e == [ref |-> ref, o |-> Dead]
<1>1. Sound(u) /\ Ents(u) = Ents(t) \cup {e}
  BY TouchFresh
<1>2. e \in Ents(u) /\ e.ref = ref /\ e.o = Dead
  BY <1>1
<1> HIDE DEF u, e
<1>3. PICK cap \in Caps : Table(cap, u)
  BY <1>1 DEF Sound
<1>4. Find(u, ref) = Dead
  BY <1>2, <1>3, EntryAt
<1>5. Kept(u) = Kept(t) \cup {ref}
  BY <1>1, <1>2 DEF Kept
<1>6. \A r \in AllRefs \ {ref} : Find(u, r) = Find(t, r)
  BY <1>1, <1>2, FindAlike
<1> QED BY <1>1, <1>4, <1>5, <1>6 DEF u

\* Book::remove takes away the reference's order, and changes no other.
LEMMA Removing ==
  ASSUME NEW t, Sound(t), NEW ref \in Kept(t), NEW near,
         NEW v, v = Remove(t, ref, At(t, ref), near)
  PROVE  /\ Sound(v) /\ Kept(v) = Kept(t) \ {ref}
         /\ Find(v, ref) = Dead
         /\ \A r \in AllRefs \ {ref} : Find(v, r) = Find(t, r)
<1> DEFINE u == Write(t, At(t, ref), Dead)
<1>1. v = NoteDead(u, ref)
  BY RelinkedSame DEF Remove
<1>2. /\ Sound(u) /\ Kept(u) = Kept(t)
      /\ \A r \in AllRefs \ {ref} : Find(u, r) = Find(t, r)
  BY Writing
<1> HIDE DEF u
<1>3. /\ Sound(v) /\ Kept(v) = Kept(u) \ {ref}
      /\ \A r \in AllRefs \ {ref} : Find(v, r) = Find(u, r)
  BY <1>1, <1>2, Dying
<1>4. ref \in AllRefs
  <2>1. PICK cap \in Caps : Table(cap, t)
    BY DEF Sound
  <2> QED BY <2>1, KeptCount DEF AllRefs
<1>5. Find(v, ref) = Dead
  BY <1>3, <1>4, KeptFinds
<1> QED BY <1>2, <1>3, <1>5

\* touch() and Book::add put the order under the reference, and change no other.
LEMMA Adding ==
  ASSUME NEW t, Sound(t), NEW ref \in Refs, ref \notin Kept(t),
         NEW o \in Orders, NEW near, NEW u, u = Touch(t, ref),
         NEW v, v = Add(u, ref, At(u, ref), o, near)
  PROVE  /\ Sound(v) /\ Kept(v) = Kept(t) \cup {ref}
         /\ Find(v, ref) = o
         /\ \A r \in AllRefs \ {ref} : Find(v, r) = Find(t, r)
<1>1. /\ Sound(u) /\ Kept(u) = Kept(t) \cup {ref}
      /\ \A r \in AllRefs \ {ref} : Find(u, r) = Find(t, r)
  BY Touching
<1>2. v = Write(u, At(u, ref), o)
  BY RelinkedSame DEF Add, NoteLive
<1>3. ref \in Kept(u) /\ o \in Orders \cup {Dead}
  BY <1>1
<1>4. /\ Sound(v) /\ Kept(v) = Kept(u) /\ Find(v, ref) = o
      /\ \A r \in AllRefs \ {ref} : Find(v, r) = Find(u, r)
  BY <1>1, <1>2, <1>3, Writing
<1> QED BY <1>1, <1>4

\* A table between two messages: what it keeps is live.
Steady(t) == Sound(t) /\ \A r \in Kept(t) : Find(t, r) \in Orders

\* It stays so when an order leaves it, or one joins it.
LEMMA SteadyKept ==
  ASSUME NEW t, Steady(t), NEW ref, NEW v, Sound(v),
         \/ Kept(v) = Kept(t) \ {ref}
         \/ Kept(v) = Kept(t) \cup {ref} /\ Find(v, ref) \in Orders,
         \A r \in AllRefs \ {ref} : Find(v, r) = Find(t, r)
  PROVE  Steady(v)
<1>1. Kept(t) \subseteq AllRefs
  <2>1. PICK cap \in Caps : Table(cap, t)
    BY DEF Steady, Sound
  <2> QED BY <2>1, KeptCount DEF AllRefs
<1> QED BY <1>1 DEF Steady

\* In such a table the references with an entry are those with a live order.
LEMMA SteadyKeeps ==
  ASSUME NEW t, Steady(t), NEW r \in AllRefs
  PROVE  /\ r \in Kept(t) <=> Find(t, r) # Dead
         /\ r \in Kept(t) => Find(t, r) \in Orders /\ r \in Refs
<1>1. Sound(t) /\ (r \in Kept(t) => Find(t, r) \in Orders) /\ Dead \notin Orders
  BY CapBounds DEF Steady
<1>2. (r \notin Kept(t) => Find(t, r) = Dead) /\ (r \in Kept(t) => r \in Refs)
  BY <1>1, KeptFinds
<1> QED BY <1>1, <1>2

\* on_add puts the order under its reference, whatever rested there.
LEMMA AddServed ==
  ASSUME Steady(store), NEW ref \in Refs, NEW o \in Orders, NEW near,
         OnAdd(ref, o, near)
  PROVE  /\ Steady(store') /\ Find(store', ref) \in Orders
         /\ \A r \in AllRefs \ {ref} : Find(store', r) = Find(store, r)
<1> DEFINE t   == Touch(store, ref)
           x   == Remove(store, ref, At(store, ref), near)
           y   == Touch(x, ref)
<1>1. Sound(store) /\ ref \in AllRefs
  BY DEF Steady, AllRefs
<1>2. CASE ref \in Kept(store)
  <2>1. t = store /\ ref \in Kept(store)
    BY <1>1, <1>2, KeptFinds, TouchKnown DEF Kept
  <2>2. Read(store, At(store, ref)) # Dead
    BY <1>1, <2>1, KeptFinds, SteadyKeeps
  <2>3. store' = Add(y, ref, At(y, ref), o, near)
    BY <2>1, <2>2 DEF OnAdd
  <2>4. x = Remove(store, ref, At(store, ref), near) /\ y = Touch(x, ref)
    OBVIOUS
  <2> HIDE DEF t, x, y
  <2>5. /\ Sound(x) /\ Kept(x) = Kept(store) \ {ref}
        /\ \A r \in AllRefs \ {ref} : Find(x, r) = Find(store, r)
    BY ONLY <1>1, <2>1, <2>4, Removing
  <2>6. ref \notin Kept(x)
    BY <1>1, <2>5 DEF Kept
  <2>7. /\ Sound(store') /\ Kept(store') = Kept(x) \cup {ref}
        /\ Find(store', ref) = o
        /\ \A r \in AllRefs \ {ref} : Find(store', r) = Find(x, r)
    BY ONLY <2>3, <2>4, <2>5, <2>6, ref \in Refs, o \in Orders, Adding
  <2>8. Steady(x)
    BY ONLY Steady(store), <2>5, SteadyKept
  <2>9. Steady(store')
    BY ONLY <2>7, <2>8, o \in Orders, SteadyKept
  <2>10. QED
    BY <2>5, <2>7, <2>9
<1>3. CASE ref \notin Kept(store)
  <2>1. /\ Sound(t) /\ Kept(t) = Kept(store) \cup {ref} /\ Find(t, ref) = Dead
    BY <1>1, <1>3, Touching
  <2>2. Read(t, At(t, ref)) = Dead
    BY <1>1, <2>1, KeptFinds
  <2>3. store' = Add(t, ref, At(t, ref), o, near)
    BY <2>2 DEF OnAdd
  <2>4. t = Touch(store, ref)
    OBVIOUS
  <2> HIDE DEF t
  <2>5. /\ Sound(store') /\ Kept(store') = Kept(store) \cup {ref}
        /\ Find(store', ref) = o
        /\ \A r \in AllRefs \ {ref} : Find(store', r) = Find(store, r)
    BY ONLY <1>1, <1>3, <2>3, <2>4, ref \in Refs, o \in Orders, Adding
  <2>6. Steady(store')
    BY ONLY Steady(store), <2>5, o \in Orders, SteadyKept
  <2>7. QED
    BY <2>5, <2>6
<1>4. QED
  BY <1>2, <1>3

\* An execution or a cancel that leaves shares changes its own order only.
LEMMA ReduceServed ==
  ASSUME Steady(store), NEW ref \in AllRefs, NEW o \in Orders,
         OnReduce(ref, o)
  PROVE  /\ Steady(store') /\ ref \in Refs /\ Find(store', ref) \in Orders
         /\ \A r \in AllRefs \ {ref} : Find(store', r) = Find(store, r)
<1>1. Sound(store) /\ store' = Write(store, At(store, ref), o)
  BY DEF Steady, OnReduce
<1>2. ref \in Kept(store) /\ ref \in Refs
  BY SteadyKeeps DEF OnReduce, Holds
<1>3. o \in Orders \cup {Dead}
  OBVIOUS
<1>4. /\ Sound(store') /\ Kept(store') = Kept(store)
      /\ Find(store', ref) = o
      /\ \A r \in AllRefs \ {ref} : Find(store', r) = Find(store, r)
  BY ONLY <1>1, <1>2, <1>3, Writing
<1>5. Sound(store') /\ Kept(store') = Kept(store) \cup {ref}
  BY <1>2, <1>4
<1>6. Steady(store')
  BY ONLY Steady(store), <1>4, <1>5, o \in Orders, SteadyKept
<1>7. QED
  BY <1>2, <1>4, <1>6

\* Taking an order off the book empties its reference only.
LEMMA RemoveServed ==
  ASSUME NEW t, Steady(t), NEW ref \in AllRefs, Holds(t, ref), NEW near,
         NEW v, v = Remove(t, ref, At(t, ref), near)
  PROVE  /\ Steady(v) /\ ref \in Refs /\ Find(v, ref) = Dead
         /\ \A r \in AllRefs \ {ref} : Find(v, r) = Find(t, r)
         /\ ref \notin Kept(v)
<1>1. Sound(t) /\ ref \in Kept(t) /\ ref \in Refs
  BY SteadyKeeps DEF Steady, Holds
<1>2. /\ Sound(v) /\ Kept(v) = Kept(t) \ {ref}
      /\ Find(v, ref) = Dead
      /\ \A r \in AllRefs \ {ref} : Find(v, r) = Find(t, r)
  BY ONLY <1>1, v = Remove(t, ref, At(t, ref), near), Removing
<1>3. Steady(v)
  BY ONLY Steady(t), <1>2, SteadyKept
<1>4. ref \notin Kept(v)
  BY <1>2 DEF Kept
<1>5. QED
  BY <1>1, <1>2, <1>3, <1>4

\* A delete or an execution of the last shares empties its reference only.
LEMMA DeleteServed ==
  ASSUME Steady(store), NEW ref \in AllRefs, NEW near, OnDelete(ref, near)
  PROVE  /\ Steady(store') /\ ref \in Refs
         /\ Find(store, ref) # Dead /\ Find(store', ref) = Dead
         /\ \A r \in AllRefs \ {ref} : Find(store', r) = Find(store, r)
<1>1. Holds(store, ref) /\ store' = Remove(store, ref, At(store, ref), near)
  BY DEF OnDelete
<1>2. /\ Steady(store') /\ ref \in Refs /\ Find(store', ref) = Dead
      /\ \A r \in AllRefs \ {ref} : Find(store', r) = Find(store, r)
  BY ONLY <1>1, Steady(store), ref \in AllRefs, RemoveServed
<1>3. QED
  BY <1>1, <1>2 DEF Holds

\* A replace empties the old reference and whatever rested under the new one, and puts
\* the new order there unless the manager refuses it.
LEMMA ReplaceServed ==
  ASSUME Steady(store), NEW old \in AllRefs, NEW new \in AllRefs,
         NEW o, o = Dead \/ (o \in Orders /\ new \in Refs), NEW near,
         OnReplace(old, new, o, near)
  PROVE  /\ Steady(store') /\ old \in Refs /\ Find(store, old) # Dead
         /\ new # old => Find(store', old) = Dead
         /\ Find(store', new) = o
         /\ \A r \in AllRefs \ {old, new} : Find(store', r) = Find(store, r)
<1> DEFINE dup == new # old /\ Holds(store, new)
           t   == IF dup THEN Remove(store, new, At(store, new), near) ELSE store
           u   == Remove(t, old, At(t, old), near)
           v   == Touch(u, new)
<1>1. Holds(store, old)
  BY DEF OnReplace
<1>2. store' = IF o = Dead THEN u ELSE Add(v, new, At(v, new), o, near)
  <2>1. CASE dup
    BY <2>1 DEF OnReplace
  <2>2. CASE ~ dup
    BY <2>2 DEF OnReplace
  <2>3. QED
    BY <2>1, <2>2
<1>3. /\ Steady(t)
      /\ new # old => Find(t, new) = Dead
      /\ \A r \in AllRefs \ {new} : Find(t, r) = Find(store, r)
      /\ Find(t, old) = Find(store, old)
  <2>1. CASE dup
    <3>1. Holds(store, new) /\ t = Remove(store, new, At(store, new), near)
      BY <2>1
    <3> HIDE DEF t
    <3>2. /\ Steady(t) /\ Find(t, new) = Dead
          /\ \A r \in AllRefs \ {new} : Find(t, r) = Find(store, r)
      BY ONLY <3>1, Steady(store), new \in AllRefs, RemoveServed
    <3>3. QED
      BY <2>1, <3>2
  <2>2. CASE ~ dup
    BY <2>2 DEF Holds
  <2>3. QED
    BY <2>1, <2>2
<1>4. u = Remove(t, old, At(t, old), near) /\ v = Touch(u, new)
  OBVIOUS
<1> HIDE DEF dup, t, u, v
<1>5. Steady(t) /\ Holds(t, old) /\ u = Remove(t, old, At(t, old), near)
  BY <1>1, <1>3, <1>4 DEF Holds
<1>6. /\ Steady(u) /\ old \in Refs /\ Find(u, old) = Dead
      /\ \A r \in AllRefs \ {old} : Find(u, r) = Find(t, r)
  BY ONLY <1>5, old \in AllRefs, RemoveServed
<1>7. Find(u, new) = Dead
  <2>1. CASE new = old
    BY <1>6, <2>1
  <2>2. CASE new # old
    BY <1>3, <1>6, <2>2
  <2>3. QED
    BY <2>1, <2>2
<1>8. CASE o = Dead
  BY <1>1, <1>2, <1>3, <1>6, <1>7, <1>8 DEF Holds
<1>9. CASE o \in Orders /\ new \in Refs
  <2>1. new \notin Kept(u)
    BY <1>6, <1>7, SteadyKeeps DEF Kept
  <2>2. store' = Add(v, new, At(v, new), o, near)
    BY <1>2, <1>9, CapBounds
  <2>3. Sound(u)
    BY <1>6 DEF Steady
  <2>4. /\ Sound(store') /\ Kept(store') = Kept(u) \cup {new}
        /\ Find(store', new) = o
        /\ \A r \in AllRefs \ {new} : Find(store', r) = Find(u, r)
    BY ONLY <1>4, <1>9, <2>1, <2>2, <2>3, Adding
  <2>5. Steady(store')
    BY ONLY <1>6, <1>9, <2>4, SteadyKept
  <2>6. QED
    BY <1>1, <1>3, <1>6, <2>4, <2>5 DEF Holds
<1>10. QED
  BY <1>8, <1>9

\* reserve() changes no order.
LEMMA ReserveServed ==
  ASSUME Steady(store), NEW n \in Hints, Reserve(n)
  PROVE  /\ Steady(store') /\ \A r \in AllRefs : Find(store', r) = Find(store, r)
<1>1. Sound(store) /\ store' = Reserved(store, n)
  BY DEF Steady, Reserve
<1>2. /\ Sound(store') /\ Kept(store') = Kept(store)
      /\ \A q \in AllRefs : Find(store', q) = Find(store, q)
  BY <1>1, Reserving
<1>3. Kept(store) \subseteq AllRefs
  <2>1. PICK cap \in Caps : Table(cap, store)
    BY <1>1 DEF Sound
  <2> QED BY <2>1, KeptCount DEF AllRefs
<1> QED BY <1>2, <1>3 DEF Steady

\* What a table answers to find(), by reference.
Found == [r \in AllRefs |-> Find(store, r)]

\* Every handler keeps the table steady, and is a step of the map or leaves it alone.
LEMMA StepServed ==
  ASSUME Steady(store), [Next]_store
  PROVE  Steady(store') /\ (Map!Next \/ Found' = Found)
<1>1. ASSUME NEW ref \in Refs, NEW o \in Orders, NEW near, OnAdd(ref, o, near)
      PROVE  Steady(store') /\ Map!Put(ref)
  <2>1. /\ Steady(store') /\ Find(store', ref) \in Orders
        /\ \A r \in AllRefs \ {ref} : Find(store', r) = Find(store, r)
    BY ONLY Steady(store), <1>1, AddServed
  <2>2. ref \in AllRefs
    BY DEF AllRefs
  <2>3. QED
    BY <2>1, <2>2 DEF Map!Put, Map!Only, Map!AllRefs, AllRefs
<1>2. ASSUME NEW ref \in AllRefs, NEW o \in Orders, OnReduce(ref, o)
      PROVE  Steady(store') /\ ref \in Refs /\ Map!Put(ref)
  <2>1. /\ Steady(store') /\ ref \in Refs /\ Find(store', ref) \in Orders
        /\ \A r \in AllRefs \ {ref} : Find(store', r) = Find(store, r)
    BY ONLY Steady(store), <1>2, ReduceServed
  <2>2. QED
    BY <2>1 DEF Map!Put, Map!Only, Map!AllRefs, AllRefs
<1>3. ASSUME NEW ref \in AllRefs, NEW near, OnDelete(ref, near)
      PROVE  Steady(store') /\ ref \in Refs /\ Map!Drop(ref)
  <2>1. /\ Steady(store') /\ ref \in Refs
        /\ Find(store, ref) # Dead /\ Find(store', ref) = Dead
        /\ \A r \in AllRefs \ {ref} : Find(store', r) = Find(store, r)
    BY ONLY Steady(store), <1>3, DeleteServed
  <2>2. QED
    BY <2>1 DEF Map!Drop, Map!Only, Map!AllRefs, AllRefs
<1>4. ASSUME NEW old \in AllRefs, NEW new \in Refs, NEW o \in Orders, NEW near,
             OnReplace(old, new, o, near)
      PROVE  Steady(store') /\ old \in Refs /\ Map!Move(old, new)
  <2>1. new \in AllRefs /\ (o = Dead \/ (o \in Orders /\ new \in Refs))
    BY DEF AllRefs
  <2>2. /\ Steady(store') /\ old \in Refs /\ Find(store, old) # Dead
        /\ new # old => Find(store', old) = Dead
        /\ Find(store', new) = o
        /\ \A r \in AllRefs \ {old, new} : Find(store', r) = Find(store, r)
    BY ONLY Steady(store), <1>4, <2>1, ReplaceServed
  <2>3. QED
    BY <2>1, <2>2 DEF Map!Move, Map!Only, Map!AllRefs, AllRefs
<1>5. ASSUME NEW old \in AllRefs, NEW new \in AllRefs, NEW near,
             OnReplace(old, new, Dead, near)
      PROVE  Steady(store') /\ old \in Refs /\ Map!Refuse(old, new)
  <2>1. /\ Steady(store') /\ old \in Refs /\ Find(store, old) # Dead
        /\ new # old => Find(store', old) = Dead
        /\ Find(store', new) = Dead
        /\ \A r \in AllRefs \ {old, new} : Find(store', r) = Find(store, r)
    BY ONLY Steady(store), <1>5, ReplaceServed
  <2>2. QED
    BY <2>1 DEF Map!Refuse, Map!Only, Map!AllRefs, AllRefs
<1>6. ASSUME NEW n \in Hints, Reserve(n)
      PROVE  Steady(store') /\ Found' = Found
  <2>1. Steady(store') /\ \A r \in AllRefs : Find(store', r) = Find(store, r)
    BY ONLY Steady(store), <1>6, ReserveServed
  <2>2. QED
    BY <2>1 DEF Found
<1>7. CASE UNCHANGED store
  BY <1>7 DEF Found
<1>8. QED
  BY <1>1, <1>2, <1>3, <1>4, <1>5, <1>6, <1>7 DEF Next, Beside,
        AllRefs, Map!Next, Map!AllRefs

TableInv == Steady(store)

\* A table's entries are where probe() looks for them, and its count and load are right.
LEMMA WholeTable ==
  ASSUME TableInv
  PROVE  ChainsWhole /\ LoadBounded
<1>1. PICK cap \in Caps : Table(cap, store)
  BY DEF TableInv, Steady, Sound
<1>2. /\ Cap(store) = cap /\ DOMAIN store.slots = 0 .. cap - 1 /\ cap \in Nat
      /\ store.size \in Nat
  BY <1>1, TableHas
<1>3. ASSUME NEW i \in DOMAIN store.slots, store.slots[i].ref # NilRef
      PROVE  Probe(store, store.slots[i].ref) = i
  <2>1. store.slots \in [0 .. cap - 1 -> Slot] /\ i \in 0 .. cap - 1
    BY <1>1, <1>2, <1>3 DEF Table
  <2>2. store.slots[i].ref \in Refs
    BY <1>3, <2>1 DEF Slot
  <2> QED BY <1>1, <2>1, <2>2, Probed
<1>4. {i \in DOMAIN store.slots : store.slots[i].ref # NilRef} = FullSlots(cap, store.slots)
  BY <1>2 DEF FullSlots, Full
<1>5. {r \in Refs : Holds(store, r)} = Kept(store)
  <2>1. Kept(store) \subseteq Refs
    BY <1>1, KeptCount
  <2>2. \A r \in Refs : r \in Kept(store) <=> Find(store, r) # Dead
    BY SteadyKeeps DEF TableInv, AllRefs
  <2> QED BY <2>1, <2>2 DEF Holds
<1>6. store.size = Cardinality(FullSlots(cap, store.slots)) /\ store.size = Cardinality(Kept(store))
  BY <1>1, KeptCount DEF Table
<1>7. store.size * 10 < cap * 7
  BY <1>1, <1>2 DEF Table
<1>8. ChainsWhole
  BY <1>3 DEF ChainsWhole
<1>9. LoadBounded
  BY <1>2, <1>4, <1>5, <1>6, <1>7 DEF LoadBounded, LiveOrders
<1> QED BY <1>8, <1>9

\* Between any two messages every entry of the open-addressing table is reached from its
\* home through full slots, no reference has two entries and each entry is a live order
\* (order_store.hpp, probe(), rehash() and erase()): the inductive invariant, for
\* capacities that double up to one with room for every reference.
THEOREM TableInvariant == Spec => []TableInv
<1>1. Init => TableInv
  <2> SUFFICES ASSUME Init PROVE TableInv
    OBVIOUS
  <2>1. store \in Empties
    BY DEF Init
  <2> QED BY <2>1, NewTable DEF TableInv, Steady
<1>2. TableInv /\ [Next]_store => TableInv'
  BY StepServed DEF TableInv
<1> QED BY <1>1, <1>2, PTL DEF Spec

\* No deletion and no growth leaves an empty slot between an entry and its home, so
\* find() never misses an order that rests (order_store.hpp, erase()).
THEOREM ChainsWholeHolds == Spec => []ChainsWhole
<1>1. TableInv => ChainsWhole
  BY WholeTable
<1> QED BY <1>1, TableInvariant, PTL

\* The table stays below its load limit and size_ counts its live orders, so that every
\* probe ends (order_store.hpp, touch()).
THEOREM LoadBoundedHolds == Spec => []LoadBounded
<1>1. TableInv => LoadBounded
  BY WholeTable
<1> QED BY <1>1, TableInvariant, PTL

\* The open-addressing store under the book's handlers is a map from references to
\* orders, whatever the hash (order_store.hpp, FlatHashOrderStore).
THEOREM ImplementsMapHolds == Spec => ImplementsMap
<1>1. Init => Map!Init
  <2> SUFFICES ASSUME Init PROVE Map!Init
    OBVIOUS
  <2>1. store \in Empties
    BY DEF Init
  <2>2. \A q \in AllRefs : Find(store, q) = Dead
    BY <2>1, NewTable
  <2> QED BY <2>2 DEF Map!Init, Map!AllRefs, AllRefs
<1>2. TableInv /\ [Next]_store
        => [Map!Next]_([r \in AllRefs |-> Find(store, r)])
  BY StepServed DEF TableInv, Found, AllRefs
<1> QED
  BY <1>1, <1>2, TableInvariant, PTL DEF Spec, ImplementsMap, Map!Spec
===============================================================================
