------------------------------ MODULE StoreProofs ------------------------------
(***************************************************************************)
(* What the order stores other than the open-addressing one guarantee      *)
(* their clients, proved for every set of references, page size and        *)
(* order: that the default store is a map whatever moves inside it, that   *)
(* a handle is never in two places and never lost, that a page is there    *)
(* exactly while an order is on it; and that the store with the orders in  *)
(* its pages and the one over std::unordered_map find and count the same   *)
(* under the same messages.                                                *)
(***************************************************************************)
EXTENDS PagedStores, FiniteSetTheorems, SequenceTheorems, WellFoundedInduction, TLAPS

Stores ==
  [pages : [PageNumbers -> PageRecords \cup {NoPage}], spare : Nat,
   pool : Seq(Orders \cup {Dead}), free : Seq(Nat)]

\* The references with a handle, dead or alive.
Held(t) == {r \in AllRefs : HandleOf(t, r) # Nil}

On(refs, p)       == {r \in refs : PageOf(r) = p}
OnPages(refs, ps) == {r \in refs : PageOf(r) \in ps}

\* The function that live_orders() folds the counts of pages with.
Folded(u, ps, g) ==
  g = [s \in SUBSET ps |-> IF s = {} THEN 0
                           ELSE u.pages[CHOOSE x \in s : TRUE].live
                                  + g[s \ {CHOOSE x \in s : TRUE}]]

\* The counts of the resident pages, and what they and the number of pages that wait
\* become when a page is touched, and when an order on it lives and dies.
Lives(t) == [p \in Resident(t) |-> t.pages[p].live]

Touched(f, p)      == [q \in DOMAIN f \cup {p} |-> IF q \in DOMAIN f THEN f[q] ELSE 0]
Waiting(f, p, n)   == IF p \in DOMAIN f \/ n = 0 THEN n ELSE n - 1
More(f, p)         == [f EXCEPT ![p] = @ + 1]
Less(f, p)         == IF f[p] = 1 THEN [q \in DOMAIN f \ {p} |-> f[q]]
                                  ELSE [f EXCEPT ![p] = @ - 1]
Returned(f, p, n)  == IF f[p] = 1 THEN n + 1 ELSE n

\* Every handle is under one reference or on the freelist, once.
Handed(t) ==
  /\ \A r \in AllRefs : HandleOf(t, r) \in 0 .. Len(t.pool)
  /\ \A r, s \in Held(t) : HandleOf(t, r) = HandleOf(t, s) => r = s
  /\ \A i \in DOMAIN t.free : t.free[i] \in 1 .. Len(t.pool)
  /\ \A i, j \in DOMAIN t.free : t.free[i] = t.free[j] => i = j
  /\ \A r \in AllRefs, i \in DOMAIN t.free : HandleOf(t, r) # t.free[i]
  /\ \A h \in 1 .. Len(t.pool) :
       (\E r \in AllRefs : HandleOf(t, r) = h) \/ (\E i \in DOMAIN t.free : t.free[i] = h)

\* A page counts those of the references counted that are on it, and every page
\* there has a reference.
Counted(t, counted) ==
  /\ counted \subseteq Held(t) /\ Held(t) \subseteq Refs
  /\ \A p \in Resident(t) : /\ t.pages[p].live = Cardinality(On(counted, p))
                            /\ On(Held(t), p) # {}

Sound(t, counted) == t \in Stores /\ Handed(t) /\ Counted(t, counted)

\* Between two messages every handle held is of a live order, and counted.
Steady(t) == Sound(t, Held(t)) /\ \A r \in Held(t) : Find(t, r) \in Orders

-----------------------------------------------------------------------------
(* References and pages.                                                   *)

\* A reference's page and slot are in range, and tell it from every other.
LEMMA Placing ==
  ASSUME NEW r \in AllRefs
  PROVE  /\ PageOf(r) \in PageNumbers /\ SlotOf(r) \in 0 .. PageSize - 1
         /\ \A s \in AllRefs : PageOf(r) = PageOf(s) /\ SlotOf(r) = SlotOf(s) => r = s
<1>1. r \in Nat
  BY PageAssumption DEF AllRefs
<1>2. PageOf(r) \in PageNumbers
  BY DEF PageNumbers, AllRefs
<1>3. SlotOf(r) \in 0 .. PageSize - 1
  BY <1>1, PageAssumption DEF SlotOf
<1>4. ASSUME NEW s \in AllRefs, PageOf(r) = PageOf(s), SlotOf(r) = SlotOf(s) PROVE r = s
  <2>1. s \in Nat
    BY PageAssumption DEF AllRefs
  <2>2. QED
    BY <1>1, <2>1, <1>4, PageAssumption DEF PageOf, SlotOf
<1>5. QED
  BY <1>2, <1>3, <1>4

\* A page put in its place touches nothing else.
LEMMA PageIn ==
  ASSUME NEW t \in Stores, NEW p \in PageNumbers, NEW page \in PageRecords \cup {NoPage},
         NEW u, u = WithPage(t, p, page)
  PROVE  /\ u \in Stores /\ u.pool = t.pool /\ u.free = t.free /\ u.spare = t.spare
         /\ u.pages = [t.pages EXCEPT ![p] = page]
<1>1. /\ u.pool = t.pool /\ u.free = t.free /\ u.spare = t.spare
      /\ u.pages = [t.pages EXCEPT ![p] = page]
  BY DEF WithPage, Stores
<1>2. u = [pages |-> u.pages, spare |-> u.spare, pool |-> u.pool, free |-> u.free]
  BY DEF WithPage, Stores
<1>3. u.pages \in [PageNumbers -> PageRecords \cup {NoPage}]
  BY <1>1 DEF Stores
<1>4. u \in Stores
  BY <1>1, <1>2, <1>3 DEF Stores
<1>5. QED
  BY <1>1, <1>4

\* The page of a store is a page or none, and of a resident one a page.
LEMMA ThePage ==
  ASSUME NEW t \in Stores, NEW p \in PageNumbers
  PROVE  /\ t.pages \in [PageNumbers -> PageRecords \cup {NoPage}]
         /\ p \in Resident(t) <=> t.pages[p] # NoPage
         /\ p \in Resident(t) => t.pages[p] \in PageRecords
BY DEF Stores, Resident

\* A handle put in its slot touches no other slot, no count and nothing else.
LEMMA HandleIn ==
  ASSUME NEW t \in Stores, NEW ref \in AllRefs, PageOf(ref) \in Resident(t), NEW h \in Nat,
         NEW u, u = WithHandle(t, ref, h)
  PROVE  /\ u \in Stores /\ u.pool = t.pool /\ u.free = t.free /\ u.spare = t.spare
         /\ Resident(u) = Resident(t)
         /\ \A p \in Resident(t) : u.pages[p].live = t.pages[p].live
         /\ HandleOf(u, ref) = h
         /\ \A r \in AllRefs \ {ref} : HandleOf(u, r) = HandleOf(t, r)
<1> DEFINE pn   == PageOf(ref)
           old  == t.pages[pn]
           page == [old EXCEPT !.slots[SlotOf(ref)] = h]
<1>1. /\ pn \in PageNumbers /\ SlotOf(ref) \in 0 .. PageSize - 1
      /\ old \in PageRecords /\ old # NoPage
      /\ t.pages \in [PageNumbers -> PageRecords \cup {NoPage}]
  BY Placing, ThePage
<1>2. /\ page.live = old.live /\ page.slots = [old.slots EXCEPT ![SlotOf(ref)] = h]
      /\ page \in PageRecords
  <2>1. page.live = old.live /\ page.slots = [old.slots EXCEPT ![SlotOf(ref)] = h]
    BY <1>1 DEF PageRecords
  <2>2. page = [slots |-> page.slots, live |-> page.live]
    BY <1>1 DEF PageRecords
  <2>3. page.slots \in [0 .. PageSize - 1 -> Nat] /\ page.live \in Nat
    BY <1>1, <2>1 DEF PageRecords
  <2>4. QED
    BY <2>1, <2>2, <2>3 DEF PageRecords
<1>3. page # NoPage
  BY <1>2, NoPageAssumption
<1>4. u = WithPage(t, pn, page)
  BY DEF WithHandle
<1> HIDE DEF page
<1>5. /\ u \in Stores /\ u.pool = t.pool /\ u.free = t.free /\ u.spare = t.spare
      /\ u.pages = [t.pages EXCEPT ![pn] = page]
  BY ONLY <1>1, <1>2, <1>4, PageIn
<1>6. /\ u.pages[pn] = page
      /\ \A p \in PageNumbers \ {pn} : u.pages[p] = t.pages[p]
  BY <1>1, <1>5
<1>7. Resident(u) = Resident(t)
  BY <1>1, <1>3, <1>6 DEF Resident
<1>8. ASSUME NEW p \in Resident(t) PROVE u.pages[p].live = t.pages[p].live
  BY <1>1, <1>2, <1>6 DEF Resident
<1>9. HandleOf(u, ref) = h
  BY <1>1, <1>2, <1>6, <1>7 DEF HandleOf, PageRecords
<1>10. ASSUME NEW r \in AllRefs \ {ref} PROVE HandleOf(u, r) = HandleOf(t, r)
  <2>1. PageOf(r) \in PageNumbers /\ SlotOf(r) \in 0 .. PageSize - 1
    BY Placing
  <2>2. CASE PageOf(r) = pn
    <3>1. SlotOf(r) # SlotOf(ref)
      BY <2>2, Placing
    <3>2. page.slots[SlotOf(r)] = old.slots[SlotOf(r)]
      BY <1>1, <1>2, <2>1, <3>1 DEF PageRecords
    <3>3. QED
      BY <1>6, <1>7, <2>2, <3>2 DEF HandleOf
  <2>3. CASE PageOf(r) # pn
    BY <1>6, <1>7, <2>1, <2>3 DEF HandleOf
  <2>4. QED
    BY <2>2, <2>3
<1>11. QED
  BY <1>5, <1>7, <1>8, <1>9, <1>10

\* A count put on its page touches no slot, no other count and nothing else.
LEMMA LiveIn ==
  ASSUME NEW t \in Stores, NEW pn \in Resident(t), NEW n \in Nat,
         NEW u, u = WithLive(t, pn, n)
  PROVE  /\ u \in Stores /\ u.pool = t.pool /\ u.free = t.free /\ u.spare = t.spare
         /\ Resident(u) = Resident(t)
         /\ u.pages[pn].live = n
         /\ \A p \in Resident(t) \ {pn} : u.pages[p].live = t.pages[p].live
         /\ \A r \in AllRefs : HandleOf(u, r) = HandleOf(t, r)
<1> DEFINE old  == t.pages[pn]
           page == [old EXCEPT !.live = n]
<1>1. /\ pn \in PageNumbers /\ old \in PageRecords /\ old # NoPage
      /\ t.pages \in [PageNumbers -> PageRecords \cup {NoPage}]
  <2>1. pn \in PageNumbers
    BY DEF Resident
  <2>2. QED
    BY <2>1, ThePage
<1>2. page.live = n /\ page.slots = old.slots /\ page \in PageRecords
  BY <1>1 DEF PageRecords
<1>3. page # NoPage
  BY <1>2, NoPageAssumption
<1>4. u = WithPage(t, pn, page)
  BY DEF WithLive
<1> HIDE DEF page
<1>5. /\ u \in Stores /\ u.pool = t.pool /\ u.free = t.free /\ u.spare = t.spare
      /\ u.pages = [t.pages EXCEPT ![pn] = page]
  BY ONLY <1>1, <1>2, <1>4, PageIn
<1>6. /\ u.pages[pn] = page
      /\ \A p \in PageNumbers \ {pn} : u.pages[p] = t.pages[p]
  BY <1>1, <1>5
<1>7. Resident(u) = Resident(t)
  BY <1>1, <1>3, <1>6 DEF Resident
<1>8. u.pages[pn].live = n /\ \A p \in Resident(t) \ {pn} : u.pages[p].live = t.pages[p].live
  BY <1>2, <1>6 DEF Resident
<1>9. ASSUME NEW r \in AllRefs PROVE HandleOf(u, r) = HandleOf(t, r)
  <2>1. PageOf(r) \in PageNumbers
    BY Placing
  <2>2. QED
    BY <1>2, <1>6, <1>7, <2>1 DEF HandleOf
<1>10. QED
  BY <1>5, <1>7, <1>8, <1>9

\* A page taken is empty: no reference has a handle it had not.
LEMMA PageTaken ==
  ASSUME NEW t \in Stores, NEW pn \in PageNumbers \ Resident(t),
         NEW u, u = TakePage(t, pn)
  PROVE  /\ u \in Stores /\ u.pool = t.pool /\ u.free = t.free
         /\ Resident(u) = Resident(t) \cup {pn}
         /\ u.pages[pn].live = 0 /\ u.spare = IF t.spare = 0 THEN 0 ELSE t.spare - 1
         /\ \A p \in Resident(t) : u.pages[p] = t.pages[p]
         /\ \A r \in AllRefs : HandleOf(u, r) = HandleOf(t, r)
<1> DEFINE w == WithPage(t, pn, FreshPage)
<1>1. FreshPage \in PageRecords /\ FreshPage.live = 0
      /\ \A i \in 0 .. PageSize - 1 : FreshPage.slots[i] = Nil
  BY DEF FreshPage, PageRecords, Nil
<1>2. FreshPage # NoPage
  BY <1>1, NoPageAssumption
<1>3. /\ w \in Stores /\ w.pool = t.pool /\ w.free = t.free /\ w.spare = t.spare
      /\ w.pages = [t.pages EXCEPT ![pn] = FreshPage]
  <2> HIDE DEF w
  <2>1. w = WithPage(t, pn, FreshPage)
    BY DEF w
  <2>2. QED
    BY <1>1, <2>1, PageIn
<1>4. u = [w EXCEPT !.spare = IF w.spare = 0 THEN 0 ELSE w.spare - 1]
  BY DEF TakePage
<1> HIDE DEF w
<1>5. /\ u \in Stores /\ u.pool = w.pool /\ u.free = w.free /\ u.pages = w.pages
      /\ u.spare = IF w.spare = 0 THEN 0 ELSE w.spare - 1
  <2> DEFINE left == IF w.spare = 0 THEN 0 ELSE w.spare - 1
  <2>1. left \in Nat
    BY <1>3 DEF Stores
  <2>2. u = [w EXCEPT !.spare = left]
    BY <1>4
  <2> HIDE DEF left
  <2>3. u \in Stores /\ u.pool = w.pool /\ u.free = w.free /\ u.pages = w.pages /\ u.spare = left
    BY <1>3, <2>1, <2>2 DEF Stores
  <2>4. QED
    BY <2>3 DEF left
<1>6. t.pages \in [PageNumbers -> PageRecords \cup {NoPage}] /\ t.pages[pn] = NoPage
  BY ThePage
<1>7. /\ u.pages[pn] = FreshPage
      /\ \A p \in PageNumbers \ {pn} : u.pages[p] = t.pages[p]
  BY <1>3, <1>5, <1>6
<1>8. Resident(u) = Resident(t) \cup {pn}
  BY <1>2, <1>7 DEF Resident
<1>9. \A p \in Resident(t) : u.pages[p] = t.pages[p]
  BY <1>6, <1>7 DEF Resident
<1>10. ASSUME NEW r \in AllRefs PROVE HandleOf(u, r) = HandleOf(t, r)
  <2>1. PageOf(r) \in PageNumbers /\ SlotOf(r) \in 0 .. PageSize - 1
    BY Placing
  <2>2. CASE PageOf(r) = pn
    <3>1. HandleOf(u, r) = Nil
      BY <1>1, <1>7, <1>8, <2>1, <2>2 DEF HandleOf
    <3>2. HandleOf(t, r) = Nil
      BY <2>2 DEF HandleOf
    <3>3. QED
      BY <3>1, <3>2
  <2>3. CASE PageOf(r) # pn
    BY <1>7, <1>8, <2>1, <2>3 DEF HandleOf
  <2>4. QED
    BY <2>2, <2>3
<1>11. QED
  BY <1>1, <1>3, <1>5, <1>7, <1>8, <1>9, <1>10

-----------------------------------------------------------------------------
(* Handles and orders.                                                     *)

\* An order written behind a handle is the only thing that changes.
LEMMA OrderIn ==
  ASSUME NEW t \in Stores, NEW h \in 1 .. Len(t.pool), NEW o \in Orders \cup {Dead},
         NEW u, u = Write(t, h, o)
  PROVE  /\ u \in Stores /\ u.pages = t.pages /\ u.free = t.free /\ u.spare = t.spare
         /\ Len(u.pool) = Len(t.pool)
         /\ u.pool[h] = o
         /\ \A k \in 1 .. Len(t.pool) \ {h} : u.pool[k] = t.pool[k]
<1>1. t.pool \in Seq(Orders \cup {Dead})
  BY DEF Stores
<1>2. /\ u.pages = t.pages /\ u.free = t.free /\ u.spare = t.spare
      /\ u.pool = [t.pool EXCEPT ![h] = o]
  BY DEF Write, Stores
<1>3. u = [pages |-> u.pages, spare |-> u.spare, pool |-> u.pool, free |-> u.free]
  BY DEF Write, Stores
<1>4. u.pool \in Seq(Orders \cup {Dead}) /\ Len(u.pool) = Len(t.pool)
  BY <1>1, <1>2, ExceptSeq
<1>5. u.pool[h] = o /\ \A k \in 1 .. Len(t.pool) \ {h} : u.pool[k] = t.pool[k]
  BY <1>1, <1>2
<1>6. u \in Stores
  BY <1>2, <1>3, <1>4 DEF Stores
<1>7. QED
  BY <1>2, <1>4, <1>5, <1>6

\* h is taken from t, which leaves u: it is nobody's, of a dead order, and off the
\* freelist, and every other handle is where it was.
Taken(t, h, u) ==
  /\ u \in Stores /\ u.pages = t.pages /\ u.spare = t.spare
  /\ h \in 1 .. Len(u.pool) /\ u.pool[h] = Dead
  /\ \A k \in 1 .. Len(t.pool) : k \in 1 .. Len(u.pool)
  /\ \A k \in 1 .. Len(u.pool) \ {h} : k \in 1 .. Len(t.pool) /\ u.pool[k] = t.pool[k]
  /\ \A r \in AllRefs : HandleOf(t, r) # h
  /\ \A i \in DOMAIN u.free : i \in DOMAIN t.free /\ u.free[i] = t.free[i] /\ u.free[i] # h
  /\ \A i \in DOMAIN t.free : i \in DOMAIN u.free \/ t.free[i] = h

\* So is the handle touch() takes.
LEMMA HandleTaken ==
  ASSUME NEW t \in Stores, Handed(t),
         NEW h, h = TakeHandle(t).h, NEW u, u = TakeHandle(t).store
  PROVE  Taken(t, h, u)
<1>1. t.pool \in Seq(Orders \cup {Dead}) /\ t.free \in Seq(Nat)
  BY DEF Stores
<1>2. CASE t.free = <<>>
  <2>1. h = Len(t.pool) + 1 /\ u = [t EXCEPT !.pool = Append(t.pool, Dead)]
    BY <1>2 DEF TakeHandle
  <2> DEFINE grown == Append(t.pool, Dead)
  <2>2. /\ grown \in Seq(Orders \cup {Dead}) /\ Len(grown) = Len(t.pool) + 1
        /\ grown[Len(t.pool) + 1] = Dead
        /\ \A k \in 1 .. Len(t.pool) : grown[k] = t.pool[k]
    BY <1>1, AppendProperties
  <2> HIDE DEF grown
  <2>3. /\ u \in Stores /\ u.pages = t.pages /\ u.pool = grown /\ u.free = t.free
        /\ u.spare = t.spare
    BY <2>1, <2>2 DEF Stores, grown
  <2>4. DOMAIN t.free = {}
    BY <1>2
  <2>5. Len(t.pool) \in Nat
    BY <1>1
  <2>6. \A r \in AllRefs : HandleOf(t, r) # h
    BY <2>1, <2>5 DEF Handed
  <2>7. QED
    BY <2>1, <2>2, <2>3, <2>4, <2>5, <2>6 DEF Taken
<1>3. CASE t.free # <<>>
  <2> DEFINE n    == Len(t.free)
             w    == Write(t, h, Dead)
             left == SubSeq(t.free, 1, n - 1)
  <2>1. n \in Nat \ {0} /\ DOMAIN t.free = 1 .. n
    BY <1>1, <1>3, EmptySeq, LenProperties
  <2>2. h = t.free[n] /\ u = [w EXCEPT !.free = Sq!Front(w.free)]
    BY <1>3 DEF TakeHandle, Sq!Last
  <2>3. h \in 1 .. Len(t.pool) /\ \A r \in AllRefs : HandleOf(t, r) # h
    BY <2>1, <2>2 DEF Handed
  <2>4. /\ w \in Stores /\ w.pages = t.pages /\ w.free = t.free /\ w.spare = t.spare
        /\ Len(w.pool) = Len(t.pool) /\ w.pool[h] = Dead
        /\ \A k \in 1 .. Len(t.pool) \ {h} : w.pool[k] = t.pool[k]
    BY <2>3, OrderIn
  <2> HIDE DEF w
  <2>5. /\ left \in Seq(Nat) /\ Len(left) = n - 1 /\ DOMAIN left = 1 .. n - 1
        /\ \A i \in 1 .. n - 1 : left[i] = t.free[i]
    BY <1>1, <2>1, SubSeqProperties
  <2>6. u = [w EXCEPT !.free = left]
    BY <2>2, <2>4 DEF Sq!Front
  <2> HIDE DEF left
  <2>7. /\ u \in Stores /\ u.pages = w.pages /\ u.pool = w.pool /\ u.free = left
        /\ u.spare = w.spare
    BY <2>4, <2>5, <2>6 DEF Stores
  <2>8. ASSUME NEW i \in DOMAIN u.free
        PROVE  i \in DOMAIN t.free /\ u.free[i] = t.free[i] /\ u.free[i] # h
    <3>1. i \in 1 .. n - 1
      BY <2>5, <2>7
    <3>2. i \in DOMAIN t.free /\ n \in DOMAIN t.free /\ i # n
      BY <2>1, <3>1
    <3>3. t.free[i] # t.free[n]
      BY <3>2 DEF Handed
    <3>4. QED
      BY <2>2, <2>5, <2>7, <3>1, <3>2, <3>3
  <2>9. ASSUME NEW i \in DOMAIN t.free PROVE i \in DOMAIN u.free \/ t.free[i] = h
    BY <2>1, <2>2, <2>5, <2>7
  <2>10. QED
    BY <2>3, <2>4, <2>7, <2>8, <2>9 DEF Taken
<1>4. QED
  BY <1>2, <1>3

\* Stores with as many orders, the same handles and the same freelist hand their
\* handles out alike.
LEMMA HandedAlike ==
  ASSUME NEW t, NEW u, Handed(t), Len(u.pool) = Len(t.pool), u.free = t.free,
         \A r \in AllRefs : HandleOf(u, r) = HandleOf(t, r)
  PROVE  /\ Handed(u) /\ Held(u) = Held(t)
         /\ u.pool = t.pool => \A r \in AllRefs : Find(u, r) = Find(t, r)
<1>1. Held(u) = Held(t)
  BY DEF Held
<1>2. u.pool = t.pool => \A r \in AllRefs : Find(u, r) = Find(t, r)
  BY DEF Find
<1>3. Handed(u)
  BY <1>1 DEF Handed, Held
<1>4. QED
  BY <1>1, <1>2, <1>3

-----------------------------------------------------------------------------
(* The member functions.                                                   *)

\* The references on a page are as many as a number says.
LEMMA CountOn ==
  ASSUME NEW c, c \subseteq Refs, NEW p
  PROVE  IsFiniteSet(On(c, p)) /\ Cardinality(On(c, p)) \in Nat
<1>1. On(c, p) \subseteq Refs
  BY DEF On
<1>2. IsFiniteSet(On(c, p))
  BY <1>1, PageAssumption, FS_Subset
<1>3. QED
  BY <1>2, FS_CardinalityType

\* A reference with a handle is on a resident page, and touching it does nothing.
LEMMA TouchHeld ==
  ASSUME NEW t, NEW ref, HandleOf(t, ref) # Nil
  PROVE  PageOf(ref) \in Resident(t) /\ Touch(t, ref) = t
<1>1. PageOf(ref) \in Resident(t)
  BY DEF HandleOf
<1>2. QED
  BY <1>1 DEF Touch

\* touch() of a reference with no order gives it a dead one of its own.
LEMMA TouchNew ==
  ASSUME NEW t, NEW c, Sound(t, c), NEW ref \in Refs, HandleOf(t, ref) = Nil,
         NEW v, v = Touch(t, ref)
  PROVE  /\ Sound(v, c) /\ Held(v) = Held(t) \cup {ref} /\ ref \notin c
         /\ Find(v, ref) = Dead
         /\ \A r \in AllRefs : Find(v, r) = Find(t, r)
         /\ Lives(v) = Touched(Lives(t), PageOf(ref))
         /\ v.spare = Waiting(Lives(t), PageOf(ref), t.spare)
<1> DEFINE pn   == PageOf(ref)
           u    == IF pn \in Resident(t) THEN t ELSE TakePage(t, pn)
           took == TakeHandle(u)
           w    == took.store
           h    == took.h
<1>1. t \in Stores /\ Handed(t) /\ Counted(t, c) /\ ref \in AllRefs
  BY DEF Sound, AllRefs
<1>2. pn \in PageNumbers /\ ref \notin c
  BY <1>1, Placing DEF Counted, Held
<1>3. /\ u \in Stores /\ u.pool = t.pool /\ u.free = t.free
      /\ Resident(u) = Resident(t) \cup {pn}
      /\ \A r \in AllRefs : HandleOf(u, r) = HandleOf(t, r)
  BY <1>1, <1>2, PageTaken
<1>4. \A p \in Resident(u) : u.pages[p].live = Cardinality(On(c, p))
  <2>1. CASE pn \in Resident(t)
    BY <1>1, <2>1 DEF Counted
  <2>2. CASE pn \notin Resident(t)
    <3>1. u.pages[pn].live = 0 /\ \A p \in Resident(t) : u.pages[p] = t.pages[p]
      BY <1>1, <1>2, <2>2, PageTaken
    <3>2. On(c, pn) = {}
      BY <1>1, <2>2 DEF On, Counted, Held, HandleOf
    <3>3. Cardinality(On(c, pn)) = 0
      BY <3>2, FS_EmptySet
    <3>4. \A p \in Resident(t) : u.pages[p].live = Cardinality(On(c, p))
      BY <1>1, <3>1 DEF Counted
    <3>5. QED
      BY <1>3, <3>1, <3>3, <3>4
  <2>3. QED
    BY <2>1, <2>2
<1>5. v = WithHandle(w, ref, h)
  <2>1. HandleOf(u, ref) = Nil
    BY <1>1, <1>3
  <2>2. QED
    BY <2>1 DEF Touch
<1>a. /\ \A p \in Resident(t) : u.pages[p].live = t.pages[p].live
      /\ pn \in Resident(t) => u.spare = t.spare
      /\ pn \notin Resident(t) => /\ u.pages[pn].live = 0
                                 /\ u.spare = IF t.spare = 0 THEN 0 ELSE t.spare - 1
  BY <1>1, <1>2, PageTaken
<1> HIDE DEF u
<1>b. Lives(u) = Touched(Lives(t), pn) /\ u.spare = Waiting(Lives(t), pn, t.spare)
  BY <1>3, <1>a DEF Lives, Touched, Waiting
<1>6. Handed(u) /\ Held(u) = Held(t) /\ \A r \in AllRefs : Find(u, r) = Find(t, r)
  BY ONLY <1>1, <1>3, HandedAlike
<1>7. /\ w \in Stores /\ w.pages = u.pages /\ w.spare = u.spare
      /\ h \in 1 .. Len(w.pool) /\ w.pool[h] = Dead
      /\ \A k \in 1 .. Len(u.pool) : k \in 1 .. Len(w.pool)
      /\ \A k \in 1 .. Len(w.pool) \ {h} : k \in 1 .. Len(u.pool) /\ w.pool[k] = u.pool[k]
      /\ \A r \in AllRefs : HandleOf(u, r) # h
      /\ \A i \in DOMAIN w.free : /\ i \in DOMAIN u.free
                                  /\ w.free[i] = u.free[i] /\ w.free[i] # h
      /\ \A i \in DOMAIN u.free : i \in DOMAIN w.free \/ u.free[i] = h
  <2>1. h = TakeHandle(u).h /\ w = TakeHandle(u).store
    OBVIOUS
  <2> HIDE DEF w, h
  <2>2. Taken(u, h, w)
    BY ONLY <1>3, <1>6, <2>1, HandleTaken
  <2>3. QED
    BY <2>2 DEF Taken
<1> HIDE DEF w, h
<1>8. Resident(w) = Resident(u) /\ \A r \in AllRefs : HandleOf(w, r) = HandleOf(u, r)
  BY <1>7 DEF Resident, HandleOf
<1>9. h \in Nat /\ h # Nil /\ Len(w.pool) \in Nat
  BY <1>7 DEF Nil, Stores
<1>10. /\ v \in Stores /\ v.pool = w.pool /\ v.free = w.free /\ v.spare = w.spare
       /\ Resident(v) = Resident(w)
       /\ \A p \in Resident(w) : v.pages[p].live = w.pages[p].live
       /\ HandleOf(v, ref) = h
       /\ \A r \in AllRefs \ {ref} : HandleOf(v, r) = HandleOf(w, r)
  <2>1. PageOf(ref) \in Resident(w)
    BY <1>3, <1>8
  <2>2. QED
    BY ONLY <1>1, <1>5, <1>7, <1>9, <2>1, HandleIn
<1>11. \A r \in AllRefs \ {ref} : HandleOf(v, r) = HandleOf(t, r) /\ HandleOf(v, r) # h
  BY <1>3, <1>7, <1>8, <1>10
<1>12. Held(v) = Held(t) \cup {ref}
  BY <1>1, <1>9, <1>10, <1>11 DEF Held
<1>13. \A r \in AllRefs : Find(v, r) = Find(t, r)
  <2>1. Find(v, ref) = Dead /\ Find(t, ref) = Dead
    BY <1>7, <1>9, <1>10 DEF Find
  <2>2. ASSUME NEW r \in AllRefs \ {ref} PROVE Find(v, r) = Find(t, r)
    <3>1. CASE HandleOf(t, r) = Nil
      BY <1>11, <3>1 DEF Find
    <3>2. CASE HandleOf(t, r) # Nil
      <4>1. HandleOf(t, r) \in 0 .. Len(t.pool) /\ Len(t.pool) \in Nat
        BY <1>1 DEF Handed, Stores
      <4>2. HandleOf(t, r) \in 1 .. Len(u.pool)
        BY <1>3, <3>2, <4>1 DEF Nil
      <4>3. v.pool[HandleOf(v, r)] = t.pool[HandleOf(t, r)]
        BY <1>3, <1>7, <1>10, <1>11, <4>2
      <4>4. QED
        BY <1>11, <3>2, <4>3 DEF Find
    <3>3. QED
      BY <3>1, <3>2
  <2>3. QED
    BY <2>1, <2>2
<1>14. Find(v, ref) = Dead
  BY <1>1, <1>13 DEF Find
<1>15. Handed(v)
  <2>1. \A r \in AllRefs : HandleOf(v, r) \in 0 .. Len(v.pool)
    <3>1. ASSUME NEW r \in AllRefs \ {ref} PROVE HandleOf(v, r) \in 0 .. Len(v.pool)
      <4>1. HandleOf(u, r) \in 0 .. Len(u.pool) /\ Len(u.pool) \in Nat
        BY <1>3, <1>6 DEF Handed, Stores
      <4>2. HandleOf(v, r) = 0 \/ HandleOf(v, r) \in 1 .. Len(u.pool)
        BY <1>3, <1>11, <4>1
      <4>3. QED
        BY <1>7, <1>9, <1>10, <4>2
    <3>2. QED
      BY <1>7, <1>9, <1>10, <3>1
  <2>2. ASSUME NEW r \in Held(v), NEW s \in Held(v), HandleOf(v, r) = HandleOf(v, s)
        PROVE  r = s
    <3>1. CASE r = ref \/ s = ref
      BY <1>10, <1>11, <2>2, <3>1 DEF Held
    <3>2. CASE r # ref /\ s # ref
      BY <1>1, <1>11, <1>12, <2>2, <3>2 DEF Handed, Held
    <3>3. QED
      BY <3>1, <3>2
  <2>3. ASSUME NEW i \in DOMAIN v.free
        PROVE  /\ v.free[i] \in 1 .. Len(v.pool)
               /\ \A j \in DOMAIN v.free : v.free[i] = v.free[j] => i = j
               /\ \A r \in AllRefs : HandleOf(v, r) # v.free[i]
    <3>1. i \in DOMAIN u.free /\ v.free[i] = u.free[i] /\ v.free[i] # h
      BY <1>7, <1>10
    <3>2. v.free[i] \in 1 .. Len(v.pool)
      BY <1>6, <1>7, <1>10, <3>1 DEF Handed
    <3>3. \A j \in DOMAIN v.free : v.free[i] = v.free[j] => i = j
      BY <1>6, <1>7, <1>10, <3>1 DEF Handed
    <3>4. \A r \in AllRefs : HandleOf(v, r) # v.free[i]
      BY <1>6, <1>8, <1>10, <3>1 DEF Handed
    <3>5. QED
      BY <3>2, <3>3, <3>4
  <2>4. ASSUME NEW k \in 1 .. Len(v.pool)
        PROVE  \/ \E r \in AllRefs : HandleOf(v, r) = k
               \/ \E i \in DOMAIN v.free : v.free[i] = k
    <3>1. CASE k = h
      BY <1>1, <1>10, <3>1
    <3>2. CASE k # h
      <4>1. k \in 1 .. Len(u.pool) /\ k # Nil
        BY <1>7, <1>10, <3>2 DEF Nil
      <4>2. CASE \E r \in AllRefs : HandleOf(u, r) = k
        <5>1. PICK r \in AllRefs : HandleOf(u, r) = k
          BY <4>2
        <5>2. r # ref
          BY <1>1, <1>3, <4>1, <5>1
        <5>3. QED
          BY <1>8, <1>10, <5>1, <5>2
      <4>3. CASE \E i \in DOMAIN u.free : u.free[i] = k
        BY <1>7, <1>10, <3>2, <4>3
      <4>4. QED
        BY <1>6, <4>1, <4>2, <4>3 DEF Handed
    <3>3. QED
      BY <3>1, <3>2
  <2>5. QED
    BY <2>1, <2>2, <2>3, <2>4 DEF Handed
<1>16. Counted(v, c)
  <2>1. c \subseteq Held(v) /\ Held(v) \subseteq Refs
    BY <1>1, <1>12 DEF Counted
  <2>2. ASSUME NEW p \in Resident(v)
        PROVE  v.pages[p].live = Cardinality(On(c, p)) /\ On(Held(v), p) # {}
    <3>1. v.pages[p].live = Cardinality(On(c, p))
      BY <1>4, <1>7, <1>8, <1>10
    <3>2. CASE p = pn
      <4>1. ref \in On(Held(v), p)
        BY <1>12, <3>2 DEF On
      <4>2. QED
        BY <3>1, <4>1
    <3>3. CASE p # pn
      <4>1. p \in Resident(t)
        BY <1>3, <1>8, <1>10, <3>3
      <4>2. On(Held(t), p) # {}
        BY <1>1, <4>1 DEF Counted
      <4>3. QED
        BY <1>12, <3>1, <4>2 DEF On
    <3>4. QED
      BY <3>2, <3>3
  <2>3. QED
    BY <2>1, <2>2 DEF Counted
<1>17. Lives(v) = Lives(u) /\ v.spare = u.spare
  BY <1>7, <1>8, <1>10 DEF Lives
<1>18. QED
  BY <1>2, <1>b, <1>10, <1>12, <1>13, <1>14, <1>15, <1>16, <1>17 DEF Sound

\* Writing through a held reference changes the order of that reference alone.
LEMMA Writing ==
  ASSUME NEW t, NEW c, Sound(t, c), NEW ref \in Held(t), NEW o \in Orders \cup {Dead},
         NEW v, v = Write(t, At(t, ref), o)
  PROVE  /\ Sound(v, c) /\ Held(v) = Held(t) /\ v.free = t.free
         /\ Lives(v) = Lives(t) /\ v.spare = t.spare
         /\ Find(v, ref) = o
         /\ \A r \in AllRefs \ {ref} : Find(v, r) = Find(t, r)
<1> DEFINE h == HandleOf(t, ref)
<1>1. t \in Stores /\ Handed(t) /\ Counted(t, c)
  BY DEF Sound
<1>2. ref \in AllRefs /\ h # Nil
  BY DEF Held
<1>3. Len(t.pool) \in Nat
  BY <1>1 DEF Stores
<1>4. h \in 1 .. Len(t.pool)
  BY <1>1, <1>2, <1>3 DEF Handed, Nil
<1>5. v = Write(t, h, o)
  BY DEF At
<1>6. /\ v \in Stores /\ v.pages = t.pages /\ v.free = t.free /\ v.spare = t.spare
      /\ Len(v.pool) = Len(t.pool) /\ v.pool[h] = o
      /\ \A k \in 1 .. Len(t.pool) \ {h} : v.pool[k] = t.pool[k]
  BY ONLY <1>1, <1>4, <1>5, OrderIn
<1>7. Resident(v) = Resident(t) /\ \A r \in AllRefs : HandleOf(v, r) = HandleOf(t, r)
  BY <1>6 DEF Resident, HandleOf
<1>8. Held(v) = Held(t) /\ Handed(v)
  BY ONLY <1>1, <1>6, <1>7, HandedAlike
<1>10. Counted(v, c)
  BY <1>1, <1>6, <1>7, <1>8 DEF Counted
<1>11. Find(v, ref) = o
  BY <1>2, <1>6, <1>7 DEF Find
<1>12. ASSUME NEW r \in AllRefs \ {ref} PROVE Find(v, r) = Find(t, r)
  <2>1. CASE HandleOf(t, r) = Nil
    BY <1>7, <2>1 DEF Find
  <2>2. CASE HandleOf(t, r) # Nil
    <3>1. HandleOf(t, r) \in 1 .. Len(t.pool)
      BY <1>1, <1>3, <2>2 DEF Handed, Nil
    <3>2. HandleOf(t, r) # h
      BY <1>1, <1>2, <2>2 DEF Handed, Held
    <3>3. QED
      BY <1>6, <1>7, <2>2, <3>1, <3>2 DEF Find
  <2>3. QED
    BY <2>1, <2>2
<1>13. Lives(v) = Lives(t)
  BY <1>6, <1>7 DEF Lives
<1>14. QED
  BY <1>6, <1>8, <1>10, <1>11, <1>12, <1>13 DEF Sound

\* note_live() counts the reference on its page.
LEMMA Living ==
  ASSUME NEW t, NEW c, Sound(t, c), NEW ref \in Held(t), ref \notin c,
         NEW v, v = NoteLive(t, ref)
  PROVE  /\ Sound(v, c \cup {ref}) /\ Held(v) = Held(t)
         /\ \A r \in AllRefs : Find(v, r) = Find(t, r)
         /\ Lives(v) = More(Lives(t), PageOf(ref)) /\ v.spare = t.spare
<1> DEFINE pn == PageOf(ref)
           d  == c \cup {ref}
<1>1. t \in Stores /\ Handed(t) /\ Counted(t, c)
  BY DEF Sound
<1>2. pn \in Resident(t) /\ ref \in Refs
  BY <1>1, TouchHeld DEF Held, Counted
<1>3. t.pages[pn].live = Cardinality(On(c, pn)) /\ c \subseteq Refs
  BY <1>1, <1>2 DEF Counted
<1>4. Cardinality(On(c, pn)) \in Nat /\ IsFiniteSet(On(c, pn))
  BY <1>3, CountOn
<1> DEFINE n == t.pages[pn].live + 1
<1>5. v = WithLive(t, pn, n)
  BY DEF NoteLive
<1>6. n \in Nat
  BY <1>3, <1>4
<1> HIDE DEF pn, d, n
<1>7. /\ v \in Stores /\ v.pool = t.pool /\ v.free = t.free /\ v.spare = t.spare
      /\ Resident(v) = Resident(t)
      /\ v.pages[pn].live = n
      /\ \A p \in Resident(t) \ {pn} : v.pages[p].live = t.pages[p].live
      /\ \A r \in AllRefs : HandleOf(v, r) = HandleOf(t, r)
  BY ONLY <1>1, <1>2, <1>5, <1>6, LiveIn
<1>8. Handed(v) /\ Held(v) = Held(t) /\ \A r \in AllRefs : Find(v, r) = Find(t, r)
  BY ONLY <1>1, <1>7, HandedAlike
<1>9. Cardinality(On(d, pn)) = n
  <2>1. On(d, pn) = On(c, pn) \cup {ref} /\ ref \notin On(c, pn)
    BY DEF On, pn, d
  <2>2. Cardinality(On(c, pn) \cup {ref}) = Cardinality(On(c, pn)) + 1
    BY ONLY <1>4, <2>1, FS_AddElement
  <2>3. QED
    BY <1>3, <2>1, <2>2 DEF n
<1>10. \A p \in Resident(t) \ {pn} : On(d, p) = On(c, p)
  BY DEF On, pn, d
<1>11. Counted(v, d)
  <2>1. d \subseteq Held(v) /\ Held(v) \subseteq Refs
    BY <1>1, <1>8 DEF Counted, d
  <2>2. ASSUME NEW p \in Resident(v)
        PROVE  v.pages[p].live = Cardinality(On(d, p)) /\ On(Held(v), p) # {}
    <3>1. On(Held(v), p) # {}
      BY <1>1, <1>7, <1>8 DEF Counted
    <3>2. CASE p = pn
      BY <1>7, <1>9, <3>1, <3>2
    <3>3. CASE p # pn
      BY <1>1, <1>7, <1>10, <3>1, <3>3 DEF Counted
    <3>4. QED
      BY <3>2, <3>3
  <2>3. QED
    BY <2>1, <2>2 DEF Counted
<1>12. Lives(v) = More(Lives(t), pn)
  BY <1>2, <1>7 DEF Lives, More, n
<1>13. QED
  BY <1>7, <1>8, <1>11, <1>12 DEF Sound, d, pn

\* note_dead() gives back the handle, and the page with its last reference.
LEMMA Dying ==
  ASSUME NEW t, Sound(t, Held(t)), NEW ref \in Held(t), NEW v, v = NoteDead(t, ref)
  PROVE  /\ Sound(v, Held(v)) /\ Held(v) = Held(t) \ {ref}
         /\ Find(v, ref) = Dead
         /\ \A r \in AllRefs \ {ref} : Find(v, r) = Find(t, r)
         /\ Lives(v) = Less(Lives(t), PageOf(ref))
         /\ v.spare = Returned(Lives(t), PageOf(ref), t.spare)
         /\ t.pages[PageOf(ref)].live \in Nat \ {0}
<1> DEFINE pn    == PageOf(ref)
           h     == HandleOf(t, ref)
           c     == Held(t)
           freed == Append(t.free, h)
           u     == [t EXCEPT !.free = freed]
           n     == t.pages[pn].live
<1>1. t \in Stores /\ Handed(t) /\ Counted(t, c)
  BY DEF Sound
<1>2. ref \in AllRefs /\ h # Nil /\ pn \in Resident(t) /\ pn \in PageNumbers
  BY TouchHeld, Placing DEF Held
<1>3. c \subseteq Refs /\ n = Cardinality(On(c, pn)) /\ ref \in On(c, pn)
  BY <1>1, <1>2 DEF Counted, On
<1>4. IsFiniteSet(On(c, pn)) /\ n \in Nat
  BY <1>3, CountOn
<1>5. Cardinality(On(c, pn) \ {ref}) = n - 1 /\ n # 0
  <2>1. Cardinality(On(c, pn) \ {ref}) = Cardinality(On(c, pn)) - 1
    BY ONLY <1>3, <1>4, FS_RemoveElement
  <2>2. On(c, pn) # {}
    BY <1>3
  <2>3. Cardinality(On(c, pn)) # 0
    BY ONLY <1>4, <2>2, FS_EmptySet
  <2>4. QED
    BY <1>3, <2>1, <2>3
<1>6. t.pool \in Seq(Orders \cup {Dead}) /\ t.free \in Seq(Nat) /\ Len(t.pool) \in Nat
  BY <1>1 DEF Stores
<1>7. h \in 1 .. Len(t.pool)
  BY <1>1, <1>2, <1>6 DEF Handed, Nil
<1>8. /\ freed \in Seq(Nat) /\ DOMAIN freed = 1 .. Len(t.free) + 1
      /\ freed[Len(t.free) + 1] = h
      /\ \A i \in 1 .. Len(t.free) : freed[i] = t.free[i]
      /\ DOMAIN t.free = 1 .. Len(t.free) /\ Len(t.free) \in Nat
  BY <1>6, <1>7, AppendProperties
<1>9. v = IF n = 1 THEN [WithPage(u, pn, NoPage) EXCEPT !.spare = @ + 1]
                   ELSE WithLive(WithHandle(u, ref, Nil), pn, n - 1)
  BY DEF NoteDead
<1> HIDE DEF freed
<1>10. /\ u \in Stores /\ u.pages = t.pages /\ u.pool = t.pool /\ u.free = freed
       /\ u.spare = t.spare
  BY <1>1, <1>8 DEF Stores
<1> HIDE DEF u, n
<1>11. Resident(u) = Resident(t) /\ \A r \in AllRefs : HandleOf(u, r) = HandleOf(t, r)
  BY <1>10 DEF Resident, HandleOf
<1>12. /\ v \in Stores /\ v.pool = t.pool /\ v.free = freed
       /\ HandleOf(v, ref) = Nil
       /\ \A r \in AllRefs \ {ref} : HandleOf(v, r) = HandleOf(t, r)
       /\ Resident(v) = (IF n = 1 THEN Resident(t) \ {pn} ELSE Resident(t))
       /\ v.spare = (IF n = 1 THEN t.spare + 1 ELSE t.spare)
       /\ \A p \in Resident(v) : /\ p \in Resident(t)
                                 /\ p = pn => n # 1 /\ v.pages[p].live = n - 1
                                 /\ p # pn => v.pages[p].live = t.pages[p].live
  <2>1. CASE n = 1
    <3> DEFINE w == WithPage(u, pn, NoPage)
    <3>1. /\ w \in Stores /\ w.pool = u.pool /\ w.free = u.free /\ w.spare = u.spare
          /\ w.pages = [u.pages EXCEPT ![pn] = NoPage]
      <4>1. NoPage \in PageRecords \cup {NoPage}
        OBVIOUS
      <4>2. w = WithPage(u, pn, NoPage)
        OBVIOUS
      <4> HIDE DEF w
      <4>3. QED
        BY ONLY <1>2, <1>10, <4>1, <4>2, PageIn
    <3>2. v = [w EXCEPT !.spare = w.spare + 1]
      BY <1>9, <2>1
    <3> HIDE DEF w
    <3>3. /\ v \in Stores /\ v.pages = w.pages /\ v.pool = w.pool /\ v.free = w.free
          /\ v.spare = w.spare + 1
      BY <3>1, <3>2 DEF Stores
    <3>4. u.pages \in [PageNumbers -> PageRecords \cup {NoPage}]
      BY <1>10 DEF Stores
    <3>5. v.pages[pn] = NoPage /\ \A p \in PageNumbers \ {pn} : v.pages[p] = t.pages[p]
      BY <1>2, <1>10, <3>1, <3>3, <3>4
    <3>6. Resident(v) = Resident(t) \ {pn}
      BY <3>5 DEF Resident
    <3>7. On(c, pn) = {ref}
      <4>1. IsFiniteSet(On(c, pn) \ {ref})
        BY ONLY <1>4, FS_RemoveElement
      <4>2. Cardinality(On(c, pn) \ {ref}) = 0
        BY <1>5, <2>1
      <4>3. On(c, pn) \ {ref} = {}
        BY ONLY <4>1, <4>2, FS_EmptySet
      <4>4. QED
        BY <1>3, <4>3
    <3>8. HandleOf(v, ref) = Nil
      BY <3>6 DEF HandleOf
    <3>9. ASSUME NEW r \in AllRefs \ {ref} PROVE HandleOf(v, r) = HandleOf(t, r)
      <4>1. PageOf(r) \in PageNumbers
        BY Placing
      <4>2. CASE PageOf(r) = pn
        <5>1. r \notin Held(t)
          BY <3>7, <4>2 DEF On
        <5>2. HandleOf(t, r) = Nil
          BY <5>1 DEF Held
        <5>3. HandleOf(v, r) = Nil
          BY <3>6, <4>2 DEF HandleOf
        <5>4. QED
          BY <5>2, <5>3
      <4>3. CASE PageOf(r) # pn
        BY <3>5, <3>6, <4>1, <4>3 DEF HandleOf
      <4>4. QED
        BY <4>2, <4>3
    <3>10. ASSUME NEW p \in Resident(v)
           PROVE  p \in Resident(t) /\ p # pn /\ v.pages[p].live = t.pages[p].live
      BY <3>5, <3>6 DEF Resident
    <3>11. QED
      BY <1>10, <2>1, <3>1, <3>3, <3>6, <3>8, <3>9, <3>10
  <2>2. CASE n # 1
    <3> DEFINE w == WithHandle(u, ref, Nil)
               m == n - 1
    <3>1. Nil \in Nat /\ m \in Nat /\ PageOf(ref) \in Resident(u)
      BY <1>2, <1>4, <1>5, <1>11 DEF Nil
    <3>2. w = WithHandle(u, ref, Nil) /\ v = WithLive(w, pn, m)
      BY <1>9, <2>2
    <3> HIDE DEF w, m
    <3>3. /\ w \in Stores /\ w.pool = u.pool /\ w.free = u.free /\ w.spare = u.spare
          /\ Resident(w) = Resident(u)
          /\ \A p \in Resident(u) : w.pages[p].live = u.pages[p].live
          /\ HandleOf(w, ref) = Nil
          /\ \A r \in AllRefs \ {ref} : HandleOf(w, r) = HandleOf(u, r)
      BY ONLY <1>2, <1>10, <3>1, <3>2, HandleIn
    <3>4. w \in Stores /\ pn \in Resident(w) /\ m \in Nat /\ v = WithLive(w, pn, m)
      BY <3>1, <3>2, <3>3
    <3> HIDE DEF pn
    <3>5. /\ v \in Stores /\ v.pool = w.pool /\ v.free = w.free /\ v.spare = w.spare
          /\ Resident(v) = Resident(w)
          /\ v.pages[pn].live = m
          /\ \A p \in Resident(w) \ {pn} : v.pages[p].live = w.pages[p].live
          /\ \A r \in AllRefs : HandleOf(v, r) = HandleOf(w, r)
      BY ONLY <3>4, LiveIn
    <3>6. ASSUME NEW p \in Resident(v)
          PROVE  /\ p \in Resident(t)
                 /\ p = pn => n # 1 /\ v.pages[p].live = n - 1
                 /\ p # pn => v.pages[p].live = t.pages[p].live
      BY <1>10, <1>11, <2>2, <3>3, <3>5 DEF m
    <3>7. QED
      BY <1>2, <1>10, <1>11, <2>2, <3>3, <3>5, <3>6
  <2>3. QED
    BY <2>1, <2>2
<1>13. Held(v) = c \ {ref}
  BY <1>2, <1>12 DEF Held
<1>14. Handed(v)
  <2>1. \A r \in AllRefs : HandleOf(v, r) \in 0 .. Len(v.pool)
    BY <1>1, <1>6, <1>12 DEF Handed, Nil
  <2>2. \A r, s \in Held(v) : HandleOf(v, r) = HandleOf(v, s) => r = s
    BY <1>1, <1>12, <1>13 DEF Handed, Held
  <2>3. ASSUME NEW i \in DOMAIN v.free
        PROVE  /\ v.free[i] \in 1 .. Len(v.pool)
               /\ \A j \in DOMAIN v.free : v.free[i] = v.free[j] => i = j
               /\ \A r \in AllRefs : HandleOf(v, r) # v.free[i]
    <3> DEFINE last == Len(t.free) + 1
    <3>1. v.free[last] = h /\ DOMAIN v.free = DOMAIN t.free \cup {last}
      BY <1>8, <1>12
    <3>2. \A j \in DOMAIN t.free : v.free[j] = t.free[j] /\ t.free[j] # h
      BY <1>1, <1>2, <1>8, <1>12 DEF Handed
    <3> HIDE DEF last
    <3>3. v.free[i] \in 1 .. Len(v.pool)
      BY <1>1, <1>7, <1>12, <3>1, <3>2 DEF Handed
    <3>4. \A j \in DOMAIN v.free : v.free[i] = v.free[j] => i = j
      BY <1>1, <3>1, <3>2 DEF Handed
    <3>5. ASSUME NEW r \in AllRefs PROVE HandleOf(v, r) # v.free[i]
      <4>1. CASE r = ref
        BY <1>12, <3>3, <4>1, <1>6 DEF Nil
      <4>2. CASE r # ref
        <5>1. HandleOf(v, r) = HandleOf(t, r) /\ HandleOf(t, r) # h
          BY <1>1, <1>2, <1>12, <4>2 DEF Handed, Held
        <5>2. CASE i = last
          BY <3>1, <5>1, <5>2
        <5>3. CASE i \in DOMAIN t.free
          BY <1>1, <3>2, <5>1, <5>3 DEF Handed
        <5>4. QED
          BY <3>1, <5>2, <5>3
      <4>3. QED
        BY <4>1, <4>2
    <3>6. QED
      BY <3>3, <3>4, <3>5
  <2>4. ASSUME NEW k \in 1 .. Len(v.pool)
        PROVE  \/ \E r \in AllRefs : HandleOf(v, r) = k
               \/ \E i \in DOMAIN v.free : v.free[i] = k
    <3>1. CASE k = h
      <4>1. Len(t.free) + 1 \in DOMAIN v.free /\ v.free[Len(t.free) + 1] = h
        BY <1>8, <1>12
      <4>2. QED
        BY <3>1, <4>1
    <3>2. CASE k # h
      <4>1. CASE \E r \in AllRefs : HandleOf(t, r) = k
        BY <1>12, <3>2, <4>1
      <4>2. CASE \E i \in DOMAIN t.free : t.free[i] = k
        <5>1. PICK i \in DOMAIN t.free : t.free[i] = k
          BY <4>2
        <5>2. i \in DOMAIN v.free /\ v.free[i] = k
          BY <1>8, <1>12, <5>1
        <5>3. QED
          BY <5>2
      <4>3. QED
        BY <1>1, <1>12, <4>1, <4>2 DEF Handed
    <3>3. QED
      BY <3>1, <3>2
  <2>5. QED
    BY <2>1, <2>2, <2>3, <2>4 DEF Handed
<1>15. Counted(v, Held(v))
  <2>1. Held(v) \subseteq Refs
    BY <1>3, <1>13
  <2>2. ASSUME NEW p \in Resident(v)
        PROVE  v.pages[p].live = Cardinality(On(Held(v), p)) /\ On(Held(v), p) # {}
    <3>1. CASE p = pn
      <4>1. On(Held(v), p) = On(c, pn) \ {ref}
        BY <1>13, <3>1 DEF On
      <4>2. v.pages[p].live = n - 1 /\ n # 1
        BY <1>12, <3>1
      <4>3. Cardinality(On(Held(v), p)) = n - 1
        BY <1>5, <4>1
      <4>4. On(Held(v), p) # {}
        BY <1>4, <4>2, <4>3, FS_EmptySet
      <4>5. QED
        BY <4>2, <4>3, <4>4
    <3>2. CASE p # pn
      <4>1. On(Held(v), p) = On(c, p)
        BY <1>13, <3>2 DEF On
      <4>2. p \in Resident(t) /\ v.pages[p].live = t.pages[p].live
        BY <1>12, <3>2
      <4>3. QED
        BY <1>1, <4>1, <4>2 DEF Counted
    <3>3. QED
      BY <3>1, <3>2
  <2>3. QED
    BY <2>1, <2>2 DEF Counted
<1>16. Find(v, ref) = Dead /\ \A r \in AllRefs \ {ref} : Find(v, r) = Find(t, r)
  BY <1>12 DEF Find
<1>17. Lives(v) = Less(Lives(t), pn)
  <2>1. DOMAIN Lives(t) = Resident(t) /\ Lives(t)[pn] = n
    BY <1>2 DEF Lives, n
  <2>2. CASE n = 1
    BY <1>12, <2>1, <2>2 DEF Lives, Less
  <2>3. CASE n # 1
    BY <1>2, <1>12, <2>1, <2>3 DEF Lives, Less, n
  <2>4. QED
    BY <2>2, <2>3
<1>18. v.spare = Returned(Lives(t), pn, t.spare) /\ n \in Nat \ {0}
  BY <1>2, <1>4, <1>5, <1>12 DEF Lives, Returned, n
<1>19. QED
  BY <1>12, <1>13, <1>14, <1>15, <1>16, <1>17, <1>18 DEF Sound, n

-----------------------------------------------------------------------------
(* The book's part of a handler.                                           *)

\* Only a reference with a handle can hold an order.
LEMMA HoldsHeld ==
  ASSUME NEW t, NEW r, Holds(t, r)
  PROVE  HandleOf(t, r) # Nil
BY DEF Holds, Find

\* A neighbour whose links are rewritten is in the store: touching it moves nothing.
LEMMA RelinkedStays ==
  ASSUME NEW t, NEW near
  PROVE  Relinked(t, near) = t
<1>1. CASE near # NilRef /\ Holds(t, near)
  <2>1. Touch(t, near) = t
    BY <1>1, HoldsHeld, TouchHeld
  <2>2. QED
    BY <1>1, <2>1 DEF Relinked
<1>2. CASE ~ (near # NilRef /\ Holds(t, near))
  BY <1>2 DEF Relinked
<1>3. QED
  BY <1>1, <1>2

\* Book::remove takes away the reference's order, and changes no other.
LEMMA Removing ==
  ASSUME NEW t, Sound(t, Held(t)), NEW ref \in Held(t), NEW near,
         NEW v, v = Remove(t, ref, At(t, ref), near)
  PROVE  /\ Sound(v, Held(v)) /\ Held(v) = Held(t) \ {ref}
         /\ Find(v, ref) = Dead
         /\ \A r \in AllRefs \ {ref} : Find(v, r) = Find(t, r)
<1> DEFINE u == Write(t, At(t, ref), Dead)
<1>1. u = Write(t, At(t, ref), Dead) /\ Dead \in Orders \cup {Dead}
  OBVIOUS
<1>2. v = NoteDead(u, ref)
  BY RelinkedStays DEF Remove
<1> HIDE DEF u
<1>3. /\ Sound(u, Held(t)) /\ Held(u) = Held(t)
      /\ \A r \in AllRefs \ {ref} : Find(u, r) = Find(t, r)
  BY ONLY Sound(t, Held(t)), ref \in Held(t), <1>1, Writing
<1>4. Sound(u, Held(u)) /\ ref \in Held(u)
  BY <1>3
<1>5. /\ Sound(v, Held(v)) /\ Held(v) = Held(u) \ {ref}
      /\ Find(v, ref) = Dead
      /\ \A r \in AllRefs \ {ref} : Find(v, r) = Find(u, r)
  BY ONLY <1>2, <1>4, Dying
<1>6. QED
  BY <1>3, <1>5

\* touch() and Book::add put the order under the reference, and change no other.
LEMMA Adding ==
  ASSUME NEW t, Sound(t, Held(t)), NEW ref \in Refs, HandleOf(t, ref) = Nil,
         NEW o \in Orders, NEW near, NEW u, u = Touch(t, ref),
         NEW v, v = Add(u, ref, At(u, ref), o, near)
  PROVE  /\ Sound(v, Held(v)) /\ Held(v) = Held(t) \cup {ref}
         /\ Find(v, ref) = o
         /\ \A r \in AllRefs \ {ref} : Find(v, r) = Find(t, r)
<1> DEFINE c == Held(t)
           w == Write(u, At(u, ref), o)
<1>1. /\ Sound(u, c) /\ Held(u) = Held(t) \cup {ref} /\ ref \notin c
      /\ \A r \in AllRefs : Find(u, r) = Find(t, r)
  BY TouchNew
<1>2. w = Write(u, At(u, ref), o) /\ o \in Orders \cup {Dead} /\ ref \in Held(u)
  BY <1>1
<1>3. v = NoteLive(w, ref)
  BY RelinkedStays DEF Add
<1> HIDE DEF w, c
<1>4. /\ Sound(w, c) /\ Held(w) = Held(u) /\ Find(w, ref) = o
      /\ \A r \in AllRefs \ {ref} : Find(w, r) = Find(u, r)
  BY ONLY <1>1, <1>2, Writing
<1>5. ref \in Held(w)
  BY <1>1, <1>4
<1>6. /\ Sound(v, c \cup {ref}) /\ Held(v) = Held(w)
      /\ \A r \in AllRefs : Find(v, r) = Find(w, r)
  BY ONLY <1>1, <1>3, <1>4, <1>5, Living
<1>7. ref \in AllRefs
  BY DEF AllRefs
<1>8. QED
  BY <1>1, <1>4, <1>6, <1>7 DEF c

\* A steady store stays steady when an order leaves it, or one joins it.
LEMMA SteadyKept ==
  ASSUME NEW t, Steady(t), NEW ref, NEW v, Sound(v, Held(v)),
         \/ Held(v) = Held(t) \ {ref}
         \/ Held(v) = Held(t) \cup {ref} /\ Find(v, ref) \in Orders,
         \A r \in AllRefs \ {ref} : Find(v, r) = Find(t, r)
  PROVE  Steady(v)
BY DEF Steady, Held

\* In a steady store the references with a handle are those with a live order.
LEMMA SteadyHeld ==
  ASSUME NEW t, Steady(t), NEW r \in AllRefs
  PROVE  /\ r \in Held(t) <=> Find(t, r) # Dead
         /\ r \in Held(t) => Find(t, r) \in Orders /\ r \in Refs
<1>1. r \in Held(t) => Find(t, r) \in Orders /\ r \in Refs
  BY DEF Steady, Sound, Counted
<1>2. r \notin Held(t) => Find(t, r) = Dead
  BY DEF Held, Find
<1>3. QED
  BY <1>1, <1>2, PageAssumption

-----------------------------------------------------------------------------
(* The handlers.                                                           *)

\* Through the address of a reference that has a handle one reads what it finds.
LEMMA ReadFinds ==
  ASSUME NEW t, NEW r \in Held(t)
  PROVE  Read(t, At(t, r)) = Find(t, r)
BY DEF Held, Find, Read, At

\* on_add puts the order under its reference, whatever rested there.
LEMMA AddServed ==
  ASSUME Steady(store), NEW ref \in Refs, NEW o \in Orders, NEW near,
         OnAdd(ref, o, near)
  PROVE  /\ Steady(store') /\ Find(store', ref) \in Orders
         /\ \A r \in AllRefs \ {ref} : Find(store', r) = Find(store, r)
<1> DEFINE t   == Touch(store, ref)
           x   == Remove(store, ref, At(store, ref), near)
           y   == Touch(x, ref)
<1>1. Sound(store, Held(store)) /\ ref \in AllRefs
  BY DEF Steady, AllRefs
<1>2. CASE HandleOf(store, ref) # Nil
  <2>1. t = store /\ ref \in Held(store)
    BY <1>1, <1>2, TouchHeld DEF Held
  <2>2. Read(store, At(store, ref)) # Dead
    BY <1>1, <2>1, ReadFinds, SteadyHeld
  <2>3. store' = Add(y, ref, At(y, ref), o, near)
    BY <2>1, <2>2 DEF OnAdd
  <2>4. x = Remove(store, ref, At(store, ref), near) /\ y = Touch(x, ref)
    OBVIOUS
  <2> HIDE DEF t, x, y
  <2>5. /\ Sound(x, Held(x)) /\ Held(x) = Held(store) \ {ref}
        /\ \A r \in AllRefs \ {ref} : Find(x, r) = Find(store, r)
    BY ONLY <1>1, <2>1, <2>4, Removing
  <2>6. HandleOf(x, ref) = Nil
    BY <1>1, <2>5 DEF Held
  <2>7. /\ Sound(store', Held(store')) /\ Held(store') = Held(x) \cup {ref}
        /\ Find(store', ref) = o
        /\ \A r \in AllRefs \ {ref} : Find(store', r) = Find(x, r)
    BY ONLY <2>3, <2>4, <2>5, <2>6, ref \in Refs, o \in Orders, Adding
  <2>8. Steady(x)
    BY ONLY Steady(store), <2>5, SteadyKept
  <2>9. Steady(store')
    BY ONLY <2>7, <2>8, o \in Orders, SteadyKept
  <2>10. QED
    BY <2>5, <2>7, <2>9
<1>3. CASE HandleOf(store, ref) = Nil
  <2>1. /\ Held(t) = Held(store) \cup {ref} /\ Find(t, ref) = Dead
    BY <1>1, <1>3, TouchNew
  <2>2. Read(t, At(t, ref)) = Dead
    BY <2>1, ReadFinds
  <2>3. store' = Add(t, ref, At(t, ref), o, near)
    BY <2>2 DEF OnAdd
  <2>4. t = Touch(store, ref)
    OBVIOUS
  <2> HIDE DEF t
  <2>5. /\ Sound(store', Held(store')) /\ Held(store') = Held(store) \cup {ref}
        /\ Find(store', ref) = o
        /\ \A r \in AllRefs \ {ref} : Find(store', r) = Find(store, r)
    BY ONLY <1>1, <1>3, <2>3, <2>4, ref \in Refs, o \in Orders, Adding
  <2>6. Steady(store')
    BY ONLY Steady(store), <2>5, o \in Orders, SteadyKept
  <2>7. QED
    BY <2>5, <2>6
<1>4. QED
  BY <1>2, <1>3

\* An execution or a cancel that leaves shares changes its own order only.
LEMMA ReduceServed ==
  ASSUME Steady(store), NEW ref \in AllRefs, NEW o \in Orders, OnReduce(ref, o)
  PROVE  /\ Steady(store') /\ ref \in Refs /\ Find(store', ref) \in Orders
         /\ \A r \in AllRefs \ {ref} : Find(store', r) = Find(store, r)
<1>1. Sound(store, Held(store)) /\ store' = Write(store, At(store, ref), o)
  BY DEF Steady, OnReduce
<1>2. ref \in Held(store) /\ ref \in Refs
  BY SteadyHeld DEF OnReduce, Holds
<1>3. o \in Orders \cup {Dead}
  OBVIOUS
<1>4. /\ Sound(store', Held(store)) /\ Held(store') = Held(store)
      /\ Find(store', ref) = o
      /\ \A r \in AllRefs \ {ref} : Find(store', r) = Find(store, r)
  BY ONLY <1>1, <1>2, <1>3, Writing
<1>5. Sound(store', Held(store')) /\ Held(store') = Held(store) \cup {ref}
  BY <1>2, <1>4
<1>6. Steady(store')
  BY ONLY Steady(store), <1>4, <1>5, o \in Orders, SteadyKept
<1>7. QED
  BY <1>2, <1>4, <1>6

\* Taking an order off the book empties its reference only.
LEMMA RemoveServed ==
  ASSUME NEW t, Steady(t), NEW ref \in AllRefs, Holds(t, ref), NEW near,
         NEW v, v = Remove(t, ref, At(t, ref), near)
  PROVE  /\ Steady(v) /\ ref \in Refs /\ Find(v, ref) = Dead
         /\ \A r \in AllRefs \ {ref} : Find(v, r) = Find(t, r)
         /\ HandleOf(v, ref) = Nil
<1>1. Sound(t, Held(t)) /\ ref \in Held(t) /\ ref \in Refs
  BY SteadyHeld DEF Steady, Holds
<1>2. /\ Sound(v, Held(v)) /\ Held(v) = Held(t) \ {ref}
      /\ Find(v, ref) = Dead
      /\ \A r \in AllRefs \ {ref} : Find(v, r) = Find(t, r)
  BY ONLY <1>1, v = Remove(t, ref, At(t, ref), near), Removing
<1>3. Steady(v)
  BY ONLY Steady(t), <1>2, SteadyKept
<1>4. HandleOf(v, ref) = Nil
  BY <1>2 DEF Held
<1>5. QED
  BY <1>1, <1>2, <1>3, <1>4

\* A delete or an execution of the last shares empties its reference only.
LEMMA DeleteServed ==
  ASSUME Steady(store), NEW ref \in AllRefs, NEW near, OnDelete(ref, near)
  PROVE  /\ Steady(store') /\ ref \in Refs
         /\ Find(store, ref) # Dead /\ Find(store', ref) = Dead
         /\ \A r \in AllRefs \ {ref} : Find(store', r) = Find(store, r)
<1>1. Holds(store, ref) /\ store' = Remove(store, ref, At(store, ref), near)
  BY DEF OnDelete
<1>2. /\ Steady(store') /\ ref \in Refs /\ Find(store', ref) = Dead
      /\ \A r \in AllRefs \ {ref} : Find(store', r) = Find(store, r)
  BY ONLY <1>1, Steady(store), ref \in AllRefs, RemoveServed
<1>3. QED
  BY <1>1, <1>2 DEF Holds

\* A replace empties the old reference and whatever rested under the new one, and puts
\* the new order there unless the manager refuses it.
LEMMA ReplaceServed ==
  ASSUME Steady(store), NEW old \in AllRefs, NEW new \in AllRefs,
         NEW o, o = Dead \/ (o \in Orders /\ new \in Refs), NEW near,
         OnReplace(old, new, o, near)
  PROVE  /\ Steady(store') /\ old \in Refs /\ Find(store, old) # Dead
         /\ new # old => Find(store', old) = Dead
         /\ Find(store', new) = o
         /\ \A r \in AllRefs \ {old, new} : Find(store', r) = Find(store, r)
<1> DEFINE dup == new # old /\ Holds(store, new)
           t   == IF dup THEN Remove(store, new, At(store, new), near) ELSE store
           u   == Remove(t, old, At(t, old), near)
           v   == Touch(u, new)
<1>1. Holds(store, old)
  BY DEF OnReplace
<1>2. store' = IF o = Dead THEN u ELSE Add(v, new, At(v, new), o, near)
  <2>1. CASE dup
    BY <2>1 DEF OnReplace
  <2>2. CASE ~ dup
    BY <2>2 DEF OnReplace
  <2>3. QED
    BY <2>1, <2>2
<1>3. /\ Steady(t)
      /\ new # old => Find(t, new) = Dead
      /\ \A r \in AllRefs \ {new} : Find(t, r) = Find(store, r)
      /\ Find(t, old) = Find(store, old)
  <2>1. CASE dup
    <3>1. Holds(store, new) /\ t = Remove(store, new, At(store, new), near)
      BY <2>1
    <3> HIDE DEF t
    <3>2. /\ Steady(t) /\ Find(t, new) = Dead
          /\ \A r \in AllRefs \ {new} : Find(t, r) = Find(store, r)
      BY ONLY <3>1, Steady(store), new \in AllRefs, RemoveServed
    <3>3. QED
      BY <2>1, <3>2
  <2>2. CASE ~ dup
    BY <2>2 DEF Holds
  <2>3. QED
    BY <2>1, <2>2
<1>4. u = Remove(t, old, At(t, old), near) /\ v = Touch(u, new)
  OBVIOUS
<1> HIDE DEF dup, t, u, v
<1>5. Steady(t) /\ Holds(t, old) /\ u = Remove(t, old, At(t, old), near)
  BY <1>1, <1>3, <1>4 DEF Holds
<1>6. /\ Steady(u) /\ old \in Refs /\ Find(u, old) = Dead
      /\ \A r \in AllRefs \ {old} : Find(u, r) = Find(t, r)
  BY ONLY <1>5, old \in AllRefs, RemoveServed
<1>7. Find(u, new) = Dead
  <2>1. CASE new = old
    BY <1>6, <2>1
  <2>2. CASE new # old
    BY <1>3, <1>6, <2>2
  <2>3. QED
    BY <2>1, <2>2
<1>8. CASE o = Dead
  BY <1>1, <1>2, <1>3, <1>6, <1>7, <1>8 DEF Holds
<1>9. CASE o \in Orders /\ new \in Refs
  <2>1. HandleOf(u, new) = Nil
    BY <1>6, <1>7, SteadyHeld DEF Held
  <2>2. store' = Add(v, new, At(v, new), o, near)
    BY <1>2, <1>9, PageAssumption
  <2>3. Sound(u, Held(u))
    BY <1>6 DEF Steady
  <2>4. /\ Sound(store', Held(store')) /\ Held(store') = Held(u) \cup {new}
        /\ Find(store', new) = o
        /\ \A r \in AllRefs \ {new} : Find(store', r) = Find(u, r)
    BY ONLY <1>4, <1>9, <2>1, <2>2, <2>3, Adding
  <2>5. Steady(store')
    BY ONLY <1>6, <1>9, <2>4, SteadyKept
  <2>6. QED
    BY <1>1, <1>3, <1>6, <2>4, <2>5 DEF Holds
<1>10. QED
  BY <1>8, <1>9

\* reserve() only sets pages aside.
LEMMA ReserveServed ==
  ASSUME Steady(store), NEW n \in Hints, Reserve(n)
  PROVE  /\ Steady(store') /\ \A r \in AllRefs : Find(store', r) = Find(store, r)
         /\ Held(store') = Held(store) /\ Lives(store') = Lives(store)
         /\ store'.spare = IF store.spare < n THEN n ELSE store.spare
<1> DEFINE spare == IF store.spare < n THEN n ELSE store.spare
<1>1. store \in Stores /\ Handed(store) /\ Counted(store, Held(store))
  BY DEF Steady, Sound
<1>2. n \in Nat /\ store.spare \in Nat
  BY <1>1, PageAssumption DEF Stores
<1>3. store' = [store EXCEPT !.spare = spare] /\ spare \in Nat
  BY <1>2 DEF Reserve, Reserved
<1> HIDE DEF spare
<1>4. /\ store' \in Stores /\ store'.pages = store.pages /\ store'.spare = spare
      /\ store'.pool = store.pool /\ store'.free = store.free
  BY <1>1, <1>3 DEF Stores
<1>5. /\ Resident(store') = Resident(store)
      /\ \A r \in AllRefs : HandleOf(store', r) = HandleOf(store, r)
  BY <1>4 DEF Resident, HandleOf
<1>6. /\ Handed(store') /\ Held(store') = Held(store)
      /\ \A r \in AllRefs : Find(store', r) = Find(store, r)
  BY ONLY <1>1, <1>4, <1>5, HandedAlike
<1>7. Counted(store', Held(store'))
  BY <1>1, <1>4, <1>5, <1>6 DEF Counted
<1>8. Lives(store') = Lives(store)
  BY <1>4, <1>5 DEF Lives
<1>9. QED
  BY <1>4, <1>6, <1>7, <1>8 DEF Steady, Sound, Held, spare

-----------------------------------------------------------------------------
(* The theorems.                                                           *)

\* A store that was never touched is steady and finds nothing.
LEMMA EmptySteady ==
  ASSUME Init
  PROVE  Steady(store) /\ \A r \in AllRefs : Find(store, r) = Dead
<1>1. store = [pages |-> [p \in PageNumbers |-> NoPage], spare |-> 0,
               pool |-> <<>>, free |-> <<>>]
  BY DEF Init, Empties
<1>2. /\ store \in Stores /\ Resident(store) = {}
      /\ Len(store.pool) = 0 /\ DOMAIN store.free = {}
  BY <1>1 DEF Stores, Resident
<1>3. \A r \in AllRefs : HandleOf(store, r) = Nil
  BY <1>2 DEF HandleOf
<1>4. Held(store) = {} /\ \A r \in AllRefs : Find(store, r) = Dead
  BY <1>3 DEF Held, Find
<1>5. Handed(store)
  BY <1>2, <1>3, <1>4 DEF Handed, Nil
<1>6. Counted(store, Held(store))
  BY <1>2, <1>4 DEF Counted
<1>7. QED
  BY <1>2, <1>4, <1>5, <1>6 DEF Steady, Sound

\* What the store answers to find(), by reference: the map of the abstract specification.
Found == [r \in AllRefs |-> Find(store, r)]

\* Every handler keeps the store steady, and is a step of the map or leaves it alone.
LEMMA StepServed ==
  ASSUME Steady(store), [Next]_store
  PROVE  Steady(store') /\ (Map!Next \/ Found' = Found)
<1>1. ASSUME NEW ref \in Refs, NEW o \in Orders, NEW near, OnAdd(ref, o, near)
      PROVE  Steady(store') /\ Map!Put(ref)
  <2>1. /\ Steady(store') /\ Find(store', ref) \in Orders
        /\ \A r \in AllRefs \ {ref} : Find(store', r) = Find(store, r)
    BY ONLY Steady(store), <1>1, AddServed
  <2>2. ref \in AllRefs
    BY DEF AllRefs
  <2>3. QED
    BY <2>1, <2>2 DEF Map!Put, Map!Only, Map!AllRefs, AllRefs
<1>2. ASSUME NEW ref \in AllRefs, NEW o \in Orders, OnReduce(ref, o)
      PROVE  Steady(store') /\ ref \in Refs /\ Map!Put(ref)
  <2>1. /\ Steady(store') /\ ref \in Refs /\ Find(store', ref) \in Orders
        /\ \A r \in AllRefs \ {ref} : Find(store', r) = Find(store, r)
    BY ONLY Steady(store), <1>2, ReduceServed
  <2>2. QED
    BY <2>1 DEF Map!Put, Map!Only, Map!AllRefs, AllRefs
<1>3. ASSUME NEW ref \in AllRefs, NEW near, OnDelete(ref, near)
      PROVE  Steady(store') /\ ref \in Refs /\ Map!Drop(ref)
  <2>1. /\ Steady(store') /\ ref \in Refs
        /\ Find(store, ref) # Dead /\ Find(store', ref) = Dead
        /\ \A r \in AllRefs \ {ref} : Find(store', r) = Find(store, r)
    BY ONLY Steady(store), <1>3, DeleteServed
  <2>2. QED
    BY <2>1 DEF Map!Drop, Map!Only, Map!AllRefs, AllRefs
<1>4. ASSUME NEW old \in AllRefs, NEW new \in Refs, NEW o \in Orders, NEW near,
             OnReplace(old, new, o, near)
      PROVE  Steady(store') /\ old \in Refs /\ Map!Move(old, new)
  <2>1. new \in AllRefs /\ (o = Dead \/ (o \in Orders /\ new \in Refs))
    BY DEF AllRefs
  <2>2. /\ Steady(store') /\ old \in Refs /\ Find(store, old) # Dead
        /\ new # old => Find(store', old) = Dead
        /\ Find(store', new) = o
        /\ \A r \in AllRefs \ {old, new} : Find(store', r) = Find(store, r)
    BY ONLY Steady(store), <1>4, <2>1, ReplaceServed
  <2>3. QED
    BY <2>1, <2>2 DEF Map!Move, Map!Only, Map!AllRefs, AllRefs
<1>5. ASSUME NEW old \in AllRefs, NEW new \in AllRefs, NEW near,
             OnReplace(old, new, Dead, near)
      PROVE  Steady(store') /\ old \in Refs /\ Map!Refuse(old, new)
  <2>1. /\ Steady(store') /\ old \in Refs /\ Find(store, old) # Dead
        /\ new # old => Find(store', old) = Dead
        /\ Find(store', new) = Dead
        /\ \A r \in AllRefs \ {old, new} : Find(store', r) = Find(store, r)
    BY ONLY Steady(store), <1>5, ReplaceServed
  <2>2. QED
    BY <2>1 DEF Map!Refuse, Map!Only, Map!AllRefs, AllRefs
<1>6. ASSUME NEW n \in Hints, Reserve(n)
      PROVE  Steady(store') /\ Found' = Found
  <2>1. Steady(store') /\ \A r \in AllRefs : Find(store', r) = Find(store, r)
    BY ONLY Steady(store), <1>6, ReserveServed
  <2>2. QED
    BY <2>1 DEF Found
<1>7. CASE UNCHANGED store
  BY <1>7 DEF Found
<1>8. QED
  BY <1>1, <1>2, <1>3, <1>4, <1>5, <1>6, <1>7 DEF Next, Map!Next, Map!AllRefs, AllRefs

\* What a steady store's free handles and pages say of the properties the runs check.
LEMMA SteadyHandles ==
  ASSUME Steady(store)
  PROVE  HandlesOnce
<1> DEFINE held == {r \in AllRefs : HandleOf(store, r) # Nil}
           free == {store.free[i] : i \in DOMAIN store.free}
<1>1. store \in Stores /\ Handed(store) /\ held = Held(store)
  BY DEF Steady, Sound, Held
<1>2. \A r, s \in held : HandleOf(store, r) = HandleOf(store, s) => r = s
  BY <1>1 DEF Handed
<1>3. Cardinality(free) = Len(store.free)
  <2> DEFINE n == Len(store.free)
             f == [i \in 1 .. n |-> store.free[i]]
  <2>1. store.free \in Seq(Nat)
    BY <1>1 DEF Stores
  <2>2. n \in Nat /\ DOMAIN store.free = 1 .. n
    BY <2>1
  <2>3. f \in Bijection(1 .. n, free)
    BY <1>1, <2>2 DEF Handed, Bijection, Injection, Surjection, IsInjective
  <2> HIDE DEF f, n, free
  <2>4. IsFiniteSet(1 .. n) /\ Cardinality(1 .. n) = n
    BY <2>2, FS_Interval
  <2>5. ExistsBijection(1 .. n, free)
    BY <2>3 DEF ExistsBijection
  <2>6. Cardinality(free) = Cardinality(1 .. n)
    BY <2>4, <2>5, FS_Bijection
  <2>7. QED
    BY <2>4, <2>6 DEF n
<1>4. {HandleOf(store, r) : r \in held} \cap free = {}
  BY <1>1 DEF Handed
<1>5. {HandleOf(store, r) : r \in held} \cup free = 1 .. Len(store.pool)
  <2>1. Len(store.pool) \in Nat
    BY <1>1 DEF Stores
  <2>2. ASSUME NEW r \in held PROVE HandleOf(store, r) \in 1 .. Len(store.pool)
    BY <1>1, <2>1 DEF Handed, Nil
  <2>3. ASSUME NEW k \in free PROVE k \in 1 .. Len(store.pool)
    BY <1>1 DEF Handed
  <2>4. ASSUME NEW k \in 1 .. Len(store.pool)
        PROVE  k \in {HandleOf(store, r) : r \in held} \cup free
    <3>1. CASE \E r \in AllRefs : HandleOf(store, r) = k
      BY <2>1, <3>1 DEF Nil
    <3>2. CASE \E i \in DOMAIN store.free : store.free[i] = k
      BY <3>2
    <3>3. QED
      BY <1>1, <3>1, <3>2 DEF Handed
  <2>5. QED
    BY <2>2, <2>3, <2>4
<1>6. QED
  BY <1>2, <1>3, <1>4, <1>5 DEF HandlesOnce

\* A steady store's pages are resident with their orders.
LEMMA SteadyPages ==
  ASSUME Steady(store)
  PROVE  PagesWorked
<1>1. Counted(store, Held(store))
  BY DEF Steady, Sound
<1>2. ASSUME NEW p \in PageNumbers
      PROVE  {r \in Refs : PageOf(r) = p /\ Holds(store, r)} = On(Held(store), p)
  <2>1. \A r \in AllRefs : Holds(store, r) <=> r \in Held(store)
    BY SteadyHeld DEF Holds
  <2>2. QED
    BY <1>1, <2>1 DEF On, Counted, AllRefs
<1>3. ASSUME NEW p \in PageNumbers, p \notin Resident(store)
      PROVE  On(Held(store), p) = {}
  BY <1>3 DEF On, Held, HandleOf
<1>4. QED
  BY <1>1, <1>2, <1>3 DEF PagesWorked, Counted

SteadyStore == Steady(store)

\* The default store is steady between any two messages: the inductive invariant.
THEOREM StoreInvariant == Spec => []SteadyStore
<1>1. Init => SteadyStore
  BY EmptySteady DEF SteadyStore
<1>2. SteadyStore /\ [Next]_store => SteadyStore'
  BY StepServed DEF SteadyStore
<1>3. QED
  BY <1>1, <1>2, PTL DEF Spec

\* Whatever messages arrive, no handle of the pool is under two references or both
\* under one and free, and none is lost (order_store.hpp, the freelist).
THEOREM HandlesOnceHolds == Spec => []HandlesOnce
<1>1. SteadyStore => HandlesOnce
  BY SteadyHandles DEF SteadyStore
<1>2. QED
  BY <1>1, StoreInvariant, PTL

\* A page is resident exactly while an order rests on it, and its count is right
\* (order_store.hpp, note_live() and note_dead()).
THEOREM PagesWorkedHolds == Spec => []PagesWorked
<1>1. SteadyStore => PagesWorked
  BY SteadyPages DEF SteadyStore
<1>2. QED
  BY <1>1, StoreInvariant, PTL

\* The default store under the book's handlers is a map from references to orders:
\* a reference finds the order put under it until the message that takes it off.
THEOREM ImplementsMapHolds == Spec => ImplementsMap
<1>1. Init => Map!Init
  BY EmptySteady DEF Map!Init, Map!AllRefs, AllRefs
<1>2. SteadyStore /\ [Next]_store => [Map!Next]_([r \in AllRefs |-> Find(store, r)])
  BY StepServed DEF SteadyStore, Found
<1>3. QED
  BY <1>1, <1>2, StoreInvariant, PTL DEF Spec, ImplementsMap, Map!Spec

-----------------------------------------------------------------------------
(* The store with the orders in its pages.                                 *)

PagedPages == [slots : [0 .. PageSize - 1 -> Orders \cup {Dead}], live : Nat]

PagedStoresAll ==
  [pages : [PageNumbers -> PagedPages \cup {NoPage}], spare : Seq(PagedPages)]

\* What OrderStore says of references and pages is what PooledOrderStore says.
LEMMA PagedNames ==
  /\ \A r : Paged!PageOf(r) = PageOf(r) /\ Paged!SlotOf(r) = SlotOf(r)
  /\ \A u : Paged!Resident(u) = Resident(u)
  /\ \A u, p, page : Paged!WithPage(u, p, page) = WithPage(u, p, page)
  /\ \A u, p, n : Paged!WithLive(u, p, n) = WithLive(u, p, n)
  /\ \A u, r : Paged!Find(u, r) = IF PageOf(r) \in Resident(u)
                                    THEN u.pages[PageOf(r)].slots[SlotOf(r)] ELSE Dead
BY DEF Paged!PageOf, Paged!SlotOf, Paged!Resident, Paged!PageNumbers, Paged!Find,
       Paged!WithPage, Paged!WithLive, PageOf, SlotOf, Resident, PageNumbers, WithPage, WithLive

\* A page put in its place touches nothing else.
LEMMA PagedIn ==
  ASSUME NEW u \in PagedStoresAll, NEW pn \in PageNumbers, NEW page \in PagedPages \cup {NoPage},
         NEW v, v = WithPage(u, pn, page)
  PROVE  /\ v \in PagedStoresAll /\ v.spare = u.spare
         /\ v.pages[pn] = page /\ \A p \in PageNumbers \ {pn} : v.pages[p] = u.pages[p]
<1>1. v.spare = u.spare /\ v.pages = [u.pages EXCEPT ![pn] = page]
  BY DEF WithPage, PagedStoresAll
<1>2. v = [pages |-> v.pages, spare |-> v.spare]
  BY DEF WithPage, PagedStoresAll
<1>3. v.pages \in [PageNumbers -> PagedPages \cup {NoPage}]
  BY <1>1 DEF PagedStoresAll
<1>4. v \in PagedStoresAll
  BY <1>1, <1>2, <1>3 DEF PagedStoresAll
<1> QED BY <1>1, <1>4 DEF PagedStoresAll

\* Pages that wait are no page's business.
LEMMA PagedSpare ==
  ASSUME NEW u \in PagedStoresAll, NEW s \in Seq(PagedPages), NEW v, v = [u EXCEPT !.spare = s]
  PROVE  v \in PagedStoresAll /\ v.spare = s /\ v.pages = u.pages
BY DEF PagedStoresAll

\* The page of a store is a page or none, and of a resident one a page.
LEMMA ThePagedPage ==
  ASSUME NEW u \in PagedStoresAll, NEW p \in PageNumbers
  PROVE  /\ u.spare \in Seq(PagedPages) /\ Len(u.spare) \in Nat
         /\ p \in Resident(u) <=> u.pages[p] # NoPage
         /\ p \in Resident(u) => u.pages[p] \in PagedPages /\ u.pages[p].live \in Nat
BY DEF PagedStoresAll, Resident, PagedPages

\* Nobody finds anything else in a store whose pages show the same orders.
LEMMA PagedFinds ==
  ASSUME NEW u, NEW v, Resident(v) = Resident(u),
         \A p \in Resident(u) : v.pages[p].slots = u.pages[p].slots
  PROVE  \A r : Paged!Find(v, r) = Paged!Find(u, r)
BY PagedNames

\* note_live() and the count of note_dead().
LEMMA PagedCount ==
  ASSUME NEW u \in PagedStoresAll, NEW pn \in Resident(u), NEW n \in Nat,
         NEW v, v = WithLive(u, pn, n)
  PROVE  /\ v \in PagedStoresAll /\ v.spare = u.spare /\ Resident(v) = Resident(u)
         /\ v.pages[pn] \in PagedPages /\ v.pages[pn].live = n
         /\ Lives(v) = [Lives(u) EXCEPT ![pn] = n]
         /\ \A r : Paged!Find(v, r) = Paged!Find(u, r)
<1> DEFINE page == [u.pages[pn] EXCEPT !.live = n]
<1>1. pn \in PageNumbers /\ u.pages[pn] \in PagedPages
  BY ThePagedPage DEF Resident
<1>2. page \in PagedPages /\ page.slots = u.pages[pn].slots /\ page.live = n
  BY <1>1 DEF PagedPages
<1>3. v = WithPage(u, pn, page)
  BY DEF WithLive
<1> HIDE DEF page
<1>4. /\ v \in PagedStoresAll /\ v.spare = u.spare
      /\ v.pages[pn] = page /\ \A p \in PageNumbers \ {pn} : v.pages[p] = u.pages[p]
  BY ONLY <1>1, <1>2, <1>3, PagedIn
<1>5. page # NoPage
  BY <1>2, PagedAssumption DEF PagedPages
<1>6. Resident(v) = Resident(u)
  BY <1>4, <1>5 DEF Resident
<1>7. Lives(v) = [Lives(u) EXCEPT ![pn] = n]
  BY <1>2, <1>4, <1>6 DEF Lives, Resident
<1>8. \A p \in Resident(u) : v.pages[p].slots = u.pages[p].slots
  BY <1>2, <1>4 DEF Resident
<1> QED BY <1>2, <1>4, <1>6, <1>7, <1>8, PagedFinds

\* touch(): the page is there, and shows the reference nothing it did not.
LEMMA PagedTouch ==
  ASSUME NEW u \in PagedStoresAll, NEW ref \in AllRefs, NEW v, v = Paged!Touch(u, ref)
  PROVE  /\ v \in PagedStoresAll
         /\ Lives(v) = Touched(Lives(u), PageOf(ref))
         /\ Len(v.spare) = Waiting(Lives(u), PageOf(ref), Len(u.spare))
         /\ \A r \in AllRefs : Paged!Find(v, r) = Paged!Find(u, r)
<1> DEFINE pn   == PageOf(ref)
           page == Paged!FreshPage
           w    == WithPage(u, pn, page)
<1>1. pn \in PageNumbers
  BY Placing
<1>2. DOMAIN Lives(u) = Resident(u)
  BY DEF Lives
<1>3. CASE pn \in Resident(u)
  <2>1. v = u
    BY <1>3, PagedNames DEF Paged!Touch
  <2> QED BY <1>2, <1>3, <2>1 DEF Lives, Touched, Waiting
<1>4. CASE pn \notin Resident(u)
  <2>1. /\ page \in PagedPages /\ page.live = 0
        /\ \A i \in 0 .. PageSize - 1 : page.slots[i] = Dead
    BY DEF Paged!FreshPage, PagedPages
  <2>2. page # NoPage
    BY <2>1, PagedAssumption DEF PagedPages
  <2>3. /\ w \in PagedStoresAll /\ w.spare = u.spare
        /\ w.pages[pn] = page /\ \A p \in PageNumbers \ {pn} : w.pages[p] = u.pages[p]
    <3>1. w = WithPage(u, pn, page)
      OBVIOUS
    <3> HIDE DEF w, page
    <3> QED BY ONLY <1>1, <2>1, <3>1, u \in PagedStoresAll, PagedIn
  <2>4. /\ v \in PagedStoresAll /\ v.pages = w.pages
        /\ Len(v.spare) = IF Len(u.spare) = 0 THEN 0 ELSE Len(u.spare) - 1
    <3>1. u.spare \in Seq(PagedPages)
      BY DEF PagedStoresAll
    <3>2. CASE u.spare = <<>>
      <4>1. v = w
        BY <1>4, <3>2, PagedNames DEF Paged!Touch
      <4> QED BY <2>3, <3>2, <4>1
    <3>3. CASE u.spare # <<>>
      <4> DEFINE left == SubSeq(u.spare, 1, Len(u.spare) - 1)
      <4>1. Paged!Sq!Front(u.spare) = left
        BY DEF Paged!Sq!Front
      <4>2. v = [w EXCEPT !.spare = left]
        BY <1>4, <3>3, <4>1, PagedNames DEF Paged!Touch, Paged!Reset
      <4>3. Len(u.spare) \in Nat \ {0}
        BY <3>1, <3>3, EmptySeq, LenProperties
      <4>4. left \in Seq(PagedPages) /\ Len(left) = Len(u.spare) - 1
        BY <3>1, <4>3, SubSeqProperties
      <4> HIDE DEF left, w
      <4>5. v \in PagedStoresAll /\ v.spare = left /\ v.pages = w.pages
        BY ONLY <2>3, <4>2, <4>4, PagedSpare
      <4> QED BY <4>3, <4>4, <4>5
    <3> QED BY <3>2, <3>3
  <2> HIDE DEF w, page
  <2>5. Resident(v) = Resident(u) \cup {pn}
    BY <1>1, <2>2, <2>3, <2>4 DEF Resident
  <2>6. Lives(v) = Touched(Lives(u), pn)
    BY <1>2, <1>4, <2>1, <2>3, <2>4, <2>5 DEF Lives, Touched, Resident
  <2>7. Len(v.spare) = Waiting(Lives(u), pn, Len(u.spare))
    BY <1>2, <1>4, <2>4 DEF Waiting
  <2>8. ASSUME NEW r \in AllRefs PROVE Paged!Find(v, r) = Paged!Find(u, r)
    <3>1. PageOf(r) \in PageNumbers /\ SlotOf(r) \in 0 .. PageSize - 1
      BY Placing
    <3>2. CASE PageOf(r) = pn
      BY <1>4, <2>1, <2>3, <2>4, <2>5, <3>1, <3>2, PagedNames
    <3>3. CASE PageOf(r) # pn
      BY <2>3, <2>4, <2>5, <3>1, <3>3, PagedNames
    <3> QED BY <3>2, <3>3
  <2> QED BY <2>4, <2>6, <2>7, <2>8
<1> QED BY <1>3, <1>4

\* Writing through a held reference changes the order of that reference alone.
LEMMA PagedWrite ==
  ASSUME NEW u \in PagedStoresAll, NEW ref \in AllRefs, PageOf(ref) \in Resident(u),
         NEW o \in Orders \cup {Dead}, NEW v, v = Paged!Write(u, ref, o)
  PROVE  /\ v \in PagedStoresAll /\ v.spare = u.spare /\ Lives(v) = Lives(u)
         /\ Paged!Find(v, ref) = o
         /\ \A r \in AllRefs \ {ref} : Paged!Find(v, r) = Paged!Find(u, r)
<1> DEFINE pn   == PageOf(ref)
           old  == u.pages[pn]
           page == [old EXCEPT !.slots[SlotOf(ref)] = o]
<1>1. /\ pn \in PageNumbers /\ SlotOf(ref) \in 0 .. PageSize - 1 /\ old \in PagedPages
  BY Placing, ThePagedPage
<1>2. /\ page.live = old.live /\ page.slots = [old.slots EXCEPT ![SlotOf(ref)] = o]
      /\ page \in PagedPages
  <2>1. page.live = old.live /\ page.slots = [old.slots EXCEPT ![SlotOf(ref)] = o]
    BY <1>1 DEF PagedPages
  <2>2. page = [slots |-> page.slots, live |-> page.live]
    BY <1>1 DEF PagedPages
  <2>3. page.slots \in [0 .. PageSize - 1 -> Orders \cup {Dead}] /\ page.live \in Nat
    BY <1>1, <2>1 DEF PagedPages
  <2> QED BY <2>1, <2>2, <2>3 DEF PagedPages
<1>3. v = WithPage(u, pn, page)
  BY PagedNames DEF Paged!Write
<1> HIDE DEF page
<1>4. /\ v \in PagedStoresAll /\ v.spare = u.spare
      /\ v.pages[pn] = page /\ \A p \in PageNumbers \ {pn} : v.pages[p] = u.pages[p]
  BY ONLY <1>1, <1>2, <1>3, u \in PagedStoresAll, PagedIn
<1>5. page # NoPage
  BY <1>2, PagedAssumption DEF PagedPages
<1>6. Resident(v) = Resident(u)
  BY <1>4, <1>5 DEF Resident
<1>7. Lives(v) = Lives(u)
  BY <1>2, <1>4, <1>6 DEF Lives, Resident
<1>8. Paged!Find(v, ref) = o
  BY <1>1, <1>2, <1>4, <1>6, PagedNames DEF PagedPages
<1>9. ASSUME NEW r \in AllRefs \ {ref} PROVE Paged!Find(v, r) = Paged!Find(u, r)
  <2>1. PageOf(r) \in PageNumbers /\ SlotOf(r) \in 0 .. PageSize - 1
    BY Placing
  <2>2. CASE PageOf(r) = pn
    <3>1. SlotOf(r) # SlotOf(ref)
      BY <2>2, Placing
    <3>2. page.slots[SlotOf(r)] = old.slots[SlotOf(r)]
      BY <1>1, <1>2, <2>1, <3>1 DEF PagedPages
    <3> QED BY <1>4, <1>6, <2>2, <3>2, PagedNames
  <2>3. CASE PageOf(r) # pn
    BY <1>4, <1>6, <2>1, <2>3, PagedNames
  <2> QED BY <2>2, <2>3
<1> QED BY <1>4, <1>7, <1>8, <1>9

\* note_dead() gives back the page with its last order.
LEMMA PagedDead ==
  ASSUME NEW u \in PagedStoresAll, NEW ref \in AllRefs, PageOf(ref) \in Resident(u),
         u.pages[PageOf(ref)].live # 0, NEW v, v = Paged!NoteDead(u, ref)
  PROVE  /\ v \in PagedStoresAll /\ Lives(v) = Less(Lives(u), PageOf(ref))
         /\ Len(v.spare) = Returned(Lives(u), PageOf(ref), Len(u.spare))
         /\ \A r \in AllRefs : Paged!Find(v, r) =
              IF PageOf(r) \in DOMAIN Lives(v) THEN Paged!Find(u, r) ELSE Dead
<1> DEFINE pn == PageOf(ref)
           n  == u.pages[pn].live - 1
           w  == WithLive(u, pn, n)
<1>1. pn \in PageNumbers /\ u.pages[pn].live \in Nat
  BY Placing, ThePagedPage
<1>2. n \in Nat
  BY <1>1
<1>3. /\ w \in PagedStoresAll /\ w.spare = u.spare /\ Resident(w) = Resident(u)
      /\ w.pages[pn] \in PagedPages /\ w.pages[pn].live = n
      /\ Lives(w) = [Lives(u) EXCEPT ![pn] = n]
      /\ \A r : Paged!Find(w, r) = Paged!Find(u, r)
  <2>1. w = WithLive(u, pn, n)
    OBVIOUS
  <2> HIDE DEF w, n, pn
  <2> QED BY <1>2, <2>1, PagedCount DEF pn
<1>4. DOMAIN Lives(u) = Resident(u) /\ Lives(u)[pn] = u.pages[pn].live
  BY DEF Lives
<1>5. CASE n = 0
  <2> DEFINE x == WithPage(w, pn, NoPage)
             s == Append(u.spare, w.pages[pn])
  <2>1. v = [x EXCEPT !.spare = s]
    BY <1>3, <1>5, PagedNames DEF Paged!NoteDead
  <2> HIDE DEF w
  <2>2. /\ x \in PagedStoresAll
        /\ x.pages[pn] = NoPage /\ \A p \in PageNumbers \ {pn} : x.pages[p] = w.pages[p]
    BY <1>1, <1>3, PagedIn
  <2>3. s \in Seq(PagedPages) /\ Len(s) = Len(u.spare) + 1
    BY <1>3, AppendProperties DEF PagedStoresAll
  <2> HIDE DEF x, s
  <2>4. v \in PagedStoresAll /\ v.spare = s /\ v.pages = x.pages
    BY ONLY <2>1, <2>2, <2>3, PagedSpare
  <2>5. Resident(v) = Resident(u) \ {pn}
    <3>1. Resident(v) = Resident(w) \ {pn}
      BY <2>2, <2>4 DEF Resident
    <3> QED BY <1>3, <3>1
  <2>6. \A p \in Resident(v) : p \in PageNumbers \ {pn} /\ v.pages[p] = w.pages[p]
    BY <2>2, <2>4, <2>5 DEF Resident
  <2>7. \A p \in Resident(v) : w.pages[p].live = u.pages[p].live
    <3>1. \A p \in Resident(w) : Lives(w)[p] = w.pages[p].live
      BY DEF Lives
    <3>2. \A p \in Resident(u) : Lives(u)[p] = u.pages[p].live
      BY DEF Lives
    <3>3. \A p \in Resident(u) \ {pn} : Lives(w)[p] = Lives(u)[p]
      BY <1>3, <1>4
    <3> QED BY <1>3, <2>5, <3>1, <3>2, <3>3
  <2>8. Lives(u)[pn] = 1
    BY <1>1, <1>4, <1>5
  <2>9. Lives(v) = Less(Lives(u), pn)
    BY <1>4, <2>5, <2>6, <2>7, <2>8 DEF Lives, Less
  <2>10. Len(v.spare) = Returned(Lives(u), pn, Len(u.spare))
    BY <2>3, <2>4, <2>8 DEF Returned
  <2>11. ASSUME NEW r \in AllRefs
         PROVE  Paged!Find(v, r) = IF PageOf(r) \in DOMAIN Lives(v) THEN Paged!Find(u, r) ELSE Dead
    <3>1. DOMAIN Lives(v) = Resident(v)
      BY DEF Lives
    <3>2. CASE PageOf(r) \in Resident(v)
      <4>1. v.pages[PageOf(r)] = w.pages[PageOf(r)] /\ PageOf(r) \in Resident(w)
        BY <1>3, <2>5, <2>6, <3>2
      <4>2. Paged!Find(v, r) = Paged!Find(w, r)
        BY <3>2, <4>1, PagedNames
      <4> QED BY <1>3, <3>1, <3>2, <4>2
    <3>3. CASE PageOf(r) \notin Resident(v)
      BY <3>1, <3>3, PagedNames
    <3> QED BY <3>2, <3>3
  <2> QED BY <2>4, <2>9, <2>10, <2>11
<1>6. CASE n # 0
  <2>1. v = IF w.pages[pn].live > 0 THEN w
            ELSE [WithPage(w, pn, NoPage) EXCEPT !.spare = Append(u.spare, w.pages[pn])]
    BY PagedNames DEF Paged!NoteDead
  <2>2. Lives(u)[pn] # 1 /\ n = Lives(u)[pn] - 1
    BY <1>1, <1>4, <1>6
  <2> HIDE DEF w, n
  <2>3. w.pages[pn].live > 0
    BY <1>2, <1>3, <1>6
  <2>4. v = w
    BY ONLY <2>1, <2>3
  <2>5. Lives(v) = Less(Lives(u), pn)
    BY <1>3, <2>2, <2>4 DEF Less
  <2>6. Len(v.spare) = Returned(Lives(u), pn, Len(u.spare))
    BY <1>3, <2>2, <2>4 DEF Returned
  <2>7. DOMAIN Lives(v) = Resident(u)
    BY <1>3, <2>4 DEF Lives
  <2> QED BY <1>3, <2>4, <2>5, <2>6, <2>7, PagedNames
<1> QED BY <1>5, <1>6

-----------------------------------------------------------------------------
(* The three stores side by side.                                          *)

\* t, u and w find the same, t and u have the same pages with the same counts and as
\* many that wait, and w has an entry where t has a handle.
Agree(t, u, w) ==
  /\ u \in PagedStoresAll /\ Lives(u) = Lives(t) /\ Len(u.spare) = t.spare
  /\ \A r \in AllRefs : Paged!Find(u, r) = Find(t, r)
  /\ w = [r \in Held(t) |-> Find(t, r)]

\* The third store finds the same as well.
LEMMA HashedFinds ==
  ASSUME NEW t, NEW u, NEW w, Agree(t, u, w), NEW r \in AllRefs
  PROVE  Hashed!Find(w, r) = Find(t, r) /\ (r \in DOMAIN w <=> HandleOf(t, r) # Nil)
<1>1. DOMAIN w = Held(t) /\ \A s \in Held(t) : w[s] = Find(t, s)
  BY DEF Agree
<1>2. r \in Held(t) <=> HandleOf(t, r) # Nil
  BY DEF Held
<1> QED BY <1>1, <1>2 DEF Hashed!Find, Find

\* Touching a reference with a handle does nothing to any of them.
LEMMA TouchHeldAgrees ==
  ASSUME NEW t, NEW u, NEW w, Agree(t, u, w), NEW ref \in Held(t)
  PROVE  /\ Paged!Touch(u, ref) = u /\ Hashed!Touch(w, ref) = w
         /\ PageOf(ref) \in Resident(t) /\ PageOf(ref) \in Resident(u) /\ ref \in DOMAIN w
<1>1. PageOf(ref) \in Resident(t) /\ ref \in AllRefs
  BY TouchHeld DEF Held
<1>2. Resident(u) = Resident(t)
  <2>1. DOMAIN Lives(u) = Resident(u) /\ DOMAIN Lives(t) = Resident(t)
    BY DEF Lives
  <2> QED BY <2>1 DEF Agree
<1>3. Paged!Touch(u, ref) = u
  BY <1>1, <1>2, PagedNames DEF Paged!Touch
<1>4. w = [r \in Held(t) |-> Find(t, r)] /\ DOMAIN w = Held(t)
  BY DEF Agree
<1>5. \A r \in Held(t) : Hashed!Find(w, r) = Find(t, r)
  BY HashedFinds DEF Held
<1>6. Hashed!Touch(w, ref) = [r \in Held(t) |-> Hashed!Find(w, r)]
  <2>1. DOMAIN w \cup {ref} = Held(t)
    BY <1>4
  <2> QED BY <2>1 DEF Hashed!Touch
<1>7. Hashed!Touch(w, ref) = w
  BY ONLY <1>4, <1>5, <1>6
<1> QED BY <1>1, <1>2, <1>3, <1>4, <1>7

\* Nor does relinking a neighbour.
LEMMA RelinkedAgrees ==
  ASSUME NEW t, NEW u, NEW w, Agree(t, u, w), NEW near \in AllRefs
  PROVE  Paged!Relinked(u, near) = u /\ Hashed!Relinked(w, near) = w
<1>1. Paged!Find(u, near) = Find(t, near) /\ Hashed!Find(w, near) = Find(t, near)
  BY HashedFinds DEF Agree
<1>2. Find(t, near) # Dead => near \in Held(t)
  BY DEF Find, Held
<1>3. Find(t, near) # Dead => Paged!Touch(u, near) = u /\ Hashed!Touch(w, near) = w
  BY <1>2, TouchHeldAgrees
<1>4. Paged!Relinked(u, near) = u
  BY <1>1, <1>3 DEF Paged!Relinked, Paged!Holds
<1>5. Hashed!Relinked(w, near) = w
  BY <1>1, <1>3 DEF Hashed!Relinked, Hashed!Holds
<1> QED BY <1>4, <1>5

\* touch() of a reference with no order.
LEMMA TouchAgrees ==
  ASSUME NEW t, NEW c, Sound(t, c), NEW u, NEW w, Agree(t, u, w),
         NEW ref \in Refs, HandleOf(t, ref) = Nil, NEW x, x = Touch(t, ref)
  PROVE  Agree(x, Paged!Touch(u, ref), Hashed!Touch(w, ref))
<1>1. /\ Held(x) = Held(t) \cup {ref} /\ \A r \in AllRefs : Find(x, r) = Find(t, r)
      /\ Lives(x) = Touched(Lives(t), PageOf(ref))
      /\ x.spare = Waiting(Lives(t), PageOf(ref), t.spare)
  BY TouchNew
<1>2. ref \in AllRefs
  BY DEF AllRefs
<1> DEFINE v == Paged!Touch(u, ref)
           y == Hashed!Touch(w, ref)
<1>3. /\ v \in PagedStoresAll
      /\ Lives(v) = Touched(Lives(u), PageOf(ref))
      /\ Len(v.spare) = Waiting(Lives(u), PageOf(ref), Len(u.spare))
      /\ \A r \in AllRefs : Paged!Find(v, r) = Paged!Find(u, r)
  <2>1. u \in PagedStoresAll
    BY DEF Agree
  <2> QED BY <1>2, <2>1, PagedTouch
<1>4. y = [r \in Held(x) |-> Find(x, r)]
  <2>1. DOMAIN w \cup {ref} = Held(x)
    BY <1>1 DEF Agree
  <2>2. y = [r \in Held(x) |-> Hashed!Find(w, r)]
    BY <2>1 DEF Hashed!Touch
  <2>3. \A r \in Held(x) : Hashed!Find(w, r) = Find(x, r)
    BY <1>1, HashedFinds DEF Held
  <2> HIDE DEF y
  <2> QED BY <2>2, <2>3
<1> HIDE DEF v, y
<1>5. Agree(x, v, y)
  BY <1>1, <1>3, <1>4 DEF Agree
<1> QED BY <1>5 DEF v, y

\* Writing through a held reference.
LEMMA WriteAgrees ==
  ASSUME NEW t, NEW c, Sound(t, c), NEW u, NEW w, Agree(t, u, w), NEW ref \in Held(t),
         NEW o \in Orders \cup {Dead}, NEW x, x = Write(t, At(t, ref), o)
  PROVE  Agree(x, Paged!Write(u, Paged!At(u, ref), o), Hashed!Write(w, Hashed!At(w, ref), o))
<1>1. /\ Held(x) = Held(t) /\ Lives(x) = Lives(t) /\ x.spare = t.spare /\ Find(x, ref) = o
      /\ \A r \in AllRefs \ {ref} : Find(x, r) = Find(t, r)
  BY Writing
<1>2. ref \in AllRefs /\ PageOf(ref) \in Resident(u) /\ u \in PagedStoresAll
  BY TouchHeldAgrees DEF Held, Agree
<1> DEFINE v == Paged!Write(u, ref, o)
           y == Hashed!Write(w, ref, o)
<1>3. /\ v \in PagedStoresAll /\ v.spare = u.spare /\ Lives(v) = Lives(u)
      /\ Paged!Find(v, ref) = o
      /\ \A r \in AllRefs \ {ref} : Paged!Find(v, r) = Paged!Find(u, r)
  BY <1>2, PagedWrite
<1>4. y = [r \in Held(x) |-> Find(x, r)]
  <2>1. w = [r \in Held(t) |-> Find(t, r)] /\ Held(t) \subseteq AllRefs
    BY DEF Agree, Held
  <2>2. y = [w EXCEPT ![ref] = o]
    BY DEF Hashed!Write
  <2> HIDE DEF y
  <2> QED BY <1>1, <2>1, <2>2
<1> HIDE DEF v, y
<1>5. Agree(x, v, y)
  <2>1. \A r \in AllRefs : Paged!Find(v, r) = Find(x, r)
    BY <1>1, <1>3 DEF Agree
  <2> QED BY <1>1, <1>3, <1>4, <2>1 DEF Agree
<1>6. Paged!At(u, ref) = ref /\ Hashed!At(w, ref) = ref
  BY DEF Paged!At, Hashed!At
<1> QED BY <1>5, <1>6 DEF v, y

\* note_live().
LEMMA LiveAgrees ==
  ASSUME NEW t, NEW c, Sound(t, c), NEW u, NEW w, Agree(t, u, w), NEW ref \in Held(t),
         ref \notin c, NEW x, x = NoteLive(t, ref)
  PROVE  Agree(x, Paged!NoteLive(u, ref), Hashed!NoteLive(w, ref))
<1> DEFINE pn == PageOf(ref)
<1>1. /\ Sound(x, c \cup {ref}) /\ Held(x) = Held(t)
      /\ \A r \in AllRefs : Find(x, r) = Find(t, r)
      /\ Lives(x) = More(Lives(t), PageOf(ref)) /\ x.spare = t.spare
  BY Living
<1>2. /\ ref \in AllRefs /\ pn \in Resident(u) /\ u \in PagedStoresAll
      /\ Lives(u) = Lives(t) /\ Lives(u)[pn] = u.pages[pn].live
  BY TouchHeldAgrees DEF Held, Agree, Lives
<1> DEFINE n == u.pages[pn].live + 1
           v == WithLive(u, pn, n)
<1>3. n \in Nat
  BY <1>2, ThePagedPage DEF Resident
<1> HIDE DEF n, pn
<1>4. /\ v \in PagedStoresAll /\ v.spare = u.spare
      /\ Lives(v) = [Lives(u) EXCEPT ![pn] = n]
      /\ \A r : Paged!Find(v, r) = Paged!Find(u, r)
  BY <1>2, <1>3, PagedCount
<1>5. Paged!NoteLive(u, ref) = v
  BY PagedNames DEF Paged!NoteLive, n, pn
<1> HIDE DEF v
<1>6. Lives(v) = Lives(x)
  <2>1. Lives(x) = [Lives(t) EXCEPT ![pn] = Lives(t)[pn] + 1]
    BY <1>1 DEF More, pn
  <2> QED BY <1>2, <1>4, <2>1 DEF n
<1>7. Hashed!NoteLive(w, ref) = w
  BY DEF Hashed!NoteLive
<1>8. w = [r \in Held(x) |-> Find(x, r)]
  <2>1. w = [r \in Held(t) |-> Find(t, r)] /\ Held(t) \subseteq AllRefs
    BY DEF Agree, Held
  <2> QED BY <1>1, <2>1
<1>9. Agree(x, v, w)
  BY <1>1, <1>4, <1>6, <1>8 DEF Agree
<1> QED BY <1>5, <1>7, <1>9

\* note_dead(), of an order that is dead.
LEMMA DeadAgrees ==
  ASSUME NEW t, Sound(t, Held(t)), NEW u, NEW w, Agree(t, u, w), NEW ref \in Held(t),
         Find(t, ref) = Dead, NEW x, x = NoteDead(t, ref)
  PROVE  Agree(x, Paged!NoteDead(u, ref), Hashed!NoteDead(w, ref))
<1> DEFINE pn == PageOf(ref)
<1>1. /\ Held(x) = Held(t) \ {ref} /\ Find(x, ref) = Dead
      /\ \A r \in AllRefs \ {ref} : Find(x, r) = Find(t, r)
      /\ Lives(x) = Less(Lives(t), pn) /\ x.spare = Returned(Lives(t), pn, t.spare)
      /\ t.pages[pn].live \in Nat \ {0}
  BY Dying
<1>2. /\ ref \in AllRefs /\ pn \in Resident(u) /\ pn \in Resident(t) /\ u \in PagedStoresAll
      /\ Lives(u) = Lives(t)
  BY TouchHeldAgrees DEF Held, Agree
<1>3. u.pages[pn].live = t.pages[pn].live
  <2>1. Lives(u)[pn] = u.pages[pn].live /\ Lives(t)[pn] = t.pages[pn].live
    BY <1>2 DEF Lives
  <2> QED BY <1>2, <2>1
<1> DEFINE v == Paged!NoteDead(u, ref)
           y == Hashed!NoteDead(w, ref)
<1>4. /\ v \in PagedStoresAll /\ Lives(v) = Less(Lives(u), pn)
      /\ Len(v.spare) = Returned(Lives(u), pn, Len(u.spare))
      /\ \A r \in AllRefs : Paged!Find(v, r) =
           IF PageOf(r) \in DOMAIN Lives(v) THEN Paged!Find(u, r) ELSE Dead
  BY <1>1, <1>2, <1>3, PagedDead
<1>5. y = [r \in Held(x) |-> Find(x, r)]
  <2>1. w = [r \in Held(t) |-> Find(t, r)] /\ Held(t) \subseteq AllRefs
    BY DEF Agree, Held
  <2>2. y = [r \in DOMAIN w \ {ref} |-> w[r]]
    BY DEF Hashed!NoteDead
  <2> HIDE DEF y
  <2> QED BY <1>1, <2>1, <2>2
<1> HIDE DEF v, y
<1>6. Lives(v) = Lives(x) /\ Len(v.spare) = x.spare
  BY <1>1, <1>2, <1>4 DEF Agree
<1>7. ASSUME NEW r \in AllRefs PROVE Paged!Find(v, r) = Find(x, r)
  <2>1. DOMAIN Lives(v) = Resident(x)
    BY <1>6 DEF Lives
  <2>2. CASE PageOf(r) \in Resident(x)
    <3>1. Paged!Find(v, r) = Find(t, r)
      BY <1>4, <2>1, <2>2 DEF Agree
    <3> QED BY <1>1, <3>1
  <2>3. CASE PageOf(r) \notin Resident(x)
    <3>1. Find(x, r) = Dead
      BY <2>3 DEF Find, HandleOf
    <3> QED BY <1>4, <2>1, <2>3, <3>1
  <2> QED BY <2>2, <2>3
<1>8. Agree(x, v, y)
  BY <1>4, <1>5, <1>6, <1>7 DEF Agree
<1> QED BY <1>8 DEF v, y

\* Book::remove.
LEMMA RemoveAgrees ==
  ASSUME NEW t, Sound(t, Held(t)), NEW u, NEW w, Agree(t, u, w), NEW ref \in Held(t),
         NEW near \in AllRefs, NEW x, x = Remove(t, ref, At(t, ref), near)
  PROVE  Agree(x, Paged!Remove(u, ref, Paged!At(u, ref), near),
                  Hashed!Remove(w, ref, Hashed!At(w, ref), near))
<1> DEFINE a == Write(t, At(t, ref), Dead)
           b == Paged!Write(u, Paged!At(u, ref), Dead)
           c == Hashed!Write(w, Hashed!At(w, ref), Dead)
<1>1. a = Write(t, At(t, ref), Dead) /\ Dead \in Orders \cup {Dead}
  OBVIOUS
<1>2. /\ x = NoteDead(a, ref)
      /\ Paged!Remove(u, ref, Paged!At(u, ref), near) = Paged!NoteDead(b, ref)
      /\ Hashed!Remove(w, ref, Hashed!At(w, ref), near) = Hashed!NoteDead(c, ref)
  <2>1. x = NoteDead(a, ref)
    BY RelinkedStays DEF Remove
  <2>2. Paged!Relinked(u, near) = u /\ Hashed!Relinked(w, near) = w
    BY RelinkedAgrees
  <2>3. Paged!Remove(u, ref, Paged!At(u, ref), near) = Paged!NoteDead(b, ref)
    BY <2>2 DEF Paged!Remove
  <2>4. Hashed!Remove(w, ref, Hashed!At(w, ref), near) = Hashed!NoteDead(c, ref)
    BY <2>2 DEF Hashed!Remove
  <2> QED BY <2>1, <2>3, <2>4
<1>3. Agree(a, b, c)
  <2> HIDE DEF a
  <2> QED BY <1>1, WriteAgrees DEF b, c
<1> HIDE DEF a, b, c
<1>4. Sound(a, Held(t)) /\ Held(a) = Held(t) /\ Find(a, ref) = Dead
  BY <1>1, Writing
<1>5. Agree(x, Paged!NoteDead(b, ref), Hashed!NoteDead(c, ref))
  BY <1>2, <1>3, <1>4, DeadAgrees
<1> QED BY <1>2, <1>5

\* touch() and Book::add.
LEMMA AddAgrees ==
  ASSUME NEW t, Sound(t, Held(t)), NEW u, NEW w, Agree(t, u, w),
         NEW ref \in Refs, HandleOf(t, ref) = Nil, NEW o \in Orders, NEW near \in AllRefs,
         NEW tt, tt = Touch(t, ref), NEW uu, uu = Paged!Touch(u, ref),
         NEW ww, ww = Hashed!Touch(w, ref), NEW x, x = Add(tt, ref, At(tt, ref), o, near)
  PROVE  Agree(x, Paged!Add(uu, ref, Paged!At(uu, ref), o, near),
                  Hashed!Add(ww, ref, Hashed!At(ww, ref), o, near))
<1> DEFINE h == Held(t)
           a == Write(tt, At(tt, ref), o)
           b == Paged!Write(uu, Paged!At(uu, ref), o)
           c == Hashed!Write(ww, Hashed!At(ww, ref), o)
<1>1. Sound(tt, h) /\ Held(tt) = Held(t) \cup {ref} /\ ref \notin h
  BY TouchNew
<1>2. Agree(tt, uu, ww)
  BY TouchAgrees
<1>3. a = Write(tt, At(tt, ref), o) /\ o \in Orders \cup {Dead} /\ ref \in Held(tt)
  BY <1>1
<1> HIDE DEF h
<1>4. Agree(a, b, c)
  <2> HIDE DEF a
  <2> QED BY <1>1, <1>2, <1>3, WriteAgrees DEF b, c
<1>5. Sound(a, h) /\ Held(a) = Held(tt)
  <2> HIDE DEF a
  <2> QED BY <1>1, <1>3, Writing
<1>6. /\ x = NoteLive(a, ref)
      /\ Paged!Add(uu, ref, Paged!At(uu, ref), o, near) = Paged!NoteLive(b, ref)
      /\ Hashed!Add(ww, ref, Hashed!At(ww, ref), o, near) = Hashed!NoteLive(c, ref)
  <2>1. x = NoteLive(a, ref)
    BY RelinkedStays DEF Add
  <2> HIDE DEF a, b, c
  <2>2. Paged!Relinked(b, near) = b /\ Hashed!Relinked(c, near) = c
    BY <1>4, RelinkedAgrees
  <2>3. Paged!Add(uu, ref, Paged!At(uu, ref), o, near) = Paged!NoteLive(b, ref)
    BY <2>2 DEF Paged!Add, b
  <2>4. Hashed!Add(ww, ref, Hashed!At(ww, ref), o, near) = Hashed!NoteLive(c, ref)
    BY <2>2 DEF Hashed!Add, c
  <2> QED BY <2>1, <2>3, <2>4
<1> HIDE DEF a, b, c
<1>7. Agree(x, Paged!NoteLive(b, ref), Hashed!NoteLive(c, ref))
  BY <1>1, <1>3, <1>4, <1>5, <1>6, LiveAgrees
<1> QED BY <1>6, <1>7

-----------------------------------------------------------------------------
(* The handlers on the three stores.                                       *)

AllAgree == Agree(store, paged, hashed)

\* What a held reference reads is what the store finds.
LEMMA ReadAgrees ==
  ASSUME NEW t, NEW u, NEW w, Agree(t, u, w), NEW ref \in Held(t)
  PROVE  /\ Paged!Read(u, Paged!At(u, ref)) = Find(t, ref)
         /\ Hashed!Read(w, Hashed!At(w, ref)) = Find(t, ref)
<1>1. PageOf(ref) \in Resident(u) /\ Paged!Find(u, ref) = Find(t, ref) /\ w[ref] = Find(t, ref)
  BY TouchHeldAgrees DEF Agree, Held
<1>2. Paged!Read(u, Paged!At(u, ref)) = Paged!Find(u, ref)
  BY <1>1, PagedNames DEF Paged!Read, Paged!At
<1> QED BY <1>1, <1>2 DEF Hashed!Read, Hashed!At

\* A new order, the eviction of one under its reference included.
LEMMA AddsAgree ==
  ASSUME Steady(store), AllAgree, NEW ref \in Refs, NEW o \in Orders, NEW near \in AllRefs,
         OnAdd(ref, o, near), Paged!OnAdd(ref, o, near), Hashed!OnAdd(ref, o, near)
  PROVE  AllAgree'
<1>1. /\ Sound(store, Held(store)) /\ ref \in AllRefs /\ Agree(store, paged, hashed)
      /\ ref \in Held(store) => Find(store, ref) # Dead
  BY SteadyHeld DEF Steady, AllRefs, AllAgree
<1>2. CASE HandleOf(store, ref) # Nil
  <2> DEFINE x == Remove(store, ref, At(store, ref), near)
             y == Paged!Remove(paged, ref, Paged!At(paged, ref), near)
             z == Hashed!Remove(hashed, ref, Hashed!At(hashed, ref), near)
             tt == Touch(x, ref)
             uu == Paged!Touch(y, ref)
             ww == Hashed!Touch(z, ref)
  <2>1. ref \in Held(store) /\ Touch(store, ref) = store
    BY <1>1, <1>2, TouchHeld DEF Held
  <2>2. Paged!Touch(paged, ref) = paged /\ Hashed!Touch(hashed, ref) = hashed
    BY <1>1, <2>1, TouchHeldAgrees
  <2>3. /\ Read(store, At(store, ref)) # Dead
        /\ Paged!Read(paged, Paged!At(paged, ref)) # Dead
        /\ Hashed!Read(hashed, Hashed!At(hashed, ref)) # Dead
    BY <1>1, <2>1, ReadFinds, ReadAgrees
  <2>4. store' = Add(tt, ref, At(tt, ref), o, near)
    BY <2>1, <2>3 DEF OnAdd
  <2>5. paged' = Paged!Add(uu, ref, Paged!At(uu, ref), o, near)
    BY <2>2, <2>3 DEF Paged!OnAdd
  <2>6. hashed' = Hashed!Add(ww, ref, Hashed!At(ww, ref), o, near)
    BY <2>2, <2>3 DEF Hashed!OnAdd
  <2>7. x = Remove(store, ref, At(store, ref), near)
    OBVIOUS
  <2>8. Agree(x, y, z)
    <3> HIDE DEF x
    <3> QED BY <1>1, <2>1, <2>7, RemoveAgrees DEF y, z
  <2> HIDE DEF x, y, z
  <2>9. Sound(x, Held(x)) /\ Held(x) = Held(store) \ {ref}
    BY <1>1, <2>1, <2>7, Removing
  <2>10. HandleOf(x, ref) = Nil
    BY <1>1, <2>9 DEF Held
  <2>11. tt = Touch(x, ref) /\ uu = Paged!Touch(y, ref) /\ ww = Hashed!Touch(z, ref)
    OBVIOUS
  <2> HIDE DEF tt, uu, ww
  <2>12. Agree(store', paged', hashed')
    BY <2>4, <2>5, <2>6, <2>8, <2>9, <2>10, <2>11, AddAgrees
  <2> QED BY <2>12 DEF AllAgree, Agree, Held, Lives
<1>3. CASE HandleOf(store, ref) = Nil
  <2> DEFINE tt == Touch(store, ref)
             uu == Paged!Touch(paged, ref)
             ww == Hashed!Touch(hashed, ref)
  <2>1. Held(tt) = Held(store) \cup {ref} /\ Find(tt, ref) = Dead
    BY <1>1, <1>3, TouchNew
  <2>2. Agree(tt, uu, ww)
    BY <1>1, <1>3, TouchAgrees
  <2>3. tt = Touch(store, ref) /\ uu = Paged!Touch(paged, ref) /\ ww = Hashed!Touch(hashed, ref)
    OBVIOUS
  <2> HIDE DEF tt, uu, ww
  <2>4. /\ Read(tt, At(tt, ref)) = Dead
        /\ Paged!Read(uu, Paged!At(uu, ref)) = Dead
        /\ Hashed!Read(ww, Hashed!At(ww, ref)) = Dead
    BY <2>1, <2>2, ReadFinds, ReadAgrees
  <2>5. store' = Add(tt, ref, At(tt, ref), o, near)
    BY <2>4 DEF OnAdd, tt
  <2>6. paged' = Paged!Add(uu, ref, Paged!At(uu, ref), o, near)
    BY <2>4 DEF Paged!OnAdd, uu
  <2>7. hashed' = Hashed!Add(ww, ref, Hashed!At(ww, ref), o, near)
    BY <2>4 DEF Hashed!OnAdd, ww
  <2>8. Agree(store', paged', hashed')
    BY <1>1, <1>3, <2>3, <2>5, <2>6, <2>7, AddAgrees
  <2> QED BY <2>8 DEF AllAgree, Agree, Held, Lives
<1> QED BY <1>2, <1>3

\* An execution or a cancel that leaves shares.
LEMMA ReducesAgree ==
  ASSUME Steady(store), AllAgree, NEW ref \in AllRefs, NEW o \in Orders,
         OnReduce(ref, o), Paged!OnReduce(ref, o), Hashed!OnReduce(ref, o)
  PROVE  AllAgree'
<1>1. /\ Sound(store, Held(store)) /\ Agree(store, paged, hashed) /\ ref \in Held(store)
      /\ store' = Write(store, At(store, ref), o)
      /\ paged' = Paged!Write(paged, Paged!At(paged, ref), o)
      /\ hashed' = Hashed!Write(hashed, Hashed!At(hashed, ref), o)
  BY SteadyHeld DEF Steady, AllAgree, OnReduce, Paged!OnReduce, Hashed!OnReduce, Holds
<1>2. o \in Orders \cup {Dead}
  OBVIOUS
<1>3. Agree(store', paged', hashed')
  BY <1>1, <1>2, WriteAgrees
<1> QED BY <1>3 DEF AllAgree, Agree, Held, Lives

\* A delete, an execution or a cancel of the whole order.
LEMMA DeletesAgree ==
  ASSUME Steady(store), AllAgree, NEW ref \in AllRefs, NEW near \in AllRefs,
         OnDelete(ref, near), Paged!OnDelete(ref, near), Hashed!OnDelete(ref, near)
  PROVE  AllAgree'
<1>1. /\ Sound(store, Held(store)) /\ Agree(store, paged, hashed) /\ ref \in Held(store)
      /\ store' = Remove(store, ref, At(store, ref), near)
      /\ paged' = Paged!Remove(paged, ref, Paged!At(paged, ref), near)
      /\ hashed' = Hashed!Remove(hashed, ref, Hashed!At(hashed, ref), near)
  BY SteadyHeld DEF Steady, AllAgree, OnDelete, Paged!OnDelete, Hashed!OnDelete, Holds
<1>2. Agree(store', paged', hashed')
  BY <1>1, RemoveAgrees
<1> QED BY <1>2 DEF AllAgree, Agree, Held, Lives

\* A replace: of the order it names, of one already under its new reference, and
\* refused.
LEMMA ReplacesAgree ==
  ASSUME Steady(store), AllAgree, NEW old \in AllRefs, NEW new \in AllRefs,
         NEW o, o = Dead \/ (o \in Orders /\ new \in Refs), NEW near \in AllRefs,
         OnReplace(old, new, o, near), Paged!OnReplace(old, new, o, near),
         Hashed!OnReplace(old, new, o, near)
  PROVE  AllAgree'
<1> DEFINE dup == new # old /\ Holds(store, new)
           t1  == IF dup THEN Remove(store, new, At(store, new), near) ELSE store
           u1  == IF dup THEN Paged!Remove(paged, new, Paged!At(paged, new), near) ELSE paged
           w1  == IF dup THEN Hashed!Remove(hashed, new, Hashed!At(hashed, new), near)
                         ELSE hashed
           t2  == Remove(t1, old, At(t1, old), near)
           u2  == Paged!Remove(u1, old, Paged!At(u1, old), near)
           w2  == Hashed!Remove(w1, old, Hashed!At(w1, old), near)
           t3  == Touch(t2, new)
           u3  == Paged!Touch(u2, new)
           w3  == Hashed!Touch(w2, new)
<1>1. /\ Sound(store, Held(store)) /\ Agree(store, paged, hashed) /\ old \in Held(store)
      /\ \A r \in AllRefs : r \in Held(store) <=> Holds(store, r)
  BY SteadyHeld DEF Steady, AllAgree, OnReplace, Holds
<1>2. \A r \in AllRefs : /\ Paged!Holds(paged, r) <=> Holds(store, r)
                         /\ Hashed!Holds(hashed, r) <=> Holds(store, r)
  BY <1>1, HashedFinds DEF Agree, Holds, Paged!Holds, Hashed!Holds
<1>3. store' = IF o = Dead THEN t2 ELSE Add(t3, new, At(t3, new), o, near)
  <2>1. CASE dup
    BY <2>1 DEF OnReplace
  <2>2. CASE ~ dup
    BY <2>2 DEF OnReplace
  <2> QED BY <2>1, <2>2
<1>4. paged' = IF o = Dead THEN u2 ELSE Paged!Add(u3, new, Paged!At(u3, new), o, near)
  <2>1. (new # old /\ Paged!Holds(paged, new)) <=> dup
    BY <1>2
  <2>2. CASE dup
    BY <2>1, <2>2 DEF Paged!OnReplace
  <2>3. CASE ~ dup
    BY <2>1, <2>3 DEF Paged!OnReplace
  <2> QED BY <2>2, <2>3
<1>5. hashed' = IF o = Dead THEN w2 ELSE Hashed!Add(w3, new, Hashed!At(w3, new), o, near)
  <2>1. (new # old /\ Hashed!Holds(hashed, new)) <=> dup
    BY <1>2
  <2>2. CASE dup
    BY <2>1, <2>2 DEF Hashed!OnReplace
  <2>3. CASE ~ dup
    BY <2>1, <2>3 DEF Hashed!OnReplace
  <2> QED BY <2>2, <2>3
<1>6. /\ Agree(t1, u1, w1) /\ Sound(t1, Held(t1)) /\ old \in Held(t1)
      /\ new # old => new \notin Held(t1)
  <2>1. CASE dup
    <3>1. new \in Held(store) /\ t1 = Remove(store, new, At(store, new), near)
      BY <1>1, <2>1
    <3>2. /\ u1 = Paged!Remove(paged, new, Paged!At(paged, new), near)
          /\ w1 = Hashed!Remove(hashed, new, Hashed!At(hashed, new), near)
      BY <2>1
    <3>3. new # old
      BY <2>1
    <3> HIDE DEF t1, u1, w1, dup
    <3>4. Agree(t1, u1, w1)
      BY <1>1, <3>1, <3>2, RemoveAgrees
    <3>5. Sound(t1, Held(t1)) /\ Held(t1) = Held(store) \ {new}
      BY <1>1, <3>1, Removing
    <3> QED BY <1>1, <3>3, <3>4, <3>5
  <2>2. CASE ~ dup
    <3>1. t1 = store /\ u1 = paged /\ w1 = hashed
      BY <2>2
    <3>2. new # old => new \notin Held(store)
      BY <1>1, <2>2
    <3> QED BY <1>1, <3>1, <3>2
  <2> QED BY <2>1, <2>2
<1>7. t2 = Remove(t1, old, At(t1, old), near)
  OBVIOUS
<1> HIDE DEF dup, t1, u1, w1
<1>8. Agree(t2, u2, w2)
  <2> HIDE DEF t2
  <2> QED BY <1>6, <1>7, RemoveAgrees DEF u2, w2
<1> HIDE DEF t2, u2, w2
<1>9. Sound(t2, Held(t2)) /\ Held(t2) = Held(t1) \ {old}
  BY <1>6, <1>7, Removing
<1>10. HandleOf(t2, new) = Nil
  BY <1>6, <1>9 DEF Held
<1>11. t3 = Touch(t2, new) /\ u3 = Paged!Touch(u2, new) /\ w3 = Hashed!Touch(w2, new)
  OBVIOUS
<1> HIDE DEF t3, u3, w3
<1>12. CASE o = Dead
  <2>1. store' = t2 /\ paged' = u2 /\ hashed' = w2
    BY <1>3, <1>4, <1>5, <1>12
  <2>2. Agree(store', paged', hashed')
    BY ONLY <1>8, <2>1
  <2> QED BY <2>2 DEF AllAgree, Agree, Held, Lives
<1>13. CASE o \in Orders /\ new \in Refs
  <2>1. /\ store' = Add(t3, new, At(t3, new), o, near)
        /\ paged' = Paged!Add(u3, new, Paged!At(u3, new), o, near)
        /\ hashed' = Hashed!Add(w3, new, Hashed!At(w3, new), o, near)
    BY <1>3, <1>4, <1>5, <1>13, PageAssumption
  <2>2. Agree(store', paged', hashed')
    BY <1>8, <1>9, <1>10, <1>11, <1>13, <2>1, AddAgrees
  <2> QED BY <2>2 DEF AllAgree, Agree, Held, Lives
<1> QED BY <1>12, <1>13

\* The same page over and over.
LEMMA Repeated ==
  ASSUME NEW S, NEW e \in S, NEW m \in Nat, NEW s, s = [i \in 1 .. m |-> e]
  PROVE  s \in Seq(S) /\ Len(s) = m
OBVIOUS

\* reserve().
LEMMA ReservesAgree ==
  ASSUME Steady(store), AllAgree, NEW n \in Hints,
         Reserve(n), Paged!Reserve(n), Hashed!Reserve(n)
  PROVE  AllAgree'
<1>1. Agree(store, paged, hashed) /\ paged \in PagedStoresAll /\ n \in Nat
  BY PageAssumption DEF AllAgree, Agree
<1>2. /\ \A r \in AllRefs : Find(store', r) = Find(store, r)
      /\ Held(store') = Held(store) /\ Lives(store') = Lives(store)
      /\ store'.spare = IF store.spare < n THEN n ELSE store.spare
  BY ReserveServed
<1> DEFINE size  == Len(paged.spare)
           fresh == [i \in 1 .. n - size |-> Paged!FreshPage]
           spare == paged.spare \o fresh
<1>3. size \in Nat /\ paged.spare \in Seq(PagedPages) /\ size = store.spare
  BY <1>1 DEF PagedStoresAll, Agree
<1>4. fresh \in Seq(PagedPages) /\ Len(fresh) = IF size < n THEN n - size ELSE 0
  <2> DEFINE m == IF size < n THEN n - size ELSE 0
  <2>1. Paged!FreshPage \in PagedPages
    BY DEF Paged!FreshPage, PagedPages
  <2>2. m \in Nat /\ 1 .. n - size = 1 .. m
    BY <1>1, <1>3
  <2>3. fresh = [i \in 1 .. m |-> Paged!FreshPage]
    BY <2>2
  <2> HIDE DEF m, fresh
  <2>4. fresh \in Seq(PagedPages) /\ Len(fresh) = m
    BY ONLY <2>1, <2>2, <2>3, Repeated
  <2> QED BY <2>4 DEF m
<1> HIDE DEF fresh
<1>5. spare \in Seq(PagedPages) /\ Len(spare) = IF size < n THEN n ELSE size
  <2>1. spare \in Seq(PagedPages) /\ Len(spare) = size + Len(fresh)
    BY ONLY <1>3, <1>4, ConcatProperties DEF spare, size
  <2> QED BY ONLY <1>1, <1>3, <1>4, <2>1
<1>6. paged' = [paged EXCEPT !.spare = spare]
  BY DEF Paged!Reserve, Paged!Reserved, fresh
<1> HIDE DEF spare
<1>7. paged' \in PagedStoresAll /\ paged'.spare = spare /\ paged'.pages = paged.pages
  BY <1>1, <1>5, <1>6, PagedSpare
<1>8. Resident(paged') = Resident(paged) /\ Lives(paged') = Lives(paged)
  BY <1>7 DEF Resident, Lives
<1>9. \A r : Paged!Find(paged', r) = Paged!Find(paged, r)
  BY <1>7, <1>8, PagedNames
<1>10. hashed' = hashed /\ Held(store) \subseteq AllRefs
  BY DEF Hashed!Reserve, Hashed!Reserved, Held
<1>11. hashed' = [r \in Held(store') |-> Find(store', r)]
  <2>1. hashed = [r \in Held(store) |-> Find(store, r)]
    BY <1>1 DEF Agree
  <2> QED BY <1>2, <1>10, <2>1
<1>12. Agree(store', paged', hashed')
  BY <1>1, <1>2, <1>3, <1>5, <1>7, <1>8, <1>9, <1>11 DEF Agree
<1> QED BY <1>12 DEF AllAgree, Agree, Held, Lives

-----------------------------------------------------------------------------
(* What the stores count.                                                  *)

\* There are finitely many pages.
LEMMA PagesFinite ==
  IsFiniteSet(PageNumbers) /\ IsFiniteSet(AllRefs)
<1> DEFINE f == [r \in AllRefs |-> PageOf(r)]
<1>1. IsFiniteSet(AllRefs)
  BY PageAssumption, FS_AddElement DEF AllRefs
<1>2. f \in Surjection(AllRefs, PageNumbers)
  BY DEF Surjection, PageNumbers, AllRefs
<1> HIDE DEF f
<1> QED BY <1>1, <1>2, FS_Surjection

\* Every inhabited set of numbers has a least.
LEMMA LeastOf ==
  ASSUME NEW ns \in SUBSET Nat, ns # {}
  PROVE  \E n \in ns : \A m \in ns : n <= m
<1>1. PICK n \in ns : \A m \in ns : ~ (<<m, n>> \in OpToRel(<, Nat))
  BY NatLessThanWellFounded, WFMin
<1>2. \A m \in ns : ~ (m < n)
  BY <1>1 DEF OpToRel
<1> QED BY <1>2

\* The references on a page and those on other pages make up those on all of them.
LEMMA OnePage ==
  ASSUME NEW refs, refs \subseteq Refs, NEW qs \in SUBSET PageNumbers, NEW p \in qs
  PROVE  /\ Cardinality(OnPages(refs, qs)) =
              Cardinality(On(refs, p)) + Cardinality(OnPages(refs, qs \ {p}))
         /\ Cardinality(OnPages(refs, qs \ {p})) \in Nat /\ Cardinality(On(refs, p)) \in Nat
<1> DEFINE left == OnPages(refs, qs \ {p})
<1>1. /\ OnPages(refs, qs) = left \cup On(refs, p) /\ left \cap On(refs, p) = {}
      /\ left \subseteq refs /\ On(refs, p) \subseteq refs
  BY DEF On, OnPages
<1>2. IsFiniteSet(refs)
  BY PageAssumption, FS_Subset
<1> HIDE DEF left
<1>3. IsFiniteSet(left) /\ IsFiniteSet(On(refs, p))
  BY <1>1, <1>2, FS_Subset
<1>4. /\ Cardinality(left) \in Nat /\ Cardinality(On(refs, p)) \in Nat
      /\ Cardinality({}) = 0
  BY <1>3, FS_CardinalityType, FS_EmptySet
<1>5. Cardinality(OnPages(refs, qs)) =
        Cardinality(left) + Cardinality(On(refs, p)) - Cardinality({})
  BY <1>1, <1>3, FS_Union
<1> QED BY <1>4, <1>5 DEF left

\* A fold of the counts over pages counts the references on them, in whatever order it
\* goes.
LEMMA FoldCounts ==
  ASSUME NEW refs, refs \subseteq Refs, NEW u, NEW ps \in SUBSET PageNumbers,
         \A p \in ps : u.pages[p].live = Cardinality(On(refs, p)),
         NEW g, Folded(u, ps, g)
  PROVE  g[ps] = Cardinality(OnPages(refs, ps))
<1> DEFINE bad == {n \in Nat : \E qs \in SUBSET ps :
                     Cardinality(qs) = n /\ g[qs] # Cardinality(OnPages(refs, qs))}
<1>1. \A qs \in SUBSET ps : IsFiniteSet(qs) /\ Cardinality(qs) \in Nat
  BY PagesFinite, FS_Subset, FS_CardinalityType
<1>2. bad = {}
  <2> SUFFICES ASSUME bad # {} PROVE FALSE
    OBVIOUS
  <2>1. PICK n \in bad : \A m \in bad : n <= m
    BY LeastOf
  <2>2. PICK qs \in SUBSET ps : Cardinality(qs) = n /\ g[qs] # Cardinality(OnPages(refs, qs))
    BY <2>1
  <2>3. g[qs] = IF qs = {} THEN 0
                ELSE u.pages[CHOOSE x \in qs : TRUE].live + g[qs \ {CHOOSE x \in qs : TRUE}]
    BY DEF Folded
  <2>4. qs # {}
    <3> SUFFICES ASSUME qs = {} PROVE FALSE
      OBVIOUS
    <3>1. OnPages(refs, qs) = {}
      BY DEF OnPages
    <3> QED BY <2>2, <2>3, <3>1, FS_EmptySet
  <2> DEFINE p == CHOOSE x \in qs : TRUE
             left == qs \ {p}
             c == Cardinality(left)
  <2>5. p \in qs
    BY <2>4
  <2>6. g[qs] = u.pages[p].live + g[left]
    BY <2>3, <2>4
  <2> HIDE DEF p
  <2>7. IsFiniteSet(qs) /\ Cardinality(left) = n - 1 /\ n \in Nat /\ c \in Nat
    BY <1>1, <2>1, <2>2, <2>5, FS_RemoveElement
  <2>8. left \in SUBSET ps
    OBVIOUS
  <2>9. g[left] = Cardinality(OnPages(refs, left))
    <3>1. c \notin bad
      <4>1. c = n - 1 /\ n \in Nat /\ \A m \in bad : n <= m
        BY <2>1, <2>7
      <4> HIDE DEF c, bad
      <4> QED BY <4>1
    <3> HIDE DEF left
    <3> QED BY <2>7, <2>8, <3>1
  <2>10. u.pages[p].live = Cardinality(On(refs, p))
    BY <2>5
  <2>11. Cardinality(OnPages(refs, qs)) =
           Cardinality(On(refs, p)) + Cardinality(OnPages(refs, left))
    BY <2>5, OnePage
  <2> QED BY <2>2, <2>6, <2>9, <2>10, <2>11
<1> QED BY <1>1, <1>2

\* live_orders() of the store with the orders in its pages counts the references that
\* its pages count.
LEMMA PagedLiveOrders ==
  ASSUME NEW refs, refs \subseteq Refs, NEW u, Resident(u) \subseteq PageNumbers,
         \A p \in Resident(u) : u.pages[p].live = Cardinality(On(refs, p))
  PROVE  Paged!LiveOrders(u) = Cardinality(OnPages(refs, Resident(u)))
<1> DEFINE ps == Resident(u)
           g  == [s \in SUBSET ps |-> Cardinality(OnPages(refs, s))]
<1>1. Folded(u, ps, g)
  <2>1. ASSUME NEW s \in SUBSET ps, s = {}
        PROVE  g[s] = 0
    <3>1. OnPages(refs, s) = {}
      BY <2>1 DEF OnPages
    <3> QED BY <3>1, FS_EmptySet
  <2>2. ASSUME NEW s \in SUBSET ps, s # {}
        PROVE  g[s] = u.pages[CHOOSE x \in s : TRUE].live + g[s \ {CHOOSE x \in s : TRUE}]
    <3> DEFINE p == CHOOSE x \in s : TRUE
    <3>1. p \in s
      BY <2>2
    <3> HIDE DEF p
    <3>2. Cardinality(OnPages(refs, s)) =
            Cardinality(On(refs, p)) + Cardinality(OnPages(refs, s \ {p}))
      BY <3>1, OnePage
    <3>3. u.pages[p].live = Cardinality(On(refs, p)) /\ s \ {p} \in SUBSET ps
      BY <3>1
    <3>4. g[s] = u.pages[p].live + g[s \ {p}]
      BY <3>2, <3>3
    <3> QED BY <3>4 DEF p
  <2> HIDE DEF g
  <2>3. g = [s \in SUBSET ps |-> g[s]]
    BY DEF g
  <2> QED BY <2>1, <2>2, <2>3 DEF Folded
<1>2. Paged!Resident(u) = ps
  BY PagedNames
<1>3. ps \in SUBSET PageNumbers /\ \A p \in ps : u.pages[p].live = Cardinality(On(refs, p))
  OBVIOUS
<1>4. \E h : Folded(u, ps, h) /\ Paged!LiveOrders(u) = h[ps]
  <2> HIDE DEF ps, g
  <2> QED BY <1>1, <1>2
             DEF Folded, Paged!LiveOrders, Paged!Sq!MapThenSumSet, Paged!Sq!MapThenFoldSet
<1>5. Paged!LiveOrders(u) = Cardinality(OnPages(refs, ps))
  <2> HIDE DEF ps, g
  <2>1. PICK h : Folded(u, ps, h) /\ Paged!LiveOrders(u) = h[ps]
    BY <1>4
  <2>2. h[ps] = Cardinality(OnPages(refs, ps))
    BY <1>3, <2>1, FoldCounts
  <2> QED BY <2>1, <2>2
<1> QED BY <1>5

\* live_orders() of the default store.
LEMMA PooledSum ==
  ASSUME Steady(store)
  PROVE  LiveOrders(store) = Cardinality(Held(store))
<1> DEFINE free == {store.free[i] : i \in DOMAIN store.free}
           held == Held(store)
           taken == {HandleOf(store, r) : r \in held}
           n == Len(store.pool)
           f == [r \in held |-> HandleOf(store, r)]
<1>1. /\ \A r, s \in held : HandleOf(store, r) = HandleOf(store, s) => r = s
      /\ Cardinality(free) = Len(store.free)
      /\ taken \cap free = {} /\ taken \cup free = 1 .. n
  BY SteadyHandles DEF HandlesOnce, Held
<1>2. n \in Nat
  BY DEF Steady, Sound, Stores
<1>3. f \in Bijection(held, taken)
  BY <1>1 DEF Bijection, Injection, Surjection, IsInjective
<1>4. IsFiniteSet(held)
  BY PagesFinite, FS_Subset DEF Held
<1> HIDE DEF free, held, f, taken, n
<1>5. IsFiniteSet(taken) /\ Cardinality(taken) = Cardinality(held)
  BY <1>3, <1>4, FS_Bijection DEF ExistsBijection
<1>6. IsFiniteSet(1 .. n) /\ Cardinality(1 .. n) = n
  BY <1>2, FS_Interval
<1>7. IsFiniteSet(free)
  BY <1>1, <1>6, FS_Subset
<1>8. n = Cardinality(taken) + Cardinality(free) - Cardinality({})
  BY <1>1, <1>5, <1>6, <1>7, FS_Union
<1>9. Cardinality(taken) \in Nat /\ Cardinality(free) \in Nat /\ Cardinality({}) = 0
  BY <1>5, <1>7, FS_CardinalityType, FS_EmptySet
<1> QED BY <1>1, <1>5, <1>8, <1>9 DEF LiveOrders, n, held

\* Between two messages the stores agree on all a client may ask.
LEMMA AgreeOnAll ==
  ASSUME Steady(store), AllAgree
  PROVE  StoresAgree
<1> DEFINE held == Held(store)
           ps   == Resident(store)
<1>1. /\ Agree(store, paged, hashed) /\ Sound(store, held) /\ held \subseteq Refs
      /\ \A r \in AllRefs : Holds(store, r) <=> r \in held
  BY SteadyHeld DEF Steady, Sound, Counted, AllAgree, Holds
<1>2. \A r \in AllRefs :
        Paged!Find(paged, r) = Find(store, r) /\ Hashed!Find(hashed, r) = Find(store, r)
  BY <1>1, HashedFinds DEF Agree
<1>3. /\ Lives(paged) = Lives(store) /\ Resident(paged) = ps
      /\ \A p \in ps : paged.pages[p].live = store.pages[p].live
  <2>1. Lives(paged) = Lives(store)
    BY <1>1 DEF Agree
  <2>2. DOMAIN Lives(paged) = Resident(paged) /\ DOMAIN Lives(store) = ps
    BY DEF Lives
  <2>3. \A p \in ps : Lives(store)[p] = store.pages[p].live
    BY DEF Lives
  <2>4. \A p \in Resident(paged) : Lives(paged)[p] = paged.pages[p].live
    BY DEF Lives
  <2> QED BY <2>1, <2>2, <2>3, <2>4
<1>4. ps \subseteq PageNumbers /\ IsFiniteSet(ps)
  BY PagesFinite, FS_Subset DEF Resident
<1>5. {r \in Refs : Holds(store, r)} = held
  BY <1>1 DEF AllRefs
<1>6. LiveOrders(store) = Cardinality(held)
  BY PooledSum
<1>7. Paged!LiveOrders(paged) = Cardinality(held)
  <2>1. \A p \in ps : paged.pages[p].live = Cardinality(On(held, p))
    BY <1>1, <1>3, <1>4 DEF Lives, Sound, Counted
  <2>2. OnPages(held, ps) = held
    BY TouchHeld DEF held, ps, Held, OnPages
  <2>3. Resident(paged) = ps /\ ps \subseteq PageNumbers /\ held \subseteq Refs
    BY <1>1, <1>3, <1>4
  <2> HIDE DEF held, ps
  <2>4. Paged!LiveOrders(paged) = Cardinality(OnPages(held, ps))
    BY <2>1, <2>3, PagedLiveOrders
  <2> QED BY <2>2, <2>4
<1>8. Hashed!LiveOrders(hashed) = Cardinality(held)
  <2>1. DOMAIN hashed = held
    BY <1>1 DEF Agree
  <2> HIDE DEF held
  <2>2. Hashed!Cardinality(held) = Cardinality(held)
    BY DEF Hashed!Cardinality, Cardinality
  <2> QED BY <2>1, <2>2 DEF Hashed!LiveOrders
<1>9. Len(paged.spare) = store.spare
  BY <1>1 DEF Agree
<1>10. \A p \in PageNumbers :
         /\ p \in Paged!Resident(paged) <=> p \in Resident(store)
         /\ p \in Resident(store) => paged.pages[p].live = store.pages[p].live
  BY <1>3, PagedNames
<1> HIDE DEF held, ps
<1> QED BY <1>2, <1>5, <1>6, <1>7, <1>8, <1>9, <1>10 DEF StoresAgree

-----------------------------------------------------------------------------

AllInv == Steady(store) /\ AllAgree

allStores == <<store, paged, hashed>>

\* Three stores that were never touched agree.
LEMMA EmptiesAgree ==
  ASSUME AllInit
  PROVE  AllInv
<1>1. Steady(store) /\ \A r \in AllRefs : Find(store, r) = Dead
  BY EmptySteady DEF AllInit
<1>2. /\ store.pages = [p \in PageNumbers |-> NoPage] /\ store.spare = 0
      /\ paged = [pages |-> [p \in PageNumbers |-> NoPage], spare |-> <<>>]
      /\ hashed = [r \in {} |-> Dead]
  BY DEF AllInit, Init, Empties, Paged!Init, Paged!Empties, Paged!PageNumbers, Paged!PageOf,
         PageNumbers, PageOf, Hashed!Init, Hashed!Empties
<1>3. paged \in PagedStoresAll /\ Len(paged.spare) = 0
  BY <1>2 DEF PagedStoresAll
<1>4. Resident(store) = {} /\ Resident(paged) = {}
  BY <1>2 DEF Resident
<1>5. Lives(paged) = Lives(store)
  BY <1>4 DEF Lives
<1>6. Held(store) = {}
  BY <1>4 DEF Held, HandleOf
<1>7. \A r : Paged!Find(paged, r) = Dead
  BY <1>4, PagedNames
<1>8. Agree(store, paged, hashed)
  BY <1>1, <1>2, <1>3, <1>5, <1>6, <1>7 DEF Agree
<1> QED BY <1>1, <1>8 DEF AllInv, AllAgree

\* Every message keeps them agreed, and is one the default store's clients send.
LEMMA StepAgrees ==
  ASSUME AllInv, [AllNext]_allStores
  PROVE  AllInv' /\ [Next]_store
<1>1. Steady(store) /\ AllAgree
  BY DEF AllInv
<1>2. CASE UNCHANGED allStores
  BY <1>1, <1>2 DEF allStores, AllInv, AllAgree, Agree, Steady, Sound, Handed, Counted, Held,
     Lives
<1>3. \A ref : Beside(ref) \subseteq AllRefs
  BY DEF Beside, AllRefs
<1>4. ASSUME NEW ref \in Refs, NEW o \in Orders, NEW near \in Beside(ref),
             OnAdd(ref, o, near), Paged!OnAdd(ref, o, near), Hashed!OnAdd(ref, o, near)
      PROVE  AllAgree' /\ Next
  <2>1. near \in AllRefs
    BY <1>3
  <2>2. AllAgree'
    BY <1>1, <1>4, <2>1, AddsAgree
  <2> QED BY <1>4, <2>2 DEF Next
<1>5. ASSUME NEW ref \in AllRefs, NEW o \in Orders,
             OnReduce(ref, o), Paged!OnReduce(ref, o), Hashed!OnReduce(ref, o)
      PROVE  AllAgree' /\ Next
  BY <1>1, <1>5, ReducesAgree DEF Next
<1>6. ASSUME NEW ref \in AllRefs, NEW near \in Beside(ref),
             OnDelete(ref, near), Paged!OnDelete(ref, near), Hashed!OnDelete(ref, near)
      PROVE  AllAgree' /\ Next
  <2>1. near \in AllRefs
    BY <1>3
  <2>2. AllAgree'
    BY <1>1, <1>6, <2>1, DeletesAgree
  <2> QED BY <1>6, <2>2 DEF Next
<1>7. ASSUME NEW old \in AllRefs, NEW new \in AllRefs, NEW o \in Orders \cup {Dead},
             NEW near \in Beside(old), o # Dead => new \in Refs,
             OnReplace(old, new, o, near), Paged!OnReplace(old, new, o, near),
             Hashed!OnReplace(old, new, o, near)
      PROVE  AllAgree' /\ Next
  <2>1. near \in AllRefs /\ (o = Dead \/ (o \in Orders /\ new \in Refs))
    BY <1>3, <1>7
  <2>2. AllAgree'
    BY <1>1, <1>7, <2>1, ReplacesAgree
  <2>3. CASE o = Dead
    BY <1>7, <2>2, <2>3 DEF Next
  <2>4. CASE o \in Orders /\ new \in Refs
    BY <1>7, <2>2, <2>4 DEF Next
  <2> QED BY <2>1, <2>3, <2>4
<1>8. ASSUME NEW n \in Hints, Reserve(n), Paged!Reserve(n), Hashed!Reserve(n)
      PROVE  AllAgree' /\ Next
  BY <1>1, <1>8, ReservesAgree DEF Next
<1>9. CASE AllNext
  <2>1. AllAgree' /\ Next
    BY <1>4, <1>5, <1>6, <1>7, <1>8, <1>9 DEF AllNext
  <2>2. Steady(store')
    BY <1>1, <2>1, StepServed
  <2> QED BY <2>1, <2>2 DEF AllInv
<1>10. UNCHANGED allStores => [Next]_store
  BY DEF allStores
<1> QED BY <1>2, <1>9, <1>10

\* The three stores agree between any two messages: the inductive invariant.
THEOREM AgreementInvariant == AllSpec => []AllInv
<1>1. AllInit => AllInv
  BY EmptiesAgree
<1>2. AllInv /\ [AllNext]_allStores => AllInv'
  BY StepAgrees
<1> QED BY <1>1, <1>2, PTL DEF AllSpec, allStores

\* test/differential_test.cpp: whichever store a book has, it finds the same orders and
\* counts as many, and the two with pages keep and give back the same pages.
THEOREM StoresAgreeHolds == AllSpec => []StoresAgree
<1>1. AllInv => StoresAgree
  BY AgreeOnAll DEF AllInv
<1> QED BY <1>1, AgreementInvariant, PTL

\* Under the three stores at once the default one sees what it sees alone.
LEMMA AllToOne == AllSpec => Spec
<1>1. AllInit => Init
  BY DEF AllInit
<1>2. AllInv /\ [AllNext]_allStores => [Next]_store
  BY StepAgrees
<1> QED BY <1>1, <1>2, AgreementInvariant, PTL DEF AllSpec, Spec, allStores

\* The store with the orders in its pages is a map from references to orders, as the
\* default one is (book.hpp takes either as its Store).
THEOREM PagedImplementsMapHolds == AllSpec => Paged!ImplementsMap
<1> DEFINE m == [r \in AllRefs |-> Find(store, r)]
           n == [r \in AllRefs |-> Paged!Find(paged, r)]
<1>1. AllInv => n = m
  BY AgreeOnAll DEF AllInv, StoresAgree
<1>2. AllInv' => n' = m'
  <2>1. AllInv => StoresAgree
    BY AgreeOnAll DEF AllInv
  <2>2. AllInv' => StoresAgree'
    BY <2>1, PTL
  <2> QED BY <2>2 DEF StoresAgree, AllRefs
<1>3. Paged!AllRefs = AllRefs /\ Paged!Map!AllRefs = AllRefs /\ Map!AllRefs = AllRefs
  BY DEF Paged!AllRefs, Paged!Map!AllRefs, Map!AllRefs, AllRefs
<1>4. [r \in Paged!AllRefs |-> Paged!Find(paged, r)] = n
  BY <1>3
<1>5. [r \in Paged!AllRefs |-> Paged!Find(paged, r)]' = n'
  BY DEF AllRefs, Paged!AllRefs
<1>6. AllInv /\ Map!Init => Paged!Map!Init
  BY <1>1, <1>3, <1>4 DEF Paged!Map!Init, Map!Init
<1>7. ASSUME AllInv, AllInv', [Map!Next]_m
      PROVE  [Paged!Map!Next]_([r \in Paged!AllRefs |-> Paged!Find(paged, r)])
  <2>1. /\ [r \in Paged!AllRefs |-> Paged!Find(paged, r)] = m
        /\ [r \in Paged!AllRefs |-> Paged!Find(paged, r)]' = m'
    BY <1>1, <1>2, <1>4, <1>5, <1>7
  <2> HIDE DEF m, n
  <2>2. \A refs : Map!Only(refs) => Paged!Map!Only(refs)
    BY ONLY <1>3, <2>1 DEF Paged!Map!Only, Map!Only, m
  <2>3. \A ref : Map!Put(ref) => Paged!Map!Put(ref)
    BY ONLY <2>1, <2>2 DEF Paged!Map!Put, Map!Put, m
  <2>4. \A ref : Map!Drop(ref) => Paged!Map!Drop(ref)
    BY ONLY <2>1, <2>2 DEF Paged!Map!Drop, Map!Drop, m
  <2>5. \A old, new : Map!Move(old, new) => Paged!Map!Move(old, new)
    BY ONLY <2>1, <2>2 DEF Paged!Map!Move, Map!Move, m
  <2>6. \A old, new : Map!Refuse(old, new) => Paged!Map!Refuse(old, new)
    BY ONLY <2>1, <2>2 DEF Paged!Map!Refuse, Map!Refuse, m
  <2>7. Map!Next => Paged!Map!Next
    BY ONLY <1>3, <2>3, <2>4, <2>5, <2>6 DEF Map!Next, Paged!Map!Next
  <2> QED BY <1>7, <2>1, <2>7
<1> QED
  BY <1>6, <1>7, AllToOne, ImplementsMapHolds, AgreementInvariant, PTL
     DEF ImplementsMap, Map!Spec, Paged!ImplementsMap, Paged!Map!Spec

\* So is the store over std::unordered_map.
THEOREM HashedImplementsMapHolds == AllSpec => Hashed!ImplementsMap
<1> DEFINE m == [r \in AllRefs |-> Find(store, r)]
           n == [r \in AllRefs |-> Hashed!Find(hashed, r)]
<1>1. AllInv => n = m
  BY AgreeOnAll DEF AllInv, StoresAgree
<1>2. AllInv' => n' = m'
  <2>1. AllInv => StoresAgree
    BY AgreeOnAll DEF AllInv
  <2>2. AllInv' => StoresAgree'
    BY <2>1, PTL
  <2> QED BY <2>2 DEF StoresAgree, AllRefs
<1>3. Hashed!AllRefs = AllRefs /\ Hashed!Map!AllRefs = AllRefs /\ Map!AllRefs = AllRefs
  BY DEF Hashed!AllRefs, Hashed!Map!AllRefs, Map!AllRefs, AllRefs
<1>4. [r \in Hashed!AllRefs |-> Hashed!Find(hashed, r)] = n
  BY <1>3
<1>5. [r \in Hashed!AllRefs |-> Hashed!Find(hashed, r)]' = n'
  BY DEF AllRefs, Hashed!AllRefs
<1>6. AllInv /\ Map!Init => Hashed!Map!Init
  BY <1>1, <1>3, <1>4 DEF Hashed!Map!Init, Map!Init
<1>7. ASSUME AllInv, AllInv', [Map!Next]_m
      PROVE  [Hashed!Map!Next]_([r \in Hashed!AllRefs |-> Hashed!Find(hashed, r)])
  <2>1. /\ [r \in Hashed!AllRefs |-> Hashed!Find(hashed, r)] = m
        /\ [r \in Hashed!AllRefs |-> Hashed!Find(hashed, r)]' = m'
    BY <1>1, <1>2, <1>4, <1>5, <1>7
  <2> HIDE DEF m, n
  <2>2. \A refs : Map!Only(refs) => Hashed!Map!Only(refs)
    BY ONLY <1>3, <2>1 DEF Hashed!Map!Only, Map!Only, m
  <2>3. \A ref : Map!Put(ref) => Hashed!Map!Put(ref)
    BY ONLY <2>1, <2>2 DEF Hashed!Map!Put, Map!Put, m
  <2>4. \A ref : Map!Drop(ref) => Hashed!Map!Drop(ref)
    BY ONLY <2>1, <2>2 DEF Hashed!Map!Drop, Map!Drop, m
  <2>5. \A old, new : Map!Move(old, new) => Hashed!Map!Move(old, new)
    BY ONLY <2>1, <2>2 DEF Hashed!Map!Move, Map!Move, m
  <2>6. \A old, new : Map!Refuse(old, new) => Hashed!Map!Refuse(old, new)
    BY ONLY <2>1, <2>2 DEF Hashed!Map!Refuse, Map!Refuse, m
  <2>7. Map!Next => Hashed!Map!Next
    BY ONLY <1>3, <2>3, <2>4, <2>5, <2>6 DEF Map!Next, Hashed!Map!Next
  <2> QED BY <1>7, <2>1, <2>7
<1> QED
  BY <1>6, <1>7, AllToOne, ImplementsMapHolds, AgreementInvariant, PTL
     DEF ImplementsMap, Map!Spec, Hashed!ImplementsMap, Hashed!Map!Spec
===============================================================================
