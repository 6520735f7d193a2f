---------------------------- MODULE SessionProofs ----------------------------
(***************************************************************************)
(* What the tables of a session say of the books, for any finite set of    *)
(* references, any selection of symbols and any depth: depth rows show the *)
(* books they are about, and who reads messages knows the orders at rest.  *)
(*                                                                         *)
(* The inductive invariant is SInv: the manager's QInv, the two properties *)
(* and that no depth row was written for a locate that is not selected,    *)
(* which is what makes a locate selected later start from the truth.  A    *)
(* handler reads the order before the manager takes the message, so what   *)
(* its row says is right only by what the manager then does to the orders: *)
(* the lemmas of BookManagerProofs that end in Done.                       *)
(*                                                                         *)
(* An add of side N rests, and its row says that nothing changed: of such  *)
(* an order nothing is claimed while it rests (unread), and the lemmas     *)
(* show that no row about it disturbs what is known of another.            *)
(*                                                                         *)
(* The LOBSTER export reads those rows.  Its invariant LInv says that what *)
(* an exporter remembers of an order is right while the order rests on a   *)
(* selected book; what it remembers of others may be wrong and is never    *)
(* read, because a row names the book the order rests on.                  *)
(***************************************************************************)
EXTENDS Lobster, BookManagerProofs

sessionState == <<vars, sessionVars>>

\* The rows of a locate nobody selected were never written.
Unshown == \A l \in Locates : ~ Selected(l) => shown[l] = Shows(EmptyBook)

TablesTyped ==
  /\ shown = [l \in Locates |-> shown[l]]
  /\ copy = [r \in AllRefs |-> copy[r]]

SInv == QInv /\ TablesTyped /\ DepthCurrent /\ Unshown /\ CopyExact

-----------------------------------------------------------------------------
(* The depth table.                                                        *)

\* The books a message changed are among those whose depth is emitted.
Emitted(ls) == \A k \in Locates : books'[k] = books[k] \/ (k \in ls /\ k < count')

\* A handler keeps the depth table if it emits the depth of every book it changed.
LEMMA DepthKept ==
  ASSUME TablesTyped, DepthCurrent, Unshown, UNCHANGED <<wanted, selected>>,
         NEW ls, EmitDepth(ls), Emitted(ls)
  PROVE  shown' = [l \in Locates |-> shown'[l]] /\ DepthCurrent' /\ Unshown'
<1>1. shown' = [l \in Locates |->
                 IF l \in ls /\ Selected(l) /\ l < count' THEN Shows(books'[l]) ELSE shown[l]]
  BY DEF EmitDepth
<1>2. \A l \in Locates : Selected(l)' <=> Selected(l)
  BY DEF Selected
<1>3. \A l \in Locates : Selected(l) => shown'[l] = Shows(books'[l])
  <2> SUFFICES ASSUME NEW l \in Locates, Selected(l) PROVE shown'[l] = Shows(books'[l])
    OBVIOUS
  <2>1. CASE l \in ls /\ l < count'
    BY <1>1, <2>1
  <2>2. CASE ~(l \in ls /\ l < count')
    <3>1. books'[l] = books[l]
      BY <2>2 DEF Emitted
    <3>2. shown'[l] = shown[l] /\ shown[l] = Shows(books[l])
      BY <1>1, <2>2 DEF DepthCurrent
    <3> QED BY <3>1, <3>2
  <2> QED BY <2>1, <2>2
<1>4. \A l \in Locates : ~ Selected(l) => shown'[l] = Shows(EmptyBook)
  BY <1>1 DEF Unshown
<1>5. shown' = [l \in Locates |-> shown'[l]]
  BY <1>1
<1>6. DepthCurrent'
  BY <1>2, <1>3 DEF DepthCurrent
<1>7. Unshown'
  BY <1>2, <1>4 DEF Unshown
<1> QED BY <1>5, <1>6, <1>7

\* remove() touches the book of the order and no other.
LEMMA DroppedElsewhere ==
  ASSUME NEW s, NEW ref, NEW k \in DOMAIN s.books, k # s.os[ref].locate
  PROVE  Dropped(s, ref).books[k] = s.books[k]
BY DEF Dropped

\* emit_depth() of on_add: of the book of the message and of the one it evicted from.
LEMMA AddEmitted ==
  ASSUME IInv, NEW ref \in AllRefs, NEW l \in Locates, NEW buy \in BOOLEAN,
         NEW price \in Prices, NEW shares \in Sizes, OnAdd(ref, l, buy, price, shares)
  PROVE  Emitted(AlsoHit \cup {l})
<1>a. Housed(os, count) /\ Sound(os, books) /\ count \in Nat
  BY IInvFacts, BoundsAssumption
<1>1. CASE ~ Accepts(ref, price, shares)
  BY <1>1 DEF OnAdd, Emitted
<1>2. CASE Accepts(ref, price, shares)
  <2> DEFINE dup  == Live(os, ref)
             was  == os[ref].locate
             s    == IF dup THEN Dropped(Now, ref) ELSE Now
             seat == [s.os EXCEPT ![ref] = [@ EXCEPT !.qty = shares, !.locate = l, !.buy = buy]]
             done == Add([os |-> seat, book |-> s.books[l]], ref, price)
  <2>1. /\ books' = [s.books EXCEPT ![l] = done.book] /\ Ensure(l)
        /\ evicted' = IF dup THEN was ELSE evicted
        /\ counted' = IF dup THEN {"adds", "dup_ref"} ELSE {"adds"}
    BY <1>2 DEF OnAdd
  <2>2. count' \in 0 .. MaxLocate + 1 /\ count <= count' /\ l < count'
    BY <2>1, EnsureFacts
  <2>3. dup => AlsoHit = {was}
    BY <2>1 DEF AlsoHit
  <2>4. dup => was < count'
    BY <1>a, <2>2, BoundsAssumption, ConstantFacts DEF Housed, Sound, Stores, Order
  <2>5. ASSUME NEW k \in Locates, k # l, dup => k # was
        PROVE  books'[k] = books[k]
    <3>1. s.books[k] = books[k]
      <4>1. CASE dup
        <5>1. k # Now.os[ref].locate /\ k \in DOMAIN Now.books
          BY <1>a, <2>5, <4>1 DEF Now, Sound
        <5>2. Dropped(Now, ref).books[k] = Now.books[k]
          BY <5>1, DroppedElsewhere
        <5> QED BY <4>1, <5>2 DEF Now
      <4>2. CASE ~ dup
        BY <4>2 DEF Now
      <4> QED BY <4>1, <4>2
    <3>2. DOMAIN s.books = Locates
      BY <1>a DEF Dropped, Now, Sound
    <3> HIDE DEF s, done
    <3> QED BY <2>1, <2>5, <3>1, <3>2
  <2> HIDE DEF s, done, was
  <2> QED BY <2>2, <2>3, <2>4, <2>5 DEF Emitted
<1> QED BY <1>1, <1>2

\* emit_depth() of the messages about one order at rest.
LEMMA ReduceEmitted ==
  ASSUME IInv, NEW ref \in AllRefs, NEW shares, NEW counter, NEW l,
         ReduceOrder(ref, shares, counter)
  PROVE  Emitted({Resting(ref, l).locate})
<1>a. Housed(os, count)
  BY IInvFacts
<1>1. CASE ~ Live(os, ref)
  BY <1>1 DEF ReduceOrder, MissingRef, Emitted
<1>2. CASE Live(os, ref)
  <2> DEFINE was  == os[ref].locate
             done == Reduce([os |-> os, book |-> books[was]], ref, shares)
  <2>1. books' = [books EXCEPT ![was] = done.book] /\ count' = count
    BY <1>2 DEF ReduceOrder
  <2>2. Resting(ref, l).locate = was /\ was < count
    BY <1>a, <1>2 DEF Resting, Housed
  <2> HIDE DEF was, done
  <2> QED BY <2>1, <2>2 DEF Emitted
<1> QED BY <1>1, <1>2

\* emit_depth() of on_delete, which asked for the book before the order was gone.
LEMMA DeleteEmitted ==
  ASSUME IInv, NEW ref \in AllRefs, NEW l, OnDelete(ref)
  PROVE  Emitted({Resting(ref, l).locate})
<1>a. Housed(os, count) /\ Sound(os, books)
  BY IInvFacts
<1>1. CASE ~ Live(os, ref)
  BY <1>1 DEF OnDelete, MissingRef, Emitted
<1>2. CASE Live(os, ref)
  <2>1. books' = Dropped(Now, ref).books /\ count' = count
    BY <1>2 DEF OnDelete
  <2>2. Resting(ref, l).locate = os[ref].locate /\ os[ref].locate < count
    BY <1>a, <1>2 DEF Resting, Housed
  <2>3. \A k \in Locates : k # os[ref].locate => Dropped(Now, ref).books[k] = books[k]
    BY <1>a, DroppedElsewhere DEF Now, Sound
  <2> QED BY <2>1, <2>2, <2>3 DEF Emitted
<1> QED BY <1>1, <1>2

\* emit_depth() of on_replace: of the book of the old order, and of the one the new
\* reference was evicted from, whether the replace is refused or not.
LEMMA ReplaceEmitted ==
  ASSUME QInv, NEW old \in AllRefs, NEW new \in AllRefs, NEW price \in Prices,
         NEW shares \in Sizes, NEW k, OnReplace(old, new, price, shares)
  PROVE  Emitted(AlsoHit \cup {Resting(old, k).locate})
<1>a. IInv /\ Housed(os, count) /\ Sound(os, books) /\ Ordered(os, books, ahead)
  BY IInvFacts, QInvOrdered DEF QInv
<1>1. CASE ~ Live(os, old)
  BY <1>1 DEF OnReplace, MissingRef, Emitted
<1>2. CASE Live(os, old)
  <2> DEFINE l    == os[old].locate
             dup  == new # old /\ Live(os, new)
             was  == os[new].locate
             s    == IF dup THEN Dropped(Now, new) ELSE Now
             c    == IF dup THEN Without(ahead, new) ELSE ahead
             gone == Dropped(s, old)
             done == Replace([os |-> s.os, book |-> s.books[l]], old, new, shares, price)
  <2>1. /\ books' = gone.books \/ books' = [s.books EXCEPT ![l] = done.st.book]
        /\ count' = count
        /\ evicted' = IF dup THEN was ELSE evicted
        /\ dup => "dup_ref" \in counted'
    BY <1>2 DEF OnReplace
  <2>2. Resting(old, k).locate = l /\ l < count' /\ (dup => was < count')
    <3>1. Resting(old, k).locate = l
      BY <1>2 DEF Resting
    <3>2. l < count /\ (Live(os, new) => was < count)
      BY <1>a, <1>2 DEF Housed
    <3> HIDE DEF l, was, s, gone, done
    <3> QED BY <2>1, <3>1, <3>2
  <2>3. dup => AlsoHit = {was}
    BY <2>1 DEF AlsoHit
  <2>4. s.os[old].locate = l /\ DOMAIN s.books = Locates
    <3>1. /\ SameSeats(os, s.os, AllRefs \ {new}) /\ (~ dup => s.os = os)
          /\ Ordered(s.os, s.books, c)
      BY <1>a, EvictOrdered
    <3> HIDE DEF s
    <3> QED BY <1>2, <3>1 DEF SameSeats, Ordered, Sound
  <2>5. ASSUME NEW j \in Locates, j # l, dup => j # was
        PROVE  books'[j] = books[j]
    <3>1. s.books[j] = books[j]
      <4>1. CASE dup
        <5>1. j # Now.os[new].locate /\ j \in DOMAIN Now.books
          BY <1>a, <2>5, <4>1 DEF Now, Sound
        <5>2. Dropped(Now, new).books[j] = Now.books[j]
          BY <5>1, DroppedElsewhere
        <5> QED BY <4>1, <5>2 DEF Now
      <4>2. CASE ~ dup
        BY <4>2 DEF Now
      <4> QED BY <4>1, <4>2
    <3>2. gone.books[j] = s.books[j]
      <4> HIDE DEF s
      <4> QED BY <2>4, <2>5, DroppedElsewhere
    <3>3. books' = gone.books => books'[j] = books[j]
      BY <3>1, <3>2
    <3>4. books' = [s.books EXCEPT ![l] = done.st.book] => books'[j] = books[j]
      <4> HIDE DEF s, done
      <4> QED BY <2>4, <2>5, <3>1
    <3> HIDE DEF s, done, gone
    <3> QED BY <2>1, <3>3, <3>4
  <2> HIDE DEF s, done, was, gone, dup
  <2> QED BY <2>2, <2>3, <2>5 DEF Emitted
<1> QED BY <1>1, <1>2

-----------------------------------------------------------------------------
(* The reader of messages.                                                 *)

\* What a reader should know of an order, none if it is Absent, when w and s are
\* the symbols and the locates selected, and n says whether its add was left unread.
Account(x) == [locate |-> x.locate, side |-> SideOf(x.buy), price |-> x.price, qty |-> x.qty]

Truly(n, w, s, x, k) ==
  IF x = Absent THEN w = {} => k = Gone
  ELSE ~ n /\ (w = {} \/ x.locate \in s) => k = Account(x)

\* CopyExact says of each order at rest, or absent, what the reader knows.
LEMMA CopyMeans ==
  ASSUME Sound(os, books)
  PROVE  CopyExact <=>
           \A r \in AllRefs : Truly(r \in unread, wanted, selected, OrderAt(Now, r), copy[r])
<1> SUFFICES ASSUME NEW r \in AllRefs
             PROVE  (IF Live(os, r)
                       THEN LET o == os[r]
                            IN Selected(o.locate) /\ r \notin unread =>
                                 copy[r] = [locate |-> o.locate, side |-> SideOf(o.buy),
                                            qty |-> o.qty,
                                            price |-> Key(o.buy, books[o.locate].levels[o.level].key)]
                       ELSE wanted = {} => copy[r] = Gone)
                    <=> Truly(r \in unread, wanted, selected, OrderAt(Now, r), copy[r])
  BY DEF CopyExact
<1>1. OrderAt(Now, r) # Absent <=> Live(os, r)
  BY RestingLive DEF Now
<1>2. CASE ~ Live(os, r)
  BY <1>1, <1>2 DEF Truly
<1>3. CASE Live(os, r)
  <2>1. OrderAt(Now, r) = [locate |-> os[r].locate, buy |-> os[r].buy, qty |-> os[r].qty,
          price |-> Key(os[r].buy, books[os[r].locate].levels[os[r].level].key)]
    BY <1>3 DEF OrderAt, Now, Live
  <2> QED BY <1>1, <1>3, <2>1 DEF Truly, Account, Selected
<1> QED BY <1>2, <1>3

\* An order whose add was left unread stays so, of all but these, while it rests.
StillUnread(moved) ==
  \A r \in AllRefs \ moved : r \in unread /\ OrderAt(Now', r) # Absent => r \in unread'

\* A message makes no other order read than the one an add or a replace rests, and
\* leaves that one unread if its row bears N.
LEMMA UnreadKept ==
  ASSUME Sound(os', books'), NEW w, unread' = Unread(w)
  PROVE  /\ StillUnread({w.ref}) /\ (w.type \notin {"A", "U"} => StillUnread({}))
         /\ w.remaining = 0 => StillUnread({})
         /\ w.type = "A" /\ w.remaining # 0 /\ w.side = "N" /\ w.ref \in AllRefs
              /\ OrderAt(Now', w.ref) # Absent => w.ref \in unread'
<1> DEFINE rests == w.type \in {"A", "U"} /\ w.remaining # 0
           now   == CASE rests /\ w.side = "N" -> unread \cup {w.ref}
                      [] rests /\ w.side # "N" -> unread \ {w.ref}
                      [] OTHER -> unread
<1>1. \A r \in AllRefs : OrderAt(Now', r) # Absent => Live(os', r)
  <2>1. \A r \in AllRefs :
          OrderAt([os |-> os', books |-> books'], r) # Absent <=> Live(os', r)
    BY RestingLive
  <2> QED BY <2>1 DEF Now
<1>2. unread' = {r \in now : Live(os', r)}
  BY DEF Unread
<1>3. /\ \A r \in unread : r # w.ref => r \in now
      /\ ~ rests => now = unread
      /\ rests /\ w.side = "N" => w.ref \in now
  OBVIOUS
<1> HIDE DEF now
<1>4. /\ \A r \in AllRefs \ {w.ref} :
            r \in unread /\ OrderAt(Now', r) # Absent => r \in unread'
      /\ ~ rests => \A r \in AllRefs \ {} :
            r \in unread /\ OrderAt(Now', r) # Absent => r \in unread'
      /\ rests /\ w.side = "N" /\ w.ref \in AllRefs /\ OrderAt(Now', w.ref) # Absent =>
            w.ref \in unread'
  BY <1>1, <1>2, <1>3
<1> QED BY <1>4 DEF StillUnread

\* What a message did to the copy is right if it is of the orders that moved.
LEMMA CopyKept ==
  ASSUME Ordered(os, books, ahead), Ordered(os', books', ahead'), CopyExact,
         UNCHANGED <<wanted, selected>>, NEW moved, StillUnread(moved),
         \A r \in AllRefs \ moved : OrderAt(Now', r) = OrderAt(Now, r) /\ copy'[r] = copy[r],
         \A r \in moved : Truly(r \in unread', wanted, selected, OrderAt(Now', r), copy'[r])
  PROVE  CopyExact'
<1>1. \A r \in AllRefs : Truly(r \in unread, wanted, selected, OrderAt(Now, r), copy[r])
  BY CopyMeans DEF Ordered
<1>2. \A r \in AllRefs : Truly(r \in unread', wanted, selected, OrderAt(Now', r), copy'[r])
  BY <1>1 DEF StillUnread, Truly
<1>3. \A r \in AllRefs : Truly(r \in unread', wanted', selected', OrderAt(Now', r), copy'[r])
  BY <1>2
<1>4. (Sound(os, books) => (CopyExact <=>
         \A r \in AllRefs : Truly(r \in unread, wanted, selected, OrderAt(Now, r), copy[r])))'
  BY CopyMeans, PTL
<1> QED BY <1>3, <1>4 DEF Ordered

\* What resting() reads is the order at rest.
LEMMA RestingIs ==
  ASSUME Sound(os, books), NEW ref \in AllRefs, NEW l
  PROVE  LET r == Resting(ref, l)
             x == OrderAt(Now, ref)
         IN IF Live(os, ref)
              THEN /\ x # Absent /\ r.found = TRUE
                   /\ r.locate = x.locate /\ r.side = SideOf(x.buy) /\ r.qty = x.qty
                   /\ r.price = x.price /\ r.qty = os[ref].qty /\ r.locate = os[ref].locate
              ELSE x = Absent /\ r.side = "N" /\ r.locate = l /\ r.qty = 0 /\ r.found = FALSE
<1>1. OrderAt(Now, ref) # Absent <=> Live(os, ref)
  BY RestingLive DEF Now
<1>2. CASE ~ Live(os, ref)
  BY <1>1, <1>2 DEF Resting
<1>3. CASE Live(os, ref)
  <2>1. OrderAt(Now, ref) = [locate |-> os[ref].locate, buy |-> os[ref].buy, qty |-> os[ref].qty,
          price |-> Key(os[ref].buy, books[os[ref].locate].levels[os[ref].level].key)]
    BY <1>3 DEF OrderAt, Now, Live
  <2>2. Resting(ref, l) =
          [locate |-> os[ref].locate, side |-> SideOf(os[ref].buy), qty |-> os[ref].qty,
           found |-> TRUE,
           price |-> Key(os[ref].buy, books[os[ref].locate].levels[os[ref].level].key)]
    BY <1>3 DEF Resting
  <2> QED BY <1>1, <1>3, <2>1, <2>2
<1> QED BY <1>2, <1>3

\* An order that joins a line is one.
LEMMA JoinedPresent ==
  ASSUME NEW l \in Locates, NEW buy \in BOOLEAN, NEW shares \in Sizes, NEW price \in Prices
  PROVE  [locate |-> l, buy |-> buy, qty |-> shares, price |-> price] # Absent
<1>1. l \in Nat /\ price \in Nat /\ shares \in Nat
  BY ConstantFacts
<1>2. price \in Int
  BY <1>1
<1> DEFINE y == [locate |-> l, buy |-> buy, qty |-> shares, price |-> price]
<1>3. y \in [locate : Nat, buy : BOOLEAN, qty : Nat, price : Int]
  BY ONLY <1>1, <1>2, buy \in BOOLEAN
<1> HIDE DEF y
<1>4. y # Absent
  BY <1>3, AbsentAssumption
<1> QED BY <1>4 DEF y

\* An order at rest has a side.
LEMMA SideKnown == \A buy \in BOOLEAN : SideOf(buy) # "N"
BY DEF SideOf

\* A reader takes the side of a row about it for what it is.
LEMMA SideRead == \A buy \in BOOLEAN : SideOf(SideOf(buy) = "B") = SideOf(buy)
BY DEF SideOf

\* What is remembered of the orders at rest, before a message and after.
CopyRight == CopyExact /\ copy = [r \in AllRefs |-> copy[r]]

\* Of one order at rest this much is left, or the reference names none.
Shrinks(ref, left) ==
  /\ ~ Live(os, ref) => Stay
  /\ Live(os, ref) /\ left = 0 => LeavesLine({ref})
  /\ Live(os, ref) /\ left # 0 =>
       /\ Live(os', ref)
       /\ OrderAt(Now', ref) = [OrderAt(Now, ref) EXCEPT !.qty = left]
       /\ \A r \in AllRefs \ {ref} : OrderAt(Now', r) = OrderAt(Now, r)

\* A row about one order at rest: with what is left of it after the message.
LEMMA RestingCopied ==
  ASSUME Ordered(os, books, ahead), Ordered(os', books', ahead'), CopyRight,
         UNCHANGED <<wanted, selected>>, NEW ref \in AllRefs, NEW l, NEW left, NEW w,
         w.ref = ref, w.remaining = left, w.type # "A", w.type # "U",
         w.locate = Resting(ref, l).locate, w.side = Resting(ref, l).side,
         copy' = IF Selected(w.locate) THEN Replayed(copy, w) ELSE copy, StillUnread({}),
         Shrinks(ref, left)
  PROVE  CopyRight'
<1> USE DEF Shrinks
<1>a. Sound(os, books) /\ Sound(os', books') /\ CopyExact /\ copy = [r \in AllRefs |-> copy[r]]
  BY DEF Ordered, CopyRight
<1>1. CASE ~ Live(os, ref)
  <2>1. w.side = "N"
    BY <1>a, <1>1, RestingIs
  <2>2. copy' = copy
    BY <2>1 DEF Replayed
  <2>3. \A r \in AllRefs : OrderAt(Now', r) = OrderAt(Now, r)
    BY <1>1 DEF Stay, Now, OrderAt
  <2>4. CopyExact'
    <3> DEFINE moved == {}
    <3>1. /\ \A r \in AllRefs \ moved : OrderAt(Now', r) = OrderAt(Now, r) /\ copy'[r] = copy[r]
          /\ StillUnread(moved)
          /\ \A r \in moved : Truly(r \in unread', wanted, selected, OrderAt(Now', r), copy'[r])
      BY <2>2, <2>3
    <3> HIDE DEF moved
    <3> QED BY <1>a, <3>1, CopyKept
  <2> QED BY <1>a, <2>2, <2>4 DEF CopyRight
<1>2. CASE Live(os, ref)
  <2> DEFINE x == OrderAt(Now, ref)
  <2>1. /\ x # Absent /\ w.locate = x.locate /\ w.side = SideOf(x.buy) /\ x.buy \in BOOLEAN
        /\ x = [locate |-> x.locate, buy |-> x.buy, qty |-> x.qty, price |-> x.price]
    <3>1. /\ x # Absent /\ w.locate = x.locate /\ w.side = SideOf(x.buy)
      BY <1>a, <1>2, RestingIs
    <3>2. os[ref].buy \in BOOLEAN
      BY <1>a DEF Sound, Stores, Order
    <3>3. x = [locate |-> os[ref].locate, buy |-> os[ref].buy, qty |-> os[ref].qty,
          price |-> Key(os[ref].buy, books[os[ref].locate].levels[os[ref].level].key)]
      BY <1>2 DEF OrderAt, Now, Live
    <3> HIDE DEF x
    <3> QED BY <3>1, <3>2, <3>3
  <2>2. w.side # "N"
    BY <2>1, SideKnown
  <2>3. copy' = IF Selected(w.locate)
                  THEN [copy EXCEPT ![ref] = IF left = 0 \/ copy[ref] = Gone THEN Gone
                                             ELSE [copy[ref] EXCEPT !.qty = left]]
                  ELSE copy
    BY <2>2 DEF Replayed
  <2>4. \A r \in AllRefs \ {ref} : OrderAt(Now', r) = OrderAt(Now, r) /\ copy'[r] = copy[r]
    <3>1. \A r \in AllRefs \ {ref} : OrderAt(Now', r) = OrderAt(Now, r)
      BY <1>2 DEF LeavesLine
    <3>2. \A r \in AllRefs \ {ref} : copy'[r] = copy[r]
      BY <1>a, <2>3
    <3> QED BY <3>1, <3>2
  <2>5. Truly(ref \in unread, wanted, selected, x, copy[ref])
    BY <1>a, CopyMeans
  <2>6. Truly(ref \in unread', wanted, selected, OrderAt(Now', ref), copy'[ref])
    <3>1. CASE left = 0
      <4>1. OrderAt(Now', ref) = Absent
        <5>1. ~ Live(os', ref)
          BY <1>2, <3>1 DEF LeavesLine
        <5> QED BY <5>1 DEF OrderAt, Now, Live
      <4>2. Selected(w.locate) => copy'[ref] = Gone
        BY <1>a, <2>3, <3>1
      <4>3. wanted = {} => Selected(w.locate)
        BY DEF Selected
      <4> QED BY <4>1, <4>2, <4>3 DEF Truly
    <3>2. CASE left # 0
      <4> DEFINE y == OrderAt(Now', ref)
      <4>1. y = [locate |-> x.locate, buy |-> x.buy, qty |-> left, price |-> x.price]
        <5>1. y = [x EXCEPT !.qty = left]
          BY <1>2, <3>2
        <5> HIDE DEF x, y
        <5> QED BY <2>1, <5>1
      <4> HIDE DEF x, y
      <4>2. y.locate = x.locate
        BY <4>1
      <4>3. Selected(x.locate) /\ ref \notin unread => copy'[ref] = Account(y)
        <5> SUFFICES ASSUME Selected(x.locate), ref \notin unread PROVE copy'[ref] = Account(y)
          OBVIOUS
        <5>1. copy[ref] = Account(x) /\ copy[ref] # Gone
          <6>1. copy[ref] = Account(x)
            BY <2>1, <2>5 DEF Truly, Selected
          <6>2. Account(x).side # "N" /\ Gone.side = "N"
            BY <2>1, SideKnown DEF Account, Gone
          <6> QED BY <6>1, <6>2
        <5>2. copy'[ref] = [copy[ref] EXCEPT !.qty = left]
          BY <1>a, <2>1, <2>3, <3>2, <5>1
        <5> QED BY <4>1, <5>1, <5>2 DEF Account
      <4>4. y # Absent
        <5>1. OrderAt([os |-> os', books |-> books'], ref) # Absent
          BY <1>2, <1>a, <3>2, RestingLive
        <5> QED BY <5>1 DEF y, Now
      <4>5. ref \in unread => ref \in unread'
        BY <4>4 DEF StillUnread, y
      <4> QED BY <4>2, <4>3, <4>4, <4>5 DEF Truly, Selected, y
    <3> QED BY <3>1, <3>2
  <2>7. CopyExact'
    <3> DEFINE moved == {ref}
    <3>1. /\ \A r \in AllRefs \ moved : OrderAt(Now', r) = OrderAt(Now, r) /\ copy'[r] = copy[r]
          /\ StillUnread(moved)
          /\ \A r \in moved : Truly(r \in unread', wanted, selected, OrderAt(Now', r), copy'[r])
      BY <2>4, <2>6 DEF StillUnread
    <3> HIDE DEF moved
    <3> QED BY <1>a, <3>1, CopyKept
  <2>8. copy' = [r \in AllRefs |-> copy'[r]]
    BY <1>a, <2>3
  <2> QED BY <2>7, <2>8 DEF CopyRight
<1> QED BY <1>1, <1>2

\* The row of an add: the order as it rests, nothing of it if it was refused, and
\* nothing at all if its side is N, which leaves what rests unread.
LEMMA AddCopied ==
  ASSUME Ordered(os, books, ahead), Ordered(os', books', ahead'), CopyRight,
         UNCHANGED <<wanted, selected>>, NEW ref \in AllRefs, NEW l, NEW side,
         NEW price, NEW shares, NEW w, w.ref = ref, w.type = "A", w.side = side,
         w.locate = l, w.price = price,
         copy' = IF Selected(w.locate) THEN Replayed(copy, w) ELSE copy, unread' = Unread(w),
         AddDoes(ref, l, side = "B", price, shares),
         ~ Accepts(ref, price, shares) => w.remaining = 0,
         Accepts(ref, price, shares) => w.remaining = shares
  PROVE  CopyRight'
<1>a. CopyExact /\ copy = [r \in AllRefs |-> copy[r]]
  BY DEF CopyRight
<1>b. Sound(os', books')
  BY DEF Ordered
<1> DEFINE moved == IF Accepts(ref, price, shares) THEN {ref} ELSE {}
           buy   == side = "B"
           order == [locate |-> l, side |-> SideOf(buy), price |-> price, qty |-> shares]
<1>1. CASE ~ Accepts(ref, price, shares)
  <2>1. copy' = copy
    BY <1>1 DEF Replayed
  <2>2. StillUnread({})
    BY <1>b, <1>1, UnreadKept
  <2>3. /\ \A r \in AllRefs \ moved : OrderAt(Now', r) = OrderAt(Now, r) /\ copy'[r] = copy[r]
        /\ StillUnread(moved)
        /\ \A r \in moved : Truly(r \in unread', wanted, selected, OrderAt(Now', r), copy'[r])
    BY <1>1, <2>1, <2>2 DEF AddDoes, Stay, Now, OrderAt
  <2> HIDE DEF moved
  <2>4. CopyExact'
    BY <1>a, <2>3, CopyKept
  <2> QED BY <1>a, <2>1, <2>4 DEF CopyRight
<1>2. CASE Accepts(ref, price, shares)
  <2>1. /\ \A r \in AllRefs \ {ref} : OrderAt(Now', r) = OrderAt(Now, r)
        /\ OrderAt(Now', ref) = [locate |-> l, buy |-> buy, qty |-> shares, price |-> price]
    BY <1>2 DEF AddDoes, JoinsLine
  <2>2. shares # 0
    BY <1>2 DEF Accepts
  <2>3. copy' = IF Selected(l) /\ side # "N" THEN [copy EXCEPT ![ref] = order] ELSE copy
    BY <1>2, <2>2 DEF Replayed
  <2>4. OrderAt(Now', ref) # Absent
    <3> DEFINE y == OrderAt(Now', ref)
    <3>1. OrderAt(Now', ref) \in [locate : Locates, buy : BOOLEAN,
                                  price : Prices \ {0}, qty : Sizes \ {0}]
      BY <1>2 DEF AddDoes, JoinsLine
    <3>2. y = [locate |-> l, buy |-> buy, qty |-> shares, price |-> price]
      BY <2>1
    <3> HIDE DEF y, buy
    <3> QED BY <3>1, <3>2, JoinedPresent DEF y
  <2>5. StillUnread({ref}) /\ (side = "N" => ref \in unread')
    BY <1>b, <1>2, <2>2, <2>4, UnreadKept
  <2>6. Truly(ref \in unread', wanted, selected, OrderAt(Now', ref), copy'[ref])
    <3> DEFINE y == OrderAt(Now', ref)
    <3>1. y.locate = l /\ Account(y) = order
      <4> HIDE DEF y, buy
      <4> QED BY <2>1 DEF Account, y
    <3>2. Selected(l) /\ side # "N" => copy'[ref] = order
      BY <1>a, <2>3
    <3> HIDE DEF y, order
    <3> QED BY <2>4, <2>5, <3>1, <3>2 DEF Truly, Selected, y
  <2>7. /\ \A r \in AllRefs \ moved : OrderAt(Now', r) = OrderAt(Now, r) /\ copy'[r] = copy[r]
        /\ StillUnread(moved)
        /\ \A r \in moved : Truly(r \in unread', wanted, selected, OrderAt(Now', r), copy'[r])
    <3> HIDE DEF order
    <3> QED BY <1>2, <1>a, <2>1, <2>3, <2>5, <2>6
  <2>8. copy' = [r \in AllRefs |-> copy'[r]]
    BY <1>a, <2>3
  <2> HIDE DEF moved
  <2>9. CopyExact'
    BY <1>a, <2>7, CopyKept
  <2> QED BY <2>8, <2>9 DEF CopyRight
<1> QED BY <1>1, <1>2

\* What a replace of an order at rest does to the orders.
LEMMA ReplaceMoves ==
  ASSUME Sound(os, books), Sound(os', books'), NEW old, NEW new \in AllRefs,
         NEW price, NEW shares, ReplaceDoes(old, new, price, shares), Live(os, old)
  PROVE  /\ \A r \in AllRefs \ {old, new} : OrderAt(Now', r) = OrderAt(Now, r)
         /\ new # old => ~ Live(os', old)
         /\ ~ Accepts(new, price, shares) => ~ Live(os', old) /\ ~ Live(os', new)
         /\ Accepts(new, price, shares) =>
              /\ OrderAt(Now', new) = [locate |-> os[old].locate, buy |-> os[old].buy,
                                       qty |-> shares, price |-> price]
              /\ OrderAt(Now', new) \in [locate : Locates, buy : BOOLEAN,
                                          price : Prices \ {0}, qty : Sizes \ {0}]
<1> DEFINE left == {old} \cup ({new} \cap LiveRefs)
<1>1. CASE ~ Accepts(new, price, shares)
  <2>1. LeavesLine(left)
    BY <1>1 DEF ReplaceDoes
  <2>2. /\ \A r \in left : ~ Live(os', r)
        /\ \A r \in AllRefs \ left : OrderAt(Now', r) = OrderAt(Now, r)
    BY <2>1 DEF LeavesLine
  <2>3. new \notin left => ~ Live(os', new)
    <3>1. new \notin left => ~ Live(os, new) /\ OrderAt(Now', new) = OrderAt(Now, new)
      BY <2>2 DEF LiveRefs
    <3>2. /\ OrderAt([os |-> os, books |-> books], new) # Absent <=> Live(os, new)
          /\ OrderAt([os |-> os', books |-> books'], new) # Absent <=> Live(os', new)
      BY RestingLive
    <3> QED BY <3>1, <3>2 DEF Now
  <2> QED BY <1>1, <2>2, <2>3
<1>2. CASE Accepts(new, price, shares)
  <2>1. JoinsLine(left, new)
        /\ OrderAt(Now', new) = [locate |-> os[old].locate, buy |-> os[old].buy,
                                 qty |-> shares, price |-> price]
    BY <1>2 DEF ReplaceDoes
  <2> QED BY <1>2, <2>1 DEF JoinsLine
<1> QED BY <1>1, <1>2

\* The row of a replace: the old order gone, the new one as it rests or refused; an order
\* that lost its reference to the new one is gone with it, of whichever book it was.
LEMMA ReplaceCopied ==
  ASSUME Ordered(os, books, ahead), Ordered(os', books', ahead'), CopyRight,
         UNCHANGED <<wanted, selected>>, NEW old \in AllRefs, NEW new \in AllRefs, NEW l,
         NEW price, NEW shares, NEW w, w.ref = new, w.old = old, w.type = "U",
         w.locate = Resting(old, l).locate, w.side = Resting(old, l).side, w.price = price,
         copy' = IF Selected(w.locate) THEN Replayed(copy, w) ELSE copy, unread' = Unread(w),
         ReplaceDoes(old, new, price, shares),
         ~ Accepts(new, price, shares) => w.remaining = 0,
         Accepts(new, price, shares) /\ Live(os, old) => w.remaining = shares,
         ~ Live(os, old) => w.remaining = 0
  PROVE  CopyRight'
<1>a. Sound(os, books) /\ Sound(os', books') /\ CopyExact /\ copy = [r \in AllRefs |-> copy[r]]
  BY DEF Ordered, CopyRight
<1> DEFINE moved == IF Live(os, old) THEN {old, new} ELSE {}
<1>1. CASE ~ Live(os, old)
  <2>1. w.side = "N"
    BY <1>a, <1>1, RestingIs
  <2>2. copy' = copy
    BY <2>1 DEF Replayed
  <2>3. /\ \A r \in AllRefs \ moved : OrderAt(Now', r) = OrderAt(Now, r) /\ copy'[r] = copy[r]
        /\ StillUnread(moved)
        /\ \A r \in moved : Truly(r \in unread', wanted, selected, OrderAt(Now', r), copy'[r])
    <3>1. StillUnread({})
      BY <1>a, <1>1, UnreadKept
    <3> QED BY <1>1, <2>2, <3>1 DEF ReplaceDoes, Stay, Now, OrderAt
  <2> HIDE DEF moved
  <2>4. CopyExact'
    BY <1>a, <2>3, CopyKept
  <2> QED BY <1>a, <2>2, <2>4 DEF CopyRight
<1>2. CASE Live(os, old)
  <2> DEFINE k     == os[old].locate
             order == [locate |-> k, side |-> SideOf(os[old].buy), price |-> price, qty |-> shares]
             after == IF Accepts(new, price, shares) THEN order ELSE Gone
  <2>1. w.locate = k /\ w.side = SideOf(os[old].buy) /\ os[old].buy \in BOOLEAN
    <3>1. os[old].buy \in BOOLEAN
      BY <1>a DEF Sound, Stores, Order
    <3>2. w.locate = k /\ w.side = SideOf(os[old].buy)
      BY <1>2 DEF Resting
    <3> QED BY <3>1, <3>2
  <2>2. w.side # "N"
    BY <2>1, SideKnown
  <2>3. copy' = IF Selected(k) THEN [copy EXCEPT ![old] = Gone, ![new] = after] ELSE copy
    <3>1. Accepts(new, price, shares) => shares # 0
      BY DEF Accepts
    <3>2. SideOf(w.side = "B") = SideOf(os[old].buy)
      BY <2>1, SideRead
    <3>3. PICK rested : rested = IF w.remaining = 0 THEN Gone
                                 ELSE [locate |-> w.locate, side |-> SideOf(w.side = "B"),
                                       price |-> w.price, qty |-> w.remaining]
      OBVIOUS
    <3>4. rested = after
      BY <1>2, <2>1, <3>1, <3>2, <3>3
    <3>5. Replayed(copy, w) = [copy EXCEPT ![old] = Gone, ![new] = rested]
      BY <2>2, <3>3 DEF Replayed
    <3> HIDE DEF after
    <3> QED BY <2>1, <3>4, <3>5
  <2> HIDE DEF k, order
  <2>4. /\ \A r \in AllRefs \ {old, new} : OrderAt(Now', r) = OrderAt(Now, r)
        /\ new # old => ~ Live(os', old)
        /\ ~ Accepts(new, price, shares) => ~ Live(os', old) /\ ~ Live(os', new)
        /\ Accepts(new, price, shares) =>
             /\ OrderAt(Now', new) = [locate |-> k, buy |-> os[old].buy,
                                      qty |-> shares, price |-> price]
             /\ OrderAt(Now', new) \in [locate : Locates, buy : BOOLEAN,
                                         price : Prices \ {0}, qty : Sizes \ {0}]
    BY <1>a, <1>2, ReplaceMoves DEF k
  <2>5. Truly(new \in unread', wanted, selected, OrderAt(Now', new), copy'[new])
    <3>1. Selected(k) => copy'[new] = after
      BY <1>a, <2>3
    <3>2. CASE ~ Accepts(new, price, shares)
      <4>1. OrderAt(Now', new) = Absent
        BY <2>4, <3>2 DEF OrderAt, Now, Live
      <4> QED BY <3>1, <3>2, <4>1 DEF Truly, Selected
    <3>3. CASE Accepts(new, price, shares)
      <4> DEFINE y == OrderAt(Now', new)
      <4>1. y = [locate |-> k, buy |-> os[old].buy, qty |-> shares, price |-> price]
            /\ y \in [locate : Locates, buy : BOOLEAN, price : Prices \ {0}, qty : Sizes \ {0}]
        BY <2>4, <3>3
      <4> HIDE DEF y
      <4>2. y.locate = k /\ Account(y) = order
        BY <4>1 DEF Account, order
      <4>3. y # Absent
        BY <4>1, JoinedPresent
      <4> QED BY <3>1, <3>3, <4>2, <4>3 DEF Truly, Selected, y
    <3> QED BY <3>2, <3>3
  <2>6. new # old => Truly(old \in unread', wanted, selected, OrderAt(Now', old), copy'[old])
    <3> SUFFICES ASSUME new # old
                 PROVE  Truly(old \in unread', wanted, selected, OrderAt(Now', old), copy'[old])
      OBVIOUS
    <3>1. Selected(k) => copy'[old] = Gone
      <4> HIDE DEF after
      <4> QED BY <1>a, <2>3
    <3>2. OrderAt(Now', old) = Absent
      BY <2>4 DEF OrderAt, Now, Live
    <3> QED BY <3>1, <3>2 DEF Truly, Selected
  <2>7. /\ \A r \in AllRefs \ moved : OrderAt(Now', r) = OrderAt(Now, r) /\ copy'[r] = copy[r]
        /\ StillUnread(moved)
        /\ \A r \in moved : Truly(r \in unread', wanted, selected, OrderAt(Now', r), copy'[r])
    <3> HIDE DEF after
    <3>1. \A r \in AllRefs \ {old, new} : copy'[r] = copy[r]
      BY <1>a, <2>3
    <3>2. StillUnread({old, new})
      BY <1>a, UnreadKept DEF StillUnread
    <3> QED BY <1>2, <2>4, <2>5, <2>6, <3>1, <3>2
  <2>8. copy' = [r \in AllRefs |-> copy'[r]]
    <3> HIDE DEF after
    <3> QED BY <1>a, <2>3
  <2> HIDE DEF moved
  <2>9. CopyExact'
    BY <1>a, <2>7, CopyKept
  <2> QED BY <2>8, <2>9 DEF CopyRight
<1> QED BY <1>1, <1>2

-----------------------------------------------------------------------------
(* The handlers.                                                           *)

\* What the tables say, beside the manager's invariant.
TablesTell == TablesTyped /\ DepthCurrent /\ Unshown /\ CopyExact

\* The parts of SInv that the handlers need.
LEMMA SInvFacts ==
  ASSUME SInv
  PROVE  /\ QInv /\ IInv /\ TablesTell /\ CopyRight /\ Ordered(os, books, ahead)
         /\ Sound(os, books)
BY QInvOrdered, IInvFacts DEF SInv, QInv, TablesTell, TablesTyped, CopyRight

\* A handler keeps both tables if it keeps each.
LEMMA BothKept ==
  ASSUME CopyRight', shown' = [l \in Locates |-> shown'[l]], DepthCurrent', Unshown'
  PROVE  TablesTell'
BY DEF CopyRight, TablesTell, TablesTyped

\* A and F messages: the row names the order that rests, and on_add may evict another.
LEMMA AddMessageKeeps ==
  ASSUME SInv, NEW ref \in AllRefs, NEW l \in Locates, NEW side,
         NEW price \in Prices, NEW shares \in Sizes, AddMessage(ref, l, side, price, shares)
  PROVE  TablesTell'
<1>a. /\ QInv /\ IInv /\ TablesTell /\ CopyRight /\ Ordered(os, books, ahead)
  BY SInvFacts
<1>1. /\ OnAdd(ref, l, side = "B", price, shares) /\ EmitDepth(AlsoHit \cup {l})
      /\ UNCHANGED <<wanted, selected>>
  BY DEF AddMessage
<1>2. shown' = [k \in Locates |-> shown'[k]] /\ DepthCurrent' /\ Unshown'
  BY <1>a, <1>1, AddEmitted, DepthKept DEF TablesTell
<1>3. PICK w : w = [type |-> "A", locate |-> l, side |-> side, price |-> price,
                    size |-> shares, ref |-> ref, old |-> NilRef,
                    remaining |-> IF "rejected" \in counted' THEN 0 ELSE shares]
  OBVIOUS
<1>4. (copy' = IF Selected(w.locate) THEN Replayed(copy, w) ELSE copy) /\ unread' = Unread(w)
  BY <1>3 DEF AddMessage, EmitMessage
<1>5. "rejected" \in counted' <=> ~ Accepts(ref, price, shares)
  BY <1>1 DEF OnAdd
<1>6. /\ w.ref = ref /\ w.type = "A" /\ w.side = side /\ w.locate = l /\ w.price = price
      /\ ~ Accepts(ref, price, shares) => w.remaining = 0
      /\ Accepts(ref, price, shares) => w.remaining = shares
  BY <1>3, <1>5
<1>7. Ordered(os', books', ahead') /\ AddDoes(ref, l, side = "B", price, shares)
  BY <1>a, <1>1, AddDone
<1>8. CopyRight'
  BY <1>a, <1>1, <1>4, <1>6, <1>7, AddCopied
<1> QED BY <1>2, <1>8, BothKept

\* The handlers of executions and cancels, whatever the type and the price of the row.
LEMMA ReduceKeeps ==
  ASSUME SInv, NEW ref \in AllRefs, NEW shares \in Sizes, NEW counter, NEW l,
         ReduceOrder(ref, shares, counter), NEW w, w.ref = ref,
         w.type # "A", w.type # "U", w.remaining = Left(Resting(ref, l), shares),
         w.locate = Resting(ref, l).locate, w.side = Resting(ref, l).side,
         copy' = IF Selected(w.locate) THEN Replayed(copy, w) ELSE copy, unread' = Unread(w),
         EmitDepth({Resting(ref, l).locate}), UNCHANGED <<wanted, selected>>
  PROVE  TablesTell'
<1>a. /\ QInv /\ IInv /\ TablesTell /\ CopyRight /\ Ordered(os, books, ahead)
      /\ Sound(os, books)
  BY SInvFacts
<1>1. shown' = [k \in Locates |-> shown'[k]] /\ DepthCurrent' /\ Unshown'
  BY <1>a, ReduceEmitted, DepthKept DEF TablesTell
<1>2. Ordered(os', books', ahead') /\ ReduceDoes(ref, shares)
  BY <1>a, ReduceDone
<1> DEFINE left == Left(Resting(ref, l), shares)
<1>3. ASSUME Live(os, ref)
      PROVE  /\ left = 0 <=> Taken(os, ref, shares) = os[ref].qty
             /\ left # 0 => left = os[ref].qty - shares
  <2>1. Resting(ref, l).qty = os[ref].qty
    BY <1>a, <1>3, RestingIs
  <2>2. os[ref].qty \in Nat /\ shares \in Nat
    BY <1>a, ConstantFacts DEF Sound, Stores, Order
  <2>3. left = IF os[ref].qty > shares THEN os[ref].qty - shares ELSE 0
    BY <2>1 DEF Left
  <2> HIDE DEF left
  <2> QED BY <2>2, <2>3 DEF Taken
<1>4. Shrinks(ref, left)
  <2> HIDE DEF left
  <2> QED BY <1>2, <1>3 DEF ReduceDoes, Shrinks
<1>5. w.remaining = left
  OBVIOUS
<1> HIDE DEF left
<1>6. StillUnread({})
  BY <1>2, UnreadKept DEF Ordered
<1>7. CopyRight'
  BY <1>a, <1>2, <1>4, <1>5, <1>6, RestingCopied
<1> QED BY <1>1, <1>7, BothKept

\* E messages: the row tells what is left, which is what on_execute leaves.
LEMMA ExecuteMessageKeeps ==
  ASSUME SInv, NEW ref \in AllRefs, NEW l, NEW shares \in Sizes, ExecuteMessage(ref, l, shares)
  PROVE  TablesTell'
<1>1. PICK w : w = RestingRow("E", Resting(ref, l), Resting(ref, l).price, shares,
                              Left(Resting(ref, l), shares), ref)
  OBVIOUS
<1>2. /\ ReduceOrder(ref, shares, "executes") /\ EmitDepth({Resting(ref, l).locate})
      /\ copy' = IF Selected(w.locate) THEN Replayed(copy, w) ELSE copy
      /\ unread' = Unread(w) /\ UNCHANGED <<wanted, selected>>
  BY <1>1 DEF ExecuteMessage, OnExecute, EmitMessage
<1> QED BY <1>1, <1>2, ReduceKeeps DEF RestingRow

\* C messages: so does theirs, at whatever price the execution was.
LEMMA ExecutePriceMessageKeeps ==
  ASSUME SInv, NEW ref \in AllRefs, NEW l, NEW shares \in Sizes, NEW price, NEW printable,
         ExecutePriceMessage(ref, l, shares, price, printable)
  PROVE  TablesTell'
<1>1. PICK w : w = RestingRow("C", Resting(ref, l), price, shares,
                              Left(Resting(ref, l), shares), ref)
  OBVIOUS
<1>2. /\ ReduceOrder(ref, shares, "executes") /\ EmitDepth({Resting(ref, l).locate})
      /\ copy' = IF Selected(w.locate) THEN Replayed(copy, w) ELSE copy
      /\ unread' = Unread(w) /\ UNCHANGED <<wanted, selected>>
  BY <1>1 DEF ExecutePriceMessage, OnExecutePrice, EmitMessage
<1> QED BY <1>1, <1>2, ReduceKeeps DEF RestingRow

\* X messages.
LEMMA CancelMessageKeeps ==
  ASSUME SInv, NEW ref \in AllRefs, NEW l, NEW shares \in Sizes, CancelMessage(ref, l, shares)
  PROVE  TablesTell'
<1>1. PICK w : w = RestingRow("X", Resting(ref, l), Resting(ref, l).price, shares,
                              Left(Resting(ref, l), shares), ref)
  OBVIOUS
<1>2. /\ ReduceOrder(ref, shares, "cancels") /\ EmitDepth({Resting(ref, l).locate})
      /\ copy' = IF Selected(w.locate) THEN Replayed(copy, w) ELSE copy
      /\ unread' = Unread(w) /\ UNCHANGED <<wanted, selected>>
  BY <1>1 DEF CancelMessage, OnCancel, EmitMessage
<1> QED BY <1>1, <1>2, ReduceKeeps DEF RestingRow

\* D messages: the row leaves nothing, and nothing rests.
LEMMA DeleteMessageKeeps ==
  ASSUME SInv, NEW ref \in AllRefs, NEW l, DeleteMessage(ref, l)
  PROVE  TablesTell'
<1>a. /\ QInv /\ IInv /\ TablesTell /\ CopyRight /\ Ordered(os, books, ahead)
      /\ Sound(os, books)
  BY SInvFacts
<1>1. PICK w : w = RestingRow("D", Resting(ref, l), Resting(ref, l).price,
                              Resting(ref, l).qty, 0, ref)
  OBVIOUS
<1>2. /\ OnDelete(ref) /\ EmitDepth({Resting(ref, l).locate})
      /\ copy' = IF Selected(w.locate) THEN Replayed(copy, w) ELSE copy
      /\ unread' = Unread(w) /\ UNCHANGED <<wanted, selected>>
  BY <1>1 DEF DeleteMessage, EmitMessage
<1>3. shown' = [k \in Locates |-> shown'[k]] /\ DepthCurrent' /\ Unshown'
  BY <1>a, <1>2, DeleteEmitted, DepthKept DEF TablesTell
<1>4. Ordered(os', books', ahead') /\ DeleteDoes(ref)
  BY <1>a, <1>2, DeleteDone
<1>5. /\ w.ref = ref /\ w.remaining = 0 /\ w.type # "A" /\ w.type # "U"
      /\ w.locate = Resting(ref, l).locate /\ w.side = Resting(ref, l).side
  BY <1>1 DEF RestingRow
<1>6. Shrinks(ref, 0)
  BY <1>4 DEF DeleteDoes, Shrinks
<1>7. StillUnread({})
  BY <1>2, <1>4, <1>5, UnreadKept DEF Ordered
<1>8. CopyRight'
  BY <1>a, <1>2, <1>4, <1>5, <1>6, <1>7, RestingCopied
<1> QED BY <1>3, <1>8, BothKept

\* U messages: one row takes an order off and puts its successor on, or a refused one neither.
LEMMA ReplaceMessageKeeps ==
  ASSUME SInv, NEW old \in AllRefs, NEW new \in AllRefs, NEW l, NEW price \in Prices,
         NEW shares \in Sizes, ReplaceMessage(old, new, l, price, shares)
  PROVE  TablesTell'
<1>a. /\ QInv /\ IInv /\ TablesTell /\ CopyRight /\ Ordered(os, books, ahead)
      /\ Sound(os, books)
  BY SInvFacts
<1>1. PICK w : w = ReplaceRow(Resting(old, l), old, new, price, shares)
  OBVIOUS
<1>2. /\ OnReplace(old, new, price, shares) /\ EmitDepth(AlsoHit \cup {Resting(old, l).locate})
      /\ copy' = IF Selected(w.locate) THEN Replayed(copy, w) ELSE copy
      /\ unread' = Unread(w) /\ UNCHANGED <<wanted, selected>>
  BY <1>1 DEF ReplaceMessage, EmitMessage
<1>3. shown' = [k \in Locates |-> shown'[k]] /\ DepthCurrent' /\ Unshown'
  BY <1>a, <1>2, ReplaceEmitted, DepthKept DEF TablesTell
<1>4. Ordered(os', books', ahead') /\ ReplaceDoes(old, new, price, shares)
  BY <1>a, <1>2, ReplaceDone
<1>5. ASSUME Live(os, old)
      PROVE  "rejected" \in counted' <=> ~ Accepts(new, price, shares)
  <2>1. \/ ~ Accepts(new, price, shares) /\ "rejected" \in counted'
        \/ Accepts(new, price, shares) /\ counted' \subseteq {"replaces", "dup_ref"}
    BY <1>2, <1>5 DEF OnReplace
  <2> QED BY <2>1
<1>6. Live(os, old) <=> Resting(old, l).found
  BY <1>a, RestingIs
<1>7. /\ w.ref = new /\ w.old = old /\ w.type = "U" /\ w.price = price
      /\ w.locate = Resting(old, l).locate /\ w.side = Resting(old, l).side
      /\ w.remaining = IF Resting(old, l).found /\ "rejected" \notin counted' THEN shares ELSE 0
  BY <1>1 DEF ReplaceRow
<1>8. /\ ~ Accepts(new, price, shares) => w.remaining = 0
      /\ Accepts(new, price, shares) /\ Live(os, old) => w.remaining = shares
      /\ ~ Live(os, old) => w.remaining = 0
  BY <1>5, <1>6, <1>7
<1>9. CopyRight'
  BY <1>a, <1>2, <1>4, <1>7, <1>8, ReplaceCopied
<1> QED BY <1>3, <1>9, BothKept

\* A book without levels shows none, whatever its pool holds.
LEMMA ShowsNothing ==
  ASSUME NEW b, \A buy \in BOOLEAN : b.side[buy] = <<>>
  PROVE  Shows(b) = [buy \in BOOLEAN |-> <<>>]
<1>1. DOMAIN Sq!Reverse(<<>>) = {}
  BY DEF Sq!Reverse
<1>2. ASSUME NEW buy \in BOOLEAN PROVE Shows(b)[buy] = <<>>
  <2> DEFINE shows == [i \in (1 .. Depth) \cap DOMAIN Sq!Reverse(b.side[buy]) |->
                        LET lv == b.levels[Sq!Reverse(b.side[buy])[i].level]
                        IN [price |-> Key(buy, lv.key), shares |-> lv.shares, orders |-> lv.orders]]
  <2>1. Shows(b)[buy] = shows
    BY DEF Shows
  <2>2. DOMAIN shows = {}
    BY <1>1
  <2>3. shows = [i \in DOMAIN shows |-> shows[i]]
    OBVIOUS
  <2> HIDE DEF shows
  <2>4. shows = <<>>
    BY <2>2, <2>3
  <2> QED BY <2>1, <2>4
<1>3. Shows(b) = [buy \in BOOLEAN |-> Shows(b)[buy]]
  BY DEF Shows
<1> QED BY <1>2, <1>3

\* select_locate(): a locate starts from a depth row that shows an empty book, which it
\* is, since with a selection no order rests when a directory message comes.
LEMMA DirectoryMessageKeeps ==
  ASSUME SInv, NEW l \in Locates, NEW symbol, DirectoryMessage(l, symbol)
  PROVE  TablesTell'
<1>a. /\ TablesTell /\ CopyRight /\ Sound(os, books)
  BY SInvFacts
<1>1. /\ UNCHANGED <<os, books, wanted, shown, copy, unread>>
      /\ wanted # {} => LiveRefs = {}
  BY DEF DirectoryMessage, DirectoryInTime, OnStockDirectory
<1>2. CASE wanted = {}
  BY <1>a, <1>1, <1>2 DEF TablesTell, TablesTyped, DepthCurrent, Unshown, CopyExact, Selected
<1>3. CASE wanted # {}
  <2>1. \A r \in AllRefs : ~ Live(os, r)
    BY <1>1, <1>3 DEF LiveRefs
  <2>2. CopyExact'
    BY <1>1, <1>3, <2>1 DEF CopyExact
  <2>3. ASSUME NEW k \in Locates PROVE Shows(books[k]) = Shows(EmptyBook)
    <3>1. InPlace(AllRefs, os, k, books[k]) /\ DOMAIN os = AllRefs
      BY <1>a DEF Sound, Stores
    <3>2. \A h : Queue(os, k, h) # {} => h = Nil
      BY <2>1, <3>1 DEF Queue, Live
    <3>3. OpenLevels(books[k]) = {}
      <4>1. \A h \in OpenLevels(books[k]) : Queue(os, k, h) # {} /\ h # Nil
        BY <3>1, OpenHandles DEF InPlace, OrdersCounted
      <4> QED BY <3>2, <4>1
    <3>4. \A buy \in BOOLEAN : books[k].side[buy] = <<>>
      <4> SUFFICES ASSUME NEW buy \in BOOLEAN PROVE books[k].side[buy] = <<>>
        OBVIOUS
      <4>1. books[k].side[buy] \in Seq(Entry)
        BY <3>1 DEF InPlace, IsBook, BookType
      <4>2. Listed(books[k], buy) = {}
        BY <3>3 DEF OpenLevels
      <4>3. \A i \in DOMAIN books[k].side[buy] : FALSE
        BY <4>2 DEF Listed
      <4> DEFINE s == books[k].side[buy]
      <4>4. s \in Seq(Entry) /\ 1 \notin DOMAIN s
        BY <4>1, <4>3
      <4> HIDE DEF s
      <4>5. s = <<>>
        BY <4>4
      <4> QED BY <4>5 DEF s
    <3>5. \A buy \in BOOLEAN : EmptyBook.side[buy] = <<>>
      BY DEF EmptyBook
    <3> QED BY <3>4, <3>5, ShowsNothing
  <2>4. \A k \in Locates : shown[k] = Shows(EmptyBook)
    BY <1>a, <2>3 DEF TablesTell, DepthCurrent, Unshown
  <2>5. DepthCurrent' /\ Unshown' /\ TablesTyped'
    BY <1>a, <1>1, <2>3, <2>4 DEF TablesTell, TablesTyped, DepthCurrent, Unshown
  <2> QED BY <2>2, <2>5 DEF TablesTell
<1> QED BY <1>2, <1>3

\* The tables of a message that touches neither the books nor the depth.
LEMMA RestKeeps ==
  ASSUME SInv, UNCHANGED <<os, books, wanted, selected, shown, copy, unread>>
  PROVE  TablesTell'
BY SInvFacts DEF TablesTell, TablesTyped, DepthCurrent, Unshown, CopyExact, Selected

-----------------------------------------------------------------------------
(* Every step, and the theorems.                                           *)

\* Of an operational halt the manager is not told: it keeps what it knows.
LEMMA HaltQInv ==
  ASSUME QInv, UNCHANGED <<os, books, count, symbols, state, last, track, evicted, ahead>>,
         counted' = {}
  PROVE  QInv'
<1>1. IInv /\ count \in 0 .. MaxLocate + 1 /\ count <= count
  BY IInvFacts, BoundsAssumption DEF QInv
<1>2. Handled
  BY <1>1, Idle
<1>3. RestOK'
  BY <1>1 DEF IInv, TypeOK, RestOK
<1>4. IInv'
  BY <1>1, <1>2, <1>3, HandledInvariant
<1>5. Lined(os', ahead') /\ TimePriority'
  BY DEF QInv, TimePriority
<1> QED BY <1>4, <1>5 DEF QInv

\* Every step keeps what the tables tell, and is one of the manager's or a halt.
LEMMA StepTells ==
  ASSUME SInv, [SNext]_sessionState
  PROVE  TablesTell' /\ QInv'
<1>a. QInv
  BY DEF SInv
<1>b. \A ref \in AllRefs : Named(ref) \subseteq Locates
  <2>1. \A r \in AllRefs : os[r].locate \in Locates
    BY SInvFacts DEF Sound, Stores, Order
  <2> QED BY <2>1 DEF Named
<1>c. ASSUME [Next]_vars PROVE QInv'
  BY <1>a, <1>c, StepQInv
<1>1. ASSUME NEW ref \in AllRefs, NEW l \in Locates, NEW side \in SideBytes, NEW price \in Prices,
             NEW shares \in Sizes, AddMessage(ref, l, side, price, shares)
      PROVE  TablesTell' /\ QInv'
  <2>1. Next
    BY <1>1 DEF AddMessage, Next
  <2> QED BY <1>1, <1>c, <2>1, AddMessageKeeps
<1>2. ASSUME NEW ref \in AllRefs, NEW shares \in Sizes, NEW l, ExecuteMessage(ref, l, shares)
      PROVE  TablesTell' /\ QInv'
  <2>1. Next
    BY <1>2 DEF ExecuteMessage, Next
  <2> QED BY <1>2, <1>c, <2>1, ExecuteMessageKeeps
<1>3. ASSUME NEW ref \in AllRefs, NEW shares \in Sizes, NEW l, CancelMessage(ref, l, shares)
      PROVE  TablesTell' /\ QInv'
  <2>1. Next
    BY <1>3 DEF CancelMessage, Next
  <2> QED BY <1>3, <1>c, <2>1, CancelMessageKeeps
<1>4. ASSUME NEW ref \in AllRefs, NEW shares \in Sizes, NEW l, NEW price \in SinkPrices,
             NEW printable \in {TRUE, ~ kTrades},
             ExecutePriceMessage(ref, l, shares, price, printable)
      PROVE  TablesTell' /\ QInv'
  <2>1. printable \in BOOLEAN
    BY FlagsAssumption
  <2>2. Next
    BY <1>4, <2>1 DEF ExecutePriceMessage, Next
  <2> QED BY <1>4, <1>c, <2>2, ExecutePriceMessageKeeps
<1>5. ASSUME NEW ref \in AllRefs, NEW l, DeleteMessage(ref, l)
      PROVE  TablesTell' /\ QInv'
  <2>1. Next
    BY <1>5 DEF DeleteMessage, Next
  <2> QED BY <1>5, <1>c, <2>1, DeleteMessageKeeps
<1>6. ASSUME NEW old \in AllRefs, NEW new \in AllRefs, NEW price \in Prices, NEW shares \in Sizes,
             NEW l, ReplaceMessage(old, new, l, price, shares)
      PROVE  TablesTell' /\ QInv'
  <2>1. Next
    BY <1>6 DEF ReplaceMessage, Next
  <2> QED BY <1>6, <1>c, <2>1, ReplaceMessageKeeps
<1>7. ASSUME NEW l \in Locates, NEW symbol \in Symbols, DirectoryMessage(l, symbol)
      PROVE  TablesTell' /\ QInv'
  <2>1. Next
    BY <1>7 DEF DirectoryMessage, Next
  <2> QED BY <1>7, <1>c, <2>1, DirectoryMessageKeeps
<1>8. ASSUME NEW l \in Locates, NEW now \in States, ActionMessage(l, now)
      PROVE  TablesTell' /\ QInv'
  <2>1. Next /\ UNCHANGED <<os, books, wanted, selected, shown, copy, unread>>
    BY <1>8 DEF ActionMessage, OnTradingAction, Next
  <2> QED BY <1>c, <2>1, RestKeeps
<1>9. ASSUME NEW l \in Locates, NEW now \in States, OperationalHaltMessage(l, now)
      PROVE  TablesTell' /\ QInv'
  BY <1>a, <1>9, HaltQInv, RestKeeps DEF OperationalHaltMessage
<1>10. ASSUME NEW source \in {"P", "Q", "B"}, NEW l \in Locates, NEW price \in Prices,
              NEW shares \in Sizes, TradeMessage(source, l, price, shares)
       PROVE  TablesTell' /\ QInv'
  <2>1. Next /\ UNCHANGED <<os, books, wanted, selected, shown, copy, unread>>
    BY <1>10 DEF TradeMessage, OnPrint, Next
  <2> QED BY <1>c, <2>1, RestKeeps
<1>11. CASE UNCHANGED sessionState
  <2>1. UNCHANGED vars /\ UNCHANGED <<os, books, wanted, selected, shown, copy, unread>>
    BY <1>11 DEF sessionState, vars, sessionVars
  <2> QED BY <1>c, <2>1, RestKeeps
<1>12. ASSUME SNext PROVE TablesTell' /\ QInv'
  BY <1>12, <1>1, <1>2, <1>3, <1>4, <1>5, <1>6, <1>7, <1>8, <1>9, <1>10 DEF SNext
<1> QED BY <1>11, <1>12

\* No order rests, no row was written.
LEMMA InitSInv ==
  ASSUME SInit
  PROVE  SInv
<1>1. QInv /\ Init
  BY InitQInv DEF SInit
<1>2. \A r \in AllRefs : ~ Live(os, r)
  BY <1>1 DEF Init, NoOrder, Nil, Live
<1>3. TablesTyped /\ CopyExact
  BY <1>2 DEF SInit, TablesTyped, CopyExact
<1>4. DepthCurrent /\ Unshown
  BY <1>1 DEF SInit, Init, DepthCurrent, Unshown
<1> QED BY <1>1, <1>3, <1>4 DEF SInv

\* The strengthening that is inductive.
THEOREM SessionInvariant == SSpec => []SInv
<1>1. SInit => SInv
  BY InitSInv
<1>2. SInv /\ [SNext]_sessionState => SInv'
  BY StepTells DEF SInv, TablesTell
<1> QED BY <1>1, <1>2, PTL DEF SSpec, sessionState

\* Of a selected book the last depth row is what the book shows, whichever message of
\* whichever book changed it, however deep the table and whatever was evicted.
THEOREM DepthCurrentHolds == SSpec => []DepthCurrent
<1>1. SInv => DepthCurrent
  BY DEF SInv
<1> QED BY <1>1, SessionInvariant, PTL

\* Who reads messages by their rules knows every order that rests on a selected book but
\* one whose add bore the side N, and with every symbol selected he knows none that does
\* not rest; under a filter he may keep one that was evicted.
THEOREM CopyExactHolds == SSpec => []CopyExact
<1>1. SInv => CopyExact
  BY DEF SInv
<1> QED BY <1>1, SessionInvariant, PTL

-----------------------------------------------------------------------------
(* The lines of the LOBSTER export.                                        *)

EffectsOf(ls, of) == Sq!MapThenSumSet(LAMBDA i : Effect(ls[i]), of)

\* What one line, if it is about the order, does to its size.
PartOf(a, l, r) == IF a.file = l /\ a.id = r THEN Effect(a) ELSE 0

\* The lines of a message, m of them from its row in messages, others that name no order.
LinesAre(m) ==
  \E t, h : \E ts \in {<<>>, <<t>>}, hs \in {<<>>, <<h>>} :
    t.id = NilRef /\ h.id = NilRef /\ lines' = m \o ts \o hs

\* The effects add up as SumOf does.
LEMMA EffectsAre ==
  ASSUME NEW ls, NEW q, IsFiniteSet(q)
  PROVE  EffectsOf(ls, q) = SumOf([i \in q |-> Effect(ls[i])], q)
<1> DEFINE f == [i \in q |-> Effect(ls[i])]
           Rec(g) == g = [s \in SUBSET q |->
                            IF s = {} THEN 0
                            ELSE Effect(ls[CHOOSE x \in s : TRUE]) + g[s \ {CHOOSE x \in s : TRUE}]]
<1>1. PICK g : Sums(f, q, g)
  BY SumsExist
<1>2. Rec(g)
  <2>1. \A s \in SUBSET q : s # {} => f[Picked(s)] = Effect(ls[Picked(s)])
    BY DEF Picked
  <2> QED BY <1>1, <2>1 DEF Sums, Picked, Rest
<1>3. \E h : Rec(h) /\ EffectsOf(ls, q) = h[q]
  BY <1>2 DEF EffectsOf, Sq!MapThenSumSet, Sq!MapThenFoldSet
<1>4. PICK h : Rec(h) /\ EffectsOf(ls, q) = h[q]
  BY <1>3
<1>5. Sums(f, q, h)
  <2>1. \A s \in SUBSET q : s # {} => f[Picked(s)] = Effect(ls[Picked(s)])
    BY DEF Picked
  <2> QED BY <1>4, <2>1 DEF Sums, Picked, Rest
<1> QED BY <1>4, <1>5, SumOfIs

\* The effects of no line, one or two.
LEMMA FewEffects ==
  ASSUME NEW ls, NEW q \in SUBSET {1, 2}, \A i \in q : Effect(ls[i]) \in Int
  PROVE  EffectsOf(ls, q) = (IF 1 \in q THEN Effect(ls[1]) ELSE 0)
                            + (IF 2 \in q THEN Effect(ls[2]) ELSE 0)
<1> DEFINE f == [i \in q |-> Effect(ls[i])]
<1>1. IsFiniteSet(q)
  <2>1. IsFiniteSet({1}) /\ {1, 2} = {1} \cup {2}
    BY FS_Singleton
  <2>2. IsFiniteSet({1, 2})
    BY <2>1, FS_AddElement
  <2> QED BY <2>2, FS_Subset
<1>2. EffectsOf(ls, q) = SumOf(f, q)
  BY <1>1, EffectsAre
<1>3. \A i \in q : f[i] = Effect(ls[i]) /\ f[i] \in Int
  OBVIOUS
<1>4. q = {} \/ q = {1} \/ q = {2} \/ q = {1, 2}
  OBVIOUS
<1> HIDE DEF f
<1>5. CASE q = {}
  <2>1. SumOf(f, q) = 0
    BY <1>5, SumEmpty
  <2> QED BY <1>2, <1>5, <2>1
<1>6. CASE q = {1}
  <2>1. SumOf(f, q) = f[1]
    BY <1>3, <1>6, SumFew
  <2> QED BY <1>2, <1>3, <1>6, <2>1
<1>7. CASE q = {2}
  <2>1. SumOf(f, q) = f[2]
    BY <1>3, <1>7, SumFew
  <2> QED BY <1>2, <1>3, <1>7, <2>1
<1>8. CASE q = {1, 2}
  <2>1. f[1] \in Int /\ f[2] \in Int /\ 1 # 2
    BY <1>3, <1>8
  <2>2. SumOf(f, {1, 2}) = f[1] + f[2]
    BY ONLY <2>1, SumFew
  <2> QED BY <1>2, <1>3, <1>8, <2>2
<1> QED BY <1>4, <1>5, <1>6, <1>7, <1>8

\* A message leaves at most two lines for its row in messages.
Made(m, a, b) == m \in {<<>>, <<a>>, <<a, b>>}

\* Of the lines of a message only those of its row in messages are about an order.
LEMMA LinesAbout ==
  ASSUME NEW a, NEW b, NEW m, Made(m, a, b), LinesAre(m),
         NEW l, NEW r \in Refs
  PROVE  /\ About(lines', l, r) = {i \in DOMAIN m : m[i].file = l /\ m[i].id = r}
         /\ \A i \in DOMAIN m : lines'[i] = m[i] /\ i \in {1, 2}
         /\ DOMAIN m = IF m = <<>> THEN {} ELSE IF m = <<a>> THEN {1} ELSE {1, 2}
<1>1. PICK t, h : \E ts \in {<<>>, <<t>>}, hs \in {<<>>, <<h>>} :
                    t.id = NilRef /\ h.id = NilRef /\ lines' = m \o ts \o hs
  BY DEF LinesAre
<1>2. PICK ts \in {<<>>, <<t>>}, hs \in {<<>>, <<h>>} :
             t.id = NilRef /\ h.id = NilRef /\ lines' = m \o ts \o hs
  BY <1>1
<1>m. m \in {<<>>, <<a>>, <<a, b>>}
  BY DEF Made
<1> DEFINE S == {a, b, t, h}
<1>3. m \in Seq(S) /\ ts \in Seq(S) /\ hs \in Seq(S)
  <2>1. <<>> \in Seq(S) /\ <<a>> \in Seq(S) /\ <<t>> \in Seq(S) /\ <<h>> \in Seq(S)
    OBVIOUS
  <2>2. <<a, b>> \in Seq(S)
    OBVIOUS
  <2> HIDE DEF S
  <2> QED BY <1>m, <2>1, <2>2
<1>4. /\ \A i \in DOMAIN ts : ts[i].id = NilRef
      /\ \A i \in DOMAIN hs : hs[i].id = NilRef
      /\ DOMAIN m = IF m = <<>> THEN {} ELSE IF m = <<a>> THEN {1} ELSE {1, 2}
  BY <1>2, <1>m
<1> HIDE DEF S
<1>5. /\ lines' \in Seq(S) /\ Len(lines') = Len(m) + Len(ts) + Len(hs)
      /\ \A i \in 1 .. Len(m) : lines'[i] = m[i]
      /\ \A i \in 1 .. Len(lines') : i > Len(m) =>
           \/ i - Len(m) \in DOMAIN ts /\ lines'[i] = ts[i - Len(m)]
           \/ i - Len(m) - Len(ts) \in DOMAIN hs /\ lines'[i] = hs[i - Len(m) - Len(ts)]
  BY <1>2, <1>3
<1>6. \A i \in DOMAIN lines' : i \notin DOMAIN m => lines'[i].id = NilRef
  BY <1>3, <1>4, <1>5
<1>7. DOMAIN m \subseteq DOMAIN lines' /\ DOMAIN m = 1 .. Len(m)
  BY <1>3, <1>5
<1>8. r # NilRef
  BY RefsAssumption
<1>9. About(lines', l, r) = {i \in DOMAIN m : m[i].file = l /\ m[i].id = r}
  BY <1>5, <1>6, <1>7, <1>8 DEF About
<1> QED BY <1>4, <1>5, <1>7, <1>9

\* What the exporter should remember of an order at rest, and what its lines say of it.
Recorded(x) == [size |-> x.qty, price |-> x.price, dir |-> IF x.buy THEN 1 ELSE -1]

SizeAt(x, l) == IF x # Absent /\ x.locate = l THEN x.qty ELSE 0
PlaceOf(x)   == <<x.price, IF x.buy THEN 1 ELSE -1>>

\* Of every order that rests on a selected book the exporter holds the truth, unless its
\* add was left unread (n); of an order that lost its reference to another book's it may
\* go on holding what was true.
Knows(n, w, s, x, theirs, r) ==
  x # Absent /\ ~ n /\ (w = {} \/ x.locate \in s) => theirs[x.locate][r] = Recorded(x)

Remembered ==
  \A r \in AllRefs : Knows(r \in unread, wanted, selected, OrderAt(Now, r), ours, r)

OursTyped == ours = [l \in Locates |-> [r \in AllRefs |-> ours[l][r]]]

\* What LinesAccount says of one order.
Accounted(l, r) ==
  LET of == About(lines', l, r)
  IN Selected(l) /\ r \notin unread \cup unread' =>
       /\ Size(os', l, r) =
            Size(os, l, r) + Sq!MapThenSumSet(LAMBDA i : Effect(lines'[i]), of)
       /\ \A i \in of :
            <<lines'[i].price, lines'[i].dir>> =
              CASE lines'[i].type = 1 -> Place(os', books', r)
                [] lines'[i].type # 1 /\ rows'.messages[1].type = "C" ->
                     <<rows'.messages[1].price, Place(os, books, r)[2]>>
                [] OTHER -> Place(os, books, r)

\* The sizes and the places LinesAccount reads are those of the orders at rest.
LEMMA SizeIs ==
  ASSUME NEW o, NEW bs, Sound(o, bs), NEW r \in AllRefs, NEW l
  PROVE  LET x == OrderAt([os |-> o, books |-> bs], r)
         IN /\ Size(o, l, r) = SizeAt(x, l)
            /\ x # Absent => Place(o, bs, r) = PlaceOf(x)
            /\ SizeAt(x, l) \in Nat
<1> DEFINE x == OrderAt([os |-> o, books |-> bs], r)
<1>1. /\ x # Absent <=> Live(o, r)
      /\ Live(o, r) => x.qty = o[r].qty /\ x.locate = o[r].locate /\ o[r].qty \in Nat
  BY RestingLive
<1>2. Live(o, r) => x = [locate |-> o[r].locate, buy |-> o[r].buy, qty |-> o[r].qty,
                         price |-> Key(o[r].buy, bs[o[r].locate].levels[o[r].level].key)]
  BY DEF OrderAt, Live
<1>3. Live(o, r) => x.buy = o[r].buy
                    /\ x.price = Key(o[r].buy, bs[o[r].locate].levels[o[r].level].key)
  <2> HIDE DEF x
  <2> QED BY <1>2
<1> HIDE DEF x
<1>4. Size(o, l, r) = SizeAt(x, l) /\ SizeAt(x, l) \in Nat
  BY <1>1 DEF Size, SizeAt
<1>5. x # Absent => Place(o, bs, r) = PlaceOf(x)
  BY <1>1, <1>3 DEF Place, PlaceOf
<1> QED BY <1>4, <1>5 DEF x

\* What the lines of a message, m with a and b, must say of one order, before and after it.
AddsUp(l, r, x, y, m, a, b) ==
  SizeAt(y, l) = SizeAt(x, l) + ((IF m = <<>> THEN 0 ELSE PartOf(a, l, r))
                                 + (IF m = <<a, b>> THEN PartOf(b, l, r) ELSE 0))

Names(l, r, x, y, m, type, price) ==
  \A i \in DOMAIN m : m[i].file = l /\ m[i].id = r =>
    IF m[i].type = 1 THEN y # Absent /\ <<m[i].price, m[i].dir>> = PlaceOf(y)
    ELSE /\ x # Absent
         /\ <<m[i].price, m[i].dir>> = IF type = "C" THEN <<price, PlaceOf(x)[2]>> ELSE PlaceOf(x)

\* An order is accounted for if its lines add up and name its place.
LEMMA AccountOf ==
  ASSUME Sound(os, books), Sound(os', books'), NEW l, NEW r \in Refs, NEW x, NEW y,
         x = OrderAt(Now, r), y = OrderAt(Now', r),
         NEW a, NEW b, NEW m, Made(m, a, b), Selected(l) => LinesAre(m),
         PartOf(a, l, r) \in Int, PartOf(b, l, r) \in Int, Selected(l) => AddsUp(l, r, x, y, m, a, b),
         Selected(l) => Names(l, r, x, y, m, rows'.messages[1].type, rows'.messages[1].price)
  PROVE  Accounted(l, r)
<1> SUFFICES ASSUME Selected(l)
             PROVE  /\ Size(os', l, r) = Size(os, l, r) + EffectsOf(lines', About(lines', l, r))
                    /\ \A i \in About(lines', l, r) :
                         <<lines'[i].price, lines'[i].dir>> =
                           CASE lines'[i].type = 1 -> Place(os', books', r)
                             [] lines'[i].type # 1 /\ rows'.messages[1].type = "C" ->
                                  <<rows'.messages[1].price, Place(os, books, r)[2]>>
                             [] OTHER -> Place(os, books, r)
  BY DEF Accounted, EffectsOf
<1>a. r \in AllRefs
  BY DEF AllRefs
<1>1. /\ About(lines', l, r) = {i \in DOMAIN m : m[i].file = l /\ m[i].id = r}
      /\ \A i \in DOMAIN m : lines'[i] = m[i] /\ i \in {1, 2}
      /\ DOMAIN m = IF m = <<>> THEN {} ELSE IF m = <<a>> THEN {1} ELSE {1, 2}
  <2>1. LinesAre(m) /\ r \in Refs /\ Made(m, a, b)
    OBVIOUS
  <2> QED BY ONLY <2>1, LinesAbout
<1>2. /\ Size(os, l, r) = SizeAt(x, l)
      /\ x # Absent => Place(os, books, r) = PlaceOf(x)
      /\ Size(os', l, r) = SizeAt(y, l)
      /\ y # Absent => Place(os', books', r) = PlaceOf(y)
  <2>1. x = OrderAt([os |-> os, books |-> books], r)
    BY DEF Now
  <2>2. y = OrderAt([os |-> os', books |-> books'], r)
    BY DEF Now
  <2>3. /\ Size(os, l, r) = SizeAt(x, l)
        /\ x # Absent => Place(os, books, r) = PlaceOf(x)
    BY <1>a, <2>1, SizeIs
  <2>4. /\ Size(os', l, r) = SizeAt(y, l)
        /\ y # Absent => Place(os', books', r) = PlaceOf(y)
    BY <1>a, <2>2, SizeIs
  <2> QED BY <2>3, <2>4
<1>3. \A i \in About(lines', l, r) : i \in DOMAIN m /\ lines'[i] = m[i] /\ m[i].file = l /\ m[i].id = r
  BY <1>1
<1>4. \A i \in About(lines', l, r) :
        <<lines'[i].price, lines'[i].dir>> =
          CASE lines'[i].type = 1 -> Place(os', books', r)
            [] lines'[i].type # 1 /\ rows'.messages[1].type = "C" ->
                 <<rows'.messages[1].price, Place(os, books, r)[2]>>
            [] OTHER -> Place(os, books, r)
  <2> SUFFICES ASSUME NEW i \in About(lines', l, r)
               PROVE  <<lines'[i].price, lines'[i].dir>> =
                        CASE lines'[i].type = 1 -> Place(os', books', r)
                          [] lines'[i].type # 1 /\ rows'.messages[1].type = "C" ->
                               <<rows'.messages[1].price, Place(os, books, r)[2]>>
                          [] OTHER -> Place(os, books, r)
    OBVIOUS
  <2>1. /\ lines'[i] = m[i]
        /\ IF m[i].type = 1 THEN y # Absent /\ <<m[i].price, m[i].dir>> = PlaceOf(y)
           ELSE /\ x # Absent
                /\ <<m[i].price, m[i].dir>> = IF rows'.messages[1].type = "C"
                                                THEN <<rows'.messages[1].price, PlaceOf(x)[2]>>
                                                ELSE PlaceOf(x)
    BY <1>3 DEF Names
  <2>2. CASE m[i].type = 1
    BY ONLY <1>2, <2>1, <2>2
  <2>3. CASE m[i].type # 1
    BY ONLY <1>2, <2>1, <2>3
  <2> QED BY <2>2, <2>3
<1> DEFINE q == About(lines', l, r)
<1>5. /\ q \in SUBSET {1, 2} /\ \A i \in q : Effect(lines'[i]) \in Int
      /\ IF 1 \in q THEN Effect(lines'[1]) = PartOf(a, l, r) ELSE m = <<>> \/ PartOf(a, l, r) = 0
      /\ IF 2 \in q THEN Effect(lines'[2]) = PartOf(b, l, r) /\ m = <<a, b>>
                    ELSE m # <<a, b>> \/ PartOf(b, l, r) = 0
      /\ 1 \in q => m # <<>>
  <2>m. m \in {<<>>, <<a>>, <<a, b>>}
    BY DEF Made
  <2>1. CASE m = <<>>
    BY <1>1, <2>1
  <2>2. CASE m = <<a>>
    <3>1. <<a>> # <<a, b>> /\ <<a>> # <<>> /\ <<a>>[1] = a
      OBVIOUS
    <3> QED BY <1>1, <2>2, <3>1 DEF PartOf
  <2>3. CASE m = <<a, b>>
    <3>1. <<a>> # <<a, b>> /\ <<a, b>> # <<>> /\ <<a, b>>[1] = a /\ <<a, b>>[2] = b
      OBVIOUS
    <3> QED BY <1>1, <2>3, <3>1 DEF PartOf
  <2> QED BY <2>m, <2>1, <2>2, <2>3
<1> HIDE DEF q
<1>6. EffectsOf(lines', q) = (IF 1 \in q THEN Effect(lines'[1]) ELSE 0)
                             + (IF 2 \in q THEN Effect(lines'[2]) ELSE 0)
  BY <1>5, FewEffects
<1>7. EffectsOf(lines', q) = (IF m = <<>> THEN 0 ELSE PartOf(a, l, r))
                             + (IF m = <<a, b>> THEN PartOf(b, l, r) ELSE 0)
  BY ONLY <1>5, <1>6
<1> QED BY <1>2, <1>4, <1>7 DEF q, AddsUp

\* What the exporter makes of the row a message left in messages, if it was kept.
Exported(w) ==
  /\ ours' = IF Selected(w.locate) THEN [ours EXCEPT ![w.locate] = Booked(ours[w.locate], w)]
                                   ELSE ours
  /\ LinesAre(IF Selected(w.locate) THEN MessageLines(ours[w.locate], w) ELSE <<>>)

\* A message leaves one row in messages if its locate is selected, and no halt.
LEMMA ExportOf ==
  ASSUME Export, NEW w, rows' = [NoRows EXCEPT !.messages = Kept(w), !.trades = TradeRows]
  PROVE  /\ Exported(w)
         /\ Selected(w.locate) => rows'.messages[1] = w
<1> DEFINE ml == IF Selected(w.locate) THEN MessageLines(ours[w.locate], w) ELSE <<>>
           ts == IF TradeRows = <<>> THEN <<>> ELSE TradeLines(TradeRows[1])
<1>1. rows'.messages = Kept(w) /\ rows'.trades = TradeRows /\ rows'.halts = <<>>
  BY DEF NoRows
<1>2. /\ Kept(w) = IF Selected(w.locate) THEN <<w>> ELSE <<>>
      /\ <<w>> # <<>> /\ <<w>>[1] = w
  BY DEF Kept
<1>3. /\ lines' = ml \o ts \o <<>>
      /\ ours' = IF Selected(w.locate) THEN [ours EXCEPT ![w.locate] = Booked(ours[w.locate], w)]
                                       ELSE ours
  <2>1. PICK km, tr : km = Kept(w) /\ tr = TradeRows
    OBVIOUS
  <2>2. /\ lines' = (IF km = <<>> THEN <<>> ELSE MessageLines(ours[km[1].locate], km[1]))
                     \o (IF tr = <<>> THEN <<>> ELSE TradeLines(tr[1])) \o <<>>
        /\ ours' = IF km = <<>> THEN ours ELSE [ours EXCEPT ![km[1].locate] = Booked(@, km[1])]
    <3>1. rows'.messages = km /\ rows'.trades = tr /\ rows'.halts = <<>>
      BY ONLY <1>1, <2>1
    <3>2. lines' = (IF km = <<>> THEN <<>> ELSE MessageLines(ours[km[1].locate], km[1]))
                     \o (IF tr = <<>> THEN <<>> ELSE TradeLines(tr[1])) \o <<>>
      <4>1. lines' = (IF rows'.messages = <<>> THEN <<>>
                        ELSE MessageLines(ours[rows'.messages[1].locate], rows'.messages[1]))
                     \o (IF rows'.trades = <<>> THEN <<>> ELSE TradeLines(rows'.trades[1]))
                     \o (IF rows'.halts = <<>> THEN <<>> ELSE HaltLines(rows'.halts[1]))
        BY Zenon DEF Export
      <4> QED BY ONLY <3>1, <4>1
    <3>3. ours' = IF km = <<>> THEN ours ELSE [ours EXCEPT ![km[1].locate] = Booked(@, km[1])]
      BY <3>1 DEF Export
    <3> QED BY ONLY <3>2, <3>3
  <2>3. CASE Selected(w.locate)
    <3>1. km = <<w>> /\ km # <<>> /\ km[1] = w
      BY <1>2, <2>1, <2>3
    <3> QED BY <2>1, <2>2, <2>3, <3>1
  <2>4. CASE ~ Selected(w.locate)
    <3>1. km = <<>>
      BY <1>2, <2>1, <2>4
    <3> QED BY <2>1, <2>2, <2>4, <3>1
  <2> QED BY <2>3, <2>4
<1>4. \E t : t.id = NilRef /\ ts \in {<<>>, <<t>>}
  <2> DEFINE a == TradeRows[1]
             buys  == FileLine(a.locate, 5, NilRef, a.shares, a.price, 1)
             sells == FileLine(a.locate, 6, NilRef, a.shares, a.price, -1)
  <2>1. buys.id = NilRef /\ sells.id = NilRef
    BY DEF FileLine
  <2>2. ts = <<>> \/ ts = <<buys>> \/ ts = <<sells>>
    BY DEF TradeLines
  <2> QED BY <2>1, <2>2
<1>5. LinesAre(ml)
  BY <1>3, <1>4 DEF LinesAre
<1> HIDE DEF ml
<1> QED BY <1>1, <1>2, <1>3, <1>5 DEF Exported, ml

\* What the exporter remembers stays right if it is right of the orders that moved and the
\* same of the others.
LEMMA KnowledgeKept ==
  ASSUME Sound(os, books), Remembered, UNCHANGED <<wanted, selected>>, NEW moved,
         StillUnread(moved), \A r \in AllRefs \ moved : OrderAt(Now', r) = OrderAt(Now, r),
         \A r \in AllRefs \ moved, j \in Locates : ours'[j][r] = ours[j][r],
         \A r \in moved : Knows(r \in unread', wanted, selected, OrderAt(Now', r), ours', r)
  PROVE  Remembered'
<1>1. ASSUME NEW r \in AllRefs \ moved
      PROVE  Knows(r \in unread', wanted, selected, OrderAt(Now', r), ours', r)
  <2>1. /\ OrderAt(Now', r) = OrderAt(Now, r)
        /\ Knows(r \in unread, wanted, selected, OrderAt(Now, r), ours, r)
        /\ OrderAt(Now', r) # Absent /\ r \in unread => r \in unread'
    BY DEF Remembered, StillUnread
  <2>2. OrderAt(Now, r) # Absent => OrderAt(Now, r).locate \in Locates
    <3>1. /\ OrderAt([os |-> os, books |-> books], r) # Absent =>
               OrderAt([os |-> os, books |-> books], r).locate = os[r].locate
          /\ os[r].locate \in Locates
      BY RestingLive DEF Sound, Stores, Order
    <3> QED BY <3>1 DEF Now
  <2> QED BY <2>1, <2>2 DEF Knows
<1>2. \A r \in AllRefs : Knows(r \in unread', wanted', selected', OrderAt(Now', r), ours', r)
  BY <1>1
<1> QED BY <1>2 DEF Remembered

\* A message without a line about an order, which keeps its size, accounts for it.
LEMMA QuietAccount ==
  ASSUME Sound(os, books), Sound(os', books'), NEW l, NEW r \in Refs,
         NEW a, NEW b, NEW m, Made(m, a, b), Selected(l) => LinesAre(m),
         a.file # l \/ a.id # r, b.file # l \/ b.id # r,
         SizeAt(OrderAt(Now', r), l) = SizeAt(OrderAt(Now, r), l)
  PROVE  Accounted(l, r)
<1>3. PICK x, y : x = OrderAt(Now, r) /\ y = OrderAt(Now', r)
  OBVIOUS
<1>5. \A i \in DOMAIN m : m[i].file # l \/ m[i].id # r
  <2>1. CASE m = <<>>
    BY <2>1
  <2>2. CASE m = <<a>>
    BY <2>2
  <2>3. CASE m = <<a, b>>
    BY <2>3
  <2> QED BY <2>1, <2>2, <2>3 DEF Made
<1>6. SizeAt(OrderAt([os |-> os, books |-> books], r), l) \in Nat
  <2>1. r \in AllRefs
    BY DEF AllRefs
  <2> QED BY <2>1, SizeIs
<1>7. SizeAt(x, l) \in Nat /\ SizeAt(y, l) = SizeAt(x, l)
  BY <1>3, <1>6 DEF Now
<1>8. PartOf(a, l, r) = 0 /\ PartOf(b, l, r) = 0
  BY DEF PartOf
<1>9. AddsUp(l, r, x, y, m, a, b)
  <2>1. /\ (IF m = <<>> THEN 0 ELSE PartOf(a, l, r)) = 0
        /\ (IF m = <<a, b>> THEN PartOf(b, l, r) ELSE 0) = 0
    BY <1>8
  <2> QED BY ONLY <1>7, <2>1 DEF AddsUp
<1>10. \A type, price : Names(l, r, x, y, m, type, price)
  BY <1>5 DEF Names
<1> QED BY <1>3, <1>8, <1>9, <1>10, AccountOf

\* A message without lines, which keeps the orders, accounts for each.
LEMMA NoLines ==
  ASSUME Sound(os, books), Sound(os', books'), LinesAre(<<>>),
         \A r \in AllRefs : OrderAt(Now', r) = OrderAt(Now, r)
  PROVE  \A k \in Locates, r \in Refs : Accounted(k, r)
<1> SUFFICES ASSUME NEW k \in Locates, NEW r \in Refs PROVE Accounted(k, r)
  OBVIOUS
<1>1. PICK a : a = FileLine(0, 7, NilRef, 0, 0, 0)
  OBVIOUS
<1>2. a.id # r
  BY <1>1, RefsAssumption DEF FileLine
<1>3. PICK m : m = <<>>
  OBVIOUS
<1>4. Made(m, a, a) /\ LinesAre(m)
  BY <1>3 DEF Made
<1>5. SizeAt(OrderAt(Now', r), k) = SizeAt(OrderAt(Now, r), k)
  BY DEF AllRefs
<1> QED BY <1>2, <1>4, <1>5, QuietAccount

\* A message about one order whose add was left unread, or is: of what it made of the
\* order nothing is claimed, and it made nothing of another.
LEMMA UnreadAccounted ==
  ASSUME Sound(os, books), Sound(os', books'), Remembered, UNCHANGED <<wanted, selected>>,
         NEW ref \in AllRefs, ref \in unread \cup unread', StillUnread({ref}),
         OrderAt(Now', ref) = Absent \/ ref \in unread',
         \A r \in AllRefs \ {ref} : OrderAt(Now', r) = OrderAt(Now, r),
         \A r \in AllRefs \ {ref}, j \in Locates : ours'[j][r] = ours[j][r],
         NEW a, a.id = ref, NEW m \in {<<>>, <<a>>}, NEW k, k \in Locates,
         LinesAre(IF Selected(k) THEN m ELSE <<>>)
  PROVE  Remembered' /\ \A j \in Locates, r \in Refs : Accounted(j, r)
<1>1. Remembered'
  <2> DEFINE moved == {ref}
  <2>1. /\ \A r \in AllRefs \ moved : OrderAt(Now', r) = OrderAt(Now, r)
        /\ \A r \in AllRefs \ moved, j \in Locates : ours'[j][r] = ours[j][r]
        /\ \A r \in moved :
             Knows(r \in unread', wanted, selected, OrderAt(Now', r), ours', r)
        /\ StillUnread(moved)
    BY DEF Knows
  <2> HIDE DEF moved
  <2> QED BY <2>1, KnowledgeKept
<1>2. ASSUME NEW j \in Locates, NEW r \in Refs PROVE Accounted(j, r)
  <2>1. CASE r = ref
    BY <2>1 DEF Accounted
  <2>2. CASE r # ref
    <3>1. PICK n : n = IF Selected(k) THEN m ELSE <<>>
      OBVIOUS
    <3>2. Made(n, a, a) /\ LinesAre(n) /\ a.id # r
      BY <2>2, <3>1 DEF Made
    <3>3. SizeAt(OrderAt(Now', r), j) = SizeAt(OrderAt(Now, r), j)
      BY <2>2 DEF AllRefs
    <3> QED BY <3>2, <3>3, QuietAccount
  <2> QED BY <2>1, <2>2
<1> QED BY <1>1, <1>2

\* What is remembered of the orders of one book changes.
LEMMA OursChanged ==
  ASSUME OursTyped, NEW k \in Locates, NEW new, new = [r \in AllRefs |-> new[r]],
         ours' = [ours EXCEPT ![k] = new]
  PROVE  OursTyped' /\ \A j \in Locates : ours'[j] = IF j = k THEN new ELSE ours[j]
<1>1. /\ ours = [j \in Locates |-> ours[j]]
      /\ \A j \in Locates : ours[j] = [r \in AllRefs |-> ours[j][r]]
  BY DEF OursTyped
<1>2. \A j \in Locates : ours'[j] = IF j = k THEN new ELSE ours[j]
  BY <1>1
<1>3. ours' = [j \in Locates |-> ours'[j]]
  BY <1>1
<1>4. \A j \in Locates : ours'[j] = [r \in AllRefs |-> ours'[j][r]]
  BY <1>1, <1>2
<1>5. OursTyped'
  BY <1>3, <1>4 DEF OursTyped
<1> QED BY <1>2, <1>5

\* A row about one order at rest: one line that takes from it, at the price it names.
LEMMA RestingAccounted ==
  ASSUME Ordered(os, books, ahead), Ordered(os', books', ahead'), Remembered, OursTyped,
         UNCHANGED <<wanted, selected>>, StillUnread({}),
         NEW ref \in AllRefs, NEW l, NEW left \in Nat, NEW w,
         w.ref = ref, w.remaining = left, w.type \in {"E", "C", "X", "D"}, w.size \in Nat,
         w.locate = Resting(ref, l).locate, w.side = Resting(ref, l).side,
         Selected(w.locate) => rows'.messages[1] = w, Exported(w),
         Shrinks(ref, left)
  PROVE  /\ Remembered' /\ OursTyped'
         /\ (Live(os, ref) => left = os[ref].qty - w.size) =>
              \A k \in Locates, r \in Refs : Accounted(k, r)
<1> USE DEF Shrinks
<1>a. Sound(os, books) /\ Sound(os', books')
  BY DEF Ordered
<1>1. CASE ~ Live(os, ref)
  <2>1. w.side = "N"
    BY <1>a, <1>1, RestingIs
  <2>2. ours' = ours /\ LinesAre(<<>>)
    <3>1. Booked(ours[w.locate], w) = ours[w.locate] /\ MessageLines(ours[w.locate], w) = <<>>
      BY <2>1 DEF Booked, MessageLines
    <3>2. [ours EXCEPT ![w.locate] = ours[w.locate]] = ours
      BY DEF OursTyped
    <3> QED BY <3>1, <3>2 DEF Exported
  <2>3. \A r \in AllRefs : OrderAt(Now', r) = OrderAt(Now, r)
    BY <1>1 DEF Stay, Now, OrderAt
  <2>4. Remembered'
    BY <2>2, <2>3 DEF Remembered, Knows, StillUnread
  <2>5. OursTyped'
    BY <2>2 DEF OursTyped
  <2>6. \A k \in Locates, r \in Refs : Accounted(k, r)
    BY <1>a, <2>2, <2>3, NoLines
  <2> QED BY <2>4, <2>5, <2>6
<1>2. CASE Live(os, ref) /\ ref \notin unread
  <2>1. PICK x : x = OrderAt(Now, ref)
    OBVIOUS
  <2>2. PICK y : y = OrderAt(Now', ref)
    OBVIOUS
  <2>3. /\ x # Absent /\ w.locate = x.locate /\ w.side = SideOf(x.buy) /\ x.buy \in BOOLEAN
        /\ x = [locate |-> x.locate, buy |-> x.buy, qty |-> x.qty, price |-> x.price]
        /\ x.qty = os[ref].qty /\ x.qty \in Nat /\ x.qty # 0
        /\ x.locate \in Locates
    <3>1. /\ x # Absent /\ w.locate = x.locate /\ w.side = SideOf(x.buy) /\ x.qty = os[ref].qty
      <4>0. PICK z : z = Resting(ref, l)
        OBVIOUS
      <4>1. w.locate = z.locate /\ w.side = z.side
        BY <4>0
      <4>2. /\ x # Absent /\ z.locate = x.locate /\ z.side = SideOf(x.buy)
            /\ z.qty = x.qty /\ z.qty = os[ref].qty
        BY ONLY <1>a, <1>2, <2>1, <4>0, RestingIs
      <4> QED BY ONLY <4>1, <4>2
    <3>2. os[ref].buy \in BOOLEAN /\ os[ref].qty \in Nat /\ os[ref].locate \in Locates
          /\ os[ref].qty > 0
      BY <1>a, <1>2 DEF Sound, Stores, Order, LiveRefs
    <3>3. x = [locate |-> os[ref].locate, buy |-> os[ref].buy, qty |-> os[ref].qty,
          price |-> Key(os[ref].buy, books[os[ref].locate].levels[os[ref].level].key)]
      BY <1>2, <2>1 DEF OrderAt, Now, Live
    <3> QED BY <3>1, <3>2, <3>3
  <2>4. /\ \A r \in AllRefs \ {ref} : OrderAt(Now', r) = OrderAt(Now, r)
        /\ left = 0 => y = Absent
        /\ left # 0 => y # Absent /\ y = [locate |-> x.locate, buy |-> x.buy, qty |-> left,
                                          price |-> x.price]
    <3>1. CASE left = 0
      <4>1. LeavesLine({ref})
        BY <1>2, <3>1
      <4>2. ~ Live(os', ref)
        BY <4>1 DEF LeavesLine
      <4>3. y = Absent
        BY <2>2, <4>2 DEF OrderAt, Now, Live
      <4> QED BY <3>1, <4>1, <4>3 DEF LeavesLine
    <3>2. CASE left # 0
      <4>1. /\ y = [x EXCEPT !.qty = left]
            /\ \A r \in AllRefs \ {ref} : OrderAt(Now', r) = OrderAt(Now, r)
            /\ Live(os', ref)
        BY <1>2, <2>1, <2>2, <3>2
      <4>2. y = [locate |-> x.locate, buy |-> x.buy, qty |-> left, price |-> x.price]
        <5>1. y = [x EXCEPT !.qty = left]
          BY ONLY <4>1
        <5>2. x = [locate |-> x.locate, buy |-> x.buy, qty |-> x.qty, price |-> x.price]
          BY ONLY <2>3
        <5> QED BY ONLY <5>1, <5>2
      <4>3. OrderAt([os |-> os', books |-> books'], ref) # Absent
        <5>1. Live(os', ref)
          BY ONLY <4>1
        <5> QED BY <1>a, <5>1, RestingLive
      <4>4. y # Absent
        BY <2>2, <4>3 DEF Now
      <4> QED BY <3>2, <4>1, <4>2, <4>4
    <3> QED BY <3>1, <3>2
  <2>5. PICK a : a = FileLine(x.locate, Code[w.type], ref, w.size,
                              IF w.type = "C" THEN w.price ELSE x.price, Direction(w))
    OBVIOUS
  <2>6. /\ a.file = x.locate /\ a.id = ref /\ a.type \in {2, 3, 4} /\ Effect(a) = - w.size
        /\ <<a.price, a.dir>> = IF w.type = "C" THEN <<w.price, PlaceOf(x)[2]>> ELSE PlaceOf(x)
    <3>1. Direction(w) = IF x.buy THEN 1 ELSE -1
      BY <2>3 DEF Direction, SideOf
    <3>2. Code[w.type] \in {2, 3, 4}
      BY DEF Code
    <3>3. PlaceOf(x) = <<x.price, Direction(w)>> /\ PlaceOf(x)[2] = Direction(w)
      BY <3>1 DEF PlaceOf
    <3>4. /\ a.file = x.locate /\ a.id = ref /\ a.type = Code[w.type] /\ a.size = w.size
          /\ a.price = (IF w.type = "C" THEN w.price ELSE x.price) /\ a.dir = Direction(w)
      BY <2>5 DEF FileLine
    <3>5. Effect(a) = - w.size
      BY <3>2, <3>4 DEF Effect
    <3> QED BY ONLY <3>2, <3>3, <3>4, <3>5
  <2>7. w.side # "N" /\ w.type \notin {"A", "U"}
    BY <2>3, SideKnown
  <2>8. Selected(x.locate) =>
          /\ ours[x.locate][ref] = Recorded(x) /\ Recorded(x) # NotOurs
          /\ MessageLines(ours[x.locate], w) = <<a>>
          /\ Booked(ours[x.locate], w) =
               [ours[x.locate] EXCEPT ![ref] = IF left = 0 THEN NotOurs ELSE Recorded(y)]
    <3> SUFFICES ASSUME Selected(x.locate)
                 PROVE  /\ ours[x.locate][ref] = Recorded(x) /\ Recorded(x) # NotOurs
                        /\ MessageLines(ours[x.locate], w) = <<a>>
                        /\ Booked(ours[x.locate], w) =
                             [ours[x.locate] EXCEPT ![ref] = IF left = 0 THEN NotOurs ELSE Recorded(y)]
      OBVIOUS
    <3>1. ours[x.locate][ref] = Recorded(x)
      BY <1>2, <2>1, <2>3 DEF Remembered, Knows, Selected
    <3>2. Recorded(x).size = x.qty /\ Recorded(x).price = x.price /\ NotOurs.size = 0
      BY DEF Recorded, NotOurs
    <3>3. Recorded(x) # NotOurs
      BY <2>3, <3>2
    <3>4. MessageLines(ours[x.locate], w) = <<a>>
      BY <2>3, <2>5, <2>7, <3>1, <3>2, <3>3 DEF MessageLines
    <3>5. KeptOrder(w, ours[x.locate][ref]) = IF left = 0 THEN NotOurs ELSE Recorded(y)
      <4>1. CASE left = 0
        BY <4>1 DEF KeptOrder
      <4>2. CASE left # 0
        <5>1. [Recorded(x) EXCEPT !.size = left] = Recorded(y)
          BY <2>4, <4>2 DEF Recorded
        <5> QED BY <3>1, <3>3, <4>2, <5>1 DEF KeptOrder
      <4> QED BY <4>1, <4>2
    <3>6. Booked(ours[x.locate], w) =
            [ours[x.locate] EXCEPT ![ref] = KeptOrder(w, ours[x.locate][ref])]
      BY <2>7 DEF Booked
    <3> QED BY <3>1, <3>3, <3>4, <3>5, <3>6
  <2>9. PICK kept : kept = IF left = 0 THEN NotOurs ELSE Recorded(y)
    OBVIOUS
  <2>10. /\ ours' = IF Selected(x.locate)
                      THEN [ours EXCEPT ![x.locate] = [ours[x.locate] EXCEPT ![ref] = kept]]
                      ELSE ours
         /\ Selected(x.locate) => LinesAre(<<a>>)
         /\ ~ Selected(x.locate) => LinesAre(<<>>)
    BY <2>3, <2>8, <2>9 DEF Exported
  <2>11. OursTyped' /\ \A k \in Locates, r \in AllRefs :
           ours'[k][r] = IF Selected(x.locate) /\ k = x.locate /\ r = ref THEN kept ELSE ours[k][r]
    <3>1. CASE ~ Selected(x.locate)
      BY <2>10, <3>1 DEF OursTyped
    <3>2. CASE Selected(x.locate)
      <4>1. PICK new : new = [ours[x.locate] EXCEPT ![ref] = kept]
        OBVIOUS
      <4>2. ours[x.locate] = [r \in AllRefs |-> ours[x.locate][r]]
        BY <2>3 DEF OursTyped
      <4>3. /\ new = [r \in AllRefs |-> new[r]]
            /\ \A r \in AllRefs : new[r] = IF r = ref THEN kept ELSE ours[x.locate][r]
        BY <4>1, <4>2
      <4>4. ours' = [ours EXCEPT ![x.locate] = new] /\ x.locate \in Locates
        BY ONLY <2>3, <2>10, <3>2, <4>1
      <4>5. OursTyped' /\ \A j \in Locates : ours'[j] = IF j = x.locate THEN new ELSE ours[j]
        BY <4>3, <4>4, OursChanged
      <4> QED BY <3>2, <4>3, <4>5
    <3> QED BY <3>1, <3>2
  <2>12. Remembered'
    <3> DEFINE moved == {ref}
    <3>1. \A r \in AllRefs \ moved : OrderAt(Now', r) = OrderAt(Now, r)
      BY <2>4
    <3>2. \A r \in AllRefs \ moved, j \in Locates : ours'[j][r] = ours[j][r]
      BY <2>11
    <3>3. Knows(ref \in unread', wanted, selected, y, ours', ref)
      <4>1. CASE left = 0
        BY <2>4, <4>1 DEF Knows
      <4>2. CASE left # 0
        <5>1. y.locate = x.locate /\ kept = Recorded(y)
          BY <2>4, <2>9, <4>2
        <5> QED BY <2>3, <2>11, <5>1 DEF Knows, Selected
      <4> QED BY <4>1, <4>2
    <3>4. /\ \A r \in moved : Knows(r \in unread', wanted, selected, OrderAt(Now', r), ours', r)
          /\ StillUnread(moved)
      BY <2>2, <3>3 DEF StillUnread
    <3> HIDE DEF moved
    <3> QED BY <1>a, <3>1, <3>2, <3>4, KnowledgeKept
  <2>13. ASSUME left = os[ref].qty - w.size, NEW k \in Locates, NEW r \in Refs
         PROVE  Accounted(k, r)
    <3>1. CASE k = x.locate /\ r = ref
      <4>1. PICK m : m = <<a>>
        OBVIOUS
      <4>2. /\ Made(m, a, a) /\ m # <<>> /\ m # <<a, a>>
            /\ DOMAIN m = {1} /\ m[1] = a
        BY <4>1 DEF Made
      <4>3. /\ SizeAt(x, k) = x.qty /\ SizeAt(y, k) = left /\ PartOf(a, k, r) = - w.size
            /\ PartOf(a, k, r) \in Int
        BY <2>3, <2>4, <2>6, <3>1 DEF SizeAt, PartOf
      <4>4. AddsUp(k, r, x, y, m, a, a)
        <5>1. /\ SizeAt(x, k) = x.qty /\ SizeAt(y, k) = x.qty - w.size
              /\ PartOf(a, k, r) = - w.size /\ x.qty \in Nat /\ w.size \in Nat
          BY <2>3, <2>13, <4>3
        <5>2. /\ (IF m = <<>> THEN 0 ELSE PartOf(a, k, r)) = - w.size
              /\ (IF m = <<a, a>> THEN PartOf(a, k, r) ELSE 0) = 0
          BY ONLY <4>2, <5>1
        <5> QED BY ONLY <5>1, <5>2 DEF AddsUp
      <4>5. Selected(k) => LinesAre(m) /\ rows'.messages[1] = w
        BY <2>3, <2>10, <3>1, <4>1
      <4>6. Selected(k) => Names(k, r, x, y, m, rows'.messages[1].type, rows'.messages[1].price)
        BY <2>3, <2>6, <4>2, <4>5 DEF Names
      <4>7. ~ Selected(k) => Accounted(k, r)
        BY DEF Accounted
      <4>8. x = OrderAt(Now, r) /\ y = OrderAt(Now', r)
        BY <2>1, <2>2, <3>1
      <4>9. Selected(k) => Accounted(k, r)
        BY <1>a, <4>2, <4>3, <4>4, <4>5, <4>6, <4>8, AccountOf
      <4> QED BY <4>7, <4>9
    <3>2. CASE k # x.locate \/ r # ref
      <4>1. PICK m : m = IF Selected(x.locate) THEN <<a>> ELSE <<>>
        OBVIOUS
      <4>2. Made(m, a, a) /\ LinesAre(m)
        BY <2>10, <4>1 DEF Made
      <4>3. a.file # k \/ a.id # r
        BY <2>6, <3>2
      <4>4. SizeAt(OrderAt(Now', r), k) = SizeAt(OrderAt(Now, r), k)
        <5>1. CASE r # ref
          BY <2>4, <5>1 DEF AllRefs
        <5>2. CASE r = ref
          <6>1. y # Absent => y.locate = x.locate
            BY <2>4
          <6> QED BY <2>1, <2>2, <3>2, <5>2, <6>1 DEF SizeAt
        <5> QED BY <5>1, <5>2
      <4> QED BY <1>a, <4>2, <4>3, <4>4, QuietAccount
    <3> QED BY <3>1, <3>2
  <2> QED BY <1>2, <2>11, <2>12, <2>13
<1>3. CASE Live(os, ref) /\ ref \in unread
  <2>1. PICK k : k = w.locate
    OBVIOUS
  <2>2. w.side # "N" /\ k \in Locates
    <3>1. os[ref].buy \in BOOLEAN /\ os[ref].locate \in Locates
      BY <1>a DEF Sound, Stores, Order
    <3>2. w.side = SideOf(os[ref].buy) /\ k = os[ref].locate
      BY <1>3, <2>1 DEF Resting
    <3> QED BY <3>1, <3>2, SideKnown
  <2>3. PICK a : a = FileLine(k, Code[w.type], ref, w.size,
                              IF w.type = "C" \/ ours[k][ref] = NotOurs THEN w.price
                              ELSE ours[k][ref].price, Direction(w))
    OBVIOUS
  <2>4. PICK kept : kept = KeptOrder(w, ours[k][ref])
    OBVIOUS
  <2>5. /\ MessageLines(ours[k], w) = <<a>>
        /\ Booked(ours[k], w) = [ours[k] EXCEPT ![ref] = kept]
    BY <2>1, <2>2, <2>3, <2>4 DEF MessageLines, Booked
  <2>6. PICK m, after : m = <<a>> /\ after = [ours[k] EXCEPT ![ref] = kept]
    OBVIOUS
  <2>7. /\ ours' = IF Selected(k) THEN [ours EXCEPT ![k] = after] ELSE ours
        /\ LinesAre(IF Selected(k) THEN m ELSE <<>>)
    BY <2>1, <2>5, <2>6 DEF Exported
  <2>8. OursTyped' /\ \A r \in AllRefs \ {ref}, j \in Locates : ours'[j][r] = ours[j][r]
    <3>1. CASE ~ Selected(k)
      BY <2>7, <3>1 DEF OursTyped
    <3>2. CASE Selected(k)
      <4>1. ours[k] = [r \in AllRefs |-> ours[k][r]]
        BY <2>2 DEF OursTyped
      <4>2. /\ after = [r \in AllRefs |-> after[r]]
            /\ \A r \in AllRefs \ {ref} : after[r] = ours[k][r]
        BY <2>6, <4>1
      <4>3. ours' = [ours EXCEPT ![k] = after]
        BY ONLY <2>7, <3>2
      <4>4. OursTyped' /\ \A j \in Locates : ours'[j] = IF j = k THEN after ELSE ours[j]
        BY <2>2, <4>2, <4>3, OursChanged
      <4> QED BY <4>2, <4>4
    <3> QED BY <3>1, <3>2
  <2>9. /\ \A r \in AllRefs \ {ref} : OrderAt(Now', r) = OrderAt(Now, r)
        /\ OrderAt(Now', ref) = Absent \/ ref \in unread'
    <3>1. \A r \in AllRefs \ {ref} : OrderAt(Now', r) = OrderAt(Now, r)
      BY <1>3 DEF LeavesLine
    <3> QED BY <1>3, <3>1 DEF StillUnread
  <2>10. a.id = ref /\ m \in {<<>>, <<a>>} /\ StillUnread({ref})
    BY <2>3, <2>6 DEF FileLine, StillUnread
  <2>11. ref \in unread \cup unread' /\ k \in Locates
    BY <1>3, <2>2
  <2>12. Remembered /\ UNCHANGED <<wanted, selected>> /\ ref \in AllRefs
    OBVIOUS
  <2>13. Remembered' /\ \A j \in Locates, r \in Refs : Accounted(j, r)
    BY ONLY <1>a, <2>7, <2>8, <2>9, <2>10, <2>11, <2>12, UnreadAccounted
  <2> QED BY <2>8, <2>13
<1> QED BY <1>1, <1>2, <1>3

\* The row of an add: a submission, unless it was refused or its side is N.
LEMMA AddAccounted ==
  ASSUME Ordered(os, books, ahead), Ordered(os', books', ahead'), Remembered, OursTyped,
         UNCHANGED <<wanted, selected>>, NEW ref \in AllRefs, NEW l \in Locates,
         NEW side, NEW price, NEW shares \in Nat, NEW w, w.ref = ref, w.type = "A",
         w.side = side, w.locate = l, w.price = price, w.size = shares,
         Exported(w), unread' = Unread(w), AddDoes(ref, l, side = "B", price, shares),
         ~ Accepts(ref, price, shares) => w.remaining = 0,
         Accepts(ref, price, shares) => w.remaining = shares
  PROVE  /\ Remembered' /\ OursTyped'
         /\ (Accepts(ref, price, shares) => ~ Live(os, ref)) =>
              \A k \in Locates, r \in Refs : Accounted(k, r)
<1>a. Sound(os, books) /\ Sound(os', books')
  BY DEF Ordered
<1>b. PICK buy \in BOOLEAN : buy <=> side = "B"
  OBVIOUS
<1>c. AddDoes(ref, l, buy, price, shares)
  <2>1. buy = (side = "B")
    BY <1>b
  <2> QED BY <2>1
<1>1. CASE ~ Accepts(ref, price, shares)
  <2>1. ours' = ours /\ LinesAre(<<>>)
    <3>1. Booked(ours[w.locate], w) = ours[w.locate] /\ MessageLines(ours[w.locate], w) = <<>>
      <4>1. CASE w.side = "N"
        BY <4>1 DEF Booked, MessageLines
      <4>2. CASE w.side # "N"
        BY <1>1, <4>2 DEF Booked, MessageLines
      <4> QED BY <4>1, <4>2
    <3>2. [ours EXCEPT ![w.locate] = ours[w.locate]] = ours
      BY DEF OursTyped
    <3> QED BY <3>1, <3>2 DEF Exported
  <2>2. \A r \in AllRefs : OrderAt(Now', r) = OrderAt(Now, r)
    BY <1>1 DEF AddDoes, Stay, Now, OrderAt
  <2>3. Remembered' /\ OursTyped'
    <3>1. StillUnread({})
      BY <1>a, <1>1, UnreadKept
    <3> QED BY <2>1, <2>2, <3>1 DEF Remembered, Knows, OursTyped, StillUnread
  <2> QED BY <1>a, <2>1, <2>2, <2>3, NoLines
<1>d. Accepts(ref, price, shares) =>
        /\ \A r \in AllRefs \ {ref} : OrderAt(Now', r) = OrderAt(Now, r)
        /\ OrderAt(Now', ref) = [locate |-> l, buy |-> buy, qty |-> shares, price |-> price]
        /\ OrderAt(Now', ref) # Absent /\ shares # 0 /\ w.remaining # 0
        /\ StillUnread({ref}) /\ (side = "N" => ref \in unread')
  <2> SUFFICES ASSUME Accepts(ref, price, shares)
               PROVE  /\ \A r \in AllRefs \ {ref} : OrderAt(Now', r) = OrderAt(Now, r)
                      /\ OrderAt(Now', ref) = [locate |-> l, buy |-> buy, qty |-> shares,
                                               price |-> price]
                      /\ OrderAt(Now', ref) # Absent /\ shares # 0 /\ w.remaining # 0
                      /\ StillUnread({ref}) /\ (side = "N" => ref \in unread')
    OBVIOUS
  <2>1. PICK y : y = OrderAt(Now', ref)
    OBVIOUS
  <2>2. /\ \A r \in AllRefs \ {ref} : OrderAt(Now', r) = OrderAt(Now, r)
        /\ y = [locate |-> l, buy |-> buy, qty |-> shares, price |-> price]
        /\ y \in [locate : Locates, buy : BOOLEAN, price : Prices \ {0}, qty : Sizes \ {0}]
    BY <1>c, <2>1 DEF AddDoes, JoinsLine
  <2>3. y # Absent
    BY <2>2, JoinedPresent
  <2>4. shares # 0 /\ w.remaining # 0
    BY DEF Accepts
  <2>5. StillUnread({ref}) /\ (side = "N" => ref \in unread')
    BY <1>a, <2>1, <2>3, <2>4, UnreadKept
  <2> QED BY <2>1, <2>2, <2>3, <2>4, <2>5
<1>2. CASE Accepts(ref, price, shares) /\ side = "N"
  <2>1. ours' = ours /\ LinesAre(<<>>)
    <3>1. Booked(ours[w.locate], w) = ours[w.locate] /\ MessageLines(ours[w.locate], w) = <<>>
      BY <1>2 DEF Booked, MessageLines
    <3>2. [ours EXCEPT ![w.locate] = ours[w.locate]] = ours
      BY DEF OursTyped
    <3> QED BY <3>1, <3>2 DEF Exported
  <2>2. PICK a, m : a = FileLine(0, 7, ref, 0, 0, 0) /\ m = <<>>
    OBVIOUS
  <2>3. a.id = ref /\ m \in {<<>>, <<a>>} /\ LinesAre(IF Selected(l) THEN m ELSE <<>>)
    BY <2>1, <2>2 DEF FileLine
  <2>4. \A r \in AllRefs \ {ref}, j \in Locates : ours'[j][r] = ours[j][r]
    BY <2>1
  <2>5. OursTyped'
    BY <2>1 DEF OursTyped
  <2>6. ref \in unread \cup unread' /\ ref \in unread'
    BY <1>2, <1>d
  <2> QED BY <1>a, <1>2, <1>d, <2>3, <2>4, <2>5, <2>6, UnreadAccounted
<1>3. CASE Accepts(ref, price, shares) /\ side # "N"
  <2>1. PICK y : y = OrderAt(Now', ref)
    OBVIOUS
  <2>2. /\ \A r \in AllRefs \ {ref} : OrderAt(Now', r) = OrderAt(Now, r)
        /\ y = [locate |-> l, buy |-> buy, qty |-> shares, price |-> price]
        /\ y # Absent
    BY <1>3, <1>d, <2>1
  <2>3. shares # 0 /\ w.remaining # 0 /\ w.side # "N"
    BY <1>3, <1>d
  <2>4. PICK a : a = FileLine(l, 1, ref, shares, price, Direction(w))
    OBVIOUS
  <2>5. Direction(w) = (IF buy THEN 1 ELSE -1) /\ y.locate = l /\ y.qty = shares
    BY <1>b, <2>2 DEF Direction
  <2>6. /\ a.file = l /\ a.id = ref /\ a.type = 1 /\ Effect(a) = shares
        /\ <<a.price, a.dir>> = PlaceOf(y)
    <3>1. /\ a.file = l /\ a.id = ref /\ a.type = 1 /\ a.size = shares
          /\ a.price = price /\ a.dir = Direction(w)
      BY <2>4 DEF FileLine
    <3>2. Effect(a) = shares
      BY <3>1 DEF Effect
    <3>3. PlaceOf(y) = <<price, Direction(w)>>
      BY <2>2, <2>5 DEF PlaceOf
    <3> QED BY ONLY <3>1, <3>2, <3>3
  <2>7. MessageLines(ours[l], w) = <<a>> /\ Booked(ours[l], w) = [ours[l] EXCEPT ![ref] = Recorded(y)]
    <3>1. Submitted(w) = Recorded(y)
      BY <2>2, <2>5 DEF Submitted, Recorded
    <3>2. Booked(ours[l], w) = [ours[l] EXCEPT ![ref] = Recorded(y)]
      BY <2>3, <3>1 DEF Booked
    <3>3. MessageLines(ours[l], w) = <<>> \o <<a>>
      BY <2>3, <2>4 DEF MessageLines
    <3> QED BY <3>2, <3>3
  <2>8. /\ ours' = IF Selected(l)
                     THEN [ours EXCEPT ![l] = [ours[l] EXCEPT ![ref] = Recorded(y)]] ELSE ours
        /\ Selected(l) => LinesAre(<<a>>)
        /\ ~ Selected(l) => LinesAre(<<>>)
    BY <2>7 DEF Exported
  <2>9. OursTyped' /\ \A k \in Locates, r \in AllRefs :
          ours'[k][r] = IF Selected(l) /\ k = l /\ r = ref THEN Recorded(y) ELSE ours[k][r]
    <3>1. CASE ~ Selected(l)
      BY <2>8, <3>1 DEF OursTyped
    <3>2. CASE Selected(l)
      <4>1. PICK new : new = [ours[l] EXCEPT ![ref] = Recorded(y)]
        OBVIOUS
      <4>2. ours[l] = [r \in AllRefs |-> ours[l][r]]
        BY DEF OursTyped
      <4>3. /\ new = [r \in AllRefs |-> new[r]]
            /\ \A r \in AllRefs : new[r] = IF r = ref THEN Recorded(y) ELSE ours[l][r]
        BY <4>1, <4>2
      <4>4. ours' = [ours EXCEPT ![l] = new]
        BY ONLY <2>8, <3>2, <4>1
      <4>5. OursTyped' /\ \A j \in Locates : ours'[j] = IF j = l THEN new ELSE ours[j]
        BY <4>3, <4>4, OursChanged
      <4> QED BY <3>2, <4>3, <4>5
    <3> QED BY <3>1, <3>2
  <2>10. Remembered'
    <3> DEFINE moved == {ref}
    <3>1. \A r \in AllRefs \ moved : OrderAt(Now', r) = OrderAt(Now, r)
      BY <2>2
    <3>2. \A r \in AllRefs \ moved, j \in Locates : ours'[j][r] = ours[j][r]
      BY <2>9
    <3>3. Knows(ref \in unread', wanted, selected, y, ours', ref)
      BY <2>5, <2>9 DEF Knows, Selected
    <3>4. /\ \A r \in moved : Knows(r \in unread', wanted, selected, OrderAt(Now', r), ours', r)
          /\ StillUnread(moved)
      BY <1>3, <1>d, <2>1, <3>3
    <3> HIDE DEF moved
    <3> QED BY <1>a, <3>1, <3>2, <3>4, KnowledgeKept
  <2>11. ASSUME ~ Live(os, ref), NEW k \in Locates, NEW r \in Refs
         PROVE  Accounted(k, r)
    <3>1. CASE k = l /\ r = ref
      <4>1. PICK m : m = <<a>>
        OBVIOUS
      <4>2. /\ Made(m, a, a) /\ m # <<>> /\ m # <<a, a>>
            /\ DOMAIN m = {1} /\ m[1] = a
        BY <4>1 DEF Made
      <4>3. PICK x : x = OrderAt(Now, ref)
        OBVIOUS
      <4>4. /\ SizeAt(x, k) = 0 /\ SizeAt(y, k) = shares /\ PartOf(a, k, r) = shares
            /\ PartOf(a, k, r) \in Int
        <5>1. x = Absent
          BY <2>11, <4>3 DEF OrderAt, Now, Live
        <5> QED BY <2>2, <2>5, <2>6, <3>1, <5>1 DEF SizeAt, PartOf
      <4>5. AddsUp(k, r, x, y, m, a, a)
        <5>1. /\ (IF m = <<>> THEN 0 ELSE PartOf(a, k, r)) = shares
              /\ (IF m = <<a, a>> THEN PartOf(a, k, r) ELSE 0) = 0
          BY ONLY <4>2, <4>4
        <5> QED BY ONLY <4>4, <5>1, shares \in Nat DEF AddsUp
      <4>6. \A type, at : Names(k, r, x, y, m, type, at)
        BY <2>2, <2>6, <4>2 DEF Names
      <4>7. Selected(k) => LinesAre(m)
        BY <2>8, <3>1, <4>1
      <4>8. x = OrderAt(Now, r) /\ y = OrderAt(Now', r)
        BY <2>1, <3>1, <4>3
      <4> QED BY <1>a, <4>2, <4>4, <4>5, <4>6, <4>7, <4>8, AccountOf
    <3>2. CASE k # l \/ r # ref
      <4>1. PICK m : m = IF Selected(l) THEN <<a>> ELSE <<>>
        OBVIOUS
      <4>2. Made(m, a, a) /\ LinesAre(m)
        BY <2>8, <4>1 DEF Made
      <4>3. a.file # k \/ a.id # r
        BY <2>6, <3>2
      <4>4. SizeAt(OrderAt(Now', r), k) = SizeAt(OrderAt(Now, r), k)
        <5>1. CASE r # ref
          BY <2>2, <5>1 DEF AllRefs
        <5>2. CASE r = ref
          <6>1. OrderAt(Now, ref) = Absent
            BY <2>11 DEF OrderAt, Now, Live
          <6> QED BY <2>1, <2>5, <3>2, <5>2, <6>1 DEF SizeAt
        <5> QED BY <5>1, <5>2
      <4> QED BY <1>a, <4>2, <4>3, <4>4, QuietAccount
    <3> QED BY <3>1, <3>2
  <2> QED BY <1>3, <2>9, <2>10, <2>11
<1> QED BY <1>1, <1>2, <1>3

\* Two lines, one after the other.
LEMMA TwoJoined ==
  ASSUME NEW a, NEW b
  PROVE  <<a>> \o <<b>> = <<a, b>>
<1>1. <<a>> \in Seq({a, b}) /\ <<b>> \in Seq({a, b}) /\ <<a, b>> \in Seq({a, b})
  OBVIOUS
<1>2. PICK s, t, u : s = <<a>> /\ t = <<b>> /\ u = <<a, b>>
  OBVIOUS
<1>3. Len(s) = 1 /\ Len(t) = 1 /\ Len(u) = 2 /\ s[1] = a /\ t[1] = b /\ u[1] = a /\ u[2] = b
  BY <1>2
<1>4. s \in Seq({a, b}) /\ t \in Seq({a, b}) /\ u \in Seq({a, b})
  BY <1>1, <1>2
<1>5. /\ s \o t \in Seq({a, b}) /\ Len(s \o t) = 2
      /\ (s \o t)[1] = a /\ (s \o t)[2] = b
  BY ONLY <1>3, <1>4
<1>6. s \o t = u
  <2>1. \A i \in 1 .. 2 : (s \o t)[i] = u[i]
    BY ONLY <1>3, <1>5
  <2> QED BY <1>3, <1>4, <1>5, <2>1, SeqEqual
<1> QED BY <1>2, <1>6

\* The row of a replace: a deletion and, unless it was refused, a submission, of the same
\* reference perhaps.
LEMMA ReplaceAccounted ==
  ASSUME Ordered(os, books, ahead), Ordered(os', books', ahead'), Remembered, OursTyped,
         UNCHANGED <<wanted, selected>>, NEW old \in AllRefs, NEW new \in AllRefs, NEW l,
         NEW price, NEW shares \in Nat, NEW w, w.ref = new, w.old = old, w.type = "U",
         w.locate = Resting(old, l).locate, w.side = Resting(old, l).side, w.price = price,
         w.size = shares, Exported(w), unread' = Unread(w),
         Selected(w.locate) => rows'.messages[1] = w,
         ReplaceDoes(old, new, price, shares),
         ~ Accepts(new, price, shares) => w.remaining = 0,
         Accepts(new, price, shares) /\ Live(os, old) => w.remaining = shares,
         ~ Live(os, old) => w.remaining = 0
  PROVE  /\ Remembered' /\ OursTyped'
         /\ (Live(os, old) => new = old \/ ~ Live(os, new)) =>
              \A k \in Locates, r \in Refs : Accounted(k, r)
<1>a. Sound(os, books) /\ Sound(os', books')
  BY DEF Ordered
<1>1. CASE ~ Live(os, old)
  <2>1. w.side = "N"
    BY <1>a, <1>1, RestingIs
  <2>2. ours' = ours /\ LinesAre(<<>>)
    <3>1. Booked(ours[w.locate], w) = ours[w.locate] /\ MessageLines(ours[w.locate], w) = <<>>
      BY <2>1 DEF Booked, MessageLines
    <3>2. [ours EXCEPT ![w.locate] = ours[w.locate]] = ours
      BY DEF OursTyped
    <3> QED BY <3>1, <3>2 DEF Exported
  <2>3. \A r \in AllRefs : OrderAt(Now', r) = OrderAt(Now, r)
    BY <1>1 DEF ReplaceDoes, Stay, Now, OrderAt
  <2>4. Remembered' /\ OursTyped'
    <3>1. StillUnread({})
      BY <1>a, <1>1, UnreadKept
    <3> QED BY <2>2, <2>3, <3>1 DEF Remembered, Knows, OursTyped, StillUnread
  <2> QED BY <1>a, <2>2, <2>3, <2>4, NoLines
<1>2. CASE Live(os, old)
  <2>1. PICK x, y : x = OrderAt(Now, old) /\ y = OrderAt(Now', new)
    OBVIOUS
  <2>2. PICK k : k = os[old].locate
    OBVIOUS
  <2>3. /\ x # Absent /\ w.locate = k /\ x.locate = k /\ k \in Locates
        /\ w.side = SideOf(x.buy) /\ x.buy \in BOOLEAN /\ x.buy = os[old].buy
        /\ x.qty \in Nat /\ x.qty # 0
    <3>1. /\ x # Absent /\ w.locate = x.locate /\ w.side = SideOf(x.buy) /\ x.qty = os[old].qty
      <4>0. PICK z : z = Resting(old, l)
        OBVIOUS
      <4>1. w.locate = z.locate /\ w.side = z.side
        BY <4>0
      <4>2. /\ x # Absent /\ z.locate = x.locate /\ z.side = SideOf(x.buy)
            /\ z.qty = x.qty /\ z.qty = os[old].qty
        BY ONLY <1>a, <1>2, <2>1, <4>0, RestingIs
      <4> QED BY ONLY <4>1, <4>2
    <3>2. os[old].buy \in BOOLEAN /\ os[old].qty \in Nat /\ os[old].locate \in Locates
          /\ os[old].qty > 0
      BY <1>a, <1>2 DEF Sound, Stores, Order, LiveRefs
    <3>3. x = [locate |-> os[old].locate, buy |-> os[old].buy, qty |-> os[old].qty,
          price |-> Key(os[old].buy, books[os[old].locate].levels[os[old].level].key)]
      BY <1>2, <2>1 DEF OrderAt, Now, Live
    <3>4. x.locate = os[old].locate /\ x.buy = os[old].buy
      BY ONLY <3>3
    <3> QED BY <2>2, <3>1, <3>2, <3>4
  <2>4. /\ \A r \in AllRefs \ {old, new} : OrderAt(Now', r) = OrderAt(Now, r)
        /\ new # old => OrderAt(Now', old) = Absent
        /\ ~ Accepts(new, price, shares) => OrderAt(Now', old) = Absent /\ y = Absent
    <3>1. /\ \A r \in AllRefs \ {old, new} : OrderAt(Now', r) = OrderAt(Now, r)
          /\ new # old => ~ Live(os', old)
          /\ ~ Accepts(new, price, shares) => ~ Live(os', old) /\ ~ Live(os', new)
      BY <1>a, <1>2, ReplaceMoves
    <3>2. \A r : ~ Live(os', r) => OrderAt(Now', r) = Absent
      BY DEF OrderAt, Now, Live
    <3> QED BY <2>1, <3>1, <3>2
  <2>5. ASSUME Accepts(new, price, shares)
        PROVE  /\ y = [locate |-> k, buy |-> x.buy, qty |-> shares, price |-> price]
               /\ y # Absent /\ shares # 0 /\ w.remaining = shares
    <3>1. /\ y = [locate |-> k, buy |-> x.buy, qty |-> shares, price |-> price]
          /\ y \in [locate : Locates, buy : BOOLEAN, price : Prices \ {0}, qty : Sizes \ {0}]
      BY <1>a, <1>2, <2>1, <2>2, <2>3, <2>5, ReplaceMoves
    <3>2. y # Absent
      BY <3>1, JoinedPresent
    <3> QED BY <1>2, <2>5, <3>1, <3>2 DEF Accepts
  <2>6. PICK o, a, b : /\ o = ours[k][old]
                       /\ a = FileLine(k, 3, old, o.size, o.price, o.dir)
                       /\ b = FileLine(k, 1, new, shares, price, Direction(w))
    OBVIOUS
  <2>7. /\ a.file = k /\ a.id = old /\ a.type = 3 /\ a.size = o.size
        /\ a.price = o.price /\ a.dir = o.dir
        /\ b.file = k /\ b.id = new /\ b.type = 1 /\ Effect(b) = shares
        /\ Accepts(new, price, shares) => <<b.price, b.dir>> = PlaceOf(y)
    <3>1. Direction(w) = IF x.buy THEN 1 ELSE -1
      BY <2>3 DEF Direction, SideOf
    <3>2. /\ a.file = k /\ a.id = old /\ a.type = 3 /\ a.size = o.size
          /\ a.price = o.price /\ a.dir = o.dir
      BY <2>6 DEF FileLine
    <3>3. /\ b.file = k /\ b.id = new /\ b.type = 1 /\ b.size = shares
          /\ b.price = price /\ b.dir = Direction(w)
      BY <2>6 DEF FileLine
    <3>4. Effect(b) = shares
      BY <3>3 DEF Effect
    <3>5. Accepts(new, price, shares) => PlaceOf(y) = <<price, Direction(w)>>
      BY <2>5, <3>1 DEF PlaceOf
    <3> QED BY ONLY <3>2, <3>3, <3>4, <3>5
  <2>k. Selected(k) /\ old \notin unread =>
          o # NotOurs /\ Effect(a) = - x.qty /\ <<a.price, a.dir>> = PlaceOf(x)
    <3> SUFFICES ASSUME Selected(k), old \notin unread
                 PROVE  o # NotOurs /\ Effect(a) = - x.qty /\ <<a.price, a.dir>> = PlaceOf(x)
      OBVIOUS
    <3>1. o = Recorded(x)
      BY <2>1, <2>3, <2>6 DEF Remembered, Knows, Selected
    <3>2. /\ o.size = x.qty /\ o.price = x.price /\ NotOurs.size = 0
          /\ o.dir = IF x.buy THEN 1 ELSE -1
      BY <3>1 DEF Recorded, NotOurs
    <3>3. o # NotOurs
      BY <2>3, <3>2
    <3>4. Effect(a) = - x.qty
      BY <2>7, <3>2 DEF Effect
    <3>5. <<a.price, a.dir>> = PlaceOf(x)
      BY ONLY <2>7, <3>2 DEF PlaceOf
    <3> QED BY <3>3, <3>4, <3>5
  <2>8. PICK c, e, m, after :
          /\ c = IF o = NotOurs /\ Accepts(new, price, shares) THEN b ELSE a
          /\ e = IF Accepts(new, price, shares) THEN b ELSE a
          /\ m = IF Accepts(new, price, shares)
                   THEN IF o = NotOurs THEN <<c>> ELSE <<c, e>>
                   ELSE IF o = NotOurs THEN <<>> ELSE <<c>>
          /\ after = IF Accepts(new, price, shares)
                       THEN [ours[k] EXCEPT ![old] = NotOurs, ![new] = Recorded(y)]
                       ELSE [ours[k] EXCEPT ![old] = NotOurs]
    OBVIOUS
  <2>9. MessageLines(ours[k], w) = m /\ Booked(ours[k], w) = after
    <3>1. w.side # "N"
      BY <2>3, SideKnown
    <3>2. MessageLines(ours[k], w) = (IF o # NotOurs THEN <<a>> ELSE <<>>)
                                     \o (IF w.remaining # 0 THEN <<b>> ELSE <<>>)
      BY <2>3, <2>6, <3>1 DEF MessageLines
    <3>3. <<>> \o <<>> = <<>> /\ <<a>> \o <<>> = <<a>> /\ <<>> \o <<b>> = <<b>>
      OBVIOUS
    <3>4. <<a>> \o <<b>> = <<a, b>>
      BY TwoJoined
    <3>5. CASE Accepts(new, price, shares)
      <4>1. Submitted(w) = Recorded(y)
        <5>1. Direction(w) = IF x.buy THEN 1 ELSE -1
          BY <2>3 DEF Direction, SideOf
        <5> QED BY <2>5, <3>5, <5>1 DEF Submitted, Recorded
      <4>2. Booked(ours[k], w) = after
        BY <2>5, <2>8, <3>1, <3>5, <4>1 DEF Booked
      <4>3. MessageLines(ours[k], w) = (IF o # NotOurs THEN <<a>> ELSE <<>>) \o <<b>>
        BY <2>5, <3>2, <3>5
      <4>4. MessageLines(ours[k], w) = m
        <5>1. CASE o = NotOurs
          BY ONLY <2>8, <3>3, <3>5, <4>3, <5>1
        <5>2. CASE o # NotOurs
          BY ONLY <2>8, <3>4, <3>5, <4>3, <5>2
        <5> QED BY <5>1, <5>2
      <4> QED BY <4>2, <4>4
    <3>6. CASE ~ Accepts(new, price, shares)
      <4>1. Booked(ours[k], w) = after
        BY <2>8, <3>1, <3>6 DEF Booked
      <4>2. MessageLines(ours[k], w) = (IF o # NotOurs THEN <<a>> ELSE <<>>) \o <<>>
        BY <3>2, <3>6
      <4>3. MessageLines(ours[k], w) = m
        <5>1. CASE o = NotOurs
          BY ONLY <2>8, <3>3, <3>6, <4>2, <5>1
        <5>2. CASE o # NotOurs
          BY ONLY <2>8, <3>3, <3>6, <4>2, <5>2
        <5> QED BY <5>1, <5>2
      <4> QED BY <4>1, <4>3
    <3> QED BY <3>5, <3>6
  <2>10. /\ ours' = IF Selected(k) THEN [ours EXCEPT ![k] = after] ELSE ours
         /\ Selected(k) => LinesAre(m)
         /\ ~ Selected(k) => LinesAre(<<>>)
    BY <2>3, <2>9 DEF Exported
  <2>11. OursTyped' /\ \A j \in Locates, r \in AllRefs :
           ours'[j][r] = IF Selected(k) /\ j = k
                           THEN IF r = new /\ Accepts(new, price, shares) THEN Recorded(y)
                                ELSE IF r = old THEN NotOurs ELSE ours[j][r]
                           ELSE ours[j][r]
    <3>1. CASE ~ Selected(k)
      BY <2>10, <3>1 DEF OursTyped
    <3>2. CASE Selected(k)
      <4>1. ours[k] = [r \in AllRefs |-> ours[k][r]]
        BY <2>3 DEF OursTyped
      <4>2. /\ after = [r \in AllRefs |-> after[r]]
            /\ \A r \in AllRefs :
                 after[r] = IF r = new /\ Accepts(new, price, shares) THEN Recorded(y)
                            ELSE IF r = old THEN NotOurs ELSE ours[k][r]
        BY <2>8, <4>1
      <4>3. ours' = [ours EXCEPT ![k] = after] /\ k \in Locates
        BY ONLY <2>3, <2>10, <3>2
      <4>4. OursTyped' /\ \A j \in Locates : ours'[j] = IF j = k THEN after ELSE ours[j]
        BY <4>2, <4>3, OursChanged
      <4> QED BY <3>2, <4>2, <4>4
    <3> QED BY <3>1, <3>2
  <2>12. Remembered'
    <3> DEFINE moved == {old, new}
    <3>1. \A r \in AllRefs \ moved : OrderAt(Now', r) = OrderAt(Now, r)
      BY <2>4
    <3>2. \A r \in AllRefs \ moved, j \in Locates : ours'[j][r] = ours[j][r]
      BY <2>11
    <3>3. Knows(new \in unread', wanted, selected, y, ours', new)
      <4>1. CASE Accepts(new, price, shares)
        <5>1. y.locate = k
          BY <2>5, <4>1
        <5> QED BY <2>3, <2>11, <4>1, <5>1 DEF Knows, Selected
      <4>2. CASE ~ Accepts(new, price, shares)
        BY <2>4, <4>2 DEF Knows
      <4> QED BY <4>1, <4>2
    <3>4. new # old => Knows(old \in unread', wanted, selected, OrderAt(Now', old), ours', old)
      BY <2>4 DEF Knows
    <3>5. \A r \in moved : Knows(r \in unread', wanted, selected, OrderAt(Now', r), ours', r)
      BY <2>1, <3>3, <3>4
    <3>6. StillUnread(moved)
      BY <1>a, UnreadKept DEF StillUnread
    <3> HIDE DEF moved
    <3> QED BY <1>a, <3>1, <3>2, <3>5, <3>6, KnowledgeKept
  <2>13. ASSUME new = old \/ ~ Live(os, new), NEW j \in Locates, NEW r \in Refs
         PROVE  Accounted(j, r)
    <3> SUFFICES ASSUME Selected(j), r \notin unread PROVE Accounted(j, r)
      BY DEF Accounted
    <3>1. r \in AllRefs
      BY DEF AllRefs
    <3>2. new # old => OrderAt(Now, new) = Absent
      BY <2>13 DEF OrderAt, Now, Live
    <3>3. PICK xr, yr : xr = OrderAt(Now, r) /\ yr = OrderAt(Now', r)
      OBVIOUS
    <3>4. Made(m, c, e)
      BY <2>8 DEF Made
    <3>5. CASE j = k /\ r = old
      <4>1. /\ o # NotOurs /\ Effect(a) = - x.qty /\ <<a.price, a.dir>> = PlaceOf(x)
            /\ c = a /\ xr = x
        BY <2>1, <2>8, <2>k, <3>3, <3>5
      <4>2. LinesAre(m) /\ rows'.messages[1] = w
        BY <2>3, <2>10, <3>5
      <4>3. SizeAt(xr, j) = x.qty
        BY <2>3, <3>5, <4>1 DEF SizeAt
      <4>4. /\ SizeAt(yr, j) = IF old = new /\ Accepts(new, price, shares) THEN shares ELSE 0
            /\ old = new => yr = y
        <5>1. CASE old = new
          <6>1. yr = y
            BY <2>1, <3>3, <3>5, <5>1
          <6> QED BY <2>4, <2>5, <3>5, <5>1, <6>1 DEF SizeAt
        <5>2. CASE old # new
          <6>1. yr = Absent
            BY <2>4, <3>3, <3>5, <5>2
          <6> QED BY <5>2, <6>1 DEF SizeAt
        <5> QED BY <5>1, <5>2
      <4>5. /\ PartOf(c, j, r) = - x.qty
            /\ e = b => PartOf(e, j, r) = IF old = new THEN shares ELSE 0
            /\ e = a => PartOf(e, j, r) = - x.qty
            /\ PartOf(c, j, r) \in Int /\ PartOf(e, j, r) \in Int
        <5>1. /\ PartOf(a, j, r) = - x.qty
              /\ PartOf(b, j, r) = IF old = new THEN shares ELSE 0
          BY <2>7, <3>5, <4>1 DEF PartOf
        <5>2. e = a \/ e = b
          BY <2>8
        <5> QED BY <2>3, <4>1, <5>1, <5>2
      <4>6. m # <<>> /\ (m = <<c, e>> <=> Accepts(new, price, shares))
            /\ (Accepts(new, price, shares) => e = b)
        <5>1. <<c>> # <<c, e>> /\ <<c>> # <<>> /\ <<c, e>> # <<>>
          OBVIOUS
        <5> QED BY <2>8, <4>1, <5>1
      <4>7. AddsUp(j, r, xr, yr, m, c, e)
        <5>1. /\ (IF m = <<>> THEN 0 ELSE PartOf(c, j, r)) = - x.qty
              /\ (IF m = <<c, e>> THEN PartOf(e, j, r) ELSE 0)
                   = IF old = new /\ Accepts(new, price, shares) THEN shares ELSE 0
          BY ONLY <4>5, <4>6
        <5>2. x.qty \in Nat /\ shares \in Nat
          BY <2>3
        <5> QED BY ONLY <4>3, <4>4, <5>1, <5>2 DEF AddsUp
      <4>8. \A price2 : Names(j, r, xr, yr, m, "U", price2)
        <5> SUFFICES ASSUME NEW price2, NEW i \in DOMAIN m, m[i].file = j /\ m[i].id = r
                     PROVE  IF m[i].type = 1
                              THEN yr # Absent /\ <<m[i].price, m[i].dir>> = PlaceOf(yr)
                              ELSE xr # Absent /\ <<m[i].price, m[i].dir>> = PlaceOf(xr)
          BY DEF Names
        <5>1. m[i] = a \/ (m[i] = b /\ Accepts(new, price, shares))
          <6>1. CASE ~ Accepts(new, price, shares)
            <7>1. DOMAIN m = {1} /\ m[1] = a
              BY <2>8, <4>1, <6>1
            <7> QED BY <7>1
          <6>2. CASE Accepts(new, price, shares)
            <7>1. DOMAIN m = {1, 2} /\ m[1] = a /\ m[2] = b
              BY <2>8, <4>1, <6>2
            <7> QED BY <6>2, <7>1
          <6> QED BY <6>1, <6>2
        <5>2. CASE m[i] = a
          <6>1. m[i].type = 3 /\ <<m[i].price, m[i].dir>> = PlaceOf(xr)
            BY ONLY <2>7, <4>1, <5>2
          <6> QED BY ONLY <2>3, <4>1, <6>1
        <5>3. CASE m[i] = b /\ Accepts(new, price, shares)
          <6>1. yr = y /\ m[i].type = 1
            BY <2>7, <3>5, <4>4, <5>3
          <6>2. <<m[i].price, m[i].dir>> = PlaceOf(yr) /\ y # Absent
            BY ONLY <2>5, <2>7, <5>3, <6>1
          <6> QED BY ONLY <6>1, <6>2
        <5> QED BY <5>1, <5>2, <5>3
      <4>9. Names(j, r, xr, yr, m, rows'.messages[1].type, rows'.messages[1].price)
        BY <4>2, <4>8
      <4> QED BY <1>a, <3>3, <3>4, <4>2, <4>5, <4>7, <4>9, AccountOf
    <3>6. CASE j = k /\ r = new /\ new # old /\ Accepts(new, price, shares)
      <4>1. /\ xr = Absent /\ yr = y /\ e = b /\ LinesAre(m) /\ rows'.messages[1] = w
            /\ SizeAt(xr, j) = 0 /\ SizeAt(yr, j) = shares
        BY <2>1, <2>3, <2>5, <2>8, <2>10, <3>2, <3>3, <3>6 DEF SizeAt
      <4>2. PartOf(a, j, r) = 0 /\ PartOf(b, j, r) = shares
        BY <2>7, <3>6 DEF PartOf
      <4>3. \/ c = b /\ m = <<c>>
            \/ c = a /\ m = <<c, e>>
        BY <2>8, <3>6
      <4>4. PartOf(c, j, r) \in Int /\ PartOf(e, j, r) \in Int
        BY <4>1, <4>2, <4>3
      <4>5. AddsUp(j, r, xr, yr, m, c, e)
        <5>1. <<c>> # <<c, e>> /\ <<c>> # <<>> /\ <<c, e>> # <<>>
          OBVIOUS
        <5>2. (IF m = <<>> THEN 0 ELSE PartOf(c, j, r))
              + (IF m = <<c, e>> THEN PartOf(e, j, r) ELSE 0) = shares
          <6>1. CASE c = b /\ m = <<c>>
            BY ONLY <4>2, <5>1, <6>1, shares \in Nat
          <6>2. CASE c = a /\ m = <<c, e>>
            <7>1. e = b
              BY <4>1
            <7> QED BY ONLY <4>2, <5>1, <6>2, <7>1, shares \in Nat
          <6> QED BY <4>3, <6>1, <6>2
        <5> QED BY ONLY <4>1, <5>2, shares \in Nat DEF AddsUp
      <4>6. \A type, price2 : Names(j, r, xr, yr, m, type, price2)
        <5> SUFFICES ASSUME NEW i \in DOMAIN m, m[i].id = r
                     PROVE  m[i].type = 1 /\ yr # Absent
                            /\ <<m[i].price, m[i].dir>> = PlaceOf(yr)
          BY DEF Names
        <5>1. m[i] = a \/ m[i] = b
          <6>1. CASE c = b /\ m = <<c>>
            BY <6>1
          <6>2. CASE c = a /\ m = <<c, e>>
            BY <4>1, <6>2
          <6> QED BY <4>3, <6>1, <6>2
        <5>2. m[i] = b
          BY <2>7, <3>6, <5>1
        <5> QED BY ONLY <2>5, <2>7, <3>6, <4>1, <5>2
      <4> QED BY <1>a, <3>3, <3>4, <4>1, <4>4, <4>5, <4>6, AccountOf
    <3>7. CASE r # old /\ (j # k \/ r # new \/ ~ Accepts(new, price, shares))
      <4>1. PICK n : n = IF Selected(k) THEN m ELSE <<>>
        OBVIOUS
      <4>2. Made(n, c, e) /\ LinesAre(n)
        BY <2>10, <3>4, <4>1 DEF Made
      <4>3. (c.file # j \/ c.id # r) /\ (e.file # j \/ e.id # r)
        BY <2>7, <2>8, <3>7
      <4>4. SizeAt(yr, j) = SizeAt(xr, j)
        <5>1. CASE r # new
          BY <2>4, <3>1, <3>3, <3>7, <5>1
        <5>2. CASE r = new
          <6>1. xr = Absent /\ yr = y
            BY <2>1, <3>2, <3>3, <3>7, <5>2
          <6>2. y = Absent \/ y.locate # j
            BY <2>4, <2>5, <3>7, <5>2
          <6> QED BY <6>1, <6>2 DEF SizeAt
        <5> QED BY <5>1, <5>2
      <4> QED BY <1>a, <3>3, <4>2, <4>3, <4>4, QuietAccount
    <3>8. CASE r = old /\ j # k
      <4>1. PICK n : n = IF Selected(k) THEN m ELSE <<>>
        OBVIOUS
      <4>2. Made(n, c, e) /\ LinesAre(n)
        BY <2>10, <3>4, <4>1 DEF Made
      <4>3. c.file # j /\ e.file # j
        BY <2>7, <2>8, <3>8
      <4>4. SizeAt(yr, j) = SizeAt(xr, j)
        <5>1. xr = x /\ x.locate # j
          BY <2>1, <2>3, <3>3, <3>8
        <5>2. yr = Absent \/ yr.locate # j
          BY <2>1, <2>4, <2>5, <3>3, <3>8
        <5> QED BY <5>1, <5>2 DEF SizeAt
      <4> QED BY <1>a, <3>3, <4>2, <4>3, <4>4, QuietAccount
    <3> QED BY <3>5, <3>6, <3>7, <3>8
  <2> QED BY <1>2, <2>11, <2>12, <2>13
<1> QED BY <1>1, <1>2

\* A message without a row in messages leaves no line about an order.
LEMMA ExportNone ==
  ASSUME Export, rows'.messages = <<>>
  PROVE  ours' = ours /\ LinesAre(<<>>)
<1> DEFINE ts == IF rows'.trades = <<>> THEN <<>> ELSE TradeLines(rows'.trades[1])
           hs == IF rows'.halts = <<>> THEN <<>> ELSE HaltLines(rows'.halts[1])
<1>1. lines' = <<>> \o ts \o hs /\ ours' = ours
  <2>1. lines' = (IF rows'.messages = <<>> THEN <<>>
                    ELSE MessageLines(ours[rows'.messages[1].locate], rows'.messages[1]))
                 \o (IF rows'.trades = <<>> THEN <<>> ELSE TradeLines(rows'.trades[1]))
                 \o (IF rows'.halts = <<>> THEN <<>> ELSE HaltLines(rows'.halts[1]))
    BY Zenon DEF Export
  <2>2. ours' = ours
    BY DEF Export
  <2> QED BY <2>1, <2>2
<1>2. \E t : t.id = NilRef /\ ts \in {<<>>, <<t>>}
  <2> DEFINE a == rows'.trades[1]
             buys  == FileLine(a.locate, 5, NilRef, a.shares, a.price, 1)
             sells == FileLine(a.locate, 6, NilRef, a.shares, a.price, -1)
  <2>1. buys.id = NilRef /\ sells.id = NilRef
    BY DEF FileLine
  <2>2. ts = <<>> \/ ts = <<buys>> \/ ts = <<sells>>
    BY DEF TradeLines
  <2> QED BY <2>1, <2>2
<1>3. \E h : h.id = NilRef /\ hs \in {<<>>, <<h>>}
  <2>1. PICK h : h = rows'.halts[1]
    OBVIOUS
  <2>2. PICK price : HaltLines(h) = <<FileLine(h.locate, 7, NilRef, 0, price, -1)>>
    BY DEF HaltLines
  <2>3. FileLine(h.locate, 7, NilRef, 0, price, -1).id = NilRef
    BY DEF FileLine
  <2> QED BY <2>1, <2>2, <2>3
<1> HIDE DEF ts, hs
<1> QED BY <1>1, <1>2, <1>3 DEF LinesAre

LInv == SInv /\ Remembered /\ OursTyped

\* What a step leaves: what the exporter remembers is right, and its lines account for
\* what the message did unless it took a reference in use or more than rested.
Settled ==
  /\ Remembered' /\ OursTyped'
  /\ counted' \cap {"dup_ref", "clamped"} = {} =>
       \A k \in Locates, r \in Refs : Accounted(k, r)

\* A and F messages.
LEMMA AddSettled ==
  ASSUME LInv, Export, NEW ref \in AllRefs, NEW l \in Locates, NEW side,
         NEW price \in Prices, NEW shares \in Sizes, AddMessage(ref, l, side, price, shares)
  PROVE  Settled
<1>a. /\ QInv /\ IInv /\ Ordered(os, books, ahead) /\ Remembered /\ OursTyped
      /\ shares \in Nat
  BY SInvFacts, ConstantFacts DEF LInv
<1>1. OnAdd(ref, l, side = "B", price, shares) /\ UNCHANGED <<wanted, selected>>
  BY DEF AddMessage
<1>2. PICK w : w = [type |-> "A", locate |-> l, side |-> side, price |-> price,
                    size |-> shares, ref |-> ref, old |-> NilRef,
                    remaining |-> IF "rejected" \in counted' THEN 0 ELSE shares]
  OBVIOUS
<1>3. /\ rows' = [NoRows EXCEPT !.messages = Kept(w), !.trades = TradeRows]
      /\ unread' = Unread(w)
  BY <1>2 DEF AddMessage, EmitMessage
<1>4. Exported(w)
  BY <1>3, ExportOf
<1>5. /\ "rejected" \in counted' <=> ~ Accepts(ref, price, shares)
      /\ Accepts(ref, price, shares) /\ Live(os, ref) => "dup_ref" \in counted'
  BY <1>1 DEF OnAdd
<1>6. /\ w.ref = ref /\ w.type = "A" /\ w.side = side /\ w.locate = l /\ w.price = price
      /\ w.size = shares
      /\ ~ Accepts(ref, price, shares) => w.remaining = 0
      /\ Accepts(ref, price, shares) => w.remaining = shares
  BY <1>2, <1>5
<1>7. Ordered(os', books', ahead') /\ AddDoes(ref, l, side = "B", price, shares)
  BY <1>a, <1>1, AddDone
<1>8. /\ Remembered' /\ OursTyped'
      /\ (Accepts(ref, price, shares) => ~ Live(os, ref)) =>
           \A k \in Locates, r \in Refs : Accounted(k, r)
  BY <1>a, <1>1, <1>3, <1>4, <1>6, <1>7, AddAccounted
<1> QED BY <1>5, <1>8 DEF Settled

\* Executions and cancels, whatever the type and the price of the row.
LEMMA ReduceSettled ==
  ASSUME LInv, Export, NEW ref \in AllRefs, NEW shares \in Sizes, NEW counter, NEW l,
         ReduceOrder(ref, shares, counter), NEW w, w.ref = ref,
         w.type \in {"E", "C", "X"}, w.remaining = Left(Resting(ref, l), shares),
         w.locate = Resting(ref, l).locate, w.side = Resting(ref, l).side, w.size = shares,
         rows' = [NoRows EXCEPT !.messages = Kept(w), !.trades = TradeRows],
         unread' = Unread(w), UNCHANGED <<wanted, selected>>
  PROVE  Settled
<1>a. /\ QInv /\ IInv /\ Ordered(os, books, ahead) /\ Remembered /\ OursTyped
      /\ Sound(os, books) /\ shares \in Nat
  BY SInvFacts, ConstantFacts DEF LInv
<1>1. Ordered(os', books', ahead') /\ ReduceDoes(ref, shares)
  BY <1>a, ReduceDone
<1>2. PICK left : left = Left(Resting(ref, l), shares)
  OBVIOUS
<1>3. /\ os[ref].qty \in Nat
      /\ Live(os, ref) => Resting(ref, l).qty = os[ref].qty
      /\ ~ Live(os, ref) => Resting(ref, l).qty = 0
  <2>1. os[ref].qty \in Nat
    BY <1>a DEF Sound, Stores, Order
  <2>2. CASE Live(os, ref)
    BY <1>a, <2>1, <2>2, RestingIs
  <2>3. CASE ~ Live(os, ref)
    BY <1>a, <2>1, <2>3, RestingIs
  <2> QED BY <2>2, <2>3
<1>4. /\ left \in Nat
      /\ Live(os, ref) =>
           /\ left = IF os[ref].qty > shares THEN os[ref].qty - shares ELSE 0
           /\ left = 0 <=> Taken(os, ref, shares) = os[ref].qty
           /\ left # 0 => left = os[ref].qty - shares
           /\ Taken(os, ref, shares) = shares => left = os[ref].qty - shares
  BY <1>a, <1>2, <1>3 DEF Left, Taken
<1>5. Shrinks(ref, left)
  BY <1>1, <1>4 DEF ReduceDoes, Shrinks
<1>6. Exported(w) /\ (Selected(w.locate) => rows'.messages[1] = w)
  BY ExportOf
<1>7. w.remaining = left /\ w.type \in {"E", "C", "X", "D"} /\ w.size \in Nat
  BY <1>a, <1>2
<1>u. StillUnread({})
  BY <1>1, <1>7, UnreadKept DEF Ordered
<1>r. /\ ref \in AllRefs /\ left \in Nat /\ w.ref = ref /\ UNCHANGED <<wanted, selected>>
      /\ w.locate = Resting(ref, l).locate /\ w.side = Resting(ref, l).side
  BY <1>4
<1>8. /\ Remembered' /\ OursTyped'
      /\ (Live(os, ref) => left = os[ref].qty - w.size) =>
           \A k \in Locates, r \in Refs : Accounted(k, r)
  BY ONLY <1>a, <1>1, <1>5, <1>6, <1>7, <1>u, <1>r, RestingAccounted
<1>9. Live(os, ref) /\ "clamped" \notin counted' => Taken(os, ref, shares) = shares
  BY DEF ReduceOrder
<1> QED BY <1>4, <1>8, <1>9 DEF Settled

\* E messages.
LEMMA ExecuteSettled ==
  ASSUME LInv, Export, NEW ref \in AllRefs, NEW l, NEW shares \in Sizes,
         ExecuteMessage(ref, l, shares)
  PROVE  Settled
<1>1. PICK w : w = RestingRow("E", Resting(ref, l), Resting(ref, l).price, shares,
                              Left(Resting(ref, l), shares), ref)
  OBVIOUS
<1>2. /\ ReduceOrder(ref, shares, "executes") /\ UNCHANGED <<wanted, selected>>
      /\ rows' = [NoRows EXCEPT !.messages = Kept(w), !.trades = TradeRows]
      /\ unread' = Unread(w)
  BY <1>1 DEF ExecuteMessage, OnExecute, EmitMessage
<1>3. /\ w.ref = ref /\ w.type \in {"E", "C", "X"} /\ w.size = shares
      /\ w.remaining = Left(Resting(ref, l), shares)
      /\ w.locate = Resting(ref, l).locate /\ w.side = Resting(ref, l).side
  BY <1>1 DEF RestingRow
<1> QED BY <1>2, <1>3, ReduceSettled

\* C messages: the line is at their price.
LEMMA ExecutePriceSettled ==
  ASSUME LInv, Export, NEW ref \in AllRefs, NEW l, NEW shares \in Sizes, NEW price,
         NEW printable, ExecutePriceMessage(ref, l, shares, price, printable)
  PROVE  Settled
<1>1. PICK w : w = RestingRow("C", Resting(ref, l), price, shares,
                              Left(Resting(ref, l), shares), ref)
  OBVIOUS
<1>2. /\ ReduceOrder(ref, shares, "executes") /\ UNCHANGED <<wanted, selected>>
      /\ rows' = [NoRows EXCEPT !.messages = Kept(w), !.trades = TradeRows]
      /\ unread' = Unread(w)
  BY <1>1 DEF ExecutePriceMessage, OnExecutePrice, EmitMessage
<1>3. /\ w.ref = ref /\ w.type \in {"E", "C", "X"} /\ w.size = shares
      /\ w.remaining = Left(Resting(ref, l), shares)
      /\ w.locate = Resting(ref, l).locate /\ w.side = Resting(ref, l).side
  BY <1>1 DEF RestingRow
<1> QED BY <1>2, <1>3, ReduceSettled

\* X messages.
LEMMA CancelSettled ==
  ASSUME LInv, Export, NEW ref \in AllRefs, NEW l, NEW shares \in Sizes,
         CancelMessage(ref, l, shares)
  PROVE  Settled
<1>1. PICK w : w = RestingRow("X", Resting(ref, l), Resting(ref, l).price, shares,
                              Left(Resting(ref, l), shares), ref)
  OBVIOUS
<1>2. /\ ReduceOrder(ref, shares, "cancels") /\ UNCHANGED <<wanted, selected>>
      /\ rows' = [NoRows EXCEPT !.messages = Kept(w), !.trades = TradeRows]
      /\ unread' = Unread(w)
  BY <1>1 DEF CancelMessage, OnCancel, EmitMessage
<1>3. /\ w.ref = ref /\ w.type \in {"E", "C", "X"} /\ w.size = shares
      /\ w.remaining = Left(Resting(ref, l), shares)
      /\ w.locate = Resting(ref, l).locate /\ w.side = Resting(ref, l).side
  BY <1>1 DEF RestingRow
<1> QED BY <1>2, <1>3, ReduceSettled

\* D messages: the line takes all that rests.
LEMMA DeleteSettled ==
  ASSUME LInv, Export, NEW ref \in AllRefs, NEW l, DeleteMessage(ref, l)
  PROVE  Settled
<1>a. /\ QInv /\ IInv /\ Ordered(os, books, ahead) /\ Remembered /\ OursTyped
      /\ Sound(os, books)
  BY SInvFacts DEF LInv
<1>1. PICK w : w = RestingRow("D", Resting(ref, l), Resting(ref, l).price,
                              Resting(ref, l).qty, 0, ref)
  OBVIOUS
<1>2. /\ OnDelete(ref) /\ UNCHANGED <<wanted, selected>>
      /\ rows' = [NoRows EXCEPT !.messages = Kept(w), !.trades = TradeRows]
      /\ unread' = Unread(w)
  BY <1>1 DEF DeleteMessage, EmitMessage
<1>3. Ordered(os', books', ahead') /\ DeleteDoes(ref)
  BY <1>a, <1>2, DeleteDone
<1>4. /\ os[ref].qty \in Nat
      /\ Live(os, ref) => Resting(ref, l).qty = os[ref].qty
      /\ ~ Live(os, ref) => Resting(ref, l).qty = 0
  <2>1. os[ref].qty \in Nat
    BY <1>a DEF Sound, Stores, Order
  <2>2. CASE Live(os, ref)
    BY <1>a, <2>1, <2>2, RestingIs
  <2>3. CASE ~ Live(os, ref)
    BY <1>a, <2>1, <2>3, RestingIs
  <2> QED BY <2>2, <2>3
<1>5. /\ w.ref = ref /\ w.remaining = 0 /\ w.type = "D" /\ w.size = Resting(ref, l).qty
      /\ w.locate = Resting(ref, l).locate /\ w.side = Resting(ref, l).side
  BY <1>1 DEF RestingRow
<1>6. Shrinks(ref, 0)
  BY <1>3 DEF DeleteDoes, Shrinks
<1>7. Exported(w) /\ (Selected(w.locate) => rows'.messages[1] = w)
  BY <1>2, ExportOf
<1>8. /\ w.size \in Nat /\ w.type \in {"E", "C", "X", "D"}
      /\ Live(os, ref) => 0 = os[ref].qty - w.size
  BY <1>4, <1>5
<1>9. PICK left : left = 0
  OBVIOUS
<1>10. Shrinks(ref, left) /\ left \in Nat /\ w.remaining = left
  BY <1>5, <1>6, <1>9
<1>u. StillUnread({})
  BY <1>2, <1>3, <1>5, UnreadKept DEF Ordered
<1>11. /\ Remembered' /\ OursTyped'
       /\ (Live(os, ref) => left = os[ref].qty - w.size) =>
           \A k \in Locates, r \in Refs : Accounted(k, r)
  BY <1>a, <1>2, <1>3, <1>5, <1>7, <1>8, <1>10, <1>u, RestingAccounted
<1> QED BY <1>8, <1>9, <1>11 DEF Settled

\* U messages.
LEMMA ReplaceSettled ==
  ASSUME LInv, Export, NEW old \in AllRefs, NEW new \in AllRefs, NEW l, NEW price \in Prices,
         NEW shares \in Sizes, ReplaceMessage(old, new, l, price, shares)
  PROVE  Settled
<1>a. /\ QInv /\ IInv /\ Ordered(os, books, ahead) /\ Remembered /\ OursTyped
      /\ Sound(os, books) /\ shares \in Nat
  BY SInvFacts, ConstantFacts DEF LInv
<1>1. PICK w : w = ReplaceRow(Resting(old, l), old, new, price, shares)
  OBVIOUS
<1>2. /\ OnReplace(old, new, price, shares) /\ UNCHANGED <<wanted, selected>>
      /\ rows' = [NoRows EXCEPT !.messages = Kept(w), !.trades = TradeRows]
      /\ unread' = Unread(w)
  BY <1>1 DEF ReplaceMessage, EmitMessage
<1>3. Ordered(os', books', ahead') /\ ReplaceDoes(old, new, price, shares)
  BY <1>a, <1>2, ReplaceDone
<1>4. ASSUME Live(os, old)
      PROVE  /\ "rejected" \in counted' <=> ~ Accepts(new, price, shares)
             /\ new # old /\ Live(os, new) => "dup_ref" \in counted'
  <2>1. \/ ~ Accepts(new, price, shares) /\ "rejected" \in counted'
        \/ Accepts(new, price, shares) /\ counted' \subseteq {"replaces", "dup_ref"}
    BY <1>2, <1>4 DEF OnReplace
  <2>2. new # old /\ Live(os, new) => "dup_ref" \in counted'
    BY <1>2, <1>4 DEF OnReplace
  <2> QED BY <2>1, <2>2
<1>5. Live(os, old) <=> Resting(old, l).found
  BY <1>a, RestingIs
<1>6. /\ w.ref = new /\ w.old = old /\ w.type = "U" /\ w.price = price /\ w.size = shares
      /\ w.locate = Resting(old, l).locate /\ w.side = Resting(old, l).side
      /\ w.remaining = IF Resting(old, l).found /\ "rejected" \notin counted' THEN shares ELSE 0
  BY <1>1 DEF ReplaceRow
<1>7. /\ ~ Accepts(new, price, shares) => w.remaining = 0
      /\ Accepts(new, price, shares) /\ Live(os, old) => w.remaining = shares
      /\ ~ Live(os, old) => w.remaining = 0
  BY <1>4, <1>5, <1>6
<1>8. Exported(w) /\ (Selected(w.locate) => rows'.messages[1] = w)
  BY <1>2, ExportOf
<1>9. /\ Remembered' /\ OursTyped'
      /\ (Live(os, old) => new = old \/ ~ Live(os, new)) =>
           \A k \in Locates, r \in Refs : Accounted(k, r)
  BY <1>a, <1>2, <1>3, <1>6, <1>7, <1>8, ReplaceAccounted
<1> QED BY <1>4, <1>9 DEF Settled

\* Messages that touch no order; of a selection that grows they know that none rests.
LEMMA RestSettled ==
  ASSUME LInv, Export, rows'.messages = <<>>, UNCHANGED <<os, books, wanted, unread>>,
         selected' = selected \/ wanted = {} \/ LiveRefs = {}
  PROVE  Settled
<1>a. Remembered /\ OursTyped /\ Sound(os, books)
  BY SInvFacts DEF LInv
<1>1. ours' = ours /\ LinesAre(<<>>)
  BY ExportNone
<1>2. /\ Sound(os', books')
      /\ \A r \in AllRefs : OrderAt(Now', r) = OrderAt(Now, r)
  BY <1>a DEF Now, OrderAt
<1>3. Remembered'
  <2>1. CASE LiveRefs = {}
    <3>1. \A r \in AllRefs : OrderAt(Now', r) = Absent
      BY <1>2, <2>1 DEF LiveRefs, OrderAt, Now, Live
    <3> QED BY <3>1 DEF Remembered, Knows
  <2>2. CASE selected' = selected \/ wanted = {}
    BY <1>a, <1>1, <1>2, <2>2 DEF Remembered, Knows
  <2> QED BY <2>1, <2>2
<1>4. OursTyped'
  BY <1>a, <1>1 DEF OursTyped
<1>5. \A k \in Locates, r \in Refs : Accounted(k, r)
  BY <1>a, <1>1, <1>2, NoLines
<1> QED BY <1>3, <1>4, <1>5 DEF Settled

lobsterState == <<vars, sessionVars, lobsterVars>>

\* Every step settles.
LEMMA StepSettled ==
  ASSUME LInv, LNext
  PROVE  Settled
<1>a. Export /\ SNext
  BY DEF LNext
<1>b. SNext => \/ \E ref \in AllRefs, l \in Locates, side \in SideBytes, price \in Prices,
                     shares \in Sizes : AddMessage(ref, l, side, price, shares)
               \/ \E ref \in AllRefs, shares \in Sizes : \E l : ExecuteMessage(ref, l, shares)
               \/ \E ref \in AllRefs, shares \in Sizes : \E l : CancelMessage(ref, l, shares)
               \/ \E ref \in AllRefs, shares \in Sizes : \E l, price, printable :
                    ExecutePriceMessage(ref, l, shares, price, printable)
               \/ \E ref \in AllRefs : \E l : DeleteMessage(ref, l)
               \/ \E old, new \in AllRefs, price \in Prices, shares \in Sizes : \E l :
                    ReplaceMessage(old, new, l, price, shares)
               \/ \E l, symbol : DirectoryMessage(l, symbol)
               \/ \E l, now : ActionMessage(l, now) \/ OperationalHaltMessage(l, now)
               \/ \E source, l, price, shares : TradeMessage(source, l, price, shares)
  BY Zenon DEF SNext
<1>1. ASSUME NEW ref \in AllRefs, NEW l \in Locates, NEW side \in SideBytes, NEW price \in Prices,
             NEW shares \in Sizes, AddMessage(ref, l, side, price, shares)
      PROVE  Settled
  BY <1>a, <1>1, AddSettled
<1>2. ASSUME NEW ref \in AllRefs, NEW shares \in Sizes, NEW l, ExecuteMessage(ref, l, shares)
      PROVE  Settled
  BY <1>a, <1>2, ExecuteSettled
<1>3. ASSUME NEW ref \in AllRefs, NEW shares \in Sizes, NEW l, CancelMessage(ref, l, shares)
      PROVE  Settled
  BY <1>a, <1>3, CancelSettled
<1>4. ASSUME NEW ref \in AllRefs, NEW shares \in Sizes, NEW l, NEW price, NEW printable,
             ExecutePriceMessage(ref, l, shares, price, printable)
      PROVE  Settled
  BY <1>a, <1>4, ExecutePriceSettled
<1>5. ASSUME NEW ref \in AllRefs, NEW l, DeleteMessage(ref, l) PROVE Settled
  BY <1>a, <1>5, DeleteSettled
<1>6. ASSUME NEW old \in AllRefs, NEW new \in AllRefs, NEW price \in Prices, NEW shares \in Sizes,
             NEW l, ReplaceMessage(old, new, l, price, shares)
      PROVE  Settled
  BY <1>a, <1>6, ReplaceSettled
<1>7. ASSUME NEW l, NEW symbol, DirectoryMessage(l, symbol) PROVE Settled
  <2>1. /\ UNCHANGED <<os, books, wanted, unread>> /\ rows'.messages = <<>>
        /\ wanted = {} \/ LiveRefs = {}
    BY <1>7 DEF DirectoryMessage, DirectoryInTime, OnStockDirectory, NoRows
  <2> QED BY <1>a, <2>1, RestSettled
<1>8. ASSUME NEW l, NEW now, ActionMessage(l, now) \/ OperationalHaltMessage(l, now)
      PROVE  Settled
  <2>1. UNCHANGED <<os, books, wanted, unread, selected>> /\ rows'.messages = <<>>
    BY <1>8 DEF ActionMessage, OnTradingAction, OperationalHaltMessage, EmitHalt, NoRows
  <2> QED BY <1>a, <2>1, RestSettled
<1>9. ASSUME NEW source, NEW l, NEW price, NEW shares, TradeMessage(source, l, price, shares)
      PROVE  Settled
  <2>1. UNCHANGED <<os, books, wanted, unread, selected>> /\ rows'.messages = <<>>
    BY <1>9 DEF TradeMessage, OnPrint, NoRows
  <2> QED BY <1>a, <2>1, RestSettled
<1> QED BY <1>a, <1>b, <1>1, <1>2, <1>3, <1>4, <1>5, <1>6, <1>7, <1>8, <1>9

\* No order rests: nothing needs to be remembered.
LEMMA InitLInv ==
  ASSUME LInit
  PROVE  LInv
<1>1. SInv /\ SInit
  BY InitSInv DEF LInit
<1>2. \A r \in AllRefs : OrderAt(Now, r) = Absent
  BY <1>1 DEF SInit, Init, NoOrder, Nil, OrderAt, Now
<1>3. Remembered
  BY <1>2 DEF Remembered, Knows
<1>4. OursTyped
  BY DEF LInit, OursTyped
<1> QED BY <1>1, <1>3, <1>4 DEF LInv

\* What an exporter remembers of every order on a selected book is right, unless the
\* add of the order bore the side N and no replace has rested it anew.
THEOREM ExporterInvariant == LSpec => []LInv
<1>1. LInit => LInv
  BY InitLInv
<1>2. LInv /\ [LNext]_lobsterState => LInv'
  <2> SUFFICES ASSUME LInv, [LNext]_lobsterState PROVE LInv'
    OBVIOUS
  <2>1. CASE LNext
    <3>1. SInv'
      BY <2>1, StepTells DEF LInv, LNext, SInv, TablesTell
    <3>2. Remembered' /\ OursTyped'
      BY <2>1, StepSettled DEF Settled
    <3> QED BY <3>1, <3>2 DEF LInv
  <2>2. CASE UNCHANGED lobsterState
    <3>1. SInv'
      <4>1. UNCHANGED sessionState
        BY <2>2 DEF lobsterState, sessionState
      <4> QED BY <4>1, StepTells DEF LInv, SInv, TablesTell
    <3>2. UNCHANGED <<os, books, wanted, selected, unread, ours>>
      BY <2>2 DEF lobsterState, lobsterVars, vars, sessionVars
    <3>3. Remembered' /\ OursTyped'
      BY <3>2 DEF LInv, Remembered, OursTyped, Knows, OrderAt, Now
    <3> QED BY <3>1, <3>3 DEF LInv
  <2> QED BY <2>1, <2>2
<1> QED BY <1>1, <1>2, PTL DEF LSpec, lobsterState

\* The message file of a selected symbol is an account of its book: of a message that
\* neither reuses a live reference nor takes more than rests, what the lines with the id
\* of an order add up to is what the message did to the order, and they name the price
\* and the side at which it rests.  Of an order whose add bore the side N nothing is said.
THEOREM LinesAccountHolds == LSpec => LinesAccount
<1>1. LInv /\ [LNext]_lobsterState =>
        [counted' \cap {"dup_ref", "clamped"} = {} =>
           \A l \in Locates, r \in Refs : Accounted(l, r)]_lobsterState
  BY StepSettled DEF Settled
<1>2. LSpec => [][counted' \cap {"dup_ref", "clamped"} = {} =>
                    \A l \in Locates, r \in Refs : Accounted(l, r)]_lobsterState
  BY <1>1, ExporterInvariant, PTL DEF LSpec, lobsterState
<1> QED BY <1>2 DEF LinesAccount, Accounted, lobsterState
=============================================================================
