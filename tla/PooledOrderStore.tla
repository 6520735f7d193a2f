--------------------------- MODULE PooledOrderStore ---------------------------
(***************************************************************************)
(* The default store (include/itch/order_store.hpp, class                  *)
(* PooledOrderStore): pages of handles, indexed by reference, into one     *)
(* recycled pool of orders.  A store is a value                            *)
(*   [pages: page number -> page or NoPage, spare: how many pages wait,    *)
(*    pool: the orders, by handle from 1, free: the handles given back]    *)
(* A spare page is cleared when it is taken, so only their number counts.  *)
(***************************************************************************)
EXTENDS StorePages

Nil == 0          \* kNil

PageRecords == [slots : [0 .. PageSize - 1 -> Nat], live : Nat]

ASSUME NoPageAssumption == NoPage \notin PageRecords

FreshPage == [slots |-> [i \in 0 .. PageSize - 1 |-> Nil], live |-> 0]

HandleOf(t, ref) ==
  IF PageOf(ref) \in Resident(t) THEN t.pages[PageOf(ref)].slots[SlotOf(ref)] ELSE Nil

-----------------------------------------------------------------------------
(* The store interface.                                                    *)

Find(t, ref) == IF HandleOf(t, ref) = Nil THEN Dead ELSE t.pool[HandleOf(t, ref)]

At(t, ref) == HandleOf(t, ref)
Read(t, h) == t.pool[h]
Write(t, h, o) == [t EXCEPT !.pool[h] = o]

WithHandle(t, ref, h) ==
  WithPage(t, PageOf(ref), [t.pages[PageOf(ref)] EXCEPT !.slots[SlotOf(ref)] = h])

TakePage(t, p) == [WithPage(t, p, FreshPage) EXCEPT !.spare = IF @ = 0 THEN 0 ELSE @ - 1]

\* Mutant of TakeHandle: the handle is used and not taken off the freelist.
TakeHandleKeeping(t) ==
  IF t.free = <<>>
    THEN [h |-> Len(t.pool) + 1, store |-> [t EXCEPT !.pool = Append(@, Dead)]]
    ELSE [h |-> Sq!Last(t.free), store |-> Write(t, Sq!Last(t.free), Dead)]

\* A handle from the freelist, last given back first, before the pool grows; the
\* order behind it is dead.
TakeHandle(t) ==
  IF t.free = <<>>
    THEN [h |-> Len(t.pool) + 1, store |-> [t EXCEPT !.pool = Append(@, Dead)]]
    ELSE [h |-> Sq!Last(t.free),
          store |-> [Write(t, Sq!Last(t.free), Dead) EXCEPT !.free = Sq!Front(@)]]

Touch(t, ref) ==
  LET p    == PageOf(ref)
      u    == IF p \in Resident(t) THEN t ELSE TakePage(t, p)
      took == TakeHandle(u)
  IN IF HandleOf(u, ref) # Nil THEN u
     ELSE WithHandle(took.store, ref, took.h)

NoteLive(t, ref) == WithLive(t, PageOf(ref), t.pages[PageOf(ref)].live + 1)

\* Mutants of NoteDead: the handle stays in its slot, or the page is not given back
\* with its last order.
NoteDeadKeeping(t, ref) ==
  LET p == PageOf(ref)
      u == [t EXCEPT !.free = Append(@, HandleOf(t, ref))]
  IN IF t.pages[p].live = 1
       THEN [WithPage(u, p, NoPage) EXCEPT !.spare = @ + 1]
       ELSE WithLive(u, p, t.pages[p].live - 1)

NoteDeadResident(t, ref) ==
  LET p == PageOf(ref)
      u == [t EXCEPT !.free = Append(@, HandleOf(t, ref))]
  IN WithLive(WithHandle(u, ref, Nil), p, t.pages[p].live - 1)

\* The handle goes back, and with its last order the page too.
NoteDead(t, ref) ==
  LET p == PageOf(ref)
      u == [t EXCEPT !.free = Append(@, HandleOf(t, ref))]
  IN IF t.pages[p].live = 1
       THEN [WithPage(u, p, NoPage) EXCEPT !.spare = @ + 1]
       ELSE WithLive(WithHandle(u, ref, Nil), p, t.pages[p].live - 1)

\* reserve() fills the spare list up to its hint.
Reserved(t, n) == [t EXCEPT !.spare = IF @ < n THEN n ELSE @]

LiveOrders(t) == Len(t.pool) - Len(t.free)

Empties ==
  {[pages |-> [p \in PageNumbers |-> NoPage], spare |-> 0, pool |-> <<>>, free |-> <<>>]}

VARIABLE store

INSTANCE StoreClient

-----------------------------------------------------------------------------
(* Correctness.                                                            *)

\* Every handle of the pool is in one slot of one page or on the freelist, never
\* both and never twice: no two references share an order, none leaks.
HandlesOnce ==
  LET held == {r \in AllRefs : HandleOf(store, r) # Nil}
      free == {store.free[i] : i \in DOMAIN store.free}
  IN /\ \A r, s \in held : HandleOf(store, r) = HandleOf(store, s) => r = s
     /\ Cardinality(free) = Len(store.free)
     /\ {HandleOf(store, r) : r \in held} \cap free = {}
     /\ {HandleOf(store, r) : r \in held} \cup free = 1 .. Len(store.pool)

\* README ("a page is freed to a spare list the moment its last order dies"): a
\* page is resident exactly while it has an order, and counts them.
PagesWorked ==
  \A p \in PageNumbers :
    LET on == {r \in Refs : PageOf(r) = p /\ Holds(store, r)}
    IN IF p \in Resident(store) THEN on # {} /\ store.pages[p].live = Cardinality(on)
                                ELSE on = {}
=============================================================================
