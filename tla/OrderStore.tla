------------------------------ MODULE OrderStore ------------------------------
(***************************************************************************)
(* The paged store (include/itch/order_store.hpp, class OrderStore): the   *)
(* orders lie in the pages themselves, and a reference names page and      *)
(* slot.  A store is a value                                               *)
(*   [pages: page number -> page or NoPage, spare: the pages that wait]    *)
(* A dead order stays in its slot with its level reset, on a spare page    *)
(* too; what a page taken from the spare list shows is what reset() leaves.*)
(***************************************************************************)
EXTENDS StorePages

FreshPage == [slots |-> [i \in 0 .. PageSize - 1 |-> Dead], live |-> 0]

\* reset(): of a page that comes back from the spare list.
Reset(page) == FreshPage

-----------------------------------------------------------------------------
(* The store interface.                                                    *)

Find(t, ref) ==
  IF PageOf(ref) \in Resident(t) THEN t.pages[PageOf(ref)].slots[SlotOf(ref)] ELSE Dead

At(t, ref) == ref
Read(t, ref) == t.pages[PageOf(ref)].slots[SlotOf(ref)]
Write(t, ref, o) ==
  WithPage(t, PageOf(ref), [t.pages[PageOf(ref)] EXCEPT !.slots[SlotOf(ref)] = o])

Touch(t, ref) ==
  LET p == PageOf(ref)
  IN IF p \in Resident(t) THEN t
     ELSE IF t.spare = <<>> THEN WithPage(t, p, FreshPage)
     ELSE [WithPage(t, p, Reset(Sq!Last(t.spare))) EXCEPT !.spare = Sq!Front(t.spare)]

NoteLive(t, ref) == WithLive(t, PageOf(ref), t.pages[PageOf(ref)].live + 1)

\* Mutant of NoteDead: the page goes one order too soon.
NoteDeadEager(t, ref) ==
  LET p == PageOf(ref)
      u == WithLive(t, p, t.pages[p].live - 1)
  IN IF u.pages[p].live > 1 THEN u
     ELSE [WithPage(u, p, NoPage) EXCEPT !.spare = Append(t.spare, u.pages[p])]

NoteDead(t, ref) ==
  LET p == PageOf(ref)
      u == WithLive(t, p, t.pages[p].live - 1)
  IN IF u.pages[p].live > 0 THEN u
     ELSE [WithPage(u, p, NoPage) EXCEPT !.spare = Append(t.spare, u.pages[p])]

Reserved(t, n) ==
  [t EXCEPT !.spare = @ \o [i \in 1 .. n - Len(@) |-> FreshPage]]

LiveOrders(t) == Sq!MapThenSumSet(LAMBDA p : t.pages[p].live, Resident(t))

Empties == {[pages |-> [p \in PageNumbers |-> NoPage], spare |-> <<>>]}

VARIABLE store

INSTANCE StoreClient
=============================================================================
