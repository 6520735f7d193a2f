------------------------------ MODULE StorePages ------------------------------
(***************************************************************************)
(* What the two paged stores of include/itch/order_store.hpp share: a      *)
(* reference is a number that names a page and a slot on it.               *)
(***************************************************************************)
EXTENDS Integers, FiniteSets, Sequences

CONSTANTS
  Refs, NilRef, Orders, Dead, Hints,   \* as in StoreClient; references are numbers
  PageSize,                            \* kPageSize
  NoPage                               \* a page that is not there

ASSUME PageAssumption ==
  /\ PageSize \in Nat \ {0} /\ NilRef \in Nat
  /\ Refs \subseteq Nat /\ IsFiniteSet(Refs) /\ Hints \subseteq Nat
  /\ Dead \notin Orders

Sq == INSTANCE SequencesExt

PageOf(ref)  == ref \div PageSize
SlotOf(ref)  == ref % PageSize
PageNumbers  == {PageOf(r) : r \in Refs \cup {NilRef}}
Resident(t)  == {p \in PageNumbers : t.pages[p] # NoPage}

WithPage(t, p, page) == [t EXCEPT !.pages[p] = page]
WithLive(t, p, n)    == WithPage(t, p, [t.pages[p] EXCEPT !.live = n])
=============================================================================
