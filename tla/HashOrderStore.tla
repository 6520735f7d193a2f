---------------------------- MODULE HashOrderStore ----------------------------
(***************************************************************************)
(* The store over std::unordered_map (include/itch/order_store.hpp, class  *)
(* HashOrderStore), the baseline of the benchmarks.  A store is a function *)
(* on the references that have an entry, dead or alive.                    *)
(***************************************************************************)
EXTENDS Naturals, FiniteSets

CONSTANTS Refs, NilRef, Orders, Dead, Hints   \* as in StoreClient

Find(t, ref) == IF ref \in DOMAIN t THEN t[ref] ELSE Dead

\* Entries of an unordered_map stay where they are until they are erased.
At(t, ref) == ref
Read(t, ref) == t[ref]
Write(t, ref, o) == [t EXCEPT ![ref] = o]

\* operator[] makes an entry with a default order.
Touch(t, ref) == [r \in DOMAIN t \cup {ref} |-> Find(t, r)]

NoteLive(t, ref) == t

\* Mutant of NoteDead: the entry stays, and live_orders() counts it.
NoteDeadStaying(t, ref) == t
NoteDead(t, ref) == [r \in DOMAIN t \ {ref} |-> t[r]]

\* There is nothing to reserve: the constructor does.
Reserved(t, n) == t

LiveOrders(t) == Cardinality(DOMAIN t)

Empties == {[r \in {} |-> Dead]}

VARIABLE store

INSTANCE StoreClient
=============================================================================
