----------------------------- MODULE StoreClient -----------------------------
(***************************************************************************)
(* How the book and its manager use an order store (include/itch/book.hpp, *)
(* book_manager.hpp): every handler as the calls it makes on the store, in *)
(* order, with each C++ reference to an order as the address it was taken  *)
(* at.  A handler that keeps an address the store has moved an order away  *)
(* from reads and writes the wrong order, or none.                         *)
(*                                                                         *)
(* The store is a parameter: a value, and the operators that stand for its *)
(* member functions.  An order is what it says, or Dead (level = kNil).    *)
(***************************************************************************)
EXTENDS Naturals, FiniteSets

CONSTANTS
  Refs,             \* the references the manager accepts
  NilRef,           \* kNilRef
  Orders,           \* what a live order may say
  Dead,             \* an order whose level is kNil
  Hints,            \* the arguments reserve() is called with
  Empties,          \* the stores a manager may start with
  Find(_, _),       \* Find(t, ref): the order find() returns, Dead for nullptr
  At(_, _),         \* At(t, ref): the address find() and touch() return
  Read(_, _),       \* Read(t, at), Write(t, at, o): through a held reference
  Write(_, _, _),
  Touch(_, _),      \* Touch(t, ref): the store after touch(ref)
  NoteLive(_, _),
  NoteDead(_, _),
  Reserved(_, _)

VARIABLE store

AllRefs == Refs \cup {NilRef}

Holds(t, ref) == Find(t, ref) # Dead

-----------------------------------------------------------------------------
(* The book's part of a handler.                                           *)

\* The links of a neighbour are rewritten under touch(), while the reference to
\* the order itself is held.
Relinked(t, near) == IF near # NilRef /\ Holds(t, near) THEN Touch(t, near) ELSE t

\* Book::add and Book::remove, on the order at the address the caller holds.
Add(t, ref, at, o, near) == NoteLive(Relinked(Write(t, at, o), near), ref)
Remove(t, ref, at, near) == NoteDead(Write(Relinked(t, near), at, Dead), ref)

-----------------------------------------------------------------------------
(* The handlers.  near is the order next to the one added or removed.      *)

Beside(ref) == {NilRef} \cup {r \in Refs \ {ref} : Holds(store, r)}

\* Touched again after an eviction, which may have given the place away.
OnAdd(ref, o, near) ==
  LET t   == Touch(store, ref)
      dup == Read(t, At(t, ref)) # Dead
      u   == IF dup THEN Touch(Remove(t, ref, At(t, ref), near), ref) ELSE t
  IN store' = Add(u, ref, At(u, ref), o, near)

OnReduce(ref, o) ==
  /\ Holds(store, ref)
  /\ store' = Write(store, At(store, ref), o)

OnDelete(ref, near) ==
  /\ Holds(store, ref)
  /\ store' = Remove(store, ref, At(store, ref), near)

\* o = Dead is a replace the manager refuses.
OnReplace(old, new, o, near) ==
  /\ Holds(store, old)
  /\ LET dup == new # old /\ Holds(store, new)
         t   == IF dup THEN Remove(store, new, At(store, new), near) ELSE store
         at  == IF dup THEN At(t, old) ELSE At(store, old)
         u   == Remove(t, old, at, near)
         v   == Touch(u, new)
     IN store' = IF o = Dead THEN u ELSE Add(v, new, At(v, new), o, near)

Reserve(n) == store' = Reserved(store, n)

Init == store \in Empties

Next ==
  \/ \E ref \in Refs, o \in Orders : \E near \in Beside(ref) : OnAdd(ref, o, near)
  \/ \E ref \in AllRefs, o \in Orders : OnReduce(ref, o)
  \/ \E ref \in AllRefs : \E near \in Beside(ref) : OnDelete(ref, near)
  \/ \E old \in AllRefs, new \in Refs, o \in Orders : \E near \in Beside(old) :
       OnReplace(old, new, o, near)
  \/ \E old, new \in AllRefs : \E near \in Beside(old) : OnReplace(old, new, Dead, near)
  \/ \E n \in Hints : Reserve(n)

Spec == Init /\ [][Next]_store

-----------------------------------------------------------------------------
(* Correctness.                                                            *)

Map == INSTANCE OrderMap WITH map <- [r \in AllRefs |-> Find(store, r)]

\* Whatever moves inside the store, a reference finds exactly the order that was
\* put under it, from the add to the removal, and never one under kNilRef: the
\* store contract of order_store.hpp:19-21 and the handlers' care for it.
ImplementsMap == Map!Spec
=============================================================================
