-------------------------- MODULE FlatHashOrderStore --------------------------
(***************************************************************************)
(* The open-addressing store (include/itch/order_store.hpp, class          *)
(* FlatHashOrderStore): linear probing, growth at 70% load, deletion by    *)
(* shifting entries back.  A table is a value                              *)
(*   [slots: a function on 0 .. cap - 1, size, hash]                       *)
(* The hash of a reference is drawn at the start from all functions: the   *)
(* probing must be right for any of them, not for the multiplier in use.   *)
(***************************************************************************)
EXTENDS Integers, FiniteSets, Sequences

CONSTANTS
  Refs, NilRef, Orders, Dead, Hints,   \* as in StoreClient
  Caps,                                \* the capacities of a table, powers of two
  InitialCap,                          \* the capacity of a new table
  MaxCap                               \* bound: no table grows beyond

\* Capacities double up to the largest, which has room for every reference and is as
\* much as anyone reserves.
ASSUME CapAssumption ==
  /\ {InitialCap, MaxCap} \subseteq Caps /\ Caps \subseteq 2 .. MaxCap
  /\ \A c \in Caps \ {MaxCap} : 2 * c \in Caps
  /\ \A c \in Caps : MaxCap % c = 0
  /\ IsFiniteSet(Refs) /\ 10 * Cardinality(Refs) < 7 * MaxCap
  /\ \A n \in Hints : n \in Nat /\ 10 * n < 7 * MaxCap
  /\ NilRef \notin Refs /\ Dead \notin Orders

EmptySlot == [ref |-> NilRef, o |-> Dead]
Blank(cap) == [i \in 0 .. cap - 1 |-> EmptySlot]

\* Table t with other slots, and another number of entries.
Refilled(t, slots, size) == [slots |-> slots, size |-> size, hash |-> t.hash]

Cap(t) == Cardinality(DOMAIN t.slots)

\* home(): the top bits of the hash, as many as the capacity has; kNilRef is zero
\* and hashes to zero.
HomeAt(hash, cap, ref) == IF ref = NilRef THEN 0 ELSE hash[ref] \div (MaxCap \div cap)
Home(t, ref) == HomeAt(t.hash, Cap(t), ref)

\* From slot i on, around the end, the first slot that holds one of the references.
FirstFrom(slots, cap, i, refs) ==
  LET d == CHOOSE d \in 0 .. cap - 1 :
             /\ slots[(i + d) % cap].ref \in refs
             /\ \A e \in 0 .. d - 1 : slots[(i + e) % cap].ref \notin refs
  IN (i + d) % cap

\* probe(): the slot of the reference, or the empty one it would take.
Probe(t, ref) == FirstFrom(t.slots, Cap(t), Home(t, ref), {ref, NilRef})

-----------------------------------------------------------------------------
(* Growth and deletion.                                                    *)

\* rehash(): the old entries in slot order, each at the first free slot from home.
Rehash(t, cap) ==
  LET Placed(slots, e) ==
        [slots EXCEPT ![FirstFrom(slots, cap, HomeAt(t.hash, cap, e.ref), {NilRef})] = e]
      Moved[n \in 0 .. Cap(t)] ==
        IF n = 0 THEN Blank(cap)
        ELSE IF t.slots[n - 1].ref = NilRef THEN Moved[n - 1]
        ELSE Placed(Moved[n - 1], t.slots[n - 1])
  IN [t EXCEPT !.slots = Moved[Cap(t)]]

\* Mutant of Erase: the slot is emptied and nothing moves up.
EraseInPlace(t, i) == [t EXCEPT !.slots[i] = EmptySlot, !.size = @ - 1]

\* erase(): up to the next empty slot, an entry moves into the hole unless that
\* would take it before its home; its own slot is then the hole.
Shifted(t, i) ==
  LET cap  == Cap(t)
      run  == (FirstFrom(t.slots, cap, (i + 1) % cap, {NilRef}) - i - 1) % cap
      Step(s, j) ==
        IF (j - Home(t, t.slots[j].ref)) % cap >= (j - s.hole) % cap
          THEN [slots |-> [s.slots EXCEPT ![s.hole] = t.slots[j]], hole |-> j]
          ELSE s
      Moved[d \in 0 .. run] ==
        IF d = 0 THEN [slots |-> t.slots, hole |-> i]
        ELSE Step(Moved[d - 1], (i + d) % cap)
  IN Moved[run]

\* Mutant of Erase: the slot left over keeps its order.
EraseGhost(t, i) ==
  LET s == Shifted(t, i)
  IN [t EXCEPT !.slots = [s.slots EXCEPT ![s.hole].ref = NilRef], !.size = @ - 1]

Erase(t, i) ==
  LET s == Shifted(t, i)
  IN Refilled(t, [s.slots EXCEPT ![s.hole] = EmptySlot], t.size - 1)

-----------------------------------------------------------------------------
(* The store interface.                                                    *)

At(t, ref) == Probe(t, ref)
Read(t, i) == t.slots[i].o
Write(t, i, o) == [t EXCEPT !.slots[i].o = o]

Find(t, ref) ==
  LET s == t.slots[Probe(t, ref)] IN IF s.ref = ref THEN s.o ELSE Dead

\* Whether a touch of a fresh reference doubles the table; the mutant counts the
\* entries that are there and not the one that comes.
GrowsLate(t) == t.size * 10 >= Cap(t) * 7
Grows(t) == (t.size + 1) * 10 >= Cap(t) * 7

Touch(t, ref) ==
  IF t.slots[Probe(t, ref)].ref = ref THEN t
  ELSE LET u == IF Grows(t) THEN Rehash(t, 2 * Cap(t)) ELSE t
           slots == [u.slots EXCEPT ![Probe(u, ref)] = [ref |-> ref, o |-> Dead]]
       IN Refilled(u, slots, u.size + 1)

NoteLive(t, ref) == t
NoteDead(t, ref) == Erase(t, Probe(t, ref))

Reserved(t, n) ==
  LET enough == {c \in Caps : c >= Cap(t) /\ n * 10 < c * 7}
      want   == CHOOSE c \in enough : \A d \in enough : c <= d
  IN IF want > Cap(t) THEN Rehash(t, want) ELSE t

LiveOrders(t) == t.size

Empties ==
  {[slots |-> Blank(InitialCap), size |-> 0, hash |-> h] : h \in [Refs -> 0 .. MaxCap - 1]}

VARIABLE store

INSTANCE StoreClient

-----------------------------------------------------------------------------
(* Correctness.                                                            *)

\* Every entry is found from its home: no deletion or growth leaves an empty slot
\* between an entry and its home, at the end of the array included.
ChainsWhole ==
  \A i \in DOMAIN store.slots :
    store.slots[i].ref # NilRef => Probe(store, store.slots[i].ref) = i

\* The table is never full past its load limit, so every probe and every shift
\* meets an empty slot and ends; size_, which the limit is taken from, counts the
\* entries, and every entry is an order find() finds.
LoadBounded ==
  /\ store.size * 10 < Cap(store) * 7
  /\ LiveOrders(store) = Cardinality({i \in DOMAIN store.slots : store.slots[i].ref # NilRef})
  /\ LiveOrders(store) = Cardinality({r \in Refs : Holds(store, r)})
=============================================================================
