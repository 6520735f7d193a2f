----------------------------- MODULE PagedStores -----------------------------
(***************************************************************************)
(* The stores with no table of their own side by side under the same       *)
(* handlers, as test/differential_test.cpp gives every store one stream:   *)
(* store is the pooled one, paged the one with orders in its pages, hashed *)
(* the one over std::unordered_map.                                        *)
(***************************************************************************)
EXTENDS PooledOrderStore

ASSUME PagedAssumption ==
  NoPage \notin [slots : [0 .. PageSize - 1 -> Orders \cup {Dead}], live : Nat]

VARIABLES paged, hashed

Paged  == INSTANCE OrderStore WITH store <- paged
Hashed == INSTANCE HashOrderStore WITH store <- hashed

AllInit == Init /\ Paged!Init /\ Hashed!Init

AllNext ==
  \/ \E ref \in Refs, o \in Orders : \E near \in Beside(ref) :
       OnAdd(ref, o, near) /\ Paged!OnAdd(ref, o, near) /\ Hashed!OnAdd(ref, o, near)
  \/ \E ref \in AllRefs, o \in Orders :
       OnReduce(ref, o) /\ Paged!OnReduce(ref, o) /\ Hashed!OnReduce(ref, o)
  \/ \E ref \in AllRefs : \E near \in Beside(ref) :
       OnDelete(ref, near) /\ Paged!OnDelete(ref, near) /\ Hashed!OnDelete(ref, near)
  \/ \E old \in AllRefs, new \in AllRefs, o \in Orders \cup {Dead} : \E near \in Beside(old) :
       /\ o # Dead => new \in Refs
       /\ OnReplace(old, new, o, near)
       /\ Paged!OnReplace(old, new, o, near) /\ Hashed!OnReplace(old, new, o, near)
  \/ \E n \in Hints : Reserve(n) /\ Paged!Reserve(n) /\ Hashed!Reserve(n)

AllSpec == AllInit /\ [][AllNext]_<<store, paged, hashed>>

-----------------------------------------------------------------------------
(* Correctness.                                                            *)

\* Whatever the handlers do, the three stores find the same order under every
\* reference and count as live what they find; the two with pages have the same
\* pages, resident and waiting.
StoresAgree ==
  LET live == Cardinality({r \in Refs : Holds(store, r)})
  IN /\ \A r \in AllRefs : /\ Paged!Find(paged, r) = Find(store, r)
                           /\ Hashed!Find(hashed, r) = Find(store, r)
     /\ {LiveOrders(store), Paged!LiveOrders(paged), Hashed!LiveOrders(hashed)} = {live}
     /\ \A p \in PageNumbers :
          /\ p \in Paged!Resident(paged) <=> p \in Resident(store)
          /\ p \in Resident(store) => paged.pages[p].live = store.pages[p].live
     /\ Len(paged.spare) = store.spare
=============================================================================
