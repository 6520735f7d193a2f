---------------------------- MODULE MCBookManager ----------------------------
(* BookManager on small sets of references, locates, prices and sizes.     *)
EXTENDS BookRefinement, TLC

\* References only name orders: none is told from another.
RefSymmetry == Permutations(Refs)

\* A level on the freelist is blank before anything reads it again.
Readable ==
  [l \in Locates |->
     LET free == {books[l].free[i] : i \in DOMAIN books[l].free}
     IN <<books[l].side, books[l].free,
          [h \in Handles(books[l]) \ free |-> books[l].levels[h]]>>]

\* What decides what follows in the books: no handler reads the counters, the
\* print, the symbols, the trading states or the book evicted from, and the tops
\* remembered while tracking is off are reset before they are read.
Lasting == <<os, Readable, count, IF track THEN last ELSE Blank, track, ahead>>
=============================================================================
