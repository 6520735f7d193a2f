------------------------------ MODULE MCSession ------------------------------
(* A session and its readers on small sets of references, locates, prices and sizes. *)
EXTENDS Lobster, MCBookManager

\* Every symbol, or the ones there are.
AllOrSome == {{}, Symbols}

\* The states of a trading action or an operational halt.
HaltStates == {"H", "Q"}

\* What a reader keeps of an order he was told of matters while it rests on a
\* selected book: a row of it names that book, and one that rests it anew rewrites it.
Told == {r \in LiveRefs \ unread : Selected(os[r].locate)}

\* What decides what follows: the books, the tables' own memory, and what the readers
\* keep of the orders they were told of and, with every symbol selected, of the dead.
LastingTables ==
  <<os, Readable, count, wanted, selected, shown, unread,
    [r \in Told |-> <<copy[r], ours[os[r].locate][r]>>],
    [r \in IF wanted = {} THEN AllRefs \ LiveRefs ELSE {} |-> copy[r]]>>
=============================================================================
