--------------------------- MODULE MCDifferential ---------------------------
(* Differential on small sets of references, locates, prices and sizes.    *)
EXTENDS Differential, MCBookManager

\* What decides what follows in both books; the queues' order is not compared.
LastingPair == <<os, Readable, refOrders, refLevels>>
=============================================================================
