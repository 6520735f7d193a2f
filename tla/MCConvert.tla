------------------------------ MODULE MCConvert -------------------------------
(***************************************************************************)
(* The runs TLC looks at: two tables to choose from, and the events table  *)
(* that is written last.                                                   *)
(***************************************************************************)
EXTENDS Convert

CONSTANTS trades, bbo, events

AllTables   == {trades, bbo, events}
EitherOrder == {<<trades>>, <<bbo, trades>>}
EventsLast  == <<events>>
=============================================================================
