-------------------------------- MODULE Tables --------------------------------
(***************************************************************************)
(* The tables of a session (python/src/module.cpp, class Session) as       *)
(* batches take them: every message is stamped with a sequence number,     *)
(* leaves its row in the tables that are on if its book is selected, and   *)
(* is handed out once.  A session is one value, and its operations are     *)
(* functions of it.                                                        *)
(*                                                                         *)
(* The tables are those whose rows a message makes by itself.  bbo and     *)
(* depth follow the books, and the row of an execution or a cancel the     *)
(* order at rest: they are in Session, and the feeds here hold no message  *)
(* whose row depends on an order of an earlier one.                        *)
(***************************************************************************)
EXTENDS Wire

Fs == INSTANCE FiniteSetsExt

\* Which messages leave a row in which table.
TypesOf ==
  [messages      |-> OrderTypes,
   trades        |-> {"P", "Q", "B"},
   noii          |-> {"I"},
   halts         |-> {"H", "h"},
   reg_sho       |-> {"Y"},
   luld          |-> {"J"},
   system_events |-> {"S"},
   symbols       |-> {"R"}]

\* The tables with a switch; the last two are always kept.
CoreTables == DOMAIN TypesOf \ {"system_events", "symbols"}

\* rows() counts the tables that may grow fast, and not the rest.
Counted == {"messages", "trades", "noii"}

-----------------------------------------------------------------------------
(* Sequence numbers, the selection, the attributions.                      *)

\* Id 0 of an attribution is that of none.
Opened(tables, wanted) ==
  [on |-> tables, wanted |-> wanted, selected |-> {}, seq |-> 0,
   mpids |-> << <<>> >>, ids |-> << >>, cols |-> [t \in DOMAIN TypesOf |-> <<>>]]

Stamped(s) == [s EXCEPT !.seq = @ + 1]

\* selected()
Selected(s, locate) == s.wanted = {} \/ locate \in s.selected

\* select_locate(): wanted_ holds names padded to eight, as they are on the wire.
SelectLocate(s, msg) ==
  IF msg.body.stock \in s.wanted THEN [s EXCEPT !.selected = @ \cup {msg.hdr.locate}] ELSE s

\* mpid_id(): an id for an attribution never seen, the place of its name in mpids_.
WithMpid(s, mpid) ==
  IF mpid \in DOMAIN s.ids THEN s
  ELSE [s EXCEPT !.ids = [k \in DOMAIN @ \cup {mpid} |->
                            IF k = mpid THEN Len(s.mpids) ELSE s.ids[k]],
                 !.mpids = Append(@, View(mpid))]

\* The list and its ids grow before the filter is asked: an argument of emit_message().
Noted(s, msg) ==
  IF msg.type = "F" /\ "messages" \in s.on THEN WithMpid(s, msg.body.mpid) ELSE s

MpidId(s, msg) ==
  IF msg.type = "F" /\ "messages" \in s.on THEN s.ids[msg.body.mpid] ELSE 0

-----------------------------------------------------------------------------
(* The handlers.                                                           *)

\* The row of a message: its columns are fields of the message and these two.
Row(s, msg) == [seq |-> s.seq, of |-> msg, mpid |-> MpidId(s, msg)]

\* What on_reg_sho(), on_luld_collar() and the emit functions ask before they push.
Emits(s, t, msg) ==
  /\ msg.type \in TypesOf[t]
  /\ t \in CoreTables => t \in s.on /\ Selected(s, msg.hdr.locate)

Emitted(s, msg) ==
  [s EXCEPT !.cols = [t \in DOMAIN @ |->
                        IF Emits(s, t, msg) THEN Append(@[t], Row(s, msg)) ELSE @[t]]]

\* A directory message may select its own locate.
Chosen(s, msg) == IF msg.type = "R" THEN SelectLocate(s, msg) ELSE s

\* A callback: on_other() only counts.
Received(s, call) ==
  IF Len(call) = 1 THEN Stamped(s)
  ELSE LET msg == Decoded(call)
           n   == Noted(Chosen(Stamped(s), msg), msg)
       IN Emitted(n, msg)

-----------------------------------------------------------------------------
(* Handing out.                                                            *)

Rows(s) == Fs!Max({Len(s.cols[t]) : t \in Counted})

\* Mutant of Taken: the directory is handed out and kept.
TakenButSymbols(s, tables) ==
  [s EXCEPT !.cols = [t \in DOMAIN @ |-> IF t \in tables \ {"symbols"} THEN <<>> ELSE @[t]]]

\* take_all() and take_symbols() leave the columns they moved empty.
Taken(s, tables) == [s EXCEPT !.cols = [t \in DOMAIN @ |-> IF t \in tables THEN <<>> ELSE @[t]]]
=============================================================================
