----------------------------- MODULE StreamParser -----------------------------
(***************************************************************************)
(* Parsing (include/itch/parser.hpp) and reassembly                        *)
(* (include/itch/stream.hpp): a feed of length-prefixed frames arrives in  *)
(* chunks cut anywhere, inside a length prefix too.  Whole frames are      *)
(* parsed where they lie, a partial tail waits in pending for the next     *)
(* chunk.                                                                  *)
(*                                                                         *)
(* A callback is the bytes of its message, or the type alone for the       *)
(* catch-all.  What the handlers make of it is the business of Tables,     *)
(* Session and BookManager.                                                *)
(***************************************************************************)
EXTENDS Wire, Integers

CONSTANTS
  Handled,     \* the types the handler has a callback for
  PassedOn,    \* the types that go to on_other() when they have none
  CatchAll     \* whether the handler has on_other()

ASSUME HandledAssumption ==
  Handled \cup PassedOn \subseteq DOMAIN WireLengths /\ CatchAll \in BOOLEAN

VARIABLES
  stream,    \* the bytes of the session
  fed,       \* how many of them have been fed
  pending,   \* pending_
  result,    \* r_
  calls      \* the callbacks the handler has received, in order

parserVars == <<stream, fed, pending, result, calls>>

-----------------------------------------------------------------------------
(* One pass over a buffer.                                                 *)

NoResult == [consumed |-> 0, messages |-> 0, unknown |-> 0, malformed |-> 0,
             end |-> FALSE, calls |-> <<>>]

\* The mark of the end.
Ending == [consumed |-> 2, messages |-> 0, unknown |-> 0, malformed |-> 0,
           end |-> TRUE, calls |-> <<>>]

\* accumulate(): of two passes, the second after the first.
Plus(r, s) ==
  [consumed |-> r.consumed + s.consumed, messages |-> r.messages + s.messages,
   unknown |-> r.unknown + s.unknown, malformed |-> r.malformed + s.malformed,
   end |-> r.end \/ s.end, calls |-> r.calls \o s.calls]

\* dispatch(): a callback of its own, or the catch-all, or nothing.
Dispatch(m) ==
  IF Head(m) \in Handled THEN <<m>>
  ELSE IF Head(m) \in PassedOn /\ CatchAll THEN << <<Head(m)>> >>
  ELSE <<>>

\* What a frame counts as.
Frame(m) ==
  LET known == Head(m) \in DOMAIN WireLengths
      right == known /\ WireLengths[Head(m)] = Len(m)
  IN [consumed |-> 2 + Len(m), messages |-> IF right THEN 1 ELSE 0,
      unknown |-> IF known THEN 0 ELSE 1, malformed |-> IF known /\ ~right THEN 1 ELSE 0,
      end |-> FALSE, calls |-> IF right THEN Dispatch(m) ELSE <<>>]

\* parse(): frame after frame, to the mark of the end or the last whole frame.
Parse(bytes) ==
  LET n == Len(bytes)
      From[pos \in 0 .. n] ==
        IF n - pos < 2 THEN NoResult
        ELSE LET len == Value(U16(bytes, pos))
             IN IF len = 0 THEN Ending
                ELSE IF len > n - pos - 2 THEN NoResult
                ELSE Plus(Frame(SubSeq(bytes, pos + 3, pos + 2 + len)), From[pos + 2 + len])
  IN From[0]

-----------------------------------------------------------------------------
(* Reassembly.                                                             *)

\* pending_need(): to the end of the length prefix, then to the end of the frame.
PendingNeed(p) == IF Len(p) < 2 THEN 2 - Len(p) ELSE 2 + Value(U16(p, 0)) - Len(p)

\* Mutant of Fill: the completed frame stays in the buffer.
FillKeeping(s) ==
  LET take == IF PendingNeed(s.pending) < Len(s.rest) THEN PendingNeed(s.pending) ELSE Len(s.rest)
      p    == s.pending \o SubSeq(s.rest, 1, take)
      left == SubSeq(s.rest, take + 1, Len(s.rest))
  IN IF PendingNeed(p) = 0 THEN [pending |-> p, rest |-> left, r |-> Plus(s.r, Parse(p))]
                           ELSE [pending |-> p, rest |-> left, r |-> s.r]

\* One round of the loop: take what pending lacks, and parse the frame it completes.
Fill(s) ==
  LET take == IF PendingNeed(s.pending) < Len(s.rest) THEN PendingNeed(s.pending) ELSE Len(s.rest)
      p    == s.pending \o SubSeq(s.rest, 1, take)
      left == SubSeq(s.rest, take + 1, Len(s.rest))
  IN IF PendingNeed(p) = 0 THEN [pending |-> <<>>, rest |-> left, r |-> Plus(s.r, Parse(p))]
                           ELSE [pending |-> p, rest |-> left, r |-> s.r]

\* The second byte of a length prefix, then the rest of the frame: two rounds at most.
Filled(s) ==
  LET Round(u) == IF u.rest = <<>> \/ u.pending = <<>> \/ u.r.end THEN u ELSE Fill(u)
  IN Round(Round(s))

\* Mutant of Bulk: what follows the end of the session is kept.
BulkPastEnd(s) ==
  LET bulk == Parse(s.rest)
      tail == SubSeq(s.rest, bulk.consumed + 1, Len(s.rest))
  IN [pending |-> s.pending \o tail, rest |-> <<>>, r |-> Plus(s.r, bulk)]

\* The rest of the chunk in place, and its partial tail into pending.
Bulk(s) ==
  LET bulk == Parse(s.rest)
      tail == SubSeq(s.rest, bulk.consumed + 1, Len(s.rest))
  IN [pending |-> IF bulk.end THEN s.pending ELSE s.pending \o tail,
      rest |-> <<>>, r |-> Plus(s.r, bulk)]

\* feed(): nothing is taken after the end of the session.
Feed(n) ==
  LET s == Filled([pending |-> pending, rest |-> SubSeq(stream, fed + 1, fed + n),
                   r |-> [result EXCEPT !.calls = calls]])
      t == IF result.end \/ s.r.end THEN s ELSE Bulk(s)
  IN /\ fed + n <= Len(stream)
     /\ fed'     = fed + n
     /\ pending' = IF result.end THEN pending ELSE t.pending
     /\ result'  = IF result.end THEN result ELSE [t.r EXCEPT !.calls = <<>>]
     /\ calls'   = IF result.end THEN calls ELSE t.r.calls
     /\ UNCHANGED stream

\* Before the first chunk; who sends the stream says what it is.
Init == fed = 0 /\ pending = <<>> /\ result = NoResult /\ calls = <<>>

-----------------------------------------------------------------------------
(* Correctness.                                                            *)

\* However the stream is cut, the handler has received the callbacks one pass over
\* everything fed so far would have made, and the counters are that pass's (README:
\* frames "that arrive split across arbitrary chunk boundaries").
ChunkingInvisible ==
  LET whole == Parse(SubSeq(stream, 1, fed))
  IN [result EXCEPT !.calls = calls] = whole

\* No byte is lost or held twice: until the end of the session, pending is what no
\* pass has consumed, a part of one frame and never a whole one ("the buffer is
\* bounded by one frame", stream.hpp:13-15).
PendingIsTail ==
  IF result.end THEN pending = <<>>
  ELSE /\ pending = SubSeq(stream, result.consumed + 1, fed)
       /\ pending = <<>> \/ PendingNeed(pending) > 0
=============================================================================
