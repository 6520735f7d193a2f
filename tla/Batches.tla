------------------------------- MODULE Batches -------------------------------
(***************************************************************************)
(* A feed from its bytes to the rows of the files: the parser fed by       *)
(* Feed.batches() (python/itch_book/__init__.py), the session that fills   *)
(* the tables, the batches cut from it, and the convert command that hands *)
(* them to its writer thread with the names of the locates                 *)
(* (python/itch_book/cli.py).  Failures, part files and renames are in     *)
(* Convert, the reader thread is in Feed.                                  *)
(*                                                                         *)
(* batches is a history: every batch as it was handed out.                 *)
(***************************************************************************)
EXTENDS StreamParser, Tables

CONSTANTS
  Days,        \* the feeds there may be: frames, where chunks may end, and what is asked for
  BatchRows,   \* rows: a batch is cut once a table has as many
  QueueSize    \* maxsize of the queue of the writers

\* The bytes of a feed.
StreamOf(d) == Sx!FlattenSeq([i \in DOMAIN d.sent |-> d.sent[i].frame])

ASSUME BatchesAssumption ==
  /\ BatchRows \in Nat \ {0} /\ QueueSize \in Nat \ {0}
  /\ \A d \in Days : StreamOf(d) \in Seq(0 .. 255)

VARIABLES
  day,       \* the feed that was opened
  session,   \* the Session
  batches,   \* the batches handed out
  arrays,    \* the arrays of names there have been, and
  lookup,    \* names.lookup, the last of them
  stage,     \* of the main thread: "feeding", "closing", "closed" or "failed"
  todo,      \* what it has yet to hand to the writer thread
  queue,     \* self.queue
  held,      \* what the writer thread has taken and not written, if anything
  written    \* what it has written

mainVars   == <<batches, arrays, lookup, stage>>
writerVars == <<held, written>>
vars == <<parserVars, day, session, mainVars, todo, queue, writerVars>>

\* batches() is asked for these two besides the tables of the command.
Asked == day.tables \cup {"symbols", "system_events"}

-----------------------------------------------------------------------------
(* Names of locates (class Names), as long as the largest seen.            *)

NoNames == [size |-> 1, names |-> << >>]

NameAt(a, locate) == IF locate \in DOMAIN a.names THEN a.names[locate] ELSE <<>>

Locate(row) == Value(row.of.hdr.locate)
Top(rows) == Fs!Max({Locate(rows[i]) : i \in DOMAIN rows})

\* Of two directory rows of a locate the later one names it.
Named(a, rows) ==
  LET Name(u, row) ==
        [size  |-> IF Locate(row) < u.size THEN u.size ELSE Locate(row) + 1,
         names |-> [l \in DOMAIN u.names \cup {Locate(row)} |->
                      IF l = Locate(row) THEN View(row.of.body.stock) ELSE u.names[l]]]
  IN Sx!FoldLeft(Name, a, rows)

\* Mutant of Update: without the copy, an array that is long enough changes where it is.
UpdateInPlace(rows) ==
  IF rows = <<>> THEN UNCHANGED <<arrays, lookup>>
  ELSE IF Top(rows) < arrays[lookup].size
    THEN arrays' = [arrays EXCEPT ![lookup] = Named(@, rows)] /\ UNCHANGED lookup
    ELSE /\ arrays' = Append(arrays, Named(arrays[lookup], rows))
         /\ lookup' = lookup + 1

\* Names.update(): into a copy, since tables on their way to the file hold the array.
Update(rows) ==
  IF rows = <<>> THEN UNCHANGED <<arrays, lookup>>
  ELSE /\ arrays' = Append(arrays, Named(arrays[lookup], rows))
       /\ lookup' = lookup + 1

-----------------------------------------------------------------------------
(* The main thread.                                                        *)

\* _batch(): every table that was asked for, and the attributions so far.
BatchOf(s) == [cols |-> [t \in Asked |-> s.cols[t]], mpids |-> s.mpids, upto |-> s.seq]

Item(t, rows, array) == [table |-> t, rows |-> rows, array |-> array, batch |-> Len(batches')]

\* The body of the loop: the names first, then table by table to the writer thread.
HandOut(s) ==
  LET b    == BatchOf(s)
      Rest == Sx!SetToSeq(day.tables)
  IN /\ session' = Taken(s, Asked)
     /\ batches' = Append(batches, b)
     /\ Update(b.cols.symbols)
     /\ todo' = [i \in DOMAIN Rest |-> Item(Rest[i], b.cols[Rest[i]], lookup')]

\* What the callbacks of a chunk make of the session.
Fed == Sx!FoldLeft(Received, session, SubSeq(calls', Len(calls) + 1, Len(calls')))

\* A chunk goes in, and a batch is cut if it filled a table.
Read(n) ==
  /\ stage = "feeding" /\ todo = <<>>
  /\ fed + n \in day.cuts
  /\ Feed(n)
  /\ IF Rows(Fed) >= BatchRows
       THEN HandOut(Fed)
       ELSE session' = Fed /\ UNCHANGED <<batches, arrays, lookup, todo>>
  /\ UNCHANGED <<day, stage, queue, writerVars>>

Truncated == result.messages = 0 \/ pending # <<>>

\* The last batch, then the tables kept for the end: events of all the day, and the
\* directory if there was one.
Last ==
  /\ stage = "feeding" /\ todo = <<>> /\ fed = Len(stream) /\ ~Truncated
  /\ stage' = "closing"
  /\ HandOut(session)
  /\ UNCHANGED <<parserVars, day, queue, writerVars>>

All(t) == Sx!FlattenSeq([b \in DOMAIN batches |-> batches[b].cols[t]])

\* Writers.write() of the tables of the end.
AtEnd ==
  /\ stage = "closing" /\ todo = <<>>
  /\ stage' = "closed"
  /\ todo' = << [table |-> "system_events", rows |-> All("system_events"), array |-> lookup,
                 batch |-> Len(batches)] >>
             \o (IF All("symbols") = <<>> THEN <<>>
                 ELSE << [table |-> "symbols", rows |-> All("symbols"), array |-> lookup,
                          batch |-> Len(batches)] >>)
  /\ UNCHANGED <<parserVars, day, session, batches, arrays, lookup, queue, writerVars>>

\* A feed that is no feed, or broken off: abort() lets the writer thread drop the rest.
Fail ==
  /\ stage = "feeding" /\ todo = <<>> /\ fed = Len(stream) /\ Truncated
  /\ stage' = "failed" /\ queue' = <<>>
  /\ UNCHANGED <<parserVars, day, session, batches, arrays, lookup, todo, writerVars>>

\* queue.put() waits for room.
Put ==
  /\ todo # <<>> /\ Len(queue) < QueueSize
  /\ queue' = Append(queue, Head(todo)) /\ todo' = Tail(todo)
  /\ UNCHANGED <<parserVars, day, session, mainVars, writerVars>>

-----------------------------------------------------------------------------
(* The writer thread.                                                      *)

Get ==
  /\ held = <<>> /\ queue # <<>>
  /\ held' = <<Head(queue)>> /\ queue' = Tail(queue)
  /\ UNCHANGED <<parserVars, day, session, mainVars, todo, written>>

\* to_arrow(): the names are looked up now.
Write ==
  /\ held # <<>>
  /\ LET it == Head(held)
     IN written' = Append(written,
          [table |-> it.table, rows |-> it.rows, batch |-> it.batch,
           names |-> [i \in DOMAIN it.rows |-> NameAt(arrays[it.array], Locate(it.rows[i]))]])
  /\ held' = <<>>
  /\ UNCHANGED <<parserVars, day, session, mainVars, todo, queue>>

Done == stage \in {"closed", "failed"} /\ todo = <<>> /\ queue = <<>> /\ held = <<>>

BInit ==
  /\ day \in Days
  /\ stream = StreamOf(day)
  /\ Init
  /\ session = Opened(day.tables, day.wanted)
  /\ batches = <<>> /\ arrays = <<NoNames>> /\ lookup = 1
  /\ stage = "feeding" /\ todo = <<>>
  /\ queue = <<>> /\ held = <<>> /\ written = <<>>

BNext ==
  \/ \E n \in 1 .. Len(stream) : Read(n)
  \/ Last \/ AtEnd \/ Fail \/ Put \/ Get \/ Write
  \/ Done /\ UNCHANGED vars

BSpec == BInit /\ [][BNext]_vars

-----------------------------------------------------------------------------
(* Correctness.                                                            *)

\* The messages whose frames have come whole before the mark of the end, as their
\* sender wrote them.
End == <<0, 0>>
Sent ==
  LET Length(k) == Sx!FoldLeft(LAMBDA n, i : n + Len(i.frame), 0, SubSeq(day.sent, 1, k))
      come == {k \in DOMAIN day.sent :
                 Length(k) <= fed /\ \A j \in 1 .. k : day.sent[j].frame # End}
  IN Sx!FlattenSeq([k \in come |-> day.sent[k].is])

\* Every field of every message reaches its callback as its sender wrote it, however the
\* stream is cut, and no message is left out, made up or out of turn (messages.hpp 47-287
\* against the builder of test/encode.hpp).
DecodedAsSent ==
  Sent = [i \in DOMAIN calls |->
            IF Len(calls[i]) = 1 THEN [type |-> Letter(calls[i][1])] ELSE Decoded(calls[i])]

\* A book is selected from the message on that gives its locate a name that was asked for.
SelectedAt(i) ==
  \/ day.wanted = {}
  \/ \E j \in 1 .. i : /\ Sent[j].type = "R" /\ Sent[j].body.stock \in day.wanted
                       /\ Sent[j].hdr.locate = Sent[i].hdr.locate

\* The rows a table has had to take so far, by the number of their message.
Due(t) ==
  LET due == {i \in DOMAIN Sent : /\ Sent[i].type \in TypesOf[t]
                                  /\ t \in CoreTables => SelectedAt(i)}
      inOrder == Sx!SetToSortSeq(due, <)
  IN [k \in DOMAIN inOrder |-> [seq |-> inOrder[k], of |-> Sent[inOrder[k]]]]

\* A batch cuts every table at the same message, a small one that no limit looks at too:
\* what was handed out and what is still held are one row per message, in order; ids of
\* attributions stand for what the message said in the list handed out with them; and a
\* run that ends well has written all of it (__init__.py:156-197).
RowsOnce ==
  LET Had(t) == All(t) \o session.cols[t]
      Wrote(t) == Sx!FlattenSeq([w \in DOMAIN written |->
                                   IF written[w].table = t THEN written[w].rows ELSE <<>>])
  IN /\ \A t \in Asked : Due(t) = [i \in DOMAIN Had(t) |-> [seq |-> Had(t)[i].seq, of |-> Had(t)[i].of]]
     /\ \A b \in DOMAIN batches, t \in Asked : \A i \in DOMAIN batches[b].cols[t] :
          LET row == batches[b].cols[t][i]
          IN /\ row.seq <= batches[b].upto
             /\ b > 1 => row.seq > batches[b - 1].upto
             /\ t = "messages" =>
                  batches[b].mpids[row.mpid + 1]
                    = IF row.of.type = "F" THEN View(row.of.body.mpid) ELSE <<>>
     /\ Done /\ stage = "closed" => \A t \in Asked : Wrote(t) = All(t)

\* What a locate was called at the end of a batch.
CalledBy(locate, b) ==
  LET last == {j \in 1 .. batches[b].upto : Sent[j].type = "R" /\ Value(Sent[j].hdr.locate) = locate}
  IN IF last = {} THEN <<>> ELSE View(Sent[Fs!Max(last)].body.stock)

\* However far behind the writer thread is, the rows of a batch carry the names of the end
\* of their batch, never those of a later one (cli.py:69-76).
NamesOfBatch ==
  \A w \in DOMAIN written : \A i \in DOMAIN written[w].rows :
    written[w].table \in CoreTables =>
      written[w].names[i] = CalledBy(Locate(written[w].rows[i]), written[w].batch)
=============================================================================
