--------------------------------- MODULE Feed ---------------------------------
(***************************************************************************)
(* Reading a day file in the background (python/itch_book/__init__.py): a  *)
(* reader thread puts chunks on a bounded queue, a generator takes them,   *)
(* feeds its session and hands out batches; close() stops the reader.      *)
(*                                                                         *)
(* The caller's thread runs one generator at a time, and between two of    *)
(* its steps may start another, drop one or close the feed.  Every start   *)
(* of a generator makes a new event, queue and thread; they are indexed by *)
(* the generator that made them, and current is the one self refers to.    *)
(***************************************************************************)
EXTENDS Integers, Sequences, FiniteSets

CONSTANTS
  Chunks,      \* how many chunks the file has
  QueueSize,   \* maxsize of the queue
  Gens,        \* the generators the caller makes
  None         \* no generator, no thread

ASSUME FeedAssumption == Chunks \in Nat /\ QueueSize \in Nat \ {0} /\ None \notin Gens

VARIABLES
  gen,         \* every generator: where it is, the chunks its session holds, the
               \* chunks it has handed out
  reader,      \* every reader thread: where it is, the next chunk, the item it puts
  queue,       \* the queue each generator made
  stop,        \* whether the event each generator made is set
  current,     \* self._queue and self._stop: whose
  thread,      \* self._thread
  main,        \* what the caller's thread is doing, and what it does after close()
  overlap      \* whether the caller goes back to a generator after it has started
               \* another or closed the feed

vars == <<gen, reader, queue, stop, current, thread, main, overlap>>

\* What goes through a queue: the chunks by their number, the end of the file, an
\* exception.
End   == Chunks + 1
Error == Chunks + 2

User == [at |-> "user", g |-> None]

\* The generators the caller may go on with.
Usable(g) == overlap \/ (current = g /\ ~stop[g])

-----------------------------------------------------------------------------
(* The reader thread: _reader() and _put().                                *)

Alive(g) == reader[g].pc \in {"reading", "checking", "putting"}

\* Mutant of Read: an exception ends the thread and is not passed on.
ReadSilently(g) ==
  /\ reader[g].pc = "reading"
  /\ \/ reader' = [reader EXCEPT ![g].pc = "dead"]
     \/ reader' = [reader EXCEPT ![g] = [pc |-> "checking", next |-> @.next + 1, item |-> @.next]]
  /\ UNCHANGED <<gen, queue, stop, current, thread, main, overlap>>

\* The next chunk or the end of the file, or an exception in its place.
Read(g) ==
  /\ reader[g].pc = "reading"
  /\ \E item \in {reader[g].next, Error} :
       reader' = [reader EXCEPT ![g] = [pc |-> "checking", next |-> @.next + 1, item |-> item]]
  /\ UNCHANGED <<gen, queue, stop, current, thread, main, overlap>>

\* Before every try of a put, and only then, the event is looked at.
CheckStop(g) ==
  /\ reader[g].pc = "checking"
  /\ reader' = [reader EXCEPT ![g].pc = IF stop[g] THEN "dead" ELSE "putting"]
  /\ UNCHANGED <<gen, queue, stop, current, thread, main, overlap>>

Put(g) ==
  /\ reader[g].pc = "putting"
  /\ IF Len(queue[g]) < QueueSize
       THEN /\ queue'  = [queue EXCEPT ![g] = Append(@, reader[g].item)]
            /\ reader' = [reader EXCEPT ![g].pc =
                            IF reader[g].item \in {End, Error} THEN "dead" ELSE "reading"]
       ELSE /\ reader' = [reader EXCEPT ![g].pc = "checking"]
            /\ UNCHANGED queue
  /\ UNCHANGED <<gen, stop, current, thread, main, overlap>>

-----------------------------------------------------------------------------
(* close().                                                                *)

\* Mutant of Close: the reader is told and not waited for.
CloseLeaving(next) ==
  /\ stop' = IF current = None THEN stop ELSE [stop EXCEPT ![current] = TRUE]
  /\ thread' = None
  /\ main' = [at |-> "closed", then |-> next]

\* The event is set; with no thread to wait for that is all.
Close(next) ==
  /\ stop' = IF current = None THEN stop ELSE [stop EXCEPT ![current] = TRUE]
  /\ thread' = thread
  /\ main' = [at |-> IF thread = None THEN "closed" ELSE "draining", then |-> next]

\* Items are taken off the queue, to make room for a put, until the thread is dead.
Drain ==
  /\ main.at = "draining"
  /\ IF Alive(thread)
       THEN /\ queue[current] # <<>>
            /\ queue' = [queue EXCEPT ![current] = Tail(@)]
            /\ UNCHANGED <<thread, main>>
       ELSE /\ thread' = None
            /\ main' = [main EXCEPT !.at = "closed"]
            /\ UNCHANGED queue
  /\ UNCHANGED <<gen, reader, stop, current, overlap>>

\* What follows close(): the start of a generator, its end, or the caller.
Closed ==
  /\ main.at = "closed"
  /\ LET g == main.then.g
     IN CASE main.then.at = "start" ->
               /\ gen'     = [gen EXCEPT ![g].pc = "running"]
               /\ reader'  = [reader EXCEPT ![g].pc = "reading"]
               /\ current' = g
               /\ thread'  = g
               /\ main'    = [at |-> "waiting", g |-> g]
          [] main.then.at = "end" ->
               /\ gen'  = [gen EXCEPT ![g].pc = "done"]
               /\ main' = User
               /\ UNCHANGED <<reader, current, thread>>
          [] OTHER ->
               /\ main' = User
               /\ UNCHANGED <<gen, reader, current, thread>>
  /\ UNCHANGED <<queue, stop, overlap>>

-----------------------------------------------------------------------------
(* The generator: batches() between two yields.                            *)

\* Mutant of Take: a batch is cut before the chunk at hand is fed.
TakeLate(g, item, cut) ==
  LET fed == Append(gen[g].fed, item)
  IN /\ gen' = IF cut THEN [gen EXCEPT ![g].pc = "suspended", ![g].out = @ \o gen[g].fed,
                                       ![g].fed = <<>>]
               ELSE [gen EXCEPT ![g].fed = fed]
     /\ main' = IF cut THEN User ELSE main
     /\ UNCHANGED stop

\* A chunk goes to the session, and a batch is cut when that has rows enough.
Take(g, item, cut) ==
  LET fed == Append(gen[g].fed, item)
  IN /\ gen' = IF cut THEN [gen EXCEPT ![g].pc = "suspended", ![g].out = @ \o fed,
                                       ![g].fed = <<>>]
               ELSE [gen EXCEPT ![g].fed = fed]
     /\ main' = IF cut THEN User ELSE main
     /\ UNCHANGED stop

\* After the last chunk the rest is handed out, unless the session is found
\* truncated.
TakeEnd(g, whole) ==
  IF whole
    THEN /\ gen' = [gen EXCEPT ![g].pc = "last", ![g].out = @ \o gen[g].fed, ![g].fed = <<>>]
         /\ main' = User
         /\ UNCHANGED <<stop, thread>>
    ELSE /\ Close([at |-> "end", g |-> g])
         /\ UNCHANGED gen

\* One item from the queue self refers to.  The reader's exception is raised, and
\* what the session makes of a chunk may be one; both leave through finally.
NextItem(g) ==
  /\ main.at = "waiting" /\ main.g = g
  /\ queue[current] # <<>>
  /\ queue' = [queue EXCEPT ![current] = Tail(@)]
  /\ LET item == Head(queue[current])
     IN \/ /\ item \in 1 .. Chunks
           /\ \E cut \in BOOLEAN : Take(g, item, cut)
           /\ UNCHANGED thread
        \/ /\ item = End
           /\ \E whole \in BOOLEAN : TakeEnd(g, whole)
        \/ /\ item # End
           /\ Close([at |-> "end", g |-> g])
           /\ UNCHANGED gen
  /\ UNCHANGED <<reader, current, overlap>>

\* An empty queue is asked again, in _next() and in close().
GetTimesOut ==
  /\ main.at = "waiting" \/ (main.at = "draining" /\ Alive(thread))
  /\ queue[current] = <<>>
  /\ UNCHANGED vars

-----------------------------------------------------------------------------
(* The caller, between two steps of its generators.                        *)

\* Mutant of Start: the new event and queue are in place before the old are closed.
StartEarly(g) ==
  /\ main = User /\ gen[g].pc = "new"
  /\ current' = g
  /\ stop' = [stop EXCEPT ![g] = thread # None]
  /\ main' = [at |-> IF thread = None THEN "closed" ELSE "draining",
              then |-> [at |-> "start", g |-> g]]
  /\ UNCHANGED <<gen, reader, queue, thread, overlap>>

\* next() of a new generator: the body starts by closing the feed, and ends there
\* when it refuses its arguments.
Start(g) ==
  /\ main = User /\ gen[g].pc = "new"
  /\ \E next \in {"start", "end"} : Close([at |-> next, g |-> g])
  /\ UNCHANGED <<gen, reader, queue, current, overlap>>

\* next() of a suspended one goes on, past the last yield it ends.
Resume(g) ==
  /\ main = User /\ Usable(g)
  /\ \/ /\ gen[g].pc = "suspended"
        /\ gen'  = [gen EXCEPT ![g].pc = "running"]
        /\ main' = [at |-> "waiting", g |-> g]
        /\ UNCHANGED <<stop, thread>>
     \/ /\ gen[g].pc = "last"
        /\ Close([at |-> "end", g |-> g])
        /\ UNCHANGED gen
  /\ UNCHANGED <<reader, queue, current, overlap>>

\* A generator that is closed, or dropped, leaves through finally.
Leave(g) ==
  /\ main = User /\ Usable(g)
  /\ gen[g].pc \in {"suspended", "last"}
  /\ Close([at |-> "end", g |-> g])
  /\ UNCHANGED <<gen, reader, queue, current, overlap>>

\* Feed.close(), or the end of a with statement.
CloseFeed ==
  /\ main = User
  /\ Close(User)
  /\ UNCHANGED <<gen, reader, queue, current, overlap>>

-----------------------------------------------------------------------------

Init ==
  /\ gen     = [g \in Gens |-> [pc |-> "new", fed |-> <<>>, out |-> <<>>]]
  /\ reader  = [g \in Gens |-> [pc |-> "none", next |-> 1, item |-> 0]]
  /\ queue   = [g \in Gens |-> <<>>]
  /\ stop    = [g \in Gens |-> FALSE]
  /\ current = None
  /\ thread  = None
  /\ main    = User
  /\ overlap \in BOOLEAN

ReaderStep(g) == Read(g) \/ CheckStop(g) \/ Put(g)
MainStep == Drain \/ Closed \/ GetTimesOut \/ \E g \in Gens : NextItem(g)
CallerStep == CloseFeed \/ \E g \in Gens : Start(g) \/ Resume(g) \/ Leave(g)

Next == MainStep \/ CallerStep \/ \E g \in Gens : ReaderStep(g)

\* A thread that can run does; what the caller does next is up to the caller.
Fairness == WF_vars(MainStep) /\ \A g \in Gens : WF_vars(ReaderStep(g))

Spec == Init /\ [][Next]_vars /\ Fairness

-----------------------------------------------------------------------------
(* Correctness.                                                            *)

\* What a generator has handed out and what its session holds are the chunks of
\* the file from the first, in order, each once; past its last batch it has handed
\* out all of them; unless the caller went back to a superseded generator.
EveryChunkOnce ==
  ~overlap => \A g \in Gens :
    LET seen == gen[g].out \o gen[g].fed
    IN /\ seen = [i \in 1 .. Len(seen) |-> i]
       /\ gen[g].pc = "last" => Len(gen[g].out) = Chunks

\* A generator that is over leaves no thread behind, and no two threads ever read
\* at once, whatever the caller does with its generators.
OneReader ==
  /\ \A g, h \in Gens : Alive(g) /\ Alive(h) => g = h
  /\ main = User /\ thread = None => \A g \in Gens : ~Alive(g)

\* close() comes back: the reader sees the event, a full queue notwithstanding.
CloseReturns == main.at = "draining" ~> main.at = "closed"

\* next() comes back: a chunk, the end or the error that stopped the reader
\* always arrives; unless the caller went back to a superseded generator.
NextReturns == ~overlap /\ main.at = "waiting" ~> main = User
=============================================================================
