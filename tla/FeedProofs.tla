------------------------------ MODULE FeedProofs ------------------------------
(***************************************************************************)
(* What a feed keeps for any number of chunks, any queue and any           *)
(* generators: one reader at a time, and every chunk once and in order.    *)
(*                                                                         *)
(* The inductive invariant says of a generator whose event is not set that *)
(* the chunks it has seen, those on its queue and the one its reader holds *)
(* are numbered on, an exception in the last place at most; and of the     *)
(* caller's thread, that it waits on the queue of the generator it runs.   *)
(* It is proved of all the generators but for the order of the chunks,     *)
(* which is lost when the caller goes back to a superseded generator.      *)
(***************************************************************************)
EXTENDS Feed, SequenceTheorems, TLAPS

\* What close() goes on with, and where the parts of the program are.
Steps == [at : {"start", "end"}, g : Gens]
GenStates ==
  [pc : {"new", "running", "suspended", "last", "done"}, fed : Seq(Nat), out : Seq(Nat)]
ReaderStates ==
  [pc : {"none", "reading", "checking", "putting", "dead"}, next : Nat, item : Nat]
Closing == [at : {"draining", "closed"}, then : {User} \cup Steps]
MainStates == {User} \cup [at : {"waiting"}, g : Gens] \cup Closing

Types ==
  /\ gen \in [Gens -> GenStates]
  /\ reader \in [Gens -> ReaderStates]
  /\ queue \in [Gens -> Seq(Nat)]
  /\ stop \in [Gens -> BOOLEAN]
  /\ current \in Gens \cup {None} /\ thread \in Gens \cup {None}
  /\ main \in MainStates
  /\ overlap \in BOOLEAN

\* Only self._thread runs; close() comes to its end without one.
Threads ==
  /\ \A g \in Gens : Alive(g) => thread = g
  /\ main.at = "closed" => thread = None
  /\ main.at = "draining" => thread # None
  /\ thread # None => thread = current

-----------------------------------------------------------------------------
Seen(g)  == gen[g].out \o gen[g].fed
Held(g)  == IF reader[g].pc \in {"checking", "putting"} THEN <<reader[g].item>> ELSE <<>>
Ahead(g) == queue[g] \o Held(g)

\* A sequence that counts on from n, an exception in the last place at most.
Follows(a, n) == \A i \in 1 .. Len(a) : a[i] = n + i \/ (a[i] = Error /\ i = Len(a))

Counted(s) == \A i \in 1 .. Len(s) : s[i] = i

\* How far the reader of g has read, in numbers.
Reached(g) == Len(Seen(g)) + Len(Ahead(g))

\* Between the file and the session of g nothing is lost or out of turn.
Lined(g) ==
  /\ Follows(Ahead(g), Len(Seen(g)))
  /\ Reached(g) <= End
  /\ reader[g].pc \in {"reading", "checking", "putting"} => reader[g].next = Reached(g) + 1
  /\ reader[g].pc = "reading" =>
       Reached(g) < End /\ \A i \in 1 .. Len(queue[g]) : queue[g][i] # Error

\* A generator that has not been started yet has nothing.
Fresh(g) ==
  /\ reader[g].pc = "none" /\ reader[g].next = 1 /\ queue[g] = <<>> /\ Seen(g) = <<>>
  /\ ~stop[g] /\ current # g

OfGen(g) ==
  /\ Counted(Seen(g))
  /\ gen[g].pc = "last" => Len(gen[g].out) = Chunks
  /\ gen[g].pc = "new" => Fresh(g)
  /\ ~stop[g] => Lined(g)

OfMain ==
  /\ main.at = "waiting" => current = main.g /\ ~stop[main.g] /\ gen[main.g].pc = "running"
  /\ main.at = "draining" => stop[current]
  /\ main.at \in {"draining", "closed"} =>
       (main.then.at = "start" => gen[main.then.g].pc = "new")

Orders == OfMain /\ \A g \in Gens : OfGen(g)

IInv == Types /\ Threads /\ (~overlap => Orders)

-----------------------------------------------------------------------------
(* The start.                                                              *)

\* A feed nobody has iterated satisfies the invariant.
LEMMA InitInvariant == Init => IInv
<1> SUFFICES ASSUME Init PROVE IInv
  OBVIOUS
<1>1. Types
  <2>1. gen \in [Gens -> GenStates]
    BY DEF Init, GenStates
  <2>2. reader \in [Gens -> ReaderStates]
    BY DEF Init, ReaderStates
  <2>3. main \in MainStates
    BY DEF Init, MainStates
  <2> QED BY <2>1, <2>2, <2>3 DEF Init, Types
<1>2. Threads
  BY DEF Init, Threads, Alive, User
<1>3. ASSUME NEW g \in Gens PROVE OfGen(g)
  <2>1. Seen(g) = <<>> /\ Ahead(g) = <<>>
    BY DEF Init, Seen, Ahead, Held
  <2>2. Fresh(g)
    BY <2>1, FeedAssumption DEF Init, Fresh
  <2>3. Lined(g)
    BY <2>1, FeedAssumption DEF Init, Lined, Follows, Reached, End
  <2> QED BY <2>1, <2>2, <2>3 DEF Init, OfGen, Counted
<1> QED BY <1>1, <1>2, <1>3 DEF IInv, Orders, OfMain, Init, User

-----------------------------------------------------------------------------
(* What the longer steps do.                                               *)

\* What follows a close(): the generator it was for starts its thread, or ends.
LEMMA ClosedDoes ==
  ASSUME Types, Closed
  PROVE  /\ main.at = "closed" /\ main.then \in {User} \cup Steps
         /\ \/ /\ main.then.at = "start" /\ main.then.g \in Gens
               /\ gen'    = [gen EXCEPT ![main.then.g].pc = "running"]
               /\ reader' = [reader EXCEPT ![main.then.g].pc = "reading"]
               /\ current' = main.then.g /\ thread' = main.then.g
               /\ main' = [at |-> "waiting", g |-> main.then.g]
            \/ /\ main.then.at = "end" /\ main.then.g \in Gens
               /\ gen' = [gen EXCEPT ![main.then.g].pc = "done"]
               /\ main' = User /\ UNCHANGED <<reader, current, thread>>
            \/ main' = User /\ UNCHANGED <<gen, reader, current, thread>>
         /\ UNCHANGED <<queue, stop, overlap>>
<1>1. main \in Closing /\ main.at = "closed"
  BY DEF Closed, Types, MainStates, User, Closing
<1>2. main.then \in {User} \cup Steps
  BY <1>1 DEF Closing
<1>3. main.then.at \in {"start", "end"} => main.then.g \in Gens
  BY <1>2 DEF Steps, User
<1> QED BY <1>1, <1>2, <1>3 DEF Closed

\* close() sets the stop event of the current thread and drains, if there is a thread.
LEMMA CloseDoes ==
  ASSUME Types, Threads, NEW next \in {User} \cup Steps, Close(next)
  PROVE  /\ stop' = IF current = None THEN stop ELSE [stop EXCEPT ![current] = TRUE]
         /\ stop' \in [Gens -> BOOLEAN]
         /\ thread' = thread /\ main' \in Closing
         /\ main'.then = next /\ main'.at \in {"draining", "closed"}
         /\ main'.at = "closed" => thread = None
         /\ main'.at = "draining" => thread # None /\ current \in Gens
<1>1. main' = [at |-> IF thread = None THEN "closed" ELSE "draining", then |-> next]
  BY DEF Close
<1>2. main' \in Closing
  BY <1>1 DEF Closing
<1>3. thread # None => current \in Gens
  BY DEF Types, Threads
<1> QED BY <1>1, <1>2, <1>3 DEF Close, Types

\* batches() takes one item: a chunk to hand on, the end, or the reader's exception.
LEMMA NextItemDoes ==
  ASSUME Types, NEW g \in Gens, NextItem(g)
  PROVE  /\ main.at = "waiting" /\ main.g = g /\ queue[current] # <<>>
         /\ queue' = [queue EXCEPT ![current] = Tail(@)]
         /\ UNCHANGED <<reader, current, overlap>>
         /\ \/ /\ Head(queue[current]) \in 1 .. Chunks
               /\ \E cut \in BOOLEAN : Take(g, Head(queue[current]), cut)
               /\ UNCHANGED thread
            \/ /\ Head(queue[current]) = End
               /\ gen' = [gen EXCEPT ![g].pc = "last", ![g].out = @ \o gen[g].fed, ![g].fed = <<>>]
               /\ main' = User /\ UNCHANGED <<stop, thread>>
            \/ Close([at |-> "end", g |-> g]) /\ UNCHANGED gen
<1> QED BY DEF NextItem, TakeEnd

-----------------------------------------------------------------------------
(* Types and threads.                                                      *)

\* A queue with its first item taken is a queue.
LEMMA Taken ==
  ASSUME queue \in [Gens -> Seq(Nat)], NEW g \in Gens, queue[g] # <<>>,
         queue' = [queue EXCEPT ![g] = Tail(@)]
  PROVE  queue' \in [Gens -> Seq(Nat)]
<1>1. queue[g] \in Seq(Nat)
  OBVIOUS
<1>2. Tail(queue[g]) \in Seq(Nat)
  BY <1>1
<1> QED BY <1>2

\* A reader thread's step keeps the types and the threads.
LEMMA ReadersKept ==
  ASSUME Types, Threads, NEW g \in Gens, ReaderStep(g)
  PROVE  Types' /\ Threads'
<1>0. reader \in [Gens -> ReaderStates] /\ reader[g] \in ReaderStates /\ queue[g] \in Seq(Nat)
  BY DEF Types
<1>1. UNCHANGED <<gen, stop, current, thread, main, overlap>>
  BY DEF ReaderStep, Read, CheckStop, Put
<1>2. reader' \in [Gens -> ReaderStates]
  <2>1. CASE Read(g)
    <3>1. PICK item \in {reader[g].next, Error} :
             reader' = [reader EXCEPT ![g] = [pc |-> "checking", next |-> @.next + 1, item |-> item]]
      BY <2>1 DEF Read
    <3>2. reader[g].next \in Nat /\ item \in Nat
      BY <1>0, FeedAssumption DEF ReaderStates, Error
    <3>3. [pc |-> "checking", next |-> reader[g].next + 1, item |-> item] \in ReaderStates
      BY <3>2 DEF ReaderStates
    <3> QED BY <1>0, <3>1, <3>3
  <2>2. CASE CheckStop(g)
    BY <1>0, <2>2 DEF CheckStop, ReaderStates
  <2>3. CASE Put(g)
    <3>1. \E pc \in {"dead", "reading", "checking"} : reader' = [reader EXCEPT ![g].pc = pc]
      BY <2>3, Zenon DEF Put
    <3> QED BY <1>0, <3>1 DEF ReaderStates
  <2> QED BY <2>1, <2>2, <2>3 DEF ReaderStep
<1>3. queue' \in [Gens -> Seq(Nat)]
  <2>1. CASE Put(g) /\ Len(queue[g]) < QueueSize
    <3>1. reader[g].item \in Nat
      BY <1>0 DEF ReaderStates
    <3>2. Append(queue[g], reader[g].item) \in Seq(Nat)
      BY <1>0, <3>1
    <3>3. queue' = [queue EXCEPT ![g] = Append(queue[g], reader[g].item)]
      BY <2>1 DEF Put
    <3> QED BY <3>2, <3>3 DEF Types
  <2>2. CASE UNCHANGED queue
    BY <2>2 DEF Types
  <2> QED BY <2>1, <2>2 DEF ReaderStep, Read, CheckStop, Put
<1>4. \A h \in Gens : Alive(h)' => Alive(h)
  <2>1. reader'[g].pc \in {"reading", "checking", "putting"} => Alive(g)
    BY DEF ReaderStep, Read, CheckStop, Put, Alive
  <2>2. \A h \in Gens : h # g => reader'[h] = reader[h]
    BY <1>0 DEF ReaderStep, Read, CheckStop, Put
  <2> QED BY <2>1, <2>2 DEF Alive
<1> QED BY <1>1, <1>2, <1>3, <1>4 DEF Types, Threads

\* So does the start of a close().
LEMMA ClosingKept ==
  ASSUME Types, Threads, NEW next \in {User} \cup Steps, Close(next),
         UNCHANGED <<reader, current, overlap>>, queue' \in [Gens -> Seq(Nat)],
         gen' \in [Gens -> GenStates]
  PROVE  Types' /\ Threads'
<1>1. main' \in MainStates
  BY CloseDoes DEF MainStates
<1>2. Types'
  BY <1>1, CloseDoes DEF Types
<1>3. Threads'
  BY CloseDoes DEF Threads, Alive
<1> QED BY <1>2, <1>3

\* So does what follows it.
LEMMA ClosedKept ==
  ASSUME Types, Threads, Closed
  PROVE  Types' /\ Threads'
<1>1. thread = None /\ \A h \in Gens : ~Alive(h)
  BY ClosedDoes, FeedAssumption DEF Threads
<1>2. CASE /\ main.then.at = "start" /\ main.then.g \in Gens
           /\ gen'    = [gen EXCEPT ![main.then.g].pc = "running"]
           /\ reader' = [reader EXCEPT ![main.then.g].pc = "reading"]
           /\ current' = main.then.g /\ thread' = main.then.g
           /\ main' = [at |-> "waiting", g |-> main.then.g]
           /\ UNCHANGED <<queue, stop, overlap>>
  <2>1. gen' \in [Gens -> GenStates]
    BY <1>2 DEF Types, GenStates
  <2>2. reader' \in [Gens -> ReaderStates]
    BY <1>2 DEF Types, ReaderStates
  <2>3. main' \in MainStates
    BY <1>2 DEF MainStates
  <2>4. \A h \in Gens : h # main.then.g => ~Alive(h)'
    BY <1>1, <1>2 DEF Alive, Types
  <2> QED BY <1>2, <2>1, <2>2, <2>3, <2>4, FeedAssumption DEF Types, Threads
<1>3. CASE /\ gen' \in [Gens -> GenStates]
           /\ main' = User /\ UNCHANGED <<reader, current, thread, queue, stop, overlap>>
  <2>1. main' \in MainStates
    BY <1>3 DEF MainStates
  <2> QED BY <1>3, <2>1 DEF Types, Threads, Alive, User
<1>4. gen \in [Gens -> GenStates]
  BY DEF Types
<1>5. main.then.g \in Gens => [gen EXCEPT ![main.then.g].pc = "done"] \in [Gens -> GenStates]
  BY <1>4 DEF GenStates
<1> QED BY <1>2, <1>3, <1>4, <1>5, ClosedDoes

\* So does taking an item.
LEMMA NextItemKept ==
  ASSUME Types, Threads, NEW g \in Gens, NextItem(g)
  PROVE  Types' /\ Threads'
<1>0. gen \in [Gens -> GenStates] /\ gen[g] \in GenStates
  BY DEF Types
<1>1. queue' \in [Gens -> Seq(Nat)]
  <2>1. CASE current \in Gens
    BY <2>1, NextItemDoes, Taken DEF Types
  <2>2. CASE current \notin Gens
    BY <2>2, NextItemDoes DEF Types
  <2> QED BY <2>1, <2>2
<1>2. CASE Close([at |-> "end", g |-> g]) /\ UNCHANGED gen
  <2>1. [at |-> "end", g |-> g] \in {User} \cup Steps
    BY DEF Steps
  <2> QED BY <1>0, <1>1, <1>2, <2>1, NextItemDoes, ClosingKept
<1>3. CASE /\ gen' \in [Gens -> GenStates] /\ main' \in {main, User}
           /\ UNCHANGED <<reader, current, overlap, stop, thread>>
  <2>1. main' \in MainStates
    BY <1>3 DEF Types, MainStates
  <2>2. Types'
    BY <1>1, <1>3, <2>1 DEF Types
  <2>3. main'.at \in {"user", "waiting"}
    <3>1. main.at = "waiting" /\ User.at = "user"
      BY NextItemDoes DEF User
    <3> QED BY <1>3, <3>1
  <2>4. Threads'
    BY <1>3, <2>3 DEF Threads, Alive
  <2> QED BY <2>2, <2>4
<1>4. CASE /\ Head(queue[current]) \in 1 .. Chunks
           /\ \E cut \in BOOLEAN : Take(g, Head(queue[current]), cut)
           /\ UNCHANGED thread
  <2>1. PICK cut \in BOOLEAN : Take(g, Head(queue[current]), cut)
    BY <1>4
  <2>2. gen[g].fed \in Seq(Nat) /\ gen[g].out \in Seq(Nat)
    BY <1>0 DEF GenStates
  <2>3. Append(gen[g].fed, Head(queue[current])) \in Seq(Nat)
    BY <1>4, <2>2
  <2>4. gen[g].out \o Append(gen[g].fed, Head(queue[current])) \in Seq(Nat)
    BY <2>2, <2>3
  <2>5. gen' \in [Gens -> GenStates]
    <3>1. gen' = [gen EXCEPT ![g] = gen'[g]]
      BY <1>0, <2>1 DEF Take
    <3>2. CASE cut
      <4>1. gen'[g] = [pc |-> "suspended", fed |-> <<>>,
                       out |-> gen[g].out \o Append(gen[g].fed, Head(queue[current]))]
        BY <1>0, <2>1, <3>2 DEF Take, GenStates
      <4>2. gen'[g] \in GenStates
        BY <2>4, <4>1 DEF GenStates
      <4> QED BY <1>0, <3>1, <4>2
    <3>3. CASE ~cut
      BY <1>0, <2>1, <2>3, <3>3 DEF Take, GenStates
    <3> QED BY <3>2, <3>3
  <2> QED BY <1>3, <1>4, <2>1, <2>5, NextItemDoes DEF Take
<1>5. CASE /\ gen' = [gen EXCEPT ![g].pc = "last", ![g].out = @ \o gen[g].fed, ![g].fed = <<>>]
           /\ main' = User /\ UNCHANGED <<stop, thread>>
  <2>2. gen[g].fed \in Seq(Nat) /\ gen[g].out \in Seq(Nat)
    BY <1>0 DEF GenStates
  <2>4. gen[g].out \o gen[g].fed \in Seq(Nat)
    BY <2>2
  <2>5. gen' \in [Gens -> GenStates]
    <3>1. gen' = [gen EXCEPT ![g] = gen'[g]]
      BY <1>0, <1>5
    <3>2. gen'[g] = [pc |-> "last", fed |-> <<>>, out |-> gen[g].out \o gen[g].fed]
      BY <1>0, <1>5 DEF GenStates
    <3>3. gen'[g] \in GenStates
      BY <2>4, <3>2 DEF GenStates
    <3> QED BY <1>0, <3>1, <3>3
  <2> QED BY <1>3, <1>5, <2>5, NextItemDoes
<1> QED BY <1>2, <1>4, <1>5, NextItemDoes

\* So does draining the queue until the thread is dead.
LEMMA DrainKept ==
  ASSUME Types, Threads, Drain
  PROVE  Types' /\ Threads'
<1>1. main \in Closing /\ current \in Gens /\ thread = current
  BY FeedAssumption DEF Drain, Types, Threads, MainStates, User
<1>2. CASE Alive(thread)
  <2>1. queue' \in [Gens -> Seq(Nat)]
    BY <1>1, <1>2, Taken DEF Drain, Types
  <2> QED BY <1>2, <2>1 DEF Drain, Types, Threads, Alive
<1>3. CASE ~Alive(thread)
  <2>1. main' \in Closing /\ main'.at = "closed"
    BY <1>1, <1>3 DEF Drain, Closing
  <2>2. Types'
    BY <1>3, <2>1 DEF Drain, Types, MainStates
  <2>3. Threads'
    BY <1>3, <2>1 DEF Drain, Threads, Alive
  <2> QED BY <2>2, <2>3
<1> QED BY <1>2, <1>3

\* So does whatever the caller asks of the feed.
LEMMA CallerKept ==
  ASSUME Types, Threads, CallerStep
  PROVE  Types' /\ Threads'
<1>0. gen \in [Gens -> GenStates] /\ queue \in [Gens -> Seq(Nat)]
  BY DEF Types
<1>1. CASE CloseFeed
  BY <1>0, <1>1, ClosingKept DEF CloseFeed
<1>2. ASSUME NEW g \in Gens, NEW next \in {"start", "end"}, Close([at |-> next, g |-> g]),
             UNCHANGED <<gen, reader, queue, current, overlap>>
      PROVE  Types' /\ Threads'
  <2>1. [at |-> next, g |-> g] \in {User} \cup Steps
    BY DEF Steps
  <2> QED BY <1>0, <1>2, <2>1, ClosingKept
<1>3. ASSUME NEW g \in Gens, Start(g) PROVE Types' /\ Threads'
  BY <1>2, <1>3 DEF Start
<1>4. ASSUME NEW g \in Gens, Leave(g) PROVE Types' /\ Threads'
  BY <1>2, <1>4 DEF Leave
<1>5. ASSUME NEW g \in Gens, Resume(g) PROVE Types' /\ Threads'
  <2>1. CASE Close([at |-> "end", g |-> g]) /\ UNCHANGED gen
    BY <1>2, <1>5, <2>1 DEF Resume
  <2>2. CASE /\ gen'  = [gen EXCEPT ![g].pc = "running"]
             /\ main' = [at |-> "waiting", g |-> g] /\ UNCHANGED <<stop, thread>>
    <3>1. gen' \in [Gens -> GenStates]
      BY <1>0, <2>2 DEF GenStates
    <3>2. main' \in MainStates
      BY <2>2 DEF MainStates
    <3> QED BY <1>5, <2>2, <3>1, <3>2 DEF Resume, Types, Threads, Alive
  <2> QED BY <1>5, <2>1, <2>2 DEF Resume
<1> QED BY <1>1, <1>3, <1>4, <1>5 DEF CallerStep

\* So does every step.
LEMMA StepThreads ==
  ASSUME Types, Threads, [Next]_vars
  PROVE  Types' /\ Threads'
<1>1. CASE UNCHANGED vars
  BY <1>1 DEF vars, Types, Threads, Alive
<1>2. CASE MainStep
  BY <1>1, <1>2, DrainKept, ClosedKept, NextItemKept DEF MainStep, GetTimesOut
<1>3. CASE CallerStep
  BY <1>3, CallerKept
<1>4. ASSUME NEW g \in Gens, ReaderStep(g) PROVE Types' /\ Threads'
  BY <1>4, ReadersKept
<1> QED BY <1>1, <1>2, <1>3, <1>4 DEF Next

-----------------------------------------------------------------------------
(* Sequences that count on.                                                *)

\* The next chunk after the first n is chunk n + 1.
LEMMA CountedOn ==
  ASSUME NEW s \in Seq(Nat), Counted(s)
  PROVE  Counted(Append(s, Len(s) + 1))
<1> QED BY DEF Counted

\* An item put at the end of a queue is at the end of all there is to come.
LEMMA AppendConcat ==
  ASSUME NEW s \in Seq(Nat), NEW t \in Seq(Nat), NEW x \in Nat
  PROVE  s \o Append(t, x) = Append(s \o t, x)
<1>1. <<x>> \in Seq(Nat) /\ s \o t \in Seq(Nat)
  BY ConcatProperties
<1>2. Append(t, x) = t \o <<x>> /\ Append(s \o t, x) = (s \o t) \o <<x>>
  BY <1>1, AppendIsConcat, Zenon
<1>3. (s \o t) \o <<x>> = s \o (t \o <<x>>)
  BY <1>1, ConcatAssociative
<1> QED BY <1>2, <1>3

\* What follows chunk n still does with the next chunk, or an exception, at its end.
LEMMA FollowsOn ==
  ASSUME NEW a \in Seq(Nat), NEW n \in Nat, NEW x \in {n + Len(a) + 1, Error},
         Follows(a, n), \A i \in 1 .. Len(a) : a[i] # Error
  PROVE  Follows(Append(a, x), n)
<1> QED BY DEF Follows

\* What follows chunk n follows n + 1 without its first item.
LEMMA FollowsRest ==
  ASSUME NEW a \in Seq(Nat), NEW n \in Nat, Follows(a, n), NEW rest \in Seq(Nat),
         Len(rest) = Len(a) - 1, \A i \in 1 .. Len(rest) : rest[i] = a[i + 1]
  PROVE  Follows(rest, n + 1)
<1> QED BY LenProperties DEF Follows

\* So does its tail.
LEMMA FollowsTail ==
  ASSUME NEW a \in Seq(Nat), NEW n \in Nat, Follows(a, n), a # <<>>
  PROVE  Follows(Tail(a), n + 1) /\ Len(Tail(a)) = Len(a) - 1 /\ Tail(a) \in Seq(Nat)
<1>1. /\ Tail(a) \in Seq(Nat) /\ Len(Tail(a)) = Len(a) - 1
      /\ \A i \in 1 .. Len(Tail(a)) : Tail(a)[i] = a[i + 1]
  BY HeadTailProperties, Zenon
<1> QED BY <1>1, FollowsRest, Zenon

\* What a generator saw, what its queue holds and what its thread holds are sequences.
LEMMA Shape ==
  ASSUME Types, NEW g \in Gens
  PROVE  /\ gen[g].out \in Seq(Nat) /\ gen[g].fed \in Seq(Nat) /\ Seen(g) \in Seq(Nat)
         /\ queue[g] \in Seq(Nat) /\ Held(g) \in Seq(Nat) /\ Ahead(g) \in Seq(Nat)
         /\ Len(Seen(g)) = Len(gen[g].out) + Len(gen[g].fed)
         /\ Len(Ahead(g)) = Len(queue[g]) + Len(Held(g))
         /\ Len(Held(g)) = IF reader[g].pc \in {"checking", "putting"} THEN 1 ELSE 0
         /\ reader[g].item \in Nat /\ reader[g].next \in Nat /\ Len(Seen(g)) \in Nat
<1>1. gen[g] \in GenStates /\ reader[g] \in ReaderStates /\ queue[g] \in Seq(Nat)
  BY DEF Types
<1>2. gen[g].out \in Seq(Nat) /\ gen[g].fed \in Seq(Nat)
  BY <1>1 DEF GenStates
<1>3. reader[g].item \in Nat /\ reader[g].next \in Nat
  BY <1>1 DEF ReaderStates
<1>4. Held(g) \in Seq(Nat) /\ Len(Held(g)) = IF reader[g].pc \in {"checking", "putting"} THEN 1 ELSE 0
  BY <1>3 DEF Held
<1>5. Seen(g) \in Seq(Nat) /\ Len(Seen(g)) = Len(gen[g].out) + Len(gen[g].fed)
  BY <1>2, ConcatProperties DEF Seen
<1>6. Ahead(g) \in Seq(Nat) /\ Len(Ahead(g)) = Len(queue[g]) + Len(Held(g))
  BY <1>1, <1>4, ConcatProperties DEF Ahead
<1>7. Len(Seen(g)) \in Nat
  BY <1>5, LenProperties
<1> QED BY <1>1, <1>2, <1>3, <1>4, <1>5, <1>6, <1>7

-----------------------------------------------------------------------------
(* The order of the chunks.                                                *)

\* Nothing of the generator changes.
LEMMA Frame ==
  ASSUME NEW g \in Gens, OfGen(g), gen'[g] = gen[g], reader'[g] = reader[g],
         queue'[g] = queue[g], stop'[g] = stop[g], current' = current \/ current' # g
  PROVE  OfGen(g)'
<1>1. Seen(g)' = Seen(g) /\ Held(g)' = Held(g)
  BY DEF Seen, Held
<1>2. Ahead(g)' = Ahead(g) /\ Reached(g)' = Reached(g)
  BY <1>1 DEF Ahead, Reached
<1>3. Lined(g)' = Lined(g)
  BY <1>1, <1>2 DEF Lined
<1>4. Fresh(g) => Fresh(g)'
  BY <1>1 DEF Fresh
<1> QED BY <1>1, <1>3, <1>4 DEF OfGen

\* The start of a close() leaves every generator's chunks in order.
LEMMA ClosingOrders ==
  ASSUME Types, Threads, Orders, NEW next \in {User} \cup Steps, Close(next),
         UNCHANGED <<gen, reader, current>>,
         \A g \in Gens : g # current => queue'[g] = queue[g],
         next.at = "start" => gen[next.g].pc = "new"
  PROVE  Orders'
<1>1. OfMain'
  <2>1. /\ main'.at \in {"draining", "closed"} /\ main'.then = next
        /\ main'.at = "draining" => stop'[current]
    BY CloseDoes, FeedAssumption DEF Types
  <2> QED BY <2>1 DEF OfMain
<1>2. ASSUME NEW g \in Gens PROVE OfGen(g)'
  <2>0. OfGen(g) /\ stop \in [Gens -> BOOLEAN]
    BY DEF Orders, Types
  <2>1. CASE g = current
    <3>1. stop'[g] /\ gen[g].pc # "new"
      BY <2>0, <2>1, CloseDoes, FeedAssumption DEF OfGen, Fresh
    <3>2. Seen(g)' = Seen(g)
      BY DEF Seen
    <3> QED BY <2>0, <3>1, <3>2 DEF OfGen
  <2>2. CASE g # current
    <3>1. stop'[g] = stop[g]
      BY <2>0, <2>2, CloseDoes
    <3> QED BY <2>0, <2>2, <3>1, Frame
  <2> QED BY <2>1, <2>2
<1> QED BY <1>1, <1>2 DEF Orders

\* So does a reader thread's step.
LEMMA ReaderOrders ==
  ASSUME Types, Threads, Orders, NEW g \in Gens, ReaderStep(g)
  PROVE  Orders'
<1>1. UNCHANGED <<gen, stop, current, thread, main, overlap>>
  BY DEF ReaderStep, Read, CheckStop, Put
<1>2. OfMain'
  BY <1>1 DEF Orders, OfMain
<1>3. ASSUME NEW h \in Gens, h # g PROVE OfGen(h)'
  <2>1. reader'[h] = reader[h] /\ queue'[h] = queue[h]
    BY <1>3 DEF ReaderStep, Read, CheckStop, Put, Types
  <2> QED BY <1>1, <2>1, Frame DEF Orders
<1>4. reader[g].pc # "none" /\ reader[g] \in ReaderStates /\ OfGen(g)
  BY DEF ReaderStep, Read, CheckStop, Put, Orders, Types
<1>5. gen[g].pc # "new" /\ Seen(g)' = Seen(g)
  BY <1>1, <1>4 DEF OfGen, Fresh, Seen
<1>6. ASSUME ~stop[g] PROVE Lined(g)'
  <2>0. Lined(g)
    BY <1>4, <1>6 DEF OfGen
  <2> DEFINE n == Len(Seen(g))
  <2>1. n \in Nat /\ queue[g] \in Seq(Nat) /\ reader[g].item \in Nat /\ reader[g].next \in Nat
    BY Shape
  <2>2. CASE Read(g)
    <3>1. PICK item \in {reader[g].next, Error} :
             reader' = [reader EXCEPT ![g] = [pc |-> "checking", next |-> @.next + 1, item |-> item]]
      BY <2>2 DEF Read
    <3>2. /\ reader'[g] = [pc |-> "checking", next |-> reader[g].next + 1, item |-> item]
          /\ queue' = queue /\ reader[g].pc = "reading"
      BY <2>2, <3>1 DEF Read, Types
    <3>3. item \in Nat
      BY <2>1, <3>1, FeedAssumption DEF Error
    <3>4. Ahead(g) = queue[g] /\ Ahead(g)' = Append(queue[g], item)
      BY <2>1, <3>2, <3>3 DEF Ahead, Held
    <3>5. /\ Reached(g) = n + Len(queue[g]) /\ Reached(g) < End
          /\ reader[g].next = Reached(g) + 1
          /\ \A i \in 1 .. Len(queue[g]) : queue[g][i] # Error
      BY <2>0, <3>2, <3>4 DEF Lined, Reached
    <3>6. Follows(Ahead(g)', n)
      BY <2>0, <2>1, <3>1, <3>4, <3>5, FollowsOn DEF Lined
    <3>7. Reached(g)' = Reached(g) + 1
      BY <1>5, <2>1, <3>3, <3>4, <3>5 DEF Reached
    <3> QED BY <1>5, <2>1, <3>2, <3>5, <3>6, <3>7, FeedAssumption DEF Lined, End
  <2>3. CASE CheckStop(g) \/ (Put(g) /\ ~(Len(queue[g]) < QueueSize))
    <3>1. /\ reader[g].pc \in {"checking", "putting"} /\ reader'[g].pc \in {"checking", "putting"}
          /\ reader'[g].item = reader[g].item /\ reader'[g].next = reader[g].next
          /\ queue' = queue
      BY <1>4, <1>6, <2>3 DEF CheckStop, Put, Types, ReaderStates
    <3>2. Ahead(g)' = Ahead(g)
      BY <3>1 DEF Ahead, Held
    <3> QED BY <1>5, <2>0, <3>1, <3>2 DEF Lined, Reached
  <2>4. CASE Put(g) /\ Len(queue[g]) < QueueSize
    <3> DEFINE item == reader[g].item
    <3>1. /\ reader[g].pc = "putting"
          /\ reader'[g].pc = IF item \in {End, Error} THEN "dead" ELSE "reading"
          /\ reader'[g].next = reader[g].next
          /\ queue'[g] = Append(queue[g], item)
      BY <1>4, <2>4 DEF Put, Types, ReaderStates
    <3>2. Ahead(g) = queue[g] \o <<item>>
      BY <3>1 DEF Ahead, Held
    <3>3. Ahead(g) = Append(queue[g], item)
      BY <2>1, <3>2
    <3>4. Held(g)' = <<>> /\ Append(queue[g], item) \in Seq(Nat)
      BY <2>1, <3>1 DEF Held
    <3>5. Ahead(g)' = Ahead(g)
      BY <3>1, <3>3, <3>4 DEF Ahead
    <3>6. ASSUME item \notin {End, Error}
          PROVE  /\ Reached(g) < End
                 /\ \A i \in 1 .. Len(Ahead(g)) : Ahead(g)[i] # Error
      <4>1. Len(Ahead(g)) = Len(queue[g]) + 1 /\ Ahead(g)[Len(Ahead(g))] = item
        BY <2>1, <3>3
      <4>2. item = Reached(g)
        BY <2>0, <2>1, <3>6, <4>1 DEF Lined, Follows, Reached
      <4>3. Reached(g) < End
        BY <2>0, <2>1, <3>6, <4>1, <4>2, FeedAssumption DEF Lined, Reached, End
      <4>4. ASSUME NEW i \in 1 .. Len(Ahead(g)) PROVE Ahead(g)[i] # Error
        <5>1. Ahead(g)[i] = n + i \/ i = Len(Ahead(g))
          BY <2>0 DEF Lined, Follows
        <5> QED BY <2>1, <3>6, <4>1, <4>3, <5>1, FeedAssumption DEF Reached, End, Error
      <4> QED BY <4>3, <4>4
    <3> QED BY <1>5, <2>0, <3>1, <3>3, <3>5, <3>6 DEF Lined, Reached
  <2> QED BY <2>2, <2>3, <2>4 DEF ReaderStep
<1>7. OfGen(g)'
  BY <1>1, <1>4, <1>5, <1>6 DEF OfGen
<1> QED BY <1>2, <1>3, <1>7 DEF Orders

\* So does draining: it loses only chunks of a generator that takes no more.
LEMMA DrainOrders ==
  ASSUME Types, Threads, Orders, Drain
  PROVE  Orders'
<1>1. main \in Closing /\ current \in Gens /\ stop[current]
  BY FeedAssumption DEF Drain, Types, Threads, MainStates, User, Orders, OfMain
<1>2. /\ main'.at \in {"draining", "closed"} /\ main'.then = main.then
      /\ UNCHANGED <<gen, reader, stop, current>>
      /\ \A g \in Gens : g # current => queue'[g] = queue[g]
  BY <1>1 DEF Drain, Types, Closing
<1>3. OfMain'
  BY <1>1, <1>2 DEF Drain, Orders, OfMain
<1>4. ASSUME NEW g \in Gens PROVE OfGen(g)'
  <2>1. CASE g = current
    <3>1. gen[g].pc # "new" /\ Seen(g)' = Seen(g)
      BY <1>2, <2>1 DEF Orders, OfGen, Fresh, Seen
    <3> QED BY <1>1, <1>2, <2>1, <3>1 DEF Orders, OfGen
  <2>2. CASE g # current
    BY <1>2, <2>2, Frame DEF Orders
  <2> QED BY <2>1, <2>2
<1> QED BY <1>3, <1>4 DEF Orders

\* So does what follows a close().
LEMMA ClosedOrders ==
  ASSUME Types, Threads, Orders, Closed
  PROVE  Orders'
<1>0. gen \in [Gens -> GenStates] /\ reader \in [Gens -> ReaderStates]
  BY DEF Types
<1>1. ASSUME NEW c \in Gens, c = main.then.g, main.then.at = "start",
             gen'    = [gen EXCEPT ![c].pc = "running"],
             reader' = [reader EXCEPT ![c].pc = "reading"],
             current' = c, main' = [at |-> "waiting", g |-> c], UNCHANGED <<queue, stop>>
      PROVE  Orders'
  <2>1. gen[c].pc = "new" /\ OfGen(c) /\ Fresh(c)
    BY <1>1, ClosedDoes DEF Orders, OfMain, OfGen
  <2>2. /\ gen'[c].pc = "running" /\ gen'[c].out = gen[c].out /\ gen'[c].fed = gen[c].fed
        /\ reader'[c].pc = "reading" /\ reader'[c].next = 1 /\ queue'[c] = <<>> /\ ~stop'[c]
    BY <1>0, <1>1, <2>1 DEF GenStates, ReaderStates, Fresh
  <2>3. Seen(c)' = <<>> /\ Ahead(c)' = <<>>
    BY <2>1, <2>2 DEF Seen, Ahead, Held, Fresh
  <2>4. Lined(c)'
    BY <2>2, <2>3, FeedAssumption DEF Lined, Follows, Reached, End
  <2>5. OfGen(c)'
    BY <2>2, <2>3, <2>4 DEF OfGen, Counted
  <2>6. ASSUME NEW g \in Gens, g # c PROVE OfGen(g)'
    BY <1>0, <1>1, <2>6, Frame DEF Orders
  <2>7. OfMain'
    BY <1>1, <2>2 DEF OfMain
  <2> QED BY <2>5, <2>6, <2>7 DEF Orders
<1>2. ASSUME NEW c \in Gens, gen' = [gen EXCEPT ![c].pc = "done"], main' = User,
             UNCHANGED <<reader, current, queue, stop>>
      PROVE  Orders'
  <2>1. /\ gen'[c].pc = "done" /\ gen'[c].out = gen[c].out /\ gen'[c].fed = gen[c].fed
        /\ OfGen(c)
    BY <1>0, <1>2 DEF GenStates, Orders
  <2>2. /\ Seen(c)' = Seen(c) /\ Ahead(c)' = Ahead(c)
    BY <1>2, <2>1 DEF Seen, Ahead, Held
  <2>3. Lined(c)' = Lined(c)
    BY <1>2, <2>2 DEF Lined, Reached
  <2>4. OfGen(c)'
    BY <1>2, <2>1, <2>2, <2>3 DEF OfGen
  <2>5. ASSUME NEW g \in Gens, g # c PROVE OfGen(g)'
    BY <1>0, <1>2, <2>5, Frame DEF Orders
  <2>6. OfMain'
    BY <1>2 DEF OfMain, User
  <2> QED BY <2>4, <2>5, <2>6 DEF Orders
<1>3. CASE /\ main' = User /\ UNCHANGED <<gen, reader, current, thread>>
           /\ UNCHANGED <<queue, stop, overlap>>
  <2>1. OfMain'
    BY <1>3 DEF OfMain, User
  <2> QED BY <1>3, <2>1, Frame DEF Orders
<1> QED BY <1>1, <1>2, <1>3, ClosedDoes

\* So does taking an item.
LEMMA NextItemOrders ==
  ASSUME Types, Threads, Orders, NEW g \in Gens, NextItem(g)
  PROVE  Orders'
<1> DEFINE item == Head(queue[g])
           n    == Len(Seen(g))
<1>0. gen \in [Gens -> GenStates] /\ queue \in [Gens -> Seq(Nat)] /\ gen[g] \in GenStates
  BY DEF Types
<1>1. /\ current = g /\ main.g = g /\ main.at = "waiting" /\ ~stop[g] /\ gen[g].pc = "running"
      /\ queue[g] # <<>> /\ queue' = [queue EXCEPT ![g] = Tail(@)]
      /\ UNCHANGED <<reader, current>>
  BY NextItemDoes DEF Orders, OfMain
<1>2. CASE Close([at |-> "end", g |-> g]) /\ UNCHANGED gen
  <2>1. [at |-> "end", g |-> g] \in {User} \cup Steps
    BY DEF Steps
  <2>2. \A h \in Gens : h # current => queue'[h] = queue[h]
    BY <1>0, <1>1
  <2> QED BY <1>1, <1>2, <2>1, <2>2, ClosingOrders
<1>3. OfGen(g) /\ Lined(g)
  BY <1>1 DEF Orders, OfGen
<1>4. /\ queue'[g] = Tail(queue[g]) /\ Tail(queue[g]) \in Seq(Nat)
      /\ Len(Tail(queue[g])) = Len(queue[g]) - 1 /\ Len(queue[g]) \in Nat \ {0}
      /\ \A i \in 1 .. Len(Tail(queue[g])) : Tail(queue[g])[i] = queue[g][i + 1]
  BY <1>0, <1>1, HeadTailProperties, EmptySeq
<1>5. Ahead(g) # <<>> /\ Ahead(g)[1] = item /\ Ahead(g)' = Tail(Ahead(g))
  <2>1. Held(g)' = Held(g) /\ Held(g) \in Seq(Nat)
    BY <1>1, Shape DEF Held
  <2>2. queue[g] \o Held(g) # <<>> /\ (queue[g] \o Held(g))[1] = queue[g][1]
    BY <1>0, <1>4, <2>1, ConcatProperties, EmptySeq
  <2>3. Tail(queue[g] \o Held(g)) = Tail(queue[g]) \o Held(g)
    BY <1>0, <1>4, <2>1
  <2>4. item = queue[g][1]
    BY <1>0, <1>1
  <2>5. Ahead(g)' = Tail(queue[g]) \o Held(g)
    BY <1>4, <2>1 DEF Ahead
  <2> QED BY <2>2, <2>3, <2>4, <2>5 DEF Ahead
<1>6. Follows(Ahead(g)', n + 1) /\ Len(Ahead(g)') = Len(Ahead(g)) - 1 /\ Len(Ahead(g)) \in Nat \ {0}
  BY <1>3, <1>5, Shape, FollowsTail, EmptySeq DEF Lined
<1>7. item # Error => item = n + 1
  <2>1. 1 \in 1 .. Len(Ahead(g))
    BY <1>6
  <2>2. Ahead(g)[1] = n + 1 \/ Ahead(g)[1] = Error
    BY <1>3, <2>1 DEF Lined, Follows
  <2> QED BY <1>5, <2>2
<1>8. ASSUME NEW h \in Gens, h # g, \A f \in Gens : f # g => gen'[f] = gen[f], UNCHANGED stop
      PROVE  OfGen(h)'
  BY <1>0, <1>1, <1>8, Frame DEF Orders
<1> HIDE DEF item, n
<1>9. CASE /\ item \in 1 .. Chunks /\ \E cut \in BOOLEAN : Take(g, item, cut)
           /\ UNCHANGED thread
  <2>1. PICK cut \in BOOLEAN : Take(g, item, cut)
    BY <1>9
  <2>2. /\ Seen(g)' = Append(Seen(g), item) /\ gen'[g].pc \in {"running", "suspended"}
        /\ main' = User \/ (main' = main /\ gen'[g].pc = "running")
        /\ \A f \in Gens : f # g => gen'[f] = gen[f]
        /\ UNCHANGED stop
    <3>1. gen[g].out \in Seq(Nat) /\ gen[g].fed \in Seq(Nat) /\ item \in Nat
      <4>1. item \in Nat
        BY <1>9, FeedAssumption
      <4> QED BY <4>1, Shape
    <3>2. Append(gen[g].fed, item) \in Seq(Nat)
      BY <3>1
    <3>3. gen[g].out \o Append(gen[g].fed, item) = Append(Seen(g), item)
      BY <3>1, AppendConcat DEF Seen
    <3>4. gen[g].out \o Append(gen[g].fed, item) \in Seq(Nat)
      BY <3>1, <3>2, ConcatProperties
    <3>5. CASE cut
      <4>1. /\ gen'[g].pc = "suspended" /\ gen'[g].fed = <<>>
            /\ gen'[g].out = gen[g].out \o Append(gen[g].fed, item)
        BY <1>0, <2>1, <3>5 DEF Take, GenStates
      <4>2. Seen(g)' = gen[g].out \o Append(gen[g].fed, item)
        BY <3>4, <4>1, ConcatEmptySeq DEF Seen
      <4> QED BY <1>0, <2>1, <3>3, <3>5, <4>1, <4>2 DEF Take
    <3>6. CASE ~cut
      <4>1. /\ gen'[g].pc = gen[g].pc /\ gen'[g].fed = Append(gen[g].fed, item)
            /\ gen'[g].out = gen[g].out
        BY <1>0, <2>1, <3>6 DEF Take, GenStates
      <4> QED BY <1>0, <1>1, <2>1, <3>3, <3>6, <4>1 DEF Take, Seen
    <3> QED BY <3>5, <3>6
  <2>3. item = n + 1 /\ Counted(Seen(g)')
    <3>1. item # Error
      BY <1>9, FeedAssumption DEF Error
    <3> QED BY <1>3, <1>7, <2>2, <3>1, Shape, CountedOn DEF OfGen, n
  <2>4. Len(Seen(g)') = n + 1
    BY <2>2, <2>3, Shape DEF n
  <2>5. Lined(g)'
    <3>1. Reached(g)' = Reached(g)
      BY <1>6, <2>4, Shape DEF Reached, n
    <3>2. (\A i \in 1 .. Len(queue[g]) : queue[g][i] # Error)
            => \A i \in 1 .. Len(queue'[g]) : queue'[g][i] # Error
      <4>1. ASSUME NEW i \in 1 .. Len(Tail(queue[g]))
            PROVE  i + 1 \in 1 .. Len(queue[g]) /\ Tail(queue[g])[i] = queue[g][i + 1]
        BY <1>4
      <4> QED BY <1>4, <4>1
    <3> QED BY <1>1, <1>3, <1>6, <2>4, <3>1, <3>2 DEF Lined
  <2>6. OfGen(g)'
    BY <2>2, <2>3, <2>5 DEF OfGen
  <2>7. OfMain'
    BY <1>1, <2>2 DEF OfMain, User
  <2> QED BY <1>8, <2>2, <2>6, <2>7 DEF Orders
<1>10. CASE /\ item = End
            /\ gen' = [gen EXCEPT ![g].pc = "last", ![g].out = @ \o gen[g].fed, ![g].fed = <<>>]
            /\ main' = User /\ UNCHANGED <<stop, thread>>
  <2>1. n = Chunks /\ n \in Nat
    BY <1>7, <1>10, Shape, FeedAssumption DEF End, Error, n
  <2>2. /\ gen'[g].out = Seen(g) /\ gen'[g].fed = <<>> /\ gen'[g].pc = "last"
        /\ \A f \in Gens : f # g => gen'[f] = gen[f]
    BY <1>0, <1>10 DEF GenStates, Seen
  <2>3. Seen(g)' = Seen(g)
    BY <2>2, Shape, ConcatEmptySeq DEF Seen
  <2>4. Len(Ahead(g)) = 1
    BY <1>3, <1>6, <2>1, FeedAssumption DEF Lined, Reached, End, n
  <2>5. reader[g].pc \notin {"reading", "checking", "putting"}
    <3>1. reader[g].pc # "reading"
      BY <1>3, <1>6, <2>1, <2>4, FeedAssumption DEF Lined, Reached, End, n
    <3>2. reader[g].pc \notin {"checking", "putting"}
      <4>1. /\ Len(Ahead(g)) = Len(queue[g]) + Len(Held(g))
            /\ reader[g].pc \in {"checking", "putting"} => Len(Held(g)) = 1
        BY Shape
      <4>2. Len(queue[g]) \in Nat /\ Len(queue[g]) # 0
        <5>1. queue[g] \in Seq(Nat) /\ queue[g] # <<>>
          BY <1>0, <1>1
        <5> QED BY <5>1, EmptySeq
      <4>3. ASSUME reader[g].pc \in {"checking", "putting"} PROVE FALSE
        <5>1. Len(queue[g]) + 1 = 1
          BY <2>4, <4>1, <4>3
        <5> QED BY <4>2, <5>1
      <4> QED BY <4>3
    <3> QED BY <3>1, <3>2
  <2>6. Ahead(g)' = <<>>
    <3>1. Ahead(g)' \in Seq(Nat) /\ Len(Ahead(g)') = 0
      <4>1. Tail(Ahead(g)) \in Seq(Nat)
        BY <1>5, Shape, HeadTailProperties, Zenon
      <4> QED BY <1>5, <1>6, <2>4, <4>1
    <3> QED BY <3>1, EmptySeq
  <2>7. Lined(g)'
    BY <1>1, <2>1, <2>3, <2>5, <2>6, FeedAssumption DEF Lined, Follows, Reached, End, n
  <2>8. OfGen(g)'
    BY <1>3, <2>1, <2>2, <2>3, <2>7 DEF OfGen, n
  <2>9. OfMain'
    BY <1>10 DEF OfMain, User
  <2> QED BY <1>8, <1>10, <2>2, <2>8, <2>9 DEF Orders
<1> QED BY <1>1, <1>2, <1>9, <1>10, NextItemDoes DEF item

\* So does whatever the caller asks, while no generator resumes after another started.
LEMMA CallerOrders ==
  ASSUME Types, Threads, Orders, ~overlap, CallerStep
  PROVE  Orders'
<1>0. gen \in [Gens -> GenStates]
  BY DEF Types
<1>1. CASE CloseFeed
  <2>1. User.at # "start"
    BY DEF User
  <2> QED BY <1>1, <2>1, ClosingOrders DEF CloseFeed
<1>2. ASSUME NEW g \in Gens, NEW next \in {"start", "end"}, Close([at |-> next, g |-> g]),
             UNCHANGED <<gen, reader, queue, current>>, next = "start" => gen[g].pc = "new"
      PROVE  Orders'
  <2>1. [at |-> next, g |-> g] \in {User} \cup Steps
    BY DEF Steps
  <2> QED BY <1>2, <2>1, ClosingOrders
<1>3. ASSUME NEW g \in Gens, Start(g) PROVE Orders'
  BY <1>2, <1>3 DEF Start
<1>4. ASSUME NEW g \in Gens, Leave(g) PROVE Orders'
  BY <1>2, <1>4 DEF Leave
<1>5. ASSUME NEW g \in Gens, Resume(g) PROVE Orders'
  <2>1. CASE Close([at |-> "end", g |-> g]) /\ UNCHANGED gen
    BY <1>2, <1>5, <2>1 DEF Resume
  <2>2. CASE /\ gen'  = [gen EXCEPT ![g].pc = "running"]
             /\ main' = [at |-> "waiting", g |-> g] /\ UNCHANGED <<stop, thread>>
             /\ gen[g].pc = "suspended"
    <3>1. current = g /\ ~stop[g] /\ UNCHANGED <<reader, queue, current>> /\ OfGen(g)
      BY <1>5 DEF Resume, Usable, Orders
    <3>2. gen'[g].pc = "running" /\ gen'[g].out = gen[g].out /\ gen'[g].fed = gen[g].fed
      BY <1>0, <2>2 DEF GenStates
    <3>3. Seen(g)' = Seen(g) /\ Ahead(g)' = Ahead(g)
      BY <3>1, <3>2 DEF Seen, Ahead, Held
    <3>4. Lined(g)' = Lined(g)
      BY <3>1, <3>3 DEF Lined, Reached
    <3>5. OfGen(g)'
      BY <2>2, <3>1, <3>2, <3>3, <3>4 DEF OfGen
    <3>6. ASSUME NEW h \in Gens, h # g PROVE OfGen(h)'
      BY <1>0, <2>2, <3>1, <3>6, Frame DEF Orders
    <3>7. OfMain'
      BY <2>2, <3>1, <3>2 DEF OfMain
    <3> QED BY <3>5, <3>6, <3>7 DEF Orders
  <2> QED BY <1>5, <2>1, <2>2 DEF Resume
<1> QED BY <1>1, <1>3, <1>4, <1>5 DEF CallerStep

\* So does every step.
LEMMA StepOrders ==
  ASSUME Types, Threads, Orders, ~overlap, [Next]_vars
  PROVE  Orders'
<1>1. CASE UNCHANGED vars
  <2>1. OfMain'
    BY <1>1 DEF vars, Orders, OfMain
  <2> QED BY <1>1, <2>1, Frame DEF vars, Orders
<1>2. CASE MainStep
  BY <1>1, <1>2, DrainOrders, ClosedOrders, NextItemOrders DEF MainStep, GetTimesOut
<1>3. CASE CallerStep
  BY <1>3, CallerOrders
<1>4. ASSUME NEW g \in Gens, ReaderStep(g) PROVE Orders'
  BY <1>4, ReaderOrders
<1> QED BY <1>1, <1>2, <1>3, <1>4 DEF Next

-----------------------------------------------------------------------------
(* The theorems.                                                           *)

\* Every step keeps the invariant.
LEMMA StepInvariant ==
  ASSUME IInv, [Next]_vars
  PROVE  IInv'
<1>1. overlap' = overlap
  BY DEF Next, vars, MainStep, Drain, Closed, GetTimesOut, NextItem, CallerStep, CloseFeed,
     Start, Resume, Leave, ReaderStep, Read, CheckStop, Put
<1> QED BY <1>1, StepThreads, StepOrders DEF IInv

\* The invariant holds throughout.
LEMMA Invariant == Spec => []IInv
<1> QED BY InitInvariant, StepInvariant, PTL DEF Spec

\* close() is over with its thread before _thread is None and batches() starts
\* one after close(): so no two threads ever read the file at once, and none is
\* left behind, with any number of generators however the caller uses them.
THEOREM OneReaderHolds == Spec => []OneReader
<1>1. IInv => OneReader
  BY FeedAssumption DEF IInv, Threads, OneReader
<1> QED BY <1>1, Invariant, PTL

\* What batches() yields are the chunks of the file from the first, in order, each
\* once, and all of them past the last batch: for a file of any number of chunks,
\* a queue of any size and any number of generators used one after another.
THEOREM EveryChunkOnceHolds == Spec => []EveryChunkOnce
<1>1. ASSUME IInv PROVE EveryChunkOnce
  <2>1. ASSUME ~overlap, NEW g \in Gens
        PROVE  /\ Seen(g) = [i \in 1 .. Len(Seen(g)) |-> i]
               /\ gen[g].pc = "last" => Len(gen[g].out) = Chunks
    <3>1. OfGen(g) /\ Seen(g) \in Seq(Nat)
      BY <1>1, <2>1, Shape DEF IInv, Orders
    <3>2. Seen(g) = [i \in 1 .. Len(Seen(g)) |-> Seen(g)[i]]
      BY <3>1
    <3> QED BY <3>1, <3>2 DEF OfGen, Counted
  <2> QED BY <2>1 DEF EveryChunkOnce, Seen
<1> QED BY <1>1, Invariant, PTL
=============================================================================
