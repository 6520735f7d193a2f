------------------------------- MODULE Convert --------------------------------
(***************************************************************************)
(* itch2parquet convert (python/itch_book/cli.py): the main thread takes   *)
(* batches from the feed and puts one payload per table on a bounded       *)
(* queue, a writer thread writes them to part files, close() renames these *)
(* and flag_broken() rewrites trades; a failure goes through abort().      *)
(*                                                                         *)
(* A file is the payloads written to it, by their place in Work, whether   *)
(* it has its footer, and whether the voided trades are flagged in it.     *)
(* Runs follow one another in one directory, and one may be killed.        *)
(***************************************************************************)
EXTENDS Integers, Sequences, FiniteSets, SequencesExt

CONSTANTS
  Tables,       \* every table a run may write
  Trades,       \* the one flag_broken() rewrites
  Selections,   \* what may be asked of a run: sequences of tables
  LastTables,   \* the sequence of tables written after the last batch
  Batches,      \* how many batches the feed gives
  Runs,         \* how many runs are looked at
  Faults        \* what may fail: "feed", "open", "write", "close", "rename", "flag",
                \* "interrupt", "kill"

QueueSize == 2

ASSUME ConvertAssumption ==
  /\ Batches \in Nat /\ Runs \in Nat
  /\ IsFiniteSet(Tables) /\ Trades \in Tables
  /\ \A s \in Selections \cup {LastTables} : s \in Seq(Tables)

VARIABLES
  run,       \* the run: its number, the tables asked for, whether a trade is voided
  main,      \* the main thread: where it is, how far in its loop, whether in abort()
  thread,    \* the writer thread: where it is, the payload at hand
  queue,     \* Writers.queue; 0 is None
  error,     \* whether Writers.error is set
  writers,   \* Writers.writers, a dict: its tables in order
  part, final, \* the files <table>.parquet.part and <table>.parquet
  struck       \* history: what failed in the run

vars == <<run, main, thread, queue, error, writers, part, final, struck>>
files == <<part, final>>

NoFile == [run |-> 0, rows |-> <<>>, footer |-> FALSE, flagged |-> FALSE]

\* A file the run has just created.
Empty == [run |-> run.n, rows |-> <<>>, footer |-> FALSE, flagged |-> FALSE]

\* The table of every payload of a run, in the order of the writes.
Work ==
  LET n == Len(run.tables)
  IN [i \in 1 .. Batches * n + Len(LastTables) |->
       IF i <= Batches * n THEN run.tables[((i - 1) % n) + 1] ELSE LastTables[i - Batches * n]]

\* The rows of a table: every payload of its own, once and in order.
AllOf(t, rows) ==
  /\ ToSet(rows) = {i \in 1 .. Len(Work) : Work[i] = t}
  /\ \A i, j \in DOMAIN rows : i < j => rows[i] < rows[j]

At(pc, i) == [pc |-> pc, i |-> i, aborting |-> main.aborting]

Strike(fault) == fault \in Faults /\ struck' = struck \cup {fault}

Over == main.pc \in {"off", "done", "failed"}

-----------------------------------------------------------------------------
(* The main thread, from the start to the last write.                      *)

TableOrder == SetToSeq(Tables)

Start ==
  /\ Over /\ run.n < Runs
  /\ \E s \in Selections : \E v \in BOOLEAN :
       run' = [n |-> run.n + 1, tables |-> s, voided |-> v /\ Batches > 0 /\ Trades \in ToSet(s)]
  /\ main'    = [pc |-> "clean", i |-> 1, aborting |-> FALSE]
  /\ thread'  = [pc |-> "none", item |-> 0]
  /\ queue'   = <<>> /\ error' = FALSE /\ writers' = <<>> /\ struck' = {}
  /\ UNCHANGED files

Cleaned == IF main.i < Len(TableOrder) THEN At("clean", main.i + 1) ELSE At("writers", 1)

\* Mutant of Clean: part files of an earlier run are left.
CleanFinals ==
  /\ main.pc = "clean"
  /\ final' = [final EXCEPT ![TableOrder[main.i]] = NoFile]
  /\ main'  = Cleaned
  /\ UNCHANGED <<run, thread, queue, error, writers, part, struck>>

\* The files of every table there is are unlinked, one table after the other.
Clean ==
  /\ main.pc = "clean"
  /\ final' = [final EXCEPT ![TableOrder[main.i]] = NoFile]
  /\ part'  = [part EXCEPT ![TableOrder[main.i]] = NoFile]
  /\ main'  = Cleaned
  /\ UNCHANGED <<run, thread, queue, error, writers, struck>>

\* Writers(): its thread is started.
NewWriters ==
  /\ main.pc = "writers"
  /\ thread' = [pc |-> "get", item |-> 0]
  /\ main'   = At("send", 1)
  /\ UNCHANGED <<run, queue, error, writers, files, struck>>

\* write() raises the thread's error, or goes on to the put.
Send ==
  /\ main.pc = "send" /\ main.i <= Len(Work)
  /\ main' = At(IF error THEN "abort" ELSE "put", main.i)
  /\ UNCHANGED <<run, thread, queue, error, writers, files, struck>>

\* The feed or the loop raises before the join, or an interrupt comes any time after.
Raise ==
  /\ \/ Strike("feed") /\ main.pc \in {"send", "put"}
     \/ /\ Strike("interrupt") /\ ~main.aborting
        /\ main.pc \in {"join", "close", "rename", "flag", "flagged"}
  /\ main' = At("abort", 1)
  /\ UNCHANGED <<run, thread, queue, error, writers, files>>

Put ==
  /\ main.pc = "put" /\ Len(queue) < QueueSize
  /\ queue' = Append(queue, main.i)
  /\ main'  = At("send", main.i + 1)
  /\ UNCHANGED <<run, thread, error, writers, files, struck>>

-----------------------------------------------------------------------------
(* The writer thread: _run() and _write().                                 *)

Get ==
  /\ thread.pc = "get" /\ queue # <<>>
  /\ queue'  = Tail(queue)
  /\ thread' = LET item == Head(queue)
               IN [pc |-> IF item = 0 THEN "dead" ELSE IF error THEN "get"
                          ELSE IF Contains(writers, Work[item]) THEN "write" ELSE "open",
                   item |-> item]
  /\ UNCHANGED <<run, main, error, writers, files, struck>>

\* A table's first payload makes its writer; one that cannot be made may leave
\* the file it has created.
Open ==
  /\ thread.pc = "open"
  /\ LET t == Work[thread.item]
     IN \/ /\ part'    = [part EXCEPT ![t] = Empty]
           /\ writers' = Append(writers, t)
           /\ thread'  = [thread EXCEPT !.pc = "write"]
           /\ UNCHANGED <<error, struck>>
        \/ /\ Strike("open")
           /\ \E f \in {part[t], Empty} : part' = [part EXCEPT ![t] = f]
           /\ error'  = TRUE
           /\ thread' = [thread EXCEPT !.pc = "get"]
           /\ UNCHANGED writers
  /\ UNCHANGED <<run, main, queue, final>>

Grown(file) == [file EXCEPT !.rows = Append(@, thread.item)]

\* Mutant of Write: an exception ends the thread.
WriteDying ==
  /\ thread.pc = "write"
  /\ \/ /\ part'   = [part EXCEPT ![Work[thread.item]] = Grown(@)]
        /\ thread' = [thread EXCEPT !.pc = "get"]
        /\ UNCHANGED <<error, struck>>
     \/ /\ Strike("write")
        /\ error'  = TRUE
        /\ thread' = [thread EXCEPT !.pc = "dead"]
        /\ UNCHANGED part
  /\ UNCHANGED <<run, main, queue, writers, final>>

\* An exception is kept for the main thread, and the thread goes on taking items.
Write ==
  /\ thread.pc = "write"
  /\ \/ /\ part'   = [part EXCEPT ![Work[thread.item]] = Grown(@)]
        /\ UNCHANGED <<error, struck>>
     \/ /\ Strike("write")
        /\ error' = TRUE
        /\ UNCHANGED part
  /\ thread' = [thread EXCEPT !.pc = "get"]
  /\ UNCHANGED <<run, main, queue, writers, final>>

-----------------------------------------------------------------------------
(* close(), flag_broken() and abort().                                     *)

\* _join(): None is put, behind whatever is queued.
PutNone ==
  /\ \/ main.pc = "send" /\ main.i > Len(Work)
     \/ main.pc = "leave"
  /\ Len(queue) < QueueSize
  /\ queue' = Append(queue, 0)
  /\ main'  = At("join", 1)
  /\ UNCHANGED <<run, thread, error, writers, files, struck>>

\* Mutant of Joined: close() does not ask for the thread's error.
JoinedTrusting ==
  /\ main.pc = "join" /\ thread.pc = "dead"
  /\ thread' = [thread EXCEPT !.pc = "none"]
  /\ main' = At(IF main.aborting THEN "unlink" ELSE "close", 1)
  /\ UNCHANGED <<run, queue, error, writers, files, struck>>

Joined ==
  /\ main.pc = "join" /\ thread.pc = "dead"
  /\ thread' = [thread EXCEPT !.pc = "none"]
  /\ main' = At(IF main.aborting THEN "unlink" ELSE IF error THEN "abort" ELSE "close", 1)
  /\ UNCHANGED <<run, queue, error, writers, files, struck>>

\* The footer of one table's part file is written.
CloseWriter ==
  /\ main.pc = "close" /\ main.i <= Len(writers)
  /\ \/ /\ part' = [part EXCEPT ![writers[main.i]] = [@ EXCEPT !.footer = TRUE]]
        /\ main' = At("rename", main.i)
        /\ UNCHANGED struck
     \/ /\ Strike("close")
        /\ main' = At("abort", 1)
        /\ UNCHANGED part
  /\ UNCHANGED <<run, thread, queue, error, writers, final>>

Rename ==
  /\ main.pc = "rename"
  /\ LET t == writers[main.i]
     IN \/ /\ final' = [final EXCEPT ![t] = part[t]]
           /\ part'  = [part EXCEPT ![t] = NoFile]
           /\ main'  = At("close", main.i + 1)
           /\ UNCHANGED struck
        \/ /\ Strike("rename")
           /\ main' = At("abort", 1)
           /\ UNCHANGED files
  /\ UNCHANGED <<run, thread, queue, error, writers>>

\* The writers are forgotten: what comes now, abort() does not see.
AllClosed ==
  /\ main.pc = "close" /\ main.i > Len(writers)
  /\ writers' = <<>>
  /\ main'    = At(IF run.voided THEN "flag" ELSE "done", 1)
  /\ UNCHANGED <<run, thread, queue, error, files, struck>>

\* flag_broken(): trades is copied to its part file, which a failure unlinks.
Flag ==
  /\ main.pc = "flag"
  /\ part' = [part EXCEPT ![Trades] = Empty]
  /\ main' = At("flagging", 1)
  /\ UNCHANGED <<run, thread, queue, error, writers, final, struck>>

Flagging ==
  /\ main.pc = "flagging"
  /\ \/ /\ part' = [part EXCEPT ![Trades] = [final[Trades] EXCEPT !.flagged = TRUE]]
        /\ main' = At("flagged", 1)
        /\ UNCHANGED struck
     \/ /\ Strike("flag")
        /\ part' = [part EXCEPT ![Trades] = NoFile]
        /\ main' = At("abort", 1)
  /\ UNCHANGED <<run, thread, queue, error, writers, final>>

Flagged ==
  /\ main.pc = "flagged"
  /\ \/ /\ final' = [final EXCEPT ![Trades] = part[Trades]]
        /\ part'  = [part EXCEPT ![Trades] = NoFile]
        /\ main'  = At("done", 1)
        /\ UNCHANGED struck
     \/ /\ Strike("rename")
        /\ main' = At("abort", 1)
        /\ UNCHANGED files
  /\ UNCHANGED <<run, thread, queue, error, writers>>

\* Mutant of Abort: the thread is not waited for.
AbortUnjoined ==
  /\ main.pc = "abort"
  /\ error' = TRUE
  /\ main'  = [pc |-> "unlink", i |-> 1, aborting |-> TRUE]
  /\ UNCHANGED <<run, thread, queue, writers, files, struck>>

\* From here the thread writes nothing more; it is told to end, if it has not been
\* joined.
Abort ==
  /\ main.pc = "abort"
  /\ error' = TRUE
  /\ main'  = [pc |-> IF thread.pc = "none" THEN "unlink" ELSE "leave", i |-> 1,
               aborting |-> TRUE]
  /\ UNCHANGED <<run, thread, queue, writers, files, struck>>

\* Every writer is closed and its part file unlinked; a close that raises ends
\* abort() after the unlink.
Unlink ==
  /\ main.pc = "unlink"
  /\ IF main.i > Len(writers)
       THEN /\ writers' = <<>> /\ main' = At("failed", 1) /\ UNCHANGED <<part, struck>>
       ELSE LET t == writers[main.i]
            IN /\ part' = [part EXCEPT ![t] = NoFile]
               /\ \/ main' = At("unlink", main.i + 1) /\ UNCHANGED struck
                  \/ /\ Strike("close") /\ part[t] # NoFile /\ ~part[t].footer
                     /\ main' = At("failed", 1)
               /\ UNCHANGED writers
  /\ UNCHANGED <<run, thread, queue, error, final>>

\* The process dies, the daemon thread with it.
Kill ==
  /\ Strike("kill") /\ ~Over
  /\ main'   = At("off", 1)
  /\ thread' = [thread EXCEPT !.pc = "none"]
  /\ UNCHANGED <<run, queue, error, writers, files>>

-----------------------------------------------------------------------------

Init ==
  /\ run     = [n |-> 0, tables |-> <<>>, voided |-> FALSE]
  /\ main    = [pc |-> "off", i |-> 1, aborting |-> FALSE]
  /\ thread  = [pc |-> "none", item |-> 0]
  /\ queue   = <<>> /\ error = FALSE /\ writers = <<>> /\ struck = {}
  /\ part    = [t \in Tables |-> NoFile]
  /\ final   = [t \in Tables |-> NoFile]

MainStep ==
  \/ Clean \/ NewWriters \/ Send \/ Put \/ PutNone \/ Joined \/ CloseWriter \/ Rename
  \/ AllClosed \/ Flag \/ Flagging \/ Flagged \/ Abort \/ Unlink

ThreadStep == Get \/ Open \/ Write

\* No more runs to look at.
Rest == Over /\ run.n = Runs /\ UNCHANGED vars

Next == Start \/ MainStep \/ ThreadStep \/ Raise \/ Kill \/ Rest

\* Both threads are scheduled; nothing makes a user start a run.
Spec == Init /\ [][Next]_vars /\ WF_vars(MainStep) /\ WF_vars(ThreadStep)

-----------------------------------------------------------------------------
(* Correctness.                                                            *)

\* At any time, whatever failed and whenever a run was killed, a file under its
\* final name is whole: every payload of its table once and in order, and a footer.
\* (A run that was killed before it removed them leaves an earlier run's files.)
FinalsWhole ==
  \A t \in Tables : final[t] # NoFile =>
    final[t].footer /\ (final[t].run = run.n => AllOf(t, final[t].rows))

\* A run that succeeds leaves the files of its tables, all its own, trades flagged
\* when one was voided, and of no other table or run anything.
Complete ==
  main.pc = "done" =>
    \A t \in Tables :
      /\ part[t] = NoFile
      /\ IF t \in ToSet(Work)
           THEN /\ final[t].run = run.n /\ AllOf(t, final[t].rows)
                /\ final[t].flagged = (t = Trades /\ run.voided)
           ELSE final[t] = NoFile

\* A run that the feed or a write failed leaves nothing behind, whatever the writer
\* thread was doing then and whatever an earlier run had left.
NothingLeft ==
  main.pc = "failed" /\ struck \subseteq {"feed", "write"} =>
    \A t \in Tables : part[t] = NoFile /\ final[t] = NoFile

\* README.md:187 says so of every failed run.
FailedLeavesNothing ==
  main.pc = "failed" => \A t \in Tables : part[t] = NoFile /\ final[t] = NoFile

\* A run ends: neither thread waits for the other for ever, on the full queue or in
\* the join, whichever of them fails first.
Ends == [](~Over => <>Over)
=============================================================================
