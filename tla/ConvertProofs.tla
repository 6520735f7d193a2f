---------------------------- MODULE ConvertProofs -----------------------------
(***************************************************************************)
(* What itch2parquet convert promises of its files, proved for every set   *)
(* of tables, number of batches and of runs, and whatever fails: that a    *)
(* file under its final name is whole, that a run that succeeds leaves     *)
(* exactly its own, and that one the feed or a write failed leaves none.   *)
(***************************************************************************)
EXTENDS Convert, FunctionTheorems, FiniteSetTheorems, SequenceTheorems, TLAPS

MainPlaces == {"off", "clean", "writers", "send", "put", "join", "close", "rename",
               "flag", "flagging", "flagged", "done", "abort", "leave", "unlink", "failed"}
ThreadPlaces == {"none", "get", "open", "write", "dead"}
FaultNames == {"feed", "open", "write", "close", "rename", "flag", "interrupt", "kill"}

Files == [run : Nat, rows : Seq(Nat), footer : BOOLEAN, flagged : BOOLEAN]

Types ==
  /\ run \in [n : Nat, tables : Seq(Tables), voided : BOOLEAN]
  /\ main \in [pc : MainPlaces, i : Nat \ {0}, aborting : BOOLEAN]
  /\ thread \in [pc : ThreadPlaces, item : Nat]
  /\ queue \in Seq(0 .. Len(Work)) /\ error \in BOOLEAN
  /\ writers \in Seq(Tables) /\ IsInjective(writers)
  /\ part \in [Tables -> Files] /\ final \in [Tables -> Files]
  /\ struck \subseteq FaultNames

Working == thread.pc \in {"open", "write"}

\* Where the two threads can be at the same time.
Together ==
  /\ main.pc \in {"send", "put"} => thread.pc \in {"get", "open", "write"}
  /\ main.pc \in {"join", "leave"} => thread.pc # "none"
  /\ main.pc \notin {"send", "put", "join", "leave", "abort"} => thread.pc = "none"
  /\ main.pc \in {"leave", "unlink", "failed"} => main.aborting
  /\ main.aborting => main.pc \in {"leave", "unlink", "failed", "join", "off"}
  /\ main.aborting => error \/ main.pc = "off"
  /\ main.pc \in {"close", "rename", "flag", "flagging", "flagged", "done"} => ~error
  /\ main.pc # "off" => run.n # 0
  /\ ToSet(writers) \subseteq ToSet(Work)
  /\ Working => /\ thread.item \in 1 .. Len(Work)
                /\ thread.pc = "open"  => Work[thread.item] \notin ToSet(writers)
                /\ thread.pc = "write" => Work[thread.item] \in ToSet(writers)

\* The main thread is still handing out payloads, or waits for the last to be written.
Flowing == main.pc \in {"send", "put"} \/ (main.pc = "join" /\ ~main.aborting)

Sent  == IF main.pc = "join" THEN Len(Work) ELSE main.i - 1
Left  == IF main.pc = "join" /\ thread.pc # "dead" THEN Len(queue) - 1 ELSE Len(queue)
Taken == Sent - Left
Ended == IF Working THEN Taken - 1 ELSE Taken

\* The queue holds the payloads sent last, in order, with None behind the very last.
Flow ==
  Flowing =>
    /\ Left \in 0 .. Sent /\ Sent \in 0 .. Len(Work)
    /\ \A k \in 1 .. Left : queue[k] = Taken + k
    /\ Working => thread.item = Taken
    /\ main.pc = "put" => main.i <= Len(Work)
    /\ main.pc = "join" => IF thread.pc = "dead" THEN queue = <<>>
                           ELSE queue # <<>> /\ queue[Len(queue)] = 0

\* The rows are the first k payloads' of the table.
UpTo(work, t, rows, k) ==
  /\ ToSet(rows) = {i \in 1 .. k : work[i] = t}
  /\ \A i, j \in DOMAIN rows : i < j => rows[i] < rows[j]

All(work, t, rows) == UpTo(work, t, rows, Len(work))

Whole(work, n, t, f) == f.run = n /\ All(work, t, f.rows) /\ f.footer

\* Until something fails every payload the thread is done with is in its file.
Written ==
  Flowing /\ ~error =>
    \A t \in Tables :
      /\ UpTo(Work, t, part[t].rows, Ended)
      /\ t \in ToSet(writers) => part[t].run = run.n /\ ~part[t].footer /\ ~part[t].flagged
      /\ t \notin ToSet(writers) => part[t] = NoFile
      /\ final[t] = NoFile

\* Files are finished one after the other, in the order of the writers.
Closing ==
  main.pc \in {"close", "rename"} =>
    /\ main.i <= Len(writers) + 1
    /\ main.pc = "rename" => main.i <= Len(writers)
    /\ \A t \in Tables \ ToSet(writers) :
         part[t] = NoFile /\ final[t] = NoFile /\ \A i \in 1 .. Len(Work) : Work[i] # t
    /\ \A j \in DOMAIN writers :
         LET t == writers[j]
         IN IF j < main.i
              THEN part[t] = NoFile /\ Whole(Work, run.n, t, final[t]) /\ ~final[t].flagged
              ELSE /\ All(Work, t, part[t].rows)
                   /\ part[t].run = run.n /\ ~part[t].flagged
                   /\ part[t].footer = (main.pc = "rename" /\ j = main.i)

\* Then every table has its file, and trades may be written once more.
Closed ==
  main.pc \in {"flag", "flagging", "flagged", "done"} =>
    /\ \A t \in Tables :
         IF t \in ToSet(Work)
           THEN /\ Whole(Work, run.n, t, final[t])
                /\ final[t].flagged = (t = Trades /\ run.voided /\ main.pc = "done")
           ELSE final[t] = NoFile
    /\ \A t \in Tables : part[t] # NoFile => t = Trades /\ main.pc \in {"flagging", "flagged"}
    /\ main.pc # "done" => run.voided
    /\ main.pc = "flagged" => /\ Whole(Work, run.n, Trades, part[Trades])
                              /\ part[Trades].flagged

VoidedWorked == run.voided => Trades \in ToSet(Work)

\* A run starts by removing what is there.
Cleaning ==
  /\ main.pc \in {"clean", "writers"} => ~error /\ queue = <<>> /\ writers = <<>> /\ struck = {}
  /\ main.pc = "clean" =>
       /\ main.i <= Len(TableOrder)
       /\ \A j \in 1 .. main.i - 1 : part[TableOrder[j]] = NoFile /\ final[TableOrder[j]] = NoFile
       /\ \A t \in Tables : final[t].run < run.n
  /\ main.pc = "writers" => \A t \in Tables : part[t] = NoFile /\ final[t] = NoFile

\* Nothing but the feed and writes has failed in this run.
Mild == main.pc \notin {"off", "clean"} /\ struck \subseteq {"feed", "write"}

\* Then every part file there is has its writer, which abort() goes through.
Tidy ==
  Mild =>
    /\ main.pc \in {"send", "put", "join", "abort", "leave", "unlink"} =>
         \A t \in Tables :
           /\ final[t] = NoFile
           /\ part[t] # NoFile => t \in ToSet(writers)
           /\ part[t] # NoFile /\ main.pc = "unlink" =>
                \E j \in DOMAIN writers : j >= main.i /\ writers[j] = t
    /\ main.pc = "failed" => \A t \in Tables : part[t] = NoFile /\ final[t] = NoFile

\* No file is of a run to come, and the files under their final names are whole.
Past ==
  \A t \in Tables :
    /\ final[t] # NoFile => final[t].footer /\ final[t].run # 0
    /\ final[t].run <= run.n
    /\ final[t].run = run.n /\ run.n # 0 => All(Work, t, final[t].rows)

CInv ==
  /\ Types /\ Together /\ Flow /\ Written /\ Closing /\ Closed /\ VoidedWorked
  /\ Cleaning /\ Tidy /\ Past

-----------------------------------------------------------------------------
(* What there is to write, and to remove.                                  *)

\* Work, of the tables asked for.
WorkOf(tables) ==
  LET n == Len(tables)
  IN [i \in 1 .. Batches * n + Len(LastTables) |->
       IF i <= Batches * n THEN tables[((i - 1) % n) + 1] ELSE LastTables[i - Batches * n]]

\* Every payload of a run is of some table, and the first are of the tables asked for.
LEMMA WorkFrom ==
  ASSUME NEW tables \in Seq(Tables)
  PROVE  /\ WorkOf(tables) \in Seq(Tables) /\ Len(WorkOf(tables)) \in Nat
         /\ Batches > 0 => ToSet(tables) \subseteq ToSet(WorkOf(tables))
<1> DEFINE n == Len(tables)
           m == Batches * n
           l == Len(LastTables)
<1>1. n \in Nat /\ l \in Nat /\ Batches \in Nat /\ LastTables \in Seq(Tables)
  BY ConvertAssumption
<1>2. m \in Nat /\ (n = 0 => m = 0) /\ (Batches > 0 => n <= m)
  BY <1>1
<1> DEFINE at(i) == IF i <= m THEN tables[((i - 1) % n) + 1] ELSE LastTables[i - m]
           work == WorkOf(tables)
<1>3. work = [i \in 1 .. m + l |-> at(i)]
  BY DEF WorkOf
<1> HIDE DEF m
<1>4. ASSUME NEW i \in 1 .. m + l PROVE at(i) \in Tables
  <2>1. CASE i <= m
    <3>1. n > 0 /\ i - 1 \in Nat
      BY <1>1, <1>2, <2>1
    <3> DEFINE k == (i - 1) % n
    <3> HIDE DEF n
    <3>2. k \in 0 .. n - 1
      BY <1>1, <3>1
    <3> HIDE DEF k
    <3>3. k + 1 \in 1 .. n
      BY <1>1, <3>2
    <3>4. tables[k + 1] \in Tables
      BY <3>3 DEF n
    <3>5. QED
      BY <2>1, <3>4 DEF k
  <2>2. CASE ~ i <= m
    BY <1>1, <1>2, <2>2
  <2>3. QED
    BY <2>1, <2>2
<1> HIDE DEF at, n, l, work
<1>5. m + l \in Nat
  BY <1>1, <1>2
<1>6. work \in Seq(Tables) /\ Len(work) = m + l /\ DOMAIN work = 1 .. m + l
  BY <1>3, <1>4, <1>5
<1>7. ASSUME Batches > 0, NEW t \in ToSet(tables) PROVE t \in ToSet(work)
  <2>1. PICK j \in 1 .. n : tables[j] = t
    BY DEF ToSet, n
  <2>2. n \in Nat /\ j - 1 \in 0 .. n - 1
    BY <1>1, <2>1
  <2>3. (j - 1) % n = j - 1
    BY <2>2
  <2>4. j \in 1 .. m + l /\ j <= m
    BY <1>1, <1>2, <1>7, <2>1
  <2>5. work[j] = t
    BY <1>1, <1>3, <2>1, <2>3, <2>4 DEF at
  <2>6. QED
    BY <1>6, <2>4, <2>5 DEF ToSet
<1>8. QED
  BY <1>5, <1>6, <1>7 DEF work

\* The same of the run at hand.
LEMMA WorkTyped ==
  ASSUME run.tables \in Seq(Tables)
  PROVE  /\ Work \in Seq(Tables) /\ Len(Work) \in Nat
         /\ Batches > 0 => ToSet(run.tables) \subseteq ToSet(Work)
<1>1. Work = WorkOf(run.tables)
  BY DEF Work, WorkOf
<1>2. QED
  BY <1>1, WorkFrom

\* Every table comes in the order in which files are removed.
LEMMA EveryTable ==
  /\ TableOrder \in Seq(Tables) /\ Len(TableOrder) \in Nat \ {0}
  /\ \A t \in Tables : \E j \in 1 .. Len(TableOrder) : TableOrder[j] = t
<1> DEFINE n == Cardinality(Tables)
           Lists(f) == f \in [1 .. n -> Tables] /\ IsInjective(f)
<1>1. n \in Nat /\ IsFiniteSet(Tables)
  BY ConvertAssumption, FS_CardinalityType
<1>2. ExistsBijection(1 .. n, Tables)
  BY <1>1, FS_NatBijection, FS_CountingElements
<1>3. PICK f : f \in Bijection(1 .. n, Tables)
  BY <1>2 DEF ExistsBijection
<1>4. f \in [1 .. n -> Tables] /\ IsInjective(f)
  BY <1>3 DEF Bijection, Injection
<1>5. TableOrder \in [1 .. n -> Tables] /\ IsInjective(TableOrder)
  BY <1>4 DEF TableOrder, SetToSeq
<1>6. TableOrder \in Seq(Tables) /\ Len(TableOrder) = n
  BY <1>1, <1>5
<1>7. n # 0
  BY <1>1, ConvertAssumption, FS_EmptySet
<1>8. TableOrder \in Injection(1 .. n, Tables)
  BY <1>5 DEF Injection
<1>9. ASSUME NEW t \in Tables PROVE \E j \in 1 .. n : TableOrder[j] = t
  <2>1. IsFiniteSet(1 .. n) /\ Cardinality(1 .. n) = n
    BY <1>1, FS_Interval
  <2>2. TableOrder \in Surjection(1 .. n, Tables)
    BY <1>1, <1>8, <2>1, FS_Injection, FS_Surjection
  <2>3. QED
    BY <2>2 DEF Surjection
<1>10. QED
  BY <1>1, <1>6, <1>7, <1>9

\* What no file says.
LEMMA NoFileIs ==
  /\ NoFile \in Files /\ NoFile.run = 0 /\ NoFile.rows = <<>>
  /\ NoFile.footer = FALSE /\ NoFile.flagged = FALSE
<1>1. <<>> \in Seq(Nat)
  OBVIOUS
<1>2. /\ NoFile \in Files /\ NoFile.run = 0 /\ NoFile.rows = <<>>
      /\ NoFile.footer = FALSE /\ NoFile.flagged = FALSE
  BY <1>1 DEF NoFile, Files
<1>3. QED
  BY <1>2

\* The elements of the empty sequence, and of one that has grown.
LEMMA ToSetGrows ==
  /\ ToSet(<<>>) = {}
  /\ \A S, e : \A s \in Seq(S) : ToSet(Append(s, e)) = ToSet(s) \cup {e}
<1>1. ToSet(<<>>) = {}
  BY DEF ToSet
<1>2. ASSUME NEW S, NEW s \in Seq(S), NEW e
      PROVE  ToSet(Append(s, e)) = ToSet(s) \cup {e}
  <2>1. Len(s) \in Nat /\ DOMAIN s = 1 .. Len(s)
    BY <1>2
  <2>2. /\ DOMAIN Append(s, e) = 1 .. Len(s) + 1
        /\ Append(s, e)[Len(s) + 1] = e
        /\ \A i \in 1 .. Len(s) : Append(s, e)[i] = s[i]
    BY <1>2
  <2>3. ASSUME NEW x \in ToSet(Append(s, e)) PROVE x \in ToSet(s) \cup {e}
    BY <2>1, <2>2 DEF ToSet
  <2>4. ASSUME NEW x \in ToSet(s) \cup {e} PROVE x \in ToSet(Append(s, e))
    BY <2>1, <2>2 DEF ToSet
  <2>5. QED
    BY <2>3, <2>4
<1>3. QED
  BY <1>1, <1>2

\* Nothing written is the first no payloads of a table; a payload more is in its file
\* when it is of that table.
LEMMA UpToGrows ==
  ASSUME NEW work, NEW t
  PROVE  /\ UpTo(work, t, <<>>, 0)
         /\ \A k \in Nat, rows \in Seq(Nat) :
              UpTo(work, t, rows, k) =>
                /\ work[k + 1] # t => UpTo(work, t, rows, k + 1)
                /\ work[k + 1] = t => UpTo(work, t, Append(rows, k + 1), k + 1)
<1>1. UpTo(work, t, <<>>, 0)
  BY ToSetGrows DEF UpTo
<1>2. ASSUME NEW k \in Nat, NEW rows \in Seq(Nat), UpTo(work, t, rows, k)
      PROVE  /\ work[k + 1] # t => UpTo(work, t, rows, k + 1)
             /\ work[k + 1] = t => UpTo(work, t, Append(rows, k + 1), k + 1)
  <2>1. ToSet(rows) = {i \in 1 .. k : work[i] = t}
    BY <1>2 DEF UpTo
  <2>2. \A i \in 1 .. k + 1 : i \in 1 .. k \/ i = k + 1
    OBVIOUS
  <2>3. CASE work[k + 1] # t
    <3>1. {i \in 1 .. k + 1 : work[i] = t} = {i \in 1 .. k : work[i] = t}
      BY <2>2, <2>3
    <3>2. QED
      BY <1>2, <2>1, <2>3, <3>1 DEF UpTo
  <2>4. CASE work[k + 1] = t
    <3> DEFINE more == Append(rows, k + 1)
    <3>1. {i \in 1 .. k + 1 : work[i] = t} = {i \in 1 .. k : work[i] = t} \cup {k + 1}
      BY <2>2, <2>4
    <3>2. ToSet(more) = ToSet(rows) \cup {k + 1}
      BY ToSetGrows
    <3>3. /\ Len(rows) \in Nat /\ DOMAIN rows = 1 .. Len(rows)
          /\ DOMAIN more = 1 .. Len(rows) + 1 /\ more[Len(rows) + 1] = k + 1
          /\ \A i \in 1 .. Len(rows) : more[i] = rows[i]
      OBVIOUS
    <3> HIDE DEF more
    <3>4. \A i \in 1 .. Len(rows) : rows[i] \in 1 .. k
      BY <2>1, <3>3 DEF ToSet
    <3>5. \A i, j \in DOMAIN more : i < j => more[i] < more[j]
      <4>1. ASSUME NEW i \in DOMAIN more, NEW j \in DOMAIN more, i < j
            PROVE  more[i] < more[j]
        <5>1. i \in 1 .. Len(rows)
          BY <3>3, <4>1
        <5>2. CASE j = Len(rows) + 1
          <6>1. rows[i] \in 1 .. k /\ more[i] = rows[i]
            BY <3>3, <3>4, <5>1
          <6>2. QED
            BY <3>3, <5>2, <6>1
        <5>3. CASE j \in 1 .. Len(rows)
          BY <1>2, <3>3, <4>1, <5>1, <5>3 DEF UpTo
        <5>4. QED
          BY <3>3, <5>2, <5>3
      <4>2. QED
        BY <4>1
    <3>6. UpTo(work, t, more, k + 1)
      BY <2>1, <3>1, <3>2, <3>5 DEF UpTo
    <3>7. QED
      BY <2>4, <3>6 DEF more
  <2>5. QED
    BY <2>3, <2>4
<1>3. QED
  BY <1>1, <1>2

\* After the last of Clean nothing of an earlier run is left.
LEMMA CleanKeeps ==
  ASSUME CInv, Clean
  PROVE  CInv'
<1>w. Work' = Work
  BY DEF Clean, Work
<1>p. /\ main.pc = "clean" /\ main.i \in 1 .. Len(TableOrder)
      /\ part'  = [part EXCEPT ![TableOrder[main.i]] = NoFile]
      /\ final' = [final EXCEPT ![TableOrder[main.i]] = NoFile]
      /\ part \in [Tables -> Files] /\ final \in [Tables -> Files]
      /\ TableOrder[main.i] \in Tables /\ run.n \in Nat \ {0}
  BY EveryTable DEF CInv, Clean, Cleaning, Types, Together
<1>1. Types'
  <2>1. run' \in [n : Nat, tables : Seq(Tables), voided : BOOLEAN]
    BY <1>w DEF CInv, Types, Clean, files, Cleaned, At
  <2>2. main' \in [pc : MainPlaces, i : Nat \ {0}, aborting : BOOLEAN]
    BY <1>w DEF CInv, Types, MainPlaces, Clean, files, Cleaned, At
  <2>3. thread' \in [pc : ThreadPlaces, item : Nat]
    BY <1>w DEF CInv, Types, ThreadPlaces, Clean, files, Cleaned, At
  <2>4. queue' \in Seq(0 .. Len(Work)) /\ error' \in BOOLEAN
    BY <1>w DEF CInv, Types, Clean, files, Cleaned, At
  <2>5. writers' \in Seq(Tables) /\ IsInjective(writers')
    BY <1>w DEF CInv, Types, Clean, files, Cleaned, At
  <2>6. part' \in [Tables -> Files] /\ final' \in [Tables -> Files]
    BY <1>w, <1>p, NoFileIs DEF CInv, Types, Files, NoFile, Clean, files, Cleaned, At
  <2>7. struck' \subseteq FaultNames
    BY <1>w DEF CInv, Types, FaultNames, Clean, files, Cleaned, At
  <2>8. QED
    BY <1>w, <2>1, <2>2, <2>3, <2>4, <2>5, <2>6, <2>7 DEF Types
<1>2. Together'
  BY <1>w DEF CInv, Types, Together, Working, Clean, files, Cleaned, At
<1>3. Flow'
  BY <1>w DEF CInv, Types, Together, Working, Flow, Flowing, Sent, Left, Taken, Clean, files,
     Cleaned, At
<1>4. Written'
  BY <1>w DEF CInv, Types, Together, Working, Flow, Written, Flowing, Sent, Left, Taken,
     Ended, Clean, files, Cleaned, At
<1>5. Closing'
  BY <1>w DEF CInv, Types, Together, Closing, Clean, files, Cleaned, At
<1>6. Closed'
  BY <1>w DEF CInv, Types, Together, Closed, Clean, files, Cleaned, At
<1>7. VoidedWorked'
  BY <1>w DEF CInv, VoidedWorked, Clean, files, Cleaned, At
<1>8. Cleaning'
  <2>1. ASSUME NEW j \in 1 .. main.i
        PROVE  part'[TableOrder[j]] = NoFile /\ final'[TableOrder[j]] = NoFile
    <3>a. main.i \in Nat \ {0} /\ main.i <= Len(TableOrder) /\ Len(TableOrder) \in Nat
      BY <1>p, EveryTable
    <3>b. j \in Nat /\ 1 <= j /\ j <= main.i
      BY <2>1, <3>a
    <3>c. j \in 1 .. Len(TableOrder) /\ (j # main.i => j \in 1 .. main.i - 1)
      BY <3>a, <3>b
    <3>1. TableOrder[j] \in Tables /\ (j # main.i => j \in 1 .. main.i - 1)
      BY <3>c, EveryTable
    <3>2. j # main.i => part[TableOrder[j]] = NoFile /\ final[TableOrder[j]] = NoFile
      BY <1>p, <3>1 DEF CInv, Cleaning
    <3>3. QED
      BY <1>p, <3>1, <3>2
  <2>2. \A t \in Tables : final'[t].run < run.n
    BY <1>p, NoFileIs DEF CInv, Cleaning
  <2>3. ~error' /\ queue' = <<>> /\ writers' = <<>> /\ struck' = {} /\ run' = run
    BY DEF CInv, Cleaning, Clean
  <2>4. CASE main.i < Len(TableOrder)
    <3>1. main'.pc = "clean" /\ main'.i = main.i + 1
      BY <2>4 DEF Clean, Cleaned, At
    <3>2. main'.i <= Len(TableOrder) /\ main'.i - 1 = main.i
      <4>1. Len(TableOrder) \in Nat /\ main.i \in Nat
        BY <1>p, EveryTable
      <4>2. QED
        BY <2>4, <3>1, <4>1
    <3>3. QED
      BY <2>1, <2>2, <2>3, <3>1, <3>2 DEF Cleaning
  <2>5. CASE ~ main.i < Len(TableOrder)
    <3>1. main'.pc = "writers" /\ main.i = Len(TableOrder)
      BY <1>p, <2>5, EveryTable DEF Clean, Cleaned, At
    <3>2. \A t \in Tables : part'[t] = NoFile /\ final'[t] = NoFile
      BY <2>1, <3>1, EveryTable
    <3>3. QED
      BY <2>3, <3>1, <3>2 DEF Cleaning
  <2>6. QED
    BY <2>4, <2>5
<1>9. Tidy'
  BY <1>w DEF CInv, Types, Together, Tidy, Mild, Clean, files, Cleaned, At
<1>10. Past'
  <2>1. run' = run
    BY DEF Clean
  <2>2. ASSUME NEW t \in Tables
        PROVE  final'[t] = NoFile \/ (final'[t] = final[t] /\ final[t].run < run.n)
    BY <1>p DEF CInv, Cleaning
  <2>3. QED
    BY <1>w, <1>p, <2>1, <2>2, NoFileIs DEF CInv, Past, Types, Files
<1>11. QED
  BY <1>1, <1>2, <1>3, <1>4, <1>5, <1>6, <1>7, <1>8, <1>9, <1>10 DEF CInv

\* The thread starts with nothing written and nothing queued.
LEMMA NewWritersKeeps ==
  ASSUME CInv, NewWriters
  PROVE  CInv'
<1>w. Work' = Work
  BY DEF NewWriters, Work
<1>1. Types'
  <2>1. run' \in [n : Nat, tables : Seq(Tables), voided : BOOLEAN]
    BY <1>w DEF CInv, Types, NewWriters, files, At
  <2>2. main' \in [pc : MainPlaces, i : Nat \ {0}, aborting : BOOLEAN]
    BY <1>w DEF CInv, Types, MainPlaces, NewWriters, files, At
  <2>3. thread' \in [pc : ThreadPlaces, item : Nat]
    BY <1>w DEF CInv, Types, ThreadPlaces, NewWriters, files, At
  <2>4. queue' \in Seq(0 .. Len(Work)) /\ error' \in BOOLEAN
    BY <1>w DEF CInv, Types, NewWriters, files, At
  <2>5. writers' \in Seq(Tables) /\ IsInjective(writers')
    BY <1>w DEF CInv, Types, NewWriters, files, At
  <2>6. part' \in [Tables -> Files] /\ final' \in [Tables -> Files]
    BY <1>w DEF CInv, Types, Files, NoFile, NewWriters, files, At
  <2>7. struck' \subseteq FaultNames
    BY <1>w DEF CInv, Types, FaultNames, NewWriters, files, At
  <2>8. QED
    BY <1>w, <2>1, <2>2, <2>3, <2>4, <2>5, <2>6, <2>7 DEF Types
<1>2. Together'
  BY <1>w DEF CInv, Types, Together, Working, NewWriters, files, At
<1>3. Flow'
  BY <1>w, WorkTyped DEF CInv, Types, Together, Working, Flow, Flowing, Sent, Left, Taken,
     NewWriters, files, At, Cleaning
<1>4. Written'
  <2>1. /\ main' = At("send", 1) /\ thread' = [pc |-> "get", item |-> 0]
        /\ queue' = <<>> /\ writers' = <<>> /\ part' = part /\ final' = final
        /\ \A t \in Tables : part[t] = NoFile /\ final[t] = NoFile
    BY DEF CInv, Cleaning, NewWriters, files
  <2>2. Ended' = 0
    BY <2>1 DEF Ended, Working, Taken, Sent, Left, At
  <2>3. QED
    BY <2>1, <2>2, NoFileIs, UpToGrows, ToSetGrows DEF Written
<1>5. Closing'
  BY <1>w DEF CInv, Types, Together, Closing, NewWriters, files, At
<1>6. Closed'
  BY <1>w DEF CInv, Types, Together, Closed, NewWriters, files, At
<1>7. VoidedWorked'
  BY <1>w DEF CInv, VoidedWorked, NewWriters, files, At
<1>8. Cleaning'
  BY <1>w DEF CInv, Types, Together, Cleaning, NewWriters, files, At
<1>9. Tidy'
  BY <1>w DEF CInv, Types, Together, Tidy, Mild, NewWriters, files, At, Cleaning
<1>10. Past'
  BY <1>w DEF CInv, Types, Past, NewWriters, files, At
<1>11. QED
  BY <1>1, <1>2, <1>3, <1>4, <1>5, <1>6, <1>7, <1>8, <1>9, <1>10 DEF CInv

\* Nothing but the place of the main thread changes when write() looks at the error.
LEMMA SendKeeps ==
  ASSUME CInv, Send
  PROVE  CInv'
<1>w. Work' = Work
  BY DEF Send, Work
<1>1. Types'
  <2>1. run' \in [n : Nat, tables : Seq(Tables), voided : BOOLEAN]
    BY <1>w DEF CInv, Types, Send, files, At
  <2>2. main' \in [pc : MainPlaces, i : Nat \ {0}, aborting : BOOLEAN]
    BY <1>w DEF CInv, Types, MainPlaces, Send, files, At
  <2>3. thread' \in [pc : ThreadPlaces, item : Nat]
    BY <1>w DEF CInv, Types, ThreadPlaces, Send, files, At
  <2>4. queue' \in Seq(0 .. Len(Work)) /\ error' \in BOOLEAN
    BY <1>w DEF CInv, Types, Send, files, At
  <2>5. writers' \in Seq(Tables) /\ IsInjective(writers')
    BY <1>w DEF CInv, Types, Send, files, At
  <2>6. part' \in [Tables -> Files] /\ final' \in [Tables -> Files]
    BY <1>w DEF CInv, Types, Files, NoFile, Send, files, At
  <2>7. struck' \subseteq FaultNames
    BY <1>w DEF CInv, Types, FaultNames, Send, files, At
  <2>8. QED
    BY <1>w, <2>1, <2>2, <2>3, <2>4, <2>5, <2>6, <2>7 DEF Types
<1>2. Together'
  BY <1>w DEF CInv, Types, Together, Working, Send, files, At
<1>3. Flow'
  BY <1>w DEF CInv, Types, Together, Working, Flow, Flowing, Sent, Left, Taken, Send, files, At
<1>4. Written'
  BY <1>w DEF CInv, Types, Together, Working, Flow, Written, Flowing, Sent, Left, Taken,
     Ended, Send, files, At
<1>5. Closing'
  BY <1>w DEF CInv, Types, Together, Closing, Send, files, At
<1>6. Closed'
  BY <1>w DEF CInv, Types, Together, Closed, Send, files, At
<1>7. VoidedWorked'
  BY <1>w DEF CInv, VoidedWorked, Send, files, At
<1>8. Cleaning'
  BY <1>w DEF CInv, Types, Together, Cleaning, Send, files, At
<1>9. Tidy'
  BY <1>w DEF CInv, Types, Together, Tidy, Mild, Send, files, At
<1>10. Past'
  BY <1>w DEF CInv, Types, Past, Send, files, At
<1>11. QED
  BY <1>1, <1>2, <1>3, <1>4, <1>5, <1>6, <1>7, <1>8, <1>9, <1>10 DEF CInv

\* An exception from the feed leaves abort() every file there is to find.
LEMMA RaiseKeeps ==
  ASSUME CInv, Raise
  PROVE  CInv'
<1>w. Work' = Work
  BY DEF Raise, Work
<1>1. Types'
  <2>1. run' \in [n : Nat, tables : Seq(Tables), voided : BOOLEAN]
    BY <1>w DEF CInv, Types, Raise, files, At, Strike
  <2>2. main' \in [pc : MainPlaces, i : Nat \ {0}, aborting : BOOLEAN]
    BY <1>w DEF CInv, Types, MainPlaces, Raise, files, At, Strike
  <2>3. thread' \in [pc : ThreadPlaces, item : Nat]
    BY <1>w DEF CInv, Types, ThreadPlaces, Raise, files, At, Strike
  <2>4. queue' \in Seq(0 .. Len(Work)) /\ error' \in BOOLEAN
    BY <1>w DEF CInv, Types, Raise, files, At, Strike
  <2>5. writers' \in Seq(Tables) /\ IsInjective(writers')
    BY <1>w DEF CInv, Types, Raise, files, At, Strike
  <2>6. part' \in [Tables -> Files] /\ final' \in [Tables -> Files]
    BY <1>w DEF CInv, Types, Files, NoFile, Raise, files, At, Strike
  <2>7. struck' \subseteq FaultNames
    BY <1>w DEF CInv, Types, FaultNames, Raise, files, At, Strike
  <2>8. QED
    BY <1>w, <2>1, <2>2, <2>3, <2>4, <2>5, <2>6, <2>7 DEF Types
<1>2. Together'
  BY <1>w DEF CInv, Types, Together, Working, Raise, files, At, Strike
<1>3. Flow'
  BY <1>w DEF CInv, Types, Together, Working, Flow, Flowing, Sent, Left, Taken, Raise, files,
     At, Strike
<1>4. Written'
  BY <1>w DEF CInv, Types, Together, Working, Flow, Written, Flowing, Sent, Left, Taken,
     Ended, Raise, files, At, Strike
<1>5. Closing'
  BY <1>w DEF CInv, Types, Together, Closing, Raise, files, At, Strike
<1>6. Closed'
  BY <1>w DEF CInv, Types, Together, Closed, Raise, files, At, Strike
<1>7. VoidedWorked'
  BY <1>w DEF CInv, VoidedWorked, Raise, files, At, Strike
<1>8. Cleaning'
  BY <1>w DEF CInv, Types, Together, Cleaning, Raise, files, At, Strike
<1>9. Tidy'
  <2>1. main'.pc = "abort" /\ UNCHANGED <<writers, part, final>>
    BY DEF Raise, At, files
  <2>2. CASE Strike("feed") /\ main.pc \in {"send", "put"}
    <3>1. Mild' => Mild
      BY <2>2 DEF Mild, Strike
    <3>2. QED
      BY <2>1, <2>2, <3>1 DEF CInv, Tidy
  <2>3. CASE Strike("interrupt")
    BY <2>3 DEF Tidy, Mild, Strike
  <2>4. QED
    BY <2>2, <2>3 DEF Raise
<1>10. Past'
  BY <1>w DEF CInv, Types, Past, Raise, files, At, Strike
<1>11. QED
  BY <1>1, <1>2, <1>3, <1>4, <1>5, <1>6, <1>7, <1>8, <1>9, <1>10 DEF CInv

\* A payload put is the one behind those queued.
LEMMA PutKeeps ==
  ASSUME CInv, Put
  PROVE  CInv'
<1>w. Work' = Work
  BY DEF Put, Work
<1>1. Types'
  <2>1. run' \in [n : Nat, tables : Seq(Tables), voided : BOOLEAN]
    BY <1>w DEF CInv, Types, Put, files, At, QueueSize
  <2>2. main' \in [pc : MainPlaces, i : Nat \ {0}, aborting : BOOLEAN]
    BY <1>w DEF CInv, Types, MainPlaces, Put, files, At, QueueSize
  <2>3. thread' \in [pc : ThreadPlaces, item : Nat]
    BY <1>w DEF CInv, Types, ThreadPlaces, Put, files, At, QueueSize
  <2>4. queue' \in Seq(0 .. Len(Work)) /\ error' \in BOOLEAN
    BY <1>w, WorkTyped DEF CInv, Types, Put, files, At, QueueSize, Flow, Flowing
  <2>5. writers' \in Seq(Tables) /\ IsInjective(writers')
    BY <1>w DEF CInv, Types, Put, files, At, QueueSize
  <2>6. part' \in [Tables -> Files] /\ final' \in [Tables -> Files]
    BY <1>w DEF CInv, Types, Files, NoFile, Put, files, At, QueueSize
  <2>7. struck' \subseteq FaultNames
    BY <1>w DEF CInv, Types, FaultNames, Put, files, At, QueueSize
  <2>8. QED
    BY <1>w, <2>1, <2>2, <2>3, <2>4, <2>5, <2>6, <2>7 DEF Types
<1>2. Together'
  BY <1>w DEF CInv, Types, Together, Working, Put, files, At, QueueSize
<1>3. Flow'
  <2>1. /\ main.pc = "put" /\ main'.pc = "send" /\ main'.i = main.i + 1 /\ main.i \in Nat \ {0}
        /\ queue' = Append(queue, main.i) /\ queue \in Seq(0 .. Len(Work))
        /\ thread' = thread /\ thread.pc # "dead"
    BY DEF CInv, Types, Together, Put, At
  <2>2. /\ Left \in 0 .. Sent /\ Sent = main.i - 1 /\ main.i <= Len(Work) /\ Len(Work) \in Nat
        /\ Left = Len(queue) /\ Taken = Sent - Left
        /\ \A k \in 1 .. Left : queue[k] = Taken + k
        /\ Working => thread.item = Taken
    BY <2>1, WorkTyped DEF CInv, Types, Flow, Flowing, Left, Taken, Sent
  <2>3. /\ Len(queue') = Len(queue) + 1 /\ queue'[Len(queue) + 1] = main.i
        /\ \A k \in 1 .. Len(queue) : queue'[k] = queue[k]
    BY <2>1
  <2>4. Left' = Left + 1 /\ Sent' = main.i /\ Taken' = Taken /\ (Working' <=> Working)
    BY <2>1, <2>2, <2>3 DEF Left, Sent, Taken, Working
  <2>5. ASSUME NEW k \in 1 .. Left' PROVE queue'[k] = Taken' + k
    <3>1. CASE k \in 1 .. Left
      <4>1. queue'[k] = queue[k] /\ queue[k] = Taken + k
        BY <2>2, <2>3, <3>1
      <4>2. QED
        BY <2>4, <4>1
    <3>2. CASE k = Len(queue) + 1
      <4>1. queue'[k] = main.i
        BY <2>3, <3>2
      <4>2. Taken' + k = (main.i - 1 - Len(queue)) + (Len(queue) + 1) /\ Len(queue) \in Nat
        BY <2>1, <2>2, <2>4, <3>2
      <4>3. \A a, b \in Nat : (a - 1 - b) + (b + 1) = a
        OBVIOUS
      <4>4. (main.i - 1 - Len(queue)) + (Len(queue) + 1) = main.i
        BY ONLY <2>1, <4>2, <4>3
      <4>5. QED
        BY ONLY <4>1, <4>2, <4>4
    <3>3. k \in 1 .. Left \/ k = Len(queue) + 1
      BY <2>2, <2>4
    <3>4. QED
      BY <3>1, <3>2, <3>3
  <2>6. QED
    BY <1>w, <2>1, <2>2, <2>4, <2>5 DEF Flow
<1>4. Written'
  BY <1>w DEF CInv, Types, Together, Working, Flow, Written, Flowing, Sent, Left, Taken,
     Ended, Put, files, At, QueueSize
<1>5. Closing'
  BY <1>w DEF CInv, Types, Together, Closing, Put, files, At, QueueSize
<1>6. Closed'
  BY <1>w DEF CInv, Types, Together, Closed, Put, files, At, QueueSize
<1>7. VoidedWorked'
  BY <1>w DEF CInv, VoidedWorked, Put, files, At, QueueSize
<1>8. Cleaning'
  BY <1>w DEF CInv, Types, Together, Cleaning, Put, files, At, QueueSize
<1>9. Tidy'
  BY <1>w DEF CInv, Types, Together, Tidy, Mild, Put, files, At, QueueSize
<1>10. Past'
  BY <1>w DEF CInv, Types, Past, Put, files, At, QueueSize
<1>11. QED
  BY <1>1, <1>2, <1>3, <1>4, <1>5, <1>6, <1>7, <1>8, <1>9, <1>10 DEF CInv

\* A payload taken is the next in the order of the work, and None comes last.
LEMMA GetKeeps ==
  ASSUME CInv, Get
  PROVE  CInv'
<1>w. Work' = Work
  BY DEF Get, Work
<1>p. /\ thread.pc = "get" /\ queue # <<>> /\ queue \in Seq(0 .. Len(Work))
      /\ queue' = Tail(queue) /\ Len(queue) \in Nat \ {0} /\ Len(Work) \in Nat
      /\ Len(queue') = Len(queue) - 1 /\ Head(queue) = queue[1] /\ queue[1] \in 0 .. Len(Work)
      /\ \A k \in 1 .. Len(queue) - 1 : queue'[k] = queue[k + 1]
      /\ UNCHANGED <<run, main, error, writers, part, final, struck>>
  <2>1. thread.pc = "get" /\ queue # <<>> /\ queue \in Seq(0 .. Len(Work)) /\ queue' = Tail(queue)
    BY DEF CInv, Types, Get
  <2>2. Len(Work) \in Nat /\ UNCHANGED <<run, main, error, writers, part, final, struck>>
    BY WorkTyped DEF CInv, Types, Get, files
  <2>3. QED
    BY <2>1, <2>2, EmptySeq, HeadTailProperties
<1>q. /\ thread'.item = queue[1]
      /\ thread'.pc = IF queue[1] = 0 THEN "dead" ELSE IF error THEN "get"
                      ELSE IF Contains(writers, Work[queue[1]]) THEN "write" ELSE "open"
  BY <1>p DEF Get
<1>r. Flowing => /\ Left = (IF main.pc = "join" THEN Len(queue) - 1 ELSE Len(queue))
                 /\ Left \in Nat /\ Sent \in Nat /\ Taken = Sent - Left
                 /\ \A k \in 1 .. Left : queue[k] = Taken + k
                 /\ Left # 0 => queue[1] = Taken + 1 /\ queue[1] # 0
  <2>1. Flowing => /\ Left = (IF main.pc = "join" THEN Len(queue) - 1 ELSE Len(queue))
                   /\ Left \in 0 .. Sent /\ Sent \in Nat
                   /\ \A k \in 1 .. Left : queue[k] = Taken + k
    BY <1>p DEF CInv, Flow, Left
  <2>2. QED
    BY <2>1 DEF Taken
<1>1. Types'
  <2>1. run' \in [n : Nat, tables : Seq(Tables), voided : BOOLEAN]
    BY <1>w DEF CInv, Types, Get, files
  <2>2. main' \in [pc : MainPlaces, i : Nat \ {0}, aborting : BOOLEAN]
    BY <1>w DEF CInv, Types, MainPlaces, Get, files
  <2>3. thread' \in [pc : ThreadPlaces, item : Nat]
    BY <1>w DEF CInv, Types, ThreadPlaces, Get, files
  <2>4. queue' \in Seq(0 .. Len(Work)) /\ error' \in BOOLEAN
    BY <1>w DEF CInv, Types, Get, files
  <2>5. writers' \in Seq(Tables) /\ IsInjective(writers')
    BY <1>w DEF CInv, Types, Get, files
  <2>6. part' \in [Tables -> Files] /\ final' \in [Tables -> Files]
    BY <1>w DEF CInv, Types, Files, NoFile, Get, files
  <2>7. struck' \subseteq FaultNames
    BY <1>w DEF CInv, Types, FaultNames, Get, files
  <2>8. QED
    BY <1>w, <2>1, <2>2, <2>3, <2>4, <2>5, <2>6, <2>7 DEF Types
<1>2. Together'
  <2>1. Contains(writers, Work[queue[1]]) <=> Work[queue[1]] \in ToSet(writers)
    <3>1. DOMAIN writers = 1 .. Len(writers)
      BY DEF CInv, Types
    <3>2. QED
      BY <3>1 DEF Contains, ToSet
  <2>2. main.pc \in {"send", "put"} => queue[1] # 0
    BY <1>p, <1>r DEF Flowing
  <2>3. Working' => thread'.item \in 1 .. Len(Work)
    BY <1>p, <1>q DEF Working
  <2>4. /\ Working' /\ thread'.pc = "open"  => Work[thread'.item] \notin ToSet(writers)
        /\ Working' /\ thread'.pc = "write" => Work[thread'.item] \in ToSet(writers)
    BY <1>q, <2>1
  <2>5. /\ main.pc \in {"send", "put"} => thread'.pc \in {"get", "open", "write"}
        /\ thread'.pc # "none"
    BY <1>q, <2>2
  <2>6. main.pc \in {"send", "put", "join", "leave", "abort"}
    BY <1>p DEF CInv, Types, MainPlaces, Together
  <2>7. QED
    BY <1>w, <1>p, <2>3, <2>4, <2>5, <2>6 DEF CInv, Together
<1>3. Flow'
  <2> SUFFICES ASSUME Flowing PROVE Flow'
    BY <1>p DEF Flow, Flowing
  <2>1. Sent' = Sent /\ (Flowing' <=> Flowing)
    BY <1>w, <1>p DEF Sent, Flowing
  <2>2. CASE queue[1] = 0
    <3>1. Left = 0 /\ main.pc = "join" /\ Len(queue) = 1
      BY <1>p, <1>r, <2>2
    <3>2. queue' = <<>> /\ thread'.pc = "dead"
      BY <1>p, <1>q, <2>2, <3>1, EmptySeq
    <3>3. Left' = 0 /\ ~Working'
      BY <3>2 DEF Left, Working
    <3>4. QED
      BY <1>w, <1>p, <1>r, <2>1, <3>1, <3>2, <3>3 DEF CInv, Flow, Taken
  <2>3. CASE queue[1] # 0
    <3>1. thread'.pc # "dead"
      BY <1>q, <2>3
    <3>2. Left # 0
      BY <1>p, <1>r, <2>3 DEF CInv, Flow, Types, Together, Flowing
    <3>3. Left' = Left - 1 /\ Taken' = Taken + 1
      BY <1>p, <1>r, <2>1, <3>1 DEF Left, Taken
    <3>4. ASSUME NEW k \in 1 .. Left' PROVE queue'[k] = Taken' + k
      <4>1. k + 1 \in 1 .. Left /\ k \in 1 .. Len(queue) - 1 /\ Taken \in Int
        BY <1>p, <1>r, <3>3
      <4>2. QED
        BY <1>p, <1>r, <3>3, <4>1
    <3>5. thread'.item = Taken'
      BY <1>q, <1>r, <3>2, <3>3
    <3>6. main.pc = "join" => queue' # <<>> /\ queue'[Len(queue')] = 0
      <4>1. ASSUME main.pc = "join" PROVE queue' # <<>> /\ queue'[Len(queue')] = 0
        <5>1. Len(queue) - 1 \in 1 .. Len(queue) - 1 /\ queue[Len(queue)] = 0
          BY <1>p, <1>r, <3>2, <4>1 DEF CInv, Flow
        <5>2. queue'[Len(queue) - 1] = queue[Len(queue) - 1 + 1] /\ Len(queue) - 1 + 1 = Len(queue)
          BY <1>p, <5>1
        <5>3. Len(queue') # 0
          BY <1>p, <5>1
        <5>4. QED
          BY <1>p, <5>1, <5>2, <5>3
      <4>2. QED
        BY <4>1
    <3>7. Left' \in 0 .. Sent' /\ Sent' \in 0 .. Len(Work)
      BY <1>r, <2>1, <3>2, <3>3 DEF CInv, Flow
    <3>8. main.pc = "put" => main.i <= Len(Work)
      BY DEF CInv, Flow
    <3>9. QED
      BY <1>w, <1>p, <3>1, <3>4, <3>5, <3>6, <3>7, <3>8 DEF Flow
  <2>4. QED
    BY <2>2, <2>3
<1>4. Written'
  BY <1>w DEF CInv, Types, Together, Working, Flow, Written, Flowing, Sent, Left, Taken,
     Ended, Get, files
<1>5. Closing'
  BY <1>w DEF CInv, Types, Together, Closing, Get, files
<1>6. Closed'
  BY <1>w DEF CInv, Types, Together, Closed, Get, files
<1>7. VoidedWorked'
  BY <1>w DEF CInv, VoidedWorked, Get, files
<1>8. Cleaning'
  BY <1>w DEF CInv, Types, Together, Cleaning, Get, files
<1>9. Tidy'
  BY <1>w DEF CInv, Types, Together, Tidy, Mild, Get, files
<1>10. Past'
  BY <1>w DEF CInv, Types, Past, Get, files
<1>11. QED
  BY <1>1, <1>2, <1>3, <1>4, <1>5, <1>6, <1>7, <1>8, <1>9, <1>10 DEF CInv

\* The first payload of a table finds it without a file, and leaves it with a writer.
LEMMA OpenKeeps ==
  ASSUME CInv, Open
  PROVE  CInv'
<1>w. Work' = Work
  BY DEF Open, Work
<1> DEFINE t == Work[thread.item]
<1>p. /\ thread.pc = "open" /\ t \in Tables /\ t \notin ToSet(writers) /\ t \in ToSet(Work)
      /\ thread.item \in 1 .. Len(Work) /\ writers \in Seq(Tables)
      /\ part \in [Tables -> Files] /\ UNCHANGED <<run, main, queue, final>>
  <2>1. /\ thread.pc = "open" /\ thread.item \in 1 .. Len(Work) /\ Work \in Seq(Tables)
        /\ t \notin ToSet(writers) /\ writers \in Seq(Tables)
        /\ part \in [Tables -> Files] /\ UNCHANGED <<run, main, queue, final>>
    BY WorkTyped DEF CInv, Types, Together, Working, Open
  <2>2. QED
    BY <2>1 DEF ToSet
<1>e. /\ Empty \in Files /\ Empty.rows = <<>> /\ Empty.run = run.n
      /\ Empty.footer = FALSE /\ Empty.flagged = FALSE
  <2>1. run.n \in Nat /\ <<>> \in Seq(Nat)
    BY DEF CInv, Types
  <2>2. QED
    BY <2>1 DEF Empty, Files
<1>q. \/ /\ part' = [part EXCEPT ![t] = Empty] /\ writers' = Append(writers, t)
         /\ thread' = [thread EXCEPT !.pc = "write"] /\ UNCHANGED <<error, struck>>
      \/ /\ \E f \in {part[t], Empty} : part' = [part EXCEPT ![t] = f]
         /\ writers' = writers /\ error' = TRUE /\ "open" \in struck'
         /\ thread' = [thread EXCEPT !.pc = "get"]
  BY DEF Open, Strike
<1>r. ToSet(writers') \subseteq ToSet(writers) \cup {t} /\ (writers' # writers => t \in ToSet(writers'))
      /\ ToSet(writers) \subseteq ToSet(writers')
  <2>1. CASE writers' = Append(writers, t)
    <3>1. ToSet(writers') = ToSet(writers) \cup {t}
      BY <1>p, <2>1, ToSetGrows
    <3>2. QED
      BY <3>1
  <2>2. CASE writers' = writers
    BY <2>2
  <2>3. QED
    BY <1>q, <2>1, <2>2
<1> HIDE DEF t
<1>1. Types'
  <2>1. run' \in [n : Nat, tables : Seq(Tables), voided : BOOLEAN]
    BY <1>w DEF CInv, Types, Open, files, Strike
  <2>2. main' \in [pc : MainPlaces, i : Nat \ {0}, aborting : BOOLEAN]
    BY <1>w DEF CInv, Types, MainPlaces, Open, files, Strike
  <2>3. thread' \in [pc : ThreadPlaces, item : Nat]
    BY <1>w DEF CInv, Types, ThreadPlaces, Open, files, Strike
  <2>4. queue' \in Seq(0 .. Len(Work)) /\ error' \in BOOLEAN
    BY <1>w DEF CInv, Types, Open, files, Strike
  <2>5. writers' \in Seq(Tables) /\ IsInjective(writers')
    <3>1. writers \in Seq(Tables) /\ IsInjective(writers)
      BY DEF CInv, Types
    <3>2. CASE writers' = Append(writers, t)
      <4>1. /\ DOMAIN writers = 1 .. Len(writers) /\ Len(writers) \in Nat
            /\ DOMAIN writers' = 1 .. Len(writers) + 1 /\ writers'[Len(writers) + 1] = t
            /\ \A i \in 1 .. Len(writers) : writers'[i] = writers[i]
        BY <1>p, <3>1, <3>2
      <4>2. \A i \in 1 .. Len(writers) : writers[i] # t
        BY <1>p, <4>1 DEF ToSet
      <4>3. ASSUME NEW i \in DOMAIN writers', NEW j \in DOMAIN writers', writers'[i] = writers'[j]
            PROVE  i = j
        <5>1. /\ i \in 1 .. Len(writers) \/ i = Len(writers) + 1
              /\ j \in 1 .. Len(writers) \/ j = Len(writers) + 1
          BY <4>1
        <5>2. QED
          BY <3>1, <4>1, <4>2, <4>3, <5>1 DEF IsInjective
      <4>4. QED
        BY <1>p, <3>1, <3>2, <4>3 DEF IsInjective
    <3>3. QED
      BY <1>q, <3>1, <3>2
  <2>6. part' \in [Tables -> Files] /\ final' \in [Tables -> Files]
    <3>1. PICK f \in Files : part' = [part EXCEPT ![t] = f]
      <4>1. part[t] \in Files
        BY <1>p
      <4>2. QED
        BY <1>q, <1>e, <4>1
    <3>2. QED
      BY <1>p, <3>1 DEF CInv, Types
  <2>7. struck' \subseteq FaultNames
    BY <1>w DEF CInv, Types, FaultNames, Open, files, Strike
  <2>8. QED
    BY <1>w, <2>1, <2>2, <2>3, <2>4, <2>5, <2>6, <2>7 DEF Types
<1>2. Together'
  <2>1. ToSet(writers') \subseteq ToSet(Work)
    BY <1>p, <1>r DEF CInv, Together
  <2>2. CASE writers' = Append(writers, t) /\ thread' = [thread EXCEPT !.pc = "write"] /\ UNCHANGED error
    <3>1. thread'.pc = "write" /\ thread'.item = thread.item /\ t \in ToSet(writers')
      BY <1>p, <2>2, ToSetGrows DEF CInv, Types
    <3>2. QED
      BY <1>w, <1>p, <2>1, <2>2, <3>1 DEF CInv, Together, Working, t
  <2>3. CASE error' = TRUE /\ thread' = [thread EXCEPT !.pc = "get"]
    <3>1. thread'.pc = "get"
      BY <2>3 DEF CInv, Types
    <3>2. QED
      BY <1>w, <1>p, <2>1, <2>3, <3>1 DEF CInv, Together, Working
  <2>4. QED
    BY <1>q, <2>2, <2>3
<1>3. Flow'
  BY <1>w DEF CInv, Types, Together, Working, Flow, Flowing, Sent, Left, Taken, Open, files,
     Strike
<1>4. Written'
  <2>1. CASE error' = TRUE
    BY <2>1 DEF Written
  <2>2. CASE /\ part' = [part EXCEPT ![t] = Empty] /\ writers' = Append(writers, t)
             /\ thread' = [thread EXCEPT !.pc = "write"] /\ UNCHANGED <<error, struck>>
    <3>1. thread'.pc = "write"
      BY <2>2 DEF CInv, Types
    <3>2. Ended' = Ended /\ (Flowing' <=> Flowing)
      BY <1>w, <1>p, <3>1 DEF Ended, Taken, Sent, Left, Working, Flowing
    <3>3. SUFFICES ASSUME Flowing, ~error, NEW u \in Tables
                   PROVE  /\ UpTo(Work, u, part'[u].rows, Ended)
                          /\ u \in ToSet(writers') => part'[u].run = run.n /\ ~part'[u].footer /\ ~part'[u].flagged
                          /\ u \notin ToSet(writers') => part'[u] = NoFile
                          /\ final[u] = NoFile
      BY <1>w, <1>p, <2>2, <3>2 DEF Written
    <3>4. /\ UpTo(Work, u, part[u].rows, Ended)
          /\ u \in ToSet(writers) => part[u].run = run.n /\ ~part[u].footer /\ ~part[u].flagged
          /\ u \notin ToSet(writers) => part[u] = NoFile
          /\ final[u] = NoFile
      BY <3>3 DEF CInv, Written
    <3>5. ToSet(writers') = ToSet(writers) \cup {t}
      BY <1>p, <2>2, ToSetGrows
    <3>6. part'[u] = IF u = t THEN Empty ELSE part[u]
      BY <1>p, <2>2
    <3>7. u = t => part[u].rows = Empty.rows
      BY <1>p, <1>e, <3>4, NoFileIs
    <3>8. QED
      BY <1>e, <3>4, <3>5, <3>6, <3>7
  <2>3. QED
    BY <1>q, <2>1, <2>2
<1>5. Closing'
  BY <1>w DEF CInv, Types, Together, Closing, Open, files, Strike
<1>6. Closed'
  BY <1>w DEF CInv, Types, Together, Closed, Open, files, Strike
<1>7. VoidedWorked'
  BY <1>w DEF CInv, VoidedWorked, Open, files, Strike
<1>8. Cleaning'
  BY <1>p DEF CInv, Together, Cleaning
<1>9. Tidy'
  <2>1. CASE "open" \in struck'
    BY <2>1 DEF Tidy, Mild
  <2>2. CASE /\ part' = [part EXCEPT ![t] = Empty] /\ writers' = Append(writers, t) /\ UNCHANGED struck
    <3>1. main.pc \notin {"unlink", "failed"}
      BY <1>p DEF CInv, Together
    <3>2. \A u \in Tables : part'[u] # NoFile => u = t \/ part[u] # NoFile
      BY <1>p, <2>2
    <3>3. ToSet(writers') = ToSet(writers) \cup {t}
      BY <1>p, <2>2, ToSetGrows
    <3>4. QED
      BY <1>p, <2>2, <3>1, <3>2, <3>3 DEF CInv, Tidy, Mild
  <2>3. QED
    BY <1>q, <2>1, <2>2
<1>10. Past'
  BY <1>w DEF CInv, Types, Past, Open, files, Strike
<1>11. QED
  BY <1>1, <1>2, <1>3, <1>4, <1>5, <1>6, <1>7, <1>8, <1>9, <1>10 DEF CInv

\* A payload written is the next of its table.
LEMMA WriteKeeps ==
  ASSUME CInv, Write
  PROVE  CInv'
<1>w. Work' = Work
  BY DEF Write, Work
<1> DEFINE t == Work[thread.item]
           more == Grown(part[t])
<1>p. /\ thread.pc = "write" /\ t \in Tables /\ t \in ToSet(writers)
      /\ thread.item \in 1 .. Len(Work) /\ Len(Work) \in Nat /\ thread'.pc = "get"
      /\ part \in [Tables -> Files] /\ UNCHANGED <<run, main, queue, writers, final>>
  BY WorkTyped DEF CInv, Types, Together, Working, Write
<1>q. \/ part' = [part EXCEPT ![t] = more] /\ UNCHANGED <<error, struck>>
      \/ error' = TRUE /\ struck' = struck \cup {"write"} /\ UNCHANGED part
  BY DEF Write, Strike
<1> HIDE DEF t
<1>e. /\ more \in Files /\ more.rows = Append(part[t].rows, thread.item)
      /\ more.run = part[t].run /\ more.footer = part[t].footer
      /\ more.flagged = part[t].flagged /\ part[t].rows \in Seq(Nat)
  <2>1. part[t] \in Files /\ part[t].rows \in Seq(Nat) /\ thread.item \in Nat
    BY <1>p DEF Files
  <2>2. Append(part[t].rows, thread.item) \in Seq(Nat)
    BY <2>1
  <2>3. QED
    BY <2>1, <2>2 DEF Files, Grown
<1> HIDE DEF more
<1>1. Types'
  <2>1. run' \in [n : Nat, tables : Seq(Tables), voided : BOOLEAN]
    BY <1>w DEF CInv, Types, Write, files, Strike, Grown
  <2>2. main' \in [pc : MainPlaces, i : Nat \ {0}, aborting : BOOLEAN]
    BY <1>w DEF CInv, Types, MainPlaces, Write, files, Strike, Grown
  <2>3. thread' \in [pc : ThreadPlaces, item : Nat]
    BY <1>w DEF CInv, Types, ThreadPlaces, Write, files, Strike, Grown
  <2>4. queue' \in Seq(0 .. Len(Work)) /\ error' \in BOOLEAN
    BY <1>w DEF CInv, Types, Write, files, Strike, Grown
  <2>5. writers' \in Seq(Tables) /\ IsInjective(writers')
    BY <1>w DEF CInv, Types, Write, files, Strike, Grown
  <2>6. part' \in [Tables -> Files] /\ final' \in [Tables -> Files]
    BY <1>p, <1>q, <1>e DEF CInv, Types
  <2>7. struck' \subseteq FaultNames
    BY <1>w DEF CInv, Types, FaultNames, Write, files, Strike, Grown
  <2>8. QED
    BY <1>w, <2>1, <2>2, <2>3, <2>4, <2>5, <2>6, <2>7 DEF Types
<1>2. Together'
  BY <1>w DEF CInv, Types, Together, Working, Write, files, Strike, Grown
<1>3. Flow'
  BY <1>w DEF CInv, Types, Together, Working, Flow, Flowing, Sent, Left, Taken, Write, files,
     Strike, Grown
<1>4. Written'
  <2>1. CASE error' = TRUE
    BY <2>1 DEF Written
  <2>2. CASE part' = [part EXCEPT ![t] = more] /\ UNCHANGED <<error, struck>>
    <3> SUFFICES ASSUME Flowing, ~error PROVE Written'
      BY <1>p, <2>2 DEF Written, Flowing
    <3>1. Taken = thread.item /\ Ended = thread.item - 1
      BY <1>p DEF CInv, Flow, Working, Ended
    <3>2. Ended' = thread.item
      <4>1. Taken' = Taken /\ ~Working'
        BY <1>w, <1>p DEF Taken, Sent, Left, Working
      <4>2. QED
        BY <3>1, <4>1 DEF Ended
    <3> DEFINE e == thread.item - 1
    <3>3. e \in Nat /\ e + 1 = thread.item /\ Ended = e
      BY <1>p, <3>1
    <3> HIDE DEF e
    <3>4. ASSUME NEW u \in Tables
          PROVE  /\ UpTo(Work, u, part'[u].rows, thread.item)
                 /\ u \in ToSet(writers) => part'[u].run = run.n /\ ~part'[u].footer /\ ~part'[u].flagged
                 /\ u \notin ToSet(writers) => part'[u] = NoFile
                 /\ final[u] = NoFile
      <4>1. /\ UpTo(Work, u, part[u].rows, e)
            /\ u \in ToSet(writers) => part[u].run = run.n /\ ~part[u].footer /\ ~part[u].flagged
            /\ u \notin ToSet(writers) => part[u] = NoFile
            /\ final[u] = NoFile
        BY <3>3 DEF CInv, Written
      <4>2. part'[u] = IF u = t THEN more ELSE part[u]
        BY <1>p, <2>2
      <4>3. part[u].rows \in Seq(Nat)
        BY <1>p DEF Files
      <4>4. /\ Work[e + 1] # u => UpTo(Work, u, part[u].rows, e + 1)
            /\ Work[e + 1] = u => UpTo(Work, u, Append(part[u].rows, e + 1), e + 1)
        BY <3>3, <4>1, <4>3, UpToGrows
      <4>5. Work[e + 1] = t
        BY <3>3 DEF t
      <4>6. UpTo(Work, u, part'[u].rows, thread.item)
        BY <1>e, <3>3, <4>2, <4>4, <4>5
      <4>7. QED
        BY <1>e, <1>p, <4>1, <4>2, <4>6
    <3>5. QED
      BY <1>w, <1>p, <3>2, <3>4 DEF Written
  <2>3. QED
    BY <1>q, <2>1, <2>2
<1>5. Closing'
  BY <1>w DEF CInv, Types, Together, Closing, Write, files, Strike, Grown
<1>6. Closed'
  BY <1>w DEF CInv, Types, Together, Closed, Write, files, Strike, Grown
<1>7. VoidedWorked'
  BY <1>w DEF CInv, VoidedWorked, Write, files, Strike, Grown
<1>8. Cleaning'
  BY <1>p DEF CInv, Together, Cleaning
<1>9. Tidy'
  <2>1. main.pc \notin {"unlink", "failed"} /\ (Mild' => Mild)
    BY <1>p, <1>q DEF CInv, Together, Mild
  <2>2. \A u \in Tables : part'[u] # NoFile => u = t \/ part[u] # NoFile
    BY <1>p, <1>q
  <2>3. QED
    BY <1>p, <2>1, <2>2 DEF CInv, Tidy
<1>10. Past'
  BY <1>w DEF CInv, Types, Past, Write, files, Strike, Grown
<1>11. QED
  BY <1>1, <1>2, <1>3, <1>4, <1>5, <1>6, <1>7, <1>8, <1>9, <1>10 DEF CInv

\* None is put when every payload has been, or when nothing more is to be written.
LEMMA PutNoneKeeps ==
  ASSUME CInv, PutNone
  PROVE  CInv'
<1>w. Work' = Work
  BY DEF PutNone, Work
<1>1. Types'
  <2>1. run' \in [n : Nat, tables : Seq(Tables), voided : BOOLEAN]
    BY <1>w DEF CInv, Types, PutNone, files, At, QueueSize
  <2>2. main' \in [pc : MainPlaces, i : Nat \ {0}, aborting : BOOLEAN]
    BY <1>w DEF CInv, Types, MainPlaces, PutNone, files, At, QueueSize
  <2>3. thread' \in [pc : ThreadPlaces, item : Nat]
    BY <1>w DEF CInv, Types, ThreadPlaces, PutNone, files, At, QueueSize
  <2>4. queue' \in Seq(0 .. Len(Work)) /\ error' \in BOOLEAN
    BY <1>w DEF CInv, Types, PutNone, files, At, QueueSize
  <2>5. writers' \in Seq(Tables) /\ IsInjective(writers')
    BY <1>w DEF CInv, Types, PutNone, files, At, QueueSize
  <2>6. part' \in [Tables -> Files] /\ final' \in [Tables -> Files]
    BY <1>w DEF CInv, Types, Files, NoFile, PutNone, files, At, QueueSize
  <2>7. struck' \subseteq FaultNames
    BY <1>w DEF CInv, Types, FaultNames, PutNone, files, At, QueueSize
  <2>8. QED
    BY <1>w, <2>1, <2>2, <2>3, <2>4, <2>5, <2>6, <2>7 DEF Types
<1>2. Together'
  BY <1>w DEF CInv, Types, Together, Working, PutNone, files, At, QueueSize
<1>3. Flow'
  <2>1. CASE main.pc = "leave"
    BY <2>1 DEF CInv, Together, Flow, Flowing, PutNone, At
  <2>2. CASE main.pc = "send" /\ main.i > Len(Work)
    <3>1. /\ main'.pc = "join" /\ thread' = thread /\ thread.pc # "dead"
          /\ queue' = Append(queue, 0) /\ queue \in Seq(0 .. Len(Work)) /\ main.i \in Nat \ {0}
      BY <2>2 DEF CInv, Types, Together, PutNone, At
    <3>2. /\ Left \in 0 .. Sent /\ Sent = main.i - 1 /\ Sent = Len(Work) /\ Len(Work) \in Nat
          /\ Left = Len(queue) /\ Taken = Sent - Left
          /\ \A k \in 1 .. Left : queue[k] = Taken + k
          /\ Working => thread.item = Taken
      BY <2>2, <3>1, WorkTyped DEF CInv, Types, Flow, Flowing, Left, Taken, Sent
    <3>3. /\ Len(queue') = Len(queue) + 1 /\ queue'[Len(queue) + 1] = 0 /\ queue' # <<>>
          /\ \A k \in 1 .. Len(queue) : queue'[k] = queue[k]
      BY <3>1
    <3>4. Left' = Left /\ Sent' = Sent /\ Taken' = Taken /\ (Working' <=> Working)
      BY <1>w, <3>1, <3>2, <3>3 DEF Left, Sent, Taken, Working
    <3>5. QED
      BY <1>w, <3>1, <3>2, <3>3, <3>4 DEF Flow
  <2>3. QED
    BY <2>1, <2>2 DEF PutNone
<1>4. Written'
  <2>1. CASE main.pc = "leave"
    BY <2>1 DEF CInv, Together, Written, Flowing, PutNone, At
  <2>2. CASE main.pc = "send" /\ main.i > Len(Work)
    <3>1. /\ main'.pc = "join" /\ thread' = thread /\ thread.pc # "dead" /\ Flowing
          /\ queue' = Append(queue, 0) /\ queue \in Seq(0 .. Len(Work)) /\ main.i \in Nat \ {0}
      BY <2>2 DEF CInv, Types, Together, PutNone, At, Flowing
    <3>2. Sent = Len(Work) /\ Len(queue') = Len(queue) + 1 /\ Len(queue) \in Nat
      BY <2>2, <3>1, WorkTyped DEF CInv, Types, Flow, Sent
    <3>3. Ended' = Ended
      BY <1>w, <2>2, <3>1, <3>2 DEF Ended, Taken, Left, Sent, Working
    <3>4. QED
      BY <1>w, <3>1, <3>3 DEF CInv, Written, PutNone, files
  <2>3. QED
    BY <2>1, <2>2 DEF PutNone
<1>5. Closing'
  BY <1>w DEF CInv, Types, Together, Closing, PutNone, files, At, QueueSize
<1>6. Closed'
  BY <1>w DEF CInv, Types, Together, Closed, PutNone, files, At, QueueSize
<1>7. VoidedWorked'
  BY <1>w DEF CInv, VoidedWorked, PutNone, files, At, QueueSize
<1>8. Cleaning'
  BY <1>w DEF CInv, Types, Together, Cleaning, PutNone, files, At, QueueSize
<1>9. Tidy'
  BY <1>w DEF CInv, Types, Together, Tidy, Mild, PutNone, files, At, QueueSize
<1>10. Past'
  BY <1>w DEF CInv, Types, Past, PutNone, files, At, QueueSize
<1>11. QED
  BY <1>1, <1>2, <1>3, <1>4, <1>5, <1>6, <1>7, <1>8, <1>9, <1>10 DEF CInv

\* When the thread has ended without an error every payload is in its part file.
LEMMA JoinedKeeps ==
  ASSUME CInv, Joined
  PROVE  CInv'
<1>w. Work' = Work
  BY DEF Joined, Work
<1>p. /\ main.pc = "join" /\ thread.pc = "dead" /\ main'.i = 1
      /\ main'.pc = IF main.aborting THEN "unlink" ELSE IF error THEN "abort" ELSE "close"
      /\ UNCHANGED <<run, queue, error, writers, part, final, struck>>
      /\ writers \in Seq(Tables)
  BY DEF CInv, Types, Joined, At, files
<1>1. Types'
  <2>1. run' \in [n : Nat, tables : Seq(Tables), voided : BOOLEAN]
    BY <1>w DEF CInv, Types, Joined, files, At
  <2>2. main' \in [pc : MainPlaces, i : Nat \ {0}, aborting : BOOLEAN]
    BY <1>w DEF CInv, Types, MainPlaces, Joined, files, At
  <2>3. thread' \in [pc : ThreadPlaces, item : Nat]
    BY <1>w DEF CInv, Types, ThreadPlaces, Joined, files, At
  <2>4. queue' \in Seq(0 .. Len(Work)) /\ error' \in BOOLEAN
    BY <1>w DEF CInv, Types, Joined, files, At
  <2>5. writers' \in Seq(Tables) /\ IsInjective(writers')
    BY <1>w DEF CInv, Types, Joined, files, At
  <2>6. part' \in [Tables -> Files] /\ final' \in [Tables -> Files]
    BY <1>w DEF CInv, Types, Files, NoFile, Joined, files, At
  <2>7. struck' \subseteq FaultNames
    BY <1>w DEF CInv, Types, FaultNames, Joined, files, At
  <2>8. QED
    BY <1>w, <2>1, <2>2, <2>3, <2>4, <2>5, <2>6, <2>7 DEF Types
<1>2. Together'
  BY <1>w DEF CInv, Types, Together, Working, Joined, files, At
<1>3. Flow'
  BY <1>w DEF CInv, Types, Together, Working, Flow, Flowing, Sent, Left, Taken, Joined,
     files, At
<1>4. Written'
  BY <1>w DEF CInv, Types, Together, Working, Flow, Written, Flowing, Sent, Left, Taken,
     Ended, Joined, files, At
<1>5. Closing'
  <2> SUFFICES ASSUME ~main.aborting, ~error PROVE Closing'
    BY <1>p DEF Closing
  <2>1. queue = <<>> /\ Len(Work) \in Nat /\ Flowing
    BY <1>p, WorkTyped DEF CInv, Types, Flow, Flowing
  <2>2. Ended = Len(Work)
    BY <1>p, <2>1 DEF Ended, Taken, Left, Sent, Working
  <2>3. \A t \in Tables :
          /\ All(Work, t, part[t].rows)
          /\ t \in ToSet(writers) => part[t].run = run.n /\ part[t].footer = FALSE /\ ~part[t].flagged
          /\ t \notin ToSet(writers) => part[t] = NoFile
          /\ final[t] = NoFile
    <3>1. \A t \in Tables : part[t].footer \in BOOLEAN
      BY DEF CInv, Types, Files
    <3>2. QED
      BY <2>1, <2>2, <3>1 DEF CInv, Written, All
  <2>4. ASSUME NEW t \in Tables \ ToSet(writers), NEW i \in 1 .. Len(Work) PROVE Work[i] # t
    <3>1. All(Work, t, <<>>)
      BY <2>3, <2>4, NoFileIs
    <3>2. QED
      BY <2>4, <3>1, ToSetGrows DEF All, UpTo
  <2>5. \A j \in DOMAIN writers : j >= 1 /\ writers[j] \in ToSet(writers) /\ writers[j] \in Tables
    BY <1>p DEF ToSet
  <2>6. 1 <= Len(writers) + 1 /\ \A j \in DOMAIN writers : ~(j < 1)
    BY <1>p
  <2>7. main'.pc = "close"
    BY <1>p
  <2>8. QED
    BY <1>w, <1>p, <2>3, <2>4, <2>5, <2>6, <2>7 DEF Closing
<1>6. Closed'
  BY <1>w DEF CInv, Types, Together, Closed, Joined, files, At
<1>7. VoidedWorked'
  BY <1>w DEF CInv, VoidedWorked, Joined, files, At
<1>8. Cleaning'
  BY <1>w DEF CInv, Types, Together, Cleaning, Joined, files, At
<1>9. Tidy'
  <2>1. Mild' => Mild
    BY <1>p DEF Mild
  <2>2. \A t \in ToSet(writers) : \E j \in DOMAIN writers : j >= 1 /\ writers[j] = t
    BY <1>p DEF ToSet
  <2>3. QED
    BY <1>p, <2>1, <2>2 DEF CInv, Tidy
<1>10. Past'
  BY <1>w DEF CInv, Types, Past, Joined, files, At
<1>11. QED
  BY <1>1, <1>2, <1>3, <1>4, <1>5, <1>6, <1>7, <1>8, <1>9, <1>10 DEF CInv

\* A footer is written to the part file of the writer at hand alone, and to one that
\* has every payload of its table.
LEMMA CloseWriterKeeps ==
  ASSUME CInv, CloseWriter
  PROVE  CInv'
<1>w. Work' = Work
  BY DEF CloseWriter, Work
<1> DEFINE t == writers[main.i]
           whole == [part[t] EXCEPT !.footer = TRUE]
<1>p. /\ main.pc = "close" /\ main.i \in 1 .. Len(writers) /\ t \in Tables
      /\ DOMAIN writers = 1 .. Len(writers) /\ IsInjective(writers) /\ Len(writers) \in Nat
      /\ \A j \in DOMAIN writers : writers[j] \in Tables
      /\ part \in [Tables -> Files] /\ UNCHANGED <<run, thread, queue, error, writers, final>>
  BY DEF CInv, Types, CloseWriter
<1>q. \/ part' = [part EXCEPT ![t] = whole] /\ main'.pc = "rename" /\ main'.i = main.i
      \/ "close" \in struck' /\ main'.pc = "abort" /\ UNCHANGED part
  BY DEF CloseWriter, At, Strike
<1> HIDE DEF t
<1>e. /\ whole \in Files /\ whole.rows = part[t].rows /\ whole.run = part[t].run
      /\ whole.footer = TRUE /\ whole.flagged = part[t].flagged
  BY <1>p DEF Files
<1> HIDE DEF whole
<1>1. Types'
  <2>1. run' \in [n : Nat, tables : Seq(Tables), voided : BOOLEAN]
    BY <1>w DEF CInv, Types, CloseWriter, files, At, Strike
  <2>2. main' \in [pc : MainPlaces, i : Nat \ {0}, aborting : BOOLEAN]
    BY <1>w DEF CInv, Types, MainPlaces, CloseWriter, files, At, Strike
  <2>3. thread' \in [pc : ThreadPlaces, item : Nat]
    BY <1>w DEF CInv, Types, ThreadPlaces, CloseWriter, files, At, Strike
  <2>4. queue' \in Seq(0 .. Len(Work)) /\ error' \in BOOLEAN
    BY <1>w DEF CInv, Types, CloseWriter, files, At, Strike
  <2>5. writers' \in Seq(Tables) /\ IsInjective(writers')
    BY <1>w DEF CInv, Types, CloseWriter, files, At, Strike
  <2>6. part' \in [Tables -> Files] /\ final' \in [Tables -> Files]
    BY <1>p, <1>q, <1>e DEF CInv, Types
  <2>7. struck' \subseteq FaultNames
    BY <1>w DEF CInv, Types, FaultNames, CloseWriter, files, At, Strike
  <2>8. QED
    BY <1>w, <2>1, <2>2, <2>3, <2>4, <2>5, <2>6, <2>7 DEF Types
<1>2. Together'
  BY <1>w DEF CInv, Types, Together, Working, CloseWriter, files, At, Strike
<1>3. Flow'
  BY <1>w DEF CInv, Types, Together, Working, Flow, Flowing, Sent, Left, Taken, CloseWriter,
     files, At, Strike
<1>4. Written'
  BY <1>w DEF CInv, Types, Together, Working, Flow, Written, Flowing, Sent, Left, Taken,
     Ended, CloseWriter, files, At, Strike
<1>5. Closing'
  <2> SUFFICES ASSUME part' = [part EXCEPT ![t] = whole], main'.pc = "rename", main'.i = main.i
               PROVE  Closing'
    BY <1>q DEF Closing
  <2>1. \A u \in Tables : part'[u] = IF u = t THEN whole ELSE part[u]
    BY <1>p
  <2>2. t \in ToSet(writers)
    BY <1>p DEF ToSet, t
  <2>3. \A u \in Tables \ ToSet(writers) :
          part'[u] = NoFile /\ final[u] = NoFile /\ \A i \in 1 .. Len(Work) : Work[i] # u
    BY <1>p, <2>1, <2>2 DEF CInv, Closing
  <2>4. ASSUME NEW j \in DOMAIN writers, j < main.i
        PROVE  LET u == writers[j]
               IN part'[u] = NoFile /\ Whole(Work, run.n, u, final[u]) /\ ~final[u].flagged
    <3>1. writers[j] # t
      BY <1>p, <2>4 DEF IsInjective, t
    <3>2. QED
      BY <1>p, <2>1, <2>4, <3>1 DEF CInv, Closing
  <2>5. ASSUME NEW j \in DOMAIN writers, ~(j < main.i)
        PROVE  LET u == writers[j]
               IN /\ All(Work, u, part'[u].rows)
                  /\ part'[u].run = run.n /\ ~part'[u].flagged
                  /\ part'[u].footer = (j = main.i)
    <3> DEFINE u == writers[j]
    <3>1. All(Work, u, part[u].rows) /\ part[u].run = run.n /\ ~part[u].flagged /\ part[u].footer = FALSE
      BY <1>p, <2>5 DEF CInv, Closing
    <3>2. u = t <=> j = main.i
      BY <1>p DEF IsInjective, t
    <3>3. part'[u] = IF u = t THEN whole ELSE part[u]
      BY <1>p, <2>1
    <3> HIDE DEF u
    <3>4. QED
      BY <1>e, <3>1, <3>2, <3>3 DEF u
  <2>6. main.i <= Len(writers) /\ main.i <= Len(writers) + 1
    BY <1>p
  <2>7. QED
    BY <1>w, <1>p, <2>3, <2>4, <2>5, <2>6 DEF Closing
<1>6. Closed'
  BY <1>w DEF CInv, Types, Together, Closed, CloseWriter, files, At, Strike
<1>7. VoidedWorked'
  BY <1>w DEF CInv, VoidedWorked, CloseWriter, files, At, Strike
<1>8. Cleaning'
  BY <1>w DEF CInv, Types, Together, Cleaning, CloseWriter, files, At, Strike
<1>9. Tidy'
  BY <1>q DEF Tidy, Mild
<1>10. Past'
  BY <1>w DEF CInv, Types, Past, CloseWriter, files, At, Strike
<1>11. QED
  BY <1>1, <1>2, <1>3, <1>4, <1>5, <1>6, <1>7, <1>8, <1>9, <1>10 DEF CInv

\* A part file is renamed whole.
LEMMA RenameKeeps ==
  ASSUME CInv, Rename
  PROVE  CInv'
<1>w. Work' = Work
  BY DEF Rename, Work
<1> DEFINE t == writers[main.i]
<1>p. /\ main.pc = "rename" /\ main.i \in 1 .. Len(writers) /\ t \in Tables
      /\ DOMAIN writers = 1 .. Len(writers) /\ IsInjective(writers) /\ Len(writers) \in Nat
      /\ \A j \in DOMAIN writers : writers[j] \in Tables
      /\ part \in [Tables -> Files] /\ final \in [Tables -> Files]
      /\ UNCHANGED <<run, thread, queue, error, writers>>
  BY DEF CInv, Types, Closing, Rename
<1>q. \/ /\ final' = [final EXCEPT ![t] = part[t]] /\ part' = [part EXCEPT ![t] = NoFile]
         /\ main'.pc = "close" /\ main'.i = main.i + 1
      \/ "rename" \in struck' /\ main'.pc = "abort" /\ UNCHANGED <<part, final>>
  BY DEF Rename, At, Strike, files
<1>e. /\ All(Work, t, part[t].rows) /\ part[t].run = run.n /\ ~part[t].flagged
      /\ part[t].footer = TRUE
  <2>1. main.i \in DOMAIN writers /\ ~(main.i < main.i)
    BY <1>p
  <2>2. QED
    BY <1>p, <2>1 DEF CInv, Closing
<1> HIDE DEF t
<1>1. Types'
  <2>1. run' \in [n : Nat, tables : Seq(Tables), voided : BOOLEAN]
    BY <1>w DEF CInv, Types, Rename, files, At, Strike
  <2>2. main' \in [pc : MainPlaces, i : Nat \ {0}, aborting : BOOLEAN]
    BY <1>w DEF CInv, Types, MainPlaces, Rename, files, At, Strike
  <2>3. thread' \in [pc : ThreadPlaces, item : Nat]
    BY <1>w DEF CInv, Types, ThreadPlaces, Rename, files, At, Strike
  <2>4. queue' \in Seq(0 .. Len(Work)) /\ error' \in BOOLEAN
    BY <1>w DEF CInv, Types, Rename, files, At, Strike
  <2>5. writers' \in Seq(Tables) /\ IsInjective(writers')
    BY <1>w DEF CInv, Types, Rename, files, At, Strike
  <2>6. part' \in [Tables -> Files] /\ final' \in [Tables -> Files]
    BY ONLY <1>p, <1>q, NoFileIs
  <2>7. struck' \subseteq FaultNames
    BY <1>w DEF CInv, Types, FaultNames, Rename, files, At, Strike
  <2>8. QED
    BY <1>w, <2>1, <2>2, <2>3, <2>4, <2>5, <2>6, <2>7 DEF Types
<1>2. Together'
  BY <1>w DEF CInv, Types, Together, Working, Rename, files, At, Strike
<1>3. Flow'
  BY <1>w DEF CInv, Types, Together, Working, Flow, Flowing, Sent, Left, Taken, Rename,
     files, At, Strike
<1>4. Written'
  BY <1>w DEF CInv, Types, Together, Working, Flow, Written, Flowing, Sent, Left, Taken,
     Ended, Rename, files, At, Strike
<1>5. Closing'
  <2> SUFFICES ASSUME final' = [final EXCEPT ![t] = part[t]], part' = [part EXCEPT ![t] = NoFile],
                      main'.pc = "close", main'.i = main.i + 1
               PROVE  Closing'
    BY <1>q DEF Closing
  <2>1. \A u \in Tables : /\ part'[u] = IF u = t THEN NoFile ELSE part[u]
                          /\ final'[u] = IF u = t THEN part[t] ELSE final[u]
    BY <1>p
  <2>2. t \in ToSet(writers)
    BY <1>p DEF ToSet, t
  <2>3. \A u \in Tables \ ToSet(writers) :
          part'[u] = NoFile /\ final'[u] = NoFile /\ \A i \in 1 .. Len(Work) : Work[i] # u
    BY <1>p, <2>1, <2>2 DEF CInv, Closing
  <2>4. ASSUME NEW j \in DOMAIN writers, j < main.i + 1
        PROVE  LET u == writers[j]
               IN part'[u] = NoFile /\ Whole(Work, run.n, u, final'[u]) /\ ~final'[u].flagged
    <3>1. CASE j = main.i
      <4>1. writers[j] = t
        BY <3>1 DEF t
      <4>2. part'[t] = NoFile /\ final'[t] = part[t]
        BY <1>p, <2>1
      <4>3. QED
        BY <1>e, <4>1, <4>2 DEF Whole
    <3>2. CASE j < main.i
      <4>1. writers[j] # t
        BY <1>p, <3>2 DEF IsInjective, t
      <4>2. QED
        BY <1>p, <2>1, <3>2, <4>1 DEF CInv, Closing
    <3>3. QED
      BY <1>p, <2>4, <3>1, <3>2
  <2>5. ASSUME NEW j \in DOMAIN writers, ~(j < main.i + 1)
        PROVE  LET u == writers[j]
               IN /\ All(Work, u, part'[u].rows)
                  /\ part'[u].run = run.n /\ ~part'[u].flagged
                  /\ part'[u].footer = FALSE
    <3>1. ~(j < main.i) /\ j # main.i
      BY <1>p, <2>5
    <3>2. writers[j] # t
      BY <1>p, <3>1 DEF IsInjective, t
    <3>3. QED
      BY <1>p, <2>1, <3>1, <3>2 DEF CInv, Closing
  <2>6. main.i + 1 <= Len(writers) + 1
    BY <1>p
  <2>7. QED
    BY <1>w, <1>p, <2>3, <2>4, <2>5, <2>6 DEF Closing
<1>6. Closed'
  BY <1>w DEF CInv, Types, Together, Closed, Rename, files, At, Strike
<1>7. VoidedWorked'
  BY <1>w DEF CInv, VoidedWorked, Rename, files, At, Strike
<1>8. Cleaning'
  BY <1>w DEF CInv, Types, Together, Cleaning, Rename, files, At, Strike
<1>9. Tidy'
  BY <1>w DEF CInv, Types, Together, Tidy, Mild, Rename, files, At, Strike
<1>10. Past'
  <2>1. ASSUME NEW u \in Tables
        PROVE  final'[u] = final[u] \/ (u = t /\ final'[u] = part[t])
    BY <1>p, <1>q
  <2>2. run' = run /\ run.n \in Nat \ {0}
    BY <1>p DEF CInv, Types, Together
  <2>3. QED
    BY <1>w, <1>e, <2>1, <2>2 DEF CInv, Past
<1>11. QED
  BY <1>1, <1>2, <1>3, <1>4, <1>5, <1>6, <1>7, <1>8, <1>9, <1>10 DEF CInv

\* When the last file has its name, the tables written to are those of the work.
LEMMA AllClosedKeeps ==
  ASSUME CInv, AllClosed
  PROVE  CInv'
<1>w. Work' = Work
  BY DEF AllClosed, Work
<1>1. Types'
  <2>1. run' \in [n : Nat, tables : Seq(Tables), voided : BOOLEAN]
    BY <1>w DEF CInv, Types, AllClosed, files, At
  <2>2. main' \in [pc : MainPlaces, i : Nat \ {0}, aborting : BOOLEAN]
    BY <1>w DEF CInv, Types, MainPlaces, AllClosed, files, At
  <2>3. thread' \in [pc : ThreadPlaces, item : Nat]
    BY <1>w DEF CInv, Types, ThreadPlaces, AllClosed, files, At
  <2>4. queue' \in Seq(0 .. Len(Work)) /\ error' \in BOOLEAN
    BY <1>w DEF CInv, Types, AllClosed, files, At
  <2>5. writers' \in Seq(Tables) /\ IsInjective(writers')
    BY <1>w DEF CInv, Types, AllClosed, files, At, IsInjective
  <2>6. part' \in [Tables -> Files] /\ final' \in [Tables -> Files]
    BY <1>w DEF CInv, Types, Files, NoFile, AllClosed, files, At
  <2>7. struck' \subseteq FaultNames
    BY <1>w DEF CInv, Types, FaultNames, AllClosed, files, At
  <2>8. QED
    BY <1>w, <2>1, <2>2, <2>3, <2>4, <2>5, <2>6, <2>7 DEF Types
<1>2. Together'
  BY <1>w, ToSetGrows DEF CInv, Types, Together, Working, AllClosed, files, At
<1>3. Flow'
  BY <1>w DEF CInv, Types, Together, Working, Flow, Flowing, Sent, Left, Taken, AllClosed,
     files, At
<1>4. Written'
  BY <1>w DEF CInv, Types, Together, Working, Flow, Written, Flowing, Sent, Left, Taken,
     Ended, AllClosed, files, At
<1>5. Closing'
  BY <1>w DEF CInv, Types, Together, Closing, AllClosed, files, At
<1>6. Closed'
  <2>1. /\ main.pc = "close" /\ main.i > Len(writers) /\ main.i \in Nat
        /\ writers \in Seq(Tables) /\ UNCHANGED <<run, part, final>>
        /\ main'.pc = IF run.voided THEN "flag" ELSE "done"
    BY DEF CInv, Types, AllClosed, At, files
  <2>2. ASSUME NEW t \in ToSet(writers)
        PROVE  part[t] = NoFile /\ Whole(Work, run.n, t, final[t]) /\ final[t].flagged = FALSE
    <3>1. PICK j \in DOMAIN writers : writers[j] = t
      BY DEF ToSet
    <3>2. j < main.i
      BY <2>1, <3>1
    <3>3. part[t] = NoFile /\ Whole(Work, run.n, t, final[t]) /\ ~final[t].flagged
      BY <2>1, <3>1, <3>2 DEF CInv, Closing
    <3>4. t \in Tables /\ final[t].flagged \in BOOLEAN
      BY <2>1, <3>1 DEF CInv, Types, Files
    <3>5. QED
      BY <3>3, <3>4
  <2>3. ASSUME NEW t \in Tables, t \notin ToSet(writers)
        PROVE  part[t] = NoFile /\ final[t] = NoFile /\ t \notin ToSet(Work)
    <3>1. part[t] = NoFile /\ final[t] = NoFile /\ \A i \in 1 .. Len(Work) : Work[i] # t
      BY <2>1, <2>3 DEF CInv, Closing
    <3>2. DOMAIN Work = 1 .. Len(Work)
      BY WorkTyped DEF CInv, Types
    <3>3. QED
      BY <3>1, <3>2 DEF ToSet
  <2>4. ToSet(writers) \subseteq ToSet(Work)
    BY DEF CInv, Together
  <2>5. QED
    BY <1>w, <2>1, <2>2, <2>3, <2>4 DEF Closed
<1>7. VoidedWorked'
  BY <1>w DEF CInv, VoidedWorked, AllClosed, files, At
<1>8. Cleaning'
  BY <1>w DEF CInv, Types, Together, Cleaning, AllClosed, files, At
<1>9. Tidy'
  BY <1>w DEF CInv, Types, Together, Tidy, Mild, AllClosed, files, At
<1>10. Past'
  BY <1>w DEF CInv, Types, Past, AllClosed, files, At
<1>11. QED
  BY <1>1, <1>2, <1>3, <1>4, <1>5, <1>6, <1>7, <1>8, <1>9, <1>10 DEF CInv

\* The copy of trades is the only part file there is.
LEMMA FlagKeeps ==
  ASSUME CInv, Flag
  PROVE  CInv'
<1>w. Work' = Work
  BY DEF Flag, Work
<1>e. Empty \in Files
  <2>1. run.n \in Nat /\ <<>> \in Seq(Nat)
    BY DEF CInv, Types
  <2>2. QED
    BY <2>1 DEF Empty, Files
<1>1. Types'
  <2>1. run' \in [n : Nat, tables : Seq(Tables), voided : BOOLEAN]
    BY <1>w DEF CInv, Types, Flag, files, At
  <2>2. main' \in [pc : MainPlaces, i : Nat \ {0}, aborting : BOOLEAN]
    BY <1>w DEF CInv, Types, MainPlaces, Flag, files, At
  <2>3. thread' \in [pc : ThreadPlaces, item : Nat]
    BY <1>w DEF CInv, Types, ThreadPlaces, Flag, files, At
  <2>4. queue' \in Seq(0 .. Len(Work)) /\ error' \in BOOLEAN
    BY <1>w DEF CInv, Types, Flag, files, At
  <2>5. writers' \in Seq(Tables) /\ IsInjective(writers')
    BY <1>w DEF CInv, Types, Flag, files, At
  <2>6. part' \in [Tables -> Files] /\ final' \in [Tables -> Files]
    BY <1>w, <1>e, ConvertAssumption DEF CInv, Types, Files, NoFile, Flag, files, At
  <2>7. struck' \subseteq FaultNames
    BY <1>w DEF CInv, Types, FaultNames, Flag, files, At
  <2>8. QED
    BY <1>w, <2>1, <2>2, <2>3, <2>4, <2>5, <2>6, <2>7 DEF Types
<1>2. Together'
  BY <1>w DEF CInv, Types, Together, Working, Flag, files, At
<1>3. Flow'
  BY <1>w DEF CInv, Types, Together, Working, Flow, Flowing, Sent, Left, Taken, Flag, files, At
<1>4. Written'
  BY <1>w DEF CInv, Types, Together, Working, Flow, Written, Flowing, Sent, Left, Taken,
     Ended, Flag, files, At
<1>5. Closing'
  BY <1>w DEF CInv, Types, Together, Closing, Flag, files, At
<1>6. Closed'
  BY <1>w DEF CInv, Types, Together, Closed, Flag, files, At
<1>7. VoidedWorked'
  BY <1>w DEF CInv, VoidedWorked, Flag, files, At
<1>8. Cleaning'
  BY <1>w DEF CInv, Types, Together, Cleaning, Flag, files, At
<1>9. Tidy'
  BY <1>w DEF CInv, Types, Together, Tidy, Mild, Flag, files, At
<1>10. Past'
  BY <1>w DEF CInv, Types, Past, Flag, files, At
<1>11. QED
  BY <1>1, <1>2, <1>3, <1>4, <1>5, <1>6, <1>7, <1>8, <1>9, <1>10 DEF CInv

\* The copy has the rows of the file it is copied from.
LEMMA FlaggingKeeps ==
  ASSUME CInv, Flagging
  PROVE  CInv'
<1>w. Work' = Work
  BY DEF Flagging, Work
<1> DEFINE flagged == [final[Trades] EXCEPT !.flagged = TRUE]
<1>p. /\ main.pc = "flagging" /\ Trades \in Tables /\ part \in [Tables -> Files]
      /\ final \in [Tables -> Files] /\ UNCHANGED <<run, thread, queue, error, writers, final>>
  BY ConvertAssumption DEF CInv, Types, Flagging
<1>q. \/ part' = [part EXCEPT ![Trades] = flagged] /\ main'.pc = "flagged"
      \/ /\ part' = [part EXCEPT ![Trades] = NoFile] /\ "flag" \in struck' /\ main'.pc = "abort"
  BY DEF Flagging, At, Strike
<1>e. /\ flagged \in Files /\ flagged.rows = final[Trades].rows /\ flagged.run = final[Trades].run
      /\ flagged.footer = final[Trades].footer /\ flagged.flagged = TRUE
  BY <1>p DEF Files
<1> HIDE DEF flagged
<1>1. Types'
  <2>1. run' \in [n : Nat, tables : Seq(Tables), voided : BOOLEAN]
    BY <1>w DEF CInv, Types, Flagging, files, At, Strike
  <2>2. main' \in [pc : MainPlaces, i : Nat \ {0}, aborting : BOOLEAN]
    BY <1>w DEF CInv, Types, MainPlaces, Flagging, files, At, Strike
  <2>3. thread' \in [pc : ThreadPlaces, item : Nat]
    BY <1>w DEF CInv, Types, ThreadPlaces, Flagging, files, At, Strike
  <2>4. queue' \in Seq(0 .. Len(Work)) /\ error' \in BOOLEAN
    BY <1>w DEF CInv, Types, Flagging, files, At, Strike
  <2>5. writers' \in Seq(Tables) /\ IsInjective(writers')
    BY <1>w DEF CInv, Types, Flagging, files, At, Strike
  <2>6. part' \in [Tables -> Files] /\ final' \in [Tables -> Files]
    BY <1>p, <1>q, <1>e, NoFileIs DEF CInv, Types
  <2>7. struck' \subseteq FaultNames
    BY <1>w DEF CInv, Types, FaultNames, Flagging, files, At, Strike
  <2>8. QED
    BY <1>w, <2>1, <2>2, <2>3, <2>4, <2>5, <2>6, <2>7 DEF Types
<1>2. Together'
  BY <1>w DEF CInv, Types, Together, Working, Flagging, files, At, Strike
<1>3. Flow'
  BY <1>w DEF CInv, Types, Together, Working, Flow, Flowing, Sent, Left, Taken, Flagging,
     files, At, Strike
<1>4. Written'
  BY <1>w DEF CInv, Types, Together, Working, Flow, Written, Flowing, Sent, Left, Taken,
     Ended, Flagging, files, At, Strike
<1>5. Closing'
  BY <1>w DEF CInv, Types, Together, Closing, Flagging, files, At, Strike
<1>6. Closed'
  <2> SUFFICES ASSUME part' = [part EXCEPT ![Trades] = flagged], main'.pc = "flagged"
               PROVE  Closed'
    BY <1>q DEF Closed
  <2>1. run.voided /\ Trades \in ToSet(Work)
    BY <1>p DEF CInv, Closed, VoidedWorked
  <2>2. Whole(Work, run.n, Trades, final[Trades])
    BY <1>p, <2>1 DEF CInv, Closed
  <2>3. Whole(Work, run.n, Trades, flagged)
    BY <1>e, <2>2 DEF Whole
  <2>4. \A t \in Tables : part'[t] = IF t = Trades THEN flagged ELSE part[t]
    BY <1>p
  <2>5. \A t \in Tables : part'[t] # NoFile => t = Trades
    BY <1>p, <2>4 DEF CInv, Closed
  <2>6. Whole(Work, run.n, Trades, part'[Trades]) /\ part'[Trades].flagged
    BY <1>p, <1>e, <2>3, <2>4
  <2>7. \A t \in Tables :
          IF t \in ToSet(Work) THEN Whole(Work, run.n, t, final[t]) /\ final[t].flagged = FALSE
          ELSE final[t] = NoFile
    BY <1>p DEF CInv, Closed
  <2>8. QED
    BY <1>w, <1>p, <2>1, <2>5, <2>6, <2>7 DEF Closed
<1>7. VoidedWorked'
  BY <1>w DEF CInv, VoidedWorked, Flagging, files, At, Strike
<1>8. Cleaning'
  BY <1>w DEF CInv, Types, Together, Cleaning, Flagging, files, At, Strike
<1>9. Tidy'
  BY <1>q DEF Tidy, Mild
<1>10. Past'
  BY <1>w DEF CInv, Types, Past, Flagging, files, At, Strike
<1>11. QED
  BY <1>1, <1>2, <1>3, <1>4, <1>5, <1>6, <1>7, <1>8, <1>9, <1>10 DEF CInv

\* The copy takes the place of trades, and is whole.
LEMMA FlaggedKeeps ==
  ASSUME CInv, Flagged
  PROVE  CInv'
<1>w. Work' = Work
  BY DEF Flagged, Work
<1>p. /\ main.pc = "flagged" /\ Trades \in Tables /\ part \in [Tables -> Files]
      /\ final \in [Tables -> Files] /\ UNCHANGED <<run, thread, queue, error, writers>>
  BY ConvertAssumption DEF CInv, Types, Flagged
<1>q. \/ /\ final' = [final EXCEPT ![Trades] = part[Trades]]
         /\ part' = [part EXCEPT ![Trades] = NoFile] /\ main'.pc = "done"
      \/ "rename" \in struck' /\ main'.pc = "abort" /\ UNCHANGED <<part, final>>
  BY DEF Flagged, At, Strike, files
<1>e. /\ Whole(Work, run.n, Trades, part[Trades]) /\ part[Trades].flagged
      /\ run.voided /\ Trades \in ToSet(Work)
  BY <1>p DEF CInv, Closed, VoidedWorked
<1>1. Types'
  <2>1. run' \in [n : Nat, tables : Seq(Tables), voided : BOOLEAN]
    BY <1>w DEF CInv, Types, Flagged, files, At, Strike
  <2>2. main' \in [pc : MainPlaces, i : Nat \ {0}, aborting : BOOLEAN]
    BY <1>w DEF CInv, Types, MainPlaces, Flagged, files, At, Strike
  <2>3. thread' \in [pc : ThreadPlaces, item : Nat]
    BY <1>w DEF CInv, Types, ThreadPlaces, Flagged, files, At, Strike
  <2>4. queue' \in Seq(0 .. Len(Work)) /\ error' \in BOOLEAN
    BY <1>w DEF CInv, Types, Flagged, files, At, Strike
  <2>5. writers' \in Seq(Tables) /\ IsInjective(writers')
    BY <1>w DEF CInv, Types, Flagged, files, At, Strike
  <2>6. part' \in [Tables -> Files] /\ final' \in [Tables -> Files]
    BY ONLY <1>p, <1>q, NoFileIs
  <2>7. struck' \subseteq FaultNames
    BY <1>w DEF CInv, Types, FaultNames, Flagged, files, At, Strike
  <2>8. QED
    BY <1>w, <2>1, <2>2, <2>3, <2>4, <2>5, <2>6, <2>7 DEF Types
<1>2. Together'
  BY <1>w DEF CInv, Types, Together, Working, Flagged, files, At, Strike
<1>3. Flow'
  BY <1>w DEF CInv, Types, Together, Working, Flow, Flowing, Sent, Left, Taken, Flagged,
     files, At, Strike
<1>4. Written'
  BY <1>w DEF CInv, Types, Together, Working, Flow, Written, Flowing, Sent, Left, Taken,
     Ended, Flagged, files, At, Strike
<1>5. Closing'
  BY <1>w DEF CInv, Types, Together, Closing, Flagged, files, At, Strike
<1>6. Closed'
  <2> SUFFICES ASSUME final' = [final EXCEPT ![Trades] = part[Trades]],
                      part' = [part EXCEPT ![Trades] = NoFile], main'.pc = "done"
               PROVE  Closed'
    BY <1>q DEF Closed
  <2>1. \A t \in Tables : /\ part'[t] = IF t = Trades THEN NoFile ELSE part[t]
                          /\ final'[t] = IF t = Trades THEN part[Trades] ELSE final[t]
    BY <1>p
  <2>2. \A t \in Tables : part'[t] = NoFile
    BY <1>p, <2>1 DEF CInv, Closed
  <2>3. ASSUME NEW t \in Tables
        PROVE  IF t \in ToSet(Work)
                 THEN Whole(Work, run.n, t, final'[t]) /\ final'[t].flagged = (t = Trades)
                 ELSE final'[t] = NoFile
    <3>1. CASE t = Trades
      BY <1>p, <1>e, <2>1, <3>1 DEF CInv, Types, Files
    <3>2. CASE t # Trades
      BY <1>p, <2>1, <3>2 DEF CInv, Closed
    <3>3. QED
      BY <3>1, <3>2
  <2>4. QED
    BY <1>w, <1>p, <1>e, <2>2, <2>3 DEF Closed
<1>7. VoidedWorked'
  BY <1>w DEF CInv, VoidedWorked, Flagged, files, At, Strike
<1>8. Cleaning'
  BY <1>w DEF CInv, Types, Together, Cleaning, Flagged, files, At, Strike
<1>9. Tidy'
  BY <1>w DEF CInv, Types, Together, Tidy, Mild, Flagged, files, At, Strike
<1>10. Past'
  <2>1. ASSUME NEW u \in Tables
        PROVE  final'[u] = final[u] \/ (u = Trades /\ final'[u] = part[Trades])
    BY <1>p, <1>q
  <2>2. run' = run /\ run.n \in Nat \ {0}
    BY <1>p DEF CInv, Types, Together
  <2>3. QED
    BY <1>w, <1>e, <2>1, <2>2 DEF CInv, Past, Whole
<1>11. QED
  BY <1>1, <1>2, <1>3, <1>4, <1>5, <1>6, <1>7, <1>8, <1>9, <1>10 DEF CInv

\* Every part file abort() has yet to unlink is of a writer it has yet to come to.
LEMMA AbortKeeps ==
  ASSUME CInv, Abort
  PROVE  CInv'
<1>w. Work' = Work
  BY DEF Abort, Work
<1>1. Types'
  <2>1. run' \in [n : Nat, tables : Seq(Tables), voided : BOOLEAN]
    BY <1>w DEF CInv, Types, Abort, files
  <2>2. main' \in [pc : MainPlaces, i : Nat \ {0}, aborting : BOOLEAN]
    BY <1>w DEF CInv, Types, MainPlaces, Abort, files
  <2>3. thread' \in [pc : ThreadPlaces, item : Nat]
    BY <1>w DEF CInv, Types, ThreadPlaces, Abort, files
  <2>4. queue' \in Seq(0 .. Len(Work)) /\ error' \in BOOLEAN
    BY <1>w DEF CInv, Types, Abort, files
  <2>5. writers' \in Seq(Tables) /\ IsInjective(writers')
    BY <1>w DEF CInv, Types, Abort, files
  <2>6. part' \in [Tables -> Files] /\ final' \in [Tables -> Files]
    BY <1>w DEF CInv, Types, Files, NoFile, Abort, files
  <2>7. struck' \subseteq FaultNames
    BY <1>w DEF CInv, Types, FaultNames, Abort, files
  <2>8. QED
    BY <1>w, <2>1, <2>2, <2>3, <2>4, <2>5, <2>6, <2>7 DEF Types
<1>2. Together'
  BY <1>w DEF CInv, Types, Together, Working, Abort, files
<1>3. Flow'
  BY <1>w DEF CInv, Types, Together, Working, Flow, Flowing, Sent, Left, Taken, Abort, files
<1>4. Written'
  BY <1>w DEF CInv, Types, Together, Working, Flow, Written, Flowing, Sent, Left, Taken,
     Ended, Abort, files
<1>5. Closing'
  BY <1>w DEF CInv, Types, Together, Closing, Abort, files
<1>6. Closed'
  BY <1>w DEF CInv, Types, Together, Closed, Abort, files
<1>7. VoidedWorked'
  BY <1>w DEF CInv, VoidedWorked, Abort, files
<1>8. Cleaning'
  BY <1>w DEF CInv, Types, Together, Cleaning, Abort, files
<1>9. Tidy'
  <2>1. /\ main.pc = "abort" /\ main'.i = 1 /\ main'.pc \in {"unlink", "leave"}
        /\ UNCHANGED <<writers, part, final, struck>> /\ writers \in Seq(Tables)
    BY DEF CInv, Types, Abort, files
  <2>2. Mild' => Mild
    BY <2>1 DEF Mild
  <2>3. \A t \in ToSet(writers) : \E j \in DOMAIN writers : j >= 1 /\ writers[j] = t
    BY <2>1 DEF ToSet
  <2>4. QED
    BY <2>1, <2>2, <2>3 DEF CInv, Tidy
<1>10. Past'
  BY <1>w DEF CInv, Types, Past, Abort, files
<1>11. QED
  BY <1>1, <1>2, <1>3, <1>4, <1>5, <1>6, <1>7, <1>8, <1>9, <1>10 DEF CInv

\* A writer gone past has no part file; when all are, there is none.
LEMMA UnlinkKeeps ==
  ASSUME CInv, Unlink
  PROVE  CInv'
<1>w. Work' = Work
  BY DEF Unlink, Work
<1> DEFINE t == writers[main.i]
<1>p. /\ main.pc = "unlink" /\ main.i \in Nat \ {0} /\ writers \in Seq(Tables)
      /\ DOMAIN writers = 1 .. Len(writers) /\ Len(writers) \in Nat
      /\ part \in [Tables -> Files] /\ final \in [Tables -> Files]
      /\ UNCHANGED <<run, thread, queue, error, final>>
  BY DEF CInv, Types, Unlink
<1>q. \/ /\ main.i > Len(writers) /\ writers' = <<>> /\ main'.pc = "failed"
         /\ UNCHANGED <<part, struck>>
      \/ /\ main.i \in 1 .. Len(writers) /\ t \in Tables /\ part' = [part EXCEPT ![t] = NoFile]
         /\ writers' = writers
         /\ \/ main'.pc = "unlink" /\ main'.i = main.i + 1 /\ UNCHANGED struck
            \/ main'.pc = "failed" /\ "close" \in struck'
  BY <1>p DEF Unlink, At, Strike
<1> HIDE DEF t
<1>1. Types'
  <2>1. run' \in [n : Nat, tables : Seq(Tables), voided : BOOLEAN]
    BY <1>w DEF CInv, Types, Unlink, files, At, Strike
  <2>2. main' \in [pc : MainPlaces, i : Nat \ {0}, aborting : BOOLEAN]
    BY <1>w DEF CInv, Types, MainPlaces, Unlink, files, At, Strike
  <2>3. thread' \in [pc : ThreadPlaces, item : Nat]
    BY <1>w DEF CInv, Types, ThreadPlaces, Unlink, files, At, Strike
  <2>4. queue' \in Seq(0 .. Len(Work)) /\ error' \in BOOLEAN
    BY <1>w DEF CInv, Types, Unlink, files, At, Strike
  <2>5. writers' \in Seq(Tables) /\ IsInjective(writers')
    <3>1. <<>> \in Seq(Tables) /\ IsInjective(<<>>)
      BY DEF IsInjective
    <3>2. QED
      BY <1>q, <3>1 DEF CInv, Types
  <2>6. part' \in [Tables -> Files] /\ final' \in [Tables -> Files]
    BY ONLY <1>p, <1>q, NoFileIs
  <2>7. struck' \subseteq FaultNames
    BY <1>w DEF CInv, Types, FaultNames, Unlink, files, At, Strike
  <2>8. QED
    BY <1>w, <2>1, <2>2, <2>3, <2>4, <2>5, <2>6, <2>7 DEF Types
<1>2. Together'
  BY <1>w, <1>p, <1>q, ToSetGrows DEF CInv, Types, Together, Working, Unlink, files, At, Strike
<1>3. Flow'
  BY <1>w DEF CInv, Types, Together, Working, Flow, Flowing, Sent, Left, Taken, Unlink,
     files, At, Strike
<1>4. Written'
  BY <1>w DEF CInv, Types, Together, Working, Flow, Written, Flowing, Sent, Left, Taken,
     Ended, Unlink, files, At, Strike
<1>5. Closing'
  BY <1>w DEF CInv, Types, Together, Closing, Unlink, files, At, Strike
<1>6. Closed'
  BY <1>w DEF CInv, Types, Together, Closed, Unlink, files, At, Strike
<1>7. VoidedWorked'
  BY <1>w DEF CInv, VoidedWorked, Unlink, files, At, Strike
<1>8. Cleaning'
  BY <1>w DEF CInv, Types, Together, Cleaning, Unlink, files, At, Strike
<1>9. Tidy'
  <2>1. CASE /\ main.i > Len(writers) /\ writers' = <<>> /\ main'.pc = "failed"
             /\ UNCHANGED <<part, struck>>
    <3>1. Mild' => Mild
      BY <1>p, <2>1 DEF Mild
    <3>2. \A j \in DOMAIN writers : ~(j >= main.i)
      BY <1>p, <2>1
    <3>3. QED
      BY <1>p, <2>1, <3>1, <3>2 DEF CInv, Tidy
  <2>2. CASE /\ main.i \in 1 .. Len(writers) /\ t \in Tables /\ part' = [part EXCEPT ![t] = NoFile]
             /\ writers' = writers /\ main'.pc = "unlink" /\ main'.i = main.i + 1
             /\ UNCHANGED struck
    <3>1. Mild' => Mild
      BY <1>p, <2>2 DEF Mild
    <3>2. \A u \in Tables : part'[u] # NoFile => u # t /\ part[u] # NoFile
      BY <1>p, <2>2
    <3>3. \A j \in DOMAIN writers : j >= main.i /\ writers[j] # t => j >= main.i + 1
      BY <1>p DEF t
    <3>4. QED
      BY <1>p, <2>2, <3>1, <3>2, <3>3 DEF CInv, Tidy
  <2>3. CASE "close" \in struck'
    BY <2>3 DEF Tidy, Mild
  <2>4. QED
    BY <1>q, <2>1, <2>2, <2>3
<1>10. Past'
  BY <1>w DEF CInv, Types, Past, Unlink, files, At, Strike
<1>11. QED
  BY <1>1, <1>2, <1>3, <1>4, <1>5, <1>6, <1>7, <1>8, <1>9, <1>10 DEF CInv

\* What a killed run leaves is no less whole than before.
LEMMA KillKeeps ==
  ASSUME CInv, Kill
  PROVE  CInv'
<1>w. Work' = Work
  BY DEF Kill, Work
<1>1. Types'
  <2>1. run' \in [n : Nat, tables : Seq(Tables), voided : BOOLEAN]
    BY <1>w DEF CInv, Types, Kill, files, At, Strike, Over
  <2>2. main' \in [pc : MainPlaces, i : Nat \ {0}, aborting : BOOLEAN]
    BY <1>w DEF CInv, Types, MainPlaces, Kill, files, At, Strike, Over
  <2>3. thread' \in [pc : ThreadPlaces, item : Nat]
    BY <1>w DEF CInv, Types, ThreadPlaces, Kill, files, At, Strike, Over
  <2>4. queue' \in Seq(0 .. Len(Work)) /\ error' \in BOOLEAN
    BY <1>w DEF CInv, Types, Kill, files, At, Strike, Over
  <2>5. writers' \in Seq(Tables) /\ IsInjective(writers')
    BY <1>w DEF CInv, Types, Kill, files, At, Strike, Over
  <2>6. part' \in [Tables -> Files] /\ final' \in [Tables -> Files]
    BY <1>w DEF CInv, Types, Files, NoFile, Kill, files, At, Strike, Over
  <2>7. struck' \subseteq FaultNames
    BY <1>w DEF CInv, Types, FaultNames, Kill, files, At, Strike, Over
  <2>8. QED
    BY <1>w, <2>1, <2>2, <2>3, <2>4, <2>5, <2>6, <2>7 DEF Types
<1>2. Together'
  BY <1>w DEF CInv, Types, Together, Working, Kill, files, At, Strike, Over
<1>3. Flow'
  BY <1>w DEF CInv, Types, Together, Working, Flow, Flowing, Sent, Left, Taken, Kill, files,
     At, Strike, Over
<1>4. Written'
  BY <1>w DEF CInv, Types, Together, Working, Flow, Written, Flowing, Sent, Left, Taken,
     Ended, Kill, files, At, Strike, Over
<1>5. Closing'
  BY <1>w DEF CInv, Types, Together, Closing, Kill, files, At, Strike, Over
<1>6. Closed'
  BY <1>w DEF CInv, Types, Together, Closed, Kill, files, At, Strike, Over
<1>7. VoidedWorked'
  BY <1>w DEF CInv, VoidedWorked, Kill, files, At, Strike, Over
<1>8. Cleaning'
  BY <1>w DEF CInv, Types, Together, Cleaning, Kill, files, At, Strike, Over
<1>9. Tidy'
  BY <1>w DEF CInv, Types, Together, Tidy, Mild, Kill, files, At, Strike, Over
<1>10. Past'
  BY <1>w DEF CInv, Types, Past, Kill, files, At, Strike, Over
<1>11. QED
  BY <1>1, <1>2, <1>3, <1>4, <1>5, <1>6, <1>7, <1>8, <1>9, <1>10 DEF CInv

\* A run starts over files that all are of earlier ones.
LEMMA StartKeeps ==
  ASSUME CInv, Start
  PROVE  CInv'
<1>1. PICK s \in Selections, v \in BOOLEAN :
        run' = [n |-> run.n + 1, tables |-> s, voided |-> v /\ Batches > 0 /\ Trades \in ToSet(s)]
  BY DEF Start
<1>2. /\ main' = [pc |-> "clean", i |-> 1, aborting |-> FALSE]
      /\ thread' = [pc |-> "none", item |-> 0] /\ queue' = <<>> /\ error' = FALSE
      /\ writers' = <<>> /\ struck' = {} /\ part' = part /\ final' = final
  BY DEF Start, files
<1>3. /\ s \in Seq(Tables) /\ run.n \in Nat /\ run'.n = run.n + 1 /\ run'.tables = s
      /\ run'.voided = (v /\ Batches > 0 /\ Trades \in ToSet(s))
      /\ part \in [Tables -> Files] /\ final \in [Tables -> Files]
  BY <1>1, ConvertAssumption DEF CInv, Types
<1>4. Work' = WorkOf(s)
  BY <1>3 DEF Work, WorkOf
<1>5. Len(WorkOf(s)) \in Nat
  BY <1>3, WorkFrom
<1>6. Types'
  <2>1. run' \in [n : Nat, tables : Seq(Tables), voided : BOOLEAN]
    BY <1>1, <1>3
  <2>2. main' \in [pc : MainPlaces, i : Nat \ {0}, aborting : BOOLEAN]
    BY <1>2 DEF MainPlaces
  <2>3. thread' \in [pc : ThreadPlaces, item : Nat]
    BY <1>2 DEF ThreadPlaces
  <2>4. queue' \in Seq(0 .. Len(Work')) /\ error' \in BOOLEAN
    BY <1>2, EmptySeq
  <2>5. writers' \in Seq(Tables) /\ IsInjective(writers')
    BY <1>2 DEF IsInjective
  <2>6. QED
    BY <1>2, <1>3, <2>1, <2>2, <2>3, <2>4, <2>5 DEF Types
<1>7. Together'
  BY <1>2, <1>3, ToSetGrows DEF Together, Working
<1>8. Flow' /\ Written' /\ Closing' /\ Closed' /\ Tidy'
  BY <1>2 DEF Flow, Written, Closing, Closed, Tidy, Flowing, Mild
<1>9. VoidedWorked'
  <2>1. SUFFICES ASSUME Batches > 0, Trades \in ToSet(s) PROVE Trades \in ToSet(WorkOf(s))
    BY <1>3, <1>4 DEF VoidedWorked
  <2>2. QED
    BY <1>3, <2>1, WorkFrom
<1>10. \A t \in Tables : final[t].run \in Nat /\ final[t].run <= run.n /\ final[t].run < run.n + 1
  <2>1. ASSUME NEW t \in Tables
        PROVE  final[t].run \in Nat /\ final[t].run <= run.n /\ final[t].run < run.n + 1
    <3>1. final[t].run \in Nat
      BY <1>3 DEF Files
    <3>2. final[t].run <= run.n
      BY DEF CInv, Past
    <3>3. QED
      BY <1>3, <3>1, <3>2
  <2>2. QED
    BY <2>1
<1>11. Cleaning'
  <2>1. main'.pc = "clean" /\ main'.i = 1 /\ \A j \in 1 .. main'.i - 1 : FALSE
    BY <1>2
  <2>2. 1 <= Len(TableOrder)
    BY EveryTable
  <2>3. QED
    BY <1>2, <1>3, <1>10, <2>1, <2>2 DEF Cleaning
<1>12. Past'
  <2>1. ASSUME NEW t \in Tables
        PROVE  final[t].run <= run.n + 1 /\ final[t].run # run.n + 1
    BY <1>3, <1>10
  <2>2. \A t \in Tables : final[t] # NoFile => final[t].footer /\ final[t].run # 0
    BY DEF CInv, Past
  <2>3. QED
    BY <1>2, <1>3, <2>1, <2>2 DEF Past
<1>13. QED
  BY <1>6, <1>7, <1>8, <1>9, <1>11, <1>12 DEF CInv

\* The directory is empty before the first run.
LEMMA InitKeeps == Init => CInv
<1> SUFFICES ASSUME Init PROVE CInv
  OBVIOUS
<1>1. /\ run = [n |-> 0, tables |-> <<>>, voided |-> FALSE]
      /\ main = [pc |-> "off", i |-> 1, aborting |-> FALSE]
      /\ thread = [pc |-> "none", item |-> 0] /\ queue = <<>> /\ error = FALSE
      /\ writers = <<>> /\ struck = {}
      /\ part = [t \in Tables |-> NoFile] /\ final = [t \in Tables |-> NoFile]
  BY DEF Init
<1>2. Types
  <2>1. run \in [n : Nat, tables : Seq(Tables), voided : BOOLEAN]
    BY <1>1
  <2>2. main \in [pc : MainPlaces, i : Nat \ {0}, aborting : BOOLEAN]
    BY <1>1 DEF MainPlaces
  <2>3. thread \in [pc : ThreadPlaces, item : Nat]
    BY <1>1 DEF ThreadPlaces
  <2>4. queue \in Seq(0 .. Len(Work)) /\ error \in BOOLEAN
    BY <1>1, EmptySeq
  <2>5. writers \in Seq(Tables) /\ IsInjective(writers)
    BY <1>1 DEF IsInjective
  <2>6. part \in [Tables -> Files] /\ final \in [Tables -> Files]
    BY <1>1, NoFileIs
  <2>7. QED
    BY <1>1, <2>1, <2>2, <2>3, <2>4, <2>5, <2>6 DEF Types
<1>3. Together
  BY <1>1, ToSetGrows DEF Together, Working
<1>4. Flow /\ Written /\ Closing /\ Closed /\ VoidedWorked /\ Cleaning /\ Tidy
  BY <1>1 DEF Flow, Written, Closing, Closed, VoidedWorked, Cleaning, Tidy, Flowing, Mild
<1>5. Past
  BY <1>1, NoFileIs DEF Past
<1>6. QED
  BY <1>2, <1>3, <1>4, <1>5 DEF CInv

\* What nothing touches stays as it is.
LEMMA StutterKeeps ==
  ASSUME CInv, UNCHANGED vars
  PROVE  CInv'
<1>1. Work' = Work
  BY DEF Work, vars
<1>2. /\ UNCHANGED <<run, main, thread, queue, error, writers, part, final, struck>>
      /\ (Working' <=> Working) /\ (Flowing' <=> Flowing)
  BY DEF vars, Working, Flowing
<1>3. Left' = Left /\ Sent' = Sent /\ Taken' = Taken /\ Ended' = Ended
  BY <1>1, <1>2 DEF Left, Sent, Taken, Ended
<1>4. Types' /\ Together'
  BY <1>1, <1>2 DEF CInv, Types, Together
<1>5. Flow' /\ Written'
  BY <1>1, <1>2, <1>3 DEF CInv, Flow, Written
<1>6. Closing' /\ Closed' /\ VoidedWorked'
  BY <1>1, <1>2 DEF CInv, Closing, Closed, VoidedWorked
<1>7. Cleaning' /\ Tidy' /\ Past'
  BY <1>1, <1>2 DEF CInv, Cleaning, Tidy, Mild, Past
<1>8. QED
  BY <1>4, <1>5, <1>6, <1>7 DEF CInv

-----------------------------------------------------------------------------
(* What convert promises.                                                  *)

\* The invariant of the conversion: who is where, what of the work is in the part files,
\* which files are finished, and what abort() will find of what a run leaves.
THEOREM ConvertInvariant == Spec => []CInv
<1>1. ASSUME CInv, [Next]_vars PROVE CInv'
  <2>1. CASE MainStep
    BY <1>1, <2>1, CleanKeeps, NewWritersKeeps, SendKeeps, PutKeeps, PutNoneKeeps, JoinedKeeps,
       CloseWriterKeeps, RenameKeeps, AllClosedKeeps, FlagKeeps, FlaggingKeeps, FlaggedKeeps,
       AbortKeeps, UnlinkKeeps DEF MainStep
  <2>2. CASE ThreadStep
    BY <1>1, <2>2, GetKeeps, OpenKeeps, WriteKeeps DEF ThreadStep
  <2>3. CASE Start \/ Raise \/ Kill
    BY <1>1, <2>3, StartKeeps, RaiseKeeps, KillKeeps
  <2>4. CASE Rest \/ UNCHANGED vars
    BY <1>1, <2>4, StutterKeeps DEF Rest
  <2>5. QED
    BY <1>1, <2>1, <2>2, <2>3, <2>4 DEF Next
<1>2. QED
  BY <1>1, InitKeeps, PTL DEF Spec

\* Whatever fails and whenever a run is killed, a file under its final name has its
\* footer and, when it is this run's, every payload of its table once and in order.
THEOREM FinalsWholeHolds == Spec => []FinalsWhole
<1>1. ASSUME CInv PROVE FinalsWhole
  <2>1. ASSUME NEW t \in Tables, final[t] # NoFile, final[t].run = run.n
        PROVE  AllOf(t, final[t].rows)
    <3>1. run.n # 0 => AllOf(t, final[t].rows)
      BY <1>1, <2>1 DEF CInv, Past, All, UpTo, AllOf
    <3>2. run.n # 0
      BY <1>1, <2>1 DEF CInv, Past
    <3>3. QED
      BY <3>1, <3>2
  <2>2. QED
    BY <1>1, <2>1 DEF CInv, Past, FinalsWhole
<1>2. QED
  BY <1>1, ConvertInvariant, PTL

\* A run that succeeds leaves the whole files of its own tables, trades flagged when one
\* was voided, and nothing of any other table or run.
THEOREM CompleteHolds == Spec => []Complete
<1>1. ASSUME CInv PROVE Complete
  <2>1. SUFFICES ASSUME main.pc = "done", NEW t \in Tables
                 PROVE  /\ part[t] = NoFile
                        /\ IF t \in ToSet(Work)
                             THEN /\ final[t].run = run.n /\ AllOf(t, final[t].rows)
                                  /\ final[t].flagged = (t = Trades /\ run.voided)
                             ELSE final[t] = NoFile
    BY DEF Complete
  <2>2. /\ part[t] # NoFile => main.pc \in {"flagging", "flagged"}
        /\ IF t \in ToSet(Work)
             THEN /\ Whole(Work, run.n, t, final[t])
                  /\ final[t].flagged = (t = Trades /\ run.voided /\ main.pc = "done")
             ELSE final[t] = NoFile
    BY <1>1, <2>1 DEF CInv, Closed
  <2>3. QED
    BY <2>1, <2>2 DEF Whole, All, UpTo, AllOf
<1>2. QED
  BY <1>1, ConvertInvariant, PTL

\* A run that the feed or a write failed leaves nothing behind, whatever the writer
\* thread was doing then and whatever an earlier run had left.
THEOREM NothingLeftHolds == Spec => []NothingLeft
<1>1. ASSUME CInv PROVE NothingLeft
  BY <1>1 DEF CInv, Tidy, Mild, NothingLeft
<1>2. QED
  BY <1>1, ConvertInvariant, PTL
=============================================================================
