-------------------------------- MODULE Fetch ---------------------------------
(***************************************************************************)
(* itch2parquet fetch (python/itch_book/cli.py): a day file is downloaded  *)
(* to a part file, over several attempts and several runs that resume it,  *)
(* renamed to its own name, and then compared with the published checksum. *)
(*                                                                         *)
(* A file is the chunks in it: i is the i-th chunk of the published file,  *)
(* 0 any other.  A checksum matches exactly when the files are the same.   *)
(* The server may fail at any request or in the middle of a body, end a    *)
(* body early, ignore a Range, or have no checksum.                        *)
(***************************************************************************)
EXTENDS Integers, Sequences, SequencesExt

CONSTANTS
  Size,        \* chunks of the published file
  ATTEMPTS,    \* tries of one run
  Runs,        \* how many runs are looked at
  NoFile       \* there is no such file

ASSUME FetchAssumption == Size \in Nat \ {0} /\ ATTEMPTS \in Nat \ {0} /\ Runs \in Nat
ASSUME NoFileAssumption == NoFile \notin Seq(Nat)

VARIABLES
  main,        \* the run: its number, where it is, its attempt, what it returned
  total,       \* the Content-Length of the HEAD, 0 when there was none
  next,        \* the chunk the body goes on with
  part, dest, bad, \* <name>.part, <name> and <name>.bad
  foreign,     \* history: what is in part was not put there by fetch
  unchecked,   \* history: dest was left without being compared with a checksum
  struck       \* history: what went wrong in the run

vars == <<main, total, next, part, dest, bad, foreign, unchecked, struck>>
history == <<foreign, unchecked>>

Published == [i \in 1 .. Size |-> i]

\* The size of part, 0 when there is none.
Have == IF part = NoFile THEN 0 ELSE Len(part)

At(pc) == [main EXCEPT !.pc = pc]
Returned(code) == [At("over") EXCEPT !.code = code]
Strike(fault) == struck' = struck \cup {fault}

Running == main.pc \notin {"off", "over"}

-----------------------------------------------------------------------------
(* One run.                                                                *)

\* fetch() on a name that is there already downloads nothing.
Start ==
  /\ ~Running /\ main.n < Runs
  /\ main'   = [n |-> main.n + 1, attempt |-> 1, code |-> 0,
                pc |-> IF dest = NoFile THEN "locate" ELSE "over"]
  /\ total'  = 0
  /\ struck' = IF foreign THEN {"foreign"} ELSE {}
  /\ UNCHANGED <<next, part, dest, bad, history>>

\* locate_remote(): the directories are tried until one does not answer 404.
Locate ==
  /\ main.pc = "locate"
  /\ \/ /\ total' \in {Size, 0}
        /\ main'  = At("attempt")
        /\ UNCHANGED struck
     \/ /\ Strike("head")
        /\ main' = Returned(1)
        /\ UNCHANGED total
  /\ UNCHANGED <<next, part, dest, bad, history>>

\* Mutant of Attempt: a part that is complete is asked for again.
AttemptAgain ==
  /\ main.pc = "attempt"
  /\ IF total # 0 /\ Have > total
       THEN part' = NoFile /\ foreign' = FALSE
       ELSE UNCHANGED <<part, foreign>>
  /\ main' = At("request")
  /\ UNCHANGED <<total, next, dest, bad, unchecked, struck>>

\* A part that is too long is removed, one that is as long as the file is taken.
Attempt ==
  /\ main.pc = "attempt"
  /\ IF total # 0 /\ Have > total
       THEN part' = NoFile /\ foreign' = FALSE
       ELSE UNCHANGED <<part, foreign>>
  /\ main' = At(IF total # 0 /\ Have = total THEN "replace" ELSE "request")
  /\ UNCHANGED <<total, next, dest, bad, unchecked, struck>>

\* Mutant of Failed: the run goes on trying.
FailedUncounted ==
  IF main.attempt = ATTEMPTS THEN main' = At("attempt")
  ELSE main' = [At("attempt") EXCEPT !.attempt = @ + 1]

\* A URLError or OSError: another attempt, which resumes part, or none left.
Failed ==
  IF main.attempt = ATTEMPTS THEN main' = Returned(1)
  ELSE main' = [At("attempt") EXCEPT !.attempt = @ + 1]

\* Mutant of Request: a server that ignores the Range is appended all the same.
RequestAppending ==
  /\ main.pc = "request"
  /\ \/ /\ Have > 0 /\ Have < Size
        /\ next' = Have + 1
        /\ main' = At("body")
        /\ UNCHANGED <<part, foreign, struck>>
     \/ /\ next' = 1
        /\ part' = IF Have > 0 THEN part ELSE <<>>
        /\ main' = At("body")
        /\ UNCHANGED <<foreign, struck>>
     \/ /\ Have >= Size /\ Failed
        /\ UNCHANGED <<next, part, foreign, struck>>
     \/ /\ Strike("net") /\ Failed
        /\ UNCHANGED <<next, part, foreign>>
  /\ UNCHANGED <<total, dest, bad, unchecked>>

\* download(), up to the open: a 206 goes on where part ends, a 200 starts over, a
\* Range that is past the end is answered 416, and anything may fail.
Request ==
  /\ main.pc = "request"
  /\ \/ /\ Have > 0 /\ Have < Size
        /\ next' = Have + 1
        /\ main' = At("body")
        /\ UNCHANGED <<part, foreign, struck>>
     \/ /\ next' = 1
        /\ part' = <<>> /\ foreign' = FALSE
        /\ main' = At("body")
        /\ UNCHANGED struck
     \/ /\ Have >= Size /\ Failed
        /\ UNCHANGED <<next, part, foreign, struck>>
     \/ /\ Strike("net") /\ Failed
        /\ UNCHANGED <<next, part, foreign>>
  /\ UNCHANGED <<total, dest, bad, unchecked>>

\* A chunk is written to part, or the body ends, or breaks off.  To read() a body that
\* ends early is one that ends.
Body ==
  /\ main.pc = "body"
  /\ \/ /\ next <= Size
        /\ part' = Append(part, next)
        /\ next' = next + 1
        /\ UNCHANGED <<main, struck>>
     \/ /\ IF next <= Size THEN Strike("short") ELSE UNCHANGED struck
        /\ main' = At("replace")
        /\ UNCHANGED <<part, next>>
     \/ /\ Strike("net") /\ Failed
        /\ UNCHANGED <<part, next>>
  /\ UNCHANGED <<total, dest, bad, history>>

\* The digest is taken, and part gets its final name.
Replace ==
  /\ main.pc = "replace"
  /\ dest' = part /\ part' = NoFile
  /\ main' = At("verify")
  /\ foreign' = FALSE
  /\ UNCHANGED <<total, next, bad, unchecked, struck>>

\* Mutant of Verify: a file that does not match is reported and keeps its name.
VerifyKeeping ==
  /\ main.pc = "verify"
  /\ \/ /\ main' = Returned(IF dest = Published THEN 0 ELSE 1)
        /\ UNCHANGED <<dest, bad, unchecked, struck>>
     \/ /\ Strike("nosum")
        /\ main' = Returned(0)
        /\ unchecked' = TRUE
        /\ UNCHANGED <<dest, bad>>
  /\ UNCHANGED <<total, next, part, foreign>>

\* The published checksum decides what the file is called; when it cannot be read,
\* for whatever reason, there is none.
Verify ==
  /\ main.pc = "verify"
  /\ \/ /\ IF dest = Published
             THEN main' = Returned(0) /\ UNCHANGED <<dest, bad>>
             ELSE main' = Returned(1) /\ bad' = dest /\ dest' = NoFile
        /\ UNCHANGED <<unchecked, struck>>
     \/ /\ Strike("nosum")
        /\ main' = Returned(0)
        /\ unchecked' = TRUE
        /\ UNCHANGED <<dest, bad>>
  /\ UNCHANGED <<total, next, part, foreign>>

-----------------------------------------------------------------------------
(* What happens to a run, and between runs.                                *)

\* The process ends at any point, killed or by an exception fetch() does not catch:
\* nobody has then looked at a file it has just renamed.
Kill ==
  /\ Running
  /\ main' = At("off")
  /\ unchecked' = (unchecked \/ main.pc = "verify")
  /\ UNCHANGED <<total, next, part, dest, bad, foreign, struck>>

\* "delete it to download again".
Delete ==
  /\ ~Running /\ dest # NoFile
  /\ dest' = NoFile /\ unchecked' = FALSE
  /\ main' = At("off")
  /\ UNCHANGED <<total, next, part, bad, foreign, struck>>

-----------------------------------------------------------------------------

\* A part an earlier run has left, or some other file under that name.
Parts == {NoFile, <<>>, [i \in 1 .. Size |-> 0], Append(Published, 0), <<0>>}

Init ==
  /\ main = [n |-> 0, pc |-> "off", attempt |-> 1, code |-> 0]
  /\ total = 0 /\ next = 1
  /\ part \in Parts /\ dest = NoFile /\ bad = NoFile
  /\ foreign = (part \notin {NoFile, <<>>})
  /\ unchecked = FALSE /\ struck = {}

FetchStep == Locate \/ Attempt \/ Request \/ Body \/ Replace \/ Verify

\* No more runs to look at.
Rest == ~Running /\ main.n = Runs /\ UNCHANGED vars

Next == Start \/ FetchStep \/ Kill \/ Delete \/ Rest

\* The process is scheduled, and its requests come back: http() sets a timeout.
Spec == Init /\ [][Next]_vars /\ WF_vars(FetchStep)

-----------------------------------------------------------------------------
(* Correctness.                                                            *)

\* Whatever failed, was killed or ended early in whichever attempt of whichever run,
\* and whether the server honours a Range or not, part is a prefix of the published
\* file: no resume duplicates, skips or misplaces a chunk.
PartIsPrefix == part = NoFile \/ foreign \/ IsPrefix(part, Published)

\* Between runs a file under its final name is the published one, unless it was left
\* unchecked, and no published file has been put aside as bad.
Trusted ==
  /\ ~Running /\ dest # NoFile => dest = Published \/ unchecked
  /\ bad # Published

\* A run in which nothing fails succeeds, whatever earlier runs had left: it neither
\* gives up on a part that is complete nor rejects one it resumed.  (When the HEAD
\* has no length, a complete part is asked for again and the answer is always 416.)
QuietRunSucceeds ==
  main.pc = "over" /\ struck = {} =>
    (main.code = 0 /\ (dest = Published \/ unchecked)) \/ (total = 0 /\ part = Published)

\* Every run ends: it returns, after its last attempt at the latest, or is killed.
Ends == [](Running => <>~Running)
=============================================================================
