----------------------------- MODULE FetchProofs ------------------------------
(***************************************************************************)
(* What fetch keeps, however many chunks the published file has, however   *)
(* often a run tries and however many runs follow one another.             *)
(*                                                                         *)
(* The inductive invariant FInv says what each place in a run may count    *)
(* on: the body goes on where part ends, a request is made only for a part *)
(* that is not known to be complete, and what is renamed in a run nothing  *)
(* has gone wrong in is the published file.  The last needs the history of *)
(* the part: a foreign one is told from the fetched by what struck the run.*)
(***************************************************************************)
EXTENDS Fetch, SequenceTheorems, TLAPS

Places == {"off", "over", "locate", "attempt", "request", "body", "replace", "verify"}

Types ==
  /\ main.pc \in Places /\ main.code \in {0, 1} /\ main.n \in Nat /\ main.attempt \in Nat
  /\ main = [n |-> main.n, pc |-> main.pc, attempt |-> main.attempt, code |-> main.code]
  /\ total \in {0, Size} /\ next \in Nat \ {0}
  /\ part \in Seq(Nat) \cup {NoFile} /\ dest \in Seq(Nat) \cup {NoFile}

\* Where the body, the rename and the comparison find the files.
Placed ==
  /\ main.pc = "body" => part # NoFile /\ next = Len(part) + 1
  /\ main.pc = "replace" => part # NoFile
  /\ Running => (dest = NoFile <=> main.pc # "verify")
  /\ main.pc = "request" /\ total # 0 => Have < total

\* What a run in which nothing went wrong may count on.
Quiet ==
  /\ main.pc # "off" /\ foreign => "foreign" \in struck
  /\ main.pc = "replace" /\ struck = {} => part = Published
  /\ main.pc = "verify" /\ struck = {} => dest = Published

FInv == Types /\ Placed /\ Quiet /\ PartIsPrefix /\ Trusted /\ QuietRunSucceeds

-----------------------------------------------------------------------------
(* Prefixes of the published file.                                         *)

\* The published file is its chunks, in order.
LEMMA PublishedFacts ==
  Published \in Seq(Nat) /\ Len(Published) = Size /\ \A i \in 1 .. Size : Published[i] = i
<1>1. Size \in Nat /\ \A i \in 1 .. Size : i \in Nat
  BY FetchAssumption
<1> QED BY <1>1 DEF Published

\* A prefix of the published file is its first chunks, in their order.
LEMMA PrefixFacts ==
  ASSUME NEW s \in Seq(Nat)
  PROVE  IsPrefix(s, Published) <=> Len(s) <= Size /\ \A i \in 1 .. Len(s) : s[i] = i
<1>1. Len(s) \in Nat /\ SubSeq(s, 1, Len(s)) = s
  BY LenProperties, SubSeqFull
<1>2. ASSUME Len(s) <= Size
      PROVE  /\ SubSeq(Published, 1, Len(s)) \in Seq(Nat)
             /\ Len(SubSeq(Published, 1, Len(s))) = Len(s)
             /\ \A i \in 1 .. Len(s) : SubSeq(Published, 1, Len(s))[i] = i
  <2> DEFINE n == Len(s)
  <2>1. n \in Nat /\ n <= Size /\ Size \in Nat
    BY <1>1, <1>2, FetchAssumption
  <2> HIDE DEF n
  <2>2. \A i \in 1 .. n : Published[i] = i /\ Published[i] \in Nat
    BY <2>1, PublishedFacts
  <2>3. /\ SubSeq(Published, 1, n) \in Seq(Nat)
        /\ Len(SubSeq(Published, 1, n)) = IF 1 <= n THEN n - 1 + 1 ELSE 0
        /\ \A i \in 1 .. n - 1 + 1 : SubSeq(Published, 1, n)[i] = Published[1 + i - 1]
    BY <2>1, <2>2, SubSeqProperties
  <2>4. /\ SubSeq(Published, 1, n) \in Seq(Nat) /\ Len(SubSeq(Published, 1, n)) = n
        /\ \A i \in 1 .. n : SubSeq(Published, 1, n)[i] = i
    BY <2>1, <2>2, <2>3
  <2> QED BY <2>4 DEF n
<1>3. Len(s) <= Size =>
        (SubSeq(Published, 1, Len(s)) = s <=> \A i \in 1 .. Len(s) : s[i] = i)
  BY <1>1, <1>2, SeqEqual
<1> QED BY <1>1, <1>3, PublishedFacts DEF IsPrefix

\* The next chunk makes a longer prefix, and one that is long enough is the file.
LEMMA PrefixGrows ==
  ASSUME NEW s \in Seq(Nat), IsPrefix(s, Published)
  PROVE  /\ Len(s) + 1 <= Size => IsPrefix(Append(s, Len(s) + 1), Published)
         /\ Size <= Len(s) => s = Published
<1>1. Len(s) \in Nat /\ Len(s) <= Size /\ \A i \in 1 .. Len(s) : s[i] = i
  BY PrefixFacts, LenProperties
<1>2. ASSUME Len(s) + 1 <= Size PROVE IsPrefix(Append(s, Len(s) + 1), Published)
  <2>1. /\ Append(s, Len(s) + 1) \in Seq(Nat) /\ Len(Append(s, Len(s) + 1)) = Len(s) + 1
        /\ \A i \in 1 .. Len(s) + 1 :
             Append(s, Len(s) + 1)[i] = IF i <= Len(s) THEN s[i] ELSE Len(s) + 1
    BY <1>1, AppendProperties
  <2>2. \A i \in 1 .. Len(s) + 1 : Append(s, Len(s) + 1)[i] = i
    BY <1>1, <2>1
  <2> QED BY <1>2, <2>1, <2>2, PrefixFacts
<1>3. ASSUME Size <= Len(s) PROVE s = Published
  <2>1. Len(s) = Size
    BY <1>1, <1>3, FetchAssumption
  <2> QED BY <1>1, <2>1, PublishedFacts, SeqEqual
<1> QED BY <1>2, <1>3

\* A file with nothing in it is a prefix of the published one.
LEMMA EmptyFacts ==
  <<>> \in Seq(Nat) /\ Len(<<>>) = 0 /\ <<>> # NoFile /\ IsPrefix(<<>>, Published)
<1> DEFINE e == <<>>
<1>1. e \in Seq(Nat) /\ Len(e) = 0
  BY EmptySeq
<1> HIDE DEF e
<1>2. \A i \in 1 .. Len(e) : e[i] = i
  BY <1>1
<1>3. IsPrefix(e, Published)
  <2>1. Len(e) <= Size
    BY <1>1, FetchAssumption
  <2> QED BY <1>1, <1>2, <2>1, PrefixFacts
<1>4. e # NoFile
  BY <1>1, NoFileAssumption
<1> QED BY <1>1, <1>3, <1>4 DEF e

\* What part holds when it is no foreign file.
LEMMA HaveFacts ==
  ASSUME FInv
  PROVE  /\ Have \in Nat
         /\ part # NoFile => part \in Seq(Nat) /\ Have = Len(part)
         /\ 0 < Have => part # NoFile
         /\ ~ foreign /\ Size <= Have => part = Published
         /\ ~ foreign /\ part # NoFile => IsPrefix(part, Published)
<1>1. part # NoFile => part \in Seq(Nat) /\ Len(part) \in Nat
  BY LenProperties DEF FInv, Types
<1>2. Have \in Nat /\ (part # NoFile => Have = Len(part)) /\ (part = NoFile => Have = 0)
  BY <1>1 DEF Have
<1>3. ~ foreign /\ part # NoFile => IsPrefix(part, Published)
  BY DEF FInv, PartIsPrefix
<1> QED BY <1>1, <1>2, <1>3, PrefixGrows, FetchAssumption

-----------------------------------------------------------------------------
(* Every step of a run, and what happens to it.                            *)

\* The record of the run, after a step that moves it on.
LEMMA MainFacts ==
  ASSUME FInv
  PROVE  /\ \A pc : /\ At(pc).pc = pc /\ At(pc).n = main.n
                    /\ At(pc).attempt = main.attempt /\ At(pc).code = main.code
                    /\ At(pc) = [n |-> main.n, pc |-> pc, attempt |-> main.attempt,
                                 code |-> main.code]
         /\ \A code : /\ Returned(code).pc = "over" /\ Returned(code).n = main.n
                      /\ Returned(code).attempt = main.attempt /\ Returned(code).code = code
                      /\ Returned(code) = [n |-> main.n, pc |-> "over",
                                           attempt |-> main.attempt, code |-> code]
         /\ Failed => \/ main' = Returned(1)
                      \/ main' = [n |-> main.n, pc |-> "attempt",
                                  attempt |-> main.attempt + 1, code |-> main.code]
<1>1. main = [n |-> main.n, pc |-> main.pc, attempt |-> main.attempt, code |-> main.code]
  BY DEF FInv, Types
<1>2. \A pc : At(pc) = [n |-> main.n, pc |-> pc, attempt |-> main.attempt, code |-> main.code]
  BY <1>1 DEF At
<1>3. \A code : Returned(code) = [n |-> main.n, pc |-> "over", attempt |-> main.attempt,
                                  code |-> code]
  BY <1>2 DEF Returned
<1>4. [At("attempt") EXCEPT !.attempt = @ + 1]
        = [n |-> main.n, pc |-> "attempt", attempt |-> main.attempt + 1, code |-> main.code]
  BY <1>2
<1> QED BY <1>2, <1>3, <1>4 DEF Failed

\* One lemma for every step: fetch() is called,
LEMMA StartKeeps ==
  ASSUME FInv, Start
  PROVE  FInv'
<1>1. /\ main' = [n |-> main.n + 1, attempt |-> 1, code |-> 0,
                  pc |-> IF dest = NoFile THEN "locate" ELSE "over"]
      /\ total' = 0 /\ struck' = IF foreign THEN {"foreign"} ELSE {}
      /\ UNCHANGED <<next, part, dest, bad, foreign, unchecked>>
  BY DEF Start, history
<1>2. main'.pc = IF dest = NoFile THEN "locate" ELSE "over"
  BY <1>1
<1>3. main'.code = 0 /\ main'.n = main.n + 1 /\ main'.attempt = 1
  BY <1>1
<1>4. main' = [n |-> main'.n, pc |-> main'.pc, attempt |-> main'.attempt, code |-> main'.code]
  BY <1>1
<1>5. Types'
  BY <1>1, <1>2, <1>3, <1>4 DEF FInv, Types, Places
<1>6. Placed'
  BY <1>1, <1>2 DEF Placed, Running
<1>7. Quiet'
  BY <1>1, <1>2 DEF Quiet
<1>8. dest # NoFile => dest = Published \/ unchecked
  BY DEF FInv, Trusted, Start
<1>9. Trusted' /\ PartIsPrefix' /\ QuietRunSucceeds'
  BY <1>1, <1>2, <1>3, <1>8 DEF FInv, Trusted, PartIsPrefix, QuietRunSucceeds
<1> QED BY <1>5, <1>6, <1>7, <1>9 DEF FInv

\* a HEAD is answered, or none is,
LEMMA LocateKeeps ==
  ASSUME FInv, Locate
  PROVE  FInv'
<1>1. /\ main.pc = "locate"
      /\ UNCHANGED <<next, part, dest, bad, foreign, unchecked>>
  BY DEF Locate, history
<1>2. CASE total' \in {Size, 0} /\ main' = At("attempt") /\ UNCHANGED struck
  <2>1. main'.pc = "attempt" /\ Types'
    BY <1>1, <1>2, MainFacts DEF FInv, Types, Places
  <2> QED BY <1>1, <1>2, <2>1
          DEF FInv, Placed, Quiet, Running, Trusted, PartIsPrefix, QuietRunSucceeds
<1>3. CASE Strike("head") /\ main' = Returned(1) /\ UNCHANGED total
  <2>1. main'.pc = "over" /\ Types'
    BY <1>1, <1>3, MainFacts DEF FInv, Types, Places
  <2>2. "head" \in struck' /\ struck \subseteq struck'
    BY <1>3 DEF Strike
  <2>3. dest = NoFile
    BY <1>1 DEF FInv, Placed, Running
  <2> QED BY <1>1, <1>3, <2>1, <2>2, <2>3
          DEF FInv, Placed, Quiet, Running, Trusted, PartIsPrefix, QuietRunSucceeds
<1> QED BY <1>2, <1>3 DEF Locate

\* a part is kept, removed or taken for the file,
LEMMA AttemptKeeps ==
  ASSUME FInv, Attempt
  PROVE  FInv'
<1>1. /\ main.pc = "attempt" /\ main' = At(IF total # 0 /\ Have = total THEN "replace" ELSE "request")
      /\ UNCHANGED <<total, next, dest, bad, unchecked, struck>>
      /\ IF total # 0 /\ Have > total THEN part' = NoFile /\ foreign' = FALSE
                                      ELSE UNCHANGED <<part, foreign>>
  BY DEF Attempt
<1>2. main'.pc = (IF total # 0 /\ Have = total THEN "replace" ELSE "request") /\ Types'
  BY <1>1, MainFacts DEF FInv, Types, Places
<1>3. Have \in Nat /\ total \in {0, Size} /\ Size \in Nat \ {0} /\ dest = NoFile
  BY <1>1, HaveFacts, FetchAssumption DEF FInv, Types, Placed, Running
<1>4. Have' = IF total # 0 /\ Have > total THEN 0 ELSE Have
  BY <1>1 DEF Have
<1>5. Placed'
  <2>1. total # 0 /\ Have = total => part' = part /\ part # NoFile
    BY <1>1, <1>3, HaveFacts
  <2> QED BY <1>1, <1>2, <1>3, <1>4, <2>1 DEF FInv, Placed, Running
<1>6. Quiet'
  <2>1. foreign' => foreign
    BY <1>1
  <2>2. foreign => "foreign" \in struck
    BY <1>1 DEF FInv, Quiet
  <2>3. main'.pc = "replace" /\ struck = {} => part' = Published
    BY <1>1, <1>2, <1>3, <2>2, HaveFacts
  <2> QED BY <1>1, <1>2, <2>1, <2>2, <2>3 DEF Quiet
<1>7. Trusted' /\ PartIsPrefix' /\ QuietRunSucceeds'
  BY <1>1, <1>2, <1>3 DEF FInv, Trusted, PartIsPrefix, QuietRunSucceeds, Running
<1> QED BY <1>2, <1>5, <1>6, <1>7 DEF FInv

\* A request or a body that fails: the run tries again, or is over.
LEMMA FailedKeeps ==
  ASSUME FInv, Running, main.pc # "verify", Failed, struck \subseteq struck',
         struck' # {} \/ (total = 0 /\ part = Published),
         UNCHANGED <<total, next, part, dest, bad, foreign, unchecked>>
  PROVE  FInv'
<1>1. main'.pc \in {"over", "attempt"} /\ Types'
  BY MainFacts DEF FInv, Types, Places
<1>2. dest = NoFile /\ main.pc # "off"
  BY DEF FInv, Placed, Running
<1> QED BY <1>1, <1>2
        DEF FInv, Placed, Quiet, Running, Trusted, PartIsPrefix, QuietRunSucceeds

\* a body is opened where the part ends or at its start, or is not opened,
LEMMA RequestKeeps ==
  ASSUME FInv, Request
  PROVE  FInv'
<1>1. /\ main.pc = "request" /\ UNCHANGED <<total, dest, bad, unchecked>> /\ dest = NoFile
  BY DEF Request, FInv, Placed, Running
<1>2. CASE /\ Have > 0 /\ Have < Size /\ next' = Have + 1 /\ main' = At("body")
           /\ UNCHANGED <<part, foreign, struck>>
  <2>1. main'.pc = "body" /\ Types'
    BY <1>1, <1>2, MainFacts, HaveFacts DEF FInv, Types, Places
  <2>2. part # NoFile /\ next' = Len(part) + 1
    BY <1>2, HaveFacts
  <2> QED BY <1>1, <1>2, <2>1, <2>2
          DEF FInv, Placed, Quiet, Running, Trusted, PartIsPrefix, QuietRunSucceeds
<1>3. CASE /\ next' = 1 /\ part' = <<>> /\ foreign' = FALSE /\ main' = At("body")
           /\ UNCHANGED struck
  <2>1. <<>> \in Seq(Nat) /\ Len(<<>>) = 0 /\ <<>> # NoFile /\ IsPrefix(<<>>, Published)
    BY EmptyFacts
  <2>2. main'.pc = "body" /\ Types'
    BY <1>1, <1>3, <2>1, MainFacts DEF FInv, Types, Places
  <2> QED BY <1>1, <1>3, <2>1, <2>2
          DEF FInv, Placed, Quiet, Running, Trusted, PartIsPrefix, QuietRunSucceeds
<1>4. CASE Have >= Size /\ Failed /\ UNCHANGED <<next, part, foreign, struck>>
  <2>1. Have \in Nat /\ total \in {0, Size} /\ Size \in Nat \ {0}
    BY HaveFacts, FetchAssumption DEF FInv, Types
  <2>2. total = 0
    BY <1>1, <1>4, <2>1 DEF FInv, Placed
  <2>3. struck # {} \/ ~ foreign
    BY <1>1 DEF FInv, Quiet
  <2>4. struck # {} \/ part = Published
    BY <1>4, <2>1, <2>3, HaveFacts
  <2> QED BY <1>1, <1>4, <2>2, <2>4, FailedKeeps DEF Running
<1>5. CASE Strike("net") /\ Failed /\ UNCHANGED <<next, part, foreign>>
  <2>1. struck \subseteq struck' /\ struck' # {}
    BY <1>5 DEF Strike
  <2> QED BY <1>1, <1>5, <2>1, FailedKeeps DEF Running
<1> QED BY <1>2, <1>3, <1>4, <1>5 DEF Request

\* a chunk comes, the body ends or it breaks off,
LEMMA BodyKeeps ==
  ASSUME FInv, Body
  PROVE  FInv'
<1>1. /\ main.pc = "body" /\ UNCHANGED <<total, dest, bad, foreign, unchecked>> /\ dest = NoFile
  BY DEF Body, history, FInv, Placed, Running
<1>2. /\ part \in Seq(Nat) /\ part # NoFile /\ next = Len(part) + 1 /\ Len(part) \in Nat
      /\ next \in Nat /\ Size \in Nat
  BY <1>1, FetchAssumption, LenProperties DEF FInv, Types, Placed
<1>3. CASE next <= Size /\ part' = Append(part, next) /\ next' = next + 1 /\ UNCHANGED <<main, struck>>
  <2>1. part' \in Seq(Nat) /\ Len(part') = Len(part) + 1 /\ part' # NoFile
    BY <1>2, <1>3, AppendProperties, NoFileAssumption
  <2>2. foreign \/ IsPrefix(part', Published)
    BY <1>2, <1>3, PrefixGrows DEF FInv, PartIsPrefix
  <2>3. Types'
    BY <1>1, <1>2, <1>3, <2>1 DEF FInv, Types
  <2> QED BY <1>1, <1>2, <1>3, <2>1, <2>2, <2>3
          DEF FInv, Placed, Quiet, Running, Trusted, PartIsPrefix, QuietRunSucceeds
<1>4. CASE /\ IF next <= Size THEN Strike("short") ELSE UNCHANGED struck
           /\ main' = At("replace") /\ UNCHANGED <<part, next>>
  <2>1. main'.pc = "replace" /\ Types'
    BY <1>1, <1>4, MainFacts DEF FInv, Types, Places
  <2>2. struck \subseteq struck' /\ (next <= Size => struck' # {})
    BY <1>4 DEF Strike
  <2>3. foreign => "foreign" \in struck
    BY <1>1 DEF FInv, Quiet
  <2>4. struck' = {} => part = Published
    BY <1>2, <2>2, <2>3, PrefixGrows DEF FInv, PartIsPrefix
  <2> QED BY <1>1, <1>2, <1>4, <2>1, <2>2, <2>3, <2>4
          DEF FInv, Placed, Quiet, Running, Trusted, PartIsPrefix, QuietRunSucceeds
<1>5. CASE Strike("net") /\ Failed /\ UNCHANGED <<part, next>>
  <2>1. struck \subseteq struck' /\ struck' # {}
    BY <1>5 DEF Strike
  <2> QED BY <1>1, <1>5, <2>1, FailedKeeps DEF Running
<1> QED BY <1>3, <1>4, <1>5 DEF Body

\* the part gets the name of the file,
LEMMA ReplaceKeeps ==
  ASSUME FInv, Replace
  PROVE  FInv'
<1>1. /\ main.pc = "replace" /\ main' = At("verify") /\ dest' = part /\ part' = NoFile
      /\ foreign' = FALSE /\ UNCHANGED <<total, next, bad, unchecked, struck>>
  BY DEF Replace
<1>2. main'.pc = "verify" /\ Types'
  BY <1>1, MainFacts DEF FInv, Types, Places
<1> QED BY <1>1, <1>2
        DEF FInv, Placed, Quiet, Running, Trusted, PartIsPrefix, QuietRunSucceeds

\* the file is compared, put aside, or left unchecked,
LEMMA VerifyKeeps ==
  ASSUME FInv, Verify
  PROVE  FInv'
<1>1. main.pc = "verify" /\ UNCHANGED <<total, next, part, foreign>> /\ struck \subseteq struck'
  BY DEF Verify, Strike
<1>2. CASE /\ IF dest = Published
                THEN main' = Returned(0) /\ UNCHANGED <<dest, bad>>
                ELSE main' = Returned(1) /\ bad' = dest /\ dest' = NoFile
           /\ UNCHANGED <<unchecked, struck>>
  <2>1. main'.pc = "over" /\ Types' /\ (dest = Published => main'.code = 0)
    BY <1>1, <1>2, MainFacts DEF FInv, Types, Places
  <2> QED BY <1>1, <1>2, <2>1
          DEF FInv, Placed, Quiet, Running, Trusted, PartIsPrefix, QuietRunSucceeds
<1>3. CASE Strike("nosum") /\ main' = Returned(0) /\ unchecked' = TRUE /\ UNCHANGED <<dest, bad>>
  <2>1. main'.pc = "over" /\ Types' /\ main'.code = 0
    BY <1>1, <1>3, MainFacts DEF FInv, Types, Places
  <2> QED BY <1>1, <1>3, <2>1
          DEF FInv, Placed, Quiet, Running, Trusted, PartIsPrefix, QuietRunSucceeds
<1> QED BY <1>2, <1>3 DEF Verify

\* the run is killed anywhere,
LEMMA KillKeeps ==
  ASSUME FInv, Kill
  PROVE  FInv'
<1>1. /\ main' = At("off") /\ unchecked' = (unchecked \/ main.pc = "verify") /\ Running
      /\ UNCHANGED <<total, next, part, dest, bad, foreign, struck>>
  BY DEF Kill
<1>2. main'.pc = "off" /\ Types'
  BY <1>1, MainFacts DEF FInv, Types, Places
<1>3. dest = NoFile \/ unchecked'
  BY <1>1 DEF FInv, Placed
<1> QED BY <1>1, <1>2, <1>3
        DEF FInv, Placed, Quiet, Running, Trusted, PartIsPrefix, QuietRunSucceeds

\* the file is deleted between runs.
LEMMA DeleteKeeps ==
  ASSUME FInv, Delete
  PROVE  FInv'
<1>1. /\ main' = At("off") /\ dest' = NoFile
      /\ UNCHANGED <<total, next, part, bad, foreign, struck>>
  BY DEF Delete
<1>2. main'.pc = "off" /\ Types'
  BY <1>1, MainFacts DEF FInv, Types, Places
<1> QED BY <1>1, <1>2
        DEF FInv, Placed, Quiet, Running, Trusted, PartIsPrefix, QuietRunSucceeds

\* A directory nobody has fetched into satisfies the invariant.
LEMMA InitKeeps ==
  ASSUME Init
  PROVE  FInv
<1>1. /\ main.pc = "off" /\ main.code = 0 /\ main.n = 0 /\ main.attempt = 1
      /\ main = [n |-> main.n, pc |-> main.pc, attempt |-> main.attempt, code |-> main.code]
  BY DEF Init
<1>2. part \in Seq(Nat) \cup {NoFile}
  <2>1. Size \in Nat
    BY FetchAssumption
  <2>2. [i \in 1 .. Size |-> 0] \in Seq(Nat) /\ <<>> \in Seq(Nat) /\ <<0>> \in Seq(Nat)
    BY <2>1
  <2>3. Append(Published, 0) \in Seq(Nat)
    BY PublishedFacts, AppendProperties
  <2> QED BY <2>2, <2>3 DEF Init, Parts
<1>3. Types
  BY <1>1, <1>2 DEF Init, Types, Places
<1>4. PartIsPrefix
  BY EmptyFacts DEF Init, PartIsPrefix
<1>5. NoFile # Published
  BY PublishedFacts, NoFileAssumption
<1> QED BY <1>1, <1>3, <1>4, <1>5
        DEF Init, FInv, Placed, Quiet, Running, Trusted, QuietRunSucceeds

-----------------------------------------------------------------------------
(* The theorems.                                                           *)

\* The strengthening that is inductive.
THEOREM FetchInvariant == Spec => []FInv
<1>1. Init => FInv
  BY InitKeeps
<1>2. FInv /\ [Next]_vars => FInv'
  <2> SUFFICES ASSUME FInv, [Next]_vars PROVE FInv'
    OBVIOUS
  <2>1. CASE UNCHANGED vars
    BY <2>1 DEF vars, FInv, Types, Placed, Have, Quiet, Running, Trusted, PartIsPrefix,
                QuietRunSucceeds
  <2> QED BY <2>1, StartKeeps, LocateKeeps, AttemptKeeps, RequestKeeps, BodyKeeps,
             ReplaceKeeps, VerifyKeeps, KillKeeps, DeleteKeeps
          DEF Next, FetchStep, Rest
<1> QED BY <1>1, <1>2, PTL DEF Spec

\* No resume, over any number of attempts and runs, duplicates, skips or misplaces a
\* chunk of a part that fetch has begun itself.
THEOREM PartStaysPrefix == Spec => []PartIsPrefix
<1>1. FInv => PartIsPrefix
  BY DEF FInv
<1> QED BY <1>1, FetchInvariant, PTL

\* Between runs the file under the final name is the published one or was never
\* compared, and what was put aside as bad is not the published one.
THEOREM TrustedHolds == Spec => []Trusted
<1>1. FInv => Trusted
  BY DEF FInv
<1> QED BY <1>1, FetchInvariant, PTL

\* A run in which nothing fails succeeds, whatever part an earlier one has left.
THEOREM QuietRunsSucceed == Spec => []QuietRunSucceeds
<1>1. FInv => QuietRunSucceeds
  BY DEF FInv
<1> QED BY <1>1, FetchInvariant, PTL
=============================================================================
