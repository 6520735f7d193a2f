----------------------------- MODULE StreamProofs -----------------------------
(***************************************************************************)
(* Reassembly is invisible: for every stream of bytes and however it is    *)
(* cut, what the handler was called with and what was counted is what one  *)
(* pass over all that was fed would have made of it, and the parser holds  *)
(* what that pass would have left.                                         *)
(*                                                                         *)
(* parse() is a recursive function of a position.  Unfolded, it is one of  *)
(* a buffer; all the rest follows from that, by the shortest buffer for    *)
(* which it would be wrong.                                                *)
(***************************************************************************)
EXTENDS Batches, FiniteSetTheorems, SequenceTheorems, WellFoundedInduction, TLAPS

Data == Seq(Nat)

Results ==
  [consumed : Nat, messages : Nat, unknown : Nat, malformed : Nat, end : BOOLEAN,
   calls : Seq(Seq(Nat))]

\* What is left of a buffer after k bytes, and the length at its start.
After(b, k)  == SubSeq(b, k + 1, Len(b))
Announced(b) == 256 * b[1] + b[2]

\* The message of the first frame, and the buffer behind it.
First(b)  == SubSeq(b, 3, 2 + Announced(b))
Behind(b) == After(b, 2 + Announced(b))

\* A part of a frame, or nothing.
Partial(b) == Len(b) < 2 \/ Announced(b) > Len(b) - 2

-----------------------------------------------------------------------------
(* Buffers.                                                                *)

\* Every inhabited set of numbers has a least.
LEMMA LeastOf ==
  ASSUME NEW ns \in SUBSET Nat, ns # {}
  PROVE  \E n \in ns : \A m \in ns : n <= m
<1>1. PICK n \in ns : \A m \in ns : ~ (<<m, n>> \in OpToRel(<, Nat))
  BY NatLessThanWellFounded, WFMin
<1>2. \A m \in ns : ~ (m < n)
  BY <1>1 DEF OpToRel
<1> QED BY <1>2

\* A number of two bytes is read the same on every host.
LEMMA U16Is ==
  ASSUME NEW b \in Data, NEW pos \in Nat, pos + 2 <= Len(b)
  PROVE  Value(U16(b, pos)) = 256 * b[pos + 1] + b[pos + 2]
<1> DEFINE m == Bytes(b, pos, 2)
<1>1. Len(b) \in Nat /\ \A i \in 1 .. Len(b) : b[i] \in Nat
  BY LenProperties DEF Data
<1>2. m \in Seq(Nat) /\ Len(m) = 2 /\ m[1] = b[pos + 1] /\ m[2] = b[pos + 2]
  <2>1. \A i \in pos + 1 .. pos + 2 : b[i] \in Nat
    BY <1>1
  <2>2. /\ SubSeq(b, pos + 1, pos + 2) \in Seq(Nat)
        /\ Len(SubSeq(b, pos + 1, pos + 2)) = IF pos + 1 <= pos + 2 THEN pos + 2 - (pos + 1) + 1 ELSE 0
        /\ \A i \in 1 .. pos + 2 - (pos + 1) + 1 : SubSeq(b, pos + 1, pos + 2)[i] = b[pos + 1 + i - 1]
    BY <2>1, SubSeqProperties
  <2> QED BY <2>2 DEF Bytes
<1> HIDE DEF m
<1>3. Sx!Reverse(m)[1] = m[2] /\ Sx!Reverse(m)[2] = m[1] /\ Len(Sx!Reverse(m)) = 2
  BY <1>2 DEF Sx!Reverse
<1>4. Sx!Reverse(Sx!Reverse(m))[1] = m[1] /\ Sx!Reverse(Sx!Reverse(m))[2] = m[2]
  BY <1>2, <1>3 DEF Sx!Reverse
<1> QED BY <1>2, <1>4, HostAssumption DEF U16, Be, Native, Value, m

\* What is left is as long as it must be and starts where it must.
LEMMA AfterFacts ==
  ASSUME NEW b \in Data, NEW k \in 0 .. Len(b)
  PROVE  /\ After(b, k) \in Data /\ Len(After(b, k)) = Len(b) - k
         /\ \A i \in 1 .. Len(b) - k : After(b, k)[i] = b[k + i]
<1>1. Len(b) \in Nat /\ \A i \in k + 1 .. Len(b) : b[i] \in Nat
  BY LenProperties DEF Data
<1>2. k + 1 \in Int /\ Len(b) \in Int
  BY <1>1
<1>3. /\ SubSeq(b, k + 1, Len(b)) \in Seq(Nat)
      /\ Len(SubSeq(b, k + 1, Len(b))) = IF k + 1 <= Len(b) THEN Len(b) - (k + 1) + 1 ELSE 0
      /\ \A i \in 1 .. Len(b) - (k + 1) + 1 : SubSeq(b, k + 1, Len(b))[i] = b[k + 1 + i - 1]
  BY <1>1, <1>2, SubSeqProperties
<1> QED BY <1>1, <1>3 DEF After, Data

\* Two buffers with the same bytes are one.
LEMMA SameData ==
  ASSUME NEW b \in Data, NEW c \in Data, Len(b) = Len(c), \A i \in 1 .. Len(b) : b[i] = c[i]
  PROVE  b = c
<1> QED BY SeqEqual DEF Data

\* Leaving j bytes behind k is leaving both.
LEMMA AfterAfter ==
  ASSUME NEW b \in Data, NEW k \in Nat, NEW j \in Nat, k + j <= Len(b)
  PROVE  After(After(b, k), j) = After(b, k + j)
<1> DEFINE m == k + j
           c == After(b, k)
<1>1. Len(b) \in Nat
  BY LenProperties DEF Data
<1>2. k \in 0 .. Len(b) /\ m \in 0 .. Len(b) /\ j \in 0 .. Len(b) - k
  BY <1>1
<1>3. c \in Data /\ Len(c) = Len(b) - k /\ \A i \in 1 .. Len(b) - k : c[i] = b[k + i]
  BY <1>2, AfterFacts
<1> HIDE DEF c
<1>4. /\ After(c, j) \in Data /\ Len(After(c, j)) = Len(c) - j
      /\ \A i \in 1 .. Len(c) - j : After(c, j)[i] = c[j + i]
  BY <1>2, <1>3, AfterFacts
<1>5. m = k + j
  OBVIOUS
<1> HIDE DEF m
<1>6. /\ After(b, m) \in Data /\ Len(After(b, m)) = Len(b) - m
      /\ \A i \in 1 .. Len(b) - m : After(b, m)[i] = b[m + i]
  BY <1>2, AfterFacts
<1>7. Len(After(c, j)) = Len(After(b, m)) /\ Len(After(c, j)) = Len(b) - m
  BY <1>1, <1>2, <1>3, <1>4, <1>5, <1>6
<1>8. \A i \in 1 .. Len(After(c, j)) : After(c, j)[i] = After(b, m)[i]
  BY <1>1, <1>2, <1>3, <1>4, <1>5, <1>6, <1>7
<1>9. After(c, j) = After(b, m)
  BY <1>4, <1>6, <1>7, <1>8, SameData
<1> QED BY <1>9 DEF c, m

\* A part of what is left is a part of the whole.
LEMMA PartAfter ==
  ASSUME NEW b \in Data, NEW k \in Nat, NEW i \in Nat \ {0}, NEW j \in Nat, k + j <= Len(b), i <= j
  PROVE  SubSeq(After(b, k), i, j) = SubSeq(b, k + i, k + j)
<1> DEFINE c == After(b, k)
<1>1. Len(b) \in Nat /\ k \in 0 .. Len(b) /\ \A n \in 1 .. Len(b) : b[n] \in Nat
  <2>1. Len(b) \in Nat /\ \A n \in 1 .. Len(b) : b[n] \in Nat
    BY LenProperties DEF Data
  <2> QED BY <2>1
<1>2. c \in Data /\ Len(c) = Len(b) - k /\ \A n \in 1 .. Len(b) - k : c[n] = b[k + n]
  BY <1>1, AfterFacts
<1> HIDE DEF c
<1>3. \A n \in i .. j : c[n] \in Nat /\ c[n] = b[k + n]
  BY <1>1, <1>2
<1>4. \A n \in k + i .. k + j : b[n] \in Nat
  BY <1>1
<1>5. /\ SubSeq(c, i, j) \in Seq(Nat) /\ Len(SubSeq(c, i, j)) = IF i <= j THEN j - i + 1 ELSE 0
      /\ \A n \in 1 .. j - i + 1 : SubSeq(c, i, j)[n] = c[i + n - 1]
  BY <1>3, SubSeqProperties
<1> DEFINE l == k + i
           h == k + j
<1>6. /\ SubSeq(b, l, h) \in Seq(Nat) /\ Len(SubSeq(b, l, h)) = IF l <= h THEN h - l + 1 ELSE 0
      /\ \A n \in 1 .. h - l + 1 : SubSeq(b, l, h)[n] = b[l + n - 1]
  <2>1. l \in Int /\ h \in Int
    OBVIOUS
  <2>2. \A n \in l .. h : b[n] \in Nat
    BY <1>4
  <2> HIDE DEF l, h
  <2> QED BY <2>1, <2>2, SubSeqProperties
<1>7. \A n \in 1 .. j - i + 1 : SubSeq(c, i, j)[n] = SubSeq(b, l, h)[n]
  <2> SUFFICES ASSUME NEW n \in 1 .. j - i + 1
               PROVE  SubSeq(c, i, j)[n] = SubSeq(b, l, h)[n]
    OBVIOUS
  <2>1. SubSeq(c, i, j)[n] = c[i + n - 1] /\ c[i + n - 1] = b[k + (i + n - 1)]
    BY <1>3, <1>5
  <2>2. n \in 1 .. h - l + 1 /\ l + n - 1 = k + (i + n - 1)
    OBVIOUS
  <2>3. SubSeq(b, l, h)[n] = b[l + n - 1]
    BY <1>6, <2>2
  <2> HIDE DEF l, h
  <2> QED BY <2>1, <2>2, <2>3
<1>8. SubSeq(c, i, j) \in Data /\ SubSeq(b, l, h) \in Data
      /\ Len(SubSeq(c, i, j)) = Len(SubSeq(b, l, h)) /\ Len(SubSeq(c, i, j)) = j - i + 1
  BY <1>5, <1>6 DEF Data
<1> HIDE DEF l, h
<1>9. SubSeq(c, i, j) = SubSeq(b, l, h)
  BY <1>7, <1>8, SameData
<1> QED BY <1>9 DEF c, l, h

-----------------------------------------------------------------------------
(* One pass, unfolded.                                                     *)

\* What a pass makes of a buffer from a position on, and the function it computes.
Stride(b, pos, f) ==
  IF Len(b) - pos < 2 THEN NoResult
  ELSE IF Value(U16(b, pos)) = 0 THEN Ending
  ELSE IF Value(U16(b, pos)) > Len(b) - pos - 2 THEN NoResult
  ELSE Plus(Frame(SubSeq(b, pos + 3, pos + 2 + Value(U16(b, pos)))),
            f[pos + 2 + Value(U16(b, pos))])

Walk(b, f) == f = [pos \in 0 .. Len(b) |-> Stride(b, pos, f)]

\* And what it makes of the whole of it.
Unfolded(b) ==
  IF Len(b) < 2 THEN NoResult
  ELSE IF Announced(b) = 0 THEN Ending
  ELSE IF Announced(b) > Len(b) - 2 THEN NoResult
  ELSE Plus(Frame(First(b)), Parse(Behind(b)))

\* The length at a position is a number.
LEMMA LengthIs ==
  ASSUME NEW b \in Data, NEW pos \in Nat, pos + 2 <= Len(b)
  PROVE  Value(U16(b, pos)) = 256 * b[pos + 1] + b[pos + 2] /\ Value(U16(b, pos)) \in Nat
<1>1. b[pos + 1] \in Nat /\ b[pos + 2] \in Nat
  BY LenProperties DEF Data
<1> QED BY <1>1, U16Is

\* parse() is one function of a position.
LEMMA WalkOnce ==
  ASSUME NEW b \in Data, NEW f, NEW g, Walk(b, f), Walk(b, g), NEW pos \in 0 .. Len(b)
  PROVE  f[pos] = g[pos]
<1> DEFINE bad == {n \in Nat : n <= Len(b) /\ f[Len(b) - n] # g[Len(b) - n]}
<1>1. Len(b) \in Nat
  BY LenProperties DEF Data
<1>2. \A p \in 0 .. Len(b) : f[p] = Stride(b, p, f) /\ g[p] = Stride(b, p, g)
  BY DEF Walk
<1>3. bad = {}
  <2> SUFFICES ASSUME bad # {} PROVE FALSE
    OBVIOUS
  <2>1. PICK n \in bad : \A m \in bad : n <= m
    BY LeastOf
  <2> DEFINE p == Len(b) - n
             next == p + 2 + Value(U16(b, p))
  <2>2. p \in 0 .. Len(b) /\ n = Len(b) - p /\ f[p] # g[p]
    BY <1>1, <2>1
  <2>3. CASE p + 2 <= Len(b) /\ next <= Len(b)
    <3>1. Value(U16(b, p)) \in Nat
      BY <1>1, <2>2, <2>3, LengthIs
    <3>2. next \in 0 .. Len(b) /\ Len(b) - next < n /\ Len(b) - next \in Nat
          /\ Len(b) - (Len(b) - next) = next
      BY <1>1, <2>2, <2>3, <3>1
    <3>3. Len(b) - next \notin bad
      <4> HIDE DEF bad, next
      <4>1. ~ (n <= Len(b) - next)
        BY <1>1, <2>2, <3>2
      <4> QED BY <2>1, <4>1
    <3>4. f[next] = g[next]
      <4> DEFINE k == Len(b) - next
      <4>1. k \in Nat /\ k <= Len(b) /\ Len(b) - k = next
        BY <1>1, <3>2
      <4> HIDE DEF next, k
      <4>2. k \notin bad
        BY <3>3 DEF k
      <4> QED BY <4>1, <4>2
    <3> QED BY <1>2, <2>2, <3>4 DEF Stride
  <2>4. CASE ~ (p + 2 <= Len(b) /\ next <= Len(b))
    <3>1. CASE ~ (p + 2 <= Len(b))
      <4>1. Len(b) - p < 2
        BY <1>1, <2>2, <3>1
      <4> QED BY <1>2, <2>2, <4>1 DEF Stride
    <3>2. CASE p + 2 <= Len(b)
      <4>1. Value(U16(b, p)) \in Nat
        BY <1>1, <2>2, <3>2, LengthIs
      <4>2. Value(U16(b, p)) > Len(b) - p - 2
        BY <1>1, <2>2, <2>4, <3>2, <4>1
      <4> QED BY <1>2, <2>2, <4>2 DEF Stride
    <3> QED BY <3>1, <3>2
  <2> QED BY <2>3, <2>4
<1>4. Len(b) - pos \in Nat /\ Len(b) - pos <= Len(b) /\ Len(b) - (Len(b) - pos) = pos
  BY <1>1
<1> DEFINE k == Len(b) - pos
<1>5. k \notin bad
  BY <1>3
<1> QED BY <1>4, <1>5

\* What parse() makes of a buffer it makes of its first frame and of the rest.
LEMMA ParseUnfolds ==
  ASSUME NEW b \in Data
  PROVE  Parse(b) = Unfolded(b)
<1> DEFINE bad == {n \in Nat : \E c \in Data : Len(c) = n /\ Parse(c) # Unfolded(c)}
<1>1. bad = {}
  <2> SUFFICES ASSUME bad # {} PROVE FALSE
    OBVIOUS
  <2>1. PICK n \in bad : \A m \in bad : n <= m
    BY LeastOf
  <2>2. PICK c \in Data : Len(c) = n /\ Parse(c) # Unfolded(c)
    BY <2>1
  <2>a. n \in Nat /\ \A i \in 1 .. n : c[i] \in Nat
    BY <2>1, <2>2, LenProperties DEF Data
  <2> DEFINE h == [pos \in 0 .. n |-> IF pos = 0 THEN Unfolded(c) ELSE Parse(After(c, pos))]
  <2>3. h[0] = Unfolded(c) /\ \A pos \in 1 .. n : h[pos] = Parse(After(c, pos))
    BY <2>a
  <2>4. h = [pos \in 0 .. n |-> h[pos]]
    OBVIOUS
  <2> HIDE DEF h
  <2>5. Unfolded(c) = Stride(c, 0, h)
    <3>1. CASE n < 2
      BY <2>2, <3>1 DEF Unfolded, Stride
    <3>2. CASE n >= 2
      <4>1. Value(U16(c, 0)) = Announced(c) /\ Announced(c) \in Nat
        BY <2>2, <3>2, LengthIs DEF Announced
      <4>2. CASE Announced(c) = 0
        BY <2>2, <2>a, <3>2, <4>1, <4>2 DEF Unfolded, Stride
      <4>3. CASE Announced(c) # 0 /\ Announced(c) > n - 2
        BY <2>2, <2>a, <3>2, <4>1, <4>3 DEF Unfolded, Stride
      <4>4. CASE Announced(c) # 0 /\ ~ (Announced(c) > n - 2)
        <5>1. 0 + 2 + Announced(c) \in 1 .. n /\ 0 + 2 + Announced(c) = 2 + Announced(c)
          BY <2>a, <4>1, <4>4
        <5>2. h[0 + 2 + Announced(c)] = Parse(Behind(c))
          BY <2>3, <5>1 DEF Behind
        <5>3. Unfolded(c) = Plus(Frame(First(c)), Parse(Behind(c)))
          BY <2>2, <2>a, <3>2, <4>4 DEF Unfolded
        <5>4. Stride(c, 0, h) = Plus(Frame(SubSeq(c, 0 + 3, 0 + 2 + Announced(c))), h[0 + 2 + Announced(c)])
          BY <2>2, <2>a, <3>2, <4>1, <4>4 DEF Stride
        <5>5. SubSeq(c, 0 + 3, 0 + 2 + Announced(c)) = First(c)
          BY <4>1 DEF First
        <5> QED BY <5>2, <5>3, <5>4, <5>5
      <4> QED BY <4>2, <4>3, <4>4
    <3> QED BY <2>a, <3>1, <3>2
  <2>6. ASSUME NEW pos \in 1 .. n
        PROVE  Parse(After(c, pos)) = Stride(c, pos, h)
    <3> DEFINE d == After(c, pos)
    <3>1. /\ d \in Data /\ Len(d) = n - pos /\ pos \in Nat
          /\ \A i \in 1 .. n - pos : d[i] = c[pos + i]
      <4>1. pos \in 0 .. Len(c) /\ pos \in Nat
        BY <2>2, <2>a
      <4> QED BY <2>2, <4>1, AfterFacts
    <3>2. Parse(d) = Unfolded(d)
      <4>1. n - pos \in Nat /\ ~ (n <= n - pos)
        BY <2>a
      <4> HIDE DEF bad, d
      <4>2. n - pos \notin bad
        BY <2>1, <4>1
      <4> QED BY <3>1, <4>1, <4>2 DEF bad
    <3> HIDE DEF d, bad
    <3>3. CASE n - pos < 2
      BY <2>2, <3>1, <3>2, <3>3 DEF Unfolded, Stride, d
    <3>4. CASE n - pos >= 2
      <4>1. pos + 2 <= Len(c)
        BY <2>2, <2>a, <3>4
      <4>2. Value(U16(c, pos)) = 256 * c[pos + 1] + c[pos + 2] /\ Value(U16(c, pos)) \in Nat
        BY <3>1, <4>1, LengthIs
      <4>3. d[1] = c[pos + 1] /\ d[2] = c[pos + 2]
        BY <2>a, <3>1, <3>4
      <4>4. PICK a \in Nat : a = Announced(d) /\ a = Value(U16(c, pos))
        BY <4>2, <4>3 DEF Announced
      <4>5. CASE a = 0
        BY <2>2, <2>a, <3>1, <3>2, <3>4, <4>4, <4>5 DEF Unfolded, Stride, d
      <4>6. CASE a # 0 /\ a > n - pos - 2
        BY <2>2, <2>a, <3>1, <3>2, <3>4, <4>4, <4>6 DEF Unfolded, Stride, d
      <4>7. CASE a # 0 /\ ~ (a > n - pos - 2)
        <5>a. pos \in Nat /\ a \in Nat /\ a >= 1 /\ pos + 2 + a <= n /\ n \in Nat
          BY <2>a, <3>1, <4>4, <4>7
        <5>1. /\ pos + 2 + a \in 1 .. n /\ pos + 2 + a = pos + (2 + a)
              /\ pos + (2 + a) <= Len(c) /\ 2 + a \in Nat /\ 3 <= 2 + a
          BY ONLY <2>2, <5>a
        <5>2. After(d, 2 + a) = After(c, pos + (2 + a))
          BY <3>1, <5>1, AfterAfter DEF d
        <5>3. SubSeq(d, 3, 2 + a) = SubSeq(c, pos + 3, pos + (2 + a))
          <6> DEFINE j == 2 + a
          <6>1. j \in Nat /\ pos + j <= Len(c) /\ 3 <= j /\ 3 \in Nat \ {0} /\ pos \in Nat
            BY <3>1, <5>1
          <6> HIDE DEF j
          <6>2. SubSeq(After(c, pos), 3, j) = SubSeq(c, pos + 3, pos + j)
            BY ONLY <6>1, c \in Data, PartAfter
          <6> QED BY <6>2 DEF d, j
        <5>4. Unfolded(d) = Plus(Frame(SubSeq(d, 3, 2 + a)), Parse(After(d, 2 + a)))
          BY <2>a, <3>1, <3>4, <4>4, <4>7 DEF Unfolded, First, Behind
        <5>5. Stride(c, pos, h) = Plus(Frame(SubSeq(c, pos + 3, pos + 2 + a)), h[pos + 2 + a])
          BY <2>2, <2>a, <3>1, <3>4, <4>4, <4>7 DEF Stride
        <5>6. h[pos + 2 + a] = Parse(After(c, pos + 2 + a))
          BY <2>3, <5>1
        <5> QED BY <3>2, <5>1, <5>2, <5>3, <5>4, <5>5, <5>6 DEF d
      <4> QED BY <4>5, <4>6, <4>7
    <3> QED BY <2>a, <3>1, <3>3, <3>4
  <2>7. Walk(c, h)
    <3>1. \A pos \in 0 .. n : h[pos] = Stride(c, pos, h)
      BY <2>a, <2>3, <2>5, <2>6
    <3> QED BY <2>2, <2>4, <3>1 DEF Walk
  <2>8. Parse(c) = (CHOOSE f : Walk(c, f))[0]
    BY DEF Parse, Walk, Stride
  <2>9. PICK f : Walk(c, f) /\ Parse(c) = f[0]
    BY <2>7, <2>8
  <2>10. f[0] = h[0]
    BY <2>2, <2>a, <2>7, <2>9, WalkOnce
  <2> QED BY <2>2, <2>3, <2>9, <2>10
<1>2. Len(b) \in Nat
  BY LenProperties DEF Data
<1> QED BY <1>1, <1>2

-----------------------------------------------------------------------------
(* Results of passes.                                                      *)

\* Results add up as passes follow each other.
LEMMA PlusIn ==
  ASSUME NEW r \in Results, NEW s \in Results
  PROVE  /\ Plus(r, s) \in Results /\ Plus(r, s).consumed = r.consumed + s.consumed
         /\ Plus(r, s).end = (r.end \/ s.end) /\ Plus(r, s).calls = r.calls \o s.calls
<1>1. r.calls \o s.calls \in Seq(Seq(Nat))
  BY ConcatProperties DEF Results
<1> QED BY <1>1 DEF Plus, Results

\* Nothing is no pass.
LEMMA PlusNothing ==
  ASSUME NEW r \in Results
  PROVE  Plus(NoResult, r) = r /\ Plus(r, NoResult) = r
<1>1. r.calls \o <<>> = r.calls /\ <<>> \o r.calls = r.calls
  BY ConcatEmptySeq DEF Results
<1>2. r = [consumed |-> r.consumed, messages |-> r.messages, unknown |-> r.unknown,
           malformed |-> r.malformed, end |-> r.end, calls |-> r.calls]
  BY DEF Results
<1>3. /\ r.consumed \in Nat /\ r.messages \in Nat /\ r.unknown \in Nat /\ r.malformed \in Nat
      /\ r.end \in BOOLEAN
  BY DEF Results
<1>4. (FALSE \/ r.end) = r.end /\ (r.end \/ FALSE) = r.end
  BY <1>3
<1>5. /\ 0 + r.consumed = r.consumed /\ 0 + r.messages = r.messages
      /\ 0 + r.unknown = r.unknown /\ 0 + r.malformed = r.malformed
      /\ r.consumed + 0 = r.consumed /\ r.messages + 0 = r.messages
      /\ r.unknown + 0 = r.unknown /\ r.malformed + 0 = r.malformed
  BY <1>3
<1>6. Plus(NoResult, r) = [consumed |-> 0 + r.consumed, messages |-> 0 + r.messages,
           unknown |-> 0 + r.unknown,
           malformed |-> 0 + r.malformed, end |-> FALSE \/ r.end, calls |-> <<>> \o r.calls]
  BY DEF Plus, NoResult
<1>7. Plus(r, NoResult) = [consumed |-> r.consumed + 0, messages |-> r.messages + 0,
           unknown |-> r.unknown + 0,
           malformed |-> r.malformed + 0, end |-> r.end \/ FALSE, calls |-> r.calls \o <<>>]
  BY DEF Plus, NoResult
<1>8. Plus(NoResult, r) = r
  BY ONLY <1>1, <1>2, <1>4, <1>5, <1>6
<1>9. Plus(r, NoResult) = r
  BY ONLY <1>1, <1>2, <1>4, <1>5, <1>7
<1> QED BY <1>8, <1>9

\* Three lists of callbacks are one, from either side.
LEMMA ConcatThree ==
  \A a, b, c \in Seq(Seq(Nat)) : (a \o b) \o c = a \o (b \o c)
<1> SUFFICES ASSUME NEW a \in Seq(Seq(Nat)), NEW b \in Seq(Seq(Nat)), NEW c \in Seq(Seq(Nat))
             PROVE  (a \o b) \o c = a \o (b \o c)
  OBVIOUS
<1> QED BY ConcatAssociative

\* Three passes add up from either side.
LEMMA PlusThree ==
  ASSUME NEW r \in Results, NEW s \in Results, NEW t \in Results
  PROVE  Plus(Plus(r, s), t) = Plus(r, Plus(s, t))
<1>1. (r.calls \o s.calls) \o t.calls = r.calls \o (s.calls \o t.calls)
  <2>1. r.calls \in Seq(Seq(Nat)) /\ s.calls \in Seq(Seq(Nat)) /\ t.calls \in Seq(Seq(Nat))
    BY DEF Results
  <2>2. PICK a, b, c : a = r.calls /\ b = s.calls /\ c = t.calls
    OBVIOUS
  <2>3. a \in Seq(Seq(Nat)) /\ b \in Seq(Seq(Nat)) /\ c \in Seq(Seq(Nat))
    BY <2>1, <2>2
  <2>4. (a \o b) \o c = a \o (b \o c)
    BY ONLY <2>3, ConcatThree
  <2> QED BY <2>2, <2>4
<1>2. \A u \in Results : /\ u.consumed \in Nat /\ u.messages \in Nat /\ u.unknown \in Nat
                         /\ u.malformed \in Nat /\ u.end \in BOOLEAN
  BY DEF Results
<1>3. \A a \in Nat, b \in Nat, c \in Nat : (a + b) + c = a + (b + c)
  OBVIOUS
<1>4. ((r.end \/ s.end) \/ t.end) = (r.end \/ (s.end \/ t.end))
  BY <1>2
<1>5. Plus(Plus(r, s), t) =
        [consumed |-> (r.consumed + s.consumed) + t.consumed,
         messages |-> (r.messages + s.messages) + t.messages,
         unknown |-> (r.unknown + s.unknown) + t.unknown,
         malformed |-> (r.malformed + s.malformed) + t.malformed,
         end |-> (r.end \/ s.end) \/ t.end, calls |-> (r.calls \o s.calls) \o t.calls]
  BY DEF Plus
<1>6. Plus(r, Plus(s, t)) =
        [consumed |-> r.consumed + (s.consumed + t.consumed),
         messages |-> r.messages + (s.messages + t.messages),
         unknown |-> r.unknown + (s.unknown + t.unknown),
         malformed |-> r.malformed + (s.malformed + t.malformed),
         end |-> r.end \/ (s.end \/ t.end), calls |-> r.calls \o (s.calls \o t.calls)]
  BY DEF Plus
<1>7. /\ (r.consumed + s.consumed) + t.consumed = r.consumed + (s.consumed + t.consumed)
      /\ (r.messages + s.messages) + t.messages = r.messages + (s.messages + t.messages)
      /\ (r.unknown + s.unknown) + t.unknown = r.unknown + (s.unknown + t.unknown)
      /\ (r.malformed + s.malformed) + t.malformed = r.malformed + (s.malformed + t.malformed)
  BY <1>2, <1>3
<1> QED BY ONLY <1>1, <1>4, <1>5, <1>6, <1>7

\* A frame counts for as many bytes as it has and never ends the session.
LEMMA FrameIs ==
  ASSUME NEW m \in Data, Len(m) >= 1
  PROVE  Frame(m) \in Results /\ Frame(m).consumed = 2 + Len(m) /\ Frame(m).end = FALSE
<1>1. Len(m) \in Nat /\ Head(m) \in Nat /\ m # <<>>
  <2>1. m # <<>>
    BY EmptySeq DEF Data
  <2> QED BY <2>1, LenProperties, HeadTailProperties DEF Data
<1>2. Dispatch(m) \in Seq(Seq(Nat))
  <2>1. m \in Seq(Nat) /\ <<Head(m)>> \in Seq(Nat)
    BY <1>1 DEF Data
  <2>2. <<m>> \in Seq(Seq(Nat)) /\ << <<Head(m)>> >> \in Seq(Seq(Nat)) /\ <<>> \in Seq(Seq(Nat))
    BY <2>1
  <2> QED BY <2>2 DEF Dispatch
<1>3. <<>> \in Seq(Seq(Nat))
  BY EmptySeq
<1> QED BY <1>1, <1>2, <1>3 DEF Frame, Results

\* A pass over nothing, and one over the mark of the end.
LEMMA NoneIn ==
  /\ NoResult \in Results /\ NoResult.consumed = 0 /\ NoResult.end = FALSE
  /\ Ending \in Results /\ Ending.consumed = 2 /\ Ending.end = TRUE
<1>1. <<>> \in Seq(Seq(Nat))
  BY EmptySeq
<1> QED BY <1>1 DEF NoResult, Ending, Results

\* A buffer starts with a part of a frame, with the mark of the end or with a whole frame.
Starts(b) ==
  \/ Partial(b) /\ Parse(b) = NoResult
  \/ Len(b) >= 2 /\ Announced(b) = 0 /\ Parse(b) = Ending
  \/ /\ Announced(b) \in Nat \ {0} /\ 2 + Announced(b) <= Len(b)
     /\ First(b) \in Data /\ Len(First(b)) = Announced(b)
     /\ Behind(b) \in Data /\ Len(Behind(b)) = Len(b) - (2 + Announced(b))
     /\ Parse(b) = Plus(Frame(First(b)), Parse(Behind(b)))

\* Every buffer starts so, and one that is a part of a frame makes nothing.
LEMMA StartsSo ==
  ASSUME NEW b \in Data
  PROVE  Starts(b) /\ (Partial(b) => Parse(b) = NoResult)
<1>1. Len(b) \in Nat /\ \A i \in 1 .. Len(b) : b[i] \in Nat
  BY LenProperties DEF Data
<1>2. Parse(b) = Unfolded(b)
  BY ParseUnfolds
<1>3. CASE Len(b) < 2
  BY <1>2, <1>3 DEF Unfolded, Starts, Partial
<1>4. CASE Len(b) >= 2
  <2>1. Announced(b) \in Nat
    BY <1>1, <1>4 DEF Announced
  <2>2. CASE Announced(b) = 0
    BY <1>1, <1>2, <1>4, <2>2 DEF Unfolded, Starts, Partial
  <2>3. CASE Announced(b) # 0 /\ Announced(b) > Len(b) - 2
    BY <1>1, <1>2, <1>4, <2>3 DEF Unfolded, Starts, Partial
  <2>4. CASE Announced(b) # 0 /\ ~ (Announced(b) > Len(b) - 2)
    <3> PICK a : a = Announced(b)
      OBVIOUS
    <3>1. a \in Nat \ {0} /\ 2 + a <= Len(b) /\ 2 + a \in 0 .. Len(b)
      BY <1>1, <2>1, <2>4
    <3>2. After(b, 2 + a) \in Data /\ Len(After(b, 2 + a)) = Len(b) - (2 + a)
      <4> DEFINE k == 2 + a
      <4>1. k \in 0 .. Len(b)
        BY <3>1
      <4> HIDE DEF k
      <4>2. After(b, k) \in Data /\ Len(After(b, k)) = Len(b) - k
        BY <4>1, AfterFacts
      <4> QED BY <4>2 DEF k
    <3>3. SubSeq(b, 3, 2 + a) \in Data /\ Len(SubSeq(b, 3, 2 + a)) = a
      <4> DEFINE k == 2 + a
      <4>1. k \in Int /\ 3 \in Int /\ 3 <= k /\ k - 3 + 1 = a /\ \A i \in 3 .. k : b[i] \in Nat
        BY <1>1, <3>1
      <4> HIDE DEF k
      <4>2. SubSeq(b, 3, k) \in Seq(Nat) /\ Len(SubSeq(b, 3, k)) = IF 3 <= k THEN k - 3 + 1 ELSE 0
        BY <4>1, SubSeqProperties
      <4> QED BY <4>1, <4>2 DEF k, Data
    <3>4. Parse(b) = Plus(Frame(First(b)), Parse(Behind(b))) /\ ~ Partial(b)
      BY <1>2, <1>4, <2>4 DEF Unfolded, Partial
    <3> QED BY <3>1, <3>2, <3>3, <3>4 DEF Starts, First, Behind
  <2> QED BY <2>1, <2>2, <2>3, <2>4
<1> QED BY <1>1, <1>3, <1>4

-----------------------------------------------------------------------------
(* One pass after another.                                                 *)

\* A pass that meets no end leaves a part of a frame, or nothing.
Sound(b) ==
  /\ Parse(b) \in Results /\ Parse(b).consumed <= Len(b)
  /\ ~ Parse(b).end => Partial(After(b, Parse(b).consumed))

\* Every pass is so.
LEMMA ParseSound ==
  ASSUME NEW b \in Data
  PROVE  Sound(b)
<1> DEFINE bad == {n \in Nat : \E c \in Data : Len(c) = n /\ ~ Sound(c)}
<1>1. bad = {}
  <2> SUFFICES ASSUME bad # {} PROVE FALSE
    OBVIOUS
  <2>1. PICK n \in bad : \A m \in bad : n <= m
    BY LeastOf
  <2>2. PICK c \in Data : Len(c) = n /\ ~ Sound(c)
    BY <2>1
  <2>a. n \in Nat
    BY <2>1
  <2>3. CASE Partial(c) /\ Parse(c) = NoResult
    <3>1. After(c, 0) = c
      BY SubSeqFull DEF After, Data
    <3> QED BY <2>2, <2>a, <2>3, <3>1, NoneIn DEF Sound
  <2>4. CASE Len(c) >= 2 /\ Announced(c) = 0 /\ Parse(c) = Ending
    BY <2>2, <2>4, NoneIn DEF Sound
  <2>5. ASSUME Announced(c) \in Nat \ {0}, 2 + Announced(c) <= Len(c),
               First(c) \in Data, Len(First(c)) = Announced(c),
               Behind(c) \in Data, Len(Behind(c)) = Len(c) - (2 + Announced(c)),
               Parse(c) = Plus(Frame(First(c)), Parse(Behind(c)))
        PROVE  FALSE
    <3> PICK a, m, d : a = Announced(c) /\ m = First(c) /\ d = Behind(c)
      OBVIOUS
    <3>1. /\ a \in Nat \ {0} /\ 2 + a <= n /\ m \in Data /\ Len(m) = a /\ d \in Data
          /\ Len(d) = n - (2 + a) /\ Parse(c) = Plus(Frame(m), Parse(d))
          /\ d = After(c, 2 + a)
      BY <2>2, <2>5 DEF Behind
    <3>2. Sound(d)
      <4>1. Len(d) \in Nat /\ ~ (n <= Len(d))
        BY <2>a, <3>1
      <4>2. Len(d) \notin bad
        <5> HIDE DEF bad
        <5> QED BY <2>1, <4>1
      <4> QED BY <3>1, <4>1, <4>2
    <3>3. Frame(m) \in Results /\ Frame(m).consumed = 2 + a /\ Frame(m).end = FALSE
      <4>1. Len(m) >= 1 /\ m \in Data /\ Len(m) = a
        BY <3>1
      <4> QED BY ONLY <4>1, FrameIs
    <3>4. PICK r, s : r = Frame(m) /\ s = Parse(d)
      OBVIOUS
    <3>5. /\ r \in Results /\ s \in Results /\ r.consumed = 2 + a /\ r.end = FALSE
          /\ s.consumed <= Len(d) /\ s.consumed \in Nat /\ s.end \in BOOLEAN
          /\ ~ s.end => Partial(After(d, s.consumed))
      BY <3>2, <3>3, <3>4 DEF Sound, Results
    <3>6. /\ Plus(r, s) \in Results /\ Plus(r, s).consumed = (2 + a) + s.consumed
          /\ Plus(r, s).end = s.end
      BY <3>5, PlusIn
    <3>7. After(d, s.consumed) = After(c, (2 + a) + s.consumed)
      <4> DEFINE k == 2 + a
                 j == s.consumed
      <4>1. k \in Nat /\ j \in Nat /\ k + j <= Len(c) /\ d = After(c, k)
        BY <2>2, <2>a, <3>1, <3>5
      <4> HIDE DEF k, j
      <4>2. After(After(c, k), j) = After(c, k + j)
        BY ONLY <2>2, <4>1, AfterAfter
      <4> QED BY <4>1, <4>2 DEF k, j
    <3>8. (2 + a) + s.consumed <= n
      BY <2>a, <3>1, <3>5
    <3>9. Parse(c) = Plus(r, s)
      BY <3>1, <3>4
    <3>10. Sound(c)
      BY ONLY <2>2, <3>5, <3>6, <3>7, <3>8, <3>9 DEF Sound
    <3> QED BY <2>2, <3>10
  <2> QED BY <2>3, <2>4, <2>5, StartsSo DEF Starts
<1>2. Len(b) \in Nat
  BY LenProperties DEF Data
<1> QED BY <1>1, <1>2

\* What is left of two buffers when the first has more than is taken.
LEMMA AfterConcat ==
  ASSUME NEW x \in Data, NEW y \in Data, NEW k \in 0 .. Len(x)
  PROVE  /\ After(x \o y, k) = After(x, k) \o y /\ x \o y \in Data
         /\ Len(x \o y) = Len(x) + Len(y)
<1>1. Len(x) \in Nat /\ Len(y) \in Nat
  BY LenProperties DEF Data
<1>2. /\ x \o y \in Data /\ Len(x \o y) = Len(x) + Len(y)
      /\ \A i \in 1 .. Len(x) + Len(y) : (x \o y)[i] = IF i <= Len(x) THEN x[i] ELSE y[i - Len(x)]
  BY ConcatProperties DEF Data
<1>3. /\ After(x, k) \in Data /\ Len(After(x, k)) = Len(x) - k
      /\ \A i \in 1 .. Len(x) - k : After(x, k)[i] = x[k + i]
  BY AfterFacts
<1> DEFINE c == x \o y
           d == After(x, k)
<1>4. /\ After(c, k) \in Data /\ Len(After(c, k)) = Len(c) - k
      /\ \A i \in 1 .. Len(c) - k : After(c, k)[i] = c[k + i]
  <2>1. k \in 0 .. Len(c) /\ c \in Data
    BY <1>1, <1>2
  <2> HIDE DEF c
  <2> QED BY <2>1, AfterFacts
<1>5. /\ d \o y \in Data /\ Len(d \o y) = Len(d) + Len(y)
      /\ \A i \in 1 .. Len(d) + Len(y) : (d \o y)[i] = IF i <= Len(d) THEN d[i] ELSE y[i - Len(d)]
  <2>1. d \in Data
    BY <1>3
  <2> HIDE DEF d
  <2> QED BY <2>1, ConcatProperties DEF Data
<1>6. Len(c) = Len(x) + Len(y) /\ Len(d) = Len(x) - k
  BY <1>2, <1>3
<1>7. \A i \in 1 .. Len(x) + Len(y) : c[i] = IF i <= Len(x) THEN x[i] ELSE y[i - Len(x)]
  BY <1>2
<1>8. \A i \in 1 .. Len(x) - k : d[i] = x[k + i]
  BY <1>3
<1> HIDE DEF c, d
<1>9. Len(After(c, k)) = Len(d \o y) /\ Len(d \o y) = Len(x) - k + Len(y)
  BY <1>1, <1>4, <1>5, <1>6
<1>10. ASSUME NEW i \in 1 .. Len(d \o y)
       PROVE  After(c, k)[i] = (d \o y)[i]
  <2>1. After(c, k)[i] = c[k + i]
    BY <1>1, <1>4, <1>6, <1>9
  <2>2. c[k + i] = IF k + i <= Len(x) THEN x[k + i] ELSE y[k + i - Len(x)]
    BY <1>1, <1>7, <1>9
  <2>3. (d \o y)[i] = IF i <= Len(d) THEN d[i] ELSE y[i - Len(d)]
    BY <1>1, <1>5, <1>6, <1>9
  <2>4. CASE i <= Len(d)
    BY <1>1, <1>6, <1>8, <1>9, <2>1, <2>2, <2>3, <2>4
  <2>5. CASE ~ (i <= Len(d))
    <3>1. ~ (k + i <= Len(x)) /\ k + i - Len(x) = i - Len(d)
      BY <1>1, <1>6, <1>9, <2>5
    <3> QED BY <2>1, <2>2, <2>3, <2>5, <3>1
  <2> QED BY <2>4, <2>5
<1>11. After(c, k) = d \o y
  BY <1>4, <1>5, <1>9, <1>10, SameData
<1> QED BY <1>2, <1>11 DEF c, d

\* What a buffer starts with it starts with whatever follows it.
LEMMA StartOfConcat ==
  ASSUME NEW x \in Data, NEW y \in Data, Len(x) >= 2
  PROVE  Announced(x \o y) = Announced(x) /\ Announced(x) \in Nat
<1>1. Len(x) \in Nat /\ Len(y) \in Nat /\ \A i \in 1 .. Len(x) : x[i] \in Nat
  BY LenProperties DEF Data
<1>2. \A i \in 1 .. Len(x) + Len(y) : (x \o y)[i] = IF i <= Len(x) THEN x[i] ELSE y[i - Len(x)]
  BY ConcatProperties DEF Data
<1>3. (x \o y)[1] = x[1] /\ (x \o y)[2] = x[2]
  BY <1>1, <1>2
<1> QED BY <1>1, <1>3 DEF Announced

\* The first frame of a buffer is the first of all that follows it too.
LEMMA WholeFirst ==
  ASSUME NEW x \in Data, NEW y \in Data, Announced(x) \in Nat \ {0}, 2 + Announced(x) <= Len(x)
  PROVE  Parse(x \o y) = Plus(Frame(First(x)), Parse(Behind(x) \o y))
<1> PICK a : a = Announced(x)
  OBVIOUS
<1>1. Len(x) \in Nat /\ Len(y) \in Nat /\ a \in Nat \ {0} /\ 2 + a <= Len(x) /\ Len(x) >= 2
  BY LenProperties DEF Data
<1>2. /\ x \o y \in Data /\ Len(x \o y) = Len(x) + Len(y) /\ After(x \o y, 2 + a) = After(x, 2 + a) \o y
  <2> DEFINE k == 2 + a
  <2>1. k \in 0 .. Len(x)
    BY <1>1
  <2> HIDE DEF k
  <2>2. /\ x \o y \in Data /\ Len(x \o y) = Len(x) + Len(y) /\ After(x \o y, k) = After(x, k) \o y
    BY <2>1, AfterConcat
  <2> QED BY <2>2 DEF k
<1>3. Announced(x \o y) = a
  BY <1>1, StartOfConcat
<1>4. SubSeq(x \o y, 3, 2 + a) = SubSeq(x, 3, 2 + a)
  <2> DEFINE k == 2 + a
  <2>1. 3 \in 1 .. Len(x) /\ k \in 1 .. Len(x)
    BY <1>1
  <2> HIDE DEF k
  <2>2. SubSeq(x \o y, 3, k) = SubSeq(x, 3, k)
    BY <2>1, SubSeqOfConcat1 DEF Data
  <2> QED BY <2>2 DEF k
<1>5. Parse(x \o y) = Unfolded(x \o y)
  BY <1>2, ParseUnfolds
<1> DEFINE c == x \o y
<1>6. Len(c) >= 2 /\ ~ (Announced(c) = 0) /\ ~ (Announced(c) > Len(c) - 2)
  BY <1>1, <1>2, <1>3
<1>7. Parse(c) = Plus(Frame(First(c)), Parse(Behind(c)))
  <2> HIDE DEF c
  <2>1. ~ (Len(c) < 2)
    BY <1>1, <1>2, <1>6 DEF c
  <2> QED BY <1>5, <1>6, <2>1 DEF Unfolded, c
<1> QED BY <1>2, <1>3, <1>4, <1>7 DEF First, Behind

\* A pass over two buffers is a pass over the first and, unless it met the end, one
\* over what it left and the second.
Splits(x, y) ==
  IF Parse(x).end THEN Parse(x \o y) = Parse(x)
  ELSE Parse(x \o y) = Plus(Parse(x), Parse(After(x, Parse(x).consumed) \o y))

\* It is so of every two buffers.
LEMMA ParseSplits ==
  ASSUME NEW u \in Data, NEW v \in Data
  PROVE  Splits(u, v)
<1> DEFINE bad == {n \in Nat : \E x, y \in Data : Len(x) = n /\ ~ Splits(x, y)}
<1>1. bad = {}
  <2> SUFFICES ASSUME bad # {} PROVE FALSE
    OBVIOUS
  <2>1. PICK n \in bad : \A m \in bad : n <= m
    BY LeastOf
  <2>2. PICK x \in Data, y \in Data : Len(x) = n /\ ~ Splits(x, y)
    BY <2>1
  <2>a. n \in Nat
    BY <2>1
  <2>3. CASE Partial(x) /\ Parse(x) = NoResult
    <3>1. After(x, 0) = x
      BY SubSeqFull DEF After, Data
    <3>2. x \o y \in Data
      BY ConcatProperties DEF Data
    <3>3. Parse(x \o y) \in Results
      BY <3>2, ParseSound DEF Sound
    <3>4. Plus(NoResult, Parse(x \o y)) = Parse(x \o y)
      BY <3>3, PlusNothing
    <3> QED BY <2>2, <2>3, <3>1, <3>4, NoneIn DEF Splits
  <2>4. CASE Len(x) >= 2 /\ Announced(x) = 0 /\ Parse(x) = Ending
    <3>1. x \o y \in Data /\ Len(x \o y) = Len(x) + Len(y) /\ Len(x) \in Nat /\ Len(y) \in Nat
      BY ConcatProperties, LenProperties DEF Data
    <3>2. Announced(x \o y) = 0
      BY <2>4, StartOfConcat
    <3>3. Parse(x \o y) = Unfolded(x \o y)
      BY <3>1, ParseUnfolds
    <3>4. ~ (Len(x \o y) < 2)
      BY <2>4, <3>1
    <3>5. Parse(x \o y) = Ending
      BY <3>2, <3>3, <3>4 DEF Unfolded
    <3> QED BY <2>2, <2>4, <3>5, NoneIn DEF Splits
  <2>5. ASSUME Announced(x) \in Nat \ {0}, 2 + Announced(x) <= Len(x),
               First(x) \in Data, Len(First(x)) = Announced(x),
               Behind(x) \in Data, Len(Behind(x)) = Len(x) - (2 + Announced(x)),
               Parse(x) = Plus(Frame(First(x)), Parse(Behind(x)))
        PROVE  FALSE
    <3> PICK a, m, d : a = Announced(x) /\ m = First(x) /\ d = Behind(x)
      OBVIOUS
    <3>1. /\ a \in Nat \ {0} /\ 2 + a <= n /\ m \in Data /\ Len(m) = a /\ d \in Data
          /\ Len(d) = n - (2 + a) /\ Parse(x) = Plus(Frame(m), Parse(d))
          /\ d = After(x, 2 + a)
      BY <2>2, <2>5 DEF Behind
    <3>2. Splits(d, y)
      <4>1. Len(d) \in Nat /\ ~ (n <= Len(d))
        BY <2>a, <3>1
      <4>2. Len(d) \notin bad
        <5> HIDE DEF bad
        <5> QED BY <2>1, <4>1
      <4> QED BY <3>1, <4>1, <4>2
    <3>3. Frame(m) \in Results /\ Frame(m).consumed = 2 + a /\ Frame(m).end = FALSE
      <4>1. Len(m) >= 1 /\ m \in Data /\ Len(m) = a
        BY <3>1
      <4> QED BY ONLY <4>1, FrameIs
    <3>4. PICK r, s : r = Frame(m) /\ s = Parse(d)
      OBVIOUS
    <3>5. /\ r \in Results /\ s \in Results /\ r.consumed = 2 + a /\ r.end = FALSE
          /\ s.consumed <= Len(d) /\ s.consumed \in Nat /\ s.end \in BOOLEAN
      BY <3>1, <3>3, <3>4, ParseSound DEF Sound, Results
    <3>a. /\ Plus(r, s) \in Results /\ Plus(r, s).consumed = (2 + a) + s.consumed
          /\ Plus(r, s).end = s.end
      BY <3>5, PlusIn
    <3>b. Parse(x) = Plus(r, s)
      BY <3>1, <3>4
    <3>6. /\ Plus(r, s) \in Results /\ Plus(r, s).consumed = (2 + a) + s.consumed
          /\ Plus(r, s).end = s.end /\ Parse(x) = Plus(r, s)
      BY ONLY <3>a, <3>b
    <3>7. Parse(x \o y) = Plus(r, Parse(d \o y))
      BY <2>5, <3>4, WholeFirst
    <3>8. CASE s.end
      <4>1. Parse(d \o y) = s
        BY <3>2, <3>4, <3>8 DEF Splits
      <4> QED BY <2>2, <3>6, <3>7, <3>8, <4>1 DEF Splits
    <3>9. CASE ~ s.end
      <4> PICK rest : rest = After(d, s.consumed) \o y
        OBVIOUS
      <4>1. Parse(d \o y) = Plus(s, Parse(rest))
        BY <3>2, <3>4, <3>9 DEF Splits
      <4>2. After(d, s.consumed) = After(x, (2 + a) + s.consumed)
        <5> DEFINE k == 2 + a
                   j == s.consumed
        <5>1. k \in Nat /\ j \in Nat /\ k + j <= Len(x) /\ d = After(x, k)
          BY <2>2, <2>a, <3>1, <3>5
        <5> HIDE DEF k, j
        <5>2. After(After(x, k), j) = After(x, k + j)
          BY ONLY <2>2, <5>1, AfterAfter
        <5> QED BY <5>1, <5>2 DEF k, j
      <4>3. Parse(rest) \in Results
        <5>1. After(d, s.consumed) \in Data
          <6> DEFINE j == s.consumed
          <6>1. j \in 0 .. Len(d)
            BY <2>a, <3>1, <3>5
          <6> HIDE DEF j
          <6>2. After(d, j) \in Data
            BY <3>1, <6>1, AfterFacts
          <6> QED BY <6>2 DEF j
        <5>2. rest \in Data
          BY <5>1, ConcatProperties DEF Data
        <5> QED BY <5>2, ParseSound DEF Sound
      <4>4. Plus(Plus(r, s), Parse(rest)) = Plus(r, Plus(s, Parse(rest)))
        BY <3>5, <4>3, PlusThree
      <4>5. Parse(x \o y) = Plus(Parse(x), Parse(After(x, Parse(x).consumed) \o y))
        BY <3>6, <3>7, <4>1, <4>2, <4>4
      <4> QED BY <2>2, <3>6, <3>9, <4>5 DEF Splits
    <3> QED BY <3>5, <3>8, <3>9
  <2> QED BY <2>3, <2>4, <2>5, StartsSo DEF Starts
<1>2. Len(u) \in Nat
  BY LenProperties DEF Data
<1> QED BY <1>1, <1>2

-----------------------------------------------------------------------------
(* Parts of a stream.                                                      *)

\* A part of a buffer is as long as it must be and starts where it must.
LEMMA PartIs ==
  ASSUME NEW b \in Data, NEW i \in Nat, NEW j \in 0 .. Len(b), i <= j
  PROVE  /\ SubSeq(b, i + 1, j) \in Data /\ Len(SubSeq(b, i + 1, j)) = j - i
         /\ \A m \in 1 .. j - i : SubSeq(b, i + 1, j)[m] = b[i + m]
<1> DEFINE l == i + 1
<1>1. Len(b) \in Nat /\ \A m \in 1 .. Len(b) : b[m] \in Nat
  BY LenProperties DEF Data
<1>2. l \in Int /\ j \in Int /\ \A m \in l .. j : b[m] \in Nat
  BY <1>1
<1>3. l = i + 1
  OBVIOUS
<1> HIDE DEF l
<1>4. /\ SubSeq(b, l, j) \in Seq(Nat) /\ Len(SubSeq(b, l, j)) = IF l <= j THEN j - l + 1 ELSE 0
      /\ \A m \in 1 .. j - l + 1 : SubSeq(b, l, j)[m] = b[l + m - 1]
  BY <1>2, SubSeqProperties
<1>5. Len(SubSeq(b, l, j)) = j - i
  BY <1>1, <1>3, <1>4
<1>6. \A m \in 1 .. j - i : SubSeq(b, l, j)[m] = b[i + m]
  <2> SUFFICES ASSUME NEW m \in 1 .. j - i PROVE SubSeq(b, l, j)[m] = b[i + m]
    OBVIOUS
  <2>1. m \in 1 .. j - l + 1 /\ l + m - 1 = i + m
    BY <1>1, <1>3
  <2> QED BY <1>4, <2>1
<1> QED BY <1>4, <1>5, <1>6 DEF l, Data

\* What has been fed is what had been fed and the chunk.
LEMMA CutAt ==
  ASSUME NEW b \in Data, NEW i \in Nat, NEW j \in 0 .. Len(b), i <= j
  PROVE  SubSeq(b, 1, j) = SubSeq(b, 1, i) \o SubSeq(b, i + 1, j)
<1> DEFINE w == SubSeq(b, 1, j)
           x == SubSeq(b, 1, i)
           y == SubSeq(b, i + 1, j)
<1>1. Len(b) \in Nat /\ i \in 0 .. Len(b)
  BY LenProperties DEF Data
<1>2. y \in Data /\ Len(y) = j - i /\ \A m \in 1 .. j - i : y[m] = b[i + m]
  BY PartIs
<1>3. w \in Data /\ Len(w) = j /\ \A m \in 1 .. j : w[m] = b[m]
  <2>1. /\ SubSeq(b, 0 + 1, j) \in Data /\ Len(SubSeq(b, 0 + 1, j)) = j - 0
        /\ \A m \in 1 .. j - 0 : SubSeq(b, 0 + 1, j)[m] = b[0 + m]
    BY <1>1, PartIs
  <2> QED BY <1>1, <2>1
<1>4. x \in Data /\ Len(x) = i /\ \A m \in 1 .. i : x[m] = b[m]
  <2>1. /\ SubSeq(b, 0 + 1, i) \in Data /\ Len(SubSeq(b, 0 + 1, i)) = i - 0
        /\ \A m \in 1 .. i - 0 : SubSeq(b, 0 + 1, i)[m] = b[0 + m]
    BY <1>1, PartIs
  <2> QED BY <1>1, <2>1
<1> HIDE DEF w, x, y
<1>5. /\ x \o y \in Data /\ Len(x \o y) = Len(x) + Len(y)
      /\ \A m \in 1 .. Len(x) + Len(y) : (x \o y)[m] = IF m <= Len(x) THEN x[m] ELSE y[m - Len(x)]
  BY <1>2, <1>4, ConcatProperties DEF Data
<1>6. Len(w) = Len(x \o y)
  BY <1>1, <1>2, <1>3, <1>4, <1>5
<1>7. \A m \in 1 .. Len(w) : w[m] = (x \o y)[m]
  <2> SUFFICES ASSUME NEW m \in 1 .. Len(w) PROVE w[m] = (x \o y)[m]
    OBVIOUS
  <2>1. m \in 1 .. Len(x) + Len(y) /\ m \in 1 .. j
    BY <1>1, <1>2, <1>3, <1>4
  <2>2. CASE m <= i
    <3>1. m \in 1 .. i
      BY <2>1, <2>2
    <3> QED BY <1>3, <1>4, <1>5, <2>1, <2>2, <3>1
  <2>3. CASE ~ (m <= i)
    <3>1. m - i \in 1 .. j - i /\ i + (m - i) = m
      BY <1>1, <2>1, <2>3
    <3>2. y[m - i] = b[m]
      BY <1>2, <3>1
    <3> QED BY <1>3, <1>4, <1>5, <2>1, <2>3, <3>2
  <2> QED BY <2>2, <2>3
<1>8. w = x \o y
  BY <1>3, <1>5, <1>6, <1>7, SameData
<1> QED BY <1>8 DEF w, x, y

\* Three buffers are one, from either side.
LEMMA DataThree ==
  \A a, b, c \in Data : (a \o b) \o c = a \o (b \o c)
<1> SUFFICES ASSUME NEW a \in Seq(Nat), NEW b \in Seq(Nat), NEW c \in Seq(Nat)
             PROVE  (a \o b) \o c = a \o (b \o c)
  BY DEF Data
<1> QED BY ConcatAssociative

\* Behind all of a buffer there is nothing.
LEMMA AfterAll ==
  ASSUME NEW b \in Data
  PROVE  After(b, Len(b)) = <<>>
<1> DEFINE n == Len(b)
<1>1. n \in 0 .. Len(b) /\ n \in Nat
  BY LenProperties DEF Data
<1> HIDE DEF n
<1>2. After(b, n) \in Data /\ Len(After(b, n)) = Len(b) - n
  BY <1>1, AfterFacts
<1>3. Len(After(b, n)) = 0
  BY <1>1, <1>2 DEF n
<1> QED BY <1>2, <1>3, EmptySeq DEF n, Data

\* What has been fed and not consumed lies in the stream.
LEMMA TailLies ==
  ASSUME NEW b \in Data, NEW i \in Nat, NEW j \in 0 .. Len(b), i <= j
  PROVE  After(SubSeq(b, 1, j), i) = SubSeq(b, i + 1, j)
<1> DEFINE x == SubSeq(b, 1, i)
           y == SubSeq(b, i + 1, j)
<1>1. x \in Data /\ Len(x) = i
  <2>1. i \in 0 .. Len(b) /\ 0 \in Nat /\ 0 <= i
    BY LenProperties DEF Data
  <2>2. SubSeq(b, 0 + 1, i) \in Data /\ Len(SubSeq(b, 0 + 1, i)) = i - 0
    BY ONLY b \in Data, <2>1, PartIs
  <2>3. 0 + 1 = 1 /\ i - 0 = i
    BY <2>1
  <2> QED BY <2>2, <2>3
<1>2. y \in Data
  BY PartIs
<1>3. SubSeq(b, 1, j) = x \o y
  BY CutAt
<1> HIDE DEF x, y
<1>4. After(x, i) = <<>>
  BY <1>1, AfterAll
<1>5. After(x \o y, i) = After(x, i) \o y
  <2>1. i \in 0 .. Len(x)
    BY <1>1
  <2> QED BY <1>1, <1>2, <2>1, AfterConcat
<1>6. <<>> \o y = y
  BY <1>2, ConcatEmptySeq DEF Data
<1> QED BY <1>3, <1>4, <1>5, <1>6 DEF y

-----------------------------------------------------------------------------
(* Reassembly.                                                             *)

\* What pending lacks, and that a part of a frame lacks something.
LEMMA NeedIs ==
  ASSUME NEW p \in Data
  PROVE  /\ PendingNeed(p) \in Int /\ Len(p) \in Nat
         /\ Len(p) < 2 => PendingNeed(p) = 2 - Len(p)
         /\ Len(p) >= 2 => PendingNeed(p) = 2 + Announced(p) - Len(p) /\ Announced(p) \in Nat
         /\ Partial(p) <=> PendingNeed(p) > 0
<1>1. Len(p) \in Nat
  BY LenProperties DEF Data
<1>2. CASE Len(p) < 2
  BY <1>1, <1>2 DEF PendingNeed, Partial
<1>3. CASE Len(p) >= 2
  <2>1. 0 + 2 <= Len(p)
    BY <1>1, <1>3
  <2>2. Value(U16(p, 0)) = 256 * p[0 + 1] + p[0 + 2] /\ Value(U16(p, 0)) \in Nat
    BY <2>1, LengthIs
  <2>3. Value(U16(p, 0)) = Announced(p)
    BY <2>2 DEF Announced
  <2>4. PendingNeed(p) = 2 + Announced(p) - Len(p)
    BY <1>1, <1>3, <2>3 DEF PendingNeed
  <2>5. PICK a : a = Announced(p)
    OBVIOUS
  <2> QED BY <1>1, <1>3, <2>2, <2>3, <2>4, <2>5 DEF Partial
<1> QED BY <1>1, <1>2, <1>3

\* Nothing is a part of a frame.
LEMMA NothingIs ==
  <<>> \in Data /\ Len(<<>>) = 0 /\ Partial(<<>>) /\ Parse(<<>>) = NoResult
<1>1. <<>> \in Data /\ Len(<<>>) = 0
  BY EmptySeq DEF Data
<1> QED BY <1>1, StartsSo DEF Partial

\* A buffer of one frame is all consumed.
LEMMA OneFrame ==
  ASSUME NEW p \in Data, PendingNeed(p) = 0
  PROVE  Parse(p) \in Results /\ Parse(p).consumed = Len(p)
<1>1. Len(p) \in Nat /\ Len(p) >= 2 /\ Announced(p) \in Nat /\ Len(p) = 2 + Announced(p) /\ ~ Partial(p)
  BY NeedIs
<1>2. Parse(p) \in Results /\ Parse(p).consumed \in Nat
  BY ParseSound DEF Sound, Results
<1>3. CASE Announced(p) = 0 /\ Parse(p) = Ending
  BY <1>1, <1>2, <1>3, NoneIn
<1>4. ASSUME First(p) \in Data, Len(First(p)) = Announced(p), Announced(p) \in Nat \ {0},
             Behind(p) \in Data, Parse(p) = Plus(Frame(First(p)), Parse(Behind(p)))
      PROVE  Parse(p).consumed = Len(p)
  <2>1. Behind(p) = <<>>
    BY <1>1, AfterAll DEF Behind
  <2>2. Frame(First(p)) \in Results /\ Frame(First(p)).consumed = 2 + Len(First(p))
    <3> PICK m : m = First(p)
      OBVIOUS
    <3>1. m \in Data /\ Len(m) >= 1
      BY <1>4
    <3>2. Frame(m) \in Results /\ Frame(m).consumed = 2 + Len(m)
      BY ONLY <3>1, FrameIs
    <3> QED BY <3>2
  <2>3. Parse(p) = Frame(First(p))
    BY <1>4, <2>1, <2>2, NothingIs, PlusNothing
  <2> QED BY <1>1, <1>4, <2>2, <2>3
<1> QED BY <1>1, <1>2, <1>3, <1>4, StartsSo DEF Starts

\* What a round takes from the chunk, what is pending with it and what is left.
Take(p, q)  == IF PendingNeed(p) < Len(q) THEN PendingNeed(p) ELSE Len(q)
Grown(p, q) == p \o SubSeq(q, 1, Take(p, q))
Left(p, q)  == SubSeq(q, Take(p, q) + 1, Len(q))

\* It is not more than the frame in pending lacks.
LEMMA TakenIs ==
  ASSUME NEW p \in Data, NEW q \in Data, Partial(p), q # <<>>
  PROVE  /\ Grown(p, q) \in Data /\ Left(p, q) \in Data /\ Grown(p, q) \o Left(p, q) = p \o q
         /\ PendingNeed(Grown(p, q)) = 0 \/ Partial(Grown(p, q))
         /\ \/ PendingNeed(Grown(p, q)) = 0 \/ Left(p, q) = <<>>
            \/ Len(p) < 2 /\ Len(Grown(p, q)) >= 2
<1> PICK take : take = IF PendingNeed(p) < Len(q) THEN PendingNeed(p) ELSE Len(q)
  OBVIOUS
<1> PICK p2 : p2 = p \o SubSeq(q, 1, take)
  OBVIOUS
<1> PICK left : left = SubSeq(q, take + 1, Len(q))
  OBVIOUS
<1>0. p2 = Grown(p, q) /\ left = Left(p, q)
  BY DEF Grown, Left, Take
<1> DEFINE t == SubSeq(q, 1, take)
<1>1. /\ Len(p) \in Nat /\ Len(q) \in Nat /\ PendingNeed(p) \in Int /\ PendingNeed(p) > 0
      /\ take \in 0 .. Len(q) /\ take \in Nat /\ Len(q) \in 0 .. Len(q)
  BY NeedIs, LenProperties DEF Data
<1>2. t \in Data /\ Len(t) = take
  <2>1. SubSeq(q, 0 + 1, take) \in Data /\ Len(SubSeq(q, 0 + 1, take)) = take - 0
    BY <1>1, PartIs
  <2> QED BY <1>1, <2>1
<1>3. left \in Data /\ Len(left) = Len(q) - take
  BY <1>1, PartIs
<1>4. q = t \o left
  <2> DEFINE n == Len(q)
  <2>1. n \in 0 .. Len(q) /\ take \in Nat /\ take <= n
    BY <1>1
  <2>3. left = SubSeq(q, take + 1, n)
    OBVIOUS
  <2> HIDE DEF n
  <2>4. SubSeq(q, 1, n) = SubSeq(q, 1, take) \o SubSeq(q, take + 1, n)
    BY ONLY q \in Data, <2>1, CutAt
  <2>5. SubSeq(q, 1, n) = t \o left
    BY <2>3, <2>4
  <2>6. SubSeq(q, 1, Len(q)) = t \o left
    BY <2>5 DEF n
  <2>2. SubSeq(q, 1, Len(q)) = q
    BY SubSeqFull DEF Data
  <2> QED BY <2>2, <2>6
<1>5. p2 = p \o t
  OBVIOUS
<1> HIDE DEF t
<1>6. p2 \in Data /\ Len(p2) = Len(p) + take
  BY <1>2, <1>5, ConcatProperties DEF Data
<1>7. p2 \o left = p \o q
  <2>1. (p \o t) \o left = p \o (t \o left)
    BY ONLY p \in Data, <1>2, <1>3, DataThree
  <2> QED BY <1>4, <1>5, <2>1
<1>8. /\ PendingNeed(p2) \in Int
      /\ Len(p2) < 2 => PendingNeed(p2) = 2 - Len(p2)
      /\ Len(p2) >= 2 => PendingNeed(p2) = 2 + Announced(p2) - Len(p2) /\ Announced(p2) \in Nat
      /\ Partial(p2) <=> PendingNeed(p2) > 0
  BY <1>6, NeedIs
<1>9. CASE Len(p) < 2
  <2>1. PendingNeed(p) = 2 - Len(p)
    BY <1>9, NeedIs
  <2>2. Len(p2) <= 2
    BY <1>1, <1>6, <1>9, <2>1
  <2>3. PendingNeed(p2) >= 0
    BY <1>1, <1>6, <1>8, <2>2
  <2>4. left = <<>> \/ Len(p2) >= 2
    <3>1. CASE PendingNeed(p) < Len(q)
      BY <1>1, <1>6, <2>1, <3>1
    <3>2. CASE ~ (PendingNeed(p) < Len(q))
      <4>1. Len(left) = 0
        BY <1>1, <1>3, <3>2
      <4> QED BY <1>3, <4>1, EmptySeq DEF Data
    <3> QED BY <3>1, <3>2
  <2>5. PendingNeed(p2) = 0 \/ PendingNeed(p2) > 0
    BY <1>8, <2>3
  <2> QED BY ONLY <1>0, <1>3, <1>6, <1>7, <1>8, <1>9, <2>4, <2>5
<1>10. CASE Len(p) >= 2
  <2>1. PendingNeed(p) = 2 + Announced(p) - Len(p) /\ Announced(p) \in Nat
    BY <1>10, NeedIs
  <2>2. Announced(p2) = Announced(p)
    BY <1>2, <1>5, <1>10, StartOfConcat
  <2>3. PendingNeed(p2) = PendingNeed(p) - take
    BY <1>1, <1>6, <1>8, <1>10, <2>1, <2>2
  <2>4. PendingNeed(p2) >= 0
    BY <1>1, <2>3
  <2>5. PendingNeed(p2) = 0 \/ left = <<>>
    <3>1. CASE PendingNeed(p) < Len(q)
      BY <1>1, <2>3, <3>1
    <3>2. CASE ~ (PendingNeed(p) < Len(q))
      <4>1. Len(left) = 0
        BY <1>1, <1>3, <3>2
      <4> QED BY <1>3, <4>1, EmptySeq DEF Data
    <3> QED BY <3>1, <3>2
  <2>6. PendingNeed(p2) = 0 \/ PendingNeed(p2) > 0
    BY <1>8, <2>4
  <2> QED BY ONLY <1>0, <1>3, <1>6, <1>7, <1>8, <2>5, <2>6
<1>11. Len(p) < 2 \/ Len(p) >= 2
  BY <1>1
<1> QED BY ONLY <1>9, <1>10, <1>11

\* What the loops of feed() hold of w, all that has been fed with the chunk: the passes
\* so far and the one over what is left make one pass over w.
Held(w, u) ==
  /\ u.pending \in Data /\ u.rest \in Data /\ u.r \in Results
  /\ Partial(u.pending) /\ u.r.consumed <= Len(w)
  /\ u.r.end => u.pending = <<>> /\ Parse(w) = u.r
  /\ ~ u.r.end => /\ After(w, u.r.consumed) = u.pending \o u.rest
                  /\ Parse(w) = Plus(u.r, Parse(u.pending \o u.rest))

\* What holds of w once the passes so far have made r of it and q is left.
LeftOf(w, r, q) ==
  /\ r \in Results /\ r.consumed <= Len(w)
  /\ r.end => Parse(w) = r
  /\ ~ r.end => After(w, r.consumed) = q /\ Parse(w) = Plus(r, Parse(q))

\* One frame off the front of what is left.
LEMMA FrameOff ==
  ASSUME NEW w \in Data, NEW r \in Results, ~ r.end, r.consumed <= Len(w),
         NEW p \in Data, NEW left \in Data, PendingNeed(p) = 0,
         After(w, r.consumed) = p \o left, Parse(w) = Plus(r, Parse(p \o left))
  PROVE  LeftOf(w, Plus(r, Parse(p)), left)
<1> PICK r2 : r2 = Plus(r, Parse(p))
  OBVIOUS
<1>1. PICK f, k : f = Parse(p) /\ k = Len(p)
  OBVIOUS
<1>2. f \in Results /\ f.consumed = k /\ k \in Nat
  BY <1>1, OneFrame, LenProperties DEF Data
<1>3. r.consumed \in Nat /\ r.end \in BOOLEAN /\ f.end \in BOOLEAN
  BY <1>2 DEF Results
<1>4. r2 \in Results /\ r2.consumed = r.consumed + k /\ r2.end = f.end
  BY <1>1, <1>2, <1>3, PlusIn
<1>5. After(p, k) = <<>> /\ <<>> \o left = left
  BY <1>1, AfterAll, ConcatEmptySeq DEF Data
<1>6. After(p \o left, k) = left /\ Len(p \o left) = k + Len(left) /\ Len(left) \in Nat
  <2>1. k \in 0 .. Len(p)
    BY <1>1, <1>2
  <2>2. After(p \o left, k) = After(p, k) \o left /\ Len(p \o left) = Len(p) + Len(left)
    BY <2>1, AfterConcat
  <2> QED BY <1>1, <1>5, <2>2, LenProperties DEF Data
<1>7. PICK c, n : c = r.consumed /\ n = Len(w)
  OBVIOUS
<1>8. c \in Nat /\ n \in Nat /\ c <= n /\ c \in 0 .. Len(w)
  BY <1>3, <1>7, LenProperties DEF Data
<1>9. Len(After(w, c)) = n - c
  BY <1>7, <1>8, AfterFacts
<1>10. c + k <= Len(w)
  BY <1>6, <1>7, <1>8, <1>9, <1>2
<1>11. After(After(w, c), k) = After(w, c + k)
  BY ONLY w \in Data, <1>2, <1>8, <1>10, AfterAfter
<1>12. CASE f.end
  <2>1. Parse(p \o left) = f
    BY <1>1, <1>12, ParseSplits DEF Splits
  <2> QED BY <1>1, <1>4, <1>7, <1>10, <1>12, <2>1 DEF LeftOf
<1>13. CASE ~ f.end
  <2>0. Splits(p, left)
    BY ParseSplits
  <2>1. Parse(p \o left) = Plus(f, Parse(left))
    <3>1. Parse(p \o left) = Plus(f, Parse(After(p, f.consumed) \o left))
      BY <1>1, <1>13, <2>0 DEF Splits
    <3> QED BY <1>2, <1>5, <3>1
  <2>2. Parse(left) \in Results
    BY ParseSound DEF Sound
  <2>3. Plus(Plus(r, f), Parse(left)) = Plus(r, Plus(f, Parse(left)))
    BY <1>2, <2>2, PlusThree
  <2> QED BY <1>1, <1>4, <1>6, <1>7, <1>10, <1>11, <1>13, <2>1, <2>3 DEF LeftOf
<1> QED BY <1>12, <1>13

\* A round holds it, and completes the frame, takes all of the chunk or completes the
\* length of the frame.
LEMMA FillHolds ==
  ASSUME NEW w \in Data, NEW u, Held(w, u), ~ u.r.end, u.rest # <<>>
  PROVE  /\ Held(w, Fill(u))
         /\ \/ Fill(u).pending = <<>> \/ Fill(u).rest = <<>>
            \/ Len(u.pending) < 2 /\ Len(Fill(u).pending) >= 2
<1>1. PICK p, q, r : p = u.pending /\ q = u.rest /\ r = u.r
  OBVIOUS
<1>2. /\ p \in Data /\ q \in Data /\ r \in Results /\ Partial(p) /\ r.consumed <= Len(w) /\ ~ r.end
      /\ q # <<>> /\ After(w, r.consumed) = p \o q /\ Parse(w) = Plus(r, Parse(p \o q))
  BY <1>1 DEF Held
<1>4. PICK p2, left : p2 = Grown(p, q) /\ left = Left(p, q)
  OBVIOUS
<1>5. /\ p2 \in Data /\ left \in Data /\ p2 \o left = p \o q
      /\ PendingNeed(p2) = 0 \/ Partial(p2)
      /\ PendingNeed(p2) = 0 \/ left = <<>> \/ (Len(p) < 2 /\ Len(p2) >= 2)
  BY ONLY <1>2, <1>4, TakenIs
<1>6. Fill(u) = IF PendingNeed(p2) = 0 THEN [pending |-> <<>>, rest |-> left, r |-> Plus(r, Parse(p2))]
                                       ELSE [pending |-> p2, rest |-> left, r |-> r]
  BY <1>1, <1>4 DEF Fill, Grown, Left, Take
<1>7. CASE PendingNeed(p2) = 0
  <2>1. PICK r2 : r2 = Plus(r, Parse(p2))
    OBVIOUS
  <2>2. Fill(u) = [pending |-> <<>>, rest |-> left, r |-> r2]
    BY <1>6, <1>7, <2>1
  <2>3. LeftOf(w, r2, left)
    <3>1. After(w, r.consumed) = p2 \o left /\ Parse(w) = Plus(r, Parse(p2 \o left))
      BY <1>2, <1>5
    <3> QED BY ONLY w \in Data, <1>2, <1>5, <1>7, <2>1, <3>1, FrameOff
  <2>4. <<>> \o left = left
    BY <1>5, ConcatEmptySeq DEF Data
  <2>5. PICK v : v = Fill(u)
    OBVIOUS
  <2>6. v.pending = <<>> /\ v.rest = left /\ v.r = r2
    BY <2>2, <2>5
  <2>7. Held(w, v)
    BY ONLY <1>5, <2>3, <2>4, <2>6, NothingIs DEF Held, LeftOf
  <2> QED BY <2>5, <2>6, <2>7
<1>8. CASE PendingNeed(p2) # 0
  <2>1. Fill(u) = [pending |-> p2, rest |-> left, r |-> r]
    BY <1>6, <1>8
  <2>2. PICK v : v = Fill(u)
    OBVIOUS
  <2>3. v.pending = p2 /\ v.rest = left /\ v.r = r
    BY <2>1, <2>2
  <2>4. Held(w, v)
    BY ONLY <1>2, <1>5, <1>8, <2>3 DEF Held
  <2> QED BY ONLY <1>1, <1>5, <1>8, <2>2, <2>3, <2>4
<1> QED BY <1>7, <1>8

\* The loop takes a round or leaves off.
RoundOf(u) == IF u.rest = <<>> \/ u.pending = <<>> \/ u.r.end THEN u ELSE Fill(u)

\* A round, or none, holds what is held.
LEMMA RoundHolds ==
  ASSUME NEW w \in Data, NEW u, Held(w, u)
  PROVE  /\ Held(w, RoundOf(u))
         /\ \/ RoundOf(u).pending = <<>> \/ RoundOf(u).rest = <<>>
            \/ Len(u.pending) < 2 /\ Len(RoundOf(u).pending) >= 2
<1>1. u.r.end \in BOOLEAN
  BY DEF Held, Results
<1>2. CASE u.rest = <<>> \/ u.pending = <<>> \/ u.r.end
  <2>1. RoundOf(u) = u
    BY <1>2 DEF RoundOf
  <2> QED BY <1>1, <1>2, <2>1 DEF Held
<1>3. CASE ~ (u.rest = <<>> \/ u.pending = <<>> \/ u.r.end)
  <2>1. RoundOf(u) = Fill(u)
    BY <1>3 DEF RoundOf
  <2>2. u.rest # <<>> /\ ~ u.r.end
    BY <1>3
  <2>3. /\ Held(w, Fill(u))
        /\ \/ Fill(u).pending = <<>> \/ Fill(u).rest = <<>>
           \/ Len(u.pending) < 2 /\ Len(Fill(u).pending) >= 2
    BY <2>2, FillHolds
  <2> QED BY <2>1, <2>3
<1> QED BY <1>2, <1>3

\* Two rounds are enough: the frame in pending is done with, or the chunk is.
LEMMA FilledHolds ==
  ASSUME NEW w \in Data, NEW u, Held(w, u)
  PROVE  /\ Held(w, Filled(u))
         /\ Filled(u).pending = <<>> \/ Filled(u).rest = <<>>
<1>1. PICK v, x : v = RoundOf(u) /\ x = RoundOf(v)
  OBVIOUS
<1>2. Filled(u) = x
  BY <1>1 DEF Filled, RoundOf
<1>3. /\ Held(w, v)
      /\ v.pending = <<>> \/ v.rest = <<>> \/ (Len(u.pending) < 2 /\ Len(v.pending) >= 2)
  BY <1>1, RoundHolds
<1>4. /\ Held(w, x)
      /\ x.pending = <<>> \/ x.rest = <<>> \/ (Len(v.pending) < 2 /\ Len(x.pending) >= 2)
  BY <1>1, <1>3, RoundHolds
<1>5. CASE v.pending = <<>> \/ v.rest = <<>>
  <2>1. x = v
    BY <1>1, <1>5 DEF RoundOf
  <2> QED BY <1>2, <1>4, <1>5, <2>1
<1>6. CASE Len(u.pending) < 2 /\ Len(v.pending) >= 2
  <2>1. Len(v.pending) \in Nat
    BY <1>3, LenProperties DEF Held, Data
  <2>2. ~ (Len(v.pending) < 2)
    BY <1>6, <2>1
  <2> QED BY <1>2, <1>4, <2>2
<1> QED BY <1>3, <1>5, <1>6

\* What one pass over w makes and leaves.
Settled(w, p, r) ==
  /\ r \in Results /\ r = Parse(w) /\ r.consumed <= Len(w)
  /\ p = IF r.end THEN <<>> ELSE After(w, r.consumed)
  /\ p \in Data /\ Partial(p)

\* The rest of the chunk, when nothing is pending, and nothing, when the chunk is empty.
LEMMA BulkSettles ==
  ASSUME NEW w \in Data, NEW u, Held(w, u), ~ u.r.end, u.pending = <<>> \/ u.rest = <<>>
  PROVE  Settled(w, Bulk(u).pending, Bulk(u).r)
<1>1. PICK p, q, r : p = u.pending /\ q = u.rest /\ r = u.r
  OBVIOUS
<1>2. /\ p \in Data /\ q \in Data /\ r \in Results /\ Partial(p) /\ r.consumed <= Len(w) /\ ~ r.end
      /\ After(w, r.consumed) = p \o q /\ Parse(w) = Plus(r, Parse(p \o q)) /\ (p = <<>> \/ q = <<>>)
  BY <1>1 DEF Held
<1>3. PICK f : f = Parse(q)
  OBVIOUS
<1>4. PICK tail : tail = SubSeq(q, f.consumed + 1, Len(q))
  OBVIOUS
<1>5. /\ f \in Results /\ f.consumed \in Nat /\ f.consumed <= Len(q) /\ f.end \in BOOLEAN
      /\ ~ f.end => Partial(tail)
  BY <1>2, <1>3, <1>4, ParseSound DEF Sound, Results, After
<1>6. Bulk(u).pending = (IF f.end THEN p ELSE p \o tail) /\ Bulk(u).r = Plus(r, f)
  BY <1>1, <1>3, <1>4 DEF Bulk
<1>7. tail \in Data /\ tail = After(q, f.consumed)
  <2> DEFINE k == f.consumed
  <2>1. k \in 0 .. Len(q)
    BY <1>2, <1>5, LenProperties DEF Data
  <2> HIDE DEF k
  <2>2. After(q, k) \in Data
    BY <1>2, <2>1, AfterFacts
  <2> QED BY <1>4, <2>2 DEF After, k
<1>8. r.consumed \in Nat /\ r.end \in BOOLEAN
  BY <1>2 DEF Results
<1>9. /\ Plus(r, f) \in Results /\ Plus(r, f).consumed = r.consumed + f.consumed
      /\ Plus(r, f).end = f.end
  BY <1>2, <1>5, <1>8, PlusIn
<1>10. CASE p = <<>>
  <2>1. p \o q = q /\ p \o tail = tail
    BY <1>2, <1>7, <1>10, ConcatEmptySeq DEF Data
  <2>2. Parse(w) = Plus(r, f)
    BY <1>2, <1>3, <2>1
  <2>3. /\ r.consumed + f.consumed <= Len(w)
        /\ After(w, r.consumed + f.consumed) = tail
    <3> DEFINE c == r.consumed
               k == f.consumed
    <3>1. c \in 0 .. Len(w) /\ c \in Nat /\ k \in Nat /\ k <= Len(q) /\ Len(w) \in Nat
          /\ After(w, c) = q /\ tail = After(q, k)
      BY <1>2, <1>5, <1>7, <1>8, <2>1, LenProperties DEF Data
    <3> HIDE DEF c, k
    <3>2. Len(After(w, c)) = Len(w) - c
      BY <3>1, AfterFacts
    <3>3. c + k <= Len(w)
      BY <3>1, <3>2
    <3>4. After(After(w, c), k) = After(w, c + k)
      BY ONLY w \in Data, <3>1, <3>3, AfterAfter
    <3> QED BY <3>1, <3>3, <3>4 DEF c, k
  <2> QED BY <1>2, <1>5, <1>6, <1>7, <1>9, <1>10, <2>1, <2>2, <2>3 DEF Settled
<1>11. CASE q = <<>>
  <2>1. f = NoResult /\ f.consumed = 0 /\ ~ f.end
    BY <1>3, <1>11, NothingIs, NoneIn
  <2>2. tail = <<>>
    <3>1. Len(q) = 0
      BY <1>11, NothingIs
    <3>2. Len(tail) = 0
      <4>1. After(q, 0) \in Data /\ Len(After(q, 0)) = Len(q) - 0
        BY <1>2, <3>1, AfterFacts
      <4> QED BY <1>7, <2>1, <3>1, <4>1
    <3> QED BY <1>7, <3>2, EmptySeq DEF Data
  <2>3. p \o tail = p /\ p \o q = p
    BY <1>2, <1>11, <2>2, ConcatEmptySeq DEF Data
  <2>4. Plus(r, f) = r
    BY <1>2, <2>1, PlusNothing
  <2>5. Parse(p) = NoResult
    BY <1>2, StartsSo
  <2>6. Parse(w) = r
    BY <1>2, <2>1, <2>3, <2>4, <2>5
  <2> QED BY <1>2, <1>6, <2>1, <2>3, <2>4, <2>6 DEF Settled
<1> QED BY <1>2, <1>10, <1>11

\* A chunk, whatever its length: what was settled for all fed before is settled with it.
LEMMA ChunkSettles ==
  ASSUME NEW x \in Data, NEW chunk \in Data, NEW p, NEW r, Settled(x, p, r), ~ r.end,
         NEW s, s = Filled([pending |-> p, rest |-> chunk, r |-> r])
  PROVE  /\ s.r.end => Settled(x \o chunk, s.pending, s.r)
         /\ ~ s.r.end => Settled(x \o chunk, Bulk(s).pending, Bulk(s).r)
<1>1. PICK u : u = [pending |-> p, rest |-> chunk, r |-> r]
  OBVIOUS
<1>2. u.pending = p /\ u.rest = chunk /\ u.r = r
  BY <1>1
<1>3. PICK w : w = x \o chunk
  OBVIOUS
<1>4. r \in Results /\ r = Parse(x) /\ r.consumed \in 0 .. Len(x) /\ p = After(x, r.consumed)
      /\ p \in Data /\ Partial(p) /\ r.consumed \in Nat /\ Len(x) \in Nat /\ Len(chunk) \in Nat
  BY LenProperties DEF Settled, Results, Data
<1>5. /\ w \in Data /\ Len(w) = Len(x) + Len(chunk) /\ After(w, r.consumed) = p \o chunk
  <2> DEFINE k == r.consumed
  <2>1. k \in 0 .. Len(x) /\ p = After(x, k)
    BY <1>4
  <2> HIDE DEF k
  <2>2. /\ x \o chunk \in Data /\ Len(x \o chunk) = Len(x) + Len(chunk)
        /\ After(x \o chunk, k) = After(x, k) \o chunk
    BY <2>1, AfterConcat
  <2> QED BY <1>3, <2>1, <2>2 DEF k
<1>6. Parse(w) = Plus(r, Parse(p \o chunk))
  <2>1. Splits(x, chunk)
    BY ParseSplits
  <2> QED BY <1>3, <1>4, <2>1 DEF Splits
<1>7. r.consumed <= Len(w)
  BY <1>4, <1>5
<1>8. Held(w, u)
  BY ONLY ~ r.end, chunk \in Data, <1>2, <1>4, <1>5, <1>6, <1>7 DEF Held
<1>9. Held(w, s) /\ (s.pending = <<>> \/ s.rest = <<>>)
  BY <1>1, <1>5, <1>8, FilledHolds
<1>10. ASSUME s.r.end PROVE Settled(w, s.pending, s.r)
  BY <1>9, <1>10 DEF Held, Settled
<1>11. ASSUME ~ s.r.end PROVE Settled(w, Bulk(s).pending, Bulk(s).r)
  BY <1>5, <1>9, <1>11, BulkSettles
<1> QED BY <1>3, <1>10, <1>11

-----------------------------------------------------------------------------
(* The feed.                                                               *)

\* What has been fed, and the result with the callbacks the handler has received.
SoFar == SubSeq(stream, 1, fed)
Whole == [result EXCEPT !.calls = calls]

\* What one pass over all that has been fed would have made and left is what is held.
Reassembled ==
  /\ stream \in Data /\ fed \in 0 .. Len(stream)
  /\ result \in Results /\ result.calls = <<>>
  /\ Settled(SoFar, pending, Whole)

\* A result without its callbacks and the callbacks are the result.
LEMMA CallsAside ==
  ASSUME NEW r \in Results, NEW c, c = [r EXCEPT !.calls = <<>>]
  PROVE  c \in Results /\ c.calls = <<>> /\ c.end = r.end /\ [c EXCEPT !.calls = r.calls] = r
<1>1. <<>> \in Seq(Seq(Nat))
  BY EmptySeq
<1>2. c \in Results /\ c.calls = <<>> /\ c.end = r.end
  BY <1>1 DEF Results
<1>3. PICK d : d = [c EXCEPT !.calls = r.calls]
  OBVIOUS
<1>4. d.calls = r.calls /\ d \in Results
  BY <1>2, <1>3 DEF Results
<1>5. /\ d.consumed = r.consumed /\ d.messages = r.messages /\ d.unknown = r.unknown
      /\ d.malformed = r.malformed /\ d.end = r.end
  BY <1>2, <1>3 DEF Results
<1>6. d = r
  BY <1>4, <1>5 DEF Results
<1> QED BY <1>2, <1>3, <1>6

\* A chunk goes in.
LEMMA FeedReassembles ==
  ASSUME Reassembled, NEW n \in Nat, Feed(n)
  PROVE  Reassembled'
<1>1. PICK r, x, chunk, to : r = Whole /\ x = SoFar /\ chunk = SubSeq(stream, fed + 1, fed + n) /\ to = fed + n
  OBVIOUS
<1>2. /\ stream \in Data /\ fed \in Nat /\ fed <= to /\ to \in 0 .. Len(stream) /\ stream' = stream
      /\ fed' = to /\ result \in Results /\ result.calls = <<>> /\ Settled(x, pending, r)
      /\ Len(stream) \in Nat
  BY <1>1, LenProperties DEF Reassembled, Feed, Data
<1>3. /\ x \in Data /\ chunk \in Data /\ SubSeq(stream, 1, to) = x \o chunk
  <2>1. SubSeq(stream, 0 + 1, fed) \in Data
    <3>1. 0 \in Nat /\ fed \in 0 .. Len(stream) /\ 0 <= fed
      BY <1>2
    <3> QED BY ONLY <1>2, <3>1, PartIs
  <2>2. SubSeq(stream, fed + 1, to) \in Data
    BY ONLY <1>2, PartIs
  <2>3. SubSeq(stream, 1, to) = SubSeq(stream, 1, fed) \o SubSeq(stream, fed + 1, to)
    BY ONLY <1>2, CutAt
  <2>4. 0 + 1 = 1
    OBVIOUS
  <2> QED BY <1>1, <2>1, <2>2, <2>3, <2>4 DEF SoFar
<1>4. r \in Results /\ r.end = result.end /\ r.end \in BOOLEAN
  BY <1>1, <1>2 DEF Whole, Settled, Results
<1>5. SoFar' = x \o chunk
  BY <1>2, <1>3 DEF SoFar
<1>6. CASE result.end
  <2>1. pending' = pending /\ result' = result /\ calls' = calls
    BY <1>6 DEF Feed
  <2>2. Whole' = r
    BY <1>1, <2>1 DEF Whole
  <2>3. Splits(x, chunk)
    BY <1>3, ParseSplits
  <2>4. Parse(x \o chunk) = r
    BY <1>2, <1>4, <1>6, <2>3 DEF Splits, Settled
  <2>5. Len(x) <= Len(x \o chunk)
    BY <1>3, ConcatProperties, LenProperties DEF Data
  <2>6. r.consumed <= Len(x \o chunk)
    <3>1. r.consumed \in Nat /\ r.consumed <= Len(x) /\ Len(x) \in Nat /\ Len(x \o chunk) \in Nat
      BY <1>2, <1>3, ConcatProperties, LenProperties DEF Data, Settled, Results
    <3> QED BY <2>5, <3>1
  <2>7. Settled(x \o chunk, pending, r)
    BY <1>2, <1>4, <1>6, <2>4, <2>6 DEF Settled
  <2> QED BY <1>2, <1>5, <2>1, <2>2, <2>7 DEF Reassembled
<1>7. CASE ~ result.end
  <2>1. PICK s : s = Filled([pending |-> pending, rest |-> chunk, r |-> r])
    OBVIOUS
  <2>2. /\ s.r.end => Settled(x \o chunk, s.pending, s.r)
        /\ ~ s.r.end => Settled(x \o chunk, Bulk(s).pending, Bulk(s).r)
    <3>1. ~ r.end
      BY <1>4, <1>7
    <3> QED BY ONLY <1>2, <1>3, <2>1, <3>1, ChunkSettles
  <2>3. PICK t : t = IF s.r.end THEN s ELSE Bulk(s)
    OBVIOUS
  <2>4. Settled(x \o chunk, t.pending, t.r)
    BY <2>2, <2>3
  <2>5. pending' = t.pending /\ result' = [t.r EXCEPT !.calls = <<>>] /\ calls' = t.r.calls
    BY <1>1, <1>7, <2>1, <2>3 DEF Feed, Whole
  <2>6. t.r \in Results
    BY <2>4 DEF Settled
  <2>7. PICK q : q = t.r
    OBVIOUS
  <2>8. result' \in Results /\ result'.calls = <<>> /\ [result' EXCEPT !.calls = q.calls] = q
    BY <2>5, <2>6, <2>7, CallsAside
  <2>9. Whole' = q
    BY <2>5, <2>7, <2>8 DEF Whole
  <2> QED BY <1>2, <1>5, <2>4, <2>5, <2>7, <2>8, <2>9 DEF Reassembled
<1> QED BY <1>6, <1>7

\* Whatever the feed, the chunks and what is made of the callbacks.
THEOREM ReassemblyInvariant == BSpec => []Reassembled
<1>1. BInit => Reassembled
  <2> SUFFICES ASSUME BInit PROVE Reassembled
    OBVIOUS
  <2>1. stream \in Data
    <3>1. stream \in Seq(0 .. 255)
      BY BatchesAssumption DEF BInit
    <3>2. 0 .. 255 \subseteq Nat
      OBVIOUS
    <3>3. stream \in Seq(Nat)
      BY ONLY <3>1, <3>2, SeqMonotonic
    <3> QED BY <3>3 DEF Data
  <2>2. /\ fed = 0 /\ pending = <<>> /\ result = NoResult /\ calls = <<>> /\ Len(stream) \in Nat
    BY <2>1, LenProperties DEF BInit, Init, Data
  <2>3. SoFar = <<>>
    <3>1. SubSeq(stream, 0 + 1, 0) \in Data /\ Len(SubSeq(stream, 0 + 1, 0)) = 0 - 0
      <4>1. 0 \in Nat /\ 0 \in 0 .. Len(stream) /\ 0 <= 0
        BY <2>2
      <4> QED BY ONLY <2>1, <4>1, PartIs
    <3>2. SoFar \in Data /\ Len(SoFar) = 0
      BY <2>2, <3>1 DEF SoFar
    <3> QED BY <3>2, EmptySeq DEF Data
  <2>4. Whole = NoResult
    BY <2>2 DEF Whole, NoResult
  <2>5. After(SoFar, NoResult.consumed) = <<>>
    BY <2>3, NoneIn, NothingIs, AfterAll
  <2>6. NoResult.calls = <<>>
    BY DEF NoResult
  <2>7. 0 <= Len(<<>>)
    BY NothingIs
  <2>8. Settled(SoFar, pending, Whole)
    BY <2>2, <2>3, <2>4, <2>5, <2>7, NothingIs, NoneIn DEF Settled
  <2> QED BY <2>1, <2>2, <2>6, <2>8, NoneIn DEF Reassembled
<1>2. Reassembled /\ [BNext]_vars => Reassembled'
  <2> SUFFICES ASSUME Reassembled, [BNext]_vars PROVE Reassembled'
    OBVIOUS
  <2>1. CASE UNCHANGED parserVars
    BY <2>1 DEF parserVars, Reassembled, SoFar, Whole
  <2>2. ASSUME NEW n \in 1 .. Len(stream), Read(n) PROVE Reassembled'
    <3>1. n \in Nat
      BY LenProperties
    <3>2. Feed(n)
      BY <2>2 DEF Read
    <3> QED BY <3>1, <3>2, FeedReassembles
  <2>3. Last \/ AtEnd \/ Fail \/ Put \/ Get \/ Write \/ UNCHANGED vars => UNCHANGED parserVars
    BY DEF Last, AtEnd, Fail, Put, Get, Write, vars
  <2> QED BY <2>1, <2>2, <2>3 DEF BNext
<1> QED BY <1>1, <1>2, PTL DEF BSpec

\* What has been made of the chunks is what one pass over all of them makes.
THEOREM ChunkingInvisibleHolds == BSpec => []ChunkingInvisible
<1>1. Reassembled => ChunkingInvisible
  BY DEF Reassembled, Settled, ChunkingInvisible, SoFar, Whole
<1> QED BY <1>1, ReassemblyInvariant, PTL

\* What is pending is what no pass has consumed, a part of one frame.
THEOREM PendingIsTailHolds == BSpec => []PendingIsTail
<1>1. Reassembled => PendingIsTail
  <2> SUFFICES ASSUME Reassembled PROVE PendingIsTail
    OBVIOUS
  <2>1. Whole.end = result.end /\ Whole.consumed = result.consumed /\ result.end \in BOOLEAN
    BY DEF Reassembled, Whole, Results
  <2>2. PICK k : k = result.consumed
    OBVIOUS
  <2>3. /\ stream \in Data /\ fed \in 0 .. Len(stream) /\ k \in Nat /\ k <= Len(SoFar)
        /\ pending = (IF result.end THEN <<>> ELSE After(SoFar, k)) /\ pending \in Data
        /\ Partial(pending)
    BY <2>1, <2>2 DEF Reassembled, Settled, Results
  <2>4. PendingNeed(pending) > 0
    BY <2>3, NeedIs
  <2>5. Len(SoFar) = fed
    <3>1. 0 \in Nat /\ 0 <= fed /\ fed \in Nat
      BY <2>3, LenProperties DEF Data
    <3>2. Len(SubSeq(stream, 0 + 1, fed)) = fed - 0
      BY ONLY <2>3, <3>1, PartIs
    <3>3. 0 + 1 = 1 /\ fed - 0 = fed
      BY <3>1
    <3> QED BY <3>2, <3>3 DEF SoFar
  <2>6. After(SoFar, k) = SubSeq(stream, k + 1, fed)
    BY <2>3, <2>5, TailLies DEF SoFar
  <2> QED BY <2>2, <2>3, <2>4, <2>6 DEF PendingIsTail
<1> QED BY <1>1, ReassemblyInvariant, PTL
=============================================================================
