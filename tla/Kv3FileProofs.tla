--------------------------- MODULE Kv3FileProofs ---------------------------
(***************************************************************************)
(* Proofs about the files of binary KeyValues3: what encode_kv3 writes, in *)
(* version 4 and in version 5, decode_kv3 reads back, and what is left of  *)
(* such a file when its end is lost, decode_kv3 refuses. CachePlanProofs   *)
(* has the part between values and streams; here are the streams in a      *)
(* file: headers, alignment, tables of texts, blobs and their lengths.     *)
(***************************************************************************)
EXTENDS CachePlanProofs

-----------------------------------------------------------------------------
(* Functions that run over sequences: texts one after the other, sums, joins. *)

\* read_strings and checked_total, one after the other
StringsRun(f, cursor, count) ==
    /\ f[0] = [strings |-> <<>>, cursor |-> cursor]
    /\ \A n \in 1..count : f[n] = ReadNextString(f[n - 1])
    /\ ReadStrings(cursor, count) = f[count]
\* The sum of a sequence
TotalRun(f, s) ==
    /\ f[0] = 0 /\ \A n \in 1..Len(s) : f[n] = f[n - 1] + s[n]
    /\ Total(s) = f[Len(s)]
\* Sequences that are joined one after the other
FlattenRun(f, s) ==
    /\ f[1] = s[1] /\ \A n \in 2..Len(s) : f[n] = f[n - 1] \o s[n]
    /\ FlattenSeq(s) = f[Len(s)]

\* read_strings reads one text after the other.
LEMMA StringsAreRun ==
    ASSUME NEW cursor, NEW count \in Nat
    PROVE  \E f : StringsRun(f, cursor, count)
<1> DEFINE Unrolled(g, m) == 
               [n \in 0..m |-> IF n = 0 THEN [strings |-> <<>>, cursor |-> cursor]
                               ELSE ReadNextString(g[n - 1])]
           Solved == {m \in Nat : \E g : g = Unrolled(g, m)}
           run == CHOOSE g : g = Unrolled(g, count)
<1>1. count \in Nat
  BY Zenon
<1>2. 0 \in Solved
  <2> DEFINE g == [n \in 0..0 |-> [strings |-> <<>>, cursor |-> cursor]]
  <2>1. g = Unrolled(g, 0)
    OBVIOUS
  <2> QED
    BY <2>1
<1>3. ASSUME NEW m \in Nat, m \in Solved PROVE m + 1 \in Solved
  <2>1. PICK g : g = Unrolled(g, m)
    BY <1>3
  <2> DEFINE h == [n \in 0..(m + 1) |-> IF n = m + 1 THEN ReadNextString(g[(m + 1) - 1]) ELSE g[n]]
  <2>2. ASSUME NEW n \in 0..(m + 1) PROVE h[n] = Unrolled(h, m + 1)[n]
    <3>1. CASE n = 0
      <4>1. h[n] = g[0] /\ 0 \in 0..m
        BY <3>1
      <4>2. g[0] = Unrolled(g, m)[0]
        BY <2>1
      <4> QED
        BY <3>1, <4>1, <4>2
    <3>2. CASE n = m + 1
      <4>1. n - 1 \in 0..(m + 1) /\ n - 1 # m + 1 /\ n # 0
        BY <3>2
      <4>2. h[n - 1] = g[n - 1] /\ h[n] = ReadNextString(g[n - 1])
        BY <3>2, <4>1
      <4> QED
        BY <4>1, <4>2
    <3>3. CASE n # 0 /\ n # m + 1
      <4>1. n \in 0..m /\ n - 1 \in 0..(m + 1) /\ n - 1 # m + 1
        BY <3>3
      <4>2. h[n] = g[n] /\ h[n - 1] = g[n - 1]
        BY <3>3, <4>1
      <4>3. g[n] = Unrolled(g, m)[n]
        BY <2>1
      <4>4. g[n] = ReadNextString(g[n - 1])
        BY <3>3, <4>1, <4>3
      <4> QED
        BY <3>3, <4>2, <4>4
    <3> QED
      BY <3>1, <3>2, <3>3
  <2>3. h = Unrolled(h, m + 1)
    <3> DEFINE b == Unrolled(h, m + 1)
    <3>1. h = [n \in 0..(m + 1) |-> h[n]] /\ b = [n \in 0..(m + 1) |-> b[n]]
      OBVIOUS
    <3>2. \A n \in 0..(m + 1) : h[n] = b[n]
      BY <2>2
    <3> HIDE DEF h, b
    <3>3. h = b
      BY <3>1, <3>2
    <3> QED
      BY <3>3 DEF b
  <2> HIDE DEF h, Unrolled
  <2> QED
    BY <2>3
<1> HIDE DEF Solved
<1>4. count \in Solved
  BY <1>1, <1>2, <1>3, NumberInduction
<1>5. run = Unrolled(run, count)
  <2>1. \E g : g = Unrolled(g, count)
    BY <1>4 DEF Solved
  <2> HIDE DEF Unrolled
  <2> QED
    BY <2>1
<1>6. ReadStrings(cursor, count) = run[count]
  BY DEF ReadStrings
<1> HIDE DEF run
<1>7. \A n \in 0..count : run[n] = Unrolled(run, count)[n]
  BY <1>5
<1>8. run[0] = [strings |-> <<>>, cursor |-> cursor]
  BY <1>1, <1>7
<1>9. ASSUME NEW n \in 1..count PROVE run[n] = ReadNextString(run[n - 1])
  <2>1. n \in 0..count /\ n # 0
    BY <1>1
  <2> QED
    BY <1>7, <2>1
<1>10. StringsRun(run, cursor, count)
  BY <1>6, <1>8, <1>9 DEF StringsRun
<1> QED
  BY <1>10

\* checked_total adds one number after the other.
LEMMA TotalsRun ==
    ASSUME NEW s, Len(s) \in Nat
    PROVE  \E f : TotalRun(f, s)
<1> DEFINE Unrolled(g, m) == [n \in 0..m |-> IF n = 0 THEN 0 ELSE g[n - 1] + s[n]]
           Solved == {m \in Nat : \E g : g = Unrolled(g, m)}
           run == CHOOSE g : g = Unrolled(g, Len(s))
<1>1. Len(s) \in Nat
  BY Zenon
<1>2. 0 \in Solved
  <2> DEFINE g == [n \in 0..0 |-> 0]
  <2>1. g = Unrolled(g, 0)
    OBVIOUS
  <2> QED
    BY <2>1
<1>3. ASSUME NEW m \in Nat, m \in Solved PROVE m + 1 \in Solved
  <2>1. PICK g : g = Unrolled(g, m)
    BY <1>3
  <2> DEFINE h == [n \in 0..(m + 1) |-> IF n = m + 1 THEN g[(m + 1) - 1] + s[(m + 1)] ELSE g[n]]
  <2>2. ASSUME NEW n \in 0..(m + 1) PROVE h[n] = Unrolled(h, m + 1)[n]
    <3>1. CASE n = 0
      <4>1. h[n] = g[0] /\ 0 \in 0..m
        BY <3>1
      <4>2. g[0] = Unrolled(g, m)[0]
        BY <2>1
      <4> QED
        BY <3>1, <4>1, <4>2
    <3>2. CASE n = m + 1
      <4>1. n - 1 \in 0..(m + 1) /\ n - 1 # m + 1 /\ n # 0
        BY <3>2
      <4>2. h[n - 1] = g[n - 1] /\ h[n] = g[n - 1] + s[n]
        BY <3>2, <4>1
      <4> QED
        BY <4>1, <4>2
    <3>3. CASE n # 0 /\ n # m + 1
      <4>1. n \in 0..m /\ n - 1 \in 0..(m + 1) /\ n - 1 # m + 1
        BY <3>3
      <4>2. h[n] = g[n] /\ h[n - 1] = g[n - 1]
        BY <3>3, <4>1
      <4>3. g[n] = Unrolled(g, m)[n]
        BY <2>1
      <4>4. g[n] = g[n - 1] + s[n]
        BY <3>3, <4>1, <4>3
      <4> QED
        BY <3>3, <4>2, <4>4
    <3> QED
      BY <3>1, <3>2, <3>3
  <2>3. h = Unrolled(h, m + 1)
    <3> DEFINE b == Unrolled(h, m + 1)
    <3>1. h = [n \in 0..(m + 1) |-> h[n]] /\ b = [n \in 0..(m + 1) |-> b[n]]
      OBVIOUS
    <3>2. \A n \in 0..(m + 1) : h[n] = b[n]
      BY <2>2
    <3> HIDE DEF h, b
    <3>3. h = b
      BY <3>1, <3>2
    <3> QED
      BY <3>3 DEF b
  <2> HIDE DEF h, Unrolled
  <2> QED
    BY <2>3
<1> HIDE DEF Solved
<1>4. Len(s) \in Solved
  BY <1>1, <1>2, <1>3, NumberInduction
<1>5. run = Unrolled(run, Len(s))
  <2>1. \E g : g = Unrolled(g, Len(s))
    BY <1>4 DEF Solved
  <2> HIDE DEF Unrolled
  <2> QED
    BY <2>1
<1>6. Total(s) = run[Len(s)]
  BY DEF Total
<1> HIDE DEF run
<1>7. \A n \in 0..Len(s) : run[n] = Unrolled(run, Len(s))[n]
  BY <1>5
<1>8. run[0] = 0
  BY <1>1, <1>7
<1>9. ASSUME NEW n \in 1..Len(s) PROVE run[n] = run[n - 1] + s[n]
  <2>1. n \in 0..Len(s) /\ n # 0
    BY <1>1
  <2> QED
    BY <1>7, <2>1
<1>10. TotalRun(run, s)
  BY <1>6, <1>8, <1>9 DEF TotalRun
<1> QED
  BY <1>10

\* checked_total of one more number
LEMMA TotalAppend ==
    ASSUME NEW s \in Seq(Int), NEW x \in Int
    PROVE  Total(Append(s, x)) = Total(s) + x
<1> DEFINE t == Append(s, x)  m == Len(s)
<1>1. /\ t \in Seq(Int) /\ Len(t) = m + 1 /\ t[m + 1] = x /\ m \in Nat
      /\ \A i \in 1..m : t[i] = s[i]
  BY AppendProperties, LenProperties
<1>2. PICK f : TotalRun(f, s)
  BY <1>1, TotalsRun
<1> HIDE DEF t
<1>3. PICK g : TotalRun(g, t)
  BY <1>1, TotalsRun
<1>10. f[0] = 0 /\ (\A n \in 1..m : f[n] = f[n - 1] + s[n]) /\ Total(s) = f[m]
  BY <1>2 DEF TotalRun
<1>11. g[0] = 0 /\ (\A n \in 1..Len(t) : g[n] = g[n - 1] + t[n]) /\ Total(t) = g[Len(t)]
  BY <1>3 DEF TotalRun
<1> HIDE DEF m
<1> DEFINE P == {n \in Nat : n <= m => f[n] = g[n]}
<1>4. 0 \in P
  BY <1>10, <1>11
<1>5. ASSUME NEW n \in Nat, n \in P PROVE n + 1 \in P
  <2> SUFFICES ASSUME n + 1 <= m PROVE f[n + 1] = g[n + 1]
    BY <1>5
  <2>1. n + 1 \in 1..m /\ n + 1 \in 1..Len(t) /\ (n + 1) - 1 = n /\ f[n] = g[n]
    BY <1>1, <1>5
  <2>2. f[n + 1] = f[n] + s[n + 1] /\ g[n + 1] = g[n] + t[n + 1] /\ t[n + 1] = s[n + 1]
    BY <1>1, <1>10, <1>11, <2>1
  <2> QED
    BY <2>1, <2>2
<1> HIDE DEF P
<1>6. Nat \subseteq P
  BY <1>4, <1>5, NumberInduction
<1>7. f[m] = g[m]
  BY <1>1, <1>6 DEF P
<1>8. m + 1 \in 1..Len(t) /\ (m + 1) - 1 = m
  BY <1>1
<1>9. g[m + 1] = g[m] + x
  BY <1>1, <1>11, <1>8
<1> QED
  BY <1>1, <1>10, <1>11, <1>7, <1>9 DEF t, m

\* read_strings of one more text
LEMMA ReadStringsNext ==
    ASSUME NEW c, NEW m \in Nat
    PROVE  ReadStrings(c, m + 1) = ReadNextString(ReadStrings(c, m))
<1> DEFINE start == [strings |-> <<>>, cursor |-> c]
<1>2. PICK f : StringsRun(f, c, m)
  BY StringsAreRun
<1>10. m + 1 \in Nat
  OBVIOUS
<1>3. PICK g : StringsRun(g, c, m + 1)
  BY <1>10, StringsAreRun
<1>11. /\ f[0] = start /\ (\A n \in 1..m : f[n] = ReadNextString(f[n - 1]))
       /\ ReadStrings(c, m) = f[m]
  BY <1>2 DEF StringsRun
<1>12. /\ g[0] = start /\ (\A n \in 1..(m + 1) : g[n] = ReadNextString(g[n - 1]))
       /\ ReadStrings(c, m + 1) = g[m + 1]
  BY <1>3 DEF StringsRun
<1> HIDE DEF start
<1> DEFINE P == {n \in Nat : n <= m => f[n] = g[n]}
<1>4. 0 \in P
  BY <1>11, <1>12
<1>5. ASSUME NEW n \in Nat, n \in P PROVE n + 1 \in P
  <2> SUFFICES ASSUME n + 1 <= m PROVE f[n + 1] = g[n + 1]
    BY <1>5
  <2>1. n + 1 \in 1..m /\ n + 1 \in 1..(m + 1) /\ (n + 1) - 1 = n /\ f[n] = g[n]
    BY <1>5
  <2>2. f[n + 1] = ReadNextString(f[n]) /\ g[n + 1] = ReadNextString(g[n])
    BY <1>11, <1>12, <2>1
  <2> QED
    BY <2>1, <2>2
<1> HIDE DEF P
<1>6. Nat \subseteq P
  BY <1>4, <1>5, NumberInduction
<1>7. f[m] = g[m]
  BY <1>6 DEF P
<1>8. m + 1 \in 1..(m + 1) /\ (m + 1) - 1 = m
  OBVIOUS
<1>9. g[m + 1] = ReadNextString(g[m])
  BY <1>12, <1>8
<1> QED
  BY <1>11, <1>12, <1>7, <1>9

\* What joins sequences goes from one to the next.
LEMMA FlattenRuns ==
    ASSUME NEW s, Len(s) \in Nat \ {0}
    PROVE  \E f : FlattenRun(f, s)
<1> DEFINE Unrolled(g, m) == [n \in 1..m |-> IF n = 1 THEN s[n] ELSE g[n - 1] \o s[n]]
           Solved == {m \in Nat : \E g : g = Unrolled(g, m + 1)}
           last == Len(s)
           run == CHOOSE g : g = Unrolled(g, last)
<1>1. last \in Nat \ {0}
  OBVIOUS
<1> HIDE DEF last
<1>2. 0 \in Solved
  <2> DEFINE g == [n \in 1..1 |-> s[n]]
  <2>1. g = Unrolled(g, 0 + 1)
    OBVIOUS
  <2> HIDE DEF g, Unrolled
  <2> QED
    BY <2>1
<1>3. ASSUME NEW m \in Nat, m \in Solved PROVE m + 1 \in Solved
  <2> DEFINE k == m + 1
  <2>1. PICK g : g = Unrolled(g, k)
    BY <1>3
  <2>0. k \in Nat \ {0}
    OBVIOUS
  <2> HIDE DEF k
  <2> DEFINE h == [n \in 1..(k + 1) |-> IF n = k + 1 THEN g[(k + 1) - 1] \o s[k + 1] ELSE g[n]]
  <2>2. ASSUME NEW n \in 1..(k + 1) PROVE h[n] = Unrolled(h, k + 1)[n]
    <3>1. CASE n = 1
      <4>1. h[n] = g[1] /\ 1 \in 1..k
        BY <2>0, <3>1
      <4>2. g[1] = Unrolled(g, k)[1]
        BY <2>1
      <4> QED
        BY <3>1, <4>1, <4>2
    <3>2. CASE n = k + 1
      <4>1. n - 1 \in 1..(k + 1) /\ n - 1 # k + 1 /\ n # 1
        BY <2>0, <3>2
      <4>2. h[n - 1] = g[n - 1] /\ h[n] = g[n - 1] \o s[n]
        BY <3>2, <4>1
      <4> QED
        BY <4>1, <4>2
    <3>3. CASE n # 1 /\ n # k + 1
      <4>1. n \in 1..k /\ n - 1 \in 1..(k + 1) /\ n - 1 # k + 1
        BY <2>0, <3>3
      <4>2. h[n] = g[n] /\ h[n - 1] = g[n - 1]
        BY <3>3, <4>1
      <4>3. g[n] = Unrolled(g, k)[n]
        BY <2>1
      <4>4. g[n] = g[n - 1] \o s[n]
        BY <3>3, <4>1, <4>3
      <4> QED
        BY <3>3, <4>2, <4>4
    <3> QED
      BY <3>1, <3>2, <3>3
  <2>3. h = Unrolled(h, k + 1)
    <3> DEFINE b == Unrolled(h, k + 1)
    <3>1. h = [n \in 1..(k + 1) |-> h[n]] /\ b = [n \in 1..(k + 1) |-> b[n]]
      OBVIOUS
    <3>2. \A n \in 1..(k + 1) : h[n] = b[n]
      BY <2>2
    <3> HIDE DEF h, b
    <3>3. h = b
      BY <3>1, <3>2
    <3> QED
      BY <3>3 DEF b
  <2> HIDE DEF h, Unrolled
  <2> QED
    BY <2>3 DEF k
<1> HIDE DEF Solved
<1>4. Nat \subseteq Solved
  BY <1>2, <1>3, NumberInduction
<1>5. run = Unrolled(run, last)
  <2>1. last - 1 \in Solved /\ (last - 1) + 1 = last
    BY <1>1, <1>4
  <2>2. \E g : g = Unrolled(g, last)
    BY <2>1, ZenonT(60) DEF Solved
  <2> HIDE DEF Unrolled
  <2> QED
    BY <2>2
<1>6. FlattenSeq(s) = run[last]
  BY <1>1 DEF FlattenSeq, last
<1> HIDE DEF run
<1>7. \A n \in 1..last : run[n] = Unrolled(run, last)[n]
  BY <1>5
<1>8. run[1] = s[1]
  BY <1>1, <1>7
<1>9. ASSUME NEW n \in 2..last PROVE run[n] = run[n - 1] \o s[n]
  <2>1. n \in 1..last /\ n # 1
    BY <1>1
  <2> QED
    BY <1>7, <2>1
<1>10. FlattenRun(run, s)
  BY <1>6, <1>8, <1>9 DEF last, FlattenRun
<1> QED
  BY <1>10

\* What joins sequences appends the last one.
LEMMA FlattenAppend ==
    ASSUME NEW S, NEW s \in Seq(Seq(S)), NEW x \in Seq(S), FlattenSeq(s) \in Seq(S)
    PROVE  FlattenSeq(Append(s, x)) = FlattenSeq(s) \o x /\ FlattenSeq(Append(s, x)) \in Seq(S)
<1> DEFINE t == Append(s, x)  m == Len(s)
<1>1. /\ Len(t) = m + 1 /\ t[m + 1] = x /\ m \in Nat
      /\ \A i \in 1..m : t[i] = s[i]
  BY AppendProperties, LenProperties
<1> HIDE DEF t
<1>2. PICK g : FlattenRun(g, t)
  BY <1>1, FlattenRuns
<1>5. /\ g[1] = t[1] /\ (\A n \in 2..Len(t) : g[n] = g[n - 1] \o t[n])
      /\ FlattenSeq(t) = g[Len(t)]
  BY <1>2 DEF FlattenRun
<1>3. CASE m = 0
  <2>1. s = <<>>
    BY <1>3, EmptySeq
  <2>2. FlattenSeq(s) = <<>>
    BY <1>3, <2>1 DEF FlattenSeq
  <2>3. FlattenSeq(t) = x
    BY <1>1, <1>5, <1>3
  <2>4. <<>> \o x = x
    BY ConcatEmptySeq
  <2> QED
    BY <2>2, <2>3, <2>4 DEF t
<1>4. CASE m # 0
  <2>1. m \in Nat \ {0}
    BY <1>1, <1>4
  <2>2. PICK f : FlattenRun(f, s)
    BY <2>1, FlattenRuns
  <2>10. f[1] = s[1] /\ (\A n \in 2..m : f[n] = f[n - 1] \o s[n]) /\ FlattenSeq(s) = f[m]
    BY <2>2 DEF FlattenRun
  <2> HIDE DEF m
  <2> DEFINE P == {n \in Nat : n < m => f[n + 1] = g[n + 1]}
  <2>3. 0 \in P
    <3>1. 1 \in 1..m
      BY <2>1
    <3> QED
      BY <1>1, <1>5, <2>10, <3>1
  <2>4. ASSUME NEW n \in Nat, n \in P PROVE n + 1 \in P
    <3> SUFFICES ASSUME n + 1 < m PROVE f[(n + 1) + 1] = g[(n + 1) + 1]
      BY <2>4
    <3>1. /\ n + 2 \in 2..m /\ n + 2 \in 2..Len(t) /\ (n + 2) - 1 = n + 1 /\ f[n + 1] = g[n + 1]
          /\ n + 2 \in 1..m /\ (n + 1) + 1 = n + 2
      BY <1>1, <2>1, <2>4
    <3>2. /\ f[n + 2] = f[n + 1] \o s[n + 2] /\ g[n + 2] = g[n + 1] \o t[n + 2]
          /\ t[n + 2] = s[n + 2]
      BY <1>1, <1>5, <2>10, <3>1
    <3> QED
      BY <3>1, <3>2
  <2> HIDE DEF P
  <2>5. Nat \subseteq P
    BY <2>3, <2>4, NumberInduction
  <2>6. f[m] = g[m]
    <3>1. m - 1 \in P /\ m - 1 < m /\ (m - 1) + 1 = m
      BY <2>1, <2>5
    <3> QED
      BY <3>1 DEF P
  <2>7. m + 1 \in 2..Len(t) /\ (m + 1) - 1 = m
    BY <1>1, <2>1
  <2>8. g[m + 1] = g[m] \o x
    BY <1>1, <1>5, <2>7
  <2>9. FlattenSeq(t) = FlattenSeq(s) \o x
    BY <1>1, <1>5, <2>10, <2>6, <2>8
  <2> QED
    BY <2>9, ConcatProperties DEF t
<1> QED
  BY <1>3, <1>4

\* Zero bytes.
LEMMA ZerosAre ==
    ASSUME NEW n \in Nat
    PROVE  /\ Zeros(n) \in Seq(Cells) /\ Len(Zeros(n)) = n
           /\ \A i \in 1..n : Zeros(n)[i] = <<1, 0>>
<1>1. Zeros(n) = [i \in 1..n |-> <<1, 0>>]
  BY DEF Zeros, Byte
<1>2. <<1, 0>> \in Cells
  BY DEF Cells
<1> QED
  BY <1>1, <1>2

\* One text of the table, and the table of these texts
TextCells(text) == Bytes(text) \o Zeros(1)
TableOf(strings) == FlattenSeq([i \in DOMAIN strings |-> TextCells(strings[i])])

\* A text of the table is its bytes and a zero.
LEMMA TextCellsAre ==
    ASSUME NEW text \in Seq(Int)
    PROVE  /\ TextCells(text) \in Seq(Cells) /\ Len(TextCells(text)) = Len(text) + 1
           /\ \A i \in 1..Len(text) : TextCells(text)[i] = <<1, text[i]>>
           /\ TextCells(text)[Len(text) + 1] = <<1, 0>>
<1> DEFINE b == Bytes(text)  z == Zeros(1)  m == Len(text)
<1>1. b \in Seq(Cells) /\ Len(b) = m /\ \A i \in 1..m : b[i] = <<1, text[i]>>
  BY BytesAre
<1>2. z \in Seq(Cells) /\ Len(z) = 1 /\ z[1] = <<1, 0>>
  <2>1. 1 \in Nat /\ 1 \in 1..1
    OBVIOUS
  <2> QED
    BY <2>1, ZerosAre
<1>3. m \in Nat
  BY LenProperties
<1> HIDE DEF b, z, m
<1>4. /\ b \o z \in Seq(Cells) /\ Len(b \o z) = m + 1
      /\ \A i \in 1..(m + 1) : (b \o z)[i] = IF i <= m THEN b[i] ELSE z[i - m]
  <2>1. /\ b \o z \in Seq(Cells) /\ Len(b \o z) = Len(b) + Len(z)
        /\ \A i \in 1..(Len(b) + Len(z)) : (b \o z)[i] = IF i <= Len(b) THEN b[i] ELSE z[i - Len(b)]
    BY <1>1, <1>2, ConcatProperties
  <2> QED
    BY <1>1, <1>2, <2>1
<1>5. (b \o z)[m + 1] = <<1, 0>>
  <2>1. m + 1 \in 1..(m + 1) /\ ~(m + 1 <= m) /\ (m + 1) - m = 1
    BY <1>3
  <2> QED
    BY <1>2, <1>4, <2>1
<1>6. \A i \in 1..m : (b \o z)[i] = <<1, text[i]>>
  BY <1>1, <1>3, <1>4
<1> QED
  BY <1>4, <1>5, <1>6 DEF TextCells, b, z, m

\* A sequence element by element
LEMMA MappedAppend ==
    ASSUME NEW S, NEW s \in Seq(Seq(Int)), NEW x \in Seq(Int)
    PROVE  LET cells(t) == [i \in DOMAIN t |-> TextCells(t[i])]
           IN  cells(s) \in Seq(Seq(Cells)) /\ cells(Append(s, x)) = Append(cells(s), TextCells(x))
<1> DEFINE a == Append(s, x)  m == Len(s)
           p == [i \in DOMAIN s |-> TextCells(s[i])]  q == [i \in DOMAIN a |-> TextCells(a[i])]
           c == TextCells(x)
<1>1. /\ a \in Seq(Seq(Int)) /\ Len(a) = m + 1 /\ a[m + 1] = x /\ m \in Nat
      /\ \A i \in 1..m : a[i] = s[i]
  BY AppendProperties, LenProperties
<1>2. DOMAIN s = 1..m /\ DOMAIN a = 1..(m + 1)
  BY <1>1, LenProperties
<1>3. \A i \in 1..m : s[i] \in Seq(Int)
  BY ElementOfSeq
<1>4. \A i \in 1..m : TextCells(s[i]) \in Seq(Cells)
  BY <1>3, TextCellsAre
<1>5. c \in Seq(Cells)
  BY TextCellsAre
<1>6. \A i \in 1..m : TextCells(a[i]) = TextCells(s[i])
  BY <1>1
<1>7. TextCells(a[m + 1]) = c
  BY <1>1
<1> HIDE DEF a, m, c
<1>8. p \in Seq(Seq(Cells)) /\ Len(p) = m /\ \A i \in 1..m : p[i] = TextCells(s[i])
  BY <1>1, <1>2, <1>4
<1>9. q \in Seq(Seq(Cells)) /\ Len(q) = m + 1 /\ \A i \in 1..(m + 1) : q[i] = TextCells(a[i])
  <2>1. \A i \in 1..(m + 1) : TextCells(a[i]) \in Seq(Cells)
    BY <1>1, <1>4, <1>5, <1>6, <1>7
  <2> QED
    BY <1>1, <1>2, <2>1
<1> HIDE DEF p, q
<1>10. /\ Append(p, c) \in Seq(Seq(Cells)) /\ Len(Append(p, c)) = m + 1
       /\ Append(p, c)[m + 1] = c /\ \A i \in 1..m : Append(p, c)[i] = p[i]
  <2> DEFINE X == Seq(Cells)
  <2>0. p \in Seq(X) /\ c \in X
    BY <1>5, <1>8
  <2> HIDE DEF X
  <2>1. /\ Append(p, c) \in Seq(X) /\ Len(Append(p, c)) = Len(p) + 1
        /\ Append(p, c)[Len(p) + 1] = c /\ \A i \in 1..Len(p) : Append(p, c)[i] = p[i]
    BY <2>0, AppendProperties
  <2> QED
    BY <1>8, <2>1 DEF X
<1> DEFINE r == Append(p, c)
<1> HIDE DEF r
<1>11. \A i \in 1..Len(q) : q[i] = r[i]
  <2> SUFFICES ASSUME NEW i \in 1..(m + 1) PROVE q[i] = r[i]
    BY <1>9
  <2>1. i \in 1..m \/ i = m + 1
    BY <1>1
  <2> QED
    BY <1>6, <1>7, <1>8, <1>9, <1>10, <2>1 DEF r
<1>12. q = r
  BY <1>9, <1>10, <1>11, SeqEqual DEF r
<1> QED
  BY <1>8, <1>12 DEF p, q, r, a, c

\* The table of one text more.
LEMMA TableAppend ==
    ASSUME NEW s \in Seq(Seq(Int)), NEW x \in Seq(Int), TableOf(s) \in Seq(Cells)
    PROVE  /\ TableOf(Append(s, x)) = TableOf(s) \o TextCells(x)
           /\ TableOf(Append(s, x)) \in Seq(Cells)
<1> DEFINE p == [i \in DOMAIN s |-> TextCells(s[i])]
           q == [i \in DOMAIN Append(s, x) |-> TextCells(Append(s, x)[i])]
           c == TextCells(x)
<1>1. p \in Seq(Seq(Cells)) /\ q = Append(p, c)
  BY MappedAppend
<1>2. c \in Seq(Cells)
  BY TextCellsAre
<1>3. TableOf(s) = FlattenSeq(p) /\ TableOf(Append(s, x)) = FlattenSeq(q)
  BY DEF TableOf
<1> HIDE DEF p, q, c
<1>4. FlattenSeq(Append(p, c)) = FlattenSeq(p) \o c /\ FlattenSeq(Append(p, c)) \in Seq(Cells)
  BY <1>1, <1>2, <1>3, FlattenAppend
<1> QED
  BY <1>1, <1>3, <1>4 DEF c

\* The table of no texts.
LEMMA TableOfNone == TableOf(<<>>) = <<>>
<1>1. [i \in DOMAIN <<>> |-> TextCells(<<>>[i])] = <<>>
  OBVIOUS
<1>2. FlattenSeq(<<>>) = <<>>
  BY DEF FlattenSeq
<1> QED
  BY <1>1, <1>2 DEF TableOf

\* A table is a sequence of cells.
LEMMA TableIs ==
    ASSUME NEW s \in Seq(Seq(Int))
    PROVE  TableOf(s) \in Seq(Cells) /\ Len(TableOf(s)) \in Nat
<1> DEFINE P == {t \in Seq(Seq(Int)) : TableOf(t) \in Seq(Cells)}
<1>1. <<>> \in P
  BY TableOfNone, EmptySeq
<1>2. ASSUME NEW t \in Seq(Seq(Int)), NEW x \in Seq(Int), t \in P PROVE Append(t, x) \in P
  BY <1>2, TableAppend, AppendProperties
<1> HIDE DEF P
<1>3. Seq(Seq(Int)) \subseteq P
  BY <1>1, <1>2, SequenceInduction
<1> QED
  BY <1>3, LenProperties DEF P

\* The table of one text more is longer by that text.
LEMMA TableGrows ==
    ASSUME NEW s \in Seq(Seq(Int)), NEW x \in Seq(Int)
    PROVE  Len(TableOf(Append(s, x))) = Len(TableOf(s)) + Len(x) + 1
<1> DEFINE t == TableOf(s)  c == TextCells(x)
<1>1. t \in Seq(Cells) /\ c \in Seq(Cells) /\ Len(c) = Len(x) + 1
  BY TableIs, TextCellsAre
<1>2. TableOf(Append(s, x)) = t \o c
  BY <1>1, TableAppend
<1>3. Len(t) \in Nat /\ Len(x) \in Nat
  BY <1>1, LenProperties
<1> HIDE DEF t, c
<1>4. Len(t \o c) = Len(t) + Len(c)
  BY <1>1, ConcatProperties
<1> QED
  BY <1>1, <1>2, <1>3, <1>4 DEF t

\* The total of no lengths.
LEMMA TotalOfNone == Total(<<>>) = 0
<1>1. Len(<<>>) = 0 /\ Len(<<>>) \in Nat
  OBVIOUS
<1>2. PICK f : TotalRun(f, <<>>)
  BY <1>1, TotalsRun
<1> QED
  BY <1>1, <1>2 DEF TotalRun

\* The total of lengths is a number.
LEMMA TotalIs ==
    ASSUME NEW s \in Seq(Int)
    PROVE  Total(s) \in Int
<1> DEFINE P == {t \in Seq(Int) : Total(t) \in Int}
<1>1. <<>> \in P
  BY TotalOfNone
<1>2. ASSUME NEW t \in Seq(Int), NEW x \in Int, t \in P PROVE Append(t, x) \in P
  BY <1>2, TotalAppend, AppendProperties
<1> HIDE DEF P
<1>3. Seq(Int) \subseteq P
  BY <1>1, <1>2, SequenceInduction
<1> QED
  BY <1>3 DEF P

-----------------------------------------------------------------------------
(* A sound encoder: what it collects has the form that headers and streams need. *)

\* Texts as read_string finds them, with their bytes counted
TextsAre(strings, bytes) ==
    /\ \A i \in 1..Len(strings) : ~Contains(strings[i], 0)
    /\ bytes = Len(TableOf(strings)) /\ Len(strings) <= MaxCount

\* Lengths that say where each blob ends
BlobsAre(lengths, blobs) ==
    /\ \A i \in 1..Len(lengths) : lengths[i] \in 0..Len(blobs)
    /\ Total(lengths) = Len(blobs)

\* What the header of a file needs to know of an encoder; k is 1 while a value that
\* is counted is not yet written
Room(stream, remaining, k) == Len(stream) + remaining + k <= MaxCount
\* An encoder whose fields and streams a reader accepts
Sound(e, k) ==
    /\ TextsAre(e.strings, e.string_bytes) /\ BlobsAre(e.lengths, e.blobs)
    /\ e.version5 \/ e.objects = <<>>
    /\ Room(e.doubles, e.remaining, k) /\ Room(e.objects, e.remaining, k)
    /\ Room(e.lengths, e.remaining, k)

\* f has what Sound says of e
Keeps(e, f) ==
    /\ f.strings = e.strings /\ f.string_bytes = e.string_bytes
    /\ f.lengths = e.lengths /\ f.blobs = e.blobs /\ f.version5 = e.version5
    /\ f.objects = e.objects /\ f.doubles = e.doubles /\ f.remaining = e.remaining

\* f is as sound as e, unless it failed
StaysSound(e, f, k, l) == ~f.failed /\ Sound(e, k) => Sound(f, l)

\* An encoder that has the same streams is as sound.
LEMMA KeepsSound ==
    ASSUME NEW e, NEW f, NEW k, ~f.failed => Keeps(e, f)
    PROVE  StaysSound(e, f, k, k)
  BY DEF StaysSound, Sound, Keeps

\* Two steps of an encoder, the second of which keeps a failure.
LEMMA SoundFurther ==
    ASSUME NEW e, NEW f, NEW g, NEW k, NEW l, NEW m,
           StaysSound(e, f, k, l), StaysSound(f, g, l, m), f.failed => g.failed
    PROVE  StaysSound(e, g, k, m)
  BY DEF StaysSound

\* A value that is counted has room in each stream, and one more number takes it.
LEMMA RoomIs ==
    ASSUME NEW s \in Seq(Int), NEW r \in Int
    PROVE  /\ Room(s, r, 0) => Room(s, r - 1, 1)
           /\ Room(s, r, 1) => Room(s, r, 0) /\ \A x \in Int : Room(Append(s, x), r, 0)
<1>1. Len(s) \in Nat /\ MaxCount \in Nat
  BY LenProperties, LimitsAssumption
<1>2. \A x \in Int : Len(Append(s, x)) = Len(s) + 1
  BY AppendProperties
<1> QED
  BY <1>1, <1>2 DEF Room

\* The numbers that Sound compares.
LEMMA SoundNumbers ==
    ASSUME NEW e \in Encoders
    PROVE  /\ Len(e.doubles) \in Nat /\ Len(e.objects) \in Nat /\ Len(e.lengths) \in Nat
           /\ Len(e.strings) \in Nat /\ Len(e.blobs) \in Nat /\ Len(e.types) \in Nat
           /\ Len(e.integers) \in Nat /\ e.remaining \in Int /\ MaxCount \in Nat
           /\ e.doubles \in Seq(Int) /\ e.objects \in Seq(Int) /\ e.lengths \in Seq(Int)
  BY LenProperties, LimitsAssumption DEF Encoders

\* write_type_tag changes only the types.
LEMMA TypeTagKeeps ==
    ASSUME NEW e \in Encoders, NEW tag \in Int, NEW flag
    PROVE  LET f == WriteTypeTag(e, tag, flag) IN ~f.failed => Keeps(e, f)
<1> DEFINE f == WriteTypeTag(e, tag, flag)  codes == FlagCodes(IF e.version5 THEN 5 ELSE 4)
           more == e.types \o IF codes[flag] = 0 THEN <<tag>> ELSE <<tag + 128, codes[flag]>>
<1>1. CASE flag \in DOMAIN codes
  <2>1. f = [e EXCEPT !.types = more]
    BY <1>1 DEF WriteTypeTag
  <2> HIDE DEF more, f
  <2>2. Keeps(e, f)
    BY <2>1 DEF Keeps, Encoders
  <2> QED
    BY <2>2 DEF f
<1>2. CASE flag \notin DOMAIN codes
  <2>1. f = Require(e, FALSE)
    BY <1>2 DEF WriteTypeTag
  <2>2. f.failed
    BY <2>1, RequireGrows
  <2> QED
    BY <2>2
<1> QED
  BY <1>1, <1>2

\* A check that does not fail changes nothing.
LEMMA RequireKeeps ==
    ASSUME NEW e \in Encoders, NEW c
    PROVE  ~Require(e, c).failed => Keeps(e, Require(e, c))
<1>1. ~Require(e, c).failed => Require(e, c) = e
  BY RequireGrows
<1> QED
  BY <1>1 DEF Keeps

\* A value that is counted leaves room for itself.
LEMMA CountedSound ==
    ASSUME NEW e \in Encoders, NEW depth
    PROVE  StaysSound(e, Counted(e, depth), 0, 1)
<1> DEFINE f == Counted(e, depth)  n == e.remaining - 1
<1>1. ~f.failed => f = [e EXCEPT !.remaining = n]
  BY CountedGrows
<1> HIDE DEF f
<1> SUFFICES ASSUME ~f.failed, Sound(e, 0) PROVE Sound(f, 1)
  BY DEF StaysSound, f
<1>3. n \in Int
  BY SoundNumbers
<1> HIDE DEF n
<1>4. /\ f.strings = e.strings /\ f.string_bytes = e.string_bytes
      /\ f.lengths = e.lengths /\ f.blobs = e.blobs /\ f.version5 = e.version5
      /\ f.objects = e.objects /\ f.doubles = e.doubles /\ f.remaining = n
  BY <1>1, <1>3 DEF Encoders
<1>5. \A t \in Seq(Int) : Room(t, e.remaining, 0) => Room(t, n, 1)
  BY SoundNumbers, RoomIs DEF n
<1> QED
  BY <1>4, <1>5, SoundNumbers DEF Sound

\* A number of 8 bytes takes the room of its value.
LEMMA DoubleSound ==
    ASSUME NEW e \in Encoders, NEW i \in Int
    PROVE  StaysSound(e, [e EXCEPT !.doubles = Append(@, i)], 1, 0)
<1> DEFINE f == [e EXCEPT !.doubles = Append(@, i)]
<1>1. /\ f.doubles = Append(e.doubles, i)
      /\ f.strings = e.strings /\ f.string_bytes = e.string_bytes
      /\ f.lengths = e.lengths /\ f.blobs = e.blobs /\ f.version5 = e.version5
      /\ f.objects = e.objects /\ f.remaining = e.remaining
  BY AppendDouble
<1> HIDE DEF f
<1>2. \A t \in Seq(Int) : Room(t, e.remaining, 1) =>
                             Room(t, e.remaining, 0) /\ Room(Append(t, i), e.remaining, 0)
  BY SoundNumbers, RoomIs
<1>3. Sound(e, 1) => Sound(f, 0)
  BY <1>1, <1>2, SoundNumbers DEF Sound
<1> QED
  BY <1>3 DEF StaysSound, f

\* The number of children of an object takes the room of its value.
LEMMA ObjectSound ==
    ASSUME NEW e \in Encoders, NEW i \in Int, e.version5
    PROVE  StaysSound(e, [e EXCEPT !.objects = Append(@, i)], 1, 0)
<1> DEFINE f == [e EXCEPT !.objects = Append(@, i)]
<1>1. /\ f.objects = Append(e.objects, i)
      /\ f.strings = e.strings /\ f.string_bytes = e.string_bytes
      /\ f.lengths = e.lengths /\ f.blobs = e.blobs /\ f.version5 = e.version5
      /\ f.doubles = e.doubles /\ f.remaining = e.remaining
  BY AppendObject
<1> HIDE DEF f
<1>2. \A t \in Seq(Int) : Room(t, e.remaining, 1) =>
                             Room(t, e.remaining, 0) /\ Room(Append(t, i), e.remaining, 0)
  BY SoundNumbers, RoomIs
<1>3. Sound(e, 1) => Sound(f, 0)
  BY <1>1, <1>2, SoundNumbers DEF Sound
<1> QED
  BY <1>3 DEF StaysSound, f

\* A number in the stream of integers is not counted against any other stream.
LEMMA IntegerSound ==
    ASSUME NEW e \in Encoders, NEW i \in Int, NEW k
    PROVE  StaysSound(e, [e EXCEPT !.integers = Append(@, i)], k, k)
<1> DEFINE f == [e EXCEPT !.integers = Append(@, i)]
<1>1. Keeps(e, f)
  BY AppendInteger DEF Keeps
<1> HIDE DEF f
<1>2. StaysSound(e, f, k, k)
  BY <1>1, KeepsSound
<1> QED
  BY <1>2 DEF f

\* Room that is kept for a value and not used
LEMMA RoomUnused ==
    ASSUME NEW e, NEW f \in Encoders, NEW k, StaysSound(e, f, k, 1)
    PROVE  StaysSound(e, f, k, 0)
<1>1. Sound(f, 1) => Sound(f, 0)
  BY SoundNumbers, RoomIs DEF Sound
<1> QED
  BY <1>1 DEF StaysSound

\* A blob's length says where it ends, and the lengths of those before it stay.
LEMMA BlobsGrow ==
    ASSUME NEW lengths \in Seq(Int), NEW blobs \in Seq(Int), NEW text \in Seq(Int),
           BlobsAre(lengths, blobs)
    PROVE  BlobsAre(Append(lengths, Len(text)), blobs \o text)
<1> DEFINE n == Len(text)  b == Len(blobs)  all == blobs \o text  more == Append(lengths, n)
           m == Len(lengths)
<1>1. n \in Nat /\ b \in Nat /\ m \in Nat
  BY LenProperties
<1>2. Len(all) = b + n
  BY ConcatProperties
<1>3. n \in Int
  BY <1>1
<1> HIDE DEF n
<1>4. /\ Len(more) = m + 1 /\ more[m + 1] = n /\ \A i \in 1..m : more[i] = lengths[i]
      /\ Total(more) = Total(lengths) + n
  BY <1>3, AppendProperties, TotalAppend
<1> HIDE DEF all, more, m, b
<1>5. \A i \in 1..m : lengths[i] \in 0..b
  BY DEF BlobsAre, m, b
<1>6. Total(lengths) = b
  BY DEF BlobsAre, b
<1>7. ASSUME NEW i \in 1..(m + 1) PROVE more[i] \in 0..(b + n)
  <2>1. i \in 1..m \/ i = m + 1
    BY <1>1
  <2>2. CASE i \in 1..m
    <3>1. more[i] = lengths[i] /\ lengths[i] \in 0..b
      BY <1>4, <1>5, <2>2
    <3> QED
      BY <1>1, <3>1
  <2>3. CASE i = m + 1
    BY <1>1, <1>4, <2>3
  <2> QED
    BY <2>1, <2>2, <2>3
<1>8. Total(more) = b + n
  BY <1>4, <1>6
<1>9. BlobsAre(more, all)
  BY <1>2, <1>4, <1>7, <1>8 DEF BlobsAre
<1> QED
  BY <1>9 DEF more, all, n

\* A text more without a zero, with its bytes and the zero behind it counted.
LEMMA TextsGrow ==
    ASSUME NEW strings \in Seq(Seq(Int)), NEW text \in Seq(Int), NEW bytes \in Int,
           TextsAre(strings, bytes), ~Contains(text, 0), Len(strings) < MaxCount
    PROVE  TextsAre(Append(strings, text), bytes + Len(text) + 1)
<1> DEFINE more == Append(strings, text)  m == Len(strings)
<1>1. m \in Nat /\ MaxCount \in Nat /\ Len(text) \in Nat
  BY LenProperties, LimitsAssumption
<1>2. Len(more) = m + 1 /\ more[m + 1] = text /\ \A i \in 1..m : more[i] = strings[i]
  BY AppendProperties
<1>3. Len(TableOf(more)) = Len(TableOf(strings)) + Len(text) + 1
  BY TableGrows
<1>4. bytes = Len(TableOf(strings)) /\ \A i \in 1..m : ~Contains(strings[i], 0)
  BY DEF TextsAre
<1>5. m + 1 <= MaxCount
  BY <1>1
<1> HIDE DEF more, m
<1>6. ASSUME NEW i \in 1..(m + 1) PROVE ~Contains(more[i], 0)
  <2>1. i \in 1..m \/ i = m + 1
    BY <1>1
  <2> QED
    BY <1>2, <1>4, <2>1
<1>7. TextsAre(more, bytes + Len(text) + 1)
  BY <1>2, <1>3, <1>4, <1>5, <1>6 DEF TextsAre
<1> QED
  BY <1>7 DEF more

\* A new text of the table is counted and has no zero.
LEMMA NewStringSound ==
    ASSUME NEW e \in Encoders, NEW text \in Seq(Int), NEW k
    PROVE  StaysSound(e, NewString(e, text), k, k)
<1> DEFINE size == e.string_bytes + Len(text) + 1
           more == Append(e.strings, text)
           count == Len(e.strings)
           c == ~Contains(text, 0) /\ Fits(size) /\ Len(e.strings) < MaxCount
           f == [e EXCEPT !.strings = more, !.string_bytes = size, !.id = count]
           r == NewString(e, text)
<1> SUFFICES ASSUME ~r.failed, Sound(e, k) PROVE Sound(r, k)
  BY DEF StaysSound
<1>0. e.strings \in Seq(Seq(Int)) /\ e.string_bytes \in Int /\ count \in Int
      /\ size \in Int /\ more \in Seq(Seq(Int))
  <2>1. e.string_bytes \in Int /\ e.strings \in Seq(Seq(Int))
    BY DEF Encoders
  <2> QED
    BY <2>1, AppendProperties, LenProperties
<1>1. r = Require(f, c)
  BY DEF NewString
<1>2. ~Contains(text, 0) /\ Len(e.strings) < MaxCount => TextsAre(more, size)
  <2>1. TextsAre(e.strings, e.string_bytes)
    BY DEF Sound
  <2> QED
    BY <1>0, <2>1, TextsGrow
<1> HIDE DEF size, more, r, count
<1>3. /\ f.strings = more /\ f.string_bytes = size /\ f.lengths = e.lengths /\ f.blobs = e.blobs
      /\ f.version5 = e.version5 /\ f.objects = e.objects /\ f.doubles = e.doubles
      /\ f.remaining = e.remaining
  BY DEF Encoders
<1>4. r.failed = (f.failed \/ ~c) /\ (c => (r.strings = f.strings /\ r.string_bytes = f.string_bytes
      /\ r.lengths = f.lengths /\ r.blobs = f.blobs /\ r.version5 = f.version5
      /\ r.objects = f.objects /\ r.doubles = f.doubles /\ r.remaining = f.remaining))
  <2> HIDE DEF c
  <2>1. f \in [version5 : {e.version5}, objects : {e.objects}, strings : {more},
              integers : {e.integers},
               doubles : {e.doubles}, types : {e.types}, blobs : {e.blobs}, lengths : {e.lengths},
               string_bytes : {size}, value_bytes : {e.value_bytes}, remaining : {e.remaining},
               id : {count}, failed : {e.failed}]
    BY DEF Encoders
  <2> HIDE DEF f
  <2> QED
    BY <1>1, <2>1 DEF Require
<1> HIDE DEF f
<1>5. c
  BY <1>4
<1> QED
  BY <1>2, <1>3, <1>4, <1>5 DEF Sound

\* register_string adds a new text, or counts the bytes of a value.
LEMMA RegisterStringSound ==
    ASSUME NEW e \in Encoders, NEW text \in Seq(Int), NEW k
    PROVE  StaysSound(e, RegisterString(e, text), k, k)
<1> DEFINE c == AddValueBytes(e, Len(text))  r == RegisterString(e, text)
           p == SelectInSeq(e.strings, LAMBDA s : s = text)
<1>1. Len(text) \in Int
  BY LenProperties
<1>2. /\ c \in Encoders
      /\ ~c.failed => c = [e EXCEPT !.value_bytes = @ + Len(text)]
  BY <1>1, AddValueBytesGrows
<1>3. ~c.failed => Keeps(e, c)
  BY <1>2 DEF Keeps, Encoders
<1>4. r = IF text = <<>> THEN [c EXCEPT !.id = -1]
          ELSE IF Contains(e.strings, text) THEN [c EXCEPT !.id = p - 1] ELSE NewString(c, text)
  BY DEF RegisterString
<1> HIDE DEF r, c, p
<1>5. StaysSound(e, c, k, k)
  BY <1>3, KeepsSound
<1>6. ASSUME NEW i PROVE StaysSound(e, [c EXCEPT !.id = i], k, k)
  <2> DEFINE g == [c EXCEPT !.id = i]
  <2>1. Keeps(c, g) /\ g.failed = c.failed
    BY <1>2 DEF Keeps, Encoders
  <2> HIDE DEF g
  <2>2. StaysSound(c, g, k, k)
    BY <2>1, KeepsSound
  <2>3. StaysSound(e, g, k, k)
    BY <1>5, <2>1, <2>2, SoundFurther
  <2> QED
    BY <2>3 DEF g
<1>7. CASE r = NewString(c, text)
  <2>1. StaysSound(c, r, k, k)
    BY <1>2, <1>7, NewStringSound
  <2>2. c.failed => r.failed
    <3>1. CASE text # <<>>
      BY <1>2, <1>7, <3>1, NewStringGrows DEF Grows
    <3>2. CASE text = <<>>
      <4>1. r.failed = c.failed
        BY <1>2, <1>4, <3>2 DEF Encoders
      <4> QED
        BY <4>1
    <3> QED
      BY <3>1, <3>2
  <2>3. StaysSound(e, r, k, k)
    BY <1>5, <2>1, <2>2, SoundFurther
  <2> QED
    BY <2>3 DEF r
<1>8. r = NewString(c, text) \/ \E i : r = [c EXCEPT !.id = i]
  BY <1>4
<1>9. CASE \E i : r = [c EXCEPT !.id = i]
  <2>1. StaysSound(e, r, k, k)
    BY <1>6, <1>9
  <2> QED
    BY <2>1 DEF r
<1> QED
  BY <1>7, <1>8, <1>9

\* write_string keeps the encoder sound.
LEMMA StringSound ==
    ASSUME NEW e \in Encoders, NEW text \in Seq(Int), NEW k
    PROVE  StaysSound(e, WriteString(e, text), k, k)
<1> DEFINE r == RegisterString(e, text)  i == r.id  f == [r EXCEPT !.integers = Append(@, i)]
<1>1. r \in Encoders
  BY RegisterStringGrows
<1>2. StaysSound(e, r, k, k)
  BY RegisterStringSound
<1>3. i \in Int /\ WriteString(e, text) = f
  BY <1>1 DEF Encoders, WriteString
<1> HIDE DEF r, i
<1>4. StaysSound(r, f, k, k)
  BY <1>1, <1>3, IntegerSound
<1>5. f.failed = r.failed
  BY <1>1, <1>3, AppendInteger
<1> HIDE DEF f
<1>6. StaysSound(e, f, k, k)
  BY <1>2, <1>4, <1>5, SoundFurther
<1> QED
  BY <1>3, <1>6

\* write_type_tag keeps the encoder sound.
LEMMA TypeTagSound ==
    ASSUME NEW e \in Encoders, NEW tag \in Int, NEW flag, NEW k
    PROVE  StaysSound(e, WriteTypeTag(e, tag, flag), k, k)
<1> DEFINE f == WriteTypeTag(e, tag, flag)
<1>1. ~f.failed => Keeps(e, f)
  BY TypeTagKeeps
<1> HIDE DEF f
<1>2. StaysSound(e, f, k, k)
  BY <1>1, KeepsSound
<1> QED
  BY <1>2 DEF f

\* A number of 8 bytes and its type take the room of a value.
LEMMA Scalar64Sound ==
    ASSUME NEW e \in Encoders, NEW tag \in Int, NEW value, value.number \in Int
    PROVE  StaysSound(e, WriteScalar64(e, tag, value), 1, 0)
<1> DEFINE f == WriteTypeTag(e, tag, value.flag)  i == value.number
           g == [f EXCEPT !.doubles = Append(@, i)]
<1>1. f \in Encoders /\ StaysSound(e, f, 1, 1) /\ i \in Int
  BY WriteTypeTagGrows, TypeTagSound
<1>2. g = WriteScalar64(e, tag, value)
  BY DEF WriteScalar64
<1> HIDE DEF f, i
<1>3. StaysSound(f, g, 1, 0) /\ g.failed = f.failed
  BY <1>1, DoubleSound, AppendDouble
<1> HIDE DEF g
<1>4. StaysSound(e, g, 1, 0)
  BY <1>1, <1>3, SoundFurther
<1> QED
  BY <1>2, <1>4

\* A blob and its length take the room of a value.
LEMMA AppendBlobSound ==
    ASSUME NEW e \in Encoders, NEW text \in Seq(Int)
    PROVE  StaysSound(e, [e EXCEPT !.lengths = Append(@, Len(text)), !.blobs = @ \o text], 1, 0)
<1> DEFINE f == [e EXCEPT !.lengths = Append(@, Len(text)), !.blobs = @ \o text]
<1>1. /\ f.lengths = Append(e.lengths, Len(text)) /\ f.blobs = e.blobs \o text
      /\ f.version5 = e.version5 /\ f.objects = e.objects /\ f.strings = e.strings
      /\ f.doubles = e.doubles /\ f.string_bytes = e.string_bytes /\ f.remaining = e.remaining
  BY AppendBlob
<1>2. e.blobs \in Seq(Int) /\ e.lengths \in Seq(Int)
  BY DEF Encoders
<1> HIDE DEF f
<1>3. BlobsAre(e.lengths, e.blobs) => BlobsAre(f.lengths, f.blobs)
  BY <1>1, <1>2, BlobsGrow
<1>4. Len(text) \in Int
  BY LenProperties
<1>5. \A t \in Seq(Int) : Room(t, e.remaining, 1) =>
                             Room(t, e.remaining, 0) /\ Room(Append(t, Len(text)), e.remaining, 0)
  BY <1>4, SoundNumbers, RoomIs
<1>6. Sound(e, 1) => Sound(f, 0)
  BY <1>1, <1>3, <1>5, SoundNumbers DEF Sound
<1> QED
  BY <1>6 DEF StaysSound, f

\* write_binary keeps the encoder sound.
LEMMA BlobSound ==
    ASSUME NEW e \in Encoders, NEW value, value.text \in Seq(Int)
    PROVE  StaysSound(e, WriteBlob(e, value), 1, 0)
<1> DEFINE f == WriteTypeTag(e, 7, value.flag)  text == value.text  n == Len(text)
           g == AddValueBytes(f, n)
           h == [g EXCEPT !.lengths = Append(@, Len(text)), !.blobs = @ \o text]
<1>1. f \in Encoders /\ StaysSound(e, f, 1, 1)
  BY WriteTypeTagGrows, TypeTagSound
<1>2. h = WriteBlob(e, value)
  BY DEF WriteBlob
<1>3. n \in Int /\ text \in Seq(Int)
  BY LenProperties
<1> HIDE DEF f
<1>4. /\ g \in Encoders /\ (f.failed => g.failed)
      /\ ~g.failed => g = [f EXCEPT !.value_bytes = @ + n]
  <2> HIDE DEF n
  <2> QED
    BY <1>1, <1>3, AddValueBytesGrows DEF Grows
<1> HIDE DEF g
<1>5. ~g.failed => Keeps(f, g)
  BY <1>1, <1>4 DEF Keeps, Encoders
<1>6. StaysSound(f, g, 1, 1)
  BY <1>5, KeepsSound
<1>7. StaysSound(g, h, 1, 0) /\ h.failed = g.failed
  <2> HIDE DEF text
  <2> QED
    BY <1>3, <1>4, AppendBlobSound, AppendBlob
<1> HIDE DEF h
<1>8. StaysSound(e, g, 1, 1)
  BY <1>1, <1>4, <1>6, SoundFurther
<1>9. StaysSound(e, h, 1, 0)
  BY <1>7, <1>8, SoundFurther
<1> QED
  BY <1>2, <1>9

\* write_child_count keeps the encoder sound.
LEMMA ChildCountSound ==
    ASSUME NEW e \in Encoders, NEW value, Len(value.items) \in Nat
    PROVE  StaysSound(e, WriteChildCount(e, value), 1, 0)
<1> DEFINE n == Len(value.items)  tag == IF value.kind = "array" THEN 8 ELSE 9
           f == WriteTypeTag(e, tag, value.flag)  g == Require(f, n <= MaxCount)
           r == WriteChildCount(e, value)
<1>1. tag \in Int /\ n \in Int
  OBVIOUS
<1>2. f \in Encoders /\ StaysSound(e, f, 1, 1)
  <2> HIDE DEF tag
  <2> QED
    BY <1>1, WriteTypeTagGrows, TypeTagSound
<1>3. r = IF value.kind = "object" /\ e.version5 THEN [g EXCEPT !.objects = Append(@, n)]
          ELSE [g EXCEPT !.integers = Append(@, n)]
  BY DEF WriteChildCount
<1>9. f.version5 = e.version5
  <2> HIDE DEF tag
  <2> QED
    BY <1>1, WriteTypeTagGrows DEF Grows
<1> HIDE DEF f
<1>4. g \in Encoders /\ (f.failed => g.failed) /\ (~g.failed => Keeps(f, g))
      /\ g.version5 = f.version5
  <2> DEFINE c == n <= MaxCount
  <2> HIDE DEF c
  <2>1. /\ Require(f, c) \in Encoders /\ Grows(f, Require(f, c))
        /\ ~Require(f, c).failed => Keeps(f, Require(f, c))
    BY <1>2, RequireGrows, RequireKeeps
  <2> QED
    BY <2>1 DEF Grows, c
<1> HIDE DEF g, n, r
<1>5. StaysSound(f, g, 1, 1)
  BY <1>4, KeepsSound
<1>6. StaysSound(e, g, 1, 1)
  BY <1>2, <1>4, <1>5, SoundFurther
<1>7. CASE value.kind = "object" /\ e.version5
  <2>1. StaysSound(g, r, 1, 0) /\ r.failed = g.failed
    BY <1>1, <1>3, <1>4, <1>7, <1>9, ObjectSound, AppendObject
  <2>2. StaysSound(e, r, 1, 0)
    BY <1>6, <2>1, SoundFurther
  <2> QED
    BY <2>2 DEF r
<1>8. CASE ~(value.kind = "object" /\ e.version5)
  <2>0. r = [g EXCEPT !.integers = Append(@, n)]
    BY <1>3, <1>8
  <2>1. StaysSound(g, r, 1, 1) /\ r.failed = g.failed /\ r \in Encoders
    BY <1>1, <2>0, <1>4, IntegerSound, AppendInteger
  <2>2. StaysSound(g, r, 1, 0)
    BY <2>1, RoomUnused
  <2>3. StaysSound(e, r, 1, 0)
    BY <1>6, <2>1, <2>2, SoundFurther
  <2> QED
    BY <2>3 DEF r
<1> QED
  BY <1>7, <1>8

\* The type of a value that takes no room.
LEMMA TypeTagOnly ==
    ASSUME NEW e \in Encoders, NEW tag \in Int, NEW flag
    PROVE  StaysSound(e, WriteTypeTag(e, tag, flag), 1, 0)
<1> DEFINE f == WriteTypeTag(e, tag, flag)
<1>1. f \in Encoders /\ StaysSound(e, f, 1, 1)
  BY WriteTypeTagGrows, TypeTagSound
<1> HIDE DEF f
<1>2. StaysSound(e, f, 1, 0)
  BY <1>1, RoomUnused
<1> QED
  BY <1>2 DEF f

\* Every kind of value keeps the encoder sound.
LEMMA WriteCountedSound ==
    ASSUME NEW e \in Encoders, NEW V, NEW v, IsValue(v, V)
    PROVE  StaysSound(e, WriteCounted(e, v), 1, 0)
<1>1. CASE v.kind = "null"
  <2>1. WriteCounted(e, v) = WriteTypeTag(e, 1, v.flag)
    BY <1>1 DEF WriteCounted, Containers
  <2> QED
    BY <2>1, TypeTagOnly
<1>2. CASE v.kind = "boolean"
  <2>1. WriteCounted(e, v) = WriteTypeTag(e, 14 - v.number, v.flag) /\ 14 - v.number \in Int
    BY <1>2 DEF WriteCounted, IsValue, Containers
  <2> QED
    BY <2>1, TypeTagOnly
<1>3. CASE v.kind \in {"signed", "unsigned", "float64"}
  <2>1. v.number \in Int
    BY <1>3 DEF IsValue
  <2>2. \A tag \in Int : /\ StaysSound(e, WriteScalar64(e, tag, v), 1, 0)
                         /\ StaysSound(e, WriteTypeTag(e, tag, v.flag), 1, 0)
    BY <2>1, Scalar64Sound, TypeTagOnly
  <2>3. \/ \E tag \in Int : WriteCounted(e, v) = WriteScalar64(e, tag, v)
        \/ \E tag \in Int : WriteCounted(e, v) = WriteTypeTag(e, tag, v.flag)
    <3>1. CASE v.kind = "signed"
      <4>1. WriteCounted(e, v) = WriteSigned(e, v)
        BY <3>1 DEF WriteCounted, Containers
      <4>2. 15 + v.number \in Int
        BY <2>1
      <4> QED
        BY <4>1, <4>2 DEF WriteSigned
    <3>2. CASE v.kind = "unsigned"
      BY <3>2 DEF WriteCounted, Containers
    <3>3. CASE v.kind = "float64"
      BY <3>3 DEF WriteCounted, Containers
    <3> QED
      BY <1>3, <3>1, <3>2, <3>3
  <2> QED
    BY <2>2, <2>3
<1>4. CASE v.kind = "float32"
  <2> DEFINE f == WriteTypeTag(e, 19, v.flag)  i == v.number  g == [f EXCEPT !.integers = Append(@, i)]
  <2>1. WriteCounted(e, v) = g /\ i \in Int
    BY <1>4 DEF WriteCounted, IsValue, Containers
  <2>2. f \in Encoders /\ StaysSound(e, f, 1, 1)
    BY WriteTypeTagGrows, TypeTagSound
  <2> HIDE DEF f, i
  <2>3. StaysSound(f, g, 1, 1) /\ g.failed = f.failed /\ g \in Encoders
    BY <2>1, <2>2, IntegerSound, AppendInteger
  <2> HIDE DEF g
  <2>4. StaysSound(e, g, 1, 1)
    BY <2>2, <2>3, SoundFurther
  <2> QED
    BY <2>1, <2>3, <2>4, RoomUnused
<1>5. CASE v.kind = "string"
  <2> DEFINE f == WriteTypeTag(e, 6, v.flag)  text == v.text  g == WriteString(f, text)
  <2>1. WriteCounted(e, v) = g /\ text \in Seq(Int)
    BY <1>5 DEF WriteCounted, IsValue, Containers
  <2>2. f \in Encoders /\ StaysSound(e, f, 1, 1)
    BY WriteTypeTagGrows, TypeTagSound
  <2> HIDE DEF f, text
  <2>3. StaysSound(f, g, 1, 1) /\ g \in Encoders /\ Grows(f, g)
    BY <2>1, <2>2, StringSound, WriteStringGrows
  <2> HIDE DEF g
  <2>4. StaysSound(e, g, 1, 1)
    BY <2>2, <2>3, SoundFurther DEF Grows
  <2> QED
    BY <2>1, <2>3, <2>4, RoomUnused
<1>6. CASE v.kind = "blob"
  <2>1. WriteCounted(e, v) = WriteBlob(e, v) /\ v.text \in Seq(Int)
    BY <1>6 DEF WriteCounted, IsValue, Containers
  <2> QED
    BY <2>1, BlobSound
<1>7. CASE v.kind \in Containers
  <2>1. WriteCounted(e, v) = WriteChildCount(e, v)
    BY <1>7 DEF WriteCounted, Containers
  <2>2. v.items \in Seq(V)
    BY <1>7 DEF IsValue, Containers
  <2> QED
    BY <2>1, <2>2, LenProperties, ChildCountSound
<1> QED
  BY <1>1, <1>2, <1>3, <1>4, <1>5, <1>6, <1>7 DEF IsValue, Containers

\* write_value keeps the encoder sound.
LEMMA WriteValueSound ==
    ASSUME NEW e \in Encoders, NEW V, NEW v, IsValue(v, V), NEW depth
    PROVE  StaysSound(e, WriteValue(e, v, depth), 0, 0)
<1> DEFINE c == Counted(e, depth)  f == WriteValue(e, v, depth)
<1>1. c \in Encoders /\ StaysSound(e, c, 0, 1)
  BY CountedGrows, CountedSound
<1>2. f = WriteCounted(c, v)
  BY DEF WriteValue
<1> HIDE DEF c, f
<1>3. StaysSound(c, f, 1, 0) /\ (c.failed => f.failed)
  BY <1>1, <1>2, WriteCountedSound, WriteCountedAdvances DEF Advances, Grows
<1>4. StaysSound(e, f, 0, 0)
  BY <1>1, <1>3, SoundFurther
<1> QED
  BY <1>4 DEF f

\* The name of a member keeps the encoder sound.
LEMMA NameSound ==
    ASSUME NEW e \in Encoders, NEW value, NEW i, value.names[i] \in Seq(Int)
    PROVE  StaysSound(e, WriteName(e, value, i), 0, 0)
<1> DEFINE c == /\ value.names[i] # <<>>
                /\ \A j \in 1..(i - 1) : value.names[j] # value.names[i]
           f == Require(e, c)  text == value.names[i]  g == WriteString(f, text)
<1>1. WriteName(e, value, i) = g
  BY DEF WriteName
<1> HIDE DEF c, text
<1>2. f \in Encoders /\ (~f.failed => Keeps(e, f)) /\ text \in Seq(Int)
  BY RequireGrows, RequireKeeps DEF text
<1> HIDE DEF f
<1>3. StaysSound(e, f, 0, 0)
  BY <1>2, KeepsSound
<1>4. StaysSound(f, g, 0, 0) /\ Grows(f, g)
  BY <1>2, StringSound, WriteStringGrows
<1> HIDE DEF g
<1>5. StaysSound(e, g, 0, 0)
  BY <1>3, <1>4, SoundFurther DEF Grows
<1> QED
  BY <1>1, <1>5

\* A step of the writer keeps the encoder sound.
LEMMA SoundNext ==
    ASSUME NEW V, NEW root, Tree(V, root), NEW w, WriterInv(w, V, root)
    PROVE  StaysSound(w.encoder, WriteNext(w).encoder, 0, 0)
<1>1. CASE WriterStops(w)
  <2>1. WriteNext(w) = w
    BY <1>1, WriterSteps
  <2> QED
    BY <2>1 DEF StaysSound
<1>2. CASE WriterPops(w)
  <2>1. WriteNext(w) = [w EXCEPT !.open = Front(@)]
    BY <1>2, WriterSteps
  <2>2. WriteNext(w).encoder = w.encoder
    BY <2>1
  <2> QED
    BY <2>2 DEF StaysSound
<1>3. CASE WriterGoesOn(w)
  <2> DEFINE e == w.encoder  n == NamedEncoder(w)  f == WriteNext(w).encoder
  <2>1. /\ f = WriteValue(n, NextChild(w), Len(w.open) - 1) /\ n \in Encoders /\ Grows(n, f)
        /\ e \in Encoders
    BY <1>3, GoesOnEncoder DEF WriterInv
  <2>2. /\ IsValue(NextChild(w), V)
        /\ WriterTop(w).value.kind = "object" =>
              WriterTop(w).value.names[WriterTop(w).next] \in Seq(Int)
    BY <1>3, ChildIs
  <2>3. StaysSound(e, n, 0, 0)
    <3>1. CASE WriterTop(w).value.kind = "object"
      <4>1. n = WriteName(e, WriterTop(w).value, WriterTop(w).next)
        BY <3>1 DEF NamedEncoder
      <4> QED
        BY <2>1, <2>2, <3>1, <4>1, NameSound
    <3>2. CASE WriterTop(w).value.kind # "object"
      <4>1. n = e
        BY <3>2 DEF NamedEncoder
      <4> QED
        BY <4>1 DEF StaysSound
    <3> QED
      BY <3>1, <3>2
  <2> HIDE DEF e, n, f
  <2>4. StaysSound(n, f, 0, 0)
    BY <2>1, <2>2, WriteValueSound
  <2>5. StaysSound(e, f, 0, 0)
    BY <2>1, <2>3, <2>4, SoundFurther DEF Grows
  <2> QED
    BY <2>5 DEF e, f
<1> QED
  BY <1>1, <1>2, <1>3, WriterSteps

\* An encoder begins sound.
LEMMA SoundStarts ==
    ASSUME NEW version5 \in BOOLEAN
    PROVE  Sound(Encoder(version5), 0)
<1> DEFINE e == Encoder(version5)
<1>1. /\ e.strings = <<>> /\ e.string_bytes = 0 /\ e.lengths = <<>> /\ e.blobs = <<>>
      /\ e.objects = <<>> /\ e.doubles = <<>> /\ e.remaining = MaxCount
  BY DEF Encoder
<1> HIDE DEF e
<1>2. MaxCount \in Nat
  BY LimitsAssumption
<1>3. Len(<<>>) = 0 /\ \A i : i \notin 1..0
  OBVIOUS
<1>4. TextsAre(<<>>, 0)
  BY <1>2, <1>3, TableOfNone DEF TextsAre
<1>5. BlobsAre(<<>>, <<>>)
  BY <1>3, TotalOfNone DEF BlobsAre
<1>6. Room(<<>>, MaxCount, 0)
  BY <1>2, <1>3 DEF Room
<1> QED
  BY <1>1, <1>4, <1>5, <1>6 DEF Sound, e

\* An encoder that wrote a value without an error is sound.
LEMMA WrittenSound ==
    ASSUME NEW V, NEW root, Tree(V, root), NEW version5 \in BOOLEAN,
           ~Written(version5, root).encoder.failed
    PROVE  Sound(Written(version5, root).encoder, 0)
<1> DEFINE end == Written(version5, root)
<1>0. PICK w : WriterRun(w, version5, root)
  BY WriterRuns
<1>1. /\ w[0] = Writer(version5, root) /\ \A n \in 1..Steps : w[n] = WriteNext(w[n - 1])
      /\ end = w[Steps]
  BY <1>0 DEF WriterRun
<1>2. Steps \in Nat
  BY LimitsAssumption DEF Steps
<1> DEFINE Good(n) == WriterInv(w[n], V, root) /\ (~w[n].encoder.failed => Sound(w[n].encoder, 0))
           Valid == {n \in Nat : n <= Steps => Good(n)}
<1>3. 0 \in Valid
  <2>1. WriterInv(w[0], V, root)
    BY <1>1, WriterStarts
  <2>2. w[0].encoder = Encoder(version5)
    BY <1>1 DEF Writer
  <2> QED
    BY <2>1, <2>2, SoundStarts
<1>4. ASSUME NEW n \in Nat, n \in Valid PROVE n + 1 \in Valid
  <2> SUFFICES ASSUME n + 1 <= Steps PROVE Good(n + 1)
    BY <1>4
  <2>1. Good(n) /\ n + 1 \in 1..Steps /\ (n + 1) - 1 = n
    BY <1>2, <1>4
  <2>2. w[n + 1] = WriteNext(w[n])
    BY <1>1, <2>1
  <2>3. WriterInv(w[n + 1], V, root) /\ Grows(w[n].encoder, w[n + 1].encoder)
    BY <2>1, <2>2, WriterInvNext
  <2>4. StaysSound(w[n].encoder, w[n + 1].encoder, 0, 0)
    BY <2>1, <2>2, SoundNext
  <2> QED
    BY <2>1, <2>3, <2>4 DEF StaysSound, Grows
<1> HIDE DEF Valid
<1>5. Nat \subseteq Valid
  BY <1>3, <1>4, NumberInduction
<1>6. Good(Steps)
  BY <1>2, <1>5 DEF Valid
<1> QED
  BY <1>1, <1>6

-----------------------------------------------------------------------------
(* Cursors: what lies ahead of one, and what it takes. *)

\* Positions in a sequence of cells
Cursors == [cells : Seq(Cells), at : Int]

\* What is ahead of a cursor, to the end of its cells
Ahead(c, s) ==
    /\ c \in Cursors /\ c.at \in 0..Len(c.cells) /\ s \in Seq(Cells)
    /\ Len(s) = Len(c.cells) - c.at /\ \A i \in 1..Len(s) : s[i] = c.cells[c.at + i]

\* A cursor begins with all of its cells ahead.
LEMMA AheadStarts ==
    ASSUME NEW s \in Seq(Cells)
    PROVE  Ahead(Cursor(s), s) /\ Cursor(s).at = 0
<1>1. Cursor(s).cells = s /\ Cursor(s).at = 0 /\ Cursor(s) \in Cursors
  BY DEF Cursor, Cursors
<1>2. Len(s) \in Nat
  BY LenProperties
<1>3. \A i \in 1..Len(s) : 0 + i = i
  BY <1>2
<1> QED
  BY <1>1, <1>2, <1>3 DEF Ahead

\* What is ahead, as a part of the cells
LEMMA PartAhead ==
    ASSUME NEW c, NEW s, Ahead(c, s), NEW n \in 0..Len(s)
    PROVE  /\ Read(c, n) = [c EXCEPT !.at = c.at + n] /\ Read(c, n) \in Cursors
           /\ Read(c, n).at = c.at + n /\ Read(c, n).cells = c.cells
           /\ c.at + n \in 0..Len(c.cells)
           /\ Part(c, n) \in Seq(Cells) /\ Len(Part(c, n)) = n
           /\ \A i \in 1..n : Part(c, n)[i] = s[i]
<1> DEFINE t == c.cells  a == c.at  e == a + n
<1>1. /\ c \in Cursors /\ a \in 0..Len(t) /\ t \in Seq(Cells) /\ Len(t) \in Nat
      /\ Len(s) = Len(t) - a /\ \A i \in 1..Len(s) : s[i] = t[a + i]
  BY LenProperties DEF Ahead, Cursors
<1>2. e \in 0..Len(t) /\ a >= 0 /\ n >= 0 /\ e <= Len(t) /\ e \in Int
  BY <1>1
<1>3. Read(c, n) = [c EXCEPT !.at = e]
  BY <1>2 DEF Read
<1> HIDE DEF e
<1>4. Read(c, n) \in Cursors /\ Read(c, n).at = e /\ Read(c, n).cells = t
  BY <1>1, <1>2, <1>3 DEF Cursors
<1>5. Part(c, n) = SubSeq(t, a + 1, e)
  <2>1. ~(Read(c, n).at < 0)
    BY <1>2, <1>4
  <2> QED
    BY <2>1 DEF Part, e
<1> HIDE DEF t, a
<1>6. a + 1 \in Int /\ e = a + n /\ n \in Nat /\ \A i \in (a + 1)..e : t[i] \in Cells
  <2>1. e = a + n /\ n \in Nat
    BY <1>1 DEF e
  <2>2. \A i \in (a + 1)..e : i \in 1..Len(t)
    BY <1>1, <1>2
  <2> QED
    BY <1>1, <2>1, <2>2, ElementOfSeq
<1>7. /\ SubSeq(t, a + 1, e) \in Seq(Cells)
      /\ Len(SubSeq(t, a + 1, e)) = IF a + 1 <= e THEN e - (a + 1) + 1 ELSE 0
      /\ \A i \in 1..(e - (a + 1) + 1) : SubSeq(t, a + 1, e)[i] = t[(a + 1) + i - 1]
  BY <1>2, <1>6, SubSeqProperties
<1>8. e - (a + 1) + 1 = n /\ (a + 1 <= e \/ n = 0) /\ \A i \in 1..n : (a + 1) + i - 1 = a + i
  BY <1>1, <1>6
<1>9. \A i \in 1..n : i \in 1..Len(s)
  BY <1>1, <1>6
<1>10. Len(Part(c, n)) = n
  BY <1>5, <1>7, <1>8
<1>11. \A i \in 1..n : Part(c, n)[i] = s[i]
  BY <1>1, <1>5, <1>7, <1>8, <1>9
<1> QED
  BY <1>1, <1>2, <1>3, <1>4, <1>5, <1>7, <1>10, <1>11 DEF e, a, t

\* Two parts ahead: the first is read, and the second is ahead behind it.
LEMMA AheadTaken ==
    ASSUME NEW c, NEW a \in Seq(Cells), NEW b \in Seq(Cells), Ahead(c, a \o b),
           NEW n, n = Len(a)
    PROVE  /\ Part(c, n) = a /\ Ahead(Read(c, n), b) /\ Read(c, n).at = c.at + n
           /\ c.at \in Nat /\ n \in Nat /\ Read(c, n).at >= 0
<1> DEFINE s == a \o b  r == Read(c, n)  p == Part(c, n)  m == Len(b)
<1>1. /\ Len(s) = Len(a) + Len(b)
      /\ \A i \in 1..(Len(a) + Len(b)) : s[i] = IF i <= Len(a) THEN a[i] ELSE b[i - Len(a)]
  BY ConcatProperties
<1>2. n \in Nat /\ m \in Nat
  BY LenProperties
<1>3. n \in 0..Len(s)
  BY <1>1, <1>2
<1>4. Ahead(c, s)
  OBVIOUS
<1> HIDE DEF s
<1>5. /\ r \in Cursors /\ r.at = c.at + n /\ r.cells = c.cells /\ c.at + n \in 0..Len(c.cells)
      /\ p \in Seq(Cells) /\ Len(p) = n /\ \A i \in 1..n : p[i] = s[i]
  BY <1>3, <1>4, PartAhead
<1>6. /\ c.at \in 0..Len(c.cells) /\ Len(s) = Len(c.cells) - c.at
      /\ \A i \in 1..Len(s) : s[i] = c.cells[c.at + i]
      /\ Len(c.cells) \in Nat
  BY <1>4, LenProperties DEF Ahead, Cursors
<1> HIDE DEF r, p, m
<1>7. p = a
  <2>1. \A i \in 1..n : i \in 1..(Len(a) + Len(b)) /\ i <= Len(a)
    BY <1>2 DEF m
  <2>2. \A i \in 1..Len(p) : p[i] = a[i]
    BY <1>1, <1>5, <2>1
  <2> QED
    BY <1>5, <2>2, SeqEqual
<1>8. m = Len(r.cells) - r.at
  <2>1. Len(s) = n + m
    BY <1>1 DEF m
  <2> DEFINE k == c.at  l == Len(c.cells)
  <2>2. k \in Int /\ l \in Int /\ n + m = l - k /\ r.at = k + n /\ Len(r.cells) = l
    BY <1>5, <1>6, <2>1
  <2> HIDE DEF k, l
  <2>3. m = l - (k + n)
    BY <1>2, <2>2
  <2> QED
    BY <2>2, <2>3
<1>9. ASSUME NEW i \in 1..m PROVE b[i] = r.cells[r.at + i]
  <2>1. n + i \in 1..(n + m) /\ ~(n + i <= n) /\ (n + i) - n = i
    BY <1>2
  <2> DEFINE k == c.at
  <2>4. k \in Int
    BY <1>6
  <2> HIDE DEF k
  <2>5. k + (n + i) = (k + n) + i
    BY <1>2, <2>4
  <2>2. s[n + i] = b[i]
    BY <1>1, <2>1 DEF m
  <2>3. n + i \in 1..Len(s)
    BY <1>1, <2>1 DEF m
  <2> QED
    BY <1>5, <1>6, <2>2, <2>3, <2>5 DEF k
<1>10. Ahead(r, b)
  BY <1>5, <1>8, <1>9 DEF Ahead, m
<1>11. c.at \in Nat /\ r.at >= 0
  BY <1>2, <1>5, <1>6
<1> QED
  BY <1>2, <1>5, <1>7, <1>10, <1>11 DEF r, p

\* All that is ahead
LEMMA AheadAll ==
    ASSUME NEW c, NEW s, Ahead(c, s)
    PROVE  /\ Remaining(c) = Len(s) /\ Part(c, Remaining(c)) = s /\ c.at >= 0 /\ c.at \in Nat
           /\ s = <<>> => Finished(c)
<1>1. /\ c.at \in 0..Len(c.cells) /\ s \in Seq(Cells) /\ Len(c.cells) \in Nat
      /\ Len(s) = Len(c.cells) - c.at
  BY LenProperties DEF Ahead, Cursors
<1>2. c.at >= 0 /\ ~(c.at < 0) /\ c.at \in Nat
  BY <1>1
<1>3. Remaining(c) = Len(s)
  BY <1>1, <1>2 DEF Remaining
<1>4. s \o <<>> = s /\ <<>> \in Seq(Cells)
  BY <1>1, ConcatEmptySeq, EmptySeq
<1>5. Part(c, Len(s)) = s
  BY <1>1, <1>4, AheadTaken
<1>6. s = <<>> => Len(s) = 0
  OBVIOUS
<1> QED
  BY <1>2, <1>3, <1>5, <1>6 DEF Finished

\* Nothing is read.
LEMMA NothingTaken ==
    ASSUME NEW c, NEW s, Ahead(c, s)
    PROVE  Part(c, 0) = <<>> /\ Ahead(Read(c, 0), s) /\ Read(c, 0).at = c.at
<1>1. s \in Seq(Cells)
  BY DEF Ahead
<1>2. <<>> \o s = s /\ <<>> \in Seq(Cells) /\ Len(<<>>) = 0
  BY <1>1, ConcatEmptySeq, EmptySeq
<1> DEFINE z == 0
<1>3. z = Len(<<>>) /\ Ahead(c, <<>> \o s)
  BY <1>2
<1> HIDE DEF z
<1>4. Part(c, z) = <<>> /\ Ahead(Read(c, z), s) /\ Read(c, z).at = c.at + z /\ c.at \in Nat
  BY <1>1, <1>2, <1>3, AheadTaken
<1>5. c.at + z = c.at
  BY <1>4 DEF z
<1> QED
  BY <1>4, <1>5 DEF z

\* One number is a stream of one.
LEMMA NumberIs ==
    ASSUME NEW x \in Int
    PROVE  Number(4, x) = Numbers(4, <<x>>)
<1> DEFINE a == <<<<4, x>>>>  b == [i \in 1..3 |-> <<0, 0>>]  c == Numbers(4, <<x>>)
<1>1. Number(4, x) = a \o b
  <2>1. 4 - 1 = 3
    OBVIOUS
  <2> QED
    BY <2>1 DEF Number
<1>2. a \in Seq(Cells) /\ b \in Seq(Cells) /\ Len(a) = 1 /\ Len(b) = 3 /\ a[1] = <<4, x>>
      /\ \A i \in 1..3 : b[i] = <<0, 0>>
  BY DEF Cells
<1>3. <<x>> \in Seq(Int) /\ Len(<<x>>) = 1 /\ <<x>>[1] = x
  OBVIOUS
<1>4. /\ c \in Seq(Cells) /\ Len(c) = 4 * 1
      /\ \A i \in 1..(4 * 1) : c[i] = IF i % 4 = 1 THEN <<4, <<x>>[i \div 4 + 1]>> ELSE <<0, 0>>
  BY <1>3, NumbersAre
<1> HIDE DEF a, b, c
<1>5. /\ a \o b \in Seq(Cells) /\ Len(a \o b) = Len(a) + Len(b)
      /\ \A i \in 1..(Len(a) + Len(b)) : (a \o b)[i] = IF i <= Len(a) THEN a[i] ELSE b[i - Len(a)]
  BY <1>2, ConcatProperties
<1>6. Len(a) + Len(b) = 4 /\ 4 * 1 = 4
  BY <1>2
<1>7. ASSUME NEW i \in 1..4 PROVE (a \o b)[i] = c[i]
  <2>1. CASE i = 1
    <3>1. i % 4 = 1 /\ i \div 4 + 1 = 1 /\ i <= 1
      BY <2>1
    <3> QED
      BY <1>2, <1>3, <1>4, <1>5, <1>6, <2>1, <3>1, ZenonT(60)
  <2>2. CASE i # 1
    <3>1. i % 4 # 1 /\ i - 1 \in 1..3 /\ ~(i <= 1)
      BY <2>2
    <3> QED
      BY <1>2, <1>4, <1>5, <1>6, <3>1
  <2> QED
    BY <2>1, <2>2
<1>8. a \o b = c
  <2> DEFINE d == a \o b
  <2>1. /\ d \in Seq(Cells) /\ c \in Seq(Cells) /\ Len(d) = 4 /\ Len(c) = 4
        /\ \A i \in 1..4 : d[i] = c[i]
    BY <1>4, <1>5, <1>6, <1>7
  <2> HIDE DEF d
  <2>2. d = c
    BY <2>1, SeqEqual
  <2> QED
    BY <2>2 DEF d
<1> QED
  BY <1>1, <1>8 DEF c

\* The cells of a stream of numbers hold these numbers.
LEMMA NumbersFound ==
    ASSUME NEW n \in Seq(Int), NEW rest
    PROVE  NumbersIn(Numbers(4, n), 4, Len(n), rest) = [numbers |-> n, cursor |-> rest]
<1> DEFINE m == Len(n)  s == Numbers(4, n)
<1>1. /\ Len(s) = 4 * m
      /\ \A i \in 1..(4 * m) : s[i] = IF i % 4 = 1 THEN <<4, n[i \div 4 + 1]>> ELSE <<0, 0>>
  BY NumbersAre
<1>2. m \in Nat
  BY LenProperties
<1> HIDE DEF m, s
<1>3. ASSUME NEW i \in 1..m PROVE s[4 * (i - 1) + 1] = <<4, n[i]>>
  <2> DEFINE k == 4 * (i - 1) + 1
  <2>1. k \in 1..(4 * m) /\ k % 4 = 1 /\ k \div 4 + 1 = i
    BY <1>2
  <2> HIDE DEF k
  <2>2. s[k] = <<4, n[i]>>
    BY <1>1, <2>1
  <2> QED
    BY <2>2 DEF k
<1>4. \A i \in 1..m : s[4 * (i - 1) + 1][1] = 4 /\ s[4 * (i - 1) + 1][2] = n[i]
  BY <1>3
<1>5. [i \in 1..m |-> s[4 * (i - 1) + 1][2]] = n
  <2>1. n = [i \in 1..m |-> n[i]]
    BY DEF m
  <2> QED
    BY <1>4, <2>1
<1>6. NumbersIn(s, 4, m, rest) =
        [numbers |-> [i \in 1..m |-> s[4 * (i - 1) + 1][2]], cursor |-> rest]
  BY <1>1, <1>4 DEF NumbersIn
<1> QED
  BY <1>5, <1>6 DEF m, s

\* Numbers ahead are read.
LEMMA NumbersTaken ==
    ASSUME NEW n \in Seq(Int), NEW b \in Seq(Cells), NEW c, Ahead(c, Numbers(4, n) \o b)
    PROVE  /\ ReadNumbers(c, 4, Len(n)).numbers = n
           /\ Ahead(ReadNumbers(c, 4, Len(n)).cursor, b)
<1> DEFINE s == Numbers(4, n)  k == 4 * Len(n)
<1>1. s \in Seq(Cells) /\ k = Len(s)
  BY NumbersAre
<1> HIDE DEF s, k
<1>2. Part(c, k) = s /\ Ahead(Read(c, k), b)
  BY <1>1, AheadTaken DEF s
<1> DEFINE r == Read(c, k)
<1> HIDE DEF r
<1>3. NumbersIn(s, 4, Len(n), r) = [numbers |-> n, cursor |-> r]
  BY NumbersFound DEF s
<1>4. ReadNumbers(c, 4, Len(n)) = NumbersIn(s, 4, Len(n), r)
  BY <1>2 DEF ReadNumbers, k, r
<1> QED
  BY <1>2, <1>3, <1>4 DEF r

\* No numbers are read.
LEMMA NoNumbersTaken ==
    ASSUME NEW c, NEW s, Ahead(c, s), NEW w \in Int
    PROVE  ReadNumbers(c, w, 0).numbers = <<>> /\ Ahead(ReadNumbers(c, w, 0).cursor, s)
<1>1. w * 0 = 0
  OBVIOUS
<1>2. Part(c, 0) = <<>> /\ Ahead(Read(c, 0), s)
  BY NothingTaken
<1>3. ReadNumbers(c, w, 0) = NumbersIn(<<>>, w, 0, Read(c, 0))
  BY <1>1, <1>2 DEF ReadNumbers
<1> DEFINE r == Read(c, 0)
<1> HIDE DEF r
<1>4. NumbersIn(<<>>, w, 0, r) = [numbers |-> <<>>, cursor |-> r]
  <2>1. Len(<<>>) = 0 /\ \A i : i \notin 1..0
    OBVIOUS
  <2>2. [i \in 1..0 |-> <<>>[w * (i - 1) + 1][2]] = <<>>
    OBVIOUS
  <2> QED
    BY <1>1, <2>1, <2>2 DEF NumbersIn
<1> QED
  BY <1>2, <1>3, <1>4 DEF r

\* A number ahead is read.
LEMMA NumberIsTaken ==
    ASSUME NEW x \in Int, NEW b \in Seq(Cells), NEW c, Ahead(c, Number(4, x) \o b)
    PROVE  /\ ReadNumber(c, 4).number = x /\ Ahead(ReadNumber(c, 4).cursor, b)
<1> DEFINE n == <<x>>
<1>1. n \in Seq(Int) /\ Len(n) = 1 /\ n # <<>> /\ n[1] = x
  OBVIOUS
<1>2. Ahead(c, Numbers(4, n) \o b)
  BY NumberIs
<1> HIDE DEF n
<1> DEFINE r == ReadNumbers(c, 4, 1)
<1>3. r.numbers = n /\ Ahead(r.cursor, b)
  BY <1>1, <1>2, NumbersTaken
<1>4. ReadNumber(c, 4) = FirstNumber(r)
  BY DEF ReadNumber
<1> HIDE DEF r
<1>5. FirstNumber(r).number = x /\ FirstNumber(r).cursor = r.cursor
  BY <1>1, <1>3 DEF FirstNumber
<1> QED
  BY <1>3, <1>4, <1>5

\* A trailer ahead is read.
LEMMA TrailerTaken ==
    ASSUME NEW b \in Seq(Cells), NEW c, Ahead(c, Number(4, TRAILER) \o b)
    PROVE  Ahead(ReadTrailer(c, TRAILER), b)
<1>1. TRAILER \in Int
  BY DEF TRAILER
<1>2. ReadNumber(c, 4).number = TRAILER /\ Ahead(ReadNumber(c, 4).cursor, b)
  BY <1>1, NumberIsTaken
<1> QED
  BY <1>2 DEF ReadTrailer, If

\* The first number of a stream is read, and the others are left.
LEMMA FirstIsRead ==
    ASSUME NEW x \in Int, NEW t \in Seq(Int)
    PROVE  LET s == Numbers(4, <<x>> \o t)
           IN  ReadNumber(Cursor(s), 4).number = x /\ SubSeq(s, 5, Len(s)) = Numbers(4, t)
<1> DEFINE n == <<x>> \o t  s == Numbers(4, n)
<1>1. <<x>> \in Seq(Int) /\ Len(<<x>>) = 1 /\ <<x>>[1] = x
  OBVIOUS
<1>2. /\ n \in Seq(Int) /\ Len(n) = 1 + Len(t) /\ n[1] = x /\ Len(t) \in Nat
      /\ Continues(<<x>>, n) /\ Left(<<x>>, n) = t
  <2> DEFINE a == <<x>>
  <2>1. a \in Seq(Int) /\ Len(a) = 1 /\ a[1] = x
    OBVIOUS
  <2> HIDE DEF a
  <2>2. /\ a \o t \in Seq(Int) /\ Len(a \o t) = Len(a) + Len(t)
        /\ \A i \in 1..(Len(a) + Len(t)) : (a \o t)[i] = IF i <= Len(a) THEN a[i] ELSE t[i - Len(a)]
    BY <2>1, ConcatProperties
  <2>3. Len(t) \in Nat
    BY LenProperties
  <2>4. (a \o t)[1] = x
    BY <2>1, <2>2, <2>3
  <2>5. Continues(a, a \o t)
    BY <2>1, ContinuesConcat
  <2> DEFINE u == a \o t
  <2> HIDE DEF u
  <2>6. /\ Left(a, u) \in Seq(Int) /\ Len(Left(a, u)) = Len(u) - Len(a)
        /\ \A i \in 1..(Len(u) - Len(a)) : Left(a, u)[i] = u[Len(a) + i]
    BY <2>1, <2>2, <2>5, LeftIs, ZenonT(60) DEF u
  <2>7. Len(u) - Len(a) = Len(t)
    BY <2>1, <2>2, <2>3 DEF u
  <2>8. \A i \in 1..Len(t) : Left(a, u)[i] = t[i]
    <3> SUFFICES ASSUME NEW i \in 1..Len(t) PROVE Left(a, u)[i] = t[i]
      OBVIOUS
    <3>1. 1 + i \in 1..(1 + Len(t)) /\ ~(1 + i <= 1) /\ (1 + i) - 1 = i
      BY <2>3
    <3> QED
      BY <2>1, <2>2, <2>6, <2>7, <3>1, ZenonT(60) DEF u
  <2>9. Left(a, u) = t
    BY <2>6, <2>7, <2>8, SeqEqual
  <2> QED
    BY <2>1, <2>2, <2>3, <2>4, <2>5, <2>9 DEF a, u
<1> HIDE DEF n
<1>3. s \in Seq(Cells) /\ Len(s) = 4 * Len(n)
  BY <1>2, NumbersAre
<1>4. HasNumber(s, 4) /\ s[1] = <<4, x>> /\ Skip(s, 4) = Numbers(4, t)
  <2> DEFINE e == <<>>
  <2>1. e \in Seq(Int) /\ Append(e, x) = <<x>>
    OBVIOUS
  <2>2. Left(e, n) = n
    BY <1>2, LeftOfNothing
  <2> HIDE DEF e
  <2>3. /\ HasNumber(Numbers(4, Left(e, n)), 4) /\ Numbers(4, Left(e, n))[1] = <<4, x>>
        /\ Skip(Numbers(4, Left(e, n)), 4) = Numbers(4, Left(Append(e, x), n))
    BY <1>2, <2>1, NumberTaken, ZenonT(60)
  <2> QED
    BY <1>2, <2>1, <2>2, <2>3
<1> HIDE DEF s
<1>5. SubSeq(s, 5, Len(s)) = Numbers(4, t)
  <2>1. 4 + 1 = 5
    OBVIOUS
  <2> QED
    BY <1>4, <2>1 DEF Skip
<1>6. Ahead(Cursor(s), s) /\ 4 \in 0..Len(s)
  BY <1>2, <1>3, AheadStarts
<1> DEFINE p == Part(Cursor(s), 4)
<1>7. Len(p) = 4 /\ p[1] = <<4, x>>
  <2> DEFINE c == Cursor(s)
  <2> HIDE DEF c
  <2>1. Ahead(c, s)
    BY <1>6 DEF c
  <2> DEFINE k == 4
  <2>4. k \in 0..Len(s)
    BY <1>6
  <2> HIDE DEF k
  <2>2. Len(Part(c, k)) = k /\ \A i \in 1..k : Part(c, k)[i] = s[i]
    BY <2>1, <2>4, PartAhead
  <2>3. 1 \in 1..4
    OBVIOUS
  <2> QED
    BY <1>4, <2>2, <2>3 DEF c, k
<1>8. ReadNumber(Cursor(s), 4).number = x
  <2>1. ReadNumbers(Cursor(s), 4, 1) = NumbersIn(p, 4, 1, Read(Cursor(s), 4))
    BY DEF ReadNumbers
  <2> DEFINE r == Read(Cursor(s), 4)
  <2> HIDE DEF p, r
  <2>2. NumbersIn(p, 4, 1, r).numbers = [i \in 1..1 |-> p[4 * (i - 1) + 1][2]]
    <3>1. 4 * 1 = 4 /\ \A i \in 1..1 : 4 * (i - 1) + 1 = 1
      OBVIOUS
    <3>2. \A i \in 1..1 : p[4 * (i - 1) + 1][1] = 4
      BY <1>7, <3>1
    <3> QED
      BY <1>7, <3>1, <3>2 DEF NumbersIn
  <2> DEFINE q == [i \in 1..1 |-> p[4 * (i - 1) + 1][2]]
  <2>3. q[1] = x
    <3>1. q[1] = p[4 * (1 - 1) + 1][2] /\ 4 * (1 - 1) + 1 = 1
      OBVIOUS
    <3> QED
      BY <1>7, <3>1
  <2>4. q # <<>>
    OBVIOUS
  <2> HIDE DEF q
  <2>5. FirstNumber(NumbersIn(p, 4, 1, r)).number = x
    BY <2>2, <2>3, <2>4 DEF FirstNumber, q
  <2> QED
    BY <2>1, <2>5 DEF ReadNumber, r
<1> QED
  BY <1>5, <1>8 DEF s, n

\* Where the zero behind a text lies
LEMMA ZeroFound ==
    ASSUME NEW t \in Seq(Int), ~Contains(t, 0), NEW b \in Seq(Cells), NEW c,
           Ahead(c, TextCells(t) \o b)
    PROVE  SelectInSubSeq(c.cells, c.at + 1, Len(c.cells), LAMBDA x : x = Byte(0))
              = c.at + Len(t) + 1
<1> DEFINE m == Len(t)  a == TextCells(t)  s == a \o b  k == c.at  l == Len(c.cells)
           I == {i \in (k + 1)..l : c.cells[i] = <<1, 0>>}  e == k + m + 1
<1>1. /\ a \in Seq(Cells) /\ Len(a) = m + 1 /\ (\A i \in 1..m : a[i] = <<1, t[i]>>)
      /\ a[m + 1] = <<1, 0>> /\ m \in Nat /\ Len(b) \in Nat
  BY TextCellsAre, LenProperties
<1> HIDE DEF a
<1>2. Len(s) = (m + 1) + Len(b) /\ \A i \in 1..(m + 1) : s[i] = a[i]
  <2>1. /\ Len(s) = Len(a) + Len(b)
        /\ \A i \in 1..(Len(a) + Len(b)) : s[i] = IF i <= Len(a) THEN a[i] ELSE b[i - Len(a)]
    BY <1>1, ConcatProperties
  <2> QED
    BY <1>1, <2>1
<1>3. k \in 0..l /\ l \in Nat /\ Len(s) = l - k /\ \A i \in 1..Len(s) : s[i] = c.cells[k + i]
  BY LenProperties DEF Ahead, Cursors, a
<1> HIDE DEF s, k, l, m
<1>4. e \in (k + 1)..l /\ c.cells[e] = <<1, 0>>
  <2>1. m + 1 \in 1..(m + 1) /\ m + 1 \in 1..Len(s) /\ k + (m + 1) = e
    BY <1>1, <1>2, <1>3
  <2>2. c.cells[k + (m + 1)] = <<1, 0>>
    BY <1>1, <1>2, <1>3, <2>1
  <2> QED
    BY <1>1, <1>2, <1>3, <2>1, <2>2
<1>5. ASSUME NEW y \in I PROVE e <= y
  <2> SUFFICES ASSUME y < e PROVE FALSE
    BY <1>1, <1>3
  <2>1. y - k \in 1..m /\ y - k \in 1..(m + 1) /\ y - k \in 1..Len(s) /\ k + (y - k) = y
    BY <1>1, <1>2, <1>3
  <2> DEFINE i == y - k
  <2> HIDE DEF i
  <2>2. c.cells[k + i] = <<1, t[i]>>
    BY <1>1, <1>2, <1>3, <2>1 DEF i
  <2>3. c.cells[k + i] = <<1, 0>>
    BY <2>1 DEF i
  <2>4. t[i] = 0
    BY <2>2, <2>3
  <2> QED
    BY <2>1, <2>4 DEF Contains, i, m
<1>6. e \in I /\ I # {}
  BY <1>4
<1>7. e \in Int /\ \A y \in I : y \in Int
  BY <1>1, <1>3
<1>8. SelectInSubSeq(c.cells, k + 1, l, LAMBDA x : x = Byte(0)) = Min(I)
  BY <1>6 DEF SelectInSubSeq, Byte
<1> HIDE DEF I, e
<1>9. Min(I) = e
  <2>1. Min(I) \in I /\ \A y \in I : Min(I) <= y
    BY <1>5, <1>6 DEF Min
  <2>2. e <= Min(I) /\ Min(I) <= e
    BY <1>5, <1>6, <2>1
  <2> QED
    BY <1>7, <2>1, <2>2
<1> QED
  BY <1>8, <1>9 DEF e, k, l, m

\* A text of the table is read.
LEMMA TextTaken ==
    ASSUME NEW t \in Seq(Int), ~Contains(t, 0), NEW b \in Seq(Cells), NEW r,
           Ahead(r.cursor, TextCells(t) \o b)
    PROVE  /\ ReadNextString(r).strings = Append(r.strings, t)
           /\ Ahead(ReadNextString(r).cursor, b)
<1> DEFINE c == r.cursor  m == Len(t)  a == Bytes(t)  z == Zeros(1)
<1>1. /\ a \in Seq(Cells) /\ Len(a) = m /\ ByteValues(a) = t /\ m \in Nat
      /\ TextCells(t) \in Seq(Cells) /\ Len(TextCells(t)) = m + 1
  BY BytesAre, TextCellsAre, LenProperties
<1>2. z \in Seq(Cells) /\ z \o b \in Seq(Cells)
  <2>1. 1 \in Nat
    OBVIOUS
  <2> QED
    BY <2>1, ZerosAre, ConcatProperties
<1>3. TextCells(t) \o b = a \o (z \o b)
  <2>1. a \in Seq(Cells) /\ z \in Seq(Cells) /\ b \in Seq(Cells)
    BY <1>1, <1>2
  <2>2. (a \o z) \o b = a \o (z \o b)
    <3> HIDE DEF a, z
    <3> QED
      BY ONLY <2>1, ConcatAssociative, SMTT(60)
  <2> QED
    BY <2>2 DEF TextCells
<1>4. SelectInSubSeq(c.cells, c.at + 1, Len(c.cells), LAMBDA x : x = Byte(0)) = c.at + m + 1
  BY ZeroFound
<1>5. c.at \in Nat
  BY AheadAll
<1> HIDE DEF a, z, c, m
<1>6. Part(c, m) = a
  <2>1. Ahead(c, a \o (z \o b))
    BY <1>3 DEF c
  <2> DEFINE q == z \o b
  <2> HIDE DEF q
  <2> QED
    BY <1>1, <1>2, <2>1, AheadTaken, ZenonT(60) DEF q
<1>7. Ahead(Read(c, m + 1), b)
  BY <1>1, AheadTaken DEF c
<1>8. (c.at + m + 1) - c.at - 1 = m /\ ~(c.at < 0) /\ c.at + m + 1 # 0
  BY <1>1, <1>5
<1>9. ReadNextString(r) = AddString(r, Part(c, m), m)
  BY <1>4, <1>8 DEF ReadNextString, c
<1>10. AddString(r, a, m) = [strings |-> Append(r.strings, t), cursor |-> Read(c, m + 1)]
  BY <1>1 DEF AddString, c
<1> QED
  BY <1>6, <1>7, <1>9, <1>10

\* These texts were read, and this is ahead
TextsRead(r, s, b) == r.strings = s /\ Ahead(r.cursor, b)
\* No text holds the byte that ends a text
NoZeros(s) == \A i \in 1..Len(s) : ~Contains(s[i], 0)
\* The texts s are read from the cursor c, whatever follows their table
AllTextsRead(c, s) ==
    \A b \in Seq(Cells) : NoZeros(s) /\ Ahead(c, TableOf(s) \o b) =>
        TextsRead(ReadStrings(c, Len(s)), s, b)

\* The texts of a table are read.
LEMMA TextsTaken ==
    ASSUME NEW c, NEW s \in Seq(Seq(Int))
    PROVE  AllTextsRead(c, s)
<1> DEFINE P == {t \in Seq(Seq(Int)) : AllTextsRead(c, t)}
<1>1. <<>> \in P
  <2> SUFFICES ASSUME NEW b \in Seq(Cells), Ahead(c, <<>> \o b)
               PROVE  TextsRead(ReadStrings(c, 0), <<>>, b)
    <3>1. Len(<<>>) = 0 /\ <<>> \in Seq(Seq(Int))
      OBVIOUS
    <3> QED
      BY <3>1, TableOfNone DEF AllTextsRead
  <2>1. <<>> \o b = b
    BY ConcatEmptySeq
  <2>2. 0 \in Nat
    OBVIOUS
  <2>3. PICK f : StringsRun(f, c, 0)
    BY <2>2, StringsAreRun
  <2>4. ReadStrings(c, 0) = [strings |-> <<>>, cursor |-> c]
    BY <2>3 DEF StringsRun
  <2> QED
    BY <2>1, <2>4 DEF TextsRead
<1>2. ASSUME NEW t \in Seq(Seq(Int)), NEW x \in Seq(Int), t \in P PROVE Append(t, x) \in P
  <2> DEFINE u == Append(t, x)  m == Len(t)
  <2>1. /\ u \in Seq(Seq(Int)) /\ Len(u) = m + 1 /\ u[m + 1] = x /\ m \in Nat
        /\ \A i \in 1..m : u[i] = t[i]
    BY AppendProperties, LenProperties
  <2>2. /\ TableOf(t) \in Seq(Cells) /\ TextCells(x) \in Seq(Cells)
        /\ TableOf(u) = TableOf(t) \o TextCells(x)
    BY TableIs, TextCellsAre, TableAppend
  <2> HIDE DEF u
  <2> SUFFICES ASSUME NEW b \in Seq(Cells), NoZeros(u), Ahead(c, TableOf(u) \o b)
               PROVE  TextsRead(ReadStrings(c, Len(u)), u, b)
    BY <2>1 DEF AllTextsRead, u
  <2> DEFINE q == TextCells(x) \o b  r == ReadStrings(c, m)
  <2>3. q \in Seq(Cells) /\ TableOf(u) \o b = TableOf(t) \o q
    <3> DEFINE y == TextCells(x)  z == TableOf(t)
    <3>1. y \in Seq(Cells) /\ z \in Seq(Cells) /\ TableOf(u) = z \o y
      BY <2>2
    <3> HIDE DEF y, z
    <3>2. y \o b \in Seq(Cells)
      BY <3>1, ConcatProperties
    <3>3. (z \o y) \o b = z \o (y \o b)
      <4>1. b \in Seq(Cells)
        OBVIOUS
      <4> QED
        BY ONLY <3>1, <4>1, ConcatAssociative, SMTT(60)
    <3> QED
      BY <3>1, <3>2, <3>3 DEF y, z
  <2>4. ~Contains(x, 0) /\ NoZeros(t)
    <3>1. m + 1 \in 1..Len(u) /\ \A i \in 1..m : i \in 1..Len(u)
      BY <2>1
    <3> QED
      BY <2>1, <3>1 DEF NoZeros
  <2>5. TextsRead(r, t, q)
    BY <1>2, <2>3, <2>4 DEF AllTextsRead
  <2>6. ReadStrings(c, m + 1) = ReadNextString(r)
    BY <2>1, ReadStringsNext
  <2> HIDE DEF r
  <2>7. ReadNextString(r).strings = Append(r.strings, x) /\ Ahead(ReadNextString(r).cursor, b)
    BY <2>4, <2>5, TextTaken DEF TextsRead
  <2> QED
    BY <2>1, <2>5, <2>6, <2>7 DEF TextsRead, u
<1> HIDE DEF P
<1>3. Seq(Seq(Int)) \subseteq P
  BY <1>1, <1>2, SequenceInduction
<1> QED
  BY <1>3 DEF P

\* A sound encoder's table is read.
LEMMA TableTaken ==
    ASSUME NEW e \in Encoders, Sound(e, 0), NEW b \in Seq(Cells), NEW c,
           Ahead(c, StringTable(e) \o b)
    PROVE  /\ ReadTable(Len(e.strings), c).strings = e.strings
           /\ Ahead(ReadTable(Len(e.strings), c).cursor, b)
<1>1. StringTable(e) = TableOf(e.strings)
  BY DEF StringTable, TableOf, TextCells
<1>2. e.strings \in Seq(Seq(Int)) /\ NoZeros(e.strings) /\ Len(e.strings) <= MaxCount
  BY DEF Encoders, Sound, TextsAre, NoZeros
<1>3. TextsRead(ReadStrings(c, Len(e.strings)), e.strings, b)
  BY <1>1, <1>2, TextsTaken DEF AllTextsRead
<1>4. Len(e.strings) \in Nat
  BY <1>2, LenProperties
<1> DEFINE n == Len(e.strings)
<1> HIDE DEF n
<1>5. IsCount(n)
  BY <1>2, <1>4, LimitsAssumption DEF IsCount, IsLength, n
<1>6. ReadTable(n, c) = ReadStrings(c, n)
  BY <1>5 DEF ReadTable
<1> QED
  BY <1>3, <1>6 DEF TextsRead, n

-----------------------------------------------------------------------------
(* The streams of a buffer. *)

\* The padding before a stream: none is there where none is looked for
Aligned(at, count, width, force, p) ==
    IF count > 0 \/ force THEN Padding(at, width) = Len(p) ELSE p = <<>>

\* A stream of a buffer, and what follows it
StreamOf(c, stream, counts, force) ==
    Part(StreamStart(c, stream, counts, force), Width[stream] * counts[stream])
Behind(c, stream, counts, force) ==
    Read(StreamStart(c, stream, counts, force), Width[stream] * counts[stream])

\* The cursor c found these cells, b is ahead of it, and so far it came
IsTaken(cells, c, a, b, at) == cells = a /\ Ahead(c, b) /\ c.at = at

\* A stream ahead is read, behind its padding.
LEMMA StreamTaken ==
    ASSUME NEW p \in Seq(Cells), NEW a \in Seq(Cells), NEW b \in Seq(Cells),
           NEW c, Ahead(c, p \o (a \o b)), NEW counts, NEW stream, NEW force,
           Aligned(c.at, counts[stream], Width[stream], force, p),
           Len(a) = Width[stream] * counts[stream]
    PROVE  IsTaken(StreamOf(c, stream, counts, force), Behind(c, stream, counts, force), a, b,
                 c.at + Len(p) + Len(a))
<1> DEFINE w == Width[stream]  n == counts[stream]  s == StreamStart(c, stream, counts, force)
           size == w * n  q == a \o b
<1>1. q \in Seq(Cells) /\ Len(p) \in Nat /\ Len(a) \in Nat
  BY ConcatProperties, LenProperties
<1> HIDE DEF q
<1>2. Ahead(s, q) /\ s.at = c.at + Len(p) /\ c.at \in Nat
  <2>0. Ahead(c, p \o q)
    BY DEF q
  <2>1. CASE n > 0 \/ force
    <3>1. s = Read(c, Len(p))
      BY <2>1 DEF StreamStart, Align, Aligned
    <3> HIDE DEF s
    <3> QED
      BY <1>1, <2>0, <3>1, AheadTaken
  <2>2. CASE ~(n > 0 \/ force)
    <3>1. s = c /\ p = <<>>
      BY <2>2 DEF StreamStart, Aligned
    <3>2. <<>> \o q = q /\ Len(<<>>) = 0
      BY <1>1, ConcatEmptySeq
    <3> HIDE DEF s
    <3>3. Ahead(c, q)
      BY <2>0, <3>1, <3>2
    <3>4. c.at \in Nat
      BY <3>3, AheadAll
    <3>5. c.at = c.at + 0
      BY <3>4
    <3> QED
      BY <3>1, <3>2, <3>3, <3>4, <3>5
  <2> QED
    BY <2>1, <2>2
<1>3. Len(a) = size
  OBVIOUS
<1>4. StreamOf(c, stream, counts, force) = Part(s, size)
      /\ Behind(c, stream, counts, force) = Read(s, size)
  BY DEF StreamOf, Behind
<1> HIDE DEF s, size
<1>5. Part(s, size) = a /\ Ahead(Read(s, size), b) /\ Read(s, size).at = s.at + size
  BY <1>2, <1>3, AheadTaken DEF q
<1> QED
  BY <1>2, <1>3, <1>4, <1>5 DEF IsTaken

\* The streams of a buffer, from those that end where the next begins
StreamsFound(r, bytes, integers, doubles, b) ==
    /\ r.bytes = bytes /\ r.shorts = <<>> /\ r.integers = integers /\ r.doubles = doubles
    /\ Ahead(r.cursor, b)

\* The streams of a buffer are read one after the other.
LEMMA StreamsTaken ==
    ASSUME NEW bytes \in Seq(Cells), NEW p \in Seq(Cells), NEW integers \in Seq(Cells),
           NEW q \in Seq(Cells), NEW doubles \in Seq(Cells), NEW b \in Seq(Cells),
           NEW c, Ahead(c, bytes \o (p \o (integers \o (q \o (doubles \o b))))),
           NEW counts, NEW force,
           counts.bytes = Len(bytes), counts.shorts = 0,
           4 * counts.integers = Len(integers), 8 * counts.doubles = Len(doubles),
           Aligned(c.at + Len(bytes), 0, 2, force, <<>>),
           Aligned(c.at + Len(bytes), counts.integers, 4, force, p),
           Aligned(c.at + Len(bytes) + Len(p) + Len(integers), counts.doubles, 8, force, q)
    PROVE  StreamsFound(ReadStreams(c, counts, force), bytes, integers, doubles, b)
<1> DEFINE Cells1(x, stream) == StreamOf(x, stream, counts, force)
           Next1(x, stream) == Behind(x, stream, counts, force)
           b4 == doubles \o b  b3 == integers \o (q \o b4)  b2 == p \o b3
           c1 == Next1(c, "bytes")  c2 == Next1(c1, "shorts")  c3 == Next1(c2, "integers")
           c4 == Next1(c3, "doubles")  none == <<>>
           e1 == c.at + Len(bytes)
<1>1. Width["bytes"] = 1 /\ Width["shorts"] = 2 /\ Width["integers"] = 4 /\ Width["doubles"] = 8
  BY DEF Width
<1>2. ReadStreams(c, counts, force) =
        [bytes |-> Cells1(c, "bytes"), shorts |-> Cells1(c1, "shorts"),
         integers |-> Cells1(c2, "integers"), doubles |-> Cells1(c3, "doubles"), cursor |-> c4]
  BY DEF ReadStreams, StreamOf, Behind
<1> HIDE DEF Cells1
<1>3. b4 \in Seq(Cells) /\ q \o b4 \in Seq(Cells) /\ b3 \in Seq(Cells) /\ b2 \in Seq(Cells)
  <2>1. b4 \in Seq(Cells)
    BY ConcatProperties
  <2> HIDE DEF b4
  <2>2. q \o b4 \in Seq(Cells)
    BY <2>1, ConcatProperties
  <2> DEFINE x == q \o b4
  <2> HIDE DEF x
  <2>3. integers \o x \in Seq(Cells)
    BY <2>2, ConcatProperties DEF x
  <2> DEFINE y == integers \o x
  <2> HIDE DEF y
  <2>4. p \o y \in Seq(Cells)
    BY <2>3, ConcatProperties DEF y
  <2> QED
    BY <2>1, <2>2, <2>3, <2>4 DEF x, y
<1>4. none \in Seq(Cells) /\ Len(none) = 0 /\ \A s \in Seq(Cells) : none \o s = s
  BY ConcatEmptySeq
<1>5. c.at \in Nat /\ Len(bytes) \in Nat /\ Len(p) \in Nat /\ Len(integers) \in Nat
  BY AheadAll, LenProperties
<1>6. Ahead(c, bytes \o b2)
  OBVIOUS
<1> HIDE DEF none, b2
<1>7. IsTaken(Cells1(c, "bytes"), c1, bytes, b2, e1)
  <2>1. bytes \o b2 \in Seq(Cells)
    BY <1>3, ConcatProperties
  <2>2. Ahead(c, none \o (bytes \o b2))
    BY <1>4, <1>6, <2>1
  <2>3. Padding(c.at, 1) = 0
    BY <1>5 DEF Padding
  <2>4. Aligned(c.at, counts["bytes"], Width["bytes"], force, none)
    BY <1>1, <1>4, <1>5, <2>3 DEF Aligned
  <2>5. Len(bytes) = Width["bytes"] * counts["bytes"]
    BY <1>1, <1>5, SMTT(60)
  <2>6. IsTaken(Cells1(c, "bytes"), c1, bytes, b2, c.at + Len(none) + Len(bytes))
    BY <1>3, <1>4, <2>2, <2>4, <2>5, StreamTaken DEF Cells1
  <2>7. c.at + Len(none) + Len(bytes) = e1
    BY <1>4, <1>5
  <2> QED
    BY <2>6, <2>7
<1>8. e1 \in Nat
  <2> DEFINE k == c.at  l == Len(bytes)
  <2>1. k \in Nat /\ l \in Nat
    BY <1>5
  <2> HIDE DEF k, l
  <2>2. k + l \in Nat
    BY <2>1
  <2> QED
    BY <2>2 DEF k, l
<1> HIDE DEF c1, e1
<1>9. IsTaken(Cells1(c1, "shorts"), c2, none, b2, e1)
  <2>1. Ahead(c1, none \o (none \o b2)) /\ c1.at = e1
    BY <1>3, <1>4, <1>7 DEF IsTaken
  <2>2. Aligned(c1.at, counts["shorts"], Width["shorts"], force, none)
    BY <1>1, <2>1 DEF none, e1
  <2>3. Len(none) = Width["shorts"] * counts["shorts"]
    BY <1>1, <1>4
  <2>4. IsTaken(Cells1(c1, "shorts"), c2, none, b2, c1.at + Len(none) + Len(none))
    BY <1>3, <1>4, <2>1, <2>2, <2>3, StreamTaken DEF Cells1
  <2>5. c1.at + Len(none) + Len(none) = e1
    BY <1>4, <1>8, <2>1
  <2> QED
    BY <2>4, <2>5
<1> HIDE DEF c2, b3
<1> DEFINE e3 == e1 + Len(p) + Len(integers)  x == q \o b4
<1>10. IsTaken(Cells1(c2, "integers"), c3, integers, x, e3)
  <2>1. Ahead(c2, p \o (integers \o x)) /\ c2.at = e1
    BY <1>9 DEF IsTaken, b2, b3
  <2>2. Aligned(c2.at, counts["integers"], Width["integers"], force, p)
    BY <1>1, <2>1 DEF e1
  <2>3. Len(integers) = Width["integers"] * counts["integers"] /\ x \in Seq(Cells)
    BY <1>1, <1>3
  <2> HIDE DEF x
  <2>4. IsTaken(Cells1(c2, "integers"), c3, integers, x, c2.at + Len(p) + Len(integers))
    BY <2>1, <2>2, <2>3, StreamTaken DEF Cells1
  <2> QED
    BY <2>1, <2>4
<1> HIDE DEF c3, b4
<1>11. IsTaken(Cells1(c3, "doubles"), c4, doubles, b, e3 + Len(q) + Len(doubles))
  <2>1. Ahead(c3, q \o (doubles \o b)) /\ c3.at = e3
    BY <1>10 DEF IsTaken, b4
  <2>2. Aligned(c3.at, counts["doubles"], Width["doubles"], force, q)
    BY <1>1, <2>1 DEF e1
  <2>3. Len(doubles) = Width["doubles"] * counts["doubles"]
    BY <1>1
  <2>4. IsTaken(Cells1(c3, "doubles"), c4, doubles, b, c3.at + Len(q) + Len(doubles))
    BY <2>1, <2>2, <2>3, StreamTaken DEF Cells1
  <2> QED
    BY <2>1, <2>4
<1> HIDE DEF c4
<1> QED
  BY <1>2, <1>7, <1>9, <1>10, <1>11 DEF StreamsFound, IsTaken, none

-----------------------------------------------------------------------------
(* The parts of a file that lie in bytes of their own. *)

\* What follows the payload: the blobs and their trailer
BlobCells(e) == IF e.lengths = <<>> THEN <<>> ELSE Bytes(e.blobs) \o Number(4, TRAILER)

\* What a header says of the blobs
SaysBlobs(h, e) ==
    /\ h.compression = 0 /\ h.blob_count = Len(e.lengths) /\ h.blob_size = Len(e.blobs)
    /\ h.blob_frame_count = 0 /\ Len(e.blobs) <= MaxBytes

\* The trailer is a number of the cells.
LEMMA TrailerIs == Number(4, TRAILER) \in Seq(Cells) /\ Len(Number(4, TRAILER)) = 4
<1> DEFINE n == <<TRAILER>>
<1>1. n \in Seq(Int) /\ Len(n) = 1 /\ TRAILER \in Int
  BY DEF TRAILER
<1>2. Number(4, TRAILER) = Numbers(4, n)
  BY <1>1, NumberIs
<1> HIDE DEF n
<1>3. Numbers(4, n) \in Seq(Cells) /\ Len(Numbers(4, n)) = 4 * 1
  BY <1>1, NumbersAre
<1>4. 4 * 1 = 4
  OBVIOUS
<1> QED
  BY <1>2, <1>3, <1>4

\* The blobs behind the payload are cells.
LEMMA BlobCellsAre ==
    ASSUME NEW e \in Encoders, Sound(e, 0)
    PROVE  /\ BlobCells(e) \in Seq(Cells) /\ Bytes(e.blobs) \in Seq(Cells)
           /\ Len(Bytes(e.blobs)) = Len(e.blobs) /\ Len(e.blobs) \in Nat
           /\ Len(BlobCells(e)) \in Nat /\ Len(BlobCells(e)) <= Len(e.blobs) + 4
           /\ e.lengths = <<>> => e.blobs = <<>> /\ Bytes(e.blobs) = <<>>
<1> DEFINE b == Bytes(e.blobs)  t == Number(4, TRAILER)
<1>1. e.blobs \in Seq(Int)
  BY DEF Encoders
<1>2. b \in Seq(Cells) /\ Len(b) = Len(e.blobs) /\ t \in Seq(Cells) /\ Len(t) = 4
      /\ Len(e.blobs) \in Nat
  BY <1>1, BytesAre, TrailerIs, LenProperties
<1>3. e.lengths = <<>> => e.blobs = <<>> /\ b = <<>>
  <2> SUFFICES ASSUME e.lengths = <<>> PROVE e.blobs = <<>> /\ b = <<>>
    OBVIOUS
  <2>1. Len(e.blobs) = 0
    BY TotalOfNone DEF Sound, BlobsAre
  <2> HIDE DEF b
  <2> QED
    BY <1>1, <1>2, <2>1, EmptySeq
<1> HIDE DEF b, t
<1>4. b \o t \in Seq(Cells) /\ Len(b \o t) = Len(e.blobs) + 4
  <2>1. b \o t \in Seq(Cells) /\ Len(b \o t) = Len(b) + Len(t)
    BY <1>2, ConcatProperties
  <2> QED
    BY <1>2, <2>1
<1>5. CASE e.lengths = <<>>
  <2>1. BlobCells(e) = <<>> /\ <<>> \in Seq(Cells) /\ Len(<<>>) = 0
    BY <1>5, EmptySeq DEF BlobCells
  <2> QED
    BY <1>2, <1>3, <2>1 DEF b
<1>6. CASE e.lengths # <<>>
  <2>1. BlobCells(e) = b \o t
    BY <1>6 DEF BlobCells, b, t
  <2> QED
    BY <1>2, <1>3, <1>4, <2>1 DEF b
<1> QED
  BY <1>5, <1>6

\* The blobs behind the payload are taken, and the trailer behind them.
LEMMA BlobsTaken ==
    ASSUME NEW e \in Encoders, Sound(e, 0), NEW h, SaysBlobs(h, e), NEW z \in Seq(Cells),
           NEW c, Ahead(c, BlobCells(e) \o z)
    PROVE  /\ Part(c, h.blob_size) = Bytes(e.blobs)
           /\ Ahead(EndBlobs(h, Read(c, h.blob_size)), z)
           /\ h.blob_size = 0 => Ahead(EndBlobs(h, c), z) /\ Bytes(e.blobs) = <<>>
<1> DEFINE n == h.blob_size  b == Bytes(e.blobs)  t == Number(4, TRAILER)
<1>1. /\ b \in Seq(Cells) /\ n = Len(b) /\ n \in Nat /\ t \in Seq(Cells)
      /\ e.lengths = <<>> => b = <<>>
      /\ n = 0 => b = <<>>
  <2>1. /\ b \in Seq(Cells) /\ n = Len(b) /\ n \in Nat /\ t \in Seq(Cells)
        /\ e.lengths = <<>> => b = <<>>
    BY BlobCellsAre, TrailerIs DEF SaysBlobs
  <2> HIDE DEF b
  <2>2. n = 0 => b = <<>>
    BY <2>1, EmptySeq
  <2> QED
    BY <2>1, <2>2
<1>2. \A s \in Seq(Cells) : <<>> \o s = s
  BY ConcatEmptySeq
<1>3. h.blob_count = Len(e.lengths) /\ Len(e.lengths) \in Nat
      /\ (Len(e.lengths) = 0 <=> e.lengths = <<>>)
  BY LenProperties, EmptySeq DEF SaysBlobs, Encoders
<1>4. CASE e.lengths = <<>>
  <2>5. BlobCells(e) = <<>>
    BY <1>4 DEF BlobCells
  <2>6. b = <<>>
    BY <1>1, <1>4
  <2>7. h.blob_count = 0
    BY <1>3, <1>4
  <2>1. Ahead(c, b \o z) /\ ~(h.blob_count > 0) /\ b = <<>>
    BY <2>5, <2>6, <2>7
  <2>2. EndBlobs(h, c) = c /\ EndBlobs(h, Read(c, n)) = Read(c, n)
    BY <2>1 DEF EndBlobs
  <2> HIDE DEF b, n
  <2>3. Part(c, n) = b /\ Ahead(Read(c, n), z)
    BY <1>1, <2>1, AheadTaken
  <2>4. Ahead(c, z)
    BY <1>2, <2>1
  <2> QED
    BY <2>1, <2>2, <2>3, <2>4 DEF b, n
<1>5. CASE e.lengths # <<>>
  <2> DEFINE q == t \o z
  <2>0. BlobCells(e) = b \o t
    BY <1>5 DEF BlobCells
  <2> HIDE DEF t, b, n
  <2>1. (b \o t) \o z = b \o (t \o z)
    BY <1>1, ConcatAssociative, SMTT(60)
  <2>2. t \o z \in Seq(Cells)
    BY <1>1, ConcatProperties
  <2>3. q \in Seq(Cells) /\ Ahead(c, b \o q)
    BY <2>0, <2>1, <2>2
  <2> HIDE DEF q
  <2>4. Part(c, n) = b /\ Ahead(Read(c, n), q)
    BY <1>1, <2>3, AheadTaken, ZenonT(60)
  <2>5. h.blob_count > 0
    BY <1>3, <1>5
  <2>6. \A x : Ahead(x, q) => Ahead(EndBlobs(h, x), z)
    BY <2>5, TrailerTaken DEF EndBlobs, q, t
  <2>7. n = 0 => Ahead(c, q)
    BY <1>1, <1>2, <2>3
  <2> QED
    BY <1>1, <2>4, <2>6, <2>7 DEF n, b
<1> QED
  BY <1>4, <1>5

\* The lengths of the blobs are read.
LEMMA LengthsTaken ==
    ASSUME NEW e \in Encoders, Sound(e, 0), NEW h, SaysBlobs(h, e), NEW c,
           Ahead(c, Numbers(4, e.lengths) \o Number(4, TRAILER))
    PROVE  /\ ReadBlobLengths(c, h).lengths = e.lengths
           /\ Ahead(ReadBlobLengths(c, h).cursor, <<>>)
<1> DEFINE r == ReadNumbers(c, 4, h.blob_count)  t == Number(4, TRAILER)  m == Len(e.blobs)
<1>1. /\ h.blob_count = Len(e.lengths) /\ h.blob_size = m /\ m <= MaxBytes /\ m \in Nat
      /\ e.lengths \in Seq(Int)
  BY LenProperties DEF SaysBlobs, Encoders
<1>2. /\ Total(e.lengths) = m /\ \A i \in 1..Len(e.lengths) : e.lengths[i] \in 0..m
  BY DEF Sound, BlobsAre
<1>3. t \in Seq(Cells) /\ t \o <<>> = t /\ <<>> \in Seq(Cells)
  BY TrailerIs, ConcatEmptySeq, EmptySeq
<1>4. r.numbers = e.lengths /\ Ahead(r.cursor, t)
  BY <1>1, <1>3, NumbersTaken
<1>5. Ahead(ReadTrailer(r.cursor, TRAILER), <<>>)
  BY <1>3, <1>4, TrailerTaken
<1>6. ReadBlobLengths(c, h) = LengthsRead(r, h.blob_size)
  BY DEF ReadBlobLengths
<1> HIDE DEF r, m
<1>7. \A i \in DOMAIN r.numbers : IsLength(r.numbers[i])
  <2>1. DOMAIN r.numbers = 1..Len(e.lengths)
    BY <1>1, <1>4, LenProperties
  <2>2. MaxBytes \in Nat
    BY LimitsAssumption
  <2> SUFFICES ASSUME NEW i \in 1..Len(e.lengths) PROVE r.numbers[i] \in 0..MaxBytes
    BY <2>1 DEF IsLength
  <2>3. r.numbers[i] \in 0..m
    BY <1>2, <1>4
  <2> QED
    BY <1>1, <2>2, <2>3
<1>8. Total(r.numbers) = h.blob_size
  BY <1>1, <1>2, <1>4
<1>9. LengthsRead(r, h.blob_size) =
        [lengths |-> r.numbers, cursor |-> ReadTrailer(r.cursor, TRAILER)]
  BY <1>7, <1>8 DEF LengthsRead, If
<1> QED
  BY <1>4, <1>5, <1>6, <1>9

\* The zero bytes at the end of a file are counted.
LEMMA PaddingCounted ==
    ASSUME NEW z \in 0..15, NEW c, Ahead(c, Zeros(z))
    PROVE  TrailingPadding(c) = z
<1>1. Len(Zeros(z)) = z
  <2>1. z \in Nat
    OBVIOUS
  <2> QED
    BY <2>1, ZerosAre
<1> DEFINE s == Zeros(z)
<1> HIDE DEF s
<1>2. Remaining(c) = z /\ Part(c, z) = s
  BY <1>1, AheadAll DEF s
<1> QED
  BY <1>2 DEF TrailingPadding, s

\* The document that a body makes when its root is read and zeros are ahead of it.
LEMMA BodyIsRead ==
    ASSUME NEW file, NEW body, NEW root, root.kind = "object", NEW z \in 0..15,
           body.root = root, Ahead(body.input, Zeros(z))
    PROVE  BodyRead(file, body) = Document(file.format, root, z)
<1>1. TrailingPadding(body.input) = z
  BY PaddingCounted
<1> QED
  BY <1>1 DEF BodyRead, DocumentRead

\* A part of a file that is not compressed is a buffer.
LEMMA PlainPart ==
    ASSUME NEW file, NEW a \in Seq(Cells), NEW b \in Seq(Cells), NEW c, Ahead(c, a \o b),
           NEW n, n = Len(a), n <= MaxBytes
    PROVE  /\ Decompress(file, c, n, n, 0) = Cursor(a)
           /\ Ahead(Cursor(a), a) /\ Cursor(a).at = 0 /\ Ahead(Read(c, n), b)
<1>1. Part(c, n) = a /\ Ahead(Read(c, n), b) /\ Read(c, n).at >= 0
  BY AheadTaken
<1>2. Fits(n)
  BY DEF Fits
<1> DEFINE at == Read(c, n).at
<1>3. at >= 0
  BY <1>1
<1> HIDE DEF at
<1>4. Decompress(file, c, n, n, 0) = Cursor(a)
  BY <1>1, <1>2, <1>3 DEF Decompress, If, at
<1> QED
  BY <1>1, <1>4, AheadStarts

-----------------------------------------------------------------------------
(* Fresh decoders. *)

\* A decoder that has the streams of the encoder e
HasStreams(d, e) ==
    IsFresh(d, IF e.version5 THEN 5 ELSE 4, Numbers(4, IntegersOf(e)), Numbers(8, e.doubles),
            Numbers(4, e.objects), e)

\* Such a decoder begins where the encoder did
LEMMA FreshStarts ==
    ASSUME NEW version5 \in BOOLEAN, NEW last \in Encoders, Grows(Encoder(version5), last),
           NEW d, HasStreams(d, last)
    PROVE  Follows(d, Encoder(version5), last)
<1> DEFINE e == Encoder(version5)  v == IF last.version5 THEN 5 ELSE 4
           integers == Numbers(4, IntegersOf(last))  doubles == Numbers(8, last.doubles)
           objects == Numbers(4, last.objects)
<1>1. /\ e.version5 = version5 /\ e.objects = <<>> /\ e.strings = <<>> /\ e.doubles = <<>>
      /\ e.types = <<>> /\ e.blobs = <<>> /\ e.lengths = <<>>
      /\ e.value_bytes = 0 /\ e.remaining = MaxCount
      /\ e.integers = IF version5 THEN <<>> ELSE <<0>>
  BY DEF Encoder
<1>2. /\ last.integers \in Seq(Int) /\ last.doubles \in Seq(Int) /\ last.objects \in Seq(Int)
      /\ last.types \in Seq(Int) /\ last.blobs \in Seq(Int) /\ last.lengths \in Seq(Int)
      /\ last.version5 = version5
  BY <1>1 DEF Encoders, Grows
<1>3. Left(e.integers, last.integers) = IntegersOf(last)
  <2>1. CASE version5
    BY <1>1, <1>2, <2>1, LeftOfNothing DEF IntegersOf
  <2>2. CASE ~version5
    <3>1. Continues(<<0>>, last.integers) /\ 0 \in Int
      BY <1>1, <2>2 DEF Grows
    <3>2. Left(<<0>>, last.integers) = Tail(last.integers)
      BY <1>2, <3>1, LeftOfOne, ZenonT(60)
    <3> QED
      BY <1>1, <1>2, <2>2, <3>2 DEF IntegersOf
  <2> QED
    BY <2>1, <2>2
<1>4. /\ Left(e.doubles, last.doubles) = last.doubles /\ Left(e.objects, last.objects) = last.objects
      /\ Left(e.types, last.types) = last.types /\ Left(e.blobs, last.blobs) = last.blobs
      /\ Left(e.lengths, last.lengths) = last.lengths
  BY <1>1, <1>2, LeftOfNothing
<1>6. v = IF e.version5 THEN 5 ELSE 4
  BY <1>1, <1>2
<1>8. /\ integers = Numbers(4, Left(e.integers, last.integers))
      /\ doubles = Numbers(8, Left(e.doubles, last.doubles))
      /\ objects = Numbers(4, Left(e.objects, last.objects))
      /\ Bytes(last.types) = Bytes(Left(e.types, last.types))
      /\ Bytes(last.blobs) = Bytes(Left(e.blobs, last.blobs))
      /\ last.lengths = Left(e.lengths, last.lengths)
  BY <1>3, <1>4
<1>9. IsFresh(d, v, integers, doubles, objects, last)
  BY DEF HasStreams
<1> HIDE DEF integers, doubles, objects, v, e
<1>10. Mirrors(d, e, last)
  BY <1>1, <1>6, <1>8, <1>9 DEF Mirrors, IsFresh
<1>11. d.value_bytes = e.value_bytes
  BY <1>1, <1>9 DEF IsFresh
<1>12. Follows(d, e, last)
  BY <1>10, <1>11 DEF Follows
<1> QED
  BY <1>12 DEF e

\* Such a decoder reads the root.
LEMMA FreshIsRead ==
    ASSUME NEW V, NEW root, Tree(V, root), NEW version5 \in BOOLEAN,
           ~Written(version5, root).encoder.failed,
           NEW d, HasStreams(d, Written(version5, root).encoder)
    PROVE  ReadRoot(d) = root
<1> DEFINE w == Written(version5, root)  last == w.encoder
<1>1. WriterIsDone(w) /\ last \in Encoders
  BY WriterEnds DEF WriterStops, WriterInv
<1>2. Grows(Encoder(version5), last)
  BY WriterGrows
<1>3. Follows(d, Encoder(version5), last)
  BY <1>1, <1>2, FreshStarts
<1> QED
  BY <1>1, <1>3, RootIsRead

\* The whole record of a fresh decoder
FullDecoder(version, primary, objects, e) ==
    [version |-> version, primary |-> primary, alternate |-> EmptyStreams,
     objects |-> objects, types |-> Bytes(e.types), strings |-> e.strings,
     blobs |-> Bytes(e.blobs), lengths |-> e.lengths, alternate_active |-> FALSE,
     remaining |-> MaxCount, value_bytes |-> 0, got |-> 0, text |-> <<>>, tag |-> 0,
     flag |-> "None", failed |-> FALSE]

\* A buffer with these integers and doubles only
BufferOf(buffer, integers, doubles) ==
    /\ buffer \in StreamsOfBuffer /\ buffer["integers"] = integers /\ buffer["doubles"] = doubles
    /\ buffer["bytes"] = <<>> /\ buffer["shorts"] = <<>>

\* Such a decoder is fresh
LEMMA FullIsFresh ==
    ASSUME NEW version \in {4, 5}, NEW primary, NEW counts, NEW e \in Encoders,
           NEW integers, NEW doubles, NEW objects,
           BufferOf(primary, integers, doubles), BufferOf(counts, objects, <<>>)
    PROVE  IsFresh(FullDecoder(version, primary, counts, e), version, integers, doubles, objects, e)
<1> DEFINE active == FALSE  none == "None"  empty == EmptyStreams  types == Bytes(e.types)
           blobs == Bytes(e.blobs)  lengths == e.lengths  strings == e.strings
           d == FullDecoder(version, primary, counts, e)
<1>1. DOMAIN Width = {"bytes", "shorts", "integers", "doubles"}
  BY DEF Width
<1>2. <<>> \in Seq(Cells) /\ <<>> \in Seq(Int) /\ MaxCount \in Int
  BY LimitsAssumption
<1>3. empty \in StreamsOfBuffer
  BY <1>1, <1>2 DEF EmptyStreams, StreamsOfBuffer
<1>4. primary \in StreamsOfBuffer /\ counts \in StreamsOfBuffer
  BY DEF BufferOf
<1>6. /\ types \in Seq(Cells) /\ blobs \in Seq(Cells) /\ lengths \in Seq(Int)
      /\ strings \in Seq(Seq(Int))
  BY BytesAre DEF Encoders
<1>8. active \in BOOLEAN /\ active = FALSE /\ none \in DOMAIN FlagCodes5
  BY DEF FlagCodes5
<1>7. d = [version |-> version, primary |-> primary, alternate |-> empty,
           objects |-> counts, types |-> types, strings |-> strings,
           blobs |-> blobs, lengths |-> lengths, alternate_active |-> active,
           remaining |-> MaxCount, value_bytes |-> 0, got |-> 0, text |-> <<>>, tag |-> 0,
           flag |-> none, failed |-> active]
  BY DEF FullDecoder
<1> HIDE DEF empty, types, blobs, lengths, strings, active, none, d
<1>9. d \in Decoders
  BY <1>2, <1>3, <1>4, <1>6, <1>7, <1>8 DEF Decoders
<1>10. /\ d.version = version /\ d.primary = primary /\ d.alternate = empty /\ d.objects = counts
       /\ d.types = types /\ d.strings = strings /\ d.blobs = blobs /\ d.lengths = lengths
       /\ d.alternate_active = active /\ d.failed = active
       /\ d.remaining = MaxCount /\ d.value_bytes = 0
  BY <1>7
<1>11. d.types = Bytes(e.types) /\ d.strings = e.strings
       /\ d.blobs = Bytes(e.blobs) /\ d.lengths = e.lengths
  BY <1>10 DEF types, blobs, lengths, strings
<1>12. d.alternate = EmptyStreams
  BY <1>10 DEF empty
<1>13. /\ d.primary["integers"] = integers /\ d.primary["doubles"] = doubles
       /\ d.primary["bytes"] = <<>> /\ d.primary["shorts"] = <<>>
       /\ d.objects["integers"] = objects /\ d.objects["bytes"] = <<>>
       /\ d.objects["shorts"] = <<>> /\ d.objects["doubles"] = <<>>
  BY <1>10 DEF BufferOf
<1>14. IsFresh(d, version, integers, doubles, objects, e)
  BY <1>8, <1>9, <1>10, <1>11, <1>12, <1>13 DEF IsFresh
<1> QED
  BY <1>14 DEF d

\* These are the integers and doubles of a buffer, which has no other stream
HasBuffer(buffer, integers, doubles) ==
    /\ buffer["bytes"] = <<>> /\ buffer["shorts"] = <<>>
    /\ buffer["integers"] = integers /\ buffer["doubles"] = doubles

\* What a decoder is when it is made
FirstDecoder(version, primary, e) ==
    [version |-> version, primary |-> primary, alternate |-> EmptyStreams,
     objects |-> EmptyStreams, types |-> Bytes(e.types), strings |-> e.strings,
     blobs |-> <<>>, lengths |-> <<>>, alternate_active |-> FALSE,
     remaining |-> MaxCount, value_bytes |-> 0, got |-> 0, text |-> <<>>,
     tag |-> 0, flag |-> "None", failed |-> FALSE]

\* A decoder made from these streams, before it knows its blobs
LEMMA DecoderRecord ==
    ASSUME NEW version, NEW buffer, NEW integers \in Seq(Cells), NEW doubles \in Seq(Cells), NEW e,
           HasBuffer(buffer, integers, doubles)
    PROVE  \E primary :
              /\ BufferOf(primary, integers, doubles)
              /\ Decoder(version, buffer, Bytes(e.types), e.strings) =
                 FirstDecoder(version, primary, e)
<1> DEFINE primary == [stream \in DOMAIN Width |-> buffer[stream]]
<1>1. DOMAIN Width = {"bytes", "shorts", "integers", "doubles"} /\ <<>> \in Seq(Cells)
  BY DEF Width
<1>2. BufferOf(primary, integers, doubles)
  BY <1>1 DEF BufferOf, HasBuffer, StreamsOfBuffer
<1>3. Decoder(version, buffer, Bytes(e.types), e.strings) =
                 FirstDecoder(version, primary, e)
  BY DEF Decoder, FirstDecoder
<1> HIDE DEF primary
<1> QED
  BY <1>2, <1>3

\* A buffer without any stream
LEMMA EmptyBuffer ==
    ASSUME NEW objects \in Seq(Cells)
    PROVE  /\ BufferOf(EmptyStreams, <<>>, <<>>)
           /\ BufferOf([EmptyStreams EXCEPT !["integers"] = objects], objects, <<>>)
<1> DEFINE empty == EmptyStreams
<1>1. DOMAIN Width = {"bytes", "shorts", "integers", "doubles"}
  BY DEF Width
<1>2. <<>> \in Seq(Cells)
  OBVIOUS
<1>3. /\ empty \in [{"bytes", "shorts", "integers", "doubles"} -> Seq(Cells)]
      /\ \A s \in DOMAIN Width : empty[s] = <<>>
  BY <1>1, <1>2 DEF EmptyStreams
<1> HIDE DEF empty
<1> DEFINE counts == [empty EXCEPT !["integers"] = objects]
<1>4. counts \in [{"bytes", "shorts", "integers", "doubles"} -> Seq(Cells)]
  BY <1>3
<1>5. counts["integers"] = objects /\ counts["bytes"] = empty["bytes"]
        /\ counts["shorts"] = empty["shorts"] /\ counts["doubles"] = empty["doubles"]
  BY <1>3
<1> HIDE DEF counts
<1>6. BufferOf(counts, objects, <<>>) /\ BufferOf(empty, <<>>, <<>>)
  BY <1>1, <1>3, <1>4, <1>5 DEF BufferOf, StreamsOfBuffer
<1> QED
  BY <1>6 DEF counts, empty

\* The decoder that read_v2_v4 makes
OlderDecoder(buffer, e) ==
    [Decoder(4, buffer, Bytes(e.types), e.strings)
        EXCEPT !.blobs = Bytes(e.blobs), !.lengths = e.lengths]

\* The decoder that read_v5 makes
NewerDecoder(buffer, alternate, objects, e) ==
    [Decoder(5, buffer, Bytes(e.types), e.strings)
        EXCEPT !.alternate = alternate, !.objects.integers = objects,
               !.blobs = Bytes(e.blobs), !.lengths = e.lengths]

\* The decoder of version 4 is fresh.
LEMMA OlderIsFresh ==
    ASSUME NEW buffer, NEW integers \in Seq(Cells), NEW doubles \in Seq(Cells), NEW e \in Encoders,
           HasBuffer(buffer, integers, doubles)
    PROVE  IsFresh(OlderDecoder(buffer, e), 4, integers, doubles, <<>>, e)
<1>0. PICK primary : /\ BufferOf(primary, integers, doubles)
                     /\ Decoder(4, buffer, Bytes(e.types), e.strings) = FirstDecoder(4, primary, e)
  <2> DEFINE v == 4
  <2> HIDE DEF v
  <2>1. \E primary : /\ BufferOf(primary, integers, doubles)
                     /\ Decoder(v, buffer, Bytes(e.types), e.strings) = FirstDecoder(v, primary, e)
    BY DecoderRecord, ZenonT(60)
  <2> QED
    BY <2>1 DEF v
<1> DEFINE types == Bytes(e.types)  blobs == Bytes(e.blobs)  lengths == e.lengths
           strings == e.strings  active == FALSE  none == "None"  empty == EmptyStreams
           c == Decoder(4, buffer, types, strings)  b == [c EXCEPT !.blobs = blobs]
<1>1. c = [version |-> 4, primary |-> primary, alternate |-> empty,
                objects |-> empty, types |-> types, strings |-> strings, blobs |-> <<>>,
                lengths |-> <<>>, alternate_active |-> active, remaining |-> MaxCount,
                value_bytes |-> 0, got |-> 0, text |-> <<>>, tag |-> 0, flag |-> none,
                failed |-> active]
  BY <1>0 DEF FirstDecoder
<1>2. OlderDecoder(buffer, e) = [b EXCEPT !.lengths = lengths]
  BY DEF OlderDecoder
<1>3. FullDecoder(4, primary, empty, e) =
        [version |-> 4, primary |-> primary, alternate |-> empty,
         objects |-> empty, types |-> types, strings |-> strings, blobs |-> blobs,
         lengths |-> lengths, alternate_active |-> active, remaining |-> MaxCount,
         value_bytes |-> 0, got |-> 0, text |-> <<>>, tag |-> 0, flag |-> none,
         failed |-> active]
  BY DEF FullDecoder
<1> HIDE DEF types, blobs, lengths, strings, active, none, empty, c
<1>4. b = [version |-> 4, primary |-> primary, alternate |-> empty,
           objects |-> empty, types |-> types, strings |-> strings, blobs |-> blobs,
           lengths |-> <<>>, alternate_active |-> active, remaining |-> MaxCount,
           value_bytes |-> 0, got |-> 0, text |-> <<>>, tag |-> 0, flag |-> none,
           failed |-> active]
  BY <1>1, SMTT(60)
<1> HIDE DEF b
<1>5. [b EXCEPT !.lengths = lengths] = FullDecoder(4, primary, empty, e)
  BY <1>3, <1>4, SMTT(60)
<1>6. BufferOf(empty, <<>>, <<>>)
  <2>1. <<>> \in Seq(Cells)
    OBVIOUS
  <2> QED
    BY <2>1, EmptyBuffer DEF empty
<1>7. IsFresh(FullDecoder(4, primary, empty, e), 4, integers, doubles, <<>>, e)
  BY <1>0, <1>6, FullIsFresh
<1> QED
  BY <1>2, <1>5, <1>7

\* The decoder of version 5 is fresh.
LEMMA NewerIsFresh ==
    ASSUME NEW buffer, NEW integers \in Seq(Cells), NEW doubles \in Seq(Cells), NEW e \in Encoders,
           HasBuffer(buffer, integers, doubles), NEW objects, objects \in Seq(Cells)
    PROVE  IsFresh(NewerDecoder(buffer, EmptyStreams, objects, e), 5, integers, doubles, objects, e)
<1>0. PICK primary : /\ BufferOf(primary, integers, doubles)
                     /\ Decoder(5, buffer, Bytes(e.types), e.strings) = FirstDecoder(5, primary, e)
  <2> DEFINE v == 5
  <2> HIDE DEF v
  <2>1. \E primary : /\ BufferOf(primary, integers, doubles)
                     /\ Decoder(v, buffer, Bytes(e.types), e.strings) = FirstDecoder(v, primary, e)
    BY ONLY integers \in Seq(Cells), doubles \in Seq(Cells),
            HasBuffer(buffer, integers, doubles), DecoderRecord, ZenonT(60)
  <2> QED
    BY <2>1 DEF v
<1> DEFINE types == Bytes(e.types)  blobs == Bytes(e.blobs)  lengths == e.lengths
           strings == e.strings  active == FALSE  none == "None"  empty == EmptyStreams
           c == Decoder(5, buffer, types, strings)  counts == [empty EXCEPT !["integers"] = objects]
           a0 == [c EXCEPT !.alternate = empty]
           a == [a0 EXCEPT !.objects = [a0.objects EXCEPT !["integers"] = objects]]
           b == [a EXCEPT !.blobs = blobs]
<1>1. c = [version |-> 5, primary |-> primary, alternate |-> empty,
                objects |-> empty, types |-> types, strings |-> strings, blobs |-> <<>>,
                lengths |-> <<>>, alternate_active |-> active, remaining |-> MaxCount,
                value_bytes |-> 0, got |-> 0, text |-> <<>>, tag |-> 0, flag |-> none,
                failed |-> active]
  BY <1>0 DEF FirstDecoder
<1>2. NewerDecoder(buffer, empty, objects, e) = [b EXCEPT !.lengths = lengths]
  BY DEF NewerDecoder
<1>3. FullDecoder(5, primary, counts, e) =
        [version |-> 5, primary |-> primary, alternate |-> empty,
         objects |-> counts, types |-> types, strings |-> strings, blobs |-> blobs,
         lengths |-> lengths, alternate_active |-> active, remaining |-> MaxCount,
         value_bytes |-> 0, got |-> 0, text |-> <<>>, tag |-> 0, flag |-> none,
         failed |-> active]
  BY DEF FullDecoder
<1>6. BufferOf(counts, objects, <<>>)
  BY EmptyBuffer
<1> HIDE DEF types, blobs, lengths, strings, active, none, c
<1> HIDE DEF empty
<1>8. a0 = [version |-> 5, primary |-> primary, alternate |-> empty,
           objects |-> empty, types |-> types, strings |-> strings, blobs |-> <<>>,
           lengths |-> <<>>, alternate_active |-> active, remaining |-> MaxCount,
           value_bytes |-> 0, got |-> 0, text |-> <<>>, tag |-> 0, flag |-> none,
           failed |-> active]
  BY <1>1, SMTT(60)
<1> HIDE DEF a0
<1>9. a0.objects = empty
  BY <1>8
<1>10. a = [a0 EXCEPT !.objects = counts]
  BY <1>9
<1> HIDE DEF a, counts
<1>11. a = [version |-> 5, primary |-> primary, alternate |-> empty,
           objects |-> counts, types |-> types, strings |-> strings, blobs |-> <<>>,
           lengths |-> <<>>, alternate_active |-> active, remaining |-> MaxCount,
           value_bytes |-> 0, got |-> 0, text |-> <<>>, tag |-> 0, flag |-> none,
           failed |-> active]
  BY <1>8, <1>10, SMTT(60)
<1>4. b = [version |-> 5, primary |-> primary, alternate |-> empty,
           objects |-> counts, types |-> types, strings |-> strings, blobs |-> blobs,
           lengths |-> <<>>, alternate_active |-> active, remaining |-> MaxCount,
           value_bytes |-> 0, got |-> 0, text |-> <<>>, tag |-> 0, flag |-> none,
           failed |-> active]
  BY <1>11, SMTT(60)
<1> HIDE DEF b
<1>5. [b EXCEPT !.lengths = lengths] = FullDecoder(5, primary, counts, e)
  BY <1>3, <1>4, SMTT(60)
<1>7. IsFresh(FullDecoder(5, primary, counts, e), 5, integers, doubles, objects, e)
  BY <1>0, <1>6, FullIsFresh
<1> QED
  BY <1>2, <1>5, <1>7 DEF empty

\* Two streams of cells, one behind the other
LEMMA Joined ==
    ASSUME NEW a \in Seq(Cells), NEW b \in Seq(Cells)
    PROVE  /\ a \o b \in Seq(Cells) /\ Len(a \o b) = Len(a) + Len(b)
           /\ Len(a) \in Nat /\ Len(b) \in Nat /\ Len(a \o b) \in Nat
<1>1. a \o b \in Seq(Cells) /\ Len(a \o b) = Len(a) + Len(b)
  BY ConcatProperties
<1>2. Len(a) \in Nat /\ Len(b) \in Nat
  BY LenProperties
<1> QED
  BY <1>1, <1>2

\* Three streams of cells are joined in either order.
LEMMA Regrouped ==
    ASSUME NEW a \in Seq(Cells), NEW b \in Seq(Cells), NEW c \in Seq(Cells)
    PROVE  (a \o b) \o c = a \o (b \o c)
  BY ConcatAssociative

\* The parts of a payload of version 4, in the order they are written and read
OlderWritten(i, q, d, t, y, l, x) == (((i \o q) \o d) \o t) \o ((y \o l) \o x)
OlderRead(i, q, d, t, y, l, x) == i \o (q \o (d \o ((t \o y) \o (l \o x))))
LengthOf(i, q, d, t, y, l, x) == Len(i) + Len(q) + Len(d) + Len(t) + Len(y) + Len(l) + Len(x)

\* The order in which the parts are joined does not matter, and their lengths add up.
LEMMA OlderParts ==
    ASSUME NEW i, NEW q, NEW d, NEW t, NEW y, NEW l, NEW x,
           {i, q, d, t, y, l, x} \subseteq Seq(Cells)
    PROVE  /\ OlderWritten(i, q, d, t, y, l, x) = OlderRead(i, q, d, t, y, l, x)
           /\ OlderWritten(i, q, d, t, y, l, x) \in Seq(Cells)
           /\ Len(OlderWritten(i, q, d, t, y, l, x)) = LengthOf(i, q, d, t, y, l, x)
<1> DEFINE b == i \o q  c == b \o d  f == c \o t  g == y \o l  h == g \o x  u == l \o x
           v == t \o y  w == y \o u  a == v \o u  k == d \o a
<1>i. i \in Seq(Cells)
  OBVIOUS
<1>q. q \in Seq(Cells)
  OBVIOUS
<1>d. d \in Seq(Cells)
  OBVIOUS
<1>t. t \in Seq(Cells)
  OBVIOUS
<1>y. y \in Seq(Cells)
  OBVIOUS
<1>l. l \in Seq(Cells)
  OBVIOUS
<1>x. x \in Seq(Cells)
  OBVIOUS
<1>b. b \in Seq(Cells) /\ Len(b) = Len(i) + Len(q) /\ Len(i) \in Nat /\ Len(q) \in Nat
  BY ONLY <1>i, <1>q, Joined
<1>g. g \in Seq(Cells) /\ Len(g) = Len(y) + Len(l) /\ Len(y) \in Nat /\ Len(l) \in Nat
  BY ONLY <1>y, <1>l, Joined
<1>u. u \in Seq(Cells)
  BY ONLY <1>l, <1>x, Joined
<1>v. v \in Seq(Cells)
  BY ONLY <1>t, <1>y, Joined
<1>1. h = w
  BY ONLY <1>y, <1>l, <1>x, Regrouped
<1> HIDE DEF b, g, u, v
<1>c. c \in Seq(Cells) /\ Len(c) = Len(b) + Len(d) /\ Len(d) \in Nat
  BY ONLY <1>b, <1>d, Joined
<1>h. h \in Seq(Cells) /\ Len(h) = Len(g) + Len(x) /\ Len(x) \in Nat
  BY ONLY <1>g, <1>x, Joined
<1>w. w \in Seq(Cells)
  BY ONLY <1>y, <1>u, Joined
<1>a. a \in Seq(Cells)
  BY ONLY <1>v, <1>u, Joined
<1>2. (t \o y) \o u = t \o (y \o u)
  BY ONLY <1>t, <1>y, <1>u, Regrouped
<1>3. t \o w = a
  BY <1>2 DEF v
<1> HIDE DEF a, c, w, h
<1>f. f \in Seq(Cells) /\ Len(f) = Len(c) + Len(t) /\ Len(t) \in Nat
  BY ONLY <1>c, <1>t, Joined
<1>k. k \in Seq(Cells)
  BY ONLY <1>d, <1>a, Joined
<1>4. (c \o t) \o w = c \o (t \o w)
  BY ONLY <1>c, <1>t, <1>w, Regrouped
<1>5. (b \o d) \o a = b \o (d \o a)
  BY ONLY <1>b, <1>d, <1>a, Regrouped
<1> HIDE DEF f, k
<1>6. (i \o q) \o k = i \o (q \o k)
  BY ONLY <1>i, <1>q, <1>k, Regrouped
<1>7. f \o h \in Seq(Cells) /\ Len(f \o h) = Len(f) + Len(h)
  BY ONLY <1>f, <1>h, Joined
<1>8. Len(f \o h) = Len(i) + Len(q) + Len(d) + Len(t) + Len(y) + Len(l) + Len(x)
  BY <1>b, <1>c, <1>f, <1>g, <1>h, <1>7
<1>9. f \o h = c \o a
  BY <1>1, <1>3, <1>4 DEF f
<1>10. c \o a = b \o k
  BY <1>5 DEF c, k
<1>11. b \o k = i \o (q \o k)
  BY <1>6 DEF b
<1>12. f \o h = i \o (q \o (d \o a))
  BY <1>9, <1>10, <1>11 DEF k
<1> QED
  BY <1>7, <1>8, <1>12 DEF f, h, c, b, g, a, v, u, OlderWritten, OlderRead, LengthOf

\* The parts of a payload of version 5: its first buffer, then the second
NewerWritten(f, o, j, q, d, y, l, x) == (((f \o (o \o j)) \o q) \o d) \o ((y \o l) \o x)
SecondRead(o, j, q, d, y, l, x) == o \o (j \o (q \o (d \o (y \o (l \o x)))))

\* The cells are those of f and of the rest, which has this length
InOrder(all, f, rest, length) ==
    /\ all = f \o rest /\ all \in Seq(Cells) /\ rest \in Seq(Cells)
    /\ Len(all) = Len(f) + Len(rest) /\ Len(rest) = length

\* Both buffers of version 5 are the parts of the payload, one after the other.
LEMMA NewerParts ==
    ASSUME NEW f, NEW o, NEW j, NEW q, NEW d, NEW y, NEW l, NEW x,
           {f, o, j, q, d, y, l, x} \subseteq Seq(Cells)
    PROVE  InOrder(NewerWritten(f, o, j, q, d, y, l, x), f, SecondRead(o, j, q, d, y, l, x),
                   LengthOf(o, j, q, d, y, l, x))
<1> DEFINE s == o \o j  a == f \o s  b == a \o q  c == b \o d  e == s \o q  r == e \o d
           none == <<>>  h == (y \o l) \o x  p == (r \o none) \o h  m == f \o s
           u == l \o x  w == q \o (d \o (y \o u))  rest == o \o (j \o w)
<1>f. f \in Seq(Cells)
  OBVIOUS
<1>o. o \in Seq(Cells)
  OBVIOUS
<1>j. j \in Seq(Cells)
  OBVIOUS
<1>q. q \in Seq(Cells)
  OBVIOUS
<1>d. d \in Seq(Cells)
  OBVIOUS
<1>y. y \in Seq(Cells)
  OBVIOUS
<1>l. l \in Seq(Cells)
  OBVIOUS
<1>x. x \in Seq(Cells)
  OBVIOUS
<1>n. none \in Seq(Cells) /\ Len(none) = 0
  OBVIOUS
<1>1. none \o y = y
  BY ONLY <1>y, ConcatEmptySeq
<1>s. s \in Seq(Cells) /\ Len(s) = Len(o) + Len(j) /\ Len(o) \in Nat /\ Len(j) \in Nat
  BY ONLY <1>o, <1>j, Joined
<1>u. u \in Seq(Cells) /\ Len(l) \in Nat /\ Len(x) \in Nat
  BY ONLY <1>l, <1>x, Joined
<1>m. Len(q) \in Nat /\ Len(d) \in Nat /\ Len(y) \in Nat
  BY ONLY <1>q, <1>d, <1>y, LenProperties
<1> HIDE DEF none, s, u
<1>2. /\ p = s \o (q \o (d \o ((none \o y) \o u))) /\ p \in Seq(Cells)
      /\ Len(p) = Len(s) + Len(q) + Len(d) + Len(none) + Len(y) + Len(l) + Len(x)
  <2>1. {s, q, d, none, y, l, x} \subseteq Seq(Cells)
    BY ONLY <1>s, <1>q, <1>d, <1>n, <1>y, <1>l, <1>x
  <2>2. /\ OlderWritten(s, q, d, none, y, l, x) = OlderRead(s, q, d, none, y, l, x)
        /\ OlderWritten(s, q, d, none, y, l, x) \in Seq(Cells)
        /\ Len(OlderWritten(s, q, d, none, y, l, x)) = LengthOf(s, q, d, none, y, l, x)
    BY ONLY <2>1, OlderParts
  <2> QED
    BY <2>2 DEF u, OlderWritten, OlderRead, LengthOf
<1>3. p = s \o w
  BY <1>1, <1>2
<1>4. y \o u \in Seq(Cells)
  BY ONLY <1>y, <1>u, Joined
<1>w. w \in Seq(Cells)
  <2> DEFINE k == y \o u
  <2>k. k \in Seq(Cells)
    BY <1>4
  <2> HIDE DEF k
  <2>1. d \o k \in Seq(Cells)
    BY ONLY <1>d, <2>k, Joined
  <2> DEFINE z == d \o k
  <2>z. z \in Seq(Cells)
    BY <2>1
  <2> HIDE DEF z
  <2>2. q \o z \in Seq(Cells)
    BY ONLY <1>q, <2>z, Joined
  <2> QED
    BY <2>2 DEF z, k
<1> HIDE DEF w
<1>5. (o \o j) \o w = o \o (j \o w)
  BY ONLY <1>o, <1>j, <1>w, Regrouped
<1>6. p = rest
  BY <1>3, <1>5 DEF s
<1>e. e \in Seq(Cells)
  BY ONLY <1>s, <1>q, Joined
<1>7. (f \o s) \o q = f \o (s \o q)
  BY ONLY <1>f, <1>s, <1>q, Regrouped
<1>8. b = f \o e
  BY <1>7
<1> HIDE DEF a, b, e
<1>r. r \in Seq(Cells)
  BY ONLY <1>e, <1>d, Joined
<1>9. (f \o e) \o d = f \o (e \o d)
  BY ONLY <1>f, <1>e, <1>d, Regrouped
<1>10. c = f \o r
  BY <1>8, <1>9
<1> HIDE DEF c, r
<1>11. r \o none = r
  BY ONLY <1>r, ConcatEmptySeq DEF none
<1>h. h \in Seq(Cells)
  <2> DEFINE g == y \o l
  <2>g. g \in Seq(Cells)
    BY ONLY <1>y, <1>l, Joined
  <2> HIDE DEF g
  <2>1. g \o x \in Seq(Cells)
    BY ONLY <2>g, <1>x, Joined
  <2> QED
    BY <2>1 DEF g
<1> HIDE DEF h
<1>12. (f \o r) \o h = f \o (r \o h)
  BY ONLY <1>f, <1>r, <1>h, Regrouped
<1>13. c \o h = f \o p
  BY <1>10, <1>11, <1>12
<1>p. p \in Seq(Cells)
  BY <1>2
<1> HIDE DEF p
<1>14. f \o p \in Seq(Cells) /\ Len(f \o p) = Len(f) + Len(p)
  BY ONLY <1>f, <1>p, Joined
<1>15. Len(p) = Len(o) + Len(j) + Len(q) + Len(d) + Len(y) + Len(l) + Len(x)
  BY <1>2, <1>s, <1>u, <1>m, <1>n
<1> HIDE DEF rest
<1>16. /\ c \o h = f \o rest /\ c \o h \in Seq(Cells) /\ rest \in Seq(Cells)
       /\ Len(c \o h) = Len(f) + Len(rest)
       /\ Len(rest) = Len(o) + Len(j) + Len(q) + Len(d) + Len(y) + Len(l) + Len(x)
  BY <1>6, <1>13, <1>14, <1>15, <1>p
<1> QED
  BY <1>16 DEF c, b, a, s, h, rest, w, u, InOrder, NewerWritten, SecondRead, LengthOf

-----------------------------------------------------------------------------
(* What the encoder has collected, part by part, in the payload of version 4. *)

\* An encoder at the end of its run
Collected(e) ==
    /\ e \in Encoders /\ Sound(e, 0) /\ e.remaining >= 0
    /\ e.version5 \/ e.integers # <<>>

\* What a complete encoder counts
LEMMA CollectedIs ==
    ASSUME NEW e, Collected(e)
    PROVE  /\ e \in Encoders /\ Sound(e, 0)
           /\ Len(e.doubles) \in 0..MaxCount /\ Len(e.objects) \in 0..MaxCount
           /\ Len(e.lengths) \in 0..MaxCount /\ Len(e.strings) \in 0..MaxCount
           /\ Len(e.blobs) \in Nat /\ Len(e.types) \in Nat /\ Len(e.integers) \in Nat
           /\ e.string_bytes \in Nat /\ e.string_bytes = Len(StringTable(e))
           /\ MaxCount \in Nat /\ MaxBytes \in Nat /\ MaxCount <= MaxBytes
<1>1. e \in Encoders /\ Sound(e, 0) /\ e.remaining >= 0
  BY DEF Collected
<1>2. MaxCount \in Nat /\ MaxBytes \in Nat /\ MaxCount <= MaxBytes
  BY LimitsAssumption
<1>3. /\ Len(e.doubles) \in Nat /\ Len(e.objects) \in Nat /\ Len(e.lengths) \in Nat
      /\ Len(e.strings) \in Nat /\ Len(e.blobs) \in Nat /\ Len(e.types) \in Nat
      /\ Len(e.integers) \in Nat /\ e.remaining \in Int
  BY <1>1, SoundNumbers
<1>4. /\ Len(e.doubles) + e.remaining + 0 <= MaxCount /\ Len(e.objects) + e.remaining + 0 <= MaxCount
      /\ Len(e.lengths) + e.remaining + 0 <= MaxCount
  BY <1>1 DEF Sound, Room
<1>5. e.string_bytes = Len(TableOf(e.strings)) /\ Len(e.strings) <= MaxCount
  BY <1>1 DEF Sound, TextsAre
<1>6. StringTable(e) = TableOf(e.strings)
  BY DEF StringTable, TableOf, TextCells
<1>7. e.strings \in Seq(Seq(Int))
  BY <1>1 DEF Encoders
<1>8. Len(TableOf(e.strings)) \in Nat
  BY <1>7, TableIs
<1>9. e.string_bytes \in Nat /\ e.string_bytes = Len(StringTable(e))
  BY <1>5, <1>6, <1>8
<1>10. /\ Len(e.doubles) \in 0..MaxCount /\ Len(e.objects) \in 0..MaxCount
       /\ Len(e.lengths) \in 0..MaxCount /\ Len(e.strings) \in 0..MaxCount
  <2> DEFINE a == Len(e.doubles)  b == Len(e.objects)  c == Len(e.lengths)  s == Len(e.strings)
             r == e.remaining
  <2>1. /\ {a, b, c, s} \subseteq Nat /\ r \in Int /\ r >= 0 /\ s <= MaxCount
        /\ a + r + 0 <= MaxCount /\ b + r + 0 <= MaxCount /\ c + r + 0 <= MaxCount
    BY <1>1, <1>3, <1>4, <1>5
  <2> HIDE DEF a, b, c, s, r
  <2>2. a \in 0..MaxCount /\ b \in 0..MaxCount /\ c \in 0..MaxCount /\ s \in 0..MaxCount
    BY <1>2, <2>1
  <2> QED
    BY <2>2 DEF a, b, c, s
<1> QED
  BY <1>1, <1>2, <1>3, <1>9, <1>10

\* The padding is a number, and there is none at the beginning.
LEMMA PaddingIs ==
    ASSUME NEW x \in Nat, NEW w \in {2, 4, 8}
    PROVE  Padding(x, w) \in 0..7 /\ Padding(0, w) = 0
<1>1. CASE w = 2
  BY <1>1 DEF Padding
<1>2. CASE w = 4
  BY <1>2 DEF Padding
<1>3. CASE w = 8
  BY <1>3 DEF Padding
<1> QED
  BY <1>1, <1>2, <1>3

\* The parts of a payload of version 4: the integers behind the number of texts and
\* their padding; the parts of both versions: the table, the types and the lengths
FirstIntegers(e) == Numbers(4, <<Len(e.strings)>> \o Tail(e.integers))
FirstPadding(e) == Zeros(Padding(Len(FirstIntegers(e)), 8))
Types(e) == Bytes(e.types)
Lengths(e) == Numbers(4, e.lengths)
Doubles(e) == Numbers(8, e.doubles)
Trailer == Number(4, TRAILER)

\* The parts of both versions are cells.
LEMMA PartsAre ==
    ASSUME NEW e, Collected(e)
    PROVE  /\ {Doubles(e), StringTable(e), Types(e), Lengths(e), Trailer} \subseteq Seq(Cells)
           /\ Len(Doubles(e)) = 8 * Len(e.doubles) /\ Len(StringTable(e)) = e.string_bytes
           /\ Len(Types(e)) = Len(e.types) /\ Len(Lengths(e)) = 4 * Len(e.lengths)
           /\ Len(Trailer) = 4
<1>1. e \in Encoders /\ Len(StringTable(e)) = e.string_bytes
  BY CollectedIs
<1>2. e.doubles \in Seq(Int) /\ e.types \in Seq(Int) /\ e.lengths \in Seq(Int)
      /\ e.strings \in Seq(Seq(Int))
  BY <1>1 DEF Encoders
<1>3. StringTable(e) = TableOf(e.strings)
  BY DEF StringTable, TableOf, TextCells
<1>4. TableOf(e.strings) \in Seq(Cells)
  BY <1>2, TableIs
<1>5. Trailer \in Seq(Cells) /\ Len(Trailer) = 4
  BY TrailerIs DEF Trailer
<1>6. Types(e) \in Seq(Cells) /\ Len(Types(e)) = Len(e.types)
  BY <1>2, BytesAre DEF Types
<1>7. Doubles(e) \in Seq(Cells) /\ Len(Doubles(e)) = 8 * Len(e.doubles)
  BY <1>2, NumbersAre DEF Doubles
<1>8. Lengths(e) \in Seq(Cells) /\ Len(Lengths(e)) = 4 * Len(e.lengths)
  BY <1>2, NumbersAre DEF Lengths
<1> QED
  BY <1>1, <1>3, <1>4, <1>5, <1>6, <1>7, <1>8

\* The integers of version 4 are cells, and so is the padding behind them.
LEMMA FirstIntegersAre ==
    ASSUME NEW e, Collected(e), ~e.version5
    PROVE  /\ FirstIntegers(e) \in Seq(Cells) /\ FirstPadding(e) \in Seq(Cells)
           /\ Len(FirstIntegers(e)) = 4 * Len(e.integers)
           /\ Len(FirstPadding(e)) = Padding(Len(FirstIntegers(e)), 8)
           /\ Tail(e.integers) \in Seq(Int)
<1>1. e.integers \in Seq(Int) /\ e.integers # <<>> /\ Len(e.strings) \in Int
  BY CollectedIs DEF Collected, Encoders
<1>2. Tail(e.integers) \in Seq(Int) /\ Len(Tail(e.integers)) = Len(e.integers) - 1
  BY <1>1, HeadTailProperties
<1> DEFINE x == Len(e.strings)  t == Tail(e.integers)  n == <<x>> \o t
<1>3. n \in Seq(Int) /\ Len(n) = Len(e.integers)
  <2>1. <<x>> \in Seq(Int) /\ Len(<<x>>) = 1 /\ t \in Seq(Int) /\ Len(e.integers) \in Nat
    BY <1>1, <1>2, LenProperties
  <2> HIDE DEF x, t
  <2>2. n \in Seq(Int) /\ Len(n) = Len(<<x>>) + Len(t)
    BY <2>1, ConcatProperties
  <2> QED
    BY <1>2, <2>1, <2>2 DEF t
<1> HIDE DEF n
<1>4. Numbers(4, n) \in Seq(Cells) /\ Len(Numbers(4, n)) = 4 * Len(n)
  BY <1>3, NumbersAre
<1>5. FirstIntegers(e) = Numbers(4, n)
  BY DEF FirstIntegers, n
<1>6. Len(FirstIntegers(e)) \in Nat
  BY <1>4, <1>5, LenProperties
<1> DEFINE k == Len(FirstIntegers(e))
<1>7. k \in Nat
  BY <1>6
<1> HIDE DEF k
<1>8. Padding(k, 8) \in Nat
  BY <1>7, PaddingIs
<1>9. FirstPadding(e) \in Seq(Cells) /\ Len(FirstPadding(e)) = Padding(k, 8)
  BY <1>8, ZerosAre DEF FirstPadding, k
<1> QED
  BY <1>2, <1>3, <1>4, <1>5, <1>9 DEF k

\* What follows the doubles of a payload of version 4
BehindDoubles(e) == (StringTable(e) \o Types(e)) \o (Lengths(e) \o Trailer)

\* A payload of version 4 as it is read, and its length.
LEMMA OlderPayload ==
    ASSUME NEW e, Collected(e), ~e.version5
    PROVE  /\ BuildPayload(e) =
                FirstIntegers(e) \o (FirstPadding(e) \o (Doubles(e) \o BehindDoubles(e)))
           /\ BuildPayload(e) \in Seq(Cells) /\ BehindDoubles(e) \in Seq(Cells)
           /\ e.string_bytes + Len(e.types) <= Len(BuildPayload(e))
<1> DEFINE i == FirstIntegers(e)  q == FirstPadding(e)  d == Doubles(e)  t == StringTable(e)
           y == Types(e)  l == Lengths(e)  x == Trailer
<1>1. {d, t, y, l, x} \subseteq Seq(Cells) /\ Len(t) = e.string_bytes /\ Len(y) = Len(e.types)
  BY PartsAre
<1>2. i \in Seq(Cells) /\ q \in Seq(Cells)
  BY FirstIntegersAre
<1>3. BuildPayload(e) = OlderWritten(i, q, d, t, y, l, x)
  BY DEF BuildPayload, Ending, OlderWritten, FirstIntegers, FirstPadding, Doubles,
     Types, Lengths,
         Trailer
<1>4. BehindDoubles(e) = (t \o y) \o (l \o x)
  BY DEF BehindDoubles
<1> HIDE DEF i, q, d, t, y, l, x
<1>5. {i, q, d, t, y, l, x} \subseteq Seq(Cells)
  BY <1>1, <1>2
<1>6. /\ OlderWritten(i, q, d, t, y, l, x) = OlderRead(i, q, d, t, y, l, x)
      /\ OlderWritten(i, q, d, t, y, l, x) \in Seq(Cells)
      /\ Len(OlderWritten(i, q, d, t, y, l, x)) = LengthOf(i, q, d, t, y, l, x)
  BY ONLY <1>5, OlderParts
<1>7. LengthOf(i, q, d, t, y, l, x) >= Len(t) + Len(y)
  <2>1. Len(i) \in Nat /\ Len(q) \in Nat /\ Len(d) \in Nat /\ Len(l) \in Nat /\ Len(x) \in Nat
        /\ Len(t) \in Nat /\ Len(y) \in Nat
    BY <1>5, LenProperties
  <2> QED
    BY <2>1 DEF LengthOf
<1>8. BehindDoubles(e) \in Seq(Cells)
  <2> DEFINE a == t \o y  b == l \o x
  <2>1. a \in Seq(Cells) /\ b \in Seq(Cells)
    BY <1>5, Joined
  <2> HIDE DEF a, b
  <2>2. a \o b \in Seq(Cells)
    BY ONLY <2>1, Joined
  <2> QED
    BY <1>4, <2>2 DEF a, b
<1>9. OlderRead(i, q, d, t, y, l, x) = i \o (q \o (d \o BehindDoubles(e)))
  BY <1>4 DEF OlderRead
<1>10. /\ BuildPayload(e) = i \o (q \o (d \o BehindDoubles(e))) /\ BuildPayload(e) \in Seq(Cells)
       /\ e.string_bytes + Len(e.types) <= Len(BuildPayload(e))
  BY <1>1, <1>3, <1>6, <1>7, <1>9
<1> QED
  BY <1>8, <1>10 DEF i, q, d

-----------------------------------------------------------------------------
(* A file of version 4. *)

\* The streams of a buffer
BufferHas(buffer, bytes, integers, doubles) ==
    /\ buffer["bytes"] = bytes /\ buffer["shorts"] = <<>>
    /\ buffer["integers"] = integers /\ buffer["doubles"] = doubles

\* The number of texts is the first of the integers, and the others are behind it.
LEMMA CountTaken ==
    ASSUME NEW c, NEW counts, NEW force, NEW bytes, NEW x \in Int, NEW t \in Seq(Int),
           NEW doubles, NEW b,
           StreamsFound(ReadStreams(c, counts, force), bytes, Numbers(4, <<x>> \o t), doubles, b)
    PROVE  LET r == ReadStreams(c, counts, force)
           IN  TextCount(r) = x /\ BufferHas(AfterCount(r), bytes, Numbers(4, t), doubles)
<1> DEFINE r == ReadStreams(c, counts, force)  s == Numbers(4, <<x>> \o t)
<1>1. r = [bytes |-> r.bytes, shorts |-> r.shorts, integers |-> r.integers,
           doubles |-> r.doubles, cursor |-> r.cursor]
  BY DEF ReadStreams
<1>2. ReadNumber(Cursor(s), 4).number = x /\ SubSeq(s, 5, Len(s)) = Numbers(4, t)
  BY FirstIsRead
<1>3. r.bytes = bytes /\ r.shorts = <<>> /\ r.integers = s /\ r.doubles = doubles
  BY DEF StreamsFound
<1> HIDE DEF r, s
<1>4. AfterCount(r) = [r EXCEPT !.integers = SubSeq(s, 5, Len(s))]
  BY <1>1, <1>3 DEF AfterCount
<1>5. BufferHas(AfterCount(r), bytes, Numbers(4, t), doubles)
  BY <1>1, <1>2, <1>3, <1>4 DEF BufferHas
<1>6. TextCount(r) = x
  BY <1>2, <1>3 DEF TextCount
<1> QED
  BY <1>5, <1>6 DEF r

\* What the header of version 4 says
SaysCounts(h, bytes, integers, doubles) ==
    h.counts.bytes = bytes /\ h.counts.shorts = 0 /\ h.counts.integers = integers
        /\ h.counts.doubles = doubles
SaysSizes(h, types, decoded, encoded) ==
    h.type_size = types /\ h.decoded_size = decoded /\ h.encoded_size = encoded

\* The header that build_header writes is decoded to the sizes and counts that it was made of.
LEMMA OlderHeader ==
    ASSUME NEW e, Collected(e), NEW size \in 0..MaxBytes, Len(e.integers) <= MaxCount,
           size + Len(e.blobs) <= MaxBytes, e.string_bytes + Len(e.types) <= MaxBytes
    PROVE  LET f == BuildHeader(e, size)
           IN  /\ SaysCounts(Header(4, f), 0, Len(e.integers), Len(e.doubles))
               /\ SaysSizes(Header(4, f), e.string_bytes + Len(e.types), size, size)
               /\ SaysBlobs(Header(4, f), e)
               /\ HeaderIsValid(4, f) /\ Len(f) = HeaderFields[4]
<1> DEFINE f == BuildHeader(e, size)  h == Header(4, f)  ints == Len(e.integers)
           dbls == Len(e.doubles)  types == e.string_bytes + Len(e.types)
           many == Len(e.lengths)  blobs == Len(e.blobs)
<1>0. MaxCount \in Nat /\ MaxBytes \in Nat /\ MaxCount <= MaxBytes
  BY LimitsAssumption
<1>1. /\ ints \in 0..MaxCount /\ dbls \in 0..MaxCount /\ many \in 0..MaxCount
      /\ types \in 0..MaxBytes /\ blobs \in 0..MaxBytes /\ size + blobs <= MaxBytes
  BY CollectedIs, SMTT(60)
<1>2. f = <<0, 0, 0, ints, dbls, types, 0, size, size, many, blobs, 0, 0>>
  BY DEF BuildHeader
<1> HIDE DEF f, ints, dbls, types, many, blobs
<1>3. h = [compression |-> 0, frame_size |-> 0 \div 65536,
           counts |-> Counts(0, 0, ints, dbls), type_size |-> types, decoded_size |-> size,
           encoded_size |-> size, blob_count |-> many, blob_size |-> blobs,
           blob_frame_count |-> 0 \div 2]
  BY <1>2 DEF Header
<1>4. 0 \div 65536 = 0 /\ 0 \div 2 = 0 /\ 0 % 65536 = 0 /\ 0 % 2 = 0
  OBVIOUS
<1> HIDE DEF h
<1>5. SaysCounts(h, 0, ints, dbls) /\ SaysSizes(h, types, size, size)
  BY <1>3 DEF SaysCounts, SaysSizes, Counts
<1>6. SaysBlobs(h, e)
  BY <1>1, <1>3, <1>4 DEF SaysBlobs, many, blobs
<1>7. CountsInLimits(h.counts)
  BY <1>0, <1>1, <1>3 DEF CountsInLimits, Counts, IsLength, IsCount
<1>8. /\ h.type_size \in 0..MaxBytes /\ h.decoded_size \in 0..MaxBytes
      /\ h.encoded_size \in 0..MaxBytes /\ h.blob_size \in 0..MaxBytes
      /\ h.decoded_size + h.blob_size <= MaxBytes /\ h.blob_count \in 0..MaxCount
  BY <1>1, <1>3
<1>9. <<h.compression, h.frame_size>> \in {<<0, 0>>, <<2, 0>>, <<1, 16384>>}
  BY <1>3, <1>4
<1>10. f[2] = 0 /\ f[13] = 0 /\ Len(f) = 13
  BY <1>2
<1>11. HeaderIsValid(4, f)
  BY <1>0, <1>4, <1>7, <1>8, <1>9, <1>10, SMTT(60)
     DEF HeaderIsValid, h, IsLength, IsCount, Fits
<1>12. HeaderFields[4] = 13
  BY DEF HeaderFields
<1> QED
  BY <1>5, <1>6, <1>10, <1>11, <1>12 DEF f, h, ints, dbls, types

\* The streams of a payload of version 4 are found.
LEMMA OlderStreams ==
    ASSUME NEW e, Collected(e), ~e.version5, NEW h,
           SaysCounts(h, 0, Len(e.integers), Len(e.doubles))
    PROVE  StreamsFound(ReadStreams(Cursor(BuildPayload(e)), h.counts, TRUE),
                        <<>>, FirstIntegers(e), Doubles(e), BehindDoubles(e))
<1> DEFINE i == FirstIntegers(e)  q == FirstPadding(e)  d == Doubles(e)  b == BehindDoubles(e)
           none == <<>>  c == Cursor(BuildPayload(e))  counts == h.counts  force == TRUE
           rest == i \o (q \o (d \o b))
<1>1. BuildPayload(e) = rest /\ BuildPayload(e) \in Seq(Cells) /\ b \in Seq(Cells)
  BY OlderPayload
<1>2. i \in Seq(Cells) /\ q \in Seq(Cells) /\ Len(i) = 4 * Len(e.integers)
      /\ Len(q) = Padding(Len(i), 8)
  BY FirstIntegersAre
<1>3. d \in Seq(Cells) /\ Len(d) = 8 * Len(e.doubles)
  BY PartsAre
<1>4. Ahead(c, rest) /\ c.at = 0
  BY <1>1, AheadStarts
<1>5. /\ counts.bytes = 0 /\ counts.shorts = 0 /\ counts.integers = Len(e.integers)
      /\ counts.doubles = Len(e.doubles)
  BY DEF SaysCounts
<1>6. none \in Seq(Cells) /\ Len(none) = 0 /\ none = <<>>
  OBVIOUS
<1>7. Len(i) \in Nat
  BY <1>2, LenProperties
<1>r. rest \in Seq(Cells)
  BY <1>1
<1> HIDE DEF i, q, d, b, none, c, counts, rest, force
<1>8. none \o rest = rest
  BY ONLY <1>6, <1>r, ConcatEmptySeq
<1>9. Ahead(c, none \o (none \o (i \o (q \o (d \o b)))))
  BY ONLY <1>4, <1>8 DEF rest
<1>10. Padding(0, 2) = 0 /\ Padding(0, 4) = 0
  BY PaddingIs
<1>11. c.at + Len(none) = 0 /\ c.at + Len(none) + Len(none) + Len(i) = Len(i)
  BY <1>4, <1>6, <1>7
<1>12. force = TRUE
  BY DEF force
<1>13. Aligned(c.at + Len(none), 0, 2, force, <<>>)
  BY <1>6, <1>10, <1>11, <1>12 DEF Aligned
<1>14. Aligned(c.at + Len(none), counts.integers, 4, force, none)
  BY <1>6, <1>10, <1>11, <1>12 DEF Aligned
<1>15. Aligned(c.at + Len(none) + Len(none) + Len(i), counts.doubles, 8, force, q)
  BY <1>2, <1>11, <1>12 DEF Aligned
<1>16. /\ counts.bytes = Len(none) /\ counts.shorts = 0 /\ 4 * counts.integers = Len(i)
       /\ 8 * counts.doubles = Len(d)
  BY <1>2, <1>3, <1>5, <1>6
<1>17. StreamsFound(ReadStreams(c, counts, force), none, i, d, b)
  BY ONLY <1>1, <1>2, <1>3, <1>6, <1>9, <1>13, <1>14, <1>15, <1>16, StreamsTaken
<1> QED
  BY <1>17 DEF none, i, d, b, c, counts, force

\* A file that consists of these parts and is not too long for its reader
IsFileOf(file, version, fields, payload, e, z) ==
    /\ file.magic = version /\ file.fields = fields
    /\ file.body = (payload \o BlobCells(e)) \o Zeros(z)
    /\ payload \in Seq(Cells) /\ Len(payload) + Len(e.blobs) <= MaxBytes

\* Its body begins with the payload, and the blobs and the zero bytes follow.
LEMMA BodyBegins ==
    ASSUME NEW e, Collected(e), NEW z \in 0..15, NEW payload, NEW file, NEW version, NEW fields,
           IsFileOf(file, version, fields, payload, e, z)
    PROVE  /\ Ahead(Cursor(file.body), payload \o (BlobCells(e) \o Zeros(z)))
           /\ BlobCells(e) \o Zeros(z) \in Seq(Cells) /\ Len(payload) \in 0..MaxBytes
           /\ BlobCells(e) \in Seq(Cells) /\ Zeros(z) \in Seq(Cells)
<1> DEFINE b == BlobCells(e)  o == Zeros(z)  rest == b \o o  all == (payload \o b) \o o
<1>1. e \in Encoders /\ Sound(e, 0) /\ Len(e.blobs) \in Nat /\ MaxBytes \in Nat
  BY CollectedIs
<1>2. b \in Seq(Cells) /\ o \in Seq(Cells) /\ payload \in Seq(Cells) /\ file.body = all
      /\ Len(payload) + Len(e.blobs) <= MaxBytes
  <2>1. b \in Seq(Cells)
    BY <1>1, BlobCellsAre
  <2>2. z \in Nat
    OBVIOUS
  <2>3. o \in Seq(Cells)
    BY <2>2, ZerosAre
  <2> QED
    BY <2>1, <2>3 DEF IsFileOf
<1> HIDE DEF b, o
<1>3. rest \in Seq(Cells)
  BY ONLY <1>2, Joined
<1>4. payload \o rest \in Seq(Cells) /\ Len(payload) \in Nat
  BY ONLY <1>2, <1>3, Joined
<1>5. all = payload \o rest
  BY ONLY <1>2, Regrouped
<1>6. Ahead(Cursor(payload \o rest), payload \o rest)
  BY <1>4, AheadStarts
<1>7. Len(payload) \in 0..MaxBytes
  BY <1>1, <1>2, <1>4
<1>8. /\ Ahead(Cursor(file.body), payload \o rest) /\ rest \in Seq(Cells)
      /\ Len(payload) \in 0..MaxBytes /\ b \in Seq(Cells) /\ o \in Seq(Cells)
  BY <1>2, <1>3, <1>5, <1>6, <1>7
<1> QED
  BY <1>8 DEF b, o

\* The blobs of version 4 are found where they are.
LEMMA OlderBlobs ==
    ASSUME NEW e, Collected(e), NEW file, NEW h, SaysBlobs(h, e), NEW z \in Seq(Cells),
           NEW input, Ahead(input, BlobCells(e) \o z), NEW payload, Ahead(payload, <<>>)
    PROVE  LET r == ReadOlderBlobs(file, h, input, payload)
           IN  r.cells = Bytes(e.blobs) /\ Ahead(r.input, z) /\ Finished(r.payload)
<1> DEFINE r == ReadOlderBlobs(file, h, input, payload)
<1>1. e \in Encoders /\ Sound(e, 0)
  BY CollectedIs
<1>2. /\ Part(input, h.blob_size) = Bytes(e.blobs)
      /\ Ahead(EndBlobs(h, Read(input, h.blob_size)), z)
      /\ h.blob_size = 0 => Ahead(EndBlobs(h, input), z) /\ Bytes(e.blobs) = <<>>
  BY <1>1, BlobsTaken
<1>3. h.compression = 0
  BY DEF SaysBlobs
<1>4. Remaining(payload) = 0 /\ Finished(payload)
  BY AheadAll
<1>5. Part(payload, 0) = <<>> /\ Ahead(Read(payload, 0), <<>>)
  BY NothingTaken
<1>6. Finished(Read(payload, 0))
  BY <1>5, AheadAll
<1>7. CASE h.blob_size = 0
  <2>1. r = [cells |-> Part(payload, 0), input |-> EndBlobs(h, input),
             payload |-> Read(payload, 0)]
    BY <1>3, <1>4, <1>7 DEF ReadOlderBlobs
  <2> HIDE DEF r
  <2>2. r.cells = Bytes(e.blobs) /\ Ahead(r.input, z) /\ Finished(r.payload)
    BY <1>2, <1>5, <1>6, <1>7, <2>1
  <2> QED
    BY <2>2 DEF r
<1>8. CASE h.blob_size # 0
  <2>1. r = [cells |-> Part(input, h.blob_size), input |-> EndBlobs(h, Read(input, h.blob_size)),
             payload |-> payload]
    BY <1>3, <1>4, <1>8 DEF ReadOlderBlobs
  <2> HIDE DEF r
  <2>2. r.cells = Bytes(e.blobs) /\ Ahead(r.input, z) /\ Finished(r.payload)
    BY <1>2, <1>4, <2>1
  <2> QED
    BY <2>2 DEF r
<1> QED
  BY <1>7, <1>8

\* The types are what is left behind the texts.
LEMMA TypesTaken ==
    ASSUME NEW e, Collected(e), NEW c, Ahead(c, StringTable(e) \o Types(e))
    PROVE  LET table == ReadTable(Len(e.strings), c)
           IN  /\ table.strings = e.strings /\ table.cursor.at >= 0
               /\ Part(table.cursor, Remaining(table.cursor)) = Types(e)
<1>1. e \in Encoders /\ Sound(e, 0)
  BY CollectedIs
<1>2. Types(e) \in Seq(Cells)
  BY PartsAre
<1>3. ReadTable(Len(e.strings), c).strings = e.strings
      /\ Ahead(ReadTable(Len(e.strings), c).cursor, Types(e))
  BY <1>1, <1>2, TableTaken
<1> QED
  BY <1>3, AheadAll

\* What a body makes of a decoder from which this root is read
Gives(body, root, z) == body.root = root /\ Ahead(body.input, z)

\* A file of version 4 whose header says so is not compressed.
LEMMA OlderUnpacked ==
    ASSUME NEW file, NEW h, h = Header(file.magic, file.fields), NEW size \in Nat,
           h.compression = 0, h.decoded_size = size, h.encoded_size = size
    PROVE  ReadV2V4(file) =
             PayloadV2V4(file, h, ReadStreams(Decompress(file, Cursor(file.body), size, size, 0),
                                              h.counts, TRUE))
<1>1. size + (IF 0 = 2 THEN h.blob_size ELSE 0) = size
  OBVIOUS
<1> QED
  BY <1>1, Zenon DEF ReadV2V4

\* The header of a file of version 4 says what its payload and blobs have.
LEMMA OlderSays ==
    ASSUME NEW e, Collected(e), ~e.version5, Len(e.integers) <= MaxCount, NEW z \in 0..15,
           NEW file,
           IsFileOf(file, 4, BuildHeader(e, Len(BuildPayload(e))), BuildPayload(e), e, z)
    PROVE  LET size == Len(BuildPayload(e))
               f    == BuildHeader(e, size)
           IN  /\ SaysCounts(Header(4, f), 0, Len(e.integers), Len(e.doubles))
               /\ SaysSizes(Header(4, f), e.string_bytes + Len(e.types), size, size)
               /\ SaysBlobs(Header(4, f), e) /\ HeaderIsValid(4, f)
               /\ Len(f) = HeaderFields[4]
<1> DEFINE size == Len(BuildPayload(e))  types == e.string_bytes + Len(e.types)
<1>1. size \in 0..MaxBytes
  BY BodyBegins
<1>2. size + Len(e.blobs) <= MaxBytes
  BY DEF IsFileOf
<1>3. types <= size
  BY OlderPayload
<1>4. types \in Nat /\ MaxBytes \in Nat
  BY CollectedIs
<1> HIDE DEF size
<1>5. e.string_bytes + Len(e.types) <= MaxBytes
  <2> HIDE DEF types
  <2>1. types <= MaxBytes
    BY <1>1, <1>3, <1>4
  <2> QED
    BY <2>1 DEF types
<1>6. LET f == BuildHeader(e, size)
      IN  /\ SaysCounts(Header(4, f), 0, Len(e.integers), Len(e.doubles))
          /\ SaysSizes(Header(4, f), e.string_bytes + Len(e.types), size, size)
          /\ SaysBlobs(Header(4, f), e) /\ HeaderIsValid(4, f)
          /\ Len(f) = HeaderFields[4]
  BY <1>1, <1>2, <1>5, OlderHeader
<1> QED
  BY <1>6 DEF size

\* The body of a file of version 4 gives the root, if the decoder does.
LEMMA OlderBodyIsRead ==
    ASSUME NEW e, Collected(e), ~e.version5, Len(e.integers) <= MaxCount, NEW z \in 0..15,
           NEW file,
           IsFileOf(file, 4, BuildHeader(e, Len(BuildPayload(e))), BuildPayload(e), e, z),
           NEW root,
           \A buffer : HasBuffer(buffer, Numbers(4, Tail(e.integers)), Doubles(e)) =>
               ReadRoot(OlderDecoder(buffer, e)) = root
    PROVE  /\ Gives(ReadV2V4(file), root, Zeros(z))
           /\ HeaderIsValid(4, file.fields) /\ Len(file.fields) = HeaderFields[4]
<1> DEFINE payload == BuildPayload(e)  size == Len(payload)  f == BuildHeader(e, size)
           h == Header(4, f)  b == BlobCells(e)  o == Zeros(z)
           t == StringTable(e) \o Types(e)  l == Lengths(e) \o Trailer
<1>1. /\ Ahead(Cursor(file.body), payload \o (b \o o)) /\ size \in 0..MaxBytes
      /\ b \o o \in Seq(Cells) /\ o \in Seq(Cells)
  BY BodyBegins
<1>2. file.magic = 4 /\ file.fields = f /\ size + Len(e.blobs) <= MaxBytes
  BY DEF IsFileOf
<1>3. payload \in Seq(Cells) /\ e.string_bytes + Len(e.types) <= size
  BY OlderPayload
<1>4. e \in Encoders /\ Sound(e, 0) /\ Len(e.types) \in Nat /\ e.string_bytes \in Nat
      /\ Len(e.strings) \in Int /\ MaxBytes \in Nat
  BY CollectedIs
<1>5. /\ SaysCounts(h, 0, Len(e.integers), Len(e.doubles))
      /\ SaysSizes(h, e.string_bytes + Len(e.types), size, size)
      /\ SaysBlobs(h, e) /\ HeaderIsValid(4, f) /\ Len(f) = HeaderFields[4]
  BY OlderSays
<1>6. /\ h.compression = 0 /\ h.type_size = e.string_bytes + Len(e.types)
      /\ h.decoded_size = size /\ h.encoded_size = size
  BY <1>5 DEF SaysSizes, SaysBlobs
<1> DEFINE r == ReadStreams(Cursor(payload), h.counts, TRUE)  input == Read(Cursor(file.body), size)
<1>7. StreamsFound(r, <<>>, FirstIntegers(e), Doubles(e), t \o l)
  <2>1. StreamsFound(r, <<>>, FirstIntegers(e), Doubles(e), BehindDoubles(e))
    BY <1>5, OlderStreams
  <2> QED
    BY <2>1 DEF BehindDoubles
<1>8. TextCount(r) = Len(e.strings)
      /\ HasBuffer(AfterCount(r), Numbers(4, Tail(e.integers)), Doubles(e))
  <2> DEFINE x == Len(e.strings)  n == Tail(e.integers)  c == Cursor(payload)  k == h.counts
  <2>1. x \in Int /\ n \in Seq(Int)
    BY <1>4, FirstIntegersAre
  <2>2. FirstIntegers(e) = Numbers(4, <<x>> \o n)
    BY DEF FirstIntegers
  <2> HIDE DEF x, n, c, k
  <2>3. StreamsFound(ReadStreams(c, k, TRUE), <<>>, Numbers(4, <<x>> \o n), Doubles(e), t \o l)
    BY <1>7, <2>2 DEF c, k
  <2> DEFINE none == <<>>
  <2>4. StreamsFound(ReadStreams(c, k, TRUE), none, Numbers(4, <<x>> \o n), Doubles(e), t \o l)
    BY <2>3
  <2> HIDE DEF none
  <2>5. TextCount(ReadStreams(c, k, TRUE)) = x
        /\ BufferHas(AfterCount(ReadStreams(c, k, TRUE)), none, Numbers(4, n), Doubles(e))
    BY ONLY <2>1, <2>4, CountTaken
  <2> QED
    BY <2>5 DEF x, n, c, k, none, BufferHas, HasBuffer
<1>t. /\ Decompress(file, Cursor(file.body), size, size, 0) = Cursor(payload)
      /\ Ahead(Read(Cursor(file.body), size), b \o o)
  <2> DEFINE rest == b \o o  c == Cursor(file.body)
  <2>1. rest \in Seq(Cells) /\ payload \in Seq(Cells) /\ Ahead(c, payload \o rest)
        /\ size = Len(payload) /\ size <= MaxBytes
    BY <1>1, <1>3, <1>4
  <2> HIDE DEF rest, c, payload, size
  <2>2. Decompress(file, c, size, size, 0) = Cursor(payload) /\ Ahead(Read(c, size), rest)
    BY ONLY <2>1, PlainPart, ZenonT(60)
  <2> QED
    BY <2>2 DEF rest, c
<1>9. ReadV2V4(file) = PayloadV2V4(file, h, r)
  <2>1. Decompress(file, Cursor(file.body), size, size, 0) = Cursor(payload)
    BY <1>t
  <2>2. Header(file.magic, file.fields) = h
    BY <1>2
  <2> HIDE DEF payload, size, h
  <2>3. ReadV2V4(file) =
          PayloadV2V4(file, h, ReadStreams(Decompress(file, Cursor(file.body), size, size, 0),
                                           h.counts, TRUE))
    <3>1. size \in Nat
      BY <1>1, <1>4
    <3> QED
      BY <1>6, <2>2, <3>1, OlderUnpacked
  <2> QED
    BY <2>1, <2>3
<1>10. Ahead(input, b \o o)
  BY <1>t
<1> HIDE DEF payload, size, f, h, b, o, r, input
<1>11. t \in Seq(Cells) /\ l \in Seq(Cells) /\ Len(t) = h.type_size
  <2> DEFINE a == StringTable(e)  y == Types(e)  g == Lengths(e)  x == Trailer
  <2>1. {a, y, g, x} \subseteq Seq(Cells) /\ Len(a) = e.string_bytes /\ Len(y) = Len(e.types)
    BY PartsAre
  <2> HIDE DEF a, y, g, x
  <2>2. a \o y \in Seq(Cells) /\ Len(a \o y) = Len(a) + Len(y)
    BY ONLY <2>1, Joined
  <2>3. g \o x \in Seq(Cells)
    BY ONLY <2>1, Joined
  <2> QED
    BY <1>6, <2>1, <2>2, <2>3 DEF a, y, g, x
<1> HIDE DEF t, l
<1> DEFINE rest == Read(r.cursor, h.type_size)  lengths == ReadBlobLengths(rest, h)
           part == Cursor(Part(r.cursor, h.type_size))
           table == ReadTable(Len(e.strings), part)
           blobs == ReadOlderBlobs(file, h, input, lengths.cursor)
<1>12. Part(r.cursor, h.type_size) = t /\ Ahead(rest, l)
  <2>1. Ahead(r.cursor, t \o l)
    BY <1>7 DEF StreamsFound
  <2> QED
    BY <1>11, <2>1, AheadTaken
<1>13. lengths.lengths = e.lengths /\ Ahead(lengths.cursor, <<>>)
  <2>1. Ahead(rest, Numbers(4, e.lengths) \o Number(4, TRAILER))
    BY <1>12 DEF l, Lengths, Trailer
  <2> HIDE DEF rest
  <2> QED
    BY <1>4, <1>5, <2>1, LengthsTaken DEF lengths
<1>14. Ahead(part, t)
  BY <1>11, <1>12, AheadStarts
<1>15. /\ table.strings = e.strings /\ table.cursor.at >= 0
       /\ Part(table.cursor, Remaining(table.cursor)) = Types(e)
  <2>1. Ahead(part, StringTable(e) \o Types(e))
    BY <1>14 DEF t
  <2> HIDE DEF part
  <2> QED
    BY <2>1, TypesTaken
<1> HIDE DEF rest, lengths, part, table
<1>16. blobs.cells = Bytes(e.blobs) /\ Ahead(blobs.input, o) /\ Finished(blobs.payload)
  BY <1>1, <1>5, <1>10, <1>13, OlderBlobs DEF b, o
<1> HIDE DEF blobs
<1>17. ReadV2V4(file) = BodyV2V4(file, r, table, lengths, blobs)
  <2>1. PayloadV2V4(file, h, r) = BlobsV2V4(file, h, r, lengths)
    BY DEF PayloadV2V4, lengths, rest
  <2>2. BlobsV2V4(file, h, r, lengths) = BodyV2V4(file, r, table, lengths, blobs)
    BY <1>6, <1>8 DEF BlobsV2V4, table, part, blobs, input
  <2> QED
    BY <1>9, <2>1, <2>2
<1> DEFINE buffer == AfterCount(r)
<1>18. [Decoder(file.magic, AfterCount(r), Part(table.cursor, Remaining(table.cursor)),
                table.strings)
           EXCEPT !.blobs = blobs.cells, !.lengths = lengths.lengths] = OlderDecoder(buffer, e)
  BY <1>2, <1>13, <1>15, <1>16 DEF OlderDecoder, Types
<1>19. blobs.input.at >= 0
  BY <1>16, AheadAll
<1>20. ReadV2V4(file) = [root |-> ReadRoot(OlderDecoder(buffer, e)), input |-> blobs.input]
  BY <1>15, <1>16, <1>17, <1>18, <1>19 DEF BodyV2V4, Body
<1>21. ReadRoot(OlderDecoder(buffer, e)) = root
  BY <1>8
<1> QED
  BY <1>2, <1>5, <1>16, <1>20, <1>21 DEF Gives, f, o

-----------------------------------------------------------------------------
(* The payload of version 5 and its two buffers. *)

\* The parts that a payload of version 5 has besides
TextPadding(e) == Zeros(Padding(e.string_bytes, 4))
TextNumber(e) == Number(4, Len(e.strings))
FirstBuffer(e) == (StringTable(e) \o TextPadding(e)) \o TextNumber(e)
ObjectCounts(e) == Numbers(4, e.objects)
AllIntegers(e) == Numbers(4, e.integers)
SecondPadding(e) ==
    Zeros(IF e.doubles = <<>> THEN 0 ELSE Padding(Len(ObjectCounts(e) \o AllIntegers(e)), 8))
SecondBuffer(e) ==
    SecondRead(ObjectCounts(e), AllIntegers(e), SecondPadding(e), Doubles(e), Types(e), Lengths(e),
               Trailer)

\* They are cells.
LEMMA NewerPartsAre ==
    ASSUME NEW e, Collected(e)
    PROVE  /\ {TextPadding(e), TextNumber(e), ObjectCounts(e), AllIntegers(e), SecondPadding(e)}
                 \subseteq Seq(Cells)
           /\ Len(TextPadding(e)) = Padding(e.string_bytes, 4)
           /\ TextNumber(e) = Numbers(4, <<Len(e.strings)>> \o <<>>) /\ Len(TextNumber(e)) = 4
           /\ Len(ObjectCounts(e)) = 4 * Len(e.objects)
           /\ Len(AllIntegers(e)) = 4 * Len(e.integers)
           /\ IF e.doubles = <<>> THEN SecondPadding(e) = <<>>
              ELSE Len(SecondPadding(e)) = Padding(4 * Len(e.objects) + 4 * Len(e.integers), 8)
<1>1. /\ e.objects \in Seq(Int) /\ e.integers \in Seq(Int) /\ e.string_bytes \in Nat
      /\ Len(e.strings) \in Int /\ Len(e.objects) \in Nat /\ Len(e.integers) \in Nat
  BY CollectedIs DEF Encoders
<1>2. Padding(e.string_bytes, 4) \in Nat
  <2>1. Padding(e.string_bytes, 4) \in 0..7
    BY <1>1, PaddingIs
  <2> QED
    BY <2>1
<1>3. TextPadding(e) \in Seq(Cells) /\ Len(TextPadding(e)) = Padding(e.string_bytes, 4)
  BY <1>2, ZerosAre DEF TextPadding
<1>4. /\ TextNumber(e) = Numbers(4, <<Len(e.strings)>> \o <<>>) /\ TextNumber(e) \in Seq(Cells)
      /\ Len(TextNumber(e)) = 4
  <2> DEFINE x == Len(e.strings)  n == <<x>>
  <2>1. x \in Int
    BY <1>1
  <2> HIDE DEF x
  <2>2. n \in Seq(Int) /\ Len(n) = 1 /\ n \o <<>> = n
    BY <2>1
  <2>3. Number(4, x) = Numbers(4, n)
    BY <2>1, NumberIs
  <2> HIDE DEF n
  <2>4. Numbers(4, n) \in Seq(Cells) /\ Len(Numbers(4, n)) = 4 * Len(n)
    BY <2>2, NumbersAre
  <2>5. TextNumber(e) = Number(4, x)
    BY DEF TextNumber, x
  <2> QED
    BY <2>2, <2>3, <2>4, <2>5 DEF n, x
<1>5. ObjectCounts(e) \in Seq(Cells) /\ Len(ObjectCounts(e)) = 4 * Len(e.objects)
  BY <1>1, NumbersAre DEF ObjectCounts
<1>6. AllIntegers(e) \in Seq(Cells) /\ Len(AllIntegers(e)) = 4 * Len(e.integers)
  BY <1>1, NumbersAre DEF AllIntegers
<1> DEFINE k == 4 * Len(e.objects) + 4 * Len(e.integers)
           n == IF e.doubles = <<>> THEN 0 ELSE Padding(k, 8)
<1>7. Len(ObjectCounts(e) \o AllIntegers(e)) = k
  <2>1. Len(ObjectCounts(e) \o AllIntegers(e)) = Len(ObjectCounts(e)) + Len(AllIntegers(e))
    BY <1>5, <1>6, Joined
  <2> QED
    BY <1>5, <1>6, <2>1
<1>8. k \in Nat
  <2> DEFINE a == Len(e.objects)  b == Len(e.integers)
  <2>1. a \in Nat /\ b \in Nat
    BY <1>1
  <2> HIDE DEF a, b
  <2>2. 4 * a + 4 * b \in Nat
    BY <2>1
  <2> QED
    BY <2>2 DEF a, b
<1> HIDE DEF k
<1>9. n \in Nat
  BY <1>8, PaddingIs
<1>10. SecondPadding(e) = Zeros(n)
  BY <1>7 DEF SecondPadding
<1> HIDE DEF n
<1>11. Zeros(n) \in Seq(Cells) /\ Len(Zeros(n)) = n
  BY <1>9, ZerosAre
<1>12. n = 0 => Zeros(n) = <<>>
  BY <1>11, EmptySeq
<1>13. IF e.doubles = <<>> THEN SecondPadding(e) = <<>> ELSE Len(SecondPadding(e)) = Padding(k, 8)
  BY <1>10, <1>11, <1>12 DEF n
<1> QED
  BY <1>3, <1>4, <1>5, <1>6, <1>10, <1>11, <1>13 DEF k

\* The first buffer as it is read, and its length.
LEMMA FirstBufferIs ==
    ASSUME NEW e, Collected(e)
    PROVE  /\ FirstBuffer(e) = StringTable(e) \o (TextPadding(e) \o TextNumber(e))
           /\ FirstBuffer(e) \in Seq(Cells) /\ Len(FirstBuffer(e)) = FirstBufferSize(e)
<1> DEFINE t == StringTable(e)  p == TextPadding(e)  n == TextNumber(e)
<1>1. t \in Seq(Cells) /\ Len(t) = e.string_bytes
  BY PartsAre
<1>2. p \in Seq(Cells) /\ n \in Seq(Cells) /\ Len(p) = Padding(e.string_bytes, 4) /\ Len(n) = 4
  BY NewerPartsAre
<1>3. FirstBuffer(e) = (t \o p) \o n
  BY DEF FirstBuffer
<1> DEFINE a == t \o p
<1> HIDE DEF t, p, n
<1>4. a \in Seq(Cells) /\ Len(a) = Len(t) + Len(p)
  BY ONLY <1>1, <1>2, Joined
<1>5. (t \o p) \o n = t \o (p \o n)
  BY ONLY <1>1, <1>2, Regrouped
<1> HIDE DEF a
<1>6. a \o n \in Seq(Cells) /\ Len(a \o n) = Len(a) + Len(n)
  BY ONLY <1>2, <1>4, Joined
<1>7. FirstBuffer(e) = t \o (p \o n) /\ FirstBuffer(e) \in Seq(Cells)
      /\ Len(FirstBuffer(e)) = FirstBufferSize(e)
  BY <1>1, <1>2, <1>3, <1>4, <1>5, <1>6 DEF a, FirstBufferSize
<1> QED
  BY <1>7 DEF t, p, n

\* A payload of version 5 as it is read, and its length.
LEMMA NewerPayload ==
    ASSUME NEW e, Collected(e)
    PROVE  /\ BuildPayload5(e) = FirstBuffer(e) \o SecondBuffer(e)
           /\ BuildPayload5(e) \in Seq(Cells) /\ SecondBuffer(e) \in Seq(Cells)
           /\ FirstBuffer(e) \in Seq(Cells)
           /\ Len(FirstBuffer(e)) = FirstBufferSize(e)
           /\ Len(BuildPayload5(e)) = FirstBufferSize(e) + Len(SecondBuffer(e))
           /\ Len(SecondBuffer(e)) \in Nat /\ Len(e.types) <= Len(SecondBuffer(e))
           /\ FirstBufferSize(e) \in Nat /\ e.string_bytes <= FirstBufferSize(e)
<1> DEFINE f == FirstBuffer(e)  o == ObjectCounts(e)  j == AllIntegers(e)  q == SecondPadding(e)
           d == Doubles(e)  y == Types(e)  l == Lengths(e)  x == Trailer
<1>1. f \in Seq(Cells) /\ Len(f) = FirstBufferSize(e)
  BY FirstBufferIs
<1>2. BuildPayload5(e) = NewerWritten(f, o, j, q, d, y, l, x)
  BY DEF BuildPayload5, Ending, NewerWritten, FirstBuffer, TextPadding, TextNumber,
     ObjectCounts,
         AllIntegers, SecondPadding, Doubles, Types, Lengths, Trailer
<1>3. SecondBuffer(e) = SecondRead(o, j, q, d, y, l, x)
  BY DEF SecondBuffer
<1>4. {d, y, l, x} \subseteq Seq(Cells) /\ Len(y) = Len(e.types)
  BY PartsAre
<1>5. {o, j, q} \subseteq Seq(Cells)
  BY NewerPartsAre
<1> HIDE DEF f, o, j, q, d, y, l, x
<1>6. {f, o, j, q, d, y, l, x} \subseteq Seq(Cells)
  BY <1>1, <1>4, <1>5
<1> DEFINE all == NewerWritten(f, o, j, q, d, y, l, x)  rest == SecondRead(o, j, q, d, y, l, x)
           length == LengthOf(o, j, q, d, y, l, x)
<1>11. InOrder(all, f, rest, length)
  BY ONLY <1>6, NewerParts
<1>7. /\ all = f \o rest /\ all \in Seq(Cells) /\ rest \in Seq(Cells)
      /\ Len(all) = Len(f) + Len(rest) /\ Len(rest) = length
  BY <1>11 DEF InOrder
<1>8. LengthOf(o, j, q, d, y, l, x) \in Nat /\ LengthOf(o, j, q, d, y, l, x) >= Len(y)
  <2>1. Len(o) \in Nat /\ Len(j) \in Nat /\ Len(q) \in Nat /\ Len(d) \in Nat /\ Len(l) \in Nat
        /\ Len(x) \in Nat /\ Len(y) \in Nat
    BY <1>6, LenProperties
  <2> QED
    BY <2>1 DEF LengthOf
<1>9. FirstBufferSize(e) \in Nat /\ e.string_bytes <= FirstBufferSize(e)
  <2>1. e.string_bytes \in Nat
    BY CollectedIs
  <2>2. Padding(e.string_bytes, 4) \in 0..7
    BY <2>1, PaddingIs
  <2> QED
    BY <2>1, <2>2 DEF FirstBufferSize
<1>10. /\ BuildPayload5(e) = f \o SecondBuffer(e) /\ BuildPayload5(e) \in Seq(Cells)
       /\ SecondBuffer(e) \in Seq(Cells)
       /\ Len(BuildPayload5(e)) = FirstBufferSize(e) + Len(SecondBuffer(e))
       /\ Len(SecondBuffer(e)) \in Nat /\ Len(e.types) <= Len(SecondBuffer(e))
  BY <1>1, <1>2, <1>3, <1>4, <1>7, <1>8
<1> QED
  BY <1>1, <1>9, <1>10 DEF f

-----------------------------------------------------------------------------
(* A file of version 5. *)

\* What the header of version 5 says of the two buffers
SaysBuffers(v, first, second, objects) ==
    v.decoded[1] = first /\ v.decoded[2] = second /\ v.object_count = objects

\* The header of version 5 is decoded to the sizes, counts and buffers that it was made of.
LEMMA NewerHeader ==
    ASSUME NEW e, Collected(e), NEW size \in 0..MaxBytes, NEW first \in 0..size,
           first = FirstBufferSize(e), e.string_bytes <= first, Len(e.types) <= size,
           size + Len(e.blobs) <= MaxBytes, Len(e.integers) <= MaxCount
    PROVE  LET f == BuildHeader5(e, size)
           IN  /\ SaysCounts(Header(5, f), e.string_bytes, 1, 0)
               /\ SaysSizes(Header(5, f), Len(e.types), size, 0)
               /\ SaysBlobs(Header(5, f), e)
               /\ SaysCounts(Version5(f), 0, Len(e.integers), Len(e.doubles))
               /\ SaysBuffers(Version5(f), first, size - first, Len(e.objects))
               /\ HeaderIsValid(5, f) /\ Len(f) = HeaderFields[5]
<1> DEFINE f == BuildHeader5(e, size)  h == Header(5, f)  v == Version5(f)
           ints == Len(e.integers)  dbls == Len(e.doubles)  texts == e.string_bytes
           types == Len(e.types)  many == Len(e.lengths)  blobs == Len(e.blobs)
           objs == Len(e.objects)  second == size - first
<1>0. MaxCount \in Nat /\ MaxBytes \in Nat /\ MaxCount <= MaxBytes /\ 1 <= MaxCount
  BY LimitsAssumption
<1>1. /\ ints \in 0..MaxCount /\ dbls \in 0..MaxCount /\ many \in 0..MaxCount
      /\ objs \in 0..MaxCount /\ texts \in 0..MaxBytes /\ types \in 0..MaxBytes
      /\ blobs \in 0..MaxBytes /\ size + blobs <= MaxBytes
      /\ second \in 0..MaxBytes /\ first \in 0..MaxBytes /\ first + second = size
  BY <1>0, CollectedIs, SMTT(60)
<1>2. f = <<0, 0, texts, 1, 0, types, 0, size, 0, many, blobs, 0, 0, first, 0, second, 0,
            0, 0, ints, dbls, 0, objs, 0, 0>>
  BY DEF BuildHeader5
<1> HIDE DEF f, ints, dbls, texts, types, many, blobs, objs, second
<1>3. h = [compression |-> 0, frame_size |-> 0 \div 65536,
           counts |-> Counts(texts, 0, 1, 0), type_size |-> types, decoded_size |-> size,
           encoded_size |-> 0, blob_count |-> many, blob_size |-> blobs,
           blob_frame_count |-> 0 \div 2]
  BY <1>2 DEF Header
<1>4. v = [decoded |-> <<first, second>>, encoded |-> <<0, 0>>,
           counts |-> Counts(0, 0, ints, dbls), object_count |-> objs]
  BY <1>2 DEF Version5
<1>5. 0 \div 65536 = 0 /\ 0 \div 2 = 0 /\ 0 % 65536 = 0 /\ 0 % 2 = 0
  OBVIOUS
<1>6. f[2] = 0 /\ f[13] = 0 /\ Len(f) = 25
  BY <1>2
<1> HIDE DEF h, v
<1>7. SaysCounts(h, texts, 1, 0) /\ SaysSizes(h, types, size, 0)
  BY <1>3 DEF SaysCounts, SaysSizes, Counts
<1>8. SaysBlobs(h, e)
  BY <1>1, <1>3, <1>5 DEF SaysBlobs, many, blobs
<1>9. SaysCounts(v, 0, ints, dbls) /\ SaysBuffers(v, first, second, objs)
  BY <1>4 DEF SaysCounts, SaysBuffers, Counts
<1>10. CountsInLimits(h.counts)
  BY <1>0, <1>1, <1>3, SMTT(60) DEF CountsInLimits, Counts, IsLength, IsCount
<1>11. CountsInLimits(v.counts)
  BY <1>0, <1>1, <1>4, SMTT(60) DEF CountsInLimits, Counts, IsLength, IsCount
<1>12. /\ v.decoded[1] = first /\ v.decoded[2] = second /\ v.encoded[1] = 0 /\ v.encoded[2] = 0
       /\ v.object_count = objs
  BY <1>4
<1>13. Version5InLimits(v)
  BY <1>0, <1>1, <1>11, <1>12, SMTT(60) DEF Version5InLimits, IsLength, IsCount, Fits
<1>14. /\ h.type_size \in 0..MaxBytes /\ h.decoded_size \in 0..MaxBytes
       /\ h.encoded_size \in 0..MaxBytes /\ h.blob_size \in 0..MaxBytes
       /\ h.decoded_size + h.blob_size <= MaxBytes /\ h.blob_count \in 0..MaxCount
  BY <1>0, <1>1, <1>3
<1>15. <<h.compression, h.frame_size>> \in {<<0, 0>>, <<2, 0>>, <<1, 16384>>}
  BY <1>3, <1>5
<1>16. HeaderIsValid(5, f)
  BY <1>0, <1>5, <1>6, <1>10, <1>13, <1>14, <1>15, SMTT(60)
     DEF HeaderIsValid, h, v, IsLength, IsCount, Fits
<1>17. HeaderFields[5] = 25
  BY DEF HeaderFields
<1> QED
  BY <1>6, <1>7, <1>8, <1>9, <1>16, <1>17 DEF f, h, v, ints, dbls, texts, types, objs,
     second

\* No numbers have no cells.
LEMMA NoNumbers == Numbers(4, <<>>) = <<>>
<1> DEFINE none == <<>>
<1>1. none \in Seq(Int) /\ Len(none) = 0 /\ none = <<>>
  OBVIOUS
<1> HIDE DEF none
<1>2. Numbers(4, none) \in Seq(Cells) /\ Len(Numbers(4, none)) = 4 * Len(none)
  BY ONLY <1>1, NumbersAre
<1> QED
  BY <1>1, <1>2, EmptySeq

\* The texts of version 5 are found in its first buffer.
LEMMA FirstStreams ==
    ASSUME NEW e, Collected(e), NEW h, SaysCounts(h, e.string_bytes, 1, 0)
    PROVE  LET r == ReadStreams(Cursor(FirstBuffer(e)), h.counts, FALSE)
           IN  /\ r.bytes = StringTable(e) /\ Ahead(r.cursor, <<>>)
               /\ TextCount(r) = Len(e.strings)
               /\ BufferHas(AfterCount(r), StringTable(e), <<>>, <<>>)
<1> DEFINE t == StringTable(e)  p == TextPadding(e)  n == TextNumber(e)  none == <<>>
           c == Cursor(FirstBuffer(e))  counts == h.counts  force == FALSE
           x == Len(e.strings)  rest == t \o (p \o n)
<1>1. t \in Seq(Cells) /\ Len(t) = e.string_bytes
  BY PartsAre
<1>2. /\ p \in Seq(Cells) /\ n \in Seq(Cells) /\ Len(p) = Padding(e.string_bytes, 4)
      /\ Len(n) = 4 /\ n = Numbers(4, <<x>> \o none)
  BY NewerPartsAre
<1>3. none \in Seq(Cells) /\ none \in Seq(Int) /\ Len(none) = 0 /\ none = <<>>
  OBVIOUS
<1>4. FirstBuffer(e) = rest /\ FirstBuffer(e) \in Seq(Cells)
  BY FirstBufferIs
<1>5. Ahead(c, rest) /\ c.at = 0
  BY <1>4, AheadStarts
<1>6. counts.bytes = Len(t) /\ counts.shorts = 0 /\ counts.integers = 1 /\ counts.doubles = 0
  BY <1>1 DEF SaysCounts
<1>7. x \in Int /\ Len(t) \in Nat
  BY <1>1, CollectedIs
<1> HIDE DEF t, p, n, none, c, counts, force, x
<1>8. none \o none = none /\ n \o none = n
  BY ONLY <1>2, <1>3, ConcatEmptySeq
<1>9. Ahead(c, t \o (p \o (n \o (none \o (none \o none)))))
  BY <1>5, <1>8
<1>10. c.at + Len(t) = Len(t)
  BY <1>5, <1>7
<1>11. force = FALSE
  BY DEF force
<1>12. Aligned(c.at + Len(t), 0, 2, force, <<>>)
  BY <1>11 DEF Aligned
<1>13. Aligned(c.at + Len(t), counts.integers, 4, force, p)
  BY <1>1, <1>2, <1>6, <1>10 DEF Aligned
<1>14. Aligned(c.at + Len(t) + Len(p) + Len(n), counts.doubles, 8, force, none)
  BY <1>3, <1>6, <1>11 DEF Aligned
<1>15. /\ counts.bytes = Len(t) /\ counts.shorts = 0 /\ 4 * counts.integers = Len(n)
       /\ 8 * counts.doubles = Len(none)
  BY <1>2, <1>3, <1>6
<1>16. StreamsFound(ReadStreams(c, counts, force), t, n, none, none)
  BY ONLY <1>1, <1>2, <1>3, <1>9, <1>12, <1>13, <1>14, <1>15, StreamsTaken
<1> DEFINE r == ReadStreams(c, counts, force)
<1>17. r.bytes = t /\ Ahead(r.cursor, none)
  BY <1>16 DEF StreamsFound
<1>18. StreamsFound(ReadStreams(c, counts, force), t, Numbers(4, <<x>> \o none), none, none)
  BY <1>2, <1>16
<1>19. TextCount(r) = x /\ BufferHas(AfterCount(r), t, Numbers(4, none), none)
  BY ONLY <1>3, <1>7, <1>18, CountTaken
<1>20. Numbers(4, none) = <<>>
  BY NoNumbers DEF none
<1> QED
  BY <1>3, <1>17, <1>19, <1>20 DEF t, c, counts, force, x

\* A multiple of four is at a multiple of four.
LEMMA PaddingOfMultiple ==
    ASSUME NEW k \in Nat, NEW n, n = 4 * k
    PROVE  Padding(n, 4) = 0
<1>1. (4 * k) % 4 = 0
  OBVIOUS
<1> QED
  BY <1>1 DEF Padding

\* The other streams of version 5 are found in its second buffer, behind the counts of
\* the objects.
LEMMA SecondStreams ==
    ASSUME NEW e, Collected(e), NEW v, SaysCounts(v, 0, Len(e.integers), Len(e.doubles)),
           NEW n, n = 4 * Len(e.objects)
    PROVE  LET second == Cursor(SecondBuffer(e))
           IN  /\ Part(second, n) = ObjectCounts(e)
               /\ StreamsFound(ReadStreams(Read(second, n), v.counts, FALSE),
                               <<>>, AllIntegers(e), Doubles(e), Types(e) \o (Lengths(e) \o Trailer))
<1> DEFINE o == ObjectCounts(e)  j == AllIntegers(e)  q == SecondPadding(e)  d == Doubles(e)
           y == Types(e)  l == Lengths(e)  x == Trailer  b == y \o (l \o x)
           w == j \o (q \o (d \o b))  second == Cursor(SecondBuffer(e))  none == <<>>
           c == Read(second, n)  counts == v.counts  force == FALSE
<1>1. {d, y, l, x} \subseteq Seq(Cells) /\ Len(d) = 8 * Len(e.doubles)
  BY PartsAre
<1>2. /\ {o, j, q} \subseteq Seq(Cells) /\ Len(o) = n /\ Len(j) = 4 * Len(e.integers)
      /\ IF e.doubles = <<>> THEN q = <<>> ELSE Len(q) = Padding(n + 4 * Len(e.integers), 8)
  BY NewerPartsAre
<1>3. SecondBuffer(e) = o \o w /\ SecondBuffer(e) \in Seq(Cells)
  BY NewerPayload DEF SecondBuffer, SecondRead
<1>4. Ahead(second, o \o w) /\ second.at = 0
  BY <1>3, AheadStarts
<1>5. /\ counts.bytes = 0 /\ counts.shorts = 0 /\ counts.integers = Len(e.integers)
      /\ counts.doubles = Len(e.doubles)
  BY DEF SaysCounts
<1>6. /\ Len(e.integers) \in Nat /\ Len(e.doubles) \in Nat /\ Len(e.objects) \in Nat
      /\ e.doubles \in Seq(Int)
  BY CollectedIs DEF Encoders
<1>7. none \in Seq(Cells) /\ Len(none) = 0 /\ none = <<>>
  OBVIOUS
<1>8. o \in Seq(Cells) /\ j \in Seq(Cells) /\ q \in Seq(Cells) /\ d \in Seq(Cells)
      /\ y \in Seq(Cells) /\ l \in Seq(Cells) /\ x \in Seq(Cells)
  BY <1>1, <1>2
<1> HIDE DEF o, j, q, d, y, l, x, second, none, counts, force
<1>b. b \in Seq(Cells)
  <2> DEFINE u == l \o x
  <2>1. u \in Seq(Cells)
    BY ONLY <1>8, Joined
  <2> HIDE DEF u
  <2>2. y \o u \in Seq(Cells)
    BY ONLY <1>8, <2>1, Joined
  <2> QED
    BY <2>2 DEF u
<1> HIDE DEF b
<1>w. w \in Seq(Cells)
  <2> DEFINE u == d \o b
  <2>1. u \in Seq(Cells)
    BY ONLY <1>8, <1>b, Joined
  <2> HIDE DEF u
  <2> DEFINE k == q \o u
  <2>2. k \in Seq(Cells)
    BY ONLY <1>8, <2>1, Joined
  <2> HIDE DEF k
  <2>3. j \o k \in Seq(Cells)
    BY ONLY <1>8, <2>2, Joined
  <2> QED
    BY <2>3 DEF k, u
<1> HIDE DEF w
<1>9. Part(second, n) = o /\ Ahead(c, w) /\ c.at = second.at + n
  <2>1. n = Len(o)
    BY <1>2
  <2> QED
    BY ONLY <1>4, <1>8, <1>w, <2>1, AheadTaken
<1>10. c.at = n /\ n \in Nat
  BY <1>4, <1>6, <1>9
<1> HIDE DEF c
<1>11. none \o w = w
  BY ONLY <1>7, <1>w, ConcatEmptySeq
<1>12. Ahead(c, none \o (none \o (j \o (q \o (d \o b)))))
  BY <1>9, <1>11 DEF w
<1>13. c.at + Len(none) = n /\ c.at + Len(none) + Len(none) + Len(j) = n + 4 * Len(e.integers)
  BY <1>2, <1>6, <1>7, <1>10
<1>14. force = FALSE
  BY DEF force
<1>15. Aligned(c.at + Len(none), 0, 2, force, <<>>)
  BY <1>14 DEF Aligned
<1>16. Padding(n, 4) = 0
  <2> DEFINE k == Len(e.objects)
  <2>1. k \in Nat /\ n = 4 * k
    BY <1>6
  <2> HIDE DEF k
  <2> QED
    BY ONLY <2>1, PaddingOfMultiple
<1>17. Aligned(c.at + Len(none), counts.integers, 4, force, none)
  BY <1>7, <1>13, <1>16 DEF Aligned
<1>18. e.doubles = <<>> <=> Len(e.doubles) = 0
  BY <1>6, EmptySeq
<1>19. Aligned(c.at + Len(none) + Len(none) + Len(j), counts.doubles, 8, force, q)
  <2> DEFINE at == c.at + Len(none) + Len(none) + Len(j)  m == n + 4 * Len(e.integers)
  <2>1. at = m
    BY <1>13
  <2>2. IF e.doubles = <<>> THEN q = <<>> ELSE Len(q) = Padding(m, 8)
    BY <1>2
  <2>3. counts.doubles > 0 <=> e.doubles # <<>>
    BY <1>5, <1>6, <1>18
  <2> HIDE DEF at, m
  <2>4. Aligned(at, counts.doubles, 8, force, q)
    BY <1>14, <2>1, <2>2, <2>3 DEF Aligned
  <2> QED
    BY <2>4 DEF at
<1>20. /\ counts.bytes = Len(none) /\ counts.shorts = 0 /\ 4 * counts.integers = Len(j)
       /\ 8 * counts.doubles = Len(d)
  BY <1>1, <1>2, <1>5, <1>7
<1>21. StreamsFound(ReadStreams(c, counts, force), none, j, d, b)
  BY ONLY <1>7, <1>8, <1>b, <1>12, <1>15, <1>17, <1>19, <1>20, StreamsTaken
<1> QED
  BY <1>9, <1>21 DEF none, o, j, d, b, y, l, x, c, second, counts, force

\* A file of version 5 whose header says so is not compressed.
LEMMA NewerUnpacked ==
    ASSUME NEW file, NEW h, h = Header(5, file.fields), NEW v, v = Version5(file.fields),
           NEW first, NEW second, h.compression = 0,
           v.decoded[1] = first, v.decoded[2] = second
    PROVE  ReadV5(file) =
             BuffersV5(file, h, v, Decompress(file, Cursor(file.body), first, first, 0),
                       Decompress(file, Read(Cursor(file.body), first), second, second, 0),
                       Read(Read(Cursor(file.body), first), second))
  BY Zenon DEF ReadV5

\* The blobs of version 5 are found where they are.
LEMMA NewerBlobs ==
    ASSUME NEW e, Collected(e), NEW file, NEW h, SaysBlobs(h, e), NEW z \in Seq(Cells),
           NEW input, Ahead(input, BlobCells(e) \o z)
    PROVE  LET r == ReadV5Blobs(file, h, input, <<>>)
           IN  r.cells = Bytes(e.blobs) /\ Ahead(EndBlobs(h, r.cursor), z)
<1> DEFINE r == ReadV5Blobs(file, h, input, <<>>)
<1>1. e \in Encoders /\ Sound(e, 0)
  BY CollectedIs
<1>2. /\ Part(input, h.blob_size) = Bytes(e.blobs)
      /\ Ahead(EndBlobs(h, Read(input, h.blob_size)), z)
      /\ h.blob_size = 0 => Ahead(EndBlobs(h, input), z) /\ Bytes(e.blobs) = <<>>
  BY <1>1, BlobsTaken
<1>3. h.compression = 0
  BY DEF SaysBlobs
<1>4. CASE h.blob_size = 0
  <2>1. r = [cells |-> <<>>, cursor |-> input]
    BY <1>4 DEF ReadV5Blobs, If
  <2> HIDE DEF r
  <2>2. r.cells = Bytes(e.blobs) /\ Ahead(EndBlobs(h, r.cursor), z)
    BY <1>2, <1>4, <2>1
  <2> QED
    BY <2>2 DEF r
<1>5. CASE h.blob_size # 0
  <2>1. r = [cells |-> Part(input, h.blob_size), cursor |-> Read(input, h.blob_size)]
    BY <1>3, <1>5 DEF ReadV5Blobs
  <2> HIDE DEF r
  <2>2. r.cells = Bytes(e.blobs) /\ Ahead(EndBlobs(h, r.cursor), z)
    BY <1>2, <2>1
  <2> QED
    BY <2>2 DEF r
<1> QED
  BY <1>4, <1>5

\* The texts fill the bytes of the first buffer.
LEMMA TextsFill ==
    ASSUME NEW e, Collected(e)
    PROVE  LET table == ReadTable(Len(e.strings), Cursor(StringTable(e)))
           IN  /\ table.strings = e.strings /\ table.cursor.at >= 0
               /\ Part(table.cursor, Remaining(table.cursor)) = <<>>
<1> DEFINE t == StringTable(e)  none == <<>>  table == ReadTable(Len(e.strings), Cursor(t))
<1>1. e \in Encoders /\ Sound(e, 0)
  BY CollectedIs
<1>2. t \in Seq(Cells)
  BY PartsAre
<1>3. none \in Seq(Cells)
  OBVIOUS
<1>4. Ahead(Cursor(t), t) /\ t \o none = t
  BY <1>2, AheadStarts, ConcatEmptySeq
<1>5. Ahead(Cursor(StringTable(e)), StringTable(e) \o none)
  BY <1>4
<1> HIDE DEF none
<1>6. table.strings = e.strings /\ Ahead(table.cursor, none)
  BY <1>1, <1>3, <1>5, TableTaken
<1> HIDE DEF table
<1>7. table.cursor.at >= 0 /\ Part(table.cursor, Remaining(table.cursor)) = none
  BY <1>6, AheadAll
<1> QED
  BY <1>6, <1>7 DEF table, none

\* The two buffers of a file of version 5 are taken apart.
LEMMA BuffersTaken ==
    ASSUME NEW e, Collected(e), NEW z \in 0..15, NEW file, NEW fields,
           IsFileOf(file, 5, fields, BuildPayload5(e), e, z),
           NEW first, NEW second, first = FirstBufferSize(e), second = Len(SecondBuffer(e))
    PROVE  LET c == Cursor(file.body)
           IN  /\ Decompress(file, c, first, first, 0) = Cursor(FirstBuffer(e))
               /\ Decompress(file, Read(c, first), second, second, 0) = Cursor(SecondBuffer(e))
               /\ Ahead(Read(Read(c, first), second), BlobCells(e) \o Zeros(z))
<1> DEFINE c == Cursor(file.body)  a == FirstBuffer(e)  s == SecondBuffer(e)
           b == BlobCells(e) \o Zeros(z)  all == BuildPayload5(e)
<1>1. Ahead(c, all \o b) /\ b \in Seq(Cells) /\ Len(all) \in 0..MaxBytes
  BY BodyBegins
<1>2. /\ all = a \o s /\ a \in Seq(Cells) /\ s \in Seq(Cells) /\ Len(a) = first
      /\ Len(all) = first + second /\ second \in Nat /\ first \in Nat /\ Len(s) = second
  BY NewerPayload
<1>3. MaxBytes \in Nat
  BY LimitsAssumption
<1> HIDE DEF c, a, s, b, all
<1>4. (a \o s) \o b = a \o (s \o b)
  BY ONLY <1>1, <1>2, Regrouped
<1> DEFINE rest == s \o b
<1>5. rest \in Seq(Cells)
  BY ONLY <1>1, <1>2, Joined
<1> HIDE DEF rest
<1>6. Ahead(c, a \o rest)
  BY <1>1, <1>2, <1>4 DEF rest
<1>7. first <= MaxBytes /\ second <= MaxBytes
  BY <1>1, <1>2, <1>3
<1>8. first = Len(a) /\ second = Len(s)
  BY <1>2
<1>9. Decompress(file, c, first, first, 0) = Cursor(a) /\ Ahead(Read(c, first), rest)
  BY ONLY <1>2, <1>5, <1>6, <1>7, <1>8, PlainPart
<1> DEFINE m == Read(c, first)
<1>10. Ahead(m, s \o b)
  BY <1>9 DEF rest
<1> HIDE DEF m
<1>11. Decompress(file, m, second, second, 0) = Cursor(s) /\ Ahead(Read(m, second), b)
  BY ONLY <1>1, <1>2, <1>7, <1>8, <1>10, PlainPart
<1> QED
  BY <1>9, <1>11 DEF m, c, a, s, b

\* The streams of the texts are empty once these are read.
LEMMA AlternateIs ==
    ASSUME NEW buffer, NEW bytes, BufferHas(buffer, bytes, <<>>, <<>>), NEW cells, cells = <<>>
    PROVE  [stream \in DOMAIN Width |-> IF stream = "bytes" THEN cells ELSE buffer[stream]]
              = EmptyStreams
<1>1. DOMAIN Width = {"bytes", "shorts", "integers", "doubles"}
  BY DEF Width
<1>2. \A stream \in DOMAIN Width : (IF stream = "bytes" THEN cells ELSE buffer[stream]) = <<>>
  BY <1>1 DEF BufferHas
<1> QED
  BY <1>2 DEF EmptyStreams

\* The header of a file of version 5 says what its buffers and blobs have.
LEMMA NewerSays ==
    ASSUME NEW e, Collected(e), Len(e.integers) <= MaxCount, NEW z \in 0..15, NEW file,
           IsFileOf(file, 5, BuildHeader5(e, Len(BuildPayload5(e))), BuildPayload5(e), e, z)
    PROVE  LET size == Len(BuildPayload5(e))
               f    == BuildHeader5(e, size)
           IN  /\ SaysCounts(Header(5, f), e.string_bytes, 1, 0)
               /\ SaysSizes(Header(5, f), Len(e.types), size, 0)
               /\ SaysBlobs(Header(5, f), e)
               /\ SaysCounts(Version5(f), 0, Len(e.integers), Len(e.doubles))
               /\ SaysBuffers(Version5(f), FirstBufferSize(e), Len(SecondBuffer(e)),
                              Len(e.objects))
               /\ HeaderIsValid(5, f) /\ Len(f) = HeaderFields[5]
<1> DEFINE size == Len(BuildPayload5(e))  f == BuildHeader5(e, size)  h == Header(5, f)
           v == Version5(f)  first == FirstBufferSize(e)  second == Len(SecondBuffer(e))
           objects == Len(e.objects)
<1>1. /\ size = first + second /\ first \in Nat /\ second \in Nat /\ e.string_bytes <= first
      /\ Len(e.types) <= second
  BY NewerPayload
<1>2. size + Len(e.blobs) <= MaxBytes
  BY DEF IsFileOf
<1>3. Len(e.types) \in Nat /\ MaxBytes \in Nat /\ Len(e.blobs) \in Nat
  BY CollectedIs
<1>4. size \in 0..MaxBytes /\ first \in 0..size /\ Len(e.types) <= size /\ size - first = second
  <2> DEFINE types == Len(e.types)  blobs == Len(e.blobs)
  <2>1. /\ size = first + second /\ first \in Nat /\ second \in Nat /\ types <= second
        /\ types \in Nat /\ blobs \in Nat /\ MaxBytes \in Nat /\ size + blobs <= MaxBytes
    BY <1>1, <1>2, <1>3
  <2> HIDE DEF size, first, second, types, blobs
  <2>2. size \in 0..MaxBytes /\ first \in 0..size /\ types <= size /\ size - first = second
    BY ONLY <2>1
  <2> QED
    BY <2>2 DEF types
<1>5. first = FirstBufferSize(e)
  OBVIOUS
<1> HIDE DEF size, first, second, objects
<1>6. /\ SaysBuffers(v, first, size - first, Len(e.objects))
      /\ SaysCounts(h, e.string_bytes, 1, 0) /\ SaysSizes(h, Len(e.types), size, 0)
      /\ SaysBlobs(h, e) /\ SaysCounts(v, 0, Len(e.integers), Len(e.doubles))
      /\ HeaderIsValid(5, f) /\ Len(f) = HeaderFields[5]
  BY <1>1, <1>2, <1>4, <1>5, NewerHeader
<1>7. /\ SaysBuffers(v, first, second, Len(e.objects))
      /\ SaysCounts(h, e.string_bytes, 1, 0) /\ SaysSizes(h, Len(e.types), size, 0)
      /\ SaysBlobs(h, e) /\ SaysCounts(v, 0, Len(e.integers), Len(e.doubles))
      /\ HeaderIsValid(5, f) /\ Len(f) = HeaderFields[5]
  BY <1>4, <1>6
<1> QED
  BY <1>7 DEF first, second, size

\* The body of a file of version 5 gives the root, if the decoder does.
LEMMA NewerBodyIsRead ==
    ASSUME NEW e, Collected(e), Len(e.integers) <= MaxCount, NEW z \in 0..15, NEW file,
           IsFileOf(file, 5, BuildHeader5(e, Len(BuildPayload5(e))), BuildPayload5(e), e, z),
           NEW root,
           \A buffer : HasBuffer(buffer, AllIntegers(e), Doubles(e)) =>
               ReadRoot(NewerDecoder(buffer, EmptyStreams, ObjectCounts(e), e)) = root
    PROVE  /\ Gives(ReadV5(file), root, Zeros(z))
           /\ HeaderIsValid(5, file.fields) /\ Len(file.fields) = HeaderFields[5]
<1> DEFINE size == Len(BuildPayload5(e))  f == BuildHeader5(e, size)  h == Header(5, f)
           v == Version5(f)  first == FirstBufferSize(e)  second == Len(SecondBuffer(e))
           objects == Len(e.objects)
<1>1. /\ size = first + second /\ first \in Nat /\ second \in Nat /\ e.string_bytes <= first
      /\ Len(e.types) <= second
  BY NewerPayload
<1>2. file.fields = f /\ file.magic = 5 /\ size + Len(e.blobs) <= MaxBytes
  BY DEF IsFileOf
<1>3. /\ e \in Encoders /\ Sound(e, 0) /\ Len(e.types) \in Nat /\ MaxBytes \in Nat
      /\ Len(e.blobs) \in Nat
  BY CollectedIs
<1>4. /\ SaysCounts(h, e.string_bytes, 1, 0) /\ SaysSizes(h, Len(e.types), size, 0)
      /\ SaysBlobs(h, e) /\ SaysCounts(v, 0, Len(e.integers), Len(e.doubles))
      /\ SaysBuffers(v, first, second, objects)
      /\ HeaderIsValid(5, f) /\ Len(f) = HeaderFields[5]
  BY NewerSays
<1>5. /\ h.compression = 0 /\ h.type_size = Len(e.types) /\ h.decoded_size = size
      /\ h.blob_frame_count = 0 /\ v.decoded[1] = first /\ v.decoded[2] = second
      /\ v.object_count = objects
  BY <1>4 DEF SaysSizes, SaysBlobs, SaysBuffers
<1> DEFINE one == Cursor(FirstBuffer(e))  two == Cursor(SecondBuffer(e))
           input == Read(Read(Cursor(file.body), first), second)  o == Zeros(z)
<1>6. ReadV5(file) = BuffersV5(file, h, v, one, two, input)
      /\ Ahead(input, BlobCells(e) \o o)
  <2> DEFINE c == Cursor(file.body)
  <2>1. /\ Decompress(file, c, first, first, 0) = one
        /\ Decompress(file, Read(c, first), second, second, 0) = two
        /\ Ahead(input, BlobCells(e) \o o)
    BY BuffersTaken
  <2>2. h = Header(5, file.fields) /\ v = Version5(file.fields)
    BY <1>2
  <2> HIDE DEF h, v, first, second, one, two, o
  <2>3. ReadV5(file) = BuffersV5(file, h, v, Decompress(file, Cursor(file.body), first, first, 0),
                       Decompress(file, Read(Cursor(file.body), first), second, second, 0),
                       Read(Read(Cursor(file.body), first), second))
    BY <1>5, <2>2, NewerUnpacked
  <2> QED
    BY <2>1, <2>3
<1>7. o \in Seq(Cells) /\ z \in Nat
  <2>1. z \in Nat
    OBVIOUS
  <2> QED
    BY <2>1, ZerosAre
<1> HIDE DEF size, f, h, v, first, second, objects, input, o
<1> DEFINE alternate == ReadStreams(one, h.counts, FALSE)
           primary == ReadStreams(Read(two, 4 * objects), v.counts, FALSE)
           y == Types(e)  l == Lengths(e) \o Trailer
<1>8. /\ alternate.bytes = StringTable(e) /\ Ahead(alternate.cursor, <<>>)
      /\ TextCount(alternate) = Len(e.strings)
      /\ BufferHas(AfterCount(alternate), StringTable(e), <<>>, <<>>)
  BY <1>4, FirstStreams
<1>9. /\ Part(two, 4 * objects) = ObjectCounts(e)
      /\ StreamsFound(primary, <<>>, AllIntegers(e), Doubles(e), y \o l)
  BY <1>4, SecondStreams DEF objects
<1>10. y \in Seq(Cells) /\ l \in Seq(Cells) /\ Len(y) = Len(e.types)
  <2> DEFINE g == Lengths(e)  x == Trailer
  <2>1. g \in Seq(Cells) /\ x \in Seq(Cells) /\ y \in Seq(Cells) /\ Len(y) = Len(e.types)
    BY PartsAre
  <2> HIDE DEF g, x, y
  <2>2. g \o x \in Seq(Cells)
    BY ONLY <2>1, Joined
  <2> QED
    BY <2>1, <2>2 DEF g, x
<1> HIDE DEF one, two, alternate, primary, y, l
<1>11. HasBuffer(primary, AllIntegers(e), Doubles(e)) /\ Ahead(primary.cursor, y \o l)
  BY <1>9 DEF StreamsFound, HasBuffer
<1> DEFINE rest == Read(primary.cursor, h.type_size)  lengths == ReadBlobLengths(rest, h)
           frames == ReadNumbers(lengths.cursor, 2, 0)
           blobs == ReadV5Blobs(file, h, input, frames.numbers)
           table == ReadTable(Len(e.strings), Cursor(alternate.bytes))
<1>12. Part(primary.cursor, h.type_size) = y /\ Ahead(rest, l)
  BY <1>5, <1>10, <1>11, AheadTaken, ZenonT(60)
<1>13. lengths.lengths = e.lengths /\ Ahead(lengths.cursor, <<>>)
  <2>1. Ahead(rest, Numbers(4, e.lengths) \o Number(4, TRAILER))
    BY <1>12 DEF l, Lengths, Trailer
  <2> HIDE DEF rest
  <2> QED
    BY <1>3, <1>4, <2>1, LengthsTaken DEF lengths
<1> HIDE DEF rest, lengths
<1>14. frames.numbers = <<>> /\ Finished(frames.cursor)
  <2>1. frames.numbers = <<>> /\ Ahead(frames.cursor, <<>>)
    <3> DEFINE w == 2  none == <<>>
    <3>1. w \in Int /\ Ahead(lengths.cursor, none)
      BY <1>13
    <3> HIDE DEF w, none
    <3>2. /\ ReadNumbers(lengths.cursor, w, 0).numbers = <<>>
          /\ Ahead(ReadNumbers(lengths.cursor, w, 0).cursor, none)
      BY ONLY <3>1, NoNumbersTaken
    <3> QED
      BY <3>2 DEF w, none
  <2> HIDE DEF frames
  <2> QED
    BY <2>1, AheadAll
<1> HIDE DEF frames
<1>15. blobs.cells = Bytes(e.blobs) /\ Ahead(EndBlobs(h, blobs.cursor), o)
  BY <1>4, <1>6, <1>7, <1>14, NewerBlobs
<1>16. /\ table.strings = e.strings /\ table.cursor.at >= 0
       /\ Part(table.cursor, Remaining(table.cursor)) = <<>>
  BY <1>8, TextsFill
<1> HIDE DEF blobs, table
<1>17. ReadV5(file) = BodyV5(v, h, alternate, table, ObjectCounts(e), primary, lengths, frames, blobs)
  <2>1. ReadV5(file) = LengthsV5(file, h, alternate, ObjectCounts(e), primary, input)
    BY <1>5, <1>6, <1>9 DEF BuffersV5, alternate, primary
  <2>2. LengthsV5(file, h, alternate, ObjectCounts(e), primary, input) =
        FramesV5(file, h, alternate, ObjectCounts(e), primary, lengths, input)
    BY DEF LengthsV5, lengths, rest
  <2>3. FramesV5(file, h, alternate, ObjectCounts(e), primary, lengths, input) =
        BlobsV5(file, h, alternate, ObjectCounts(e), primary, lengths, frames, input)
    BY <1>5 DEF FramesV5, frames
  <2>4. BlobsV5(file, h, alternate, ObjectCounts(e), primary, lengths, frames, input) =
        BodyV5(v, h, alternate, table, ObjectCounts(e), primary, lengths, frames, blobs)
    BY <1>2, <1>8 DEF BlobsV5, table, blobs, v
  <2> QED
    BY <2>1, <2>2, <2>3, <2>4
<1> DEFINE streams == [stream \in DOMAIN Width |->
                          IF stream = "bytes" THEN Part(table.cursor, Remaining(table.cursor))
                          ELSE AfterCount(alternate)[stream]]
<1>18. streams = EmptyStreams
  BY <1>8, <1>16, AlternateIs
<1> HIDE DEF streams
<1>19. [Decoder(5, primary, Part(primary.cursor, h.type_size), table.strings)
           EXCEPT !.alternate = streams, !.objects.integers = ObjectCounts(e),
                  !.blobs = blobs.cells, !.lengths = lengths.lengths]
         = NewerDecoder(primary, EmptyStreams, ObjectCounts(e), e)
  BY <1>12, <1>13, <1>15, <1>16, <1>18 DEF NewerDecoder, y, Types
<1>20. v.decoded[1] + v.decoded[2] = h.decoded_size
  BY <1>1, <1>5
<1>21. Finished(alternate.cursor) /\ EndBlobs(h, blobs.cursor).at >= 0
  BY <1>8, <1>15, AheadAll
<1>22. ReadV5(file) = [root |-> ReadRoot(NewerDecoder(primary, EmptyStreams, ObjectCounts(e), e)),
                       input |-> EndBlobs(h, blobs.cursor)]
  BY <1>14, <1>16, <1>17, <1>19, <1>20, <1>21 DEF BodyV5, Body, streams
<1>23. ReadRoot(NewerDecoder(primary, EmptyStreams, ObjectCounts(e), e)) = root
  BY <1>11
<1> QED
  BY <1>2, <1>4, <1>15, <1>22, <1>23 DEF Gives, f, o

-----------------------------------------------------------------------------
(* Files. *)

\* The version 4 decoder made of these streams gives the root.
LEMMA OlderGives ==
    ASSUME NEW V, NEW root, Tree(V, root), NEW e, e = Written(FALSE, root).encoder, ~e.failed,
           Collected(e), ~e.version5,
           NEW buffer, HasBuffer(buffer, Numbers(4, Tail(e.integers)), Doubles(e))
    PROVE  ReadRoot(OlderDecoder(buffer, e)) = root
<1> DEFINE n == Numbers(4, Tail(e.integers))  d == Doubles(e)  r == OlderDecoder(buffer, e)
<1>1. Tail(e.integers) \in Seq(Int) /\ e \in Encoders /\ Sound(e, 0)
  BY FirstIntegersAre, CollectedIs
<1>2. n \in Seq(Cells) /\ d \in Seq(Cells)
  <2>1. n \in Seq(Cells)
    BY <1>1, NumbersAre
  <2> QED
    BY <2>1, PartsAre
<1>3. Numbers(4, e.objects) = <<>>
  BY <1>1, NoNumbers DEF Sound
<1>4. IntegersOf(e) = Tail(e.integers)
  BY DEF IntegersOf
<1> HIDE DEF n, d, r
<1>5. IsFresh(OlderDecoder(buffer, e), 4, n, d, <<>>, e)
  <2>1. HasBuffer(buffer, n, d)
    BY DEF n, d
  <2> QED
    BY ONLY <1>1, <1>2, <2>1, OlderIsFresh
<1>6. HasStreams(r, e)
  BY <1>3, <1>4, <1>5 DEF HasStreams, r, n, d, Doubles
<1>7. ReadRoot(r) = root
  BY <1>6, FreshIsRead
<1> QED
  BY <1>7 DEF r

\* The version 5 decoder made of these streams gives the root.
LEMMA NewerGives ==
    ASSUME NEW V, NEW root, Tree(V, root), NEW e, e = Written(TRUE, root).encoder, ~e.failed,
           Collected(e), e.version5,
           NEW buffer, HasBuffer(buffer, AllIntegers(e), Doubles(e))
    PROVE  ReadRoot(NewerDecoder(buffer, EmptyStreams, ObjectCounts(e), e)) = root
<1> DEFINE n == AllIntegers(e)  d == Doubles(e)  o == ObjectCounts(e)
           r == NewerDecoder(buffer, EmptyStreams, o, e)
<1>1. e \in Encoders
  BY CollectedIs
<1>2. n \in Seq(Cells) /\ d \in Seq(Cells) /\ o \in Seq(Cells)
  BY PartsAre, NewerPartsAre
<1>3. IntegersOf(e) = e.integers
  BY DEF IntegersOf
<1> HIDE DEF n, d, o, r
<1>4. IsFresh(NewerDecoder(buffer, EmptyStreams, o, e), 5, n, d, o, e)
  <2>1. HasBuffer(buffer, n, d)
    BY DEF n, d
  <2> QED
    BY ONLY <1>1, <1>2, <2>1, NewerIsFresh
<1>5. HasStreams(r, e)
  BY <1>3, <1>4 DEF HasStreams, r, n, d, o, Doubles, AllIntegers, ObjectCounts
<1>6. ReadRoot(r) = root
  BY <1>5, FreshIsRead
<1> QED
  BY <1>6 DEF r, o

\* An encoder that wrote a root without an error is complete.
LEMMA WrittenIsCollected ==
    ASSUME NEW V, NEW root, Tree(V, root), NEW version5 \in BOOLEAN,
           ~Written(version5, root).encoder.failed
    PROVE  /\ Collected(Written(version5, root).encoder)
           /\ Written(version5, root).encoder.version5 = version5
<1> DEFINE w == Written(version5, root)  e == w.encoder
<1>1. WriterInv(w, V, root)
  BY WriterEnds
<1>2. e \in Encoders /\ e.remaining >= 0
  BY <1>1 DEF WriterInv
<1>3. Sound(e, 0)
  BY WrittenSound
<1>4. Grows(Encoder(version5), e)
  BY WriterGrows
<1>5. e.version5 = version5 /\ Continues(Encoder(version5).integers, e.integers)
  BY <1>4 DEF Grows, Encoder
<1>6. CASE ~version5
  <2>1. Encoder(version5).integers = <<0>>
    BY <1>6 DEF Encoder
  <2>2. 1 <= Len(e.integers)
    BY <1>5, <2>1 DEF Continues
  <2>3. e.integers # <<>>
    BY <2>2
  <2> QED
    BY <1>2, <1>3, <1>5, <2>3 DEF Collected
<1>7. CASE version5
  BY <1>2, <1>3, <1>5, <1>7 DEF Collected
<1> QED
  BY <1>6, <1>7

\* What encode_kv3 makes of a document, in the parts of its file
EncodesAs(file, format, e, payload, fields, zeros) ==
    /\ file = EncodedFile(Document(format, Scalar("null", "None", 0), zeros), e, payload, fields)
    /\ HeaderSize(fields) + Len(payload) + Len(e.blobs) + 4 + zeros <= MaxBytes

\* A file that encode_kv3 gives is made of these parts, and within the limits.
LEMMA EncodedParts ==
    ASSUME NEW root, NEW format, NEW zeros \in Nat,
           NEW file, file = EncodeKv3(Document(format, root, zeros)), file # NoFile
    PROVE  LET version5 == RequiresV5(root)
               e        == Written(version5, root).encoder
               payload  == IF e.version5 THEN BuildPayload5(e) ELSE BuildPayload(e)
               fields   == IF e.version5 THEN BuildHeader5(e, Len(payload))
                           ELSE BuildHeader(e, Len(payload))
           IN  /\ version5 \in BOOLEAN /\ root.kind = "object" /\ zeros \in 0..15
               /\ ~e.failed /\ EncodesAs(file, format, e, payload, fields, zeros)
<1> DEFINE version5 == RequiresV5(root)  w == Written(version5, root)  e == w.encoder
           payload  == IF e.version5 THEN BuildPayload5(e) ELSE BuildPayload(e)
           fields   == IF e.version5 THEN BuildHeader5(e, Len(payload))
                       ELSE BuildHeader(e, Len(payload))
           document == Document(format, root, zeros)
<1>1. version5 \in BOOLEAN
  BY DEF RequiresV5
<1>2. document.format = format /\ document.root = root /\ document.trailing_zero_bytes = zeros
  BY DEF Document
<1> HIDE DEF document
<1>3. root.kind = "object" /\ zeros <= 15 /\ file = RootWritten(document, w)
  BY <1>2 DEF EncodeKv3, document
<1> HIDE DEF w
<1>4. ~e.failed /\ file = PayloadWritten(document, e, payload)
  BY <1>3 DEF RootWritten
<1> HIDE DEF e, payload
<1>5. /\ Fits(HeaderSize(fields) + Len(payload) + Len(e.blobs) + 4 + zeros)
      /\ file = EncodedFile(document, e, payload, fields)
  BY <1>2, <1>4 DEF PayloadWritten
<1> HIDE DEF fields
<1>6. EncodesAs(file, format, e, payload, fields, zeros)
  BY <1>2, <1>5 DEF EncodesAs, EncodedFile, Fits, Document
<1>7. zeros \in 0..15
  BY <1>3
<1> QED
  BY <1>1, <1>3, <1>4, <1>6, <1>7 DEF fields, payload, e, w

\* Such a file has these parts, and fits.
LEMMA FileHasParts ==
    ASSUME NEW e, Collected(e), NEW file, NEW format, NEW payload \in Seq(Cells), NEW fields,
           Len(fields) \in Nat, NEW zeros \in 0..15,
           EncodesAs(file, format, e, payload, fields, zeros)
    PROVE  /\ IsFileOf(file, IF e.version5 THEN 5 ELSE 4, fields, payload, e, zeros)
           /\ file.format = format /\ Fits(FileSize(file))
<1> DEFINE b == BlobCells(e)  o == Zeros(zeros)  body == (payload \o b) \o o
<1>1. file = File(IF e.version5 THEN 5 ELSE 4, format, fields, body, <<>>)
  BY DEF EncodesAs, EncodedFile, Document, BlobCells
<1>2. e \in Encoders /\ Sound(e, 0) /\ Len(e.blobs) \in Nat /\ MaxBytes \in Nat /\ zeros \in Nat
  BY CollectedIs
<1>3. b \in Seq(Cells) /\ Len(b) <= Len(e.blobs) + 4
  BY <1>2, BlobCellsAre
<1>4. o \in Seq(Cells) /\ Len(o) = zeros
  BY <1>2, ZerosAre
<1> HIDE DEF b, o
<1>p. payload \in Seq(Cells)
  OBVIOUS
<1> DEFINE a == payload \o b
<1>5. a \in Seq(Cells) /\ Len(a) = Len(payload) + Len(b) /\ Len(payload) \in Nat /\ Len(b) \in Nat
  BY ONLY <1>3, <1>p, Joined
<1> HIDE DEF a
<1>6. Len(a \o o) = Len(a) + Len(o)
  BY ONLY <1>4, <1>5, Joined
<1> DEFINE k == HeaderSize(fields)
<1>7. k \in Nat /\ k + Len(payload) + Len(e.blobs) + 4 + zeros <= MaxBytes
  <2>1. k \in Nat
    BY DEF HeaderSize
  <2> QED
    BY <2>1 DEF EncodesAs
<1> HIDE DEF k
<1>8. /\ file.magic = (IF e.version5 THEN 5 ELSE 4) /\ file.format = format
      /\ file.fields = fields /\ file.body = body
  BY <1>1 DEF File
<1>9. Len(body) = Len(payload) + Len(b) + zeros
  BY <1>4, <1>5, <1>6 DEF a
<1> HIDE DEF body
<1>10. Len(payload) + Len(e.blobs) <= MaxBytes /\ k + Len(body) <= MaxBytes
  <2> DEFINE m == Len(payload)  n == Len(e.blobs)  l == Len(b)  s == Len(body)
  <2>1. /\ m \in Nat /\ n \in Nat /\ l \in Nat /\ l <= n + 4 /\ s = m + l + zeros
        /\ k + m + n + 4 + zeros <= MaxBytes /\ k \in Nat /\ zeros \in Nat /\ MaxBytes \in Nat
    BY <1>2, <1>3, <1>5, <1>7, <1>9
  <2> HIDE DEF m, n, l, s
  <2>2. m + n <= MaxBytes /\ k + s <= MaxBytes
    BY ONLY <2>1
  <2> QED
    BY <2>2 DEF m, n, s
<1>11. Fits(FileSize(file))
  BY <1>8, <1>10 DEF Fits, FileSize, k
<1>12. IsFileOf(file, IF e.version5 THEN 5 ELSE 4, fields, payload, e, zeros)
  BY <1>8, <1>10 DEF IsFileOf, body, b, o
<1> QED
  BY <1>8, <1>11, <1>12

\* The document that decode_kv3 makes of a file whose body gives the root
LEMMA DecodedIs ==
    ASSUME NEW file, NEW version \in {4, 5}, file.magic = version, NEW root,
           root.kind = "object", NEW zeros \in 0..15,
           Gives(IF version = 5 THEN ReadV5(file) ELSE ReadV2V4(file), root, Zeros(zeros)),
           HeaderIsValid(version, file.fields), Len(file.fields) = HeaderFields[version],
           Fits(FileSize(file))
    PROVE  DecodeKv3(file) = Document(file.format, root, zeros)
<1> DEFINE body == IF version = 5 THEN ReadV5(file) ELSE ReadV2V4(file)
<1>1. body.root = root /\ Ahead(body.input, Zeros(zeros))
  BY DEF Gives
<1> HIDE DEF body
<1>2. BodyRead(file, body) = Document(file.format, root, zeros)
  BY <1>1, BodyIsRead
<1>3. DecodeKv3(file) = BodyRead(file, body)
  <2>1. CASE version = 4
    BY <2>1 DEF DecodeKv3, body
  <2>2. CASE version = 5
    BY <2>2 DEF DecodeKv3, body
  <2> QED
    BY <2>1, <2>2
<1> QED
  BY <1>2, <1>3

\* A file that is made of the parts of an encoder and z zero bytes
IsEncoding(file, e, z) ==
    IF e.version5
    THEN IsFileOf(file, 5, BuildHeader5(e, Len(BuildPayload5(e))), BuildPayload5(e), e, z)
    ELSE IsFileOf(file, 4, BuildHeader(e, Len(BuildPayload(e))), BuildPayload(e), e, z)

\* The decoder that has the streams of an encoder gives the root
HoldsRoot(e, root) ==
    IF e.version5
    THEN \A buffer : HasBuffer(buffer, AllIntegers(e), Doubles(e)) =>
             ReadRoot(NewerDecoder(buffer, EmptyStreams, ObjectCounts(e), e)) = root
    ELSE \A buffer : HasBuffer(buffer, Numbers(4, Tail(e.integers)), Doubles(e)) =>
             ReadRoot(OlderDecoder(buffer, e)) = root

\* A file that encode_kv3 gives is made of the parts of an encoder that holds the root.
LEMMA EncodedIs ==
    ASSUME NEW V, NEW root, Tree(V, root), NEW format, NEW zeros \in Nat,
           NEW file, file = EncodeKv3(Document(format, root, zeros)), file # NoFile
    PROVE  LET e == Written(RequiresV5(root), root).encoder
           IN  /\ Collected(e) /\ e.version5 \in BOOLEAN /\ HoldsRoot(e, root)
               /\ IsEncoding(file, e, zeros) /\ root.kind = "object" /\ zeros \in 0..15
               /\ file.format = format /\ Fits(FileSize(file))
               /\ file = File(file.magic, file.format, file.fields, file.body, <<>>)
<1> DEFINE version5 == RequiresV5(root)  e == Written(version5, root).encoder
           payload  == IF e.version5 THEN BuildPayload5(e) ELSE BuildPayload(e)
           fields   == IF e.version5 THEN BuildHeader5(e, Len(payload))
                       ELSE BuildHeader(e, Len(payload))
<1>1. /\ version5 \in BOOLEAN /\ root.kind = "object" /\ zeros \in 0..15
      /\ ~e.failed /\ EncodesAs(file, format, e, payload, fields, zeros)
  BY EncodedParts
<1> HIDE DEF version5
<1>2. Collected(e) /\ e.version5 = version5
  BY <1>1, WrittenIsCollected
<1>3. payload \in Seq(Cells)
  <2> HIDE DEF e
  <2>1. CASE e.version5
    BY <1>2, <2>1, NewerPayload
  <2>2. CASE ~e.version5
    BY <1>2, <2>2, OlderPayload
  <2> QED
    BY <2>1, <2>2
<1> HIDE DEF payload
<1>4. Len(fields) \in Nat
  <2> HIDE DEF e
  <2>1. CASE e.version5
    <3>1. fields = BuildHeader5(e, Len(payload))
      BY <2>1
    <3> QED
      BY <3>1 DEF BuildHeader5
  <2>2. CASE ~e.version5
    <3>1. fields = BuildHeader(e, Len(payload))
      BY <2>2
    <3> QED
      BY <3>1 DEF BuildHeader
  <2> QED
    BY <2>1, <2>2
<1> HIDE DEF fields, e
<1>5. /\ IsFileOf(file, IF e.version5 THEN 5 ELSE 4, fields, payload, e, zeros)
      /\ file.format = format /\ Fits(FileSize(file))
  BY <1>1, <1>2, <1>3, <1>4, FileHasParts
<1>6. IsEncoding(file, e, zeros)
  <2>1. CASE e.version5
    <3>1. payload = BuildPayload5(e) /\ fields = BuildHeader5(e, Len(BuildPayload5(e)))
      BY <2>1 DEF payload, fields
    <3> QED
      BY <1>5, <2>1, <3>1 DEF IsEncoding
  <2>2. CASE ~e.version5
    <3>1. payload = BuildPayload(e) /\ fields = BuildHeader(e, Len(BuildPayload(e)))
      BY <2>2 DEF payload, fields
    <3> QED
      BY <1>5, <2>2, <3>1 DEF IsEncoding
  <2> QED
    BY <2>1, <2>2
<1>7. HoldsRoot(e, root)
  <2>1. CASE e.version5
    <3>1. e = Written(TRUE, root).encoder
      BY <1>1, <1>2, <2>1 DEF e
    <3>2. \A buffer : HasBuffer(buffer, AllIntegers(e), Doubles(e)) =>
              ReadRoot(NewerDecoder(buffer, EmptyStreams, ObjectCounts(e), e)) = root
      BY <1>1, <1>2, <2>1, <3>1, NewerGives
    <3> QED
      BY <2>1, <3>2 DEF HoldsRoot
  <2>2. CASE ~e.version5
    <3>1. e = Written(FALSE, root).encoder
      BY <1>1, <1>2, <2>2 DEF e
    <3>2. \A buffer : HasBuffer(buffer, Numbers(4, Tail(e.integers)), Doubles(e)) =>
              ReadRoot(OlderDecoder(buffer, e)) = root
      BY <1>1, <1>2, <2>2, <3>1, OlderGives
    <3> QED
      BY <2>2, <3>2 DEF HoldsRoot
  <2> QED
    BY <2>1, <2>2
<1>8. file = File(file.magic, file.format, file.fields, file.body, <<>>)
  <2>1. PICK m, b : file = File(m, format, fields, b, <<>>)
    BY <1>1 DEF EncodesAs, EncodedFile, Document
  <2>2. file.magic = m /\ file.format = format /\ file.fields = fields /\ file.body = b
    BY <2>1 DEF File
  <2> QED
    BY <2>1, <2>2
<1> QED
  BY <1>1, <1>2, <1>5, <1>6, <1>7, <1>8 DEF e, version5

\* The header of such a file has the number of integers, which the reader limits.
LEMMA EncodingCounts ==
    ASSUME NEW e, Collected(e), NEW file, NEW z, IsEncoding(file, e, z)
    PROVE  /\ file.magic = (IF e.version5 THEN 5 ELSE 4)
           /\ file.fields[IF e.version5 THEN 20 ELSE 4] = Len(e.integers)
           /\ HeaderIsValid(file.magic, file.fields) => Len(e.integers) <= MaxCount
<1> DEFINE f == file.fields  ints == Len(e.integers)
<1>1. MaxCount \in Nat
  BY LimitsAssumption
<1>2. CASE e.version5
  <2>1. file.magic = 5 /\ f = BuildHeader5(e, Len(BuildPayload5(e)))
    BY <1>2 DEF IsEncoding, IsFileOf
  <2>2. f[20] = ints
    BY <1>2, <2>1 DEF BuildHeader5
  <2> HIDE DEF f, ints
  <2>3. Version5(f).counts["integers"] = ints
    BY <2>2 DEF Version5, Counts
  <2>4. HeaderIsValid(5, f) => IsCount(Version5(f).counts["integers"])
    <3> DEFINE v == Version5(f)
    <3>1. HeaderIsValid(5, f) => Version5InLimits(v)
      BY DEF HeaderIsValid
    <3> HIDE DEF v
    <3>2. Version5InLimits(v) => IsCount(v.counts["integers"])
      BY DEF Version5InLimits, CountsInLimits
    <3> QED
      BY <3>1, <3>2 DEF v
  <2>5. HeaderIsValid(5, f) => ints <= MaxCount
    BY <1>1, <2>3, <2>4 DEF IsCount
  <2> QED
    BY <1>2, <2>1, <2>2, <2>5 DEF f, ints
<1>3. CASE ~e.version5
  <2>1. file.magic = 4 /\ f = BuildHeader(e, Len(BuildPayload(e)))
    BY <1>3 DEF IsEncoding, IsFileOf
  <2>2. f[4] = ints
    BY <1>3, <2>1 DEF BuildHeader
  <2> HIDE DEF f, ints
  <2>3. Header(4, f).counts["integers"] = ints
    BY <2>2 DEF Header, Counts
  <2>4. HeaderIsValid(4, f) => IsCount(Header(4, f).counts["integers"])
    <3> DEFINE h == Header(4, f)
    <3>1. HeaderIsValid(4, f) => CountsInLimits(h.counts)
      BY DEF HeaderIsValid
    <3> HIDE DEF h
    <3>2. CountsInLimits(h.counts) => IsCount(h.counts["integers"])
      BY DEF CountsInLimits
    <3> QED
      BY <3>1, <3>2 DEF h
  <2>5. HeaderIsValid(4, f) => ints <= MaxCount
    BY <1>1, <2>3, <2>4 DEF IsCount
  <2> QED
    BY <1>3, <2>1, <2>2, <2>5 DEF f, ints
<1> QED
  BY <1>2, <1>3

\* Such a file is decoded to the root and the zero bytes.
LEMMA EncodingIsRead ==
    ASSUME NEW e, Collected(e), e.version5 \in BOOLEAN, NEW root, HoldsRoot(e, root),
           root.kind = "object", NEW z \in 0..15, NEW file, IsEncoding(file, e, z),
           Len(e.integers) <= MaxCount, Fits(FileSize(file))
    PROVE  DecodeKv3(file) = Document(file.format, root, z)
<1>1. file.magic = IF e.version5 THEN 5 ELSE 4
  BY EncodingCounts
<1>2. CASE ~e.version5
  <2>1. IsFileOf(file, 4, BuildHeader(e, Len(BuildPayload(e))), BuildPayload(e), e, z)
    BY <1>2 DEF IsEncoding
  <2>2. \A buffer : HasBuffer(buffer, Numbers(4, Tail(e.integers)), Doubles(e)) =>
            ReadRoot(OlderDecoder(buffer, e)) = root
    BY <1>2 DEF HoldsRoot
  <2>3. /\ Gives(ReadV2V4(file), root, Zeros(z))
        /\ HeaderIsValid(4, file.fields) /\ Len(file.fields) = HeaderFields[4]
    BY <1>2, <2>1, <2>2, OlderBodyIsRead, ZenonT(60)
  <2>4. file.magic = 4
    BY <1>1, <1>2
  <2> QED
    BY <2>3, <2>4, DecodedIs, SMTT(60)
<1>3. CASE e.version5
  <2>1. IsFileOf(file, 5, BuildHeader5(e, Len(BuildPayload5(e))), BuildPayload5(e), e, z)
    BY <1>3 DEF IsEncoding
  <2>2. \A buffer : HasBuffer(buffer, AllIntegers(e), Doubles(e)) =>
            ReadRoot(NewerDecoder(buffer, EmptyStreams, ObjectCounts(e), e)) = root
    BY <1>3 DEF HoldsRoot
  <2>3. /\ Gives(ReadV5(file), root, Zeros(z))
        /\ HeaderIsValid(5, file.fields) /\ Len(file.fields) = HeaderFields[5]
    BY <2>1, <2>2, NewerBodyIsRead, ZenonT(60)
  <2>4. file.magic = 5
    BY <1>1, <1>3
  <2> QED
    BY <2>3, <2>4, DecodedIs, SMTT(60)
<1> QED
  BY <1>2, <1>3

\* What encode_kv3 writes, decode_kv3 reads: every file that it makes of a document
\* gives back this document, whatever its values, in version 4 or 5, if the integers
\* of the file are not more than the reader's limit. That is the one limit which
\* the writer of kv3_encode.rs does not check: it counts values, and the member of
\* an object has two integers.
THEOREM EncodedFilesAreRead ==
    ASSUME NEW V, NEW root, Tree(V, root), NEW format, NEW zeros \in Nat,
           NEW file, file = EncodeKv3(Document(format, root, zeros)), file # NoFile,
           file.fields[IF file.magic = 5 THEN 20 ELSE 4] <= MaxCount
    PROVE  DecodeKv3(file) = Document(format, root, zeros)
<1> DEFINE e == Written(RequiresV5(root), root).encoder
<1>1. /\ Collected(e) /\ e.version5 \in BOOLEAN /\ HoldsRoot(e, root)
      /\ IsEncoding(file, e, zeros) /\ root.kind = "object" /\ zeros \in 0..15
      /\ file.format = format /\ Fits(FileSize(file))
  BY EncodedIs
<1> HIDE DEF e
<1>2. Len(e.integers) <= MaxCount
  BY <1>1, EncodingCounts
<1> QED
  BY <1>1, <1>2, EncodingIsRead

-----------------------------------------------------------------------------
(* Files that lost their end. A reader of such a file fails or goes on at    *)
(* the offsets of the header, and finds no trailer where one has to be.      *)

\* A cursor that failed, or is at this offset of these cells
Reaches(c, s, k) == c \in Cursors /\ (c.at >= 0 => c.cells = s /\ c.at = k)

\* A cursor that failed
Stuck(c) == c \in Cursors /\ c.at < 0

\* A trailer that is not there: the file ends before it, or no number begins there
NoTrailerAt(s, k) == Len(s) < k + 4 \/ s[k + 1][1] # 4

\* A cursor that begins is at the offset 0.
LEMMA ReachesStart ==
    ASSUME NEW s \in Seq(Cells)
    PROVE  Reaches(Cursor(s), s, 0)
  BY DEF Reaches, Cursor, Cursors

\* A broken cursor failed.
LEMMA BrokenIsStuck == Stuck(Broken)
<1>1. <<>> \in Seq(Cells)
  OBVIOUS
<1> QED
  BY <1>1 DEF Stuck, Broken, Cursors

\* A broken cursor is anywhere.
LEMMA ReachesBroken ==
    ASSUME NEW s, NEW k
    PROVE  Reaches(Broken, s, k)
<1>1. <<>> \in Seq(Cells)
  OBVIOUS
<1> QED
  BY <1>1 DEF Reaches, Broken, Cursors

\* What is read moves the cursor by as much, or it fails.
LEMMA ReadReaches ==
    ASSUME NEW s, NEW k \in Nat, NEW c, Reaches(c, s, k), NEW n \in Nat
    PROVE  /\ Reaches(Read(c, n), s, k + n)
           /\ Read(c, n).at >= 0 => /\ c.at >= 0 /\ k + n <= Len(s)
                                    /\ Part(c, n) = SubSeq(s, k + 1, k + n)
           /\ Read(c, n).at < 0 <=> ~(Read(c, n).at >= 0)
<1> DEFINE e == c.at + n  in == c.at >= 0 /\ n >= 0 /\ e <= Len(c.cells)  r == Read(c, n)
<1>1. c \in Cursors /\ c.at \in Int /\ c.cells \in Seq(Cells) /\ e \in Int
  BY DEF Reaches, Cursors
<1>2. r = [c EXCEPT !.at = IF in THEN e ELSE -1]
  BY DEF Read
<1> HIDE DEF e, in, r
<1>3. r \in Cursors /\ r.cells = c.cells /\ r.at = (IF in THEN e ELSE -1)
  BY <1>1, <1>2 DEF Cursors
<1>4. CASE ~in
  <2>1. r.at = -1
    BY <1>3, <1>4
  <2> QED
    BY <1>3, <2>1 DEF Reaches, r
<1>5. CASE in
  <2>1. c.at >= 0 /\ e <= Len(c.cells) /\ r.at = e
    BY <1>3, <1>5 DEF in
  <2>2. c.cells = s /\ c.at = k
    BY <2>1 DEF Reaches
  <2>3. e = k + n /\ e >= 0 /\ ~(e < 0) /\ e <= Len(s)
    BY <2>1, <2>2 DEF e
  <2>4. Part(c, n) = SubSeq(s, k + 1, k + n)
    BY <2>1, <2>2, <2>3 DEF Part, r
  <2> QED
    BY <1>3, <2>1, <2>2, <2>3, <2>4 DEF Reaches, r
<1> QED
  BY <1>4, <1>5

\* A cursor that failed does not recover.
LEMMA FailedStays ==
    ASSUME NEW c, Stuck(c), NEW n
    PROVE  Stuck(Read(c, n))
<1>1. ~(c.at >= 0) /\ c \in Cursors
  BY DEF Stuck, Cursors
<1>2. Read(c, n) = [c EXCEPT !.at = -1]
  BY <1>1 DEF Read
<1>3. Read(c, n) \in Cursors /\ Read(c, n).at = -1
  BY <1>1, <1>2 DEF Cursors
<1> QED
  BY <1>3 DEF Stuck

\* Numbers are read at the offset, or the cursor fails.
LEMMA NumbersReach ==
    ASSUME NEW s, NEW k \in Nat, NEW c, Reaches(c, s, k), NEW w \in Nat, NEW n \in Nat
    PROVE  Reaches(ReadNumbers(c, w, n).cursor, s, k + w * n)
<1>1. w * n \in Nat
  OBVIOUS
<1> DEFINE m == w * n  r == Read(c, m)  p == Part(c, m)
<1> HIDE DEF m
<1>2. Reaches(r, s, k + m)
  BY <1>1, ReadReaches DEF m
<1>3. ReadNumbers(c, w, n) = NumbersIn(p, w, n, r)
  BY DEF ReadNumbers, m
<1> HIDE DEF r, p
<1>4. NumbersIn(p, w, n, r).cursor \in {r, Broken}
  BY DEF NumbersIn
<1>5. Reaches(Broken, s, k + m)
  BY ReachesBroken
<1> QED
  BY <1>2, <1>3, <1>4, <1>5 DEF m

\* No numbers are read from a cursor that failed.
LEMMA NumbersFail ==
    ASSUME NEW c, Stuck(c), NEW w, NEW n
    PROVE  Stuck(ReadNumbers(c, w, n).cursor)
<1> DEFINE r == Read(c, w * n)  p == Part(c, w * n)
<1>1. Stuck(r)
  BY FailedStays
<1>2. ReadNumbers(c, w, n) = NumbersIn(p, w, n, r)
  BY DEF ReadNumbers
<1> HIDE DEF r, p
<1>3. NumbersIn(p, w, n, r).cursor \in {r, Broken}
  BY DEF NumbersIn
<1>4. Stuck(Broken)
  BY BrokenIsStuck
<1> QED
  BY <1>1, <1>2, <1>3, <1>4

\* Where no trailer is, none is read.
LEMMA TrailerMissing ==
    ASSUME NEW s, NEW k \in Nat, NEW c, Reaches(c, s, k), NoTrailerAt(s, k)
    PROVE  Stuck(ReadTrailer(c, TRAILER))
<1> DEFINE four == 4  r == Read(c, four)  p == Part(c, four)  q == NumbersIn(p, 4, 1, r)
<1>1. four \in Nat
  OBVIOUS
<1>2. 4 * 1 = four
  OBVIOUS
<1>3. ReadNumbers(c, 4, 1) = q
  BY <1>2 DEF ReadNumbers
<1>4. ReadTrailer(c, TRAILER) \in {q.cursor, Broken}
  BY <1>3 DEF ReadTrailer, ReadNumber, FirstNumber, If
<1>b. Stuck(Broken)
  BY BrokenIsStuck
<1> HIDE DEF four
<1>5. /\ Reaches(r, s, k + four)
      /\ r.at >= 0 => k + four <= Len(s) /\ p = SubSeq(s, k + 1, k + four) /\ c.at >= 0
      /\ r.at < 0 <=> ~(r.at >= 0)
  BY <1>1, ReadReaches
<1> HIDE DEF r, p
<1>6. Stuck(q.cursor)
  <2>1. CASE r.at < 0
    <3>1. q.cursor \in {r, Broken}
      BY DEF NumbersIn
    <3>2. Stuck(r)
      BY <1>5, <2>1 DEF Reaches, Stuck
    <3> QED
      BY <1>b, <3>1, <3>2
  <2>2. CASE r.at >= 0
    <3>1. k + 4 <= Len(s) /\ p = SubSeq(s, k + 1, k + 4) /\ s \in Seq(Cells) /\ Len(s) \in Nat
      BY <1>5, <2>2, LenProperties DEF four, Reaches, Cursors
    <3>2. s[k + 1][1] # 4
      BY <3>1 DEF NoTrailerAt
    <3>3. p[1] = s[k + 1]
      <4>1. \A i \in (k + 1)..(k + 4) : s[i] \in Cells
        <5>1. \A i \in (k + 1)..(k + 4) : i \in 1..Len(s)
          BY <3>1
        <5> QED
          BY <3>1, <5>1, ElementOfSeq
      <4>2. \A i \in 1..((k + 4) - (k + 1) + 1) : SubSeq(s, k + 1, k + 4)[i] = s[(k + 1) + i - 1]
        BY <3>1, <4>1, SubSeqProperties
      <4>3. 1 \in 1..((k + 4) - (k + 1) + 1) /\ (k + 1) + 1 - 1 = k + 1
        OBVIOUS
      <4> QED
        BY <3>1, <4>2, <4>3
    <3>4. q = [numbers |-> <<>>, cursor |-> Broken]
      <4>1. 4 * (1 - 1) + 1 = 1 /\ 1 \in 1..1
        OBVIOUS
      <4>2. ~(\A i \in 1..1 : p[4 * (i - 1) + 1][1] = 4)
        BY <3>2, <3>3, <4>1
      <4> HIDE DEF q
      <4> QED
        BY <4>2 DEF NumbersIn, q
    <3> QED
      BY <1>b, <3>4
  <2>3. r.at < 0 \/ r.at >= 0
    BY <1>5
  <2> QED
    BY <2>1, <2>2, <2>3
<1> QED
  BY <1>4, <1>6, <1>b

\* A stream of this length, behind its padding, is passed.
LEMMA StreamReaches ==
    ASSUME NEW s, NEW k \in Nat, NEW c, Reaches(c, s, k), NEW counts, NEW stream, NEW force,
           NEW p, Aligned(k, counts[stream], Width[stream], force, p), Len(p) \in Nat,
           NEW n \in Nat, n = Width[stream] * counts[stream]
    PROVE  Reaches(Behind(c, stream, counts, force), s, k + Len(p) + n)
<1> DEFINE start == StreamStart(c, stream, counts, force)  w == Width[stream]
<1>1. start \in Cursors /\ (start.at >= 0 => start.cells = s /\ start.at = k + Len(p))
  <2>1. CASE counts[stream] > 0 \/ force
    <3> DEFINE x == Padding(c.at, w)
    <3>1. start = Read(c, x)
      BY <2>1 DEF StreamStart, Align
    <3>2. CASE c.at < 0
      <4>1. Stuck(Read(c, x))
        BY <3>2, FailedStays DEF Reaches, Stuck
      <4>2. Read(c, x) \in Cursors /\ ~(Read(c, x).at >= 0)
        BY <4>1 DEF Stuck, Cursors
      <4> HIDE DEF x, start
      <4> QED
        BY <3>1, <4>2
    <3>3. CASE c.at >= 0
      <4>1. x = Len(p)
        BY <2>1, <3>3 DEF Reaches, Aligned
      <4> HIDE DEF x
      <4>2. Reaches(Read(c, x), s, k + x)
        BY <4>1, ReadReaches
      <4> HIDE DEF start
      <4> QED
        BY <3>1, <4>1, <4>2 DEF Reaches
    <3>4. c.at < 0 \/ c.at >= 0
      BY DEF Reaches, Cursors
    <3> QED
      BY <3>2, <3>3, <3>4
  <2>2. CASE ~(counts[stream] > 0 \/ force)
    <3>1. start = c /\ p = <<>>
      BY <2>2 DEF StreamStart, Aligned
    <3>2. k + Len(p) = k
      BY <3>1
    <3> HIDE DEF start
    <3> QED
      BY <3>1, <3>2 DEF Reaches
  <2> QED
    BY <2>1, <2>2
<1>2. Behind(c, stream, counts, force) = Read(start, n)
  BY DEF Behind
<1> DEFINE m == k + Len(p)
<1>3. m \in Nat
  OBVIOUS
<1> HIDE DEF start, m
<1>4. Reaches(start, s, m)
  BY <1>1 DEF Reaches, m
<1>5. Reaches(Read(start, n), s, m + n)
  BY <1>3, <1>4, ReadReaches
<1> QED
  BY <1>2, <1>5 DEF m

\* All streams of a buffer are passed.
LEMMA StreamsReach ==
    ASSUME NEW s, NEW k \in Nat, NEW c, Reaches(c, s, k), NEW counts, NEW force,
           NEW p, NEW q, Len(p) \in Nat, Len(q) \in Nat,
           NEW bytes \in Nat, NEW ints \in Nat, NEW doubles \in Nat,
           counts.bytes = bytes, counts.shorts = 0, 4 * counts.integers = ints,
           8 * counts.doubles = doubles,
           Aligned(k + bytes, 0, 2, force, <<>>),
           Aligned(k + bytes, counts.integers, 4, force, p),
           Aligned(k + bytes + Len(p) + ints, counts.doubles, 8, force, q)
    PROVE  Reaches(ReadStreams(c, counts, force).cursor, s,
                   k + bytes + Len(p) + ints + Len(q) + doubles)
<1> DEFINE Next1(x, stream) == Behind(x, stream, counts, force)
           c1 == Next1(c, "bytes")  c2 == Next1(c1, "shorts")  c3 == Next1(c2, "integers")
           c4 == Next1(c3, "doubles")  none == <<>>
           k1 == k + bytes  k3 == k1 + Len(p) + ints
<1>1. Width["bytes"] = 1 /\ Width["shorts"] = 2 /\ Width["integers"] = 4 /\ Width["doubles"] = 8
  BY DEF Width
<1>2. ReadStreams(c, counts, force).cursor = c4
  BY DEF ReadStreams, Behind
<1>3. Len(none) = 0 /\ none = <<>>
  OBVIOUS
<1>4. k1 \in Nat /\ k3 \in Nat
  OBVIOUS
<1> HIDE DEF none
<1>5. Reaches(c1, s, k1)
  <2> DEFINE stream == "bytes"
  <2>1. Padding(k, 1) = 0
    BY DEF Padding
  <2>2. Aligned(k, counts[stream], Width[stream], force, none)
    BY <1>1, <1>3, <2>1 DEF Aligned
  <2>3. bytes = Width[stream] * counts[stream]
    BY <1>1
  <2> HIDE DEF stream
  <2>4. Reaches(Behind(c, stream, counts, force), s, k + Len(none) + bytes)
    BY <1>3, <2>2, <2>3, StreamReaches
  <2>5. k + Len(none) + bytes = k1
    BY <1>3
  <2> QED
    BY <2>4, <2>5 DEF stream
<1> HIDE DEF c1, k1, k3
<1>6. Reaches(c2, s, k1)
  <2> DEFINE stream == "shorts"  zero == 0
  <2>1. Aligned(k1, counts[stream], Width[stream], force, none)
    BY <1>1, <1>3 DEF Aligned, k1
  <2>2. zero = Width[stream] * counts[stream] /\ zero \in Nat
    BY <1>1
  <2>4. k1 + Len(none) + zero = k1
    BY <1>3, <1>4
  <2> HIDE DEF stream, zero
  <2>3. Reaches(Behind(c1, stream, counts, force), s, k1 + Len(none) + zero)
    BY <1>3, <1>4, <1>5, <2>1, <2>2, StreamReaches
  <2> QED
    BY <2>3, <2>4 DEF stream
<1> HIDE DEF c2
<1>7. Reaches(c3, s, k3)
  <2> DEFINE stream == "integers"
  <2>1. Aligned(k1, counts[stream], Width[stream], force, p)
    BY <1>1 DEF k1
  <2>2. ints = Width[stream] * counts[stream]
    BY <1>1
  <2> HIDE DEF stream
  <2>3. Reaches(Behind(c2, stream, counts, force), s, k1 + Len(p) + ints)
    BY <1>4, <1>6, <2>1, <2>2, StreamReaches
  <2> QED
    BY <2>3 DEF stream, k3
<1> HIDE DEF c3
<1>8. Reaches(c4, s, k3 + Len(q) + doubles)
  <2> DEFINE stream == "doubles"
  <2>1. Aligned(k3, counts[stream], Width[stream], force, q)
    BY <1>1 DEF k3, k1
  <2>2. doubles = Width[stream] * counts[stream]
    BY <1>1
  <2> HIDE DEF stream
  <2>3. Reaches(Behind(c3, stream, counts, force), s, k3 + Len(q) + doubles)
    BY <1>4, <1>7, <2>1, <2>2, StreamReaches
  <2> QED
    BY <2>3 DEF stream
<1> HIDE DEF c4
<1> QED
  BY <1>2, <1>8 DEF k3, k1

\* A buffer without a trailer at this offset
LacksTrailer(c, k) == \E s : Reaches(c, s, 0) /\ NoTrailerAt(s, k)

\* A part of the file is a buffer, and has no trailer where the file has none.
LEMMA PartLacksTrailer ==
    ASSUME NEW file, NEW s \in Seq(Cells), NEW k \in Nat, NEW c, Reaches(c, s, k),
           NEW n \in Nat, NEW t \in Nat, t + 4 <= n, NoTrailerAt(s, k + t)
    PROVE  LacksTrailer(Decompress(file, c, n, n, 0), t)
<1> DEFINE d == Decompress(file, c, n, n, 0)  p == Part(c, n)  u == SubSeq(s, k + 1, k + n)
<1>1. CASE Read(c, n).at >= 0
  <2>1. k + n <= Len(s) /\ p = u /\ Len(s) \in Nat
    BY <1>1, ReadReaches, LenProperties
  <2>2. \A i \in (k + 1)..(k + n) : s[i] \in Cells
    <3>1. \A i \in (k + 1)..(k + n) : i \in 1..Len(s)
      BY <2>1
    <3> QED
      BY <3>1, ElementOfSeq
  <2>3. /\ u \in Seq(Cells)
        /\ \A i \in 1..((k + n) - (k + 1) + 1) : u[i] = s[(k + 1) + i - 1]
    <3> DEFINE a == k + 1  b == k + n
    <3>1. a \in Int /\ b \in Int /\ \A i \in a..b : s[i] \in Cells
      BY <2>2
    <3> HIDE DEF a, b
    <3>2. /\ SubSeq(s, a, b) \in Seq(Cells)
          /\ \A i \in 1..(b - a + 1) : SubSeq(s, a, b)[i] = s[a + i - 1]
      BY <3>1, SubSeqProperties
    <3> QED
      BY <3>2 DEF a, b
  <2>4. t + 1 \in 1..((k + n) - (k + 1) + 1) /\ (k + 1) + (t + 1) - 1 = k + t + 1
        /\ ~(Len(s) < k + t + 4)
    BY <2>1
  <2>5. u[t + 1] = s[k + t + 1]
    BY <2>3, <2>4
  <2>6. s[k + t + 1][1] # 4
    BY <2>4 DEF NoTrailerAt
  <2>7. NoTrailerAt(u, t)
    BY <2>5, <2>6 DEF NoTrailerAt
  <2>8. d \in {Cursor(u), Broken}
    BY <2>1 DEF Decompress, If
  <2> HIDE DEF d, u
  <2>9. Reaches(d, u, 0)
    BY <2>3, <2>8, ReachesStart, ReachesBroken
  <2> QED
    BY <2>7, <2>9 DEF LacksTrailer, d
<1>2. CASE ~(Read(c, n).at >= 0)
  <2> DEFINE x == Read(c, n)
  <2>1. ~(x.at >= 0)
    BY <1>2
  <2> HIDE DEF x
  <2>2. d = Broken
    BY <2>1 DEF Decompress, If, x
  <2>3. Reaches(Broken, <<>>, 0)
    BY ReachesBroken
  <2>4. NoTrailerAt(<<>>, t)
    <3>1. Len(<<>>) = 0 /\ 0 < t + 4
      OBVIOUS
    <3> QED
      BY <3>1 DEF NoTrailerAt
  <2> HIDE DEF d
  <2> QED
    BY <2>2, <2>3, <2>4 DEF LacksTrailer, d
<1> QED
  BY <1>1, <1>2

-----------------------------------------------------------------------------
(* Without one of its trailers a file has no root. *)

\* Without the trailer behind them, no lengths of blobs are read.
LEMMA LengthsFail ==
    ASSUME NEW s, NEW k \in Nat, NEW c, Reaches(c, s, k), NEW h, h.blob_count \in Nat,
           NoTrailerAt(s, k + 4 * h.blob_count)
    PROVE  Stuck(ReadBlobLengths(c, h).cursor)
<1> DEFINE n == h.blob_count  m == k + 4 * n  r == ReadNumbers(c, 4, n)  four == 4
<1>1. m \in Nat /\ four \in Nat
  OBVIOUS
<1>2. ReadBlobLengths(c, h) = LengthsRead(r, h.blob_size)
  BY DEF ReadBlobLengths
<1> HIDE DEF four
<1>3. Reaches(ReadNumbers(c, four, n).cursor, s, k + four * n)
  BY <1>1, NumbersReach
<1> HIDE DEF m, r
<1>4. Reaches(r.cursor, s, m)
  BY <1>3 DEF four, m, r
<1>5. Stuck(ReadTrailer(r.cursor, TRAILER))
  BY <1>1, <1>4, TrailerMissing DEF m
<1>6. LengthsRead(r, h.blob_size).cursor \in {ReadTrailer(r.cursor, TRAILER), Broken}
  BY DEF LengthsRead, If
<1> QED
  BY <1>2, <1>5, <1>6, BrokenIsStuck

\* The parts before the lengths of the blobs are passed.
LEMMA TypesPassed ==
    ASSUME NEW s, NEW k \in Nat, NEW c, Reaches(c, s, k), NEW h, h.blob_count \in Nat,
           h.type_size \in Nat, NoTrailerAt(s, k + h.type_size + 4 * h.blob_count)
    PROVE  Stuck(ReadBlobLengths(Read(c, h.type_size), h).cursor)
<1> DEFINE n == h.type_size  m == k + n
<1>1. m \in Nat
  OBVIOUS
<1> HIDE DEF n, m
<1>2. Reaches(Read(c, n), s, m)
  BY <1>1, ReadReaches DEF n, m
<1>3. NoTrailerAt(s, m + 4 * h.blob_count)
  BY DEF m, n
<1> QED
  BY <1>1, <1>2, <1>3, LengthsFail DEF n

\* The offset of the trailer behind streams, types and lengths
TrailerOffset(h, ints, q, dbls) == ints + Len(q) + dbls + h.type_size + 4 * h.blob_count

\* A payload of version 4 whose trailer is missing behind these streams
OlderMisses(h, ints, dbls, q, c) ==
    /\ h.compression = 0 /\ h.blob_count \in Nat /\ h.type_size \in Nat /\ h.blob_size \in Nat
    /\ SaysCounts(h, 0, ints, dbls) /\ Len(q) = Padding(4 * ints, 8)
    /\ LacksTrailer(c, TrailerOffset(h, 4 * ints, q, 8 * dbls))

\* A payload of version 4 without its trailer has no root.
LEMMA OlderPayloadFails ==
    ASSUME NEW file, NEW h, NEW ints \in Nat, NEW dbls \in Nat, NEW q, Len(q) \in Nat, NEW c,
           OlderMisses(h, ints, dbls, q, c)
    PROVE  PayloadV2V4(file, h, ReadStreams(c, h.counts, TRUE)).root = NoDocument.root
<1> DEFINE a == 4 * ints  d == 8 * dbls  none == <<>>  force == TRUE  zero == 0
           at == zero + zero + Len(none) + a + Len(q) + d
           primary == ReadStreams(c, h.counts, force)
           lengths == ReadBlobLengths(Read(primary.cursor, h.type_size), h)
           input == Read(Cursor(file.body), h.encoded_size)
           blobs == ReadOlderBlobs(file, h, input, lengths.cursor)
           table == ReadTable(TextCount(primary), Cursor(Part(primary.cursor, h.type_size)))
<1>0. /\ h.compression = 0 /\ h.blob_count \in Nat /\ h.type_size \in Nat /\ h.blob_size \in Nat
      /\ SaysCounts(h, 0, ints, dbls) /\ Len(q) = Padding(4 * ints, 8)
      /\ LacksTrailer(c, TrailerOffset(h, a, q, d))
  BY DEF OlderMisses
<1>1. Len(none) = 0 /\ zero \in Nat /\ a \in Nat /\ d \in Nat
  OBVIOUS
<1>2. at = a + Len(q) + d /\ at \in Nat
  BY <1>1
<1>3. PICK s : Reaches(c, s, 0) /\ NoTrailerAt(s, TrailerOffset(h, a, q, d))
  BY <1>0 DEF LacksTrailer
<1>4. Padding(0, 2) = 0 /\ Padding(0, 4) = 0
  BY PaddingIs
<1>5. /\ h.counts.bytes = zero /\ h.counts.shorts = 0 /\ 4 * h.counts.integers = a
      /\ 8 * h.counts.doubles = d
  BY <1>0 DEF SaysCounts
<1>6. Aligned(zero + zero, 0, 2, force, <<>>)
  BY <1>1, <1>4 DEF Aligned
<1>7. Aligned(zero + zero, h.counts.integers, 4, force, none)
  BY <1>1, <1>4 DEF Aligned
<1>8. Aligned(zero + zero + Len(none) + a, h.counts.doubles, 8, force, q)
  <2>1. zero + zero + Len(none) + a = 4 * ints
    BY <1>1
  <2> QED
    BY <1>0, <2>1 DEF Aligned
<1>9. Reaches(primary.cursor, s, at)
  <2> DEFINE counts == h.counts
  <2> HIDE DEF zero, none, force, a, d, counts
  <2>1. Reaches(ReadStreams(c, counts, force).cursor, s, zero + zero + Len(none) + a + Len(q) + d)
    <3>1. Reaches(c, s, zero) /\ Len(none) \in Nat /\ Len(q) \in Nat
      BY <1>1, <1>3 DEF zero
    <3>2. /\ counts.bytes = zero /\ counts.shorts = 0 /\ 4 * counts.integers = a
          /\ 8 * counts.doubles = d
      BY <1>5 DEF counts
    <3>3. /\ Aligned(zero + zero, 0, 2, force, <<>>)
          /\ Aligned(zero + zero, counts.integers, 4, force, none)
          /\ Aligned(zero + zero + Len(none) + a, counts.doubles, 8, force, q)
      BY <1>6, <1>7, <1>8 DEF counts
    <3> QED
      BY ONLY <1>1, <3>1, <3>2, <3>3, StreamsReach, ZenonT(60)
  <2> QED
    BY <2>1 DEF counts
<1>10. TrailerOffset(h, a, q, d) = at + h.type_size + 4 * h.blob_count
  BY <1>0, <1>2 DEF TrailerOffset
<1> HIDE DEF at, primary
<1>11. Stuck(lengths.cursor)
  BY <1>0, <1>2, <1>3, <1>9, <1>10, TypesPassed
<1> HIDE DEF lengths
<1>12. Remaining(lengths.cursor) = -1 /\ h.blob_size # -1
  BY <1>0, <1>11 DEF Remaining, Stuck
<1>13. blobs.payload = lengths.cursor
  <2>1. blobs = [cells |-> Part(input, h.blob_size),
                 input |-> EndBlobs(h, Read(input, h.blob_size)), payload |-> lengths.cursor]
    BY <1>0, <1>12 DEF ReadOlderBlobs
  <2> HIDE DEF blobs
  <2> QED
    BY <2>1
<1>14. ~Finished(blobs.payload)
  <2> HIDE DEF blobs
  <2> QED
    BY <1>12, <1>13 DEF Finished
<1>15. PayloadV2V4(file, h, primary) = BodyV2V4(file, primary, table, lengths, blobs)
  BY <1>0 DEF PayloadV2V4, BlobsV2V4, lengths
<1> HIDE DEF blobs, table
<1>16. BodyV2V4(file, primary, table, lengths, blobs).root = NoDocument.root
  BY <1>14 DEF BodyV2V4, Body
<1> QED
  BY <1>15, <1>16 DEF primary

\* Without the trailer behind the blobs, a payload of version 4 has no root either.
LEMMA OlderBlobsFail ==
    ASSUME NEW file, NEW h, h.compression = 0, h.blob_count > 0, h.blob_size \in Nat,
           NEW s, NEW k \in Nat, Reaches(Read(Cursor(file.body), h.encoded_size), s, k),
           NoTrailerAt(s, k), NoTrailerAt(s, k + h.blob_size), NEW primary
    PROVE  PayloadV2V4(file, h, primary).root = NoDocument.root
<1> DEFINE lengths == ReadBlobLengths(Read(primary.cursor, h.type_size), h)
           input == Read(Cursor(file.body), h.encoded_size)
           blobs == ReadOlderBlobs(file, h, input, lengths.cursor)
           table == ReadTable(TextCount(primary), Cursor(Part(primary.cursor, h.type_size)))
<1> HIDE DEF lengths, input
<1>1. Stuck(EndBlobs(h, input))
  BY TrailerMissing DEF EndBlobs, input
<1>2. Stuck(EndBlobs(h, Read(input, h.blob_size)))
  <2> DEFINE n == h.blob_size  m == k + n
  <2>1. n \in Nat /\ m \in Nat
    OBVIOUS
  <2> HIDE DEF n, m
  <2>2. Reaches(Read(input, n), s, m)
    BY <2>1, ReadReaches DEF m, input
  <2>3. NoTrailerAt(s, m)
    BY DEF m, n
  <2>4. EndBlobs(h, Read(input, n)) = ReadTrailer(Read(input, n), TRAILER)
    BY DEF EndBlobs
  <2> QED
    BY <2>1, <2>2, <2>3, <2>4, TrailerMissing DEF n
<1>3. blobs.input \in {EndBlobs(h, input), EndBlobs(h, Read(input, h.blob_size))}
  BY DEF ReadOlderBlobs
<1> HIDE DEF blobs
<1>4. ~(blobs.input.at >= 0)
  BY <1>1, <1>2, <1>3 DEF Stuck, Cursors
<1>5. PayloadV2V4(file, h, primary) = BodyV2V4(file, primary, table, lengths, blobs)
  BY DEF PayloadV2V4, BlobsV2V4, lengths, blobs, input
<1> HIDE DEF table
<1>6. BodyV2V4(file, primary, table, lengths, blobs).root = NoDocument.root
  BY <1>4 DEF BodyV2V4, Body
<1> QED
  BY <1>5, <1>6

\* A second buffer of version 5 whose trailer is missing behind these streams
SecondMisses(h, ints, dbls, objects, q, two) ==
    LET at == 4 * objects + 4 * ints
    IN  Aligned(at, dbls, 8, FALSE, q) /\ LacksTrailer(two, TrailerOffset(h, at, q, 8 * dbls))

\* The second buffer of version 5 without its trailer leaves the file without a root.
LEMMA NewerPayloadFails ==
    ASSUME NEW file, NEW h, h.blob_count \in Nat, h.type_size \in Nat, h.blob_frame_count = 0,
           NEW v, NEW ints \in Nat, NEW dbls \in Nat, NEW objects \in Nat,
           SaysCounts(v, 0, ints, dbls), v.object_count = objects,
           NEW q, Len(q) \in Nat, NEW two, SecondMisses(h, ints, dbls, objects, q, two),
           NEW one, NEW input
    PROVE  BuffersV5(file, h, v, one, two, input).root = NoDocument.root
<1> DEFINE a == 4 * ints  d == 8 * dbls  o == 4 * objects  none == <<>>  force == FALSE  zero == 0
           c == Read(two, o)  at == o + zero + Len(none) + a + Len(q) + d
           alternate == ReadStreams(one, h.counts, FALSE)
           counted == Part(two, o)
           primary == ReadStreams(c, v.counts, force)
           lengths == ReadBlobLengths(Read(primary.cursor, h.type_size), h)
           frames == ReadNumbers(lengths.cursor, 2, h.blob_frame_count)
           blobs == ReadV5Blobs(file, h, input, frames.numbers)
           table == ReadTable(TextCount(alternate), Cursor(alternate.bytes))
<1>1. Len(none) = 0 /\ zero \in Nat /\ a \in Nat /\ d \in Nat /\ o \in Nat
  OBVIOUS
<1>2. at = (o + a) + Len(q) + d /\ at \in Nat
  BY <1>1
<1>3. PICK s : Reaches(two, s, 0) /\ NoTrailerAt(s, TrailerOffset(h, o + a, q, d))
  BY DEF LacksTrailer, SecondMisses
<1>4. Padding(o, 4) = 0
  BY PaddingOfMultiple
<1>5. /\ v.counts.bytes = zero /\ v.counts.shorts = 0 /\ 4 * v.counts.integers = a
      /\ 8 * v.counts.doubles = d
  BY DEF SaysCounts
<1>6. Aligned(o + zero, 0, 2, force, <<>>)
  BY DEF Aligned
<1>7. Aligned(o + zero, v.counts.integers, 4, force, none)
  <2>1. o + zero = o
    BY <1>1
  <2> QED
    BY <1>1, <1>4, <2>1 DEF Aligned
<1>8. Aligned(o + zero + Len(none) + a, v.counts.doubles, 8, force, q)
  <2>1. o + zero + Len(none) + a = 4 * objects + 4 * ints
    BY <1>1
  <2>2. v.counts.doubles = dbls
    BY DEF SaysCounts
  <2> QED
    BY <2>1, <2>2 DEF SecondMisses
<1>9. Reaches(primary.cursor, s, at)
  <2> DEFINE counts == v.counts
  <2>0. Reaches(c, s, o)
    <3> HIDE DEF o, zero
    <3> DEFINE start == 0
    <3>1. Reaches(two, s, start) /\ start \in Nat /\ start + o = o
      BY <1>1, <1>3
    <3> HIDE DEF start
    <3>2. Reaches(Read(two, o), s, start + o)
      BY <1>1, <3>1, ReadReaches
    <3> QED
      BY <3>1, <3>2
  <2> HIDE DEF zero, none, force, a, d, o, counts, c
  <2>1. Reaches(ReadStreams(c, counts, force).cursor, s, o + zero + Len(none) + a + Len(q) + d)
    <3>1. Reaches(c, s, o) /\ Len(none) \in Nat /\ Len(q) \in Nat
      BY <1>1, <2>0
    <3>2. /\ counts.bytes = zero /\ counts.shorts = 0 /\ 4 * counts.integers = a
          /\ 8 * counts.doubles = d
      BY <1>5 DEF counts
    <3>3. /\ Aligned(o + zero, 0, 2, force, <<>>)
          /\ Aligned(o + zero, counts.integers, 4, force, none)
          /\ Aligned(o + zero + Len(none) + a, counts.doubles, 8, force, q)
      BY <1>6, <1>7, <1>8 DEF counts
    <3> QED
      BY ONLY <1>1, <3>1, <3>2, <3>3, StreamsReach, ZenonT(60)
  <2> QED
    BY <2>1 DEF counts
<1>10. TrailerOffset(h, o + a, q, d) = at + h.type_size + 4 * h.blob_count
  BY <1>2 DEF TrailerOffset
<1> HIDE DEF at, primary, alternate, counted
<1>11. Stuck(lengths.cursor)
  BY <1>2, <1>3, <1>9, <1>10, TypesPassed
<1> HIDE DEF lengths
<1>12. Stuck(frames.cursor)
  BY <1>11, NumbersFail
<1>13. BuffersV5(file, h, v, one, two, input) =
         BodyV5(Version5(file.fields), h, alternate, table, counted, primary, lengths, frames, blobs)
  BY DEF BuffersV5, LengthsV5, FramesV5, BlobsV5, alternate, primary, counted, lengths
<1> HIDE DEF frames, blobs, table
<1>14. ~Finished(frames.cursor)
  <2>1. Remaining(frames.cursor) = -1
    BY <1>12 DEF Remaining, Stuck
  <2> QED
    BY <2>1 DEF Finished
<1>15. BodyV5(Version5(file.fields), h, alternate, table, counted, primary, lengths, frames, blobs).root
         = NoDocument.root
  BY <1>14 DEF BodyV5, Body
<1> QED
  BY <1>13, <1>15

\* Without the trailer behind the blobs, a file of version 5 has no root either.
LEMMA NewerBlobsFail ==
    ASSUME NEW file, NEW h, h.compression = 0, h.blob_count > 0, h.blob_size \in Nat,
           NEW s, NEW k \in Nat, NEW input, Reaches(input, s, k),
           NoTrailerAt(s, k + h.blob_size), NEW v, NEW one, NEW two
    PROVE  BuffersV5(file, h, v, one, two, input).root = NoDocument.root
<1> DEFINE alternate == ReadStreams(one, h.counts, FALSE)
           counted == Part(two, 4 * v.object_count)
           primary == ReadStreams(Read(two, 4 * v.object_count), v.counts, FALSE)
           lengths == ReadBlobLengths(Read(primary.cursor, h.type_size), h)
           frames == ReadNumbers(lengths.cursor, 2, h.blob_frame_count)
           blobs == ReadV5Blobs(file, h, input, frames.numbers)
           table == ReadTable(TextCount(alternate), Cursor(alternate.bytes))
           n == h.blob_size  m == k + n
<1>1. n \in Nat /\ m \in Nat
  OBVIOUS
<1>2. BuffersV5(file, h, v, one, two, input) =
         BodyV5(Version5(file.fields), h, alternate, table, counted, primary, lengths, frames, blobs)
  BY DEF BuffersV5, LengthsV5, FramesV5, BlobsV5
<1> HIDE DEF alternate, counted, primary, lengths, frames, table
<1>3. Reaches(blobs.cursor, s, m)
  <2>1. CASE n = 0
    <3>1. blobs.cursor \in {input, Broken}
      BY <2>1 DEF ReadV5Blobs, If
    <3>2. m = k
      BY <2>1
    <3> HIDE DEF blobs, m
    <3> QED
      BY <3>1, <3>2, ReachesBroken
  <2>2. CASE n # 0
    <3>1. blobs.cursor = Read(input, n)
      BY <2>2 DEF ReadV5Blobs
    <3> HIDE DEF blobs, n
    <3> QED
      BY <1>1, <3>1, ReadReaches
  <2> QED
    BY <2>1, <2>2
<1> HIDE DEF blobs, m
<1>4. EndBlobs(h, blobs.cursor) = ReadTrailer(blobs.cursor, TRAILER) /\ NoTrailerAt(s, m)
  BY DEF EndBlobs, m
<1>5. Stuck(EndBlobs(h, blobs.cursor))
  BY <1>1, <1>3, <1>4, TrailerMissing
<1>6. ~(EndBlobs(h, blobs.cursor).at >= 0)
  BY <1>5 DEF Stuck, Cursors
<1>7. BodyV5(Version5(file.fields), h, alternate, table, counted, primary, lengths, frames, blobs).root
         = NoDocument.root
  BY <1>6 DEF BodyV5, Body
<1> QED
  BY <1>2, <1>7

-----------------------------------------------------------------------------
(* What is left of a body that was cut off has lost a trailer. *)

\* What is left of a body of which only the first n cells reached the disk: it ends
\* there, or, when its length was stored already, the rest is zero
CutOff(body, n) ==
    LET start == SubSeq(body, 1, n) IN {start, start \o Zeros(Len(body) - n)}

\* The same, cell by cell
IsCut(body, n, cut) ==
    /\ cut \in Seq(Cells) /\ Len(cut) \in {n, Len(body)}
    /\ \A i \in 1..n : cut[i] = body[i]
    /\ \A i \in (n + 1)..Len(cut) : cut[i] = <<1, 0>>

\* A body that was cut off has its first cells, and zeros behind them.
LEMMA CutIs ==
    ASSUME NEW body \in Seq(Cells), NEW n \in 0..Len(body), NEW cut \in CutOff(body, n)
    PROVE  IsCut(body, n, cut)
<1> DEFINE s == SubSeq(body, 1, n)  m == Len(body) - n  z == Zeros(m)  l == Len(body)
<1>1. l \in Nat /\ n \in Nat /\ n <= l /\ m \in Nat /\ n + m = l
  BY LenProperties
<1>2. s \in Seq(Cells) /\ Len(s) = n /\ \A i \in 1..n : s[i] = body[i]
  <2>1. \A i \in 1..n : body[i] \in Cells
    <3>1. \A i \in 1..n : i \in 1..Len(body)
      BY <1>1
    <3> QED
      BY <3>1, ElementOfSeq
  <2> DEFINE one == 1
  <2>2. one \in Int /\ n \in Int /\ \A i \in one..n : body[i] \in Cells
    BY <1>1, <2>1
  <2> HIDE DEF one
  <2>3. /\ SubSeq(body, one, n) \in Seq(Cells)
        /\ Len(SubSeq(body, one, n)) = IF one <= n THEN n - one + 1 ELSE 0
        /\ \A i \in 1..(n - one + 1) : SubSeq(body, one, n)[i] = body[one + i - 1]
    BY <2>2, SubSeqProperties
  <2>4. /\ n - one + 1 = n /\ (IF one <= n THEN n - one + 1 ELSE 0) = n
        /\ \A i \in 1..n : one + i - 1 = i
    BY <1>1, SMTT(60) DEF one
  <2> QED
    BY <2>3, <2>4 DEF one
<1>3. z \in Seq(Cells) /\ Len(z) = m /\ \A i \in 1..m : z[i] = <<1, 0>>
  BY <1>1, ZerosAre
<1>4. cut \in {s, s \o z}
  BY DEF CutOff
<1> HIDE DEF s, z, m, l
<1>5. CASE cut = s
  <2>1. Len(cut) = n /\ \A i : i \notin (n + 1)..n
    BY <1>1, <1>2, <1>5
  <2> QED
    BY <1>2, <1>5, <2>1 DEF IsCut
<1>6. CASE cut = s \o z
  <2>1. /\ cut \in Seq(Cells) /\ Len(cut) = n + m
        /\ \A i \in 1..(n + m) : cut[i] = IF i <= n THEN s[i] ELSE z[i - n]
    BY <1>2, <1>3, <1>6, ConcatProperties
  <2>2. \A i \in 1..n : i \in 1..(n + m) /\ i <= n
    BY <1>1
  <2>3. \A i \in (n + 1)..(n + m) : i \in 1..(n + m) /\ ~(i <= n) /\ i - n \in 1..m
    BY <1>1
  <2>4. \A i \in 1..n : cut[i] = body[i]
    BY <1>2, <2>1, <2>2
  <2>5. \A i \in (n + 1)..(n + m) : cut[i] = <<1, 0>>
    BY <1>3, <2>1, <2>3
  <2>6. Len(cut) = Len(body)
    BY <1>1, <2>1 DEF l
  <2> QED
    BY <2>1, <2>4, <2>5, <2>6 DEF IsCut
<1> QED
  BY <1>4, <1>5, <1>6

\* Behind what is left there is no trailer.
LEMMA NoTrailerBehind ==
    ASSUME NEW body, NEW n \in Nat, NEW cut, IsCut(body, n, cut), NEW k \in Nat, n <= k
    PROVE  NoTrailerAt(cut, k)
<1>1. Len(cut) \in Nat
  BY LenProperties DEF IsCut
<1>2. CASE k + 4 <= Len(cut)
  <2>1. k + 1 \in (n + 1)..Len(cut)
    BY <1>1, <1>2
  <2>2. cut[k + 1] = <<1, 0>>
    BY <2>1 DEF IsCut
  <2>3. <<1, 0>>[1] = 1 /\ 1 # 4
    OBVIOUS
  <2> QED
    BY <2>2, <2>3 DEF NoTrailerAt
<1>3. CASE ~(k + 4 <= Len(cut))
  BY <1>1, <1>3 DEF NoTrailerAt
<1> QED
  BY <1>2, <1>3

\* The other bytes of a trailer are part of its number
EndsWithTrailer(s) ==
    s \in Seq(Cells) /\ Len(s) >= 4 /\ \A i \in (Len(s) - 2)..Len(s) : s[i] = <<0, 0>>

\* What ends with a trailer
LEMMA TrailerEnds ==
    ASSUME NEW a \in Seq(Cells)
    PROVE  EndsWithTrailer(a \o Trailer) /\ Len(a \o Trailer) = Len(a) + 4
<1> DEFINE s == a \o Trailer  n == Len(a)
<1>1. Trailer \in Seq(Cells) /\ Len(Trailer) = 4
  BY TrailerIs DEF Trailer
<1>2. \A i \in 2..4 : Trailer[i] = <<0, 0>>
  <2> DEFINE x == <<<<4, TRAILER>>>>  y == [i \in 1..3 |-> <<0, 0>>]
  <2>1. TRAILER \in Int /\ <<0, 0>> \in Cells
    BY DEF TRAILER, Cells
  <2>2. <<4, TRAILER>> \in Cells
    BY <2>1 DEF Cells
  <2>3. x \in Seq(Cells) /\ Len(x) = 1
    BY <2>2
  <2>4. y \in Seq(Cells) /\ Len(y) = 3 /\ \A i \in 1..3 : y[i] = <<0, 0>>
    BY <2>1
  <2>5. Trailer = x \o y
    <3>1. 4 - 1 = 3
      OBVIOUS
    <3> QED
      BY <3>1 DEF Trailer, Number
  <2> HIDE DEF x, y
  <2>6. \A i \in 1..(Len(x) + Len(y)) : Trailer[i] = IF i <= Len(x) THEN x[i] ELSE y[i - Len(x)]
    BY <2>3, <2>4, <2>5, ConcatProperties
  <2>7. \A i \in 2..4 : i \in 1..(1 + 3) /\ ~(i <= 1) /\ i - 1 \in 1..3
    OBVIOUS
  <2> QED
    BY <2>3, <2>4, <2>6, <2>7
<1>3. n \in Nat
  BY LenProperties
<1> HIDE DEF n
<1>4. /\ s \in Seq(Cells) /\ Len(s) = n + 4
      /\ \A i \in 1..(n + 4) : s[i] = IF i <= n THEN a[i] ELSE Trailer[i - n]
  <2>1. /\ s \in Seq(Cells) /\ Len(s) = Len(a) + Len(Trailer)
        /\ \A i \in 1..(Len(a) + Len(Trailer)) :
              s[i] = IF i <= Len(a) THEN a[i] ELSE Trailer[i - Len(a)]
    BY <1>1, ConcatProperties
  <2> HIDE DEF s
  <2> QED
    BY <1>1, <2>1 DEF n
<1>5. \A i \in ((n + 4) - 2)..(n + 4) : i \in 1..(n + 4) /\ ~(i <= n) /\ i - n \in 2..4
  BY <1>3
<1>6. \A i \in ((n + 4) - 2)..(n + 4) : s[i] = <<0, 0>>
  BY <1>2, <1>4, <1>5
<1> HIDE DEF s
<1>7. EndsWithTrailer(s)
  BY <1>3, <1>4, <1>6 DEF EndsWithTrailer
<1> QED
  BY <1>4, <1>7 DEF s, n

\* What is put before it changes no ending.
LEMMA TrailerStays ==
    ASSUME NEW a \in Seq(Cells), NEW b, EndsWithTrailer(b)
    PROVE  EndsWithTrailer(a \o b)
<1> DEFINE s == a \o b  n == Len(a)  m == Len(b)
<1>1. b \in Seq(Cells) /\ m >= 4 /\ \A i \in (m - 2)..m : b[i] = <<0, 0>>
  BY DEF EndsWithTrailer
<1>2. n \in Nat /\ m \in Nat
  BY <1>1, LenProperties
<1>3. /\ s \in Seq(Cells) /\ Len(s) = n + m
      /\ \A i \in 1..(n + m) : s[i] = IF i <= n THEN a[i] ELSE b[i - n]
  BY <1>1, ConcatProperties
<1> HIDE DEF s, n, m
<1>4. \A i \in ((n + m) - 2)..(n + m) : i \in 1..(n + m) /\ ~(i <= n) /\ i - n \in (m - 2)..m
  BY <1>1, <1>2
<1>5. \A i \in ((n + m) - 2)..(n + m) : s[i] = <<0, 0>>
  BY <1>1, <1>3, <1>4
<1>6. n + m >= 4
  BY <1>1, <1>2
<1> QED
  BY <1>3, <1>5, <1>6 DEF EndsWithTrailer, s

\* A body that is cut off before the end of a trailer, and not inside of one of its
\* numbers, has lost this trailer.
LEMMA TrailerLost ==
    ASSUME NEW a, EndsWithTrailer(a), NEW r \in Seq(Cells), NEW body, body = a \o r,
           NEW n \in Nat, n < Len(a), body[n + 1][1] > 0, NEW cut, IsCut(body, n, cut)
    PROVE  NoTrailerAt(cut, Len(a) - 4) /\ Len(a) - 4 \in Nat /\ n <= Len(a) - 4
<1> DEFINE m == Len(a)
<1>1. a \in Seq(Cells) /\ m \in Nat /\ m >= 4 /\ \A i \in (m - 2)..m : a[i] = <<0, 0>>
  BY LenProperties DEF EndsWithTrailer
<1>2. \A i \in 1..m : body[i] = a[i]
  <2>1. \A i \in 1..(Len(a) + Len(r)) : body[i] = IF i <= Len(a) THEN a[i] ELSE r[i - Len(a)]
    BY <1>1, ConcatProperties
  <2>2. Len(r) \in Nat
    BY LenProperties
  <2>3. \A i \in 1..m : i \in 1..(m + Len(r)) /\ i <= m
    BY <1>1, <2>2
  <2> QED
    BY <2>1, <2>3
<1> HIDE DEF m
<1>3. n < m
  BY DEF m
<1>4. n + 1 \in 1..m
  BY <1>1, <1>3
<1>5. n + 1 \notin (m - 2)..m
  <2> SUFFICES ASSUME n + 1 \in (m - 2)..m PROVE FALSE
    OBVIOUS
  <2>1. body[n + 1] = <<0, 0>>
    BY <1>1, <1>2, <1>4
  <2>2. <<0, 0>>[1] = 0 /\ ~(0 > 0)
    OBVIOUS
  <2> QED
    BY <2>1, <2>2
<1>6. m - 4 \in Nat /\ n <= m - 4
  BY <1>1, <1>4, <1>5
<1> DEFINE k == m - 4
<1>7. k \in Nat /\ n <= k
  BY <1>6
<1> HIDE DEF k
<1>8. NoTrailerAt(cut, k)
  BY <1>7, NoTrailerBehind
<1> QED
  BY <1>7, <1>8 DEF k, m

\* Both payloads end with a trailer.
LEMMA EndingEnds ==
    ASSUME NEW e, Collected(e)
    PROVE  EndsWithTrailer(Ending(e))
<1> DEFINE y == Types(e)  l == Lengths(e)  a == y \o l
<1>1. y \in Seq(Cells) /\ l \in Seq(Cells)
  BY PartsAre
<1>2. Ending(e) = a \o Trailer
  BY DEF Ending, Types, Lengths, Trailer
<1> HIDE DEF y, l
<1>3. a \in Seq(Cells)
  BY ONLY <1>1, Joined
<1> HIDE DEF a
<1>4. EndsWithTrailer(a \o Trailer)
  BY <1>3, TrailerEnds
<1> QED
  BY <1>2, <1>4

\* The payload of version 4 ends with a trailer.
LEMMA OlderEnds ==
    ASSUME NEW e, Collected(e), ~e.version5
    PROVE  EndsWithTrailer(BuildPayload(e))
<1> DEFINE i == FirstIntegers(e)  q == FirstPadding(e)  d == Doubles(e)  t == StringTable(e)
           a == i \o q  b == a \o d  c == b \o t
<1>1. d \in Seq(Cells) /\ t \in Seq(Cells)
  BY PartsAre
<1>2. i \in Seq(Cells) /\ q \in Seq(Cells)
  BY FirstIntegersAre
<1>3. BuildPayload(e) = c \o Ending(e)
  BY DEF BuildPayload, FirstIntegers, FirstPadding, Doubles
<1> HIDE DEF i, q, d, t
<1>4. a \in Seq(Cells)
  BY ONLY <1>2, Joined
<1> HIDE DEF a
<1>5. b \in Seq(Cells)
  BY ONLY <1>1, <1>4, Joined
<1> HIDE DEF b
<1>6. c \in Seq(Cells)
  BY ONLY <1>1, <1>5, Joined
<1> HIDE DEF c
<1>7. EndsWithTrailer(Ending(e))
  BY EndingEnds
<1> QED
  BY <1>3, <1>6, <1>7, TrailerStays

\* The payload of version 5 ends with a trailer.
LEMMA NewerEnds ==
    ASSUME NEW e, Collected(e)
    PROVE  EndsWithTrailer(BuildPayload5(e))
<1> DEFINE f == FirstBuffer(e)  o == ObjectCounts(e)  j == AllIntegers(e)  q == SecondPadding(e)
           d == Doubles(e)  s == o \o j  a == f \o s  b == a \o q  c == b \o d
<1>1. f \in Seq(Cells)
  BY FirstBufferIs
<1>2. {o, j, q} \subseteq Seq(Cells)
  BY NewerPartsAre
<1>3. d \in Seq(Cells)
  BY PartsAre
<1>4. BuildPayload5(e) = c \o Ending(e)
  BY DEF BuildPayload5, FirstBuffer, TextPadding, TextNumber, ObjectCounts, AllIntegers,
         SecondPadding, Doubles
<1> HIDE DEF f, o, j, q, d
<1>5. o \in Seq(Cells) /\ j \in Seq(Cells) /\ q \in Seq(Cells)
  BY <1>2
<1>6. s \in Seq(Cells)
  BY ONLY <1>5, Joined
<1> HIDE DEF s
<1>7. a \in Seq(Cells)
  BY ONLY <1>1, <1>6, Joined
<1> HIDE DEF a
<1>8. b \in Seq(Cells)
  BY ONLY <1>5, <1>7, Joined
<1> HIDE DEF b
<1>9. c \in Seq(Cells)
  BY ONLY <1>3, <1>8, Joined
<1> HIDE DEF c
<1>10. EndsWithTrailer(Ending(e))
  BY EndingEnds
<1> QED
  BY <1>4, <1>9, <1>10, TrailerStays

\* The offset of the trailer in a payload of version 4
LEMMA OlderOffset ==
    ASSUME NEW e, Collected(e), ~e.version5, NEW h, h.blob_count = Len(e.lengths),
           h.type_size = e.string_bytes + Len(e.types)
    PROVE  TrailerOffset(h, 4 * Len(e.integers), FirstPadding(e), 8 * Len(e.doubles))
             = Len(BuildPayload(e)) - 4
<1> DEFINE i == FirstIntegers(e)  q == FirstPadding(e)  d == Doubles(e)  t == StringTable(e)
           y == Types(e)  l == Lengths(e)  x == Trailer
<1>1. /\ {d, t, y, l, x} \subseteq Seq(Cells) /\ Len(t) = e.string_bytes
      /\ Len(y) = Len(e.types) /\ Len(d) = 8 * Len(e.doubles) /\ Len(l) = 4 * Len(e.lengths)
      /\ Len(x) = 4
  BY PartsAre
<1>2. i \in Seq(Cells) /\ q \in Seq(Cells) /\ Len(i) = 4 * Len(e.integers)
  BY FirstIntegersAre
<1>3. BuildPayload(e) = OlderWritten(i, q, d, t, y, l, x)
  BY DEF BuildPayload, Ending, OlderWritten, FirstIntegers, FirstPadding, Doubles,
     Types,
         Lengths, Trailer
<1> HIDE DEF i, q, d, t, y, l, x
<1>4. {i, q, d, t, y, l, x} \subseteq Seq(Cells)
  BY <1>1, <1>2
<1>5. Len(OlderWritten(i, q, d, t, y, l, x)) = LengthOf(i, q, d, t, y, l, x)
  BY ONLY <1>4, OlderParts
<1>6. {Len(i), Len(q), Len(d), Len(t), Len(y), Len(l)} \subseteq Nat
  BY <1>4, LenProperties
<1>7. TrailerOffset(h, Len(i), q, Len(d)) = Len(BuildPayload(e)) - 4
  <2> DEFINE i0 == Len(i)  q0 == Len(q)  d0 == Len(d)  t0 == Len(t)  y0 == Len(y)  l0 == Len(l)
             all == Len(BuildPayload(e))
  <2>1. all = i0 + q0 + d0 + t0 + y0 + l0 + 4
    BY <1>1, <1>3, <1>5 DEF LengthOf
  <2>2. TrailerOffset(h, Len(i), q, Len(d)) = i0 + q0 + d0 + (t0 + y0) + l0
    BY <1>1 DEF TrailerOffset
  <2>3. {i0, q0, d0, t0, y0, l0} \subseteq Nat
    BY <1>6
  <2> HIDE DEF i0, q0, d0, t0, y0, l0, all
  <2>4. i0 + q0 + d0 + (t0 + y0) + l0 = all - 4
    BY ONLY <2>1, <2>3
  <2> QED
    BY <2>2, <2>4 DEF all
<1> QED
  BY <1>1, <1>2, <1>7 DEF q

\* The offset of the trailer in the second buffer of version 5
LEMMA NewerOffset ==
    ASSUME NEW e, Collected(e), NEW h, h.blob_count = Len(e.lengths), h.type_size = Len(e.types)
    PROVE  /\ TrailerOffset(h, 4 * Len(e.objects) + 4 * Len(e.integers), SecondPadding(e),
                            8 * Len(e.doubles))
                = Len(SecondBuffer(e)) - 4
           /\ Len(SecondBuffer(e)) - 4 \in Nat
<1> DEFINE f == FirstBuffer(e)  o == ObjectCounts(e)  j == AllIntegers(e)  q == SecondPadding(e)
           d == Doubles(e)  y == Types(e)  l == Lengths(e)  x == Trailer
<1>1. /\ {d, y, l, x} \subseteq Seq(Cells)
      /\ Len(y) = Len(e.types) /\ Len(d) = 8 * Len(e.doubles) /\ Len(l) = 4 * Len(e.lengths)
      /\ Len(x) = 4
  BY PartsAre
<1>2. /\ {o, j, q} \subseteq Seq(Cells) /\ Len(o) = 4 * Len(e.objects)
      /\ Len(j) = 4 * Len(e.integers)
  BY NewerPartsAre
<1>3. SecondBuffer(e) = SecondRead(o, j, q, d, y, l, x) /\ f \in Seq(Cells)
  BY FirstBufferIs DEF SecondBuffer
<1> HIDE DEF f, o, j, q, d, y, l, x
<1>4. {f, o, j, q, d, y, l, x} \subseteq Seq(Cells)
  BY <1>1, <1>2, <1>3
<1> DEFINE rest == SecondRead(o, j, q, d, y, l, x)  length == LengthOf(o, j, q, d, y, l, x)
<1>5. InOrder(NewerWritten(f, o, j, q, d, y, l, x), f, rest, length)
  BY ONLY <1>4, NewerParts
<1>6. Len(SecondBuffer(e)) = length
  BY <1>3, <1>5 DEF InOrder
<1>7. {Len(o), Len(j), Len(q), Len(d), Len(y), Len(l)} \subseteq Nat
  BY <1>4, LenProperties
<1>8. /\ TrailerOffset(h, Len(o) + Len(j), q, Len(d)) = Len(SecondBuffer(e)) - 4
      /\ Len(SecondBuffer(e)) - 4 \in Nat
  <2> DEFINE o0 == Len(o)  j0 == Len(j)  q0 == Len(q)  d0 == Len(d)  y0 == Len(y)  l0 == Len(l)
             all == Len(SecondBuffer(e))
  <2>1. all = o0 + j0 + q0 + d0 + y0 + l0 + 4
    BY <1>1, <1>6 DEF LengthOf
  <2>2. TrailerOffset(h, Len(o) + Len(j), q, Len(d)) = (o0 + j0) + q0 + d0 + y0 + l0
    BY <1>1 DEF TrailerOffset
  <2>3. {o0, j0, q0, d0, y0, l0} \subseteq Nat
    BY <1>7
  <2> HIDE DEF o0, j0, q0, d0, y0, l0, all
  <2>4. (o0 + j0) + q0 + d0 + y0 + l0 = all - 4 /\ all - 4 \in Nat
    BY ONLY <2>1, <2>3
  <2> QED
    BY <2>2, <2>4 DEF all
<1> QED
  BY <1>1, <1>2, <1>8 DEF q

\* A body that was cut off before its zero bytes has lost a trailer: that of the payload,
\* or that behind the blobs, in front of which no other can be found.
LEMMA CutParts ==
    ASSUME NEW e, Collected(e), NEW z \in 0..15, NEW file, NEW version, NEW fields, NEW payload,
           IsFileOf(file, version, fields, payload, e, z), EndsWithTrailer(payload),
           NEW n \in Nat, n < Len(file.body) - z, file.body[n + 1][1] > 0,
           NEW cut, IsCut(file.body, n, cut)
    PROVE  IF n < Len(payload) THEN NoTrailerAt(cut, Len(payload) - 4)
           ELSE /\ e.lengths # <<>> /\ NoTrailerAt(cut, Len(payload))
                /\ NoTrailerAt(cut, Len(payload) + Len(e.blobs))
<1> DEFINE size == Len(payload)  b == BlobCells(e)  o == Zeros(z)  rest == b \o o
           body == file.body  m == Len(e.blobs)
<1>1. /\ body = (payload \o b) \o o /\ payload \in Seq(Cells) /\ b \in Seq(Cells)
      /\ o \in Seq(Cells) /\ rest \in Seq(Cells)
  BY BodyBegins DEF IsFileOf
<1>2. Len(o) = z /\ z \in Nat
  <2>1. z \in Nat
    OBVIOUS
  <2> QED
    BY <2>1, ZerosAre
<1>3. e \in Encoders /\ Sound(e, 0)
  BY CollectedIs
<1> DEFINE blobs == Bytes(e.blobs)
<1>4. /\ blobs \in Seq(Cells) /\ Len(blobs) = m /\ m \in Nat
      /\ \A i \in 1..m : blobs[i] = <<1, e.blobs[i]>>
  <2>1. e.blobs \in Seq(Int)
    BY <1>3 DEF Encoders
  <2> QED
    BY <1>3, <2>1, BlobCellsAre, BytesAre
<1>5. b = IF e.lengths = <<>> THEN <<>> ELSE blobs \o Trailer
  BY DEF BlobCells, Trailer
<1> HIDE DEF b, o, rest, body, blobs, m
<1>6. (payload \o b) \o o = payload \o (b \o o)
  <2>1. payload \in Seq(Cells) /\ b \in Seq(Cells) /\ o \in Seq(Cells)
    BY <1>1
  <2> QED
    BY ONLY <2>1, Regrouped, SMTT(60)
<1>7. /\ payload \o b \in Seq(Cells) /\ Len(payload \o b) = size + Len(b) /\ size \in Nat
      /\ Len(b) \in Nat
  BY ONLY <1>1, Joined
<1> DEFINE start == payload \o b
<1>8. Len(body) - z = size + Len(b)
  <2> HIDE DEF start, size
  <2>1. start \in Seq(Cells) /\ Len(start) = size + Len(b)
    BY <1>7 DEF start
  <2>2. Len(start \o o) = Len(start) + Len(o)
    BY ONLY <1>1, <2>1, Joined
  <2>3. Len(body) = size + Len(b) + z
    BY <1>1, <1>2, <2>1, <2>2 DEF start
  <2> QED
    BY <1>2, <1>7, <2>3
<1>9. IsCut(body, n, cut) /\ n < size + Len(b) /\ body[n + 1][1] > 0
  BY <1>8 DEF body
<1>10. CASE n < size
  <2>1. body = payload \o rest
    BY <1>1, <1>6 DEF rest
  <2>2. NoTrailerAt(cut, size - 4)
    BY <1>1, <1>9, <1>10, <2>1, TrailerLost
  <2> QED
    BY <1>10, <2>2
<1>11. CASE ~(n < size)
  <2>1. Len(b) > 0
    BY <1>7, <1>9, <1>11
  <2>2. e.lengths # <<>> /\ b = blobs \o Trailer
    BY <1>5, <2>1
  <2>3. EndsWithTrailer(b) /\ Len(b) = m + 4
    BY <1>4, <2>2, TrailerEnds
  <2>4. EndsWithTrailer(start)
    BY <1>1, <2>3, TrailerStays
  <2>5. Len(start) = size + m + 4 /\ body = start \o o
    BY <1>1, <1>4, <1>7, <2>3
  <2> HIDE DEF start, size
  <2>6. NoTrailerAt(cut, Len(start) - 4)
    <3>1. n < Len(start)
      BY <1>4, <1>7, <1>9, <2>3, <2>5
    <3> QED
      BY <1>1, <1>9, <2>4, <2>5, <3>1, TrailerLost
  <2>7. Len(start) - 4 = size + m
    BY <1>4, <1>7, <2>5
  <2>8. NoTrailerAt(cut, size)
    <3>1. CASE n = size
      BY <1>7, <1>9, <3>1, NoTrailerBehind
    <3>2. CASE n # size /\ m = 0
      <4>1. size + m = size
        BY <1>7, <3>2
      <4> QED
        BY <2>6, <2>7, <4>1
    <3>3. CASE n # size /\ m # 0
      <4>1. size + 1 \in 1..n
        BY <1>7, <1>11, <3>3 DEF size
      <4>2. cut[size + 1] = body[size + 1]
        BY <1>9, <4>1 DEF IsCut
      <4>3. rest = blobs \o (Trailer \o o) /\ Trailer \o o \in Seq(Cells) /\ rest[1] = blobs[1]
        <5>1. Trailer \in Seq(Cells)
          BY TrailerIs DEF Trailer
        <5>2. (blobs \o Trailer) \o o = blobs \o (Trailer \o o)
          <6> DEFINE x == Trailer
          <6>1. blobs \in Seq(Cells) /\ x \in Seq(Cells) /\ o \in Seq(Cells)
            BY <1>1, <1>4, <5>1
          <6> HIDE DEF x
          <6>2. (blobs \o x) \o o = blobs \o (x \o o)
            BY ONLY <6>1, Regrouped
          <6> QED
            BY <6>2 DEF x
        <5>3. Trailer \o o \in Seq(Cells)
          BY ONLY <1>1, <5>1, Joined
        <5>4. rest = blobs \o (Trailer \o o)
          BY <2>2, <5>2 DEF rest
        <5> DEFINE w == Trailer \o o
        <5> HIDE DEF w
        <5>5. w \in Seq(Cells) /\ Len(w) \in Nat
          BY <5>3, LenProperties DEF w
        <5>6. \A i \in 1..(Len(blobs) + Len(w)) :
                 (blobs \o w)[i] = IF i <= Len(blobs) THEN blobs[i] ELSE w[i - Len(blobs)]
          BY <1>4, <5>5, ConcatProperties
        <5>7. 1 \in 1..(Len(blobs) + Len(w)) /\ 1 <= Len(blobs)
          BY <1>4, <3>3, <5>5
        <5> QED
          BY <5>3, <5>4, <5>6, <5>7 DEF w
      <4>4. body[size + 1] = rest[1]
        <5>1. body = payload \o rest
          BY <1>1, <1>6 DEF rest
        <5>2. Len(rest) \in Nat /\ Len(rest) >= 1
          <6>1. rest = b \o o
            BY DEF rest
          <6>2. Len(rest) = Len(b) + Len(o)
            BY <1>1, <6>1, Joined
          <6> QED
            BY <1>2, <1>7, <2>1, <6>2
        <5>3. \A i \in 1..(size + Len(rest)) :
                 (payload \o rest)[i] = IF i <= size THEN payload[i] ELSE rest[i - size]
          BY <1>1, ConcatProperties DEF size
        <5>4. size + 1 \in 1..(size + Len(rest)) /\ ~(size + 1 <= size) /\ (size + 1) - size = 1
          BY <1>7, <5>2 DEF size
        <5> QED
          BY <5>1, <5>3, <5>4
      <4>5. blobs[1] = <<1, e.blobs[1]>>
        <5>1. 1 \in 1..m
          BY <1>4, <3>3
        <5> QED
          BY <1>4, <5>1
      <4>6. cut[size + 1][1] # 4
        <5>1. cut[size + 1] = <<1, e.blobs[1]>>
          BY <4>2, <4>3, <4>4, <4>5
        <5>2. <<1, e.blobs[1]>>[1] = 1 /\ 1 # 4
          OBVIOUS
        <5> QED
          BY <5>1, <5>2
      <4> QED
        BY <4>6 DEF NoTrailerAt
    <3> QED
      BY <3>1, <3>2, <3>3
  <2> QED
    BY <1>11, <2>2, <2>6, <2>7, <2>8 DEF size, m
<1> QED
  BY <1>10, <1>11

-----------------------------------------------------------------------------
(* Damaged files. *)

\* What is read of a file of version 4 that was cut off before its zero bytes has no root.
LEMMA OlderDamaged ==
    ASSUME NEW e, Collected(e), ~e.version5, Len(e.integers) <= MaxCount, NEW z \in 0..15,
           NEW file,
           IsFileOf(file, 4, BuildHeader(e, Len(BuildPayload(e))), BuildPayload(e), e, z),
           NEW n \in Nat, n < Len(file.body) - z, file.body[n + 1][1] > 0,
           NEW damaged, damaged.magic = 4, damaged.fields = file.fields,
           IsCut(file.body, n, damaged.body)
    PROVE  ReadV2V4(damaged).root = NoDocument.root
<1> DEFINE payload == BuildPayload(e)  size == Len(payload)  f == BuildHeader(e, size)
           h == Header(4, f)  cut == damaged.body  ints == Len(e.integers)
           dbls == Len(e.doubles)  q == FirstPadding(e)
<1>1. SaysCounts(h, 0, ints, dbls) /\ SaysBlobs(h, e)
      /\ SaysSizes(h, e.string_bytes + Len(e.types), size, size)
  BY OlderSays
<1>2. /\ e.string_bytes + Len(e.types) \in Nat /\ Len(e.lengths) \in Nat /\ Len(e.blobs) \in Nat
      /\ ints \in Nat /\ dbls \in Nat
  BY CollectedIs
<1>3. /\ h.compression = 0 /\ h.type_size = e.string_bytes + Len(e.types)
      /\ h.decoded_size = size /\ h.encoded_size = size
      /\ h.blob_count = Len(e.lengths) /\ h.blob_size = Len(e.blobs)
  BY <1>1 DEF SaysSizes, SaysBlobs
<1>4. EndsWithTrailer(payload)
  BY OlderEnds
<1>5. IF n < size THEN NoTrailerAt(cut, size - 4)
      ELSE /\ e.lengths # <<>> /\ NoTrailerAt(cut, size)
           /\ NoTrailerAt(cut, size + Len(e.blobs))
  <2> HIDE DEF payload, f
  <2>1. IsFileOf(file, 4, f, payload, e, z)
    BY DEF payload, f
  <2> QED
    BY <1>4, <2>1, CutParts, Zenon
<1>6. TrailerOffset(h, 4 * ints, q, 8 * dbls) = size - 4
  <2> HIDE DEF h
  <2> QED
    BY <1>3, OlderOffset
<1>7. size \in Nat /\ size >= 4
  BY <1>4, LenProperties DEF EndsWithTrailer
<1>8. cut \in Seq(Cells) /\ h = Header(damaged.magic, damaged.fields)
  BY DEF IsCut, IsFileOf
<1>9. Len(q) = Padding(4 * ints, 8) /\ Len(q) \in Nat
  <2>1. Len(q) = Padding(4 * ints, 8) /\ q \in Seq(Cells)
    BY FirstIntegersAre
  <2> QED
    BY <2>1, LenProperties
<1> HIDE DEF payload, size, f, h, cut, ints, dbls, q
<1>10. ReadV2V4(damaged) =
         PayloadV2V4(damaged, h, ReadStreams(Decompress(damaged, Cursor(cut), size, size, 0),
                                             h.counts, TRUE))
  BY <1>3, <1>7, <1>8, OlderUnpacked DEF cut
<1>11. Reaches(Cursor(cut), cut, 0)
  BY <1>8, ReachesStart
<1>12. CASE n < size
  <2> DEFINE t == size - 4  zero == 0
  <2>1. t \in Nat /\ t + 4 <= size /\ zero \in Nat /\ zero + t = t
    BY <1>7
  <2>2. NoTrailerAt(cut, t)
    BY <1>5, <1>12
  <2>3. Reaches(Cursor(cut), cut, zero)
    BY <1>11
  <2> HIDE DEF t, zero
  <2>4. NoTrailerAt(cut, zero + t)
    BY <2>1, <2>2
  <2> DEFINE c == Decompress(damaged, Cursor(cut), size, size, 0)
  <2>5. LacksTrailer(c, t)
    BY <1>7, <1>8, <2>1, <2>3, <2>4, PartLacksTrailer
  <2> HIDE DEF c
  <2>6. LacksTrailer(c, TrailerOffset(h, 4 * ints, q, 8 * dbls))
    BY <1>6, <2>5 DEF t
  <2>7. PayloadV2V4(damaged, h, ReadStreams(c, h.counts, TRUE)).root = NoDocument.root
    <3>1. /\ h.compression = 0 /\ h.blob_count \in Nat /\ h.type_size \in Nat
          /\ h.blob_size \in Nat /\ ints \in Nat /\ dbls \in Nat
          /\ SaysCounts(h, 0, ints, dbls)
      BY <1>1, <1>2, <1>3
    <3>2. Len(q) \in Nat /\ OlderMisses(h, ints, dbls, q, c)
      BY <1>9, <2>6, <3>1 DEF OlderMisses
    <3>3. ints \in Nat /\ dbls \in Nat
      BY <3>1
    <3> QED
      BY ONLY <3>2, <3>3, OlderPayloadFails
  <2> QED
    BY <1>10, <2>7 DEF c
<1>13. CASE ~(n < size)
  <2> DEFINE zero == 0  input == Read(Cursor(cut), size)
             primary == ReadStreams(Decompress(damaged, Cursor(cut), size, size, 0), h.counts, TRUE)
  <2>1. Reaches(input, cut, size)
    <3>1. zero \in Nat /\ Reaches(Cursor(cut), cut, zero) /\ zero + size = size
      BY <1>7, <1>11
    <3> HIDE DEF zero
    <3>2. Reaches(Read(Cursor(cut), size), cut, zero + size)
      BY <1>7, <3>1, ReadReaches
    <3> QED
      BY <3>1, <3>2
  <2>2. Len(e.lengths) > 0
    <3>1. Len(e.lengths) # 0
      BY <1>5, <1>13, CollectedIs, EmptySeq DEF Encoders
    <3> QED
      BY <1>2, <3>1
  <2>3. NoTrailerAt(cut, size) /\ NoTrailerAt(cut, size + h.blob_size)
    BY <1>3, <1>5, <1>13
  <2>4. Reaches(Read(Cursor(damaged.body), h.encoded_size), cut, size)
    BY <1>3, <2>1 DEF cut
  <2> HIDE DEF primary
  <2>5. PayloadV2V4(damaged, h, primary).root = NoDocument.root
    BY <1>2, <1>3, <1>7, <2>2, <2>3, <2>4, OlderBlobsFail
  <2> QED
    BY <1>10, <2>5 DEF primary
<1> QED
  BY <1>12, <1>13

\* What is read of a file of version 5 that was cut off before its zero bytes has no root.
LEMMA NewerDamaged ==
    ASSUME NEW e, Collected(e), Len(e.integers) <= MaxCount, NEW z \in 0..15, NEW file,
           IsFileOf(file, 5, BuildHeader5(e, Len(BuildPayload5(e))), BuildPayload5(e), e, z),
           NEW n \in Nat, n < Len(file.body) - z, file.body[n + 1][1] > 0,
           NEW damaged, damaged.magic = 5, damaged.fields = file.fields,
           IsCut(file.body, n, damaged.body)
    PROVE  ReadV5(damaged).root = NoDocument.root
<1> DEFINE payload == BuildPayload5(e)  size == Len(payload)  f == BuildHeader5(e, size)
           h == Header(5, f)  v == Version5(f)  cut == damaged.body  ints == Len(e.integers)
           dbls == Len(e.doubles)  objects == Len(e.objects)  q == SecondPadding(e)
           first == FirstBufferSize(e)  second == Len(SecondBuffer(e))
<1>1. /\ SaysSizes(h, Len(e.types), size, 0) /\ SaysBlobs(h, e)
      /\ SaysCounts(v, 0, ints, dbls) /\ SaysBuffers(v, first, second, objects)
  BY NewerSays
<1>2. /\ Len(e.types) \in Nat /\ Len(e.lengths) \in Nat /\ Len(e.blobs) \in Nat
      /\ ints \in Nat /\ dbls \in Nat /\ objects \in Nat
  BY CollectedIs
<1>3. /\ h.compression = 0 /\ h.type_size = Len(e.types) /\ h.blob_frame_count = 0
      /\ h.blob_count = Len(e.lengths) /\ h.blob_size = Len(e.blobs)
      /\ v.decoded[1] = first /\ v.decoded[2] = second /\ v.object_count = objects
  BY <1>1 DEF SaysSizes, SaysBlobs, SaysBuffers
<1>4. EndsWithTrailer(payload)
  BY NewerEnds
<1>5. IF n < size THEN NoTrailerAt(cut, size - 4)
      ELSE /\ e.lengths # <<>> /\ NoTrailerAt(cut, size)
           /\ NoTrailerAt(cut, size + Len(e.blobs))
  <2> HIDE DEF payload, f
  <2>1. IsFileOf(file, 5, f, payload, e, z)
    BY DEF payload, f
  <2> QED
    BY <1>4, <2>1, CutParts, Zenon
<1>6. TrailerOffset(h, 4 * objects + 4 * ints, q, 8 * dbls) = second - 4 /\ second - 4 \in Nat
  <2> HIDE DEF h
  <2> QED
    BY <1>3, NewerOffset
<1>7. size = first + second /\ first \in Nat /\ second \in Nat
  BY NewerPayload
<1>8. /\ cut \in Seq(Cells) /\ h = Header(5, damaged.fields) /\ v = Version5(damaged.fields)
  BY DEF IsCut, IsFileOf
<1>9. Aligned(4 * objects + 4 * ints, dbls, 8, FALSE, q) /\ Len(q) \in Nat
  <2>1. /\ q \in Seq(Cells)
        /\ IF e.doubles = <<>> THEN q = <<>>
           ELSE Len(q) = Padding(4 * objects + 4 * ints, 8)
    BY NewerPartsAre
  <2>2. e.doubles = <<>> <=> ~(dbls > 0)
    <3>1. e.doubles \in Seq(Int)
      BY CollectedIs DEF Encoders
    <3> QED
      BY <3>1, EmptySeq, LenProperties
  <2> HIDE DEF q, objects, ints, dbls
  <2> QED
    BY <2>1, <2>2, LenProperties DEF Aligned
<1> HIDE DEF payload, size, f, h, v, cut, ints, dbls, objects, q, first, second
<1> DEFINE c1 == Read(Cursor(cut), first)  input == Read(c1, second)
           one == Decompress(damaged, Cursor(cut), first, first, 0)
           two == Decompress(damaged, c1, second, second, 0)
<1>10. ReadV5(damaged) = BuffersV5(damaged, h, v, one, two, input)
  BY <1>3, <1>8, NewerUnpacked DEF cut
<1>11. Reaches(c1, cut, first)
  <2> DEFINE zero == 0
  <2>1. zero \in Nat /\ Reaches(Cursor(cut), cut, zero) /\ zero + first = first
    BY <1>7, <1>8, ReachesStart
  <2> HIDE DEF zero, c1
  <2>2. Reaches(Read(Cursor(cut), first), cut, zero + first)
    BY <1>7, <2>1, ReadReaches
  <2> QED
    BY <2>1, <2>2 DEF c1
<1> HIDE DEF c1, one
<1>12. CASE n < size
  <2> DEFINE t == second - 4
  <2>1. t \in Nat /\ t + 4 <= second /\ first + t = size - 4
    BY <1>6, <1>7
  <2>2. NoTrailerAt(cut, first + t)
    BY <1>5, <1>12, <2>1
  <2> HIDE DEF t
  <2>3. LacksTrailer(two, t)
    BY <1>7, <1>8, <1>11, <2>1, <2>2, PartLacksTrailer
  <2> HIDE DEF two, input
  <2>4. LacksTrailer(two, TrailerOffset(h, 4 * objects + 4 * ints, q, 8 * dbls))
    BY <1>6, <2>3 DEF t
  <2>5. BuffersV5(damaged, h, v, one, two, input).root = NoDocument.root
    <3>1. /\ h.blob_count \in Nat /\ h.type_size \in Nat /\ h.blob_frame_count = 0
          /\ ints \in Nat /\ dbls \in Nat /\ objects \in Nat
          /\ SaysCounts(v, 0, ints, dbls) /\ v.object_count = objects
      BY <1>1, <1>2, <1>3
    <3>2. Len(q) \in Nat /\ SecondMisses(h, ints, dbls, objects, q, two)
      BY <1>9, <2>4 DEF SecondMisses
    <3> QED
      BY ONLY <3>1, <3>2, NewerPayloadFails
  <2> QED
    BY <1>10, <2>5
<1>13. CASE ~(n < size)
  <2>1. Reaches(input, cut, size)
    BY <1>7, <1>11, ReadReaches
  <2>2. Len(e.lengths) > 0
    <3>1. Len(e.lengths) # 0
      BY <1>5, <1>13, CollectedIs, EmptySeq DEF Encoders
    <3> QED
      BY <1>2, <3>1
  <2>3. NoTrailerAt(cut, size + h.blob_size)
    BY <1>3, <1>5, <1>13
  <2>4. size \in Nat
    BY <1>7
  <2> HIDE DEF two, input
  <2>5. BuffersV5(damaged, h, v, one, two, input).root = NoDocument.root
    BY <1>2, <1>3, <2>1, <2>2, <2>3, <2>4, NewerBlobsFail, ZenonT(60)
  <2> QED
    BY <1>10, <2>5
<1> QED
  BY <1>12, <1>13

\* A file of which only zero bytes were cut off is one with fewer or the same zero bytes.
LEMMA PaddingCut ==
    ASSUME NEW e, Collected(e), NEW z \in 0..15, NEW file, NEW version, NEW fields, NEW payload,
           IsFileOf(file, version, fields, payload, e, z),
           NEW n \in Nat, n < Len(file.body), ~(n < Len(file.body) - z),
           NEW damaged, damaged.magic = file.magic, damaged.fields = file.fields,
           IsCut(file.body, n, damaged.body)
    PROVE  \E k \in 0..15 : IsFileOf(damaged, version, fields, payload, e, k)
<1> DEFINE b == BlobCells(e)  o == Zeros(z)  start == payload \o b  body == file.body
           cut == damaged.body  s == Len(start)  k == Len(cut) - s  rest == Zeros(k)
           full == start \o rest
<1>1. payload \in Seq(Cells) /\ b \in Seq(Cells) /\ o \in Seq(Cells) /\ body = start \o o
  BY BodyBegins DEF IsFileOf
<1>2. Len(o) = z /\ z \in Nat /\ \A i \in 1..z : o[i] = <<1, 0>>
  <2>1. z \in Nat
    OBVIOUS
  <2> QED
    BY <2>1, ZerosAre
<1> HIDE DEF b, o
<1>3. start \in Seq(Cells) /\ s \in Nat
  BY ONLY <1>1, Joined
<1> HIDE DEF start
<1>4. /\ Len(body) = s + z
      /\ \A i \in 1..(s + z) : body[i] = IF i <= s THEN start[i] ELSE o[i - s]
  BY <1>1, <1>2, <1>3, ConcatProperties, SMTT(60)
<1>5. /\ cut \in Seq(Cells) /\ Len(cut) \in {n, s + z} /\ \A i \in 1..n : cut[i] = body[i]
      /\ \A i \in (n + 1)..Len(cut) : cut[i] = <<1, 0>>
  BY <1>4 DEF IsCut
<1>6. n >= s /\ n < s + z /\ IsFileOf(file, version, fields, payload, e, z) /\ n \in Nat
  BY <1>2, <1>3, <1>4
<1> HIDE DEF s, body, cut
<1> DEFINE l == Len(cut)
<1>7. k \in Nat /\ k \in 0..15 /\ s + k = Len(cut)
  <2>1. k = l - s /\ l \in {n, s + z} /\ z \in 0..15
    BY <1>5
  <2> HIDE DEF k, l
  <2>2. k \in Nat /\ k \in 0..15 /\ s + k = l
    BY ONLY <1>2, <1>3, <1>6, <2>1
  <2> QED
    BY <2>2 DEF l
<1> HIDE DEF k, l
<1>8. rest \in Seq(Cells) /\ Len(rest) = k /\ \A i \in 1..k : rest[i] = <<1, 0>>
  BY <1>7, ZerosAre
<1> HIDE DEF rest
<1>9. /\ full \in Seq(Cells) /\ Len(full) = s + k
      /\ \A i \in 1..(s + k) : full[i] = IF i <= s THEN start[i] ELSE rest[i - s]
  BY <1>3, <1>8, ConcatProperties DEF s
<1> HIDE DEF full
<1>10. \A i \in 1..Len(cut) : cut[i] = full[i]
  <2> SUFFICES ASSUME NEW i \in 1..(s + k) PROVE cut[i] = full[i]
    BY <1>7
  <2>1. i \in Int /\ i >= 1 /\ i <= s + k
    BY <1>3, <1>7
  <2>2. CASE i <= s
    <3>1. i \in 1..n /\ i \in 1..(s + z)
      BY <1>2, <1>3, <1>6, <2>1, <2>2
    <3> QED
      BY <1>4, <1>5, <1>9, <2>2, <3>1
  <2>3. CASE ~(i <= s)
    <3>1. i - s \in 1..k
      BY <1>3, <1>7, <2>1, <2>3
    <3>2. full[i] = <<1, 0>>
      BY <1>8, <1>9, <2>3, <3>1
    <3>3. CASE i <= n
      <4>1. i \in 1..n /\ i \in 1..(s + z) /\ i - s \in 1..z
        BY <1>2, <1>3, <1>6, <2>1, <2>3, <3>3
      <4>2. cut[i] = o[i - s]
        BY <1>4, <1>5, <2>3, <4>1
      <4>3. o[i - s] = <<1, 0>>
        BY <1>2, <4>1
      <4> QED
        BY <3>2, <4>2, <4>3
    <3>4. CASE ~(i <= n)
      <4>1. i \in (n + 1)..Len(cut)
        BY <1>6, <1>7, <2>1, <3>4
      <4> QED
        BY <1>5, <3>2, <4>1
    <3> QED
      BY <3>3, <3>4
  <2> QED
    BY <2>2, <2>3
<1>11. cut = full
  BY <1>5, <1>7, <1>9, <1>10, SeqEqual
<1>12. damaged.body = (payload \o BlobCells(e)) \o Zeros(k)
  BY <1>11 DEF cut, full, start, b, rest
<1>13. IsFileOf(damaged, version, fields, payload, e, k)
  BY <1>12 DEF IsFileOf
<1> QED
  BY <1>7, <1>13

\* A file that was cut off before its zero bytes is refused.
LEMMA EncodingDamaged ==
    ASSUME NEW e, Collected(e), e.version5 \in BOOLEAN, NEW z \in 0..15, NEW file,
           IsEncoding(file, e, z), Len(e.integers) <= MaxCount,
           NEW n \in Nat, n < Len(file.body) - z, file.body[n + 1][1] > 0,
           NEW damaged, damaged.magic = file.magic, damaged.fields = file.fields,
           IsCut(file.body, n, damaged.body)
    PROVE  DecodeKv3(damaged) = NoDocument
<1>1. damaged.magic = IF e.version5 THEN 5 ELSE 4
  BY EncodingCounts
<1>2. \A body : body.root = NoDocument.root => BodyRead(damaged, body) = NoDocument
  <2>1. NoDocument.root.kind # "object"
    <3>1. NoDocument.root = Scalar("null", "None", 0)
      BY DEF NoDocument, Document
    <3>2. Scalar("null", "None", 0).kind = "null"
      BY DEF Scalar, Value
    <3> QED
      BY <3>1, <3>2
  <2> QED
    BY <2>1 DEF BodyRead, DocumentRead
<1>3. CASE ~e.version5
  <2>1. IsFileOf(file, 4, BuildHeader(e, Len(BuildPayload(e))), BuildPayload(e), e, z)
    BY <1>3 DEF IsEncoding
  <2>2. damaged.magic = 4
    BY <1>1, <1>3
  <2>3. ReadV2V4(damaged).root = NoDocument.root
    <3>1. /\ Collected(e) /\ Len(e.integers) <= MaxCount /\ z \in 0..15
          /\ n \in Nat /\ n < Len(file.body) - z /\ file.body[n + 1][1] > 0
          /\ damaged.fields = file.fields /\ IsCut(file.body, n, damaged.body)
      OBVIOUS
    <3> QED
      BY ONLY <1>3, <2>1, <2>2, <3>1, OlderDamaged, ZenonT(60)
  <2>4. BodyRead(damaged, ReadV2V4(damaged)) = NoDocument
    BY <1>2, <2>3
  <2> QED
    BY <2>2, <2>4 DEF DecodeKv3
<1>4. CASE e.version5
  <2>1. IsFileOf(file, 5, BuildHeader5(e, Len(BuildPayload5(e))), BuildPayload5(e), e, z)
    BY <1>4 DEF IsEncoding
  <2>2. damaged.magic = 5
    BY <1>1, <1>4
  <2>3. ReadV5(damaged).root = NoDocument.root
    BY <2>1, <2>2, NewerDamaged, ZenonT(60)
  <2>4. BodyRead(damaged, ReadV5(damaged)) = NoDocument
    BY <1>2, <2>3
  <2> QED
    BY <2>2, <2>4 DEF DecodeKv3
<1> QED
  BY <1>3, <1>4

\* A file whose header is not valid, or that is too long, is refused.
LEMMA OutOfLimits ==
    ASSUME NEW file, file.magic \in {4, 5},
           ~HeaderIsValid(file.magic, file.fields) \/ ~Fits(FileSize(file))
    PROVE  DecodeKv3(file) = NoDocument
<1>1. file.magic \in 2..5
  OBVIOUS
<1> QED
  BY <1>1 DEF DecodeKv3

\* A file that encode_kv3 made and that lost its end is refused by decode_kv3, whatever its
\* values: nothing is read of it unless all that it lost are zero bytes at its end, and then
\* it still gives the values that were encoded. The first n cells of its body reached
\* the disk, and n is where a byte or a number begins; the lengths and trailers that must
\* agree are those of kv3_read.rs:228. No limit is assumed: a file that the reader's
\* limits exclude is refused whether it is damaged or not.
THEOREM DamagedEncodingsAreRefused ==
    ASSUME NEW V, NEW root, Tree(V, root), NEW format, NEW zeros \in Nat,
           NEW file, file = EncodeKv3(Document(format, root, zeros)), file # NoFile,
           NEW n \in 0..(Len(file.body) - 1), file.body[n + 1][1] > 0,
           NEW cut \in CutOff(file.body, n)
    PROVE  LET document == DecodeKv3([file EXCEPT !.body = cut])
           IN  /\ n < Len(file.body) - zeros => document = NoDocument
               /\ document = NoDocument \/ document.root = root
<1> DEFINE e == Written(RequiresV5(root), root).encoder  damaged == [file EXCEPT !.body = cut]
<1>1. /\ Collected(e) /\ e.version5 \in BOOLEAN /\ HoldsRoot(e, root)
      /\ IsEncoding(file, e, zeros) /\ root.kind = "object" /\ zeros \in 0..15
      /\ file = File(file.magic, file.format, file.fields, file.body, <<>>)
  BY EncodedIs
<1> HIDE DEF e
<1>2. /\ damaged.body = cut /\ damaged.magic = file.magic /\ damaged.fields = file.fields
      /\ damaged.format = file.format
  BY <1>1 DEF File
<1> HIDE DEF damaged
<1>3. /\ file.magic = (IF e.version5 THEN 5 ELSE 4)
      /\ HeaderIsValid(file.magic, file.fields) => Len(e.integers) <= MaxCount
  BY <1>1, EncodingCounts
<1>4. CASE ~HeaderIsValid(file.magic, file.fields) \/ ~Fits(FileSize(damaged))
  <2>1. DecodeKv3(damaged) = NoDocument
    BY <1>2, <1>3, <1>4, OutOfLimits
  <2> QED
    BY <2>1 DEF damaged
<1>5. CASE HeaderIsValid(file.magic, file.fields) /\ Fits(FileSize(damaged))
  <2>1. Len(e.integers) <= MaxCount
    BY <1>3, <1>5
  <2>2. file.body \in Seq(Cells)
    <3>1. PICK version, fields, payload : IsFileOf(file, version, fields, payload, e, zeros)
      BY <1>1 DEF IsEncoding
    <3> DEFINE b == BlobCells(e)  o == Zeros(zeros)
    <3>2. payload \in Seq(Cells) /\ b \in Seq(Cells) /\ o \in Seq(Cells)
          /\ file.body = (payload \o b) \o o
      BY <1>1, <3>1, BodyBegins DEF IsFileOf
    <3> HIDE DEF b, o
    <3>3. payload \o b \in Seq(Cells)
      BY ONLY <3>2, Joined
    <3> DEFINE start == payload \o b
    <3> HIDE DEF start
    <3>4. start \o o \in Seq(Cells)
      <4>1. start \in Seq(Cells)
        BY <3>3 DEF start
      <4> QED
        BY ONLY <3>2, <4>1, Joined
    <3> QED
      BY <3>2, <3>4 DEF start
  <2>3. n \in Nat /\ n \in 0..Len(file.body) /\ n < Len(file.body)
    <3>1. Len(file.body) \in Nat
      BY <2>2, LenProperties
    <3> QED
      BY <3>1
  <2>4. IsCut(file.body, n, damaged.body)
    BY <1>2, <2>2, <2>3, CutIs
  <2>5. CASE n < Len(file.body) - zeros
    <3>1. DecodeKv3(damaged) = NoDocument
      BY <1>1, <1>2, <2>1, <2>3, <2>4, <2>5, EncodingDamaged
    <3> QED
      BY <3>1 DEF damaged
  <2>6. CASE ~(n < Len(file.body) - zeros)
    <3>1. PICK k \in 0..15 : IsEncoding(damaged, e, k)
      <4>1. CASE e.version5
        BY <1>1, <1>2, <2>3, <2>4, <2>6, <4>1, PaddingCut DEF IsEncoding
      <4>2. CASE ~e.version5
        BY <1>1, <1>2, <2>3, <2>4, <2>6, <4>2, PaddingCut DEF IsEncoding
      <4> QED
        BY <4>1, <4>2
    <3>2. DecodeKv3(damaged) = Document(damaged.format, root, k)
      BY <1>1, <1>5, <2>1, <3>1, EncodingIsRead, SMTT(60)
    <3>3. DecodeKv3(damaged).root = root
      BY <3>2 DEF Document
    <3> QED
      BY <2>6, <3>3 DEF damaged
  <2> QED
    BY <2>5, <2>6
<1> QED
  BY <1>4, <1>5
=============================================================================
