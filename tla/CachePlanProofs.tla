--------------------------- MODULE CachePlanProofs ---------------------------
(***************************************************************************)
(* Proofs about what the cache holds and how it is encoded: about          *)
(* CachePlan, for documents and requests of any length, any identities and *)
(* whatever the player does between the installations; and about the       *)
(* writer and the reader of binary KeyValues3, for values of any size.     *)
(***************************************************************************)
EXTENDS CachePlan, Kv3Decode, SequenceTheorems, FiniteSetTheorems, WellFoundedInduction, TLAPS

-----------------------------------------------------------------------------
(* Induction. The theorems of the library take an operator; these take a set. *)

LEMMA LeastNumber ==
    ASSUME NEW S, S \subseteq Nat, S # {}
    PROVE  \E m \in S : \A n \in S : m <= n
<1> DEFINE Less == {pair \in Nat \X Nat : pair[1] < pair[2]}
<1>1. IsWellFoundedOn(Less, Nat)
  BY NatLessThanWellFounded, Zenon DEF OpToRel
<1>2. PICK m \in S : \A n \in S : <<n, m>> \notin Less
  BY <1>1, WFMin
<1>3. ASSUME NEW n \in S PROVE m <= n
  <2>1. <<n, m>> \in Nat \X Nat /\ ~(<<n, m>>[1] < <<n, m>>[2])
    BY <1>2
  <2> QED
    BY <2>1
<1> QED
  BY <1>3

LEMMA NumberInduction ==
    ASSUME NEW P, 0 \in P, \A n \in Nat : n \in P => n + 1 \in P
    PROVE  Nat \subseteq P
<1> SUFFICES ASSUME Nat \ P # {} PROVE FALSE
  OBVIOUS
<1>1. PICK m \in Nat \ P : \A n \in Nat \ P : m <= n
  BY LeastNumber
<1>2. m # 0 /\ m - 1 \in Nat /\ ~(m <= m - 1)
  BY <1>1
<1>3. m - 1 \in P
  BY <1>1, <1>2
<1>4. (m - 1) + 1 = m
  BY <1>1
<1> QED
  BY <1>1, <1>2, <1>3, <1>4

LEMMA SequenceInduction ==
    ASSUME NEW X, NEW P, <<>> \in P,
           \A s \in Seq(X), e \in X : s \in P => Append(s, e) \in P
    PROVE  Seq(X) \subseteq P
<1> DEFINE Lengths == {n \in Nat : \A s \in Seq(X) : Len(s) = n => s \in P}
<1>1. 0 \in Lengths
  BY EmptySeq
<1>2. ASSUME NEW n \in Nat, n \in Lengths PROVE n + 1 \in Lengths
  <2> SUFFICES ASSUME NEW s \in Seq(X), Len(s) = n + 1 PROVE s \in P
    OBVIOUS
  <2>1. s # <<>>
    BY EmptySeq
  <2>2. PICK t \in Seq(X), e \in X : s = Append(t, e)
    BY <2>1, SequenceEmptyOrAppend
  <2>3. Len(t) = n
    BY <2>2, AppendProperties
  <2> QED
    BY <1>2, <2>2, <2>3
<1> HIDE DEF Lengths
<1>3. Nat \subseteq Lengths
  BY <1>1, <1>2, NumberInduction
<1>4. ASSUME NEW s \in Seq(X) PROVE s \in P
  BY <1>3, LenProperties DEF Lengths
<1> QED
  BY <1>4

-----------------------------------------------------------------------------
(* Filter keeps, in their order, the values that are in a set. *)

LEMMA KeptOfStep ==
    ASSUME NEW X, NEW s \in Seq(X), NEW keep
    PROVE  /\ KeptOf(s, keep) \in [0 .. Len(s) -> Seq(X)]
           /\ KeptOf(s, keep)[0] = <<>>
           /\ \A n \in 1 .. Len(s) :
                KeptOf(s, keep)[n] = IF s[n] \in keep THEN Append(KeptOf(s, keep)[n - 1], s[n])
                                     ELSE KeptOf(s, keep)[n - 1]
<1> DEFINE Next1(f, n) == IF s[n] \in keep THEN Append(f[n - 1], s[n]) ELSE f[n - 1]
           Solutions(m) == {f \in [0 .. m -> Seq(X)] :
                              f[0] = <<>> /\ \A n \in 1 .. m : f[n] = Next1(f, n)}
           Solved == {m \in Nat : m <= Len(s) => Solutions(m) # {}}
<1>1. Len(s) \in Nat /\ \A n \in 1 .. Len(s) : s[n] \in X
  BY LenProperties, ElementOfSeq
<1> HIDE DEF Solved
<1>2. 0 \in Solved
  <2> DEFINE f == [n \in 0 .. 0 |-> <<>>]
  <2>1. f \in Solutions(0)
    BY EmptySeq
  <2> QED
    BY <2>1 DEF Solved
<1>3. ASSUME NEW m \in Nat, m \in Solved PROVE m + 1 \in Solved
  <2> HIDE DEF Solutions
  <2> SUFFICES ASSUME m + 1 <= Len(s) PROVE Solutions(m + 1) # {}
    BY DEF Solved
  <2>1. PICK f : f \in Solutions(m)
    BY <1>1, <1>3 DEF Solved
  <2> DEFINE g == [n \in 0 .. m + 1 |-> IF n = m + 1 THEN Next1(f, n) ELSE f[n]]
  <2>2. f \in [0 .. m -> Seq(X)] /\ f[0] = <<>> /\ \A n \in 1 .. m : f[n] = Next1(f, n)
    BY <2>1 DEF Solutions
  <2>3. Next1(f, m + 1) \in Seq(X)
    BY <1>1, <2>2, AppendProperties
  <2>4. g \in [0 .. m + 1 -> Seq(X)] /\ g[0] = <<>>
    BY <2>2, <2>3, SMTT(60)
  <2>5. ASSUME NEW n \in 1 .. m + 1 PROVE g[n] = Next1(g, n)
    <3>1. n - 1 \in 0 .. m /\ g[n - 1] = f[n - 1]
      OBVIOUS
    <3>2. g[n] = Next1(f, n)
      BY <2>2, SMTT(60)
    <3> QED
      BY <3>1, <3>2
  <2>6. g \in Solutions(m + 1)
    BY <2>4, <2>5 DEF Solutions
  <2> QED
    BY <2>6
<1>4. Nat \subseteq Solved
  BY <1>2, <1>3, NumberInduction
<1>5. PICK f : f \in Solutions(Len(s))
  <2> HIDE DEF Solutions
  <2> QED
    BY <1>1, <1>4 DEF Solved
<1> DEFINE Unrolled(g) == [n \in 0 .. Len(s) |-> IF n = 0 THEN <<>>
                          ELSE IF s[n] \in keep THEN Append(g[n - 1], s[n]) ELSE g[n - 1]]
           kept == CHOOSE g : g = Unrolled(g)
<1>6. f = Unrolled(f)
  <2>0. f \in [0 .. Len(s) -> Seq(X)] /\ f[0] = <<>> /\ \A n \in 1 .. Len(s) : f[n] = Next1(f, n)
    BY <1>5
  <2>1. ASSUME NEW n \in 0 .. Len(s) PROVE f[n] = Unrolled(f)[n]
    <3>1. CASE n = 0
      BY <2>0, <3>1
    <3>2. CASE n # 0
      <4>1. n \in 1 .. Len(s)
        BY <1>1, <3>2, SMTT(60)
      <4> QED
        BY <2>0, <3>2, <4>1
    <3> QED
      BY <3>1, <3>2
  <2> QED
    BY <2>0, <2>1
<1>7. kept = Unrolled(kept)
  BY <1>6
<1>8. KeptOf(s, keep) = kept
  BY DEF KeptOf
<1> HIDE DEF kept
<1>9. /\ \A n \in 1 .. Len(s) : kept[n] = Next1(kept, n)
      /\ kept[0] = <<>> /\ DOMAIN kept = 0 .. Len(s)
      /\ kept = [n \in DOMAIN kept |-> kept[n]]
  <2>1. \A n \in 0 .. Len(s) : kept[n] = Unrolled(kept)[n]
    BY <1>7
  <2>2. DOMAIN kept = 0 .. Len(s)
    BY <1>7
  <2>3. kept = [n \in DOMAIN kept |-> kept[n]]
    BY <1>7
  <2>4. ASSUME NEW n \in 1 .. Len(s) PROVE kept[n] = Next1(kept, n)
    <3>1. n \in 0 .. Len(s) /\ n # 0
      BY <1>1
    <3> QED
      BY <2>1, <3>1
  <2>5. kept[0] = <<>>
    BY <1>1, <2>1
  <2> QED
    BY <2>2, <2>3, <2>4, <2>5
<1> DEFINE Typed == {m \in Nat : m <= Len(s) => kept[m] \in Seq(X)}
<1>10. 0 \in Typed
  BY <1>9, EmptySeq
<1>11. ASSUME NEW m \in Nat, m \in Typed PROVE m + 1 \in Typed
  <2> SUFFICES ASSUME m + 1 <= Len(s) PROVE kept[m + 1] \in Seq(X)
    OBVIOUS
  <2>1. kept[m] \in Seq(X) /\ kept[m + 1] = Next1(kept, m + 1) /\ s[m + 1] \in X
    BY <1>1, <1>9, <1>11
  <2> QED
    BY <2>1, AppendProperties
<1> HIDE DEF Typed
<1>12. Nat \subseteq Typed
  BY <1>10, <1>11, NumberInduction
<1>13. kept \in [0 .. Len(s) -> Seq(X)]
  BY <1>1, <1>9, <1>12 DEF Typed
<1> QED
  BY <1>8, <1>9, <1>13

LEMMA FilterOfEmpty == \A keep : Filter(<<>>, keep) = <<>>
<1> SUFFICES ASSUME NEW keep PROVE Filter(<<>>, keep) = <<>>
  OBVIOUS
<1>1. <<>> \in Seq({}) /\ Len(<<>>) = 0
  BY EmptySeq
<1>2. KeptOf(<<>>, keep)[0] = <<>>
  <2> DEFINE s == <<>>
  <2>1. s \in Seq({})
    BY <1>1
  <2> HIDE DEF s
  <2>2. KeptOf(s, keep)[0] = <<>>
    BY <2>1, KeptOfStep
  <2> QED
    BY <2>2 DEF s
<1> QED
  BY <1>1, <1>2 DEF Filter

LEMMA FilterOfAppend ==
    ASSUME NEW X, NEW s \in Seq(X), NEW e \in X, NEW keep
    PROVE  Filter(Append(s, e), keep) = IF e \in keep THEN Append(Filter(s, keep), e)
                                        ELSE Filter(s, keep)
<1> DEFINE t == Append(s, e)
           Agreed == {m \in Nat : m <= Len(s) => KeptOf(t, keep)[m] = KeptOf(s, keep)[m]}
<1>1. /\ t \in Seq(X) /\ Len(s) \in Nat /\ Len(t) = Len(s) + 1
      /\ \A n \in 1 .. Len(s) : t[n] = s[n]
      /\ t[Len(s) + 1] = e
  BY AppendProperties, LenProperties
<1> HIDE DEF t
<1>2. 0 \in Agreed
  BY <1>1, KeptOfStep
<1>3. ASSUME NEW m \in Nat, m \in Agreed PROVE m + 1 \in Agreed
  <2> SUFFICES ASSUME m + 1 <= Len(s)
               PROVE  KeptOf(t, keep)[m + 1] = KeptOf(s, keep)[m + 1]
    OBVIOUS
  <2>1. m + 1 \in 1 .. Len(s) /\ m + 1 \in 1 .. Len(t) /\ (m + 1) - 1 = m
    BY <1>1
  <2> QED
    BY <1>1, <1>3, <2>1, KeptOfStep
<1> HIDE DEF Agreed
<1>4. Len(s) \in Agreed
  BY <1>1, <1>2, <1>3, NumberInduction
<1>5. KeptOf(t, keep)[Len(s)] = Filter(s, keep)
  BY <1>1, <1>4 DEF Agreed, Filter
<1>6. Len(t) \in 1 .. Len(t) /\ Len(t) - 1 = Len(s)
  BY <1>1
<1>8. Filter(t, keep) = IF t[Len(t)] \in keep THEN Append(KeptOf(t, keep)[Len(t) - 1], t[Len(t)])
                        ELSE KeptOf(t, keep)[Len(t) - 1]
  BY <1>1, <1>6, KeptOfStep DEF Filter
<1>9. Filter(t, keep) = IF e \in keep THEN Append(Filter(s, keep), e) ELSE Filter(s, keep)
  BY <1>1, <1>5, <1>6, <1>8
<1> QED
  BY <1>9 DEF t

LEMMA FilterType ==
    ASSUME NEW X, NEW s \in Seq(X), NEW keep
    PROVE  Filter(s, keep) \in Seq(X)
  BY KeptOfStep, LenProperties DEF Filter

LEMMA AppendToConcat ==
    ASSUME NEW X, NEW s \in Seq(X), NEW t \in Seq(X), NEW e \in X
    PROVE  s \o Append(t, e) = Append(s \o t, e)
<1>1. s \o t \in Seq(X) /\ <<e>> \in Seq(X)
  BY ConcatProperties
<1>2. Append(t, e) = t \o <<e>> /\ Append(s \o t, e) = (s \o t) \o <<e>>
  BY <1>1, AppendIsConcat
<1> QED
  BY <1>1, <1>2, ConcatAssociative

LEMMA FilterOfConcat ==
    ASSUME NEW X, NEW s \in Seq(X), NEW t \in Seq(X), NEW keep
    PROVE  Filter(s \o t, keep) = Filter(s, keep) \o Filter(t, keep)
<1> DEFINE P == {u \in Seq(X) : Filter(s \o u, keep) = Filter(s, keep) \o Filter(u, keep)}
<1>1. <<>> \in P
  BY FilterOfEmpty, FilterType, ConcatEmptySeq, EmptySeq
<1>2. ASSUME NEW u \in Seq(X), NEW e \in X, u \in P PROVE Append(u, e) \in P
  <2>1. /\ s \o u \in Seq(X) /\ Append(u, e) \in Seq(X)
        /\ Filter(s, keep) \in Seq(X) /\ Filter(u, keep) \in Seq(X)
    BY ConcatProperties, AppendProperties, FilterType
  <2>2. Filter(s \o Append(u, e), keep)
           = IF e \in keep THEN Append(Filter(s \o u, keep), e) ELSE Filter(s \o u, keep)
    <3>1. s \o Append(u, e) = Append(s \o u, e)
      BY AppendToConcat
    <3> DEFINE su == s \o u
    <3> HIDE DEF su
    <3>2. Filter(Append(su, e), keep)
             = IF e \in keep THEN Append(Filter(su, keep), e) ELSE Filter(su, keep)
      <4>1. su \in Seq(X)
        BY <2>1 DEF su
      <4> QED
        BY <4>1, FilterOfAppend
    <3> QED
      BY <3>1, <3>2 DEF su
  <2>3. Filter(Append(u, e), keep)
           = IF e \in keep THEN Append(Filter(u, keep), e) ELSE Filter(u, keep)
    BY FilterOfAppend
  <2>4. Filter(s \o u, keep) = Filter(s, keep) \o Filter(u, keep)
    BY <1>2
  <2>5. Filter(s, keep) \o Append(Filter(u, keep), e)
           = Append(Filter(s, keep) \o Filter(u, keep), e)
    BY <2>1, AppendToConcat
  <2> QED
    BY <2>1, <2>2, <2>3, <2>4, <2>5
<1> HIDE DEF P
<1>3. t \in P
  BY <1>1, <1>2, SequenceInduction
<1> QED
  BY <1>3 DEF P

LEMMA FilterOfFilter ==
    ASSUME NEW X, NEW s \in Seq(X), NEW keep, NEW those
    PROVE  Filter(Filter(s, keep), those) = Filter(s, keep \cap those)
<1> DEFINE both == keep \cap those
           P == {u \in Seq(X) : Filter(Filter(u, keep), those) = Filter(u, both)}
<1> HIDE DEF both
<1>1. <<>> \in P
  BY FilterOfEmpty, EmptySeq
<1>2. ASSUME NEW u \in Seq(X), NEW e \in X, u \in P PROVE Append(u, e) \in P
  <2>1. Append(u, e) \in Seq(X) /\ Filter(u, keep) \in Seq(X)
    BY AppendProperties, FilterType
  <2>2. Filter(Filter(u, keep), those) = Filter(u, both)
    BY <1>2
  <2>3. Filter(Append(u, e), keep)
           = IF e \in keep THEN Append(Filter(u, keep), e) ELSE Filter(u, keep)
    BY FilterOfAppend
  <2>4. Filter(Append(Filter(u, keep), e), those)
           = IF e \in those THEN Append(Filter(Filter(u, keep), those), e)
             ELSE Filter(Filter(u, keep), those)
    BY <2>1, FilterOfAppend
  <2>5. Filter(Append(u, e), both)
           = IF e \in both THEN Append(Filter(u, both), e) ELSE Filter(u, both)
    BY FilterOfAppend
  <2>6. e \in both <=> e \in keep /\ e \in those
    BY DEF both
  <2>7. Filter(Filter(Append(u, e), keep), those) = Filter(Append(u, e), both)
    BY <2>2, <2>3, <2>4, <2>5, <2>6
  <2> QED
    BY <2>1, <2>7
<1> HIDE DEF P
<1>3. s \in P
  BY <1>1, <1>2, SequenceInduction
<1> QED
  BY <1>3 DEF P, both

LEMMA FilterAgrees ==
    ASSUME NEW X, NEW s \in Seq(X), NEW keep, NEW those,
           \A i \in 1 .. Len(s) : s[i] \in keep <=> s[i] \in those
    PROVE  Filter(s, keep) = Filter(s, those)
<1> DEFINE Alike(u) == \A i \in 1 .. Len(u) : u[i] \in keep <=> u[i] \in those
           P == {u \in Seq(X) : Alike(u) => Filter(u, keep) = Filter(u, those)}
<1>1. <<>> \in P
  BY FilterOfEmpty, EmptySeq
<1>2. ASSUME NEW u \in Seq(X), NEW e \in X, u \in P PROVE Append(u, e) \in P
  <2> SUFFICES ASSUME Alike(Append(u, e))
               PROVE  Filter(Append(u, e), keep) = Filter(Append(u, e), those)
    BY AppendProperties
  <2>1. /\ Len(u) \in Nat /\ Len(Append(u, e)) = Len(u) + 1
        /\ \A i \in 1 .. Len(u) : Append(u, e)[i] = u[i]
        /\ Append(u, e)[Len(u) + 1] = e
    BY AppendProperties, LenProperties
  <2>2. Alike(u) /\ (e \in keep <=> e \in those)
    BY <2>1
  <2>3. Filter(u, keep) = Filter(u, those)
    BY <1>2, <2>2
  <2>4. Filter(Append(u, e), keep)
           = IF e \in keep THEN Append(Filter(u, keep), e) ELSE Filter(u, keep)
    BY FilterOfAppend
  <2>5. Filter(Append(u, e), those)
           = IF e \in those THEN Append(Filter(u, those), e) ELSE Filter(u, those)
    BY FilterOfAppend
  <2> QED
    BY <2>2, <2>3, <2>4, <2>5
<1> HIDE DEF P
<1>3. s \in P
  BY <1>1, <1>2, SequenceInduction
<1> QED
  BY <1>3 DEF P

LEMMA FilterOfAll ==
    ASSUME NEW X, NEW s \in Seq(X), NEW keep, \A i \in 1 .. Len(s) : s[i] \in keep
    PROVE  Filter(s, keep) = s
<1> DEFINE P == {u \in Seq(X) : (\A i \in 1 .. Len(u) : u[i] \in keep) => Filter(u, keep) = u}
<1>1. <<>> \in P
  BY FilterOfEmpty, EmptySeq
<1>2. ASSUME NEW u \in Seq(X), NEW e \in X, u \in P PROVE Append(u, e) \in P
  <2> SUFFICES ASSUME \A i \in 1 .. Len(Append(u, e)) : Append(u, e)[i] \in keep
               PROVE  Filter(Append(u, e), keep) = Append(u, e)
    BY AppendProperties
  <2>1. /\ Len(u) \in Nat /\ Len(Append(u, e)) = Len(u) + 1
        /\ \A i \in 1 .. Len(u) : Append(u, e)[i] = u[i]
        /\ Append(u, e)[Len(u) + 1] = e
    BY AppendProperties, LenProperties
  <2>2. (\A i \in 1 .. Len(u) : u[i] \in keep) /\ e \in keep
    BY <2>1
  <2> QED
    BY <1>2, <2>2, FilterOfAppend
<1> HIDE DEF P
<1>3. s \in P
  BY <1>1, <1>2, SequenceInduction
<1> QED
  BY <1>3 DEF P

LEMMA FilterOfNone ==
    ASSUME NEW X, NEW s \in Seq(X), NEW keep, \A i \in 1 .. Len(s) : s[i] \notin keep
    PROVE  Filter(s, keep) = <<>>
<1> DEFINE P == {u \in Seq(X) : (\A i \in 1 .. Len(u) : u[i] \notin keep) => Filter(u, keep) = <<>>}
<1>1. <<>> \in P
  BY FilterOfEmpty, EmptySeq
<1>2. ASSUME NEW u \in Seq(X), NEW e \in X, u \in P PROVE Append(u, e) \in P
  <2> SUFFICES ASSUME \A i \in 1 .. Len(Append(u, e)) : Append(u, e)[i] \notin keep
               PROVE  Filter(Append(u, e), keep) = <<>>
    BY AppendProperties
  <2>1. /\ Len(u) \in Nat /\ Len(Append(u, e)) = Len(u) + 1
        /\ \A i \in 1 .. Len(u) : Append(u, e)[i] = u[i]
        /\ Append(u, e)[Len(u) + 1] = e
    BY AppendProperties, LenProperties
  <2>2. (\A i \in 1 .. Len(u) : u[i] \notin keep) /\ e \notin keep
    BY <2>1
  <2> QED
    BY <1>2, <2>2, FilterOfAppend
<1> HIDE DEF P
<1>3. s \in P
  BY <1>1, <1>2, SequenceInduction
<1> QED
  BY <1>3 DEF P

\* What is kept comes from different places.
Origins(s, keep) ==
    {from \in [1 .. Len(Filter(s, keep)) -> 1 .. Len(s)] :
        /\ \A i \in DOMAIN from : Filter(s, keep)[i] = s[from[i]] /\ s[from[i]] \in keep
        /\ \A i, j \in DOMAIN from : from[i] = from[j] => i = j}

LEMMA FilterHasOrigins ==
    ASSUME NEW X, NEW s \in Seq(X), NEW keep
    PROVE  Origins(s, keep) # {}
<1> DEFINE P == {u \in Seq(X) : Origins(u, keep) # {}}
<1>1. <<>> \in P
  <2> DEFINE from == [i \in 1 .. 0 |-> 0]
  <2>1. Len(Filter(<<>>, keep)) = 0 /\ Len(<<>>) = 0
    BY FilterOfEmpty, EmptySeq
  <2>2. from \in Origins(<<>>, keep)
    BY <2>1 DEF Origins
  <2> QED
    BY <2>2, EmptySeq
<1>2. ASSUME NEW u \in Seq(X), NEW e \in X, u \in P PROVE Append(u, e) \in P
  <2> DEFINE t == Append(u, e)
             f == Filter(u, keep)
  <2>1. /\ t \in Seq(X) /\ Len(u) \in Nat /\ Len(t) = Len(u) + 1
        /\ \A i \in 1 .. Len(u) : t[i] = u[i]
        /\ t[Len(u) + 1] = e
    BY AppendProperties, LenProperties
  <2>2. f \in Seq(X) /\ Len(f) \in Nat
    BY FilterType, LenProperties
  <2>3. Filter(t, keep) = IF e \in keep THEN Append(f, e) ELSE f
    BY FilterOfAppend
  <2>4. /\ Len(Append(f, e)) = Len(f) + 1
        /\ \A i \in 1 .. Len(f) : Append(f, e)[i] = f[i]
        /\ Append(f, e)[Len(f) + 1] = e
    BY <2>2, AppendProperties
  <2>5. PICK from : from \in Origins(u, keep)
    BY <1>2
  <2> HIDE DEF t, f
  <2>6. /\ from \in [1 .. Len(f) -> 1 .. Len(u)]
        /\ \A i \in 1 .. Len(f) : f[i] = u[from[i]] /\ u[from[i]] \in keep
        /\ \A i, j \in 1 .. Len(f) : from[i] = from[j] => i = j
    BY <2>5 DEF Origins, f
  <2>7. CASE e \notin keep
    <3>1. from \in [1 .. Len(f) -> 1 .. Len(t)]
      BY <2>1, <2>6
    <3>2. from \in Origins(t, keep)
      BY <2>1, <2>3, <2>6, <2>7, <3>1 DEF Origins
    <3> QED
      BY <2>1, <3>2 DEF t
  <2>8. CASE e \in keep
    <3> DEFINE more == [i \in 1 .. Len(f) + 1 |-> IF i = Len(f) + 1 THEN Len(u) + 1 ELSE from[i]]
    <3>1. more \in [1 .. Len(f) + 1 -> 1 .. Len(t)]
      BY <2>1, <2>2, <2>6
    <3>a. more[Len(f) + 1] = Len(u) + 1
      BY <2>2
    <3>b. ASSUME NEW i \in 1 .. Len(f)
          PROVE  more[i] = from[i] /\ from[i] \in 1 .. Len(u)
      <4>1. i \in 1 .. Len(f) + 1 /\ i # Len(f) + 1
        BY <2>2
      <4> QED
        BY <2>6, <4>1
    <3>c. \A i \in 1 .. Len(f) + 1 : i \in 1 .. Len(f) \/ i = Len(f) + 1
      BY <2>2
    <3> HIDE DEF more
    <3>2. \A i \in 1 .. Len(f) + 1 : Append(f, e)[i] = t[more[i]] /\ t[more[i]] \in keep
      BY <2>1, <2>2, <2>4, <2>6, <2>8, <3>a, <3>b, <3>c
    <3>d. \A i \in 1 .. Len(f) : more[i] # Len(u) + 1
      BY <2>1, <3>b
    <3>3. \A i, j \in 1 .. Len(f) + 1 : more[i] = more[j] => i = j
      BY <2>6, <3>a, <3>b, <3>c, <3>d, ZenonT(60)
    <3>4. DOMAIN more = 1 .. Len(f) + 1
      BY <3>1
    <3>5. more \in Origins(t, keep)
      BY <2>3, <2>4, <2>8, <3>1, <3>2, <3>3, <3>4 DEF Origins
    <3> QED
      BY <2>1, <3>5 DEF t
  <2> QED
    BY <2>7, <2>8 DEF t
<1> HIDE DEF P
<1>3. s \in P
  BY <1>1, <1>2, SequenceInduction
<1> QED
  BY <1>3 DEF P

-----------------------------------------------------------------------------
(* What is read of a document. *)

Wanted == [hero : Heroes, path : Paths, content : Contents]

Identities == 1 .. LocalLimit - 1

\* A section as the program finds it: no entry has the identity 0.
Typed(values) ==
    values \in Seq(Values) /\ \A i \in DOMAIN values : values[i].id \in Identities

Distinct(values) ==
    \A i, j \in Private(values) : values[i].id = values[j].id => i = j

NoTargets(request) == {v \in Values : ~IsTarget(v, request)}

LEMMA RequestType ==
    ASSUME NEW request \in Requests
    PROVE  /\ request \in Seq(Wanted) /\ Len(request) \in Nat /\ Len(request) # 0
           /\ DOMAIN request = 1 .. Len(request)
           /\ \A k \in DOMAIN request : request[k] \in Wanted
           /\ \A i, j \in DOMAIN request :
                request[i].hero = request[j].hero /\ request[i].path = request[j].path => i = j
<1>1. request \in Seq(Wanted) /\ request # <<>>
  BY RequestsAssumption DEF Wanted
<1>2. Len(request) \in Nat /\ DOMAIN request = 1 .. Len(request) /\ Len(request) # 0
  BY <1>1, LenProperties, EmptySeq
<1>3. \A k \in DOMAIN request : request[k] \in Wanted
  BY <1>1, <1>2, ElementOfSeq
<1> QED
  BY <1>1, <1>2, <1>3, RequestsAssumption

LEMMA ValuesType ==
    ASSUME NEW values \in Seq(Values)
    PROVE  /\ Len(values) \in Nat /\ DOMAIN values = 1 .. Len(values)
           /\ \A i \in DOMAIN values : values[i] \in Values
  BY LenProperties, ElementOfSeq

LEMMA RetainedIsFilter ==
    ASSUME NEW values \in Seq(Values), NEW request
    PROVE  Retained(values, request) = Filter(values, NoTargets(request))
<1> DEFINE there == {v \in ToSet(values) : ~IsTarget(v, request)}
<1>1. \A i \in 1 .. Len(values) : values[i] \in there <=> values[i] \in NoTargets(request)
  BY ValuesType DEF ToSet, NoTargets
<1> HIDE DEF there
<1>2. Filter(values, there) = Filter(values, NoTargets(request))
  BY <1>1, FilterAgrees
<1> QED
  BY <1>2 DEF Retained, there

\* Each found entry is a target: its mark is a path.
LEMMA FoundIsTarget ==
    ASSUME NEW values \in Seq(Values), NEW request \in Requests, NEW k \in DOMAIN request,
           NEW i \in Found(values, request[k])
    PROVE  /\ i \in DOMAIN values /\ i \in Private(values) /\ i \in Existing(values, request)
           /\ i \in Targets(values, request) /\ IsTarget(values[i], request)
<1>1. request[k].path \in Paths /\ "none" \notin Paths
  BY RequestType, PathsAssumption DEF Wanted
<1> QED
  BY <1>1 DEF Found, Private, Existing, Targets, IsTarget

\* What the plan keeps are the entries that are no target, from different places.
LEMMA RetainedOrigins ==
    ASSUME NEW values \in Seq(Values), NEW request
    PROVE  /\ Retained(values, request) \in Seq(Values)
           /\ \E from \in [DOMAIN Retained(values, request) -> DOMAIN values] :
                /\ \A i \in DOMAIN from :
                     /\ Retained(values, request)[i] = values[from[i]]
                     /\ ~IsTarget(values[from[i]], request)
                /\ \A i, j \in DOMAIN from : from[i] = from[j] => i = j
<1> DEFINE kept == Filter(values, NoTargets(request))
<1>1. kept \in Seq(Values) /\ Retained(values, request) = kept
  BY RetainedIsFilter, FilterType
<1>2. DOMAIN kept = 1 .. Len(kept) /\ DOMAIN values = 1 .. Len(values)
  BY <1>1, ValuesType
<1>3. PICK from : from \in Origins(values, NoTargets(request))
  BY FilterHasOrigins
<1>4. /\ from \in [DOMAIN kept -> DOMAIN values]
      /\ \A i \in DOMAIN from : kept[i] = values[from[i]] /\ values[from[i]] \in NoTargets(request)
      /\ \A i, j \in DOMAIN from : from[i] = from[j] => i = j
  BY <1>2, <1>3 DEF Origins
<1>5. \A i \in DOMAIN from : ~IsTarget(values[from[i]], request)
  BY <1>4 DEF NoTargets
<1> HIDE DEF kept
<1> QED
  BY <1>1, <1>4, <1>5

\* Entries that are targets, put after what was kept, are what goes the next time.
LEMMA RetainedAgain ==
    ASSUME NEW values \in Seq(Values), NEW request, NEW added \in Seq(Values),
           \A k \in DOMAIN added : IsTarget(added[k], request)
    PROVE  Retained(Retained(values, request) \o added, request) = Retained(values, request)
<1> DEFINE no == NoTargets(request)
           kept == Filter(values, no)
<1>1. Retained(values, request) = kept /\ kept \in Seq(Values)
  BY RetainedIsFilter, FilterType
<1>2. \A k \in 1 .. Len(added) : added[k] \notin no
  BY ValuesType DEF NoTargets
<1> HIDE DEF no
<1>3. Filter(added, no) = <<>>
  BY <1>2, FilterOfNone
<1>4. Filter(kept, no) = kept
  <2>1. Filter(kept, no) = Filter(values, no \cap no)
    BY FilterOfFilter
  <2> QED
    BY <2>1
<1> HIDE DEF kept
<1>5. kept \o added \in Seq(Values)
  BY <1>1, ConcatProperties
<1>6. Retained(kept \o added, request) = Filter(kept \o added, no)
  BY <1>5, RetainedIsFilter DEF no
<1>7. Filter(kept \o added, no) = Filter(kept, no) \o Filter(added, no)
  BY <1>1, FilterOfConcat
<1>8. kept \o <<>> = kept
  BY <1>1, ConcatEmptySeq
<1> QED
  BY <1>1, <1>3, <1>4, <1>6, <1>7, <1>8

-----------------------------------------------------------------------------
(* The identities of the plan. *)

LEMMA MaxIsGreatest ==
    ASSUME NEW S, S \subseteq Nat, S # {}, NEW n \in Nat, \A x \in S : x <= n
    PROVE  Max(S) \in S /\ \A x \in S : x <= Max(S)
<1> DEFINE Bounds == {b \in Nat : \A x \in S : x <= b}
<1>1. PICK b \in Bounds : \A c \in Bounds : b <= c
  <2>1. Bounds \subseteq Nat /\ n \in Bounds
    OBVIOUS
  <2> QED
    BY <2>1, LeastNumber
<1>2. b \in Nat /\ \A x \in S : x \in Nat /\ x <= b
  BY <1>1
<1>3. b \in S
  <2> SUFFICES ASSUME b \notin S PROVE FALSE
    OBVIOUS
  <2>1. \A x \in S : x <= b - 1
    BY <1>2
  <2>2. b - 1 \in Nat
    <3>1. PICK x : x \in S
      OBVIOUS
    <3> QED
      BY <1>2, <2>1, <3>1
  <2>3. b - 1 \in Bounds
    BY <2>1, <2>2
  <2> QED
    BY <1>1, <1>2, <2>3
<1>4. b \in S /\ \A x \in S : b >= x
  BY <1>2, <1>3
<1> HIDE DEF Bounds
<1>5. Max(S) \in S /\ \A x \in S : Max(S) >= x
  BY <1>4 DEF Max
<1> QED
  BY <1>2, <1>5

LEMMA NextLocalIdIsGreater ==
    ASSUME NEW values, Typed(values), NEW kept \in SUBSET Identities
    PROVE  /\ NextLocalId(values, kept) \in Nat /\ NextLocalId(values, kept) > 1
           /\ \A id \in kept : id < NextLocalId(values, kept)
           /\ \A i \in Private(values) : values[i].id < NextLocalId(values, kept)
<1> DEFINE S == {1} \cup kept
                 \cup {values[i].id : i \in {j \in Private(values) : values[j].id < LocalLimit}}
<1>1. LocalLimit \in Nat /\ LocalLimit > 1
  BY LimitAssumption
<1>2. \A i \in Private(values) : values[i].id \in Identities
  BY DEF Typed, Private
<1>3. \A x \in S : x \in Nat /\ x <= LocalLimit
  BY <1>1, <1>2 DEF Identities
<1>4. \A i \in Private(values) : values[i].id \in S
  BY <1>1, <1>2 DEF Identities
<1>5. 1 \in S /\ \A id \in kept : id \in S
  OBVIOUS
<1>6. NextLocalId(values, kept) = 1 + Max(S)
  BY DEF NextLocalId
<1> HIDE DEF S
<1>7. Max(S) \in S /\ \A x \in S : x <= Max(S)
  <2>1. S \subseteq Nat /\ S # {}
    BY <1>3, <1>5
  <2> QED
    BY <1>1, <1>3, <2>1, MaxIsGreatest
<1> QED
  BY <1>3, <1>4, <1>5, <1>6, <1>7

\* A new build takes an identity of its own, greater than all in use; another one keeps
\* that of its entry.
LEMMA IdentifierOfNew ==
    ASSUME NEW values, NEW kept, NEW request \in Requests, NEW k \in New(values, request),
           Typed(values), kept \in SUBSET Identities
    PROVE  /\ Identifier(values, kept, request, k) \in Nat
           /\ Identifier(values, kept, request, k) >= NextLocalId(values, kept)
<1> DEFINE before == {j \in New(values, request) : j < k}
<1>1. k \in Nat /\ before \subseteq Nat /\ \A j \in before : j <= k
  BY RequestType DEF New
<1>2. Cardinality(before) \in Nat
  BY <1>1, FS_BoundedSetOfNaturals, FS_CardinalityType
<1>3. Identifier(values, kept, request, k) = NextLocalId(values, kept) + Cardinality(before)
  BY DEF Identifier
<1> QED
  BY <1>2, <1>3, NextLocalIdIsGreater

LEMMA IdentifiersOfNewDiffer ==
    ASSUME NEW values, NEW kept, NEW request \in Requests, NEW k \in New(values, request),
           NEW l \in New(values, request), k < l, Typed(values), kept \in SUBSET Identities
    PROVE  Identifier(values, kept, request, k) < Identifier(values, kept, request, l)
<1> DEFINE before(n) == {j \in New(values, request) : j < n}
<1>1. k \in Nat /\ l \in Nat /\ before(l) \subseteq Nat /\ \A j \in before(l) : j <= l
  BY RequestType DEF New
<1>2. IsFiniteSet(before(l))
  BY <1>1, FS_BoundedSetOfNaturals
<1>3. before(k) \in SUBSET before(l) /\ k \in before(l) /\ k \notin before(k)
  BY <1>1, RequestType DEF New
<1>4. /\ IsFiniteSet(before(k)) /\ Cardinality(before(k)) <= Cardinality(before(l))
      /\ Cardinality(before(k)) # Cardinality(before(l))
  <2> HIDE DEF before
  <2> QED
    BY <1>2, <1>3, FS_Subset
<1>5. Cardinality(before(k)) \in Nat /\ Cardinality(before(l)) \in Nat
  BY <1>2, <1>4, FS_CardinalityType
<1>6. /\ Identifier(values, kept, request, k) = NextLocalId(values, kept) + Cardinality(before(k))
      /\ Identifier(values, kept, request, l) = NextLocalId(values, kept) + Cardinality(before(l))
  BY DEF Identifier
<1> QED
  BY <1>4, <1>5, <1>6, NextLocalIdIsGreater

LEMMA IdentifierOfFound ==
    ASSUME NEW values, NEW kept, NEW request, NEW k \in DOMAIN request \ New(values, request)
    PROVE  \E i \in Found(values, request[k]) : Identifier(values, kept, request, k) = values[i].id
<1>1. Found(values, request[k]) # {}
  BY DEF New
<1> QED
  BY <1>1 DEF Identifier

\* Kept or made, each entry of the replacement is the build that is asked for.
LEMMA ReplacementType ==
    ASSUME NEW values, NEW kept, NEW request \in Requests, NEW now \in Times,
           Typed(values), kept \in SUBSET Identities
    PROVE  /\ Replacement(values, kept, request, now) \in Seq(Values)
           /\ Len(Replacement(values, kept, request, now)) = Len(request)
           /\ \A k \in DOMAIN request :
                LET v == Replacement(values, kept, request, now)[k]
                IN  /\ v.author = "player" /\ v.hero = request[k].hero /\ v.mark = request[k].path
                    /\ v.content = request[k].content
                    /\ v.id = Identifier(values, kept, request, k)
                    /\ IsTarget(v, request)
<1> DEFINE R == Replacement(values, kept, request, now)
<1>1. /\ Len(request) \in Nat /\ DOMAIN request = 1 .. Len(request)
      /\ \A k \in DOMAIN request : request[k] \in Wanted /\ request[k].path # "none"
  BY RequestType, PathsAssumption DEF Wanted
<1>2. values \in Seq(Values) /\ \A i \in DOMAIN values : values[i] \in Values
  BY ValuesType DEF Typed
<1>3. ASSUME NEW k \in DOMAIN request
      PROVE  /\ R[k] \in Values
             /\ R[k].author = "player" /\ R[k].hero = request[k].hero
             /\ R[k].mark = request[k].path /\ R[k].content = request[k].content
             /\ R[k].id = Identifier(values, kept, request, k)
  <2> DEFINE blob == Blob(request[k], Identifier(values, kept, request, k), now)
             same == {i \in Found(values, request[k]) : SameBuildContent(values[i], blob)}
  <2>1. R[k] = IF same # {} THEN values[CHOOSE i \in same : TRUE] ELSE blob
    BY DEF Replacement
  <2>2. Identifier(values, kept, request, k) \in Nat
    <3>1. CASE k \in New(values, request)
      BY <3>1, IdentifierOfNew
    <3>2. CASE k \notin New(values, request)
      <4>1. PICK i \in Found(values, request[k]) :
              Identifier(values, kept, request, k) = values[i].id
        BY <3>2, IdentifierOfFound
      <4>2. values[i] \in Values
        BY <1>2 DEF Found
      <4> QED
        BY <4>1, <4>2 DEF Values
    <3> QED
      BY <3>1, <3>2
  <2>3. /\ blob \in Values
        /\ blob.author = "player" /\ blob.hero = request[k].hero
        /\ blob.mark = request[k].path /\ blob.content = request[k].content
        /\ blob.id = Identifier(values, kept, request, k)
    BY <1>1, <2>2 DEF Blob, Values, Wanted, Authors, Marks
  <2>4. CASE same = {}
    BY <2>1, <2>3, <2>4
  <2>5. CASE same # {}
    <3>1. PICK i : R[k] = values[i] /\ i \in same
      BY <2>1, <2>5
    <3>2. values[i] \in Values /\ [values[i] EXCEPT !.time = blob.time] = blob
      BY <1>2, <3>1 DEF Found, SameBuildContent
    <3> HIDE DEF blob, same, R
    <3>3. /\ values[i].author = blob.author /\ values[i].hero = blob.hero
          /\ values[i].mark = blob.mark /\ values[i].content = blob.content
          /\ values[i].id = blob.id
      BY <3>2 DEF Values
    <3> QED
      BY <2>3, <3>1, <3>2, <3>3
  <2> QED
    BY <2>4, <2>5
<1>4. DOMAIN R = 1 .. Len(request)
  BY <1>1 DEF Replacement
<1>5. R = [k \in 1 .. Len(request) |-> R[k]]
  BY <1>1 DEF Replacement
<1> HIDE DEF R
<1>6. R \in [1 .. Len(request) -> Values]
  BY <1>1, <1>3, <1>4, <1>5
<1>7. R \in Seq(Values) /\ Len(R) = Len(request)
  BY <1>1, <1>4, <1>6, SeqDef, LenProperties
<1>8. \A k \in DOMAIN request : IsTarget(R[k], request)
  BY <1>1, <1>3 DEF IsTarget
<1> QED
  BY <1>3, <1>7, <1>8 DEF R

LEMMA IdentifierIsFree ==
    ASSUME NEW values, NEW kept, NEW request \in Requests, NEW k \in DOMAIN request,
           NEW i \in Private(values), ~IsTarget(values[i], request),
           Typed(values), kept \in SUBSET Identities, IdentifiersAreDistinct(values, request)
    PROVE  Identifier(values, kept, request, k) # values[i].id
<1>1. values[i].id \in Nat /\ values[i].id < NextLocalId(values, kept)
  BY NextLocalIdIsGreater DEF Private, Typed, Identities
<1>2. CASE k \in New(values, request)
  BY <1>1, <1>2, IdentifierOfNew, NextLocalIdIsGreater
<1>3. CASE k \notin New(values, request)
  <2>1. PICK j \in Found(values, request[k]) :
          Identifier(values, kept, request, k) = values[j].id
    BY <1>3, IdentifierOfFound
  <2>2. j \in Existing(values, request) /\ IsTarget(values[j], request)
    BY FoundIsTarget DEF Typed
  <2> QED
    BY <2>1, <2>2 DEF IdentifiersAreDistinct
<1> QED
  BY <1>2, <1>3

LEMMA IdentifiersDiffer ==
    ASSUME NEW values, NEW kept, NEW request \in Requests,
           NEW k \in DOMAIN request, NEW l \in DOMAIN request, k # l,
           Typed(values), kept \in SUBSET Identities, ScanSucceeds(values, request)
    PROVE  Identifier(values, kept, request, k) # Identifier(values, kept, request, l)
<1>1. ASSUME NEW m \in DOMAIN request \ New(values, request)
      PROVE  \E i \in Existing(values, request) :
                /\ Identifier(values, kept, request, m) = values[i].id
                /\ values[i].id \in Nat /\ values[i].id < NextLocalId(values, kept)
                /\ values[i].hero = request[m].hero /\ values[i].mark = request[m].path
  <2>1. PICK i \in Found(values, request[m]) :
          Identifier(values, kept, request, m) = values[i].id
    BY IdentifierOfFound
  <2>2. i \in Existing(values, request) /\ i \in Private(values)
    BY FoundIsTarget DEF Typed
  <2>3. values[i].id \in Nat /\ values[i].id < NextLocalId(values, kept)
    BY <2>2, NextLocalIdIsGreater DEF Private, Typed, Identities
  <2> QED
    BY <2>1, <2>2, <2>3 DEF Found
<1>2. ASSUME NEW m \in New(values, request), NEW n \in DOMAIN request \ New(values, request)
      PROVE  Identifier(values, kept, request, m) # Identifier(values, kept, request, n)
  BY <1>1, IdentifierOfNew, NextLocalIdIsGreater
<1>3. CASE k \in New(values, request) /\ l \in New(values, request)
  <2>1. k \in Nat /\ l \in Nat
    BY RequestType
  <2>2. Identifier(values, kept, request, k) \in Nat /\ Identifier(values, kept, request, l) \in Nat
    BY <1>3, IdentifierOfNew
  <2>3. CASE k < l
    BY <1>3, <2>2, <2>3, IdentifiersOfNewDiffer
  <2>4. CASE l < k
    BY <1>3, <2>2, <2>4, IdentifiersOfNewDiffer
  <2> QED
    BY <2>1, <2>3, <2>4
<1>4. CASE k \notin New(values, request) /\ l \notin New(values, request)
  <2>1. PICK i \in Existing(values, request) :
          /\ Identifier(values, kept, request, k) = values[i].id
          /\ values[i].hero = request[k].hero /\ values[i].mark = request[k].path
    BY <1>1, <1>4
  <2>2. PICK j \in Existing(values, request) :
          /\ Identifier(values, kept, request, l) = values[j].id
          /\ values[j].hero = request[l].hero /\ values[j].mark = request[l].path
    BY <1>1, <1>4
  <2>3. i # j
    BY <2>1, <2>2, RequestType
  <2> QED
    BY <2>1, <2>2, <2>3 DEF ScanSucceeds
<1> QED
  BY <1>2, <1>3, <1>4

LEMMA IdentifierIsLocal ==
    ASSUME NEW values, NEW kept, NEW request \in Requests, NEW k \in DOMAIN request,
           Typed(values), kept \in SUBSET Identities, IdentifiersSuffice(values, kept, request)
    PROVE  Identifier(values, kept, request, k) \in Identities
<1>1. CASE k \in New(values, request)
  <2> DEFINE id == Identifier(values, kept, request, k)
             least == NextLocalId(values, kept)
  <2>1. id \in Nat /\ id >= least
    BY <1>1, IdentifierOfNew
  <2>2. least \in Nat /\ least > 1
    BY NextLocalIdIsGreater
  <2>3. id < LocalLimit
    BY <1>1 DEF IdentifiersSuffice
  <2> HIDE DEF id, least
  <2>4. id \in Identities
    BY <2>1, <2>2, <2>3, LimitAssumption DEF Identities
  <2> QED
    BY <2>4 DEF id
<1>2. CASE k \notin New(values, request)
  BY <1>2, IdentifierOfFound DEF Found, Typed
<1> QED
  BY <1>1, <1>2

-----------------------------------------------------------------------------
(* The plan. *)

\* After an installation: what is no target, then the builds in their order.
Holds(values, request, n) ==
    /\ Len(values) = n + Len(request)
    /\ \A i \in 1 .. n : ~IsTarget(values[i], request)
    /\ \A k \in DOMAIN request :
         /\ values[n + k].author = "player" /\ values[n + k].hero = request[k].hero
         /\ values[n + k].mark = request[k].path /\ values[n + k].content = request[k].content

Installed(values, request) == \E n \in Nat : Holds(values, request, n)

LEMMA PlannedParts ==
    ASSUME NEW values, NEW kept, NEW request \in Requests, NEW now \in Times,
           Typed(values), kept \in SUBSET Identities
    PROVE  LET old  == Retained(values, request)
               new  == Replacement(values, kept, request, now)
               plan == Planned(values, kept, request, now)
           IN  /\ plan \in Seq(Values) /\ old \in Seq(Values) /\ new \in Seq(Values)
               /\ DOMAIN plan = 1 .. Len(old) + Len(request)
               /\ Len(plan) = Len(old) + Len(request)
               /\ Len(old) \in Nat /\ DOMAIN old = 1 .. Len(old)
               /\ \A i \in 1 .. Len(old) : plan[i] = old[i]
               /\ \A k \in DOMAIN request : plan[Len(old) + k] = new[k]
               /\ \A i \in DOMAIN plan :
                    i \in 1 .. Len(old) \/ i - Len(old) \in DOMAIN request
<1> DEFINE old  == Retained(values, request)
           new  == Replacement(values, kept, request, now)
           plan == old \o new
<1>0. old \in Seq(Values)
  BY RetainedOrigins DEF Typed
<1>1. old \in Seq(Values) /\ new \in Seq(Values) /\ Len(new) = Len(request)
  <2>1. new \in Seq(Values) /\ Len(new) = Len(request)
    BY ReplacementType
  <2> QED
    BY <1>0, <2>1
<1>2. Planned(values, kept, request, now) = plan
  BY DEF Planned
<1> HIDE DEF old, new
<1>3. /\ plan \in Seq(Values) /\ Len(plan) = Len(old) + Len(request)
      /\ \A i \in 1 .. Len(old) + Len(request) :
           plan[i] = IF i <= Len(old) THEN old[i] ELSE new[i - Len(old)]
  <2>1. /\ old \o new \in Seq(Values) /\ Len(old \o new) = Len(old) + Len(new)
        /\ \A i \in 1 .. Len(old) + Len(new) :
             (old \o new)[i] = IF i <= Len(old) THEN old[i] ELSE new[i - Len(old)]
    BY <1>1, ConcatProperties
  <2>2. plan = old \o new
    BY DEF plan
  <2> HIDE DEF plan
  <2> QED
    BY <1>1, <2>1, <2>2
<1>4. Len(old) \in Nat /\ Len(request) \in Nat /\ DOMAIN request = 1 .. Len(request)
  BY <1>1, LenProperties, RequestType
<1>5. DOMAIN plan = 1 .. Len(old) + Len(request) /\ DOMAIN old = 1 .. Len(old)
  BY <1>1, <1>3, LenProperties
<1> HIDE DEF plan
<1>6. \A i \in 1 .. Len(old) : plan[i] = old[i]
  BY <1>3, <1>4
<1>7. ASSUME NEW k \in DOMAIN request PROVE plan[Len(old) + k] = new[k]
  <2>1. /\ Len(old) + k \in 1 .. Len(old) + Len(request) /\ ~(Len(old) + k <= Len(old))
        /\ (Len(old) + k) - Len(old) = k
    BY <1>4
  <2> QED
    BY <1>3, <2>1
<1>8. \A i \in DOMAIN plan : i \in 1 .. Len(old) \/ i - Len(old) \in DOMAIN request
  BY <1>4, <1>5
<1> QED
  BY <1>1, <1>2, <1>3, <1>4, <1>5, <1>6, <1>7, <1>8 DEF old, new

LEMMA PlannedIsSound ==
    ASSUME NEW values, NEW kept, NEW request \in Requests, NEW now \in Times,
           Typed(values), Distinct(values), kept \in SUBSET Identities,
           Succeeds(values, kept, request, now)
    PROVE  LET plan == Planned(values, kept, request, now)
           IN  Typed(plan) /\ Distinct(plan) /\ Installed(plan, request)
<1> DEFINE old  == Retained(values, request)
           new  == Replacement(values, kept, request, now)
           plan == Planned(values, kept, request, now)
           ident(k) == Identifier(values, kept, request, k)
<1>1. /\ plan \in Seq(Values) /\ old \in Seq(Values) /\ new \in Seq(Values)
      /\ DOMAIN plan = 1 .. Len(old) + Len(request)
      /\ Len(plan) = Len(old) + Len(request)
      /\ Len(old) \in Nat /\ DOMAIN old = 1 .. Len(old)
      /\ \A i \in 1 .. Len(old) : plan[i] = old[i]
      /\ \A k \in DOMAIN request : plan[Len(old) + k] = new[k]
      /\ \A i \in DOMAIN plan : i \in 1 .. Len(old) \/ i - Len(old) \in DOMAIN request
  BY PlannedParts
<1>2. \A k \in DOMAIN request :
        /\ new[k].author = "player" /\ new[k].hero = request[k].hero
        /\ new[k].mark = request[k].path /\ new[k].content = request[k].content
        /\ new[k].id = ident(k)
  BY ReplacementType
<1>3. PICK from \in [DOMAIN old -> DOMAIN values] :
        /\ \A i \in DOMAIN from : old[i] = values[from[i]] /\ ~IsTarget(values[from[i]], request)
        /\ \A i, j \in DOMAIN from : from[i] = from[j] => i = j
  BY RetainedOrigins DEF Typed
<1>4. DOMAIN request = 1 .. Len(request) /\ Len(request) \in Nat
  BY RequestType
<1>5. \A k \in DOMAIN request : ident(k) \in Identities
  BY IdentifierIsLocal DEF Succeeds
<1>6. \A k, l \in DOMAIN request : k # l => ident(k) # ident(l)
  BY IdentifiersDiffer DEF Succeeds
<1>7. ASSUME NEW k \in DOMAIN request, NEW i \in DOMAIN old, old[i].author = "player"
      PROVE  ident(k) # old[i].id
  <2>1. from[i] \in Private(values) /\ ~IsTarget(values[from[i]], request)
    BY <1>3, <1>7 DEF Private
  <2>2. ident(k) # values[from[i]].id
    BY <2>1, IdentifierIsFree DEF Succeeds
  <2> QED
    BY <1>3, <2>2
<1>8. ASSUME NEW i \in DOMAIN old, NEW j \in DOMAIN old,
             old[i].author = "player", old[j].author = "player", old[i].id = old[j].id
      PROVE  i = j
  <2>1. from[i] \in Private(values) /\ from[j] \in Private(values)
    BY <1>3, <1>8 DEF Private
  <2> QED
    BY <1>3, <1>8, <2>1 DEF Distinct
<1>9. \A i \in DOMAIN old : old[i].id \in Identities /\ ~IsTarget(old[i], request)
  BY <1>3 DEF Typed
<1> HIDE DEF old, new, plan, ident
<1>10. ASSUME NEW i \in DOMAIN plan
       PROVE  \/ i \in DOMAIN old /\ plan[i] = old[i]
              \/ \E k \in DOMAIN request : i = Len(old) + k /\ plan[i] = new[k]
  <2>1. CASE i \in 1 .. Len(old)
    BY <1>1, <2>1
  <2>2. CASE i - Len(old) \in DOMAIN request
    <3>1. i = Len(old) + (i - Len(old))
      BY <1>1
    <3> QED
      BY <1>1, <2>2, <3>1
  <2> QED
    BY <1>1, <2>1, <2>2
<1>11. Typed(plan)
  <2>1. ASSUME NEW i \in DOMAIN plan PROVE plan[i].id \in Identities
    BY <1>2, <1>5, <1>9, <1>10
  <2> QED
    BY <1>1, <2>1 DEF Typed
<1>12. Distinct(plan)
  <2> SUFFICES ASSUME NEW i \in DOMAIN plan, NEW j \in DOMAIN plan,
                      plan[i].author = "player", plan[j].author = "player",
                      plan[i].id = plan[j].id
               PROVE  i = j
    BY DEF Distinct, Private
  <2>1. CASE i \in DOMAIN old /\ plan[i] = old[i] /\ j \in DOMAIN old /\ plan[j] = old[j]
    BY <1>8, <2>1
  <2>2. CASE i \in DOMAIN old /\ plan[i] = old[i]
             /\ \E k \in DOMAIN request : j = Len(old) + k /\ plan[j] = new[k]
    BY <1>2, <1>7, <2>2
  <2>3. CASE j \in DOMAIN old /\ plan[j] = old[j]
             /\ \E k \in DOMAIN request : i = Len(old) + k /\ plan[i] = new[k]
    BY <1>2, <1>7, <2>3
  <2>4. CASE /\ \E k \in DOMAIN request : i = Len(old) + k /\ plan[i] = new[k]
             /\ \E k \in DOMAIN request : j = Len(old) + k /\ plan[j] = new[k]
    BY <1>2, <1>6, <2>4
  <2> QED
    BY <1>10, <2>1, <2>2, <2>3, <2>4
<1>13. Installed(plan, request)
  <2>1. \A i \in 1 .. Len(old) : ~IsTarget(plan[i], request)
    BY <1>1, <1>9
  <2>2. Holds(plan, request, Len(old))
    BY <1>1, <1>2, <2>1 DEF Holds
  <2> QED
    BY <1>1, <2>2 DEF Installed
<1> QED
  BY <1>11, <1>12, <1>13 DEF plan

-----------------------------------------------------------------------------
(* The inductive invariant. *)

IInv ==
    /\ Typed(unpublished)
    /\ Distinct(unpublished)
    /\ copies \in SUBSET Identities
    /\ current \in Requests \cup {<<>>}
    /\ current # <<>> => Installed(unpublished, current)

LEMMA InitInv == Init => IInv
<1> SUFFICES ASSUME Init PROVE IInv
  OBVIOUS
<1>1. unpublished \in Documents /\ copies = {} /\ current = <<>>
  BY DEF Init
<1>2. Typed(unpublished) /\ Distinct(unpublished)
  BY <1>1, DocumentsAssumption DEF Typed, Distinct, Private, Identities
<1> QED
  BY <1>1, <1>2 DEF IInv

LEMMA InstallInv == IInv /\ Install => IInv'
<1> SUFFICES ASSUME IInv, Install PROVE IInv'
  OBVIOUS
<1>1. PICK request \in Requests, now \in Clock :
        /\ Succeeds(unpublished, copies, request, now)
        /\ unpublished' = Planned(unpublished, copies, request, now)
        /\ current' = request /\ copies' = copies
  BY DEF Install
<1>2. now \in Times
  BY ClockAssumption
<1>3. /\ Typed(Planned(unpublished, copies, request, now))
      /\ Distinct(Planned(unpublished, copies, request, now))
      /\ Installed(Planned(unpublished, copies, request, now), request)
  BY <1>1, <1>2, PlannedIsSound DEF IInv
<1>4. Typed(unpublished') /\ Distinct(unpublished') /\ Installed(unpublished', current')
  BY <1>1, <1>3
<1> QED
  BY <1>1, <1>4 DEF IInv

\* The game appends a private build with an identity that no other has.
LEMMA AppendedInv ==
    ASSUME IInv, NEW v \in Values, v.id \in Identities \ LocalIds,
           unpublished' = Append(unpublished, v), current' = <<>>, copies' = copies
    PROVE  IInv'
<1> DEFINE more == Append(unpublished, v)
<1>1. unpublished \in Seq(Values) /\ \A i \in DOMAIN unpublished : unpublished[i].id \in Identities
  BY DEF IInv, Typed
<1>2. Len(unpublished) \in Nat /\ DOMAIN unpublished = 1 .. Len(unpublished)
  BY <1>1, ValuesType
<1>3. /\ more \in Seq(Values) /\ DOMAIN more = 1 .. Len(unpublished) + 1
      /\ \A i \in 1 .. Len(unpublished) : more[i] = unpublished[i]
      /\ more[Len(unpublished) + 1] = v
  BY <1>1, <1>2, AppendProperties, ValuesType
<1> HIDE DEF more
<1>4. \A i \in DOMAIN more : i \in DOMAIN unpublished \/ i = Len(unpublished) + 1
  BY <1>2, <1>3
<1>5. Typed(more)
  BY <1>1, <1>2, <1>3, <1>4 DEF Typed
<1>6. \A i \in Private(unpublished) : unpublished[i].id # v.id
  BY DEF LocalIds
<1>7. Distinct(more)
  <2> SUFFICES ASSUME NEW i \in DOMAIN more, NEW j \in DOMAIN more,
                      more[i].author = "player", more[j].author = "player",
                      more[i].id = more[j].id
               PROVE  i = j
    BY DEF Distinct, Private
  <2> QED
    BY <1>2, <1>3, <1>4, <1>6 DEF IInv, Distinct, Private
<1>8. unpublished' = more
  BY DEF more
<1> QED
  BY <1>5, <1>7, <1>8 DEF IInv

LEMMA PlayerBuildType ==
    ASSUME NEW id \in Nat, NEW hero \in Heroes
    PROVE  PlayerBuild(id, hero) \in Values /\ PlayerBuild(id, hero).id = id
  BY DataAssumption DEF PlayerBuild, Values, Authors, Marks

LEMMA CreateInv == IInv /\ Create => IInv'
<1> SUFFICES ASSUME IInv, Create PROVE IInv'
  OBVIOUS
<1>1. PICK id \in 1 .. LocalLimit - 1 \ LocalIds, hero \in Heroes :
        unpublished' = Append(unpublished, PlayerBuild(id, hero))
  BY DEF Create
<1>2. id \in Identities \ LocalIds /\ id \in Nat
  BY DEF Identities
<1>3. PlayerBuild(id, hero) \in Values /\ PlayerBuild(id, hero).id = id
  BY <1>2, PlayerBuildType
<1>4. current' = <<>> /\ copies' = copies
  BY DEF Create
<1> QED
  BY <1>1, <1>2, <1>3, <1>4, AppendedInv

LEMMA DuplicateInv == IInv /\ Duplicate => IInv'
<1> SUFFICES ASSUME IInv, Duplicate PROVE IInv'
  OBVIOUS
<1>1. PICK i \in Private(unpublished), id \in 1 .. LocalLimit - 1 \ LocalIds :
        unpublished' = Append(unpublished, [unpublished[i] EXCEPT !.id = id])
  BY DEF Duplicate
<1>2. id \in Identities \ LocalIds /\ id \in Nat
  BY DEF Identities
<1>3. unpublished[i] \in Values
  BY ValuesType DEF IInv, Typed, Private
<1> DEFINE v == [unpublished[i] EXCEPT !.id = id]
<1>4. v \in Values /\ v.id = id
  BY <1>2, <1>3 DEF Values
<1>5. current' = <<>> /\ copies' = copies /\ unpublished' = Append(unpublished, v)
  BY <1>1 DEF Duplicate
<1> HIDE DEF v
<1> QED
  BY <1>2, <1>4, <1>5, AppendedInv

\* An edited build keeps its author and its identity.
LEMMA EditInv == IInv /\ Edit => IInv'
<1> SUFFICES ASSUME IInv, Edit PROVE IInv'
  OBVIOUS
<1>1. PICK i \in Private(unpublished) :
        \E v \in {[unpublished[i] EXCEPT !.content = c] : c \in Contents}
                 \cup {PlayerBuild(unpublished[i].id, unpublished[i].hero)} :
          unpublished' = [unpublished EXCEPT ![i] = v]
  BY DEF Edit
<1>2. PICK v \in {[unpublished[i] EXCEPT !.content = c] : c \in Contents}
                 \cup {PlayerBuild(unpublished[i].id, unpublished[i].hero)} :
        unpublished' = [unpublished EXCEPT ![i] = v]
  BY <1>1
<1>3. unpublished \in Seq(Values) /\ \A j \in DOMAIN unpublished : unpublished[j].id \in Identities
  BY DEF IInv, Typed
<1>4. /\ Len(unpublished) \in Nat /\ DOMAIN unpublished = 1 .. Len(unpublished)
      /\ i \in DOMAIN unpublished /\ unpublished[i] \in Values
      /\ unpublished[i].author = "player"
  BY <1>3, ValuesType DEF Private
<1>5. v \in Values /\ v.author = "player" /\ v.id = unpublished[i].id
  <2>1. CASE v \in {[unpublished[i] EXCEPT !.content = c] : c \in Contents}
    BY <1>4, <2>1 DEF Values
  <2>2. CASE v = PlayerBuild(unpublished[i].id, unpublished[i].hero)
    <3>1. unpublished[i].id \in Nat /\ unpublished[i].hero \in Heroes
      BY <1>4 DEF Values
    <3>2. PlayerBuild(unpublished[i].id, unpublished[i].hero).author = "player"
      BY DEF PlayerBuild
    <3> QED
      BY <2>2, <3>1, <3>2, PlayerBuildType
  <2> QED
    BY <2>1, <2>2
<1>6. /\ unpublished' \in Seq(Values)
      /\ DOMAIN unpublished' = DOMAIN unpublished
      /\ unpublished'[i] = v
      /\ \A j \in DOMAIN unpublished : j # i => unpublished'[j] = unpublished[j]
  <2>1. unpublished' \in Seq(Values)
    BY <1>2, <1>3, <1>4, <1>5, ExceptSeq
  <2> QED
    BY <1>2, <1>4, <2>1
<1>7. Typed(unpublished')
  <2>1. ASSUME NEW j \in DOMAIN unpublished' PROVE unpublished'[j].id \in Identities
    BY <1>3, <1>4, <1>5, <1>6
  <2> QED
    BY <1>6, <2>1 DEF Typed
<1>8. \A j \in DOMAIN unpublished :
        /\ unpublished'[j].id = unpublished[j].id
        /\ j \in Private(unpublished') <=> j \in Private(unpublished)
  BY <1>4, <1>5, <1>6 DEF Private
<1>9. Distinct(unpublished')
  BY <1>6, <1>8 DEF IInv, Distinct, Private
<1>10. current' = <<>> /\ copies' = copies
  BY DEF Edit
<1> QED
  BY <1>7, <1>9, <1>10 DEF IInv

\* What is left after one entry goes, each from a place of its own.
LEMMA RemoveAtProperties ==
    ASSUME NEW X, NEW s \in Seq(X), NEW i \in 1 .. Len(s)
    PROVE  /\ RemoveAt(s, i) \in Seq(X) /\ Len(RemoveAt(s, i)) = Len(s) - 1
           /\ \A j \in 1 .. Len(s) - 1 : RemoveAt(s, i)[j] = IF j < i THEN s[j] ELSE s[j + 1]
<1> DEFINE before == SubSeq(s, 1, i - 1)
           after  == SubSeq(s, i + 1, Len(s))
<1>1. Len(s) \in Nat /\ i \in Nat /\ 1 <= i /\ i <= Len(s) /\ \A j \in 1 .. Len(s) : s[j] \in X
  BY LenProperties, ElementOfSeq
<1>2. /\ before \in Seq(X) /\ Len(before) = i - 1
      /\ \A j \in 1 .. i - 1 : before[j] = s[j]
  <2>1. /\ before \in Seq(X) /\ Len(before) = IF 1 <= i - 1 THEN i - 1 - 1 + 1 ELSE 0
        /\ \A j \in 1 .. i - 1 - 1 + 1 : before[j] = s[1 + j - 1]
    BY <1>1, SubSeqProperties
  <2> QED
    BY <1>1, <2>1
<1>3. /\ after \in Seq(X) /\ Len(after) = Len(s) - i
      /\ \A j \in 1 .. Len(s) - i : after[j] = s[i + j]
  <2>1. /\ after \in Seq(X)
        /\ Len(after) = IF i + 1 <= Len(s) THEN Len(s) - (i + 1) + 1 ELSE 0
        /\ \A j \in 1 .. Len(s) - (i + 1) + 1 : after[j] = s[(i + 1) + j - 1]
    BY <1>1, SubSeqProperties
  <2> QED
    BY <1>1, <2>1
<1>4. RemoveAt(s, i) = before \o after
  BY DEF RemoveAt
<1> HIDE DEF before, after
<1>5. /\ RemoveAt(s, i) \in Seq(X) /\ Len(RemoveAt(s, i)) = Len(before) + Len(after)
      /\ \A j \in 1 .. Len(before) + Len(after) :
           RemoveAt(s, i)[j] = IF j <= Len(before) THEN before[j] ELSE after[j - Len(before)]
  <2>1. /\ before \o after \in Seq(X) /\ Len(before \o after) = Len(before) + Len(after)
        /\ \A j \in 1 .. Len(before) + Len(after) :
             (before \o after)[j] = IF j <= Len(before) THEN before[j] ELSE after[j - Len(before)]
    BY <1>2, <1>3, ConcatProperties
  <2> QED
    BY <1>4, <2>1
<1>6. Len(before) + Len(after) = Len(s) - 1
  BY <1>1, <1>2, <1>3
<1>7. ASSUME NEW j \in 1 .. Len(s) - 1
      PROVE  RemoveAt(s, i)[j] = IF j < i THEN s[j] ELSE s[j + 1]
  <2> DEFINE r == RemoveAt(s, i)
  <2>0. r[j] = IF j <= Len(before) THEN before[j] ELSE after[j - Len(before)]
    <3>1. j \in 1 .. Len(before) + Len(after)
      BY <1>6
    <3> QED
      BY <1>5, <3>1
  <2> HIDE DEF r
  <2>1. CASE j < i
    BY <1>1, <1>2, <2>0, <2>1 DEF r
  <2>2. CASE ~(j < i)
    <3>1. j - Len(before) \in 1 .. Len(s) - i /\ i + (j - Len(before)) = j + 1
      BY <1>1, <1>2, <2>2
    <3>2. r[j] = after[j - Len(before)]
      <4>1. ~(j <= Len(before))
        BY <1>1, <1>2, <2>2
      <4> QED
        BY <2>0, <4>1
    <3> QED
      BY <1>3, <2>2, <3>1, <3>2 DEF r
  <2> QED
    BY <2>1, <2>2
<1> QED
  BY <1>5, <1>6, <1>7

LEMMA DeleteInv == IInv /\ Delete => IInv'
<1> SUFFICES ASSUME IInv, Delete PROVE IInv'
  OBVIOUS
<1>1. PICK i \in DOMAIN unpublished : unpublished' = RemoveAt(unpublished, i)
  BY DEF Delete
<1>2. unpublished \in Seq(Values) /\ \A j \in DOMAIN unpublished : unpublished[j].id \in Identities
  BY DEF IInv, Typed
<1>3. Len(unpublished) \in Nat /\ DOMAIN unpublished = 1 .. Len(unpublished)
  BY <1>2, ValuesType
<1>4. /\ unpublished' \in Seq(Values) /\ Len(unpublished') = Len(unpublished) - 1
      /\ \A j \in 1 .. Len(unpublished) - 1 :
           unpublished'[j] = IF j < i THEN unpublished[j] ELSE unpublished[j + 1]
  <2>1. i \in 1 .. Len(unpublished)
    BY <1>3
  <2> QED
    BY <1>1, <1>2, <2>1, RemoveAtProperties
<1>5. DOMAIN unpublished' = 1 .. Len(unpublished) - 1
  BY <1>4, ValuesType
<1> DEFINE From(j) == IF j < i THEN j ELSE j + 1
<1>6. /\ \A j \in DOMAIN unpublished' :
           From(j) \in DOMAIN unpublished /\ unpublished'[j] = unpublished[From(j)]
      /\ \A j, k \in DOMAIN unpublished' : From(j) = From(k) => j = k
  BY <1>3, <1>4, <1>5
<1> HIDE DEF From
<1>7. Typed(unpublished')
  BY <1>2, <1>4, <1>6 DEF Typed
<1>8. Distinct(unpublished')
  BY <1>6 DEF IInv, Distinct, Private
<1>9. current' = <<>> /\ copies' = copies
  BY DEF Delete
<1> QED
  BY <1>7, <1>8, <1>9 DEF IInv

LEMMA CopiesInv == IInv /\ (Keep \/ Forget) => IInv'
<1> SUFFICES ASSUME IInv, Keep \/ Forget PROVE IInv'
  OBVIOUS
<1>1. unpublished' = unpublished /\ current' = current
  BY DEF Keep, Forget
<1>2. copies' \in SUBSET Identities
  <2>1. CASE Keep
    BY <2>1 DEF Keep, IInv, Typed, Private
  <2>2. CASE Forget
    BY <2>2 DEF Forget, IInv
  <2> QED
    BY <2>1, <2>2
<1> QED
  BY <1>1, <1>2 DEF IInv

LEMMA StepInv == IInv /\ [Next]_vars => IInv'
<1> SUFFICES ASSUME IInv, [Next]_vars PROVE IInv'
  OBVIOUS
<1>1. CASE Install
  BY <1>1, InstallInv
<1>2. CASE Create
  BY <1>2, CreateInv
<1>3. CASE Duplicate
  BY <1>3, DuplicateInv
<1>4. CASE Edit
  BY <1>4, EditInv
<1>5. CASE Delete
  BY <1>5, DeleteInv
<1>6. CASE Keep \/ Forget
  BY <1>6, CopiesInv
<1>7. CASE UNCHANGED vars
  BY <1>7 DEF vars, IInv
<1> QED
  BY <1>1, <1>2, <1>3, <1>4, <1>5, <1>6, <1>7 DEF Next, Play

LEMMA Invariance == Spec => []IInv
  BY InitInv, StepInv, PTL DEF Spec

-----------------------------------------------------------------------------
(* The theorems. *)

\* Whatever prepare_cache_update plans and the player does in the game, the
\* entries stay private or foreign builds with identities below LocalLimit.
THEOREM TypesHold == Spec => []TypeOK
<1>1. IInv => TypeOK
  BY DEF IInv, TypeOK, Typed, Identities
<1> QED
  BY Invariance, <1>1, PTL

\* allocate_id, with the scan of the other sections, never gives an identity
\* that another private build has, however many installations and builds of the
\* player came before.
THEOREM IdentitiesStayUnique == Spec => []IdentitiesAreUnique
<1>1. IInv => IdentitiesAreUnique
  BY DEF IInv, IdentitiesAreUnique, Distinct
<1> QED
  BY Invariance, <1>1, PTL

LEMMA InstallIsFresh ==
    ASSUME IInv, Install, NEW i \in Private(unpublished'), unpublished'[i].id \in LocalIds
    PROVE  \E j \in Private(unpublished) :
             /\ unpublished[j].id = unpublished'[i].id
             /\ unpublished[j].hero = unpublished'[i].hero
             /\ unpublished[j].mark = unpublished'[i].mark
<1>1. PICK request \in Requests, now \in Clock :
        /\ Succeeds(unpublished, copies, request, now)
        /\ unpublished' = Planned(unpublished, copies, request, now)
  BY DEF Install
<1>2. now \in Times /\ Typed(unpublished) /\ copies \in SUBSET Identities
  BY ClockAssumption DEF IInv
<1> DEFINE old  == Retained(unpublished, request)
           new  == Replacement(unpublished, copies, request, now)
           plan == Planned(unpublished, copies, request, now)
<1>3. /\ plan \in Seq(Values) /\ old \in Seq(Values) /\ new \in Seq(Values)
      /\ DOMAIN plan = 1 .. Len(old) + Len(request)
      /\ Len(plan) = Len(old) + Len(request)
      /\ Len(old) \in Nat /\ DOMAIN old = 1 .. Len(old)
      /\ \A l \in 1 .. Len(old) : plan[l] = old[l]
      /\ \A k \in DOMAIN request : plan[Len(old) + k] = new[k]
      /\ \A l \in DOMAIN plan : l \in 1 .. Len(old) \/ l - Len(old) \in DOMAIN request
  BY <1>2, PlannedParts
<1>4. \A k \in DOMAIN request :
        /\ new[k].author = "player" /\ new[k].hero = request[k].hero
        /\ new[k].mark = request[k].path
        /\ new[k].id = Identifier(unpublished, copies, request, k)
  BY <1>2, ReplacementType
<1>5. PICK from \in [DOMAIN old -> DOMAIN unpublished] :
        \A l \in DOMAIN from : old[l] = unpublished[from[l]]
  BY <1>2, RetainedOrigins DEF Typed
<1> HIDE DEF old, new, plan
<1>6. i \in DOMAIN plan /\ unpublished' = plan /\ plan[i].author = "player"
  BY <1>1 DEF Private, plan
<1>7. CASE i \in 1 .. Len(old)
  <2>1. plan[i] = unpublished[from[i]] /\ from[i] \in DOMAIN unpublished
    BY <1>3, <1>5, <1>7
  <2> QED
    BY <1>6, <2>1 DEF Private
<1>8. CASE i - Len(old) \in DOMAIN request
  <2> DEFINE k == i - Len(old)
  <2>1. i = Len(old) + k
    BY <1>3, <1>6
  <2>2. plan[i] = new[k]
    BY <1>3, <1>8, <2>1
  <2> HIDE DEF k
  <2>3. k \in DOMAIN request
    BY <1>8 DEF k
  <2>4. CASE k \in New(unpublished, request)
    <3>1. plan[i].id \in Nat /\ plan[i].id >= NextLocalId(unpublished, copies)
      BY <1>2, <1>4, <2>2, <2>3, <2>4, IdentifierOfNew
    <3>2. \A id \in LocalIds : id \in Nat /\ id < NextLocalId(unpublished, copies)
      <4>1. \A id \in copies : id \in Nat
        BY <1>2 DEF Identities
      <4>2. \A j \in Private(unpublished) : unpublished[j].id \in Nat
        BY <1>2 DEF Typed, Private, Identities
      <4> QED
        BY <1>2, <4>1, <4>2, NextLocalIdIsGreater DEF LocalIds
    <3>3. NextLocalId(unpublished, copies) \in Nat
      BY <1>2, NextLocalIdIsGreater
    <3>4. plan[i].id \in LocalIds
      BY <1>6
    <3> QED
      BY <3>1, <3>2, <3>3, <3>4
  <2>5. CASE k \notin New(unpublished, request)
    <3>1. PICK j \in Found(unpublished, request[k]) :
            Identifier(unpublished, copies, request, k) = unpublished[j].id
      BY <2>3, <2>5, IdentifierOfFound
    <3>2. /\ j \in Private(unpublished)
          /\ unpublished[j].hero = request[k].hero /\ unpublished[j].mark = request[k].path
      BY <3>1 DEF Found, Private
    <3> QED
      BY <1>4, <1>6, <2>2, <2>3, <3>1, <3>2
  <2> QED
    BY <2>4, <2>5
<1> QED
  BY <1>3, <1>6, <1>7, <1>8

\* A build that prepare_cache_update adds has an identity that neither the
\* section Unpublished nor the sections with copies hold; one that is installed
\* already keeps its identity.
THEOREM IdentitiesStayFresh == Spec => IdentitiesAreFresh
<1>1. IInv /\ [Next]_vars =>
        [Install =>
           \A i \in Private(unpublished') : unpublished'[i].id \in LocalIds =>
             \E j \in Private(unpublished) :
               /\ unpublished[j].id = unpublished'[i].id
               /\ unpublished[j].hero = unpublished'[i].hero
               /\ unpublished[j].mark = unpublished'[i].mark]_vars
  BY InstallIsFresh
<1> QED
  BY Invariance, <1>1, PTL DEF Spec, IdentitiesAreFresh

-----------------------------------------------------------------------------
(* What an installation leaves alone. *)

LEMMA UntouchedIsFilter ==
    ASSUME NEW values \in Seq(Values), NEW request
    PROVE  Untouched(values, request) = Filter(values, {v \in Values : OutOfScope(v, request)})
<1> DEFINE there == {v \in ToSet(values) : OutOfScope(v, request)}
           those == {v \in Values : OutOfScope(v, request)}
<1>1. \A i \in 1 .. Len(values) : values[i] \in there <=> values[i] \in those
  BY ValuesType DEF ToSet
<1> HIDE DEF there, those
<1>2. Filter(values, there) = Filter(values, those)
  BY <1>1, FilterAgrees
<1> QED
  BY <1>2 DEF Untouched, there, those

LEMMA PlannedKeepsOthers ==
    ASSUME NEW values, NEW kept, NEW request \in Requests, NEW now \in Times,
           Typed(values), kept \in SUBSET Identities
    PROVE  Untouched(Planned(values, kept, request, now), request) = Untouched(values, request)
<1> DEFINE old    == Retained(values, request)
           new    == Replacement(values, kept, request, now)
           plan   == Planned(values, kept, request, now)
           others == {v \in Values : OutOfScope(v, request)}
<1>1. values \in Seq(Values)
  BY DEF Typed
<1>2. plan \in Seq(Values) /\ old \in Seq(Values) /\ new \in Seq(Values) /\ plan = old \o new
  BY PlannedParts DEF Planned
<1>3. Filter(new, others) = <<>>
  <2>1. DOMAIN new = 1 .. Len(new) /\ DOMAIN request = 1 .. Len(request) /\ Len(new) = Len(request)
    BY <1>2, ValuesType, RequestType, ReplacementType
  <2>2. \A k \in DOMAIN request : IsTarget(new[k], request)
    BY ReplacementType
  <2> HIDE DEF new
  <2>3. \A k \in 1 .. Len(new) : ~OutOfScope(new[k], request)
    BY <2>1, <2>2 DEF IsTarget, OutOfScope
  <2>4. \A k \in 1 .. Len(new) : new[k] \notin others
    BY <2>3
  <2> HIDE DEF others
  <2> QED
    BY <1>2, <2>4, FilterOfNone
<1>4. Filter(old, others) = Filter(values, others)
  <2>1. NoTargets(request) \cap others = others
    BY DEF NoTargets, IsTarget, OutOfScope
  <2>2. old = Filter(values, NoTargets(request))
    BY <1>1, RetainedIsFilter
  <2> HIDE DEF others
  <2>3. Filter(Filter(values, NoTargets(request)), others)
           = Filter(values, NoTargets(request) \cap others)
    BY <1>1, FilterOfFilter
  <2> QED
    BY <2>1, <2>2, <2>3
<1>5. Untouched(plan, request) = Filter(plan, others)
  BY <1>2, UntouchedIsFilter
<1>6. Untouched(values, request) = Filter(values, others)
  BY <1>1, UntouchedIsFilter
<1> HIDE DEF old, new, plan, others
<1>7. Filter(plan, others) = Filter(old, others) \o Filter(new, others)
  BY <1>2, FilterOfConcat
<1>8. Filter(old, others) \o <<>> = Filter(old, others)
  BY <1>2, FilterType, ConcatEmptySeq
<1>9. Filter(plan, others) = Filter(values, others)
  BY <1>3, <1>4, <1>7, <1>8
<1> QED
  BY <1>5, <1>6, <1>9 DEF plan

\* README.md:40, "It replaces only builds with the managed marker", and
\* cache_status.rs:22, "Installation keeps the managed builds of other heroes":
\* for sections and requests of any length, an installation leaves all of these
\* and all entries without marker as they are, in their order.
THEOREM OnlyManagedGoes == Spec => OnlyManagedReplaced
<1>1. ASSUME IInv, Install
      PROVE  Untouched(unpublished', current') = Untouched(unpublished, current')
  <2>1. PICK request \in Requests, now \in Clock :
          /\ unpublished' = Planned(unpublished, copies, request, now)
          /\ current' = request
    BY <1>1 DEF Install
  <2>2. now \in Times /\ Typed(unpublished) /\ copies \in SUBSET Identities
    BY <1>1, ClockAssumption DEF IInv
  <2> QED
    BY <2>1, <2>2, PlannedKeepsOthers
<1>2. IInv /\ [Next]_vars =>
        [Install => Untouched(unpublished', current') = Untouched(unpublished, current')]_vars
  BY <1>1
<1> QED
  BY Invariance, <1>2, PTL DEF Spec, OnlyManagedReplaced

-----------------------------------------------------------------------------
(* Installing again. *)

\* When status can compare, or right after an installation, each requested build
\* has one entry; nothing then keeps an installation from succeeding.
LEMMA SucceedsWhenFound ==
    ASSUME NEW values, NEW kept, NEW request \in Requests, NEW now \in Times,
           Typed(values), Distinct(values), kept \in SUBSET Identities,
           \A k \in DOMAIN request : \E i : Found(values, request[k]) = {i}
    PROVE  Succeeds(values, kept, request, now) /\ New(values, request) = {}
<1>1. New(values, request) = {}
  <2>1. \A k \in DOMAIN request : Found(values, request[k]) # {}
    OBVIOUS
  <2> QED
    BY <2>1 DEF New
<1>2. \A i \in Existing(values, request) : i \in Private(values) /\ values[i].id \in Identities
  BY DEF Existing, Found, Private, Typed
<1>3. ScanSucceeds(values, request)
  <2>1. ASSUME NEW k \in DOMAIN request PROVE Cardinality(Found(values, request[k])) <= 1
    <3>1. PICK i : Found(values, request[k]) = {i}
      OBVIOUS
    <3>2. Cardinality({i}) = 1
      BY FS_Singleton
    <3> QED
      BY <3>1, <3>2
  <2> QED
    BY <1>2, <2>1 DEF ScanSucceeds, Distinct, Identities
<1>4. IdentifiersAreDistinct(values, request)
  BY <1>2 DEF IdentifiersAreDistinct, Distinct
<1>5. IdentifiersSuffice(values, kept, request)
  BY <1>1 DEF IdentifiersSuffice
<1>6. Retained(Planned(values, kept, request, now), request) = Retained(values, request)
  <2> DEFINE new == Replacement(values, kept, request, now)
  <2>1. /\ new \in Seq(Values) /\ Len(new) = Len(request)
        /\ \A k \in DOMAIN request : IsTarget(new[k], request)
    BY ReplacementType
  <2>2. DOMAIN new = DOMAIN request
    BY <2>1, ValuesType, RequestType
  <2> HIDE DEF new
  <2>3. Retained(Retained(values, request) \o new, request) = Retained(values, request)
    BY <2>1, <2>2, RetainedAgain DEF Typed
  <2> QED
    BY <2>3 DEF Planned, new
<1> QED
  BY <1>1, <1>3, <1>4, <1>5, <1>6 DEF Succeeds

LEMMA FoundWhereInstalled ==
    ASSUME NEW values \in Seq(Values), NEW request \in Requests, NEW n \in Nat,
           Holds(values, request, n), NEW k \in DOMAIN request
    PROVE  n + k \in DOMAIN values /\ Found(values, request[k]) = {n + k}
<1>1. /\ Len(values) = n + Len(request) /\ DOMAIN values = 1 .. Len(values)
      /\ DOMAIN request = 1 .. Len(request) /\ Len(request) \in Nat
  BY ValuesType, RequestType DEF Holds
<1>2. n + k \in DOMAIN values
  BY <1>1
<1>3. n + k \in Found(values, request[k])
  BY <1>2 DEF Found, Holds
<1>4. ASSUME NEW i \in Found(values, request[k]) PROVE i = n + k
  <2>1. i \in DOMAIN values /\ IsTarget(values[i], request)
    BY FoundIsTarget
  <2>2. i \notin 1 .. n
    BY <2>1 DEF Holds
  <2> DEFINE l == i - n
  <2>3. l \in DOMAIN request /\ i = n + l
    BY <1>1, <2>1, <2>2
  <2> HIDE DEF l
  <2>4. values[i].hero = request[l].hero /\ values[i].mark = request[l].path
    BY <2>3 DEF Holds
  <2>5. values[i].hero = request[k].hero /\ values[i].mark = request[k].path
    BY <1>4 DEF Found
  <2>6. l = k
    BY <2>3, <2>4, <2>5, RequestType
  <2> QED
    BY <2>3, <2>6
<1> QED
  BY <1>2, <1>3, <1>4

LEMMA ReplacementOfInstalled ==
    ASSUME NEW values, NEW kept, NEW request \in Requests, NEW now \in Times,
           NEW n \in Nat, Typed(values), kept \in SUBSET Identities, Holds(values, request, n),
           NEW k \in DOMAIN request
    PROVE  Replacement(values, kept, request, now)[k] = values[n + k]
<1> DEFINE blob == Blob(request[k], Identifier(values, kept, request, k), now)
           same == {i \in Found(values, request[k]) : SameBuildContent(values[i], blob)}
<1>1. n + k \in DOMAIN values /\ Found(values, request[k]) = {n + k}
  BY FoundWhereInstalled DEF Typed
<1>2. Identifier(values, kept, request, k) = values[n + k].id
  <2>1. k \in DOMAIN request \ New(values, request)
    BY <1>1 DEF New
  <2> QED
    BY <1>1, <2>1, IdentifierOfFound
<1>3. values[n + k] \in Values
  BY <1>1, ValuesType DEF Typed
<1>4. /\ values[n + k].author = "player" /\ values[n + k].hero = request[k].hero
      /\ values[n + k].mark = request[k].path /\ values[n + k].content = request[k].content
  BY DEF Holds
<1>5. SameBuildContent(values[n + k], blob)
  <2> DEFINE v == values[n + k]
  <2>1. v \in Values /\ v.author = "player" /\ v.hero = request[k].hero
        /\ v.mark = request[k].path /\ v.content = request[k].content
        /\ Identifier(values, kept, request, k) = v.id
    BY <1>2, <1>3, <1>4
  <2> HIDE DEF v
  <2>2. [v EXCEPT !.time = blob.time]
           = [author |-> v.author, id |-> v.id, hero |-> v.hero, mark |-> v.mark,
              content |-> v.content, time |-> now]
    BY <2>1 DEF Values, Blob
  <2>3. [v EXCEPT !.time = blob.time] = blob
    BY <2>1, <2>2 DEF Blob
  <2> QED
    BY <2>3 DEF SameBuildContent, v
<1>6. same = {n + k}
  BY <1>1, <1>5
<1>7. Replacement(values, kept, request, now)[k]
         = IF same # {} THEN values[CHOOSE i \in same : TRUE] ELSE blob
  BY DEF Replacement
<1> HIDE DEF same
<1> QED
  BY <1>6, <1>7

LEMMA InstalledAgain ==
    ASSUME NEW values, NEW kept, NEW request \in Requests, NEW now \in Times,
           Typed(values), Distinct(values), kept \in SUBSET Identities,
           Installed(values, request)
    PROVE  /\ Succeeds(values, kept, request, now)
           /\ Planned(values, kept, request, now) = values
<1>1. PICK n \in Nat : Holds(values, request, n)
  BY DEF Installed
<1>2. values \in Seq(Values)
  BY DEF Typed
<1>3. Succeeds(values, kept, request, now)
  <2>1. ASSUME NEW k \in DOMAIN request PROVE \E i : Found(values, request[k]) = {i}
    <3>1. Found(values, request[k]) = {n + k}
      BY <1>1, <1>2, FoundWhereInstalled
    <3> QED
      BY <3>1
  <2> QED
    BY <2>1, SucceedsWhenFound
<1>4. /\ Len(values) = n + Len(request) /\ Len(request) \in Nat /\ DOMAIN values = 1 .. Len(values)
      /\ \A i \in 1 .. Len(values) : values[i] \in Values
      /\ DOMAIN request = 1 .. Len(request)
  BY <1>1, <1>2, ValuesType, RequestType DEF Holds
<1> DEFINE first == SubSeq(values, 1, n)
           rest  == SubSeq(values, n + 1, Len(values))
<1>5. /\ first \in Seq(Values) /\ Len(first) = n
      /\ \A i \in 1 .. n : first[i] = values[i]
  <2>1. /\ first \in Seq(Values) /\ Len(first) = IF 1 <= n THEN n - 1 + 1 ELSE 0
        /\ \A i \in 1 .. n - 1 + 1 : first[i] = values[1 + i - 1]
    BY <1>4, SubSeqProperties
  <2> QED
    BY <1>4, <2>1
<1>6. /\ rest \in Seq(Values) /\ Len(rest) = Len(request)
      /\ \A k \in DOMAIN request : rest[k] = values[n + k]
  <2>1. /\ rest \in Seq(Values)
        /\ Len(rest) = IF n + 1 <= Len(values) THEN Len(values) - (n + 1) + 1 ELSE 0
        /\ \A i \in 1 .. Len(values) - (n + 1) + 1 : rest[i] = values[(n + 1) + i - 1]
    BY <1>4, SubSeqProperties
  <2> QED
    BY <1>4, <2>1, SMTT(60)
<1> HIDE DEF first, rest
<1>7. values = first \o rest
  <2> DEFINE both == first \o rest
  <2>1. /\ both \in Seq(Values) /\ Len(both) = Len(first) + Len(rest)
        /\ \A i \in 1 .. Len(first) + Len(rest) :
             both[i] = IF i <= Len(first) THEN first[i] ELSE rest[i - Len(first)]
    <3>0. first \in Seq(Values) /\ rest \in Seq(Values)
      BY <1>5, <1>6
    <3>1. /\ first \o rest \in Seq(Values) /\ Len(first \o rest) = Len(first) + Len(rest)
          /\ \A i \in 1 .. Len(first) + Len(rest) :
               (first \o rest)[i] = IF i <= Len(first) THEN first[i] ELSE rest[i - Len(first)]
      BY <3>0, ConcatProperties
    <3>2. both = first \o rest
      OBVIOUS
    <3> HIDE DEF both
    <3> QED
      BY <3>1, <3>2
  <2> HIDE DEF both
  <2>2. ASSUME NEW i \in 1 .. Len(values) PROVE both[i] = values[i]
    <3>1. CASE i <= n
      BY <1>4, <1>5, <1>6, <2>1, <3>1
    <3>2. CASE ~(i <= n)
      <4>1. i - n \in DOMAIN request /\ n + (i - n) = i
        BY <1>4, <3>2
      <4> QED
        BY <1>4, <1>5, <1>6, <2>1, <3>2, <4>1, SMTT(60)
    <3> QED
      BY <3>1, <3>2
  <2>3. Len(both) = Len(values)
    BY <1>4, <1>5, <1>6, <2>1
  <2>4. both = values
    BY <1>2, <2>1, <2>2, <2>3, SeqEqual
  <2> QED
    BY <2>4 DEF both
<1>8. Retained(values, request) = first
  <2> DEFINE no == NoTargets(request)
  <2>1. Retained(values, request) = Filter(values, no)
    BY <1>2, RetainedIsFilter
  <2>2. \A i \in 1 .. Len(first) : first[i] \in no
    BY <1>1, <1>4, <1>5 DEF Holds, NoTargets
  <2>3. \A k \in 1 .. Len(rest) : rest[k] \notin no
    <3> SUFFICES ASSUME NEW k \in DOMAIN request PROVE IsTarget(rest[k], request)
      BY <1>4, <1>6 DEF NoTargets
    <3>1. n + k \in Found(values, request[k])
      BY <1>1, <1>2, FoundWhereInstalled
    <3>2. IsTarget(values[n + k], request)
      BY <1>2, <3>1, FoundIsTarget
    <3> QED
      BY <1>6, <3>2
  <2> HIDE DEF no
  <2>4. Filter(first, no) = first /\ Filter(rest, no) = <<>>
    BY <1>5, <1>6, <2>2, <2>3, FilterOfAll, FilterOfNone
  <2>5. Filter(first \o rest, no) = Filter(first, no) \o Filter(rest, no)
    BY <1>5, <1>6, FilterOfConcat
  <2>6. first \o <<>> = first
    BY <1>5, ConcatEmptySeq
  <2> QED
    BY <1>7, <2>1, <2>4, <2>5, <2>6
<1>9. Replacement(values, kept, request, now) = rest
  <2> DEFINE new == Replacement(values, kept, request, now)
  <2>1. new \in Seq(Values) /\ Len(new) = Len(request)
    BY ReplacementType
  <2>2. \A k \in DOMAIN request : new[k] = values[n + k]
    BY <1>1, ReplacementOfInstalled
  <2> HIDE DEF new
  <2>3. new = rest
    BY <1>4, <1>6, <2>1, <2>2, SeqEqual
  <2> QED
    BY <2>3 DEF new
<1>10. Planned(values, kept, request, now) = values
  BY <1>7, <1>8, <1>9 DEF Planned
<1> QED
  BY <1>3, <1>10

\* Repeating an installation, at any time and whatever became a favorite since,
\* succeeds and plans the very document it finds: no backup, no write.
THEOREM InstallsAreIdempotent == Spec => []InstallIsIdempotent
<1>1. IInv => InstallIsIdempotent
  <2> SUFFICES ASSUME IInv, current # <<>>, NEW now \in Times
               PROVE  /\ Succeeds(unpublished, copies, current, now)
                      /\ Planned(unpublished, copies, current, now) = unpublished
    BY DEF InstallIsIdempotent
  <2>1. current \in Requests /\ Installed(unpublished, current)
    BY DEF IInv
  <2>2. Typed(unpublished) /\ Distinct(unpublished) /\ copies \in SUBSET Identities
    BY DEF IInv
  <2> QED
    BY <2>1, <2>2, InstalledAgain
<1> QED
  BY Invariance, <1>1, PTL

\* Between an installation and the next change of the player,
\* compare_managed_builds calls the catalog current, whatever else the section
\* holds: only malformed bytes and repeated builds of heroes outside the request
\* keep it from comparing.
THEOREM InstalledStaysCurrent == Spec => []InstalledIsCurrent
<1>1. IInv => InstalledIsCurrent
  <2> SUFFICES ASSUME IInv, current # <<>>, ~Spoiled(unpublished, current)
               PROVE  IsCurrent(unpublished, current)
    BY DEF InstalledIsCurrent
  <2>1. current \in Requests /\ unpublished \in Seq(Values)
    BY DEF IInv, Typed
  <2>2. PICK n \in Nat : Holds(unpublished, current, n)
    BY DEF IInv, Installed
  <2>3. ASSUME NEW k \in DOMAIN current PROVE Found(unpublished, current[k]) # {}
    <3>1. Found(unpublished, current[k]) = {n + k}
      BY <2>1, <2>2, FoundWhereInstalled
    <3> QED
      BY <3>1
  <2>4. ASSUME NEW i \in Targets(unpublished, current)
        PROVE  \E k \in DOMAIN current :
                 /\ i = n + k
                 /\ unpublished[i].hero = current[k].hero /\ unpublished[i].mark = current[k].path
                 /\ unpublished[i].content = current[k].content
    <3>1. /\ Len(unpublished) = n + Len(current) /\ Len(current) \in Nat
          /\ DOMAIN unpublished = 1 .. Len(unpublished)
          /\ DOMAIN current = 1 .. Len(current)
      BY <2>1, <2>2, ValuesType, RequestType DEF Holds
    <3>2. i \in DOMAIN unpublished /\ i \notin 1 .. n
      BY <2>2 DEF Targets, Holds
    <3> DEFINE k == i - n
    <3>3. k \in DOMAIN current /\ i = n + k
      BY <3>1, <3>2
    <3> HIDE DEF k
    <3>4. /\ unpublished[i].hero = current[k].hero /\ unpublished[i].mark = current[k].path
          /\ unpublished[i].content = current[k].content
      BY <2>2, <3>3 DEF Holds
    <3> QED
      BY <3>3, <3>4
  <2>5. ASSUME NEW i \in Targets(unpublished, current) PROVE Covers(current, unpublished[i])
    BY <2>4 DEF Covers
  <2>6. Comparable(unpublished)
    <3>1. ASSUME NEW i \in Identified(unpublished), NEW j \in Identified(unpublished),
                 Repeated(unpublished, i, j)
          PROVE  FALSE
      <4>1. /\ i # j /\ unpublished[i].hero = unpublished[j].hero
            /\ unpublished[i].mark = unpublished[j].mark
        BY <3>1 DEF Repeated
      <4>2. CASE i \in Targets(unpublished, current)
        <5>1. j \in Targets(unpublished, current)
          BY <4>1, <4>2, PathsAssumption DEF Identified, Targets, IsTarget
        <5>2. PICK k \in DOMAIN current :
                /\ i = n + k
                /\ unpublished[i].hero = current[k].hero
                /\ unpublished[i].mark = current[k].path
          BY <2>4, <4>2
        <5>3. PICK l \in DOMAIN current :
                /\ j = n + l
                /\ unpublished[j].hero = current[l].hero
                /\ unpublished[j].mark = current[l].path
          BY <2>4, <5>1
        <5>4. k = l
          BY <2>1, <4>1, <5>2, <5>3, RequestType
        <5> QED
          BY <4>1, <5>2, <5>3, <5>4
      <4>3. CASE i \notin Targets(unpublished, current)
        <5>1. j \notin Targets(unpublished, current)
          BY <4>1, <4>3, PathsAssumption DEF Identified, Targets, IsTarget
        <5> QED
          BY <3>1, <4>3, <5>1 DEF Spoiled
      <4> QED
        BY <4>2, <4>3
    <3>2. \A i \in DOMAIN unpublished : unpublished[i].author # "malformed"
      BY DEF Spoiled
    <3> QED
      BY <3>1, <3>2 DEF Comparable
  <2> QED
    BY <2>3, <2>5, <2>6 DEF IsCurrent
<1> QED
  BY Invariance, <1>1, PTL

LEMMA CurrentWouldSucceed ==
    ASSUME IInv, NEW request \in Requests, NEW now \in Times, IsCurrent(unpublished, request)
    PROVE  /\ Succeeds(unpublished, copies, request, now)
           /\ New(unpublished, request) = {}
           /\ \A i \in Targets(unpublished, request) \cap Identified(unpublished) :
                \E v \in ToSet(Replacement(unpublished, copies, request, now)) :
                    /\ v.id = unpublished[i].id
                    /\ Shown[v.content] = Shown[unpublished[i].content]
<1>1. Typed(unpublished) /\ Distinct(unpublished) /\ copies \in SUBSET Identities
  BY DEF IInv
<1>2. ASSUME NEW k \in DOMAIN request, NEW i \in Found(unpublished, request[k])
      PROVE  i \in Identified(unpublished) /\ Found(unpublished, request[k]) = {i}
  <2>1. request[k].path \in Paths
    BY RequestType DEF Wanted
  <2>2. \A j \in Found(unpublished, request[k]) : j \in Identified(unpublished)
    BY <2>1 DEF Found, Identified
  <2>3. \A j \in Found(unpublished, request[k]) : j = i
    BY <2>2 DEF IsCurrent, Comparable, Repeated, Found
  <2> QED
    BY <2>2, <2>3
<1>3. \A k \in DOMAIN request : \E i : Found(unpublished, request[k]) = {i}
  BY <1>2 DEF IsCurrent
<1>4. Succeeds(unpublished, copies, request, now) /\ New(unpublished, request) = {}
  BY <1>1, <1>3, SucceedsWhenFound
<1>5. ASSUME NEW i \in Targets(unpublished, request) \cap Identified(unpublished)
      PROVE  \E v \in ToSet(Replacement(unpublished, copies, request, now)) :
               /\ v.id = unpublished[i].id
               /\ Shown[v.content] = Shown[unpublished[i].content]
  <2> DEFINE new == Replacement(unpublished, copies, request, now)
  <2>1. Covers(request, unpublished[i])
    BY DEF IsCurrent
  <2>2. PICK k \in DOMAIN request :
          /\ unpublished[i].hero = request[k].hero /\ unpublished[i].mark = request[k].path
          /\ Shown[unpublished[i].content] = Shown[request[k].content]
    BY <2>1 DEF Covers
  <2>3. i \in Found(unpublished, request[k])
    BY <2>2 DEF Found, Targets, IsTarget
  <2>4. Identifier(unpublished, copies, request, k) = unpublished[i].id
    <3>1. k \in DOMAIN request \ New(unpublished, request)
      BY <1>4
    <3>2. Found(unpublished, request[k]) = {i}
      BY <1>2, <2>3
    <3> QED
      BY <3>1, <3>2, IdentifierOfFound
  <2>5. /\ new \in Seq(Values) /\ Len(new) = Len(request)
        /\ new[k].content = request[k].content
        /\ new[k].id = Identifier(unpublished, copies, request, k)
    BY <1>1, ReplacementType
  <2> HIDE DEF new
  <2>6. new[k] \in ToSet(new)
    BY <2>5, ValuesType, RequestType DEF ToSet
  <2>7. new[k].id = unpublished[i].id /\ Shown[new[k].content] = Shown[unpublished[i].content]
    BY <2>2, <2>4, <2>5
  <2> QED
    BY <2>6, <2>7 DEF new
<1> QED
  BY <1>4, <1>5

\* When compare_managed_builds says "current", prepare_cache_update would succeed
\* for that catalog, add nothing and leave each build of the catalog its identity
\* and what it shows; titles and times may change, and builds of earlier versions
\* may go.
THEOREM CurrentStaysInstalled == Spec => []CurrentIsInstalled
<1>1. IInv => CurrentIsInstalled
  BY CurrentWouldSucceed DEF CurrentIsInstalled
<1> QED
  BY Invariance, <1>1, PTL

\* The subtraction of the reported counts never goes below zero: each requested
\* build that is not new has an entry of its own among the targets.
LEMMA TargetsSuffice ==
    ASSUME NEW values \in Seq(Values), NEW request \in Requests
    PROVE  /\ Cardinality(Targets(values, request)) \in Nat
           /\ Created(values, request) \in Nat
           /\ Cardinality(Targets(values, request)) >= Len(request) - Created(values, request)
<1> DEFINE known == DOMAIN request \ New(values, request)
           targets == Targets(values, request)
           f == [k \in known |-> CHOOSE i \in Found(values, request[k]) : TRUE]
<1>1. /\ IsFiniteSet(DOMAIN request) /\ Cardinality(DOMAIN request) = Len(request)
      /\ Len(request) \in Nat
  <2> DEFINE n == Len(request)
  <2>1. DOMAIN request = 1 .. n /\ n \in Nat /\ n # 0
    BY RequestType
  <2> HIDE DEF n
  <2>2. IsFiniteSet(1 .. n) /\ Cardinality(1 .. n) = IF 1 > n THEN 0 ELSE n - 1 + 1
    BY <2>1, FS_Interval
  <2> QED
    BY <2>1, <2>2 DEF n
<1>2. /\ New(values, request) \in SUBSET DOMAIN request
      /\ DOMAIN request \cap New(values, request) = New(values, request)
  BY DEF New
<1>3. IsFiniteSet(New(values, request)) /\ Created(values, request) \in Nat
  BY <1>1, <1>2, FS_Subset, FS_CardinalityType DEF Created
<1>4. Cardinality(known) = Len(request) - Created(values, request)
  <2>1. Cardinality(known)
          = Cardinality(DOMAIN request) - Cardinality(DOMAIN request \cap New(values, request))
    BY <1>1, FS_Difference
  <2> QED
    BY <1>1, <1>2, <2>1 DEF Created
<1>5. IsFiniteSet(targets) /\ Cardinality(targets) \in Nat
  <2>1. DOMAIN values = 1 .. Len(values) /\ Len(values) \in Nat
    BY ValuesType
  <2>2. IsFiniteSet(DOMAIN values)
    BY <2>1, FS_Interval
  <2>3. targets \in SUBSET DOMAIN values
    BY DEF Targets
  <2> HIDE DEF targets
  <2> QED
    BY <2>2, <2>3, FS_Subset, FS_CardinalityType
<1>6. ASSUME NEW k \in known PROVE f[k] \in Found(values, request[k]) /\ f[k] \in targets
  <2>1. Found(values, request[k]) # {}
    BY DEF New
  <2>2. f[k] \in Found(values, request[k])
    BY <2>1
  <2> HIDE DEF f
  <2> QED
    BY <2>2, FoundIsTarget
<1>7. f \in [known -> targets]
  BY <1>6
<1>8. \A k, l \in known : f[k] = f[l] => k = l
  <2> HIDE DEF f
  <2> QED
    BY <1>6, RequestType DEF Found
<1> HIDE DEF f, known, targets
<1>9. f \in Injection(known, targets)
  <2>1. DOMAIN f = known
    BY <1>7
  <2> QED
    BY <1>7, <1>8, <2>1 DEF Injection, IsInjective
<1>10. Cardinality(known) <= Cardinality(targets)
  BY <1>5, <1>9, FS_Injection
<1> QED
  BY <1>1, <1>3, <1>4, <1>5, <1>10 DEF targets

\* The counts an installation reports are exact for any document and request: the
\* unsigned difference never wraps.
THEOREM CountsStayExact == Spec => []CountsAddUp
<1>1. IInv => CountsAddUp
  <2> SUFFICES ASSUME IInv, NEW request \in Requests
               PROVE  /\ Removed(unpublished, request) >= 0
                      /\ Cardinality(Targets(unpublished, request)) + Created(unpublished, request)
                           - Removed(unpublished, request) = Len(request)
    BY DEF CountsAddUp
  <2> DEFINE t == Cardinality(Targets(unpublished, request))
             c == Created(unpublished, request)
  <2>1. t \in Nat /\ c \in Nat /\ t >= Len(request) - c
    BY TargetsSuffice DEF IInv, Typed
  <2>2. Len(request) \in Nat
    BY RequestType
  <2>3. Removed(unpublished, request) = t - (Len(request) - c)
    BY DEF Removed
  <2> HIDE DEF t, c
  <2>4. Removed(unpublished, request) >= 0 /\ t + c - Removed(unpublished, request) = Len(request)
    BY <2>1, <2>2, <2>3
  <2> QED
    BY <2>4 DEF t, c
<1> QED
  BY Invariance, <1>1, PTL

-----------------------------------------------------------------------------
(* Binary KeyValues3. The writer and the reader of the model keep the values they
   are in as stacks of open calls. Side by side, step by step, what the reader
   keeps of them is what the writer keeps, and what the streams of the reader
   still hold is what the encoder writes from there on. *)

-----------------------------------------------------------------------------
(* Streams. What is left of t behind s, of which t is a continuation. *)

\* t begins with s, and what is left of t behind s
Continues(s, t) == Len(s) <= Len(t) /\ \A i \in 1..Len(s) : t[i] = s[i]
Left(s, t) == SubSeq(t, Len(s) + 1, Len(t))

\* What is left of a stream behind a beginning of it.
LEMMA LeftIs ==
    ASSUME NEW S, NEW s \in Seq(S), NEW t \in Seq(S), Continues(s, t)
    PROVE  /\ Left(s, t) \in Seq(S)
           /\ Len(Left(s, t)) = Len(t) - Len(s)
           /\ \A i \in 1..(Len(t) - Len(s)) : Left(s, t)[i] = t[Len(s) + i]
  BY SubSeqProperties, LenProperties, ElementOfSeq DEF Left, Continues

\* A stream continues itself, and nothing is left behind the whole of it.
LEMMA ContinuesItself ==
    ASSUME NEW S, NEW s \in Seq(S)
    PROVE  Continues(s, s) /\ Left(s, s) = <<>>
  BY LenProperties, SubSeqEmpty DEF Continues, Left

\* What continues a continuation of a stream continues the stream.
LEMMA ContinuesFurther ==
    ASSUME NEW S, NEW s \in Seq(S), NEW t \in Seq(S), NEW u \in Seq(S),
           Continues(s, t), Continues(t, u)
    PROVE  Continues(s, u)
  BY LenProperties DEF Continues

\* A stream with one element more continues it.
LEMMA ContinuesAppend ==
    ASSUME NEW S, NEW s \in Seq(S), NEW x \in S
    PROVE  Continues(s, Append(s, x))
  BY AppendProperties, LenProperties DEF Continues

\* A stream with more behind it continues it.
LEMMA ContinuesConcat ==
    ASSUME NEW S, NEW s \in Seq(S), NEW t \in Seq(S)
    PROVE  Continues(s, s \o t)
<1>1. Len(s) \in Nat /\ Len(t) \in Nat
  BY LenProperties
<1> QED
  BY <1>1, ConcatProperties DEF Continues

\* What is left begins with the element that is added next.
LEMMA LeftOfAppend ==
    ASSUME NEW S, NEW s \in Seq(S), NEW x \in S, NEW t \in Seq(S), Continues(Append(s, x), t)
    PROVE  /\ Continues(s, t)
           /\ Left(s, t)[1] = x
           /\ Len(Left(s, t)) = Len(Left(Append(s, x), t)) + 1
           /\ \A i \in 1..Len(Left(Append(s, x), t)) :
                 Left(s, t)[i + 1] = Left(Append(s, x), t)[i]
<1>1. Append(s, x) \in Seq(S) /\ Len(Append(s, x)) = Len(s) + 1 /\ Append(s, x)[Len(s) + 1] = x
      /\ \A i \in 1..Len(s) : Append(s, x)[i] = s[i]
  BY AppendProperties
<1>2. Len(s) \in Nat /\ Len(t) \in Nat
  BY LenProperties
<1>3. Continues(s, t)
  BY <1>1, <1>2 DEF Continues
<1>4. /\ Len(Left(s, t)) = Len(t) - Len(s)
      /\ \A i \in 1..(Len(t) - Len(s)) : Left(s, t)[i] = t[Len(s) + i]
  BY <1>3, LeftIs
<1>5. /\ Len(Left(Append(s, x), t)) = Len(t) - (Len(s) + 1)
      /\ \A i \in 1..(Len(t) - (Len(s) + 1)) : Left(Append(s, x), t)[i] = t[Len(s) + 1 + i]
  <2> DEFINE u == Append(s, x)
  <2>1. u \in Seq(S) /\ Len(u) = Len(s) + 1 /\ Continues(u, t)
    BY <1>1
  <2> HIDE DEF u
  <2>2. /\ Len(Left(u, t)) = Len(t) - Len(u)
        /\ \A i \in 1..(Len(t) - Len(u)) : Left(u, t)[i] = t[Len(u) + i]
    BY <2>1, LeftIs
  <2>3. /\ Len(Left(u, t)) = Len(t) - (Len(s) + 1)
        /\ \A i \in 1..(Len(t) - (Len(s) + 1)) : Left(u, t)[i] = t[Len(s) + 1 + i]
    BY <2>1, <2>2
  <2> QED
    BY <2>3 DEF u
<1>6. t[Len(s) + 1] = x /\ Len(s) + 1 <= Len(t)
  BY <1>1, <1>2 DEF Continues
<1> QED
  BY <1>2, <1>3, <1>4, <1>5, <1>6, SMTT(60)

\* Taking the element that is added next leaves what is left behind it.
LEMMA TailOfLeft ==
    ASSUME NEW S, NEW s \in Seq(S), NEW x \in S, NEW t \in Seq(S), Continues(Append(s, x), t)
    PROVE  Left(s, t) # <<>> /\ Left(s, t)[1] = x /\ Tail(Left(s, t)) = Left(Append(s, x), t)
<1> DEFINE a == Left(s, t)  b == Left(Append(s, x), t)
<1>1. /\ Continues(s, t) /\ a[1] = x /\ Len(a) = Len(b) + 1
      /\ \A i \in 1..Len(b) : a[i + 1] = b[i]
  BY LeftOfAppend
<1>2. a \in Seq(S) /\ b \in Seq(S)
  BY <1>1, LeftIs, AppendProperties
<1>3. Len(b) \in Nat /\ a # <<>>
  BY <1>1, <1>2, LenProperties, EmptySeq
<1> HIDE DEF a, b
<1>4. Tail(a) \in Seq(S) /\ Len(Tail(a)) = Len(a) - 1 /\ \A i \in 1..Len(Tail(a)) : Tail(a)[i] = a[i + 1]
  BY <1>2, <1>3, HeadTailProperties
<1>5. Tail(a) = b
  BY <1>1, <1>2, <1>3, <1>4, SeqEqual, SMTT(60)
<1> QED
  BY <1>1, <1>3, <1>5 DEF a, b

\* What a stream holds of a number: its width and its value, once per number
Cells == Int \X Int

\* The cells of a stream of bytes, and the bytes they hold.
LEMMA BytesAre ==
    ASSUME NEW n \in Seq(Int)
    PROVE  /\ Bytes(n) \in Seq(Cells) /\ Len(Bytes(n)) = Len(n)
           /\ \A i \in 1..Len(n) : Bytes(n)[i] = <<1, n[i]>>
           /\ ByteValues(Bytes(n)) = n
<1>1. Len(n) \in Nat /\ DOMAIN n = 1..Len(n) /\ \A i \in 1..Len(n) : n[i] \in Int
  BY LenProperties, ElementOfSeq
<1>2. Bytes(n) = [i \in 1..Len(n) |-> <<1, n[i]>>]
  BY <1>1 DEF Bytes, Byte
<1>3. Bytes(n) \in [1..Len(n) -> Cells]
  BY <1>1, <1>2 DEF Cells
<1>4. Bytes(n) \in Seq(Cells) /\ Len(Bytes(n)) = Len(n) /\ DOMAIN Bytes(n) = 1..Len(n)
  BY <1>1, <1>3
<1>5. ByteValues(Bytes(n)) = [i \in 1..Len(n) |-> n[i]]
  BY <1>2, <1>4 DEF ByteValues
<1>6. n = [i \in 1..Len(n) |-> n[i]]
  BY LenProperties
<1> QED
  BY <1>2, <1>4, <1>5, <1>6

\* The cells of a stream of numbers of w bytes.
LEMMA NumbersAre ==
    ASSUME NEW n \in Seq(Int), NEW w \in {4, 8}
    PROVE  /\ Numbers(w, n) \in Seq(Cells) /\ Len(Numbers(w, n)) = w * Len(n)
           /\ \A i \in 1..(w * Len(n)) :
                 Numbers(w, n)[i] = IF i % w = 1 THEN <<w, n[i \div w + 1]>> ELSE <<0, 0>>
<1>1. Len(n) \in Nat /\ \A i \in 1..Len(n) : n[i] \in Int
  BY LenProperties, ElementOfSeq
<1>2. \A i \in 1..(w * Len(n)) : i % w = 1 => i \div w + 1 \in 1..Len(n)
  <2>1. CASE w = 4
    BY <1>1, <2>1
  <2>2. CASE w = 8
    BY <1>1, <2>2
  <2> QED
    BY <2>1, <2>2
<1>3. w * Len(n) \in Nat /\ w \in Int
  BY <1>1
<1>4. Numbers(w, n) \in [1..(w * Len(n)) -> Cells]
  <2>1. \A i \in 1..(w * Len(n)) :
           (IF i % w = 1 THEN <<w, n[i \div w + 1]>> ELSE <<0, 0>>) \in Cells
    <3> SUFFICES ASSUME NEW i \in 1..(w * Len(n))
                 PROVE  (IF i % w = 1 THEN <<w, n[i \div w + 1]>> ELSE <<0, 0>>) \in Cells
      OBVIOUS
    <3>1. i % w = 1 => n[i \div w + 1] \in Int
      BY <1>1, <1>2
    <3>2. i % w = 1 => <<w, n[i \div w + 1]>> \in Cells
      BY <1>3, <3>1 DEF Cells
    <3>3. <<0, 0>> \in Cells
      BY DEF Cells
    <3> QED
      BY <3>2, <3>3
  <2> QED
    BY <2>1 DEF Numbers
<1>5. Numbers(w, n) \in Seq(Cells) /\ Len(Numbers(w, n)) = w * Len(n)
  BY <1>3, <1>4
<1> QED
  BY <1>5 DEF Numbers

\* A byte is taken from a stream of them as it was added.
LEMMA ByteTaken ==
    ASSUME NEW s \in Seq(Int), NEW x \in Int, NEW t \in Seq(Int), Continues(Append(s, x), t)
    PROVE  /\ HasNumber(Bytes(Left(s, t)), 1)
           /\ Bytes(Left(s, t))[1] = <<1, x>>
           /\ Skip(Bytes(Left(s, t)), 1) = Bytes(Left(Append(s, x), t))
<1> DEFINE a == Left(s, t)  b == Left(Append(s, x), t)
<1>1. /\ Continues(s, t) /\ a[1] = x /\ Len(a) = Len(b) + 1
      /\ \A i \in 1..Len(b) : a[i + 1] = b[i]
  BY LeftOfAppend, SMTT(60)
<1>2. a \in Seq(Int) /\ b \in Seq(Int)
  BY <1>1, LeftIs, AppendProperties
<1>3. Len(b) \in Nat
  BY <1>2, LenProperties
<1> HIDE DEF a, b
<1>4. /\ Bytes(a) \in Seq(Cells) /\ Len(Bytes(a)) = Len(b) + 1
      /\ \A i \in 1..(Len(b) + 1) : Bytes(a)[i] = <<1, a[i]>>
      /\ Bytes(b) \in Seq(Cells) /\ Len(Bytes(b)) = Len(b)
      /\ \A i \in 1..Len(b) : Bytes(b)[i] = <<1, b[i]>>
  BY <1>1, <1>2, BytesAre
<1>5. /\ SubSeq(Bytes(a), 2, Len(b) + 1) \in Seq(Cells)
      /\ Len(SubSeq(Bytes(a), 2, Len(b) + 1)) = Len(b)
      /\ \A i \in 1..Len(b) : SubSeq(Bytes(a), 2, Len(b) + 1)[i] = Bytes(a)[i + 1]
  <2>1. \A i \in 2..(Len(b) + 1) : Bytes(a)[i] \in Cells
    BY <1>3, <1>4, ElementOfSeq
  <2> QED
    BY <1>3, <2>1, SubSeqProperties
<1>6. SubSeq(Bytes(a), 2, Len(b) + 1) = Bytes(b)
  <2> DEFINE m == SubSeq(Bytes(a), 2, Len(b) + 1)  n == Bytes(b)
  <2>1. m \in Seq(Cells) /\ n \in Seq(Cells) /\ Len(m) = Len(n) /\ Len(m) = Len(b)
    BY <1>4, <1>5
  <2>2. \A i \in 1..Len(b) : m[i] = n[i]
    <3> SUFFICES ASSUME NEW i \in 1..Len(b) PROVE m[i] = n[i]
      OBVIOUS
    <3>1. i + 1 \in 1..(Len(b) + 1)
      BY <1>3
    <3>2. Bytes(a)[i + 1] = <<1, a[i + 1]>>
      BY <1>4, <3>1
    <3> QED
      BY <1>1, <1>4, <1>5, <3>2
  <2> HIDE DEF m, n
  <2>3. m = n
    BY <2>1, <2>2, SeqEqual
  <2> QED
    BY <2>3 DEF m, n
<1>7. Bytes(a)[1] = <<1, x>>
  BY <1>1, <1>3, <1>4
<1> QED
  BY <1>3, <1>4, <1>6, <1>7 DEF HasNumber, Skip, a, b

\* A number is taken from a stream of them as it was added.
LEMMA NumberTaken ==
    ASSUME NEW s \in Seq(Int), NEW x \in Int, NEW t \in Seq(Int), Continues(Append(s, x), t),
           NEW w \in {4, 8}
    PROVE  /\ HasNumber(Numbers(w, Left(s, t)), w)
           /\ Numbers(w, Left(s, t))[1] = <<w, x>>
           /\ Skip(Numbers(w, Left(s, t)), w) = Numbers(w, Left(Append(s, x), t))
<1> DEFINE a == Left(s, t)  b == Left(Append(s, x), t)
<1>1. /\ Continues(s, t) /\ a[1] = x /\ Len(a) = Len(b) + 1
      /\ \A i \in 1..Len(b) : a[i + 1] = b[i]
  BY LeftOfAppend, SMTT(60)
<1>2. a \in Seq(Int) /\ b \in Seq(Int)
  BY <1>1, LeftIs, AppendProperties
<1>3. Len(b) \in Nat
  BY <1>2, LenProperties
<1> HIDE DEF a, b
<1> DEFINE m == Numbers(w, a)  n == Numbers(w, b)
<1>4. /\ m \in Seq(Cells) /\ Len(m) = w * Len(b) + w
      /\ \A i \in 1..(w * Len(b) + w) : m[i] = IF i % w = 1 THEN <<w, a[i \div w + 1]>> ELSE <<0, 0>>
  <2>1. w * Len(a) = w * Len(b) + w
    BY <1>1, <1>3
  <2> QED
    BY <1>2, <2>1, NumbersAre, ZenonT(60)
<1>5. /\ n \in Seq(Cells) /\ Len(n) = w * Len(b)
      /\ \A i \in 1..(w * Len(b)) : n[i] = IF i % w = 1 THEN <<w, b[i \div w + 1]>> ELSE <<0, 0>>
  BY <1>2, NumbersAre
<1> HIDE DEF m, n
<1>6. \A i \in 1..(w * Len(b)) : m[i + w] = n[i]
  <2> SUFFICES ASSUME NEW i \in 1..(w * Len(b)) PROVE m[i + w] = n[i]
    OBVIOUS
  <2>1. /\ (i + w) % w = i % w /\ (i + w) \div w = i \div w + 1
        /\ i % w = 1 => i \div w + 1 \in 1..Len(b)
        /\ i + w \in 1..(w * Len(b) + w) /\ i \div w \in Nat
    <3>1. CASE w = 4
      BY <1>3, <3>1
    <3>2. CASE w = 8
      BY <1>3, <3>2
    <3> QED
      BY <3>1, <3>2
  <2>2. m[i + w] = IF i % w = 1 THEN <<w, a[(i \div w + 1) + 1]>> ELSE <<0, 0>>
    BY <1>4, <2>1
  <2>3. n[i] = IF i % w = 1 THEN <<w, b[i \div w + 1]>> ELSE <<0, 0>>
    BY <1>5
  <2>4. i % w = 1 => a[(i \div w + 1) + 1] = b[i \div w + 1]
    BY <1>1, <2>1
  <2> QED
    BY <2>2, <2>3, <2>4
<1>7. /\ SubSeq(m, w + 1, Len(m)) \in Seq(Cells)
      /\ Len(SubSeq(m, w + 1, Len(m))) = w * Len(b)
      /\ \A i \in 1..(w * Len(b)) : SubSeq(m, w + 1, Len(m))[i] = m[i + w]
  <2>1. w * Len(b) \in Nat /\ w \in Nat
    BY <1>3
  <2>2. \A i \in (w + 1)..Len(m) : m[i] \in Cells
    BY <1>4, <2>1, ElementOfSeq
  <2>3. w + 1 \in Int /\ Len(m) \in Int
    BY <1>4, <2>1
  <2>4. /\ SubSeq(m, w + 1, Len(m)) \in Seq(Cells)
        /\ Len(SubSeq(m, w + 1, Len(m))) = IF w + 1 <= Len(m) THEN Len(m) - (w + 1) + 1 ELSE 0
        /\ \A i \in 1..(Len(m) - (w + 1) + 1) : SubSeq(m, w + 1, Len(m))[i] = m[(w + 1) + i - 1]
    BY <2>2, <2>3, SubSeqProperties, SMTT(60)
  <2> QED
    BY <1>4, <2>1, <2>4
<1>8. SubSeq(m, w + 1, Len(m)) = n
  <2> DEFINE l == SubSeq(m, w + 1, Len(m))
  <2>1. l \in Seq(Cells) /\ Len(l) = Len(n) /\ \A i \in 1..Len(n) : l[i] = n[i]
    BY <1>5, <1>6, <1>7
  <2> HIDE DEF l
  <2>2. l = n
    BY <1>5, <2>1, SeqEqual
  <2> QED
    BY <2>2 DEF l
<1>9. m[1] = <<w, x>>
  <2>1. 1 % w = 1 /\ 1 \div w = 0 /\ 1 \in 1..(w * Len(b) + w)
    <3>1. CASE w = 4
      BY <1>3, <3>1
    <3>2. CASE w = 8
      BY <1>3, <3>2
    <3> QED
      BY <3>1, <3>2
  <2> QED
    BY <1>1, <1>4, <2>1
<1>10. Len(m) >= w
  BY <1>3, <1>4
<1> QED
  BY <1>8, <1>9, <1>10 DEF HasNumber, Skip, a, b, m, n

\* The steps of a writer and of a reader
WriterRun(f, version5, root) ==
    /\ f[0] = Writer(version5, root) /\ \A n \in 1..Steps : f[n] = WriteNext(f[n - 1])
    /\ Written(version5, root) = f[Steps]
ReaderRun(f, d) ==
    /\ f[0] = Reader(d) /\ \A n \in 1..Steps : f[n] = ReadNext(f[n - 1])
    /\ ReadAll(d) = f[Steps]

\* The writer goes through its steps.
LEMMA WriterRuns ==
    ASSUME NEW version5, NEW root
    PROVE  \E f : WriterRun(f, version5, root)
<1> DEFINE Unrolled(g, m) == [n \in 0..m |-> IF n = 0 THEN Writer(version5, root) ELSE WriteNext(g[n - 1])]
           Solved == {m \in Nat : \E g : g = Unrolled(g, m)}
           run == CHOOSE g : g = Unrolled(g, Steps)
<1>1. Steps \in Nat
  BY LimitsAssumption DEF Steps
<1>2. 0 \in Solved
  <2> DEFINE g == [n \in 0..0 |-> Writer(version5, root)]
  <2>1. g = Unrolled(g, 0)
    OBVIOUS
  <2> QED
    BY <2>1
<1>3. ASSUME NEW m \in Nat, m \in Solved PROVE m + 1 \in Solved
  <2>1. PICK g : g = Unrolled(g, m)
    BY <1>3
  <2> DEFINE h == [n \in 0..(m + 1) |-> IF n = m + 1 THEN WriteNext(g[(m + 1) - 1]) ELSE g[n]]
  <2>2. ASSUME NEW n \in 0..(m + 1) PROVE h[n] = Unrolled(h, m + 1)[n]
    <3>1. CASE n = 0
      <4>1. h[n] = g[0] /\ 0 \in 0..m
        BY <3>1
      <4>2. g[0] = Unrolled(g, m)[0]
        BY <2>1
      <4> QED
        BY <3>1, <4>1, <4>2
    <3>2. CASE n = m + 1
      <4>1. n - 1 \in 0..(m + 1) /\ n - 1 # m + 1 /\ n # 0
        BY <3>2
      <4>2. h[n - 1] = g[n - 1] /\ h[n] = WriteNext(g[n - 1])
        BY <3>2, <4>1
      <4> QED
        BY <4>1, <4>2
    <3>3. CASE n # 0 /\ n # m + 1
      <4>1. n \in 0..m /\ n - 1 \in 0..(m + 1) /\ n - 1 # m + 1
        BY <3>3
      <4>2. h[n] = g[n] /\ h[n - 1] = g[n - 1]
        BY <3>3, <4>1
      <4>3. g[n] = Unrolled(g, m)[n]
        BY <2>1
      <4>4. g[n] = WriteNext(g[n - 1])
        BY <3>3, <4>1, <4>3
      <4> QED
        BY <3>3, <4>2, <4>4
    <3> QED
      BY <3>1, <3>2, <3>3
  <2>3. h = Unrolled(h, m + 1)
    <3> DEFINE b == Unrolled(h, m + 1)
    <3>1. h = [n \in 0..(m + 1) |-> h[n]] /\ b = [n \in 0..(m + 1) |-> b[n]]
      OBVIOUS
    <3>2. \A n \in 0..(m + 1) : h[n] = b[n]
      BY <2>2
    <3> HIDE DEF h, b
    <3>3. h = b
      BY <3>1, <3>2
    <3> QED
      BY <3>3 DEF b
  <2> HIDE DEF h, Unrolled
  <2> QED
    BY <2>3
<1> HIDE DEF Solved
<1>4. Steps \in Solved
  BY <1>1, <1>2, <1>3, NumberInduction
<1>5. run = Unrolled(run, Steps)
  <2>1. \E g : g = Unrolled(g, Steps)
    BY <1>4 DEF Solved
  <2> HIDE DEF Unrolled
  <2> QED
    BY <2>1
<1>6. Written(version5, root) = run[Steps]
  BY DEF Written
<1> HIDE DEF run
<1>7. \A n \in 0..Steps : run[n] = Unrolled(run, Steps)[n]
  BY <1>5
<1>8. run[0] = Writer(version5, root)
  BY <1>1, <1>7
<1>9. ASSUME NEW n \in 1..Steps PROVE run[n] = WriteNext(run[n - 1])
  <2>1. n \in 0..Steps /\ n # 0
    BY <1>1
  <2> QED
    BY <1>7, <2>1
<1> QED
  BY <1>6, <1>8, <1>9 DEF WriterRun

\* The reader goes through its steps.
LEMMA ReaderRuns ==
    ASSUME NEW d
    PROVE  \E f : ReaderRun(f, d)
<1> DEFINE Unrolled(g, m) == [n \in 0..m |-> IF n = 0 THEN Reader(d) ELSE ReadNext(g[n - 1])]
           Solved == {m \in Nat : \E g : g = Unrolled(g, m)}
           run == CHOOSE g : g = Unrolled(g, Steps)
<1>1. Steps \in Nat
  BY LimitsAssumption DEF Steps
<1>2. 0 \in Solved
  <2> DEFINE g == [n \in 0..0 |-> Reader(d)]
  <2>1. g = Unrolled(g, 0)
    OBVIOUS
  <2> QED
    BY <2>1
<1>3. ASSUME NEW m \in Nat, m \in Solved PROVE m + 1 \in Solved
  <2>1. PICK g : g = Unrolled(g, m)
    BY <1>3
  <2> DEFINE h == [n \in 0..(m + 1) |-> IF n = m + 1 THEN ReadNext(g[(m + 1) - 1]) ELSE g[n]]
  <2>2. ASSUME NEW n \in 0..(m + 1) PROVE h[n] = Unrolled(h, m + 1)[n]
    <3>1. CASE n = 0
      <4>1. h[n] = g[0] /\ 0 \in 0..m
        BY <3>1
      <4>2. g[0] = Unrolled(g, m)[0]
        BY <2>1
      <4> QED
        BY <3>1, <4>1, <4>2
    <3>2. CASE n = m + 1
      <4>1. n - 1 \in 0..(m + 1) /\ n - 1 # m + 1 /\ n # 0
        BY <3>2
      <4>2. h[n - 1] = g[n - 1] /\ h[n] = ReadNext(g[n - 1])
        BY <3>2, <4>1
      <4> QED
        BY <4>1, <4>2
    <3>3. CASE n # 0 /\ n # m + 1
      <4>1. n \in 0..m /\ n - 1 \in 0..(m + 1) /\ n - 1 # m + 1
        BY <3>3
      <4>2. h[n] = g[n] /\ h[n - 1] = g[n - 1]
        BY <3>3, <4>1
      <4>3. g[n] = Unrolled(g, m)[n]
        BY <2>1
      <4>4. g[n] = ReadNext(g[n - 1])
        BY <3>3, <4>1, <4>3
      <4> QED
        BY <3>3, <4>2, <4>4
    <3> QED
      BY <3>1, <3>2, <3>3
  <2>3. h = Unrolled(h, m + 1)
    <3> DEFINE b == Unrolled(h, m + 1)
    <3>1. h = [n \in 0..(m + 1) |-> h[n]] /\ b = [n \in 0..(m + 1) |-> b[n]]
      OBVIOUS
    <3>2. \A n \in 0..(m + 1) : h[n] = b[n]
      BY <2>2
    <3> HIDE DEF h, b
    <3>3. h = b
      BY <3>1, <3>2
    <3> QED
      BY <3>3 DEF b
  <2> HIDE DEF h, Unrolled
  <2> QED
    BY <2>3
<1> HIDE DEF Solved
<1>4. Steps \in Solved
  BY <1>1, <1>2, <1>3, NumberInduction
<1>5. run = Unrolled(run, Steps)
  <2>1. \E g : g = Unrolled(g, Steps)
    BY <1>4 DEF Solved
  <2> HIDE DEF Unrolled
  <2> QED
    BY <2>1
<1>6. ReadAll(d) = run[Steps]
  BY DEF ReadAll
<1> HIDE DEF run
<1>7. \A n \in 0..Steps : run[n] = Unrolled(run, Steps)[n]
  BY <1>5
<1>8. run[0] = Reader(d)
  BY <1>1, <1>7
<1>9. ASSUME NEW n \in 1..Steps PROVE run[n] = ReadNext(run[n - 1])
  <2>1. n \in 0..Steps /\ n # 0
    BY <1>1
  <2> QED
    BY <1>7, <2>1
<1> QED
  BY <1>6, <1>8, <1>9 DEF ReaderRun

\* The states of an encoder
Encoders ==
    [version5 : BOOLEAN, objects : Seq(Int), strings : Seq(Seq(Int)), integers : Seq(Int),
     doubles : Seq(Int), types : Seq(Int), blobs : Seq(Int), lengths : Seq(Int),
     string_bytes : Int, value_bytes : Int, remaining : Int, id : Int, failed : BOOLEAN]

\* The streams of f continue those of e, and a failure stays
Grows(e, f) ==
    /\ e.version5 = f.version5
    /\ e.failed => f.failed
    /\ Continues(e.objects, f.objects) /\ Continues(e.strings, f.strings)
    /\ Continues(e.integers, f.integers) /\ Continues(e.doubles, f.doubles)
    /\ Continues(e.types, f.types) /\ Continues(e.blobs, f.blobs)
    /\ Continues(e.lengths, f.lengths)

\* An encoder that does nothing grows.
LEMMA GrowsItself ==
    ASSUME NEW e \in Encoders
    PROVE  Grows(e, e)
<1>1. /\ e.objects \in Seq(Int) /\ e.strings \in Seq(Seq(Int)) /\ e.integers \in Seq(Int)
      /\ e.doubles \in Seq(Int) /\ e.types \in Seq(Int) /\ e.blobs \in Seq(Int)
      /\ e.lengths \in Seq(Int)
  BY DEF Encoders
<1> QED
  BY <1>1, ContinuesItself DEF Grows

\* An encoder that grows twice grows.
LEMMA GrowsFurther ==
    ASSUME NEW e \in Encoders, NEW f \in Encoders, NEW g \in Encoders, Grows(e, f), Grows(f, g)
    PROVE  Grows(e, g)
<1>1. \A x \in Encoders :
      /\ x.objects \in Seq(Int) /\ x.strings \in Seq(Seq(Int)) /\ x.integers \in Seq(Int)
      /\ x.doubles \in Seq(Int) /\ x.types \in Seq(Int) /\ x.blobs \in Seq(Int)
      /\ x.lengths \in Seq(Int)
  BY DEF Encoders
<1>2. Continues(e.objects, g.objects)
  BY <1>1, ContinuesFurther, ZenonT(60) DEF Grows
<1>3. Continues(e.strings, g.strings)
  BY <1>1, ContinuesFurther DEF Grows
<1>4. Continues(e.integers, g.integers)
  BY <1>1, ContinuesFurther, ZenonT(60) DEF Grows
<1>5. Continues(e.doubles, g.doubles)
  BY <1>1, ContinuesFurther DEF Grows
<1>6. Continues(e.types, g.types)
  BY <1>1, ContinuesFurther, ZenonT(60) DEF Grows
<1>7. Continues(e.blobs, g.blobs)
  BY <1>1, ContinuesFurther DEF Grows
<1>8. Continues(e.lengths, g.lengths)
  BY <1>1, ContinuesFurther, ZenonT(60) DEF Grows
<1> QED
  BY <1>2, <1>3, <1>4, <1>5, <1>6, <1>7, <1>8 DEF Grows

\* A failure leaves the streams
LEMMA RequireGrows ==
    ASSUME NEW e \in Encoders, NEW c
    PROVE  /\ Require(e, c) \in Encoders /\ Grows(e, Require(e, c))
           /\ Require(e, c) = [e EXCEPT !.failed = Require(e, c).failed]
           /\ ~Require(e, c).failed => c /\ Require(e, c) = e
<1> DEFINE r == Require(e, c)
<1>1. r \in Encoders /\ r = [e EXCEPT !.failed = r.failed] /\ r.failed = (e.failed \/ ~c)
  BY DEF Require, Encoders
<1>2. /\ r.version5 = e.version5 /\ r.objects = e.objects /\ r.strings = e.strings
      /\ r.integers = e.integers /\ r.doubles = e.doubles /\ r.types = e.types
      /\ r.blobs = e.blobs /\ r.lengths = e.lengths
  BY DEF Require, Encoders
<1> HIDE DEF r
<1>3. Grows(e, r)
  BY <1>1, <1>2, GrowsItself DEF Grows
<1>4. ~r.failed => c /\ r = e
  <2> SUFFICES ASSUME ~r.failed PROVE c /\ r = e
    OBVIOUS
  <2>1. c /\ ~e.failed
    BY <1>1
  <2>2. r.failed = FALSE /\ e.failed = FALSE
    BY <1>1, <2>1 DEF Encoders
  <2>3. r = [e EXCEPT !.failed = e.failed]
    BY <1>1, <2>2
  <2>4. [e EXCEPT !.failed = e.failed] = e
    BY DEF Encoders
  <2> QED
    BY <2>1, <2>3, <2>4
<1> QED
  BY <1>1, <1>3, <1>4 DEF r

\* A change of fields that are no streams
LEMMA AddValueBytesGrows ==
    ASSUME NEW e \in Encoders, NEW n \in Int
    PROVE  /\ AddValueBytes(e, n) \in Encoders /\ Grows(e, AddValueBytes(e, n))
           /\ AddValueBytes(e, n).strings = e.strings
           /\ AddValueBytes(e, n).string_bytes = e.string_bytes
           /\ ~AddValueBytes(e, n).failed => /\ Fits(e.value_bytes + n)
                                             /\ AddValueBytes(e, n) = [e EXCEPT !.value_bytes = @ + n]
<1> DEFINE f == [e EXCEPT !.value_bytes = @ + n]  r == AddValueBytes(e, n)
<1>1. f \in Encoders
  <2>1. e.value_bytes + n \in Int
    BY DEF Encoders
  <2> DEFINE m == e.value_bytes + n
  <2> HIDE DEF m
  <2>2. [e EXCEPT !.value_bytes = m] \in Encoders
    BY <2>1 DEF Encoders, m
  <2> QED
    BY <2>2 DEF m
<1>2. /\ f.version5 = e.version5 /\ f.objects = e.objects /\ f.strings = e.strings
      /\ f.integers = e.integers /\ f.doubles = e.doubles /\ f.types = e.types
      /\ f.blobs = e.blobs /\ f.lengths = e.lengths /\ f.failed = e.failed
      /\ f.string_bytes = e.string_bytes
  BY DEF Encoders
<1>3. r = Require(f, Fits(e.value_bytes + n))
  BY DEF AddValueBytes
<1> HIDE DEF f, r
<1>4. Grows(e, f)
  BY <1>2, GrowsItself DEF Grows
<1>5. /\ r \in Encoders /\ Grows(f, r) /\ r = [f EXCEPT !.failed = r.failed]
      /\ ~r.failed => Fits(e.value_bytes + n) /\ r = f
  BY <1>1, <1>3, RequireGrows
<1>6. Grows(e, r)
  BY <1>1, <1>4, <1>5, GrowsFurther
<1>7. r.strings = f.strings /\ r.string_bytes = f.string_bytes
  BY <1>1, <1>5 DEF Encoders
<1> QED
  BY <1>2, <1>5, <1>6, <1>7 DEF f, r

\* Where an element of a sequence is found.
LEMMA PlaceOf ==
    ASSUME NEW s, Len(s) \in Nat, NEW x, Contains(s, x)
    PROVE  SelectInSeq(s, LAMBDA t : t = x) \in 1..Len(s) /\ s[SelectInSeq(s, LAMBDA t : t = x)] = x
<1> DEFINE I == {i \in 1..Len(s) : s[i] = x}
<1>1. I # {} /\ I \subseteq Nat
  BY DEF Contains
<1>2. \E m \in I : \A n \in I : m <= n
  BY <1>1, LeastNumber
<1>3. SelectInSeq(s, LAMBDA t : t = x) = Min(I)
  BY <1>1 DEF SelectInSeq
<1>4. Min(I) \in I
  BY <1>2 DEF Min
<1> QED
  BY <1>3, <1>4

\* What a text's identifier says
Identifies(id, strings, text) ==
    \/ id = -1 /\ text = <<>>
    \/ id \in 0..(Len(strings) - 1) /\ strings[id + 1] = text /\ text # <<>>

\* f is e but for strings, their bytes, the bytes of values and the identifier
SameNumbers(e, f) ==
    /\ f.version5 = e.version5 /\ f.objects = e.objects /\ f.integers = e.integers
    /\ f.doubles = e.doubles /\ f.types = e.types /\ f.blobs = e.blobs
    /\ f.lengths = e.lengths /\ f.remaining = e.remaining

\* A string that is new to the table: the identifier it gets names it there.
LEMMA NewStringGrows ==
    ASSUME NEW e \in Encoders, NEW text \in Seq(Int), text # <<>>
    PROVE  /\ NewString(e, text) \in Encoders /\ Grows(e, NewString(e, text))
           /\ ~NewString(e, text).failed =>
                 /\ SameNumbers(e, NewString(e, text))
                 /\ NewString(e, text).value_bytes = e.value_bytes
                 /\ Identifies(NewString(e, text).id, NewString(e, text).strings, text)
<1> DEFINE size == e.string_bytes + Len(text) + 1
           more == Append(e.strings, text)
           count == Len(e.strings)
           f == [e EXCEPT !.strings = more, !.string_bytes = size, !.id = count]
           r == NewString(e, text)
<1>0. size \in Int /\ more \in Seq(Seq(Int)) /\ count \in Nat /\ Continues(e.strings, more)
      /\ Len(more) = count + 1 /\ more[count + 1] = text
  <2>1. e.string_bytes \in Int /\ e.strings \in Seq(Seq(Int))
    BY DEF Encoders
  <2> QED
    BY <2>1, ContinuesAppend, AppendProperties, LenProperties
<1>1. r = Require(f, ~Contains(text, 0) /\ Fits(size) /\ Len(e.strings) < MaxCount)
  BY DEF NewString
<1> HIDE DEF size, more, r
<1>2. f \in Encoders
  <2> HIDE DEF count
  <2>1. [e EXCEPT !.strings = more] \in Encoders
    BY <1>0 DEF Encoders
  <2> DEFINE g == [e EXCEPT !.strings = more]
  <2> HIDE DEF g
  <2>2. [g EXCEPT !.string_bytes = size] \in Encoders
    BY <1>0, <2>1 DEF Encoders, g
  <2> DEFINE h == [g EXCEPT !.string_bytes = size]
  <2> HIDE DEF h
  <2>3. count \in Int
    BY <1>0
  <2>4. [h EXCEPT !.id = count] \in Encoders
    BY <2>2, <2>3 DEF Encoders, h
  <2>5. f = [h EXCEPT !.id = count]
    BY DEF g, h
  <2> QED
    BY <2>4, <2>5
<1>3. /\ SameNumbers(e, f) /\ f.strings = more /\ f.id = count /\ f.value_bytes = e.value_bytes
      /\ f.failed = e.failed
  BY DEF Encoders, SameNumbers
<1> HIDE DEF f
<1>4. Grows(e, f)
  BY <1>0, <1>3, GrowsItself DEF Grows, SameNumbers
<1>5. r \in Encoders /\ Grows(f, r) /\ (~r.failed => r = f)
  BY <1>1, <1>2, RequireGrows
<1>6. Grows(e, r)
  BY <1>2, <1>4, <1>5, GrowsFurther
<1>7. Identifies(f.id, f.strings, text)
  BY <1>0, <1>3 DEF Identifies
<1>8. ~r.failed => SameNumbers(e, r) /\ r.value_bytes = e.value_bytes /\ Identifies(r.id, r.strings, text)
  BY <1>3, <1>5, <1>7
<1> QED
  BY <1>5, <1>6, <1>8 DEF r

\* register_string: the identifier names the text in the table, and the bytes of
\* values grow by its length.
LEMMA RegisterStringGrows ==
    ASSUME NEW e \in Encoders, NEW text \in Seq(Int)
    PROVE  /\ RegisterString(e, text) \in Encoders /\ Grows(e, RegisterString(e, text))
           /\ ~RegisterString(e, text).failed =>
                 /\ SameNumbers(e, RegisterString(e, text))
                 /\ RegisterString(e, text).value_bytes = e.value_bytes + Len(text)
                 /\ Fits(e.value_bytes + Len(text))
                 /\ Identifies(RegisterString(e, text).id, RegisterString(e, text).strings, text)
<1> DEFINE c == AddValueBytes(e, Len(text))  r == RegisterString(e, text)
           p == SelectInSeq(e.strings, LAMBDA s : s = text)
<1>1. Len(text) \in Int
  BY LenProperties
<1>2. /\ c \in Encoders /\ Grows(e, c)
      /\ c.strings = e.strings
      /\ ~c.failed => Fits(e.value_bytes + Len(text)) /\ c = [e EXCEPT !.value_bytes = @ + Len(text)]
  BY <1>1, AddValueBytesGrows
<1>3. ~c.failed => SameNumbers(e, c) /\ c.value_bytes = e.value_bytes + Len(text)
  BY <1>2 DEF SameNumbers, Encoders
<1>4. r = IF text = <<>> THEN [c EXCEPT !.id = -1]
          ELSE IF Contains(e.strings, text) THEN [c EXCEPT !.id = p - 1] ELSE NewString(c, text)
  BY DEF RegisterString
<1>5. ASSUME Contains(c.strings, text) PROVE p \in 1..Len(c.strings) /\ c.strings[p] = text
  <2>1. Len(c.strings) \in Nat
    BY <1>2, LenProperties DEF Encoders
  <2>2. p = SelectInSeq(c.strings, LAMBDA s : s = text)
    BY <1>2 DEF SelectInSeq
  <2> HIDE DEF c, p
  <2>3. /\ SelectInSeq(c.strings, LAMBDA s : s = text) \in 1..Len(c.strings)
        /\ c.strings[SelectInSeq(c.strings, LAMBDA s : s = text)] = text
    BY <1>5, <2>1, PlaceOf
  <2> QED
    BY <2>2, <2>3 DEF SelectInSeq
<1>6. ASSUME NEW i \in Int
      PROVE  LET g == [c EXCEPT !.id = i]
             IN  /\ g \in Encoders /\ Grows(e, g) /\ SameNumbers(c, g) /\ g.strings = c.strings
                 /\ g.value_bytes = c.value_bytes /\ g.id = i /\ g.failed = c.failed
  <2> HIDE DEF c
  <2> DEFINE g == [c EXCEPT !.id = i]
  <2>1. /\ g \in Encoders /\ SameNumbers(c, g) /\ g.strings = c.strings
        /\ g.value_bytes = c.value_bytes /\ g.id = i /\ g.failed = c.failed
    BY <1>2 DEF Encoders, SameNumbers
  <2> HIDE DEF g
  <2>2. Grows(e, g)
    BY <1>2, <2>1 DEF Grows, SameNumbers
  <2> QED
    BY <2>1, <2>2 DEF g
<1> HIDE DEF r, c, p
<1>7. CASE text = <<>>
  <2> DEFINE q == -1
  <2>1. r = [c EXCEPT !.id = q] /\ q \in Int
    BY <1>4, <1>7
  <2> HIDE DEF q
  <2>2. /\ r \in Encoders /\ Grows(e, r) /\ SameNumbers(c, r) /\ r.value_bytes = c.value_bytes
        /\ r.id = q /\ r.failed = c.failed
    BY <1>6, <2>1
  <2>3. Identifies(r.id, r.strings, text)
    BY <1>7, <2>2 DEF Identifies, q
  <2> QED
    BY <1>2, <1>3, <2>2, <2>3 DEF SameNumbers, r
<1>8. CASE text # <<>> /\ Contains(c.strings, text)
  <2>1. r = [c EXCEPT !.id = p - 1] /\ p \in 1..Len(c.strings) /\ c.strings[p] = text
    BY <1>2, <1>4, <1>5, <1>8
  <2>2. Len(c.strings) \in Nat
    BY <1>2, LenProperties DEF Encoders
  <2> DEFINE q == p - 1
  <2>3. q \in 0..(Len(c.strings) - 1) /\ q + 1 = p /\ q \in Int
    BY <2>1, <2>2
  <2>4. r = [c EXCEPT !.id = q]
    BY <2>1
  <2> HIDE DEF q
  <2>5. /\ r \in Encoders /\ Grows(e, r) /\ SameNumbers(c, r) /\ r.value_bytes = c.value_bytes
        /\ r.id = q /\ r.failed = c.failed /\ r.strings = c.strings
    BY <1>6, <2>3, <2>4
  <2>6. Identifies(r.id, r.strings, text)
    BY <1>8, <2>1, <2>3, <2>5 DEF Identifies
  <2> QED
    BY <1>2, <1>3, <2>5, <2>6 DEF SameNumbers, r
<1>9. CASE text # <<>> /\ ~Contains(c.strings, text)
  <2>1. r = NewString(c, text)
    BY <1>2, <1>4, <1>9
  <2>2. /\ r \in Encoders /\ Grows(c, r)
        /\ ~r.failed => SameNumbers(c, r) /\ r.value_bytes = c.value_bytes /\ Identifies(r.id, r.strings, text)
    BY <1>2, <1>9, <2>1, NewStringGrows
  <2>3. Grows(e, r)
    BY <1>2, <2>2, GrowsFurther
  <2>4. ~r.failed => ~c.failed
    BY <2>2 DEF Grows
  <2> QED
    BY <1>2, <1>3, <2>2, <2>3, <2>4 DEF SameNumbers, r
<1> QED
  BY <1>7, <1>8, <1>9

\* One more number in the stream of integers, and nothing else.
LEMMA AppendInteger ==
    ASSUME NEW e \in Encoders, NEW i \in Int
    PROVE  LET f == [e EXCEPT !.integers = Append(@, i)]
           IN    /\ f \in Encoders /\ Grows(e, f) /\ f.integers = Append(e.integers, i)
                 /\ f.version5 = e.version5 /\ f.objects = e.objects
                 /\ f.strings = e.strings /\ f.doubles = e.doubles
                 /\ f.types = e.types /\ f.blobs = e.blobs /\ f.lengths = e.lengths
                 /\ f.string_bytes = e.string_bytes
                 /\ f.value_bytes = e.value_bytes /\ f.remaining = e.remaining
                 /\ f.id = e.id /\ f.failed = e.failed
<1> DEFINE more == Append(e.integers, i)  f == [e EXCEPT !.integers = more]
<1>1. more \in Seq(Int) /\ Continues(e.integers, more)
  <2>1. e.integers \in Seq(Int)
    BY DEF Encoders
  <2> QED
    BY <2>1, ContinuesAppend, AppendProperties
<1> HIDE DEF more
<1>2. /\ f \in Encoders /\ f.integers = more
                 /\ f.version5 = e.version5 /\ f.objects = e.objects
                 /\ f.strings = e.strings /\ f.doubles = e.doubles
                 /\ f.types = e.types /\ f.blobs = e.blobs /\ f.lengths = e.lengths
                 /\ f.string_bytes = e.string_bytes
                 /\ f.value_bytes = e.value_bytes /\ f.remaining = e.remaining
                 /\ f.id = e.id /\ f.failed = e.failed
  BY <1>1 DEF Encoders
<1> HIDE DEF f
<1>3. Grows(e, f)
  BY <1>1, <1>2, GrowsItself DEF Grows
<1>4. f = [e EXCEPT !.integers = Append(@, i)]
  BY DEF f, more
<1> QED
  BY <1>2, <1>3, <1>4 DEF more

\* One more number in the stream of doubles, and nothing else.
LEMMA AppendDouble ==
    ASSUME NEW e \in Encoders, NEW i \in Int
    PROVE  LET f == [e EXCEPT !.doubles = Append(@, i)]
           IN    /\ f \in Encoders /\ Grows(e, f) /\ f.doubles = Append(e.doubles, i)
                 /\ f.version5 = e.version5 /\ f.objects = e.objects
                 /\ f.strings = e.strings /\ f.integers = e.integers
                 /\ f.types = e.types /\ f.blobs = e.blobs /\ f.lengths = e.lengths
                 /\ f.string_bytes = e.string_bytes
                 /\ f.value_bytes = e.value_bytes /\ f.remaining = e.remaining
                 /\ f.id = e.id /\ f.failed = e.failed
<1> DEFINE more == Append(e.doubles, i)  f == [e EXCEPT !.doubles = more]
<1>1. more \in Seq(Int) /\ Continues(e.doubles, more)
  <2>1. e.doubles \in Seq(Int)
    BY DEF Encoders
  <2> QED
    BY <2>1, ContinuesAppend, AppendProperties
<1> HIDE DEF more
<1>2. /\ f \in Encoders /\ f.doubles = more
                 /\ f.version5 = e.version5 /\ f.objects = e.objects
                 /\ f.strings = e.strings /\ f.integers = e.integers
                 /\ f.types = e.types /\ f.blobs = e.blobs /\ f.lengths = e.lengths
                 /\ f.string_bytes = e.string_bytes
                 /\ f.value_bytes = e.value_bytes /\ f.remaining = e.remaining
                 /\ f.id = e.id /\ f.failed = e.failed
  BY <1>1 DEF Encoders
<1> HIDE DEF f
<1>3. Grows(e, f)
  BY <1>1, <1>2, GrowsItself DEF Grows
<1>4. f = [e EXCEPT !.doubles = Append(@, i)]
  BY DEF f, more
<1> QED
  BY <1>2, <1>3, <1>4 DEF more

\* One more number in the stream of objects, and nothing else.
LEMMA AppendObject ==
    ASSUME NEW e \in Encoders, NEW i \in Int
    PROVE  LET f == [e EXCEPT !.objects = Append(@, i)]
           IN    /\ f \in Encoders /\ Grows(e, f) /\ f.objects = Append(e.objects, i)
                 /\ f.version5 = e.version5 /\ f.strings = e.strings
                 /\ f.integers = e.integers /\ f.doubles = e.doubles
                 /\ f.types = e.types /\ f.blobs = e.blobs /\ f.lengths = e.lengths
                 /\ f.string_bytes = e.string_bytes
                 /\ f.value_bytes = e.value_bytes /\ f.remaining = e.remaining
                 /\ f.id = e.id /\ f.failed = e.failed
<1> DEFINE more == Append(e.objects, i)  f == [e EXCEPT !.objects = more]
<1>1. more \in Seq(Int) /\ Continues(e.objects, more)
  <2>1. e.objects \in Seq(Int)
    BY DEF Encoders
  <2> QED
    BY <2>1, ContinuesAppend, AppendProperties
<1> HIDE DEF more
<1>2. /\ f \in Encoders /\ f.objects = more
                 /\ f.version5 = e.version5 /\ f.strings = e.strings
                 /\ f.integers = e.integers /\ f.doubles = e.doubles
                 /\ f.types = e.types /\ f.blobs = e.blobs /\ f.lengths = e.lengths
                 /\ f.string_bytes = e.string_bytes
                 /\ f.value_bytes = e.value_bytes /\ f.remaining = e.remaining
                 /\ f.id = e.id /\ f.failed = e.failed
  BY <1>1 DEF Encoders
<1> HIDE DEF f
<1>3. Grows(e, f)
  BY <1>1, <1>2, GrowsItself DEF Grows
<1>4. f = [e EXCEPT !.objects = Append(@, i)]
  BY DEF f, more
<1> QED
  BY <1>2, <1>3, <1>4 DEF more

\* write_string adds the identifier of the text to the integers.
LEMMA WriteStringGrows ==
    ASSUME NEW e \in Encoders, NEW text \in Seq(Int)
    PROVE  LET f == WriteString(e, text)
           IN  /\ f \in Encoders /\ Grows(e, f)
               /\ ~f.failed =>
                     /\ f.version5 = e.version5 /\ f.objects = e.objects /\ f.doubles = e.doubles
                     /\ f.types = e.types /\ f.blobs = e.blobs /\ f.lengths = e.lengths
                     /\ f.remaining = e.remaining /\ f.integers = Append(e.integers, f.id)
                     /\ f.value_bytes = e.value_bytes + Len(text)
                     /\ Fits(e.value_bytes + Len(text)) /\ Identifies(f.id, f.strings, text)
<1> DEFINE r == RegisterString(e, text)  f == WriteString(e, text)
<1>1. /\ r \in Encoders /\ Grows(e, r)
      /\ ~r.failed => /\ SameNumbers(e, r)
                      /\ r.value_bytes = e.value_bytes + Len(text)
                      /\ Fits(e.value_bytes + Len(text))
                      /\ Identifies(r.id, r.strings, text)
  BY RegisterStringGrows
<1>2. f = [r EXCEPT !.integers = Append(@, r.id)] /\ r.id \in Int
  BY <1>1 DEF WriteString, Encoders
<1> HIDE DEF r, f
<1>3. /\ f \in Encoders /\ Grows(r, f) /\ f.integers = Append(r.integers, r.id)
      /\ f.version5 = r.version5 /\ f.objects = r.objects /\ f.strings = r.strings
      /\ f.doubles = r.doubles /\ f.types = r.types /\ f.blobs = r.blobs /\ f.lengths = r.lengths
      /\ f.value_bytes = r.value_bytes /\ f.remaining = r.remaining /\ f.id = r.id
      /\ f.failed = r.failed
  BY <1>1, <1>2, AppendInteger, ZenonT(60)
<1>4. Grows(e, f)
  BY <1>1, <1>3, GrowsFurther
<1> QED
  BY <1>1, <1>3, <1>4 DEF SameNumbers, f

\* The types of a value with this tag and the code of its flag
TypeBytes(tag, code) == IF code = 0 THEN <<tag>> ELSE <<tag + 128, code>>

\* f is e with the types of a value with this tag and flag
Tagged(e, f, tag, flag) ==
    LET codes == FlagCodes(IF e.version5 THEN 5 ELSE 4)
    IN  /\ flag \in DOMAIN codes /\ codes[flag] \in Int
        /\ f.types = e.types \o TypeBytes(tag, codes[flag])
        /\ f.version5 = e.version5 /\ f.objects = e.objects /\ f.strings = e.strings
        /\ f.integers = e.integers /\ f.doubles = e.doubles /\ f.blobs = e.blobs
        /\ f.lengths = e.lengths /\ f.remaining = e.remaining
        /\ f.value_bytes = e.value_bytes

\* write_type_tag adds the type and the flag, and nothing else.
LEMMA WriteTypeTagGrows ==
    ASSUME NEW e \in Encoders, NEW tag \in Int, NEW flag
    PROVE  /\ WriteTypeTag(e, tag, flag) \in Encoders /\ Grows(e, WriteTypeTag(e, tag, flag))
           /\ ~WriteTypeTag(e, tag, flag).failed => Tagged(e, WriteTypeTag(e, tag, flag), tag, flag)
<1> DEFINE codes == FlagCodes(IF e.version5 THEN 5 ELSE 4)
           f == WriteTypeTag(e, tag, flag)
           more == e.types \o TypeBytes(tag, codes[flag])
           g == [e EXCEPT !.types = more]
<1>1. CASE flag \notin DOMAIN codes
  <2>1. f = Require(e, FALSE)
    BY <1>1 DEF WriteTypeTag
  <2> HIDE DEF f, g, codes, more
  <2>2. f \in Encoders /\ Grows(e, f) /\ (~f.failed => FALSE)
    BY <2>1, RequireGrows
  <2> QED
    BY <2>2 DEF f
<1>2. CASE flag \in DOMAIN codes
  <2>1. codes[flag] \in Int
    BY <1>2 DEF FlagCodes, FlagCodes4, FlagCodes5
  <2>2. f = g
    BY <1>2 DEF WriteTypeTag, TypeBytes
  <2> HIDE DEF codes
  <2>3. e.types \in Seq(Int) /\ TypeBytes(tag, codes[flag]) \in Seq(Int)
    BY <2>1 DEF Encoders, TypeBytes
  <2>4. more \in Seq(Int) /\ Continues(e.types, more)
    BY <2>3, ContinuesConcat, ConcatProperties
  <2> HIDE DEF more, f
  <2>5. /\ g \in Encoders /\ g.version5 = e.version5 /\ g.objects = e.objects /\ g.strings = e.strings
        /\ g.integers = e.integers /\ g.doubles = e.doubles /\ g.blobs = e.blobs
        /\ g.lengths = e.lengths /\ g.remaining = e.remaining /\ g.failed = e.failed
        /\ g.value_bytes = e.value_bytes /\ g.types = more
    BY <2>4 DEF Encoders
  <2> HIDE DEF g
  <2>6. Grows(e, g)
    BY <2>4, <2>5, GrowsItself DEF Grows
  <2>8. more = e.types \o TypeBytes(tag, codes[flag])
    BY DEF more
  <2> QED
    BY <1>2, <2>1, <2>2, <2>5, <2>6, <2>8 DEF f, codes, Tagged
<1> QED
  BY <1>1, <1>2

\* What every step of the encoder does
Advances(e, f) == f \in Encoders /\ Grows(e, f) /\ (~f.failed => f.remaining = e.remaining)

\* Two steps of an encoder that count no value are one.
LEMMA AdvancesFurther ==
    ASSUME NEW e \in Encoders, NEW f, NEW g, Advances(e, f), Advances(f, g)
    PROVE  Advances(e, g)
<1>1. Grows(e, g)
  BY GrowsFurther DEF Advances
<1>2. ~g.failed => ~f.failed
  BY DEF Advances, Grows
<1> QED
  BY <1>1, <1>2 DEF Advances

\* write_type_tag counts no value.
LEMMA TypeTagAdvances ==
    ASSUME NEW e \in Encoders, NEW tag \in Int, NEW flag
    PROVE  Advances(e, WriteTypeTag(e, tag, flag))
<1> DEFINE f == WriteTypeTag(e, tag, flag)
<1>1. f \in Encoders /\ Grows(e, f) /\ (~f.failed => Tagged(e, f, tag, flag))
  BY WriteTypeTagGrows
<1> HIDE DEF f
<1>2. ~f.failed => f.remaining = e.remaining
  BY <1>1 DEF Tagged
<1> QED
  BY <1>1, <1>2 DEF Advances, f

\* write_string counts no value.
LEMMA StringAdvances ==
    ASSUME NEW e \in Encoders, NEW text \in Seq(Int)
    PROVE  Advances(e, WriteString(e, text))
<1> DEFINE f == WriteString(e, text)
<1>1. f \in Encoders /\ Grows(e, f) /\ (~f.failed => f.remaining = e.remaining)
  BY WriteStringGrows
<1> HIDE DEF f
<1> QED
  BY <1>1 DEF Advances, f

\* A check counts no value.
LEMMA RequireAdvances ==
    ASSUME NEW e \in Encoders, NEW c
    PROVE  Advances(e, Require(e, c))
  BY RequireGrows, Zenon DEF Advances

\* A number of 8 bytes and its type count no value.
LEMMA Scalar64Advances ==
    ASSUME NEW e \in Encoders, NEW tag \in Int, NEW value, value.number \in Int
    PROVE  Advances(e, WriteScalar64(e, tag, value))
<1> DEFINE f == WriteTypeTag(e, tag, value.flag)  i == value.number
           g == [f EXCEPT !.doubles = Append(@, i)]
<1>1. Advances(e, f)
  BY TypeTagAdvances
<1>2. f \in Encoders
  BY <1>1 DEF Advances
<1> HIDE DEF f
<1>3. i \in Int
  OBVIOUS
<1>4. g \in Encoders /\ Grows(f, g) /\ g.remaining = f.remaining
  <2> HIDE DEF i
  <2> QED
    BY <1>2, <1>3, AppendDouble
<1>5. g = WriteScalar64(e, tag, value)
  BY DEF WriteScalar64, f
<1> HIDE DEF g
<1> QED
  BY <1>1, <1>4, <1>5, AdvancesFurther DEF Advances

\* A number in the stream of integers counts no value.
LEMMA IntegerAdvances ==
    ASSUME NEW e \in Encoders, NEW i \in Int
    PROVE  Advances(e, [e EXCEPT !.integers = Append(@, i)])
<1> DEFINE g == [e EXCEPT !.integers = Append(@, i)]
<1>1. g \in Encoders /\ Grows(e, g) /\ g.remaining = e.remaining
  BY AppendInteger
<1> HIDE DEF g
<1> QED
  BY <1>1 DEF Advances, g

\* A number in the stream of objects counts no value.
LEMMA ObjectAdvances ==
    ASSUME NEW e \in Encoders, NEW i \in Int
    PROVE  Advances(e, [e EXCEPT !.objects = Append(@, i)])
<1> DEFINE g == [e EXCEPT !.objects = Append(@, i)]
<1>1. g \in Encoders /\ Grows(e, g) /\ g.remaining = e.remaining
  BY AppendObject
<1> HIDE DEF g
<1> QED
  BY <1>1 DEF Advances, g

\* Adds a blob and its length
LEMMA AppendBlob ==
    ASSUME NEW e \in Encoders, NEW text \in Seq(Int)
    PROVE  LET f == [e EXCEPT !.lengths = Append(@, Len(text)), !.blobs = @ \o text]
           IN  /\ f \in Encoders /\ Grows(e, f) /\ f.lengths = Append(e.lengths, Len(text))
               /\ f.blobs = e.blobs \o text
               /\ f.version5 = e.version5 /\ f.objects = e.objects /\ f.strings = e.strings
               /\ f.integers = e.integers /\ f.doubles = e.doubles /\ f.types = e.types
               /\ f.string_bytes = e.string_bytes /\ f.value_bytes = e.value_bytes
               /\ f.remaining = e.remaining /\ f.failed = e.failed
<1> DEFINE n == Len(text)  more == Append(e.lengths, n)  all == e.blobs \o text
           f == [e EXCEPT !.lengths = more, !.blobs = all]
<1>1. more \in Seq(Int) /\ Continues(e.lengths, more) /\ all \in Seq(Int) /\ Continues(e.blobs, all)
  <2>1. e.lengths \in Seq(Int) /\ e.blobs \in Seq(Int) /\ n \in Int
    BY LenProperties DEF Encoders
  <2> HIDE DEF n
  <2> QED
    BY <2>1, ContinuesAppend, ContinuesConcat, AppendProperties, ConcatProperties
<1> HIDE DEF more, all
<1>2. /\ f \in Encoders /\ f.lengths = more /\ f.blobs = all
      /\ f.version5 = e.version5 /\ f.objects = e.objects /\ f.strings = e.strings
      /\ f.integers = e.integers /\ f.doubles = e.doubles /\ f.types = e.types
      /\ f.string_bytes = e.string_bytes /\ f.value_bytes = e.value_bytes
      /\ f.remaining = e.remaining /\ f.failed = e.failed
  BY <1>1 DEF Encoders
<1> HIDE DEF f
<1>3. Grows(e, f)
  BY <1>1, <1>2, GrowsItself DEF Grows
<1>4. f = [e EXCEPT !.lengths = Append(@, Len(text)), !.blobs = @ \o text]
  BY DEF f, more, all
<1> QED
  BY <1>2, <1>3, <1>4 DEF more, all

\* The type and the bytes of a blob count no value.
LEMMA BlobAdvances ==
    ASSUME NEW e \in Encoders, NEW value, value.text \in Seq(Int)
    PROVE  Advances(e, WriteBlob(e, value))
<1> DEFINE f == WriteTypeTag(e, 7, value.flag)  text == value.text
           g == AddValueBytes(f, Len(text))
           h == [g EXCEPT !.lengths = Append(@, Len(text)), !.blobs = @ \o text]
<1>1. Advances(e, f)
  BY TypeTagAdvances
<1>2. f \in Encoders
  BY <1>1 DEF Advances
<1>3. h = WriteBlob(e, value)
  BY DEF WriteBlob
<1> HIDE DEF f
<1>4. Len(text) \in Int /\ text \in Seq(Int)
  BY LenProperties
<1>5. Advances(f, g)
  <2> DEFINE n == Len(text)
  <2>1. n \in Int
    BY <1>4
  <2> HIDE DEF n
  <2>2. AddValueBytes(f, n) \in Encoders /\ Grows(f, AddValueBytes(f, n))
        /\ (~AddValueBytes(f, n).failed => AddValueBytes(f, n) = [f EXCEPT !.value_bytes = @ + n])
    BY <1>2, <2>1, AddValueBytesGrows
  <2>3. [f EXCEPT !.value_bytes = @ + n].remaining = f.remaining
    BY <1>2 DEF Encoders
  <2>4. Advances(f, AddValueBytes(f, n))
    BY <2>2, <2>3 DEF Advances
  <2> QED
    BY <2>4 DEF n
<1>6. g \in Encoders
  BY <1>5, SMTT(60) DEF Advances
<1> HIDE DEF g
<1>7. h \in Encoders /\ Grows(g, h) /\ h.remaining = g.remaining
  <2> HIDE DEF text
  <2> QED
    BY <1>4, <1>6, AppendBlob
<1> HIDE DEF h
<1>8. Advances(g, h)
  BY <1>7 DEF Advances
<1>9. Advances(e, g)
  BY <1>1, <1>5, AdvancesFurther
<1> QED
  BY <1>3, <1>8, <1>9, AdvancesFurther

\* A value whose children are in V
IsValue(v, V) ==
    \/ v.kind = "null" /\ v = Scalar("null", v.flag, 0)
    \/ v.kind = "boolean" /\ v.number \in {0, 1} /\ v = Scalar("boolean", v.flag, v.number)
    \/ /\ v.kind \in {"signed", "unsigned", "float64", "float32"} /\ v.number \in Int
       /\ v = Scalar(v.kind, v.flag, v.number)
    \/ v.kind \in {"string", "blob"} /\ v.text \in Seq(Int) /\ v = Text(v.kind, v.flag, v.text)
    \/ v.kind = "array" /\ v.items \in Seq(V) /\ v = Array(v.flag, v.items)
    \/ /\ v.kind = "object" /\ v.items \in Seq(V) /\ v.names \in Seq(Seq(Int))
       /\ Len(v.names) = Len(v.items) /\ v = Object(v.flag, v.names, v.items)

\* The number of children counts no value.
LEMMA ChildCountAdvances ==
    ASSUME NEW e \in Encoders, NEW value, Len(value.items) \in Nat
    PROVE  Advances(e, WriteChildCount(e, value))
<1> DEFINE tag == IF value.kind = "array" THEN 8 ELSE 9
           f == WriteTypeTag(e, tag, value.flag)
           n == Len(value.items)
           g == Require(f, n <= MaxCount)
           h == WriteChildCount(e, value)
<1>1. h = IF value.kind = "object" /\ e.version5 THEN [g EXCEPT !.objects = Append(@, n)]
          ELSE [g EXCEPT !.integers = Append(@, n)]
  BY DEF WriteChildCount
<1>2. tag \in Int /\ n \in Int
  OBVIOUS
<1> HIDE DEF tag, n, h
<1>3. Advances(e, f)
  BY <1>2, TypeTagAdvances
<1>4. f \in Encoders
  BY <1>3 DEF Advances
<1> HIDE DEF f
<1>5. Advances(f, g)
  BY <1>4, RequireAdvances
<1>6. g \in Encoders /\ Advances(e, g)
  BY <1>3, <1>5, AdvancesFurther DEF Advances
<1> HIDE DEF g
<1>7. Advances(g, h)
  BY <1>1, <1>2, <1>6, ObjectAdvances, IntegerAdvances
<1> QED
  BY <1>6, <1>7, AdvancesFurther DEF h

\* The name of a member counts no value.
LEMMA NameAdvances ==
    ASSUME NEW e \in Encoders, NEW value, NEW i, value.names[i] \in Seq(Int)
    PROVE  Advances(e, WriteName(e, value, i))
<1> DEFINE c == value.names[i] # <<>> /\ \A j \in 1..(i - 1) : value.names[j] # value.names[i]
           name == value.names[i]
           f == Require(e, c)
<1>1. WriteName(e, value, i) = WriteString(f, name)
  BY DEF WriteName
<1>2. name \in Seq(Int)
  OBVIOUS
<1> HIDE DEF c, name
<1>3. Advances(e, f)
  BY RequireAdvances
<1>4. f \in Encoders
  BY <1>3 DEF Advances
<1> HIDE DEF f
<1>5. Advances(f, WriteString(f, name))
  BY <1>2, <1>4, StringAdvances
<1> QED
  BY <1>1, <1>3, <1>5, AdvancesFurther

\* What write_value writes once it has counted the value counts no other one.
LEMMA WriteCountedAdvances ==
    ASSUME NEW e \in Encoders, NEW V, NEW v, IsValue(v, V)
    PROVE  Advances(e, WriteCounted(e, v))
<1>1. CASE v.kind = "null"
  <2>1. WriteCounted(e, v) = WriteTypeTag(e, 1, v.flag)
    BY <1>1 DEF WriteCounted, Containers
  <2> QED
    BY <2>1, TypeTagAdvances
<1>2. CASE v.kind = "boolean"
  <2>1. WriteCounted(e, v) = WriteTypeTag(e, 14 - v.number, v.flag) /\ 14 - v.number \in Int
    BY <1>2 DEF WriteCounted, IsValue, Containers
  <2> QED
    BY <2>1, TypeTagAdvances
<1>3. CASE v.kind \in {"signed", "unsigned", "float64"}
  <2>1. v.number \in Int
    BY <1>3 DEF IsValue
  <2>2. \A tag \in Int : Advances(e, WriteScalar64(e, tag, v)) /\ Advances(e, WriteTypeTag(e, tag, v.flag))
    BY <2>1, Scalar64Advances, TypeTagAdvances
  <2>3. \/ \E tag \in Int : WriteCounted(e, v) = WriteScalar64(e, tag, v)
        \/ \E tag \in Int : WriteCounted(e, v) = WriteTypeTag(e, tag, v.flag)
    <3>1. CASE v.kind = "signed"
      <4>1. WriteCounted(e, v) = WriteSigned(e, v)
        BY <3>1 DEF WriteCounted, Containers
      <4>2. 15 + v.number \in Int
        BY <2>1
      <4> QED
        BY <4>1, <4>2 DEF WriteSigned
    <3>2. CASE v.kind = "unsigned"
      BY <3>2 DEF WriteCounted, Containers
    <3>3. CASE v.kind = "float64"
      BY <3>3 DEF WriteCounted, Containers
    <3> QED
      BY <1>3, <3>1, <3>2, <3>3
  <2> QED
    BY <2>2, <2>3
<1>4. CASE v.kind = "float32"
  <2> DEFINE f == WriteTypeTag(e, 19, v.flag)  i == v.number
  <2>1. WriteCounted(e, v) = [f EXCEPT !.integers = Append(@, i)] /\ i \in Int
    BY <1>4 DEF WriteCounted, IsValue, Containers
  <2>2. Advances(e, f)
    BY TypeTagAdvances
  <2>3. f \in Encoders
    BY <2>2 DEF Advances
  <2> HIDE DEF f, i
  <2>4. Advances(f, WriteCounted(e, v))
    BY <2>1, <2>3, IntegerAdvances
  <2> QED
    BY <2>2, <2>4, AdvancesFurther
<1>5. CASE v.kind = "string"
  <2> DEFINE f == WriteTypeTag(e, 6, v.flag)  text == v.text
  <2>1. WriteCounted(e, v) = WriteString(f, text) /\ text \in Seq(Int)
    BY <1>5 DEF WriteCounted, IsValue, Containers
  <2>2. Advances(e, f)
    BY TypeTagAdvances
  <2>3. f \in Encoders
    BY <2>2 DEF Advances
  <2> HIDE DEF f, text
  <2>4. Advances(f, WriteCounted(e, v))
    BY <2>1, <2>3, StringAdvances
  <2> QED
    BY <2>2, <2>4, AdvancesFurther
<1>6. CASE v.kind = "blob"
  <2>1. WriteCounted(e, v) = WriteBlob(e, v) /\ v.text \in Seq(Int)
    BY <1>6 DEF WriteCounted, IsValue, Containers
  <2> QED
    BY <2>1, BlobAdvances
<1>7. CASE v.kind \in Containers
  <2>1. WriteCounted(e, v) = WriteChildCount(e, v)
    BY <1>7 DEF WriteCounted, Containers
  <2>2. v.items \in Seq(V)
    BY <1>7 DEF IsValue, Containers
  <2> QED
    BY <2>1, <2>2, LenProperties, ChildCountAdvances
<1> QED
  BY <1>1, <1>2, <1>3, <1>4, <1>5, <1>6, <1>7 DEF IsValue, Containers

\* count_value takes one value from those that remain.
LEMMA CountedGrows ==
    ASSUME NEW e \in Encoders, NEW depth
    PROVE  /\ Counted(e, depth) \in Encoders /\ Grows(e, Counted(e, depth))
           /\ ~Counted(e, depth).failed =>
                 /\ depth <= MaxDepth /\ e.remaining > 0
                 /\ Counted(e, depth) = [e EXCEPT !.remaining = @ - 1]
                 /\ Counted(e, depth).remaining = e.remaining - 1
<1> DEFINE c == depth <= MaxDepth /\ e.remaining > 0
           f == Require(e, c)
           n == f.remaining - 1
           g == [f EXCEPT !.remaining = n]
<1>1. Counted(e, depth) = g
  BY DEF Counted
<1>2. f \in Encoders /\ Grows(e, f) /\ (~f.failed => c /\ f = e)
  <2> HIDE DEF c
  <2> QED
    BY RequireGrows
<1> HIDE DEF f
<1>3. n \in Int
  <2>1. f \in Encoders
    BY <1>2
  <2>2. f.remaining \in Int
    BY <2>1 DEF Encoders
  <2> QED
    BY <2>2
<1> HIDE DEF n
<1>4. /\ g \in Encoders /\ g.version5 = f.version5 /\ g.objects = f.objects /\ g.strings = f.strings
      /\ g.integers = f.integers /\ g.doubles = f.doubles /\ g.types = f.types
      /\ g.blobs = f.blobs /\ g.lengths = f.lengths /\ g.failed = f.failed /\ g.remaining = n
  BY <1>2, <1>3 DEF Encoders
<1>5. ~g.failed => c /\ g = [e EXCEPT !.remaining = @ - 1] /\ g.remaining = e.remaining - 1
  BY <1>2, <1>4 DEF n
<1> HIDE DEF g, c
<1>6. Grows(e, g)
  BY <1>2, <1>4 DEF Grows
<1> QED
  BY <1>1, <1>4, <1>5, <1>6 DEF c

\* write_value grows the streams, and counts one value.
LEMMA WriteValueGrows ==
    ASSUME NEW e \in Encoders, NEW V, NEW v, IsValue(v, V), NEW depth
    PROVE  /\ WriteValue(e, v, depth) \in Encoders /\ Grows(e, WriteValue(e, v, depth))
           /\ ~WriteValue(e, v, depth).failed =>
                 /\ ~Counted(e, depth).failed /\ e.remaining > 0
                 /\ WriteValue(e, v, depth).remaining = e.remaining - 1
<1> DEFINE c == Counted(e, depth)  f == WriteValue(e, v, depth)
<1>1. c \in Encoders /\ Grows(e, c) /\ (~c.failed => e.remaining > 0 /\ c.remaining = e.remaining - 1)
  BY CountedGrows
<1>2. f = WriteCounted(c, v)
  BY DEF WriteValue
<1> HIDE DEF c, f
<1>3. Advances(c, f)
  BY <1>1, <1>2, WriteCountedAdvances
<1>4. f \in Encoders /\ Grows(e, f)
  BY <1>1, <1>3, GrowsFurther DEF Advances
<1>5. ~f.failed => ~c.failed /\ f.remaining = c.remaining
  BY <1>3 DEF Advances, Grows
<1> QED
  BY <1>1, <1>4, <1>5 DEF c, f

\* The streams of a buffer, and the states of a decoder
StreamsOfBuffer == [{"bytes", "shorts", "integers", "doubles"} -> Seq(Cells)]

Decoders ==
    [version : {4, 5}, primary : StreamsOfBuffer, alternate : StreamsOfBuffer,
     objects : StreamsOfBuffer, types : Seq(Cells), strings : Seq(Seq(Int)), blobs : Seq(Cells),
     lengths : Seq(Int), alternate_active : BOOLEAN, remaining : Int, value_bytes : Int,
     got : Int, text : Seq(Int), tag : Int, flag : DOMAIN FlagCodes5, failed : BOOLEAN]

\* What the decoder d has left is what the encoder wrote after e until it was last
Mirrors(d, e, last) ==
    /\ d \in Decoders
    /\ d.version = IF e.version5 THEN 5 ELSE 4
    /\ d.primary["integers"] = Numbers(4, Left(e.integers, last.integers))
    /\ d.primary["doubles"] = Numbers(8, Left(e.doubles, last.doubles))
    /\ d.primary["bytes"] = <<>> /\ d.primary["shorts"] = <<>>
    /\ d.alternate = EmptyStreams
    /\ d.objects["integers"] = Numbers(4, Left(e.objects, last.objects))
    /\ d.objects["bytes"] = <<>> /\ d.objects["shorts"] = <<>> /\ d.objects["doubles"] = <<>>
    /\ d.types = Bytes(Left(e.types, last.types))
    /\ d.strings = last.strings
    /\ d.blobs = Bytes(Left(e.blobs, last.blobs))
    /\ d.lengths = Left(e.lengths, last.lengths)
    /\ d.alternate_active = FALSE /\ d.failed = FALSE
    /\ d.remaining = e.remaining

\* d and c have the same scratch
SameResults(c, d) ==
    d.value_bytes = c.value_bytes /\ d.text = c.text /\ d.tag = c.tag /\ d.flag = c.flag

\* A byte of a type is read as it was written.
LEMMA InlineRead ==
    ASSUME NEW d \in Decoders, NEW s \in Seq(Int), NEW x \in Int, NEW t \in Seq(Int),
           d.types = Bytes(Left(s, t)), Continues(Append(s, x), t)
    PROVE  LET g == GetInline(d, 1)
           IN  /\ g = [d EXCEPT !.types = Bytes(Left(Append(s, x), t)), !.got = x]
               /\ g \in Decoders
<1> DEFINE more == Bytes(Left(Append(s, x), t))  g == [d EXCEPT !.types = more, !.got = x]
<1>1. HasNumber(d.types, 1) /\ d.types[1] = <<1, x>> /\ Skip(d.types, 1) = more
  BY ByteTaken
<1>2. GetInline(d, 1) = [d EXCEPT !.types = Skip(d.types, 1), !.got = x]
  BY <1>1 DEF GetInline, Decoders
<1>3. more \in Seq(Cells)
  <2>1. Append(s, x) \in Seq(Int)
    BY AppendProperties
  <2>2. Left(Append(s, x), t) \in Seq(Int)
    BY <2>1, LeftIs
  <2> QED
    BY <2>2, BytesAre
<1> HIDE DEF more
<1>4. g \in Decoders
  BY <1>3 DEF Decoders
<1> QED
  BY <1>1, <1>2, <1>4 DEF more

\* Two bytes are added one behind the other.
LEMMA TwoAppended ==
    ASSUME NEW s \in Seq(Int), NEW x \in Int, NEW y \in Int
    PROVE  s \o <<x, y>> = Append(Append(s, x), y)
<1> DEFINE a == Append(s, x)  b == Append(a, y)  c == s \o <<x, y>>
<1>1. /\ a \in Seq(Int) /\ Len(a) = Len(s) + 1 /\ a[Len(s) + 1] = x
      /\ \A i \in 1..Len(s) : a[i] = s[i]
  BY AppendProperties
<1>2. Len(s) \in Nat
  BY LenProperties
<1> HIDE DEF a
<1>3. /\ b \in Seq(Int) /\ Len(b) = Len(a) + 1 /\ b[Len(a) + 1] = y
      /\ \A i \in 1..Len(a) : b[i] = a[i]
  BY <1>1, AppendProperties
<1>4. /\ c \in Seq(Int) /\ Len(c) = Len(s) + 2
      /\ \A i \in 1..Len(s) : c[i] = s[i]
      /\ c[Len(s) + 1] = x /\ c[Len(s) + 2] = y
  <2> DEFINE p == <<x, y>>
  <2>1. p \in Seq(Int) /\ Len(p) = 2 /\ p[1] = x /\ p[2] = y
    OBVIOUS
  <2> HIDE DEF p
  <2>2. /\ s \o p \in Seq(Int) /\ Len(s \o p) = Len(s) + Len(p)
        /\ \A i \in 1..(Len(s) + Len(p)) :
              (s \o p)[i] = IF i <= Len(s) THEN s[i] ELSE p[i - Len(s)]
    BY <2>1, ConcatProperties
  <2>3. /\ \A i \in 1..Len(s) : (s \o p)[i] = s[i]
        /\ (s \o p)[Len(s) + 1] = x /\ (s \o p)[Len(s) + 2] = y
    BY <1>2, <2>1, <2>2
  <2> QED
    BY <2>1, <2>2, <2>3 DEF p
<1> HIDE DEF b, c
<1>5. ASSUME NEW i \in 1..Len(b) PROVE b[i] = c[i]
  <2>1. i \in 1..Len(s) \/ i = Len(s) + 1 \/ i = Len(s) + 2
    BY <1>1, <1>2, <1>3, SMTT(60)
  <2>2. CASE i \in 1..Len(s)
    <3>1. i \in 1..Len(a)
      BY <1>1, <1>2, <2>2
    <3> QED
      BY <1>1, <1>3, <1>4, <2>2, <3>1
  <2>3. CASE i = Len(s) + 1
    <3>1. i \in 1..Len(a)
      BY <1>1, <1>2, <2>3
    <3> QED
      BY <1>1, <1>3, <1>4, <2>3, <3>1
  <2>4. CASE i = Len(s) + 2
    <3>1. i = Len(a) + 1
      BY <1>1, <1>2, <2>4
    <3> QED
      BY <1>3, <1>4, <2>4, <3>1
  <2> QED
    BY <2>1, <2>2, <2>3, <2>4
<1>6. b = c
  BY <1>1, <1>2, <1>3, <1>4, <1>5, SeqEqual, SMTT(60)
<1> QED
  BY <1>6 DEF a, b, c

\* read_value_type reads the tag and the flag that write_type_tag wrote.
LEMMA TypeRead ==
    ASSUME NEW e \in Encoders, NEW f \in Encoders, NEW last \in Encoders, Grows(f, last),
           NEW tag \in 1..25, NEW flag, Tagged(e, f, tag, flag), NEW d, Mirrors(d, e, last)
    PROVE  LET g == ReadValueType(d)
           IN  /\ Mirrors(g, f, last) /\ g.tag = tag /\ g.flag = flag
               /\ g.value_bytes = d.value_bytes
<1> DEFINE codes == FlagCodes(IF e.version5 THEN 5 ELSE 4)
           code == codes[flag]
           s == e.types  t == last.types
           b == GetInline(d, 1)
           c == GetInline(b, 1)
           g == ReadValueType(d)
<1>1. d \in Decoders /\ s \in Seq(Int) /\ t \in Seq(Int) /\ d.types = Bytes(Left(s, t))
      /\ d.version \in {4, 5}
  BY DEF Mirrors, Encoders
<1>2. /\ flag \in DOMAIN codes /\ code \in Int /\ flag \in DOMAIN FlagCodes5
      /\ code = 0 => flag = "None"
      /\ Flags(code, d.version) = {flag}
  <2>1. CASE e.version5
    BY <2>1 DEF Tagged, FlagCodes, FlagCodes5, Mirrors, Flags
  <2>2. CASE ~e.version5
    BY <2>2 DEF Tagged, FlagCodes, FlagCodes5, FlagCodes4, Mirrors, Flags
  <2> QED
    BY <2>1, <2>2
<1>3. /\ f.types = s \o TypeBytes(tag, code) /\ Continues(f.types, t) /\ f.types \in Seq(Int)
  BY DEF Tagged, Grows, Encoders
<1>4. g = TypeOf(b, c)
  BY DEF ReadValueType
<1>5. ASSUME NEW x \in Decoders, x.version = d.version, x.primary = d.primary,
             x.alternate = d.alternate, x.objects = d.objects, x.strings = d.strings,
             x.blobs = d.blobs, x.lengths = d.lengths, x.alternate_active = FALSE, x.failed = FALSE,
             x.remaining = d.remaining, x.types = Bytes(Left(f.types, t))
      PROVE  Mirrors(x, f, last)
  BY <1>5 DEF Mirrors, Tagged
<1> HIDE DEF codes, code, b, c, g
<1>6. CASE code = 0
  <2>1. f.types = Append(s, tag)
    BY <1>1, <1>3, <1>6 DEF TypeBytes
  <2>2. b = [d EXCEPT !.types = Bytes(Left(Append(s, tag), t)), !.got = tag] /\ b \in Decoders
    <3>1. Continues(Append(s, tag), t) /\ tag \in Int
      BY <1>3, <2>1
    <3> HIDE DEF s, t
    <3> QED
      BY <1>1, <3>1, InlineRead DEF b
  <2>3. b.got = tag
    BY <1>1, <2>2 DEF Decoders
  <2>4. g = [b EXCEPT !.tag = tag, !.flag = "None"]
    BY <1>4, <2>3 DEF TypeOf
  <2> DEFINE more == Bytes(Left(Append(s, tag), t))
  <2>5. more = Bytes(Left(f.types, t))
    BY <2>1
  <2> HIDE DEF more
  <2>6. /\ g \in Decoders /\ g.version = d.version /\ g.primary = d.primary
        /\ g.alternate = d.alternate /\ g.objects = d.objects /\ g.strings = d.strings
        /\ g.blobs = d.blobs /\ g.lengths = d.lengths /\ g.alternate_active = d.alternate_active
        /\ g.failed = d.failed /\ g.remaining = d.remaining /\ g.types = more
        /\ g.tag = tag /\ g.flag = "None" /\ g.value_bytes = d.value_bytes
    <3>1. b = [d EXCEPT !.types = more, !.got = tag]
      BY <2>2 DEF more
    <3>2. "None" \in DOMAIN FlagCodes5
      BY <1>2, <1>6
    <3> QED
      BY <1>1, <2>2, <2>4, <3>1, <3>2, ZenonT(60) DEF Decoders
  <2>7. d.alternate_active = FALSE /\ d.failed = FALSE
    BY DEF Mirrors
  <2> QED
    BY <1>2, <1>5, <1>6, <2>5, <2>6, <2>7 DEF g
<1>7. CASE code # 0
  <2> DEFINE x == tag + 128  s1 == Append(s, x)
  <2>1. f.types = Append(s1, code) /\ x \in Int /\ s1 \in Seq(Int)
    <3>1. f.types = s \o <<x, code>>
      BY <1>3, <1>7 DEF TypeBytes
    <3>2. x \in Int /\ code \in Int /\ s \in Seq(Int)
      BY <1>1, <1>2
    <3> HIDE DEF x, s
    <3>3. Append(s, x) \in Seq(Int)
      BY <3>2, AppendProperties
    <3> QED
      BY <3>1, <3>2, <3>3, TwoAppended
  <2>2. Continues(s1, t)
    <3> HIDE DEF s1
    <3>1. Continues(s1, f.types)
      BY <1>2, <2>1, ContinuesAppend
    <3> QED
      BY <1>1, <1>3, <2>1, <3>1, ContinuesFurther
  <2>3. b = [d EXCEPT !.types = Bytes(Left(s1, t)), !.got = x] /\ b \in Decoders
    <3> HIDE DEF s, t, x
    <3> QED
      BY <1>1, <2>1, <2>2, InlineRead DEF b
  <2> DEFINE more == Bytes(Left(f.types, t))  most == Bytes(Left(s1, t))
  <2>4. b.types = most
    <3> HIDE DEF most
    <3>1. b = [d EXCEPT !.types = most, !.got = x]
      BY <2>3 DEF most
    <3> QED
      BY <1>1, <3>1 DEF Decoders
  <2>5. c = [b EXCEPT !.types = more, !.got = code] /\ c \in Decoders
    <3>1. Continues(Append(s1, code), t)
      BY <1>3, <2>1
    <3>3. b.types = Bytes(Left(s1, t))
      BY <2>4
    <3>4. b \in Decoders /\ s1 \in Seq(Int) /\ t \in Seq(Int) /\ code \in Int
      BY <1>1, <1>2, <2>1, <2>3
    <3> HIDE DEF s1, t, most
    <3>2. /\ GetInline(b, 1) = [b EXCEPT !.types = Bytes(Left(Append(s1, code), t)), !.got = code]
          /\ GetInline(b, 1) \in Decoders
      BY <3>1, <3>3, <3>4, InlineRead
    <3> QED
      BY <2>1, <3>2 DEF c
  <2> HIDE DEF more, most
  <2>6. b.got = x /\ c.got = code /\ b.version = d.version /\ c.version = d.version
    <3>1. b = [d EXCEPT !.types = most, !.got = x]
      BY <2>3 DEF most
    <3> QED
      BY <1>1, <2>3, <2>5, <3>1 DEF Decoders
  <2>7. x % 64 = tag % 64 /\ tag % 64 = tag /\ ~(x < 128)
    OBVIOUS
  <2>8. g = [c EXCEPT !.tag = tag, !.flag = flag]
    <3>1. g = FlaggedType(c, code, tag)
      BY <1>1, <1>4, <2>6, <2>7 DEF TypeOf
    <3> QED
      BY <1>2, <2>6, <3>1, ZenonT(60) DEF FlaggedType
  <2>9. /\ g \in Decoders /\ g.version = d.version /\ g.primary = d.primary
        /\ g.alternate = d.alternate /\ g.objects = d.objects /\ g.strings = d.strings
        /\ g.blobs = d.blobs /\ g.lengths = d.lengths /\ g.alternate_active = d.alternate_active
        /\ g.failed = d.failed /\ g.remaining = d.remaining /\ g.types = more
        /\ g.tag = tag /\ g.flag = flag /\ g.value_bytes = d.value_bytes
    <3>1. b = [d EXCEPT !.types = most, !.got = x]
      BY <2>3 DEF most
    <3> HIDE DEF x
    <3>2. /\ b.version = d.version /\ b.primary = d.primary
          /\ b.alternate = d.alternate /\ b.objects = d.objects /\ b.strings = d.strings
          /\ b.blobs = d.blobs /\ b.lengths = d.lengths /\ b.alternate_active = d.alternate_active
          /\ b.failed = d.failed /\ b.remaining = d.remaining /\ b.value_bytes = d.value_bytes
      BY <1>1, <3>1 DEF Decoders
    <3>3. /\ c.version = b.version /\ c.primary = b.primary
          /\ c.alternate = b.alternate /\ c.objects = b.objects /\ c.strings = b.strings
          /\ c.blobs = b.blobs /\ c.lengths = b.lengths /\ c.alternate_active = b.alternate_active
          /\ c.failed = b.failed /\ c.remaining = b.remaining /\ c.value_bytes = b.value_bytes
          /\ c.types = more
      BY <2>3, <2>5 DEF Decoders
    <3>5. c \in Decoders /\ flag \in DOMAIN FlagCodes5 /\ tag \in Int
      BY <1>2, <2>5
    <3>6. g \in Decoders
      BY <2>8, <3>5 DEF Decoders
    <3>4. /\ g \in Decoders /\ g.version = c.version /\ g.primary = c.primary
          /\ g.alternate = c.alternate /\ g.objects = c.objects /\ g.strings = c.strings
          /\ g.blobs = c.blobs /\ g.lengths = c.lengths /\ g.alternate_active = c.alternate_active
          /\ g.failed = c.failed /\ g.remaining = c.remaining /\ g.value_bytes = c.value_bytes
          /\ g.types = c.types /\ g.tag = tag /\ g.flag = flag
      BY <2>8, <3>5, <3>6 DEF Decoders
    <3> QED
      BY <3>2, <3>3, <3>4
  <2>10. d.alternate_active = FALSE /\ d.failed = FALSE
    BY DEF Mirrors
  <2> QED
    BY <1>5, <2>9, <2>10 DEF g, more
<1> QED
  BY <1>6, <1>7

\* f is e but for one stream of numbers
AllBut(e, f, stream) ==
    /\ f.version5 = e.version5
    /\ \/ stream = "integers" \/ f.integers = e.integers
    /\ \/ stream = "doubles" \/ f.doubles = e.doubles
    /\ \/ stream = "objects" \/ f.objects = e.objects
    /\ f.types = e.types /\ f.blobs = e.blobs /\ f.lengths = e.lengths
    /\ f.remaining = e.remaining

\* A number in the stream of integers is read as it was written.
LEMMA IntegerRead ==
    ASSUME NEW e \in Encoders, NEW f \in Encoders, NEW last \in Encoders, Grows(f, last),
           NEW x \in Int, f.integers = Append(e.integers, x), AllBut(e, f, "integers"),
           NEW d, Mirrors(d, e, last)
    PROVE  LET g == GetActive(d, "integers")
           IN  Mirrors(g, f, last) /\ g.got = x /\ SameResults(d, g)
<1> DEFINE s == e.integers  t == last.integers
           left == Numbers(4, Left(s, t))
           more == Numbers(4, Left(Append(s, x), t))
           g == GetActive(d, "integers")
<1>1. d \in Decoders /\ s \in Seq(Int) /\ t \in Seq(Int) /\ d.primary["integers"] = left
      /\ d.version \in {4, 5} /\ d.alternate_active = FALSE
  BY DEF Mirrors, Encoders
<1>2. Continues(Append(s, x), t)
  BY DEF Grows
<1>3. HasNumber(left, 4) /\ left[1] = <<4, x>> /\ Skip(left, 4) = more
  <2> HIDE DEF s, t
  <2> QED
    BY <1>1, <1>2, NumberTaken
<1>4. more \in Seq(Cells)
  <2> HIDE DEF s, t
  <2>1. Append(s, x) \in Seq(Int)
    BY <1>1, AppendProperties
  <2> DEFINE a == Append(s, x)
  <2> HIDE DEF a
  <2>2. Left(a, t) \in Seq(Int)
    BY <1>1, <1>2, <2>1, LeftIs DEF a
  <2>3. Numbers(4, Left(a, t)) \in Seq(Cells)
    BY <2>2, NumbersAre
  <2> QED
    BY <2>3 DEF a
<1>5. more = Numbers(4, Left(f.integers, t))
  OBVIOUS
<1> HIDE DEF left, more
<1>6. g = [d EXCEPT !.primary = [@ EXCEPT !["integers"] = more], !.got = x]
  <2>1. g = Get(d, "primary", "integers")
    BY <1>1 DEF GetActive, Active
  <2>2. d["primary"]["integers"] = left /\ Width["integers"] = 4
    BY <1>1 DEF Width
  <2>3. /\ d.primary \in StreamsOfBuffer
        /\ left[1][2] = x
    BY <1>1, <1>3 DEF Decoders
  <2> HIDE DEF g
  <2> QED
    BY <1>3, <2>1, <2>2, <2>3 DEF Get
<1> HIDE DEF g
<1> DEFINE buffer == [d.primary EXCEPT !["integers"] = more]
<1>7. /\ buffer \in StreamsOfBuffer /\ buffer["integers"] = more
      /\ \A stream \in {"bytes", "shorts", "integers", "doubles"} :
            stream # "integers" => buffer[stream] = d.primary[stream]
  BY <1>1, <1>4 DEF Decoders, StreamsOfBuffer
<1>8. g = [d EXCEPT !.primary = buffer, !.got = x]
  BY <1>6
<1> HIDE DEF buffer
<1>9. /\ g \in Decoders /\ g.primary = buffer /\ g.got = x
      /\ g.version = d.version /\ g.alternate = d.alternate /\ g.objects = d.objects
      /\ g.types = d.types /\ g.strings = d.strings /\ g.blobs = d.blobs
      /\ g.lengths = d.lengths /\ g.alternate_active = d.alternate_active
      /\ g.failed = d.failed /\ g.remaining = d.remaining /\ g.value_bytes = d.value_bytes
      /\ g.text = d.text /\ g.tag = d.tag /\ g.flag = d.flag
  <2>1. g \in Decoders
    BY <1>1, <1>7, <1>8 DEF Decoders
  <2> QED
    BY <1>1, <1>8, <2>1 DEF Decoders
<1>10. Mirrors(g, f, last)
  BY <1>5, <1>7, <1>9 DEF Mirrors, AllBut
<1> QED
  BY <1>9, <1>10 DEF SameResults, g

\* A number in the stream of doubles is read as it was written.
LEMMA DoubleRead ==
    ASSUME NEW e \in Encoders, NEW f \in Encoders, NEW last \in Encoders, Grows(f, last),
           NEW x \in Int, f.doubles = Append(e.doubles, x), AllBut(e, f, "doubles"),
           NEW d, Mirrors(d, e, last)
    PROVE  LET g == GetActive(d, "doubles")
           IN  Mirrors(g, f, last) /\ g.got = x /\ SameResults(d, g)
<1> DEFINE s == e.doubles  t == last.doubles
           left == Numbers(8, Left(s, t))
           more == Numbers(8, Left(Append(s, x), t))
           g == GetActive(d, "doubles")
<1>1. d \in Decoders /\ s \in Seq(Int) /\ t \in Seq(Int) /\ d.primary["doubles"] = left
      /\ d.version \in {4, 5} /\ d.alternate_active = FALSE
  BY DEF Mirrors, Encoders
<1>2. Continues(Append(s, x), t)
  BY DEF Grows
<1>3. HasNumber(left, 8) /\ left[1] = <<8, x>> /\ Skip(left, 8) = more
  <2> HIDE DEF s, t
  <2> QED
    BY <1>1, <1>2, NumberTaken
<1>4. more \in Seq(Cells)
  <2> HIDE DEF s, t
  <2>1. Append(s, x) \in Seq(Int)
    BY <1>1, AppendProperties
  <2> DEFINE a == Append(s, x)
  <2> HIDE DEF a
  <2>2. Left(a, t) \in Seq(Int)
    BY <1>1, <1>2, <2>1, LeftIs DEF a
  <2>3. Numbers(8, Left(a, t)) \in Seq(Cells)
    BY <2>2, NumbersAre
  <2> QED
    BY <2>3 DEF a
<1>5. more = Numbers(8, Left(f.doubles, t))
  OBVIOUS
<1> HIDE DEF left, more
<1>6. g = [d EXCEPT !.primary = [@ EXCEPT !["doubles"] = more], !.got = x]
  <2>1. g = Get(d, "primary", "doubles")
    BY <1>1 DEF GetActive, Active
  <2>2. d["primary"]["doubles"] = left /\ Width["doubles"] = 8
    BY <1>1 DEF Width
  <2>3. /\ d.primary \in StreamsOfBuffer
        /\ left[1][2] = x
    BY <1>1, <1>3 DEF Decoders
  <2> HIDE DEF g
  <2> QED
    BY <1>3, <2>1, <2>2, <2>3 DEF Get
<1> HIDE DEF g
<1> DEFINE buffer == [d.primary EXCEPT !["doubles"] = more]
<1>7. /\ buffer \in StreamsOfBuffer /\ buffer["doubles"] = more
      /\ \A stream \in {"bytes", "shorts", "integers", "doubles"} :
            stream # "doubles" => buffer[stream] = d.primary[stream]
  BY <1>1, <1>4 DEF Decoders, StreamsOfBuffer
<1>8. g = [d EXCEPT !.primary = buffer, !.got = x]
  BY <1>6
<1> HIDE DEF buffer
<1>9. /\ g \in Decoders /\ g.primary = buffer /\ g.got = x
      /\ g.version = d.version /\ g.alternate = d.alternate /\ g.objects = d.objects
      /\ g.types = d.types /\ g.strings = d.strings /\ g.blobs = d.blobs
      /\ g.lengths = d.lengths /\ g.alternate_active = d.alternate_active
      /\ g.failed = d.failed /\ g.remaining = d.remaining /\ g.value_bytes = d.value_bytes
      /\ g.text = d.text /\ g.tag = d.tag /\ g.flag = d.flag
  <2>1. g \in Decoders
    BY <1>1, <1>7, <1>8 DEF Decoders
  <2> QED
    BY <1>1, <1>8, <2>1 DEF Decoders
<1>10. Mirrors(g, f, last)
  BY <1>5, <1>7, <1>9 DEF Mirrors, AllBut
<1> QED
  BY <1>9, <1>10 DEF SameResults, g

\* A number in the stream of objects is read as it was written.
LEMMA ObjectRead ==
    ASSUME NEW e \in Encoders, NEW f \in Encoders, NEW last \in Encoders, Grows(f, last),
           NEW x \in Int, f.objects = Append(e.objects, x), AllBut(e, f, "objects"),
           NEW d, Mirrors(d, e, last)
    PROVE  LET g == Get(d, "objects", "integers")
           IN  Mirrors(g, f, last) /\ g.got = x /\ SameResults(d, g)
<1> DEFINE s == e.objects  t == last.objects
           left == Numbers(4, Left(s, t))
           more == Numbers(4, Left(Append(s, x), t))
           g == Get(d, "objects", "integers")
<1>1. d \in Decoders /\ s \in Seq(Int) /\ t \in Seq(Int) /\ d.objects["integers"] = left
      /\ d.version \in {4, 5} /\ d.alternate_active = FALSE
  BY DEF Mirrors, Encoders
<1>2. Continues(Append(s, x), t)
  BY DEF Grows
<1>3. HasNumber(left, 4) /\ left[1] = <<4, x>> /\ Skip(left, 4) = more
  <2> HIDE DEF s, t
  <2> QED
    BY <1>1, <1>2, NumberTaken
<1>4. more \in Seq(Cells)
  <2> HIDE DEF s, t
  <2>1. Append(s, x) \in Seq(Int)
    BY <1>1, AppendProperties
  <2> DEFINE a == Append(s, x)
  <2> HIDE DEF a
  <2>2. Left(a, t) \in Seq(Int)
    BY <1>1, <1>2, <2>1, LeftIs DEF a
  <2>3. Numbers(4, Left(a, t)) \in Seq(Cells)
    BY <2>2, NumbersAre
  <2> QED
    BY <2>3 DEF a
<1>5. more = Numbers(4, Left(f.objects, t))
  OBVIOUS
<1> HIDE DEF left, more
<1>6. g = [d EXCEPT !.objects = [@ EXCEPT !["integers"] = more], !.got = x]
  <2>1. g = Get(d, "objects", "integers")
    BY <1>1 DEF GetActive, Active
  <2>2. d["objects"]["integers"] = left /\ Width["integers"] = 4
    BY <1>1 DEF Width
  <2>3. /\ d.objects \in StreamsOfBuffer
        /\ left[1][2] = x
    BY <1>1, <1>3 DEF Decoders
  <2> HIDE DEF g
  <2> QED
    BY <1>3, <2>1, <2>2, <2>3 DEF Get
<1> HIDE DEF g
<1> DEFINE buffer == [d.objects EXCEPT !["integers"] = more]
<1>7. /\ buffer \in StreamsOfBuffer /\ buffer["integers"] = more
      /\ \A stream \in {"bytes", "shorts", "integers", "doubles"} :
            stream # "integers" => buffer[stream] = d.objects[stream]
  BY <1>1, <1>4 DEF Decoders, StreamsOfBuffer
<1>8. g = [d EXCEPT !.objects = buffer, !.got = x]
  BY <1>6
<1> HIDE DEF buffer
<1>9. /\ g \in Decoders /\ g.objects = buffer /\ g.got = x
      /\ g.version = d.version /\ g.alternate = d.alternate /\ g.primary = d.primary
      /\ g.types = d.types /\ g.strings = d.strings /\ g.blobs = d.blobs
      /\ g.lengths = d.lengths /\ g.alternate_active = d.alternate_active
      /\ g.failed = d.failed /\ g.remaining = d.remaining /\ g.value_bytes = d.value_bytes
      /\ g.text = d.text /\ g.tag = d.tag /\ g.flag = d.flag
  <2>1. g \in Decoders
    BY <1>1, <1>7, <1>8 DEF Decoders
  <2> QED
    BY <1>1, <1>8, <2>1 DEF Decoders
<1>10. Mirrors(g, f, last)
  BY <1>5, <1>7, <1>9 DEF Mirrors, AllBut
<1> QED
  BY <1>9, <1>10 DEF SameResults, g

\* d has read what the encoder has written, but what follows
Follows(d, e, last) == Mirrors(d, e, last) /\ d.value_bytes = e.value_bytes

\* An identifier that names a text in the table is read as the text.
LEMMA TextFound ==
    ASSUME NEW f \in Encoders, NEW last \in Encoders, Grows(f, last), NEW text \in Seq(Int),
           NEW id, Identifies(id, f.strings, text), NEW c, Mirrors(c, f, last),
           f.value_bytes = c.value_bytes + Len(text), Fits(f.value_bytes)
    PROVE  LET g == ReadIndexedString(c, id)
           IN  /\ Follows(g, f, last) /\ g.text = text
               /\ g.tag = c.tag /\ g.flag = c.flag /\ g.got = c.got
<1> DEFINE g == ReadIndexedString(c, id)
<1>1. c \in Decoders /\ c.strings = last.strings /\ Continues(f.strings, last.strings)
      /\ f.strings \in Seq(Seq(Int)) /\ last.strings \in Seq(Seq(Int))
  BY DEF Mirrors, Grows, Encoders
<1>2. Len(f.strings) \in Nat /\ Len(last.strings) \in Nat /\ Len(text) \in Nat
  BY <1>1, LenProperties
<1>3. CASE id = -1
  <2>1. text = <<>> /\ g = [c EXCEPT !.text = <<>>] /\ Len(text) = 0
    BY <1>3 DEF Identifies, ReadIndexedString
  <2>2. <<>> \in Seq(Int) /\ c.value_bytes \in Int
    BY <1>1 DEF Decoders
  <2> HIDE DEF g
  <2>3. /\ g \in Decoders /\ g.version = c.version /\ g.primary = c.primary
        /\ g.alternate = c.alternate /\ g.objects = c.objects /\ g.strings = c.strings
        /\ g.blobs = c.blobs /\ g.lengths = c.lengths /\ g.alternate_active = c.alternate_active
        /\ g.failed = c.failed /\ g.remaining = c.remaining /\ g.value_bytes = c.value_bytes
        /\ g.types = c.types /\ g.tag = c.tag /\ g.flag = c.flag /\ g.got = c.got
        /\ g.text = <<>>
    BY <1>1, <2>1, <2>2 DEF Decoders
  <2>4. Follows(g, f, last)
    BY <2>1, <2>2, <2>3 DEF Follows, Mirrors
  <2> QED
    BY <2>1, <2>3, <2>4 DEF g
<1>4. CASE id # -1
  <2>1. id \in 0..(Len(f.strings) - 1) /\ f.strings[id + 1] = text
    BY <1>4 DEF Identifies
  <2>2. id \in 0..(Len(c.strings) - 1) /\ c.strings[id + 1] = text
    <3> DEFINE n == Len(f.strings)  m == Len(last.strings)
    <3>1. n <= m /\ \A i \in 1..n : last.strings[i] = f.strings[i]
      BY <1>1 DEF Continues
    <3>2. n \in Nat /\ m \in Nat /\ id \in 0..(n - 1)
      BY <1>2, <2>1
    <3> HIDE DEF n, m
    <3>3. id \in 0..(m - 1) /\ id + 1 \in 1..n
      BY <3>1, <3>2
    <3>4. last.strings[id + 1] = text
      BY <2>1, <3>1, <3>3
    <3> QED
      BY <1>1, <3>3, <3>4 DEF m
  <2>3. g = AddText(c, text)
    BY <1>4, <2>2 DEF ReadIndexedString
  <2> DEFINE total == c.value_bytes + Len(text)
  <2>4. g = [c EXCEPT !.text = text, !.value_bytes = total] /\ total = f.value_bytes
    BY <2>3 DEF AddText, Need
  <2>5. total \in Int
    <3>1. c.value_bytes \in Int
      BY <1>1 DEF Decoders
    <3> QED
      BY <1>2, <3>1
  <2> HIDE DEF g, total
  <2>6. g \in Decoders
    BY <1>1, <2>4, <2>5 DEF Decoders
  <2>7. /\ g.version = c.version /\ g.primary = c.primary
        /\ g.alternate = c.alternate /\ g.objects = c.objects /\ g.strings = c.strings
        /\ g.blobs = c.blobs /\ g.lengths = c.lengths /\ g.alternate_active = c.alternate_active
        /\ g.failed = c.failed /\ g.remaining = c.remaining /\ g.value_bytes = total
        /\ g.types = c.types /\ g.tag = c.tag /\ g.flag = c.flag /\ g.got = c.got
        /\ g.text = text
    BY <1>1, <2>4 DEF Decoders
  <2>8. Follows(g, f, last)
    BY <2>4, <2>6, <2>7 DEF Follows, Mirrors
  <2> QED
    BY <2>7, <2>8 DEF g
<1> QED
  BY <1>3, <1>4

\* A text is read as it was written.
LEMMA StringRead ==
    ASSUME NEW e \in Encoders, NEW last \in Encoders, NEW text \in Seq(Int),
           Grows(WriteString(e, text), last), ~last.failed,
           NEW d, Follows(d, e, last)
    PROVE  LET g == GetActive(d, "integers")
               h == TextOf(g)
           IN  /\ Follows(h, WriteString(e, text), last) /\ h.text = text
               /\ h.tag = d.tag /\ h.flag = d.flag
               /\ text # <<>> => g.got # -1
<1> DEFINE f == WriteString(e, text)  g == GetActive(d, "integers")  h == TextOf(g)
<1>1. f \in Encoders /\ Grows(f, last)
  BY WriteStringGrows
<1>2. ~f.failed
  BY DEF Grows
<1>3. /\ f.version5 = e.version5 /\ f.objects = e.objects /\ f.doubles = e.doubles
      /\ f.types = e.types /\ f.blobs = e.blobs /\ f.lengths = e.lengths
      /\ f.remaining = e.remaining /\ f.integers = Append(e.integers, f.id)
      /\ f.value_bytes = e.value_bytes + Len(text)
      /\ Fits(e.value_bytes + Len(text)) /\ Identifies(f.id, f.strings, text)
  BY <1>2, WriteStringGrows
<1> HIDE DEF f
<1>4. f.id \in Int /\ AllBut(e, f, "integers")
  BY <1>1, <1>3 DEF Encoders, AllBut
<1>5. Mirrors(d, e, last) /\ d.value_bytes = e.value_bytes
  BY DEF Follows
<1> DEFINE x == f.id
<1>6. x \in Int /\ f.integers = Append(e.integers, x)
  BY <1>3, <1>4
<1> HIDE DEF x
<1>7. Mirrors(g, f, last) /\ g.got = x /\ SameResults(d, g)
  BY <1>1, <1>4, <1>5, <1>6, IntegerRead
<1> HIDE DEF g
<1>8. g.value_bytes = e.value_bytes /\ g.tag = d.tag /\ g.flag = d.flag
  BY <1>5, <1>7 DEF SameResults
<1>9. Identifies(x, f.strings, text) /\ f.value_bytes = g.value_bytes + Len(text) /\ Fits(f.value_bytes)
  BY <1>3, <1>8 DEF x
<1>10. LET k == ReadIndexedString(g, x)
       IN  /\ Follows(k, f, last) /\ k.text = text
           /\ k.tag = g.tag /\ k.flag = g.flag /\ k.got = g.got
  BY <1>1, <1>7, <1>9, TextFound
<1>11. h = ReadIndexedString(g, x)
  BY <1>7 DEF TextOf
<1> HIDE DEF h
<1>12. text # <<>> => g.got # -1
  BY <1>7, <1>9 DEF Identifies
<1> QED
  BY <1>8, <1>10, <1>11, <1>12 DEF f, g, h

\* The bytes of a text are taken from a stream of them as they were added.
LEMMA BytesTaken ==
    ASSUME NEW s \in Seq(Int), NEW text \in Seq(Int), NEW t \in Seq(Int), Continues(s \o text, t)
    PROVE  LET left == Bytes(Left(s, t))
           IN  /\ Len(text) <= Len(left)
               /\ ByteValues(SubSeq(left, 1, Len(text))) = text
               /\ SubSeq(left, Len(text) + 1, Len(left)) = Bytes(Left(s \o text, t))
<1> DEFINE u == s \o text  a == Left(s, t)  b == Left(u, t)  n == Len(text)
           p == Bytes(a)  q == Bytes(b)
<1>1. /\ u \in Seq(Int) /\ Len(u) = Len(s) + n
      /\ \A i \in 1..(Len(s) + n) : u[i] = IF i <= Len(s) THEN s[i] ELSE text[i - Len(s)]
  BY ConcatProperties
<1>2. Len(s) \in Nat /\ n \in Nat /\ Len(t) \in Nat
  BY LenProperties
<1>3. Continues(u, t)
  OBVIOUS
<1> HIDE DEF u
<1>4. Continues(s, t)
  <2>1. Len(u) <= Len(t) /\ \A i \in 1..Len(u) : t[i] = u[i]
    BY <1>3 DEF Continues
  <2>2. Len(s) <= Len(t)
    BY <1>1, <1>2, <2>1
  <2>3. ASSUME NEW i \in 1..Len(s) PROVE t[i] = s[i]
    <3>1. i \in 1..Len(u) /\ i \in 1..(Len(s) + n) /\ i <= Len(s)
      BY <1>1, <1>2
    <3> QED
      BY <1>1, <2>1, <3>1
  <2> QED
    BY <2>2, <2>3 DEF Continues
<1>5. /\ a \in Seq(Int) /\ Len(a) = Len(t) - Len(s)
      /\ \A i \in 1..(Len(t) - Len(s)) : a[i] = t[Len(s) + i]
  BY <1>4, LeftIs
<1>6. /\ b \in Seq(Int) /\ Len(b) = Len(t) - Len(u)
      /\ \A i \in 1..(Len(t) - Len(u)) : b[i] = t[Len(u) + i]
  BY <1>1, <1>3, LeftIs, ZenonT(60)
<1> HIDE DEF a, b, n
<1>7. /\ p \in Seq(Cells) /\ Len(p) = Len(a)
      /\ \A i \in 1..Len(a) : p[i] = <<1, a[i]>>
  BY <1>5, BytesAre
<1>8. /\ q \in Seq(Cells) /\ Len(q) = Len(b)
      /\ \A i \in 1..Len(b) : q[i] = <<1, b[i]>>
  BY <1>6, BytesAre
<1>9. Len(t) >= Len(s) + n /\ \A i \in 1..n : t[Len(s) + i] = text[i]
  <2>1. Len(u) <= Len(t) /\ \A i \in 1..Len(u) : t[i] = u[i]
    BY <1>3 DEF Continues
  <2>2. ASSUME NEW i \in 1..n PROVE t[Len(s) + i] = text[i]
    <3>1. Len(s) + i \in 1..(Len(s) + n) /\ ~(Len(s) + i <= Len(s)) /\ (Len(s) + i) - Len(s) = i
      BY <1>2
    <3> QED
      BY <1>1, <2>1, <3>1
  <2> QED
    BY <1>1, <2>1, <2>2
<1> HIDE DEF p, q
<1>10. n <= Len(p) /\ Len(p) = Len(b) + n /\ Len(b) \in Nat
  BY <1>1, <1>2, <1>5, <1>6, <1>7, <1>9
<1>11. \A i \in 1..Len(p) : p[i] \in Cells
  BY <1>7, <1>10, ElementOfSeq
<1> DEFINE front == SubSeq(p, 1, n)  back == SubSeq(p, n + 1, Len(p))
<1>12. /\ front \in Seq(Cells) /\ Len(front) = n
       /\ \A i \in 1..n : front[i] = p[i]
  BY <1>2, <1>10, <1>11, SubSeqProperties
<1>13. /\ back \in Seq(Cells) /\ Len(back) = Len(b)
       /\ \A i \in 1..Len(b) : back[i] = p[n + i]
  <2>1. n + 1 \in Int /\ Len(p) \in Int /\ \A i \in (n + 1)..Len(p) : p[i] \in Cells
    BY <1>2, <1>10, <1>11
  <2>2. /\ back \in Seq(Cells)
        /\ Len(back) = IF n + 1 <= Len(p) THEN Len(p) - (n + 1) + 1 ELSE 0
        /\ \A i \in 1..(Len(p) - (n + 1) + 1) : back[i] = p[(n + 1) + i - 1]
    BY <2>1, SubSeqProperties, SMTT(60)
  <2> HIDE DEF back
  <2>3. \A i \in 1..Len(b) : (n + 1) + i - 1 = n + i
    BY <1>2, <1>10
  <2> QED
    BY <1>2, <1>10, <2>2, <2>3
<1> HIDE DEF front, back
<1>14. back = q
  <2>1. ASSUME NEW i \in 1..Len(b) PROVE back[i] = q[i]
    <3>1. n + i \in 1..Len(p) /\ i \in 1..(Len(t) - Len(u)) /\ n + i \in 1..(Len(t) - Len(s))
          /\ Len(s) + (n + i) = Len(u) + i
      BY <1>1, <1>2, <1>5, <1>6, <1>7, <1>10
    <3>2. a[n + i] = t[Len(s) + (n + i)] /\ b[i] = t[Len(u) + i]
      BY <1>5, <1>6, <3>1
    <3> QED
      BY <1>7, <1>8, <1>13, <3>1, <3>2, ZenonT(60)
  <2> QED
    BY <1>8, <1>13, <2>1, SeqEqual
<1>15. ByteValues(front) = text
  <2>1. \A i \in 1..n : front[i][2] = text[i]
    <3> SUFFICES ASSUME NEW i \in 1..n PROVE front[i][2] = text[i]
      OBVIOUS
    <3>1. i \in 1..Len(a) /\ i \in 1..(Len(t) - Len(s))
      BY <1>2, <1>5, <1>9
    <3>2. front[i] = <<1, a[i]>> /\ a[i] = t[Len(s) + i]
      BY <1>5, <1>7, <1>12, <3>1
    <3> QED
      BY <1>9, <3>2
  <2>2. DOMAIN front = 1..n
    BY <1>12, LenProperties
  <2>3. text = [i \in 1..n |-> text[i]]
    BY LenProperties DEF n
  <2> QED
    BY <2>1, <2>2, <2>3 DEF ByteValues
<1> QED
  BY <1>10, <1>14, <1>15 DEF front, back, n, p, q, a, b, u

\* f is e with a blob
BlobAdded(e, f, text) ==
    /\ f.lengths = Append(e.lengths, Len(text)) /\ f.blobs = e.blobs \o text
    /\ f.version5 = e.version5 /\ f.integers = e.integers /\ f.doubles = e.doubles
    /\ f.objects = e.objects /\ f.types = e.types /\ f.remaining = e.remaining
    /\ f.value_bytes = e.value_bytes + Len(text) /\ Fits(f.value_bytes)

\* The bytes of a blob and its length are taken as they were added.
LEMMA BlobTaken ==
    ASSUME NEW e \in Encoders, NEW last \in Encoders, NEW text \in Seq(Int), NEW f \in Encoders,
           Grows(f, last), BlobAdded(e, f, text), NEW d, Follows(d, e, last)
    PROVE  LET g == NextBlob(d)
           IN  Follows(g, f, last) /\ g.text = text
<1>0. /\ f.lengths = Append(e.lengths, Len(text)) /\ f.blobs = e.blobs \o text
      /\ f.version5 = e.version5 /\ f.integers = e.integers /\ f.doubles = e.doubles
      /\ f.objects = e.objects /\ f.types = e.types /\ f.remaining = e.remaining
      /\ f.value_bytes = e.value_bytes + Len(text) /\ Fits(f.value_bytes)
  BY DEF BlobAdded
<1> DEFINE n == Len(text)
<1>1. /\ d \in Decoders /\ d.lengths = Left(e.lengths, last.lengths)
      /\ d.blobs = Bytes(Left(e.blobs, last.blobs)) /\ d.value_bytes = e.value_bytes
  BY DEF Follows, Mirrors
<1>2. /\ e.lengths \in Seq(Int) /\ last.lengths \in Seq(Int) /\ e.blobs \in Seq(Int)
      /\ last.blobs \in Seq(Int) /\ n \in Int /\ f.blobs \in Seq(Int) /\ f.lengths \in Seq(Int)
  BY LenProperties DEF Encoders
<1>3. Continues(f.lengths, last.lengths) /\ Continues(f.blobs, last.blobs)
  BY DEF Grows
<1>4. d.lengths # <<>> /\ d.lengths[1] = n /\ Tail(d.lengths) = Left(f.lengths, last.lengths)
  <2> HIDE DEF n
  <2>1. Continues(Append(e.lengths, n), last.lengths) /\ f.lengths = Append(e.lengths, n)
    BY <1>0, <1>3 DEF n
  <2> DEFINE s == e.lengths  t == last.lengths
  <2>2. s \in Seq(Int) /\ t \in Seq(Int) /\ Continues(Append(s, n), t) /\ n \in Int
    BY <1>2, <2>1
  <2> HIDE DEF s, t
  <2>3. Left(s, t) # <<>> /\ Left(s, t)[1] = n /\ Tail(Left(s, t)) = Left(Append(s, n), t)
    BY <2>2, TailOfLeft, ZenonT(60)
  <2> QED
    BY <1>1, <2>1, <2>3 DEF s, t
<1>5. /\ n <= Len(d.blobs) /\ ByteValues(SubSeq(d.blobs, 1, n)) = text
      /\ SubSeq(d.blobs, n + 1, Len(d.blobs)) = Bytes(Left(f.blobs, last.blobs))
  <2> DEFINE s == e.blobs  t == last.blobs
  <2>1. s \in Seq(Int) /\ t \in Seq(Int) /\ Continues(s \o text, t)
    BY <1>0, <1>2, <1>3
  <2> HIDE DEF s, t
  <2>2. LET left == Bytes(Left(s, t))
        IN  /\ Len(text) <= Len(left)
            /\ ByteValues(SubSeq(left, 1, Len(text))) = text
            /\ SubSeq(left, Len(text) + 1, Len(left)) = Bytes(Left(s \o text, t))
    BY <2>1, BytesTaken
  <2> QED
    BY <1>0, <1>1, <2>2 DEF s, t
<1> DEFINE rest == Left(f.lengths, last.lengths)  more == Bytes(Left(f.blobs, last.blobs))
           total == d.value_bytes + n
           g == NextBlob(d)
<1>6. rest \in Seq(Int) /\ more \in Seq(Cells) /\ total \in Int
  <2>1. rest \in Seq(Int) /\ Left(f.blobs, last.blobs) \in Seq(Int)
    BY <1>2, <1>3, LeftIs
  <2>2. more \in Seq(Cells)
    BY <2>1, BytesAre
  <2>3. d.value_bytes \in Int
    BY <1>1 DEF Decoders
  <2> QED
    BY <1>2, <2>1, <2>2, <2>3
<1>7. g = [d EXCEPT !.lengths = rest, !.blobs = more, !.text = text, !.value_bytes = total]
  <2> DEFINE h == [d EXCEPT !.lengths = rest, !.blobs = more]
  <2>1. ~(d.lengths[1] > Len(d.blobs))
    <3>1. Len(d.blobs) \in Nat
      BY <1>1, LenProperties DEF Decoders
    <3> QED
      BY <1>2, <1>4, <1>5, <3>1
  <2>2. g = AddText(h, text)
    BY <1>4, <1>5, <2>1 DEF NextBlob
  <2>3. h.value_bytes = d.value_bytes /\ total = f.value_bytes
    BY <1>0, <1>1 DEF Decoders
  <2> HIDE DEF rest, more, g, h
  <2>4. g = [h EXCEPT !.text = text, !.value_bytes = total]
    BY <1>0, <2>2, <2>3 DEF AddText, Need
  <2> HIDE DEF total
  <2> QED
    BY <1>1, <2>4 DEF h, Decoders
<1> HIDE DEF rest, more, total, g
<1>8. g \in Decoders
  BY <1>1, <1>6, <1>7 DEF Decoders
<1>9. /\ g.version = d.version /\ g.primary = d.primary
      /\ g.alternate = d.alternate /\ g.objects = d.objects /\ g.strings = d.strings
      /\ g.blobs = more /\ g.lengths = rest /\ g.alternate_active = d.alternate_active
      /\ g.failed = d.failed /\ g.remaining = d.remaining /\ g.value_bytes = total
      /\ g.types = d.types /\ g.text = text
  BY <1>1, <1>7 DEF Decoders
<1>10. Follows(g, f, last)
  BY <1>0, <1>1, <1>8, <1>9 DEF Follows, Mirrors, more, rest, total, n
<1> QED
  BY <1>9, <1>10 DEF g

\* The type of a value is read and the value counted as they were written.
LEMMA ValueBegun ==
    ASSUME NEW e \in Encoders, NEW last \in Encoders, NEW depth, NEW tag \in 1..25, NEW flag,
           Grows(WriteTypeTag(Counted(e, depth), tag, flag), last), ~last.failed,
           NEW d, Follows(d, e, last)
    PROVE  LET c == CountValue(ReadValueType(d), depth)
           IN  /\ Follows(c, WriteTypeTag(Counted(e, depth), tag, flag), last)
               /\ c.tag = tag /\ c.flag = flag
<1> DEFINE e1 == Counted(e, depth)  f == WriteTypeTag(e1, tag, flag)
           n == e.remaining  f0 == [f EXCEPT !.remaining = n]
           t == ReadValueType(d)  c == CountValue(t, depth)
<1>1. e1 \in Encoders /\ Grows(e, e1)
  BY CountedGrows
<1>2. f \in Encoders /\ Grows(e1, f) /\ (~f.failed => Tagged(e1, f, tag, flag))
  <2> HIDE DEF e1
  <2> QED
    BY <1>1, WriteTypeTagGrows
<1>3. ~f.failed /\ ~e1.failed
  <2>1. Grows(f, last)
    OBVIOUS
  <2> HIDE DEF f, e1
  <2> QED
    BY <1>2, <2>1 DEF Grows
<1>4. /\ depth <= MaxDepth /\ e.remaining > 0
      /\ e1 = [e EXCEPT !.remaining = @ - 1]
      /\ e1.remaining = e.remaining - 1
  BY <1>3, CountedGrows
<1>5. Grows(f, last)
  OBVIOUS
<1>6. n \in Int
  BY DEF Encoders
<1> HIDE DEF f, e1, n
<1>7. /\ e1.version5 = e.version5 /\ e1.objects = e.objects /\ e1.strings = e.strings
      /\ e1.integers = e.integers /\ e1.doubles = e.doubles /\ e1.blobs = e.blobs
      /\ e1.lengths = e.lengths /\ e1.value_bytes = e.value_bytes /\ e1.types = e.types
  BY <1>4 DEF Encoders
<1>8. /\ f0 \in Encoders /\ f0.version5 = f.version5 /\ f0.objects = f.objects
      /\ f0.strings = f.strings /\ f0.integers = f.integers /\ f0.doubles = f.doubles
      /\ f0.blobs = f.blobs /\ f0.lengths = f.lengths /\ f0.value_bytes = f.value_bytes
      /\ f0.types = f.types /\ f0.remaining = n /\ f0.failed = f.failed
  BY <1>2, <1>6 DEF Encoders
<1> HIDE DEF f0
<1>9. Grows(f0, last)
  BY <1>5, <1>8 DEF Grows
<1>10. Tagged(e, f0, tag, flag)
  <2>1. Tagged(e1, f, tag, flag)
    BY <1>2, <1>3
  <2> QED
    BY <1>7, <1>8, <2>1 DEF Tagged, n
<1>11. Mirrors(d, e, last) /\ d.value_bytes = e.value_bytes
  BY DEF Follows
<1>12. Mirrors(t, f0, last) /\ t.tag = tag /\ t.flag = flag /\ t.value_bytes = d.value_bytes
  BY <1>8, <1>9, <1>10, <1>11, TypeRead
<1> HIDE DEF t
<1>13. t \in Decoders /\ t.version \in {4, 5} /\ t.remaining = n
  BY <1>8, <1>12 DEF Mirrors
<1> DEFINE m == n - 1
<1>14. c = [t EXCEPT !.remaining = m] /\ m \in Int
  <2>1. IsTag(t.tag, t.version)
    BY <1>12, <1>13 DEF IsTag
  <2>2. Need(t, depth <= MaxDepth /\ t.remaining > 0 /\ IsTag(t.tag, t.version)) = t
    BY <1>4, <1>13, <2>1 DEF Need, n
  <2> QED
    BY <1>6, <1>13, <2>2 DEF CountValue
<1> HIDE DEF c, m
<1>15. /\ c \in Decoders /\ c.version = t.version /\ c.primary = t.primary
       /\ c.alternate = t.alternate /\ c.objects = t.objects /\ c.strings = t.strings
       /\ c.blobs = t.blobs /\ c.lengths = t.lengths /\ c.alternate_active = t.alternate_active
       /\ c.failed = t.failed /\ c.remaining = m /\ c.value_bytes = t.value_bytes
       /\ c.types = t.types /\ c.tag = t.tag /\ c.flag = t.flag
  BY <1>13, <1>14 DEF Decoders
<1>16. f.remaining = m /\ f.value_bytes = e.value_bytes
  <2>1. Tagged(e1, f, tag, flag)
    BY <1>2, <1>3
  <2> QED
    BY <1>4, <1>7, <2>1 DEF Tagged, m, n
<1>17. Follows(c, f, last)
  BY <1>8, <1>11, <1>12, <1>15, <1>16 DEF Follows, Mirrors
<1> QED
  BY <1>12, <1>15, <1>17 DEF c, t, f, e1

\* A number behind a type
LEMMA DoubleFollows ==
    ASSUME NEW f \in Encoders, NEW last \in Encoders, NEW x \in Int,
           Grows([f EXCEPT !.doubles = Append(@, x)], last), NEW d, Follows(d, f, last)
    PROVE  LET g == GetActive(d, "doubles")
           IN  Follows(g, [f EXCEPT !.doubles = Append(@, x)], last) /\ g.got = x
<1> DEFINE h == [f EXCEPT !.doubles = Append(@, x)]  g == GetActive(d, "doubles")
<1>1. /\ h \in Encoders /\ h.doubles = Append(f.doubles, x) /\ h.version5 = f.version5
      /\ h.integers = f.integers /\ h.objects = f.objects /\ h.types = f.types
      /\ h.blobs = f.blobs /\ h.lengths = f.lengths /\ h.remaining = f.remaining
      /\ h.value_bytes = f.value_bytes
  BY AppendDouble
<1>2. Grows(h, last)
  OBVIOUS
<1> HIDE DEF h
<1>3. AllBut(f, h, "doubles")
  BY <1>1 DEF AllBut
<1>4. Mirrors(g, h, last) /\ g.got = x /\ SameResults(d, g)
  BY <1>1, <1>2, <1>3, DoubleRead DEF Follows
<1> HIDE DEF g
<1>5. Follows(g, h, last)
  BY <1>1, <1>4 DEF Follows, SameResults
<1> QED
  BY <1>4, <1>5 DEF g, h

\* A number that is added to the integers of an encoder is read.
LEMMA IntegerFollows ==
    ASSUME NEW f \in Encoders, NEW last \in Encoders, NEW x \in Int,
           Grows([f EXCEPT !.integers = Append(@, x)], last), NEW d, Follows(d, f, last)
    PROVE  LET g == GetActive(d, "integers")
           IN  Follows(g, [f EXCEPT !.integers = Append(@, x)], last) /\ g.got = x /\ SameResults(d, g)
<1> DEFINE h == [f EXCEPT !.integers = Append(@, x)]  g == GetActive(d, "integers")
<1>1. /\ h \in Encoders /\ h.integers = Append(f.integers, x) /\ h.version5 = f.version5
      /\ h.doubles = f.doubles /\ h.objects = f.objects /\ h.types = f.types
      /\ h.blobs = f.blobs /\ h.lengths = f.lengths /\ h.remaining = f.remaining
      /\ h.value_bytes = f.value_bytes
  BY AppendInteger
<1>2. Grows(h, last)
  OBVIOUS
<1> HIDE DEF h
<1>3. AllBut(f, h, "integers")
  BY <1>1 DEF AllBut
<1>4. Mirrors(g, h, last) /\ g.got = x /\ SameResults(d, g)
  BY <1>1, <1>2, <1>3, IntegerRead DEF Follows
<1> HIDE DEF g
<1>5. Follows(g, h, last)
  BY <1>1, <1>4 DEF Follows, SameResults
<1> QED
  BY <1>4, <1>5 DEF g, h

\* A number that is added to the objects of an encoder is read.
LEMMA ObjectFollows ==
    ASSUME NEW f \in Encoders, NEW last \in Encoders, NEW x \in Int,
           Grows([f EXCEPT !.objects = Append(@, x)], last), NEW d, Follows(d, f, last)
    PROVE  LET g == Get(d, "objects", "integers")
           IN  Follows(g, [f EXCEPT !.objects = Append(@, x)], last) /\ g.got = x /\ SameResults(d, g)
<1> DEFINE h == [f EXCEPT !.objects = Append(@, x)]  g == Get(d, "objects", "integers")
<1>1. /\ h \in Encoders /\ h.objects = Append(f.objects, x) /\ h.version5 = f.version5
      /\ h.doubles = f.doubles /\ h.integers = f.integers /\ h.types = f.types
      /\ h.blobs = f.blobs /\ h.lengths = f.lengths /\ h.remaining = f.remaining
      /\ h.value_bytes = f.value_bytes
  BY AppendObject
<1>2. Grows(h, last)
  OBVIOUS
<1> HIDE DEF h
<1>3. AllBut(f, h, "objects")
  BY <1>1 DEF AllBut
<1>4. Mirrors(g, h, last) /\ g.got = x /\ SameResults(d, g)
  BY <1>1, <1>2, <1>3, ObjectRead DEF Follows
<1> HIDE DEF g
<1>5. Follows(g, h, last)
  BY <1>1, <1>4 DEF Follows, SameResults
<1> QED
  BY <1>4, <1>5 DEF g, h

\* What a reader makes of a type that it has begun
LEMMA TypedValueIs ==
    ASSUME NEW open, NEW c, ~c.failed, c.tag \notin ContainerTags
    PROVE  ReadTypedValue(open, c) = AddResult(open, ReadScalar(c, c.tag, c.flag))
  BY DEF ReadTypedValue

\* The reader's next value is v, and what the encoder wrote for it is read
Reads(open, d, depth, v, f, last) ==
    LET r == ReadTypedValue(open, CountValue(ReadValueType(d), depth))
    IN  r.open = AddItem(open, v) /\ Follows(r.decoder, f, last)

\* A value that its type alone says is read as it was written: null, a boolean,
\* zero or one.
LEMMA ConstantRead ==
    ASSUME NEW e \in Encoders, NEW last \in Encoders, NEW depth,
           NEW tag \in DOMAIN ConstantTags, NEW flag, NEW v,
           v = Scalar(ConstantTags[tag][1], flag, ConstantTags[tag][2]),
           Grows(WriteTypeTag(Counted(e, depth), tag, flag), last), ~last.failed,
           NEW d, Follows(d, e, last), NEW open
    PROVE  Reads(open, d, depth, v, WriteTypeTag(Counted(e, depth), tag, flag), last)
<1> DEFINE c == CountValue(ReadValueType(d), depth)
           f == WriteTypeTag(Counted(e, depth), tag, flag)
<1>1. tag \in 1..25 /\ tag \notin ContainerTags
  BY DEF ConstantTags, ContainerTags, TypedArrayTags
<1>2. Follows(c, f, last) /\ c.tag = tag /\ c.flag = flag
  BY <1>1, ValueBegun
<1> HIDE DEF c, f
<1>3. ~c.failed
  BY <1>2 DEF Follows, Mirrors
<1>4. ReadTypedValue(open, c) = AddResult(open, ReadScalar(c, tag, flag))
  BY <1>1, <1>2, <1>3, TypedValueIs
<1>5. ReadScalar(c, tag, flag) = Result(c, v)
  <2> DEFINE names == DOMAIN ConstantTags
  <2>1. ReadScalar(c, tag, flag) = Result(c, Scalar(ConstantTags[tag][1], flag, ConstantTags[tag][2]))
    <3>1. tag \notin DOMAIN NumberTags /\ tag # 6
      BY DEF ConstantTags, NumberTags
    <3> HIDE DEF ConstantTags, NumberTags
    <3> QED
      BY <3>1 DEF ReadScalar
  <2> QED
    BY <2>1
<1> QED
  BY <1>2, <1>4, <1>5 DEF AddResult, Result, Reads, c, f

\* A number of 8 bytes is read as it was written.
LEMMA DoubleValueRead ==
    ASSUME NEW e \in Encoders, NEW last \in Encoders, NEW depth,
           NEW tag \in {3, 4, 5}, NEW v, v.number \in Int,
           v = Scalar(NumberTags[tag][1], v.flag, v.number),
           Grows(WriteScalar64(Counted(e, depth), tag, v), last), ~last.failed,
           NEW d, Follows(d, e, last), NEW open
    PROVE  Reads(open, d, depth, v, WriteScalar64(Counted(e, depth), tag, v), last)
<1> DEFINE e1 == Counted(e, depth)
           c == CountValue(ReadValueType(d), depth)
           f == WriteTypeTag(e1, tag, v.flag)
           x == v.number
           h == [f EXCEPT !.doubles = Append(@, x)]
           g == GetActive(c, "doubles")
<1>1. tag \in 1..25 /\ tag \notin ContainerTags /\ tag \in Int /\ x \in Int
  BY DEF ContainerTags, TypedArrayTags
<1>2. h = WriteScalar64(e1, tag, v)
  BY DEF WriteScalar64
<1>3. e1 \in Encoders
  BY CountedGrows
<1>4. f \in Encoders
  <2> HIDE DEF e1
  <2> QED
    BY <1>1, <1>3, WriteTypeTagGrows
<1>5. Grows(f, h) /\ h \in Encoders
  <2> HIDE DEF f, x
  <2> QED
    BY <1>1, <1>4, AppendDouble
<1>6. Grows(h, last)
  BY <1>2
<1>7. Grows(f, last)
  <2> HIDE DEF f, h
  <2> QED
    BY <1>4, <1>5, <1>6, GrowsFurther
<1>8. Follows(c, f, last) /\ c.tag = tag /\ c.flag = v.flag
  BY <1>1, <1>7, ValueBegun
<1> HIDE DEF c, f
<1>9. ~c.failed
  BY <1>8 DEF Follows, Mirrors
<1>10. Follows(g, h, last) /\ g.got = x
  <2> HIDE DEF x, g, h
  <2>1. Grows([f EXCEPT !.doubles = Append(@, x)], last)
    BY <1>6 DEF h
  <2>2. x \in Int /\ f \in Encoders /\ Follows(c, f, last)
    BY <1>1, <1>4, <1>8
  <2>3. /\ Follows(GetActive(c, "doubles"), [f EXCEPT !.doubles = Append(@, x)], last)
        /\ GetActive(c, "doubles").got = x
    BY <2>1, <2>2, DoubleFollows, SMTT(60)
  <2> QED
    BY <2>3 DEF g, h
<1>11. ReadTypedValue(open, c) = AddResult(open, ReadScalar(c, tag, v.flag))
  BY <1>1, <1>8, <1>9, TypedValueIs
<1>12. ReadScalar(c, tag, v.flag) = NumberRead(g, tag, v.flag)
  <2>1. tag \in DOMAIN NumberTags /\ tag \notin DOMAIN ConstantTags /\ NumberTags[tag][2] = "doubles"
    BY DEF NumberTags, ConstantTags
  <2> QED
    BY <2>1 DEF ReadScalar
<1> HIDE DEF g, h
<1>13. NumberRead(g, tag, v.flag) = Result(g, v)
  <2>1. Need(g, tag = 2 => g.got \in {0, 1}) = g
    BY DEF Need
  <2>2. Scalar(NumberTags[tag][1], v.flag, g.got) = v
    BY <1>10
  <2> QED
    BY <2>1, <2>2 DEF NumberRead
<1> QED
  BY <1>2, <1>10, <1>11, <1>12, <1>13 DEF AddResult, Result, Reads, c

\* A number of 4 bytes is read as it was written.
LEMMA Float32Read ==
    ASSUME NEW e \in Encoders, NEW last \in Encoders, NEW depth,
           NEW v, v.number \in Int, v = Scalar("float32", v.flag, v.number),
           Grows([WriteTypeTag(Counted(e, depth), 19, v.flag)
                     EXCEPT !.integers = Append(@, v.number)], last),
           ~last.failed, NEW d, Follows(d, e, last), NEW open
    PROVE  Reads(open, d, depth, v, [WriteTypeTag(Counted(e, depth), 19, v.flag)
                                        EXCEPT !.integers = Append(@, v.number)], last)
<1> DEFINE e1 == Counted(e, depth)
           c == CountValue(ReadValueType(d), depth)
           f == WriteTypeTag(e1, 19, v.flag)
           x == v.number
           h == [f EXCEPT !.integers = Append(@, x)]
           g == GetActive(c, "integers")
<1>1. 19 \in 1..25 /\ 19 \notin ContainerTags /\ 19 \in Int /\ x \in Int
  BY DEF ContainerTags, TypedArrayTags
<1>3. e1 \in Encoders
  BY CountedGrows
<1>4. f \in Encoders
  <2> HIDE DEF e1
  <2> QED
    BY <1>1, <1>3, WriteTypeTagGrows
<1>5. Grows(f, h) /\ h \in Encoders
  <2> HIDE DEF f, x
  <2> QED
    BY <1>1, <1>4, AppendInteger
<1>6. Grows(h, last)
  OBVIOUS
<1>7. Grows(f, last)
  <2> HIDE DEF f, h
  <2> QED
    BY <1>4, <1>5, <1>6, GrowsFurther
<1>8. Follows(c, f, last) /\ c.tag = 19 /\ c.flag = v.flag
  BY <1>1, <1>7, ValueBegun
<1> HIDE DEF c, f
<1>9. ~c.failed
  BY <1>8 DEF Follows, Mirrors
<1>10. Follows(g, h, last) /\ g.got = x
  <2> HIDE DEF x, g, h
  <2>1. Grows([f EXCEPT !.integers = Append(@, x)], last)
    BY <1>6 DEF h
  <2>2. x \in Int /\ f \in Encoders /\ Follows(c, f, last)
    BY <1>1, <1>4, <1>8
  <2>3. /\ Follows(GetActive(c, "integers"), [f EXCEPT !.integers = Append(@, x)], last)
        /\ GetActive(c, "integers").got = x
    BY <2>1, <2>2, IntegerFollows, SMTT(60)
  <2> QED
    BY <2>3 DEF g, h
<1>11. ReadTypedValue(open, c) = AddResult(open, ReadScalar(c, 19, v.flag))
  BY <1>1, <1>8, <1>9, TypedValueIs
<1>12. ReadScalar(c, 19, v.flag) = NumberRead(g, 19, v.flag) /\ NumberTags[19][1] = "float32"
  <2>1. 19 \in DOMAIN NumberTags /\ 19 \notin DOMAIN ConstantTags /\ NumberTags[19] = <<"float32", "integers">>
    BY DEF NumberTags, ConstantTags
  <2>2. NumberTags[19][2] = "integers"
    BY <2>1
  <2> QED
    BY <2>1, <2>2 DEF ReadScalar
<1> HIDE DEF g, h
<1>13. NumberRead(g, 19, v.flag) = Result(g, v)
  <2>1. Need(g, 19 = 2 => g.got \in {0, 1}) = g
    BY DEF Need
  <2>2. Scalar(NumberTags[19][1], v.flag, g.got) = v
    BY <1>10, <1>12
  <2> QED
    BY <2>1, <2>2 DEF NumberRead
<1> QED
  BY <1>10, <1>11, <1>12, <1>13 DEF AddResult, Result, Reads, c, h, f

\* A string is read as it was written.
LEMMA StringValueRead ==
    ASSUME NEW e \in Encoders, NEW last \in Encoders, NEW depth,
           NEW v, v.text \in Seq(Int), v = Text("string", v.flag, v.text),
           Grows(WriteString(WriteTypeTag(Counted(e, depth), 6, v.flag), v.text), last),
           ~last.failed, NEW d, Follows(d, e, last), NEW open
    PROVE  Reads(open, d, depth, v,
                 WriteString(WriteTypeTag(Counted(e, depth), 6, v.flag), v.text), last)
<1> DEFINE e1 == Counted(e, depth)
           c == CountValue(ReadValueType(d), depth)
           f == WriteTypeTag(e1, 6, v.flag)
           x == v.text
           h == WriteString(f, x)
           g == ReadString(c)
<1>1. 6 \in 1..25 /\ 6 \notin ContainerTags /\ 6 \in Int /\ x \in Seq(Int)
  BY DEF ContainerTags, TypedArrayTags
<1>3. e1 \in Encoders
  BY CountedGrows
<1>4. f \in Encoders
  <2> HIDE DEF e1
  <2> QED
    BY <1>1, <1>3, WriteTypeTagGrows
<1>5. Grows(f, h) /\ h \in Encoders
  <2> HIDE DEF f, x, h
  <2>1. Grows(f, WriteString(f, x)) /\ WriteString(f, x) \in Encoders
    BY <1>1, <1>4, WriteStringGrows
  <2> QED
    BY <2>1 DEF h
<1>6. Grows(h, last)
  OBVIOUS
<1>7. Grows(f, last)
  <2> HIDE DEF f, h
  <2> QED
    BY <1>4, <1>5, <1>6, GrowsFurther
<1>8. Follows(c, f, last) /\ c.tag = 6 /\ c.flag = v.flag
  BY <1>1, <1>7, ValueBegun
<1> HIDE DEF c, f
<1>9. ~c.failed
  BY <1>8 DEF Follows, Mirrors
<1>10. Follows(g, h, last) /\ g.text = x
  <2> HIDE DEF x, h
  <2>1. Grows(WriteString(f, x), last)
    BY <1>6 DEF h
  <2>2. x \in Seq(Int) /\ f \in Encoders /\ Follows(c, f, last)
    BY <1>1, <1>4, <1>8
  <2>3. Follows(ReadString(c), WriteString(f, x), last) /\ ReadString(c).text = x
    BY <2>1, <2>2, StringRead DEF ReadString
  <2> HIDE DEF g
  <2> QED
    BY <2>3 DEF g, h
<1>11. ReadTypedValue(open, c) = AddResult(open, ReadScalar(c, 6, v.flag))
  BY <1>1, <1>8, <1>9, TypedValueIs
<1>12. ReadScalar(c, 6, v.flag) = TextRead(g, "string", v.flag)
  <2>1. 6 \notin DOMAIN NumberTags /\ 6 \notin DOMAIN ConstantTags
    BY DEF NumberTags, ConstantTags
  <2> QED
    BY <2>1 DEF ReadScalar
<1> HIDE DEF g, h
<1>13. TextRead(g, "string", v.flag) = Result(g, v)
  BY <1>10 DEF TextRead
<1> QED
  BY <1>10, <1>11, <1>12, <1>13 DEF AddResult, Result, Reads, c, h, f

\* A blob is read as it was written.
LEMMA BlobValueRead ==
    ASSUME NEW e \in Encoders, NEW last \in Encoders, NEW depth,
           NEW v, v.text \in Seq(Int), v = Text("blob", v.flag, v.text),
           Grows(WriteBlob(Counted(e, depth), v), last), ~last.failed,
           NEW d, Follows(d, e, last), NEW open
    PROVE  Reads(open, d, depth, v, WriteBlob(Counted(e, depth), v), last)
<1> DEFINE e1 == Counted(e, depth)
           c == CountValue(ReadValueType(d), depth)
           f == WriteTypeTag(e1, 7, v.flag)
           x == v.text
           a == AddValueBytes(f, Len(x))
           h == [a EXCEPT !.lengths = Append(@, Len(x)), !.blobs = @ \o x]
           g == ReadBlob(c)
<1>1. 7 \in 1..25 /\ 7 \notin ContainerTags /\ 7 \in Int /\ x \in Seq(Int)
  BY DEF ContainerTags, TypedArrayTags
<1>2. h = WriteBlob(e1, v)
  BY DEF WriteBlob
<1>3. e1 \in Encoders
  BY CountedGrows
<1>4. f \in Encoders
  <2> HIDE DEF e1
  <2> QED
    BY <1>1, <1>3, WriteTypeTagGrows
<1> DEFINE n == Len(x)
<1>5. n \in Int
  BY <1>1, LenProperties
<1>6. /\ a \in Encoders /\ Grows(f, a)
      /\ ~a.failed => Fits(f.value_bytes + n) /\ a = [f EXCEPT !.value_bytes = @ + n]
  <2> HIDE DEF f, n, a
  <2>1. /\ AddValueBytes(f, n) \in Encoders /\ Grows(f, AddValueBytes(f, n))
        /\ ~AddValueBytes(f, n).failed => /\ Fits(f.value_bytes + n)
                                           /\ AddValueBytes(f, n) = [f EXCEPT !.value_bytes = @ + n]
    BY <1>4, <1>5, AddValueBytesGrows
  <2>2. a = AddValueBytes(f, n)
    BY DEF a, n
  <2> QED
    BY <2>1, <2>2
<1>7. Grows(h, last)
  BY <1>2
<1> HIDE DEF f, a
<1>8. /\ h \in Encoders /\ Grows(a, h) /\ h.lengths = Append(a.lengths, n)
      /\ h.blobs = a.blobs \o x
      /\ h.version5 = a.version5 /\ h.objects = a.objects /\ h.strings = a.strings
      /\ h.integers = a.integers /\ h.doubles = a.doubles /\ h.types = a.types
      /\ h.value_bytes = a.value_bytes /\ h.remaining = a.remaining /\ h.failed = a.failed
  <2>1. x \in Seq(Int) /\ a \in Encoders
    BY <1>1, <1>6, SMTT(60)
  <2> HIDE DEF x
  <2> DEFINE k == [a EXCEPT !.lengths = Append(@, Len(x)), !.blobs = @ \o x]
  <2>2. /\ k \in Encoders /\ Grows(a, k) /\ k.lengths = Append(a.lengths, Len(x))
        /\ k.blobs = a.blobs \o x
        /\ k.version5 = a.version5 /\ k.objects = a.objects /\ k.strings = a.strings
        /\ k.integers = a.integers /\ k.doubles = a.doubles /\ k.types = a.types
        /\ k.value_bytes = a.value_bytes /\ k.remaining = a.remaining /\ k.failed = a.failed
    BY <2>1, AppendBlob, ZenonT(60)
  <2> QED
    BY <2>2, SMTT(60) DEF n
<1> HIDE DEF h, n
<1>9. Grows(f, last) /\ ~a.failed
  <2>1. Grows(a, last)
    BY <1>6, <1>7, <1>8, GrowsFurther
  <2>2. Grows(f, last)
    BY <1>4, <1>6, <2>1, GrowsFurther
  <2> QED
    BY <2>1, <2>2 DEF Grows
<1>10. /\ a.lengths = f.lengths /\ a.blobs = f.blobs /\ a.version5 = f.version5
       /\ a.objects = f.objects /\ a.integers = f.integers /\ a.doubles = f.doubles
       /\ a.types = f.types /\ a.remaining = f.remaining /\ a.value_bytes = f.value_bytes + n
       /\ Fits(a.value_bytes)
  <2>1. a = [f EXCEPT !.value_bytes = @ + n] /\ Fits(f.value_bytes + n)
    BY <1>6, <1>9
  <2> QED
    BY <1>4, <2>1 DEF Encoders
<1>11. Follows(c, f, last) /\ c.tag = 7 /\ c.flag = v.flag
  <2>1. Grows(WriteTypeTag(Counted(e, depth), 7, v.flag), last)
    BY <1>9 DEF f
  <2>2. /\ Follows(c, WriteTypeTag(Counted(e, depth), 7, v.flag), last)
        /\ c.tag = 7 /\ c.flag = v.flag
    BY <1>1, <2>1, ValueBegun
  <2> HIDE DEF c
  <2> QED
    BY <2>2 DEF f
<1> HIDE DEF c
<1>12. ~c.failed /\ ~(c.version <= 1)
  BY <1>11 DEF Follows, Mirrors
<1>13. g = NextBlob(c)
  BY <1>12 DEF ReadBlob
<1> HIDE DEF g
<1>14. Follows(g, h, last) /\ g.text = x
  <2>1. BlobAdded(f, h, x)
    BY <1>8, <1>10 DEF BlobAdded, n
  <2>3. x \in Seq(Int) /\ f \in Encoders /\ h \in Encoders /\ Grows(h, last) /\ Follows(c, f, last)
    BY <1>1, <1>4, <1>7, <1>8, <1>11
  <2> HIDE DEF x
  <2>2. Follows(NextBlob(c), h, last) /\ NextBlob(c).text = x
    BY <2>1, <2>3, BlobTaken
  <2> QED
    BY <1>13, <2>2
<1>15. ReadTypedValue(open, c) = AddResult(open, ReadScalar(c, 7, v.flag))
  BY <1>1, <1>11, <1>12, TypedValueIs
<1>16. ReadScalar(c, 7, v.flag) = TextRead(g, "blob", v.flag)
  <2>1. 7 \notin DOMAIN NumberTags /\ 7 \notin DOMAIN ConstantTags
    BY DEF NumberTags, ConstantTags
  <2> QED
    BY <2>1 DEF ReadScalar, g
<1>17. TextRead(g, "blob", v.flag) = Result(g, v)
  BY <1>14 DEF TextRead
<1> QED
  BY <1>2, <1>14, <1>15, <1>16, <1>17 DEF AddResult, Result, Reads, c

\* A value without children is read as it was written.
LEMMA ScalarRead ==
    ASSUME NEW e \in Encoders, NEW last \in Encoders, NEW depth, NEW V, NEW v, IsValue(v, V),
           v.kind \notin Containers, Grows(WriteValue(e, v, depth), last), ~last.failed,
           NEW d, Follows(d, e, last), NEW open
    PROVE  Reads(open, d, depth, v, WriteValue(e, v, depth), last)
<1> DEFINE e1 == Counted(e, depth)
<1>1. WriteValue(e, v, depth) = WriteCounted(e1, v)
  BY DEF WriteValue
<1>2. /\ ConstantTags[1] = <<"null", 0>> /\ ConstantTags[13] = <<"boolean", 1>>
      /\ ConstantTags[14] = <<"boolean", 0>> /\ ConstantTags[15] = <<"signed", 0>>
      /\ ConstantTags[16] = <<"signed", 1>> /\ {1, 13, 14, 15, 16} \subseteq DOMAIN ConstantTags
  BY DEF ConstantTags
<1>3. /\ NumberTags[3] = <<"signed", "doubles">> /\ NumberTags[4] = <<"unsigned", "doubles">>
      /\ NumberTags[5] = <<"float64", "doubles">>
  BY DEF NumberTags
<1>4. ASSUME NEW tag \in {1, 13, 14, 15, 16}, v = Scalar(ConstantTags[tag][1], v.flag, ConstantTags[tag][2]),
             WriteCounted(e1, v) = WriteTypeTag(e1, tag, v.flag)
      PROVE  Reads(open, d, depth, v, WriteCounted(e1, v), last)
  <2>1. Grows(WriteTypeTag(Counted(e, depth), tag, v.flag), last) /\ tag \in DOMAIN ConstantTags
    BY <1>1, <1>2, <1>4
  <2>2. Reads(open, d, depth, v, WriteTypeTag(Counted(e, depth), tag, v.flag), last)
    <3> DEFINE flag == v.flag
    <3>1. v = Scalar(ConstantTags[tag][1], flag, ConstantTags[tag][2])
          /\ Grows(WriteTypeTag(Counted(e, depth), tag, flag), last)
      BY <1>4, <2>1
    <3> HIDE DEF flag
    <3>2. Reads(open, d, depth, v, WriteTypeTag(Counted(e, depth), tag, flag), last)
      BY <2>1, <3>1, ConstantRead
    <3> QED
      BY <3>2 DEF flag
  <2> QED
    BY <1>4, <2>2
<1>5. ASSUME NEW tag \in {3, 4, 5}, v.number \in Int, v = Scalar(NumberTags[tag][1], v.flag, v.number),
             WriteCounted(e1, v) = WriteScalar64(e1, tag, v)
      PROVE  Reads(open, d, depth, v, WriteCounted(e1, v), last)
  <2>1. Grows(WriteScalar64(Counted(e, depth), tag, v), last)
    BY <1>1, <1>5
  <2>2. Reads(open, d, depth, v, WriteScalar64(Counted(e, depth), tag, v), last)
    BY <1>5, <2>1, DoubleValueRead
  <2> QED
    BY <1>5, <2>2
<1>6. CASE v.kind = "null"
  <2>1. WriteCounted(e1, v) = WriteTypeTag(e1, 1, v.flag) /\ v = Scalar("null", v.flag, 0)
    BY <1>6 DEF WriteCounted, IsValue, Containers
  <2>2. v = Scalar(ConstantTags[1][1], v.flag, ConstantTags[1][2])
    BY <1>2, <2>1
  <2> QED
    BY <1>1, <1>4, <2>1, <2>2
<1>7. CASE v.kind = "boolean"
  <2>1. /\ WriteCounted(e1, v) = WriteTypeTag(e1, 14 - v.number, v.flag)
        /\ v.number \in {0, 1} /\ v = Scalar("boolean", v.flag, v.number)
    BY <1>7 DEF WriteCounted, IsValue, Containers
  <2> DEFINE tag == 14 - v.number
  <2>2. tag \in {13, 14} /\ ConstantTags[tag][1] = "boolean" /\ ConstantTags[tag][2] = v.number
    BY <1>2, <2>1
  <2>3. v = Scalar(ConstantTags[tag][1], v.flag, ConstantTags[tag][2])
    BY <2>1, <2>2
  <2>4. WriteCounted(e1, v) = WriteTypeTag(e1, tag, v.flag)
    BY <2>1
  <2>5. tag \in {1, 13, 14, 15, 16}
    BY <2>2
  <2> HIDE DEF tag, e1
  <2> QED
    BY <1>1, <1>4, <2>3, <2>4, <2>5
<1>8. CASE v.kind = "signed" /\ v.number \in {0, 1}
  <2>1. /\ WriteCounted(e1, v) = WriteTypeTag(e1, 15 + v.number, v.flag)
        /\ v = Scalar("signed", v.flag, v.number)
    BY <1>8 DEF WriteCounted, WriteSigned, IsValue, Containers
  <2> DEFINE tag == 15 + v.number
  <2>2. tag \in {15, 16} /\ ConstantTags[tag][1] = "signed" /\ ConstantTags[tag][2] = v.number
    BY <1>2, <1>8
  <2>3. v = Scalar(ConstantTags[tag][1], v.flag, ConstantTags[tag][2])
    BY <2>1, <2>2
  <2>4. WriteCounted(e1, v) = WriteTypeTag(e1, tag, v.flag)
    BY <2>1
  <2>5. tag \in {1, 13, 14, 15, 16}
    BY <2>2
  <2> HIDE DEF tag, e1
  <2> QED
    BY <1>1, <1>4, <2>3, <2>4, <2>5
<1>9. CASE v.kind = "signed" /\ v.number \notin {0, 1}
  <2>1. /\ WriteCounted(e1, v) = WriteScalar64(e1, 3, v) /\ v.number \in Int
        /\ v = Scalar("signed", v.flag, v.number)
    BY <1>9 DEF WriteCounted, WriteSigned, IsValue, Containers
  <2>2. v = Scalar(NumberTags[3][1], v.flag, v.number)
    BY <1>3, <2>1
  <2> QED
    BY <1>1, <1>5, <2>1, <2>2
<1>10. CASE v.kind = "unsigned"
  <2>1. /\ WriteCounted(e1, v) = WriteScalar64(e1, 4, v) /\ v.number \in Int
        /\ v = Scalar("unsigned", v.flag, v.number)
    BY <1>10 DEF WriteCounted, IsValue, Containers
  <2>2. v = Scalar(NumberTags[4][1], v.flag, v.number)
    BY <1>3, <2>1
  <2> QED
    BY <1>1, <1>5, <2>1, <2>2
<1>11. CASE v.kind = "float64"
  <2>1. /\ WriteCounted(e1, v) = WriteScalar64(e1, 5, v) /\ v.number \in Int
        /\ v = Scalar("float64", v.flag, v.number)
    BY <1>11 DEF WriteCounted, IsValue, Containers
  <2>2. v = Scalar(NumberTags[5][1], v.flag, v.number)
    BY <1>3, <2>1
  <2> QED
    BY <1>1, <1>5, <2>1, <2>2
<1>12. CASE v.kind = "float32"
  <2>1. /\ WriteCounted(e1, v) = [WriteTypeTag(Counted(e, depth), 19, v.flag)
                                     EXCEPT !.integers = Append(@, v.number)]
        /\ v.number \in Int /\ v = Scalar("float32", v.flag, v.number)
    BY <1>12 DEF WriteCounted, IsValue, Containers
  <2> HIDE DEF e1
  <2>2. Grows([WriteTypeTag(Counted(e, depth), 19, v.flag) EXCEPT !.integers = Append(@, v.number)], last)
    BY <1>1, <2>1
  <2>3. Reads(open, d, depth, v, [WriteTypeTag(Counted(e, depth), 19, v.flag)
                                     EXCEPT !.integers = Append(@, v.number)], last)
    BY <2>1, <2>2, Float32Read
  <2> QED
    BY <1>1, <2>1, <2>3
<1>13. CASE v.kind = "string"
  <2>1. /\ WriteCounted(e1, v) = WriteString(WriteTypeTag(Counted(e, depth), 6, v.flag), v.text)
        /\ v.text \in Seq(Int) /\ v = Text("string", v.flag, v.text)
    BY <1>13 DEF WriteCounted, IsValue, Containers
  <2> HIDE DEF e1
  <2>2. Grows(WriteString(WriteTypeTag(Counted(e, depth), 6, v.flag), v.text), last)
    BY <1>1, <2>1
  <2>3. Reads(open, d, depth, v, WriteString(WriteTypeTag(Counted(e, depth), 6, v.flag), v.text), last)
    BY <2>1, <2>2, StringValueRead
  <2> QED
    BY <1>1, <2>1, <2>3
<1>14. CASE v.kind = "blob"
  <2>1. /\ WriteCounted(e1, v) = WriteBlob(Counted(e, depth), v)
        /\ v.text \in Seq(Int) /\ v = Text("blob", v.flag, v.text)
    BY <1>14 DEF WriteCounted, IsValue, Containers
  <2> HIDE DEF e1
  <2>2. Grows(WriteBlob(Counted(e, depth), v), last)
    BY <1>1, <2>1
  <2>3. Reads(open, d, depth, v, WriteBlob(Counted(e, depth), v), last)
    BY <2>1, <2>2, BlobValueRead
  <2> QED
    BY <1>1, <2>1, <2>3
<1> QED
  BY <1>6, <1>7, <1>8, <1>9, <1>10, <1>11, <1>12, <1>13, <1>14 DEF IsValue, Containers

\* The reader is inside of v, and what the encoder wrote for its beginning is read
Enters(open, d, depth, v, f, last) ==
    LET r == ReadTypedValue(open, CountValue(ReadValueType(d), depth))
    IN  /\ r.open = Append(open, Begun(v.kind, v.flag, Len(v.items), NoType, FALSE))
        /\ Follows(r.decoder, f, last)

\* An array or an object is entered with the number of children that was written.
\* The reader refuses more of them than values remain; a writer that ends has as many.
LEMMA ContainerRead ==
    ASSUME NEW e \in Encoders, NEW last \in Encoders, NEW depth, NEW V, NEW v, IsValue(v, V),
           v.kind \in Containers, Grows(WriteValue(e, v, depth), last), ~last.failed,
           Len(v.items) <= WriteValue(e, v, depth).remaining,
           NEW d, Follows(d, e, last), NEW open
    PROVE  Enters(open, d, depth, v, WriteValue(e, v, depth), last)
<1> DEFINE e1 == Counted(e, depth)
           tag == IF v.kind = "array" THEN 8 ELSE 9
           n == Len(v.items)
           f == WriteTypeTag(e1, tag, v.flag)
           a == Require(f, n <= MaxCount)
           inObjects == v.kind = "object" /\ f.version5
           h == WriteValue(e, v, depth)
           c == CountValue(ReadValueType(d), depth)
           g == IF tag = 9 /\ c.version = 5 THEN Get(c, "objects", "integers")
                ELSE GetActive(c, "integers")
<1>1. e1 \in Encoders
  BY CountedGrows
<1>2. n \in Nat /\ tag \in {8, 9} /\ tag \in Int
  <2>1. v.items \in Seq(V)
    BY DEF IsValue, Containers
  <2> QED
    BY <2>1, LenProperties
<1>3. f \in Encoders /\ Grows(e1, f)
  <2> HIDE DEF e1, tag
  <2> QED
    BY <1>1, <1>2, WriteTypeTagGrows
<1>4. h = IF inObjects THEN [a EXCEPT !.objects = Append(@, n)]
          ELSE [a EXCEPT !.integers = Append(@, n)]
  <2>1. h = WriteChildCount(e1, v)
    BY DEF WriteValue, WriteCounted, Containers
  <2>2. e1.version5 = f.version5
    BY <1>3 DEF Grows
  <2> HIDE DEF e1
  <2> QED
    BY <2>1, <2>2 DEF WriteChildCount
<1>5. Grows(h, last) /\ n <= h.remaining
  OBVIOUS
<1>6. a \in Encoders /\ Grows(f, a) /\ (~a.failed => n <= MaxCount /\ a = f)
  <2> HIDE DEF f, n
  <2> QED
    BY <1>3, RequireGrows
<1> HIDE DEF h, f, n, a, tag, c
<1>7. /\ h \in Encoders /\ Grows(a, h) /\ h.remaining = a.remaining
  <2>1. n \in Int
    BY <1>2
  <2> QED
    BY <1>4, <1>6, <2>1, AppendObject, AppendInteger, ZenonT(60)
<1>8. Grows(a, last) /\ Grows(f, last)
  <2>1. Grows(a, last)
    BY <1>5, <1>6, <1>7, GrowsFurther
  <2> QED
    BY <1>3, <1>6, <2>1, GrowsFurther
<1>9. a = f /\ n <= MaxCount
  BY <1>6, <1>8 DEF Grows
<1>10. Follows(c, f, last) /\ c.tag = tag /\ c.flag = v.flag
  <2>1. tag \in 1..25
    BY <1>2
  <2>2. Grows(WriteTypeTag(Counted(e, depth), tag, v.flag), last)
    BY <1>8 DEF f
  <2> DEFINE flag == v.flag  cc == CountValue(ReadValueType(d), depth)
  <2>3. Grows(WriteTypeTag(Counted(e, depth), tag, flag), last)
    BY <2>2
  <2> HIDE DEF flag, cc
  <2>4. /\ Follows(cc, WriteTypeTag(Counted(e, depth), tag, flag), last)
        /\ cc.tag = tag /\ cc.flag = flag
    BY <2>1, <2>3, ValueBegun DEF cc
  <2> QED
    BY <2>4 DEF f, c, cc, flag
<1>11. c.version = (IF f.version5 THEN 5 ELSE 4) /\ ~c.failed /\ c.alternate_active = FALSE
  BY <1>10 DEF Follows, Mirrors
<1>12. Follows(g, h, last) /\ g.got = n /\ SameResults(c, g)
  <2>0. n \in Int
    BY <1>2
  <2>1. CASE inObjects
    <3>1. h = [f EXCEPT !.objects = Append(@, n)] /\ g = Get(c, "objects", "integers")
      BY <1>4, <1>9, <1>11, <2>1 DEF tag
    <3>2. Grows([f EXCEPT !.objects = Append(@, n)], last)
      BY <1>5, <3>1
    <3>3. /\ Follows(Get(c, "objects", "integers"), [f EXCEPT !.objects = Append(@, n)], last)
          /\ Get(c, "objects", "integers").got = n /\ SameResults(c, Get(c, "objects", "integers"))
      BY <1>3, <1>10, <2>0, <3>2, ObjectFollows, SMTT(60)
    <3> QED
      BY <3>1, <3>3
  <2>2. CASE ~inObjects
    <3>1. h = [f EXCEPT !.integers = Append(@, n)] /\ g = GetActive(c, "integers")
      BY <1>4, <1>9, <1>11, <2>2 DEF tag, Containers
    <3>2. Grows([f EXCEPT !.integers = Append(@, n)], last)
      BY <1>5, <3>1
    <3>3. /\ Follows(GetActive(c, "integers"), [f EXCEPT !.integers = Append(@, n)], last)
          /\ GetActive(c, "integers").got = n /\ SameResults(c, GetActive(c, "integers"))
      BY <1>3, <1>10, <2>0, <3>2, IntegerFollows, SMTT(60)
    <3> QED
      BY <3>1, <3>3
  <2> QED
    BY <2>1, <2>2
<1> HIDE DEF g
<1>13. ReadChildCount(c, tag) = g
  <2>1. ReadChildCount(c, tag) = CheckChildren(g)
    BY <1>2 DEF ReadChildCount, g
  <2>2. IsCount(g.got) /\ g.got <= g.remaining
    <3>1. g.remaining = h.remaining
      BY <1>12 DEF Follows, Mirrors
    <3>2. MaxCount <= MaxBytes /\ MaxCount \in Nat /\ MaxBytes \in Nat
      BY LimitsAssumption
    <3> QED
      BY <1>2, <1>5, <1>9, <1>12, <3>1, <3>2 DEF IsCount, IsLength
  <2> QED
    BY <2>1, <2>2 DEF CheckChildren, Need
<1>14. tag \in ContainerTags /\ tag \notin TypedArrayTags
  BY <1>2 DEF ContainerTags, TypedArrayTags
<1> DEFINE r == ReadTypedValue(open, c)
<1>15. r = [decoder |-> g,
            open |-> Append(open, Begun(IF tag = 9 THEN "object" ELSE "array", v.flag, n, NoType, FALSE))]
  <2>1. r = BeginChildren(open, c, g)
    BY <1>10, <1>11, <1>13, <1>14 DEF ReadTypedValue
  <2>2. r = Begin(open, c, g, g)
    BY <1>10, <1>14, <2>1 DEF BeginChildren
  <2> HIDE DEF r
  <2> QED
    BY <1>10, <1>11, <1>12, <1>14, <2>2 DEF Begin
<1>16. (IF tag = 9 THEN "object" ELSE "array") = v.kind
  BY DEF tag, Containers
<1>17. r.open = Append(open, Begun(v.kind, v.flag, n, NoType, FALSE)) /\ Follows(r.decoder, h, last)
  <2> HIDE DEF r
  <2> QED
    BY <1>12, <1>15, <1>16
<1> QED
  BY <1>17 DEF Enters, c, h, n

\* The name of a member is read as it was written, and differs from those before it.
LEMMA NameIsRead ==
    ASSUME NEW e \in Encoders, NEW last \in Encoders, NEW value, NEW i, value.names[i] \in Seq(Int),
           Grows(WriteName(e, value, i), last), ~last.failed, NEW d, Follows(d, e, last), NEW place
    PROVE  LET h == ReadName(d, place)
           IN  /\ Follows(h, WriteName(e, value, i), last) /\ h.text = value.names[i]
               /\ \A j \in 1..(i - 1) : value.names[j] # value.names[i]
<1> DEFINE c == value.names[i] # <<>> /\ \A j \in 1..(i - 1) : value.names[j] # value.names[i]
           x == value.names[i]
           f == Require(e, c)
           k == WriteString(f, x)
           g == GetActive(d, "integers")
           t == TextOf(g)
           h == ReadName(d, place)
<1>1. k = WriteName(e, value, i)
  BY DEF WriteName
<1>2. Grows(k, last) /\ x \in Seq(Int)
  BY <1>1
<1>3. f \in Encoders /\ (~f.failed => c /\ f = e)
  <2> HIDE DEF c
  <2> QED
    BY RequireGrows
<1> HIDE DEF f, c, x
<1>4. k \in Encoders /\ Grows(f, k)
  <2>1. WriteString(f, x) \in Encoders /\ Grows(f, WriteString(f, x))
    BY <1>2, <1>3, WriteStringGrows
  <2> QED
    BY <2>1
<1>5. c /\ f = e
  <2>1. Grows(f, last)
    BY <1>2, <1>3, <1>4, GrowsFurther
  <2> QED
    BY <1>3, <2>1 DEF Grows
<1>6. Follows(t, k, last) /\ t.text = x /\ (x # <<>> => g.got # -1)
  <2>1. Grows(WriteString(e, x), last)
    BY <1>2, <1>5
  <2> HIDE DEF k
  <2>2. /\ Follows(TextOf(GetActive(d, "integers")), WriteString(e, x), last)
        /\ TextOf(GetActive(d, "integers")).text = x
        /\ x # <<>> => GetActive(d, "integers").got # -1
    BY <1>2, <2>1, StringRead
  <2> QED
    BY <1>5, <2>2 DEF k
<1>7. x # <<>>
  BY <1>5 DEF c, x
<1>8. h = t
  <2>1. h = MemberName(t, g.got = -1, place)
    BY DEF ReadName, NameOf
  <2>2. t.version # 0
    <3> HIDE DEF t
    <3> QED
      BY <1>6 DEF Follows, Mirrors
  <2> HIDE DEF t, g, h
  <2> QED
    BY <1>6, <1>7, <2>1, <2>2 DEF MemberName
<1> QED
  BY <1>1, <1>5, <1>6, <1>8 DEF c, x

\* The call that asks for the root of a document, as the value around it
Caller(root) == Array("None", <<root>>)

\* Values whose children are among them, and one of them
Tree(V, root) == root \in V /\ \A v \in V : IsValue(v, V)

\* What a writer keeps of a value whose children it writes
OpenValues(V, root) == [value : V \union {Caller(root)}, next : Nat]

\* The open values of a writer lie inside each other
WriterInv(w, V, root) ==
    /\ w.encoder \in Encoders
    /\ w.encoder.failed \/ w.encoder.remaining >= 0
    /\ w.open \in Seq(OpenValues(V, root)) /\ w.open # <<>>
    /\ w.open[1].value = Caller(root)
    /\ \A j \in 1..Len(w.open) :
          /\ w.open[j].value.kind \in Containers
          /\ w.open[j].next \in 1..(Len(w.open[j].value.items) + 1)
    /\ \A j \in 1..(Len(w.open) - 1) :
          /\ w.open[j].next >= 2
          /\ w.open[j + 1].value = w.open[j].value.items[w.open[j].next - 1]

\* A value of the tree, or the call that asks for the root.
LEMMA OpenValueIs ==
    ASSUME NEW V, NEW root, Tree(V, root), NEW v \in V \union {Caller(root)}
    PROVE  /\ IsValue(v, V)
           /\ v.kind \in Containers => /\ v.items \in Seq(V) /\ Len(v.items) \in Nat
                                      /\ \A i \in 1..Len(v.items) : v.items[i] \in V
           /\ v.kind = "object" => /\ v.names \in Seq(Seq(Int)) /\ Len(v.names) = Len(v.items)
                                   /\ \A i \in 1..Len(v.items) : v.names[i] \in Seq(Int)
<1>1. IsValue(v, V)
  <2>1. CASE v \in V
    BY <2>1 DEF Tree
  <2>2. CASE v = Caller(root)
    <3>1. v = Array("None", <<root>>) /\ v.kind = "array" /\ v.flag = "None" /\ v.items = <<root>>
      BY <2>2 DEF Caller, Array, Value
    <3>2. <<root>> \in Seq(V)
      BY DEF Tree
    <3> QED
      BY <3>1, <3>2 DEF IsValue
  <2> QED
    BY <2>1, <2>2
<1>2. v.kind \in Containers => v.items \in Seq(V)
  BY <1>1 DEF IsValue, Containers
<1>3. v.kind = "object" => v.names \in Seq(Seq(Int)) /\ Len(v.names) = Len(v.items)
  BY <1>1 DEF IsValue
<1>4. "object" \in Containers
  BY DEF Containers
<1> QED
  BY <1>1, <1>2, <1>3, <1>4, LenProperties, ElementOfSeq

\* A stack without its innermost element.
LEMMA FrontIs ==
    ASSUME NEW S, NEW s \in Seq(S), s # <<>>
    PROVE  /\ Front(s) \in Seq(S) /\ Len(Front(s)) = Len(s) - 1 /\ Len(s) \in Nat \ {0}
           /\ \A i \in 1..(Len(s) - 1) : Front(s)[i] = s[i]
           /\ Last(s) = s[Len(s)] /\ Last(s) \in S
<1>1. Len(s) \in Nat /\ Len(s) # 0
  BY LenProperties, EmptySeq
<1>2. Front(s) = SubSeq(s, 1, Len(s) - 1) /\ Last(s) = s[Len(s)]
  BY DEF Front, Last
<1>3. \A i \in 1..(Len(s) - 1) : s[i] \in S
  BY <1>1, ElementOfSeq
<1>4. /\ SubSeq(s, 1, Len(s) - 1) \in Seq(S)
      /\ Len(SubSeq(s, 1, Len(s) - 1)) = Len(s) - 1
      /\ \A i \in 1..(Len(s) - 1) : SubSeq(s, 1, Len(s) - 1)[i] = s[i]
  <2> DEFINE m == Len(s) - 1
  <2>1. m \in Nat
    BY <1>1
  <2>2. \A i \in 1..m : s[i] \in S
    BY <1>3
  <2> HIDE DEF m
  <2>3. /\ SubSeq(s, 1, m) \in Seq(S)
        /\ Len(SubSeq(s, 1, m)) = IF 1 <= m THEN m - 1 + 1 ELSE 0
        /\ \A i \in 1..(m - 1 + 1) : SubSeq(s, 1, m)[i] = s[1 + i - 1]
    BY <2>1, <2>2, SubSeqProperties
  <2>4. Len(SubSeq(s, 1, m)) = m /\ \A i \in 1..m : SubSeq(s, 1, m)[i] = s[i]
    BY <2>1, <2>3
  <2> QED
    BY <2>3, <2>4 DEF m
<1>5. s[Len(s)] \in S
  BY <1>1, ElementOfSeq
<1> QED
  BY <1>1, <1>2, <1>4, <1>5

\* What a step of the writer is
WriterStops(w) == w.encoder.failed \/ WriterIsDone(w)
WriterTop(w) == Last(w.open)
WriterPops(w) == ~WriterStops(w) /\ WriterTop(w).next > Len(WriterTop(w).value.items)
WriterGoesOn(w) == ~WriterStops(w) /\ ~(WriterTop(w).next > Len(WriterTop(w).value.items))

\* The encoder before the value of the next child
NamedEncoder(w) ==
    IF WriterTop(w).value.kind = "object"
    THEN WriteName(w.encoder, WriterTop(w).value, WriterTop(w).next) ELSE w.encoder
NextChild(w) == WriterTop(w).value.items[WriterTop(w).next]
Advanced(w) == Append(Front(w.open), [WriterTop(w) EXCEPT !.next = @ + 1])

\* The three things that a step of the writer does: nothing more, return from a
\* value, or write the next child of one.
LEMMA WriterSteps ==
    ASSUME NEW w
    PROVE  /\ WriterStops(w) => WriteNext(w) = w
           /\ WriterPops(w) => WriteNext(w) = [w EXCEPT !.open = Front(@)]
           /\ WriterGoesOn(w) =>
                 WriteNext(w) =
                    [encoder |-> WriteValue(NamedEncoder(w), NextChild(w), Len(w.open) - 1),
                     open |-> IF NextChild(w).kind \in Containers
                              THEN Append(Advanced(w), Opened(NextChild(w))) ELSE Advanced(w)]
           /\ WriterStops(w) \/ WriterPops(w) \/ WriterGoesOn(w)
<1>1. WriterStops(w) => WriteNext(w) = w
  BY DEF WriterStops, WriteNext
<1>2. WriterPops(w) => WriteNext(w) = [w EXCEPT !.open = Front(@)]
  BY DEF WriterStops, WriterPops, WriterTop, WriteNext
<1>3. WriterGoesOn(w) => WriteNext(w) = WriteChild(w, WriterTop(w), NextChild(w))
  BY DEF WriterStops, WriterGoesOn, WriterTop, NextChild, WriteNext
<1>4. WriteChild(w, WriterTop(w), NextChild(w)) =
         [encoder |-> WriteValue(NamedEncoder(w), NextChild(w), Len(w.open) - 1),
          open |-> IF NextChild(w).kind \in Containers
                   THEN Append(Advanced(w), Opened(NextChild(w))) ELSE Advanced(w)]
  BY DEF WriteChild, NamedEncoder, Advanced
<1> QED
  BY <1>1, <1>2, <1>3, <1>4 DEF WriterPops, WriterGoesOn

\* The open values of a writer and the innermost of them.
LEMMA TopIs ==
    ASSUME NEW V, NEW root, Tree(V, root), NEW w, WriterInv(w, V, root)
    PROVE  /\ Len(w.open) \in Nat \ {0} /\ WriterTop(w) = w.open[Len(w.open)]
           /\ \A j \in 1..Len(w.open) :
                 /\ w.open[j] \in OpenValues(V, root)
                 /\ w.open[j].value \in V \union {Caller(root)} /\ w.open[j].next \in Nat
                 /\ w.open[j].value.items \in Seq(V) /\ Len(w.open[j].value.items) \in Nat
                 /\ \A i \in 1..Len(w.open[j].value.items) : w.open[j].value.items[i] \in V
           /\ Front(w.open) \in Seq(OpenValues(V, root)) /\ Len(Front(w.open)) = Len(w.open) - 1
           /\ \A j \in 1..(Len(w.open) - 1) : Front(w.open)[j] = w.open[j]
<1>1. w.open \in Seq(OpenValues(V, root)) /\ w.open # <<>>
      /\ \A j \in 1..Len(w.open) : w.open[j].value.kind \in Containers
  BY DEF WriterInv
<1>2. /\ Front(w.open) \in Seq(OpenValues(V, root)) /\ Len(Front(w.open)) = Len(w.open) - 1
      /\ Len(w.open) \in Nat \ {0}
      /\ \A i \in 1..(Len(w.open) - 1) : Front(w.open)[i] = w.open[i]
      /\ Last(w.open) = w.open[Len(w.open)]
  BY <1>1, FrontIs
<1>3. ASSUME NEW j \in 1..Len(w.open)
      PROVE  /\ w.open[j] \in OpenValues(V, root)
             /\ w.open[j].value \in V \union {Caller(root)} /\ w.open[j].next \in Nat
             /\ w.open[j].value.items \in Seq(V) /\ Len(w.open[j].value.items) \in Nat
             /\ \A i \in 1..Len(w.open[j].value.items) : w.open[j].value.items[i] \in V
  <2>1. w.open[j] \in OpenValues(V, root)
    BY <1>1, ElementOfSeq
  <2>2. w.open[j].value \in V \union {Caller(root)} /\ w.open[j].next \in Nat
    BY <2>1 DEF OpenValues
  <2> QED
    BY <1>1, <2>1, <2>2, OpenValueIs
<1> QED
  BY <1>2, <1>3 DEF WriterTop

\* The call that asks for the root is never left.
LEMMA PopLeavesOne ==
    ASSUME NEW V, NEW root, Tree(V, root), NEW w, WriterInv(w, V, root), WriterPops(w)
    PROVE  Len(w.open) - 1 \in Nat \ {0}
<1>1. Len(w.open) \in Nat \ {0} /\ WriterTop(w) = w.open[Len(w.open)]
  BY TopIs
<1>2. Len(w.open) # 1
  <2> SUFFICES ASSUME Len(w.open) = 1 PROVE FALSE
    OBVIOUS
  <2>1. /\ w.open[1].value = Caller(root) /\ w.open[1].next \in 1..(Len(w.open[1].value.items) + 1)
        /\ w.open[1].next > Len(w.open[1].value.items)
    BY <1>1 DEF WriterInv, WriterPops
  <2>2. Caller(root).items = <<root>>
    BY DEF Caller, Array, Value
  <2>3. w.open[1].next = 2
    <3>1. Len(<<root>>) = 1
      OBVIOUS
    <3> HIDE DEF Caller
    <3> QED
      BY <2>1, <2>2, <3>1
  <2> QED
    BY <2>3 DEF WriterPops, WriterStops, WriterIsDone
<1> QED
  BY <1>1, <1>2

\* The next child is a value of the tree, and its name can be written.
LEMMA ChildIs ==
    ASSUME NEW V, NEW root, Tree(V, root), NEW w, WriterInv(w, V, root), WriterGoesOn(w)
    PROVE  /\ WriterTop(w).next \in 1..Len(WriterTop(w).value.items)
           /\ NextChild(w) \in V /\ IsValue(NextChild(w), V)
           /\ Advances(w.encoder, NamedEncoder(w))
           /\ WriterTop(w).value.kind = "object" =>
                 /\ WriterTop(w).value.names[WriterTop(w).next] \in Seq(Int)
                 /\ WriterTop(w).value.names \in Seq(Seq(Int))
                 /\ Len(WriterTop(w).value.names) = Len(WriterTop(w).value.items)
<1> DEFINE m == Len(w.open)  top == w.open[m]
<1>1. /\ m \in Nat \ {0} /\ WriterTop(w) = top /\ m \in 1..m
      /\ top.value \in V \union {Caller(root)} /\ top.next \in Nat
      /\ Len(top.value.items) \in Nat
      /\ \A i \in 1..Len(top.value.items) : top.value.items[i] \in V
  <2>1. m \in Nat \ {0} /\ WriterTop(w) = top
    BY TopIs
  <2>2. m \in 1..Len(w.open)
    BY <2>1
  <2> HIDE DEF m
  <2>3. /\ w.open[m].value \in V \union {Caller(root)} /\ w.open[m].next \in Nat
        /\ Len(w.open[m].value.items) \in Nat
        /\ \A i \in 1..Len(w.open[m].value.items) : w.open[m].value.items[i] \in V
    BY <2>2, TopIs
  <2> QED
    BY <2>1, <2>3
<1>2. top.next \in 1..(Len(top.value.items) + 1) /\ w.encoder \in Encoders
  BY <1>1 DEF WriterInv
<1> HIDE DEF m, top
<1>3. top.next \in 1..Len(top.value.items)
  BY <1>1, <1>2 DEF WriterGoesOn
<1>4. NextChild(w) \in V
  BY <1>1, <1>3 DEF NextChild
<1>5. IsValue(NextChild(w), V)
  BY <1>4 DEF Tree
<1>6. top.value.kind = "object" =>
         /\ top.value.names[top.next] \in Seq(Int) /\ top.value.names \in Seq(Seq(Int))
         /\ Len(top.value.names) = Len(top.value.items)
  <2> DEFINE v == top.value
  <2>1. v \in V \union {Caller(root)}
    BY <1>1
  <2> HIDE DEF v
  <2>2. v.kind = "object" => /\ v.names \in Seq(Seq(Int)) /\ Len(v.names) = Len(v.items)
                             /\ \A i \in 1..Len(v.items) : v.names[i] \in Seq(Int)
    BY <2>1, OpenValueIs
  <2> QED
    BY <1>3, <2>2 DEF v
<1>7. Advances(w.encoder, NamedEncoder(w))
  <2>1. CASE top.value.kind = "object"
    <3>1. NamedEncoder(w) = WriteName(w.encoder, top.value, top.next)
      BY <1>1, <2>1 DEF NamedEncoder
    <3> QED
      BY <1>2, <1>6, <2>1, <3>1, NameAdvances
  <2>2. CASE top.value.kind # "object"
    <3>1. NamedEncoder(w) = w.encoder
      BY <1>1, <2>2 DEF NamedEncoder
    <3> QED
      BY <1>2, <3>1, GrowsItself DEF Advances
  <2> QED
    BY <2>1, <2>2
<1> QED
  BY <1>1, <1>3, <1>4, <1>5, <1>6, <1>7

\* The open values after a child was begun
LEMMA AdvancedIs ==
    ASSUME NEW V, NEW root, Tree(V, root), NEW w, WriterInv(w, V, root), WriterGoesOn(w)
    PROVE  /\ Advanced(w) \in Seq(OpenValues(V, root)) /\ Len(Advanced(w)) = Len(w.open)
           /\ \A j \in 1..(Len(w.open) - 1) : Advanced(w)[j] = w.open[j]
           /\ Advanced(w)[Len(w.open)].value = WriterTop(w).value
           /\ Advanced(w)[Len(w.open)].next = WriterTop(w).next + 1
<1> DEFINE m == Len(w.open)  top == WriterTop(w)  next == top.next + 1
           more == [top EXCEPT !.next = next]
<1>1. /\ m \in Nat \ {0} /\ top \in OpenValues(V, root)
      /\ Front(w.open) \in Seq(OpenValues(V, root)) /\ Len(Front(w.open)) = m - 1
      /\ \A j \in 1..(m - 1) : Front(w.open)[j] = w.open[j]
  <2>1. /\ m \in Nat \ {0} /\ top = w.open[m]
        /\ Front(w.open) \in Seq(OpenValues(V, root)) /\ Len(Front(w.open)) = m - 1
        /\ \A j \in 1..(m - 1) : Front(w.open)[j] = w.open[j]
    BY TopIs
  <2>2. m \in 1..Len(w.open)
    BY <2>1
  <2>3. w.open[m] \in OpenValues(V, root)
    <3> HIDE DEF m
    <3> QED
      BY <2>2, TopIs
  <2> QED
    BY <2>1, <2>3
<1>2. next \in Nat
  BY <1>1 DEF OpenValues
<1> HIDE DEF m, top, next
<1>3. more \in OpenValues(V, root) /\ more.value = top.value /\ more.next = next
  BY <1>1, <1>2 DEF OpenValues
<1>4. Advanced(w) = Append(Front(w.open), more)
  BY DEF Advanced, next, top
<1> HIDE DEF more
<1>5. /\ Append(Front(w.open), more) \in Seq(OpenValues(V, root))
      /\ Len(Append(Front(w.open), more)) = (m - 1) + 1
      /\ \A j \in 1..(m - 1) : Append(Front(w.open), more)[j] = Front(w.open)[j]
      /\ Append(Front(w.open), more)[(m - 1) + 1] = more
  BY <1>1, <1>3, AppendProperties
<1>6. (m - 1) + 1 = m
  BY <1>1
<1> QED
  BY <1>1, <1>3, <1>4, <1>5, <1>6 DEF m, top, next

\* The encoder after a step that writes a child
LEMMA GoesOnEncoder ==
    ASSUME NEW V, NEW root, Tree(V, root), NEW w, WriterInv(w, V, root), WriterGoesOn(w)
    PROVE  LET f == WriteNext(w).encoder
           IN  /\ f = WriteValue(NamedEncoder(w), NextChild(w), Len(w.open) - 1)
               /\ f \in Encoders /\ Grows(w.encoder, f) /\ Grows(NamedEncoder(w), f)
               /\ NamedEncoder(w) \in Encoders
               /\ ~f.failed => w.encoder.remaining > 0 /\ f.remaining = w.encoder.remaining - 1
<1> DEFINE e == NamedEncoder(w)  depth == Len(w.open) - 1  v == NextChild(w)
           f == WriteNext(w).encoder
<1>1. f = WriteValue(e, v, depth)
  BY WriterSteps
<1>2. Advances(w.encoder, e) /\ IsValue(v, V)
  BY ChildIs
<1>3. w.encoder \in Encoders
  BY DEF WriterInv
<1> HIDE DEF e, v, depth, f
<1>4. e \in Encoders /\ Grows(w.encoder, e) /\ (~e.failed => e.remaining = w.encoder.remaining)
  BY <1>2 DEF Advances
<1>5. /\ f \in Encoders /\ Grows(e, f)
      /\ ~f.failed => e.remaining > 0 /\ f.remaining = e.remaining - 1
  BY <1>1, <1>2, <1>4, WriteValueGrows
<1>6. Grows(w.encoder, f)
  BY <1>3, <1>4, <1>5, GrowsFurther
<1>7. ~f.failed => ~e.failed
  BY <1>5 DEF Grows
<1> QED
  BY <1>1, <1>4, <1>5, <1>6, <1>7 DEF e, v, depth, f

\* A step of the writer keeps its invariant, and grows the streams.
LEMMA WriterInvNext ==
    ASSUME NEW V, NEW root, Tree(V, root), NEW w, WriterInv(w, V, root)
    PROVE  WriterInv(WriteNext(w), V, root) /\ Grows(w.encoder, WriteNext(w).encoder)
<1> DEFINE x == WriteNext(w)  m == Len(w.open)  S == OpenValues(V, root)
<1>0. w.encoder \in Encoders
  BY DEF WriterInv
<1>1. CASE WriterStops(w)
  <2>1. x = w
    BY <1>1, WriterSteps
  <2> QED
    BY <1>0, <2>1, GrowsItself
<1>2. CASE WriterPops(w)
  <2>1. x = [w EXCEPT !.open = Front(@)]
    BY <1>2, WriterSteps
  <2>2. /\ m - 1 \in Nat \ {0} /\ Front(w.open) \in Seq(S) /\ Len(Front(w.open)) = m - 1
        /\ \A j \in 1..(m - 1) : Front(w.open)[j] = w.open[j]
    BY <1>2, TopIs, PopLeavesOne
  <2>3. x.encoder = w.encoder /\ x.open = Front(w.open)
    BY <2>1 DEF WriterInv
  <2>4. x.open # <<>> /\ x.open[1].value = Caller(root)
    <3> DEFINE o == Front(w.open)
    <3>1. Len(o) \in Nat \ {0} /\ 1 \in 1..(m - 1) /\ o[1] = w.open[1]
      <4>1. m - 1 \in Nat \ {0} /\ Len(o) = m - 1 /\ \A j \in 1..(m - 1) : o[j] = w.open[j]
        BY <2>2
      <4> HIDE DEF m, o
      <4>2. 1 \in 1..(m - 1)
        <5> DEFINE k == m - 1
        <5>1. k \in Nat \ {0}
          BY <4>1
        <5> HIDE DEF k
        <5>2. 1 \in 1..k
          BY <5>1
        <5> QED
          BY <5>2 DEF k
      <4> QED
        BY <4>1, <4>2
    <3>2. w.open[1].value = Caller(root)
      BY DEF WriterInv
    <3>3. x.open = o
      BY <2>3
    <3> HIDE DEF o, x, Caller
    <3> QED
      BY <3>1, <3>2, <3>3, EmptySeq
  <2>5. \A j \in 1..(m - 1) : j \in 1..m
    BY <2>2
  <2>6. \A j \in 1..((m - 1) - 1) : j \in 1..(m - 1) /\ j + 1 \in 1..(m - 1)
    BY <2>2
  <2> HIDE DEF x, m
  <2>7. \A j \in 1..Len(x.open) : /\ x.open[j].value.kind \in Containers
                                  /\ x.open[j].next \in 1..(Len(x.open[j].value.items) + 1)
    BY <2>2, <2>3, <2>5 DEF WriterInv, m
  <2>8. \A j \in 1..(Len(x.open) - 1) :
           /\ x.open[j].next >= 2
           /\ x.open[j + 1].value = x.open[j].value.items[x.open[j].next - 1]
    <3> SUFFICES ASSUME NEW j \in 1..(Len(x.open) - 1)
                 PROVE  /\ x.open[j].next >= 2
                        /\ x.open[j + 1].value = x.open[j].value.items[x.open[j].next - 1]
      OBVIOUS
    <3>1. j \in 1..((m - 1) - 1) /\ j \in 1..(m - 1)
      BY <2>2, <2>3
    <3>2. x.open[j] = w.open[j] /\ x.open[j + 1] = w.open[j + 1]
      BY <2>2, <2>3, <2>6, <3>1
    <3>3. w.open[j].next >= 2 /\ w.open[j + 1].value = w.open[j].value.items[w.open[j].next - 1]
      BY <3>1 DEF WriterInv, m
    <3> QED
      BY <3>2, <3>3
  <2>9. WriterInv(x, V, root)
    BY <2>2, <2>3, <2>4, <2>7, <2>8 DEF WriterInv
  <2> QED
    BY <1>0, <2>3, <2>9, GrowsItself DEF x
<1>3. CASE WriterGoesOn(w)
  <2> DEFINE v == NextChild(w)  a == Advanced(w)  top == WriterTop(w)
  <2>1. /\ x.encoder \in Encoders /\ Grows(w.encoder, x.encoder)
        /\ ~x.encoder.failed => w.encoder.remaining > 0 /\ x.encoder.remaining = w.encoder.remaining - 1
    BY <1>3, GoesOnEncoder
  <2>2. x.open = IF v.kind \in Containers THEN Append(a, Opened(v)) ELSE a
    <3>1. x = [encoder |-> WriteValue(NamedEncoder(w), v, Len(w.open) - 1),
               open |-> IF v.kind \in Containers THEN Append(a, Opened(v)) ELSE a]
      BY <1>3, WriterSteps
    <3> HIDE DEF x, a, v
    <3> QED
      BY <3>1
  <2>3. /\ a \in Seq(S) /\ Len(a) = m /\ \A j \in 1..(m - 1) : a[j] = w.open[j]
        /\ a[m].value = top.value /\ a[m].next = top.next + 1
    BY <1>3, AdvancedIs
  <2>4. /\ m \in Nat \ {0} /\ top = w.open[m] /\ top.next \in 1..Len(top.value.items)
        /\ v \in V /\ v = top.value.items[top.next] /\ top.value.kind \in Containers
    <3>1. m \in Nat \ {0} /\ top = w.open[m]
      BY TopIs
    <3> QED
      BY <1>3, <3>1, ChildIs, SMTT(60) DEF NextChild, WriterInv
  <2>5. w.open[1].value = Caller(root)
    BY DEF WriterInv
  <2> DEFINE Frames(s) == /\ \A j \in 1..Len(s) :
                                /\ s[j].value.kind \in Containers
                                /\ s[j].next \in 1..(Len(s[j].value.items) + 1)
                          /\ \A j \in 1..(Len(s) - 1) :
                                /\ s[j].next >= 2
                                /\ s[j + 1].value = s[j].value.items[s[j].next - 1]
  <2>6. Frames(w.open)
    BY DEF WriterInv
  <2> HIDE DEF a, v, top, m, x
  <2>7. ~x.encoder.failed => x.encoder.remaining >= 0
    <3>1. w.encoder.remaining \in Int
      BY <1>0 DEF Encoders
    <3> QED
      BY <2>1, <3>1
  <2>8. Frames(a) /\ a[1].value = Caller(root) /\ a # <<>>
    <3>1. ASSUME NEW j \in 1..Len(a)
          PROVE  /\ a[j].value.kind \in Containers
                 /\ a[j].next \in 1..(Len(a[j].value.items) + 1)
      <4>1. CASE j = m
        <5>1. Len(top.value.items) \in Nat
          BY <2>4, TopIs, SMTT(60) DEF m
        <5> QED
          BY <2>3, <2>4, <4>1, <5>1, SMTT(60)
      <4>2. CASE j # m
        <5>1. j \in 1..(m - 1) /\ j \in 1..Len(w.open)
          BY <2>3, <2>4, <4>2 DEF m
        <5> QED
          BY <2>3, <2>6, <5>1
      <4> QED
        BY <4>1, <4>2
    <3>2. ASSUME NEW j \in 1..(Len(a) - 1)
          PROVE  a[j].next >= 2 /\ a[j + 1].value = a[j].value.items[a[j].next - 1]
      <4>1. j \in 1..(m - 1) /\ j \in 1..(Len(w.open) - 1)
        BY <2>3, <2>4 DEF m
      <4>2. a[j] = w.open[j] /\ a[j + 1].value = w.open[j + 1].value
        <5>1. CASE j + 1 = m
          BY <2>3, <2>4, <4>1, <5>1
        <5>2. CASE j + 1 # m
          <6>1. j + 1 \in 1..(m - 1)
            BY <2>4, <4>1, <5>2
          <6> QED
            BY <2>3, <4>1, <6>1
        <5> QED
          BY <5>1, <5>2
      <4> QED
        BY <2>6, <4>1, <4>2
    <3>3. a[1].value = Caller(root)
      <4>1. CASE m = 1
        BY <2>3, <2>4, <2>5, <4>1
      <4>2. CASE m # 1
        BY <2>3, <2>4, <2>5, <4>2
      <4> QED
        BY <4>1, <4>2
    <3>4. a # <<>>
      BY <2>3, <2>4, EmptySeq
    <3> QED
      BY <3>1, <3>2, <3>3, <3>4
  <2>9. CASE v.kind \notin Containers
    <3>1. x.open = a
      BY <2>2, <2>9
    <3> HIDE DEF Frames
    <3>2. Frames(x.open) /\ x.open[1].value = Caller(root) /\ x.open # <<>> /\ x.open \in Seq(S)
      BY <2>3, <2>8, <3>1
    <3>3. WriterInv(x, V, root)
      BY <2>1, <2>7, <3>2 DEF WriterInv, Frames
    <3> QED
      BY <2>1, <3>3 DEF x
  <2>10. CASE v.kind \in Containers
    <3> DEFINE o == Opened(v)
    <3>1. x.open = Append(a, o)
      BY <2>2, <2>10
    <3>2. o \in S /\ o.value = v /\ o.next = 1
      BY <2>4 DEF Opened, OpenValues
    <3>3. Len(v.items) \in Nat
      <4>1. v \in V \union {Caller(root)}
        BY <2>4
      <4> QED
        BY <2>10, <4>1, OpenValueIs
    <3> HIDE DEF o
    <3> DEFINE b == Append(a, o)
    <3>4. /\ b \in Seq(S) /\ Len(b) = m + 1 /\ b[m + 1] = o
          /\ \A j \in 1..m : b[j] = a[j]
      BY <2>3, <3>2, AppendProperties
    <3> HIDE DEF b
    <3>5. Frames(b)
      <4>1. ASSUME NEW j \in 1..Len(b)
            PROVE  b[j].value.kind \in Containers /\ b[j].next \in 1..(Len(b[j].value.items) + 1)
        <5>1. CASE j = m + 1
          BY <2>10, <3>2, <3>3, <3>4, <5>1
        <5>2. CASE j # m + 1
          <6>1. j \in 1..m /\ j \in 1..Len(a)
            BY <2>3, <2>4, <3>4, <5>2
          <6> QED
            BY <2>8, <3>4, <6>1
        <5> QED
          BY <5>1, <5>2
      <4>2. ASSUME NEW j \in 1..(Len(b) - 1)
            PROVE  b[j].next >= 2 /\ b[j + 1].value = b[j].value.items[b[j].next - 1]
        <5>1. CASE j = m
          <6>1. b[m] = a[m] /\ b[m + 1].value = v
            BY <2>4, <3>2, <3>4
          <6>2. a[m].next - 1 = top.next /\ a[m].next >= 2
            BY <2>3, <2>4, SMTT(60)
          <6> QED
            BY <2>3, <2>4, <5>1, <6>1, <6>2, ZenonT(60)
        <5>2. CASE j # m
          <6>1. j \in 1..(Len(a) - 1) /\ j \in 1..m /\ j + 1 \in 1..m
            BY <2>3, <2>4, <3>4, <5>2
          <6> QED
            BY <2>8, <3>4, <6>1, SMTT(60)
        <5> QED
          BY <5>1, <5>2
      <4> QED
        BY <4>1, <4>2
    <3>6. b[1].value = Caller(root) /\ b # <<>>
      <4>1. 1 \in 1..m
        BY <2>4
      <4> QED
        BY <2>4, <2>8, <3>4, <4>1, EmptySeq
    <3> HIDE DEF Frames
    <3>7. Frames(x.open) /\ x.open[1].value = Caller(root) /\ x.open # <<>> /\ x.open \in Seq(S)
      BY <3>1, <3>4, <3>5, <3>6 DEF b
    <3>8. WriterInv(x, V, root)
      BY <2>1, <2>7, <3>7 DEF WriterInv, Frames
    <3> QED
      BY <2>1, <3>8 DEF x
  <2> QED
    BY <2>9, <2>10
<1> QED
  BY <1>1, <1>2, <1>3, WriterSteps

\* There is room for the children that are still to come
Fitting(w) == \A j \in 1..Len(w.open) :
                 Len(w.open[j].value.items) - w.open[j].next + 1 <= w.encoder.remaining
WillEnd(w, last) == Grows(w.encoder, last) /\ Fitting(w)

\* The open values behind a child that is begun
LEMMA GoesOnOpen ==
    ASSUME NEW V, NEW root, Tree(V, root), NEW w, WriterInv(w, V, root), WriterGoesOn(w)
    PROVE  LET x == WriteNext(w)
           IN  /\ Len(w.open) \in Nat \ {0}
               /\ IF NextChild(w).kind \in Containers
                  THEN Len(x.open) = Len(w.open) + 1 /\ x.open[Len(w.open) + 1] = Opened(NextChild(w))
                  ELSE Len(x.open) = Len(w.open)
               /\ \A j \in 1..(Len(w.open) - 1) : x.open[j] = w.open[j]
               /\ x.open[Len(w.open)].value = WriterTop(w).value
               /\ x.open[Len(w.open)].next = WriterTop(w).next + 1
<1> DEFINE x == WriteNext(w)  m == Len(w.open)  a == Advanced(w)  v == NextChild(w)
           o == Opened(v)  S == OpenValues(V, root)
<1>1. m \in Nat \ {0}
  BY TopIs
<1>2. /\ a \in Seq(S) /\ Len(a) = m /\ \A j \in 1..(m - 1) : a[j] = w.open[j]
      /\ a[m].value = WriterTop(w).value /\ a[m].next = WriterTop(w).next + 1
  BY AdvancedIs
<1>3. x.open = IF v.kind \in Containers THEN Append(a, o) ELSE a
  <2>1. x = [encoder |-> WriteValue(NamedEncoder(w), v, Len(w.open) - 1),
             open |-> IF v.kind \in Containers THEN Append(a, o) ELSE a]
    BY WriterSteps
  <2> HIDE DEF x, a, v, o
  <2> QED
    BY <2>1
<1>4. o \in S
  <2>1. v \in V
    BY ChildIs
  <2> HIDE DEF v
  <2> QED
    BY <2>1 DEF Opened, OpenValues
<1> HIDE DEF x, m, a, v, o, S
<1>5. CASE v.kind \in Containers
  <2>1. x.open = Append(a, o)
    BY <1>3, <1>5
  <2>2. /\ Len(Append(a, o)) = m + 1 /\ Append(a, o)[m + 1] = o
        /\ \A j \in 1..m : Append(a, o)[j] = a[j]
    BY <1>2, <1>4, AppendProperties
  <2>3. m \in 1..m /\ \A j \in 1..(m - 1) : j \in 1..m
    BY <1>1
  <2> QED
    BY <1>1, <1>2, <1>5, <2>1, <2>2, <2>3 DEF x, m, v, o
<1>6. CASE v.kind \notin Containers
  <2>1. x.open = a
    BY <1>3, <1>6
  <2> QED
    BY <1>1, <1>2, <1>6, <2>1 DEF x, m, v
<1> QED
  BY <1>5, <1>6

\* If there is room for the children that are left after a step of the writer, there
\* was room for those before it: each child counts one value.
LEMMA FittingBefore ==
    ASSUME NEW V, NEW root, Tree(V, root), NEW w, WriterInv(w, V, root),
           NEW last \in Encoders, ~last.failed, WillEnd(WriteNext(w), last)
    PROVE  WillEnd(w, last)
<1> DEFINE x == WriteNext(w)  m == Len(w.open)
<1>1. WriterInv(x, V, root) /\ Grows(w.encoder, x.encoder)
  BY WriterInvNext
<1>2. /\ w.encoder \in Encoders /\ x.encoder \in Encoders
      /\ w.encoder.failed \/ w.encoder.remaining >= 0
  BY <1>1 DEF WriterInv
<1> HIDE DEF x
<1>3. Grows(x.encoder, last) /\ Fitting(x)
  BY DEF WillEnd, x
<1>4. Grows(w.encoder, last)
  BY <1>1, <1>2, <1>3, GrowsFurther
<1>5. ~x.encoder.failed /\ w.encoder.remaining \in Int /\ x.encoder.remaining \in Int
  BY <1>2, <1>3 DEF Grows, Encoders
<1>6. Fitting(w)
  <2>1. CASE WriterStops(w)
    <3>1. x = w
      BY <2>1, WriterSteps DEF x
    <3> QED
      BY <1>3, <3>1
  <2>2. CASE WriterPops(w)
    <3>1. x = [w EXCEPT !.open = Front(@)]
      BY <2>2, WriterSteps DEF x
    <3>2. x.encoder = w.encoder /\ x.open = Front(w.open)
      BY <3>1 DEF WriterInv
    <3>3. /\ m \in Nat \ {0} /\ WriterTop(w) = w.open[m] /\ Len(Front(w.open)) = m - 1
          /\ \A j \in 1..(m - 1) : Front(w.open)[j] = w.open[j]
      BY TopIs
    <3>4. ~w.encoder.failed
      BY <2>2 DEF WriterPops, WriterStops
    <3>5. ASSUME NEW j \in 1..m
          PROVE  Len(w.open[j].value.items) - w.open[j].next + 1 <= w.encoder.remaining
      <4>1. CASE j = m
        <5>1. w.open[m].next > Len(w.open[m].value.items)
          BY <2>2, <3>3 DEF WriterPops
        <5>2. w.open[j].next \in Nat /\ Len(w.open[j].value.items) \in Nat
          BY TopIs
        <5> QED
          BY <1>2, <1>5, <3>4, <4>1, <5>1, <5>2, SMTT(60)
      <4>2. CASE j # m
        <5>1. j \in 1..(m - 1)
          BY <3>3, <4>2
        <5> HIDE DEF m
        <5>2. j \in 1..Len(x.open) /\ x.open[j] = w.open[j]
          BY <3>2, <3>3, <5>1
        <5> QED
          BY <1>3, <3>2, <5>2 DEF Fitting
      <4> QED
        BY <4>1, <4>2
    <3> QED
      BY <3>5 DEF Fitting
  <2>3. CASE WriterGoesOn(w)
    <3> DEFINE top == WriterTop(w)
    <3>1. /\ m \in Nat \ {0}
          /\ Len(x.open) = m + 1 \/ Len(x.open) = m
          /\ \A j \in 1..(m - 1) : x.open[j] = w.open[j]
          /\ x.open[m].value = top.value /\ x.open[m].next = top.next + 1
      BY <2>3, GoesOnOpen DEF x
    <3>2. w.encoder.remaining = x.encoder.remaining + 1
      <4>1. x.encoder.remaining = w.encoder.remaining - 1
        BY <1>5, <2>3, GoesOnEncoder DEF x
      <4> QED
        BY <1>5, <4>1
    <3>3. top = w.open[m]
      BY TopIs
    <3>4. ASSUME NEW j \in 1..m
          PROVE  Len(w.open[j].value.items) - w.open[j].next + 1 <= w.encoder.remaining
      <4>1. w.open[j].next \in Nat /\ Len(w.open[j].value.items) \in Nat
        BY TopIs
      <4> HIDE DEF m, top
      <4>2. j \in 1..Len(x.open)
        BY <3>1
      <4>3. Len(x.open[j].value.items) - x.open[j].next + 1 <= x.encoder.remaining
        BY <1>3, <4>2 DEF Fitting
      <4>4. CASE j = m
        <5> DEFINE l == Len(w.open[j].value.items)  n == w.open[j].next
        <5>1. x.open[j].value = w.open[j].value /\ x.open[j].next = n + 1
          BY <3>1, <3>3, <4>4
        <5>2. l - (n + 1) + 1 <= x.encoder.remaining /\ l \in Nat /\ n \in Nat
          BY <4>1, <4>3, <5>1
        <5> HIDE DEF l, n
        <5>3. l - n + 1 <= w.encoder.remaining
          BY <1>5, <3>2, <5>2
        <5> QED
          BY <5>3 DEF l, n
      <4>5. CASE j # m
        <5> DEFINE l == Len(w.open[j].value.items)  n == w.open[j].next
        <5>1. x.open[j] = w.open[j]
          BY <3>1, <4>5
        <5>2. l - n + 1 <= x.encoder.remaining /\ l \in Nat /\ n \in Nat
          BY <4>1, <4>3, <5>1
        <5> HIDE DEF l, n
        <5>3. l - n + 1 <= w.encoder.remaining
          BY <1>5, <3>2, <5>2
        <5> QED
          BY <5>3 DEF l, n
      <4> QED
        BY <4>4, <4>5
    <3> QED
      BY <3>4 DEF Fitting
  <2> QED
    BY <2>1, <2>2, <2>3, WriterSteps
<1> QED
  BY <1>4, <1>6 DEF WillEnd

\* A writer that is done has no children to come
LEMMA FittingAtTheEnd ==
    ASSUME NEW V, NEW root, Tree(V, root), NEW w, WriterInv(w, V, root),
           WriterIsDone(w), ~w.encoder.failed
    PROVE  WillEnd(w, w.encoder)
<1>1. w.encoder \in Encoders /\ w.encoder.remaining >= 0 /\ w.encoder.remaining \in Int
  BY DEF WriterInv, Encoders
<1>2. Len(w.open) = 1 /\ w.open[1].next = 2 /\ w.open[1].value = Caller(root)
  BY DEF WriterInv, WriterIsDone
<1>3. Len(Caller(root).items) = 1
  BY DEF Caller, Array, Value
<1> HIDE DEF Caller
<1>4. Fitting(w)
  <2> SUFFICES ASSUME NEW j \in 1..Len(w.open)
               PROVE  Len(w.open[j].value.items) - w.open[j].next + 1 <= w.encoder.remaining
    BY DEF Fitting
  <2> DEFINE r == w.encoder.remaining  l == Len(w.open[j].value.items)  n == w.open[j].next
  <2>1. j = 1
    BY <1>2
  <2>2. l = 1 /\ n = 2 /\ r \in Int /\ r >= 0
    BY <1>1, <1>2, <1>3, <2>1
  <2> HIDE DEF l, n, r
  <2>3. l - n + 1 <= r
    BY <2>2
  <2> QED
    BY <2>3 DEF l, n, r
<1> QED
  BY <1>1, <1>4, GrowsItself DEF WillEnd

\* The beginning of a sequence
LEMMA Beginning ==
    ASSUME NEW S, NEW s \in Seq(S), NEW k \in 0..Len(s)
    PROVE  /\ SubSeq(s, 1, k) \in Seq(S) /\ Len(SubSeq(s, 1, k)) = k
           /\ \A i \in 1..k : SubSeq(s, 1, k)[i] = s[i]
<1>1. Len(s) \in Nat /\ k \in Nat
  BY LenProperties
<1>2. \A i \in 1..k : s[i] \in S
  BY <1>1, ElementOfSeq
<1>3. /\ SubSeq(s, 1, k) \in Seq(S)
      /\ Len(SubSeq(s, 1, k)) = IF 1 <= k THEN k - 1 + 1 ELSE 0
      /\ \A i \in 1..(k - 1 + 1) : SubSeq(s, 1, k)[i] = s[1 + i - 1]
  BY <1>1, <1>2, SubSeqProperties
<1>4. Len(SubSeq(s, 1, k)) = k /\ \A i \in 1..k : SubSeq(s, 1, k)[i] = s[i]
  BY <1>1, <1>3
<1> QED
  BY <1>3, <1>4

\* The beginning of a sequence with the next element.
LEMMA BeginningGrows ==
    ASSUME NEW S, NEW s \in Seq(S), NEW k \in Nat, k + 1 <= Len(s)
    PROVE  Append(SubSeq(s, 1, k), s[k + 1]) = SubSeq(s, 1, k + 1)
<1> DEFINE a == SubSeq(s, 1, k)  b == SubSeq(s, 1, k + 1)  c == Append(a, s[k + 1])
<1>1. Len(s) \in Nat /\ k \in 0..Len(s) /\ k + 1 \in 0..Len(s) /\ s[k + 1] \in S
  BY LenProperties, ElementOfSeq
<1>2. a \in Seq(S) /\ Len(a) = k /\ \A i \in 1..k : a[i] = s[i]
  BY <1>1, Beginning
<1>3. b \in Seq(S) /\ Len(b) = k + 1 /\ \A i \in 1..(k + 1) : b[i] = s[i]
  BY <1>1, Beginning
<1> HIDE DEF a, b
<1>4. /\ c \in Seq(S) /\ Len(c) = k + 1 /\ c[k + 1] = s[k + 1]
      /\ \A i \in 1..k : c[i] = a[i]
  BY <1>1, <1>2, AppendProperties
<1> HIDE DEF c
<1>5. \A i \in 1..(k + 1) : c[i] = b[i]
  <2> SUFFICES ASSUME NEW i \in 1..(k + 1) PROVE c[i] = b[i]
    OBVIOUS
  <2>1. CASE i = k + 1
    BY <1>3, <1>4, <2>1
  <2>2. CASE i # k + 1
    <3>1. i \in 1..k
      BY <2>2
    <3> QED
      BY <1>2, <1>3, <1>4, <3>1
  <2> QED
    BY <2>1, <2>2
<1>6. c = b
  BY <1>3, <1>4, <1>5, SeqEqual
<1> QED
  BY <1>6 DEF a, b, c

\* The whole of a sequence as a beginning of it.
LEMMA WholeBeginning ==
    ASSUME NEW S, NEW s \in Seq(S)
    PROVE  SubSeq(s, 1, Len(s)) = s
<1> DEFINE b == SubSeq(s, 1, Len(s))
<1>1. Len(s) \in 0..Len(s)
  BY LenProperties
<1>2. b \in Seq(S) /\ Len(b) = Len(s) /\ \A i \in 1..Len(s) : b[i] = s[i]
  BY <1>1, Beginning, SMTT(60)
<1> HIDE DEF b
<1>3. b = s
  BY <1>2, SeqEqual, SMTT(60)
<1> QED
  BY <1>3 DEF b

\* A sequence with another last element
LEMMA LastChanged ==
    ASSUME NEW S, NEW s \in Seq(S), Len(s) # 0, NEW x \in S
    PROVE  LET t == [s EXCEPT ![Len(s)] = x]
           IN  /\ t \in Seq(S) /\ Len(t) = Len(s) /\ t[Len(s)] = x
               /\ \A i \in 1..(Len(s) - 1) : t[i] = s[i]
<1> DEFINE n == Len(s)  t == [s EXCEPT ![n] = x]
<1>1. n \in Nat /\ s \in [1..n -> S] /\ n \in 1..n
  BY LenProperties
<1> HIDE DEF n
<1>2. t \in [1..n -> S] /\ t[n] = x /\ \A i \in 1..(n - 1) : t[i] = s[i]
  BY <1>1
<1> HIDE DEF t
<1>3. t \in Seq(S) /\ Len(t) = n
  BY <1>1, <1>2, LenProperties
<1> QED
  BY <1>2, <1>3 DEF n, t

-----------------------------------------------------------------------------

\* What a reader keeps of an open value
ReaderFrames(V, root) ==
    [kind : Containers, flag : {x.flag : x \in V \union {Caller(root)}}, count : Nat, type : {NoType},
     alternate : {FALSE}, names : Seq(Seq(Int)), items : Seq(V)]

\* What it keeps when it has read k children and the names up to the next one
FrameRead(o, k) ==
    [kind |-> o.value.kind, flag |-> o.value.flag, count |-> Len(o.value.items), type |-> NoType,
     alternate |-> FALSE,
     names |-> IF o.value.kind = "object" THEN SubSeq(o.value.names, 1, o.next - 1) ELSE <<>>,
     items |-> SubSeq(o.value.items, 1, k)]

\* The children of the open value j that are complete
Complete(wo, j) == IF j = Len(wo) THEN wo[j].next - 1 ELSE wo[j].next - 2

\* The open values of the reader are those of the writer, as far as it has come
Shows(ro, wo, V, root) ==
    /\ ro \in Seq(ReaderFrames(V, root)) /\ Len(ro) = Len(wo)
    /\ \A j \in 1..Len(wo) : ro[j] = FrameRead(wo[j], Complete(wo, j))

\* What a reader keeps of an open value is of the form it should have.
LEMMA FrameIs ==
    ASSUME NEW V, NEW root, Tree(V, root), NEW o, o.value \in V \union {Caller(root)},
           o.value.kind \in Containers, o.next \in 1..(Len(o.value.items) + 1),
           NEW k \in 0..Len(o.value.items)
    PROVE  /\ FrameRead(o, k) \in ReaderFrames(V, root)
           /\ FrameRead(o, k).items = SubSeq(o.value.items, 1, k)
           /\ FrameRead(o, k).items \in Seq(V) /\ Len(FrameRead(o, k).items) = k
           /\ FrameRead(o, k).count = Len(o.value.items)
           /\ FrameRead(o, k).names \in Seq(Seq(Int))
<1> DEFINE v == o.value
<1>1. /\ v.items \in Seq(V) /\ Len(v.items) \in Nat
      /\ v.kind = "object" => v.names \in Seq(Seq(Int)) /\ Len(v.names) = Len(v.items)
  BY OpenValueIs
<1> DEFINE i == SubSeq(v.items, 1, k)
           n == IF v.kind = "object" THEN SubSeq(v.names, 1, o.next - 1) ELSE <<>>
<1>2. i \in Seq(V) /\ Len(i) = k
  BY <1>1, Beginning
<1>3. n \in Seq(Seq(Int))
  <2>1. CASE v.kind = "object"
    <3>1. o.next - 1 \in 0..Len(v.names)
      BY <1>1, <2>1
    <3> QED
      BY <1>1, <2>1, <3>1, Beginning
  <2> QED
    BY <2>1
<1>4. v.flag \in {x.flag : x \in V \union {Caller(root)}}
  OBVIOUS
<1>5. FrameRead(o, k) = [kind |-> v.kind, flag |-> v.flag, count |-> Len(v.items), type |-> NoType,
                         alternate |-> FALSE, names |-> n, items |-> i]
  BY DEF FrameRead
<1> HIDE DEF i, n, v
<1>6. v.kind \in Containers
  BY DEF v
<1>7. FrameRead(o, k) \in ReaderFrames(V, root)
  BY <1>1, <1>2, <1>3, <1>4, <1>5, <1>6 DEF ReaderFrames
<1> QED
  BY <1>2, <1>3, <1>5, <1>7 DEF i, v

\* A frame with other names or other children
Frame(value, names, items) ==
    [kind |-> value.kind, flag |-> value.flag, count |-> Len(value.items), type |-> NoType,
     alternate |-> FALSE, names |-> names, items |-> items]

\* What a reader keeps, with other names.
LEMMA NamesChanged ==
    ASSUME NEW v, NEW n, NEW i, NEW m, NEW f, f = Frame(v, n, i)
    PROVE  [f EXCEPT !.names = m] = Frame(v, m, i)
<1> DEFINE a == v.kind  b == v.flag  c == Len(v.items)  e == FALSE
<1>1. f = [kind |-> a, flag |-> b, count |-> c, type |-> NoType, alternate |-> e, names |-> n,
           items |-> i]
  BY DEF Frame
<1> HIDE DEF a, b, c, e, NoType
<1>2. [f EXCEPT !.names = m] = [kind |-> a, flag |-> b, count |-> c, type |-> NoType,
                                 alternate |-> e, names |-> m, items |-> i]
  BY <1>1
<1> QED
  BY <1>2 DEF Frame, a, b, c, e

\* What a reader keeps, with other children.
LEMMA ItemsChanged ==
    ASSUME NEW v, NEW n, NEW i, NEW m, NEW f, f = Frame(v, n, i)
    PROVE  [f EXCEPT !.items = m] = Frame(v, n, m)
<1> DEFINE a == v.kind  b == v.flag  c == Len(v.items)  e == FALSE
<1>1. f = [kind |-> a, flag |-> b, count |-> c, type |-> NoType, alternate |-> e, names |-> n,
           items |-> i]
  BY DEF Frame
<1> HIDE DEF a, b, c, e, NoType
<1>2. [f EXCEPT !.items = m] = [kind |-> a, flag |-> b, count |-> c, type |-> NoType,
                                 alternate |-> e, names |-> n, items |-> m]
  BY <1>1
<1> QED
  BY <1>2 DEF Frame, a, b, c, e

\* t is ro but for its last frame
Replaces(t, ro, frame, V, root) ==
    /\ t \in Seq(ReaderFrames(V, root)) /\ Len(t) = Len(ro) /\ t[Len(ro)] = frame
    /\ \A j \in 1..(Len(ro) - 1) : t[j] = ro[j]

WithName(ro, name) == [ro EXCEPT ![Len(ro)].names = Append(@, name)]

\* A child that is read is added to the innermost open value.
LEMMA ItemAdded ==
    ASSUME NEW V, NEW root, Tree(V, root), NEW o, o.value \in V \union {Caller(root)},
           o.value.kind \in Containers, o.next \in 1..(Len(o.value.items) + 1),
           NEW k \in Nat, k + 1 <= Len(o.value.items),
           NEW ro \in Seq(ReaderFrames(V, root)), Len(ro) # 0, ro[Len(ro)] = FrameRead(o, k),
           NEW x, x = o.value.items[k + 1]
    PROVE  Replaces(AddItem(ro, x), ro, FrameRead(o, k + 1), V, root)
<1> DEFINE v == o.value  S == ReaderFrames(V, root)
           old == FrameRead(o, k)  new == FrameRead(o, k + 1)
<1>1. v.items \in Seq(V) /\ Len(v.items) \in Nat
  BY OpenValueIs
<1>2. k \in 0..Len(o.value.items) /\ k + 1 \in 0..Len(o.value.items)
  BY <1>1
<1>3. old \in S /\ new \in S /\ old.items = SubSeq(v.items, 1, k)
  BY <1>2, FrameIs
<1>4. Append(SubSeq(v.items, 1, k), x) = SubSeq(v.items, 1, k + 1)
  BY <1>1, BeginningGrows
<1>5. [old EXCEPT !.items = Append(@, x)] = new
  <2>1. [old EXCEPT !.items = Append(@, x)] = [old EXCEPT !.items = SubSeq(v.items, 1, k + 1)]
    BY <1>3, <1>4
  <2>2. [old EXCEPT !.items = SubSeq(v.items, 1, k + 1)] = new
    <3> DEFINE q == SubSeq(v.items, 1, k + 1)
               n == IF v.kind = "object" THEN SubSeq(v.names, 1, o.next - 1) ELSE <<>>
    <3>1. new = Frame(v, n, q)
      BY DEF FrameRead, Frame
    <3>2. old = Frame(v, n, SubSeq(v.items, 1, k))
      BY DEF FrameRead, Frame
    <3> HIDE DEF q, new, old, n, v
    <3> DEFINE i == SubSeq(v.items, 1, k)
    <3>4. old = Frame(v, n, i)
      BY <3>2
    <3> HIDE DEF i
    <3>3. [old EXCEPT !.items = q] = Frame(v, n, q)
      BY <3>4, ItemsChanged
    <3> QED
      BY <3>1, <3>3 DEF q
  <2> QED
    BY <2>1, <2>2
<1> HIDE DEF old, new, S
<1>6. AddItem(ro, x) = [ro EXCEPT ![Len(ro)] = new]
  <2>1. AddItem(ro, x) = [ro EXCEPT ![Len(ro)] = [ro[Len(ro)] EXCEPT !.items = Append(@, x)]]
    BY DEF AddItem
  <2>2. ro[Len(ro)] = old
    BY DEF old
  <2> QED
    BY <1>5, <2>1, <2>2
<1>7. ro \in Seq(S)
  BY DEF S
<1> DEFINE t == [ro EXCEPT ![Len(ro)] = new]
<1>8. /\ t \in Seq(S) /\ Len(t) = Len(ro) /\ t[Len(ro)] = new
      /\ \A j \in 1..(Len(ro) - 1) : t[j] = ro[j]
  BY <1>3, <1>7, LastChanged
<1> QED
  BY <1>6, <1>8 DEF S, new, Replaces

\* A name that is read is added to the innermost open value.
LEMMA NameAdded ==
    ASSUME NEW V, NEW root, Tree(V, root), NEW o, o.value \in V \union {Caller(root)},
           o.value.kind = "object", o.next \in 1..Len(o.value.items),
           NEW k \in 0..Len(o.value.items), NEW p, p.value = o.value, p.next = o.next + 1,
           NEW ro \in Seq(ReaderFrames(V, root)), Len(ro) # 0, ro[Len(ro)] = FrameRead(o, k),
           NEW x, x = o.value.names[o.next]
    PROVE  Replaces(WithName(ro, x), ro, FrameRead(p, k), V, root)
<1> DEFINE v == o.value  S == ReaderFrames(V, root)
           old == FrameRead(o, k)  new == FrameRead(p, k)  i == o.next - 1
<1>1. /\ Len(v.items) \in Nat /\ v.kind \in Containers
      /\ v.names \in Seq(Seq(Int)) /\ Len(v.names) = Len(v.items)
  BY OpenValueIs DEF Containers
<1>2. /\ p.next \in 1..(Len(p.value.items) + 1) /\ p.value \in V \union {Caller(root)}
      /\ p.value.kind \in Containers /\ k \in 0..Len(p.value.items)
  <2> DEFINE l == Len(v.items)  z == p.next
  <2>1. l \in Nat /\ o.next \in 1..l /\ z = o.next + 1
    BY <1>1
  <2> HIDE DEF l, z
  <2>2. z \in 1..(l + 1)
    BY <2>1
  <2> QED
    BY <1>1, <2>2 DEF l, z
<1>3. new \in S
  BY <1>2, FrameIs
<1>4. i \in Nat /\ i + 1 = o.next /\ i + 1 <= Len(v.names) /\ p.next - 1 = i + 1
  BY <1>1, SMTT(60)
<1>5. Append(SubSeq(v.names, 1, i), x) = SubSeq(v.names, 1, i + 1)
  <2>1. x = v.names[i + 1]
    BY <1>4
  <2> HIDE DEF i, v
  <2> QED
    BY <1>1, <1>4, <2>1, BeginningGrows
<1>6. [old EXCEPT !.names = Append(@, x)] = new
  <2>1. old.names = SubSeq(v.names, 1, i)
    BY DEF FrameRead, Frame
  <2>2. [old EXCEPT !.names = Append(@, x)] = [old EXCEPT !.names = SubSeq(v.names, 1, i + 1)]
    BY <1>5, <2>1
  <2>3. [old EXCEPT !.names = SubSeq(v.names, 1, i + 1)] = new
    <3> DEFINE q == SubSeq(v.names, 1, i + 1)
    <3>1. new.names = q
      BY <1>4 DEF FrameRead, Frame
    <3>2. new = Frame(v, q, SubSeq(v.items, 1, k))
      BY <1>4 DEF FrameRead, Frame
    <3>3. \E n : old = Frame(v, n, SubSeq(v.items, 1, k))
      BY DEF FrameRead, Frame
    <3> HIDE DEF q, new, old, i
    <3>4. PICK n : old = Frame(v, n, SubSeq(v.items, 1, k))
      BY <3>3
    <3>5. [old EXCEPT !.names = q] = Frame(v, q, SubSeq(v.items, 1, k))
      BY <3>4, NamesChanged
    <3> QED
      BY <3>2, <3>5 DEF q
  <2> QED
    BY <2>2, <2>3
<1> HIDE DEF old, new, S
<1> DEFINE t == [ro EXCEPT ![Len(ro)] = new]
<1>7. [ro EXCEPT ![Len(ro)].names = Append(@, x)] = t
  <2>1. [ro EXCEPT ![Len(ro)].names = Append(@, x)]
            = [ro EXCEPT ![Len(ro)] = [ro[Len(ro)] EXCEPT !.names = Append(@, x)]]
    OBVIOUS
  <2>2. ro[Len(ro)] = old
    BY DEF old
  <2> QED
    BY <1>6, <2>1, <2>2
<1>8. ro \in Seq(S)
  BY DEF S
<1>9. /\ t \in Seq(S) /\ Len(t) = Len(ro) /\ t[Len(ro)] = new
      /\ \A j \in 1..(Len(ro) - 1) : t[j] = ro[j]
  BY <1>3, <1>8, LastChanged
<1> QED
  BY <1>7, <1>9 DEF S, new, Replaces, WithName

\* Reader and writer at the same place of the same value
InStep(r, w, last, V, root) ==
    Follows(r.decoder, w.encoder, last) /\ Shows(r.open, w.open, V, root)

\* The innermost value of both
LEMMA ReaderTopIs ==
    ASSUME NEW V, NEW root, Tree(V, root), NEW w, WriterInv(w, V, root), NEW ro,
           Shows(ro, w.open, V, root)
    PROVE  LET o == WriterTop(w)
           IN  /\ Len(ro) \in Nat \ {0} /\ Len(ro) = Len(w.open)
               /\ o.value \in V \union {Caller(root)} /\ o.value.kind \in Containers
               /\ o.next \in 1..(Len(o.value.items) + 1) /\ Len(o.value.items) \in Nat
               /\ Last(ro) = ro[Len(ro)] /\ ro[Len(ro)] = FrameRead(o, o.next - 1)
               /\ Len(Last(ro).items) = o.next - 1 /\ Last(ro).count = Len(o.value.items)
<1> DEFINE o == WriterTop(w)  m == Len(w.open)
<1>1. m \in Nat \ {0} /\ o = w.open[m] /\ m \in 1..m
  BY TopIs
<1>2. o.value \in V \union {Caller(root)} /\ Len(o.value.items) \in Nat
  <2>1. m \in 1..Len(w.open)
    BY <1>1
  <2> HIDE DEF m
  <2>2. w.open[m].value \in V \union {Caller(root)} /\ Len(w.open[m].value.items) \in Nat
    BY <2>1, TopIs
  <2> QED
    BY <1>1, <2>2
<1>3. o.value.kind \in Containers /\ o.next \in 1..(Len(o.value.items) + 1)
  BY <1>1 DEF WriterInv
<1>4. Len(ro) = m /\ ro[m] = FrameRead(o, o.next - 1)
  BY <1>1 DEF Shows, Complete
<1>5. Last(ro) = ro[Len(ro)]
  BY DEF Last
<1> HIDE DEF o, m
<1>6. o.next - 1 \in 0..Len(o.value.items)
  BY <1>2, <1>3
<1>7. /\ Len(FrameRead(o, o.next - 1).items) = o.next - 1
      /\ FrameRead(o, o.next - 1).count = Len(o.value.items)
  BY <1>2, <1>3, <1>6, FrameIs
<1> QED
  BY <1>1, <1>2, <1>3, <1>4, <1>5, <1>7 DEF o, m

\* A reader that shows a writer stops when it stops
LEMMA StopsTogether ==
    ASSUME NEW V, NEW root, Tree(V, root), NEW w, WriterInv(w, V, root), NEW r,
           Shows(r.open, w.open, V, root)
    PROVE  ReaderIsDone(r) <=> WriterIsDone(w)
<1> DEFINE o == WriterTop(w)
<1>1. /\ Len(r.open) \in Nat \ {0} /\ Len(r.open) = Len(w.open)
      /\ o.next \in 1..(Len(o.value.items) + 1)
      /\ Last(r.open) = r.open[Len(r.open)] /\ Len(Last(r.open).items) = o.next - 1
  BY ReaderTopIs
<1>2. o = w.open[Len(w.open)] /\ w.open[1].value = Caller(root)
  BY TopIs DEF WriterInv
<1> HIDE DEF o
<1>3. CASE Len(r.open) = 1
  <2>1. Len(Caller(root).items) = 1
    BY DEF Caller, Array, Value
  <2>2. o.value = Caller(root) /\ o = w.open[1] /\ o.next \in 1..2
    <3> HIDE DEF Caller
    <3>1. Len(w.open) = 1
      BY <1>1, <1>3
    <3>2. o = w.open[1]
      BY <1>2, <3>1
    <3>3. o.value = Caller(root)
      BY <1>2, <3>2
    <3>4. o.next \in 1..(Len(Caller(root).items) + 1)
      BY <1>1, <3>3
    <3> QED
      BY <2>1, <3>2, <3>3, <3>4
  <2>3. Len(r.open[1].items) = o.next - 1
    BY <1>1, <1>3
  <2>4. r.open[1].items # <<>> <=> Len(r.open[1].items) # 0
    <3>1. r.open[1].items \in Seq(V)
      <4>1. r.open \in Seq(ReaderFrames(V, root)) /\ 1 \in 1..Len(r.open)
        BY <1>3 DEF Shows
      <4>2. r.open[1] \in ReaderFrames(V, root)
        BY <4>1, ElementOfSeq
      <4> QED
        BY <4>2 DEF ReaderFrames
    <3> QED
      BY <3>1, EmptySeq
  <2> QED
    BY <1>1, <1>3, <2>2, <2>3, <2>4 DEF ReaderIsDone, WriterIsDone
<1>4. CASE Len(r.open) # 1
  BY <1>1, <1>4 DEF ReaderIsDone, WriterIsDone
<1> QED
  BY <1>3, <1>4

\* Once the writer is done, so is the reader.
LEMMA StopShown ==
    ASSUME NEW V, NEW root, Tree(V, root), NEW w, WriterInv(w, V, root),
           NEW last \in Encoders, NEW r, InStep(r, w, last, V, root), WriterIsDone(w)
    PROVE  InStep(ReadNext(r), WriteNext(w), last, V, root)
<1>1. WriteNext(w) = w
  BY WriterSteps DEF WriterStops
<1>2. ReaderIsDone(r)
  BY StopsTogether DEF InStep
<1>3. ReadNext(r) = r
  BY <1>2 DEF ReadNext
<1> QED
  BY <1>1, <1>3

\* What the reader makes of a complete array or object
LEMMA ValueRead ==
    ASSUME NEW V, NEW root, Tree(V, root), NEW v \in V \union {Caller(root)}, v.kind \in Containers,
           NEW o, o.value = v, o.next = Len(v.items) + 1, NEW f, f = FrameRead(o, o.next - 1)
    PROVE  Value(f.kind, f.flag, 0, <<>>, f.names, f.items) = v
<1>1. /\ IsValue(v, V) /\ v.items \in Seq(V) /\ Len(v.items) \in Nat
      /\ v.kind = "object" => v.names \in Seq(Seq(Int)) /\ Len(v.names) = Len(v.items)
  BY OpenValueIs
<1>2. o.next - 1 = Len(v.items)
  BY <1>1
<1> DEFINE l == Len(v.items)  names == IF v.kind = "object" THEN SubSeq(v.names, 1, l) ELSE <<>>
<1>3. /\ f.kind = v.kind /\ f.flag = v.flag /\ f.items = SubSeq(v.items, 1, l)
      /\ f.names = names
  BY <1>2 DEF FrameRead
<1>4. f.items = v.items
  BY <1>1, <1>3, WholeBeginning
<1>5. CASE v.kind = "array"
  <2>1. v = Array(v.flag, v.items)
    BY <1>1, <1>5 DEF IsValue
  <2>2. f.names = <<>>
    BY <1>3, <1>5
  <2> QED
    BY <1>3, <1>4, <1>5, <2>1, <2>2 DEF Array
<1>6. CASE v.kind = "object"
  <2>1. v = Object(v.flag, v.names, v.items)
    BY <1>1, <1>6 DEF IsValue
  <2>2. f.names = SubSeq(v.names, 1, l) /\ Len(v.names) = l /\ v.names \in Seq(Seq(Int))
    BY <1>1, <1>3, <1>6
  <2>3. f.names = v.names
    BY <2>2, WholeBeginning
  <2> QED
    BY <1>3, <1>4, <1>6, <2>1, <2>3 DEF Object
<1> QED
  BY <1>5, <1>6 DEF Containers

\* When the writer returns from a value the reader has read it, and adds it to the
\* value around it.
LEMMA PopShown ==
    ASSUME NEW V, NEW root, Tree(V, root), NEW w, WriterInv(w, V, root), WriterPops(w),
           NEW last \in Encoders, NEW r, InStep(r, w, last, V, root)
    PROVE  InStep(ReadNext(r), WriteNext(w), last, V, root)
<1> DEFINE x == WriteNext(w)  m == Len(w.open)  o == WriterTop(w)  p == w.open[m - 1]
           S == ReaderFrames(V, root)  top == Last(r.open)  d == r.decoder
           v == o.value  q == Front(r.open)
<1>1. x.encoder = w.encoder /\ x.open = Front(w.open)
  <2>1. x = [w EXCEPT !.open = Front(@)]
    BY WriterSteps
  <2> QED
    BY <2>1 DEF WriterInv
<1>2. /\ Len(r.open) \in Nat \ {0} /\ Len(r.open) = m
      /\ v \in V \union {Caller(root)} /\ v.kind \in Containers
      /\ o.next \in 1..(Len(v.items) + 1) /\ Len(v.items) \in Nat
      /\ top = r.open[m] /\ top = FrameRead(o, o.next - 1)
      /\ Len(top.items) = o.next - 1 /\ top.count = Len(v.items)
  BY ReaderTopIs DEF InStep
<1>3. /\ o = w.open[m] /\ Front(w.open) \in Seq(OpenValues(V, root)) /\ Len(Front(w.open)) = m - 1
      /\ \A j \in 1..(m - 1) : Front(w.open)[j] = w.open[j]
      /\ m - 1 \in Nat \ {0}
  BY TopIs, PopLeavesOne
<1>4. o.next = Len(v.items) + 1 /\ Len(top.items) = top.count
  <2> DEFINE l == Len(v.items)
  <2>1. l \in Nat /\ o.next \in 1..(l + 1) /\ o.next > l
    BY <1>2 DEF WriterPops
  <2> HIDE DEF l, o, v
  <2>2. o.next = l + 1
    BY <2>1
  <2> QED
    BY <1>2, <2>1, <2>2 DEF l
<1>5. d \in Decoders /\ d.alternate_active = FALSE /\ d.failed = FALSE /\ Follows(d, w.encoder, last)
  BY DEF InStep, Follows, Mirrors
<1>6. ~ReaderIsDone(r)
  BY StopsTogether DEF InStep, WriterPops, WriterStops
<1> HIDE DEF x, m, o, top, d, v, q, S
<1>7. ReadNext(r) = EndChildren(r.open, d, top)
  BY <1>4, <1>5, <1>6 DEF ReadNext, top, d
<1>8. Value(top.kind, top.flag, 0, <<>>, top.names, top.items) = v
  <2>1. o.value = v
    BY DEF v
  <2> QED
    BY <1>2, <1>4, <2>1, ValueRead
<1>9. top.alternate = FALSE
  BY <1>2 DEF FrameRead
<1>10. [d EXCEPT !.alternate_active = top.alternate] = d
  BY <1>5, <1>9 DEF Decoders
<1>11. EndChildren(r.open, d, top) = [decoder |-> d, open |-> AddItem(q, v)]
  BY <1>8, <1>10 DEF EndChildren, q
<1>12. r.open \in Seq(S) /\ \A j \in 1..m : r.open[j] = FrameRead(w.open[j], Complete(w.open, j))
  BY DEF InStep, Shows, m, S
<1>13. q \in Seq(S) /\ Len(q) = m - 1 /\ \A j \in 1..(m - 1) : q[j] = r.open[j]
  <2>1. r.open # <<>>
    BY <1>2, EmptySeq
  <2> QED
    BY <1>2, <1>12, <2>1, FrontIs DEF q
<1> DEFINE k == m - 1
<1>14. k \in Nat \ {0} /\ k \in 1..m /\ k # m /\ k + 1 = m /\ k \in 1..(m - 1)
  BY <1>2, <1>3
<1> HIDE DEF k
<1>15. /\ p.value \in V \union {Caller(root)} /\ p.value.kind \in Containers
       /\ p.next \in 1..(Len(p.value.items) + 1) /\ Len(p.value.items) \in Nat
       /\ p.next >= 2 /\ v = p.value.items[p.next - 1]
  <2>1. p = w.open[k] /\ k \in 1..Len(w.open) /\ k \in 1..(Len(w.open) - 1)
    BY <1>14 DEF k, m
  <2>2. w.open[k].value \in V \union {Caller(root)} /\ Len(w.open[k].value.items) \in Nat
    BY <2>1, TopIs
  <2>3. /\ w.open[k].value.kind \in Containers
        /\ w.open[k].next \in 1..(Len(w.open[k].value.items) + 1)
    BY <2>1 DEF WriterInv
  <2>4. w.open[k].next >= 2 /\ w.open[k + 1].value = w.open[k].value.items[w.open[k].next - 1]
    BY <2>1 DEF WriterInv
  <2> QED
    BY <1>3, <1>14, <2>1, <2>2, <2>3, <2>4 DEF v
<1>16. q[k] = FrameRead(p, p.next - 2)
  <2>1. q[k] = FrameRead(w.open[k], Complete(w.open, k))
    BY <1>12, <1>13, <1>14
  <2>2. Complete(w.open, k) = w.open[k].next - 2
    BY <1>14 DEF Complete, m
  <2> QED
    BY <2>1, <2>2 DEF k
<1> DEFINE n == p.next - 2  t == AddItem(q, v)
<1>17. /\ t \in Seq(S) /\ Len(t) = k /\ t[k] = FrameRead(p, n + 1)
       /\ \A j \in 1..(k - 1) : t[j] = q[j]
  <2>1. n \in Nat /\ n + 1 <= Len(p.value.items) /\ v = p.value.items[n + 1] /\ n + 1 = p.next - 1
    <3> DEFINE l == Len(p.value.items)  nx == p.next
    <3>1. l \in Nat /\ nx \in 1..(l + 1) /\ nx >= 2 /\ v = p.value.items[nx - 1] /\ n = nx - 2
      BY <1>15
    <3> HIDE DEF l, nx, n
    <3>2. n \in Nat /\ n + 1 <= l /\ n + 1 = nx - 1
      BY <3>1
    <3> QED
      BY <3>1, <3>2 DEF l, nx
  <2>2. Len(q) = k /\ Len(q) # 0
    BY <1>13, <1>14 DEF k
  <2>3. q[Len(q)] = FrameRead(p, n)
    BY <1>16, <2>2
  <2> HIDE DEF n, t, p
  <2>4. q \in Seq(ReaderFrames(V, root))
    BY <1>13 DEF S
  <2>5. Replaces(AddItem(q, v), q, FrameRead(p, n + 1), V, root)
    BY <1>15, <2>1, <2>2, <2>3, <2>4, ItemAdded
  <2> QED
    BY <2>2, <2>5 DEF t, S, Replaces
<1>18. n + 1 = p.next - 1
  BY <1>15
<1> HIDE DEF n, t, p
<1>19. Shows(t, x.open, V, root)
  <2>1. Len(x.open) = k /\ \A j \in 1..k : x.open[j] = w.open[j]
    BY <1>1, <1>3 DEF k
  <2>2. ASSUME NEW j \in 1..k PROVE t[j] = FrameRead(x.open[j], Complete(x.open, j))
    <3>1. CASE j = k
      <4>1. x.open[j] = p
        BY <2>1, <3>1 DEF p, k
      <4>2. Complete(x.open, j) = p.next - 1
        BY <2>1, <3>1, <4>1 DEF Complete
      <4> QED
        BY <1>17, <1>18, <3>1, <4>1, <4>2
    <3>2. CASE j # k
      <4>1. j \in 1..(k - 1) /\ j \in 1..m /\ j # m /\ j \in 1..(m - 1)
        BY <1>14, <3>2
      <4>2. t[j] = FrameRead(w.open[j], Complete(w.open, j))
        BY <1>12, <1>13, <1>17, <4>1
      <4>3. x.open[j] = w.open[j] /\ Complete(x.open, j) = Complete(w.open, j)
        BY <2>1, <3>2, <4>1 DEF Complete, m
      <4> QED
        BY <4>2, <4>3
    <3> QED
      BY <3>1, <3>2
  <2> QED
    BY <1>17, <2>1, <2>2 DEF Shows, S
<1>20. ReadNext(r) = [decoder |-> d, open |-> t]
  BY <1>7, <1>11 DEF t
<1> QED
  BY <1>1, <1>5, <1>19, <1>20 DEF InStep, x

\* The reader before the value of the next child: in an object behind its name
Named(r, open, d, w, last, V, root) ==
    LET m == Len(w.open)  o == WriterTop(w)  p == WriteNext(w).open[m]
    IN  /\ ReadNext(r) = ReadValue(open, d)
        /\ Follows(d, NamedEncoder(w), last)
        /\ open \in Seq(ReaderFrames(V, root)) /\ Len(open) = m
        /\ open[m] = FrameRead(p, o.next - 1)
        /\ \A j \in 1..(m - 1) : open[j] = r.open[j]

\* Before the value of a child the reader has read the name that was written.
LEMMA NamedShown ==
    ASSUME NEW V, NEW root, Tree(V, root), NEW w, WriterInv(w, V, root), WriterGoesOn(w),
           NEW last \in Encoders, ~last.failed, WillEnd(WriteNext(w), last),
           NEW r, InStep(r, w, last, V, root)
    PROVE  \E open, d : Named(r, open, d, w, last, V, root)
<1> DEFINE x == WriteNext(w)  m == Len(w.open)  o == WriterTop(w)  p == x.open[m]
           S == ReaderFrames(V, root)  top == Last(r.open)  d == r.decoder  i == o.next
           v == o.value  e == NamedEncoder(w)
<1>1. /\ Len(r.open) \in Nat \ {0} /\ Len(r.open) = m
      /\ v \in V \union {Caller(root)} /\ v.kind \in Containers
      /\ i \in 1..(Len(v.items) + 1) /\ Len(v.items) \in Nat
      /\ top = r.open[m] /\ top = FrameRead(o, i - 1)
      /\ Len(top.items) = i - 1 /\ top.count = Len(v.items)
  BY ReaderTopIs DEF InStep
<1>2. /\ i \in 1..Len(v.items)
      /\ v.kind = "object" => /\ v.names[i] \in Seq(Int) /\ v.names \in Seq(Seq(Int))
                              /\ Len(v.names) = Len(v.items)
  BY ChildIs
<1>3. p.value = v /\ p.next = i + 1
  BY GoesOnOpen
<1>4. /\ e \in Encoders /\ Grows(e, last) /\ r.open \in Seq(S) /\ Follows(d, w.encoder, last)
      /\ w.encoder \in Encoders
  <2>1. x.encoder \in Encoders /\ e \in Encoders /\ Grows(e, x.encoder)
    BY GoesOnEncoder
  <2>2. Grows(x.encoder, last)
    BY DEF WillEnd
  <2> HIDE DEF x, e
  <2>3. Grows(e, last)
    BY <2>1, <2>2, GrowsFurther
  <2> QED
    BY <2>1, <2>3 DEF InStep, Shows, WriterInv
<1>5. ReadNext(r) = ReadChild(r.open, d)
  <2>1. ~d.failed
    BY <1>4 DEF Follows, Mirrors
  <2>2. ~ReaderIsDone(r)
    BY StopsTogether DEF InStep, WriterGoesOn, WriterStops
  <2>3. Len(top.items) # top.count
    BY <1>1, <1>2
  <2> QED
    BY <2>1, <2>2, <2>3 DEF ReadNext
<1> HIDE DEF x, m, o, p, S, top, d, i, v, e
<1>6. top.kind = v.kind
  BY <1>1 DEF FrameRead, v
<1>7. CASE v.kind # "object"
  <2>1. ReadChild(r.open, d) = ReadValue(r.open, d)
    BY <1>6, <1>7 DEF ReadChild, top
  <2>2. e = w.encoder
    BY <1>7 DEF NamedEncoder, e, v, o
  <2>3. FrameRead(p, i - 1) = FrameRead(o, i - 1)
    BY <1>3, <1>7 DEF FrameRead, v
  <2>4. Named(r, r.open, d, w, last, V, root)
    BY <1>1, <1>4, <1>5, <2>1, <2>2, <2>3 DEF Named, m, o, p, x, i, e, S
  <2> QED
    BY <2>4
<1>8. CASE v.kind = "object"
  <2> DEFINE h == ReadName(d, Len(top.items) + 1)  text == v.names[i]
             open == [r.open EXCEPT ![Len(r.open)].names = Append(@, text)]
             names == SubSeq(v.names, 1, i - 1)
  <2>1. e = WriteName(w.encoder, v, i)
    BY <1>8 DEF NamedEncoder, e, v, o, i
  <2>2. /\ Follows(h, e, last) /\ h.text = text
        /\ \A j \in 1..(i - 1) : v.names[j] # v.names[i]
    <3>1. v.names[i] \in Seq(Int) /\ Grows(WriteName(w.encoder, v, i), last)
      BY <1>2, <1>4, <1>8, <2>1
    <3> HIDE DEF text
    <3>2. /\ Follows(h, WriteName(w.encoder, v, i), last) /\ h.text = v.names[i]
          /\ \A j \in 1..(i - 1) : v.names[j] # v.names[i]
      BY <1>4, <3>1, NameIsRead, SMTT(60)
    <3> QED
      BY <2>1, <3>2 DEF text
  <2>3. top.names = names
    BY <1>1, <1>8 DEF FrameRead, v, i
  <2>4. ~Contains(names, text)
    <3>1. i - 1 \in 0..Len(v.names) /\ v.names \in Seq(Seq(Int))
      BY <1>2, <1>8
    <3>2. Len(names) = i - 1 /\ \A j \in 1..(i - 1) : names[j] = v.names[j]
      BY <3>1, Beginning
    <3> HIDE DEF names
    <3> QED
      BY <2>2, <3>2 DEF Contains
  <2> HIDE DEF h, text, open, names
  <2>5. ReadChild(r.open, d) = AddName(r.open, h)
    BY <1>6, <1>8 DEF ReadChild, top, h
  <2>6. AddName(r.open, h) = ReadValue(open, h)
    <3>1. Need(h, ~Contains(Last(r.open).names, h.text)) = h
      BY <2>2, <2>3, <2>4 DEF Need, top
    <3> QED
      BY <2>2, <3>1 DEF AddName, open
  <2>7. /\ open \in Seq(S) /\ Len(open) = m /\ open[m] = FrameRead(p, i - 1)
        /\ \A j \in 1..(m - 1) : open[j] = r.open[j]
    <3>1. i - 1 \in 0..Len(v.items) /\ i \in 1..Len(v.items)
      BY <1>1, <1>2
    <3>2. o.value = v /\ o.next = i
      BY DEF v, i
    <3>3. r.open[Len(r.open)] = FrameRead(o, i - 1) /\ Len(r.open) # 0
      BY <1>1
    <3>4. r.open \in Seq(ReaderFrames(V, root))
      BY <1>4 DEF S
    <3> DEFINE t == [r.open EXCEPT ![Len(r.open)].names = Append(@, text)]
    <3>5. text = o.value.names[o.next]
      BY <3>2 DEF text
    <3>6. /\ t \in Seq(ReaderFrames(V, root)) /\ Len(t) = Len(r.open)
          /\ t[Len(r.open)] = FrameRead(p, i - 1)
          /\ \A j \in 1..(Len(r.open) - 1) : t[j] = r.open[j]
      <4> DEFINE k == i - 1  ro == r.open
      <4>1. /\ o.value \in V \union {Caller(root)} /\ o.value.kind = "object"
            /\ o.next \in 1..Len(o.value.items) /\ k \in 0..Len(o.value.items)
            /\ p.value = o.value /\ p.next = o.next + 1
        BY <1>1, <1>3, <1>8, <3>1, <3>2
      <4>2. ro \in Seq(ReaderFrames(V, root)) /\ Len(ro) # 0 /\ ro[Len(ro)] = FrameRead(o, k)
        BY <3>3, <3>4
      <4> HIDE DEF k, ro, t
      <4>3. Replaces(WithName(ro, text), ro, FrameRead(p, k), V, root)
        BY <3>5, <4>1, <4>2, NameAdded
      <4> QED
        BY <4>3 DEF k, ro, t, Replaces, WithName
    <3> QED
      BY <1>1, <3>6 DEF open, S
  <2>8. Named(r, open, h, w, last, V, root)
    BY <1>5, <2>2, <2>5, <2>6, <2>7 DEF Named, m, o, p, x, i, e, S
  <2> QED
    BY <2>8
<1> QED
  BY <1>7, <1>8

\* What reading the value of a child is
LEMMA ChildRead ==
    ASSUME NEW V, NEW root, NEW w, NEW last, NEW r, NEW open, NEW d,
           Named(r, open, d, w, last, V, root), Len(w.open) \in Nat \ {0}
    PROVE  ReadNext(r) = ReadTypedValue(open, CountValue(ReadValueType(d), Len(w.open) - 1))
<1>1. /\ ReadNext(r) = ReadValue(open, d) /\ open \in Seq(ReaderFrames(V, root))
      /\ Len(open) = Len(w.open)
  BY DEF Named
<1>2. Last(open) \in ReaderFrames(V, root)
  BY <1>1, ElementOfSeq DEF Last
<1>3. Last(open).type = NoType
  BY <1>2 DEF ReaderFrames
<1> QED
  BY <1>1, <1>3 DEF ReadValue, ReadType

\* When the writer writes a child the reader reads it, or enters it.
LEMMA GoOnShown ==
    ASSUME NEW V, NEW root, Tree(V, root), NEW w, WriterInv(w, V, root), WriterGoesOn(w),
           NEW last \in Encoders, ~last.failed, WillEnd(WriteNext(w), last),
           NEW r, InStep(r, w, last, V, root)
    PROVE  InStep(ReadNext(r), WriteNext(w), last, V, root)
<1> DEFINE x == WriteNext(w)  m == Len(w.open)  o == WriterTop(w)  p == x.open[m]
           S == ReaderFrames(V, root)  i == o.next  e == NamedEncoder(w)  v == NextChild(w)
           f == x.encoder
<1>1. PICK open, d : Named(r, open, d, w, last, V, root)
  BY NamedShown
<1>2. /\ Len(r.open) = m /\ o.value \in V \union {Caller(root)} /\ o.value.kind \in Containers
      /\ i \in 1..(Len(o.value.items) + 1) /\ Len(o.value.items) \in Nat
  BY ReaderTopIs DEF InStep
<1>3. i \in 1..Len(o.value.items) /\ v \in V /\ IsValue(v, V) /\ v = o.value.items[i]
  BY ChildIs DEF NextChild
<1>4. /\ m \in Nat \ {0} /\ p.value = o.value /\ p.next = i + 1
      /\ IF v.kind \in Containers THEN Len(x.open) = m + 1 /\ x.open[m + 1] = Opened(v)
         ELSE Len(x.open) = m
      /\ \A j \in 1..(m - 1) : x.open[j] = w.open[j]
  BY GoesOnOpen
<1>5. /\ f = WriteValue(e, v, m - 1) /\ e \in Encoders
  BY GoesOnEncoder
<1>6. Grows(f, last) /\ \A j \in 1..Len(x.open) :
                           Len(x.open[j].value.items) - x.open[j].next + 1 <= f.remaining
  BY DEF WillEnd, Fitting
<1>7. r.open \in Seq(S) /\ \A j \in 1..m : r.open[j] = FrameRead(w.open[j], Complete(w.open, j))
  BY DEF InStep, Shows
<1> DEFINE z == ReadTypedValue(open, CountValue(ReadValueType(d), m - 1))
<1>8. ReadNext(r) = z
  BY <1>1, <1>4, ChildRead
<1>9. /\ Follows(d, e, last) /\ open \in Seq(S) /\ Len(open) = m /\ open[m] = FrameRead(p, i - 1)
      /\ \A j \in 1..(m - 1) : open[j] = r.open[j]
  BY <1>1 DEF Named
<1> HIDE DEF x, m, o, p, S, i, e, v, f
<1>10. ASSUME NEW j \in 1..(m - 1)
       PROVE  open[j] = FrameRead(x.open[j], Complete(w.open, j)) /\ j \in 1..m /\ j # m
              /\ Complete(w.open, j) = w.open[j].next - 2
  <2>1. j \in 1..m /\ j # m
    BY <1>4
  <2> QED
    BY <1>4, <1>7, <1>9, <2>1 DEF Complete, m
<1>11. /\ p.value \in V \union {Caller(root)} /\ p.value.kind \in Containers
       /\ p.next \in 1..(Len(p.value.items) + 1) /\ i - 1 \in 0..Len(p.value.items)
       /\ i - 1 \in Nat /\ (i - 1) + 1 = i /\ i <= Len(p.value.items)
  <2> DEFINE l == Len(o.value.items)  pn == p.next
  <2>1. l \in Nat /\ i \in 1..l /\ pn = i + 1
    BY <1>2, <1>3, <1>4
  <2> HIDE DEF l, pn
  <2>2. pn \in 1..(l + 1) /\ i - 1 \in 0..l /\ i - 1 \in Nat /\ (i - 1) + 1 = i /\ i <= l
    BY <2>1
  <2> QED
    BY <1>2, <1>4, <2>2 DEF l, pn
<1>12. CASE v.kind \notin Containers
  <2>1. Reads(open, d, m - 1, v, f, last)
    <3>1. Grows(WriteValue(e, v, m - 1), last)
      BY <1>5, <1>6
    <3>2. Reads(open, d, m - 1, v, WriteValue(e, v, m - 1), last)
      BY <1>3, <1>5, <1>9, <1>12, <3>1, ScalarRead
    <3> QED
      BY <1>5, <3>2
  <2> DEFINE t == AddItem(open, v)
  <2>2. z.open = t /\ Follows(z.decoder, f, last)
    BY <2>1 DEF Reads
  <2>3. /\ t \in Seq(S) /\ Len(t) = m /\ t[m] = FrameRead(p, i)
        /\ \A j \in 1..(m - 1) : t[j] = open[j]
    <3> DEFINE k == i - 1
    <3>1. k \in Nat /\ k + 1 <= Len(p.value.items) /\ v = p.value.items[k + 1] /\ k + 1 = i
      BY <1>3, <1>4, <1>11
    <3>2. open \in Seq(ReaderFrames(V, root)) /\ Len(open) # 0 /\ open[Len(open)] = FrameRead(p, k)
      BY <1>4, <1>9 DEF S
    <3> HIDE DEF k, t
    <3>4. Replaces(AddItem(open, v), open, FrameRead(p, k + 1), V, root)
      BY <1>11, <3>1, <3>2, ItemAdded
    <3>3. /\ t \in Seq(ReaderFrames(V, root)) /\ Len(t) = Len(open)
          /\ t[Len(open)] = FrameRead(p, k + 1)
          /\ \A j \in 1..(Len(open) - 1) : t[j] = open[j]
      BY <3>4 DEF t, Replaces
    <3> QED
      BY <1>9, <3>1, <3>3 DEF S
  <2> HIDE DEF t, z
  <2>4. Len(x.open) = m
    BY <1>4, <1>12
  <2>5. ASSUME NEW j \in 1..m PROVE t[j] = FrameRead(x.open[j], Complete(x.open, j))
    <3>1. CASE j = m
      <4>1. Complete(x.open, j) = p.next - 1 /\ x.open[j] = p
        BY <2>4, <3>1 DEF Complete, p
      <4>2. p.next - 1 = i
        BY <1>3, <1>4
      <4> QED
        BY <2>3, <3>1, <4>1, <4>2
    <3>2. CASE j # m
      <4>1. j \in 1..(m - 1)
        BY <1>4, <3>2
      <4>2. Complete(x.open, j) = Complete(w.open, j)
        BY <1>4, <1>10, <2>4, <3>2, <4>1 DEF Complete
      <4> QED
        BY <1>10, <2>3, <4>1, <4>2
    <3> QED
      BY <3>1, <3>2
  <2>6. Shows(t, x.open, V, root)
    BY <2>3, <2>4, <2>5 DEF Shows, S
  <2> QED
    BY <1>8, <2>2, <2>6 DEF InStep, x, f
<1>13. CASE v.kind \in Containers
  <2> DEFINE n == Opened(v)  b == Begun(v.kind, v.flag, Len(v.items), NoType, FALSE)
             t == Append(open, b)
  <2>1. /\ v \in V \union {Caller(root)} /\ v.items \in Seq(V) /\ Len(v.items) \in Nat
    BY <1>3, <1>13, OpenValueIs
  <2>2. n.value = v /\ n.next = 1
    BY DEF Opened
  <2>3. Len(x.open) = m + 1 /\ x.open[m + 1] = n
    BY <1>4, <1>13
  <2>4. Len(v.items) <= f.remaining
    <3>1. m + 1 \in 1..Len(x.open)
      BY <1>4, <2>3
    <3>2. Len(x.open[m + 1].value.items) - x.open[m + 1].next + 1 <= f.remaining
      BY <1>6, <3>1
    <3>3. Len(v.items) - 1 + 1 <= f.remaining
      BY <2>2, <2>3, <3>2
    <3> QED
      BY <2>1, <3>3
  <2>5. Enters(open, d, m - 1, v, f, last)
    <3>1. Grows(WriteValue(e, v, m - 1), last) /\ Len(v.items) <= WriteValue(e, v, m - 1).remaining
      BY <1>5, <1>6, <2>4
    <3>2. Enters(open, d, m - 1, v, WriteValue(e, v, m - 1), last)
      BY <1>3, <1>5, <1>9, <1>13, <3>1, ContainerRead
    <3> QED
      BY <1>5, <3>2
  <2>6. z.open = t /\ Follows(z.decoder, f, last)
    BY <2>5 DEF Enters
  <2>7. b = FrameRead(n, 0) /\ b \in S
    <3>1. SubSeq(v.items, 1, 0) = <<>>
      BY <2>1, SubSeqEmpty
    <3>2. v.kind = "object" => SubSeq(v.names, 1, 0) = <<>>
      <4>1. v.kind = "object" => v.names \in Seq(Seq(Int))
        BY <2>1, OpenValueIs
      <4> QED
        BY <4>1, SubSeqEmpty
    <3>3. b = FrameRead(n, 0)
      <4>1. n.next - 1 = 0
        BY <2>2
      <4> HIDE DEF n
      <4> QED
        BY <2>2, <3>1, <3>2, <4>1 DEF FrameRead, Begun
    <3>4. n.next \in 1..(Len(n.value.items) + 1) /\ 0 \in 0..Len(n.value.items)
      BY <2>1, <2>2
    <3> HIDE DEF n, b
    <3>5. FrameRead(n, 0) \in ReaderFrames(V, root)
      BY <1>13, <2>1, <2>2, <3>4, FrameIs
    <3> QED
      BY <3>3, <3>5 DEF S
  <2> HIDE DEF z, n, b
  <2>8. /\ t \in Seq(S) /\ Len(t) = m + 1 /\ t[m + 1] = b
        /\ \A j \in 1..m : t[j] = open[j]
    BY <1>9, <2>7, AppendProperties
  <2> HIDE DEF t
  <2>9. ASSUME NEW j \in 1..(m + 1) PROVE t[j] = FrameRead(x.open[j], Complete(x.open, j))
    <3>1. CASE j = m + 1
      <4>1. Complete(x.open, j) = 0
        BY <2>2, <2>3, <3>1 DEF Complete
      <4> QED
        BY <2>3, <2>7, <2>8, <3>1, <4>1
    <3>2. CASE j = m
      <4>1. j \in 1..m /\ j # m + 1
        BY <1>4, <3>2
      <4>2. Complete(x.open, j) = p.next - 2 /\ x.open[j] = p
        BY <2>3, <3>2, <4>1 DEF Complete, p
      <4>3. p.next - 2 = i - 1
        BY <1>3, <1>4
      <4> QED
        BY <1>9, <2>8, <3>2, <4>1, <4>2, <4>3
    <3>3. CASE j # m /\ j # m + 1
      <4>1. j \in 1..(m - 1) /\ j \in 1..m
        BY <1>4, <3>3
      <4>2. Complete(x.open, j) = Complete(w.open, j)
        BY <1>4, <1>10, <2>3, <3>3, <4>1 DEF Complete
      <4> QED
        BY <1>10, <2>8, <4>1, <4>2
    <3> QED
      BY <3>1, <3>2, <3>3
  <2>10. Shows(t, x.open, V, root)
    BY <2>3, <2>8, <2>9 DEF Shows, S
  <2> QED
    BY <1>8, <2>6, <2>10 DEF InStep, x, f
<1> QED
  BY <1>12, <1>13

\* Every step of the reader reads what the same step of the writer wrote.
LEMMA StepShown ==
    ASSUME NEW V, NEW root, Tree(V, root), NEW w, WriterInv(w, V, root),
           NEW last \in Encoders, ~last.failed, WillEnd(WriteNext(w), last),
           NEW r, InStep(r, w, last, V, root)
    PROVE  InStep(ReadNext(r), WriteNext(w), last, V, root)
<1>1. CASE WriterStops(w)
  <2>1. ~w.encoder.failed
    <3>1. Grows(w.encoder, last)
      BY FittingBefore DEF WillEnd
    <3> QED
      BY <3>1 DEF Grows
  <2>2. WriterIsDone(w)
    BY <1>1, <2>1 DEF WriterStops
  <2> QED
    BY <2>2, StopShown
<1>2. CASE WriterPops(w)
  BY <1>2, PopShown
<1>3. CASE WriterGoesOn(w)
  BY <1>3, GoOnShown
<1> QED
  BY <1>1, <1>2, <1>3, WriterSteps

\* An encoder begins with nothing in its streams.
LEMMA EncoderStarts ==
    ASSUME NEW version5 \in BOOLEAN
    PROVE  /\ Encoder(version5) \in Encoders /\ ~Encoder(version5).failed
           /\ Encoder(version5).remaining = MaxCount /\ MaxCount \in Nat
<1>1. MaxCount \in Nat
  BY LimitsAssumption
<1>2. <<>> \in Seq(Int) /\ <<0>> \in Seq(Int) /\ <<>> \in Seq(Seq(Int))
  OBVIOUS
<1> DEFINE i == IF version5 THEN <<>> ELSE <<0>>
<1>3. i \in Seq(Int)
  BY <1>2
<1> HIDE DEF i
<1>4. Encoder(version5) \in Encoders
  BY <1>1, <1>2, <1>3 DEF Encoder, Encoders, i
<1> QED
  BY <1>1, <1>4 DEF Encoder

\* The first open value of both
LEMMA OpenStarts ==
    ASSUME NEW V, NEW root, Tree(V, root)
    PROVE  LET o == Opened(Caller(root))
               b == Begun("array", "None", 1, NoType, FALSE)
           IN  /\ <<o>> \in Seq(OpenValues(V, root)) /\ o.value = Caller(root) /\ o.next = 1
               /\ o.value.kind \in Containers /\ Len(o.value.items) = 1
               /\ <<b>> \in Seq(ReaderFrames(V, root)) /\ b = FrameRead(o, 0)
<1> DEFINE o == Opened(Caller(root))  b == Begun("array", "None", 1, NoType, FALSE)
<1>1. o.value = Caller(root) /\ o.next = 1
  BY DEF Opened
<1>2. /\ Caller(root).kind = "array" /\ Caller(root).flag = "None" /\ Caller(root).items = <<root>>
      /\ "array" \in Containers
  BY DEF Caller, Array, Value, Containers
<1>3. o \in OpenValues(V, root)
  BY DEF Opened, OpenValues
<1>4. Len(<<root>>) = 1 /\ <<root>> \in Seq(V)
  BY DEF Tree
<1>5. SubSeq(<<root>>, 1, 0) = <<>>
  BY <1>4, SubSeqEmpty
<1>6. b = FrameRead(o, 0)
  <2> HIDE DEF Caller
  <2> QED
    BY <1>1, <1>2, <1>4, <1>5 DEF FrameRead, Begun
<1> HIDE DEF o, b, Caller
<1>7. FrameRead(o, 0) \in ReaderFrames(V, root)
  <2>1. Len(o.value.items) = 1
    BY <1>1, <1>2, <1>4
  <2>2. o.next \in 1..(Len(o.value.items) + 1) /\ 0 \in 0..Len(o.value.items)
    BY <1>1, <2>1
  <2> QED
    BY <1>1, <1>2, <2>2, FrameIs
<1>8. <<o>> \in Seq(OpenValues(V, root)) /\ <<b>> \in Seq(ReaderFrames(V, root))
  BY <1>3, <1>6, <1>7
<1> QED
  BY <1>1, <1>2, <1>4, <1>6, <1>8 DEF o, b

\* The invariant holds of a writer that begins.
LEMMA WriterStarts ==
    ASSUME NEW V, NEW root, Tree(V, root), NEW version5 \in BOOLEAN
    PROVE  WriterInv(Writer(version5, root), V, root)
<1> DEFINE w == Writer(version5, root)  o == Opened(Caller(root))
<1>1. w.encoder = Encoder(version5) /\ w.open = <<o>>
  BY DEF Writer, Caller
<1>2. /\ <<o>> \in Seq(OpenValues(V, root)) /\ o.value = Caller(root) /\ o.next = 1
      /\ o.value.kind \in Containers /\ Len(o.value.items) = 1
  BY OpenStarts
<1> HIDE DEF w, o, Caller
<1>3. Len(w.open) = 1 /\ w.open[1] = o /\ w.open # <<>>
  BY <1>1
<1>4. w.encoder \in Encoders /\ w.encoder.remaining >= 0
  BY <1>1, EncoderStarts
<1>5. \A j \in 1..Len(w.open) :
          /\ w.open[j].value.kind \in Containers
          /\ w.open[j].next \in 1..(Len(w.open[j].value.items) + 1)
  BY <1>2, <1>3
<1>6. 1..(Len(w.open) - 1) = {}
  BY <1>3
<1>7. w.open \in Seq(OpenValues(V, root)) /\ w.open[1].value = Caller(root)
  BY <1>1, <1>2, <1>3
<1> QED
  BY <1>3, <1>4, <1>5, <1>6, <1>7 DEF WriterInv, w

\* Writer and reader begin alike.
LEMMA BothStart ==
    ASSUME NEW V, NEW root, Tree(V, root), NEW version5 \in BOOLEAN, NEW last,
           NEW d, Follows(d, Encoder(version5), last)
    PROVE  InStep(Reader(d), Writer(version5, root), last, V, root)
<1> DEFINE w == Writer(version5, root)  o == Opened(Caller(root))  r == Reader(d)
           b == Begun("array", "None", 1, NoType, FALSE)
<1>1. w.encoder = Encoder(version5) /\ w.open = <<o>> /\ r.decoder = d /\ r.open = <<b>>
  BY DEF Writer, Caller, Reader
<1>2. o.next = 1 /\ <<b>> \in Seq(ReaderFrames(V, root)) /\ b = FrameRead(o, 0)
  BY OpenStarts
<1> HIDE DEF w, o, r, b
<1>3. Len(w.open) = 1 /\ w.open[1] = o /\ Len(r.open) = 1 /\ r.open[1] = b
  BY <1>1
<1>4. Complete(w.open, 1) = 0
  BY <1>2, <1>3 DEF Complete
<1>5. \A j \in 1..Len(w.open) : r.open[j] = FrameRead(w.open[j], Complete(w.open, j))
  BY <1>2, <1>3, <1>4
<1>6. Shows(r.open, w.open, V, root)
  BY <1>1, <1>2, <1>3, <1>5 DEF Shows
<1> QED
  BY <1>1, <1>6 DEF InStep, w, r

\* What a reader has left at the end
LEMMA NothingLeft ==
    ASSUME NEW last \in Encoders, NEW d, Mirrors(d, last, last)
    PROVE  StreamsFinished(d)
<1>1. /\ Left(last.integers, last.integers) = <<>> /\ Left(last.doubles, last.doubles) = <<>>
      /\ Left(last.objects, last.objects) = <<>> /\ Left(last.types, last.types) = <<>>
      /\ Left(last.blobs, last.blobs) = <<>> /\ Left(last.lengths, last.lengths) = <<>>
  BY ContinuesItself DEF Encoders
<1>2. Bytes(<<>>) = <<>>
  BY DEF Bytes
<1>3. \A width \in {4, 8} : Numbers(width, <<>>) = <<>>
  <2> SUFFICES ASSUME NEW width \in {4, 8} PROVE Numbers(width, <<>>) = <<>>
    OBVIOUS
  <2>1. <<>> \in Seq(Int) /\ Len(<<>>) = 0
    OBVIOUS
  <2>2. Numbers(width, <<>>) \in Seq(Cells) /\ Len(Numbers(width, <<>>)) = width * 0
    BY <2>1, NumbersAre
  <2>3. Len(Numbers(width, <<>>)) = 0
    BY <2>2
  <2> QED
    BY <2>2, <2>3, EmptySeq
<1>4. /\ d.primary["integers"] = <<>> /\ d.primary["doubles"] = <<>>
      /\ d.primary["bytes"] = <<>> /\ d.primary["shorts"] = <<>>
      /\ d.alternate = EmptyStreams /\ d.objects["integers"] = <<>>
      /\ d.types = <<>> /\ d.blobs = <<>> /\ d.lengths = <<>>
  BY <1>1, <1>2, <1>3 DEF Mirrors
<1>5. DOMAIN Width = {"bytes", "shorts", "integers", "doubles"}
  BY DEF Width
<1>6. \A stream \in DOMAIN Width : d.primary[stream] = <<>> /\ d.alternate[stream] = <<>>
  BY <1>4, <1>5 DEF EmptyStreams
<1>7. /\ d["primary"] = d.primary /\ d["alternate"] = d.alternate
  OBVIOUS
<1> QED
  BY <1>4, <1>6, <1>7 DEF StreamsFinished

\* Reader and writer go through the same values until the writer is at its end
LEMMA SideBySide ==
    ASSUME NEW V, NEW root, Tree(V, root), NEW version5 \in BOOLEAN,
           WriterIsDone(Written(version5, root)), ~Written(version5, root).encoder.failed,
           NEW d, Follows(d, Encoder(version5), Written(version5, root).encoder)
    PROVE  /\ Written(version5, root).encoder \in Encoders
           /\ InStep(ReadAll(d), Written(version5, root), Written(version5, root).encoder, V, root)
<1> DEFINE end == Written(version5, root)  last == end.encoder
<1>0. PICK w : WriterRun(w, version5, root)
  BY WriterRuns
<1>1. /\ w[0] = Writer(version5, root) /\ \A n \in 1..Steps : w[n] = WriteNext(w[n - 1])
      /\ end = w[Steps]
  BY <1>0 DEF WriterRun
<1>30. PICK r : ReaderRun(r, d)
  BY ReaderRuns
<1>2. /\ r[0] = Reader(d) /\ \A n \in 1..Steps : r[n] = ReadNext(r[n - 1])
      /\ ReadAll(d) = r[Steps]
  BY <1>30 DEF ReaderRun
<1>3. Steps \in Nat
  BY LimitsAssumption DEF Steps
<1> DEFINE Valid == {n \in Nat : n <= Steps => WriterInv(w[n], V, root)}
<1>4. 0 \in Valid
  BY <1>1, WriterStarts
<1>5. ASSUME NEW n \in Nat, n \in Valid PROVE n + 1 \in Valid
  <2> SUFFICES ASSUME n + 1 <= Steps PROVE WriterInv(w[n + 1], V, root)
    BY <1>5
  <2>1. WriterInv(w[n], V, root) /\ n + 1 \in 1..Steps /\ (n + 1) - 1 = n
    BY <1>3, <1>5
  <2>2. w[n + 1] = WriteNext(w[n])
    BY <1>1, <2>1
  <2> QED
    BY <2>1, <2>2, WriterInvNext
<1> HIDE DEF Valid
<1>6. Nat \subseteq Valid
  BY <1>4, <1>5, NumberInduction
<1>7. \A n \in 0..Steps : WriterInv(w[n], V, root)
  BY <1>3, <1>6 DEF Valid
<1> HIDE DEF end
<1>8. last \in Encoders /\ ~last.failed /\ end = w[Steps]
  BY <1>1, <1>3, <1>7 DEF WriterInv, end
<1> DEFINE Ready == {n \in Nat : n <= Steps => WillEnd(w[Steps - n], last)}
<1>9. 0 \in Ready
  <2>1. WriterIsDone(end) /\ WriterInv(end, V, root)
    BY <1>3, <1>7, <1>8 DEF end
  <2>2. WillEnd(end, last)
    BY <1>8, <2>1, FittingAtTheEnd
  <2>3. Steps - 0 = Steps
    BY <1>3
  <2> QED
    BY <1>8, <2>2, <2>3
<1>10. ASSUME NEW n \in Nat, n \in Ready PROVE n + 1 \in Ready
  <2> SUFFICES ASSUME n + 1 <= Steps PROVE WillEnd(w[Steps - (n + 1)], last)
    BY <1>10
  <2> DEFINE k == Steps - (n + 1)
  <2>1. k \in 0..Steps /\ k + 1 = Steps - n /\ k + 1 \in 1..Steps /\ (k + 1) - 1 = k
    BY <1>3
  <2>2. WillEnd(w[Steps - n], last)
    BY <1>3, <1>10
  <2> HIDE DEF k, last
  <2>3. WillEnd(WriteNext(w[k]), last)
    BY <1>1, <2>1, <2>2
  <2>4. WriterInv(w[k], V, root)
    BY <1>7, <2>1
  <2>5. WillEnd(w[k], last)
    BY <1>8, <2>3, <2>4, FittingBefore
  <2> QED
    BY <2>5 DEF k
<1> HIDE DEF Ready
<1>11. Nat \subseteq Ready
  BY <1>9, <1>10, NumberInduction
<1>12. ASSUME NEW n \in 0..Steps PROVE WillEnd(w[n], last)
  <2>1. Steps - n \in Nat /\ Steps - n <= Steps /\ Steps - (Steps - n) = n
    BY <1>3
  <2>2. WillEnd(w[Steps - (Steps - n)], last)
    BY <1>11, <2>1 DEF Ready
  <2> QED
    BY <2>1, <2>2
<1> DEFINE Showing == {n \in Nat : n <= Steps => InStep(r[n], w[n], last, V, root)}
<1>13. 0 \in Showing
  BY <1>1, <1>2, BothStart DEF end
<1>14. ASSUME NEW n \in Nat, n \in Showing PROVE n + 1 \in Showing
  <2> SUFFICES ASSUME n + 1 <= Steps PROVE InStep(r[n + 1], w[n + 1], last, V, root)
    BY <1>14
  <2>1. InStep(r[n], w[n], last, V, root) /\ n + 1 \in 1..Steps /\ (n + 1) - 1 = n
        /\ n \in 0..Steps /\ n + 1 \in 0..Steps
    BY <1>3, <1>14
  <2> HIDE DEF last
  <2>2. w[n + 1] = WriteNext(w[n]) /\ r[n + 1] = ReadNext(r[n])
    BY <1>1, <1>2, <2>1
  <2>3. WillEnd(WriteNext(w[n]), last)
    BY <1>12, <2>1, <2>2
  <2>4. WriterInv(w[n], V, root)
    BY <1>7, <2>1
  <2>5. InStep(ReadNext(r[n]), WriteNext(w[n]), last, V, root)
    BY <1>8, <2>1, <2>3, <2>4, StepShown
  <2> QED
    BY <2>2, <2>5
<1> HIDE DEF Showing
<1>15. Nat \subseteq Showing
  BY <1>13, <1>14, NumberInduction
<1>16. InStep(r[Steps], w[Steps], last, V, root)
  BY <1>3, <1>15 DEF Showing
<1> QED
  BY <1>2, <1>8, <1>16 DEF end

\* A reader whose streams are what was written reads the root
LEMMA RootIsRead ==
    ASSUME NEW V, NEW root, Tree(V, root), NEW version5 \in BOOLEAN,
           WriterIsDone(Written(version5, root)), ~Written(version5, root).encoder.failed,
           NEW d, Follows(d, Encoder(version5), Written(version5, root).encoder)
    PROVE  ReadRoot(d) = root /\ ~ReadAll(d).decoder.failed
<1> DEFINE w == Written(version5, root)  last == w.encoder  r == ReadAll(d)
<1>1. last \in Encoders /\ InStep(r, w, last, V, root)
  BY SideBySide
<1>2. WriterIsDone(w)
  OBVIOUS
<1> HIDE DEF w, r
<1>3. Mirrors(r.decoder, last, last) /\ Shows(r.open, w.open, V, root)
  BY <1>1 DEF InStep, Follows
<1>4. StreamsFinished(r.decoder)
  BY <1>1, <1>3, NothingLeft
<1>5. ~r.decoder.failed
  BY <1>3 DEF Mirrors
<1>6. Len(w.open) = 1 /\ w.open[1].next = 2
  BY <1>2 DEF WriterIsDone
<1>7. /\ Len(r.open) = 1 /\ r.open[1] = FrameRead(w.open[1], 1)
  <2>1. Complete(w.open, 1) = 1 /\ 1 \in 1..Len(w.open)
    BY <1>6 DEF Complete
  <2> QED
    BY <1>3, <1>6, <2>1 DEF Shows
<1>8. w.open[1].value = Caller(root)
  <2>0. PICK f : WriterRun(f, version5, root)
    BY WriterRuns
  <2>1. /\ f[0] = Writer(version5, root) /\ \A n \in 1..Steps : f[n] = WriteNext(f[n - 1])
        /\ w = f[Steps]
    BY <2>0 DEF WriterRun, w
  <2> DEFINE Valid == {n \in Nat : n <= Steps => WriterInv(f[n], V, root)}
  <2>2. 0 \in Valid
    BY <2>1, WriterStarts
  <2>3. ASSUME NEW n \in Nat, n \in Valid PROVE n + 1 \in Valid
    <3> SUFFICES ASSUME n + 1 <= Steps PROVE WriterInv(f[n + 1], V, root)
      BY <2>3
    <3>0. Steps \in Nat
      BY LimitsAssumption DEF Steps
    <3>1. WriterInv(f[n], V, root) /\ n + 1 \in 1..Steps /\ (n + 1) - 1 = n
      BY <2>3, <3>0
    <3>2. f[n + 1] = WriteNext(f[n])
      BY <2>1, <3>1
    <3> QED
      BY <3>1, <3>2, WriterInvNext
  <2> HIDE DEF Valid
  <2>4. Nat \subseteq Valid
    BY <2>2, <2>3, NumberInduction
  <2>5. WriterInv(f[Steps], V, root)
    BY <2>4, LimitsAssumption DEF Valid, Steps
  <2> QED
    BY <2>1, <2>5 DEF WriterInv
<1>9. r.open[1].items = <<root>>
  <2>1. Caller(root).items = <<root>>
    BY DEF Caller, Array, Value
  <2> HIDE DEF Caller
  <2>2. r.open[1].items = SubSeq(<<root>>, 1, 1)
    BY <1>7, <1>8, <2>1 DEF FrameRead
  <2>3. <<root>> \in Seq(V) /\ Len(<<root>>) = 1
    BY DEF Tree
  <2> DEFINE s == <<root>>
  <2> HIDE DEF s
  <2>4. s \in Seq(V) /\ Len(s) = 1
    BY <2>3 DEF s
  <2>5. SubSeq(s, 1, 1) = s
    BY <2>4, WholeBeginning
  <2> QED
    BY <2>2, <2>5 DEF s
<1>10. ReaderIsDone(r)
  BY <1>7, <1>9 DEF ReaderIsDone
<1>11. RootOf(r) = root
  BY <1>5, <1>9, <1>10 DEF RootOf
<1> QED
  BY <1>4, <1>5, <1>11 DEF ReadRoot, RootRead, r

\* The decoder that has these streams and what else the encoder e wrote
DecoderOf(version, buffer, objects, e) ==
    [Decoder(version, buffer, Bytes(e.types), e.strings)
        EXCEPT !.objects.integers = objects, !.blobs = Bytes(e.blobs), !.lengths = e.lengths]

\* The integers of version 4 begin with a place for the number of texts
IntegersOf(e) == IF e.version5 THEN e.integers ELSE Tail(e.integers)

\* The streams that the encoder e collected, as a decoder finds them
EncodedStreams(e) ==
    DecoderOf(IF e.version5 THEN 5 ELSE 4,
              [bytes |-> <<>>, shorts |-> <<>>, integers |-> Numbers(4, IntegersOf(e)),
               doubles |-> Numbers(8, e.doubles)],
              Numbers(4, e.objects), e)

\* The decoder d is fresh, and has these streams and what else the encoder e wrote
IsFresh(d, version, integers, doubles, objects, e) ==
    /\ d \in Decoders /\ d.version = version
    /\ d.primary["integers"] = integers /\ d.primary["doubles"] = doubles
    /\ d.primary["bytes"] = <<>> /\ d.primary["shorts"] = <<>>
    /\ d.alternate = EmptyStreams
    /\ d.objects["integers"] = objects /\ d.objects["bytes"] = <<>>
    /\ d.objects["shorts"] = <<>> /\ d.objects["doubles"] = <<>>
    /\ d.types = Bytes(e.types) /\ d.strings = e.strings
    /\ d.blobs = Bytes(e.blobs) /\ d.lengths = e.lengths
    /\ d.alternate_active = FALSE /\ d.failed = FALSE
    /\ d.remaining = MaxCount /\ d.value_bytes = 0

\* Behind nothing the whole stream is left.
LEMMA LeftOfNothing ==
    ASSUME NEW S, NEW s \in Seq(S)
    PROVE  Left(<<>>, s) = s
  BY SubSeqFull DEF Left

\* Behind the first element the rest is left.
LEMMA LeftOfOne ==
    ASSUME NEW S, NEW x \in S, NEW s \in Seq(S), Continues(<<x>>, s)
    PROVE  Left(<<x>>, s) = Tail(s) /\ s # <<>> /\ s[1] = x
<1>1. Len(<<x>>) = 1 /\ <<x>>[1] = x
  OBVIOUS
<1>2. Len(s) \in Nat /\ 1 <= Len(s) /\ s[1] = x
  BY <1>1, LenProperties DEF Continues
<1>3. s # <<>>
  BY <1>2, EmptySeq
<1>4. Tail(s) = SubSeq(s, 2, Len(s))
  BY <1>2, TailIsSubSeq
<1> QED
  BY <1>1, <1>2, <1>3, <1>4 DEF Left

\* What a fresh decoder has in these streams
LEMMA DecoderIs ==
    ASSUME NEW version \in {4, 5}, NEW integers \in Seq(Cells), NEW doubles \in Seq(Cells),
           NEW objects \in Seq(Cells), NEW e \in Encoders,
           NEW buffer, buffer["bytes"] = <<>>, buffer["shorts"] = <<>>,
           buffer["integers"] = integers, buffer["doubles"] = doubles
    PROVE  IsFresh(DecoderOf(version, buffer, objects, e), version, integers, doubles, objects, e)
<1> DEFINE active == FALSE  none == "None"
           primary == [stream \in DOMAIN Width |-> buffer[stream]]
           empty == EmptyStreams
           counts == [EmptyStreams EXCEPT !["integers"] = objects]
           types == Bytes(e.types)  blobs == Bytes(e.blobs)  lengths == e.lengths
           strings == e.strings
           d == [version |-> version, primary |-> primary, alternate |-> empty,
                 objects |-> counts, types |-> types,
                 strings |-> strings, blobs |-> blobs, lengths |-> lengths,
                 alternate_active |-> active,
                 remaining |-> MaxCount, value_bytes |-> 0, got |-> 0, text |-> <<>>, tag |-> 0,
                 flag |-> none, failed |-> active]
<1>1. DOMAIN Width = {"bytes", "shorts", "integers", "doubles"}
  BY DEF Width
<1>2. <<>> \in Seq(Cells) /\ <<>> \in Seq(Int) /\ MaxCount \in Int
  BY LimitsAssumption
<1>3. empty \in StreamsOfBuffer /\ \A s \in DOMAIN Width : empty[s] = <<>>
  BY <1>1, <1>2 DEF EmptyStreams, StreamsOfBuffer
<1>4. /\ primary \in StreamsOfBuffer /\ primary["integers"] = integers
      /\ primary["doubles"] = doubles /\ primary["bytes"] = <<>> /\ primary["shorts"] = <<>>
  BY <1>1, <1>2 DEF StreamsOfBuffer
<1>5. /\ counts \in StreamsOfBuffer /\ counts["integers"] = objects /\ counts["bytes"] = <<>>
      /\ counts["shorts"] = <<>> /\ counts["doubles"] = <<>>
  <2> HIDE DEF empty
  <2>1. empty \in [{"bytes", "shorts", "integers", "doubles"} -> Seq(Cells)]
    BY <1>3 DEF StreamsOfBuffer
  <2>2. counts = [empty EXCEPT !["integers"] = objects]
    BY DEF empty
  <2> HIDE DEF counts
  <2>3. counts \in [{"bytes", "shorts", "integers", "doubles"} -> Seq(Cells)]
    BY <2>1, <2>2
  <2>4. counts["integers"] = objects /\ counts["bytes"] = empty["bytes"]
        /\ counts["shorts"] = empty["shorts"] /\ counts["doubles"] = empty["doubles"]
    BY <2>1, <2>2
  <2> QED
    BY <1>1, <1>3, <2>3, <2>4 DEF StreamsOfBuffer
<1>6. /\ types \in Seq(Cells) /\ blobs \in Seq(Cells) /\ lengths \in Seq(Int)
      /\ strings \in Seq(Seq(Int))
  BY BytesAre DEF Encoders
<1>7. d = DecoderOf(version, buffer, objects, e)
  <2> HIDE DEF types, blobs, lengths
  <2> DEFINE c == [version |-> version, primary |-> primary, alternate |-> empty,
                 objects |-> empty, types |-> types,
                 strings |-> strings, blobs |-> <<>>, lengths |-> <<>>,
                 alternate_active |-> active,
                 remaining |-> MaxCount, value_bytes |-> 0, got |-> 0, text |-> <<>>, tag |-> 0,
                 flag |-> none, failed |-> active]
  <2>1. c = Decoder(version, buffer, types, strings)
    BY DEF Decoder
  <2>2. DecoderOf(version, buffer, objects, e) =
        [[[c EXCEPT !.objects = [c.objects EXCEPT !["integers"] = objects]]
              EXCEPT !.blobs = blobs] EXCEPT !.lengths = lengths]
    BY <2>1 DEF DecoderOf, types, blobs, lengths
  <2> HIDE DEF primary, active, none
  <2>3. [c.objects EXCEPT !["integers"] = objects] = counts
    OBVIOUS
  <2> DEFINE a == [c EXCEPT !.objects = counts]  b == [a EXCEPT !.blobs = blobs]
  <2>4. [b EXCEPT !.lengths = lengths] = DecoderOf(version, buffer, objects, e)
    BY <2>2, <2>3
  <2> HIDE DEF counts, empty, strings
  <2>5. a =
           [version |-> version, primary |-> primary, alternate |-> empty,
             objects |-> counts, types |-> types,
             strings |-> strings, blobs |-> <<>>, lengths |-> <<>>,
             alternate_active |-> active,
             remaining |-> MaxCount, value_bytes |-> 0, got |-> 0, text |-> <<>>, tag |-> 0,
             flag |-> none, failed |-> active]
    BY SMTT(60)
  <2> HIDE DEF a
  <2>6. b =
           [version |-> version, primary |-> primary, alternate |-> empty,
             objects |-> counts, types |-> types,
             strings |-> strings, blobs |-> blobs, lengths |-> <<>>,
             alternate_active |-> active,
             remaining |-> MaxCount, value_bytes |-> 0, got |-> 0, text |-> <<>>, tag |-> 0,
             flag |-> none, failed |-> active]
    BY <2>5
  <2> HIDE DEF b
  <2>7. [b EXCEPT !.lengths = lengths] = d
    BY <2>6
  <2> QED
    BY <2>4, <2>7
<1>8. active \in BOOLEAN /\ active = FALSE /\ none \in DOMAIN FlagCodes5
  BY DEF FlagCodes5
<1> HIDE DEF primary, empty, counts, types, blobs, lengths, strings, active, none
<1>9. d \in Decoders
  BY <1>2, <1>3, <1>4, <1>5, <1>6, <1>8 DEF Decoders
<1>10. /\ d.version = version /\ d.primary = primary /\ d.alternate = empty /\ d.objects = counts
       /\ d.types = types /\ d.strings = strings /\ d.blobs = blobs /\ d.lengths = lengths
       /\ d.alternate_active = active /\ d.failed = active
       /\ d.remaining = MaxCount /\ d.value_bytes = 0
  OBVIOUS
<1> HIDE DEF d
<1>11. d.types = Bytes(e.types) /\ d.strings = e.strings
       /\ d.blobs = Bytes(e.blobs) /\ d.lengths = e.lengths
  BY <1>10 DEF types, blobs, lengths, strings
<1>12. d.alternate = EmptyStreams
  BY <1>10 DEF empty
<1>13. IsFresh(d, version, integers, doubles, objects, e)
  BY <1>4, <1>5, <1>8, <1>9, <1>10, <1>11, <1>12 DEF IsFresh
<1> QED
  BY <1>7, <1>13

\* Such a decoder begins where the encoder did
LEMMA DecoderStarts ==
    ASSUME NEW version5 \in BOOLEAN, NEW last \in Encoders, Grows(Encoder(version5), last),
           NEW buffer, buffer["bytes"] = <<>>, buffer["shorts"] = <<>>,
           buffer["integers"] = Numbers(4, IntegersOf(last)),
           buffer["doubles"] = Numbers(8, last.doubles)
    PROVE  Follows(DecoderOf(IF version5 THEN 5 ELSE 4, buffer, Numbers(4, last.objects), last),
                   Encoder(version5), last)
<1> DEFINE e == Encoder(version5)  v == IF version5 THEN 5 ELSE 4
           integers == Numbers(4, IntegersOf(last))  doubles == Numbers(8, last.doubles)
           objects == Numbers(4, last.objects)
           d == DecoderOf(v, buffer, objects, last)
<1>1. /\ e.version5 = version5 /\ e.objects = <<>> /\ e.strings = <<>> /\ e.doubles = <<>>
      /\ e.types = <<>> /\ e.blobs = <<>> /\ e.lengths = <<>>
      /\ e.value_bytes = 0 /\ e.remaining = MaxCount
      /\ e.integers = IF version5 THEN <<>> ELSE <<0>>
  BY DEF Encoder
<1>2. /\ last.integers \in Seq(Int) /\ last.doubles \in Seq(Int) /\ last.objects \in Seq(Int)
      /\ last.types \in Seq(Int) /\ last.blobs \in Seq(Int) /\ last.lengths \in Seq(Int)
      /\ last.version5 = version5
  BY <1>1 DEF Encoders, Grows
<1>3. Left(e.integers, last.integers) = IntegersOf(last) /\ IntegersOf(last) \in Seq(Int)
  <2>1. CASE version5
    BY <1>1, <1>2, <2>1, LeftOfNothing DEF IntegersOf
  <2>2. CASE ~version5
    <3>1. Continues(<<0>>, last.integers) /\ 0 \in Int
      BY <1>1, <2>2 DEF Grows
    <3>2. Left(<<0>>, last.integers) = Tail(last.integers) /\ last.integers # <<>>
      BY <1>2, <3>1, LeftOfOne, ZenonT(60)
    <3>3. Tail(last.integers) \in Seq(Int)
      BY <1>2, <3>2, HeadTailProperties
    <3> QED
      BY <1>1, <1>2, <2>2, <3>2, <3>3 DEF IntegersOf
  <2> QED
    BY <2>1, <2>2
<1>4. /\ Left(e.doubles, last.doubles) = last.doubles /\ Left(e.objects, last.objects) = last.objects
      /\ Left(e.types, last.types) = last.types /\ Left(e.blobs, last.blobs) = last.blobs
      /\ Left(e.lengths, last.lengths) = last.lengths
  BY <1>1, <1>2, LeftOfNothing
<1>5. integers \in Seq(Cells) /\ doubles \in Seq(Cells) /\ objects \in Seq(Cells)
  BY <1>2, <1>3, NumbersAre
<1>6. v \in {4, 5} /\ v = IF e.version5 THEN 5 ELSE 4
  BY <1>1
<1>7. buffer["integers"] = integers /\ buffer["doubles"] = doubles
  OBVIOUS
<1>8. /\ integers = Numbers(4, Left(e.integers, last.integers))
      /\ doubles = Numbers(8, Left(e.doubles, last.doubles))
      /\ objects = Numbers(4, Left(e.objects, last.objects))
      /\ Bytes(last.types) = Bytes(Left(e.types, last.types))
      /\ Bytes(last.blobs) = Bytes(Left(e.blobs, last.blobs))
      /\ last.lengths = Left(e.lengths, last.lengths)
  BY <1>3, <1>4
<1> HIDE DEF integers, doubles, objects, v
<1>9. IsFresh(d, v, integers, doubles, objects, last)
  BY <1>5, <1>6, <1>7, DecoderIs
<1> HIDE DEF d, e
<1>10. Mirrors(d, e, last)
  BY <1>1, <1>6, <1>8, <1>9 DEF Mirrors, IsFresh
<1>11. d.value_bytes = e.value_bytes
  BY <1>1, <1>9 DEF IsFresh
<1>12. Follows(d, e, last)
  BY <1>10, <1>11 DEF Follows
<1> QED
  BY <1>12 DEF d, e, v, objects

\* Steps of a writer: two of a value that is open no more, one of one that is
Elapsed(w) == 2 * (MaxCount - w.encoder.remaining) - (Len(w.open) - 1)

\* A writer that has not stopped after n steps
InTime(w, n) == Elapsed(w) >= n /\ (n > 0 => w.open[1].next >= 2)

\* How the steps of a writer follow from the values it counted and those it left.
LEMMA ElapsedIs ==
    ASSUME NEW w, NEW x, Len(w.open) \in Nat, Len(x.open) \in Nat,
           w.encoder.remaining \in Int, x.encoder.remaining \in Int
    PROVE  /\ Elapsed(w) \in Int
           /\ w.encoder.remaining = x.encoder.remaining /\ Len(x.open) = Len(w.open) - 1 =>
                 Elapsed(x) = Elapsed(w) + 1
           /\ x.encoder.remaining = w.encoder.remaining - 1 /\ Len(x.open) <= Len(w.open) + 1 =>
                 Elapsed(x) >= Elapsed(w) + 1
<1> DEFINE r == w.encoder.remaining  q == x.encoder.remaining  m == Len(w.open)  n == Len(x.open)
<1>1. MaxCount \in Int
  BY LimitsAssumption
<1>2. Elapsed(w) = 2 * (MaxCount - r) - (m - 1) /\ Elapsed(x) = 2 * (MaxCount - q) - (n - 1)
  BY DEF Elapsed
<1>3. r \in Int /\ q \in Int /\ m \in Nat /\ n \in Nat
  OBVIOUS
<1> HIDE DEF r, q, m, n
<1>4. Elapsed(w) \in Int
  BY <1>1, <1>2, <1>3
<1>5. ASSUME r = q, n = m - 1 PROVE Elapsed(x) = Elapsed(w) + 1
  <2>1. Elapsed(x) = 2 * (MaxCount - r) - (m - 1 - 1)
    BY <1>2, <1>5
  <2> QED
    BY <1>1, <1>2, <1>3, <2>1
<1>6. ASSUME q = r - 1, n <= m + 1 PROVE Elapsed(x) >= Elapsed(w) + 1
  <2>1. Elapsed(x) = 2 * (MaxCount - (r - 1)) - (n - 1)
    BY <1>2, <1>6
  <2> QED
    BY <1>1, <1>2, <1>3, <1>6, <2>1
<1> QED
  BY <1>4, <1>5, <1>6 DEF r, q, m, n

\* The numbers of a writer
LEMMA WriterNumbers ==
    ASSUME NEW V, NEW root, NEW w, WriterInv(w, V, root)
    PROVE  /\ Len(w.open) \in Nat \ {0} /\ w.encoder.remaining \in Int
           /\ Len(w.open) # 1 => w.open[1].next >= 2
<1>1. w.open \in Seq(OpenValues(V, root)) /\ w.open # <<>> /\ w.encoder \in Encoders
      /\ \A j \in 1..(Len(w.open) - 1) : w.open[j].next >= 2
  BY DEF WriterInv
<1>2. Len(w.open) \in Nat /\ Len(w.open) # 0
  BY <1>1, LenProperties, EmptySeq
<1>3. Len(w.open) # 1 => 1 \in 1..(Len(w.open) - 1)
  <2> DEFINE m == Len(w.open)
  <2>1. m \in Nat /\ m # 0
    BY <1>2
  <2> HIDE DEF m
  <2>2. m # 1 => 1 \in 1..(m - 1)
    BY <2>1
  <2> QED
    BY <2>2 DEF m
<1> QED
  BY <1>1, <1>2, <1>3 DEF Encoders

\* To return from a value is one step.
LEMMA PopElapses ==
    ASSUME NEW V, NEW root, Tree(V, root), NEW w, WriterInv(w, V, root), WriterPops(w)
    PROVE  Elapsed(WriteNext(w)) = Elapsed(w) + 1 /\ WriteNext(w).open[1].next >= 2
<1> DEFINE x == WriteNext(w)  m == Len(w.open)
<1>1. x = [w EXCEPT !.open = Front(@)]
  BY WriterSteps
<1>2. Len(Front(w.open)) = m - 1 /\ \A j \in 1..(m - 1) : Front(w.open)[j] = w.open[j]
  BY TopIs
<1>3. m - 1 \in Nat \ {0}
  BY PopLeavesOne
<1>4. w.open[1].next >= 2 /\ 1 \in 1..(m - 1) /\ m \in Nat
  <2>1. m \in Nat /\ m # 1
    BY <1>3, WriterNumbers
  <2>2. w.open[1].next >= 2
    BY <2>1, WriterNumbers
  <2> HIDE DEF m
  <2>3. 1 \in 1..(m - 1)
    BY <1>3, <2>1
  <2> QED
    BY <2>1, <2>2, <2>3
<1>5. x.open = Front(w.open) /\ x.encoder = w.encoder
  <2>1. w.open # <<>>
    BY DEF WriterInv
  <2>2. WriterInv(x, V, root)
    BY WriterInvNext
  <2> QED
    BY <1>1, <2>2 DEF WriterInv
<1> HIDE DEF x
<1>6. w.encoder.remaining \in Int
  BY WriterNumbers
<1>7. x.open[1].next >= 2 /\ Len(x.open) = m - 1
  BY <1>2, <1>4, <1>5
<1>8. Elapsed(x) = Elapsed(w) + 1
  BY <1>3, <1>4, <1>5, <1>6, <1>7, ElapsedIs
<1> QED
  BY <1>7, <1>8 DEF x

\* To write a child is one step.
LEMMA ChildElapses ==
    ASSUME NEW V, NEW root, Tree(V, root), NEW w, WriterInv(w, V, root), WriterGoesOn(w),
           ~WriteNext(w).encoder.failed
    PROVE  Elapsed(WriteNext(w)) >= Elapsed(w) + 1 /\ WriteNext(w).open[1].next >= 2
<1> DEFINE x == WriteNext(w)  m == Len(w.open)  a == Advanced(w)  v == NextChild(w)
           b == Append(a, Opened(v))
<1>1. x.encoder.remaining = w.encoder.remaining - 1
  BY GoesOnEncoder
<1>2. x.open = IF v.kind \in Containers THEN b ELSE a
  <2> DEFINE f == WriteValue(NamedEncoder(w), v, Len(w.open) - 1)
             o == IF v.kind \in Containers THEN b ELSE a
  <2>1. x = [encoder |-> f, open |-> o]
    BY WriterSteps
  <2> HIDE DEF f, o, x
  <2>2. x.open = o
    BY <2>1
  <2> QED
    BY <2>2 DEF o
<1>3. /\ a \in Seq(OpenValues(V, root)) /\ Len(a) = m
      /\ \A j \in 1..(m - 1) : a[j] = w.open[j]
      /\ a[m].next = WriterTop(w).next + 1
  BY AdvancedIs
<1>4. /\ m \in Nat \ {0} /\ WriterTop(w).next \in 1..Len(WriterTop(w).value.items)
  BY TopIs, ChildIs
<1>5. w.encoder.remaining \in Int /\ MaxCount \in Int
  BY LimitsAssumption DEF WriterInv, Encoders
<1>6. v \in V
  BY ChildIs
<1>7. /\ Len(b) = m + 1 /\ \A j \in 1..m : b[j] = a[j]
  <2>1. v.kind \in Containers => Opened(v) \in OpenValues(V, root)
    BY <1>6 DEF Opened, OpenValues
  <2>2. Opened(v) \in OpenValues(V, root)
    BY <1>6 DEF Opened, OpenValues
  <2> HIDE DEF a, v
  <2> QED
    BY <1>3, <2>2, AppendProperties
<1>8. a[1].next >= 2
  <2>1. CASE m = 1
    BY <1>3, <1>4, <2>1
  <2>2. CASE m # 1
    <3>1. 1 \in 1..(m - 1)
      <4> HIDE DEF m
      <4> QED
        BY <1>4, <2>2
    <3>2. w.open[1].next >= 2
      BY <2>2, WriterNumbers
    <3> QED
      BY <1>3, <3>1, <3>2
  <2> QED
    BY <2>1, <2>2
<1>9. 1 \in 1..m
  BY <1>4
<1> HIDE DEF x, m, a, v, b
<1>10. x.open[1].next >= 2 /\ Len(x.open) \in {m, m + 1}
  BY <1>2, <1>3, <1>7, <1>8, <1>9
<1>11. Elapsed(x) >= Elapsed(w) + 1
  <2>1. Len(w.open) \in Nat /\ Len(x.open) \in Nat /\ Len(x.open) <= Len(w.open) + 1
        /\ x.encoder.remaining \in Int
    <3>1. m \in Nat /\ Len(x.open) \in Nat /\ Len(x.open) <= m + 1
      BY <1>4, <1>10
    <3> QED
      BY <1>1, <1>5, <3>1 DEF m
  <2> QED
    BY <1>1, <1>5, <2>1, ElapsedIs
<1> QED
  BY <1>10, <1>11 DEF x

\* A writer stops within its steps: the bound on them cuts nothing off
THEOREM WriterEnds ==
    ASSUME NEW V, NEW root, Tree(V, root), NEW version5 \in BOOLEAN
    PROVE  WriterInv(Written(version5, root), V, root) /\ WriterStops(Written(version5, root))
<1> DEFINE end == Written(version5, root)
<1>0. PICK w : WriterRun(w, version5, root)
  BY WriterRuns
<1>1. /\ w[0] = Writer(version5, root) /\ \A n \in 1..Steps : w[n] = WriteNext(w[n - 1])
      /\ end = w[Steps]
  BY <1>0 DEF WriterRun
<1>2. Steps \in Nat /\ Steps = 2 * MaxCount /\ MaxCount \in Nat \ {0}
  BY LimitsAssumption DEF Steps
<1> DEFINE Valid == {n \in Nat : n <= Steps => /\ WriterInv(w[n], V, root)
                                               /\ WriterStops(w[n]) \/ InTime(w[n], n)}
<1>3. 0 \in Valid
  <2>1. WriterInv(w[0], V, root)
    BY <1>1, WriterStarts
  <2>2. w[0].encoder.remaining = MaxCount
    BY <1>1 DEF Writer, Encoder
  <2>3. Len(w[0].open) = 1
    BY <1>1 DEF Writer
  <2>4. Elapsed(w[0]) = 0
    BY <1>2, <2>2, <2>3 DEF Elapsed
  <2> QED
    BY <2>1, <2>4 DEF InTime
<1>4. ASSUME NEW n \in Nat, n \in Valid PROVE n + 1 \in Valid
  <2> SUFFICES ASSUME n + 1 <= Steps
               PROVE  WriterInv(w[n + 1], V, root) /\ (WriterStops(w[n + 1]) \/ InTime(w[n + 1], n + 1))
    BY <1>4
  <2>1. /\ WriterInv(w[n], V, root) /\ (WriterStops(w[n]) \/ InTime(w[n], n))
        /\ n + 1 \in 1..Steps /\ (n + 1) - 1 = n
    BY <1>2, <1>4
  <2> DEFINE x == w[n]
  <2>2. w[n + 1] = WriteNext(x)
    BY <1>1, <2>1
  <2> HIDE DEF x
  <2>3. WriterInv(x, V, root) /\ (WriterStops(x) \/ InTime(x, n))
    BY <2>1 DEF x
  <2>4. WriterInv(WriteNext(x), V, root)
    BY <2>3, WriterInvNext
  <2>5. WriterStops(WriteNext(x)) \/ InTime(WriteNext(x), n + 1)
    <3>1. CASE WriterStops(x)
      BY <3>1, WriterSteps
    <3>2. CASE WriterPops(x)
      <4>1. Elapsed(WriteNext(x)) = Elapsed(x) + 1 /\ WriteNext(x).open[1].next >= 2
        BY <2>3, <3>2, PopElapses
      <4>2. Elapsed(x) >= n /\ Elapsed(x) \in Int
        <5>1. x.encoder.remaining \in Int /\ Len(x.open) \in Nat
          BY <2>3, WriterNumbers
        <5>2. Elapsed(x) \in Int
          BY <5>1, ElapsedIs
        <5> QED
          BY <2>3, <3>2, <5>2 DEF InTime, WriterPops
      <4> QED
        BY <4>1, <4>2 DEF InTime
    <3>3. CASE WriterGoesOn(x) /\ ~WriteNext(x).encoder.failed
      <4>1. Elapsed(WriteNext(x)) >= Elapsed(x) + 1 /\ WriteNext(x).open[1].next >= 2
        BY <2>3, <3>3, ChildElapses
      <4>2. Elapsed(x) >= n /\ Elapsed(x) \in Int /\ Elapsed(WriteNext(x)) \in Int
        <5>1. /\ x.encoder.remaining \in Int /\ Len(x.open) \in Nat
              /\ WriteNext(x).encoder.remaining \in Int /\ Len(WriteNext(x).open) \in Nat
          BY <2>3, <2>4, WriterNumbers
        <5>2. Elapsed(x) \in Int /\ Elapsed(WriteNext(x)) \in Int
          BY <5>1, ElapsedIs
        <5> QED
          BY <2>3, <3>3, <5>2 DEF InTime, WriterGoesOn
      <4> QED
        BY <4>1, <4>2 DEF InTime
    <3>4. CASE WriteNext(x).encoder.failed
      BY <3>4 DEF WriterStops
    <3> QED
      BY <3>1, <3>2, <3>3, <3>4, WriterSteps
  <2> QED
    BY <2>2, <2>4, <2>5
<1> HIDE DEF Valid
<1>5. Nat \subseteq Valid
  BY <1>3, <1>4, NumberInduction
<1>6. WriterInv(end, V, root) /\ (WriterStops(end) \/ InTime(end, Steps))
  BY <1>1, <1>2, <1>5 DEF Valid
<1> HIDE DEF end
<1>7. ASSUME InTime(end, Steps), ~end.encoder.failed PROVE WriterIsDone(end)
  <2>1. /\ Len(end.open) \in Nat \ {0} /\ end.encoder.remaining \in Int
        /\ end.encoder.remaining >= 0
    BY <1>6, <1>7, LenProperties, EmptySeq DEF WriterInv, Encoders
  <2>2. Elapsed(end) >= 2 * MaxCount /\ end.open[1].next >= 2
    BY <1>2, <1>7 DEF InTime
  <2>3. Len(end.open) = 1
    <3> DEFINE m == Len(end.open)  r == end.encoder.remaining
    <3>1. 2 * (MaxCount - r) - (m - 1) >= 2 * MaxCount /\ m \in Nat \ {0} /\ r \in Int /\ r >= 0
      BY <2>1, <2>2 DEF Elapsed
    <3> HIDE DEF m, r
    <3>2. m = 1
      BY <1>2, <3>1
    <3> QED
      BY <3>2 DEF m
  <2>4. end.open[1].next \in 1..(Len(end.open[1].value.items) + 1) /\ end.open[1].value = Caller(root)
    BY <1>6, <2>3 DEF WriterInv
  <2>5. Len(Caller(root).items) = 1
    BY DEF Caller, Array, Value
  <2> QED
    BY <2>2, <2>3, <2>4, <2>5 DEF WriterIsDone
<1> QED
  BY <1>6, <1>7 DEF WriterStops, end

\* What a writer has written continues what an encoder starts with
LEMMA WriterGrows ==
    ASSUME NEW V, NEW root, Tree(V, root), NEW version5 \in BOOLEAN
    PROVE  Grows(Encoder(version5), Written(version5, root).encoder)
<1>0. PICK w : WriterRun(w, version5, root)
  BY WriterRuns
<1>1. /\ w[0] = Writer(version5, root) /\ \A n \in 1..Steps : w[n] = WriteNext(w[n - 1])
      /\ Written(version5, root) = w[Steps]
  BY <1>0 DEF WriterRun
<1>2. Steps \in Nat
  BY LimitsAssumption DEF Steps
<1> DEFINE first == Encoder(version5)
           Valid == {n \in Nat : n <= Steps => /\ WriterInv(w[n], V, root)
                                               /\ Grows(first, w[n].encoder)}
<1>3. 0 \in Valid
  <2>1. WriterInv(w[0], V, root)
    BY <1>1, WriterStarts
  <2>2. w[0].encoder = first /\ first \in Encoders
    BY <1>1, EncoderStarts DEF Writer
  <2> HIDE DEF first
  <2>3. Grows(first, w[0].encoder)
    BY <2>2, GrowsItself
  <2> QED
    BY <2>1, <2>3
<1>4. ASSUME NEW n \in Nat, n \in Valid PROVE n + 1 \in Valid
  <2> SUFFICES ASSUME n + 1 <= Steps
               PROVE  WriterInv(w[n + 1], V, root) /\ Grows(first, w[n + 1].encoder)
    BY <1>4
  <2>1. /\ WriterInv(w[n], V, root) /\ Grows(first, w[n].encoder)
        /\ n + 1 \in 1..Steps /\ (n + 1) - 1 = n
    BY <1>2, <1>4
  <2>2. w[n + 1] = WriteNext(w[n])
    BY <1>1, <2>1
  <2>3. WriterInv(w[n + 1], V, root) /\ Grows(w[n].encoder, w[n + 1].encoder)
    BY <2>1, <2>2, WriterInvNext
  <2>4. first \in Encoders
    BY EncoderStarts, SMTT(60)
  <2>5. w[n].encoder \in Encoders /\ w[n + 1].encoder \in Encoders
    BY <2>1, <2>3 DEF WriterInv
  <2> HIDE DEF first
  <2>6. Grows(first, w[n + 1].encoder)
    BY <2>1, <2>3, <2>4, <2>5, GrowsFurther
  <2> QED
    BY <2>3, <2>6
<1> HIDE DEF Valid
<1>5. Nat \subseteq Valid
  BY <1>3, <1>4, NumberInduction
<1> QED
  BY <1>1, <1>2, <1>5 DEF Valid

\* A decoder that finds the streams which an encoder collected for a value reads
\* that value: what write_value makes of a tree, read_value takes back, whatever
\* its depth and size, and without an error.
THEOREM EncodedValuesAreRead ==
    ASSUME NEW V, NEW root, Tree(V, root), NEW version5 \in BOOLEAN,
           ~Written(version5, root).encoder.failed
    PROVE  ReadRoot(EncodedStreams(Written(version5, root).encoder)) = root
<1> DEFINE w == Written(version5, root)  last == w.encoder
           buffer == [bytes |-> <<>>, shorts |-> <<>>, integers |-> Numbers(4, IntegersOf(last)),
                      doubles |-> Numbers(8, last.doubles)]
           d == DecoderOf(IF version5 THEN 5 ELSE 4, buffer, Numbers(4, last.objects), last)
<1>1. WriterIsDone(w) /\ last \in Encoders
  BY WriterEnds DEF WriterStops, WriterInv
<1>2. Grows(Encoder(version5), last)
  BY WriterGrows
<1>3. last.version5 = version5
  BY <1>2 DEF Grows, Encoder
<1>4. EncodedStreams(last) = d
  BY <1>3 DEF EncodedStreams
<1>5. Follows(d, Encoder(version5), last)
  <2>1. /\ buffer["bytes"] = <<>> /\ buffer["shorts"] = <<>>
        /\ buffer["integers"] = Numbers(4, IntegersOf(last))
        /\ buffer["doubles"] = Numbers(8, last.doubles)
    OBVIOUS
  <2> HIDE DEF buffer, w
  <2> QED
    BY <1>1, <1>2, <2>1, DecoderStarts
<1> HIDE DEF d
<1>6. ReadRoot(d) = root
  BY <1>1, <1>5, RootIsRead
<1> QED
  BY <1>4, <1>6
=============================================================================
