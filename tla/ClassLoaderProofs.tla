-------------------------- MODULE ClassLoaderProofs --------------------------
(***************************************************************************)
(* Proofs about jvm_LoadClass: for every class a compiler can write, with  *)
(* any number of constants, fields, methods and attributes, and wherever   *)
(* the file may have been cut short.                                       *)
(***************************************************************************)
EXTENDS ClassLoader, FiniteSetTheorems, TLAPS

-----------------------------------------------------------------------------
(* Sequences.                                                              *)

LEMMA SeqElements ==
  ASSUME NEW S, NEW s \in Seq(S)
  PROVE  /\ Len(s) \in Nat /\ DOMAIN s = 1..Len(s)
         /\ \A j \in 1..Len(s) : s[j] \in S
  OBVIOUS

LEMMA SeqIs ==
  ASSUME NEW S, NEW s \in Seq(S)
  PROVE  s = [j \in 1..Len(s) |-> s[j]]
  OBVIOUS

LEMMA OneBack ==
  ASSUME NEW n \in Nat, NEW k \in 1..n
  PROVE  k \in 0..n /\ k - 1 \in 0..n /\ k \in Nat /\ k - 1 \in Nat
  OBVIOUS

LEMMA Made ==
  ASSUME NEW S, NEW n \in Nat, NEW s, s = [j \in 1..n |-> s[j]], \A j \in 1..n : s[j] \in S
  PROVE  s \in Seq(S) /\ Len(s) = n /\ DOMAIN s = 1..n
  OBVIOUS

LEMMA SameSeq ==
  ASSUME NEW S, NEW T, NEW s \in Seq(S), NEW t \in Seq(T), Len(s) = Len(t),
         \A j \in 1..Len(s) : s[j] = t[j]
  PROVE  s = t
  OBVIOUS

LEMMA Cat ==
  ASSUME NEW S, NEW s \in Seq(S), NEW t \in Seq(S)
  PROVE  /\ s \o t \in Seq(S) /\ Len(s \o t) = Len(s) + Len(t)
         /\ \A j \in 1..Len(s) : (s \o t)[j] = s[j]
         /\ \A j \in 1..Len(t) : (s \o t)[Len(s) + j] = t[j]
  OBVIOUS

LEMMA CatLength ==
  ASSUME NEW S, NEW s \in Seq(S), NEW t \in Seq(S)
  PROVE  s \o t \in Seq(S) /\ Len(s \o t) = Len(s) + Len(t)
  OBVIOUS

LEMMA AppendIs ==
  ASSUME NEW S, NEW s \in Seq(S), NEW x \in S
  PROVE  /\ Append(s, x) \in Seq(S) /\ Len(Append(s, x)) = Len(s) + 1
         /\ \A j \in 1..Len(s) : Append(s, x)[j] = s[j]
         /\ Append(s, x)[Len(s) + 1] = x
  OBVIOUS

(* The first k of s. *)
Upto(s, k) == [j \in 1..k |-> s[j]]

LEMMA UptoIs ==
  ASSUME NEW S, NEW s \in Seq(S), NEW k \in 0..Len(s)
  PROVE  /\ Upto(s, k) \in Seq(S) /\ Len(Upto(s, k)) = k
         /\ \A j \in 1..k : Upto(s, k)[j] = s[j]
<1>. DEFINE t == Upto(s, k)
<1>1. t = [j \in 1..k |-> t[j]] /\ \A j \in 1..k : t[j] = s[j] /\ t[j] \in S
  BY SeqElements DEF Upto
<1>2. QED
  BY <1>1, Made

LEMMA UptoAll ==
  ASSUME NEW S, NEW s \in Seq(S)
  PROVE  Upto(s, Len(s)) = s /\ Upto(s, 0) = <<>>
  BY DEF Upto

LEMMA UptoNext ==
  ASSUME NEW S, NEW s \in Seq(S), NEW k \in 1..Len(s)
  PROVE  Upto(s, k) = Append(Upto(s, k - 1), s[k])
<1>1. k - 1 \in 0..Len(s) /\ k \in 0..Len(s) /\ Len(s) \in Nat
  OBVIOUS
<1>2. s[k] \in S
  BY SeqElements
<1>. DEFINE t == Append(Upto(s, k - 1), s[k])
<1>3. /\ Upto(s, k - 1) \in Seq(S) /\ Len(Upto(s, k - 1)) = k - 1
      /\ \A j \in 1..(k - 1) : Upto(s, k - 1)[j] = s[j]
  BY <1>1, UptoIs
<1>4. /\ t \in Seq(S) /\ Len(t) = (k - 1) + 1
      /\ \A j \in 1..(k - 1) : t[j] = Upto(s, k - 1)[j]
      /\ t[(k - 1) + 1] = s[k]
  BY <1>2, <1>3, AppendIs
<1>5. /\ Upto(s, k) \in Seq(S) /\ Len(Upto(s, k)) = k
      /\ \A j \in 1..k : Upto(s, k)[j] = s[j]
  BY <1>1, UptoIs
<1>. HIDE DEF t
<1>6. \A j \in 1..k : Upto(s, k)[j] = t[j]
  BY <1>1, <1>3, <1>4, <1>5
<1>7. Upto(s, k) = t
  BY <1>1, <1>4, <1>5, <1>6, SameSeq
<1>8. QED
  BY <1>7 DEF t

-----------------------------------------------------------------------------
(* A set of numbers has a least one: the least counterexample is one that  *)
(* its predecessor is not.                                                 *)

LEMMA Least ==
  ASSUME NEW T \in SUBSET Nat, T # {}
  PROVE  \E n \in T : \A k \in T : n <= k
<1>. DEFINE Below == {0..n : n \in T}
<1>1. Below \subseteq FiniteSubsetsOf(Nat)
  <2>1. ASSUME NEW n \in T PROVE 0..n \in FiniteSubsetsOf(Nat)
    <3>1. IsFiniteSet(0..n)
      BY FS_Interval
    <3>2. 0..n \in SUBSET Nat
      OBVIOUS
    <3>3. QED
      BY <3>1, <3>2 DEF FiniteSubsetsOf
  <2>2. QED
    BY <2>1
<1>2. IsWellFoundedOn(StrictSubsetOrdering(Nat), FiniteSubsetsOf(Nat))
  BY FS_StrictSubsetOrderingWellFounded
<1>3. Below # {}
  OBVIOUS
<1>4. PICK B \in Below : \A C \in Below : ~ (<<C, B>> \in StrictSubsetOrdering(Nat))
  <2>. HIDE DEF Below
  <2>1. QED
    BY <1>1, <1>2, <1>3, WFMin, Zenon
<1>5. PICK n \in T : B = 0..n
  BY <1>4
<1>6. ASSUME NEW k \in T, k < n PROVE FALSE
  <2>1. 0..k \in Below
    OBVIOUS
  <2>2. n \notin 0..k /\ n \in 0..n
    BY <1>6
  <2>3. 0..k \subseteq Nat /\ 0..n \subseteq Nat /\ 0..k \subseteq 0..n /\ 0..k # 0..n
    BY <1>6, <2>2
  <2>4. <<0..k, 0..n>> \in StrictSubsetOrdering(Nat)
    BY <2>3 DEF StrictSubsetOrdering
  <2>5. QED
    BY <1>4, <1>5, <2>1, <2>4
<1>7. QED
  BY <1>6

-----------------------------------------------------------------------------
(* FlattenSeq: the recursive function in it exists, and flattening one     *)
(* sequence more appends it.                                               *)

FlatTo(f, ss, k) == f = [j \in 1..k |-> IF j = 1 THEN ss[j] ELSE f[j - 1] \o ss[j]]

LEMMA FlatExists ==
  ASSUME NEW ss, NEW n \in Nat
  PROVE  \E f : FlatTo(f, ss, n)
<1>. DEFINE Bad == {k \in Nat : ~ \E f : FlatTo(f, ss, k)}
<1>1. SUFFICES ASSUME Bad # {} PROVE FALSE
  OBVIOUS
<1>2. PICK k \in Bad : \A l \in Bad : k <= l
  BY <1>1, Least
<1>3. CASE k = 0
  <2>. DEFINE f == [j \in 1..0 |-> <<>>]
  <2>1. FlatTo(f, ss, 0)
    BY DEF FlatTo
  <2>2. QED
    BY <1>2, <1>3, <2>1
<1>4. CASE k # 0
  <2>1. k - 1 \in Nat /\ k - 1 \notin Bad
    BY <1>2, <1>4
  <2>2. PICK f : FlatTo(f, ss, k - 1)
    BY <2>1
  <2>. DEFINE F(j) == IF j = 1 THEN ss[j] ELSE f[j - 1] \o ss[j]
              g == [j \in 1..k |-> F(j)]
  <2>3. \A j \in 1..(k - 1) : g[j] = f[j]
    <3>1. \A j \in 1..(k - 1) : f[j] = F(j)
      BY <2>2 DEF FlatTo
    <3>2. \A j \in 1..(k - 1) : j \in 1..k
      BY <2>1
    <3>3. QED
      BY <3>1, <3>2
  <2>4. \A j \in 1..k : g[j] = IF j = 1 THEN ss[j] ELSE g[j - 1] \o ss[j]
    <3>1. TAKE j \in 1..k
    <3>2. CASE j = 1
      BY <3>2
    <3>3. CASE j # 1
      <4>1. j - 1 \in 1..(k - 1)
        BY <3>3
      <4>2. g[j - 1] = f[j - 1]
        BY <2>3, <4>1
      <4>3. g[j] = f[j - 1] \o ss[j]
        BY <3>3
      <4>4. QED
        BY <3>3, <4>2, <4>3
    <3>4. QED
      BY <3>2, <3>3
  <2>5. g = [j \in 1..k |-> g[j]]
    OBVIOUS
  <2>. HIDE DEF g
  <2>6. FlatTo(g, ss, k)
    BY <2>4, <2>5, Zenon DEF FlatTo
  <2>7. QED
    BY <1>2, <2>6
<1>5. QED
  BY <1>3, <1>4

LEMMA FlatUnique ==
  ASSUME NEW ss, NEW tt, NEW n \in Nat, NEW k \in Nat, k <= n,
         NEW f, FlatTo(f, ss, n), NEW g, FlatTo(g, tt, k), \A j \in 1..k : tt[j] = ss[j]
  PROVE  \A j \in 1..k : g[j] = f[j]
<1>. DEFINE Bad == {j \in Nat : j \in 1..k /\ g[j] # f[j]}
<1>1. SUFFICES ASSUME Bad # {} PROVE FALSE
  <2>1. \A j \in 1..k : j \in Nat
    OBVIOUS
  <2>2. QED
    BY <2>1
<1>2. PICK j \in Bad : \A l \in Bad : j <= l
  BY <1>1, Least
<1>3. /\ g[j] = IF j = 1 THEN tt[j] ELSE g[j - 1] \o tt[j]
      /\ f[j] = IF j = 1 THEN ss[j] ELSE f[j - 1] \o ss[j]
  <2>1. j \in 1..k /\ j \in 1..n
    BY <1>2
  <2>2. QED
    BY <2>1 DEF FlatTo
<1>4. CASE j = 1
  BY <1>2, <1>3, <1>4
<1>5. CASE j # 1
  <2>1. j - 1 \in 1..k /\ j - 1 \notin Bad
    BY <1>2, <1>5
  <2>2. g[j - 1] = f[j - 1]
    BY <2>1
  <2>3. QED
    BY <1>2, <1>3, <1>5, <2>2
<1>6. QED
  BY <1>4, <1>5

LEMMA FlatIs ==
  ASSUME NEW ss, Len(ss) \in Nat \ {0}
  PROVE  \E f : FlatTo(f, ss, Len(ss)) /\ FlattenSeq(ss) = f[Len(ss)]
<1>. DEFINE f == CHOOSE f : FlatTo(f, ss, Len(ss))
<1>1. FlatTo(f, ss, Len(ss))
  BY FlatExists
<1>2. FlattenSeq(ss) = f[Len(ss)]
  BY DEF FlattenSeq, FlatTo
<1>3. QED
  BY <1>1, <1>2

LEMMA FlatEmpty == FlattenSeq(<<>>) = <<>>
  BY DEF FlattenSeq

LEMMA FlatAppend ==
  ASSUME NEW S, NEW ss \in Seq(Seq(S)), NEW x \in Seq(S)
  PROVE  FlattenSeq(Append(ss, x)) = FlattenSeq(ss) \o x
<1>. DEFINE tt == Append(ss, x)
            n == Len(ss)
<1>1. /\ tt \in Seq(Seq(S)) /\ Len(tt) = n + 1 /\ n \in Nat
      /\ \A j \in 1..n : tt[j] = ss[j]
      /\ tt[n + 1] = x
  BY AppendIs
<1>. HIDE DEF tt
<1>2. PICK g : FlatTo(g, tt, n + 1) /\ FlattenSeq(tt) = g[n + 1]
  BY <1>1, FlatIs
<1>3. n + 1 \in 1..(n + 1) /\ (n + 1) - 1 = n
  BY <1>1
<1>4. g[n + 1] = IF n + 1 = 1 THEN tt[n + 1] ELSE g[(n + 1) - 1] \o tt[n + 1]
  BY <1>2, <1>3 DEF FlatTo
<1>5. CASE n = 0
  <2>1. ss = <<>>
    BY <1>5
  <2>2. FlattenSeq(tt) = x
    BY <1>1, <1>2, <1>4, <1>5
  <2>3. <<>> \o x = x
    OBVIOUS
  <2>4. QED
    BY <2>1, <2>2, <2>3, FlatEmpty DEF tt
<1>6. CASE n # 0
  <2>1. PICK f : FlatTo(f, ss, n) /\ FlattenSeq(ss) = f[n]
    BY <1>1, <1>6, FlatIs
  <2>2. \A j \in 1..n : ss[j] = tt[j]
    BY <1>1
  <2>3. \A j \in 1..n : f[j] = g[j]
    <3>1. n + 1 \in Nat /\ n \in Nat /\ n <= n + 1
      BY <1>1
    <3>. HIDE DEF n
    <3>2. QED
      BY <1>2, <2>1, <2>2, <3>1, FlatUnique
  <2>4. f[n] = g[n]
    BY <1>1, <1>6, <2>3
  <2>5. QED
    BY <1>1, <1>2, <1>3, <1>4, <1>6, <2>1, <2>4 DEF tt
<1>7. QED
  BY <1>5, <1>6

-----------------------------------------------------------------------------
(* Where the parts of a flattened sequence lie.                            *)

(* How many bytes the first k parts are. *)
Reach(ss, k) == Len(FlattenSeq(Upto(ss, k)))

LEMMA FlatSeq ==
  ASSUME NEW S, NEW ss \in Seq(Seq(S))
  PROVE  \A k \in 0..Len(ss) : FlattenSeq(Upto(ss, k)) \in Seq(S)
<1>. DEFINE Bad == {k \in Nat : k \in 0..Len(ss) /\ FlattenSeq(Upto(ss, k)) \notin Seq(S)}
<1>1. SUFFICES ASSUME Bad # {} PROVE FALSE
  <2>1. \A k \in 0..Len(ss) : k \in Nat
    OBVIOUS
  <2>2. QED
    BY <2>1
<1>2. PICK k \in Bad : \A l \in Bad : k <= l
  BY <1>1, Least
<1>3. CASE k = 0
  <2>1. Upto(ss, 0) = <<>>
    BY UptoAll
  <2>2. <<>> \in Seq(S)
    OBVIOUS
  <2>3. QED
    BY <1>2, <1>3, <2>1, <2>2, FlatEmpty
<1>4. CASE k # 0
  <2>1. k \in 1..Len(ss) /\ k - 1 \in 0..Len(ss) /\ k - 1 \in Nat /\ k - 1 \notin Bad
    BY <1>2, <1>4
  <2>2. FlattenSeq(Upto(ss, k - 1)) \in Seq(S)
    BY <2>1
  <2>3. Upto(ss, k) = Append(Upto(ss, k - 1), ss[k])
    BY <2>1, UptoNext
  <2>4. Upto(ss, k - 1) \in Seq(Seq(S)) /\ ss[k] \in Seq(S)
    BY <2>1, UptoIs, SeqElements
  <2>5. FlattenSeq(Upto(ss, k)) = FlattenSeq(Upto(ss, k - 1)) \o ss[k]
    BY <2>3, <2>4, FlatAppend
  <2>6. FlattenSeq(Upto(ss, k)) \in Seq(S)
    BY <2>2, <2>4, <2>5, Cat
  <2>7. QED
    BY <1>2, <2>6
<1>5. QED
  BY <1>3, <1>4

LEMMA Flat ==
  ASSUME NEW S, NEW ss \in Seq(Seq(S))
  PROVE  FlattenSeq(ss) \in Seq(S)
<1>1. Len(ss) \in 0..Len(ss) /\ Upto(ss, Len(ss)) = ss
  BY UptoAll
<1>2. QED
  BY <1>1, FlatSeq

LEMMA FlatNext ==
  ASSUME NEW S, NEW ss \in Seq(Seq(S)), NEW k \in 1..Len(ss)
  PROVE  /\ FlattenSeq(Upto(ss, k)) = FlattenSeq(Upto(ss, k - 1)) \o ss[k]
         /\ Reach(ss, k) = Reach(ss, k - 1) + Len(ss[k])
<1>1. k \in 1..Len(ss) /\ k - 1 \in 0..Len(ss)
  OBVIOUS
<1>2. Upto(ss, k) = Append(Upto(ss, k - 1), ss[k])
  BY UptoNext
<1>3. Upto(ss, k - 1) \in Seq(Seq(S)) /\ ss[k] \in Seq(S)
  BY <1>1, UptoIs, SeqElements
<1>4. FlattenSeq(Upto(ss, k)) = FlattenSeq(Upto(ss, k - 1)) \o ss[k]
  BY <1>2, <1>3, FlatAppend
<1>5. FlattenSeq(Upto(ss, k - 1)) \in Seq(S)
  BY <1>1, FlatSeq
<1>6. QED
  BY <1>3, <1>4, <1>5, Cat DEF Reach

LEMMA ReachIs ==
  ASSUME NEW S, NEW ss \in Seq(Seq(S))
  PROVE  /\ \A k \in 0..Len(ss) : Reach(ss, k) \in Nat
         /\ Reach(ss, 0) = 0
         /\ Reach(ss, Len(ss)) = Len(FlattenSeq(ss))
         /\ \A k \in 1..Len(ss) : Reach(ss, k) = Reach(ss, k - 1) + Len(ss[k])
<1>1. \A k \in 0..Len(ss) : Reach(ss, k) \in Nat
  BY FlatSeq DEF Reach
<1>2. Upto(ss, 0) = <<>> /\ Upto(ss, Len(ss)) = ss
  BY UptoAll
<1>3. Reach(ss, 0) = 0
  BY <1>2, FlatEmpty DEF Reach
<1>4. \A k \in 1..Len(ss) : Reach(ss, k) = Reach(ss, k - 1) + Len(ss[k])
  BY FlatNext
<1>5. QED
  BY <1>1, <1>2, <1>3, <1>4 DEF Reach

(* In w, s begins behind p bytes. *)
At(w, p, s) ==
  /\ p \in Nat
  /\ p + Len(s) <= Len(w)
  /\ \A j \in 1..Len(s) : w[p + j] = s[j]

LEMMA AtCat ==
  ASSUME NEW S, NEW w \in Seq(S), NEW s \in Seq(S), NEW t \in Seq(S), NEW p, At(w, p, s \o t)
  PROVE  At(w, p, s) /\ At(w, p + Len(s), t)
<1>1. /\ s \o t \in Seq(S) /\ Len(s \o t) = Len(s) + Len(t)
      /\ \A j \in 1..Len(s) : (s \o t)[j] = s[j]
      /\ \A j \in 1..Len(t) : (s \o t)[Len(s) + j] = t[j]
  BY Cat
<1>2. Len(s) \in Nat /\ Len(t) \in Nat /\ p \in Nat /\ Len(w) \in Nat
  BY DEF At
<1>. DEFINE u == s \o t
<1>3. /\ p + Len(u) <= Len(w)
      /\ \A j \in 1..Len(u) : w[p + j] = u[j]
  BY DEF At
<1>. HIDE DEF u
<1>4. \A j \in 1..Len(s) : w[p + j] = s[j]
  <2>1. \A j \in 1..Len(s) : j \in 1..Len(u) /\ u[j] = s[j]
    BY <1>1, <1>2 DEF u
  <2>2. QED
    BY <1>3, <2>1
<1>5. \A j \in 1..Len(t) : w[(p + Len(s)) + j] = t[j]
  <2>1. TAKE j \in 1..Len(t)
  <2>2. Len(s) + j \in 1..Len(u) /\ u[Len(s) + j] = t[j]
    BY <1>1, <1>2 DEF u
  <2>3. w[p + (Len(s) + j)] = t[j]
    BY <1>3, <2>2
  <2>4. p + (Len(s) + j) = (p + Len(s)) + j
    BY <1>2
  <2>5. QED
    BY <2>3, <2>4
<1>6. p + Len(s) <= Len(w) /\ (p + Len(s)) + Len(t) <= Len(w) /\ p + Len(s) \in Nat
  BY <1>1, <1>2, <1>3 DEF u
<1>7. QED
  BY <1>2, <1>4, <1>5, <1>6 DEF At

LEMMA AtUpto ==
  ASSUME NEW S, NEW w \in Seq(S), NEW ss \in Seq(Seq(S)), NEW p, At(w, p, FlattenSeq(ss))
  PROVE  \A k \in 0..Len(ss) : At(w, p, FlattenSeq(Upto(ss, k)))
<1>. DEFINE n == Len(ss)
            Bad == {d \in Nat : d \in 0..n /\ ~ At(w, p, FlattenSeq(Upto(ss, n - d)))}
<1>0. n \in Nat
  OBVIOUS
<1>1. SUFFICES ASSUME Bad # {} PROVE FALSE
  <2>1. \A k \in 0..n : n - k \in Nat /\ n - k \in 0..n /\ n - (n - k) = k
    BY <1>0
  <2>2. ASSUME Bad = {}, NEW k \in 0..n PROVE At(w, p, FlattenSeq(Upto(ss, k)))
    <3>1. n - k \notin Bad
      BY <2>2
    <3>2. QED
      BY <2>1, <3>1
  <2>3. QED
    BY <2>2
<1>2. PICK d \in Bad : \A l \in Bad : d <= l
  BY <1>1, Least
<1>3. CASE d = 0
  <2>1. n - d = n /\ Upto(ss, n) = ss
    BY <1>0, <1>3, UptoAll
  <2>2. QED
    BY <1>2, <2>1
<1>4. CASE d # 0
  <2>. DEFINE k == n - d
  <2>1. d - 1 \in Nat /\ d - 1 \in 0..n /\ d - 1 \notin Bad
    <3>1. d \in Nat /\ d \in 0..n
      BY <1>2
    <3>2. d - 1 \in Nat /\ d - 1 \in 0..n /\ ~ (d <= d - 1)
      BY <1>0, <1>4, <3>1
    <3>3. QED
      BY <1>2, <3>2
  <2>2. n - (d - 1) = k + 1 /\ k \in 0..n /\ k + 1 \in 1..n /\ (k + 1) - 1 = k
    BY <1>0, <1>2, <1>4
  <2>3. At(w, p, FlattenSeq(Upto(ss, k + 1))) /\ ~ At(w, p, FlattenSeq(Upto(ss, k)))
    BY <1>2, <2>1, <2>2
  <2>. HIDE DEF k, n
  <2>4. k + 1 \in 1..Len(ss) /\ k \in 0..Len(ss)
    BY <2>2 DEF n
  <2>5. FlattenSeq(Upto(ss, k + 1)) = FlattenSeq(Upto(ss, k)) \o ss[k + 1]
    BY <2>2, <2>4, FlatNext
  <2>6. FlattenSeq(Upto(ss, k)) \in Seq(S) /\ ss[k + 1] \in Seq(S)
    BY <2>4, FlatSeq, SeqElements
  <2>7. QED
    BY <2>3, <2>5, <2>6, AtCat
<1>5. QED
  BY <1>3, <1>4

LEMMA AtParts ==
  ASSUME NEW S, NEW w \in Seq(S), NEW ss \in Seq(Seq(S)), NEW p, At(w, p, FlattenSeq(ss))
  PROVE  \A k \in 1..Len(ss) : At(w, p + Reach(ss, k - 1), ss[k])
<1>1. TAKE k \in 1..Len(ss)
<1>2. k \in 0..Len(ss) /\ k - 1 \in 0..Len(ss)
  OBVIOUS
<1>3. At(w, p, FlattenSeq(Upto(ss, k)))
  BY <1>2, AtUpto
<1>4. FlattenSeq(Upto(ss, k)) = FlattenSeq(Upto(ss, k - 1)) \o ss[k]
  BY FlatNext
<1>5. FlattenSeq(Upto(ss, k - 1)) \in Seq(S) /\ ss[k] \in Seq(S)
  BY <1>2, FlatSeq, SeqElements
<1>6. QED
  BY <1>3, <1>4, <1>5, AtCat DEF Reach

-----------------------------------------------------------------------------
(* The format: what each form is as a sequence of bytes, and where in it   *)
(* the parts lie.                                                          *)

LEMMA Two ==
  ASSUME NEW v \in Nat
  PROVE  /\ U2(v) \in Seq(Nat) /\ Len(U2(v)) = 2
         /\ U2(v)[1] = v \div 256 /\ U2(v)[2] = v % 256
         /\ v \div 256 \in Nat /\ v % 256 \in Nat /\ v = 256 * (v \div 256) + (v % 256)
  BY DEF U2

LEMMA Four ==
  ASSUME NEW v \in Nat
  PROVE  /\ U4(v) \in Seq(Nat) /\ Len(U4(v)) = 4
         /\ v \div 65536 \in Nat /\ v % 65536 \in Nat
         /\ v = 65536 * (v \div 65536) + (v % 65536)
         /\ \A w \in Seq(Nat) : \A p : At(w, p, U4(v)) =>
              At(w, p, U2(v \div 65536)) /\ At(w, p + 2, U2(v % 65536))
<1>1. v \div 65536 \in Nat /\ v % 65536 \in Nat /\ v = 65536 * (v \div 65536) + (v % 65536)
  OBVIOUS
<1>. DEFINE h == v \div 65536
            l == v % 65536
<1>2. U4(v) = U2(h) \o U2(l)
  BY DEF U4
<1>. HIDE DEF h, l
<1>3. U2(h) \in Seq(Nat) /\ U2(l) \in Seq(Nat) /\ Len(U2(h)) = 2 /\ Len(U2(l)) = 2
  BY <1>1, Two DEF h, l
<1>4. U4(v) \in Seq(Nat) /\ Len(U4(v)) = 4
  <2>1. U2(h) \o U2(l) \in Seq(Nat) /\ Len(U2(h) \o U2(l)) = Len(U2(h)) + Len(U2(l))
    BY <1>3, CatLength
  <2>2. QED
    BY <1>2, <1>3, <2>1
<1>5. ASSUME NEW w \in Seq(Nat), NEW p, At(w, p, U4(v))
      PROVE  At(w, p, U2(h)) /\ At(w, p + 2, U2(l))
  BY <1>2, <1>3, <1>5, AtCat
<1>6. QED
  BY <1>1, <1>4, <1>5 DEF h, l

(* Parts that are all of one size, as numbers and rows are. *)
LEMMA ReachFixed ==
  ASSUME NEW S, NEW ss \in Seq(Seq(S)), NEW c \in {2, 4, 8},
         \A j \in 1..Len(ss) : Len(ss[j]) = c
  PROVE  \A k \in 0..Len(ss) : Reach(ss, k) = c * k
<1>. DEFINE Bad == {k \in Nat : k \in 0..Len(ss) /\ Reach(ss, k) # c * k}
<1>1. SUFFICES ASSUME Bad # {} PROVE FALSE
  <2>1. \A k \in 0..Len(ss) : k \in Nat
    OBVIOUS
  <2>2. QED
    BY <2>1
<1>2. PICK k \in Bad : \A l \in Bad : k <= l
  BY <1>1, Least
<1>3. CASE k = 0
  BY <1>2, <1>3, ReachIs
<1>4. CASE k # 0
  <2>1. k \in 1..Len(ss) /\ k - 1 \in 0..Len(ss) /\ k - 1 \in Nat /\ k - 1 \notin Bad
    BY <1>2, <1>4
  <2>2. Reach(ss, k - 1) = c * (k - 1) /\ Reach(ss, k) = Reach(ss, k - 1) + Len(ss[k])
    BY <2>1, ReachIs
  <2>3. Reach(ss, k) = c * (k - 1) + c
    BY <2>1, <2>2
  <2>4. c * (k - 1) + c = c * k
    BY <2>1
  <2>5. QED
    BY <1>2, <2>3, <2>4
<1>5. QED
  BY <1>3, <1>4

LEMMA EachTwo ==
  ASSUME NEW s \in Seq(Nat)
  PROVE  /\ Each(U2, s) \in Seq(Nat) /\ Len(Each(U2, s)) = 2 * Len(s)
         /\ \A w \in Seq(Nat) : \A p : At(w, p, Each(U2, s)) =>
              \A j \in 1..Len(s) : At(w, p + 2 * (j - 1), U2(s[j]))
<1>. DEFINE ss == [j \in DOMAIN s |-> U2(s[j])]
            n == Len(s)
<1>1. Each(U2, s) = FlattenSeq(ss)
  BY DEF Each
<1>2. n \in Nat /\ DOMAIN s = 1..n /\ \A j \in 1..n : s[j] \in Nat
  BY SeqElements
<1>3. /\ ss = [j \in 1..n |-> ss[j]]
      /\ \A j \in 1..n : ss[j] = U2(s[j]) /\ ss[j] \in Seq(Nat) /\ Len(ss[j]) = 2
  BY <1>2, Two
<1>. HIDE DEF ss
<1>4. ss \in Seq(Seq(Nat)) /\ Len(ss) = n
  BY <1>2, <1>3, Made
<1>5. \A k \in 0..n : Reach(ss, k) = 2 * k
  BY <1>3, <1>4, ReachFixed
<1>6. Len(FlattenSeq(ss)) = 2 * n
  <2>1. Reach(ss, Len(ss)) = Len(FlattenSeq(ss))
    BY <1>4, ReachIs
  <2>2. QED
    BY <1>2, <1>4, <1>5, <2>1
<1>7. ASSUME NEW w \in Seq(Nat), NEW p, At(w, p, FlattenSeq(ss)), NEW j \in 1..n
      PROVE  At(w, p + 2 * (j - 1), U2(s[j]))
  <2>1. At(w, p + Reach(ss, j - 1), ss[j])
    BY <1>4, <1>7, AtParts
  <2>2. Reach(ss, j - 1) = 2 * (j - 1)
    BY <1>2, <1>5
  <2>3. QED
    BY <1>3, <2>1, <2>2
<1>8. QED
  BY <1>1, <1>4, <1>6, <1>7, Flat

LEMMA EachFour ==
  ASSUME NEW s \in Seq(Nat)
  PROVE  /\ Each(U4, s) \in Seq(Nat) /\ Len(Each(U4, s)) = 4 * Len(s)
         /\ \A w \in Seq(Nat) : \A p : At(w, p, Each(U4, s)) =>
              \A j \in 1..Len(s) : At(w, p + 4 * (j - 1), U4(s[j]))
<1>. DEFINE ss == [j \in DOMAIN s |-> U4(s[j])]
            n == Len(s)
<1>1. Each(U4, s) = FlattenSeq(ss)
  BY DEF Each
<1>2. n \in Nat /\ DOMAIN s = 1..n /\ \A j \in 1..n : s[j] \in Nat
  BY SeqElements
<1>3. /\ ss = [j \in 1..n |-> ss[j]]
      /\ \A j \in 1..n : ss[j] = U4(s[j]) /\ ss[j] \in Seq(Nat) /\ Len(ss[j]) = 4
  BY <1>2, Four
<1>. HIDE DEF ss
<1>4. ss \in Seq(Seq(Nat)) /\ Len(ss) = n
  BY <1>2, <1>3, Made
<1>5. \A k \in 0..n : Reach(ss, k) = 4 * k
  BY <1>3, <1>4, ReachFixed
<1>6. Len(FlattenSeq(ss)) = 4 * n
  <2>1. Reach(ss, Len(ss)) = Len(FlattenSeq(ss))
    BY <1>4, ReachIs
  <2>2. QED
    BY <1>2, <1>4, <1>5, <2>1
<1>7. ASSUME NEW w \in Seq(Nat), NEW p, At(w, p, FlattenSeq(ss)), NEW j \in 1..n
      PROVE  At(w, p + 4 * (j - 1), U4(s[j]))
  <2>1. At(w, p + Reach(ss, j - 1), ss[j])
    BY <1>4, <1>7, AtParts
  <2>2. Reach(ss, j - 1) = 4 * (j - 1)
    BY <1>2, <1>5
  <2>3. QED
    BY <1>3, <2>1, <2>2
<1>8. QED
  BY <1>1, <1>4, <1>6, <1>7, Flat

-----------------------------------------------------------------------------
(* Attributes.                                                             *)

LEMMA Plain ==
  ASSUME NEW a, a.nameIndex \in Nat, a.info \in Seq(Nat)
  PROVE  /\ PlainBytes(a) \in Seq(Nat) /\ Len(PlainBytes(a)) = 6 + Len(a.info)
         /\ \A w \in Seq(Nat) : \A p : At(w, p, PlainBytes(a)) =>
              /\ At(w, p, U2(a.nameIndex))
              /\ At(w, p + 2, U4(Len(a.info)))
              /\ At(w, p + 6, a.info)
<1>. DEFINE x == U2(a.nameIndex)
            y == U4(Len(a.info))
            z == a.info
<1>1. PlainBytes(a) = (x \o y) \o z
  BY DEF PlainBytes
<1>2. x \in Seq(Nat) /\ y \in Seq(Nat) /\ z \in Seq(Nat) /\ Len(x) = 2 /\ Len(y) = 4
  <2>1. Len(a.info) \in Nat
    BY SeqElements
  <2>2. x \in Seq(Nat) /\ Len(x) = 2
    BY Two
  <2>3. y \in Seq(Nat) /\ Len(y) = 4
    BY <2>1, Four
  <2>4. QED
    BY <2>2, <2>3
<1>. HIDE DEF x, y, z
<1>3. x \o y \in Seq(Nat) /\ Len(x \o y) = 6
  <2>1. x \o y \in Seq(Nat) /\ Len(x \o y) = Len(x) + Len(y)
    BY <1>2, CatLength
  <2>2. QED
    BY <1>2, <2>1
<1>4. (x \o y) \o z \in Seq(Nat) /\ Len((x \o y) \o z) = 6 + Len(z)
  BY <1>2, <1>3, CatLength
<1>5. ASSUME NEW w \in Seq(Nat), NEW p, At(w, p, (x \o y) \o z)
      PROVE  At(w, p, x) /\ At(w, p + 2, y) /\ At(w, p + 6, z)
  <2>1. At(w, p, x \o y) /\ At(w, p + 6, z)
    BY <1>2, <1>3, <1>5, AtCat
  <2>2. QED
    BY <1>2, <2>1, AtCat
<1>6. QED
  BY <1>1, <1>4, <1>5 DEF x, y, z

PlainParts(as) == [j \in DOMAIN as |-> PlainBytes(as[j])]

(* A list of things that are written down in parts. *)
Listed(w, p, ss) ==
  /\ \A k \in 0..Len(ss) : Reach(ss, k) \in Nat
  /\ Reach(ss, 0) = 0
  /\ \A k \in 1..Len(ss) :
       /\ Reach(ss, k) = Reach(ss, k - 1) + Len(ss[k])
       /\ At(w, p + Reach(ss, k - 1), ss[k])

LEMMA ListedIs ==
  ASSUME NEW ss \in Seq(Seq(Nat))
  PROVE  /\ FlattenSeq(ss) \in Seq(Nat) /\ Len(FlattenSeq(ss)) = Reach(ss, Len(ss))
         /\ \A w \in Seq(Nat) : \A p : At(w, p, FlattenSeq(ss)) => Listed(w, p, ss)
<1>1. ASSUME NEW w \in Seq(Nat), NEW p, At(w, p, FlattenSeq(ss))
      PROVE  Listed(w, p, ss)
  <2>1. \A k \in 1..Len(ss) : At(w, p + Reach(ss, k - 1), ss[k])
    BY <1>1, AtParts
  <2>2. QED
    BY <2>1, ReachIs DEF Listed
<1>2. FlattenSeq(ss) \in Seq(Nat) /\ Len(FlattenSeq(ss)) = Reach(ss, Len(ss))
  BY Flat, ReachIs
<1>3. QED
  BY <1>1, <1>2

LEMMA PlainsIs ==
  ASSUME NEW as \in Seq(PlainAttributes)
  PROVE  /\ PlainParts(as) \in Seq(Seq(Nat)) /\ Len(PlainParts(as)) = Len(as)
         /\ Each(PlainBytes, as) = FlattenSeq(PlainParts(as))
         /\ \A j \in 1..Len(as) : PlainParts(as)[j] = PlainBytes(as[j])
<1>1. /\ Len(as) \in Nat /\ DOMAIN as = 1..Len(as)
      /\ \A j \in 1..Len(as) : as[j] \in PlainAttributes
  BY SeqElements
<1>2. \A a \in PlainAttributes : PlainBytes(a) \in Seq(Nat)
  BY Plain DEF PlainAttributes
<1>. DEFINE ss == PlainParts(as)
<1>3. ss = [j \in 1..Len(as) |-> ss[j]] /\ \A j \in 1..Len(as) : ss[j] = PlainBytes(as[j])
  BY <1>1 DEF PlainParts
<1>4. Each(PlainBytes, as) = FlattenSeq(ss)
  BY DEF Each, PlainParts
<1>. HIDE DEF ss
<1>5. ss \in Seq(Seq(Nat)) /\ Len(ss) = Len(as)
  <2>1. \A j \in 1..Len(as) : ss[j] \in Seq(Nat)
    BY <1>1, <1>2, <1>3
  <2>2. QED
    BY <1>1, <1>3, <2>1, Made
<1>6. QED
  BY <1>3, <1>4, <1>5 DEF ss

-----------------------------------------------------------------------------
(* Code.                                                                   *)

(* s, of n bytes, and t behind it. *)
LEMMA Then ==
  ASSUME NEW s \in Seq(Nat), NEW n, n = Len(s), NEW t \in Seq(Nat)
  PROVE  /\ s \o t \in Seq(Nat) /\ Len(s \o t) = n + Len(t)
         /\ \A w \in Seq(Nat) : \A p : At(w, p, s \o t) => At(w, p, s) /\ At(w, p + n, t)
  BY CatLength, AtCat

RowParts(rows) == [j \in DOMAIN rows |-> Each(U2, rows[j])]

LEMMA RowsIs ==
  ASSUME NEW rows \in Seq([1..4 -> Nat])
  PROVE  /\ Each(LAMBDA row : Each(U2, row), rows) \in Seq(Nat)
         /\ Len(Each(LAMBDA row : Each(U2, row), rows)) = 8 * Len(rows)
         /\ \A w \in Seq(Nat) : \A p : At(w, p, Each(LAMBDA row : Each(U2, row), rows)) =>
              \A z \in 1..Len(rows) : \A k \in 1..4 :
                At(w, (p + 8 * (z - 1)) + 2 * (k - 1), U2(rows[z][k]))
<1>. DEFINE ss == RowParts(rows)
            n == Len(rows)
<1>1. Each(LAMBDA row : Each(U2, row), rows) = FlattenSeq(ss)
  BY DEF Each, RowParts
<1>2. n \in Nat /\ DOMAIN rows = 1..n /\ \A j \in 1..n : rows[j] \in [1..4 -> Nat]
  BY SeqElements
<1>3. \A row \in [1..4 -> Nat] : row \in Seq(Nat) /\ Len(row) = 4
  <2>1. TAKE row \in [1..4 -> Nat]
  <2>2. row = [j \in 1..4 |-> row[j]] /\ \A j \in 1..4 : row[j] \in Nat
    OBVIOUS
  <2>3. 4 \in Nat
    OBVIOUS
  <2>4. QED
    BY <2>2, <2>3, Made
<1>4. /\ ss = [j \in 1..n |-> ss[j]]
      /\ \A j \in 1..n : ss[j] = Each(U2, rows[j])
  BY <1>2 DEF RowParts
<1>5. \A j \in 1..n : ss[j] \in Seq(Nat) /\ Len(ss[j]) = 8
  <2>1. TAKE j \in 1..n
  <2>2. rows[j] \in Seq(Nat) /\ Len(rows[j]) = 4
    BY <1>2, <1>3
  <2>3. Each(U2, rows[j]) \in Seq(Nat) /\ Len(Each(U2, rows[j])) = 2 * Len(rows[j])
    BY <2>2, EachTwo
  <2>4. QED
    BY <1>4, <2>2, <2>3
<1>. HIDE DEF ss
<1>6. ss \in Seq(Seq(Nat)) /\ Len(ss) = n
  BY <1>2, <1>4, <1>5, Made
<1>7. \A k \in 0..n : Reach(ss, k) = 8 * k
  BY <1>5, <1>6, ReachFixed
<1>8. Len(FlattenSeq(ss)) = 8 * n
  <2>1. Reach(ss, Len(ss)) = Len(FlattenSeq(ss))
    BY <1>6, ReachIs
  <2>2. n \in 0..n
    BY <1>2
  <2>. HIDE DEF n
  <2>3. QED
    BY <1>6, <1>7, <2>1, <2>2
<1>9. ASSUME NEW w \in Seq(Nat), NEW p, At(w, p, FlattenSeq(ss)), NEW z \in 1..n, NEW k \in 1..4
      PROVE  At(w, (p + 8 * (z - 1)) + 2 * (k - 1), U2(rows[z][k]))
  <2>1. At(w, p + Reach(ss, z - 1), ss[z])
    BY <1>6, <1>9, AtParts
  <2>2. Reach(ss, z - 1) = 8 * (z - 1)
    <3>1. z - 1 \in 0..n
      BY <1>2
    <3>. HIDE DEF n
    <3>2. QED
      BY <1>7, <3>1
  <2>3. At(w, p + 8 * (z - 1), Each(U2, rows[z]))
    BY <1>4, <2>1, <2>2
  <2>4. rows[z] \in Seq(Nat) /\ Len(rows[z]) = 4
    BY <1>2, <1>3
  <2>5. QED
    BY <2>3, <2>4, EachTwo
<1>10. QED
  BY <1>1, <1>6, <1>8, <1>9, Flat

(* Where the parts of a Code attribute lie, behind its name and length. *)
TableAt(c) == 8 + Len(c.code)
CountAt(c) == TableAt(c) + 2 + 8 * Len(c.eTable)
OwnAt(c, k) == CountAt(c) + 2 + Reach(PlainParts(c.attrs), k)

CodeLies(w, p, c) ==
  /\ At(w, p, U2(c.maxStack))
  /\ At(w, p + 2, U2(c.maxLocals))
  /\ At(w, p + 4, U4(Len(c.code)))
  /\ At(w, p + 8, c.code)
  /\ At(w, p + TableAt(c), U2(Len(c.eTable)))
  /\ \A z \in 1..Len(c.eTable) : \A k \in 1..4 :
       At(w, (p + TableAt(c) + 2 + 8 * (z - 1)) + 2 * (k - 1), U2(c.eTable[z][k]))
  /\ At(w, p + CountAt(c), U2(Len(c.attrs)))
  /\ Listed(w, p + CountAt(c) + 2, PlainParts(c.attrs))

LEMMA CodeIs ==
  ASSUME NEW c \in Codes
  PROVE  /\ CodeBytes(c) \in Seq(Nat) /\ Len(CodeBytes(c)) = OwnAt(c, Len(c.attrs))
         /\ \A w \in Seq(Nat) : \A p : At(w, p, CodeBytes(c)) => CodeLies(w, p, c)
<1>. DEFINE a == U2(c.maxStack)
            b == U2(c.maxLocals)
            d == U4(Len(c.code))
            e == c.code
            f == U2(Len(c.eTable))
            g == Each(LAMBDA row : Each(U2, row), c.eTable)
            h == U2(Len(c.attrs))
            i == Each(PlainBytes, c.attrs)
<1>1. CodeBytes(c) = ((((((a \o b) \o d) \o e) \o f) \o g) \o h) \o i
  BY DEF CodeBytes
<1>2. /\ c.maxStack \in Nat /\ c.maxLocals \in Nat /\ c.code \in Seq(Nat)
      /\ c.eTable \in Seq([1..4 -> Nat]) /\ c.attrs \in Seq(PlainAttributes)
  BY DEF Codes
<1>3. Len(c.code) \in Nat /\ Len(c.eTable) \in Nat /\ Len(c.attrs) \in Nat
  BY <1>2, SeqElements
<1>4. /\ PlainParts(c.attrs) \in Seq(Seq(Nat)) /\ i = FlattenSeq(PlainParts(c.attrs))
      /\ Len(PlainParts(c.attrs)) = Len(c.attrs)
  BY <1>2, PlainsIs
<1>5. /\ a \in Seq(Nat) /\ Len(a) = 2 /\ b \in Seq(Nat) /\ Len(b) = 2
      /\ d \in Seq(Nat) /\ Len(d) = 4 /\ f \in Seq(Nat) /\ Len(f) = 2
      /\ h \in Seq(Nat) /\ Len(h) = 2
  <2>1. a \in Seq(Nat) /\ Len(a) = 2 /\ b \in Seq(Nat) /\ Len(b) = 2
    BY <1>2, Two
  <2>2. f \in Seq(Nat) /\ Len(f) = 2 /\ h \in Seq(Nat) /\ Len(h) = 2
    BY <1>3, Two
  <2>3. d \in Seq(Nat) /\ Len(d) = 4
    BY <1>3, Four
  <2>4. QED
    BY <2>1, <2>2, <2>3
<1>6. e \in Seq(Nat) /\ Len(e) = Len(c.code)
  BY <1>2
<1>7. g \in Seq(Nat) /\ Len(g) = 8 * Len(c.eTable)
  BY <1>2, RowsIs
<1>8. i \in Seq(Nat) /\ Len(i) = Reach(PlainParts(c.attrs), Len(c.attrs))
  BY <1>4, ListedIs
<1>9. \A w \in Seq(Nat) : \A p : At(w, p, g) =>
        \A z \in 1..Len(c.eTable) : \A k \in 1..4 :
          At(w, (p + 8 * (z - 1)) + 2 * (k - 1), U2(c.eTable[z][k]))
  BY <1>2, RowsIs
<1>10. \A w \in Seq(Nat) : \A p : At(w, p, i) => Listed(w, p, PlainParts(c.attrs))
  BY <1>4, ListedIs
<1>. DEFINE B == a \o b
            D == B \o d
            E == D \o e
            F == E \o f
            G == F \o g
            H == G \o h
            I == H \o i
            n == Len(c.code)
            r == 8 * Len(c.eTable)
<1>. HIDE DEF a, b, d, e, f, g, h, i
<1>0. n \in Nat /\ r \in Nat /\ Len(e) = n /\ Len(g) = r
  BY <1>3, <1>6, <1>7
<1>. HIDE DEF n, r
<1>11. /\ B \in Seq(Nat) /\ Len(B) = 4
       /\ \A w \in Seq(Nat) : \A p : At(w, p, B) => At(w, p, a) /\ At(w, p + 2, b)
  <2>1. /\ a \o b \in Seq(Nat) /\ Len(a \o b) = 2 + Len(b)
        /\ \A w \in Seq(Nat) : \A p : At(w, p, a \o b) => At(w, p, a) /\ At(w, p + 2, b)
    BY <1>5, Then
  <2>2. QED
    BY <1>5, <2>1
<1>. HIDE DEF B
<1>12. /\ D \in Seq(Nat) /\ Len(D) = 8
       /\ \A w \in Seq(Nat) : \A p : At(w, p, D) => At(w, p, B) /\ At(w, p + 4, d)
  <2>1. /\ B \o d \in Seq(Nat) /\ Len(B \o d) = 4 + Len(d)
        /\ \A w \in Seq(Nat) : \A p : At(w, p, B \o d) => At(w, p, B) /\ At(w, p + 4, d)
    <3>1. B \in Seq(Nat) /\ d \in Seq(Nat) /\ 4 = Len(B)
      BY <1>5, <1>11
    <3>2. QED
      BY <3>1, Then
  <2>2. QED
    BY <1>5, <2>1
<1>. HIDE DEF D
<1>13. /\ E \in Seq(Nat) /\ Len(E) = 8 + n
       /\ \A w \in Seq(Nat) : \A p : At(w, p, E) => At(w, p, D) /\ At(w, p + 8, e)
  <2>1. /\ D \o e \in Seq(Nat) /\ Len(D \o e) = 8 + Len(e)
        /\ \A w \in Seq(Nat) : \A p : At(w, p, D \o e) => At(w, p, D) /\ At(w, p + 8, e)
    <3>1. D \in Seq(Nat) /\ e \in Seq(Nat) /\ 8 = Len(D)
      BY <1>6, <1>12
    <3>2. QED
      BY <3>1, Then
  <2>2. QED
    BY <1>0, <2>1
<1>. HIDE DEF E
<1>14. /\ F \in Seq(Nat) /\ Len(F) = 8 + n + 2
       /\ \A w \in Seq(Nat) : \A p : At(w, p, F) => At(w, p, E) /\ At(w, p + (8 + n), f)
  <2>1. /\ E \o f \in Seq(Nat) /\ Len(E \o f) = (8 + n) + Len(f)
        /\ \A w \in Seq(Nat) : \A p : At(w, p, E \o f) => At(w, p, E) /\ At(w, p + (8 + n), f)
    <3>1. E \in Seq(Nat) /\ f \in Seq(Nat) /\ (8 + n) = Len(E)
      BY <1>5, <1>13
    <3>2. QED
      BY <3>1, Then
  <2>2. QED
    BY <1>0, <1>5, <2>1
<1>. HIDE DEF F
<1>15. /\ G \in Seq(Nat) /\ Len(G) = 8 + n + 2 + r
       /\ \A w \in Seq(Nat) : \A p : At(w, p, G) => At(w, p, F) /\ At(w, p + (8 + n + 2), g)
  <2>1. /\ F \o g \in Seq(Nat) /\ Len(F \o g) = (8 + n + 2) + Len(g)
        /\ \A w \in Seq(Nat) : \A p : At(w, p, F \o g) => At(w, p, F) /\ At(w, p + (8 + n + 2), g)
    <3>1. F \in Seq(Nat) /\ g \in Seq(Nat) /\ (8 + n + 2) = Len(F)
      BY <1>7, <1>14
    <3>2. QED
      BY <3>1, Then
  <2>2. QED
    BY <1>0, <2>1
<1>. HIDE DEF G
<1>16. /\ H \in Seq(Nat) /\ Len(H) = 8 + n + 2 + r + 2
       /\ \A w \in Seq(Nat) : \A p : At(w, p, H) => At(w, p, G) /\ At(w, p + (8 + n + 2 + r), h)
  <2>1. /\ G \o h \in Seq(Nat) /\ Len(G \o h) = (8 + n + 2 + r) + Len(h)
        /\ \A w \in Seq(Nat) : \A p :
              At(w, p, G \o h) => At(w, p, G) /\ At(w, p + (8 + n + 2 + r), h)
    <3>1. G \in Seq(Nat) /\ h \in Seq(Nat) /\ (8 + n + 2 + r) = Len(G)
      BY <1>5, <1>15
    <3>2. QED
      BY <3>1, Then
  <2>2. QED
    BY <1>0, <1>5, <2>1
<1>. HIDE DEF H
<1>17. /\ I \in Seq(Nat) /\ Len(I) = (8 + n + 2 + r + 2) + Len(i)
       /\ \A w \in Seq(Nat) : \A p : At(w, p, I) => At(w, p, H) /\ At(w, p + (8 + n + 2 + r + 2), i)
  BY <1>8, <1>16, Then
<1>18. CodeBytes(c) = I
  BY <1>1 DEF B, D, E, F, G, H
<1>. HIDE DEF I
<1>19. 8 + n = TableAt(c) /\ 8 + n + 2 + r = CountAt(c)
  BY DEF TableAt, CountAt, n, r
<1>20. ASSUME NEW w \in Seq(Nat), NEW p, At(w, p, I) PROVE CodeLies(w, p, c)
  <2>1. At(w, p, H) /\ At(w, p + (8 + n + 2 + r + 2), i)
    BY <1>17, <1>20
  <2>2. At(w, p, G) /\ At(w, p + (8 + n + 2 + r), h)
    BY <1>16, <2>1
  <2>3. At(w, p, F) /\ At(w, p + (8 + n + 2), g)
    BY <1>15, <2>2
  <2>4. At(w, p, E) /\ At(w, p + (8 + n), f)
    BY <1>14, <2>3
  <2>5. At(w, p, D) /\ At(w, p + 8, e)
    BY <1>13, <2>4
  <2>6. At(w, p, B) /\ At(w, p + 4, d)
    BY <1>12, <2>5
  <2>7. At(w, p, a) /\ At(w, p + 2, b)
    BY <1>11, <2>6
  <2>8. p \in Nat /\ n \in Nat /\ r \in Nat
    BY <1>0, <2>7 DEF At
  <2>9. \A z \in 1..Len(c.eTable) : \A k \in 1..4 :
          At(w, (p + TableAt(c) + 2 + 8 * (z - 1)) + 2 * (k - 1), U2(c.eTable[z][k]))
    <3>1. p + (8 + n + 2) = p + TableAt(c) + 2
      BY <1>19, <2>8
    <3>2. QED
      BY <1>9, <2>3, <3>1
  <2>10. Listed(w, p + CountAt(c) + 2, PlainParts(c.attrs))
    <3>1. p + (8 + n + 2 + r + 2) = p + (8 + n + 2 + r) + 2
      BY <2>8
    <3>2. QED
      BY <1>10, <1>19, <2>1, <3>1
  <2>11. At(w, p + TableAt(c), f) /\ At(w, p + CountAt(c), h)
    BY <1>19, <2>2, <2>4
  <2>12. QED
    BY <2>5, <2>6, <2>7, <2>9, <2>10, <2>11 DEF CodeLies, a, b, d, e, f, h
<1>21. Len(I) = OwnAt(c, Len(c.attrs))
  BY <1>8, <1>17, <1>19 DEF OwnAt
<1>22. QED
  BY <1>17, <1>18, <1>20, <1>21

-----------------------------------------------------------------------------
(* Attributes of methods, and members.                                     *)

AnyAttributes == PlainAttributes \cup CodeAttributes

LEMMA CodesHaveCode ==
  /\ \A c \in Codes : c # NoCode
  /\ \A a \in AnyAttributes : a.nameIndex \in Nat /\ a.info \in Seq(Nat)
  /\ \A a \in AnyAttributes : IF a.code = NoCode THEN a \in PlainAttributes
                                                 ELSE a \in CodeAttributes /\ a.code \in Codes
<1>1. \A c \in Codes : c # NoCode
  BY DEF Codes, NoCode
<1>2. \A a \in PlainAttributes : a.code = NoCode /\ a.nameIndex \in Nat /\ a.info \in Seq(Nat)
  BY DEF PlainAttributes
<1>3. \A a \in CodeAttributes : a.code \in Codes /\ a.nameIndex \in Nat /\ a.info = <<>>
  BY DEF CodeAttributes
<1>4. <<>> \in Seq(Nat)
  OBVIOUS
<1>5. QED
  BY <1>1, <1>2, <1>3, <1>4 DEF AnyAttributes

(* Where the parts of an attribute lie. *)
AttributeLies(w, p, a) ==
  /\ At(w, p, U2(a.nameIndex))
  /\ IF a.code = NoCode
     THEN At(w, p + 2, U4(Len(a.info))) /\ At(w, p + 6, a.info)
     ELSE At(w, p + 2, U4(Len(CodeBytes(a.code)))) /\ CodeLies(w, p + 6, a.code)

AttributeLength(a) ==
  6 + IF a.code = NoCode THEN Len(a.info) ELSE OwnAt(a.code, Len(a.code.attrs))

LEMMA AttributeIs ==
  ASSUME NEW a \in AnyAttributes
  PROVE  /\ AttributeBytes(a) \in Seq(Nat) /\ Len(AttributeBytes(a)) = AttributeLength(a)
         /\ \A w \in Seq(Nat) : \A p : At(w, p, AttributeBytes(a)) => AttributeLies(w, p, a)
<1>1. a.nameIndex \in Nat /\ a.info \in Seq(Nat)
  BY CodesHaveCode
<1>2. CASE a.code = NoCode
  <2>1. AttributeBytes(a) = PlainBytes(a)
    BY <1>2 DEF AttributeBytes
  <2>2. QED
    BY <1>1, <1>2, <2>1, Plain DEF AttributeLies, AttributeLength
<1>3. CASE a.code # NoCode
  <2>1. a \in CodeAttributes /\ a.code \in Codes
    BY <1>3, CodesHaveCode
  <2>. DEFINE c == a.code
              b == [a EXCEPT !.info = CodeBytes(c)]
  <2>2. /\ CodeBytes(c) \in Seq(Nat) /\ Len(CodeBytes(c)) = OwnAt(c, Len(c.attrs))
        /\ \A w \in Seq(Nat) : \A p : At(w, p, CodeBytes(c)) => CodeLies(w, p, c)
    BY <2>1, CodeIs
  <2>3. b.nameIndex = a.nameIndex /\ b.info = CodeBytes(c)
    BY <2>1 DEF CodeAttributes
  <2>4. AttributeBytes(a) = PlainBytes(b)
    BY <1>3 DEF AttributeBytes
  <2>. HIDE DEF b
  <2>5. /\ PlainBytes(b) \in Seq(Nat) /\ Len(PlainBytes(b)) = 6 + Len(CodeBytes(c))
        /\ \A w \in Seq(Nat) : \A p : At(w, p, PlainBytes(b)) =>
             /\ At(w, p, U2(a.nameIndex))
             /\ At(w, p + 2, U4(Len(CodeBytes(c))))
             /\ At(w, p + 6, CodeBytes(c))
    BY <1>1, <2>2, <2>3, Plain
  <2>6. QED
    BY <1>3, <2>2, <2>4, <2>5 DEF AttributeLies, AttributeLength
<1>4. QED
  BY <1>2, <1>3

AttributeParts(as) == [j \in DOMAIN as |-> AttributeBytes(as[j])]

LEMMA AttributesIs ==
  ASSUME NEW as \in Seq(AnyAttributes)
  PROVE  /\ AttributeParts(as) \in Seq(Seq(Nat)) /\ Len(AttributeParts(as)) = Len(as)
         /\ Each(AttributeBytes, as) = FlattenSeq(AttributeParts(as))
         /\ \A j \in 1..Len(as) : AttributeParts(as)[j] = AttributeBytes(as[j])
<1>1. /\ Len(as) \in Nat /\ DOMAIN as = 1..Len(as)
      /\ \A j \in 1..Len(as) : as[j] \in AnyAttributes
  BY SeqElements
<1>2. \A a \in AnyAttributes : AttributeBytes(a) \in Seq(Nat)
  BY AttributeIs
<1>. DEFINE ss == AttributeParts(as)
<1>3. ss = [j \in 1..Len(as) |-> ss[j]] /\ \A j \in 1..Len(as) : ss[j] = AttributeBytes(as[j])
  BY <1>1 DEF AttributeParts
<1>4. Each(AttributeBytes, as) = FlattenSeq(ss)
  BY DEF Each, AttributeParts
<1>. HIDE DEF ss
<1>5. ss \in Seq(Seq(Nat)) /\ Len(ss) = Len(as)
  <2>1. \A j \in 1..Len(as) : ss[j] \in Seq(Nat)
    BY <1>1, <1>2, <1>3
  <2>2. QED
    BY <1>1, <1>3, <2>1, Made
<1>6. QED
  BY <1>3, <1>4, <1>5 DEF ss

(* Behind the attributes that come before the k-th, in a list of them. *)
AttributeAt(as, k) == Reach(AttributeParts(as), k)

AttributesLie(w, p, as) ==
  /\ AttributeAt(as, 0) = 0
  /\ \A k \in 0..Len(as) : AttributeAt(as, k) \in Nat
  /\ \A k \in 1..Len(as) :
       /\ AttributeAt(as, k) = AttributeAt(as, k - 1) + AttributeLength(as[k])
       /\ AttributeLies(w, p + AttributeAt(as, k - 1), as[k])
       /\ p + AttributeAt(as, k) <= Len(w)

LEMMA AttributesThere ==
  ASSUME NEW as \in Seq(AnyAttributes), NEW w \in Seq(Nat), NEW p, p \in Nat,
         Listed(w, p, AttributeParts(as))
  PROVE  AttributesLie(w, p, as)
<1>. DEFINE ss == AttributeParts(as)
<1>1. /\ ss \in Seq(Seq(Nat)) /\ Len(ss) = Len(as) /\ Len(as) \in Nat
      /\ \A j \in 1..Len(as) : ss[j] = AttributeBytes(as[j]) /\ as[j] \in AnyAttributes
  BY AttributesIs, SeqElements
<1>2. /\ \A k \in 0..Len(as) : Reach(ss, k) \in Nat
      /\ Reach(ss, 0) = 0
      /\ \A k \in 1..Len(as) :
           Reach(ss, k) = Reach(ss, k - 1) + Len(ss[k]) /\ At(w, p + Reach(ss, k - 1), ss[k])
  BY <1>1 DEF Listed
<1>. HIDE DEF ss
<1>3. ASSUME NEW k \in 1..Len(as)
      PROVE  /\ Reach(ss, k) = Reach(ss, k - 1) + AttributeLength(as[k])
             /\ AttributeLies(w, p + Reach(ss, k - 1), as[k])
             /\ p + Reach(ss, k) <= Len(w)
  <2>1. ss[k] = AttributeBytes(as[k]) /\ as[k] \in AnyAttributes
    BY <1>1
  <2>2. At(w, p + Reach(ss, k - 1), AttributeBytes(as[k]))
    BY <1>2, <2>1
  <2>3. AttributeLies(w, p + Reach(ss, k - 1), as[k])
    BY <2>1, <2>2, AttributeIs
  <2>4. Reach(ss, k) = Reach(ss, k - 1) + Len(ss[k])
    BY <1>2
  <2>5. Len(AttributeBytes(as[k])) = AttributeLength(as[k])
    BY <2>1, AttributeIs
  <2>6. (p + Reach(ss, k - 1)) + Len(ss[k]) <= Len(w)
    BY <2>1, <2>2 DEF At
  <2>7. k \in 0..Len(as) /\ k - 1 \in 0..Len(as)
    <3>1. Len(as) \in Nat
      BY SeqElements
    <3>2. QED
      BY <3>1, OneBack
  <2>8. Reach(ss, k) \in Nat /\ Reach(ss, k - 1) \in Nat
    BY <1>2, <2>7
  <2>9. p + Reach(ss, k) <= Len(w)
    BY <1>2, <2>4, <2>6, <2>8
  <2>10. QED
    BY <2>1, <2>3, <2>4, <2>5, <2>9
<1>4. QED
  BY <1>2, <1>3 DEF AttributesLie, AttributeAt, ss

MemberLies(w, p, f) ==
  /\ At(w, p, U2(f.accessFlags))
  /\ At(w, p + 2, U2(f.nameIndex))
  /\ At(w, p + 4, U2(f.descIndex))
  /\ At(w, p + 6, U2(Len(f.attrs)))
  /\ AttributesLie(w, p + 8, f.attrs)

MemberLength(f) == 8 + AttributeAt(f.attrs, Len(f.attrs))

LEMMA MemberIs ==
  ASSUME NEW f \in Members(AnyAttributes)
  PROVE  /\ MemberBytes(f) \in Seq(Nat) /\ Len(MemberBytes(f)) = MemberLength(f)
         /\ \A w \in Seq(Nat) : \A p : At(w, p, MemberBytes(f)) => MemberLies(w, p, f)
<1>. DEFINE a == U2(f.accessFlags)
            b == U2(f.nameIndex)
            c == U2(f.descIndex)
            d == U2(Len(f.attrs))
            e == Each(AttributeBytes, f.attrs)
<1>1. MemberBytes(f) = (((a \o b) \o c) \o d) \o e
  BY DEF MemberBytes
<1>2. /\ f.accessFlags \in Nat /\ f.nameIndex \in Nat /\ f.descIndex \in Nat
      /\ f.attrs \in Seq(AnyAttributes)
  BY DEF Members
<1>3. Len(f.attrs) \in Nat
  BY <1>2, SeqElements
<1>4. /\ AttributeParts(f.attrs) \in Seq(Seq(Nat)) /\ e = FlattenSeq(AttributeParts(f.attrs))
      /\ Len(AttributeParts(f.attrs)) = Len(f.attrs)
  BY <1>2, AttributesIs
<1>5. /\ a \in Seq(Nat) /\ Len(a) = 2 /\ b \in Seq(Nat) /\ Len(b) = 2
      /\ c \in Seq(Nat) /\ Len(c) = 2 /\ d \in Seq(Nat) /\ Len(d) = 2
  <2>1. d \in Seq(Nat) /\ Len(d) = 2
    BY <1>3, Two
  <2>2. /\ a \in Seq(Nat) /\ Len(a) = 2 /\ b \in Seq(Nat) /\ Len(b) = 2
        /\ c \in Seq(Nat) /\ Len(c) = 2
    BY <1>2, Two
  <2>3. QED
    BY <2>1, <2>2
<1>6. /\ e \in Seq(Nat) /\ Len(e) = AttributeAt(f.attrs, Len(f.attrs))
      /\ \A w \in Seq(Nat) : \A p : At(w, p, e) => Listed(w, p, AttributeParts(f.attrs))
  BY <1>4, ListedIs DEF AttributeAt
<1>. DEFINE B == a \o b
            C == B \o c
            D == C \o d
            E == D \o e
<1>. HIDE DEF a, b, c, d, e
<1>7. /\ B \in Seq(Nat) /\ Len(B) = 4
      /\ \A w \in Seq(Nat) : \A p : At(w, p, B) => At(w, p, a) /\ At(w, p + 2, b)
  <2>1. /\ a \o b \in Seq(Nat) /\ Len(a \o b) = 2 + Len(b)
        /\ \A w \in Seq(Nat) : \A p : At(w, p, a \o b) => At(w, p, a) /\ At(w, p + 2, b)
    BY <1>5, Then
  <2>2. QED
    BY <1>5, <2>1
<1>. HIDE DEF B
<1>8. /\ C \in Seq(Nat) /\ Len(C) = 6
      /\ \A w \in Seq(Nat) : \A p : At(w, p, C) => At(w, p, B) /\ At(w, p + 4, c)
  <2>1. /\ B \o c \in Seq(Nat) /\ Len(B \o c) = 4 + Len(c)
        /\ \A w \in Seq(Nat) : \A p : At(w, p, B \o c) => At(w, p, B) /\ At(w, p + 4, c)
    <3>1. B \in Seq(Nat) /\ c \in Seq(Nat) /\ 4 = Len(B)
      BY <1>5, <1>7
    <3>2. QED
      BY <3>1, Then
  <2>2. QED
    BY <1>5, <2>1
<1>. HIDE DEF C
<1>9. /\ D \in Seq(Nat) /\ Len(D) = 8
      /\ \A w \in Seq(Nat) : \A p : At(w, p, D) => At(w, p, C) /\ At(w, p + 6, d)
  <2>1. /\ C \o d \in Seq(Nat) /\ Len(C \o d) = 6 + Len(d)
        /\ \A w \in Seq(Nat) : \A p : At(w, p, C \o d) => At(w, p, C) /\ At(w, p + 6, d)
    <3>1. C \in Seq(Nat) /\ d \in Seq(Nat) /\ 6 = Len(C)
      BY <1>5, <1>8
    <3>2. QED
      BY <3>1, Then
  <2>2. QED
    BY <1>5, <2>1
<1>. HIDE DEF D
<1>10. /\ E \in Seq(Nat) /\ Len(E) = 8 + Len(e)
       /\ \A w \in Seq(Nat) : \A p : At(w, p, E) => At(w, p, D) /\ At(w, p + 8, e)
  <2>1. D \in Seq(Nat) /\ e \in Seq(Nat) /\ 8 = Len(D)
    BY <1>6, <1>9
  <2>2. QED
    BY <2>1, Then
<1>11. MemberBytes(f) = E
  BY <1>1 DEF B, C, D
<1>. HIDE DEF E
<1>12. ASSUME NEW w \in Seq(Nat), NEW p, At(w, p, E) PROVE MemberLies(w, p, f)
  <2>1. At(w, p, D) /\ Listed(w, p + 8, AttributeParts(f.attrs)) /\ p \in Nat
    <3>1. At(w, p, D) /\ At(w, p + 8, e)
      BY <1>10, <1>12
    <3>2. Listed(w, p + 8, AttributeParts(f.attrs))
      BY <1>6, <3>1
    <3>3. p \in Nat
      BY <3>1 DEF At
    <3>4. QED
      BY <3>1, <3>2, <3>3
  <2>2. At(w, p, C) /\ At(w, p + 6, d)
    BY <1>9, <2>1
  <2>3. At(w, p, a) /\ At(w, p + 2, b) /\ At(w, p + 4, c)
    BY <1>7, <1>8, <2>2
  <2>4. AttributesLie(w, p + 8, f.attrs)
    <3>1. p + 8 \in Nat
      BY <2>1
    <3>2. QED
      BY <1>2, <2>1, <3>1, AttributesThere
  <2>5. QED
    BY <2>2, <2>3, <2>4 DEF MemberLies, a, b, c, d
<1>13. QED
  BY <1>6, <1>10, <1>11, <1>12 DEF MemberLength

-----------------------------------------------------------------------------
(* Constants.                                                              *)

Refs == {FieldRef, MethodRef, IntMethRef, NameAndType}

ItemLies(w, p, item) ==
  /\ At(w, p, <<item.tag>>)
  /\ item.tag = Utf8 => At(w, p + 1, U2(Len(item.args))) /\ At(w, p + 3, item.args)
  /\ item.tag = Integer => At(w, p + 1, U4(item.args[1]))
  /\ item.tag = Long => At(w, p + 1, U4(item.args[1])) /\ At(w, p + 5, U4(item.args[2]))
  /\ item.tag \in {ClassInfo, String} => At(w, p + 1, U2(item.args[1]))
  /\ item.tag \in Refs => At(w, p + 1, U2(item.args[1])) /\ At(w, p + 3, U2(item.args[2]))

(* Of a constant that the loader knows. *)
ItemLength(item) ==
  IF item.tag = Utf8 THEN 3 + Len(item.args)
  ELSE IF item.tag = Long THEN 9
  ELSE IF item.tag \in {ClassInfo, String} THEN 3 ELSE 5

LEMMA Tags ==
  /\ Utf8 = 1 /\ Integer = 3 /\ Float = 4 /\ Long = 5 /\ Double = 6 /\ ClassInfo = 7
  /\ String = 8 /\ FieldRef = 9 /\ MethodRef = 10 /\ IntMethRef = 11 /\ NameAndType = 12
  /\ Known = {1, 3, 5, 7, 8, 9, 10, 11, 12} /\ Refs = {9, 10, 11, 12}
  BY DEF Utf8, Integer, Float, Long, Double, ClassInfo, String, FieldRef, MethodRef, IntMethRef,
         NameAndType, Known, Refs

LEMMA ItemIs ==
  ASSUME NEW item \in PoolItems, ArgsFit(item)
  PROVE  /\ ItemBytes(item) \in Seq(Nat) /\ Len(ItemBytes(item)) >= 1
         /\ item.tag \in Known => Len(ItemBytes(item)) = ItemLength(item)
         /\ \A w \in Seq(Nat) : \A p : At(w, p, ItemBytes(item)) => ItemLies(w, p, item)
<1>0. PICK t, args, h : t = item.tag /\ args = item.args /\ h = <<t>>
  OBVIOUS
<1>1. t \in Nat /\ args \in Seq(Nat)
  BY <1>0 DEF PoolItems
<1>2. Len(args) \in Nat /\ \A j \in 1..Len(args) : args[j] \in Nat
  BY <1>1, SeqElements
<1>3. h \in Seq(Nat) /\ Len(h) = 1
  BY <1>0, <1>1
<1>4. CASE t = Utf8
  <2>. DEFINE a == U2(Len(args))
  <2>1. t = 1 /\ t \notin {Integer, Float, Long, Double}
    BY <1>4, Tags
  <2>2. ItemBytes(item) = h \o (a \o args)
    BY <1>0, <1>4, <2>1 DEF ItemBytes
  <2>3. a \in Seq(Nat) /\ Len(a) = 2
    BY <1>2, Two
  <2>. HIDE DEF a
  <2>4. /\ a \o args \in Seq(Nat) /\ Len(a \o args) = 2 + Len(args)
        /\ \A w \in Seq(Nat) : \A p : At(w, p, a \o args) => At(w, p, a) /\ At(w, p + 2, args)
    BY <1>1, <2>3, Then
  <2>5. /\ h \o (a \o args) \in Seq(Nat) /\ Len(h \o (a \o args)) = 1 + Len(a \o args)
        /\ \A w \in Seq(Nat) : \A p :
             At(w, p, h \o (a \o args)) => At(w, p, h) /\ At(w, p + 1, a \o args)
    BY <1>3, <2>4, Then
  <2>6. ASSUME NEW w \in Seq(Nat), NEW p, At(w, p, h \o (a \o args))
        PROVE  At(w, p, h) /\ At(w, p + 1, a) /\ At(w, p + 3, args)
    <3>1. At(w, p, h) /\ At(w, p + 1, a) /\ At(w, (p + 1) + 2, args)
      BY <2>4, <2>5, <2>6
    <3>2. p \in Nat
      BY <3>1 DEF At
    <3>3. (p + 1) + 2 = p + 3
      BY <3>2
    <3>4. QED
      BY <3>1, <3>3
  <2>7. Len(h \o (a \o args)) = 3 + Len(args) /\ Len(h \o (a \o args)) >= 1
    BY <1>2, <2>4, <2>5
  <2>8. ItemLength(item) = 3 + Len(args)
    BY <1>0, <1>4 DEF ItemLength
  <2>9. ASSUME NEW w \in Seq(Nat), NEW p, At(w, p, h \o (a \o args)) PROVE ItemLies(w, p, item)
    <3>1. At(w, p, h) /\ At(w, p + 1, U2(Len(args))) /\ At(w, p + 3, args)
      BY <2>6, <2>9 DEF a
    <3>2. t # Integer /\ t # Long /\ t \notin {ClassInfo, String} /\ t \notin Refs
      BY <2>1, Tags
    <3>3. QED
      BY <1>0, <1>4, <3>1, <3>2 DEF ItemLies
  <2>10. QED
    BY <2>2, <2>5, <2>7, <2>8, <2>9
<1>5. CASE t \in {Integer, Float, Long, Double}
  <2>. DEFINE a == Each(U4, args)
  <2>1. t \in {3, 4, 5, 6} /\ t # Utf8
    BY <1>5, Tags
  <2>2. ItemBytes(item) = h \o a
    BY <1>0, <1>5, <2>1 DEF ItemBytes
  <2>3. /\ a \in Seq(Nat) /\ Len(a) = 4 * Len(args)
        /\ \A w \in Seq(Nat) : \A p : At(w, p, a) =>
             \A j \in 1..Len(args) : At(w, p + 4 * (j - 1), U4(args[j]))
    BY <1>1, EachFour
  <2>4. (t = 3 => Len(args) = 1) /\ (t = 5 => Len(args) = 2)
    BY <1>0, Tags DEF ArgsFit
  <2>. HIDE DEF a
  <2>5. /\ h \o a \in Seq(Nat) /\ Len(h \o a) = 1 + Len(a)
        /\ \A w \in Seq(Nat) : \A p : At(w, p, h \o a) => At(w, p, h) /\ At(w, p + 1, a)
    BY <1>3, <2>3, Then
  <2>6. ASSUME NEW w \in Seq(Nat), NEW p, At(w, p, h \o a)
        PROVE  /\ At(w, p, h)
               /\ t = 3 => At(w, p + 1, U4(args[1]))
               /\ t = 5 => At(w, p + 1, U4(args[1])) /\ At(w, p + 5, U4(args[2]))
    <3>1. At(w, p, h) /\ At(w, p + 1, a)
      BY <2>5, <2>6
    <3>2. p \in Nat
      BY <3>1 DEF At
    <3>3. \A j \in 1..Len(args) : At(w, (p + 1) + 4 * (j - 1), U4(args[j]))
      BY <2>3, <3>1
    <3>4. (p + 1) + 4 * (1 - 1) = p + 1 /\ (p + 1) + 4 * (2 - 1) = p + 5
      BY <3>2
    <3>5. ASSUME t = 3 PROVE At(w, p + 1, U4(args[1]))
      <4>1. Len(args) = 1
        BY <2>4, <3>5
      <4>2. 1 \in 1..Len(args)
        BY <4>1
      <4>3. QED
        BY <3>3, <3>4, <4>2
    <3>6. ASSUME t = 5 PROVE At(w, p + 1, U4(args[1])) /\ At(w, p + 5, U4(args[2]))
      <4>1. Len(args) = 2
        BY <2>4, <3>6
      <4>2. 1 \in 1..Len(args) /\ 2 \in 1..Len(args)
        BY <4>1
      <4>3. QED
        BY <3>3, <3>4, <4>2
    <3>7. QED
      BY <3>1, <3>5, <3>6
  <2>7. Len(h \o a) >= 1
    BY <1>2, <2>3, <2>5
  <2>8. ASSUME item.tag \in Known PROVE Len(h \o a) = ItemLength(item)
    <3>1. t = 3 \/ t = 5
      BY <1>0, <2>1, <2>8, Tags
    <3>2. CASE t = 3
      <4>1. Len(args) = 1
        BY <2>4, <3>2
      <4>2. Len(h \o a) = 5
        BY <2>3, <2>5, <4>1
      <4>3. QED
        BY <1>0, <3>2, <4>2, Tags DEF ItemLength
    <3>3. CASE t = 5
      <4>1. Len(args) = 2
        BY <2>4, <3>3
      <4>2. Len(h \o a) = 9
        BY <2>3, <2>5, <4>1
      <4>3. QED
        BY <1>0, <3>3, <4>2, Tags DEF ItemLength
    <3>4. QED
      BY <3>1, <3>2, <3>3
  <2>9. ASSUME NEW w \in Seq(Nat), NEW p, At(w, p, h \o a) PROVE ItemLies(w, p, item)
    <3>1. /\ At(w, p, h)
          /\ t = Integer => At(w, p + 1, U4(args[1]))
          /\ t = Long => At(w, p + 1, U4(args[1])) /\ At(w, p + 5, U4(args[2]))
      BY <2>6, <2>9, Tags
    <3>2. t # Utf8 /\ t \notin {ClassInfo, String} /\ t \notin Refs
      BY <2>1, Tags
    <3>3. QED
      BY <1>0, <3>1, <3>2 DEF ItemLies
  <2>10. QED
    BY <2>2, <2>5, <2>7, <2>8, <2>9
<1>6. CASE t \notin {Utf8, Integer, Float, Long, Double}
  <2>. DEFINE a == Each(U2, args)
  <2>1. t \notin {1, 3, 4, 5, 6}
    BY <1>6, Tags
  <2>2. ItemBytes(item) = h \o a
    BY <1>0, <1>6 DEF ItemBytes
  <2>3. /\ a \in Seq(Nat) /\ Len(a) = 2 * Len(args)
        /\ \A w \in Seq(Nat) : \A p : At(w, p, a) =>
             \A j \in 1..Len(args) : At(w, p + 2 * (j - 1), U2(args[j]))
    BY <1>1, EachTwo
  <2>4. (t \in {7, 8} => Len(args) = 1) /\ (t \in {9, 10, 11, 12} => Len(args) = 2)
    BY <1>0, Tags DEF ArgsFit
  <2>. HIDE DEF a
  <2>5. /\ h \o a \in Seq(Nat) /\ Len(h \o a) = 1 + Len(a)
        /\ \A w \in Seq(Nat) : \A p : At(w, p, h \o a) => At(w, p, h) /\ At(w, p + 1, a)
    BY <1>3, <2>3, Then
  <2>6. ASSUME NEW w \in Seq(Nat), NEW p, At(w, p, h \o a)
        PROVE  /\ At(w, p, h)
               /\ t \in {7, 8} => At(w, p + 1, U2(args[1]))
               /\ t \in {9, 10, 11, 12} =>
                    At(w, p + 1, U2(args[1])) /\ At(w, p + 3, U2(args[2]))
    <3>1. At(w, p, h) /\ At(w, p + 1, a)
      BY <2>5, <2>6
    <3>2. p \in Nat
      BY <3>1 DEF At
    <3>3. \A j \in 1..Len(args) : At(w, (p + 1) + 2 * (j - 1), U2(args[j]))
      BY <2>3, <3>1
    <3>4. (p + 1) + 2 * (1 - 1) = p + 1 /\ (p + 1) + 2 * (2 - 1) = p + 3
      BY <3>2
    <3>5. ASSUME t \in {7, 8} PROVE At(w, p + 1, U2(args[1]))
      <4>1. Len(args) = 1
        BY <2>4, <3>5
      <4>2. 1 \in 1..Len(args)
        BY <4>1
      <4>3. QED
        BY <3>3, <3>4, <4>2
    <3>6. ASSUME t \in {9, 10, 11, 12}
          PROVE  At(w, p + 1, U2(args[1])) /\ At(w, p + 3, U2(args[2]))
      <4>1. Len(args) = 2
        BY <2>4, <3>6
      <4>2. 1 \in 1..Len(args) /\ 2 \in 1..Len(args)
        BY <4>1
      <4>3. QED
        BY <3>3, <3>4, <4>2
    <3>7. QED
      BY <3>1, <3>5, <3>6
  <2>7. Len(h \o a) >= 1
    BY <1>2, <2>3, <2>5
  <2>8. ASSUME item.tag \in Known PROVE Len(h \o a) = ItemLength(item)
    <3>1. t \in {7, 8} \/ t \in {9, 10, 11, 12}
      BY <1>0, <2>1, <2>8, Tags
    <3>2. CASE t \in {7, 8}
      <4>1. Len(args) = 1
        BY <2>4, <3>2
      <4>2. Len(h \o a) = 3
        BY <2>3, <2>5, <4>1
      <4>3. QED
        BY <1>0, <3>2, <4>2, Tags DEF ItemLength
    <3>3. CASE t \in {9, 10, 11, 12}
      <4>1. Len(args) = 2
        BY <2>4, <3>3
      <4>2. Len(h \o a) = 5
        BY <2>3, <2>5, <4>1
      <4>3. QED
        BY <1>0, <3>3, <4>2, Tags DEF ItemLength
    <3>4. QED
      BY <3>1, <3>2, <3>3
  <2>9. ASSUME NEW w \in Seq(Nat), NEW p, At(w, p, h \o a) PROVE ItemLies(w, p, item)
    <3>1. /\ At(w, p, h)
          /\ t \in {ClassInfo, String} => At(w, p + 1, U2(args[1]))
          /\ t \in Refs => At(w, p + 1, U2(args[1])) /\ At(w, p + 3, U2(args[2]))
      BY <2>6, <2>9, Tags
    <3>2. t # Utf8 /\ t # Integer /\ t # Long
      BY <2>1, Tags
    <3>3. QED
      BY <1>0, <3>1, <3>2 DEF ItemLies
  <2>10. QED
    BY <2>2, <2>5, <2>7, <2>8, <2>9
<1>7. QED
  BY <1>4, <1>5, <1>6

ItemParts(pool) == [j \in DOMAIN pool |-> ItemBytes(pool[j])]

FittingPool(pool) == pool \in Seq(PoolItems) /\ \A j \in DOMAIN pool : ArgsFit(pool[j])

LEMMA ItemsIs ==
  ASSUME NEW pool, FittingPool(pool)
  PROVE  /\ ItemParts(pool) \in Seq(Seq(Nat)) /\ Len(ItemParts(pool)) = Len(pool)
         /\ Each(ItemBytes, pool) = FlattenSeq(ItemParts(pool))
         /\ \A j \in 1..Len(pool) : ItemParts(pool)[j] = ItemBytes(pool[j])
<1>1. /\ Len(pool) \in Nat /\ DOMAIN pool = 1..Len(pool)
      /\ \A j \in 1..Len(pool) : pool[j] \in PoolItems /\ ArgsFit(pool[j])
  BY SeqElements DEF FittingPool
<1>2. \A j \in 1..Len(pool) : ItemBytes(pool[j]) \in Seq(Nat)
  BY <1>1, ItemIs
<1>. DEFINE ss == ItemParts(pool)
<1>3. ss = [j \in 1..Len(pool) |-> ss[j]] /\ \A j \in 1..Len(pool) : ss[j] = ItemBytes(pool[j])
  BY <1>1 DEF ItemParts
<1>4. Each(ItemBytes, pool) = FlattenSeq(ss)
  BY DEF Each, ItemParts
<1>. HIDE DEF ss
<1>5. ss \in Seq(Seq(Nat)) /\ Len(ss) = Len(pool)
  <2>1. \A j \in 1..Len(pool) : ss[j] \in Seq(Nat)
    BY <1>2, <1>3
  <2>2. QED
    BY <1>1, <1>3, <2>1, Made
<1>6. QED
  BY <1>3, <1>4, <1>5 DEF ss

MemberParts(fs) == [j \in DOMAIN fs |-> MemberBytes(fs[j])]

LEMMA MembersIs ==
  ASSUME NEW fs \in Seq(Members(AnyAttributes))
  PROVE  /\ MemberParts(fs) \in Seq(Seq(Nat)) /\ Len(MemberParts(fs)) = Len(fs)
         /\ Each(MemberBytes, fs) = FlattenSeq(MemberParts(fs))
         /\ \A j \in 1..Len(fs) : MemberParts(fs)[j] = MemberBytes(fs[j])
<1>1. /\ Len(fs) \in Nat /\ DOMAIN fs = 1..Len(fs)
      /\ \A j \in 1..Len(fs) : fs[j] \in Members(AnyAttributes)
  BY SeqElements
<1>2. \A j \in 1..Len(fs) : MemberBytes(fs[j]) \in Seq(Nat)
  BY <1>1, MemberIs
<1>. DEFINE ss == MemberParts(fs)
<1>3. ss = [j \in 1..Len(fs) |-> ss[j]] /\ \A j \in 1..Len(fs) : ss[j] = MemberBytes(fs[j])
  BY <1>1 DEF MemberParts
<1>4. Each(MemberBytes, fs) = FlattenSeq(ss)
  BY DEF Each, MemberParts
<1>. HIDE DEF ss
<1>5. ss \in Seq(Seq(Nat)) /\ Len(ss) = Len(fs)
  <2>1. \A j \in 1..Len(fs) : ss[j] \in Seq(Nat)
    BY <1>2, <1>3
  <2>2. QED
    BY <1>1, <1>3, <2>1, Made
<1>6. QED
  BY <1>3, <1>4, <1>5 DEF ss

(* Fields have no code. *)
LEMMA FieldsAreMembers ==
  ASSUME NEW fs \in Seq(Members(PlainAttributes))
  PROVE  fs \in Seq(Members(AnyAttributes))
<1>1. \A as \in Seq(PlainAttributes) : as \in Seq(AnyAttributes)
  <2>1. TAKE as \in Seq(PlainAttributes)
  <2>2. /\ Len(as) \in Nat /\ DOMAIN as = 1..Len(as)
        /\ \A j \in 1..Len(as) : as[j] \in PlainAttributes
    BY SeqElements
  <2>3. \A j \in 1..Len(as) : as[j] \in AnyAttributes
    BY <2>2 DEF AnyAttributes
  <2>4. as = [j \in 1..Len(as) |-> as[j]]
    BY SeqIs
  <2>5. QED
    BY <2>2, <2>3, <2>4, Made
<1>2. \A f \in Members(PlainAttributes) : f \in Members(AnyAttributes)
  BY <1>1 DEF Members
<1>3. /\ Len(fs) \in Nat /\ DOMAIN fs = 1..Len(fs)
      /\ \A j \in 1..Len(fs) : fs[j] \in Members(PlainAttributes)
  BY SeqElements
<1>4. fs = [j \in 1..Len(fs) |-> fs[j]] /\ \A j \in 1..Len(fs) : fs[j] \in Members(AnyAttributes)
  BY <1>2, <1>3
<1>5. QED
  BY <1>3, <1>4, Made

-----------------------------------------------------------------------------
(* Lists of constants and of members.                                      *)

ItemAt(pool, k) == Reach(ItemParts(pool), k)

ItemsLie(w, p, pool) ==
  /\ ItemAt(pool, 0) = 0
  /\ \A k \in 0..Len(pool) : ItemAt(pool, k) \in Nat
  /\ \A k \in 1..Len(pool) :
       /\ ItemAt(pool, k) > ItemAt(pool, k - 1)
       /\ pool[k].tag \in Known => ItemAt(pool, k) = ItemAt(pool, k - 1) + ItemLength(pool[k])
       /\ ItemLies(w, p + ItemAt(pool, k - 1), pool[k])
       /\ p + ItemAt(pool, k) <= Len(w)

LEMMA ItemsThere ==
  ASSUME NEW pool, FittingPool(pool), NEW w \in Seq(Nat), NEW p, p \in Nat,
         Listed(w, p, ItemParts(pool))
  PROVE  ItemsLie(w, p, pool)
<1>. DEFINE ss == ItemParts(pool)
<1>1. /\ ss \in Seq(Seq(Nat)) /\ Len(ss) = Len(pool)
      /\ \A j \in 1..Len(pool) : ss[j] = ItemBytes(pool[j])
  BY ItemsIs
<1>2. /\ \A k \in 0..Len(pool) : Reach(ss, k) \in Nat
      /\ Reach(ss, 0) = 0
      /\ \A k \in 1..Len(pool) :
           Reach(ss, k) = Reach(ss, k - 1) + Len(ss[k]) /\ At(w, p + Reach(ss, k - 1), ss[k])
  BY <1>1 DEF Listed
<1>. HIDE DEF ss
<1>3. ASSUME NEW k \in 1..Len(pool)
      PROVE  /\ Reach(ss, k) > Reach(ss, k - 1)
             /\ pool[k].tag \in Known => Reach(ss, k) = Reach(ss, k - 1) + ItemLength(pool[k])
             /\ ItemLies(w, p + Reach(ss, k - 1), pool[k])
             /\ p + Reach(ss, k) <= Len(w)
  <2>1. pool[k] \in PoolItems /\ ArgsFit(pool[k]) /\ Len(pool) \in Nat
    BY SeqElements DEF FittingPool
  <2>2. ss[k] = ItemBytes(pool[k])
    BY <1>1
  <2>3. At(w, p + Reach(ss, k - 1), ItemBytes(pool[k]))
    BY <1>2, <2>2
  <2>4. /\ ItemBytes(pool[k]) \in Seq(Nat) /\ Len(ItemBytes(pool[k])) >= 1
        /\ pool[k].tag \in Known => Len(ItemBytes(pool[k])) = ItemLength(pool[k])
        /\ ItemLies(w, p + Reach(ss, k - 1), pool[k])
    BY <2>1, <2>3, ItemIs
  <2>5. Len(ItemBytes(pool[k])) \in Nat
    BY <2>4
  <2>6. Reach(ss, k) = Reach(ss, k - 1) + Len(ItemBytes(pool[k]))
    BY <1>2, <2>2
  <2>7. (p + Reach(ss, k - 1)) + Len(ItemBytes(pool[k])) <= Len(w)
    BY <2>3 DEF At
  <2>8. k \in 0..Len(pool) /\ k - 1 \in 0..Len(pool)
    BY <2>1, OneBack
  <2>9. Reach(ss, k) \in Nat /\ Reach(ss, k - 1) \in Nat
    BY <1>2, <2>8
  <2>10. p + Reach(ss, k) <= Len(w) /\ Reach(ss, k) > Reach(ss, k - 1)
    <3>1. Len(ItemBytes(pool[k])) >= 1 /\ p \in Nat /\ Len(w) \in Nat
      BY <2>4
    <3>2. QED
      BY <2>5, <2>6, <2>7, <2>9, <3>1
  <2>11. QED
    BY <2>4, <2>6, <2>10
<1>4. QED
  BY <1>2, <1>3 DEF ItemsLie, ItemAt, ss

MemberAt(fs, k) == Reach(MemberParts(fs), k)

MembersLie(w, p, fs) ==
  /\ MemberAt(fs, 0) = 0
  /\ \A k \in 0..Len(fs) : MemberAt(fs, k) \in Nat
  /\ \A k \in 1..Len(fs) :
       /\ MemberAt(fs, k) = MemberAt(fs, k - 1) + MemberLength(fs[k])
       /\ MemberLies(w, p + MemberAt(fs, k - 1), fs[k])
       /\ p + MemberAt(fs, k) <= Len(w)

LEMMA MembersThere ==
  ASSUME NEW fs \in Seq(Members(AnyAttributes)), NEW w \in Seq(Nat), NEW p, p \in Nat,
         Listed(w, p, MemberParts(fs))
  PROVE  MembersLie(w, p, fs)
<1>. DEFINE ss == MemberParts(fs)
<1>1. /\ ss \in Seq(Seq(Nat)) /\ Len(ss) = Len(fs)
      /\ \A j \in 1..Len(fs) : ss[j] = MemberBytes(fs[j])
  BY MembersIs
<1>2. /\ \A k \in 0..Len(fs) : Reach(ss, k) \in Nat
      /\ Reach(ss, 0) = 0
      /\ \A k \in 1..Len(fs) :
           Reach(ss, k) = Reach(ss, k - 1) + Len(ss[k]) /\ At(w, p + Reach(ss, k - 1), ss[k])
  BY <1>1 DEF Listed
<1>. HIDE DEF ss
<1>3. ASSUME NEW k \in 1..Len(fs)
      PROVE  /\ Reach(ss, k) = Reach(ss, k - 1) + MemberLength(fs[k])
             /\ MemberLies(w, p + Reach(ss, k - 1), fs[k])
             /\ p + Reach(ss, k) <= Len(w)
  <2>1. fs[k] \in Members(AnyAttributes) /\ Len(fs) \in Nat
    BY SeqElements
  <2>2. ss[k] = MemberBytes(fs[k])
    BY <1>1
  <2>3. At(w, p + Reach(ss, k - 1), MemberBytes(fs[k]))
    BY <1>2, <2>2
  <2>4. /\ Len(MemberBytes(fs[k])) = MemberLength(fs[k])
        /\ MemberLies(w, p + Reach(ss, k - 1), fs[k])
    BY <2>1, <2>3, MemberIs
  <2>5. Reach(ss, k) = Reach(ss, k - 1) + Len(MemberBytes(fs[k]))
    BY <1>2, <2>2
  <2>6. (p + Reach(ss, k - 1)) + Len(MemberBytes(fs[k])) <= Len(w)
    BY <2>3 DEF At
  <2>7. k \in 0..Len(fs) /\ k - 1 \in 0..Len(fs)
    BY <2>1, OneBack
  <2>8. Reach(ss, k) \in Nat /\ Reach(ss, k - 1) \in Nat
    BY <1>2, <2>7
  <2>9. Len(MemberBytes(fs[k])) \in Nat
    BY <2>1, MemberIs, SeqElements
  <2>10. p + Reach(ss, k) <= Len(w)
    BY <2>5, <2>6, <2>8, <2>9
  <2>11. QED
    BY <2>4, <2>5, <2>10
<1>4. QED
  BY <1>2, <1>3 DEF MembersLie, MemberAt, ss

(* An attribute without code is written as what it is. *)
LEMMA PlainsAre ==
  ASSUME NEW as \in Seq(PlainAttributes)
  PROVE  /\ as \in Seq(AnyAttributes)
         /\ PlainParts(as) = AttributeParts(as)
<1>1. /\ Len(as) \in Nat /\ DOMAIN as = 1..Len(as)
      /\ \A j \in 1..Len(as) : as[j] \in PlainAttributes
  BY SeqElements
<1>2. as \in Seq(AnyAttributes)
  <2>1. \A j \in 1..Len(as) : as[j] \in AnyAttributes
    BY <1>1 DEF AnyAttributes
  <2>2. as = [j \in 1..Len(as) |-> as[j]]
    BY SeqIs
  <2>3. QED
    BY <1>1, <2>1, <2>2, Made
<1>3. \A j \in DOMAIN as : PlainBytes(as[j]) = AttributeBytes(as[j])
  <2>1. TAKE j \in DOMAIN as
  <2>2. as[j].code = NoCode
    BY <1>1 DEF PlainAttributes
  <2>3. QED
    BY <2>2 DEF AttributeBytes
<1>4. QED
  BY <1>2, <1>3 DEF PlainParts, AttributeParts

LEMMA PlainsThere ==
  ASSUME NEW as \in Seq(PlainAttributes), NEW w \in Seq(Nat), NEW p, p \in Nat,
         Listed(w, p, PlainParts(as))
  PROVE  AttributesLie(w, p, as)
<1>1. as \in Seq(AnyAttributes) /\ Listed(w, p, AttributeParts(as))
  BY PlainsAre
<1>2. QED
  BY <1>1, AttributesThere

-----------------------------------------------------------------------------
(* The whole file.                                                         *)

ParametersAt(f) == 10 + ItemAt(f.pool, Len(f.pool))
FieldsAt(f) == ParametersAt(f) + 8 + 2 * Len(f.interfaces) + 2
MethodsAt(f) == FieldsAt(f) + MemberAt(f.fields, Len(f.fields)) + 2
AttrsAt(f) == MethodsAt(f) + MemberAt(f.methods, Len(f.methods)) + 2

FileLies(w, f) ==
  /\ At(w, 8, U2(Len(Numbered(f.pool)) + 1))
  /\ ItemsLie(w, 10, f.pool)
  /\ ParametersAt(f) \in Nat /\ FieldsAt(f) \in Nat /\ MethodsAt(f) \in Nat /\ AttrsAt(f) \in Nat
  /\ At(w, ParametersAt(f), U2(f.accessFlags))
  /\ At(w, ParametersAt(f) + 2, U2(f.thisClass))
  /\ At(w, ParametersAt(f) + 4, U2(f.superClass))
  /\ At(w, ParametersAt(f) + 6, U2(Len(f.interfaces)))
  /\ \A j \in 1..Len(f.interfaces) :
       At(w, (ParametersAt(f) + 8) + 2 * (j - 1), U2(f.interfaces[j]))
  /\ At(w, FieldsAt(f) - 2, U2(Len(f.fields)))
  /\ MembersLie(w, FieldsAt(f), f.fields)
  /\ At(w, MethodsAt(f) - 2, U2(Len(f.methods)))
  /\ MembersLie(w, MethodsAt(f), f.methods)
  /\ At(w, AttrsAt(f) - 2, U2(Len(f.attrs)))
  /\ AttributesLie(w, AttrsAt(f), f.attrs)
  /\ Len(w) = AttrsAt(f) + AttributeAt(f.attrs, Len(f.attrs))

NumberParts(pool) ==
  [j \in DOMAIN pool |->
     IF pool[j].tag \in {Long, Double} THEN <<pool[j], pool[j]>> ELSE <<pool[j]>>]

LEMMA NumberedIs ==
  ASSUME NEW pool \in Seq(PoolItems)
  PROVE  /\ NumberParts(pool) \in Seq(Seq(PoolItems)) /\ Len(NumberParts(pool)) = Len(pool)
         /\ \A j \in 1..Len(pool) :
              NumberParts(pool)[j] =
                IF pool[j].tag \in {Long, Double} THEN <<pool[j], pool[j]>> ELSE <<pool[j]>>
         /\ Numbered(pool) = FlattenSeq(NumberParts(pool))
         /\ Numbered(pool) \in Seq(PoolItems)
<1>. DEFINE Op(e) == IF e.tag \in {Long, Double} THEN <<e, e>> ELSE <<e>>
            ss == [j \in DOMAIN pool |-> Op(pool[j])]
<1>1. Numbered(pool) = FlattenSeq(ss)
  BY DEF Numbered, Each
<1>2. /\ Len(pool) \in Nat /\ DOMAIN pool = 1..Len(pool)
      /\ \A j \in 1..Len(pool) : pool[j] \in PoolItems
  BY SeqElements
<1>3. \A e \in PoolItems : Op(e) \in Seq(PoolItems)
  OBVIOUS
<1>4. ss = NumberParts(pool)
  BY DEF NumberParts
<1>5. \A j \in 1..Len(pool) :
        ss[j] = IF pool[j].tag \in {Long, Double} THEN <<pool[j], pool[j]>> ELSE <<pool[j]>>
  BY <1>2
<1>. HIDE DEF Op
<1>6. ss = [j \in 1..Len(pool) |-> ss[j]] /\ \A j \in 1..Len(pool) : ss[j] \in Seq(PoolItems)
  BY <1>2, <1>3
<1>. HIDE DEF ss
<1>7. ss \in Seq(Seq(PoolItems)) /\ Len(ss) = Len(pool)
  BY <1>2, <1>6, Made
<1>8. FlattenSeq(ss) \in Seq(PoolItems)
  BY <1>7, Flat
<1>9. QED
  BY <1>1, <1>4, <1>5, <1>7, <1>8

LEMMA MagicIs ==
  /\ <<202, 254, 186, 190>> \o U2(0) \o U2(50) \in Seq(Nat)
  /\ Len(<<202, 254, 186, 190>> \o U2(0) \o U2(50)) = 8
<1>1. PICK a, b, c : a = <<202, 254, 186, 190>> /\ b = U2(0) /\ c = U2(50)
  OBVIOUS
<1>2. a \in Seq(Nat) /\ Len(a) = 4
  BY <1>1
<1>3. b \in Seq(Nat) /\ Len(b) = 2 /\ c \in Seq(Nat) /\ Len(c) = 2
  BY <1>1, Two
<1>4. a \o b \in Seq(Nat) /\ Len(a \o b) = 6
  <2>1. a \o b \in Seq(Nat) /\ Len(a \o b) = 4 + Len(b)
    BY <1>2, <1>3, Then
  <2>2. QED
    BY <1>3, <2>1
<1>5. (a \o b) \o c \in Seq(Nat) /\ Len((a \o b) \o c) = 8
  <2>1. (a \o b) \o c \in Seq(Nat) /\ Len((a \o b) \o c) = 6 + Len(c)
    BY <1>3, <1>4, Then
  <2>2. QED
    BY <1>3, <2>1
<1>6. QED
  BY <1>1, <1>5

LEMMA FileIs ==
  ASSUME NEW f, WellFormed(f)
  PROVE  FileBytes(f) \in Seq(Nat) /\ FileLies(FileBytes(f), f)
<1>. DEFINE magic == <<202, 254, 186, 190>> \o U2(0) \o U2(50)
            cnt == U2(Len(Numbered(f.pool)) + 1)
            pool == Each(ItemBytes, f.pool)
            acc == U2(f.accessFlags)
            this == U2(f.thisClass)
            super == U2(f.superClass)
            icnt == U2(Len(f.interfaces))
            ifs == Each(U2, f.interfaces)
            fcnt == U2(Len(f.fields))
            fs == Each(MemberBytes, f.fields)
            mcnt == U2(Len(f.methods))
            ms == Each(MemberBytes, f.methods)
            acnt == U2(Len(f.attrs))
            as == Each(PlainBytes, f.attrs)
            i == ItemAt(f.pool, Len(f.pool))
            n == 2 * Len(f.interfaces)
            x == MemberAt(f.fields, Len(f.fields))
            y == MemberAt(f.methods, Len(f.methods))
            z == AttributeAt(f.attrs, Len(f.attrs))
<1>1. FileBytes(f) = ((((((((((((magic \o cnt) \o pool) \o acc) \o this) \o super)
                      \o icnt) \o ifs) \o fcnt) \o fs) \o mcnt) \o ms) \o acnt) \o as
  BY DEF FileBytes
<1>2. /\ FittingPool(f.pool) /\ f.pool \in Seq(PoolItems)
      /\ f.accessFlags \in Nat /\ f.thisClass \in Nat /\ f.superClass \in Nat
      /\ f.interfaces \in Seq(Nat) /\ f.attrs \in Seq(PlainAttributes)
  BY DEF WellFormed, FittingPool
<1>3. f.fields \in Seq(Members(AnyAttributes)) /\ f.methods \in Seq(Members(AnyAttributes))
  <2>1. f.fields \in Seq(Members(PlainAttributes))
    BY DEF WellFormed
  <2>2. f.methods \in Seq(Members(AnyAttributes))
    BY DEF WellFormed, AnyAttributes
  <2>3. QED
    BY <2>1, <2>2, FieldsAreMembers
<1>4. /\ Len(Numbered(f.pool)) + 1 \in Nat /\ Len(f.interfaces) \in Nat /\ Len(f.fields) \in Nat
      /\ Len(f.methods) \in Nat /\ Len(f.attrs) \in Nat
  <2>1. Len(Numbered(f.pool)) \in Nat
    BY <1>2, NumberedIs, SeqElements
  <2>2. Len(f.interfaces) \in Nat /\ Len(f.attrs) \in Nat
    BY <1>2, SeqElements
  <2>3. Len(f.fields) \in Nat /\ Len(f.methods) \in Nat
    BY <1>3, SeqElements
  <2>4. QED
    BY <2>1, <2>2, <2>3
<1>5. /\ cnt \in Seq(Nat) /\ Len(cnt) = 2
      /\ icnt \in Seq(Nat) /\ Len(icnt) = 2
      /\ fcnt \in Seq(Nat) /\ Len(fcnt) = 2
      /\ mcnt \in Seq(Nat) /\ Len(mcnt) = 2
      /\ acnt \in Seq(Nat) /\ Len(acnt) = 2
  <2>1. cnt \in Seq(Nat) /\ Len(cnt) = 2
    BY <1>4, Two
  <2>2. icnt \in Seq(Nat) /\ Len(icnt) = 2 /\ fcnt \in Seq(Nat) /\ Len(fcnt) = 2
    BY <1>4, Two
  <2>3. mcnt \in Seq(Nat) /\ Len(mcnt) = 2 /\ acnt \in Seq(Nat) /\ Len(acnt) = 2
    BY <1>4, Two
  <2>4. QED
    BY <2>1, <2>2, <2>3
<1>6. /\ acc \in Seq(Nat) /\ Len(acc) = 2
      /\ this \in Seq(Nat) /\ Len(this) = 2
      /\ super \in Seq(Nat) /\ Len(super) = 2
  BY <1>2, Two
<1>7. /\ pool \in Seq(Nat) /\ Len(pool) = i
      /\ \A w \in Seq(Nat) : \A p : At(w, p, pool) => ItemsLie(w, p, f.pool)
  <2>1. /\ ItemParts(f.pool) \in Seq(Seq(Nat)) /\ Len(ItemParts(f.pool)) = Len(f.pool)
        /\ pool = FlattenSeq(ItemParts(f.pool))
    BY <1>2, ItemsIs
  <2>. HIDE DEF pool
  <2>2. /\ pool \in Seq(Nat) /\ Len(pool) = Reach(ItemParts(f.pool), Len(f.pool))
        /\ \A w \in Seq(Nat) : \A p : At(w, p, pool) => Listed(w, p, ItemParts(f.pool))
    BY <2>1, ListedIs
  <2>3. ASSUME NEW w \in Seq(Nat), NEW p, At(w, p, pool) PROVE ItemsLie(w, p, f.pool)
    <3>1. p \in Nat /\ Listed(w, p, ItemParts(f.pool))
      BY <2>2, <2>3 DEF At
    <3>2. QED
      BY <1>2, <3>1, ItemsThere
  <2>4. QED
    BY <2>2, <2>3 DEF ItemAt
<1>8. /\ ifs \in Seq(Nat) /\ Len(ifs) = n
      /\ \A w \in Seq(Nat) : \A p : At(w, p, ifs) =>
           \A j \in 1..Len(f.interfaces) : At(w, p + 2 * (j - 1), U2(f.interfaces[j]))
  BY <1>2, EachTwo
<1>9. /\ fs \in Seq(Nat) /\ Len(fs) = x
      /\ \A w \in Seq(Nat) : \A p : At(w, p, fs) => MembersLie(w, p, f.fields)
  <2>1. /\ MemberParts(f.fields) \in Seq(Seq(Nat)) /\ Len(MemberParts(f.fields)) = Len(f.fields)
        /\ fs = FlattenSeq(MemberParts(f.fields))
    BY <1>3, MembersIs
  <2>. HIDE DEF fs
  <2>2. /\ fs \in Seq(Nat) /\ Len(fs) = Reach(MemberParts(f.fields), Len(f.fields))
        /\ \A w \in Seq(Nat) : \A p : At(w, p, fs) => Listed(w, p, MemberParts(f.fields))
    BY <2>1, ListedIs
  <2>3. ASSUME NEW w \in Seq(Nat), NEW p, At(w, p, fs) PROVE MembersLie(w, p, f.fields)
    <3>1. p \in Nat /\ Listed(w, p, MemberParts(f.fields))
      BY <2>2, <2>3 DEF At
    <3>2. QED
      BY <1>3, <3>1, MembersThere
  <2>4. QED
    BY <2>2, <2>3 DEF MemberAt
<1>10. /\ ms \in Seq(Nat) /\ Len(ms) = y
       /\ \A w \in Seq(Nat) : \A p : At(w, p, ms) => MembersLie(w, p, f.methods)
  <2>1. /\ MemberParts(f.methods) \in Seq(Seq(Nat))
        /\ Len(MemberParts(f.methods)) = Len(f.methods)
        /\ ms = FlattenSeq(MemberParts(f.methods))
    BY <1>3, MembersIs
  <2>. HIDE DEF ms
  <2>2. /\ ms \in Seq(Nat) /\ Len(ms) = Reach(MemberParts(f.methods), Len(f.methods))
        /\ \A w \in Seq(Nat) : \A p : At(w, p, ms) => Listed(w, p, MemberParts(f.methods))
    BY <2>1, ListedIs
  <2>3. ASSUME NEW w \in Seq(Nat), NEW p, At(w, p, ms) PROVE MembersLie(w, p, f.methods)
    <3>1. p \in Nat /\ Listed(w, p, MemberParts(f.methods))
      BY <2>2, <2>3 DEF At
    <3>2. QED
      BY <1>3, <3>1, MembersThere
  <2>4. QED
    BY <2>2, <2>3 DEF MemberAt
<1>11. /\ as \in Seq(Nat) /\ Len(as) = z
       /\ \A w \in Seq(Nat) : \A p : At(w, p, as) => AttributesLie(w, p, f.attrs)
  <2>1. /\ PlainParts(f.attrs) \in Seq(Seq(Nat)) /\ Len(PlainParts(f.attrs)) = Len(f.attrs)
        /\ as = FlattenSeq(PlainParts(f.attrs)) /\ PlainParts(f.attrs) = AttributeParts(f.attrs)
    BY <1>2, PlainsIs, PlainsAre
  <2>. HIDE DEF as
  <2>2. /\ as \in Seq(Nat) /\ Len(as) = Reach(PlainParts(f.attrs), Len(f.attrs))
        /\ \A w \in Seq(Nat) : \A p : At(w, p, as) => Listed(w, p, PlainParts(f.attrs))
    BY <2>1, ListedIs
  <2>3. ASSUME NEW w \in Seq(Nat), NEW p, At(w, p, as) PROVE AttributesLie(w, p, f.attrs)
    <3>1. p \in Nat /\ Listed(w, p, PlainParts(f.attrs))
      BY <2>2, <2>3 DEF At
    <3>2. QED
      BY <1>2, <3>1, PlainsThere
  <2>4. QED
    BY <2>1, <2>2, <2>3 DEF AttributeAt
<1>12. magic \in Seq(Nat) /\ Len(magic) = 8
  BY MagicIs
<1>. DEFINE X1 == magic \o cnt
            X2 == X1 \o pool
            X3 == X2 \o acc
            X4 == X3 \o this
            X5 == X4 \o super
            X6 == X5 \o icnt
            X7 == X6 \o ifs
            X8 == X7 \o fcnt
            X9 == X8 \o fs
            X10 == X9 \o mcnt
            X11 == X10 \o ms
            X12 == X11 \o acnt
            X13 == X12 \o as
<1>. HIDE DEF magic, cnt, pool, acc, this, super, icnt, ifs, fcnt, fs, mcnt, ms, acnt, as
<1>13. /\ i \in Nat /\ n \in Nat /\ x \in Nat /\ y \in Nat /\ z \in Nat
  BY <1>7, <1>8, <1>9, <1>10, <1>11, SeqElements
<1>. HIDE DEF i, n, x, y, z
<1>14. /\ X1 \in Seq(Nat) /\ Len(X1) = 10
       /\ \A w \in Seq(Nat) : \A p : At(w, p, X1) => At(w, p, magic) /\ At(w, p + 8, cnt)
  <2>1. /\ magic \o cnt \in Seq(Nat) /\ Len(magic \o cnt) = 8 + Len(cnt)
        /\ \A w \in Seq(Nat) : \A p :
             At(w, p, magic \o cnt) => At(w, p, magic) /\ At(w, p + 8, cnt)
    <3>1. magic \in Seq(Nat) /\ cnt \in Seq(Nat) /\ 8 = Len(magic)
      BY <1>5, <1>12
    <3>2. QED
      BY <3>1, Then
  <2>2. Len(cnt) = 2
    BY <1>5
  <2>3. QED
    BY <1>13, <2>1, <2>2
<1>. HIDE DEF X1
<1>15. /\ X2 \in Seq(Nat) /\ Len(X2) = 10 + i
       /\ \A w \in Seq(Nat) : \A p : At(w, p, X2) => At(w, p, X1) /\ At(w, p + 10, pool)
  <2>1. /\ X1 \o pool \in Seq(Nat) /\ Len(X1 \o pool) = 10 + Len(pool)
        /\ \A w \in Seq(Nat) : \A p :
             At(w, p, X1 \o pool) => At(w, p, X1) /\ At(w, p + 10, pool)
    <3>1. X1 \in Seq(Nat) /\ pool \in Seq(Nat) /\ 10 = Len(X1)
      BY <1>7, <1>14
    <3>2. QED
      BY <3>1, Then
  <2>2. Len(pool) = i
    BY <1>7
  <2>3. QED
    BY <1>13, <2>1, <2>2
<1>. HIDE DEF X2
<1>16. /\ X3 \in Seq(Nat) /\ Len(X3) = 12 + i
       /\ \A w \in Seq(Nat) : \A p : At(w, p, X3) => At(w, p, X2) /\ At(w, p + (10 + i), acc)
  <2>1. /\ X2 \o acc \in Seq(Nat) /\ Len(X2 \o acc) = (10 + i) + Len(acc)
        /\ \A w \in Seq(Nat) : \A p :
             At(w, p, X2 \o acc) => At(w, p, X2) /\ At(w, p + (10 + i), acc)
    <3>1. X2 \in Seq(Nat) /\ acc \in Seq(Nat) /\ (10 + i) = Len(X2)
      BY <1>6, <1>15
    <3>2. QED
      BY <3>1, Then
  <2>2. Len(acc) = 2
    BY <1>6
  <2>3. QED
    BY <1>13, <2>1, <2>2
<1>. HIDE DEF X3
<1>17. /\ X4 \in Seq(Nat) /\ Len(X4) = 14 + i
       /\ \A w \in Seq(Nat) : \A p : At(w, p, X4) => At(w, p, X3) /\ At(w, p + (12 + i), this)
  <2>1. /\ X3 \o this \in Seq(Nat) /\ Len(X3 \o this) = (12 + i) + Len(this)
        /\ \A w \in Seq(Nat) : \A p :
             At(w, p, X3 \o this) => At(w, p, X3) /\ At(w, p + (12 + i), this)
    <3>1. X3 \in Seq(Nat) /\ this \in Seq(Nat) /\ (12 + i) = Len(X3)
      BY <1>6, <1>16
    <3>2. QED
      BY <3>1, Then
  <2>2. Len(this) = 2
    BY <1>6
  <2>3. QED
    BY <1>13, <2>1, <2>2
<1>. HIDE DEF X4
<1>18. /\ X5 \in Seq(Nat) /\ Len(X5) = 16 + i
       /\ \A w \in Seq(Nat) : \A p : At(w, p, X5) => At(w, p, X4) /\ At(w, p + (14 + i), super)
  <2>1. /\ X4 \o super \in Seq(Nat) /\ Len(X4 \o super) = (14 + i) + Len(super)
        /\ \A w \in Seq(Nat) : \A p :
             At(w, p, X4 \o super) => At(w, p, X4) /\ At(w, p + (14 + i), super)
    <3>1. X4 \in Seq(Nat) /\ super \in Seq(Nat) /\ (14 + i) = Len(X4)
      BY <1>6, <1>17
    <3>2. QED
      BY <3>1, Then
  <2>2. Len(super) = 2
    BY <1>6
  <2>3. QED
    BY <1>13, <2>1, <2>2
<1>. HIDE DEF X5
<1>19. /\ X6 \in Seq(Nat) /\ Len(X6) = 18 + i
       /\ \A w \in Seq(Nat) : \A p : At(w, p, X6) => At(w, p, X5) /\ At(w, p + (16 + i), icnt)
  <2>1. /\ X5 \o icnt \in Seq(Nat) /\ Len(X5 \o icnt) = (16 + i) + Len(icnt)
        /\ \A w \in Seq(Nat) : \A p :
             At(w, p, X5 \o icnt) => At(w, p, X5) /\ At(w, p + (16 + i), icnt)
    <3>1. X5 \in Seq(Nat) /\ icnt \in Seq(Nat) /\ (16 + i) = Len(X5)
      BY <1>5, <1>18
    <3>2. QED
      BY <3>1, Then
  <2>2. Len(icnt) = 2
    BY <1>5
  <2>3. QED
    BY <1>13, <2>1, <2>2
<1>. HIDE DEF X6
<1>20. /\ X7 \in Seq(Nat) /\ Len(X7) = 18 + i + n
       /\ \A w \in Seq(Nat) : \A p : At(w, p, X7) => At(w, p, X6) /\ At(w, p + (18 + i), ifs)
  <2>1. /\ X6 \o ifs \in Seq(Nat) /\ Len(X6 \o ifs) = (18 + i) + Len(ifs)
        /\ \A w \in Seq(Nat) : \A p :
             At(w, p, X6 \o ifs) => At(w, p, X6) /\ At(w, p + (18 + i), ifs)
    <3>1. X6 \in Seq(Nat) /\ ifs \in Seq(Nat) /\ (18 + i) = Len(X6)
      BY <1>8, <1>19
    <3>2. QED
      BY <3>1, Then
  <2>2. Len(ifs) = n
    BY <1>8
  <2>3. QED
    BY <1>13, <2>1, <2>2
<1>. HIDE DEF X7
<1>21. /\ X8 \in Seq(Nat) /\ Len(X8) = 20 + i + n
       /\ \A w \in Seq(Nat) : \A p : At(w, p, X8) => At(w, p, X7) /\ At(w, p + (18 + i + n), fcnt)
  <2>1. /\ X7 \o fcnt \in Seq(Nat) /\ Len(X7 \o fcnt) = (18 + i + n) + Len(fcnt)
        /\ \A w \in Seq(Nat) : \A p :
             At(w, p, X7 \o fcnt) => At(w, p, X7) /\ At(w, p + (18 + i + n), fcnt)
    <3>1. X7 \in Seq(Nat) /\ fcnt \in Seq(Nat) /\ (18 + i + n) = Len(X7)
      BY <1>5, <1>20
    <3>2. QED
      BY <3>1, Then
  <2>2. Len(fcnt) = 2
    BY <1>5
  <2>3. QED
    BY <1>13, <2>1, <2>2
<1>. HIDE DEF X8
<1>22. /\ X9 \in Seq(Nat) /\ Len(X9) = 20 + i + n + x
       /\ \A w \in Seq(Nat) : \A p : At(w, p, X9) => At(w, p, X8) /\ At(w, p + (20 + i + n), fs)
  <2>1. /\ X8 \o fs \in Seq(Nat) /\ Len(X8 \o fs) = (20 + i + n) + Len(fs)
        /\ \A w \in Seq(Nat) : \A p :
             At(w, p, X8 \o fs) => At(w, p, X8) /\ At(w, p + (20 + i + n), fs)
    <3>1. X8 \in Seq(Nat) /\ fs \in Seq(Nat) /\ (20 + i + n) = Len(X8)
      BY <1>9, <1>21
    <3>2. QED
      BY <3>1, Then
  <2>2. Len(fs) = x
    BY <1>9
  <2>3. QED
    BY <1>13, <2>1, <2>2
<1>. HIDE DEF X9
<1>23. /\ X10 \in Seq(Nat) /\ Len(X10) = 22 + i + n + x
       /\ \A w \in Seq(Nat) : \A p :
            At(w, p, X10) => At(w, p, X9) /\ At(w, p + (20 + i + n + x), mcnt)
  <2>1. /\ X9 \o mcnt \in Seq(Nat) /\ Len(X9 \o mcnt) = (20 + i + n + x) + Len(mcnt)
        /\ \A w \in Seq(Nat) : \A p :
             At(w, p, X9 \o mcnt) => At(w, p, X9) /\ At(w, p + (20 + i + n + x), mcnt)
    <3>1. X9 \in Seq(Nat) /\ mcnt \in Seq(Nat) /\ (20 + i + n + x) = Len(X9)
      BY <1>5, <1>22
    <3>2. QED
      BY <3>1, Then
  <2>2. Len(mcnt) = 2
    BY <1>5
  <2>3. QED
    BY <1>13, <2>1, <2>2
<1>. HIDE DEF X10
<1>24. /\ X11 \in Seq(Nat) /\ Len(X11) = 22 + i + n + x + y
       /\ \A w \in Seq(Nat) : \A p :
            At(w, p, X11) => At(w, p, X10) /\ At(w, p + (22 + i + n + x), ms)
  <2>1. /\ X10 \o ms \in Seq(Nat) /\ Len(X10 \o ms) = (22 + i + n + x) + Len(ms)
        /\ \A w \in Seq(Nat) : \A p :
             At(w, p, X10 \o ms) => At(w, p, X10) /\ At(w, p + (22 + i + n + x), ms)
    <3>1. X10 \in Seq(Nat) /\ ms \in Seq(Nat) /\ (22 + i + n + x) = Len(X10)
      BY <1>10, <1>23
    <3>2. QED
      BY <3>1, Then
  <2>2. Len(ms) = y
    BY <1>10
  <2>3. QED
    BY <1>13, <2>1, <2>2
<1>. HIDE DEF X11
<1>25. /\ X12 \in Seq(Nat) /\ Len(X12) = 24 + i + n + x + y
       /\ \A w \in Seq(Nat) : \A p : At(w, p, X12)
               => At(w, p, X11) /\ At(w, p + (22 + i + n + x + y), acnt)
  <2>1. /\ X11 \o acnt \in Seq(Nat) /\ Len(X11 \o acnt) = (22 + i + n + x + y) + Len(acnt)
        /\ \A w \in Seq(Nat) : \A p :
             At(w, p, X11 \o acnt) => At(w, p, X11) /\ At(w, p + (22 + i + n + x + y), acnt)
    <3>1. X11 \in Seq(Nat) /\ acnt \in Seq(Nat) /\ (22 + i + n + x + y) = Len(X11)
      BY <1>5, <1>24
    <3>2. QED
      BY <3>1, Then
  <2>2. Len(acnt) = 2
    BY <1>5
  <2>3. QED
    BY <1>13, <2>1, <2>2
<1>. HIDE DEF X12
<1>26. /\ X13 \in Seq(Nat) /\ Len(X13) = 24 + i + n + x + y + z
       /\ \A w \in Seq(Nat) : \A p : At(w, p, X13)
               => At(w, p, X12) /\ At(w, p + (24 + i + n + x + y), as)
  <2>1. /\ X12 \o as \in Seq(Nat) /\ Len(X12 \o as) = (24 + i + n + x + y) + Len(as)
        /\ \A w \in Seq(Nat) : \A p :
             At(w, p, X12 \o as) => At(w, p, X12) /\ At(w, p + (24 + i + n + x + y), as)
    <3>1. X12 \in Seq(Nat) /\ as \in Seq(Nat) /\ (24 + i + n + x + y) = Len(X12)
      BY <1>11, <1>25
    <3>2. QED
      BY <3>1, Then
  <2>2. Len(as) = z
    BY <1>11
  <2>3. QED
    BY <1>13, <2>1, <2>2
<1>. HIDE DEF X13
<1>27. FileBytes(f) = X13
  BY <1>1 DEF X1, X2, X3, X4, X5, X6, X7, X8, X9, X10, X11, X12, X13
<1>. DEFINE w == X13
<1>28. w \in Seq(Nat) /\ At(w, 0, w)
  <2>1. w \in Seq(Nat)
    BY <1>26
  <2>. HIDE DEF w
  <2>2. Len(w) \in Nat /\ \A j \in 1..Len(w) : 0 + j = j
    BY <2>1
  <2>3. QED
    BY <2>1, <2>2 DEF At
<1>. HIDE DEF w
<1>29. At(w, 0, X13)
  BY <1>28 DEF w
<1>30. At(w, 0, X12) /\ At(w, 0 + (24 + i + n + x + y), as)
  BY <1>28, <1>26, <1>29
<1>31. At(w, 0, X11) /\ At(w, 0 + (22 + i + n + x + y), acnt)
  BY <1>28, <1>25, <1>30
<1>32. At(w, 0, X10) /\ At(w, 0 + (22 + i + n + x), ms)
  BY <1>28, <1>24, <1>31
<1>33. At(w, 0, X9) /\ At(w, 0 + (20 + i + n + x), mcnt)
  BY <1>28, <1>23, <1>32
<1>34. At(w, 0, X8) /\ At(w, 0 + (20 + i + n), fs)
  BY <1>28, <1>22, <1>33
<1>35. At(w, 0, X7) /\ At(w, 0 + (18 + i + n), fcnt)
  BY <1>28, <1>21, <1>34
<1>36. At(w, 0, X6) /\ At(w, 0 + (18 + i), ifs)
  BY <1>28, <1>20, <1>35
<1>37. At(w, 0, X5) /\ At(w, 0 + (16 + i), icnt)
  BY <1>28, <1>19, <1>36
<1>38. At(w, 0, X4) /\ At(w, 0 + (14 + i), super)
  BY <1>28, <1>18, <1>37
<1>39. At(w, 0, X3) /\ At(w, 0 + (12 + i), this)
  BY <1>28, <1>17, <1>38
<1>40. At(w, 0, X2) /\ At(w, 0 + (10 + i), acc)
  BY <1>28, <1>16, <1>39
<1>41. At(w, 0, X1) /\ At(w, 0 + 10, pool)
  BY <1>28, <1>15, <1>40
<1>42. At(w, 0, magic) /\ At(w, 0 + 8, cnt)
  BY <1>28, <1>14, <1>41
<1>43. /\ ParametersAt(f) = 10 + i /\ FieldsAt(f) = 20 + i + n
      /\ MethodsAt(f) = 22 + i + n + x /\ AttrsAt(f) = 24 + i + n + x + y
  <2>1. ParametersAt(f) = 10 + i
    BY DEF ParametersAt, i
  <2>2. FieldsAt(f) = ParametersAt(f) + 8 + n + 2
    BY DEF FieldsAt, n
  <2>3. MethodsAt(f) = FieldsAt(f) + x + 2
    BY DEF MethodsAt, x
  <2>4. AttrsAt(f) = MethodsAt(f) + y + 2
    BY DEF AttrsAt, y
  <2>5. QED
    BY <1>13, <2>1, <2>2, <2>3, <2>4
<1>44. /\ ParametersAt(f) \in Nat /\ FieldsAt(f) \in Nat
       /\ MethodsAt(f) \in Nat /\ AttrsAt(f) \in Nat
  BY <1>13, <1>43
<1>45. /\ 0 + 8 = 8
       /\ 0 + 10 = 10
       /\ 0 + (10 + i) = ParametersAt(f)
       /\ 0 + (12 + i) = ParametersAt(f) + 2
       /\ 0 + (14 + i) = ParametersAt(f) + 4
       /\ 0 + (16 + i) = ParametersAt(f) + 6
       /\ 0 + (18 + i) = ParametersAt(f) + 8
       /\ 0 + (18 + i + n) = FieldsAt(f) - 2
       /\ 0 + (20 + i + n) = FieldsAt(f)
       /\ 0 + (20 + i + n + x) = MethodsAt(f) - 2
       /\ 0 + (22 + i + n + x) = MethodsAt(f)
       /\ 0 + (22 + i + n + x + y) = AttrsAt(f) - 2
       /\ 0 + (24 + i + n + x + y) = AttrsAt(f)
  BY <1>13, <1>43
<1>46. At(w, 8, cnt)
  BY <1>42, <1>45
<1>47. At(w, 10, pool)
  BY <1>41, <1>45
<1>48. At(w, ParametersAt(f), acc)
  BY <1>40, <1>45
<1>49. At(w, ParametersAt(f) + 2, this)
  BY <1>39, <1>45
<1>50. At(w, ParametersAt(f) + 4, super)
  BY <1>38, <1>45
<1>51. At(w, ParametersAt(f) + 6, icnt)
  BY <1>37, <1>45
<1>52. At(w, ParametersAt(f) + 8, ifs)
  BY <1>36, <1>45
<1>53. At(w, FieldsAt(f) - 2, fcnt)
  BY <1>35, <1>45
<1>54. At(w, FieldsAt(f), fs)
  BY <1>34, <1>45
<1>55. At(w, MethodsAt(f) - 2, mcnt)
  BY <1>33, <1>45
<1>56. At(w, MethodsAt(f), ms)
  BY <1>32, <1>45
<1>57. At(w, AttrsAt(f) - 2, acnt)
  BY <1>31, <1>45
<1>58. At(w, AttrsAt(f), as)
  BY <1>30, <1>45
<1>59. ItemsLie(w, 10, f.pool)
  BY <1>7, <1>28, <1>47
<1>60. \A j \in 1..Len(f.interfaces) :
          At(w, (ParametersAt(f) + 8) + 2 * (j - 1), U2(f.interfaces[j]))
  BY <1>8, <1>28, <1>52
<1>61. MembersLie(w, FieldsAt(f), f.fields)
  BY <1>9, <1>28, <1>54
<1>62. MembersLie(w, MethodsAt(f), f.methods)
  BY <1>10, <1>28, <1>56
<1>63. AttributesLie(w, AttrsAt(f), f.attrs)
  BY <1>11, <1>28, <1>58
<1>64. Len(w) = AttrsAt(f) + z
  BY <1>13, <1>26, <1>43 DEF w
<1>65. FileLies(w, f)
  BY <1>44, <1>46, <1>48, <1>49, <1>50, <1>51, <1>53, <1>55, <1>57, <1>59, <1>60, <1>61,
     <1>62, <1>63, <1>64
     DEF FileLies, z, cnt, acc, this, super, icnt, fcnt, mcnt, acnt
<1>66. QED
  BY <1>27, <1>28, <1>65 DEF w

-----------------------------------------------------------------------------
(* The inductive invariant: how far the loader is, and that what it has    *)
(* written down so far is what stands in the file up to there.             *)

(* The bytes there are; the file may have been cut. *)
FileRead ==
  /\ file \in Files
  /\ data \in Seq(Nat) /\ Len(data) <= Len(FileBytes(file))
  /\ \A j \in 1..Len(data) : data[j] = FileBytes(file)[j]

Parts == {"poolCnt", "pool", "accessFlags", "thisClass", "superClass", "interfaces",
          "fields", "methods", "attrs"}
Shape(c) == DOMAIN c = Parts /\ c = [x \in Parts |-> c[x]]

Places ==
  /\ pos \in Nat /\ pos <= Len(data)
  /\ left \in [1..3 -> Nat]
  /\ Shape(class)
  /\ class.poolCnt > 0 => Len(class.pool) < class.poolCnt

HeaderAhead ==
  phase = "header" =>
    /\ pos = 0 /\ left = <<0, 0, 0>> /\ class.poolCnt = 0 /\ class.pool = <<>>
    /\ class.fields = <<>> /\ class.methods = <<>> /\ class.attrs = <<>>

PoolBehind(k) ==
  /\ pos = 10 + ItemAt(file.pool, k)
  /\ class.pool = FlattenSeq(Upto(NumberParts(file.pool), k))
  /\ \A j \in 1..k : file.pool[j].tag \in Known

PoolAhead ==
  phase = "pool" =>
    /\ left = <<0, 0, 0>> /\ class.poolCnt = Len(Numbered(file.pool)) + 1
    /\ class.fields = <<>> /\ class.methods = <<>> /\ class.attrs = <<>>
    /\ \E k \in 0..Len(file.pool) : PoolBehind(k)

ParametersBehind ==
  phase \in {"fields", "methods", "attributes"} =>
    /\ class.poolCnt = Len(class.pool) + 1
    /\ class.pool = Numbered(file.pool)
    /\ class.accessFlags = file.accessFlags
    /\ class.thisClass = file.thisClass /\ class.superClass = file.superClass
    /\ class.interfaces = file.interfaces

(* The first k attributes, of a member of which n were seen. *)
PlainCopy(a) == [nameIndex |-> a.nameIndex, info |-> a.info]
PlainCopies(as, k) == [j \in 1..k |-> PlainCopy(as[j])]

FieldCopy(g, k) ==
  [accessFlags |-> g.accessFlags, nameIndex |-> g.nameIndex, descIndex |-> g.descIndex,
   attrs |-> PlainCopies(g.attrs, k)]

FieldCopies(gs, n, k) ==
  [j \in 1..n |-> FieldCopy(gs[j], IF j = n THEN k ELSE Len(gs[j].attrs))]

AttrsOf(gs, n) == IF n = 0 THEN <<>> ELSE gs[n].attrs

(* How many bytes of the members are behind. *)
Within(gs, n, k) ==
  IF n = 0 THEN 0 ELSE MemberAt(gs, n - 1) + 8 + AttributeAt(gs[n].attrs, k)

FieldsBehind(n, k) ==
  /\ class.fields = FieldCopies(file.fields, n, k)
  /\ left = <<Len(file.fields) - n, Len(AttrsOf(file.fields, n)) - k, 0>>
  /\ pos = FieldsAt(file) + Within(file.fields, n, k)

FieldsAhead ==
  phase = "fields" =>
    /\ class.methods = <<>> /\ class.attrs = <<>>
    /\ \E n \in 0..Len(file.fields) :
         \E k \in 0..Len(AttrsOf(file.fields, n)) : FieldsBehind(n, k)

FieldsRight ==
  phase \in {"methods", "attributes"} => SameList(SameField, class.fields, file.fields)

(* The attribute called Code leaves a blank entry behind, and the code. *)
MethodCopy(a) ==
  IF a.code = NoCode THEN PlainCopy(a) ELSE [nameIndex |-> 0, info |-> <<>>]
MethodCopies(as, k) == [j \in 1..k |-> MethodCopy(as[j])]

CodeCopy(a, base, l) ==
  [attrNameIndex |-> a.nameIndex, attrLength |-> Len(CodeBytes(a.code)),
   maxStack |-> a.code.maxStack, maxLocals |-> a.code.maxLocals,
   codeLength |-> Len(a.code.code), base |-> base, code |-> Block(base, a.code.code),
   eTable |-> a.code.eTable, attrs |-> PlainCopies(a.code.attrs, l)]

OwnCount(as, k) == IF k = 0 \/ as[k].code = NoCode THEN 0 ELSE Len(as[k].code.attrs)

CodeRight(code, as, k, l) ==
  \/ code = NoCode /\ \A j \in 1..k : as[j].code = NoCode
  \/ \E j \in 1..k : \E base \in Bases :
       /\ as[j].code # NoCode
       /\ code = CodeCopy(as[j], base, IF j = k THEN l ELSE Len(as[j].code.attrs))

MethodRight(f, g, k, l) ==
  /\ f = [accessFlags |-> g.accessFlags, nameIndex |-> g.nameIndex, descIndex |-> g.descIndex,
          attrs |-> MethodCopies(g.attrs, k), code |-> f.code]
  /\ CodeRight(f.code, g.attrs, k, l)

MethodWhole(f, g) == MethodRight(f, g, Len(g.attrs), OwnCount(g.attrs, Len(g.attrs)))

(* Behind k attributes, or l of those of the code that is the k-th. *)
InAttributes(as, k, l) ==
  IF k = 0 \/ as[k].code = NoCode THEN AttributeAt(as, k)
  ELSE AttributeAt(as, k - 1) + 6 + OwnAt(as[k].code, l)

InMethods(gs, n, k, l) ==
  IF n = 0 THEN 0 ELSE MemberAt(gs, n - 1) + 8 + InAttributes(gs[n].attrs, k, l)

MethodsBehind(n, k, l) ==
  /\ class.methods = [j \in 1..n |-> class.methods[j]]
  /\ \A j \in 1..(n - 1) : MethodWhole(class.methods[j], file.methods[j])
  /\ n > 0 => MethodRight(class.methods[n], file.methods[n], k, l)
  /\ left = <<Len(file.methods) - n, Len(AttrsOf(file.methods, n)) - k,
              OwnCount(AttrsOf(file.methods, n), k) - l>>
  /\ pos = MethodsAt(file) + InMethods(file.methods, n, k, l)

MethodsAhead ==
  phase = "methods" =>
    /\ class.attrs = <<>>
    /\ \E n \in 0..Len(file.methods) :
         \E k \in 0..Len(AttrsOf(file.methods, n)) :
           \E l \in 0..OwnCount(AttrsOf(file.methods, n), k) : MethodsBehind(n, k, l)

MethodsRight ==
  phase = "attributes" => SameList(SameMethod, class.methods, file.methods)

AttributesBehind(k) ==
  /\ class.attrs = PlainCopies(file.attrs, k)
  /\ left = <<Len(file.attrs) - k, 0, 0>>
  /\ pos = AttrsAt(file) + AttributeAt(file.attrs, k)

AttributesAhead ==
  phase = "attributes" => \E k \in 0..Len(file.attrs) : AttributesBehind(k)

Inv ==
  /\ phase \in Over \cup {"header", "pool", "fields", "methods", "attributes"}
  /\ FileRead
  /\ Places
  /\ HeaderAhead
  /\ PoolAhead
  /\ ParametersBehind
  /\ FieldsAhead
  /\ FieldsRight
  /\ MethodsAhead
  /\ MethodsRight
  /\ AttributesAhead
  /\ RoundTrip
  /\ RefusedWithReason

-----------------------------------------------------------------------------
(* What the reads of ms.c give where something is known to lie.            *)

W == FileBytes(file)

LEMMA Here ==
  ASSUME FileRead
  PROVE  /\ WellFormed(file) /\ W \in Seq(Nat) /\ FileLies(W, file) /\ Len(W) \in Nat
         /\ Len(data) \in Nat /\ Len(data) <= Len(W)
<1>1. WellFormed(file)
  BY FileAssumption DEF FileRead
<1>2. W \in Seq(Nat) /\ FileLies(W, file)
  BY <1>1, FileIs DEF W
<1>3. QED
  BY <1>1, <1>2, SeqElements DEF FileRead, W

LEMMA ReadNat ==
  ASSUME FileRead, NEW p \in Nat
  PROVE  /\ Byte(p) \in Nat /\ msRead16(p) \in Nat /\ msRead32(p) \in Nat
<1>1. ASSUME NEW q \in Nat PROVE Byte(q) \in Nat
  <2>1. Len(data) \in Nat /\ \A j \in 1..Len(data) : data[j] \in Nat
    BY SeqElements DEF FileRead
  <2>2. QED
    BY <1>1, <2>1 DEF Byte
<1>2. ASSUME NEW q \in Nat PROVE msRead16(q) \in Nat
  BY <1>1, <1>2 DEF msRead16
<1>3. msRead16(p + 2) \in Nat
  BY <1>2
<1>4. QED
  BY <1>1, <1>2, <1>3 DEF msRead32

LEMMA ReadOne ==
  ASSUME FileRead, NEW p, NEW v, At(W, p, <<v>>), p + 1 <= Len(data)
  PROVE  Byte(p) = v
<1>1. Len(data) \in Nat /\ p \in Nat
  BY SeqElements DEF FileRead, At
<1>2. W[p + 1] = v
  BY DEF At
<1>3. data[p + 1] = W[p + 1]
  BY <1>1 DEF FileRead, W
<1>4. QED
  BY <1>1, <1>2, <1>3 DEF Byte

LEMMA ReadTwo ==
  ASSUME FileRead, NEW p, NEW v \in Nat, At(W, p, U2(v)), p + 2 <= Len(data)
  PROVE  msRead16(p) = v
<1>1. Len(data) \in Nat /\ p \in Nat
  BY SeqElements DEF FileRead, At
<1>2. /\ Len(U2(v)) = 2 /\ U2(v)[1] = v \div 256 /\ U2(v)[2] = v % 256
      /\ v \div 256 \in Nat /\ v % 256 \in Nat /\ v = 256 * (v \div 256) + (v % 256)
  BY Two
<1>3. W[p + 1] = v \div 256 /\ W[p + 2] = v % 256
  BY <1>2 DEF At
<1>4. data[p + 1] = W[p + 1] /\ data[p + 2] = W[p + 2]
  BY <1>1 DEF FileRead, W
<1>5. Byte(p) = v \div 256 /\ Byte(p + 1) = v % 256
  <2>1. p < Len(data) /\ p + 1 < Len(data) /\ (p + 1) + 1 = p + 2
    BY <1>1
  <2>2. QED
    BY <1>3, <1>4, <2>1 DEF Byte
<1>6. QED
  BY <1>2, <1>5 DEF msRead16

LEMMA ReadFour ==
  ASSUME FileRead, NEW p, NEW v \in Nat, At(W, p, U4(v)), p + 4 <= Len(data)
  PROVE  msRead32(p) = v
<1>1. Len(data) \in Nat /\ p \in Nat /\ W \in Seq(Nat)
  BY Here DEF At
<1>2. /\ v \div 65536 \in Nat /\ v % 65536 \in Nat /\ v = 65536 * (v \div 65536) + (v % 65536)
      /\ At(W, p, U2(v \div 65536)) /\ At(W, p + 2, U2(v % 65536))
  BY <1>1, Four
<1>3. p + 2 <= Len(data) /\ (p + 2) + 2 <= Len(data)
  BY <1>1
<1>4. msRead16(p) = v \div 65536
  BY <1>2, <1>3, ReadTwo
<1>5. msRead16(p + 2) = v % 65536
  BY <1>2, <1>3, ReadTwo
<1>6. QED
  BY <1>2, <1>4, <1>5 DEF msRead32

LEMMA CutIs ==
  ASSUME NEW S, NEW s \in Seq(S), NEW p \in Nat, NEW n \in Nat, p + n <= Len(s)
  PROVE  /\ SubSeq(s, p + 1, p + n) \in Seq(S) /\ Len(SubSeq(s, p + 1, p + n)) = n
         /\ \A j \in 1..n : SubSeq(s, p + 1, p + n)[j] = s[p + j]
<1>1. SubSeq(s, p + 1, p + n) \in Seq(S)
  OBVIOUS
<1>2. Len(SubSeq(s, p + 1, p + n)) = n
  OBVIOUS
<1>3. ASSUME NEW j \in 1..n PROVE SubSeq(s, p + 1, p + n)[j] = s[p + j]
  OBVIOUS
<1>4. QED
  BY <1>1, <1>2, <1>3

LEMMA ReadBytes ==
  ASSUME FileRead, NEW p, NEW s \in Seq(Nat), At(W, p, s), p + Len(s) <= Len(data)
  PROVE  msRead(p, Len(s)) = s
<1>1. Len(data) \in Nat /\ p \in Nat /\ Len(s) \in Nat /\ data \in Seq(Nat)
  BY SeqElements DEF FileRead, At
<1>. DEFINE t == SubSeq(data, p + 1, p + Len(s))
<1>2. t \in Seq(Nat) /\ Len(t) = Len(s) /\ \A j \in 1..Len(s) : t[j] = data[p + j]
  BY <1>1, CutIs
<1>3. ASSUME NEW j \in 1..Len(s) PROVE t[j] = s[j]
  <2>1. t[j] = data[p + j]
    BY <1>2
  <2>2. p + j \in 1..Len(data)
    BY <1>1
  <2>3. data[p + j] = W[p + j]
    BY <2>2 DEF FileRead, W
  <2>4. W[p + j] = s[j]
    BY DEF At
  <2>5. QED
    BY <2>1, <2>3, <2>4
<1>. HIDE DEF t
<1>4. t = s
  BY <1>2, <1>3, SameSeq
<1>5. QED
  BY <1>4 DEF msRead, t

LEMMA ReadAttribute ==
  ASSUME FileRead, NEW p, NEW a \in AnyAttributes, a.code = NoCode, AttributeLies(W, p, a)
  PROVE  /\ AttributeSize(p) \in Nat /\ AttributeSize(p) >= 6
         /\ AttributeLength(a) \in Nat /\ AttributeLength(a) >= 6 /\ p \in Nat
         /\ p + AttributeSize(p) <= Len(data) \/ p + AttributeLength(a) <= Len(data) =>
              AttributeSize(p) = AttributeLength(a) /\ Attribute(p) = PlainCopy(a)
<1>1. /\ At(W, p, U2(a.nameIndex)) /\ At(W, p + 2, U4(Len(a.info))) /\ At(W, p + 6, a.info)
      /\ AttributeLength(a) = 6 + Len(a.info)
  BY DEF AttributeLies, AttributeLength
<1>2. p \in Nat /\ Len(data) \in Nat
  BY <1>1, Here DEF At
<1>3. a.nameIndex \in Nat /\ a.info \in Seq(Nat) /\ Len(a.info) \in Nat
  BY CodesHaveCode, SeqElements
<1>4. msRead32(p + 2) \in Nat
  <2>1. p + 2 \in Nat
    BY <1>2
  <2>2. QED
    BY <2>1, ReadNat
<1>5. AttributeSize(p) = 6 + msRead32(p + 2)
  BY DEF AttributeSize
<1>6. ASSUME p + AttributeSize(p) <= Len(data) \/ p + AttributeLength(a) <= Len(data)
      PROVE  AttributeSize(p) = AttributeLength(a) /\ Attribute(p) = PlainCopy(a)
  <2>1. p + 2 <= Len(data) /\ (p + 2) + 4 <= Len(data)
    BY <1>1, <1>2, <1>3, <1>4, <1>5, <1>6
  <2>2. msRead16(p) = a.nameIndex
    BY <1>1, <1>3, <2>1, ReadTwo
  <2>3. msRead32(p + 2) = Len(a.info)
    BY <1>1, <1>3, <2>1, ReadFour
  <2>4. (p + 6) + Len(a.info) <= Len(data)
    <3>1. AttributeSize(p) = 6 + Len(a.info)
      BY <1>5, <2>3
    <3>2. p + (6 + Len(a.info)) <= Len(data)
      BY <1>1, <1>6, <3>1
    <3>3. Len(a.info) \in Nat
      BY <1>3
    <3>4. \A x, y, d \in Nat : x + (6 + y) <= d => (x + 6) + y <= d
      OBVIOUS
    <3>5. QED
      BY <1>2, <3>2, <3>3, <3>4
  <2>5. msRead(p + 6, Len(a.info)) = a.info
    BY <1>1, <1>3, <2>4, ReadBytes
  <2>6. QED
    BY <1>1, <1>5, <2>2, <2>3, <2>5 DEF Attribute, PlainCopy
<1>7. QED
  BY <1>1, <1>2, <1>3, <1>4, <1>5, <1>6

-----------------------------------------------------------------------------
(* What a step does to the invariant whatever it reads.                    *)

LEMMA EndKeeps ==
  ASSUME Inv, NEW how, Ends(how),
         \/ how = "crashed"
         \/ how = "outside" /\ Len(data) < Len(W)
         \/ how = "exit1" /\ \E j \in DOMAIN file.pool : file.pool[j].tag \notin Known
  PROVE  Inv'
<1>1. UNCHANGED <<file, data, pos, left, class>> /\ phase' = how
  BY DEF Ends
<1>2. phase' \in {"crashed", "outside", "exit1"}
  BY <1>1
<1>3. FileRead' /\ Places'
  BY <1>1 DEF Inv, FileRead, Places, Shape
<1>4. HeaderAhead' /\ PoolAhead' /\ ParametersBehind' /\ FieldsAhead' /\ FieldsRight'
  BY <1>2 DEF HeaderAhead, PoolAhead, ParametersBehind, FieldsAhead, FieldsRight
<1>5. MethodsAhead' /\ MethodsRight' /\ AttributesAhead' /\ RoundTrip'
  BY <1>2 DEF MethodsAhead, MethodsRight, AttributesAhead, RoundTrip
<1>6. RefusedWithReason'
  BY <1>1 DEF RefusedWithReason, W
<1>7. phase' \in Over
  BY <1>2 DEF Over
<1>8. QED
  BY <1>3, <1>4, <1>5, <1>6, <1>7 DEF Inv

(* A step that should read up to the byte e, and does if all before e or   *)
(* all that it does read is there.                                         *)
LEMMA StepKeeps ==
  ASSUME Inv, NEW end \in Nat, NEW memory, NEW nphase, NEW nleft, NEW nclass,
         Step(end, memory, nphase, nleft, nclass),
         NEW e \in Nat, e <= Len(W), e <= Len(data) \/ end <= Len(data) => end = e
  PROVE  \/ Inv'
         \/ /\ e <= Len(data) /\ end = e
            /\ pos' = e /\ phase' = nphase /\ left' = nleft /\ class' = nclass
            /\ UNCHANGED <<file, data>> /\ FileRead'
<1>1. FileRead /\ Len(data) \in Nat /\ Len(W) \in Nat
  BY Here DEF Inv
<1>2. CASE memory > 0 /\ Ends("crashed")
  BY <1>2, EndKeeps
<1>3. CASE end > Len(data) /\ Ends("outside")
  <2>1. Len(data) < Len(W)
    BY <1>1, <1>3
  <2>2. QED
    BY <1>3, <2>1, EndKeeps
<1>4. CASE ~(memory > 0 /\ Ends("crashed")) /\ ~(end > Len(data) /\ Ends("outside"))
  <2>1. /\ end <= Len(data) /\ pos' = end /\ phase' = nphase /\ left' = nleft
        /\ class' = nclass /\ UNCHANGED <<file, data>>
    BY <1>4 DEF Step
  <2>2. end = e
    BY <2>1
  <2>3. FileRead'
    BY <1>1, <2>1 DEF FileRead
  <2>4. QED
    BY <2>1, <2>2, <2>3
<1>5. QED
  BY <1>2, <1>3, <1>4

(* The places after a step that was followed. *)
LEMMA PlacesKept ==
  ASSUME FileRead, NEW e \in Nat, e <= Len(data), pos' = e, UNCHANGED <<file, data>>,
         NEW a \in Nat, NEW b \in Nat, NEW c \in Nat, left' = <<a, b, c>>, Shape(class'),
         Len(class'.pool) < class'.poolCnt
  PROVE  Places'
BY DEF Places

LEMMA ToPool ==
  ASSUME FileRead', Places', phase' = "pool", PoolAhead'
  PROVE  Inv'
BY DEF Inv, Over, HeaderAhead, ParametersBehind, FieldsAhead, FieldsRight, MethodsAhead,
       MethodsRight, AttributesAhead, RoundTrip, RefusedWithReason

LEMMA ToFields ==
  ASSUME FileRead', Places', phase' = "fields", ParametersBehind', FieldsAhead'
  PROVE  Inv'
BY DEF Inv, Over, HeaderAhead, PoolAhead, FieldsRight, MethodsAhead,
       MethodsRight, AttributesAhead, RoundTrip, RefusedWithReason

LEMMA ToMethods ==
  ASSUME FileRead', Places', phase' = "methods", ParametersBehind', FieldsRight', MethodsAhead'
  PROVE  Inv'
BY DEF Inv, Over, HeaderAhead, PoolAhead, FieldsAhead,
       MethodsRight, AttributesAhead, RoundTrip, RefusedWithReason

LEMMA ToAttributes ==
  ASSUME FileRead', Places', phase' = "attributes", ParametersBehind', FieldsRight',
         MethodsRight', AttributesAhead'
  PROVE  Inv'
BY DEF Inv, Over, HeaderAhead, PoolAhead, FieldsAhead, MethodsAhead, RoundTrip,
       RefusedWithReason

(* What a step writes into the class. *)
LEMMA WithCount ==
  ASSUME Shape(class), NEW x, class' = [class EXCEPT !.poolCnt = x]
  PROVE  /\ Shape(class') /\ class'.poolCnt = x
         /\ class'.pool = class.pool /\ class'.fields = class.fields
         /\ class'.methods = class.methods /\ class'.attrs = class.attrs
         /\ class'.accessFlags = class.accessFlags /\ class'.thisClass = class.thisClass
         /\ class'.superClass = class.superClass /\ class'.interfaces = class.interfaces
<1>1. class = [f \in Parts |-> class[f]] /\ DOMAIN class = Parts
  BY DEF Shape
<1>2. class' = [f \in Parts |-> class'[f]] /\ DOMAIN class' = Parts
  BY <1>1
<1>3. class'.poolCnt = x
  BY <1>1 DEF Parts
<1>4. \A f \in Parts : f # "poolCnt" => class'[f] = class[f]
  BY <1>1
<1>5. QED
  BY <1>2, <1>3, <1>4 DEF Shape, Parts

LEMMA WithPool ==
  ASSUME Shape(class), NEW x, class' = [class EXCEPT !.pool = x]
  PROVE  /\ Shape(class') /\ class'.pool = x
         /\ class'.poolCnt = class.poolCnt /\ class'.fields = class.fields
         /\ class'.methods = class.methods /\ class'.attrs = class.attrs
         /\ class'.accessFlags = class.accessFlags /\ class'.thisClass = class.thisClass
         /\ class'.superClass = class.superClass /\ class'.interfaces = class.interfaces
<1>1. class = [f \in Parts |-> class[f]] /\ DOMAIN class = Parts
  BY DEF Shape
<1>2. class' = [f \in Parts |-> class'[f]] /\ DOMAIN class' = Parts
  BY <1>1
<1>3. class'.pool = x
  BY <1>1 DEF Parts
<1>4. \A f \in Parts : f # "pool" => class'[f] = class[f]
  BY <1>1
<1>5. QED
  BY <1>2, <1>3, <1>4 DEF Shape, Parts

LEMMA WithFields ==
  ASSUME Shape(class), NEW x, class' = [class EXCEPT !.fields = x]
  PROVE  /\ Shape(class') /\ class'.fields = x
         /\ class'.poolCnt = class.poolCnt /\ class'.pool = class.pool
         /\ class'.methods = class.methods /\ class'.attrs = class.attrs
         /\ class'.accessFlags = class.accessFlags /\ class'.thisClass = class.thisClass
         /\ class'.superClass = class.superClass /\ class'.interfaces = class.interfaces
<1>1. class = [f \in Parts |-> class[f]] /\ DOMAIN class = Parts
  BY DEF Shape
<1>2. class' = [f \in Parts |-> class'[f]] /\ DOMAIN class' = Parts
  BY <1>1
<1>3. class'.fields = x
  BY <1>1 DEF Parts
<1>4. \A f \in Parts : f # "fields" => class'[f] = class[f]
  BY <1>1
<1>5. QED
  BY <1>2, <1>3, <1>4 DEF Shape, Parts

LEMMA WithMethods ==
  ASSUME Shape(class), NEW x, class' = [class EXCEPT !.methods = x]
  PROVE  /\ Shape(class') /\ class'.methods = x
         /\ class'.poolCnt = class.poolCnt /\ class'.pool = class.pool
         /\ class'.fields = class.fields /\ class'.attrs = class.attrs
         /\ class'.accessFlags = class.accessFlags /\ class'.thisClass = class.thisClass
         /\ class'.superClass = class.superClass /\ class'.interfaces = class.interfaces
<1>1. class = [f \in Parts |-> class[f]] /\ DOMAIN class = Parts
  BY DEF Shape
<1>2. class' = [f \in Parts |-> class'[f]] /\ DOMAIN class' = Parts
  BY <1>1
<1>3. class'.methods = x
  BY <1>1 DEF Parts
<1>4. \A f \in Parts : f # "methods" => class'[f] = class[f]
  BY <1>1
<1>5. QED
  BY <1>2, <1>3, <1>4 DEF Shape, Parts

LEMMA WithAttrs ==
  ASSUME Shape(class), NEW x, class' = [class EXCEPT !.attrs = x]
  PROVE  /\ Shape(class') /\ class'.attrs = x
         /\ class'.poolCnt = class.poolCnt /\ class'.pool = class.pool
         /\ class'.fields = class.fields /\ class'.methods = class.methods
         /\ class'.accessFlags = class.accessFlags /\ class'.thisClass = class.thisClass
         /\ class'.superClass = class.superClass /\ class'.interfaces = class.interfaces
<1>1. class = [f \in Parts |-> class[f]] /\ DOMAIN class = Parts
  BY DEF Shape
<1>2. class' = [f \in Parts |-> class'[f]] /\ DOMAIN class' = Parts
  BY <1>1
<1>3. class'.attrs = x
  BY <1>1 DEF Parts
<1>4. \A f \in Parts : f # "attrs" => class'[f] = class[f]
  BY <1>1
<1>5. QED
  BY <1>2, <1>3, <1>4 DEF Shape, Parts

LEMMA WithParameters ==
  ASSUME Shape(class), NEW x, NEW y, NEW z, NEW v,
         class' = [class EXCEPT !.accessFlags = x, !.thisClass = y, !.superClass = z,
                              !.interfaces = v]
  PROVE  /\ Shape(class')
         /\ class'.accessFlags = x /\ class'.thisClass = y
         /\ class'.superClass = z /\ class'.interfaces = v
         /\ class'.poolCnt = class.poolCnt /\ class'.pool = class.pool
         /\ class'.fields = class.fields /\ class'.methods = class.methods
         /\ class'.attrs = class.attrs
<1>1. class = [f \in Parts |-> class[f]] /\ DOMAIN class = Parts
  BY DEF Shape
<1>2. class' = [f \in Parts |-> class'[f]] /\ DOMAIN class' = Parts
  BY <1>1
<1>3. /\ class'.accessFlags = x /\ class'.thisClass = y
      /\ class'.superClass = z /\ class'.interfaces = v
  BY <1>1 DEF Parts
<1>4. \A f \in {"poolCnt", "pool", "fields", "methods", "attrs"} : class'[f] = class[f]
  BY <1>1 DEF Parts
<1>5. QED
  BY <1>2, <1>3, <1>4 DEF Shape
-----------------------------------------------------------------------------
(* The constant pool.                                                      *)

(* A constant has one number or two: the pool is full when the last one is *)
(* in it, and not before.                                                  *)
LEMMA NumbersGrow ==
  ASSUME NEW pool \in Seq(PoolItems), NEW k \in 0..Len(pool)
  PROVE  /\ FlattenSeq(Upto(NumberParts(pool), k)) \in Seq(PoolItems)
         /\ Reach(NumberParts(pool), k) \in Nat
         /\ k = Len(pool) => FlattenSeq(Upto(NumberParts(pool), k)) = Numbered(pool)
         /\ Reach(NumberParts(pool), k) <= Len(Numbered(pool))
         /\ k < Len(pool) => Reach(NumberParts(pool), k) < Len(Numbered(pool))
<1>1. PICK ss : ss = NumberParts(pool)
  OBVIOUS
<1>2. ss \in Seq(Seq(PoolItems)) /\ Len(ss) = Len(pool) /\ Numbered(pool) = FlattenSeq(ss)
  BY <1>1, NumberedIs
<1>3. /\ \A j \in 0..Len(pool) : FlattenSeq(Upto(ss, j)) \in Seq(PoolItems)
      /\ FlattenSeq(ss) \in Seq(PoolItems)
  BY <1>2, FlatSeq, Flat
<1>4. /\ \A j \in 0..Len(pool) : Reach(ss, j) \in Nat
      /\ \A j \in 1..Len(pool) : Reach(ss, j) = Reach(ss, j - 1) + Len(ss[j])
  BY <1>2, ReachIs
<1>5. Len(pool) \in Nat /\ Len(FlattenSeq(ss)) \in Nat
  BY <1>3, SeqElements
<1>6. At(FlattenSeq(ss), 0, FlattenSeq(ss))
  BY <1>5 DEF At
<1>7. ASSUME NEW j \in 0..Len(pool) PROVE Reach(ss, j) <= Len(FlattenSeq(ss))
  <2>1. At(FlattenSeq(ss), 0, FlattenSeq(Upto(ss, j)))
    BY <1>2, <1>3, <1>6, AtUpto
  <2>2. 0 + Reach(ss, j) <= Len(FlattenSeq(ss))
    BY <2>1 DEF At, Reach
  <2>3. QED
    BY <1>4, <2>2
<1>8. ASSUME k < Len(pool) PROVE Reach(ss, k) < Len(FlattenSeq(ss))
  <2>1. k + 1 \in 1..Len(pool) /\ k + 1 \in 0..Len(pool) /\ (k + 1) - 1 = k
    BY <1>5, <1>8
  <2>2. Len(ss[k + 1]) > 0 /\ Len(ss[k + 1]) \in Nat
    <3>1. ss[k + 1] = IF pool[k + 1].tag \in {Long, Double}
                      THEN <<pool[k + 1], pool[k + 1]>> ELSE <<pool[k + 1]>>
      BY <1>1, <2>1, NumberedIs
    <3>2. QED
      BY <3>1
  <2>3. Reach(ss, k + 1) = Reach(ss, k) + Len(ss[k + 1])
    BY <1>4, <2>1
  <2>4. Reach(ss, k + 1) <= Len(FlattenSeq(ss))
    BY <1>7, <2>1
  <2>5. Reach(ss, k) \in Nat /\ Reach(ss, k + 1) \in Nat
    BY <1>4, <2>1
  <2>6. QED
    BY <1>5, <2>2, <2>3, <2>4, <2>5
<1>9. ASSUME k = Len(pool) PROVE FlattenSeq(Upto(ss, k)) = FlattenSeq(ss)
  BY <1>2, <1>9, UptoAll
<1>10. QED
  BY <1>1, <1>2, <1>3, <1>4, <1>7, <1>8, <1>9

(* Where the loader is in the pool. *)
LEMMA InPool ==
  ASSUME Inv, phase = "pool"
  PROVE  /\ FileRead /\ Places /\ FittingPool(file.pool) /\ file.pool \in Seq(PoolItems)
         /\ Len(file.pool) \in Nat /\ Len(Numbered(file.pool)) \in Nat
         /\ class.poolCnt = Len(Numbered(file.pool)) + 1
         /\ class.fields = <<>> /\ class.methods = <<>> /\ class.attrs = <<>>
         /\ \E k \in 0..Len(file.pool) : PoolBehind(k) /\ (MorePool <=> k < Len(file.pool))
<1>1. FileRead /\ Places /\ PoolAhead
  BY DEF Inv
<1>2. FittingPool(file.pool) /\ file.pool \in Seq(PoolItems)
  BY <1>1, Here DEF WellFormed, FittingPool
<1>3. Len(file.pool) \in Nat /\ Len(Numbered(file.pool)) \in Nat
  BY <1>2, NumberedIs, SeqElements
<1>4. PICK k \in 0..Len(file.pool) : PoolBehind(k)
  BY <1>1 DEF PoolAhead
<1>5. Len(class.pool) = Reach(NumberParts(file.pool), k)
  BY <1>4 DEF PoolBehind, Reach
<1>6. class.poolCnt = Len(Numbered(file.pool)) + 1
  BY <1>1 DEF PoolAhead
<1>7. /\ Reach(NumberParts(file.pool), k) \in Nat
      /\ k = Len(file.pool) => Reach(NumberParts(file.pool), k) = Len(Numbered(file.pool))
      /\ k < Len(file.pool) => Reach(NumberParts(file.pool), k) < Len(Numbered(file.pool))
  BY <1>2, NumbersGrow DEF Reach
<1>8. class.poolCnt - 1 = Len(Numbered(file.pool))
  BY <1>3, <1>6
<1>9. MorePool <=> k < Len(file.pool)
  <2>1. MorePool <=> Reach(NumberParts(file.pool), k) < Len(Numbered(file.pool))
    BY <1>5, <1>8 DEF MorePool
  <2>2. k = Len(file.pool) \/ k < Len(file.pool)
    BY <1>3
  <2>3. QED
    BY <1>3, <1>7, <2>1, <2>2
<1>10. QED
  BY <1>1, <1>2, <1>3, <1>4, <1>6, <1>9 DEF PoolAhead

LEMMA HeaderKeeps ==
  ASSUME Inv, Header
  PROVE  Inv'
<1>1. /\ FileRead /\ Places /\ phase = "header" /\ pos = 0 /\ left = <<0, 0, 0>>
      /\ class.pool = <<>> /\ class.fields = <<>> /\ class.methods = <<>> /\ class.attrs = <<>>
  BY DEF Inv, Header, HeaderAhead
<1>2. FittingPool(file.pool) /\ file.pool \in Seq(PoolItems)
  BY <1>1, Here DEF WellFormed, FittingPool
<1>3. Len(file.pool) \in Nat /\ Len(Numbered(file.pool)) \in Nat
  BY <1>2, NumberedIs, SeqElements
<1>4. At(W, 8, U2(Len(Numbered(file.pool)) + 1)) /\ 10 <= Len(W)
  <2>1. At(W, 8, U2(Len(Numbered(file.pool)) + 1))
    BY <1>1, Here DEF FileLies
  <2>2. Len(U2(Len(Numbered(file.pool)) + 1)) = 2
    BY <1>3, Two
  <2>3. 8 + 2 <= Len(W)
    BY <2>1, <2>2 DEF At
  <2>4. QED
    BY <2>1, <2>3
<1>5. Step(10, 1, "pool", <<0, 0, 0>>, [class EXCEPT !.poolCnt = msRead16(8)])
  BY <1>1 DEF Header
<1>6. CASE Inv'
  BY <1>6
<1>7. CASE ~Inv'
  <2>1. /\ 10 <= Len(data) /\ pos' = 10 /\ phase' = "pool" /\ left' = <<0, 0, 0>>
        /\ class' = [class EXCEPT !.poolCnt = msRead16(8)]
        /\ UNCHANGED <<file, data>> /\ FileRead'
    <3>1. PICK c, e : c = [class EXCEPT !.poolCnt = msRead16(8)] /\ e = 10
      OBVIOUS
    <3>2. Step(e, 1, "pool", <<0, 0, 0>>, c) /\ e \in Nat /\ e <= Len(W)
      BY <1>4, <1>5, <3>1
    <3>3. /\ e <= Len(data) /\ pos' = e /\ phase' = "pool" /\ left' = <<0, 0, 0>>
          /\ class' = c /\ UNCHANGED <<file, data>> /\ FileRead'
      BY <1>7, <3>2, StepKeeps
    <3>4. QED
      BY <3>1, <3>3
  <2>2. msRead16(8) = Len(Numbered(file.pool)) + 1
    BY <1>1, <1>3, <1>4, <2>1, ReadTwo
  <2>3. /\ Shape(class') /\ class'.poolCnt = Len(Numbered(file.pool)) + 1
        /\ class'.pool = <<>> /\ class'.fields = <<>> /\ class'.methods = <<>>
        /\ class'.attrs = <<>>
    <3>1. Shape(class)
      BY <1>1 DEF Places
    <3>2. /\ Shape(class') /\ class'.poolCnt = msRead16(8) /\ class'.pool = class.pool
          /\ class'.fields = class.fields /\ class'.methods = class.methods
          /\ class'.attrs = class.attrs
      BY <2>1, <3>1, WithCount
    <3>3. QED
      BY <1>1, <2>2, <3>2
  <2>4. Places'
    <3>1. Len(class'.pool) < class'.poolCnt
      BY <1>3, <2>3
    <3>2. QED
      BY <1>1, <2>1, <2>3, <3>1, PlacesKept
  <2>5. ItemAt(file.pool, 0) = 0 /\ FlattenSeq(Upto(NumberParts(file.pool), 0)) = <<>>
    <3>1. ItemAt(file.pool, 0) = 0
      BY <1>1, Here DEF FileLies, ItemsLie
    <3>2. NumberParts(file.pool) \in Seq(Seq(PoolItems))
      BY <1>2, NumberedIs
    <3>3. Upto(NumberParts(file.pool), 0) = <<>>
      BY <3>2, UptoAll
    <3>4. QED
      BY <3>1, <3>3, FlatEmpty
  <2>6. PoolBehind(0)'
    BY <2>1, <2>3, <2>5 DEF PoolBehind
  <2>7. PoolAhead'
    BY <1>3, <2>1, <2>3, <2>6 DEF PoolAhead
  <2>8. QED
    BY <2>1, <2>4, <2>7, ToPool
<1>8. QED
  BY <1>6, <1>7

LEMMA ReadItem ==
  ASSUME FileRead, NEW p, NEW item \in PoolItems, ArgsFit(item), item.tag \in Known,
         ItemLies(W, p, item)
  PROVE  /\ ArgsSize(item.tag, p + 1) \in Nat /\ ItemLength(item) \in Nat
         /\ (p + 1) + ArgsSize(item.tag, p + 1) <= Len(data) \/ p + ItemLength(item) <= Len(data) =>
              /\ 1 + ArgsSize(item.tag, p + 1) = ItemLength(item)
              /\ Args(item.tag, p + 1) = item.args
<1>. DEFINE Whole == (p + 1) + ArgsSize(item.tag, p + 1) <= Len(data)
                       \/ p + ItemLength(item) <= Len(data)
<1>1. p \in Nat /\ p + 1 \in Nat /\ Len(data) \in Nat
  BY Here DEF ItemLies, At
<1>2. item.args \in Seq(Nat) /\ item.tag \in {1, 3, 5, 7, 8, 9, 10, 11, 12}
  BY Tags DEF PoolItems
<1>3. msRead16(p + 1) \in Nat
  BY <1>1, ReadNat
<1>4. Len(item.args) \in Nat /\ \A j \in 1..Len(item.args) : item.args[j] \in Nat
  BY <1>2, SeqElements
<1>5. CASE item.tag = 1
  <2>1. /\ ArgsSize(item.tag, p + 1) = 2 + msRead16(p + 1)
        /\ Args(item.tag, p + 1) = msRead((p + 1) + 2, msRead16(p + 1))
        /\ ItemLength(item) = 3 + Len(item.args)
    BY <1>5, Tags DEF ArgsSize, Args, ItemLength
  <2>2. At(W, p + 1, U2(Len(item.args))) /\ At(W, p + 3, item.args)
    BY <1>5, Tags DEF ItemLies
  <2>3. ASSUME Whole
        PROVE  1 + (2 + msRead16(p + 1)) = 3 + Len(item.args)
               /\ msRead((p + 1) + 2, msRead16(p + 1)) = item.args
    <3>1. (p + 1) + 2 <= Len(data)
      <4>1. (p + 1) + (2 + msRead16(p + 1)) <= Len(data) \/ p + (3 + Len(item.args)) <= Len(data)
        BY <2>1, <2>3
      <4>2. QED
        BY <1>1, <1>3, <1>4, <4>1
    <3>2. msRead16(p + 1) = Len(item.args)
      BY <1>4, <2>2, <3>1, ReadTwo
    <3>3. (p + 3) + Len(item.args) <= Len(data)
      <4>1. (p + 1) + (2 + Len(item.args)) <= Len(data) \/ p + (3 + Len(item.args)) <= Len(data)
        BY <2>1, <2>3, <3>2
      <4>2. \A y, d \in Nat : (p + 1) + (2 + y) <= d \/ p + (3 + y) <= d => (p + 3) + y <= d
        BY <1>1
      <4>3. QED
        BY <1>1, <1>4, <4>1, <4>2
    <3>4. msRead(p + 3, Len(item.args)) = item.args
      BY <1>2, <2>2, <3>3, ReadBytes
    <3>5. (p + 1) + 2 = p + 3
      BY <1>1
    <3>6. 1 + (2 + Len(item.args)) = 3 + Len(item.args)
      BY <1>4
    <3>7. QED
      BY <3>2, <3>4, <3>5, <3>6
  <2>4. 2 + msRead16(p + 1) \in Nat /\ 3 + Len(item.args) \in Nat
    BY <1>3, <1>4
  <2>5. QED
    BY <2>1, <2>3, <2>4
<1>6. CASE item.tag = 3
  <2>1. /\ ArgsSize(item.tag, p + 1) = 4 /\ Args(item.tag, p + 1) = <<msRead32(p + 1)>>
        /\ ItemLength(item) = 5
    BY <1>6, Tags DEF ArgsSize, Args, ItemLength
  <2>2. At(W, p + 1, U4(item.args[1])) /\ Len(item.args) = 1
    BY <1>6, Tags DEF ItemLies, ArgsFit
  <2>3. ASSUME Whole PROVE <<msRead32(p + 1)>> = item.args
    <3>1. (p + 1) + 4 <= Len(data)
      BY <1>1, <2>1, <2>3
    <3>2. msRead32(p + 1) = item.args[1]
      BY <1>4, <2>2, <3>1, ReadFour
    <3>3. QED
      BY <1>2, <2>2, <3>2
  <2>4. QED
    BY <2>1, <2>3
<1>7. CASE item.tag = 5
  <2>1. /\ ArgsSize(item.tag, p + 1) = 8 /\ ItemLength(item) = 9
        /\ Args(item.tag, p + 1) = <<msRead32(p + 1), msRead32((p + 1) + 4)>>
    BY <1>7, Tags DEF ArgsSize, Args, ItemLength
  <2>2. At(W, p + 1, U4(item.args[1])) /\ At(W, p + 5, U4(item.args[2])) /\ Len(item.args) = 2
    BY <1>7, Tags DEF ItemLies, ArgsFit
  <2>3. ASSUME Whole PROVE <<msRead32(p + 1), msRead32((p + 1) + 4)>> = item.args
    <3>1. (p + 1) + 4 <= Len(data) /\ (p + 5) + 4 <= Len(data) /\ (p + 1) + 4 = p + 5
      BY <1>1, <2>1, <2>3
    <3>2. msRead32(p + 1) = item.args[1]
      BY <1>4, <2>2, <3>1, ReadFour
    <3>3. msRead32(p + 5) = item.args[2]
      BY <1>4, <2>2, <3>1, ReadFour
    <3>4. QED
      BY <1>2, <2>2, <3>1, <3>2, <3>3
  <2>4. QED
    BY <2>1, <2>3
<1>8. CASE item.tag \in {7, 8}
  <2>1. /\ ArgsSize(item.tag, p + 1) = 2 /\ ItemLength(item) = 3
        /\ Args(item.tag, p + 1) = <<msRead16(p + 1)>>
    BY <1>8, Tags DEF ArgsSize, Args, ItemLength
  <2>2. At(W, p + 1, U2(item.args[1])) /\ Len(item.args) = 1
    BY <1>8, Tags DEF ItemLies, ArgsFit
  <2>3. ASSUME Whole PROVE <<msRead16(p + 1)>> = item.args
    <3>1. (p + 1) + 2 <= Len(data)
      BY <1>1, <2>1, <2>3
    <3>2. msRead16(p + 1) = item.args[1]
      BY <1>4, <2>2, <3>1, ReadTwo
    <3>3. QED
      BY <1>2, <2>2, <3>2
  <2>4. QED
    BY <2>1, <2>3
<1>9. CASE item.tag \in {9, 10, 11, 12}
  <2>1. /\ ArgsSize(item.tag, p + 1) = 4 /\ ItemLength(item) = 5
        /\ Args(item.tag, p + 1) = <<msRead16(p + 1), msRead16((p + 1) + 2)>>
    BY <1>9, Tags DEF ArgsSize, Args, ItemLength
  <2>2. At(W, p + 1, U2(item.args[1])) /\ At(W, p + 3, U2(item.args[2])) /\ Len(item.args) = 2
    BY <1>9, Tags DEF ItemLies, ArgsFit
  <2>3. ASSUME Whole PROVE <<msRead16(p + 1), msRead16((p + 1) + 2)>> = item.args
    <3>1. (p + 1) + 2 <= Len(data) /\ (p + 3) + 2 <= Len(data) /\ (p + 1) + 2 = p + 3
      BY <1>1, <2>1, <2>3
    <3>2. msRead16(p + 1) = item.args[1]
      BY <1>4, <2>2, <3>1, ReadTwo
    <3>3. msRead16(p + 3) = item.args[2]
      BY <1>4, <2>2, <3>1, ReadTwo
    <3>4. QED
      BY <1>2, <2>2, <3>1, <3>2, <3>3
  <2>4. QED
    BY <2>1, <2>3
<1>10. QED
  BY <1>2, <1>5, <1>6, <1>7, <1>8, <1>9

(* The constant that stands where the loader is. *)
LEMMA ItemHere ==
  ASSUME FileRead, NEW k \in 0..Len(file.pool), k < Len(file.pool), PoolBehind(k)
  PROVE  /\ k + 1 \in 1..Len(file.pool) /\ k + 1 \in 0..Len(file.pool)
         /\ file.pool[k + 1] \in PoolItems /\ ArgsFit(file.pool[k + 1])
         /\ ItemLies(W, pos, file.pool[k + 1])
         /\ pos \in Nat /\ 10 + ItemAt(file.pool, k + 1) \in Nat
         /\ pos < 10 + ItemAt(file.pool, k + 1)
         /\ 10 + ItemAt(file.pool, k + 1) <= Len(W)
         /\ file.pool[k + 1].tag \in Known =>
              10 + ItemAt(file.pool, k + 1) = pos + ItemLength(file.pool[k + 1])
<1>1. FittingPool(file.pool) /\ ItemsLie(W, 10, file.pool)
  BY Here DEF WellFormed, FittingPool, FileLies
<1>2. /\ Len(file.pool) \in Nat /\ DOMAIN file.pool = 1..Len(file.pool)
      /\ \A j \in 1..Len(file.pool) : file.pool[j] \in PoolItems
  BY <1>1, SeqElements DEF FittingPool
<1>3. k + 1 \in 1..Len(file.pool) /\ k + 1 \in 0..Len(file.pool) /\ (k + 1) - 1 = k
  BY <1>2
<1>4. PICK item : item = file.pool[k + 1]
  OBVIOUS
<1>5. item \in PoolItems /\ ArgsFit(item)
  BY <1>1, <1>2, <1>3, <1>4 DEF FittingPool
<1>6. ItemAt(file.pool, k) \in Nat /\ ItemAt(file.pool, k + 1) \in Nat
  BY <1>1, <1>3 DEF ItemsLie
<1>7. /\ ItemAt(file.pool, k + 1) > ItemAt(file.pool, k)
      /\ item.tag \in Known => ItemAt(file.pool, k + 1) = ItemAt(file.pool, k) + ItemLength(item)
      /\ ItemLies(W, 10 + ItemAt(file.pool, k), item)
      /\ 10 + ItemAt(file.pool, k + 1) <= Len(W)
  BY <1>1, <1>3, <1>4 DEF ItemsLie
<1>8. pos = 10 + ItemAt(file.pool, k)
  BY DEF PoolBehind
<1>9. ASSUME item.tag \in Known PROVE 10 + ItemAt(file.pool, k + 1) = pos + ItemLength(item)
  <2>1. ItemLength(item) \in Nat
    <3>1. Len(item.args) \in Nat
      BY <1>5, SeqElements DEF PoolItems
    <3>2. 3 + Len(item.args) \in Nat
      BY <3>1
    <3>3. QED
      BY <3>2 DEF ItemLength
  <2>2. QED
    BY <1>6, <1>7, <1>8, <1>9, <2>1
<1>10. /\ pos \in Nat /\ 10 + ItemAt(file.pool, k + 1) \in Nat
       /\ pos < 10 + ItemAt(file.pool, k + 1)
  BY <1>6, <1>7, <1>8
<1>11. QED
  BY <1>3, <1>4, <1>5, <1>7, <1>8, <1>9, <1>10

LEMMA ArgsSizeNat ==
  ASSUME FileRead, NEW p \in Nat, NEW tag
  PROVE  ArgsSize(tag, p) \in Nat
<1>1. 2 + msRead16(p) \in Nat
  <2>1. msRead16(p) \in Nat
    BY ReadNat
  <2>2. QED
    BY <2>1
<1>2. QED
  BY <1>1 DEF ArgsSize

(* What a constant adds to the pool. *)
LEMMA EntriesAre ==
  ASSUME NEW item \in PoolItems, item.tag \in Known
  PROVE  [j \in 1..Entries(item.tag) |-> item] =
           IF item.tag \in {Long, Double} THEN <<item, item>> ELSE <<item>>
<1>1. item.tag # Double
  BY Tags
<1>2. [j \in 1..2 |-> item] = <<item, item>> /\ [j \in 1..1 |-> item] = <<item>>
  OBVIOUS
<1>3. CASE item.tag = Long
  BY <1>2, <1>3 DEF Entries
<1>4. CASE item.tag # Long
  BY <1>1, <1>2, <1>4 DEF Entries
<1>5. QED
  BY <1>3, <1>4

LEMMA PoolItemKeeps ==
  ASSUME Inv, PoolItem
  PROVE  Inv'
<1>1. phase = "pool" /\ MorePool /\ Byte(pos) \in Known
  BY DEF PoolItem, MorePool
<1>2. /\ FileRead /\ Places /\ FittingPool(file.pool) /\ file.pool \in Seq(PoolItems)
      /\ Len(file.pool) \in Nat /\ Len(Numbered(file.pool)) \in Nat
      /\ class.poolCnt = Len(Numbered(file.pool)) + 1
      /\ class.fields = <<>> /\ class.methods = <<>> /\ class.attrs = <<>>
  BY <1>1, InPool
<1>3. PICK k \in 0..Len(file.pool) : PoolBehind(k) /\ k < Len(file.pool)
  BY <1>1, InPool
<1>4. PICK item, e : item = file.pool[k + 1] /\ e = 10 + ItemAt(file.pool, k + 1)
  OBVIOUS
<1>5. /\ k + 1 \in 1..Len(file.pool) /\ k + 1 \in 0..Len(file.pool)
      /\ item \in PoolItems /\ ArgsFit(item) /\ ItemLies(W, pos, item)
      /\ pos \in Nat /\ e \in Nat /\ pos < e /\ e <= Len(W)
      /\ item.tag \in Known => e = pos + ItemLength(item)
  BY <1>2, <1>3, <1>4, ItemHere
<1>6. PICK tag, args, size :
        tag = Byte(pos) /\ args = Args(tag, pos + 1) /\ size = ArgsSize(tag, pos + 1)
  OBVIOUS
<1>7. PICK c : c = [class EXCEPT !.pool =
                      @ \o [j \in 1..Entries(tag) |-> [tag |-> tag, args |-> args]]]
  OBVIOUS
<1>8. Step(pos + 1 + size, 1, "pool", left, c)
  BY <1>6, <1>7 DEF PoolItem
<1>9. size \in Nat /\ Len(data) \in Nat
  <2>1. pos + 1 \in Nat
    BY <1>5
  <2>2. QED
    BY <1>2, <1>6, <2>1, ArgsSizeNat, Here
<1>10. ASSUME e <= Len(data) \/ pos + 1 + size <= Len(data)
       PROVE  tag = item.tag /\ args = item.args /\ pos + 1 + size = e
  <2>1. pos + 1 <= Len(data)
    BY <1>5, <1>9, <1>10
  <2>2. At(W, pos, <<item.tag>>)
    BY <1>5 DEF ItemLies
  <2>3. tag = item.tag
    BY <1>2, <1>6, <2>1, <2>2, ReadOne
  <2>4. item.tag \in Known
    BY <1>1, <1>6, <2>3
  <2>5. /\ ItemLength(item) \in Nat
        /\ (pos + 1) + size <= Len(data) \/ pos + ItemLength(item) <= Len(data) =>
             1 + size = ItemLength(item) /\ args = item.args
    BY <1>2, <1>5, <1>6, <2>3, <2>4, ReadItem
  <2>6. e = pos + ItemLength(item)
    BY <1>5, <2>4
  <2>7. 1 + size = ItemLength(item) /\ args = item.args
    BY <1>10, <2>5, <2>6
  <2>8. pos + 1 + size = e
    BY <1>5, <1>9, <2>6, <2>7
  <2>9. QED
    BY <2>3, <2>7, <2>8
<1>11. CASE Inv'
  BY <1>11
<1>12. CASE ~Inv'
  <2>1. pos + 1 + size \in Nat
    BY <1>5, <1>9
  <2>2. e <= Len(data) \/ pos + 1 + size <= Len(data) => pos + 1 + size = e
    BY <1>10
  <2>3. /\ e <= Len(data) /\ pos' = e /\ phase' = "pool" /\ left' = left
        /\ class' = c /\ UNCHANGED <<file, data>> /\ FileRead'
    BY <1>5, <1>8, <1>12, <2>1, <2>2, StepKeeps
  <2>4. tag = item.tag /\ args = item.args
    BY <1>10, <2>3
  <2>5. [tag |-> tag, args |-> args] = item
    BY <1>5, <2>4 DEF PoolItems
  <2>6. item.tag \in Known
    BY <1>1, <1>6, <2>4
  <2>7. PICK more : more = [j \in 1..Entries(tag) |-> item]
    OBVIOUS
  <2>8. c = [class EXCEPT !.pool = class.pool \o more]
    BY <1>7, <2>5, <2>7
  <2>9. /\ Shape(class') /\ class'.pool = class.pool \o more
        /\ class'.poolCnt = class.poolCnt /\ class'.fields = class.fields
        /\ class'.methods = class.methods /\ class'.attrs = class.attrs
    <3>1. PICK x : x = class.pool \o more
      OBVIOUS
    <3>2. Shape(class) /\ class' = [class EXCEPT !.pool = x]
      BY <1>2, <2>3, <2>8, <3>1 DEF Places
    <3>3. /\ Shape(class') /\ class'.pool = x /\ class'.poolCnt = class.poolCnt
          /\ class'.fields = class.fields /\ class'.methods = class.methods
          /\ class'.attrs = class.attrs
      BY <3>2, WithPool, Zenon
    <3>4. QED
      BY <3>1, <3>3
  <2>10. PICK ss : ss = NumberParts(file.pool)
    OBVIOUS
  <2>11. /\ ss \in Seq(Seq(PoolItems)) /\ Len(ss) = Len(file.pool)
         /\ more = ss[k + 1]
    <3>1. more = IF item.tag \in {Long, Double} THEN <<item, item>> ELSE <<item>>
      BY <1>5, <2>4, <2>6, <2>7, EntriesAre
    <3>2. ss[k + 1] = IF item.tag \in {Long, Double} THEN <<item, item>> ELSE <<item>>
      BY <1>2, <1>4, <1>5, <2>10, NumberedIs
    <3>3. QED
      BY <1>2, <2>10, <3>1, <3>2, NumberedIs
  <2>12. class'.pool = FlattenSeq(Upto(ss, k + 1))
    <3>1. class.pool = FlattenSeq(Upto(ss, k))
      BY <1>3, <2>10 DEF PoolBehind
    <3>2. (k + 1) - 1 = k /\ k + 1 \in 1..Len(ss)
      BY <1>5, <2>11
    <3>3. FlattenSeq(Upto(ss, k + 1)) = FlattenSeq(Upto(ss, (k + 1) - 1)) \o ss[k + 1]
      BY <2>11, <3>2, FlatNext
    <3>4. QED
      BY <2>9, <2>11, <3>1, <3>2, <3>3
  <2>13. Len(class'.pool) < class'.poolCnt
    <3>1. /\ Reach(ss, k + 1) \in Nat /\ Reach(ss, k + 1) <= Len(Numbered(file.pool))
      BY <1>2, <1>5, <2>10, NumbersGrow
    <3>2. Len(class'.pool) = Reach(ss, k + 1)
      BY <2>12 DEF Reach
    <3>3. class'.poolCnt = Len(Numbered(file.pool)) + 1
      BY <1>2, <2>9
    <3>4. QED
      BY <1>2, <3>1, <3>2, <3>3
  <2>14. left = <<0, 0, 0>>
    BY <1>1 DEF Inv, PoolAhead
  <2>15. Places'
    BY <1>2, <1>5, <2>3, <2>9, <2>13, <2>14, PlacesKept
  <2>16. PoolBehind(k + 1)'
    <3>1. \A j \in 1..(k + 1) : file.pool[j].tag \in Known
      <4>1. \A j \in 1..k : file.pool[j].tag \in Known
        BY <1>3 DEF PoolBehind
      <4>2. \A j \in 1..(k + 1) : j \in 1..k \/ j = k + 1
        BY <1>2
      <4>3. QED
        BY <1>4, <2>6, <4>1, <4>2
    <3>2. QED
      BY <1>4, <2>3, <2>10, <2>12, <3>1 DEF PoolBehind
  <2>17. PoolAhead'
    BY <1>2, <1>5, <2>3, <2>9, <2>14, <2>16 DEF PoolAhead
  <2>18. QED
    BY <2>3, <2>15, <2>17, ToPool
<1>13. QED
  BY <1>11, <1>12

LEMMA UnknownTagKeeps ==
  ASSUME Inv, UnknownTag
  PROVE  Inv'
<1>1. /\ phase = "pool" /\ MorePool /\ Byte(pos) \notin Known
      /\ Ends(IF pos < Len(data) THEN "exit1" ELSE "outside")
  BY DEF UnknownTag, MorePool
<1>2. FileRead /\ file.pool \in Seq(PoolItems)
  BY <1>1, InPool
<1>3. PICK k \in 0..Len(file.pool) : PoolBehind(k) /\ k < Len(file.pool)
  BY <1>1, InPool
<1>4. PICK item, e : item = file.pool[k + 1] /\ e = 10 + ItemAt(file.pool, k + 1)
  OBVIOUS
<1>5. /\ k + 1 \in 1..Len(file.pool) /\ ItemLies(W, pos, item)
      /\ pos \in Nat /\ e \in Nat /\ pos < e /\ e <= Len(W)
  BY <1>2, <1>3, <1>4, ItemHere
<1>6. Len(data) \in Nat /\ Len(W) \in Nat
  BY <1>2, Here
<1>7. CASE pos < Len(data)
  <2>1. At(W, pos, <<item.tag>>)
    BY <1>5 DEF ItemLies
  <2>2. pos + 1 <= Len(data)
    BY <1>5, <1>6, <1>7
  <2>3. Byte(pos) = item.tag
    BY <1>2, <2>1, <2>2, ReadOne
  <2>4. k + 1 \in DOMAIN file.pool
    BY <1>2, <1>5, SeqElements
  <2>5. \E j \in DOMAIN file.pool : file.pool[j].tag \notin Known
    BY <1>1, <1>4, <2>3, <2>4
  <2>6. QED
    BY <1>1, <1>7, <2>5, EndKeeps
<1>8. CASE ~(pos < Len(data))
  <2>1. Len(data) < Len(W)
    BY <1>5, <1>6, <1>8
  <2>2. QED
    BY <1>1, <1>8, <2>1, EndKeeps
<1>9. QED
  BY <1>7, <1>8

LEMMA SmallParametersKeeps ==
  ASSUME Inv, SmallParameters
  PROVE  Inv'
<1>1. phase = "pool" /\ ~MorePool
  BY DEF SmallParameters
<1>2. /\ FileRead /\ Places /\ file.pool \in Seq(PoolItems) /\ Len(file.pool) \in Nat
      /\ class.poolCnt = Len(Numbered(file.pool)) + 1 /\ Len(Numbered(file.pool)) \in Nat
      /\ class.fields = <<>> /\ class.methods = <<>> /\ class.attrs = <<>>
  BY <1>1, InPool
<1>3. PICK k \in 0..Len(file.pool) : PoolBehind(k) /\ ~(k < Len(file.pool))
  BY <1>1, InPool
<1>4. k = Len(file.pool)
  BY <1>2, <1>3
<1>5. pos = ParametersAt(file) /\ class.pool = Numbered(file.pool)
  <2>1. FlattenSeq(Upto(NumberParts(file.pool), k)) = Numbered(file.pool)
    BY <1>2, <1>4, NumbersGrow
  <2>2. QED
    BY <1>3, <1>4, <2>1 DEF PoolBehind, ParametersAt
<1>6. PICK ifs, cnt, fieldCnt, e : /\ ifs = file.interfaces /\ cnt = msRead16(pos + 6)
                                   /\ fieldCnt = msRead16(pos + 8 + 2 * cnt)
                                   /\ e = FieldsAt(file)
  OBVIOUS
<1>7. /\ file.accessFlags \in Nat /\ file.thisClass \in Nat /\ file.superClass \in Nat
      /\ ifs \in Seq(Nat) /\ file.fields \in Seq(Members(PlainAttributes))
  BY <1>2, <1>6, Here DEF WellFormed
<1>8. /\ pos \in Nat /\ e \in Nat /\ e = pos + 8 + 2 * Len(ifs) + 2
      /\ At(W, pos, U2(file.accessFlags)) /\ At(W, pos + 2, U2(file.thisClass))
      /\ At(W, pos + 4, U2(file.superClass)) /\ At(W, pos + 6, U2(Len(ifs)))
      /\ \A j \in 1..Len(ifs) : At(W, (pos + 8) + 2 * (j - 1), U2(ifs[j]))
      /\ At(W, e - 2, U2(Len(file.fields)))
  BY <1>2, <1>5, <1>6, Here DEF FileLies, FieldsAt
<1>9. /\ Len(data) \in Nat /\ Len(W) \in Nat /\ Len(ifs) \in Nat /\ Len(file.fields) \in Nat
      /\ cnt \in Nat
  <2>1. Len(ifs) \in Nat
    BY <1>7, SeqElements
  <2>2. Len(file.fields) \in Nat
    BY <1>7, SeqElements
  <2>3. pos + 6 \in Nat
    BY <1>8
  <2>4. cnt \in Nat
    BY <1>2, <1>6, <2>3, ReadNat
  <2>5. QED
    BY <1>2, <2>1, <2>2, <2>4, Here
<1>10. e <= Len(W)
  <2>1. Len(U2(Len(file.fields))) = 2
    BY <1>9, Two
  <2>2. (e - 2) + 2 <= Len(W)
    BY <1>8, <2>1 DEF At
  <2>3. QED
    BY <1>8, <2>2
<1>11. ASSUME e <= Len(data) \/ pos + 8 + 2 * cnt + 2 <= Len(data)
       PROVE  cnt = Len(ifs) /\ pos + 8 + 2 * cnt + 2 = e
  <2>1. (pos + 6) + 2 <= Len(data)
    BY <1>8, <1>9, <1>11
  <2>2. cnt = Len(ifs)
    BY <1>2, <1>6, <1>8, <1>9, <2>1, ReadTwo
  <2>3. QED
    BY <1>8, <2>2
<1>12. PICK acc, this, super, read :
         /\ acc = msRead16(pos) /\ this = msRead16(pos + 2) /\ super = msRead16(pos + 4)
         /\ read = [j \in 1..cnt |-> msRead16(pos + 6 + 2 * j)]
  OBVIOUS
<1>13. PICK c : c = [class EXCEPT !.accessFlags = acc, !.thisClass = this,
                                  !.superClass = super, !.interfaces = read]
  OBVIOUS
<1>14. Step(pos + 8 + 2 * cnt + 2, cnt + fieldCnt, "fields", <<fieldCnt, 0, 0>>, c)
  BY <1>6, <1>12, <1>13 DEF SmallParameters
<1>15. CASE Inv'
  BY <1>15
<1>16. CASE ~Inv'
  <2>1. pos + 8 + 2 * cnt + 2 \in Nat
    BY <1>8, <1>9
  <2>2. e <= Len(data) \/ pos + 8 + 2 * cnt + 2 <= Len(data) => pos + 8 + 2 * cnt + 2 = e
    BY <1>11
  <2>3. PICK end, memory, l : /\ end = pos + 8 + 2 * cnt + 2 /\ memory = cnt + fieldCnt
                              /\ l = <<fieldCnt, 0, 0>>
    OBVIOUS
  <2>4. /\ e <= Len(data) /\ pos' = e /\ phase' = "fields" /\ left' = l
        /\ class' = c /\ UNCHANGED <<file, data>> /\ FileRead'
    BY <1>8, <1>10, <1>14, <1>16, <2>1, <2>2, <2>3, StepKeeps
  <2>5. cnt = Len(ifs) /\ pos + 8 + 2 * cnt + 2 = e
    BY <1>11, <2>4
  <2>6. /\ pos + 2 <= Len(data) /\ (pos + 2) + 2 <= Len(data) /\ (pos + 4) + 2 <= Len(data)
        /\ (e - 2) + 2 <= Len(data) /\ pos + 8 + 2 * cnt = e - 2
    BY <1>8, <1>9, <2>4, <2>5
  <2>7. acc = file.accessFlags
    BY <1>2, <1>7, <1>8, <1>12, <2>6, ReadTwo
  <2>8. this = file.thisClass
    BY <1>2, <1>7, <1>8, <1>12, <2>6, ReadTwo
  <2>9. super = file.superClass
    BY <1>2, <1>7, <1>8, <1>12, <2>6, ReadTwo
  <2>10. fieldCnt = Len(file.fields)
    BY <1>2, <1>6, <1>8, <1>9, <2>6, ReadTwo
  <2>11. read = ifs
    <3>1. ASSUME NEW j \in 1..Len(ifs) PROVE msRead16(pos + 6 + 2 * j) = ifs[j]
      <4>1. ifs[j] \in Nat
        BY <1>7, SeqElements
      <4>2. (pos + 8) + 2 * (j - 1) = pos + 6 + 2 * j /\ (pos + 6 + 2 * j) + 2 <= Len(data)
        <5>1. pos \in Nat
          BY <1>8
        <5>2. \A n, d \in Nat : \A i \in 1..n :
                pos + 8 + 2 * n + 2 <= d =>
                  (pos + 8) + 2 * (i - 1) = pos + 6 + 2 * i /\ (pos + 6 + 2 * i) + 2 <= d
          BY <5>1
        <5>3. pos + 8 + 2 * Len(ifs) + 2 <= Len(data)
          BY <1>8, <2>4
        <5>4. QED
          BY <1>9, <5>2, <5>3
      <4>3. At(W, pos + 6 + 2 * j, U2(ifs[j]))
        BY <1>8, <4>2
      <4>4. QED
        BY <1>2, <4>1, <4>2, <4>3, ReadTwo
    <3>2. read = [j \in 1..Len(ifs) |-> ifs[j]]
      BY <1>12, <2>5, <3>1
    <3>3. QED
      BY <1>7, <3>2, SeqIs
  <2>12. /\ Shape(class') /\ class'.accessFlags = acc /\ class'.thisClass = this
         /\ class'.superClass = super /\ class'.interfaces = read
         /\ class'.poolCnt = class.poolCnt /\ class'.pool = class.pool
         /\ class'.fields = class.fields /\ class'.methods = class.methods
         /\ class'.attrs = class.attrs
    <3>1. Shape(class) /\ class' = [class EXCEPT !.accessFlags = acc, !.thisClass = this,
                                                 !.superClass = super, !.interfaces = read]
      BY <1>2, <1>13, <2>4 DEF Places
    <3>2. QED
      BY <3>1, WithParameters, Zenon
  <2>13. Places'
    <3>1. Len(class'.pool) < class'.poolCnt
      BY <1>2, <1>5, <2>12
    <3>2. left' = <<Len(file.fields), 0, 0>>
      BY <2>3, <2>4, <2>10
    <3>3. QED
      BY <1>2, <1>8, <1>9, <2>4, <2>12, <3>1, <3>2, PlacesKept
  <2>14. ParametersBehind'
    BY <1>2, <1>5, <1>6, <2>4, <2>7, <2>8, <2>9, <2>11, <2>12 DEF ParametersBehind
  <2>15. FieldsBehind(0, 0)'
    <3>1. FieldCopies(file.fields, 0, 0) = <<>> /\ AttrsOf(file.fields, 0) = <<>>
          /\ Within(file.fields, 0, 0) = 0
      BY DEF FieldCopies, AttrsOf, Within
    <3>2. left' = <<Len(file.fields) - 0, Len(<<>>) - 0, 0>>
      BY <1>9, <2>3, <2>4, <2>10
    <3>3. pos' = FieldsAt(file) + 0
      BY <1>6, <1>8, <2>4
    <3>4. class'.fields = <<>> /\ file' = file
      BY <1>2, <2>4, <2>12
    <3>5. QED
      BY <3>1, <3>2, <3>3, <3>4 DEF FieldsBehind
  <2>16. FieldsAhead'
    <3>1. 0 \in 0..Len(file'.fields) /\ 0 \in 0..Len(AttrsOf(file'.fields, 0))
      BY <1>9, <2>4 DEF AttrsOf
    <3>2. class'.methods = <<>> /\ class'.attrs = <<>>
      BY <1>2, <2>12
    <3>3. QED
      BY <2>15, <3>1, <3>2 DEF FieldsAhead
  <2>17. QED
    BY <2>4, <2>13, <2>14, <2>16, ToFields
<1>17. QED
  BY <1>15, <1>16

-----------------------------------------------------------------------------
(* Members and their attributes.                                           *)

LEMMA ListNext ==
  ASSUME NEW k \in Nat, NEW t, t = [j \in 1..(k + 1) |-> t[j]]
  PROVE  t = Append([j \in 1..k |-> t[j]], t[k + 1])
<1>. DEFINE S == {t[j] : j \in 1..(k + 1)}
<1>1. t \in Seq(S) /\ Len(t) = k + 1
  <2>1. \A j \in 1..(k + 1) : t[j] \in S
    OBVIOUS
  <2>2. k + 1 \in Nat
    OBVIOUS
  <2>. HIDE DEF S
  <2>3. QED
    BY <2>1, <2>2, Made
<1>. HIDE DEF S
<1>2. k + 1 \in 1..Len(t) /\ (k + 1) - 1 = k
  BY <1>1
<1>3. Upto(t, k + 1) = Append(Upto(t, (k + 1) - 1), t[k + 1])
  BY <1>1, <1>2, UptoNext
<1>4. Upto(t, k + 1) = t
  BY <1>1, UptoAll
<1>5. QED
  BY <1>2, <1>3, <1>4 DEF Upto

LEMMA CopiesNext ==
  ASSUME NEW as, NEW k \in Nat
  PROVE  /\ Append(PlainCopies(as, k), PlainCopy(as[k + 1])) = PlainCopies(as, k + 1)
         /\ PlainCopies(as, 0) = <<>>
<1>1. PICK t : t = PlainCopies(as, k + 1)
  OBVIOUS
<1>2. t = [j \in 1..(k + 1) |-> t[j]] /\ \A j \in 1..(k + 1) : t[j] = PlainCopy(as[j])
  BY <1>1 DEF PlainCopies
<1>3. t = Append([j \in 1..k |-> t[j]], t[k + 1])
  BY <1>2, ListNext
<1>4. t[k + 1] = PlainCopy(as[k + 1])
  <2>1. k + 1 \in 1..(k + 1)
    OBVIOUS
  <2>2. QED
    BY <1>2, <2>1
<1>5. [j \in 1..k |-> t[j]] = PlainCopies(as, k)
  <2>1. \A j \in 1..k : j \in 1..(k + 1)
    OBVIOUS
  <2>2. \A j \in 1..k : t[j] = PlainCopy(as[j])
    BY <1>2, <2>1
  <2>3. QED
    BY <2>2 DEF PlainCopies
<1>6. PlainCopies(as, 0) = <<>>
  BY DEF PlainCopies
<1>7. QED
  BY <1>1, <1>3, <1>4, <1>5, <1>6

LEMMA FieldNext ==
  ASSUME NEW gs, NEW n \in Nat, NEW k, n > 0 => k = Len(gs[n].attrs)
  PROVE  Append(FieldCopies(gs, n, k), FieldCopy(gs[n + 1], 0)) = FieldCopies(gs, n + 1, 0)
<1>1. PICK t : t = FieldCopies(gs, n + 1, 0)
  OBVIOUS
<1>2. /\ t = [j \in 1..(n + 1) |-> t[j]]
      /\ \A j \in 1..(n + 1) :
           t[j] = FieldCopy(gs[j], IF j = n + 1 THEN 0 ELSE Len(gs[j].attrs))
  BY <1>1 DEF FieldCopies
<1>3. t = Append([j \in 1..n |-> t[j]], t[n + 1])
  BY <1>2, ListNext
<1>4. t[n + 1] = FieldCopy(gs[n + 1], 0)
  BY <1>2
<1>5. \A j \in 1..n : t[j] = FieldCopy(gs[j], IF j = n THEN k ELSE Len(gs[j].attrs))
  BY <1>2
<1>6. [j \in 1..n |-> t[j]] = FieldCopies(gs, n, k)
  BY <1>5 DEF FieldCopies
<1>7. QED
  BY <1>1, <1>3, <1>4, <1>6

LEMMA FieldCopyNext ==
  ASSUME NEW g, NEW k \in Nat
  PROVE  [FieldCopy(g, k) EXCEPT !.attrs = Append(@, PlainCopy(g.attrs[k + 1]))]
           = FieldCopy(g, k + 1)
<1>1. Append(PlainCopies(g.attrs, k), PlainCopy(g.attrs[k + 1])) = PlainCopies(g.attrs, k + 1)
  BY CopiesNext
<1>2. QED
  BY <1>1 DEF FieldCopy

(* The n-th member gets one attribute more. *)
WithAttribute(fs, n, a) == [fs EXCEPT ![n].attrs = Append(@, a)]

LEMMA FieldMore ==
  ASSUME NEW gs, NEW n \in Nat, n > 0, NEW k \in Nat, NEW fs, fs = FieldCopies(gs, n, k),
         NEW a, a = PlainCopy(gs[n].attrs[k + 1])
  PROVE  WithAttribute(fs, n, a) = FieldCopies(gs, n, k + 1)
<1>1. /\ fs = [j \in 1..n |-> fs[j]]
      /\ \A j \in 1..n : fs[j] = FieldCopy(gs[j], IF j = n THEN k ELSE Len(gs[j].attrs))
  BY DEF FieldCopies
<1>2. PICK t : t = FieldCopies(gs, n, k + 1)
  OBVIOUS
<1>3. /\ t = [j \in 1..n |-> t[j]]
      /\ \A j \in 1..n : t[j] = FieldCopy(gs[j], IF j = n THEN k + 1 ELSE Len(gs[j].attrs))
  BY <1>2 DEF FieldCopies
<1>4. PICK r : r = WithAttribute(fs, n, a)
  OBVIOUS
<1>5. n \in 1..n
  OBVIOUS
<1>6. /\ r = [j \in 1..n |-> r[j]] /\ r[n] = [fs[n] EXCEPT !.attrs = Append(@, a)]
      /\ \A j \in 1..n : j # n => r[j] = fs[j]
  BY <1>1, <1>4, <1>5 DEF WithAttribute
<1>7. r[n] = t[n]
  <2>1. fs[n] = FieldCopy(gs[n], k) /\ t[n] = FieldCopy(gs[n], k + 1)
    BY <1>1, <1>3, <1>5
  <2>2. PICK g, c : g = gs[n] /\ c = FieldCopy(g, k)
    OBVIOUS
  <2>3. [c EXCEPT !.attrs = Append(@, a)] = FieldCopy(g, k + 1)
    BY <2>2, FieldCopyNext
  <2>4. QED
    BY <1>6, <2>1, <2>2, <2>3
<1>8. \A j \in 1..n : r[j] = t[j]
  BY <1>1, <1>3, <1>6, <1>7
<1>9. r = t
  BY <1>3, <1>6, <1>8
<1>10. QED
  BY <1>2, <1>4, <1>9

LEMMA MemberHere ==
  ASSUME NEW gs \in Seq(Members(AnyAttributes)), NEW w \in Seq(Nat), NEW p \in Nat,
         MembersLie(w, p, gs), NEW n \in 1..Len(gs)
  PROVE  /\ gs[n].accessFlags \in Nat /\ gs[n].nameIndex \in Nat /\ gs[n].descIndex \in Nat
         /\ gs[n].attrs \in Seq(AnyAttributes) /\ Len(gs[n].attrs) \in Nat
         /\ MemberAt(gs, n - 1) \in Nat /\ MemberAt(gs, n) \in Nat
         /\ MemberLies(w, p + MemberAt(gs, n - 1), gs[n])
         /\ AttributesLie(w, p + MemberAt(gs, n - 1) + 8, gs[n].attrs)
         /\ MemberAt(gs, n) = MemberAt(gs, n - 1) + 8 + AttributeAt(gs[n].attrs, Len(gs[n].attrs))
         /\ AttributeAt(gs[n].attrs, Len(gs[n].attrs)) \in Nat
<1>1. Len(gs) \in Nat /\ gs[n] \in Members(AnyAttributes)
  BY SeqElements
<1>2. n \in 0..Len(gs) /\ n - 1 \in 0..Len(gs)
  BY <1>1, OneBack
<1>3. PICK g : g = gs[n]
  OBVIOUS
<1>4. /\ g.accessFlags \in Nat /\ g.nameIndex \in Nat /\ g.descIndex \in Nat
      /\ g.attrs \in Seq(AnyAttributes) /\ Len(g.attrs) \in Nat
  <2>1. /\ g.accessFlags \in Nat /\ g.nameIndex \in Nat /\ g.descIndex \in Nat
        /\ g.attrs \in Seq(AnyAttributes)
    BY <1>1, <1>3 DEF Members
  <2>2. QED
    BY <2>1, SeqElements
<1>5. /\ MemberAt(gs, n - 1) \in Nat /\ MemberAt(gs, n) \in Nat
      /\ MemberLies(w, p + MemberAt(gs, n - 1), g)
      /\ MemberAt(gs, n) = MemberAt(gs, n - 1) + MemberLength(g)
  BY <1>2, <1>3 DEF MembersLie
<1>6. AttributesLie(w, p + MemberAt(gs, n - 1) + 8, g.attrs)
  BY <1>5 DEF MemberLies
<1>7. AttributeAt(g.attrs, Len(g.attrs)) \in Nat
  BY <1>4, <1>6 DEF AttributesLie
<1>8. MemberAt(gs, n) = MemberAt(gs, n - 1) + 8 + AttributeAt(g.attrs, Len(g.attrs))
  BY <1>5, <1>7 DEF MemberLength
<1>9. QED
  BY <1>3, <1>4, <1>5, <1>6, <1>7, <1>8

LEMMA AttributeHere ==
  ASSUME NEW as \in Seq(AnyAttributes), NEW w, NEW p, AttributesLie(w, p, as),
         NEW k \in Nat, k < Len(as)
  PROVE  /\ as[k + 1] \in AnyAttributes /\ k + 1 \in 1..Len(as) /\ k + 1 \in 0..Len(as)
         /\ AttributeAt(as, k) \in Nat /\ AttributeAt(as, k + 1) \in Nat
         /\ AttributeLies(w, p + AttributeAt(as, k), as[k + 1])
         /\ AttributeAt(as, k + 1) = AttributeAt(as, k) + AttributeLength(as[k + 1])
         /\ p + AttributeAt(as, k + 1) <= Len(w)
<1>1. Len(as) \in Nat /\ \A j \in 1..Len(as) : as[j] \in AnyAttributes
  BY SeqElements
<1>2. k + 1 \in 1..Len(as) /\ k + 1 \in 0..Len(as) /\ k \in 0..Len(as) /\ (k + 1) - 1 = k
  <2>1. \A n \in Nat : k < n => k + 1 \in 1..n /\ k + 1 \in 0..n /\ k \in 0..n
    OBVIOUS
  <2>2. (k + 1) - 1 = k
    OBVIOUS
  <2>3. QED
    BY <1>1, <2>1, <2>2
<1>3. AttributeAt(as, k) \in Nat /\ AttributeAt(as, k + 1) \in Nat
  BY <1>2 DEF AttributesLie
<1>4. /\ AttributeAt(as, k + 1) = AttributeAt(as, (k + 1) - 1) + AttributeLength(as[k + 1])
      /\ AttributeLies(w, p + AttributeAt(as, (k + 1) - 1), as[k + 1])
      /\ p + AttributeAt(as, k + 1) <= Len(w)
  BY <1>2 DEF AttributesLie
<1>5. QED
  BY <1>1, <1>2, <1>3, <1>4

LEMMA AttrsNone == \A gs : AttrsOf(gs, 0) = <<>> /\ Len(AttrsOf(gs, 0)) = 0
BY DEF AttrsOf

LEMMA LeftIs ==
  ASSUME NEW a, NEW b, NEW c, NEW l, l = <<a, b, c>>
  PROVE  /\ l[1] = a /\ l[2] = b /\ l[3] = c
         /\ [l EXCEPT ![1] = @ - 1] = <<a - 1, b, c>>
         /\ [l EXCEPT ![2] = @ - 1] = <<a, b - 1, c>>
         /\ [l EXCEPT ![3] = @ - 1] = <<a, b, c - 1>>
OBVIOUS

-----------------------------------------------------------------------------
(* The fields.                                                             *)

LEMMA InFields ==
  ASSUME Inv, phase = "fields"
  PROVE  /\ FileRead /\ Places /\ ParametersBehind
         /\ class.methods = <<>> /\ class.attrs = <<>>
         /\ file.fields \in Seq(Members(PlainAttributes))
         /\ file.fields \in Seq(Members(AnyAttributes)) /\ Len(file.fields) \in Nat
         /\ FieldsAt(file) \in Nat /\ MembersLie(W, FieldsAt(file), file.fields)
         /\ class.pool = Numbered(file.pool) /\ class.poolCnt = Len(class.pool) + 1
         /\ \E n \in 0..Len(file.fields) :
              \E k \in 0..Len(AttrsOf(file.fields, n)) : FieldsBehind(n, k)
<1>1. FileRead /\ Places /\ ParametersBehind /\ FieldsAhead
  BY DEF Inv
<1>2. file.fields \in Seq(Members(PlainAttributes))
  BY <1>1, Here DEF WellFormed
<1>3. file.fields \in Seq(Members(AnyAttributes)) /\ Len(file.fields) \in Nat
  BY <1>2, FieldsAreMembers, SeqElements
<1>4. FieldsAt(file) \in Nat /\ MembersLie(W, FieldsAt(file), file.fields)
  BY <1>1, Here DEF FileLies
<1>5. class.pool = Numbered(file.pool) /\ class.poolCnt = Len(class.pool) + 1
  BY <1>1 DEF ParametersBehind
<1>6. /\ class.methods = <<>> /\ class.attrs = <<>>
      /\ \E n \in 0..Len(file.fields) :
           \E k \in 0..Len(AttrsOf(file.fields, n)) : FieldsBehind(n, k)
  BY <1>1 DEF FieldsAhead
<1>7. QED
  BY <1>1, <1>2, <1>3, <1>4, <1>5, <1>6

(* Behind a whole field. *)
LEMMA FieldBehind ==
  ASSUME Inv, phase = "fields", NEW n \in 0..Len(file.fields),
         NEW k, k = Len(AttrsOf(file.fields, n)), FieldsBehind(n, k)
  PROVE  /\ pos = FieldsAt(file) + MemberAt(file.fields, n) /\ pos \in Nat
         /\ n > 0 => k = Len(file.fields[n].attrs)
<1>1. /\ FileRead /\ file.fields \in Seq(Members(AnyAttributes)) /\ Len(file.fields) \in Nat
      /\ FieldsAt(file) \in Nat /\ MembersLie(W, FieldsAt(file), file.fields)
  BY InFields
<1>2. pos = FieldsAt(file) + Within(file.fields, n, k)
  BY DEF FieldsBehind
<1>3. MemberAt(file.fields, n) \in Nat /\ MemberAt(file.fields, 0) = 0
  BY <1>1 DEF MembersLie
<1>4. CASE n = 0
  BY <1>1, <1>2, <1>3, <1>4 DEF Within
<1>5. CASE n > 0
  <2>1. n \in 1..Len(file.fields)
    BY <1>1, <1>5
  <2>2. k = Len(file.fields[n].attrs)
    BY <1>1, <1>5 DEF AttrsOf
  <2>3. MemberAt(file.fields, n) =
          MemberAt(file.fields, n - 1) + 8 + AttributeAt(file.fields[n].attrs, k)
    BY <1>1, <2>1, <2>2, Here, MemberHere
  <2>4. Within(file.fields, n, k) = MemberAt(file.fields, n)
    BY <1>5, <2>3 DEF Within
  <2>5. QED
    BY <1>1, <1>2, <1>3, <2>2, <2>4
<1>6. QED
  BY <1>1, <1>4, <1>5

(* The step to the next attribute or field. *)
LEMMA FieldsKept ==
  ASSUME Inv, phase = "fields", NEW e \in Nat, e <= Len(data), pos' = e, phase' = "fields",
         UNCHANGED <<file, data>>, FileRead', NEW n \in 0..Len(file.fields),
         NEW k \in 0..Len(AttrsOf(file.fields, n)), NEW x, x = FieldCopies(file.fields, n, k),
         class' = [class EXCEPT !.fields = x],
         left' = <<Len(file.fields) - n, Len(AttrsOf(file.fields, n)) - k, 0>>,
         e = FieldsAt(file) + Within(file.fields, n, k)
  PROVE  Inv'
<1>1. /\ FileRead /\ Places /\ ParametersBehind /\ Len(file.fields) \in Nat
      /\ class.methods = <<>> /\ class.attrs = <<>> /\ class.poolCnt = Len(class.pool) + 1
      /\ class.pool = Numbered(file.pool)
  BY InFields
<1>2. /\ Shape(class') /\ class'.fields = x
      /\ class'.poolCnt = class.poolCnt /\ class'.pool = class.pool
      /\ class'.methods = class.methods /\ class'.attrs = class.attrs
      /\ class'.accessFlags = class.accessFlags /\ class'.thisClass = class.thisClass
      /\ class'.superClass = class.superClass /\ class'.interfaces = class.interfaces
  <2>1. Shape(class)
    BY <1>1 DEF Places
  <2>2. QED
    BY <2>1, WithFields, Zenon
<1>3. /\ Len(file.fields) - n \in Nat /\ Len(AttrsOf(file.fields, n)) - k \in Nat
      /\ Len(class.pool) \in Nat
  <2>1. Len(file.fields) - n \in Nat
    BY <1>1
  <2>2. Len(AttrsOf(file.fields, n)) \in Nat
    <3>1. CASE n = 0
      BY <3>1, AttrsNone
    <3>2. CASE n # 0
      <4>1. n \in 1..Len(file.fields)
        BY <1>1, <3>2
      <4>2. Len(file.fields[n].attrs) \in Nat
        BY <4>1, InFields, Here, MemberHere
      <4>3. QED
        BY <3>2, <4>2 DEF AttrsOf
    <3>3. QED
      BY <3>1, <3>2
  <2>3. Len(AttrsOf(file.fields, n)) - k \in Nat
    BY <2>2
  <2>4. Len(class.pool) \in Nat
    <3>1. file.pool \in Seq(PoolItems)
      BY <1>1, Here DEF WellFormed
    <3>2. QED
      BY <1>1, <3>1, NumberedIs, SeqElements
  <2>5. QED
    BY <2>1, <2>3, <2>4
<1>4. Places'
  <2>1. Len(class'.pool) < class'.poolCnt
    BY <1>1, <1>2, <1>3
  <2>2. PICK a, b : /\ a = Len(file.fields) - n /\ b = Len(AttrsOf(file.fields, n)) - k
                    /\ a \in Nat /\ b \in Nat /\ left' = <<a, b, 0>>
    BY <1>3
  <2>3. QED
    BY <1>1, <1>2, <2>1, <2>2, PlacesKept
<1>5. ParametersBehind'
  <2>1. /\ class.accessFlags = file.accessFlags
        /\ class.thisClass = file.thisClass /\ class.superClass = file.superClass
        /\ class.interfaces = file.interfaces
    BY <1>1 DEF ParametersBehind
  <2>2. QED
    BY <1>1, <1>2, <2>1 DEF ParametersBehind
<1>6. FieldsBehind(n, k)'
  BY <1>2 DEF FieldsBehind
<1>7. FieldsAhead'
  BY <1>1, <1>2, <1>6 DEF FieldsAhead
<1>8. QED
  BY <1>4, <1>5, <1>7, ToFields

(* The header of a member: eight bytes. *)
LEMMA ReadMember ==
  ASSUME FileRead, NEW p, NEW g, MemberLies(W, p, g), g.accessFlags \in Nat,
         g.nameIndex \in Nat, g.descIndex \in Nat, Len(g.attrs) \in Nat
  PROVE  /\ p \in Nat /\ p + 8 \in Nat /\ p + 8 <= Len(W)
         /\ p + 8 <= Len(data) =>
              /\ msRead16(p) = g.accessFlags /\ msRead16(p + 2) = g.nameIndex
              /\ msRead16(p + 4) = g.descIndex /\ msRead16(p + 6) = Len(g.attrs)
<1>1. /\ At(W, p, U2(g.accessFlags)) /\ At(W, p + 2, U2(g.nameIndex))
      /\ At(W, p + 4, U2(g.descIndex)) /\ At(W, p + 6, U2(Len(g.attrs)))
  BY DEF MemberLies
<1>2. p \in Nat /\ Len(data) \in Nat /\ Len(W) \in Nat
  BY <1>1, Here DEF At
<1>3. p + 8 <= Len(W)
  <2>1. Len(U2(Len(g.attrs))) = 2
    BY Two
  <2>2. (p + 6) + 2 <= Len(W)
    BY <1>1, <2>1 DEF At
  <2>3. QED
    BY <1>2, <2>2
<1>4. ASSUME p + 8 <= Len(data)
      PROVE  /\ msRead16(p) = g.accessFlags /\ msRead16(p + 2) = g.nameIndex
             /\ msRead16(p + 4) = g.descIndex /\ msRead16(p + 6) = Len(g.attrs)
  <2>1. /\ p + 2 <= Len(data) /\ (p + 2) + 2 <= Len(data)
        /\ (p + 4) + 2 <= Len(data) /\ (p + 6) + 2 <= Len(data)
    BY <1>2, <1>4
  <2>2. msRead16(p) = g.accessFlags
    BY <1>1, <2>1, ReadTwo
  <2>3. msRead16(p + 2) = g.nameIndex
    BY <1>1, <2>1, ReadTwo
  <2>4. msRead16(p + 4) = g.descIndex
    BY <1>1, <2>1, ReadTwo
  <2>5. msRead16(p + 6) = Len(g.attrs)
    BY <1>1, <2>1, ReadTwo
  <2>6. QED
    BY <2>2, <2>3, <2>4, <2>5
<1>5. QED
  BY <1>2, <1>3, <1>4

LEMMA FieldHeaderKeeps ==
  ASSUME Inv, FieldHeader
  PROVE  Inv'
<1>1. phase = "fields" /\ left[1] > 0 /\ left[2] = 0
  BY DEF FieldHeader
<1>2. /\ FileRead /\ file.fields \in Seq(Members(AnyAttributes)) /\ Len(file.fields) \in Nat
      /\ FieldsAt(file) \in Nat /\ MembersLie(W, FieldsAt(file), file.fields)
  BY <1>1, InFields
<1>3. PICK n \in 0..Len(file.fields) :
        \E k \in 0..Len(AttrsOf(file.fields, n)) : FieldsBehind(n, k)
  BY <1>1, InFields
<1>4. PICK k \in 0..Len(AttrsOf(file.fields, n)) : FieldsBehind(n, k)
  BY <1>3
<1>5. /\ left[1] = Len(file.fields) - n /\ left[2] = Len(AttrsOf(file.fields, n)) - k
      /\ class.fields = FieldCopies(file.fields, n, k)
  BY <1>4, LeftIs DEF FieldsBehind
<1>6. k = Len(AttrsOf(file.fields, n)) /\ n + 1 \in 1..Len(file.fields) /\ n \in Nat
      /\ n + 1 \in 0..Len(file.fields) /\ (n + 1) - 1 = n /\ n + 1 # 0
  <2>1. k = Len(AttrsOf(file.fields, n))
    <3>1. Len(AttrsOf(file.fields, n)) - k = 0 /\ k \in Int
      BY <1>1, <1>5
    <3>2. Len(AttrsOf(file.fields, n)) \in Int
      <4>1. CASE n = 0
        BY <4>1, AttrsNone
      <4>2. CASE n # 0
        <5>1. n \in 1..Len(file.fields)
          BY <1>2, <4>2
        <5>2. QED
          BY <1>2, <4>2, <5>1, Here, MemberHere DEF AttrsOf
      <4>3. QED
        BY <4>1, <4>2
    <3>3. QED
      BY <3>1, <3>2
  <2>2. n < Len(file.fields) /\ n \in Nat
    BY <1>1, <1>2, <1>5
  <2>3. QED
    BY <1>2, <2>1, <2>2
<1>7. /\ pos = FieldsAt(file) + MemberAt(file.fields, n) /\ pos \in Nat
      /\ n > 0 => k = Len(file.fields[n].attrs)
  BY <1>1, <1>4, <1>6, FieldBehind
<1>8. PICK g : g = file.fields[n + 1]
  OBVIOUS
<1>9. /\ MemberLies(W, pos, g) /\ g.accessFlags \in Nat /\ g.nameIndex \in Nat
      /\ g.descIndex \in Nat /\ Len(g.attrs) \in Nat
      /\ MemberAt(file.fields, n) \in Nat /\ AttributesLie(W, pos + 8, g.attrs)
  BY <1>2, <1>6, <1>7, <1>8, Here, MemberHere
<1>10. /\ pos + 8 \in Nat /\ pos + 8 <= Len(W)
       /\ pos + 8 <= Len(data) =>
            /\ msRead16(pos) = g.accessFlags /\ msRead16(pos + 2) = g.nameIndex
            /\ msRead16(pos + 4) = g.descIndex /\ msRead16(pos + 6) = Len(g.attrs)
  BY <1>2, <1>9, ReadMember
<1>11. PICK f, x, c, l, cnt, e :
         /\ cnt = msRead16(pos + 6) /\ e = pos + 8
         /\ f = [accessFlags |-> msRead16(pos), nameIndex |-> msRead16(pos + 2),
                 descIndex |-> msRead16(pos + 4), attrs |-> <<>>]
         /\ x = Append(class.fields, f)
         /\ c = [class EXCEPT !.fields = x]
         /\ l = <<left[1] - 1, cnt, 0>>
  OBVIOUS
<1>12. Step(e, cnt, "fields", l, c)
  BY <1>11 DEF FieldHeader
<1>13. CASE Inv'
  BY <1>13
<1>14. CASE ~Inv'
  <2>1. /\ e <= Len(data) /\ pos' = e /\ phase' = "fields" /\ left' = l
        /\ class' = c /\ UNCHANGED <<file, data>> /\ FileRead'
    BY <1>10, <1>11, <1>12, <1>14, StepKeeps
  <2>2. f = FieldCopy(g, 0)
    <3>1. /\ msRead16(pos) = g.accessFlags /\ msRead16(pos + 2) = g.nameIndex
          /\ msRead16(pos + 4) = g.descIndex
      BY <1>10, <1>11, <2>1
    <3>2. PlainCopies(g.attrs, 0) = <<>>
      BY CopiesNext
    <3>3. QED
      BY <1>11, <3>1, <3>2 DEF FieldCopy
  <2>3. x = FieldCopies(file.fields, n + 1, 0)
    BY <1>5, <1>6, <1>7, <1>8, <1>11, <2>2, FieldNext
  <2>4. AttrsOf(file.fields, n + 1) = g.attrs
    BY <1>6, <1>8 DEF AttrsOf
  <2>5. 0 \in 0..Len(AttrsOf(file.fields, n + 1))
    BY <1>9, <2>4
  <2>6. left' = <<Len(file.fields) - (n + 1), Len(AttrsOf(file.fields, n + 1)) - 0, 0>>
    <3>1. cnt = Len(g.attrs)
      BY <1>10, <1>11, <2>1
    <3>2. (Len(file.fields) - n) - 1 = Len(file.fields) - (n + 1)
      BY <1>2, <1>6
    <3>3. Len(g.attrs) - 0 = Len(g.attrs)
      BY <1>9
    <3>4. QED
      BY <1>5, <1>11, <2>1, <2>4, <3>1, <3>2, <3>3
  <2>7. e = FieldsAt(file) + Within(file.fields, n + 1, 0)
    <3>1. AttributeAt(g.attrs, 0) = 0
      BY <1>9 DEF AttributesLie
    <3>2. Within(file.fields, n + 1, 0) = MemberAt(file.fields, n) + 8 + 0
      BY <1>6, <1>8, <3>1 DEF Within
    <3>3. QED
      BY <1>2, <1>7, <1>9, <1>11, <3>2
  <2>8. e \in Nat /\ class' = [class EXCEPT !.fields = x]
    BY <1>10, <1>11, <2>1
  <2>9. QED
    BY <1>1, <1>6, <2>1, <2>3, <2>5, <2>6, <2>7, <2>8, FieldsKept
<1>15. QED
  BY <1>13, <1>14

(* What remains to come. *)
LEMMA Fewer ==
  ASSUME NEW n \in Nat, NEW k \in Nat
  PROVE  /\ n - k > 0 => k < n /\ (n - k) - 1 = n - (k + 1)
         /\ n - k = 0 => k = n
OBVIOUS

LEMMA FieldAttributeKeeps ==
  ASSUME Inv, FieldAttribute
  PROVE  Inv'
<1>1. phase = "fields" /\ left[2] > 0
  BY DEF FieldAttribute
<1>2. /\ FileRead /\ file.fields \in Seq(Members(AnyAttributes)) /\ Len(file.fields) \in Nat
      /\ file.fields \in Seq(Members(PlainAttributes))
      /\ FieldsAt(file) \in Nat /\ MembersLie(W, FieldsAt(file), file.fields)
  BY <1>1, InFields
<1>3. PICK n, k : /\ n \in 0..Len(file.fields) /\ k \in 0..Len(AttrsOf(file.fields, n))
                  /\ FieldsBehind(n, k)
  BY <1>1, InFields
<1>4. PICK as, len : as = AttrsOf(file.fields, n) /\ len = Len(as)
  OBVIOUS
<1>5. /\ left = <<Len(file.fields) - n, len - k, 0>> /\ len - k > 0
      /\ [left EXCEPT ![2] = @ - 1] = <<Len(file.fields) - n, (len - k) - 1, 0>>
      /\ class.fields = FieldCopies(file.fields, n, k)
      /\ pos = FieldsAt(file) + Within(file.fields, n, k)
  BY <1>1, <1>3, <1>4, LeftIs DEF FieldsBehind
<1>6. n # 0
  <2>1. ASSUME n = 0 PROVE FALSE
    <3>1. len = 0
      BY <1>4, <2>1, AttrsNone
    <3>2. k \in 0..0
      BY <1>3, <1>4, <3>1
    <3>3. 0 - k > 0
      BY <1>5, <3>1
    <3>4. QED
      BY <3>2, <3>3
  <2>2. QED
    BY <2>1
<1>7. n \in 1..Len(file.fields) /\ n \in Nat /\ n > 0
  BY <1>2, <1>3, <1>6
<1>8. as = file.fields[n].attrs
  BY <1>4, <1>6 DEF AttrsOf
<1>9. PICK f, o, p : /\ f = FieldsAt(file) /\ o = MemberAt(file.fields, n - 1)
                     /\ p = f + o + 8
  OBVIOUS
<1>10. /\ as \in Seq(AnyAttributes) /\ AttributesLie(W, p, as) /\ f \in Nat /\ o \in Nat
  BY <1>2, <1>7, <1>8, <1>9, Here, MemberHere
<1>11. k \in Nat /\ len \in Nat
  <2>1. len \in Nat
    BY <1>4, <1>10, SeqElements
  <2>2. k \in 0..len
    BY <1>3, <1>4
  <2>3. QED
    BY <2>1, <2>2
<1>12. k < len /\ (len - k) - 1 = len - (k + 1)
  BY <1>5, <1>11, Fewer
<1>13. PICK a, u, v, l : /\ a = as[k + 1] /\ u = AttributeAt(as, k)
                         /\ v = AttributeAt(as, k + 1) /\ l = AttributeLength(a)
  OBVIOUS
<1>14. k < Len(as)
  BY <1>4, <1>12
<1>15. /\ a \in AnyAttributes /\ k + 1 \in 1..Len(as) /\ k + 1 \in 0..Len(as)
       /\ u \in Nat /\ v \in Nat /\ AttributeLies(W, p + u, a) /\ v = u + l
       /\ p + v <= Len(W)
  BY <1>10, <1>11, <1>13, <1>14, AttributeHere
<1>16. pos = p + u
  <2>1. pos = f + (o + 8 + u)
    BY <1>5, <1>6, <1>8, <1>9, <1>13 DEF Within
  <2>2. QED
    BY <1>9, <1>10, <1>15, <2>1
<1>17. a.code = NoCode
  <2>1. file.fields[n] \in Members(PlainAttributes)
    BY <1>2, <1>7, SeqElements
  <2>2. as \in Seq(PlainAttributes)
    BY <1>8, <2>1 DEF Members
  <2>3. a \in PlainAttributes
    BY <1>13, <1>15, <2>2, SeqElements
  <2>4. QED
    BY <2>3 DEF PlainAttributes
<1>18. PICK size, end, e : /\ size = AttributeSize(pos) /\ end = pos + size /\ e = pos + l
  OBVIOUS
<1>19. /\ size \in Nat /\ l \in Nat /\ pos \in Nat
       /\ end <= Len(data) \/ e <= Len(data) => size = l /\ Attribute(pos) = PlainCopy(a)
  BY <1>2, <1>13, <1>15, <1>16, <1>17, <1>18, ReadAttribute
<1>20. e = p + v /\ e \in Nat /\ end \in Nat
  <2>1. p \in Nat
    BY <1>9, <1>10
  <2>2. e = (p + u) + l
    BY <1>16, <1>18
  <2>3. QED
    BY <1>15, <1>18, <1>19, <2>1, <2>2
<1>21. Len(class.fields) = n
  BY <1>5, <1>7 DEF FieldCopies
<1>22. PICK fs, b, x, c, nleft, memory :
         /\ fs = class.fields /\ b = Attribute(pos)
         /\ x = WithAttribute(fs, n, b)
         /\ c = [class EXCEPT !.fields = x] /\ nleft = [left EXCEPT ![2] = @ - 1]
         /\ memory = msRead32(pos + 2)
  OBVIOUS
<1>23. Step(end, memory, "fields", nleft, c)
  <2>1. [class EXCEPT !.fields[Len(class.fields)].attrs = Append(@, Attribute(pos))] = c
    BY <1>21, <1>22 DEF WithAttribute
  <2>2. QED
    BY <1>18, <1>22, <2>1 DEF FieldAttribute
<1>24. CASE Inv'
  BY <1>24
<1>25. CASE ~Inv'
  <2>1. e <= Len(data) \/ end <= Len(data) => end = e
    BY <1>18, <1>19
  <2>2. e <= Len(W)
    BY <1>15, <1>20
  <2>3. /\ e <= Len(data) /\ pos' = e /\ phase' = "fields" /\ left' = nleft
        /\ class' = c /\ UNCHANGED <<file, data>> /\ FileRead'
    BY <1>20, <1>23, <1>25, <2>1, <2>2, StepKeeps
  <2>4. b = PlainCopy(file.fields[n].attrs[k + 1])
    BY <1>8, <1>13, <1>19, <1>22, <2>3
  <2>5. x = FieldCopies(file.fields, n, k + 1)
    <3>1. fs = FieldCopies(file.fields, n, k)
      BY <1>5, <1>22
    <3>2. PICK gs : gs = file.fields
      OBVIOUS
    <3>3. /\ n \in Nat /\ n > 0 /\ k \in Nat /\ fs = FieldCopies(gs, n, k)
          /\ b = PlainCopy(gs[n].attrs[k + 1])
      BY <1>7, <1>11, <2>4, <3>1, <3>2
    <3>4. WithAttribute(fs, n, b) = FieldCopies(gs, n, k + 1)
      BY <3>3, FieldMore
    <3>5. QED
      BY <1>22, <3>2, <3>4
  <2>6. left' = <<Len(file.fields) - n, Len(AttrsOf(file.fields, n)) - (k + 1), 0>>
    BY <1>4, <1>5, <1>12, <1>22, <2>3
  <2>7. e = FieldsAt(file) + Within(file.fields, n, k + 1)
    <3>1. Within(file.fields, n, k + 1) = o + 8 + v
      BY <1>6, <1>8, <1>9, <1>13 DEF Within
    <3>2. p + v = f + (o + 8 + v)
      BY <1>9, <1>10, <1>15
    <3>3. QED
      BY <1>9, <1>20, <3>1, <3>2
  <2>8. k + 1 \in 0..Len(AttrsOf(file.fields, n)) /\ class' = [class EXCEPT !.fields = x]
    BY <1>4, <1>15, <1>22, <2>3
  <2>9. QED
    BY <1>1, <1>3, <1>20, <2>3, <2>5, <2>6, <2>7, <2>8, FieldsKept
<1>26. QED
  BY <1>24, <1>25

LEMMA PlainsSame ==
  ASSUME NEW S, NEW as \in Seq(S)
  PROVE  SameList(SamePlain, PlainCopies(as, Len(as)), as)
<1>1. PICK n, t : n = Len(as) /\ t = PlainCopies(as, n)
  OBVIOUS
<1>2. n \in Nat
  BY <1>1, SeqElements
<1>3. t = [j \in 1..n |-> t[j]] /\ \A j \in 1..n : t[j] = PlainCopy(as[j])
  BY <1>1 DEF PlainCopies
<1>4. Len(t) = n /\ DOMAIN t = 1..n
  BY <1>2, <1>3
<1>5. \A j \in 1..n : SamePlain(t[j], as[j])
  <2>1. \A a : SamePlain(PlainCopy(a), a)
    BY DEF SamePlain, PlainCopy
  <2>2. QED
    BY <1>3, <2>1
<1>6. QED
  BY <1>1, <1>4, <1>5 DEF SameList

LEMMA FieldsSame ==
  ASSUME NEW gs \in Seq(Members(AnyAttributes)), NEW k,
         Len(gs) > 0 => k = Len(gs[Len(gs)].attrs)
  PROVE  SameList(SameField, FieldCopies(gs, Len(gs), k), gs)
<1>1. /\ Len(gs) \in Nat /\ DOMAIN gs = 1..Len(gs)
      /\ \A j \in 1..Len(gs) : gs[j] \in Members(AnyAttributes)
  BY SeqElements
<1>2. PICK fs, n : fs = FieldCopies(gs, n, k) /\ n = Len(gs)
  OBVIOUS
<1>3. /\ fs = [j \in 1..n |-> fs[j]] /\ n \in Nat
      /\ \A j \in 1..n : fs[j] = FieldCopy(gs[j], IF j = n THEN k ELSE Len(gs[j].attrs))
  BY <1>1, <1>2 DEF FieldCopies
<1>4. Len(fs) = n /\ DOMAIN fs = 1..n
  BY <1>3
<1>5. ASSUME NEW j \in 1..n PROVE SameField(fs[j], gs[j])
  <2>1. fs[j] = FieldCopy(gs[j], Len(gs[j].attrs))
    <3>1. n > 0
      BY <1>3
    <3>2. QED
      BY <1>2, <1>3, <3>1
  <2>2. PICK g, as : g = gs[j] /\ as = g.attrs
    OBVIOUS
  <2>3. as \in Seq(AnyAttributes)
    BY <1>1, <1>2, <2>2 DEF Members
  <2>4. Len(as) \in Nat /\ DOMAIN as = 1..Len(as)
    BY <2>3, SeqElements
  <2>5. SameList(SamePlain, PlainCopies(as, Len(as)), as)
    BY <2>3, PlainsSame
  <2>6. QED
    BY <2>1, <2>2, <2>5 DEF FieldCopy, SameField
<1>6. QED
  BY <1>2, <1>4, <1>5 DEF SameList

LEMMA FieldsDoneKeeps ==
  ASSUME Inv, FieldsDone
  PROVE  Inv'
<1>1. phase = "fields" /\ left = <<0, 0, 0>>
  BY DEF FieldsDone
<1>2. /\ FileRead /\ Places /\ ParametersBehind
      /\ file.fields \in Seq(Members(AnyAttributes)) /\ Len(file.fields) \in Nat
      /\ FieldsAt(file) \in Nat /\ MembersLie(W, FieldsAt(file), file.fields)
      /\ class.methods = <<>> /\ class.attrs = <<>>
      /\ class.pool = Numbered(file.pool) /\ class.poolCnt = Len(class.pool) + 1
  BY <1>1, InFields
<1>3. PICK n, k : /\ n \in 0..Len(file.fields) /\ k \in 0..Len(AttrsOf(file.fields, n))
                  /\ FieldsBehind(n, k)
  BY <1>1, InFields
<1>4. PICK as, len, cnt : as = AttrsOf(file.fields, n) /\ len = Len(as) /\ cnt = Len(file.fields)
  OBVIOUS
<1>5. /\ cnt - n = 0 /\ len - k = 0 /\ class.fields = FieldCopies(file.fields, n, k)
  <2>1. left = <<cnt - n, len - k, 0>> /\ class.fields = FieldCopies(file.fields, n, k)
    BY <1>3, <1>4 DEF FieldsBehind
  <2>2. left[1] = cnt - n /\ left[2] = len - k
    BY <2>1, LeftIs
  <2>3. left[1] = 0 /\ left[2] = 0
    BY <1>1
  <2>4. QED
    BY <2>1, <2>2, <2>3
<1>6. cnt \in Nat /\ n \in Nat /\ len \in Nat /\ k \in Nat
  <2>1. cnt \in Nat /\ n \in 0..cnt
    BY <1>2, <1>3, <1>4
  <2>2. len \in Nat
    <3>1. CASE n = 0
      BY <1>4, <3>1, AttrsNone
    <3>2. CASE n # 0
      <4>1. n \in 1..Len(file.fields)
        BY <1>4, <2>1, <3>2
      <4>2. Len(file.fields[n].attrs) \in Nat
        BY <1>2, <4>1, Here, MemberHere
      <4>3. QED
        BY <1>4, <3>2, <4>2 DEF AttrsOf
    <3>3. QED
      BY <3>1, <3>2
  <2>3. k \in 0..len
    BY <1>3, <1>4
  <2>4. QED
    BY <2>1, <2>2, <2>3
<1>7. n = cnt /\ k = len
  BY <1>5, <1>6, Fewer
<1>8. /\ pos = FieldsAt(file) + MemberAt(file.fields, n) /\ pos \in Nat
      /\ n > 0 => k = Len(file.fields[n].attrs)
  BY <1>1, <1>3, <1>4, <1>7, FieldBehind
<1>9. MethodsAt(file) = pos + 2
  BY <1>4, <1>7, <1>8 DEF MethodsAt
<1>10. PICK ms, mcnt, e, v : /\ ms = file.methods /\ mcnt = Len(ms) /\ e = pos + 2
                             /\ v = msRead16(pos)
  OBVIOUS
<1>11. ms \in Seq(Members(AnyAttributes)) /\ mcnt \in Nat
  <2>1. ms \in Seq(Members(AnyAttributes))
    BY <1>2, <1>10, Here DEF WellFormed, AnyAttributes
  <2>2. QED
    BY <1>10, <2>1, SeqElements
<1>12. At(W, pos, U2(mcnt)) /\ e <= Len(W) /\ e \in Nat
  <2>1. At(W, MethodsAt(file) - 2, U2(mcnt))
    BY <1>2, <1>10, Here DEF FileLies
  <2>2. MethodsAt(file) - 2 = pos
    BY <1>8, <1>9
  <2>3. Len(U2(mcnt)) = 2
    BY <1>11, Two
  <2>4. QED
    BY <1>8, <1>10, <2>1, <2>2, <2>3 DEF At
<1>13. Step(e, v, "methods", <<v, 0, 0>>, class)
  BY <1>10 DEF FieldsDone
<1>14. CASE Inv'
  BY <1>14
<1>15. CASE ~Inv'
  <2>1. PICK l, c : l = <<v, 0, 0>> /\ c = class
    OBVIOUS
  <2>2. /\ e <= Len(data) /\ pos' = e /\ phase' = "methods" /\ left' = l
        /\ class' = c /\ UNCHANGED <<file, data>> /\ FileRead'
    BY <1>12, <1>13, <1>15, <2>1, StepKeeps
  <2>3. v = mcnt
    BY <1>2, <1>10, <1>11, <1>12, <2>2, ReadTwo
  <2>4. Places'
    <3>1. Shape(class') /\ Len(class'.pool) < class'.poolCnt
      <4>1. file.pool \in Seq(PoolItems)
        BY <1>2, Here DEF WellFormed
      <4>2. Len(class.pool) \in Nat
        BY <1>2, <4>1, NumberedIs, SeqElements
      <4>3. Len(class.pool) < class.poolCnt
        BY <1>2, <4>2
      <4>4. QED
        BY <1>2, <2>1, <2>2, <4>3 DEF Places
    <3>2. left' = <<mcnt, 0, 0>>
      BY <2>1, <2>2, <2>3
    <3>3. QED
      BY <1>2, <1>11, <1>12, <2>2, <3>1, <3>2, PlacesKept
  <2>5. ParametersBehind'
    BY <1>1, <1>2, <2>1, <2>2 DEF ParametersBehind
  <2>6. FieldsRight'
    <3>1. SameList(SameField, class.fields, file.fields)
      BY <1>2, <1>4, <1>5, <1>7, <1>8, FieldsSame
    <3>2. QED
      BY <2>1, <2>2, <3>1 DEF FieldsRight
  <2>7. MethodsBehind(0, 0, 0)'
    <3>1. AttrsOf(ms, 0) = <<>> /\ Len(AttrsOf(ms, 0)) = 0 /\ InMethods(ms, 0, 0, 0) = 0
          /\ OwnCount(AttrsOf(ms, 0), 0) = 0
      BY AttrsNone DEF InMethods, OwnCount
    <3>2. left' = <<mcnt - 0, 0 - 0, 0 - 0>>
      BY <1>11, <2>1, <2>2, <2>3
    <3>3. pos' = MethodsAt(file) + 0
      BY <1>8, <1>9, <1>10, <2>2
    <3>4. class'.methods = [j \in 1..0 |-> class'.methods[j]]
      BY <1>2, <2>1, <2>2
    <3>5. file' = file /\ MethodsAt(file') = MethodsAt(file) /\ file'.methods = ms
      BY <1>10, <2>2
    <3>6. 1..(0 - 1) = {} /\ ~(0 > 0)
      OBVIOUS
    <3>7. left' = <<Len(file'.methods) - 0, Len(AttrsOf(file'.methods, 0)) - 0,
                    OwnCount(AttrsOf(file'.methods, 0), 0) - 0>>
      BY <1>10, <3>1, <3>2, <3>5
    <3>8. pos' = MethodsAt(file') + InMethods(file'.methods, 0, 0, 0)
      BY <3>1, <3>3, <3>5
    <3>9. QED
      BY <3>4, <3>6, <3>7, <3>8 DEF MethodsBehind
  <2>8. MethodsAhead'
    <3>1. 0 \in 0..Len(file'.methods) /\ 0 \in 0..Len(AttrsOf(file'.methods, 0))
          /\ 0 \in 0..OwnCount(AttrsOf(file'.methods, 0), 0)
      <4>1. 0 \in 0..mcnt
        BY <1>11
      <4>2. file'.methods = ms
        BY <1>10, <2>2
      <4>3. Len(AttrsOf(ms, 0)) = 0 /\ OwnCount(AttrsOf(ms, 0), 0) = 0
        BY AttrsNone DEF OwnCount
      <4>4. QED
        BY <1>10, <4>1, <4>2, <4>3
    <3>2. class'.attrs = <<>>
      BY <1>2, <2>1, <2>2
    <3>3. QED
      BY <2>7, <3>1, <3>2 DEF MethodsAhead
  <2>9. QED
    BY <2>2, <2>4, <2>5, <2>6, <2>8, ToMethods
<1>16. QED
  BY <1>14, <1>15

-----------------------------------------------------------------------------
(* The methods.                                                            *)

(* The n-th method becomes f. *)
WithMember(fs, n, f) == [fs EXCEPT ![n] = f]

(* What the steps make of a method. *)
MethodWithAttribute(f, a) == [f EXCEPT !.attrs = Append(@, a)]
MethodWithCode(f, a, c) == [f EXCEPT !.attrs = Append(@, a), !.code = c]
CodeWithAttribute(f, a) == [f EXCEPT !.code.attrs = Append(@, a)]

Blank == [nameIndex |-> 0, info |-> <<>>]

LEMMA MethodCopiesNext ==
  ASSUME NEW as, NEW k \in Nat
  PROVE  /\ Append(MethodCopies(as, k), MethodCopy(as[k + 1])) = MethodCopies(as, k + 1)
         /\ MethodCopies(as, 0) = <<>>
<1>1. PICK t : t = MethodCopies(as, k + 1)
  OBVIOUS
<1>2. t = [j \in 1..(k + 1) |-> t[j]] /\ \A j \in 1..(k + 1) : t[j] = MethodCopy(as[j])
  BY <1>1 DEF MethodCopies
<1>3. t = Append([j \in 1..k |-> t[j]], t[k + 1])
  BY <1>2, ListNext
<1>4. t[k + 1] = MethodCopy(as[k + 1])
  <2>1. k + 1 \in 1..(k + 1)
    OBVIOUS
  <2>2. QED
    BY <1>2, <2>1
<1>5. [j \in 1..k |-> t[j]] = MethodCopies(as, k)
  <2>1. \A j \in 1..k : j \in 1..(k + 1)
    OBVIOUS
  <2>2. \A j \in 1..k : t[j] = MethodCopy(as[j])
    BY <1>2, <2>1
  <2>3. QED
    BY <2>2 DEF MethodCopies
<1>6. MethodCopies(as, 0) = <<>>
  BY DEF MethodCopies
<1>7. QED
  BY <1>1, <1>3, <1>4, <1>5, <1>6

(* A method as it is behind k attributes, with this code. *)
MethodMade(g, k, code) ==
  [accessFlags |-> g.accessFlags, nameIndex |-> g.nameIndex, descIndex |-> g.descIndex,
   attrs |-> MethodCopies(g.attrs, k), code |-> code]

OwnAttribute(code, a) == [code EXCEPT !.attrs = Append(@, a)]

LEMMA MadeWith ==
  ASSUME NEW g, NEW k \in Nat, NEW code, NEW a
  PROVE  /\ MethodMade(g, k, code).code = code
         /\ CodeWithAttribute(MethodMade(g, k, code), a)
              = MethodMade(g, k, OwnAttribute(code, a))
         /\ a = MethodCopy(g.attrs[k + 1]) =>
              MethodWithAttribute(MethodMade(g, k, code), a) = MethodMade(g, k + 1, code)
<1>1. MethodMade(g, k, code).code = code
  BY DEF MethodMade
<1>2. CodeWithAttribute(MethodMade(g, k, code), a)
        = MethodMade(g, k, OwnAttribute(code, a))
  BY DEF CodeWithAttribute, MethodMade, OwnAttribute
<1>3. ASSUME a = MethodCopy(g.attrs[k + 1])
      PROVE  Append(MethodCopies(g.attrs, k), a) = MethodCopies(g.attrs, k + 1)
  BY <1>3, MethodCopiesNext
<1>4. ASSUME a = MethodCopy(g.attrs[k + 1])
      PROVE  MethodWithAttribute(MethodMade(g, k, code), a) = MethodMade(g, k + 1, code)
  <2>1. Append(MethodCopies(g.attrs, k), a) = MethodCopies(g.attrs, k + 1)
    BY <1>3, <1>4
  <2>2. QED
    BY <2>1 DEF MethodWithAttribute, MethodMade
<1>5. QED
  BY <1>1, <1>2, <1>4

LEMMA MadeWithCode ==
  ASSUME NEW g, NEW k \in Nat, NEW code, NEW c, g.attrs[k + 1].code # NoCode
  PROVE  MethodWithCode(MethodMade(g, k, code), Blank, c) = MethodMade(g, k + 1, c)
<1>1. PICK a : a = MethodCopy(g.attrs[k + 1])
  OBVIOUS
<1>2. a = Blank
  BY <1>1 DEF Blank, MethodCopy
<1>3. MethodWithAttribute(MethodMade(g, k, code), a) = MethodMade(g, k + 1, code)
  BY <1>1, MadeWith
<1>4. \A f : MethodWithCode(f, a, c) = [MethodWithAttribute(f, a) EXCEPT !.code = c]
  BY DEF MethodWithCode, MethodWithAttribute
<1>5. [MethodMade(g, k + 1, code) EXCEPT !.code = c] = MethodMade(g, k + 1, c)
  BY DEF MethodMade
<1>6. QED
  BY <1>2, <1>3, <1>4, <1>5

LEMMA RightIs ==
  ASSUME NEW f, NEW g, NEW k, NEW l
  PROVE  MethodRight(f, g, k, l)
            <=> f = MethodMade(g, k, f.code) /\ CodeRight(f.code, g.attrs, k, l)
BY DEF MethodRight, MethodMade

(* The code that is there stays when an attribute comes that is no code. *)
LEMMA PlainKeepsRight ==
  ASSUME NEW f, NEW g, NEW k \in Nat, MethodRight(f, g, k, OwnCount(g.attrs, k)),
         g.attrs[k + 1].code = NoCode
  PROVE  MethodRight(MethodWithAttribute(f, PlainCopy(g.attrs[k + 1])), g, k + 1, 0)
<1>1. PICK as, a, code, l : /\ as = g.attrs /\ a = PlainCopy(as[k + 1]) /\ code = f.code
                            /\ l = OwnCount(as, k)
  OBVIOUS
<1>2. f = MethodMade(g, k, code) /\ CodeRight(code, as, k, l)
  BY <1>1, RightIs
<1>3. a = MethodCopy(g.attrs[k + 1])
  BY <1>1 DEF MethodCopy
<1>4. PICK r : r = MethodWithAttribute(f, a)
  OBVIOUS
<1>5. r = MethodMade(g, k + 1, code)
  <2>1. MethodWithAttribute(MethodMade(g, k, code), a) = MethodMade(g, k + 1, code)
    BY <1>3, MadeWith
  <2>2. QED
    BY <1>2, <1>4, <2>1
<1>6. r.code = code
  BY <1>5 DEF MethodMade
<1>7. CodeRight(code, as, k + 1, 0)
  <2>1. as[k + 1].code = NoCode
    BY <1>1
  <2>2. \A j \in 1..(k + 1) : j \in 1..k \/ j = k + 1
    OBVIOUS
  <2>3. CASE code = NoCode /\ \A j \in 1..k : as[j].code = NoCode
    BY <2>1, <2>2, <2>3 DEF CodeRight
  <2>4. CASE \E j \in 1..k : \E base \in Bases :
               /\ as[j].code # NoCode
               /\ code = CodeCopy(as[j], base, IF j = k THEN l ELSE Len(as[j].code.attrs))
    <3>1. PICK j, base : /\ j \in 1..k /\ base \in Bases /\ as[j].code # NoCode
                         /\ code = CodeCopy(as[j], base, IF j = k THEN l ELSE Len(as[j].code.attrs))
      BY <2>4
    <3>2. j # 0 /\ j \in 1..(k + 1) /\ j # k + 1
      BY <3>1
    <3>3. j = k => l = Len(as[j].code.attrs)
      BY <1>1, <3>1, <3>2 DEF OwnCount
    <3>4. code = CodeCopy(as[j], base, Len(as[j].code.attrs))
      BY <3>1, <3>3
    <3>5. code = CodeCopy(as[j], base, IF j = k + 1 THEN 0 ELSE Len(as[j].code.attrs))
      BY <3>2, <3>4
    <3>6. QED
      BY <3>1, <3>2, <3>5 DEF CodeRight
  <2>5. QED
    BY <1>2, <2>3, <2>4 DEF CodeRight
<1>8. QED
  BY <1>1, <1>4, <1>5, <1>6, <1>7, RightIs

LEMMA CodeMakesRight ==
  ASSUME NEW f, NEW g, NEW k \in Nat, NEW l, MethodRight(f, g, k, l),
         g.attrs[k + 1].code # NoCode, NEW base \in Bases
  PROVE  MethodRight(MethodWithCode(f, Blank, CodeCopy(g.attrs[k + 1], base, 0)), g, k + 1, 0)
<1>1. PICK code, c, r : /\ code = f.code /\ c = CodeCopy(g.attrs[k + 1], base, 0)
                        /\ r = MethodWithCode(f, Blank, c)
  OBVIOUS
<1>2. f = MethodMade(g, k, code)
  BY <1>1, RightIs
<1>3. MethodWithCode(MethodMade(g, k, code), Blank, c) = MethodMade(g, k + 1, c)
  BY MadeWithCode
<1>4. r = MethodMade(g, k + 1, c)
  BY <1>1, <1>2, <1>3
<1>5. r.code = c
  BY <1>4 DEF MethodMade
<1>6. CodeRight(c, g.attrs, k + 1, 0)
  <2>1. k + 1 \in 1..(k + 1)
    OBVIOUS
  <2>2. c = CodeCopy(g.attrs[k + 1], base, IF k + 1 = k + 1 THEN 0
                                           ELSE Len(g.attrs[k + 1].code.attrs))
    BY <1>1
  <2>3. QED
    BY <2>1, <2>2 DEF CodeRight
<1>7. QED
  BY <1>1, <1>4, <1>5, <1>6, RightIs

LEMMA CodeCopyNext ==
  ASSUME NEW a, NEW base, NEW l \in Nat
  PROVE  OwnAttribute(CodeCopy(a, base, l), PlainCopy(a.code.attrs[l + 1]))
           = CodeCopy(a, base, l + 1)
<1>1. PICK b, v, w, x, y, z : /\ b = PlainCopy(a.code.attrs[l + 1])
                              /\ v = PlainCopies(a.code.attrs, l)
                              /\ w = PlainCopies(a.code.attrs, l + 1)
                              /\ x = Block(base, a.code.code) /\ y = Len(CodeBytes(a.code))
                              /\ z = Len(a.code.code)
  OBVIOUS
<1>2. Append(v, b) = w
  BY <1>1, CopiesNext
<1>3. PICK c, d :
        /\ c = [attrNameIndex |-> a.nameIndex, attrLength |-> y, maxStack |-> a.code.maxStack,
                maxLocals |-> a.code.maxLocals, codeLength |-> z, base |-> base, code |-> x,
                eTable |-> a.code.eTable, attrs |-> v]
        /\ d = [attrNameIndex |-> a.nameIndex, attrLength |-> y, maxStack |-> a.code.maxStack,
                maxLocals |-> a.code.maxLocals, codeLength |-> z, base |-> base, code |-> x,
                eTable |-> a.code.eTable, attrs |-> w]
  OBVIOUS
<1>4. CodeCopy(a, base, l) = c /\ CodeCopy(a, base, l + 1) = d
  BY <1>1, <1>3 DEF CodeCopy
<1>5. OwnAttribute(c, b) = d
  BY <1>2, <1>3 DEF OwnAttribute
<1>6. QED
  BY <1>1, <1>4, <1>5

LEMMA OwnKeepsRight ==
  ASSUME NEW f, NEW g, NEW k \in Nat, k > 0, NEW l \in Nat, MethodRight(f, g, k, l),
         g.attrs[k].code # NoCode, \A j \in 1..k : g.attrs[j].code # NoCode => j = k
  PROVE  MethodRight(CodeWithAttribute(f, PlainCopy(g.attrs[k].code.attrs[l + 1])), g, k, l + 1)
<1>1. PICK as, code, a, r : /\ as = g.attrs /\ code = f.code
                            /\ a = PlainCopy(as[k].code.attrs[l + 1])
                            /\ r = CodeWithAttribute(f, a)
  OBVIOUS
<1>2. f = MethodMade(g, k, code) /\ CodeRight(code, as, k, l)
  BY <1>1, RightIs
<1>3. k \in 1..k /\ as[k].code # NoCode
  BY <1>1
<1>4. PICK base \in Bases : code = CodeCopy(as[k], base, l)
  <2>1. ~(\A j \in 1..k : as[j].code = NoCode)
    BY <1>3
  <2>2. PICK j, base : /\ j \in 1..k /\ base \in Bases /\ as[j].code # NoCode
                       /\ code = CodeCopy(as[j], base, IF j = k THEN l ELSE Len(as[j].code.attrs))
    BY <1>2, <2>1 DEF CodeRight
  <2>3. j = k
    BY <1>1, <2>2
  <2>4. QED
    BY <2>2, <2>3
<1>5. PICK c : c = CodeCopy(as[k], base, l + 1)
  OBVIOUS
<1>6. OwnAttribute(code, a) = c
  BY <1>1, <1>4, <1>5, CodeCopyNext
<1>7. r = MethodMade(g, k, c)
  <2>1. r = CodeWithAttribute(MethodMade(g, k, code), a)
    BY <1>1, <1>2
  <2>2. CodeWithAttribute(MethodMade(g, k, code), a)
          = MethodMade(g, k, OwnAttribute(code, a))
    BY MadeWith
  <2>3. QED
    BY <1>6, <2>1, <2>2
<1>8. r.code = c
  BY <1>7 DEF MethodMade
<1>9. CodeRight(c, as, k, l + 1)
  BY <1>3, <1>5 DEF CodeRight
<1>10. QED
  BY <1>1, <1>7, <1>8, <1>9, RightIs

LEMMA MethodsHere ==
  ASSUME Inv, phase = "methods"
  PROVE  /\ FileRead /\ Places /\ ParametersBehind /\ FieldsRight /\ class.attrs = <<>>
         /\ file.methods \in Seq(Members(AnyAttributes)) /\ Len(file.methods) \in Nat
         /\ MethodsAt(file) \in Nat /\ MembersLie(W, MethodsAt(file), file.methods)
         /\ class.pool = Numbered(file.pool) /\ class.poolCnt = Len(class.pool) + 1
         /\ \A j \in 1..Len(file.methods) : MethodFits(file.pool, file.methods[j])
         /\ \E n, k, l : /\ n \in 0..Len(file.methods)
                         /\ k \in 0..Len(AttrsOf(file.methods, n))
                         /\ l \in 0..OwnCount(AttrsOf(file.methods, n), k)
                         /\ MethodsBehind(n, k, l)
<1>1. FileRead /\ Places /\ ParametersBehind /\ FieldsRight /\ MethodsAhead
  BY DEF Inv
<1>2. file.methods \in Seq(Members(AnyAttributes))
  BY <1>1, Here DEF WellFormed, AnyAttributes
<1>3. Len(file.methods) \in Nat /\ DOMAIN file.methods = 1..Len(file.methods)
  BY <1>2, SeqElements
<1>4. \A j \in 1..Len(file.methods) : MethodFits(file.pool, file.methods[j])
  BY <1>1, <1>3, Here DEF WellFormed
<1>5. MethodsAt(file) \in Nat /\ MembersLie(W, MethodsAt(file), file.methods)
  BY <1>1, Here DEF FileLies
<1>6. class.pool = Numbered(file.pool) /\ class.poolCnt = Len(class.pool) + 1
  BY <1>1 DEF ParametersBehind
<1>7. /\ class.attrs = <<>>
      /\ \E n \in 0..Len(file.methods) : \E k \in 0..Len(AttrsOf(file.methods, n)) :
           \E l \in 0..OwnCount(AttrsOf(file.methods, n), k) : MethodsBehind(n, k, l)
  BY <1>1 DEF MethodsAhead
<1>8. QED
  BY <1>1, <1>2, <1>3, <1>4, <1>5, <1>6, <1>7

(* The attributes of the method the loader is in. *)
LEMMA AttrsHere ==
  ASSUME Inv, phase = "methods", NEW n \in 0..Len(file.methods),
         NEW as, as = AttrsOf(file.methods, n), NEW k \in 0..Len(as)
  PROVE  /\ as \in Seq(AnyAttributes) /\ Len(as) \in Nat /\ k \in Nat /\ n \in Nat
         /\ OwnCount(as, k) \in Nat
<1>1. /\ file.methods \in Seq(Members(AnyAttributes)) /\ Len(file.methods) \in Nat
      /\ MethodsAt(file) \in Nat /\ MembersLie(W, MethodsAt(file), file.methods) /\ FileRead
  BY MethodsHere
<1>2. n \in Nat
  BY <1>1
<1>3. as \in Seq(AnyAttributes)
  <2>1. CASE n = 0
    BY <2>1 DEF AttrsOf
  <2>2. CASE n # 0
    <3>1. n \in 1..Len(file.methods)
      BY <1>1, <2>2
    <3>2. file.methods[n].attrs \in Seq(AnyAttributes)
      BY <1>1, <3>1, Here, MemberHere
    <3>3. QED
      BY <2>2, <3>2 DEF AttrsOf
  <2>3. QED
    BY <2>1, <2>2
<1>4. PICK len : len = Len(as)
  OBVIOUS
<1>5. len \in Nat /\ \A j \in 1..len : as[j] \in AnyAttributes
  BY <1>3, <1>4, SeqElements
<1>6. k \in 0..len
  BY <1>4
<1>7. k \in Nat
  BY <1>5, <1>6
<1>8. OwnCount(as, k) \in Nat
  <2>1. CASE k = 0 \/ as[k].code = NoCode
    BY <2>1 DEF OwnCount
  <2>2. CASE ~(k = 0 \/ as[k].code = NoCode)
    <3>1. k \in 1..len
      BY <1>5, <1>6, <2>2
    <3>2. as[k] \in AnyAttributes /\ as[k].code # NoCode
      BY <1>5, <2>2, <3>1
    <3>3. as[k].code \in Codes
      BY <3>2, CodesHaveCode
    <3>4. as[k].code.attrs \in Seq(PlainAttributes)
      BY <3>3 DEF Codes
    <3>5. Len(as[k].code.attrs) \in Nat
      BY <3>4, SeqElements
    <3>6. QED
      BY <2>2, <3>5 DEF OwnCount
  <2>3. QED
    BY <2>1, <2>2
<1>9. QED
  BY <1>2, <1>3, <1>4, <1>5, <1>7, <1>8

(* What is left to come says where the loader is. *)
LEMMA LeftSays ==
  ASSUME NEW c \in Nat, NEW n \in 0..c, NEW len \in Nat, NEW k \in 0..len, NEW own \in Nat,
         NEW l \in 0..own, left = <<c - n, len - k, own - l>>
  PROVE  /\ left[1] > 0 => n < c /\ n + 1 \in 1..c
         /\ left[1] = 0 => n = c
         /\ left[2] > 0 => k < len
         /\ left[2] = 0 => k = len
         /\ left[3] > 0 => l < own
         /\ left[3] = 0 => l = own
         /\ [left EXCEPT ![2] = @ - 1] = <<c - n, len - (k + 1), own - l>>
         /\ [left EXCEPT ![3] = @ - 1] = <<c - n, len - k, own - (l + 1)>>
         /\ <<left[1] - 1, 0, 0>> = <<c - (n + 1), 0, 0>>
         /\ n \in Nat /\ k \in Nat /\ l \in Nat
<1>1. left[1] = c - n /\ left[2] = len - k /\ left[3] = own - l
  BY LeftIs
<1>2. n \in Nat /\ k \in Nat /\ l \in Nat
  OBVIOUS
<1>3. /\ (c - n) - 1 = c - (n + 1) /\ (len - k) - 1 = len - (k + 1)
      /\ (own - l) - 1 = own - (l + 1)
  OBVIOUS
<1>4. [left EXCEPT ![2] = @ - 1] = <<c - n, (len - k) - 1, own - l>>
  BY LeftIs
<1>5. [left EXCEPT ![3] = @ - 1] = <<c - n, len - k, (own - l) - 1>>
  BY LeftIs
<1>6. /\ c - n > 0 => n < c /\ n + 1 \in 1..c
      /\ c - n = 0 => n = c
  OBVIOUS
<1>7. /\ len - k > 0 => k < len
      /\ len - k = 0 => k = len
      /\ own - l > 0 => l < own
      /\ own - l = 0 => l = own
  OBVIOUS
<1>8. QED
  BY <1>1, <1>2, <1>3, <1>4, <1>5, <1>6, <1>7

LEMMA InWhole ==
  ASSUME NEW as \in Seq(AnyAttributes), NEW w, NEW p, AttributesLie(w, p, as),
         NEW k \in 0..Len(as)
  PROVE  /\ InAttributes(as, k, OwnCount(as, k)) = AttributeAt(as, k)
         /\ AttributeAt(as, k) \in Nat
<1>1. AttributeAt(as, k) \in Nat
  BY DEF AttributesLie
<1>2. CASE k = 0 \/ as[k].code = NoCode
  BY <1>1, <1>2 DEF InAttributes
<1>3. CASE ~(k = 0 \/ as[k].code = NoCode)
  <2>1. PICK len : len = Len(as)
    OBVIOUS
  <2>2. len \in Nat /\ \A j \in 1..len : as[j] \in AnyAttributes
    BY <2>1, SeqElements
  <2>3. k \in 0..len /\ k # 0
    BY <1>3, <2>1
  <2>4. k \in 1..len /\ k - 1 \in 0..len
    BY <2>2, <2>3
  <2>5. as[k] \in AnyAttributes /\ as[k].code # NoCode
    BY <1>3, <2>2, <2>4
  <2>6. PICK c, o, u, v : /\ c = as[k].code /\ o = OwnAt(c, Len(c.attrs))
                          /\ u = AttributeAt(as, k - 1) /\ v = AttributeAt(as, k)
    OBVIOUS
  <2>7. c \in Codes /\ o \in Nat
    <3>1. c \in Codes
      BY <2>5, <2>6, CodesHaveCode
    <3>2. CodeBytes(c) \in Seq(Nat) /\ Len(CodeBytes(c)) = o
      BY <2>6, <3>1, CodeIs
    <3>3. QED
      BY <3>1, <3>2, SeqElements
  <2>8. v = u + AttributeLength(as[k]) /\ u \in Nat
    BY <2>1, <2>4, <2>6 DEF AttributesLie
  <2>9. AttributeLength(as[k]) = 6 + o
    BY <2>5, <2>6 DEF AttributeLength
  <2>10. InAttributes(as, k, OwnCount(as, k)) = u + 6 + o
    BY <1>3, <2>6 DEF InAttributes, OwnCount
  <2>11. u + (6 + o) = u + 6 + o
    BY <2>7, <2>8
  <2>12. QED
    BY <1>1, <2>6, <2>8, <2>9, <2>10, <2>11
<1>4. QED
  BY <1>2, <1>3

(* Behind a whole method. *)
LEMMA MethodBehind ==
  ASSUME Inv, phase = "methods", NEW n \in 0..Len(file.methods),
         NEW as, as = AttrsOf(file.methods, n), NEW k, k = Len(as),
         NEW l, l = OwnCount(as, k), MethodsBehind(n, k, l)
  PROVE  /\ pos = MethodsAt(file) + MemberAt(file.methods, n) /\ pos \in Nat
         /\ \A j \in 1..n : MethodWhole(class.methods[j], file.methods[j])
<1>1. /\ FileRead /\ file.methods \in Seq(Members(AnyAttributes)) /\ Len(file.methods) \in Nat
      /\ MethodsAt(file) \in Nat /\ MembersLie(W, MethodsAt(file), file.methods)
  BY MethodsHere
<1>2. pos = MethodsAt(file) + InMethods(file.methods, n, k, l)
  BY DEF MethodsBehind
<1>3. MemberAt(file.methods, n) \in Nat /\ MemberAt(file.methods, 0) = 0
  BY <1>1 DEF MembersLie
<1>4. CASE n = 0
  <2>1. InMethods(file.methods, n, k, l) = 0 /\ 1..n = {}
    BY <1>4 DEF InMethods
  <2>2. QED
    BY <1>1, <1>2, <1>3, <1>4, <2>1
<1>5. CASE n # 0
  <2>1. n \in 1..Len(file.methods) /\ n > 0 /\ n \in Nat
    BY <1>1, <1>5
  <2>2. as = file.methods[n].attrs
    BY <1>5 DEF AttrsOf
  <2>3. PICK o, u, p : /\ o = MemberAt(file.methods, n - 1) /\ u = AttributeAt(as, k)
                       /\ p = MethodsAt(file) + o + 8
    OBVIOUS
  <2>4. /\ as \in Seq(AnyAttributes) /\ AttributesLie(W, p, as)
        /\ MemberAt(file.methods, n) = o + 8 + u /\ k \in 0..Len(as)
    <3>1. /\ as \in Seq(AnyAttributes) /\ AttributesLie(W, p, as) /\ Len(as) \in Nat
          /\ MemberAt(file.methods, n) = o + 8 + u
      BY <1>1, <2>1, <2>2, <2>3, Here, MemberHere
    <3>2. Len(as) \in 0..Len(as)
      BY <3>1
    <3>3. QED
      BY <3>1, <3>2
  <2>5. InAttributes(as, k, l) = u
    BY <2>3, <2>4, InWhole
  <2>6. InMethods(file.methods, n, k, l) = o + 8 + u
    BY <1>5, <2>2, <2>3, <2>5 DEF InMethods
  <2>7. pos = MethodsAt(file) + MemberAt(file.methods, n)
    BY <1>2, <2>4, <2>6
  <2>8. ASSUME NEW j \in 1..n PROVE MethodWhole(class.methods[j], file.methods[j])
    <3>1. CASE j = n
      <4>1. MethodRight(class.methods[n], file.methods[n], k, l)
        BY <2>1 DEF MethodsBehind
      <4>2. QED
        BY <2>2, <3>1, <4>1 DEF MethodWhole
    <3>2. CASE j # n
      <4>1. j \in 1..(n - 1)
        BY <2>1, <3>2
      <4>2. QED
        BY <4>1 DEF MethodsBehind
    <3>3. QED
      BY <3>1, <3>2
  <2>9. pos \in Nat
    BY <1>1, <1>3, <2>7
  <2>10. QED
    BY <2>7, <2>8, <2>9
<1>6. QED
  BY <1>4, <1>5

(* The step to the next attribute or method. *)
LEMMA MethodsKept ==
  ASSUME Inv, phase = "methods", NEW e \in Nat, e <= Len(data), pos' = e, phase' = "methods",
         UNCHANGED <<file, data>>, FileRead', NEW n \in 0..Len(file.methods),
         NEW as, as = AttrsOf(file.methods, n), NEW k \in 0..Len(as),
         NEW l \in 0..OwnCount(as, k), NEW x, x = [j \in 1..n |-> x[j]],
         \A j \in 1..(n - 1) : MethodWhole(x[j], file.methods[j]),
         n > 0 => MethodRight(x[n], file.methods[n], k, l),
         class' = [class EXCEPT !.methods = x],
         left' = <<Len(file.methods) - n, Len(as) - k, OwnCount(as, k) - l>>,
         e = MethodsAt(file) + InMethods(file.methods, n, k, l)
  PROVE  Inv'
<1>1. /\ FileRead /\ Places /\ ParametersBehind /\ FieldsRight /\ class.attrs = <<>>
      /\ Len(file.methods) \in Nat /\ class.poolCnt = Len(class.pool) + 1
      /\ class.pool = Numbered(file.pool)
  BY MethodsHere
<1>2. /\ Shape(class') /\ class'.methods = x
      /\ class'.poolCnt = class.poolCnt /\ class'.pool = class.pool
      /\ class'.fields = class.fields /\ class'.attrs = class.attrs
      /\ class'.accessFlags = class.accessFlags /\ class'.thisClass = class.thisClass
      /\ class'.superClass = class.superClass /\ class'.interfaces = class.interfaces
  <2>1. Shape(class)
    BY <1>1 DEF Places
  <2>2. QED
    BY <2>1, WithMethods, Zenon
<1>3. PICK a, b, c : /\ a = Len(file.methods) - n /\ b = Len(as) - k
                     /\ c = OwnCount(as, k) - l
  OBVIOUS
<1>4. a \in Nat /\ b \in Nat /\ c \in Nat /\ Len(class.pool) < class.poolCnt
  <2>1. PICK cnt, len, own : cnt = Len(file.methods) /\ len = Len(as) /\ own = OwnCount(as, k)
    OBVIOUS
  <2>2. cnt \in Nat /\ len \in Nat /\ own \in Nat
    BY <1>1, <2>1, AttrsHere
  <2>3. n \in 0..cnt /\ k \in 0..len /\ l \in 0..own
    BY <2>1
  <2>4. cnt - n \in Nat /\ len - k \in Nat /\ own - l \in Nat
    BY <2>2, <2>3
  <2>5. Len(class.pool) < class.poolCnt
    <3>1. file.pool \in Seq(PoolItems)
      BY <1>1, Here DEF WellFormed
    <3>2. Len(class.pool) \in Nat
      BY <1>1, <3>1, NumberedIs, SeqElements
    <3>3. QED
      BY <1>1, <3>2
  <2>6. QED
    BY <1>3, <2>1, <2>4, <2>5
<1>5. Places'
  <2>1. left' = <<a, b, c>> /\ Len(class'.pool) < class'.poolCnt
    BY <1>2, <1>3, <1>4
  <2>2. QED
    BY <1>1, <1>2, <1>4, <2>1, PlacesKept
<1>6. ParametersBehind'
  <2>1. /\ class.accessFlags = file.accessFlags
        /\ class.thisClass = file.thisClass /\ class.superClass = file.superClass
        /\ class.interfaces = file.interfaces
    BY <1>1 DEF ParametersBehind
  <2>2. QED
    BY <1>1, <1>2, <2>1 DEF ParametersBehind
<1>7. FieldsRight'
  BY <1>1, <1>2 DEF FieldsRight
<1>8. MethodsBehind(n, k, l)'
  BY <1>2 DEF MethodsBehind
<1>9. MethodsAhead'
  BY <1>1, <1>2, <1>8 DEF MethodsAhead
<1>10. QED
  BY <1>5, <1>6, <1>7, <1>9, ToMethods

LEMMA NamesThere ==
  ASSUME class.pool = Numbered(file.pool), NEW i
  PROVE  /\ Names(file.pool, i) => IsName(i)
         /\ Name(i) = Numbered(file.pool)[i].args
BY DEF Names, IsName, Name

LEMMA MethodHeaderKeeps ==
  ASSUME Inv, MethodHeader
  PROVE  Inv'
<1>1. phase = "methods" /\ left[1] > 0 /\ left[2] = 0 /\ left[3] = 0
  BY DEF MethodHeader
<1>2. /\ FileRead /\ file.methods \in Seq(Members(AnyAttributes)) /\ Len(file.methods) \in Nat
      /\ MethodsAt(file) \in Nat /\ MembersLie(W, MethodsAt(file), file.methods)
      /\ class.pool = Numbered(file.pool)
      /\ \A j \in 1..Len(file.methods) : MethodFits(file.pool, file.methods[j])
  BY <1>1, MethodsHere
<1>3. PICK n, k, l : /\ n \in 0..Len(file.methods)
                     /\ k \in 0..Len(AttrsOf(file.methods, n))
                     /\ l \in 0..OwnCount(AttrsOf(file.methods, n), k)
                     /\ MethodsBehind(n, k, l)
  BY <1>1, MethodsHere
<1>4. PICK as, cnt, len, own : /\ as = AttrsOf(file.methods, n) /\ cnt = Len(file.methods)
                               /\ len = Len(as) /\ own = OwnCount(as, k)
  OBVIOUS
<1>5. cnt \in Nat /\ len \in Nat /\ own \in Nat /\ n \in 0..cnt /\ k \in 0..len /\ l \in 0..own
  BY <1>1, <1>2, <1>3, <1>4, AttrsHere
<1>6. left = <<cnt - n, len - k, own - l>> /\ class.methods = [j \in 1..n |-> class.methods[j]]
  BY <1>3, <1>4 DEF MethodsBehind
<1>7. /\ n + 1 \in 1..cnt /\ k = len /\ l = own /\ n \in Nat
      /\ <<left[1] - 1, 0, 0>> = <<cnt - (n + 1), 0, 0>> /\ left[1] = cnt - n
  BY <1>1, <1>5, <1>6, LeftSays, LeftIs
<1>8. /\ pos = MethodsAt(file) + MemberAt(file.methods, n) /\ pos \in Nat
      /\ \A j \in 1..n : MethodWhole(class.methods[j], file.methods[j])
  BY <1>1, <1>3, <1>4, <1>7, MethodBehind
<1>9. PICK g : g = file.methods[n + 1]
  OBVIOUS
<1>10. (n + 1) - 1 = n /\ n + 1 \in 1..Len(file.methods) /\ n + 1 \in 0..Len(file.methods)
       /\ n + 1 # 0
  <2>1. (n + 1) - 1 = n /\ n + 1 # 0 /\ n + 1 \in 0..cnt
    BY <1>5, <1>7
  <2>2. QED
    BY <1>4, <1>7, <2>1
<1>11. /\ MemberLies(W, pos, g) /\ g.accessFlags \in Nat /\ g.nameIndex \in Nat
       /\ g.descIndex \in Nat /\ Len(g.attrs) \in Nat
       /\ MemberAt(file.methods, n) \in Nat /\ AttributesLie(W, pos + 8, g.attrs)
  BY <1>2, <1>8, <1>9, <1>10, Here, MemberHere
<1>12. /\ pos + 8 \in Nat /\ pos + 8 <= Len(W)
       /\ pos + 8 <= Len(data) =>
            /\ msRead16(pos) = g.accessFlags /\ msRead16(pos + 2) = g.nameIndex
            /\ msRead16(pos + 4) = g.descIndex /\ msRead16(pos + 6) = Len(g.attrs)
  BY <1>2, <1>11, ReadMember
<1>13. IsName(g.nameIndex) /\ IsName(g.descIndex)
  <2>1. Names(file.pool, g.nameIndex) /\ Names(file.pool, g.descIndex)
    BY <1>2, <1>9, <1>10 DEF MethodFits
  <2>2. QED
    BY <1>2, <2>1, NamesThere
<1>14. PICK f, x, c, nleft, acnt, e, next :
         /\ acnt = msRead16(pos + 6) /\ e = pos + 8
         /\ f = [accessFlags |-> msRead16(pos), nameIndex |-> msRead16(pos + 2),
                 descIndex |-> msRead16(pos + 4), attrs |-> <<>>, code |-> NoCode]
         /\ x = Append(class.methods, f)
         /\ c = [class EXCEPT !.methods = x]
         /\ nleft = <<left[1] - 1, acnt, 0>>
         /\ next = IF IsName(msRead16(pos + 2)) /\ IsName(msRead16(pos + 4))
                   THEN "methods" ELSE "wild"
  OBVIOUS
<1>15. Step(e, acnt, next, nleft, c)
  BY <1>14 DEF MethodHeader
<1>16. CASE Inv'
  BY <1>16
<1>17. CASE ~Inv'
  <2>1. /\ e <= Len(data) /\ pos' = e /\ phase' = next /\ left' = nleft
        /\ class' = c /\ UNCHANGED <<file, data>> /\ FileRead'
    BY <1>12, <1>14, <1>15, <1>17, StepKeeps
  <2>2. /\ msRead16(pos) = g.accessFlags /\ msRead16(pos + 2) = g.nameIndex
        /\ msRead16(pos + 4) = g.descIndex /\ acnt = Len(g.attrs)
    BY <1>12, <1>14, <2>1
  <2>3. phase' = "methods"
    BY <1>13, <1>14, <2>1, <2>2
  <2>4. MethodRight(f, g, 0, 0)
    <3>1. f = MethodMade(g, 0, NoCode)
      <4>1. MethodCopies(g.attrs, 0) = <<>>
        BY MethodCopiesNext
      <4>2. QED
        BY <1>14, <2>2, <4>1 DEF MethodMade
    <3>2. f.code = NoCode
      BY <3>1 DEF MethodMade
    <3>3. CodeRight(NoCode, g.attrs, 0, 0)
      <4>1. 1..0 = {}
        OBVIOUS
      <4>2. QED
        BY <4>1 DEF CodeRight
    <3>4. QED
      BY <3>1, <3>2, <3>3, RightIs
  <2>5. PICK ms : ms = class.methods
    OBVIOUS
  <2>6. /\ x = [j \in 1..(n + 1) |-> x[j]] /\ x[n + 1] = f
        /\ \A j \in 1..n : x[j] = ms[j]
    <3>1. ms = [j \in 1..n |-> ms[j]] /\ x = Append(ms, f)
      BY <1>6, <1>14, <2>5
    <3>2. PICK S : S = {ms[j] : j \in 1..n} \cup {f}
      OBVIOUS
    <3>3. ms \in Seq(S) /\ Len(ms) = n
      <4>1. \A j \in 1..n : ms[j] \in S
        BY <3>2
      <4>2. QED
        BY <1>7, <3>1, <4>1, Made
    <3>4. f \in S
      BY <3>2
    <3>5. /\ Append(ms, f) \in Seq(S) /\ Len(Append(ms, f)) = Len(ms) + 1
          /\ \A j \in 1..Len(ms) : Append(ms, f)[j] = ms[j]
          /\ Append(ms, f)[Len(ms) + 1] = f
      BY <3>3, <3>4, AppendIs
    <3>6. x \in Seq(S) /\ Len(x) = n + 1 /\ x[n + 1] = f /\ \A j \in 1..n : x[j] = ms[j]
      BY <3>1, <3>3, <3>5
    <3>7. x = [j \in 1..Len(x) |-> x[j]]
      BY <3>6, SeqIs
    <3>8. QED
      BY <3>6, <3>7
  <2>7. \A j \in 1..((n + 1) - 1) : MethodWhole(x[j], file.methods[j])
    BY <1>8, <1>10, <2>5, <2>6
  <2>8. MethodRight(x[n + 1], file.methods[n + 1], 0, 0)
    BY <1>9, <2>4, <2>6
  <2>9. PICK bs : bs = AttrsOf(file.methods, n + 1)
    OBVIOUS
  <2>10. bs = g.attrs /\ OwnCount(bs, 0) = 0
    BY <1>9, <1>10, <2>9 DEF AttrsOf, OwnCount
  <2>11. 0 \in 0..Len(bs) /\ 0 \in 0..OwnCount(bs, 0)
    BY <1>11, <2>10
  <2>12. left' = <<Len(file.methods) - (n + 1), Len(bs) - 0, OwnCount(bs, 0) - 0>>
    <3>1. Len(bs) - 0 = acnt /\ OwnCount(bs, 0) - 0 = 0
      BY <1>11, <2>2, <2>10
    <3>2. left[1] - 1 = cnt - (n + 1)
      BY <1>7
    <3>3. QED
      BY <1>4, <1>14, <2>1, <3>1, <3>2
  <2>13. e = MethodsAt(file) + InMethods(file.methods, n + 1, 0, 0)
    <3>1. AttributeAt(bs, 0) = 0
      BY <1>11, <2>10 DEF AttributesLie
    <3>2. InAttributes(bs, 0, 0) = 0
      BY <3>1 DEF InAttributes
    <3>3. InMethods(file.methods, n + 1, 0, 0) = MemberAt(file.methods, n) + 8 + 0
      BY <1>9, <1>10, <2>10, <3>2 DEF InMethods
    <3>4. QED
      BY <1>2, <1>8, <1>11, <1>14, <3>3
  <2>14. e \in Nat /\ class' = [class EXCEPT !.methods = x]
    BY <1>12, <1>14, <2>1
  <2>15. PICK i : i = n + 1
    OBVIOUS
  <2>16. /\ i \in 0..Len(file.methods) /\ bs = AttrsOf(file.methods, i)
         /\ 0 \in 0..Len(bs) /\ 0 \in 0..OwnCount(bs, 0)
         /\ x = [j \in 1..i |-> x[j]]
         /\ \A j \in 1..(i - 1) : MethodWhole(x[j], file.methods[j])
         /\ i > 0 => MethodRight(x[i], file.methods[i], 0, 0)
         /\ left' = <<Len(file.methods) - i, Len(bs) - 0, OwnCount(bs, 0) - 0>>
         /\ e = MethodsAt(file) + InMethods(file.methods, i, 0, 0)
    BY <1>10, <2>6, <2>7, <2>8, <2>9, <2>11, <2>12, <2>13, <2>15
  <2>17. e <= Len(data) /\ pos' = e /\ UNCHANGED <<file, data>> /\ FileRead'
    BY <2>1
  <2>18. QED
    BY <1>1, <2>3, <2>14, <2>16, <2>17, MethodsKept
<1>18. QED
  BY <1>16, <1>17

MethodsSeen(n) ==
  /\ class.methods = [j \in 1..n |-> class.methods[j]]
  /\ \A j \in 1..(n - 1) : MethodWhole(class.methods[j], file.methods[j])

(* The method the loader is in, when an attribute of it is to come. *)
LEMMA MethodHere ==
  ASSUME Inv, phase = "methods", NEW n \in 0..Len(file.methods),
         NEW as, as = AttrsOf(file.methods, n), NEW k \in 0..Len(as),
         NEW l \in 0..OwnCount(as, k), MethodsBehind(n, k, l), Len(as) > 0,
         NEW g, g = file.methods[n],
         NEW o, o = MemberAt(file.methods, n - 1), NEW p, p = MethodsAt(file) + o + 8
  PROVE  /\ n \in 1..Len(file.methods) /\ n \in Nat /\ n > 0 /\ as = g.attrs /\ m = n
         /\ p \in Nat /\ AttributesLie(W, p, as) /\ as \in Seq(AnyAttributes)
         /\ MethodsAt(file) \in Nat /\ o \in Nat
         /\ pos = MethodsAt(file) + (o + 8 + InAttributes(as, k, l))
         /\ MethodsSeen(n)
         /\ MethodRight(class.methods[n], g, k, l)
         /\ MethodFits(file.pool, g)
<1>1. /\ FileRead /\ file.methods \in Seq(Members(AnyAttributes)) /\ Len(file.methods) \in Nat
      /\ MethodsAt(file) \in Nat /\ MembersLie(W, MethodsAt(file), file.methods)
      /\ \A j \in 1..Len(file.methods) : MethodFits(file.pool, file.methods[j])
  BY MethodsHere
<1>2. n # 0
  <2>1. ASSUME n = 0 PROVE FALSE
    <3>1. Len(as) = 0
      BY <2>1, AttrsNone
    <3>2. QED
      BY <3>1
  <2>2. QED
    BY <2>1
<1>3. n \in 1..Len(file.methods) /\ n \in Nat /\ n > 0
  BY <1>1, <1>2
<1>4. as = g.attrs
  BY <1>2 DEF AttrsOf
<1>5. /\ MethodsSeen(n) /\ MethodRight(class.methods[n], g, k, l)
      /\ pos = MethodsAt(file) + InMethods(file.methods, n, k, l)
  BY <1>3 DEF MethodsBehind, MethodsSeen
<1>6. m = n
  <2>1. PICK ms : ms = class.methods
    OBVIOUS
  <2>2. ms = [j \in 1..n |-> ms[j]]
    BY <1>5, <2>1 DEF MethodsSeen
  <2>3. Len(ms) = n
    BY <1>3, <2>2
  <2>4. QED
    BY <2>1, <2>3 DEF m
<1>7. InMethods(file.methods, n, k, l)
        = o + 8 + InAttributes(as, k, l)
  BY <1>2, <1>4 DEF InMethods
<1>8. /\ g.attrs \in Seq(AnyAttributes) /\ o \in Nat /\ AttributesLie(W, p, g.attrs)
  BY <1>1, <1>3, Here, MemberHere
<1>9. p \in Nat
  BY <1>1, <1>8
<1>10. MethodFits(file.pool, g)
  BY <1>1, <1>3
<1>11. QED
  BY <1>1, <1>3, <1>4, <1>5, <1>6, <1>7, <1>8, <1>9, <1>10

(* What such a step writes. *)
Whole(ms, gs, n) ==
  /\ ms = [j \in 1..n |-> ms[j]]
  /\ \A j \in 1..(n - 1) : MethodWhole(ms[j], gs[j])

LEMMA WrittenIs ==
  ASSUME NEW gs, NEW n \in Nat, n > 0, NEW ms, Whole(ms, gs, n), NEW f,
         NEW x, x = WithMember(ms, n, f)
  PROVE  Whole(x, gs, n) /\ x[n] = f
<1>1. ms = [j \in 1..n |-> ms[j]] /\ \A j \in 1..(n - 1) : MethodWhole(ms[j], gs[j])
  BY DEF Whole
<1>2. /\ x = [j \in 1..n |-> x[j]] /\ x[n] = f
      /\ \A j \in 1..(n - 1) : x[j] = ms[j]
  <2>1. ms = [j \in 1..n |-> ms[j]]
    BY <1>1
  <2>2. n \in 1..n /\ \A j \in 1..(n - 1) : j \in 1..n /\ j # n
    OBVIOUS
  <2>3. x = [j \in 1..n |-> x[j]] /\ x[n] = f /\ \A j \in 1..n : j # n => x[j] = ms[j]
    BY <2>1, <2>2 DEF WithMember
  <2>4. QED
    BY <2>2, <2>3
<1>3. QED
  BY <1>1, <1>2 DEF Whole

LEMMA MethodGrows ==
  ASSUME Inv, phase = "methods", NEW e \in Nat, e <= Len(data), pos' = e, phase' = "methods",
         UNCHANGED <<file, data>>, FileRead', NEW n \in 1..Len(file.methods), n \in Nat, n > 0,
         NEW as, as = file.methods[n].attrs, NEW k \in 0..Len(as), NEW l \in 0..OwnCount(as, k),
         NEW x, x = [j \in 1..n |-> x[j]],
         \A j \in 1..(n - 1) : MethodWhole(x[j], file.methods[j]),
         MethodRight(x[n], file.methods[n], k, l),
         class' = [class EXCEPT !.methods = x],
         left' = <<Len(file.methods) - n, Len(as) - k, OwnCount(as, k) - l>>,
         e = MethodsAt(file) + (MemberAt(file.methods, n - 1) + 8 + InAttributes(as, k, l))
  PROVE  Inv'
<1>1. n # 0
  OBVIOUS
<1>2. as = AttrsOf(file.methods, n)
  BY <1>1 DEF AttrsOf
<1>3. e = MethodsAt(file) + InMethods(file.methods, n, k, l)
  BY <1>1 DEF InMethods
<1>4. n \in 0..Len(file.methods)
  OBVIOUS
<1>5. n > 0 => MethodRight(x[n], file.methods[n], k, l)
  OBVIOUS
<1>6. QED
  BY <1>2, <1>3, <1>4, <1>5, MethodsKept

(* The attribute a that is to come: the (k+1)-th of the n-th method g. *)
Comes(n, k, g, as, p, o, a, u, v) ==
  /\ n \in 1..Len(file.methods) /\ n \in Nat /\ n > 0 /\ m = n
  /\ g = file.methods[n] /\ as = g.attrs
  /\ k \in Nat /\ k + 1 \in 1..Len(as) /\ k + 1 \in 0..Len(as) /\ Len(as) \in Nat
  /\ a = as[k + 1] /\ a \in AnyAttributes
  /\ o = MemberAt(file.methods, n - 1) /\ o \in Nat /\ MethodsAt(file) \in Nat
  /\ p = MethodsAt(file) + o + 8 /\ p \in Nat
  /\ u = AttributeAt(as, k) /\ v = AttributeAt(as, k + 1) /\ u \in Nat /\ v \in Nat
  /\ v = u + AttributeLength(a) /\ pos = p + u /\ p + v <= Len(W)
  /\ AttributeLies(W, pos, a)
  /\ MethodsSeen(n)
  /\ MethodRight(class.methods[n], g, k, OwnCount(as, k))
  /\ IsName(a.nameIndex) /\ (a.code # NoCode <=> Name(a.nameIndex) = CodeName)
  /\ left[1] = Len(file.methods) - n /\ left[2] - 1 = Len(as) - (k + 1)
  /\ [left EXCEPT ![2] = @ - 1] = <<Len(file.methods) - n, Len(as) - (k + 1), 0>>

LEMMA NextAttribute ==
  ASSUME Inv, phase = "methods", left[2] > 0, left[3] = 0
  PROVE  \E n, k, g, as, p, o, a, u, v : Comes(n, k, g, as, p, o, a, u, v)
<1>1. /\ FileRead /\ Len(file.methods) \in Nat /\ class.pool = Numbered(file.pool)
  BY MethodsHere
<1>2. PICK n, k, l : /\ n \in 0..Len(file.methods)
                     /\ k \in 0..Len(AttrsOf(file.methods, n))
                     /\ l \in 0..OwnCount(AttrsOf(file.methods, n), k)
                     /\ MethodsBehind(n, k, l)
  BY MethodsHere
<1>3. PICK as, cnt, len, own, g, o, p :
        /\ as = AttrsOf(file.methods, n) /\ cnt = Len(file.methods)
        /\ len = Len(as) /\ own = OwnCount(as, k) /\ g = file.methods[n]
        /\ o = MemberAt(file.methods, n - 1) /\ p = MethodsAt(file) + o + 8
  OBVIOUS
<1>4. cnt \in Nat /\ len \in Nat /\ own \in Nat /\ n \in 0..cnt /\ k \in 0..len /\ l \in 0..own
  BY <1>1, <1>2, <1>3, AttrsHere
<1>5. left = <<cnt - n, len - k, own - l>>
  BY <1>2, <1>3 DEF MethodsBehind
<1>6. /\ k < len /\ l = own /\ k \in Nat
      /\ [left EXCEPT ![2] = @ - 1] = <<cnt - n, len - (k + 1), own - l>>
  BY <1>4, <1>5, LeftSays
<1>7. own - l = 0 /\ left[1] = cnt - n /\ left[2] = len - k /\ len > 0
      /\ (len - k) - 1 = len - (k + 1)
  <2>1. left[1] = cnt - n /\ left[2] = len - k
    BY <1>5, LeftIs
  <2>2. QED
    BY <1>4, <1>6, <2>1
<1>8. /\ n \in 1..Len(file.methods) /\ n \in Nat /\ n > 0 /\ as = g.attrs /\ m = n
      /\ p \in Nat /\ AttributesLie(W, p, as) /\ as \in Seq(AnyAttributes)
      /\ MethodsAt(file) \in Nat /\ o \in Nat
      /\ pos = MethodsAt(file) + (o + 8 + InAttributes(as, k, l))
      /\ MethodsSeen(n)
      /\ MethodRight(class.methods[n], g, k, l)
      /\ MethodFits(file.pool, g)
  <2>1. /\ Len(as) > 0 /\ n \in 0..Len(file.methods) /\ as = AttrsOf(file.methods, n)
        /\ k \in 0..Len(as) /\ l \in 0..OwnCount(as, k) /\ MethodsBehind(n, k, l)
    BY <1>2, <1>3, <1>7
  <2>2. /\ g = file.methods[n] /\ o = MemberAt(file.methods, n - 1)
        /\ p = MethodsAt(file) + o + 8
    BY <1>3
  <2>3. QED
    BY <2>1, <2>2, MethodHere
<1>9. PICK a, u, v : a = as[k + 1] /\ u = AttributeAt(as, k) /\ v = AttributeAt(as, k + 1)
  OBVIOUS
<1>10. k < Len(as)
  BY <1>3, <1>6
<1>11. /\ a \in AnyAttributes /\ k + 1 \in 1..Len(as) /\ k + 1 \in 0..Len(as)
       /\ u \in Nat /\ v \in Nat /\ AttributeLies(W, p + u, a)
       /\ v = u + AttributeLength(a) /\ p + v <= Len(W)
  BY <1>6, <1>8, <1>9, <1>10, AttributeHere
<1>12. InAttributes(as, k, l) = u
  <2>1. k \in 0..Len(as)
    BY <1>3, <1>4
  <2>2. QED
    BY <1>3, <1>6, <1>8, <1>9, <2>1, InWhole
<1>13. pos = p + u
  <2>1. pos = MethodsAt(file) + (o + 8 + u)
    BY <1>8, <1>12
  <2>2. QED
    BY <1>3, <1>8, <1>11, <2>1
<1>14. /\ Names(file.pool, a.nameIndex)
       /\ a.code # NoCode <=> Numbered(file.pool)[a.nameIndex].args = CodeName
  <2>1. k + 1 \in DOMAIN g.attrs
    BY <1>8, <1>11, SeqElements
  <2>2. QED
    BY <1>8, <1>9, <2>1 DEF MethodFits
<1>15. IsName(a.nameIndex) /\ (a.code # NoCode <=> Name(a.nameIndex) = CodeName)
  BY <1>1, <1>14, NamesThere
<1>16. left[2] - 1 = Len(as) - (k + 1) /\ left[1] = Len(file.methods) - n
       /\ [left EXCEPT ![2] = @ - 1] = <<Len(file.methods) - n, Len(as) - (k + 1), 0>>
  BY <1>3, <1>6, <1>7
<1>17. AttributeLies(W, pos, a) /\ Len(as) \in Nat
  BY <1>3, <1>4, <1>11, <1>13
<1>18. MethodRight(class.methods[n], g, k, OwnCount(as, k))
  BY <1>3, <1>6, <1>8
<1>19. Comes(n, k, g, as, p, o, a, u, v)
  BY <1>3, <1>6, <1>8, <1>9, <1>11, <1>13, <1>15, <1>16, <1>17, <1>18 DEF Comes
<1>20. QED
  BY <1>19

LEMMA LengthIs ==
  ASSUME NEW a \in AnyAttributes
  PROVE  AttributeLength(a) \in Nat /\ AttributeLength(a) >= 6
<1>1. CASE a.code = NoCode
  <2>1. Len(a.info) \in Nat
    BY CodesHaveCode, SeqElements
  <2>2. AttributeLength(a) = 6 + Len(a.info)
    BY <1>1 DEF AttributeLength
  <2>3. QED
    BY <2>1, <2>2
<1>2. CASE a.code # NoCode
  <2>1. PICK c, o : c = a.code /\ o = OwnAt(c, Len(c.attrs))
    OBVIOUS
  <2>2. c \in Codes
    BY <1>2, <2>1, CodesHaveCode
  <2>3. CodeBytes(c) \in Seq(Nat) /\ Len(CodeBytes(c)) = o
    BY <2>1, <2>2, CodeIs
  <2>4. o \in Nat
    BY <2>3, SeqElements
  <2>5. AttributeLength(a) = 6 + o
    BY <1>2, <2>1 DEF AttributeLength
  <2>6. QED
    BY <2>4, <2>5
<1>3. QED
  BY <1>1, <1>2

(* The name of the attribute that comes, if it is there. *)
LEMMA NameHere ==
  ASSUME FileRead, NEW a \in AnyAttributes, AttributeLies(W, pos, a), pos + 2 <= Len(data)
  PROVE  msRead16(pos) = a.nameIndex
<1>1. At(W, pos, U2(a.nameIndex)) /\ a.nameIndex \in Nat
  BY CodesHaveCode DEF AttributeLies
<1>2. QED
  BY <1>1, ReadTwo

LEMMA MethodAttributeReads ==
  ASSUME FileRead, NEW a \in AnyAttributes, AttributeLies(W, pos, a), pos \in Nat,
         a.code # NoCode <=> Name(a.nameIndex) = CodeName, IsName(a.nameIndex),
         IsName(msRead16(pos)) => Name(msRead16(pos)) # CodeName,
         NEW size, size = AttributeSize(pos), NEW l, l = AttributeLength(a)
  PROVE  /\ size \in Nat /\ l \in Nat
         /\ pos + size <= Len(data) \/ pos + l <= Len(data) =>
              /\ a.code = NoCode /\ size = l /\ Attribute(pos) = PlainCopy(a)
              /\ IsName(msRead16(pos))
<1>1. l \in Nat /\ l >= 6
  BY LengthIs
<1>2. size \in Nat /\ size >= 6
  <2>1. pos + 2 \in Nat
    OBVIOUS
  <2>2. msRead32(pos + 2) \in Nat
    BY <2>1, ReadNat
  <2>3. QED
    BY <2>2 DEF AttributeSize
<1>3. ASSUME pos + size <= Len(data) \/ pos + l <= Len(data)
      PROVE  /\ a.code = NoCode /\ size = l /\ Attribute(pos) = PlainCopy(a)
             /\ IsName(msRead16(pos))
  <2>1. Len(data) \in Nat
    BY Here
  <2>2. pos + 2 <= Len(data)
    BY <1>1, <1>2, <1>3, <2>1
  <2>3. msRead16(pos) = a.nameIndex
    BY <2>2, NameHere
  <2>4. a.code = NoCode
    BY <2>3
  <2>5. size = l /\ Attribute(pos) = PlainCopy(a)
    BY <1>3, <2>4, ReadAttribute
  <2>6. QED
    BY <2>3, <2>4, <2>5
<1>4. QED
  BY <1>1, <1>2, <1>3

LEMMA MethodAttributeKeeps ==
  ASSUME Inv, MethodAttribute
  PROVE  Inv'
<1>1. /\ phase = "methods" /\ left[2] > 0 /\ left[3] = 0
      /\ IsName(msRead16(pos)) => Name(msRead16(pos)) # CodeName
  BY DEF MethodAttribute
<1>2. FileRead /\ Len(W) \in Nat /\ Len(data) \in Nat
  BY <1>1, MethodsHere, Here
<1>3. PICK n, k, g, as, p, o, a, u, v : Comes(n, k, g, as, p, o, a, u, v)
  BY <1>1, NextAttribute
<1>4. /\ n \in 1..Len(file.methods) /\ n \in Nat /\ n > 0 /\ m = n
      /\ g = file.methods[n] /\ as = g.attrs
      /\ k \in Nat /\ k + 1 \in 0..Len(as) /\ Len(as) \in Nat
      /\ a = as[k + 1] /\ a \in AnyAttributes /\ AttributeLies(W, pos, a)
      /\ o = MemberAt(file.methods, n - 1) /\ o \in Nat /\ MethodsAt(file) \in Nat
      /\ v = AttributeAt(as, k + 1)
  BY <1>3 DEF Comes
<1>14. /\ p = MethodsAt(file) + o + 8 /\ p \in Nat /\ o \in Nat /\ MethodsAt(file) \in Nat
       /\ u \in Nat /\ v \in Nat
       /\ v = u + AttributeLength(a) /\ pos = p + u /\ p + v <= Len(W)
  BY <1>3 DEF Comes
<1>5. /\ MethodsSeen(n)
      /\ MethodRight(class.methods[n], g, k, OwnCount(as, k))
      /\ IsName(a.nameIndex) /\ (a.code # NoCode <=> Name(a.nameIndex) = CodeName)
      /\ [left EXCEPT ![2] = @ - 1] = <<Len(file.methods) - n, Len(as) - (k + 1), 0>>
  BY <1>3 DEF Comes
<1>6. PICK size, l, end, e : /\ size = AttributeSize(pos) /\ l = AttributeLength(a)
                             /\ end = pos + size /\ e = pos + l
  OBVIOUS
<1>7. /\ size \in Nat /\ l \in Nat /\ pos \in Nat
      /\ end <= Len(data) \/ e <= Len(data) =>
           /\ a.code = NoCode /\ size = l /\ Attribute(pos) = PlainCopy(a)
           /\ IsName(msRead16(pos))
  <2>1. pos \in Nat
    BY <1>14
  <2>2. /\ FileRead /\ a \in AnyAttributes /\ AttributeLies(W, pos, a)
        /\ a.code # NoCode <=> Name(a.nameIndex) = CodeName
        /\ IsName(a.nameIndex)
        /\ IsName(msRead16(pos)) => Name(msRead16(pos)) # CodeName
    BY <1>1, <1>2, <1>4, <1>5
  <2>3. size = AttributeSize(pos) /\ l = AttributeLength(a)
    BY <1>6
  <2>4. /\ size \in Nat /\ l \in Nat
        /\ pos + size <= Len(data) \/ pos + l <= Len(data) =>
             /\ a.code = NoCode /\ size = l /\ Attribute(pos) = PlainCopy(a)
             /\ IsName(msRead16(pos))
    BY <2>1, <2>2, <2>3, MethodAttributeReads
  <2>5. QED
    BY <1>6, <2>1, <2>4
<1>8. e = p + v /\ e \in Nat /\ end \in Nat
  <2>1. v = u + l /\ pos = p + u /\ p \in Nat /\ u \in Nat
    BY <1>6, <1>14
  <2>2. e = pos + l /\ end = pos + size /\ l \in Nat /\ size \in Nat
    BY <1>6, <1>7
  <2>3. QED
    BY <2>1, <2>2
<1>9. PICK ms, b, f, x, c, nleft, memory, next :
        /\ ms = class.methods /\ b = Attribute(pos)
        /\ f = MethodWithAttribute(ms[n], b) /\ x = WithMember(ms, n, f)
        /\ c = [class EXCEPT !.methods = x] /\ nleft = [left EXCEPT ![2] = @ - 1]
        /\ memory = msRead32(pos + 2)
        /\ next = IF IsName(msRead16(pos)) THEN "methods" ELSE "wild"
  OBVIOUS
<1>10. Step(end, memory, next, nleft, c)
  <2>1. [class EXCEPT !.methods[m].attrs = Append(@, Attribute(pos))] = c
    <3>1. [class EXCEPT !.methods[m].attrs = Append(@, b)]
            = [class EXCEPT !.methods = WithMember(ms, n, MethodWithAttribute(ms[n], b))]
      <4>1. n = m /\ ms = class.methods
        BY <1>4, <1>9
      <4>2. QED
        BY <4>1 DEF WithMember, MethodWithAttribute
    <3>2. QED
      BY <1>9, <3>1
  <2>2. QED
    BY <1>6, <1>9, <2>1 DEF MethodAttribute
<1>11. CASE Inv'
  BY <1>11
<1>12. CASE ~Inv'
  <2>1. e <= Len(data) \/ end <= Len(data) => end = e
    BY <1>6, <1>7
  <2>2. e <= Len(W)
    BY <1>8, <1>14
  <2>3. /\ e <= Len(data) /\ pos' = e /\ phase' = next /\ left' = nleft
        /\ class' = c /\ UNCHANGED <<file, data>> /\ FileRead'
    BY <1>8, <1>10, <1>12, <2>1, <2>2, StepKeeps
  <2>4. a.code = NoCode /\ b = PlainCopy(g.attrs[k + 1]) /\ phase' = "methods"
    BY <1>4, <1>7, <1>9, <2>3
  <2>5. MethodRight(f, g, k + 1, 0)
    <3>1. MethodRight(ms[n], g, k, OwnCount(g.attrs, k))
      BY <1>4, <1>5, <1>9
    <3>2. k \in Nat /\ g.attrs[k + 1].code = NoCode
      BY <1>4, <2>4
    <3>3. MethodRight(MethodWithAttribute(ms[n], PlainCopy(g.attrs[k + 1])), g, k + 1, 0)
      BY <3>1, <3>2, PlainKeepsRight
    <3>4. QED
      BY <1>9, <2>4, <3>3
  <2>6. PICK i : i = k + 1
    OBVIOUS
  <2>7. OwnCount(as, i) = 0 /\ InAttributes(as, i, 0) = v
    <3>1. as[i].code = NoCode
      BY <1>4, <2>4, <2>6
    <3>2. QED
      BY <1>4, <2>6, <3>1 DEF OwnCount, InAttributes
  <2>8. /\ x = [j \in 1..n |-> x[j]]
        /\ \A j \in 1..(n - 1) : MethodWhole(x[j], file.methods[j])
        /\ MethodRight(x[n], file.methods[n], i, 0)
    <3>1. Whole(ms, file.methods, n)
      BY <1>5, <1>9 DEF MethodsSeen, Whole
    <3>2. PICK gs : gs = file.methods
      OBVIOUS
    <3>3. Whole(x, gs, n) /\ x[n] = f
      <4>1. /\ n \in Nat /\ n > 0 /\ x = WithMember(ms, n, f) /\ Whole(ms, gs, n)
        BY <1>4, <1>9, <3>1, <3>2
      <4>2. QED
        BY <4>1, WrittenIs
    <3>4. QED
      BY <1>4, <2>5, <2>6, <3>2, <3>3 DEF Whole
  <2>9. /\ n \in 1..Len(file.methods) /\ n \in Nat /\ n > 0 /\ as = file.methods[n].attrs
        /\ i \in 0..Len(as) /\ 0 \in 0..OwnCount(as, i)
        /\ e = MethodsAt(file) + (MemberAt(file.methods, n - 1) + 8 + InAttributes(as, i, 0))
    <3>1. p + v = MethodsAt(file) + (o + 8 + v)
      BY <1>14
    <3>2. QED
      BY <1>4, <1>8, <2>6, <2>7, <3>1
  <2>10. left' = <<Len(file.methods) - n, Len(as) - i, OwnCount(as, i) - 0>>
    <3>1. OwnCount(as, i) - 0 = 0
      BY <2>7
    <3>2. QED
      BY <1>5, <1>9, <2>3, <2>6, <3>1
  <2>11. class' = [class EXCEPT !.methods = x] /\ e \in Nat
    BY <1>8, <1>9, <2>3
  <2>12. /\ phase = "methods" /\ phase' = "methods" /\ e <= Len(data) /\ pos' = e
         /\ UNCHANGED <<file, data>> /\ FileRead'
    BY <1>1, <2>3, <2>4
  <2>13. QED
    BY <2>8, <2>9, <2>10, <2>11, <2>12, MethodGrows
<1>13. QED
  BY <1>11, <1>12

(* The rows of the exception table. *)
LEMMA RowEnds ==
  ASSUME NEW q \in Nat, NEW n \in Nat, NEW z \in 1..n, NEW k \in 1..4
  PROVE  ((q + 8 * (z - 1)) + 2 * (k - 1)) + 2 <= q + 8 * n
OBVIOUS

LEMMA RowsRead ==
  ASSUME FileRead, NEW q \in Nat, NEW rows \in Seq([1..4 -> Nat]), NEW n, n = Len(rows),
         q + 8 * n <= Len(data),
         \A z \in 1..n : \A k \in 1..4 : At(W, (q + 8 * (z - 1)) + 2 * (k - 1), U2(rows[z][k]))
  PROVE  [z \in 1..n |-> [k \in 1..4 |-> msRead16(q + 8 * (z - 1) + 2 * (k - 1))]] = rows
<1>1. /\ n \in Nat /\ rows = [z \in 1..n |-> rows[z]]
      /\ \A z \in 1..n : rows[z] \in [1..4 -> Nat]
  BY SeqElements, SeqIs
<1>2. Len(data) \in Nat
  BY Here
<1>3. ASSUME NEW z \in 1..n
      PROVE  [k \in 1..4 |-> msRead16(q + 8 * (z - 1) + 2 * (k - 1))] = rows[z]
  <2>1. ASSUME NEW k \in 1..4
        PROVE  msRead16(q + 8 * (z - 1) + 2 * (k - 1)) = rows[z][k]
    <3>1. PICK x, v : x = (q + 8 * (z - 1)) + 2 * (k - 1) /\ v = rows[z][k]
      OBVIOUS
    <3>2. At(W, x, U2(v))
      BY <3>1
    <3>3. x + 2 <= q + 8 * n
      <4>1. n \in Nat
        BY <1>1
      <4>2. x = (q + 8 * (z - 1)) + 2 * (k - 1)
        BY <3>1
      <4>3. ((q + 8 * (z - 1)) + 2 * (k - 1)) + 2 <= q + 8 * n
        BY <4>1, RowEnds
      <4>4. QED
        BY <4>2, <4>3
    <3>4. x \in Nat
      BY <1>1, <3>1
    <3>5. x + 2 <= Len(data)
      BY <1>1, <1>2, <3>3, <3>4
    <3>6. v \in Nat
      BY <1>1, <3>1
    <3>7. msRead16(x) = v
      BY <3>2, <3>5, <3>6, ReadTwo
    <3>8. QED
      BY <3>1, <3>7
  <2>2. rows[z] = [k \in 1..4 |-> rows[z][k]]
    BY <1>1
  <2>3. PICK row : row = rows[z]
    OBVIOUS
  <2>4. row = [k \in 1..4 |-> row[k]]
    BY <2>2, <2>3
  <2>5. \A k \in 1..4 : msRead16(q + 8 * (z - 1) + 2 * (k - 1)) = row[k]
    BY <2>1, <2>3
  <2>6. [k \in 1..4 |-> msRead16(q + 8 * (z - 1) + 2 * (k - 1))] = row
    BY <2>4, <2>5
  <2>7. QED
    BY <2>3, <2>6
<1>4. QED
  BY <1>1, <1>3

(* What a Code attribute is read as. *)
LEMMA CodeReads ==
  ASSUME FileRead, NEW p \in Nat, NEW c \in Codes, CodeLies(W, p, c),
         NEW cl, cl = msRead32(p + 4), NEW q, q = p + 8 + cl,
         NEW et, et = msRead16(q), NEW r, r = q + 2 + 8 * et,
         NEW e, e = p + CountAt(c) + 2
  PROVE  /\ r + 2 \in Nat /\ r + 2 >= p /\ e \in Nat /\ e >= p /\ e <= Len(W)
         /\ e <= Len(data) \/ r + 2 <= Len(data) =>
              /\ r + 2 = e
              /\ msRead16(p) = c.maxStack /\ msRead16(p + 2) = c.maxLocals
              /\ cl = Len(c.code) /\ msRead(p + 8, cl) = c.code
              /\ [z \in 1..et |->
                    [k \in 1..4 |-> msRead16(q + 2 + 8 * (z - 1) + 2 * (k - 1))]] = c.eTable
              /\ msRead16(r) = Len(c.attrs)
<1>1. /\ c.maxStack \in Nat /\ c.maxLocals \in Nat /\ c.code \in Seq(Nat)
      /\ c.eTable \in Seq([1..4 -> Nat]) /\ c.attrs \in Seq(PlainAttributes)
  BY DEF Codes
<1>2. PICK n, rows, own, N, w : /\ n = Len(c.code) /\ rows = Len(c.eTable) /\ own = Len(c.attrs)
                                /\ N = Len(data) /\ w = Len(W)
  OBVIOUS
<1>3. n \in Nat /\ rows \in Nat /\ own \in Nat /\ N \in Nat /\ w \in Nat
  BY <1>1, <1>2, SeqElements, Here
<1>4. CountAt(c) = 8 + n + 2 + 8 * rows /\ TableAt(c) = 8 + n
  BY <1>2 DEF CountAt, TableAt
<1>5. e = p + (8 + n + 2 + 8 * rows) + 2 /\ e \in Nat /\ e >= p
  BY <1>3, <1>4
<1>6. cl \in Nat /\ q \in Nat /\ et \in Nat /\ r \in Nat
  <2>1. p + 4 \in Nat
    OBVIOUS
  <2>2. cl \in Nat
    BY <2>1, ReadNat
  <2>3. q \in Nat
    BY <2>2
  <2>4. et \in Nat
    BY <2>3, ReadNat
  <2>5. QED
    BY <2>2, <2>3, <2>4
<1>7. r + 2 \in Nat /\ r + 2 >= p
  BY <1>6
<1>8. /\ At(W, p, U2(c.maxStack)) /\ At(W, p + 2, U2(c.maxLocals)) /\ At(W, p + 4, U4(n))
      /\ At(W, p + 8, c.code) /\ At(W, p + (8 + n), U2(rows))
      /\ \A z \in 1..rows : \A k \in 1..4 :
           At(W, (p + (8 + n) + 2 + 8 * (z - 1)) + 2 * (k - 1), U2(c.eTable[z][k]))
      /\ At(W, p + (8 + n + 2 + 8 * rows), U2(own))
  BY <1>2, <1>4 DEF CodeLies
<1>9. e <= w
  <2>1. Len(U2(own)) = 2
    BY <1>3, Two
  <2>2. (p + (8 + n + 2 + 8 * rows)) + 2 <= w
    BY <1>2, <1>8, <2>1 DEF At
  <2>3. QED
    BY <1>5, <2>2
<1>10. ASSUME e <= N \/ r + 2 <= N
       PROVE  /\ r + 2 = e
              /\ msRead16(p) = c.maxStack /\ msRead16(p + 2) = c.maxLocals
              /\ cl = n /\ msRead(p + 8, cl) = c.code
              /\ [z \in 1..et |->
                    [k \in 1..4 |-> msRead16(q + 2 + 8 * (z - 1) + 2 * (k - 1))]] = c.eTable
              /\ msRead16(r) = own
  <2>1. p + 2 <= N /\ (p + 2) + 2 <= N /\ (p + 4) + 4 <= N
    BY <1>3, <1>5, <1>6, <1>10
  <2>2. msRead16(p) = c.maxStack /\ msRead16(p + 2) = c.maxLocals
    <3>1. msRead16(p) = c.maxStack
      BY <1>1, <1>2, <1>8, <2>1, ReadTwo
    <3>2. msRead16(p + 2) = c.maxLocals
      BY <1>1, <1>2, <1>8, <2>1, ReadTwo
    <3>3. QED
      BY <3>1, <3>2
  <2>3. cl = n
    BY <1>2, <1>3, <1>8, <2>1, ReadFour
  <2>4. q = p + (8 + n)
    BY <1>3, <2>3
  <2>5. q + 2 <= N
    BY <1>3, <1>5, <1>6, <1>10, <2>4
  <2>6. et = rows
    <3>1. At(W, q, U2(rows)) /\ q + 2 <= Len(data)
      BY <1>2, <1>8, <2>4, <2>5
    <3>2. QED
      BY <1>3, <3>1, ReadTwo
  <2>7. r = p + (8 + n + 2 + 8 * rows) /\ r + 2 = e /\ r + 2 <= N
    <3>1. r = p + (8 + n + 2 + 8 * rows)
      BY <1>3, <2>4, <2>6
    <3>2. r + 2 = e
      BY <1>5, <3>1
    <3>3. QED
      BY <1>10, <3>1, <3>2
  <2>8. msRead16(r) = own
    <3>1. At(W, r, U2(own)) /\ r + 2 <= Len(data)
      BY <1>2, <1>8, <2>7
    <3>2. QED
      BY <1>3, <3>1, ReadTwo
  <2>9. msRead(p + 8, cl) = c.code
    <3>1. (p + 8) + n <= N
      BY <1>3, <2>4, <2>5
    <3>2. (p + 8) + Len(c.code) <= Len(data)
      BY <1>2, <3>1
    <3>3. msRead(p + 8, Len(c.code)) = c.code
      BY <1>1, <1>8, <3>2, ReadBytes
    <3>4. QED
      BY <1>2, <2>3, <3>3
  <2>10. [z \in 1..et |->
            [k \in 1..4 |-> msRead16(q + 2 + 8 * (z - 1) + 2 * (k - 1))]] = c.eTable
    <3>1. PICK t, x : t = c.eTable /\ x = q + 2
      OBVIOUS
    <3>2. t \in Seq([1..4 -> Nat]) /\ rows = Len(t) /\ x \in Nat
      <4>1. x \in Nat
        BY <1>6, <3>1
      <4>2. QED
        BY <1>1, <1>2, <3>1, <4>1
    <3>3. x + 8 * rows <= N
      BY <1>3, <1>6, <2>6, <2>7, <3>1
    <3>4. x + 8 * rows <= Len(data)
      BY <1>2, <3>3
    <3>5. x = p + (8 + n) + 2
      BY <2>4, <3>1
    <3>6. \A z \in 1..rows : \A k \in 1..4 : At(W, (x + 8 * (z - 1)) + 2 * (k - 1), U2(t[z][k]))
      BY <1>8, <3>1, <3>5
    <3>7. [z \in 1..rows |-> [k \in 1..4 |-> msRead16(x + 8 * (z - 1) + 2 * (k - 1))]] = t
      BY <3>2, <3>4, <3>6, RowsRead
    <3>8. QED
      BY <2>6, <3>1, <3>7
  <2>11. QED
    BY <2>2, <2>3, <2>7, <2>8, <2>9, <2>10
<1>11. QED
  BY <1>2, <1>5, <1>7, <1>9, <1>10

(* Where the attributes of the code begin. *)
LEMMA OwnStarts ==
  ASSUME NEW c \in Codes, NEW w, NEW p, CodeLies(w, p, c)
  PROVE  CountAt(c) \in Nat /\ Len(c.attrs) \in Nat /\ OwnAt(c, 0) = CountAt(c) + 2
<1>1. c.code \in Seq(Nat) /\ c.eTable \in Seq([1..4 -> Nat]) /\ c.attrs \in Seq(PlainAttributes)
  BY DEF Codes
<1>2. PICK n, rows, x : n = Len(c.code) /\ rows = Len(c.eTable) /\ x = CountAt(c)
  OBVIOUS
<1>3. n \in Nat /\ rows \in Nat /\ Len(c.attrs) \in Nat
  BY <1>1, <1>2, SeqElements
<1>4. x = 8 + n + 2 + 8 * rows
  BY <1>2 DEF CountAt, TableAt
<1>5. x \in Nat
  BY <1>3, <1>4
<1>6. Reach(PlainParts(c.attrs), 0) = 0
  BY DEF CodeLies, Listed
<1>7. OwnAt(c, 0) = x + 2
  <2>1. OwnAt(c, 0) = x + 2 + Reach(PlainParts(c.attrs), 0)
    BY <1>2 DEF OwnAt
  <2>2. OwnAt(c, 0) = x + 2 + 0
    BY <1>6, <2>1
  <2>3. x + 2 + 0 = x + 2
    BY <1>5
  <2>4. QED
    BY <2>2, <2>3, Zenon
<1>8. QED
  BY <1>2, <1>3, <1>5, <1>7

(* The attribute that was read as code is code. *)
LEMMA CodeKnown ==
  ASSUME FileRead, NEW a \in AnyAttributes, AttributeLies(W, pos, a), pos \in Nat,
         a.code # NoCode <=> Name(a.nameIndex) = CodeName,
         Name(msRead16(pos)) = CodeName, pos + 2 <= Len(data)
  PROVE  a.code # NoCode
<1>1. msRead16(pos) = a.nameIndex
  BY NameHere
<1>2. QED
  BY <1>1

LEMMA CodeAttributeKeeps ==
  ASSUME Inv, CodeAttribute
  PROVE  Inv'
<1>1. /\ phase = "methods" /\ left[2] > 0 /\ left[3] = 0
      /\ IsName(msRead16(pos)) /\ Name(msRead16(pos)) = CodeName
  BY DEF CodeAttribute
<1>2. FileRead /\ Len(W) \in Nat /\ Len(data) \in Nat
  BY <1>1, MethodsHere, Here
<1>3. PICK n, k, g, as, p, o, a, u, v : Comes(n, k, g, as, p, o, a, u, v)
  BY <1>1, NextAttribute
<1>4. /\ n \in 1..Len(file.methods) /\ n \in Nat /\ n > 0 /\ m = n
      /\ g = file.methods[n] /\ as = g.attrs
      /\ k \in Nat /\ k + 1 \in 0..Len(as) /\ Len(as) \in Nat
      /\ a = as[k + 1] /\ a \in AnyAttributes /\ AttributeLies(W, pos, a)
      /\ o = MemberAt(file.methods, n - 1) /\ u = AttributeAt(as, k)
  BY <1>3 DEF Comes
<1>5. /\ MethodsSeen(n)
      /\ MethodRight(class.methods[n], g, k, OwnCount(as, k))
      /\ IsName(a.nameIndex) /\ (a.code # NoCode <=> Name(a.nameIndex) = CodeName)
      /\ left[1] = Len(file.methods) - n /\ left[2] - 1 = Len(as) - (k + 1)
  BY <1>3 DEF Comes
<1>6. /\ p = MethodsAt(file) + o + 8 /\ p \in Nat /\ o \in Nat /\ MethodsAt(file) \in Nat
      /\ u \in Nat /\ v \in Nat /\ pos = p + u /\ p + v <= Len(W)
      /\ v = u + AttributeLength(a)
  BY <1>3 DEF Comes
<1>7. pos \in Nat /\ pos + 6 \in Nat /\ pos + 2 \in Nat
  <2>1. pos = p + u /\ p \in Nat /\ u \in Nat
    BY <1>6
  <2>2. QED
    BY <2>1
<1>8. PICK b, cl, q, et, r, ac, end :
        /\ b = pos + 6 /\ cl = msRead32(b + 4) /\ q = b + 8 + cl /\ et = msRead16(q)
        /\ r = q + 2 + 8 * et /\ ac = msRead16(r) /\ end = r + 2
  OBVIOUS
<1>9. PICK ms, tbl, nleft :
        /\ ms = class.methods
        /\ tbl = [z \in 1..et |->
                    [j \in 1..4 |-> msRead16(q + 2 + 8 * (z - 1) + 2 * (j - 1))]]
        /\ nleft = <<left[1], left[2] - 1, ac>>
  OBVIOUS
<1>10. PICK base \in Bases :
         Step(r + 2, 1, "methods", nleft,
           [class EXCEPT
              !.methods[m].attrs = Append(@, [nameIndex |-> 0, info |-> <<>>]),
              !.methods[m].code =
                [attrNameIndex |-> msRead16(pos), attrLength |-> msRead32(pos + 2),
                 maxStack |-> msRead16(b), maxLocals |-> msRead16(b + 2),
                 codeLength |-> cl, base |-> base, code |-> Block(base, msRead(b + 8, cl)),
                 eTable |-> tbl, attrs |-> <<>>]])
  <2>. DEFINE b0 == pos + 6
              cl0 == msRead32(b0 + 4)
              q0 == b0 + 8 + cl0
              et0 == msRead16(q0)
              r0 == q0 + 2 + 8 * et0
              tbl0 == [z \in 1..et0 |->
                         [j \in 1..4 |-> msRead16(q0 + 2 + 8 * (z - 1) + 2 * (j - 1))]]
  <2>1. \E base \in Bases :
          Step(r0 + 2, 1, "methods", <<left[1], left[2] - 1, msRead16(r0)>>,
            [class EXCEPT
               !.methods[m].attrs = Append(@, [nameIndex |-> 0, info |-> <<>>]),
               !.methods[m].code =
                 [attrNameIndex |-> msRead16(pos), attrLength |-> msRead32(pos + 2),
                  maxStack |-> msRead16(b0), maxLocals |-> msRead16(b0 + 2),
                  codeLength |-> cl0, base |-> base, code |-> Block(base, msRead(b0 + 8, cl0)),
                  eTable |-> tbl0, attrs |-> <<>>]])
    BY Zenon DEF CodeAttribute
  <2>2. b0 = b /\ cl0 = cl /\ q0 = q /\ et0 = et /\ r0 = r /\ msRead16(r0) = ac /\ tbl0 = tbl
    BY <1>8, <1>9
  <2>. HIDE DEF b0, cl0, q0, et0, r0, tbl0
  <2>3. QED
    BY <1>9, <2>1, <2>2, Zenon
<1>11. PICK cc, f, x, c :
         /\ cc = [attrNameIndex |-> msRead16(pos), attrLength |-> msRead32(pos + 2),
                  maxStack |-> msRead16(b), maxLocals |-> msRead16(b + 2),
                  codeLength |-> cl, base |-> base, code |-> Block(base, msRead(b + 8, cl)),
                  eTable |-> tbl, attrs |-> <<>>]
         /\ f = MethodWithCode(ms[n], Blank, cc) /\ x = WithMember(ms, n, f)
         /\ c = [class EXCEPT !.methods = x]
  OBVIOUS
<1>12. Step(end, 1, "methods", nleft, c)
  <2>1. [class EXCEPT !.methods[m].attrs = Append(@, [nameIndex |-> 0, info |-> <<>>]),
                      !.methods[m].code = cc] = c
    <3>1. n = m /\ ms = class.methods
      BY <1>4, <1>9
    <3>2. c = [class EXCEPT !.methods = WithMember(ms, n, MethodWithCode(ms[n], Blank, cc))]
      BY <1>11
    <3>3. QED
      BY <3>1, <3>2 DEF WithMember, MethodWithCode, Blank
  <2>2. QED
    BY <1>8, <1>10, <1>11, <2>1
<1>13. CASE Inv'
  BY <1>13
<1>14. CASE ~Inv' /\ a.code = NoCode
  <2>1. PICK l, e : l = AttributeLength(a) /\ e = pos + l
    OBVIOUS
  <2>2. l \in Nat /\ l >= 6
    BY <1>4, <2>1, LengthIs
  <2>3. e \in Nat /\ e <= Len(W)
    <3>1. e = p + v
      BY <1>6, <2>1, <2>2
    <3>2. QED
      BY <1>6, <3>1
  <2>4. cl \in Nat /\ q \in Nat /\ et \in Nat
    <3>1. b \in Nat /\ b + 4 \in Nat
      BY <1>7, <1>8
    <3>2. cl \in Nat
      BY <1>2, <1>8, <3>1, ReadNat
    <3>3. q \in Nat
      BY <1>8, <3>1, <3>2
    <3>4. et \in Nat
      BY <1>2, <1>8, <3>3, ReadNat
    <3>5. QED
      BY <3>2, <3>3, <3>4
  <2>5. end \in Nat /\ end >= pos + 2
    BY <1>7, <1>8, <2>4
  <2>6. ~(pos + 2 <= Len(data))
    BY <1>1, <1>2, <1>4, <1>5, <1>7, <1>14, CodeKnown
  <2>7. ~(e <= Len(data)) /\ ~(end <= Len(data))
    BY <1>2, <1>7, <2>1, <2>2, <2>3, <2>5, <2>6
  <2>8. e <= Len(data)
    BY <1>12, <1>14, <2>3, <2>5, <2>7, StepKeeps
  <2>9. QED
    BY <2>7, <2>8
<1>15. CASE ~Inv' /\ a.code # NoCode
  <2>1. PICK w : w = a.code
    OBVIOUS
  <2>2. w \in Codes /\ a.nameIndex \in Nat
    BY <1>4, <1>15, <2>1, CodesHaveCode
  <2>3. At(W, pos + 2, U4(Len(CodeBytes(w)))) /\ CodeLies(W, b, w)
    BY <1>4, <1>8, <1>15, <2>1 DEF AttributeLies
  <2>4. PICK e, t : e = b + CountAt(w) + 2 /\ t = CountAt(w)
    OBVIOUS
  <2>5. b \in Nat
    BY <1>7, <1>8
  <2>6. /\ end \in Nat /\ end >= b /\ e \in Nat /\ e >= b /\ e <= Len(W)
        /\ e <= Len(data) \/ end <= Len(data) =>
              /\ end = e
              /\ msRead16(b) = w.maxStack /\ msRead16(b + 2) = w.maxLocals
              /\ cl = Len(w.code) /\ msRead(b + 8, cl) = w.code
              /\ tbl = w.eTable
              /\ ac = Len(w.attrs)
    <3>1. /\ FileRead /\ b \in Nat /\ w \in Codes /\ CodeLies(W, b, w)
          /\ cl = msRead32(b + 4) /\ q = b + 8 + cl /\ et = msRead16(q)
          /\ r = q + 2 + 8 * et /\ e = b + CountAt(w) + 2
      BY <1>2, <1>8, <2>2, <2>3, <2>4, <2>5
    <3>2. /\ r + 2 \in Nat /\ r + 2 >= b /\ e \in Nat /\ e >= b /\ e <= Len(W)
          /\ e <= Len(data) \/ r + 2 <= Len(data) =>
               /\ r + 2 = e
               /\ msRead16(b) = w.maxStack /\ msRead16(b + 2) = w.maxLocals
               /\ cl = Len(w.code) /\ msRead(b + 8, cl) = w.code
               /\ [z \in 1..et |->
                     [j \in 1..4 |-> msRead16(q + 2 + 8 * (z - 1) + 2 * (j - 1))]] = w.eTable
               /\ msRead16(r) = Len(w.attrs)
      BY <3>1, CodeReads
    <3>3. QED
      BY <1>8, <1>9, <3>2
  <2>7. e <= Len(data) \/ end <= Len(data) => end = e
    BY <2>6
  <2>8. /\ e <= Len(data) /\ pos' = e /\ phase' = "methods" /\ left' = nleft
        /\ class' = c /\ UNCHANGED <<file, data>> /\ FileRead'
    BY <1>12, <1>15, <2>6, <2>7, StepKeeps
  <2>9. /\ msRead16(b) = w.maxStack /\ msRead16(b + 2) = w.maxLocals
        /\ cl = Len(w.code) /\ msRead(b + 8, cl) = w.code
        /\ tbl = w.eTable /\ ac = Len(w.attrs)
    BY <2>6, <2>8
  <2>10. msRead16(pos) = a.nameIndex /\ msRead32(pos + 2) = Len(CodeBytes(w))
    <3>1. pos + 2 <= Len(data) /\ (pos + 2) + 4 <= Len(data)
      BY <1>2, <1>7, <1>8, <2>6, <2>8
    <3>2. msRead16(pos) = a.nameIndex
      BY <1>2, <1>4, <3>1, NameHere
    <3>3. Len(CodeBytes(w)) \in Nat
      BY <2>2, CodeIs, SeqElements
    <3>4. msRead32(pos + 2) = Len(CodeBytes(w))
      BY <1>2, <2>3, <3>1, <3>3, ReadFour
    <3>5. QED
      BY <3>2, <3>4
  <2>11. cc = CodeCopy(a, base, 0)
    <3>1. PlainCopies(w.attrs, 0) = <<>>
      BY CopiesNext
    <3>2. QED
      BY <1>11, <2>1, <2>9, <2>10, <3>1 DEF CodeCopy
  <2>12. MethodRight(f, g, k + 1, 0)
    <3>1. MethodRight(ms[n], g, k, OwnCount(g.attrs, k))
      BY <1>4, <1>5, <1>9
    <3>2. k \in Nat /\ g.attrs[k + 1].code # NoCode /\ cc = CodeCopy(g.attrs[k + 1], base, 0)
      BY <1>4, <1>15, <2>11
    <3>3. MethodRight(MethodWithCode(ms[n], Blank, CodeCopy(g.attrs[k + 1], base, 0)), g, k + 1, 0)
      BY <1>10, <3>1, <3>2, CodeMakesRight
    <3>4. QED
      BY <1>11, <3>2, <3>3
  <2>13. PICK i : i = k + 1
    OBVIOUS
  <2>14. /\ t \in Nat /\ OwnCount(as, i) = ac /\ ac \in Nat
         /\ InAttributes(as, i, 0) = u + 6 + (t + 2)
    <3>1. CountAt(w) \in Nat /\ Len(w.attrs) \in Nat /\ OwnAt(w, 0) = CountAt(w) + 2
      BY <2>2, <2>3, OwnStarts
    <3>2. i # 0 /\ i - 1 = k /\ as[i].code = w /\ w # NoCode
      BY <1>4, <1>15, <2>1, <2>13
    <3>3. OwnCount(as, i) = Len(w.attrs)
      BY <3>2 DEF OwnCount
    <3>4. InAttributes(as, i, 0) = AttributeAt(as, k) + 6 + OwnAt(w, 0)
      BY <3>2 DEF InAttributes
    <3>5. QED
      BY <1>4, <2>4, <2>9, <3>1, <3>3, <3>4
  <2>15. Whole(x, file.methods, n) /\ MethodRight(x[n], file.methods[n], i, 0)
    <3>1. Whole(ms, file.methods, n)
      BY <1>5, <1>9 DEF MethodsSeen, Whole
    <3>2. PICK gs : gs = file.methods
      OBVIOUS
    <3>3. Whole(x, gs, n) /\ x[n] = f
      <4>1. /\ n \in Nat /\ n > 0 /\ x = WithMember(ms, n, f) /\ Whole(ms, gs, n)
        BY <1>4, <1>11, <3>1, <3>2
      <4>2. QED
        BY <4>1, WrittenIs
    <3>4. QED
      BY <1>4, <2>12, <2>13, <3>2, <3>3
  <2>16. /\ x = [j \in 1..n |-> x[j]]
         /\ \A j \in 1..(n - 1) : MethodWhole(x[j], file.methods[j])
         /\ MethodRight(x[n], file.methods[n], i, 0)
    BY <2>15 DEF Whole
  <2>17. e = MethodsAt(file) + (o + 8 + InAttributes(as, i, 0))
    <3>1. e = ((p + u) + 6) + t + 2
      BY <1>6, <1>8, <2>4
    <3>2. p = MethodsAt(file) + o + 8 /\ o \in Nat /\ MethodsAt(file) \in Nat /\ u \in Nat
      BY <1>6
    <3>3. PICK y : y = MethodsAt(file)
      OBVIOUS
    <3>4. e = y + (o + 8 + (u + 6 + (t + 2)))
      BY <2>14, <3>1, <3>2, <3>3
    <3>5. QED
      BY <2>14, <3>3, <3>4
  <2>18. /\ n \in 1..Len(file.methods) /\ n \in Nat /\ n > 0 /\ as = file.methods[n].attrs
         /\ i \in 0..Len(as)
         /\ e = MethodsAt(file) + (MemberAt(file.methods, n - 1) + 8 + InAttributes(as, i, 0))
    BY <1>4, <2>13, <2>17
  <2>19. 0 \in 0..OwnCount(as, i) /\ ac - 0 = ac
    <3>1. 0 \in 0..ac /\ ac - 0 = ac
      BY <2>14
    <3>2. QED
      BY <2>14, <3>1
  <2>20. left' = <<Len(file.methods) - n, Len(as) - i, OwnCount(as, i) - 0>>
    <3>1. OwnCount(as, i) - 0 = ac
      BY <2>14, <2>19
    <3>2. QED
      BY <1>5, <1>9, <2>8, <2>13, <3>1
  <2>21. class' = [class EXCEPT !.methods = x] /\ e \in Nat
    BY <1>11, <2>6, <2>8
  <2>22. /\ phase = "methods" /\ phase' = "methods" /\ e <= Len(data) /\ pos' = e
         /\ UNCHANGED <<file, data>> /\ FileRead'
    BY <1>1, <2>8
  <2>23. QED
    BY <2>16, <2>18, <2>19, <2>20, <2>21, <2>22, MethodGrows
<1>16. QED
  BY <1>13, <1>14, <1>15

(* The attribute d of its code that is to come, the (l+1)-th. *)
OwnComes(n, k, l, g, as, p, o, c, d, u, t) ==
  /\ n \in 1..Len(file.methods) /\ n \in Nat /\ n > 0 /\ m = n
  /\ g = file.methods[n] /\ as = g.attrs
  /\ k \in 0..Len(as) /\ k \in Nat /\ k > 0 /\ l \in Nat /\ l + 1 \in 0..OwnCount(as, k)
  /\ c = as[k].code /\ c # NoCode /\ d = c.attrs[l + 1] /\ d \in AnyAttributes
  /\ d.code = NoCode
  /\ o = MemberAt(file.methods, n - 1) /\ p = MethodsAt(file) + o + 8
  /\ u = InAttributes(as, k, l) /\ t = InAttributes(as, k, l + 1)
  /\ AttributeLies(W, pos, d)
  /\ MethodsSeen(n)
  /\ MethodRight(class.methods[n], g, k, l)
  /\ \A j \in 1..k : as[j].code # NoCode => j = k
  /\ [left EXCEPT ![3] = @ - 1]
       = <<Len(file.methods) - n, Len(as) - k, OwnCount(as, k) - (l + 1)>>

OwnPlaces(p, o, d, u, t) ==
  /\ p = MethodsAt(file) + o + 8 /\ p \in Nat /\ o \in Nat /\ MethodsAt(file) \in Nat
  /\ u \in Nat /\ t \in Nat /\ t = u + AttributeLength(d) /\ pos = p + u /\ p + t <= Len(W)

LEMMA NextOwnAttribute ==
  ASSUME Inv, phase = "methods", left[3] > 0
  PROVE  \E n, k, l, g, as, p, o, c, d, u, t :
           OwnComes(n, k, l, g, as, p, o, c, d, u, t) /\ OwnPlaces(p, o, d, u, t)
<1>1. /\ FileRead /\ Len(file.methods) \in Nat
  BY MethodsHere
<1>2. PICK n, k, l : /\ n \in 0..Len(file.methods)
                     /\ k \in 0..Len(AttrsOf(file.methods, n))
                     /\ l \in 0..OwnCount(AttrsOf(file.methods, n), k)
                     /\ MethodsBehind(n, k, l)
  BY MethodsHere
<1>3. PICK as, cnt, len, own, g, o, p :
        /\ as = AttrsOf(file.methods, n) /\ cnt = Len(file.methods)
        /\ len = Len(as) /\ own = OwnCount(as, k) /\ g = file.methods[n]
        /\ o = MemberAt(file.methods, n - 1) /\ p = MethodsAt(file) + o + 8
  OBVIOUS
<1>4. cnt \in Nat /\ len \in Nat /\ own \in Nat /\ n \in 0..cnt /\ k \in 0..len /\ l \in 0..own
  BY <1>1, <1>2, <1>3, AttrsHere
<1>5. left = <<cnt - n, len - k, own - l>>
  BY <1>2, <1>3 DEF MethodsBehind
<1>6. /\ l < own /\ k \in Nat /\ l \in Nat
      /\ [left EXCEPT ![3] = @ - 1] = <<cnt - n, len - k, own - (l + 1)>>
  BY <1>4, <1>5, LeftSays
<1>7. PICK c : c = as[k].code
  OBVIOUS
<1>8. k # 0 /\ c # NoCode /\ own = Len(c.attrs) /\ k > 0 /\ len > 0 /\ l + 1 \in 0..own
  <2>1. own # 0 /\ l + 1 \in 0..own
    BY <1>4, <1>6
  <2>2. k # 0 /\ c # NoCode /\ own = Len(c.attrs)
    BY <1>3, <1>7, <2>1 DEF OwnCount
  <2>3. k > 0 /\ len > 0
    BY <1>4, <2>2
  <2>4. QED
    BY <2>1, <2>2, <2>3
<1>9. /\ n \in 1..Len(file.methods) /\ n \in Nat /\ n > 0 /\ as = g.attrs /\ m = n
      /\ p \in Nat /\ AttributesLie(W, p, as) /\ as \in Seq(AnyAttributes)
      /\ MethodsAt(file) \in Nat /\ o \in Nat
      /\ pos = MethodsAt(file) + (o + 8 + InAttributes(as, k, l))
      /\ MethodsSeen(n)
      /\ MethodRight(class.methods[n], g, k, l)
      /\ MethodFits(file.pool, g)
  <2>1. /\ Len(as) > 0 /\ n \in 0..Len(file.methods) /\ as = AttrsOf(file.methods, n)
        /\ k \in 0..Len(as) /\ l \in 0..OwnCount(as, k) /\ MethodsBehind(n, k, l)
    BY <1>2, <1>3, <1>8
  <2>2. /\ g = file.methods[n] /\ o = MemberAt(file.methods, n - 1)
        /\ p = MethodsAt(file) + o + 8
    BY <1>3
  <2>3. QED
    BY <2>1, <2>2, MethodHere
<1>10. PICK h : h = k - 1
  OBVIOUS
<1>11. h \in Nat /\ h < Len(as) /\ h + 1 = k
  <2>1. h \in Nat /\ h < len /\ h + 1 = k
    BY <1>4, <1>8, <1>10
  <2>2. QED
    BY <1>3, <2>1
<1>12. PICK x : x = AttributeAt(as, h)
  OBVIOUS
<1>13. as[k] \in AnyAttributes /\ x \in Nat /\ AttributeLies(W, p + x, as[k])
  <2>1. as[h + 1] \in AnyAttributes /\ x \in Nat /\ AttributeLies(W, p + x, as[h + 1])
    BY <1>9, <1>11, <1>12, AttributeHere
  <2>2. QED
    BY <1>11, <2>1
<1>14. c \in Codes
  BY <1>7, <1>8, <1>13, CodesHaveCode
<1>15. CodeLies(W, (p + x) + 6, c)
  BY <1>7, <1>8, <1>13 DEF AttributeLies
<1>16. PICK ds, y : ds = c.attrs /\ y = CountAt(c)
  OBVIOUS
<1>17. y \in Nat
  BY <1>14, <1>15, <1>16, OwnStarts
<1>18. PICK s : s = (p + x) + 6 + y + 2
  OBVIOUS
<1>19. s \in Nat /\ ds \in Seq(PlainAttributes) /\ Listed(W, s, PlainParts(ds))
  <2>1. s \in Nat
    BY <1>9, <1>13, <1>17, <1>18
  <2>2. ds \in Seq(PlainAttributes)
    BY <1>14, <1>16 DEF Codes
  <2>3. Listed(W, s, PlainParts(ds))
    BY <1>15, <1>16, <1>18 DEF CodeLies
  <2>4. QED
    BY <2>1, <2>2, <2>3
<1>20. /\ ds \in Seq(AnyAttributes) /\ AttributesLie(W, s, ds)
       /\ PlainParts(ds) = AttributeParts(ds)
  BY <1>1, <1>19, Here, PlainsAre, PlainsThere
<1>21. PICK d, e, f : d = ds[l + 1] /\ e = AttributeAt(ds, l) /\ f = AttributeAt(ds, l + 1)
  OBVIOUS
<1>22. l < Len(ds)
  BY <1>6, <1>8, <1>16
<1>23. /\ d \in AnyAttributes /\ l + 1 \in 1..Len(ds) /\ e \in Nat /\ f \in Nat
       /\ AttributeLies(W, s + e, d) /\ f = e + AttributeLength(d) /\ s + f <= Len(W)
  BY <1>6, <1>20, <1>21, <1>22, AttributeHere
<1>24. d.code = NoCode
  <2>1. d \in PlainAttributes
    BY <1>19, <1>21, <1>23, SeqElements
  <2>2. QED
    BY <2>1 DEF PlainAttributes
<1>25. PICK u, t : u = InAttributes(as, k, l) /\ t = InAttributes(as, k, l + 1)
  OBVIOUS
<1>26. u = x + 6 + (y + 2 + e) /\ t = x + 6 + (y + 2 + f)
  <2>1. OwnAt(c, l) = y + 2 + e /\ OwnAt(c, l + 1) = y + 2 + f
    BY <1>16, <1>20, <1>21 DEF OwnAt, AttributeAt
  <2>2. u = AttributeAt(as, k - 1) + 6 + OwnAt(c, l)
    BY <1>7, <1>8, <1>25 DEF InAttributes
  <2>3. t = AttributeAt(as, k - 1) + 6 + OwnAt(c, l + 1)
    BY <1>7, <1>8, <1>25 DEF InAttributes
  <2>4. QED
    BY <1>10, <1>12, <2>1, <2>2, <2>3
<1>27. u \in Nat /\ t \in Nat /\ t = u + AttributeLength(d)
  <2>1. PICK z : z = AttributeLength(d)
    OBVIOUS
  <2>2. z \in Nat
    BY <1>23, <2>1, LengthIs
  <2>3. f = e + z
    BY <1>23, <2>1
  <2>4. u \in Nat /\ t \in Nat /\ t = u + z
    BY <1>13, <1>17, <1>23, <1>26, <2>2, <2>3
  <2>5. QED
    BY <2>1, <2>4
<1>28. pos = p + u /\ pos = s + e /\ p + t = s + f
  <2>1. PICK z : z = MethodsAt(file)
    OBVIOUS
  <2>2. z \in Nat /\ o \in Nat /\ p = z + o + 8 /\ pos = z + (o + 8 + u)
    BY <1>3, <1>9, <1>25, <2>1
  <2>3. pos = p + u
    BY <1>27, <2>2
  <2>4. x \in Nat /\ y \in Nat /\ e \in Nat /\ f \in Nat /\ p \in Nat
    BY <1>9, <1>13, <1>17, <1>23
  <2>5. p + u = s + e /\ p + t = s + f
    BY <1>18, <1>26, <2>4
  <2>6. QED
    BY <2>3, <2>5
<1>29. \A j \in 1..k : as[j].code # NoCode => j = k
  <2>1. DOMAIN g.attrs = 1..len
    BY <1>3, <1>9, SeqElements
  <2>2. k \in 1..len /\ \A j \in 1..k : j \in 1..len
    BY <1>4, <1>8
  <2>3. as[k].code # NoCode
    BY <1>7, <1>8
  <2>4. QED
    BY <1>9, <2>1, <2>2, <2>3 DEF MethodFits
<1>30. AttributeLies(W, pos, d)
  BY <1>23, <1>28
<1>31. OwnPlaces(p, o, d, u, t)
  <2>1. p + t <= Len(W)
    BY <1>23, <1>28
  <2>2. QED
    BY <1>3, <1>9, <1>27, <1>28, <2>1 DEF OwnPlaces
<1>32. [left EXCEPT ![3] = @ - 1]
         = <<Len(file.methods) - n, Len(as) - k, OwnCount(as, k) - (l + 1)>>
  BY <1>3, <1>6
<1>33. k \in 0..Len(as) /\ l + 1 \in 0..OwnCount(as, k) /\ k \in Nat /\ k > 0 /\ l \in Nat
  BY <1>3, <1>4, <1>6, <1>8
<1>34. OwnComes(n, k, l, g, as, p, o, c, d, u, t)
  BY <1>3, <1>7, <1>8, <1>9, <1>16, <1>21, <1>23, <1>24, <1>25, <1>29, <1>30, <1>32, <1>33
     DEF OwnComes
<1>35. QED
  BY <1>31, <1>34

LEMMA CodeOwnAttributeKeeps ==
  ASSUME Inv, CodeOwnAttribute
  PROVE  Inv'
<1>1. phase = "methods" /\ left[3] > 0
  BY DEF CodeOwnAttribute
<1>2. FileRead /\ Len(W) \in Nat /\ Len(data) \in Nat
  BY <1>1, MethodsHere, Here
<1>3. PICK n, k, l, g, as, p, o, c, d, u, t :
        OwnComes(n, k, l, g, as, p, o, c, d, u, t) /\ OwnPlaces(p, o, d, u, t)
  BY <1>1, NextOwnAttribute
<1>4. /\ n \in 1..Len(file.methods) /\ n \in Nat /\ n > 0 /\ m = n
      /\ g = file.methods[n] /\ as = g.attrs
      /\ k \in 0..Len(as) /\ k \in Nat /\ k > 0 /\ l \in Nat /\ l + 1 \in 0..OwnCount(as, k)
      /\ c = as[k].code /\ c # NoCode /\ d = c.attrs[l + 1] /\ d \in AnyAttributes
      /\ d.code = NoCode
      /\ o = MemberAt(file.methods, n - 1) /\ t = InAttributes(as, k, l + 1)
      /\ AttributeLies(W, pos, d)
  BY <1>3 DEF OwnComes
<1>5. /\ MethodsSeen(n)
      /\ MethodRight(class.methods[n], g, k, l)
      /\ \A j \in 1..k : as[j].code # NoCode => j = k
      /\ [left EXCEPT ![3] = @ - 1]
           = <<Len(file.methods) - n, Len(as) - k, OwnCount(as, k) - (l + 1)>>
  BY <1>3 DEF OwnComes
<1>6. /\ p = MethodsAt(file) + o + 8 /\ p \in Nat /\ o \in Nat /\ MethodsAt(file) \in Nat
      /\ u \in Nat /\ t \in Nat /\ t = u + AttributeLength(d) /\ pos = p + u
      /\ p + t <= Len(W)
  BY <1>3 DEF OwnPlaces
<1>7. PICK size, z, end, e : /\ size = AttributeSize(pos) /\ z = AttributeLength(d)
                             /\ end = pos + size /\ e = pos + z
  OBVIOUS
<1>8. /\ size \in Nat /\ z \in Nat /\ pos \in Nat
      /\ end <= Len(data) \/ e <= Len(data) => size = z /\ Attribute(pos) = PlainCopy(d)
  BY <1>2, <1>4, <1>7, ReadAttribute
<1>9. e = p + t /\ e \in Nat /\ end \in Nat
  <2>1. t = u + z /\ pos = p + u /\ p \in Nat /\ u \in Nat
    BY <1>6, <1>7
  <2>2. e = pos + z /\ end = pos + size /\ z \in Nat /\ size \in Nat
    BY <1>7, <1>8
  <2>3. QED
    BY <2>1, <2>2
<1>10. PICK ms, b, f, x, cl, nleft, memory :
         /\ ms = class.methods /\ b = Attribute(pos)
         /\ f = CodeWithAttribute(ms[n], b) /\ x = WithMember(ms, n, f)
         /\ cl = [class EXCEPT !.methods = x] /\ nleft = [left EXCEPT ![3] = @ - 1]
         /\ memory = msRead32(pos + 2)
  OBVIOUS
<1>11. Step(end, memory, "methods", nleft, cl)
  <2>1. [class EXCEPT !.methods[m].code.attrs = Append(@, Attribute(pos))] = cl
    <3>1. n = m /\ ms = class.methods
      BY <1>4, <1>10
    <3>2. cl = [class EXCEPT !.methods = WithMember(ms, n, CodeWithAttribute(ms[n], b))]
      BY <1>10
    <3>3. [class EXCEPT !.methods[m].code.attrs = Append(@, b)] = cl
      BY <3>1, <3>2 DEF WithMember, CodeWithAttribute
    <3>4. QED
      BY <1>10, <3>3
  <2>2. QED
    BY <1>7, <1>10, <2>1 DEF CodeOwnAttribute
<1>12. CASE Inv'
  BY <1>12
<1>13. CASE ~Inv'
  <2>1. e <= Len(data) \/ end <= Len(data) => end = e
    BY <1>7, <1>8
  <2>2. e <= Len(W)
    BY <1>6, <1>9
  <2>3. /\ e <= Len(data) /\ pos' = e /\ phase' = "methods" /\ left' = nleft
        /\ class' = cl /\ UNCHANGED <<file, data>> /\ FileRead'
    BY <1>9, <1>11, <1>13, <2>1, <2>2, StepKeeps
  <2>4. b = PlainCopy(d)
    BY <1>8, <1>10, <2>3
  <2>5. PICK i : i = l + 1
    OBVIOUS
  <2>6. MethodRight(f, g, k, i)
    <3>1. MethodRight(ms[n], g, k, l) /\ g.attrs[k].code # NoCode
      BY <1>4, <1>5, <1>10
    <3>2. \A j \in 1..k : g.attrs[j].code # NoCode => j = k
      BY <1>4, <1>5
    <3>3. MethodRight(CodeWithAttribute(ms[n], PlainCopy(g.attrs[k].code.attrs[l + 1])),
                      g, k, l + 1)
      BY <1>4, <3>1, <3>2, OwnKeepsRight
    <3>4. b = PlainCopy(g.attrs[k].code.attrs[l + 1])
      BY <1>4, <2>4
    <3>5. QED
      BY <1>10, <2>5, <3>3, <3>4
  <2>7. Whole(x, file.methods, n) /\ MethodRight(x[n], file.methods[n], k, i)
    <3>1. Whole(ms, file.methods, n)
      BY <1>5, <1>10 DEF MethodsSeen, Whole
    <3>2. PICK gs : gs = file.methods
      OBVIOUS
    <3>3. Whole(x, gs, n) /\ x[n] = f
      <4>1. /\ n \in Nat /\ n > 0 /\ x = WithMember(ms, n, f) /\ Whole(ms, gs, n)
        BY <1>4, <1>10, <3>1, <3>2
      <4>2. QED
        BY <4>1, WrittenIs
    <3>4. QED
      BY <1>4, <2>6, <3>2, <3>3
  <2>8. /\ x = [j \in 1..n |-> x[j]]
        /\ \A j \in 1..(n - 1) : MethodWhole(x[j], file.methods[j])
        /\ MethodRight(x[n], file.methods[n], k, i)
    BY <2>7 DEF Whole
  <2>9. e = MethodsAt(file) + (o + 8 + t)
    BY <1>6, <1>9
  <2>10. /\ n \in 1..Len(file.methods) /\ n \in Nat /\ n > 0 /\ as = file.methods[n].attrs
         /\ k \in 0..Len(as) /\ i \in 0..OwnCount(as, k)
         /\ e = MethodsAt(file) + (MemberAt(file.methods, n - 1) + 8 + InAttributes(as, k, i))
    BY <1>4, <2>5, <2>9
  <2>11. left' = <<Len(file.methods) - n, Len(as) - k, OwnCount(as, k) - i>>
    BY <1>5, <1>10, <2>3, <2>5
  <2>12. class' = [class EXCEPT !.methods = x] /\ e \in Nat
    BY <1>9, <1>10, <2>3
  <2>13. /\ phase = "methods" /\ phase' = "methods" /\ e <= Len(data) /\ pos' = e
         /\ UNCHANGED <<file, data>> /\ FileRead'
    BY <1>1, <2>3
  <2>14. QED
    BY <2>8, <2>10, <2>11, <2>12, <2>13, MethodGrows
<1>14. QED
  BY <1>12, <1>13

(* The interpreter finds the code where the loader put it. *)
Start(base) == IF base = 0 THEN 0 ELSE 4 - base

LEMMA FetchedIs ==
  ASSUME NEW base \in 0..3, NEW bytes \in Seq(Nat)
  PROVE  SubSeq(Block(base, bytes), Start(base) + 1, Start(base) + Len(bytes)) = bytes
<1>. DEFINE n == Len(bytes)
            start == Start(base)
<1>1. n \in Nat /\ \A j \in 1..n : bytes[j] \in Nat
  BY SeqElements
<1>2. DOMAIN bytes = 1..n
  BY SeqElements
<1>3. start \in 0..3 /\ start \in Nat
  BY DEF Start
<1>14. start = IF base = 0 THEN 0 ELSE 4 - base
  BY DEF Start
<1>15. n = Len(bytes)
  OBVIOUS
<1>. HIDE DEF n, start
<1>4. PICK b : b = Block(base, bytes)
  OBVIOUS
<1>5. b = [j \in 1..(n + 4) |-> IF j - start \in 1..n THEN bytes[j - start] ELSE -1]
  BY <1>2, <1>4, <1>14, <1>15 DEF Block
<1>6. \A j \in 1..(n + 4) : b[j] = IF j - start \in 1..n THEN bytes[j - start] ELSE -1
  BY <1>5
<1>7. b \in Seq(Int) /\ Len(b) = n + 4
  <2>1. b = [j \in 1..(n + 4) |-> b[j]]
    BY <1>5
  <2>2. \A j \in 1..(n + 4) : b[j] \in Int
    BY <1>1, <1>6
  <2>3. n + 4 \in Nat
    BY <1>1
  <2>4. QED
    BY <2>1, <2>2, <2>3, Made
<1>8. start + n <= Len(b)
  BY <1>1, <1>3, <1>7
<1>9. PICK t : t = SubSeq(b, start + 1, start + n)
  OBVIOUS
<1>10. t \in Seq(Int) /\ Len(t) = n /\ \A j \in 1..n : t[j] = b[start + j]
  <2>1. b \in Seq(Int) /\ start \in Nat /\ n \in Nat /\ start + n <= Len(b)
    BY <1>1, <1>3, <1>7, <1>8
  <2>2. /\ SubSeq(b, start + 1, start + n) \in Seq(Int)
        /\ Len(SubSeq(b, start + 1, start + n)) = n
        /\ \A j \in 1..n : SubSeq(b, start + 1, start + n)[j] = b[start + j]
    BY <2>1, CutIs
  <2>3. QED
    BY <1>9, <2>2
<1>11. ASSUME NEW j \in 1..n PROVE t[j] = bytes[j]
  <2>1. start + j \in 1..(n + 4) /\ (start + j) - start = j
    BY <1>1, <1>3
  <2>2. b[start + j] = bytes[j]
    BY <1>6, <2>1
  <2>3. QED
    BY <1>10, <2>2
<1>12. t = bytes
  BY <1>10, <1>11, <1>15, SameSeq
<1>13. QED
  BY <1>4, <1>9, <1>12 DEF n, start

LEMMA CodeSame ==
  ASSUME NEW a, a.code \in Codes, NEW base \in Bases, NEW l, l = Len(a.code.attrs)
  PROVE  SameCode(CodeCopy(a, base, l), a)
<1>1. PICK c, b : c = CodeCopy(a, base, l) /\ b = a.code
  OBVIOUS
<1>2. b.code \in Seq(Nat) /\ b.attrs \in Seq(PlainAttributes)
  BY <1>1 DEF Codes
<1>3. base \in 0..3
  BY LoaderAssumption
<1>4. /\ c.attrNameIndex = a.nameIndex /\ c.attrLength = Len(CodeBytes(b))
      /\ c.maxStack = b.maxStack /\ c.maxLocals = b.maxLocals /\ c.eTable = b.eTable
      /\ c.codeLength = Len(b.code) /\ c.base = base /\ c.code = Block(base, b.code)
      /\ c.attrs = PlainCopies(b.attrs, l)
  BY <1>1 DEF CodeCopy
<1>5. Fetched(c) = b.code
  <2>1. PICK bytes : bytes = b.code
    OBVIOUS
  <2>2. bytes \in Seq(Nat)
    BY <1>2, <2>1
  <2>3. SubSeq(Block(base, bytes), Start(base) + 1, Start(base) + Len(bytes)) = bytes
    BY <1>3, <2>2, FetchedIs
  <2>4. ((base + 3) \div 4) * 4 - base = Start(base)
    <3>1. base = 0 \/ base = 1 \/ base = 2 \/ base = 3
      BY <1>3
    <3>2. QED
      BY <3>1 DEF Start
  <2>5. QED
    BY <1>4, <2>1, <2>3, <2>4 DEF Fetched
<1>6. SameList(SamePlain, c.attrs, b.attrs)
  <2>1. SameList(SamePlain, PlainCopies(b.attrs, Len(b.attrs)), b.attrs)
    BY <1>2, PlainsSame
  <2>2. PlainCopies(b.attrs, Len(b.attrs)) = c.attrs
    BY <1>1, <1>4
  <2>3. QED
    BY <2>1, <2>2
<1>7. QED
  BY <1>1, <1>4, <1>5, <1>6 DEF SameCode

LEMMA MethodSame ==
  ASSUME NEW pool, NEW g, g.attrs \in Seq(AnyAttributes), MethodFits(pool, g), NEW f,
         MethodWhole(f, g)
  PROVE  SameMethod(f, g)
<1>1. PICK as, len, own, code : /\ as = g.attrs /\ len = Len(as) /\ own = OwnCount(as, len)
                                /\ code = f.code
  OBVIOUS
<1>2. len \in Nat /\ DOMAIN as = 1..len /\ \A j \in 1..len : as[j] \in AnyAttributes
  BY <1>1, SeqElements
<1>3. f = MethodMade(g, len, code) /\ CodeRight(code, as, len, own)
  BY <1>1, RightIs DEF MethodWhole
<1>4. PICK t : t = f.attrs
  OBVIOUS
<1>5. /\ f.accessFlags = g.accessFlags /\ f.nameIndex = g.nameIndex
      /\ f.descIndex = g.descIndex /\ t = MethodCopies(as, len)
  BY <1>1, <1>3, <1>4 DEF MethodMade
<1>6. t = [j \in 1..len |-> t[j]] /\ \A j \in 1..len : t[j] = MethodCopy(as[j])
  BY <1>5 DEF MethodCopies
<1>7. Len(t) = len
  BY <1>2, <1>6
<1>8. \A j, k \in 1..len : as[j].code # NoCode /\ as[k].code # NoCode => j = k
  BY <1>1, <1>2 DEF MethodFits
<1>9. ASSUME NEW j \in 1..len, as[j].code = NoCode PROVE SamePlain(t[j], as[j])
  <2>1. t[j] = PlainCopy(as[j])
    BY <1>6, <1>9 DEF MethodCopy
  <2>2. \A a : SamePlain(PlainCopy(a), a)
    BY DEF SamePlain, PlainCopy
  <2>3. QED
    BY <2>1, <2>2
<1>10. ASSUME NEW j \in 1..len, as[j].code # NoCode PROVE SameCode(code, as[j])
  <2>1. PICK i, base : /\ i \in 1..len /\ base \in Bases /\ as[i].code # NoCode
                       /\ code = CodeCopy(as[i], base, IF i = len THEN own
                                                       ELSE Len(as[i].code.attrs))
    BY <1>3, <1>10 DEF CodeRight
  <2>2. i = j
    BY <1>8, <1>10, <2>1
  <2>3. i = len => own = Len(as[i].code.attrs)
    <3>1. ASSUME i = len PROVE own = Len(as[i].code.attrs)
      <4>1. len # 0 /\ as[len].code # NoCode
        <5>1. as[len].code # NoCode
          BY <2>1, <3>1
        <5>2. len \in 1..len
          BY <2>1, <3>1
        <5>3. len \in Nat
          BY <1>2
        <5>4. len # 0
          BY <5>2, <5>3
        <5>5. QED
          BY <5>1, <5>4
      <4>2. QED
        BY <1>1, <3>1, <4>1 DEF OwnCount
    <3>2. QED
      BY <3>1
  <2>4. PICK a, l : a = as[j] /\ l = Len(a.code.attrs)
    OBVIOUS
  <2>5. code = CodeCopy(a, base, l)
    BY <2>1, <2>2, <2>3, <2>4
  <2>6. a.code \in Codes
    BY <1>2, <1>10, <2>4, CodesHaveCode
  <2>7. SameCode(CodeCopy(a, base, l), a)
    BY <2>1, <2>4, <2>6, CodeSame
  <2>8. QED
    BY <2>4, <2>5, <2>7
<1>11. ASSUME \A j \in 1..len : ~(as[j].code # NoCode) PROVE code = NoCode
  BY <1>3, <1>11 DEF CodeRight
<1>12. QED
  BY <1>1, <1>2, <1>4, <1>5, <1>7, <1>9, <1>10, <1>11 DEF SameMethod

LEMMA MethodsSame ==
  ASSUME NEW pool, NEW gs \in Seq(Members(AnyAttributes)), NEW n, n = Len(gs),
         \A j \in 1..n : MethodFits(pool, gs[j]), NEW fs, fs = [j \in 1..n |-> fs[j]],
         \A j \in 1..n : MethodWhole(fs[j], gs[j])
  PROVE  SameList(SameMethod, fs, gs)
<1>1. n \in Nat /\ DOMAIN gs = 1..n /\ \A j \in 1..n : gs[j] \in Members(AnyAttributes)
  BY SeqElements
<1>2. Len(fs) = n /\ DOMAIN fs = 1..n
  BY <1>1
<1>3. ASSUME NEW j \in 1..n PROVE SameMethod(fs[j], gs[j])
  <2>1. gs[j].attrs \in Seq(AnyAttributes)
    BY <1>1 DEF Members
  <2>2. QED
    BY <2>1, MethodSame
<1>4. QED
  BY <1>2, <1>3 DEF SameList

LEMMA MethodsDoneKeeps ==
  ASSUME Inv, MethodsDone
  PROVE  Inv'
<1>1. phase = "methods" /\ left = <<0, 0, 0>>
  BY DEF MethodsDone
<1>2. /\ FileRead /\ Places /\ ParametersBehind /\ FieldsRight /\ class.attrs = <<>>
      /\ file.methods \in Seq(Members(AnyAttributes)) /\ Len(file.methods) \in Nat
      /\ MethodsAt(file) \in Nat /\ MembersLie(W, MethodsAt(file), file.methods)
      /\ class.pool = Numbered(file.pool) /\ class.poolCnt = Len(class.pool) + 1
      /\ \A j \in 1..Len(file.methods) : MethodFits(file.pool, file.methods[j])
  BY <1>1, MethodsHere
<1>3. PICK n, k, l : /\ n \in 0..Len(file.methods)
                     /\ k \in 0..Len(AttrsOf(file.methods, n))
                     /\ l \in 0..OwnCount(AttrsOf(file.methods, n), k)
                     /\ MethodsBehind(n, k, l)
  BY <1>1, MethodsHere
<1>4. PICK as, cnt, len, own : /\ as = AttrsOf(file.methods, n) /\ cnt = Len(file.methods)
                               /\ len = Len(as) /\ own = OwnCount(as, k)
  OBVIOUS
<1>5. cnt \in Nat /\ len \in Nat /\ own \in Nat /\ n \in 0..cnt /\ k \in 0..len /\ l \in 0..own
  BY <1>1, <1>2, <1>3, <1>4, AttrsHere
<1>6. left = <<cnt - n, len - k, own - l>> /\ class.methods = [j \in 1..n |-> class.methods[j]]
  BY <1>3, <1>4 DEF MethodsBehind
<1>7. n = cnt /\ k = len /\ l = own
  <2>1. left[1] = 0 /\ left[2] = 0 /\ left[3] = 0
    BY <1>1
  <2>2. QED
    BY <1>5, <1>6, <2>1, LeftSays
<1>8. /\ pos = MethodsAt(file) + MemberAt(file.methods, n) /\ pos \in Nat
      /\ \A j \in 1..n : MethodWhole(class.methods[j], file.methods[j])
  BY <1>1, <1>3, <1>4, <1>7, MethodBehind
<1>9. AttrsAt(file) = pos + 2
  BY <1>4, <1>7, <1>8 DEF AttrsAt
<1>10. PICK bs, acnt, e, v : /\ bs = file.attrs /\ acnt = Len(bs) /\ e = pos + 2
                             /\ v = msRead16(pos)
  OBVIOUS
<1>11. bs \in Seq(PlainAttributes) /\ acnt \in Nat /\ AttributesLie(W, AttrsAt(file), bs)
  <2>1. bs \in Seq(PlainAttributes)
    BY <1>2, <1>10, Here DEF WellFormed
  <2>2. AttributesLie(W, AttrsAt(file), bs)
    BY <1>2, <1>10, Here DEF FileLies
  <2>3. QED
    BY <1>10, <2>1, <2>2, SeqElements
<1>12. At(W, pos, U2(acnt)) /\ e <= Len(W) /\ e \in Nat
  <2>1. At(W, AttrsAt(file) - 2, U2(acnt))
    BY <1>2, <1>10, Here DEF FileLies
  <2>2. AttrsAt(file) - 2 = pos
    BY <1>8, <1>9
  <2>3. Len(U2(acnt)) = 2
    BY <1>11, Two
  <2>4. QED
    BY <1>8, <1>10, <2>1, <2>2, <2>3 DEF At
<1>13. Step(e, v, "attributes", <<v, 0, 0>>, class)
  BY <1>10 DEF MethodsDone
<1>14. CASE Inv'
  BY <1>14
<1>15. CASE ~Inv'
  <2>1. PICK h, c : h = <<v, 0, 0>> /\ c = class
    OBVIOUS
  <2>2. /\ e <= Len(data) /\ pos' = e /\ phase' = "attributes" /\ left' = h
        /\ class' = c /\ UNCHANGED <<file, data>> /\ FileRead'
    BY <1>12, <1>13, <1>15, <2>1, StepKeeps
  <2>3. v = acnt
    BY <1>2, <1>10, <1>11, <1>12, <2>2, ReadTwo
  <2>4. Places'
    <3>1. Shape(class') /\ Len(class'.pool) < class'.poolCnt
      <4>1. file.pool \in Seq(PoolItems)
        BY <1>2, Here DEF WellFormed
      <4>2. Len(class.pool) \in Nat
        BY <1>2, <4>1, NumberedIs, SeqElements
      <4>3. Len(class.pool) < class.poolCnt
        BY <1>2, <4>2
      <4>4. QED
        BY <1>2, <2>1, <2>2, <4>3 DEF Places
    <3>2. left' = <<acnt, 0, 0>>
      BY <2>1, <2>2, <2>3
    <3>3. QED
      BY <1>2, <1>11, <1>12, <2>2, <3>1, <3>2, PlacesKept
  <2>5. ParametersBehind'
    BY <1>1, <1>2, <2>1, <2>2 DEF ParametersBehind
  <2>6. FieldsRight'
    BY <1>1, <1>2, <2>1, <2>2 DEF FieldsRight
  <2>7. MethodsRight'
    <3>1. PICK gs, fs : gs = file.methods /\ fs = class.methods
      OBVIOUS
    <3>2. /\ gs \in Seq(Members(AnyAttributes)) /\ n = Len(gs)
          /\ \A j \in 1..n : MethodFits(file.pool, gs[j])
          /\ \A j \in 1..n : MethodWhole(fs[j], gs[j])
      BY <1>2, <1>4, <1>7, <1>8, <3>1
    <3>3. fs = [j \in 1..n |-> fs[j]]
      BY <1>6, <3>1
    <3>4. SameList(SameMethod, fs, gs)
      BY <3>2, <3>3, MethodsSame
    <3>5. QED
      BY <2>1, <2>2, <3>1, <3>4 DEF MethodsRight
  <2>8. AttributesBehind(0)'
    <3>1. PlainCopies(bs, 0) = <<>>
      BY CopiesNext
    <3>2. class'.attrs = PlainCopies(file'.attrs, 0)
      BY <1>2, <1>10, <2>1, <2>2, <3>1
    <3>3. left' = <<acnt - 0, 0, 0>>
      BY <1>11, <2>1, <2>2, <2>3
    <3>4. AttributeAt(bs, 0) = 0
      BY <1>11 DEF AttributesLie
    <3>5. pos' = AttrsAt(file) + 0
      BY <1>8, <1>9, <1>10, <2>2
    <3>6. left' = <<Len(file'.attrs) - 0, 0, 0>>
      BY <1>10, <2>2, <3>3
    <3>7. pos' = AttrsAt(file') + AttributeAt(file'.attrs, 0)
      BY <1>10, <2>2, <3>4, <3>5
    <3>8. QED
      BY <3>2, <3>6, <3>7 DEF AttributesBehind
  <2>9. AttributesAhead'
    <3>1. 0 \in 0..Len(file'.attrs)
      <4>1. 0 \in 0..acnt
        BY <1>11
      <4>2. Len(file'.attrs) = acnt
        BY <1>10, <2>2
      <4>3. QED
        BY <4>1, <4>2
    <3>2. QED
      BY <2>8, <3>1 DEF AttributesAhead
  <2>10. QED
    BY <2>2, <2>4, <2>5, <2>6, <2>7, <2>9, ToAttributes
<1>16. QED
  BY <1>14, <1>15

-----------------------------------------------------------------------------
(* The attributes of the class.                                            *)

LEMMA InAttrs ==
  ASSUME Inv, phase = "attributes"
  PROVE  /\ FileRead /\ Places /\ ParametersBehind /\ FieldsRight /\ MethodsRight
         /\ file.attrs \in Seq(PlainAttributes) /\ file.attrs \in Seq(AnyAttributes)
         /\ Len(file.attrs) \in Nat
         /\ AttrsAt(file) \in Nat /\ AttributesLie(W, AttrsAt(file), file.attrs)
         /\ Len(W) = AttrsAt(file) + AttributeAt(file.attrs, Len(file.attrs))
         /\ class.pool = Numbered(file.pool) /\ class.poolCnt = Len(class.pool) + 1
         /\ Len(class.pool) < class.poolCnt
         /\ \E k \in 0..Len(file.attrs) : AttributesBehind(k)
<1>1. FileRead /\ Places /\ ParametersBehind /\ FieldsRight /\ MethodsRight /\ AttributesAhead
  BY DEF Inv
<1>2. file.attrs \in Seq(PlainAttributes)
  BY <1>1, Here DEF WellFormed
<1>3. file.attrs \in Seq(AnyAttributes) /\ Len(file.attrs) \in Nat
  BY <1>2, PlainsAre, SeqElements
<1>4. /\ AttrsAt(file) \in Nat /\ AttributesLie(W, AttrsAt(file), file.attrs)
      /\ Len(W) = AttrsAt(file) + AttributeAt(file.attrs, Len(file.attrs))
  BY <1>1, Here DEF FileLies
<1>5. class.pool = Numbered(file.pool) /\ class.poolCnt = Len(class.pool) + 1
  BY <1>1 DEF ParametersBehind
<1>6. Len(class.pool) < class.poolCnt
  <2>1. file.pool \in Seq(PoolItems)
    BY <1>1, Here DEF WellFormed
  <2>2. Len(class.pool) \in Nat
    BY <1>5, <2>1, NumberedIs, SeqElements
  <2>3. QED
    BY <1>5, <2>2
<1>7. \E k \in 0..Len(file.attrs) : AttributesBehind(k)
  BY <1>1 DEF AttributesAhead
<1>8. QED
  BY <1>1, <1>2, <1>3, <1>4, <1>5, <1>6, <1>7

LEMMA AttributesKept ==
  ASSUME Inv, phase = "attributes", NEW e \in Nat, e <= Len(data), pos' = e,
         phase' = "attributes", UNCHANGED <<file, data>>, FileRead',
         NEW k \in 0..Len(file.attrs), NEW x, x = PlainCopies(file.attrs, k),
         class' = [class EXCEPT !.attrs = x], left' = <<Len(file.attrs) - k, 0, 0>>,
         e = AttrsAt(file) + AttributeAt(file.attrs, k)
  PROVE  Inv'
<1>1. /\ FileRead /\ Places /\ ParametersBehind /\ FieldsRight /\ MethodsRight
      /\ Len(file.attrs) \in Nat /\ Len(class.pool) < class.poolCnt
  BY InAttrs
<1>2. /\ Shape(class') /\ class'.attrs = x
      /\ class'.poolCnt = class.poolCnt /\ class'.pool = class.pool
      /\ class'.fields = class.fields /\ class'.methods = class.methods
      /\ class'.accessFlags = class.accessFlags /\ class'.thisClass = class.thisClass
      /\ class'.superClass = class.superClass /\ class'.interfaces = class.interfaces
  <2>1. Shape(class)
    BY <1>1 DEF Places
  <2>2. QED
    BY <2>1, WithAttrs, Zenon
<1>3. PICK a, cnt : cnt = Len(file.attrs) /\ a = cnt - k
  OBVIOUS
<1>4. a \in Nat
  <2>1. cnt \in Nat /\ k \in 0..cnt
    BY <1>1, <1>3
  <2>2. QED
    BY <1>3, <2>1
<1>5. Places'
  <2>1. left' = <<a, 0, 0>> /\ Len(class'.pool) < class'.poolCnt
    BY <1>1, <1>2, <1>3
  <2>2. QED
    BY <1>1, <1>2, <1>4, <2>1, PlacesKept
<1>6. ParametersBehind'
  <2>1. /\ class.poolCnt = Len(class.pool) + 1 /\ class.pool = Numbered(file.pool)
        /\ class.accessFlags = file.accessFlags
        /\ class.thisClass = file.thisClass /\ class.superClass = file.superClass
        /\ class.interfaces = file.interfaces
    BY <1>1 DEF ParametersBehind
  <2>2. QED
    BY <1>1, <1>2, <2>1 DEF ParametersBehind
<1>7. FieldsRight' /\ MethodsRight'
  BY <1>1, <1>2 DEF FieldsRight, MethodsRight
<1>8. AttributesBehind(k)'
  BY <1>2 DEF AttributesBehind
<1>9. AttributesAhead'
  BY <1>8 DEF AttributesAhead
<1>10. QED
  BY <1>5, <1>6, <1>7, <1>9, ToAttributes

LEMMA ClassAttributeKeeps ==
  ASSUME Inv, ClassAttribute
  PROVE  Inv'
<1>1. phase = "attributes" /\ left[1] > 0
  BY DEF ClassAttribute
<1>2. /\ FileRead /\ file.attrs \in Seq(PlainAttributes) /\ file.attrs \in Seq(AnyAttributes)
      /\ Len(file.attrs) \in Nat
      /\ AttrsAt(file) \in Nat /\ AttributesLie(W, AttrsAt(file), file.attrs)
  BY <1>1, InAttrs
<1>3. PICK k : k \in 0..Len(file.attrs) /\ AttributesBehind(k)
  BY <1>1, InAttrs
<1>4. PICK as, len, p : as = file.attrs /\ len = Len(as) /\ p = AttrsAt(file)
  OBVIOUS
<1>5. len \in Nat /\ k \in 0..len /\ k \in Nat
  <2>1. len \in Nat /\ k \in 0..len
    BY <1>2, <1>3, <1>4
  <2>2. QED
    BY <2>1
<1>6. /\ left = <<len - k, 0, 0>> /\ class.attrs = PlainCopies(as, k)
      /\ pos = p + AttributeAt(as, k)
  BY <1>3, <1>4 DEF AttributesBehind
<1>7. k < len /\ [left EXCEPT ![1] = @ - 1] = <<len - (k + 1), 0, 0>>
  <2>1. left[1] = len - k /\ [left EXCEPT ![1] = @ - 1] = <<(len - k) - 1, 0, 0>>
    BY <1>6, LeftIs
  <2>2. k < len /\ (len - k) - 1 = len - (k + 1)
    BY <1>1, <1>5, <2>1, Fewer
  <2>3. QED
    BY <2>1, <2>2
<1>8. PICK a, u, v, l : /\ a = as[k + 1] /\ u = AttributeAt(as, k)
                        /\ v = AttributeAt(as, k + 1) /\ l = AttributeLength(a)
  OBVIOUS
<1>9. k < Len(as)
  BY <1>4, <1>7
<1>10. /\ a \in AnyAttributes /\ k + 1 \in 1..Len(as) /\ k + 1 \in 0..Len(as)
       /\ u \in Nat /\ v \in Nat /\ AttributeLies(W, p + u, a) /\ v = u + l
       /\ p + v <= Len(W)
  BY <1>2, <1>4, <1>5, <1>8, <1>9, AttributeHere
<1>11. a.code = NoCode
  <2>1. a \in PlainAttributes
    BY <1>2, <1>4, <1>8, <1>10, SeqElements
  <2>2. QED
    BY <2>1 DEF PlainAttributes
<1>12. pos = p + u /\ p \in Nat
  BY <1>2, <1>4, <1>6, <1>8
<1>13. PICK size, end, e : /\ size = AttributeSize(pos) /\ end = pos + size /\ e = pos + l
  OBVIOUS
<1>14. /\ size \in Nat /\ l \in Nat /\ pos \in Nat
       /\ end <= Len(data) \/ e <= Len(data) => size = l /\ Attribute(pos) = PlainCopy(a)
  BY <1>2, <1>8, <1>10, <1>11, <1>12, <1>13, ReadAttribute
<1>15. e = p + v /\ e \in Nat /\ end \in Nat
  <2>1. e = (p + u) + l /\ v = u + l /\ u \in Nat /\ p \in Nat
    BY <1>10, <1>12, <1>13
  <2>2. QED
    BY <1>13, <1>14, <2>1
<1>16. PICK x, c, nleft, memory :
         /\ x = Append(class.attrs, Attribute(pos))
         /\ c = [class EXCEPT !.attrs = x] /\ nleft = [left EXCEPT ![1] = @ - 1]
         /\ memory = msRead32(pos + 2)
  OBVIOUS
<1>17. Step(end, memory, "attributes", nleft, c)
  BY <1>13, <1>16 DEF ClassAttribute
<1>18. CASE Inv'
  BY <1>18
<1>19. CASE ~Inv'
  <2>1. e <= Len(data) \/ end <= Len(data) => end = e
    BY <1>13, <1>14
  <2>2. e <= Len(W)
    BY <1>10, <1>15
  <2>3. /\ e <= Len(data) /\ pos' = e /\ phase' = "attributes" /\ left' = nleft
        /\ class' = c /\ UNCHANGED <<file, data>> /\ FileRead'
    BY <1>15, <1>17, <1>19, <2>1, <2>2, StepKeeps
  <2>4. PICK i : i = k + 1
    OBVIOUS
  <2>5. x = PlainCopies(file.attrs, i)
    <3>1. x = Append(PlainCopies(as, k), PlainCopy(as[k + 1]))
      BY <1>6, <1>8, <1>14, <1>16, <2>3
    <3>2. QED
      BY <1>4, <1>5, <2>4, <3>1, CopiesNext
  <2>6. left' = <<Len(file.attrs) - i, 0, 0>>
    BY <1>4, <1>7, <1>16, <2>3, <2>4
  <2>7. e = AttrsAt(file) + AttributeAt(file.attrs, i)
    BY <1>4, <1>8, <1>15, <2>4
  <2>8. i \in 0..Len(file.attrs)
    BY <1>4, <1>10, <2>4
  <2>9. class' = [class EXCEPT !.attrs = x]
    BY <1>16, <2>3
  <2>10. QED
    BY <1>1, <1>15, <2>3, <2>5, <2>6, <2>7, <2>8, <2>9, AttributesKept
<1>20. QED
  BY <1>18, <1>19

LEMMA LoadedKeeps ==
  ASSUME Inv, Loaded
  PROVE  Inv'
<1>1. phase = "attributes" /\ left[1] = 0 /\ Ends("loaded")
  BY DEF Loaded
<1>2. /\ FileRead /\ Places /\ ParametersBehind /\ FieldsRight /\ MethodsRight
      /\ file.attrs \in Seq(PlainAttributes) /\ Len(file.attrs) \in Nat
      /\ Len(W) = AttrsAt(file) + AttributeAt(file.attrs, Len(file.attrs))
  BY <1>1, InAttrs
<1>3. PICK k : k \in 0..Len(file.attrs) /\ AttributesBehind(k)
  BY <1>1, InAttrs
<1>4. PICK len : len = Len(file.attrs)
  OBVIOUS
<1>5. left = <<len - k, 0, 0>> /\ class.attrs = PlainCopies(file.attrs, k)
      /\ pos = AttrsAt(file) + AttributeAt(file.attrs, k)
  BY <1>3, <1>4 DEF AttributesBehind
<1>6. k = len
  <2>1. len - k = 0
    BY <1>1, <1>5, LeftIs
  <2>2. len \in Nat /\ k \in 0..len
    BY <1>2, <1>3, <1>4
  <2>3. QED
    BY <2>1, <2>2
<1>7. pos = Len(W)
  BY <1>2, <1>4, <1>5, <1>6
<1>8. Len(data) = Len(W) /\ pos = Len(data) /\ data = W
  <2>1. Len(data) \in Nat /\ Len(W) \in Nat /\ Len(data) <= Len(W) /\ W \in Seq(Nat)
    BY <1>2, Here
  <2>2. pos <= Len(data)
    BY <1>2 DEF Places
  <2>3. Len(data) = Len(W)
    BY <1>7, <2>1, <2>2
  <2>4. data \in Seq(Nat) /\ \A j \in 1..Len(data) : data[j] = W[j]
    BY <1>2 DEF FileRead, W
  <2>5. data = W
    BY <2>1, <2>3, <2>4, SameSeq
  <2>6. QED
    BY <1>7, <2>3, <2>5
<1>9. UNCHANGED <<file, data, pos, left, class>> /\ phase' = "loaded"
  BY <1>1 DEF Ends
<1>10. SameList(SamePlain, class.attrs, file.attrs)
  BY <1>2, <1>4, <1>5, <1>6, PlainsSame
<1>11. RoundTrip'
  <2>1. /\ class.poolCnt = Len(class.pool) + 1 /\ class.pool = Numbered(file.pool)
        /\ class.accessFlags = file.accessFlags
        /\ class.thisClass = file.thisClass /\ class.superClass = file.superClass
        /\ class.interfaces = file.interfaces
    BY <1>1, <1>2 DEF ParametersBehind
  <2>2. SameList(SameField, class.fields, file.fields)
    BY <1>1, <1>2 DEF FieldsRight
  <2>3. SameList(SameMethod, class.methods, file.methods)
    BY <1>1, <1>2 DEF MethodsRight
  <2>4. pos = Len(data) /\ data = FileBytes(file)
    BY <1>8 DEF W
  <2>5. file' = file /\ data' = data /\ pos' = pos /\ class' = class
    BY <1>9
  <2>6. QED
    BY <1>10, <2>1, <2>2, <2>3, <2>4, <2>5 DEF RoundTrip
<1>12. FileRead' /\ Places'
  BY <1>2, <1>9 DEF FileRead, Places, Shape
<1>13. phase' = "loaded" /\ phase' \in Over
  BY <1>9 DEF Over
<1>14. /\ HeaderAhead' /\ PoolAhead' /\ ParametersBehind' /\ FieldsAhead' /\ FieldsRight'
       /\ MethodsAhead' /\ MethodsRight' /\ AttributesAhead' /\ RefusedWithReason'
  BY <1>13 DEF HeaderAhead, PoolAhead, ParametersBehind, FieldsAhead, FieldsRight,
               MethodsAhead, MethodsRight, AttributesAhead, RefusedWithReason
<1>15. QED
  BY <1>11, <1>12, <1>13, <1>14 DEF Inv

-----------------------------------------------------------------------------
(* From the first state to every state.                                    *)

LEMMA Starts ==
  ASSUME Init
  PROVE  Inv
<1>1. /\ file \in Files /\ pos = 0 /\ phase = "header" /\ left = <<0, 0, 0>>
      /\ class = [poolCnt |-> 0, pool |-> <<>>, accessFlags |-> 0, thisClass |-> 0,
                  superClass |-> 0, interfaces |-> <<>>, fields |-> <<>>,
                  methods |-> <<>>, attrs |-> <<>>]
  BY DEF Init
<1>2. PICK n : n \in Cuts /\ n < Len(W) /\ data = SubSeq(W, 1, Len(W) - n)
  BY DEF Init, W
<1>3. PICK w, len : w = W /\ len = Len(w) - n
  OBVIOUS
<1>4. w \in Seq(Nat) /\ Len(w) \in Nat
  BY <1>1, <1>3, FileAssumption, FileIs, SeqElements DEF W
<1>5. n \in Nat /\ len \in Nat /\ len <= Len(w) /\ 0 + 1 = 1 /\ 0 + len = len
  <2>1. n \in Nat
    BY <1>2, LoaderAssumption
  <2>2. PICK l : l = Len(w)
    OBVIOUS
  <2>3. l \in Nat /\ n < l /\ len = l - n
    BY <1>2, <1>3, <1>4, <2>2
  <2>4. len \in Nat /\ len <= l /\ 0 + len = len
    BY <2>1, <2>3
  <2>5. QED
    BY <2>1, <2>2, <2>4
<1>6. PICK t : t = SubSeq(w, 0 + 1, 0 + len)
  OBVIOUS
<1>7. data = t
  BY <1>2, <1>3, <1>5, <1>6
<1>8. t \in Seq(Nat) /\ Len(t) = len /\ \A j \in 1..len : t[j] = w[0 + j]
  <2>1. w \in Seq(Nat) /\ 0 \in Nat /\ len \in Nat /\ 0 + len <= Len(w)
    BY <1>4, <1>5
  <2>2. /\ SubSeq(w, 0 + 1, 0 + len) \in Seq(Nat) /\ Len(SubSeq(w, 0 + 1, 0 + len)) = len
        /\ \A j \in 1..len : SubSeq(w, 0 + 1, 0 + len)[j] = w[0 + j]
    BY <2>1, CutIs
  <2>3. QED
    BY <1>6, <2>2
<1>9. FileRead
  <2>1. \A j \in 1..len : 0 + j = j
    BY <1>5
  <2>2. \A j \in 1..Len(t) : t[j] = w[j]
    BY <1>8, <2>1
  <2>3. QED
    BY <1>1, <1>3, <1>5, <1>7, <1>8, <2>2 DEF FileRead, W
<1>10. Places
  <2>1. Shape(class)
    BY <1>1 DEF Shape, Parts
  <2>2. pos <= Len(data) /\ pos \in Nat
    BY <1>1, <1>5, <1>7, <1>8
  <2>3. left \in [1..3 -> Nat]
    BY <1>1
  <2>4. class.poolCnt = 0
    BY <1>1
  <2>5. QED
    BY <2>1, <2>2, <2>3, <2>4 DEF Places
<1>11. HeaderAhead
  BY <1>1 DEF HeaderAhead
<1>12. /\ PoolAhead /\ ParametersBehind /\ FieldsAhead /\ FieldsRight
       /\ MethodsAhead /\ MethodsRight /\ AttributesAhead /\ RoundTrip /\ RefusedWithReason
  BY <1>1 DEF PoolAhead, ParametersBehind, FieldsAhead, FieldsRight,
              MethodsAhead, MethodsRight, AttributesAhead, RoundTrip, RefusedWithReason
<1>13. QED
  BY <1>1, <1>9, <1>10, <1>11, <1>12 DEF Inv

LEMMA StaysOver ==
  ASSUME Inv, UNCHANGED vars
  PROVE  Inv'
<1>1. /\ file' = file /\ data' = data /\ pos' = pos /\ phase' = phase
      /\ left' = left /\ class' = class
  BY DEF vars
<1>2. FileRead' /\ Places' /\ HeaderAhead' /\ ParametersBehind' /\ FieldsRight' /\ MethodsRight'
  BY <1>1 DEF Inv, FileRead, Places, Shape, HeaderAhead, ParametersBehind, FieldsRight,
              MethodsRight
<1>3. PoolAhead' /\ FieldsAhead'
  BY <1>1 DEF Inv, PoolAhead, PoolBehind, FieldsAhead, FieldsBehind
<1>4. MethodsAhead' /\ AttributesAhead'
  BY <1>1 DEF Inv, MethodsAhead, MethodsBehind, AttributesAhead, AttributesBehind
<1>5. RoundTrip' /\ RefusedWithReason'
  BY <1>1 DEF Inv, RoundTrip, RefusedWithReason
<1>6. QED
  BY <1>1, <1>2, <1>3, <1>4, <1>5 DEF Inv

LEMMA StepsKeep ==
  ASSUME Inv, [Next]_vars
  PROVE  Inv'
<1>1. CASE Header
  BY <1>1, HeaderKeeps
<1>2. CASE PoolItem
  BY <1>2, PoolItemKeeps
<1>3. CASE UnknownTag
  BY <1>3, UnknownTagKeeps
<1>4. CASE SmallParameters
  BY <1>4, SmallParametersKeeps
<1>5. CASE FieldHeader
  BY <1>5, FieldHeaderKeeps
<1>6. CASE FieldAttribute
  BY <1>6, FieldAttributeKeeps
<1>7. CASE FieldsDone
  BY <1>7, FieldsDoneKeeps
<1>8. CASE MethodHeader
  BY <1>8, MethodHeaderKeeps
<1>9. CASE MethodAttribute
  BY <1>9, MethodAttributeKeeps
<1>10. CASE CodeAttribute
  BY <1>10, CodeAttributeKeeps
<1>11. CASE CodeOwnAttribute
  BY <1>11, CodeOwnAttributeKeeps
<1>12. CASE MethodsDone
  BY <1>12, MethodsDoneKeeps
<1>13. CASE ClassAttribute
  BY <1>13, ClassAttributeKeeps
<1>14. CASE Loaded
  BY <1>14, LoadedKeeps
<1>15. CASE UNCHANGED vars
  BY <1>15, StaysOver
<1>16. QED
  BY <1>1, <1>2, <1>3, <1>4, <1>5, <1>6, <1>7, <1>8, <1>9, <1>10, <1>11, <1>12, <1>13, <1>14,
     <1>15 DEF Next

(* What jvm_LoadClass (rjvm.c:23) has written down is at every step what   *)
(* stands in the file up to where it reads: it never takes a place in the  *)
(* file for another, until the class is there or the loader has given up.  *)
THEOREM InPlace == Spec => []Inv
<1>1. Init => Inv
  BY Starts
<1>2. Inv /\ [Next]_vars => Inv'
  BY StepsKeep
<1>3. QED
  BY <1>1, <1>2, PTL DEF Spec

(* The places and the counters of jvm_LoadClass (rjvm.c:23) stay what they *)
(* are, and the pool never outgrows its count, for every file.             *)
THEOREM TypesKept == Spec => []TypeOK
<1>1. Inv => TypeOK
  <2>1. SUFFICES ASSUME Inv PROVE TypeOK
    OBVIOUS
  <2>2. Len(data) \in Nat
    BY <2>1, Here DEF Inv
  <2>3. pos \in 0..Len(data)
    BY <2>1, <2>2 DEF Inv, Places
  <2>4. QED
    BY <2>1, <2>3 DEF Inv, Places, TypeOK
<1>2. QED
  BY <1>1, InPlace, PTL

(* Whatever a compiler wrote, the class jvm_LoadClass hands back           *)
(* (rjvm.c:275) is the class in the file, whole and read to its last byte. *)
THEOREM LoadsWhatIsWritten == Spec => []RoundTrip
<1>1. Inv => RoundTrip
  BY DEF Inv
<1>2. QED
  BY <1>1, InPlace, PTL

(* A refusal (rjvm.c:121) has its reason in the file, and only a file that *)
(* was cut is read behind its end (ms.c:12).                               *)
THEOREM RefusesForAReason == Spec => []RefusedWithReason
<1>1. Inv => RefusedWithReason
  BY DEF Inv
<1>2. QED
  BY <1>1, InPlace, PTL
=============================================================================
