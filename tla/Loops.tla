-------------------------------- MODULE Loops --------------------------------
(***************************************************************************)
(* Induction over the turns of a loop, for the proofs about definitions    *)
(* that are loops over a sequence: Induct says that a set of numbers       *)
(* closed under successor holds them all, and Trace that a loop has a      *)
(* sequence of states, which the recursive function then is.               *)
(***************************************************************************)
EXTENDS SequencesExt, SequenceTheorems, WellFoundedInduction, TLAPS

LEMMA Least ==
  ASSUME NEW T \in SUBSET Nat, T # {}
  PROVE  \E x \in T : \A y \in T : x <= y
  <1> DEFINE R == OpToRel(<,Nat)
  <1>1. IsWellFoundedOn(R, Nat)
    BY NatLessThanWellFounded
  <1>2. \A m, n \in Nat : m < n => <<m, n>> \in R
    BY DEF OpToRel
  <1> HIDE DEF R
  <1>3. PICK x \in T : \A y \in T : ~ (<<y, x>> \in R)
    BY <1>1, WFMin
  <1>4. ASSUME NEW y \in T PROVE x <= y
    <2>1. x \in Nat /\ y \in Nat /\ ~(y < x)
      BY <1>2, <1>3
    <2> QED
      BY <2>1
  <1> QED
    BY <1>3, <1>4

(* Induction over 0..n, for a set of numbers instead of a predicate.        *)
LEMMA Induct ==
  ASSUME NEW n \in Nat, NEW T, 0 \in T,
         \A m \in 0..n : m < n /\ m \in T => m + 1 \in T
  PROVE  0..n \subseteq T
  <1> DEFINE Bad == {m \in 0..n : m \notin T}
  <1> SUFFICES ASSUME Bad # {} PROVE FALSE
    OBVIOUS
  <1>0. Bad \in SUBSET Nat
    OBVIOUS
  <1>1. PICK x \in Bad : \A y \in Bad : x <= y
    <2> HIDE DEF Bad
    <2> QED BY <1>0, Least
  <1>2. x \in 0..n /\ x # 0 /\ x \notin T
    OBVIOUS
  <1>3. x - 1 \in 0..n /\ x - 1 < n /\ x - 1 \notin Bad
    BY <1>1, <1>2
  <1> QED
    BY <1>2, <1>3

(* The states of a loop over 1..n, one for each number of turns. *)
IsTrace(f, n, S, s0, step) ==
  f \in [0..n -> S] /\ f[0] = s0 /\ \A i \in 1..n : f[i] = step[i][f[i - 1]]

LEMMA Trace ==
  ASSUME NEW S, NEW n \in Nat, NEW s0 \in S, NEW step \in [1..n -> [S -> S]]
  PROVE  \E f : IsTrace(f, n, S, s0, step)
  <1> DEFINE T == {k \in 0..n : \E f : IsTrace(f, k, S, s0, step)}
  <1>1. 0 \in T
    <2>1. IsTrace([i \in 0..0 |-> s0], 0, S, s0, step)
      BY DEF IsTrace
    <2> QED
      BY <2>1
  <1>2. ASSUME NEW m \in 0..n, m < n, m \in T
        PROVE  m + 1 \in T
    <2>1. PICK f : IsTrace(f, m, S, s0, step)
      BY <1>2
    <2> DEFINE g == [i \in 0..(m + 1) |-> IF i = m + 1 THEN step[m + 1][f[m]] ELSE f[i]]
    <2>2. g \in [0..(m+1) -> S]
      BY <1>2, <2>1 DEF IsTrace
    <2>3. g[0] = s0
      BY <2>1 DEF IsTrace
    <2>4. ASSUME NEW i \in 1..(m+1) PROVE g[i] = step[i][g[i - 1]]
      BY <2>1 DEF IsTrace
    <2>5. IsTrace(g, m + 1, S, s0, step)
      BY <2>2, <2>3, <2>4 DEF IsTrace
    <2> HIDE DEF g
    <2> QED
      BY <1>2, <2>5
  <1> HIDE DEF T
  <1>3. 0..n \subseteq T
    BY <1>1, <1>2, Induct
  <1> QED
    BY <1>3 DEF T

-----------------------------------------------------------------------------
(* Sequences that are put together by a loop *)

Increasing(s) == \A p, q \in DOMAIN s : p < q => s[p] < s[q]

(* Of two increasing sequences with the same elements, the first places     *)
(* agree, and so on.                                                        *)
LEMMA IncreasingUnique ==
  ASSUME NEW s \in Seq(Nat), NEW t \in Seq(Nat), Increasing(s), Increasing(t),
         ToSet(s) = ToSet(t)
  PROVE  s = t
  <1> DEFINE Bad == {p \in DOMAIN s \cap DOMAIN t : s[p] # t[p]}
  <1>0. /\ DOMAIN s = 1..Len(s) /\ DOMAIN t = 1..Len(t) /\ Len(s) \in Nat /\ Len(t) \in Nat
        /\ \A p \in DOMAIN s : s[p] \in Nat /\ \E q \in DOMAIN t : t[q] = s[p]
        /\ \A p \in DOMAIN t : t[p] \in Nat /\ \E q \in DOMAIN s : s[q] = t[p]
    <2>1. /\ DOMAIN s = 1..Len(s) /\ DOMAIN t = 1..Len(t) /\ Len(s) \in Nat /\ Len(t) \in Nat
          /\ \A p \in DOMAIN s : s[p] \in Nat
          /\ \A p \in DOMAIN t : t[p] \in Nat
      OBVIOUS
    <2>2. \A p \in DOMAIN s : s[p] \in ToSet(t)
      BY DEF ToSet
    <2>3. \A p \in DOMAIN t : t[p] \in ToSet(s)
      BY DEF ToSet
    <2> QED
      BY <2>1, <2>2, <2>3 DEF ToSet
  <1>1. Bad = {}
    <2> SUFFICES ASSUME Bad # {} PROVE FALSE
      OBVIOUS
    <2>1. Bad \in SUBSET Nat
      BY <1>0
    <2>2. PICK p \in Bad : \A q \in Bad : p <= q
      <3> HIDE DEF Bad
      <3> QED BY <2>1, Least
    <2>3. /\ p \in DOMAIN s /\ p \in DOMAIN t /\ p \in Nat /\ s[p] # t[p]
          /\ \A q \in DOMAIN s \cap DOMAIN t : q < p => s[q] = t[q]
      <3>1. p \in DOMAIN s /\ p \in DOMAIN t /\ p \in Nat /\ s[p] # t[p]
        BY <1>0
      <3>2. ASSUME NEW q \in DOMAIN s \cap DOMAIN t, q < p, s[q] # t[q] PROVE FALSE
        <4>1. q \in Bad /\ q \in Nat
          BY <1>0, <3>2
        <4>2. p <= q
          BY <2>2, <4>1
        <4> QED
          BY <3>1, <3>2, <4>1, <4>2
      <3> QED
        BY <3>1, <3>2
    <2> HIDE DEF Bad
    <2>4. PICK q \in DOMAIN t : t[q] = s[p]
      BY <1>0, <2>3
    <2>5. PICK r \in DOMAIN s : s[r] = t[p]
      BY <1>0, <2>3
    <2>6. q # p /\ r # p
      BY <2>3, <2>4, <2>5
    <2>7. p < q
      <3>1. SUFFICES ASSUME q < p PROVE FALSE
        BY <1>0, <2>3, <2>6
      <3>2. q \in DOMAIN s /\ s[q] = t[q]
        <4>1. q \in 1..Len(s)
          BY <1>0, <2>3, <3>1
        <4> QED BY <1>0, <2>3, <3>1, <4>1
      <3>3. s[q] < s[p]
        BY <2>3, <3>1, <3>2 DEF Increasing
      <3> QED
        BY <1>0, <2>3, <2>4, <3>2, <3>3
    <2>8. p < r
      <3>1. SUFFICES ASSUME r < p PROVE FALSE
        BY <1>0, <2>3, <2>6
      <3>2. r \in DOMAIN t /\ s[r] = t[r]
        <4>1. r \in 1..Len(t)
          BY <1>0, <2>3, <3>1
        <4> QED BY <1>0, <2>3, <3>1, <4>1
      <3>3. t[r] < t[p]
        BY <2>3, <3>1, <3>2 DEF Increasing
      <3> QED
        BY <1>0, <2>3, <2>5, <3>2, <3>3
    <2>9. t[p] < t[q] /\ s[p] < s[r]
      BY <2>3, <2>7, <2>8 DEF Increasing
    <2> QED
      BY <1>0, <2>3, <2>4, <2>5, <2>9
  <1>2. Len(s) = Len(t)
    <2>1. ASSUME Len(s) < Len(t) PROVE FALSE
      <3>1. Len(t) \in DOMAIN t /\ Len(t) \notin DOMAIN s
        BY <1>0, <2>1
      <3>2. PICK r \in DOMAIN s : s[r] = t[Len(t)]
        BY <1>0, <3>1
      <3>3. r \in DOMAIN t /\ r < Len(t) /\ t[r] = s[r]
        BY <1>0, <1>1, <2>1
      <3>4. t[r] < t[Len(t)]
        BY <3>1, <3>3 DEF Increasing
      <3> QED
        BY <1>0, <3>1, <3>2, <3>3, <3>4
    <2>2. ASSUME Len(t) < Len(s) PROVE FALSE
      <3>1. Len(s) \in DOMAIN s /\ Len(s) \notin DOMAIN t
        BY <1>0, <2>2
      <3>2. PICK r \in DOMAIN t : t[r] = s[Len(s)]
        BY <1>0, <3>1
      <3>3. r \in DOMAIN s /\ r < Len(s) /\ t[r] = s[r]
        BY <1>0, <1>1, <2>2
      <3>4. s[r] < s[Len(s)]
        BY <3>1, <3>3 DEF Increasing
      <3> QED
        BY <1>0, <3>1, <3>2, <3>3, <3>4
    <2>3. Len(s) \in Nat /\ Len(t) \in Nat
      BY <1>0
    <2> HIDE DEF Bad
    <2> QED
      BY <2>1, <2>2, <2>3
  <1>3. DOMAIN s = DOMAIN t /\ \A p \in DOMAIN s : s[p] = t[p]
    BY <1>0, <1>1, <1>2
  <1>4. s = [p \in DOMAIN s |-> s[p]] /\ t = [p \in DOMAIN t |-> t[p]]
    OBVIOUS
  <1> HIDE DEF Bad
  <1> QED
    BY <1>3, <1>4

(* The elements of FlattenSeq(seqs), one after the other: which sequence    *)
(* (g) and which place in it (h) each is from.                              *)
IsFlat(flat, g, h, seqs, n) ==
  /\ g \in [DOMAIN flat -> 1..n] /\ h \in [DOMAIN flat -> Nat]
  /\ \A x \in DOMAIN flat : h[x] \in DOMAIN seqs[g[x]] /\ flat[x] = seqs[g[x]][h[x]]
  /\ \A x, y \in DOMAIN flat : x < y => g[x] < g[y] \/ (g[x] = g[y] /\ h[x] < h[y])
  /\ \A i \in 1..n : \A j \in DOMAIN seqs[i] : \E x \in DOMAIN flat : g[x] = i /\ h[x] = j

LEMMA FlattenTrace ==
  ASSUME NEW A, NEW seqs \in Seq(Seq(A))
  PROVE  \E f \in [0..Len(seqs) -> Seq(A)] :
            /\ f[0] = <<>> /\ \A i \in 1..Len(seqs) : f[i] = f[i - 1] \o seqs[i]
            /\ FlattenSeq(seqs) = f[Len(seqs)]
  <1> DEFINE n == Len(seqs)
             step == [i \in 1..n |-> [s \in Seq(A) |-> s \o seqs[i]]]
             flat == CHOOSE f : f = [i \in 1..Len(seqs) |->
                                       IF i = 1 THEN seqs[i] ELSE f[i - 1] \o seqs[i]]
  <1>1. /\ n \in Nat /\ <<>> \in Seq(A) /\ step \in [1..n -> [Seq(A) -> Seq(A)]]
        /\ \A i \in 1..n : seqs[i] \in Seq(A)
        /\ \A i \in 1..n, s \in Seq(A) : step[i][s] = s \o seqs[i]
    OBVIOUS
  <1>2. FlattenSeq(seqs) = IF Len(seqs) = 0 THEN seqs ELSE flat[n]
    BY DEF FlattenSeq
  <1> HIDE DEF step
  <1>3. PICK f : IsTrace(f, n, Seq(A), <<>>, step)
    <2> DEFINE S == Seq(A)
    <2>1. n \in Nat /\ <<>> \in S /\ step \in [1..n -> [S -> S]]
      BY <1>1
    <2> HIDE DEF S, n
    <2>2. \E f : IsTrace(f, n, S, <<>>, step)
      BY <2>1, Trace
    <2> QED
      BY <2>2 DEF S, n
  <1>4. f \in [0..n -> Seq(A)] /\ f[0] = <<>>
    BY <1>3 DEF IsTrace
  <1>5. ASSUME NEW i \in 1..n
        PROVE  f[i] = f[i - 1] \o seqs[i]
    <2>1. i - 1 \in 0..n /\ f[i] = step[i][f[i - 1]]
      BY <1>1, <1>3 DEF IsTrace
    <2>2. f[i - 1] \in Seq(A)
      BY <1>4, <2>1
    <2> QED
      BY <1>1, <2>1, <2>2
  <1>6. CASE n = 0
    <2>1. seqs = <<>>
      BY <1>6
    <2> QED
      BY <1>2, <1>4, <1>5, <1>6, <2>1
  <1>7. CASE n # 0
    <2> DEFINE r == [i \in 1..n |-> f[i]]
    <2>1. ASSUME NEW i \in 1..n
          PROVE  r[i] = IF i = 1 THEN seqs[i] ELSE r[i - 1] \o seqs[i]
      <3>1. CASE i = 1
        <4>1. seqs[i] \in Seq(A)
          BY <1>1
        <4>2. f[i] = f[0] \o seqs[i]
          <5>1. i - 1 = 0
            BY <3>1
          <5> QED
            BY <1>5, <5>1
        <4>3. f[i] = seqs[i]
          BY <1>4, <4>1, <4>2
        <4> QED
          BY <3>1, <4>3
      <3>2. CASE i # 1
        <4>1. i - 1 \in 1..n
          BY <1>1, <3>2
        <4> QED
          BY <1>5, <3>2, <4>1
      <3> QED
        BY <3>1, <3>2
    <2>2. r = [i \in 1..n |-> IF i = 1 THEN seqs[i] ELSE r[i - 1] \o seqs[i]]
      BY <2>1
    <2> HIDE DEF r
    <2>3. flat = [i \in 1..n |-> IF i = 1 THEN seqs[i] ELSE flat[i - 1] \o seqs[i]]
      BY <2>2
    <2> HIDE DEF flat
    <2> DEFINE T == {k \in 0..n : k = 0 \/ flat[k] = f[k]}
    <2>4. 0 \in T
      BY <1>1
    <2>5. ASSUME NEW m \in 0..n, m < n, m \in T
          PROVE  m + 1 \in T
      <3>1. m + 1 \in 1..n /\ (m + 1) - 1 = m
        BY <1>1, <2>5
      <3>2. flat[m + 1] = IF m + 1 = 1 THEN seqs[m + 1] ELSE flat[m] \o seqs[m + 1]
        BY <2>3, <3>1
      <3>3. f[m + 1] = f[m] \o seqs[m + 1] /\ seqs[m + 1] \in Seq(A)
        BY <1>1, <1>5, <3>1
      <3>4. flat[m + 1] = f[m + 1]
        <4>1. CASE m = 0
          <5>1. flat[m + 1] = seqs[m + 1] /\ f[m + 1] = <<>> \o seqs[m + 1]
            BY <1>4, <3>2, <3>3, <4>1
          <5> QED
            BY <3>3, <5>1
        <4>2. CASE m # 0
          <5>1. m + 1 # 1 /\ flat[m] = f[m]
            BY <2>5, <4>2
          <5> QED
            BY <3>2, <3>3, <5>1
        <4> QED
          BY <4>1, <4>2
      <3>5. m + 1 \in 0..n
        BY <1>1, <2>5
      <3> QED
        BY <3>4, <3>5
    <2> HIDE DEF T
    <2>6. 0..n \subseteq T
      <3> HIDE DEF n
      <3> QED BY <1>1, <2>4, <2>5, Induct
    <2>7. flat[n] = f[n]
      <3>1. n \in T
        <4> HIDE DEF n
        <4> QED BY <1>1, <2>6
      <3> QED
        BY <1>7, <3>1 DEF T
    <2> QED
      BY <1>2, <1>4, <1>5, <1>7, <2>7
  <1> QED
    BY <1>6, <1>7

LEMMA FlattenOne ==
  ASSUME NEW A, NEW seqs \in Seq(Seq(A)), NEW n \in Nat, n < Len(seqs),
         NEW flat \in Seq(A), NEW g, NEW h, IsFlat(flat, g, h, seqs, n)
  PROVE  \E gg, hh : IsFlat(flat \o seqs[n + 1], gg, hh, seqs, n + 1)
  <1> DEFINE s == seqs[n + 1]
             m == Len(flat)
             new == flat \o s
             gg == [x \in DOMAIN new |-> IF x <= m THEN g[x] ELSE n + 1]
             hh == [x \in DOMAIN new |-> IF x <= m THEN h[x] ELSE x - m]
  <1>0. n + 1 \in 1..(n + 1) /\ n + 1 \in 1..Len(seqs) /\ s \in Seq(A) /\ 1..n \subseteq 1..(n + 1)
    OBVIOUS
  <1> HIDE DEF s
  <1>1. /\ m \in Nat /\ Len(s) \in Nat /\ DOMAIN flat = 1..m /\ DOMAIN s = 1..Len(s)
        /\ DOMAIN new = 1..(m + Len(s))
        /\ \A x \in 1..m : x \in DOMAIN new /\ new[x] = flat[x]
        /\ \A x \in DOMAIN new : x > m => x - m \in DOMAIN s /\ new[x] = s[x - m]
        /\ \A j \in DOMAIN s : j + m \in DOMAIN new /\ j + m > m /\ (j + m) - m = j
    BY <1>0
  <1>2. \A x \in DOMAIN new : x <= m => x \in DOMAIN flat /\ g[x] \in 1..n /\ h[x] \in Nat
    BY <1>1 DEF IsFlat
  <1> HIDE DEF new, m
  <1>3. gg \in [DOMAIN new -> 1..(n + 1)]
    BY <1>0, <1>2
  <1>4. hh \in [DOMAIN new -> Nat]
    BY <1>1, <1>2
  <1>5. ASSUME NEW x \in DOMAIN new
        PROVE  hh[x] \in DOMAIN seqs[gg[x]] /\ new[x] = seqs[gg[x]][hh[x]]
    <2>1. CASE x <= m
      BY <1>1, <1>2, <2>1 DEF IsFlat
    <2>2. CASE x > m
      BY <1>1, <2>2 DEF s
    <2> QED
      BY <1>1, <2>1, <2>2
  <1>6. ASSUME NEW x \in DOMAIN new, NEW y \in DOMAIN new, x < y
        PROVE  gg[x] < gg[y] \/ (gg[x] = gg[y] /\ hh[x] < hh[y])
    <2>1. CASE y <= m
      <3>1. x <= m
        BY <1>1, <1>6, <2>1
      <3> QED
        BY <1>2, <1>6, <2>1, <3>1 DEF IsFlat
    <2>2. CASE y > m /\ x <= m
      BY <1>1, <1>2, <2>2
    <2>3. CASE y > m /\ x > m
      BY <1>1, <1>6, <2>3
    <2> QED
      BY <1>1, <2>1, <2>2, <2>3
  <1>7. ASSUME NEW i \in 1..(n + 1), NEW j \in DOMAIN seqs[i]
        PROVE  \E x \in DOMAIN new : gg[x] = i /\ hh[x] = j
    <2>1. CASE i \in 1..n
      <3>1. PICK x \in DOMAIN flat : g[x] = i /\ h[x] = j
        BY <2>1 DEF IsFlat
      <3>2. x \in DOMAIN new /\ x <= m
        BY <1>1
      <3> QED
        BY <3>1, <3>2
    <2>2. CASE i = n + 1
      <3>1. j \in DOMAIN s
        BY <2>2 DEF s
      <3>2. j + m \in DOMAIN new /\ ~(j + m <= m) /\ (j + m) - m = j
        BY <1>1, <3>1
      <3> QED
        BY <2>2, <3>2
    <2> QED
      BY <2>1, <2>2
  <1> HIDE DEF gg, hh
  <1>8. IsFlat(new, gg, hh, seqs, n + 1)
    BY <1>3, <1>4, <1>5, <1>6, <1>7 DEF IsFlat
  <1> QED
    BY <1>8 DEF new, s

LEMMA FlattenIs ==
  ASSUME NEW A, NEW seqs \in Seq(Seq(A))
  PROVE  /\ FlattenSeq(seqs) \in Seq(A)
         /\ \E g, h : IsFlat(FlattenSeq(seqs), g, h, seqs, Len(seqs))
  <1>1. PICK f \in [0..Len(seqs) -> Seq(A)] :
            /\ f[0] = <<>> /\ \A i \in 1..Len(seqs) : f[i] = f[i - 1] \o seqs[i]
            /\ FlattenSeq(seqs) = f[Len(seqs)]
    BY FlattenTrace
  <1> DEFINE n == Len(seqs)
             T == {k \in 0..n : \E g, h : IsFlat(f[k], g, h, seqs, k)}
  <1>2. n \in Nat
    OBVIOUS
  <1>3. 0 \in T
    <2>1. IsFlat(<<>>, <<>>, <<>>, seqs, 0)
      BY DEF IsFlat
    <2> QED
      BY <1>1, <1>2, <2>1
  <1>4. ASSUME NEW m \in 0..n, m < n, m \in T
        PROVE  m + 1 \in T
    <2>1. PICK g, h : IsFlat(f[m], g, h, seqs, m)
      BY <1>4
    <2>2. m \in Nat /\ f[m] \in Seq(A) /\ m < Len(seqs) /\ m + 1 \in 0..n
      <3>1. m \in Nat /\ m < n /\ m + 1 \in 0..n
        BY <1>2, <1>4
      <3> QED
        BY <1>1, <3>1
    <2>3. \E gg, hh : IsFlat(f[m] \o seqs[m + 1], gg, hh, seqs, m + 1)
      BY <2>1, <2>2, FlattenOne
    <2>4. m + 1 \in 1..Len(seqs) /\ (m + 1) - 1 = m
      BY <1>2, <2>2
    <2>5. f[m + 1] = f[m] \o seqs[m + 1]
      BY <1>1, <2>4
    <2> QED
      BY <2>2, <2>3, <2>5
  <1> HIDE DEF T
  <1>5. 0..n \subseteq T
    <2> HIDE DEF n
    <2> QED BY <1>2, <1>3, <1>4, Induct
  <1>6. n \in T
    BY <1>2, <1>5
  <1> QED
    BY <1>1, <1>2, <1>6 DEF T
=============================================================================
