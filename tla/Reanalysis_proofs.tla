------------------------- MODULE Reanalysis_proofs --------------------------
(***************************************************************************)
(* What the parser of results, the comparison of a group and the commands  *)
(* that use them guarantee, for every log, every group of results, every   *)
(* tolerance and every number of commands.                                 *)
(*                                                                         *)
(* The parser and the grouping are loops over a sequence.  What they       *)
(* compute is proved by induction over the turns of the loop (Induct and   *)
(* Trace of Loops).                                                        *)
(***************************************************************************)
EXTENDS Reanalysis, Loops, FiniteSetTheorems

-----------------------------------------------------------------------------
(* The first and the last of a set of numbers *)

LEMMA FirstIs ==
  ASSUME NEW T \in SUBSET Nat, T # {}
  PROVE  /\ FirstOf(T) \in T /\ \A k \in T : FirstOf(T) <= k
         /\ \A x \in T : (\A k \in T : x <= k) => x = FirstOf(T)
  <1>1. FirstOf(T) \in T /\ \A k \in T : FirstOf(T) <= k
    BY Least DEF FirstOf
  <1>2. ASSUME NEW x \in T, \A k \in T : x <= k
        PROVE  x = FirstOf(T)
    <2>1. x <= FirstOf(T) /\ FirstOf(T) <= x /\ x \in Nat /\ FirstOf(T) \in Nat
      BY <1>1, <1>2
    <2> QED
      BY <2>1
  <1> QED
    BY <1>1, <1>2

LEMMA LastIs ==
  ASSUME NEW n \in Nat, NEW T \in SUBSET (0..n), T # {}
  PROVE  /\ LastOf(T) \in T /\ \A k \in T : k <= LastOf(T)
         /\ \A x \in T : (\A k \in T : k <= x) => x = LastOf(T)
  <1> DEFINE U == {n - k : k \in T}
  <1>0. \A k \in T : k \in Nat /\ k \in Int /\ n - k \in Nat
    OBVIOUS
  <1>1. U \in SUBSET Nat /\ U # {}
    BY <1>0
  <1>2. PICK u \in U : \A v \in U : u <= v
    <2> HIDE DEF U
    <2> QED
      BY <1>1, Least
  <1>3. PICK x \in T : u = n - x
    BY <1>2
  <1>4. ASSUME NEW k \in T
        PROVE  k <= x
    <2>1. n - x <= n - k /\ k \in Nat /\ x \in Nat
      BY <1>2, <1>3
    <2> QED
      BY <2>1
  <1>5. LastOf(T) \in T /\ \A k \in T : k <= LastOf(T)
    BY <1>4 DEF LastOf
  <1>6. ASSUME NEW y \in T, \A k \in T : k <= y
        PROVE  y = LastOf(T)
    <2>1. y <= LastOf(T) /\ LastOf(T) <= y /\ y \in Nat /\ LastOf(T) \in Nat
      BY <1>0, <1>5, <1>6
    <2> QED
      BY <2>1
  <1> QED
    BY <1>5, <1>6

-----------------------------------------------------------------------------
(* The groups of _modal_result *)

Res == [first : Matrices, sum : Matrices]
Base == [base : Res, count : Nat]

LEMMA CloseIs ==
  ASSUME NEW a \in Res, NEW b \in Res
  PROVE  Close(a, a) /\ (Close(a, b) => Close(b, a))
  <1> USE ToleranceAssumption DEF Res, Matrices
  <1>1. \A x, y \in Matrices : CloseMatrix(x, x) /\ (CloseMatrix(x, y) => CloseMatrix(y, x))
    BY DEF CloseMatrix
  <1> QED
    BY <1>1 DEF Close

LEMMA JoinIs ==
  ASSUME NEW bases \in Seq(Base), NEW r \in Res
  PROVE  /\ Join(bases, r) \in Seq(Base)
         /\ Home(bases, r) = {} => Join(bases, r) = Append(bases, [base |-> r, count |-> 1])
         /\ Home(bases, r) # {} =>
              /\ FirstOf(Home(bases, r)) \in Home(bases, r)
              /\ DOMAIN Join(bases, r) = DOMAIN bases
              /\ \A g \in DOMAIN bases :
                   /\ Join(bases, r)[g].base = bases[g].base
                   /\ Join(bases, r)[g].count =
                        IF g = FirstOf(Home(bases, r)) THEN bases[g].count + 1 ELSE bases[g].count
  <1>0. Home(bases, r) \in SUBSET Nat /\ Home(bases, r) \subseteq DOMAIN bases
    BY DEF Home
  <1>1. CASE Home(bases, r) = {}
    BY <1>1 DEF Join, Base
  <1>2. CASE Home(bases, r) # {}
    <2> DEFINE h == FirstOf(Home(bases, r))
    <2>1. h \in Home(bases, r) /\ h \in DOMAIN bases
      BY <1>0, <1>2, FirstIs
    <2>2. Join(bases, r) = [bases EXCEPT ![h] = [bases[h] EXCEPT !.count = bases[h].count + 1]]
      BY <1>2 DEF Join
    <2> HIDE DEF h
    <2>3. bases[h] \in Base /\ [bases[h] EXCEPT !.count = bases[h].count + 1] \in Base
      <3>1. bases[h] \in Base
        BY <2>1
      <3> QED
        BY <3>1 DEF Base
    <2>4. Join(bases, r) \in Seq(Base)
      BY <2>1, <2>2, <2>3
    <2>5. /\ DOMAIN Join(bases, r) = DOMAIN bases
          /\ \A g \in DOMAIN bases :
               /\ Join(bases, r)[g].base = bases[g].base
               /\ Join(bases, r)[g].count = IF g = h THEN bases[g].count + 1 ELSE bases[g].count
      BY <2>1, <2>2, <2>3 DEF Base
    <2> QED
      BY <1>2, <2>1, <2>4, <2>5 DEF h
  <1> QED
    BY <1>1, <1>2

LEMMA BasesTrace ==
  ASSUME NEW results \in Seq(Res),
         \A r \in Res, b \in Seq(Base) : Join(b, r) \in Seq(Base)
  PROVE  \E f \in [0..Len(results) -> Seq(Base)] : 
            /\ f[0] = <<>> /\ \A i \in 1..Len(results) : f[i] = Join(f[i-1], results[i])
            /\ Bases(results) = f[Len(results)]
  <1> DEFINE step == [i \in 1..Len(results) |-> [b \in Seq(Base) |-> Join(b, results[i])]]
            n == Len(results)
            after == CHOOSE f : f = [k \in 0..Len(results) |->
                                       IF k = 0 THEN <<>> ELSE Join(f[k - 1], results[k])]
  <1>1. n \in Nat /\ step \in [1..n -> [Seq(Base) -> Seq(Base)]]
    OBVIOUS
  <1>2. <<>> \in Seq(Base) /\ \A i \in 1..n, b \in Seq(Base) : step[i][b] = Join(b, results[i])
    OBVIOUS
  <1>3. Bases(results) = after[n]
    BY DEF Bases
  <1> HIDE DEF step
  <1>4. PICK f : IsTrace(f, n, Seq(Base), <<>>, step)
    <2> DEFINE S == Seq(Base)
    <2>1. n \in Nat /\ <<>> \in S /\ step \in [1..n -> [S -> S]]
      BY <1>1, <1>2
    <2> HIDE DEF S, n
    <2>2. \E f : IsTrace(f, n, S, <<>>, step)
      BY <2>1, Trace
    <2> QED
      BY <2>2 DEF S, n
  <1>5. ASSUME NEW i \in 1..n
        PROVE  f[i] = Join(f[i - 1], results[i])
    <2>1. i - 1 \in 0..n /\ f \in [0..n -> Seq(Base)] /\ f[i] = step[i][f[i - 1]]
      BY <1>1, <1>4 DEF IsTrace
    <2>2. f[i - 1] \in Seq(Base)
      BY <2>1
    <2> QED
      BY <1>2, <2>1, <2>2
  <1>6. f = [k \in 0..n |-> IF k = 0 THEN <<>> ELSE Join(f[k - 1], results[k])]
    BY <1>1, <1>4, <1>5 DEF IsTrace
  <1>7. after = [k \in 0..n |-> IF k = 0 THEN <<>> ELSE Join(after[k - 1], results[k])]
    BY <1>6
  <1> HIDE DEF after
  <1>8. after[0] = <<>> /\ \A k \in 1..n : after[k] = Join(after[k - 1], results[k])
    BY <1>1, <1>7
  <1> DEFINE T == {k \in 0..n : after[k] \in Seq(Base)}
  <1>9. 0..n \subseteq T
    <2>1. 0 \in T
      <3>1. 0 \in 0..n /\ after[0] \in Seq(Base)
        BY <1>1, <1>2, <1>8
      <3> QED
        BY <3>1
    <2>2. ASSUME NEW k \in 0..n, k < n, k \in T
          PROVE  k + 1 \in T
      <3>1. k + 1 \in 1..n /\ results[k + 1] \in Res /\ (k + 1) - 1 = k
        BY <1>1, <2>2
      <3>2. after[k + 1] = Join(after[k], results[k + 1])
        BY <1>8, <3>1
      <3>3. Join(after[k], results[k + 1]) \in Seq(Base)
        BY <2>2, <3>1
      <3> QED
        BY <3>1, <3>2, <3>3
    <2> HIDE DEF T, n
    <2> QED
      BY <1>1, <2>1, <2>2, Induct
  <1>10. after \in [0..n -> Seq(Base)]
    BY <1>7, <1>9
  <1> QED
    BY <1>3, <1>8, <1>10

(* The results among the first n that joined group g. *)
Joined(bases, results, n, g) == {k \in 1..n : FirstOf(Home(bases, results[k])) = g}

(* Every result so far has a group to be in, and joined the first of them;  *)
(* a group counts who joined it, its base is one of the results, and is not *)
(* close to the base of an earlier group.                                   *)
GroupsInv(bases, results, n) ==
  /\ bases \in Seq(Base)
  /\ \A k \in 1..n : Home(bases, results[k]) # {}
  /\ \A g \in DOMAIN bases : /\ bases[g].count = Cardinality(Joined(bases, results, n, g))
                             /\ \E k \in 1..n : results[k] = bases[g].base
  /\ \A g, h \in DOMAIN bases : g < h => ~Close(bases[h].base, bases[g].base)

LEMMA HomeIs ==
  ASSUME NEW bases \in Seq(Base), NEW r
  PROVE  /\ Home(bases, r) \in SUBSET Nat /\ Home(bases, r) \subseteq DOMAIN bases
         /\ Home(bases, r) # {} => /\ FirstOf(Home(bases, r)) \in Home(bases, r)
                                   /\ \A g \in Home(bases, r) : FirstOf(Home(bases, r)) <= g
  <1>1. Home(bases, r) \in SUBSET Nat /\ Home(bases, r) \subseteq DOMAIN bases
    BY DEF Home
  <1> QED
    BY <1>1, FirstIs

LEMMA JoinedFinite ==
  ASSUME NEW bases, NEW results, NEW n \in Nat, NEW g
  PROVE  /\ IsFiniteSet(Joined(bases, results, n, g))
         /\ Cardinality(Joined(bases, results, n, g)) \in 0..n
  <1>1. IsFiniteSet(1..n) /\ Cardinality(1..n) = n
    BY FS_Interval
  <1>2. Joined(bases, results, n, g) \subseteq 1..n
    BY DEF Joined
  <1>3. /\ IsFiniteSet(Joined(bases, results, n, g))
        /\ Cardinality(Joined(bases, results, n, g)) <= n
    BY <1>1, <1>2, FS_Subset
  <1>4. Cardinality(Joined(bases, results, n, g)) \in Nat
    BY <1>3, FS_CardinalityType
  <1> QED
    BY <1>3, <1>4

(* A result that is close to no base is the base of a new group. *)
LEMMA NewGroup ==
  ASSUME NEW results \in Seq(Res), NEW n \in Nat, n < Len(results), NEW bases,
         GroupsInv(bases, results, n), Home(bases, results[n + 1]) = {}
  PROVE  GroupsInv(Join(bases, results[n + 1]), results, n + 1)
  <1> DEFINE r == results[n + 1]
             new == [base |-> r, count |-> 1]
             after == Append(bases, new)
             m == Len(bases)
  <1>0. /\ bases \in Seq(Base) /\ r \in Res /\ n + 1 \in 1..(n + 1)
        /\ \A k \in 1..n : results[k] \in Res
        /\ m \in Nat /\ DOMAIN bases = 1..m
        /\ 1..(n + 1) = 1..n \union {n + 1} /\ n + 1 \notin 1..n
    BY DEF GroupsInv
  <1>1. Join(bases, r) = after /\ after \in Seq(Base)
    BY <1>0, JoinIs
  <1>2. /\ DOMAIN after = 1..(m + 1) /\ \A g \in 1..m : after[g] = bases[g]
        /\ after[m + 1] = new /\ new.base = r /\ new.count = 1
    BY <1>0
  <1> HIDE DEF r, new, after, m
  <1>3. ASSUME NEW k \in 1..n
        PROVE  /\ Home(after, results[k]) # {}
               /\ FirstOf(Home(after, results[k])) = FirstOf(Home(bases, results[k]))
    <2> DEFINE f == FirstOf(Home(bases, results[k]))
    <2>1. f \in Home(bases, results[k]) /\ \A g \in Home(bases, results[k]) : f <= g
      BY HomeIs DEF GroupsInv
    <2>2. f \in 1..m /\ f \in Home(after, results[k])
      BY <1>0, <1>2, <2>1 DEF Home
    <2>3. \A g \in Home(after, results[k]) : f <= g
      BY <1>0, <1>2, <2>1, <2>2 DEF Home
    <2>4. Home(after, results[k]) \in SUBSET Nat
      BY <1>1, HomeIs
    <2> HIDE DEF f
    <2>5. f = FirstOf(Home(after, results[k]))
      BY <2>2, <2>3, <2>4, FirstIs
    <2> QED
      BY <2>2, <2>5 DEF f
  <1>4. Home(after, r) = {m + 1}
    <2>1. m + 1 \in Home(after, r)
      BY <1>0, <1>2, CloseIs DEF Home
    <2>2. \A g \in 1..m : g \notin Home(after, r)
      BY <1>0, <1>2 DEF Home, r
    <2> QED
      BY <1>0, <1>2, <2>1, <2>2 DEF Home
  <1>5. FirstOf(Home(after, r)) = m + 1
    BY <1>4 DEF FirstOf
  <1>6. ASSUME NEW g \in 1..m
        PROVE  Joined(after, results, n + 1, g) = Joined(bases, results, n, g)
    BY <1>0, <1>3, <1>5 DEF Joined, r
  <1>7. Joined(after, results, n + 1, m + 1) = {n + 1}
    <2>1. \A k \in 1..n : FirstOf(Home(bases, results[k])) \in 1..m
      BY <1>0, HomeIs DEF GroupsInv
    <2> QED
      BY <1>0, <1>3, <1>5, <2>1 DEF Joined, r
  <1>8. \A k \in 1..(n + 1) : Home(after, results[k]) # {}
    BY <1>0, <1>3, <1>4 DEF r
  <1>9. ASSUME NEW g \in 1..(m + 1)
        PROVE  /\ after[g].count = Cardinality(Joined(after, results, n + 1, g))
               /\ \E k \in 1..(n + 1) : results[k] = after[g].base
    <2>1. CASE g \in 1..m
      BY <1>0, <1>2, <1>6, <2>1 DEF GroupsInv
    <2>2. CASE g = m + 1
      <3>1. Cardinality({n + 1}) = 1
        BY FS_Singleton
      <3> QED
        BY <1>0, <1>2, <1>7, <2>2, <3>1 DEF r
    <2> QED
      BY <1>0, <2>1, <2>2
  <1>10. ASSUME NEW g \in 1..(m + 1), NEW h \in 1..(m + 1), g < h
         PROVE  ~Close(after[h].base, after[g].base)
    <2>1. CASE h \in 1..m
      <3>1. g \in 1..m
        BY <1>10, <1>0, <2>1
      <3> QED
        BY <1>0, <1>2, <1>10, <2>1, <3>1 DEF GroupsInv
    <2>2. CASE h = m + 1
      <3>1. g \in 1..m
        BY <1>10, <1>0, <2>2
      <3> QED
        BY <1>0, <1>2, <2>2, <3>1 DEF Home, r
    <2> QED
      BY <1>0, <2>1, <2>2
  <1> QED
    BY <1>1, <1>2, <1>8, <1>9, <1>10 DEF GroupsInv, r

(* Any other result joins a group and is counted there. *)
LEMMA OldGroup ==
  ASSUME NEW results \in Seq(Res), NEW n \in Nat, n < Len(results), NEW bases,
         GroupsInv(bases, results, n), Home(bases, results[n + 1]) # {}
  PROVE  GroupsInv(Join(bases, results[n + 1]), results, n + 1)
  <1> DEFINE r == results[n + 1]
             after == Join(bases, r)
             f == FirstOf(Home(bases, r))
  <1>0. /\ bases \in Seq(Base) /\ r \in Res /\ n + 1 \in 1..(n + 1)
        /\ 1..(n + 1) = 1..n \union {n + 1} /\ n + 1 \notin 1..n /\ n + 1 \in Nat
    BY DEF GroupsInv
  <1>1. /\ after \in Seq(Base) /\ DOMAIN after = DOMAIN bases
        /\ \A g \in DOMAIN bases :
             /\ after[g].base = bases[g].base
             /\ after[g].count = IF g = f THEN bases[g].count + 1 ELSE bases[g].count
    BY <1>0, JoinIs
  <1> HIDE DEF r, after, f
  <1>2. \A x : Home(after, x) = Home(bases, x)
    BY <1>1 DEF Home
  <1>3. \A g : Joined(after, results, n, g) = Joined(bases, results, n, g)
    BY <1>2 DEF Joined
  <1>4. ASSUME NEW g \in DOMAIN bases
        PROVE  after[g].count = Cardinality(Joined(after, results, n + 1, g))
    <2> DEFINE old == Joined(bases, results, n, g)
    <2>1. IsFiniteSet(old) /\ Cardinality(old) \in 0..n /\ bases[g].count = Cardinality(old)
      BY <1>4, JoinedFinite DEF GroupsInv
    <2>2. n + 1 \notin old
      BY <1>0 DEF Joined
    <2>3. CASE g = f
      <3>1. Joined(after, results, n + 1, g) = old \union {n + 1}
        BY <1>0, <1>2, <2>3 DEF Joined, f, r
      <3> HIDE DEF old
      <3>2. Cardinality(old \union {n + 1}) = Cardinality(old) + 1
        BY <2>1, <2>2, FS_AddElement
      <3> QED
        BY <1>1, <2>1, <2>3, <3>1, <3>2
    <2>4. CASE g # f
      <3>1. Joined(after, results, n + 1, g) = old
        BY <1>0, <1>2, <2>4 DEF Joined, f, r
      <3> QED
        BY <1>1, <2>1, <2>4, <3>1
    <2> QED
      BY <2>3, <2>4
  <1>5. \A k \in 1..(n + 1) : Home(after, results[k]) # {}
    BY <1>0, <1>2 DEF GroupsInv, r
  <1>6. /\ \A g \in DOMAIN after : \E k \in 1..(n + 1) : results[k] = after[g].base
        /\ \A g, h \in DOMAIN after : g < h => ~Close(after[h].base, after[g].base)
    BY <1>0, <1>1 DEF GroupsInv
  <1> QED
    BY <1>1, <1>4, <1>5, <1>6 DEF GroupsInv, after, r

LEMMA GroupsHold ==
  ASSUME NEW results \in Seq(Res)
  PROVE  GroupsInv(Bases(results), results, Len(results))
  <1>1. PICK f \in [0..Len(results) -> Seq(Base)] :
          /\ f[0] = <<>> /\ \A i \in 1..Len(results) : f[i] = Join(f[i - 1], results[i])
          /\ Bases(results) = f[Len(results)]
    BY JoinIs, BasesTrace
  <1> DEFINE T == {k \in 0..Len(results) : GroupsInv(f[k], results, k)}
             n == Len(results)
  <1>2. n \in Nat
    OBVIOUS
  <1>3. 0 \in T
    <2>1. f[0] \in Seq(Base) /\ DOMAIN f[0] = {} /\ 1..0 = {}
      BY <1>1
    <2>2. GroupsInv(f[0], results, 0)
      BY <2>1 DEF GroupsInv
    <2> QED
      BY <1>2, <2>2
  <1>4. ASSUME NEW k \in 0..n, k < n, k \in T
        PROVE  k + 1 \in T
    <2>1. k \in Nat /\ k + 1 \in 1..n /\ k + 1 \in 0..n /\ (k + 1) - 1 = k
      BY <1>2, <1>4
    <2>2. f[k + 1] = Join(f[k], results[k + 1]) /\ GroupsInv(f[k], results, k)
      BY <1>1, <1>4, <2>1
    <2>3. GroupsInv(f[k + 1], results, k + 1)
      <3>1. CASE Home(f[k], results[k + 1]) = {}
        BY <1>4, <2>1, <2>2, <3>1, NewGroup
      <3>2. CASE Home(f[k], results[k + 1]) # {}
        BY <1>4, <2>1, <2>2, <3>2, OldGroup
      <3> QED
        BY <3>1, <3>2
    <2> QED
      BY <2>1, <2>3
  <1> HIDE DEF T, n
  <1>5. 0..n \subseteq T
    BY <1>2, <1>3, <1>4, Induct
  <1>6. n \in T
    BY <1>2, <1>5
  <1> QED
    BY <1>1, <1>6 DEF T, n

(* The mode is the base of a group as large as any. *)
LEMMA ModeIs ==
  ASSUME NEW results \in Seq(Res), Len(results) > 0, NEW bases, bases = Bases(results)
  PROVE  \E m \in DOMAIN bases :
           /\ LargestBase(bases) = bases[m]
           /\ \A k \in DOMAIN bases : bases[k].count <= bases[m].count
  <1> DEFINE n == Len(results)
             short == {n - bases[g].count : g \in DOMAIN bases}
             largest == {g \in DOMAIN bases :
                           \A k \in DOMAIN bases : bases[k].count <= bases[g].count}
  <1>1. GroupsInv(bases, results, n) /\ n \in Nat /\ 1 \in 1..n
    BY GroupsHold
  <1>2. \A g \in DOMAIN bases : bases[g].count \in 0..n
    BY <1>1, JoinedFinite DEF GroupsInv
  <1> HIDE DEF n
  <1>3. Home(bases, results[1]) # {} /\ bases \in Seq(Base)
    BY <1>1 DEF GroupsInv
  <1>4. DOMAIN bases # {}
    BY <1>3, HomeIs
  <1>5. short \in SUBSET Nat /\ short # {}
    <2>1. \A g \in DOMAIN bases : n - bases[g].count \in Nat
      BY <1>1, <1>2
    <2> QED
      BY <1>4, <2>1
  <1>6. PICK x \in short : \A y \in short : x <= y
    <2> HIDE DEF short
    <2> QED
      BY <1>5, Least
  <1>7. PICK g \in DOMAIN bases : x = n - bases[g].count
    BY <1>6
  <1>8. \A k \in DOMAIN bases : bases[k].count <= bases[g].count
    <2> SUFFICES ASSUME NEW k \in DOMAIN bases
                 PROVE  bases[k].count <= bases[g].count
      OBVIOUS
    <2>1. /\ n - bases[g].count <= n - bases[k].count
          /\ bases[g].count \in 0..n /\ bases[k].count \in 0..n
      BY <1>2, <1>6, <1>7
    <2> QED
      BY <1>1, <2>1
  <1>9. largest # {} /\ largest \in SUBSET Nat
    BY <1>3, <1>8
  <1> HIDE DEF largest
  <1>10. FirstOf(largest) \in largest
    BY <1>9, FirstIs
  <1>11. LargestBase(bases) = bases[FirstOf(largest)]
    BY DEF LargestBase, largest
  <1> QED
    BY <1>10, <1>11 DEF largest

(* Results that more than half of a group agree on are no anomalies, for    *)
(* every group, every order and every tolerance (_modal_result,             *)
(* analyze_run).                                                            *)
LEMMA Majority ==
  ASSUME NEW results \in Seq(Res), NEW i \in DOMAIN results,
         2 * Cardinality({k \in DOMAIN results : results[k] = results[i]}) > Len(results)
  PROVE  i \notin Judge(results).anomalies
  <1> DEFINE n == Len(results)
             bases == Bases(results)
             agree == {k \in DOMAIN results : results[k] = results[i]}
             g == FirstOf(Home(bases, results[i]))
             J(h) == Joined(bases, results, n, h)
  <1>1. /\ GroupsInv(bases, results, n) /\ n \in Nat /\ i \in 1..n /\ n > 0
        /\ DOMAIN results = 1..n
    BY GroupsHold
  <1> HIDE DEF bases
  <1>2. PICK m \in DOMAIN bases :
          /\ LargestBase(bases) = bases[m]
          /\ \A k \in DOMAIN bases : bases[k].count <= bases[m].count
    BY <1>1, ModeIs DEF bases
  <1>3. g \in Home(bases, results[i]) /\ g \in DOMAIN bases
    BY <1>1, HomeIs DEF GroupsInv
  <1>4. /\ bases[g].count = Cardinality(J(g)) /\ bases[m].count = Cardinality(J(m))
        /\ bases[g].count <= bases[m].count
    BY <1>1, <1>2, <1>3 DEF GroupsInv
  <1> HIDE DEF n
  <1>5. /\ IsFiniteSet(J(g)) /\ Cardinality(J(g)) \in Nat
        /\ IsFiniteSet(J(m)) /\ Cardinality(J(m)) \in Nat
    BY <1>1, JoinedFinite
  <1>6. agree \subseteq J(g)
    BY <1>1 DEF Joined
  <1>7. Cardinality(agree) <= Cardinality(J(g)) /\ Cardinality(agree) \in Nat
    <2> HIDE DEF agree, J
    <2>1. IsFiniteSet(agree) /\ Cardinality(agree) <= Cardinality(J(g))
      BY <1>5, <1>6, FS_Subset
    <2> QED
      BY <2>1, FS_CardinalityType
  <1>8. m = g
    <2> SUFFICES ASSUME m # g PROVE FALSE
      OBVIOUS
    <2>1. J(m) \cap J(g) = {}
      BY DEF Joined
    <2>2. J(m) \union J(g) \subseteq 1..n
      BY DEF Joined
    <2> HIDE DEF J
    <2>3. Cardinality(J(m) \union J(g)) = Cardinality(J(m)) + Cardinality(J(g))
      <3>1. Cardinality(J(m) \union J(g))
              = Cardinality(J(m)) + Cardinality(J(g)) - Cardinality(J(m) \cap J(g))
        BY <1>5, FS_Union
      <3>2. Cardinality(J(m) \cap J(g)) = 0
        BY <2>1, FS_EmptySet
      <3> QED
        BY <1>5, <3>1, <3>2
    <2>4. IsFiniteSet(1..n) /\ Cardinality(1..n) = n
      BY <1>1, FS_Interval
    <2>5. Cardinality(J(m) \union J(g)) <= n
      BY <2>2, <2>4, FS_Subset
    <2>6. 2 * Cardinality(agree) > n
      BY DEF n
    <2> HIDE DEF agree
    <2> QED
      BY <1>1, <1>4, <1>5, <1>7, <2>3, <2>5, <2>6
  <1>9. Close(results[i], LargestBase(bases).base)
    BY <1>2, <1>3, <1>8 DEF Home
  <1> QED
    BY <1>9 DEF Judge, bases

(* Where closeness is transitive, a group is the class of its base. *)
LEMMA GroupIsClass ==
  ASSUME NEW results \in Seq(Res), NEW bases, GroupsInv(bases, results, Len(results)),
         Transitive(results), NEW g \in DOMAIN bases, NEW b \in DOMAIN results,
         results[b] = bases[g].base
  PROVE  Class(results, b) = Joined(bases, results, Len(results), g)
  <1> DEFINE n == Len(results)
  <1>0. /\ n \in Nat /\ DOMAIN results = 1..n /\ \A k \in 1..n : results[k] \in Res
        /\ bases \in Seq(Base) /\ DOMAIN bases \subseteq Nat
    BY DEF GroupsInv
  <1> HIDE DEF n
  <1>1. ASSUME NEW k \in Joined(bases, results, n, g)
        PROVE  k \in Class(results, b)
    <2>1. k \in 1..n /\ g \in Home(bases, results[k])
      BY <1>0, HomeIs DEF Joined, GroupsInv, n
    <2> QED
      BY <1>0, <2>1 DEF Home, Class
  <1>2. ASSUME NEW k \in Class(results, b)
        PROVE  k \in Joined(bases, results, n, g)
    <2> DEFINE f == FirstOf(Home(bases, results[k]))
    <2>1. k \in 1..n /\ g \in Home(bases, results[k])
      BY <1>0, <1>2 DEF Class, Home
    <2>2. f \in Home(bases, results[k]) /\ f \in DOMAIN bases /\ f <= g
      BY <1>0, <2>1, HomeIs
    <2> HIDE DEF f
    <2>3. PICK c \in 1..n : results[c] = bases[f].base
      BY <2>2 DEF GroupsInv, n
    <2>4. k \in Class(results, c) /\ b \in Class(results, b)
      BY <1>0, <2>1, <2>2, <2>3, CloseIs DEF Class, Home
    <2>5. Class(results, c) = Class(results, b)
      <3>1. k \in DOMAIN results /\ c \in DOMAIN results
        BY <1>0, <2>1, <2>3
      <3> QED
        BY <1>2, <2>4, <3>1 DEF Transitive
    <2>6. Close(bases[g].base, bases[f].base)
      BY <2>3, <2>4, <2>5 DEF Class
    <2>7. f = g
      <3>1. ~(f < g)
        BY <2>2, <2>6 DEF GroupsInv
      <3> QED
        BY <1>0, <2>2, <3>1
    <2> QED
      BY <2>1, <2>7 DEF Joined, f
  <1> QED
    BY <1>1, <1>2 DEF n

(* Then the mode is a largest class of results, and the anomalies are all   *)
(* the others, whatever the order (_modal_result, analyze_run).             *)
LEMMA Classes ==
  ASSUME NEW results \in Seq(Res), Len(results) > 0, Transitive(results)
  PROVE  \E i \in DOMAIN results :
           /\ Judge(results).anomalies = DOMAIN results \ Class(results, i)
           /\ Judge(results).count = Cardinality(Class(results, i))
           /\ \A k \in DOMAIN results :
                Cardinality(Class(results, k)) <= Judge(results).count
  <1> DEFINE n == Len(results)
             bases == Bases(results)
  <1>1. GroupsInv(bases, results, n) /\ n \in Nat /\ DOMAIN results = 1..n
    BY GroupsHold
  <1> HIDE DEF bases
  <1>2. PICK m \in DOMAIN bases :
          /\ LargestBase(bases) = bases[m]
          /\ \A k \in DOMAIN bases : bases[k].count <= bases[m].count
    BY <1>1, ModeIs DEF bases
  <1>3. PICK i \in DOMAIN results : results[i] = bases[m].base
    BY <1>1 DEF GroupsInv
  <1>4. /\ Judge(results).count = bases[m].count
        /\ Judge(results).anomalies = {k \in DOMAIN results : ~Close(results[k], bases[m].base)}
    BY <1>2 DEF Judge, bases
  <1>5. bases[m].count = Cardinality(Class(results, i))
    BY <1>1, <1>3, GroupIsClass DEF GroupsInv
  <1>6. ASSUME NEW k \in DOMAIN results
        PROVE  Cardinality(Class(results, k)) <= bases[m].count
    <2> DEFINE g == FirstOf(Home(bases, results[k]))
    <2>1. g \in Home(bases, results[k]) /\ g \in DOMAIN bases
      BY <1>1, HomeIs DEF GroupsInv
    <2> HIDE DEF g
    <2>2. PICK b \in DOMAIN results : results[b] = bases[g].base
      BY <1>1, <2>1 DEF GroupsInv
    <2>3. Class(results, b) = Joined(bases, results, n, g)
      BY <1>1, <2>1, <2>2, GroupIsClass
    <2>4. Class(results, k) = Class(results, b)
      BY <2>1, <2>2 DEF Home, Class, Transitive
    <2>5. bases[g].count = Cardinality(Joined(bases, results, n, g))
      BY <1>1, <2>1 DEF GroupsInv
    <2> QED
      BY <1>2, <2>1, <2>3, <2>4, <2>5
  <1> QED
    BY <1>3, <1>4, <1>5, <1>6 DEF Class

-----------------------------------------------------------------------------
(* What parse_summary reads *)

Values == Matrices \union {None}
Parser == [section : {"none", "first", "sum"}, first : Values, sum : Values]
Started == [section |-> "none", first |-> None, sum |-> None]
Content == Lines \ [kind : {"attempt"}, value : Nat]

LEMMA LineKinds ==
  ASSUME NEW line \in Content
  PROVE  /\ line.kind \in {"first", "sum", "outputs", "matrix"}
         /\ line.kind = "matrix" => line.value \in Values
  BY DEF Content, Lines, Values

(* A header opens its section and forgets what it had; the first matrix     *)
(* closes it and is its value; nothing else is read.                        *)
LEMMA LineIs ==
  ASSUME NEW state \in Parser, NEW line \in Content
  PROVE  LET after == ReadLine(state, line)
         IN  /\ after \in Parser
             /\ after.section = IF line.kind \in {"first", "sum"} THEN line.kind ELSE "none"
             /\ line.kind \in {"first", "sum", "outputs"} =>
                  /\ after.first = IF line.kind = "first" THEN None ELSE state.first
                  /\ after.sum = IF line.kind = "sum" THEN None ELSE state.sum
             /\ line.kind = "matrix" =>
                  /\ after.first = IF state.section = "first" /\ line.value # None
                                   THEN line.value ELSE state.first
                  /\ after.sum = IF state.section = "sum" /\ line.value # None
                                 THEN line.value ELSE state.sum
  <1> DEFINE after == ReadLine(state, line)
  <1>0. line.kind = "matrix" => line.value \in Values
    BY LineKinds
  <1>k. None \in Values
    BY DEF Values
  <1>1. CASE line.kind = "first"
    <2>1. after = [state EXCEPT !.section = "first", !.first = None]
      BY <1>1 DEF ReadLine, Header
    <2> QED
      BY <1>1, <1>k, <2>1 DEF Parser
  <1>2. CASE line.kind = "sum"
    <2>1. after = [state EXCEPT !.section = "sum", !.sum = None]
      BY <1>2 DEF ReadLine, Header
    <2> QED
      BY <1>2, <1>k, <2>1 DEF Parser
  <1>3. CASE line.kind = "outputs"
    <2>1. after = [state EXCEPT !.section = "none"]
      BY <1>3 DEF ReadLine, Header
    <2> QED
      BY <1>3, <2>1 DEF Parser
  <1>4. CASE line.kind = "matrix"
    <2>0. after = Candidate(state, line.value)
      BY <1>4 DEF ReadLine
    <2>1. CASE state.section = "none"
      BY <1>4, <2>0, <2>1 DEF Candidate, Parser
    <2>2. CASE state.section = "first"
      <3> DEFINE v == IF line.value = None THEN state.first ELSE line.value
      <3>1. after = [state EXCEPT !.section = "none", !.first = v]
        BY <2>0, <2>2 DEF Candidate
      <3>2. v \in Values
        BY <1>0, <1>4 DEF Parser
      <3> HIDE DEF v
      <3>3. after \in Parser /\ after.section = "none" /\ after.first = v /\ after.sum = state.sum
        BY <3>1, <3>2 DEF Parser
      <3> QED
        BY <1>4, <2>2, <3>3 DEF v
    <2>3. CASE state.section = "sum"
      <3> DEFINE v == IF line.value = None THEN state.sum ELSE line.value
      <3>1. after = [state EXCEPT !.section = "none", !.sum = v]
        BY <2>0, <2>3 DEF Candidate
      <3>2. v \in Values
        BY <1>0, <1>4 DEF Parser
      <3> HIDE DEF v
      <3>3. after \in Parser /\ after.section = "none" /\ after.sum = v /\ after.first = state.first
        BY <3>1, <3>2 DEF Parser
      <3> QED
        BY <1>4, <2>3, <3>3 DEF v
    <2> QED
      BY <2>1, <2>2, <2>3 DEF Parser
  <1> QED
    BY <1>1, <1>2, <1>3, <1>4, LineKinds

(* The last header of a kind among the first n lines, and the matrix that   *)
(* comes right after it.                                                    *)
Heads(lines, kind, n) == {i \in 1..n : lines[i].kind = kind}
After(lines, kind, n) == LastOf(Heads(lines, kind, n)) + 1
Value(lines, kind, n) ==
  IF Heads(lines, kind, n) # {} /\ After(lines, kind, n) <= n
     /\ lines[After(lines, kind, n)].kind = "matrix"
  THEN lines[After(lines, kind, n)].value ELSE None

ReadInv(state, lines, n) ==
  /\ state \in Parser
  /\ state.section = IF n > 0 /\ lines[n].kind \in {"first", "sum"} THEN lines[n].kind ELSE "none"
  /\ state.first = Value(lines, "first", n) /\ state.sum = Value(lines, "sum", n)

(* What one more line does to the last header and its matrix. *)
LEMMA ValueStep ==
  ASSUME NEW lines \in Seq(Content), NEW n \in Nat, n < Len(lines),
         NEW kind \in {"first", "sum"}
  PROVE  LET line == lines[n + 1]
         IN  /\ line.kind = kind => Value(lines, kind, n + 1) = None
             /\ line.kind \notin {kind, "matrix"} =>
                  Value(lines, kind, n + 1) = Value(lines, kind, n)
             /\ line.kind = "matrix" /\ n > 0 /\ lines[n].kind = kind =>
                  Value(lines, kind, n) = None /\ Value(lines, kind, n + 1) = line.value
             /\ line.kind = "matrix" /\ ~(n > 0 /\ lines[n].kind = kind) =>
                  Value(lines, kind, n + 1) = Value(lines, kind, n)
  <1> DEFINE line == lines[n + 1]
             H == Heads(lines, kind, n)
             H1 == Heads(lines, kind, n + 1)
  <1>0. 1..(n + 1) = 1..n \union {n + 1} /\ n + 1 \notin 1..n /\ n + 1 \in Nat
    OBVIOUS
  <1>1. /\ line.kind = kind => H1 = H \union {n + 1}
        /\ line.kind # kind => H1 = H
        /\ H \subseteq 1..n /\ H \in SUBSET (0..n)
        /\ H1 \subseteq 1..(n + 1) /\ H1 \in SUBSET (0..(n + 1))
    BY <1>0 DEF Heads
  <1>2. H # {} => LastOf(H) \in H /\ LastOf(H) \in 1..n /\ \A i \in H : i <= LastOf(H)
    BY <1>1, LastIs
  <1>3. CASE line.kind = kind
    <2>1. n + 1 \in H1 /\ \A i \in H1 : i <= n + 1
      BY <1>0, <1>1, <1>3
    <2>2. LastOf(H1) = n + 1
      <3> DEFINE N == n + 1
      <3>1. N \in Nat /\ H1 \in SUBSET (0..N) /\ H1 # {} /\ N \in H1 /\ \A i \in H1 : i <= N
        BY <1>0, <1>1, <2>1
      <3> HIDE DEF N, H1
      <3>2. LastOf(H1) = N
        BY <3>1, LastIs
      <3> QED
        BY <3>2 DEF N
    <2> QED
      BY <1>0, <1>3, <2>2 DEF Value, After
  <1>4. CASE line.kind # kind /\ H = {}
    <2>1. Value(lines, kind, n) = None /\ Value(lines, kind, n + 1) = None
      BY <1>1, <1>4 DEF Value
    <2>2. ~(n > 0 /\ lines[n].kind = kind)
      BY <1>4 DEF Heads
    <2> QED
      BY <1>4, <2>1, <2>2
  <1>5. CASE line.kind # kind /\ H # {}
    <2>1. /\ H1 = H /\ After(lines, kind, n) = LastOf(H) + 1
          /\ After(lines, kind, n + 1) = LastOf(H) + 1
      BY <1>1, <1>5 DEF After
    <2>2. CASE LastOf(H) = n
      <3>1. After(lines, kind, n) = n + 1 /\ After(lines, kind, n + 1) = n + 1 /\ ~(n + 1 <= n)
        BY <2>1, <2>2
      <3>2. /\ Value(lines, kind, n) = None
            /\ line.kind = "matrix" => Value(lines, kind, n + 1) = line.value
            /\ line.kind # "matrix" => Value(lines, kind, n + 1) = None
        BY <1>0, <1>5, <2>1, <3>1 DEF Value
      <3>3. n > 0 /\ lines[n].kind = kind
        BY <1>2, <1>5, <2>2 DEF Heads
      <3> QED
        BY <1>5, <3>2, <3>3
    <2>3. CASE LastOf(H) # n
      <3>1. LastOf(H) + 1 <= n /\ LastOf(H) + 1 <= n + 1
        BY <1>2, <1>5, <2>3
      <3>2. Value(lines, kind, n + 1) = Value(lines, kind, n)
        BY <1>5, <2>1, <3>1 DEF Value
      <3>3. ~(n > 0 /\ lines[n].kind = kind)
        <4> SUFFICES ASSUME n > 0, lines[n].kind = kind PROVE FALSE
          OBVIOUS
        <4>1. n \in H
          BY DEF Heads
        <4>2. n <= LastOf(H) /\ LastOf(H) \in 1..n
          BY <1>2, <4>1
        <4> QED
          BY <2>3, <4>2
      <3> QED
        BY <1>5, <3>2, <3>3
    <2> QED
      BY <2>2, <2>3
  <1> QED
    BY <1>3, <1>4, <1>5

LEMMA ReadStep ==
  ASSUME NEW lines \in Seq(Content), NEW n \in Nat, n < Len(lines),
         NEW state, ReadInv(state, lines, n)
  PROVE  ReadInv(ReadLine(state, lines[n + 1]), lines, n + 1)
  <1> DEFINE line == lines[n + 1]
             after == ReadLine(state, line)
  <1>0. line \in Content /\ n + 1 > 0 /\ state \in Parser
    BY DEF ReadInv
  <1>1. /\ after \in Parser
        /\ after.section = IF line.kind \in {"first", "sum"} THEN line.kind ELSE "none"
    BY <1>0, LineIs
  <1>2. line.kind \in {"first", "sum", "outputs", "matrix"}
    BY <1>0, LineKinds
  <1>3. after.first = Value(lines, "first", n + 1)
    <2>1. /\ line.kind \in {"first", "sum", "outputs"} =>
               after.first = IF line.kind = "first" THEN None ELSE state.first
          /\ line.kind = "matrix" =>
               after.first = IF state.section = "first" /\ line.value # None
                             THEN line.value ELSE state.first
      BY <1>0, LineIs
    <2>2. /\ line.kind = "first" => Value(lines, "first", n + 1) = None
          /\ line.kind \notin {"first", "matrix"} =>
               Value(lines, "first", n + 1) = Value(lines, "first", n)
          /\ line.kind = "matrix" /\ n > 0 /\ lines[n].kind = "first" =>
               Value(lines, "first", n) = None /\ Value(lines, "first", n + 1) = line.value
          /\ line.kind = "matrix" /\ ~(n > 0 /\ lines[n].kind = "first") =>
               Value(lines, "first", n + 1) = Value(lines, "first", n)
      BY ValueStep
    <2>3. state.section = "first" <=> (n > 0 /\ lines[n].kind = "first")
      BY DEF ReadInv
    <2>4. state.first = Value(lines, "first", n)
      BY DEF ReadInv
    <2> HIDE DEF after, line
    <2> QED
      BY <1>2, <2>1, <2>2, <2>3, <2>4
  <1>4. after.sum = Value(lines, "sum", n + 1)
    <2>1. /\ line.kind \in {"first", "sum", "outputs"} =>
               after.sum = IF line.kind = "sum" THEN None ELSE state.sum
          /\ line.kind = "matrix" =>
               after.sum = IF state.section = "sum" /\ line.value # None
                           THEN line.value ELSE state.sum
      BY <1>0, LineIs
    <2>2. /\ line.kind = "sum" => Value(lines, "sum", n + 1) = None
          /\ line.kind \notin {"sum", "matrix"} =>
               Value(lines, "sum", n + 1) = Value(lines, "sum", n)
          /\ line.kind = "matrix" /\ n > 0 /\ lines[n].kind = "sum" =>
               Value(lines, "sum", n) = None /\ Value(lines, "sum", n + 1) = line.value
          /\ line.kind = "matrix" /\ ~(n > 0 /\ lines[n].kind = "sum") =>
               Value(lines, "sum", n + 1) = Value(lines, "sum", n)
      BY ValueStep
    <2>3. state.section = "sum" <=> (n > 0 /\ lines[n].kind = "sum")
      BY DEF ReadInv
    <2>4. state.sum = Value(lines, "sum", n)
      BY DEF ReadInv
    <2> HIDE DEF after, line
    <2> QED
      BY <1>2, <2>1, <2>2, <2>3, <2>4
  <1> QED
    BY <1>0, <1>1, <1>3, <1>4 DEF ReadInv

LEMMA ReadTrace ==
  ASSUME NEW lines \in Seq(Content)
  PROVE  \E f \in [0..Len(lines) -> Parser] :
            /\ f[0] = Started /\ \A i \in 1..Len(lines) : f[i] = ReadLine(f[i - 1], lines[i])
            /\ ReadAll(lines) = f[Len(lines)]
  <1> DEFINE step == [i \in 1..Len(lines) |-> [s \in Parser |-> ReadLine(s, lines[i])]]
             n == Len(lines)
             after == CHOOSE f : f = [k \in 0..Len(lines) |->
                                        IF k = 0 THEN Started ELSE ReadLine(f[k - 1], lines[k])]
  <1>0. \A k \in 1..n, s \in Parser : ReadLine(s, lines[k]) \in Parser
    <2> SUFFICES ASSUME NEW k \in 1..n, NEW s \in Parser PROVE ReadLine(s, lines[k]) \in Parser
      OBVIOUS
    <2>1. lines[k] \in Content
      OBVIOUS
    <2> QED
      BY <2>1, LineIs
  <1>1. n \in Nat /\ step \in [1..n -> [Parser -> Parser]]
    BY <1>0
  <1>2. Started \in Parser /\ \A i \in 1..n, s \in Parser : step[i][s] = ReadLine(s, lines[i])
    BY DEF Parser, Started, Values
  <1>3. ReadAll(lines) = after[n]
    BY DEF ReadAll, Started
  <1> HIDE DEF step
  <1>4. PICK f : IsTrace(f, n, Parser, Started, step)
    <2> DEFINE S == Parser
    <2>1. n \in Nat /\ Started \in S /\ step \in [1..n -> [S -> S]]
      BY <1>1, <1>2
    <2> HIDE DEF S, n
    <2>2. \E f : IsTrace(f, n, S, Started, step)
      BY <2>1, Trace
    <2> QED
      BY <2>2 DEF S, n
  <1>5. ASSUME NEW i \in 1..n
        PROVE  f[i] = ReadLine(f[i - 1], lines[i])
    <2>1. i - 1 \in 0..n /\ f \in [0..n -> Parser] /\ f[i] = step[i][f[i - 1]]
      BY <1>1, <1>4 DEF IsTrace
    <2>2. f[i - 1] \in Parser
      BY <2>1
    <2> QED
      BY <1>2, <2>1, <2>2
  <1>6. f = [k \in 0..n |-> IF k = 0 THEN Started ELSE ReadLine(f[k - 1], lines[k])]
    BY <1>1, <1>4, <1>5 DEF IsTrace
  <1>7. after = [k \in 0..n |-> IF k = 0 THEN Started ELSE ReadLine(after[k - 1], lines[k])]
    BY <1>6
  <1> HIDE DEF after
  <1>8. after[0] = Started /\ \A k \in 1..n : after[k] = ReadLine(after[k - 1], lines[k])
    BY <1>1, <1>7
  <1> DEFINE T == {k \in 0..n : after[k] \in Parser}
  <1>9. 0..n \subseteq T
    <2>1. 0 \in T
      <3>1. 0 \in 0..n /\ after[0] \in Parser
        BY <1>1, <1>2, <1>8
      <3> QED
        BY <3>1
    <2>2. ASSUME NEW k \in 0..n, k < n, k \in T
          PROVE  k + 1 \in T
      <3>1. k + 1 \in 1..n /\ (k + 1) - 1 = k
        BY <1>1, <2>2
      <3>2. after[k + 1] = ReadLine(after[k], lines[k + 1])
        BY <1>8, <3>1
      <3>3. ReadLine(after[k], lines[k + 1]) \in Parser
        BY <1>0, <2>2, <3>1
      <3> QED
        BY <3>1, <3>2, <3>3
    <2> HIDE DEF T, n
    <2> QED
      BY <1>1, <2>1, <2>2, Induct
  <1>10. after \in [0..n -> Parser]
    BY <1>7, <1>9
  <1> QED
    BY <1>3, <1>8, <1>10

LEMMA ReadHolds ==
  ASSUME NEW lines \in Seq(Content)
  PROVE  ReadInv(ReadAll(lines), lines, Len(lines))
  <1> DEFINE n == Len(lines)
  <1>1. PICK f \in [0..n -> Parser] :
          /\ f[0] = Started /\ \A i \in 1..n : f[i] = ReadLine(f[i - 1], lines[i])
          /\ ReadAll(lines) = f[n]
    BY ReadTrace
  <1>2. n \in Nat
    OBVIOUS
  <1> DEFINE T == {k \in 0..n : ReadInv(f[k], lines, k)}
  <1>3. 0 \in T
    <2>1. Heads(lines, "first", 0) = {} /\ Heads(lines, "sum", 0) = {}
      BY DEF Heads
    <2>2. ReadInv(Started, lines, 0)
      BY <2>1 DEF ReadInv, Value, Started, Parser, Values
    <2> QED
      BY <1>1, <1>2, <2>2
  <1>4. ASSUME NEW k \in 0..n, k < n, k \in T
        PROVE  k + 1 \in T
    <2>1. k \in Nat /\ k < Len(lines) /\ k + 1 \in 1..n /\ (k + 1) - 1 = k
      BY <1>2, <1>4
    <2>2. ReadInv(ReadLine(f[k], lines[k + 1]), lines, k + 1)
      BY <1>4, <2>1, ReadStep
    <2>3. f[k + 1] = ReadLine(f[k], lines[k + 1])
      BY <1>1, <2>1
    <2> QED
      BY <2>1, <2>2, <2>3
  <1>5. 0..n \subseteq T
    <2> HIDE DEF T, n
    <2> QED
      BY <1>2, <1>3, <1>4, Induct
  <1> QED
    BY <1>1, <1>2, <1>5

-----------------------------------------------------------------------------
(* The final attempt *)

(* What follows the last header of a wrapper has no other such header.      *)
LEMMA TailIs ==
  ASSUME NEW log \in Seq(Lines), Attempts(log) # {}
  PROVE  LET a == LastOf(Attempts(log))
             tail == SubSeq(log, a + 1, Len(log))
         IN  /\ a \in 1..Len(log) /\ a \in Attempts(log) /\ \A k \in Attempts(log) : k <= a
             /\ tail \in Seq(Content) /\ Len(tail) = Len(log) - a
             /\ \A i \in 1..Len(tail) : tail[i] = log[a + i]
  <1> DEFINE n == Len(log)
             a == LastOf(Attempts(log))
             tail == SubSeq(log, a + 1, n)
  <1>1. n \in Nat /\ DOMAIN log = 1..n /\ \A i \in 1..n : log[i] \in Lines
    OBVIOUS
  <1>2. Attempts(log) \in SUBSET (0..n) /\ Attempts(log) \subseteq 1..n
    BY <1>1 DEF Attempts
  <1>3. a \in Attempts(log) /\ \A k \in Attempts(log) : k <= a
    BY <1>1, <1>2, LastIs
  <1>4. a \in 1..n
    BY <1>2, <1>3
  <1>5. ASSUME NEW i \in 1..n, a < i
        PROVE  log[i] \in Content
    <2>1. i \notin Attempts(log)
      BY <1>3, <1>4, <1>5
    <2>2. log[i].kind # "attempt"
      BY <1>1, <2>1 DEF Attempts
    <2> QED
      BY <1>1, <2>2 DEF Content
  <1> HIDE DEF a
  <1>6. a + 1 \in 1..(n + 1) /\ n \in a..n
    BY <1>1, <1>4
  <1>7. /\ tail \in Seq(Lines) /\ Len(tail) = n - a
        /\ \A i \in 1..(n - a) : tail[i] = log[a + i]
    <2>1. a + 1 \in Int /\ n \in Int
      BY <1>1, <1>4
    <2>2. tail \in Seq(Lines)
      BY <1>1, <1>4
    <2>3. /\ Len(tail) = IF a + 1 <= n THEN n - (a + 1) + 1 ELSE 0
          /\ \A i \in 1..(n - (a + 1) + 1) : tail[i] = log[(a + 1) + i - 1]
      BY <1>1, <1>4
    <2> HIDE DEF tail, n
    <2>4. n - (a + 1) + 1 = n - a /\ \A i \in 1..(n - a) : (a + 1) + i - 1 = a + i
      BY <1>1, <1>4
    <2>5. Len(tail) = n - a
      BY <1>1, <1>4, <2>3
    <2> QED
      BY <2>2, <2>3, <2>4, <2>5
  <1> HIDE DEF tail, n
  <1>8. n - a \in Nat /\ \A i \in 1..(n - a) : a + i \in 1..n /\ a < a + i
    BY <1>1, <1>4
  <1>9. tail \in Seq(Content) /\ Len(tail) = n - a
    BY <1>5, <1>7, <1>8
  <1>10. \A i \in 1..Len(tail) : tail[i] = log[a + i]
    BY <1>7, <1>9
  <1> QED
    BY <1>3, <1>4, <1>9, <1>10 DEF a, tail, n

(* What the parser has of a kind after the final attempt is what the log    *)
(* has after the last header of that kind, counted from the beginning.      *)
LEMMA SectionIs ==
  ASSUME NEW log \in Seq(Lines), Attempts(log) # {}, NEW kind \in {"first", "sum"}
  PROVE  LET tail == SubSeq(log, LastOf(Attempts(log)) + 1, Len(log))
         IN  Section(log, kind) = Value(tail, kind, Len(tail))
  <1> DEFINE n == Len(log)
             a == LastOf(Attempts(log))
             tail == SubSeq(log, a + 1, n)
             t == Len(tail)
             H == Heads(tail, kind, t)
             G == Headers(log, kind)
             h == LastOf(H)
             g == LastOf(G)
  <1>1. /\ n \in Nat /\ a \in 1..n /\ a \in Attempts(log) /\ \A k \in Attempts(log) : k <= a
        /\ tail \in Seq(Content) /\ t = n - a /\ t \in Nat
        /\ \A i \in 1..t : tail[i] = log[a + i]
        /\ DOMAIN log = 1..n /\ Attempts(log) \subseteq 1..n
    <2>1. DOMAIN log = 1..n /\ Attempts(log) \subseteq 1..n /\ n \in Nat
      BY DEF Attempts
    <2>2. /\ a \in 1..n /\ a \in Attempts(log) /\ \A k \in Attempts(log) : k <= a
          /\ tail \in Seq(Content) /\ t = n - a
          /\ \A i \in 1..t : tail[i] = log[a + i]
      BY TailIs
    <2> HIDE DEF n, a, tail
    <2> QED
      BY <2>1, <2>2
  <1> HIDE DEF n, a, tail, t
  <1>2. \A i \in 1..n : i \in G <=> a < i /\ log[i].kind = kind
    <2> SUFFICES ASSUME NEW i \in 1..n PROVE i \in G <=> a < i /\ log[i].kind = kind
      OBVIOUS
    <2>1. (\A k \in Attempts(log) : k < i) <=> a < i
      BY <1>1
    <2> QED
      BY <1>1, <2>1 DEF Headers
  <1>3. G \subseteq 1..n /\ H \subseteq 1..t
    BY <1>1 DEF Headers, Heads
  <1>4. ASSUME NEW i \in H
        PROVE  a + i \in G
    BY <1>1, <1>2, <1>3, <1>4 DEF Heads
  <1>5. ASSUME NEW i \in G
        PROVE  i - a \in H
    <2>1. i \in 1..n /\ a < i /\ log[i].kind = kind
      BY <1>2, <1>3, <1>5
    <2>2. i - a \in 1..t /\ a + (i - a) = i
      BY <1>1, <2>1
    <2> QED
      BY <1>1, <2>1, <2>2 DEF Heads
  <1>6. CASE H = {}
    <2>1. G = {}
      BY <1>5, <1>6
    <2> QED
      BY <1>6, <2>1 DEF Section, Value, n, a, tail, t
  <1>7. CASE H # {}
    <2>1. h \in H /\ \A i \in H : i <= h
      <3>1. H \in SUBSET (0..t)
        BY <1>1, <1>3
      <3> HIDE DEF H
      <3> QED
        BY <1>1, <1>7, <3>1, LastIs
    <2>2. a + h \in G
      BY <1>4, <2>1
    <2>3. \A i \in G : i <= a + h
      <3> SUFFICES ASSUME NEW i \in G PROVE i <= a + h
        OBVIOUS
      <3>1. i - a <= h /\ i \in 1..n /\ h \in 1..t
        BY <1>3, <1>5, <2>1
      <3> QED
        BY <1>1, <3>1
    <2>4. g = a + h
      <3> DEFINE x == a + h
      <3>1. G \in SUBSET (0..n) /\ x \in G /\ \A i \in G : i <= x
        BY <1>1, <1>3, <2>2, <2>3
      <3> HIDE DEF G, x
      <3>2. x = LastOf(G)
        BY <1>1, <3>1, LastIs
      <3> QED
        BY <3>2 DEF x
    <2>5. h \in 1..t
      BY <1>3, <2>1
    <2> HIDE DEF h, g, G, H
    <2>6. /\ g + 1 = a + (h + 1)
          /\ g + 1 \in DOMAIN log <=> h + 1 <= t
          /\ h + 1 <= t => tail[h + 1] = log[g + 1]
      BY <1>1, <2>4, <2>5
    <2>7. G # {}
      BY <2>2
    <2>8. Section(log, kind) =
            IF g + 1 \in DOMAIN log /\ log[g + 1].kind = "matrix" THEN log[g + 1].value ELSE None
      BY <2>7 DEF Section, g, G
    <2>9. Value(tail, kind, t) =
            IF h + 1 <= t /\ tail[h + 1].kind = "matrix" THEN tail[h + 1].value ELSE None
      BY <1>7 DEF Value, After, h, H
    <2>10. Section(log, kind) = Value(tail, kind, t)
      BY <2>6, <2>8, <2>9
    <2> QED
      BY <2>10 DEF n, a, tail, t
  <1> QED
    BY <1>6, <1>7

(* A result is both of its matrices, of one shape, or nothing at all.       *)
LEMMA ResultIs ==
  ASSUME NEW lines \in Seq(Content)
  PROVE  /\ Parse(lines) # Nothing =>
              /\ Parse(lines) \in Res
              /\ None \notin {Parse(lines).first, Parse(lines).sum}
              /\ Parse(lines).first.shape = Parse(lines).sum.shape
         /\ Parse(lines) =
              LET first == Value(lines, "first", Len(lines))
                  sum == Value(lines, "sum", Len(lines))
              IN  IF None \in {first, sum} \/ first.shape # sum.shape THEN Nothing
                  ELSE [first |-> first, sum |-> sum]
  <1> DEFINE end == ReadAll(lines)
  <1>1. /\ end \in Parser /\ end.first = Value(lines, "first", Len(lines))
        /\ end.sum = Value(lines, "sum", Len(lines))
    BY ReadHolds DEF ReadInv
  <1>2. end.first \in Values /\ end.sum \in Values
    BY <1>1 DEF Parser
  <1>3. Parse(lines) = IF None \in {end.first, end.sum} \/ end.first.shape # end.sum.shape
                       THEN Nothing ELSE [first |-> end.first, sum |-> end.sum]
    BY DEF Parse
  <1> HIDE DEF end
  <1>4. CASE None \in {end.first, end.sum} \/ end.first.shape # end.sum.shape
    BY <1>1, <1>3, <1>4
  <1>5. CASE ~(None \in {end.first, end.sum} \/ end.first.shape # end.sum.shape)
    <2>1. end.first \in Matrices /\ end.sum \in Matrices
      BY <1>2, <1>5 DEF Values
    <2>2. Parse(lines) = [first |-> end.first, sum |-> end.sum]
      BY <1>3, <1>5
    <2>3. Parse(lines) \in Res /\ Parse(lines).first = end.first /\ Parse(lines).sum = end.sum
      BY <2>1, <2>2 DEF Res
    <2> QED
      BY <1>1, <1>5, <2>2, <2>3
  <1> QED
    BY <1>4, <1>5

(* The parser, told to read the final attempt of a case, finds what the     *)
(* reference says of the whole log (final_attempt, parse_summary).          *)
LEMMA ParseIsReference ==
  ASSUME NEW log \in Seq(Lines), NEW j
  PROVE  /\ Parse(FinalAttempt(log, j)) = Reference(log, j)
         /\ Reference(log, j) # Nothing =>
              /\ Reference(log, j) \in Res
              /\ None \notin {Reference(log, j).first, Reference(log, j).sum}
              /\ Reference(log, j).first.shape = Reference(log, j).sum.shape
  <1> DEFINE lines == FinalAttempt(log, j)
  <1>1. CASE Attempts(log) = {} \/ log[LastOf(Attempts(log))].value # j
    <2>1. lines = <<>> /\ lines \in Seq(Content) /\ Len(lines) = 0
      BY <1>1 DEF FinalAttempt
    <2>2. Value(lines, "first", 0) = None
      BY <2>1 DEF Value, Heads
    <2>3. Parse(lines) = Nothing
      BY <2>1, <2>2, ResultIs
    <2>4. Reference(log, j) = Nothing
      BY <1>1 DEF Reference
    <2> QED
      BY <2>3, <2>4
  <1>2. CASE ~(Attempts(log) = {} \/ log[LastOf(Attempts(log))].value # j)
    <2>1. lines = SubSeq(log, LastOf(Attempts(log)) + 1, Len(log)) /\ lines \in Seq(Content)
      BY <1>2, TailIs DEF FinalAttempt
    <2>2. /\ Section(log, "first") = Value(lines, "first", Len(lines))
          /\ Section(log, "sum") = Value(lines, "sum", Len(lines))
      BY <1>2, <2>1, SectionIs
    <2> HIDE DEF lines
    <2>3. Parse(lines) = Reference(log, j)
      <3>1. Parse(lines) =
              LET first == Value(lines, "first", Len(lines))
                  sum == Value(lines, "sum", Len(lines))
              IN  IF None \in {first, sum} \/ first.shape # sum.shape THEN Nothing
                  ELSE [first |-> first, sum |-> sum]
        BY <2>1, ResultIs
      <3> QED
        BY <1>2, <2>2, <3>1 DEF Reference
    <2> QED
      BY <2>1, <2>3, ResultIs DEF lines
  <1> QED
    BY <1>1, <1>2

-----------------------------------------------------------------------------
(* ORDER BY seq *)

InOrder(order, S) ==
  /\ order \in [1..Cardinality(S) -> S]
  /\ \A i, k \in 1..Cardinality(S) : i < k => order[i] < order[k]

(* The cases of a set can be put in the order of their numbers. *)
LEMMA SortedExists ==
  ASSUME NEW n \in Nat, NEW S \in SUBSET (1..n)
  PROVE  \E order : InOrder(order, S)
  <1> DEFINE T == {m \in 0..n : \A U \in SUBSET (1..m) : \E order : InOrder(order, U)}
  <1>1. 0 \in T
    <2>1. \A U \in SUBSET (1..0) : U = {}
      OBVIOUS
    <2>2. Cardinality({}) = 0
      BY FS_EmptySet
    <2>3. InOrder([i \in {} |-> i], {})
      <3>1. 1..0 = {}
        OBVIOUS
      <3> QED
        BY <2>2, <3>1 DEF InOrder
    <2>4. \E order : InOrder(order, {})
      BY <2>3
    <2>5. 0 \in 0..n
      OBVIOUS
    <2> QED
      BY <2>1, <2>4, <2>5
  <1>2. ASSUME NEW m \in 0..n, m < n, m \in T
        PROVE  m + 1 \in T
    <2>1. ASSUME NEW U \in SUBSET (1..(m + 1))
          PROVE  \E order : InOrder(order, U)
      <3> DEFINE V == U \ {m + 1}
      <3>1. V \in SUBSET (1..m) /\ \A v \in V : v < m + 1
        BY <1>2
      <3>2. PICK old : InOrder(old, V)
        BY <1>2, <3>1
      <3>3. CASE m + 1 \notin U
        <4>1. V = U
          BY <3>3
        <4> QED
          BY <3>2, <4>1
      <3>4. CASE m + 1 \in U
        <4> DEFINE k == Cardinality(V)
                   N == m + 1
                   order == [i \in 1..(k + 1) |-> IF i = k + 1 THEN N ELSE old[i]]
        <4>1. IsFiniteSet(1..(m + 1)) /\ IsFiniteSet(U)
          <5>1. 1 \in Int /\ m + 1 \in Int
            BY <1>2
          <5>2. IsFiniteSet(1..(m + 1))
            BY <5>1, FS_Interval
          <5> QED
            BY <5>2, FS_Subset
        <4>2. k \in Nat /\ Cardinality(U) = k + 1
          <5>1. IsFiniteSet(V) /\ Cardinality(V) = Cardinality(U) - 1
            BY <3>4, <4>1, FS_RemoveElement
          <5>2. Cardinality(V) \in Nat /\ Cardinality(U) \in Nat
            BY <4>1, <5>1, FS_CardinalityType
          <5> QED
            BY <5>1, <5>2
        <4>3. N \in U /\ \A v \in V : v \in U /\ v < N
          BY <3>1, <3>4
        <4>4. old \in [1..k -> V] /\ \A i, j \in 1..k : i < j => old[i] < old[j]
          BY <3>2 DEF InOrder
        <4> HIDE DEF N, k, V
        <4>5. order \in [1..(k + 1) -> U]
          BY <4>2, <4>3, <4>4
        <4>6. ASSUME NEW i \in 1..(k + 1), NEW j \in 1..(k + 1), i < j
              PROVE  order[i] < order[j]
          <5>1. i \in 1..k /\ order[i] = old[i] /\ old[i] \in V
            BY <4>2, <4>4, <4>6
          <5>2. CASE j = k + 1
            BY <4>3, <5>1, <5>2
          <5>3. CASE j # k + 1
            BY <4>2, <4>4, <4>6, <5>1, <5>3
          <5> QED
            BY <5>2, <5>3
        <4>7. InOrder(order, U)
          BY <4>2, <4>5, <4>6 DEF InOrder
        <4> QED
          BY <4>7
      <3> QED
        BY <3>3, <3>4
    <2> QED
      BY <1>2, <2>1
  <1>3. 0..n \subseteq T
    <2> HIDE DEF T
    <2> QED
      BY <1>1, <1>2, Induct
  <1> QED
    BY <1>3

(* The order has every case of the set, and each one once. *)
LEMMA BySeqIs ==
  ASSUME NEW n \in Nat, NEW S \in SUBSET (1..n)
  PROVE  LET order == BySeq(S)
         IN  /\ Cardinality(S) \in Nat /\ DOMAIN order = 1..Cardinality(S)
             /\ order \in Seq(S) /\ Len(order) = Cardinality(S)
             /\ \A i \in DOMAIN order : order[i] \in S
             /\ \A j \in S : \E i \in DOMAIN order : order[i] = j
  <1> DEFINE order == BySeq(S)
             k == Cardinality(S)
             Image == {order[i] : i \in 1..k}
  <1>1. InOrder(order, S)
    <2>1. PICK o : InOrder(o, S)
      BY SortedExists
    <2>2. o \in [1..Cardinality(S) -> S] /\ \A i, j \in DOMAIN o : i < j => o[i] < o[j]
      BY <2>1 DEF InOrder
    <2>3. /\ order \in [1..Cardinality(S) -> S]
          /\ \A i, j \in DOMAIN order : i < j => order[i] < order[j]
      BY <2>2 DEF BySeq
    <2> HIDE DEF order
    <2> QED
      BY <2>3 DEF InOrder
  <1>2. IsFiniteSet(1..n) /\ IsFiniteSet(S) /\ k \in Nat
    <2>1. IsFiniteSet(1..n)
      BY FS_Interval
    <2>2. IsFiniteSet(S)
      BY <2>1, FS_Subset
    <2> QED
      BY <2>1, <2>2, FS_CardinalityType
  <1>3. order \in [1..k -> S] /\ \A i, j \in 1..k : i < j => order[i] < order[j]
    BY <1>1 DEF InOrder
  <1> HIDE DEF order, k
  <1>4. IsFiniteSet(1..k) /\ Cardinality(1..k) = k
    BY <1>2, FS_Interval
  <1>5. order \in Surjection(1..k, Image)
    BY <1>3 DEF Surjection
  <1>6. order \in Injection(1..k, Image)
    <2>1. ASSUME NEW i \in 1..k, NEW j \in 1..k, order[i] = order[j]
          PROVE  i = j
      <3>1. order[i] \in Nat /\ order[j] \in Nat
        <4>1. order[i] \in S /\ order[j] \in S
          BY <1>3
        <4>2. \A x \in S : x \in Nat
          OBVIOUS
        <4> HIDE DEF Image
        <4> QED
          BY <4>1, <4>2
      <3>2. ~(i < j) /\ ~(j < i)
        BY <1>3, <2>1, <3>1
      <3> QED
        BY <1>2, <3>2
    <2> QED
      BY <1>5, <2>1 DEF Injection, Surjection, IsInjective
  <1>7. Cardinality(Image) = k
    <2> HIDE DEF Image
    <2> QED
      BY <1>4, <1>5, <1>6, FS_Surjection
  <1>8. Image = S
    <2>1. Image \subseteq S
      BY <1>3
    <2> HIDE DEF Image
    <2> QED
      BY <1>2, <1>7, <2>1, FS_Subset DEF k
  <1>9. order \in Seq(S) /\ Len(order) = k /\ DOMAIN order = 1..k
    BY <1>2, <1>3
  <1> QED
    BY <1>2, <1>3, <1>8, <1>9 DEF order, k

-----------------------------------------------------------------------------
(* The invariant *)

Pcs == {"start", "hash ledger", "hash report", "read", "logs", "hash again",
        "hash report again", "compare", "done", "failed"}
Result == Res \union {Nothing}
Proc == [pc : Pcs, before : Nat \X Nat, after : Nat \X Nat, version : Nat, jobs : SUBSET Jobs,
         results : UNION {[jobs -> Result] : jobs \in SUBSET Jobs}]

ReadersTyped ==
  /\ logs \in Logs /\ done \subseteq Jobs /\ ledger \in Nat /\ report \in Nat
  /\ owner \subseteq Readers
  /\ proc \in [Readers -> Proc]

(* The first hash of the ledger is not younger than the data, and the data  *)
(* are not younger than the second; a command has the results of the final  *)
(* attempts from the moment it has read the logs.                           *)
ReaderInv(r) ==
  LET p == proc[r]
  IN  /\ p.pc \in {"hash report", "read"} => p.before[1] <= ledger
      /\ p.pc \in {"logs", "hash again", "hash report again", "compare"} =>
           p.before[1] <= p.version /\ p.version <= ledger
      /\ p.pc \in {"hash report again", "compare"} => p.version <= p.after[1]
      /\ p.pc \in {"hash again", "hash report again", "compare"} =>
           p.results = [j \in p.jobs |-> Parse(FinalAttempt(logs[j], j))]

(* A report has the results of the final attempts, by group and by number,  *)
(* with the verdict on each group.                                          *)
Printed(jobs) == {j \in jobs : Reference(logs[j], j) # Nothing}
OfGroup(jobs, key) == BySeq({j \in Printed(jobs) : Group[j] = key})
ResultsOf(order) == [i \in DOMAIN order |-> Reference(logs[order[i]], order[i])]

IsReport(found) ==
  /\ found.version = found.before[1] /\ found.jobs \subseteq Jobs
  /\ found.errors = found.jobs \ Printed(found.jobs)
  /\ DOMAIN found.groups = {Group[j] : j \in Printed(found.jobs)}
  /\ \A key \in DOMAIN found.groups :
       /\ found.groups[key].jobs = OfGroup(found.jobs, key)
       /\ found.groups[key].entries = ResultsOf(OfGroup(found.jobs, key))
       /\ found.groups[key].judged = Judge(found.groups[key].entries)

ReportsInv == written \in Seq(Reports) /\ \A found \in Reports : IsReport(found)

ReanalysisInv == ReadersTyped /\ (\A r \in Readers : ReaderInv(r)) /\ ReportsInv

LEMMA JobsAre ==
  /\ Cardinality(Jobs) \in Nat /\ Jobs = 1..Cardinality(Jobs) /\ IsFiniteSet(Jobs)
  /\ \A l \in Logs, j \in Jobs : l[j] \in Seq(Lines)
  <1>1. Cardinality(Jobs) \in Nat
    BY CasesAssumption, FS_CardinalityType
  <1> QED
    BY <1>1, CasesAssumption, LogsAssumption

(* What a command that has read its logs and found the ledger unchanged     *)
(* writes is such a report.                                                 *)
LEMMA FoundIs ==
  ASSUME ReadersTyped, NEW r \in Readers, ReaderInv(r), proc[r].pc = "compare",
         proc[r].before = proc[r].after
  PROVE  IsReport(Found(r))
  <1> DEFINE p == proc[r]
             J == p.jobs
             found == Found(r)
             n == Cardinality(Jobs)
  <1>1. /\ p \in Proc /\ J \subseteq Jobs /\ logs \in Logs /\ n \in Nat /\ Jobs = 1..n
        /\ p.version \in Nat /\ p.before[1] \in Nat
    <2>1. p \in Proc
      BY DEF ReadersTyped
    <2>2. J \subseteq Jobs /\ p.version \in Nat /\ p.before \in Nat \X Nat
      BY <2>1 DEF Proc
    <2> QED
      BY <2>1, <2>2, JobsAre DEF ReadersTyped
  <1>2. p.version = p.before[1]
    <2>1. p.before[1] <= p.version /\ p.version <= p.after[1] /\ p.before[1] = p.after[1]
      BY DEF ReaderInv
    <2> QED
      BY <1>1, <2>1
  <1>3. \A j \in J : p.results[j] = Reference(logs[j], j)
    <2>1. p.results = [j \in J |-> Parse(FinalAttempt(logs[j], j))]
      BY DEF ReaderInv
    <2>2. ASSUME NEW j \in J
          PROVE  Parse(FinalAttempt(logs[j], j)) = Reference(logs[j], j)
      <3>1. logs[j] \in Seq(Lines)
        BY <1>1, JobsAre
      <3> QED
        BY <3>1, ParseIsReference
    <2> HIDE DEF p, J
    <2> QED
      BY <2>1, <2>2
  <1>4. {i \in J : p.results[i] # Nothing} = Printed(J)
    <2> HIDE DEF p, J
    <2> QED
      BY <1>3 DEF Printed
  <1>5. ASSUME NEW key
        PROVE  /\ Parsed(r, key) = OfGroup(J, key)
               /\ [i \in DOMAIN Parsed(r, key) |-> p.results[Parsed(r, key)[i]]]
                    = ResultsOf(OfGroup(J, key))
    <2> DEFINE S == {j \in Printed(J) : Group[j] = key}
    <2>1. {j \in J : Group[j] = key /\ p.results[j] # Nothing} = S
      <3> HIDE DEF p, J
      <3> QED
        BY <1>3 DEF Printed
    <2>2. Parsed(r, key) = BySeq(S) /\ OfGroup(J, key) = BySeq(S)
      BY <2>1 DEF Parsed, OfGroup
    <2>3. S \in SUBSET (1..n) /\ S \subseteq J
      BY <1>1 DEF Printed
    <2>4. \A i \in DOMAIN BySeq(S) : BySeq(S)[i] \in S
      <3> HIDE DEF S, n
      <3> QED
        BY <1>1, <2>3, BySeqIs
    <2>5. \A i \in DOMAIN BySeq(S) :
            p.results[BySeq(S)[i]] = Reference(logs[BySeq(S)[i]], BySeq(S)[i])
      BY <1>3, <2>3, <2>4
    <2> HIDE DEF S, p, J
    <2> QED
      BY <2>2, <2>5 DEF ResultsOf
  <1> DEFINE keys == {Group[j] : j \in Printed(J)}
             entries(key) == [i \in DOMAIN Parsed(r, key) |-> p.results[Parsed(r, key)[i]]]
             group(key) == [jobs |-> Parsed(r, key), entries |-> entries(key),
                            judged |-> Judge(entries(key))]
  <1>6. /\ found.before = p.before /\ found.version = p.version /\ found.jobs = J
        /\ found.errors = {j \in J : p.results[j] = Nothing}
        /\ found.groups = [key \in keys |-> group(key)]
    BY <1>4 DEF Found
  <1>7. found.errors = J \ Printed(J)
    <2> HIDE DEF p, J, found
    <2> QED
      BY <1>3, <1>6 DEF Printed
  <1>8. ASSUME NEW key \in keys
        PROVE  /\ found.groups[key].jobs = OfGroup(J, key)
               /\ found.groups[key].entries = ResultsOf(OfGroup(J, key))
               /\ found.groups[key].judged = Judge(found.groups[key].entries)
    <2>1. found.groups[key] = group(key)
      <3> HIDE DEF keys, group, found
      <3> QED
        BY <1>6
    <2>2. entries(key) = ResultsOf(OfGroup(J, key)) /\ Parsed(r, key) = OfGroup(J, key)
      BY <1>5
    <2> HIDE DEF entries, found, keys
    <2> QED
      BY <2>1, <2>2
  <1>9. DOMAIN found.groups = keys
    <2> HIDE DEF keys, group, found
    <2> QED
      BY <1>6
  <1> HIDE DEF found, group, entries
  <1> QED
    BY <1>1, <1>2, <1>6, <1>7, <1>8, <1>9 DEF IsReport, found

-----------------------------------------------------------------------------
(* The invariant is kept *)

LEMMA InitHolds == Init => ReanalysisInv
  <1> SUFFICES ASSUME Init PROVE ReanalysisInv
    OBVIOUS
  <1>1. Idle \in Proc
    <2>1. <<>> \in [{} -> Result]
      OBVIOUS
    <2> DEFINE R == UNION {[jobs -> Result] : jobs \in SUBSET Jobs}
    <2>2. <<>> \in R
      BY <2>1
    <2>3. "start" \in Pcs /\ <<0, 0>> \in Nat \X Nat /\ {} \in SUBSET Jobs
      BY DEF Pcs
    <2> HIDE DEF R
    <2>4. [pc |-> "start", before |-> <<0, 0>>, after |-> <<0, 0>>, version |-> 0,
           jobs |-> {}, results |-> <<>>]
            \in [pc : Pcs, before : Nat \X Nat, after : Nat \X Nat, version : Nat,
                 jobs : SUBSET Jobs, results : R]
      BY <2>2, <2>3
    <2> QED
      BY <2>4 DEF Proc, Idle, R
  <1>2. done \subseteq Jobs
    BY JobsAre DEF Init
  <1>3. ReadersTyped
    BY <1>1, <1>2 DEF Init, ReadersTyped
  <1>4. \A r \in Readers : ReaderInv(r)
    BY DEF Init, ReaderInv, Idle
  <1>5. ReportsInv
    <2>1. Reports = {}
      BY DEF Init, Reports
    <2> QED
      BY <2>1 DEF Init, ReportsInv
  <1> QED
    BY <1>3, <1>4, <1>5 DEF ReanalysisInv

(* What the steps do to a command: which one moves, and what it becomes.    *)
Move(r, new) == proc' = [proc EXCEPT ![r] = new] /\ new \in Proc

LEMMA MoveIs ==
  ASSUME ReadersTyped, NEW r \in Readers, NEW new, Move(r, new)
  PROVE  /\ proc' \in [Readers -> Proc] /\ proc'[r] = new
         /\ \A q \in Readers : q # r => proc'[q] = proc[q]
  BY DEF ReadersTyped, Move

(* Every step of a command, as what its record becomes. *)
Moves(r) ==
  LET p == proc[r]
  IN  \/ \E pc \in {"hash ledger", "failed"} : p.pc = "start" /\ Move(r, [p EXCEPT !.pc = pc])
      \/ p.pc = "hash ledger" /\ Move(r, [p EXCEPT !.pc = "hash report", !.before[1] = ledger])
      \/ p.pc = "hash report" /\ Move(r, [p EXCEPT !.pc = "read", !.before[2] = report])
      \/ p.pc = "read" /\ Move(r, [p EXCEPT !.pc = "logs", !.version = ledger, !.jobs = done])
      \/ p.pc = "logs" /\ Move(r, [p EXCEPT !.pc = "hash again",
                             !.results = [j \in p.jobs |-> Parse(FinalAttempt(logs[j], j))]])
      \/ p.pc = "hash again" /\ Move(r, [p EXCEPT !.pc = "hash report again", !.after[1] = ledger])
      \/ p.pc = "hash report again" /\ Move(r, [p EXCEPT !.pc = "compare", !.after[2] = report])
      \/ \E pc \in {"done", "failed"} : p.pc = "compare" /\ Move(r, [p EXCEPT !.pc = pc])

LEMMA ParseTyped ==
  ASSUME NEW log \in Seq(Lines), NEW j
  PROVE  Parse(FinalAttempt(log, j)) \in Result
  BY ParseIsReference DEF Result

LEMMA HashesTyped ==
  ASSUME NEW pair \in Nat \X Nat, NEW x \in Nat, NEW i \in {1, 2}
  PROVE  /\ [pair EXCEPT ![i] = x] \in Nat \X Nat /\ [pair EXCEPT ![i] = x][i] = x
         /\ i = 2 => [pair EXCEPT ![i] = x][1] = pair[1]
  <1>1. PICK a \in Nat, b \in Nat : pair = <<a, b>>
    OBVIOUS
  <1>2. [pair EXCEPT ![1] = x] = <<x, b>> /\ [pair EXCEPT ![2] = x] = <<a, x>>
    BY <1>1
  <1> QED
    BY <1>2

LEMMA ActionMoves ==
  ASSUME ReadersTyped, NEW r \in Readers,
         MakeDir(r) \/ HashBefore(r) \/ ReadLedger(r) \/ ReadLogs(r) \/ HashAfter(r)
           \/ WriteReport(r)
  PROVE  /\ Moves(r) /\ logs' = logs /\ done' = done /\ ledger' = ledger /\ report' = report
         /\ owner' \subseteq Readers
         /\ \/ UNCHANGED written
            \/ /\ proc[r].pc = "compare" /\ proc[r].before = proc[r].after
               /\ written' = Append(written, Found(r))
  <1> DEFINE p == proc[r]
  <1>1. /\ p \in Proc /\ ledger \in Nat /\ report \in Nat /\ done \in SUBSET Jobs /\ logs \in Logs
        /\ proc \in [Readers -> Proc] /\ owner \subseteq Readers
    BY DEF ReadersTyped
  <1>2. \A pc \in Pcs : [p EXCEPT !.pc = pc] \in Proc
    BY <1>1 DEF Proc
  <1>3. p.before \in Nat \X Nat /\ p.after \in Nat \X Nat /\ p.jobs \in SUBSET Jobs
    BY <1>1 DEF Proc
  <1>4. CASE MakeDir(r)
    <2>1. \E pc \in {"hash ledger", "failed"} : p.pc = "start" /\ proc' = [proc EXCEPT ![r].pc = pc]
      BY <1>4 DEF MakeDir, Goto
    <2>2. \E pc \in {"hash ledger", "failed"} : p.pc = "start" /\ Move(r, [p EXCEPT !.pc = pc])
      BY <1>1, <1>2, <2>1 DEF Move, Pcs
    <2> QED
      BY <1>1, <1>4, <2>2 DEF MakeDir, Moves
  <1>5. CASE HashBefore(r)
    <2>1. CASE p.pc = "hash ledger"
      <3> DEFINE new == [p EXCEPT !.pc = "hash report", !.before[1] = ledger]
      <3>1. proc' = [proc EXCEPT ![r] = new]
        BY <1>1, <1>5, <2>1 DEF HashBefore
      <3>2. new \in Proc
        <4> DEFINE hashes == [p.before EXCEPT ![1] = ledger]
        <4>1. hashes \in Nat \X Nat
          BY <1>1, <1>3, HashesTyped
        <4>2. new = [p EXCEPT !.pc = "hash report", !.before = hashes]
          OBVIOUS
        <4> HIDE DEF hashes, new
        <4> QED
          BY <1>1, <4>1, <4>2 DEF Proc, Pcs
      <3> QED
        BY <1>1, <1>5, <2>1, <3>1, <3>2 DEF HashBefore, Moves, Move
    <2>2. CASE p.pc = "hash report"
      <3> DEFINE new == [p EXCEPT !.pc = "read", !.before[2] = report]
      <3>1. proc' = [proc EXCEPT ![r] = new]
        BY <1>1, <1>5, <2>2 DEF HashBefore
      <3>2. new \in Proc
        <4> DEFINE hashes == [p.before EXCEPT ![2] = report]
        <4>1. hashes \in Nat \X Nat
          BY <1>1, <1>3, HashesTyped
        <4>2. new = [p EXCEPT !.pc = "read", !.before = hashes]
          OBVIOUS
        <4> HIDE DEF hashes, new
        <4> QED
          BY <1>1, <4>1, <4>2 DEF Proc, Pcs
      <3> QED
        BY <1>1, <1>5, <2>2, <3>1, <3>2 DEF HashBefore, Moves, Move
    <2> QED
      BY <1>5, <2>1, <2>2 DEF HashBefore
  <1>6. CASE ReadLedger(r)
    <2> DEFINE new == [p EXCEPT !.pc = "logs", !.version = ledger, !.jobs = done]
    <2>1. p.pc = "read" /\ proc' = [proc EXCEPT ![r] = new]
      BY <1>1, <1>6 DEF ReadLedger
    <2>2. new \in Proc
      BY <1>1, <1>3 DEF Proc, Pcs
    <2> QED
      BY <1>1, <1>6, <2>1, <2>2 DEF ReadLedger, Moves, Move
  <1>7. CASE ReadLogs(r)
    <2> DEFINE read == [j \in p.jobs |-> Parse(FinalAttempt(logs[j], j))]
               R == UNION {[jobs -> Result] : jobs \in SUBSET Jobs}
    <2>1. /\ p.pc = "logs"
          /\ proc' = [proc EXCEPT ![r] = [p EXCEPT !.pc = "hash again", !.results = read]]
      BY <1>1, <1>7 DEF ReadLogs
    <2>2. read \in [p.jobs -> Result]
      <3>1. \A j \in p.jobs : logs[j] \in Seq(Lines)
        BY <1>1, <1>3, JobsAre
      <3>2. \A j \in p.jobs : Parse(FinalAttempt(logs[j], j)) \in Result
        BY <3>1, ParseTyped
      <3> QED
        BY <3>2
    <2>3. read \in R
      BY <1>3, <2>2
    <2> HIDE DEF read
    <2>4. [p EXCEPT !.pc = "hash again", !.results = read] \in Proc
      BY <1>1, <2>3 DEF Proc, Pcs
    <2> QED
      BY <1>1, <1>7, <2>1, <2>4 DEF ReadLogs, Moves, Move, read
  <1>8. CASE HashAfter(r)
    <2>1. CASE p.pc = "hash again"
      <3> DEFINE new == [p EXCEPT !.pc = "hash report again", !.after[1] = ledger]
      <3>1. proc' = [proc EXCEPT ![r] = new]
        BY <1>1, <1>8, <2>1 DEF HashAfter
      <3>2. new \in Proc
        <4> DEFINE hashes == [p.after EXCEPT ![1] = ledger]
        <4>1. hashes \in Nat \X Nat
          BY <1>1, <1>3, HashesTyped
        <4>2. new = [p EXCEPT !.pc = "hash report again", !.after = hashes]
          OBVIOUS
        <4> HIDE DEF hashes, new
        <4> QED
          BY <1>1, <4>1, <4>2 DEF Proc, Pcs
      <3> QED
        BY <1>1, <1>8, <2>1, <3>1, <3>2 DEF HashAfter, Moves, Move
    <2>2. CASE p.pc = "hash report again"
      <3> DEFINE new == [p EXCEPT !.pc = "compare", !.after[2] = report]
      <3>1. proc' = [proc EXCEPT ![r] = new]
        BY <1>1, <1>8, <2>2 DEF HashAfter
      <3>2. new \in Proc
        <4> DEFINE hashes == [p.after EXCEPT ![2] = report]
        <4>1. hashes \in Nat \X Nat
          BY <1>1, <1>3, HashesTyped
        <4>2. new = [p EXCEPT !.pc = "compare", !.after = hashes]
          OBVIOUS
        <4> HIDE DEF hashes, new
        <4> QED
          BY <1>1, <4>1, <4>2 DEF Proc, Pcs
      <3> QED
        BY <1>1, <1>8, <2>2, <3>1, <3>2 DEF HashAfter, Moves, Move
    <2> QED
      BY <1>8, <2>1, <2>2 DEF HashAfter
  <1>9. CASE WriteReport(r)
    <2>1. \E pc \in {"done", "failed"} : p.pc = "compare" /\ proc' = [proc EXCEPT ![r].pc = pc]
      BY <1>9 DEF WriteReport, Goto
    <2>2. \E pc \in {"done", "failed"} : p.pc = "compare" /\ Move(r, [p EXCEPT !.pc = pc])
      BY <1>1, <1>2, <2>1 DEF Move, Pcs
    <2> QED
      BY <1>1, <1>9, <2>2 DEF WriteReport, Moves
  <1> QED
    BY <1>4, <1>5, <1>6, <1>7, <1>8, <1>9

LEMMA MovesKeep ==
  ASSUME ReadersTyped, NEW r \in Readers, NEW q \in Readers, ReaderInv(q), Moves(r),
         logs' = logs, ledger' = ledger
  PROVE  ReaderInv(q)'
  <1> DEFINE p == proc[r]
  <1>1. /\ p \in Proc /\ proc \in [Readers -> Proc] /\ ledger \in Nat /\ p.version \in Nat
        /\ p.before[1] \in Nat /\ p.after[1] \in Nat
    <2>1. p \in Proc /\ proc \in [Readers -> Proc] /\ ledger \in Nat
      BY DEF ReadersTyped
    <2> QED
      BY <2>1 DEF Proc
  <1>2. p.before \in Nat \X Nat /\ p.after \in Nat \X Nat /\ report \in Nat
    BY <1>1 DEF Proc, ReadersTyped
  <1>3. ledger' = ledger /\ ledger <= ledger
    BY <1>1
  <1>4. CASE q # r
    <2>1. proc'[q] = proc[q]
      BY <1>4, MoveIs DEF Moves
    <2> QED
      BY <2>1 DEF ReaderInv
  <1>5. CASE q = r
    <2>0. ReaderInv(r)
      BY <1>5
    <2>1. ASSUME NEW pc \in {"hash ledger", "failed", "done"}, Move(r, [p EXCEPT !.pc = pc])
          PROVE  ReaderInv(r)'
      <3>1. proc'[r].pc = pc
        BY <1>1, <2>1 DEF Move, Proc
      <3> QED
        BY <3>1 DEF ReaderInv
    <2>2. ASSUME Move(r, [p EXCEPT !.pc = "hash report", !.before[1] = ledger])
          PROVE  ReaderInv(r)'
      <3>1. proc'[r].pc = "hash report" /\ proc'[r].before[1] = ledger
        BY <1>1, <2>2 DEF Move, Proc
      <3> QED
        BY <1>1, <1>3, <3>1 DEF ReaderInv
    <2>3. ASSUME p.pc = "hash report", Move(r, [p EXCEPT !.pc = "read", !.before[2] = report])
          PROVE  ReaderInv(r)'
      <3> DEFINE hashes == [p.before EXCEPT ![2] = report]
      <3>0. Move(r, [p EXCEPT !.pc = "read", !.before = hashes]) /\ hashes[1] = p.before[1]
        <4>1. [p EXCEPT !.pc = "read", !.before[2] = report]
                = [p EXCEPT !.pc = "read", !.before = hashes]
          OBVIOUS
        <4>2. Move(r, [p EXCEPT !.pc = "read", !.before = hashes])
          BY <2>3, <4>1
        <4>3. hashes[1] = p.before[1]
          BY <1>1, <1>2, HashesTyped
        <4> QED
          BY <4>2, <4>3
      <3> HIDE DEF hashes
      <3>1. proc'[r].pc = "read" /\ proc'[r].before[1] = p.before[1]
        BY <1>1, <3>0 DEF Move, Proc
      <3> QED
        BY <2>0, <2>3, <3>1 DEF ReaderInv
    <2>4. ASSUME p.pc = "read", Move(r, [p EXCEPT !.pc = "logs", !.version = ledger, !.jobs = done])
          PROVE  ReaderInv(r)'
      <3>1. proc'[r].pc = "logs" /\ proc'[r].before = p.before /\ proc'[r].version = ledger
        BY <1>1, <2>4 DEF Move, Proc
      <3> QED
        BY <1>1, <1>3, <2>0, <2>4, <3>1 DEF ReaderInv
    <2>5. ASSUME p.pc = "logs",
                 Move(r, [p EXCEPT !.pc = "hash again",
                            !.results = [j \in p.jobs |-> Parse(FinalAttempt(logs[j], j))]])
          PROVE  ReaderInv(r)'
      <3> DEFINE read == [j \in p.jobs |-> Parse(FinalAttempt(logs[j], j))]
      <3>1. /\ proc'[r].pc = "hash again" /\ proc'[r].before = p.before
            /\ proc'[r].version = p.version /\ proc'[r].results = read /\ proc'[r].jobs = p.jobs
        <4>1. Move(r, [p EXCEPT !.pc = "hash again", !.results = read])
          BY <2>5
        <4> HIDE DEF read
        <4> QED
          BY <1>1, <4>1 DEF Move, Proc
      <3> QED
        BY <2>0, <2>5, <3>1 DEF ReaderInv
    <2>6. ASSUME p.pc = "hash again",
                 Move(r, [p EXCEPT !.pc = "hash report again", !.after[1] = ledger])
          PROVE  ReaderInv(r)'
      <3>1. /\ proc'[r].pc = "hash report again" /\ proc'[r].before = p.before
            /\ proc'[r].version = p.version /\ proc'[r].results = p.results
            /\ proc'[r].jobs = p.jobs /\ proc'[r].after[1] = ledger
        <4> DEFINE hashes == [p.after EXCEPT ![1] = ledger]
        <4>1. Move(r, [p EXCEPT !.pc = "hash report again", !.after = hashes]) /\ hashes[1] = ledger
          <5>1. [p EXCEPT !.pc = "hash report again", !.after[1] = ledger]
                  = [p EXCEPT !.pc = "hash report again", !.after = hashes]
            OBVIOUS
          <5>2. Move(r, [p EXCEPT !.pc = "hash report again", !.after = hashes])
            BY <2>6, <5>1
          <5>3. hashes[1] = ledger
            BY <1>1, <1>2, HashesTyped
          <5> QED
            BY <5>2, <5>3
        <4> HIDE DEF hashes
        <4> QED
          BY <1>1, <4>1 DEF Move, Proc
      <3> QED
        BY <2>0, <2>6, <3>1 DEF ReaderInv
    <2>7. ASSUME p.pc = "hash report again",
                 Move(r, [p EXCEPT !.pc = "compare", !.after[2] = report])
          PROVE  ReaderInv(r)'
      <3>1. /\ proc'[r].pc = "compare" /\ proc'[r].before = p.before
            /\ proc'[r].version = p.version /\ proc'[r].results = p.results
            /\ proc'[r].jobs = p.jobs /\ proc'[r].after[1] = p.after[1]
        <4> DEFINE hashes == [p.after EXCEPT ![2] = report]
        <4>1. Move(r, [p EXCEPT !.pc = "compare", !.after = hashes]) /\ hashes[1] = p.after[1]
          <5>1. [p EXCEPT !.pc = "compare", !.after[2] = report]
                  = [p EXCEPT !.pc = "compare", !.after = hashes]
            OBVIOUS
          <5>2. Move(r, [p EXCEPT !.pc = "compare", !.after = hashes])
            BY <2>7, <5>1
          <5>3. hashes[1] = p.after[1]
            BY <1>1, <1>2, HashesTyped
          <5> QED
            BY <5>2, <5>3
        <4> HIDE DEF hashes
        <4> QED
          BY <1>1, <4>1 DEF Move, Proc
      <3> QED
        BY <2>0, <2>7, <3>1 DEF ReaderInv
    <2>8. ReaderInv(r)'
      BY <2>1, <2>2, <2>3, <2>4, <2>5, <2>6, <2>7 DEF Moves
    <2> QED
      BY <1>5, <2>8
  <1> QED
    BY <1>4, <1>5

(* A report stays what it is, and one that is added is a report.            *)
LEMMA ReportsKept ==
  ASSUME ReportsInv, logs' = logs,
         \/ UNCHANGED written
         \/ \E found : IsReport(found) /\ written' = Append(written, found)
  PROVE  ReportsInv'
  <1>1. ASSUME NEW found, IsReport(found)
        PROVE  IsReport(found)'
    <2>1. \A jobs : Printed(jobs)' = Printed(jobs)
      BY DEF Printed
    <2>2. \A jobs, key : OfGroup(jobs, key)' = OfGroup(jobs, key)
      BY <2>1 DEF OfGroup
    <2>3. \A order : ResultsOf(order)' = ResultsOf(order)
      BY DEF ResultsOf
    <2> QED
      BY <1>1, <2>1, <2>2, <2>3 DEF IsReport
  <1>2. CASE UNCHANGED written
    <2>1. Reports' = Reports
      BY <1>2 DEF Reports
    <2> QED
      BY <1>1, <1>2, <2>1 DEF ReportsInv
  <1>3. ASSUME NEW found, IsReport(found), written' = Append(written, found)
        PROVE  ReportsInv'
    <2> DEFINE S == Reports \union {found}
    <2>1. written \in Seq(S) /\ found \in S
      BY DEF ReportsInv
    <2>2. /\ Len(written) \in Nat /\ DOMAIN written = 1..Len(written)
          /\ written' \in Seq(S) /\ DOMAIN written' = 1..(Len(written) + 1)
          /\ \A w \in 1..Len(written) : written'[w] = written[w]
          /\ written'[Len(written) + 1] = found
      <3> HIDE DEF S
      <3> QED
        BY <1>3, <2>1, AppendProperties
    <2>3. Reports' = S
      <3>1. 1..(Len(written) + 1) = DOMAIN written \union {Len(written) + 1}
        BY <2>2
      <3> QED
        BY <2>2, <3>1 DEF Reports
    <2>4. \A f \in Reports' : IsReport(f)'
      BY <1>1, <1>3, <2>3 DEF ReportsInv
    <2> HIDE DEF S
    <2> QED
      BY <2>2, <2>3, <2>4 DEF ReportsInv
  <1> QED
    BY <1>2, <1>3

LEMMA StepHolds == ReanalysisInv /\ [Next]_vars => ReanalysisInv'
  <1> SUFFICES ASSUME ReanalysisInv, [Next]_vars PROVE ReanalysisInv'
    OBVIOUS
  <1>0. ReadersTyped /\ (\A r \in Readers : ReaderInv(r)) /\ ReportsInv
    BY DEF ReanalysisInv
  <1>1. ASSUME NEW r \in Readers,
               MakeDir(r) \/ HashBefore(r) \/ ReadLedger(r) \/ ReadLogs(r) \/ HashAfter(r)
                 \/ WriteReport(r)
        PROVE  ReanalysisInv'
    <2>1. /\ Moves(r) /\ logs' = logs /\ done' = done /\ ledger' = ledger /\ report' = report
          /\ owner' \subseteq Readers
          /\ \/ UNCHANGED written
             \/ /\ proc[r].pc = "compare" /\ proc[r].before = proc[r].after
                /\ written' = Append(written, Found(r))
      BY <1>0, <1>1, ActionMoves
    <2>2. proc' \in [Readers -> Proc]
      BY <1>0, <2>1, MoveIs DEF Moves
    <2>3. ReadersTyped'
      BY <1>0, <2>1, <2>2 DEF ReadersTyped
    <2>4. \A q \in Readers : ReaderInv(q)'
      BY <1>0, <2>1, MovesKeep
    <2>5. ReportsInv'
      BY <1>0, <2>1, FoundIs, ReportsKept
    <2> QED
      BY <2>3, <2>4, <2>5 DEF ReanalysisInv
  <1>2. ASSUME logs' = logs, written' = written, proc' = proc, owner' = owner,
               done' \subseteq Jobs, ledger' \in Nat, report' \in Nat, ledger <= ledger'
        PROVE  ReanalysisInv'
    <2>1. ReadersTyped'
      BY <1>0, <1>2 DEF ReadersTyped
    <2>2. ASSUME NEW r \in Readers
          PROVE  ReaderInv(r)'
      <3>1. /\ proc'[r] = proc[r] /\ proc[r].version \in Nat /\ proc[r].before[1] \in Nat
            /\ ledger \in Nat
        <4>1. proc[r] \in Proc
          BY <1>0 DEF ReadersTyped
        <4> QED
          BY <1>0, <1>2, <4>1 DEF Proc, ReadersTyped
      <3>2. \A x \in Nat : x <= ledger => x <= ledger'
        BY <1>2, <3>1
      <3> QED
        BY <1>0, <1>2, <3>1, <3>2 DEF ReaderInv
    <2>3. ReportsInv'
      BY <1>0, <1>2, ReportsKept
    <2> QED
      BY <2>1, <2>2, <2>3 DEF ReanalysisInv
  <1>3. CASE Commit
    <2>1. done' \subseteq Jobs /\ ledger' \in Nat /\ report' \in Nat /\ ledger <= ledger'
      BY <1>0, <1>3 DEF Commit, ReadersTyped
    <2> QED
      BY <1>2, <1>3, <2>1 DEF Commit
  <1>4. CASE WriteOriginal
    <2>1. done' \subseteq Jobs /\ ledger' \in Nat /\ report' \in Nat /\ ledger <= ledger'
      BY <1>0, <1>4 DEF WriteOriginal, ReadersTyped
    <2> QED
      BY <1>2, <1>4, <2>1 DEF WriteOriginal
  <1>5. CASE UNCHANGED vars
    <2>1. done' \subseteq Jobs /\ ledger' \in Nat /\ report' \in Nat /\ ledger <= ledger'
      BY <1>0, <1>5 DEF vars, ReadersTyped
    <2> QED
      BY <1>2, <1>5, <2>1 DEF vars
  <1> QED
    BY <1>1, <1>3, <1>4, <1>5 DEF Next

LEMMA Always == Spec => []ReanalysisInv
  BY InitHolds, StepHolds, PTL DEF Spec

-----------------------------------------------------------------------------
(* The properties *)

(* A group of a report has at least one result, each of a case of its own.  *)
LEMMA GroupOf ==
  ASSUME ReanalysisInv, NEW found \in Reports, NEW key \in DOMAIN found.groups
  PROVE  LET S == {j \in Printed(found.jobs) : Group[j] = key}
             group == found.groups[key]
         IN  /\ S \subseteq Jobs /\ S # {}
             /\ DOMAIN group.jobs = DOMAIN group.entries
             /\ \A i \in DOMAIN group.jobs :
                  /\ group.jobs[i] \in S
                  /\ group.entries[i] = Reference(logs[group.jobs[i]], group.jobs[i])
             /\ \A j \in S : \E i \in DOMAIN group.jobs : group.jobs[i] = j
             /\ group.entries \in Seq(Res) /\ Len(group.entries) > 0
             /\ group.judged = Judge(group.entries)
  <1> DEFINE S == {j \in Printed(found.jobs) : Group[j] = key}
             order == BySeq(S)
             n == Cardinality(Jobs)
             entries == ResultsOf(order)
  <1>1. /\ IsReport(found) /\ found.groups[key].jobs = order
        /\ found.groups[key].entries = entries /\ found.groups[key].judged = Judge(entries)
    <2>1. IsReport(found)
      BY DEF ReanalysisInv, ReportsInv
    <2> QED
      BY <2>1 DEF IsReport, OfGroup
  <1>2. S \in SUBSET (1..n) /\ S \subseteq Jobs /\ n \in Nat /\ S # {}
    <2>1. found.jobs \subseteq Jobs /\ \E j \in Printed(found.jobs) : Group[j] = key
      BY <1>1 DEF IsReport
    <2>2. S \subseteq Jobs /\ S # {}
      BY <2>1 DEF Printed
    <2> HIDE DEF S
    <2> QED
      BY <2>2, JobsAre
  <1>3. /\ DOMAIN order = 1..Cardinality(S) /\ Cardinality(S) \in Nat
        /\ \A i \in DOMAIN order : order[i] \in S
        /\ \A j \in S : \E i \in DOMAIN order : order[i] = j
    <2> HIDE DEF S, n
    <2> QED
      BY <1>2, BySeqIs
  <1>4. \A j \in S : Reference(logs[j], j) \in Res
    <2> SUFFICES ASSUME NEW j \in S PROVE Reference(logs[j], j) \in Res
      OBVIOUS
    <2>1. logs[j] \in Seq(Lines)
      BY <1>2, JobsAre DEF ReanalysisInv, ReadersTyped
    <2>2. Reference(logs[j], j) # Nothing
      BY DEF Printed
    <2> QED
      BY <2>1, <2>2, ParseIsReference
  <1> HIDE DEF S, order
  <1>5. entries = [i \in 1..Cardinality(S) |-> Reference(logs[order[i]], order[i])]
    BY <1>3 DEF ResultsOf
  <1>6. entries \in [1..Cardinality(S) -> Res]
    BY <1>3, <1>4, <1>5
  <1> HIDE DEF entries
  <1>7. entries \in Seq(Res) /\ Len(entries) = Cardinality(S) /\ DOMAIN entries = 1..Cardinality(S)
    BY <1>3, <1>6
  <1>8. Cardinality(S) > 0
    <2>1. PICK i \in DOMAIN order : TRUE
      BY <1>2, <1>3
    <2>2. i \in 1..Cardinality(S)
      BY <1>3
    <2> QED
      BY <1>3, <2>2
  <1>9. \A i \in DOMAIN order : entries[i] = Reference(logs[order[i]], order[i])
    BY <1>3, <1>5
  <1>10. Len(entries) > 0
    BY <1>7, <1>8
  <1> QED
    BY <1>1, <1>2, <1>3, <1>7, <1>9, <1>10 DEF S

LEMMA EntriesAre ==
  ASSUME ReanalysisInv, NEW found \in Reports
  PROVE  /\ Entries(found) = {[job |-> j, key |-> Group[j], result |-> Reference(logs[j], j)] :
                                j \in Printed(found.jobs)}
         /\ \A j \in Printed(found.jobs) :
              /\ None \notin {Reference(logs[j], j).first, Reference(logs[j], j).sum}
              /\ Reference(logs[j], j).first.shape = Reference(logs[j], j).sum.shape
  <1> DEFINE E(j) == [job |-> j, key |-> Group[j], result |-> Reference(logs[j], j)]
             F(key, i) == [job |-> found.groups[key].jobs[i], key |-> key,
                           result |-> found.groups[key].entries[i]]
             P == Printed(found.jobs)
  <1>0. IsReport(found)
    BY DEF ReanalysisInv, ReportsInv
  <1>1. ASSUME NEW key \in DOMAIN found.groups, NEW i \in DOMAIN found.groups[key].jobs
        PROVE  found.groups[key].jobs[i] \in P /\ F(key, i) = E(found.groups[key].jobs[i])
    <2> DEFINE j == found.groups[key].jobs[i]
    <2>1. j \in P /\ Group[j] = key /\ found.groups[key].entries[i] = Reference(logs[j], j)
      BY GroupOf
    <2> HIDE DEF P, j
    <2> QED
      BY <2>1 DEF j
  <1>2. ASSUME NEW j \in P
        PROVE  \E key \in DOMAIN found.groups :
                 \E i \in DOMAIN found.groups[key].jobs : F(key, i) = E(j)
    <2>1. Group[j] \in DOMAIN found.groups
      BY <1>0 DEF IsReport
    <2>2. PICK i \in DOMAIN found.groups[Group[j]].jobs : found.groups[Group[j]].jobs[i] = j
      BY <2>1, GroupOf
    <2>3. F(Group[j], i) = E(found.groups[Group[j]].jobs[i])
      BY <1>1, <2>1
    <2>4. F(Group[j], i) = E(j)
      BY <2>2, <2>3
    <2> HIDE DEF E, F
    <2> QED
      BY <2>1, <2>4
  <1>3. Entries(found) = UNION {{F(key, i) : i \in DOMAIN found.groups[key].jobs} :
                                  key \in DOMAIN found.groups}
    BY DEF Entries
  <1>4. Entries(found) = {E(j) : j \in P}
    <2> HIDE DEF E, F, P
    <2>1. ASSUME NEW e \in Entries(found)
          PROVE  e \in {E(j) : j \in P}
      <3>1. PICK key \in DOMAIN found.groups :
              \E i \in DOMAIN found.groups[key].jobs : e = F(key, i)
        BY <1>3
      <3>2. PICK i \in DOMAIN found.groups[key].jobs : e = F(key, i)
        BY <3>1
      <3> QED
        BY <1>1, <3>2
    <2>2. ASSUME NEW j \in P
          PROVE  E(j) \in Entries(found)
      <3>1. PICK key \in DOMAIN found.groups :
              \E i \in DOMAIN found.groups[key].jobs : F(key, i) = E(j)
        BY <1>2
      <3> QED
        BY <1>3, <3>1
    <2> QED
      BY <2>1, <2>2
  <1>5. ASSUME NEW j \in P
        PROVE  /\ None \notin {Reference(logs[j], j).first, Reference(logs[j], j).sum}
               /\ Reference(logs[j], j).first.shape = Reference(logs[j], j).sum.shape
    <2>1. j \in Jobs /\ Reference(logs[j], j) # Nothing
      BY <1>0 DEF IsReport, Printed
    <2>2. logs[j] \in Seq(Lines)
      BY <2>1, JobsAre DEF ReanalysisInv, ReadersTyped
    <2> QED
      BY <2>1, <2>2, ParseIsReference
  <1> QED
    BY <1>4, <1>5

(* A command is never anywhere but in its own steps, and whatever is        *)
(* compared has both of its matrices, of one shape, for every log           *)
(* (parse_summary, reanalyze).                                              *)
THEOREM ReportTypes == Spec => []TypeOK
  <1>1. ReanalysisInv => TypeOK
    <2> SUFFICES ASSUME ReanalysisInv PROVE TypeOK
      OBVIOUS
    <2>1. ReadersTyped
      BY DEF ReanalysisInv
    <2>2. \A r \in Readers : proc[r].pc \in Pcs
      BY <2>1 DEF ReadersTyped, Proc
    <2>3. ASSUME NEW found \in Reports, NEW entry \in Entries(found)
          PROVE  /\ None \notin {entry.result.first, entry.result.sum}
                 /\ entry.result.first.shape = entry.result.sum.shape
      <3>1. PICK j \in Printed(found.jobs) :
              entry = [job |-> j, key |-> Group[j], result |-> Reference(logs[j], j)]
        BY EntriesAre
      <3>2. entry.result = Reference(logs[j], j)
        BY <3>1
      <3> QED
        BY <3>2, EntriesAre
    <2> QED
      BY <2>1, <2>2, <2>3 DEF TypeOK, ReadersTyped, Pcs
  <1> QED
    BY <1>1, Always, PTL

(* The hash a report gives for the ledger is the hash of the ledger its     *)
(* data came from, whenever the run has committed in between (reanalyze).   *)
THEOREM ReportLedger == Spec => []ReportIsOfOneLedger
  <1>1. ReanalysisInv => ReportIsOfOneLedger
    BY DEF ReanalysisInv, ReportsInv, IsReport, ReportIsOfOneLedger
  <1> QED
    BY <1>1, Always, PTL

(* A report has every case that succeeded once, with what its final attempt *)
(* printed last, or as an error, for every log (final_attempt,              *)
(* parse_summary).                                                          *)
THEOREM ReportAttempts == Spec => []FinalAttemptOnly
  <1>1. ReanalysisInv => FinalAttemptOnly
    <2> SUFFICES ASSUME ReanalysisInv, NEW found \in Reports
                 PROVE  LET printed == {j \in found.jobs : Reference(logs[j], j) # Nothing}
                        IN  /\ Entries(found) = {[job |-> j, key |-> Group[j],
                                                  result |-> Reference(logs[j], j)] : j \in printed}
                            /\ found.errors = found.jobs \ printed
      BY DEF FinalAttemptOnly
    <2>1. found.errors = found.jobs \ Printed(found.jobs)
      BY DEF ReanalysisInv, ReportsInv, IsReport
    <2>2. Printed(found.jobs) = {j \in found.jobs : Reference(logs[j], j) # Nothing}
      BY DEF Printed
    <2> QED
      BY <2>1, <2>2, EntriesAre
  <1> QED
    BY <1>1, Always, PTL

(* No result that more than half of its group agree on is an anomaly, for   *)
(* every group, order and tolerance (_modal_result, compare_results).       *)
THEOREM ReportMajority == Spec => []MajorityIsNoAnomaly
  <1>1. ReanalysisInv => MajorityIsNoAnomaly
    <2> SUFFICES ASSUME ReanalysisInv, NEW group \in Groups, NEW i \in DOMAIN group.entries,
                        2 * Cardinality({k \in DOMAIN group.entries :
                                           group.entries[k] = group.entries[i]})
                          > Len(group.entries)
                 PROVE  i \notin group.judged.anomalies
      BY DEF MajorityIsNoAnomaly
    <2>1. PICK found \in Reports : \E key \in DOMAIN found.groups : group = found.groups[key]
      BY DEF Groups
    <2>2. group.entries \in Seq(Res) /\ group.judged = Judge(group.entries)
      BY <2>1, GroupOf
    <2> QED
      BY <2>2, Majority
  <1> QED
    BY <1>1, Always, PTL

(* Where closeness is transitive, the mode of a group is one of its largest *)
(* classes and the anomalies are all the others, whatever the order         *)
(* (_modal_result).                                                         *)
THEOREM ReportClasses == Spec => []TransitiveIsClasses
  <1>1. ReanalysisInv => TransitiveIsClasses
    <2> SUFFICES ASSUME ReanalysisInv, NEW found \in Reports, NEW key \in DOMAIN found.groups,
                        Transitive(found.groups[key].entries)
                 PROVE  \E i \in DOMAIN found.groups[key].entries :
                          LET group == found.groups[key]
                          IN  /\ group.judged.anomalies =
                                   DOMAIN group.entries \ Class(group.entries, i)
                              /\ group.judged.count = Cardinality(Class(group.entries, i))
                              /\ \A k \in DOMAIN group.entries :
                                   Cardinality(Class(group.entries, k)) <= group.judged.count
      BY DEF TransitiveIsClasses, Groups
    <2> DEFINE entries == found.groups[key].entries
    <2>1. /\ entries \in Seq(Res) /\ Len(entries) > 0
          /\ found.groups[key].judged = Judge(entries)
      BY GroupOf
    <2>2. Transitive(entries)
      OBVIOUS
    <2> HIDE DEF entries
    <2>3. \E i \in DOMAIN entries :
            /\ Judge(entries).anomalies = DOMAIN entries \ Class(entries, i)
            /\ Judge(entries).count = Cardinality(Class(entries, i))
            /\ \A k \in DOMAIN entries : Cardinality(Class(entries, k)) <= Judge(entries).count
      BY <2>1, <2>2, Classes
    <2> QED
      BY <2>1, <2>3 DEF entries
  <1> QED
    BY <1>1, Always, PTL
=============================================================================
