------------------------- MODULE StoreBudgetProofs -------------------------
(***************************************************************************)
(* Proofs about the account of Store: s.used is the sum of the sizes of    *)
(* all files, and with the reservation it stays within the budget.         *)
(*                                                                         *)
(* Both are inductive together with the lease invariant of StoreProofs: a  *)
(* reader that carries out a deferred deletion credits the size it finds   *)
(* in s.pending, which PendingHeld says is still the size of the file; a   *)
(* restart counts again, and stays within the budget because the account   *)
(* was right before.                                                       *)
(***************************************************************************)
EXTENDS StoreProofs

USE DEF files, control, vars

-----------------------------------------------------------------------------
(* Sums: what SumFunction computes for a finite set of indices and natural *)
(* values is a natural number, at least every summand, which changes by    *)
(* exactly what one summand changes.                                       *)

\* The element that the sum takes from s next.
Pick(s) == CHOOSE x \in s : TRUE

\* sum adds up fun over every subset of S.
Adds(sum, fun, S) ==
    sum = [s \in SUBSET S |-> IF s = {} THEN 0 ELSE fun[Pick(s)] + sum[s \ {Pick(s)}]]

\* The recursive function inside SumFunction.
Adder(fun, S) == CHOOSE sum : Adds(sum, fun, S)

Plus(a, b) == a + b
Adding == INSTANCE FoldTheorems WITH Op <- Plus, Base <- 0, Choice <- Pick

\* SumFunction is the Adder of the whole domain.
LEMMA Unfold == ASSUME NEW fun PROVE SumFunction(fun) = Adder(fun, DOMAIN fun)[DOMAIN fun]
BY Zenon DEF SumFunction, SumFunctionOnSet, FoldFunctionOnSet, MapThenFoldSet, Adder, Adds, Pick

\* Pick chooses from the set.
LEMMA Picked == ASSUME NEW s, s # {} PROVE Pick(s) \in s
BY DEF Pick

\* An empty sum is 0.
LEMMA AddsEmpty ==
  ASSUME NEW S, NEW fun, NEW f, Adds(f, fun, S)
  PROVE  f[{}] = 0
<1> DEFINE F == [s \in SUBSET S |-> IF s = {} THEN 0 ELSE fun[Pick(s)] + f[s \ {Pick(s)}]]
<1>1. f = F
  BY DEF Adds
<1>2. {} \in SUBSET S
  OBVIOUS
<1>3. F[{}] = 0
  BY <1>2
<1> QED
  BY <1>1, <1>3, Zenon

\* The sum over s is one summand and the sum over the rest.
LEMMA AddsAt ==
  ASSUME NEW S, NEW fun, NEW f, Adds(f, fun, S), NEW s \in SUBSET S, s # {}
  PROVE  f[s] = fun[Pick(s)] + f[s \ {Pick(s)}]
<1> DEFINE F == [u \in SUBSET S |-> IF u = {} THEN 0 ELSE fun[Pick(u)] + f[u \ {Pick(u)}]]
<1>1. f = F
  BY DEF Adds
<1>2. F[s] = fun[Pick(s)] + f[s \ {Pick(s)}]
  OBVIOUS
<1> QED
  BY <1>1, <1>2, Zenon

\* A family of subsets of a finite set has a member that contains no other.
LEMMA Minimal ==
  ASSUME NEW S, IsFiniteSet(S), NEW T, T \subseteq SUBSET S, T # {}
  PROVE  \E s \in T : \A u \in T : u \subseteq s => u = s
<1>1. Adding!IsFiniteSet(S)
  BY Zenon DEF IsFiniteSet, Adding!IsFiniteSet
<1> QED
  BY <1>1, Adding!Minimal

\* The Adder adds: it is the fold of addition.
LEMMA AdderAdds ==
  ASSUME NEW S, IsFiniteSet(S), NEW fun
  PROVE  Adds(Adder(fun, S), fun, S)
<1>1. Adding!Chooses(S) /\ Adding!IsFiniteSet(S)
  <2>1. Adding!IsFiniteSet(S)
    BY Zenon DEF IsFiniteSet, Adding!IsFiniteSet
  <2> QED
    BY <2>1, Picked DEF Adding!Chooses
<1>2. Adding!Folds(Adding!Fold(fun, S), fun, S)
  BY <1>1, Adding!FoldFolds
<1>3. \A f : Adding!Folds(f, fun, S) <=> Adds(f, fun, S)
  BY Zenon DEF Adding!Folds, Adds, Plus
<1>4. \E f : Adds(f, fun, S)
  BY <1>2, <1>3, Zenon
<1> QED
  BY <1>4, Zenon DEF Adder

\* Sums of naturals are naturals.
LEMMA AdderNat ==
  ASSUME NEW S, IsFiniteSet(S), NEW fun \in [S -> Nat], NEW s \in SUBSET S
  PROVE  Adder(fun, S)[s] \in Nat
<1> DEFINE sum == Adder(fun, S)
<1>a. Adds(sum, fun, S)
  BY AdderAdds
<1> HIDE DEF sum
<1> DEFINE B == {u \in SUBSET S : sum[u] \notin Nat}
<1> SUFFICES ASSUME B # {} PROVE FALSE
  BY DEF sum
<1>1. PICK u \in B : \A v \in B : v \subseteq u => v = u
  <2>1. B \subseteq SUBSET S
    OBVIOUS
  <2> HIDE DEF B
  <2> QED
    BY <2>1, Minimal
<1>2. u \in SUBSET S /\ sum[u] \notin Nat
  OBVIOUS
<1>3. u # {}
  BY <1>a, <1>2, AddsEmpty
<1>4. Pick(u) \in u
  BY <1>3, Picked
<1>5. sum[u \ {Pick(u)}] \in Nat
  <2>1. u \ {Pick(u)} \notin B
    BY <1>1, <1>4
  <2> QED
    BY <1>2, <2>1
<1>6. sum[u] = fun[Pick(u)] + sum[u \ {Pick(u)}]
  BY <1>a, <1>2, <1>3, AddsAt
<1>7. fun[Pick(u)] \in Nat
  BY <1>2, <1>4
<1> QED
  BY <1>2, <1>5, <1>6, <1>7

\* No summand exceeds the sum.
LEMMA AdderBound ==
  ASSUME NEW S, IsFiniteSet(S), NEW fun \in [S -> Nat], NEW s \in SUBSET S, NEW d \in s
  PROVE  fun[d] <= Adder(fun, S)[s]
<1> DEFINE sum == Adder(fun, S)
<1>a. Adds(sum, fun, S)
  BY AdderAdds
<1>b. \A u \in SUBSET S : sum[u] \in Nat
  BY AdderNat
<1> HIDE DEF sum
<1> DEFINE B == {u \in SUBSET S : d \in u /\ ~(fun[d] <= sum[u])}
<1> SUFFICES ASSUME B # {} PROVE FALSE
  BY DEF sum
<1>1. PICK u \in B : \A v \in B : v \subseteq u => v = u
  <2>1. B \subseteq SUBSET S
    OBVIOUS
  <2> HIDE DEF B
  <2> QED
    BY <2>1, Minimal
<1>2. u \in SUBSET S /\ d \in u /\ ~(fun[d] <= sum[u])
  OBVIOUS
<1>4. Pick(u) \in u
  BY <1>2, Picked
<1>5. u \ {Pick(u)} \in SUBSET S /\ u \ {Pick(u)} \notin B
  BY <1>1, <1>4
<1>6. sum[u] = fun[Pick(u)] + sum[u \ {Pick(u)}]
  <2>1. u # {}
    BY <1>2
  <2> QED
    BY <1>a, <1>2, <2>1, AddsAt
<1>7. sum[u \ {Pick(u)}] \in Nat
  BY <1>b, <1>5
<1>8. fun[Pick(u)] \in Nat /\ fun[d] \in Nat
  BY <1>2, <1>4
<1>9. CASE d = Pick(u)
  BY <1>2, <1>6, <1>7, <1>8, <1>9
<1>10. CASE d # Pick(u)
  <2>1. fun[d] <= sum[u \ {Pick(u)}]
    BY <1>2, <1>5, <1>10
  <2> QED
    BY <2>1, <1>2, <1>6, <1>7, <1>8
<1> QED
  BY <1>9, <1>10

\* A sum of zeros is 0.
LEMMA AdderZero ==
  ASSUME NEW S, IsFiniteSet(S), NEW fun \in [S -> Nat], \A x \in S : fun[x] = 0,
         NEW s \in SUBSET S
  PROVE  Adder(fun, S)[s] = 0
<1> DEFINE sum == Adder(fun, S)
<1>a. Adds(sum, fun, S)
  BY AdderAdds
<1> HIDE DEF sum
<1> DEFINE B == {u \in SUBSET S : sum[u] # 0}
<1> SUFFICES ASSUME B # {} PROVE FALSE
  BY DEF sum
<1>1. PICK u \in B : \A v \in B : v \subseteq u => v = u
  <2>1. B \subseteq SUBSET S
    OBVIOUS
  <2> HIDE DEF B
  <2> QED
    BY <2>1, Minimal
<1>2. u \in SUBSET S /\ sum[u] # 0
  OBVIOUS
<1>3. u # {}
  BY <1>a, <1>2, AddsEmpty
<1>4. Pick(u) \in u
  BY <1>3, Picked
<1>5. sum[u \ {Pick(u)}] = 0
  <2>1. u \ {Pick(u)} \notin B
    BY <1>1, <1>4
  <2> QED
    BY <1>2, <2>1
<1>6. sum[u] = fun[Pick(u)] + sum[u \ {Pick(u)}]
  BY <1>a, <1>2, <1>3, AddsAt
<1>7. fun[Pick(u)] = 0
  BY <1>2, <1>4
<1> QED
  BY <1>2, <1>5, <1>6, <1>7

\* When one summand changes, the sums over the sets that hold it change by the
\* difference, and the others do not.
LEMMA AdderEdit ==
  ASSUME NEW S, IsFiniteSet(S), NEW fun \in [S -> Nat], NEW gun \in [S -> Nat], NEW d \in S,
         \A x \in S \ {d} : gun[x] = fun[x], NEW s \in SUBSET S
  PROVE  Adder(gun, S)[s] = Adder(fun, S)[s] + (IF d \in s THEN gun[d] - fun[d] ELSE 0)
<1> DEFINE f == Adder(fun, S)
           g == Adder(gun, S)
<1>a. Adds(f, fun, S) /\ Adds(g, gun, S)
  BY AdderAdds
<1>b. \A u \in SUBSET S : f[u] \in Nat /\ g[u] \in Nat
  BY AdderNat
<1> HIDE DEF f, g
<1> DEFINE B == {u \in SUBSET S : g[u] # f[u] + (IF d \in u THEN gun[d] - fun[d] ELSE 0)}
<1> SUFFICES ASSUME B # {} PROVE FALSE
  BY DEF f, g
<1>1. PICK u \in B : \A v \in B : v \subseteq u => v = u
  <2>1. B \subseteq SUBSET S
    OBVIOUS
  <2> HIDE DEF B
  <2> QED
    BY <2>1, Minimal
<1>2. u \in SUBSET S /\ g[u] # f[u] + (IF d \in u THEN gun[d] - fun[d] ELSE 0)
  OBVIOUS
<1>3. u # {}
  <2> SUFFICES ASSUME u = {} PROVE FALSE
    OBVIOUS
  <2>1. f[u] = 0
    BY <1>a, AddsEmpty
  <2>2. g[u] = 0
    BY <1>a, AddsEmpty
  <2> QED
    BY <1>2, <2>1, <2>2
<1>4. Pick(u) \in u
  BY <1>3, Picked
<1> DEFINE p == Pick(u)
           w == u \ {Pick(u)}
<1>5. w \in SUBSET S /\ w \notin B
  BY <1>1, <1>4
<1>6. g[w] = f[w] + (IF d \in w THEN gun[d] - fun[d] ELSE 0)
  BY <1>5
<1>7. f[u] = fun[p] + f[w] /\ g[u] = gun[p] + g[w]
  <2>1. f[u] = fun[p] + f[w]
    BY <1>a, <1>2, <1>3, AddsAt
  <2>2. g[u] = gun[p] + g[w]
    BY <1>a, <1>2, <1>3, AddsAt
  <2> QED
    BY <2>1, <2>2
<1>8. f[w] \in Nat /\ g[w] \in Nat
  BY <1>b, <1>5
<1>9. p \in S /\ (p # d => gun[p] = fun[p]) /\ (d \in w <=> d \in u /\ d # p)
  BY <1>2, <1>4
<1>10. d \in u \/ d # p
  BY <1>4
<1> HIDE DEF p, w, B
<1>11. fun[p] \in Nat /\ gun[p] \in Nat /\ fun[d] \in Nat /\ gun[d] \in Nat
  BY <1>9
<1>12. CASE p = d
  <2>1. g[w] = f[w]
    BY <1>6, <1>8, <1>9, <1>12
  <2>2. g[u] # f[u] + (gun[d] - fun[d])
    BY <1>2, <1>10, <1>12
  <2> QED
    BY <2>1, <2>2, <1>7, <1>8, <1>11, <1>12
<1>13. CASE p # d
  <2>1. d \in w <=> d \in u
    BY <1>9, <1>13
  <2>2. gun[p] = fun[p]
    BY <1>9, <1>13
  <2> QED
    BY <2>1, <2>2, <1>2, <1>6, <1>7, <1>8, <1>11
<1> QED
  BY <1>12, <1>13

\* SumFunction of natural values is a natural number and bounds each of them.
LEMMA SumNat ==
  ASSUME NEW S, IsFiniteSet(S), NEW fun \in [S -> Nat]
  PROVE  SumFunction(fun) \in Nat /\ \A d \in S : fun[d] <= SumFunction(fun)
<1>1. DOMAIN fun = S /\ S \in SUBSET S
  OBVIOUS
<1>2. SumFunction(fun) = Adder(fun, S)[S]
  BY <1>1, Unfold
<1>3. Adder(fun, S)[S] \in Nat
  BY <1>1, AdderNat
<1>4. \A d \in S : fun[d] <= Adder(fun, S)[S]
  BY <1>1, AdderBound
<1> QED
  BY <1>2, <1>3, <1>4

\* SumFunction of zeros is 0.
LEMMA SumZero ==
  ASSUME NEW S, IsFiniteSet(S), NEW fun \in [S -> Nat], \A x \in S : fun[x] = 0
  PROVE  SumFunction(fun) = 0
<1>1. DOMAIN fun = S /\ S \in SUBSET S
  OBVIOUS
<1>2. SumFunction(fun) = Adder(fun, S)[S]
  BY <1>1, Unfold
<1> QED
  BY <1>1, <1>2, AdderZero

\* SumFunction follows a change of one summand.
LEMMA SumEdit ==
  ASSUME NEW S, IsFiniteSet(S), NEW fun \in [S -> Nat], NEW gun \in [S -> Nat], NEW d \in S,
         \A x \in S \ {d} : gun[x] = fun[x]
  PROVE  SumFunction(gun) = SumFunction(fun) + gun[d] - fun[d]
<1>1. DOMAIN fun = S /\ DOMAIN gun = S /\ S \in SUBSET S
  OBVIOUS
<1>2. SumFunction(fun) = Adder(fun, S)[S]
  BY <1>1, Unfold
<1>3. SumFunction(gun) = Adder(gun, S)[S]
  BY <1>1, Unfold
<1>4. Adder(gun, S)[S] = Adder(fun, S)[S] + (IF d \in S THEN gun[d] - fun[d] ELSE 0)
  BY <1>1, AdderEdit
<1>5. Adder(fun, S)[S] \in Nat /\ fun[d] \in Nat /\ gun[d] \in Nat
  BY <1>1, AdderNat
<1> QED
  BY <1>2, <1>3, <1>4, <1>5

-----------------------------------------------------------------------------
(* The account.                                                            *)

\* The sum of the sizes sz.
TotalOf(sz) == SumFunction([d \in Dirs |-> SumFunction([k \in Kinds |-> Bytes(sz[d][k])])])

\* The bytes in each directory.
HeldIn(sz) == [d \in Dirs |-> SumFunction([k \in Kinds |-> Bytes(sz[d][k])])]

\* Kinds is finite.
LEMMA KindsFinite == IsFiniteSet(Kinds)
<1>1. Kinds = {"meta"} \cup {"stray"} \cup {"data"} \cup {"part"} \cup {"result"}
  BY DEF Kinds
<1> QED
  BY <1>1, FS_Singleton, FS_Union

\* Total is TotalOf the sizes, before and after a step.
LEMMA TotalIs == Total = TotalOf(size) /\ Total' = TotalOf(size')
BY DEF Total, TotalOf, Bytes

\* The bytes of one directory, as a sum of naturals.
LEMMA HeldNat ==
    ASSUME NEW sz \in Sizes, NEW d \in Dirs
    PROVE  /\ [k \in Kinds |-> Bytes(sz[d][k])] \in [Kinds -> Nat]
           /\ HeldIn(sz)[d] = SumFunction([k \in Kinds |-> Bytes(sz[d][k])])
           /\ HeldIn(sz)[d] \in Nat
           /\ \A k \in Kinds : Bytes(sz[d][k]) <= HeldIn(sz)[d]
<1> DEFINE f == [k \in Kinds |-> Bytes(sz[d][k])]
<1>1. f \in [Kinds -> Nat]
  <2>1. \A k \in Kinds : Bytes(sz[d][k]) \in Nat
    BY DEF Sizes, Bytes, NoFile
  <2> QED
    BY <2>1
<1>2. HeldIn(sz)[d] = SumFunction(f)
  BY DEF HeldIn
<1>3. \A k \in Kinds : f[k] = Bytes(sz[d][k])
  OBVIOUS
<1> HIDE DEF f
<1>4. SumFunction(f) \in Nat /\ \A k \in Kinds : f[k] <= SumFunction(f)
  BY <1>1, KindsFinite, SumNat
<1> QED
  BY <1>1, <1>2, <1>3, <1>4 DEF f

\* The sum of all sizes is a natural number and at least each of them.
LEMMA TotalNat ==
    ASSUME NEW sz \in Sizes
    PROVE  /\ TotalOf(sz) \in Nat
           /\ \A d \in Dirs, k \in Kinds : Bytes(sz[d][k]) <= TotalOf(sz)
<1>1. HeldIn(sz) \in [Dirs -> Nat]
  <2>1. \A d \in Dirs : HeldIn(sz)[d] \in Nat
    BY HeldNat
  <2>2. HeldIn(sz) = [d \in Dirs |-> HeldIn(sz)[d]]
    BY DEF HeldIn
  <2> QED
    BY <2>1, <2>2
<1>2. TotalOf(sz) = SumFunction(HeldIn(sz))
  BY DEF TotalOf, HeldIn
<1>3. SumFunction(HeldIn(sz)) \in Nat /\ \A d \in Dirs : HeldIn(sz)[d] <= SumFunction(HeldIn(sz))
  BY <1>1, StoreAssumption, SumNat
<1>4. ASSUME NEW d \in Dirs, NEW k \in Kinds PROVE Bytes(sz[d][k]) <= TotalOf(sz)
  <2>1. Bytes(sz[d][k]) <= HeldIn(sz)[d] /\ HeldIn(sz)[d] \in Nat
    BY HeldNat
  <2>2. Bytes(sz[d][k]) \in Nat
    BY DEF Sizes, Bytes, NoFile
  <2> QED
    BY <1>2, <1>3, <2>1, <2>2
<1> QED
  BY <1>2, <1>3, <1>4

\* When one file changes, the sum follows.
LEMMA TotalEdit ==
    ASSUME NEW sz \in Sizes, NEW ns \in Sizes, NEW d \in Dirs, NEW k \in Kinds,
           \A e \in Dirs \ {d} : ns[e] = sz[e],
           \A j \in Kinds \ {k} : ns[d][j] = sz[d][j]
    PROVE  TotalOf(ns) = TotalOf(sz) + Bytes(ns[d][k]) - Bytes(sz[d][k])
<1> DEFINE f == [j \in Kinds |-> Bytes(sz[d][j])]
           g == [j \in Kinds |-> Bytes(ns[d][j])]
<1>1. f \in [Kinds -> Nat] /\ g \in [Kinds -> Nat]
  BY HeldNat
<1>2. HeldIn(sz)[d] = SumFunction(f) /\ HeldIn(ns)[d] = SumFunction(g)
  BY HeldNat
<1>3. \A j \in Kinds \ {k} : g[j] = f[j]
  OBVIOUS
<1>4. f[k] = Bytes(sz[d][k]) /\ g[k] = Bytes(ns[d][k])
  OBVIOUS
<1> HIDE DEF f, g
<1>5. SumFunction(g) = SumFunction(f) + g[k] - f[k]
  BY <1>1, <1>3, KindsFinite, SumEdit
<1>6. HeldIn(sz) \in [Dirs -> Nat] /\ HeldIn(ns) \in [Dirs -> Nat]
  <2>1. \A e \in Dirs : HeldIn(sz)[e] \in Nat /\ HeldIn(ns)[e] \in Nat
    BY HeldNat
  <2>2. HeldIn(sz) = [e \in Dirs |-> HeldIn(sz)[e]] /\ HeldIn(ns) = [e \in Dirs |-> HeldIn(ns)[e]]
    BY DEF HeldIn
  <2> QED
    BY <2>1, <2>2
<1>7. \A e \in Dirs \ {d} : HeldIn(ns)[e] = HeldIn(sz)[e]
  BY DEF HeldIn
<1>8. SumFunction(HeldIn(ns)) = SumFunction(HeldIn(sz)) + HeldIn(ns)[d] - HeldIn(sz)[d]
  BY <1>6, <1>7, StoreAssumption, SumEdit
<1>9. TotalOf(sz) = SumFunction(HeldIn(sz)) /\ TotalOf(ns) = SumFunction(HeldIn(ns))
  BY DEF TotalOf, HeldIn
<1>10. SumFunction(HeldIn(sz)) \in Nat
  BY <1>9, TotalNat
<1>11. SumFunction(f) \in Nat /\ f[k] \in Nat /\ g[k] \in Nat
  BY <1>1, <1>2, HeldNat
<1> QED
  BY <1>2, <1>4, <1>5, <1>8, <1>9, <1>10, <1>11

-----------------------------------------------------------------------------
(* The account.                                                            *)

BInv == SInv /\ Accounted /\ WithinBudget

\* The account is a natural number that covers every file.
LEMMA AccountBounds ==
    ASSUME TypeOK, Accounted
    PROVE  /\ used \in Nat
           /\ \A d \in Dirs, k \in Kinds : Bytes(size[d][k]) \in Nat /\ Bytes(size[d][k]) <= used
<1>1. size \in Sizes
  BY DEF TypeOK
<1>2. used = TotalOf(size)
  BY TotalIs DEF Accounted
<1>3. \A d \in Dirs, k \in Kinds : Bytes(size[d][k]) \in Nat
  BY SizeEdits
<1> QED
  BY <1>1, <1>2, <1>3, TotalNat

\* A step that changes one file and books the difference keeps the account.
LEMMA Booked ==
    ASSUME TypeOK, Accounted, NEW d \in Dirs, NEW k \in Kinds, NEW n \in Nat \cup {NoFile},
           size' = [size EXCEPT ![d][k] = n],
           used' = used + Bytes(n) - Bytes(size[d][k])
    PROVE  Accounted'
<1>1. size \in Sizes /\ size' \in Sizes
  <2>1. [size EXCEPT ![d][k] = n] \in Sizes
    BY SizeEdits
  <2> QED
    BY <2>1 DEF TypeOK
<1>2. size'[d][k] = n
  BY <1>1 DEF Sizes
<1>3. \A e \in Dirs \ {d} : size'[e] = size[e]
  BY <1>1 DEF Sizes
<1>4. \A j \in Kinds \ {k} : size'[d][j] = size[d][j]
  BY <1>1 DEF Sizes
<1>5. TotalOf(size') = TotalOf(size) + Bytes(size'[d][k]) - Bytes(size[d][k])
  BY <1>1, <1>3, <1>4, TotalEdit
<1> QED
  BY <1>2, <1>5, TotalIs DEF Accounted

\* Publish replaces one file by another: two changes of one file each.
LEMMA BookedSwap ==
    ASSUME TypeOK, Accounted, NEW d \in Dirs,
           size' = [size EXCEPT ![d] = [@ EXCEPT !["result"] = size[d]["part"], !["part"] = NoFile]],
           used' = used - Bytes(size[d]["result"])
    PROVE  Accounted'
<1> DEFINE mid == [size EXCEPT ![d]["result"] = size[d]["part"]]
<1>1. size \in Sizes /\ "result" \in Kinds /\ "part" \in Kinds /\ "result" # "part"
  BY DEF TypeOK, Kinds
<1>2. size[d]["part"] \in Nat \cup {NoFile} /\ NoFile \in Nat \cup {NoFile}
  BY <1>1 DEF Sizes
<1>3. mid \in Sizes
  BY <1>1, <1>2, SizeEdits
<1>4. /\ mid[d]["result"] = size[d]["part"]
      /\ \A e \in Dirs \ {d} : mid[e] = size[e]
      /\ \A j \in Kinds \ {"result"} : mid[d][j] = size[d][j]
  BY <1>1 DEF Sizes
<1>5. size' = [mid EXCEPT ![d]["part"] = NoFile]
  BY <1>1 DEF Sizes
<1> HIDE DEF mid
<1>6. size' \in Sizes
  <2>1. mid[d] \in [Kinds -> Nat \cup {NoFile}]
    BY <1>3 DEF Sizes
  <2>2. [mid[d] EXCEPT !["part"] = NoFile] \in [Kinds -> Nat \cup {NoFile}]
    BY <2>1
  <2> QED
    BY <1>3, <1>5, <2>2 DEF Sizes
<1>7. /\ size'[d]["part"] = NoFile
      /\ \A e \in Dirs \ {d} : size'[e] = mid[e]
      /\ \A j \in Kinds \ {"part"} : size'[d][j] = mid[d][j]
  BY <1>1, <1>3, <1>5 DEF Sizes
<1>8. TotalOf(mid) = TotalOf(size) + Bytes(mid[d]["result"]) - Bytes(size[d]["result"])
  BY <1>1, <1>3, <1>4, TotalEdit
<1>9. TotalOf(size') = TotalOf(mid) + Bytes(size'[d]["part"]) - Bytes(mid[d]["part"])
  <2>1. "part" \in Kinds
    BY <1>1
  <2> QED
    BY <1>3, <1>6, <1>7, <2>1, TotalEdit
<1>10. /\ TotalOf(size) \in Nat /\ TotalOf(mid) \in Nat
       /\ Bytes(size[d]["part"]) \in Nat /\ Bytes(size[d]["result"]) \in Nat
  BY <1>1, <1>3, TotalNat, SizeEdits
<1>11. Bytes(NoFile) = 0 /\ mid[d]["part"] = size[d]["part"]
  BY <1>1, <1>4 DEF Bytes
<1>12. used = TotalOf(size) /\ (Accounted' <=> used' = TotalOf(size'))
  BY TotalIs DEF Accounted
<1> QED
  BY <1>4, <1>7, <1>8, <1>9, <1>10, <1>11, <1>12

\* Remove books what it takes away, and nothing when it only marks the file.
LEMMA BookedRemove ==
    ASSUME TypeOK, Accounted, NEW d \in Dirs, NEW k \in Kinds, Remove(d, k)
    PROVE  Accounted'
<1>1. CASE UNCHANGED <<size, used>>
  BY <1>1, TotalIs DEF Accounted
<1>2. CASE size' = [size EXCEPT ![d][k] = NoFile] /\ used' = used - Bytes(size[d][k])
  <2>1. used \in Nat /\ Bytes(size[d][k]) \in Nat /\ Bytes(NoFile) = 0
    BY AccountBounds DEF Bytes
  <2>2. used' = used + Bytes(NoFile) - Bytes(size[d][k])
    BY <1>2, <2>1
  <2> QED
    BY <1>2, <2>2, Booked
<1> QED
  BY <1>1, <1>2 DEF Remove

\* No step loses or invents a byte.
LEMMA AccountStep ==
    ASSUME BInv, [Next]_vars
    PROVE  Accounted'
<1> USE StoreAssumption
<1>inv. TypeOK /\ Accounted /\ PendingHeld /\ Owned
  BY DEF BInv, SInv
<1>kinds. {"meta", "stray", "data", "part", "result"} \subseteq Kinds
  BY DEF Kinds
<1>nat. /\ used \in Nat
        /\ \A d \in Dirs, k \in Kinds : Bytes(size[d][k]) \in Nat
        /\ \A n \in Nat : Bytes(n) = n /\ n \in Nat \cup {NoFile}
        /\ Bytes(NoFile) = 0 /\ NoFile \in Nat \cup {NoFile}
  BY <1>inv, AccountBounds DEF Bytes, NoFile
<1>same. ASSUME UNCHANGED <<size, used>> PROVE Accounted'
  BY <1>inv, <1>same, TotalIs DEF Accounted
<1>1. ASSUME NEW d \in Dirs, NEW n \in 1..MaxLen, Create(d, n) PROVE Accounted'
  <2>1. n \in Nat
    OBVIOUS
  <2>2. size[d]["meta"] = NoFile
    <3>1. dirs[d] # "live"
      BY <1>1 DEF Create
    <3>2. Present(d) = {}
      BY <1>inv, <3>1 DEF Owned
    <3> QED
      BY <1>kinds, <3>2 DEF Present
  <2>3. used' = used + Bytes(n) - Bytes(size[d]["meta"])
    BY <1>1, <1>nat, <2>1, <2>2 DEF Create
  <2>4. size' = [size EXCEPT ![d]["meta"] = n]
    BY <1>1 DEF Create
  <2> QED
    BY <1>inv, <1>kinds, <1>nat, <2>1, <2>3, <2>4, Booked
<1>2. ASSUME NEW d \in Dirs, NEW n \in 1..MaxLen, Atomic(d, n) PROVE Accounted'
  <2>1. n \in Nat
    OBVIOUS
  <2>2. used' = used + Bytes(n) - Bytes(size[d]["meta"]) /\ size' = [size EXCEPT ![d]["meta"] = n]
    BY <1>2, <1>nat, <2>1 DEF Atomic
  <2> QED
    BY <1>inv, <1>kinds, <1>nat, <2>1, <2>2, Booked
<1>3. ASSUME NEW d \in Dirs, NEW k \in Kinds, NEW w \in Nat,
             size' = [size EXCEPT ![d][k] = Bytes(@) + w], used' = used + w
      PROVE  Accounted'
  <2> DEFINE n == Bytes(size[d][k]) + w
  <2>1. n \in Nat /\ Bytes(size[d][k]) \in Nat
    BY <1>nat
  <2>2. Bytes(n) = n
    BY <1>nat, <2>1
  <2>3. used' = used + Bytes(n) - Bytes(size[d][k])
    BY <1>3, <1>nat, <2>1, <2>2
  <2>4. size' = [size EXCEPT ![d][k] = n]
    BY <1>3
  <2> HIDE DEF n
  <2> QED
    BY <1>inv, <2>1, <2>3, <2>4, Booked
<1>4. ASSUME NEW d \in Dirs, NEW n \in 1..MaxLen, AtomicFail(d, n) PROVE Accounted'
  <2>1. n \in Nat
    OBVIOUS
  <2> QED
    BY <1>3, <1>4, <1>kinds, <2>1 DEF AtomicFail
<1>5. ASSUME NEW d \in Dirs, AppendData(d) \/ AppendPart(d) PROVE Accounted'
  <2>1. PICK k \in Kinds : \E mode \in {"plain", "capture", "consume"}, n \in 1..MaxLen :
          \E w \in 0..n : Append(d, k, mode, n, w)
    BY <1>5, <1>kinds DEF AppendData, AppendPart
  <2>2. PICK mode \in {"plain", "capture", "consume"}, n \in 1..MaxLen :
          \E w \in 0..n : Append(d, k, mode, n, w)
    BY <2>1
  <2>3. PICK w \in 0..n : Append(d, k, mode, n, w)
    BY <2>2
  <2>4. w \in Nat
    OBVIOUS
  <2> QED
    BY <1>3, <2>3, <2>4 DEF Append
<1>6. ASSUME NEW d \in Dirs, Publish(d) PROVE Accounted'
  <2>1. CASE size' = [size EXCEPT ![d] = [@ EXCEPT !["result"] = size[d]["part"],
                                                   !["part"] = NoFile]]
    BY <1>6, <1>inv, <2>1, BookedSwap DEF Publish
  <2>2. CASE size' = [size EXCEPT ![d]["result"] = NoFile]
    <3>1. used' = used + Bytes(NoFile) - Bytes(size[d]["result"])
      BY <1>6, <1>nat, <1>kinds DEF Publish
    <3> QED
      BY <1>inv, <1>kinds, <1>nat, <2>2, <3>1, Booked
  <2> QED
    BY <1>6, <2>1, <2>2 DEF Publish
<1>7. ASSUME NEW d \in Dirs, DropPart(d) PROVE Accounted'
  BY <1>7, <1>inv, <1>kinds, BookedRemove DEF DropPart
<1>8. ASSUME NEW t \in Threads, RmFile(t) PROVE Accounted'
  <2>1. CASE UNCHANGED <<size, used>>
    BY <1>same, <2>1
  <2>2. CASE \E k \in rm[t].todo : Remove(rm[t].dir, k)
    <3>1. PICK k \in rm[t].todo : Remove(rm[t].dir, k)
      BY <2>2
    <3>2. k \in Kinds
      BY <1>inv, <3>1 DEF TypeOK, Removals
    <3>3. rm[t].dir \in Dirs
      BY <1>8, <1>inv DEF Owned, RmFile
    <3> QED
      BY <1>inv, <3>1, <3>2, <3>3, BookedRemove
  <2> QED
    BY <1>8, <2>1, <2>2 DEF RmFile
<1>9. ASSUME NEW r \in Readers, FileClose(r) PROVE Accounted'
  <2>1. handle[r].dir \in Dirs
    BY <1>9, <1>inv DEF Owned, FileClose
  <2>2. CASE UNCHANGED <<size, used>>
    BY <1>same, <2>2
  <2>3. CASE /\ pending[handle[r].dir] # NoFile
             /\ size' = [size EXCEPT ![handle[r].dir]["result"] = NoFile]
             /\ used' = used - pending[handle[r].dir]
    <3> DEFINE d == handle[r].dir
    <3>1. pending[d] = size[d]["result"] /\ size[d]["result"] # NoFile
      BY <1>inv, <2>1, <2>3 DEF PendingHeld
    <3>2. pending[d] = Bytes(size[d]["result"])
      BY <3>1 DEF Bytes
    <3>3. used' = used + Bytes(NoFile) - Bytes(size[d]["result"])
      BY <1>nat, <1>kinds, <2>1, <2>3, <3>2
    <3>4. size' = [size EXCEPT ![d]["result"] = NoFile] /\ d \in Dirs
      BY <2>1, <2>3
    <3> HIDE DEF d
    <3> QED
      BY <1>inv, <1>kinds, <1>nat, <3>3, <3>4, Booked
  <2> QED
    BY <1>9, <2>2, <2>3 DEF FileClose
<1>10. ASSUME Restart PROVE Accounted'
  <2>1. used' = Total /\ size' = size
    BY <1>10 DEF Restart
  <2> QED
    BY <2>1, TotalIs DEF Accounted
<1>11. ASSUME \/ BeginCapture \/ EndCapture \/ TrimEnd \/ UploadLease \/ UNCHANGED vars
              \/ \E d \in Dirs : SweepTask(d) \/ SweepResult(d) \/ UploadPick(d)
              \/ \E t \in Threads : RmScan(t) \/ RmList(t) \/ RmDir(t)
              \/ \E r \in Downloads, d \in Dirs : DownloadLease(r, d)
       PROVE  Accounted'
  <2>1. UNCHANGED <<size, used>>
    BY <1>11 DEF BeginCapture, EndCapture, TrimEnd, UploadLease, Lease, SweepTask, SweepResult,
                 UploadPick, RmScan, RmList, RmDir, DownloadLease
  <2> QED
    BY <1>same, <2>1
<1> QED
  BY <1>1, <1>2, <1>4, <1>5, <1>6, <1>7, <1>8, <1>9, <1>10, <1>11
     DEF Next, Write, RmStep

\* No step exceeds the budget. A write is admitted only with what it leaves
\* reserved; every other step gives bytes or the reservation back.
LEMMA BudgetStep ==
    ASSUME BInv, [Next]_vars
    PROVE  WithinBudget'
<1> USE StoreAssumption
<1>inv. TypeOK /\ Accounted /\ WithinBudget /\ PendingHeld /\ Owned
  BY DEF BInv, SInv
<1>kinds. {"meta", "part", "result"} \subseteq Kinds
  BY DEF Kinds
<1>nat. /\ used \in Nat /\ reserve \in Nat
        /\ \A d \in Dirs, k \in Kinds : Bytes(size[d][k]) \in Nat
  BY <1>inv, AccountBounds DEF TypeOK
<1>less. ASSUME \/ used' = used
                \/ \E d \in Dirs, k \in Kinds : used' = used - Bytes(size[d][k]),
                reserve' = reserve
         PROVE  WithinBudget'
  BY <1>less, <1>inv, <1>nat DEF WithinBudget
<1>1. ASSUME BeginCapture PROVE WithinBudget'
  BY <1>1, <1>nat DEF BeginCapture, Fits, WithinBudget
<1>2. ASSUME EndCapture PROVE WithinBudget'
  BY <1>2, <1>inv, <1>nat DEF EndCapture, WithinBudget
<1>3. ASSUME NEW d \in Dirs, NEW n \in 1..MaxLen, Create(d, n) \/ AtomicFail(d, n)
      PROVE  WithinBudget'
  <2>1. used' = used + n /\ reserve' = reserve /\ used + n + reserve <= MaxBytes
    BY <1>3 DEF Create, AtomicFail, Fits
  <2> QED
    BY <1>nat, <2>1 DEF WithinBudget
<1>4. ASSUME NEW d \in Dirs, NEW n \in 1..MaxLen, Atomic(d, n) PROVE WithinBudget'
  <2>1. used' = used + n - Bytes(size[d]["meta"]) /\ reserve' = reserve
    BY <1>4 DEF Atomic
  <2>2. used + n + reserve <= MaxBytes
    BY <1>4 DEF Atomic, Fits
  <2>3. Bytes(size[d]["meta"]) \in Nat /\ n \in Nat
    BY <1>nat, <1>kinds
  <2> QED
    BY <1>nat, <2>1, <2>2, <2>3 DEF WithinBudget
<1>5. ASSUME NEW d \in Dirs, AppendData(d) \/ AppendPart(d) PROVE WithinBudget'
  <2>1. PICK k : \E mode \in {"plain", "capture", "consume"}, n \in 1..MaxLen :
          \E w \in 0..n : Append(d, k, mode, n, w)
    BY <1>5 DEF AppendData, AppendPart
  <2>2. PICK mode \in {"plain", "capture", "consume"}, n \in 1..MaxLen :
          \E w \in 0..n : Append(d, k, mode, n, w)
    BY <2>1
  <2>3. PICK w \in 0..n : Append(d, k, mode, n, w)
    BY <2>2
  <2>4. /\ used' = used + w /\ reserve' = Reservation(mode, n)
        /\ used + n + (Reservation(mode, n) + MetadataReserve) <= MaxBytes
    BY <2>3 DEF Append, Fits
  <2>5. Reservation(mode, n) \in Nat
    BY <1>nat DEF Reservation
  <2> QED
    BY <1>nat, <2>4, <2>5 DEF WithinBudget
<1>6. ASSUME NEW d \in Dirs, Publish(d) \/ DropPart(d) PROVE WithinBudget'
  BY <1>6, <1>less, <1>kinds DEF Publish, DropPart, Remove
<1>7. ASSUME NEW t \in Threads, RmFile(t) PROVE WithinBudget'
  <2>1. rm[t].dir \in Dirs /\ rm[t].todo \subseteq Kinds
    BY <1>7, <1>inv DEF Owned, RmFile, TypeOK, Removals
  <2>2. reserve' = reserve
    BY <1>7 DEF RmFile
  <2>3. used' = used \/ \E k \in Kinds : used' = used - Bytes(size[rm[t].dir][k])
    BY <1>7, <2>1 DEF RmFile, Remove
  <2> QED
    BY <1>less, <2>1, <2>2, <2>3
<1>8. ASSUME NEW r \in Readers, FileClose(r) PROVE WithinBudget'
  <2>1. handle[r].dir \in Dirs
    BY <1>8, <1>inv DEF Owned, FileClose
  <2>2. reserve' = reserve
    BY <1>8 DEF FileClose
  <2>3. \/ used' = used
        \/ pending[handle[r].dir] # NoFile /\ used' = used - pending[handle[r].dir]
    BY <1>8 DEF FileClose
  <2>4. pending[handle[r].dir] # NoFile =>
          pending[handle[r].dir] = Bytes(size[handle[r].dir]["result"])
    BY <1>inv, <2>1 DEF PendingHeld, Bytes
  <2> QED
    BY <1>less, <1>kinds, <2>1, <2>2, <2>3, <2>4
<1>9. ASSUME Restart PROVE WithinBudget'
  BY <1>9, <1>inv, <1>nat DEF Restart, Accounted, WithinBudget
<1>10. ASSUME \/ TrimEnd \/ UploadLease \/ UNCHANGED vars
              \/ \E d \in Dirs : SweepTask(d) \/ SweepResult(d) \/ UploadPick(d)
              \/ \E t \in Threads : RmScan(t) \/ RmList(t) \/ RmDir(t)
              \/ \E r \in Downloads, d \in Dirs : DownloadLease(r, d)
       PROVE  WithinBudget'
  <2>1. UNCHANGED <<used, reserve>>
    BY <1>10 DEF TrimEnd, UploadLease, Lease, SweepTask, SweepResult,
                 UploadPick, RmScan, RmList, RmDir, DownloadLease
  <2> QED
    BY <1>less, <2>1
<1> QED
  BY <1>1, <1>2, <1>3, <1>4, <1>5, <1>6, <1>7, <1>8, <1>9, <1>10
     DEF Next, Write, RmStep

\* An empty store has an empty account.
LEMMA BudgetInit == Init => BInv
<1> SUFFICES ASSUME Init PROVE BInv
  OBVIOUS
<1>1. SInv
  BY InitInv
<1>2. size \in Sizes
  BY <1>1 DEF SInv, TypeOK
<1>3. \A d \in Dirs, k \in Kinds : Bytes(size[d][k]) = 0
  BY DEF Init, Bytes
<1>4. \A d \in Dirs : HeldIn(size)[d] = 0
  <2> SUFFICES ASSUME NEW d \in Dirs PROVE HeldIn(size)[d] = 0
    OBVIOUS
  <2> DEFINE f == [k \in Kinds |-> Bytes(size[d][k])]
  <2>1. f \in [Kinds -> Nat] /\ HeldIn(size)[d] = SumFunction(f)
    BY <1>2, HeldNat
  <2>2. \A k \in Kinds : f[k] = 0
    BY <1>3
  <2> HIDE DEF f
  <2> QED
    BY <2>1, <2>2, KindsFinite, SumZero
<1>5. HeldIn(size) \in [Dirs -> Nat]
  <2>1. HeldIn(size) = [d \in Dirs |-> HeldIn(size)[d]]
    BY DEF HeldIn
  <2> QED
    BY <1>4, <2>1
<1>6. SumFunction(HeldIn(size)) = 0
  BY <1>4, <1>5, StoreAssumption, SumZero
<1>7. Total = 0
  BY <1>6, TotalIs DEF TotalOf, HeldIn
<1>8. used = 0 /\ reserve = 0
  BY DEF Init
<1> QED
  BY <1>1, <1>7, <1>8, StoreAssumption DEF BInv, Accounted, WithinBudget

-----------------------------------------------------------------------------
(* The theorems.                                                           *)

\* The account is right and within the budget in every reachable state.
THEOREM BudgetInvariant == Spec => []BInv
<1>1. BInv /\ [Next]_vars => BInv'
  <2>1. BInv /\ [Next]_vars => SInv'
    BY TypeStep, LeaseStep, OwnStep DEF BInv, SInv
  <2> QED
    BY <2>1, AccountStep, BudgetStep DEF BInv
<1> QED
  BY BudgetInit, <1>1, PTL DEF Spec

\* s.used is what the files on disk add up to, through short writes, failed
\* renames, deferred and concurrent deletions, and restarts.
THEOREM EveryByteAccounted == Spec => []Accounted
<1>1. BInv => Accounted
  BY DEF BInv
<1> QED
  BY BudgetInvariant, <1>1, PTL

\* The files and the reservation for the package never exceed
\* storage.max_bytes.
THEOREM BudgetKept == Spec => []WithinBudget
<1>1. BInv => WithinBudget
  BY DEF BInv
<1> QED
  BY BudgetInvariant, <1>1, PTL
=============================================================================
