--------------------------- MODULE FoldTheorems ----------------------------
(***************************************************************************)
(* What MapThenFoldSet of the community modules computes on a finite set,  *)
(* for an operation Op, a start Base and a choice of the next element.     *)
(* SumFunction (StoreBudgetProofs) and FoldLeft (CollectProofs) are        *)
(* instances.                                                              *)
(*                                                                         *)
(* A fold is a recursive function on the subsets of its domain. The lemmas *)
(* show that such a function exists (FoldFolds) and that it depends on the *)
(* values of its domain only (FoldsUnique). Induction over the subsets is  *)
(* used in its first-order form: a set of counterexamples that is not      *)
(* empty has a smallest one (Minimal).                                     *)
(***************************************************************************)
EXTENDS FiniteSets, FiniteSetTheorems, TLAPS

CONSTANTS
    Op(_, _),    \* combines a value with what was folded so far
    Base,        \* the fold of nothing
    Choice(_)    \* the element that is taken from a set next

\* f is the fold of the values fun over every subset of S.
Folds(f, fun, S) ==
    f = [s \in SUBSET S |-> IF s = {} THEN Base ELSE Op(fun[Choice(s)], f[s \ {Choice(s)}])]

\* The recursive function inside MapThenFoldSet.
Fold(fun, S) == CHOOSE f : Folds(f, fun, S)

\* Choice takes an element of every subset of S that has one.
Chooses(S) == \A s \in SUBSET S : s # {} => Choice(s) \in s

\* A family of subsets of a finite set has a member that contains no other.
LEMMA Minimal ==
  ASSUME NEW S, IsFiniteSet(S), NEW T, T \subseteq SUBSET S, T # {}
  PROVE  \E s \in T : \A u \in T : u \subseteq s => u = s
<1>1. T \subseteq FiniteSubsetsOf(S)
  BY FS_Subset DEF FiniteSubsetsOf
<1>2. IsWellFoundedOn(StrictSubsetOrdering(S), FiniteSubsetsOf(S))
  BY FS_StrictSubsetOrderingWellFounded
<1>3. PICK s \in T : \A y \in T : ~ (<<y, s>> \in StrictSubsetOrdering(S))
  BY <1>1, <1>2, WFMin
<1>4. \A u \in T : u \subseteq s /\ u # s => <<u, s>> \in StrictSubsetOrdering(S)
  BY DEF StrictSubsetOrdering
<1>5. \A u \in T : u \subseteq s => u = s
  BY <1>3, <1>4
<1> QED
  BY <1>5, Zenon

\* The fold of nothing.
LEMMA FoldsEmpty ==
  ASSUME NEW S, NEW fun, NEW f, Folds(f, fun, S)
  PROVE  f[{}] = Base
<1> DEFINE F == [s \in SUBSET S |-> IF s = {} THEN Base ELSE Op(fun[Choice(s)], f[s \ {Choice(s)}])]
<1>1. f = F
  BY DEF Folds
<1>2. {} \in SUBSET S
  OBVIOUS
<1>3. F[{}] = Base
  BY <1>2
<1> QED
  BY <1>1, <1>3, Zenon

\* The fold over s combines one value with the fold over the rest.
LEMMA FoldsAt ==
  ASSUME NEW Q, NEW val, NEW h, Folds(h, val, Q), NEW q, q \subseteq Q, q # {}
  PROVE  h[q] = Op(val[Choice(q)], h[q \ {Choice(q)}])
<1> DEFINE H == [u \in SUBSET Q |-> IF u = {} THEN Base ELSE Op(val[Choice(u)], h[u \ {Choice(u)}])]
<1>1. h = H
  BY DEF Folds
<1>2. H[q] = Op(val[Choice(q)], h[q \ {Choice(q)}])
  OBVIOUS
<1> QED
  BY <1>1, <1>2, Zenon

\* Folds of values that agree on R agree on the subsets of R.
LEMMA FoldsUnique ==
  ASSUME NEW Q, IsFiniteSet(Q), NEW R, R \subseteq Q, Chooses(R),
         NEW val, NEW gun, \A x \in R : val[x] = gun[x],
         NEW h, NEW g, Folds(h, val, Q), Folds(g, gun, R)
  PROVE  \A s \in SUBSET R : h[s] = g[s]
<1>a. ASSUME NEW q, q \subseteq Q, q # {}
      PROVE  h[q] = Op(val[Choice(q)], h[q \ {Choice(q)}])
  BY ONLY <1>a, Folds(h, val, Q), FoldsAt
<1>b. ASSUME NEW q, q \subseteq R, q # {}
      PROVE  g[q] = Op(gun[Choice(q)], g[q \ {Choice(q)}])
  BY ONLY <1>b, Folds(g, gun, R), FoldsAt
<1> DEFINE B == {s \in SUBSET R : h[s] # g[s]}
<1> SUFFICES ASSUME B # {} PROVE FALSE
  OBVIOUS
<1>1. PICK s \in B : \A u \in B : u \subseteq s => u = s
  <2>1. B \subseteq SUBSET Q
    OBVIOUS
  <2> HIDE DEF B
  <2> QED
    BY <2>1, Minimal
<1>2. s \in SUBSET R /\ s \in SUBSET Q /\ h[s] # g[s]
  OBVIOUS
<1>3. s # {}
  BY <1>2, FoldsEmpty
<1>4. Choice(s) \in s
  BY <1>2, <1>3 DEF Chooses
<1>5. s \ {Choice(s)} \notin B
  BY <1>1, <1>4
<1>6. h[s \ {Choice(s)}] = g[s \ {Choice(s)}]
  BY <1>2, <1>5
<1>7. s \subseteq Q /\ s \subseteq R /\ Folds(h, val, Q) /\ Folds(g, gun, R)
  BY <1>2
<1> HIDE DEF B
<1>8. /\ h[s] = Op(val[Choice(s)], h[s \ {Choice(s)}])
      /\ g[s] = Op(gun[Choice(s)], g[s \ {Choice(s)}])
  BY <1>a, <1>b, <1>3, <1>7
<1>9. val[Choice(s)] = gun[Choice(s)]
  BY <1>2, <1>4
<1>10. Op(val[Choice(s)], h[s \ {Choice(s)}]) = Op(gun[Choice(s)], g[s \ {Choice(s)}])
  BY <1>6, <1>9
<1> QED
  BY <1>2, <1>8, <1>10, Zenon

\* There is a fold of fun over the subsets of S, so Fold is one: a smallest
\* subset without a fold gets it from its own subsets.
LEMMA FoldFolds ==
  ASSUME NEW S, IsFiniteSet(S), Chooses(S), NEW fun
  PROVE  Folds(Fold(fun, S), fun, S)
<1> DEFINE B == {s \in SUBSET S : ~ \E f : Folds(f, fun, s)}
<1>1. SUFFICES ASSUME B # {} PROVE FALSE
  <2>1. B = {}
    BY <1>1
  <2>2. S \in SUBSET S
    OBVIOUS
  <2>3. \E f : Folds(f, fun, S)
    BY <2>1, <2>2
  <2> QED
    BY <2>3, Zenon DEF Fold
<1>2. PICK s \in B : \A u \in B : u \subseteq s => u = s
  <2>1. B \subseteq SUBSET S
    OBVIOUS
  <2> HIDE DEF B
  <2> QED
    BY <1>1, <2>1, Minimal
<1> DEFINE F == [u \in SUBSET s |-> IF u = {} THEN Base
                   ELSE Op(fun[Choice(u)], Fold(fun, u \ {Choice(u)})[u \ {Choice(u)}])]
<1>3. s \in SUBSET S /\ ~ \E f : Folds(f, fun, s)
  OBVIOUS
<1>4. IsFiniteSet(s)
  BY <1>3, FS_Subset
<1>5. \A u \in SUBSET s : u # s => Folds(Fold(fun, u), fun, u)
  <2> SUFFICES ASSUME NEW u \in SUBSET s, u # s PROVE Folds(Fold(fun, u), fun, u)
    OBVIOUS
  <2>1. u \in SUBSET S /\ u \notin B
    BY <1>2, <1>3
  <2>2. \E f : Folds(f, fun, u)
    BY <2>1
  <2> QED
    BY <2>2, Zenon DEF Fold
<1>6. \A u \in SUBSET s : u # s => F[u] = Fold(fun, u)[u]
  <2> SUFFICES ASSUME NEW u \in SUBSET s, u # s PROVE F[u] = Fold(fun, u)[u]
    BY Zenon
  <2> DEFINE w == u \ {Choice(u)}
  <2>1. Folds(Fold(fun, u), fun, u)
    BY <1>5
  <2>2. CASE u = {}
    BY <2>1, <2>2, FoldsEmpty
  <2>3. CASE u # {}
    <3>1. w \in SUBSET s /\ w # s /\ w \subseteq u /\ u \in SUBSET u
      OBVIOUS
    <3>2. F[u] = Op(fun[Choice(u)], Fold(fun, w)[w])
      BY <2>3
    <3> HIDE DEF F
    <3>3. Fold(fun, u)[u] = Op(fun[Choice(u)], Fold(fun, u)[w])
      BY <2>1, <2>3, <3>1, FoldsAt
    <3>4. Folds(Fold(fun, w), fun, w)
      BY <1>5, <3>1
    <3>5. IsFiniteSet(u)
      BY <1>4, FS_Subset
    <3>7. Chooses(w) /\ w \in SUBSET w
      BY <1>3 DEF Chooses
    <3> HIDE DEF w
    <3>6. Fold(fun, u)[w] = Fold(fun, w)[w]
      BY <2>1, <3>1, <3>4, <3>5, <3>7, FoldsUnique
    <3> QED
      BY <3>2, <3>3, <3>6
  <2> QED
    BY <2>2, <2>3
<1>7. \A u \in SUBSET s : u # {} => F[u \ {Choice(u)}] = Fold(fun, u \ {Choice(u)})[u \ {Choice(u)}]
  <2> SUFFICES ASSUME NEW u \in SUBSET s, u # {}
               PROVE  F[u \ {Choice(u)}] = Fold(fun, u \ {Choice(u)})[u \ {Choice(u)}]
    BY Zenon
  <2>1. Choice(u) \in u
    BY <1>3 DEF Chooses
  <2>2. u \ {Choice(u)} \in SUBSET s /\ u \ {Choice(u)} # s
    BY <2>1
  <2> HIDE DEF F
  <2> QED
    BY <1>6, <2>2
<1>8. Folds(F, fun, s)
  <2> DEFINE G == [u \in SUBSET s |-> IF u = {} THEN Base ELSE Op(fun[Choice(u)], F[u \ {Choice(u)}])]
  <2>1. \A u \in SUBSET s : F[u] = G[u]
    <3> SUFFICES ASSUME NEW u \in SUBSET s PROVE F[u] = G[u]
      BY Zenon
    <3>1. CASE u = {}
      BY <3>1
    <3>2. CASE u # {}
      <4>1. F[u] = Op(fun[Choice(u)], Fold(fun, u \ {Choice(u)})[u \ {Choice(u)}])
        BY <3>2
      <4>2. F[u \ {Choice(u)}] = Fold(fun, u \ {Choice(u)})[u \ {Choice(u)}]
        BY <1>7, <3>2
      <4> HIDE DEF F
      <4>3. G[u] = Op(fun[Choice(u)], F[u \ {Choice(u)}])
        BY <3>2
      <4> HIDE DEF G
      <4> QED
        BY <4>1, <4>2, <4>3
    <3> QED
      BY <3>1, <3>2
  <2>2. F = G
    BY <2>1, Zenon
  <2> QED
    BY <2>2, Zenon DEF Folds
<1> QED
  BY <1>3, <1>8

\* One step of a fold over the whole of S: the chosen value, and the fold of
\* values that agree with these on the rest.
LEMMA FoldStep ==
  ASSUME NEW S, IsFiniteSet(S), S # {}, Chooses(S),
         NEW fun, NEW gun, \A x \in S \ {Choice(S)} : fun[x] = gun[x]
  PROVE  Fold(fun, S)[S] = Op(fun[Choice(S)], Fold(gun, S \ {Choice(S)})[S \ {Choice(S)}])
<1> DEFINE R == S \ {Choice(S)}
<1>1. R \subseteq S /\ IsFiniteSet(R) /\ Chooses(R) /\ S \in SUBSET S /\ R \in SUBSET R
  BY FS_Subset DEF Chooses
<1>2. Folds(Fold(fun, S), fun, S) /\ Folds(Fold(gun, R), gun, R)
  <2>1. Folds(Fold(fun, S), fun, S)
    BY FoldFolds
  <2> HIDE DEF R
  <2>2. Folds(Fold(gun, R), gun, R)
    BY <1>1, FoldFolds
  <2> QED
    BY <2>1, <2>2
<1>3. Fold(fun, S)[S] = Op(fun[Choice(S)], Fold(fun, S)[R])
  <2> DEFINE f == Fold(fun, S)
  <2>1. Folds(f, fun, S)
    BY <1>2
  <2> HIDE DEF f
  <2>2. f[S] = Op(fun[Choice(S)], f[S \ {Choice(S)}])
    BY <1>1, <2>1, FoldsAt
  <2> QED
    BY <2>2 DEF f
<1> HIDE DEF R
<1>4. \A x \in R : fun[x] = gun[x]
  BY DEF R
<1>5. Fold(fun, S)[R] = Fold(gun, R)[R]
  BY <1>1, <1>2, <1>4, FoldsUnique
<1> QED
  BY <1>3, <1>5 DEF R
=============================================================================
