-------------------------- MODULE RecursionLemmas --------------------------
(***************************************************************************)
(* Induction and recursion for the proofs about functions that are defined *)
(* recursively.  The induction rules of the library take an operator as a  *)
(* parameter; these take the set of the numbers, or of the finite sets,    *)
(* that a fact holds of.                                                   *)
(***************************************************************************)
EXTENDS Naturals, Sequences, FiniteSetTheorems, FiniteSetsExt, TLAPS

\* Of any natural numbers one is the least: among the intervals from 1 to each of
\* them one includes no other.
LEMMA LeastOf == ASSUME NEW T \in SUBSET Nat, T # {} PROVE \E x \in T : \A y \in T : x <= y
  <1> DEFINE I == {1..n : n \in T}
  <1>1. IsWellFoundedOn(StrictSubsetOrdering(Nat), FiniteSubsetsOf(Nat))
    BY FS_StrictSubsetOrderingWellFounded
  <1>2. I \subseteq FiniteSubsetsOf(Nat) BY FS_Interval DEF FiniteSubsetsOf
  <1>3. I # {} OBVIOUS
  <1> DEFINE R == StrictSubsetOrdering(Nat)  S == FiniteSubsetsOf(Nat)
  <1>4. \A x, y \in T : x < y => <<1..x, 1..y>> \in R BY DEF StrictSubsetOrdering
  <1> HIDE DEF R, S
  <1>5. PICK X \in I : \A Y \in I : <<Y, X>> \notin R
    <2> HIDE DEF I
    <2> QED BY <1>1, <1>2, <1>3, WFMin DEF R, S
  <1>6. PICK x \in T : X = 1..x OBVIOUS
  <1>7. ASSUME NEW y \in T PROVE x <= y
    <2>1. 1..y \in I OBVIOUS
    <2>2. ~(y < x) BY <1>4, <1>5, <1>6, <2>1
    <2> QED BY <2>2
  <1> QED BY <1>7

\* What holds of 0, and of each number up to n when it holds of the one before,
\* holds of all the numbers up to n.
LEMMA UpTo ==
    ASSUME NEW n \in Nat, NEW S, 0 \in S, \A k \in 1..n : k - 1 \in S => k \in S
    PROVE  0..n \subseteq S
  <1> DEFINE T == (0..n) \ S
  <1>1. CASE T = {} BY <1>1
  <1>2. CASE T # {}
    <2>1. T \in SUBSET Nat OBVIOUS
    <2> HIDE DEF T
    <2>2. PICK x \in T : \A y \in T : x <= y BY <1>2, <2>1, LeastOf
    <2>3. x \in 0..n /\ x # 0 /\ x \notin S BY <2>2 DEF T
    <2>4. x - 1 \in 0..n /\ x - 1 \notin T BY <2>1, <2>2, <2>3
    <2>5. x - 1 \in S BY <2>4 DEF T
    <2> QED BY <2>3, <2>5
  <1> QED BY <1>1, <1>2

\* A function on the numbers up to n into X, by its value at 0 and by how its value
\* at each number follows from that at the one before.
Recursive(f, n, X, b, G) ==
  /\ f \in [0..n -> X] /\ f[0] = b
  /\ \A k \in 1..n : f[k] = G[k][f[k - 1]]

\* There is such a function.
LEMMA Recursion ==
    ASSUME NEW n \in Nat, NEW X, NEW b \in X, NEW G \in [1..n -> [X -> X]]
    PROVE  \E f : Recursive(f, n, X, b, G)
  <1> DEFINE Upto(f, m) == f[0] = b /\ \A k \in 1..m : f[k] = G[k][f[k - 1]]
             S == {m \in 0..n : \E f \in [0..n -> X] : Upto(f, m)}
  <1>1. 0 \in S
    <2>1. [k \in 0..n |-> b] \in [0..n -> X] OBVIOUS
    <2>2. Upto([k \in 0..n |-> b], 0) OBVIOUS
    <2>3. \E f \in [0..n -> X] : Upto(f, 0)
      <3> HIDE DEF Upto
      <3> QED BY <2>1, <2>2
    <2> QED BY <2>3
  <1>2. ASSUME NEW m \in 1..n, m - 1 \in S PROVE m \in S
    <2>1. PICK f \in [0..n -> X] : Upto(f, m - 1) BY <1>2
    <2> DEFINE g == [f EXCEPT ![m] = G[m][f[m - 1]]]
    <2>2. m - 1 \in 0..n /\ f[m - 1] \in X OBVIOUS
    <2>3. G[m][f[m - 1]] \in X BY <2>2
    <2>4. g \in [0..n -> X] BY <2>3
    <2>5. \A k \in 0..(m - 1) : g[k] = f[k] OBVIOUS
    <2>6. g[m] = G[m][f[m - 1]] OBVIOUS
    <2> HIDE DEF g
    <2>7. g[0] = b BY <2>1, <2>5
    <2>8. ASSUME NEW k \in 1..m PROVE g[k] = G[k][g[k - 1]]
      <3>1. CASE k = m
        <4>1. g[m - 1] = f[m - 1] BY <2>5
        <4> QED BY <3>1, <4>1, <2>6
      <3>2. CASE k # m
        <4>1. k \in 1..(m - 1) /\ k \in 0..(m - 1) /\ k - 1 \in 0..(m - 1) BY <3>2
        <4>2. f[k] = G[k][f[k - 1]] BY <4>1, <2>1
        <4> QED BY <4>1, <4>2, <2>5
      <3> QED BY <3>1, <3>2
    <2>9. Upto(g, m) BY <2>7, <2>8
    <2> QED BY <2>4, <2>9
  <1> HIDE DEF S
  <1>3. 0..n \subseteq S BY <1>1, <1>2, UpTo
  <1>4. n \in S BY <1>3
  <1> QED BY <1>4 DEF S, Recursive

-----------------------------------------------------------------------------
(* The folds over finite sets.                                             *)

\* Of any subsets of a finite set one is the smallest: it includes no other.
LEMMA SmallestOf ==
    ASSUME NEW S, IsFiniteSet(S), NEW T \in SUBSET (SUBSET S), T # {}
    PROVE  \E s \in T : \A t \in T : t \subseteq s => t = s
  <1> DEFINE R == StrictSubsetOrdering(S)  F == FiniteSubsetsOf(S)
  <1>1. IsWellFoundedOn(R, F) BY FS_StrictSubsetOrderingWellFounded
  <1>2. T \subseteq F BY FS_Subset DEF FiniteSubsetsOf
  <1>3. \A s, t \in T : t \subseteq s /\ t # s => <<t, s>> \in R BY DEF StrictSubsetOrdering
  <1> HIDE DEF R, F
  <1>4. PICK s \in T : \A t \in T : <<t, s>> \notin R BY <1>1, <1>2, WFMin
  <1> QED BY <1>3, <1>4

\* The iteration of a fold over S: ch says which element of a set is taken, G what
\* is made of it and of what the rest gives.
Folding(it, S, b, ch, G) ==
  it = [s \in SUBSET S |-> IF s = {} THEN b ELSE G[<<ch[s], it[s \ {ch[s]}]>>]]

Chooses(ch, S) == \A s \in SUBSET S : s # {} => ch[s] \in s

\* What is folded has the type of its steps.
LEMMA FoldTyped ==
    ASSUME NEW S, IsFiniteSet(S), NEW X, NEW b \in X, NEW ch, Chooses(ch, S),
           NEW G, \A x \in S, v \in X : G[<<x, v>>] \in X, NEW it, Folding(it, S, b, ch, G)
    PROVE  it \in [SUBSET S -> X]
  <1> DEFINE T == {s \in SUBSET S : it[s] \notin X}
  <1>1. ASSUME T # {} PROVE FALSE
    <2>1. PICK s \in T : \A t \in T : t \subseteq s => t = s
      <3> HIDE DEF T
      <3>1. T \in SUBSET (SUBSET S) BY DEF T
      <3> QED BY <1>1, <3>1, SmallestOf
    <2>2. s # {} BY DEF Folding
    <2>3. ch[s] \in s /\ ch[s] \in S BY <2>2 DEF Chooses
    <2>4. it[s \ {ch[s]}] \in X BY <2>1, <2>3
    <2>5. it[s] = G[<<ch[s], it[s \ {ch[s]}]>>] BY <2>2 DEF Folding
    <2>6. it[s] \in X BY <2>3, <2>4, <2>5
    <2> QED BY <2>6
  <1>2. DOMAIN it = SUBSET S /\ it = [s \in SUBSET S |-> it[s]] BY DEF Folding
  <1> QED BY <1>1, <1>2

TypedFold(it, S, X, b, ch, G) ==
  IsFiniteSet(S) /\ it \in [SUBSET S -> X] /\ Chooses(ch, S) /\ Folding(it, S, b, ch, G)
SameSteps(s, X, ch, ch2, G, G2) ==
  /\ \A t \in SUBSET s : t # {} => ch[t] = ch2[t]
  /\ \A x \in s, v \in X : G[<<x, v>>] = G2[<<x, v>>]

\* What a fold over s starting with b gives is in X when it is an iteration, it,
\* whose steps stay in X.
LEMMA FoldStays ==
    ASSUME NEW D, IsFiniteSet(D), NEW X, NEW b \in X, NEW ch, Chooses(ch, D), NEW it,
           it[{}] = b,
           \A u \in SUBSET D : u # {} /\ it[u \ {ch[u]}] \in X => it[u] \in X
    PROVE  it[D] \in X
<1> DEFINE T == {u \in SUBSET D : it[u] \notin X}
<1>1. ASSUME T # {} PROVE FALSE
  <2>1. PICK u \in T : \A t \in T : t \subseteq u => t = u
    <3> HIDE DEF T
    <3>1. T \in SUBSET (SUBSET D)
      BY DEF T
    <3> QED
      BY <1>1, <3>1, SmallestOf
  <2>2. u # {}
    OBVIOUS
  <2>3. ch[u] \in u
    BY <2>2 DEF Chooses
  <2>4. it[u \ {ch[u]}] \in X
    BY <2>1, <2>3
  <2> QED
    BY <2>2, <2>4
<1> QED
  BY <1>1

\* Two folds that take the same steps on the subsets of s agree there.
LEMMA FoldAgree ==
    ASSUME NEW S, NEW S2, NEW X, NEW b, NEW ch, NEW ch2, NEW G, NEW G2, NEW it, NEW it2, NEW s,
           TypedFold(it, S, X, b, ch, G), TypedFold(it2, S2, X, b, ch2, G2),
           SameSteps(s, X, ch, ch2, G, G2), s \in SUBSET S, s \in SUBSET S2
    PROVE  it[s] = it2[s]
  <1> DEFINE T == {t \in SUBSET s : it[t] # it2[t]}
  <1>0. Folding(it, S, b, ch, G) /\ Folding(it2, S2, b, ch2, G2) /\ it \in [SUBSET S -> X]
    BY DEF TypedFold
  <1>1. ASSUME T # {} PROVE FALSE
    <2>1. PICK t \in T : \A u \in T : u \subseteq t => u = t
      <3> HIDE DEF T
      <3>1. T \in SUBSET (SUBSET s) /\ IsFiniteSet(s) BY FS_Subset DEF T, TypedFold
      <3> QED BY <1>1, <3>1, SmallestOf
    <2>2. t \in SUBSET S /\ t \in SUBSET S2 /\ t \in SUBSET s BY <2>1
    <2>3. t # {} BY <1>0, <2>1, <2>2 DEF Folding
    <2>4. ch[t] \in t /\ ch[t] = ch2[t] BY <2>2, <2>3 DEF Chooses, TypedFold, SameSteps
    <2> DEFINE r == t \ {ch[t]}
    <2>5. it[r] = it2[r] BY <2>1, <2>2, <2>4
    <2>6. it[t] = G[<<ch[t], it[r]>>] /\ it2[t] = G2[<<ch2[t], it2[t \ {ch2[t]}]>>]
      BY <1>0, <2>2, <2>3 DEF Folding
    <2> HIDE DEF r
    <2>7. t \ {ch2[t]} = r /\ r \in SUBSET S BY <2>2, <2>4 DEF r
    <2>8. it[r] \in X BY <1>0, <2>7
    <2>9. it[t] = it2[t] BY <2>2, <2>4, <2>5, <2>6, <2>7, <2>8 DEF SameSteps
    <2> QED BY <2>1, <2>9
  <1> QED BY <1>1

\* There is such a fold.
LEMMA FoldExists ==
    ASSUME NEW S, IsFiniteSet(S), NEW X, NEW b \in X, NEW ch, Chooses(ch, S),
           NEW G, \A x \in S, v \in X : G[<<x, v>>] \in X
    PROVE  \E it : Folding(it, S, b, ch, G)
  <1> DEFINE T == {s \in SUBSET S : ~\E it : Folding(it, s, b, ch, G)}
  <1> SUFFICES ASSUME T # {} PROVE FALSE OBVIOUS
  <1>1. PICK s \in T : \A t \in T : t \subseteq s => t = s
    <2> HIDE DEF T
    <2>1. T \in SUBSET (SUBSET S) BY DEF T
    <2> QED BY <2>1, SmallestOf
  <1> DEFINE of(t) == CHOOSE it : Folding(it, t, b, ch, G)
             sum(t) == of(t)[t]
             it == [t \in SUBSET s |-> IF t = {} THEN b ELSE G[<<ch[t], sum(t \ {ch[t]})>>]]
  <1>2. ASSUME NEW t \in SUBSET s, t # s PROVE Folding(of(t), t, b, ch, G)
    BY <1>1, <1>2
  <1>3. IsFiniteSet(s) /\ s \in SUBSET S BY <1>1, FS_Subset
  <1>4. ASSUME NEW t \in SUBSET s, t # s PROVE it[t] = sum(t)
    <2>1. Folding(of(t), t, b, ch, G) BY <1>2, <1>4
    <2>2. CASE t = {}
      <3>1. it[t] = b BY <2>2
      <3>2. sum(t) = b BY <2>1, <2>2 DEF Folding
      <3> QED BY <3>1, <3>2
    <2>3. CASE t # {}
      <3> DEFINE r == t \ {ch[t]}
      <3>1. ch[t] \in t BY <1>3, <2>3 DEF Chooses
      <3>2. r \in SUBSET s /\ r # s /\ r \in SUBSET t BY <1>4, <3>1
      <3>3. Folding(of(r), r, b, ch, G) BY <1>2, <3>2
      <3>4. IsFiniteSet(t) /\ IsFiniteSet(r) BY <1>3, <3>2, FS_Subset
      <3>5. Chooses(ch, t) /\ Chooses(ch, r) BY <1>3, <3>2 DEF Chooses
      <3>6. sum(t) = G[<<ch[t], of(t)[r]>>] BY <2>1, <2>3 DEF Folding
      <3>7. it[t] = G[<<ch[t], sum(r)>>] BY <2>3
      <3> HIDE DEF it, of, r
      <3>8. r \in (SUBSET t) \cap (SUBSET r) BY <3>2
      <3>9. \A u \in {t, r} : u \in SUBSET S /\ \A x \in u, v \in X : G[<<x, v>>] \in X
        BY <1>3, <3>2
      <3>10. of(t) \in [SUBSET t -> X] /\ of(r) \in [SUBSET r -> X]
        BY <2>1, <3>3, <3>4, <3>5, <3>9, FoldTyped
      <3>11. TypedFold(of(t), t, X, b, ch, G) /\ TypedFold(of(r), r, X, b, ch, G)
        BY <2>1, <3>3, <3>4, <3>5, <3>10 DEF TypedFold
      <3>12. SameSteps(r, X, ch, ch, G, G) BY DEF SameSteps
      <3>13. of(t)[r] = of(r)[r] BY <3>8, <3>11, <3>12, FoldAgree
      <3> QED BY <3>6, <3>7, <3>13
    <2> QED BY <2>2, <2>3
  <1>5. it = [t \in SUBSET s |-> IF t = {} THEN b ELSE G[<<ch[t], it[t \ {ch[t]}]>>]]
    <2>1. ASSUME NEW t \in SUBSET s, t # {} PROVE it[t] = G[<<ch[t], it[t \ {ch[t]}]>>]
      <3>1. ch[t] \in t BY <1>3, <2>1 DEF Chooses
      <3>2. t \ {ch[t]} \in SUBSET s /\ t \ {ch[t]} # s BY <3>1
      <3>3. it[t \ {ch[t]}] = sum(t \ {ch[t]}) BY <1>4, <3>2
      <3>4. it[t] = G[<<ch[t], sum(t \ {ch[t]})>>] BY <2>1
      <3> QED BY <3>3, <3>4
    <2>2. it[{}] = b OBVIOUS
    <2>3. it = [t \in SUBSET s |-> it[t]] OBVIOUS
    <2> HIDE DEF it
    <2> QED BY <2>1, <2>2, <2>3
  <1> HIDE DEF it
  <1>6. Folding(it, s, b, ch, G) BY <1>5 DEF Folding
  <1> QED BY <1>1, <1>6

-----------------------------------------------------------------------------
(* Sums over finite sets, as MapThenSumSet iterates them.                  *)

SumsTo(f, w, S) ==
  f = [s \in SUBSET S |-> IF s = {} THEN 0
                          ELSE LET x == CHOOSE y \in s : TRUE IN w[x] + f[s \ {x}]]
Total(w, S) == (CHOOSE f : SumsTo(f, w, S))[S]

Weighs(w, S) == IsFiniteSet(S) /\ \A x \in S : w[x] \in Nat

Choice(S) == [s \in SUBSET S |-> CHOOSE x \in s : TRUE]
Adding(w, S) == [p \in S \X Nat |-> w[p[1]] + p[2]]

LEMMA ChoiceChooses == ASSUME NEW S PROVE Chooses(Choice(S), S)
  BY DEF Chooses, Choice

LEMMA SumTyped ==
    ASSUME NEW S, NEW w, Weighs(w, S), NEW f, SumsTo(f, w, S)
    PROVE  f \in [SUBSET S -> Nat] /\ Folding(f, S, 0, Choice(S), Adding(w, S))
  <1> DEFINE T == {s \in SUBSET S : f[s] \notin Nat}
             c(s) == CHOOSE x \in s : TRUE
  <1>1. \A s \in SUBSET S : s # {} => c(s) \in s /\ f[s] = w[c(s)] + f[s \ {c(s)}]
    BY DEF SumsTo
  <1>2. f = [s \in SUBSET S |-> f[s]] BY DEF SumsTo
  <1>7. f[{}] = 0 BY DEF SumsTo
  <1>3. ASSUME T # {} PROVE FALSE
    <2>1. PICK s \in T : \A t \in T : t \subseteq s => t = s
      <3> HIDE DEF T
      <3>1. T \in SUBSET (SUBSET S) /\ IsFiniteSet(S) BY DEF T, Weighs
      <3> QED BY <1>3, <3>1, SmallestOf
    <2>2. s # {}
      <3>1. f[s] \notin Nat /\ f[{}] \in Nat BY <1>7, <2>1
      <3> QED BY <3>1
    <2>3. c(s) \in s /\ f[s] = w[c(s)] + f[s \ {c(s)}] BY <1>1, <2>1, <2>2
    <2> HIDE DEF c
    <2>4. f[s \ {c(s)}] \in Nat BY <2>1, <2>3
    <2>5. w[c(s)] \in Nat BY <2>1, <2>3 DEF Weighs
    <2>6. f[s] \in Nat BY <2>3, <2>4, <2>5
    <2> QED BY <2>1, <2>6
  <1>4. f \in [SUBSET S -> Nat] BY <1>2, <1>3
  <1>5. ASSUME NEW s \in SUBSET S, s # {}
        PROVE  f[s] = Adding(w, S)[<<Choice(S)[s], f[s \ {Choice(S)[s]}]>>]
    <2>1. Choice(S)[s] = c(s) BY DEF Choice
    <2>2. c(s) \in S /\ f[s \ {c(s)}] \in Nat BY <1>1, <1>4, <1>5
    <2>3. f[s] = w[c(s)] + f[s \ {c(s)}] BY <1>1, <1>5
    <2> HIDE DEF c
    <2>4. Adding(w, S)[<<c(s), f[s \ {c(s)}]>>] = w[c(s)] + f[s \ {c(s)}] BY <2>2 DEF Adding
    <2> QED BY <2>1, <2>3, <2>4
  <1>6. Folding(f, S, 0, Choice(S), Adding(w, S)) BY <1>2, <1>5, <1>7 DEF Folding
  <1> QED BY <1>4, <1>6

LEMMA SumExists == ASSUME NEW S, NEW w, Weighs(w, S) PROVE \E f : SumsTo(f, w, S)
  <1> DEFINE G == Adding(w, S)  ch == Choice(S)
             c(s) == CHOOSE x \in s : TRUE
  <1>1. \A x \in S, v \in Nat : G[<<x, v>>] = w[x] + v BY DEF Adding
  <1>3. Chooses(ch, S) /\ IsFiniteSet(S) BY ChoiceChooses DEF Weighs
  <1>4. \A s \in SUBSET S : ch[s] = c(s) BY DEF Choice
  <1> HIDE DEF G, ch
  <1>2. ASSUME NEW x \in S, NEW v \in Nat PROVE G[<<x, v>>] \in Nat
    <2>1. w[x] \in Nat BY DEF Weighs
    <2>2. w[x] + v \in Nat BY <2>1
    <2> QED BY <1>1, <2>2
  <1>5. PICK f : Folding(f, S, 0, ch, G) BY <1>2, <1>3, FoldExists
  <1>6. f \in [SUBSET S -> Nat] BY <1>2, <1>3, <1>5, FoldTyped
  <1>7. ASSUME NEW s \in SUBSET S, s # {} PROVE f[s] = w[c(s)] + f[s \ {c(s)}]
    <2>1. c(s) \in s BY <1>7
    <2>2. f[s] = G[<<c(s), f[s \ {c(s)}]>>] BY <1>4, <1>5, <1>7 DEF Folding
    <2> HIDE DEF c
    <2>3. f[s \ {c(s)}] \in Nat BY <1>6
    <2> QED BY <1>1, <2>1, <2>2, <2>3
  <1>8. f[{}] = 0 /\ f = [s \in SUBSET S |-> f[s]] BY <1>5 DEF Folding
  <1>9. SumsTo(f, w, S) BY <1>7, <1>8 DEF SumsTo
  <1> QED BY <1>9

\* The order in which the elements are taken does not matter.
LEMMA SumOrder ==
    ASSUME NEW S, NEW w, Weighs(w, S), NEW f, SumsTo(f, w, S), NEW s \in SUBSET S, NEW x \in s
    PROVE  f[s] = w[x] + f[s \ {x}]
  <1> DEFINE T == {t \in SUBSET S : \E y \in t : f[t] # w[y] + f[t \ {y}]}
             c(t) == CHOOSE y \in t : TRUE
  <1>1. \A t \in SUBSET S : t # {} => c(t) \in t /\ f[t] = w[c(t)] + f[t \ {c(t)}]
    BY DEF SumsTo
  <1>5. f \in [SUBSET S -> Nat] BY SumTyped
  <1>2. \A t \in SUBSET S : f[t] \in Nat BY <1>5
  <1>3. ASSUME T # {} PROVE FALSE
    <2>1. PICK t \in T : \A u \in T : u \subseteq t => u = t
      <3> HIDE DEF T
      <3>1. T \in SUBSET (SUBSET S) /\ IsFiniteSet(S) BY DEF T, Weighs
      <3> QED BY <1>3, <3>1, SmallestOf
    <2>2. PICK y \in t : f[t] # w[y] + f[t \ {y}] BY <2>1
    <2> DEFINE z == c(t)
    <2>3. t \in SUBSET S /\ z \in t /\ f[t] = w[z] + f[t \ {z}] BY <1>1, <2>1, <2>2
    <2> HIDE DEF c, z
    <2>4. y # z BY <2>2, <2>3
    <2>5. t \ {z} \notin T /\ t \ {y} \notin T BY <2>1, <2>2, <2>3
    <2>6. f[t \ {z}] = w[y] + f[(t \ {z}) \ {y}] BY <2>2, <2>3, <2>4, <2>5
    <2>7. f[t \ {y}] = w[z] + f[(t \ {y}) \ {z}] BY <2>2, <2>3, <2>4, <2>5
    <2>8. (t \ {y}) \ {z} = (t \ {z}) \ {y} OBVIOUS
    <2>9. w[y] \in Nat /\ w[z] \in Nat /\ f[(t \ {z}) \ {y}] \in Nat BY <1>2, <2>2, <2>3 DEF Weighs
    <2> QED BY <2>2, <2>3, <2>6, <2>7, <2>8, <2>9
  <1> QED BY <1>3

LEMMA TotalIs ==
    ASSUME NEW S, NEW w, Weighs(w, S)
    PROVE  /\ Total(w, S) \in Nat
           /\ \E f \in [SUBSET S -> Nat] : SumsTo(f, w, S) /\ Total(w, S) = f[S]
  <1> DEFINE f == CHOOSE g : SumsTo(g, w, S)
  <1>1. SumsTo(f, w, S) BY SumExists
  <1>2. Total(w, S) = f[S] BY DEF Total
  <1> HIDE DEF f
  <1>3. f \in [SUBSET S -> Nat] BY <1>1, SumTyped
  <1> QED BY <1>1, <1>2, <1>3

\* The sum over a part of a set is that of the sum over the set.
LEMMA TotalPart ==
    ASSUME NEW S, NEW w, Weighs(w, S), NEW f, SumsTo(f, w, S), NEW s \in SUBSET S,
           NEW v, \A x \in s : v[x] = w[x]
    PROVE  f[s] = Total(v, s)
  <1>1. Weighs(v, s) BY FS_Subset DEF Weighs
  <1>2. PICK g \in [SUBSET s -> Nat] : SumsTo(g, v, s) /\ Total(v, s) = g[s] BY <1>1, TotalIs
  <1>3. Folding(g, s, 0, Choice(s), Adding(v, s)) BY <1>1, <1>2, SumTyped
  <1>4. f \in [SUBSET S -> Nat] /\ Folding(f, S, 0, Choice(S), Adding(w, S)) BY SumTyped
  <1>5. \A t \in SUBSET s : t # {} => Choice(S)[t] = Choice(s)[t] BY DEF Choice
  <1>6. \A x \in s, n \in Nat : Adding(w, S)[<<x, n>>] = Adding(v, s)[<<x, n>>] BY DEF Adding
  <1>7. SameSteps(s, Nat, Choice(S), Choice(s), Adding(w, S), Adding(v, s))
    BY <1>5, <1>6 DEF SameSteps
  <1>8. IsFiniteSet(S) /\ IsFiniteSet(s) BY <1>1 DEF Weighs
  <1>9. TypedFold(f, S, Nat, 0, Choice(S), Adding(w, S)) /\ TypedFold(g, s, Nat, 0, Choice(s), Adding(v, s))
    BY <1>2, <1>3, <1>4, <1>8, ChoiceChooses DEF TypedFold
  <1>10. s \in SUBSET S /\ s \in SUBSET s OBVIOUS
  <1>11. f[s] = g[s] BY <1>7, <1>9, <1>10, FoldAgree
  <1> QED BY <1>2, <1>11

\* An element more.
LEMMA TotalAdd ==
    ASSUME NEW S, NEW x, x \notin S, NEW w, Weighs(w, S \cup {x}),
           NEW v, \A y \in S : v[y] = w[y]
    PROVE  Total(w, S \cup {x}) = w[x] + Total(v, S)
  <1> DEFINE U == S \cup {x}
  <1>1. PICK f \in [SUBSET U -> Nat] : SumsTo(f, w, U) /\ Total(w, U) = f[U] BY TotalIs
  <1>2. U \ {x} = S /\ x \in U /\ S \in SUBSET U OBVIOUS
  <1>3. Weighs(w, U) OBVIOUS
  <1> HIDE DEF U
  <1>4. f[U] = w[x] + f[U \ {x}] BY <1>1, <1>2, <1>3, SumOrder
  <1>5. f[S] = Total(v, S) BY <1>1, <1>2, <1>3, TotalPart
  <1>6. Total(w, U) = w[x] + Total(v, S) BY <1>1, <1>2, <1>4, <1>5
  <1> QED BY <1>6 DEF U

LEMMA TotalEmpty == ASSUME NEW w PROVE Total(w, {}) = 0
  <1>1. Weighs(w, {}) BY FS_EmptySet DEF Weighs
  <1>2. PICK f : SumsTo(f, w, {}) /\ Total(w, {}) = f[{}] BY <1>1, TotalIs
  <1> QED BY <1>2 DEF SumsTo

-----------------------------------------------------------------------------
(* Which element of a set of indices a fold over a sequence takes. *)

\* The greatest element of a bounded set.
LEMMA MaxIs ==
    ASSUME NEW n \in Nat, NEW T \in SUBSET (0..n), T # {}
    PROVE  Max(T) \in T /\ \A x \in T : Max(T) >= x
<1> DEFINE U == {n - x : x \in T}
<1>1. U \in SUBSET Nat /\ U # {}
  <2>1. \A x \in T : n - x \in Nat
    OBVIOUS
  <2> QED
    BY <2>1
<1>2. PICK u \in U : \A y \in U : u <= y
  <2> HIDE DEF U
  <2> QED
    BY <1>1, LeastOf
<1>3. PICK x \in T : u = n - x
  BY <1>2
<1>4. ASSUME NEW y \in T PROVE x >= y
  <2>1. n - y \in U
    OBVIOUS
  <2>2. n - x <= n - y
    BY <1>2, <1>3, <2>1
  <2> QED
    BY <2>2
<1>5. \E z \in T : \A y \in T : z >= y
  BY <1>4
<1> QED
  BY <1>5 DEF Max

Newest(D) == [u \in SUBSET D |-> Max(u)]

LEMMA LastChooses ==
    ASSUME NEW X, NEW s \in Seq(X)
    PROVE  /\ IsFiniteSet(DOMAIN s) /\ Chooses(Newest(DOMAIN s), DOMAIN s)
           /\ \A i \in DOMAIN s : s[i] \in X
<1>1. Len(s) \in Nat /\ DOMAIN s = 1..Len(s) /\ \A i \in 1..Len(s) : s[i] \in X
  OBVIOUS
<1>2. IsFiniteSet(1..Len(s))
  BY <1>1, FS_Interval
<1>3. \A u \in SUBSET (1..Len(s)) : u # {} => Max(u) \in u
  <2>1. 1..Len(s) \subseteq 0..Len(s)
    BY <1>1
  <2> QED
    BY <1>1, <2>1, MaxIs
<1> QED
  BY <1>1, <1>2, <1>3 DEF Chooses, Newest

=============================================================================
