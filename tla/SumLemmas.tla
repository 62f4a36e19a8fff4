------------------------------ MODULE SumLemmas ------------------------------
(***************************************************************************)
(* The total of a weight over a finite set, and what proofs about sums     *)
(* need of it: it does not depend on the order the members are taken in,   *)
(* it adds up over a disjoint union and it grows with the set.             *)
(*                                                                         *)
(* MapThenSumSet is a CHOSEN function on the subsets of a set; SumsOf is   *)
(* the same for a weight that is given as a function.  The library's       *)
(* induction over finite sets takes an operator as a parameter, so what is *)
(* true of every subset is shown from a smallest counterexample, which the *)
(* well-foundedness of strict inclusion provides (MinimalSubset).          *)
(***************************************************************************)
EXTENDS FiniteSetsExt, FiniteSetTheorems, TLAPS

\* A nonempty set of naturals has a least element.
LEMMA LeastNatural ==
  ASSUME NEW T \in SUBSET Nat, T # {}
  PROVE  \E x \in T : \A y \in T : x <= y
<1> DEFINE L == {ss \in Nat \X Nat : ss[1] < ss[2]}
<1>0. IsWellFoundedOn(L, Nat)
  BY NatLessThanWellFounded DEF OpToRel
<1>1. PICK x \in T : \A y \in T : ~(<<y, x>> \in L)
  <2>. HIDE DEF L
  <2>. QED BY <1>0, WFMin
<1>2. ASSUME NEW y \in T PROVE x <= y
  <2>1. x \in Nat /\ y \in Nat
   OBVIOUS
  <2>2. ~(y < x)
   BY <1>1, <2>1
  <2>. QED BY <2>1, <2>2
<1>. QED BY <1>2

\* One with a bound has a greatest, which is what Max returns.
LEMMA MaxOfBounded ==
  ASSUME NEW b \in Nat, NEW S \in SUBSET (0..b), S # {}
  PROVE  Max(S) \in S /\ \A y \in S : y <= Max(S)
<1> DEFINE T == {b - x : x \in S}
<1>1. T \in SUBSET Nat
  <2>1. \A x \in S : b - x \in Nat
    OBVIOUS
  <2>. QED BY <2>1
<1>2. T # {}
  OBVIOUS
<1>3. PICK z \in T : \A y \in T : z <= y
  BY <1>1, <1>2, LeastNatural
<1>4. PICK x \in S : z = b - x
  OBVIOUS
<1>5. \A y \in S : x >= y
  <2>. TAKE y \in S
  <2>1. b - y \in T
    OBVIOUS
  <2>2. z <= b - y
   BY <2>1, <1>3
  <2>. QED BY <2>2, <1>4
<1>6. Max(S) \in S /\ \A y \in S : Max(S) >= y
  BY <1>5 DEF Max
<1>7. S \subseteq Nat
  OBVIOUS
<1>. QED BY <1>6, <1>7

-----------------------------------------------------------------------------
(* Totals over finite sets *)

\* A nonempty family of subsets of a finite set has a minimal member.
LEMMA MinimalSubset ==
  ASSUME NEW S, IsFiniteSet(S), NEW C, C \subseteq SUBSET S, C # {}
  PROVE  \E T \in C : \A U \in C : U \subseteq T => U = T
<1>1. IsWellFoundedOn(StrictSubsetOrdering(S), SUBSET S)
  BY FS_StrictSubsetOrderingWellFounded, FS_FiniteSubsetsOfFinite
<1>2. PICK T \in C : \A U \in C : ~(<<U, T>> \in StrictSubsetOrdering(S))
  BY <1>1, WFMin
<1>3. ASSUME NEW U \in C, U \subseteq T PROVE U = T
  BY <1>2, <1>3 DEF StrictSubsetOrdering
<1>. QED BY <1>3

Pick(s) == CHOOSE x \in s : TRUE

\* The member a sum takes first.
LEMMA PickInSet ==
  ASSUME NEW s, s # {}
  PROVE  Pick(s) \in s
  BY DEF Pick

\* it sums the weights w over every subset of S, in the order of Pick.
SumsOver(it, w, S) ==
  it = [s \in SUBSET S |-> IF s = {} THEN 0 ELSE w[Pick(s)] + it[s \ {Pick(s)}]]

\* What it says of one subset.
LEMMA SumsAt ==
  ASSUME NEW it, NEW w, NEW S, SumsOver(it, w, S), NEW s \in SUBSET S
  PROVE  it[s] = IF s = {} THEN 0 ELSE w[Pick(s)] + it[s \ {Pick(s)}]
  BY DEF SumsOver

\* Two of them agree wherever both are defined and the weights agree.
LEMMA SumsAgree ==
  ASSUME NEW S, IsFiniteSet(S), NEW R, NEW w, NEW v, NEW f, NEW g,
         SumsOver(f, w, S), SumsOver(g, v, R),
         NEW T, T \subseteq S, T \subseteq R, \A x \in T : w[x] = v[x]
  PROVE  f[T] = g[T]
<1> DEFINE C == {U \in SUBSET T : f[U] # g[U]}
<1>1. SUFFICES ASSUME C # {} PROVE FALSE
  <2>1. C = {} => f[T] = g[T]
    OBVIOUS
  <2>. QED BY <2>1
<1>2. IsFiniteSet(T)
  BY FS_Subset
<1>3. PICK U \in C : \A V \in C : V \subseteq U => V = U
  <2>1. C \subseteq SUBSET T
    OBVIOUS
  <2>. HIDE DEF C
  <2>. QED BY <1>1, <1>2, <2>1, MinimalSubset
<1>4. U \in SUBSET T /\ U \in SUBSET S /\ U \in SUBSET R /\ f[U] # g[U]
  OBVIOUS
<1>5. /\ f[U] = IF U = {} THEN 0 ELSE w[Pick(U)] + f[U \ {Pick(U)}]
      /\ g[U] = IF U = {} THEN 0 ELSE v[Pick(U)] + g[U \ {Pick(U)}]
  <2>. HIDE DEF C
  <2>1. f[U] = IF U = {} THEN 0 ELSE w[Pick(U)] + f[U \ {Pick(U)}]
    <3>1. SumsOver(f, w, S) /\ U \in SUBSET S
      BY <1>4
    <3>. QED BY <3>1 DEF SumsOver
  <2>2. g[U] = IF U = {} THEN 0 ELSE v[Pick(U)] + g[U \ {Pick(U)}]
    <3>1. SumsOver(g, v, R) /\ U \in SUBSET R
      BY <1>4
    <3>. QED BY <3>1 DEF SumsOver
  <2>. QED BY <2>1, <2>2
<1>6. U # {}
  BY <1>4, <1>5
<1>7. Pick(U) \in U
  BY <1>6, PickInSet
<1>8. w[Pick(U)] = v[Pick(U)]
  BY <1>7
<1>9. f[U \ {Pick(U)}] = g[U \ {Pick(U)}]
  BY <1>3, <1>7
<1>. QED BY <1>5, <1>8, <1>9

SumsOf(w, S) == CHOOSE it : SumsOver(it, w, S)

\* There is one.
LEMMA SumsExist ==
  ASSUME NEW S, IsFiniteSet(S), NEW w
  PROVE  SumsOver(SumsOf(w, S), w, S)
<1> DEFINE C == {T \in SUBSET S : ~SumsOver(SumsOf(w, T), w, T)}
<1>1. SUFFICES ASSUME C # {} PROVE FALSE
  <2>1. C = {} => SumsOver(SumsOf(w, S), w, S)
    OBVIOUS
  <2>. QED BY <2>1
<1>2. PICK T \in C : \A U \in C : U \subseteq T => U = T
  <2>1. C \subseteq SUBSET S
    OBVIOUS
  <2>. HIDE DEF C
  <2>. QED BY <1>1, <2>1, MinimalSubset
<1>3. ASSUME NEW U, U \subseteq T, U # T PROVE SumsOver(SumsOf(w, U), w, U)
  BY <1>2, <1>3
<1> DEFINE Rest(s) == s \ {Pick(s)}
           it == [s \in SUBSET T |-> IF s = {} THEN 0
                    ELSE w[Pick(s)] + SumsOf(w, Rest(s))[Rest(s)]]
<1>4. ASSUME NEW s \in SUBSET T, s # {}
      PROVE  it[Rest(s)] = SumsOf(w, Rest(s))[Rest(s)]
  <2> DEFINE u == Rest(s)
  <2>1. Pick(s) \in s
    BY <1>4, PickInSet
  <2>2. u \subseteq T /\ u # T
    BY <2>1
  <2>3. SumsOver(SumsOf(w, u), w, u)
    BY <1>3, <2>2
  <2>4. u \in SUBSET u
    OBVIOUS
  <2>5. SumsOf(w, u)[u] = IF u = {} THEN 0 ELSE w[Pick(u)] + SumsOf(w, u)[Rest(u)]
    <3>. HIDE DEF u
    <3>. QED BY <2>3, <2>4, SumsAt
  <2>6. CASE u = {}
    BY <2>5, <2>6
  <2>7. CASE u # {}
    <3>1. Pick(u) \in u
      BY <2>7, PickInSet
    <3>2. Rest(u) \subseteq T /\ Rest(u) # T /\ Rest(u) \subseteq u
      BY <2>2
    <3>3. SumsOver(SumsOf(w, Rest(u)), w, Rest(u))
      BY <3>2, <1>3
    <3>4. IsFiniteSet(u)
      BY <2>2, FS_Subset
    <3>5. SumsOf(w, u)[Rest(u)] = SumsOf(w, Rest(u))[Rest(u)]
      <4> DEFINE a == SumsOf(w, u)
                 b == SumsOf(w, Rest(u))
                 v == Rest(u)
      <4>1. SumsOver(a, w, u) /\ SumsOver(b, w, v) /\ v \subseteq u /\ v \subseteq v
        BY <2>3, <3>3, <3>2
      <4>. HIDE DEF a, b, u, v
      <4>2. a[v] = b[v]
        BY <4>1, <3>4, SumsAgree
      <4>. QED BY <4>2 DEF a, b, v
    <3>6. it[u] = w[Pick(u)] + SumsOf(w, Rest(u))[Rest(u)]
      BY <2>2, <2>7
    <3>. QED BY <3>5, <3>6, <2>5, <2>7
  <2>. QED BY <2>6, <2>7
<1>5. SumsOver(it, w, T)
  <2>1. ASSUME NEW s \in SUBSET T
        PROVE  it[s] = IF s = {} THEN 0 ELSE w[Pick(s)] + it[Rest(s)]
    BY <1>4
  <2>2. it = [s \in SUBSET T |-> it[s]]
    OBVIOUS
  <2>3. it = [s \in SUBSET T |-> IF s = {} THEN 0 ELSE w[Pick(s)] + it[Rest(s)]]
    <3>. HIDE DEF it
    <3>. QED BY <2>1, <2>2
  <2>. QED BY <2>3 DEF SumsOver
<1>6. SumsOver(SumsOf(w, T), w, T)
  <2>. HIDE DEF it
  <2>. QED BY <1>5 DEF SumsOf
<1>. QED BY <1>6

Total(w, S) == SumsOf(w, S)[S]

\* Only the weights of the members matter.
LEMMA TotalAgrees ==
  ASSUME NEW S, IsFiniteSet(S), NEW w, NEW v, \A x \in S : w[x] = v[x]
  PROVE  Total(w, S) = Total(v, S)
<1> DEFINE a == SumsOf(w, S)
           b == SumsOf(v, S)
<1>1. SumsOver(a, w, S) /\ SumsOver(b, v, S)
  BY SumsExist
<1>2. a[S] = b[S]
  <2>. HIDE DEF a, b
  <2>. QED BY <1>1, SumsAgree
<1>. QED BY <1>2 DEF Total

\* Nothing sums to zero.
LEMMA TotalOfEmpty == ASSUME NEW w PROVE Total(w, {}) = 0
<1> DEFINE a == SumsOf(w, {})
<1>1. SumsOver(a, w, {})
  BY SumsExist, FS_EmptySet
<1>2. a[{}] = 0
  <2>. HIDE DEF a
  <2>. QED BY <1>1, SumsAt
<1>. QED BY <1>2 DEF Total

\* One member is taken and the rest is summed.
LEMMA TotalPicks ==
  ASSUME NEW S, IsFiniteSet(S), S # {}, NEW w
  PROVE  Total(w, S) = w[Pick(S)] + Total(w, S \ {Pick(S)})
<1> DEFINE R == S \ {Pick(S)}
           a == SumsOf(w, S)
           b == SumsOf(w, R)
<1>0. IsFiniteSet(R)
  BY FS_Subset
<1>1. SumsOver(a, w, S) /\ SumsOver(b, w, R)
  BY <1>0, SumsExist
<1>2. a[S] = w[Pick(S)] + a[R]
  <2>. HIDE DEF a
  <2>. QED BY <1>1, SumsAt
<1>3. a[R] = b[R]
  <2>1. R \subseteq S /\ R \subseteq R
    OBVIOUS
  <2>. HIDE DEF a, b, R
  <2>. QED BY <1>1, <2>1, SumsAgree
<1>. QED BY <1>2, <1>3 DEF Total

\* Natural weights have a natural total.
LEMMA TotalIsNat ==
  ASSUME NEW S, IsFiniteSet(S), NEW w, \A x \in S : w[x] \in Nat
  PROVE  Total(w, S) \in Nat
<1> DEFINE C == {T \in SUBSET S : Total(w, T) \notin Nat}
<1>1. SUFFICES ASSUME C # {} PROVE FALSE
  <2>1. C = {} => Total(w, S) \in Nat
    OBVIOUS
  <2>. QED BY <2>1
<1>2. PICK T \in C : \A U \in C : U \subseteq T => U = T
  <2>1. C \subseteq SUBSET S
    OBVIOUS
  <2>. HIDE DEF C
  <2>. QED BY <1>1, <2>1, MinimalSubset
<1>3. T # {}
  BY TotalOfEmpty
<1>4. IsFiniteSet(T) /\ Pick(T) \in T
  BY <1>3, PickInSet, FS_Subset
<1>5. Total(w, T \ {Pick(T)}) \in Nat
  BY <1>2, <1>4
<1>6. Total(w, T) = w[Pick(T)] + Total(w, T \ {Pick(T)})
  BY <1>3, <1>4, TotalPicks
<1>7. w[Pick(T)] \in Nat
  BY <1>4
<1>. QED BY <1>5, <1>6, <1>7

\* Whole weights have a whole total.
LEMMA TotalIsInt ==
  ASSUME NEW S, IsFiniteSet(S), NEW w, \A x \in S : w[x] \in Int
  PROVE  Total(w, S) \in Int
<1> DEFINE C == {T \in SUBSET S : Total(w, T) \notin Int}
<1>1. SUFFICES ASSUME C # {} PROVE FALSE
  <2>1. C = {} => Total(w, S) \in Int
    OBVIOUS
  <2>. QED BY <2>1
<1>2. PICK T \in C : \A U \in C : U \subseteq T => U = T
  <2>1. C \subseteq SUBSET S
    OBVIOUS
  <2>. HIDE DEF C
  <2>. QED BY <1>1, <2>1, MinimalSubset
<1>3. T # {}
  BY TotalOfEmpty
<1>4. IsFiniteSet(T) /\ Pick(T) \in T
  BY <1>3, PickInSet, FS_Subset
<1>5. Total(w, T \ {Pick(T)}) \in Int
  BY <1>2, <1>4
<1>6. Total(w, T) = w[Pick(T)] + Total(w, T \ {Pick(T)})
  BY <1>3, <1>4, TotalPicks
<1>7. w[Pick(T)] \in Int
  BY <1>4
<1>. QED BY <1>5, <1>6, <1>7

LEMMA TotalOfZeros ==
  ASSUME NEW S, IsFiniteSet(S), NEW w, \A x \in S : w[x] = 0
  PROVE  Total(w, S) = 0
<1> DEFINE C == {T \in SUBSET S : Total(w, T) # 0}
<1>1. SUFFICES ASSUME C # {} PROVE FALSE
  <2>1. C = {} => Total(w, S) = 0
    OBVIOUS
  <2>. QED BY <2>1
<1>2. PICK T \in C : \A U \in C : U \subseteq T => U = T
  <2>1. C \subseteq SUBSET S
    OBVIOUS
  <2>. HIDE DEF C
  <2>. QED BY <1>1, <2>1, MinimalSubset
<1>3. T # {}
  BY TotalOfEmpty
<1>4. IsFiniteSet(T) /\ Pick(T) \in T
  BY <1>3, PickInSet, FS_Subset
<1>5. Total(w, T \ {Pick(T)}) = 0
  BY <1>2, <1>4
<1>6. Total(w, T) = w[Pick(T)] + Total(w, T \ {Pick(T)})
  BY <1>3, <1>4, TotalPicks
<1>7. w[Pick(T)] = 0
  BY <1>4
<1>. QED BY <1>5, <1>6, <1>7

\* The order does not matter: any member may be taken first.
LEMMA TotalTakes ==
  ASSUME NEW S, IsFiniteSet(S), NEW w, \A y \in S : w[y] \in Int, NEW x \in S
  PROVE  Total(w, S) = w[x] + Total(w, S \ {x})
<1> DEFINE C == {T \in SUBSET S : \E y \in T : Total(w, T) # w[y] + Total(w, T \ {y})}
<1>1. SUFFICES ASSUME C # {} PROVE FALSE
  <2>1. C = {} => Total(w, S) = w[x] + Total(w, S \ {x})
    OBVIOUS
  <2>. QED BY <2>1
<1>2. PICK T \in C : \A U \in C : U \subseteq T => U = T
  <2>1. C \subseteq SUBSET S
    OBVIOUS
  <2>. HIDE DEF C
  <2>. QED BY <1>1, <2>1, MinimalSubset
<1>3. PICK y \in T : Total(w, T) # w[y] + Total(w, T \ {y})
  OBVIOUS
<1> DEFINE c == Pick(T)
           A == T \ {c}
           B == T \ {y}
           D == (T \ {c}) \ {y}
<1>4. c \in T /\ IsFiniteSet(T) /\ IsFiniteSet(A) /\ IsFiniteSet(B) /\ IsFiniteSet(D)
  BY PickInSet, FS_Subset
<1>5. Total(w, T) = w[c] + Total(w, A)
  BY <1>4, TotalPicks
<1>6. c # y
  BY <1>5, <1>3
<1>7. Total(w, A) = w[y] + Total(w, D)
  <2>1. A \in SUBSET S /\ A \subseteq T /\ A # T /\ y \in A
    BY <1>4, <1>6
  <2>. QED BY <2>1, <1>2
<1>8. Total(w, B) = w[c] + Total(w, D)
  <2>1. B \in SUBSET S /\ B \subseteq T /\ B # T /\ c \in B
    BY <1>4, <1>6
  <2>2. D = B \ {c}
    OBVIOUS
  <2>. QED BY <2>1, <2>2, <1>2
<1>9. w[c] \in Int /\ w[y] \in Int /\ Total(w, D) \in Int
  BY <1>4, TotalIsInt
<1>. QED
  <2>. HIDE DEF c, A, B, D
  <2>1. Total(w, T) = w[y] + Total(w, B)
     BY <1>5, <1>7, <1>8, <1>9
  <2>. QED BY <2>1, <1>3 DEF B

\* One weight changes, and the total by as much.
LEMMA TotalMoves ==
  ASSUME NEW S, IsFiniteSet(S), NEW w, NEW v, NEW x \in S,
         \A y \in S : w[y] \in Int /\ v[y] \in Int,
         \A y \in S \ {x} : w[y] = v[y]
  PROVE  Total(v, S) = Total(w, S) + v[x] - w[x]
<1> DEFINE R == S \ {x}
<1>1. IsFiniteSet(R)
  BY FS_Subset
<1>2. Total(w, R) = Total(v, R)
  BY <1>1, TotalAgrees
<1>3. Total(w, S) = w[x] + Total(w, R) /\ Total(v, S) = v[x] + Total(v, R)
  BY TotalTakes
<1>4. Total(w, R) \in Int
  BY <1>1, TotalIsInt
<1>. QED BY <1>2, <1>3, <1>4

\* Totals of disjoint sets add up.
LEMMA TotalOfUnion ==
  ASSUME NEW A, NEW B, IsFiniteSet(A), IsFiniteSet(B), A \cap B = {},
         NEW w, \A x \in A \cup B : w[x] \in Nat
  PROVE  Total(w, A \cup B) = Total(w, A) + Total(w, B)
<1> DEFINE C == {T \in SUBSET B : Total(w, A \cup T) # Total(w, A) + Total(w, T)}
<1>1. SUFFICES ASSUME C # {} PROVE FALSE
  <2>1. C = {} => Total(w, A \cup B) = Total(w, A) + Total(w, B)
    OBVIOUS
  <2>. QED BY <2>1
<1>2. PICK T \in C : \A U \in C : U \subseteq T => U = T
  <2>1. C \subseteq SUBSET B
    OBVIOUS
  <2>. HIDE DEF C
  <2>. QED BY <1>1, <2>1, MinimalSubset
<1>3. Total(w, A) \in Nat
  BY TotalIsNat
<1>4. T # {}
  <2>1. A \cup {} = A
    OBVIOUS
  <2>2. Total(w, A \cup {}) = Total(w, A) + Total(w, {})
    BY <2>1, <1>3, TotalOfEmpty
  <2>. QED BY <2>2
<1>5. PICK x \in T : TRUE
  BY <1>4
<1> DEFINE R == T \ {x}
<1>6. IsFiniteSet(T) /\ IsFiniteSet(A \cup T) /\ IsFiniteSet(R)
  BY FS_Subset, FS_Union
<1>7. Total(w, A \cup T) = w[x] + Total(w, (A \cup T) \ {x})
  <2>1. \A y \in A \cup T : w[y] \in Nat
    OBVIOUS
  <2>. QED BY <1>6, <2>1, TotalTakes
<1>8. (A \cup T) \ {x} = A \cup R
  OBVIOUS
<1>9. Total(w, A \cup R) = Total(w, A) + Total(w, R)
  <2>1. R \in SUBSET B /\ R \subseteq T /\ R # T
    OBVIOUS
  <2>. QED BY <2>1, <1>2
<1>10. Total(w, T) = w[x] + Total(w, R)
  <2>1. \A y \in T : w[y] \in Nat
    OBVIOUS
  <2>. QED BY <1>6, <2>1, TotalTakes
<1>11. w[x] \in Nat /\ Total(w, R) \in Nat
  BY <1>6, TotalIsNat
<1>. QED
  <2>1. Total(w, A \cup T) = w[x] + (Total(w, A) + Total(w, R))
    BY <1>7, <1>8, <1>9, Zenon
  <2>2. Total(w, A) + Total(w, T) = w[x] + (Total(w, A) + Total(w, R))
    <3>. HIDE DEF R
    <3>. QED BY <1>3, <1>10, <1>11
  <2>. QED BY <2>1, <2>2, Zenon

\* A larger set has no smaller total.
LEMMA TotalGrows ==
  ASSUME NEW A, NEW B, IsFiniteSet(B), A \subseteq B,
         NEW w, \A x \in B : w[x] \in Nat
  PROVE  Total(w, A) <= Total(w, B)
<1>1. IsFiniteSet(A) /\ IsFiniteSet(B \ A)
  BY FS_Subset
<1>2. Total(w, A \cup (B \ A)) = Total(w, A) + Total(w, B \ A)
  <2>1. \A x \in A \cup (B \ A) : w[x] \in Nat
    OBVIOUS
  <2>. QED BY <1>1, <2>1, TotalOfUnion
<1>3. Total(w, A) \in Nat /\ Total(w, B \ A) \in Nat
  BY <1>1, TotalIsNat
<1>4. A \cup (B \ A) = B
  OBVIOUS
<1>5. Total(w, B) = Total(w, A) + Total(w, B \ A)
  BY <1>2, <1>4, Zenon
<1>. QED BY <1>3, <1>5
=============================================================================
