---------------------------- MODULE Foundations ------------------------------
(***************************************************************************)
(* Lemmas about data that the proofs of every component share: the         *)
(* induction principles (a least natural, a least subset), what a sum over *)
(* a finite set returns, that folds and iterations have the functions they *)
(* are defined by, and that a strict order ranks what it orders.           *)
(***************************************************************************)
EXTENDS Integers, Functions, FiniteSetsExt, FiniteSetTheorems, TLAPS

\* A nonempty set of naturals has a least element: the intervals below its elements,
\* cut at one of them, are finite sets, which inclusion orders well.
LEMMA LeastNatural ==
  ASSUME NEW T \in SUBSET Nat, T # {}
  PROVE  \E x \in T : \A y \in T : x <= y
<1>1. PICK m \in T : TRUE
  OBVIOUS
<1> DEFINE S == 0..m
           Below == {0..k : k \in {j \in T : j <= m}}
<1>2. IsWellFoundedOn(StrictSubsetOrdering(S), FiniteSubsetsOf(S))
  BY FS_StrictSubsetOrderingWellFounded
<1>3. IsFiniteSet(S) /\ S \in Below
  BY FS_Interval
<1>4. Below \subseteq FiniteSubsetsOf(S)
  BY <1>3, FS_Subset DEF FiniteSubsetsOf
<1>5. PICK b \in Below : \A c \in Below : ~(<<c, b>> \in StrictSubsetOrdering(S))
  BY <1>2, <1>3, <1>4, WFMin
<1>6. PICK x \in T : x <= m /\ b = 0..x
  BY <1>5
<1>7. ASSUME NEW y \in T, y < x
      PROVE  FALSE
  <2>1. 0..y \in Below
    BY <1>6, <1>7
  <2>2. (0..y) \subseteq (0..x) /\ (0..y) # (0..x) /\ (0..x) \subseteq S
    BY <1>6, <1>7
  <2>3. <<0..y, 0..x>> \in StrictSubsetOrdering(S)
    BY <2>2 DEF StrictSubsetOrdering
  <2>4. QED
    BY <1>5, <1>6, <2>1, <2>3
<1>8. QED
  BY <1>7

\* A nonempty family of subsets of a finite set has a member that is least by inclusion.
LEMMA SmallestSet ==
  ASSUME NEW T, IsFiniteSet(T), NEW W \in SUBSET SUBSET T, W # {}
  PROVE  \E S \in W : IsFiniteSet(S) /\ \A U \in W : U \subseteq S => U = S
<1>1. IsWellFoundedOn(StrictSubsetOrdering(T), FiniteSubsetsOf(T))
  BY FS_StrictSubsetOrderingWellFounded
<1>2. W \subseteq FiniteSubsetsOf(T)
  BY FS_Subset DEF FiniteSubsetsOf
<1>3. PICK S \in W : \A U \in W : ~(<<U, S>> \in StrictSubsetOrdering(T))
  BY <1>1, <1>2, WFMin
<1>4. ASSUME NEW U \in W, U \subseteq S
      PROVE  U = S
  BY <1>3, <1>4 DEF StrictSubsetOrdering
<1>5. QED
  BY <1>2, <1>3, <1>4 DEF FiniteSubsetsOf

\* A finite set of integers has a largest one.
LEMMA LargestInteger ==
  ASSUME NEW S, IsFiniteSet(S), S # {}, \A x \in S : x \in Int
  PROVE  \E x \in S : \A y \in S : x >= y
<1> DEFINE Topped(U) == \E x \in U : \A y \in U : x >= y
           W == {U \in SUBSET S : U # {} /\ ~Topped(U)}
<1> SUFFICES ASSUME ~Topped(S) PROVE FALSE
  OBVIOUS
<1>1. W \in SUBSET SUBSET S /\ S \in W
  OBVIOUS
<1> HIDE DEF W
<1>2. PICK U \in W : IsFiniteSet(U) /\ \A V \in W : V \subseteq U => V = U
  BY <1>1, SmallestSet
<1> USE DEF W
<1>3. U # {} /\ ~Topped(U) /\ U \subseteq S
  BY <1>2
<1>4. PICK x \in U : TRUE
  BY <1>3
<1> DEFINE V == U \ {x}
<1>5. V \subseteq U /\ V # U /\ V \in SUBSET S
  BY <1>3, <1>4
<1>6. V \notin W
  BY <1>2, <1>5
<1>7. V = {} \/ Topped(V)
  BY <1>5, <1>6
<1>8. CASE V = {}
  <2>1. \A y \in U : y = x
    BY <1>8
  <2>2. Topped(U)
    BY <1>3, <1>4, <2>1
  <2>3. QED
    BY <1>3, <2>2
<1>9. CASE Topped(V)
  <2>1. PICK m \in V : \A y \in V : m >= y
    BY <1>9
  <2>2. m \in Int /\ x \in Int /\ m \in U
    BY <1>3, <1>4, <2>1
  <2>3. \A y \in U : y = x \/ y \in V
    OBVIOUS
  <2>4. \A y \in U : y \in Int
    BY <1>3
  <2>5. CASE m >= x
    BY <1>3, <2>1, <2>2, <2>3, <2>5
  <2>6. CASE ~(m >= x)
    <3>1. \A y \in U : x >= y
      BY <2>1, <2>2, <2>3, <2>4, <2>6
    <3>2. QED
      BY <1>3, <1>4, <3>1
  <2>7. QED
    BY <2>5, <2>6
<1>10. QED
  BY <1>7, <1>8, <1>9

-----------------------------------------------------------------------------
(* Sums over finite sets *)

Pick(s) == CHOOSE x \in s : TRUE

\* The recursion that SumFunctionOnSet(f, T) runs over the subsets of T.
IsSumTable(g, f, T) ==
  g = [s \in SUBSET T |-> IF s = {} THEN 0 ELSE f[Pick(s)] + g[s \ {Pick(s)}]]

LEMMA SumByTable ==
  ASSUME NEW f, NEW T
  PROVE  SumFunctionOnSet(f, T) = (CHOOSE g : IsSumTable(g, f, T))[T]
BY DEF SumFunctionOnSet, FoldFunctionOnSet, MapThenFoldSet, IsSumTable, Pick

\* Two tables agree on the finite sets they share.
LEMMA SumTablesAgree ==
  ASSUME NEW f, NEW A, NEW B, NEW g, NEW h, IsSumTable(g, f, A), IsSumTable(h, f, B),
         NEW S, IsFiniteSet(S), S \subseteq A, S \subseteq B
  PROVE  g[S] = h[S]
<1> SUFFICES ASSUME g[S] # h[S] PROVE FALSE
  OBVIOUS
<1> DEFINE W == {s \in SUBSET S : g[s] # h[s]}
<1>0. W \in SUBSET SUBSET S /\ S \in W
  OBVIOUS
<1> HIDE DEF W
<1>1. PICK s \in W : \A u \in W : u \subseteq s => u = s
  BY <1>0, SmallestSet
<1> USE DEF W
<1>2. g[s] = IF s = {} THEN 0 ELSE f[Pick(s)] + g[s \ {Pick(s)}]
  BY DEF IsSumTable
<1>3. h[s] = IF s = {} THEN 0 ELSE f[Pick(s)] + h[s \ {Pick(s)}]
  BY DEF IsSumTable
<1>4. s # {}
  BY <1>2, <1>3
<1>5. Pick(s) \in s
  BY <1>4 DEF Pick
<1>6. g[s \ {Pick(s)}] = h[s \ {Pick(s)}]
  BY <1>1, <1>5
<1>7. QED
  BY <1>2, <1>3, <1>6

\* Every finite set has a table, and its last entry is the sum.
LEMMA SumTableExists ==
  ASSUME NEW f, NEW T, IsFiniteSet(T)
  PROVE  \E g : IsSumTable(g, f, T)
<1> SUFFICES ASSUME ~\E g : IsSumTable(g, f, T) PROVE FALSE
  OBVIOUS
<1> DEFINE W == {s \in SUBSET T : ~\E g : IsSumTable(g, f, s)}
           Table(s) == CHOOSE g : IsSumTable(g, f, s)
           Value(s) == Table(s)[s]
<1>0. W \in SUBSET SUBSET T /\ T \in W
  OBVIOUS
<1> HIDE DEF W
<1>1. PICK S \in W : IsFiniteSet(S) /\ \A u \in W : u \subseteq S => u = S
  BY <1>0, SmallestSet
<1> USE DEF W
<1>2. ASSUME NEW s \in SUBSET S, s # S
      PROVE  IsSumTable(Table(s), f, s)
  BY <1>1, <1>2
<1> DEFINE g == [s \in SUBSET S |-> IF s = {} THEN 0 ELSE f[Pick(s)] + Value(s \ {Pick(s)})]
<1>3. ASSUME NEW s \in SUBSET S, s # {}
      PROVE  g[s \ {Pick(s)}] = Value(s \ {Pick(s)})
  <2> DEFINE r == s \ {Pick(s)}
  <2>1. Pick(s) \in s
    BY <1>3 DEF Pick
  <2>2. r \in SUBSET S /\ r # S
    BY <2>1
  <2>3. IsSumTable(Table(r), f, r)
    BY <1>2, <2>2
  <2> HIDE DEF Table
  <2>4. Table(r)[r] = IF r = {} THEN 0 ELSE f[Pick(r)] + Table(r)[r \ {Pick(r)}]
    BY <2>3 DEF IsSumTable
  <2>5. CASE r = {}
    BY <2>2, <2>4, <2>5
  <2>6. CASE r # {}
    <3> DEFINE q == r \ {Pick(r)}
    <3>1. q \subseteq r /\ q \subseteq S /\ q # S
      BY <2>2
    <3>2. IsSumTable(Table(q), f, q)
      BY <1>2, <3>1
    <3>3. IsFiniteSet(q)
      BY <1>1, <3>1, FS_Subset
    <3>4. Table(r)[q] = Table(q)[q]
      BY <2>3, <3>1, <3>2, <3>3, SumTablesAgree
    <3>5. QED
      BY <2>2, <2>4, <2>6, <3>4
  <2>7. QED
    BY <2>5, <2>6
<1>4. IsSumTable(g, f, S)
  <2> HIDE DEF Value
  <2>1. \A s \in SUBSET S : g[s] = IF s = {} THEN 0 ELSE f[Pick(s)] + g[s \ {Pick(s)}]
    BY <1>3
  <2>2. g = [s \in SUBSET S |-> g[s]]
    OBVIOUS
  <2> HIDE DEF g
  <2>3. QED
    BY <2>1, <2>2 DEF IsSumTable
<1>5. QED
  BY <1>1, <1>4

LEMMA SumStep ==
  ASSUME NEW f, NEW T, IsFiniteSet(T)
  PROVE  SumFunctionOnSet(f, T)
           = IF T = {} THEN 0 ELSE f[Pick(T)] + SumFunctionOnSet(f, T \ {Pick(T)})
<1> DEFINE Table(s) == CHOOSE g : IsSumTable(g, f, s)
           r == T \ {Pick(T)}
<1>1. IsFiniteSet(r) /\ r \subseteq T
  BY FS_Subset
<1>2. IsSumTable(Table(T), f, T) /\ IsSumTable(Table(r), f, r)
  BY <1>1, SumTableExists
<1>3. SumFunctionOnSet(f, T) = Table(T)[T] /\ SumFunctionOnSet(f, r) = Table(r)[r]
  BY SumByTable
<1> HIDE DEF Table
<1>4. Table(T)[T] = IF T = {} THEN 0 ELSE f[Pick(T)] + Table(T)[r]
  BY <1>2 DEF IsSumTable
<1>5. Table(T)[r] = Table(r)[r]
  BY <1>1, <1>2, SumTablesAgree
<1>6. QED
  BY <1>3, <1>4, <1>5

\* An empty sum is 0.
LEMMA SumEmpty ==
  ASSUME NEW f
  PROVE  SumFunctionOnSet(f, {}) = 0
BY SumStep, FS_EmptySet

\* A sum of integers is an integer, of naturals a natural.
LEMMA SumType ==
  ASSUME NEW f, NEW T, IsFiniteSet(T), NEW R, R \in {Nat, Int}, \A x \in T : f[x] \in R
  PROVE  SumFunctionOnSet(f, T) \in R
<1> SUFFICES ASSUME SumFunctionOnSet(f, T) \notin R PROVE FALSE
  OBVIOUS
<1> DEFINE W == {s \in SUBSET T : SumFunctionOnSet(f, s) \notin R}
<1>0. W \in SUBSET SUBSET T /\ T \in W
  OBVIOUS
<1> HIDE DEF W
<1>1. PICK s \in W : IsFiniteSet(s) /\ \A u \in W : u \subseteq s => u = s
  BY <1>0, SmallestSet
<1> USE DEF W
<1>2. s # {}
  BY <1>1, SumEmpty
<1>3. Pick(s) \in s
  BY <1>2 DEF Pick
<1>4. SumFunctionOnSet(f, s \ {Pick(s)}) \in R
  BY <1>1, <1>3
<1>5. f[Pick(s)] + SumFunctionOnSet(f, s \ {Pick(s)}) \in R
  BY <1>3, <1>4
<1>6. QED
  BY <1>1, <1>2, <1>5, SumStep

\* The order does not matter: any element may be taken out of a sum.
LEMMA SumRemove ==
  ASSUME NEW f, NEW T, IsFiniteSet(T), \A x \in T : f[x] \in Int, NEW y \in T
  PROVE  SumFunctionOnSet(f, T) = f[y] + SumFunctionOnSet(f, T \ {y})
<1> DEFINE Sum(s) == SumFunctionOnSet(f, s)
           Good(s) == \A x \in s : Sum(s) = f[x] + Sum(s \ {x})
           W == {s \in SUBSET T : ~Good(s)}
<1> SUFFICES ASSUME ~Good(T) PROVE FALSE
  OBVIOUS
<1> HIDE DEF Good
<1>0. W \in SUBSET SUBSET T /\ T \in W
  OBVIOUS
<1> HIDE DEF W
<1>1. PICK s \in W : IsFiniteSet(s) /\ \A u \in W : u \subseteq s => u = s
  BY <1>0, SmallestSet
<1> USE DEF W
<1> USE DEF Good
<1>2. PICK x \in s : Sum(s) # f[x] + Sum(s \ {x})
  BY <1>1
<1> DEFINE p == Pick(s)
<1>3. p \in s
  BY <1>2 DEF Pick
<1>4. Sum(s) = f[p] + Sum(s \ {p})
  BY <1>1, <1>2, SumStep
<1>5. p # x
  BY <1>2, <1>4
<1>6. Good(s \ {p}) /\ Good(s \ {x})
  BY <1>1, <1>3
<1>7. Sum(s \ {p}) = f[x] + Sum((s \ {p}) \ {x}) /\ Sum(s \ {x}) = f[p] + Sum((s \ {x}) \ {p})
  BY <1>3, <1>5, <1>6
<1>8. (s \ {p}) \ {x} = (s \ {x}) \ {p}
  OBVIOUS
<1>9. Sum((s \ {p}) \ {x}) \in Int
  BY <1>1, FS_Subset, SumType
<1>10. f[x] \in Int /\ f[p] \in Int
  BY <1>3
<1>11. Sum(s) = f[p] + (f[x] + Sum((s \ {p}) \ {x})) /\ Sum(s \ {x}) = f[p] + Sum((s \ {p}) \ {x})
  BY <1>4, <1>7, <1>8
<1> HIDE DEF Sum, p, Good, W
<1>12. QED
  BY <1>2, <1>9, <1>10, <1>11

\* Equal terms, equal sums.
LEMMA SumSame ==
  ASSUME NEW f, NEW g, NEW T, IsFiniteSet(T), \A x \in T : f[x] = g[x]
  PROVE  SumFunctionOnSet(f, T) = SumFunctionOnSet(g, T)
<1> SUFFICES ASSUME SumFunctionOnSet(f, T) # SumFunctionOnSet(g, T) PROVE FALSE
  OBVIOUS
<1> DEFINE W == {s \in SUBSET T : SumFunctionOnSet(f, s) # SumFunctionOnSet(g, s)}
<1>0. W \in SUBSET SUBSET T /\ T \in W
  OBVIOUS
<1> HIDE DEF W
<1>1. PICK s \in W : IsFiniteSet(s) /\ \A u \in W : u \subseteq s => u = s
  BY <1>0, SmallestSet
<1> USE DEF W
<1>2. s # {}
  BY <1>1, SumEmpty
<1>3. Pick(s) \in s
  BY <1>2 DEF Pick
<1>4. SumFunctionOnSet(f, s \ {Pick(s)}) = SumFunctionOnSet(g, s \ {Pick(s)})
  BY <1>1, <1>3
<1>5. f[Pick(s)] = g[Pick(s)]
  BY <1>3
<1>6. QED
  BY <1>1, <1>2, <1>4, <1>5, SumStep

\* What changes in one term changes in the sum.
LEMMA SumChange ==
  ASSUME NEW f, NEW g, NEW T, IsFiniteSet(T), NEW y \in T,
         \A x \in T : f[x] \in Int, g[y] \in Int, \A x \in T \ {y} : g[x] = f[x]
  PROVE  SumFunctionOnSet(g, T) = SumFunctionOnSet(f, T) - f[y] + g[y]
<1>1. SumFunctionOnSet(g, T) = g[y] + SumFunctionOnSet(g, T \ {y})
  BY SumRemove
<1>2. SumFunctionOnSet(f, T) = f[y] + SumFunctionOnSet(f, T \ {y})
  BY SumRemove
<1>3. SumFunctionOnSet(g, T \ {y}) = SumFunctionOnSet(f, T \ {y})
  BY FS_Subset, SumSame
<1>4. SumFunctionOnSet(f, T \ {y}) \in Int
  BY FS_Subset, SumType
<1>5. QED
  BY <1>1, <1>2, <1>3, <1>4

\* A sum of zeros is 0.
LEMMA SumZero ==
  ASSUME NEW f, NEW T, IsFiniteSet(T), \A x \in T : f[x] = 0
  PROVE  SumFunctionOnSet(f, T) = 0
<1> SUFFICES ASSUME SumFunctionOnSet(f, T) # 0 PROVE FALSE
  OBVIOUS
<1> DEFINE W == {s \in SUBSET T : SumFunctionOnSet(f, s) # 0}
<1>0. W \in SUBSET SUBSET T /\ T \in W
  OBVIOUS
<1> HIDE DEF W
<1>1. PICK s \in W : IsFiniteSet(s) /\ \A u \in W : u \subseteq s => u = s
  BY <1>0, SmallestSet
<1> USE DEF W
<1>2. s # {}
  BY <1>1, SumEmpty
<1>3. Pick(s) \in s
  BY <1>2 DEF Pick
<1>4. SumFunctionOnSet(f, s \ {Pick(s)}) = 0
  BY <1>1, <1>3
<1>5. QED
  BY <1>1, <1>2, <1>3, <1>4, SumStep

LEMMA Distributes ==
  ASSUME NEW p \in Int, NEW a \in Int, NEW b \in Int
  PROVE  p * (a + b) = p * a + p * b
OBVIOUS

\* Proportional terms, proportional sums.
LEMMA SumScale ==
  ASSUME NEW f, NEW g, NEW T, IsFiniteSet(T), NEW p \in Int, NEW q \in Int,
         \A x \in T : f[x] \in Int /\ g[x] \in Int /\ p * f[x] = q * g[x]
  PROVE  p * SumFunctionOnSet(f, T) = q * SumFunctionOnSet(g, T)
<1> DEFINE F(s) == SumFunctionOnSet(f, s)
           G(s) == SumFunctionOnSet(g, s)
           W == {s \in SUBSET T : p * F(s) # q * G(s)}
<1> SUFFICES ASSUME T \in W PROVE FALSE
  OBVIOUS
<1>0. W \in SUBSET SUBSET T
  OBVIOUS
<1> HIDE DEF W
<1>1. PICK s \in W : IsFiniteSet(s) /\ \A u \in W : u \subseteq s => u = s
  BY <1>0, SmallestSet
<1> USE DEF W
<1>2. s # {}
  <2>1. F({}) = 0 /\ G({}) = 0
    BY SumEmpty
  <2>2. p * F(s) # q * G(s)
    OBVIOUS
  <2> HIDE DEF F, G, W
  <2>3. p * 0 = 0 /\ q * 0 = 0
    OBVIOUS
  <2>4. QED
    BY <2>1, <2>2, <2>3
<1> DEFINE x == Pick(s)
           r == s \ {x}
<1>3. x \in s /\ x \in T
  BY <1>2 DEF Pick
<1>4. p * F(r) = q * G(r)
  BY <1>1, <1>3
<1>5. F(s) = f[x] + F(r) /\ G(s) = g[x] + G(r)
  BY <1>1, <1>2, SumStep
<1>6. F(r) \in Int /\ G(r) \in Int
  BY <1>1, FS_Subset, SumType
<1>7. f[x] \in Int /\ g[x] \in Int /\ p * f[x] = q * g[x]
  BY <1>3
<1>8. p * F(s) # q * G(s)
  OBVIOUS
<1> HIDE DEF F, G, x, r, W
<1>9. p * F(s) = p * f[x] + p * F(r) /\ q * G(s) = q * g[x] + q * G(r)
  BY <1>5, <1>6, <1>7, Distributes
<1>10. QED
  BY <1>4, <1>7, <1>8, <1>9

\* The sum of sums.
LEMMA SumAdd ==
  ASSUME NEW f, NEW g, NEW h, NEW T, IsFiniteSet(T),
         \A x \in T : f[x] \in Int /\ g[x] \in Int /\ h[x] = f[x] + g[x]
  PROVE  SumFunctionOnSet(h, T) = SumFunctionOnSet(f, T) + SumFunctionOnSet(g, T)
<1> DEFINE F(s) == SumFunctionOnSet(f, s)
           G(s) == SumFunctionOnSet(g, s)
           H(s) == SumFunctionOnSet(h, s)
           W == {s \in SUBSET T : H(s) # F(s) + G(s)}
<1> SUFFICES ASSUME T \in W PROVE FALSE
  OBVIOUS
<1>0. W \in SUBSET SUBSET T
  OBVIOUS
<1> HIDE DEF W
<1>1. PICK s \in W : IsFiniteSet(s) /\ \A u \in W : u \subseteq s => u = s
  BY <1>0, SmallestSet
<1> USE DEF W
<1>2. s # {}
  <2>1. F({}) = 0 /\ G({}) = 0 /\ H({}) = 0
    BY SumEmpty
  <2>2. H(s) # F(s) + G(s)
    OBVIOUS
  <2> HIDE DEF F, G, H, W
  <2>3. QED
    BY <2>1, <2>2
<1> DEFINE x == Pick(s)
           r == s \ {x}
<1>3. x \in s /\ x \in T
  BY <1>2 DEF Pick
<1>4. H(r) = F(r) + G(r)
  BY <1>1, <1>3
<1>5. F(s) = f[x] + F(r) /\ G(s) = g[x] + G(r) /\ H(s) = h[x] + H(r)
  BY <1>1, <1>2, SumStep
<1>6. F(r) \in Int /\ G(r) \in Int
  BY <1>1, FS_Subset, SumType
<1>7. f[x] \in Int /\ g[x] \in Int /\ h[x] = f[x] + g[x]
  BY <1>3
<1>8. H(s) # F(s) + G(s)
  OBVIOUS
<1> HIDE DEF F, G, H, x, r, W
<1>9. QED
  BY <1>4, <1>5, <1>6, <1>7, <1>8

\* Smaller terms, smaller sum.
LEMMA SumAtMost ==
  ASSUME NEW f, NEW g, NEW T, IsFiniteSet(T),
         \A x \in T : f[x] \in Int /\ g[x] \in Int /\ f[x] <= g[x]
  PROVE  SumFunctionOnSet(f, T) <= SumFunctionOnSet(g, T)
<1> DEFINE F(s) == SumFunctionOnSet(f, s)
           G(s) == SumFunctionOnSet(g, s)
           W == {s \in SUBSET T : ~(F(s) <= G(s))}
<1> SUFFICES ASSUME T \in W PROVE FALSE
  OBVIOUS
<1>0. W \in SUBSET SUBSET T
  OBVIOUS
<1> HIDE DEF W
<1>1. PICK s \in W : IsFiniteSet(s) /\ \A u \in W : u \subseteq s => u = s
  BY <1>0, SmallestSet
<1> USE DEF W
<1>2. s # {}
  <2>1. F({}) = 0 /\ G({}) = 0
    BY SumEmpty
  <2>2. ~(F(s) <= G(s))
    OBVIOUS
  <2> HIDE DEF F, G, W
  <2>3. QED
    BY <2>1, <2>2
<1> DEFINE x == Pick(s)
           r == s \ {x}
<1>3. x \in s /\ x \in T
  BY <1>2 DEF Pick
<1>4. F(r) <= G(r)
  BY <1>1, <1>3
<1>5. F(s) = f[x] + F(r) /\ G(s) = g[x] + G(r)
  BY <1>1, <1>2, SumStep
<1>6. F(r) \in Int /\ G(r) \in Int
  BY <1>1, FS_Subset, SumType
<1>7. f[x] \in Int /\ g[x] \in Int /\ f[x] <= g[x]
  BY <1>3
<1>8. ~(F(s) <= G(s))
  OBVIOUS
<1> HIDE DEF F, G, x, r, W
<1>9. QED
  BY <1>4, <1>5, <1>6, <1>7, <1>8

\* As many ones as there are elements.
LEMMA SumOnes ==
  ASSUME NEW f, NEW T, IsFiniteSet(T), \A x \in T : f[x] = 1
  PROVE  SumFunctionOnSet(f, T) = Cardinality(T)
<1> DEFINE Good(s) == SumFunctionOnSet(f, s) = Cardinality(s)
           W == {s \in SUBSET T : ~Good(s)}
<1> SUFFICES ASSUME ~Good(T) PROVE FALSE
  OBVIOUS
<1>0. W \in SUBSET SUBSET T /\ T \in W
  OBVIOUS
<1> HIDE DEF W
<1>1. PICK s \in W : IsFiniteSet(s) /\ \A u \in W : u \subseteq s => u = s
  BY <1>0, SmallestSet
<1> USE DEF W
<1>2. s # {}
  BY <1>1, SumEmpty, FS_EmptySet
<1> DEFINE x == Pick(s)
           r == s \ {x}
<1>3. x \in s
  BY <1>2 DEF Pick
<1>4. Good(r) /\ IsFiniteSet(r)
  BY <1>1, <1>3, FS_Subset
<1>5. Cardinality(r) = Cardinality(s) - 1 /\ Cardinality(s) \in Nat
  BY <1>1, <1>3, FS_RemoveElement, FS_CardinalityType
<1>6. SumFunctionOnSet(f, s) = f[x] + SumFunctionOnSet(f, r)
  BY <1>1, <1>2, SumStep
<1>7. f[x] = 1
  BY <1>3
<1> HIDE DEF r, x
<1>8. QED
  BY <1>4, <1>5, <1>6, <1>7

\* Sums may be taken in either order.
LEMMA SumSwap ==
  ASSUME NEW S, NEW T, IsFiniteSet(S), IsFiniteSet(T), NEW e,
         \A s \in S : \A t \in T : e[<<s, t>>] \in Int
  PROVE  SumFunctionOnSet([s \in S |-> SumFunctionOnSet([t \in T |-> e[<<s, t>>]], T)], S)
           = SumFunctionOnSet([t \in T |-> SumFunctionOnSet([s \in S |-> e[<<s, t>>]], S)], T)
<1> DEFINE row(s) == [t \in T |-> e[<<s, t>>]]
           rows == [s \in S |-> SumFunctionOnSet(row(s), T)]
           column(t) == [s \in S |-> e[<<s, t>>]]
           columns(U) == [t \in T |-> SumFunctionOnSet(column(t), U)]
           Good(U) == SumFunctionOnSet(rows, U) = SumFunctionOnSet(columns(U), T)
           W == {U \in SUBSET S : ~Good(U)}
<1> SUFFICES ASSUME ~Good(S) PROVE FALSE
  OBVIOUS
<1>0. W \in SUBSET SUBSET S /\ S \in W
  BY Zenon
<1> HIDE DEF W
<1>1. PICK U \in W : IsFiniteSet(U) /\ \A V \in W : V \subseteq U => V = U
  BY <1>0, SmallestSet
<1> HIDE DEF Good
<1>2. U \in SUBSET S /\ ~Good(U) /\ \A V \in SUBSET S : V \subseteq U /\ V # U => Good(V)
  BY <1>1 DEF W
<1> USE DEF Good
<1>3. CASE U = {}
  <2>1. \A t \in T : columns({})[t] = 0
    BY SumEmpty
  <2>2. SumFunctionOnSet(rows, {}) = 0
    BY SumEmpty
  <2> HIDE DEF columns, rows
  <2>3. SumFunctionOnSet(columns({}), T) = 0
    BY <2>1, SumZero
  <2>4. QED
    BY <1>2, <1>3, <2>2, <2>3
<1>4. CASE U # {}
  <2> DEFINE x == Pick(U)
             V == U \ {x}
  <2>1. x \in U /\ x \in S
    BY <1>2, <1>4 DEF Pick
  <2>2. V \in SUBSET S /\ V # U /\ V \subseteq U /\ IsFiniteSet(V)
    BY <1>1, <1>2, <2>1, FS_Subset
  <2>3. Good(V)
    BY <1>2, <2>2
  <2>4. SumFunctionOnSet(rows, U) = SumFunctionOnSet(row(x), T) + SumFunctionOnSet(rows, V)
    <3>1. rows[x] = SumFunctionOnSet(row(x), T)
      BY <2>1
    <3> HIDE DEF rows
    <3>2. QED
      BY <1>1, <1>4, <3>1, SumStep
  <2>5. \A t \in T : /\ row(x)[t] \in Int /\ columns(V)[t] \in Int
                     /\ columns(U)[t] = row(x)[t] + columns(V)[t]
    <3> SUFFICES ASSUME NEW t \in T
                 PROVE  /\ row(x)[t] \in Int /\ columns(V)[t] \in Int
                        /\ columns(U)[t] = row(x)[t] + columns(V)[t]
      OBVIOUS
    <3>1. columns(U)[t] = SumFunctionOnSet(column(t), U)
          /\ columns(V)[t] = SumFunctionOnSet(column(t), V)
      OBVIOUS
    <3>2. row(x)[t] = column(t)[x] /\ \A s \in V : column(t)[s] \in Int
      BY <2>1, <2>2
    <3>3. column(t)[x] \in Int
      BY <2>1
    <3> HIDE DEF column, columns, row
    <3>4. SumFunctionOnSet(column(t), V) \in Int
      BY <2>2, <3>2, SumType
    <3>5. SumFunctionOnSet(column(t), U) = column(t)[x] + SumFunctionOnSet(column(t), V)
      BY <1>1, <1>4, SumStep
    <3>6. QED
      BY <3>1, <3>2, <3>3, <3>4, <3>5
  <2> HIDE DEF columns, row, rows
  <2> DEFINE a == row(x)
             b == columns(V)
             c == columns(U)
  <2> HIDE DEF V
  <2>6. SumFunctionOnSet(c, T) = SumFunctionOnSet(a, T) + SumFunctionOnSet(b, T)
    <3>1. \A t \in T : a[t] \in Int /\ b[t] \in Int /\ c[t] = a[t] + b[t]
      BY <2>5
    <3> HIDE DEF a, b, c
    <3>2. QED
      BY <3>1, SumAdd
  <2>7. QED
    BY <1>2, <2>3, <2>4, <2>6
<1>5. QED
  BY <1>3, <1>4

-----------------------------------------------------------------------------
(* Folds over finite sets, and iteration *)

\* The recursion by which MapThenFoldSet folds the function op over the subsets of T; it
\* takes the elements out in the order of pick.
Picks(pick, T) == \A s \in SUBSET T : s # {} => pick[s] \in s

IsPickTable(g, op, pick, base, T) ==
  g = [s \in SUBSET T |-> IF s = {} THEN base ELSE op[<<pick[s], g[s \ {pick[s]}]>>]]

LEMMA PickTablesAgree ==
  ASSUME NEW op, NEW pick, NEW base, NEW A, NEW B, NEW g, NEW h,
         IsPickTable(g, op, pick, base, A), IsPickTable(h, op, pick, base, B),
         NEW S, IsFiniteSet(S), S \subseteq A, S \subseteq B, Picks(pick, S)
  PROVE  g[S] = h[S]
<1> SUFFICES ASSUME g[S] # h[S] PROVE FALSE
  OBVIOUS
<1> DEFINE W == {s \in SUBSET S : g[s] # h[s]}
<1>0. W \in SUBSET SUBSET S /\ S \in W
  OBVIOUS
<1> HIDE DEF W
<1>1. PICK s \in W : \A u \in W : u \subseteq s => u = s
  BY <1>0, SmallestSet
<1> USE DEF W
<1>2. g[s] = IF s = {} THEN base ELSE op[<<pick[s], g[s \ {pick[s]}]>>]
  BY DEF IsPickTable
<1>3. h[s] = IF s = {} THEN base ELSE op[<<pick[s], h[s \ {pick[s]}]>>]
  BY DEF IsPickTable
<1>4. s # {}
  BY <1>2, <1>3
<1>5. pick[s] \in s
  BY <1>4 DEF Picks
<1>6. g[s \ {pick[s]}] = h[s \ {pick[s]}]
  BY <1>1, <1>5
<1>7. QED
  BY <1>2, <1>3, <1>6

LEMMA PickTableExists ==
  ASSUME NEW op, NEW pick, NEW base, NEW T, IsFiniteSet(T), Picks(pick, T)
  PROVE  \E g : IsPickTable(g, op, pick, base, T)
<1> SUFFICES ASSUME ~\E g : IsPickTable(g, op, pick, base, T) PROVE FALSE
  OBVIOUS
<1> DEFINE W == {s \in SUBSET T : ~\E g : IsPickTable(g, op, pick, base, s)}
           Table(s) == CHOOSE g : IsPickTable(g, op, pick, base, s)
           Value(s) == Table(s)[s]
<1>0. W \in SUBSET SUBSET T /\ T \in W
  OBVIOUS
<1> HIDE DEF W
<1>1. PICK S \in W : IsFiniteSet(S) /\ \A u \in W : u \subseteq S => u = S
  BY <1>0, SmallestSet
<1> USE DEF W
<1>2. ASSUME NEW s \in SUBSET S, s # S
      PROVE  IsPickTable(Table(s), op, pick, base, s)
  BY <1>1, <1>2
<1> DEFINE g == [s \in SUBSET S |-> IF s = {} THEN base ELSE op[<<pick[s], Value(s \ {pick[s]})>>]]
<1>3. ASSUME NEW s \in SUBSET S, s # {}
      PROVE  g[s \ {pick[s]}] = Value(s \ {pick[s]})
  <2> DEFINE r == s \ {pick[s]}
  <2>1. pick[s] \in s
    BY <1>3 DEF Picks
  <2>2. r \in SUBSET S /\ r # S
    BY <2>1
  <2>3. IsPickTable(Table(r), op, pick, base, r)
    BY <1>2, <2>2
  <2> HIDE DEF Table
  <2>4. Table(r)[r] = IF r = {} THEN base ELSE op[<<pick[r], Table(r)[r \ {pick[r]}]>>]
    BY <2>3 DEF IsPickTable
  <2>5. CASE r = {}
    BY <2>2, <2>4, <2>5
  <2>6. CASE r # {}
    <3> DEFINE q == r \ {pick[r]}
    <3>1. q \subseteq r /\ q \subseteq S /\ q # S
      BY <2>2
    <3>2. IsPickTable(Table(q), op, pick, base, q)
      BY <1>2, <3>1
    <3>3. IsFiniteSet(q)
      BY <1>1, <3>1, FS_Subset
    <3>4. Table(r)[q] = Table(q)[q]
      BY <2>3, <3>1, <3>2, <3>3, PickTablesAgree DEF Picks
    <3>5. QED
      BY <2>2, <2>4, <2>6, <3>4
  <2>7. QED
    BY <2>5, <2>6
<1>4. IsPickTable(g, op, pick, base, S)
  <2> HIDE DEF Value
  <2>1. \A s \in SUBSET S : g[s] = IF s = {} THEN base ELSE op[<<pick[s], g[s \ {pick[s]}]>>]
    BY <1>3
  <2>2. g = [s \in SUBSET S |-> g[s]]
    OBVIOUS
  <2> HIDE DEF g
  <2>3. QED
    BY <2>1, <2>2 DEF IsPickTable
<1>5. QED
  BY <1>1, <1>4

\* The fold of a set takes any element out.
IsFoldTable(g, op, base, T) ==
  g = [s \in SUBSET T |-> IF s = {} THEN base ELSE op[<<Pick(s), g[s \ {Pick(s)}]>>]]

\* Every fold over a finite set has a table of its type.
LEMMA FoldTable ==
  ASSUME NEW T, IsFiniteSet(T), NEW D, NEW op \in [T \X D -> D], NEW base \in D
  PROVE  \E g \in [SUBSET T -> D] : IsFoldTable(g, op, base, T)
<1>1. PICK g : IsFoldTable(g, op, base, T)
  <2> DEFINE pick == [s \in SUBSET T |-> Pick(s)]
  <2>1. Picks(pick, T)
    BY DEF Picks, Pick
  <2>2. PICK g : IsPickTable(g, op, pick, base, T)
    BY <2>1, PickTableExists
  <2>3. \A s \in SUBSET T : pick[s] = Pick(s)
    OBVIOUS
  <2> HIDE DEF pick
  <2>4. IsFoldTable(g, op, base, T)
    BY <2>2, <2>3 DEF IsPickTable, IsFoldTable
  <2>5. QED
    BY <2>4
<1> DEFINE W == {s \in SUBSET T : g[s] \notin D}
<1>2. CASE W = {}
  <2>1. \A s \in SUBSET T : g[s] \in D
    BY <1>2
  <2>2. g \in [SUBSET T -> D]
    BY <1>1, <2>1 DEF IsFoldTable
  <2>3. QED
    BY <1>1, <2>2
<1>3. CASE W # {}
  <2>1. W \in SUBSET SUBSET T
    OBVIOUS
  <2> HIDE DEF W
  <2>2. PICK s \in W : \A u \in W : u \subseteq s => u = s
    BY <1>3, <2>1, SmallestSet
  <2> USE DEF W
  <2>3. g[s] = IF s = {} THEN base ELSE op[<<Pick(s), g[s \ {Pick(s)}]>>]
    BY <1>1 DEF IsFoldTable
  <2>4. s # {}
    BY <2>3
  <2>5. Pick(s) \in s
    BY <2>4 DEF Pick
  <2>6. g[s \ {Pick(s)}] \in D
    BY <2>2, <2>5
  <2>7. op[<<Pick(s), g[s \ {Pick(s)}]>>] \in D
    BY <2>5, <2>6
  <2>8. QED
    BY <2>3, <2>4, <2>7
<1>4. QED
  BY <1>2, <1>3

\* What step makes of start, again and again.
Iterates(f, D, step, start) ==
  f \in [Nat -> D] /\ f[0] = start /\ \A k \in Nat : f[k + 1] = step[f[k]]

\* A recursive function of the naturals exists.
LEMMA IteratesExist ==
  ASSUME NEW D, NEW step \in [D -> D], NEW start \in D
  PROVE  \E f : Iterates(f, D, step, start)
<1> DEFINE Upto(f, k) == /\ f \in [0..k -> D] /\ f[0] = start
                         /\ \A i \in 0..k : i # 0 => f[i] = step[f[i - 1]]
           W == {k \in Nat : ~\E f : Upto(f, k)}
<1>1. W = {}
  <2> SUFFICES ASSUME W # {} PROVE FALSE
    OBVIOUS
  <2>1. PICK k \in W : \A j \in W : k <= j
    <3>1. W \in SUBSET Nat
      OBVIOUS
    <3> HIDE DEF W
    <3>2. QED
      BY <3>1, LeastNatural
  <2>2. CASE k = 0
    <3>1. Upto([i \in 0..0 |-> start], 0)
      OBVIOUS
    <3> HIDE DEF Upto
    <3>2. QED
      BY <2>2, <3>1
  <2>3. CASE k # 0
    <3>0. k \in Nat /\ k - 1 \in Nat /\ ~(k <= k - 1)
      BY <2>3
    <3>1. k - 1 \in Nat /\ k - 1 \notin W
      BY <2>1, <3>0
    <3>2. PICK f : Upto(f, k - 1)
      BY <3>1
    <3> DEFINE g == [i \in 0..k |-> IF i = k THEN step[f[k - 1]] ELSE f[i]]
    <3>3. f[k - 1] \in D
      BY <3>1, <3>2
    <3>4. g \in [0..k -> D]
      BY <3>1, <3>2, <3>3
    <3>5. g[0] = start
      BY <2>3, <3>1, <3>2
    <3>6. ASSUME NEW i \in 0..k, i # 0
          PROVE  g[i] = step[g[i - 1]]
      <4>1. i - 1 \in 0..k /\ i - 1 # k
        BY <3>6
      <4>2. CASE i = k
        BY <4>1, <4>2
      <4>3. CASE i # k
        <5>1. i \in 0..(k - 1)
          BY <3>6, <4>3
        <5>2. f[i] = step[f[i - 1]]
          BY <3>2, <3>6, <5>1
        <5>3. QED
          BY <4>1, <4>3, <5>2
      <4>4. QED
        BY <4>2, <4>3
    <3>7. Upto(g, k)
      BY <3>4, <3>5, <3>6
    <3> HIDE DEF Upto
    <3>8. QED
      BY <2>1, <3>7
  <2>4. QED
    BY <2>2, <2>3
<1>2. ASSUME NEW j \in Nat, NEW k \in Nat, NEW f, NEW g, Upto(f, j), Upto(g, k),
             NEW m \in Nat, m <= j, m <= k
      PROVE  f[m] = g[m]
  <2> SUFFICES ASSUME f[m] # g[m] PROVE FALSE
    OBVIOUS
  <2> DEFINE Z == {i \in 0..m : f[i] # g[i]}
  <2>1. Z \in SUBSET Nat /\ Z # {}
    <3>1. m \in 0..m
      OBVIOUS
    <3>2. QED
      BY <3>1
  <2> HIDE DEF Z
  <2>2. PICK i \in Z : \A l \in Z : i <= l
    BY <2>1, LeastNatural
  <2> USE DEF Z
  <2>3. i \in Nat /\ i <= j /\ i <= k /\ i <= m
    BY <1>2
  <2>4. i # 0
    BY <1>2
  <2>5. f[i] = step[f[i - 1]] /\ g[i] = step[g[i - 1]]
    BY <1>2, <2>3, <2>4
  <2>6. i - 1 \in 0..m /\ i - 1 \notin Z
    BY <2>2, <2>3, <2>4
  <2>7. f[i - 1] = g[i - 1]
    BY <2>6
  <2>8. QED
    BY <2>5, <2>7
<1> DEFINE Table(k) == CHOOSE f : Upto(f, k)
           h == [k \in Nat |-> Table(k)[k]]
<1>3. ASSUME NEW k \in Nat
      PROVE  Upto(Table(k), k)
  <2>1. \E f : Upto(f, k)
    BY <1>1
  <2> HIDE DEF Upto
  <2>2. QED
    BY <2>1
<1> HIDE DEF Table
<1>4. h \in [Nat -> D]
  <2>1. \A k \in Nat : Table(k)[k] \in D
    BY <1>3
  <2>2. QED
    BY <2>1
<1>5. h[0] = start
  BY <1>3
<1>6. ASSUME NEW k \in Nat
      PROVE  h[k + 1] = step[h[k]]
  <2>1. k + 1 \in Nat /\ k <= k + 1 /\ k <= k
    OBVIOUS
  <2>2. Upto(Table(k + 1), k + 1) /\ Upto(Table(k), k)
    BY <1>3, <2>1
  <2>3. Table(k + 1)[k + 1] = step[Table(k + 1)[k]]
    <3>1. k + 1 \in 0..(k + 1) /\ k + 1 # 0 /\ (k + 1) - 1 = k
      OBVIOUS
    <3>2. QED
      BY <2>2, <3>1
  <2> HIDE DEF Upto
  <2>4. Table(k + 1)[k] = Table(k)[k]
    BY <1>2, <2>1, <2>2
  <2>5. QED
    BY <2>1, <2>3, <2>4
<1> HIDE DEF h
<1>7. QED
  BY <1>4, <1>5, <1>6 DEF Iterates

\* A function that follows step wherever its values are of the type follows it everywhere.
LEMMA RecursionIterates ==
  ASSUME NEW D, NEW step \in [D -> D], NEW start \in D, NEW g, g = [k \in Nat |-> g[k]],
         g[0] = start, \A k \in Nat : g[k] \in D => g[k + 1] = step[g[k]]
  PROVE  Iterates(g, D, step, start)
<1> DEFINE W == {k \in Nat : g[k] \notin D}
<1>1. W = {}
  <2> SUFFICES ASSUME W # {} PROVE FALSE
    OBVIOUS
  <2>1. W \in SUBSET Nat
    OBVIOUS
  <2> HIDE DEF W
  <2>2. PICK k \in W : \A j \in W : k <= j
    BY <2>1, LeastNatural
  <2>3. k \in Nat /\ g[k] \notin D
    BY <2>2 DEF W
  <2>4. k - 1 \in Nat /\ ~(k <= k - 1) /\ (k - 1) + 1 = k
    BY <2>3
  <2>5. g[k - 1] \in D
    BY <2>2, <2>4 DEF W
  <2>6. g[k] = step[g[k - 1]]
    BY <2>4, <2>5
  <2>7. QED
    BY <2>3, <2>5, <2>6
<1>2. \A k \in Nat : g[k] \in D
  BY <1>1
<1>3. g \in [Nat -> D]
  BY <1>2
<1>4. QED
  BY <1>2, <1>3 DEF Iterates

-----------------------------------------------------------------------------
(* Folds over sequences *)

\* FoldLeft takes the elements of a sequence from the last one down.
LeftTable(g, op, base, seq, n) ==
  \A s \in SUBSET (1..n) :
    g[s] = IF s = {} THEN base ELSE op[<<g[s \ {Max(s)}], seq[Max(s)]>>]

\* The same where the values are known to be of a type.
LeftTableIn(D, g, op, base, seq, n) ==
  /\ g[{}] = base
  /\ \A s \in SUBSET (1..n) :
       s # {} /\ g[s \ {Max(s)}] \in D => g[s] = op[<<g[s \ {Max(s)}], seq[Max(s)]>>]

\* It goes through the elements in their order.
LeftRun(F, op, base, seq, n) ==
  F[0] = base /\ \A k \in 1..n : F[k] = op[<<F[k - 1], seq[k]>>]

LEMMA LeftFold ==
  ASSUME NEW n \in Nat, NEW D, NEW E, NEW seq \in [1..n -> E], NEW op \in [D \X E -> D],
         NEW base \in D, NEW g, LeftTableIn(D, g, op, base, seq, n)
  PROVE  \E F \in [0..n -> D] : F[n] = g[1..n] /\ LeftRun(F, op, base, seq, n)
<1> DEFINE F == [k \in 0..n |-> g[1..k]]
<1>1. 1..0 = {}
  OBVIOUS
<1>2. ASSUME NEW k \in 1..n, g[1..(k - 1)] \in D
      PROVE  /\ g[1..k] = op[<<g[1..(k - 1)], seq[k]>>]
             /\ g[1..k] \in D
  <2>1. 1..k \in SUBSET (1..n) /\ 1..k # {}
    <3>1. k \in 1..k
      OBVIOUS
    <3>2. \A i \in 1..k : i \in 1..n
      OBVIOUS
    <3> QED
      BY <3>1, <3>2
  <2>2. Max(1..k) = k
    <3>1. k \in 1..k /\ \A y \in 1..k : k >= y
      OBVIOUS
    <3>2. \A x \in 1..k : (\A y \in 1..k : x >= y) => x = k
      OBVIOUS
    <3> QED
      BY <3>1, <3>2 DEF Max
  <2>3. (1..k) \ {k} = 1..(k - 1)
    OBVIOUS
  <2>4. g[1..k] = op[<<g[1..(k - 1)], seq[k]>>]
    BY <1>2, <2>1, <2>2, <2>3 DEF LeftTableIn
  <2>5. <<g[1..(k - 1)], seq[k]>> \in D \X E
    BY <1>2
  <2> QED
    BY <2>4, <2>5
<1> DEFINE W == {k \in 0..n : g[1..k] \notin D}
<1>3. W = {}
  <2> SUFFICES ASSUME W # {} PROVE FALSE
    OBVIOUS
  <2>1. W \in SUBSET Nat
    OBVIOUS
  <2> HIDE DEF W
  <2>2. PICK k \in W : \A j \in W : k <= j
    BY <2>1, LeastNatural
  <2>3. k \in 0..n /\ g[1..k] \notin D
    BY <2>2 DEF W
  <2>4. k # 0
    BY <1>1, <2>3 DEF LeftTableIn
  <2>5. k \in 1..n /\ k - 1 \in 0..n /\ ~(k <= k - 1)
    BY <2>3, <2>4
  <2>6. g[1..(k - 1)] \in D
    BY <2>2, <2>5 DEF W
  <2> QED
    BY <1>2, <2>3, <2>5, <2>6
<1>4. F \in [0..n -> D]
  BY <1>3
<1>5. \A k \in 1..n : F[k] = op[<<F[k - 1], seq[k]>>]
  <2> SUFFICES ASSUME NEW k \in 1..n PROVE F[k] = op[<<F[k - 1], seq[k]>>]
    OBVIOUS
  <2>1. k \in 0..n /\ k - 1 \in 0..n
    OBVIOUS
  <2>2. g[1..(k - 1)] \in D
    BY <1>3, <2>1
  <2> QED
    BY <1>2, <2>1, <2>2
<1>6. F[0] = base /\ F[n] = g[1..n]
  BY <1>1 DEF LeftTableIn
<1> HIDE DEF F
<1> QED
  BY <1>4, <1>5, <1>6 DEF LeftRun

LEMMA MaxIsMember ==
  ASSUME NEW n \in Nat, NEW s \in SUBSET (1..n), s # {}
  PROVE  Max(s) \in s
<1>1. s \subseteq Int
  OBVIOUS
<1>2. IsFiniteSet(s)
  <2>1. IsFiniteSet(1..n)
    BY FS_Interval
  <2> QED
    BY <2>1, FS_Subset
<1>3. PICK x \in s : \A y \in s : y <= x
  BY <1>1, <1>2, LargestInteger
<1>4. \A y \in s : x >= y
  BY <1>1, <1>3
<1> QED
  BY <1>4 DEF Max

\* Such a table exists.
LEMMA LeftTableExists ==
  ASSUME NEW n \in Nat, NEW D, NEW E, NEW seq \in [1..n -> E], NEW op \in [D \X E -> D],
         NEW base \in D
  PROVE  \E g \in [SUBSET (1..n) -> D] : LeftTable(g, op, base, seq, n)
<1> DEFINE T == 1..n
           turned == [x \in T \X D |-> op[<<x[2], seq[x[1]]>>]]
           pick == [s \in SUBSET T |-> Max(s)]
<1>1. IsFiniteSet(T)
  BY FS_Interval
<1>2. ASSUME NEW s \in SUBSET T, s # {} PROVE Max(s) \in s
  BY <1>2, MaxIsMember
<1>3. Picks(pick, T)
  BY <1>2 DEF Picks
<1>4. PICK g : IsPickTable(g, turned, pick, base, T)
  BY <1>1, <1>3, PickTableExists
<1>5. ASSUME NEW s \in SUBSET T
      PROVE  g[s] = IF s = {} THEN base ELSE turned[<<Max(s), g[s \ {Max(s)}]>>]
  BY <1>4 DEF IsPickTable
<1>6. g = [s \in SUBSET T |-> g[s]]
  BY <1>4 DEF IsPickTable
<1>7. ASSUME NEW s \in SUBSET T, s # {}, g[s \ {Max(s)}] \in D
      PROVE  /\ turned[<<Max(s), g[s \ {Max(s)}]>>] = op[<<g[s \ {Max(s)}], seq[Max(s)]>>]
             /\ g[s] \in D
  <2>1. Max(s) \in T
    BY <1>2, <1>7
  <2>2. turned[<<Max(s), g[s \ {Max(s)}]>>] = op[<<g[s \ {Max(s)}], seq[Max(s)]>>]
    BY <1>7, <2>1
  <2>3. <<g[s \ {Max(s)}], seq[Max(s)]>> \in D \X E
    BY <1>7, <2>1
  <2> HIDE DEF turned, T
  <2> QED
    BY <1>5, <1>7, <2>2, <2>3
<1> DEFINE W == {s \in SUBSET T : g[s] \notin D}
<1>8. W = {}
  <2> SUFFICES ASSUME W # {} PROVE FALSE
    OBVIOUS
  <2>1. W \in SUBSET SUBSET T
    OBVIOUS
  <2> HIDE DEF W
  <2> HIDE DEF T
  <2>2. PICK s \in W : \A u \in W : u \subseteq s => u = s
    BY <1>1, <2>1, SmallestSet
  <2>3. s \in SUBSET T /\ g[s] \notin D
    BY <2>2 DEF W
  <2>4. s # {}
    BY <1>5, <2>3
  <2>5. Max(s) \in s
    BY <1>2, <2>3, <2>4
  <2>6. g[s \ {Max(s)}] \in D
    BY <2>2, <2>3, <2>5 DEF W
  <2> QED
    BY <1>7, <2>3, <2>4, <2>6
<1>9. g \in [SUBSET T -> D]
  BY <1>6, <1>8
<1> HIDE DEF turned, pick
<1> QED
  BY <1>5, <1>7, <1>8, <1>9 DEF LeftTable

-----------------------------------------------------------------------------
(* Ranks *)

StrictOrder(R, n) ==
  /\ \A i \in 1..n : <<i, i>> \notin R
  /\ \A i \in 1..n, j \in 1..n, k \in 1..n :
       <<i, j>> \in R /\ <<j, k>> \in R => <<i, k>> \in R
  /\ \A i \in 1..n, j \in 1..n : i # j => <<i, j>> \in R \/ <<j, i>> \in R

RankIn(R, n) == [i \in 1..n |-> Cardinality({j \in 1..n : <<j, i>> \in R})]

\* In a strict total order on 1..n every place is the rank of one element.
LEMMA Ranks ==
  ASSUME NEW n \in Nat, NEW R, StrictOrder(R, n)
  PROVE  /\ RankIn(R, n) \in [1..n -> 0..(n - 1)]
         /\ \A i \in 1..n, j \in 1..n : RankIn(R, n)[i] = RankIn(R, n)[j] => i = j
         /\ \A k \in 1..n : \E i \in 1..n : RankIn(R, n)[i] = k - 1
<1> DEFINE rank == RankIn(R, n)
<1> DEFINE S == 1..n
           Ahead(i) == {j \in S : <<j, i>> \in R}
<1>1. IsFiniteSet(S) /\ Cardinality(S) = n
  BY FS_Interval
<1>2. ASSUME NEW i \in S
      PROVE  IsFiniteSet(Ahead(i)) /\ Cardinality(Ahead(i)) \in 0..(n - 1)
  <2>1. Ahead(i) \subseteq S \ {i} /\ IsFiniteSet(S \ {i}) /\ Cardinality(S \ {i}) = n - 1
    BY <1>1, FS_RemoveElement DEF StrictOrder
  <2> HIDE DEF Ahead, S
  <2>2. IsFiniteSet(Ahead(i)) /\ Cardinality(Ahead(i)) <= n - 1
    BY <2>1, FS_Subset
  <2>3. Cardinality(Ahead(i)) \in Nat
    BY <2>2, FS_CardinalityType
  <2> QED
    BY <2>2, <2>3
<1>3. ASSUME NEW i \in S, NEW j \in S, <<i, j>> \in R
      PROVE  Cardinality(Ahead(i)) # Cardinality(Ahead(j))
  <2>1. Ahead(i) \subseteq Ahead(j) /\ i \in Ahead(j) /\ i \notin Ahead(i)
    BY <1>3 DEF StrictOrder
  <2> HIDE DEF Ahead, S
  <2>2. IsFiniteSet(Ahead(j))
    BY <1>2
  <2> QED
    BY <2>1, <2>2, FS_Subset
<1>4. \A i \in S : rank[i] = Cardinality(Ahead(i))
  BY DEF RankIn
<1>5. rank \in [S -> 0..(n - 1)]
  <2>1. rank = [i \in S |-> rank[i]]
    BY DEF RankIn
  <2> HIDE DEF Ahead, S
  <2> QED
    BY <1>2, <1>4, <2>1
<1>6. \A i \in S, j \in S : rank[i] = rank[j] => i = j
  <2> SUFFICES ASSUME NEW i \in S, NEW j \in S, i # j PROVE rank[i] # rank[j]
    OBVIOUS
  <2>1. <<i, j>> \in R \/ <<j, i>> \in R
    BY DEF StrictOrder
  <2> HIDE DEF Ahead, S
  <2> QED
    BY <1>3, <1>4, <2>1
<1>7. \A k \in 1..n : \E i \in S : rank[i] = k - 1
  <2> DEFINE T == 0..(n - 1)
  <2>1. IsFiniteSet(T) /\ Cardinality(T) = n
    <3>1. /\ IsFiniteSet(0..(n - 1))
          /\ Cardinality(0..(n - 1)) = IF 0 > n - 1 THEN 0 ELSE (n - 1) - 0 + 1
      <4>1. 0 \in Int /\ n - 1 \in Int
        OBVIOUS
      <4> QED
        BY <4>1, FS_Interval
    <3> QED
      BY <3>1
  <2>2. rank \in Injection(S, T)
    BY <1>5, <1>6 DEF Injection, IsInjective
  <2> HIDE DEF S
  <2>3. rank \in Surjection(S, T)
    BY <1>1, <2>1, <2>2, FS_Injection
  <2>4. \A t \in T : \E i \in S : rank[i] = t
    BY <2>3 DEF Surjection
  <2>5. \A k \in 1..n : k - 1 \in T
    OBVIOUS
  <2> QED
    BY <2>4, <2>5
<1> HIDE DEF Ahead
<1> QED
  BY <1>5, <1>6, <1>7
=============================================================================
