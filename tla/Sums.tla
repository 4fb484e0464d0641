-------------------------------- MODULE Sums --------------------------------
(***************************************************************************)
(* Facts about SumFunctionOnSet of the community modules, the sum of f[x]  *)
(* over a finite set S, that the proofs about the reports and ledgers of   *)
(* the shop use.  The recursive definition behind it is shown to have a    *)
(* solution, by induction along the strict subsets of a finite set.        *)
(***************************************************************************)
EXTENDS Integers, FiniteSets, Functions, FiniteSetTheorems, TLAPS

\* The element the definition of the sum takes out of a set.
Elt(s) == CHOOSE x \in s : TRUE

\* The equation of the sum, for g on the subsets of a set.
Term(f, g, s) == IF s = {} THEN 0 ELSE f[Elt(s)] + g[s \ {Elt(s)}]

Solves(f, S, g) == g = [s \in SUBSET S |-> Term(f, g, s)]

\* SumFunctionOnSet is the value of a solution chosen for the set itself.
LEMMA SumDef ==
  ASSUME NEW f, NEW S PROVE SumFunctionOnSet(f, S) = (CHOOSE g : Solves(f, S, g))[S]
BY DEF SumFunctionOnSet, FoldFunctionOnSet, MapThenFoldSet, Solves, Term, Elt

\* A set of subsets of a finite set has a minimal member.
LEMMA Least ==
  ASSUME NEW S, IsFiniteSet(S), NEW T, T \subseteq SUBSET S, T # {}
  PROVE \E x \in T : \A y \in T : ~(y \subseteq x /\ y # x)
<1>1. IsWellFoundedOn(StrictSubsetOrdering(S), SUBSET S)
  BY FS_StrictSubsetOrderingWellFounded, FS_FiniteSubsetsOfFinite
<1>2. \E x \in T : \A y \in T : ~(<<y, x>> \in StrictSubsetOrdering(S))
  BY <1>1, WFMin
<1>. QED
  BY <1>2 DEF StrictSubsetOrdering

\* It is an element.
LEMMA EltIn == ASSUME NEW s, s # {} PROVE Elt(s) \in s
BY DEF Elt

\* Two solutions agree where both are defined.
LEMMA SolutionsAgree ==
  ASSUME NEW f, NEW S, IsFiniteSet(S), NEW T \in SUBSET S,
         NEW g, NEW h, Solves(f, S, g), Solves(f, T, h)
  PROVE  \A s \in SUBSET T : g[s] = h[s]
<1>. DEFINE Bad == {s \in SUBSET T : g[s] # h[s]}
<1>. SUFFICES ASSUME Bad # {} PROVE FALSE
  OBVIOUS
<1>1. PICK s \in Bad : \A u \in Bad : ~(u \subseteq s /\ u # s)
  <2>1. Bad \subseteq SUBSET S
    OBVIOUS
  <2>. HIDE DEF Bad
  <2>. QED
    BY <2>1, Least
<1>2. g[s] = Term(f, g, s) /\ h[s] = Term(f, h, s)
  BY DEF Solves
<1>3. s # {}
  BY <1>2 DEF Term
<1>4. Elt(s) \in s
  BY <1>3, EltIn
<1>5. g[s \ {Elt(s)}] = h[s \ {Elt(s)}]
  BY <1>1, <1>4
<1>. QED
  BY <1>2, <1>3, <1>5 DEF Term

\* The equation of the sum has a solution.
LEMMA SolutionExists ==
  ASSUME NEW f, NEW S, IsFiniteSet(S) PROVE \E g : Solves(f, S, g)
<1>. DEFINE Bad == {T \in SUBSET S : ~ \E g : Solves(f, T, g)}
<1>. SUFFICES ASSUME Bad # {} PROVE FALSE
  OBVIOUS
<1>1. PICK T \in Bad : \A U \in Bad : ~(U \subseteq T /\ U # T)
  <2>1. Bad \subseteq SUBSET S
    OBVIOUS
  <2>. HIDE DEF Bad
  <2>. QED
    BY <2>1, Least
<1>2. IsFiniteSet(T)
  BY FS_Subset
<1>. DEFINE Sol(U) == CHOOSE g : Solves(f, U, g)
            At(s)  == Sol(s)[s]
            G      == [s \in SUBSET T |-> IF s = {} THEN 0
                         ELSE f[Elt(s)] + At(s \ {Elt(s)})]
<1>3. ASSUME NEW U \in SUBSET T, U # T PROVE Solves(f, U, Sol(U)) /\ IsFiniteSet(U)
  BY <1>1, <1>2, <1>3, FS_Subset
<1>4. ASSUME NEW s \in SUBSET T, s # {} PROVE G[s \ {Elt(s)}] = At(s \ {Elt(s)})
  <2>. DEFINE u == s \ {Elt(s)}
  <2>1. u \in SUBSET T /\ u # T
    BY <1>4, EltIn
  <2>2. Solves(f, u, Sol(u)) /\ IsFiniteSet(u)
    BY <2>1, <1>3
  <2>3. At(u) = Term(f, Sol(u), u)
    BY <2>2 DEF Solves
  <2>4. CASE u = {}
    BY <2>3, <2>4 DEF Term
  <2>5. CASE u # {}
    <3>. DEFINE v == u \ {Elt(u)}
    <3>1. v \in SUBSET u /\ v # T /\ v \in SUBSET T
      BY <2>5, EltIn
    <3>2. Solves(f, v, Sol(v))
      BY <3>1, <1>3
    <3>3. Sol(u)[v] = Sol(v)[v]
      BY <3>1, <3>2, <2>2, SolutionsAgree
    <3>4. At(u) = f[Elt(u)] + Sol(u)[v]
      BY <2>3, <2>5 DEF Term
    <3>. QED
      BY <3>3, <3>4, <2>1, <2>5
  <2>. QED
    BY <2>4, <2>5
<1>5. G = [s \in SUBSET T |-> Term(f, G, s)]
  <2>1. ASSUME NEW s \in SUBSET T PROVE G[s] = Term(f, G, s)
    <3>1. CASE s = {}
      BY <3>1 DEF Term
    <3>2. CASE s # {}
      <4>1. G[s] = f[Elt(s)] + At(s \ {Elt(s)})
        BY <3>2
      <4>2. G[s \ {Elt(s)}] = At(s \ {Elt(s)})
        BY <1>4, <3>2
      <4>. HIDE DEF G, At
      <4>. QED
        BY <4>1, <4>2, <3>2 DEF Term
    <3>. QED
      BY <3>1, <3>2
  <2>. QED
    BY <2>1
<1>6. Solves(f, T, G)
  BY <1>5 DEF Solves
<1>. QED
  BY <1>6, <1>1

\* The sum itself satisfies the equation.
LEMMA SumSolves ==
  ASSUME NEW f, NEW S, IsFiniteSet(S)
  PROVE  \A T \in SUBSET S :
           SumFunctionOnSet(f, T) = IF T = {} THEN 0
             ELSE f[Elt(T)] + SumFunctionOnSet(f, T \ {Elt(T)})
<1>. SUFFICES ASSUME NEW T \in SUBSET S
              PROVE SumFunctionOnSet(f, T) = IF T = {} THEN 0
                ELSE f[Elt(T)] + SumFunctionOnSet(f, T \ {Elt(T)})
  OBVIOUS
<1>. DEFINE Sol(U) == CHOOSE g : Solves(f, U, g)
            U == T \ {Elt(T)}
<1>1. IsFiniteSet(T) /\ IsFiniteSet(U)
  BY FS_Subset
<1>2. Solves(f, T, Sol(T)) /\ Solves(f, U, Sol(U))
  BY <1>1, SolutionExists
<1>3. Sol(T)[U] = Sol(U)[U]
  BY <1>1, <1>2, SolutionsAgree
<1>4. Sol(T)[T] = Term(f, Sol(T), T)
  BY <1>2 DEF Solves
<1>5. SumFunctionOnSet(f, T) = Sol(T)[T] /\ SumFunctionOnSet(f, U) = Sol(U)[U]
  BY SumDef
<1>. HIDE DEF Sol
<1>. QED
  BY <1>3, <1>4, <1>5 DEF Term

-----------------------------------------------------------------------------

\* The sum over no element is 0.
THEOREM SumEmpty == \A f : SumFunctionOnSet(f, {}) = 0
<1>1. IsFiniteSet({})
  BY FS_EmptySet
<1>. QED
  BY <1>1, SumSolves

\* A sum of integers is an integer.
THEOREM SumInt ==
  ASSUME NEW f, NEW S, IsFiniteSet(S), \A x \in S : f[x] \in Int
  PROVE  SumFunctionOnSet(f, S) \in Int
<1>. DEFINE Bad == {T \in SUBSET S : SumFunctionOnSet(f, T) \notin Int}
<1>. SUFFICES ASSUME Bad # {} PROVE FALSE
  OBVIOUS
<1>1. PICK T \in Bad : \A U \in Bad : ~(U \subseteq T /\ U # T)
  <2>1. Bad \subseteq SUBSET S
    OBVIOUS
  <2>. HIDE DEF Bad
  <2>. QED
    BY <2>1, Least
<1>2. SumFunctionOnSet(f, T) = IF T = {} THEN 0
             ELSE f[Elt(T)] + SumFunctionOnSet(f, T \ {Elt(T)})
  BY SumSolves
<1>3. T # {}
  BY <1>2
<1>4. Elt(T) \in T
  BY <1>3, EltIn
<1>. QED
  BY <1>1, <1>2, <1>3, <1>4

\* Any element can be taken out, not only the one the definition takes: the sum
\* does not depend on the order.
THEOREM SumRemove ==
  ASSUME NEW f, NEW S, IsFiniteSet(S), \A x \in S : f[x] \in Int
  PROVE  \A x \in S : SumFunctionOnSet(f, S) = f[x] + SumFunctionOnSet(f, S \ {x})
<1>. DEFINE Good(T) == \A x \in T :
              SumFunctionOnSet(f, T) = f[x] + SumFunctionOnSet(f, T \ {x})
            Bad == {T \in SUBSET S : ~Good(T)}
<1>. SUFFICES ASSUME Bad # {} PROVE FALSE
  OBVIOUS
<1>1. PICK T \in Bad : \A U \in Bad : ~(U \subseteq T /\ U # T)
  <2>1. Bad \subseteq SUBSET S
    OBVIOUS
  <2>. HIDE DEF Bad
  <2>. QED
    BY <2>1, Least
<1>2. PICK x \in T : SumFunctionOnSet(f, T) # f[x] + SumFunctionOnSet(f, T \ {x})
  OBVIOUS
<1>. DEFINE y == Elt(T)
<1>3. y \in T
  BY <1>2, EltIn
<1>4. SumFunctionOnSet(f, T) = f[y] + SumFunctionOnSet(f, T \ {y})
  BY SumSolves, <1>2
<1>5. x # y
  BY <1>2, <1>4
<1>6. Good(T \ {y}) /\ Good(T \ {x})
  BY <1>1, <1>2, <1>3
<1>. HIDE DEF y
<1>. DEFINE rest == T \ {x, y}
<1>7. /\ SumFunctionOnSet(f, T \ {y}) = f[x] + SumFunctionOnSet(f, rest)
      /\ SumFunctionOnSet(f, T \ {x}) = f[y] + SumFunctionOnSet(f, rest)
  <2>1. (T \ {y}) \ {x} = rest /\ (T \ {x}) \ {y} = rest
    OBVIOUS
  <2>2. x \in T \ {y} /\ y \in T \ {x}
    BY <1>3, <1>5
  <2>. HIDE DEF rest
  <2>. QED
    BY <2>1, <2>2, <1>6
<1>8. /\ SumFunctionOnSet(f, rest) \in Int
      /\ f[x] \in Int /\ f[y] \in Int
  <2>1. IsFiniteSet(rest)
    BY FS_Subset
  <2>. QED
    BY <2>1, <1>3, SumInt
<1>. QED
  BY <1>2, <1>4, <1>7, <1>8

\* An element that is put in adds its term.
THEOREM SumInsert ==
  ASSUME NEW f, NEW S, IsFiniteSet(S), NEW x, x \notin S,
         \A y \in S \union {x} : f[y] \in Int
  PROVE  SumFunctionOnSet(f, S \union {x}) = f[x] + SumFunctionOnSet(f, S)
<1>1. IsFiniteSet(S \union {x})
  BY FS_AddElement
<1>2. (S \union {x}) \ {x} = S
  OBVIOUS
<1>. QED
  BY <1>1, <1>2, SumRemove

\* Terms that grow make the sum grow.
THEOREM SumLeq ==
  ASSUME NEW f, NEW g, NEW S, IsFiniteSet(S),
         \A x \in S : f[x] \in Int /\ g[x] \in Int /\ f[x] <= g[x]
  PROVE  SumFunctionOnSet(f, S) <= SumFunctionOnSet(g, S)
<1>. DEFINE Bad == {T \in SUBSET S : ~(SumFunctionOnSet(f, T) <= SumFunctionOnSet(g, T))}
<1>. SUFFICES ASSUME Bad # {} PROVE FALSE
  OBVIOUS
<1>1. PICK T \in Bad : \A U \in Bad : ~(U \subseteq T /\ U # T)
  <2>1. Bad \subseteq SUBSET S
    OBVIOUS
  <2>. HIDE DEF Bad
  <2>. QED
    BY <2>1, Least
<1>2. T # {}
  BY SumEmpty
<1>. DEFINE y == Elt(T)
            U == T \ {y}
<1>3. y \in T
  BY <1>2, EltIn
<1>4. /\ SumFunctionOnSet(f, T) = f[y] + SumFunctionOnSet(f, U)
      /\ SumFunctionOnSet(g, T) = g[y] + SumFunctionOnSet(g, U)
  BY SumSolves, <1>2
<1>5. SumFunctionOnSet(f, U) <= SumFunctionOnSet(g, U)
  BY <1>1, <1>3
<1>6. SumFunctionOnSet(f, U) \in Int /\ SumFunctionOnSet(g, U) \in Int
  <2>1. IsFiniteSet(U) /\ U \subseteq S
    BY FS_Subset
  <2>. HIDE DEF U
  <2>. QED
    BY <2>1, SumInt
<1>. HIDE DEF y, U
<1>. QED
  BY <1>3, <1>4, <1>5, <1>6

\* The sum depends on the terms only.
THEOREM SumSame ==
  ASSUME NEW f, NEW g, NEW S, IsFiniteSet(S), \A x \in S : f[x] = g[x]
  PROVE  SumFunctionOnSet(f, S) = SumFunctionOnSet(g, S)
<1>. DEFINE Bad == {T \in SUBSET S : SumFunctionOnSet(f, T) # SumFunctionOnSet(g, T)}
<1>. SUFFICES ASSUME Bad # {} PROVE FALSE
  OBVIOUS
<1>1. PICK T \in Bad : \A U \in Bad : ~(U \subseteq T /\ U # T)
  <2>1. Bad \subseteq SUBSET S
    OBVIOUS
  <2>. HIDE DEF Bad
  <2>. QED
    BY <2>1, Least
<1>2. T # {}
  BY SumEmpty
<1>. DEFINE y == Elt(T)
            U == T \ {y}
<1>3. y \in T
  BY <1>2, EltIn
<1>4. /\ SumFunctionOnSet(f, T) = f[y] + SumFunctionOnSet(f, U)
      /\ SumFunctionOnSet(g, T) = g[y] + SumFunctionOnSet(g, U)
  BY SumSolves, <1>2
<1>5. SumFunctionOnSet(f, U) = SumFunctionOnSet(g, U)
  BY <1>1, <1>3
<1>. HIDE DEF y, U
<1>. QED
  BY <1>3, <1>4, <1>5

\* A term that changes changes the sum by as much.
THEOREM SumChange ==
  ASSUME NEW f, NEW g, NEW S, IsFiniteSet(S), NEW x \in S,
         \A y \in S : f[y] \in Int /\ g[y] \in Int,
         \A y \in S \ {x} : g[y] = f[y]
  PROVE  SumFunctionOnSet(g, S) = SumFunctionOnSet(f, S) - f[x] + g[x]
<1>. DEFINE U == S \ {x}
<1>1. IsFiniteSet(U) /\ U \subseteq S
  BY FS_Subset
<1>2. SumFunctionOnSet(f, U) = SumFunctionOnSet(g, U) /\ SumFunctionOnSet(f, U) \in Int
  <2>1. \A y \in U : f[y] = g[y] /\ f[y] \in Int
    OBVIOUS
  <2>. HIDE DEF U
  <2>. QED
    BY <1>1, <2>1, SumSame, SumInt
<1>3. SumFunctionOnSet(f, S) = f[x] + SumFunctionOnSet(f, U)
  BY SumRemove
<1>4. SumFunctionOnSet(g, S) = g[x] + SumFunctionOnSet(g, U)
  BY SumRemove
<1>. HIDE DEF U
<1>. QED
  BY <1>2, <1>3, <1>4

\* The same, when the term that changes may or may not be in the sum.
THEOREM SumMoved ==
  ASSUME NEW f, NEW g, NEW S, IsFiniteSet(S), NEW x,
         \A y \in S : f[y] \in Int /\ g[y] \in Int,
         \A y \in S \ {x} : g[y] = f[y]
  PROVE  /\ SumFunctionOnSet(f, S) \in Int
         /\ SumFunctionOnSet(g, S)
              = SumFunctionOnSet(f, S) + (IF x \in S THEN g[x] - f[x] ELSE 0)
<1>1. SumFunctionOnSet(f, S) \in Int
  BY SumInt
<1>2. CASE x \in S
  <2>1. SumFunctionOnSet(g, S) = SumFunctionOnSet(f, S) - f[x] + g[x]
    BY <1>2, SumChange
  <2>2. f[x] \in Int /\ g[x] \in Int
    BY <1>2
  <2>. QED
    BY <1>1, <1>2, <2>1, <2>2
<1>3. CASE x \notin S
  <2>1. \A y \in S : f[y] = g[y]
    BY <1>3
  <2>2. SumFunctionOnSet(f, S) = SumFunctionOnSet(g, S)
    BY <2>1, SumSame
  <2>. QED
    BY <1>1, <1>3, <2>2
<1>. QED
  BY <1>2, <1>3, <1>1

\* Two sums over the same elements are one.
THEOREM SumAdd ==
  ASSUME NEW f, NEW g, NEW h, NEW S, IsFiniteSet(S),
         \A x \in S : f[x] \in Int /\ g[x] \in Int /\ h[x] = f[x] + g[x]
  PROVE  SumFunctionOnSet(h, S) = SumFunctionOnSet(f, S) + SumFunctionOnSet(g, S)
<1>. DEFINE Bad == {T \in SUBSET S : SumFunctionOnSet(h, T)
                      # SumFunctionOnSet(f, T) + SumFunctionOnSet(g, T)}
<1>. SUFFICES ASSUME Bad # {} PROVE FALSE
  OBVIOUS
<1>1. PICK T \in Bad : \A U \in Bad : ~(U \subseteq T /\ U # T)
  <2>1. Bad \subseteq SUBSET S
    OBVIOUS
  <2>. HIDE DEF Bad
  <2>. QED
    BY <2>1, Least
<1>2. T # {}
  <2>1. /\ SumFunctionOnSet(f, {}) = 0
        /\ SumFunctionOnSet(g, {}) = 0
        /\ SumFunctionOnSet(h, {}) = 0
    BY SumEmpty
  <2>2. 0 + 0 = 0
    OBVIOUS
  <2>3. SumFunctionOnSet(h, T) # SumFunctionOnSet(f, T) + SumFunctionOnSet(g, T)
    OBVIOUS
  <2>. QED
    BY <2>1, <2>2, <2>3, Zenon
<1>. DEFINE y == Elt(T)
            U == T \ {y}
<1>3. y \in T
  BY <1>2, EltIn
<1>4. /\ SumFunctionOnSet(f, T) = f[y] + SumFunctionOnSet(f, U)
      /\ SumFunctionOnSet(g, T) = g[y] + SumFunctionOnSet(g, U)
      /\ SumFunctionOnSet(h, T) = h[y] + SumFunctionOnSet(h, U)
  BY SumSolves, <1>2
<1>5. SumFunctionOnSet(h, U) = SumFunctionOnSet(f, U) + SumFunctionOnSet(g, U)
  BY <1>1, <1>3
<1>6. SumFunctionOnSet(f, U) \in Int /\ SumFunctionOnSet(g, U) \in Int
  <2>1. IsFiniteSet(U) /\ U \subseteq S
    BY FS_Subset
  <2>. HIDE DEF U
  <2>. QED
    BY <2>1, SumInt
<1>. HIDE DEF y, U
<1>. QED
  BY <1>3, <1>4, <1>5, <1>6

\* A common factor can be taken out of a sum.
THEOREM SumScale ==
  ASSUME NEW f, NEW h, NEW S, IsFiniteSet(S), NEW c \in Int,
         \A x \in S : f[x] \in Int /\ h[x] = c * f[x]
  PROVE  SumFunctionOnSet(h, S) = c * SumFunctionOnSet(f, S)
<1>. DEFINE Bad == {T \in SUBSET S : SumFunctionOnSet(h, T) # c * SumFunctionOnSet(f, T)}
<1>. SUFFICES ASSUME Bad # {} PROVE FALSE
  OBVIOUS
<1>1. PICK T \in Bad : \A U \in Bad : ~(U \subseteq T /\ U # T)
  <2>1. Bad \subseteq SUBSET S
    OBVIOUS
  <2>. HIDE DEF Bad
  <2>. QED
    BY <2>1, Least
<1>2. T # {}
  <2>1. SumFunctionOnSet(f, {}) = 0 /\ SumFunctionOnSet(h, {}) = 0
    BY SumEmpty
  <2>2. c * 0 = 0
    OBVIOUS
  <2>. QED
    BY <2>1, <2>2
<1>. DEFINE y == Elt(T)
            U == T \ {y}
<1>3. y \in T
  BY <1>2, EltIn
<1>4. /\ SumFunctionOnSet(f, T) = f[y] + SumFunctionOnSet(f, U)
      /\ SumFunctionOnSet(h, T) = h[y] + SumFunctionOnSet(h, U)
  BY SumSolves, <1>2
<1>5. SumFunctionOnSet(h, U) = c * SumFunctionOnSet(f, U)
  BY <1>1, <1>3
<1>6. SumFunctionOnSet(f, U) \in Int
  <2>1. IsFiniteSet(U) /\ U \subseteq S
    BY FS_Subset
  <2>. HIDE DEF U
  <2>. QED
    BY <2>1, SumInt
<1>7. \A a, b \in Int : c * (a + b) = c * a + c * b
  OBVIOUS
<1>. HIDE DEF y, U
<1>. QED
  BY <1>3, <1>4, <1>5, <1>6, <1>7

\* The sum over two sets without a common element.
THEOREM SumUnion ==
  ASSUME NEW f, NEW S, NEW A, IsFiniteSet(S), IsFiniteSet(A), S \cap A = {},
         \A x \in S \union A : f[x] \in Int
  PROVE  SumFunctionOnSet(f, A \union S) = SumFunctionOnSet(f, A) + SumFunctionOnSet(f, S)
<1>. DEFINE Bad == {T \in SUBSET S : SumFunctionOnSet(f, A \union T)
                      # SumFunctionOnSet(f, A) + SumFunctionOnSet(f, T)}
<1>. SUFFICES ASSUME Bad # {} PROVE FALSE
  OBVIOUS
<1>1. PICK T \in Bad : \A U \in Bad : ~(U \subseteq T /\ U # T)
  <2>1. Bad \subseteq SUBSET S
    OBVIOUS
  <2>. HIDE DEF Bad
  <2>. QED
    BY <2>1, Least
<1>a. SumFunctionOnSet(f, A) \in Int
  BY SumInt
<1>2. T # {}
  <2>1. A \union {} = A
    OBVIOUS
  <2>. QED
    BY <1>a, <2>1, SumEmpty
<1>. DEFINE y == Elt(T)
            U == T \ {y}
<1>3. y \in T /\ y \notin A
  BY <1>2, EltIn
<1>4. SumFunctionOnSet(f, T) = f[y] + SumFunctionOnSet(f, U)
  BY SumSolves, <1>2
<1>5. SumFunctionOnSet(f, A \union U) = SumFunctionOnSet(f, A) + SumFunctionOnSet(f, U)
  BY <1>1, <1>3
<1>6. IsFiniteSet(U) /\ IsFiniteSet(A \union T) /\ SumFunctionOnSet(f, U) \in Int
  <2>1. IsFiniteSet(U) /\ U \subseteq S /\ IsFiniteSet(T)
    BY FS_Subset
  <2>2. IsFiniteSet(A \union T)
    BY <2>1, FS_Union
  <2>. HIDE DEF U
  <2>. QED
    BY <2>1, <2>2, SumInt
<1>7. SumFunctionOnSet(f, A \union T) = f[y] + SumFunctionOnSet(f, A \union U)
  <2>1. (A \union T) \ {y} = A \union U
    BY <1>3
  <2>2. y \in A \union T /\ \A x \in A \union T : f[x] \in Int
    BY <1>3
  <2>. HIDE DEF y, U
  <2>. QED
    BY <1>6, <2>1, <2>2, SumRemove
<1>. HIDE DEF y, U
<1>. QED
  BY <1>3, <1>4, <1>5, <1>6, <1>7, <1>a

\* The elements of S that h puts into group b.
GroupOf(h, S, b) == {x \in S : h[x] = b}

\* A sum can be taken group by group: h says which group of B an element is in.
THEOREM SumGroups ==
  ASSUME NEW f, NEW S, NEW B, NEW h, NEW g, IsFiniteSet(S), IsFiniteSet(B),
         \A x \in S : f[x] \in Int /\ h[x] \in B,
         \A b \in B : g[b] = SumFunctionOnSet(f, GroupOf(h, S, b))
  PROVE  SumFunctionOnSet(g, B) = SumFunctionOnSet(f, S)
<1>. DEFINE In(T) == {x \in S : h[x] \in T}
            Bad == {T \in SUBSET B : SumFunctionOnSet(g, T) # SumFunctionOnSet(f, In(T))}
<1>. SUFFICES ASSUME Bad # {} PROVE FALSE
  <2>1. In(B) = S
    OBVIOUS
  <2>2. B \notin Bad
    OBVIOUS
  <2>. HIDE DEF In
  <2>. QED
    BY <2>1, <2>2
<1>1. PICK T \in Bad : \A U \in Bad : ~(U \subseteq T /\ U # T)
  <2>1. Bad \subseteq SUBSET B
    OBVIOUS
  <2>. HIDE DEF Bad
  <2>. QED
    BY <2>1, Least
<1>2. T # {}
  <2>1. In({}) = {}
    OBVIOUS
  <2>. HIDE DEF In
  <2>. QED
    BY <2>1, SumEmpty
<1>. DEFINE y == Elt(T)
            U == T \ {y}
            Y == {x \in S : h[x] = y}
<1>3. y \in T /\ T \subseteq B
  BY <1>2, EltIn
<1>4. SumFunctionOnSet(g, T) = g[y] + SumFunctionOnSet(g, U)
  BY SumSolves, <1>2
<1>5. SumFunctionOnSet(g, U) = SumFunctionOnSet(f, In(U))
  BY <1>1, <1>3
<1>6. /\ IsFiniteSet(In(U)) /\ IsFiniteSet(Y) /\ Y \cap In(U) = {}
      /\ In(T) = In(U) \union Y /\ \A x \in In(T) : f[x] \in Int
  <2>1. In(U) \subseteq S /\ Y \subseteq S
    OBVIOUS
  <2>2. Y \cap In(U) = {} /\ In(T) = In(U) \union Y
    BY <1>3
  <2>. QED
    BY <2>1, <2>2, FS_Subset
<1>7. SumFunctionOnSet(f, In(T)) = SumFunctionOnSet(f, In(U)) + SumFunctionOnSet(f, Y)
  <2>. HIDE DEF In, Y, U
  <2>. QED
    BY <1>6, SumUnion
<1>8. SumFunctionOnSet(f, In(U)) \in Int /\ SumFunctionOnSet(f, Y) \in Int
  <2>. HIDE DEF In, Y, U
  <2>. QED
    BY <1>6, SumInt
<1>9. g[y] = SumFunctionOnSet(f, Y)
  BY <1>3 DEF GroupOf
<1>10. SumFunctionOnSet(g, T) # SumFunctionOnSet(f, In(T))
  OBVIOUS
<1>. HIDE DEF y, U, Y, In, Bad
<1>. QED
  BY <1>4, <1>5, <1>7, <1>8, <1>9, <1>10

\* Elements whose term is 0 can be left out.
THEOREM SumSupport ==
  ASSUME NEW f, NEW S, IsFiniteSet(S), NEW T \in SUBSET S,
         \A x \in S : f[x] \in Int, \A x \in S \ T : f[x] = 0
  PROVE  SumFunctionOnSet(f, S) = SumFunctionOnSet(f, T)
<1>. DEFINE z == [x \in S |-> 0]
            R == S \ T
<1>1. IsFiniteSet(R) /\ IsFiniteSet(T) /\ T \union R = S /\ R \cap T = {}
  BY FS_Subset
<1>2. SumFunctionOnSet(f, S) = SumFunctionOnSet(f, T) + SumFunctionOnSet(f, R)
  <2>1. \A x \in R \union T : f[x] \in Int
    OBVIOUS
  <2>. HIDE DEF R
  <2>. QED
    BY <1>1, <2>1, SumUnion
<1>3. SumFunctionOnSet(f, R) = 0
  <2>1. \A x \in R : f[x] = 0 /\ f[x] \in Int /\ f[x] = 0 * f[x]
    OBVIOUS
  <2>2. SumFunctionOnSet(f, R) \in Int
    <3>. HIDE DEF R
    <3>. QED
      BY <1>1, <2>1, SumInt
  <2>3. SumFunctionOnSet(f, R) = 0 * SumFunctionOnSet(f, R)
    <3>1. 0 \in Int
      OBVIOUS
    <3>. HIDE DEF R
    <3>. QED
      BY <1>1, <2>1, <3>1, SumScale
  <2>. QED
    BY <2>2, <2>3
<1>4. SumFunctionOnSet(f, T) \in Int
  BY <1>1, SumInt
<1>. QED
  BY <1>2, <1>3, <1>4

\* A sum of naturals is a natural.
THEOREM SumNat ==
  ASSUME NEW f, NEW S, IsFiniteSet(S), \A x \in S : f[x] \in Nat
  PROVE  SumFunctionOnSet(f, S) \in Nat
<1>. DEFINE z == [x \in S |-> 0 * f[x]]
<1>1. \A x \in S : z[x] = 0 * f[x] /\ z[x] \in Int /\ f[x] \in Int /\ z[x] <= f[x]
  OBVIOUS
<1>. HIDE DEF z
<1>2. SumFunctionOnSet(f, S) \in Int
  BY <1>1, SumInt
<1>3. 0 \in Int
  OBVIOUS
<1>4. SumFunctionOnSet(z, S) = 0 * SumFunctionOnSet(f, S)
  BY <1>1, <1>3, SumScale
<1>5. SumFunctionOnSet(z, S) <= SumFunctionOnSet(f, S)
  BY <1>1, SumLeq
<1>. QED
  BY <1>2, <1>4, <1>5

\* A sum of natural numbers grows with its set.
THEOREM SumSubset ==
  ASSUME NEW f, NEW S, IsFiniteSet(S), NEW T \in SUBSET S, \A x \in S : f[x] \in Nat
  PROVE  SumFunctionOnSet(f, T) <= SumFunctionOnSet(f, S)
<1>. DEFINE R == S \ T
<1>1. IsFiniteSet(R) /\ IsFiniteSet(T) /\ T \union R = S /\ R \cap T = {}
  BY FS_Subset
<1>2. \A x \in S : f[x] \in Int
  OBVIOUS
<1>. HIDE DEF R
<1>3. SumFunctionOnSet(f, S) = SumFunctionOnSet(f, T) + SumFunctionOnSet(f, R)
  <2>1. SumFunctionOnSet(f, T \union R) = SumFunctionOnSet(f, T) + SumFunctionOnSet(f, R)
    <3>1. \A x \in R \union T : f[x] \in Int
      BY <1>1, <1>2
    <3>. QED
      BY <1>1, <3>1, SumUnion
  <2>. QED
    BY <1>1, <2>1
<1>4. SumFunctionOnSet(f, R) \in Nat
  <2>1. \A x \in R : f[x] \in Nat
    BY <1>1
  <2>. QED
    BY <1>1, <2>1, SumNat
<1>5. SumFunctionOnSet(f, T) \in Int
  BY <1>1, <1>2, SumInt
<1>. QED
  BY <1>3, <1>4, <1>5

\* Sums of zeros are zero.
THEOREM SumZero ==
  ASSUME NEW f, NEW S, IsFiniteSet(S), \A x \in S : f[x] = 0
  PROVE  SumFunctionOnSet(f, S) = 0
<1>1. \A x \in S : f[x] \in Int
  OBVIOUS
<1>2. SumFunctionOnSet(f, S) = SumFunctionOnSet(f, {})
  BY <1>1, SumSupport
<1>. QED
  BY <1>2, SumEmpty

\* The same term for every element.
THEOREM SumConstant ==
  ASSUME NEW f, NEW S, IsFiniteSet(S), NEW c \in Int, \A x \in S : f[x] = c
  PROVE  SumFunctionOnSet(f, S) = c * Cardinality(S)
<1>. DEFINE Bad == {T \in SUBSET S : SumFunctionOnSet(f, T) # c * Cardinality(T)}
<1>. SUFFICES ASSUME Bad # {} PROVE FALSE
  OBVIOUS
<1>1. PICK T \in Bad : \A U \in Bad : ~(U \subseteq T /\ U # T)
  <2>1. Bad \subseteq SUBSET S
    OBVIOUS
  <2>. HIDE DEF Bad
  <2>. QED
    BY <2>1, Least
<1>2. T # {}
  BY SumEmpty, FS_EmptySet
<1>. DEFINE y == Elt(T)
            U == T \ {y}
<1>3. y \in T
  BY <1>2, EltIn
<1>4. SumFunctionOnSet(f, T) = f[y] + SumFunctionOnSet(f, U)
  BY SumSolves, <1>2
<1>5. SumFunctionOnSet(f, U) = c * Cardinality(U)
  BY <1>1, <1>3
<1>6. IsFiniteSet(T) /\ Cardinality(U) = Cardinality(T) - 1 /\ Cardinality(T) \in Nat
  <2>1. IsFiniteSet(T)
    BY FS_Subset
  <2>. QED
    BY <1>3, <2>1, FS_RemoveElement, FS_CardinalityType
<1>7. \A n \in Int : c + c * (n - 1) = c * n
  OBVIOUS
<1>8. f[y] = c /\ SumFunctionOnSet(f, T) # c * Cardinality(T)
  BY <1>3
<1>. HIDE DEF y, U, Bad
<1>. QED
  BY <1>4, <1>5, <1>6, <1>7, <1>8
-----------------------------------------------------------------------------
(* Sums of a sequence, written as a recursive function on 0..n.            *)

\* Every non-empty set of naturals has a least member.
LEMMA LeastNumber ==
  ASSUME NEW T, T \subseteq Nat, T # {}
  PROVE  \E n \in T : \A m \in T : n <= m
<1>1. PICK top \in T : TRUE
  OBVIOUS
<1>. DEFINE Below == {0..m : m \in {k \in T : k <= top}}
<1>2. IsFiniteSet(0..top)
  BY FS_Interval
<1>3. Below \subseteq SUBSET (0..top) /\ Below # {}
  <2>1. 0..top \in Below
    BY <1>1
  <2>. QED
    BY <2>1
<1>6. \E I \in Below : \A J \in Below : ~(J \subseteq I /\ J # I)
  <2>. DEFINE All == 0..top
  <2>1. IsFiniteSet(All) /\ Below \subseteq SUBSET All /\ Below # {}
    BY <1>2, <1>3
  <2>. HIDE DEF Below, All
  <2>. QED
    BY <2>1, Least
<1>7. PICK I \in Below : \A J \in Below : ~(J \subseteq I /\ J # I)
  BY <1>6
<1>4. PICK n \in T : n <= top /\ I = 0..n
  OBVIOUS
<1>5. ASSUME NEW m \in T, m < n PROVE FALSE
  <2>1. 0..m \in Below /\ 0..m \subseteq 0..n /\ n \notin 0..m /\ n \in 0..n
    BY <1>4, <1>5, <1>1
  <2>. QED
    BY <2>1, <1>7, <1>4
<1>. QED
  BY <1>4, <1>5

\* g[k] is the sum of the first k of the n terms in t.
Running(g, t, n) == g = [k \in 0..n |-> IF k = 0 THEN 0 ELSE g[k - 1] + t[k]]

\* There are such sums.
THEOREM RunningExists ==
  ASSUME NEW t, NEW n \in Nat PROVE \E g : Running(g, t, n)
<1>. DEFINE Bad == {m \in Nat : ~ \E g : Running(g, t, m)}
<1>. SUFFICES ASSUME Bad # {} PROVE FALSE
  OBVIOUS
<1>1. PICK m \in Bad : \A k \in Bad : m <= k
  <2>1. Bad \subseteq Nat
    OBVIOUS
  <2>. HIDE DEF Bad
  <2>. QED
    BY <2>1, LeastNumber
<1>2. CASE m = 0
  <2>. DEFINE g == [k \in 0..0 |-> 0]
  <2>1. Running(g, t, 0)
    BY DEF Running
  <2>. QED
    BY <1>2, <2>1
<1>3. CASE m # 0
  <2>1. m - 1 \in Nat /\ m - 1 \notin Bad
    BY <1>1, <1>3
  <2>2. PICK g : Running(g, t, m - 1)
    BY <2>1
  <2>. DEFINE h == [k \in 0..m |-> IF k = m THEN g[m - 1] + t[m] ELSE g[k]]
  <2>3. \A k \in 0..m - 1 : g[k] = IF k = 0 THEN 0 ELSE g[k - 1] + t[k]
    BY <2>2 DEF Running
  <2>4. ASSUME NEW k \in 0..m
        PROVE  h[k] = IF k = 0 THEN 0 ELSE h[k - 1] + t[k]
    BY <1>3, <2>3, <2>1
  <2>5. Running(h, t, m)
    BY <2>4, Zenon DEF Running
  <2>. QED
    BY <2>5
<1>. QED
  BY <1>2, <1>3

\* There is one only.
THEOREM RunningUnique ==
  ASSUME NEW g, NEW h, NEW t, NEW n \in Nat, Running(g, t, n), Running(h, t, n)
  PROVE  g = h
<1>. DEFINE Bad == {k \in 0..n : g[k] # h[k]}
<1>1. ASSUME Bad # {} PROVE FALSE
  <2>1. PICK m \in Bad : \A k \in Bad : m <= k
    <3>1. Bad \subseteq Nat
      OBVIOUS
    <3>. HIDE DEF Bad
    <3>. QED
      BY <1>1, <3>1, LeastNumber
  <2>2. g[m] = (IF m = 0 THEN 0 ELSE g[m - 1] + t[m])
        /\ h[m] = (IF m = 0 THEN 0 ELSE h[m - 1] + t[m])
    BY DEF Running
  <2>3. m # 0 /\ m - 1 \in 0..n
    BY <2>2
  <2>4. m - 1 \notin Bad
    BY <2>1, <2>3
  <2>. QED
    BY <2>2, <2>3, <2>4
<1>2. \A k \in 0..n : g[k] = h[k]
  BY <1>1
<1>. QED
  BY <1>2 DEF Running

\* A running sum of integers is an integer, of naturals a natural.
THEOREM RunningType ==
  ASSUME NEW g, NEW t, NEW n \in Nat, Running(g, t, n), NEW V \in {Nat, Int},
         \A k \in 1..n : t[k] \in V
  PROVE  \A k \in 0..n : g[k] \in V
<1>. DEFINE Bad == {k \in 0..n : g[k] \notin V}
<1>. SUFFICES ASSUME Bad # {} PROVE FALSE
  OBVIOUS
<1>1. PICK m \in Bad : \A k \in Bad : m <= k
  <2>1. Bad \subseteq Nat
    OBVIOUS
  <2>. HIDE DEF Bad
  <2>. QED
    BY <2>1, LeastNumber
<1>2. g[m] = IF m = 0 THEN 0 ELSE g[m - 1] + t[m]
  BY DEF Running
<1>3. m # 0
  BY <1>2
<1>4. m - 1 \in 0..n /\ g[m - 1] \in V /\ t[m] \in V
  BY <1>1, <1>3
<1>. QED
  BY <1>2, <1>3, <1>4

\* One more term.
THEOREM RunningExtend ==
  ASSUME NEW h, NEW t, NEW u, NEW n \in Nat, Running(h, t, n),
         \A k \in 1..n : u[k] = t[k]
  PROVE  \E g : Running(g, u, n + 1) /\ g[n + 1] = h[n] + u[n + 1]
<1>. DEFINE g == [k \in 0..n + 1 |-> IF k = n + 1 THEN h[n] + u[n + 1] ELSE h[k]]
<1>1. \A k \in 0..n : h[k] = IF k = 0 THEN 0 ELSE h[k - 1] + t[k]
  BY DEF Running
<1>2. ASSUME NEW k \in 0..n + 1
      PROVE  g[k] = IF k = 0 THEN 0 ELSE g[k - 1] + u[k]
  BY <1>1
<1>3. Running(g, u, n + 1)
  BY <1>2, Zenon DEF Running
<1>4. g[n + 1] = h[n] + u[n + 1]
  OBVIOUS
<1>. QED
  BY <1>3, <1>4

\* f times x is y, give or take c.
Within(f, c, x, y) == x \in Int /\ y \in Int /\ f * x - y <= c /\ y - f * x <= c

\* Terms that differ by at most c, up to a factor, have sums that differ by at
\* most c each.
THEOREM RunningWithin ==
  ASSUME NEW g, NEW t, NEW h, NEW u, NEW n \in Nat, Running(g, t, n), Running(h, u, n),
         NEW f \in Int, NEW c \in Int,
         \A k \in 1..n : Within(f, c, t[k], u[k])
  PROVE  Within(f, n * c, g[n], h[n])
<1>. DEFINE Near(k) == f * g[k] - h[k] <= k * c /\ h[k] - f * g[k] <= k * c
            Bad     == {k \in 0..n : ~Near(k)}
<1>1. \A k \in 0..n : g[k] \in Int /\ h[k] \in Int
  <2>1. \A k \in 1..n : t[k] \in Int /\ u[k] \in Int
    BY DEF Within
  <2>. QED
    BY <2>1, RunningType
<1>2. ASSUME Bad # {} PROVE FALSE
  <2>1. PICK m \in Bad : \A k \in Bad : m <= k
    <3>1. Bad \subseteq Nat
      OBVIOUS
    <3>. HIDE DEF Bad
    <3>. QED
      BY <1>2, <3>1, LeastNumber
  <2>2. m \in 0..n /\ ~Near(m)
    OBVIOUS
  <2>3. /\ g[m] = IF m = 0 THEN 0 ELSE g[m - 1] + t[m]
        /\ h[m] = IF m = 0 THEN 0 ELSE h[m - 1] + u[m]
    BY DEF Running
  <2>4. m # 0
    <3>1. ASSUME m = 0 PROVE Near(m)
      BY <2>3, <3>1
    <3>. QED
      BY <2>2, <3>1
  <2>5. m - 1 \in 0..n /\ Near(m - 1)
    BY <2>1, <2>4
  <2>6. \A a, b \in Int : f * (a + b) = f * a + f * b
    OBVIOUS
  <2>7. (m - 1) * c + c = m * c
    OBVIOUS
  <2>8. Within(f, c, t[m], u[m])
    BY <2>4
  <2>9. /\ f * t[m] - u[m] <= c /\ u[m] - f * t[m] <= c
        /\ f * t[m] \in Int /\ f * g[m - 1] \in Int
        /\ g[m - 1] \in Int /\ h[m - 1] \in Int /\ t[m] \in Int /\ u[m] \in Int
        /\ (m - 1) * c \in Int /\ m * c \in Int
    BY <1>1, <2>5, <2>8 DEF Within
  <2>10. f * g[m] = f * g[m - 1] + f * t[m]
    BY <2>3, <2>4, <2>6, <2>9
  <2>11. Near(m)
    BY <2>3, <2>4, <2>5, <2>7, <2>9, <2>10
  <2>. QED
    BY <2>2, <2>11
<1>3. Near(n)
  BY <1>2
<1>. QED
  BY <1>1, <1>3 DEF Within
=============================================================================
