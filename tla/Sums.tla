-------------------------------- MODULE Sums --------------------------------
(***************************************************************************)
(* Lemmas about the sums of module Functions, for every finite set of      *)
(* summands: that a sum is the same in whatever order it is computed, that *)
(* sums of integers add up, grow with their summands, and that the rows    *)
(* and the columns of a table have one sum.  All of them are proved by     *)
(* SubsetInduction, which looks at the least number of members a           *)
(* counterexample could have.                                              *)
(***************************************************************************)
EXTENDS Integers, Functions, FiniteSetTheorems, WellFoundedInduction, TLAPS

\* A set of natural numbers that is not empty has a least one.
LEMMA Least ==
  ASSUME NEW N \in SUBSET Nat, N # {}
  PROVE  \E n \in N : \A m \in N : n <= m
<1>1. PICK x \in N : \A y \in N : ~(<<y, x>> \in OpToRel(<, Nat))
  BY NatLessThanWellFounded, WFMin
<1>2. \A y \in N : y < x => <<y, x>> \in OpToRel(<, Nat)
  BY DEF OpToRel
<1>3. \A y \in N : x \in Nat /\ y \in Nat /\ ~(y < x)
  BY <1>1, <1>2
<1>4. \A y \in N : x <= y
  BY <1>3
<1> QED BY <1>4

\* Induction over the subsets of a finite set: a set of subsets that has every
\* subset all of whose members may be left out has them all.
LEMMA SubsetInduction ==
  ASSUME NEW T, IsFiniteSet(T), NEW G, {} \in G,
         \A S \in SUBSET T : S # {} /\ (\A x \in S : S \ {x} \in G) => S \in G
  PROVE  \A S \in SUBSET T : S \in G
<1> DEFINE bad == {S \in SUBSET T : S \notin G}
           sizes == {Cardinality(S) : S \in bad}
<1>1. \A S \in SUBSET T : IsFiniteSet(S) /\ Cardinality(S) \in Nat
  BY FS_Subset, FS_CardinalityType
<1>2. SUFFICES ASSUME bad # {} PROVE FALSE
  OBVIOUS
<1>3. sizes \in SUBSET Nat /\ sizes # {}
  BY <1>1, <1>2
<1> HIDE DEF sizes
<1>4. PICK n \in sizes : \A m \in sizes : n <= m
  BY <1>3, Least
<1>5. PICK S \in bad : Cardinality(S) = n
  BY <1>4 DEF sizes
<1>6. S \subseteq T /\ S \notin G /\ S # {}
  BY <1>5
<1>7. PICK x \in S : S \ {x} \notin G
  BY <1>6
<1>8. Cardinality(S \ {x}) \in sizes
  BY <1>6, <1>7 DEF sizes
<1>9. Cardinality(S \ {x}) = n - 1
  BY <1>1, <1>5, <1>6, <1>7, FS_RemoveElement
<1> QED BY <1>3, <1>4, <1>8, <1>9

\* The member that a sum takes out first.
Some(s) == CHOOSE x \in s : TRUE

\* A set that is not empty has the member that is chosen from it.
LEMMA SomeIn ==
  ASSUME NEW s, s # {}
  PROVE  Some(s) \in s
BY DEF Some

\* The function that FoldFunctionOnSet computes the sums with.
IsSums(g, f, D) ==
  g = [s \in SUBSET D |-> IF s = {} THEN 0 ELSE f[Some(s)] + g[s \ {Some(s)}]]

\* The definition of the community module, with its local function named.
LEMMA SumDef ==
  ASSUME NEW f, NEW D
  PROVE  SumFunctionOnSet(f, D) = (CHOOSE g : IsSums(g, f, D))[D]
BY DEF SumFunctionOnSet, FoldFunctionOnSet, MapThenFoldSet, IsSums, Some

\* The sums of a finite set exist: those of sets with n members are made from those
\* of sets with fewer.
LEMMA SumsExist ==
  ASSUME NEW D, IsFiniteSet(D), NEW f
  PROVE  \E g : IsSums(g, f, D)
<1> DEFINE Upto(n) == {s \in SUBSET D : Cardinality(s) <= n}
           Rec(g, n) == /\ DOMAIN g = Upto(n)
                        /\ \A s \in Upto(n) :
                             g[s] = IF s = {} THEN 0 ELSE f[Some(s)] + g[s \ {Some(s)}]
           bad == {n \in Nat : ~\E g : Rec(g, n)}
<1>1. \A s \in SUBSET D : IsFiniteSet(s) /\ Cardinality(s) \in Nat
  BY FS_Subset, FS_CardinalityType
<1>2. \A s \in SUBSET D : s # {} => Cardinality(s \ {Some(s)}) = Cardinality(s) - 1
  BY <1>1, SomeIn, FS_RemoveElement
<1>3. \A s \in SUBSET D : Cardinality(s) = 0 <=> s = {}
  BY <1>1, FS_EmptySet
<1>4. bad = {}
  <2>1. SUFFICES ASSUME bad # {} PROVE FALSE
    OBVIOUS
  <2>2. PICK n \in bad : \A m \in bad : n <= m
    <3>1. bad \in SUBSET Nat
      OBVIOUS
    <3> HIDE DEF bad
    <3> QED BY <2>1, <3>1, Least
  <2>3. CASE n = 0
    <3> DEFINE g == [s \in Upto(0) |-> 0]
    <3>1. \A s \in Upto(0) : s = {}
      BY <1>1, <1>3
    <3>2. Rec(g, 0)
      BY <3>1
    <3> QED BY <2>2, <2>3, <3>2
  <2>4. CASE n # 0
    <3>1. n - 1 \in Nat /\ n - 1 \notin bad
      <4>1. n \in Nat
        OBVIOUS
      <4> HIDE DEF bad
      <4>2. n - 1 \in bad => n <= n - 1
        BY <2>2
      <4> QED BY <2>4, <4>1, <4>2
    <3>2. PICK g : Rec(g, n - 1)
      BY <3>1
    <3> DEFINE h == [s \in Upto(n) |-> IF s \in Upto(n - 1) THEN g[s]
                                       ELSE f[Some(s)] + g[s \ {Some(s)}]]
    <3>3. \A s \in Upto(n) : s # {} => s \ {Some(s)} \in Upto(n - 1) /\ s \ {Some(s)} \in Upto(n)
      BY <1>1, <1>2, <2>2
    <3>4. \A s \in Upto(n - 1) : s \in Upto(n) /\ h[s] = g[s]
      BY <1>1, <2>2
    <3>5. {} \in Upto(n - 1)
      BY <1>3, <3>1, FS_EmptySet
    <3>6. ASSUME NEW s \in Upto(n)
          PROVE  h[s] = IF s = {} THEN 0 ELSE f[Some(s)] + h[s \ {Some(s)}]
      <4>1. CASE s \in Upto(n - 1)
        <5>1. h[s] = IF s = {} THEN 0 ELSE f[Some(s)] + g[s \ {Some(s)}]
          BY <3>2, <3>4, <4>1
        <5>2. s # {} => h[s \ {Some(s)}] = g[s \ {Some(s)}]
          BY <3>3, <3>4
        <5> HIDE DEF h
        <5> QED BY <5>1, <5>2
      <4>2. CASE s \notin Upto(n - 1)
        <5>1. s # {} /\ h[s] = f[Some(s)] + g[s \ {Some(s)}]
          BY <3>5, <4>2
        <5>2. h[s \ {Some(s)}] = g[s \ {Some(s)}]
          BY <3>3, <3>4, <5>1
        <5> HIDE DEF h
        <5> QED BY <5>1, <5>2
      <4> QED BY <4>1, <4>2
    <3>7. DOMAIN h = Upto(n)
      OBVIOUS
    <3> HIDE DEF h
    <3>8. Rec(h, n)
      BY <3>6, <3>7
    <3> QED BY <2>2, <3>8
  <2> QED BY <2>3, <2>4
<1>5. PICK g : Rec(g, Cardinality(D))
  BY <1>1, <1>4
<1>6. Upto(Cardinality(D)) = SUBSET D
  BY <1>1, FS_Subset
<1> DEFINE h == [s \in SUBSET D |-> g[s]]
<1>7. h = [s \in SUBSET D |-> IF s = {} THEN 0 ELSE f[Some(s)] + h[s \ {Some(s)}]]
  <2>1. \A s \in SUBSET D : s \ {Some(s)} \in SUBSET D
    OBVIOUS
  <2>2. \A s \in SUBSET D : h[s] = IF s = {} THEN 0 ELSE f[Some(s)] + h[s \ {Some(s)}]
    BY <1>5, <1>6, <2>1
  <2> QED BY <2>2
<1> QED BY <1>7 DEF IsSums

\* The sums of a set hold for its subsets, too.
LEMMA SumsAgree ==
  ASSUME NEW D, IsFiniteSet(D), NEW E \in SUBSET D, NEW f,
         NEW g, IsSums(g, f, D), NEW h, IsSums(h, f, E)
  PROVE  h[E] = g[E]
<1> DEFINE G == {s \in SUBSET E : h[s] = g[s]}
<1>1. IsFiniteSet(E)
  BY FS_Subset
<1>2. \A s \in SUBSET D : g[s] = IF s = {} THEN 0 ELSE f[Some(s)] + g[s \ {Some(s)}]
  BY DEF IsSums
<1>3. \A s \in SUBSET E : h[s] = IF s = {} THEN 0 ELSE f[Some(s)] + h[s \ {Some(s)}]
  BY DEF IsSums
<1>4. {} \in G
  BY <1>2, <1>3
<1>5. ASSUME NEW s \in SUBSET E, s # {}, \A x \in s : s \ {x} \in G
      PROVE  s \in G
  <2>1. h[s \ {Some(s)}] = g[s \ {Some(s)}]
    BY <1>5, SomeIn
  <2>2. s \in SUBSET D
    OBVIOUS
  <2> QED BY <1>2, <1>3, <1>5, <2>1, <2>2
<1> HIDE DEF G
<1>6. \A s \in SUBSET E : s \in G
  BY <1>1, <1>4, <1>5, SubsetInduction
<1> QED BY <1>6 DEF G

\* A sum is its chosen summand and the sum of the others.
LEMMA SumStep ==
  ASSUME NEW D, IsFiniteSet(D), NEW f
  PROVE  SumFunctionOnSet(f, D) =
           IF D = {} THEN 0
           ELSE f[Some(D)] + SumFunctionOnSet(f, D \ {Some(D)})
<1> DEFINE E == D \ {Some(D)}
           g == CHOOSE x : IsSums(x, f, D)
           h == CHOOSE x : IsSums(x, f, E)
<1>1. IsFiniteSet(E) /\ E \in SUBSET D
  BY FS_Subset
<1>2. IsSums(g, f, D)
  BY SumsExist
<1>3. IsSums(h, f, E)
  BY <1>1, SumsExist
<1>4. SumFunctionOnSet(f, D) = g[D] /\ SumFunctionOnSet(f, E) = h[E]
  BY SumDef
<1> HIDE DEF g, h, E
<1>5. h[E] = g[E]
  BY <1>1, <1>2, <1>3, SumsAgree
<1>6. g[D] = IF D = {} THEN 0 ELSE f[Some(D)] + g[E]
  BY <1>2 DEF IsSums, E
<1> QED BY <1>4, <1>5, <1>6 DEF E

\* A sum of integers is one.
LEMMA SumType ==
  ASSUME NEW D, IsFiniteSet(D), NEW f, \A x \in D : f[x] \in Int
  PROVE  SumFunctionOnSet(f, D) \in Int
<1> DEFINE G == {s \in SUBSET D : SumFunctionOnSet(f, s) \in Int}
<1>1. \A s \in SUBSET D : IsFiniteSet(s)
  BY FS_Subset
<1>2. {} \in G
  BY <1>1, SumStep
<1>3. ASSUME NEW s \in SUBSET D, s # {}, \A x \in s : s \ {x} \in G
      PROVE  s \in G
  <2>1. Some(s) \in s
    BY <1>3, SomeIn
  <2>2. SumFunctionOnSet(f, s \ {Some(s)}) \in Int /\ f[Some(s)] \in Int
    BY <1>3, <2>1
  <2>3. SumFunctionOnSet(f, s) = f[Some(s)] + SumFunctionOnSet(f, s \ {Some(s)})
    BY <1>1, <1>3, SumStep
  <2> QED BY <2>2, <2>3
<1> HIDE DEF G
<1>4. \A s \in SUBSET D : s \in G
  BY <1>2, <1>3, SubsetInduction
<1> QED BY <1>4 DEF G

\* It does not matter which summand is taken out.
LEMMA SumPick ==
  ASSUME NEW D, IsFiniteSet(D), NEW f, \A x \in D : f[x] \in Int, NEW x \in D
  PROVE  SumFunctionOnSet(f, D) = f[x] + SumFunctionOnSet(f, D \ {x})
<1> DEFINE Picks(s) == \A y \in s : SumFunctionOnSet(f, s) = f[y] + SumFunctionOnSet(f, s \ {y})
           G == {s \in SUBSET D : Picks(s)}
<1>1. \A s \in SUBSET D : IsFiniteSet(s)
  BY FS_Subset
<1>2. \A s \in SUBSET D : SumFunctionOnSet(f, s) \in Int
  BY <1>1, SumType
<1>3. ASSUME NEW s \in SUBSET D, s # {}, \A y \in s : s \ {y} \in G, NEW y \in s
      PROVE  SumFunctionOnSet(f, s) = f[y] + SumFunctionOnSet(f, s \ {y})
  <2> DEFINE z == Some(s)
  <2>1. z \in s
    BY <1>3, SomeIn
  <2>2. SumFunctionOnSet(f, s) = f[z] + SumFunctionOnSet(f, s \ {z})
    BY <1>1, <1>3, SumStep
  <2> HIDE DEF z
  <2>3. CASE y = z
    BY <2>2, <2>3
  <2>4. CASE y # z
    <3>1. SumFunctionOnSet(f, s \ {z}) = f[y] + SumFunctionOnSet(f, (s \ {z}) \ {y})
      BY <1>3, <2>1, <2>4
    <3>2. SumFunctionOnSet(f, s \ {y}) = f[z] + SumFunctionOnSet(f, (s \ {y}) \ {z})
      BY <1>3, <2>1, <2>4
    <3>3. (s \ {z}) \ {y} = (s \ {y}) \ {z}
      OBVIOUS
    <3>4. /\ f[y] \in Int /\ f[z] \in Int
          /\ SumFunctionOnSet(f, (s \ {y}) \ {z}) \in Int
      BY <1>2, <1>3, <2>1
    <3> DEFINE r == SumFunctionOnSet(f, (s \ {y}) \ {z})
    <3>5. SumFunctionOnSet(f, s) = f[z] + (f[y] + r)
      BY <2>2, <3>1, <3>3
    <3>6. SumFunctionOnSet(f, s \ {y}) = f[z] + r
      BY <3>2
    <3>7. r \in Int
      BY <3>4
    <3> HIDE DEF G, r
    <3>8. f[z] + (f[y] + r) = f[y] + (f[z] + r)
      BY <3>4, <3>7
    <3> QED BY <3>5, <3>6, <3>8
  <2> QED BY <2>3, <2>4
<1>4. {} \in G
  OBVIOUS
<1>5. \A s \in SUBSET D : s # {} /\ (\A y \in s : s \ {y} \in G) => s \in G
  BY <1>3
<1> HIDE DEF G
<1>6. D \in G
  BY <1>4, <1>5, SubsetInduction
<1> QED BY <1>6 DEF G

\* Sums of the same summands are the same.
LEMMA SumSame ==
  ASSUME NEW D, IsFiniteSet(D), NEW f, NEW g, \A x \in D : f[x] = g[x]
  PROVE  SumFunctionOnSet(f, D) = SumFunctionOnSet(g, D)
<1> DEFINE G == {s \in SUBSET D : SumFunctionOnSet(f, s) = SumFunctionOnSet(g, s)}
<1>1. \A s \in SUBSET D : IsFiniteSet(s)
  BY FS_Subset
<1>2. {} \in G
  BY <1>1, SumStep
<1>3. ASSUME NEW s \in SUBSET D, s # {}, \A x \in s : s \ {x} \in G
      PROVE  s \in G
  <2>1. Some(s) \in s
    BY <1>3, SomeIn
  <2>2. /\ SumFunctionOnSet(f, s \ {Some(s)}) = SumFunctionOnSet(g, s \ {Some(s)})
        /\ f[Some(s)] = g[Some(s)]
    BY <1>3, <2>1
  <2>3. /\ SumFunctionOnSet(f, s) = f[Some(s)] + SumFunctionOnSet(f, s \ {Some(s)})
        /\ SumFunctionOnSet(g, s) = g[Some(s)] + SumFunctionOnSet(g, s \ {Some(s)})
    BY <1>1, <1>3, SumStep
  <2> QED BY <2>2, <2>3
<1> HIDE DEF G
<1>4. \A s \in SUBSET D : s \in G
  BY <1>2, <1>3, SubsetInduction
<1> QED BY <1>4 DEF G

\* The sum of sums.
LEMMA SumAdd ==
  ASSUME NEW D, IsFiniteSet(D), NEW f, NEW g, NEW h,
         \A x \in D : f[x] \in Int /\ g[x] \in Int /\ h[x] = f[x] + g[x]
  PROVE  SumFunctionOnSet(h, D) = SumFunctionOnSet(f, D) + SumFunctionOnSet(g, D)
<1> DEFINE G == {s \in SUBSET D :
                  SumFunctionOnSet(h, s) = SumFunctionOnSet(f, s) + SumFunctionOnSet(g, s)}
<1>1. \A s \in SUBSET D : IsFiniteSet(s)
  BY FS_Subset
<1>2. \A s \in SUBSET D : SumFunctionOnSet(f, s) \in Int /\ SumFunctionOnSet(g, s) \in Int
  BY <1>1, SumType
<1>3. {} \in G
  BY <1>1, SumStep
<1>4. ASSUME NEW s \in SUBSET D, s # {}, \A x \in s : s \ {x} \in G
      PROVE  s \in G
  <2> DEFINE z == Some(s)
             F == SumFunctionOnSet(f, s \ {z})
             K == SumFunctionOnSet(g, s \ {z})
  <2>1. z \in s
    BY <1>4, SomeIn
  <2>2. SumFunctionOnSet(h, s \ {z}) = F + K
    BY <1>4, <2>1
  <2>3. /\ SumFunctionOnSet(f, s) = f[z] + F
        /\ SumFunctionOnSet(g, s) = g[z] + K
        /\ SumFunctionOnSet(h, s) = h[z] + SumFunctionOnSet(h, s \ {z})
    BY <1>1, <1>4, SumStep
  <2>4. F \in Int /\ K \in Int /\ f[z] \in Int /\ g[z] \in Int /\ h[z] = f[z] + g[z]
    BY <1>2, <2>1
  <2> HIDE DEF z, F, K
  <2>5. (f[z] + g[z]) + (F + K) = (f[z] + F) + (g[z] + K)
    BY <2>4
  <2> QED BY <2>2, <2>3, <2>4, <2>5
<1> HIDE DEF G
<1>5. \A s \in SUBSET D : s \in G
  BY <1>3, <1>4, SubsetInduction
<1> QED BY <1>5 DEF G

\* A sum of larger summands is not smaller.
LEMMA SumGrows ==
  ASSUME NEW D, IsFiniteSet(D), NEW f, NEW g,
         \A x \in D : f[x] \in Int /\ g[x] \in Int /\ f[x] <= g[x]
  PROVE  SumFunctionOnSet(f, D) <= SumFunctionOnSet(g, D)
<1> DEFINE G == {s \in SUBSET D : SumFunctionOnSet(f, s) <= SumFunctionOnSet(g, s)}
<1>1. \A s \in SUBSET D : IsFiniteSet(s)
  BY FS_Subset
<1>2. \A s \in SUBSET D : SumFunctionOnSet(f, s) \in Int /\ SumFunctionOnSet(g, s) \in Int
  BY <1>1, SumType
<1>3. {} \in G
  BY <1>1, SumStep
<1>4. ASSUME NEW s \in SUBSET D, s # {}, \A x \in s : s \ {x} \in G
      PROVE  s \in G
  <2> DEFINE z == Some(s)
             F == SumFunctionOnSet(f, s \ {z})
             K == SumFunctionOnSet(g, s \ {z})
  <2>1. z \in s
    BY <1>4, SomeIn
  <2>2. F <= K
    BY <1>4, <2>1
  <2>3. SumFunctionOnSet(f, s) = f[z] + F /\ SumFunctionOnSet(g, s) = g[z] + K
    BY <1>1, <1>4, SumStep
  <2>4. F \in Int /\ K \in Int /\ f[z] \in Int /\ g[z] \in Int /\ f[z] <= g[z]
    BY <1>2, <2>1
  <2> HIDE DEF z, F, K
  <2>5. f[z] + F <= g[z] + K
    BY <2>2, <2>4
  <2> QED BY <2>3, <2>5
<1> HIDE DEF G
<1>5. \A s \in SUBSET D : s \in G
  BY <1>3, <1>4, SubsetInduction
<1> QED BY <1>5 DEF G

\* A sum of nothing but zeros.
LEMMA SumZero ==
  ASSUME NEW D, IsFiniteSet(D), NEW f, \A x \in D : f[x] = 0
  PROVE  SumFunctionOnSet(f, D) = 0
<1> DEFINE G == {s \in SUBSET D : SumFunctionOnSet(f, s) = 0}
<1>1. \A s \in SUBSET D : IsFiniteSet(s)
  BY FS_Subset
<1>2. {} \in G
  BY <1>1, SumStep
<1>3. ASSUME NEW s \in SUBSET D, s # {}, \A x \in s : s \ {x} \in G
      PROVE  s \in G
  <2>1. Some(s) \in s
    BY <1>3, SomeIn
  <2>2. SumFunctionOnSet(f, s \ {Some(s)}) = 0 /\ f[Some(s)] = 0
    BY <1>3, <2>1
  <2>3. SumFunctionOnSet(f, s) = f[Some(s)] + SumFunctionOnSet(f, s \ {Some(s)})
    BY <1>1, <1>3, SumStep
  <2> QED BY <2>2, <2>3
<1> HIDE DEF G
<1>4. \A s \in SUBSET D : s \in G
  BY <1>2, <1>3, SubsetInduction
<1> QED BY <1>4 DEF G

\* A sum with one summand that is not zero.
LEMMA SumOne ==
  ASSUME NEW D, IsFiniteSet(D), NEW f, NEW x \in D, f[x] \in Int,
         \A y \in D : y # x => f[y] = 0
  PROVE  SumFunctionOnSet(f, D) = f[x]
<1>1. SumFunctionOnSet(f, D \ {x}) = 0
  <2>1. IsFiniteSet(D \ {x})
    BY FS_Subset
  <2> QED BY <2>1, SumZero
<1>2. SumFunctionOnSet(f, D) = f[x] + SumFunctionOnSet(f, D \ {x})
  BY SumPick
<1> QED BY <1>1, <1>2

\* Zeros may be left out.
LEMMA SumRestrict ==
  ASSUME NEW D, IsFiniteSet(D), NEW E \in SUBSET D, NEW f, NEW h,
         \A x \in E : f[x] \in Int /\ h[x] = f[x],
         \A x \in D \ E : h[x] = 0
  PROVE  SumFunctionOnSet(h, D) = SumFunctionOnSet(f, E)
<1> DEFINE G == {s \in SUBSET D : SumFunctionOnSet(h, s) = SumFunctionOnSet(f, s \cap E)}
<1>1. \A s \in SUBSET D : IsFiniteSet(s) /\ IsFiniteSet(s \cap E)
  BY FS_Subset
<1>2. \A x \in D : h[x] \in Int
  OBVIOUS
<1>3. {} \in G
  <2>1. {} \cap E = {} /\ IsFiniteSet({})
    BY <1>1
  <2> QED BY <2>1, SumStep
<1>4. ASSUME NEW s \in SUBSET D, s # {}, \A x \in s : s \ {x} \in G
      PROVE  s \in G
  <2>1. PICK z \in s : TRUE
    BY <1>4
  <2>2. SumFunctionOnSet(h, s) = h[z] + SumFunctionOnSet(h, s \ {z})
    BY <1>1, <1>2, SumPick
  <2>3. SumFunctionOnSet(h, s \ {z}) = SumFunctionOnSet(f, (s \ {z}) \cap E)
    BY <1>4
  <2>4. SumFunctionOnSet(h, s \ {z}) \in Int
    <3>1. IsFiniteSet(s \ {z}) /\ \A x \in s \ {z} : h[x] \in Int
      BY <1>1, <1>2
    <3> QED BY <3>1, SumType
  <2>5. CASE z \in E
    <3>1. (s \ {z}) \cap E = (s \cap E) \ {z}
      OBVIOUS
    <3>2. SumFunctionOnSet(f, s \cap E) = f[z] + SumFunctionOnSet(f, (s \cap E) \ {z})
      BY <1>1, <2>5, SumPick
    <3> QED BY <2>2, <2>3, <2>5, <3>1, <3>2
  <2>6. CASE z \notin E
    <3>1. (s \ {z}) \cap E = s \cap E
      BY <2>6
    <3>2. h[z] = 0
      BY <2>6
    <3>3. SumFunctionOnSet(h, s \ {z}) = SumFunctionOnSet(f, s \cap E)
      BY <2>3, <3>1
    <3>4. SumFunctionOnSet(h, s) = SumFunctionOnSet(h, s \ {z})
      BY <2>2, <2>4, <3>2
    <3> QED BY <3>3, <3>4
  <2> QED BY <2>5, <2>6
<1> HIDE DEF G
<1>5. \A s \in SUBSET D : s \in G
  BY <1>3, <1>4, SubsetInduction
<1>6. D \cap E = E
  OBVIOUS
<1> QED BY <1>5, <1>6 DEF G

\* A part of what is not negative.
LEMMA SumPart ==
  ASSUME NEW D, IsFiniteSet(D), NEW E \in SUBSET D, NEW f, \A x \in D : f[x] \in Nat
  PROVE  /\ SumFunctionOnSet(f, D) \in Nat
         /\ SumFunctionOnSet(f, E) \in 0 .. SumFunctionOnSet(f, D)
<1> DEFINE none == [x \in D |-> 0]
           part == [x \in D |-> IF x \in E THEN f[x] ELSE 0]
<1>1. \A x \in D : /\ none[x] = 0 /\ none[x] \in Int /\ part[x] \in Int /\ f[x] \in Int
                   /\ none[x] <= part[x] /\ part[x] <= f[x]
  OBVIOUS
<1>2. /\ \A x \in E : f[x] \in Int /\ part[x] = f[x]
      /\ \A x \in D \ E : part[x] = 0
  OBVIOUS
<1> HIDE DEF none, part
<1>3. SumFunctionOnSet(part, D) = SumFunctionOnSet(f, E)
  BY <1>2, SumRestrict
<1>4. SumFunctionOnSet(none, D) = 0
  BY <1>1, SumZero
<1>5. SumFunctionOnSet(none, D) <= SumFunctionOnSet(part, D)
  BY <1>1, SumGrows
<1>6. SumFunctionOnSet(part, D) <= SumFunctionOnSet(f, D)
  BY <1>1, SumGrows
<1>7. SumFunctionOnSet(part, D) \in Int /\ SumFunctionOnSet(f, D) \in Int
  BY <1>1, SumType
<1> QED BY <1>3, <1>4, <1>5, <1>6, <1>7

\* A factor may be taken out.
LEMMA SumTimes ==
  ASSUME NEW D, IsFiniteSet(D), NEW m \in Int, NEW f, NEW h,
         \A x \in D : f[x] \in Int /\ h[x] = f[x] * m
  PROVE  SumFunctionOnSet(h, D) = SumFunctionOnSet(f, D) * m
<1> DEFINE F(s) == SumFunctionOnSet(f, s)
           H(s) == SumFunctionOnSet(h, s)
           G == {s \in SUBSET D : H(s) = F(s) * m}
<1>1. \A s \in SUBSET D : IsFiniteSet(s)
  BY FS_Subset
<1>2. \A s \in SUBSET D : F(s) \in Int
  BY <1>1, SumType
<1>3. {} \in G
  <2>1. F({}) = 0 /\ H({}) = 0
    BY <1>1, SumStep
  <2> QED BY <2>1
<1>4. ASSUME NEW s \in SUBSET D, s # {}, \A x \in s : s \ {x} \in G
      PROVE  s \in G
  <2> DEFINE z == Some(s)
             r == s \ {z}
  <2>1. z \in s
    BY <1>4, SomeIn
  <2>2. H(r) = F(r) * m
    BY <1>4, <2>1
  <2>3. F(s) = f[z] + F(r) /\ H(s) = h[z] + H(r)
    BY <1>1, <1>4, SumStep
  <2>4. F(r) \in Int /\ f[z] \in Int /\ h[z] = f[z] * m
    BY <1>2, <2>1
  <2> HIDE DEF z, r, F, H
  <2>5. h[z] + H(r) = (f[z] + F(r)) * m
    BY <2>2, <2>4
  <2> QED BY <2>3, <2>5
<1> HIDE DEF G
<1>5. \A s \in SUBSET D : s \in G
  BY <1>3, <1>4, SubsetInduction
<1> QED BY <1>5 DEF G

\* A table f over D and E and its transpose k, with the sums of the rows of each.
IsTable(f, D, E) == f \in [D -> [E -> Int]]
Transposed(f, k, D, E) == \A x \in D, y \in E : k[y][x] = f[x][y]
RowSums(rows, f, D, E) == \A x \in D : rows[x] = SumFunctionOnSet(f[x], E)

\* The sum of the rows of a table f is the sum of the columns, the rows of its
\* transpose k.
LEMMA SumSwap ==
  ASSUME NEW D, IsFiniteSet(D), NEW E, IsFiniteSet(E),
         NEW f, IsTable(f, D, E), NEW k, IsTable(k, E, D), Transposed(f, k, D, E),
         NEW rows, RowSums(rows, f, D, E), NEW columns, RowSums(columns, k, E, D)
  PROVE  SumFunctionOnSet(rows, D) = SumFunctionOnSet(columns, E)
<1> USE DEF IsTable, Transposed, RowSums
<1> DEFINE upto(s) == [x \in D |-> SumFunctionOnSet(f[x], s)]
           G == {s \in SUBSET E : SumFunctionOnSet(upto(s), D) = SumFunctionOnSet(columns, s)}
<1>1. \A s \in SUBSET E : IsFiniteSet(s)
  BY FS_Subset
<1>2. \A x \in D, s \in SUBSET E : SumFunctionOnSet(f[x], s) \in Int
  BY <1>1, SumType
<1>3. \A y \in E : columns[y] \in Int
  BY SumType
<1>4. {} \in G
  <2>1. \A x \in D : upto({})[x] = 0
    BY <1>1, SumStep
  <2>2. SumFunctionOnSet(upto({}), D) = 0
    <3> HIDE DEF upto
    <3> QED BY <2>1, SumZero
  <2>3. SumFunctionOnSet(columns, {}) = 0
    BY <1>1, SumStep
  <2> QED BY <2>2, <2>3
<1>5. ASSUME NEW s \in SUBSET E, s # {}, \A y \in s : s \ {y} \in G
      PROVE  s \in G
  <2> DEFINE z == Some(s)
             column == k[z]
  <2>1. z \in s
    BY <1>5, SomeIn
  <2> HIDE DEF z
  <2>2. \A x \in D : SumFunctionOnSet(f[x], s) = f[x][z] + SumFunctionOnSet(f[x], s \ {z})
    <3>1. ASSUME NEW x \in D
          PROVE  SumFunctionOnSet(f[x], s) = f[x][z] + SumFunctionOnSet(f[x], s \ {z})
      <4> DEFINE g == f[x]
      <4>1. IsFiniteSet(s) /\ \A y \in s : g[y] \in Int
        BY <1>1
      <4> HIDE DEF g
      <4>2. SumFunctionOnSet(g, s) = g[z] + SumFunctionOnSet(g, s \ {z})
        BY <2>1, <4>1, SumPick, ZenonT(60)
      <4> QED BY <4>2 DEF g
    <3> QED BY <3>1
  <2>3. \A x \in D : /\ column[x] \in Int /\ upto(s \ {z})[x] \in Int
                     /\ upto(s)[x] = column[x] + upto(s \ {z})[x]
    BY <1>2, <2>1, <2>2
  <2>4. SumFunctionOnSet(upto(s), D)
          = SumFunctionOnSet(column, D) + SumFunctionOnSet(upto(s \ {z}), D)
    <3> DEFINE u == upto(s)
               v == upto(s \ {z})
    <3>1. \A x \in D : column[x] \in Int /\ v[x] \in Int /\ u[x] = column[x] + v[x]
      BY <2>3
    <3> HIDE DEF u, v, column
    <3>2. SumFunctionOnSet(u, D) = SumFunctionOnSet(column, D) + SumFunctionOnSet(v, D)
      BY <3>1, SumAdd
    <3> QED BY <3>2 DEF u, v
  <2>5. columns[z] = SumFunctionOnSet(column, D)
    BY <2>1
  <2>6. SumFunctionOnSet(columns, s) = columns[z] + SumFunctionOnSet(columns, s \ {z})
    <3>1. IsFiniteSet(s) /\ \A y \in s : columns[y] \in Int
      BY <1>1, <1>3
    <3> QED BY <2>1, <3>1, SumPick, ZenonT(60)
  <2>7. SumFunctionOnSet(upto(s \ {z}), D) = SumFunctionOnSet(columns, s \ {z})
    BY <1>5, <2>1
  <2> HIDE DEF upto, column
  <2> QED BY <2>4, <2>5, <2>6, <2>7
<1> HIDE DEF G
<1>6. E \in G
  BY <1>4, <1>5, SubsetInduction
<1>7. SumFunctionOnSet(upto(E), D) = SumFunctionOnSet(rows, D)
  <2>1. \A x \in D : upto(E)[x] = rows[x]
    OBVIOUS
  <2> HIDE DEF upto
  <2> QED BY <2>1, SumSame
<1> QED BY <1>6, <1>7 DEF G

\* What is sorted into groups adds up: g tells the group of a member, group what is
\* in it, h its sum.
LEMMA SumGroups ==
  ASSUME NEW D, IsFiniteSet(D), NEW E, IsFiniteSet(E),
         NEW f, NEW g, \A y \in E : f[y] \in Int /\ g[y] \in D,
         NEW group, \A x \in D : group[x] \in SUBSET E,
         \A x \in D, y \in E : y \in group[x] <=> g[y] = x,
         NEW h, \A x \in D : h[x] = SumFunctionOnSet(f, group[x])
  PROVE  SumFunctionOnSet(h, D) = SumFunctionOnSet(f, E)
<1> DEFINE table == [x \in D |-> [y \in E |-> IF g[y] = x THEN f[y] ELSE 0]]
           turned == [y \in E |-> [x \in D |-> IF g[y] = x THEN f[y] ELSE 0]]
<1>1. table \in [D -> [E -> Int]]
  OBVIOUS
<1>2. turned \in [E -> [D -> Int]]
  OBVIOUS
<1>3. \A x \in D, y \in E : turned[y][x] = table[x][y]
  OBVIOUS
<1>4. \A x \in D : h[x] = SumFunctionOnSet(table[x], E)
  <2>1. ASSUME NEW x \in D PROVE h[x] = SumFunctionOnSet(table[x], E)
    <3> DEFINE G == group[x]
               row == table[x]
    <3>1. G \in SUBSET E
      OBVIOUS
    <3>2. \A y \in G : f[y] \in Int /\ row[y] = f[y]
      OBVIOUS
    <3>3. \A y \in E \ G : row[y] = 0
      OBVIOUS
    <3>4. h[x] = SumFunctionOnSet(f, G)
      OBVIOUS
    <3> HIDE DEF G, row
    <3>5. SumFunctionOnSet(row, E) = SumFunctionOnSet(f, G)
      BY <3>1, <3>2, <3>3, SumRestrict
    <3> QED BY <3>4, <3>5 DEF row
  <2> QED BY <2>1
<1>5. \A y \in E : f[y] = SumFunctionOnSet(turned[y], D)
  <2>1. ASSUME NEW y \in E PROVE f[y] = SumFunctionOnSet(turned[y], D)
    <3> DEFINE column == turned[y]
               x == g[y]
    <3>1. x \in D /\ column[x] = f[y] /\ f[y] \in Int
      OBVIOUS
    <3>2. \A z \in D : z # x => column[z] = 0
      OBVIOUS
    <3> HIDE DEF x, column
    <3>3. SumFunctionOnSet(column, D) = column[x]
      BY <3>1, <3>2, SumOne
    <3> QED BY <3>1, <3>3 DEF column
  <2> QED BY <2>1
<1> DEFINE rows == [x \in D |-> SumFunctionOnSet(table[x], E)]
           columns == [y \in E |-> SumFunctionOnSet(turned[y], D)]
<1>6. \A x \in D : rows[x] = SumFunctionOnSet(table[x], E)
  OBVIOUS
<1>7. \A y \in E : columns[y] = SumFunctionOnSet(turned[y], D)
  OBVIOUS
<1>8. \A x \in D : h[x] = rows[x]
  BY <1>4, <1>6
<1>9. \A y \in E : columns[y] = f[y]
  BY <1>5, <1>7
<1> HIDE DEF table, turned, rows, columns
<1>10. SumFunctionOnSet(rows, D) = SumFunctionOnSet(columns, E)
  <2>1. IsTable(table, D, E) /\ IsTable(turned, E, D)
    BY <1>1, <1>2 DEF IsTable
  <2>2. Transposed(table, turned, D, E)
    BY <1>3 DEF Transposed
  <2>3. RowSums(rows, table, D, E) /\ RowSums(columns, turned, E, D)
    BY <1>6, <1>7 DEF RowSums
  <2> QED BY <2>1, <2>2, <2>3, SumSwap
<1>11. SumFunctionOnSet(h, D) = SumFunctionOnSet(rows, D)
  BY <1>8, SumSame
<1>12. SumFunctionOnSet(columns, E) = SumFunctionOnSet(f, E)
  BY <1>9, SumSame
<1> QED BY <1>10, <1>11, <1>12
=============================================================================
