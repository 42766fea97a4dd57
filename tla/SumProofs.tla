----------------------------- MODULE SumProofs ------------------------------
(***************************************************************************)
(* Sums over finite sets, as the folds of the community modules compute    *)
(* them: one element after another, in an order of their own.  The order   *)
(* does not matter, and a sum changes by what its terms change by.  There  *)
(* is no induction over sets without an operator for the hypothesis; a     *)
(* smallest counterexample takes its place.                                *)
(***************************************************************************)
EXTENDS Integers, Folds, Functions, FiniteSetTheorems, TLAPS

First(T) == CHOOSE x \in T : TRUE

IsSum(g, T, f) ==
  g = [s \in SUBSET T |-> IF s = {} THEN 0 ELSE f[First(s)] + g[s \ {First(s)}]]

SumUp(S, f) == (CHOOSE g : IsSum(g, S, f))[S]

LEMMA FoldIsSum ==
  ASSUME NEW S, NEW f
  PROVE  FoldFunctionOnSet(+, 0, f, S) = SumUp(S, f)
BY DEF FoldFunctionOnSet, MapThenFoldSet, SumUp, IsSum, First

\* Induction over a finite set, in the form of a smallest counterexample.
LEMMA Smallest ==
  ASSUME NEW S, IsFiniteSet(S), NEW Bad \in SUBSET (SUBSET S), Bad # {}
  PROVE  \E T \in Bad : \A U \in Bad : U \subseteq T => U = T
<1>1. /\ FiniteSubsetsOf(S) = SUBSET S
      /\ IsWellFoundedOn(StrictSubsetOrdering(S), FiniteSubsetsOf(S))
  BY FS_FiniteSubsetsOfFinite, FS_StrictSubsetOrderingWellFounded
<1>2. IsWellFoundedOn(StrictSubsetOrdering(S), SUBSET S)
  BY <1>1
<1>3. \E T \in Bad : \A U \in Bad : ~ (<<U, T>> \in StrictSubsetOrdering(S))
  BY <1>2, WFMin
<1>. QED BY <1>3 DEF StrictSubsetOrdering

LEMMA FirstIn == ASSUME NEW T, T # {} PROVE First(T) \in T
BY DEF First

LEMMA SumsAgree ==
  ASSUME NEW S, IsFiniteSet(S), NEW f, NEW T \in SUBSET S, NEW U \in SUBSET S,
         NEW g, IsSum(g, T, f), NEW h, IsSum(h, U, f)
  PROVE  \A s \in SUBSET (T \cap U) : g[s] = h[s]
<1>. DEFINE Bad == {s \in SUBSET (T \cap U) : g[s] # h[s]}
<1>. SUFFICES ASSUME Bad # {} PROVE FALSE
  OBVIOUS
<1>1. PICK s \in Bad : \A t \in Bad : t \subseteq s => t = s
  <2>1. Bad \in SUBSET (SUBSET S)
    OBVIOUS
  <2>. HIDE DEF Bad
  <2>. QED BY <2>1, Smallest
<1>2. /\ g[s] = (IF s = {} THEN 0 ELSE f[First(s)] + g[s \ {First(s)}])
      /\ h[s] = (IF s = {} THEN 0 ELSE f[First(s)] + h[s \ {First(s)}])
  BY DEF IsSum
<1>3. s # {}
  BY <1>2
<1>4. s \ {First(s)} \notin Bad
  BY <1>1, <1>3, FirstIn
<1>. QED BY <1>2, <1>3, <1>4

LEMMA SumExists ==
  ASSUME NEW S, IsFiniteSet(S), NEW f
  PROVE  \E g : IsSum(g, S, f)
<1>. DEFINE Bad == {T \in SUBSET S : ~ \E g : IsSum(g, T, f)}
<1>. SUFFICES ASSUME Bad # {} PROVE FALSE
  OBVIOUS
<1>1. PICK T \in Bad : \A U \in Bad : U \subseteq T => U = T
  <2>1. Bad \in SUBSET (SUBSET S)
    OBVIOUS
  <2>. HIDE DEF Bad
  <2>. QED BY <2>1, Smallest
<1>. DEFINE Part(U) == CHOOSE g : IsSum(g, U, f)
            Rest(s) == s \ {First(s)}
            G == [s \in SUBSET T |-> IF s = {} THEN 0 ELSE f[First(s)] + Part(Rest(s))[Rest(s)]]
<1>2. ASSUME NEW U \in SUBSET T, U # T PROVE IsSum(Part(U), U, f)
  BY <1>1, <1>2
<1>3. ASSUME NEW s \in SUBSET T, s # {} PROVE G[Rest(s)] = Part(Rest(s))[Rest(s)]
  <2>. DEFINE r == Rest(s)
  <2>1. r \in SUBSET T /\ r # T
    BY <1>3, FirstIn
  <2>2. IsSum(Part(r), r, f)
    BY <2>1, <1>2
  <2>3. Part(r)[r] = (IF r = {} THEN 0 ELSE f[First(r)] + Part(r)[Rest(r)])
    BY <2>2 DEF IsSum
  <2>4. CASE r = {}
    BY <2>1, <2>3, <2>4
  <2>5. CASE r # {}
    <3>1. Rest(r) \in SUBSET r /\ Rest(r) \in SUBSET T /\ Rest(r) # T /\ Rest(r) \subseteq S
          /\ r \subseteq S
      BY <2>1, <2>5, FirstIn
    <3>2. IsSum(Part(Rest(r)), Rest(r), f)
      BY <3>1, <1>2
    <3>3. Part(Rest(r))[Rest(r)] = Part(r)[Rest(r)]
      <4>. HIDE DEF r, Part, Rest
      <4>. QED BY <2>2, <3>1, <3>2, SumsAgree
    <3>. QED BY <2>1, <2>3, <2>5, <3>3
  <2>. QED BY <2>4, <2>5
<1>4. IsSum(G, T, f)
  <2>1. \A s \in SUBSET T : (IF s = {} THEN 0 ELSE f[First(s)] + Part(Rest(s))[Rest(s)])
                            = (IF s = {} THEN 0 ELSE f[First(s)] + G[s \ {First(s)}])
    <3>1. \A s : s \ {First(s)} = Rest(s)
      OBVIOUS
    <3>2. \A s \in SUBSET T : s # {} => G[Rest(s)] = Part(Rest(s))[Rest(s)]
      BY <1>3
    <3>. HIDE DEF G, Part, Rest
    <3>. QED BY <3>1, <3>2
  <2>2. G = [s \in SUBSET T |-> IF s = {} THEN 0 ELSE f[First(s)] + Part(Rest(s))[Rest(s)]]
    OBVIOUS
  <2>. HIDE DEF G, Part, Rest
  <2>. QED BY <2>1, <2>2 DEF IsSum
<1>. QED BY <1>1, <1>4

LEMMA SumIsSum ==
  ASSUME NEW S, IsFiniteSet(S), NEW f
  PROVE  /\ IsSum(CHOOSE g : IsSum(g, S, f), S, f)
         /\ \A T \in SUBSET S : SumUp(T, f) = (CHOOSE g : IsSum(g, S, f))[T]
<1>1. IsSum(CHOOSE g : IsSum(g, S, f), S, f)
  BY SumExists
<1>2. ASSUME NEW T \in SUBSET S
      PROVE  SumUp(T, f) = (CHOOSE g : IsSum(g, S, f))[T]
  <2>1. IsFiniteSet(T)
    BY FS_Subset
  <2>2. IsSum(CHOOSE g : IsSum(g, T, f), T, f)
    BY <2>1, SumExists
  <2>3. (CHOOSE g : IsSum(g, S, f))[T] = (CHOOSE g : IsSum(g, T, f))[T]
    <3>. DEFINE g == CHOOSE G : IsSum(G, S, f)
                h == CHOOSE G : IsSum(G, T, f)
    <3>1. IsSum(g, S, f) /\ IsSum(h, T, f) /\ T \in SUBSET (S \cap T) /\ S \in SUBSET S
      BY <1>1, <2>2
    <3>. HIDE DEF g, h
    <3>2. g[T] = h[T]
      BY <3>1, SumsAgree
    <3>. QED BY <3>2 DEF g, h
  <2>. QED BY <2>3 DEF SumUp
<1>. QED BY <1>1, <1>2

LEMMA SumOfNone == ASSUME NEW f PROVE SumUp({}, f) = 0
<1>1. IsSum(CHOOSE g : IsSum(g, {}, f), {}, f)
  BY SumExists, FS_EmptySet
<1>. QED BY <1>1 DEF SumUp, IsSum

LEMMA SumSplits ==
  ASSUME NEW S, IsFiniteSet(S), NEW f, NEW T \in SUBSET S, T # {}
  PROVE  SumUp(T, f) = f[First(T)] + SumUp(T \ {First(T)}, f)
<1>. DEFINE G == CHOOSE g : IsSum(g, S, f)
<1>1. G[T] = f[First(T)] + G[T \ {First(T)}]
  <2>1. IsSum(G, S, f)
    BY SumIsSum
  <2>. HIDE DEF G
  <2>. QED BY <2>1 DEF IsSum
<1>2. T \ {First(T)} \in SUBSET S
  OBVIOUS
<1>. HIDE DEF G
<1>3. SumUp(T, f) = G[T] /\ SumUp(T \ {First(T)}, f) = G[T \ {First(T)}]
  BY <1>2, SumIsSum DEF G
<1>. QED BY <1>1, <1>3

LEMMA SumIsInt ==
  ASSUME NEW S, IsFiniteSet(S), NEW f, \A x \in S : f[x] \in Int
  PROVE  \A T \in SUBSET S : SumUp(T, f) \in Int
<1>. DEFINE Bad == {T \in SUBSET S : SumUp(T, f) \notin Int}
<1>. SUFFICES ASSUME Bad # {} PROVE FALSE
  OBVIOUS
<1>1. PICK T \in Bad : \A U \in Bad : U \subseteq T => U = T
  <2>1. Bad \in SUBSET (SUBSET S)
    OBVIOUS
  <2>. HIDE DEF Bad
  <2>. QED BY <2>1, Smallest
<1>2. T # {}
  BY SumOfNone
<1>3. T \ {First(T)} \notin Bad /\ First(T) \in S
  BY <1>1, <1>2, FirstIn
<1>. QED BY <1>2, <1>3, SumSplits

\* Functions that agree on a set have the same sum over it.
LEMMA SumSame ==
  ASSUME NEW S, IsFiniteSet(S), NEW f, NEW g, \A x \in S : f[x] = g[x]
  PROVE  SumUp(S, f) = SumUp(S, g)
<1>. DEFINE Bad == {T \in SUBSET S : SumUp(T, f) # SumUp(T, g)}
<1>. SUFFICES ASSUME Bad # {} PROVE FALSE
  OBVIOUS
<1>1. PICK T \in Bad : \A U \in Bad : U \subseteq T => U = T
  <2>1. Bad \in SUBSET (SUBSET S)
    OBVIOUS
  <2>. HIDE DEF Bad
  <2>. QED BY <2>1, Smallest
<1>2. T # {}
  BY SumOfNone
<1>3. T \ {First(T)} \notin Bad /\ First(T) \in S
  BY <1>1, <1>2, FirstIn
<1>. QED BY <1>2, <1>3, SumSplits

\* Any element can be taken out first.
LEMMA SumTakes ==
  ASSUME NEW S, IsFiniteSet(S), NEW f, \A x \in S : f[x] \in Int, NEW x \in S
  PROVE  SumUp(S, f) = f[x] + SumUp(S \ {x}, f)
<1>. DEFINE Bad == {T \in SUBSET S : \E y \in T : SumUp(T, f) # f[y] + SumUp(T \ {y}, f)}
<1>. SUFFICES ASSUME Bad # {} PROVE FALSE
  OBVIOUS
<1>1. PICK T \in Bad : \A U \in Bad : U \subseteq T => U = T
  <2>1. Bad \in SUBSET (SUBSET S)
    OBVIOUS
  <2>. HIDE DEF Bad
  <2>. QED BY <2>1, Smallest
<1>2. PICK y \in T : SumUp(T, f) # f[y] + SumUp(T \ {y}, f)
  BY <1>1
<1>. DEFINE c == First(T)
<1>3. SumUp(T, f) = f[c] + SumUp(T \ {c}, f) /\ c \in T
  BY SumSplits, FirstIn
<1>4. c # y
  BY <1>2, <1>3
<1>. HIDE DEF c
<1>5. T \ {c} \notin Bad /\ T \ {y} \notin Bad
  BY <1>1, <1>2, <1>3
<1>6. /\ SumUp(T \ {c}, f) = f[y] + SumUp((T \ {c}) \ {y}, f)
      /\ SumUp(T \ {y}, f) = f[c] + SumUp((T \ {y}) \ {c}, f)
  BY <1>3, <1>4, <1>5
<1>7. (T \ {c}) \ {y} = (T \ {y}) \ {c}
  OBVIOUS
<1>8. f[c] \in Int /\ f[y] \in Int /\ SumUp((T \ {c}) \ {y}, f) \in Int
  BY <1>3, SumIsInt
<1>. QED BY <1>2, <1>3, <1>6, <1>7, <1>8

LEMMA SumAdds ==
  ASSUME NEW S, IsFiniteSet(S), NEW f, \A y \in S : f[y] \in Int, NEW x, x \notin S, f[x] \in Int
  PROVE  SumUp(S \cup {x}, f) = f[x] + SumUp(S, f)
<1>1. IsFiniteSet(S \cup {x}) /\ (S \cup {x}) \ {x} = S
  BY FS_AddElement
<1>2. \A y \in S \cup {x} : f[y] \in Int
  OBVIOUS
<1>3. SumUp(S \cup {x}, f) = f[x] + SumUp((S \cup {x}) \ {x}, f)
  BY <1>1, <1>2, SumTakes
<1>. QED BY <1>1, <1>3

\* One term changes, and the sum by as much.
LEMMA SumChanges ==
  ASSUME NEW S, IsFiniteSet(S), NEW f, NEW g, NEW x \in S,
         \A y \in S : f[y] \in Int /\ g[y] \in Int,
         \A y \in S \ {x} : g[y] = f[y]
  PROVE  SumUp(S, g) = SumUp(S, f) + g[x] - f[x]
<1>1. SumUp(S, f) = f[x] + SumUp(S \ {x}, f) /\ SumUp(S, g) = g[x] + SumUp(S \ {x}, g)
  BY SumTakes
<1>2. IsFiniteSet(S \ {x})
  BY FS_RemoveElement
<1>3. SumUp(S \ {x}, f) = SumUp(S \ {x}, g)
  BY <1>2, SumSame
<1>4. f[x] \in Int /\ g[x] \in Int /\ SumUp(S \ {x}, f) \in Int
  BY SumIsInt
<1>. QED BY <1>1, <1>3, <1>4

\* Two terms change.
LEMMA SumChangesTwice ==
  ASSUME NEW S, IsFiniteSet(S), NEW f, NEW g, NEW x \in S, NEW y \in S, x # y,
         \A z \in S : f[z] \in Int /\ g[z] \in Int,
         \A z \in S \ {x, y} : g[z] = f[z]
  PROVE  SumUp(S, g) = SumUp(S, f) + (g[x] - f[x]) + (g[y] - f[y])
<1>. DEFINE h == [z \in S |-> IF z = x THEN g[x] ELSE f[z]]
<1>1. \A z \in S : f[z] \in Int /\ h[z] \in Int /\ g[z] \in Int
  OBVIOUS
<1>2. (\A z \in S \ {x} : h[z] = f[z]) /\ (\A z \in S \ {y} : g[z] = h[z])
  OBVIOUS
<1>3. h[x] = g[x] /\ h[y] = f[y]
  OBVIOUS
<1>. HIDE DEF h
<1>4. SumUp(S, h) = SumUp(S, f) + h[x] - f[x]
  <2>1. \A z \in S : f[z] \in Int /\ h[z] \in Int
    BY <1>1
  <2>. QED BY <1>2, <2>1, SumChanges
<1>5. SumUp(S, g) = SumUp(S, h) + g[y] - h[y]
  <2>1. \A z \in S : h[z] \in Int /\ g[z] \in Int
    BY <1>1
  <2>. QED BY <1>2, <2>1, SumChanges
<1>6. /\ SumUp(S, f) \in Int /\ f[x] \in Int /\ f[y] \in Int /\ g[x] \in Int /\ g[y] \in Int
  BY SumIsInt
<1>. QED BY <1>3, <1>4, <1>5, <1>6

LEMMA SumOfZeros ==
  ASSUME NEW S, IsFiniteSet(S), NEW f, \A x \in S : f[x] = 0
  PROVE  SumUp(S, f) = 0
<1>. DEFINE Bad == {T \in SUBSET S : SumUp(T, f) # 0}
<1>. SUFFICES ASSUME Bad # {} PROVE FALSE
  OBVIOUS
<1>1. PICK T \in Bad : \A U \in Bad : U \subseteq T => U = T
  <2>1. Bad \in SUBSET (SUBSET S)
    OBVIOUS
  <2>. HIDE DEF Bad
  <2>. QED BY <2>1, Smallest
<1>2. T # {}
  BY SumOfNone
<1>3. T \ {First(T)} \notin Bad /\ First(T) \in S
  BY <1>1, <1>2, FirstIn
<1>. QED BY <1>2, <1>3, SumSplits

LEMMA SumIsNatural ==
  ASSUME NEW S, IsFiniteSet(S), NEW f, \A x \in S : f[x] \in Nat
  PROVE  \A T \in SUBSET S : SumUp(T, f) \in Nat
<1>. DEFINE Bad == {T \in SUBSET S : SumUp(T, f) \notin Nat}
<1>. SUFFICES ASSUME Bad # {} PROVE FALSE
  OBVIOUS
<1>1. PICK T \in Bad : \A U \in Bad : U \subseteq T => U = T
  <2>1. Bad \in SUBSET (SUBSET S)
    OBVIOUS
  <2>. HIDE DEF Bad
  <2>. QED BY <2>1, Smallest
<1>2. T # {}
  BY SumOfNone
<1>3. T \ {First(T)} \notin Bad /\ First(T) \in S
  BY <1>1, <1>2, FirstIn
<1>. QED BY <1>2, <1>3, SumSplits

\* A term is no more than the sum of terms that are not negative.
LEMMA TermWithinSum ==
  ASSUME NEW S, IsFiniteSet(S), NEW f, \A y \in S : f[y] \in Nat, NEW x \in S
  PROVE  f[x] <= SumUp(S, f)
<1>1. SumUp(S, f) = f[x] + SumUp(S \ {x}, f)
  BY SumTakes
<1>2. SumUp(S \ {x}, f) \in Nat /\ f[x] \in Nat
  BY SumIsNatural
<1>. QED BY <1>1, <1>2

LEMMA SumOfSums ==
  ASSUME NEW S, IsFiniteSet(S), NEW f, NEW g, NEW h,
         \A x \in S : f[x] \in Int /\ g[x] \in Int /\ h[x] = f[x] + g[x]
  PROVE  SumUp(S, h) = SumUp(S, f) + SumUp(S, g)
<1>. DEFINE Bad == {T \in SUBSET S : SumUp(T, h) # SumUp(T, f) + SumUp(T, g)}
<1>. SUFFICES ASSUME Bad # {} PROVE FALSE
  OBVIOUS
<1>1. PICK T \in Bad : \A U \in Bad : U \subseteq T => U = T
  <2>1. Bad \in SUBSET (SUBSET S)
    OBVIOUS
  <2>. HIDE DEF Bad
  <2>. QED BY <2>1, Smallest
<1>2. T # {}
  <2>1. SumUp({}, f) = 0 /\ SumUp({}, g) = 0 /\ SumUp({}, h) = 0
    BY SumOfNone
  <2>2. SumUp(T, h) # SumUp(T, f) + SumUp(T, g)
    OBVIOUS
  <2>. HIDE DEF Bad
  <2>3. T = {} => SumUp(T, f) = 0 /\ SumUp(T, g) = 0 /\ SumUp(T, h) = 0
    BY <2>1
  <2>. QED BY <2>2, <2>3
<1>3. T \ {First(T)} \notin Bad /\ First(T) \in S
  BY <1>1, <1>2, FirstIn
<1>4. SumUp(T \ {First(T)}, f) \in Int /\ SumUp(T \ {First(T)}, g) \in Int
  <2>1. /\ \A x \in S : f[x] \in Int
        /\ \A x \in S : g[x] \in Int
        /\ T \ {First(T)} \in SUBSET S
    OBVIOUS
  <2>. QED BY <2>1, SumIsInt
<1>5. /\ SumUp(T, f) = f[First(T)] + SumUp(T \ {First(T)}, f)
      /\ SumUp(T, g) = g[First(T)] + SumUp(T \ {First(T)}, g)
      /\ SumUp(T, h) = h[First(T)] + SumUp(T \ {First(T)}, h)
  BY <1>2, SumSplits
<1>. QED BY <1>3, <1>4, <1>5

\* Terms that are zero can be left out.
LEMMA SumWithin ==
  ASSUME NEW S, IsFiniteSet(S), NEW f, \A x \in S : f[x] \in Int,
         NEW Z \in SUBSET S, \A x \in S \ Z : f[x] = 0
  PROVE  SumUp(S, f) = SumUp(Z, f)
<1>. DEFINE Bad == {T \in SUBSET S : SumUp(T, f) # SumUp(T \cap Z, f)}
<1>. SUFFICES ASSUME Bad # {} PROVE FALSE
  <2>1. S \cap Z = Z /\ S \in SUBSET S
    OBVIOUS
  <2>. QED BY <2>1
<1>1. PICK T \in Bad : \A U \in Bad : U \subseteq T => U = T
  <2>1. Bad \in SUBSET (SUBSET S)
    OBVIOUS
  <2>. HIDE DEF Bad
  <2>. QED BY <2>1, Smallest
<1>2. T # {}
  OBVIOUS
<1>. DEFINE x == First(T)
<1>3. x \in T
  BY <1>2, FirstIn
<1>. HIDE DEF x
<1>4. SumUp(T \ {x}, f) = SumUp((T \ {x}) \cap Z, f)
  BY <1>1, <1>3
<1>5. IsFiniteSet(T) /\ IsFiniteSet(T \cap Z) /\ \A y \in T : f[y] \in Int
  BY FS_Subset
<1>6. SumUp(T, f) = f[x] + SumUp(T \ {x}, f)
  BY <1>3, <1>5, SumTakes
<1>7. CASE x \in Z
  <2>1. (T \cap Z) \ {x} = (T \ {x}) \cap Z /\ x \in T \cap Z
    BY <1>3, <1>7
  <2>2. SumUp(T \cap Z, f) = f[x] + SumUp((T \cap Z) \ {x}, f)
    BY <1>5, <2>1, SumTakes
  <2>. QED BY <1>4, <1>6, <2>1, <2>2
<1>8. CASE x \notin Z
  <2>1. T \cap Z = (T \ {x}) \cap Z /\ f[x] = 0
    BY <1>3, <1>8
  <2>2. SumUp(T \ {x}, f) \in Int
    <3>1. T \ {x} \in SUBSET S
      OBVIOUS
    <3>. QED BY <3>1, SumIsInt
  <2>3. SumUp(T, f) = SumUp(T \ {x}, f)
    BY <1>6, <2>1, <2>2
  <2>4. SumUp(T \cap Z, f) = SumUp((T \ {x}) \cap Z, f)
    BY <2>1
  <2>. QED BY <1>1, <1>4, <2>3, <2>4
<1>. QED BY <1>7, <1>8

LEMMA SumOfOne == ASSUME NEW x, NEW f, f[x] \in Int PROVE SumUp({x}, f) = f[x]
<1>1. SumUp({x}, f) = f[x] + SumUp({x} \ {x}, f)
  BY SumTakes, FS_Singleton
<1>2. {x} \ {x} = {}
  OBVIOUS
<1>. QED BY <1>1, <1>2, SumOfNone

LEMMA SumNegates ==
  ASSUME NEW S, IsFiniteSet(S), NEW f, NEW g, \A x \in S : f[x] \in Int /\ g[x] = -f[x]
  PROVE  SumUp(S, g) = -SumUp(S, f)
<1>. DEFINE z == [x \in S |-> 0]
<1>1. SumUp(S, z) = 0
  BY SumOfZeros
<1>2. \A x \in S : f[x] \in Int /\ g[x] \in Int /\ z[x] = f[x] + g[x]
  OBVIOUS
<1>3. SumUp(S, f) \in Int /\ SumUp(S, g) \in Int
  BY <1>2, SumIsInt
<1>. HIDE DEF z
<1>4. SumUp(S, z) = SumUp(S, f) + SumUp(S, g)
  BY <1>2, SumOfSums
<1>. QED BY <1>1, <1>3, <1>4

LEMMA FoldAllIsSum == ASSUME NEW f PROVE FoldFunction(+, 0, f) = SumUp(DOMAIN f, f)
BY FoldIsSum DEF FoldFunction

LEMMA SumOfUnion ==
  ASSUME NEW S, IsFiniteSet(S), NEW T, IsFiniteSet(T), S \cap T = {},
         NEW f, \A x \in S \cup T : f[x] \in Int
  PROVE  SumUp(S \cup T, f) = SumUp(S, f) + SumUp(T, f)
<1>. DEFINE all == S \cup T
            g == [x \in all |-> IF x \in S THEN f[x] ELSE 0]
            h == [x \in all |-> IF x \in T THEN f[x] ELSE 0]
<1>1. IsFiniteSet(all) /\ S \in SUBSET all /\ T \in SUBSET all
  BY FS_Union
<1>2. /\ \A x \in all : f[x] \in Int /\ g[x] \in Int /\ h[x] \in Int /\ f[x] = g[x] + h[x]
      /\ \A x \in S : g[x] = f[x]
      /\ \A x \in T : h[x] = f[x]
      /\ \A x \in all \ S : g[x] = 0
      /\ \A x \in all \ T : h[x] = 0
  OBVIOUS
<1>. HIDE DEF all, g, h
<1>3. SumUp(all, f) = SumUp(all, g) + SumUp(all, h)
  BY <1>1, <1>2, SumOfSums
<1>4. SumUp(all, g) = SumUp(S, g) /\ SumUp(all, h) = SumUp(T, h)
  BY <1>1, <1>2, SumWithin
<1>5. SumUp(S, g) = SumUp(S, f) /\ SumUp(T, h) = SumUp(T, f)
  BY <1>2, SumSame
<1>. QED BY <1>3, <1>4, <1>5 DEF all

\* A sum over the parts of a set.
LEMMA SumOfParts ==
  ASSUME NEW S, IsFiniteSet(S), NEW f, \A x \in S : f[x] \in Int,
         NEW P, IsFiniteSet(P), NEW Q, \A p \in P : Q[p] \in SUBSET S,
         \A p, q \in P : p # q => Q[p] \cap Q[q] = {},
         NEW F, \A p \in P : F[p] = SumUp(Q[p], f)
  PROVE  SumUp(P, F) = SumUp(UNION {Q[p] : p \in P}, f)
<1>. DEFINE All(R) == UNION {Q[p] : p \in R}
            Bad == {R \in SUBSET P : SumUp(R, F) # SumUp(All(R), f)}
<1>. SUFFICES ASSUME Bad # {} PROVE FALSE
  OBVIOUS
<1>1. PICK R \in Bad : \A U \in Bad : U \subseteq R => U = R
  <2>1. Bad \in SUBSET (SUBSET P)
    OBVIOUS
  <2>. HIDE DEF Bad
  <2>. QED BY <2>1, Smallest
<1>2. R \in SUBSET P /\ SumUp(R, F) # SumUp(All(R), f)
  OBVIOUS
<1>3. R # {}
  <2>1. All({}) = {}
    OBVIOUS
  <2>. HIDE DEF All
  <2>. QED BY <1>2, <2>1, SumOfNone
<1>4. PICK p \in R : p = First(R)
  BY <1>3, FirstIn
<1>5. SumUp(R \ {p}, F) = SumUp(All(R \ {p}), f)
  BY <1>1, <1>4
<1>6. F[p] = SumUp(Q[p], f)
  BY <1>2
<1>7. All(R) = Q[p] \cup All(R \ {p}) /\ Q[p] \cap All(R \ {p}) = {}
  BY <1>2
<1>8. All(R \ {p}) \in SUBSET S /\ Q[p] \in SUBSET S
  BY <1>2
<1>9. IsFiniteSet(All(R \ {p})) /\ IsFiniteSet(Q[p])
  BY <1>8, FS_Subset
<1>10. \A q \in P : F[q] \in Int
  <2>1. ASSUME NEW q \in P PROVE SumUp(Q[q], f) \in Int
    BY SumIsInt
  <2>. QED BY <2>1
<1>. HIDE DEF All, Bad
<1>11. SumUp(R, F) = F[p] + SumUp(R \ {p}, F)
  <2>1. IsFiniteSet(R) /\ \A q \in R : F[q] \in Int
    BY <1>2, <1>10, FS_Subset
  <2>. QED BY <2>1, SumTakes
<1>12. SumUp(All(R), f) = SumUp(Q[p], f) + SumUp(All(R \ {p}), f)
  <2>. DEFINE q == Q[p]
              u == All(R \ {p})
  <2>1. \A x \in q \cup u : f[x] \in Int
    BY <1>8
  <2>2. IsFiniteSet(q) /\ IsFiniteSet(u) /\ q \cap u = {}
    BY <1>7, <1>9
  <2>. HIDE DEF q, u
  <2>3. SumUp(q \cup u, f) = SumUp(q, f) + SumUp(u, f)
    BY <2>1, <2>2, SumOfUnion
  <2>. QED BY <1>7, <2>3 DEF q, u
<1>. QED BY <1>2, <1>5, <1>6, <1>11, <1>12

\* The order of two sums does not matter: a table, by rows and by columns, and the
\* sums of both.
IsTable(S, T, F, G, row, column) ==
  /\ IsFiniteSet(S) /\ IsFiniteSet(T)
  /\ \A x \in S, y \in T : F[x][y] \in Int /\ G[y][x] = F[x][y]
  /\ \A x \in S : row[x] = SumUp(T, F[x])
  /\ \A y \in T : column[y] = SumUp(S, G[y])

LEMMA SumsExchange ==
  ASSUME NEW S, NEW T, NEW F, NEW G, NEW row, NEW column, IsTable(S, T, F, G, row, column)
  PROVE  SumUp(S, row) = SumUp(T, column)
<1>. USE DEF IsTable
<1>. DEFINE Part(R) == [y \in T |-> SumUp(R, G[y])]
            Bad == {R \in SUBSET S : SumUp(R, row) # SumUp(T, Part(R))}
<1>1. ASSUME Bad # {} PROVE FALSE
  <2>1. PICK R \in Bad : \A U \in Bad : U \subseteq R => U = R
    <3>1. Bad \in SUBSET (SUBSET S)
      OBVIOUS
    <3>. HIDE DEF Bad
    <3>. QED BY <1>1, <3>1, Smallest
  <2>2. R \in SUBSET S /\ SumUp(R, row) # SumUp(T, Part(R))
    OBVIOUS
  <2>3. R # {}
    <3>1. \A y \in T : Part({})[y] = 0
      BY SumOfNone
    <3>. HIDE DEF Part
    <3>2. SumUp(T, Part({})) = 0
      BY <3>1, SumOfZeros
    <3>. QED BY <2>2, <3>2, SumOfNone
  <2>4. PICK x \in R : x = First(R)
    BY <2>3, FirstIn
  <2>5. SumUp(R \ {x}, row) = SumUp(T, Part(R \ {x}))
    <3>1. R \ {x} \in SUBSET S /\ R \ {x} \notin Bad
      BY <2>1, <2>4
    <3>. HIDE DEF Part
    <3>. QED BY <3>1
  <2>6. IsFiniteSet(R) /\ IsFiniteSet(R \ {x}) /\ x \in S
    BY <2>2, FS_Subset
  <2>7. \A z \in S : row[z] \in Int
    <3>1. ASSUME NEW z \in S PROVE SumUp(T, F[z]) \in Int
      <4>. DEFINE f == F[z]
      <4>1. \A y \in T : f[y] \in Int
        OBVIOUS
      <4>. HIDE DEF f
      <4>2. SumUp(T, f) \in Int
        BY <4>1, SumIsInt
      <4>. QED BY <4>2 DEF f
    <3>. QED BY <3>1
  <2>8. SumUp(R, row) = row[x] + SumUp(R \ {x}, row)
    <3>1. \A z \in R : row[z] \in Int
      BY <2>2, <2>7
    <3>. HIDE DEF Bad
    <3>. QED BY <2>6, <3>1, SumTakes
  <2>9. ASSUME NEW y \in T
        PROVE  /\ Part(R)[y] \in Int /\ Part(R \ {x})[y] \in Int
               /\ Part(R)[y] = F[x][y] + Part(R \ {x})[y]
    <3>. DEFINE g == G[y]
    <3>1. \A z \in R : g[z] \in Int
      BY <2>2
    <3>2. g[x] = F[x][y]
      BY <2>6
    <3>. HIDE DEF g, Bad
    <3>3. SumUp(R, g) = g[x] + SumUp(R \ {x}, g)
      BY <2>6, <3>1, SumTakes
    <3>4. R \in SUBSET R /\ R \ {x} \in SUBSET R
      OBVIOUS
    <3>5. SumUp(R, g) \in Int /\ SumUp(R \ {x}, g) \in Int
      BY <2>6, <3>1, <3>4, SumIsInt
    <3>. QED BY <3>2, <3>3, <3>5 DEF g
  <2>10. SumUp(T, Part(R)) = SumUp(T, F[x]) + SumUp(T, Part(R \ {x}))
    <3>. DEFINE f == F[x]
                g == Part(R \ {x})
                h == Part(R)
    <3>1. \A y \in T : f[y] \in Int /\ g[y] \in Int /\ h[y] = f[y] + g[y]
      <4>1. \A y \in T : F[x][y] \in Int
        BY <2>6
      <4>. HIDE DEF Part
      <4>. QED BY <2>9, <4>1
    <3>. HIDE DEF f, g, h
    <3>2. SumUp(T, h) = SumUp(T, f) + SumUp(T, g)
      BY <3>1, SumOfSums
    <3>. QED BY <3>2 DEF f, g, h
  <2>. HIDE DEF Part, Bad
  <2>. QED BY <2>2, <2>5, <2>6, <2>8, <2>10
<1>2. SumUp(S, row) = SumUp(T, Part(S))
  BY <1>1
<1>3. SumUp(T, Part(S)) = SumUp(T, column)
  <2>1. \A y \in T : Part(S)[y] = column[y]
    OBVIOUS
  <2>. HIDE DEF Part
  <2>. QED BY <2>1, SumSame
<1>. QED BY <1>2, <1>3

\* The least of some numbers, and the greatest.
LEMMA LeastOf ==
  ASSUME NEW S \in SUBSET Nat, S # {}
  PROVE  \E m \in S : \A k \in S : m <= k
<1>1. PICK m \in S : \A k \in S : ~ (<<k, m>> \in OpToRel(<, Nat))
  BY NatLessThanWellFounded, WFMin
<1>2. ASSUME NEW k \in S, k < m PROVE <<k, m>> \in OpToRel(<, Nat)
  <2>1. <<k, m>> \in Nat \X Nat /\ <<k, m>>[1] = k /\ <<k, m>>[2] = m
    OBVIOUS
  <2>2. OpToRel(<, Nat) = {ss \in Nat \X Nat : ss[1] < ss[2]}
    BY DEF OpToRel
  <2>. QED BY <1>2, <2>1, <2>2
<1>3. ASSUME NEW k \in S PROVE m <= k
  <2>1. m \in Nat /\ k \in Nat
    OBVIOUS
  <2>2. ~ (k < m)
    BY <1>1, <1>2
  <2>. QED BY <2>1, <2>2
<1>. QED BY <1>3

LEMMA GreatestOf ==
  ASSUME NEW S, IsFiniteSet(S), S # {}, NEW f, \A x \in S : f[x] \in Nat
  PROVE  \E x \in S : \A y \in S : f[y] <= f[x]
<1>. DEFINE top == SumUp(S, f)
            below == {top - f[x] : x \in S}
<1>1. top \in Nat
  BY SumIsNatural
<1>2. \A x \in S : f[x] <= top
  BY TermWithinSum
<1>. HIDE DEF top
<1>3. below \in SUBSET Nat /\ below # {}
  BY <1>1, <1>2
<1>4. PICK m \in below : \A k \in below : m <= k
  <2>. HIDE DEF below
  <2>. QED BY <1>3, LeastOf
<1>5. PICK x \in S : m = top - f[x]
  BY <1>4
<1>6. ASSUME NEW y \in S PROVE f[y] <= f[x]
  <2>1. top - f[x] <= top - f[y]
    BY <1>4, <1>5
  <2>. QED BY <1>1, <2>1
<1>. QED BY <1>5, <1>6

\* A sum with one term that is not zero, and one whose terms are those of another.
LEMMA SumAtOne ==
  ASSUME NEW S, IsFiniteSet(S), NEW x \in S, NEW f, f[x] \in Int, \A y \in S \ {x} : f[y] = 0
  PROVE  SumUp(S, f) = f[x]
<1>1. SumUp(S, f) = SumUp({x}, f)
  <2>1. {x} \in SUBSET S /\ \A y \in S : f[y] \in Int
    OBVIOUS
  <2>. QED BY <2>1, SumWithin
<1>. QED BY <1>1, SumOfOne

Renames(S, f, h, T, g) ==
  /\ IsFiniteSet(S) /\ IsFiniteSet(T)
  /\ \A x \in S : h[x] \in T /\ f[x] \in Int /\ f[x] = g[h[x]]
  /\ \A x, y \in S : h[x] = h[y] => x = y
  /\ \A y \in T : \E x \in S : h[x] = y

LEMMA SumRenamed ==
  ASSUME NEW S, NEW T, NEW f, NEW g, NEW h, Renames(S, f, h, T, g)
  PROVE  SumUp(S, f) = SumUp(T, g)
<1>. USE DEF Renames
<1>. DEFINE F == [x \in S |-> [y \in T |-> IF h[x] = y THEN f[x] ELSE 0]]
            G == [y \in T |-> [x \in S |-> IF h[x] = y THEN f[x] ELSE 0]]
<1>1. \A x \in S, y \in T : F[x][y] \in Int /\ G[y][x] = F[x][y]
  OBVIOUS
<1>2. ASSUME NEW x \in S PROVE f[x] = SumUp(T, F[x])
  <2>1. PICK y, r : y = h[x] /\ r = F[x] /\ y \in T
    OBVIOUS
  <2>2. y \in T /\ r[y] = f[x] /\ r[y] \in Int /\ \A z \in T \ {y} : r[z] = 0
    BY <2>1
  <2>3. SumUp(T, r) = r[y]
    BY <2>2, SumAtOne
  <2>. QED BY <2>1, <2>2, <2>3
<1>3. ASSUME NEW y \in T PROVE g[y] = SumUp(S, G[y])
  <2>1. PICK x, r : h[x] = y /\ r = G[y] /\ x \in S
    OBVIOUS
  <2>2. x \in S /\ r[x] = g[y] /\ r[x] \in Int /\ \A z \in S \ {x} : r[z] = 0
    BY <2>1
  <2>3. SumUp(S, r) = r[x]
    BY <2>2, SumAtOne
  <2>. QED BY <2>1, <2>2, <2>3
<1>. HIDE DEF F, G
<1>4. IsTable(S, T, F, G, f, g)
  BY <1>1, <1>2, <1>3 DEF IsTable
<1>. QED BY <1>4, SumsExchange

\* A factor common to all terms, and terms that lie between zero and a bound.
LEMMA SumScales ==
  ASSUME NEW S, IsFiniteSet(S), NEW c \in Int, NEW f, NEW g,
         \A x \in S : f[x] \in Int /\ g[x] = c * f[x]
  PROVE  SumUp(S, g) = c * SumUp(S, f)
<1>. DEFINE Bad == {T \in SUBSET S : SumUp(T, g) # c * SumUp(T, f)}
<1>. SUFFICES ASSUME Bad # {} PROVE FALSE
  OBVIOUS
<1>1. PICK T \in Bad : \A U \in Bad : U \subseteq T => U = T
  <2>1. Bad \in SUBSET (SUBSET S)
    OBVIOUS
  <2>. HIDE DEF Bad
  <2>. QED BY <2>1, Smallest
<1>2. T # {}
  <2>1. c * 0 = 0
    OBVIOUS
  <2>. QED BY <2>1, SumOfNone
<1>3. PICK x : x = First(T) /\ x \in T /\ T \ {x} \notin Bad
  BY <1>1, <1>2, FirstIn
<1>4. /\ SumUp(T, g) = g[x] + SumUp(T \ {x}, g)
      /\ SumUp(T, f) = f[x] + SumUp(T \ {x}, f)
  BY <1>2, <1>3, SumSplits
<1>5. SumUp(T \ {x}, f) \in Int /\ f[x] \in Int
  BY <1>3, SumIsInt
<1>6. SumUp(T \ {x}, g) = c * SumUp(T \ {x}, f) /\ g[x] = c * f[x]
  BY <1>3
<1>7. \A m, n \in Int : c * m + c * n = c * (m + n)
  OBVIOUS
<1>. QED BY <1>3, <1>4, <1>5, <1>6, <1>7

LEMMA SumOfOnes ==
  ASSUME NEW S, IsFiniteSet(S), NEW f, \A x \in S : f[x] = 1
  PROVE  SumUp(S, f) = Cardinality(S)
<1>. DEFINE Bad == {T \in SUBSET S : SumUp(T, f) # Cardinality(T)}
<1>. SUFFICES ASSUME Bad # {} PROVE FALSE
  OBVIOUS
<1>1. PICK T \in Bad : \A U \in Bad : U \subseteq T => U = T
  <2>1. Bad \in SUBSET (SUBSET S)
    OBVIOUS
  <2>. HIDE DEF Bad
  <2>. QED BY <2>1, Smallest
<1>2. T # {}
  BY SumOfNone, FS_EmptySet
<1>3. PICK x : x = First(T) /\ x \in T /\ T \ {x} \notin Bad
  BY <1>1, <1>2, FirstIn
<1>4. SumUp(T, f) = 1 + SumUp(T \ {x}, f)
  BY <1>2, <1>3, SumSplits
<1>5. Cardinality(T \ {x}) = Cardinality(T) - 1 /\ Cardinality(T) \in Nat
  BY <1>3, FS_Subset, FS_RemoveElement, FS_CardinalityType
<1>. QED BY <1>3, <1>4, <1>5

LEMMA SumBounded ==
  ASSUME NEW S, IsFiniteSet(S), NEW b \in Nat, NEW f, \A x \in S : f[x] \in 0..b
  PROVE  SumUp(S, f) \in 0..(b * Cardinality(S))
<1>. DEFINE all == [x \in S |-> b]
            one == [x \in S |-> 1]
            left == [x \in S |-> b - f[x]]
<1>1. SumUp(S, f) \in Nat /\ SumUp(S, left) \in Nat
  BY SumIsNatural
<1>2. SumUp(S, all) = SumUp(S, f) + SumUp(S, left)
  <2>1. \A x \in S : f[x] \in Int /\ left[x] \in Int /\ all[x] = f[x] + left[x]
    OBVIOUS
  <2>. HIDE DEF all, left
  <2>. QED BY <2>1, SumOfSums
<1>3. SumUp(S, all) = b * SumUp(S, one)
  <2>1. \A x \in S : one[x] \in Int /\ all[x] = b * one[x]
    OBVIOUS
  <2>. HIDE DEF all, one
  <2>. QED BY <2>1, SumScales
<1>4. SumUp(S, one) = Cardinality(S)
  BY SumOfOnes
<1>5. b * Cardinality(S) \in Nat
  BY FS_CardinalityType
<1>. HIDE DEF all, one, left
<1>. QED BY <1>1, <1>2, <1>3, <1>4, <1>5
=============================================================================
