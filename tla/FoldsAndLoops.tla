---------------------------- MODULE FoldsAndLoops ----------------------------
(***************************************************************************)
(* Recursion that the code has as loops.                                   *)
(* Folding a function over a finite set with an operation whose order does *)
(* not matter: the sums and the products that put the shares of a key      *)
(* together again (src/electionguard/decryption/trustee.c and crypto.c).   *)
(* The facts hold for every operation that is Lawful; instances are made   *)
(* for + and *.                                                            *)
(* The recursive function that stands for a loop: its value at 0 is what   *)
(* the loop starts with and at j what is there after j rounds.             *)
(***************************************************************************)
EXTENDS Folds, FiniteSetTheorems, NaturalsInduction, WellFoundedInduction, TLAPS

CONSTANTS
  Op(_, _),  \* the operation, or a round: what was there before it, and its number
  Base,      \* the operation's neutral element
  D          \* what it is applied to

\* f[x] for every x in S, put together with Op.
Fold(f, S) ==
  MapThenFoldSet(Op, Base, LAMBDA x : f[x], LAMBDA s : CHOOSE x \in s : TRUE, S)

Lawful ==
  /\ Base \in D
  /\ \A a, b \in D : Op(a, b) \in D /\ Op(a, b) = Op(b, a)
  /\ \A a \in D : Op(a, Base) = a
  /\ \A a, b, c \in D : Op(a, Op(b, c)) = Op(Op(a, b), c)

------------------------------------------------------------------------------
(* Induction over the subsets of a finite set.                             *)

\* Among subsets of a finite set there is one that contains no other.
LEMMA SmallestSet ==
  ASSUME NEW S, IsFiniteSet(S), NEW Bad \in SUBSET (SUBSET S), Bad # {}
  PROVE  \E T \in Bad : \A U \in SUBSET T : U # T => U \notin Bad
<1>1. IsWellFoundedOn(StrictSubsetOrdering(S), FiniteSubsetsOf(S))
  BY FS_StrictSubsetOrderingWellFounded
<1>2. FiniteSubsetsOf(S) = SUBSET S
  BY FS_FiniteSubsetsOfFinite
<1> DEFINE R == StrictSubsetOrdering(S)
<1> HIDE DEF R
<1>3. \E T \in Bad : \A U \in Bad : ~(<<U, T>> \in R)
  <2>1. IsWellFoundedOn(R, SUBSET S)
    BY <1>1, <1>2 DEF R
  <2>2. Bad \subseteq SUBSET S /\ Bad # {}
    OBVIOUS
  <2> QED
    BY <2>1, <2>2, WFMin
<1>4. PICK T \in Bad : \A U \in Bad : ~(<<U, T>> \in StrictSubsetOrdering(S))
  BY <1>3 DEF R
<1>5. \A U \in SUBSET T : U # T => U \notin Bad
  BY <1>4 DEF StrictSubsetOrdering
<1> QED
  BY <1>5

\* A set of sets that has every set whose smaller subsets it has, has them all.
LEMMA SetInduction ==
  ASSUME NEW S, IsFiniteSet(S), NEW Good,
         \A T \in SUBSET S : (\A U \in SUBSET T : U # T => U \in Good) => T \in Good
  PROVE  S \in Good
<1> DEFINE Bad == {T \in SUBSET S : T \notin Good}
<1> SUFFICES ASSUME S \notin Good PROVE FALSE
  OBVIOUS
<1>1. Bad # {} /\ Bad \in SUBSET (SUBSET S)
  OBVIOUS
<1> HIDE DEF Bad
<1>2. PICK T \in Bad : \A U \in SUBSET T : U # T => U \notin Bad
  BY <1>1, SmallestSet
<1> QED
  BY <1>2 DEF Bad

------------------------------------------------------------------------------
(* The recursive function that a fold is made of.                          *)

Chosen(T) == CHOOSE x \in T : TRUE

LEMMA ChosenIn == \A T : T # {} => Chosen(T) \in T
BY DEF Chosen

\* g is the fold of f over every subset of S.
FoldsOver(g, f, S) ==
  g = [T \in SUBSET S |->
         IF T = {} THEN Base ELSE Op(f[Chosen(T)], g[T \ {Chosen(T)}])]

LEMMA FoldIsChosen ==
  ASSUME NEW f, NEW S
  PROVE  Fold(f, S) = (CHOOSE g : FoldsOver(g, f, S))[S]
BY DEF Fold, MapThenFoldSet, FoldsOver, Chosen

LEMMA FoldsOverStep ==
  ASSUME NEW f, NEW S, NEW g, FoldsOver(g, f, S), NEW T \in SUBSET S
  PROVE  /\ T = {} => g[T] = Base
         /\ T # {} => g[T] = Op(f[Chosen(T)], g[T \ {Chosen(T)}])
BY DEF FoldsOver

LEMMA FoldsAgree ==
  ASSUME NEW f, NEW S, IsFiniteSet(S), NEW T \in SUBSET S,
         NEW g, FoldsOver(g, f, S), NEW h, FoldsOver(h, f, T)
  PROVE  g[T] = h[T]
<1> DEFINE Good == {U \in SUBSET T : g[U] = h[U]}
<1>1. IsFiniteSet(T)
  BY FS_Subset
<1>2. ASSUME NEW U \in SUBSET T, \A V \in SUBSET U : V # U => V \in Good
      PROVE  U \in Good
  <2>1. U \in SUBSET S
    OBVIOUS
  <2>2. CASE U = {}
    BY <2>1, <2>2, FoldsOverStep
  <2>3. CASE U # {}
    <3>1. U \ {Chosen(U)} \in SUBSET U /\ U \ {Chosen(U)} # U
      BY <2>3, ChosenIn
    <3>2. g[U \ {Chosen(U)}] = h[U \ {Chosen(U)}]
      BY <1>2, <3>1
    <3>3. g[U] = Op(f[Chosen(U)], g[U \ {Chosen(U)}])
      BY <2>1, <2>3, FoldsOverStep
    <3>4. h[U] = Op(f[Chosen(U)], h[U \ {Chosen(U)}])
      BY <2>3, FoldsOverStep
    <3> QED
      BY <3>2, <3>3, <3>4
  <2> QED
    BY <2>2, <2>3
<1> HIDE DEF Good
<1>3. T \in Good
  BY <1>1, <1>2, SetInduction
<1> QED
  BY <1>3 DEF Good

LEMMA FoldsExist ==
  ASSUME NEW f, NEW S, IsFiniteSet(S)
  PROVE  \E g : FoldsOver(g, f, S)
<1> DEFINE Good == {T \in SUBSET S : \E g : FoldsOver(g, f, T)}
<1>1. ASSUME NEW T \in SUBSET S, \A U \in SUBSET T : U # T => U \in Good
      PROVE  T \in Good
  <2> DEFINE Less(U) == U \ {Chosen(U)}
             part(U) == CHOOSE g : FoldsOver(g, f, U)
             whole == [U \in SUBSET T |->
                         IF U = {} THEN Base ELSE Op(f[Chosen(U)], part(Less(U))[Less(U)])]
  <2>1. ASSUME NEW U \in SUBSET T, U # {}
        PROVE  Less(U) \in SUBSET T /\ FoldsOver(part(Less(U)), f, Less(U))
    <3>1. Less(U) \in SUBSET T /\ Less(U) # T
      BY <2>1, ChosenIn
    <3>2. \E g : FoldsOver(g, f, Less(U))
      BY <1>1, <3>1
    <3> QED
      BY <3>1, <3>2
  <2>2. ASSUME NEW U \in SUBSET T, U # {}
        PROVE  whole[Less(U)] = part(Less(U))[Less(U)]
    <3> DEFINE V == Less(U)
    <3>1. V \in SUBSET T /\ FoldsOver(part(V), f, V) /\ IsFiniteSet(V)
      BY <2>1, <2>2, FS_Subset
    <3> HIDE DEF V, part, Less
    <3>2. CASE V = {}
      <4>1. part(V)[V] = Base
        BY <3>1, <3>2, FoldsOverStep
      <4>2. whole[V] = Base
        BY <3>1, <3>2
      <4> QED
        BY <4>1, <4>2 DEF V
    <3>3. CASE V # {}
      <4>1. part(V)[V] = Op(f[Chosen(V)], part(V)[Less(V)])
        BY <3>1, <3>3, FoldsOverStep DEF Less
      <4>2. whole[V] = Op(f[Chosen(V)], part(Less(V))[Less(V)])
        BY <3>1, <3>3
      <4>3. Less(V) \in SUBSET V /\ FoldsOver(part(Less(V)), f, Less(V))
        <5>1. Less(V) \in SUBSET V
          BY DEF Less
        <5> QED
          BY <5>1, <3>1, <3>3, <2>1
      <4>4. part(V)[Less(V)] = part(Less(V))[Less(V)]
        BY <3>1, <4>3, FoldsAgree
      <4> QED
        BY <4>1, <4>2, <4>4 DEF V
    <3> QED
      BY <3>2, <3>3
  <2>3. whole = [U \in SUBSET T |->
                   IF U = {} THEN Base ELSE Op(f[Chosen(U)], whole[U \ {Chosen(U)}])]
    <3>1. \A U \in SUBSET T : U # {} => part(Less(U))[Less(U)] = whole[U \ {Chosen(U)}]
      BY <2>2
    <3> HIDE DEF part
    <3> QED
      BY <3>1
  <2> HIDE DEF whole
  <2>4. FoldsOver(whole, f, T)
    BY <2>3 DEF FoldsOver
  <2> QED
    BY <2>4
<1> HIDE DEF Good
<1>2. S \in Good
  BY <1>1, SetInduction
<1> QED
  BY <1>2 DEF Good

------------------------------------------------------------------------------
(* What a fold is.                                                         *)

LEMMA FoldRecursion ==
  ASSUME NEW f, NEW S, IsFiniteSet(S)
  PROVE  /\ Fold(f, {}) = Base
         /\ S # {} => Fold(f, S) = Op(f[Chosen(S)], Fold(f, S \ {Chosen(S)}))
<1> DEFINE fold(T) == CHOOSE g : FoldsOver(g, f, T)
<1>1. \A T : IsFiniteSet(T) => FoldsOver(fold(T), f, T)
  BY FoldsExist
<1> HIDE DEF fold
<1>2. \A T : Fold(f, T) = fold(T)[T]
  BY FoldIsChosen DEF fold
<1>3. Fold(f, {}) = Base
  <2>1. FoldsOver(fold({}), f, {})
    BY <1>1, FS_EmptySet
  <2>2. fold({})[{}] = Base
    BY <2>1, FoldsOverStep
  <2> QED
    BY <1>2, <2>2
<1>4. ASSUME S # {}
      PROVE  Fold(f, S) = Op(f[Chosen(S)], Fold(f, S \ {Chosen(S)}))
  <2> DEFINE T == S \ {Chosen(S)}
  <2>1. T \in SUBSET S /\ IsFiniteSet(T)
    BY FS_Subset
  <2> HIDE DEF T
  <2>2. fold(S)[T] = fold(T)[T]
    BY <1>1, <2>1, FoldsAgree
  <2>3. fold(S)[S] = Op(f[Chosen(S)], fold(S)[T])
    BY <1>1, <1>4, FoldsOverStep DEF T
  <2> QED
    BY <1>2, <2>2, <2>3 DEF T
<1> QED
  BY <1>3, <1>4

LEMMA FoldEmpty == \A f : Fold(f, {}) = Base
BY FoldRecursion, FS_EmptySet

LEMMA FoldIn ==
  ASSUME Lawful, NEW f, NEW S, IsFiniteSet(S), \A x \in S : f[x] \in D
  PROVE  Fold(f, S) \in D
<1> DEFINE Good == {T \in SUBSET S : Fold(f, T) \in D}
<1>1. ASSUME NEW T \in SUBSET S, \A U \in SUBSET T : U # T => U \in Good
      PROVE  T \in Good
  <2>1. CASE T = {}
    BY <2>1, FoldEmpty DEF Lawful
  <2>2. CASE T # {}
    <3> DEFINE x == Chosen(T)
    <3>1. x \in T /\ IsFiniteSet(T)
      BY <2>2, ChosenIn, FS_Subset
    <3>2. Fold(f, T \ {x}) \in D
      BY <1>1, <3>1
    <3>3. Fold(f, T) = Op(f[x], Fold(f, T \ {x}))
      BY <2>2, <3>1, FoldRecursion
    <3> QED
      BY <3>1, <3>2, <3>3 DEF Lawful
  <2> QED
    BY <2>1, <2>2
<1> HIDE DEF Good
<1>2. S \in Good
  BY <1>1, SetInduction
<1> QED
  BY <1>2 DEF Good

\* Any element may be taken out first.
LEMMA FoldRemove ==
  ASSUME Lawful, NEW f, NEW S, IsFiniteSet(S), \A x \in S : f[x] \in D, NEW y \in S
  PROVE  Fold(f, S) = Op(f[y], Fold(f, S \ {y}))
<1> DEFINE Good == {T \in SUBSET S : \A z \in T : Fold(f, T) = Op(f[z], Fold(f, T \ {z}))}
<1>1. ASSUME NEW T \in SUBSET S, \A U \in SUBSET T : U # T => U \in Good
      PROVE  T \in Good
  <2> SUFFICES ASSUME NEW z \in T
               PROVE  Fold(f, T) = Op(f[z], Fold(f, T \ {z}))
    OBVIOUS
  <2> DEFINE x == Chosen(T)
             rest == T \ {x, z}
  <2>1. x \in T /\ IsFiniteSet(T)
    BY ChosenIn, FS_Subset
  <2>2. Fold(f, T) = Op(f[x], Fold(f, T \ {x}))
    BY <2>1, FoldRecursion
  <2>3. CASE x = z
    BY <2>2, <2>3
  <2>4. CASE x # z
    <3>1. Fold(f, T \ {x}) = Op(f[z], Fold(f, rest))
      <4>1. T \ {x} \in Good /\ z \in T \ {x} /\ (T \ {x}) \ {z} = rest
        BY <1>1, <2>1, <2>4
      <4> QED
        BY <4>1
    <3>2. Fold(f, T \ {z}) = Op(f[x], Fold(f, rest))
      <4>1. T \ {z} \in Good /\ x \in T \ {z} /\ (T \ {z}) \ {x} = rest
        BY <1>1, <2>1, <2>4
      <4> QED
        BY <4>1
    <3>3. Fold(f, rest) \in D /\ f[x] \in D /\ f[z] \in D
      <4>1. IsFiniteSet(rest) /\ rest \subseteq S
        BY FS_Subset
      <4> HIDE DEF rest, x
      <4>2. Fold(f, rest) \in D
        BY <4>1, FoldIn
      <4> QED
        BY <4>2, <2>1
    <3> HIDE DEF rest, x
    <3>4. \A a, b, c \in D : Op(a, Op(b, c)) = Op(b, Op(a, c))
      BY DEF Lawful
    <3> QED
      BY <2>2, <3>1, <3>2, <3>3, <3>4
  <2> QED
    BY <2>3, <2>4
<1> HIDE DEF Good
<1>2. S \in Good
  BY <1>1, SetInduction
<1> QED
  BY <1>2 DEF Good

LEMMA FoldAdd ==
  ASSUME Lawful, NEW f, NEW S, IsFiniteSet(S), NEW y, y \notin S,
         \A x \in S \cup {y} : f[x] \in D
  PROVE  Fold(f, S \cup {y}) = Op(f[y], Fold(f, S))
<1> DEFINE T == S \cup {y}
<1>1. IsFiniteSet(T) /\ y \in T /\ T \ {y} = S
  BY FS_AddElement
<1>2. \A x \in T : f[x] \in D
  OBVIOUS
<1> HIDE DEF T
<1>3. Fold(f, T) = Op(f[y], Fold(f, T \ {y}))
  BY <1>1, <1>2, FoldRemove
<1> QED
  BY <1>1, <1>3 DEF T

\* Folds are equal that fold the same, over sets matched one to one.
LEMMA FoldMatch ==
  ASSUME Lawful, NEW f, NEW S, IsFiniteSet(S), \A x \in S : f[x] \in D,
         NEW g, NEW R, NEW m \in [S -> R],
         \A x, y \in S : m[x] = m[y] => x = y,
         \A z \in R : \E x \in S : m[x] = z,
         \A x \in S : f[x] = g[m[x]]
  PROVE  Fold(f, S) = Fold(g, R)
<1> DEFINE Image(T) == {m[x] : x \in T}
           Good == {T \in SUBSET S : Fold(f, T) = Fold(g, Image(T))}
<1>0. IsFiniteSet(R)
  <2>1. m \in Surjection(S, R)
    BY DEF Surjection
  <2> QED
    BY <2>1, FS_Surjection
<1>1. ASSUME NEW T \in SUBSET S, \A U \in SUBSET T : U # T => U \in Good
      PROVE  T \in Good
  <2>1. CASE T = {}
    BY <2>1, FoldEmpty
  <2>2. CASE T # {}
    <3> DEFINE x == Chosen(T)
               U == T \ {x}
    <3>1. x \in T /\ IsFiniteSet(T) /\ IsFiniteSet(U)
      BY <2>2, ChosenIn, FS_Subset
    <3>2. Fold(f, U) = Fold(g, Image(U))
      BY <1>1, <3>1
    <3>3. Fold(f, T) = Op(f[x], Fold(f, U))
      BY <2>2, <3>1, FoldRecursion
    <3>4. Image(T) = Image(U) \cup {m[x]} /\ m[x] \notin Image(U)
      BY <3>1
    <3>5. IsFiniteSet(Image(U))
      <4>1. Image(U) \subseteq R
        BY <3>1
      <4> QED
        BY <4>1, <1>0, FS_Subset
    <3>6. \A z \in Image(U) \cup {m[x]} : g[z] \in D
      BY <3>1
    <3>7. f[x] = g[m[x]]
      BY <3>1
    <3> HIDE DEF Image, x, U
    <3>8. Fold(g, Image(U) \cup {m[x]}) = Op(g[m[x]], Fold(g, Image(U)))
      BY <3>4, <3>5, <3>6, FoldAdd
    <3>9. Fold(f, T) = Fold(g, Image(T))
      BY <3>2, <3>3, <3>4, <3>7, <3>8
    <3> QED
      BY <3>9
  <2> QED
    BY <2>1, <2>2
<1> HIDE DEF Good, Image
<1>2. S \in Good
  BY <1>1, SetInduction
<1>3. Image(S) = R
  BY DEF Image
<1> QED
  BY <1>2, <1>3 DEF Good

LEMMA FoldEqual ==
  ASSUME NEW f, NEW g, NEW S, IsFiniteSet(S), \A x \in S : f[x] = g[x]
  PROVE  Fold(f, S) = Fold(g, S)
<1> DEFINE Good == {T \in SUBSET S : Fold(f, T) = Fold(g, T)}
<1>1. ASSUME NEW T \in SUBSET S, \A U \in SUBSET T : U # T => U \in Good
      PROVE  T \in Good
  <2>1. CASE T = {}
    BY <2>1, FoldEmpty
  <2>2. CASE T # {}
    <3>1. Chosen(T) \in T /\ IsFiniteSet(T)
      BY <2>2, ChosenIn, FS_Subset
    <3>2. T \ {Chosen(T)} \in Good
      BY <1>1, <3>1
    <3> QED
      BY <2>2, <3>1, <3>2, FoldRecursion
  <2> QED
    BY <2>1, <2>2
<1> HIDE DEF Good
<1>2. S \in Good
  BY <1>1, SetInduction
<1> QED
  BY <1>2 DEF Good

\* Elements that do not count can be left out.
LEMMA FoldSubset ==
  ASSUME Lawful, NEW f, NEW S, IsFiniteSet(S), \A x \in S : f[x] \in D,
         NEW R \in SUBSET S, \A x \in S \ R : f[x] = Base
  PROVE  Fold(f, S) = Fold(f, R)
<1> DEFINE Good == {T \in SUBSET S : Fold(f, T) = Fold(f, T \cap R)}
<1>1. ASSUME NEW T \in SUBSET S, \A U \in SUBSET T : U # T => U \in Good
      PROVE  T \in Good
  <2>1. CASE T \subseteq R
    <3>1. T \cap R = T
      BY <2>1
    <3> QED
      BY <3>1
  <2>2. CASE ~(T \subseteq R)
    <3>1. PICK x \in T : x \notin R
      BY <2>2
    <3>2. Fold(f, T \ {x}) = Fold(f, T \cap R)
      <4>1. T \ {x} \in Good /\ (T \ {x}) \cap R = T \cap R
        BY <1>1, <3>1
      <4> QED
        BY <4>1
    <3>3. IsFiniteSet(T) /\ IsFiniteSet(T \ {x})
      BY FS_Subset
    <3>4. Fold(f, T) = Op(f[x], Fold(f, T \ {x}))
      BY <3>3, FoldRemove
    <3>5. Fold(f, T \ {x}) \in D
      BY <3>3, FoldIn
    <3>6. \A a \in D : Op(Base, a) = a
      BY DEF Lawful
    <3>7. Fold(f, T) = Fold(f, T \cap R)
      BY <3>1, <3>2, <3>4, <3>5, <3>6
    <3> QED
      BY <3>7
  <2> QED
    BY <2>1, <2>2
<1> HIDE DEF Good
<1>2. S \in Good
  BY <1>1, SetInduction
<1>3. S \cap R = R
  OBVIOUS
<1> QED
  BY <1>2, <1>3 DEF Good

\* Two folds over one set are put together element by element.
LEMMA FoldPair ==
  ASSUME Lawful, NEW f, NEW g, NEW h, NEW S, IsFiniteSet(S),
         \A x \in S : f[x] \in D /\ g[x] \in D /\ h[x] = Op(f[x], g[x])
  PROVE  Fold(h, S) = Op(Fold(f, S), Fold(g, S))
<1> DEFINE Good == {T \in SUBSET S : Fold(h, T) = Op(Fold(f, T), Fold(g, T))}
<1>1. ASSUME NEW T \in SUBSET S, \A U \in SUBSET T : U # T => U \in Good
      PROVE  T \in Good
  <2>1. CASE T = {}
    BY <2>1, FoldEmpty DEF Lawful
  <2>2. CASE T # {}
    <3> DEFINE x == Chosen(T)
               U == T \ {x}
    <3>1. x \in T /\ IsFiniteSet(T) /\ IsFiniteSet(U)
      BY <2>2, ChosenIn, FS_Subset
    <3>2. Fold(h, U) = Op(Fold(f, U), Fold(g, U))
      BY <1>1, <3>1
    <3>3. /\ Fold(f, T) = Op(f[x], Fold(f, U))
          /\ Fold(g, T) = Op(g[x], Fold(g, U))
          /\ Fold(h, T) = Op(h[x], Fold(h, U))
      BY <2>2, <3>1, FoldRecursion
    <3>4. /\ f[x] \in D /\ g[x] \in D /\ h[x] = Op(f[x], g[x])
          /\ \A y \in U : f[y] \in D /\ g[y] \in D
      BY <3>1
    <3> HIDE DEF x, U
    <3>5. Fold(f, U) \in D /\ Fold(g, U) \in D
      BY <3>1, <3>4, FoldIn
    <3>6. \A a, b, c, d \in D : Op(Op(a, b), Op(c, d)) = Op(Op(a, c), Op(b, d))
      <4> SUFFICES ASSUME NEW a \in D, NEW b \in D, NEW c \in D, NEW d \in D
                   PROVE  Op(Op(a, b), Op(c, d)) = Op(Op(a, c), Op(b, d))
        OBVIOUS
      <4>1. Op(b, Op(c, d)) = Op(c, Op(b, d))
        BY DEF Lawful
      <4>2. Op(Op(a, b), Op(c, d)) = Op(a, Op(b, Op(c, d)))
        BY DEF Lawful
      <4>3. Op(Op(a, c), Op(b, d)) = Op(a, Op(c, Op(b, d)))
        BY DEF Lawful
      <4> QED
        BY <4>1, <4>2, <4>3
    <3>7. Fold(h, T) = Op(Fold(f, T), Fold(g, T))
      BY <3>2, <3>3, <3>4, <3>5, <3>6
    <3> QED
      BY <3>7
  <2> QED
    BY <2>1, <2>2
<1> HIDE DEF Good
<1>2. S \in Good
  BY <1>1, SetInduction
<1> QED
  BY <1>2 DEF Good

LEMMA FoldSingle ==
  ASSUME Lawful, NEW f, NEW x, f[x] \in D
  PROVE  Fold(f, {x}) = f[x]
<1>1. IsFiniteSet({}) /\ x \notin {} /\ {} \cup {x} = {x}
  BY FS_EmptySet
<1>2. Fold(f, {} \cup {x}) = Op(f[x], Fold(f, {}))
  BY <1>1, FoldAdd
<1> QED
  BY <1>1, <1>2, FoldEmpty DEF Lawful

\* A map that respects the operation can be taken after the fold or before it.
LEMMA FoldImage ==
  ASSUME Lawful, NEW f, NEW g, NEW h, NEW S, IsFiniteSet(S), h[Base] = Base,
         \A a, b \in D : h[Op(a, b)] = Op(h[a], h[b]),
         \A x \in S : f[x] \in D /\ g[x] = h[f[x]]
  PROVE  Fold(g, S) = h[Fold(f, S)]
<1> DEFINE Good == {T \in SUBSET S : Fold(g, T) = h[Fold(f, T)]}
<1>1. ASSUME NEW T \in SUBSET S, \A U \in SUBSET T : U # T => U \in Good
      PROVE  T \in Good
  <2>1. CASE T = {}
    BY <2>1, FoldEmpty
  <2>2. CASE T # {}
    <3> DEFINE x == Chosen(T)
               U == T \ {x}
    <3>1. x \in T /\ IsFiniteSet(T) /\ IsFiniteSet(U)
      BY <2>2, ChosenIn, FS_Subset
    <3>2. Fold(g, U) = h[Fold(f, U)]
      BY <1>1, <3>1
    <3>3. /\ Fold(f, T) = Op(f[x], Fold(f, U))
          /\ Fold(g, T) = Op(g[x], Fold(g, U))
      BY <2>2, <3>1, FoldRecursion
    <3>4. f[x] \in D /\ g[x] = h[f[x]] /\ \A y \in U : f[y] \in D
      BY <3>1
    <3> HIDE DEF x, U
    <3>5. Fold(f, U) \in D
      BY <3>1, <3>4, FoldIn
    <3>6. Fold(g, T) = h[Fold(f, T)]
      BY <3>2, <3>3, <3>4, <3>5
    <3> QED
      BY <3>6
  <2> QED
    BY <2>1, <2>2
<1> HIDE DEF Good
<1>2. S \in Good
  BY <1>1, SetInduction
<1> QED
  BY <1>2 DEF Good

\* A fold over rows of folds over columns is one over columns of folds over rows.
LEMMA FoldSwap ==
  ASSUME Lawful, NEW S, NEW T, IsFiniteSet(S), IsFiniteSet(T), NEW F,
         \A x \in S, y \in T : F[x][y] \in D, NEW G,
         \A x \in S, y \in T : G[y][x] = F[x][y]
  PROVE  Fold([x \in S |-> Fold(F[x], T)], S) = Fold([y \in T |-> Fold(G[y], S)], T)
<1> DEFINE Rows(U) == [x \in S |-> Fold(F[x], U)]
           columns == [y \in T |-> Fold(G[y], S)]
           Good == {U \in SUBSET T : Fold(Rows(U), S) = Fold(columns, U)}
<1>1. ASSUME NEW U \in SUBSET T, \A V \in SUBSET U : V # U => V \in Good
      PROVE  U \in Good
  <2>1. CASE U = {}
    <3>1. \A x \in S \ {} : Rows({})[x] = Base
      BY FoldEmpty
    <3>2. \A x \in S : Rows({})[x] \in D
      BY <3>1 DEF Lawful
    <3> HIDE DEF Rows
    <3>3. Fold(Rows({}), S) = Fold(Rows({}), {})
      BY <3>1, <3>2, FoldSubset
    <3>4. Fold(Rows({}), S) = Fold(columns, {})
      BY <3>3, FoldEmpty
    <3> QED
      BY <2>1, <3>4
  <2>2. CASE U # {}
    <3> DEFINE y == Chosen(U)
               V == U \ {y}
    <3>1. y \in U /\ y \in T /\ IsFiniteSet(U) /\ IsFiniteSet(V) /\ V \in SUBSET U /\ V # U
      BY <2>2, ChosenIn, FS_Subset
    <3>2. Fold(Rows(V), S) = Fold(columns, V)
      BY <1>1, <3>1
    <3>3. Fold(columns, U) = Op(columns[y], Fold(columns, V))
      BY <2>2, <3>1, FoldRecursion
    <3>4. ASSUME NEW x \in S
          PROVE  /\ G[y][x] \in D /\ Rows(V)[x] \in D
                 /\ Rows(U)[x] = Op(G[y][x], Rows(V)[x])
      <4>1. Fold(F[x], U) = Op(F[x][y], Fold(F[x], V))
        BY <2>2, <3>1, FoldRecursion
      <4>2. \A z \in V : F[x][z] \in D
        BY <3>1
      <4> HIDE DEF V, y
      <4>3. Fold(F[x], V) \in D
        BY <3>1, <4>2, FoldIn
      <4> QED
        BY <3>1, <4>1, <4>3
    <3>5. columns[y] = Fold(G[y], S)
      BY <3>1
    <3> HIDE DEF Rows, columns, y, V
    <3>6. Fold(Rows(U), S) = Op(Fold(G[y], S), Fold(Rows(V), S))
      BY <3>4, FoldPair
    <3>7. Fold(Rows(U), S) = Fold(columns, U)
      BY <3>2, <3>3, <3>5, <3>6
    <3> QED
      BY <3>7
  <2> QED
    BY <2>1, <2>2
<1> HIDE DEF Good
<1>2. T \in Good
  BY <1>1, SetInduction
<1> QED
  BY <1>2 DEF Good

------------------------------------------------------------------------------
(* Loops.                                                                  *)

Goes(g, base, n) == g = [j \in 0 .. n |-> IF j = 0 THEN base ELSE Op(g[j - 1], j)]
Loop(base, n) == CHOOSE g : Goes(g, base, n)

LEMMA LeastNumber ==
  ASSUME NEW S \in SUBSET Nat, S # {}
  PROVE  \E m \in S : \A k \in S : m <= k
<1> DEFINE R == OpToRel(<, Nat)
<1>1. IsWellFoundedOn(R, Nat)
  BY NatLessThanWellFounded, Zenon
<1>2. \A k, m \in Nat : k < m => <<k, m>> \in R
  BY Zenon DEF R, OpToRel
<1> HIDE DEF R
<1>3. PICK m \in S : \A k \in S : ~(<<k, m>> \in R)
  BY <1>1, WFMin
<1>4. \A k \in S : ~(k < m)
  BY <1>2, <1>3
<1> QED
  BY <1>4

\* A set with 0 and the successor of every number in it has all numbers.
LEMMA NumbersInduce ==
  ASSUME NEW Good, 0 \in Good, \A n \in Nat : n \in Good => n + 1 \in Good
  PROVE  Nat \subseteq Good
<1> DEFINE Bad == Nat \ Good
<1> SUFFICES ASSUME Bad # {} PROVE FALSE
  OBVIOUS
<1>1. Bad \in SUBSET Nat /\ Bad # {}
  OBVIOUS
<1> HIDE DEF Bad
<1>2. PICK m \in Bad : \A k \in Bad : m <= k
  BY <1>1, LeastNumber
<1>3. m \in Nat /\ m # 0
  BY DEF Bad
<1>4. m - 1 \in Nat /\ ~(m <= m - 1) /\ (m - 1) + 1 = m
  BY <1>3
<1>5. m - 1 \notin Bad
  BY <1>2, <1>4
<1> QED
  BY <1>3, <1>4, <1>5 DEF Bad

LEMMA GoesRoundByRound ==
  ASSUME NEW base, NEW n \in Nat, NEW g, Goes(g, base, n)
  PROVE  g[0] = base /\ \A j \in 1 .. n : g[j] = Op(g[j - 1], j)
BY DEF Goes

LEMMA LoopGoes == ASSUME NEW base, NEW n \in Nat PROVE \E g : Goes(g, base, n)
<1> DEFINE Good == {k \in Nat : \E g : Goes(g, base, k)}
<1>1. 0 \in Good
  <2> DEFINE g == [j \in 0 .. 0 |-> base]
  <2>1. Goes(g, base, 0)
    BY DEF Goes
  <2> QED
    BY <2>1
<1>2. ASSUME NEW k \in Nat, k \in Good PROVE k + 1 \in Good
  <2>1. PICK g : Goes(g, base, k)
    BY <1>2
  <2> DEFINE h == [j \in 0 .. k + 1 |-> IF j = 0 THEN base ELSE Op(g[j - 1], j)]
  <2>2. \A j \in 0 .. k : h[j] = g[j]
    BY <2>1 DEF Goes
  <2>3. ASSUME NEW j \in 0 .. k + 1
        PROVE  h[j] = IF j = 0 THEN base ELSE Op(h[j - 1], j)
    <3>1. CASE j = 0
      BY <3>1
    <3>2. CASE j # 0
      <4>1. j - 1 \in 0 .. k
        BY <3>2
      <4>2. h[j - 1] = g[j - 1]
        BY <4>1, <2>2
      <4> QED
        BY <4>2, <3>2
    <3> QED
      BY <3>1, <3>2
  <2>4. h = [j \in 0 .. k + 1 |-> h[j]]
    OBVIOUS
  <2> HIDE DEF h
  <2>5. Goes(h, base, k + 1)
    BY <2>3, <2>4 DEF Goes
  <2> QED
    BY <2>5
<1> HIDE DEF Good
<1>3. n \in Good
  BY <1>1, <1>2, NumbersInduce
<1> QED
  BY <1>3 DEF Good

LEMMA LoopUnrolls ==
  ASSUME NEW base, NEW n \in Nat
  PROVE  /\ Loop(base, n)[0] = base
         /\ \A j \in 1 .. n : Loop(base, n)[j] = Op(Loop(base, n)[j - 1], j)
<1>1. Goes(Loop(base, n), base, n)
  BY LoopGoes DEF Loop
<1> QED
  BY <1>1, GoesRoundByRound

\* What holds at first, and after a round if before it, holds in the end.
LEMMA LoopKeeps ==
  ASSUME NEW base, NEW n \in Nat, NEW Holds,
         <<0, base>> \in Holds,
         \A j \in 1 .. n : <<j - 1, Loop(base, n)[j - 1]>> \in Holds
                             => <<j, Op(Loop(base, n)[j - 1], j)>> \in Holds
  PROVE  <<n, Loop(base, n)[n]>> \in Holds
<1> DEFINE g == Loop(base, n)
           Good == {k \in Nat : k <= n => <<k, g[k]>> \in Holds}
<1>1. g[0] = base /\ \A j \in 1 .. n : g[j] = Op(g[j - 1], j)
  BY LoopUnrolls
<1> HIDE DEF g
<1>2. 0 \in Good
  BY <1>1
<1>3. ASSUME NEW k \in Nat, k \in Good PROVE k + 1 \in Good
  <2> SUFFICES ASSUME k + 1 <= n PROVE <<k + 1, g[k + 1]>> \in Holds
    OBVIOUS
  <2>1. <<k, g[k]>> \in Holds /\ k + 1 \in 1 .. n /\ (k + 1) - 1 = k
    BY <1>3
  <2>2. g[k + 1] = Op(g[k], k + 1)
    BY <2>1, <1>1
  <2> QED
    BY <2>1, <2>2 DEF g
<1> HIDE DEF Good
<1>4. n \in Good
  BY <1>2, <1>3, NumbersInduce
<1> QED
  BY <1>4 DEF Good, g

==============================================================================
