----------------------------- MODULE SumTheorems -----------------------------
(***************************************************************************)
(* What the models' sums (MapThenSumSet of a function over a finite set)   *)
(* come to when the function, or the set, changes.                         *)
(*                                                                         *)
(* The fold is a recursive function, of which nothing is known until it is *)
(* shown to exist.  The induction this takes is on subsets of a finite     *)
(* set: a set of subsets with something in it has a smallest one           *)
(* (Smallest), so that a claim that fails would fail of a subset of whose  *)
(* own strict subsets it holds.                                            *)
(***************************************************************************)
EXTENDS Integers, FiniteSetsExt, FiniteSetTheorems, WellFoundedInduction, TLAPS

SumOf(f, S) == MapThenSumSet(LAMBDA x : f[x], S)

\* The element that the fold takes out next, and its recursion.
Picked(s) == CHOOSE x \in s : TRUE

SumsUpTo(f, S, g) ==
    g = [s \in SUBSET S |-> IF s = {} THEN 0 ELSE f[Picked(s)] + g[s \ {Picked(s)}]]

Sums(f, S) == CHOOSE g : SumsUpTo(f, S, g)

LEMMA SumIsSums ==
    ASSUME NEW f, NEW S
    PROVE  SumOf(f, S) = Sums(f, S)[S]
BY DEF SumOf, MapThenSumSet, MapThenFoldSet, Sums, SumsUpTo, Picked

\* Induction on finite sets: among the subsets of a finite set that are in a
\* family there is one whose strict subsets are not.
LEMMA Smallest ==
    ASSUME NEW S, IsFiniteSet(S), NEW F, F \subseteq SUBSET S, F # {}
    PROVE  \E T \in F : \A U \in F : U \subseteq T => U = T
<1>1. IsWellFoundedOn(StrictSubsetOrdering(S), SUBSET S)
    BY FS_StrictSubsetOrderingWellFounded, FS_FiniteSubsetsOfFinite
<1>2. PICK T \in F : \A U \in F : <<U, T>> \notin StrictSubsetOrdering(S)
    BY <1>1, WFMin
<1> QED
    BY <1>2 DEF StrictSubsetOrdering

LEMMA PickedIsIn ==
    ASSUME NEW s, s # {}
    PROVE  Picked(s) \in s
BY DEF Picked

LEMMA SumsStep ==
    ASSUME NEW f, NEW S, NEW g, SumsUpTo(f, S, g), NEW s \in SUBSET S
    PROVE  /\ s = {} => g[s] = 0
           /\ s # {} => g[s] = f[Picked(s)] + g[s \ {Picked(s)}]
BY DEF SumsUpTo

\* Two functions that satisfy the recursion agree where both do.
LEMMA SumsAgree ==
    ASSUME NEW f, NEW S, IsFiniteSet(S), NEW T \in SUBSET S, NEW U \in SUBSET T,
           NEW g, SumsUpTo(f, S, g), NEW h, SumsUpTo(f, T, h)
    PROVE  g[U] = h[U]
<1> DEFINE differ == {s \in SUBSET T : g[s] # h[s]}
<1>1. SUFFICES ASSUME differ # {} PROVE FALSE
    OBVIOUS
<1>2. IsFiniteSet(T)
    BY FS_Subset
<1>a. differ \subseteq SUBSET T
    OBVIOUS
<1> HIDE DEF differ
<1>3. PICK s \in differ : \A u \in differ : u \subseteq s => u = s
    BY <1>a, <1>1, <1>2, Smallest
<1> USE DEF differ
<1>4. s # {}
    BY <1>3, SumsStep
<1>5. s \ {Picked(s)} \in SUBSET T /\ s \ {Picked(s)} # s
    BY <1>3, <1>4, PickedIsIn
<1>6. g[s \ {Picked(s)}] = h[s \ {Picked(s)}]
    BY <1>3, <1>5
<1> QED
    BY <1>3, <1>4, <1>6, SumsStep

\* The recursion has a solution, on every finite set.
LEMMA SumsExist ==
    ASSUME NEW f, NEW S, IsFiniteSet(S)
    PROVE  SumsUpTo(f, S, Sums(f, S))
<1> DEFINE lost == {T \in SUBSET S : ~ SumsUpTo(f, T, Sums(f, T))}
<1>1. SUFFICES ASSUME lost # {} PROVE FALSE
    OBVIOUS
<1>a. lost \subseteq SUBSET S
    OBVIOUS
<1> HIDE DEF lost
<1>2. PICK T \in lost : \A U \in lost : U \subseteq T => U = T
    BY <1>a, <1>1, Smallest
<1> USE DEF lost
<1>3. \A U \in SUBSET T : U # T => SumsUpTo(f, U, Sums(f, U))
    BY <1>2
<1> DEFINE rest(s) == s \ {Picked(s)}
           G == [s \in SUBSET T |->
                    IF s = {} THEN 0 ELSE f[Picked(s)] + Sums(f, rest(s))[rest(s)]]
<1>4. ASSUME NEW s \in SUBSET T, s # T
      PROVE  G[s] = Sums(f, s)[s]
  <2>1. SumsUpTo(f, s, Sums(f, s))
      BY <1>3, <1>4
  <2>2. CASE s = {}
      BY <2>1, <2>2, SumsStep
  <2>3. CASE s # {}
    <3>1. rest(s) \subseteq s /\ rest(s) # s /\ rest(s) \in SUBSET T
        BY <2>3, PickedIsIn
    <3>2. rest(s) # T
        BY <3>1
    <3>3. SumsUpTo(f, rest(s), Sums(f, rest(s)))
        BY <1>3, <3>1, <3>2
    <3>4. IsFiniteSet(s)
        BY FS_Subset, <1>2
    <3>5. Sums(f, s)[rest(s)] = Sums(f, rest(s))[rest(s)]
        BY <2>1, <3>1, <3>3, <3>4, SumsAgree
    <3>6. Sums(f, s)[s] = f[Picked(s)] + Sums(f, s)[rest(s)]
        BY <2>1, <2>3, SumsStep
    <3>7. G[s] = f[Picked(s)] + Sums(f, rest(s))[rest(s)]
        BY <2>3
    <3> QED
        BY <3>5, <3>6, <3>7
  <2> QED
      BY <2>2, <2>3
<1>5. SumsUpTo(f, T, G)
  <2>1. ASSUME NEW s \in SUBSET T, s # {}
        PROVE  rest(s) \in SUBSET T /\ rest(s) # T
      BY <2>1, PickedIsIn
  <2>2. ASSUME NEW s \in SUBSET T, s # {}
        PROVE  G[rest(s)] = Sums(f, rest(s))[rest(s)]
      BY <1>4, <2>1, <2>2
  <2> QED
      BY <2>2 DEF SumsUpTo
<1>6. SumsUpTo(f, T, Sums(f, T))
    BY <1>5 DEF Sums
<1> QED
    BY <1>2, <1>6

------------------------------------------------------------------------------
(* What a proof about a sum cites *)

LEMMA SumEmpty ==
    ASSUME NEW f
    PROVE  SumOf(f, {}) = 0
<1>1. SumsUpTo(f, {}, Sums(f, {}))
    BY SumsExist, FS_EmptySet
<1> QED
    BY <1>1, SumsStep, SumIsSums

LEMMA SumPicked ==
    ASSUME NEW f, NEW S, IsFiniteSet(S), S # {}
    PROVE  SumOf(f, S) = f[Picked(S)] + SumOf(f, S \ {Picked(S)})
<1> DEFINE rest == S \ {Picked(S)}
<1>1. IsFiniteSet(rest) /\ rest \in SUBSET S
    BY FS_Subset
<1>2. SumsUpTo(f, S, Sums(f, S)) /\ SumsUpTo(f, rest, Sums(f, rest))
    BY <1>1, SumsExist
<1>3. Sums(f, S)[rest] = Sums(f, rest)[rest]
  <2>1. rest \in SUBSET rest
      OBVIOUS
  <2> HIDE DEF rest
  <2> QED
      BY <1>1, <1>2, <2>1, SumsAgree
<1>4. Sums(f, S)[S] = f[Picked(S)] + Sums(f, S)[rest]
    BY <1>2, SumsStep
<1> QED
    BY <1>3, <1>4, SumIsSums

\* What holds of the empty set, and of a set if it holds without the element
\* that is picked of it, holds of every subset of a finite set.
LEMMA ByPicking ==
    ASSUME NEW S, IsFiniteSet(S), NEW F, {} \in F,
           \A T \in SUBSET S : T # {} /\ T \ {Picked(T)} \in F => T \in F
    PROVE  S \in F
<1> DEFINE left == (SUBSET S) \ F
<1>1. SUFFICES ASSUME left # {} PROVE FALSE
    OBVIOUS
<1>2. left \subseteq SUBSET S
    OBVIOUS
<1> HIDE DEF left
<1>3. PICK T \in left : \A U \in left : U \subseteq T => U = T
    BY <1>1, <1>2, Smallest
<1> USE DEF left
<1>4. T # {} /\ T \in SUBSET S
    BY <1>3
<1>5. T \ {Picked(T)} \in SUBSET S /\ T \ {Picked(T)} \subseteq T /\ T \ {Picked(T)} # T
    BY <1>4, PickedIsIn
<1>6. T \ {Picked(T)} \in F
    BY <1>3, <1>5
<1> QED
    BY <1>3, <1>4, <1>6

\* A step of such an induction, for a sum.
LEMMA SumStep ==
    ASSUME NEW f, NEW S, IsFiniteSet(S), NEW T \in SUBSET S, T # {}
    PROVE  /\ Picked(T) \in S
           /\ SumOf(f, T) = f[Picked(T)] + SumOf(f, T \ {Picked(T)})
<1>1. IsFiniteSet(T)
    BY FS_Subset
<1> QED
    BY <1>1, PickedIsIn, SumPicked

LEMMA SumInt ==
    ASSUME NEW f, NEW S, IsFiniteSet(S), \A x \in S : f[x] \in Int
    PROVE  SumOf(f, S) \in Int
<1> DEFINE good == {T \in SUBSET S : SumOf(f, T) \in Int}
<1>1. {} \in good
  <2>1. SumOf(f, {}) \in Int
      BY SumEmpty
  <2> QED
      BY <2>1
<1>2. ASSUME NEW T \in SUBSET S, T # {}, T \ {Picked(T)} \in good
      PROVE  T \in good
  <2>1. Picked(T) \in S /\ SumOf(f, T) = f[Picked(T)] + SumOf(f, T \ {Picked(T)})
      BY <1>2, SumStep
  <2>2. f[Picked(T)] \in Int /\ SumOf(f, T \ {Picked(T)}) \in Int
      BY <1>2, <2>1
  <2> QED
      BY <2>1, <2>2
<1>3. S \in good
  <2> HIDE DEF good
  <2> QED
      BY <1>1, <1>2, ByPicking
<1> QED
    BY <1>3

LEMMA SumNat ==
    ASSUME NEW f, NEW S, IsFiniteSet(S), \A x \in S : f[x] \in Nat
    PROVE  SumOf(f, S) \in Nat
<1> DEFINE good == {T \in SUBSET S : SumOf(f, T) \in Nat}
<1>1. {} \in good
  <2>1. SumOf(f, {}) \in Nat
      BY SumEmpty
  <2> QED
      BY <2>1
<1>2. ASSUME NEW T \in SUBSET S, T # {}, T \ {Picked(T)} \in good
      PROVE  T \in good
  <2>1. Picked(T) \in S /\ SumOf(f, T) = f[Picked(T)] + SumOf(f, T \ {Picked(T)})
      BY <1>2, SumStep
  <2>2. f[Picked(T)] \in Nat /\ SumOf(f, T \ {Picked(T)}) \in Nat
      BY <1>2, <2>1
  <2> QED
      BY <2>1, <2>2
<1>3. S \in good
  <2> HIDE DEF good
  <2> QED
      BY <1>1, <1>2, ByPicking
<1> QED
    BY <1>3

LEMMA SumZero ==
    ASSUME NEW f, NEW S, IsFiniteSet(S), \A x \in S : f[x] = 0
    PROVE  SumOf(f, S) = 0
<1> DEFINE good == {T \in SUBSET S : SumOf(f, T) = 0}
<1>1. {} \in good
    BY SumEmpty
<1>2. ASSUME NEW T \in SUBSET S, T # {}, T \ {Picked(T)} \in good
      PROVE  T \in good
    BY <1>2, SumStep
<1>3. S \in good
  <2> HIDE DEF good
  <2> QED
      BY <1>1, <1>2, ByPicking
<1> QED
    BY <1>3

\* Whatever the fold takes out first, any element may be taken out.
LEMMA SumRest ==
    ASSUME NEW f, NEW S, IsFiniteSet(S), \A y \in S : f[y] \in Int, NEW x \in S
    PROVE  SumOf(f, S) = f[x] + SumOf(f, S \ {x})
<1> DEFINE Fits(T, y) == SumOf(f, T) = f[y] + SumOf(f, T \ {y})
           odd == {T \in SUBSET S : \E y \in T : ~ Fits(T, y)}
<1>1. SUFFICES ASSUME odd # {} PROVE FALSE
    BY DEF Fits
<1>2. odd \subseteq SUBSET S
    OBVIOUS
<1> HIDE DEF odd
<1>3. PICK T \in odd : \A U \in odd : U \subseteq T => U = T
    BY <1>1, <1>2, Smallest
<1> USE DEF odd
<1>4. PICK y \in T : ~ Fits(T, y)
    BY <1>3
<1> DEFINE z == Picked(T)
           both == T \ {y, z}
<1>5. T \in SUBSET S /\ z \in T /\ IsFiniteSet(T)
    BY <1>3, <1>4, PickedIsIn, FS_Subset
<1>6. SumOf(f, T) = f[z] + SumOf(f, T \ {z})
    BY <1>5, SumPicked
<1>7. y # z
    BY <1>4, <1>6
<1>8. T \ {y} \notin odd /\ T \ {z} \notin odd
    BY <1>3, <1>4, <1>5
<1>9. SumOf(f, T \ {y}) = f[z] + SumOf(f, both)
  <2>1. z \in T \ {y} /\ T \ {y} \in SUBSET S /\ (T \ {y}) \ {z} = both
      BY <1>5, <1>7
  <2>2. Fits(T \ {y}, z)
      BY <1>8, <2>1
  <2> QED
      BY <2>1, <2>2
<1>10. SumOf(f, T \ {z}) = f[y] + SumOf(f, both)
  <2>1. y \in T \ {z} /\ T \ {z} \in SUBSET S /\ (T \ {z}) \ {y} = both
      BY <1>4, <1>5, <1>7
  <2>2. Fits(T \ {z}, y)
      BY <1>8, <2>1
  <2> QED
      BY <2>1, <2>2
<1>11. f[y] \in Int /\ f[z] \in Int
    BY <1>4, <1>5
<1>12. SumOf(f, both) \in Int
  <2>1. IsFiniteSet(both) /\ both \in SUBSET S
      BY <1>5, FS_Subset
  <2> QED
      BY <2>1, SumInt
<1>13. SumOf(f, T) = f[y] + SumOf(f, T \ {y})
    BY <1>6, <1>9, <1>10, <1>11, <1>12
<1> QED
    BY <1>4, <1>13

\* Functions that agree on a set have the same sum over it.
LEMMA SumSame ==
    ASSUME NEW f, NEW g, NEW S, IsFiniteSet(S), \A x \in S : f[x] = g[x]
    PROVE  SumOf(f, S) = SumOf(g, S)
<1> DEFINE good == {T \in SUBSET S : SumOf(f, T) = SumOf(g, T)}
<1>1. {} \in good
    BY SumEmpty
<1>2. ASSUME NEW T \in SUBSET S, T # {}, T \ {Picked(T)} \in good
      PROVE  T \in good
    BY <1>2, SumStep
<1>3. S \in good
  <2> HIDE DEF good
  <2> QED
      BY <1>1, <1>2, ByPicking
<1> QED
    BY <1>3

\* One value changes.
LEMMA SumChange ==
    ASSUME NEW f, NEW g, NEW S, IsFiniteSet(S), NEW x \in S,
           \A y \in S : f[y] \in Int /\ g[y] \in Int,
           \A y \in S \ {x} : f[y] = g[y]
    PROVE  SumOf(g, S) = SumOf(f, S) - f[x] + g[x]
<1>1. IsFiniteSet(S \ {x})
    BY FS_Subset
<1>2. SumOf(f, S \ {x}) = SumOf(g, S \ {x})
    BY <1>1, SumSame
<1>3. SumOf(f, S) = f[x] + SumOf(f, S \ {x}) /\ SumOf(g, S) = g[x] + SumOf(g, S \ {x})
    BY SumRest
<1>4. SumOf(f, S \ {x}) \in Int /\ f[x] \in Int /\ g[x] \in Int
    BY <1>1, SumInt
<1> QED
    BY <1>2, <1>3, <1>4
==============================================================================
