---------------------------- MODULE AnalyticsProofs ----------------------------
(***************************************************************************)
(* Proofs about the analytics of decisions: what human review, the         *)
(* simulator of enforcement, the archive of reports and their memory keep  *)
(* and compute; and about all services side by side.  Before them, what    *)
(* the sums that the services take have in common.                         *)
(***************************************************************************)
EXTENDS ServicesProofs, ConcurrencyProofs, MCServices

-----------------------------------------------------------------------------
(* Induction, over sets: a set that holds 0 and with each number the next *)
(* holds every number; likewise for the parts of a finite set.            *)

LEMMA Induction ==
    ASSUME NEW Good, 0 \in Good, \A n \in Nat : n \in Good => n + 1 \in Good
    PROVE  Nat \subseteq Good
<1> SUFFICES ASSUME ~(Nat \subseteq Good) PROVE FALSE
  OBVIOUS
<1>1. PICK n \in Nat \ Good : \A k \in Nat \ Good : n <= k
  <2>1. Nat \ Good \subseteq Nat /\ Nat \ Good # {}
    OBVIOUS
  <2> QED
    BY <2>1, LeastOfSome, Zenon
<1>2. n - 1 \in Nat /\ ~(n <= n - 1) /\ (n - 1) + 1 = n
  BY <1>1
<1>3. n - 1 \in Good
  BY <1>1, <1>2, Zenon
<1> QED
  BY <1>1, <1>2, <1>3

LEMMA SetInduction ==
    ASSUME NEW S, IsFiniteSet(S), NEW Good, {} \in Good,
           \A T \in SUBSET S : \A x \in T : T \ {x} \in Good => T \in Good
    PROVE  \A T \in SUBSET S : T \in Good
<1> DEFINE Sized == {n \in Nat : \A T \in SUBSET S : Cardinality(T) = n => T \in Good}
<1>1. \A T \in SUBSET S : IsFiniteSet(T) /\ Cardinality(T) \in Nat
  BY FS_Subset, FS_CardinalityType
<1>2. 0 \in Sized
  BY <1>1, FS_EmptySet
<1>3. ASSUME NEW n \in Nat, n \in Sized PROVE n + 1 \in Sized
  <2> SUFFICES ASSUME NEW T \in SUBSET S, Cardinality(T) = n + 1 PROVE T \in Good
    OBVIOUS
  <2>1. PICK x \in T : TRUE
    BY <1>1, FS_EmptySet
  <2>2. Cardinality(T \ {x}) = n
    BY <1>1, <2>1, FS_RemoveElement
  <2> QED
    BY <1>3, <2>1, <2>2
<1>4. Nat \subseteq Sized
  <2> HIDE DEF Sized
  <2> QED
    BY <1>2, <1>3, Induction
<1> QED
  BY <1>1, <1>4

-----------------------------------------------------------------------------
(* Sums.  SumFunctionOnSet folds with a recursive function over the parts   *)
(* of the set; what it computes does not depend on the order.               *)

Some(T) == CHOOSE x \in T : TRUE

\* f adds up F over the parts it is defined on.
AddsUp(F, f) ==
    \A T \in DOMAIN f : f[T] = IF T = {} THEN 0 ELSE F[Some(T)] + f[T \ {Some(T)}]
PartsUpTo(S, n) == {T \in SUBSET S : Cardinality(T) <= n}

\* A part without one of its members is a part with one member less.
LEMMA SmallerPart ==
    ASSUME NEW S, IsFiniteSet(S)
    PROVE  \A T \in SUBSET S : /\ IsFiniteSet(T) /\ Cardinality(T) \in Nat
                               /\ Cardinality(T) = 0 <=> T = {}
                               /\ \A x \in T : /\ T \ {x} \in SUBSET S
                                               /\ Cardinality(T \ {x}) = Cardinality(T) - 1
<1> SUFFICES ASSUME NEW T \in SUBSET S
             PROVE  /\ IsFiniteSet(T) /\ Cardinality(T) \in Nat
                    /\ Cardinality(T) = 0 <=> T = {}
                    /\ \A x \in T : /\ T \ {x} \in SUBSET S
                                    /\ Cardinality(T \ {x}) = Cardinality(T) - 1
  OBVIOUS
<1>1. IsFiniteSet(T)
  BY FS_Subset
<1> QED
  BY <1>1, FS_CardinalityType, FS_EmptySet, FS_RemoveElement

\* There is a function that adds up the parts of any size, member by member.
LEMMA SumsExist ==
    ASSUME NEW F, NEW S, IsFiniteSet(S), \A x \in S : F[x] \in Int, NEW n \in Nat
    PROVE  \E f \in [PartsUpTo(S, n) -> Int] : AddsUp(F, f)
<1> DEFINE Good == {k \in Nat : \E f \in [PartsUpTo(S, k) -> Int] : AddsUp(F, f)}
<1>1. \A T \in SUBSET S : T # {} => Some(T) \in T /\ F[Some(T)] \in Int
  BY DEF Some
<1>2. 0 \in Good
  <2>1. \A T \in PartsUpTo(S, 0) : T = {}
    BY SmallerPart DEF PartsUpTo
  <2>2. [T \in PartsUpTo(S, 0) |-> 0] \in [PartsUpTo(S, 0) -> Int]
        /\ AddsUp(F, [T \in PartsUpTo(S, 0) |-> 0])
    BY <2>1 DEF AddsUp
  <2> QED
    BY <2>2
<1>3. ASSUME NEW k \in Nat, k \in Good PROVE k + 1 \in Good
  <2> DEFINE parts == PartsUpTo(S, k)
             more == PartsUpTo(S, k + 1)
  <2>1. PICK f \in [parts -> Int] : AddsUp(F, f)
    BY <1>3
  <2>2. parts \subseteq more /\ \A T \in more : T # {} => T \ {Some(T)} \in parts
    BY <1>1, SmallerPart DEF PartsUpTo
  <2>3. more \subseteq SUBSET S
    BY DEF PartsUpTo
  <2> DEFINE g == [T \in more |-> IF T = {} THEN 0 ELSE F[Some(T)] + f[T \ {Some(T)}]]
  <2> HIDE DEF parts, more
  <2>4. g \in [more -> Int]
    BY <1>1, <2>1, <2>2, <2>3
  <2>5. \A T \in parts : g[T] = f[T]
    BY <2>1, <2>2 DEF AddsUp
  <2>6. AddsUp(F, g)
    BY <2>2, <2>5 DEF AddsUp
  <2> HIDE DEF g
  <2> QED
    BY <2>4, <2>6 DEF more
<1>4. Nat \subseteq Good
  <2> HIDE DEF Good
  <2> QED
    BY <1>2, <1>3, Induction
<1> QED
  BY <1>4

\* Two such functions agree where both are defined.
LEMMA SumsAgree ==
    ASSUME NEW F, NEW S, IsFiniteSet(S), NEW f, NEW g, AddsUp(F, f), AddsUp(F, g),
           SUBSET S \subseteq DOMAIN f, SUBSET S \subseteq DOMAIN g
    PROVE  f[S] = g[S]
<1> DEFINE Bad == {n \in Nat : \E T \in SUBSET S : f[T] # g[T] /\ Cardinality(T) = n}
<1>1. ASSUME Bad # {} PROVE FALSE
  <2>1. PICK n \in Bad : \A k \in Bad : n <= k
    <3>1. Bad \subseteq Nat
      OBVIOUS
    <3> HIDE DEF Bad
    <3> QED
      BY <1>1, <3>1, LeastOfSome
  <2>2. PICK T \in SUBSET S : f[T] # g[T] /\ Cardinality(T) = n
    BY <2>1
  <2>3. T # {}
    <3>1. f[{}] = 0 /\ g[{}] = 0
      BY Zenon DEF AddsUp
    <3>2. T = {} => f[T] = g[T]
      BY <3>1, Zenon
    <3> QED
      BY <2>2, <3>2, Zenon
  <2>4. T \ {Some(T)} \in SUBSET S /\ Cardinality(T \ {Some(T)}) = n - 1 /\ n - 1 \in Nat
    <3>1. Some(T) \in T
      BY <2>3 DEF Some
    <3> HIDE DEF Bad
    <3>2. T \ {Some(T)} \in SUBSET S /\ Cardinality(T \ {Some(T)}) = n - 1
      BY <2>2, <3>1, SmallerPart
    <3>3. IsFiniteSet(T \ {Some(T)})
      BY <3>2, FS_Subset
    <3> QED
      BY <3>2, <3>3, FS_CardinalityType
  <2>5. f[T \ {Some(T)}] = g[T \ {Some(T)}]
    BY <2>1, <2>4
  <2> QED
    BY <2>2, <2>3, <2>5 DEF AddsUp
<1> QED
  BY <1>1, FS_CardinalityType

\* The sum of a finite set is the value there of any such function.
LEMMA SumIsFold ==
    ASSUME NEW F, NEW S, IsFiniteSet(S), NEW f, AddsUp(F, f), DOMAIN f = SUBSET S
    PROVE  SumFunctionOnSet(F, S) = f[S]
<1> DEFINE Folds(g) == g = [T \in SUBSET S |-> IF T = {} THEN 0 ELSE F[Some(T)] + g[T \ {Some(T)}]]
           h == CHOOSE g : Folds(g)
<1>1. PICK e : Folds(e)
  <2>1. Folds([T \in SUBSET S |-> f[T]])
    BY DEF AddsUp, Some
  <2> QED
    BY <2>1
<1>2. Folds(h)
  <2> HIDE DEF Folds
  <2> QED
    BY <1>1
<1>3. SumFunctionOnSet(F, S) = h[S]
  BY Zenon DEF SumFunctionOnSet, FoldFunctionOnSet, MapThenFoldSet, Some
<1> HIDE DEF h
<1>4. AddsUp(F, h) /\ DOMAIN h = SUBSET S
  BY <1>2 DEF AddsUp, Some
<1> QED
  BY <1>3, <1>4, SumsAgree

\* A sum is a number, of nothing 0, and a member of a finite set can be taken out first.
LEMMA SumOfNone == ASSUME NEW F PROVE SumFunctionOnSet(F, {}) = 0
<1> DEFINE f == [T \in SUBSET {} |-> 0]
<1>1. AddsUp(F, f) /\ DOMAIN f = SUBSET {} /\ f[{}] = 0
  BY DEF AddsUp
<1> HIDE DEF f
<1> QED
  BY <1>1, SumIsFold, FS_EmptySet

\* A sum is a number, and the chosen member is what is taken out first;
LEMMA SumOfSome ==
    ASSUME NEW F, NEW S, IsFiniteSet(S), \A x \in S : F[x] \in Int
    PROVE  /\ SumFunctionOnSet(F, S) \in Int
           /\ S # {} => /\ Some(S) \in S
                        /\ SumFunctionOnSet(F, S) = F[Some(S)] + SumFunctionOnSet(F, S \ {Some(S)})
<1>1. PartsUpTo(S, Cardinality(S)) = SUBSET S /\ Cardinality(S) \in Nat
  BY FS_Subset, FS_CardinalityType DEF PartsUpTo
<1>2. PICK f \in [SUBSET S -> Int] : AddsUp(F, f)
  BY <1>1, SumsExist
<1>3. SumFunctionOnSet(F, S) = f[S]
  BY <1>2, SumIsFold
<1>4. ASSUME S # {}
      PROVE  /\ Some(S) \in S
             /\ SumFunctionOnSet(F, S) = F[Some(S)] + SumFunctionOnSet(F, S \ {Some(S)})
  <2>1. Some(S) \in S
    BY <1>4 DEF Some
  <2> DEFINE R == S \ {Some(S)}
             g == [T \in SUBSET R |-> f[T]]
  <2>2. IsFiniteSet(R) /\ R \in SUBSET S
    BY FS_Subset
  <2>3. AddsUp(F, g)
    <3>1. \A T \in SUBSET R : /\ T \in DOMAIN f /\ g[T] = f[T]
                              /\ T # {} => T \ {Some(T)} \in SUBSET R
      BY <1>2, <2>2
    <3> HIDE DEF R
    <3>2. DOMAIN g = SUBSET R /\ \A T \in SUBSET R : T = {} \/ g[T \ {Some(T)}] = f[T \ {Some(T)}]
      BY <3>1
    <3> HIDE DEF g
    <3> SUFFICES ASSUME NEW T \in SUBSET R
                 PROVE  g[T] = IF T = {} THEN 0 ELSE F[Some(T)] + g[T \ {Some(T)}]
      BY <3>2, Zenon DEF AddsUp
    <3>3. f[T] = IF T = {} THEN 0 ELSE F[Some(T)] + f[T \ {Some(T)}]
      BY <1>2, <3>1, Zenon DEF AddsUp
    <3> QED
      BY <3>1, <3>2, <3>3, Zenon
  <2>4. SumFunctionOnSet(F, R) = f[R]
    <3>1. DOMAIN g = SUBSET R /\ g[R] = f[R]
      OBVIOUS
    <3> HIDE DEF g, R
    <3> QED
      BY <2>2, <2>3, <3>1, SumIsFold
  <2> QED
    BY <1>2, <1>3, <1>4, <2>1, <2>4 DEF AddsUp
<1> QED
  BY <1>2, <1>3, <1>4

\* but any member may be taken out of it.
LEMMA SumWithout ==
    ASSUME NEW F, NEW S, IsFiniteSet(S), \A x \in S : F[x] \in Int
    PROVE  /\ SumFunctionOnSet(F, S) \in Int
           /\ \A x \in S : SumFunctionOnSet(F, S) = F[x] + SumFunctionOnSet(F, S \ {x})
<1> DEFINE sum(T) == SumFunctionOnSet(F, T)
           Good == {T \in SUBSET S : \A x \in T : sum(T) = F[x] + sum(T \ {x})}
           Bad == {n \in Nat : \E T \in SUBSET S : T \notin Good /\ Cardinality(T) = n}
<1>1. \A T \in SUBSET S : /\ sum(T) \in Int
                          /\ T # {} => Some(T) \in T /\ sum(T) = F[Some(T)] + sum(T \ {Some(T)})
  BY SumOfSome, FS_Subset
<1> HIDE DEF sum
<1>2. ASSUME NEW T \in SUBSET S, \A x \in T : T \ {x} \in Good PROVE T \in Good
  <2> SUFFICES ASSUME NEW x \in T, x # Some(T) PROVE sum(T) = F[x] + sum(T \ {x})
    BY <1>1
  <2>1. PICK c \in T : sum(T) = F[c] + sum(T \ {c}) /\ c # x
    BY <1>1
  <2>2. sum(T \ {c}) = F[x] + sum((T \ {c}) \ {x})
    BY <1>2, <2>1
  <2>3. sum(T \ {x}) = F[c] + sum((T \ {x}) \ {c})
    BY <1>2, <2>1
  <2>4. (T \ {x}) \ {c} = (T \ {c}) \ {x}
    OBVIOUS
  <2>5. PICK rest \in Int : rest = sum((T \ {c}) \ {x})
    BY <1>1
  <2>6. sum(T \ {c}) = F[x] + rest /\ sum(T \ {x}) = F[c] + rest
    BY <2>2, <2>3, <2>4, <2>5, Zenon
  <2> QED
    BY <2>1, <2>5, <2>6
<1>3. ASSUME Bad # {} PROVE FALSE
  <2> HIDE DEF Good
  <2>1. PICK n \in Bad : \A k \in Bad : n <= k
    <3>1. Bad \subseteq Nat
      OBVIOUS
    <3> HIDE DEF Bad
    <3> QED
      BY <1>3, <3>1, LeastOfSome
  <2>2. PICK T \in SUBSET S : T \notin Good /\ Cardinality(T) = n
    BY <2>1
  <2>3. ASSUME NEW x \in T PROVE T \ {x} \in Good
    <3>1. T \ {x} \in SUBSET S /\ Cardinality(T \ {x}) = n - 1 /\ n - 1 \in Nat
      BY <2>2, SmallerPart
    <3> QED
      BY <2>1, <3>1
  <2> QED
    BY <1>2, <2>2, <2>3
<1>4. S \in Good
  <2> HIDE DEF Good
  <2> QED
    BY <1>3, FS_CardinalityType
<1> QED
  BY <1>1, <1>4 DEF sum

\* Sums add up, and are multiplied, member by member.
LEMMA SumAdds ==
    ASSUME NEW F, NEW G, NEW H, NEW S, IsFiniteSet(S),
           \A x \in S : F[x] \in Int /\ G[x] \in Int /\ H[x] = F[x] + G[x]
    PROVE  SumFunctionOnSet(H, S) = SumFunctionOnSet(F, S) + SumFunctionOnSet(G, S)
<1> DEFINE f(T) == SumFunctionOnSet(F, T)
           g(T) == SumFunctionOnSet(G, T)
           h(T) == SumFunctionOnSet(H, T)
           Good == {T \in SUBSET S : h(T) = f(T) + g(T)}
<1>1. \A x \in S : H[x] \in Int
  OBVIOUS
<1>2. ASSUME NEW T \in SUBSET S
      PROVE  /\ f(T) \in Int /\ g(T) \in Int /\ h(T) \in Int
             /\ \A x \in T : /\ f(T) = F[x] + f(T \ {x}) /\ g(T) = G[x] + g(T \ {x})
                             /\ h(T) = H[x] + h(T \ {x})
  BY <1>1, SumWithout, FS_Subset
<1>3. {} \in Good
  BY SumOfNone
<1> HIDE DEF f, g, h
<1>4. ASSUME NEW T \in SUBSET S, NEW x \in T, T \ {x} \in Good PROVE T \in Good
  <2>1. PICK a \in Int, b \in Int : a = f(T \ {x}) /\ b = g(T \ {x})
    BY <1>2
  <2> QED
    BY <1>2, <1>4, <2>1
<1>5. S \in Good
  <2> HIDE DEF Good
  <2> QED
    BY <1>3, <1>4, SetInduction
<1> QED
  BY <1>5 DEF f, g, h

LEMMA SumScales ==
    ASSUME NEW F, NEW H, NEW S, IsFiniteSet(S), NEW k \in Int,
           \A x \in S : F[x] \in Int /\ H[x] = k * F[x]
    PROVE  SumFunctionOnSet(H, S) = k * SumFunctionOnSet(F, S)
<1> DEFINE f(T) == SumFunctionOnSet(F, T)
           h(T) == SumFunctionOnSet(H, T)
           Good == {T \in SUBSET S : h(T) = k * f(T)}
<1>1. \A x \in S : H[x] \in Int
  OBVIOUS
<1>2. ASSUME NEW T \in SUBSET S
      PROVE  /\ f(T) \in Int /\ h(T) \in Int
             /\ \A x \in T : f(T) = F[x] + f(T \ {x}) /\ h(T) = H[x] + h(T \ {x})
  BY <1>1, SumWithout, FS_Subset
<1>3. {} \in Good
  BY SumOfNone
<1> HIDE DEF f, h
<1>4. ASSUME NEW T \in SUBSET S, NEW x \in T, T \ {x} \in Good PROVE T \in Good
  <2>1. PICK a \in Int, b \in Int : a = f(T \ {x}) /\ b = F[x]
    BY <1>2
  <2>2. k * (a + b) = k * a + k * b
    OBVIOUS
  <2>3. f(T) = b + a /\ h(T) = k * b + k * a
    BY <1>2, <1>4, <2>1
  <2> QED
    BY <2>2, <2>3
<1>5. S \in Good
  <2> HIDE DEF Good
  <2> QED
    BY <1>3, <1>4, SetInduction
<1> QED
  BY <1>5 DEF f, h

\* The larger the members, the larger the sum; equal ones have equal sums.
LEMMA SumAtMost ==
    ASSUME NEW F, NEW G, NEW S, IsFiniteSet(S), \A x \in S : F[x] \in Int /\ G[x] \in Int /\ F[x] <= G[x]
    PROVE  SumFunctionOnSet(F, S) <= SumFunctionOnSet(G, S)
<1> DEFINE f(T) == SumFunctionOnSet(F, T)
           g(T) == SumFunctionOnSet(G, T)
           Good == {T \in SUBSET S : f(T) <= g(T)}
<1>2. ASSUME NEW T \in SUBSET S
      PROVE  /\ f(T) \in Int /\ g(T) \in Int
             /\ \A x \in T : f(T) = F[x] + f(T \ {x}) /\ g(T) = G[x] + g(T \ {x})
  BY SumWithout, FS_Subset
<1>3. {} \in Good
  BY SumOfNone
<1> HIDE DEF f, g
<1>4. ASSUME NEW T \in SUBSET S, NEW x \in T, T \ {x} \in Good PROVE T \in Good
  <2>1. PICK a \in Int, b \in Int : a = f(T \ {x}) /\ b = g(T \ {x})
    BY <1>2
  <2> QED
    BY <1>2, <1>4, <2>1
<1>5. S \in Good
  <2> HIDE DEF Good
  <2> QED
    BY <1>3, <1>4, SetInduction
<1> QED
  BY <1>5 DEF f, g

\* The sum depends on the values alone.
LEMMA SumSame ==
    ASSUME NEW F, NEW G, NEW S, IsFiniteSet(S), \A x \in S : F[x] \in Int /\ F[x] = G[x]
    PROVE  SumFunctionOnSet(F, S) = SumFunctionOnSet(G, S)
<1>1. SumFunctionOnSet(F, S) <= SumFunctionOnSet(G, S) /\ SumFunctionOnSet(G, S) <= SumFunctionOnSet(F, S)
  BY SumAtMost
<1>2. SumFunctionOnSet(F, S) \in Int /\ SumFunctionOnSet(G, S) \in Int
  BY SumWithout
<1> QED
  BY <1>1, <1>2

LEMMA SumOfNothings ==
    ASSUME NEW F, NEW S, IsFiniteSet(S), \A x \in S : F[x] = 0
    PROVE  SumFunctionOnSet(F, S) = 0
<1>1. SumFunctionOnSet(F, S) = 0 * SumFunctionOnSet(F, S)
  BY SumScales
<1> QED
  BY <1>1, SumWithout

\* The sum of a set is that of a part of it if the rest contributes nothing.
LEMMA SumOfPart ==
    ASSUME NEW F, NEW S, IsFiniteSet(S), NEW P, P \subseteq S,
           \A x \in S : F[x] \in Int, \A x \in S \ P : F[x] = 0
    PROVE  SumFunctionOnSet(F, S) = SumFunctionOnSet(F, P)
<1> DEFINE f(T) == SumFunctionOnSet(F, T)
           Good == {T \in SUBSET S : f(T) = f(T \cap P)}
<1>1. ASSUME NEW T \in SUBSET S
      PROVE  f(T) \in Int /\ \A x \in T : f(T) = F[x] + f(T \ {x})
  BY SumWithout, FS_Subset
<1>2. {} \in Good
  OBVIOUS
<1> HIDE DEF f
<1>3. ASSUME NEW T \in SUBSET S, NEW x \in T, T \ {x} \in Good PROVE T \in Good
  <2> DEFINE before == (T \ {x}) \cap P
  <2>1. f(T) = F[x] + f(before) /\ f(before) \in Int
    BY <1>1, <1>3
  <2>2. CASE x \in P
    <3>1. before = (T \cap P) \ {x} /\ x \in T \cap P /\ T \cap P \in SUBSET S
      BY <2>2
    <3>2. f(T \cap P) = F[x] + f((T \cap P) \ {x})
      BY <1>1, <3>1
    <3> QED
      BY <2>1, <3>1, <3>2
  <2>3. CASE x \notin P
    <3>1. before = T \cap P /\ F[x] = 0
      BY <2>3
    <3>2. f(T) = f(before)
      BY <2>1, <3>1
    <3> QED
      BY <3>1, <3>2
  <2> QED
    BY <2>2, <2>3
<1>4. S \in Good
  <2> HIDE DEF Good
  <2> QED
    <3>1. \A T \in SUBSET S : \A x \in T : T \ {x} \in Good => T \in Good
      BY <1>3
    <3>2. \A T \in SUBSET S : T \in Good
      BY <1>2, <3>1, SetInduction
    <3>3. S \in SUBSET S
      OBVIOUS
    <3> QED
      BY <3>2, <3>3
<1>5. S \cap P = P
  OBVIOUS
<1> QED
  BY <1>4, <1>5 DEF f

\* Marks of 1 count, and everything weighed alike is weighed by its number.
LEMMA SumOfEqual ==
    ASSUME NEW F, NEW S, IsFiniteSet(S), NEW k \in Int, \A x \in S : F[x] = k
    PROVE  SumFunctionOnSet(F, S) = k * Cardinality(S)
<1> DEFINE f(T) == SumFunctionOnSet(F, T)
           Good == {T \in SUBSET S : f(T) = k * Cardinality(T)}
<1>1. ASSUME NEW T \in SUBSET S
      PROVE  f(T) \in Int /\ \A x \in T : f(T) = F[x] + f(T \ {x})
  BY SumWithout, FS_Subset
<1>2. {} \in Good
  BY SumOfNone, FS_EmptySet
<1> HIDE DEF f
<1>3. ASSUME NEW T \in SUBSET S, NEW x \in T, T \ {x} \in Good PROVE T \in Good
  <2>1. PICK n \in Int : n = Cardinality(T \ {x}) /\ Cardinality(T) = n + 1
    <3>1. IsFiniteSet(T)
      BY FS_Subset
    <3>2. Cardinality(T) \in Nat /\ Cardinality(T \ {x}) = Cardinality(T) - 1
      BY <3>1, FS_CardinalityType, FS_RemoveElement
    <3> QED
      BY <3>2
  <2>2. f(T) = k + k * n
    BY <1>1, <1>3, <2>1
  <2>3. k + k * n = k * (n + 1)
    OBVIOUS
  <2> QED
    BY <2>1, <2>2, <2>3
<1>4. S \in Good
  <2> HIDE DEF Good
  <2> QED
    BY <1>2, <1>3, SetInduction
<1> QED
  BY <1>4 DEF f

LEMMA SumOfMarks ==
    ASSUME NEW F, NEW S, IsFiniteSet(S), NEW P, P \subseteq S,
           \A x \in S : F[x] = IF x \in P THEN 1 ELSE 0
    PROVE  SumFunctionOnSet(F, S) = Cardinality(P)
<1>1. SumFunctionOnSet(F, S) = SumFunctionOnSet(F, P)
  BY SumOfPart
<1>2. IsFiniteSet(P)
  BY FS_Subset
<1>3. SumFunctionOnSet(F, P) = 1 * Cardinality(P)
  BY <1>2, SumOfEqual
<1> QED
  BY <1>1, <1>2, <1>3, FS_CardinalityType

\* A table has one sum, row by row or column by column.
LEMMA SumSwaps ==
    ASSUME NEW R, IsFiniteSet(R), NEW I, IsFiniteSet(I),
           NEW M, \A r \in R, i \in I : M[<<r, i>>] \in Int
    PROVE  SumFunctionOnSet([r \in R |-> SumFunctionOnSet([i \in I |-> M[<<r, i>>]], I)], R)
           = SumFunctionOnSet([i \in I |-> SumFunctionOnSet([r \in R |-> M[<<r, i>>]], R)], I)
<1> DEFINE Row(r) == [i \in I |-> M[<<r, i>>]]
           Column(i) == [r \in R |-> M[<<r, i>>]]
           Rows == [r \in R |-> SumFunctionOnSet(Row(r), I)]
           Columns(T) == [i \in I |-> SumFunctionOnSet(Column(i), T)]
           Good == {T \in SUBSET R : SumFunctionOnSet(Rows, T) = SumFunctionOnSet(Columns(T), I)}
<1>1. ASSUME NEW r \in R PROVE Rows[r] \in Int
  <2>1. \A i \in I : Row(r)[i] \in Int
    OBVIOUS
  <2>2. SumFunctionOnSet(Row(r), I) \in Int
    BY <2>1, SumWithout
  <2> QED
    BY <2>2
<1>2. ASSUME NEW T \in SUBSET R, NEW i \in I
      PROVE  /\ Columns(T)[i] \in Int
             /\ \A r \in T : Columns(T)[i] = M[<<r, i>>] + Columns(T \ {r})[i]
  <2>1. \A r \in T : Column(i)[r] \in Int /\ Column(i)[r] = M[<<r, i>>]
    OBVIOUS
  <2> DEFINE col == Column(i)
  <2>2. \A U \in SUBSET R : Columns(U)[i] = SumFunctionOnSet(col, U)
    OBVIOUS
  <2> HIDE DEF col
  <2>3. /\ SumFunctionOnSet(col, T) \in Int
        /\ \A r \in T : SumFunctionOnSet(col, T) = col[r] + SumFunctionOnSet(col, T \ {r})
    <3>1. IsFiniteSet(T) /\ \A r \in T : col[r] \in Int
      BY <2>1, FS_Subset DEF col
    <3> QED
      BY <3>1, SumWithout
  <2> HIDE DEF Columns
  <2>4. \A r \in T : col[r] = M[<<r, i>>]
    BY <2>1 DEF col
  <2> QED
    BY <2>2, <2>3, <2>4
<1>3. {} \in Good
  <2>1. \A i \in I : Columns({})[i] = 0
    BY SumOfNone
  <2>2. SumFunctionOnSet(Columns({}), I) = 0
    <3> HIDE DEF Columns
    <3> QED
      BY <2>1, SumOfNothings
  <2> QED
    BY <2>2, SumOfNone
<1>4. ASSUME NEW T \in SUBSET R, NEW r \in T, T \ {r} \in Good PROVE T \in Good
  <2> DEFINE rest == T \ {r}
             row == Row(r)
             all == Columns(T)
             less == Columns(rest)
  <2>1. \A i \in I : row[i] \in Int /\ less[i] \in Int /\ all[i] = row[i] + less[i]
    <3>1. rest \in SUBSET R /\ \A i \in I : row[i] = M[<<r, i>>]
      OBVIOUS
    <3> HIDE DEF Columns, row
    <3> QED
      BY <1>2, <3>1
  <2>2. Rows[r] = SumFunctionOnSet(row, I)
    OBVIOUS
  <2> HIDE DEF Rows, row, all, less
  <2>3. SumFunctionOnSet(all, I) = SumFunctionOnSet(row, I) + SumFunctionOnSet(less, I)
    BY <2>1, SumAdds
  <2>4. SumFunctionOnSet(Rows, T) = Rows[r] + SumFunctionOnSet(Rows, rest)
    BY <1>1, SumWithout, FS_Subset
  <2>5. SumFunctionOnSet(Rows, rest) = SumFunctionOnSet(less, I)
    BY <1>4 DEF less
  <2>6. SumFunctionOnSet(Rows, T) = SumFunctionOnSet(all, I)
    BY <2>2, <2>3, <2>4, <2>5
  <2> QED
    BY <2>6 DEF all
<1>5. R \in Good
  <2> HIDE DEF Good
  <2> QED
    BY <1>3, <1>4, SetInduction
<1> QED
  BY <1>5

\* The sum of a sequence, one more member at a time
LEMMA SumUpTo ==
    ASSUME NEW F, NEW n \in Nat, \A i \in 1..(n + 1) : F[i] \in Int
    PROVE  SumFunctionOnSet(F, 1..(n + 1)) = SumFunctionOnSet(F, 1..n) + F[n + 1]
<1>1. (1..(n + 1)) \ {n + 1} = 1..n /\ n + 1 \in 1..(n + 1)
  OBVIOUS
<1>2. IsFiniteSet(1..n) /\ IsFiniteSet(1..(n + 1))
  BY FS_Interval
<1>3. SumFunctionOnSet(F, 1..(n + 1)) = F[n + 1] + SumFunctionOnSet(F, (1..(n + 1)) \ {n + 1})
  BY <1>1, <1>2, SumWithout
<1>4. SumFunctionOnSet(F, 1..n) \in Int
  <2>1. \A i \in 1..n : F[i] \in Int
    OBVIOUS
  <2> QED
    BY <1>2, <2>1, SumWithout
<1>5. SumFunctionOnSet(F, 1..(n + 1)) = F[n + 1] + SumFunctionOnSet(F, 1..n)
  BY <1>1, <1>3, Zenon
<1> QED
  BY <1>1, <1>4, <1>5

-----------------------------------------------------------------------------
(* Reviews *)

ReviewSpec == HumanReviewInit /\ [][HumanReviewNext]_reviewVars

LogEntry ==
    [type : {"session_created", "annotation_attached", "disagreement_recorded"},
     session_id : ReviewedIds \X Nat, timestamp : Nat,
     data : AnnotationTypes \cup DisagreementSeverity \cup {""}]
ReviewSession == [status : ReviewStatus, annotation_count : Nat, disagreement_count : Nat]
Annotation == [annotation_type : AnnotationTypes, attached_at : Nat]
Disagreement ==
    [severity : {"severe", "moderate"}, recorded_at : Nat, pnl_impact : UNION PnlImpacts]

ReviewTypes ==
    /\ reviewTime \in 0..MaxReviewTime /\ setBack \in BOOLEAN
    /\ allReviews \in Seq(LogEntry) /\ Len(allReviews) <= MaxReviews
    /\ IsFiniteSet(DOMAIN reviewSessions) /\ DOMAIN reviewSessions \subseteq ReviewedIds \X Nat
    /\ \A id \in DOMAIN reviewSessions : reviewSessions[id] \in ReviewSession
    /\ annotations \in [DOMAIN reviewSessions -> Seq(Annotation)]
    /\ disagreements \in [DOMAIN reviewSessions -> Seq(Disagreement)]

CreatedAt(log, id) ==
    {i \in DOMAIN log : log[i].session_id = id /\ log[i].type = "session_created"}

\* A session and what hangs on it are what the log tells of it, from its creation on.
ToldBy(log, id, session, notes, objections) ==
    /\ CreatedAt(log, id) # {}
    /\ session.annotation_count = Replayed(log, id, "annotation_attached")
    /\ session.disagreement_count = Replayed(log, id, "disagreement_recorded")
    /\ Len(notes) = session.annotation_count
    /\ Len(objections) = session.disagreement_count
    /\ (session.status = "created") <=> notes = <<>> /\ objections = <<>>

\* As long as the clock was never set back, the log is in the order of its timestamps.
LogInOrder ==
    ~setBack => /\ \A i \in DOMAIN allReviews : allReviews[i].timestamp <= reviewTime
                /\ \A i, j \in DOMAIN allReviews :
                      i < j => allReviews[i].timestamp <= allReviews[j].timestamp

ReviewInv ==
    /\ ReviewTypes /\ LogInOrder
    /\ \A id \in DOMAIN reviewSessions :
          ToldBy(allReviews, id, reviewSessions[id], annotations[id], disagreements[id])

LEMMA ReviewStart == HumanReviewInit => ReviewInv
<1> SUFFICES ASSUME HumanReviewInit PROVE ReviewInv
  OBVIOUS
<1>1. DOMAIN reviewSessions = {} /\ DOMAIN allReviews = {}
  BY DEF HumanReviewInit
<1>2. ReviewTypes
  <2>2. annotations \in [{} -> Seq(Annotation)] /\ disagreements \in [{} -> Seq(Disagreement)]
    BY DEF HumanReviewInit
  <2>3. reviewTime \in 0..MaxReviewTime
    BY HumanReviewAssumption DEF HumanReviewInit
  <2>4. allReviews \in Seq(LogEntry) /\ Len(allReviews) <= MaxReviews
    BY EmptySeq, HumanReviewAssumption DEF HumanReviewInit
  <2> QED
    BY <1>1, <2>2, <2>3, <2>4, FS_EmptySet DEF ReviewTypes, HumanReviewInit
<1> QED
  BY <1>1, <1>2 DEF ReviewInv, LogInOrder

\* What one more entry of the log changes of the replay of a session
LEMMA ReplayGoesOn ==
    ASSUME allReviews \in Seq(LogEntry), NEW e \in LogEntry, allReviews' = Append(allReviews, e),
           NEW id, NEW type
    PROVE  LET begins == e.session_id = id /\ e.type = "session_created"
           IN  /\ Replayed(allReviews, id, type) \in 0..Len(allReviews)
               /\ CreatedAt(allReviews, id) # {} \/ begins => CreatedAt(allReviews', id) # {}
               /\ begins /\ type # "session_created" => Replayed(allReviews', id, type) = 0
               /\ e.session_id # id => Replayed(allReviews', id, type) = Replayed(allReviews, id, type)
               /\ e.session_id = id /\ ~begins /\ CreatedAt(allReviews, id) # {} =>
                     Replayed(allReviews', id, type) = Replayed(allReviews, id, type) + IF e.type = type THEN 1 ELSE 0
<1> DEFINE n == Len(allReviews)
           begins == e.session_id = id /\ e.type = "session_created"
           old == CreatedAt(allReviews, id)
           new == CreatedAt(allReviews', id)
           heard == {i \in 1..n : allReviews[i].session_id = id /\ allReviews[i].type = type /\ old # {} /\ i > Max(old)}
           tells == {i \in 1..(n + 1) : /\ allReviews'[i].session_id = id /\ allReviews'[i].type = type
                                        /\ new # {} /\ i > Max(new)}
<1>1. /\ n \in Nat /\ DOMAIN allReviews = 1..n /\ DOMAIN allReviews' = 1..(n + 1) /\ allReviews'[n + 1] = e
      /\ \A i \in 1..n : allReviews'[i] = allReviews[i]
  OBVIOUS
<1>2. Replayed(allReviews, id, type) = Cardinality(heard) /\ Replayed(allReviews', id, type) = Cardinality(tells)
  BY <1>1 DEF Replayed, CreatedAt
<1>3. /\ old \subseteq 1..n
      /\ new = old \cup IF begins THEN {n + 1} ELSE {}
  BY <1>1 DEF CreatedAt
<1> HIDE DEF n, old, new
<1>4. IsFiniteSet(heard) /\ Cardinality(heard) \in 0..n
  <2>1. heard \subseteq 1..n /\ IsFiniteSet(1..n) /\ Cardinality(1..n) = n
    <3>1. \A k \in Nat : IsFiniteSet(1..k) /\ Cardinality(1..k) = k
      BY FS_Interval
    <3> QED
      BY <1>1, <3>1
  <2> HIDE DEF heard
  <2>2. IsFiniteSet(heard) /\ Cardinality(heard) <= Cardinality(1..n)
    BY <2>1, FS_Subset
  <2> QED
    BY <2>1, <2>2, <1>1, FS_CardinalityType
<1>5. old # {} => Max(old) \in 1..n
  BY <1>1, <1>3, FirstAndLast
<1>6. CASE begins
  <2>1. new # {} /\ new \subseteq 1..(n + 1) /\ n + 1 \in new /\ n + 1 \in Nat
    BY <1>1, <1>3, <1>6
  <2>2. PICK m \in 1..(n + 1) : m = Max(new) /\ \A x \in new : m >= x
    <3>1. \E x \in new : \A y \in new : x >= y
      BY <2>1
    <3>2. Max(new) \in new /\ \A x \in new : Max(new) >= x
      BY <3>1 DEF Max
    <3> QED
      BY <2>1, <3>2
  <2>3. tells = {}
    <3>1. m = n + 1
      BY <1>1, <2>1, <2>2
    <3> QED
      BY <1>1, <2>2, <3>1
  <2> QED
    BY <1>2, <1>4, <1>6, <2>1, <2>3, FS_EmptySet DEF n, old, new
<1>7. CASE ~begins
  <2>1. new = old
    BY <1>3, <1>7
  <2>2. tells = heard \cup IF e.session_id = id /\ e.type = type /\ old # {} THEN {n + 1} ELSE {}
    BY <1>1, <1>5, <2>1
  <2>3. n + 1 \notin heard
    BY <1>1
  <2>4. Cardinality(heard \cup {n + 1}) = Cardinality(heard) + 1
    BY <1>4, <2>3, FS_AddElement
  <2>5. CreatedAt(allReviews', id) = CreatedAt(allReviews, id)
    BY <2>1 DEF old, new
  <2>6. PICK k \in 0..n : k = Cardinality(heard)
    BY <1>4
  <2> HIDE DEF heard, tells
  <2>7. /\ Replayed(allReviews, id, type) = k
        /\ Replayed(allReviews', id, type) =
              IF e.session_id = id /\ e.type = type /\ old # {} THEN k + 1 ELSE k
    BY <1>2, <2>2, <2>4, <2>6
  <2> QED
    BY <1>1, <1>7, <2>5, <2>6, <2>7 DEF n, old
<1> QED
  BY <1>6, <1>7

\* One entry more: what the log tells of any session before and after it.
LEMMA LogGoesOn ==
    ASSUME allReviews \in Seq(LogEntry), NEW e \in LogEntry, allReviews' = Append(allReviews, e)
    PROVE  \A id : LET old == CreatedAt(allReviews, id)
                       new == CreatedAt(allReviews', id)
                       begins == e.session_id = id /\ e.type = "session_created"
                   IN  /\ old # {} \/ begins => new # {}
                       /\ \A type \in {"annotation_attached", "disagreement_recorded"} :
                             LET before == Replayed(allReviews, id, type)
                                 after == Replayed(allReviews', id, type)
                             IN  /\ before \in Int /\ before <= Len(allReviews)
                                 /\ begins => after = 0
                                 /\ e.session_id # id => after = before
                                 /\ e.session_id = id /\ ~begins /\ old # {} =>
                                       after = IF e.type = type THEN before + 1 ELSE before
<1> SUFFICES ASSUME NEW id, NEW type \in {"annotation_attached", "disagreement_recorded"}
             PROVE  LET old == CreatedAt(allReviews, id)
                        new == CreatedAt(allReviews', id)
                        begins == e.session_id = id /\ e.type = "session_created"
                        before == Replayed(allReviews, id, type)
                        after == Replayed(allReviews', id, type)
                    IN  /\ old # {} \/ begins => new # {}
                        /\ before \in Int /\ before <= Len(allReviews)
                        /\ begins => after = 0
                        /\ e.session_id # id => after = before
                        /\ e.session_id = id /\ ~begins /\ old # {} =>
                              after = IF e.type = type THEN before + 1 ELSE before
  BY Zenon
<1>1. /\ type # "session_created" /\ Len(allReviews) \in Nat
      /\ Replayed(allReviews, id, type) \in 0..Len(allReviews)
  BY ReplayGoesOn
<1>2. PICK k \in Int : k = Replayed(allReviews, id, type) /\ k <= Len(allReviews)
  BY <1>1
<1> DEFINE old == CreatedAt(allReviews, id)
           new == CreatedAt(allReviews', id)
           begins == e.session_id = id /\ e.type = "session_created"
           after == Replayed(allReviews', id, type)
<1>3. /\ old # {} \/ begins => new # {}
      /\ begins => after = 0
      /\ e.session_id # id => after = k
      /\ e.session_id = id /\ ~begins /\ old # {} => after = k + IF e.type = type THEN 1 ELSE 0
  BY <1>1, <1>2, ReplayGoesOn
<1> HIDE DEF old, new, begins, after
<1>4. e.session_id = id /\ ~begins /\ old # {} => after = IF e.type = type THEN k + 1 ELSE k
  BY <1>2, <1>3
<1> QED
  BY <1>2, <1>3, <1>4, Zenon DEF old, new, begins, after

\* A call logs one entry and touches the session that the entry names.
LEMMA CallIsLogged ==
    ASSUME ReviewInv, NEW e \in LogEntry, e.timestamp = reviewTime,
           Len(allReviews) < MaxReviews, allReviews' = Append(allReviews, e),
           UNCHANGED <<reviewTime, setBack>>,
           DOMAIN reviewSessions' = DOMAIN reviewSessions \cup {e.session_id},
           reviewSessions'[e.session_id] \in ReviewSession,
           annotations' \in [DOMAIN reviewSessions' -> Seq(Annotation)],
           disagreements' \in [DOMAIN reviewSessions' -> Seq(Disagreement)],
           \A id \in DOMAIN reviewSessions \ {e.session_id} :
              /\ reviewSessions'[id] = reviewSessions[id]
              /\ annotations'[id] = annotations[id] /\ disagreements'[id] = disagreements[id],
           ToldBy(allReviews', e.session_id, reviewSessions'[e.session_id],
                  annotations'[e.session_id], disagreements'[e.session_id])
    PROVE  ReviewInv'
<1> DEFINE n == Len(allReviews)
           here == e.session_id
<1>1. /\ allReviews \in Seq(LogEntry) /\ n \in Nat /\ DOMAIN allReviews = 1..n
      /\ reviewTime \in Nat /\ MaxReviews \in Nat
  BY HumanReviewAssumption DEF ReviewInv, ReviewTypes
<1>2. /\ allReviews' \in Seq(LogEntry) /\ Len(allReviews') = n + 1 /\ DOMAIN allReviews' = 1..(n + 1)
      /\ allReviews'[n + 1] = e /\ \A i \in 1..n : allReviews'[i] = allReviews[i]
  BY <1>1
<1>3. ReviewTypes'
  <2>1. IsFiniteSet(DOMAIN reviewSessions) /\ DOMAIN reviewSessions \subseteq ReviewedIds \X Nat
        /\ \A id \in DOMAIN reviewSessions : reviewSessions[id] \in ReviewSession
    BY DEF ReviewInv, ReviewTypes
  <2>2. IsFiniteSet(DOMAIN reviewSessions')
    <3>1. IsFiniteSet(DOMAIN reviewSessions \cup {here})
      BY <2>1, FS_AddElement
    <3> QED
      BY <3>1, Zenon
  <2>3. here \in ReviewedIds \X Nat
    BY DEF LogEntry
  <2>4. \A id \in DOMAIN reviewSessions' : reviewSessions'[id] \in ReviewSession
    BY <2>1
  <2>5. Len(allReviews') <= MaxReviews
    BY <1>1, <1>2
  <2>6. (reviewTime \in 0..MaxReviewTime /\ setBack \in BOOLEAN)'
    BY DEF ReviewInv, ReviewTypes
  <2>7. DOMAIN reviewSessions' \subseteq ReviewedIds \X Nat
    BY <2>1, <2>3
  <2> QED
    BY <1>2, <2>2, <2>4, <2>5, <2>6, <2>7 DEF ReviewTypes
<1>4. LogInOrder'
  <2> SUFFICES ASSUME ~setBack
               PROVE  /\ \A i \in 1..(n + 1) : allReviews'[i].timestamp <= reviewTime
                      /\ \A i, j \in 1..(n + 1) :
                            i < j => allReviews'[i].timestamp <= allReviews'[j].timestamp
    BY <1>2 DEF LogInOrder
  <2>1. /\ \A i \in 1..n : allReviews[i].timestamp <= reviewTime
        /\ \A i, j \in 1..n : i < j => allReviews[i].timestamp <= allReviews[j].timestamp
    BY <1>1 DEF ReviewInv, LogInOrder
  <2> HIDE DEF n
  <2>2. \A i \in 1..(n + 1) : i \in 1..n \/ i = n + 1
    BY <1>1
  <2>3. ASSUME NEW i \in 1..(n + 1), NEW j \in 1..(n + 1), i < j
        PROVE  i \in 1..n /\ (j \in 1..n \/ j = n + 1)
    BY <1>1, <2>3
  <2>4. reviewTime <= reviewTime
    BY <1>1
  <2> QED
    BY <1>2, <2>1, <2>2, <2>3, <2>4
<1>5. ASSUME NEW id \in DOMAIN reviewSessions'
      PROVE  ToldBy(allReviews', id, reviewSessions'[id], annotations'[id], disagreements'[id])
  <2> SUFFICES ASSUME id # here
               PROVE  ToldBy(allReviews', id, reviewSessions[id], annotations[id], disagreements[id])
    OBVIOUS
  <2>1. ToldBy(allReviews, id, reviewSessions[id], annotations[id], disagreements[id])
    BY DEF ReviewInv
  <2>2. /\ Replayed(allReviews', id, "annotation_attached")
             = Replayed(allReviews, id, "annotation_attached")
        /\ Replayed(allReviews', id, "disagreement_recorded")
             = Replayed(allReviews, id, "disagreement_recorded")
        /\ CreatedAt(allReviews, id) # {} => CreatedAt(allReviews', id) # {}
    BY <1>1, LogGoesOn
  <2> QED
    BY <2>1, <2>2 DEF ToldBy
<1> QED
  BY <1>3, <1>4, <1>5 DEF ReviewInv

LEMMA ReviewStep == ReviewInv /\ [HumanReviewNext]_reviewVars => ReviewInv'
<1> SUFFICES ASSUME ReviewInv, [HumanReviewNext]_reviewVars PROVE ReviewInv'
  OBVIOUS
<1> DEFINE ids == DOMAIN reviewSessions
<1>1. /\ allReviews \in Seq(LogEntry) /\ reviewTime \in Nat
      /\ \A id \in ids : reviewSessions[id] \in ReviewSession
      /\ annotations \in [ids -> Seq(Annotation)] /\ disagreements \in [ids -> Seq(Disagreement)]
      /\ ids \subseteq ReviewedIds \X Nat
  BY DEF ReviewInv, ReviewTypes
<1>2. ASSUME NEW c \in ReviewedIds, CreateReviewSession(c) PROVE ReviewInv'
  <2> DEFINE id == <<c, reviewTime>>
             e == [type |-> "session_created", session_id |-> id, timestamp |-> reviewTime, data |-> ""]
             session == [status |-> "created", annotation_count |-> 0, disagreement_count |-> 0]
  <2>1. /\ Len(allReviews) < MaxReviews /\ allReviews' = Append(allReviews, e)
        /\ UNCHANGED <<reviewTime, setBack>>
        /\ reviewSessions' = [i \in ids \cup {id} |-> IF i = id THEN session ELSE reviewSessions[i]]
        /\ annotations' = [i \in ids \cup {id} |-> IF i = id THEN <<>> ELSE annotations[i]]
        /\ disagreements' = [i \in ids \cup {id} |-> IF i = id THEN <<>> ELSE disagreements[i]]
    BY <1>1, <1>2 DEF CreateReviewSession, Log, WithEntry
  <2>2. e \in LogEntry /\ e.timestamp = reviewTime /\ e.session_id = id /\ e.type = "session_created"
    BY <1>1 DEF LogEntry
  <2>3. session \in ReviewSession
    BY DEF ReviewSession, ReviewStatus
  <2>4. /\ annotations' \in [ids \cup {id} -> Seq(Annotation)]
        /\ disagreements' \in [ids \cup {id} -> Seq(Disagreement)]
    <3>1. /\ \A i \in ids : annotations[i] \in Seq(Annotation) /\ disagreements[i] \in Seq(Disagreement)
          /\ <<>> \in Seq(Annotation) /\ <<>> \in Seq(Disagreement)
      BY <1>1, EmptySeq
    <3> HIDE DEF id, ids
    <3> QED
      BY <2>1, <3>1
  <2>5. ToldBy(allReviews', id, session, <<>>, <<>>)
    <3> HIDE DEF id, e
    <3>1. /\ Replayed(allReviews', id, "annotation_attached") = 0
          /\ Replayed(allReviews', id, "disagreement_recorded") = 0
          /\ CreatedAt(allReviews', id) # {}
      BY <1>1, <2>1, <2>2, LogGoesOn
    <3> QED
      BY <3>1 DEF ToldBy
  <2> HIDE DEF id, e, session
  <2>6. /\ DOMAIN reviewSessions' = ids \cup {id} /\ reviewSessions'[id] = session
        /\ annotations'[id] = <<>> /\ disagreements'[id] = <<>>
        /\ \A i \in ids \ {id} : /\ reviewSessions'[i] = reviewSessions[i]
                                 /\ annotations'[i] = annotations[i]
                                 /\ disagreements'[i] = disagreements[i]
    BY <2>1
  <2> QED
    BY <2>1, <2>2, <2>3, <2>4, <2>5, <2>6, CallIsLogged
<1>3. ASSUME NEW id \in ids, NEW type \in AnnotationTypes, AttachAnnotation(id, type)
      PROVE  ReviewInv'
  <2> DEFINE e == [type |-> "annotation_attached", session_id |-> id, timestamp |-> reviewTime,
                   data |-> type]
             old == reviewSessions[id]
             session == [status |-> "in_progress", annotation_count |-> old.annotation_count + 1,
                         disagreement_count |-> old.disagreement_count]
             note == [annotation_type |-> type, attached_at |-> reviewTime]
  <2>1. /\ Len(allReviews) < MaxReviews /\ allReviews' = Append(allReviews, e)
        /\ UNCHANGED <<reviewTime, setBack, disagreements>>
        /\ reviewSessions' = [reviewSessions EXCEPT ![id] = session]
        /\ annotations' = [annotations EXCEPT ![id] = Append(annotations[id], note)]
    BY <1>3 DEF AttachAnnotation, Log
  <2>2. e \in LogEntry /\ e.timestamp = reviewTime /\ e.session_id = id /\ e.type = "annotation_attached"
    BY <1>1 DEF LogEntry
  <2>3. session \in ReviewSession /\ session.status # "created"
        /\ session.annotation_count = old.annotation_count + 1
        /\ session.disagreement_count = old.disagreement_count
    BY <1>1 DEF ReviewSession, ReviewStatus
  <2>4. note \in Annotation /\ annotations[id] \in Seq(Annotation)
    BY <1>1 DEF Annotation
  <2> DEFINE notes == Append(annotations[id], note)
  <2>5. notes \in Seq(Annotation) /\ Len(notes) = Len(annotations[id]) + 1 /\ notes # <<>>
    BY <2>4
  <2>6. ToldBy(allReviews, id, old, annotations[id], disagreements[id])
    BY DEF ReviewInv
  <2> HIDE DEF e, session, notes, note, old
  <2>7. ToldBy(allReviews', id, session, notes, disagreements[id])
    <3>1. /\ Replayed(allReviews', id, "annotation_attached")
               = Replayed(allReviews, id, "annotation_attached") + 1
          /\ Replayed(allReviews', id, "disagreement_recorded")
               = Replayed(allReviews, id, "disagreement_recorded")
          /\ CreatedAt(allReviews', id) # {}
          /\ Replayed(allReviews, id, "disagreement_recorded") \in Int
      BY <1>1, <2>1, <2>2, <2>6, LogGoesOn DEF ToldBy
    <3> QED
      BY <2>3, <2>5, <2>6, <3>1 DEF ToldBy
  <2>8. /\ DOMAIN reviewSessions' = ids /\ reviewSessions'[id] = session
        /\ annotations' \in [ids -> Seq(Annotation)] /\ annotations'[id] = notes
        /\ \A i \in ids \ {id} : reviewSessions'[i] = reviewSessions[i] /\ annotations'[i] = annotations[i]
    BY <1>1, <2>1, <2>5 DEF notes
  <2>9. ids = ids \cup {id}
    OBVIOUS
  <2> QED
    BY <1>1, <2>1, <2>2, <2>3, <2>7, <2>8, <2>9, CallIsLogged
<1>4. ASSUME NEW id \in ids, NEW name \in {"severe", "unknown"}, NEW x \in PnlImpacts,
             RecordDisagreement(id, name, x)
      PROVE  ReviewInv'
  <2> DEFINE severity == Severity(name)
             e == [type |-> "disagreement_recorded", session_id |-> id, timestamp |-> reviewTime,
                   data |-> severity]
             old == reviewSessions[id]
             session == [status |-> "in_progress", annotation_count |-> old.annotation_count,
                         disagreement_count |-> old.disagreement_count + 1]
             objection == [severity |-> severity, recorded_at |-> reviewTime,
                           pnl_impact |-> CHOOSE y \in x : TRUE]
  <2>1. /\ Len(allReviews) < MaxReviews /\ allReviews' = Append(allReviews, e)
        /\ UNCHANGED <<reviewTime, setBack, annotations>>
        /\ reviewSessions' = [reviewSessions EXCEPT ![id] = session]
        /\ disagreements' = [disagreements EXCEPT ![id] = Append(disagreements[id], objection)]
    BY <1>4 DEF RecordDisagreement, Log
  <2>2. severity \in {"severe", "moderate"}
    BY DEF Severity, DisagreementSeverity
  <2>3. e \in LogEntry /\ e.timestamp = reviewTime /\ e.session_id = id /\ e.type = "disagreement_recorded"
    BY <1>1, <2>2 DEF LogEntry, DisagreementSeverity
  <2>4. session \in ReviewSession /\ session.status # "created"
        /\ session.annotation_count = old.annotation_count
        /\ session.disagreement_count = old.disagreement_count + 1
    <3>1. old \in ReviewSession
      BY <1>1
    <3> HIDE DEF old
    <3> QED
      BY <3>1 DEF ReviewSession, ReviewStatus
  <2>5. objection \in Disagreement /\ disagreements[id] \in Seq(Disagreement)
    <3>1. (CHOOSE y \in x : TRUE) \in UNION PnlImpacts
      BY <1>4 DEF RecordDisagreement
    <3> QED
      BY <1>1, <2>2, <3>1 DEF Disagreement
  <2> HIDE DEF objection
  <2> DEFINE objections == Append(disagreements[id], objection)
  <2>6. objections \in Seq(Disagreement) /\ Len(objections) = Len(disagreements[id]) + 1 /\ objections # <<>>
    BY <2>5
  <2>7. ToldBy(allReviews, id, old, annotations[id], disagreements[id])
    BY DEF ReviewInv
  <2> HIDE DEF e, session, objections, old
  <2>8. ToldBy(allReviews', id, session, annotations[id], objections)
    <3>1. /\ Replayed(allReviews', id, "disagreement_recorded")
               = Replayed(allReviews, id, "disagreement_recorded") + 1
          /\ Replayed(allReviews', id, "annotation_attached")
               = Replayed(allReviews, id, "annotation_attached")
          /\ CreatedAt(allReviews', id) # {}
          /\ Replayed(allReviews, id, "annotation_attached") \in Int
      BY <1>1, <2>1, <2>3, <2>7, LogGoesOn DEF ToldBy
    <3> QED
      BY <2>4, <2>6, <2>7, <3>1 DEF ToldBy
  <2>9. /\ DOMAIN reviewSessions' = ids /\ reviewSessions'[id] = session
        /\ disagreements' \in [ids -> Seq(Disagreement)] /\ disagreements'[id] = objections
        /\ \A i \in ids \ {id} : /\ reviewSessions'[i] = reviewSessions[i]
                                 /\ disagreements'[i] = disagreements[i]
    BY <1>1, <2>1, <2>6 DEF objections
  <2>10. ids = ids \cup {id}
    OBVIOUS
  <2> QED
    BY <1>1, <2>1, <2>3, <2>4, <2>8, <2>9, <2>10, CallIsLogged
<1>5. CASE ReviewTimePasses
  <2>1. /\ UNCHANGED <<reviewSessions, annotations, disagreements, allReviews>>
        /\ \/ reviewTime' = reviewTime + 1 /\ reviewTime' <= MaxReviewTime /\ UNCHANGED setBack
           \/ reviewTime' = 0 /\ setBack' = TRUE
    BY <1>1, <1>5, HumanReviewAssumption DEF ReviewTimePasses
  <2>2. reviewTime' \in 0..MaxReviewTime
    BY <1>1, <2>1, HumanReviewAssumption
  <2>3. setBack' \in BOOLEAN
    BY <2>1 DEF ReviewInv, ReviewTypes
  <2>4. ReviewTypes'
    BY <2>1, <2>2, <2>3 DEF ReviewInv, ReviewTypes
  <2>5. LogInOrder'
    <3>1. \A i \in DOMAIN allReviews : allReviews[i].timestamp \in Nat
      <4> SUFFICES ASSUME NEW i \in DOMAIN allReviews PROVE allReviews[i].timestamp \in Nat
        OBVIOUS
      <4>1. allReviews[i] \in LogEntry
        BY <1>1
      <4> QED
        BY <4>1 DEF LogEntry
    <3> QED
      BY <1>1, <2>1, <3>1 DEF ReviewInv, LogInOrder
  <2> QED
    BY <2>1, <2>4, <2>5 DEF ReviewInv
<1>6. CASE UNCHANGED reviewVars
  BY <1>6 DEF reviewVars, ReviewInv, ReviewTypes, LogInOrder
<1> QED
  BY <1>2, <1>3, <1>4, <1>5, <1>6 DEF HumanReviewNext

\* Sorting what is in order changes nothing: rank(j) is j.
LEMMA InOrderIsKept ==
    ASSUME ReviewInv, ~setBack
    PROVE  Chronological(allReviews) = allReviews
<1> DEFINE n == Len(allReviews)
           at(i) == allReviews[i].timestamp
           earlier(i, j) == at(i) < at(j) \/ (at(i) = at(j) /\ i < j)
           before(j) == {i \in 1..n : earlier(i, j)}
           rank(j) == Cardinality(before(j)) + 1
<1>1. /\ allReviews \in Seq(LogEntry) /\ n \in Nat /\ DOMAIN allReviews = 1..n
      /\ allReviews = [k \in 1..n |-> allReviews[k]]
  BY DEF ReviewInv, ReviewTypes
<1>2. \A i \in 1..n : at(i) \in Nat
  <2> SUFFICES ASSUME NEW i \in 1..n PROVE at(i) \in Nat
    OBVIOUS
  <2>1. allReviews[i] \in LogEntry
    BY <1>1
  <2> QED
    BY <2>1 DEF LogEntry
<1>3. \A i, j \in 1..n : i < j => at(i) <= at(j)
  BY <1>1 DEF ReviewInv, LogInOrder
<1>4. Chronological(allReviews) = [k \in 1..n |-> allReviews[CHOOSE j \in 1..n : rank(j) = k]]
  <2>1. DOMAIN allReviews = 1..n
    BY <1>1
  <2> HIDE DEF n
  <2> QED
    BY <2>1, SMT DEF Chronological
<1> HIDE DEF n, at
<1>5. ASSUME NEW j \in 1..n PROVE rank(j) = j
  <2>1. ASSUME NEW i \in 1..n PROVE earlier(i, j) <=> i < j
    <3>1. /\ at(i) \in Nat /\ at(j) \in Nat
          /\ i < j => at(i) <= at(j)
          /\ j < i => at(j) <= at(i)
      BY <1>2, <1>3
    <3> QED
      BY <1>1, <3>1
  <2>2. before(j) = 1..(j - 1)
    <3>1. before(j) = {i \in 1..n : i < j}
      BY <2>1
    <3> HIDE DEF before
    <3> QED
      BY <1>1, <3>1
  <2>3. j - 1 \in Nat /\ (j - 1) + 1 = j
    BY <1>1
  <2>4. \A k \in Nat : Cardinality(1..k) = k
    BY FS_Interval
  <2> HIDE DEF before
  <2> QED
    BY <2>2, <2>3, <2>4
<1> HIDE DEF rank
<1>6. ASSUME NEW k \in 1..n PROVE (CHOOSE j \in 1..n : rank(j) = k) = k
  <2>1. rank(CHOOSE j \in 1..n : rank(j) = k) = k /\ (CHOOSE j \in 1..n : rank(j) = k) \in 1..n
    BY <1>5
  <2> QED
    BY <1>5, <2>1
<1>7. [k \in 1..n |-> allReviews[CHOOSE j \in 1..n : rank(j) = k]] = [k \in 1..n |-> allReviews[k]]
  <2> DEFINE place(k) == CHOOSE j \in 1..n : rank(j) = k
  <2>1. \A k \in 1..n : place(k) = k
    BY <1>6
  <2> HIDE DEF place
  <2>2. [k \in 1..n |-> allReviews[place(k)]] = [k \in 1..n |-> allReviews[k]]
    BY <2>1
  <2> QED
    BY <2>2 DEF place
<1> QED
  BY <1>1, <1>4, <1>7, Zenon

LEMMA ReviewTruth == ReviewInv => ReviewsReplay
<1> SUFFICES ASSUME ReviewInv PROVE ReviewsReplay
  OBVIOUS
<1> DEFINE ids == DOMAIN reviewSessions
<1>1. ASSUME NEW id \in ids
      PROVE  ToldBy(allReviews, id, reviewSessions[id], annotations[id], disagreements[id])
  BY DEF ReviewInv
<1>2. LogTellsSessions
  BY <1>1 DEF LogTellsSessions, ToldBy
<1>3. ASSUME ~setBack
      PROVE  /\ \A id \in ids :
                   Len(annotations[id]) = Replayed(allReviews, id, "annotation_attached")
             /\ Total(disagreements) = SumFunction([id \in ids |->
                   Replayed(allReviews, id, "disagreement_recorded")])
             /\ WithSeverity("severe") + WithSeverity("moderate") = Total(disagreements)
  <2> DEFINE total == [id \in ids |-> Len(disagreements[id])]
             heard == [id \in ids |-> Replayed(allReviews, id, "disagreement_recorded")]
             at(id, s) == {i \in DOMAIN disagreements[id] : disagreements[id][i].severity = s}
             severe == [id \in ids |-> Cardinality(at(id, "severe"))]
             moderate == [id \in ids |-> Cardinality(at(id, "moderate"))]
  <2>1. IsFiniteSet(ids) /\ disagreements \in [ids -> Seq(Disagreement)]
    BY DEF ReviewInv, ReviewTypes
  <2>2. DOMAIN disagreements = ids
    BY <2>1
  <2>3. /\ Total(disagreements) = SumFunctionOnSet(total, ids)
        /\ WithSeverity("severe") = SumFunctionOnSet(severe, ids)
        /\ WithSeverity("moderate") = SumFunctionOnSet(moderate, ids)
        /\ SumFunction(heard) = SumFunctionOnSet(heard, ids)
    BY <2>2, Zenon DEF Total, WithSeverity, SumFunction
  <2>4. \A id \in ids : total[id] \in Int /\ total[id] = heard[id]
    BY <1>1, <2>1 DEF ToldBy
  <2>5. ASSUME NEW id \in ids
        PROVE  severe[id] \in Int /\ moderate[id] \in Int /\ total[id] = severe[id] + moderate[id]
    <3> DEFINE n == Len(disagreements[id])
               a == at(id, "severe")
               b == at(id, "moderate")
    <3>1. disagreements[id] \in Seq(Disagreement) /\ n \in Nat /\ DOMAIN disagreements[id] = 1..n
      BY <2>1
    <3>2. \A i \in 1..n : disagreements[id][i].severity \in {"severe", "moderate"}
      <4> SUFFICES ASSUME NEW i \in 1..n
                   PROVE  disagreements[id][i].severity \in {"severe", "moderate"}
        OBVIOUS
      <4>1. disagreements[id][i] \in Disagreement
        BY <3>1
      <4> QED
        BY <4>1 DEF Disagreement
    <3>3. a \cup b = 1..n /\ a \cap b = {}
      BY <3>1, <3>2
    <3> HIDE DEF n
    <3>4. \A k \in Nat : IsFiniteSet(1..k) /\ Cardinality(1..k) = k
      BY FS_Interval
    <3>5. IsFiniteSet(a) /\ IsFiniteSet(b)
      <4>1. a \subseteq 1..n /\ b \subseteq 1..n
        BY <3>3
      <4> HIDE DEF a, b
      <4> QED
        BY <3>1, <3>4, <4>1, FS_Subset
    <3>6. total[id] = n /\ severe[id] = Cardinality(a) /\ moderate[id] = Cardinality(b)
      BY DEF n
    <3> HIDE DEF a, b, total, severe, moderate
    <3>7. Cardinality(a \cup b) = Cardinality(a) + Cardinality(b) - Cardinality(a \cap b)
      BY <3>5, FS_Union
    <3>8. Cardinality(a) \in Nat /\ Cardinality(b) \in Nat /\ Cardinality(a \cap b) = 0
      BY <3>3, <3>5, FS_EmptySet, FS_CardinalityType
    <3>9. Cardinality(a \cup b) = n
      BY <3>1, <3>3, <3>4
    <3> QED
      BY <3>6, <3>7, <3>8, <3>9
  <2> HIDE DEF total, heard, severe, moderate, ids
  <2>6. SumFunctionOnSet(total, ids) = SumFunctionOnSet(heard, ids)
    BY <2>1, <2>4, SumSame
  <2>7. SumFunctionOnSet(total, ids) = SumFunctionOnSet(severe, ids) + SumFunctionOnSet(moderate, ids)
    BY <2>1, <2>5, SumAdds
  <2>8. \A id \in ids : Len(annotations[id]) = Replayed(allReviews, id, "annotation_attached")
    BY <1>1 DEF ToldBy
  <2> QED
    BY <2>3, <2>6, <2>7, <2>8 DEF heard, ids
<1>4. ExportReplays
  <2> SUFFICES ASSUME ~setBack PROVE ExportReplays
    BY DEF ExportReplays
  <2>1. ExportReviewLog.all_reviews_chronological = allReviews
    BY InOrderIsKept DEF ExportReviewLog
  <2>2. /\ SummarizeReviews.total_disagreements = Total(disagreements)
        /\ SummarizeReviews.severities["severe"] = WithSeverity("severe")
        /\ SummarizeReviews.severities["moderate"] = WithSeverity("moderate")
    BY DEF SummarizeReviews, DisagreementSeverity
  <2> QED
    BY <1>3, <2>1, <2>2 DEF ExportReplays
<1> QED
  BY <1>2, <1>4 DEF ReviewsReplay

\* Whatever reviewers do, also two sessions in one instant: the sessions are what the
\* log tells of them, and the exported log replays to them unless the clock was set back.
THEOREM ReviewsAreReplayed == ReviewSpec => []ReviewsReplay
BY ReviewTruth, ReviewStart, ReviewStep, PTL DEF ReviewSpec

-----------------------------------------------------------------------------
(* Archive and memory *)

Recursive(S, N, b, step) ==
    {f \in [0..N -> S] : f[0] = b /\ \A n \in 1..N : f[n] = step[n][f[n - 1]]}

\* A recursive function over 0..N with values in S exists when each step stays in S.
LEMMA RecursionExists ==
    ASSUME NEW S, NEW N \in Nat, NEW b \in S,
           NEW step, \A n \in 1..N : \A s \in S : step[n][s] \in S
    PROVE  Recursive(S, N, b, step) # {}
<1> DEFINE Works(k, f) == f[0] = b /\ \A n \in 1..k : f[n] = step[n][f[n - 1]]
           Good == {k \in Nat : k <= N => \E f \in [0..k -> S] : Works(k, f)}
<1>1. 0 \in Good
  <2>1. [n \in 0..0 |-> b] \in [0..0 -> S] /\ Works(0, [n \in 0..0 |-> b])
    OBVIOUS
  <2> QED
    BY <2>1
<1>2. ASSUME NEW k \in Nat, k \in Good PROVE k + 1 \in Good
  <2> SUFFICES ASSUME k + 1 <= N PROVE \E f \in [0..(k + 1) -> S] : Works(k + 1, f)
    OBVIOUS
  <2>1. PICK f \in [0..k -> S] : Works(k, f)
    BY <1>2
  <2> DEFINE g == [n \in 0..(k + 1) |-> IF n = k + 1 THEN step[k + 1][f[k]] ELSE f[n]]
  <2>2. step[k + 1][f[k]] \in S
    <3>1. f[k] \in S /\ k + 1 \in 1..N
      OBVIOUS
    <3> QED
      BY <3>1
  <2>3. g \in [0..(k + 1) -> S]
    BY <2>2
  <2>4. g[0] = b
    BY <2>1
  <2>5. ASSUME NEW n \in 1..(k + 1) PROVE g[n] = step[n][g[n - 1]]
    <3>1. CASE n = k + 1
      <4>1. n - 1 = k /\ k \in 0..(k + 1) /\ k # k + 1 /\ n \in 0..(k + 1)
        BY <3>1
      <4> QED
        BY <3>1, <4>1
    <3>2. CASE n # k + 1
      <4>1. n \in 1..k /\ n - 1 \in 0..(k + 1) /\ n - 1 # k + 1 /\ n \in 0..(k + 1)
        BY <3>2
      <4>2. f[n] = step[n][f[n - 1]]
        BY <2>1, <4>1
      <4> QED
        BY <3>2, <4>1, <4>2
    <3> QED
      BY <3>1, <3>2
  <2> HIDE DEF g
  <2> QED
    BY <2>3, <2>4, <2>5
<1>3. Nat \subseteq Good
  <2> HIDE DEF Good
  <2> QED
    BY <1>1, <1>2, Induction
<1>4. N \in Good
  <2> HIDE DEF Good
  <2> QED
    BY <1>3
<1> QED
  BY <1>4 DEF Recursive

\* What was chosen out of a sequence
LEMMA Chosen ==
    ASSUME NEW T, NEW s \in Seq(T), NEW kept, kept \subseteq DOMAIN s,
           NEW S, \A i \in kept : s[i] \in S
    PROVE  /\ AtPlaces(s, kept) \in Seq(S) /\ Len(AtPlaces(s, kept)) = Cardinality(kept)
           /\ IsFiniteSet(kept) /\ Cardinality(kept) \in 0..Len(s)
<1>1. DOMAIN s = 1..Len(s) /\ Len(s) \in Nat
  OBVIOUS
<1>2. \A k \in Nat : IsFiniteSet(1..k) /\ Cardinality(1..k) = k
  BY FS_Interval
<1>3. IsFiniteSet(kept) /\ Cardinality(kept) <= Len(s)
  BY <1>1, <1>2, FS_Subset
<1>4. kept \in SUBSET Nat /\ Entries(s, kept) \in SUBSET S
  BY <1>1 DEF Entries
<1> QED
  BY <1>1, <1>3, <1>4, AtPlacesKeeps, FS_CardinalityType

IntelligenceSpec == IntelligenceInit /\ [][IntelligenceNext]_intelligenceVars

Archivable == {r \in Reports : r.correlation_id # {}}

MemoryInv ==
    /\ archive \in Seq(Archivable) /\ Len(archive) <= MaxArchived
    /\ cachedReports \in Seq(Archivable) /\ Len(cachedReports) <= MaxArchived
    /\ MemoryIsAnOldArchive

\* archive_batch() keeps the archive, and adds at most the reports.
LEMMA BatchExtends ==
    ASSUME archive \in Seq(Archivable), NEW reports \in Seq(Reports), ArchiveBatch(reports)
    PROVE  /\ archive' \in Seq(Archivable)
           /\ Len(archive') \in Len(archive)..(Len(archive) + Len(reports))
           /\ \A i \in 1..Len(archive) : archive'[i] = archive[i]
<1> DEFINE N == Len(reports)
           S == Seq(Archivable)
           step == [n \in 1..N |-> [s \in S |-> ArchiveReport(s, reports[n])]]
           Recurs(f) == f = [n \in 0..N |-> IF n = 0 THEN archive
                                            ELSE ArchiveReport(f[n - 1], reports[n])]
           after == CHOOSE f : Recurs(f)
<1>1. /\ N \in Nat /\ \A n \in 1..N : reports[n] \in Reports
      /\ Len(archive) \in Nat /\ archive \in S
  OBVIOUS
<1>2. ASSUME NEW s \in S, NEW n \in 1..N
      PROVE  LET t == ArchiveReport(s, reports[n])
             IN  /\ t \in S /\ Len(t) \in Len(s)..(Len(s) + 1)
                 /\ \A i \in 1..Len(s) : t[i] = s[i]
  BY <1>1 DEF ArchiveReport, Archivable
<1> HIDE DEF N, S
<1>3. \A n \in 1..N : \A s \in S : step[n][s] \in S
  BY <1>2
<1>4. PICK f \in [0..N -> S] : f[0] = archive /\ \A n \in 1..N : f[n] = step[n][f[n - 1]]
  <2> HIDE DEF step
  <2>1. Recursive(S, N, archive, step) # {}
    BY <1>1, <1>3, RecursionExists
  <2> QED
    BY <2>1 DEF Recursive
<1>5. Recurs(f)
  <2>1. ASSUME NEW n \in 1..N PROVE f[n] = ArchiveReport(f[n - 1], reports[n])
    <3>1. f[n - 1] \in S
      BY <1>1, <1>4
    <3> QED
      BY <1>4, <3>1
  <2>2. f = [n \in 0..N |-> f[n]]
    BY <1>4
  <2>3. \A n \in 0..N : n = 0 \/ n \in 1..N
    BY <1>1
  <2> HIDE DEF step
  <2> QED
    BY <1>4, <2>1, <2>2, <2>3
<1>6. Recurs(after)
  <2> HIDE DEF Recurs
  <2> QED
    BY <1>5
<1>7. archive' = after[N]
  BY <1>6, Zenon DEF ArchiveBatch, N
<1> HIDE DEF after
<1> DEFINE Good == {n \in Nat : n <= N => /\ after[n] \in S
                                          /\ Len(after[n]) \in Len(archive)..(Len(archive) + n)
                                          /\ \A i \in 1..Len(archive) : after[n][i] = archive[i]}
<1>8. 0 \in Good
  BY <1>1, <1>6
<1>9. ASSUME NEW n \in Nat, n \in Good PROVE n + 1 \in Good
  <2> SUFFICES ASSUME n + 1 <= N PROVE n + 1 \in Good
    OBVIOUS
  <2>1. n + 1 \in 1..N /\ n + 1 \in 0..N /\ (n + 1) - 1 = n /\ n <= N
    BY <1>1
  <2>2. PICK s \in S : s = after[n]
    BY <1>9, <2>1
  <2>3. after[n + 1] = ArchiveReport(s, reports[n + 1])
    BY <1>6, <2>1, <2>2
  <2>4. /\ after[n + 1] \in S /\ Len(after[n + 1]) \in Len(s)..(Len(s) + 1)
        /\ \A i \in 1..Len(s) : after[n + 1][i] = s[i]
    BY <1>2, <2>1, <2>3
  <2>5. Len(s) \in Len(archive)..(Len(archive) + n) /\ \A i \in 1..Len(archive) : s[i] = archive[i]
    BY <1>9, <2>1, <2>2
  <2>6. Len(after[n + 1]) \in Len(archive)..(Len(archive) + (n + 1))
    BY <1>1, <2>4, <2>5
  <2>7. \A i \in 1..Len(archive) : after[n + 1][i] = archive[i]
    BY <1>1, <2>4, <2>5
  <2> QED
    BY <2>4, <2>6, <2>7
<1>10. N \in Good
  <2> HIDE DEF Good
  <2> QED
    BY <1>1, <1>8, <1>9, Induction
<1> QED
  BY <1>1, <1>7, <1>10 DEF N, S

\* What is fetched is no longer than what it is fetched from.
LEMMA FetchIsASequence ==
    ASSUME NEW s \in Seq(Archivable), NEW id
    PROVE  FetchByCorrelationId(s, id) \in Seq(Archivable) /\ Len(FetchByCorrelationId(s, id)) <= Len(s)
<1> DEFINE kept == {i \in DOMAIN s : s[i].correlation_id = id}
<1>1. kept \subseteq DOMAIN s /\ \A i \in kept : s[i] \in Archivable
  OBVIOUS
<1>2. FetchByCorrelationId(s, id) = AtPlaces(s, kept)
  BY DEF FetchByCorrelationId
<1> HIDE DEF kept
<1>3. AtPlaces(s, kept) \in Seq(Archivable) /\ Len(AtPlaces(s, kept)) \in 0..Len(s)
  BY <1>1, Chosen
<1> QED
  BY <1>2, <1>3

LEMMA MemoryStart == IntelligenceInit => MemoryInv
<1> SUFFICES ASSUME IntelligenceInit PROVE MemoryInv
  OBVIOUS
<1>1. archive = <<>> /\ cachedReports = <<>> /\ fetched = {}
  BY DEF IntelligenceInit
<1>2. MemoryIsAnOldArchive
  <2>1. 0 \in 0..Len(archive) /\ SubSeq(archive, 1, 0) = <<>>
    BY <1>1
  <2> QED
    BY <1>1, <2>1 DEF MemoryIsAnOldArchive
<1>3. <<>> \in Seq(Archivable) /\ Len(<<>>) = 0 /\ MaxArchived \in Nat
  BY EmptySeq, IntelligenceAssumption
<1> QED
  BY <1>1, <1>2, <1>3 DEF MemoryInv

\* A batch leaves what was fetched a beginning of the archive.
LEMMA BatchStep ==
    ASSUME MemoryInv, NEW reports \in Seq(Reports), ArchiveBatch(reports)
    PROVE  MemoryInv'
<1>1. archive \in Seq(Archivable) /\ Len(archive) \in Nat /\ Len(reports) \in Nat /\ MaxArchived \in Nat
  BY IntelligenceAssumption DEF MemoryInv
<1>2. /\ archive' \in Seq(Archivable)
      /\ Len(archive') \in Len(archive)..(Len(archive) + Len(reports))
      /\ \A i \in 1..Len(archive) : archive'[i] = archive[i]
  BY <1>1, BatchExtends
<1>3. Len(archive) + Len(reports) <= MaxArchived /\ UNCHANGED <<cachedReports, fetched>>
  BY DEF ArchiveBatch
<1>4. MemoryIsAnOldArchive'
  <2>1. PICK n \in 0..Len(archive) :
           cachedReports = IF fetched = {} THEN SubSeq(archive, 1, n)
                           ELSE FetchByCorrelationId(SubSeq(archive, 1, n), fetched)
    BY DEF MemoryInv, MemoryIsAnOldArchive
  <2>2. n \in 0..Len(archive') /\ SubSeq(archive', 1, n) = SubSeq(archive, 1, n)
    <3>1. SubSeq(archive, 1, n) = [i \in 1..n |-> archive[i]]
      BY <1>1
    <3>2. SubSeq(archive', 1, n) = [i \in 1..n |-> archive'[i]]
      BY <1>1, <1>2
    <3>3. \A i \in 1..n : archive'[i] = archive[i]
      BY <1>1, <1>2
    <3> QED
      BY <1>1, <1>2, <3>1, <3>2, <3>3
  <2> QED
    BY <1>3, <2>1, <2>2 DEF MemoryIsAnOldArchive
<1> QED
  BY <1>1, <1>2, <1>3, <1>4 DEF MemoryInv

LEMMA MemoryStep == MemoryInv /\ [IntelligenceNext]_intelligenceVars => MemoryInv'
<1> SUFFICES ASSUME MemoryInv, [IntelligenceNext]_intelligenceVars PROVE MemoryInv'
  OBVIOUS
<1>1. ASSUME NEW r \in Reports, ArchiveBatch(<<r>>) PROVE MemoryInv'
  <2>1. <<r>> \in Seq(Reports)
    OBVIOUS
  <2> QED
    BY <1>1, <2>1, BatchStep
<1>2. ASSUME NEW q \in Reports, NEW r \in Reports, ArchiveBatch(<<q, r>>) PROVE MemoryInv'
  <2>1. <<q, r>> \in Seq(Reports)
    OBVIOUS
  <2> QED
    BY <1>2, <2>1, BatchStep
<1>3. ASSUME NEW id, LoadFromArchive(id) PROVE MemoryInv'
  <2>1. archive \in Seq(Archivable) /\ Len(archive) \in Nat /\ Len(archive) <= MaxArchived
        /\ MaxArchived \in Nat
    BY IntelligenceAssumption DEF MemoryInv
  <2>2. /\ archive' = archive /\ fetched' = id
        /\ cachedReports' = IF id = {} THEN archive ELSE FetchByCorrelationId(archive, id)
    BY <1>3 DEF LoadFromArchive
  <2>3. SubSeq(archive, 1, Len(archive)) = archive /\ Len(archive) \in 0..Len(archive)
    BY <2>1
  <2>4. MemoryIsAnOldArchive'
    BY <2>2, <2>3 DEF MemoryIsAnOldArchive
  <2>5. FetchByCorrelationId(archive, id) \in Seq(Archivable)
        /\ Len(FetchByCorrelationId(archive, id)) <= Len(archive)
        /\ Len(FetchByCorrelationId(archive, id)) \in Nat
    BY <2>1, FetchIsASequence
  <2>6. cachedReports' \in Seq(Archivable) /\ Len(cachedReports') <= MaxArchived
    BY <2>1, <2>2, <2>5
  <2> QED
    BY <2>1, <2>2, <2>4, <2>6 DEF MemoryInv
<1>4. CASE UNCHANGED intelligenceVars
  BY <1>4 DEF intelligenceVars, MemoryInv, MemoryIsAnOldArchive
<1> QED
  BY <1>1, <1>2, <1>3, <1>4 DEF IntelligenceNext

\* The numbers that are known are a sequence of them.
LEMMA NumbersAreASequence ==
    ASSUME NEW S, NEW s \in Seq(SUBSET S)
    PROVE  Numbers(s) \in Seq(S)
<1> DEFINE places == {i \in DOMAIN s : s[i] # {}}
           some == {x \in SUBSET S : x # {}}
           known == AtPlaces(s, places)
<1>1. places \subseteq DOMAIN s /\ \A i \in places : s[i] \in some
  <2>1. \A i \in DOMAIN s : s[i] \in SUBSET S
    OBVIOUS
  <2>2. \A i \in places : i \in DOMAIN s /\ s[i] # {}
    OBVIOUS
  <2> QED
    BY <2>1, <2>2
<1> HIDE DEF places, some
<1>2. known \in Seq(some)
  BY <1>1, Chosen
<1>3. Numbers(s) = [i \in DOMAIN known |-> CHOOSE x \in known[i] : TRUE]
  BY DEF Numbers, places
<1> HIDE DEF known
<1>4. \A i \in DOMAIN known : (CHOOSE x \in known[i] : TRUE) \in S
  <2> SUFFICES ASSUME NEW i \in DOMAIN known PROVE (CHOOSE x \in known[i] : TRUE) \in S
    OBVIOUS
  <2>1. known[i] \in some
    BY <1>2
  <2>2. known[i] \in SUBSET S /\ known[i] # {}
    BY <2>1, Zenon DEF some
  <2>3. \E x \in known[i] : TRUE
    BY <2>2
  <2>4. (CHOOSE x \in known[i] : TRUE) \in known[i]
    BY <2>3, Zenon
  <2> QED
    BY <2>2, <2>4
<1>5. DOMAIN known = 1..Len(known) /\ Len(known) \in Nat
  BY <1>2
<1> QED
  BY <1>3, <1>4, <1>5

\* What is within bounds
LEMMA WithinBounds ==
    ASSUME NEW S, NEW s \in Seq(S), NEW bounds
    PROVE  /\ Within(s, bounds) \in Seq(bounds)
           /\ (\A i \in DOMAIN s : s[i] \in bounds) => Within(s, bounds) = s
<1> DEFINE kept == {i \in DOMAIN s : s[i] \in bounds}
<1>1. kept \subseteq DOMAIN s /\ \A i \in kept : s[i] \in bounds
  OBVIOUS
<1>2. (\A i \in DOMAIN s : s[i] \in bounds) => kept = DOMAIN s
  OBVIOUS
<1>3. Within(s, bounds) = AtPlaces(s, kept)
  BY DEF Within
<1> HIDE DEF kept
<1> QED
  BY <1>1, <1>2, <1>3, Chosen, AllPlaces

LEMMA TrendsDoAgree == MemoryInv => TrendsAgree
<1> SUFFICES ASSUME MemoryInv, cachedReports = archive, \A r \in ToSet(archive) : r.confidence \subseteq 0..100
             PROVE  /\ ComputeTrends = {} => ArchiveTrends.sum = 0 /\ ArchiveTrends.max = 0
                    /\ \A t \in ComputeTrends : [ArchiveTrends EXCEPT !.total = t.count] =
                          [total |-> t.count, sum |-> t.sum, min |-> t.min, max |-> t.max]
  BY DEF TrendsAgree
<1> DEFINE optional == [i \in DOMAIN archive |-> archive[i].confidence]
           c == Confidences(archive)
           bounds == 0..100
<1>1. archive \in Seq(Archivable) /\ Len(archive) \in Nat /\ DOMAIN archive = 1..Len(archive)
  BY DEF MemoryInv
<1>2. optional \in Seq(SUBSET bounds)
  <2>1. \A i \in DOMAIN archive : archive[i].confidence \in SUBSET bounds
    BY <1>1 DEF ToSet
  <2> HIDE DEF bounds
  <2> QED
    BY <1>1, <2>1
<1>3. c = Numbers(optional)
  BY DEF Confidences
<1> HIDE DEF c, optional, bounds
<1>4. c \in Seq(bounds)
  BY <1>2, <1>3, NumbersAreASequence
<1>5. Within(c, bounds) = c
  <2>1. \A i \in DOMAIN c : c[i] \in bounds
    BY <1>4
  <2> QED
    BY <1>4, <2>1, WithinBounds
<1>6. ComputeTrends = Statistics(c)
  BY <1>5, Zenon DEF ComputeTrends, c, bounds
<1>7. ArchiveTrends = [total |-> Len(archive), sum |-> SumSeq(c),
                       min |-> IF c = <<>> THEN 0 ELSE Min(ToSet(c)),
                       max |-> IF c = <<>> THEN 0 ELSE Max(ToSet(c))]
  BY Zenon DEF ArchiveTrends, c
<1>8. CASE c = <<>>
  <2>1. SumSeq(c) = 0
    <3>1. DOMAIN c = {}
      BY <1>8
    <3> QED
      BY <3>1, SumOfNone, Zenon DEF SumSeq, SumFunction
  <2>2. ComputeTrends = {}
    BY <1>6, <1>8 DEF Statistics
  <2> QED
    BY <1>7, <1>8, <2>1, <2>2
<1>9. CASE c # <<>>
  <2>1. ComputeTrends = {[count |-> Len(c), sum |-> SumSeq(c), min |-> Min(ToSet(c)), max |-> Max(ToSet(c))]}
    BY <1>6, <1>9, Zenon DEF Statistics
  <2>2. ArchiveTrends = [total |-> Len(archive), sum |-> SumSeq(c), min |-> Min(ToSet(c)), max |-> Max(ToSet(c))]
    BY <1>7, <1>9, Zenon
  <2> SUFFICES ASSUME NEW t \in ComputeTrends
               PROVE  [ArchiveTrends EXCEPT !.total = t.count] =
                          [total |-> t.count, sum |-> t.sum, min |-> t.min, max |-> t.max]
    BY <2>1
  <2> DEFINE sum == SumSeq(c)
             lo == Min(ToSet(c))
             hi == Max(ToSet(c))
  <2>3. t = [count |-> Len(c), sum |-> sum, min |-> lo, max |-> hi]
    BY <2>1
  <2>4. ArchiveTrends = [total |-> Len(archive), sum |-> sum, min |-> lo, max |-> hi]
    BY <2>2
  <2> HIDE DEF sum, lo, hi
  <2> QED
    BY <2>3, <2>4
<1> QED
  BY <1>8, <1>9

-----------------------------------------------------------------------------
(* Decay sequences *)

\* The windows of three falling members of c, and its longest falling runs
Falls(c, i, j) == \A k \in i..(j - 1) : c[k] > c[k + 1]
Windows(c) == {i \in 1..(Len(c) - 2) : c[i] > c[i + 1] /\ c[i + 1] > c[i + 2]}
Longest(c, i, j) ==
    /\ j >= i + 2 /\ Falls(c, i, j)
    /\ i > 1 => ~Falls(c, i - 1, j)
    /\ j < Len(c) => ~Falls(c, i, j + 1)
RunsOf(c) == {run \in (1..Len(c)) \X (1..Len(c)) : Longest(c, run[1], run[2])}
Covers(run, i) == run[1] <= i /\ i + 2 <= run[2]

\* Every window lies in a longest run,
LEMMA WindowIsCovered ==
    ASSUME NEW c \in Seq(Int), NEW i \in Windows(c)
    PROVE  \E run \in RunsOf(c) : Covers(run, i)
<1> DEFINE n == Len(c)
           starts == {a \in 1..i : Falls(c, a, i + 2)}
<1>1. n \in Nat /\ i \in 1..n /\ i + 2 \in 1..n /\ c[i] > c[i + 1] /\ c[i + 1] > c[i + 2]
  BY DEF Windows
<1>2. Falls(c, i, i + 2)
  <2>1. \A k \in i..((i + 2) - 1) : k = i \/ k = i + 1
    BY <1>1
  <2>2. (i + 1) + 1 = i + 2
    BY <1>1
  <2> QED
    BY <1>1, <2>1, <2>2 DEF Falls
<1> HIDE DEF n
<1>3. PICK a \in starts : \A b \in starts : a <= b
  <2>1. starts \subseteq Nat /\ i \in starts
    BY <1>1, <1>2
  <2> HIDE DEF starts
  <2> QED
    BY <2>1, LeastOfSome
<1>4. a \in 1..i /\ a \in Int /\ Falls(c, a, i + 2)
  BY <1>1, <1>3
<1> DEFINE ends == {b \in (i + 2)..n : Falls(c, a, b)}
           b == Max(ends)
<1>5. b \in ends /\ \A k \in ends : k <= b
  <2>1. i + 2 \in ends
    BY <1>1, <1>4
  <2>2. ends \in SUBSET (0..n)
    BY <1>1
  <2> HIDE DEF ends
  <2> QED
    BY <1>1, <2>1, <2>2, GreatestOf
<1> HIDE DEF b
<1>6. b \in Int /\ b >= i + 2 /\ b <= n /\ Falls(c, a, b)
  BY <1>1, <1>5
<1>7. ASSUME a > 1, Falls(c, a - 1, b) PROVE FALSE
  <2>1. Falls(c, a - 1, i + 2)
    BY <1>1, <1>4, <1>6, <1>7 DEF Falls
  <2>2. a - 1 \in starts
    BY <1>1, <1>4, <1>7, <2>1
  <2>3. a <= a - 1
    BY <1>3, <2>2
  <2> QED
    BY <1>4, <2>3
<1>8. ASSUME b < n, Falls(c, a, b + 1) PROVE FALSE
  <2>1. b + 1 \in ends
    BY <1>1, <1>6, <1>8
  <2>2. b + 1 <= b
    BY <1>5, <2>1
  <2> QED
    BY <1>6, <2>2
<1>9. Longest(c, a, b)
  BY <1>1, <1>4, <1>6, <1>7, <1>8 DEF Longest, n
<1>10. a \in 1..n /\ b \in 1..n
  BY <1>1, <1>4, <1>6
<1>11. <<a, b>> \in RunsOf(c) /\ Covers(<<a, b>>, i)
  BY <1>1, <1>4, <1>6, <1>9, <1>10, SMTT(30) DEF RunsOf, Covers, n
<1> QED
  BY <1>11

\* in one only,
LEMMA WindowInOneRun ==
    ASSUME NEW c \in Seq(Int), NEW i \in 1..Len(c), NEW p \in RunsOf(c), NEW q \in RunsOf(c),
           Covers(p, i), Covers(q, i)
    PROVE  p[1] >= q[1] /\ p[2] <= q[2]
<1> DEFINE a == p[1]
           b == p[2]
           e == q[1]
           f == q[2]
<1>1. /\ a \in 1..Len(c) /\ b \in 1..Len(c) /\ Longest(c, a, b)
      /\ e \in 1..Len(c) /\ f \in 1..Len(c) /\ Longest(c, e, f)
      /\ a <= i /\ i + 2 <= b /\ e <= i /\ i + 2 <= f /\ Len(c) \in Nat
  BY DEF RunsOf, Covers
<1> HIDE DEF a, b, e, f
<1>2. \A k \in a..(b - 1) : c[k] > c[k + 1]
  BY <1>1 DEF Longest, Falls
<1>3. \A k \in e..(f - 1) : c[k] > c[k + 1]
  BY <1>1 DEF Longest, Falls
<1>4. ASSUME a < e PROVE FALSE
  <2>1. Falls(c, e - 1, f)
    <3> SUFFICES ASSUME NEW k \in (e - 1)..(f - 1) PROVE c[k] > c[k + 1]
      BY DEF Falls
    <3>1. CASE k = e - 1
      <4>1. k \in a..(b - 1)
        BY <1>1, <1>4, <3>1
      <4> QED
        BY <1>2, <4>1
    <3>2. CASE k # e - 1
      <4>1. k \in e..(f - 1)
        BY <1>1, <3>2
      <4> QED
        BY <1>3, <4>1
    <3> QED
      BY <3>1, <3>2
  <2>2. e > 1
    BY <1>1, <1>4
  <2> QED
    BY <1>1, <2>1, <2>2 DEF Longest
<1>5. ASSUME f < b PROVE FALSE
  <2>1. Falls(c, e, f + 1)
    <3> SUFFICES ASSUME NEW k \in e..((f + 1) - 1) PROVE c[k] > c[k + 1]
      BY DEF Falls
    <3>1. CASE k = f
      <4>1. k \in a..(b - 1)
        BY <1>1, <1>5, <3>1
      <4> QED
        BY <1>2, <4>1
    <3>2. CASE k # f
      <4>1. k \in e..(f - 1)
        BY <1>1, <3>2
      <4> QED
        BY <1>3, <4>1
    <3> QED
      BY <3>1, <3>2
  <2>2. f < Len(c)
    BY <1>1, <1>5
  <2> QED
    BY <1>1, <2>1, <2>2 DEF Longest
<1>6. a >= e /\ b <= f
  BY <1>1, <1>4, <1>5
<1> QED
  BY <1>6 DEF a, b, e, f

\* and the runs hold nothing else.
LEMMA RunHoldsWindows ==
    ASSUME NEW c \in Seq(Int), NEW run \in RunsOf(c), NEW i \in 1..Len(c), Covers(run, i)
    PROVE  i \in Windows(c)
<1>1. /\ Longest(c, run[1], run[2]) /\ run[1] \in 1..Len(c) /\ run[2] \in 1..Len(c)
      /\ run[1] <= i /\ i + 2 <= run[2] /\ Len(c) \in Nat
  BY DEF RunsOf, Covers
<1>2. \A k \in run[1]..(run[2] - 1) : c[k] > c[k + 1]
  BY <1>1 DEF Longest, Falls
<1>3. i \in run[1]..(run[2] - 1) /\ i + 1 \in run[1]..(run[2] - 1) /\ (i + 1) + 1 = i + 2
      /\ i \in 1..(Len(c) - 2)
  BY <1>1, SMTT(30)
<1> QED
  BY <1>2, <1>3 DEF Windows

\* So the runs add up to the windows.
LEMMA RunsCountWindows ==
    ASSUME NEW c \in Seq(Int)
    PROVE  Cardinality(Windows(c)) = SumFunctionOnSet([run \in RunsOf(c) |-> run[2] - run[1] - 1], RunsOf(c))
<1> DEFINE R == RunsOf(c)
           I == 1..Len(c)
           W == Windows(c)
           M == [x \in R \X I |-> IF Covers(x[1], x[2]) THEN 1 ELSE 0]
           row(r) == [i \in I |-> M[<<r, i>>]]
           column(i) == [r \in R |-> M[<<r, i>>]]
           long == [run \in R |-> run[2] - run[1] - 1]
           rows == [r \in R |-> SumFunctionOnSet([i \in I |-> M[<<r, i>>]], I)]
           columns == [i \in I |-> SumFunctionOnSet([r \in R |-> M[<<r, i>>]], R)]
<1>1. Len(c) \in Nat /\ IsFiniteSet(I)
  <2>1. \A k \in Nat : IsFiniteSet(1..k)
    BY FS_Interval
  <2> QED
    BY <2>1
<1>2. IsFiniteSet(R)
  <2>1. IsFiniteSet(I \X I)
    BY <1>1, FS_Product
  <2>2. R \subseteq I \X I
    BY DEF RunsOf
  <2> HIDE DEF R, I
  <2> QED
    BY <2>1, <2>2, FS_Subset
<1>3. W \subseteq I
  BY <1>1 DEF Windows
<1>4. \A r \in R : r[1] \in I /\ r[2] \in I /\ r[2] >= r[1] + 2 /\ r = <<r[1], r[2]>>
  BY DEF RunsOf, Longest
<1>5. \A r \in R, i \in I : M[<<r, i>>] \in Int /\ M[<<r, i>>] = IF Covers(r, i) THEN 1 ELSE 0
  <2> SUFFICES ASSUME NEW r \in R, NEW i \in I
               PROVE  M[<<r, i>>] \in Int /\ M[<<r, i>>] = IF Covers(r, i) THEN 1 ELSE 0
    OBVIOUS
  <2>1. <<r, i>> \in R \X I /\ <<r, i>>[1] = r /\ <<r, i>>[2] = i
    OBVIOUS
  <2> HIDE DEF R, I
  <2>2. M[<<r, i>>] = IF Covers(r, i) THEN 1 ELSE 0
    BY <2>1
  <2> QED
    BY <2>2
<1> HIDE DEF R, I, W, M
<1>6. \A r \in R : rows[r] = long[r] /\ long[r] \in Int
  <2> SUFFICES ASSUME NEW r \in R PROVE rows[r] = long[r] /\ long[r] \in Int
    OBVIOUS
  <2> DEFINE P == r[1]..(r[2] - 2)
  <2>1. r[1] \in Int /\ r[2] \in Int /\ r[2] >= r[1] + 2 /\ r[1] >= 1 /\ r[2] <= Len(c)
    BY <1>4 DEF I
  <2>2. P \subseteq I
    BY <1>1, <2>1, SMTT(30) DEF I
  <2>3. \A i \in I : i \in P <=> Covers(r, i)
    BY <1>1, <2>1, SMTT(30) DEF Covers, I
  <2>4. Cardinality(P) = r[2] - r[1] - 1
    <3>1. r[2] - 2 \in Int /\ ~(r[1] > r[2] - 2)
      BY <2>1
    <3>2. Cardinality(P) = (r[2] - 2) - r[1] + 1
      BY <2>1, <3>1, FS_Interval
    <3> QED
      BY <2>1, <3>2
  <2> DEFINE f == row(r)
  <2>5. \A i \in I : f[i] = IF i \in P THEN 1 ELSE 0
    <3> HIDE DEF P
    <3> QED
      BY <1>5, <2>3
  <2>6. rows[r] = SumFunctionOnSet(f, I)
    OBVIOUS
  <2>7. long[r] = r[2] - r[1] - 1
    OBVIOUS
  <2> HIDE DEF f, P, rows, long
  <2>8. SumFunctionOnSet(f, I) = Cardinality(P)
    BY <1>1, <2>2, <2>5, SumOfMarks
  <2>9. r[2] - r[1] - 1 \in Int
    BY <2>1
  <2> QED
    BY <2>4, <2>6, <2>7, <2>8, <2>9
<1>7. \A i \in I : columns[i] = IF i \in W THEN 1 ELSE 0
  <2> SUFFICES ASSUME NEW i \in I PROVE columns[i] = IF i \in W THEN 1 ELSE 0
    OBVIOUS
  <2> DEFINE P == {r \in R : Covers(r, i)}
             f == column(i)
  <2>1. \A r \in R : f[r] = IF r \in P THEN 1 ELSE 0
    BY <1>5
  <2>2. columns[i] = SumFunctionOnSet(f, R)
    OBVIOUS
  <2>3. P \subseteq R
    OBVIOUS
  <2> HIDE DEF f, columns
  <2>4. SumFunctionOnSet(f, R) = Cardinality(P)
    <3> HIDE DEF P
    <3> QED
      BY <1>2, <2>1, <2>3, SumOfMarks
  <2>5. CASE i \in W
    <3>1. PICK p \in R : Covers(p, i)
      BY <2>5, WindowIsCovered DEF R, W
    <3>2. \A q \in P : q = p
      <4> SUFFICES ASSUME NEW q \in P PROVE q = p
        OBVIOUS
      <4>1. q \in R /\ Covers(q, i)
        OBVIOUS
      <4>2. p[1] >= q[1] /\ p[2] <= q[2] /\ q[1] >= p[1] /\ q[2] <= p[2]
        BY <3>1, <4>1, WindowInOneRun DEF R, I
      <4>3. q[1] \in Int /\ q[2] \in Int /\ p[1] \in Int /\ p[2] \in Int
        BY <1>4, <3>1, <4>1 DEF I
      <4>4. q[1] = p[1] /\ q[2] = p[2]
        BY <4>2, <4>3
      <4>5. q = <<q[1], q[2]>> /\ p = <<p[1], p[2]>>
        BY <1>4, <3>1, <4>1
      <4> QED
        BY <4>4, <4>5, Zenon
    <3>3. P = {p}
      BY <3>1, <3>2
    <3>4. Cardinality({p}) = 1
      BY FS_Singleton
    <3> QED
      BY <2>2, <2>4, <2>5, <3>3, <3>4
  <2>6. CASE i \notin W
    <3>1. P = {}
      BY <2>6, RunHoldsWindows DEF R, I, W
    <3>2. Cardinality(P) = 0
      BY <3>1, FS_EmptySet
    <3> QED
      BY <2>2, <2>4, <2>6, <3>2
  <2> QED
    BY <2>5, <2>6
<1>8. SumFunctionOnSet(rows, R) = SumFunctionOnSet(columns, I)
  <2>1. \A r \in R, i \in I : M[<<r, i>>] \in Int
    BY <1>5
  <2> QED
    BY <1>1, <1>2, <2>1, SumSwaps
<1> HIDE DEF rows, columns, long
<1>9. SumFunctionOnSet(long, R) = SumFunctionOnSet(rows, R)
  <2>1. \A r \in R : long[r] \in Int /\ long[r] = rows[r]
    BY <1>6
  <2> QED
    BY <1>2, <2>1, SumSame
<1>10. SumFunctionOnSet(columns, I) = Cardinality(W)
  BY <1>1, <1>3, <1>7, SumOfMarks
<1>11. Cardinality(W) = SumFunctionOnSet(long, R)
  BY <1>8, <1>9, <1>10, Zenon
<1> QED
  BY <1>11 DEF W, long, R

LEMMA DecaysAreRuns == MemoryInv => DecaySequencesAreRuns
<1> SUFFICES ASSUME MemoryInv PROVE DecaySequencesAreRuns
  OBVIOUS
<1> DEFINE optional == [i \in DOMAIN cachedReports |-> cachedReports[i].confidence]
           c == Confidences(cachedReports)
           runs == RunsOf(c)
           long == [run \in runs |-> run[2] - run[1] - 1]
<1>1. optional \in Seq(SUBSET Int)
  <2>1. cachedReports \in Seq(Archivable)
    BY DEF MemoryInv
  <2>2. \A i \in DOMAIN cachedReports : cachedReports[i].confidence \in SUBSET Int
    BY <2>1, IntelligenceAssumption DEF Archivable
  <2> QED
    BY <2>1, <2>2
<1>2. c = Numbers(optional)
  BY DEF Confidences
<1> HIDE DEF c, optional
<1>3. c \in Seq(Int)
  BY <1>1, <1>2, NumbersAreASequence
<1>4. ConfidenceDecaySequences = Windows(c)
  BY Zenon DEF ConfidenceDecaySequences, Windows, c
<1>5. Cardinality(Windows(c)) = SumFunction(long)
  <2>1. DOMAIN long = runs
    OBVIOUS
  <2>2. SumFunction(long) = SumFunctionOnSet(long, runs)
    BY <2>1, Zenon DEF SumFunction
  <2> QED
    BY <1>3, <2>2, RunsCountWindows
<1>6. Cardinality(ConfidenceDecaySequences) = SumFunction(long)
  BY <1>4, <1>5, Zenon
<1> QED
  BY <1>6, Zenon DEF DecaySequencesAreRuns, RunsOf, Longest, Falls, c

-----------------------------------------------------------------------------
(* Clusters: the regrets against their mean, both multiplied out *)

Squares(x) == [i \in DOMAIN x |-> x[i] * x[i]]
Deviation(x) ==
    [i \in DOMAIN x |-> Cardinality(DOMAIN x) * x[i] - SumFunctionOnSet(x, DOMAIN x)]

\* The square of a deviation, and what such squares come to, multiplied out.
LEMMA SquareOfSum ==
    \A n, x, s \in Int : (n * x - s) * (n * x - s) = (n * n) * (x * x) + ((-2 * n * s) * x + s * s)
OBVIOUS

LEMMA SpreadSum ==
    \A n, q, s \in Int : (n * n) * q + ((-2 * n * s) * s + (s * s) * n) = n * (n * q - s * s)
OBVIOUS

\* The deviations cancel out, and their squares add up to the spread.
LEMMA DeviationsAddUp ==
    ASSUME NEW I, IsFiniteSet(I), NEW x \in [I -> Int]
    PROVE  /\ Deviation(x) \in [I -> Int] /\ SumFunctionOnSet(Deviation(x), I) = 0
           /\ SumFunctionOnSet(x, I) \in Int /\ SumFunctionOnSet(Squares(x), I) \in Int
           /\ SumFunctionOnSet(Squares(Deviation(x)), I) =
                  Cardinality(I) * (Cardinality(I) * SumFunctionOnSet(Squares(x), I)
                                    - SumFunctionOnSet(x, I) * SumFunctionOnSet(x, I))
<1> DEFINE n == Cardinality(I)
           s == SumFunctionOnSet(x, I)
           q == SumFunctionOnSet(Squares(x), I)
           d == Deviation(x)
           scaled == [i \in I |-> n * x[i]]
           less == [i \in I |-> -s]
           square == Squares(x)
           a == [i \in I |-> (n * n) * square[i]]
           b == [i \in I |-> (-2 * n * s) * x[i]]
           c == [i \in I |-> s * s]
           bc == [i \in I |-> b[i] + c[i]]
<1>1. n \in Nat
  BY FS_CardinalityType
<1>2. \A i \in I : x[i] \in Int /\ square[i] = x[i] * x[i] /\ square[i] \in Int
  <2>1. \A i \in I : x[i] \in Int /\ square[i] = x[i] * x[i]
    BY DEF Squares
  <2>2. \A k \in Int : k * k \in Int
    OBVIOUS
  <2> QED
    BY <2>1, <2>2
<1>3. s \in Int /\ q \in Int
  <2> HIDE DEF square
  <2>1. q = SumFunctionOnSet(square, I)
    BY DEF square
  <2> QED
    BY <1>2, <2>1, SumWithout
<1>4. d = [i \in I |-> n * x[i] - s]
  BY DEF Deviation
<1> HIDE DEF n, s, q, d, square
<1>5. n * n \in Int /\ -2 * n * s \in Int /\ s * s \in Int /\ -s \in Int
  BY <1>1, <1>3
<1>6. \A i \in I : n * x[i] \in Int /\ d[i] = n * x[i] - s /\ d[i] = scaled[i] + less[i]
                   /\ scaled[i] \in Int /\ less[i] \in Int /\ d[i] \in Int
  <2>1. \A k \in Int : n * k \in Int
    BY <1>1
  <2> QED
    BY <1>2, <1>3, <1>4, <1>5, <2>1
<1>7. SumFunctionOnSet(scaled, I) = n * s
  <2>1. \A i \in I : x[i] \in Int /\ scaled[i] = n * x[i]
    BY <1>2
  <2> HIDE DEF scaled
  <2> QED
    BY <1>1, <2>1, SumScales DEF s
<1>8. SumFunctionOnSet(less, I) = (-s) * n
  <2>1. \A i \in I : less[i] = -s
    OBVIOUS
  <2> HIDE DEF less
  <2> QED
    BY <1>5, <2>1, SumOfEqual DEF n
<1>9. SumFunctionOnSet(d, I) = 0
  <2> HIDE DEF scaled, less
  <2>1. SumFunctionOnSet(d, I) = SumFunctionOnSet(scaled, I) + SumFunctionOnSet(less, I)
    BY <1>6, SumAdds
  <2> QED
    BY <1>1, <1>3, <1>7, <1>8, <2>1
<1>10. SumFunctionOnSet(a, I) = (n * n) * q
  <2>1. \A i \in I : square[i] \in Int /\ a[i] = (n * n) * square[i]
    BY <1>2
  <2>2. q = SumFunctionOnSet(square, I)
    BY DEF q, square
  <2> HIDE DEF a
  <2> QED
    BY <1>5, <2>1, <2>2, SumScales
<1>11. SumFunctionOnSet(b, I) = (-2 * n * s) * s
  <2>1. \A i \in I : x[i] \in Int /\ b[i] = (-2 * n * s) * x[i]
    BY <1>2
  <2> HIDE DEF b
  <2> QED
    BY <1>5, <2>1, SumScales DEF s
<1>12. SumFunctionOnSet(c, I) = (s * s) * n
  <2>1. \A i \in I : c[i] = s * s
    OBVIOUS
  <2> HIDE DEF c
  <2> QED
    BY <1>5, <2>1, SumOfEqual DEF n
<1>13. \A i \in I : a[i] \in Int /\ b[i] \in Int /\ c[i] \in Int /\ bc[i] = b[i] + c[i] /\ bc[i] \in Int
  <2>1. \A k \in Int : (n * n) * k \in Int /\ (-2 * n * s) * k \in Int
    BY <1>5
  <2>2. \A i \in I : a[i] \in Int /\ b[i] \in Int /\ c[i] \in Int
    BY <1>2, <1>5, <2>1
  <2>3. \A i \in I : bc[i] = b[i] + c[i]
    OBVIOUS
  <2> HIDE DEF a, b, c, bc
  <2> QED
    BY <2>2, <2>3
<1>14. \A i \in I : Squares(d)[i] = a[i] + bc[i]
  <2> SUFFICES ASSUME NEW i \in I PROVE Squares(d)[i] = a[i] + bc[i]
    OBVIOUS
  <2>1. Squares(d)[i] = (n * x[i] - s) * (n * x[i] - s)
    <3>1. i \in DOMAIN d
      BY <1>4
    <3> QED
      BY <3>1, <1>6 DEF Squares
  <2>2. a[i] = (n * n) * (x[i] * x[i]) /\ b[i] = (-2 * n * s) * x[i] /\ c[i] = s * s
    BY <1>2
  <2>3. bc[i] = (-2 * n * s) * x[i] + s * s
    BY <2>2, <1>13
  <2>4. x[i] \in Int /\ n \in Int /\ s \in Int
    BY <1>1, <1>2, <1>3
  <2>5. (n * x[i] - s) * (n * x[i] - s) = (n * n) * (x[i] * x[i]) + ((-2 * n * s) * x[i] + s * s)
    BY <2>4, SquareOfSum
  <2> HIDE DEF a, b, c, bc
  <2> QED
    BY <2>1, <2>2, <2>3, <2>5, Zenon
<1>15. SumFunctionOnSet(bc, I) = (-2 * n * s) * s + (s * s) * n
  <2> HIDE DEF b, c, bc
  <2> QED
    BY <1>11, <1>12, <1>13, SumAdds
<1>16. SumFunctionOnSet(Squares(d), I) = (n * n) * q + ((-2 * n * s) * s + (s * s) * n)
  <2> HIDE DEF a, bc
  <2>1. SumFunctionOnSet(Squares(d), I) = SumFunctionOnSet(a, I) + SumFunctionOnSet(bc, I)
    BY <1>13, <1>14, SumAdds
  <2> QED
    BY <1>10, <1>15, <2>1, Zenon
<1>17. SumFunctionOnSet(Squares(d), I) = n * (n * q - s * s)
  <2>1. n \in Int
    BY <1>1
  <2> QED
    BY <1>3, <1>16, <2>1, SpreadSum
<1>18. d \in [I -> Int]
  BY <1>4, <1>6
<1> QED
  BY <1>3, <1>9, <1>17, <1>18, Zenon DEF n, s, q, d

\* Nothing deviates when the squares add up to nothing.
LEMMA NoneDeviates ==
    ASSUME NEW I, IsFiniteSet(I), NEW d \in [I -> Int], SumFunctionOnSet(Squares(d), I) <= 0
    PROVE  \A i \in I : d[i] = 0
<1> SUFFICES ASSUME NEW i \in I PROVE d[i] = 0
  OBVIOUS
<1> DEFINE square == Squares(d)
           nothing == [j \in I |-> 0]
           rest == I \ {i}
<1>1. \A j \in I : square[j] = d[j] * d[j] /\ d[j] \in Int
  BY DEF Squares
<1>2. \A k \in Int : k * k \in Int /\ k * k >= 0 /\ (k * k <= 0 => k = 0)
  OBVIOUS
<1>3. \A j \in I : square[j] \in Int /\ square[j] >= 0
  BY <1>1, <1>2
<1>4. IsFiniteSet(rest)
  BY FS_Subset
<1>5. SumFunctionOnSet(square, I) = square[i] + SumFunctionOnSet(square, rest)
      /\ SumFunctionOnSet(square, rest) \in Int
  <2> HIDE DEF square
  <2>1. SumFunctionOnSet(square, I) = square[i] + SumFunctionOnSet(square, I \ {i})
    BY <1>3, SumWithout
  <2>2. \A j \in rest : square[j] \in Int
    BY <1>3
  <2> HIDE DEF rest
  <2>3. SumFunctionOnSet(square, rest) \in Int
    BY <1>4, <2>2, SumWithout
  <2> QED
    BY <2>1, <2>3 DEF rest
<1>6. SumFunctionOnSet(square, rest) >= 0
  <2>1. \A j \in rest : nothing[j] \in Int /\ square[j] \in Int /\ nothing[j] <= square[j]
    BY <1>3
  <2>2. \A j \in rest : nothing[j] = 0
    OBVIOUS
  <2> HIDE DEF square, nothing, rest
  <2>3. SumFunctionOnSet(nothing, rest) <= SumFunctionOnSet(square, rest)
    BY <1>4, <2>1, SumAtMost
  <2>4. SumFunctionOnSet(nothing, rest) = 0
    BY <1>4, <2>2, SumOfNothings
  <2> QED
    BY <2>3, <2>4
<1>7. square[i] <= 0
  <2> HIDE DEF square, rest
  <2> QED
    BY <1>3, <1>5, <1>6 DEF square
<1> QED
  BY <1>1, <1>2, <1>7

\* The linear bounds of a square: at a distance of m or more, and at any distance.
LEMMA FarApart ==
    \A m, d \in Int : m >= 0 /\ d >= m => d * d >= 4 * (m * m) + ((-2 * m) * d + (-(m * m)))
<1> SUFFICES ASSUME NEW m \in Int, NEW d \in Int, m >= 0, d >= m
             PROVE  d * d >= 4 * (m * m) + ((-2 * m) * d + (-(m * m)))
  OBVIOUS
<1> DEFINE k == d - m
<1>1. k \in Int /\ k >= 0 /\ d = k + m
  OBVIOUS
<1>2. \A e \in Int : e >= 0 => (e + m) * (e + m) = e * e + (2 * (e * m) + m * m)
                             /\ (-2 * m) * (e + m) = -(2 * (e * m)) - 2 * (m * m)
                             /\ e * e >= 0 /\ e * m >= 0 /\ e * e \in Int /\ e * m \in Int
  OBVIOUS
<1> HIDE DEF k
<1>3. d * d = k * k + (2 * (k * m) + m * m) /\ (-2 * m) * d = -(2 * (k * m)) - 2 * (m * m)
      /\ k * k >= 0 /\ k * m >= 0 /\ k * k \in Int /\ k * m \in Int
  BY <1>1, <1>2
<1>4. m * m \in Int /\ d * d \in Int /\ (-2 * m) * d \in Int
  OBVIOUS
<1> QED
  BY <1>3, <1>4

LEMMA NotTooLow ==
    \A m, d \in Int : d * d >= (-2 * m) * d + (-(m * m))
<1> SUFFICES ASSUME NEW m \in Int, NEW d \in Int PROVE d * d >= (-2 * m) * d + (-(m * m))
  OBVIOUS
<1>1. (d + m) * (d + m) = d * d + (2 * (d * m) + m * m) /\ (-2 * m) * d = -(2 * (d * m))
      /\ (d + m) * (d + m) >= 0
  OBVIOUS
<1>2. d * d \in Int /\ d * m \in Int /\ m * m \in Int
  OBVIOUS
<1> QED
  BY <1>1, <1>2

\* Of numbers whose sum is 0, at most half lie a standard deviation above.
LEMMA FewAreFar ==
    ASSUME NEW I, IsFiniteSet(I), NEW d \in [I -> Int], SumFunctionOnSet(d, I) = 0,
           SumFunctionOnSet(Squares(d), I) > 0, NEW X, X \subseteq I,
           \A i \in X : d[i] >= 0 /\ d[i] * d[i] * (Cardinality(I) - 1) >= SumFunctionOnSet(Squares(d), I)
    PROVE  2 * Cardinality(X) <= Cardinality(I)
<1> DEFINE n == Cardinality(I)
           k == Cardinality(X)
           square == Squares(d)
           all == SumFunctionOnSet(square, I)
<1>1. n \in Nat /\ IsFiniteSet(X) /\ k \in Nat /\ (k = 0 <=> X = {})
  BY FS_CardinalityType, FS_Subset, FS_EmptySet
<1>2. \A i \in I : d[i] \in Int /\ square[i] = d[i] * d[i] /\ square[i] \in Int
  <2>1. \A i \in I : d[i] \in Int /\ square[i] = d[i] * d[i]
    BY DEF Squares
  <2>2. \A e \in Int : e * e \in Int
    OBVIOUS
  <2> QED
    BY <2>1, <2>2
<1>3. all \in Int
  <2> HIDE DEF square
  <2> QED
    BY <1>2, SumWithout
<1>4. CASE X = {}
  BY <1>1, <1>4
<1>5. CASE X # {}
  <2>1. PICK m \in {d[i] : i \in X} : \A e \in {d[i] : i \in X} : m <= e
    <3>1. {d[i] : i \in X} \subseteq Nat /\ {d[i] : i \in X} # {}
      BY <1>2, <1>5
    <3> QED
      BY <3>1, LeastOfSome
  <2> DEFINE mark == [i \in I |-> IF i \in X THEN 1 ELSE 0]
             high == [i \in I |-> (4 * (m * m)) * mark[i]]
             low == [i \in I |-> (-2 * m) * d[i]]
             less == [i \in I |-> -(m * m)]
             lower == [i \in I |-> low[i] + less[i]]
             bound == [i \in I |-> high[i] + lower[i]]
  <2>2. m \in Int /\ m >= 0 /\ (m * m) * (n - 1) >= all
        /\ \A i \in X : m <= d[i]
    <3>1. PICK i \in X : m = d[i]
      OBVIOUS
    <3>2. \A j \in X : m <= d[j]
      BY <2>1
    <3> HIDE DEF n, all, square
    <3>3. d[i] >= 0 /\ d[i] * d[i] * (n - 1) >= all /\ d[i] \in Int
      BY <1>2 DEF n, all, square
    <3> QED
      BY <3>1, <3>2, <3>3
  <2>3. m * m \in Int /\ -2 * m \in Int /\ 4 * (m * m) \in Int /\ -(m * m) \in Int /\ m * m >= 0
    <3>1. \A e \in Int : e * e \in Int /\ e * e >= 0
      OBVIOUS
    <3> QED
      BY <2>2, <3>1
  <2> HIDE DEF n, k, all, square
  <2>4. \A i \in I : mark[i] \in Int /\ mark[i] = IF i \in X THEN 1 ELSE 0
    OBVIOUS
  <2>5. SumFunctionOnSet(mark, I) = k
    <3> HIDE DEF mark
    <3> QED
      BY <2>4, SumOfMarks DEF k
  <2>6. \A i \in I : high[i] = (4 * (m * m)) * mark[i] /\ low[i] = (-2 * m) * d[i] /\ less[i] = -(m * m)
    OBVIOUS
  <2>7. \A i \in I : high[i] \in Int /\ low[i] \in Int /\ less[i] \in Int
    <3>1. \A e, f \in Int : e * f \in Int
      OBVIOUS
    <3> HIDE DEF mark, high, low, less
    <3> QED
      BY <1>2, <2>3, <2>4, <2>6, <3>1
  <2>8. \A i \in I : lower[i] = low[i] + less[i] /\ bound[i] = high[i] + lower[i]
    OBVIOUS
  <2> HIDE DEF mark, high, low, less, lower, bound
  <2>9. \A i \in I : lower[i] \in Int /\ bound[i] \in Int
    BY <2>7, <2>8
  <2>10. SumFunctionOnSet(high, I) = (4 * (m * m)) * k
    BY <2>3, <2>4, <2>5, <2>6, SumScales
  <2>11. SumFunctionOnSet(low, I) = (-2 * m) * SumFunctionOnSet(d, I)
    BY <1>2, <2>3, <2>6, SumScales
  <2>12. SumFunctionOnSet(less, I) = (-(m * m)) * n
    BY <2>3, <2>6, SumOfEqual DEF n
  <2>13. SumFunctionOnSet(lower, I) = SumFunctionOnSet(low, I) + SumFunctionOnSet(less, I)
    BY <2>7, <2>8, SumAdds
  <2>14. SumFunctionOnSet(bound, I) = SumFunctionOnSet(high, I) + SumFunctionOnSet(lower, I)
    BY <2>7, <2>8, <2>9, SumAdds
  <2>15. \A i \in I : bound[i] <= square[i]
    <3> SUFFICES ASSUME NEW i \in I PROVE bound[i] <= square[i]
      OBVIOUS
    <3>1. square[i] = d[i] * d[i] /\ d[i] \in Int
      BY <1>2
    <3>2. CASE i \in X
      <4>1. mark[i] = 1 /\ d[i] >= m
        BY <2>2, <2>4, <3>2
      <4>2. d[i] * d[i] >= 4 * (m * m) + ((-2 * m) * d[i] + (-(m * m)))
        BY <2>2, <3>1, <4>1, FarApart
      <4>3. high[i] = 4 * (m * m)
        BY <2>3, <2>6, <4>1
      <4>4. bound[i] = 4 * (m * m) + ((-2 * m) * d[i] + (-(m * m)))
        BY <2>6, <2>8, <4>3, Zenon
      <4> QED
        BY <3>1, <4>2, <4>4, <2>9, <1>2
    <3>3. CASE i \notin X
      <4>1. d[i] * d[i] >= (-2 * m) * d[i] + (-(m * m))
        BY <2>2, <3>1, NotTooLow
      <4>2. high[i] = 0
        <5>1. mark[i] = 0
          BY <2>4, <3>3
        <5> QED
          BY <2>3, <2>6, <5>1
      <4>3. lower[i] = (-2 * m) * d[i] + (-(m * m))
        BY <2>6, <2>8, Zenon
      <4>4. bound[i] = lower[i]
        BY <2>8, <2>9, <4>2
      <4> QED
        BY <3>1, <4>1, <4>3, <4>4
    <3> QED
      BY <3>2, <3>3
  <2>16. SumFunctionOnSet(bound, I) <= all
    <3>1. all = SumFunctionOnSet(square, I)
      BY DEF all
    <3> QED
      BY <1>2, <2>9, <2>15, <3>1, SumAtMost
  <2>17. SumFunctionOnSet(bound, I) = (4 * (m * m)) * k + (-(m * m)) * n
    <3>1. (-2 * m) * 0 = 0
      BY <2>3
    <3>2. SumFunctionOnSet(low, I) = 0
      BY <2>11, <3>1
    <3>3. \A e, f \in Int : e * f \in Int
      OBVIOUS
    <3>4. (-(m * m)) * n \in Int
      BY <1>1, <2>3, <3>3
    <3>5. SumFunctionOnSet(lower, I) = (-(m * m)) * n
      BY <2>12, <2>13, <3>2, <3>4
    <3> QED
      BY <2>10, <2>14, <3>5, Zenon
  <2>18. \A mm \in Nat : (4 * mm) * k + (-mm) * n <= all /\ mm * (n - 1) >= all /\ all > 0 => 2 * k <= n
    <3> SUFFICES ASSUME NEW mm \in Nat, (4 * mm) * k + (-mm) * n <= all, mm * (n - 1) >= all, all > 0,
                        2 * k > n
                 PROVE  FALSE
      BY <1>1, <1>3
    <3>1. n \in Nat /\ k \in Nat /\ all \in Int
      BY <1>1, <1>3
    <3>2. (4 * mm) * k + (-mm) * n = mm * (4 * k - n)
      BY <3>1
    <3>3. mm * (4 * k - n) <= mm * (n - 1)
      <4>1. mm * (4 * k - n) \in Int /\ mm * (n - 1) \in Int
        BY <3>1
      <4> QED
        BY <3>1, <3>2, <4>1
    <3>4. mm # 0
      BY <3>1
    <3>5. \A e, f \in Int : mm * e <= mm * f => e <= f
      BY <3>4
    <3>6. 4 * k - n <= n - 1
      BY <3>1, <3>3, <3>5
    <3> QED
      BY <3>1, <3>6
  <2>19. m * m \in Nat
    BY <2>3
  <2>20. all > 0
    BY DEF all, square
  <2>21. 2 * k <= n
    BY <2>2, <2>16, <2>17, <2>18, <2>19, <2>20
  <2> QED
    BY <2>21 DEF n, k
<1> QED
  BY <1>4, <1>5

\* The regrets the memory compares are a sequence of per cents.
LEMMA RegretsAreASequence == MemoryInv => Regrets \in Seq(0..100)
<1> SUFFICES ASSUME MemoryInv PROVE Regrets \in Seq(0..100)
  OBVIOUS
<1> DEFINE optional == [i \in DOMAIN cachedReports |-> cachedReports[i].regret]
           bounds == 0..100
<1>1. optional \in Seq(SUBSET Int)
  <2>1. cachedReports \in Seq(Archivable)
    BY DEF MemoryInv
  <2>2. \A i \in DOMAIN cachedReports : cachedReports[i].regret \in SUBSET Int
    BY <2>1, IntelligenceAssumption DEF Archivable
  <2> QED
    BY <2>1, <2>2
<1>2. Regrets = Within(Numbers(optional), bounds)
  BY DEF Regrets
<1> HIDE DEF optional, bounds
<1>3. Regrets \in Seq(bounds)
  BY <1>1, <1>2, NumbersAreASequence, WithinBounds
<1> QED
  BY <1>3 DEF bounds

LEMMA ClustersStayMinor == MemoryInv => ClustersAreMinorities
<1> SUFFICES ASSUME MemoryInv PROVE ClustersAreMinorities
  OBVIOUS
<1> DEFINE x == Regrets
           n == Len(x)
           I == 1..n
           bounds == 0..100
           s == SumFunctionOnSet(x, I)
           q == SumFunctionOnSet(Squares(x), I)
           spread == n * q - s * s
           d == Deviation(x)
           all == SumFunctionOnSet(Squares(d), I)
           far(v) == n * v >= s /\ (n * v - s) * (n * v - s) * (n - 1) >= n * spread
           even(v) == IF s > 0 THEN 2 * n * v >= 3 * s ELSE 2 * v >= 100
           X == RegretCluster
<1>1. x \in Seq(0..100)
  BY RegretsAreASequence
<1>2. n \in Nat /\ DOMAIN x = I /\ \A i \in I : x[i] \in bounds
  <2> HIDE DEF bounds
  <2>1. x \in Seq(bounds)
    BY <1>1 DEF bounds
  <2> HIDE DEF x
  <2> QED
    BY <2>1
<1>3. \A v \in bounds : v \in Int /\ v >= 0
  OBVIOUS
<1>4. x \in [I -> Int]
  <2>1. x = [i \in I |-> x[i]]
    <3> HIDE DEF bounds
    <3>1. x \in Seq(bounds)
      BY <1>1 DEF bounds
    <3> HIDE DEF x
    <3> QED
      BY <3>1, <1>2
  <2> HIDE DEF x, bounds, I
  <2> QED
    BY <1>2, <1>3, <2>1
<1>5. IsFiniteSet(I) /\ Cardinality(I) = n
  <2>1. \A k \in Nat : IsFiniteSet(1..k) /\ Cardinality(1..k) = k
    BY FS_Interval
  <2> QED
    BY <1>2, <2>1
<1>6. X = IF n < 3 \/ Len(cachedReports) < 2 THEN {}
          ELSE {i \in I : IF spread > 0 THEN far(x[i]) ELSE even(x[i])}
  <2> DEFINE squares == [i \in 1..n |-> x[i] * x[i]]
  <2>1. SumSeq(x) = s
    BY <1>2, Zenon DEF SumSeq, SumFunction
  <2>2. SumSeq(squares) = q
    <3>1. squares = Squares(x) /\ DOMAIN squares = I
      BY <1>2 DEF Squares
    <3> QED
      BY <3>1, Zenon DEF SumSeq, SumFunction
  <2> HIDE DEF n, s, q, bounds
  <2> QED
    BY <2>1, <2>2, Zenon DEF RegretCluster, n
<1> HIDE DEF x, I, bounds, s, q, d, all, X, n
<1>7. s \in Int /\ q \in Int /\ d \in [I -> Int] /\ SumFunctionOnSet(d, I) = 0
      /\ all = n * spread
  <2>1. all = Cardinality(I) * (Cardinality(I) * q - s * s)
    BY <1>4, <1>5, DeviationsAddUp DEF all, q, s, d
  <2> QED
    BY <1>4, <1>5, <2>1, DeviationsAddUp DEF s, q, d
<1>8. \A i \in I : d[i] = n * x[i] - s
  BY <1>2, <1>5 DEF d, Deviation, s
<1>9. n * q \in Int /\ s * s \in Int /\ spread \in Int
  <2>1. \A e, f \in Int : e * f \in Int
    OBVIOUS
  <2> QED
    BY <1>2, <1>7, <2>1
<1> HIDE DEF spread
<1>10. CASE n < 3 \/ Len(cachedReports) < 2
  <2>1. X = {}
    BY <1>6, <1>10
  <2> QED
    BY <1>2, <2>1, FS_EmptySet DEF ClustersAreMinorities, X, n, x
<1>11. s >= 0
  <2> DEFINE zero == [i \in I |-> 0]
  <2>1. \A i \in I : zero[i] \in Int /\ x[i] \in Int /\ zero[i] <= x[i]
    BY <1>2, <1>3
  <2>2. \A i \in I : zero[i] = 0
    OBVIOUS
  <2> HIDE DEF zero
  <2>3. SumFunctionOnSet(zero, I) = 0 /\ SumFunctionOnSet(zero, I) <= SumFunctionOnSet(x, I)
    BY <1>5, <2>1, <2>2, SumOfNothings, SumAtMost
  <2> QED
    BY <1>7, <2>3 DEF s
<1>12. ASSUME n >= 3, spread <= 0 PROVE X = {}
  <2>1. all <= 0
    <3>1. \A e \in Nat : \A f \in Int : f <= 0 => e * f <= 0
      OBVIOUS
    <3> QED
      BY <1>2, <1>7, <1>9, <1>12, <3>1
  <2>2. \A i \in I : d[i] = 0
    BY <1>5, <1>7, <2>1, NoneDeviates DEF all
  <2>3. ASSUME NEW i \in X PROVE FALSE
    <3>1. i \in I /\ even(x[i])
      BY <1>6, <1>9, <1>12, <2>3
    <3>2. n * x[i] = s /\ x[i] \in Int /\ x[i] >= 0
      <4>1. n * x[i] - s = 0 /\ x[i] \in Int /\ x[i] >= 0
        BY <1>2, <1>3, <1>8, <2>2, <3>1
      <4>2. n * x[i] \in Int
        BY <1>2, <4>1
      <4> QED
        BY <1>7, <4>1, <4>2
    <3>3. CASE s > 0
      <4>1. 2 * n * x[i] = 2 * s
        BY <1>2, <3>2
      <4>2. 2 * n * x[i] >= 3 * s
        BY <3>1, <3>3
      <4> QED
        BY <1>7, <3>3, <4>1, <4>2
    <3>4. CASE s <= 0
      <4>1. x[i] = 0
        <5>1. \A e \in Nat : \A f \in Nat : e >= 3 /\ e * f <= 0 => f = 0
          OBVIOUS
        <5> QED
          BY <1>2, <1>7, <1>12, <3>2, <3>4, <5>1
      <4> QED
        BY <1>7, <3>1, <3>4, <4>1
    <3> QED
      BY <1>7, <3>3, <3>4
  <2> QED
    BY <2>3
<1>13. CASE n >= 3 /\ ~(Len(cachedReports) < 2) /\ spread > 0
  <2>1. X = {i \in I : far(x[i])}
    BY <1>2, <1>6, <1>13
  <2>2. all > 0
    <3>1. \A e \in Nat : \A f \in Int : e >= 3 /\ f > 0 => e * f > 0
      OBVIOUS
    <3> QED
      BY <1>2, <1>7, <1>9, <1>13, <3>1
  <2>3. \A i \in X : d[i] >= 0 /\ d[i] * d[i] * (Cardinality(I) - 1) >= all
    <3> SUFFICES ASSUME NEW i \in X PROVE d[i] >= 0 /\ d[i] * d[i] * (Cardinality(I) - 1) >= all
      OBVIOUS
    <3>1. i \in I /\ n * x[i] >= s /\ (n * x[i] - s) * (n * x[i] - s) * (n - 1) >= n * spread
      BY <2>1
    <3>2. d[i] = n * x[i] - s
      BY <1>8, <3>1
    <3>3. n * x[i] \in Int
      BY <1>2, <1>3, <3>1
    <3>4. d[i] >= 0
      BY <1>7, <3>1, <3>2, <3>3
    <3>5. d[i] * d[i] * (n - 1) >= all
      BY <1>7, <3>1, <3>2, Zenon
    <3> QED
      BY <1>5, <3>4, <3>5
  <2>4. 2 * Cardinality(X) <= Cardinality(I)
    <3>1. X \subseteq I
      BY <2>1
    <3> QED
      BY <1>5, <1>7, <2>2, <2>3, <3>1, FewAreFar DEF all
  <2>5. ASSUME Cardinality(ToSet(x)) = 1 PROVE FALSE
    <3>1. PICK v \in ToSet(x) : ToSet(x) = {v}
      <4>1. IsFiniteSet(ToSet(x))
        <5>1. ToSet(x) = {x[i] : i \in I}
          BY <1>2 DEF ToSet
        <5>2. x \in Surjection(I, ToSet(x))
          BY <1>4, <5>1 DEF Surjection
        <5> QED
          BY <1>5, <5>2, FS_Surjection
      <4> QED
        BY <2>5, <4>1, FS_Singleton
    <3>2. \A i \in I : x[i] = v
      BY <1>2, <3>1 DEF ToSet
    <3>3. v \in Int
      BY <1>2, <1>3, <3>1 DEF ToSet
    <3>4. s = v * n
      BY <1>5, <3>2, <3>3, SumOfEqual DEF s
    <3>5. q = (v * v) * n
      <4>1. \A i \in I : Squares(x)[i] = v * v
        BY <1>2, <3>2 DEF Squares
      <4>2. v * v \in Int
        BY <3>3
      <4> QED
        BY <1>5, <4>1, <4>2, SumOfEqual DEF q
    <3>6. n * ((v * v) * n) - (v * n) * (v * n) = 0
      BY <1>2, <3>3
    <3> QED
      BY <1>13, <3>4, <3>5, <3>6 DEF spread
  <2> QED
    BY <1>5, <2>4, <2>5 DEF ClustersAreMinorities, X, n, x
<1>14. CASE n >= 3 /\ spread <= 0
  <2>1. X = {}
    BY <1>12, <1>14
  <2> QED
    BY <1>2, <2>1, FS_EmptySet DEF ClustersAreMinorities, X, n, x
<1> QED
  BY <1>2, <1>9, <1>10, <1>13, <1>14

-----------------------------------------------------------------------------
(* Drawdown *)

\* What one pass over the gains finds: their total, its peak and the deepest fall,
\* over the totals t of the first n gains.
Drawdown == [total : Int, peak : Int, worst : Int]
FallsAmong(t, n) == UNION {{t[i] - t[j] : i \in 0..j} : j \in 0..n}
FoundAfter(d, t, n) ==
    /\ d \in Drawdown /\ d.total = t[n]
    /\ \E i \in 0..n : d.peak = t[i]
    /\ \A i \in 0..n : t[i] <= d.peak
    /\ d.worst \in FallsAmong(t, n)
    /\ \A w \in FallsAmong(t, n) : w <= d.worst

\* A fall ends at some moment and begins no later.
LEMMA FallsOf ==
    \A t, n, w : w \in FallsAmong(t, n) <=> \E j \in 0..n : \E i \in 0..j : w = t[i] - t[j]
<1> SUFFICES ASSUME NEW t, NEW n, NEW w
             PROVE  w \in FallsAmong(t, n) <=> \E j \in 0..n : \E i \in 0..j : w = t[i] - t[j]
  OBVIOUS
<1>1. ASSUME w \in FallsAmong(t, n) PROVE \E j \in 0..n : \E i \in 0..j : w = t[i] - t[j]
  BY <1>1 DEF FallsAmong
<1>2. ASSUME NEW j \in 0..n, NEW i \in 0..j, w = t[i] - t[j] PROVE w \in FallsAmong(t, n)
  <2>1. w \in {t[k] - t[j] : k \in 0..j}
    BY <1>2
  <2>2. {t[k] - t[j] : k \in 0..j} \in {{t[k] - t[l] : k \in 0..l} : l \in 0..n}
    OBVIOUS
  <2> QED
    BY <2>1, <2>2, Zenon DEF FallsAmong
<1> QED
  BY <1>1, <1>2

\* One trade more adds the falls that end with it,
LEMMA MoreFalls ==
    ASSUME NEW n \in Nat, NEW t \in [0..(n + 1) -> Int]
    PROVE  FallsAmong(t, n + 1) = FallsAmong(t, n) \cup {t[i] - t[n + 1] : i \in 0..(n + 1)}
<1>1. ASSUME NEW w \in FallsAmong(t, n + 1)
      PROVE  w \in FallsAmong(t, n) \cup {t[i] - t[n + 1] : i \in 0..(n + 1)}
  <2>0. PICK j \in 0..(n + 1) : \E i \in 0..j : w = t[i] - t[j]
    BY DEF FallsAmong
  <2>1. PICK i \in 0..j : w = t[i] - t[j]
    BY <2>0
  <2>2. j = n + 1 \/ j \in 0..n
    OBVIOUS
  <2> QED
    BY <2>1, <2>2 DEF FallsAmong
<1>2. FallsAmong(t, n) \subseteq FallsAmong(t, n + 1)
  <2> SUFFICES ASSUME NEW w \in FallsAmong(t, n) PROVE w \in FallsAmong(t, n + 1)
    OBVIOUS
  <2>1. PICK j \in 0..n : w \in {t[i] - t[j] : i \in 0..j}
    BY DEF FallsAmong
  <2>2. j \in 0..(n + 1)
    OBVIOUS
  <2> QED
    BY <2>1, <2>2, ZenonT(60) DEF FallsAmong
<1>3. {t[i] - t[n + 1] : i \in 0..(n + 1)} \subseteq FallsAmong(t, n + 1)
  <2>1. n + 1 \in 0..(n + 1)
    OBVIOUS
  <2> QED
    BY <2>1, Zenon DEF FallsAmong
<1> QED
  BY <1>1, <1>2, <1>3

\* and the one pass finds the deepest of them.
LEMMA FallIsFound ==
    ASSUME NEW n \in Nat, NEW t \in [0..(n + 1) -> Int], NEW d, FoundAfter(d, t, n),
           NEW x \in Int, t[n + 1] = t[n] + x
    PROVE  FoundAfter(Fall(d, x), t, n + 1)
<1> DEFINE total == d.total + x
           peak == Max({d.peak, total})
           worst == Max({d.worst, peak - total})
<1>1. d \in Drawdown /\ d.total \in Int /\ d.peak \in Int /\ d.worst \in Int
  BY DEF FoundAfter, Drawdown
<1>2. total \in Int /\ total = t[n + 1]
  BY <1>1 DEF FoundAfter
<1> HIDE DEF total
<1>3. peak \in Int /\ peak = IF d.peak >= total THEN d.peak ELSE total
  BY <1>1, <1>2, MaxOfTwo
<1> HIDE DEF peak
<1>4. worst \in Int /\ worst = IF d.worst >= peak - total THEN d.worst ELSE peak - total
  <2>1. peak - total \in Int
    BY <1>2, <1>3
  <2> QED
    BY <1>1, <2>1, MaxOfTwo
<1> HIDE DEF worst
<1>5. Fall(d, x) = [total |-> total, peak |-> peak, worst |-> worst]
  BY Zenon DEF Fall, total, peak, worst
<1>6. \E i \in 0..(n + 1) : peak = t[i]
  <2>1. PICK i \in 0..n : d.peak = t[i]
    BY DEF FoundAfter
  <2>2. i \in 0..(n + 1) /\ n + 1 \in 0..(n + 1)
    OBVIOUS
  <2> QED
    BY <1>2, <1>3, <2>1, <2>2
<1>7. \A i \in 0..(n + 1) : t[i] <= peak
  <2> SUFFICES ASSUME NEW i \in 0..(n + 1) PROVE t[i] <= peak
    OBVIOUS
  <2>1. i = n + 1 \/ i \in 0..n
    OBVIOUS
  <2>2. t[i] \in Int
    OBVIOUS
  <2>3. i \in 0..n => t[i] <= d.peak
    BY DEF FoundAfter
  <2> QED
    BY <1>1, <1>2, <1>3, <2>1, <2>2, <2>3
<1>8. worst \in FallsAmong(t, n + 1)
  <2>1. d.worst \in FallsAmong(t, n)
    BY DEF FoundAfter
  <2>2. peak - total \in {t[i] - t[n + 1] : i \in 0..(n + 1)}
    BY <1>2, <1>6
  <2> QED
    BY <1>4, <2>1, <2>2, MoreFalls
<1>9. \A w \in FallsAmong(t, n + 1) : w <= worst
  <2> SUFFICES ASSUME NEW w \in FallsAmong(t, n + 1) PROVE w <= worst
    OBVIOUS
  <2>1. CASE w \in FallsAmong(t, n)
    <3>1. w <= d.worst /\ w \in Int
      <4>1. w <= d.worst
        BY <2>1 DEF FoundAfter
      <4>2. \E j \in 0..n : \E i \in 0..j : w = t[i] - t[j]
        BY <2>1 DEF FallsAmong
      <4>3. \A j \in 0..n : \A i \in 0..j : t[i] \in Int /\ t[j] \in Int
        OBVIOUS
      <4> QED
        BY <4>1, <4>2, <4>3
    <3> QED
      BY <1>1, <1>2, <1>3, <1>4, <3>1
  <2>2. CASE w \in {t[i] - t[n + 1] : i \in 0..(n + 1)}
    <3>1. PICK i \in 0..(n + 1) : w = t[i] - t[n + 1]
      BY <2>2
    <3>2. t[i] <= peak /\ t[i] \in Int
      BY <1>7
    <3>3. w = t[i] - total
      BY <1>2, <3>1, Zenon
    <3>4. \A e \in Int : e <= peak => e - total <= worst
      <4>1. worst \in Int /\ worst >= peak - total
        BY <1>1, <1>2, <1>3, <1>4
      <4> QED
        BY <1>2, <1>3, <4>1, SMTT(30)
    <3> QED
      BY <3>2, <3>3, <3>4
  <2> QED
    BY <2>1, <2>2, MoreFalls
<1>10. Fall(d, x) \in Drawdown
  BY <1>2, <1>3, <1>4, <1>5 DEF Drawdown
<1> QED
  BY <1>2, <1>5, <1>6, <1>7, <1>8, <1>9, <1>10 DEF FoundAfter

\* The pass finds the deepest fall of the totals.
LEMMA DrawdownIsFound ==
    ASSUME NEW gains \in Seq(Int), NEW t \in [0..Len(gains) -> Int],
           t[0] = 0, \A n \in 1..Len(gains) : t[n] = t[n - 1] + gains[n]
    PROVE  /\ SimulateDrawdown(gains) \in FallsAmong(t, Len(gains))
           /\ \A w \in FallsAmong(t, Len(gains)) : w <= SimulateDrawdown(gains)
<1> DEFINE N == Len(gains)
           start == [total |-> 0, peak |-> 0, worst |-> 0]
           step == [n \in 1..N |-> [d \in Drawdown |-> Fall(d, gains[n])]]
           Recurs(f) == f = [n \in 0..N |-> IF n = 0 THEN start ELSE Fall(f[n - 1], gains[n])]
           after == CHOOSE f : Recurs(f)
<1>1. N \in Nat /\ \A n \in 1..N : gains[n] \in Int
  OBVIOUS
<1>2. start \in Drawdown
  BY DEF Drawdown
<1>3. \A d \in Drawdown : \A x \in Int : Fall(d, x) \in Drawdown
  <2> SUFFICES ASSUME NEW d \in Drawdown, NEW x \in Int PROVE Fall(d, x) \in Drawdown
    OBVIOUS
  <2> DEFINE total == d.total + x
             peak == Max({d.peak, total})
             worst == Max({d.worst, peak - total})
  <2>1. d.peak \in Int /\ d.worst \in Int /\ total \in Int
    BY DEF Drawdown
  <2> HIDE DEF total
  <2>2. peak \in Int
    BY <2>1, MaxOfTwo
  <2> HIDE DEF peak
  <2>3. worst \in Int
    <3>1. peak - total \in Int
      BY <2>1, <2>2
    <3> QED
      BY <2>1, <3>1, MaxOfTwo
  <2> HIDE DEF worst
  <2>4. Fall(d, x) = [total |-> total, peak |-> peak, worst |-> worst]
    BY Zenon DEF Fall, total, peak, worst
  <2> QED
    BY <2>1, <2>2, <2>3, <2>4 DEF Drawdown
<1> HIDE DEF N, start
<1>4. \A n \in 1..N : \A d \in Drawdown : step[n][d] \in Drawdown
  BY <1>1, <1>3
<1>5. PICK f \in [0..N -> Drawdown] : f[0] = start /\ \A n \in 1..N : f[n] = step[n][f[n - 1]]
  <2> HIDE DEF step
  <2>1. Recursive(Drawdown, N, start, step) # {}
    BY <1>1, <1>2, <1>4, RecursionExists
  <2> QED
    BY <2>1 DEF Recursive
<1>6. Recurs(f)
  <2>1. ASSUME NEW n \in 1..N PROVE f[n] = Fall(f[n - 1], gains[n])
    <3>1. f[n - 1] \in Drawdown
      BY <1>1, <1>5
    <3> QED
      BY <1>5, <3>1
  <2>2. f = [n \in 0..N |-> f[n]]
    BY <1>5
  <2>3. \A n \in 0..N : n = 0 \/ n \in 1..N
    BY <1>1
  <2> HIDE DEF step
  <2> QED
    BY <1>5, <2>1, <2>2, <2>3
<1>7. Recurs(after)
  <2> HIDE DEF Recurs
  <2> QED
    BY <1>6
<1>8. SimulateDrawdown(gains) = after[N].worst
  BY <1>7, Zenon DEF SimulateDrawdown, N, start
<1> HIDE DEF after
<1> DEFINE Good == {n \in Nat : n <= N => FoundAfter(after[n], t, n)}
<1>9. 0 \in Good
  <2>1. after[0] = start
    BY <1>1, <1>7
  <2>2. FallsAmong(t, 0) = {0}
    <3>1. \A j \in 0..0 : j = 0
      OBVIOUS
    <3>2. 0 \in 0..0 /\ t[0] - t[0] = 0
      OBVIOUS
    <3> QED
      BY <3>1, <3>2 DEF FallsAmong
  <2>3. start.total = 0 /\ start.peak = 0 /\ start.worst = 0
    BY DEF start
  <2>4. \A i \in 0..0 : i = 0
    OBVIOUS
  <2> QED
    BY <1>2, <2>1, <2>2, <2>3, <2>4 DEF FoundAfter
<1>10. ASSUME NEW n \in Nat, n \in Good PROVE n + 1 \in Good
  <2> SUFFICES ASSUME n + 1 <= N PROVE FoundAfter(after[n + 1], t, n + 1)
    OBVIOUS
  <2>1. n + 1 \in 1..N /\ n + 1 \in 0..N /\ (n + 1) - 1 = n /\ n <= N /\ n + 1 # 0
    BY <1>1
  <2>2. after[n + 1] = Fall(after[n], gains[n + 1])
    BY <1>7, <2>1
  <2>3. FoundAfter(after[n], t, n)
    BY <1>10, <2>1
  <2>4. gains[n + 1] \in Int /\ t[n + 1] = t[n] + gains[n + 1]
    BY <1>1, <2>1 DEF N
  <2> DEFINE u == [i \in 0..(n + 1) |-> t[i]]
  <2>5. u \in [0..(n + 1) -> Int]
    BY <1>1, <2>1 DEF N
  <2>6. \A i \in 0..(n + 1) : u[i] = t[i]
    OBVIOUS
  <2>7. FallsAmong(u, n) = FallsAmong(t, n) /\ FallsAmong(u, n + 1) = FallsAmong(t, n + 1)
    <3>1. \A j \in 0..(n + 1) : \A i \in 0..j : u[i] = t[i] /\ u[j] = t[j]
      BY <2>6
    <3>2. \A j \in 0..n : j \in 0..(n + 1)
      OBVIOUS
    <3>3. ASSUME NEW k, \A j \in 0..k : j \in 0..(n + 1) PROVE FallsAmong(u, k) = FallsAmong(t, k)
      <4> HIDE DEF u
      <4>1. \A w : w \in FallsAmong(u, k) <=> w \in FallsAmong(t, k)
        BY <2>6, <3>1, <3>3, FallsOf
      <4> QED
        BY <4>1, Zenon
    <3> QED
      BY <3>2, <3>3
  <2>8. n \in 0..(n + 1) /\ n + 1 \in 0..(n + 1) /\ \A i \in 0..n : i \in 0..(n + 1)
    OBVIOUS
  <2> HIDE DEF u
  <2>9. FoundAfter(after[n], u, n)
    BY <2>3, <2>6, <2>7, <2>8, Zenon DEF FoundAfter
  <2>10. u[n + 1] = u[n] + gains[n + 1]
    BY <2>4, <2>6, <2>8
  <2>11. FoundAfter(after[n + 1], u, n + 1)
    BY <2>2, <2>4, <2>5, <2>9, <2>10, FallIsFound
  <2> QED
    BY <2>6, <2>7, <2>8, <2>11, Zenon DEF FoundAfter
<1>11. N \in Good
  <2> HIDE DEF Good
  <2> QED
    BY <1>1, <1>9, <1>10, Induction
<1>12. FoundAfter(after[N], t, N)
  BY <1>1, <1>11
<1> QED
  BY <1>8, <1>12, Zenon DEF FoundAfter, N

-----------------------------------------------------------------------------
(* Simulation *)

SimulationSpec == CounterfactualInit /\ [][CounterfactualNext]_trails

SimulationInv == trails \in [SimulatedIds -> Seq(SimulatedEvents)]

LEMMA SimulationStart == CounterfactualInit => SimulationInv
<1> SUFFICES ASSUME CounterfactualInit PROVE SimulationInv
  OBVIOUS
<1>1. trails = [c \in SimulatedIds |-> <<>>] /\ <<>> \in Seq(SimulatedEvents)
  BY DEF CounterfactualInit
<1> QED
  BY <1>1 DEF SimulationInv

LEMMA SimulationStep == SimulationInv /\ [CounterfactualNext]_trails => SimulationInv'
<1> SUFFICES ASSUME SimulationInv, [CounterfactualNext]_trails PROVE SimulationInv'
  OBVIOUS
<1>1. ASSUME NEW c \in SimulatedIds, NEW event \in SimulatedEvents, RecordSimulated(c, event)
      PROVE  SimulationInv'
  <2>1. trails[c] \in Seq(SimulatedEvents) /\ Append(trails[c], event) \in Seq(SimulatedEvents)
    BY DEF SimulationInv
  <2>2. trails' = [trails EXCEPT ![c] = Append(trails[c], event)]
    BY <1>1 DEF RecordSimulated
  <2> QED
    BY <2>1, <2>2 DEF SimulationInv
<1>2. CASE UNCHANGED trails
  BY <1>2 DEF SimulationInv
<1> QED
  BY <1>1, <1>2 DEF CounterfactualNext

\* What simulate() takes out of a timeline
LEMMA OfTypeIsASequence ==
    ASSUME NEW trail \in Seq(SimulatedEvents), NEW type
    PROVE  OfType(trail, type) \in Seq(SimulatedEvents)
<1> DEFINE kept == {i \in DOMAIN trail : trail[i].event_type = type}
<1>1. kept \subseteq DOMAIN trail /\ \A i \in kept : trail[i] \in SimulatedEvents
  OBVIOUS
<1>2. OfType(trail, type) = AtPlaces(trail, kept)
  BY DEF OfType
<1> HIDE DEF kept
<1> QED
  BY <1>1, <1>2, Chosen

LEMMA NumberIsANumber == \A e \in SimulatedEvents : Number(e) \in Int
<1> SUFFICES ASSUME NEW e \in SimulatedEvents PROVE Number(e) \in Int
  OBVIOUS
<1>1. e.pnl \subseteq Int
  BY CounterfactualAssumption
<1>2. CASE e.pnl = {}
  BY <1>2 DEF Number
<1>3. CASE e.pnl # {}
  <2>1. \E x \in e.pnl : TRUE
    BY <1>3
  <2>2. (CHOOSE x \in e.pnl : TRUE) \in e.pnl
    BY <2>1, Zenon
  <2>3. Number(e) = CHOOSE x \in e.pnl : TRUE
    BY <1>3, Zenon DEF Number
  <2> QED
    BY <1>1, <2>2, <2>3
<1> QED
  BY <1>2, <1>3

\* A sum of a sequence is a sum over its places.
LEMMA SumOfSeq ==
    ASSUME NEW s \in Seq(Int)
    PROVE  SumSeq(s) = SumFunctionOnSet(s, 1..Len(s)) /\ SumSeq(s) \in Int /\ IsFiniteSet(1..Len(s))
           /\ Cardinality(1..Len(s)) = Len(s) /\ DOMAIN s = 1..Len(s) /\ Len(s) \in Nat
<1> DEFINE I == 1..Len(s)
<1>1. Len(s) \in Nat /\ DOMAIN s = I /\ \A i \in I : s[i] \in Int
  OBVIOUS
<1>2. IsFiniteSet(I) /\ Cardinality(I) = Len(s)
  <2>1. \A k \in Nat : IsFiniteSet(1..k) /\ Cardinality(1..k) = k
    BY FS_Interval
  <2> QED
    BY <1>1, <2>1
<1>3. SumSeq(s) = SumFunctionOnSet(s, I)
  <2> HIDE DEF I
  <2> QED
    BY <1>1, Zenon DEF SumSeq, SumFunction
<1>4. SumFunctionOnSet(s, I) \in Int
  <2> HIDE DEF I
  <2> QED
    BY <1>1, <1>2, SumWithout
<1> QED
  BY <1>1, <1>2, <1>3, <1>4

\* Results without a number count as nothing.
LEMMA GainsAreNumbers ==
    ASSUME NEW trail \in Seq(SimulatedEvents)
    PROVE  Gains(trail) \in Seq(Int)
<1> DEFINE results == OfType(trail, "OUTCOME_RECORDED")
<1>1. results \in Seq(SimulatedEvents)
  BY OfTypeIsASequence
<1>2. Gains(trail) = [i \in DOMAIN results |-> Number(results[i])]
  BY DEF Gains
<1> HIDE DEF results
<1>3. \A i \in DOMAIN results : Number(results[i]) \in Int
  BY <1>1, NumberIsANumber
<1> QED
  BY <1>1, <1>2, <1>3

\* The totals after each gain, and the deepest fall of them
Totals(gains) == [n \in 0..Len(gains) |-> SumFunctionOnSet(gains, 1..n)]

\* Each total is the one before and a gain.
LEMMA TotalsAddUp ==
    ASSUME NEW gains \in Seq(Int)
    PROVE  /\ Totals(gains) \in [0..Len(gains) -> Int] /\ Totals(gains)[0] = 0
           /\ \A n \in 1..Len(gains) : Totals(gains)[n] = Totals(gains)[n - 1] + gains[n]
<1> DEFINE t == Totals(gains)
<1>1. Len(gains) \in Nat /\ \A i \in 1..Len(gains) : gains[i] \in Int
  OBVIOUS
<1>2. \A n \in 0..Len(gains) : t[n] = SumFunctionOnSet(gains, 1..n)
  BY DEF Totals
<1>3. \A n \in 0..Len(gains) : SumFunctionOnSet(gains, 1..n) \in Int
  <2> SUFFICES ASSUME NEW n \in 0..Len(gains) PROVE SumFunctionOnSet(gains, 1..n) \in Int
    OBVIOUS
  <2> DEFINE I == 1..n
  <2>1. \A k \in Nat : IsFiniteSet(1..k)
    BY FS_Interval
  <2>2. IsFiniteSet(I) /\ \A i \in I : gains[i] \in Int
    BY <1>1, <2>1
  <2> HIDE DEF I
  <2>3. SumFunctionOnSet(gains, I) \in Int
    BY <2>2, SumWithout
  <2> QED
    BY <2>3 DEF I
<1>4. t[0] = 0
  <2>1. 1..0 = {} /\ 0 \in 0..Len(gains)
    BY <1>1
  <2> QED
    BY <1>2, <2>1, SumOfNone
<1>5. ASSUME NEW n \in 1..Len(gains) PROVE t[n] = t[n - 1] + gains[n]
  <2> DEFINE m == n - 1
  <2>1. m \in Nat /\ n = m + 1 /\ m \in 0..Len(gains) /\ n \in 0..Len(gains)
    BY <1>1
  <2> HIDE DEF m
  <2>2. \A i \in 1..(m + 1) : gains[i] \in Int
    BY <1>1, <2>1
  <2>3. SumFunctionOnSet(gains, 1..(m + 1)) = SumFunctionOnSet(gains, 1..m) + gains[m + 1]
    BY <2>1, <2>2, SumUpTo
  <2> QED
    BY <1>2, <2>1, <2>3, Zenon DEF m
<1>6. t \in [0..Len(gains) -> Int]
  BY <1>2, <1>3 DEF Totals
<1> QED
  BY <1>4, <1>5, <1>6

\* _simulate_drawdown() returns the deepest fall there is.
LEMMA DrawdownIsDeepest ==
    ASSUME NEW gains \in Seq(Int)
    PROVE  /\ SimulateDrawdown(gains) = Max(FallsAmong(Totals(gains), Len(gains)))
           /\ SimulateDrawdown(gains) \in Int /\ SimulateDrawdown(gains) >= 0
<1> DEFINE t == Totals(gains)
           n == Len(gains)
           falls == FallsAmong(t, n)
           deepest == SimulateDrawdown(gains)
<1>1. t \in [0..n -> Int] /\ n \in Nat
  BY TotalsAddUp
<1>2. deepest \in falls /\ \A w \in falls : w <= deepest
  BY TotalsAddUp, DrawdownIsFound
<1>3. \A w \in falls : w \in Int
  <2>1. \A j \in 0..n : \A i \in 0..j : t[i] - t[j] \in Int
    <3> HIDE DEF n, t
    <3>1. \A j \in 0..n : t[j] \in Int /\ \A i \in 0..j : t[i] \in Int
      BY <1>1
    <3> QED
      BY <3>1
  <2> QED
    BY <2>1, FallsOf
<1>4. 0 \in falls
  <2> HIDE DEF n, t
  <2>1. 0 \in 0..n /\ 0 \in 0..0 /\ 0 = t[0] - t[0]
    BY <1>1
  <2> QED
    BY <2>1, FallsOf
<1> HIDE DEF falls, deepest
<1>5. Max(falls) = deepest
  <2>1. \A w \in falls : (\A x \in falls : w >= x) <=> w = deepest
    BY <1>2, <1>3
  <2>2. Max(falls) \in falls /\ \A x \in falls : Max(falls) >= x
    BY <1>2, <2>1, Zenon DEF Max
  <2> QED
    BY <2>1, <2>2
<1>6. deepest \in Int /\ deepest >= 0
  BY <1>2, <1>3, <1>4
<1> QED
  BY <1>5, <1>6 DEF falls, deepest

\* Gains alone never fall.
LEMMA NoLossNoFall ==
    ASSUME NEW gains \in Seq(Int), \A i \in DOMAIN gains : gains[i] >= 0
    PROVE  SimulateDrawdown(gains) = 0
<1> DEFINE t == Totals(gains)
           n == Len(gains)
           Good == {j \in Nat : j <= n => \A i \in 0..j : t[i] <= t[j]}
<1>1. t \in [0..n -> Int] /\ n \in Nat /\ t[0] = 0
  BY TotalsAddUp
<1>2. \A j \in 1..n : t[j] = t[j - 1] + gains[j] /\ gains[j] \in Int /\ gains[j] >= 0
  BY TotalsAddUp
<1>3. SimulateDrawdown(gains) \in FallsAmong(t, n)
  BY TotalsAddUp, DrawdownIsFound
<1> HIDE DEF t, n
<1>4. 0 \in Good
  BY <1>1
<1>5. ASSUME NEW j \in Nat, j \in Good PROVE j + 1 \in Good
  <2> SUFFICES ASSUME j + 1 <= n, NEW i \in 0..(j + 1) PROVE t[i] <= t[j + 1]
    OBVIOUS
  <2>1. j + 1 \in 1..n /\ j \in 0..n /\ (j + 1) - 1 = j /\ j <= n
    BY <1>1
  <2>2. t[j + 1] = t[j] + gains[j + 1] /\ gains[j + 1] \in Int /\ gains[j + 1] >= 0
    BY <1>2, <2>1
  <2>3. t[j] \in Int /\ t[j + 1] \in Int
    BY <1>1, <2>1, <2>2
  <2>4. t[j] <= t[j + 1]
    BY <2>2, <2>3
  <2>5. CASE i = j + 1
    BY <2>3, <2>5
  <2>6. CASE i # j + 1
    <3>1. i \in 0..j /\ i \in 0..n
      <4>1. i \in Int /\ 0 <= i /\ i <= j + 1 /\ j \in Int /\ n \in Int
        BY <1>1
      <4> HIDE DEF Good
      <4> QED
        BY <2>1, <2>6, <4>1
    <3>2. t[i] <= t[j] /\ t[i] \in Int
      BY <1>1, <1>5, <2>1, <3>1
    <3> QED
      BY <2>3, <2>4, <3>2
  <2> QED
    BY <2>5, <2>6
<1>6. Nat \subseteq Good
  <2> HIDE DEF Good
  <2> QED
    BY <1>4, <1>5, Induction
<1>7. PICK j \in 0..n : \E i \in 0..j : SimulateDrawdown(gains) = t[i] - t[j]
  BY <1>3, FallsOf
<1>8. PICK i \in 0..j : SimulateDrawdown(gains) = t[i] - t[j]
  BY <1>7
<1>9. t[i] <= t[j] /\ t[i] \in Int /\ t[j] \in Int
  <2>1. j \in Nat /\ j <= n /\ i \in 0..n
    BY <1>1
  <2>2. j \in Good
    BY <1>6, <2>1
  <2> QED
    BY <1>1, <2>1, <2>2
<1>10. SimulateDrawdown(gains) >= 0
  BY DrawdownIsDeepest
<1> QED
  BY <1>8, <1>9, <1>10

\* The lesser and the greater of a number and 0.
LEMMA AroundNothing ==
    \A x \in Int : /\ Min({0, x}) \in Int /\ Min({0, x}) <= 0
                   /\ Max({0, x}) \in Int /\ Max({0, x}) >= 0
<1> SUFFICES ASSUME NEW x \in Int
             PROVE  /\ Min({0, x}) \in Int /\ Min({0, x}) <= 0
                    /\ Max({0, x}) \in Int /\ Max({0, x}) >= 0
  OBVIOUS
<1>1. \A a \in Int : /\ Max({a, x}) = IF a >= x THEN a ELSE x
                     /\ Min({a, x}) = IF a <= x THEN a ELSE x
  BY MaxOfTwo
<1>2. 0 \in Int
  OBVIOUS
<1>3. Max({0, x}) = (IF 0 >= x THEN 0 ELSE x) /\ Min({0, x}) = IF 0 <= x THEN 0 ELSE x
  BY <1>1, <1>2, Zenon
<1> QED
  BY <1>3

\* _simulate_blocked_trades() never makes the result worse.
LEMMA BlockingNeverCosts ==
    ASSUME NEW trades, NEW results \in Seq(SimulatedEvents), NEW original \in Int
    PROVE  LET simulated == SimulateBlockedTrades(trades, results, original)
           IN  simulated.pnl \in Int /\ simulated.pnl >= original
<1> DEFINE losses == [i \in DOMAIN results |-> Min({0, Number(results[i])})]
           losing == SumSeq(losses)
           nothing == [i \in DOMAIN results |-> 0]
           I == 1..Len(results)
<1>1. \A i \in DOMAIN results : losses[i] \in Int /\ losses[i] <= 0
  <2>1. \A i \in DOMAIN results : losses[i] = Min({0, Number(results[i])}) /\ Number(results[i]) \in Int
    BY NumberIsANumber
  <2> HIDE DEF losses
  <2> QED
    BY <2>1, AroundNothing
<1>2. losses \in Seq(Int) /\ Len(losses) = Len(results) /\ DOMAIN results = I
  <2>1. losses = [i \in DOMAIN results |-> losses[i]]
    OBVIOUS
  <2> HIDE DEF losses
  <2> QED
    BY <1>1, <2>1
<1>3. \A i \in I : losses[i] \in Int /\ nothing[i] \in Int /\ losses[i] <= nothing[i] /\ nothing[i] = 0
  <2>1. \A i \in I : nothing[i] = 0
    BY <1>2
  <2> HIDE DEF losses, nothing
  <2> QED
    BY <1>1, <1>2, <2>1
<1> HIDE DEF losses, nothing
<1>4. losing = SumFunctionOnSet(losses, I) /\ losing \in Int /\ IsFiniteSet(I)
  BY <1>2, SumOfSeq
<1> HIDE DEF losing, I
<1>5. SumFunctionOnSet(losses, I) <= SumFunctionOnSet(nothing, I) /\ SumFunctionOnSet(nothing, I) = 0
  BY <1>3, <1>4, SumAtMost, SumOfNothings
<1>6. losing \div 2 \in Int /\ losing \div 2 <= 0
  BY <1>4, <1>5
<1>7. SimulateBlockedTrades(trades, results, original) \in
          {[pnl |-> original, blocked |-> 0],
           [pnl |-> original - losing \div 2, blocked |-> (Len(results) * 3) \div 10]}
  BY Zenon DEF SimulateBlockedTrades, losing, losses
<1>8. SimulateBlockedTrades(trades, results, original).pnl \in {original, original - losing \div 2}
  <2> HIDE DEF losing
  <2> DEFINE part == losing \div 2
             blocked == (Len(results) * 3) \div 10
  <2>1. SimulateBlockedTrades(trades, results, original) \in
            {[pnl |-> original, blocked |-> 0], [pnl |-> original - part, blocked |-> blocked]}
    BY <1>7
  <2> HIDE DEF part, blocked
  <2>2. SimulateBlockedTrades(trades, results, original).pnl \in {original, original - part}
    BY <2>1
  <2> QED
    BY <2>2 DEF part
<1> DEFINE pnl == SimulateBlockedTrades(trades, results, original).pnl
<1>9. pnl \in {original, original - losing \div 2}
  BY <1>8
<1> HIDE DEF pnl
<1>10. pnl \in Int /\ pnl >= original
  BY <1>6, <1>9
<1> QED
  BY <1>10 DEF pnl

\* What a simulation tells
LEMMA SimulateTells ==
    ASSUME NEW trail \in Seq(SimulatedEvents)
    PROVE  LET results == OfType(trail, "OUTCOME_RECORDED")
               original == SumSeq(Gains(trail))
               violated == Simulate(trail).violated_rules
           IN  /\ Simulate(trail).max_drawdown_original = SimulateDrawdown(Gains(trail))
               /\ Simulate(trail).max_drawdown_counterfactual =
                      SimulateDrawdown([i \in DOMAIN results |-> Max({0, Number(results[i])})])
               /\ Simulate(trail).pnl_difference =
                      SimulateBlockedTrades(OfType(trail, "TRADE_EXECUTED"), results, original).pnl - original
               /\ Simulate(trail).would_have_been_allowed = (violated = <<>>)
               /\ Simulate(trail).rule_impact = RuleImpactFrequency(violated)
<1> DEFINE results == OfType(trail, "OUTCOME_RECORDED")
           judged == OfType(trail, "GOVERNANCE_EVALUATED")
           violated == FlattenSeq([i \in DOMAIN judged |-> judged[i].violations])
           original == SumSeq(Gains(trail))
           simulated == SimulateBlockedTrades(OfType(trail, "TRADE_EXECUTED"), results, original)
           difference == simulated.pnl - original
           blocked == simulated.blocked
           first == SimulateDrawdown(Gains(trail))
           second == SimulateDrawdown([i \in DOMAIN results |-> Max({0, Number(results[i])})])
           impact == RuleImpactFrequency(violated)
           allowed == violated = <<>>
<1>1. Simulate(trail) =
         [would_have_been_allowed |-> allowed, violated_rules |-> violated,
          pnl_difference |-> difference, trades_blocked |-> blocked,
          max_drawdown_original |-> first, max_drawdown_counterfactual |-> second,
          rule_impact |-> impact]
  BY Zenon DEF Simulate
<1> HIDE DEF violated, difference, blocked, first, second, impact, allowed
<1>2. /\ Simulate(trail).max_drawdown_original = first
      /\ Simulate(trail).max_drawdown_counterfactual = second
      /\ Simulate(trail).pnl_difference = difference
      /\ Simulate(trail).would_have_been_allowed = allowed
      /\ Simulate(trail).rule_impact = impact
      /\ Simulate(trail).violated_rules = violated
  BY <1>1
<1> QED
  BY <1>2, Zenon DEF difference, first, second, impact, allowed

\* The rules a simulation finds violated are a sequence of rules.
SimulatedRules == UNION {ToSet(e.violations) : e \in SimulatedEvents}

\* The rules violated in a trail, one after the other.
LEMMA ViolatedIsASequence ==
    ASSUME NEW trail \in Seq(SimulatedEvents)
    PROVE  Simulate(trail).violated_rules \in Seq(SimulatedRules)
<1> DEFINE judged == OfType(trail, "GOVERNANCE_EVALUATED")
           parts == [i \in DOMAIN judged |-> judged[i].violations]
           original == SumSeq(Gains(trail))
           simulated == SimulateBlockedTrades(OfType(trail, "TRADE_EXECUTED"),
                                              OfType(trail, "OUTCOME_RECORDED"), original)
           violated == FlattenSeq(parts)
<1>1. judged \in Seq(SimulatedEvents)
  BY OfTypeIsASequence
<1>2. \A e \in SimulatedEvents : e.violations \in Seq(SimulatedRules)
  <2> SUFFICES ASSUME NEW e \in SimulatedEvents PROVE e.violations \in Seq(SimulatedRules)
    OBVIOUS
  <2>1. e.violations \in Seq(ToSet(e.violations))
    BY CounterfactualAssumption
  <2>2. ToSet(e.violations) \subseteq SimulatedRules
    BY Zenon DEF SimulatedRules
  <2> QED
    BY <2>1, <2>2
<1>3. parts \in Seq(Seq(SimulatedRules))
  <2> HIDE DEF judged
  <2>1. \A i \in DOMAIN judged : judged[i].violations \in Seq(SimulatedRules)
    BY <1>1, <1>2
  <2> QED
    BY <1>1, <2>1
<1> HIDE DEF parts
<1>4. violated \in Seq(SimulatedRules)
  BY <1>3, FlatIsASequence
<1> HIDE DEF violated
<1>5. Simulate(trail).violated_rules = violated
  BY DEF Simulate, violated, parts
<1> QED
  BY <1>4, <1>5

LEMMA NeverCosts == SimulationInv => EnforcementNeverCosts
<1> SUFFICES ASSUME SimulationInv, NEW c \in SimulatedIds
             PROVE  /\ Simulate(trails[c]).pnl_difference >= 0
                    /\ Simulate(trails[c]).max_drawdown_counterfactual <=
                           Simulate(trails[c]).max_drawdown_original
  BY DEF EnforcementNeverCosts
<1>1. PICK trail \in Seq(SimulatedEvents) : trail = trails[c]
  BY DEF SimulationInv
<1> DEFINE results == OfType(trail, "OUTCOME_RECORDED")
           kept == [i \in DOMAIN results |-> Max({0, Number(results[i])})]
           original == SumSeq(Gains(trail))
           pnl == SimulateBlockedTrades(OfType(trail, "TRADE_EXECUTED"), results, original).pnl
<1>2. results \in Seq(SimulatedEvents)
  BY OfTypeIsASequence
<1>3. original \in Int
  BY GainsAreNumbers, SumOfSeq
<1> HIDE DEF results, original
<1>4. pnl \in Int /\ pnl >= original
  BY <1>2, <1>3, BlockingNeverCosts
<1>5. \A i \in DOMAIN results : kept[i] \in Int /\ kept[i] >= 0
  <2>1. \A i \in DOMAIN results : kept[i] = Max({0, Number(results[i])}) /\ Number(results[i]) \in Int
    BY <1>2, NumberIsANumber
  <2> HIDE DEF kept
  <2> QED
    BY <2>1, AroundNothing
<1>6. kept \in Seq(Int) /\ DOMAIN kept = DOMAIN results
  <2>1. kept = [i \in DOMAIN results |-> kept[i]]
    OBVIOUS
  <2> HIDE DEF kept
  <2> QED
    BY <1>2, <1>5, <2>1
<1> HIDE DEF kept, pnl
<1>7. SimulateDrawdown(kept) = 0
  BY <1>5, <1>6, NoLossNoFall
<1>8. SimulateDrawdown(Gains(trail)) \in Int /\ SimulateDrawdown(Gains(trail)) >= 0
  BY GainsAreNumbers, DrawdownIsDeepest
<1>9. Simulate(trail).pnl_difference = pnl - original
  BY SimulateTells DEF pnl, results, original
<1>10. Simulate(trail).max_drawdown_original = SimulateDrawdown(Gains(trail))
       /\ Simulate(trail).max_drawdown_counterfactual = SimulateDrawdown(kept)
  BY SimulateTells DEF kept, results
<1> QED
  BY <1>1, <1>3, <1>4, <1>7, <1>8, <1>9, <1>10

\* The drawdown that a simulation reports, over the gains of its trail.
LEMMA OriginalFallsDeepest ==
    ASSUME NEW trail \in Seq(SimulatedEvents)
    PROVE  LET gains == Gains(trail)
               total(n) == SumFunctionOnSet(gains, 1..n)
           IN  Simulate(trail).max_drawdown_original =
                   Max(UNION {{total(i) - total(j) : i \in 0..j} : j \in 0..Len(gains)})
<1> DEFINE gains == Gains(trail)
           n == Len(gains)
           total(k) == SumFunctionOnSet(gains, 1..k)
           falls == UNION {{total(i) - total(j) : i \in 0..j} : j \in 0..n}
           t == Totals(gains)
<1>2. gains \in Seq(Int)
  BY GainsAreNumbers
<1> HIDE DEF gains
<1>3. n \in Nat
  BY <1>2
<1>4. \A j \in 0..n : \A i \in 0..j : t[i] = total(i) /\ t[j] = total(j)
  <2>1. \A j \in 0..n : \A i \in 0..j : i \in 0..n
    BY <1>3
  <2> QED
    BY <2>1 DEF Totals
<1> HIDE DEF n, t
<1>5. \A w : w \in falls <=> \E j \in 0..n : \E i \in 0..j : w = total(i) - total(j)
  <2> SUFFICES ASSUME NEW w
               PROVE  w \in falls <=> \E j \in 0..n : \E i \in 0..j : w = total(i) - total(j)
    OBVIOUS
  <2>1. ASSUME w \in falls PROVE \E j \in 0..n : \E i \in 0..j : w = total(i) - total(j)
    BY <2>1
  <2>2. ASSUME NEW j \in 0..n, NEW i \in 0..j, w = total(i) - total(j) PROVE w \in falls
    <3>1. w \in {total(k) - total(j) : k \in 0..j}
      BY <2>2
    <3>2. {total(k) - total(j) : k \in 0..j} \in {{total(k) - total(l) : k \in 0..l} : l \in 0..n}
      OBVIOUS
    <3> QED
      BY <3>1, <3>2, Zenon
  <2> QED
    BY <2>1, <2>2
<1> HIDE DEF falls
<1>6. \A w : w \in falls <=> w \in FallsAmong(t, n)
  BY <1>4, <1>5, FallsOf
<1>7. falls = FallsAmong(t, n)
  BY <1>6, Zenon
<1>8. SimulateDrawdown(gains) = Max(FallsAmong(t, n))
  BY <1>2, DrawdownIsDeepest DEF t, n
<1>9. Simulate(trail).max_drawdown_original = SimulateDrawdown(gains)
  BY SimulateTells DEF gains
<1>10. Simulate(trail).max_drawdown_original = Max(falls)
  BY <1>7, <1>8, <1>9, Zenon
<1> QED
  BY <1>10, Zenon DEF falls, n, gains

LEMMA FallIsDeepest == SimulationInv => DrawdownIsDeepestFall
<1> SUFFICES ASSUME SimulationInv PROVE DrawdownIsDeepestFall
  OBVIOUS
<1>1. \A c \in SimulatedIds : trails[c] \in Seq(SimulatedEvents)
  BY DEF SimulationInv
<1>2. \A trail \in Seq(SimulatedEvents) :
          LET gains == Gains(trail)
              total(n) == SumFunctionOnSet(gains, 1..n)
          IN  Simulate(trail).max_drawdown_original =
                  Max(UNION {{total(i) - total(j) : i \in 0..j} : j \in 0..Len(gains)})
  BY OriginalFallsDeepest
<1> QED
  BY <1>1, <1>2, Zenon DEF DrawdownIsDeepestFall

-----------------------------------------------------------------------------
(* Totals of a batch *)

LEMMA PlacesAreFinite == \A k \in Nat : IsFiniteSet(1..k) /\ Cardinality(1..k) = k
  BY FS_Interval

Occurrences(s, r) == {k \in DOMAIN s : s[k] = r}

\* Each rule of a sequence counted, the counts come to its length.
LEMMA CountsAddUp ==
    ASSUME NEW S, NEW s \in Seq(S), NEW kinds, IsFiniteSet(kinds), ToSet(s) \subseteq kinds
    PROVE  SumFunctionOnSet([r \in kinds |-> Cardinality(Occurrences(s, r))], kinds) = Len(s)
<1> DEFINE places == DOMAIN s
           M == [x \in kinds \X places |-> IF s[x[2]] = x[1] THEN 1 ELSE 0]
           row(r) == [k \in places |-> M[<<r, k>>]]
           column(k) == [r \in kinds |-> M[<<r, k>>]]
           rows == [r \in kinds |-> SumFunctionOnSet([k \in places |-> M[<<r, k>>]], places)]
           columns == [k \in places |-> SumFunctionOnSet([r \in kinds |-> M[<<r, k>>]], kinds)]
           counts == [r \in kinds |-> Cardinality(Occurrences(s, r))]
<1>1. Len(s) \in Nat /\ IsFiniteSet(places) /\ Cardinality(places) = Len(s)
  <2>1. places = 1..Len(s) /\ Len(s) \in Nat
    OBVIOUS
  <2> QED
    BY <2>1, PlacesAreFinite
<1>2. \A k \in places : s[k] \in kinds
  BY DEF ToSet
<1>3. \A r \in kinds, k \in places :
          M[<<r, k>>] \in Int /\ M[<<r, k>>] = IF s[k] = r THEN 1 ELSE 0
  <2> SUFFICES ASSUME NEW r \in kinds, NEW k \in places
               PROVE  M[<<r, k>>] \in Int /\ M[<<r, k>>] = IF s[k] = r THEN 1 ELSE 0
    OBVIOUS
  <2> HIDE DEF places
  <2>1. <<r, k>> \in kinds \X places /\ <<r, k>>[1] = r /\ <<r, k>>[2] = k
    OBVIOUS
  <2>2. M[<<r, k>>] = IF s[k] = r THEN 1 ELSE 0
    BY <2>1
  <2> QED
    BY <2>2
<1> HIDE DEF M, places
<1>4. \A r \in kinds : rows[r] = counts[r] /\ rows[r] \in Int
  <2> SUFFICES ASSUME NEW r \in kinds PROVE rows[r] = counts[r] /\ rows[r] \in Int
    OBVIOUS
  <2> DEFINE P == {k \in places : s[k] = r}
             f == row(r)
  <2>1. P \subseteq places /\ \A k \in places : f[k] = IF k \in P THEN 1 ELSE 0
    BY <1>3
  <2>2. rows[r] = SumFunctionOnSet(f, places)
    OBVIOUS
  <2>3. counts[r] = Cardinality(P)
    BY DEF Occurrences, places
  <2>4. Cardinality(P) \in Nat
    BY <1>1, FS_Subset, FS_CardinalityType
  <2> HIDE DEF f, P, rows, counts
  <2>5. SumFunctionOnSet(f, places) = Cardinality(P)
    BY <1>1, <2>1, SumOfMarks
  <2> QED
    BY <2>2, <2>3, <2>4, <2>5
<1>5. \A k \in places : columns[k] = 1
  <2> SUFFICES ASSUME NEW k \in places PROVE columns[k] = 1
    OBVIOUS
  <2> DEFINE P == {s[k]}
             f == column(k)
  <2>1. P \subseteq kinds /\ \A r \in kinds : f[r] = IF r \in P THEN 1 ELSE 0
    BY <1>2, <1>3
  <2>2. columns[k] = SumFunctionOnSet(f, kinds)
    OBVIOUS
  <2>3. Cardinality(P) = 1
    BY FS_Singleton
  <2> HIDE DEF f, P, columns
  <2>4. SumFunctionOnSet(f, kinds) = Cardinality(P)
    BY <2>1, SumOfMarks
  <2> QED
    BY <2>2, <2>3, <2>4
<1>6. SumFunctionOnSet(rows, kinds) = SumFunctionOnSet(columns, places)
  <2>1. \A r \in kinds, k \in places : M[<<r, k>>] \in Int
    BY <1>3
  <2> QED
    BY <1>1, <2>1, SumSwaps
<1> HIDE DEF rows, columns, counts
<1>7. SumFunctionOnSet(rows, kinds) = SumFunctionOnSet(counts, kinds)
  BY <1>4, SumSame
<1>8. SumFunctionOnSet(columns, places) = Len(s)
  <2>1. PICK one \in Int : one = 1
    OBVIOUS
  <2>2. SumFunctionOnSet(columns, places) = one * Cardinality(places)
    BY <1>1, <1>5, <2>1, SumOfEqual
  <2>3. \A n \in Nat : one * n = n
    BY <2>1
  <2> QED
    BY <1>1, <2>2, <2>3
<1>9. SumFunctionOnSet(counts, kinds) = Len(s)
  BY <1>1, <1>6, <1>7, <1>8
<1> QED
  BY <1>9 DEF counts

\* A summary's totals by rule come to the violations of its results.
LEMMA SummaryAddsUp ==
    ASSUME NEW S, NEW results, DOMAIN results = {1, 2},
           \A i \in {1, 2} : /\ results[i].violated_rules \in Seq(S)
                             /\ results[i].would_have_been_allowed = (results[i].violated_rules = <<>>)
                             /\ results[i].rule_impact = RuleImpactFrequency(results[i].violated_rules)
    PROVE  SumFunction(BatchSummary(results).rule_violation_totals) = BatchSummary(results).total_violations
<1> DEFINE I == {1, 2}
           v(i) == results[i].violated_rules
           kinds == UNION {DOMAIN results[i].rule_impact : i \in I}
           blocked == {i \in I : ~results[i].would_have_been_allowed}
           M == [x \in kinds \X I |-> Cardinality(Occurrences(v(x[2]), x[1]))]
           counted(r) == [i \in I |-> IF r \in DOMAIN results[i].rule_impact
                                      THEN results[i].rule_impact[r] ELSE 0]
           totals == [r \in kinds |-> SumSeq([i \in DOMAIN results |->
                         IF r \in DOMAIN results[i].rule_impact THEN results[i].rule_impact[r] ELSE 0])]
           rows == [r \in kinds |-> SumFunctionOnSet([i \in I |-> M[<<r, i>>]], I)]
           columns == [i \in I |-> SumFunctionOnSet([r \in kinds |-> M[<<r, i>>]], kinds)]
           lengths == [i \in I |-> Len(v(i))]
           some == [i \in blocked |-> Len(results[i].violated_rules)]
<1>1. IsFiniteSet(I)
  <2>1. IsFiniteSet({1}) /\ IsFiniteSet({2})
    BY FS_Singleton
  <2>2. IsFiniteSet({1} \cup {2})
    BY <2>1, FS_Union
  <2>3. I = {1} \cup {2}
    OBVIOUS
  <2> QED
    BY <2>2, <2>3, Zenon
<1>2. \A i \in I : /\ DOMAIN results[i].rule_impact = ToSet(v(i)) /\ v(i) \in Seq(S)
                   /\ IsFiniteSet(ToSet(v(i))) /\ Len(v(i)) \in Nat /\ (v(i) = <<>> <=> Len(v(i)) = 0)
                   /\ \A r \in ToSet(v(i)) :
                         results[i].rule_impact[r] = Cardinality(Occurrences(v(i), r))
  <2> SUFFICES ASSUME NEW i \in I
               PROVE  /\ DOMAIN results[i].rule_impact = ToSet(v(i)) /\ v(i) \in Seq(S)
                      /\ IsFiniteSet(ToSet(v(i))) /\ Len(v(i)) \in Nat /\ (v(i) = <<>> <=> Len(v(i)) = 0)
                      /\ \A r \in ToSet(v(i)) :
                            results[i].rule_impact[r] = Cardinality(Occurrences(v(i), r))
    OBVIOUS
  <2>1. PICK s \in Seq(S) : s = v(i)
    OBVIOUS
  <2>2. results[i].rule_impact = [r \in ToSet(s) |-> Cardinality(Occurrences(s, r))]
    <3>1. results[i].rule_impact = RuleImpactFrequency(s)
      BY <2>1
    <3> QED
      BY <3>1, Zenon DEF RuleImpactFrequency, Occurrences
  <2>3. IsFiniteSet(ToSet(s))
    <3> DEFINE places == DOMAIN s
    <3>1. places = 1..Len(s) /\ Len(s) \in Nat
      OBVIOUS
    <3>2. IsFiniteSet(places)
      BY <3>1, PlacesAreFinite
    <3>3. s \in Surjection(places, ToSet(s))
      <4>1. s = [k \in places |-> s[k]] /\ ToSet(s) = {s[k] : k \in places}
        BY DEF ToSet
      <4> HIDE DEF places
      <4> QED
        BY <4>1 DEF Surjection
    <3> QED
      BY <3>2, <3>3, FS_Surjection
  <2>4. Len(s) \in Nat /\ (s = <<>> <=> Len(s) = 0)
    OBVIOUS
  <2> QED
    BY <2>1, <2>2, <2>3, <2>4
<1>3. kinds = ToSet(v(1)) \cup ToSet(v(2)) /\ IsFiniteSet(kinds)
  <2>1. kinds = DOMAIN results[1].rule_impact \cup DOMAIN results[2].rule_impact
    OBVIOUS
  <2> HIDE DEF kinds
  <2>2. kinds = ToSet(v(1)) \cup ToSet(v(2))
    BY <1>2, <2>1
  <2> QED
    BY <1>2, <2>2, FS_Union
<1>4. \A i \in I : ToSet(v(i)) \subseteq kinds
  <2> HIDE DEF kinds
  <2> QED
    BY <1>3
<1> HIDE DEF v, kinds
<1>5. \A r, i : Occurrences(v(i), r) = {k \in DOMAIN v(i) : v(i)[k] = r}
  BY DEF Occurrences
<1>6. \A r \in kinds, i \in I : /\ M[<<r, i>>] = Cardinality(Occurrences(v(i), r))
                                /\ M[<<r, i>>] \in Int
  <2> SUFFICES ASSUME NEW r \in kinds, NEW i \in I
               PROVE  M[<<r, i>>] = Cardinality(Occurrences(v(i), r)) /\ M[<<r, i>>] \in Int
    OBVIOUS
  <2>1. M[<<r, i>>] = Cardinality(Occurrences(v(i), r))
    <3> HIDE DEF I
    <3>1. <<r, i>> \in kinds \X I /\ <<r, i>>[1] = r /\ <<r, i>>[2] = i
      OBVIOUS
    <3> QED
      BY <3>1
  <2>2. IsFiniteSet(DOMAIN v(i))
    <3>1. PICK s \in Seq(S) : s = v(i)
      BY <1>2
    <3>2. DOMAIN s = 1..Len(s) /\ Len(s) \in Nat
      OBVIOUS
    <3>3. IsFiniteSet(DOMAIN s)
      BY <3>2, PlacesAreFinite
    <3> QED
      BY <3>1, <3>3
  <2>3. IsFiniteSet(Occurrences(v(i), r))
    BY <1>5, <2>2, FS_Subset
  <2>4. Cardinality(Occurrences(v(i), r)) \in Int
    BY <2>3, FS_CardinalityType
  <2> QED
    BY <2>1, <2>4
<1> HIDE DEF M
<1>7. \A r \in kinds, i \in I : counted(r)[i] = M[<<r, i>>]
  <2> SUFFICES ASSUME NEW r \in kinds, NEW i \in I PROVE counted(r)[i] = M[<<r, i>>]
    OBVIOUS
  <2> HIDE DEF I
  <2>1. CASE r \in ToSet(v(i))
    BY <1>2, <1>6, <2>1
  <2>2. CASE r \notin ToSet(v(i))
    <3>1. Occurrences(v(i), r) = {}
      BY <1>5, <2>2 DEF ToSet
    <3>2. M[<<r, i>>] = 0
      BY <1>6, <3>1, FS_EmptySet
    <3>3. counted(r)[i] = 0
      BY <1>2, <2>2
    <3> QED
      BY <3>2, <3>3
  <2> QED
    BY <2>1, <2>2
<1> HIDE DEF I
<1>8. \A r \in kinds : totals[r] = rows[r] /\ rows[r] \in Int
  <2> SUFFICES ASSUME NEW r \in kinds PROVE totals[r] = rows[r] /\ rows[r] \in Int
    OBVIOUS
  <2> DEFINE f == counted(r)
             g == [i \in I |-> M[<<r, i>>]]
  <2>1. totals[r] = SumFunctionOnSet(f, I)
    <3>1. DOMAIN results = I
      BY DEF I
    <3>2. totals[r] = SumSeq(f)
      BY <3>1
    <3>3. DOMAIN f = I
      OBVIOUS
    <3> QED
      BY <3>2, <3>3, Zenon DEF SumSeq, SumFunction
  <2>2. \A i \in I : f[i] = g[i] /\ g[i] \in Int /\ f[i] \in Int
    BY <1>6, <1>7
  <2>3. rows[r] = SumFunctionOnSet(g, I)
    OBVIOUS
  <2> HIDE DEF f, g, rows, totals
  <2>4. SumFunctionOnSet(f, I) = SumFunctionOnSet(g, I) /\ SumFunctionOnSet(g, I) \in Int
    BY <1>1, <2>2, SumSame, SumWithout
  <2> QED
    BY <2>1, <2>3, <2>4
<1>9. \A i \in I : columns[i] = lengths[i] /\ columns[i] \in Int
  <2> SUFFICES ASSUME NEW i \in I PROVE columns[i] = lengths[i] /\ columns[i] \in Int
    OBVIOUS
  <2> DEFINE f == [r \in kinds |-> Cardinality(Occurrences(v(i), r))]
             g == [r \in kinds |-> M[<<r, i>>]]
  <2>1. columns[i] = SumFunctionOnSet(g, kinds) /\ lengths[i] = Len(v(i))
    OBVIOUS
  <2>2. f = g
    BY <1>6
  <2>3. SumFunctionOnSet(f, kinds) = Len(v(i))
    BY <1>2, <1>3, <1>4, CountsAddUp
  <2>4. Len(v(i)) \in Int
    BY <1>2
  <2> QED
    BY <2>1, <2>2, <2>3, <2>4
<1>10. SumFunctionOnSet(rows, kinds) = SumFunctionOnSet(columns, I)
  <2>1. \A r \in kinds, i \in I : M[<<r, i>>] \in Int
    BY <1>6
  <2>2. IsFiniteSet(kinds)
    BY <1>3
  <2> HIDE DEF totals, lengths, some, blocked
  <2> QED
    BY <1>1, <2>1, <2>2, SumSwaps, ZenonT(90)
<1>11. SumFunction(some) = SumFunctionOnSet(some, blocked)
  <2>1. DOMAIN some = blocked
    OBVIOUS
  <2> HIDE DEF some, blocked
  <2> QED
    BY <2>1, Zenon DEF SumFunction
<1>12. /\ blocked \subseteq I
       /\ \A i \in blocked : some[i] = lengths[i]
       /\ \A i \in I \ blocked : lengths[i] = 0
       /\ \A i \in I : lengths[i] \in Int
  <2>1. \A i \in I : lengths[i] = Len(v(i))
    OBVIOUS
  <2>2. \A i \in I : results[i].would_have_been_allowed <=> v(i) = <<>>
    BY DEF I, v
  <2>3. \A i \in blocked : some[i] = Len(v(i)) /\ i \in I
    BY DEF v
  <2> HIDE DEF some, lengths
  <2> QED
    BY <1>2, <2>1, <2>2, <2>3
<1>13. SumFunction(totals) = SumFunctionOnSet(totals, kinds)
  <2>1. DOMAIN totals = kinds
    OBVIOUS
  <2> HIDE DEF totals
  <2> QED
    BY <2>1, Zenon DEF SumFunction
<1>14. /\ BatchSummary(results).rule_violation_totals = totals
       /\ BatchSummary(results).total_violations = SumFunction(some)
  <2> DEFINE size == Len(results)
             number == Cardinality(blocked)
             difference == SumSeq([i \in DOMAIN results |-> results[i].pnl_difference])
             violations == SumFunction(some)
  <2>1. BatchSummary(results) =
            [total_simulations |-> size, blocked_count |-> number, total_violations |-> violations,
             total_pnl_difference |-> difference, rule_violation_totals |-> totals]
    <3>1. DOMAIN results = I
      BY DEF I
    <3> QED
      BY <3>1, Zenon DEF BatchSummary, kinds
  <2> HIDE DEF size, number, difference, violations, totals
  <2>2. BatchSummary(results).rule_violation_totals = totals
        /\ BatchSummary(results).total_violations = violations
    BY <2>1
  <2> QED
    BY <2>2 DEF violations
<1> HIDE DEF totals, rows, columns, lengths, some, blocked
<1>15. SumFunctionOnSet(totals, kinds) = SumFunctionOnSet(rows, kinds)
  <2>1. \A r \in kinds : rows[r] \in Int /\ rows[r] = totals[r]
    BY <1>8
  <2> QED
    BY <1>3, <2>1, SumSame
<1>16. SumFunctionOnSet(columns, I) = SumFunctionOnSet(lengths, I)
  BY <1>1, <1>9, SumSame
<1>17. SumFunctionOnSet(lengths, I) = SumFunctionOnSet(lengths, blocked)
  BY <1>1, <1>12, SumOfPart
<1>18. SumFunctionOnSet(some, blocked) = SumFunctionOnSet(lengths, blocked)
  <2>1. IsFiniteSet(blocked)
    BY <1>1, <1>12, FS_Subset
  <2>2. \A i \in blocked : lengths[i] \in Int /\ lengths[i] = some[i]
    BY <1>12
  <2> QED
    BY <2>1, <2>2, SumSame
<1> QED
  BY <1>10, <1>11, <1>13, <1>14, <1>15, <1>16, <1>17, <1>18, Zenon

LEMMA BatchesAddUp == SimulationInv => BatchAddsUp
<1> SUFFICES ASSUME SimulationInv, NEW ids \in SimulatedIds \X SimulatedIds
             PROVE  SumFunction(SimulateBatch(ids).rule_violation_totals)
                    = SimulateBatch(ids).total_violations
  BY DEF BatchAddsUp
<1> DEFINE results == [i \in DOMAIN ids |-> Simulate(trails[ids[i]])]
<1>1. DOMAIN ids = {1, 2} /\ \A i \in {1, 2} : ids[i] \in SimulatedIds
  OBVIOUS
<1>2. \A i \in {1, 2} : results[i] = Simulate(trails[ids[i]]) /\ trails[ids[i]] \in Seq(SimulatedEvents)
  <2> HIDE DEF SimulationInv
  <2>1. \A i \in {1, 2} : results[i] = Simulate(trails[ids[i]])
    BY <1>1
  <2>2. \A i \in {1, 2} : trails[ids[i]] \in Seq(SimulatedEvents)
    BY <1>1 DEF SimulationInv
  <2> QED
    BY <2>1, <2>2
<1>3. DOMAIN results = {1, 2}
  BY <1>1
<1> HIDE DEF results
<1>4. ASSUME NEW i \in {1, 2}
      PROVE  /\ results[i].violated_rules \in Seq(SimulatedRules)
             /\ results[i].would_have_been_allowed = (results[i].violated_rules = <<>>)
             /\ results[i].rule_impact = RuleImpactFrequency(results[i].violated_rules)
  <2>1. PICK trail \in Seq(SimulatedEvents) : results[i] = Simulate(trail)
    BY <1>2
  <2>2. Simulate(trail).violated_rules \in Seq(SimulatedRules)
    BY ViolatedIsASequence
  <2>3. Simulate(trail).would_have_been_allowed = (Simulate(trail).violated_rules = <<>>)
        /\ Simulate(trail).rule_impact = RuleImpactFrequency(Simulate(trail).violated_rules)
    BY SimulateTells
  <2> QED
    BY <2>1, <2>2, <2>3, Zenon
<1>5. SumFunction(BatchSummary(results).rule_violation_totals) = BatchSummary(results).total_violations
  BY <1>3, <1>4, SummaryAddsUp
<1> QED
  BY <1>5, Zenon DEF SimulateBatch, results

\* simulate() and simulate_batch() are true of whatever timelines they read.
THEOREM SimulationsAreSound == SimulationSpec => []SimulationIsSound
<1>1. SimulationInv => SimulationIsSound
  BY NeverCosts, FallIsDeepest, BatchesAddUp DEF SimulationIsSound
<1> QED
  BY <1>1, SimulationStart, SimulationStep, PTL DEF SimulationSpec

\* What is fetched, and what trends, decays and clusters tell, is true of the archive.
THEOREM MemoriesAreSound == IntelligenceSpec => []MemoryIsSound
<1>1. MemoryInv => MemoryIsSound
  BY TrendsDoAgree, DecaysAreRuns, ClustersStayMinor DEF MemoryInv, MemoryIsSound
<1> QED
  BY <1>1, MemoryStart, MemoryStep, PTL DEF IntelligenceSpec

-----------------------------------------------------------------------------
(* Types *)

\* A session counts entries of the log, so it counts no more than the log has.
LEMMA ReplaysAreFew ==
    ASSUME ReviewTypes, NEW id, NEW type
    PROVE  Replayed(allReviews, id, type) \in 0..MaxReviews
<1> DEFINE places == DOMAIN allReviews
           heard == {i \in places : /\ allReviews[i].session_id = id /\ allReviews[i].type = type
                                   /\ CreatedAt(allReviews, id) # {}
                                   /\ i > Max(CreatedAt(allReviews, id))}
<1>1. Replayed(allReviews, id, type) = Cardinality(heard)
  BY DEF Replayed, CreatedAt
<1>2. places = 1..Len(allReviews) /\ Len(allReviews) \in Nat /\ Len(allReviews) <= MaxReviews
  BY LenProperties DEF ReviewTypes
<1>3. IsFiniteSet(places) /\ Cardinality(places) = Len(allReviews)
  <2>1. PICK n \in Nat : n = Len(allReviews)
    BY <1>2
  <2>2. \A k \in Nat : IsFiniteSet(1..k) /\ Cardinality(1..k) = k
    BY FS_Interval
  <2> QED
    BY <1>2, <2>1, <2>2
<1>4. heard \subseteq places
  OBVIOUS
<1> HIDE DEF heard, places
<1>5. Cardinality(heard) \in Nat /\ Cardinality(heard) <= Cardinality(places)
  BY <1>3, <1>4, FS_Subset, FS_CardinalityType
<1> QED
  BY <1>1, <1>2, <1>3, <1>5, HumanReviewAssumption

\* The review service keeps its types.
THEOREM ReviewsKeepTheirTypes == ReviewSpec => []HumanReviewTypeOK
<1>1. ReviewInv => HumanReviewTypeOK
  <2> SUFFICES ASSUME ReviewInv PROVE HumanReviewTypeOK
    OBVIOUS
  <2>1. ReviewTypes
    BY DEF ReviewInv
  <2>2. ASSUME NEW id \in DOMAIN reviewSessions
        PROVE  reviewSessions[id] \in [status : ReviewStatus, annotation_count : 0..MaxReviews,
                                       disagreement_count : 0..MaxReviews]
    <3>1. /\ reviewSessions[id].annotation_count \in 0..MaxReviews
          /\ reviewSessions[id].disagreement_count \in 0..MaxReviews
      BY <2>1, ReplaysAreFew DEF ReviewInv, ToldBy
    <3>2. reviewSessions[id] \in ReviewSession
      BY <2>1 DEF ReviewTypes
    <3> QED
      BY <3>1, <3>2 DEF ReviewSession
  <2>3. DOMAIN reviewSessions = DOMAIN annotations /\ DOMAIN reviewSessions = DOMAIN disagreements
    BY <2>1 DEF ReviewTypes
  <2> QED
    BY <2>1, <2>2, <2>3 DEF HumanReviewTypeOK, ReviewTypes
<1> QED
  BY <1>1, ReviewStart, ReviewStep, PTL DEF ReviewSpec

\* The simulator keeps its types.
THEOREM TrailsKeepTheirTypes == SimulationSpec => []CounterfactualTypeOK
<1>1. SimulationInv => CounterfactualTypeOK
  <2> SUFFICES ASSUME SimulationInv, NEW c \in SimulatedIds
               PROVE  ToSet(trails[c]) \subseteq SimulatedEvents
    BY DEF CounterfactualTypeOK
  <2>1. trails[c] \in Seq(SimulatedEvents)
    BY DEF SimulationInv
  <2> QED
    BY <2>1, ElementOfSeq, LenProperties DEF ToSet
<1> QED
  BY <1>1, SimulationStart, SimulationStep, PTL DEF SimulationSpec

\* The archive and its memory keep their types.
THEOREM MemoriesKeepTheirTypes == IntelligenceSpec => []IntelligenceTypeOK
<1>1. MemoryInv => IntelligenceTypeOK
  <2> SUFFICES ASSUME MemoryInv PROVE IntelligenceTypeOK
    OBVIOUS
  <2>1. ToSet(archive) \subseteq Archivable
    BY ElementOfSeq, LenProperties DEF MemoryInv, ToSet
  <2> QED
    BY <2>1 DEF MemoryInv, IntelligenceTypeOK, Archivable
<1> QED
  BY <1>1, MemoryStart, MemoryStep, PTL DEF IntelligenceSpec

-----------------------------------------------------------------------------
(* The services side by side *)

\* A behaviour of the services begins where each of them begins,
LEMMA ServicesBegin ==
    ServicesInit =>
        /\ Init /\ OrchestrationInit /\ StepRunnerInit /\ PolicyChainInit /\ TimelineInit
        /\ OutcomePolicyInit /\ GovernanceInit /\ HumanReviewInit /\ DecisionRoutingInit
        /\ PlanExecutionInit /\ CounterfactualInit /\ IntelligenceInit
BY DEF ServicesInit

\* and a step of it is a step of each, or nothing to it.
LEMMA ServicesMove ==
    [ServicesNext]_allVars =>
        /\ [Next]_vars /\ [CooldownNext \/ CorrelationNext]_orchestrationVars
        /\ [StepRunnerNext]_planRun /\ [PolicyChainNext]_chainVars
        /\ [TimelineNext]_timelineVars /\ [OutcomePolicyNext]_outcomeVars
        /\ [GovernanceNext]_governanceVars /\ [HumanReviewNext]_reviewVars
        /\ [DecisionRoutingNext]_routingVars /\ [PlanExecutionNext]_planCall
        /\ [CounterfactualNext]_trails /\ [IntelligenceNext]_intelligenceVars
<1> SUFFICES ASSUME [ServicesNext]_allVars
             PROVE  /\ [Next]_vars /\ [CooldownNext \/ CorrelationNext]_orchestrationVars
                    /\ [StepRunnerNext]_planRun /\ [PolicyChainNext]_chainVars
                    /\ [TimelineNext]_timelineVars /\ [OutcomePolicyNext]_outcomeVars
                    /\ [GovernanceNext]_governanceVars /\ [HumanReviewNext]_reviewVars
                    /\ [DecisionRoutingNext]_routingVars /\ [PlanExecutionNext]_planCall
                    /\ [CounterfactualNext]_trails /\ [IntelligenceNext]_intelligenceVars
  OBVIOUS
<1>1. CASE UNCHANGED allVars
  BY <1>1 DEF allVars
<1>2. CASE ServicesNext
  <2>1. (CooldownNext \/ CorrelationNext) \/ UNCHANGED orchestrationVars
    BY <1>2 DEF ServicesNext, Idle
  <2>2. [Next]_vars /\ [StepRunnerNext]_planRun /\ [PolicyChainNext]_chainVars
    BY <1>2 DEF ServicesNext, Idle
  <2>3. [TimelineNext]_timelineVars /\ [OutcomePolicyNext]_outcomeVars /\ [GovernanceNext]_governanceVars
    BY <1>2 DEF ServicesNext, Idle
  <2>4. [HumanReviewNext]_reviewVars /\ [DecisionRoutingNext]_routingVars /\ [PlanExecutionNext]_planCall
    BY <1>2 DEF ServicesNext, Idle, DecisionRoutingNext
  <2>5. [CounterfactualNext]_trails /\ [IntelligenceNext]_intelligenceVars
    BY <1>2 DEF ServicesNext, Idle
  <2> QED
    BY <2>1, <2>2, <2>3, <2>4, <2>5
<1> QED
  BY <1>1, <1>2

\* So what each service promises holds of the services side by side.
LEMMA EachServiceRuns ==
    ServicesSpec =>
        /\ Spec /\ OrchestrationSpec /\ StepRunnerSpec /\ PolicyChainSpec /\ TimelineSpec
        /\ OutcomePolicySpec /\ GovernanceSpec /\ ReviewSpec /\ RoutingSpec
        /\ PlanExecutionSpec /\ SimulationSpec /\ IntelligenceSpec
BY ServicesBegin, ServicesMove, PTL
   DEF ServicesSpec, Spec, OrchestrationSpec, StepRunnerSpec, PolicyChainSpec, TimelineSpec,
       OutcomePolicySpec, GovernanceSpec, ReviewSpec, RoutingSpec, PlanExecutionSpec,
       SimulationSpec, IntelligenceSpec

\* What timeline, review, simulator, archive and memory keep and compute is true of
\* what happened, whichever service moves.
THEOREM AnalyticsHold == ServicesSpec => []DecisionAnalyticsHold
<1>1. TimelineIsSound /\ ReviewsReplay /\ SimulationIsSound /\ MemoryIsSound => DecisionAnalyticsHold
  BY DEF DecisionAnalyticsHold
<1> QED
  BY <1>1, EachServiceRuns, TimelinesAreSound, ReviewsAreReplayed, SimulationsAreSound,
     MemoriesAreSound, PTL

\* Every service keeps its types, whichever service moves.
THEOREM ServicesAreTyped == ServicesSpec => []ServicesTypeOK
<1>1. /\ TypeOK /\ OrchestrationTypeOK /\ StepRunnerTypeOK /\ PolicyChainTypeOK /\ TimelineTypeOK
      /\ OutcomePolicyTypeOK /\ GovernanceTypeOK /\ HumanReviewTypeOK /\ DecisionRoutingTypeOK
      /\ PlanExecutionTypeOK /\ CounterfactualTypeOK /\ IntelligenceTypeOK
      => ServicesTypeOK
  BY DEF ServicesTypeOK
<1> QED
  BY <1>1, EachServiceRuns, ApprovalTypes, ManagersKeepTheirTypes, RunsKeepTheirTypes,
     ChainTypesHold, TimelinesKeepTheirTypes, OutcomesKeepTheirTypes, TradesKeepTheirTypes,
     ReviewsKeepTheirTypes, RoutesKeepTheirTypes, PlansKeepTheirTypes, TrailsKeepTheirTypes,
     MemoriesKeepTheirTypes, PTL
=============================================================================
