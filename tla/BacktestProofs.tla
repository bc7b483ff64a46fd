--------------------------- MODULE BacktestProofs ---------------------------
(***************************************************************************)
(* Proofs about the simulators, the backtest runner, the daily sync and    *)
(* the files of the fetchers: that the books balance, that fills are at    *)
(* prices of their day, that the runner's equity, drawdown and counts are  *)
(* what its trades made, that the sync's pairs, rows and curves agree, and *)
(* that a fetcher's files keep what they hold.  First lemmas about sums    *)
(* over finite sets (SumFunctionOnSet of the community module Functions),  *)
(* which the books add up with, and the inductions they rest on: over the  *)
(* subsets of a finite set, over the naturals and along the steps of a     *)
(* recursive function.  An induction is over a set of what it holds for,   *)
(* not over a predicate.                                                   *)
(***************************************************************************)
EXTENDS TradeSimulator, BacktestRunner, DailySync, NewsFiles, MarketHistory,
        FiniteSetTheorems, WellFoundedInduction, TLAPS

\* The sums so far of a recursion that takes the members of S in an order of its own.
OneOf(T) == CHOOSE x \in T : TRUE
IsRunning(f, S, r) ==
  r = [T \in SUBSET S |-> IF T = {} THEN 0 ELSE f[OneOf(T)] + r[T \ {OneOf(T)}]]

LEMMA SumIs ==
  ASSUME NEW f, NEW S
  PROVE  SumFunctionOnSet(f, S) = (CHOOSE r : IsRunning(f, S, r))[S]
  BY DEF SumFunctionOnSet, FoldFunctionOnSet, MapThenFoldSet, IsRunning, OneOf

\* Among subsets of a finite set, one has no other below it.
LEMMA LeastSubset ==
  ASSUME NEW S, IsFiniteSet(S), NEW C \in SUBSET SUBSET S, C # {}
  PROVE  \E T \in C : \A U \in C : U \subseteq T => U = T
<1>1. IsWellFoundedOn(StrictSubsetOrdering(S), FiniteSubsetsOf(S))
  BY FS_StrictSubsetOrderingWellFounded
<1>2. C \subseteq FiniteSubsetsOf(S)
  BY FS_Subset DEF FiniteSubsetsOf
<1>3. PICK T \in C : \A U \in C : ~(<<U, T>> \in StrictSubsetOrdering(S))
  BY <1>1, <1>2, WFMin
<1>4. \A U \in C : U \subseteq T => U = T
  BY <1>3 DEF StrictSubsetOrdering
<1> QED
  BY <1>4

LEMMA OneOfIn ==
  ASSUME NEW T, T # {}
  PROVE  OneOf(T) \in T
  BY DEF OneOf

\* A running sum is determined by what it adds.
LEMMA RunningUnique ==
  ASSUME NEW f, NEW S, IsFiniteSet(S), NEW r, NEW q, IsRunning(f, S, r), IsRunning(f, S, q)
  PROVE  r = q
<1> DEFINE C == {T \in SUBSET S : r[T] # q[T]}
<1>1. SUFFICES C = {}
  BY <1>1, Zenon DEF IsRunning
<1>2. SUFFICES ASSUME C # {} PROVE FALSE
  OBVIOUS
<1>0. C \in SUBSET SUBSET S
  OBVIOUS
<1> HIDE DEF C
<1>3. PICK T \in C : \A U \in C : U \subseteq T => U = T
  BY <1>0, <1>2, LeastSubset
<1>4. T \in SUBSET S /\ r[T] # q[T]
  BY <1>3 DEF C
<1>5. /\ r[T] = IF T = {} THEN 0 ELSE f[OneOf(T)] + r[T \ {OneOf(T)}]
      /\ q[T] = IF T = {} THEN 0 ELSE f[OneOf(T)] + q[T \ {OneOf(T)}]
  BY <1>4, Zenon DEF IsRunning
<1>6. T # {}
  BY <1>4, <1>5
<1>7. OneOf(T) \in T
  BY <1>6, OneOfIn
<1>8. T \ {OneOf(T)} \notin C
  BY <1>3, <1>7
<1>9. r[T \ {OneOf(T)}] = q[T \ {OneOf(T)}]
  BY <1>4, <1>8 DEF C
<1> QED
  BY <1>4, <1>5, <1>9

\* Part of a running sum is one.
LEMMA RunningPart ==
  ASSUME NEW f, NEW S, NEW U \in SUBSET S, NEW r, IsRunning(f, S, r),
         NEW q, q = [T \in SUBSET U |-> r[T]]
  PROVE  IsRunning(f, U, q)
<1>1. ASSUME NEW T \in SUBSET U PROVE r[T] = IF T = {} THEN 0 ELSE f[OneOf(T)] + q[T \ {OneOf(T)}]
  <2>1. T \in SUBSET S /\ T \ {OneOf(T)} \in SUBSET U
    OBVIOUS
  <2>2. r[T] = IF T = {} THEN 0 ELSE f[OneOf(T)] + r[T \ {OneOf(T)}]
    BY <2>1, Zenon DEF IsRunning
  <2> QED
    BY <2>1, <2>2
<1>2. q = [T \in SUBSET U |-> IF T = {} THEN 0 ELSE f[OneOf(T)] + q[T \ {OneOf(T)}]]
  BY <1>1
<1> QED
  BY <1>2, Zenon DEF IsRunning

LEMMA RunningSums ==
  ASSUME NEW f, NEW S, IsFiniteSet(S), NEW r, IsRunning(f, S, r), NEW U \in SUBSET S
  PROVE  r[U] = SumFunctionOnSet(f, U)
<1> DEFINE q == [T \in SUBSET U |-> r[T]]
           c == CHOOSE p : IsRunning(f, U, p)
<1>0. q = [T \in SUBSET U |-> r[T]]
  OBVIOUS
<1> HIDE DEF q
<1>1. IsRunning(f, U, q)
  BY <1>0, RunningPart
<1>2. IsRunning(f, U, c)
  BY <1>1, Zenon
<1>3. IsFiniteSet(U)
  BY FS_Subset
<1> HIDE DEF c
<1>4. q = c
  BY <1>1, <1>2, <1>3, RunningUnique
<1>5. SumFunctionOnSet(f, U) = c[U]
  BY SumIs DEF c
<1>6. q[U] = r[U]
  BY <1>0
<1> QED
  BY <1>4, <1>5, <1>6

LEMMA RunningExists ==
  ASSUME NEW f, NEW S, IsFiniteSet(S)
  PROVE  \E r : IsRunning(f, S, r)
<1> DEFINE C == {T \in SUBSET S : ~ \E r : IsRunning(f, T, r)}
<1>1. SUFFICES ASSUME C # {} PROVE FALSE
  BY <1>1
<1>0. C \in SUBSET SUBSET S
  OBVIOUS
<1> HIDE DEF C
<1>2. PICK U \in C : \A T \in C : T \subseteq U => T = U
  BY <1>0, <1>1, LeastSubset
<1>3. U \in SUBSET S /\ IsFiniteSet(U) /\ ~ \E r : IsRunning(f, U, r)
  BY <1>2, FS_Subset DEF C
<1>4. ASSUME NEW T \in SUBSET U, T # U PROVE \E r : IsRunning(f, T, r)
  BY <1>2, <1>3, <1>4 DEF C
<1>5. ASSUME NEW T \in SUBSET U, T # U
      PROVE  SumFunctionOnSet(f, T)
               = IF T = {} THEN 0 ELSE f[OneOf(T)] + SumFunctionOnSet(f, T \ {OneOf(T)})
  <2>1. PICK r : IsRunning(f, T, r)
    BY <1>4, <1>5
  <2>2. IsFiniteSet(T)
    BY <1>3, FS_Subset
  <2>3. r[T] = SumFunctionOnSet(f, T) /\ r[T \ {OneOf(T)}] = SumFunctionOnSet(f, T \ {OneOf(T)})
    <3>1. T \in SUBSET T /\ T \ {OneOf(T)} \in SUBSET T
      OBVIOUS
    <3> QED
      BY <2>1, <2>2, <3>1, RunningSums
  <2>4. r[T] = IF T = {} THEN 0 ELSE f[OneOf(T)] + r[T \ {OneOf(T)}]
    BY <2>1, Zenon DEF IsRunning
  <2> QED
    BY <2>3, <2>4
<1> DEFINE g == [T \in SUBSET U |-> IF T = {} THEN 0
                                   ELSE f[OneOf(T)] + SumFunctionOnSet(f, T \ {OneOf(T)})]
<1>6. ASSUME NEW T \in SUBSET U, T # {}
      PROVE  g[T \ {OneOf(T)}] = SumFunctionOnSet(f, T \ {OneOf(T)})
  <2>1. OneOf(T) \in T
    BY <1>6, OneOfIn
  <2>2. T \ {OneOf(T)} \in SUBSET U /\ T \ {OneOf(T)} # U
    BY <2>1
  <2> QED
    BY <2>2, <1>5
<1>7. ASSUME NEW T \in SUBSET U
      PROVE  g[T] = IF T = {} THEN 0 ELSE f[OneOf(T)] + g[T \ {OneOf(T)}]
  <2>1. g[T] = IF T = {} THEN 0 ELSE f[OneOf(T)] + SumFunctionOnSet(f, T \ {OneOf(T)})
    OBVIOUS
  <2> HIDE DEF g
  <2> QED
    BY <2>1, <1>6
<1>8. g = [T \in SUBSET U |-> g[T]]
  OBVIOUS
<1> HIDE DEF g
<1>9. g = [T \in SUBSET U |-> IF T = {} THEN 0 ELSE f[OneOf(T)] + g[T \ {OneOf(T)}]]
  BY <1>7, <1>8
<1>10. IsRunning(f, U, g)
  BY <1>9, Zenon DEF IsRunning
<1> QED
  BY <1>3, <1>10

\* The sum over a finite set is nothing, or that of one member and the rest.
LEMMA SumStep ==
  ASSUME NEW f, NEW S, IsFiniteSet(S)
  PROVE  SumFunctionOnSet(f, S)
           = IF S = {} THEN 0 ELSE f[OneOf(S)] + SumFunctionOnSet(f, S \ {OneOf(S)})
<1>1. PICK r : IsRunning(f, S, r)
  BY RunningExists
<1>2. r[S] = SumFunctionOnSet(f, S) /\ r[S \ {OneOf(S)}] = SumFunctionOnSet(f, S \ {OneOf(S)})
  <2>1. S \in SUBSET S /\ S \ {OneOf(S)} \in SUBSET S
    OBVIOUS
  <2> QED
    BY <1>1, <2>1, RunningSums
<1>3. r[S] = IF S = {} THEN 0 ELSE f[OneOf(S)] + r[S \ {OneOf(S)}]
  BY <1>1, Zenon DEF IsRunning
<1> QED
  BY <1>2, <1>3

\* What holds of the empty set and, with a subset, of the subset and one more member, holds
\* of a finite set.
LEMMA SubsetInduction ==
  ASSUME NEW S, IsFiniteSet(S), NEW C, {} \in C,
         \A T \in SUBSET S : \A x \in S \ T : T \in C => T \cup {x} \in C
  PROVE  S \in C
<1> DEFINE D == {T \in SUBSET S : T \notin C}
<1>1. SUFFICES D = {}
  BY <1>1
<1>2. SUFFICES ASSUME D # {} PROVE FALSE
  OBVIOUS
<1>3. D \in SUBSET SUBSET S
  OBVIOUS
<1> HIDE DEF D
<1>4. PICK T \in D : \A U \in D : U \subseteq T => U = T
  BY <1>2, <1>3, LeastSubset
<1>5. T \in SUBSET S /\ T \notin C
  BY <1>4 DEF D
<1>6. PICK x \in T : TRUE
  BY <1>5
<1>7. T \ {x} \notin D
  BY <1>4, <1>6
<1>8. T \ {x} \in C
  BY <1>5, <1>7 DEF D
<1>9. (T \ {x}) \cup {x} = T
  BY <1>6
<1> QED
  BY <1>5, <1>6, <1>8, <1>9

LEMMA SumEmpty ==
  ASSUME NEW f
  PROVE  SumFunctionOnSet(f, {}) = 0
  BY SumStep, FS_EmptySet

\* Sums of two functions that agree agree.
LEMMA SumSame ==
  ASSUME NEW f, NEW g, NEW S, IsFiniteSet(S), \A x \in S : f[x] = g[x]
  PROVE  SumFunctionOnSet(f, S) = SumFunctionOnSet(g, S)
<1> DEFINE C == {T \in SUBSET S : SumFunctionOnSet(f, T) # SumFunctionOnSet(g, T)}
<1>1. SUFFICES ASSUME C # {} PROVE FALSE
  BY <1>1
<1>2. C \in SUBSET SUBSET S
  OBVIOUS
<1> HIDE DEF C
<1>3. PICK T \in C : \A U \in C : U \subseteq T => U = T
  BY <1>1, <1>2, LeastSubset
<1>4. T \in SUBSET S /\ IsFiniteSet(T) /\ SumFunctionOnSet(f, T) # SumFunctionOnSet(g, T)
  BY <1>3, FS_Subset DEF C
<1>5. /\ SumFunctionOnSet(f, T) = IF T = {} THEN 0 ELSE f[OneOf(T)] + SumFunctionOnSet(f, T \ {OneOf(T)})
      /\ SumFunctionOnSet(g, T) = IF T = {} THEN 0 ELSE g[OneOf(T)] + SumFunctionOnSet(g, T \ {OneOf(T)})
  BY <1>4, SumStep
<1>6. T # {} /\ OneOf(T) \in T
  BY <1>4, <1>5, OneOfIn
<1>7. T \ {OneOf(T)} \notin C /\ f[OneOf(T)] = g[OneOf(T)]
  BY <1>3, <1>4, <1>6
<1> QED
  BY <1>4, <1>5, <1>6, <1>7 DEF C

LEMMA SumInt ==
  ASSUME NEW f, NEW S, IsFiniteSet(S), \A x \in S : f[x] \in Int
  PROVE  SumFunctionOnSet(f, S) \in Int
<1> DEFINE C == {T \in SUBSET S : SumFunctionOnSet(f, T) \notin Int}
<1>1. SUFFICES ASSUME C # {} PROVE FALSE
  BY <1>1
<1>2. C \in SUBSET SUBSET S
  OBVIOUS
<1> HIDE DEF C
<1>3. PICK T \in C : \A U \in C : U \subseteq T => U = T
  BY <1>1, <1>2, LeastSubset
<1>4. T \in SUBSET S /\ IsFiniteSet(T) /\ SumFunctionOnSet(f, T) \notin Int
  BY <1>3, FS_Subset DEF C
<1>5. SumFunctionOnSet(f, T) = IF T = {} THEN 0 ELSE f[OneOf(T)] + SumFunctionOnSet(f, T \ {OneOf(T)})
  BY <1>4, SumStep
<1>6. T # {} /\ OneOf(T) \in T
  BY <1>4, <1>5, OneOfIn
<1>7. T \ {OneOf(T)} \notin C /\ f[OneOf(T)] \in Int
  BY <1>3, <1>4, <1>6
<1>8. SumFunctionOnSet(f, T \ {OneOf(T)}) \in Int
  BY <1>4, <1>7 DEF C
<1> QED
  BY <1>4, <1>5, <1>6, <1>7, <1>8

\* Any member may be taken out of a sum.
LEMMA SumWithout ==
  ASSUME NEW f, NEW S, IsFiniteSet(S), \A x \in S : f[x] \in Int, NEW a \in S
  PROVE  SumFunctionOnSet(f, S) = f[a] + SumFunctionOnSet(f, S \ {a})
<1> DEFINE C == {T \in SUBSET S : \E x \in T : SumFunctionOnSet(f, T) # f[x] + SumFunctionOnSet(f, T \ {x})}
<1>1. SUFFICES ASSUME C # {} PROVE FALSE
  BY <1>1
<1>2. C \in SUBSET SUBSET S
  OBVIOUS
<1> HIDE DEF C
<1>3. PICK T \in C : \A U \in C : U \subseteq T => U = T
  BY <1>1, <1>2, LeastSubset
<1>4. T \in SUBSET S /\ IsFiniteSet(T)
  BY <1>3, FS_Subset DEF C
<1>5. PICK x \in T : SumFunctionOnSet(f, T) # f[x] + SumFunctionOnSet(f, T \ {x})
  BY <1>3 DEF C
<1> DEFINE p == OneOf(T)
           rest == T \ {p}
           other == T \ {x}
           both == T \ {x, p}
<1>6. T # {} /\ p \in T
  BY <1>5, OneOfIn
<1> HIDE DEF p
<1>7. SumFunctionOnSet(f, T) = f[p] + SumFunctionOnSet(f, rest)
  BY <1>4, <1>6, SumStep DEF p
<1>8. x # p
  BY <1>5, <1>7
<1>9. rest \notin C /\ other \notin C /\ rest \in SUBSET S /\ other \in SUBSET S
  BY <1>3, <1>4, <1>5, <1>6
<1>10. x \in rest /\ p \in other /\ rest \ {x} = both /\ other \ {p} = both
  BY <1>5, <1>6, <1>8
<1>11. SumFunctionOnSet(f, rest) = f[x] + SumFunctionOnSet(f, both)
  BY <1>9, <1>10 DEF C
<1>12. SumFunctionOnSet(f, other) = f[p] + SumFunctionOnSet(f, both)
  BY <1>9, <1>10 DEF C
<1>13. f[p] \in Int /\ f[x] \in Int /\ SumFunctionOnSet(f, both) \in Int
  <2>1. IsFiniteSet(both) /\ both \in SUBSET S
    BY <1>4, FS_Subset
  <2> QED
    BY <1>4, <1>5, <1>6, <2>1, SumInt
<1> QED
  BY <1>5, <1>7, <1>11, <1>12, <1>13

LEMMA SumWith ==
  ASSUME NEW f, NEW S, IsFiniteSet(S), NEW a, a \notin S, \A x \in S \cup {a} : f[x] \in Int
  PROVE  SumFunctionOnSet(f, S \cup {a}) = SumFunctionOnSet(f, S) + f[a]
<1>1. IsFiniteSet(S \cup {a}) /\ a \in S \cup {a} /\ (S \cup {a}) \ {a} = S
  BY FS_AddElement
<1>2. SumFunctionOnSet(f, S \cup {a}) = f[a] + SumFunctionOnSet(f, S)
  <2> DEFINE T == S \cup {a}
  <2>1. IsFiniteSet(T) /\ a \in T /\ T \ {a} = S /\ \A x \in T : f[x] \in Int
    BY <1>1
  <2> HIDE DEF T
  <2>2. SumFunctionOnSet(f, T) = f[a] + SumFunctionOnSet(f, T \ {a})
    BY <2>1, SumWithout
  <2> QED
    BY <2>1, <2>2 DEF T
<1>3. SumFunctionOnSet(f, S) \in Int /\ f[a] \in Int
  BY SumInt
<1> QED
  BY <1>2, <1>3

LEMMA SumUnion ==
  ASSUME NEW f, NEW A, IsFiniteSet(A), NEW B, IsFiniteSet(B), A \cap B = {}, \A x \in A \cup B : f[x] \in Int
  PROVE  SumFunctionOnSet(f, A \cup B) = SumFunctionOnSet(f, A) + SumFunctionOnSet(f, B)
<1> DEFINE C == {T \in SUBSET B : SumFunctionOnSet(f, A \cup T) = SumFunctionOnSet(f, A) + SumFunctionOnSet(f, T)}
<1>1. {} \in C
  <2>1. A \cup {} = A /\ SumFunctionOnSet(f, A) \in Int
    BY SumInt
  <2> QED
    BY <2>1, SumEmpty
<1>2. ASSUME NEW T \in SUBSET B, NEW x \in B \ T, T \in C PROVE T \cup {x} \in C
  <2>1. IsFiniteSet(T) /\ IsFiniteSet(A \cup T)
    BY FS_Subset, FS_Union
  <2>2. SumFunctionOnSet(f, T \cup {x}) = SumFunctionOnSet(f, T) + f[x]
    BY <2>1, SumWith
  <2>3. SumFunctionOnSet(f, (A \cup T) \cup {x}) = SumFunctionOnSet(f, A \cup T) + f[x]
    <3>1. x \notin A \cup T
      BY <1>2
    <3>2. \A y \in (A \cup T) \cup {x} : f[y] \in Int
      BY <1>2
    <3> QED
      BY <2>1, <3>1, <3>2, SumWith
  <2>4. SumFunctionOnSet(f, A \cup T) = SumFunctionOnSet(f, A) + SumFunctionOnSet(f, T)
    BY <1>2
  <2>5. SumFunctionOnSet(f, A) \in Int /\ SumFunctionOnSet(f, T) \in Int /\ f[x] \in Int
    BY <1>2, <2>1, SumInt
  <2>6. SumFunctionOnSet(f, (A \cup T) \cup {x}) = SumFunctionOnSet(f, A) + SumFunctionOnSet(f, T \cup {x})
    BY <2>2, <2>3, <2>4, <2>5
  <2>7. SumFunctionOnSet(f, A \cup (T \cup {x})) = SumFunctionOnSet(f, A) + SumFunctionOnSet(f, T \cup {x})
    <3>1. (A \cup T) \cup {x} = A \cup (T \cup {x})
      OBVIOUS
    <3> QED
      BY <2>6, <3>1, Zenon
  <2> QED
    BY <1>2, <2>7
<1> HIDE DEF C
<1>3. B \in C
  BY <1>1, <1>2, SubsetInduction
<1> QED
  BY <1>3 DEF C

\* I is what h makes of the members of S.
Makes(h, S, I) == (\A x \in S : h[x] \in I) /\ \A y \in I : \E x \in S : y = h[x]

\* h takes the members of S one to one to those of I, with the same values.
Renames(h, f, S, g, I) ==
  /\ \A x, y \in S : h[x] = h[y] => x = y
  /\ \A x \in S : f[x] \in Int /\ g[h[x]] = f[x]
  /\ Makes(h, S, I)

\* Members renamed one to one sum to the same.
LEMMA SumRenamed ==
  ASSUME NEW f, NEW g, NEW S, IsFiniteSet(S), NEW h, NEW I, Renames(h, f, S, g, I)
  PROVE  IsFiniteSet(I) /\ SumFunctionOnSet(g, I) = SumFunctionOnSet(f, S)
<1> USE DEF Renames, Makes
<1> DEFINE C == {T \in SUBSET S : /\ IsFiniteSet({h[x] : x \in T})
                                  /\ SumFunctionOnSet(g, {h[x] : x \in T}) = SumFunctionOnSet(f, T)}
<1>1. {} \in C
  <2>1. {h[x] : x \in {}} = {}
    OBVIOUS
  <2> QED
    BY <2>1, SumEmpty, FS_EmptySet
<1>2. ASSUME NEW T \in SUBSET S, NEW a \in S \ T, T \in C PROVE T \cup {a} \in C
  <2> DEFINE image == {h[x] : x \in T}
  <2>1. IsFiniteSet(T) /\ IsFiniteSet(image)
    BY <1>2, FS_Subset
  <2>2. {h[x] : x \in T \cup {a}} = image \cup {h[a]} /\ h[a] \notin image
    BY <1>2
  <2>3. \A y \in image \cup {h[a]} : g[y] \in Int
    BY <1>2
  <2>4. SumFunctionOnSet(g, image) = SumFunctionOnSet(f, T)
    BY <1>2
  <2> HIDE DEF image
  <2>5. SumFunctionOnSet(g, image \cup {h[a]}) = SumFunctionOnSet(g, image) + g[h[a]]
    BY <2>1, <2>2, <2>3, SumWith
  <2>6. SumFunctionOnSet(f, T \cup {a}) = SumFunctionOnSet(f, T) + f[a]
    BY <2>1, <1>2, SumWith
  <2>7. SumFunctionOnSet(g, image \cup {h[a]}) = SumFunctionOnSet(f, T \cup {a})
    BY <1>2, <2>4, <2>5, <2>6
  <2>8. IsFiniteSet(image \cup {h[a]})
    BY <2>1, FS_AddElement
  <2> QED
    BY <1>2, <2>2, <2>7, <2>8
<1> HIDE DEF C
<1>3. S \in C
  BY <1>1, <1>2, SubsetInduction
<1>4. I = {h[x] : x \in S}
  OBVIOUS
<1> QED
  BY <1>3, <1>4 DEF C

\* Two sums over the same members add up member by member.
LEMMA SumAdded ==
  ASSUME NEW f, NEW g, NEW k, NEW S, IsFiniteSet(S),
         \A x \in S : f[x] \in Int /\ g[x] \in Int /\ k[x] = f[x] + g[x]
  PROVE  SumFunctionOnSet(k, S) = SumFunctionOnSet(f, S) + SumFunctionOnSet(g, S)
<1> DEFINE C == {T \in SUBSET S : SumFunctionOnSet(k, T) = SumFunctionOnSet(f, T) + SumFunctionOnSet(g, T)}
<1>1. {} \in C
  BY SumEmpty
<1>2. ASSUME NEW T \in SUBSET S, NEW a \in S \ T, T \in C PROVE T \cup {a} \in C
  <2>1. IsFiniteSet(T)
    BY <1>2, FS_Subset
  <2>2. SumFunctionOnSet(f, T \cup {a}) = SumFunctionOnSet(f, T) + f[a]
    BY <2>1, <1>2, SumWith
  <2>3. SumFunctionOnSet(g, T \cup {a}) = SumFunctionOnSet(g, T) + g[a]
    BY <2>1, <1>2, SumWith
  <2>4. SumFunctionOnSet(k, T \cup {a}) = SumFunctionOnSet(k, T) + k[a]
    BY <2>1, <1>2, SumWith
  <2>5. SumFunctionOnSet(f, T) \in Int /\ SumFunctionOnSet(g, T) \in Int
    BY <2>1, <1>2, SumInt
  <2>6. SumFunctionOnSet(k, T) = SumFunctionOnSet(f, T) + SumFunctionOnSet(g, T)
    BY <1>2
  <2>7. f[a] \in Int /\ g[a] \in Int /\ k[a] = f[a] + g[a]
    BY <1>2
  <2>8. SumFunctionOnSet(k, T \cup {a}) = SumFunctionOnSet(f, T \cup {a}) + SumFunctionOnSet(g, T \cup {a})
    BY <2>2, <2>3, <2>4, <2>5, <2>6, <2>7
  <2> QED
    BY <1>2, <2>8
<1> HIDE DEF C
<1>3. S \in C
  BY <1>1, <1>2, SubsetInduction
<1> QED
  BY <1>3 DEF C

LEMMA SumZero ==
  ASSUME NEW f, NEW S, IsFiniteSet(S), \A x \in S : f[x] = 0
  PROVE  SumFunctionOnSet(f, S) = 0
<1>1. SumFunctionOnSet(f, S) = SumFunctionOnSet(f, S) + SumFunctionOnSet(f, S)
  BY SumAdded
<1>2. SumFunctionOnSet(f, S) \in Int
  BY SumInt
<1>3. \A s \in Int : s = s + s => s = 0
  OBVIOUS
<1> QED
  BY <1>1, <1>2, <1>3, Zenon

\* The sum of a function that is 0 but for one member.
LEMMA SumOne ==
  ASSUME NEW f, NEW S, IsFiniteSet(S), NEW a \in S, f[a] \in Int, \A x \in S \ {a} : f[x] = 0
  PROVE  SumFunctionOnSet(f, S) = f[a]
<1>1. IsFiniteSet(S \ {a})
  BY FS_Subset
<1>2. SumFunctionOnSet(f, S \ {a}) = 0
  BY <1>1, SumZero
<1>3. \A x \in S : f[x] \in Int
  OBVIOUS
<1> QED
  BY <1>2, <1>3, SumWithout

\* What holds of 0 and, with a number below n, of the next holds of n.
LEMMA CountingInduction ==
  ASSUME NEW n \in Nat, NEW C, 0 \in C, \A k \in 0 .. n - 1 : k \in C => k + 1 \in C
  PROVE  n \in C
<1> DEFINE upTo == 1 .. n
           D == {T \in SUBSET upTo : \E k \in 0 .. n : T = 1 .. k /\ k \notin C}
<1>1. SUFFICES D = {}
  BY <1>1
<1>2. SUFFICES ASSUME D # {} PROVE FALSE
  OBVIOUS
<1>3. D \in SUBSET SUBSET upTo /\ IsFiniteSet(upTo)
  BY FS_Interval
<1> HIDE DEF D, upTo
<1>4. PICK T \in D : \A U \in D : U \subseteq T => U = T
  BY <1>2, <1>3, LeastSubset
<1>5. PICK k \in 0 .. n : T = 1 .. k /\ k \notin C
  BY <1>4 DEF D
<1>6. k # 0 /\ k - 1 \in 0 .. n - 1
  BY <1>5
<1>7. k - 1 \notin C
  BY <1>5, <1>6
<1>8. 1 .. k - 1 \in D
  BY <1>6, <1>7 DEF D, upTo
<1>9. 1 .. k - 1 \subseteq 1 .. k /\ k \in 1 .. k /\ k \notin 1 .. k - 1
  BY <1>6
<1> QED
  BY <1>4, <1>5, <1>8, <1>9

\* A recursion along 1 .. n whose steps stay among the states X defines a function.
Recursion(n, X, base, step) == n \in Nat /\ base \in X /\ step \in [1 .. n -> [X -> X]]

LEMMA RecursionExists ==
  ASSUME NEW n, NEW X, NEW base, NEW step, Recursion(n, X, base, step)
  PROVE  \E h \in [0 .. n -> X] : h[0] = base /\ \A k \in 1 .. n : h[k] = step[k][h[k - 1]]
<1> USE DEF Recursion
<1> DEFINE C == {m \in 0 .. n : \E h \in [0 .. n -> X] :
                   h[0] = base /\ \A k \in 1 .. m : h[k] = step[k][h[k - 1]]}
<1>1. 0 \in C
  <2> DEFINE h == [k \in 0 .. n |-> base]
  <2>1. h \in [0 .. n -> X] /\ h[0] = base /\ \A k \in 1 .. 0 : h[k] = step[k][h[k - 1]]
    OBVIOUS
  <2> HIDE DEF h
  <2> QED
    BY <2>1
<1>2. ASSUME NEW m \in 0 .. n - 1, m \in C PROVE m + 1 \in C
  <2>1. PICK h \in [0 .. n -> X] : h[0] = base /\ \A k \in 1 .. m : h[k] = step[k][h[k - 1]]
    BY <1>2
  <2> DEFINE g == [k \in 0 .. n |-> IF k <= m THEN h[k] ELSE step[m + 1][h[m]]]
  <2>2. step[m + 1] \in [X -> X] /\ h[m] \in X
    BY <2>1
  <2>3. g \in [0 .. n -> X] /\ g[0] = base
    BY <2>1, <2>2
  <2>4. ASSUME NEW k \in 1 .. m + 1 PROVE g[k] = step[k][g[k - 1]]
    <3>1. k \in 0 .. n /\ k - 1 \in 0 .. n /\ k - 1 <= m
      OBVIOUS
    <3>2. g[k - 1] = h[k - 1]
      BY <3>1
    <3>3. CASE k <= m
      BY <2>1, <3>1, <3>2, <3>3
    <3>4. CASE k = m + 1
      BY <3>1, <3>2, <3>4
    <3> QED
      BY <3>3, <3>4
  <2>5. m + 1 \in 0 .. n
    OBVIOUS
  <2> HIDE DEF g
  <2> QED
    BY <2>3, <2>4, <2>5
<1> HIDE DEF C
<1>3. n \in C
  BY <1>1, <1>2, CountingInduction
<1> QED
  BY <1>3 DEF C

\* An image of a finite set is finite and no larger.
LEMMA ImageFinite ==
  ASSUME NEW S, IsFiniteSet(S), NEW h,
         NEW I, Makes(h, S, I)
  PROVE  IsFiniteSet(I) /\ Cardinality(I) <= Cardinality(S)
<1> USE DEF Makes
<1> DEFINE C == {T \in SUBSET S : /\ IsFiniteSet({h[x] : x \in T})
                                  /\ Cardinality({h[x] : x \in T}) <= Cardinality(T)}
<1>1. {} \in C
  <2>1. {h[x] : x \in {}} = {}
    OBVIOUS
  <2> QED
    BY <2>1, FS_EmptySet
<1>2. ASSUME NEW T \in SUBSET S, NEW a \in S \ T, T \in C PROVE T \cup {a} \in C
  <2> DEFINE image == {h[x] : x \in T}
  <2>1. IsFiniteSet(T) /\ IsFiniteSet(image) /\ Cardinality(image) <= Cardinality(T)
    BY <1>2, FS_Subset
  <2>2. {h[x] : x \in T \cup {a}} = image \cup {h[a]}
    OBVIOUS
  <2> HIDE DEF image
  <2>3. /\ IsFiniteSet(image \cup {h[a]}) /\ Cardinality(image \cup {h[a]}) <= Cardinality(image) + 1
        /\ Cardinality(T \cup {a}) = Cardinality(T) + 1
        /\ Cardinality(image) \in Nat /\ Cardinality(T) \in Nat
        /\ Cardinality(image \cup {h[a]}) \in Nat
    <3>1. /\ IsFiniteSet(image \cup {h[a]})
          /\ Cardinality(image \cup {h[a]}) = IF h[a] \in image THEN Cardinality(image) ELSE Cardinality(image) + 1
      BY <2>1, FS_AddElement
    <3>2. Cardinality(T \cup {a}) = Cardinality(T) + 1
      BY <2>1, <1>2, FS_AddElement
    <3>3. Cardinality(image) \in Nat /\ Cardinality(T) \in Nat /\ Cardinality(image \cup {h[a]}) \in Nat
      BY <2>1, <3>1, FS_CardinalityType
    <3> QED
      BY <3>1, <3>2, <3>3
  <2>4. Cardinality(image \cup {h[a]}) <= Cardinality(T \cup {a})
    BY <2>1, <2>3
  <2> QED
    BY <1>2, <2>2, <2>3, <2>4
<1> HIDE DEF C
<1>3. S \in C
  BY <1>1, <1>2, SubsetInduction
<1>4. I = {h[x] : x \in S}
  OBVIOUS
<1> QED
  BY <1>3, <1>4 DEF C

\* The least of a set of numbers.
LEMMA LeastIs ==
  ASSUME NEW S \in SUBSET Int, NEW a \in S, \A x \in S : a <= x
  PROVE  Min(S) = a
<1>1. \A x \in S : x = a \/ ~(\A y \in S : x <= y)
  OBVIOUS
<1> QED
  BY <1>1 DEF Min

Before == {p \in Nat \X Nat : p[1] < p[2]}

LEMMA MinIn ==
  ASSUME NEW S \in SUBSET Nat, S # {}
  PROVE  Min(S) \in S /\ \A x \in S : Min(S) <= x
<1>1. IsWellFoundedOn(Before, Nat)
  BY NatLessThanWellFounded, Zenon DEF OpToRel, Before
<1>2. PICK m \in S : \A n \in S : ~ (<<n, m>> \in Before)
  BY <1>1, WFMin
<1>3. ASSUME NEW n \in S PROVE m <= n
  <2>1. m \in Nat /\ n \in Nat
    OBVIOUS
  <2>2. ~(n < m)
    BY <1>2, <2>1 DEF Before
  <2> QED
    BY <2>1, <2>2
<1>4. S \in SUBSET Int /\ m \in S
  OBVIOUS
<1>5. Min(S) = m
  BY <1>3, <1>4, LeastIs
<1> QED
  BY <1>3, <1>5

\* A recursion that takes the members of a finite set in an order of its own (out) and whose
\* steps stay among the states X defines a function of the subsets.
SetRecursion(S, X, base, out, step) ==
  /\ IsFiniteSet(S) /\ base \in X /\ step \in [S -> [X -> X]]
  /\ \A T \in SUBSET S : T # {} => out[T] \in T

SetRecursive(r, S, X, base, out, step) ==
  /\ r \in [SUBSET S -> X]
  /\ \A T \in SUBSET S : r[T] = IF T = {} THEN base ELSE step[out[T]][r[T \ {out[T]}]]

LEMMA SetRecursionExists ==
  ASSUME NEW S, NEW X, NEW base, NEW out, NEW step, SetRecursion(S, X, base, out, step)
  PROVE  \E r : SetRecursive(r, S, X, base, out, step)
<1> USE DEF SetRecursion
<1> DEFINE n == Cardinality(S)
           C == {m \in 0 .. n : \E h \in [SUBSET S -> X] : \A T \in SUBSET S :
                   Cardinality(T) <= m => h[T] = IF T = {} THEN base ELSE step[out[T]][h[T \ {out[T]}]]}
<1>1. n \in Nat
  BY FS_CardinalityType
<1> HIDE DEF n
<1>0. ASSUME NEW T \in SUBSET S
      PROVE  IsFiniteSet(T) /\ Cardinality(T) \in Nat /\ Cardinality(T) <= n /\ (Cardinality(T) = 0 <=> T = {})
  <2>1. IsFiniteSet(T) /\ Cardinality(T) <= n
    BY FS_Subset DEF n
  <2> QED
    BY <2>1, FS_CardinalityType, FS_EmptySet
<1>2. 0 \in C
  <2> DEFINE h == [T \in SUBSET S |-> base]
  <2>1. h \in [SUBSET S -> X]
    OBVIOUS
  <2>2. ASSUME NEW T \in SUBSET S, Cardinality(T) <= 0
        PROVE  h[T] = IF T = {} THEN base ELSE step[out[T]][h[T \ {out[T]}]]
    <3>1. T = {}
      BY <1>0, <2>2
    <3> QED
      BY <3>1
  <2>3. \A T \in SUBSET S : Cardinality(T) <= 0 => h[T] = IF T = {} THEN base ELSE step[out[T]][h[T \ {out[T]}]]
    BY <2>2
  <2>4. 0 \in 0 .. n
    BY <1>1
  <2> HIDE DEF h
  <2> QED
    BY <2>1, <2>3, <2>4
<1>3. ASSUME NEW m \in 0 .. n - 1, m \in C PROVE m + 1 \in C
  <2>1. PICK h \in [SUBSET S -> X] : \A T \in SUBSET S :
          Cardinality(T) <= m => h[T] = IF T = {} THEN base ELSE step[out[T]][h[T \ {out[T]}]]
    BY <1>3
  <2> DEFINE next(T) == IF T = {} THEN base ELSE step[out[T]][h[T \ {out[T]}]]
             g == [T \in SUBSET S |-> next(T)]
  <2>2. ASSUME NEW T \in SUBSET S PROVE next(T) \in X
    <3>1. CASE T = {}
      BY <3>1
    <3>2. CASE T # {}
      <4>1. out[T] \in S /\ T \ {out[T]} \in SUBSET S
        BY <3>2
      <4>2. h[T \ {out[T]}] \in X /\ step[out[T]] \in [X -> X]
        BY <4>1, <2>1
      <4> QED
        BY <3>2, <4>2
    <3> QED
      BY <3>1, <3>2
  <2>3. g \in [SUBSET S -> X]
    BY <2>2
  <2>4. ASSUME NEW T \in SUBSET S, Cardinality(T) <= m PROVE g[T] = h[T]
    BY <2>1, <2>4
  <2>5. ASSUME NEW T \in SUBSET S, Cardinality(T) <= m + 1
        PROVE  g[T] = IF T = {} THEN base ELSE step[out[T]][g[T \ {out[T]}]]
    <3>1. CASE T = {}
      BY <3>1
    <3>2. CASE T # {}
      <4> DEFINE U == T \ {out[T]}
      <4>1. U \in SUBSET S /\ out[T] \in T
        BY <3>2
      <4>2. Cardinality(U) = Cardinality(T) - 1
        BY <1>0, <4>1, FS_RemoveElement
      <4>3. Cardinality(U) <= m
        BY <1>0, <1>1, <2>5, <4>2
      <4>4. g[U] = h[U]
        BY <2>4, <4>1, <4>3
      <4>5. g[T] = step[out[T]][h[U]]
        BY <3>2
      <4> HIDE DEF g, U
      <4>6. g[T] = step[out[T]][g[U]]
        BY <4>4, <4>5
      <4> QED
        BY <3>2, <4>6 DEF U
    <3> QED
      BY <3>1, <3>2
  <2>6. m + 1 \in 0 .. n
    BY <1>1
  <2> HIDE DEF g
  <2> QED
    BY <2>3, <2>5, <2>6
<1> HIDE DEF C
<1>4. n \in C
  BY <1>1, <1>2, <1>3, CountingInduction
<1>5. PICK h \in [SUBSET S -> X] : \A T \in SUBSET S :
        Cardinality(T) <= n => h[T] = IF T = {} THEN base ELSE step[out[T]][h[T \ {out[T]}]]
  BY <1>4 DEF C
<1>6. \A T \in SUBSET S : h[T] = IF T = {} THEN base ELSE step[out[T]][h[T \ {out[T]}]]
  BY <1>0, <1>5
<1> QED
  BY <1>6 DEF SetRecursive

\* A member of a finite set of which a function is highest.
LEMMA HighestExists ==
  ASSUME NEW S, IsFiniteSet(S), S # {}, NEW f, \A x \in S : f[x] \in Int
  PROVE  \E x \in S : \A y \in S : f[y] <= f[x]
<1> DEFINE C == {T \in SUBSET S : T # {} => \E x \in T : \A y \in T : f[y] <= f[x]}
<1>1. {} \in C
  OBVIOUS
<1>2. ASSUME NEW T \in SUBSET S, NEW a \in S \ T, T \in C PROVE T \cup {a} \in C
  <2>1. CASE T = {}
    BY <2>1
  <2>2. CASE T # {}
    <3>1. PICK x \in T : \A y \in T : f[y] <= f[x]
      BY <1>2, <2>2
    <3>2. f[x] \in Int /\ f[a] \in Int /\ \A y \in T : f[y] \in Int
      BY <3>1
    <3>3. CASE f[a] <= f[x]
      BY <3>1, <3>2, <3>3
    <3>4. CASE f[x] <= f[a]
      <4>1. \A y \in T : f[y] <= f[a]
        BY <3>1, <3>2, <3>4
      <4>2. \A y \in T \cup {a} : f[y] <= f[a]
        BY <3>2, <4>1
      <4> QED
        BY <4>2
    <3> QED
      BY <3>2, <3>3, <3>4
  <2> QED
    BY <2>1, <2>2
<1> HIDE DEF C
<1>3. S \in C
  BY <1>1, <1>2, SubsetInduction
<1> QED
  BY <1>3 DEF C

LEMMA HighestIn ==
  ASSUME NEW S \in SUBSET Int, IsFiniteSet(S), S # {}
  PROVE  Max(S) \in S /\ \A x \in S : x <= Max(S)
<1> DEFINE f == [x \in S |-> x]
<1>1. \A x \in S : f[x] \in Int /\ f[x] = x
  OBVIOUS
<1> HIDE DEF f
<1>2. PICK m \in S : \A y \in S : f[y] <= f[m]
  BY <1>1, HighestExists
<1>3. \A y \in S : m >= y
  BY <1>1, <1>2
<1>4. Max(S) \in S /\ \A y \in S : Max(S) >= y
  BY <1>3 DEF Max
<1> QED
  BY <1>4

\* A sum leaves out what adds nothing.
LEMMA SumPart ==
  ASSUME NEW f, NEW S, IsFiniteSet(S), NEW T \in SUBSET S, \A x \in T : f[x] \in Int, \A x \in S \ T : f[x] = 0
  PROVE  SumFunctionOnSet(f, S) = SumFunctionOnSet(f, T)
<1>1. IsFiniteSet(T) /\ IsFiniteSet(S \ T)
  BY FS_Subset
<1>2. T \cup (S \ T) = S
  OBVIOUS
<1>3. SumFunctionOnSet(f, T \cup (S \ T)) = SumFunctionOnSet(f, T) + SumFunctionOnSet(f, S \ T)
  BY <1>1, SumUnion
<1>4. SumFunctionOnSet(f, S \ T) = 0 /\ SumFunctionOnSet(f, T) \in Int
  BY <1>1, SumZero, SumInt
<1>5. SumFunctionOnSet(f, T \cup (S \ T)) = SumFunctionOnSet(f, T)
  BY <1>3, <1>4
<1> QED
  BY <1>2, <1>5

\* The members of S that of takes into D.
Over(of, S, D) == {x \in S : of[x] \in D}

\* The values of g on D are the sums of the parts that of divides S into.
Parted(g, D, f, of, S) ==
  /\ IsFiniteSet(S) /\ IsFiniteSet(D) /\ \A x \in S : f[x] \in Int
  /\ \A d \in D : g[d] = SumFunctionOnSet(f, Over(of, S, {d}))

\* The sums of the parts that a function divides a set into add up to the sum over the set.
LEMMA SumParted ==
  ASSUME NEW S, NEW f, NEW of, NEW D, NEW g, Parted(g, D, f, of, S)
  PROVE  SumFunctionOnSet(g, D) = SumFunctionOnSet(f, Over(of, S, D))
<1> USE DEF Parted
<1> DEFINE C == {E \in SUBSET D : SumFunctionOnSet(g, E) = SumFunctionOnSet(f, Over(of, S, E))}
<1>1. {} \in C
  <2>1. Over(of, S, {}) = {}
    BY DEF Over
  <2> QED
    BY <2>1, SumEmpty
<1>2. ASSUME NEW E \in SUBSET D, NEW d \in D \ E, E \in C PROVE E \cup {d} \in C
  <2> DEFINE A == Over(of, S, E)
             B == Over(of, S, {d})
  <2>1. Over(of, S, E \cup {d}) = A \cup B /\ A \cap B = {} /\ A \in SUBSET S /\ B \in SUBSET S
    BY DEF Over
  <2>2. IsFiniteSet(A) /\ IsFiniteSet(B) /\ IsFiniteSet(E)
    BY <2>1, FS_Subset
  <2>3. SumFunctionOnSet(g, E) = SumFunctionOnSet(f, A)
    BY <1>2
  <2>4. g[d] = SumFunctionOnSet(f, B)
    OBVIOUS
  <2> HIDE DEF A, B
  <2>5. SumFunctionOnSet(f, A \cup B) = SumFunctionOnSet(f, A) + SumFunctionOnSet(f, B)
    BY <2>1, <2>2, SumUnion
  <2>6. \A e \in D : g[e] \in Int
    <3>1. ASSUME NEW e \in D PROVE g[e] \in Int
      <4>1. Over(of, S, {e}) \in SUBSET S
        BY DEF Over
      <4>2. IsFiniteSet(Over(of, S, {e}))
        BY <4>1, FS_Subset
      <4> QED
        BY <4>1, <4>2, SumInt
    <3> QED
      BY <3>1
  <2>7. SumFunctionOnSet(g, E \cup {d}) = SumFunctionOnSet(g, E) + g[d]
    <3>1. \A e \in E \cup {d} : g[e] \in Int
      BY <2>6
    <3>2. d \notin E
      OBVIOUS
    <3> QED
      BY <2>2, <3>1, <3>2, SumWith
  <2>8. SumFunctionOnSet(g, E \cup {d}) = SumFunctionOnSet(f, Over(of, S, E \cup {d}))
    BY <2>1, <2>3, <2>4, <2>5, <2>7
  <2> QED
    BY <1>2, <2>8
<1> HIDE DEF C
<1>3. D \in C
  BY <1>1, <1>2, SubsetInduction
<1> QED
  BY <1>3 DEF C

\* Sets that a function takes one to one onto each other are of one size.
LEMMA SameSize ==
  ASSUME NEW S, IsFiniteSet(S), NEW h, NEW I, Makes(h, S, I), \A x, y \in S : h[x] = h[y] => x = y
  PROVE  IsFiniteSet(I) /\ Cardinality(I) = Cardinality(S)
<1> DEFINE back == [y \in I |-> CHOOSE x \in S : h[x] = y]
<1>1. ASSUME NEW y \in I PROVE back[y] \in S /\ h[back[y]] = y
  BY DEF Makes
<1>2. ASSUME NEW x \in S PROVE h[x] \in I /\ back[h[x]] = x
  <2>1. h[x] \in I
    BY DEF Makes
  <2> HIDE DEF back
  <2> QED
    BY <2>1, <1>1
<1> HIDE DEF back
<1>3. Makes(back, I, S)
  BY <1>1, <1>2 DEF Makes
<1>4. IsFiniteSet(I) /\ Cardinality(I) <= Cardinality(S)
  BY ImageFinite
<1>5. Cardinality(S) <= Cardinality(I)
  BY <1>3, <1>4, ImageFinite
<1>6. Cardinality(I) \in Nat /\ Cardinality(S) \in Nat
  BY <1>4, FS_CardinalityType
<1> QED
  BY <1>4, <1>5, <1>6

-----------------------------------------------------------------------------
(***************************************************************************)
(* The simulators.                                                         *)
(***************************************************************************)
\* Their trades, and the bars they saw.
SimModes == {"positions", "single", "multi", "weights"}
Reasons == {"open", "signal", "end", "stop", "target", "time", "rule", "rotation"}
Trades ==
  [id : Nat, stock : Stocks, side : {-1, 1}, units : Nat, entryDay : Nat, entry : Int, mark : Int,
   stop : Int, best : Int, held : Nat, exitDay : Nat, exit : Int, reason : Reasons, pnl : Int]

SimTyped ==
  /\ simMode \in SimModes
  /\ tape \in Seq([Stocks -> Bars \cup {NoBar}]) /\ Len(tape) <= CalendarDays

\* What was decided at the last close, and that every day but a portfolio's has all its bars.
SimDecided ==
  /\ simMode = "positions" /\ tape # <<>> => decided["target"] \in Targets
  /\ simMode = "weights" /\ tape # <<>> => decided \in WeightSets
  /\ simMode # "multi" => \A d \in DOMAIN tape : \A s \in Stocks : tape[d][s] \in Bars

\* A price of a symbol's day, slippage aside.
Traded(days, price, d, s) == days[d][s].low <= price /\ price <= days[d][s].high

\* A trade is known by its spec, or else by the day and the symbol it was opened with; it was
\* entered, and left, at prices of its days.
Recorded(t, days) ==
  /\ t.entryDay \in 1 .. Len(days)
  /\ IF simMode \in {"single", "multi"} THEN t.id \in DOMAIN Specs /\ Specs[t.id].day = t.entryDay
     ELSE t.id = t.entryDay
  /\ simMode # "weights" => Traded(days, t.entry - t.side * Slip, t.entryDay, t.stock)
  /\ t.reason # "open" => t.exitDay \in 1 .. Len(days)
  /\ t.reason # "open" /\ simMode # "weights" => Traded(days, t.exit + t.side * Slip, t.exitDay, t.stock)

\* No two trades of a symbol are known alike.
Keyed(S) == \A t, u \in S : t.id = u.id /\ t.stock = u.stock => t = u

\* Open trades and closed ones, of the days so far.
Ledger(open, rows, days) ==
  /\ open \in SUBSET Trades /\ IsFiniteSet(open)
  /\ rows \in SUBSET Trades /\ IsFiniteSet(rows)
  /\ \A t \in open : t.reason = "open"
  /\ \A t \in rows : t.reason # "open"
  /\ \A t \in open \cup rows : Recorded(t, days)
  /\ Keyed(open \cup rows)

\* What a set of trades made or stands at.
Book(S) == SumFunction([tr \in S |-> Worth(tr)])

\* A book holds one leg of a symbol, of a weight; the trades open at once are bounded.
SimBounded ==
  /\ simMode = "weights" => \A leg \in openTrades : leg.units # 0
  /\ simMode \in {"multi", "weights"} => \A s, t \in openTrades : s.stock = t.stock => s = t
  /\ simMode \in {"single", "multi"} => Cardinality(openTrades) <= MaxTrades

SimulatorInv ==
  /\ SimTyped /\ SimDecided /\ SimBounded
  /\ Ledger(openTrades, tradeRows, tape)
  /\ dailyPnl = Book(openTrades) + Book(tradeRows)

LEMMA TradeFields ==
  ASSUME NEW t \in Trades
  PROVE  /\ t.id \in Nat /\ t.stock \in Stocks /\ t.side \in {-1, 1} /\ t.units \in Nat /\ t.entryDay \in Nat
         /\ t.entry \in Int /\ t.mark \in Int /\ t.stop \in Int /\ t.best \in Int /\ t.held \in Nat
         /\ t.exitDay \in Nat /\ t.exit \in Int /\ t.reason \in Reasons /\ t.pnl \in Int
  BY DEF Trades

LEMMA BarFields ==
  ASSUME NEW bar \in Bars
  PROVE  /\ bar.open \in Int /\ bar.high \in Int /\ bar.low \in Int /\ bar.close \in Int
         /\ bar.low <= bar.open /\ bar.open <= bar.high /\ bar.low <= bar.close /\ bar.close <= bar.high
  BY SimulatorAssumption

LEMMA SpecFields ==
  ASSUME NEW i \in DOMAIN Specs
  PROVE  /\ i \in Nat /\ Specs[i].stock \in Stocks /\ Specs[i].day \in Nat /\ Specs[i].side \in {-1, 1}
         /\ Specs[i].entry \in {"open", "close", "stop", "limit"} /\ Specs[i].level \in Int
         /\ Specs[i].stop \in Int /\ Specs[i].target \in Int /\ Specs[i].hold \in Nat
         /\ Specs[i].trail \in Int /\ Specs[i].rule \in SUBSET Nat
<1> DEFINE S == [stock : Stocks, day : Nat, side : {-1, 1}, entry : {"open", "close", "stop", "limit"},
                 level : Int, stop : Int, target : Int, hold : Nat, trail : Int, rule : SUBSET Nat, rank : Int]
<1>1. Specs \in Seq(S)
  BY SimulatorAssumption
<1> HIDE DEF S
<1>2. Specs[i] \in S /\ i \in Nat
  BY <1>1
<1> QED
  BY <1>2 DEF S

LEMMA FillType ==
  ASSUME NEW price \in Int, NEW side \in {-1, 1}
  PROVE  /\ Fill(price, side) \in Int /\ Fill(price, side) - side * Slip = price
         /\ Fill(price, -side) \in Int /\ Fill(price, -side) + side * Slip = price
<1>1. Slip \in Int
  BY SimulatorAssumption
<1>2. CASE side = 1
  BY <1>1, <1>2 DEF Fill
<1>3. CASE side = -1
  BY <1>1, <1>3 DEF Fill
<1> QED
  BY <1>2, <1>3

LEMMA OpenedIs ==
  ASSUME NEW id \in Nat, NEW stock \in Stocks, NEW side \in {-1, 1}, NEW units \in Nat, NEW fill \in Int,
         NEW stop \in Int, Sim \in Nat
  PROVE  LET t == Opened(id, stock, side, units, fill, stop)
         IN /\ t \in Trades /\ t.id = id /\ t.stock = stock /\ t.side = side /\ t.units = units
            /\ t.entryDay = Sim /\ t.entry = fill /\ t.mark = fill /\ t.reason = "open" /\ t.pnl = 0
  BY DEF Opened, Trades, Reasons

\* What closing a trade adds to what it stood at.
LEMMA DayGainAdds ==
  ASSUME NEW t \in Trades, NEW price \in Int
  PROVE  /\ DayGain(t, price) \in Int /\ MarkGain(t, price) \in Int
         /\ (Fill(price, -t.side) - t.entry) * t.side * t.units - 2 * Fee * t.units
              = (t.mark - t.entry) * t.side * t.units + DayGain(t, price)
         /\ (price - t.entry) * t.side * t.units = (t.mark - t.entry) * t.side * t.units + MarkGain(t, price)
<1> DEFINE fill == Fill(price, -t.side)
           unit == t.side * t.units
<1>1. fill \in Int /\ t.entry \in Int /\ t.mark \in Int /\ t.side \in Int /\ t.units \in Int /\ Fee \in Int
  <2>1. t.side \in {-1, 1} /\ t.entry \in Int /\ t.mark \in Int /\ t.units \in Int
    BY TradeFields
  <2>2. fill \in Int
    BY <2>1, FillType
  <2> QED
    BY <2>1, <2>2, SimulatorAssumption
<1>2. ASSUME NEW a \in Int, NEW b \in Int, NEW c \in Int, NEW u \in Int, NEW v \in Int
      PROVE  /\ (a - b) * u * v = (c - b) * u * v + (a - c) * u * v
             /\ (a - b) * u * v \in Int
  BY <1>2
<1>3. 2 * Fee * t.units \in Int
  BY <1>1
<1> HIDE DEF fill
<1>4. (fill - t.entry) * t.side * t.units = (t.mark - t.entry) * t.side * t.units + (fill - t.mark) * t.side * t.units
      /\ (fill - t.mark) * t.side * t.units \in Int /\ (t.mark - t.entry) * t.side * t.units \in Int
  BY <1>1, <1>2
<1>5. (price - t.entry) * t.side * t.units = (t.mark - t.entry) * t.side * t.units + (price - t.mark) * t.side * t.units
      /\ (price - t.mark) * t.side * t.units \in Int
  BY <1>1, <1>2
<1> USE DEF fill
<1> QED
  BY <1>3, <1>4, <1>5 DEF DayGain, MarkGain

LEMMA ClosedIs ==
  ASSUME NEW t \in Trades, NEW price \in Int, NEW reason \in Reasons \ {"open"}, Sim \in Nat
  PROVE  LET c == Closed(t, price, reason)
         IN /\ c \in Trades /\ c.id = t.id /\ c.stock = t.stock /\ c.side = t.side /\ c.units = t.units
            /\ c.entryDay = t.entryDay /\ c.entry = t.entry /\ c.exitDay = Sim
            /\ c.exit + c.side * Slip = price /\ c.reason = reason
            /\ c.pnl = (t.mark - t.entry) * t.side * t.units + DayGain(t, price)
<1> DEFINE pnl == (Fill(price, -t.side) - t.entry) * t.side * t.units - 2 * Fee * t.units
<1>1. pnl = (t.mark - t.entry) * t.side * t.units + DayGain(t, price)
  BY DayGainAdds
<1>2. Fill(price, -t.side) \in Int /\ Fill(price, -t.side) + t.side * Slip = price
  BY TradeFields, FillType
<1>3. t.entry \in Int /\ t.side \in Int /\ t.units \in Int /\ Fee \in Int
  BY TradeFields, SimulatorAssumption
<1>4. pnl \in Int
  BY <1>2, <1>3
<1>5. Closed(t, price, reason) = [t EXCEPT !.exitDay = Sim, !.exit = Fill(price, -t.side), !.reason = reason, !.pnl = pnl]
  BY DEF Closed
<1> HIDE DEF pnl
<1> QED
  BY <1>1, <1>2, <1>4, <1>5 DEF Trades

LEMMA WorthInt ==
  ASSUME NEW t \in Trades
  PROVE  Worth(t) \in Int
<1>1. t.pnl \in Int /\ t.mark \in Int /\ t.entry \in Int /\ t.side \in Int /\ t.units \in Int
  BY TradeFields
<1> QED
  BY <1>1 DEF Worth

LEMMA BookIs ==
  ASSUME NEW S \in SUBSET Trades, IsFiniteSet(S), NEW w, \A t \in S : w[t] = Worth(t)
  PROVE  Book(S) = SumFunctionOnSet(w, S) /\ Book(S) \in Int
<1> DEFINE f == [tr \in S |-> Worth(tr)]
<1>1. DOMAIN f = S /\ \A t \in S : f[t] = w[t] /\ f[t] \in Int
  BY WorthInt
<1>2. Book(S) = SumFunctionOnSet(f, DOMAIN f)
  BY DEF Book, SumFunction
<1> HIDE DEF f
<1>3. SumFunctionOnSet(f, S) = SumFunctionOnSet(w, S) /\ SumFunctionOnSet(f, S) \in Int
  BY <1>1, SumSame, SumInt
<1> QED
  BY <1>1, <1>2, <1>3

LEMMA BookUnion ==
  ASSUME NEW S \in SUBSET Trades, IsFiniteSet(S), NEW T \in SUBSET Trades, IsFiniteSet(T), S \cap T = {}
  PROVE  IsFiniteSet(S \cup T) /\ Book(S \cup T) = Book(S) + Book(T)
<1> DEFINE w == [tr \in Trades |-> Worth(tr)]
           U == S \cup T
<1>1. IsFiniteSet(U) /\ U \in SUBSET Trades
  BY FS_Union
<1>2. \A t \in Trades : w[t] = Worth(t) /\ w[t] \in Int
  BY WorthInt
<1> HIDE DEF w
<1>3. Book(S) = SumFunctionOnSet(w, S) /\ Book(T) = SumFunctionOnSet(w, T)
  BY <1>2, BookIs
<1>4. SumFunctionOnSet(w, S \cup T) = SumFunctionOnSet(w, S) + SumFunctionOnSet(w, T)
  BY <1>2, SumUnion
<1> HIDE DEF U
<1>5. Book(U) = SumFunctionOnSet(w, U)
  BY <1>1, <1>2, BookIs
<1> QED
  BY <1>1, <1>3, <1>4, <1>5 DEF U

\* Trades that change keep their names and gain by their change.
Shifts(S, h, g) ==
  /\ DOMAIN g = S
  /\ \A t \in S : /\ h[t] \in Trades /\ h[t].id = t.id /\ h[t].stock = t.stock
                   /\ g[t] \in Int /\ Worth(h[t]) = Worth(t) + g[t]

LEMMA BookMoved ==
  ASSUME NEW S \in SUBSET Trades, IsFiniteSet(S), Keyed(S), NEW h, NEW g, Shifts(S, h, g),
         NEW J, Makes(h, S, J)
  PROVE  /\ J \in SUBSET Trades /\ IsFiniteSet(J)
         /\ Book(J) = Book(S) + SumFunction(g) /\ SumFunction(g) \in Int /\ Book(S) \in Int
<1> USE DEF Shifts, Makes
<1> DEFINE w == [tr \in Trades |-> Worth(tr)]
           f == [t \in S |-> Worth(t) + g[t]]
<1>1. \A t \in Trades : w[t] = Worth(t) /\ w[t] \in Int
  BY WorthInt
<1>2. \A t \in S : f[t] = w[t] + g[t] /\ f[t] \in Int /\ w[h[t]] = f[t]
  BY <1>1
<1>3. J \in SUBSET Trades
  OBVIOUS
<1> HIDE DEF w, f
<1>4. \A x, y \in S : h[x] = h[y] => x = y
  BY DEF Keyed
<1>5. IsFiniteSet(J) /\ SumFunctionOnSet(w, J) = SumFunctionOnSet(f, S)
  <2>1. \A x \in S : f[x] \in Int /\ w[h[x]] = f[x]
    BY <1>2
  <2>3. Renames(h, f, S, w, J)
    BY <2>1, <1>4 DEF Renames
  <2> QED
    BY <2>3, SumRenamed
<1>6. SumFunctionOnSet(f, S) = SumFunctionOnSet(w, S) + SumFunctionOnSet(g, S)
  BY <1>1, <1>2, SumAdded
<1>7. SumFunction(g) = SumFunctionOnSet(g, S) /\ SumFunctionOnSet(g, S) \in Int
  BY SumInt DEF SumFunction
<1>8. Book(J) = SumFunctionOnSet(w, J) /\ Book(S) = SumFunctionOnSet(w, S) /\ Book(S) \in Int
  BY <1>1, <1>3, <1>5, BookIs
<1> QED
  BY <1>3, <1>5, <1>6, <1>7, <1>8

\* Of a ledger's open trades, L become J.
Become(O, R, days, L, h, g, J) ==
  /\ Ledger(O, R, days) /\ L \subseteq O /\ Shifts(L, h, g) /\ Makes(h, L, J)
  /\ \A t \in J : Recorded(t, days)

\* A ledger's worth grows by an amount.
Gains(O, R, open, rows, amount) == Book(open) + Book(rows) = Book(O) + Book(R) + amount

LEMMA LedgerMoves ==
  ASSUME NEW O, NEW R, NEW days, NEW L, NEW h, NEW g, NEW J, Become(O, R, days, L, h, g, J)
  PROVE  /\ Book(O) \in Int /\ Book(R) \in Int /\ SumFunction(g) \in Int
         /\ Gains(O, R, (O \ L) \cup J, R, SumFunction(g)) /\ Gains(O, R, O \ L, R \cup J, SumFunction(g))
         /\ (\A t \in J : t.reason = "open") => Ledger((O \ L) \cup J, R, days)
         /\ (\A t \in J : t.reason # "open") => Ledger(O \ L, R \cup J, days)
<1>0. /\ Ledger(O, R, days) /\ L \in SUBSET O /\ Shifts(L, h, g) /\ Makes(h, L, J)
      /\ \A t \in J : Recorded(t, days)
  BY DEF Become
<1> DEFINE K == O \ L
<1>1. /\ L \in SUBSET Trades /\ IsFiniteSet(L) /\ K \in SUBSET Trades /\ IsFiniteSet(K)
      /\ R \in SUBSET Trades /\ IsFiniteSet(R) /\ O \in SUBSET Trades /\ IsFiniteSet(O)
      /\ L \cap K = {} /\ L \cup K = O
  <2>1. O \in SUBSET Trades /\ IsFiniteSet(O) /\ R \in SUBSET Trades /\ IsFiniteSet(R)
    BY <1>0 DEF Ledger
  <2>2. L \in SUBSET O /\ K \in SUBSET O
    BY <1>0
  <2>3. IsFiniteSet(L) /\ IsFiniteSet(K)
    BY <2>1, <2>2, FS_Subset
  <2> QED
    BY <2>1, <2>2, <2>3
<1>2. Keyed(O \cup R) /\ Keyed(L)
  BY <1>0 DEF Ledger, Keyed
<1>3. J \in SUBSET Trades /\ IsFiniteSet(J) /\ Book(J) = Book(L) + SumFunction(g) /\ SumFunction(g) \in Int /\ Book(L) \in Int
  BY <1>0, <1>1, <1>2, BookMoved
<1>4. \A u \in J : \E t \in L : u.id = t.id /\ u.stock = t.stock /\ u = h[t] /\ Recorded(u, days)
  BY <1>0 DEF Shifts, Makes
<1>5. J \cap K = {}
  <2>1. ASSUME NEW u \in J, u \in K PROVE FALSE
    BY <1>1, <1>2, <1>4, <2>1 DEF Keyed
  <2> QED
    BY <2>1
<1>6. J \cap R = {}
  <2>1. ASSUME NEW u \in J, u \in R PROVE FALSE
    <3>1. PICK t \in L : u.id = t.id /\ u.stock = t.stock
      BY <1>4
    <3>2. t = u
      BY <1>1, <1>2, <2>1, <3>1 DEF Keyed
    <3> QED
      BY <1>0, <2>1, <3>2 DEF Ledger
  <2> QED
    BY <2>1
<1>7. K \cap R = {}
  BY <1>0 DEF Ledger
<1>8. /\ Book(O) = Book(L) + Book(K) /\ Book(K) \in Int /\ Book(R) \in Int
      /\ IsFiniteSet(K \cup J) /\ Book(K \cup J) = Book(K) + Book(J)
      /\ IsFiniteSet(R \cup J) /\ Book(R \cup J) = Book(R) + Book(J)
  <2>1. Book(L \cup K) = Book(L) + Book(K)
    BY <1>1, BookUnion
  <2>2. Book(K) \in Int /\ Book(R) \in Int
    <3> DEFINE w == [tr \in Trades |-> Worth(tr)]
    <3>1. (\A t \in K : w[t] = Worth(t)) /\ \A t \in R : w[t] = Worth(t)
      BY <1>1
    <3> HIDE DEF w
    <3> QED
      BY <1>1, <3>1, BookIs
  <2>3. IsFiniteSet(K \cup J) /\ Book(K \cup J) = Book(K) + Book(J)
    BY <1>1, <1>3, <1>5, BookUnion
  <2>4. IsFiniteSet(R \cup J) /\ Book(R \cup J) = Book(R) + Book(J)
    BY <1>1, <1>3, <1>6, BookUnion
  <2> QED
    BY <1>1, <2>1, <2>2, <2>3, <2>4
<1>9. ASSUME NEW x \in K \cup J \cup R, NEW y \in K \cup J \cup R, x.id = y.id, x.stock = y.stock PROVE x = y
  <2>1. \A z \in K \cup R : z \in O \cup R
    OBVIOUS
  <2>2. ASSUME NEW u \in J, NEW z \in K \cup R, u.id = z.id, u.stock = z.stock PROVE FALSE
    <3>1. PICK t \in L : u.id = t.id /\ u.stock = t.stock
      BY <1>4
    <3>2. t = z
      BY <1>1, <1>2, <2>1, <2>2, <3>1 DEF Keyed
    <3> QED
      BY <1>0, <2>2, <3>2, <1>1 DEF Ledger
  <2>3. CASE x \in K \cup R /\ y \in K \cup R
    BY <1>2, <1>9, <2>1, <2>3 DEF Keyed
  <2>4. CASE x \in J /\ y \in J
    <3>1. PICK t \in L : x.id = t.id /\ x.stock = t.stock /\ x = h[t]
      BY <1>4, <2>4
    <3>2. PICK u \in L : y.id = u.id /\ y.stock = u.stock /\ y = h[u]
      BY <1>4, <2>4
    <3>3. t = u
      BY <1>2, <1>9, <3>1, <3>2 DEF Keyed
    <3> QED
      BY <3>1, <3>2, <3>3
  <2> QED
    BY <1>9, <2>2, <2>3, <2>4
<1>10. \A t \in K \cup J \cup R : Recorded(t, days)
  BY <1>0, <1>4 DEF Ledger
<1>11. Keyed(K \cup J \cup R)
  BY <1>9 DEF Keyed
<1> HIDE DEF K
<1>12. ASSUME \A t \in J : t.reason = "open" PROVE Ledger(K \cup J, R, days)
  <2>1. \A t \in K \cup J : t.reason = "open"
    BY <1>0, <1>12 DEF Ledger, K
  <2> QED
    BY <1>0, <2>1, <1>1, <1>3, <1>8, <1>10, <1>11 DEF Ledger
<1>13. ASSUME \A t \in J : t.reason # "open" PROVE Ledger(K, R \cup J, days)
  <2>1. (\A t \in K : t.reason = "open") /\ \A t \in R \cup J : t.reason # "open"
    BY <1>0, <1>13 DEF Ledger, K
  <2>2. K \cup (R \cup J) = K \cup J \cup R
    OBVIOUS
  <2> QED
    BY <1>0, <2>1, <2>2, <1>1, <1>3, <1>8, <1>10, <1>11 DEF Ledger
<1>14. Gains(O, R, K \cup J, R, SumFunction(g)) /\ Gains(O, R, K, R \cup J, SumFunction(g))
  BY <1>3, <1>8 DEF Gains
<1>15. Book(O) \in Int
  BY <1>3, <1>8
<1> QED
  BY <1>3, <1>8, <1>12, <1>13, <1>14, <1>15 DEF K

\* New trades come into the ledger at nothing.
LEMMA LedgerOpens ==
  ASSUME NEW O, NEW R, NEW days, Ledger(O, R, days), NEW B \in SUBSET Trades, IsFiniteSet(B),
         \A t \in B : t.reason = "open" /\ Worth(t) = 0 /\ Recorded(t, days),
         Keyed(B), \A t \in B : \A u \in O \cup R : t.id # u.id
  PROVE  Ledger(O \cup B, R, days) /\ Book(O \cup B) = Book(O)
<1>1. O \in SUBSET Trades /\ IsFiniteSet(O) /\ Keyed(O \cup R) /\ O \cap B = {}
  BY DEF Ledger
<1>2. IsFiniteSet(O \cup B) /\ Book(O \cup B) = Book(O) + Book(B)
  BY <1>1, BookUnion
<1>3. Book(B) = 0 /\ Book(O) \in Int
  <2> DEFINE w == [tr \in Trades |-> Worth(tr)]
  <2>1. (\A t \in B : w[t] = Worth(t)) /\ (\A t \in O : w[t] = Worth(t)) /\ \A t \in B : w[t] = 0
    BY <1>1
  <2> HIDE DEF w
  <2>2. Book(B) = SumFunctionOnSet(w, B) /\ Book(O) \in Int
    BY <1>1, <2>1, BookIs
  <2> QED
    BY <2>1, <2>2, SumZero
<1>4. Keyed(O \cup B \cup R)
  BY <1>1 DEF Keyed
<1>5. Ledger(O \cup B, R, days)
  BY <1>1, <1>2, <1>4 DEF Ledger
<1> QED
  BY <1>2, <1>3, <1>5

\* Trades that close, at prices of the day.
Closing(L, p, c, days, J, g) ==
  /\ \A t \in L : /\ p[t] \in Int /\ c[t] \in Reasons \ {"open"} /\ Traded(days, p[t], Sim, t.stock)
                   /\ Closed(t, p[t], c[t]) \in J
  /\ \A u \in J : \E t \in L : u = Closed(t, p[t], c[t])
  /\ DOMAIN g = L /\ \A t \in L : g[t] = DayGain(t, p[t])

LEMMA LedgerCloses ==
  ASSUME NEW O, NEW R, NEW days, Ledger(O, R, days), simMode # "weights", Sim \in 1 .. Len(days), Sim \in Nat,
         NEW L \in SUBSET O, NEW p, NEW c, NEW J, NEW g, Closing(L, p, c, days, J, g)
  PROVE  /\ Ledger(O \ L, R \cup J, days) /\ Book(O) \in Int /\ Book(R) \in Int /\ SumFunction(g) \in Int
         /\ Gains(O, R, O \ L, R \cup J, SumFunction(g))
<1> DEFINE h == [t \in L |-> Closed(t, p[t], c[t])]
<1>1. (\A t \in L : h[t] = Closed(t, p[t], c[t])) /\ Makes(h, L, J)
  BY DEF Makes, Closing
<1> HIDE DEF h
<1>2. ASSUME NEW t \in L
      PROVE  /\ h[t] \in Trades /\ h[t].id = t.id /\ h[t].stock = t.stock /\ h[t].reason # "open"
             /\ g[t] \in Int /\ Worth(h[t]) = Worth(t) + g[t] /\ Recorded(h[t], days)
  <2>1. t \in Trades /\ t.reason = "open" /\ Recorded(t, days)
    BY DEF Ledger
  <2>2. p[t] \in Int /\ c[t] \in Reasons \ {"open"} /\ g[t] = DayGain(t, p[t]) /\ Traded(days, p[t], Sim, t.stock)
    BY DEF Closing
  <2>3. /\ h[t] \in Trades /\ h[t].id = t.id /\ h[t].stock = t.stock /\ h[t].side = t.side
        /\ h[t].entryDay = t.entryDay /\ h[t].entry = t.entry /\ h[t].exitDay = Sim
        /\ h[t].exit + h[t].side * Slip = p[t] /\ h[t].reason = c[t]
        /\ h[t].pnl = (t.mark - t.entry) * t.side * t.units + g[t]
    BY <2>1, <2>2, <1>1, ClosedIs
  <2>4. Worth(h[t]) = Worth(t) + g[t]
    BY <2>1, <2>2, <2>3 DEF Worth
  <2>5. g[t] \in Int
    BY <2>1, <2>2, DayGainAdds
  <2>6. Recorded(h[t], days)
    BY <2>1, <2>2, <2>3, Zenon DEF Recorded
  <2> QED
    BY <2>2, <2>3, <2>4, <2>5, <2>6
<1>3. Shifts(L, h, g)
  BY <1>2 DEF Shifts, Closing
<1>4. \A u \in J : u.reason # "open" /\ Recorded(u, days)
  BY <1>1, <1>2 DEF Makes
<1>5. Become(O, R, days, L, h, g, J)
  BY <1>1, <1>3, <1>4, Zenon DEF Become
<1> QED
  BY <1>4, <1>5, LedgerMoves

\* Trades that stay open, marked at a price.
Marking(L, p, J, g) ==
  /\ \A t \in L : p[t] \in Int /\ [t EXCEPT !.mark = p[t]] \in J
  /\ \A u \in J : \E t \in L : u = [t EXCEPT !.mark = p[t]]
  /\ DOMAIN g = L /\ \A t \in L : g[t] = MarkGain(t, p[t])

LEMMA LedgerMarks ==
  ASSUME NEW O, NEW R, NEW days, Ledger(O, R, days), simMode # "weights",
         NEW L \in SUBSET O, NEW p, NEW J, NEW g, Marking(L, p, J, g)
  PROVE  /\ Ledger((O \ L) \cup J, R, days) /\ Book(O) \in Int /\ Book(R) \in Int /\ SumFunction(g) \in Int
         /\ Gains(O, R, (O \ L) \cup J, R, SumFunction(g))
<1> DEFINE h == [t \in L |-> [t EXCEPT !.mark = p[t]]]
<1>1. (\A t \in L : h[t] = [t EXCEPT !.mark = p[t]]) /\ Makes(h, L, J)
  BY DEF Makes, Marking
<1> HIDE DEF h
<1>2. ASSUME NEW t \in L
      PROVE  /\ h[t] \in Trades /\ h[t].id = t.id /\ h[t].stock = t.stock /\ h[t].reason = "open"
             /\ g[t] \in Int /\ Worth(h[t]) = Worth(t) + g[t] /\ Recorded(h[t], days)
  <2>1. t \in Trades /\ t.reason = "open" /\ Recorded(t, days)
    BY DEF Ledger
  <2>2. p[t] \in Int /\ g[t] = MarkGain(t, p[t])
    BY DEF Marking
  <2>3. /\ h[t] \in Trades /\ h[t].id = t.id /\ h[t].stock = t.stock /\ h[t].side = t.side
        /\ h[t].entryDay = t.entryDay /\ h[t].entry = t.entry /\ h[t].reason = t.reason
        /\ h[t].mark = p[t] /\ h[t].units = t.units
    BY <2>1, <2>2, <1>1 DEF Trades
  <2>4. Worth(h[t]) = Worth(t) + g[t] /\ g[t] \in Int
    BY <2>1, <2>2, <2>3, DayGainAdds DEF Worth
  <2>6. Recorded(h[t], days)
    BY <2>1, <2>3, Zenon DEF Recorded
  <2> QED
    BY <2>1, <2>3, <2>4, <2>6
<1>3. Shifts(L, h, g)
  BY <1>2 DEF Shifts, Marking
<1>4. \A u \in J : u.reason = "open" /\ Recorded(u, days)
  BY <1>1, <1>2 DEF Makes
<1>5. Become(O, R, days, L, h, g, J)
  BY <1>1, <1>3, <1>4, Zenon DEF Become
<1> QED
  BY <1>4, <1>5, LedgerMoves

\* Trades that count a day: what they made and stand at stays.
LEMMA CountedIs ==
  ASSUME NEW t \in Trades, t.id \in DOMAIN Specs, NEW bar \in Bars
  PROVE  LET c == Counted(t, bar)
         IN /\ c \in Trades /\ c.id = t.id /\ c.stock = t.stock /\ c.side = t.side /\ c.units = t.units
            /\ c.entryDay = t.entryDay /\ c.entry = t.entry /\ c.mark = t.mark /\ c.reason = t.reason /\ c.pnl = t.pnl
<1> DEFINE older == [t EXCEPT !.held = @ + 1]
<1>1. /\ older \in Trades /\ older.id = t.id /\ older.stock = t.stock /\ older.side = t.side /\ older.units = t.units
      /\ older.entryDay = t.entryDay /\ older.entry = t.entry /\ older.mark = t.mark /\ older.reason = t.reason
      /\ older.pnl = t.pnl
  BY DEF Trades
<1> HIDE DEF older
<1> DEFINE spec == Specs[older.id]
           best == IF older.side > 0 THEN Higher(older.best, bar.high) ELSE Lower(older.best, bar.low)
           trail == best - older.side * spec.trail
           stop == IF older.stop = NoLevel THEN trail
                   ELSE IF older.side > 0 THEN Higher(older.stop, trail) ELSE Lower(older.stop, trail)
<1>2. best \in Int
  BY <1>1, TradeFields, BarFields DEF Higher, Lower
<1>3. trail \in Int
  <2>1. spec.trail \in Int /\ older.side \in {-1, 1}
    BY <1>1, TradeFields, SpecFields
  <2> HIDE DEF best, spec
  <2> QED
    BY <1>2, <2>1
<1>4. stop \in Int
  <2>1. older.stop \in Int
    BY <1>1, TradeFields
  <2> HIDE DEF trail
  <2> QED
    BY <1>3, <2>1 DEF Higher, Lower
<1>5. Trailed(older, bar) = IF spec.trail = NoLevel THEN older ELSE [older EXCEPT !.best = best, !.stop = stop]
  BY DEF Trailed
<1>6. Counted(t, bar) = IF Specs[t.id].entry = "close" /\ t.entryDay = Sim THEN older ELSE Trailed(older, bar)
  BY DEF Counted, older
<1> HIDE DEF best, trail, stop, spec
<1>7. CASE Counted(t, bar) = older
  BY <1>1, <1>7
<1>8. CASE Counted(t, bar) = [older EXCEPT !.best = best, !.stop = stop]
  BY <1>1, <1>2, <1>4, <1>8 DEF Trades
<1> QED
  BY <1>5, <1>6, <1>7, <1>8

Counting(L, p, J) ==
  /\ \A t \in L : p[t.stock] \in Bars /\ Counted(t, p[t.stock]) \in J
  /\ \A u \in J : \E t \in L : u = Counted(t, p[t.stock])

LEMMA LedgerCounts ==
  ASSUME NEW O, NEW R, NEW days, Ledger(O, R, days), simMode \in {"single", "multi"},
         NEW L \in SUBSET O, NEW p, NEW J, Counting(L, p, J)
  PROVE  /\ Ledger((O \ L) \cup J, R, days) /\ Gains(O, R, (O \ L) \cup J, R, 0)
         /\ \A u \in J : \E t \in L : u.stock = t.stock /\ u.entryDay = t.entryDay /\ u.id = t.id
<1> DEFINE h == [t \in L |-> Counted(t, p[t.stock])]
           g == [t \in L |-> 0]
<1>1. (\A t \in L : h[t] = Counted(t, p[t.stock])) /\ Makes(h, L, J)
  BY DEF Makes, Counting
<1>0. DOMAIN g = L /\ \A t \in L : g[t] = 0
  OBVIOUS
<1> HIDE DEF h, g
<1>2. ASSUME NEW t \in L
      PROVE  /\ h[t] \in Trades /\ h[t].id = t.id /\ h[t].stock = t.stock /\ h[t].reason = "open"
             /\ h[t].entryDay = t.entryDay
             /\ Worth(h[t]) = Worth(t) /\ Worth(t) \in Int /\ Recorded(h[t], days)
  <2>1. t \in Trades /\ t.reason = "open" /\ Recorded(t, days)
    BY DEF Ledger
  <2>2. t.id \in DOMAIN Specs
    BY <2>1 DEF Recorded
  <2>3. /\ h[t] \in Trades /\ h[t].id = t.id /\ h[t].stock = t.stock /\ h[t].side = t.side
        /\ h[t].entryDay = t.entryDay /\ h[t].entry = t.entry /\ h[t].reason = t.reason
        /\ h[t].mark = t.mark /\ h[t].units = t.units /\ h[t].pnl = t.pnl
    BY <2>1, <2>2, <1>1, CountedIs DEF Counting
  <2>4. Worth(h[t]) = Worth(t) /\ Worth(t) \in Int
    BY <2>1, <2>3, WorthInt DEF Worth
  <2>6. Recorded(h[t], days)
    BY <2>1, <2>3, Zenon DEF Recorded
  <2> QED
    BY <2>1, <2>3, <2>4, <2>6
<1>3. Shifts(L, h, g)
  BY <1>0, <1>2 DEF Shifts
<1>4. \A u \in J : u.reason = "open" /\ Recorded(u, days)
  BY <1>1, <1>2 DEF Makes
<1>5. SumFunction(g) = 0
  <2>1. IsFiniteSet(L)
    BY FS_Subset DEF Ledger
  <2> QED
    BY <1>0, <2>1, SumZero DEF SumFunction
<1>6. /\ Ledger((O \ L) \cup J, R, days) /\ Book(O) \in Int /\ Book(R) \in Int
      /\ Gains(O, R, (O \ L) \cup J, R, SumFunction(g))
  <2>1. Become(O, R, days, L, h, g, J)
    BY <1>1, <1>3, <1>4, Zenon DEF Become
  <2> QED
    BY <1>4, <2>1, LedgerMoves
<1>7. \A u \in J : \E t \in L : u.stock = t.stock /\ u.entryDay = t.entryDay /\ u.id = t.id
  BY <1>1, <1>2 DEF Makes
<1> QED
  BY <1>5, <1>6, <1>7

\* A day more leaves what is recorded.
LEMMA LedgerGrows ==
  ASSUME SimTyped, NEW O, NEW R, Ledger(O, R, tape), NEW bars, tape' = Append(tape, bars)
  PROVE  /\ Ledger(O, R, tape') /\ Len(tape') = Sim /\ Sim \in Nat /\ Sim \in 1 .. Len(tape')
         /\ tape'[Sim] = bars /\ \A d \in DOMAIN tape : d # Sim /\ tape'[d] = tape[d]
         /\ \A t \in O \cup R : t.entryDay \in Nat /\ t.entryDay < Sim
<1> DEFINE S == [Stocks -> Bars \cup {NoBar}]
<1>0. tape \in Seq(S)
  BY DEF SimTyped
<1> HIDE DEF S
<1>1. /\ Len(tape') = Len(tape) + 1 /\ Len(tape) \in Nat /\ DOMAIN tape = 1 .. Len(tape)
      /\ \A d \in 1 .. Len(tape) : tape'[d] = tape[d] /\ tape'[Len(tape) + 1] = bars
  BY <1>0
<1>2. tape'[Len(tape) + 1] = bars
  BY <1>0
<1>3. Sim = Len(tape) + 1
  BY DEF Sim
<1>4. ASSUME NEW t \in O \cup R PROVE Recorded(t, tape') /\ t.entryDay \in Nat /\ t.entryDay < Sim
  <2>1. Recorded(t, tape)
    BY DEF Ledger
  <2>2. t.entryDay \in 1 .. Len(tape) /\ (t.reason # "open" => t.exitDay \in 1 .. Len(tape))
    BY <2>1 DEF Recorded
  <2>3. t.entryDay \in 1 .. Len(tape') /\ (t.reason # "open" => t.exitDay \in 1 .. Len(tape'))
    BY <1>1, <2>2
  <2> QED
    BY <1>1, <1>3, <2>1, <2>2, <2>3 DEF Recorded, Traded
<1>5. Ledger(O, R, tape')
  BY <1>4 DEF Ledger
<1> QED
  BY <1>1, <1>2, <1>3, <1>4, <1>5

\* The next day's invariant, said in this day's terms.
LEMMA DayKept ==
  ASSUME SimulatorInv, simMode' = simMode, NEW bars \in [Stocks -> Bars \cup {NoBar}], tape' = Append(tape, bars), Sim <= CalendarDays,
         simMode # "multi" => bars \in [Stocks -> Bars],
         simMode = "positions" => decided'["target"] \in Targets,
         simMode = "weights" => decided' \in WeightSets,
         SimBounded', Ledger(openTrades', tradeRows', tape'),
         NEW gain \in Int, Gains(openTrades, tradeRows, openTrades', tradeRows', gain), dailyPnl' = dailyPnl + gain
  PROVE  SimulatorInv'
<1> DEFINE S == [Stocks -> Bars \cup {NoBar}]
<1>0. tape \in Seq(S) /\ Len(tape) \in Nat /\ SimTyped /\ SimDecided /\ Ledger(openTrades, tradeRows, tape)
  BY DEF SimulatorInv, SimTyped
<1>1. SimTyped'
  <2>1. bars \in S
    OBVIOUS
  <2> HIDE DEF S
  <2>2. tape' \in Seq(S) /\ Len(tape') = Sim
    BY <1>0, <2>1 DEF Sim
  <2> QED
    BY <1>0, <2>2 DEF SimTyped, S
<1>2. SimDecided'
  <2>1. \A d \in DOMAIN tape' : d \in DOMAIN tape \/ d = Sim
    <3>1. DOMAIN tape' = 1 .. Len(tape) + 1 /\ DOMAIN tape = 1 .. Len(tape)
      <4> HIDE DEF S
      <4>1. bars \in S
        BY DEF S
      <4> QED
        BY <1>0, <4>1
    <3> QED
      BY <1>0, <3>1 DEF Sim
  <2>2. tape'[Sim] = bars /\ \A d \in DOMAIN tape : tape'[d] = tape[d]
    BY <1>0, LedgerGrows
  <2>3. simMode # "multi" => \A d \in DOMAIN tape' : \A s \in Stocks : tape'[d][s] \in Bars
    BY <1>0, <2>1, <2>2 DEF SimDecided
  <2> QED
    BY <2>3 DEF SimDecided
<1>3. Ledger(openTrades, tradeRows, tape)'
  BY DEF Ledger, Recorded
<1>4. /\ Book(openTrades) \in Int /\ Book(tradeRows) \in Int /\ dailyPnl = Book(openTrades) + Book(tradeRows)
  <2> DEFINE w == [tr \in Trades |-> Worth(tr)]
  <2>1. (\A t \in openTrades : w[t] = Worth(t)) /\ (\A t \in tradeRows : w[t] = Worth(t))
    BY <1>0 DEF Ledger
  <2> HIDE DEF w
  <2> QED
    BY <1>0, <2>1, BookIs DEF SimulatorInv, Ledger
<1>5. dailyPnl' = Book(openTrades') + Book(tradeRows')
  BY <1>4 DEF Gains
<1>6. Book(openTrades') = Book(openTrades)' /\ Book(tradeRows') = Book(tradeRows)'
  BY DEF Book, Worth
<1> QED
  BY <1>1, <1>2, <1>3, <1>5, <1>6 DEF SimulatorInv


\* What the ledger stands at is what the days summed to.
LEMMA BooksInt ==
  ASSUME SimulatorInv
  PROVE  /\ SimTyped /\ SimDecided /\ SimBounded /\ Ledger(openTrades, tradeRows, tape) /\ dailyPnl \in Int
         /\ dailyPnl = Book(openTrades) + Book(tradeRows) /\ Book(openTrades) \in Int /\ Book(tradeRows) \in Int
<1> DEFINE w == [tr \in Trades |-> Worth(tr)]
<1>1. /\ SimTyped /\ SimDecided /\ SimBounded /\ Ledger(openTrades, tradeRows, tape)
      /\ dailyPnl = Book(openTrades) + Book(tradeRows)
  BY DEF SimulatorInv
<1>2. (\A t \in openTrades : w[t] = Worth(t)) /\ (\A t \in tradeRows : w[t] = Worth(t))
  BY <1>1 DEF Ledger
<1> HIDE DEF w
<1>3. Book(openTrades) \in Int /\ Book(tradeRows) \in Int
  BY <1>1, <1>2, BookIs DEF Ledger
<1> QED
  BY <1>1, <1>3

LEMMA GainsAdd ==
  ASSUME NEW O, NEW R, NEW O1, NEW R1, NEW O2, NEW R2, NEW a \in Int, NEW b \in Int,
         Book(O) \in Int, Book(R) \in Int, Gains(O, R, O1, R1, a), Gains(O1, R1, O2, R2, b)
  PROVE  Gains(O, R, O2, R2, a + b)
  BY DEF Gains

\* A trade opened today, at a price of today.
LEMMA OpenedRecorded ==
  ASSUME SimTyped, NEW bars, tape' = Append(tape, bars),
         NEW id \in Nat, NEW stock \in Stocks, NEW side \in {-1, 1}, NEW units \in Nat, NEW price \in Int, NEW fill \in Int, NEW stop \in Int,
         simMode # "weights" => fill = Fill(price, side) /\ Traded(tape', price, Sim, stock),
         IF simMode \in {"single", "multi"} THEN id \in DOMAIN Specs /\ Specs[id].day = Sim ELSE id = Sim
  PROVE  LET t == Opened(id, stock, side, units, fill, stop)
         IN /\ t \in Trades /\ t.id = id /\ t.stock = stock /\ t.units = units /\ t.reason = "open" /\ Worth(t) = 0
            /\ Recorded(t, tape')
<1> DEFINE t == Opened(id, stock, side, units, fill, stop)
           S == [Stocks -> Bars \cup {NoBar}]
<1>1. Sim \in Nat /\ Sim \in 1 .. Len(tape')
  <2>1. tape \in Seq(S)
    BY DEF SimTyped
  <2> HIDE DEF S
  <2> QED
    BY <2>1 DEF Sim
<1>2. /\ t \in Trades /\ t.id = id /\ t.stock = stock /\ t.side = side /\ t.units = units
      /\ t.entryDay = Sim /\ t.entry = fill /\ t.mark = fill /\ t.reason = "open" /\ t.pnl = 0
  <2>1. Sim \in Nat
    BY <1>1
  <2> QED
    BY <2>1, OpenedIs, SMTT(30)
<1> HIDE DEF t
<1>3. Worth(t) = 0
  BY <1>2, TradeFields DEF Worth
<1>4. simMode # "weights" => Traded(tape', t.entry - t.side * Slip, t.entryDay, t.stock)
  <2>1. SUFFICES ASSUME simMode # "weights" PROVE Traded(tape', t.entry - t.side * Slip, t.entryDay, t.stock)
    OBVIOUS
  <2>2. t.entry - t.side * Slip = price
    <3>1. Fill(price, side) - side * Slip = price
      BY FillType
    <3>2. t.entry = Fill(price, side) /\ t.side = side
      BY <1>2, <2>1
    <3> QED
      BY <3>1, <3>2, Zenon
  <2> QED
    BY <1>2, <2>1, <2>2
<1>5. Recorded(t, tape')
  BY <1>1, <1>2, <1>4, Zenon DEF Recorded
<1> QED
  BY <1>2, <1>3, <1>5 DEF t

LEMMA PositionDayHolds ==
  ASSUME SimulatorInv, simMode = "positions", NEW bar \in Bars, NEW want \in Int,
         tape' = Append(tape, [s \in Stocks |-> bar]), PositionDay(bar, want)
  PROVE  /\ Ledger(openTrades', tradeRows', tape')
         /\ \E gain \in Int : dailyPnl' = dailyPnl + gain /\ Gains(openTrades, tradeRows, openTrades', tradeRows', gain)
<1> DEFINE turn == want # SumFunction([t \in openTrades |-> t.side * t.units])
           side == IF want > 0 THEN 1 ELSE -1
           sold == IF turn THEN openTrades ELSE {}
           new == Opened(Sim, CHOOSE s \in Stocks : TRUE, side, Amount(want), Fill(bar.open, side), NoLevel)
           begun == IF turn /\ want # 0 THEN {new} ELSE {}
           kept == IF ~turn THEN openTrades ELSE IF want = 0 THEN {} ELSE {new}
           marked == {[t EXCEPT !.mark = bar.close] : t \in kept}
           ended == IF LastBar THEN marked ELSE {}
           soldRows == {Closed(t, bar.open, "signal") : t \in sold}
           endRows == {Closed(t, bar.close, "end") : t \in ended}
           soldGain == [t \in sold |-> DayGain(t, bar.open)]
           keptGain == [t \in kept |-> MarkGain(t, bar.close)]
           endGain == [t \in ended |-> DayGain(t, bar.close)]
           open0 == openTrades \cup begun
           rows1 == tradeRows \cup soldRows
<1>1. /\ tradeRows' = rows1 \cup endRows /\ openTrades' = marked \ ended
      /\ dailyPnl' = dailyPnl + SumFunction(soldGain) + SumFunction(keptGain) + SumFunction(endGain)
  BY DEF PositionDay
<1>2. SimTyped /\ Ledger(openTrades, tradeRows, tape) /\ dailyPnl \in Int
  BY BooksInt
<1> DEFINE bars == [s \in Stocks |-> bar]
<1>3. /\ Ledger(openTrades, tradeRows, tape') /\ Sim \in Nat /\ Sim \in 1 .. Len(tape') /\ tape'[Sim] = bars
      /\ \A t \in openTrades \cup tradeRows : t.entryDay \in Nat /\ t.entryDay < Sim
  BY <1>2, LedgerGrows
<1>4. \A s \in Stocks : tape'[Sim][s] = bar
  BY <1>3
<1> HIDE DEF bars
<1>5. \A s \in Stocks : Traded(tape', bar.open, Sim, s) /\ Traded(tape', bar.close, Sim, s)
  BY <1>4, BarFields DEF Traded
<1>6. bar.open \in Int /\ bar.close \in Int /\ side \in {-1, 1} /\ Amount(want) \in Nat /\ (CHOOSE s \in Stocks : TRUE) \in Stocks
      /\ NoLevel \in Int
  BY BarFields, SimulatorAssumption DEF Amount
<1>7. /\ new \in Trades /\ new.id = Sim /\ new.reason = "open" /\ Worth(new) = 0 /\ Recorded(new, tape')
  <2>1. Fill(bar.open, side) \in Int
    BY <1>6, FillType
  <2> HIDE DEF side
  <2> QED
    BY <1>2, <1>3, <1>5, <1>6, <2>1, OpenedRecorded
<1> HIDE DEF new
<1>8. \A t \in openTrades \cup tradeRows : t.id # new.id
  <2>1. \A t \in openTrades \cup tradeRows : t.id = t.entryDay
    BY <1>2 DEF Ledger, Recorded
  <2> QED
    BY <1>3, <1>7, <2>1
<1>9. Ledger(open0, tradeRows, tape') /\ Book(open0) = Book(openTrades)
  <2>1. begun \in SUBSET Trades /\ IsFiniteSet(begun) /\ Keyed(begun)
    BY <1>7, FS_EmptySet, FS_Singleton DEF Keyed
  <2>2. \A t \in begun : t.reason = "open" /\ Worth(t) = 0 /\ Recorded(t, tape') /\ t.id = new.id
    BY <1>7
  <2> HIDE DEF begun
  <2> QED
    BY <1>3, <1>8, <2>1, <2>2, LedgerOpens
<1>10. kept = open0 \ sold /\ sold \subseteq open0
  <2>1. new \notin openTrades
    BY <1>8
  <2> QED
    BY <2>1
<1> HIDE DEF turn, side, sold, begun, kept
<1>11. /\ Ledger(kept, rows1, tape') /\ Gains(open0, tradeRows, kept, rows1, SumFunction(soldGain))
       /\ SumFunction(soldGain) \in Int /\ Book(open0) \in Int /\ Book(tradeRows) \in Int
  <2> DEFINE p == [t \in sold |-> bar.open]
             c == [t \in sold |-> "signal"]
  <2>1. \A t \in sold : t.stock \in Stocks
    BY <1>9, <1>10, TradeFields DEF Ledger
  <2>2. \A t \in sold : p[t] = bar.open /\ c[t] = "signal"
    OBVIOUS
  <2> HIDE DEF p, c
  <2>3. \A t \in sold : p[t] \in Int /\ c[t] \in Reasons \ {"open"} /\ Traded(tape', p[t], Sim, t.stock)
    BY <1>5, <1>6, <2>1, <2>2 DEF Reasons
  <2>4. Closing(sold, p, c, tape', soldRows, soldGain)
    BY <2>2, <2>3 DEF Closing
  <2> HIDE DEF soldRows, soldGain, open0
  <2> QED
    BY <1>3, <1>9, <1>10, <2>3, <2>4, LedgerCloses
<1>12. /\ Ledger(marked, rows1, tape') /\ Gains(kept, rows1, marked, rows1, SumFunction(keptGain))
       /\ SumFunction(keptGain) \in Int /\ Book(kept) \in Int /\ Book(rows1) \in Int
  <2> DEFINE p == [t \in kept |-> bar.close]
  <2>1. \A t \in kept : p[t] = bar.close
    OBVIOUS
  <2> HIDE DEF p
  <2>2. \A t \in kept : p[t] \in Int
    BY <1>6, <2>1
  <2>3. Marking(kept, p, marked, keptGain)
    BY <2>1, <2>2 DEF Marking
  <2>4. (kept \ kept) \cup marked = marked /\ kept \in SUBSET kept
    OBVIOUS
  <2> HIDE DEF marked, keptGain, rows1
  <2>5. /\ Ledger((kept \ kept) \cup marked, rows1, tape') /\ Gains(kept, rows1, (kept \ kept) \cup marked, rows1, SumFunction(keptGain))
        /\ SumFunction(keptGain) \in Int /\ Book(kept) \in Int /\ Book(rows1) \in Int
    BY <1>11, <2>2, <2>3, <2>4, LedgerMarks
  <2> QED
    BY <2>4, <2>5
<1>13. /\ Ledger(openTrades', tradeRows', tape') /\ Gains(marked, rows1, openTrades', tradeRows', SumFunction(endGain))
       /\ SumFunction(endGain) \in Int /\ Book(marked) \in Int
  <2> DEFINE p == [t \in ended |-> bar.close]
             c == [t \in ended |-> "end"]
  <2>0. ended \subseteq marked
    OBVIOUS
  <2> HIDE DEF marked
  <2>1. \A t \in ended : t.stock \in Stocks
    BY <1>12, <2>0, TradeFields DEF Ledger
  <2> HIDE DEF ended
  <2>2. \A t \in ended : p[t] = bar.close /\ c[t] = "end"
    OBVIOUS
  <2> HIDE DEF p, c
  <2>3. \A t \in ended : p[t] \in Int /\ c[t] \in Reasons \ {"open"} /\ Traded(tape', p[t], Sim, t.stock)
    BY <1>5, <1>6, <2>1, <2>2 DEF Reasons
  <2>4. Closing(ended, p, c, tape', endRows, endGain)
    BY <2>2, <2>3 DEF Closing
  <2> HIDE DEF endRows, endGain, rows1
  <2> QED
    BY <1>1, <1>3, <1>12, <2>0, <2>3, <2>4, LedgerCloses
<1> HIDE DEF soldGain, keptGain, endGain, marked, rows1, open0
<1> DEFINE a == SumFunction(soldGain)
           b == SumFunction(keptGain)
           c == SumFunction(endGain)
<1>14. Gains(openTrades, tradeRows, openTrades', tradeRows', a + b + c) /\ a \in Int /\ b \in Int /\ c \in Int
  <2>1. a \in Int /\ b \in Int /\ c \in Int
    BY <1>11, <1>12, <1>13 DEF a, b, c
  <2>2. Gains(open0, tradeRows, kept, rows1, a) /\ Gains(kept, rows1, marked, rows1, b)
        /\ Gains(marked, rows1, openTrades', tradeRows', c)
    BY <1>11, <1>12, <1>13 DEF a, b, c
  <2> HIDE DEF a, b, c
  <2>3. Gains(open0, tradeRows, marked, rows1, a + b)
    BY <1>11, <2>1, <2>2, GainsAdd
  <2>4. Gains(open0, tradeRows, openTrades', tradeRows', a + b + c)
    BY <1>11, <2>1, <2>2, <2>3, GainsAdd
  <2> QED
    BY <1>9, <2>1, <2>4 DEF Gains
<1> HIDE DEF a, b, c
<1>15. dailyPnl' = dailyPnl + (a + b + c) /\ a + b + c \in Int
  <2>1. dailyPnl' = dailyPnl + a + b + c
    BY <1>1 DEF a, b, c
  <2> QED
    BY <1>2, <1>14, <2>1
<1> QED
  BY <1>13, <1>14, <1>15

LEMMA FirstDay ==
  ASSUME SimulatorInv, NEW bars, tape' = Append(tape, bars), UNCHANGED <<openTrades, tradeRows, dailyPnl>>
  PROVE  /\ Ledger(openTrades', tradeRows', tape')
         /\ \E gain \in Int : dailyPnl' = dailyPnl + gain /\ Gains(openTrades, tradeRows, openTrades', tradeRows', gain)
<1>4. dailyPnl' = dailyPnl + 0 /\ Gains(openTrades, tradeRows, openTrades', tradeRows', 0)
  BY BooksInt DEF Gains
<1>5. Ledger(openTrades', tradeRows', tape')
  BY BooksInt, LedgerGrows
<1> QED
  BY <1>4, <1>5

LEMMA PositionHolds ==
  ASSUME SimulatorInv, PositionStep
  PROVE  SimulatorInv'
<1>1. PICK bar \in Bars, want \in Targets :
        /\ tape' = Append(tape, [s \in Stocks |-> bar])
        /\ IF Sim = 1 THEN UNCHANGED <<openTrades, tradeRows, dailyPnl>>
           ELSE PositionDay(bar, decided["target"])
        /\ decided' = [d \in {"target"} |-> want]
  BY DEF PositionStep
<1>2. simMode = "positions" /\ simMode' = simMode /\ Sim <= CalendarDays
  BY DEF PositionStep
<1> DEFINE bars == [s \in Stocks |-> bar]
<1>3. bars \in [Stocks -> Bars] /\ bars \in [Stocks -> Bars \cup {NoBar}]
  OBVIOUS
<1>4. /\ Ledger(openTrades', tradeRows', tape')
      /\ \E gain \in Int : dailyPnl' = dailyPnl + gain /\ Gains(openTrades, tradeRows, openTrades', tradeRows', gain)
  <2>1. CASE Sim = 1
    BY <1>1, <2>1, FirstDay
  <2>2. CASE Sim # 1
    <3>1. decided["target"] \in Int
      <4>1. tape # <<>>
        BY <2>2 DEF Sim
      <4> QED
        BY <4>1, <1>2, SimulatorAssumption DEF SimulatorInv, SimDecided
    <3> QED
      BY <1>1, <1>2, <2>2, <3>1, PositionDayHolds
  <2> QED
    BY <2>1, <2>2
<1>5. decided'["target"] \in Targets
  BY <1>1
<1>6. SimBounded'
  BY <1>2 DEF SimBounded
<1>7. tape' = Append(tape, bars)
  BY <1>1
<1> HIDE DEF bars
<1>8. PICK gain \in Int : dailyPnl' = dailyPnl + gain /\ Gains(openTrades, tradeRows, openTrades', tradeRows', gain)
  BY <1>4
<1> QED
  BY <1>2, <1>3, <1>4, <1>5, <1>6, <1>7, <1>8, DayKept
-----------------------------------------------------------------------------
\* simulate_trades and simulate_trades_multi.
LEMMA EntryTraded ==
  ASSUME NEW i \in DOMAIN Specs, NEW bar \in Bars
  PROVE  LET price == EntryPrice(Specs[i], bar)
         IN price # NoLevel => price \in Int /\ bar.low <= price /\ price <= bar.high
<1> DEFINE spec == Specs[i]
           above == (spec.entry = "stop") = (spec.side > 0)
           price == EntryPrice(spec, bar)
<1>1. spec.level \in Int /\ spec.entry \in {"open", "close", "stop", "limit"}
  BY SpecFields
<1> HIDE DEF spec
<1>2. price = IF spec.entry = "open" THEN bar.open ELSE IF spec.entry = "close" THEN bar.close
              ELSE IF above THEN IF bar.high >= spec.level THEN Higher(bar.open, spec.level) ELSE NoLevel
              ELSE IF bar.low <= spec.level THEN Lower(bar.open, spec.level) ELSE NoLevel
  BY <1>1 DEF EntryPrice
<1> HIDE DEF price, above
<1>3. ASSUME price # NoLevel PROVE price \in Int /\ bar.low <= price /\ price <= bar.high
  BY <1>1, <1>2, <1>3, BarFields DEF Higher, Lower
<1> QED
  BY <1>3 DEF price, spec

LEMMA LeavesTraded ==
  ASSUME NEW t \in Trades, t.id \in DOMAIN Specs, NEW bar \in Bars, NEW x \in Leaves(t, bar)
  PROVE  x[1] \in Int /\ bar.low <= x[1] /\ x[1] <= bar.high /\ x[2] \in Reasons \ {"open"}
<1> DEFINE spec == Specs[t.id]
           reason == IF t.held >= spec.hold THEN "time" ELSE IF spec.rule # {} THEN "rule" ELSE "end"
<1>1. \/ x = <<StopPrice(t, bar), "stop">> /\ Reached(t.stop, bar, t.side < 0)
      \/ x = <<TargetPrice(t, bar), "target">> /\ Reached(spec.target, bar, t.side > 0)
      \/ x = <<bar.close, reason>>
  BY DEF Leaves
<1>2. t.stop \in Int /\ t.side \in {-1, 1} /\ spec.target \in Int
  BY TradeFields, SpecFields
<1>3. reason \in Reasons \ {"open"}
  BY DEF Reasons
<1> HIDE DEF reason
<1>4. CASE x = <<StopPrice(t, bar), "stop">> /\ Reached(t.stop, bar, t.side < 0)
  <2>1. StopPrice(t, bar) \in Int /\ bar.low <= StopPrice(t, bar) /\ StopPrice(t, bar) <= bar.high
    BY <1>2, <1>4, BarFields DEF StopPrice, Reached, Higher, Lower
  <2> QED
    BY <1>4, <2>1 DEF Reasons
<1>5. CASE x = <<TargetPrice(t, bar), "target">> /\ Reached(spec.target, bar, t.side > 0)
  <2>1. TargetPrice(t, bar) \in Int /\ bar.low <= TargetPrice(t, bar) /\ TargetPrice(t, bar) <= bar.high
    BY <1>2, <1>5, BarFields DEF TargetPrice, Reached, Higher, Lower
  <2> QED
    BY <1>5, <2>1 DEF Reasons
<1>6. CASE x = <<bar.close, reason>>
  BY <1>3, <1>6, BarFields
<1> QED
  BY <1>1, <1>4, <1>5, <1>6

\* No more trades than allowed, in the portfolio one of a symbol.
Within(H) ==
  /\ IsFiniteSet(H) /\ Cardinality(H) <= MaxTrades
  /\ simMode = "multi" => \A s, t \in H : s.stock = t.stock => s = t

\* One candidate more: it is new in the ledger.
LEMMA AdmitHolds ==
  ASSUME SimTyped, simMode \in {"single", "multi"}, NEW bars \in [Stocks -> Bars \cup {NoBar}], tape' = Append(tape, bars),
         NEW i \in Candidates(bars), NEW H, Ledger(H, tradeRows, tape'), Within(H),
         \A u \in H \cup tradeRows : u.entryDay = Sim => u.id # i
  PROVE  LET A == Admit(H, i, bars)
         IN /\ Ledger(A, tradeRows, tape') /\ Within(A) /\ Book(A) = Book(H)
            /\ \A u \in A : u \in H \/ u.id = i
<1> DEFINE spec == Specs[i]
           bar == bars[spec.stock]
           price == EntryPrice(spec, bar)
           new == Opened(i, spec.stock, spec.side, 1, Fill(price, spec.side), spec.stop)
           A == Admit(H, i, bars)
<1>1. A = IF Room(H, spec.stock) /\ price # NoLevel THEN H \cup {new} ELSE H
  BY DEF Admit
<1>2. i \in DOMAIN Specs /\ spec.day = Sim /\ spec.stock \in Stocks /\ bar \in Bars /\ i \in Nat /\ spec.side \in {-1, 1} /\ spec.stop \in Int
  BY SpecFields DEF Candidates
<1>3. CASE ~(Room(H, spec.stock) /\ price # NoLevel)
  BY <1>1, <1>3
<1>4. CASE Room(H, spec.stock) /\ price # NoLevel
  <2>1. price \in Int /\ bar.low <= price /\ price <= bar.high
    BY <1>2, <1>4, EntryTraded
  <2>2. tape'[Sim] = bars
    <3> DEFINE S == [Stocks -> Bars \cup {NoBar}]
    <3>1. tape \in Seq(S)
      BY DEF SimTyped
    <3> HIDE DEF S
    <3> QED
      BY <3>1 DEF Sim
  <2>3. Traded(tape', price, Sim, spec.stock)
    BY <2>1, <2>2 DEF Traded
  <2>4. Fill(price, spec.side) \in Int
    BY <1>2, <2>1, FillType
  <2>10. i \in DOMAIN Specs /\ Specs[i].day = Sim
    BY <1>2
  <2> HIDE DEF spec, price, bar
  <2>5. /\ new \in Trades /\ new.id = i /\ new.stock = spec.stock /\ new.reason = "open" /\ Worth(new) = 0
        /\ Recorded(new, tape')
    BY <1>2, <2>1, <2>3, <2>4, <2>10, OpenedRecorded
  <2> HIDE DEF new
  <2>6. \A u \in H \cup tradeRows : u.id # new.id
    <3>1. ASSUME NEW u \in H \cup tradeRows, u.id = i PROVE FALSE
      <4>1. Recorded(u, tape')
        BY DEF Ledger
      <4>2. u.entryDay = Sim
        BY <1>2, <3>1, <4>1 DEF Recorded, spec
      <4> QED
        BY <3>1, <4>2
    <3> QED
      BY <2>5, <3>1
  <2>7. Ledger(H \cup {new}, tradeRows, tape') /\ Book(H \cup {new}) = Book(H)
    <3> DEFINE B == {new}
    <3>1. B \in SUBSET Trades /\ IsFiniteSet(B) /\ Keyed(B)
      BY <2>5, FS_Singleton DEF Keyed
    <3>2. \A t \in B : t.reason = "open" /\ Worth(t) = 0 /\ Recorded(t, tape') /\ t.id = new.id
      BY <2>5
    <3> HIDE DEF B
    <3>3. Ledger(H \cup B, tradeRows, tape') /\ Book(H \cup B) = Book(H)
      BY <2>6, <3>1, <3>2, LedgerOpens
    <3> QED
      BY <3>3 DEF B
  <2>8. Within(H \cup {new})
    <3>1. new \notin H
      BY <2>6
    <3>2. IsFiniteSet(H \cup {new}) /\ Cardinality(H \cup {new}) = Cardinality(H) + 1 /\ Cardinality(H) \in Nat
      BY <3>1, FS_AddElement, FS_CardinalityType DEF Within
    <3>3. Cardinality(H \cup {new}) <= MaxTrades
      BY <1>4, <3>2, SimulatorAssumption DEF Room
    <3>4. simMode = "multi" => \A s, t \in H \cup {new} : s.stock = t.stock => s = t
      BY <1>4, <2>5 DEF Within, Room
    <3> QED
      BY <3>2, <3>3, <3>4 DEF Within
  <2>9. A = H \cup {new}
    BY <1>1, <1>4
  <2> HIDE DEF A
  <2> QED
    BY <2>5, <2>7, <2>8, <2>9 DEF A
<1> QED
  BY <1>3, <1>4

\* The trades of the day's entries, one candidate after the other.
IsHeld(h, ranks, bars) ==
  h = [k \in 0 .. Len(ranks) |-> IF k = 0 THEN openTrades ELSE Admit(h[k - 1], ranks[k], bars)]

LEMMA EnteredIs ==
  ASSUME NEW ranks, NEW bars
  PROVE  Entered(ranks, bars) = (CHOOSE h : IsHeld(h, ranks, bars))[Len(ranks)]
  BY DEF Entered, IsHeld

LEMMA RankedIs ==
  ASSUME NEW bars, NEW ranks \in Ranked(bars)
  PROVE  /\ Len(ranks) \in Nat /\ DOMAIN ranks = 1 .. Len(ranks) /\ \A k \in 1 .. Len(ranks) : ranks[k] \in Candidates(bars)
         /\ \A j, k \in 1 .. Len(ranks) : ranks[j] = ranks[k] => j = k
<1> DEFINE C == Candidates(bars)
           n == Cardinality(C)
<1>1. n \in Nat
  <2> DEFINE S == [stock : Stocks, day : Nat, side : {-1, 1}, entry : {"open", "close", "stop", "limit"},
                   level : Int, stop : Int, target : Int, hold : Nat, trail : Int, rule : SUBSET Nat, rank : Int]
             ids == DOMAIN Specs
  <2>1. Specs \in Seq(S)
    BY SimulatorAssumption
  <2> HIDE DEF S
  <2>2. IsFiniteSet(ids)
    <3>1. ids = 1 .. Len(Specs) /\ Len(Specs) \in Nat
      BY <2>1
    <3> QED
      BY <3>1, FS_Interval
  <2>3. C \in SUBSET ids
    BY DEF Candidates
  <2> HIDE DEF C, ids
  <2> QED
    BY <2>2, <2>3, FS_Subset, FS_CardinalityType
<1>2. ranks \in Bijection(1 .. n, C)
  BY DEF Ranked
<1> HIDE DEF C, n
<1>3. ranks \in [1 .. n -> C] /\ \A j, k \in 1 .. n : ranks[j] = ranks[k] => j = k
  BY <1>2 DEF Bijection, Injection, IsInjective
<1>4. ranks \in Seq(C) /\ Len(ranks) = n
  BY <1>1, <1>3
<1> QED
  BY <1>1, <1>3, <1>4 DEF C

LEMMA AdmitType ==
  ASSUME SimTyped, NEW bars \in [Stocks -> Bars \cup {NoBar}], NEW i \in Candidates(bars), NEW H \in SUBSET Trades
  PROVE  Admit(H, i, bars) \in SUBSET Trades
<1> DEFINE spec == Specs[i]
           bar == bars[spec.stock]
           price == EntryPrice(spec, bar)
           new == Opened(i, spec.stock, spec.side, 1, Fill(price, spec.side), spec.stop)
<1>1. Admit(H, i, bars) = IF Room(H, spec.stock) /\ price # NoLevel THEN H \cup {new} ELSE H
  BY DEF Admit
<1>2. spec.stock \in Stocks /\ bar \in Bars /\ i \in Nat /\ i \in DOMAIN Specs /\ spec.side \in {-1, 1} /\ spec.stop \in Int
  BY SpecFields DEF Candidates
<1>3. Sim \in Nat
  <2> DEFINE S == [Stocks -> Bars \cup {NoBar}]
  <2>1. tape \in Seq(S)
    BY DEF SimTyped
  <2> HIDE DEF S
  <2> QED
    BY <2>1 DEF Sim
<1>4. price # NoLevel => new \in Trades
  <2>1. SUFFICES ASSUME price # NoLevel PROVE new \in Trades
    OBVIOUS
  <2>2. price \in Int
    BY <1>2, <2>1, EntryTraded
  <2>3. Fill(price, spec.side) \in Int
    BY <1>2, <2>2, FillType
  <2> HIDE DEF spec, price
  <2> QED
    BY <1>2, <1>3, <2>3, OpenedIs
<1> HIDE DEF new, price
<1> QED
  BY <1>1, <1>4

LEMMA HeldExists ==
  ASSUME SimTyped, openTrades \in SUBSET Trades, NEW bars \in [Stocks -> Bars \cup {NoBar}], NEW ranks \in Ranked(bars)
  PROVE  IsHeld(CHOOSE h : IsHeld(h, ranks, bars), ranks, bars)
<1> DEFINE n == Len(ranks)
           X == SUBSET Trades
           step == [k \in 1 .. n |-> [H \in X |-> Admit(H, ranks[k], bars)]]
<1>1. n \in Nat /\ \A k \in 1 .. n : ranks[k] \in Candidates(bars)
  BY RankedIs
<1>2. \A k \in 1 .. n : \A H \in X : Admit(H, ranks[k], bars) \in X
  BY <1>1, AdmitType
<1>3. step \in [1 .. n -> [X -> X]] /\ \A k \in 1 .. n : \A H \in X : step[k][H] = Admit(H, ranks[k], bars)
  BY <1>2
<1> HIDE DEF step
<1>4. openTrades \in X
  OBVIOUS
<1> HIDE DEF X, n
<1>5. PICK h \in [0 .. n -> X] : h[0] = openTrades /\ \A k \in 1 .. n : h[k] = step[k][h[k - 1]]
  <2>1. Recursion(n, X, openTrades, step)
    BY <1>1, <1>3, <1>4 DEF Recursion
  <2> QED
    BY <2>1, RecursionExists
<1>6. \A k \in 0 .. n : h[k] = IF k = 0 THEN openTrades ELSE Admit(h[k - 1], ranks[k], bars)
  <2>1. ASSUME NEW k \in 1 .. n PROVE h[k] = Admit(h[k - 1], ranks[k], bars)
    <3>1. k - 1 \in 0 .. n /\ h[k - 1] \in X
      BY <1>1, <1>5
    <3> QED
      BY <1>3, <1>5, <3>1
  <2> QED
    BY <1>1, <1>5, <2>1
<1>7. IsHeld(h, ranks, bars)
  BY <1>5, <1>6 DEF IsHeld, n
<1> QED
  BY <1>7, Zenon

LEMMA EnteredHolds ==
  ASSUME SimulatorInv, simMode \in {"single", "multi"}, NEW bars \in [Stocks -> Bars \cup {NoBar}], tape' = Append(tape, bars),
         NEW ranks \in Ranked(bars)
  PROVE  LET E == Entered(ranks, bars)
         IN Ledger(E, tradeRows, tape') /\ Within(E) /\ Book(E) = Book(openTrades)
<1> DEFINE n == Len(ranks)
           h == CHOOSE c : IsHeld(c, ranks, bars)
           C == {k \in 0 .. n : /\ Ledger(h[k], tradeRows, tape') /\ Within(h[k]) /\ Book(h[k]) = Book(openTrades)
                                /\ \A u \in h[k] \cup tradeRows : u.entryDay = Sim => \E j \in 1 .. k : u.id = ranks[j]}
<1>1. /\ n \in Nat /\ \A k \in 1 .. n : ranks[k] \in Candidates(bars)
      /\ \A j, k \in 1 .. n : ranks[j] = ranks[k] => j = k
  BY RankedIs
<1>2. SimTyped /\ SimBounded /\ Ledger(openTrades, tradeRows, tape) /\ openTrades \in SUBSET Trades
  BY BooksInt DEF Ledger
<1>3. IsHeld(h, ranks, bars)
  BY <1>2, HeldExists
<1>4. Entered(ranks, bars) = h[n]
  BY EnteredIs
<1> HIDE DEF h, n
<1>5. h[0] = openTrades /\ \A k \in 1 .. n : h[k] = Admit(h[k - 1], ranks[k], bars)
  BY <1>1, <1>3 DEF IsHeld, n
<1>6. 0 \in C
  <2>1. Ledger(openTrades, tradeRows, tape') /\ \A t \in openTrades \cup tradeRows : t.entryDay \in Nat /\ t.entryDay < Sim
    BY <1>2, LedgerGrows
  <2>2. Within(openTrades)
    BY <1>2 DEF SimBounded, Within, Ledger
  <2> QED
    BY <1>1, <1>5, <2>1, <2>2
<1>7. ASSUME NEW k \in 0 .. n - 1, k \in C PROVE k + 1 \in C
  <2> DEFINE i == ranks[k + 1]
             A == Admit(h[k], i, bars)
  <2>1. k + 1 \in 1 .. n /\ i \in Candidates(bars) /\ h[k + 1] = A
    <3>1. k + 1 \in 1 .. n /\ (k + 1) - 1 = k
      BY <1>1
    <3> QED
      BY <1>1, <1>5, <3>1
  <2>2. /\ Ledger(h[k], tradeRows, tape') /\ Within(h[k]) /\ Book(h[k]) = Book(openTrades)
        /\ \A u \in h[k] \cup tradeRows : u.entryDay = Sim => \E j \in 1 .. k : u.id = ranks[j]
    BY <1>7
  <2>3. \A u \in h[k] \cup tradeRows : u.entryDay = Sim => u.id # i
    BY <1>1, <2>1, <2>2
  <2> HIDE DEF i
  <2>4. /\ Ledger(A, tradeRows, tape') /\ Within(A) /\ Book(A) = Book(h[k])
        /\ \A u \in A : u \in h[k] \/ u.id = i
    BY <1>2, <2>1, <2>2, <2>3, AdmitHolds
  <2> HIDE DEF A
  <2>5. \A u \in A \cup tradeRows : u.entryDay = Sim => \E j \in 1 .. k + 1 : u.id = ranks[j]
    BY <2>1, <2>2, <2>4 DEF i
  <2> QED
    BY <1>1, <2>1, <2>2, <2>4, <2>5
<1> HIDE DEF C
<1>8. n \in C
  BY <1>1, <1>6, <1>7, CountingInduction
<1> QED
  BY <1>4, <1>8 DEF C

\* The bars of a day bring some symbols one.
LEMMA DaysBarsIs ==
  ASSUME NEW bars \in DaysBars
  PROVE  bars \in [Stocks -> Bars \cup {NoBar}] /\ (simMode = "single" => bars \in [Stocks -> Bars])
  BY DEF DaysBars

\* Sets of trades that come one to one from the trades of another, in two parts, are within its bound.
Successive(A, B, h, M, K, g, N) ==
  /\ IsFiniteSet(B) /\ A \cap B = {} /\ Makes(h, B, M) /\ K \in SUBSET M /\ Makes(g, K, N)
  /\ \A t \in B : h[t].stock = t.stock /\ h[t].id = t.id
  /\ \A t \in K : g[t].stock = t.stock /\ g[t].id = t.id
  /\ Keyed(A \cup N)

LEMMA WithinImages ==
  ASSUME NEW A, NEW B, Within(A \cup B), NEW h, NEW M, NEW K, NEW g, NEW N, Successive(A, B, h, M, K, g, N)
  PROVE  Within(A \cup N)
<1> DEFINE E == A \cup B
<1> USE DEF Successive
<1>1. IsFiniteSet(M) /\ Cardinality(M) <= Cardinality(B)
  BY ImageFinite
<1>2. IsFiniteSet(K) /\ Cardinality(K) <= Cardinality(M)
  BY <1>1, FS_Subset
<1>3. IsFiniteSet(N) /\ Cardinality(N) <= Cardinality(K)
  BY <1>2, ImageFinite
<1>4. IsFiniteSet(E) /\ Cardinality(E) <= MaxTrades
  BY DEF Within
<1>5. A \subseteq E
  OBVIOUS
<1>6. IsFiniteSet(A)
  BY <1>4, <1>5, FS_Subset
<1>7. Cardinality(A \cup B) = Cardinality(A) + Cardinality(B)
  <2>1. Cardinality(A \cup B) = Cardinality(A) + Cardinality(B) - Cardinality(A \cap B)
    BY <1>6, FS_Union
  <2>2. Cardinality(A \cap B) = 0
    BY FS_EmptySet
  <2>3. Cardinality(A) \in Nat /\ Cardinality(B) \in Nat
    BY <1>6, FS_CardinalityType
  <2> QED
    BY <2>1, <2>2, <2>3
<1>8. IsFiniteSet(A \cup N) /\ Cardinality(A \cup N) <= Cardinality(A) + Cardinality(N)
  <2>1. IsFiniteSet(A \cup N) /\ Cardinality(A \cup N) = Cardinality(A) + Cardinality(N) - Cardinality(A \cap N)
    BY <1>3, <1>6, FS_Union
  <2>2. A \cap N \in SUBSET A
    OBVIOUS
  <2>3. IsFiniteSet(A \cap N)
    BY <1>6, <2>2, FS_Subset
  <2>4. Cardinality(A) \in Nat /\ Cardinality(N) \in Nat /\ Cardinality(A \cap N) \in Nat
    BY <1>3, <1>6, <2>3, FS_CardinalityType
  <2> QED
    BY <2>1, <2>4
<1>9. Cardinality(A \cup N) <= MaxTrades
  <2>1. /\ Cardinality(A) \in Nat /\ Cardinality(B) \in Nat /\ Cardinality(M) \in Nat /\ Cardinality(K) \in Nat
        /\ Cardinality(N) \in Nat /\ Cardinality(A \cup N) \in Nat /\ MaxTrades \in Nat
    BY <1>1, <1>2, <1>3, <1>6, <1>8, FS_CardinalityType, SimulatorAssumption
  <2>2. Cardinality(E) = Cardinality(A) + Cardinality(B)
    BY <1>7
  <2> QED
    BY <1>1, <1>2, <1>3, <1>4, <1>8, <2>1, <2>2
<1>10. ASSUME NEW x \in A \cup N PROVE \E t \in E : x.stock = t.stock /\ x.id = t.id
  <2>1. CASE x \in A
    BY <1>5, <2>1
  <2>2. CASE x \in N
    <3>1. PICK m \in K : x = g[m]
      BY <2>2 DEF Makes
    <3>2. PICK t \in B : m = h[t]
      BY <3>1 DEF Makes
    <3> QED
      BY <3>1, <3>2
  <2> QED
    BY <2>1, <2>2
<1>11. simMode = "multi" => \A s, t \in A \cup N : s.stock = t.stock => s = t
  <2>1. SUFFICES ASSUME simMode = "multi", NEW s \in A \cup N, NEW t \in A \cup N, s.stock = t.stock PROVE s = t
    OBVIOUS
  <2>2. PICK x \in E : s.stock = x.stock /\ s.id = x.id
    BY <1>10
  <2>3. PICK y \in E : t.stock = y.stock /\ t.id = y.id
    BY <1>10
  <2>4. x = y
    BY <2>1, <2>2, <2>3 DEF Within
  <2> QED
    BY <2>1, <2>2, <2>3, <2>4 DEF Keyed
<1> QED
  BY <1>8, <1>9, <1>11 DEF Within

\* A day's trades: those that miss a bar, those that counted the day, those that leave, and how.
Carried(H, bars) == {t \in H : bars[t.stock] = NoBar}
Managed(H, bars) == {Counted(t, bars[t.stock]) : t \in H \ Carried(H, bars)}
Leaving(M, bars) == {t \in M : Leaves(t, bars[t.stock]) # {}}
Left(t, bars) == CHOOSE x \in Leaves(t, bars[t.stock]) : TRUE

DayOfTrades(bars, ranks) ==
  LET entered == Entered(ranks, bars)
      managed == Managed(entered, bars)
      leaving == Leaving(managed, bars)
  IN /\ tradeRows' = tradeRows \cup {Closed(t, Left(t, bars)[1], Left(t, bars)[2]) : t \in leaving}
     /\ openTrades' = Carried(entered, bars) \cup {[t EXCEPT !.mark = bars[t.stock].close] : t \in managed \ leaving}
     /\ dailyPnl' = dailyPnl + SumFunction([t \in leaving |-> DayGain(t, Left(t, bars)[1])])
                             + SumFunction([t \in managed \ leaving |-> MarkGain(t, bars[t.stock].close)])
     /\ tape' = Append(tape, bars)

LEMMA TradeHolds ==
  ASSUME SimulatorInv, TradeStep
  PROVE  SimulatorInv'
<1>0. PICK bars \in DaysBars : \E ranks \in Ranked(bars) : DayOfTrades(bars, ranks)
  BY Zenon DEF TradeStep, DayOfTrades, Carried, Managed, Leaving, Left
<1>1. PICK ranks \in Ranked(bars) : DayOfTrades(bars, ranks)
  BY <1>0
<1>2. simMode \in {"single", "multi"} /\ simMode' = simMode /\ Sim <= CalendarDays /\ decided' = decided
  BY DEF TradeStep
<1> DEFINE E == Entered(ranks, bars)
           carried == Carried(E, bars)
           counted == E \ carried
           managed == Managed(E, bars)
           leaving == Leaving(managed, bars)
           staying == managed \ leaving
           rows == {Closed(t, Left(t, bars)[1], Left(t, bars)[2]) : t \in leaving}
           marked == {[t EXCEPT !.mark = bars[t.stock].close] : t \in staying}
           leftGain == [t \in leaving |-> DayGain(t, Left(t, bars)[1])]
           markGain == [t \in staying |-> MarkGain(t, bars[t.stock].close)]
<1>3. /\ tradeRows' = tradeRows \cup rows /\ openTrades' = carried \cup marked
      /\ dailyPnl' = dailyPnl + SumFunction(leftGain) + SumFunction(markGain)
      /\ tape' = Append(tape, bars)
  BY <1>1 DEF DayOfTrades
<1>4. bars \in [Stocks -> Bars \cup {NoBar}] /\ (simMode = "single" => bars \in [Stocks -> Bars])
  BY DaysBarsIs
<1>5. Ledger(E, tradeRows, tape') /\ Within(E) /\ Book(E) = Book(openTrades)
  BY <1>2, <1>3, <1>4, EnteredHolds
<1>6. /\ SimTyped /\ Ledger(openTrades, tradeRows, tape) /\ dailyPnl \in Int
      /\ Book(openTrades) \in Int /\ Book(tradeRows) \in Int
  BY BooksInt
<1>7. Sim \in Nat /\ Sim \in 1 .. Len(tape') /\ tape'[Sim] = bars
  BY <1>3, <1>6, LedgerGrows
<1> HIDE DEF E
<1> USE DEF Carried, Managed, Leaving
<1>8. /\ E \in SUBSET Trades /\ IsFiniteSet(E) /\ \A t \in E : t.stock \in Stocks /\ t.id \in DOMAIN Specs
  BY <1>2, <1>5, TradeFields DEF Ledger, Recorded
<1>9. \A t \in counted : bars[t.stock] \in Bars
  BY <1>4, <1>8
<1>10. /\ Ledger(carried \cup managed, tradeRows, tape') /\ Gains(E, tradeRows, carried \cup managed, tradeRows, 0)
       /\ \A u \in managed : \E t \in counted : u.stock = t.stock /\ u.entryDay = t.entryDay /\ u.id = t.id
  <2>1. counted \in SUBSET E /\ E \ counted = carried
    OBVIOUS
  <2>2. Counting(counted, bars, managed)
    BY <1>9 DEF Counting
  <2> HIDE DEF managed, carried, counted
  <2>3. /\ Ledger((E \ counted) \cup managed, tradeRows, tape')
        /\ Gains(E, tradeRows, (E \ counted) \cup managed, tradeRows, 0)
        /\ \A u \in managed : \E t \in counted : u.stock = t.stock /\ u.entryDay = t.entryDay /\ u.id = t.id
    BY <1>2, <1>5, <2>1, <2>2, LedgerCounts
  <2> QED
    BY <2>1, <2>3, Zenon
<1>11. /\ \A u \in managed : u \in Trades /\ u.id \in DOMAIN Specs /\ u.stock \in Stocks /\ bars[u.stock] \in Bars
       /\ \A t \in carried : bars[t.stock] = NoBar
  <2>1. \A u \in managed : u \in Trades
    BY <1>10 DEF Ledger
  <2> QED
    BY <1>8, <1>9, <1>10, <2>1
<1>12. /\ leaving \in SUBSET (carried \cup managed) /\ (carried \cup managed) \ leaving = carried \cup staying
       /\ staying \in SUBSET (carried \cup staying) /\ (carried \cup staying) \ staying = carried
       /\ leaving \subseteq managed /\ staying \subseteq managed
  <2>1. carried \cap managed = {}
    BY <1>11, SimulatorAssumption
  <2> HIDE DEF carried, managed
  <2> QED
    BY <2>1
<1>13. \A t \in leaving : /\ Left(t, bars)[1] \in Int /\ Left(t, bars)[2] \in Reasons \ {"open"}
                          /\ Traded(tape', Left(t, bars)[1], Sim, t.stock)
  <2> SUFFICES ASSUME NEW t \in leaving
               PROVE  /\ Left(t, bars)[1] \in Int /\ Left(t, bars)[2] \in Reasons \ {"open"}
                      /\ Traded(tape', Left(t, bars)[1], Sim, t.stock)
    OBVIOUS
  <2> DEFINE x == Left(t, bars)
  <2>1. x \in Leaves(t, bars[t.stock])
    BY DEF Left
  <2>2. t \in Trades /\ t.id \in DOMAIN Specs /\ bars[t.stock] \in Bars
    BY <1>11, <1>12
  <2> HIDE DEF x
  <2>3. x[1] \in Int /\ bars[t.stock].low <= x[1] /\ x[1] <= bars[t.stock].high /\ x[2] \in Reasons \ {"open"}
    BY <2>1, <2>2, LeavesTraded
  <2>4. Traded(tape', x[1], Sim, t.stock)
    BY <1>7, <2>3 DEF Traded
  <2> QED
    BY <2>3, <2>4 DEF x
<1>14. \A t \in staying : bars[t.stock].close \in Int
  BY <1>11, <1>12, BarFields
<1> HIDE DEF carried, counted, managed, leaving, staying
<1>15. /\ Ledger(carried \cup staying, tradeRows \cup rows, tape')
       /\ Gains(carried \cup managed, tradeRows, carried \cup staying, tradeRows \cup rows, SumFunction(leftGain))
       /\ SumFunction(leftGain) \in Int
  <2> DEFINE p == [t \in leaving |-> Left(t, bars)[1]]
             c == [t \in leaving |-> Left(t, bars)[2]]
  <2>1. \A t \in leaving : p[t] = Left(t, bars)[1] /\ c[t] = Left(t, bars)[2]
    OBVIOUS
  <2> HIDE DEF p, c
  <2>2. Closing(leaving, p, c, tape', rows, leftGain)
    BY <1>13, <2>1 DEF Closing
  <2> DEFINE O == carried \cup managed
  <2>3. leaving \in SUBSET O /\ O \ leaving = carried \cup staying /\ Ledger(O, tradeRows, tape')
    BY <1>10, <1>12
  <2> HIDE DEF rows, leftGain, O
  <2>4. /\ Ledger(O \ leaving, tradeRows \cup rows, tape')
        /\ Gains(O, tradeRows, O \ leaving, tradeRows \cup rows, SumFunction(leftGain))
        /\ SumFunction(leftGain) \in Int
    BY <1>2, <1>7, <2>2, <2>3, LedgerCloses
  <2> QED
    BY <2>3, <2>4 DEF O
<1>16. /\ Ledger(openTrades', tradeRows', tape')
       /\ Gains(carried \cup staying, tradeRows \cup rows, openTrades', tradeRows', SumFunction(markGain))
       /\ SumFunction(markGain) \in Int
  <2> DEFINE p == [t \in staying |-> bars[t.stock].close]
  <2>1. \A t \in staying : p[t] = bars[t.stock].close
    OBVIOUS
  <2> HIDE DEF p
  <2>2. Marking(staying, p, marked, markGain)
    BY <1>14, <2>1 DEF Marking
  <2> DEFINE O == carried \cup staying
             R == tradeRows \cup rows
  <2>3. staying \in SUBSET O /\ O \ staying = carried /\ Ledger(O, R, tape')
    BY <1>12, <1>15
  <2> HIDE DEF rows, markGain, marked, O, R
  <2>4. /\ Ledger((O \ staying) \cup marked, R, tape')
        /\ Gains(O, R, (O \ staying) \cup marked, R, SumFunction(markGain))
        /\ SumFunction(markGain) \in Int
    BY <1>2, <2>2, <2>3, LedgerMarks
  <2>5. (O \ staying) \cup marked = openTrades' /\ R = tradeRows'
    BY <1>3, <2>3 DEF R
  <2> QED
    BY <2>4, <2>5 DEF O, R
<1>17. SimBounded'
  <2> DEFINE h == [t \in counted |-> Counted(t, bars[t.stock])]
             g == [t \in staying |-> [t EXCEPT !.mark = bars[t.stock].close]]
  <2>1. Makes(h, counted, managed)
    <3>1. managed = {Counted(t, bars[t.stock]) : t \in counted}
      BY DEF managed, counted, carried
    <3> QED
      BY <3>1 DEF Makes
  <2>2. Makes(g, staying, marked)
    BY DEF Makes
  <2>3. ASSUME NEW t \in counted PROVE h[t].stock = t.stock /\ h[t].id = t.id
    <3>1. t \in Trades /\ t.id \in DOMAIN Specs /\ bars[t.stock] \in Bars
      BY <1>8, <1>9 DEF counted
    <3> QED
      BY <3>1, CountedIs
  <2>4. ASSUME NEW t \in staying PROVE g[t].stock = t.stock /\ g[t].id = t.id
    <3>1. t \in Trades
      BY <1>11, <1>12
    <3> QED
      BY <3>1 DEF Trades
  <2>5. carried \cup counted = E /\ carried \cap counted = {} /\ counted \in SUBSET E
    BY DEF carried, counted
  <2>6. IsFiniteSet(counted)
    BY <1>8, <2>5, FS_Subset
  <2>7. Keyed(carried \cup marked)
    BY <1>3, <1>16 DEF Ledger, Keyed
  <2>8. staying \in SUBSET managed
    BY <1>12
  <2> HIDE DEF h, g, marked
  <2>9. Within(carried \cup marked)
    <3>1. Successive(carried, counted, h, managed, staying, g, marked)
      BY <2>1, <2>2, <2>3, <2>4, <2>5, <2>6, <2>7, <2>8 DEF Successive
    <3> QED
      BY <1>5, <2>5, <3>1, WithinImages
  <2> QED
    BY <1>2, <1>3, <2>9 DEF SimBounded, Within
<1> DEFINE a == SumFunction(leftGain)
           b == SumFunction(markGain)
           O1 == carried \cup managed
           O2 == carried \cup staying
           R2 == tradeRows \cup rows
<1>18. Gains(openTrades, tradeRows, openTrades', tradeRows', a + b) /\ a \in Int /\ b \in Int
  <2>1. /\ Gains(E, tradeRows, O1, tradeRows, 0) /\ Gains(O1, tradeRows, O2, R2, a)
        /\ Gains(O2, R2, openTrades', tradeRows', b) /\ a \in Int /\ b \in Int
    BY <1>10, <1>15, <1>16
  <2> HIDE DEF a, b, O1, O2, R2
  <2>2. Gains(openTrades, tradeRows, O1, tradeRows, 0)
    BY <1>5, <2>1 DEF Gains
  <2>3. Gains(openTrades, tradeRows, O2, R2, 0 + a)
    BY <1>6, <2>1, <2>2, GainsAdd
  <2>4. Gains(openTrades, tradeRows, openTrades', tradeRows', (0 + a) + b)
    BY <1>6, <2>1, <2>3, GainsAdd
  <2> QED
    BY <2>1, <2>4
<1>19. dailyPnl' = dailyPnl + (a + b) /\ a + b \in Int
  <2>1. dailyPnl' = dailyPnl + a + b
    BY <1>3
  <2> HIDE DEF a, b
  <2> QED
    BY <1>6, <1>18, <2>1
<1> HIDE DEF a, b
<1> QED
  BY <1>2, <1>3, <1>4, <1>16, <1>17, <1>18, <1>19, DayKept

-----------------------------------------------------------------------------
\* simulate_weights.
\* The weight held of a symbol is that of its leg.
LEMMA HeldWeightIs ==
  ASSUME SimulatorInv, simMode = "weights", NEW s \in Stocks
  PROVE  /\ HeldWeight(s) \in Nat
         /\ \A leg \in openTrades : leg.stock = s => HeldWeight(s) = leg.units /\ HeldWeight(s) # 0
         /\ (\A leg \in openTrades : leg.stock # s) => HeldWeight(s) = 0
<1> DEFINE L == {l \in openTrades : l.stock = s}
           f == [leg \in L |-> leg.units]
<1>1. HeldWeight(s) = SumFunctionOnSet(f, L)
  BY DEF HeldWeight, SumFunction
<1>2. /\ SimBounded /\ openTrades \in SUBSET Trades
  BY BooksInt DEF Ledger
<1>3. \A leg \in L : f[leg] = leg.units /\ leg.units \in Nat /\ leg.units # 0
  BY <1>2, TradeFields DEF SimBounded
<1>4. \A l, m \in L : l = m
  BY <1>2 DEF SimBounded
<1>5. \A leg \in openTrades : leg.stock = s => leg \in L
  OBVIOUS
<1>6. \A leg \in L : leg \in openTrades /\ leg.stock = s
  OBVIOUS
<1> HIDE DEF L, f
<1>7. CASE L = {}
  <2>1. HeldWeight(s) = 0
    BY <1>1, <1>7, SumEmpty
  <2> QED
    BY <1>5, <1>7, <2>1
<1>8. CASE L # {}
  <2>1. PICK leg \in L : TRUE
    BY <1>8
  <2>2. IsFiniteSet(L)
    <3>1. L = {leg}
      BY <1>4, <2>1
    <3> QED
      BY <3>1, FS_Singleton
  <2>3. SumFunctionOnSet(f, L) = f[leg]
    BY <1>3, <1>4, <2>1, <2>2, SumOne
  <2>4. HeldWeight(s) = leg.units /\ leg.units \in Nat /\ leg.units # 0
    BY <1>1, <1>3, <2>1, <2>3
  <2> QED
    BY <1>4, <1>5, <1>6, <2>1, <2>4
<1> QED
  BY <1>7, <1>8

LEMMA ContributionIs ==
  ASSUME SimulatorInv, simMode = "weights", tape # <<>>, NEW bar \in Bars, NEW want \in [Stocks -> Nat], NEW s \in Stocks,
         NEW rebalanced \in BOOLEAN
  PROVE  /\ Contribution(s, bar, want, rebalanced) \in Int
         /\ HeldWeight(s) = 0 /\ (rebalanced => want[s] = 0) => Contribution(s, bar, want, rebalanced) = 0
<1> DEFINE before == tape[Sim - 1][s].close
           w == HeldWeight(s)
           v == want[s]
<1>1. before \in Int
  <2> DEFINE S == [Stocks -> Bars \cup {NoBar}]
  <2>1. tape \in Seq(S)
    BY BooksInt DEF SimTyped
  <2> HIDE DEF S
  <2>2. Sim - 1 \in DOMAIN tape
    BY <2>1 DEF Sim
  <2>3. tape[Sim - 1][s] \in Bars
    BY <2>2, BooksInt DEF SimDecided
  <2> QED
    BY <2>3, BarFields
<1>2. w \in Nat /\ v \in Nat
  BY HeldWeightIs
<1>3. Contribution(s, bar, want, rebalanced) =
        IF rebalanced THEN w * (bar.open - before) + v * (bar.close - bar.open) - Fee * Amount(v - w)
        ELSE w * (bar.close - before)
  BY DEF Contribution
<1>4. Amount(v - w) \in Int /\ (v = w => Amount(v - w) = 0)
  BY <1>2 DEF Amount
<1>5. Fee \in Int /\ bar.open \in Int /\ bar.close \in Int
  BY SimulatorAssumption, BarFields
<1> HIDE DEF before, w, v
<1>6. w * (bar.open - before) \in Int /\ v * (bar.close - bar.open) \in Int /\ w * (bar.close - before) \in Int
      /\ Fee * Amount(v - w) \in Int
  <2>1. \A x \in Int : \A y \in Int : x * y \in Int /\ x - y \in Int
    OBVIOUS
  <2>2. w \in Int /\ v \in Int
    BY <1>2
  <2>3. bar.open - before \in Int /\ bar.close - bar.open \in Int /\ bar.close - before \in Int
    BY <1>1, <1>5, <2>1
  <2> QED
    BY <1>4, <1>5, <2>1, <2>2, <2>3
<1>7. w = 0 => w * (bar.open - before) = 0 /\ w * (bar.close - before) = 0
  BY <1>1, <1>5
<1>8. v = 0 => v * (bar.close - bar.open) = 0
  BY <1>5
<1>9. v = w => Fee * Amount(v - w) = 0
  BY <1>4, <1>5
<1>10. w = 0 /\ (rebalanced => v = 0) => Contribution(s, bar, want, rebalanced) = 0
  <2>1. CASE rebalanced
    BY <1>3, <1>6, <1>7, <1>8, <1>9, <2>1
  <2>2. CASE ~rebalanced
    BY <1>3, <1>7, <2>2
  <2> QED
    BY <2>1, <2>2
<1> QED
  BY <1>3, <1>6, <1>10 DEF w, v

\* What the symbols add is what their legs gain.
PerLeg(O, gain, g) ==
  /\ O \in SUBSET Trades /\ IsFiniteSet(O) /\ \A t, u \in O : t.stock = u.stock => t = u
  /\ DOMAIN gain = Stocks /\ \A s \in Stocks : gain[s] \in Int /\ ((\A t \in O : t.stock # s) => gain[s] = 0)
  /\ DOMAIN g = O /\ \A t \in O : g[t] = gain[t.stock]

LEMMA LegsGain ==
  ASSUME NEW O, NEW gain, NEW g, PerLeg(O, gain, g)
  PROVE  SumFunction(gain) = SumFunction(g)
<1> USE DEF PerLeg
<1> DEFINE H == {s \in Stocks : \E t \in O : t.stock = s}
           h == [t \in O |-> t.stock]
           rest == Stocks \ H
<1>1. H \in SUBSET Stocks /\ rest \in SUBSET Stocks /\ H \cap rest = {} /\ H \cup rest = Stocks
  OBVIOUS
<1>2. Renames(h, g, O, gain, H)
  <2>1. \A t \in O : t.stock \in Stocks
    BY TradeFields
  <2> QED
    BY <2>1 DEF Renames, Makes
<1>3. \A s \in rest : gain[s] = 0
  OBVIOUS
<1> HIDE DEF H, h, rest
<1>4. IsFiniteSet(rest)
  BY <1>1, SimulatorAssumption, FS_Subset
<1>5. IsFiniteSet(H) /\ SumFunctionOnSet(gain, H) = SumFunctionOnSet(g, O)
  BY <1>2, SumRenamed
<1>6. SumFunctionOnSet(gain, H \cup rest) = SumFunctionOnSet(gain, H) + SumFunctionOnSet(gain, rest)
  BY <1>1, <1>4, <1>5, SumUnion
<1>7. SumFunctionOnSet(gain, rest) = 0
  BY <1>3, <1>4, SumZero
<1>8. SumFunctionOnSet(gain, H) \in Int
  BY <1>1, <1>5, SumInt
<1>9. SumFunctionOnSet(gain, Stocks) = SumFunctionOnSet(g, O)
  <2>1. SumFunctionOnSet(gain, Stocks) = SumFunctionOnSet(gain, H) + SumFunctionOnSet(gain, rest)
    BY <1>1, <1>6
  <2> HIDE DEF PerLeg
  <2> QED
    BY <1>5, <1>7, <1>8, <2>1
<1> QED
  BY <1>9 DEF SumFunction

LEMMA WeightDayHolds ==
  ASSUME SimulatorInv, simMode = "weights", simMode' = simMode, tape # <<>>, NEW bars \in [Stocks -> Bars], NEW want \in [Stocks -> Nat],
         tape' = Append(tape, bars), WeightDay(bars, want)
  PROVE  /\ Ledger(openTrades', tradeRows', tape') /\ SimBounded'
         /\ \E gain \in Int : dailyPnl' = dailyPnl + gain /\ Gains(openTrades, tradeRows, openTrades', tradeRows', gain)
<1> DEFINE rebalanced == want # [s \in Stocks |-> HeldWeight(s)]
           gain == [s \in Stocks |-> Contribution(s, bars[s], want, rebalanced)]
           fresh == {x \in Stocks : rebalanced /\ HeldWeight(x) = 0 /\ want[x] > 0}
           New(s) == Opened(Sim, s, 1, want[s], bars[s].open, NoLevel)
           begun == {New(s) : s \in fresh}
           O == openTrades \cup begun
           After(leg) == [leg EXCEPT !.pnl = @ + gain[leg.stock], !.units = want[leg.stock],
                                     !.best = Higher(IF leg.entryDay = Sim THEN 0 ELSE @, want[leg.stock])]
           legs == {After(leg) : leg \in O}
           done == {leg \in legs : leg.units = 0 \/ LastBar}
           Gone(leg) == [leg EXCEPT !.exitDay = Sim, !.reason = IF leg.units = 0 THEN "rotation" ELSE "end"]
           gone == {Gone(leg) : leg \in done}
<1>1. dailyPnl' = dailyPnl + SumFunction(gain) /\ openTrades' = legs \ done /\ tradeRows' = tradeRows \cup gone
  <2> DEFINE LegAfter(leg) == [leg EXCEPT !.pnl = @ + Contribution(leg.stock, bars[leg.stock], want, rebalanced),
                                          !.units = want[leg.stock],
                                          !.best = Higher(IF leg.entryDay = Sim THEN 0 ELSE @, want[leg.stock])]
  <2>1. /\ dailyPnl' = dailyPnl + SumFunction(gain)
        /\ openTrades' = {LegAfter(leg) : leg \in O} \ {leg \in {LegAfter(l) : l \in O} : leg.units = 0 \/ LastBar}
        /\ tradeRows' = tradeRows \cup {Gone(leg) : leg \in {m \in {LegAfter(l) : l \in O} : m.units = 0 \/ LastBar}}
    BY Zenon DEF WeightDay
  <2>2. \A leg \in O : leg.stock \in Stocks
    <3>1. \A leg \in openTrades : leg.stock \in Stocks
      BY BooksInt, TradeFields DEF Ledger
    <3>2. \A leg \in begun : leg.stock \in Stocks
      BY DEF Opened
    <3> QED
      BY <3>1, <3>2
  <2>3. \A leg \in O : After(leg) = LegAfter(leg)
    <3> HIDE DEF O
    <3>1. \A leg \in O : gain[leg.stock] = Contribution(leg.stock, bars[leg.stock], want, rebalanced)
      BY <2>2
    <3> HIDE DEF gain
    <3> QED
      BY <3>1
  <2> HIDE DEF After, LegAfter, O, Gone, gain
  <2>4. legs = {LegAfter(leg) : leg \in O}
    BY <2>3
  <2>5. done = {leg \in {LegAfter(l) : l \in O} : leg.units = 0 \/ LastBar}
    BY <2>4, Zenon
  <2> QED
    BY <2>1, <2>4, <2>5, Zenon
<1>2. /\ SimTyped /\ SimDecided /\ SimBounded /\ Ledger(openTrades, tradeRows, tape) /\ dailyPnl \in Int
      /\ Book(openTrades) \in Int /\ Book(tradeRows) \in Int
  BY BooksInt
<1>3. /\ Ledger(openTrades, tradeRows, tape') /\ Sim \in Nat /\ Sim \in 1 .. Len(tape')
      /\ \A t \in openTrades \cup tradeRows : t.entryDay \in Nat /\ t.entryDay < Sim
  BY <1>2, LedgerGrows
<1>4. \A t \in openTrades \cup tradeRows : t.id # Sim
  <2>1. \A t \in openTrades \cup tradeRows : t.id = t.entryDay
    BY <1>2 DEF Ledger, Recorded
  <2> QED
    BY <1>3, <2>1
<1>5. \A s \in Stocks : gain[s] \in Int /\ (HeldWeight(s) = 0 /\ (rebalanced => want[s] = 0) => gain[s] = 0)
  <2> HIDE DEF rebalanced
  <2>0. rebalanced \in BOOLEAN
    BY DEF rebalanced
  <2>1. ASSUME NEW s \in Stocks PROVE gain[s] \in Int /\ (HeldWeight(s) = 0 /\ (rebalanced => want[s] = 0) => gain[s] = 0)
    <3>1. gain[s] = Contribution(s, bars[s], want, rebalanced) /\ bars[s] \in Bars
      OBVIOUS
    <3> HIDE DEF gain
    <3> QED
      BY <2>0, <3>1, ContributionIs
  <2> QED
    BY <2>1
<1>6. \A s \in fresh : /\ New(s) \in Trades /\ New(s).id = Sim /\ New(s).stock = s /\ New(s).reason = "open"
                       /\ Worth(New(s)) = 0 /\ Recorded(New(s), tape')
  <2>1. ASSUME NEW s \in Stocks
        PROVE  /\ New(s) \in Trades /\ New(s).id = Sim /\ New(s).stock = s /\ New(s).reason = "open"
               /\ Worth(New(s)) = 0 /\ Recorded(New(s), tape')
    <3>1. bars[s] \in Bars /\ want[s] \in Nat /\ NoLevel \in Int
      BY SimulatorAssumption
    <3>2. bars[s].open \in Int
      BY <3>1, BarFields
    <3> QED
      BY <1>2, <1>3, <3>1, <3>2, OpenedRecorded
  <2> QED
    BY <2>1
<1> DEFINE newly == [s \in fresh |-> New(s)]
<1>7. Makes(newly, fresh, begun) /\ \A s \in fresh : newly[s] = New(s)
  BY DEF Makes
<1>8. IsFiniteSet(begun)
  <2>1. fresh \in SUBSET Stocks
    OBVIOUS
  <2> HIDE DEF fresh, newly, begun
  <2>2. IsFiniteSet(fresh)
    BY <2>1, SimulatorAssumption, FS_Subset
  <2> QED
    BY <1>7, <2>2, ImageFinite
<1>9. \A t \in begun : /\ t \in Trades /\ t.id = Sim /\ t.reason = "open" /\ Worth(t) = 0 /\ Recorded(t, tape')
                       /\ t.stock \in fresh
  BY <1>6
<1>10. \A t, u \in begun : t.stock = u.stock => t = u
  BY <1>6
<1> HIDE DEF New, newly, begun
<1>11. Ledger(O, tradeRows, tape') /\ Book(O) = Book(openTrades)
  <2>1. begun \in SUBSET Trades /\ Keyed(begun)
    BY <1>9, <1>10 DEF Keyed
  <2>2. \A t \in begun : \A u \in openTrades \cup tradeRows : t.id # u.id
    BY <1>4, <1>9
  <2> QED
    BY <1>3, <1>8, <1>9, <2>1, <2>2, LedgerOpens
<1>12. \A t, u \in O : t.stock = u.stock => t = u
  <2>1. \A t, u \in openTrades : t.stock = u.stock => t = u
    BY <1>2 DEF SimBounded
  <2>2. ASSUME NEW t \in openTrades, NEW u \in begun, t.stock = u.stock PROVE FALSE
    <3>1. u.stock \in Stocks /\ HeldWeight(u.stock) = 0
      BY <1>9
    <3> QED
      BY <2>2, <3>1, HeldWeightIs
  <2> QED
    BY <1>10, <2>1, <2>2
<1>13. \A s \in Stocks : (\A t \in O : t.stock # s) => gain[s] = 0
  <2> SUFFICES ASSUME NEW s \in Stocks, \A t \in O : t.stock # s PROVE gain[s] = 0
    OBVIOUS
  <2>1. HeldWeight(s) = 0
    BY HeldWeightIs
  <2>2. s \notin fresh
    BY <1>6, <1>7 DEF Makes
  <2>3. rebalanced => want[s] = 0
    BY <2>1, <2>2
  <2> QED
    BY <1>5, <2>1, <2>3
<1> HIDE DEF fresh, rebalanced, O
<1>14. \A leg \in O : /\ After(leg) \in Trades /\ After(leg).id = leg.id /\ After(leg).stock = leg.stock
                      /\ After(leg).reason = "open" /\ Recorded(After(leg), tape')
                      /\ Worth(After(leg)) = Worth(leg) + gain[leg.stock] /\ gain[leg.stock] \in Int
                      /\ leg.stock \in Stocks
  <2> SUFFICES ASSUME NEW leg \in O
               PROVE  /\ After(leg) \in Trades /\ After(leg).id = leg.id /\ After(leg).stock = leg.stock
                      /\ After(leg).reason = "open" /\ Recorded(After(leg), tape')
                      /\ Worth(After(leg)) = Worth(leg) + gain[leg.stock] /\ gain[leg.stock] \in Int
                      /\ leg.stock \in Stocks
    OBVIOUS
  <2>1. leg \in Trades /\ leg.reason = "open" /\ Recorded(leg, tape')
    BY <1>11 DEF Ledger
  <2>2. leg.stock \in Stocks /\ leg.pnl \in Int /\ leg.best \in Int
    BY <2>1, TradeFields
  <2>3. gain[leg.stock] \in Int /\ want[leg.stock] \in Nat
    BY <1>5, <2>2
  <2> DEFINE x == gain[leg.stock]
             v == want[leg.stock]
             best == Higher(IF leg.entryDay = Sim THEN 0 ELSE leg.best, v)
             pnl == leg.pnl + x
  <2>4. best \in Int
    BY <2>2, <2>3 DEF Higher
  <2> HIDE DEF gain
  <2>5. After(leg) = [leg EXCEPT !.pnl = pnl, !.units = v, !.best = best]
    OBVIOUS
  <2>10. pnl \in Int
    BY <2>2, <2>3
  <2> HIDE DEF After, x, v, best, pnl
  <2>6. x \in Int /\ v \in Nat
    BY <2>3 DEF x, v
  <2>7. /\ After(leg) \in Trades /\ After(leg).id = leg.id /\ After(leg).stock = leg.stock
        /\ After(leg).entryDay = leg.entryDay /\ After(leg).reason = leg.reason /\ After(leg).pnl = pnl
    BY <2>1, <2>4, <2>5, <2>6, <2>10 DEF Trades
  <2>8. Worth(After(leg)) = Worth(leg) + x
    BY <2>7 DEF Worth, pnl
  <2>9. Recorded(After(leg), tape')
    BY <2>1, <2>7 DEF Recorded
  <2> QED
    BY <2>1, <2>2, <2>3, <2>7, <2>8, <2>9 DEF x
<1> DEFINE h == [leg \in O |-> After(leg)]
           g == [leg \in O |-> gain[leg.stock]]
<1>15. (\A leg \in O : h[leg] = After(leg) /\ g[leg] = gain[leg.stock]) /\ Makes(h, O, legs) /\ DOMAIN g = O
  BY DEF Makes
<1>0. DOMAIN gain = Stocks /\ (\A leg \in done : leg \in legs /\ (leg.units = 0 \/ LastBar)) /\ done \in SUBSET legs
      /\ \A leg \in legs \ done : leg.units # 0
  OBVIOUS
<1> HIDE DEF After, gain, h, g, legs, done
<1>16. \A leg \in legs : leg.reason = "open" /\ Recorded(leg, tape')
  BY <1>14, <1>15 DEF Makes
<1>17. /\ Ledger(legs, tradeRows, tape') /\ Gains(O, tradeRows, legs, tradeRows, SumFunction(g))
       /\ SumFunction(g) \in Int
  <2>1. Shifts(O, h, g)
    BY <1>14, <1>15 DEF Shifts
  <2>2. Become(O, tradeRows, tape', O, h, g, legs)
    BY <1>11, <1>15, <1>16, <2>1 DEF Become
  <2>3. (O \ O) \cup legs = legs
    OBVIOUS
  <2>4. /\ SumFunction(g) \in Int /\ Gains(O, tradeRows, (O \ O) \cup legs, tradeRows, SumFunction(g))
        /\ (\A t \in legs : t.reason = "open") => Ledger((O \ O) \cup legs, tradeRows, tape')
    BY <2>2, LedgerMoves
  <2> QED
    BY <1>16, <2>3, <2>4
<1>18. \A leg \in done : /\ Gone(leg) \in Trades /\ Gone(leg).id = leg.id /\ Gone(leg).stock = leg.stock
                         /\ Gone(leg).reason # "open" /\ Recorded(Gone(leg), tape')
                         /\ Worth(Gone(leg)) = Worth(leg) /\ Worth(leg) \in Int
  <2> SUFFICES ASSUME NEW leg \in done
               PROVE  /\ Gone(leg) \in Trades /\ Gone(leg).id = leg.id /\ Gone(leg).stock = leg.stock
                      /\ Gone(leg).reason # "open" /\ Recorded(Gone(leg), tape')
                      /\ Worth(Gone(leg)) = Worth(leg) /\ Worth(leg) \in Int
    OBVIOUS
  <2>1. leg \in Trades /\ leg.reason = "open" /\ Recorded(leg, tape')
    BY <1>0, <1>17 DEF Ledger
  <2> DEFINE reason == IF leg.units = 0 THEN "rotation" ELSE "end"
  <2>2. reason \in Reasons \ {"open"}
    BY DEF Reasons
  <2>3. Gone(leg) = [leg EXCEPT !.exitDay = Sim, !.reason = reason]
    OBVIOUS
  <2> HIDE DEF Gone, reason
  <2>4. /\ Gone(leg) \in Trades /\ Gone(leg).id = leg.id /\ Gone(leg).stock = leg.stock /\ Gone(leg).reason = reason
        /\ Gone(leg).entryDay = leg.entryDay /\ Gone(leg).exitDay = Sim /\ Gone(leg).pnl = leg.pnl
    BY <1>3, <2>1, <2>2, <2>3 DEF Trades
  <2>5. Worth(Gone(leg)) = Worth(leg) /\ Worth(leg) \in Int
    BY <2>1, <2>4, WorthInt DEF Worth
  <2>6. Recorded(Gone(leg), tape')
    BY <1>3, <2>1, <2>4 DEF Recorded
  <2> QED
    BY <2>2, <2>4, <2>5, <2>6
<1> DEFINE k == [leg \in done |-> Gone(leg)]
           z == [leg \in done |-> 0]
<1>19. (\A leg \in done : k[leg] = Gone(leg) /\ z[leg] = 0) /\ Makes(k, done, gone) /\ DOMAIN z = done
  BY DEF Makes
<1> HIDE DEF k, z, gone, Gone
<1>20. /\ Ledger(openTrades', tradeRows', tape') /\ Gains(legs, tradeRows, openTrades', tradeRows', SumFunction(z))
  <2>1. Shifts(done, k, z)
    BY <1>18, <1>19 DEF Shifts
  <2>2. \A t \in gone : t.reason # "open" /\ Recorded(t, tape')
    BY <1>18, <1>19 DEF Makes
  <2>3. Become(legs, tradeRows, tape', done, k, z, gone)
    BY <1>0, <1>17, <1>19, <2>1, <2>2 DEF Become
  <2>4. /\ Gains(legs, tradeRows, legs \ done, tradeRows \cup gone, SumFunction(z))
        /\ (\A t \in gone : t.reason # "open") => Ledger(legs \ done, tradeRows \cup gone, tape')
    BY <2>3, LedgerMoves
  <2> QED
    BY <1>1, <2>2, <2>4
<1>21. SumFunction(z) = 0
  <2>1. IsFiniteSet(done)
    BY <1>0, <1>17, FS_Subset DEF Ledger
  <2> QED
    BY <1>19, <2>1, SumZero DEF SumFunction
<1>22. SumFunction(gain) = SumFunction(g)
  <2>1. O \in SUBSET Trades /\ IsFiniteSet(O)
    BY <1>11 DEF Ledger
  <2>2. \A s \in Stocks : gain[s] \in Int
    BY <1>5
  <2> QED
    <3>1. PerLeg(O, gain, g)
      BY <1>0, <1>12, <1>13, <1>15, <2>1, <2>2 DEF PerLeg
    <3> QED
      BY <3>1, LegsGain
<1>23. Gains(openTrades, tradeRows, openTrades', tradeRows', SumFunction(gain)) /\ SumFunction(gain) \in Int
  <2> DEFINE a == SumFunction(g)
  <2>1. Gains(openTrades, tradeRows, legs, tradeRows, a)
    BY <1>11, <1>17 DEF Gains
  <2>2. Gains(legs, tradeRows, openTrades', tradeRows', 0) /\ a \in Int
    BY <1>17, <1>20, <1>21
  <2> HIDE DEF a
  <2>3. Gains(openTrades, tradeRows, openTrades', tradeRows', a + 0)
    BY <1>2, <2>1, <2>2, GainsAdd
  <2>4. a + 0 = a
    BY <2>2
  <2> QED
    BY <1>22, <2>2, <2>3, <2>4 DEF a
<1>24. SimBounded'
  <2>1. \A x, y \in legs : x.stock = y.stock => x = y
    <3> SUFFICES ASSUME NEW x \in legs, NEW y \in legs, x.stock = y.stock PROVE x = y
      OBVIOUS
    <3>1. PICK t \in O : x = After(t)
      BY <1>15 DEF Makes
    <3>2. PICK u \in O : y = After(u)
      BY <1>15 DEF Makes
    <3>3. t.stock = u.stock
      BY <1>14, <3>1, <3>2
    <3> QED
      BY <1>12, <3>1, <3>2, <3>3
  <2> QED
    BY <1>0, <1>1, <2>1 DEF SimBounded
<1> QED
  BY <1>1, <1>20, <1>23, <1>24

LEMMA WeightHolds ==
  ASSUME SimulatorInv, WeightStep
  PROVE  SimulatorInv'
<1>1. PICK bars \in [Stocks -> Bars], want \in WeightSets :
        /\ tape' = Append(tape, bars)
        /\ IF Sim = 1 THEN UNCHANGED <<openTrades, tradeRows, dailyPnl>> ELSE WeightDay(bars, decided)
        /\ decided' = want
  BY DEF WeightStep
<1>2. simMode = "weights" /\ simMode' = simMode /\ Sim <= CalendarDays
  BY DEF WeightStep
<1>3. bars \in [Stocks -> Bars \cup {NoBar}]
  OBVIOUS
<1>4. /\ Ledger(openTrades', tradeRows', tape') /\ SimBounded'
      /\ \E gain \in Int : dailyPnl' = dailyPnl + gain /\ Gains(openTrades, tradeRows, openTrades', tradeRows', gain)
  <2>1. CASE Sim = 1
    <3>1. SimBounded'
      BY <1>1, <1>2, <2>1, BooksInt DEF SimBounded
    <3> QED
      BY <1>1, <2>1, <3>1, FirstDay
  <2>2. CASE Sim # 1
    <3>1. tape # <<>>
      BY <2>2 DEF Sim
    <3>2. decided \in [Stocks -> Nat]
      BY <3>1, <1>2, BooksInt, SimulatorAssumption DEF SimDecided
    <3> QED
      BY <1>1, <1>2, <2>2, <3>1, <3>2, WeightDayHolds
  <2> QED
    BY <2>1, <2>2
<1>5. PICK gain \in Int : dailyPnl' = dailyPnl + gain /\ Gains(openTrades, tradeRows, openTrades', tradeRows', gain)
  BY <1>4
<1> QED
  BY <1>1, <1>2, <1>3, <1>4, <1>5, DayKept

LEMMA SimulatorStarts ==
  ASSUME tape = <<>>, openTrades = {}, tradeRows = {}, dailyPnl = 0, simMode \in SimModes
  PROVE  SimulatorInv
<1>1. tape = <<>> /\ openTrades = {} /\ tradeRows = {} /\ dailyPnl = 0 /\ simMode \in SimModes
  OBVIOUS
<1>2. SimTyped
  <2>1. <<>> \in Seq([Stocks -> Bars \cup {NoBar}]) /\ Len(<<>>) = 0
    OBVIOUS
  <2> QED
    BY <1>1, <2>1, SimulatorAssumption DEF SimTyped
<1>3. SimDecided
  BY <1>1 DEF SimDecided
<1>4. Ledger(openTrades, tradeRows, tape)
  BY <1>1, FS_EmptySet DEF Ledger, Keyed
<1>5. SimBounded
  <2>1. Cardinality({}) = 0
    BY FS_EmptySet
  <2> QED
    BY <1>1, <2>1, SimulatorAssumption DEF SimBounded
<1>6. Book({}) = 0
  <2> DEFINE w == [tr \in Trades |-> Worth(tr)]
  <2>1. \A t \in {} : w[t] = Worth(t)
    OBVIOUS
  <2> HIDE DEF w
  <2>2. {} \in SUBSET Trades /\ IsFiniteSet({})
    BY FS_EmptySet
  <2>3. Book({}) = SumFunctionOnSet(w, {})
    BY <2>1, <2>2, BookIs
  <2> QED
    BY <2>3, SumEmpty
<1> QED
  BY <1>1, <1>2, <1>3, <1>4, <1>5, <1>6 DEF SimulatorInv

LEMMA SimulatorHolds ==
  ASSUME SimulatorInv, [SimulatorNext]_simulatorVars
  PROVE  SimulatorInv'
<1>1. CASE SimulatorNext
  BY <1>1, PositionHolds, TradeHolds, WeightHolds DEF SimulatorNext
<1>2. CASE UNCHANGED simulatorVars
  <2>1. UNCHANGED <<simMode, tape, openTrades, tradeRows, dailyPnl, decided>>
    BY <1>2 DEF simulatorVars
  <2>2. Ledger(openTrades, tradeRows, tape)' /\ SimTyped' /\ SimDecided' /\ SimBounded'
    BY <2>1, BooksInt DEF Ledger, Recorded, SimTyped, SimDecided, SimBounded
  <2>3. dailyPnl' = Book(openTrades)' + Book(tradeRows)'
    BY <2>1, BooksInt DEF Book, Worth
  <2> QED
    BY <2>2, <2>3 DEF SimulatorInv
<1> QED
  BY <1>1, <1>2

LEMMA SimulatorInvImplies ==
  ASSUME SimulatorInv
  PROVE  SimulatorTypeOK /\ BooksBalance /\ FillsHonest
<1>1. /\ SimTyped /\ SimBounded /\ Ledger(openTrades, tradeRows, tape) /\ dailyPnl = Book(openTrades) + Book(tradeRows)
      /\ dailyPnl \in Int
  BY BooksInt
<1>2. BooksBalance
  BY <1>1 DEF BooksBalance, Book
<1>3. FillsHonest
  BY <1>1 DEF FillsHonest, Ledger, Recorded, Traded, SimBounded
<1>4. SimulatorTypeOK
  <2>1. \A d \in DOMAIN tape : tape[d] \in [Stocks -> Bars \cup {NoBar}]
    BY <1>1 DEF SimTyped
  <2>2. \A t \in openTrades \cup tradeRows : t.stock \in Stocks /\ t.units \in Nat /\ t.entryDay \in 1 .. Len(tape)
    BY <1>1, TradeFields DEF Ledger, Recorded
  <2> QED
    BY <1>1, <2>1, <2>2 DEF SimulatorTypeOK, SimTyped, SimModes
<1> QED
  BY <1>2, <1>3, <1>4

-----------------------------------------------------------------------------
(***************************************************************************)
(* The backtest runner.                                                    *)
(***************************************************************************)
Desks == [cash : Int, qty : [Tradables -> Int], avg : [Tradables -> Nat], mark : [Tradables -> Nat],
          orders : Nat, realized : Seq(Int)]

\* What a symbol's position cost, and the sums over the symbols.
Cost(d) == d.cash + SumFunction([s \in Tradables |-> d.qty[s] * d.avg[s]])
Held(d) == {s \in Tradables : d.qty[s] # 0}

\* A desk that never sells short.
Long(d) == \A s \in Tradables : d.qty[s] \in Nat /\ (d.qty[s] = 0 => d.avg[s] = 0)

\* What the desk paid is what it began with and what it made, and each of its trades was opened and closed.
Booked(d, realized) ==
  /\ Cost(d) = InitialCash + SumFunction(realized)
  /\ d.orders = 2 * Len(realized) + Cardinality(Held(d))

AlignedTyped ==
  /\ Active \subseteq Tradables /\ SpanOf(aligned) \in Nat \ {0}
  /\ \A s \in Active : aligned[s] \in Seq(Nat \ {0}) /\ Len(aligned[s]) = SpanOf(aligned)

WalkTyped ==
  /\ barIndex \in 0 .. SpanOf(aligned)
  /\ curve \in Seq(Int) /\ Len(curve) = barIndex
  /\ desk \in Desks
  /\ \A s \in Tradables \ Active : desk.qty[s] = 0

Reported ==
  result # <<>> =>
    /\ barIndex = SpanOf(aligned)
    /\ LET worst == MaxDrawdown(curve)
       IN result[1].drop = worst.drop /\ result[1].of = worst.of
    /\ result[1].trades = desk.orders /\ result[1].closed = Len(desk.realized)

BacktestInv ==
  /\ AlignedTyped /\ WalkTyped /\ Reported
  /\ ~Shorts => Long(desk) /\ Booked(desk, desk.realized)
  /\ curve # <<>> => /\ Last(curve) = Equity(desk)
                     /\ \A s \in Active : desk.mark[s] # 0

-----------------------------------------------------------------------------
\* Sums over the symbols and over a sequence.
LEMMA SumOverInt ==
  ASSUME NEW f, NEW S, IsFiniteSet(S), DOMAIN f = S, \A x \in S : f[x] \in Int
  PROVE  SumFunction(f) \in Int
  BY SumInt DEF SumFunction

LEMMA SumAppend ==
  ASSUME NEW f \in Seq(Int), NEW x \in Int
  PROVE  SumFunction(Append(f, x)) = SumFunction(f) + x /\ SumFunction(f) \in Int
<1> DEFINE n == Len(f)
           g == Append(f, x)
<1>1. /\ n \in Nat /\ DOMAIN f = 1 .. n /\ DOMAIN g = (1 .. n) \cup {n + 1} /\ n + 1 \notin 1 .. n
      /\ g[n + 1] = x /\ \A k \in 1 .. n : g[k] = f[k] /\ f[k] \in Int
  <2>1. Len(g) = n + 1 /\ g \in Seq(Int) /\ n \in Nat
    OBVIOUS
  <2>2. DOMAIN g = 1 .. n + 1 /\ DOMAIN f = 1 .. n
    BY <2>1
  <2>3. 1 .. n + 1 = (1 .. n) \cup {n + 1} /\ n + 1 \notin 1 .. n
    BY <2>1
  <2> QED
    BY <2>1, <2>2, <2>3
<1>2. IsFiniteSet(1 .. n)
  BY <1>1, FS_Interval
<1> DEFINE I == 1 .. n
<1>3. I = 1 .. n
  OBVIOUS
<1> HIDE DEF g, n, I
<1> DEFINE m == n + 1
<1>8. IsFiniteSet(I) /\ m \notin I /\ \A k \in I \cup {m} : g[k] \in Int
  BY <1>1, <1>2, <1>3
<1>9. g[m] = x /\ DOMAIN g = I \cup {m}
  BY <1>1, <1>3
<1> HIDE DEF m
<1>4. SumFunctionOnSet(g, I \cup {m}) = SumFunctionOnSet(g, I) + g[m]
  BY <1>8, SumWith
<1>5. SumFunctionOnSet(g, I) = SumFunctionOnSet(f, I)
  BY <1>1, <1>2, <1>3, SumSame
<1>6. SumFunctionOnSet(f, I) \in Int
  BY <1>1, <1>2, <1>3, SumInt
<1> QED
  BY <1>1, <1>3, <1>4, <1>5, <1>6, <1>9 DEF SumFunction, g

\* A sum over the symbols of which one term changes.
Differ(f, g, S, a) ==
  /\ DOMAIN f = S /\ DOMAIN g = S /\ a \in S
  /\ (\A x \in S : f[x] \in Int /\ g[x] \in Int) /\ \A x \in S \ {a} : f[x] = g[x]

LEMMA SumChanged ==
  ASSUME NEW S, IsFiniteSet(S), NEW f, NEW g, NEW a, Differ(f, g, S, a)
  PROVE  SumFunction(g) = SumFunction(f) - f[a] + g[a]
<1> DEFINE R == S \ {a}
<1>1. IsFiniteSet(R)
  BY FS_Subset
<1>2. SumFunctionOnSet(f, S) = f[a] + SumFunctionOnSet(f, R)
  BY SumWithout DEF Differ
<1>3. SumFunctionOnSet(g, S) = g[a] + SumFunctionOnSet(g, R)
  BY SumWithout DEF Differ
<1>4. \A x \in R : f[x] = g[x] /\ f[x] \in Int
  BY DEF Differ
<1>5. f[a] \in Int /\ g[a] \in Int /\ DOMAIN f = S /\ DOMAIN g = S
  BY DEF Differ
<1> HIDE DEF R
<1>6. SumFunctionOnSet(f, R) = SumFunctionOnSet(g, R)
  BY <1>1, <1>4, SumSame
<1>7. SumFunctionOnSet(f, R) \in Int
  BY <1>1, <1>4, SumInt
<1> QED
  BY <1>2, <1>3, <1>5, <1>6, <1>7 DEF SumFunction

-----------------------------------------------------------------------------
\* The histories a backtest walks.
LEMMA LeastLength ==
  ASSUME NEW h, NEW A, DOMAIN h = A, A # {}, \A s \in A : Len(h[s]) \in Nat
  PROVE  /\ SpanOf(h) \in Nat
         /\ \A s \in A : SpanOf(h) <= Len(h[s])
         /\ \E s \in A : SpanOf(h) = Len(h[s])
<1> DEFINE L == {Len(h[s]) : s \in DOMAIN h}
<1>1. L \in SUBSET Nat /\ L # {}
  OBVIOUS
<1>2. Min(L) \in L /\ \A x \in L : Min(L) <= x
  BY <1>1, MinIn
<1> QED
  BY <1>1, <1>2 DEF SpanOf

LEMMA AlignIs ==
  ASSUME NEW source \in [Tradables -> Seq(Nat \ {0})], NEW a \in Tradables, source[a] # <<>>, aligned = Align(source)
  PROVE  AlignedTyped
<1> DEFINE some == {s \in Tradables : source[s] # <<>>}
           L == {Len(source[s]) : s \in some}
           n == Min(L)
<1>1. \A s \in some : Len(source[s]) \in Nat \ {0} /\ source[s] \in Seq(Nat \ {0})
  OBVIOUS
<1>2. L \in SUBSET Nat /\ L # {}
  BY <1>1
<1>3. n \in L /\ \A x \in L : n <= x
  BY <1>2, MinIn
<1>4. n \in Nat \ {0} /\ \A s \in some : n <= Len(source[s])
  BY <1>1, <1>3
<1>5. aligned = [s \in some |-> SubSeq(source[s], Len(source[s]) - n + 1, Len(source[s]))]
  BY DEF Align
<1> HIDE DEF n, L
<1>6. \A s \in some : aligned[s] \in Seq(Nat \ {0}) /\ Len(aligned[s]) = n
  <2> SUFFICES ASSUME NEW s \in some PROVE aligned[s] \in Seq(Nat \ {0}) /\ Len(aligned[s]) = n
    OBVIOUS
  <2> DEFINE q == source[s]
             m == Len(q)
  <2>1. q \in Seq(Nat \ {0}) /\ m \in Nat /\ n <= m /\ n \in Nat \ {0}
    BY <1>1, <1>4
  <2>2. m - n + 1 \in 1 .. m /\ m - n + 1 <= m
    BY <2>1
  <2>3. SubSeq(q, m - n + 1, m) \in Seq(Nat \ {0}) /\ Len(SubSeq(q, m - n + 1, m)) = n
    BY <2>1, <2>2
  <2> QED
    BY <1>5, <2>3
<1>7. a \in some /\ some \subseteq Tradables /\ DOMAIN aligned = some
  BY <1>5
<1> HIDE DEF some
<1>8. SpanOf(aligned) = n
  BY <1>4, <1>6, <1>7, LeastLength
<1> QED
  BY <1>4, <1>6, <1>7, <1>8 DEF AlignedTyped, Active

-----------------------------------------------------------------------------
\* One composite: what it does to the desk.
PriceNow(s) == aligned[s][barIndex + 1]
Walking == AlignedTyped /\ WalkTyped /\ barIndex < SpanOf(aligned)

LEMMA PriceNowIs ==
  ASSUME Walking, NEW s \in Active
  PROVE  PriceNow(s) \in Nat \ {0} /\ s \in Tradables
<1>1. aligned[s] \in Seq(Nat \ {0}) /\ Len(aligned[s]) = SpanOf(aligned) /\ SpanOf(aligned) \in Nat \ {0} /\ s \in Tradables
  BY DEF Walking, AlignedTyped
<1>2. barIndex + 1 \in 1 .. SpanOf(aligned)
  BY <1>1 DEF Walking, WalkTyped
<1> QED
  BY <1>1, <1>2 DEF PriceNow

LEMMA DeskFields ==
  ASSUME NEW d \in Desks
  PROVE  /\ d.cash \in Int /\ d.orders \in Nat /\ d.realized \in Seq(Int)
         /\ d.qty \in [Tradables -> Int] /\ d.avg \in [Tradables -> Nat] /\ d.mark \in [Tradables -> Nat]
  BY DEF Desks

\* An order changes the position of its symbol alone, at the price.
Ordered(d, e, s, price, signed) ==
  /\ signed \in Int
  /\ e = [d EXCEPT !.cash = @ - signed * price, !.qty[s] = d.qty[s] + signed, !.mark[s] = price,
                   !.orders = @ + 1,
                   !.avg[s] = IF d.qty[s] + signed = 0 THEN 0 ELSE IF d.qty[s] = 0 THEN price ELSE @]

LEMMA WantedIs ==
  ASSUME NEW signal, NEW position \in Int, NEW price \in Nat \ {0}, NEW intent,
         intent = Rules!Decide(Notional, signal, position, price), intent # Rules!None, intent.qty > 0
  PROVE  /\ Rules!Delta(intent) \in Int
         /\ ~Shorts /\ position \in Nat => \/ position = 0 /\ Rules!Delta(intent) > 0
                                           \/ position > 0 /\ Rules!Delta(intent) = -position
<1> DEFINE q == Rules!EntryQty(Notional, price)
<1>1. q \in Int
  <2>1. Notional \div price \in Int
    BY BacktestAssumption
  <2> QED
    BY <2>1 DEF Rules!EntryQty, Rules!AtLeast
<1>2. intent = CASE position = 0 /\ "bullish" \in signal -> Rules!Buy(q)
                 [] position = 0 /\ "bullish" \notin signal /\ "bearish" \in signal /\ Shorts -> Rules!Sell(q)
                 [] position > 0 /\ "bearish" \in signal -> Rules!Sell(position)
                 [] position < 0 /\ "bullish" \in signal -> Rules!Buy(-position)
                 [] OTHER -> Rules!None
  BY DEF Rules!Decide
<1> HIDE DEF q
<1>3. \A n \in Int : /\ Rules!Buy(n).qty = n /\ Rules!Delta(Rules!Buy(n)) = n
                     /\ Rules!Sell(n).qty = n /\ Rules!Delta(Rules!Sell(n)) = -n
  BY DEF Rules!Buy, Rules!Sell, Rules!Delta
<1>4. CASE position = 0 /\ "bullish" \in signal
  BY <1>1, <1>2, <1>3, <1>4
<1>5. CASE position = 0 /\ "bullish" \notin signal /\ "bearish" \in signal /\ Shorts
  BY <1>1, <1>2, <1>3, <1>5
<1>6. CASE position > 0 /\ "bearish" \in signal
  BY <1>1, <1>2, <1>3, <1>6
<1>7. CASE position < 0 /\ "bullish" \in signal
  BY <1>1, <1>2, <1>3, <1>7
<1> QED
  BY <1>2, <1>4, <1>5, <1>6, <1>7

LEMMA TradeIs ==
  ASSUME Walking, NEW d \in Desks, NEW s \in Active, NEW signal
  PROVE  LET e == Trade(d, s, signal)
         IN \/ e = d
            \/ \E signed \in Int : /\ Ordered(d, e, s, PriceNow(s), signed)
                                   /\ ~Shorts /\ d.qty[s] \in Nat => \/ d.qty[s] = 0 /\ signed > 0
                                                                     \/ d.qty[s] > 0 /\ signed = -d.qty[s]
<1> DEFINE price == PriceNow(s)
           intent == Rules!Decide(Notional, signal, d.qty[s], price)
           signed == Rules!Delta(intent)
<1>1. price \in Nat \ {0} /\ s \in Tradables /\ d.qty[s] \in Int
  BY PriceNowIs, DeskFields
<1>2. Trade(d, s, signal) = IF intent # Rules!None /\ Rules!GuardAllows(d.qty, s, intent, price)
                            THEN FillAt(d, s, intent, price) ELSE d
  BY DEF Trade, PriceNow
<1> HIDE DEF price
<1>3. CASE intent # Rules!None /\ Rules!GuardAllows(d.qty, s, intent, price)
  <2>1. intent.qty > 0
    BY <1>3 DEF Rules!GuardAllows
  <2>2. Trade(d, s, signal) = FillAt(d, s, intent, price)
    BY <1>2, <1>3
  <2>3. FillAt(d, s, intent, price)
          = [d EXCEPT !.cash = @ - signed * price, !.qty[s] = d.qty[s] + signed, !.mark[s] = price,
                      !.orders = @ + 1,
                      !.avg[s] = IF d.qty[s] + signed = 0 THEN 0 ELSE IF d.qty[s] = 0 THEN price ELSE @]
    BY DEF FillAt
  <2> DEFINE i == intent
  <2>4. i = Rules!Decide(Notional, signal, d.qty[s], price) /\ i # Rules!None /\ i.qty > 0
    BY <1>3, <2>1
  <2> HIDE DEF i
  <2>5. /\ Rules!Delta(i) \in Int
        /\ ~Shorts /\ d.qty[s] \in Nat => \/ d.qty[s] = 0 /\ Rules!Delta(i) > 0
                                          \/ d.qty[s] > 0 /\ Rules!Delta(i) = -d.qty[s]
    BY <1>1, <2>4, WantedIs
  <2>6. signed = Rules!Delta(i)
    BY DEF i
  <2> HIDE DEF signed
  <2> QED
    BY <2>2, <2>3, <2>5, <2>6 DEF Ordered, price
<1>4. CASE ~(intent # Rules!None /\ Rules!GuardAllows(d.qty, s, intent, price))
  BY <1>2, <1>4
<1> QED
  BY <1>3, <1>4

LEMMA OrderedIs ==
  ASSUME NEW d \in Desks, NEW e, NEW s \in Tradables, NEW price \in Nat \ {0}, NEW signed \in Int,
         Ordered(d, e, s, price, signed)
  PROVE  /\ e \in Desks /\ e.cash = d.cash - signed * price /\ e.orders = d.orders + 1 /\ e.realized = d.realized
         /\ e.qty[s] = d.qty[s] + signed
         /\ e.avg[s] = IF d.qty[s] + signed = 0 THEN 0 ELSE IF d.qty[s] = 0 THEN price ELSE d.avg[s]
         /\ \A t \in Tradables \ {s} : e.qty[t] = d.qty[t] /\ e.avg[t] = d.avg[t]
<1>0. \A x \in Int : \A y \in Int : x * y \in Int
  OBVIOUS
<1>1. signed * price \in Int
  BY <1>0
<1>2. /\ d.cash \in Int /\ d.orders \in Nat /\ d.realized \in Seq(Int)
      /\ d.qty \in [Tradables -> Int] /\ d.avg \in [Tradables -> Nat] /\ d.mark \in [Tradables -> Nat]
  BY DeskFields
<1> DEFINE rest == d.qty[s] + signed
           paid == signed * price
           entry == IF rest = 0 THEN 0 ELSE IF d.qty[s] = 0 THEN price ELSE d.avg[s]
<1>3. e = [cash |-> d.cash - paid, qty |-> [d.qty EXCEPT ![s] = rest], avg |-> [d.avg EXCEPT ![s] = entry],
           mark |-> [d.mark EXCEPT ![s] = price], orders |-> d.orders + 1, realized |-> d.realized]
  BY DEF Ordered, Desks
<1>4. rest \in Int /\ entry \in Nat /\ paid \in Int
  BY <1>1, <1>2
<1>5. e.cash = d.cash - paid /\ e.qty[s] = rest /\ e.avg[s] = entry /\ rest = d.qty[s] + signed /\ paid = signed * price
  BY <1>2, <1>3
<1> HIDE DEF rest, entry, paid
<1>6. e \in Desks
  BY <1>2, <1>3, <1>4 DEF Desks
<1> QED
  BY <1>2, <1>3, <1>5, <1>6 DEF entry

\* What an order does to the cost of the desk and to the positions it holds.
Gained(d, e, pnl, opened) ==
  /\ Cost(d) \in Int /\ pnl \in Int /\ Cost(e) = Cost(d) + pnl
  /\ Cardinality(Held(d)) \in Nat /\ Cardinality(Held(e)) = Cardinality(Held(d)) + opened

LEMMA HeldFinite ==
  ASSUME NEW d
  PROVE  IsFiniteSet(Held(d)) /\ Cardinality(Held(d)) \in Nat
<1>1. Held(d) \subseteq Tradables
  BY DEF Held
<1> QED
  BY <1>1, BacktestAssumption, FS_Subset, FS_CardinalityType

LEMMA CostInt ==
  ASSUME NEW d \in Desks
  PROVE  Cost(d) \in Int
<1> DEFINE f == [s \in Tradables |-> d.qty[s] * d.avg[s]]
<1>0. \A x \in Int : \A y \in Int : x * y \in Int
  OBVIOUS
<1>1. DOMAIN f = Tradables /\ \A s \in Tradables : f[s] \in Int
  BY <1>0, DeskFields
<1> HIDE DEF f
<1>2. SumFunction(f) \in Int
  BY <1>1, BacktestAssumption, SumOverInt
<1> QED
  BY <1>2, DeskFields DEF Cost, f

LEMMA CostChanges ==
  ASSUME NEW d \in Desks, NEW e \in Desks, NEW s \in Tradables,
         \A t \in Tradables \ {s} : e.qty[t] = d.qty[t] /\ e.avg[t] = d.avg[t]
  PROVE  Cost(e) = Cost(d) - d.cash + e.cash - d.qty[s] * d.avg[s] + e.qty[s] * e.avg[s]
<1> DEFINE f == [t \in Tradables |-> d.qty[t] * d.avg[t]]
           g == [t \in Tradables |-> e.qty[t] * e.avg[t]]
<1>0. \A x \in Int : \A y \in Int : x * y \in Int
  OBVIOUS
<1>1. \A t \in Tradables : d.qty[t] \in Int /\ d.avg[t] \in Int /\ e.qty[t] \in Int /\ e.avg[t] \in Int
  BY DeskFields
<1>2. \A t \in Tradables : f[t] \in Int /\ g[t] \in Int
  BY <1>0, <1>1
<1>3. Differ(f, g, Tradables, s)
  BY <1>2 DEF Differ
<1>4. f[s] = d.qty[s] * d.avg[s] /\ g[s] = e.qty[s] * e.avg[s] /\ f[s] \in Int /\ g[s] \in Int
  BY <1>2
<1>5. Cost(d) = d.cash + SumFunction(f) /\ Cost(e) = e.cash + SumFunction(g)
  BY DEF Cost
<1>6. DOMAIN f = Tradables
  OBVIOUS
<1> HIDE DEF f, g
<1>7. SumFunction(g) = SumFunction(f) - f[s] + g[s]
  BY <1>3, BacktestAssumption, SumChanged
<1>8. SumFunction(f) \in Int
  BY <1>2, <1>6, BacktestAssumption, SumOverInt
<1>9. d.cash \in Int /\ e.cash \in Int
  BY DeskFields
<1> QED
  BY <1>4, <1>5, <1>7, <1>8, <1>9

\* Buying opens a position at what it cost; selling all of one turns its gain into cash.
LEMMA OrderedGains ==
  ASSUME NEW d \in Desks, Long(d), NEW e, NEW s \in Tradables, NEW price \in Nat \ {0}, NEW signed \in Int,
         Ordered(d, e, s, price, signed),
         (d.qty[s] = 0 /\ signed > 0) \/ (d.qty[s] > 0 /\ signed = -d.qty[s])
  PROVE  /\ Long(e)
         /\ d.qty[s] = 0 => e.qty[s] > 0 /\ Gained(d, e, 0, 1)
         /\ d.qty[s] > 0 => e.qty[s] = 0 /\ Gained(d, e, (price - d.avg[s]) * d.qty[s], -1)
<1>1. /\ e \in Desks /\ e.cash = d.cash - signed * price /\ e.orders = d.orders + 1
      /\ e.qty[s] = d.qty[s] + signed
      /\ e.avg[s] = IF d.qty[s] + signed = 0 THEN 0 ELSE IF d.qty[s] = 0 THEN price ELSE d.avg[s]
      /\ \A t \in Tradables \ {s} : e.qty[t] = d.qty[t] /\ e.avg[t] = d.avg[t]
  BY OrderedIs
<1>2. Cost(e) = Cost(d) - d.cash + e.cash - d.qty[s] * d.avg[s] + e.qty[s] * e.avg[s]
  BY <1>1, CostChanges
<1>3. Cost(d) \in Int /\ d.cash \in Int /\ d.qty[s] \in Int /\ d.avg[s] \in Nat
  BY DeskFields, CostInt
<1>4. /\ IsFiniteSet(Held(d)) /\ Cardinality(Held(d)) \in Nat
      /\ IsFiniteSet(Held(e)) /\ Cardinality(Held(e)) \in Nat
  BY HeldFinite
<1>5. CASE d.qty[s] = 0
  <2>1. e.qty[s] = signed /\ e.avg[s] = price /\ signed > 0
    BY <1>1, <1>3, <1>5
  <2>2. Cost(e) = Cost(d)
    <3> DEFINE paid == signed * price
    <3>0. \A x \in Int : \A y \in Int : x * y \in Int
      OBVIOUS
    <3>1. paid \in Int
      BY <3>0
    <3>2. e.cash = d.cash - paid /\ e.qty[s] * e.avg[s] = paid /\ d.qty[s] * d.avg[s] = 0
      BY <1>1, <1>3, <1>5, <2>1
    <3> HIDE DEF paid
    <3> QED
      BY <1>2, <1>3, <3>1, <3>2
  <2>3. Held(e) = Held(d) \cup {s} /\ s \notin Held(d)
    BY <1>1, <1>5, <2>1 DEF Held
  <2>4. Cardinality(Held(e)) = Cardinality(Held(d)) + 1
    BY <1>4, <2>3, FS_AddElement
  <2>5. Long(e)
    BY <1>1, <2>1 DEF Long
  <2> QED
    BY <1>3, <1>4, <1>5, <2>1, <2>2, <2>4, <2>5 DEF Gained
<1>6. CASE d.qty[s] > 0
  <2>1. e.qty[s] = 0 /\ e.avg[s] = 0 /\ signed = -d.qty[s]
    BY <1>1, <1>3, <1>6
  <2> DEFINE pnl == (price - d.avg[s]) * d.qty[s]
             cost == d.qty[s] * d.avg[s]
             paid == d.qty[s] * price
  <2>2. pnl = paid - cost /\ signed * price = -paid /\ pnl \in Int /\ cost \in Int /\ paid \in Int
    <3>1. \A q \in Int : \A p \in Int : \A a \in Int :
            /\ (p - a) * q = q * p - q * a /\ (-q) * p = -(q * p)
            /\ q * p \in Int /\ q * a \in Int
      OBVIOUS
    <3> QED
      BY <1>3, <2>1, <3>1
  <2>3. Cost(e) = Cost(d) + pnl
    <3>1. e.cash = d.cash + paid
      BY <1>1, <1>3, <2>2
    <3>2. e.qty[s] * e.avg[s] = 0
      BY <2>1
    <3>3. Cost(e) = Cost(d) - d.cash + e.cash - cost + 0
      BY <1>2, <3>2
    <3> HIDE DEF pnl, cost, paid
    <3> QED
      BY <1>3, <2>2, <3>1, <3>3
  <2>4. Held(e) = Held(d) \ {s} /\ s \in Held(d)
    BY <1>1, <1>6, <2>1 DEF Held
  <2>5. Cardinality(Held(e)) = Cardinality(Held(d)) - 1
    BY <1>4, <2>4, FS_RemoveElement
  <2>6. Long(e)
    BY <1>1, <2>1 DEF Long
  <2>7. Gained(d, e, pnl, -1)
    BY <1>3, <1>4, <2>2, <2>3, <2>5 DEF Gained
  <2> QED
    BY <1>6, <2>1, <2>6, <2>7
<1> QED
  BY <1>5, <1>6

\* The books stay even.
LEMMA OpeningBooked ==
  ASSUME NEW d \in Desks, NEW e \in Desks, e.orders = d.orders + 1, NEW r \in Seq(Int),
         Booked(d, r), Gained(d, e, 0, 1)
  PROVE  Booked(e, r)
<1>1. d.orders \in Nat /\ Len(r) \in Nat
  BY DeskFields
<1> QED
  BY <1>1 DEF Booked, Gained

LEMMA ClosingBooked ==
  ASSUME NEW d \in Desks, NEW e \in Desks, e.orders = d.orders + 1, NEW r \in Seq(Int), NEW pnl \in Int,
         Booked(d, r), Gained(d, e, pnl, -1)
  PROVE  Booked(e, Append(r, pnl))
<1>1. d.orders \in Nat /\ Len(r) \in Nat /\ Len(Append(r, pnl)) = Len(r) + 1
  BY DeskFields
<1>2. SumFunction(Append(r, pnl)) = SumFunction(r) + pnl /\ SumFunction(r) \in Int
  BY SumAppend
<1>3. InitialCash \in Int
  BY BacktestAssumption
<1>4. Cost(e) = InitialCash + SumFunction(Append(r, pnl))
  <2>1. Cost(d) = InitialCash + SumFunction(r)
    BY DEF Booked
  <2>2. Cost(e) = Cost(d) + pnl
    BY DEF Gained
  <2> QED
    BY <1>2, <1>3, <2>1, <2>2
<1>5. e.orders = 2 * Len(Append(r, pnl)) + Cardinality(Held(e))
  BY <1>1 DEF Booked, Gained
<1> QED
  BY <1>4, <1>5 DEF Booked

LEMMA TradeTouches ==
  ASSUME Walking, NEW d \in Desks, NEW s \in Active, NEW signal
  PROVE  LET e == Trade(d, s, signal)
         IN /\ e \in Desks /\ e.realized = d.realized
            /\ \A t \in Tradables \ {s} : e.qty[t] = d.qty[t] /\ e.avg[t] = d.avg[t]
<1> DEFINE e == Trade(d, s, signal)
           price == PriceNow(s)
<1>1. e = d \/ \E signed \in Int : Ordered(d, e, s, price, signed)
  BY TradeIs
<1>2. price \in Nat \ {0} /\ s \in Tradables
  BY PriceNowIs
<1> HIDE DEF e, price
<1>3. ASSUME NEW signed \in Int, Ordered(d, e, s, price, signed)
      PROVE  /\ e \in Desks /\ e.realized = d.realized
             /\ \A t \in Tradables \ {s} : e.qty[t] = d.qty[t] /\ e.avg[t] = d.avg[t]
  <2>1. /\ e \in Desks /\ e.cash = d.cash - signed * price /\ e.orders = d.orders + 1 /\ e.realized = d.realized
        /\ e.qty[s] = d.qty[s] + signed
        /\ e.avg[s] = IF d.qty[s] + signed = 0 THEN 0 ELSE IF d.qty[s] = 0 THEN price ELSE d.avg[s]
        /\ \A t \in Tradables \ {s} : e.qty[t] = d.qty[t] /\ e.avg[t] = d.avg[t]
    BY <1>2, <1>3, OrderedIs
  <2> QED
    BY <2>1
<1>4. /\ e \in Desks /\ e.realized = d.realized
      /\ \A t \in Tradables \ {s} : e.qty[t] = d.qty[t] /\ e.avg[t] = d.avg[t]
  BY <1>1, <1>3
<1> QED
  BY <1>4 DEF e

\* A trade of a desk that is long, and what is noted of it.
LEMMA TradeBooked ==
  ASSUME Walking, ~Shorts, NEW d \in Desks, Long(d), NEW r \in Seq(Int), Booked(d, r),
         NEW s \in Active, NEW signal, NEW after,
         d.qty[s] = desk.qty[s], d.avg[s] = desk.avg[s], after.qty[s] = Trade(d, s, signal).qty[s]
  PROVE  Long(Trade(d, s, signal)) /\ Booked(Trade(d, s, signal), Note(r, after, s))
<1> DEFINE e == Trade(d, s, signal)
           price == PriceNow(s)
           pnl == (price - d.avg[s]) * d.qty[s]
<1>1. price \in Nat \ {0} /\ s \in Tradables
  BY PriceNowIs
<1>2. d.qty[s] \in Nat /\ d.avg[s] \in Nat
  BY <1>1, DeskFields DEF Long
<1>3. Note(r, after, s) = IF e.qty[s] < d.qty[s] /\ d.qty[s] > 0
                          THEN Append(r, (price - d.avg[s]) * (d.qty[s] - e.qty[s])) ELSE r
  BY DEF Note, HeldBefore, PriceNow
<1>4. e = d \/ \E signed \in Int : /\ Ordered(d, e, s, price, signed)
                                   /\ (d.qty[s] = 0 /\ signed > 0) \/ (d.qty[s] > 0 /\ signed = -d.qty[s])
  BY <1>2, TradeIs
<1> DEFINE n == Note(r, after, s)
<1> HIDE DEF e, price, n
<1>5. CASE e = d
  <2>1. n = r
    BY <1>2, <1>3, <1>5 DEF n
  <2> QED
    BY <1>5, <2>1 DEF e, n
<1>6. ASSUME NEW signed \in Int, Ordered(d, e, s, price, signed),
             (d.qty[s] = 0 /\ signed > 0) \/ (d.qty[s] > 0 /\ signed = -d.qty[s])
      PROVE  Long(e) /\ Booked(e, n)
  <2>1. e \in Desks /\ e.orders = d.orders + 1
    BY <1>1, <1>6, OrderedIs
  <2>2. /\ Long(e)
        /\ d.qty[s] = 0 => e.qty[s] > 0 /\ Gained(d, e, 0, 1)
        /\ d.qty[s] > 0 => e.qty[s] = 0 /\ Gained(d, e, pnl, -1)
    BY <1>1, <1>6, OrderedGains
  <2>3. CASE d.qty[s] = 0
    <3>1. n = r
      BY <1>3, <2>3 DEF n
    <3> QED
      BY <2>1, <2>2, <2>3, <3>1, OpeningBooked
  <2>4. CASE d.qty[s] > 0
    <3>1. e.qty[s] = 0 /\ Gained(d, e, pnl, -1)
      BY <2>2, <2>4
    <3>2. d.qty[s] - e.qty[s] = d.qty[s]
      BY <1>2, <3>1
    <3>3. n = Append(r, pnl)
      BY <1>3, <2>4, <3>1, <3>2 DEF n
    <3>4. pnl \in Int
      BY <3>1 DEF Gained
    <3> HIDE DEF pnl
    <3>5. Booked(e, Append(r, pnl))
      BY <2>1, <3>1, <3>4, ClosingBooked
    <3> QED
      BY <2>2, <3>3, <3>5
  <2> QED
    BY <1>2, <2>3, <2>4
<1>7. Long(e) /\ Booked(e, n)
  BY <1>4, <1>5, <1>6 DEF e, n
<1> QED
  BY <1>7 DEF e, n

-----------------------------------------------------------------------------
\* The cycle of a bar: every symbol once.
IsCycle(h, turns, signals) ==
  h = [k \in 0 .. Len(turns) |-> IF k = 0 THEN desk ELSE Trade(h[k - 1], turns[k], signals[turns[k]])]
IsNotes(h, turns, after) ==
  h = [k \in 0 .. Len(turns) |-> IF k = 0 THEN desk.realized ELSE Note(h[k - 1], after, turns[k])]

LEMMA CycledIs ==
  ASSUME NEW turns, NEW signals
  PROVE  Cycled(turns, signals) = (CHOOSE h : IsCycle(h, turns, signals))[Len(turns)]
  BY DEF Cycled, IsCycle

LEMMA NotedIs ==
  ASSUME NEW turns, NEW after
  PROVE  Noted(turns, after) = (CHOOSE h : IsNotes(h, turns, after))[Len(turns)]
  BY DEF Noted, IsNotes

Visits(turns, n) ==
  /\ n \in Nat /\ n = Len(turns) /\ DOMAIN turns = 1 .. n
  /\ \A k \in 1 .. n : turns[k] \in Active
  /\ \A j, k \in 1 .. n : turns[j] = turns[k] => j = k

LEMMA OrderVisits ==
  ASSUME AlignedTyped, NEW turns \in ScoreOrders
  PROVE  Visits(turns, Len(turns))
<1> DEFINE n == Cardinality(Active)
           A == Active
<1>1. n \in Nat
  BY BacktestAssumption, FS_Subset, FS_CardinalityType DEF AlignedTyped
<1>2. turns \in Bijection(1 .. n, A)
  BY DEF ScoreOrders
<1> HIDE DEF n, A
<1>3. turns \in [1 .. n -> A] /\ \A j, k \in 1 .. n : turns[j] = turns[k] => j = k
  BY <1>2 DEF Bijection, Injection, IsInjective
<1>4. turns \in Seq(A) /\ Len(turns) = n
  BY <1>1, <1>3
<1> QED
  BY <1>1, <1>3, <1>4 DEF A, Visits

\* The desks of a cycle.
Cycling(h, turns, signals, n) ==
  /\ h \in [0 .. n -> Desks] /\ h[0] = desk
  /\ \A k \in 1 .. n : h[k] = Trade(h[k - 1], turns[k], signals[turns[k]])
  /\ Cycled(turns, signals) = h[n]

LEMMA CycleExists ==
  ASSUME Walking, NEW turns, NEW n, Visits(turns, n), NEW signals
  PROVE  \E h : Cycling(h, turns, signals, n)
<1> DEFINE step == [k \in 1 .. n |-> [d \in Desks |-> Trade(d, turns[k], signals[turns[k]])]]
<1>1. n \in Nat /\ n = Len(turns) /\ \A k \in 1 .. n : turns[k] \in Active
  BY DEF Visits
<1>2. \A k \in 1 .. n : \A d \in Desks : Trade(d, turns[k], signals[turns[k]]) \in Desks
  BY <1>1, TradeTouches
<1> DEFINE X == Desks
<1>9. X = Desks
  OBVIOUS
<1>3. step \in [1 .. n -> [X -> X]] /\ \A k \in 1 .. n : \A d \in X : step[k][d] = Trade(d, turns[k], signals[turns[k]])
  BY <1>2
<1>4. desk \in X
  BY DEF Walking, WalkTyped
<1> HIDE DEF step, X
<1>5. PICK h \in [0 .. n -> X] : h[0] = desk /\ \A k \in 1 .. n : h[k] = step[k][h[k - 1]]
  <2>1. Recursion(n, X, desk, step)
    BY <1>1, <1>3, <1>4 DEF Recursion
  <2> QED
    BY <2>1, RecursionExists
<1>6. \A k \in 1 .. n : h[k] = Trade(h[k - 1], turns[k], signals[turns[k]])
  <2> SUFFICES ASSUME NEW k \in 1 .. n PROVE h[k] = Trade(h[k - 1], turns[k], signals[turns[k]])
    OBVIOUS
  <2>2. k - 1 \in 0 .. n
    BY <1>1
  <2>1. k - 1 \in 0 .. n /\ h[k - 1] \in X
    BY <1>5, <2>2
  <2> QED
    BY <1>3, <1>5, <2>1
<1>7. IsCycle(h, turns, signals)
  BY <1>1, <1>5, <1>6 DEF IsCycle
<1> DEFINE c == CHOOSE g : IsCycle(g, turns, signals)
<1>8. IsCycle(c, turns, signals)
  BY <1>7
<1>10. Cycled(turns, signals) = c[n]
  BY <1>1, CycledIs
<1> HIDE DEF c
<1>11. /\ DOMAIN c = 0 .. n /\ c[0] = desk /\ c = [k \in 0 .. n |-> c[k]]
       /\ \A k \in 1 .. n : c[k] = Trade(c[k - 1], turns[k], signals[turns[k]])
  BY <1>1, <1>8 DEF IsCycle
<1>12. \A k \in 0 .. n : c[k] \in X
  <2> SUFFICES ASSUME NEW m \in 0 .. n PROVE c[m] \in X
    OBVIOUS
  <2> DEFINE C == {k \in 0 .. n : c[k] \in X}
  <2>1. 0 \in C
    BY <1>1, <1>4, <1>11
  <2>2. ASSUME NEW k \in 0 .. m - 1, k \in C PROVE k + 1 \in C
    <3>1. k + 1 \in 1 .. n /\ (k + 1) - 1 = k /\ k + 1 \in 0 .. n /\ c[k] \in X
      BY <1>1, <2>2
    <3>2. c[k + 1] = Trade(c[k], turns[k + 1], signals[turns[k + 1]])
      BY <1>11, <3>1
    <3> QED
      BY <1>2, <1>9, <3>1, <3>2
  <2>3. m \in Nat
    BY <1>1
  <2> HIDE DEF C
  <2>4. m \in C
    BY <2>1, <2>2, <2>3, CountingInduction
  <2> QED
    BY <2>4 DEF C
<1>13. c \in [0 .. n -> X]
  BY <1>11, <1>12
<1> QED
  BY <1>9, <1>10, <1>11, <1>13 DEF Cycling

\* The notes of a cycle.
Noting(h, turns, after, n) ==
  /\ h \in [0 .. n -> Seq(Int)] /\ h[0] = desk.realized
  /\ \A k \in 1 .. n : h[k] = Note(h[k - 1], after, turns[k])
  /\ Noted(turns, after) = h[n]

LEMMA NoteType ==
  ASSUME Walking, NEW q \in Seq(Int), NEW after \in Desks, NEW s \in Active
  PROVE  Note(q, after, s) \in Seq(Int)
<1> DEFINE pnl == (PriceNow(s) - desk.avg[s]) * (desk.qty[s] - after.qty[s])
<1>1. PriceNow(s) \in Nat \ {0} /\ s \in Tradables
  BY PriceNowIs
<1>2. desk.avg[s] \in Nat /\ desk.qty[s] \in Int /\ after.qty[s] \in Int
  BY <1>1, DeskFields DEF Walking, WalkTyped
<1>3. pnl \in Int
  <2>1. \A x \in Int : \A y \in Int : x * y \in Int
    OBVIOUS
  <2>2. PriceNow(s) - desk.avg[s] \in Int /\ desk.qty[s] - after.qty[s] \in Int
    BY <1>1, <1>2
  <2> QED
    BY <2>1, <2>2
<1>4. Note(q, after, s) = IF after.qty[s] < desk.qty[s] /\ desk.qty[s] > 0 THEN Append(q, pnl) ELSE q
  BY DEF Note, HeldBefore, PriceNow
<1> HIDE DEF pnl
<1> QED
  BY <1>3, <1>4

LEMMA NotesExist ==
  ASSUME Walking, NEW turns, NEW n, Visits(turns, n), NEW after \in Desks
  PROVE  \E h : Noting(h, turns, after, n)
<1> DEFINE step == [k \in 1 .. n |-> [q \in Seq(Int) |-> Note(q, after, turns[k])]]
<1>1. n \in Nat /\ n = Len(turns) /\ \A k \in 1 .. n : turns[k] \in Active
  BY DEF Visits
<1>2. \A k \in 1 .. n : \A q \in Seq(Int) : Note(q, after, turns[k]) \in Seq(Int)
  BY <1>1, NoteType
<1> DEFINE X == Seq(Int)
<1>9. X = Seq(Int)
  OBVIOUS
<1>3. step \in [1 .. n -> [X -> X]] /\ \A k \in 1 .. n : \A q \in X : step[k][q] = Note(q, after, turns[k])
  BY <1>2
<1>4. desk.realized \in X
  BY DeskFields DEF Walking, WalkTyped
<1> HIDE DEF step, X
<1>5. PICK h \in [0 .. n -> X] : h[0] = desk.realized /\ \A k \in 1 .. n : h[k] = step[k][h[k - 1]]
  <2>1. Recursion(n, X, desk.realized, step)
    BY <1>1, <1>3, <1>4 DEF Recursion
  <2> QED
    BY <2>1, RecursionExists
<1>6. \A k \in 1 .. n : h[k] = Note(h[k - 1], after, turns[k])
  <2> SUFFICES ASSUME NEW k \in 1 .. n PROVE h[k] = Note(h[k - 1], after, turns[k])
    OBVIOUS
  <2>2. k - 1 \in 0 .. n
    BY <1>1
  <2>1. k - 1 \in 0 .. n /\ h[k - 1] \in X
    BY <1>5, <2>2
  <2> QED
    BY <1>3, <1>5, <2>1
<1>7. IsNotes(h, turns, after)
  BY <1>1, <1>5, <1>6 DEF IsNotes
<1> DEFINE c == CHOOSE g : IsNotes(g, turns, after)
<1>8. IsNotes(c, turns, after)
  BY <1>7
<1>10. Noted(turns, after) = c[n]
  BY <1>1, NotedIs
<1> HIDE DEF c
<1>11. /\ DOMAIN c = 0 .. n /\ c[0] = desk.realized /\ c = [k \in 0 .. n |-> c[k]]
       /\ \A k \in 1 .. n : c[k] = Note(c[k - 1], after, turns[k])
  BY <1>1, <1>8 DEF IsNotes
<1>12. \A k \in 0 .. n : c[k] \in X
  <2> SUFFICES ASSUME NEW m \in 0 .. n PROVE c[m] \in X
    OBVIOUS
  <2> DEFINE C == {k \in 0 .. n : c[k] \in X}
  <2>1. 0 \in C
    BY <1>1, <1>4, <1>11
  <2>2. ASSUME NEW k \in 0 .. m - 1, k \in C PROVE k + 1 \in C
    <3>1. k + 1 \in 1 .. n /\ (k + 1) - 1 = k /\ k + 1 \in 0 .. n /\ c[k] \in X
      BY <1>1, <2>2
    <3>2. c[k + 1] = Note(c[k], after, turns[k + 1])
      BY <1>11, <3>1
    <3> QED
      BY <1>2, <1>9, <3>1, <3>2
  <2>3. m \in Nat
    BY <1>1
  <2> HIDE DEF C
  <2>4. m \in C
    BY <2>1, <2>2, <2>3, CountingInduction
  <2> QED
    BY <2>4 DEF C
<1>13. c \in [0 .. n -> X]
  BY <1>11, <1>12
<1> QED
  BY <1>9, <1>10, <1>11, <1>13 DEF Noting

\* A symbol's position is that before the cycle until its turn, and that after it from then on.
LEMMA BeforeTurn ==
  ASSUME Walking, NEW turns, NEW n, Visits(turns, n), NEW signals, NEW h, Cycling(h, turns, signals, n),
         NEW m \in 0 .. n, NEW t \in Tradables, \A j \in 1 .. m : turns[j] # t
  PROVE  h[m].qty[t] = desk.qty[t] /\ h[m].avg[t] = desk.avg[t]
<1> DEFINE C == {k \in 0 .. m : h[k].qty[t] = desk.qty[t] /\ h[k].avg[t] = desk.avg[t]}
<1>1. n \in Nat /\ m \in Nat /\ m <= n /\ \A k \in 1 .. n : turns[k] \in Active
  BY DEF Visits
<1>2. 0 \in C
  BY <1>1 DEF Cycling
<1>3. ASSUME NEW k \in 0 .. m - 1, k \in C PROVE k + 1 \in C
  <2>1. k + 1 \in 1 .. n /\ k + 1 \in 1 .. m /\ k + 1 \in 0 .. m /\ (k + 1) - 1 = k /\ k \in 0 .. n
    BY <1>1
  <2> DEFINE a == turns[k + 1]
             d == h[k]
             e == Trade(d, a, signals[a])
  <2>2. h[k + 1] = e /\ d \in Desks /\ a \in Active /\ a # t
    BY <1>1, <2>1 DEF Cycling
  <2>3. \A u \in Tradables \ {a} : e.qty[u] = d.qty[u] /\ e.avg[u] = d.avg[u]
    BY <2>2, TradeTouches
  <2>4. d.qty[t] = desk.qty[t] /\ d.avg[t] = desk.avg[t]
    BY <1>3
  <2> HIDE DEF a, d, e
  <2> QED
    BY <2>1, <2>2, <2>3, <2>4
<1> HIDE DEF C
<1>4. m \in C
  BY <1>1, <1>2, <1>3, CountingInduction
<1> QED
  BY <1>4 DEF C

LEMMA AfterTurn ==
  ASSUME Walking, NEW turns, NEW n, Visits(turns, n), NEW signals, NEW h, Cycling(h, turns, signals, n),
         NEW j \in 1 .. n
  PROVE  h[n].qty[turns[j]] = h[j].qty[turns[j]]
<1> DEFINE t == turns[j]
           C == {k \in 0 .. n : k >= j => h[k].qty[t] = h[j].qty[t]}
<1>1. n \in Nat /\ (\A k \in 1 .. n : turns[k] \in Active) /\ t \in Tradables
      /\ \A i, k \in 1 .. n : turns[i] = turns[k] => i = k
  BY DEF Visits, Walking, AlignedTyped
<1>2. 0 \in C
  BY <1>1
<1>3. ASSUME NEW k \in 0 .. n - 1, k \in C PROVE k + 1 \in C
  <2>1. k + 1 \in 1 .. n /\ k + 1 \in 0 .. n /\ (k + 1) - 1 = k /\ k \in 0 .. n
    BY <1>1
  <2>2. CASE k + 1 > j
    <3> DEFINE a == turns[k + 1]
               d == h[k]
               e == Trade(d, a, signals[a])
    <3>1. h[k + 1] = e /\ d \in Desks /\ a \in Active /\ a # t
      BY <1>1, <2>1, <2>2 DEF Cycling
    <3>2. \A u \in Tradables \ {a} : e.qty[u] = d.qty[u] /\ e.avg[u] = d.avg[u]
      BY <3>1, TradeTouches
    <3>3. d.qty[t] = h[j].qty[t]
      BY <1>1, <1>3, <2>1, <2>2
    <3> HIDE DEF a, d, e
    <3>4. h[k + 1].qty[t] = h[j].qty[t]
      BY <1>1, <3>1, <3>2, <3>3
    <3> QED
      BY <2>1, <3>4
  <2>3. CASE k + 1 = j
    BY <2>1, <2>3
  <2>4. CASE k + 1 < j
    BY <1>1, <2>1, <2>4
  <2> QED
    BY <1>1, <2>1, <2>2, <2>3, <2>4
<1> HIDE DEF C
<1>4. n \in C
  BY <1>1, <1>2, <1>3, CountingInduction
<1> QED
  BY <1>1, <1>4 DEF C

\* A cycle keeps the books of a desk that is long.
LEMMA CycleBooked ==
  ASSUME Walking, ~Shorts, Long(desk), Booked(desk, desk.realized),
         NEW turns, NEW n, Visits(turns, n), NEW signals, NEW h, Cycling(h, turns, signals, n),
         NEW r, Noting(r, turns, h[n], n)
  PROVE  Long(h[n]) /\ Booked(h[n], r[n])
<1> DEFINE C == {k \in 0 .. n : Long(h[k]) /\ Booked(h[k], r[k])}
<1>1. n \in Nat /\ (\A k \in 1 .. n : turns[k] \in Active) /\ Active \subseteq Tradables
      /\ \A i, k \in 1 .. n : turns[i] = turns[k] => i = k
  BY DEF Visits, Walking, AlignedTyped
<1>2. 0 \in C
  BY <1>1 DEF Cycling, Noting
<1>3. ASSUME NEW k \in 0 .. n - 1, k \in C PROVE k + 1 \in C
  <2>1. k + 1 \in 1 .. n /\ k + 1 \in 0 .. n /\ (k + 1) - 1 = k /\ k \in 0 .. n /\ k \in Nat
    BY <1>1
  <2> DEFINE s == turns[k + 1]
             d == h[k]
             q == r[k]
             signal == signals[s]
             after == h[n]
  <2>2. h[k + 1] = Trade(d, s, signal) /\ d \in Desks /\ s \in Active
    BY <1>1, <2>1 DEF Cycling
  <2>3. r[k + 1] = Note(q, after, s) /\ q \in Seq(Int)
    BY <2>1 DEF Noting
  <2>4. d.qty[s] = desk.qty[s] /\ d.avg[s] = desk.avg[s]
    <3>1. \A i \in 1 .. k : turns[i] # s
      BY <1>1, <2>1
    <3>2. s \in Tradables
      BY <1>1, <2>2
    <3> HIDE DEF s
    <3> QED
      BY <2>1, <3>1, <3>2, BeforeTurn
  <2>5. after.qty[s] = h[k + 1].qty[s]
    BY <2>1, AfterTurn
  <2>6. Long(d) /\ Booked(d, q)
    BY <1>3
  <2> HIDE DEF s, d, q, signal, after
  <2>7. after.qty[s] = Trade(d, s, signal).qty[s]
    BY <2>2, <2>5
  <2>8. Long(Trade(d, s, signal)) /\ Booked(Trade(d, s, signal), Note(q, after, s))
    BY <2>2, <2>3, <2>4, <2>6, <2>7, TradeBooked
  <2> QED
    BY <2>1, <2>2, <2>3, <2>8
<1> HIDE DEF C
<1>4. n \in C
  BY <1>1, <1>2, <1>3, CountingInduction
<1> QED
  BY <1>4 DEF C

-----------------------------------------------------------------------------
\* The bar.
LEMMA EquityInt ==
  ASSUME NEW d \in Desks
  PROVE  Equity(d) \in Int
<1> DEFINE f == [s \in Tradables |-> d.qty[s] * (IF d.mark[s] = 0 THEN d.avg[s] ELSE d.mark[s])]
<1>0. \A x \in Int : \A y \in Int : x * y \in Int
  OBVIOUS
<1>1. DOMAIN f = Tradables /\ \A s \in Tradables : f[s] \in Int
  <2> SUFFICES ASSUME NEW s \in Tradables PROVE f[s] \in Int
    OBVIOUS
  <2>1. d.qty[s] \in Int /\ (IF d.mark[s] = 0 THEN d.avg[s] ELSE d.mark[s]) \in Int
    BY DeskFields
  <2> QED
    BY <1>0, <2>1
<1> HIDE DEF f
<1>2. SumFunction(f) \in Int
  BY <1>1, BacktestAssumption, SumOverInt
<1> QED
  BY <1>2, DeskFields DEF Equity, f

\* The desk after the cycle, with the marks of the bar and the notes.
Marked(d, after, realized) ==
  d = [after EXCEPT !.mark = [s \in Tradables |-> IF s \in Active THEN PriceNow(s) ELSE @[s]], !.realized = realized]

LEMMA MarkedIs ==
  ASSUME Walking, NEW after \in Desks, NEW realized \in Seq(Int), NEW d, Marked(d, after, realized)
  PROVE  /\ d \in Desks /\ d.realized = realized /\ \A s \in Active : d.mark[s] # 0
         /\ \A s \in Tradables : d.qty[s] = after.qty[s]
         /\ Long(after) => Long(d)
         /\ Booked(after, realized) => Booked(d, realized)
<1> DEFINE marks == [s \in Tradables |-> IF s \in Active THEN PriceNow(s) ELSE after.mark[s]]
<1>1. /\ after.cash \in Int /\ after.orders \in Nat
      /\ after.qty \in [Tradables -> Int] /\ after.avg \in [Tradables -> Nat] /\ after.mark \in [Tradables -> Nat]
  BY DeskFields
<1>2. \A s \in Active : PriceNow(s) \in Nat \ {0} /\ s \in Tradables
  BY PriceNowIs
<1>3. marks \in [Tradables -> Nat] /\ \A s \in Active : marks[s] # 0
  BY <1>1, <1>2
<1>4. d = [cash |-> after.cash, qty |-> after.qty, avg |-> after.avg, mark |-> marks, orders |-> after.orders,
           realized |-> realized]
  BY DEF Marked, Desks
<1> HIDE DEF marks
<1>5. d \in Desks /\ d.realized = realized /\ \A s \in Active : d.mark[s] # 0
  BY <1>1, <1>3, <1>4 DEF Desks
<1>6. d.qty = after.qty /\ d.avg = after.avg /\ d.cash = after.cash /\ d.orders = after.orders
  BY <1>4
<1>7. Cost(d) = Cost(after) /\ Held(d) = Held(after) /\ (Long(after) => Long(d))
  BY <1>6 DEF Cost, Held, Long
<1> QED
  BY <1>5, <1>6, <1>7 DEF Booked

LEMMA WalkBarHolds ==
  ASSUME BacktestInv, NEW turns \in ScoreOrders, NEW signals, WalkBar(turns, signals)
  PROVE  BacktestInv'
<1> DEFINE n == Len(turns)
           after == Cycled(turns, signals)
           notes == Noted(turns, after)
<1>1. Walking
  BY DEF BacktestInv, WalkBar, Walking
<1>2. Visits(turns, n)
  BY OrderVisits DEF BacktestInv
<1>3. /\ Marked(desk', after, notes) /\ curve' = Append(curve, Equity(desk)')
      /\ barIndex' = barIndex + 1 /\ aligned' = aligned /\ result' = result /\ barIndex < SpanOf(aligned)
  BY DEF WalkBar, Marked, PriceNow, Equity
<1> HIDE DEF after, notes, n
<1>4. PICK h : Cycling(h, turns, signals, n)
  BY <1>1, <1>2, CycleExists
<1>5. after = h[n] /\ after \in Desks /\ n \in Nat /\ n \in 0 .. n
  BY <1>2, <1>4 DEF Cycling, Visits, after
<1>6. PICK r : Noting(r, turns, after, n)
  BY <1>1, <1>2, <1>5, NotesExist
<1>7. notes = r[n] /\ notes \in Seq(Int)
  BY <1>5, <1>6 DEF Noting, notes
<1>8. /\ desk' \in Desks /\ desk'.realized = notes /\ \A s \in Active : desk'.mark[s] # 0
      /\ \A s \in Tradables : desk'.qty[s] = after.qty[s]
      /\ Long(after) => Long(desk')
      /\ Booked(after, notes) => Booked(desk', notes)
  <2> DEFINE d == desk'
  <2>1. Marked(d, after, notes)
    BY <1>3
  <2> HIDE DEF d
  <2>2. /\ d \in Desks /\ d.realized = notes /\ \A s \in Active : d.mark[s] # 0
        /\ \A s \in Tradables : d.qty[s] = after.qty[s]
        /\ Long(after) => Long(d)
        /\ Booked(after, notes) => Booked(d, notes)
    BY <1>1, <1>5, <1>7, <2>1, MarkedIs
  <2> QED
    BY <2>2 DEF d
<1>9. AlignedTyped' /\ Active' = Active /\ SpanOf(aligned)' = SpanOf(aligned)
  BY <1>1, <1>3 DEF Walking, AlignedTyped, Active, SpanOf
<1>10. Equity(desk)' \in Int
  <2> DEFINE d == desk'
  <2>1. d \in Desks
    BY <1>8
  <2> HIDE DEF d
  <2>2. Equity(d) \in Int
    BY <2>1, EquityInt
  <2> QED
    BY <2>2 DEF d, Equity
<1>11. WalkTyped'
  <2>1. ASSUME NEW t \in Tradables \ Active PROVE desk'.qty[t] = 0
    <3>1. \A j \in 1 .. n : turns[j] # t
      BY <1>2, <2>1 DEF Visits
    <3>2. h[n].qty[t] = desk.qty[t]
      BY <1>1, <1>2, <1>4, <1>5, <3>1, BeforeTurn
    <3> QED
      BY <1>1, <1>5, <1>8, <3>2 DEF Walking, WalkTyped
  <2> DEFINE span == SpanOf(aligned)
             x == Equity(desk)'
  <2>2. /\ barIndex \in 0 .. span /\ span \in Nat \ {0} /\ barIndex < span /\ curve \in Seq(Int)
        /\ Len(curve) = barIndex
    BY <1>1 DEF Walking, AlignedTyped, WalkTyped
  <2>3. x \in Int /\ curve' = Append(curve, x)
    BY <1>3, <1>10
  <2>4. span' = span
    BY <1>9
  <2> HIDE DEF span, x
  <2>5. curve' \in Seq(Int) /\ Len(curve') = barIndex' /\ barIndex' \in 0 .. span
    BY <1>3, <2>2, <2>3
  <2> QED
    BY <1>8, <1>9, <2>1, <2>4, <2>5 DEF WalkTyped, span
<1>12. Reported'
  <2>1. result = <<>>
    BY <1>1, <1>3 DEF BacktestInv, Reported, Walking, AlignedTyped, WalkTyped
  <2> QED
    BY <1>3, <2>1 DEF Reported
<1>13. ~Shorts => Long(desk)' /\ Booked(desk, desk.realized)'
  <2>1. SUFFICES ASSUME ~Shorts PROVE Long(desk') /\ Booked(desk', desk'.realized)
    BY <2>1 DEF Long, Booked, Cost, Held
  <2>2. Long(desk) /\ Booked(desk, desk.realized)
    BY <2>1 DEF BacktestInv
  <2>3. Noting(r, turns, h[n], n)
    BY <1>5, <1>6
  <2>4. Long(h[n]) /\ Booked(h[n], r[n])
    BY <1>1, <1>2, <1>4, <2>1, <2>2, <2>3, CycleBooked
  <2> QED
    BY <1>5, <1>7, <1>8, <2>4
<1>14. Last(curve)' = Equity(desk)'
  <2> DEFINE x == Equity(desk)'
  <2>1. curve \in Seq(Int) /\ x \in Int /\ curve' = Append(curve, x)
    BY <1>1, <1>3, <1>10 DEF Walking, WalkTyped
  <2> HIDE DEF x
  <2>2. curve'[Len(curve')] = x
    BY <2>1
  <2> QED
    BY <2>2 DEF Last, x
<1> QED
  BY <1>8, <1>9, <1>11, <1>12, <1>13, <1>14 DEF BacktestInv

-----------------------------------------------------------------------------
\* The worst fall of a curve.
Worsts == [peak : Int, drop : Nat, of : Nat \ {0}]
NoFall(equity) == [peak |-> equity[1], drop |-> 0, of |-> 1]

\* A fall counts from the peak, when it is the worst.
LEMMA FallenIs ==
  ASSUME NEW w \in Worsts, NEW e \in Int, NEW peak, peak = IF e > w.peak THEN e ELSE w.peak
  PROVE  /\ peak \in Int /\ e <= peak /\ peak - e \in Nat /\ w.peak <= peak
         /\ Fallen(w, e) = IF peak > 0 /\ (peak - e) * w.of > w.drop * peak
                           THEN [peak |-> peak, drop |-> peak - e, of |-> peak]
                           ELSE [peak |-> peak, drop |-> w.drop, of |-> w.of]
<1>1. w.peak \in Int /\ w = [peak |-> w.peak, drop |-> w.drop, of |-> w.of]
  BY DEF Worsts
<1>2. peak \in Int /\ e <= peak /\ peak - e \in Nat /\ w.peak <= peak
  BY <1>1
<1>3. [w EXCEPT !.peak = peak] = [peak |-> peak, drop |-> w.drop, of |-> w.of]
  BY <1>1
<1>4. Fallen(w, e) = IF peak > 0 /\ (peak - e) * w.of > w.drop * peak
                     THEN [peak |-> peak, drop |-> peak - e, of |-> peak] ELSE [w EXCEPT !.peak = peak]
  BY DEF Fallen
<1> QED
  BY <1>2, <1>3, <1>4

LEMMA FallenType ==
  ASSUME NEW w \in Worsts, NEW e \in Int
  PROVE  Fallen(w, e) \in Worsts
<1> DEFINE peak == IF e > w.peak THEN e ELSE w.peak
<1>1. w.drop \in Nat /\ w.of \in Nat \ {0}
  BY DEF Worsts
<1>4. peak = IF e > w.peak THEN e ELSE w.peak
  OBVIOUS
<1> HIDE DEF peak
<1>2. peak \in Int /\ e <= peak /\ peak - e \in Nat
  BY <1>4, FallenIs
<1>3. Fallen(w, e) = IF peak > 0 /\ (peak - e) * w.of > w.drop * peak
                     THEN [peak |-> peak, drop |-> peak - e, of |-> peak]
                     ELSE [peak |-> peak, drop |-> w.drop, of |-> w.of]
  BY <1>4, FallenIs
<1> QED
  BY <1>1, <1>2, <1>3 DEF Worsts

IsWorst(h, equity) ==
  h = [k \in 0 .. Len(equity) |->
         IF k = 0 THEN [peak |-> equity[1], drop |-> 0, of |-> 1] ELSE Fallen(h[k - 1], equity[k])]

LEMMA WorstIs ==
  ASSUME NEW equity
  PROVE  MaxDrawdown(equity) = (CHOOSE h : IsWorst(h, equity))[Len(equity)]
  BY DEF MaxDrawdown, IsWorst

Worsening(h, equity, n) ==
  /\ h \in [0 .. n -> Worsts] /\ h[0] = NoFall(equity)
  /\ \A k \in 1 .. n : h[k] = Fallen(h[k - 1], equity[k])
  /\ MaxDrawdown(equity) = h[n]

LEMMA WorstExists ==
  ASSUME NEW equity \in Seq(Int), NEW n, n = Len(equity), n # 0
  PROVE  \E h : Worsening(h, equity, n)
<1> DEFINE step == [k \in 1 .. n |-> [w \in Worsts |-> Fallen(w, equity[k])]]
<1>1. n \in Nat /\ n = Len(equity) /\ 1 \in 1 .. n /\ \A k \in 1 .. n : equity[k] \in Int
  OBVIOUS
<1>2. \A k \in 1 .. n : \A w \in Worsts : Fallen(w, equity[k]) \in Worsts
  BY <1>1, FallenType
<1> DEFINE X == Worsts
<1>9. X = Worsts
  OBVIOUS
<1>3. step \in [1 .. n -> [X -> X]] /\ \A k \in 1 .. n : \A w \in X : step[k][w] = Fallen(w, equity[k])
  BY <1>2
<1>4. NoFall(equity) \in X
  BY <1>1 DEF NoFall, Worsts
<1> HIDE DEF step, X
<1>5. PICK h \in [0 .. n -> X] : h[0] = NoFall(equity) /\ \A k \in 1 .. n : h[k] = step[k][h[k - 1]]
  <2> DEFINE base == NoFall(equity)
  <2>1. Recursion(n, X, base, step)
    BY <1>1, <1>3, <1>4 DEF Recursion
  <2> HIDE DEF base
  <2>2. \E h \in [0 .. n -> X] : h[0] = base /\ \A k \in 1 .. n : h[k] = step[k][h[k - 1]]
    BY <2>1, RecursionExists
  <2> QED
    BY <2>2 DEF base
<1>6. \A k \in 1 .. n : h[k] = Fallen(h[k - 1], equity[k])
  <2> SUFFICES ASSUME NEW k \in 1 .. n PROVE h[k] = Fallen(h[k - 1], equity[k])
    OBVIOUS
  <2>2. k - 1 \in 0 .. n
    BY <1>1
  <2>1. k - 1 \in 0 .. n /\ h[k - 1] \in X
    BY <1>5, <2>2
  <2> QED
    BY <1>3, <1>5, <2>1
<1>7. IsWorst(h, equity)
  BY <1>1, <1>5, <1>6 DEF IsWorst, NoFall
<1> DEFINE c == CHOOSE g : IsWorst(g, equity)
<1>8. IsWorst(c, equity)
  BY <1>7
<1>10. MaxDrawdown(equity) = c[n]
  BY <1>1, WorstIs
<1> HIDE DEF c
<1>11. /\ DOMAIN c = 0 .. n /\ c[0] = NoFall(equity) /\ c = [k \in 0 .. n |-> c[k]]
       /\ \A k \in 1 .. n : c[k] = Fallen(c[k - 1], equity[k])
  BY <1>1, <1>8 DEF IsWorst, NoFall
<1>12. \A k \in 0 .. n : c[k] \in X
  <2> SUFFICES ASSUME NEW m \in 0 .. n PROVE c[m] \in X
    OBVIOUS
  <2> DEFINE C == {k \in 0 .. n : c[k] \in X}
  <2>1. 0 \in C
    BY <1>1, <1>4, <1>11
  <2>2. ASSUME NEW k \in 0 .. m - 1, k \in C PROVE k + 1 \in C
    <3>1. k + 1 \in 1 .. n /\ (k + 1) - 1 = k /\ k + 1 \in 0 .. n /\ c[k] \in X
      BY <1>1, <2>2
    <3>2. c[k + 1] = Fallen(c[k], equity[k + 1])
      BY <1>11, <3>1
    <3> QED
      BY <1>2, <1>9, <3>1, <3>2
  <2>3. m \in Nat
    BY <1>1
  <2> HIDE DEF C
  <2>4. m \in C
    BY <2>1, <2>2, <2>3, CountingInduction
  <2> QED
    BY <2>4 DEF C
<1>13. c \in [0 .. n -> X]
  BY <1>11, <1>12
<1> QED
  BY <1>9, <1>10, <1>11, <1>13 DEF Worsening

\* A later equity falls from an earlier one, or from the highest so far when it is negative.
Falls(c, i, j) == c[i] > 0 /\ (c[j] >= 0 \/ \A h \in 1 .. j : c[h] <= c[i])

WorstSoFar(c, k, w) ==
  /\ w \in Worsts
  /\ k = 0 => w.peak = c[1] /\ w.drop = 0
  /\ \A j \in 1 .. k : c[j] <= w.peak
  /\ k # 0 => \E m \in 1 .. k : w.peak = c[m]
  /\ \A j \in 1 .. k : \A i \in 1 .. j : Falls(c, i, j) => (c[i] - c[j]) * w.of <= w.drop * c[i]
  /\ w.drop > 0 => \E j \in 1 .. k : \E i \in 1 .. j : c[i] = w.of /\ c[i] - c[j] = w.drop

\* Two falls, as fractions, and one between them.
LEMMA FallsCompare ==
  ASSUME NEW a \in Int, NEW c \in Int, NEW drop \in Int, NEW of \in Int, NEW f \in Int, NEW p \in Int,
         c > 0, of > 0, p >= 0, a * of <= drop * c, drop * p <= f * of
  PROVE  a * p <= f * c
<1>1. \A x \in Int : \A y \in Int : \A z \in Int : x <= y /\ z >= 0 => x * z <= y * z
  OBVIOUS
<1>2. \A x \in Int : \A y \in Int : \A z \in Int : x > y /\ z > 0 => x * z > y * z
  OBVIOUS
<1>3. \A x \in Int : \A y \in Int : x * y \in Int
  OBVIOUS
<1>4. (a * of) * p <= (drop * c) * p /\ (drop * p) * c <= (f * of) * c
  BY <1>1, <1>3
<1>5. (a * p) * of <= (f * c) * of
  <2>1. \A x \in Int : \A y \in Int : \A z \in Int : (x * y) * z = (x * z) * y
    OBVIOUS
  <2>2. (a * of) * p = (a * p) * of /\ (drop * c) * p = (drop * p) * c /\ (f * of) * c = (f * c) * of
    BY <2>1
  <2>3. (a * of) * p \in Int /\ (drop * c) * p \in Int /\ (f * of) * c \in Int
    BY <1>3
  <2> QED
    BY <1>4, <2>2, <2>3
<1>6. a * p \in Int /\ f * c \in Int
  BY <1>3
<1> DEFINE x == a * p
           y == f * c
<1> HIDE DEF x, y
<1>7. x \in Int /\ y \in Int /\ x * of <= y * of
  BY <1>5, <1>6 DEF x, y
<1>8. x <= y
  <2>1. x * of \in Int /\ y * of \in Int
    BY <1>3, <1>7
  <2> QED
    BY <1>2, <1>7, <2>1
<1> QED
  BY <1>8 DEF x, y

\* What falls from a price below the peak falls no further than from the peak.
LEMMA PeakFallsMost ==
  ASSUME NEW x \in Int, NEW e \in Int, NEW peak \in Int, x > 0, x <= peak, e >= 0 \/ x = peak
  PROVE  (x - e) * peak <= (peak - e) * x
<1>1. (x - e) * peak = x * peak - e * peak /\ (peak - e) * x = x * peak - e * x
  OBVIOUS
<1>2. e >= 0 => e * x <= e * peak
  <2>1. \A a \in Int : \A b \in Int : \A z \in Int : a <= b /\ z >= 0 => z * a <= z * b
    OBVIOUS
  <2> QED
    BY <2>1
<1>3. e * x \in Int /\ e * peak \in Int /\ x * peak \in Int
  <2>1. \A a \in Int : \A b \in Int : a * b \in Int
    OBVIOUS
  <2> QED
    BY <2>1
<1>4. CASE e >= 0
  BY <1>1, <1>2, <1>3, <1>4
<1>5. CASE x = peak
  BY <1>1, <1>3, <1>5
<1> QED
  BY <1>4, <1>5

LEMMA FallenHolds ==
  ASSUME NEW c \in Seq(Int), NEW k \in Nat, k + 1 <= Len(c), NEW w, WorstSoFar(c, k, w)
  PROVE  WorstSoFar(c, k + 1, Fallen(w, c[k + 1]))
<1> DEFINE n == k + 1
           e == c[n]
           peak == IF e > w.peak THEN e ELSE w.peak
           v == Fallen(w, e)
<1>1. w \in Worsts /\ w.peak \in Int /\ w.drop \in Nat /\ w.of \in Nat \ {0}
  BY DEF WorstSoFar, Worsts
<1>2. /\ n \in 1 .. Len(c) /\ 1 .. n = (1 .. k) \cup {n} /\ n # 0
      /\ \A j \in 1 .. n : c[j] \in Int
  OBVIOUS
<1>3. e \in Int /\ peak \in Int /\ e <= peak /\ peak - e \in Nat /\ w.peak <= peak
  BY <1>1, <1>2
<1>14. peak = IF e > w.peak THEN e ELSE w.peak
  OBVIOUS
<1> HIDE DEF e, peak
<1>15. Fallen(w, e) = IF peak > 0 /\ (peak - e) * w.of > w.drop * peak
                      THEN [peak |-> peak, drop |-> peak - e, of |-> peak]
                      ELSE [peak |-> peak, drop |-> w.drop, of |-> w.of]
  BY <1>1, <1>3, <1>14, FallenIs
<1>4. v = IF peak > 0 /\ (peak - e) * w.of > w.drop * peak
          THEN [peak |-> peak, drop |-> peak - e, of |-> peak]
          ELSE [peak |-> peak, drop |-> w.drop, of |-> w.of]
  BY <1>15
<1> USE DEF e, peak
<1>5. v \in Worsts
  BY <1>1, <1>3, FallenType
<1>6. v.peak = peak
  BY <1>4
<1>7. \A j \in 1 .. n : c[j] <= peak
  <2>1. \A j \in 1 .. k : c[j] <= w.peak
    BY DEF WorstSoFar
  <2>2. \A j \in 1 .. k : c[j] <= peak
    BY <1>1, <1>2, <1>3, <2>1
  <2> QED
    BY <1>2, <1>3, <2>2
<1>8. PICK m \in 1 .. n : peak = c[m]
  <2>1. CASE k = 0
    BY <1>2, <2>1 DEF WorstSoFar
  <2>2. CASE k # 0
    BY <1>2, <2>2 DEF WorstSoFar
  <2> QED
    BY <2>1, <2>2
<1>9. \A i \in 1 .. n : Falls(c, i, n) => peak > 0 /\ (c[i] - e) * peak <= (peak - e) * c[i]
  <2> SUFFICES ASSUME NEW i \in 1 .. n, Falls(c, i, n)
               PROVE  peak > 0 /\ (c[i] - e) * peak <= (peak - e) * c[i]
    OBVIOUS
  <2>1. c[i] \in Int /\ c[i] > 0 /\ c[i] <= peak
    BY <1>2, <1>7 DEF Falls
  <2>2. e >= 0 \/ c[i] = peak
    <3>1. c[n] >= 0 \/ \A h \in 1 .. n : c[h] <= c[i]
      BY DEF Falls
    <3>2. c[m] \in Int
      BY <1>2, <1>8
    <3> QED
      BY <1>8, <2>1, <3>1, <3>2
  <2> DEFINE x == c[i]
  <2> HIDE DEF x, e, peak
  <2>3. x \in Int /\ x > 0 /\ x <= peak /\ (e >= 0 \/ x = peak) /\ e \in Int /\ peak \in Int
    BY <1>3, <2>1, <2>2 DEF x
  <2>4. (x - e) * peak <= (peak - e) * x
    BY <2>3, PeakFallsMost
  <2> QED
    BY <2>3, <2>4 DEF x
<1>10. \A j \in 1 .. k : \A i \in 1 .. j : Falls(c, i, j) => (c[i] - c[j]) * w.of <= w.drop * c[i]
  BY DEF WorstSoFar
<1>11. \A j \in 1 .. n : \A i \in 1 .. j : i \in 1 .. n /\ c[i] \in Int /\ c[j] \in Int
  BY <1>2
<1> HIDE DEF e, peak
<1>12. CASE peak > 0 /\ (peak - e) * w.of > w.drop * peak
  <2>1. v = [peak |-> peak, drop |-> peak - e, of |-> peak]
    BY <1>4, <1>12
  <2>2. v.drop = peak - e /\ v.of = peak
    BY <2>1
  <2>3. ASSUME NEW j \in 1 .. n, NEW i \in 1 .. j, Falls(c, i, j)
        PROVE  (c[i] - c[j]) * v.of <= v.drop * c[i]
    <3>1. CASE j = n
      BY <1>9, <1>11, <2>2, <2>3, <3>1 DEF e
    <3>2. CASE j \in 1 .. k
      <4> DEFINE x == c[i]
                 a == c[i] - c[j]
                 f == peak - e
      <4>1. x \in Int /\ x > 0 /\ a \in Int
        BY <1>11, <2>3 DEF Falls
      <4>2. a * w.of <= w.drop * x
        BY <1>10, <2>3, <3>2
      <4>3. w.drop * peak <= f * w.of /\ f \in Int /\ peak >= 0
        <5>1. \A p \in Int : \A q \in Int : p * q \in Int
          OBVIOUS
        <5>2. f \in Int
          BY <1>3
        <5>3. f * w.of \in Int /\ w.drop * peak \in Int
          BY <1>1, <1>3, <5>1, <5>2
        <5> QED
          BY <1>3, <1>12, <5>2, <5>3
      <4> DEFINE d == w.drop
                 o == w.of
      <4>4. d \in Int /\ o \in Int /\ o > 0
        BY <1>1
      <4>5. a * o <= d * x /\ d * peak <= f * o
        BY <4>2, <4>3
      <4> HIDE DEF x, a, f, d, o
      <4>6. a * peak <= f * x
        BY <1>3, <4>1, <4>3, <4>4, <4>5, FallsCompare
      <4> QED
        BY <2>2, <4>6 DEF x, a, f
    <3> QED
      BY <1>2, <3>1, <3>2
  <2>4. \E j \in 1 .. n : \E i \in 1 .. j : c[i] = v.of /\ c[i] - c[j] = v.drop
    BY <1>2, <1>8, <2>2 DEF e
  <2> HIDE DEF v, n
  <2>5. n # 0 /\ v.peak = peak /\ (\E j \in 1 .. n : v.peak = c[j]) /\ \A j \in 1 .. n : c[j] <= v.peak
    BY <1>2, <1>6, <1>7, <1>8
  <2>6. WorstSoFar(c, n, v)
    BY <1>5, <2>3, <2>4, <2>5 DEF WorstSoFar
  <2> QED
    BY <2>6 DEF v, n, e
<1>13. CASE ~(peak > 0 /\ (peak - e) * w.of > w.drop * peak)
  <2>1. v = [peak |-> peak, drop |-> w.drop, of |-> w.of]
    BY <1>4, <1>13
  <2>2. v.drop = w.drop /\ v.of = w.of
    BY <2>1
  <2>3. ASSUME NEW j \in 1 .. n, NEW i \in 1 .. j, Falls(c, i, j)
        PROVE  (c[i] - c[j]) * v.of <= v.drop * c[i]
    <3>1. CASE j = n
      <4> DEFINE x == c[i]
                 a == c[i] - e
                 f == peak - e
                 d == w.drop
                 o == w.of
      <4>1. x \in Int /\ x > 0 /\ a \in Int /\ peak > 0 /\ a * peak <= f * x /\ f \in Int
        BY <1>3, <1>9, <1>11, <2>3, <3>1 DEF Falls
      <4>2. d \in Int /\ o \in Int /\ o >= 0
        BY <1>1
      <4>3. f * o <= d * peak
        <5>1. \A p \in Int : \A q \in Int : p * q \in Int
          OBVIOUS
        <5>2. f * o \in Int /\ d * peak \in Int
          BY <1>3, <4>1, <4>2, <5>1
        <5> QED
          BY <1>13, <4>1, <5>2
      <4>5. (c[i] - c[j]) = a
        BY <3>1 DEF e
      <4> HIDE DEF x, a, f, d, o
      <4>4. a * o <= d * x
        BY <1>3, <4>1, <4>2, <4>3, FallsCompare
      <4> QED
        BY <2>2, <4>4, <4>5 DEF x, d, o
    <3>2. CASE j \in 1 .. k
      BY <1>10, <2>2, <2>3, <3>2
    <3> QED
      BY <1>2, <3>1, <3>2
  <2>4. v.drop > 0 => \E j \in 1 .. n : \E i \in 1 .. j : c[i] = v.of /\ c[i] - c[j] = v.drop
    <3>1. w.drop > 0 => \E j \in 1 .. k : \E i \in 1 .. j : c[i] = w.of /\ c[i] - c[j] = w.drop
      BY DEF WorstSoFar
    <3> QED
      BY <1>2, <2>2, <3>1
  <2> HIDE DEF v, n
  <2>5. n # 0 /\ v.peak = peak /\ (\E j \in 1 .. n : v.peak = c[j]) /\ \A j \in 1 .. n : c[j] <= v.peak
    BY <1>2, <1>6, <1>7, <1>8
  <2>6. WorstSoFar(c, n, v)
    BY <1>5, <2>3, <2>4, <2>5 DEF WorstSoFar
  <2> QED
    BY <2>6 DEF v, n, e
<1> QED
  BY <1>12, <1>13

LEMMA DrawdownIs ==
  ASSUME NEW c \in Seq(Int), c # <<>>
  PROVE  WorstSoFar(c, Len(c), MaxDrawdown(c))
<1> DEFINE n == Len(c)
<1>1. n \in Nat /\ n # 0 /\ n = Len(c) /\ c[1] \in Int
  OBVIOUS
<1> HIDE DEF n
<1>2. PICK h : Worsening(h, c, n)
  BY <1>1, WorstExists
<1> DEFINE C == {k \in 0 .. n : WorstSoFar(c, k, h[k])}
<1>3. 0 \in C
  <2>1. h[0] = NoFall(c) /\ NoFall(c) \in Worsts
    BY <1>1, <1>2 DEF Worsening, NoFall, Worsts
  <2>2. WorstSoFar(c, 0, h[0])
    BY <2>1 DEF WorstSoFar, NoFall
  <2> QED
    BY <1>1, <2>2
<1>4. ASSUME NEW k \in 0 .. n - 1, k \in C PROVE k + 1 \in C
  <2>1. k + 1 \in 1 .. n /\ k + 1 \in 0 .. n /\ (k + 1) - 1 = k /\ k \in Nat /\ k + 1 <= Len(c)
    BY <1>1
  <2>2. h[k + 1] = Fallen(h[k], c[k + 1])
    BY <1>2, <2>1 DEF Worsening
  <2> DEFINE w == h[k]
  <2>3. WorstSoFar(c, k, w)
    BY <1>4
  <2> HIDE DEF w
  <2>4. WorstSoFar(c, k + 1, Fallen(w, c[k + 1]))
    BY <2>1, <2>3, FallenHolds
  <2> QED
    BY <2>1, <2>2, <2>4 DEF w
<1> HIDE DEF C
<1>5. n \in C
  BY <1>1, <1>3, <1>4, CountingInduction
<1> QED
  BY <1>1, <1>2, <1>5 DEF C, Worsening

-----------------------------------------------------------------------------
LEMMA ReportHolds ==
  ASSUME BacktestInv, Report
  PROVE  BacktestInv'
<1>1. /\ barIndex = SpanOf(aligned) /\ UNCHANGED <<aligned, barIndex, desk, curve>>
      /\ result'[1].drop = MaxDrawdown(curve).drop /\ result'[1].of = MaxDrawdown(curve).of
      /\ result'[1].trades = desk.orders /\ result'[1].closed = Len(desk.realized)
  BY DEF Report
<1>2. Reported'
  BY <1>1 DEF Reported, SpanOf, MaxDrawdown
<1>3. AlignedTyped' /\ WalkTyped'
  BY <1>1 DEF BacktestInv, AlignedTyped, WalkTyped, Active, SpanOf
<1>4. (~Shorts => Long(desk) /\ Booked(desk, desk.realized))'
  BY <1>1 DEF BacktestInv, Long, Booked, Cost, Held
<1>5. (curve # <<>> => Last(curve) = Equity(desk) /\ \A s \in Active : desk.mark[s] # 0)'
  BY <1>1 DEF BacktestInv, Equity, Active, Last
<1> QED
  BY <1>2, <1>3, <1>4, <1>5 DEF BacktestInv

\* A desk begins with its cash.
LEMMA NewDeskIs ==
  ASSUME desk = NewDesk(InitialCash)
  PROVE  desk \in Desks /\ Long(desk) /\ Booked(desk, desk.realized) /\ \A s \in Tradables : desk.qty[s] = 0
<1>1. InitialCash \in Int
  BY BacktestAssumption
<1>2. /\ desk \in Desks /\ desk.realized = <<>> /\ desk.orders = 0 /\ desk.cash = InitialCash
      /\ \A s \in Tradables : desk.qty[s] = 0 /\ desk.avg[s] = 0
  BY <1>1 DEF NewDesk, Desks
<1>3. Cost(desk) = InitialCash
  <2> DEFINE f == [s \in Tradables |-> desk.qty[s] * desk.avg[s]]
  <2>1. DOMAIN f = Tradables /\ \A s \in Tradables : f[s] = 0
    BY <1>2
  <2> HIDE DEF f
  <2>2. SumFunction(f) = 0
    BY <2>1, BacktestAssumption, SumZero DEF SumFunction
  <2> QED
    BY <1>1, <1>2, <2>2 DEF Cost, f
<1>4. SumFunction(desk.realized) = 0
  <2>1. DOMAIN desk.realized = {}
    BY <1>2
  <2> QED
    BY <2>1, SumEmpty DEF SumFunction
<1>5. Held(desk) = {}
  BY <1>2 DEF Held
<1>6. Cardinality(Held(desk)) = 0
  BY <1>5, FS_EmptySet
<1> QED
  BY <1>1, <1>2, <1>3, <1>4, <1>6 DEF Long, Booked

LEMMA BacktestStarts ==
  ASSUME AlignedTyped, barIndex = 0, desk = NewDesk(InitialCash), curve = <<>>, result = <<>>
  PROVE  BacktestInv
<1>1. desk \in Desks /\ Long(desk) /\ Booked(desk, desk.realized) /\ \A s \in Tradables : desk.qty[s] = 0
  BY NewDeskIs
<1>2. WalkTyped
  <2>1. 0 \in 0 .. SpanOf(aligned)
    BY DEF AlignedTyped
  <2> QED
    BY <1>1, <2>1 DEF WalkTyped
<1> QED
  BY <1>1, <1>2 DEF BacktestInv, Reported

LEMMA BacktestBegins ==
  ASSUME BacktestInit
  PROVE  BacktestInv
<1>1. PICK source \in HistorySets : (\E s \in Tradables : source[s] # <<>>) /\ aligned = Align(source)
  BY DEF BacktestInit
<1>2. source \in [Tradables -> Seq(Nat \ {0})]
  BY BacktestAssumption
<1>3. AlignedTyped
  BY <1>1, <1>2, AlignIs
<1> QED
  BY <1>3, BacktestStarts DEF BacktestInit

LEMMA BacktestHolds ==
  ASSUME BacktestInv, [BacktestNext]_backtestVars
  PROVE  BacktestInv'
<1>1. ASSUME NEW turns \in ScoreOrders, NEW signals, WalkBar(turns, signals) PROVE BacktestInv'
  BY <1>1, WalkBarHolds
<1>2. CASE Report
  BY <1>2, ReportHolds
<1>3. CASE UNCHANGED backtestVars
  <2>1. UNCHANGED <<aligned, barIndex, desk, curve, result>>
    BY <1>3 DEF backtestVars
  <2>2. AlignedTyped' /\ WalkTyped' /\ Reported'
    BY <2>1 DEF BacktestInv, AlignedTyped, WalkTyped, Reported, Active, SpanOf, MaxDrawdown
  <2>3. (~Shorts => Long(desk) /\ Booked(desk, desk.realized))'
    BY <2>1 DEF BacktestInv, Long, Booked, Cost, Held
  <2>4. (curve # <<>> => Last(curve) = Equity(desk) /\ \A s \in Active : desk.mark[s] # 0)'
    BY <2>1 DEF BacktestInv, Equity, Active, Last
  <2> QED
    BY <2>2, <2>3, <2>4 DEF BacktestInv
<1> QED
  BY <1>1, <1>2, <1>3 DEF BacktestNext

LEMMA ExplainedFromInv ==
  ASSUME BacktestInv
  PROVE  BacktestTypeOK /\ BacktestExplained
<1>1. /\ AlignedTyped /\ WalkTyped /\ desk \in Desks /\ curve \in Seq(Int)
  BY DEF BacktestInv, WalkTyped
<1>2. BacktestTypeOK
  BY <1>1, DeskFields DEF BacktestTypeOK, WalkTyped
<1>3. EquityExplained
  <2> SUFFICES ASSUME ~Shorts, curve # <<>>
               PROVE  Last(curve) = InitialCash + SumFunction(desk.realized)
                        + SumFunction([s \in Tradables |-> desk.qty[s] * (desk.mark[s] - desk.avg[s])])
    BY DEF EquityExplained
  <2> DEFINE f == [s \in Tradables |-> desk.qty[s] * desk.avg[s]]
             g == [s \in Tradables |-> desk.qty[s] * (desk.mark[s] - desk.avg[s])]
             k == [s \in Tradables |-> desk.qty[s] * (IF desk.mark[s] = 0 THEN desk.avg[s] ELSE desk.mark[s])]
  <2>1. Last(curve) = desk.cash + SumFunction(k)
    BY DEF BacktestInv, Equity
  <2>2. desk.cash + SumFunction(f) = InitialCash + SumFunction(desk.realized)
    BY DEF BacktestInv, Booked, Cost
  <2>3. /\ DOMAIN f = Tradables /\ DOMAIN g = Tradables /\ DOMAIN k = Tradables
        /\ \A s \in Tradables : f[s] \in Int /\ g[s] \in Int /\ k[s] = f[s] + g[s]
    <3> SUFFICES ASSUME NEW s \in Tradables PROVE f[s] \in Int /\ g[s] \in Int /\ k[s] = f[s] + g[s]
      OBVIOUS
    <3> DEFINE q == desk.qty[s]
               a == desk.avg[s]
               m == desk.mark[s]
    <3>1. q \in Int /\ a \in Int /\ m \in Int
      BY <1>1, DeskFields
    <3>2. q = 0 \/ m # 0
      BY <1>1 DEF BacktestInv, WalkTyped
    <3>3. f[s] = q * a /\ g[s] = q * (m - a) /\ k[s] = q * (IF m = 0 THEN a ELSE m)
      OBVIOUS
    <3> HIDE DEF q, a, m, f, g, k
    <3>4. q * a \in Int /\ q * (m - a) \in Int /\ q * m \in Int
      <4>1. \A x \in Int : \A y \in Int : x * y \in Int
        OBVIOUS
      <4>2. m - a \in Int
        BY <3>1
      <4> QED
        BY <3>1, <4>1, <4>2
    <3>5. q * m = q * a + q * (m - a)
      BY <3>1
    <3>6. CASE m # 0
      BY <3>3, <3>4, <3>5, <3>6
    <3>7. CASE q = 0
      BY <3>1, <3>3, <3>7
    <3> QED
      BY <3>2, <3>3, <3>4, <3>6, <3>7
  <2> HIDE DEF f, g, k
  <2>4. SumFunction(k) = SumFunction(f) + SumFunction(g)
    BY <2>3, BacktestAssumption, SumAdded DEF SumFunction
  <2>5. SumFunction(f) \in Int /\ SumFunction(g) \in Int
    BY <2>3, BacktestAssumption, SumOverInt
  <2>6. desk.cash \in Int /\ InitialCash \in Int
    BY <1>1, DeskFields, BacktestAssumption
  <2>7. Last(curve) = InitialCash + SumFunction(desk.realized) + SumFunction(g)
    <3>1. Last(curve) = (desk.cash + SumFunction(f)) + SumFunction(g)
      BY <2>1, <2>4, <2>5, <2>6
    <3> QED
      BY <2>2, <3>1
  <2> QED
    BY <2>7 DEF g
<1>4. DrawdownTrue
  <2> SUFFICES ASSUME result # <<>>
               PROVE  /\ \A j \in DOMAIN curve : \A i \in 1 .. j :
                           Falls(curve, i, j) => (curve[i] - curve[j]) * result[1].of <= result[1].drop * curve[i]
                      /\ result[1].drop > 0 => \E j \in DOMAIN curve : \E i \in 1 .. j :
                           curve[i] = result[1].of /\ curve[i] - curve[j] = result[1].drop
    BY DEF DrawdownTrue, Falls
  <2>1. barIndex = SpanOf(aligned)
        /\ result[1].drop = MaxDrawdown(curve).drop /\ result[1].of = MaxDrawdown(curve).of
    BY DEF BacktestInv, Reported
  <2>2. curve # <<>> /\ DOMAIN curve = 1 .. Len(curve)
    BY <1>1, <2>1 DEF WalkTyped, AlignedTyped
  <2>3. WorstSoFar(curve, Len(curve), MaxDrawdown(curve))
    BY <1>1, <2>2, DrawdownIs
  <2> QED
    BY <2>1, <2>2, <2>3 DEF WorstSoFar
<1>5. OrdersCounted
  BY DEF OrdersCounted, BacktestInv, Reported, Booked, Held
<1> QED
  BY <1>2, <1>3, <1>4, <1>5 DEF BacktestExplained

-----------------------------------------------------------------------------
(***************************************************************************)
(* The daily sync: the pairs of live and replayed trades.                  *)
(***************************************************************************)
RefOK(b) == b.entry \in Nat \ {0} /\ b.net \in Int
RefSet(refs) == IsFiniteSet(refs) /\ \A b \in refs : RefOK(b)

LEMMA RefPresent ==
  ASSUME NEW b, RefOK(b)
  PROVE  b # Absent
<1>1. Absent.entry = 0
  BY DEF Absent
<1> QED
  BY <1>1 DEF RefOK

LEMMA NearestIn ==
  ASSUME NEW near, RefSet(near), near # {}, NEW b, RefOK(b)
  PROVE  NearestTo(b, near) \in near
<1> DEFINE gap == [p \in near |-> Gap(p.entry, b.entry)]
           gaps == {gap[p] : p \in near}
           entries == {p.entry : p \in {q \in near : gap[q] = Min(gaps)}}
<1>1. ASSUME NEW p \in near PROVE p.entry \in Nat /\ gap[p] \in Nat /\ gap[p] = Gap(p.entry, b.entry)
  BY DEF RefSet, RefOK, Gap
<1> HIDE DEF gap
<1>2. gaps \in SUBSET Nat /\ gaps # {}
  BY <1>1
<1>3. Min(gaps) \in gaps /\ \A g \in gaps : Min(gaps) <= g
  BY <1>2, MinIn
<1>4. entries \in SUBSET Nat /\ entries # {}
  BY <1>1, <1>3
<1>5. Min(entries) \in entries /\ \A e \in entries : Min(entries) <= e
  BY <1>4, MinIn
<1>6. PICK p \in near : gap[p] = Min(gaps) /\ p.entry = Min(entries)
  BY <1>5
<1>7. ASSUME NEW q \in near PROVE gap[p] < gap[q] \/ (gap[p] = gap[q] /\ p.entry <= q.entry)
  <2>1. gap[p] <= gap[q]
    BY <1>3, <1>6
  <2>2. gap[q] = Min(gaps) => p.entry <= q.entry
    BY <1>5, <1>6
  <2> HIDE DEF gaps, entries
  <2>3. gap[p] \in Nat /\ gap[q] \in Nat
    BY <1>1
  <2>4. CASE gap[p] = gap[q]
    BY <1>6, <2>2, <2>4
  <2>5. CASE gap[p] # gap[q]
    BY <2>1, <2>3, <2>5
  <2> QED
    BY <2>4, <2>5
<1>8. \A q \in near : \/ Gap(p.entry, b.entry) < Gap(q.entry, b.entry)
                      \/ Gap(p.entry, b.entry) = Gap(q.entry, b.entry) /\ p.entry <= q.entry
  BY <1>1, <1>7
<1> QED
  BY <1>8, Zenon DEF NearestTo

LEMMA LatestIn ==
  ASSUME NEW refs, RefSet(refs), refs # {}
  PROVE  LatestOf(refs) \in refs
<1> DEFINE f == [b \in refs |-> b.entry]
<1>1. \A b \in refs : f[b] \in Int /\ f[b] = b.entry
  BY DEF RefSet, RefOK
<1> HIDE DEF f
<1>2. PICK last \in refs : \A b \in refs : f[b] <= f[last]
  BY <1>1, HighestExists DEF RefSet
<1>3. \A b \in refs : b.entry <= last.entry
  BY <1>1, <1>2
<1> QED
  BY <1>3, Zenon DEF LatestOf

\* Two pairs share no trade.
Distinct(pairs) ==
  \A m, n \in pairs : /\ m.replay # Absent /\ m.replay = n.replay => m = n
                      /\ m.paper # Absent /\ m.paper = n.paper => m = n

\* A pair of both, whose live trade is no longer free; a replayed trade that nothing free is near.
Together(m, free, live) == m.paper \in live /\ m.paper \notin free /\ m.why = "" /\ Near(m.paper, m.replay)
Lonely(m, free, capAt) ==
  /\ m.paper = Absent /\ m.why # "" /\ (m.why = "LOSS_CAP_BLOCKED" => capAt # 0)
  /\ \A p \in free : ~Near(p, m.replay)

\* The replayed trades of S have had their turn.
Dealt(t, S, live, capAt) ==
  /\ t.free \in SUBSET live /\ IsFiniteSet(t.pairs) /\ Distinct(t.pairs)
  /\ \A m \in t.pairs : m.replay \in S /\ (Together(m, t.free, live) \/ Lonely(m, t.free, capAt))
  /\ \A b \in S : \E m \in t.pairs : m.replay = b
  /\ \A p \in live \ t.free : \E m \in t.pairs : m.paper = p

LEMMA PairIs ==
  ASSUME NEW p, NEW b, NEW why
  PROVE  Pair(p, b, why).paper = p /\ Pair(p, b, why).replay = b /\ Pair(p, b, why).why = why
  BY DEF Pair

LEMMA DistinctGrows ==
  ASSUME NEW pairs, Distinct(pairs), NEW x, \A m \in pairs : m.replay # x.replay,
         x.paper # Absent => \A m \in pairs : m.paper # x.paper
  PROVE  Distinct(pairs \cup {x})
  BY DEF Distinct

LEMMA DealtStep ==
  ASSUME NEW live, RefSet(live), NEW capAt, NEW S, NEW b, RefOK(b), b \notin S, NEW t, Dealt(t, S, live, capAt)
  PROVE  Dealt(TakeNearest(t, b, capAt), S \cup {b}, live, capAt)
<1> DEFINE near == {p \in t.free : Near(p, b)}
           best == NearestTo(b, near)
           why == IF capAt # 0 /\ b.entry >= capAt - MatchWindow THEN "LOSS_CAP_BLOCKED" ELSE "NOT_TAKEN_LIVE"
           n == TakeNearest(t, b, capAt)
<1>0. b # Absent /\ \A p \in live : p # Absent
  BY RefPresent DEF RefSet
<1>1. CASE near # {}
  <2> DEFINE x == Pair(best, b, "")
             frees == t.free \ {best}
             all == t.pairs \cup {x}
  <2>1. n = [free |-> frees, pairs |-> all]
    BY <1>1 DEF TakeNearest, TakeFree
  <2>2. RefSet(near) /\ near \in SUBSET t.free /\ t.free \in SUBSET live
    BY FS_Subset DEF Dealt, RefSet
  <2>3. best \in near
    BY <1>1, <2>2, NearestIn
  <2>4. best \in live /\ best \in t.free /\ Near(best, b) /\ best # Absent
    BY <1>0, <2>2, <2>3
  <2> HIDE DEF near, best, n
  <2>5. x.paper = best /\ x.replay = b /\ x.why = ""
    BY DEF Pair
  <2> HIDE DEF x, frees, all
  <2>6. n.free = t.free \ {best} /\ n.pairs = t.pairs \cup {x}
    BY <2>1 DEF frees, all
  <2>7. \A m \in t.pairs : m.replay # x.replay /\ m.paper # x.paper
    BY <2>4, <2>5 DEF Dealt, Together, Lonely
  <2>8. Distinct(n.pairs)
    BY <2>6, <2>7, DistinctGrows DEF Dealt
  <2>9. IsFiniteSet(n.pairs)
    BY <2>6, FS_AddElement DEF Dealt
  <2>10. ASSUME NEW m \in n.pairs
         PROVE  m.replay \in S \cup {b} /\ (Together(m, n.free, live) \/ Lonely(m, n.free, capAt))
    <3>1. CASE m \in t.pairs
      BY <2>6, <3>1 DEF Dealt, Together, Lonely
    <3>2. CASE m = x
      BY <2>4, <2>5, <2>6, <3>2 DEF Together
    <3> QED
      BY <2>6, <3>1, <3>2
  <2>11. \A c \in S \cup {b} : \E m \in n.pairs : m.replay = c
    BY <2>5, <2>6 DEF Dealt
  <2>12. \A p \in live \ n.free : \E m \in n.pairs : m.paper = p
    BY <2>5, <2>6 DEF Dealt
  <2>13. n.free \in SUBSET live
    BY <2>2, <2>6
  <2> QED
    BY <2>8, <2>9, <2>10, <2>11, <2>12, <2>13 DEF Dealt, n
<1>2. CASE near = {}
  <2> DEFINE x == Pair(Absent, b, why)
  <2>1. n = [free |-> t.free, pairs |-> t.pairs \cup {x}]
    BY <1>2 DEF TakeNearest
  <2>2. \A p \in t.free : ~Near(p, b)
    BY <1>2
  <2>3. x.paper = Absent /\ x.replay = b /\ x.why = why
    BY PairIs
  <2>4. n.free = t.free /\ n.pairs = t.pairs \cup {x}
    BY <2>1
  <2>5. why # "" /\ (why = "LOSS_CAP_BLOCKED" => capAt # 0)
    OBVIOUS
  <2> HIDE DEF near, x, n, why
  <2>6. \A m \in t.pairs : m.replay # x.replay
    BY <2>3 DEF Dealt
  <2>7. Distinct(n.pairs)
    BY <2>3, <2>4, <2>6, DistinctGrows DEF Dealt
  <2>8. IsFiniteSet(n.pairs)
    BY <2>4, FS_AddElement DEF Dealt
  <2>9. ASSUME NEW m \in n.pairs
        PROVE  m.replay \in S \cup {b} /\ (Together(m, n.free, live) \/ Lonely(m, n.free, capAt))
    <3>1. CASE m \in t.pairs
      BY <2>4, <3>1 DEF Dealt, Together, Lonely
    <3>2. CASE m = x
      BY <2>2, <2>3, <2>4, <2>5, <3>2 DEF Lonely
    <3> QED
      BY <2>4, <3>1, <3>2
  <2>10. \A c \in S \cup {b} : \E m \in n.pairs : m.replay = c
    BY <2>3, <2>4 DEF Dealt
  <2>11. \A p \in live \ n.free : \E m \in n.pairs : m.paper = p
    BY <2>4 DEF Dealt
  <2>12. n.free \in SUBSET live
    BY <2>4 DEF Dealt
  <2> QED
    BY <2>7, <2>8, <2>9, <2>10, <2>11, <2>12 DEF Dealt, n
<1> QED
  BY <1>1, <1>2

\* The deals after each set of replayed trades, the latest last.
IsTaken(taken, live, refs, capAt) ==
  taken = [S \in SUBSET refs |->
             IF S = {} THEN [free |-> live, pairs |-> {}]
             ELSE TakeNearest(taken[S \ {LatestOf(S)}], LatestOf(S), capAt)]

LEMMA MatchTradesIs ==
  ASSUME NEW live, NEW refs, NEW capAt
  PROVE  LET taken == CHOOSE t : IsTaken(t, live, refs, capAt)
         IN MatchTrades(live, refs, capAt)
              = taken[refs].pairs \cup {Pair(p, Absent, "NOT_IN_BACKTEST") : p \in taken[refs].free}
  BY DEF MatchTrades, IsTaken

LEMMA TakenExists ==
  ASSUME NEW live, RefSet(live), NEW refs, RefSet(refs), NEW capAt
  PROVE  \E taken : IsTaken(taken, live, refs, capAt)
<1> DEFINE whys == {"", "LOSS_CAP_BLOCKED", "NOT_TAKEN_LIVE"}
           P == [paper : live \cup {Absent}, replay : refs, why : whys]
           X == [free : SUBSET live, pairs : SUBSET P]
           base == [free |-> live, pairs |-> {}]
           out == [S \in SUBSET refs |-> LatestOf(S)]
           step == [b \in refs |-> [t \in X |-> TakeNearest(t, b, capAt)]]
<1>0. \A p \in live \cup {Absent}, b \in refs, why \in whys : Pair(p, b, why) \in P
  BY DEF Pair
<1> HIDE DEF P
<1>1. base \in X
  OBVIOUS
<1>2. ASSUME NEW b \in refs, NEW t \in X PROVE TakeNearest(t, b, capAt) \in X
  <2> DEFINE near == {p \in t.free : Near(p, b)}
             best == NearestTo(b, near)
             why == IF capAt # 0 /\ b.entry >= capAt - MatchWindow THEN "LOSS_CAP_BLOCKED" ELSE "NOT_TAKEN_LIVE"
  <2>1. t.free \in SUBSET live /\ t.pairs \in SUBSET P
    OBVIOUS
  <2>2. why \in whys
    OBVIOUS
  <2>3. CASE near # {}
    <3>1. RefSet(near) /\ RefOK(b)
      BY <2>1, FS_Subset DEF RefSet
    <3>2. best \in near
      BY <2>3, <3>1, NearestIn
    <3>3. Pair(best, b, "") \in P
      <4>1. best \in live /\ "" \in whys
        BY <2>1, <3>2
      <4> QED
        BY <1>0, <4>1
    <3> DEFINE frees == t.free \ {best}
               all == t.pairs \cup {Pair(best, b, "")}
    <3>4. TakeNearest(t, b, capAt) = [free |-> frees, pairs |-> all]
      BY <2>3 DEF TakeNearest, TakeFree
    <3> HIDE DEF near, best
    <3>5. frees \in SUBSET live /\ all \in SUBSET P
      BY <2>1, <3>3
    <3> HIDE DEF frees, all
    <3> QED
      BY <3>4, <3>5
  <2>4. CASE near = {}
    <3>1. Pair(Absent, b, why) \in P
      BY <1>0, <2>2
    <3>2. TakeNearest(t, b, capAt) = [free |-> t.free, pairs |-> t.pairs \cup {Pair(Absent, b, why)}]
      BY <2>4 DEF TakeNearest
    <3> HIDE DEF near, why
    <3> QED
      BY <2>1, <3>1, <3>2
  <2> QED
    BY <2>3, <2>4
<1> HIDE DEF X
<1>3. step \in [refs -> [X -> X]]
  BY <1>2
<1>4. ASSUME NEW S \in SUBSET refs, S # {} PROVE out[S] \in S
  <2>1. RefSet(S)
    BY FS_Subset DEF RefSet
  <2> QED
    BY <1>4, <2>1, LatestIn
<1> HIDE DEF base, out
<1>5. SetRecursion(refs, X, base, out, step)
  BY <1>1, <1>3, <1>4 DEF SetRecursion, RefSet
<1> HIDE DEF step
<1>6. PICK r : SetRecursive(r, refs, X, base, out, step)
  BY <1>5, SetRecursionExists
<1>7. /\ r \in [SUBSET refs -> X]
       /\ \A S \in SUBSET refs : r[S] = IF S = {} THEN base ELSE step[out[S]][r[S \ {out[S]}]]
  BY <1>6 DEF SetRecursive
<1>8. ASSUME NEW S \in SUBSET refs
      PROVE  r[S] = IF S = {} THEN [free |-> live, pairs |-> {}]
                    ELSE TakeNearest(r[S \ {LatestOf(S)}], LatestOf(S), capAt)
  <2>1. CASE S = {}
    BY <1>7, <2>1 DEF base
  <2>2. CASE S # {}
    <3>1. out[S] = LatestOf(S) /\ out[S] \in S
      BY <1>4, <2>2 DEF out
    <3>2. out[S] \in refs /\ r[S \ {out[S]}] \in X
      BY <1>7, <3>1
    <3>3. step[out[S]][r[S \ {out[S]}]] = TakeNearest(r[S \ {out[S]}], out[S], capAt)
      BY <3>2 DEF step
    <3> QED
      BY <1>7, <2>2, <3>1, <3>3
  <2> QED
    BY <2>1, <2>2
<1>9. IsTaken(r, live, refs, capAt)
  BY <1>8, <1>7 DEF IsTaken
<1> QED
  BY <1>9

LEMMA TakenDealt ==
  ASSUME NEW live, RefSet(live), NEW refs, RefSet(refs), NEW capAt, NEW taken, IsTaken(taken, live, refs, capAt)
  PROVE  Dealt(taken[refs], refs, live, capAt)
<1> DEFINE C == {S \in SUBSET refs : ~Dealt(taken[S], S, live, capAt)}
<1>1. SUFFICES ASSUME C # {} PROVE FALSE
  OBVIOUS
<1>2. C \in SUBSET SUBSET refs
  OBVIOUS
<1> HIDE DEF C
<1>3. PICK S \in C : \A U \in C : U \subseteq S => U = S
  BY <1>1, <1>2, LeastSubset DEF RefSet
<1>4. S \in SUBSET refs /\ ~Dealt(taken[S], S, live, capAt)
  BY <1>3 DEF C
<1>5. taken[S] = IF S = {} THEN [free |-> live, pairs |-> {}]
                 ELSE TakeNearest(taken[S \ {LatestOf(S)}], LatestOf(S), capAt)
  BY <1>4, Zenon DEF IsTaken
<1>6. S # {}
  <2>1. ASSUME S = {} PROVE Dealt(taken[S], S, live, capAt)
    <3>1. taken[S] = [free |-> live, pairs |-> {}]
      BY <1>5, <2>1
    <3>2. taken[S].free = live /\ taken[S].pairs = {}
      BY <3>1
    <3> QED
      BY <2>1, <3>2, FS_EmptySet DEF Dealt, Distinct
  <2> QED
    BY <1>4, <2>1
<1> DEFINE b == LatestOf(S)
           U == S \ {b}
<1>7. RefSet(S)
  BY <1>4, FS_Subset DEF RefSet
<1>8. b \in S
  BY <1>6, <1>7, LatestIn
<1>9. taken[S] = TakeNearest(taken[U], b, capAt)
  BY <1>5, <1>6
<1> HIDE DEF b
<1>10. U \notin C /\ U \in SUBSET refs /\ b \notin U /\ U \cup {b} = S
  BY <1>3, <1>4, <1>8
<1>11. Dealt(taken[U], U, live, capAt)
  BY <1>10 DEF C
<1>12. RefOK(b)
  BY <1>7, <1>8 DEF RefSet
<1>13. Dealt(TakeNearest(taken[U], b, capAt), U \cup {b}, live, capAt)
  BY <1>10, <1>11, <1>12, DealtStep
<1> QED
  BY <1>4, <1>9, <1>10, <1>13

\* What the pairs of a day are to its live and its replayed trades.
Matched(pairs, live, refs, capAt) ==
  /\ IsFiniteSet(pairs) /\ Distinct(pairs)
  /\ \A m \in pairs :
       /\ m.paper \in live \cup {Absent} /\ m.replay \in refs \cup {Absent}
       /\ m.paper # Absent \/ m.replay # Absent
       /\ IsMatch(m) => Near(m.paper, m.replay)
       /\ m.why = "LOSS_CAP_BLOCKED" => m.paper = Absent /\ capAt # 0
  /\ \A p \in live : \E m \in pairs : m.paper = p
  /\ \A b \in refs : \E m \in pairs : m.replay = b
  /\ \A m, n \in pairs : ~(m.replay = Absent /\ n.paper = Absent /\ Near(m.paper, n.replay))

LEMMA TradesMatched ==
  ASSUME NEW live, RefSet(live), NEW refs, RefSet(refs), NEW capAt
  PROVE  Matched(MatchTrades(live, refs, capAt), live, refs, capAt)
<1> DEFINE taken == CHOOSE t : IsTaken(t, live, refs, capAt)
           t == taken[refs]
           why == "NOT_IN_BACKTEST"
           h == [p \in t.free |-> Pair(p, Absent, why)]
           left == {Pair(p, Absent, why) : p \in t.free}
           pairs == MatchTrades(live, refs, capAt)
<1>1. IsTaken(taken, live, refs, capAt)
  BY TakenExists, Zenon
<1>2. pairs = t.pairs \cup left
  BY MatchTradesIs
<1> HIDE DEF taken, pairs
<1>3. Dealt(t, refs, live, capAt)
  BY <1>1, TakenDealt
<1> HIDE DEF t
<1>4. /\ t.free \in SUBSET live /\ IsFiniteSet(t.free) /\ IsFiniteSet(t.pairs) /\ Distinct(t.pairs)
      /\ Absent \notin live /\ Absent \notin refs
  BY <1>3, RefPresent, FS_Subset DEF Dealt, RefSet
<1>5. ASSUME NEW m \in left PROVE m.paper \in t.free /\ m.replay = Absent /\ m.why = why
  <2>1. PICK p \in t.free : m = Pair(p, Absent, why)
    OBVIOUS
  <2> QED
    BY <2>1, PairIs
<1>6. \A m, n \in left : m.paper = n.paper => m = n
  <2>1. SUFFICES ASSUME NEW m \in left, NEW n \in left, m.paper = n.paper PROVE m = n
    OBVIOUS
  <2>2. PICK p \in t.free : m = Pair(p, Absent, why)
    OBVIOUS
  <2>3. PICK q \in t.free : n = Pair(q, Absent, why)
    OBVIOUS
  <2> QED
    BY <2>1, <2>2, <2>3, PairIs
<1>7. IsFiniteSet(left)
  <2>1. Makes(h, t.free, left)
    BY DEF Makes
  <2> QED
    BY <1>4, <2>1, ImageFinite
<1>8. \A p \in t.free : \E m \in left : m.paper = p
  BY PairIs
<1> HIDE DEF left, h
<1>9. ASSUME NEW m \in t.pairs
      PROVE  /\ m.replay \in refs /\ m.replay # Absent /\ m.paper \notin t.free
             /\ m.paper \in live \cup {Absent}
             /\ m.paper # Absent => Near(m.paper, m.replay)
             /\ m.paper = Absent => \A p \in t.free : ~Near(p, m.replay)
             /\ m.why = "LOSS_CAP_BLOCKED" => m.paper = Absent /\ capAt # 0
  <2>1. m.replay \in refs /\ (Together(m, t.free, live) \/ Lonely(m, t.free, capAt))
    BY <1>3 DEF Dealt
  <2>2. CASE Together(m, t.free, live)
    BY <1>4, <2>1, <2>2 DEF Together
  <2>3. CASE Lonely(m, t.free, capAt)
    BY <1>4, <2>1, <2>3 DEF Lonely
  <2> QED
    BY <2>1, <2>2, <2>3
<1>10. IsFiniteSet(pairs)
  BY <1>2, <1>4, <1>7, FS_Union
<1>11. Distinct(pairs)
  <2>1. SUFFICES ASSUME NEW m \in pairs, NEW n \in pairs
                 PROVE  /\ m.replay # Absent /\ m.replay = n.replay => m = n
                        /\ m.paper # Absent /\ m.paper = n.paper => m = n
    BY Zenon DEF Distinct
  <2>2. CASE m \in t.pairs /\ n \in t.pairs
    BY <1>4, <2>2 DEF Distinct
  <2>3. CASE m \in left /\ n \in left
    BY <1>5, <1>6, <2>3
  <2>4. CASE m \in t.pairs /\ n \in left
    BY <1>5, <1>9, <2>4
  <2>5. CASE m \in left /\ n \in t.pairs
    BY <1>5, <1>9, <2>5
  <2> QED
    BY <1>2, <2>2, <2>3, <2>4, <2>5
<1>12. ASSUME NEW m \in pairs
       PROVE  /\ m.paper \in live \cup {Absent} /\ m.replay \in refs \cup {Absent}
              /\ m.paper # Absent \/ m.replay # Absent
              /\ IsMatch(m) => Near(m.paper, m.replay)
              /\ m.why = "LOSS_CAP_BLOCKED" => m.paper = Absent /\ capAt # 0
  <2>1. CASE m \in t.pairs
    BY <1>9, <2>1 DEF IsMatch
  <2>2. CASE m \in left
    <3>1. m.paper \in t.free /\ m.replay = Absent /\ m.why # "LOSS_CAP_BLOCKED"
      BY <1>5, <2>2
    <3> QED
      BY <1>4, <3>1 DEF IsMatch
  <2> QED
    BY <1>2, <2>1, <2>2
<1>13. \A p \in live : \E m \in pairs : m.paper = p
  <2>1. ASSUME NEW p \in live PROVE \E m \in pairs : m.paper = p
    <3>1. CASE p \in t.free
      BY <1>2, <1>8, <3>1
    <3>2. CASE p \notin t.free
      BY <1>2, <1>3, <3>2 DEF Dealt
    <3> QED
      BY <3>1, <3>2
  <2> QED
    BY <2>1
<1>14. \A b \in refs : \E m \in pairs : m.replay = b
  BY <1>2, <1>3 DEF Dealt
<1>15. \A m, n \in pairs : ~(m.replay = Absent /\ n.paper = Absent /\ Near(m.paper, n.replay))
  <2>1. SUFFICES ASSUME NEW m \in pairs, NEW n \in pairs, m.replay = Absent, n.paper = Absent
                 PROVE  ~Near(m.paper, n.replay)
    OBVIOUS
  <2>2. m \in left
    BY <1>2, <1>9, <2>1
  <2>3. n \in t.pairs
    BY <1>2, <1>4, <1>5, <2>1
  <2> QED
    BY <1>5, <1>9, <2>1, <2>2, <2>3
<1> QED
  BY <1>10, <1>11, <1>12, <1>13, <1>14, <1>15 DEF Matched, pairs

-----------------------------------------------------------------------------
(***************************************************************************)
(* The row of a day.                                                       *)
(***************************************************************************)
LEMMA NetOfIs ==
  ASSUME NEW S, IsFiniteSet(S), NEW T \in SUBSET S, NEW f, \A r \in S : f[r] = r.net /\ r.net \in Int
  PROVE  NetOf(T) = SumFunctionOnSet(f, T) /\ NetOf(T) \in Int
<1> DEFINE g == [r \in T |-> r.net]
<1>1. NetOf(T) = SumFunctionOnSet(g, T)
  BY DEF NetOf, SumFunction
<1>2. \A r \in T : g[r] = f[r] /\ f[r] \in Int
  OBVIOUS
<1> HIDE DEF g
<1>3. IsFiniteSet(T)
  BY FS_Subset
<1>4. SumFunctionOnSet(g, T) = SumFunctionOnSet(f, T)
  BY <1>2, <1>3, SumSame
<1>5. SumFunctionOnSet(f, T) \in Int
  BY <1>2, <1>3, SumInt
<1> QED
  BY <1>1, <1>4, <1>5

\* The replayed trades a day is compared with.
ComparedOf(pairs) == {m.replay : m \in {q \in pairs : Compared(q)}}
CountedOf(pairs) == {m \in pairs : m.why # "LOSS_CAP_BLOCKED"}

LEMMA SizeOfUnion ==
  ASSUME NEW A, IsFiniteSet(A), NEW B, IsFiniteSet(B), A \cap B = {}
  PROVE  Cardinality(A \cup B) = Cardinality(A) + Cardinality(B)
<1>1. Cardinality(A \cup B) = Cardinality(A) + Cardinality(B) - Cardinality(A \cap B)
  BY FS_Union
<1>2. Cardinality(A \cap B) = 0 /\ Cardinality(A) \in Nat /\ Cardinality(B) \in Nat
  BY FS_EmptySet, FS_CardinalityType
<1> QED
  BY <1>1, <1>2

LEMMA PairsAddUp ==
  ASSUME NEW live, RefSet(live), NEW refs, RefSet(refs), NEW capAt, NEW pairs, Matched(pairs, live, refs, capAt)
  PROVE  /\ SumFunction([m \in CountedOf(pairs) |-> m.paper.net - m.replay.net])
              = NetOf(live) - NetOf(ComparedOf(pairs))
         /\ Cardinality(live) - Cardinality(ComparedOf(pairs))
              = Cardinality({m \in CountedOf(pairs) : m.replay = Absent})
                  - Cardinality({m \in CountedOf(pairs) : m.paper = Absent})
<1> DEFINE counted == CountedOf(pairs)
           compared == ComparedOf(pairs)
           P == {m \in counted : m.paper # Absent}
           R == {m \in counted : m.replay # Absent}
           both == P \cap R
           alone == {m \in counted : m.replay = Absent}
           missed == {m \in counted : m.paper = Absent}
           paid == [m \in counted |-> m.paper.net]
           told == [m \in counted |-> m.replay.net]
           gap == [m \in counted |-> m.paper.net - m.replay.net]
           hP == [m \in P |-> m.paper]
           hR == [m \in R |-> m.replay]
           fL == [r \in live |-> r.net]
           fC == [r \in compared |-> r.net]
<1>1. /\ IsFiniteSet(pairs) /\ Distinct(pairs) /\ counted \in SUBSET pairs
      /\ IsFiniteSet(live) /\ IsFiniteSet(refs)
  BY DEF Matched, RefSet, CountedOf
<1>2. IsFiniteSet(counted) /\ IsFiniteSet(P) /\ IsFiniteSet(R) /\ IsFiniteSet(both)
      /\ IsFiniteSet(alone) /\ IsFiniteSet(missed)
  BY <1>1, FS_Subset
<1>3. Absent.net = 0
  BY DEF Absent
<1>4. \A b \in live \cup refs : b # Absent /\ b.net \in Int
  BY RefPresent DEF RefSet, RefOK
<1>5. ASSUME NEW m \in counted
      PROVE  /\ m.paper \in live \cup {Absent} /\ m.replay \in refs \cup {Absent}
             /\ m.paper.net \in Int /\ m.replay.net \in Int
             /\ m.paper # Absent \/ m.replay # Absent
  <2>1. /\ m.paper \in live \cup {Absent} /\ m.replay \in refs \cup {Absent}
        /\ m.paper # Absent \/ m.replay # Absent
    BY <1>1 DEF Matched
  <2> QED
    BY <2>1, <1>3, <1>4
<1>6. R = {q \in pairs : Compared(q)}
  BY DEF Compared, CountedOf
<1>7. compared = {m.replay : m \in R}
  BY <1>6 DEF ComparedOf
<1>8. ASSUME NEW b \in compared PROVE b \in refs /\ b.net \in Int
  BY <1>4, <1>5, <1>7
<1>9. Makes(hP, P, live) /\ \A m, n \in P : hP[m] = hP[n] => m = n
  <2>1. \A m \in P : hP[m] \in live
    BY <1>5
  <2>2. ASSUME NEW p \in live PROVE \E m \in P : p = hP[m]
    <3>1. PICK m \in pairs : m.paper = p
      BY DEF Matched
    <3>2. m.why # "LOSS_CAP_BLOCKED" /\ m.paper # Absent
      BY <1>4, <3>1 DEF Matched
    <3> QED
      BY <3>1, <3>2 DEF CountedOf
  <2>3. \A m, n \in P : hP[m] = hP[n] => m = n
    BY <1>1 DEF Distinct
  <2> HIDE DEF P, hP
  <2> QED
    BY <2>1, <2>2, <2>3 DEF Makes
<1>10. Makes(hR, R, compared) /\ \A m, n \in R : hR[m] = hR[n] => m = n
  <2>1. \A m \in R : hR[m] \in compared
    BY <1>7
  <2>2. \A b \in compared : \E m \in R : b = hR[m]
    BY <1>7
  <2>3. \A m, n \in R : hR[m] = hR[n] => m = n
    BY <1>1 DEF Distinct
  <2> HIDE DEF R, hR, compared
  <2> QED
    BY <2>1, <2>2, <2>3 DEF Makes
<1>11. IsFiniteSet(compared) /\ Cardinality(compared) = Cardinality(R) /\ Cardinality(live) = Cardinality(P)
  <2> HIDE DEF P, R, compared, hP, hR
  <2> QED
    BY <1>2, <1>9, <1>10, SameSize
<1>12. \A m \in counted : /\ paid[m] = m.paper.net /\ told[m] = m.replay.net /\ gap[m] = m.paper.net - m.replay.net
                          /\ paid[m] \in Int /\ told[m] \in Int /\ gap[m] \in Int /\ paid[m] = gap[m] + told[m]
  BY <1>5
<1>13. SumFunction(gap) = SumFunctionOnSet(gap, counted)
  BY DEF SumFunction
<1>14. SumFunctionOnSet(paid, P) = NetOf(live)
  <2>1. \A m \in P : hP[m] \in live /\ hP[m] = m.paper /\ m.paper.net \in Int
    BY <1>5
  <2>2. \A r \in live : fL[r] = r.net /\ r.net \in Int
    BY <1>4
  <2>3. \A m \in P : paid[m] \in Int /\ fL[hP[m]] = paid[m]
    BY <1>12, <2>1, <2>2
  <2> HIDE DEF P, hP, fL, paid
  <2>4. Renames(hP, paid, P, fL, live)
    BY <1>9, <2>3 DEF Renames
  <2>5. SumFunctionOnSet(fL, live) = SumFunctionOnSet(paid, P)
    BY <1>2, <2>4, SumRenamed
  <2>6. NetOf(live) = SumFunctionOnSet(fL, live)
    BY <1>1, <2>2, NetOfIs
  <2> QED
    BY <2>5, <2>6
<1>15. SumFunctionOnSet(told, R) = NetOf(compared)
  <2>1. \A m \in R : hR[m] \in compared /\ hR[m] = m.replay
    BY <1>7
  <2>2. \A r \in compared : fC[r] = r.net /\ r.net \in Int
    BY <1>8
  <2>3. \A m \in R : told[m] \in Int /\ fC[hR[m]] = told[m]
    BY <1>12, <2>1, <2>2
  <2> HIDE DEF R, hR, fC, told, compared
  <2>4. Renames(hR, told, R, fC, compared)
    BY <1>10, <2>3 DEF Renames
  <2>5. SumFunctionOnSet(fC, compared) = SumFunctionOnSet(told, R)
    BY <1>2, <2>4, SumRenamed
  <2>6. NetOf(compared) = SumFunctionOnSet(fC, compared)
    BY <1>11, <2>2, NetOfIs
  <2> QED
    BY <2>5, <2>6
<1>16. SumFunctionOnSet(paid, counted) = SumFunctionOnSet(paid, P)
  <2>1. P \in SUBSET counted /\ \A m \in counted \ P : paid[m] = 0
    BY <1>3, <1>12
  <2> HIDE DEF P, paid
  <2> QED
    BY <1>2, <1>12, <2>1, SumPart
<1>17. SumFunctionOnSet(told, counted) = SumFunctionOnSet(told, R)
  <2>1. R \in SUBSET counted /\ \A m \in counted \ R : told[m] = 0
    BY <1>3, <1>12
  <2> HIDE DEF R, told
  <2> QED
    BY <1>2, <1>12, <2>1, SumPart
<1>18. SumFunctionOnSet(paid, counted) = SumFunctionOnSet(gap, counted) + SumFunctionOnSet(told, counted)
  <2> HIDE DEF paid, gap, told
  <2> QED
    BY <1>2, <1>12, SumAdded
<1>19. SumFunctionOnSet(gap, counted) \in Int /\ SumFunctionOnSet(told, counted) \in Int
  <2> HIDE DEF paid, gap, told
  <2> QED
    BY <1>2, <1>12, SumInt
<1>20. SumFunction(gap) = NetOf(live) - NetOf(compared)
  <2> HIDE DEF paid, gap, told, P, R, counted, compared
  <2> QED
    BY <1>13, <1>14, <1>15, <1>16, <1>17, <1>18, <1>19
<1>21. Cardinality(P) = Cardinality(both) + Cardinality(alone)
  <2>1. P = both \cup alone /\ both \cap alone = {}
    BY <1>5
  <2> HIDE DEF P, both, alone
  <2> QED
    BY <1>2, <2>1, SizeOfUnion
<1>22. Cardinality(R) = Cardinality(both) + Cardinality(missed)
  <2>1. R = both \cup missed /\ both \cap missed = {}
    BY <1>5
  <2> HIDE DEF R, both, missed
  <2> QED
    BY <1>2, <2>1, SizeOfUnion
<1>23. Cardinality(both) \in Nat /\ Cardinality(alone) \in Nat /\ Cardinality(missed) \in Nat
  BY <1>2, FS_CardinalityType
<1>24. Cardinality(live) - Cardinality(compared) = Cardinality(alone) - Cardinality(missed)
  <2> HIDE DEF P, R, both, alone, missed, compared
  <2> QED
    BY <1>11, <1>21, <1>22, <1>23
<1> QED
  BY <1>20, <1>24

\* The fields of a day's row.
LEMMA SyncRowIs ==
  ASSUME NEW paper, NEW replayed \in BOOLEAN, NEW pairs, NEW hit
  PROVE  LET row == SyncRow(paper, replayed, pairs, hit)
             compared == ComparedOf(pairs)
         IN /\ row.trades = Cardinality(paper) /\ row.net = NetOf(paper) /\ row.capHit = hit
            /\ row.status # "N/A" <=> replayed
            /\ replayed => row.replayed = Cardinality(compared) /\ row.delta = NetOf(paper) - NetOf(compared)
            /\ row.status = "OK" => Cardinality(paper) = Cardinality(compared) \/ (paper = {} /\ compared = {})
<1> DEFINE compared == {m.replay : m \in {q \in pairs : Compared(q)}}
           live == NetOf(paper)
           replay == NetOf(compared)
           told == {m \in pairs : IsMatch(m) /\ m.paper.reason # "" /\ m.replay.reason # ""}
           lastLive == LastReason(paper)
           lastReplay == LastReason(compared)
           reasonsDiffer == IF told # {} THEN \E m \in told : m.paper.reason # m.replay.reason
                            ELSE lastLive # "" /\ lastReplay # "" /\ lastLive # lastReplay
           flagged == \/ reasonsDiffer
                      \/ Cardinality(paper) # Cardinality(compared)
                      \/ OverPercent(live - replay, replay) /\ Gap(live, replay) > FloorFlag
           status == IF ~replayed THEN "N/A"
                     ELSE IF flagged /\ (paper # {} \/ compared # {}) THEN "FLAG" ELSE "OK"
           counts == IF replayed THEN Cardinality(compared) ELSE 0
           delta == IF replayed THEN live - replay ELSE 0
<1>1. SyncRow(paper, replayed, pairs, hit)
        = [trades |-> Cardinality(paper), net |-> live, capHit |-> hit, replayed |-> counts, delta |-> delta,
           status |-> status]
  BY DEF SyncRow
<1>2. status = "OK" => Cardinality(paper) = Cardinality(compared) \/ (paper = {} /\ compared = {})
  <2> HIDE DEF compared, live, replay, reasonsDiffer
  <2> QED
    OBVIOUS
<1>3. status # "N/A" <=> replayed
  <2> HIDE DEF flagged, compared
  <2> QED
    OBVIOUS
<1>4. compared = ComparedOf(pairs)
  BY DEF ComparedOf
<1> HIDE DEF compared, live, replay, flagged, status
<1> DEFINE row == SyncRow(paper, replayed, pairs, hit)
<1>5. /\ row.trades = Cardinality(paper) /\ row.net = live /\ row.capHit = hit /\ row.replayed = counts
      /\ row.delta = delta /\ row.status = status
  BY <1>1
<1> QED
  BY <1>2, <1>3, <1>4, <1>5 DEF live, replay

-----------------------------------------------------------------------------
(***************************************************************************)
(* The rows.                                                               *)
(***************************************************************************)
RowOK(r) == r.day \in Nat /\ r.day \notin OffDays /\ r.entry \in Nat \ {0} /\ r.exit \in Nat /\ r.net \in Int
RowSet(rows) ==
  /\ IsFiniteSet(rows) /\ \A r \in rows : RowOK(r)
  /\ \A r, s \in rows : r.entry = s.entry /\ r.side = s.side => r = s

Statuses == {"NONE", "PARTIAL", "FINAL", "PRELIMINARY", "INTRADAY"}

SyncTyped ==
  /\ moment \in DOMAIN Moments
  /\ logNo \in [SessionDays -> Nat] /\ \A d \in SessionDays : logNo[d] <= Len(LogsOf[d])
  /\ replayNo \in [SessionDays -> Nat] /\ \A d \in SessionDays : replayNo[d] <= Len(ReplaysOf[d])
  /\ paperStatus \in [SessionDays -> Statuses]
  /\ RowSet(paperRows)

\* The status of a session without a log, and of one that is final.
StatusTold ==
  \A d \in SessionDays :
    /\ logNo[d] = 0 => paperStatus[d] = "NONE"
    /\ paperStatus[d] = "FINAL" => logNo[d] > 0 /\ LoadedLog(d).summary # <<>>

SyncInv == SyncTyped /\ StatusTold /\ DaySyncTells

LEMMA DayOf ==
  ASSUME NEW at \in Nat
  PROVE  at \div DayMinutes \in Nat
<1>1. DayMinutes \in Nat \ {0}
  BY SyncAssumption
<1> DEFINE m == DayMinutes
<1> HIDE DEF m
<1>2. \A n \in Nat \ {0} : at \div n \in Nat
  OBVIOUS
<1> QED
  BY <1>1, <1>2

LEMMA SessionForIs ==
  ASSUME NEW at \in Nat
  PROVE  SessionFor(at) \in Nat /\ SessionFor(at) \notin OffDays
<1> DEFINE day == at \div DayMinutes
           ahead == {n \in day + 1 .. day + 5 : n \notin OffDays}
           Next(n) == n \notin OffDays /\ \A between \in day + 1 .. n - 1 : between \in OffDays
<1>1. day \in Nat
  BY DayOf
<1>2. SessionFor(at) = IF at % DayMinutes < RollMinute /\ day \notin OffDays THEN day
                       ELSE CHOOSE n \in day + 1 .. day + 5 : Next(n)
  BY DEF SessionFor
<1> HIDE DEF day
<1>3. ahead # {}
  <2>1. CASE day + 1 \notin OffDays
    <3>1. day + 1 \in day + 1 .. day + 5
      BY <1>1
    <3> QED
      BY <2>1, <3>1
  <2>2. CASE day + 1 \in OffDays
    <3>1. PICK n \in (day + 1) + 1 .. (day + 1) + 4 : n \notin OffDays
      BY <2>2, SyncAssumption
    <3>2. n \in day + 1 .. day + 5
      BY <1>1
    <3> QED
      BY <3>1, <3>2
  <2> QED
    BY <2>1, <2>2
<1>4. ahead \in SUBSET Nat
  BY <1>1
<1>5. Min(ahead) \in ahead /\ \A n \in ahead : Min(ahead) <= n
  BY <1>3, <1>4, MinIn
<1>6. ASSUME NEW between \in day + 1 .. Min(ahead) - 1 PROVE between \in OffDays
  <2>1. Min(ahead) \in Nat /\ Min(ahead) <= day + 5
    BY <1>1, <1>5
  <2> HIDE DEF ahead
  <2>2. between \in day + 1 .. day + 5 /\ ~(Min(ahead) <= between)
    BY <1>1, <2>1
  <2>3. between \notin ahead
    BY <1>5, <2>2
  <2> QED
    BY <2>2, <2>3 DEF ahead
<1>7. \E n \in day + 1 .. day + 5 : Next(n)
  BY <1>5, <1>6
<1> DEFINE chosen == CHOOSE n \in day + 1 .. day + 5 : Next(n)
<1>8. chosen \in day + 1 .. day + 5 /\ Next(chosen)
  <2> HIDE DEF Next
  <2> QED
    BY <1>7
<1> HIDE DEF chosen
<1>9. chosen \in Nat /\ chosen \notin OffDays
  BY <1>1, <1>8
<1> QED
  BY <1>1, <1>2, <1>9 DEF chosen

LEMMA TradeNet ==
  ASSUME NEW t, SyncTraded(t)
  PROVE  NetOfTrade(t) \in Int
<1>1. PointsMoved(t) \in Int
  BY DEF SyncTraded, PointsMoved
<1>2. RoundTrip \in Int
  BY SyncAssumption
<1> QED
  BY <1>1, <1>2 DEF NetOfTrade, SyncTraded

LEMMA RefsOf ==
  ASSUME NEW rows, RowSet(rows)
  PROVE  RefSet(Refs(rows)) /\ NetOf(Refs(rows)) = NetOf(rows)
<1> DEFINE refs == Refs(rows)
           h == [r \in rows |-> TradeRef(r)]
           f == [r \in rows |-> r.net]
           g == [b \in refs |-> b.net]
<1>1. ASSUME NEW r \in rows
      PROVE  /\ TradeRef(r).entry = r.entry /\ TradeRef(r).net = r.net /\ TradeRef(r).side = r.side
             /\ r.entry \in Nat \ {0} /\ r.net \in Int
  BY DEF TradeRef, RowSet, RowOK
<1>2. \A r \in rows : h[r] = TradeRef(r) /\ h[r] \in refs
  BY DEF Refs
<1>3. \A b \in refs : \E r \in rows : b = h[r]
  BY DEF Refs
<1> HIDE DEF h, refs
<1>4. Makes(h, rows, refs)
  BY <1>2, <1>3 DEF Makes
<1>5. \A r, s \in rows : h[r] = h[s] => r = s
  <2>1. SUFFICES ASSUME NEW r \in rows, NEW s \in rows, h[r] = h[s] PROVE r = s
    OBVIOUS
  <2>2. r.entry = s.entry /\ r.side = s.side
    BY <1>1, <1>2, <2>1
  <2> QED
    BY <2>2 DEF RowSet
<1>6. \A b \in refs : RefOK(b)
  <2>1. ASSUME NEW b \in refs PROVE RefOK(b)
    <3>1. PICK r \in rows : b = h[r]
      BY <1>3
    <3> QED
      BY <1>1, <1>2, <3>1 DEF RefOK
  <2> QED
    BY <2>1
<1>7. \A r \in rows : f[r] = r.net /\ r.net \in Int
  BY <1>1
<1>8. \A b \in refs : g[b] = b.net /\ b.net \in Int
  BY <1>6 DEF RefOK
<1>9. \A r \in rows : f[r] \in Int /\ g[h[r]] = f[r]
  BY <1>1, <1>2, <1>7, <1>8
<1> HIDE DEF f, g
<1>10. Renames(h, f, rows, g, refs)
  BY <1>4, <1>5, <1>9 DEF Renames
<1>11. IsFiniteSet(rows)
  BY DEF RowSet
<1>12. IsFiniteSet(refs) /\ SumFunctionOnSet(g, refs) = SumFunctionOnSet(f, rows)
  BY <1>10, <1>11, SumRenamed
<1>13. NetOf(rows) = SumFunctionOnSet(f, rows)
  BY <1>7, <1>11, NetOfIs
<1>14. NetOf(refs) = SumFunctionOnSet(g, refs)
  BY <1>8, <1>12, NetOfIs
<1> QED
  BY <1>6, <1>12, <1>13, <1>14 DEF RefSet, refs

LEMMA ClosedOfRows ==
  ASSUME SyncTyped, NEW rows, rows \in SUBSET paperRows
  PROVE  RowSet(rows)
  BY FS_Subset DEF SyncTyped, RowSet

LEMMA ReplayRefs ==
  ASSUME SyncTyped, NEW d, HasReplay(d)
  PROVE  RefSet(Refs(ReplayRows(d)))
<1> DEFINE trades == ReplaysOf[d][replayNo[d]].trades
           refs == Refs(ReplayRows(d))
           h == [t \in trades |-> TradeRef(ReplayRow(t))]
<1>1. d \in SessionDays /\ replayNo[d] \in 1 .. Len(ReplaysOf[d])
  BY SyncAssumption DEF HasReplay, SyncTyped, SessionDays
<1>2. replayNo[d] \in DOMAIN ReplaysOf[d]
  BY <1>1, SyncAssumption DEF SessionDays
<1>3. IsFiniteSet(trades) /\ \A t \in trades : SyncTraded(t) /\ t.entry # 0
  BY <1>1, <1>2, SyncAssumption DEF SessionDays
<1>4. refs = {h[t] : t \in trades}
  <2> DEFINE rows == {ReplayRow(t) : t \in trades}
  <2>1. ReplayRows(d) = rows
    BY <1>1 DEF ReplayRows, Replay
  <2>2. \A b \in refs : \E t \in trades : b = h[t]
    <3>1. SUFFICES ASSUME NEW b \in refs PROVE \E t \in trades : b = h[t]
      OBVIOUS
    <3>2. PICK r \in rows : b = TradeRef(r)
      BY <2>1 DEF Refs
    <3>3. PICK t \in trades : r = ReplayRow(t)
      BY <3>2
    <3> QED
      BY <3>2, <3>3
  <2>3. \A t \in trades : h[t] \in refs
    BY <2>1 DEF Refs
  <2> HIDE DEF refs, h, trades
  <2> QED
    BY <2>2, <2>3
<1> HIDE DEF trades, refs
<1>5. Makes(h, trades, refs)
  <2> HIDE DEF h
  <2> QED
    BY <1>4 DEF Makes
<1>6. ASSUME NEW t \in trades PROVE RefOK(h[t])
  <2>1. NetOfTrade(t) \in Int /\ t.entry \in Nat \ {0}
    BY <1>3, TradeNet DEF SyncTraded
  <2>2. h[t].entry = t.entry /\ h[t].net = NetOfTrade(t)
    BY DEF TradeRef, ReplayRow
  <2> QED
    BY <2>1, <2>2 DEF RefOK
<1> HIDE DEF h
<1>7. IsFiniteSet(refs)
  BY <1>3, <1>5, ImageFinite
<1> QED
  BY <1>4, <1>6, <1>7 DEF RefSet, refs

-----------------------------------------------------------------------------
(***************************************************************************)
(* What a recomputation derives.                                           *)
(***************************************************************************)
Hit(d) == (HasLog(d) /\ LoadedLog(d).capAt # 0) \/ TradeCapAt(RowsOfDay(d)) # 0

LEMMA DayRows ==
  ASSUME SyncTyped, NEW d
  PROVE  /\ RowSet(RowsOfDay(d)) /\ RefSet(Refs(RowsOfDay(d)))
         /\ NetOf(Refs(RowsOfDay(d))) = NetOf(RowsOfDay(d)) /\ RowSet(ClosedRows)
<1>1. RowsOfDay(d) \in SUBSET paperRows /\ ClosedRows \in SUBSET paperRows
  BY DEF RowsOfDay, ClosedRows
<1>2. RowSet(RowsOfDay(d)) /\ RowSet(ClosedRows)
  BY <1>1, ClosedOfRows
<1> QED
  BY <1>2, RefsOf

\* The pairs of a day with a replay; without one there are none.
LEMMA PairsOfDayAre ==
  ASSUME SyncTyped, NEW d
  PROVE  IF HasReplay(d)
         THEN \E capAt : /\ Matched(PairsOfDay(d), Refs(RowsOfDay(d)), Refs(ReplayRows(d)), capAt)
                         /\ capAt # 0 => Hit(d)
         ELSE PairsOfDay(d) = {}
<1> DEFINE event == IF HasLog(d) THEN LoadedLog(d).capAt ELSE 0
           trade == TradeCapAt(RowsOfDay(d))
           capAt == CapFired(trade, event)
           live == Refs(RowsOfDay(d))
           replayed == Refs(ReplayRows(d))
<1>1. CASE ~HasReplay(d)
  BY <1>1 DEF PairsOfDay
<1>2. CASE HasReplay(d)
  <2>1. PairsOfDay(d) = MatchTrades(live, replayed, capAt)
    BY <1>2 DEF PairsOfDay
  <2>2. trade = 0 /\ event = 0 => capAt = 0
    <3> HIDE DEF trade, event
    <3> QED
      BY DEF CapFired
  <2>3. capAt # 0 => Hit(d)
    <3>1. event # 0 => HasLog(d) /\ LoadedLog(d).capAt # 0
      OBVIOUS
    <3> HIDE DEF capAt, event
    <3> QED
      BY <2>2, <3>1 DEF Hit
  <2> HIDE DEF capAt
  <2>4. RefSet(live) /\ RefSet(replayed)
    BY <1>2, DayRows, ReplayRefs
  <2> HIDE DEF live, replayed
  <2>5. Matched(PairsOfDay(d), live, replayed, capAt)
    BY <2>1, <2>4, TradesMatched
  <2> QED
    BY <1>2, <2>3, <2>5 DEF live, replayed
<1> QED
  BY <1>1, <1>2

LEMMA SyncOfDayIs ==
  ASSUME SyncTyped, NEW d
  PROVE  LET row == SyncOfDay(d)
             compared == ComparedOf(PairsOfDay(d))
             live == Refs(RowsOfDay(d))
         IN /\ row.trades = Cardinality(live) /\ row.net = NetOf(live) /\ row.net = NetOf(RowsOfDay(d))
            /\ row.capHit <=> Hit(d)
            /\ row.status # "N/A" <=> HasReplay(d)
            /\ HasReplay(d) => row.replayed = Cardinality(compared) /\ row.delta = NetOf(live) - NetOf(compared)
            /\ row.status = "OK" => Cardinality(live) = Cardinality(compared) \/ (live = {} /\ compared = {})
<1> DEFINE row == SyncOfDay(d)
           compared == ComparedOf(PairsOfDay(d))
           live == Refs(RowsOfDay(d))
           replayed == HasReplay(d)
           hit == Hit(d)
<1>1. replayed \in BOOLEAN
  BY DEF HasReplay
<1>2. row = SyncRow(live, replayed, PairsOfDay(d), hit)
  BY DEF SyncOfDay, Hit
<1>3. NetOf(live) = NetOf(RowsOfDay(d))
  BY DayRows
<1> HIDE DEF row, live, replayed, hit
<1>4. /\ row.trades = Cardinality(live) /\ row.net = NetOf(live) /\ row.capHit = hit
      /\ row.status # "N/A" <=> replayed
      /\ replayed => row.replayed = Cardinality(compared) /\ row.delta = NetOf(live) - NetOf(compared)
      /\ row.status = "OK" => Cardinality(live) = Cardinality(compared) \/ (live = {} /\ compared = {})
  BY <1>1, <1>2, SyncRowIs
<1> QED
  BY <1>3, <1>4 DEF row, live, replayed, hit

\* The closed trades of some days make what the days made.
LEMMA NetOfDays ==
  ASSUME SyncTyped, NEW D, IsFiniteSet(D)
  PROVE  /\ SumFunction([e \in D |-> NetOf(RowsOfDay(e))]) = NetOf({r \in ClosedRows : r.day \in D})
         /\ NetOf({r \in ClosedRows : r.day \in D}) \in Int
<1> DEFINE f == [r \in ClosedRows |-> r.net]
           of == [r \in ClosedRows |-> r.day]
           g == [e \in D |-> NetOf(RowsOfDay(e))]
<1>1. RowSet(ClosedRows)
  BY DayRows
<1>2. IsFiniteSet(ClosedRows) /\ \A r \in ClosedRows : f[r] = r.net /\ r.net \in Int /\ of[r] = r.day
  BY <1>1 DEF RowSet, RowOK
<1>3. ASSUME NEW e \in D PROVE RowsOfDay(e) = Over(of, ClosedRows, {e})
  BY <1>2 DEF RowsOfDay, Over
<1>4. {r \in ClosedRows : r.day \in D} = Over(of, ClosedRows, D)
  BY <1>2 DEF Over
<1> HIDE DEF f, of
<1>5. ASSUME NEW E PROVE NetOf(Over(of, ClosedRows, E)) = SumFunctionOnSet(f, Over(of, ClosedRows, E))
                         /\ NetOf(Over(of, ClosedRows, E)) \in Int
  <2>1. Over(of, ClosedRows, E) \in SUBSET ClosedRows
    BY DEF Over
  <2> QED
    BY <1>2, <2>1, NetOfIs
<1>6. \A e \in D : g[e] = SumFunctionOnSet(f, Over(of, ClosedRows, {e}))
  BY <1>3, <1>5
<1>7. SumFunction(g) = SumFunctionOnSet(g, D)
  BY DEF SumFunction
<1> HIDE DEF g
<1> DEFINE S == ClosedRows
<1>8. IsFiniteSet(S) /\ \A r \in S : f[r] \in Int
  BY <1>2
<1>9. \A e \in D : g[e] = SumFunctionOnSet(f, Over(of, S, {e}))
  BY <1>6
<1> HIDE DEF S
<1>10. Parted(g, D, f, of, S)
  BY <1>8, <1>9 DEF Parted
<1>11. SumFunctionOnSet(g, D) = SumFunctionOnSet(f, Over(of, S, D))
  BY <1>10, SumParted
<1> QED
  BY <1>4, <1>5, <1>7, <1>11 DEF g, S

LEMMA LoggedDaysAre ==
  ASSUME SyncTyped
  PROVE  LoggedDays \in SUBSET Nat /\ IsFiniteSet(LoggedDays)
<1> DEFINE dates == {r.day : r \in ClosedRows}
           h == [r \in ClosedRows |-> r.day]
           some == {d \in SessionDays : HasLog(d) \/ HasReplay(d)}
<1>1. RowSet(ClosedRows)
  BY DayRows
<1>2. dates \in SUBSET Nat /\ \A r \in ClosedRows : h[r] \in dates
  BY <1>1 DEF RowSet, RowOK
<1>3. Makes(h, ClosedRows, dates)
  BY <1>2 DEF Makes
<1>4. IsFiniteSet(dates)
  <2> HIDE DEF h, dates
  <2> QED
    BY <1>1, <1>3, ImageFinite DEF RowSet
<1>5. some \in SUBSET Nat /\ IsFiniteSet(some)
  BY SyncAssumption, FS_Subset DEF SessionDays
<1>6. LoggedDays = some \cup dates
  BY DEF LoggedDays
<1> HIDE DEF some, dates
<1> QED
  BY <1>2, <1>4, <1>5, <1>6, FS_Union

\* The days of the P&L are those between the first and the last that are not off.
LEMMA PnlDaysAre ==
  ASSUME SyncTyped
  PROVE  /\ PnlDays \in SUBSET Nat /\ IsFiniteSet(PnlDays) /\ (PnlDays # {} => LoggedDays # {})
         /\ PnlDays # {} => /\ Min(PnlDays) \in Nat /\ Max(PnlDays) \in Nat /\ Max(PnlDays) \in PnlDays
                            /\ \A x \in PnlDays : x \in Min(PnlDays) .. Max(PnlDays)
                            /\ \A x \in Min(PnlDays) .. Max(PnlDays) : x \in OffDays \/ x \in PnlDays
<1> DEFINE start == IF PaperStart # 0 THEN PaperStart ELSE Min(LoggedDays)
           end == Min({Max(LoggedDays), CalendarToday})
           days == PnlDays
<1>1. CASE LoggedDays = {}
  BY <1>1, FS_EmptySet DEF PnlDays
<1>2. CASE LoggedDays # {}
  <2>1. LoggedDays \in SUBSET Nat /\ IsFiniteSet(LoggedDays)
    BY LoggedDaysAre
  <2>2. Min(LoggedDays) \in Nat /\ Max(LoggedDays) \in Nat
    <3>1. Min(LoggedDays) \in LoggedDays
      BY <1>2, <2>1, MinIn
    <3>2. LoggedDays \in SUBSET Int
      BY <2>1
    <3>3. Max(LoggedDays) \in LoggedDays
      BY <1>2, <2>1, <3>2, HighestIn
    <3> QED
      BY <2>1, <3>1, <3>3
  <2>3. Moments[moment] \in Nat
    BY SyncAssumption DEF SyncTyped
  <2>4. CalendarToday \in Nat
    BY <2>3, DayOf DEF CalendarToday, Now
  <2>5. start \in Nat
    BY <2>2, SyncAssumption
  <2>6. end \in Nat
    <3>1. {Max(LoggedDays), CalendarToday} \in SUBSET Nat /\ {Max(LoggedDays), CalendarToday} # {}
      BY <2>2, <2>4
    <3> QED
      BY <3>1, MinIn
  <2>7. days = (start .. end) \ OffDays
    BY <1>2 DEF PnlDays
  <2> HIDE DEF start, end, days
  <2>8. days \in SUBSET Nat /\ days \in SUBSET (start .. end)
    BY <2>5, <2>6, <2>7
  <2>9. IsFiniteSet(days)
    <3>1. IsFiniteSet(start .. end)
      BY <2>5, <2>6, FS_Interval
    <3> QED
      BY <2>8, <3>1, FS_Subset
  <2>10. ASSUME days # {}
         PROVE  /\ Min(days) \in Nat /\ Max(days) \in Nat /\ Max(days) \in days
                /\ \A x \in days : x \in Min(days) .. Max(days)
                /\ \A x \in Min(days) .. Max(days) : x \in OffDays \/ x \in days
    <3>1. Min(days) \in days /\ \A x \in days : Min(days) <= x
      BY <2>8, <2>10, MinIn
    <3>2. Max(days) \in days /\ \A x \in days : x <= Max(days)
      <4>1. days \in SUBSET Int
        BY <2>8
      <4> QED
        BY <2>9, <2>10, <4>1, HighestIn
    <3>3. Min(days) \in Nat /\ Max(days) \in Nat /\ start <= Min(days) /\ Max(days) <= end
      <4>1. Min(days) \in start .. end /\ Max(days) \in start .. end
        BY <2>8, <3>1, <3>2
      <4> QED
        BY <2>5, <2>6, <4>1
    <3>4. ASSUME NEW x \in days PROVE x \in Min(days) .. Max(days)
      <4>1. x \in Nat /\ Min(days) <= x /\ x <= Max(days)
        BY <2>8, <3>1, <3>2
      <4> QED
        BY <3>3, <4>1
    <3>5. ASSUME NEW x \in Min(days) .. Max(days) PROVE x \in OffDays \/ x \in days
      <4>1. x \in start .. end
        BY <2>5, <2>6, <3>3
      <4> QED
        BY <2>7, <4>1
    <3> QED
      BY <3>2, <3>3, <3>4, <3>5
  <2> QED
    BY <1>2, <2>8, <2>9, <2>10 DEF days
<1> QED
  BY <1>1, <1>2

LEMMA DerivedIs ==
  ASSUME RecomputeDays
  PROVE  /\ derived'.pairs = [d \in LoggedDays |-> PairsOfDay(d)]
         /\ \A d \in LoggedDays : derived'.sync[d] = SyncOfDay(d)
         /\ derived'.rolling = [d \in LoggedDays |-> Rolling([e \in LoggedDays |-> SyncOfDay(e)], d)]
         /\ derived'.daily = DailyPnl(PnlDays)
         /\ derived'.windows = [d \in PnlDays |-> WindowSheet(PnlDays, d)]
         /\ derived'.weeks = WeekRows(PnlDays)
<1> DEFINE sync == [d \in LoggedDays |-> SyncOfDay(d)]
           all == [d \in LoggedDays \cup DOMAIN derived.sync |->
                     IF d \in LoggedDays THEN sync[d] ELSE derived.sync[d]]
           pairs == [d \in LoggedDays |-> PairsOfDay(d)]
           rolling == [d \in LoggedDays |-> Rolling(sync, d)]
           made == DailyPnl(PnlDays)
           windows == [d \in PnlDays |-> WindowSheet(PnlDays, d)]
           weeks == WeekRows(PnlDays)
<1>1. derived' = [pairs |-> pairs, sync |-> all, rolling |-> rolling, daily |-> made, windows |-> windows,
                  weeks |-> weeks]
  BY DEF RecomputeDays, Derive
<1>2. \A d \in LoggedDays : all[d] = SyncOfDay(d)
  OBVIOUS
<1> HIDE DEF pairs, all, rolling, made, windows, weeks
<1>3. /\ derived'.pairs = pairs /\ derived'.sync = all /\ derived'.rolling = rolling /\ derived'.daily = made
      /\ derived'.windows = windows /\ derived'.weeks = weeks
  BY <1>1
<1> QED
  BY <1>2, <1>3 DEF pairs, rolling, made, windows, weeks, sync

LEMMA PairsRightDerived ==
  ASSUME SyncTyped, RecomputeDays
  PROVE  PairsRight'
<1>1. derived'.pairs = [d \in LoggedDays |-> PairsOfDay(d)]
  BY DerivedIs
<1>2. ASSUME NEW d \in LoggedDays
      PROVE  LET pairs == PairsOfDay(d)
             IN /\ \A m, n \in pairs : m # n =>
                     /\ m.paper # Absent => m.paper # n.paper
                     /\ m.replay # Absent => m.replay # n.replay
                /\ \A m \in pairs : IsMatch(m) => Near(m.paper, m.replay)
                /\ ~\E m, n \in pairs : m.replay = Absent /\ n.paper = Absent /\ Near(m.paper, n.replay)
  <2> DEFINE pairs == PairsOfDay(d)
  <2>1. CASE ~HasReplay(d)
    <3>1. pairs = {}
      BY <2>1, PairsOfDayAre
    <3> HIDE DEF pairs
    <3> QED
      BY <3>1 DEF pairs
  <2>2. CASE HasReplay(d)
    <3>1. PICK capAt : Matched(pairs, Refs(RowsOfDay(d)), Refs(ReplayRows(d)), capAt)
      BY <2>2, PairsOfDayAre
    <3> HIDE DEF pairs
    <3> QED
      BY <3>1 DEF Matched, Distinct, pairs
  <2> QED
    BY <2>1, <2>2
<1> QED
  BY <1>1, <1>2 DEF PairsRight

LEMMA RowFollowsDerived ==
  ASSUME SyncTyped, RecomputeDays
  PROVE  RowFollowsPairs'
<1>1. /\ derived'.pairs = [d \in LoggedDays |-> PairsOfDay(d)]
      /\ \A d \in LoggedDays : derived'.sync[d] = SyncOfDay(d)
  BY DerivedIs
<1>2. ASSUME NEW d \in LoggedDays, SyncOfDay(d).status # "N/A"
      PROVE  LET row == SyncOfDay(d)
                 counted == {m \in PairsOfDay(d) : m.why # "LOSS_CAP_BLOCKED"}
             IN /\ row.delta = SumFunction([m \in counted |-> m.paper.net - m.replay.net])
                /\ row.trades - row.replayed = Cardinality({m \in counted : m.replay = Absent})
                                             - Cardinality({m \in counted : m.paper = Absent})
                /\ row.status = "OK" => row.trades = row.replayed
  <2> DEFINE pairs == PairsOfDay(d)
             live == Refs(RowsOfDay(d))
             refs == Refs(ReplayRows(d))
             row == SyncOfDay(d)
             compared == ComparedOf(pairs)
             counted == {m \in pairs : m.why # "LOSS_CAP_BLOCKED"}
  <2>1. /\ row.trades = Cardinality(live)
        /\ row.status # "N/A" <=> HasReplay(d)
        /\ HasReplay(d) => row.replayed = Cardinality(compared) /\ row.delta = NetOf(live) - NetOf(compared)
        /\ row.status = "OK" => Cardinality(live) = Cardinality(compared) \/ (live = {} /\ compared = {})
    BY SyncOfDayIs
  <2>2. HasReplay(d)
    BY <1>2, <2>1
  <2>3. PICK capAt : Matched(pairs, live, refs, capAt)
    BY <2>2, PairsOfDayAre
  <2>4. RefSet(live) /\ RefSet(refs)
    BY <2>2, DayRows, ReplayRefs
  <2>5. counted = CountedOf(pairs)
    BY DEF CountedOf
  <2> HIDE DEF pairs, live, refs, row, compared, counted
  <2>6. /\ SumFunction([m \in counted |-> m.paper.net - m.replay.net]) = NetOf(live) - NetOf(compared)
        /\ Cardinality(live) - Cardinality(compared)
             = Cardinality({m \in counted : m.replay = Absent}) - Cardinality({m \in counted : m.paper = Absent})
    BY <2>3, <2>4, <2>5, PairsAddUp DEF compared
  <2>7. row.status = "OK" => row.trades = row.replayed
    BY <2>1, <2>2
  <2> QED
    BY <2>1, <2>2, <2>6, <2>7 DEF pairs, row, counted
<1> QED
  BY <1>1, <1>2 DEF RowFollowsPairs

LEMMA ExcusedDerived ==
  ASSUME SyncTyped, RecomputeDays
  PROVE  ExcusedOnCapDays'
<1>1. /\ derived'.pairs = [d \in LoggedDays |-> PairsOfDay(d)]
      /\ \A d \in LoggedDays : derived'.sync[d] = SyncOfDay(d)
  BY DerivedIs
<1>2. ASSUME NEW d \in LoggedDays, NEW m \in PairsOfDay(d), m.why = "LOSS_CAP_BLOCKED"
      PROVE  /\ SyncOfDay(d).capHit
             /\ ~\E n \in PairsOfDay(d) : n.replay = Absent /\ Near(n.paper, m.replay)
  <2> DEFINE pairs == PairsOfDay(d)
  <2>1. HasReplay(d)
    BY <1>2, PairsOfDayAre
  <2>2. PICK capAt : /\ Matched(pairs, Refs(RowsOfDay(d)), Refs(ReplayRows(d)), capAt)
                     /\ capAt # 0 => Hit(d)
    BY <2>1, PairsOfDayAre
  <2>3. m.paper = Absent /\ capAt # 0
    BY <1>2, <2>2 DEF Matched
  <2>4. SyncOfDay(d).capHit
    BY <2>2, <2>3, SyncOfDayIs
  <2>5. ~\E n \in pairs : n.replay = Absent /\ Near(n.paper, m.replay)
    <3> HIDE DEF pairs
    <3>1. m \in pairs
      BY DEF pairs
    <3> QED
      BY <2>2, <2>3, <3>1 DEF Matched
  <2> QED
    BY <2>4, <2>5
<1> QED
  BY <1>1, <1>2 DEF ExcusedOnCapDays

LEMMA ClosedRowsOn ==
  ASSUME SyncTyped
  PROVE  \A r \in ClosedRows : r.day \in Nat /\ r.day \notin OffDays /\ r.day \in LoggedDays
<1>1. RowSet(ClosedRows)
  BY DayRows
<1> QED
  BY <1>1 DEF RowSet, RowOK, LoggedDays

\* A window's trades are those of its days.
LEMMA WindowsAddUp ==
  ASSUME SyncTyped, NEW d \in PnlDays, NEW w \in {"WEEK", "ITD"}
  PROVE  WindowSheet(PnlDays, d)[w].net = WindowSheet(PnlDays, d)[w].told
<1> DEFINE days == PnlDays
           bounds == Bounds(w, d, Min(days))
           inside == {r \in Windowed(days) : r.day \in bounds}
           D == days \cap bounds
           count == Cardinality(D)
           trades == Cardinality(inside)
           net == SumFunction([e \in D |-> NetOf(RowsOfDay(e))])
           told == NetOf(inside)
<1>1. WindowSheet(days, d)[w] = [days |-> count, trades |-> trades, net |-> net, told |-> told]
  BY DEF WindowSheet
<1> HIDE DEF bounds
<1>2. inside = {r \in ClosedRows : r.day \in D}
  <2>1. ASSUME NEW r \in ClosedRows
        PROVE  r.day \in Min(days) .. Max(days) <=> r.day \in days
    BY ClosedRowsOn, PnlDaysAre
  <2>2. days # {}
    OBVIOUS
  <2> HIDE DEF days
  <2> QED
    BY <2>1, <2>2 DEF Windowed
<1>3. IsFiniteSet(D)
  BY PnlDaysAre, FS_Subset
<1> HIDE DEF D, inside
<1>4. net = told
  BY <1>2, <1>3, NetOfDays
<1> HIDE DEF count, trades, net, told
<1>5. WindowSheet(days, d)[w].net = net /\ WindowSheet(days, d)[w].told = told
  BY <1>1
<1> QED
  BY <1>4, <1>5

\* The equity of a day is what the trades of the days up to it made.
LEMMA EquityIs ==
  ASSUME SyncTyped, NEW d \in PnlDays
  PROVE  DailyPnl(PnlDays)[d].equity
           = StartCapital + NetOf({r \in ClosedRows : r.day \in {x \in PnlDays : x <= d}})
<1> DEFINE days == PnlDays
           mine == {r \in Windowed(days) : r.day \in {x \in days : x <= d}}
           net == NetOf(RowsOfDay(d))
           trades == Cardinality(RowsOfDay(d))
           equity == StartCapital + NetOf(mine)
           peak == Max({StartCapital} \cup
                       {StartCapital + NetOf({r \in Windowed(days) : r.day \in {x \in days : x <= e}}) :
                          e \in {y \in days : y <= d}})
<1>1. DailyPnl(days)[d] = [net |-> net, trades |-> trades, equity |-> equity, peak |-> peak]
  BY DEF DailyPnl
<1> HIDE DEF net, trades, equity, peak
<1>2. DailyPnl(days)[d].equity = equity
  BY <1>1
<1>3. mine = {r \in ClosedRows : r.day \in {x \in days : x <= d}}
  <2>1. \A x \in days : x \in Min(days) .. Max(days)
    BY PnlDaysAre
  <2> HIDE DEF days
  <2> QED
    BY <2>1 DEF Windowed
<1> QED
  BY <1>2, <1>3 DEF equity

\* The account at the end of a week is the equity of its last day.
LEMMA WeeksAddUp ==
  ASSUME SyncTyped, NEW w \in {WeekOf(d) : d \in PnlDays}
  PROVE  LET last == Max({d \in PnlDays : WeekOf(d) = w})
         IN last \in PnlDays /\ WeekRows(PnlDays)[w].account = DailyPnl(PnlDays)[last].equity
<1> DEFINE days == PnlDays
           mine == {d \in days : WeekOf(d) = w}
           upto == {d \in days : WeekOf(d) <= w}
           last == Max(mine)
           before == {x \in days : x <= last}
           trades == Cardinality({r \in ClosedRows : r.day \in Min(mine) .. Max(mine)})
           net == SumFunction([d \in mine |-> NetOf(RowsOfDay(d))])
           account == StartCapital + SumFunction([d \in upto |-> NetOf(RowsOfDay(d))])
<1>1. WeekRows(days)[w] = [trades |-> trades, net |-> net, account |-> account]
  BY DEF WeekRows
<1> HIDE DEF trades, net, account
<1>2. WeekRows(days)[w].account = account
  BY <1>1
<1>3. days \in SUBSET Nat /\ IsFiniteSet(days) /\ mine # {}
  BY PnlDaysAre
<1> HIDE DEF days
<1>4. mine \in SUBSET Int /\ IsFiniteSet(mine) /\ IsFiniteSet(upto)
  BY <1>3, FS_Subset
<1>5. last \in mine /\ \A x \in mine : x <= last
  BY <1>3, <1>4, HighestIn
<1> HIDE DEF last
<1>6. last \in days /\ WeekOf(last) = w
  BY <1>5
<1>7. upto = before
  <2>1. ASSUME NEW x \in days PROVE WeekOf(x) <= w <=> x <= last
    <3>1. x \in Nat /\ last \in Nat
      BY <1>3, <1>6
    <3>2. WeekOf(x) \in Int /\ WeekOf(last) \in Int /\ (x <= last => WeekOf(x) <= WeekOf(last))
          /\ (last <= x => WeekOf(last) <= WeekOf(x))
      BY <3>1 DEF WeekOf
    <3>3. CASE x <= last
      BY <1>6, <3>2, <3>3
    <3>4. CASE last < x
      <4>1. WeekOf(x) # w
        BY <1>5, <3>1, <3>4
      <4> QED
        BY <1>6, <3>1, <3>2, <3>4, <4>1
    <3> QED
      BY <3>1, <3>3, <3>4
  <2> QED
    BY <2>1
<1>8. account = StartCapital + NetOf({r \in ClosedRows : r.day \in upto})
  <2>1. SumFunction([d \in upto |-> NetOf(RowsOfDay(d))]) = NetOf({r \in ClosedRows : r.day \in upto})
    BY <1>4, NetOfDays
  <2> QED
    BY <2>1 DEF account
<1>9. DailyPnl(days)[last].equity = StartCapital + NetOf({r \in ClosedRows : r.day \in before})
  BY <1>6, EquityIs DEF days
<1> QED
  BY <1>2, <1>6, <1>7, <1>8, <1>9 DEF days, last

\* The rows of all logged days add up to what the closed trades made.
LEMMA RollingIs ==
  ASSUME SyncTyped, NEW last, \A d \in LoggedDays : d <= last
  PROVE  Rolling([e \in LoggedDays |-> SyncOfDay(e)], last).live = NetOf(ClosedRows)
<1> DEFINE sync == [e \in LoggedDays |-> SyncOfDay(e)]
           upto == {e \in DOMAIN sync : e <= last}
           logged == Cardinality(upto)
           live == SumFunction([e \in upto |-> sync[e].net])
           trades == SumFunction([e \in upto |-> sync[e].trades])
           flags == Cardinality({e \in upto : sync[e].status = "FLAG"})
           rated == Cardinality({e \in upto : sync[e].status # "N/A"})
           last7 == Cardinality({e \in upto : e >= last - 7 /\ sync[e].status = "FLAG"})
<1>1. Rolling(sync, last) = [logged |-> logged, live |-> live, trades |-> trades, flags |-> flags, rated |-> rated,
                             last7 |-> last7]
  BY DEF Rolling
<1> HIDE DEF logged, live, trades, flags, rated, last7
<1>2. Rolling(sync, last).live = live
  BY <1>1
<1>3. upto = LoggedDays
  OBVIOUS
<1>4. \A e \in LoggedDays : sync[e].net = NetOf(RowsOfDay(e))
  BY SyncOfDayIs
<1> HIDE DEF sync, upto
<1>5. [e \in upto |-> sync[e].net] = [e \in LoggedDays |-> NetOf(RowsOfDay(e))]
  BY <1>3, <1>4
<1>6. live = NetOf({r \in ClosedRows : r.day \in LoggedDays})
  <2>1. live = SumFunction([e \in LoggedDays |-> NetOf(RowsOfDay(e))])
    BY <1>5 DEF live
  <2>2. IsFiniteSet(LoggedDays)
    BY LoggedDaysAre
  <2> QED
    BY <2>1, <2>2, NetOfDays
<1>7. {r \in ClosedRows : r.day \in LoggedDays} = ClosedRows
  BY ClosedRowsOn
<1> QED
  BY <1>2, <1>6, <1>7 DEF sync

LEMMA SheetsDerived ==
  ASSUME SyncTyped, RecomputeDays
  PROVE  SheetsAddUp'
<1>1. /\ derived'.rolling = [d \in LoggedDays |-> Rolling([e \in LoggedDays |-> SyncOfDay(e)], d)]
      /\ derived'.daily = DailyPnl(PnlDays)
      /\ derived'.windows = [d \in PnlDays |-> WindowSheet(PnlDays, d)]
      /\ derived'.weeks = WeekRows(PnlDays)
  BY DerivedIs
<1>2. DOMAIN derived'.daily = PnlDays /\ DOMAIN derived'.weeks = {WeekOf(d) : d \in PnlDays}
  BY <1>1 DEF DailyPnl, WeekRows
<1>3. \A d \in DOMAIN derived'.windows : \A w \in DOMAIN derived'.windows[d] :
        derived'.windows[d][w].net = derived'.windows[d][w].told
  <2>1. SUFFICES ASSUME NEW d \in PnlDays, NEW w \in DOMAIN WindowSheet(PnlDays, d)
                 PROVE  WindowSheet(PnlDays, d)[w].net = WindowSheet(PnlDays, d)[w].told
    BY <1>1
  <2>2. w \in {"WEEK", "ITD"}
    BY DEF WindowSheet
  <2> QED
    BY <2>2, WindowsAddUp
<1>4. \A w \in DOMAIN derived'.weeks :
        derived'.weeks[w].account = derived'.daily[Max({d \in DOMAIN derived'.daily : WeekOf(d) = w})].equity
  <2>1. SUFFICES ASSUME NEW w \in {WeekOf(d) : d \in PnlDays}
                 PROVE  WeekRows(PnlDays)[w].account
                          = DailyPnl(PnlDays)[Max({d \in PnlDays : WeekOf(d) = w})].equity
    BY <1>1, <1>2
  <2> QED
    BY WeeksAddUp
<1>5. ASSUME PnlDays # {}, LoggedDays \subseteq Min(PnlDays) .. Max(PnlDays)
      PROVE  derived'.rolling[Max(LoggedDays)].live + StartCapital = derived'.daily[Max(PnlDays)].equity
  <2> DEFINE days == PnlDays
             end == Max(days)
             top == Max(LoggedDays)
  <2>1. end \in days /\ \A x \in days : x \in Min(days) .. end
    BY <1>5, PnlDaysAre
  <2>2. LoggedDays \in SUBSET Int /\ IsFiniteSet(LoggedDays) /\ LoggedDays # {}
    BY <1>5, LoggedDaysAre, PnlDaysAre
  <2>3. top \in LoggedDays /\ \A x \in LoggedDays : x <= top
    BY <2>2, HighestIn
  <2>4. derived'.rolling[top].live = NetOf(ClosedRows)
    <3>1. Rolling([e \in LoggedDays |-> SyncOfDay(e)], top).live = NetOf(ClosedRows)
      BY <2>3, RollingIs
    <3> HIDE DEF top
    <3> QED
      BY <1>1, <2>3, <3>1
  <2>5. {r \in ClosedRows : r.day \in {x \in days : x <= end}} = ClosedRows
    <3>1. ASSUME NEW r \in ClosedRows PROVE r.day \in days /\ r.day <= end
      <4>1. r.day \in Min(days) .. end /\ r.day \notin OffDays
        BY <1>5, ClosedRowsOn
      <4>2. r.day \in days
        BY <1>5, <4>1, PnlDaysAre
      <4> QED
        BY <4>1, <4>2
    <3> HIDE DEF days, end
    <3> QED
      BY <3>1
  <2>6. derived'.daily[end].equity = StartCapital + NetOf(ClosedRows)
    BY <1>1, <2>1, <2>5, EquityIs
  <2>7. NetOf(ClosedRows) \in Int /\ StartCapital \in Int
    <3>1. IsFiniteSet(LoggedDays) /\ {r \in ClosedRows : r.day \in LoggedDays} = ClosedRows
      BY <2>2, ClosedRowsOn
    <3> QED
      BY <3>1, NetOfDays, SyncAssumption
  <2> HIDE DEF end, top
  <2> QED
    BY <2>4, <2>6, <2>7 DEF end, top
<1>6. DOMAIN derived'.rolling = LoggedDays
  BY <1>1
<1> QED
  BY <1>2, <1>3, <1>4, <1>5, <1>6 DEF SheetsAddUp

-----------------------------------------------------------------------------
(***************************************************************************)
(* The steps of the sync.                                                  *)
(***************************************************************************)
LEMMA SumsMatchSame ==
  ASSUME UNCHANGED <<logNo, paperRows>>, NEW d
  PROVE  (SumsMatch(d)' <=> SumsMatch(d)) /\ LoadedLog(d)' = LoadedLog(d)
  BY DEF SumsMatch, LoadedLog, RowsOfDay, ClosedRows

LEMMA StatusRechecked ==
  ASSUME SyncTyped, StatusTold, NEW d \in SessionDays
  PROVE  /\ Rechecked(d) \in Statuses
         /\ logNo[d] = 0 => Rechecked(d) = "NONE"
         /\ Rechecked(d) = "FINAL" => logNo[d] > 0 /\ LoadedLog(d).summary # <<>> /\ SumsMatch(d)
         /\ Rechecked(d) = "PARTIAL" => ~SumsMatch(d)
<1>1. /\ paperStatus[d] \in Statuses /\ logNo[d] \in Nat
      /\ logNo[d] = 0 => paperStatus[d] = "NONE"
      /\ paperStatus[d] = "FINAL" => logNo[d] > 0 /\ LoadedLog(d).summary # <<>>
  BY DEF SyncTyped, StatusTold
<1>2. CASE logNo[d] = 0
  BY <1>1, <1>2 DEF Rechecked, HasLog
<1>3. CASE logNo[d] > 0
  BY <1>1, <1>3 DEF Rechecked, HasLog, Statuses
<1> QED
  BY <1>1, <1>2, <1>3

LEMMA FinalDerived ==
  ASSUME SyncTyped, StatusTold, RecomputeDays
  PROVE  FinalReconciles'
<1>1. \A d \in SessionDays : paperStatus'[d] = Rechecked(d)
  BY DEF RecomputeDays
<1>2. \A d \in SessionDays : (SumsMatch(d)' <=> SumsMatch(d)) /\ LoadedLog(d)' = LoadedLog(d)
  BY SumsMatchSame DEF RecomputeDays
<1>3. ASSUME NEW d \in SessionDays, finalAt'[d] # 0 PROVE derived'.sync[d].status # "N/A"
  <2>1. HasLog(d) /\ BacktestStatus(d) = "LOADED"
    BY <1>3 DEF RecomputeDays
  <2>2. HasReplay(d)
    BY <2>1 DEF BacktestStatus
  <2>3. d \in LoggedDays
    BY <2>2 DEF LoggedDays
  <2>4. derived'.sync[d] = SyncOfDay(d)
    BY <2>3, DerivedIs
  <2> QED
    BY <2>2, <2>4, SyncOfDayIs
<1>4. ASSUME NEW d \in SessionDays
      PROVE  /\ paperStatus'[d] = "FINAL" => LoadedLog(d)'.summary # <<>> /\ SumsMatch(d)'
             /\ paperStatus'[d] = "PARTIAL" => ~SumsMatch(d)'
  BY <1>1, <1>2, StatusRechecked
<1> QED
  BY <1>3, <1>4 DEF FinalReconciles

LEMMA RecomputeKeeps ==
  ASSUME SyncInv, RecomputeDays
  PROVE  SyncInv'
<1>1. SyncTyped /\ StatusTold
  BY DEF SyncInv
<1>2. paperStatus' = [d \in SessionDays |-> Rechecked(d)] /\ UNCHANGED <<moment, logNo, replayNo, paperRows>>
  BY DEF RecomputeDays
<1>3. SyncTyped'
  BY <1>1, <1>2, StatusRechecked DEF SyncTyped
<1>4. StatusTold'
  BY <1>1, <1>2, StatusRechecked DEF StatusTold, LoadedLog
<1>5. PairsRight' /\ RowFollowsPairs' /\ ExcusedOnCapDays' /\ SheetsAddUp' /\ FinalReconciles'
  BY <1>1, PairsRightDerived, RowFollowsDerived, ExcusedDerived, SheetsDerived, FinalDerived
<1> QED
  BY <1>3, <1>4, <1>5 DEF SyncInv, DaySyncTells

\* What is stored of an earlier recomputation stays right.
LEMMA DerivedKept ==
  ASSUME DaySyncTells, UNCHANGED derived, FinalReconciles'
  PROVE  DaySyncTells'
<1>1. PairsRight' /\ RowFollowsPairs' /\ ExcusedOnCapDays' /\ SheetsAddUp'
  <2>1. PairsRight'
    BY DEF DaySyncTells, PairsRight
  <2>2. RowFollowsPairs'
    BY DEF DaySyncTells, RowFollowsPairs
  <2>3. ExcusedOnCapDays'
    BY DEF DaySyncTells, ExcusedOnCapDays
  <2>4. SheetsAddUp'
    BY DEF DaySyncTells, SheetsAddUp
  <2> QED
    BY <2>1, <2>2, <2>3, <2>4
<1> QED
  BY <1>1 DEF DaySyncTells

\* The rows of a version of a log.
LEMMA LogRows ==
  ASSUME NEW d \in SessionDays, NEW i \in DOMAIN LogsOf[d]
  PROVE  RowSet(RowsOfLog(d, LogsOf[d][i]))
<1> DEFINE trades == LogsOf[d][i].trades
           entered == {t \in trades : t.entry # 0}
           rows == RowsOfLog(d, LogsOf[d][i])
           h == [t \in entered |-> PaperRow(d, t)]
<1>1. /\ IsFiniteSet(trades) /\ \A t \in trades : SyncTraded(t)
      /\ \A t, u \in trades : t.entry = u.entry /\ t.side = u.side => t = u
      /\ d \in Nat /\ d \notin OffDays
  BY SyncAssumption DEF SessionDays
<1>2. rows = {h[t] : t \in entered}
  BY DEF RowsOfLog
<1> HIDE DEF trades, rows
<1>3. IsFiniteSet(entered)
  BY <1>1, FS_Subset
<1>4. ASSUME NEW t \in entered PROVE RowOK(h[t]) /\ h[t].entry = t.entry /\ h[t].side = t.side
  <2> DEFINE closed == t.exit # 0
             day == IF closed THEN SessionFor(t.exit) ELSE d
             gross == IF closed THEN PointsMoved(t) ELSE 0
             net == IF closed THEN NetOfTrade(t) ELSE 0
  <2>1. h[t] = [file |-> d, day |-> day, side |-> t.side, entry |-> t.entry, exit |-> t.exit, reason |-> t.reason,
                gross |-> gross, net |-> net]
    BY DEF PaperRow
  <2>2. SyncTraded(t) /\ t.entry \in Nat \ {0} /\ t.exit \in Nat
    BY <1>1 DEF SyncTraded
  <2>3. day \in Nat /\ day \notin OffDays
    BY <1>1, <2>2, SessionForIs
  <2>4. net \in Int
    BY <2>2, TradeNet
  <2> HIDE DEF day, gross, net, h
  <2>5. h[t].day = day /\ h[t].side = t.side /\ h[t].entry = t.entry /\ h[t].exit = t.exit /\ h[t].net = net
    BY <2>1
  <2> QED
    BY <2>2, <2>3, <2>4, <2>5 DEF RowOK
<1> HIDE DEF h
<1>5. Makes(h, entered, rows)
  BY <1>2 DEF Makes
<1>6. IsFiniteSet(rows)
  BY <1>3, <1>5, ImageFinite
<1>7. \A r, s \in rows : r.entry = s.entry /\ r.side = s.side => r = s
  <2>1. SUFFICES ASSUME NEW r \in rows, NEW s \in rows, r.entry = s.entry, r.side = s.side PROVE r = s
    OBVIOUS
  <2>2. PICK t \in entered : r = h[t]
    BY <1>2
  <2>3. PICK u \in entered : s = h[u]
    BY <1>2
  <2>4. t.entry = u.entry /\ t.side = u.side
    BY <1>4, <2>1, <2>2, <2>3
  <2>5. t = u
    BY <1>1, <2>4
  <2> QED
    BY <2>2, <2>3, <2>5
<1> QED
  BY <1>2, <1>4, <1>6, <1>7 DEF RowSet, rows

LEMMA LoadLogKeeps ==
  ASSUME SyncInv, NEW d \in SessionDays, LoadLog(d)
  PROVE  SyncInv'
<1> DEFINE i == logNo[d] + 1
           log == LogsOf[d][i]
           new == RowsOfLog(d, log)
           kept == {r \in paperRows : r.file # d /\ \A n \in new : <<n.entry, n.side>> # <<r.entry, r.side>>}
           status == IF ~LogConsistent(log) THEN "PARTIAL" ELSE IF log.summary # <<>> THEN "FINAL"
                     ELSE IF d < CalendarToday THEN "PRELIMINARY" ELSE "INTRADAY"
<1>1. SyncTyped /\ StatusTold /\ DaySyncTells
  BY DEF SyncInv
<1>2. /\ logNo[d] < Len(LogsOf[d]) /\ paperRows' = kept \cup new
      /\ paperStatus' = [paperStatus EXCEPT ![d] = status]
      /\ logNo' = [logNo EXCEPT ![d] = logNo[d] + 1]
      /\ touched' = TRUE /\ UNCHANGED <<moment, replayNo, derived, finalAt>>
  BY DEF LoadLog
<1>3. i \in DOMAIN LogsOf[d] /\ logNo[d] \in Nat /\ i \in Nat /\ i <= Len(LogsOf[d])
  <2>1. logNo[d] \in Nat /\ Len(LogsOf[d]) \in Nat /\ DOMAIN LogsOf[d] = 1 .. Len(LogsOf[d])
    BY <1>1, SyncAssumption DEF SyncTyped, SessionDays
  <2> QED
    BY <1>2, <2>1
<1>4. RowSet(new)
  BY <1>3, LogRows
<1> HIDE DEF new
<1>5. RowSet(paperRows')
  <2>1. RowSet(kept)
    <3>1. kept \in SUBSET paperRows
      OBVIOUS
    <3> HIDE DEF kept
    <3> QED
      BY <1>1, <3>1, ClosedOfRows
  <2>2. \A r \in kept : \A n \in new : ~(r.entry = n.entry /\ r.side = n.side)
    OBVIOUS
  <2> HIDE DEF kept
  <2>3. IsFiniteSet(kept \cup new)
    BY <1>4, <2>1, FS_Union DEF RowSet
  <2>4. \A r, s \in kept \cup new : r.entry = s.entry /\ r.side = s.side => r = s
    BY <1>4, <2>1, <2>2 DEF RowSet
  <2>5. \A r \in kept \cup new : RowOK(r)
    BY <1>4, <2>1 DEF RowSet
  <2> QED
    BY <1>2, <2>3, <2>4, <2>5 DEF RowSet
<1>6. status \in Statuses /\ (status = "FINAL" => log.summary # <<>>)
  BY DEF Statuses
<1> HIDE DEF status, kept
<1>7. SyncTyped'
  <2>1. logNo' \in [SessionDays -> Nat] /\ \A e \in SessionDays : logNo'[e] <= Len(LogsOf[e])
    BY <1>1, <1>2, <1>3 DEF SyncTyped
  <2>2. paperStatus' \in [SessionDays -> Statuses]
    BY <1>1, <1>2, <1>6 DEF SyncTyped
  <2> QED
    BY <1>1, <1>2, <1>5, <2>1, <2>2 DEF SyncTyped
<1>8. StatusTold'
  <2>1. ASSUME NEW e \in SessionDays
        PROVE  /\ logNo'[e] = 0 => paperStatus'[e] = "NONE"
               /\ paperStatus'[e] = "FINAL" => logNo'[e] > 0 /\ LogsOf[e][logNo'[e]].summary # <<>>
    <3>1. CASE e = d
      <4>1. logNo'[e] = i /\ i > 0 /\ paperStatus'[e] = status
        BY <1>1, <1>2, <1>3, <3>1 DEF SyncTyped
      <4> QED
        BY <1>6, <3>1, <4>1
    <3>2. CASE e # d
      <4>1. logNo'[e] = logNo[e] /\ paperStatus'[e] = paperStatus[e]
        BY <1>1, <1>2, <3>2 DEF SyncTyped
      <4> QED
        BY <1>1, <4>1 DEF StatusTold, LoadedLog
    <3> QED
      BY <3>1, <3>2
  <2> QED
    BY <2>1 DEF StatusTold, LoadedLog
<1>9. DaySyncTells'
  <2>1. FinalReconciles'
    BY <1>2 DEF FinalReconciles
  <2> QED
    BY <1>1, <1>2, <2>1, DerivedKept
<1> QED
  BY <1>7, <1>8, <1>9 DEF SyncInv

LEMMA LoadReplayKeeps ==
  ASSUME SyncInv, NEW d \in SessionDays, LoadReplay(d)
  PROVE  SyncInv'
<1>1. SyncTyped /\ StatusTold /\ DaySyncTells
  BY DEF SyncInv
<1>2. /\ replayNo[d] < Len(ReplaysOf[d]) /\ replayNo' = [replayNo EXCEPT ![d] = replayNo[d] + 1]
      /\ touched' = TRUE /\ UNCHANGED <<moment, logNo, paperRows, paperStatus, derived, finalAt>>
  BY DEF LoadReplay
<1>3. SyncTyped'
  <2>1. replayNo[d] \in Nat /\ Len(ReplaysOf[d]) \in Nat
    BY <1>1, SyncAssumption DEF SyncTyped, SessionDays
  <2>2. replayNo' \in [SessionDays -> Nat] /\ \A e \in SessionDays : replayNo'[e] <= Len(ReplaysOf[e])
    BY <1>1, <1>2, <2>1 DEF SyncTyped
  <2> QED
    BY <1>1, <1>2, <2>2 DEF SyncTyped
<1>4. StatusTold'
  BY <1>1, <1>2 DEF StatusTold, LoadedLog
<1>5. FinalReconciles'
  BY <1>2 DEF FinalReconciles
<1>6. DaySyncTells'
  BY <1>1, <1>2, <1>5, DerivedKept
<1> QED
  BY <1>3, <1>4, <1>6 DEF SyncInv

\* Steps that change neither what is loaded nor what is derived.
LEMMA SyncStays ==
  ASSUME SyncInv, UNCHANGED <<logNo, replayNo, paperRows, paperStatus, touched, derived, finalAt>>,
         moment' \in DOMAIN Moments
  PROVE  SyncInv'
<1>1. SyncTyped /\ StatusTold /\ DaySyncTells
  BY DEF SyncInv
<1>2. SyncTyped' /\ StatusTold'
  BY <1>1 DEF SyncTyped, StatusTold, LoadedLog
<1>3. FinalReconciles'
  <2>1. \A d \in SessionDays : (SumsMatch(d)' <=> SumsMatch(d)) /\ LoadedLog(d)' = LoadedLog(d)
    BY SumsMatchSame
  <2> QED
    BY <1>1, <2>1 DEF DaySyncTells, FinalReconciles
<1>4. DaySyncTells'
  BY <1>1, <1>3, DerivedKept
<1> QED
  BY <1>2, <1>4 DEF SyncInv

LEMMA SyncInvNext == SyncInv /\ [SyncNext]_syncVars => SyncInv'
<1> SUFFICES ASSUME SyncInv, [SyncNext]_syncVars PROVE SyncInv'
  OBVIOUS
<1>1. CASE RecomputeDays
  BY <1>1, RecomputeKeeps
<1>2. CASE MomentPasses
  <2>1. moment' \in DOMAIN Moments
    BY <1>2, SyncAssumption DEF MomentPasses, SyncInv, SyncTyped
  <2> QED
    BY <1>2, <2>1, SyncStays DEF MomentPasses
<1>3. ASSUME NEW d \in SessionDays, LoadLog(d) PROVE SyncInv'
  BY <1>3, LoadLogKeeps
<1>4. ASSUME NEW d \in SessionDays, LoadReplay(d) PROVE SyncInv'
  BY <1>4, LoadReplayKeeps
<1>5. CASE UNCHANGED syncVars
  <2>1. moment' \in DOMAIN Moments
    BY <1>5 DEF syncVars, SyncInv, SyncTyped
  <2> QED
    BY <1>5, <2>1, SyncStays DEF syncVars
<1> QED
  BY <1>1, <1>2, <1>3, <1>4, <1>5 DEF SyncNext

LEMMA SyncInvInit == SyncInit => SyncInv
<1> SUFFICES ASSUME SyncInit PROVE SyncInv
  OBVIOUS
<1>1. 1 \in DOMAIN Moments
  BY SyncAssumption
<1>2. \A d \in SessionDays : Len(LogsOf[d]) \in Nat /\ Len(ReplaysOf[d]) \in Nat
  BY SyncAssumption DEF SessionDays
<1>3. SyncTyped
  BY <1>1, <1>2, FS_EmptySet DEF SyncInit, SyncTyped, RowSet, Statuses
<1>4. StatusTold
  BY DEF SyncInit, StatusTold
<1>5. /\ derived.pairs = <<>> /\ derived.daily = <<>> /\ derived.windows = <<>> /\ derived.weeks = <<>>
  BY DEF SyncInit, NoneDerived
<1>6. PairsRight /\ RowFollowsPairs /\ ExcusedOnCapDays /\ SheetsAddUp
  BY <1>5 DEF PairsRight, RowFollowsPairs, ExcusedOnCapDays, SheetsAddUp
<1>7. FinalReconciles
  BY DEF SyncInit, FinalReconciles
<1> QED
  BY <1>3, <1>4, <1>6, <1>7 DEF SyncInv, DaySyncTells

LEMMA SyncInvImplies == SyncInv => DaySyncTells /\ SyncTypeOK
<1> SUFFICES ASSUME SyncInv PROVE DaySyncTells /\ SyncTypeOK
  OBVIOUS
<1>1. SyncTyped /\ DaySyncTells
  BY DEF SyncInv
<1>2. ASSUME NEW d \in SessionDays
      PROVE  /\ logNo[d] \in 0 .. Len(LogsOf[d]) /\ replayNo[d] \in 0 .. Len(ReplaysOf[d])
             /\ paperStatus[d] \in {"NONE", "PARTIAL", "FINAL", "PRELIMINARY", "INTRADAY"}
  <2>1. Len(LogsOf[d]) \in Nat /\ Len(ReplaysOf[d]) \in Nat
    BY SyncAssumption DEF SessionDays
  <2> QED
    BY <1>1, <2>1 DEF SyncTyped, Statuses
<1>3. \A r \in paperRows : r.entry # 0 /\ r.day \notin OffDays
  BY <1>1 DEF SyncTyped, RowSet, RowOK
<1> QED
  BY <1>1, <1>2, <1>3 DEF SyncTypeOK, SyncTyped

-----------------------------------------------------------------------------
(***************************************************************************)
(* The news files.                                                         *)
(***************************************************************************)
OneRowAUrl == \A r, q \in news : r.url = q.url => r = q
NewsDated ==
  /\ newsDay \in Nat
  /\ series = [d \in DOMAIN series |-> series[d]] /\ \A d \in DOMAIN series : series[d] \in Nat /\ series[d] <= newsDay
  /\ \A r \in chain : r.taken \in Nat

NewsInv == OneRowAUrl /\ NewsDated

\* A fetch has one row of a url, and a merge keeps the rows of the file.
LEMMA ServedOnce ==
  ASSUME NEW from, NEW filing
  PROVE  \A r, q \in Served(from, filing) : r.url = q.url => r = q
  BY ArticlesAssumption DEF Served

LEMMA MergeKeeps ==
  ASSUME OneRowAUrl, NEW new, \A r, q \in new : r.url = q.url => r = q, news' = MergeNews(news, new)
  PROVE  OneRowAUrl' /\ \A r \in news : r \in news'
  BY DEF OneRowAUrl, MergeNews

NewsRowsKept ==
  /\ \A r \in news : r \in news'
  /\ \A r, q \in news' : r.url = q.url => r = q
  /\ \A d \in DOMAIN series : d \in DOMAIN series' /\ series'[d] >= series[d]
  /\ \A r \in chain : r.taken < newsDay => r \in chain'

LEMMA NewsStep ==
  ASSUME NewsInv, NewsNext
  PROVE  NewsInv' /\ NewsRowsKept
<1>1. \A d \in DOMAIN series : series[d] >= series[d]
  BY DEF NewsInv, NewsDated
<1>2. CASE NextDay
  BY <1>1, <1>2 DEF NextDay, NewsInv, NewsRowsKept, OneRowAUrl, NewsDated
<1>3. ASSUME NEW from \in NewsStarts, FetchNews(from) \/ FetchFilings(from)
      PROVE  NewsInv' /\ NewsRowsKept
  <2>1. PICK new : news' = MergeNews(news, new) /\ \A r, q \in new : r.url = q.url => r = q
    <3>1. CASE FetchFilings(from)
      BY <3>1, ServedOnce DEF FetchFilings
    <3>2. CASE FetchNews(from)
      <4>1. PICK cut \in 1 .. newsDay + 1 : news' = MergeNews(news, {a \in Served(from, FALSE) : a.date < cut})
        BY <3>2 DEF FetchNews
      <4> DEFINE page == {a \in Served(from, FALSE) : a.date < cut}
      <4>2. \A r, q \in page : r.url = q.url => r = q
        BY ServedOnce
      <4> HIDE DEF page
      <4>3. news' = MergeNews(news, page)
        BY <4>1 DEF page
      <4> QED
        BY <4>2, <4>3
    <3> QED
      BY <1>3, <3>1, <3>2
  <2>2. OneRowAUrl' /\ \A r \in news : r \in news'
    BY <2>1, MergeKeeps DEF NewsInv
  <2>3. newsDay' = newsDay /\ series' = series /\ chain' = chain
    BY <1>3 DEF FetchNews, FetchFilings
  <2> QED
    BY <1>1, <2>2, <2>3 DEF NewsInv, NewsRowsKept, OneRowAUrl, NewsDated
<1>4. ASSUME NEW from \in NewsStarts, FetchSeries(from)
      PROVE  NewsInv' /\ NewsRowsKept
  <2> DEFINE days == from .. newsDay
  <2>1. /\ series' = [d \in DOMAIN series \cup days |-> IF d \in days THEN newsDay ELSE series[d]]
        /\ newsDay' = newsDay /\ news' = news /\ chain' = chain
    BY <1>4 DEF FetchSeries, MergeSeries
  <2> HIDE DEF days
  <2>2. \A d \in DOMAIN series' : series'[d] \in Nat /\ series'[d] <= newsDay
    BY <2>1 DEF NewsInv, NewsDated
  <2>3. \A d \in DOMAIN series : d \in DOMAIN series' /\ series'[d] >= series[d]
    BY <2>1 DEF NewsInv, NewsDated
  <2>4. series' = [d \in DOMAIN series' |-> series'[d]]
    BY <2>1
  <2> QED
    BY <2>1, <2>2, <2>3, <2>4 DEF NewsInv, NewsRowsKept, OneRowAUrl, NewsDated
<1>5. ASSUME NEW spot \in {1, 2}, FetchChain(spot)
      PROVE  NewsInv' /\ NewsRowsKept
  <2>1. /\ chain' = {r \in chain : r.taken # newsDay} \cup {[taken |-> newsDay, spot |-> spot]}
        /\ newsDay' = newsDay /\ news' = news /\ series' = series
    BY <1>5 DEF FetchChain
  <2>2. \A r \in chain' : r.taken \in Nat
    BY <2>1 DEF NewsInv, NewsDated
  <2>3. \A r \in chain : r.taken < newsDay => r \in chain'
    BY <2>1 DEF NewsInv, NewsDated
  <2> QED
    BY <1>1, <2>1, <2>2, <2>3 DEF NewsInv, NewsRowsKept, OneRowAUrl, NewsDated
<1> QED
  BY <1>2, <1>3, <1>4, <1>5 DEF NewsNext

LEMMA NewsStay == NewsInit /\ [][NewsNext]_newsVars => NewsKept
<1>1. NewsInit => NewsInv
  BY DEF NewsInit, NewsInv, OneRowAUrl, NewsDated
<1>2. NewsInv /\ [NewsNext]_newsVars => NewsInv'
  BY NewsStep DEF newsVars, NewsInv, OneRowAUrl, NewsDated
<1>3. NewsInv /\ [NewsNext]_newsVars =>
        [/\ \A r \in news : r \in news'
         /\ \A r, q \in news' : r.url = q.url => r = q
         /\ \A d \in DOMAIN series : d \in DOMAIN series' /\ series'[d] >= series[d]
         /\ \A r \in chain : r.taken < newsDay => r \in chain']_newsVars
  BY NewsStep DEF NewsRowsKept
<1> QED
  BY <1>1, <1>2, <1>3, PTL DEF NewsKept

LEMMA NewsTypedStep ==
  ASSUME NewsTypeOK, [NewsNext]_newsVars
  PROVE  NewsTypeOK'
<1>1. newsDay \in 1 .. LastNewsDay /\ LastNewsDay \in Nat
  BY NewsDaysAssumption DEF NewsTypeOK
<1> DEFINE IsPublished(r) == \E a \in Articles : a.url = r.url /\ r.date \in {a.day, a.day + 1}
<1>2. ASSUME NEW from, NEW filing, NEW r \in Served(from, filing)
      PROVE  IsPublished(r)
  <2>1. PICK a \in Articles : r = [url |-> a.url, date |-> EffectiveDate(a), scored |-> ~filing /\ a.day < newsDay]
    BY DEF Served
  <2>2. EffectiveDate(a) \in {a.day, a.day + 1}
    BY DEF EffectiveDate
  <2> QED
    BY <2>1, <2>2
<1>3. ASSUME NEW new, news' = MergeNews(news, new), \A r \in new : IsPublished(r), UNCHANGED <<newsDay, series, chain>>
      PROVE  NewsTypeOK'
  <2>1. \A r \in news' : IsPublished(r)
    BY <1>3 DEF MergeNews, NewsTypeOK
  <2> QED
    BY <1>3, <2>1 DEF NewsTypeOK
<1>4. ASSUME NEW from \in NewsStarts, FetchNews(from)
      PROVE  NewsTypeOK'
  <2>1. PICK cut : news' = MergeNews(news, {a \in Served(from, FALSE) : a.date < cut})
    BY <1>4 DEF FetchNews
  <2>2. \A r \in {a \in Served(from, FALSE) : a.date < cut} : IsPublished(r)
    BY <1>2
  <2>3. UNCHANGED <<newsDay, series, chain>>
    BY <1>4 DEF FetchNews
  <2> HIDE DEF IsPublished
  <2> QED
    BY <1>3, <2>1, <2>2, <2>3
<1>5. ASSUME NEW from \in NewsStarts, FetchFilings(from)
      PROVE  NewsTypeOK'
  <2>1. news' = MergeNews(news, Served(from, TRUE)) /\ UNCHANGED <<newsDay, series, chain>>
    BY <1>5 DEF FetchFilings
  <2> HIDE DEF IsPublished
  <2> QED
    BY <1>2, <1>3, <2>1
<1>6. ASSUME NEW from \in NewsStarts, FetchSeries(from)
      PROVE  NewsTypeOK'
  <2>1. DOMAIN series' = DOMAIN series \cup (from .. newsDay) /\ UNCHANGED <<newsDay, news, chain>>
    BY <1>6 DEF FetchSeries, MergeSeries
  <2>2. from .. newsDay \subseteq 1 .. newsDay
    BY <1>1, NewsDaysAssumption
  <2> QED
    BY <2>1, <2>2 DEF NewsTypeOK
<1>7. ASSUME NEW spot, FetchChain(spot)
      PROVE  NewsTypeOK'
  <2>1. \A r \in chain' : r \in chain \/ r.taken = newsDay
    BY <1>7 DEF FetchChain
  <2>2. newsDay \in 1 .. newsDay
    BY <1>1
  <2> QED
    BY <1>7, <2>1, <2>2 DEF FetchChain, NewsTypeOK
<1>8. CASE NextDay
  <2>1. newsDay' \in 1 .. LastNewsDay /\ \A k : k \in 1 .. newsDay => k \in 1 .. newsDay'
    BY <1>1, <1>8 DEF NextDay
  <2>2. UNCHANGED <<news, series, chain>>
    BY <1>8 DEF NextDay
  <2> QED
    BY <2>1, <2>2 DEF NewsTypeOK
<1>9. CASE UNCHANGED newsVars
  BY <1>9 DEF NewsTypeOK, newsVars
<1> QED
  BY <1>4, <1>5, <1>6, <1>7, <1>8, <1>9 DEF NewsNext

LEMMA NewsTypes == NewsInit /\ [][NewsNext]_newsVars => []NewsTypeOK
<1>1. NewsInit => NewsTypeOK
  BY NewsDaysAssumption DEF NewsInit, NewsTypeOK
<1> QED
  BY <1>1, NewsTypedStep, PTL

-----------------------------------------------------------------------------
(***************************************************************************)
(* The files of bars.                                                      *)
(***************************************************************************)
\* A file whose first and last rows are such, without a split or a longer hole between them.
SoundFile(file, top) ==
  /\ First(file) \in Days(file) /\ LastRow(file) \in Days(file) /\ Days(file) \subseteq 1 .. top
  /\ \A d \in Days(file) :
       /\ First(file) <= d /\ d <= LastRow(file) /\ file[d] = file[First(file)]
       /\ d = LastRow(file) \/ d + 1 \in Days(file) \/ d + 2 \in Days(file)

HistoryInv ==
  /\ session \in Nat /\ session >= MaxSpan
  /\ daily = [s \in Names |-> daily[s]] /\ \A s \in Names : daily[s] = NoRows \/ SoundFile(daily[s], session)
  /\ job = [left |-> job.left, start |-> job.start, end |-> job.end]
  /\ job.left \in Seq(Names) /\ job.start \in Nat \ {0} /\ job.end \in Int

LEMMA NoDays == Days(NoRows) = {}
  BY DEF Days, NoRows

\* The greatest of a bounded set.
LEMMA GreatestIs ==
  ASSUME NEW S \in SUBSET Int, NEW a \in S, \A x \in S : x <= a
  PROVE  Max(S) = a
<1>1. \A x \in S : x = a \/ ~(\A y \in S : x >= y)
  OBVIOUS
<1> QED
  BY <1>1 DEF Max

LEMMA MaxIn ==
  ASSUME NEW top \in Nat, NEW S \in SUBSET (0 .. top), S # {}
  PROVE  Max(S) \in S /\ \A x \in S : x <= Max(S)
<1> DEFINE below == {top - x : x \in S}
<1>1. below \in SUBSET Nat /\ below # {}
  <2>1. \A x \in S : top - x \in Nat
    OBVIOUS
  <2> QED
    BY <2>1, Zenon
<1>2. Min(below) \in below /\ \A x \in below : Min(below) <= x
  BY <1>1, MinIn
<1>3. PICK a \in S : Min(below) = top - a
  BY <1>2
<1>4. ASSUME NEW x \in S PROVE x <= a
  <2>1. top - x \in below
    OBVIOUS
  <2>2. top - a <= top - x
    BY <1>2, <1>3, <2>1
  <2> QED
    BY <2>2
<1>5. S \in SUBSET Int /\ a \in S
  OBVIOUS
<1>6. Max(S) = a
  BY <1>4, <1>5, GreatestIs
<1> QED
  BY <1>4, <1>6

\* The first and the last row of what is downloaded, which is of one basis and has no hole.
LEMMA DownloadIs ==
  ASSUME session \in Nat, NEW s \in Names, NEW start \in Int, NEW end \in Int, NEW d \in Days(Download(s, start, end))
  PROVE  /\ SoundFile(Download(s, start, end), session)
         /\ \A x \in Days(Download(s, start, end)) :
              Download(s, start, end)[x] = basis /\ x >= start /\ x < end
         /\ \A x \in Int : x >= d /\ x <= session /\ x < end => x \in Days(Download(s, start, end))
<1> DEFINE low == IF start > Listed[s] THEN start ELSE Listed[s]
           high == IF session < end - 1 THEN session ELSE end - 1
           got == Download(s, start, end)
<1>1. Listed[s] \in Nat \ {0}
  BY SourcesAssumption DEF Names
<1>2. /\ Days(got) = {x \in start .. session : x >= Listed[s] /\ x < end}
      /\ \A x \in Days(got) : got[x] = basis
  BY DEF Download, Days
<1>3. Days(got) = low .. high
  BY <1>1, <1>2
<1> HIDE DEF got
<1>4. d \in low .. high /\ low \in Int /\ high \in Int /\ low >= 1 /\ high <= session
  BY <1>1, <1>3 DEF got
<1>5. low \in Days(got) /\ high \in Days(got) /\ Days(got) \subseteq Int
  BY <1>3, <1>4
<1>8. \A x \in Days(got) : low <= x /\ x <= high /\ (x = high \/ x + 1 \in Days(got))
  BY <1>3, <1>4
<1> HIDE DEF low, high
<1>6. First(got) = low
  BY <1>5, <1>8, LeastIs DEF First
<1>7. LastRow(got) = high
  BY <1>5, <1>8, GreatestIs DEF LastRow
<1>9. Days(got) \subseteq 1 .. session
  BY <1>3, <1>4
<1>10. SoundFile(got, session)
  BY <1>2, <1>5, <1>6, <1>7, <1>8, <1>9 DEF SoundFile
<1>11. \A x \in Days(got) : x >= start /\ x < end
  BY <1>2
<1>12. \A x \in Int : x >= d /\ x <= session /\ x < end => x \in Days(got)
  BY <1>1, <1>2, <1>4 DEF got
<1> QED
  BY <1>2, <1>10, <1>11, <1>12 DEF got

LEMMA NothingHasNoDays ==
  ASSUME NEW S, NEW e, [d \in S |-> e] # NoRows
  PROVE  S # {}
<1>1. S = {} => [d \in S |-> e] = <<>>
  OBVIOUS
<1> QED
  BY <1>1 DEF NoRows

LEMMA DownloadHasDays ==
  ASSUME NEW s, NEW start, NEW end, Download(s, start, end) # NoRows
  PROVE  \E d : d \in Days(Download(s, start, end))
<1> DEFINE S == {x \in start .. session : x >= Listed[s] /\ x < end}
<1>1. Download(s, start, end) = [d \in S |-> basis] /\ Days(Download(s, start, end)) = S
  BY DEF Download, Days
<1> HIDE DEF S
<1>2. PICK b : b = basis
  OBVIOUS
<1>3. [d \in S |-> b] # NoRows
  BY <1>1, <1>2
<1> QED
  BY <1>1, <1>3, NothingHasNoDays

LEMMA SoundLater ==
  ASSUME NEW file, NEW top \in Nat, NEW later \in Nat, top <= later, SoundFile(file, top)
  PROVE  SoundFile(file, later)
<1>1. 1 .. top \subseteq 1 .. later
  OBVIOUS
<1> QED
  BY <1>1 DEF SoundFile

LEMMA WidestIs ==
  ASSUME NEW s \in Names, Dumps[s] # {}
  PROVE  /\ Widest(s) \in Dumps[s]
         /\ Widest(s)[1] \in 1 .. MaxSpan /\ Widest(s)[2] \in 1 .. MaxSpan /\ Widest(s)[1] <= Widest(s)[2]
<1>1. /\ MaxSpan \in Nat
      /\ \A o \in Dumps[s] : o[1] \in 1 .. MaxSpan /\ o[2] \in 1 .. MaxSpan /\ o[1] <= o[2]
  BY SourcesAssumption, SpanAssumption DEF Names
<1> DEFINE widths == {o[2] - o[1] : o \in Dumps[s]}
<1>2. widths \in SUBSET (0 .. MaxSpan) /\ widths # {}
  BY <1>1
<1>3. Max(widths) \in widths /\ \A w \in widths : w <= Max(widths)
  BY <1>1, <1>2, MaxIn
<1>4. PICK w \in widths : \A v \in widths : v <= w
  BY <1>3
<1> DEFINE ends == {e \in 0 .. MaxSpan : \E o \in Dumps[s] : o[2] = e /\ o[2] - o[1] = w}
<1>5. ends \in SUBSET (0 .. MaxSpan) /\ ends # {}
  BY <1>1, <1>4
<1>6. Max(ends) \in ends /\ \A e \in ends : e <= Max(ends)
  BY <1>1, <1>5, MaxIn
<1>7. PICK o \in Dumps[s] : o[2] = Max(ends) /\ o[2] - o[1] = w
  BY <1>6
<1>8. ASSUME NEW p \in Dumps[s]
      PROVE  \/ <<o[2] - o[1], o[2]>> = <<p[2] - p[1], p[2]>>
             \/ o[2] - o[1] > p[2] - p[1]
             \/ (o[2] - o[1] = p[2] - p[1] /\ o[2] > p[2])
  <2>1. p[2] - p[1] <= w /\ w \in Int
    BY <1>2, <1>4
  <2>2. p[2] - p[1] = w => p[2] <= o[2]
    BY <1>1, <1>6, <1>7
  <2>3. p[1] \in Int /\ p[2] \in Int /\ o[1] \in Int /\ o[2] \in Int
    BY <1>1
  <2> QED
    BY <1>7, <2>1, <2>2, <2>3
<1>9. \E x \in Dumps[s] : \A p \in Dumps[s] :
        \/ <<x[2] - x[1], x[2]>> = <<p[2] - p[1], p[2]>>
        \/ x[2] - x[1] > p[2] - p[1]
        \/ (x[2] - x[1] = p[2] - p[1] /\ x[2] > p[2])
  BY <1>8
<1>10. Widest(s) \in Dumps[s]
  BY <1>9, Zenon DEF Widest
<1> QED
  BY <1>1, <1>10

LEMMA SyncedIs ==
  ASSUME NEW s \in Names, Synced(s) # NoRows
  PROVE  SoundFile(Synced(s), MaxSpan)
<1>1. Dumps[s] # {}
  BY DEF Synced
<1> DEFINE low == Widest(s)[1]
           high == Widest(s)[2]
           file == Synced(s)
<1>2. low \in 1 .. MaxSpan /\ high \in 1 .. MaxSpan /\ low <= high
  BY <1>1, WidestIs
<1>3. Days(file) = low .. high /\ \A d \in Days(file) : file[d] = 0
  BY <1>1 DEF Synced, Days
<1> HIDE DEF low, high, file
<1>4. /\ low \in Days(file) /\ high \in Days(file) /\ Days(file) \in SUBSET Int /\ Days(file) \subseteq 1 .. MaxSpan
      /\ \A x \in Days(file) : low <= x /\ x <= high /\ (x = high \/ x + 1 \in Days(file))
  BY <1>2, <1>3, SpanAssumption
<1>5. First(file) = low
  BY <1>4, LeastIs DEF First
<1>6. LastRow(file) = high
  BY <1>4, GreatestIs DEF LastRow
<1>7. SoundFile(file, MaxSpan)
  BY <1>3, <1>4, <1>5, <1>6 DEF SoundFile
<1> QED
  BY <1>7 DEF file

\* What is asked of a source is a number of sessions.
LEMMA SpanWantedIs ==
  ASSUME HistoryInv
  PROVE  SpanWanted \in Nat
<1>1. session \in Nat /\ MaxSpan \in Nat /\ MinSpan \in Nat /\ MaxSpan <= session
  BY SpanAssumption DEF HistoryInv
<1>2. ASSUME NEW x \in Spans PROVE x[1] \in 1 .. session /\ x[2] \in 1 .. session
  <2>1. CASE \E s \in Names : daily[s] # NoRows /\ x = <<First(daily[s]), LastRow(daily[s])>>
    <3>1. PICK s \in Names : daily[s] # NoRows /\ x = <<First(daily[s]), LastRow(daily[s])>>
      BY <2>1
    <3>2. SoundFile(daily[s], session)
      BY <3>1 DEF HistoryInv
    <3>3. First(daily[s]) \in 1 .. session /\ LastRow(daily[s]) \in 1 .. session
      BY <3>2 DEF SoundFile
    <3> QED
      BY <3>1, <3>3
  <2>2. CASE \E s \in Names : Dumps[s] # {} /\ x = Widest(s)
    <3>1. PICK s \in Names : Dumps[s] # {} /\ x = Widest(s)
      BY <2>2
    <3> QED
      BY <1>1, <3>1, WidestIs
  <2> QED
    BY <2>1, <2>2 DEF Spans
<1>3. ASSUME Spans # {} PROVE Common[1] \in Int /\ Common[2] \in Int
  <2> DEFINE firsts == {x[1] : x \in Spans}
             lasts == {x[2] : x \in Spans}
  <2>1. firsts \in SUBSET (0 .. session) /\ firsts # {} /\ lasts \in SUBSET Nat /\ lasts # {}
    BY <1>1, <1>2, <1>3
  <2>2. Max(firsts) \in firsts /\ Min(lasts) \in lasts
    BY <1>1, <2>1, MaxIn, MinIn
  <2>3. Common[1] = Max(firsts) /\ Common[2] = Min(lasts)
    BY DEF Common
  <2>4. Max(firsts) \in 0 .. session /\ Min(lasts) \in Nat
    BY <2>1, <2>2, Zenon
  <2>5. Max(firsts) \in Int /\ Min(lasts) \in Int
    BY <1>1, <2>4
  <2> HIDE DEF firsts, lasts
  <2> QED
    BY <2>3, <2>5
<1>4. ASSUME NEW span, span[1] \in Int, span[2] \in Int, NEW n \in Clamped(span) PROVE n \in Nat
  <2> DEFINE w == span[2] - span[1]
  <2>1. n = Min({w, MaxSpan}) /\ w \in Int /\ ~(w < MinSpan)
    BY <1>4 DEF Clamped
  <2>2. {w, MaxSpan} \in SUBSET Nat
    BY <1>1, <2>1
  <2>3. Min({w, MaxSpan}) \in {w, MaxSpan}
    BY <2>2, MinIn
  <2> QED
    BY <2>1, <2>2, <2>3
<1>5. CASE Spans = {} \/ Clamped(Common) = {}
  BY <1>1, <1>5 DEF SpanWanted
<1>6. CASE ~(Spans = {} \/ Clamped(Common) = {})
  <2>1. SpanWanted = CHOOSE n \in Clamped(Common) : TRUE
    BY <1>6 DEF SpanWanted
  <2>2. SpanWanted \in Clamped(Common)
    BY <1>6, <2>1
  <2> QED
    BY <1>3, <1>4, <1>6, <2>2
<1> QED
  BY <1>5, <1>6

\* The file that --extend leaves: what it prepends ends one session before the old first row, and
\* on the basis of that row.
LEMMA ExtendedIs ==
  ASSUME session \in Nat, NEW s \in Names, NEW file, SoundFile(file, session), NEW start \in Int,
         NEW older, older = [d \in {x \in Days(Download(s, start, First(file) - 1)) : x < First(file)}
                               |-> Download(s, start, First(file) - 1)[d]],
         Download(s, start, First(file) - 1) # NoRows, Continuous(older, file)
  PROVE  SoundFile(Joined(file, older), session)
<1> DEFINE first == First(file)
           got == Download(s, start, first - 1)
           new == Joined(file, older)
<1>1. /\ first \in 1 .. session /\ first \in Days(file) /\ LastRow(file) \in Days(file)
      /\ Days(file) \subseteq 1 .. session
      /\ \A d \in Days(file) : /\ first <= d /\ d <= LastRow(file) /\ file[d] = file[first]
                               /\ d = LastRow(file) \/ d + 1 \in Days(file) \/ d + 2 \in Days(file)
  BY DEF SoundFile
<1>2. PICK d0 : d0 \in Days(got)
  BY DownloadHasDays
<1>3. /\ SoundFile(got, session)
      /\ \A x \in Days(got) : got[x] = basis /\ x >= start /\ x < first - 1
      /\ \A x \in Int : x >= d0 /\ x <= session /\ x < first - 1 => x \in Days(got)
  BY <1>1, <1>2, DownloadIs
<1>4. \A x \in Days(got) : x \in Int
  BY <1>3 DEF SoundFile
<1>5. {x \in Days(got) : x < first} = Days(got)
  BY <1>1, <1>3, <1>4
<1>6. Days(older) = Days(got) /\ \A x \in Days(got) : older[x] = got[x]
  BY <1>5 DEF Days
<1>7. d0 \in Int /\ d0 < first - 1
  BY <1>2, <1>3, <1>4
<1> HIDE DEF got, new
<1>8. first - 2 \in Days(got) /\ \A x \in Days(got) : x <= first - 2
  BY <1>1, <1>3, <1>4, <1>7
<1>9. older # NoRows
  BY <1>6, <1>8, NoDays
<1>10. LastRow(older) = first - 2
  <2>1. Days(older) \in SUBSET Int /\ first - 2 \in Days(older) /\ \A x \in Days(older) : x <= first - 2
    BY <1>4, <1>6, <1>8
  <2> QED
    BY <2>1, GreatestIs DEF LastRow
<1>11. basis = file[first]
  BY <1>3, <1>6, <1>8, <1>9, <1>10 DEF Continuous
<1> DEFINE low == First(got)
<1>12. /\ low \in Days(got) /\ Days(got) \subseteq 1 .. session
       /\ \A d \in Days(got) : low <= d /\ (d = first - 2 \/ d + 1 \in Days(got) \/ d + 2 \in Days(got))
  <2>1. LastRow(got) = first - 2
    BY <1>6, <1>10 DEF LastRow, Days
  <2> QED
    BY <1>3, <2>1 DEF SoundFile
<1> HIDE DEF low
<1>13. Days(new) = Days(file) \cup Days(got)
  BY <1>6 DEF new, Joined, Days
<1>14. \A x \in Days(new) : new[x] = file[first]
  <2>1. \A x \in Days(file) : new[x] = file[x]
    BY DEF new, Joined, Days
  <2>2. \A x \in Days(got) : x \notin Days(file) => new[x] = older[x]
    BY <1>6 DEF new, Joined, Days
  <2> QED
    BY <1>1, <1>3, <1>6, <1>11, <1>13, <2>1, <2>2
<1>15. First(new) = low
  <2>1. Days(new) \in SUBSET Int /\ low \in Days(new) /\ \A x \in Days(new) : low <= x
    BY <1>1, <1>4, <1>8, <1>12, <1>13
  <2> QED
    BY <2>1, LeastIs DEF First
<1>16. LastRow(new) = LastRow(file)
  <2>1. Days(new) \in SUBSET Int /\ LastRow(file) \in Days(new) /\ \A x \in Days(new) : x <= LastRow(file)
    BY <1>1, <1>4, <1>8, <1>12, <1>13
  <2> QED
    BY <2>1, GreatestIs DEF LastRow
<1>17. \A x \in Days(new) : /\ low <= x /\ x <= LastRow(file)
                            /\ x = LastRow(file) \/ x + 1 \in Days(new) \/ x + 2 \in Days(new)
  <2>1. \A x \in Days(got) : x + 1 \in Days(new) \/ x + 2 \in Days(new)
    <3>1. (first - 2) + 2 \in Days(new)
      BY <1>1, <1>13
    <3> QED
      BY <1>12, <1>13, <3>1
  <2>2. \A x \in Days(new) : low <= x /\ x <= LastRow(file)
    BY <1>1, <1>4, <1>8, <1>12, <1>13
  <2> QED
    BY <1>1, <1>13, <2>1, <2>2
<1>18. SoundFile(new, session)
  <2>1. Days(new) \subseteq 1 .. session /\ low \in Days(new) /\ LastRow(file) \in Days(new)
    BY <1>1, <1>12, <1>13
  <2> QED
    BY <1>14, <1>15, <1>16, <1>17, <2>1 DEF SoundFile
<1> QED
  BY <1>18 DEF new

\* The file that --append leaves: the rows it adds follow the last one, and agree with it.
LEMMA AppendedIs ==
  ASSUME session \in Nat, NEW s \in Names, daily[s] = NoRows \/ SoundFile(daily[s], session), NEW from \in Int
  PROVE  /\ Appended(s, from) = NoRows \/ SoundFile(Appended(s, from), session)
         /\ \A d \in Days(daily[s]) : d \in Days(Appended(s, from)) /\ Appended(s, from)[d] = daily[s][d]
<1> DEFINE got == Download(s, from, Tomorrow)
<1>1. CASE ~(daily[s] # NoRows /\ Agrees(daily[s], got))
  <2>1. Appended(s, from) = daily[s]
    BY <1>1 DEF Appended
  <2> QED
    BY <2>1
<1>2. CASE daily[s] # NoRows /\ Agrees(daily[s], got)
  <2> DEFINE added == [d \in {x \in Days(got) : x > LastRow(daily[s])} |-> got[d]]
  <2>1. PICK file, more : file = daily[s] /\ more = added
    OBVIOUS
  <2>2. Appended(s, from) = Joined(file, more)
    BY <1>2, <2>1 DEF Appended
  <2>3. SoundFile(file, session)
    BY <1>2, <2>1
  <2>4. PICK d0 : d0 \in Days(got) /\ d0 \in Days(file) /\ got[d0] = file[d0]
    BY <1>2, <2>1 DEF Agrees
  <2>5. /\ SoundFile(got, session) /\ \A x \in Days(got) : got[x] = basis
        /\ \A x \in Int : x >= d0 /\ x <= session /\ x < Tomorrow => x \in Days(got)
    BY <2>4, DownloadIs DEF Tomorrow
  <2> DEFINE last == LastRow(file)
  <2>6. Days(more) = {x \in Days(got) : x > last} /\ \A x \in Days(more) : more[x] = got[x]
    BY <2>1 DEF Days
  <2> HIDE DEF got, added
  <2>7. /\ First(file) \in Days(file) /\ last \in Days(file) /\ Days(file) \subseteq 1 .. session
        /\ \A d \in Days(file) : /\ First(file) <= d /\ d <= last /\ file[d] = file[First(file)]
                                 /\ d = last \/ d + 1 \in Days(file) \/ d + 2 \in Days(file)
    BY <2>3 DEF SoundFile
  <2>8. Days(got) \subseteq 1 .. session
    BY <2>5 DEF SoundFile
  <2> HIDE DEF last
  <2>9. Days(more) = last + 1 .. session
    <3>1. d0 <= last /\ d0 \in Int /\ last \in 1 .. session
      BY <2>4, <2>7
    <3> QED
      BY <2>5, <2>6, <2>8, <3>1 DEF Tomorrow
  <2>10. \A x \in Days(more) : more[x] = file[First(file)]
    BY <2>4, <2>5, <2>6, <2>7
  <2> DEFINE new == Joined(file, more)
  <2>11. /\ Days(new) = Days(file) \cup Days(more) /\ \A x \in Days(file) : new[x] = file[x]
         /\ \A x \in Days(new) : x \notin Days(file) => new[x] = more[x]
    BY DEF Joined, Days
  <2> HIDE DEF new
  <2>12. \A x \in Days(new) : new[x] = file[First(file)]
    BY <2>7, <2>10, <2>11
  <2>13. First(new) = First(file)
    <3>1. Days(new) \in SUBSET Int /\ First(file) \in Days(new) /\ \A x \in Days(new) : First(file) <= x
      BY <2>7, <2>9, <2>11
    <3> QED
      BY <3>1, LeastIs DEF First
  <2> DEFINE end == IF last < session THEN session ELSE last
  <2>14. end \in Days(new) /\ Days(new) \subseteq 1 .. session /\ \A x \in Days(new) : x <= end
    BY <2>7, <2>9, <2>11
  <2>15. LastRow(new) = end
    <3>1. Days(new) \in SUBSET Int
      BY <2>14
    <3> HIDE DEF end
    <3> QED
      BY <2>14, <3>1, GreatestIs DEF LastRow
  <2>16. \A x \in Days(new) : x = end \/ x + 1 \in Days(new) \/ x + 2 \in Days(new)
    <3>1. \A x \in Days(file) : x # last => x + 1 \in Days(new) \/ x + 2 \in Days(new)
      BY <2>7, <2>11
    <3>2. last # end => last + 1 \in Days(new)
      BY <2>7, <2>9, <2>11
    <3>3. \A x \in Days(more) : x = end \/ x + 1 \in Days(new)
      BY <2>7, <2>9, <2>11
    <3> QED
      BY <2>11, <3>1, <3>2, <3>3
  <2>17. First(new) \in Days(new) /\ \A x \in Days(new) : First(file) <= x
    BY <2>7, <2>9, <2>11, <2>13
  <2>18. new[First(new)] = file[First(file)]
    BY <2>12, <2>17
  <2> HIDE DEF end
  <2>19. SoundFile(new, session)
    BY <2>12, <2>13, <2>14, <2>15, <2>16, <2>17, <2>18 DEF SoundFile
  <2> QED
    BY <2>1, <2>2, <2>11, <2>19 DEF new
<1> QED
  BY <1>1, <1>2

RowsKept ==
  \A s \in Names : \A d \in Days(daily[s]) : d \in Days(daily'[s]) /\ daily'[s][d] = daily[s][d]

JobTyped ==
  /\ job = [left |-> job.left, start |-> job.start, end |-> job.end]
  /\ job.left \in Seq(Names) /\ job.start \in Nat \ {0} /\ job.end \in Int

\* A sound file may be written where none is, or where its rows are kept.
Writes(s, file) ==
  SoundFile(file, session) /\ daily' = [daily EXCEPT ![s] = file] /\ session' = session /\ JobTyped'
HasRowsOf(file, s) == \A d \in Days(daily[s]) : d \in Days(file) /\ file[d] = daily[s][d]

LEMMA WriteKeeps ==
  ASSUME HistoryInv, NEW s \in Names, NEW file, Writes(s, file)
  PROVE  HistoryInv' /\ (HasRowsOf(file, s) => RowsKept)
<1>1. daily'[s] = file /\ \A t \in Names : t # s => daily'[t] = daily[t]
  BY DEF HistoryInv, Writes
<1>2. daily' = [t \in Names |-> daily'[t]]
  BY DEF HistoryInv, Writes
<1>3. \A t \in Names : daily'[t] = NoRows \/ SoundFile(daily'[t], session)
  BY <1>1 DEF HistoryInv, Writes
<1>4. HistoryInv'
  BY <1>2, <1>3 DEF HistoryInv, JobTyped, Writes
<1> QED
  BY <1>1, <1>4 DEF RowsKept, HasRowsOf

LEMMA FetchMarketDataKeeps ==
  ASSUME HistoryInv, NEW s \in Names, FetchMarketData(s)
  PROVE  HistoryInv' /\ RowsKept
<1>1. /\ daily[s] = NoRows /\ session' = session /\ job' = job
      /\ \E file \in {Synced(s), ViaApi(s)} \ {NoRows} : daily' = [daily EXCEPT ![s] = file]
  BY DEF FetchMarketData
<1>2. PICK file \in {Synced(s), ViaApi(s)} \ {NoRows} : daily' = [daily EXCEPT ![s] = file]
  BY <1>1
<1>3. CASE file = Synced(s)
  <2>1. SoundFile(file, MaxSpan)
    BY <1>2, <1>3, SyncedIs
  <2>2. SoundFile(file, session)
    BY <2>1, SoundLater, SpanAssumption DEF HistoryInv
  <2>4. Writes(s, file) /\ HasRowsOf(file, s)
    BY <1>1, <1>2, <2>2, NoDays DEF Writes, HasRowsOf, JobTyped, HistoryInv
  <2> QED
    BY <2>4, WriteKeeps
<1>4. CASE file = ViaApi(s)
  <2>1. /\ file = Download(s, session - SpanWanted, Tomorrow) /\ file # NoRows
        /\ session \in Nat /\ session - SpanWanted \in Int /\ Tomorrow \in Int
    BY <1>2, <1>4, SpanWantedIs DEF ViaApi, HistoryInv, Tomorrow
  <2>2. \E d : d \in Days(file)
    BY <2>1, DownloadHasDays
  <2>3. SoundFile(file, session)
    BY <2>1, <2>2, DownloadIs
  <2>4. Writes(s, file) /\ HasRowsOf(file, s)
    BY <1>1, <1>2, <2>3, NoDays DEF Writes, HasRowsOf, JobTyped, HistoryInv
  <2> QED
    BY <2>4, WriteKeeps
<1> QED
  BY <1>2, <1>3, <1>4

LEMMA FetchKeeps ==
  ASSUME HistoryInv, NEW s \in Names, NEW start \in Starts, FetchStocks(s, start) \/ FetchDaily(s, start)
  PROVE  HistoryInv' /\ (FetchStocks(s, start) => RowsKept)
<1>1. PICK file : file = Download(s, start, Tomorrow)
  OBVIOUS
<1>2. /\ file # NoRows /\ daily' = [daily EXCEPT ![s] = file] /\ session' = session /\ job' = job
      /\ FetchStocks(s, start) => daily[s] = NoRows
  BY <1>1 DEF FetchStocks, FetchDaily
<1>3. session \in Nat /\ start \in Int /\ Tomorrow \in Int
  BY SourcesAssumption DEF HistoryInv, Tomorrow
<1>4. \E d : d \in Days(file)
  BY <1>1, <1>2, DownloadHasDays
<1>5. SoundFile(file, session)
  BY <1>1, <1>3, <1>4, DownloadIs
<1>6. Writes(s, file) /\ (FetchStocks(s, start) => HasRowsOf(file, s))
  BY <1>2, <1>5, NoDays DEF Writes, HasRowsOf, JobTyped, HistoryInv
<1> QED
  BY <1>6, WriteKeeps

LEMMA StartExtendKeeps ==
  ASSUME HistoryInv, NEW start \in Starts, StartExtend(start)
  PROVE  HistoryInv' /\ RowsKept
<1>1. /\ job' = [left |-> Tickers, start |-> start, end |-> Tomorrow]
      /\ session' = session /\ daily' = daily
  BY DEF StartExtend
<1>2. Tickers \in Seq(Names) /\ start \in Nat \ {0} /\ Tomorrow \in Int
  BY SourcesAssumption DEF Names, Tomorrow, HistoryInv
<1> QED
  BY <1>1, <1>2 DEF HistoryInv, RowsKept

LEMMA ExtendStepKeeps ==
  ASSUME HistoryInv, ExtendStep
  PROVE  HistoryInv' /\ RowsKept
<1> DEFINE s == Head(job.left)
           early == daily[s] # NoRows /\ First(daily[s]) <= job.start + Warmup
           end == IF daily[s] # NoRows /\ ~early THEN First(daily[s]) - 1 ELSE job.end
           got == Download(s, job.start, end)
           older == [d \in {x \in Days(got) : x < First(daily[s])} |-> got[d]]
<1>1. /\ job.left # <<>> /\ session' = session
      /\ job' = [job EXCEPT !.left = Tail(job.left), !.end = end]
      /\ \/ daily' = daily
         \/ /\ ~early /\ got # NoRows
            /\ IF daily[s] = NoRows THEN daily' = [daily EXCEPT ![s] = got]
               ELSE Continuous(older, daily[s]) /\ daily' = [daily EXCEPT ![s] = Joined(daily[s], older)]
  BY DEF ExtendStep
<1>2. s \in Names /\ Tail(job.left) \in Seq(Names)
  <2> HIDE DEF early, end, got, older
  <2>1. PICK queue : queue = job.left
    OBVIOUS
  <2>2. queue \in Seq(Names) /\ queue # <<>>
    BY <1>1, <2>1 DEF HistoryInv
  <2>3. Head(queue) \in Names /\ Tail(queue) \in Seq(Names)
    BY <2>2
  <2> QED
    BY <2>1, <2>3
<1>3. daily[s] = NoRows \/ SoundFile(daily[s], session)
  BY <1>2 DEF HistoryInv
<1>4. session \in Nat /\ job.start \in Int
  BY DEF HistoryInv
<1>5. daily[s] # NoRows => First(daily[s]) \in Int
  BY <1>3, <1>4 DEF SoundFile
<1>6. end \in Int
  BY <1>5 DEF HistoryInv
<1>7. JobTyped'
  <2> PICK e, rest : e = end /\ rest = Tail(job.left)
    OBVIOUS
  <2>1. job' = [left |-> rest, start |-> job.start, end |-> e]
    BY <1>1 DEF HistoryInv
  <2>2. job.start \in Nat \ {0} /\ e \in Int /\ rest \in Seq(Names)
    BY <1>2, <1>6 DEF HistoryInv
  <2> HIDE DEF s, early, end, got, older
  <2> QED
    BY <2>1, <2>2 DEF JobTyped
<1>8. CASE daily' = daily
  BY <1>1, <1>7, <1>8 DEF HistoryInv, RowsKept, JobTyped
<1>9. CASE daily[s] = NoRows /\ got # NoRows /\ daily' = [daily EXCEPT ![s] = got]
  <2>1. PICK file : file = got
    OBVIOUS
  <2>2. \E d : d \in Days(got)
    BY <1>9, DownloadHasDays
  <2>3. SoundFile(file, session)
    BY <1>2, <1>4, <1>6, <2>1, <2>2, DownloadIs
  <2> HIDE DEF early, end, got, older
  <2> QED
    <3>1. Writes(s, file) /\ HasRowsOf(file, s)
      BY <1>1, <1>2, <1>7, <1>9, <2>1, <2>3, NoDays DEF Writes, HasRowsOf
    <3>2. s \in Names
      BY <1>2
    <3> QED
      BY <3>1, <3>2, WriteKeeps
<1>10. CASE /\ daily[s] # NoRows /\ ~early /\ got # NoRows
            /\ Continuous(older, daily[s]) /\ daily' = [daily EXCEPT ![s] = Joined(daily[s], older)]
  <2>1. PICK file, more, sym, start : file = daily[s] /\ more = older /\ sym = s /\ start = job.start
    OBVIOUS
  <2>2. end = First(file) - 1
    BY <1>10, <2>1
  <2>3. /\ more = [d \in {x \in Days(Download(sym, start, First(file) - 1)) : x < First(file)}
                     |-> Download(sym, start, First(file) - 1)[d]]
        /\ Download(sym, start, First(file) - 1) # NoRows
    BY <1>10, <2>1, <2>2
  <2>4. sym \in Names /\ start \in Int /\ SoundFile(file, session) /\ Continuous(more, file)
    BY <1>2, <1>3, <1>4, <1>10, <2>1
  <2>5. SoundFile(Joined(file, more), session)
    BY <1>4, <2>3, <2>4, ExtendedIs
  <2>6. \A d \in Days(file) : d \in Days(Joined(file, more)) /\ Joined(file, more)[d] = file[d]
    BY DEF Joined, Days
  <2>7. daily' = [daily EXCEPT ![sym] = Joined(file, more)] /\ file = daily[sym] /\ session' = session
    BY <1>1, <1>10, <2>1
  <2> HIDE DEF s, early, end, got, older
  <2> PICK new : new = Joined(file, more)
    OBVIOUS
  <2>8. \A d \in Days(daily[sym]) : d \in Days(new) /\ new[d] = daily[sym][d]
    BY <2>6, <2>7
  <2>9. SoundFile(new, session) /\ daily' = [daily EXCEPT ![sym] = new]
    BY <2>5, <2>7
  <2>10. Writes(sym, new) /\ HasRowsOf(new, sym)
    BY <1>7, <2>7, <2>8, <2>9 DEF Writes, HasRowsOf
  <2> QED
    BY <2>4, <2>10, WriteKeeps
<1> QED
  BY <1>1, <1>8, <1>9, <1>10

LEMMA AppendDailyKeeps ==
  ASSUME HistoryInv, AppendDaily
  PROVE  HistoryInv' /\ RowsKept
<1> DEFINE ends == {LastRow(daily[s]) : s \in {x \in Names : daily[x] # NoRows}}
<1>8. PICK served : daily' = [s \in Names |-> IF s \in served THEN Appended(s, Min(ends) - Overlap) ELSE daily[s]]
  BY Zenon DEF AppendDaily
<1>1. PICK from : /\ from = Min(ends) - Overlap
                  /\ daily' = [s \in Names |-> IF s \in served THEN Appended(s, from) ELSE daily[s]]
  BY <1>8
<1>2. (\E s \in Names : daily[s] # NoRows) /\ session' = session /\ job' = job
  BY DEF AppendDaily
<1>3. \A s \in Names : daily[s] = NoRows \/ SoundFile(daily[s], session)
  BY DEF HistoryInv
<1>4. session \in Nat
  BY DEF HistoryInv
<1>5. from \in Int
  <2>1. \A s \in Names : daily[s] # NoRows => LastRow(daily[s]) \in Nat
    BY <1>3, <1>4 DEF SoundFile
  <2>2. ends \in SUBSET Nat /\ ends # {}
    BY <1>2, <2>1
  <2>3. Min(ends) \in ends
    BY <2>2, MinIn
  <2>4. Min(ends) \in Nat
    BY <2>2, <2>3
  <2> HIDE DEF ends
  <2> QED
    BY <1>1, <2>4, OverlapAssumption
<1>6. ASSUME NEW s \in Names
      PROVE  /\ daily'[s] = NoRows \/ SoundFile(daily'[s], session)
             /\ \A d \in Days(daily[s]) : d \in Days(daily'[s]) /\ daily'[s][d] = daily[s][d]
  <2>1. daily'[s] = IF s \in served THEN Appended(s, from) ELSE daily[s]
    BY <1>1
  <2>2. /\ Appended(s, from) = NoRows \/ SoundFile(Appended(s, from), session)
        /\ \A d \in Days(daily[s]) : d \in Days(Appended(s, from)) /\ Appended(s, from)[d] = daily[s][d]
    BY <1>3, <1>4, <1>5, AppendedIs
  <2> QED
    BY <1>3, <2>1, <2>2
<1>7. daily' = [s \in Names |-> daily'[s]]
  BY <1>1
<1> QED
  BY <1>2, <1>6, <1>7 DEF HistoryInv, RowsKept

LEMMA NextSessionKeeps ==
  ASSUME HistoryInv, NextSession
  PROVE  HistoryInv' /\ RowsKept
<1>1. session' = session + 1 /\ daily' = daily /\ job' = job
  BY DEF NextSession
<1>2. session \in Nat /\ session' \in Nat /\ session <= session' /\ session' >= MaxSpan
  BY <1>1, SpanAssumption DEF HistoryInv
<1>3. \A s \in Names : daily[s] = NoRows \/ SoundFile(daily[s], session')
  <2> PICK top, later : top = session /\ later = session'
    OBVIOUS
  <2>1. ASSUME NEW s \in Names, SoundFile(daily[s], top) PROVE SoundFile(daily[s], later)
    <3>1. top \in Nat /\ later \in Nat /\ top <= later
      BY <1>2
    <3> QED
      BY <2>1, <3>1, SoundLater
  <2>2. \A s \in Names : daily[s] = NoRows \/ SoundFile(daily[s], top)
    BY DEF HistoryInv
  <2> QED
    BY <2>1, <2>2
<1>4. \A s \in Names : daily'[s] = NoRows \/ SoundFile(daily'[s], session')
  BY <1>1, <1>3
<1> QED
  BY <1>1, <1>2, <1>4 DEF HistoryInv, RowsKept

LEMMA HistoryStays == HistoryInit /\ [][HistoryNext]_historyVars => HistoryKept /\ []HistorySound
<1>1. HistoryInit => HistoryInv
  BY SpanAssumption DEF HistoryInit, HistoryInv
<1>2. ASSUME HistoryInv, HistoryNext
      PROVE  HistoryInv' /\ (RowsKept \/ \E s \in Names, start \in Starts : FetchDaily(s, start))
  BY <1>2, NextSessionKeeps, ExtendStepKeeps, AppendDailyKeeps, FetchMarketDataKeeps, StartExtendKeeps,
     FetchKeeps DEF HistoryNext
<1>3. HistoryInv /\ [HistoryNext]_historyVars => HistoryInv'
  BY <1>2 DEF historyVars, HistoryInv
<1>4. HistoryInv /\ [HistoryNext]_historyVars =>
        [\/ \E s \in Names, start \in Starts : FetchDaily(s, start)
         \/ \A s \in Names : \A d \in Days(daily[s]) :
              d \in Days(daily'[s]) /\ daily'[s][d] = daily[s][d]]_historyVars
  BY <1>2 DEF RowsKept
<1>5. HistoryInv => HistorySound
  <2> SUFFICES ASSUME HistoryInv, NEW s \in Names, NEW d \in Days(daily[s])
               PROVE  /\ daily[s][d] = daily[s][First(daily[s])]
                      /\ d = LastRow(daily[s]) \/ {d + 1, d + 2} \cap Days(daily[s]) # {}
    BY DEF HistorySound
  <2>1. SoundFile(daily[s], session)
    BY NoDays DEF HistoryInv
  <2> QED
    BY <2>1 DEF SoundFile
<1> QED
  BY <1>1, <1>3, <1>4, <1>5, PTL DEF HistoryKept

\* Rows are on bases that have been.
Based(file) == \A d \in Days(file) : file[d] \in 0 .. basis
HistoryBased ==
  /\ session <= LastSession /\ basis \in 0 .. MaxSplits
  /\ \A s \in Names : Based(daily[s])

LEMMA HistoryTypesFromInv ==
  ASSUME HistoryInv, HistoryBased
  PROVE  HistoryTypeOK
<1>1. session \in MaxSpan .. LastSession
  BY SpanAssumption, BoundsAssumption DEF HistoryInv, HistoryBased
<1>2. ASSUME NEW s \in Names, NEW d \in Days(daily[s])
      PROVE  d \in 1 .. session /\ daily[s][d] \in 0 .. basis
  <2>1. SoundFile(daily[s], session)
    BY NoDays DEF HistoryInv
  <2> QED
    BY <2>1 DEF SoundFile, HistoryBased, Based
<1>3. job.left = <<>> \/ Head(job.left) \in Names
  BY DEF HistoryInv
<1> QED
  BY <1>1, <1>2, <1>3 DEF HistoryTypeOK, HistoryBased

LEMMA BasedWrite ==
  ASSUME HistoryInv, HistoryBased, NEW s \in Names, NEW file, Based(file),
         daily' = [daily EXCEPT ![s] = file], UNCHANGED <<session, basis>>
  PROVE  HistoryBased'
<1>1. \A t \in Names : daily'[t] = IF t = s THEN file ELSE daily[t]
  BY DEF HistoryInv
<1> QED
  BY <1>1 DEF HistoryBased, Based, Days

LEMMA DownloadBased ==
  ASSUME basis \in Nat, NEW s, NEW start, NEW end
  PROVE  Based(Download(s, start, end)) /\ \A d \in Days(Download(s, start, end)) : Download(s, start, end)[d] = basis
<1>1. \A d \in Days(Download(s, start, end)) : Download(s, start, end)[d] = basis
  BY DEF Download, Days
<1>2. basis \in 0 .. basis
  OBVIOUS
<1> QED
  BY <1>1, <1>2 DEF Based

LEMMA JoinedBased ==
  ASSUME NEW a, NEW b, Based(a), Based(b)
  PROVE  Based(Joined(a, b))
  BY DEF Based, Joined, Days

LEMMA PartBased ==
  ASSUME NEW file, Based(file), NEW S, S \subseteq Days(file)
  PROVE  Based([d \in S |-> file[d]])
  BY DEF Based, Days

LEMMA HistoryBasedStep ==
  ASSUME HistoryInv, HistoryBased, [HistoryNext]_historyVars
  PROVE  HistoryBased'
<1>1. basis \in Nat /\ MaxSplits \in Nat /\ LastSession \in Nat /\ session \in Nat
  BY BoundsAssumption DEF HistoryBased, HistoryInv
<1>2. \A s \in Names : Based(daily[s])
  BY DEF HistoryBased
<1>3. ASSUME NEW s \in Names, FetchMarketData(s)
      PROVE  HistoryBased'
  <2>1. PICK file \in {Synced(s), ViaApi(s)} \ {NoRows} : daily' = [daily EXCEPT ![s] = file]
    BY <1>3 DEF FetchMarketData
  <2>2. Based(ViaApi(s))
    BY <1>1, DownloadBased DEF ViaApi
  <2>3. Synced(s) # NoRows => Based(Synced(s))
    <3>1. 0 \in 0 .. basis
      BY <1>1
    <3> QED
      BY <3>1 DEF Synced, Based, Days
  <2>4. Based(file) /\ UNCHANGED <<session, basis>>
    BY <1>3, <2>1, <2>2, <2>3 DEF FetchMarketData
  <2> QED
    BY <2>1, <2>4, BasedWrite
<1>4. ASSUME NEW s \in Names, NEW start \in Starts, FetchDaily(s, start) \/ FetchStocks(s, start)
      PROVE  HistoryBased'
  <2>1. daily' = [daily EXCEPT ![s] = Download(s, start, Tomorrow)] /\ UNCHANGED <<session, basis>>
    BY <1>4 DEF FetchDaily, FetchStocks
  <2>2. Based(Download(s, start, Tomorrow))
    BY <1>1, DownloadBased
  <2> QED
    BY <2>1, <2>2, BasedWrite
<1>5. ASSUME NEW start \in Starts, StartExtend(start)
      PROVE  HistoryBased'
  BY <1>5 DEF StartExtend, HistoryBased, Based
<1>6. CASE ExtendStep
  <2> DEFINE s == Head(job.left)
             early == daily[s] # NoRows /\ First(daily[s]) <= job.start + Warmup
             end == IF daily[s] # NoRows /\ ~early THEN First(daily[s]) - 1 ELSE job.end
             got == Download(s, job.start, end)
             older == [d \in {x \in Days(got) : x < First(daily[s])} |-> got[d]]
  <2>1. /\ job.left # <<>> /\ UNCHANGED <<session, basis>>
        /\ \/ daily' = daily
           \/ daily' = [daily EXCEPT ![s] = got]
           \/ daily' = [daily EXCEPT ![s] = Joined(daily[s], older)]
    BY <1>6, Zenon DEF ExtendStep
  <2>2. s \in Names
    <3>1. PICK queue : queue = job.left
      OBVIOUS
    <3>2. queue \in Seq(Names) /\ queue # <<>>
      BY <2>1, <3>1 DEF HistoryInv
    <3>3. Head(queue) \in Names
      BY <3>2
    <3> QED
      BY <3>1, <3>3
  <2>3. Based(got)
    BY <1>1, DownloadBased
  <2> HIDE DEF got
  <2>4. Based(older)
    <3>1. {x \in Days(got) : x < First(daily[s])} \subseteq Days(got)
      OBVIOUS
    <3> QED
      BY <2>3, <3>1, PartBased
  <2> HIDE DEF older, s
  <2>5. Based(Joined(daily[s], older))
    BY <1>2, <2>2, <2>4, JoinedBased
  <2>6. CASE daily' = daily
    BY <2>1, <2>6 DEF HistoryBased, Based
  <2> QED
    BY <2>1, <2>2, <2>3, <2>5, <2>6, BasedWrite
<1>7. CASE AppendDaily
  <2> DEFINE oldest == Min({LastRow(daily[s]) : s \in {x \in Names : daily[x] # NoRows}}) - Overlap
  <2>0. PICK served : /\ daily' = [s \in Names |-> IF s \in served THEN Appended(s, oldest) ELSE daily[s]]
                      /\ UNCHANGED <<session, basis>>
    BY <1>7, Zenon DEF AppendDaily
  <2>1. PICK from : /\ daily' = [s \in Names |-> IF s \in served THEN Appended(s, from) ELSE daily[s]]
                    /\ UNCHANGED <<session, basis>>
    BY <2>0
  <2> HIDE DEF oldest
  <2>2. ASSUME NEW s \in Names PROVE Based(Appended(s, from))
    <3> DEFINE got == Download(s, from, Tomorrow)
               added == [d \in {x \in Days(got) : x > LastRow(daily[s])} |-> got[d]]
    <3>1. Appended(s, from) = daily[s] \/ Appended(s, from) = Joined(daily[s], added)
      BY Zenon DEF Appended
    <3>2. Based(got)
      BY <1>1, DownloadBased
    <3> HIDE DEF got
    <3>3. Based(added)
      <4>1. {x \in Days(got) : x > LastRow(daily[s])} \subseteq Days(got)
        OBVIOUS
      <4> QED
        BY <3>2, <4>1, PartBased
    <3> HIDE DEF added
    <3> QED
      BY <1>2, <3>1, <3>3, JoinedBased
  <2>3. \A s \in Names : daily'[s] = Appended(s, from) \/ daily'[s] = daily[s]
    BY <2>1
  <2>4. \A s \in Names : Based(daily'[s])
    BY <1>2, <2>2, <2>3
  <2> QED
    BY <2>1, <2>4 DEF HistoryBased, Based
<1>8. CASE NextSession
  <2>1. PICK split \in {0, 1} : basis + split <= MaxSplits /\ basis' = basis + split
    BY <1>8 DEF NextSession
  <2>2. basis' \in 0 .. MaxSplits /\ \A k \in 0 .. basis : k \in 0 .. basis'
    BY <1>1, <2>1
  <2>3. session' <= LastSession /\ daily' = daily
    BY <1>1, <1>8 DEF NextSession
  <2> QED
    BY <2>2, <2>3 DEF HistoryBased, Based
<1>9. CASE UNCHANGED historyVars
  BY <1>9 DEF HistoryBased, Based, historyVars
<1> QED
  BY <1>3, <1>4, <1>5, <1>6, <1>7, <1>8, <1>9 DEF HistoryNext

LEMMA HistoryTypes == HistoryInit /\ [][HistoryNext]_historyVars => []HistoryTypeOK
<1>1. HistoryInit => HistoryInv /\ HistoryBased
  BY SpanAssumption, BoundsAssumption, NoDays DEF HistoryInit, HistoryInv, HistoryBased, Based
<1>2. HistoryInv /\ [HistoryNext]_historyVars => HistoryInv'
  BY NextSessionKeeps, ExtendStepKeeps, AppendDailyKeeps, FetchMarketDataKeeps, StartExtendKeeps,
     FetchKeeps DEF HistoryNext, historyVars, HistoryInv
<1> QED
  BY <1>1, <1>2, HistoryBasedStep, HistoryTypesFromInv, PTL
=============================================================================
