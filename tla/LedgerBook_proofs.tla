------------------------- MODULE LedgerBook_proofs --------------------------
(***************************************************************************)
(* Why the books balance, for any deals, corrections, closings and prices. *)
(*                                                                         *)
(* The closing compares two sums, one over the orders and one over the     *)
(* entries, so what they rest on is a theory of sums over finite sets,     *)
(* proved first from the definition of the fold by taking a smallest set   *)
(* that fails.  The books' invariant is TotalsAreNet: the entries of a     *)
(* period and type add up to what each deal leaves there, its order minus  *)
(* its reversal.  One appended entry changes one summand on either side.   *)
(* Where nobody corrected and the cancellations are settled, what a deal   *)
(* leaves is what it owes.                                                 *)
(***************************************************************************)
EXTENDS LedgerBook, FiniteSetTheorems, WellFoundedInduction, TLAPS

-----------------------------------------------------------------------------
(* Sums over finite sets *)

\* A family of subsets of a finite set that has each one as soon as it has all smaller ones
\* has them all.
LEMMA SubsetInduction ==
    ASSUME NEW S, IsFiniteSet(S), NEW F,
           \A T \in SUBSET S : (\A U \in SUBSET T : U # T => U \in F) => T \in F
    PROVE  S \in F
<1> DEFINE Bad == {T \in FiniteSubsetsOf(S) : T \notin F}
<1>1. SUFFICES ASSUME S \notin F PROVE FALSE
  OBVIOUS
<1>2. S \in Bad
  BY <1>1, FS_Subset DEF FiniteSubsetsOf
<1>3. PICK T \in Bad : \A U \in Bad : ~ (<<U, T>> \in StrictSubsetOrdering(S))
  <2>1. Bad \subseteq FiniteSubsetsOf(S) /\ Bad # {}
    BY <1>2
  <2> HIDE DEF Bad
  <2> QED BY <2>1, FS_StrictSubsetOrderingWellFounded, WFMin
<1>4. T \in SUBSET S /\ IsFiniteSet(T) /\ T \notin F
  BY DEF FiniteSubsetsOf
<1>5. ASSUME NEW U \in SUBSET T, U # T PROVE U \in F
  <2>1. U \in FiniteSubsetsOf(S) /\ <<U, T>> \in StrictSubsetOrdering(S)
    BY <1>4, <1>5, FS_Subset DEF FiniteSubsetsOf, StrictSubsetOrdering
  <2> QED BY <1>3, <2>1
<1> QED BY <1>4, <1>5

\* A family that has the empty set, and with a set the set with one element more.
LEMMA FamilyInduction ==
    ASSUME NEW S, IsFiniteSet(S), NEW F,
           {} \in F,
           \A T \in SUBSET S : \A x \in S \ T : T \in F => T \cup {x} \in F
    PROVE  S \in F
<1>1. ASSUME NEW T \in SUBSET S, \A U \in SUBSET T : U # T => U \in F
      PROVE  T \in F
  <2>1. CASE T = {}
    BY <2>1
  <2>2. CASE T # {}
    <3>1. PICK x \in T : TRUE
      BY <2>2
    <3>2. (T \ {x}) \cup {x} = T /\ x \in S \ (T \ {x}) /\ T \ {x} \in F
      BY <1>1, <3>1
    <3> QED BY <3>2
  <2> QED BY <2>1, <2>2
<1> QED BY <1>1, SubsetInduction

\* What the fold computes with.
Pick(s) == CHOOSE x \in s : TRUE
IsSum(g, f, S) == g = [s \in SUBSET S |-> IF s = {} THEN 0 ELSE f[Pick(s)] + g[s \ {Pick(s)}]]

\* The sum is what such a function has on the whole set.
LEMMA SumIsFold ==
    ASSUME NEW S, NEW f
    PROVE  SumFunctionOnSet(f, S) = (CHOOSE g : IsSum(g, f, S))[S]
BY DEF SumFunctionOnSet, FoldFunctionOnSet, MapThenFoldSet, IsSum, Pick

\* What is picked is an element.
LEMMA PickIn == \A s : s # {} => Pick(s) \in s
BY DEF Pick

\* What a function that sums has on each subset.
LEMMA SumAt ==
    ASSUME NEW g, NEW f, NEW S, IsSum(g, f, S), NEW s \in SUBSET S
    PROVE  /\ s = {} => g[s] = 0
           /\ s # {} => g[s] = f[Pick(s)] + g[s \ {Pick(s)}]
<1> DEFINE at(r) == IF r = {} THEN 0 ELSE f[Pick(r)] + g[r \ {Pick(r)}]
<1>1. g = [r \in SUBSET S |-> at(r)]
  BY DEF IsSum
<1>2. g[s] = at(s)
  <2> HIDE DEF at
  <2> QED BY <1>1
<1> QED BY <1>2

\* Two of them agree where both are defined.
LEMMA SumUnique ==
    ASSUME NEW g, NEW h, NEW f, NEW S, NEW T, NEW U \in SUBSET S,
           IsFiniteSet(U), U \subseteq T, IsSum(g, f, S), IsSum(h, f, T)
    PROVE  g[U] = h[U]
<1> DEFINE F == {V \in SUBSET U : g[V] = h[V]}
<1>1. ASSUME NEW V \in SUBSET U, \A W \in SUBSET V : W # V => W \in F
      PROVE  V \in F
  <2>1. V \in SUBSET S /\ V \in SUBSET T
    OBVIOUS
  <2>2. CASE V = {}
    BY <2>1, <2>2, SumAt
  <2>3. CASE V # {}
    <3>1. V \ {Pick(V)} \in F
      BY <1>1, <2>3, PickIn
    <3>2. g[V] = f[Pick(V)] + g[V \ {Pick(V)}] /\ h[V] = f[Pick(V)] + h[V \ {Pick(V)}]
      BY <2>1, <2>3, SumAt
    <3> QED BY <3>1, <3>2
  <2> QED BY <2>2, <2>3
<1>2. U \in F
  <2> HIDE DEF F
  <2> QED BY <1>1, SubsetInduction
<1> QED BY <1>2

\* On a finite set there is one.
LEMMA SumExists ==
    ASSUME NEW f, NEW S, IsFiniteSet(S)
    PROVE  \E g : IsSum(g, f, S)
<1> DEFINE F == {T \in SUBSET S : \E g : IsSum(g, f, T)}
           On(T) == CHOOSE g : IsSum(g, f, T)
<1>1. ASSUME NEW T \in SUBSET S, \A U \in SUBSET T : U # T => U \in F
      PROVE  T \in F
  <2> DEFINE at(s) == IF s = {} THEN 0
                      ELSE f[Pick(s)] + On(s \ {Pick(s)})[s \ {Pick(s)}]
             g == [s \in SUBSET T |-> at(s)]
  <2>1. ASSUME NEW U \in SUBSET T, U # T PROVE IsSum(On(U), f, U) /\ IsFiniteSet(U)
    BY <1>1, <2>1, FS_Subset
  <2>2. ASSUME NEW U \in SUBSET T, U # T PROVE g[U] = On(U)[U]
    <3>0. g[U] = at(U) /\ IsSum(On(U), f, U)
      BY <2>1, <2>2
    <3>1. CASE U = {}
      <4>1. On(U)[U] = 0
        BY <3>0, <3>1, SumAt
      <4> QED BY <3>0, <3>1, <4>1
    <3>2. CASE U # {}
      <4> DEFINE V == U \ {Pick(U)}
      <4>1. V \in SUBSET U /\ V \in SUBSET T /\ V # T
        BY <2>2
      <4>2. IsSum(On(V), f, V) /\ IsFiniteSet(V)
        BY <2>1, <4>1
      <4>3. On(U)[V] = On(V)[V]
        <5> HIDE DEF V, On
        <5> QED BY <3>0, <4>1, <4>2, SumUnique
      <4>4. On(U)[U] = f[Pick(U)] + On(U)[V]
        BY <3>0, <3>2, SumAt
      <4>5. at(U) = f[Pick(U)] + On(V)[V]
        BY <3>2
      <4> QED BY <3>0, <4>3, <4>4, <4>5
    <3> QED BY <3>1, <3>2
  <2>3. ASSUME NEW s \in SUBSET T, s # {}
        PROVE  at(s) = f[Pick(s)] + g[s \ {Pick(s)}]
    <3>1. s \ {Pick(s)} \in SUBSET T /\ s \ {Pick(s)} # T
      BY <2>3, PickIn
    <3>2. g[s \ {Pick(s)}] = On(s \ {Pick(s)})[s \ {Pick(s)}]
      <4> HIDE DEF g, On
      <4> QED BY <2>2, <3>1
    <3>3. at(s) = f[Pick(s)] + On(s \ {Pick(s)})[s \ {Pick(s)}]
      BY <2>3
    <3> QED BY <3>2, <3>3
  <2>4. \A s \in SUBSET T : at(s) = IF s = {} THEN 0 ELSE f[Pick(s)] + g[s \ {Pick(s)}]
    <3> TAKE s \in SUBSET T
    <3>1. CASE s = {}
      BY <3>1
    <3>2. CASE s # {}
      <4>1. at(s) = f[Pick(s)] + g[s \ {Pick(s)}]
        BY <2>3, <3>2
      <4> HIDE DEF at, g
      <4> QED BY <3>2, <4>1
    <3> QED BY <3>1, <3>2
  <2>5. g = [s \in SUBSET T |-> IF s = {} THEN 0 ELSE f[Pick(s)] + g[s \ {Pick(s)}]]
    <3>1. g = [s \in SUBSET T |-> at(s)]
      OBVIOUS
    <3> HIDE DEF at, g
    <3> QED BY <2>4, <3>1
  <2>6. IsSum(g, f, T)
    <3> HIDE DEF g
    <3> QED BY <2>5 DEF IsSum
  <2> HIDE DEF g
  <2> QED BY <2>6
<1>2. S \in F
  <2> HIDE DEF F
  <2> QED BY <1>1, SubsetInduction
<1> QED BY <1>2

\* A sum takes its elements one after the other.
LEMMA SumStep ==
    ASSUME NEW f, NEW S, IsFiniteSet(S)
    PROVE  /\ S = {} => SumFunctionOnSet(f, S) = 0
           /\ S # {} => SumFunctionOnSet(f, S) =
                            f[Pick(S)] + SumFunctionOnSet(f, S \ {Pick(S)})
<1> DEFINE On(T) == CHOOSE g : IsSum(g, f, T)
           R == S \ {Pick(S)}
<1>1. IsFiniteSet(R) /\ R \in SUBSET S
  BY FS_Subset
<1>2. IsSum(On(S), f, S)
  BY SumExists
<1>3. IsSum(On(R), f, R)
  <2> HIDE DEF R
  <2> QED BY <1>1, SumExists
<1>4. SumFunctionOnSet(f, S) = On(S)[S] /\ SumFunctionOnSet(f, R) = On(R)[R]
  <2> HIDE DEF R
  <2> QED BY SumIsFold
<1>5. On(S)[R] = On(R)[R]
  <2> HIDE DEF R, On
  <2>1. R \subseteq R
    OBVIOUS
  <2>2. \A g, h : IsSum(g, f, S) /\ IsSum(h, f, R) => g[R] = h[R]
    <3> TAKE g, h
    <3> HAVE IsSum(g, f, S) /\ IsSum(h, f, R)
    <3>1. R \in SUBSET S /\ IsFiniteSet(R) /\ R \subseteq R
      BY <1>1
    <3> QED BY <3>1, SumUnique, SMTT(60)
  <2> QED BY <1>2, <1>3, <2>2
<1>6. /\ S = {} => On(S)[S] = 0
      /\ S # {} => On(S)[S] = f[Pick(S)] + On(S)[R]
  <2> HIDE DEF On
  <2> QED BY <1>2, SumAt
<1> HIDE DEF On
<1> QED BY <1>4, <1>5, <1>6

\* Sums of integers are integers, of naturals naturals.
LEMMA SumType ==
    ASSUME NEW f, NEW S, IsFiniteSet(S), NEW N, N = Int \/ N = Nat, \A x \in S : f[x] \in N
    PROVE  SumFunctionOnSet(f, S) \in N
<1> DEFINE F == {T \in SUBSET S : SumFunctionOnSet(f, T) \in N}
<1>1. ASSUME NEW T \in SUBSET S, \A U \in SUBSET T : U # T => U \in F
      PROVE  T \in F
  <2>1. IsFiniteSet(T)
    BY FS_Subset
  <2>2. CASE T = {}
    <3>1. SumFunctionOnSet(f, T) = 0
      BY <2>1, <2>2, SumStep
    <3>2. 0 \in N
      OBVIOUS
    <3> QED BY <3>1, <3>2
  <2>3. CASE T # {}
    <3>1. Pick(T) \in T
      BY <2>3, PickIn
    <3>2. T \ {Pick(T)} \in F
      BY <1>1, <3>1
    <3>3. SumFunctionOnSet(f, T) = f[Pick(T)] + SumFunctionOnSet(f, T \ {Pick(T)})
      BY <2>1, <2>3, SumStep
    <3>4. f[Pick(T)] \in N /\ SumFunctionOnSet(f, T \ {Pick(T)}) \in N
      BY <3>1, <3>2
    <3>5. SumFunctionOnSet(f, T) \in N
      BY <3>3, <3>4
    <3> QED BY <3>5
  <2> QED BY <2>2, <2>3
<1>2. S \in F
  <2> HIDE DEF F
  <2> QED BY <1>1, SubsetInduction
<1> QED BY <1>2

\* Only the summands matter.
LEMMA SumSame ==
    ASSUME NEW f, NEW g, NEW S, IsFiniteSet(S), \A x \in S : f[x] = g[x]
    PROVE  SumFunctionOnSet(f, S) = SumFunctionOnSet(g, S)
<1> DEFINE F == {T \in SUBSET S : SumFunctionOnSet(f, T) = SumFunctionOnSet(g, T)}
<1>1. ASSUME NEW T \in SUBSET S, \A U \in SUBSET T : U # T => U \in F
      PROVE  T \in F
  <2>1. IsFiniteSet(T)
    BY FS_Subset
  <2>2. CASE T = {}
    <3>1. SumFunctionOnSet(f, T) = 0 /\ SumFunctionOnSet(g, T) = 0
      BY <2>1, <2>2, SumStep
    <3> QED BY <3>1
  <2>3. CASE T # {}
    <3>1. Pick(T) \in T
      BY <2>3, PickIn
    <3>2. T \ {Pick(T)} \in F
      BY <1>1, <3>1
    <3>3. /\ SumFunctionOnSet(f, T) = f[Pick(T)] + SumFunctionOnSet(f, T \ {Pick(T)})
          /\ SumFunctionOnSet(g, T) = g[Pick(T)] + SumFunctionOnSet(g, T \ {Pick(T)})
      BY <2>1, <2>3, SumStep
    <3>4. f[Pick(T)] = g[Pick(T)]
      BY <3>1
    <3> QED BY <3>2, <3>3, <3>4
  <2> QED BY <2>2, <2>3
<1>2. S \in F
  <2> HIDE DEF F
  <2> QED BY <1>1, SubsetInduction
<1> QED BY <1>2

\* Any summand may be taken first.
LEMMA SumRemove ==
    ASSUME NEW f, NEW S, IsFiniteSet(S), \A x \in S : f[x] \in Int, NEW y \in S
    PROVE  SumFunctionOnSet(f, S) = f[y] + SumFunctionOnSet(f, S \ {y})
<1> DEFINE F == {T \in SUBSET S : \A x \in T :
                    SumFunctionOnSet(f, T) = f[x] + SumFunctionOnSet(f, T \ {x})}
<1>1. ASSUME NEW T \in SUBSET S, \A U \in SUBSET T : U # T => U \in F
      PROVE  T \in F
  <2> SUFFICES ASSUME NEW x \in T
               PROVE  SumFunctionOnSet(f, T) = f[x] + SumFunctionOnSet(f, T \ {x})
    OBVIOUS
  <2>1. /\ \A U \in SUBSET T : IsFiniteSet(U) /\ \A z \in U : f[z] \in Int
        /\ Pick(T) \in T
    BY FS_Subset, PickIn
  <2>2. SumFunctionOnSet(f, T) = f[Pick(T)] + SumFunctionOnSet(f, T \ {Pick(T)})
    BY <2>1, SumStep
  <2>3. CASE x = Pick(T)
    BY <2>2, <2>3
  <2>4. CASE x # Pick(T)
    <3> DEFINE p == Pick(T)
    <3> HIDE DEF p
    <3>0. p = Pick(T) /\ p \in T /\ x # p
      BY <2>1, <2>4 DEF p
    <3>1. T \ {p} \in F /\ T \ {x} \in F /\ x \in T \ {p} /\ p \in T \ {x}
      BY <1>1, <3>0
    <3>2. /\ SumFunctionOnSet(f, T \ {p}) = f[x] + SumFunctionOnSet(f, (T \ {p}) \ {x})
          /\ SumFunctionOnSet(f, T \ {x}) = f[p] + SumFunctionOnSet(f, (T \ {x}) \ {p})
      BY <3>1
    <3>3. (T \ {p}) \ {x} = (T \ {x}) \ {p}
      OBVIOUS
    <3>4. /\ f[x] \in Int /\ f[p] \in Int
          /\ SumFunctionOnSet(f, (T \ {x}) \ {p}) \in Int
      <4>1. /\ (T \ {x}) \ {p} \in SUBSET T /\ IsFiniteSet((T \ {x}) \ {p})
            /\ \A z \in (T \ {x}) \ {p} : f[z] \in Int
        BY <2>1
      <4> QED BY <3>0, <4>1, SumType
    <3>5. SumFunctionOnSet(f, T) = f[p] + SumFunctionOnSet(f, T \ {p})
      BY <2>2, <3>0
    <3> DEFINE all == SumFunctionOnSet(f, T)
               others == SumFunctionOnSet(f, T \ {x})
               rest == SumFunctionOnSet(f, (T \ {x}) \ {p})
    <3>6. all = f[p] + (f[x] + rest)
      BY <3>2, <3>3, <3>5
    <3>7. others = f[p] + rest /\ rest \in Int
      BY <3>2, <3>4
    <3> HIDE DEF all, others, rest
    <3>8. all = f[x] + others
      BY <3>4, <3>6, <3>7
    <3> QED BY <3>8 DEF all, others
  <2> QED BY <2>3, <2>4
<1>2. S \in F
  <2> HIDE DEF F
  <2> QED BY <1>1, SubsetInduction
<1> QED BY <1>2

\* One summand more.
LEMMA SumAdd ==
    ASSUME NEW f, NEW S, IsFiniteSet(S), NEW y, y \notin S,
           \A x \in S \cup {y} : f[x] \in Int
    PROVE  SumFunctionOnSet(f, S \cup {y}) = SumFunctionOnSet(f, S) + f[y]
<1>1. (S \cup {y}) \ {y} = S /\ y \in S \cup {y}
  OBVIOUS
<1>2. IsFiniteSet(S \cup {y})
  BY FS_AddElement
<1>3. SumFunctionOnSet(f, S \cup {y}) = f[y] + SumFunctionOnSet(f, (S \cup {y}) \ {y})
  BY <1>1, <1>2, SumRemove
<1>4. SumFunctionOnSet(f, S) \in Int /\ f[y] \in Int
  BY SumType
<1>5. SumFunctionOnSet(f, S \cup {y}) = f[y] + SumFunctionOnSet(f, S)
  BY <1>1, <1>3
<1> QED BY <1>4, <1>5

\* Nothing is added by zeros.
LEMMA SumZeros ==
    ASSUME NEW f, NEW S, NEW T \in SUBSET S, IsFiniteSet(S),
           \A x \in S : f[x] \in Int, \A x \in S \ T : f[x] = 0
    PROVE  SumFunctionOnSet(f, S) = SumFunctionOnSet(f, T)
<1> DEFINE F == {U \in SUBSET (S \ T) : SumFunctionOnSet(f, T \cup U) = SumFunctionOnSet(f, T)}
<1>1. {} \in F
  <2>1. T \cup {} = T
    OBVIOUS
  <2> QED BY <2>1
<1>2. ASSUME NEW U \in SUBSET (S \ T), NEW x \in (S \ T) \ U, U \in F
      PROVE  U \cup {x} \in F
  <2>1. /\ IsFiniteSet(T \cup U) /\ x \notin T \cup U /\ f[x] = 0
        /\ \A z \in (T \cup U) \cup {x} : f[z] \in Int
    <3>1. T \cup U \in SUBSET S
      OBVIOUS
    <3> QED BY <3>1, FS_Subset
  <2>2. SumFunctionOnSet(f, (T \cup U) \cup {x}) = SumFunctionOnSet(f, T \cup U) + f[x]
    BY <2>1, SumAdd
  <2>3. SumFunctionOnSet(f, T \cup U) \in Int
    BY <2>1, SumType
  <2>4. (T \cup U) \cup {x} = T \cup (U \cup {x})
    OBVIOUS
  <2>5. SumFunctionOnSet(f, (T \cup U) \cup {x}) = SumFunctionOnSet(f, T)
    BY <1>2, <2>1, <2>2, <2>3
  <2> QED BY <2>4, <2>5
<1>3. S \ T \in F
  <2>1. IsFiniteSet(S \ T)
    BY FS_Subset
  <2> HIDE DEF F
  <2> QED BY <1>1, <1>2, <2>1, FamilyInduction
<1>4. T \cup (S \ T) = S
  OBVIOUS
<1> QED BY <1>3, <1>4

\* One summand changed.
LEMMA SumChange ==
    ASSUME NEW f, NEW g, NEW S, IsFiniteSet(S), NEW y \in S,
           \A x \in S : f[x] \in Int /\ g[x] \in Int,
           \A x \in S \ {y} : g[x] = f[x]
    PROVE  SumFunctionOnSet(g, S) = SumFunctionOnSet(f, S) + (g[y] - f[y])
<1>1. IsFiniteSet(S \ {y})
  BY FS_Subset
<1>2. /\ SumFunctionOnSet(f, S) = f[y] + SumFunctionOnSet(f, S \ {y})
      /\ SumFunctionOnSet(g, S) = g[y] + SumFunctionOnSet(g, S \ {y})
  BY SumRemove
<1>3. SumFunctionOnSet(g, S \ {y}) = SumFunctionOnSet(f, S \ {y})
  BY <1>1, SumSame
<1>4. SumFunctionOnSet(f, S \ {y}) \in Int
  BY <1>1, SumType
<1> QED BY <1>2, <1>3, <1>4

-----------------------------------------------------------------------------
(* Entries and what is appended to them *)

\* SetToSeq lists the elements of a finite set, each once.
LEMMA SetListed ==
    ASSUME NEW S, IsFiniteSet(S)
    PROVE  /\ SetToSeq(S) \in [1 .. Cardinality(S) -> S] /\ Cardinality(S) \in Nat
           /\ \A i, j \in 1 .. Cardinality(S) : SetToSeq(S)[i] = SetToSeq(S)[j] => i = j
           /\ \A x \in S : \E i \in 1 .. Cardinality(S) : SetToSeq(S)[i] = x
<1> DEFINE n == Cardinality(S)
<1>1. n \in Nat /\ ExistsBijection(1 .. n, S)
  BY FS_CardinalityType
<1>2. PICK b \in Bijection(1 .. n, S) : TRUE
  BY <1>1 DEF ExistsBijection
<1>3. b \in [1 .. n -> S] /\ IsInjective(b)
  BY <1>2 DEF Bijection, Injection, IsInjective
<1> DEFINE q == SetToSeq(S)
<1>4. q \in [1 .. n -> S] /\ IsInjective(q)
  BY <1>3 DEF SetToSeq
<1>5. q \in Injection(1 .. n, S)
  BY <1>4 DEF Injection, IsInjective
<1>6. IsFiniteSet(1 .. n) /\ Cardinality(1 .. n) = n
  BY <1>1, FS_Interval
<1>7. q \in Surjection(1 .. n, S)
  BY <1>5, <1>6, FS_Injection
<1>8. \A x \in S : \E i \in 1 .. n : q[i] = x
  BY <1>7 DEF Surjection
<1>9. \A i, j \in 1 .. n : q[i] = q[j] => i = j
  BY <1>4 DEF IsInjective
<1> QED BY <1>1, <1>4, <1>8, <1>9

\* m is l with the entries es after it, in some order.
Appends(l, es, m) ==
    /\ m \in Seq(LedgerEntries)
    /\ \A i \in DOMAIN l : i \in DOMAIN m /\ m[i] = l[i]
    /\ \A i \in DOMAIN m : i \notin DOMAIN l => m[i] \in es
    /\ \A e \in es : \E i \in DOMAIN m : i \notin DOMAIN l /\ m[i] = e
    /\ \A i, j \in DOMAIN m : i \notin DOMAIN l /\ j \notin DOMAIN l /\ m[i] = m[j] => i = j

\* Appending the elements of a finite set, in the order SetToSeq takes, is that.
LEMMA EntriesAppended ==
    ASSUME NEW l \in Seq(LedgerEntries), NEW es \in SUBSET LedgerEntries, IsFiniteSet(es)
    PROVE  Appends(l, es, l \o SetToSeq(es))
<1> DEFINE q == SetToSeq(es)
           n == Cardinality(es)
           m == l \o q
<1>1. /\ q \in [1 .. n -> es] /\ n \in Nat
      /\ \A i, j \in 1 .. n : q[i] = q[j] => i = j
      /\ \A x \in es : \E i \in 1 .. n : q[i] = x
  BY SetListed
<1> HIDE DEF q, n
<1>2. q \in Seq(LedgerEntries) /\ Len(q) = n
  BY <1>1
<1>3. /\ m \in Seq(LedgerEntries) /\ Len(m) = Len(l) + n
      /\ \A i \in 1 .. Len(l) : m[i] = l[i]
      /\ \A i \in 1 .. n : m[Len(l) + i] = q[i]
  BY <1>1, <1>2
<1> HIDE DEF m
<1>4. DOMAIN l = 1 .. Len(l) /\ DOMAIN m = 1 .. Len(l) + n /\ Len(l) \in Nat
  BY <1>2, <1>3
<1>5. ASSUME NEW i \in DOMAIN m, i \notin DOMAIN l
      PROVE  i - Len(l) \in 1 .. n /\ m[i] = q[i - Len(l)]
  <2>1. i - Len(l) \in 1 .. n /\ Len(l) + (i - Len(l)) = i
    BY <1>1, <1>4, <1>5
  <2> QED BY <1>3, <2>1
<1>6. \A e \in es : \E i \in DOMAIN m : i \notin DOMAIN l /\ m[i] = e
  <2> TAKE e \in es
  <2>1. PICK k \in 1 .. n : q[k] = e
    BY <1>1
  <2>2. Len(l) + k \in DOMAIN m /\ Len(l) + k \notin DOMAIN l /\ m[Len(l) + k] = e
    BY <1>1, <1>3, <1>4, <2>1
  <2> QED BY <2>2
<1>7. \A i, j \in DOMAIN m : i \notin DOMAIN l /\ j \notin DOMAIN l /\ m[i] = m[j] => i = j
  <2> SUFFICES ASSUME NEW i \in DOMAIN m, NEW j \in DOMAIN m, i \notin DOMAIN l,
                      j \notin DOMAIN l, m[i] = m[j]
               PROVE  i = j
    OBVIOUS
  <2>1. i - Len(l) = j - Len(l)
    BY <1>1, <1>5
  <2> QED BY <1>4, <2>1
<1>8. \A i \in DOMAIN m : i \notin DOMAIN l => m[i] \in es
  BY <1>1, <1>5
<1>9. \A i \in DOMAIN l : i \in DOMAIN m /\ m[i] = l[i]
  BY <1>1, <1>3, <1>4
<1>10. Appends(l, es, m)
  BY <1>3, <1>6, <1>7, <1>8, <1>9 DEF Appends
<1> QED BY <1>10 DEF m, q

\* The entries of a period and type, and their sum.
Indices(l, p, t) == {i \in DOMAIN l : l[i].at = p /\ l[i].type = t}
SumOf(l, p, t) == SumFunctionOnSet(EntryAmounts(l), Indices(l, p, t))

\* A total of the ledger, as a function of the ledger.
LEMMA LedgerTotalIs == \A p, t : LedgerTotal(p, t) = SumOf(ledger, p, t)
BY DEF LedgerTotal, SumOf, Indices

\* The amounts of typed entries are integers, and few enough to add up.
LEMMA EntriesTyped ==
    ASSUME NEW l \in Seq(LedgerEntries), NEW I \in SUBSET DOMAIN l
    PROVE  /\ IsFiniteSet(DOMAIN l) /\ IsFiniteSet(I)
           /\ \A i \in DOMAIN l : l[i] \in LedgerEntries /\ EntryAmounts(l)[i] = l[i].amount
                                  /\ EntryAmounts(l)[i] \in Int
<1>1. DOMAIN l = 1 .. Len(l) /\ Len(l) \in Nat
  OBVIOUS
<1>2. IsFiniteSet(DOMAIN l)
  BY <1>1, FS_Interval
<1>3. IsFiniteSet(I)
  BY <1>2, FS_Subset
<1>4. \A i \in DOMAIN l : l[i] \in LedgerEntries
  OBVIOUS
<1> QED BY <1>2, <1>3, <1>4 DEF EntryAmounts, LedgerEntries

\* What is appended changes the sum by the entry of that period and type, if there is one.
LEMMA SumAppends ==
    ASSUME NEW l \in Seq(LedgerEntries), NEW es, NEW m, Appends(l, es, m), NEW p, NEW t,
           \A e, f \in es : e.type = f.type => e = f
    PROVE  /\ (\A e \in es : ~(e.at = p /\ e.type = t)) => SumOf(m, p, t) = SumOf(l, p, t)
           /\ \A e \in es : e.at = p /\ e.type = t =>
                 SumOf(m, p, t) = SumOf(l, p, t) + e.amount
<1> DEFINE I == Indices(l, p, t)
           J == Indices(m, p, t)
           a == EntryAmounts(l)
           b == EntryAmounts(m)
<1>1. m \in Seq(LedgerEntries) /\ I \in SUBSET DOMAIN l /\ J \in SUBSET DOMAIN m
  BY DEF Appends, Indices
<1>2. /\ IsFiniteSet(I) /\ IsFiniteSet(J)
      /\ \A i \in DOMAIN l : a[i] = l[i].amount /\ a[i] \in Int
      /\ \A i \in DOMAIN m : b[i] = m[i].amount /\ b[i] \in Int
  <2> HIDE DEF I, J, a, b
  <2> QED BY <1>1, EntriesTyped DEF a, b
<1>3. \A i \in DOMAIN l : i \in DOMAIN m /\ m[i] = l[i] /\ b[i] = a[i]
  <2> HIDE DEF a, b
  <2> QED BY <1>2 DEF Appends
<1>4. SumFunctionOnSet(b, I) = SumFunctionOnSet(a, I)
  <2>1. \A i \in I : b[i] = a[i]
    BY <1>1, <1>3
  <2> HIDE DEF I, a, b
  <2> QED BY <1>2, <2>1, SumSame
<1>5. I \subseteq J /\ \A i \in J : i \in I \/ i \notin DOMAIN l
  BY <1>3 DEF Indices
<1>6. ASSUME \A e \in es : ~(e.at = p /\ e.type = t)
      PROVE  SumOf(m, p, t) = SumOf(l, p, t)
  <2>1. J = I
    BY <1>5, <1>6 DEF Appends, Indices
  <2> QED BY <1>4, <2>1 DEF SumOf
<1>7. ASSUME NEW e \in es, e.at = p, e.type = t
      PROVE  SumOf(m, p, t) = SumOf(l, p, t) + e.amount
  <2>1. PICK k \in DOMAIN m : k \notin DOMAIN l /\ m[k] = e
    BY DEF Appends
  <2>2. k \in J /\ k \notin I
    BY <1>7, <2>1 DEF Indices
  <2>3. \A i \in J : i \in I \/ i = k
    <3> SUFFICES ASSUME NEW i \in J, i \notin I PROVE i = k
      OBVIOUS
    <3>1. i \in DOMAIN m /\ i \notin DOMAIN l /\ m[i].type = t /\ m[i] \in es
      BY <1>5 DEF Indices, Appends
    <3>2. m[i] = m[k]
      BY <1>7, <2>1, <3>1
    <3> QED BY <2>1, <3>1, <3>2 DEF Appends
  <2>4. J = I \cup {k}
    BY <1>5, <2>2, <2>3
  <2>5. \A i \in I \cup {k} : b[i] \in Int
    BY <1>1, <1>2, <2>4
  <2>6. SumFunctionOnSet(b, I \cup {k}) = SumFunctionOnSet(b, I) + b[k]
    <3> HIDE DEF I, b
    <3> QED BY <1>2, <2>2, <2>5, SumAdd
  <2>7. b[k] = e.amount
    BY <1>2, <2>1
  <2>8. SumOf(m, p, t) = SumFunctionOnSet(b, I \cup {k}) /\ SumOf(l, p, t) = SumFunctionOnSet(a, I)
    BY <2>4 DEF SumOf
  <2> HIDE DEF I, a, b, J
  <2> QED BY <1>4, <2>6, <2>7, <2>8
<1> QED BY <1>6, <1>7

-----------------------------------------------------------------------------
(* Why the books balance *)

\* What the assumption says of the constants, as the proofs below use it.
LEMMA LedgerNumbers ==
    /\ Days \in Nat \ {0} /\ Periods \subseteq Nat /\ 0 \notin Periods /\ 1 \in Periods
    /\ IsFiniteSet(Deals) /\ Corrections \cap Closings = {}
    /\ \A d \in Deals : /\ KindOf[d] \in {"cod", "prepaid", "unpaid"}
                        /\ LinesOf(KindOf[d]) \subseteq EntryTypes
                        /\ IsFiniteSet(LinesOf(KindOf[d]))
                        /\ \A t \in EntryTypes : PriceOf[d][t] \in Nat /\ PriceOf[d][t] \in Int
    /\ LinesOf("cod") = CancellationReversed
<1>1. \A a, b, c : IsFiniteSet({a}) /\ IsFiniteSet({a, b}) /\ IsFiniteSet({a, b, c})
  <2> TAKE a, b, c
  <2>1. {a, b} = {a} \cup {b} /\ {a, b, c} = {a, b} \cup {c}
    OBVIOUS
  <2>2. IsFiniteSet({a})
    BY FS_Singleton
  <2>3. IsFiniteSet({a, b})
    BY <2>1, <2>2, FS_AddElement
  <2> QED BY <2>1, <2>2, <2>3, FS_AddElement
<1>2. \A d \in Deals : KindOf[d] \in {"cod", "prepaid", "unpaid"}
  BY LedgerAssumption
<1>3. ASSUME NEW d \in Deals
      PROVE  LinesOf(KindOf[d]) \subseteq EntryTypes /\ IsFiniteSet(LinesOf(KindOf[d]))
  BY <1>1, <1>2 DEF LinesOf, EntryTypes
<1>4. \A d \in Deals, t \in EntryTypes : PriceOf[d][t] \in Nat
  BY LedgerAssumption
<1>5. LinesOf("cod") = CancellationReversed
  BY DEF LinesOf, CancellationReversed
<1> QED BY <1>2, <1>3, <1>4, <1>5, LedgerAssumption DEF Periods

\* The entry of an order: there is one for each line, and no other.
LEMMA OneOriginal ==
    ASSUME LedgerTypeOK, EntriesFit, NothingTwice, NEW d, NEW t, NEW i \in DOMAIN ledger,
           ~ledger[i].adjustment, ledger[i].deal = d, ledger[i].type = t
    PROVE  Original(d, t) = {ledger[i]}
<1>1. \A j \in DOMAIN ledger :
         ~ledger[j].adjustment /\ ledger[j].deal = d /\ ledger[j].type = t => j = i
  <2>1. \A j \in DOMAIN ledger : ledger[j] \in LedgerEntries
    BY EntriesTyped DEF LedgerTypeOK
  <2>2. \A j \in DOMAIN ledger : ~ledger[j].adjustment => ledger[j].adjustment = ledger[i].adjustment
    BY <2>1 DEF LedgerEntries
  <2> QED BY <2>2 DEF NothingTwice
<1> QED BY <1>1 DEF Original

\* Where nobody corrected and every cancellation is settled, each deal's entries come to
\* what it owes.
LEMMA NetIsOwed ==
    ASSUME LedgerTypeOK, LedgerInv, NEW p \in Periods, ~Corrected(p), NEW t \in EntryTypes,
           NEW d \in Deals, deal[d].at = p => heard[d] # "pending"
    PROVE  Net(d, p, t) = IF Owed(d, p, t) THEN PriceOf[d][t] ELSE 0
<1>1. /\ EntriesFit /\ OrdersBooked /\ CancelledReversed /\ NothingTwice
      /\ p # 0 /\ PriceOf[d][t] \in Int /\ LinesOf("cod") = CancellationReversed
  BY LedgerNumbers DEF LedgerInv
<1>2. ASSUME NEW i \in DOMAIN ledger, ledger[i].adjustment, ledger[i].deal = d,
             ledger[i].type = t, p = ledger[i].at \/ p = deal[d].at
      PROVE  /\ ledger[i].at = p /\ deal[d].at = p /\ t \in LinesOf(KindOf[d])
             /\ deal[d].status = "cancelled" /\ ledger[i].source \in Automatic
  <2>1. deal[d].at # 0 /\ t \in LinesOf(KindOf[d])
    BY <1>1, <1>2 DEF EntriesFit
  <2>2. PICK j \in DOMAIN ledger :
           ~ledger[j].adjustment /\ ledger[j].deal = d /\ ledger[j].type = t
    BY <1>1, <2>1 DEF OrdersBooked, Original
  <2>3. ledger[j].at = deal[d].at
    BY <1>1, <2>2 DEF EntriesFit
  <2>4. ledger[i].source \in Automatic
    BY <1>2, <2>2, <2>3 DEF Corrected
  <2>5. ledger[i].at = deal[d].at /\ deal[d].status = "cancelled"
    BY <1>1, <1>2, <2>4 DEF EntriesFit
  <2> QED BY <1>2, <2>1, <2>4, <2>5
<1>3. CASE AdjustedIn(d, p, t)
  <2>1. PICK i \in DOMAIN ledger : /\ ledger[i].adjustment /\ ledger[i].at = p
                                   /\ ledger[i].deal = d /\ ledger[i].type = t
    BY <1>3 DEF AdjustedIn
  <2>2. deal[d].at = p /\ t \in LinesOf(KindOf[d]) /\ deal[d].status = "cancelled"
    BY <1>2, <2>1
  <2>3. Net(d, p, t) = 0
    BY <1>1, <1>3, <2>2 DEF Net
  <2>4. ledger[i].source \in Automatic
    BY <1>2, <2>1
  <2>5. KindOf[d] = "cod"
    BY <1>1, <2>1, <2>4 DEF EntriesFit
  <2>6. ~Owed(d, p, t)
    BY <2>2, <2>5 DEF Owed
  <2> QED BY <2>3, <2>6
<1>4. CASE ~AdjustedIn(d, p, t)
  <2>1. Net(d, p, t) = IF deal[d].at = p /\ t \in LinesOf(KindOf[d]) THEN PriceOf[d][t] ELSE 0
    BY <1>1, <1>4 DEF Net
  <2>2. ASSUME deal[d].at = p, t \in LinesOf(KindOf[d]), KindOf[d] = "cod",
               deal[d].status = "cancelled"
        PROVE  FALSE
    <3>1. Adjusted(d, t)
      BY <1>1, <2>2 DEF CancelledReversed
    <3>2. PICK i \in DOMAIN ledger :
             ledger[i].adjustment /\ ledger[i].deal = d /\ ledger[i].type = t
      BY <3>1 DEF Adjusted
    <3>3. ledger[i].at = p
      BY <1>2, <2>2, <3>2
    <3> QED BY <1>4, <3>2, <3>3 DEF AdjustedIn
  <2> QED BY <2>1, <2>2 DEF Owed
<1> QED BY <1>3, <1>4

\* An outlet nobody corrected closes without a variance.
LEMMA BalancesUntouched == LedgerTypeOK /\ LedgerInv => UntouchedBalances
<1> SUFFICES ASSUME LedgerTypeOK, LedgerInv, NEW p \in Periods, ~Corrected(p),
                    \A d \in Deals : deal[d].at = p => heard[d] # "pending",
                    NEW t \in EntryTypes
             PROVE  Capture(p)[t].source = Capture(p)[t].ledger
  BY DEF UntouchedBalances
<1> DEFINE O == {d \in Deals : Owed(d, p, t)}
           due == [d \in Deals |-> IF Owed(d, p, t) THEN PriceOf[d][t] ELSE 0]
<1>1. IsFiniteSet(Deals) /\ IsFiniteSet(O) /\ O \in SUBSET Deals
      /\ \A d \in Deals : PriceOf[d][t] \in Int
  BY LedgerNumbers, FS_Subset
<1>2. /\ \A d \in Deals : due[d] \in Int /\ due[d] = Nets(p, t)[d]
      /\ \A d \in O : due[d] = Prices(t)[d]
      /\ \A d \in Deals \ O : due[d] = 0
  BY <1>1, NetIsOwed DEF Nets, Prices
<1> HIDE DEF due, O
<1>3. SumFunctionOnSet(due, O) = SumFunctionOnSet(Prices(t), O)
  BY <1>1, <1>2, SumSame
<1>4. SumFunctionOnSet(due, Deals) = SumFunctionOnSet(due, O)
  BY <1>1, <1>2, SumZeros
<1>5. SumFunctionOnSet(due, Deals) = SumFunctionOnSet(Nets(p, t), Deals)
  BY <1>1, <1>2, SumSame
<1>6. LedgerTotal(p, t) = SumFunctionOnSet(Nets(p, t), Deals)
  BY DEF LedgerInv, TotalsAreNet
<1>7. SourceTotal(p, t) = SumFunctionOnSet(Prices(t), O)
  BY DEF SourceTotal, O
<1> QED BY <1>3, <1>4, <1>5, <1>6, <1>7 DEF Capture

\* The entries of a cancelled COD deal cancel out, line by line.
LEMMA CancelsOut == LedgerTypeOK /\ LedgerInv => ReversedOnce
<1> SUFFICES ASSUME LedgerTypeOK, LedgerInv, NEW d \in Deals, deal[d].status = "cancelled",
                    KindOf[d] = "cod", heard[d] # "pending", NEW t \in EntryTypes
             PROVE  SumFunctionOnSet(EntryAmounts(ledger),
                        {i \in DOMAIN ledger : ledger[i].deal = d /\ ledger[i].type = t}) = 0
  BY DEF ReversedOnce, LedgerInv
<1> DEFINE I == {i \in DOMAIN ledger : ledger[i].deal = d /\ ledger[i].type = t}
           a == EntryAmounts(ledger)
<1>1. /\ DealsFit /\ EntriesFit /\ OrdersBooked /\ CancelledReversed /\ NothingTwice
      /\ PriceOf[d][t] \in Int /\ LinesOf("cod") = CancellationReversed
  BY LedgerNumbers DEF LedgerInv
<1>2. /\ I \in SUBSET DOMAIN ledger /\ IsFiniteSet(I)
      /\ \A i \in DOMAIN ledger : /\ a[i] = ledger[i].amount /\ a[i] \in Int
                                  /\ ledger[i].adjustment \in BOOLEAN
  <2>1. I \in SUBSET DOMAIN ledger /\ ledger \in Seq(LedgerEntries)
    BY DEF LedgerTypeOK
  <2> HIDE DEF I, a
  <2> QED BY <2>1, EntriesTyped DEF a, LedgerEntries
<1>3. CASE t \notin LinesOf(KindOf[d])
  <2>1. I = {}
    BY <1>1, <1>3 DEF EntriesFit
  <2> HIDE DEF I
  <2>2. SumFunctionOnSet(a, I) = 0
    BY <1>2, <2>1, SumStep
  <2> QED BY <2>2 DEF I
<1>4. CASE t \in LinesOf(KindOf[d])
  <2>1. deal[d].at # 0
    BY <1>1 DEF DealsFit
  <2>2. PICK i \in DOMAIN ledger :
           ~ledger[i].adjustment /\ ledger[i].deal = d /\ ledger[i].type = t
    BY <1>1, <1>4, <2>1 DEF OrdersBooked, Original
  <2>3. PICK j \in DOMAIN ledger :
           ledger[j].adjustment /\ ledger[j].deal = d /\ ledger[j].type = t
    BY <1>1, <1>4 DEF CancelledReversed, Adjusted
  <2>4. \A k \in I : k = i \/ k = j
    BY <1>1, <1>2, <2>2, <2>3 DEF NothingTwice
  <2>5. i # j /\ I = {i} \cup {j}
    BY <2>2, <2>3, <2>4
  <2>6. a[i] = PriceOf[d][t] /\ a[j] = -PriceOf[d][t]
    BY <1>1, <1>2, <2>2, <2>3 DEF EntriesFit
  <2>7. SumFunctionOnSet(a, {i}) = a[i]
    <3>1. IsFiniteSet({i}) /\ IsFiniteSet({}) /\ {} \cup {i} = {i} /\ i \notin {}
      BY FS_Singleton, FS_EmptySet
    <3>2. SumFunctionOnSet(a, {}) = 0
      BY <3>1, SumStep
    <3>3. \A x \in {} \cup {i} : a[x] \in Int
      BY <1>2
    <3> HIDE DEF a
    <3>4. SumFunctionOnSet(a, {} \cup {i}) = SumFunctionOnSet(a, {}) + a[i]
      BY <3>1, <3>3, SumAdd
    <3> QED BY <3>1, <3>2, <3>3, <3>4
  <2>8. SumFunctionOnSet(a, {i} \cup {j}) = SumFunctionOnSet(a, {i}) + a[j]
    <3>1. IsFiniteSet({i}) /\ j \notin {i} /\ \A x \in {i} \cup {j} : a[x] \in Int
      BY <1>2, <2>5, FS_Singleton
    <3> HIDE DEF a
    <3> QED BY <3>1, SumAdd
  <2>9. SumFunctionOnSet(a, I) = 0
    <3> HIDE DEF a, I
    <3>1. SumFunctionOnSet(a, I) = a[i] + a[j]
      BY <2>5, <2>7, <2>8
    <3>2. a[i] + a[j] = 0
      BY <1>1, <2>6
    <3> QED BY <3>1, <3>2
  <2> QED BY <2>9
<1> QED BY <1>3, <1>4

-----------------------------------------------------------------------------
(* What the books keep when entries are appended *)

\* Where the ledger stands still, nothing is appended.
LEMMA NothingAppended == ASSUME LedgerTypeOK, UNCHANGED ledger PROVE Appends(ledger, {}, ledger')
BY DEF LedgerTypeOK, Appends

\* No entry goes away, nor what explains a variance.
LEMMA BooksGrow ==
    ASSUME LedgerTypeOK, NEW es, Appends(ledger, es, ledger'),
           \A d \in Deals : heard[d] # "no" => heard'[d] # "no" /\ deal'[d].at = deal[d].at
    PROVE  /\ \A d, t : Original(d, t) # {} => Original(d, t)' # {}
           /\ \A d, t : Adjusted(d, t) => Adjusted(d, t)'
           /\ \A totals, p : Explained(totals, p) => Explained(totals, p)'
<1>1. \A i \in DOMAIN ledger : i \in DOMAIN ledger' /\ ledger'[i] = ledger[i]
  BY DEF Appends
<1>2. \A d, t : Original(d, t) # {} => Original(d, t)' # {}
  BY <1>1 DEF Original
<1>3. \A d, t : Adjusted(d, t) => Adjusted(d, t)'
  BY <1>1 DEF Adjusted
<1>4. \A p : Corrected(p) => Corrected(p)'
  BY <1>1 DEF Corrected
<1>5. \A totals, p : Explained(totals, p) => Explained(totals, p)'
  BY <1>4 DEF Explained
<1> QED BY <1>2, <1>3, <1>5

\* Entries whose key is new, to the ledger and among each other, leave every key single.
LEMMA KeysStaySingle ==
    ASSUME LedgerTypeOK, NothingTwice, NEW es, Appends(ledger, es, ledger'),
           \A e, f \in es : e.deal = f.deal /\ e.type = f.type => e = f,
           \A e \in es : \A i \in DOMAIN ledger :
              ~(ledger[i].deal = e.deal /\ ledger[i].type = e.type
                /\ ledger[i].adjustment = e.adjustment)
    PROVE  NothingTwice'
<1> SUFFICES ASSUME NEW i \in DOMAIN ledger', NEW j \in DOMAIN ledger',
                    ledger'[i].deal = ledger'[j].deal, ledger'[i].type = ledger'[j].type,
                    ledger'[i].adjustment = ledger'[j].adjustment
             PROVE  i = j
  BY DEF NothingTwice
<1>1. CASE i \in DOMAIN ledger /\ j \in DOMAIN ledger
  BY <1>1 DEF NothingTwice, Appends
<1>2. CASE i \notin DOMAIN ledger /\ j \notin DOMAIN ledger
  BY <1>2 DEF Appends
<1>3. CASE i \in DOMAIN ledger /\ j \notin DOMAIN ledger
  BY <1>3 DEF Appends
<1>4. CASE i \notin DOMAIN ledger /\ j \in DOMAIN ledger
  BY <1>4 DEF Appends
<1> QED BY <1>1, <1>2, <1>3, <1>4

\* What a deal leaves is an integer.
LEMMA NetTyped ==
    ASSUME NEW d \in Deals, NEW t \in EntryTypes
    PROVE  \A p : Net(d, p, t) \in Int /\ Net(d, p, t)' \in Int
<1>1. PriceOf[d][t] \in Nat
  BY LedgerNumbers
<1> QED BY <1>1 DEF Net

\* Entries of one deal change the totals as they change the net of that deal.
LEMMA TotalsGrow ==
    ASSUME LedgerTypeOK, TotalsAreNet, NEW d \in Deals, NEW es, Appends(ledger, es, ledger'),
           \A e \in es : e.deal = d,
           \A e, f \in es : e.type = f.type => e = f,
           \A x \in Deals : x # d => deal'[x].at = deal[x].at,
           \A p \in Periods, t \in EntryTypes :
              /\ (\A e \in es : ~(e.at = p /\ e.type = t)) => Net(d, p, t)' = Net(d, p, t)
              /\ \A e \in es : e.at = p /\ e.type = t =>
                    Net(d, p, t)' = Net(d, p, t) + e.amount
    PROVE  TotalsAreNet'
<1> SUFFICES ASSUME NEW p \in Periods, NEW t \in EntryTypes
             PROVE  LedgerTotal(p, t)' = SumFunctionOnSet(Nets(p, t)', Deals)
  BY DEF TotalsAreNet
<1> DEFINE f == Nets(p, t)
           g == Nets(p, t)'
<1>1. ASSUME NEW x \in Deals, x # d PROVE AdjustedIn(x, p, t)' <=> AdjustedIn(x, p, t)
  BY <1>1 DEF AdjustedIn, Appends
<1>2. \A x \in Deals : f[x] = Net(x, p, t) /\ g[x] = Net(x, p, t)'
  BY DEF Nets
<1>3. \A x \in Deals \ {d} : g[x] = f[x]
  BY <1>1, <1>2 DEF Net
<1>4. IsFiniteSet(Deals) /\ \A x \in Deals : f[x] \in Int /\ g[x] \in Int
  BY <1>2, NetTyped, LedgerNumbers
<1>5. SumFunctionOnSet(g, Deals) = SumFunctionOnSet(f, Deals) + (g[d] - f[d])
  <2> HIDE DEF f, g
  <2> QED BY <1>3, <1>4, SumChange
<1>6. /\ LedgerTotal(p, t) = SumOf(ledger, p, t)
      /\ LedgerTotal(p, t)' = SumOf(ledger', p, t)
      /\ ledger \in Seq(LedgerEntries)
  BY DEF LedgerTotal, SumOf, Indices, LedgerTypeOK
<1>7. LedgerTotal(p, t) = SumFunctionOnSet(f, Deals)
  BY DEF TotalsAreNet
<1>8. SumFunctionOnSet(f, Deals) \in Int
  <2> HIDE DEF f
  <2> QED BY <1>4, SumType
<1>9. CASE \A e \in es : ~(e.at = p /\ e.type = t)
  <2>1. g[d] = f[d]
    BY <1>2, <1>9
  <2>2. SumOf(ledger', p, t) = SumOf(ledger, p, t)
    BY <1>6, <1>9, SumAppends
  <2> HIDE DEF f, g
  <2>3. SumFunctionOnSet(g, Deals) = SumFunctionOnSet(f, Deals)
    BY <1>4, <1>5, <1>8, <2>1
  <2> QED BY <1>6, <1>7, <2>2, <2>3 DEF g
<1>10. ASSUME NEW e \in es, e.at = p, e.type = t
       PROVE  LedgerTotal(p, t)' = SumFunctionOnSet(g, Deals)
  <2>1. g[d] = f[d] + e.amount
    BY <1>2, <1>10
  <2>2. SumOf(ledger', p, t) = SumOf(ledger, p, t) + e.amount
    BY <1>6, <1>10, SumAppends
  <2>3. e.amount \in Int
    <3>1. PICK i \in DOMAIN ledger' : ledger'[i] = e
      BY DEF Appends
    <3>2. ledger' \in Seq(LedgerEntries)
      BY DEF Appends
    <3>3. e \in LedgerEntries
      BY <3>1, <3>2
    <3> QED BY <3>3 DEF LedgerEntries
  <2> HIDE DEF f, g
  <2>4. SumFunctionOnSet(g, Deals) = SumFunctionOnSet(f, Deals) + e.amount
    BY <1>4, <1>5, <1>8, <2>1, <2>3
  <2> QED BY <1>6, <1>7, <2>2, <2>4
<1> QED BY <1>9, <1>10

\* What corrections and closings rest on, where they stand still.
LEMMA AdminsRest ==
    ASSUME LedgerTypeOK, LedgerInv, NEW es, Appends(ledger, es, ledger'),
           \A d \in Deals : heard[d] # "no" => heard'[d] # "no" /\ deal'[d].at = deal[d].at,
           UNCHANGED adminVars
    PROVE  (CorrectionsFit /\ ClosingsFit /\ VarianceExplained)'
<1>1. UNCHANGED runs /\ UNCHANGED turn /\ UNCHANGED dated /\ UNCHANGED figures /\ UNCHANGED shown
  BY DEF adminVars
<1>2. CorrectionsFit /\ ClosingsFit /\ VarianceExplained
  BY DEF LedgerInv
<1>3. CorrectionsFit'
  BY <1>1, <1>2, BooksGrow DEF CorrectionsFit
<1>4. ClosingsFit'
  BY <1>1, <1>2, BooksGrow DEF ClosingsFit, RunsOf
<1>5. VarianceExplained'
  BY <1>1, <1>2, BooksGrow DEF VarianceExplained
<1> QED BY <1>3, <1>4, <1>5

-----------------------------------------------------------------------------
(* Booking and cancelling *)

\* A function maps a finite set to a finite set.
LEMMA ImageIsFinite ==
    ASSUME NEW S, IsFiniteSet(S), NEW f
    PROVE  IsFiniteSet({f[x] : x \in S})
<1> DEFINE T == {f[x] : x \in S}
           g == [x \in S |-> f[x]]
<1>1. g \in Surjection(S, T)
  BY DEF Surjection
<1> QED BY <1>1, FS_Surjection

\* An order is issued, by its order or by its recovery, and booked line by line.
LEMMA BookingKeeps ==
    ASSUME LedgerTypeOK, LedgerInv, NEW d \in Deals, NEW source \in {"issuance", "recovery"},
           deal[d].status \in {"none", "awaiting"},
           deal' = [deal EXCEPT ![d] = [status |-> "issued", at |-> today]],
           Book(d, source), UNCHANGED <<today, heard, adminVars>>
    PROVE  (LedgerTypeOK /\ LedgerInv)'
<1> DEFINE lines == LinesOf(KindOf[d])
           es == {Booking(d, t, source) : t \in lines}
<1>0. /\ DealsFit /\ EntriesFit /\ OrdersBooked /\ CancelledReversed /\ TotalsAreNet
      /\ NothingTwice
      /\ lines \subseteq EntryTypes /\ IsFiniteSet(lines) /\ today \in Periods /\ today # 0
      /\ \A t \in EntryTypes : PriceOf[d][t] \in Nat
  BY LedgerNumbers DEF LedgerInv, LedgerTypeOK
<1>1. /\ deal[d].at = 0 /\ heard[d] = "no" /\ heard' = heard /\ today' = today
      /\ deal'[d].status = "issued" /\ deal'[d].at = today
      /\ \A x \in Deals : x # d => deal'[x] = deal[x]
      /\ deal' \in [Deals -> [status : {"none", "awaiting", "issued", "cancelled"},
                              at : Periods \cup {0}]]
  BY <1>0 DEF LedgerTypeOK, DealsFit
<1>2. es \in SUBSET LedgerEntries /\ IsFiniteSet(es)
  <2>1. ASSUME NEW t \in lines PROVE Booking(d, t, source) \in LedgerEntries
    <3>1. t \in EntryTypes /\ PriceOf[d][t] \in Int
      BY <1>0
    <3> QED BY <1>0, <3>1 DEF Booking, LedgerEntries, Automatic
  <2> DEFINE b == [t \in lines |-> Booking(d, t, source)]
  <2>2. es = {b[t] : t \in lines}
    OBVIOUS
  <2>3. IsFiniteSet({b[t] : t \in lines})
    <3> HIDE DEF b, lines
    <3> QED BY <1>0, ImageIsFinite
  <2> QED BY <2>1, <2>2, <2>3
<1>3. Appends(ledger, es, ledger')
  <2>1. ledger' = ledger \o SetToSeq(es)
    BY DEF Book, AppendEntries
  <2>2. ledger \in Seq(LedgerEntries)
    BY DEF LedgerTypeOK
  <2> HIDE DEF es
  <2> QED BY <1>2, <2>1, <2>2, EntriesAppended
<1>4. /\ \A e \in es : /\ e.deal = d /\ ~e.adjustment /\ e.adjustment = FALSE /\ e.at = today
                       /\ e.type \in lines /\ e.amount = PriceOf[d][e.type]
      /\ \A e, f \in es : e.type = f.type => e = f
      /\ \A t \in lines : \E e \in es : e.type = t
  <2>1. \A t \in lines :
           /\ Booking(d, t, source) \in es /\ Booking(d, t, source).deal = d
           /\ Booking(d, t, source).adjustment = FALSE /\ Booking(d, t, source).at = today
           /\ Booking(d, t, source).type = t /\ Booking(d, t, source).amount = PriceOf[d][t]
    BY DEF Booking
  <2>2. \A e \in es : \E t \in lines : e = Booking(d, t, source)
    OBVIOUS
  <2> HIDE DEF es, lines
  <2>3. \A e \in es : e.type \in lines /\ e = Booking(d, e.type, source)
    BY <2>1, <2>2
  <2>4. \A e \in es : /\ e.deal = d /\ ~e.adjustment /\ e.adjustment = FALSE /\ e.at = today
                       /\ e.type \in lines /\ e.amount = PriceOf[d][e.type]
    BY <2>1, <2>3
  <2>5. \A e, f \in es : e.type = f.type => e = f
    BY <2>3
  <2>6. \A t \in lines : \E e \in es : e.type = t
    BY <2>1
  <2> QED BY <2>4, <2>5, <2>6
<1> HIDE DEF es
<1>5. \A i \in DOMAIN ledger : ledger[i].deal # d /\ ledger[i].deal \in Deals
  <2>1. \A i \in DOMAIN ledger : ledger[i] \in LedgerEntries
    BY EntriesTyped DEF LedgerTypeOK
  <2> QED BY <1>0, <1>1, <2>1 DEF EntriesFit, LedgerEntries
<1>6. \A i \in DOMAIN ledger' : IF i \in DOMAIN ledger THEN ledger'[i] = ledger[i]
                                ELSE ledger'[i] \in es
  BY <1>3 DEF Appends
<1>7. \A x \in Deals : heard[x] # "no" => heard'[x] # "no" /\ deal'[x].at = deal[x].at
  BY <1>1
<1>8. NothingTwice'
  BY <1>0, <1>3, <1>4, <1>5, KeysStaySingle
<1>9. TotalsAreNet'
  <2>1. \A p, t : ~AdjustedIn(d, p, t) /\ ~AdjustedIn(d, p, t)'
    BY <1>4, <1>5, <1>6 DEF AdjustedIn
  <2>2. ASSUME NEW p \in Periods, NEW t \in EntryTypes
        PROVE  /\ Net(d, p, t) = 0
               /\ Net(d, p, t)' = IF today = p /\ t \in lines THEN PriceOf[d][t] ELSE 0
    <3>1. p # 0 /\ PriceOf[d][t] \in Nat
      BY <1>0, LedgerNumbers
    <3> QED BY <1>1, <2>1, <3>1 DEF Net
  <2>3. ASSUME NEW p \in Periods, NEW t \in EntryTypes
        PROVE  /\ (\A e \in es : ~(e.at = p /\ e.type = t)) => Net(d, p, t)' = Net(d, p, t)
               /\ \A e \in es : e.at = p /\ e.type = t =>
                     Net(d, p, t)' = Net(d, p, t) + e.amount
    <3>1. PriceOf[d][t] \in Nat
      BY <1>0
    <3> QED BY <1>4, <2>2, <3>1
  <2> HIDE DEF lines
  <2> QED BY <1>0, <1>1, <1>3, <1>4, <2>3, TotalsGrow
<1>10. EntriesFit'
  <2> SUFFICES ASSUME NEW i \in DOMAIN ledger'
               PROVE  LET e == ledger'[i]
                      IN /\ deal'[e.deal].at # 0 /\ e.type \in LinesOf(KindOf[e.deal])
                         /\ e.amount = IF e.adjustment THEN -PriceOf[e.deal][e.type]
                                       ELSE PriceOf[e.deal][e.type]
                         /\ ~e.adjustment => e.at = deal'[e.deal].at
                         /\ e.adjustment /\ e.source \in Automatic =>
                               /\ e.at = deal'[e.deal].at
                               /\ deal'[e.deal].status = "cancelled" /\ KindOf[e.deal] = "cod"
    BY DEF EntriesFit
  <2>1. CASE i \in DOMAIN ledger
    BY <1>0, <1>1, <1>5, <1>6, <2>1 DEF EntriesFit
  <2>2. CASE i \notin DOMAIN ledger
    BY <1>0, <1>1, <1>4, <1>6, <2>2
  <2> QED BY <2>1, <2>2
<1>11. OrdersBooked'
  <2>1. ASSUME NEW t \in lines PROVE Original(d, t)' # {}
    <3>1. PICK e \in es : e.type = t
      BY <1>4
    <3>2. PICK i \in DOMAIN ledger' : ledger'[i] = e
      BY <1>3 DEF Appends
    <3> QED BY <1>4, <3>1, <3>2 DEF Original
  <2>2. \A x, t : Original(x, t) # {} => Original(x, t)' # {}
    BY <1>3, <1>7, BooksGrow
  <2> QED BY <1>0, <1>1, <2>1, <2>2 DEF OrdersBooked
<1>12. CancelledReversed'
  <2>1. \A x, t : Adjusted(x, t) => Adjusted(x, t)'
    BY <1>3, <1>7, BooksGrow
  <2> QED BY <1>0, <1>1, <2>1 DEF CancelledReversed
<1>13. DealsFit'
  BY <1>0, <1>1 DEF DealsFit
<1>14. (CorrectionsFit /\ ClosingsFit /\ VarianceExplained)'
  BY <1>3, <1>7, AdminsRest
<1>15. LedgerTypeOK'
  <2>1. ledger' \in Seq(LedgerEntries)
    BY <1>3 DEF Appends
  <2> QED BY <1>1, <2>1 DEF LedgerTypeOK, adminVars
<1> QED BY <1>8, <1>9, <1>10, <1>11, <1>12, <1>13, <1>14, <1>15 DEF LedgerInv

\* What is reversed when a deal is cancelled: its entries that are not reversed yet.
Reversals(d) == {Reversal(e, e.at, "cancellation", "outlet") : e \in ReversedOnCancel(d)}

\* The reversals of a deal: of its entries, with new keys, one for each type.
LEMMA WhatIsReversed ==
    ASSUME LedgerTypeOK, LedgerInv, NEW d \in Deals,
           deal[d].status \in {"awaiting", "issued", "cancelled"}
    PROVE  /\ Reversals(d) \in SUBSET LedgerEntries /\ IsFiniteSet(Reversals(d))
           /\ \A e \in Reversals(d) :
                 /\ e.deal = d /\ e.adjustment /\ e.adjustment = TRUE /\ e.at = deal[d].at
                 /\ e.type \in LinesOf(KindOf[d]) /\ e.amount = -PriceOf[d][e.type]
                 /\ e.source = "cancellation" /\ KindOf[d] = "cod" /\ ~Adjusted(d, e.type)
           /\ \A e, f \in Reversals(d) : e.type = f.type => e = f
           /\ KindOf[d] = "cod" =>
                 /\ deal[d].at # 0
                 /\ \A t \in CancellationReversed :
                       Adjusted(d, t) \/ \E e \in Reversals(d) : e.type = t
<1> DEFINE es == Reversals(d)
<1>0. /\ DealsFit /\ EntriesFit /\ OrdersBooked /\ NothingTwice
      /\ LinesOf("cod") = CancellationReversed /\ KindOf[d] \in {"cod", "prepaid", "unpaid"}
      /\ \A t \in EntryTypes : PriceOf[d][t] \in Int
      /\ \A i \in DOMAIN ledger : ledger[i] \in LedgerEntries
  BY LedgerNumbers, EntriesTyped DEF LedgerInv, LedgerTypeOK
<1>1. CASE KindOf[d] # "cod"
  <2>1. es = {}
    BY <1>1 DEF ReversedOnCancel, Reversals
  <2> QED BY <1>1, <2>1, FS_EmptySet
<1>2. CASE KindOf[d] = "cod"
  <2> DEFINE R == ReversedOnCancel(d)
             rev(e) == Reversal(e, e.at, "cancellation", "outlet")
  <2>1. \A o : o \in R <=> \E i \in DOMAIN ledger :
                              /\ o = ledger[i] /\ ~ledger[i].adjustment /\ ledger[i].deal = d
                              /\ ledger[i].type \in CancellationReversed
                              /\ ~Adjusted(d, ledger[i].type)
    <3>1. R = UNION {Original(d, t) : t \in {u \in CancellationReversed : ~Adjusted(d, u)}}
      BY <1>2 DEF ReversedOnCancel
    <3>2. \A o : o \in R <=> \E t \in CancellationReversed : ~Adjusted(d, t) /\ o \in Original(d, t)
      <4> HIDE DEF R
      <4> QED BY <3>1
    <3> HIDE DEF R
    <3> QED BY <3>2 DEF Original
  <2> HIDE DEF R
  <2>2. IsFiniteSet(R)
    <3> DEFINE all == {ledger[i] : i \in DOMAIN ledger}
    <3>1. IsFiniteSet(DOMAIN ledger)
      BY EntriesTyped DEF LedgerTypeOK
    <3>2. IsFiniteSet(all)
      BY <3>1, ImageIsFinite
    <3>3. R \subseteq all
      BY <2>1
    <3> HIDE DEF all
    <3> QED BY <3>2, <3>3, FS_Subset
  <2>3. es = {rev(e) : e \in R}
    BY DEF R, Reversals
  <2> HIDE DEF es
  <2>4. IsFiniteSet(es)
    <3> DEFINE f == [e \in R |-> rev(e)]
    <3>1. es = {f[e] : e \in R}
      BY <2>3
    <3> HIDE DEF f
    <3> QED BY <2>2, <3>1, ImageIsFinite
  <2>5. ASSUME NEW o \in R
        PROVE  /\ rev(o) \in LedgerEntries /\ rev(o).deal = d /\ rev(o).adjustment = TRUE
               /\ rev(o).at = deal[d].at /\ rev(o).type = o.type /\ rev(o).source = "cancellation"
               /\ rev(o).amount = -PriceOf[d][o.type] /\ o.type \in CancellationReversed
               /\ ~Adjusted(d, o.type)
    <3>1. PICK i \in DOMAIN ledger :
             /\ o = ledger[i] /\ ~ledger[i].adjustment /\ ledger[i].deal = d
             /\ ledger[i].type \in CancellationReversed /\ ~Adjusted(d, ledger[i].type)
      BY <2>1
    <3>2. /\ o \in LedgerEntries /\ o.at = deal[d].at /\ o.amount = PriceOf[d][o.type]
          /\ PriceOf[d][o.type] \in Int
      BY <1>0, <3>1 DEF EntriesFit, LedgerEntries
    <3>3. /\ rev(o).deal = d /\ rev(o).adjustment = TRUE
          /\ rev(o).at = deal[d].at /\ rev(o).type = o.type /\ rev(o).source = "cancellation"
          /\ rev(o).amount = -PriceOf[d][o.type]
      BY <3>1, <3>2 DEF Reversal, LedgerEntries
    <3>4. rev(o) \in LedgerEntries
      <4>1. rev(o) = [deal |-> o.deal, type |-> o.type, at |-> o.at, amount |-> -o.amount,
                      adjustment |-> TRUE, source |-> "cancellation", by |-> "outlet"]
        BY <3>2 DEF Reversal, LedgerEntries
      <4>2. o.amount \in Int
        BY <3>2 DEF LedgerEntries
      <4> HIDE DEF rev
      <4> QED BY <3>2, <4>1, <4>2 DEF LedgerEntries, Automatic
    <3> QED BY <3>1, <3>3, <3>4
  <2>6. ASSUME NEW o \in R, NEW u \in R, o.type = u.type PROVE o = u
    <3>1. PICK i \in DOMAIN ledger :
             o = ledger[i] /\ ~ledger[i].adjustment /\ ledger[i].deal = d
      BY <2>1
    <3>2. PICK j \in DOMAIN ledger :
             u = ledger[j] /\ ~ledger[j].adjustment /\ ledger[j].deal = d
      BY <2>1
    <3>3. Original(d, o.type) = {ledger[i]}
      BY <1>0, <3>1, OneOriginal
    <3>4. u \in Original(d, o.type)
      BY <2>6, <3>2 DEF Original
    <3> QED BY <3>1, <3>3, <3>4
  <2>7. ASSUME NEW e \in es PROVE \E o \in R : e = rev(o)
    BY <2>3
  <2> HIDE DEF rev
  <2>8. \A e \in es :
           /\ e \in LedgerEntries /\ e.deal = d /\ e.adjustment /\ e.adjustment = TRUE
           /\ e.at = deal[d].at /\ e.type \in LinesOf(KindOf[d])
           /\ e.amount = -PriceOf[d][e.type]
           /\ e.source = "cancellation" /\ ~Adjusted(d, e.type)
    BY <1>0, <1>2, <2>5, <2>7
  <2>9. ASSUME NEW e \in es, NEW f \in es, e.type = f.type PROVE e = f
    <3>1. PICK o \in R : e = rev(o)
      BY <2>7
    <3>2. PICK u \in R : f = rev(u)
      BY <2>7
    <3>3. o.type = u.type
      BY <2>5, <2>9, <3>1, <3>2
    <3> QED BY <2>6, <3>1, <3>2, <3>3
  <2>10. deal[d].at # 0
    BY <1>0, <1>2 DEF DealsFit
  <2>11. ASSUME NEW t \in CancellationReversed, ~Adjusted(d, t) PROVE \E e \in es : e.type = t
    <3>1. Original(d, t) # {}
      BY <1>0, <1>2, <2>10, <2>11 DEF OrdersBooked
    <3>2. PICK o \in R : o.type = t
      BY <2>1, <2>11, <3>1 DEF Original
    <3>3. rev(o) \in es
      BY <2>3
    <3> QED BY <2>5, <3>2, <3>3
  <2> QED BY <1>2, <2>4, <2>8, <2>9, <2>10, <2>11 DEF es
<1> QED BY <1>1, <1>2

\* A cancellation that writes its reversals keeps the books.
LEMMA CancelKeeps ==
    ASSUME LedgerTypeOK, LedgerInv, NEW d \in Deals, CancelDeal(d)
    PROVE  (LedgerTypeOK /\ LedgerInv)'
<1> DEFINE es == Reversals(d)
<1>0. /\ DealsFit /\ EntriesFit /\ OrdersBooked /\ CancelledReversed /\ TotalsAreNet
      /\ NothingTwice /\ \A t \in EntryTypes : PriceOf[d][t] \in Int
  BY LedgerNumbers DEF LedgerInv, LedgerTypeOK
<1>1. /\ deal[d].status \in {"awaiting", "issued", "cancelled"} /\ deal'[d].status = "cancelled"
      /\ \A x \in Deals : deal'[x].at = deal[x].at
      /\ \A x \in Deals : x # d => deal'[x] = deal[x] /\ heard'[x] = heard[x]
      /\ heard'[d] = IF heard[d] = "pending" THEN "settled" ELSE heard[d]
      /\ deal' \in [Deals -> [status : {"none", "awaiting", "issued", "cancelled"},
                              at : Periods \cup {0}]]
      /\ heard' \in [Deals -> {"no", "pending", "settled"}]
      /\ today' = today /\ UNCHANGED adminVars
  BY DEF LedgerTypeOK, CancelDeal
<1>2. /\ es \in SUBSET LedgerEntries /\ IsFiniteSet(es)
      /\ \A e \in es :
            /\ e.deal = d /\ e.adjustment /\ e.adjustment = TRUE /\ e.at = deal[d].at
            /\ e.type \in LinesOf(KindOf[d]) /\ e.amount = -PriceOf[d][e.type]
            /\ e.source = "cancellation" /\ KindOf[d] = "cod" /\ ~Adjusted(d, e.type)
      /\ \A e, f \in es : e.type = f.type => e = f
      /\ KindOf[d] = "cod" => /\ deal[d].at # 0
                              /\ \A t \in CancellationReversed :
                                    Adjusted(d, t) \/ \E e \in es : e.type = t
  BY <1>1, WhatIsReversed
<1>3. Appends(ledger, es, ledger')
  <2>1. ledger' = ledger \o SetToSeq(es)
    BY DEF CancelDeal, ReverseCancelled, AppendEntries, Reversals
  <2>2. ledger \in Seq(LedgerEntries)
    BY DEF LedgerTypeOK
  <2> HIDE DEF es
  <2> QED BY <1>2, <2>1, <2>2, EntriesAppended
<1> HIDE DEF es
<1>4. \A i \in DOMAIN ledger : ledger[i] \in LedgerEntries /\ ledger[i].deal \in Deals
  <2>1. \A i \in DOMAIN ledger : ledger[i] \in LedgerEntries
    BY EntriesTyped DEF LedgerTypeOK
  <2> QED BY <2>1 DEF LedgerEntries
<1>5. \A i \in DOMAIN ledger' : IF i \in DOMAIN ledger THEN ledger'[i] = ledger[i]
                                ELSE ledger'[i] \in es
  BY <1>3 DEF Appends
<1>6. \A x \in Deals : heard[x] # "no" => heard'[x] # "no" /\ deal'[x].at = deal[x].at
  BY <1>1
<1>7. \A x, t : /\ Original(x, t) # {} => Original(x, t)' # {}
                /\ Adjusted(x, t) => Adjusted(x, t)'
  BY <1>3, <1>6, BooksGrow
<1>8. NothingTwice'
  <2>1. \A e \in es : \A i \in DOMAIN ledger :
           ~(ledger[i].deal = e.deal /\ ledger[i].type = e.type
             /\ ledger[i].adjustment = e.adjustment)
    BY <1>2 DEF Adjusted
  <2>2. \A e, f \in es : e.deal = f.deal /\ e.type = f.type => e = f
    BY <1>2
  <2> QED BY <1>0, <1>3, <2>1, <2>2, KeysStaySingle
<1>9. TotalsAreNet'
  <2>1. ASSUME NEW p \in Periods, NEW t \in EntryTypes
        PROVE  /\ (\A e \in es : ~(e.at = p /\ e.type = t)) => Net(d, p, t)' = Net(d, p, t)
               /\ \A e \in es : e.at = p /\ e.type = t =>
                     Net(d, p, t)' = Net(d, p, t) + e.amount
    <3>1. ASSUME \A e \in es : ~(e.at = p /\ e.type = t)
          PROVE  AdjustedIn(d, p, t)' <=> AdjustedIn(d, p, t)
      BY <1>3, <1>5, <3>1 DEF AdjustedIn, Appends
    <3>2. ASSUME NEW e \in es, e.at = p, e.type = t
          PROVE  ~AdjustedIn(d, p, t) /\ AdjustedIn(d, p, t)' /\ e.amount = -PriceOf[d][t]
      <4>1. ~AdjustedIn(d, p, t)
        BY <1>2, <3>2 DEF AdjustedIn, Adjusted
      <4>2. PICK i \in DOMAIN ledger' : ledger'[i] = e
        BY <1>3 DEF Appends
      <4>3. AdjustedIn(d, p, t)'
        BY <1>2, <3>2, <4>2 DEF AdjustedIn
      <4> QED BY <1>2, <3>2, <4>1, <4>3
    <3>3. PriceOf[d][t] \in Int
      BY <1>0
    <3>4. ASSUME \A e \in es : ~(e.at = p /\ e.type = t)
          PROVE  Net(d, p, t)' = Net(d, p, t)
      BY <1>1, <3>1, <3>4 DEF Net
    <3>5. ASSUME NEW e \in es, e.at = p, e.type = t
          PROVE  Net(d, p, t)' = Net(d, p, t) + e.amount
      BY <1>1, <3>2, <3>3, <3>5 DEF Net
    <3> QED BY <3>4, <3>5
  <2> QED BY <1>0, <1>1, <1>2, <1>3, <2>1, TotalsGrow
<1>10. EntriesFit'
  <2> SUFFICES ASSUME NEW i \in DOMAIN ledger'
               PROVE  LET e == ledger'[i]
                      IN /\ deal'[e.deal].at # 0 /\ e.type \in LinesOf(KindOf[e.deal])
                         /\ e.amount = IF e.adjustment THEN -PriceOf[e.deal][e.type]
                                       ELSE PriceOf[e.deal][e.type]
                         /\ ~e.adjustment => e.at = deal'[e.deal].at
                         /\ e.adjustment /\ e.source \in Automatic =>
                               /\ e.at = deal'[e.deal].at
                               /\ deal'[e.deal].status = "cancelled" /\ KindOf[e.deal] = "cod"
    BY DEF EntriesFit
  <2>1. CASE i \in DOMAIN ledger
    BY <1>0, <1>1, <1>4, <1>5, <2>1 DEF EntriesFit
  <2>2. CASE i \notin DOMAIN ledger
    BY <1>0, <1>1, <1>2, <1>5, <2>2
  <2> QED BY <2>1, <2>2
<1>11. OrdersBooked'
  BY <1>0, <1>1, <1>7 DEF OrdersBooked
<1>12. CancelledReversed'
  <2>1. ASSUME KindOf[d] = "cod", NEW t \in CancellationReversed PROVE Adjusted(d, t)'
    <3>1. ASSUME NEW e \in es, e.type = t PROVE Adjusted(d, t)'
      <4>1. PICK i \in DOMAIN ledger' : ledger'[i] = e
        BY <1>3 DEF Appends
      <4> QED BY <1>2, <3>1, <4>1 DEF Adjusted
    <3> QED BY <1>2, <1>7, <2>1, <3>1
  <2>2. ASSUME NEW x \in Deals, x # d, deal[x].status = "cancelled", KindOf[x] = "cod",
               heard[x] # "pending", NEW t \in CancellationReversed
        PROVE  Adjusted(x, t)'
    BY <1>0, <1>7, <2>2 DEF CancelledReversed
  <2> QED BY <1>1, <2>1, <2>2 DEF CancelledReversed
<1>13. DealsFit'
  BY <1>0, <1>1 DEF DealsFit
<1>14. (CorrectionsFit /\ ClosingsFit /\ VarianceExplained)'
  BY <1>1, <1>3, <1>6, AdminsRest
<1>15. LedgerTypeOK'
  <2>1. ledger' \in Seq(LedgerEntries)
    BY <1>3 DEF Appends
  <2> QED BY <1>1, <2>1 DEF LedgerTypeOK, adminVars
<1> QED BY <1>8, <1>9, <1>10, <1>11, <1>12, <1>13, <1>14, <1>15 DEF LedgerInv

\* Where neither a deal nor an entry changes, neither do the books.
LEMMA BooksRest ==
    ASSUME LedgerTypeOK, LedgerInv, UNCHANGED <<deal, heard, ledger>>
    PROVE  /\ (DealsFit /\ EntriesFit /\ OrdersBooked /\ CancelledReversed /\ TotalsAreNet
               /\ NothingTwice)'
           /\ \A totals, p : Explained(totals, p) => Explained(totals, p)'
<1>1. UNCHANGED deal /\ UNCHANGED heard /\ UNCHANGED ledger
  OBVIOUS
<1>2. DealsFit' /\ EntriesFit' /\ OrdersBooked' /\ CancelledReversed' /\ NothingTwice'
  BY <1>1 DEF LedgerInv, DealsFit, EntriesFit, OrdersBooked, CancelledReversed, NothingTwice,
              Original, Adjusted
<1>3. TotalsAreNet'
  BY <1>1 DEF LedgerInv, TotalsAreNet, LedgerTotal, EntryAmounts, Nets, Net, AdjustedIn
<1>4. \A totals, p : Explained(totals, p) => Explained(totals, p)'
  BY <1>1 DEF Explained, Corrected
<1> QED BY <1>2, <1>3, <1>4

\* A deal waits for its payment, or the webhook cancels it: nothing is booked.
LEMMA UnbookedMove ==
    ASSUME LedgerTypeOK, LedgerInv, NEW d \in Deals, AwaitPayment(d) \/ WebhookCancels(d)
    PROVE  (LedgerTypeOK /\ LedgerInv)'
<1>0. /\ DealsFit /\ EntriesFit /\ OrdersBooked /\ CancelledReversed /\ TotalsAreNet
      /\ NothingTwice
  BY DEF LedgerInv
<1>1. /\ \A x \in Deals : deal'[x].at = deal[x].at
      /\ \A x \in Deals : x # d => deal'[x] = deal[x] /\ heard'[x] = heard[x]
      /\ \/ /\ deal[d].status = "none" /\ deal'[d].status = "awaiting" /\ KindOf[d] = "unpaid"
            /\ heard'[d] = heard[d]
         \/ deal[d].status = "issued" /\ deal'[d].status = "cancelled" /\ heard'[d] = "pending"
      /\ deal' \in [Deals -> [status : {"none", "awaiting", "issued", "cancelled"},
                              at : Periods \cup {0}]]
      /\ heard' \in [Deals -> {"no", "pending", "settled"}]
      /\ today' = today /\ ledger' = ledger /\ UNCHANGED adminVars
  <2>1. CASE AwaitPayment(d)
    BY <2>1 DEF LedgerTypeOK, AwaitPayment
  <2>2. CASE WebhookCancels(d)
    BY <2>2 DEF LedgerTypeOK, WebhookCancels
  <2> QED BY <2>1, <2>2
<1>2. \A i \in DOMAIN ledger : ledger[i].deal \in Deals
  <2>1. \A i \in DOMAIN ledger : ledger[i] \in LedgerEntries
    BY EntriesTyped DEF LedgerTypeOK
  <2> QED BY <2>1 DEF LedgerEntries
<1>3. \A x \in Deals : heard[x] # "no" => heard'[x] # "no" /\ deal'[x].at = deal[x].at
  BY <1>0, <1>1 DEF DealsFit
<1>4. Appends(ledger, {}, ledger')
  BY <1>1, NothingAppended
<1>5. (CorrectionsFit /\ ClosingsFit /\ VarianceExplained)'
  BY <1>1, <1>3, <1>4, AdminsRest
<1>6. NothingTwice'
  BY <1>0, <1>1 DEF NothingTwice
<1>7. TotalsAreNet'
  <2>1. \A x \in Deals, p \in Periods, t \in EntryTypes : Net(x, p, t)' = Net(x, p, t)
    BY <1>1 DEF Net, AdjustedIn
  <2> QED BY <1>0, <1>1, <1>4, <2>1, TotalsGrow
<1>8. EntriesFit'
  BY <1>0, <1>1, <1>2 DEF EntriesFit
<1>9. OrdersBooked'
  <2>1. \A x, t : Original(x, t)' = Original(x, t)
    BY <1>1 DEF Original
  <2> QED BY <1>0, <1>1, <2>1 DEF OrdersBooked
<1>10. CancelledReversed'
  BY <1>0, <1>1 DEF CancelledReversed, Adjusted
<1>11. DealsFit'
  BY <1>0, <1>1 DEF DealsFit
<1>12. LedgerTypeOK'
  BY <1>1 DEF LedgerTypeOK, adminVars
<1> QED BY <1>5, <1>6, <1>7, <1>8, <1>9, <1>10, <1>11, <1>12 DEF LedgerInv

\* Everything that happens to a deal.
LEMMA DealMoves ==
    ASSUME LedgerTypeOK, LedgerInv, NEW d \in Deals,
           \/ Issue(d) \/ AwaitPayment(d) \/ CompleteRecovery(d)
           \/ CancelDeal(d) \/ WebhookCancels(d)
    PROVE  (LedgerTypeOK /\ LedgerInv)'
<1>1. CASE Issue(d)
  <2>1. /\ deal[d].status \in {"none", "awaiting"}
        /\ deal' = [deal EXCEPT ![d] = [status |-> "issued", at |-> today]]
        /\ Book(d, "issuance") /\ UNCHANGED <<today, heard, adminVars>>
    BY <1>1 DEF Issue
  <2> QED BY <2>1, BookingKeeps
<1>2. CASE CompleteRecovery(d)
  <2>1. /\ deal[d].status \in {"none", "awaiting"}
        /\ deal' = [deal EXCEPT ![d] = [status |-> "issued", at |-> today]]
        /\ Book(d, "recovery") /\ UNCHANGED <<today, heard, adminVars>>
    BY <1>2 DEF CompleteRecovery
  <2> QED BY <2>1, BookingKeeps
<1> QED BY <1>1, <1>2, UnbookedMove, CancelKeeps

-----------------------------------------------------------------------------
(* Correcting and closing *)

\* The answer to a repeated correction is one of the answers.
LEMMA ReplayTyped ==
    ASSUME LedgerTypeOK, NEW c \in Corrections
    PROVE  AdjustmentReplay(c) \in LedgerEntries \cup {Denied}
<1>1. ByAttempt(c) \subseteq LedgerEntries
  <2>1. \A i \in DOMAIN ledger : ledger[i] \in LedgerEntries
    BY EntriesTyped DEF LedgerTypeOK
  <2> QED BY <2>1 DEF ByAttempt, Range
<1> QED BY <1>1 DEF AdjustmentReplay

\* What a correction does leaves the closings alone.
LEMMA ClosingsRest ==
    ASSUME LedgerInv, UNCHANGED <<runs, figures>>,
           \A x \in Closings : turn'[x] = turn[x] /\ shown'[x] = shown[x],
           \A totals, p : Explained(totals, p) => Explained(totals, p)'
    PROVE  (ClosingsFit /\ VarianceExplained)'
<1>1. runs' = runs /\ figures' = figures /\ ClosingsFit /\ VarianceExplained
  BY DEF LedgerInv
<1>2. ClosingsFit'
  BY <1>1 DEF ClosingsFit, RunsOf
<1>3. VarianceExplained'
  BY <1>1 DEF VarianceExplained
<1> QED BY <1>2, <1>3

\* A correction that begins, waits or is answered without an entry.
LEMMA CorrectionTurns ==
    ASSUME LedgerTypeOK, LedgerInv, NEW c \in Corrections,
           NEW s \in {"waiting", "locked", "done"}, NEW answer \in LedgerEntries \cup {Denied},
           turn' = [turn EXCEPT ![c] = s],
           shown' = shown \/ shown' = [shown EXCEPT ![c] = answer],
           \/ dated' = dated /\ s = "locked" /\ turn[c] = "waiting"
           \/ dated' = dated /\ s = "done"
           \/ /\ dated' = [dated EXCEPT ![c] = today]
              /\ Original(CorrectionOf[c].deal, CorrectionOf[c].type) # {},
           UNCHANGED <<today, deal, heard, runs, figures, ledger>>
    PROVE  (LedgerTypeOK /\ LedgerInv)'
<1>0. /\ c \notin Closings /\ \A x \in Corrections : x \notin Closings
      /\ today \in Periods /\ CorrectionsFit /\ UNCHANGED ledger
  BY LedgerNumbers DEF LedgerTypeOK, LedgerInv
<1>1. /\ turn' \in [Corrections \cup Closings -> {"idle", "waiting", "locked", "done"}]
      /\ turn'[c] = s /\ \A x \in Corrections \cup Closings : x # c => turn'[x] = turn[x]
  BY DEF LedgerTypeOK
<1>2. /\ DOMAIN shown' = Corrections \cup Closings
      /\ shown'[c] \in LedgerEntries \cup {Denied, Unanswered}
      /\ \A x \in Corrections \cup Closings : x # c => shown'[x] = shown[x]
  BY DEF LedgerTypeOK
<1>3. /\ dated' \in [Corrections -> Periods \cup {0}]
      /\ \A x \in Corrections : x # c => dated'[x] = dated[x]
      /\ s \in {"waiting", "locked"} =>
            dated'[c] \in Periods /\ Original(CorrectionOf[c].deal, CorrectionOf[c].type) # {}
  <2>1. CASE dated' = dated /\ s = "locked" /\ turn[c] = "waiting"
    BY <1>0, <2>1 DEF LedgerTypeOK, CorrectionsFit
  <2>2. CASE dated' = dated /\ s = "done"
    BY <2>2 DEF LedgerTypeOK
  <2>3. CASE /\ dated' = [dated EXCEPT ![c] = today]
             /\ Original(CorrectionOf[c].deal, CorrectionOf[c].type) # {}
    BY <1>0, <2>3 DEF LedgerTypeOK
  <2> QED BY <2>1, <2>2, <2>3
<1>4. LedgerTypeOK'
  <2>1. \A x \in Closings : shown'[x] \in Runs \cup {Denied, Unanswered}
    BY <1>0, <1>2 DEF LedgerTypeOK
  <2>2. \A x \in Corrections : shown'[x] \in LedgerEntries \cup {Denied, Unanswered}
    BY <1>2 DEF LedgerTypeOK
  <2> QED BY <1>1, <1>2, <1>3, <2>1, <2>2 DEF LedgerTypeOK
<1>5. CorrectionsFit'
  BY <1>0, <1>1, <1>3 DEF CorrectionsFit, Original
<1>6. /\ (DealsFit /\ EntriesFit /\ OrdersBooked /\ CancelledReversed /\ TotalsAreNet
          /\ NothingTwice)'
      /\ \A totals, p : Explained(totals, p) => Explained(totals, p)'
  BY BooksRest
<1>7. (ClosingsFit /\ VarianceExplained)'
  BY <1>0, <1>1, <1>2, <1>6, ClosingsRest
<1> QED BY <1>4, <1>5, <1>6, <1>7 DEF LedgerInv

\* A correction begins, or is answered from its first attempt.
LEMMA BeginCorrectionKeeps ==
    ASSUME LedgerTypeOK, LedgerInv, NEW c \in Corrections, BeginCorrection(c)
    PROVE  (LedgerTypeOK /\ LedgerInv)'
<1>1. /\ UNCHANGED <<today, deal, heard, runs, figures, ledger>>
      /\ Original(CorrectionOf[c].deal, CorrectionOf[c].type) # {}
      /\ AdjustmentReplay(c) \in LedgerEntries \cup {Denied}
  BY ReplayTyped DEF BeginCorrection, correctionVars
<1>2. CASE ByAttempt(c) # {}
  <2>1. /\ turn' = [turn EXCEPT ![c] = "done"] /\ dated' = dated
        /\ shown' = [shown EXCEPT ![c] = AdjustmentReplay(c)]
    BY <1>2 DEF BeginCorrection, EndWith
  <2> QED BY <1>1, <2>1, CorrectionTurns
<1>3. CASE ~(ByAttempt(c) # {})
  <2>1. /\ turn' = [turn EXCEPT ![c] = "waiting"] /\ dated' = [dated EXCEPT ![c] = today]
        /\ shown' = shown
    BY <1>3 DEF BeginCorrection
  <2> QED BY <1>1, <2>1, CorrectionTurns
<1> QED BY <1>2, <1>3

\* A correction has the lock of the outlet.
LEMMA LockCorrectionKeeps ==
    ASSUME LedgerTypeOK, LedgerInv, NEW c \in Corrections, LockCorrection(c)
    PROVE  (LedgerTypeOK /\ LedgerInv)'
<1>1. /\ UNCHANGED <<today, deal, heard, runs, figures, ledger>> /\ dated' = dated
      /\ turn[c] = "waiting" /\ AdjustmentReplay(c) \in LedgerEntries \cup {Denied}
  BY ReplayTyped DEF LockCorrection, correctionVars
<1>2. \/ /\ turn' = [turn EXCEPT ![c] = "done"]
         /\ \E answer \in LedgerEntries \cup {Denied} : shown' = [shown EXCEPT ![c] = answer]
      \/ turn' = [turn EXCEPT ![c] = "locked"] /\ shown' = shown
  BY <1>1 DEF LockCorrection, EndWith
<1> QED BY <1>1, <1>2, CorrectionTurns

\* The entry a correction inserts.
LEMMA InsertCorrectionKeeps ==
    ASSUME LedgerTypeOK, LedgerInv, NEW c \in Corrections, InsertCorrection(c)
    PROVE  (LedgerTypeOK /\ LedgerInv)'
<1> DEFINE d == CorrectionOf[c].deal
           k == CorrectionOf[c].type
           o == CHOOSE e \in Original(d, k) : TRUE
           entry == Reversal(o, dated[c], CorrectionOf[c].attempt, CorrectionOf[c].by)
           es == {entry}
<1>0. /\ DealsFit /\ EntriesFit /\ OrdersBooked /\ CancelledReversed /\ TotalsAreNet
      /\ NothingTwice /\ CorrectionsFit
      /\ d \in Deals /\ k \in EntryTypes /\ PriceOf[d][k] \in Int
      /\ CorrectionOf[c].attempt \notin Automatic
      /\ c \notin Closings /\ \A x \in Corrections : x \notin Closings
  BY LedgerNumbers, LedgerAssumption DEF LedgerInv
<1>1. /\ turn[c] = "locked" /\ UNCHANGED <<today, deal, heard, runs, figures>> /\ dated' = dated
      /\ turn' = [turn EXCEPT ![c] = "done"]
  BY DEF InsertCorrection, EndWith, correctionVars
<1>2. CASE ~Insertable(c)
  <2>1. ledger' = ledger /\ shown' = [shown EXCEPT ![c] = AdjustmentReplay(c)]
    BY <1>2 DEF InsertCorrection, EndWith
  <2>2. AdjustmentReplay(c) \in LedgerEntries \cup {Denied}
    BY ReplayTyped
  <2> QED BY <1>1, <2>1, <2>2, CorrectionTurns
<1>3. CASE Insertable(c)
  <2>1. /\ ledger' = ledger \o SetToSeq(es) /\ shown' = [shown EXCEPT ![c] = entry]
        /\ ~Adjusted(d, k)
    BY <1>3 DEF InsertCorrection, EndWith, AppendEntries, Insertable
  <2>2. dated[c] \in Periods /\ o \in Original(d, k)
    BY <1>0, <1>1 DEF CorrectionsFit
  <2> HIDE DEF o
  <2>3. /\ o \in LedgerEntries /\ o.deal = d /\ o.type = k /\ o.amount = PriceOf[d][k]
        /\ deal[d].at # 0 /\ k \in LinesOf(KindOf[d])
    <3>1. PICK i \in DOMAIN ledger : /\ o = ledger[i] /\ ~ledger[i].adjustment
                                     /\ ledger[i].deal = d /\ ledger[i].type = k
      BY <2>2 DEF Original
    <3>2. ledger[i] \in LedgerEntries
      BY EntriesTyped DEF LedgerTypeOK
    <3> QED BY <1>0, <3>1, <3>2 DEF EntriesFit
  <2>4. /\ entry.deal = d /\ entry.type = k /\ entry.adjustment = TRUE /\ entry.at = dated[c]
        /\ entry.amount = -PriceOf[d][k] /\ entry.source = CorrectionOf[c].attempt
    BY <2>3 DEF Reversal
  <2>5. entry \in LedgerEntries
    BY <1>0, <2>2, <2>3 DEF Reversal, LedgerEntries
  <2> HIDE DEF entry
  <2>6. es \in SUBSET LedgerEntries /\ IsFiniteSet(es)
    BY <2>5, FS_Singleton
  <2>7. Appends(ledger, es, ledger')
    <3>1. ledger \in Seq(LedgerEntries)
      BY DEF LedgerTypeOK
    <3> HIDE DEF es
    <3> QED BY <2>1, <2>6, <3>1, EntriesAppended
  <2>8. /\ \A e \in es : e = entry /\ e.deal = d /\ e.type = k
        /\ \A e, f \in es : e.type = f.type => e = f
    BY <2>4
  <2> HIDE DEF es
  <2>9. \A x \in Deals : heard[x] # "no" => heard'[x] # "no" /\ deal'[x].at = deal[x].at
    BY <1>1
  <2>10. /\ \A x, t : Original(x, t) # {} => Original(x, t)' # {}
         /\ \A x, t : Adjusted(x, t) => Adjusted(x, t)'
         /\ \A totals, p : Explained(totals, p) => Explained(totals, p)'
    BY <2>7, <2>9, BooksGrow
  <2>11. NothingTwice'
    <3>1. \A e \in es : \A i \in DOMAIN ledger :
             ~(ledger[i].deal = e.deal /\ ledger[i].type = e.type
               /\ ledger[i].adjustment = e.adjustment)
      BY <2>1, <2>4, <2>8 DEF Adjusted
    <3> QED BY <1>0, <2>7, <2>8, <3>1, KeysStaySingle
  <2>12. TotalsAreNet'
    <3>1. ASSUME NEW p \in Periods, NEW t \in EntryTypes
          PROVE  /\ (\A e \in es : ~(e.at = p /\ e.type = t)) => Net(d, p, t)' = Net(d, p, t)
                 /\ \A e \in es : e.at = p /\ e.type = t =>
                       Net(d, p, t)' = Net(d, p, t) + e.amount
      <4>1. ASSUME \A e \in es : ~(e.at = p /\ e.type = t)
            PROVE  AdjustedIn(d, p, t)' <=> AdjustedIn(d, p, t)
        BY <2>7, <4>1 DEF AdjustedIn, Appends
      <4>2. ASSUME NEW e \in es, e.at = p, e.type = t
            PROVE  ~AdjustedIn(d, p, t) /\ AdjustedIn(d, p, t)' /\ e.amount = -PriceOf[d][t]
                   /\ PriceOf[d][t] \in Int
        <5>1. t = k /\ e = entry
          BY <2>8, <4>2
        <5>2. ~AdjustedIn(d, p, t)
          BY <2>1, <5>1 DEF AdjustedIn, Adjusted
        <5>3. PICK i \in DOMAIN ledger' : ledger'[i] = e
          BY <2>7 DEF Appends
        <5>4. AdjustedIn(d, p, t)'
          BY <2>4, <4>2, <5>1, <5>3 DEF AdjustedIn
        <5> QED BY <1>0, <2>4, <5>1, <5>2, <5>4
      <4>3. ASSUME \A e \in es : ~(e.at = p /\ e.type = t)
            PROVE  Net(d, p, t)' = Net(d, p, t)
        BY <1>1, <4>1, <4>3 DEF Net
      <4>4. ASSUME NEW e \in es, e.at = p, e.type = t
            PROVE  Net(d, p, t)' = Net(d, p, t) + e.amount
        BY <1>1, <4>2, <4>4 DEF Net
      <4> QED BY <4>3, <4>4
    <3>2. \A x \in Deals : x # d => deal'[x].at = deal[x].at
      BY <1>1
    <3> HIDE DEF d
    <3> QED BY <1>0, <2>7, <2>8, <3>1, <3>2, TotalsGrow
  <2>13. EntriesFit'
    <3> SUFFICES ASSUME NEW i \in DOMAIN ledger'
                 PROVE  LET e == ledger'[i]
                        IN /\ deal'[e.deal].at # 0 /\ e.type \in LinesOf(KindOf[e.deal])
                           /\ e.amount = IF e.adjustment THEN -PriceOf[e.deal][e.type]
                                         ELSE PriceOf[e.deal][e.type]
                           /\ ~e.adjustment => e.at = deal'[e.deal].at
                           /\ e.adjustment /\ e.source \in Automatic =>
                                 /\ e.at = deal'[e.deal].at
                                 /\ deal'[e.deal].status = "cancelled" /\ KindOf[e.deal] = "cod"
      BY DEF EntriesFit
    <3>1. CASE i \in DOMAIN ledger
      <4>1. ledger'[i] = ledger[i] /\ deal' = deal
        BY <1>1, <2>7, <3>1 DEF Appends
      <4> QED BY <1>0, <3>1, <4>1 DEF EntriesFit
    <3>2. CASE i \notin DOMAIN ledger
      <4>1. ledger'[i] = entry /\ deal' = deal
        BY <1>1, <2>7, <2>8, <3>2 DEF Appends
      <4> QED BY <1>0, <2>3, <2>4, <4>1
    <3> QED BY <3>1, <3>2
  <2>14. OrdersBooked' /\ CancelledReversed' /\ DealsFit'
    BY <1>0, <1>1, <2>10 DEF OrdersBooked, CancelledReversed, DealsFit
  <2>15. /\ turn' \in [Corrections \cup Closings -> {"idle", "waiting", "locked", "done"}]
         /\ turn'[c] = "done" /\ \A x \in Corrections \cup Closings : x # c => turn'[x] = turn[x]
         /\ DOMAIN shown' = Corrections \cup Closings /\ shown'[c] = entry
         /\ \A x \in Corrections \cup Closings : x # c => shown'[x] = shown[x]
    BY <1>1, <2>1 DEF LedgerTypeOK
  <2>16. CorrectionsFit'
    BY <1>0, <1>1, <2>10, <2>15 DEF CorrectionsFit
  <2>17. (ClosingsFit /\ VarianceExplained)'
    BY <1>0, <1>1, <2>10, <2>15, ClosingsRest
  <2>18. LedgerTypeOK'
    <3>1. ledger' \in Seq(LedgerEntries)
      BY <2>7 DEF Appends
    <3> QED BY <1>0, <1>1, <2>5, <2>15, <3>1 DEF LedgerTypeOK
  <2> QED BY <2>11, <2>12, <2>13, <2>14, <2>16, <2>17, <2>18 DEF LedgerInv
<1> QED BY <1>2, <1>3

\* What a capture reads are totals, and a variance among them is explained.
LEMMA CaptureIsExplained ==
    ASSUME LedgerTypeOK, LedgerInv, NEW p \in Periods
    PROVE  Capture(p) \in Totals /\ Explained(Capture(p), p)
<1>1. ASSUME NEW t \in EntryTypes PROVE SourceTotal(p, t) \in Nat /\ LedgerTotal(p, t) \in Int
  <2> DEFINE O == {d \in Deals : Owed(d, p, t)}
             I == Indices(ledger, p, t)
  <2>1. IsFiniteSet(O) /\ \A d \in O : Prices(t)[d] \in Nat
    BY LedgerNumbers, FS_Subset DEF Prices
  <2>2. SourceTotal(p, t) \in Nat
    <3>1. SourceTotal(p, t) = SumFunctionOnSet(Prices(t), O)
      BY DEF SourceTotal
    <3> HIDE DEF O
    <3>2. \A N : (N = Int \/ N = Nat) /\ (\A d \in O : Prices(t)[d] \in N)
                   => SumFunctionOnSet(Prices(t), O) \in N
      BY <2>1, SumType
    <3> QED BY <2>1, <3>1, <3>2
  <2>3. IsFiniteSet(I) /\ \A i \in I : EntryAmounts(ledger)[i] \in Int
    <3>1. ledger \in Seq(LedgerEntries) /\ I \in SUBSET DOMAIN ledger
      BY DEF LedgerTypeOK, Indices
    <3> HIDE DEF I
    <3> QED BY <3>1, EntriesTyped
  <2>4. LedgerTotal(p, t) \in Int
    <3>1. LedgerTotal(p, t) = SumFunctionOnSet(EntryAmounts(ledger), I)
      BY DEF LedgerTotal, Indices
    <3> HIDE DEF I
    <3> QED BY <2>3, <3>1, SumType
  <2> QED BY <2>2, <2>4
<1>2. Capture(p) \in Totals
  BY <1>1 DEF Capture, Totals
<1>3. UntouchedBalances
  BY BalancesUntouched
<1>4. Explained(Capture(p), p)
  <2> SUFFICES ASSUME NEW t \in EntryTypes, Capture(p)[t].source # Capture(p)[t].ledger,
                      ~Corrected(p)
               PROVE  \E d \in Deals : heard[d] # "no" /\ deal[d].at = p
    BY DEF Explained
  <2>1. PICK d \in Deals : deal[d].at = p /\ heard[d] = "pending"
    BY <1>3 DEF UntouchedBalances
  <2> QED BY <2>1
<1> QED BY <1>2, <1>4

\* What a closing never touches.
LEMMA ClosingFrame ==
    ASSUME LedgerTypeOK, LedgerInv, NEW c \in Closings, UNCHANGED closingVars,
           NEW s \in {"waiting", "locked", "done"}, NEW answer \in Runs \cup {Denied},
           turn' = [turn EXCEPT ![c] = s],
           shown' = shown \/ shown' = [shown EXCEPT ![c] = answer],
           runs' \subseteq Runs, figures' \in [Closings -> Totals \cup {Unanswered}]
    PROVE  /\ LedgerTypeOK'
           /\ (DealsFit /\ EntriesFit /\ OrdersBooked /\ CancelledReversed /\ TotalsAreNet
               /\ NothingTwice /\ CorrectionsFit)'
           /\ \A totals, p : Explained(totals, p) => Explained(totals, p)'
           /\ turn'[c] = s /\ \A x \in Closings : x # c => turn'[x] = turn[x]
           /\ \A x \in Closings : x # c => shown'[x] = shown[x]
           /\ shown' # shown => shown'[c] = answer
<1>0. /\ \A x \in Corrections : x # c
      /\ today' = today /\ deal' = deal /\ heard' = heard /\ ledger' = ledger /\ dated' = dated
  BY LedgerNumbers DEF closingVars
<1>1. /\ turn' \in [Corrections \cup Closings -> {"idle", "waiting", "locked", "done"}]
      /\ turn'[c] = s /\ \A x \in Corrections \cup Closings : x # c => turn'[x] = turn[x]
  BY DEF LedgerTypeOK
<1>2. /\ DOMAIN shown' = Corrections \cup Closings
      /\ shown'[c] \in Runs \cup {Denied, Unanswered} /\ (shown' # shown => shown'[c] = answer)
      /\ \A x \in Corrections \cup Closings : x # c => shown'[x] = shown[x]
  BY DEF LedgerTypeOK
<1>3. LedgerTypeOK'
  <2>1. \A x \in Closings : shown'[x] \in Runs \cup {Denied, Unanswered}
    BY <1>2 DEF LedgerTypeOK
  <2>2. \A x \in Corrections : shown'[x] \in LedgerEntries \cup {Denied, Unanswered}
    BY <1>0, <1>2 DEF LedgerTypeOK
  <2> QED BY <1>0, <1>1, <1>2, <2>1, <2>2 DEF LedgerTypeOK
<1>4. CorrectionsFit'
  BY <1>0, <1>1 DEF LedgerInv, CorrectionsFit, Original
<1>5. UNCHANGED <<deal, heard, ledger>>
  BY <1>0
<1> QED BY <1>1, <1>2, <1>3, <1>4, <1>5, BooksRest

\* A repeated attempt is told the run of the first one, or that it differs.
LEMMA ClosingReplayed ==
    ASSUME NEW c \in Closings, RunsOf(c) # {}
    PROVE  ClosingReplay(c) \in RunsOf(c) \cup {Denied}
BY DEF ClosingReplay

\* A closing begins, or is answered from its first attempt.
LEMMA BeginClosingKeeps ==
    ASSUME LedgerTypeOK, LedgerInv, NEW c \in Closings, BeginClosing(c)
    PROVE  (LedgerTypeOK /\ LedgerInv)'
<1>0. /\ UNCHANGED closingVars /\ runs' = runs /\ figures' = figures
      /\ runs \subseteq Runs /\ figures \in [Closings -> Totals \cup {Unanswered}]
      /\ ClosingsFit /\ VarianceExplained
  BY DEF BeginClosing, LedgerTypeOK, LedgerInv
<1>1. /\ \A x \in Closings : RunsOf(x)' = RunsOf(x)
      /\ RunsOf(c) \subseteq Runs
  BY <1>0 DEF RunsOf
<1>2. CASE RunsOf(c) # {}
  <2>1. /\ turn' = [turn EXCEPT ![c] = "done"] /\ shown' = [shown EXCEPT ![c] = ClosingReplay(c)]
        /\ ClosingReplay(c) \in RunsOf(c) \cup {Denied}
        /\ ClosingReplay(c) \in Runs \cup {Denied}
    BY <1>1, <1>2, ClosingReplayed DEF BeginClosing, EndWith
  <2>2. /\ LedgerTypeOK'
        /\ (DealsFit /\ EntriesFit /\ OrdersBooked /\ CancelledReversed /\ TotalsAreNet
            /\ NothingTwice /\ CorrectionsFit)'
        /\ \A totals, p : Explained(totals, p) => Explained(totals, p)'
        /\ turn'[c] = "done" /\ \A x \in Closings : x # c => turn'[x] = turn[x]
        /\ \A x \in Closings : x # c => shown'[x] = shown[x]
    BY <1>0, <2>1, ClosingFrame
  <2>3. shown'[c] = ClosingReplay(c)
    BY <2>1 DEF LedgerTypeOK
  <2>4. ClosingsFit'
    BY <1>0, <1>1, <2>1, <2>2, <2>3 DEF ClosingsFit
  <2>5. VarianceExplained'
    BY <1>0, <2>2 DEF VarianceExplained
  <2> QED BY <2>2, <2>4, <2>5 DEF LedgerInv
<1>3. CASE ~(RunsOf(c) # {})
  <2>1. turn' = [turn EXCEPT ![c] = "waiting"] /\ shown' = shown
    BY <1>3 DEF BeginClosing
  <2>2. /\ LedgerTypeOK'
        /\ (DealsFit /\ EntriesFit /\ OrdersBooked /\ CancelledReversed /\ TotalsAreNet
            /\ NothingTwice /\ CorrectionsFit)'
        /\ \A totals, p : Explained(totals, p) => Explained(totals, p)'
        /\ turn'[c] = "waiting" /\ \A x \in Closings : x # c => turn'[x] = turn[x]
    BY <1>0, <2>1, ClosingFrame
  <2>3. ClosingsFit'
    BY <1>0, <1>1, <2>1, <2>2 DEF ClosingsFit
  <2>4. VarianceExplained'
    BY <1>0, <2>2 DEF VarianceExplained
  <2> QED BY <2>2, <2>3, <2>4 DEF LedgerInv
<1> QED BY <1>2, <1>3

\* A closing has the lock of the outlet, and has read both sums.
LEMMA LockAndCaptureKeeps ==
    ASSUME LedgerTypeOK, LedgerInv, NEW c \in Closings, LockAndCapture(c)
    PROVE  (LedgerTypeOK /\ LedgerInv)'
<1> DEFINE p == ClosingOf[c].period
<1>0. /\ UNCHANGED closingVars /\ runs' = runs /\ \A x \in Closings : turn[x] # "locked"
      /\ runs \subseteq Runs /\ figures \in [Closings -> Totals \cup {Unanswered}]
      /\ ClosingsFit /\ VarianceExplained /\ p \in Periods
  BY LedgerAssumption DEF LockAndCapture, LedgerTypeOK, LedgerInv
<1>1. /\ \A x \in Closings : RunsOf(x)' = RunsOf(x)
      /\ RunsOf(c) \subseteq Runs
  BY <1>0 DEF RunsOf
<1>2. CASE AnsweredMeanwhile(c)
  <2>1. /\ turn' = [turn EXCEPT ![c] = "done"] /\ shown' = [shown EXCEPT ![c] = ClosingReplay(c)]
        /\ figures' = figures
        /\ ClosingReplay(c) \in RunsOf(c) \cup {Denied}
        /\ ClosingReplay(c) \in Runs \cup {Denied}
    BY <1>1, <1>2, ClosingReplayed DEF LockAndCapture, EndWith, AnsweredMeanwhile
  <2>2. /\ LedgerTypeOK'
        /\ (DealsFit /\ EntriesFit /\ OrdersBooked /\ CancelledReversed /\ TotalsAreNet
            /\ NothingTwice /\ CorrectionsFit)'
        /\ \A totals, q : Explained(totals, q) => Explained(totals, q)'
        /\ turn'[c] = "done" /\ \A x \in Closings : x # c => turn'[x] = turn[x]
        /\ \A x \in Closings : x # c => shown'[x] = shown[x]
    BY <1>0, <2>1, ClosingFrame
  <2>3. shown'[c] = ClosingReplay(c)
    BY <2>1 DEF LedgerTypeOK
  <2>4. ClosingsFit'
    BY <1>0, <1>1, <2>1, <2>2, <2>3 DEF ClosingsFit
  <2>5. VarianceExplained'
    BY <1>0, <2>2 DEF VarianceExplained
  <2> QED BY <2>2, <2>4, <2>5 DEF LedgerInv
<1>3. CASE ~AnsweredMeanwhile(c)
  <2>1. /\ turn' = [turn EXCEPT ![c] = "locked"] /\ shown' = shown
        /\ figures' = [figures EXCEPT ![c] = Capture(p)] /\ RunsOf(c) = {}
    BY <1>3 DEF LockAndCapture, AnsweredMeanwhile
  <2>2. Capture(p) \in Totals /\ Explained(Capture(p), p)
    BY <1>0, CaptureIsExplained
  <2>3. /\ figures' \in [Closings -> Totals \cup {Unanswered}] /\ figures'[c] = Capture(p)
    BY <1>0, <2>1, <2>2
  <2>4. /\ LedgerTypeOK'
        /\ (DealsFit /\ EntriesFit /\ OrdersBooked /\ CancelledReversed /\ TotalsAreNet
            /\ NothingTwice /\ CorrectionsFit)'
        /\ \A totals, q : Explained(totals, q) => Explained(totals, q)'
        /\ turn'[c] = "locked" /\ \A x \in Closings : x # c => turn'[x] = turn[x]
    BY <1>0, <2>1, <2>3, ClosingFrame
  <2>5. ClosingsFit'
    BY <1>0, <1>1, <2>1, <2>2, <2>3, <2>4 DEF ClosingsFit
  <2>6. VarianceExplained'
    BY <1>0, <2>4 DEF VarianceExplained
  <2> QED BY <2>4, <2>5, <2>6 DEF LedgerInv
<1> QED BY <1>2, <1>3

\* A closing inserts its run, the variance explained.
LEMMA RecordClosingKeeps ==
    ASSUME LedgerTypeOK, LedgerInv, NEW c \in Closings, RecordClosing(c)
    PROVE  (LedgerTypeOK /\ LedgerInv)'
<1> DEFINE run == [attempt |-> ClosingOf[c].attempt, by |-> ClosingOf[c].by,
                   period |-> ClosingOf[c].period, totals |-> figures[c]]
<1>0. /\ UNCHANGED closingVars /\ turn[c] = "locked" /\ runs' = runs \cup {run}
      /\ figures' = figures /\ turn' = [turn EXCEPT ![c] = "done"]
      /\ shown' = [shown EXCEPT ![c] = run]
      /\ runs \subseteq Runs /\ figures \in [Closings -> Totals \cup {Unanswered}]
      /\ ClosingsFit /\ VarianceExplained /\ ClosingOf[c].period \in Periods
  BY LedgerAssumption DEF RecordClosing, Recorded, EndWith, LedgerTypeOK, LedgerInv
<1>1. /\ figures[c] \in Totals /\ Explained(figures[c], ClosingOf[c].period)
      /\ \A r \in runs : r.attempt # ClosingOf[c].attempt
      /\ \A x \in Closings : turn[x] = "locked" => x = c
  BY <1>0 DEF ClosingsFit, RunsOf
<1>2. run \in Runs
  BY <1>0, <1>1 DEF Runs
<1>3. /\ LedgerTypeOK'
      /\ (DealsFit /\ EntriesFit /\ OrdersBooked /\ CancelledReversed /\ TotalsAreNet
          /\ NothingTwice /\ CorrectionsFit)'
      /\ \A totals, q : Explained(totals, q) => Explained(totals, q)'
      /\ turn'[c] = "done" /\ \A x \in Closings : x # c => turn'[x] = turn[x]
      /\ \A x \in Closings : x # c => shown'[x] = shown[x]
  <2> HIDE DEF run
  <2> QED BY <1>0, <1>2, ClosingFrame
<1>4. shown'[c] = run
  BY <1>0 DEF LedgerTypeOK
<1>5. /\ \A x \in Closings : RunsOf(x) \subseteq RunsOf(x)'
      /\ run \in RunsOf(c)'
  BY <1>0 DEF RunsOf
<1>6. ClosingsFit'
  <2>1. \A x, y \in Closings : turn'[x] # "locked"
    BY <1>1, <1>3
  <2>2. \A x \in Closings : shown'[x] \notin {Denied, Unanswered} => shown'[x] \in RunsOf(x)'
    BY <1>0, <1>3, <1>4, <1>5 DEF ClosingsFit
  <2>3. \A r, q \in runs' : r.attempt = q.attempt => r = q
    BY <1>0, <1>1 DEF ClosingsFit
  <2> QED BY <2>1, <2>2, <2>3 DEF ClosingsFit
<1>7. VarianceExplained'
  BY <1>0, <1>1, <1>3 DEF VarianceExplained
<1> QED BY <1>3, <1>6, <1>7 DEF LedgerInv

-----------------------------------------------------------------------------
(* The specification *)

\* The empty ledger.
LEMMA LedgerInitInv == LedgerInit => LedgerTypeOK /\ LedgerInv
<1> SUFFICES ASSUME LedgerInit PROVE LedgerTypeOK /\ LedgerInv
  OBVIOUS
<1>0. /\ today = 1 /\ ledger = <<>> /\ runs = {} /\ DOMAIN ledger = {}
      /\ \A d \in Deals : deal[d].status = "none" /\ deal[d].at = 0 /\ heard[d] = "no"
      /\ \A c \in Corrections \cup Closings : turn[c] = "idle" /\ shown[c] = Unanswered
  BY DEF LedgerInit
<1>1. LedgerTypeOK
  BY <1>0, LedgerNumbers DEF LedgerInit, LedgerTypeOK
<1>2. TotalsAreNet
  <2> SUFFICES ASSUME NEW p \in Periods, NEW t \in EntryTypes
               PROVE  LedgerTotal(p, t) = SumFunctionOnSet(Nets(p, t), Deals)
    BY DEF TotalsAreNet
  <2>1. LedgerTotal(p, t) = 0
    <3>1. LedgerTotal(p, t) = SumFunctionOnSet(EntryAmounts(ledger), {})
      BY <1>0 DEF LedgerTotal
    <3> QED BY <3>1, SumStep, FS_EmptySet
  <2>2. \A d \in Deals : Nets(p, t)[d] = 0
    BY <1>0, LedgerNumbers DEF Nets, Net, AdjustedIn
  <2>3. SumFunctionOnSet(Nets(p, t), Deals) = SumFunctionOnSet(Nets(p, t), {})
    BY <2>2, LedgerNumbers, SumZeros
  <2> QED BY <2>1, <2>3, SumStep, FS_EmptySet
<1>3. DealsFit /\ EntriesFit /\ OrdersBooked /\ CancelledReversed /\ NothingTwice
  BY <1>0 DEF DealsFit, EntriesFit, OrdersBooked, CancelledReversed, NothingTwice
<1>4. CorrectionsFit /\ ClosingsFit /\ VarianceExplained
  BY <1>0 DEF CorrectionsFit, ClosingsFit, VarianceExplained
<1> QED BY <1>1, <1>2, <1>3, <1>4 DEF LedgerInv

\* Every step keeps the books.
LEMMA LedgerNextInv ==
    LedgerTypeOK /\ LedgerInv /\ [LedgerNext]_ledgerVars => (LedgerTypeOK /\ LedgerInv)'
<1> SUFFICES ASSUME LedgerTypeOK, LedgerInv, [LedgerNext]_ledgerVars
             PROVE  (LedgerTypeOK /\ LedgerInv)'
  OBVIOUS
<1>1. ASSUME UNCHANGED <<deal, heard, ledger, adminVars>>, today' \in Periods
      PROVE  (LedgerTypeOK /\ LedgerInv)'
  <2>1. /\ (DealsFit /\ EntriesFit /\ OrdersBooked /\ CancelledReversed /\ TotalsAreNet
            /\ NothingTwice)'
    BY <1>1, BooksRest
  <2>2. Appends(ledger, {}, ledger')
    BY <1>1, NothingAppended
  <2>3. (CorrectionsFit /\ ClosingsFit /\ VarianceExplained)'
    BY <1>1, <2>2, AdminsRest
  <2>4. LedgerTypeOK'
    BY <1>1 DEF LedgerTypeOK, adminVars
  <2> QED BY <2>1, <2>3, <2>4 DEF LedgerInv
<1>2. CASE UNCHANGED ledgerVars
  <2>1. UNCHANGED <<deal, heard, ledger, adminVars>> /\ today' \in Periods
    BY <1>2 DEF ledgerVars, adminVars, LedgerTypeOK
  <2> QED BY <1>1, <2>1
<1>3. CASE NextPeriod
  <2>1. UNCHANGED <<deal, heard, ledger, adminVars>> /\ today' \in Periods
    BY <1>3, LedgerNumbers DEF NextPeriod, LedgerTypeOK, Periods
  <2> QED BY <1>1, <2>1
<1>4. CASE \E d \in Deals : \/ Issue(d) \/ AwaitPayment(d) \/ CompleteRecovery(d)
                            \/ CancelDeal(d) \/ WebhookCancels(d)
  BY <1>4, DealMoves
<1>5. CASE \E c \in Corrections :
              BeginCorrection(c) \/ LockCorrection(c) \/ InsertCorrection(c)
  BY <1>5, BeginCorrectionKeeps, LockCorrectionKeeps, InsertCorrectionKeeps
<1>6. CASE \E c \in Closings : BeginClosing(c) \/ LockAndCapture(c) \/ RecordClosing(c)
  BY <1>6, BeginClosingKeeps, LockAndCaptureKeeps, RecordClosingKeeps
<1> QED BY <1>2, <1>3, <1>4, <1>5, <1>6 DEF LedgerNext

\* Deals, entries, runs and requests of the ledger are typed.
THEOREM LedgerTypeCorrect == LedgerSpec => []LedgerTypeOK
BY LedgerInitInv, LedgerNextInv, PTL DEF LedgerSpec

\* The invariant of the books: each total is the sum of what each deal leaves in the period.
THEOREM LedgerSound == LedgerSpec => []LedgerInv
BY LedgerInitInv, LedgerNextInv, PTL DEF LedgerSpec

\* For any deals, prices, corrections and closings: the ledger of a period says what its orders
\* say unless an admin or an unsettled cancellation explains why not, so does every closing, an
\* entry is reversed once, and an attempt closes one period.
THEOREM BooksAlwaysBalance == LedgerSpec => []BooksBalance
<1>1. LedgerTypeOK /\ LedgerInv => AttemptClosesOnce
  <2> SUFFICES ASSUME LedgerTypeOK, LedgerInv PROVE AttemptClosesOnce
    OBVIOUS
  <2>1. /\ \A r, s \in runs : r.attempt = s.attempt => r = s
        /\ \A c \in Closings : shown[c] \notin {Denied, Unanswered} => shown[c] \in RunsOf(c)
    BY DEF LedgerInv, ClosingsFit
  <2>2. ASSUME NEW x \in Closings, NEW y \in Closings,
               ClosingOf[x].attempt = ClosingOf[y].attempt,
               {shown[x], shown[y]} \cap {Denied, Unanswered} = {}
        PROVE  shown[x] = shown[y]
    <3>1. shown[x] \in RunsOf(x) /\ shown[y] \in RunsOf(y)
      BY <2>1, <2>2
    <3> QED BY <2>1, <2>2, <3>1 DEF RunsOf
  <2> QED BY <2>1, <2>2 DEF AttemptClosesOnce
<1>2. LedgerTypeOK /\ LedgerInv => BooksBalance
  BY <1>1, BalancesUntouched, CancelsOut DEF BooksBalance, LedgerInv
<1> QED BY <1>2, LedgerTypeCorrect, LedgerSound, PTL
=============================================================================
