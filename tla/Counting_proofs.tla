-------------------------- MODULE Counting_proofs --------------------------
(***************************************************************************)
(* Proofs about the components whose invariants are sums: System V         *)
(* semaphores count permits and handles, the memory manager counts bytes.  *)
(* First what is known of sums, then SysVSem, then Alloc.                  *)
(***************************************************************************)
EXTENDS SysVSem, Alloc, FiniteSetTheorems, WellFoundedInduction, TLAPS

(***************************************************************************)
(* Sums of a function over a finite set, SumFunctionOnSet of the community *)
(* module Functions.  Induction over a finite set is by a minimal          *)
(* counterexample, which is a set: no theorem with an operator as a        *)
(* parameter is needed.                                                    *)
(***************************************************************************)
\* Among some subsets of a finite set one is minimal.
LEMMA Minimal ==
  ASSUME NEW S, IsFiniteSet(S), NEW C, C \subseteq SUBSET S, C # {}
  PROVE  \E T \in C : \A U \in C : U \subseteq T => U = T
<1> DEFINE R == StrictSubsetOrdering(S)
<1>1. IsWellFoundedOn(R, FiniteSubsetsOf(S)) /\ FiniteSubsetsOf(S) = SUBSET S
  BY FS_StrictSubsetOrderingWellFounded, FS_FiniteSubsetsOfFinite
<1>2. \E T \in C : \A U \in C : <<U, T>> \notin R
  <2> HIDE DEF R
  <2> QED
    BY <1>1, WFMin
<1> QED
  BY <1>2 DEF StrictSubsetOrdering

(***************************************************************************)
(* The recursion by which a sum is defined has one solution.               *)
(***************************************************************************)
Picked(s) == CHOOSE x \in s : TRUE

Value(f, g, s) == IF s = {} THEN 0 ELSE f[Picked(s)] + g[s \ {Picked(s)}]
Sums(f, T, g)  == g = [s \in SUBSET T |-> Value(f, g, s)]
Partial(f, T)  == CHOOSE g : Sums(f, T, g)

LEMMA Picks == ASSUME NEW s, s # {} PROVE Picked(s) \in s
  BY DEF Picked

\* Two solutions agree where both are defined.
LEMMA SumsUnique ==
  ASSUME NEW f, NEW S, IsFiniteSet(S), NEW T \in SUBSET S, NEW g, NEW h, Sums(f, S, g), Sums(f, T, h)
  PROVE  \A s \in SUBSET T : g[s] = h[s]
<1> DEFINE C == {s \in SUBSET T : g[s] # h[s]}
<1>1. SUFFICES ASSUME C # {} PROVE FALSE
  OBVIOUS
<1>2. PICK s \in C : \A u \in C : u \subseteq s => u = s
  <2>1. C \subseteq SUBSET S
    OBVIOUS
  <2> HIDE DEF C
  <2> QED
    BY <1>1, <2>1, Minimal
<1>3. g[s] = Value(f, g, s) /\ h[s] = Value(f, h, s)
  BY <1>2 DEF Sums
<1>4. s # {}
  BY <1>2, <1>3 DEF Value
<1>5. s \ {Picked(s)} \in SUBSET T /\ s \ {Picked(s)} # s
  BY <1>2, <1>4, Picks
<1>6. g[s \ {Picked(s)}] = h[s \ {Picked(s)}]
  BY <1>2, <1>5
<1> QED
  BY <1>2, <1>3, <1>4, <1>6 DEF Value

\* Every finite set has one.
LEMMA SumsExist ==
  ASSUME NEW f, NEW S, IsFiniteSet(S)
  PROVE  \A T \in SUBSET S : \E g : Sums(f, T, g)
<1> DEFINE C == {T \in SUBSET S : ~ \E g : Sums(f, T, g)}
<1>1. SUFFICES ASSUME C # {} PROVE FALSE
  OBVIOUS
<1>2. PICK T \in C : \A U \in C : U \subseteq T => U = T
  <2>1. C \subseteq SUBSET S
    OBVIOUS
  <2> HIDE DEF C
  <2> QED
    BY <1>1, <2>1, Minimal
<1>3. ASSUME NEW s \in SUBSET T, s # T PROVE Sums(f, s, Partial(f, s))
  <2>1. \E g : Sums(f, s, g)
    BY <1>2, <1>3
  <2> QED
    BY <2>1 DEF Partial
<1> DEFINE below == [s \in SUBSET T |-> Partial(f, s)[s]]
           g == [s \in SUBSET T |-> Value(f, below, s)]
<1>4. ASSUME NEW s \in SUBSET T, s # T PROVE below[s] = Value(f, below, s)
  <2>1. Partial(f, s)[s] = Value(f, Partial(f, s), s)
    BY <1>3, <1>4 DEF Sums
  <2>2. CASE s = {}
    BY <2>1, <2>2 DEF Value
  <2>3. CASE s # {}
    <3> DEFINE u == s \ {Picked(s)}
    <3>1. u \in SUBSET s /\ u \in SUBSET T /\ u # T
      BY <1>4, <2>3, Picks
    <3>2. IsFiniteSet(s)
      BY <1>2, <1>4, FS_Subset
    <3>3. Sums(f, u, Partial(f, u)) /\ Sums(f, s, Partial(f, s))
      BY <1>3, <1>4, <3>1
    <3>4. Partial(f, s)[u] = Partial(f, u)[u]
      BY <3>1, <3>2, <3>3, SumsUnique
    <3> QED
      BY <2>1, <2>3, <3>1, <3>4 DEF Value
  <2> QED
    BY <2>2, <2>3
<1>5. \A s \in SUBSET T : Value(f, g, s) = Value(f, below, s)
  <2> SUFFICES ASSUME NEW s \in SUBSET T, s # {} PROVE g[s \ {Picked(s)}] = below[s \ {Picked(s)}]
    BY DEF Value
  <2> DEFINE u == s \ {Picked(s)}
  <2>1. u \in SUBSET T /\ u # T
    BY Picks
  <2>2. below[u] = Value(f, below, u)
    BY <1>4, <2>1
  <2> HIDE DEF below
  <2> QED
    BY <2>1, <2>2
<1>6. Sums(f, T, g)
  BY <1>5 DEF Sums
<1> QED
  BY <1>2, <1>6

\* A sum is empty, or an element and the sum of the rest.
LEMMA SumPicked ==
  ASSUME NEW f, NEW S, IsFiniteSet(S)
  PROVE  /\ SumFunctionOnSet(f, {}) = 0
         /\ S # {} => SumFunctionOnSet(f, S) =
                        f[Picked(S)] + SumFunctionOnSet(f, S \ {Picked(S)})
<1>1. \A T : SumFunctionOnSet(f, T) = Partial(f, T)[T]
  BY DEF SumFunctionOnSet, FoldFunctionOnSet, MapThenFoldSet, Partial, Sums, Value, Picked
<1>2. \A T \in SUBSET S : Sums(f, T, Partial(f, T))
  BY SumsExist DEF Partial
<1>3. \A T \in SUBSET S : Partial(f, T)[T] = Value(f, Partial(f, T), T)
  BY <1>2 DEF Sums
<1>4. Partial(f, {})[{}] = 0
  BY <1>3 DEF Value
<1>5. ASSUME S # {} PROVE Partial(f, S)[S] = f[Picked(S)] + Partial(f, S \ {Picked(S)})[S \ {Picked(S)}]
  <2> DEFINE U == S \ {Picked(S)}
  <2>1. U \in SUBSET S
    OBVIOUS
  <2>2. Partial(f, S)[U] = Partial(f, U)[U]
    <3>1. Sums(f, S, Partial(f, S)) /\ Sums(f, U, Partial(f, U))
      BY <1>2, <2>1
    <3> HIDE DEF U
    <3> QED
      BY <2>1, <3>1, SumsUnique
  <2>3. Partial(f, S)[S] = f[Picked(S)] + Partial(f, S)[U]
    BY <1>3, <1>5 DEF Value
  <2> QED
    BY <2>2, <2>3
<1> QED
  BY <1>1, <1>4, <1>5

-----------------------------------------------------------------------------
(***************************************************************************)
(* What the proofs use: any element may be taken out.                      *)
(***************************************************************************)
\* Nothing adds up to 0.
THEOREM SumEmpty == ASSUME NEW f PROVE SumFunctionOnSet(f, {}) = 0
  BY SumPicked, FS_EmptySet

\* Integers add up to an integer.
THEOREM SumType ==
  ASSUME NEW f, NEW S, IsFiniteSet(S), \A x \in S : f[x] \in Int
  PROVE  SumFunctionOnSet(f, S) \in Int
<1> DEFINE C == {T \in SUBSET S : SumFunctionOnSet(f, T) \notin Int}
<1>1. SUFFICES ASSUME C # {} PROVE FALSE
  BY DEF C
<1>2. PICK T \in C : \A U \in C : U \subseteq T => U = T
  <2>1. C \subseteq SUBSET S
    OBVIOUS
  <2> HIDE DEF C
  <2> QED
    BY <1>1, <2>1, Minimal
<1>3. T # {} /\ IsFiniteSet(T)
  <2>1. SumFunctionOnSet(f, {}) \in Int
    BY SumEmpty
  <2> QED
    BY <1>2, <2>1, FS_Subset
<1> DEFINE x == Picked(T)
<1>4. x \in T /\ SumFunctionOnSet(f, T) = f[x] + SumFunctionOnSet(f, T \ {x})
  BY <1>3, SumPicked, Picks
<1>5. SumFunctionOnSet(f, T \ {x}) \in Int
  <2> HIDE DEF x
  <2> QED
    BY <1>2, <1>4
<1> QED
  BY <1>2, <1>4, <1>5

\* A sum is any element and the sum of the rest.
THEOREM SumTakes ==
  ASSUME NEW f, NEW S, IsFiniteSet(S), \A x \in S : f[x] \in Int, NEW x \in S
  PROVE  SumFunctionOnSet(f, S) = f[x] + SumFunctionOnSet(f, S \ {x})
<1> DEFINE C == {T \in SUBSET S : \E y \in T :
                   SumFunctionOnSet(f, T) # f[y] + SumFunctionOnSet(f, T \ {y})}
<1>1. SUFFICES ASSUME C # {} PROVE FALSE
  OBVIOUS
<1>2. PICK T \in C : \A U \in C : U \subseteq T => U = T
  <2>1. C \subseteq SUBSET S
    OBVIOUS
  <2> HIDE DEF C
  <2> QED
    BY <1>1, <2>1, Minimal
<1>3. PICK y \in T : SumFunctionOnSet(f, T) # f[y] + SumFunctionOnSet(f, T \ {y})
  BY <1>2
<1>4. IsFiniteSet(T) /\ IsFiniteSet(T \ {y}) /\ T \in SUBSET S
  BY <1>2, FS_Subset
<1> DEFINE z == Picked(T)
<1>5. z \in T /\ SumFunctionOnSet(f, T) = f[z] + SumFunctionOnSet(f, T \ {z})
  BY <1>3, <1>4, SumPicked, Picks
<1> HIDE DEF z
<1>6. y # z
  BY <1>3, <1>5
<1>7. SumFunctionOnSet(f, T \ {z}) = f[y] + SumFunctionOnSet(f, (T \ {z}) \ {y})
  <2>1. T \ {z} \in SUBSET S /\ T \ {z} # T /\ y \in T \ {z} /\ T \ {z} \notin C
    BY <1>2, <1>5, <1>6
  <2> QED
    BY <2>1
<1>8. SumFunctionOnSet(f, T \ {y}) = f[z] + SumFunctionOnSet(f, (T \ {y}) \ {z})
  <2>1. T \ {y} \in SUBSET S /\ T \ {y} # T /\ z \in T \ {y} /\ T \ {y} \notin C
    BY <1>2, <1>5, <1>6
  <2> QED
    BY <2>1
<1>9. (T \ {z}) \ {y} = (T \ {y}) \ {z}
  OBVIOUS
<1>10. SumFunctionOnSet(f, (T \ {y}) \ {z}) \in Int
  <2>1. IsFiniteSet((T \ {y}) \ {z}) /\ \A w \in (T \ {y}) \ {z} : f[w] \in Int
    BY <1>4, FS_RemoveElement
  <2> QED
    BY <2>1, SumType
<1>11. f[y] \in Int /\ f[z] \in Int
  BY <1>4, <1>5
<1>12. SumFunctionOnSet(f, T) = f[z] + (f[y] + SumFunctionOnSet(f, (T \ {y}) \ {z}))
  BY <1>5, <1>7, <1>9
<1>13. SumFunctionOnSet(f, T) # f[y] + (f[z] + SumFunctionOnSet(f, (T \ {y}) \ {z}))
  BY <1>3, <1>8
<1> QED
  BY <1>10, <1>11, <1>12, <1>13

\* The function counts only on the set.
THEOREM SumSame ==
  ASSUME NEW f, NEW g, NEW S, IsFiniteSet(S), \A x \in S : f[x] = g[x] /\ f[x] \in Int
  PROVE  SumFunctionOnSet(f, S) = SumFunctionOnSet(g, S)
<1> DEFINE C == {T \in SUBSET S : SumFunctionOnSet(f, T) # SumFunctionOnSet(g, T)}
<1>1. SUFFICES ASSUME C # {} PROVE FALSE
  OBVIOUS
<1>2. PICK T \in C : \A U \in C : U \subseteq T => U = T
  <2>1. C \subseteq SUBSET S
    OBVIOUS
  <2> HIDE DEF C
  <2> QED
    BY <1>1, <2>1, Minimal
<1>3. T # {} /\ IsFiniteSet(T) /\ T \in SUBSET S
  BY <1>2, SumEmpty, FS_Subset
<1> DEFINE x == Picked(T)
<1>4. /\ x \in T /\ SumFunctionOnSet(f, T) = f[x] + SumFunctionOnSet(f, T \ {x})
      /\ SumFunctionOnSet(g, T) = g[x] + SumFunctionOnSet(g, T \ {x})
  BY <1>3, SumPicked, Picks
<1>5. SumFunctionOnSet(f, T \ {x}) = SumFunctionOnSet(g, T \ {x})
  <2> HIDE DEF x
  <2> QED
    BY <1>2, <1>4
<1> QED
  BY <1>2, <1>3, <1>4, <1>5

\* One element has another value.
THEOREM SumChanges ==
  ASSUME NEW f, NEW g, NEW S, IsFiniteSet(S), NEW x \in S,
         \A y \in S : f[y] \in Int /\ g[y] \in Int,
         \A y \in S \ {x} : f[y] = g[y]
  PROVE  SumFunctionOnSet(g, S) = SumFunctionOnSet(f, S) - f[x] + g[x]
<1>1. IsFiniteSet(S \ {x})
  BY FS_RemoveElement
<1>2. SumFunctionOnSet(f, S \ {x}) = SumFunctionOnSet(g, S \ {x})
  BY <1>1, SumSame
<1>3. SumFunctionOnSet(f, S \ {x}) \in Int
  BY <1>1, SumType
<1>4. /\ SumFunctionOnSet(f, S) = f[x] + SumFunctionOnSet(f, S \ {x})
      /\ SumFunctionOnSet(g, S) = g[x] + SumFunctionOnSet(g, S \ {x})
  BY SumTakes
<1> QED
  BY <1>2, <1>3, <1>4

\* A sum of naturals is one, and none of them is larger.
THEOREM SumOfNaturals ==
  ASSUME NEW f, NEW S, IsFiniteSet(S), \A x \in S : f[x] \in Nat
  PROVE  SumFunctionOnSet(f, S) \in Nat /\ \A x \in S : f[x] <= SumFunctionOnSet(f, S)
<1> DEFINE C == {T \in SUBSET S : SumFunctionOnSet(f, T) \notin Nat}
<1>1. C = {}
  <2> SUFFICES ASSUME C # {} PROVE FALSE
    OBVIOUS
  <2>1. PICK T \in C : \A U \in C : U \subseteq T => U = T
    <3>1. C \subseteq SUBSET S
      OBVIOUS
    <3> HIDE DEF C
    <3> QED
      BY <3>1, Minimal
  <2>2. T # {} /\ IsFiniteSet(T) /\ T \in SUBSET S
    <3>1. SumFunctionOnSet(f, {}) \in Nat
      BY SumEmpty
    <3> QED
      BY <2>1, <3>1, FS_Subset
  <2> DEFINE x == Picked(T)
  <2>3. x \in T /\ SumFunctionOnSet(f, T) = f[x] + SumFunctionOnSet(f, T \ {x})
    BY <2>2, SumPicked, Picks
  <2>4. SumFunctionOnSet(f, T \ {x}) \in Nat
    <3> HIDE DEF x
    <3> QED
      BY <2>1, <2>3
  <2> QED
    BY <2>1, <2>2, <2>3, <2>4
<1>2. \A T \in SUBSET S : SumFunctionOnSet(f, T) \in Nat
  BY <1>1
<1>3. ASSUME NEW x \in S PROVE f[x] <= SumFunctionOnSet(f, S)
  <2>1. SumFunctionOnSet(f, S) = f[x] + SumFunctionOnSet(f, S \ {x})
    BY SumTakes
  <2>2. SumFunctionOnSet(f, S \ {x}) \in Nat
    BY <1>2
  <2> QED
    BY <2>1, <2>2
<1> QED
  BY <1>2, <1>3

\* A set is added up in two parts.
THEOREM SumSplits ==
  ASSUME NEW f, NEW S, IsFiniteSet(S), \A x \in S : f[x] \in Int, NEW T \in SUBSET S
  PROVE  SumFunctionOnSet(f, S) = SumFunctionOnSet(f, T) + SumFunctionOnSet(f, S \ T)
<1> DEFINE C == {U \in SUBSET T :
                   SumFunctionOnSet(f, U \cup (S \ T))
                     # SumFunctionOnSet(f, U) + SumFunctionOnSet(f, S \ T)}
<1>1. IsFiniteSet(T) /\ IsFiniteSet(S \ T) /\ SumFunctionOnSet(f, S \ T) \in Int
  BY FS_Subset, SumType
<1>2. C = {}
  <2> SUFFICES ASSUME C # {} PROVE FALSE
    OBVIOUS
  <2>1. PICK U \in C : \A W \in C : W \subseteq U => W = U
    <3>1. C \subseteq SUBSET T
      OBVIOUS
    <3> HIDE DEF C
    <3> QED
      BY <1>1, <3>1, Minimal
  <2>2. U # {}
    <3> SUFFICES ASSUME U = {} PROVE FALSE
      OBVIOUS
    <3>1. SumFunctionOnSet(f, U) = 0 /\ U \cup (S \ T) = S \ T
      BY SumEmpty
    <3>2. SumFunctionOnSet(f, U \cup (S \ T)) # SumFunctionOnSet(f, U) + SumFunctionOnSet(f, S \ T)
      BY <2>1
    <3> QED
      BY <1>1, <3>1, <3>2
  <2>3. PICK x \in U : TRUE
    BY <2>2
  <2> DEFINE W == U \ {x}
             V == U \cup (S \ T)
  <2>4. /\ IsFiniteSet(U) /\ IsFiniteSet(W) /\ IsFiniteSet(V)
        /\ V \in SUBSET S /\ U \in SUBSET S /\ x \in V
    BY <2>1, <2>3, FS_Subset
  <2>5. SumFunctionOnSet(f, U) = f[x] + SumFunctionOnSet(f, W)
    BY <2>3, <2>4, SumTakes
  <2>6. SumFunctionOnSet(f, V) = f[x] + SumFunctionOnSet(f, V \ {x})
    BY <2>4, SumTakes
  <2>7. V \ {x} = W \cup (S \ T)
    BY <2>1, <2>3
  <2>8. SumFunctionOnSet(f, W \cup (S \ T)) = SumFunctionOnSet(f, W) + SumFunctionOnSet(f, S \ T)
    <3>1. W \in SUBSET T /\ W # U /\ W \notin C
      BY <2>1, <2>3
    <3> QED
      BY <3>1
  <2>9. SumFunctionOnSet(f, W) \in Int /\ f[x] \in Int
    BY <2>3, <2>4, SumType
  <2>10. SumFunctionOnSet(f, V) # SumFunctionOnSet(f, U) + SumFunctionOnSet(f, S \ T)
    BY <2>1
  <2>11. SumFunctionOnSet(f, V)
           = f[x] + (SumFunctionOnSet(f, W) + SumFunctionOnSet(f, S \ T))
    BY <2>6, <2>7, <2>8
  <2> HIDE DEF W, V
  <2> QED
    BY <1>1, <2>5, <2>9, <2>10, <2>11
<1>3. T \cup (S \ T) = S
  OBVIOUS
<1>4. T \notin C
  BY <1>2
<1> QED
  BY <1>3, <1>4

\* Zeros add up to 0.
THEOREM SumOfZeros ==
  ASSUME NEW f, NEW S, IsFiniteSet(S), \A x \in S : f[x] = 0
  PROVE  SumFunctionOnSet(f, S) = 0
<1> DEFINE C == {T \in SUBSET S : SumFunctionOnSet(f, T) # 0}
<1>1. SUFFICES ASSUME C # {} PROVE FALSE
  OBVIOUS
<1>2. PICK T \in C : \A U \in C : U \subseteq T => U = T
  <2>1. C \subseteq SUBSET S
    OBVIOUS
  <2> HIDE DEF C
  <2> QED
    BY <1>1, <2>1, Minimal
<1>3. T # {} /\ IsFiniteSet(T) /\ T \in SUBSET S
  BY <1>2, SumEmpty, FS_Subset
<1> DEFINE x == Picked(T)
<1>4. x \in T /\ SumFunctionOnSet(f, T) = f[x] + SumFunctionOnSet(f, T \ {x})
  BY <1>3, SumPicked, Picks
<1>5. SumFunctionOnSet(f, T \ {x}) = 0
  <2> HIDE DEF x
  <2> QED
    BY <1>2, <1>4
<1> QED
  BY <1>2, <1>3, <1>4, <1>5

\* Ones count the elements,
THEOREM SumOfOnes ==
  ASSUME NEW f, NEW S, IsFiniteSet(S), \A x \in S : f[x] = 1
  PROVE  SumFunctionOnSet(f, S) = Cardinality(S)
<1> DEFINE C == {T \in SUBSET S : SumFunctionOnSet(f, T) # Cardinality(T)}
<1>1. SUFFICES ASSUME C # {} PROVE FALSE
  OBVIOUS
<1>2. PICK T \in C : \A U \in C : U \subseteq T => U = T
  <2>1. C \subseteq SUBSET S
    OBVIOUS
  <2> HIDE DEF C
  <2> QED
    BY <1>1, <2>1, Minimal
<1>3. T # {} /\ IsFiniteSet(T) /\ T \in SUBSET S
  BY <1>2, SumEmpty, FS_Subset, FS_EmptySet
<1> DEFINE x == Picked(T)
<1>4. x \in T /\ SumFunctionOnSet(f, T) = f[x] + SumFunctionOnSet(f, T \ {x})
  BY <1>3, SumPicked, Picks
<1>5. SumFunctionOnSet(f, T \ {x}) = Cardinality(T \ {x})
  <2> HIDE DEF x
  <2> QED
    BY <1>2, <1>4
<1>6. Cardinality(T) \in Nat /\ Cardinality(T \ {x}) = Cardinality(T) - 1
  BY <1>3, <1>4, FS_CardinalityType, FS_RemoveElement
<1> QED
  BY <1>2, <1>3, <1>4, <1>5, <1>6

\* and ones and zeros those of a part.
THEOREM SumOfMembers ==
  ASSUME NEW f, NEW S, IsFiniteSet(S), NEW T \in SUBSET S,
         \A x \in S : f[x] = IF x \in T THEN 1 ELSE 0
  PROVE  SumFunctionOnSet(f, S) = Cardinality(T) /\ Cardinality(T) \in Nat
<1>1. IsFiniteSet(T) /\ IsFiniteSet(S \ T) /\ Cardinality(T) \in Nat
  BY FS_Subset, FS_CardinalityType
<1>2. SumFunctionOnSet(f, T) = Cardinality(T)
  BY <1>1, SumOfOnes
<1>3. SumFunctionOnSet(f, S \ T) = 0
  BY <1>1, SumOfZeros
<1>4. SumFunctionOnSet(f, S) = SumFunctionOnSet(f, T) + SumFunctionOnSet(f, S \ T)
  BY SumSplits
<1> QED
  BY <1>1, <1>2, <1>3, <1>4

\* Two functions are added up together or each by itself.
THEOREM SumPlus ==
  ASSUME NEW f, NEW g, NEW h, NEW S, IsFiniteSet(S),
         \A x \in S : f[x] \in Int /\ g[x] \in Int /\ h[x] = f[x] + g[x]
  PROVE  SumFunctionOnSet(h, S) = SumFunctionOnSet(f, S) + SumFunctionOnSet(g, S)
<1> DEFINE C == {T \in SUBSET S :
                   SumFunctionOnSet(h, T) # SumFunctionOnSet(f, T) + SumFunctionOnSet(g, T)}
<1>1. SUFFICES ASSUME C # {} PROVE FALSE
  OBVIOUS
<1>2. PICK T \in C : \A U \in C : U \subseteq T => U = T
  <2>1. C \subseteq SUBSET S
    OBVIOUS
  <2> HIDE DEF C
  <2> QED
    BY <1>1, <2>1, Minimal
<1>3. T # {} /\ IsFiniteSet(T) /\ T \in SUBSET S
  <2>1. /\ SumFunctionOnSet(f, {}) = 0 /\ SumFunctionOnSet(g, {}) = 0
        /\ SumFunctionOnSet(h, {}) = 0
    BY SumEmpty
  <2>2. {} \notin C
    BY <2>1
  <2>3. T \in C /\ C \subseteq SUBSET S
    BY <1>2
  <2> HIDE DEF C
  <2> QED
    BY <2>2, <2>3, FS_Subset
<1>4. PICK x \in T : TRUE
  BY <1>3
<1>5. IsFiniteSet(T \ {x}) /\ f[x] \in Int /\ g[x] \in Int /\ h[x] = f[x] + g[x]
  BY <1>3, FS_RemoveElement
<1>6. SumFunctionOnSet(f, T) = f[x] + SumFunctionOnSet(f, T \ {x})
  BY <1>3, SumTakes
<1>7. SumFunctionOnSet(g, T) = g[x] + SumFunctionOnSet(g, T \ {x})
  BY <1>3, SumTakes
<1>8. SumFunctionOnSet(h, T) = h[x] + SumFunctionOnSet(h, T \ {x})
  <2>1. \A y \in T : h[y] \in Int
    BY <1>3
  <2> QED
    BY <1>3, <2>1, SumTakes
<1>9. SumFunctionOnSet(h, T \ {x})
        = SumFunctionOnSet(f, T \ {x}) + SumFunctionOnSet(g, T \ {x})
  <2>1. T \ {x} \in SUBSET S /\ T \ {x} # T /\ T \ {x} \notin C
    BY <1>2
  <2> QED
    BY <2>1
<1>10. SumFunctionOnSet(f, T \ {x}) \in Int /\ SumFunctionOnSet(g, T \ {x}) \in Int
  BY <1>3, <1>5, SumType
<1>11. SumFunctionOnSet(h, T) # SumFunctionOnSet(f, T) + SumFunctionOnSet(g, T)
  BY <1>2
<1> QED
  BY <1>5, <1>6, <1>7, <1>8, <1>9, <1>10, <1>11

\* What is at most as large everywhere has at most the sum.
THEOREM SumAtMost ==
  ASSUME NEW f, NEW g, NEW S, IsFiniteSet(S),
         \A x \in S : f[x] \in Int /\ g[x] \in Int /\ f[x] <= g[x]
  PROVE  SumFunctionOnSet(f, S) <= SumFunctionOnSet(g, S)
<1> DEFINE d == [x \in S |-> g[x] - f[x]]
<1>1. \A x \in S : d[x] \in Nat /\ d[x] \in Int /\ g[x] = f[x] + d[x]
  OBVIOUS
<1> HIDE DEF d
<1>2. SumFunctionOnSet(d, S) \in Nat
  BY <1>1, SumOfNaturals
<1>3. SumFunctionOnSet(g, S) = SumFunctionOnSet(f, S) + SumFunctionOnSet(d, S)
  BY <1>1, SumPlus
<1>4. SumFunctionOnSet(f, S) \in Int
  BY SumType
<1> QED
  BY <1>2, <1>3, <1>4

\* A set may be added up part by part.
THEOREM SumByParts ==
  ASSUME NEW f, NEW R, IsFiniteSet(R), \A x \in R : f[x] \in Int,
         NEW S, IsFiniteSet(S), NEW P, NEW g,
         \A p \in S : P[p] \in SUBSET R /\ g[p] = SumFunctionOnSet(f, P[p]),
         \A p, q \in S : p # q => P[p] \cap P[q] = {},
         \A x \in R : \E p \in S : x \in P[p]
  PROVE  SumFunctionOnSet(f, R) = SumFunctionOnSet(g, S)
<1> DEFINE Part(T) == {x \in R : \E p \in T : x \in P[p]}
           C == {T \in SUBSET S : SumFunctionOnSet(f, Part(T)) # SumFunctionOnSet(g, T)}
<1>1. \A T : IsFiniteSet(Part(T)) /\ Part(T) \in SUBSET R
  <2> SUFFICES ASSUME NEW T PROVE IsFiniteSet(Part(T)) /\ Part(T) \in SUBSET R
    OBVIOUS
  <2>1. Part(T) \in SUBSET R
    OBVIOUS
  <2>. QED
    BY <2>1, FS_Subset
<1>2. ASSUME NEW p \in S PROVE g[p] \in Int
  <2>1. IsFiniteSet(P[p]) /\ \A x \in P[p] : f[x] \in Int
    BY FS_Subset
  <2>. QED
    BY <2>1, SumType
<1>3. C = {}
  <2> SUFFICES ASSUME C # {} PROVE FALSE
    OBVIOUS
  <2>1. PICK T \in C : \A U \in C : U \subseteq T => U = T
    <3>1. C \subseteq SUBSET S
      OBVIOUS
    <3> HIDE DEF C
    <3>. QED
      BY <3>1, Minimal
  <2>2. T # {} /\ IsFiniteSet(T) /\ T \in SUBSET S
    <3>1. Part({}) = {} /\ SumFunctionOnSet(f, {}) = 0 /\ SumFunctionOnSet(g, {}) = 0
      BY SumEmpty
    <3>2. T \in SUBSET S /\ T # {}
      BY <2>1, <3>1
    <3>. QED
      BY <3>2, FS_Subset
  <2>3. PICK p \in T : TRUE
    BY <2>2
  <2> DEFINE U == T \ {p}
  <2>4. SumFunctionOnSet(g, T) = g[p] + SumFunctionOnSet(g, U)
    BY <1>2, <2>2, SumTakes
  <2>5. SumFunctionOnSet(f, Part(U)) = SumFunctionOnSet(g, U)
    BY <2>1, <2>3
  <2>6. SumFunctionOnSet(f, Part(T)) = SumFunctionOnSet(f, P[p]) + SumFunctionOnSet(f, Part(U))
    <3>1. P[p] \in SUBSET Part(T) /\ Part(T) \ P[p] = Part(U)
      BY <2>2, <2>3
    <3>2. \A x \in Part(T) : f[x] \in Int
      OBVIOUS
    <3> HIDE DEF Part, U
    <3>. QED
      BY <1>1, <3>1, <3>2, SumSplits
  <2>7. p \in S /\ SumFunctionOnSet(f, Part(T)) # SumFunctionOnSet(g, T)
    BY <2>1, <2>2
  <2> HIDE DEF Part, U, C
  <2>. QED
    BY <2>4, <2>5, <2>6, <2>7
<1>4. SumFunctionOnSet(f, Part(S)) = SumFunctionOnSet(g, S)
  BY <1>3
<1>5. Part(S) = R
  OBVIOUS
<1>. QED
  BY <1>4, <1>5

-----------------------------------------------------------------------------
(***************************************************************************)
(* SysVSem, for any number of processes, permits, handles and kernel sets: *)
(* type correctness, that sem_get() gives a semaphore its first value in   *)
(* one process at a time, whatever crashes, times out or is removed        *)
(* meanwhile, and that permits are neither exceeded nor lost.              *)
(***************************************************************************)
\* What a process is left with after the kernel has undone one adjustment.
LEMMA MaxOfTwo ==
  ASSUME NEW n \in Int
  PROVE  Max({0, n}) = IF n > 0 THEN n ELSE 0
<1> DEFINE m == IF n > 0 THEN n ELSE 0
<1>1. m \in {0, n} /\ \A y \in {0, n} : m >= y
  OBVIOUS
<1>2. \A x \in {0, n} : (\A y \in {0, n} : x >= y) => x = m
  OBVIOUS
<1> HIDE DEF m
<1>3. Max({0, n}) = m
  BY <1>1, <1>2 DEF Max
<1>. QED
  BY <1>3 DEF m

\* semop(): each semaphore and the caller's adjustment of it move by op.
LEMMA SemopEffect ==
  ASSUME TypeOK, NEW p \in Processes,
         NEW a \in Int, NEW b \in Int, NEW c \in Int, Semop(p, Ops(a, b, c))
  PROVE  /\ val' \in [Sems -> Nat] /\ undo' \in [Processes -> [Sems -> Int]]
         /\ val'["SETVAL"] = val["SETVAL"] + c
         /\ undo'[p]["SETVAL"] = undo[p]["SETVAL"] - c
         /\ \A q \in Processes \ {p} : undo'[q] = undo[q]
<1> DEFINE op == Ops(a, b, c)
<1>1. op \in [Sems -> Int] /\ op["SETVAL"] = c
  BY DEF Ops, Sems
<1> HIDE DEF op
<1>2. val' = [s \in Sems |-> val[s] + op[s]] /\ \A s \in Sems : val[s] + op[s] >= 0
  BY DEF Semop, op
<1>3. undo' = [undo EXCEPT ![p] = [s \in Sems |-> undo[p][s] - op[s]]]
  BY DEF Semop, op
<1>4. "SETVAL" \in Sems
  BY DEF Sems
<1>5. val' \in [Sems -> Nat] /\ val'["SETVAL"] = val["SETVAL"] + c
  BY <1>1, <1>2, <1>4 DEF TypeOK
<1>6. [s \in Sems |-> undo[p][s] - op[s]] \in [Sems -> Int]
  BY <1>1 DEF TypeOK
<1>7. undo' \in [Processes -> [Sems -> Int]]
  BY <1>3, <1>6 DEF TypeOK
<1>8. undo'[p] = [s \in Sems |-> undo[p][s] - op[s]]
  BY <1>3 DEF TypeOK
<1>9. undo'[p]["SETVAL"] = undo[p]["SETVAL"] - c
  BY <1>1, <1>4, <1>8
<1>10. \A q \in Processes \ {p} : undo'[q] = undo[q]
  BY <1>3 DEF TypeOK
<1>. QED
  BY <1>5, <1>7, <1>9, <1>10

\* semop() of SEM and USAGE leaves SETVAL alone.
LEMMA SemopKeeps ==
  ASSUME TypeOK, NEW p \in Processes, NEW a \in Int, NEW b \in Int,
         Semop(p, Ops(a, b, 0))
  PROVE  /\ val'["SETVAL"] = val["SETVAL"]
         /\ \A q \in Processes : undo'[q]["SETVAL"] = undo[q]["SETVAL"]
<1>1. /\ val'["SETVAL"] = val["SETVAL"] + 0
      /\ undo'[p]["SETVAL"] = undo[p]["SETVAL"] - 0
      /\ \A q \in Processes \ {p} : undo'[q] = undo[q]
  BY SemopEffect
<1>2. val["SETVAL"] \in Int /\ undo[p]["SETVAL"] \in Int
  BY DEF TypeOK, Sems
<1>. QED
  BY <1>1, <1>2

\* A step that moves no SETVAL and brings nobody into the serialized part.
LEMMA KeepRaises ==
  ASSUME OneRaises, val'["SETVAL"] = val["SETVAL"],
         \A q \in Processes : undo'[q]["SETVAL"] = undo[q]["SETVAL"],
         exists' => exists /\ Getting' \subseteq Getting
  PROVE  OneRaises'
<1>1. \A q \in Processes : Raised(q)' <=> Raised(q)
  BY DEF Raised
<1>2. exists' => \A p \in Getting' : Raised(p)'
  <2> SUFFICES ASSUME exists', NEW p \in Getting' PROVE Raised(p)'
    OBVIOUS
  <2>1. p \in Processes /\ Raised(p)
    BY DEF OneRaises, Getting, InFunction
  <2>. QED
    BY <2>1, <1>1
<1>. QED
  BY <1>1, <1>2 DEF OneRaises

\* A step that leaves the handles and the set.
LEMMA KeepHandles ==
  ASSUME HandlesMade, handle' = handle, semid' = semid, exists' => exists
  PROVE  HandlesMade'
  BY DEF HandlesMade, Valid

\* A step that gives up handles.
LEMMA DropHandles ==
  ASSUME TypeOK, HandlesMade, semid' = semid, exists' = exists,
         \A q \in Processes, h \in Handles :
           handle'[q][h] = handle[q][h] \/ handle'[q][h] = NoHandle
  PROVE  HandlesMade'
<1>1. NoHandle.semid = 0 /\ NoHandle.count = 0 /\ semid \in Nat
  BY DEF NoHandle, TypeOK
<1>2. ASSUME NEW q \in Processes, NEW h \in Handles
      PROVE  /\ handle'[q][h].semid <= semid'
             /\ exists' /\ handle'[q][h].semid = semid' => handle'[q][h].count >= 0
  <2>1. CASE handle'[q][h] = handle[q][h]
    BY <2>1 DEF HandlesMade, Valid
  <2>2. CASE handle'[q][h] = NoHandle
    BY <2>2, <1>1
  <2>. QED
    BY <2>1, <2>2
<1>. QED
  BY <1>2 DEF HandlesMade, Valid

\* Every step keeps the inductive invariant.
LEMMA SerialStep == SerialInv /\ [Next]_vars => SerialInv'
<1> SUFFICES ASSUME SerialInv, [Next]_vars PROVE SerialInv'
  OBVIOUS
<1> USE SemAssumption DEF SerialInv
<1>1. ASSUME NEW p \in Processes, SemGet(p) PROVE SerialInv'
  <2>1. TypeOK'
    <3>1. semid' \in 0..MaxSets /\ exists' \in BOOLEAN
      <4>1. CASE exists
        BY <1>1, <4>1 DEF SemGet, kernel, TypeOK
      <4>2. CASE ~exists
        BY <1>1, <4>2 DEF SemGet, TypeOK
      <4>. QED
        BY <4>1, <4>2
    <3>2. val' \in [Sems -> Nat] /\ undo' \in [Processes -> [Sems -> Int]]
      BY <1>1 DEF SemGet, kernel, TypeOK, Zero
    <3>3. at' \in [Processes -> Nat]
      BY <1>1, <3>1 DEF SemGet, TypeOK
    <3>. QED
      BY <1>1, <3>1, <3>2, <3>3 DEF SemGet, Goto, NoMishap, TypeOK
  <2>2. Placed'
    <3>1. semid <= semid' /\ semid' \in Nat /\ semid \in Nat
      BY <1>1 DEF SemGet, kernel, TypeOK
    <3>2. semid' >= 1
      BY <1>1 DEF SemGet, kernel, TypeOK, HandlesMade
    <3>. QED
      BY <1>1, <3>1, <3>2 DEF SemGet, Goto, TypeOK, Placed
  <2>3. HandlesMade'
    <3>1. CASE exists
      BY <1>1, <3>1, KeepHandles DEF SemGet, kernel
    <3>2. CASE ~exists
      BY <1>1, <3>2 DEF SemGet, HandlesMade, Valid, TypeOK
    <3>. QED
      BY <3>1, <3>2
  <2>4. OneRaises'
    <3>1. CASE exists
      <4>1. Getting' \subseteq Getting
        BY <1>1, <3>1 DEF SemGet, Goto, kernel, Getting, InFunction, TypeOK
      <4>. QED
        BY <1>1, <3>1, <4>1, KeepRaises DEF SemGet, kernel
    <3>2. CASE ~exists
      <4>1. \A q \in Processes : undo'[q]["SETVAL"] = 0
        BY <1>1, <3>2 DEF SemGet, Zero, Sems
      <4>2. val'["SETVAL"] = 0
        BY <1>1, <3>2 DEF SemGet, Zero, Sems
      <4>3. Getting' = {}
        BY <1>1, <3>2 DEF SemGet, Goto, Getting, InFunction, TypeOK, Placed
      <4>. QED
        BY <4>1, <4>2, <4>3 DEF OneRaises, Raised
    <3>. QED
      BY <3>1, <3>2
  <2>. QED
    BY <2>1, <2>2, <2>3, <2>4
<1>2. ASSUME NEW p \in Processes, Enter(p) PROVE SerialInv'
  <2>1. TypeOK'
    <3>1. val' \in [Sems -> Nat] /\ undo' \in [Processes -> [Sems -> Int]]
      <4>1. CASE Valid(at[p])
        BY <1>2, <4>1, SemopEffect DEF Enter
      <4>2. CASE ~(Valid(at[p]))
        BY <1>2, <4>2 DEF Enter, TypeOK
      <4>. QED
        BY <4>1, <4>2
    <3>. QED
      BY <1>2, <3>1 DEF Enter, Goto, NoMishap, TypeOK
  <2>2. Placed'
    BY <1>2 DEF Enter, Goto, NoMishap, kernel, Placed, TypeOK
  <2>3. HandlesMade'
    BY <1>2, KeepHandles DEF Enter, kernel
  <2>4. OneRaises'
    <3>1. CASE Valid(at[p])
      <4>1. /\ val["SETVAL"] = 0 /\ val'["SETVAL"] = val["SETVAL"] + 1
            /\ undo'[p]["SETVAL"] = undo[p]["SETVAL"] - 1
            /\ \A q \in Processes \ {p} : undo'[q] = undo[q]
        BY <1>2, <3>1, SemopEffect DEF Enter
      <4>2. \A q \in Processes : undo[q]["SETVAL"] = 0
        BY <4>1 DEF OneRaises, Raised
      <4>3. \A q \in Processes : undo'[q]["SETVAL"] = IF q = p THEN -1 ELSE 0
        BY <4>1, <4>2
      <4>4. Getting = {}
        BY <3>1, <4>2 DEF OneRaises, Raised, Valid, Getting, InFunction
      <4>5. Getting' \subseteq {p}
        BY <1>2, <4>4 DEF Enter, Goto, Getting, InFunction, TypeOK
      <4>. QED
        BY <4>1, <4>3, <4>5 DEF OneRaises, Raised
    <3>2. CASE ~Valid(at[p])
      <4>1. exists' => Getting' \subseteq Getting
        BY <1>2, <3>2 DEF Enter, Goto, Getting, InFunction, TypeOK, Valid
      <4>. QED
        BY <1>2, <3>2, <4>1, KeepRaises DEF Enter
    <3>. QED
      BY <3>1, <3>2
  <2>. QED
    BY <2>1, <2>2, <2>3, <2>4
<1>3. ASSUME NEW p \in Processes, GetVal(p) PROVE SerialInv'
  <2>1. TypeOK'
    BY <1>3 DEF GetVal, Goto, NoMishap, kernel, TypeOK
  <2>2. Placed'
    BY <1>3 DEF GetVal, Goto, NoMishap, kernel, Placed, TypeOK
  <2>3. HandlesMade'
    BY <1>3, KeepHandles DEF GetVal, kernel
  <2>4. OneRaises'
    <3>1. Getting' \subseteq Getting
      BY <1>3 DEF GetVal, Goto, kernel, Getting, InFunction, TypeOK
    <3>. QED
      BY <1>3, <3>1, KeepRaises DEF GetVal, kernel
  <2>. QED
    BY <2>1, <2>2, <2>3, <2>4
<1>4. ASSUME NEW p \in Processes, SetMax(p) PROVE SerialInv'
  <2>1. TypeOK'
    BY <1>4 DEF SetMax, Goto, NoMishap, kernel, TypeOK
  <2>2. Placed'
    BY <1>4 DEF SetMax, Goto, NoMishap, kernel, Placed, TypeOK
  <2>3. HandlesMade'
    BY <1>4, KeepHandles DEF SetMax, kernel
  <2>4. OneRaises'
    <3>1. Getting' \subseteq Getting
      BY <1>4 DEF SetMax, Goto, Getting, InFunction, TypeOK
    <3>2. val'["SETVAL"] = val["SETVAL"]
      BY <1>4 DEF SetMax, TypeOK, Sems
    <3>3. \A q \in Processes : undo'[q]["SETVAL"] = undo[q]["SETVAL"]
      BY <1>4 DEF SetMax, TypeOK, Sems
    <3>. QED
      BY <1>4, <3>1, <3>2, <3>3, KeepRaises DEF SetMax
  <2>. QED
    BY <2>1, <2>2, <2>3, <2>4
<1>5. ASSUME NEW p \in Processes, Leave(p) PROVE SerialInv'
  <2>1. TypeOK'
    <3>1. val' \in [Sems -> Nat] /\ undo' \in [Processes -> [Sems -> Int]]
      <4>1. CASE Valid(at[p])
        <5>1. Semop(p, Ops(0, 0, -1)) /\ -1 \in Int
          BY <1>5, <4>1 DEF Leave
        <5>. QED
          BY <5>1, SemopEffect
      <4>2. CASE ~(Valid(at[p]))
        BY <1>5, <4>2 DEF Leave, TypeOK
      <4>. QED
        BY <4>1, <4>2
    <3>2. handle' \in [Processes -> [Handles -> [semid : 0..MaxSets, count : Nat \cup {-1}]]]
      <4>1. [semid |-> at[p], count |-> 0] \in [semid : 0..MaxSets, count : Nat \cup {-1}]
        BY <1>5 DEF Leave, Placed, TypeOK
      <4>2. PICK g \in Handles : handle' = [handle EXCEPT ![p][g] = [semid |-> at[p], count |-> 0]]
        BY <1>5 DEF Leave, Unused
      <4>. QED
        BY <4>1, <4>2 DEF TypeOK
    <3>. QED
      BY <1>5, <3>1, <3>2 DEF Leave, Goto, NoMishap, TypeOK
  <2>2. Placed'
    BY <1>5 DEF Leave, Goto, NoMishap, kernel, Placed, TypeOK
  <2>3. HandlesMade'
    <3>1. at[p] \in 1..semid
      BY <1>5 DEF Leave, Placed
    <3>2. PICK g \in Handles : handle' = [handle EXCEPT ![p][g] = [semid |-> at[p], count |-> 0]]
      BY <1>5 DEF Leave, Unused
    <3>3. semid' = semid /\ exists' = exists
      BY <1>5 DEF Leave
    <3>. QED
      BY <3>1, <3>2, <3>3 DEF HandlesMade, Valid, TypeOK
  <2>4. OneRaises'
    <3>1. Getting' \subseteq Getting \ {p}
      BY <1>5 DEF Leave, Goto, Getting, InFunction, TypeOK
    <3>2. CASE Valid(at[p])
      <4>1. p \in Getting /\ exists
        BY <1>5, <3>2 DEF Leave, Valid, Getting, InFunction
      <4>2. /\ val'["SETVAL"] = val["SETVAL"] - 1
            /\ undo'[p]["SETVAL"] = undo[p]["SETVAL"] + 1
            /\ \A q \in Processes \ {p} : undo'[q] = undo[q]
        BY <1>5, <3>2, SemopEffect DEF Leave, TypeOK, Sems
      <4>3. \A q \in Processes : undo[q]["SETVAL"] = IF q = p THEN -1 ELSE 0
        BY <4>1 DEF OneRaises, Raised
      <4>4. \A q \in Processes : undo'[q]["SETVAL"] = 0
        BY <4>2, <4>3
      <4>5. Getting = {p}
        BY <4>1, <4>3 DEF OneRaises, Raised, Getting, InFunction
      <4>6. val["SETVAL"] = 1
        BY <4>3 DEF OneRaises, Raised
      <4>. QED
        BY <3>1, <4>2, <4>4, <4>5, <4>6 DEF OneRaises, Raised
    <3>3. CASE ~Valid(at[p])
      BY <1>5, <3>1, <3>3, KeepRaises DEF Leave
    <3>. QED
      BY <3>2, <3>3
  <2>. QED
    BY <2>1, <2>2, <2>3, <2>4
<1>6. ASSUME NEW p \in Processes, NEW h \in Handles, SemAcquire(p, h) PROVE SerialInv'
  <2>1. TypeOK'
    BY <1>6 DEF SemAcquire, Goto, NoMishap, kernel, TypeOK
  <2>2. Placed'
    BY <1>6 DEF SemAcquire, Goto, NoMishap, kernel, Placed, TypeOK
  <2>3. HandlesMade'
    BY <1>6, KeepHandles DEF SemAcquire, kernel
  <2>4. OneRaises'
    <3>1. Getting' \subseteq Getting
      BY <1>6 DEF SemAcquire, Goto, kernel, Getting, InFunction, TypeOK
    <3>. QED
      BY <1>6, <3>1, KeepRaises DEF SemAcquire, kernel
  <2>. QED
    BY <2>1, <2>2, <2>3, <2>4
<1>7. ASSUME NEW p \in Processes, Acquire(p) PROVE SerialInv'
  <2>1. TypeOK'
    <3>1. val' \in [Sems -> Nat] /\ undo' \in [Processes -> [Sems -> Int]]
      <4>1. CASE Valid(handle[p][at[p]].semid)
        <5>1. Semop(p, Ops(-1, 0, 0)) /\ -1 \in Int
          BY <1>7, <4>1 DEF Acquire
        <5>. QED
          BY <5>1, SemopEffect
      <4>2. CASE ~(Valid(handle[p][at[p]].semid))
        BY <1>7, <4>2 DEF Acquire, TypeOK
      <4>. QED
        BY <4>1, <4>2
    <3>2. at' \in [Processes -> Nat] /\ (pc' = [pc EXCEPT ![p] = "acquired"] \/ pc' = [pc EXCEPT ![p] = "idle"])
      BY <1>7 DEF Acquire, Goto, TypeOK
    <3>. QED
      BY <1>7, <3>1, <3>2 DEF Acquire, Goto, NoMishap, TypeOK
  <2>2. Placed'
    <3>1. at[p] \in Handles
      BY <1>7 DEF Acquire, Placed
    <3>2. Valid(handle[p][at[p]].semid) => handle[p][at[p]].count >= 0
      BY <3>1 DEF HandlesMade
    <3>. QED
      BY <1>7, <3>1, <3>2 DEF Acquire, Goto, Placed, TypeOK
  <2>3. HandlesMade'
    BY <1>7, KeepHandles DEF Acquire, kernel
  <2>4. OneRaises'
    <3>1. Getting' \subseteq Getting
      BY <1>7 DEF Acquire, Goto, Getting, InFunction, TypeOK
    <3>2. /\ val'["SETVAL"] = val["SETVAL"]
          /\ \A q \in Processes : undo'[q]["SETVAL"] = undo[q]["SETVAL"]
      <4>1. CASE Valid(handle[p][at[p]].semid)
        <5>1. Semop(p, Ops(-1, 0, 0)) /\ -1 \in Int
          BY <1>7, <4>1 DEF Acquire
        <5>. QED
          BY <5>1, SemopKeeps
      <4>2. CASE ~Valid(handle[p][at[p]].semid)
        BY <1>7, <4>2 DEF Acquire
      <4>. QED
        BY <4>1, <4>2
    <3>. QED
      BY <1>7, <3>1, <3>2, KeepRaises DEF Acquire
  <2>. QED
    BY <2>1, <2>2, <2>3, <2>4
<1>8. ASSUME NEW p \in Processes, NEW h \in Handles, SemRelease(p, h) PROVE SerialInv'
  <2>1. TypeOK'
    <3>1. val' \in [Sems -> Nat] /\ undo' \in [Processes -> [Sems -> Int]]
      <4>1. Semop(p, Ops(1, 0, 0))
        BY <1>8 DEF SemRelease
      <4>. QED
        BY <4>1, SemopEffect
    <3>2. at' \in [Processes -> Nat]
      BY <1>8 DEF SemRelease, TypeOK
    <3>. QED
      BY <1>8, <3>1, <3>2 DEF SemRelease, Goto, NoMishap, TypeOK
  <2>2. Placed'
    <3>1. handle[p][h].count >= 1
      BY <1>8 DEF SemRelease, HandlesMade, TypeOK
    <3>. QED
      BY <1>8, <3>1 DEF SemRelease, Goto, Placed, TypeOK
  <2>3. HandlesMade'
    BY <1>8, KeepHandles DEF SemRelease, kernel
  <2>4. OneRaises'
    <3>1. Getting' \subseteq Getting
      BY <1>8 DEF SemRelease, Goto, Getting, InFunction, TypeOK
    <3>2. /\ val'["SETVAL"] = val["SETVAL"]
          /\ \A q \in Processes : undo'[q]["SETVAL"] = undo[q]["SETVAL"]
      <4>1. Semop(p, Ops(1, 0, 0))
        BY <1>8 DEF SemRelease
      <4>. QED
        BY <4>1, SemopKeeps
    <3>. QED
      BY <1>8, <3>1, <3>2, KeepRaises DEF SemRelease
  <2>. QED
    BY <2>1, <2>2, <2>3, <2>4
<1>9. ASSUME NEW p \in Processes, Count(p) PROVE SerialInv'
  <2>1. TypeOK'
    <3>1. at[p] \in Handles
      BY <1>9 DEF Count, Placed
    <3>2. handle[p][at[p]].count \in Int /\ handle[p][at[p]].count >= 0
      BY <1>9, <3>1 DEF Count, Placed, TypeOK
    <3>3. (IF pc[p] = "acquired" THEN handle[p][at[p]].count + 1
                                 ELSE handle[p][at[p]].count - 1) \in Nat
      BY <1>9, <3>1, <3>2 DEF Count, Placed
    <3>4. handle' \in [Processes -> [Handles -> [semid : 0..MaxSets, count : Nat \cup {-1}]]]
      <4> DEFINE n == IF pc[p] = "acquired" THEN handle[p][at[p]].count + 1
                                            ELSE handle[p][at[p]].count - 1
      <4>1. handle' = [handle EXCEPT ![p][at[p]] =
                         [semid |-> handle[p][at[p]].semid, count |-> n]]
        BY <1>9 DEF Count
      <4>2. n \in Nat
        BY <3>3
      <4> HIDE DEF n
      <4>. QED
        BY <3>1, <4>1, <4>2 DEF TypeOK
    <3>. QED
      BY <1>9, <3>4 DEF Count, Goto, NoMishap, kernel, TypeOK
  <2>2. Placed'
    BY <1>9 DEF Count, Goto, NoMishap, kernel, Placed, TypeOK
  <2>3. HandlesMade'
    <3>1. at[p] \in Handles
      BY <1>9 DEF Count, Placed
    <3>2. (IF pc[p] = "acquired" THEN handle[p][at[p]].count + 1
                                 ELSE handle[p][at[p]].count - 1) >= 0
      <4>1. handle[p][at[p]].count \in Int
        BY <3>1 DEF TypeOK
      <4>. QED
        BY <1>9, <3>1, <4>1 DEF Count, Placed
    <3>3. \A q \in Processes, g \in Handles :
            /\ handle'[q][g].semid = handle[q][g].semid
            /\ handle'[q][g].count = handle[q][g].count \/ handle'[q][g].count >= 0
      BY <1>9, <3>1, <3>2 DEF Count, TypeOK
    <3>4. semid' = semid /\ exists' = exists
      BY <1>9 DEF Count, kernel
    <3>. QED
      BY <3>3, <3>4 DEF HandlesMade, Valid
  <2>4. OneRaises'
    <3>1. Getting' \subseteq Getting
      BY <1>9 DEF Count, Goto, kernel, Getting, InFunction, TypeOK
    <3>. QED
      BY <1>9, <3>1, KeepRaises DEF Count, kernel
  <2>. QED
    BY <2>1, <2>2, <2>3, <2>4
<1>10. ASSUME NEW p \in Processes, NEW h \in Handles, SemRemove(p, h) PROVE SerialInv'
  <2>1. TypeOK'
    <3>1. val' \in [Sems -> Nat] /\ undo' \in [Processes -> [Sems -> Int]]
      BY <1>10 DEF SemRemove, Zero
    <3>2. handle' \in [Processes -> [Handles -> [semid : 0..MaxSets, count : Nat \cup {-1}]]]
      BY <1>10 DEF SemRemove, TypeOK
    <3>. QED
      BY <1>10, <3>1, <3>2 DEF SemRemove, NoMishap, TypeOK
  <2>2. Placed'
    BY <1>10 DEF SemRemove, Goto, NoMishap, kernel, Placed, TypeOK
  <2>3. HandlesMade'
    <3>1. \A q \in Processes, g \in Handles : handle'[q][g].semid = handle[q][g].semid
      BY <1>10 DEF SemRemove, TypeOK
    <3>. QED
      BY <1>10, <3>1 DEF SemRemove, HandlesMade, Valid
  <2>4. OneRaises'
    <3>1. \A q \in Processes : undo'[q]["SETVAL"] = 0
      BY <1>10 DEF SemRemove, Zero, Sems
    <3>2. val'["SETVAL"] = 0 /\ ~exists'
      BY <1>10 DEF SemRemove, Zero, Sems
    <3>. QED
      BY <3>1, <3>2 DEF OneRaises, Raised
  <2>. QED
    BY <2>1, <2>2, <2>3, <2>4
<1>11. ASSUME NEW p \in Processes, RequestEnd(p) PROVE SerialInv'
  <2>1. TypeOK'
    BY <1>11 DEF RequestEnd, Goto, NoMishap, kernel, TypeOK
  <2>2. Placed'
    BY <1>11 DEF RequestEnd, Goto, NoMishap, kernel, Placed, TypeOK
  <2>3. HandlesMade'
    BY <1>11, KeepHandles DEF RequestEnd, kernel
  <2>4. OneRaises'
    <3>1. Getting' \subseteq Getting
      BY <1>11 DEF RequestEnd, Goto, kernel, Getting, InFunction, TypeOK
    <3>. QED
      BY <1>11, <3>1, KeepRaises DEF RequestEnd, kernel
  <2>. QED
    BY <2>1, <2>2, <2>3, <2>4
<1>12. ASSUME NEW p \in Processes, Cleanup(p) PROVE SerialInv'
  <2>1. TypeOK'
    <3>1. PICK h \in Handles :
            /\ IF Valid(handle[p][h].semid) /\ handle[p][h].count # -1
                 THEN Semop(p, Ops(handle[p][h].count, -1, 0)) ELSE UNCHANGED <<val, undo>>
            /\ handle' = [handle EXCEPT ![p][h] = NoHandle]
      BY <1>12 DEF Cleanup, Last, Open
    <3>2. handle[p][h].count \in Int
      BY DEF TypeOK
    <3>3. val' \in [Sems -> Nat] /\ undo' \in [Processes -> [Sems -> Int]]
      <4>1. CASE Valid(handle[p][h].semid) /\ handle[p][h].count # -1
        <5>1. Semop(p, Ops(handle[p][h].count, -1, 0)) /\ -1 \in Int
          BY <3>1, <4>1
        <5>. QED
          BY <3>2, <5>1, SemopEffect
      <4>2. CASE ~(Valid(handle[p][h].semid) /\ handle[p][h].count # -1)
        BY <3>1, <4>2 DEF TypeOK
      <4>. QED
        BY <4>1, <4>2
    <3>4. NoHandle \in [semid : 0..MaxSets, count : Nat \cup {-1}]
      BY DEF NoHandle
    <3>5. handle' \in [Processes -> [Handles -> [semid : 0..MaxSets, count : Nat \cup {-1}]]]
      BY <3>1, <3>4 DEF TypeOK
    <3>. QED
      BY <1>12, <3>3, <3>5 DEF Cleanup, NoMishap, TypeOK
  <2>2. Placed'
    BY <1>12 DEF Cleanup, Goto, NoMishap, kernel, Placed, TypeOK
  <2>3. HandlesMade'
    <3>1. PICK h \in Handles : handle' = [handle EXCEPT ![p][h] = NoHandle]
      BY <1>12 DEF Cleanup, Last, Open
    <3>2. \A q \in Processes, g \in Handles :
            handle'[q][g] = handle[q][g] \/ handle'[q][g] = NoHandle
      BY <3>1 DEF TypeOK
    <3>3. semid' = semid /\ exists' = exists
      BY <1>12 DEF Cleanup
    <3>. QED
      BY <3>2, <3>3, DropHandles
  <2>4. OneRaises'
    <3>1. Getting' \subseteq Getting
      BY <1>12 DEF Cleanup, Getting, InFunction
    <3>2. PICK h \in Handles :
            IF Valid(handle[p][h].semid) /\ handle[p][h].count # -1
              THEN Semop(p, Ops(handle[p][h].count, -1, 0)) ELSE UNCHANGED <<val, undo>>
      BY <1>12 DEF Cleanup, Last, Open
    <3>3. handle[p][h].count \in Int
      BY DEF TypeOK
    <3>4. /\ val'["SETVAL"] = val["SETVAL"]
          /\ \A q \in Processes : undo'[q]["SETVAL"] = undo[q]["SETVAL"]
      <4>1. CASE Valid(handle[p][h].semid) /\ handle[p][h].count # -1
        <5>1. Semop(p, Ops(handle[p][h].count, -1, 0)) /\ -1 \in Int
          BY <3>2, <4>1
        <5>. QED
          BY <3>3, <5>1, SemopKeeps
      <4>2. CASE ~(Valid(handle[p][h].semid) /\ handle[p][h].count # -1)
        BY <3>2, <4>2
      <4>. QED
        BY <4>1, <4>2
    <3>. QED
      BY <1>12, <3>1, <3>4, KeepRaises DEF Cleanup
  <2>. QED
    BY <2>1, <2>2, <2>3, <2>4
<1>13. ASSUME NEW p \in Processes, CleanupDone(p) PROVE SerialInv'
  <2>1. TypeOK'
    BY <1>13 DEF CleanupDone, Goto, NoMishap, kernel, TypeOK
  <2>2. Placed'
    BY <1>13 DEF CleanupDone, Goto, NoMishap, kernel, Placed, TypeOK
  <2>3. HandlesMade'
    BY <1>13, KeepHandles DEF CleanupDone, kernel
  <2>4. OneRaises'
    <3>1. Getting' \subseteq Getting
      BY <1>13 DEF CleanupDone, Goto, kernel, Getting, InFunction, TypeOK
    <3>. QED
      BY <1>13, <3>1, KeepRaises DEF CleanupDone, kernel
  <2>. QED
    BY <2>1, <2>2, <2>3, <2>4
<1>14. ASSUME NEW p \in Processes, Timeout(p) PROVE SerialInv'
  <2>1. TypeOK'
    <3>1. mishap' \subseteq {"timeout", "exit"}
      BY <1>14 DEF Timeout, Suffer, TypeOK
    <3>. QED
      BY <1>14, <3>1 DEF Timeout, Goto, kernel, TypeOK
  <2>2. Placed'
    BY <1>14 DEF Timeout, Goto, NoMishap, kernel, Placed, TypeOK
  <2>3. HandlesMade'
    BY <1>14, KeepHandles DEF Timeout, kernel
  <2>4. OneRaises'
    <3>1. Getting' \subseteq Getting
      BY <1>14 DEF Timeout, Goto, kernel, Getting, InFunction, TypeOK
    <3>. QED
      BY <1>14, <3>1, KeepRaises DEF Timeout, kernel
  <2>. QED
    BY <2>1, <2>2, <2>3, <2>4
<1>15. ASSUME NEW p \in Processes, Exit(p) PROVE SerialInv'
  <2>1. TypeOK'
    <3>1. mishap' \subseteq {"timeout", "exit"}
      BY <1>15 DEF Exit, Suffer, TypeOK
    <3>2. [h \in Handles |-> NoHandle] \in [Handles -> [semid : 0..MaxSets, count : Nat \cup {-1}]]
      BY DEF NoHandle
    <3>3. handle' \in [Processes -> [Handles -> [semid : 0..MaxSets, count : Nat \cup {-1}]]]
      BY <1>15, <3>2 DEF Exit, TypeOK
    <3>. QED
      BY <1>15, <3>1, <3>3 DEF Exit, Goto, kernel, TypeOK
  <2>2. Placed'
    BY <1>15 DEF Exit, Goto, NoMishap, kernel, Placed, TypeOK
  <2>3. HandlesMade'
    <3>1. \A q \in Processes, g \in Handles :
            handle'[q][g] = handle[q][g] \/ handle'[q][g] = NoHandle
      BY <1>15 DEF Exit, TypeOK
    <3>2. semid' = semid /\ exists' = exists
      BY <1>15 DEF Exit, kernel
    <3>. QED
      BY <3>1, <3>2, DropHandles
  <2>4. OneRaises'
    <3>1. Getting' \subseteq Getting
      BY <1>15 DEF Exit, Goto, kernel, Getting, InFunction, TypeOK
    <3>. QED
      BY <1>15, <3>1, KeepRaises DEF Exit, kernel
  <2>. QED
    BY <2>1, <2>2, <2>3, <2>4
<1>16. ASSUME NEW p \in Processes, Undo(p) PROVE SerialInv'
  <2>1. TypeOK'
    <3>1. PICK s \in Sems : /\ val'  = [val EXCEPT ![s] = Max({0, @ + undo[p][s]})]
                            /\ undo' = [undo EXCEPT ![p][s] = 0]
      BY <1>16 DEF Undo
    <3>2. val[s] + undo[p][s] \in Int
      BY DEF TypeOK
    <3>3. Max({0, val[s] + undo[p][s]}) \in Nat
      BY <3>2, MaxOfTwo
    <3>4. val' \in [Sems -> Nat] /\ undo' \in [Processes -> [Sems -> Int]]
      BY <3>1, <3>3 DEF TypeOK
    <3>. QED
      BY <1>16, <3>4 DEF Undo, NoMishap, TypeOK
  <2>2. Placed'
    BY <1>16 DEF Undo, Goto, NoMishap, kernel, Placed, TypeOK
  <2>3. HandlesMade'
    BY <1>16, KeepHandles DEF Undo, kernel
  <2>4. OneRaises'
    <3>1. PICK s \in Sems : /\ undo[p][s] # 0
                            /\ val'  = [val EXCEPT ![s] = Max({0, @ + undo[p][s]})]
                            /\ undo' = [undo EXCEPT ![p][s] = 0]
      BY <1>16 DEF Undo
    <3>2. Getting' = Getting /\ p \notin Getting /\ exists' = exists
      BY <1>16 DEF Undo, Getting, InFunction
    <3>3. CASE s # "SETVAL"
      <4>1. /\ val'["SETVAL"] = val["SETVAL"]
            /\ \A q \in Processes : undo'[q]["SETVAL"] = undo[q]["SETVAL"]
        BY <3>1, <3>3 DEF TypeOK, Sems
      <4>. QED
        BY <3>2, <4>1, KeepRaises
    <3>4. CASE s = "SETVAL"
      <4>1. undo[p]["SETVAL"] = -1 /\ val["SETVAL"] = 1
        BY <3>1, <3>4 DEF OneRaises, Raised
      <4>2. val'["SETVAL"] = 0
        BY <3>1, <3>4, <4>1, MaxOfTwo DEF TypeOK
      <4>3. \A q \in Processes : undo'[q]["SETVAL"] = 0
        BY <3>1, <3>4, <4>1 DEF TypeOK, OneRaises, Raised
      <4>4. exists' => Getting' = {}
        BY <3>2, <3>1, <3>4 DEF OneRaises, Raised, Getting, InFunction
      <4>. QED
        BY <4>2, <4>3, <4>4 DEF OneRaises, Raised
    <3>. QED
      BY <3>3, <3>4
  <2>. QED
    BY <2>1, <2>2, <2>3, <2>4
<1>17. ASSUME NEW p \in Processes, Fork(p) PROVE SerialInv'
  <2>1. TypeOK'
    BY <1>17 DEF Fork, Goto, NoMishap, kernel, TypeOK
  <2>2. Placed'
    BY <1>17 DEF Fork, Goto, NoMishap, kernel, Placed, TypeOK
  <2>3. HandlesMade'
    BY <1>17, KeepHandles DEF Fork, kernel
  <2>4. OneRaises'
    <3>1. Getting' \subseteq Getting
      BY <1>17 DEF Fork, Goto, kernel, Getting, InFunction, TypeOK
    <3>. QED
      BY <1>17, <3>1, KeepRaises DEF Fork, kernel
  <2>. QED
    BY <2>1, <2>2, <2>3, <2>4
<1>18. CASE UNCHANGED vars
  BY <1>18 DEF vars, TypeOK, Placed, HandlesMade, OneRaises, Raised, Getting,
               InFunction, Valid
<1>. QED
  BY <1>1, <1>2, <1>3, <1>4, <1>5, <1>6, <1>7, <1>8, <1>9, <1>10, <1>11, <1>12, <1>13, <1>14, <1>15, <1>16, <1>17, <1>18 DEF Next, Script, Runs

\* The inductive invariant holds throughout.
THEOREM SerialCorrect == Spec => []SerialInv
<1>1. ASSUME Init PROVE SerialInv
  <2>1. TypeOK
    <3>1. Zero \in [Sems -> Nat] /\ Zero \in [Sems -> Int]
      BY DEF Zero
    <3>2. [h \in Handles |-> NoHandle]
            \in [Handles -> [semid : 0..MaxSets, count : Nat \cup {-1}]]
      BY SemAssumption DEF NoHandle
    <3>3. semid \in 0..MaxSets /\ exists \in BOOLEAN /\ mishap \subseteq {"timeout", "exit"}
      <4>1. 0 \in 0..MaxSets
        BY SemAssumption
      <4>. QED
        BY <1>1, <4>1 DEF Init
    <3>4. val \in [Sems -> Nat] /\ undo \in [Processes -> [Sems -> Int]]
      BY <1>1, <3>1 DEF Init
    <3>5. handle \in [Processes -> [Handles ->
                        [semid : 0..MaxSets, count : Nat \cup {-1}]]]
      BY <1>1, <3>2 DEF Init
    <3>6. /\ pc \in [Processes -> {"idle", "enter", "getval", "setmax", "leave",
                           "acquire", "acquired", "released", "cleanup", "exit"}]
          /\ at \in [Processes -> Nat]
      BY <1>1 DEF Init
    <3>. QED
      BY <3>3, <3>4, <3>5, <3>6 DEF TypeOK
  <2>2. Placed
    BY <1>1 DEF Init, Placed
  <2>3. HandlesMade
    BY <1>1 DEF Init, HandlesMade, Valid, NoHandle
  <2>4. OneRaises
    BY <1>1 DEF Init, OneRaises, Raised, Zero, Sems
  <2>. QED
    BY <2>1, <2>2, <2>3, <2>4 DEF SerialInv
<1>. QED
  BY <1>1, SerialStep, PTL DEF Spec

\* The variables keep their types: a semaphore is never negative, and a handle's
\* count is the -1 of sem_remove() or a number of permits.
THEOREM TypeCorrect == Spec => []TypeOK
<1>1. SerialInv => TypeOK
  BY DEF SerialInv
<1>. QED
  BY <1>1, SerialCorrect, PTL

\* However many processes call sem_get() at once, crash in it, are timed out of it
\* or remove the set under it: one at a time decides about the first value of SEM.
THEOREM OneInitializer == Spec => []Serialized
<1>1. SerialInv => Serialized
  BY DEF SerialInv, OneRaises, Serialized, Getting, InFunction
<1>. QED
  BY <1>1, SerialCorrect, PTL

-----------------------------------------------------------------------------
(***************************************************************************)
(* The permits.                                                            *)
(***************************************************************************)
\* What a handle adds to the counts, over all the handles a process could have.
Row(p)  == {p} \X Handles
Uses    == [x \in Processes \X Handles |-> One(x \in InUse)]
Amounts == [x \in Processes \X Handles |-> IF x \in InUse THEN Counts[x] ELSE 0]

Summed(p) ==
  /\ Cardinality(Of(p)) = SumFunctionOnSet(Uses, Row(p))
  /\ SumFunctionOnSet(Counts, Of(p)) = SumFunctionOnSet(Amounts, Row(p))
  /\ Cardinality(Of(p)) \in Nat /\ (Cardinality(Of(p)) = 0 <=> Of(p) = {})
  /\ SumFunctionOnSet(Counts, Of(p)) \in Nat
  /\ \A x \in Of(p) : Counts[x] <= SumFunctionOnSet(Counts, Of(p))
  /\ \A x \in Row(p) : Uses[x] \in Int /\ Amounts[x] \in Int

LEMMA RowFinite ==
  ASSUME NEW p \in Processes
  PROVE  IsFiniteSet(Row(p)) /\ Row(p) \subseteq Processes \X Handles /\ Of(p) \in SUBSET Row(p)
<1>1. IsFiniteSet({p}) /\ IsFiniteSet(Handles)
  BY SemAssumption, FS_Singleton
<1>2. IsFiniteSet(Row(p))
  BY <1>1, FS_Product DEF Row
<1>. QED
  BY <1>2 DEF Row, Of, InUse

\* How many handles a process has in use, and their counts, as sums over its row.
LEMMA RowSums == TypeOK => \A p \in Processes : Summed(p)
<1> SUFFICES ASSUME TypeOK, NEW p \in Processes PROVE Summed(p)
  OBVIOUS
<1>1. IsFiniteSet(Row(p)) /\ Of(p) \in SUBSET Row(p) /\ Row(p) \subseteq Processes \X Handles
  BY RowFinite
<1>2. IsFiniteSet(Of(p)) /\ IsFiniteSet(Row(p) \ Of(p))
  BY <1>1, FS_Subset
<1>3. \A x \in Row(p) : x \in InUse <=> x \in Of(p)
  BY DEF Row, Of
<1>4. \A x \in Row(p) : Uses[x] = IF x \in Of(p) THEN 1 ELSE 0
  BY <1>1, <1>3 DEF Uses, One
<1>5. Cardinality(Of(p)) = SumFunctionOnSet(Uses, Row(p))
  BY <1>1, <1>4, SumOfMembers
<1>6. \A x \in Of(p) : Counts[x] \in Nat /\ Amounts[x] = Counts[x]
  <2>1. ASSUME NEW x \in Of(p) PROVE Counts[x] \in Nat
    <3>1. x[1] \in Processes /\ x[2] \in Handles /\ x \in Processes \X Handles
      BY DEF Of, InUse
    <3>2. handle[x[1]][x[2]].count >= 0 /\ handle[x[1]][x[2]].count \in Int
      BY <3>1 DEF Of, InUse, TypeOK
    <3>. QED
      BY <3>1, <3>2 DEF Counts
  <2>. QED
    BY <1>1, <1>3, <2>1 DEF Amounts
<1>7. \A x \in Row(p) \ Of(p) : Amounts[x] = 0
  BY <1>1, <1>3 DEF Amounts
<1>8. SumFunctionOnSet(Counts, Of(p)) \in Nat /\ \A x \in Of(p) : Counts[x] <= SumFunctionOnSet(Counts, Of(p))
  BY <1>2, <1>6, SumOfNaturals
<1>9. \A x \in Row(p) : Amounts[x] \in Int
  BY <1>6, <1>7
<1>10. SumFunctionOnSet(Counts, Of(p)) = SumFunctionOnSet(Amounts, Row(p))
  <2>1. SumFunctionOnSet(Amounts, Row(p))
          = SumFunctionOnSet(Amounts, Of(p)) + SumFunctionOnSet(Amounts, Row(p) \ Of(p))
    BY <1>1, <1>9, SumSplits
  <2>2. SumFunctionOnSet(Amounts, Row(p) \ Of(p)) = 0
    BY <1>2, <1>7, SumOfZeros
  <2>3. SumFunctionOnSet(Counts, Of(p)) = SumFunctionOnSet(Amounts, Of(p))
    <3>1. \A x \in Of(p) : Counts[x] = Amounts[x] /\ Counts[x] \in Int
      BY <1>6
    <3>. QED
      BY <1>2, <3>1, SumSame
  <2>. QED
    BY <1>8, <2>1, <2>2, <2>3
<1>11. Cardinality(Of(p)) \in Nat /\ (Cardinality(Of(p)) = 0 <=> Of(p) = {})
  BY <1>2, FS_CardinalityType, FS_EmptySet
<1>12. \A x \in Row(p) : Uses[x] \in Int
  BY <1>4
<1>. QED
  BY <1>5, <1>8, <1>9, <1>10, <1>11, <1>12 DEF Summed

LEMMA RowSumsNext == TypeOK' => \A p \in Processes : Summed(p)'
<1>1. (TypeOK => \A p \in Processes : Summed(p))'
  BY RowSums, PTL
<1>. QED
  BY <1>1

\* The other processes' handles stay, so what they have of the set does.
LEMMA SameRow ==
  ASSUME TypeOK, TypeOK', semid' = semid,
         NEW p \in Processes, handle'[p] = handle[p]
  PROVE  /\ Of(p)' = Of(p)
         /\ SumFunctionOnSet(Counts, Of(p))' = SumFunctionOnSet(Counts, Of(p))
<1>1. ASSUME NEW x \in Row(p)
      PROVE  (x \in InUse' <=> x \in InUse) /\ Counts'[x] = Counts[x]
  BY DEF Row, InUse, Counts
<1>2. Of(p)' = Of(p)
  <2>1. Of(p)' \subseteq Row(p) /\ Of(p) \subseteq Row(p)
    BY DEF Of, InUse, Row
  <2>. QED
    BY <1>1, <2>1 DEF Of
<1>3. IsFiniteSet(Of(p)) /\ Of(p) \subseteq Row(p)
  BY RowFinite, FS_Subset
<1>4. \A x \in Of(p) : Counts'[x] = Counts[x] /\ Counts[x] \in Int
  <2>1. \A x \in Of(p) : Counts[x] \in Int
    BY DEF Of, InUse, Counts, TypeOK
  <2>. QED
    BY <1>1, <1>3, <2>1
<1>5. SumFunctionOnSet(Counts', Of(p)) = SumFunctionOnSet(Counts, Of(p))
  BY <1>3, <1>4, SumSame
<1>. QED
  BY <1>2, <1>5

\* One handle of a process is another one now.
LEMMA OneHandle ==
  ASSUME TypeOK, TypeOK', semid' = semid,
         NEW p \in Processes, NEW h \in Handles,
         \A g \in Handles \ {h} : handle'[p][g] = handle[p][g]
  PROVE  LET x == <<p, h>> IN
         /\ Cardinality(Of(p))' = Cardinality(Of(p)) - Uses[x] + Uses'[x]
         /\ SumFunctionOnSet(Counts, Of(p))'
              = SumFunctionOnSet(Counts, Of(p)) - Amounts[x] + Amounts'[x]
         /\ Amounts[x] \in Int /\ Amounts'[x] \in Int
         /\ Uses[x] = One(x \in InUse) /\ Uses'[x] = One(x \in InUse')
         /\ Amounts[x] = IF x \in InUse THEN handle[p][h].count ELSE 0
         /\ Amounts'[x] = IF x \in InUse' THEN handle'[p][h].count ELSE 0
         /\ (x \in InUse' <=> x \in InUse) => Of(p)' = Of(p)
<1> DEFINE x == <<p, h>>
<1>1. Summed(p) /\ Summed(p)'
  BY RowSums, RowSumsNext
<1>2. IsFiniteSet(Row(p)) /\ x \in Row(p) /\ Row(p)' = Row(p)
  BY RowFinite DEF Row
<1>3. ASSUME NEW y \in Row(p), y # x
      PROVE  Uses'[y] = Uses[y] /\ Amounts'[y] = Amounts[y]
  <2>1. PICK g \in Handles \ {h} : y = <<p, g>>
    BY <1>3 DEF Row
  <2>2. (y \in InUse' <=> y \in InUse) /\ Counts'[y] = Counts[y] /\ y \in Processes \X Handles
    BY <2>1 DEF InUse, Counts
  <2>. QED
    BY <2>2 DEF Uses, Amounts
<1>4. \A y \in Row(p) : /\ Uses[y] \in Int /\ Amounts[y] \in Int
                        /\ Uses'[y] \in Int /\ Amounts'[y] \in Int
  BY <1>1, <1>2 DEF Summed
<1> HIDE DEF x
<1>5. SumFunctionOnSet(Uses', Row(p)) = SumFunctionOnSet(Uses, Row(p)) - Uses[x] + Uses'[x]
  BY <1>2, <1>3, <1>4, SumChanges
<1>6. SumFunctionOnSet(Amounts', Row(p))
        = SumFunctionOnSet(Amounts, Row(p)) - Amounts[x] + Amounts'[x]
  BY <1>2, <1>3, <1>4, SumChanges
<1>7. /\ Cardinality(Of(p)') = SumFunctionOnSet(Uses', Row(p))
      /\ SumFunctionOnSet(Counts', Of(p)') = SumFunctionOnSet(Amounts', Row(p))
  BY <1>1, <1>2 DEF Summed
<1>8. /\ Cardinality(Of(p)') = Cardinality(Of(p)) - Uses[x] + Uses'[x]
      /\ SumFunctionOnSet(Counts', Of(p)')
           = SumFunctionOnSet(Counts, Of(p)) - Amounts[x] + Amounts'[x]
  BY <1>1, <1>5, <1>6, <1>7 DEF Summed
<1>9. (x \in InUse' <=> x \in InUse) => Of(p)' = Of(p)
  <2>1. \A y : y \in Of(p) \cup Of(p)' => \E g \in Handles : y = <<p, g>>
    BY DEF Of, InUse
  <2>2. ASSUME NEW g \in Handles \ {h} PROVE <<p, g>> \in InUse' <=> <<p, g>> \in InUse
    BY DEF InUse
  <2>. QED
    BY <2>1, <2>2 DEF Of, x
<1>10. /\ Uses[x] = One(x \in InUse) /\ Uses'[x] = One(x \in InUse')
       /\ Amounts[x] = IF x \in InUse THEN handle[p][h].count ELSE 0
       /\ Amounts'[x] = IF x \in InUse' THEN handle'[p][h].count ELSE 0
  BY DEF x, Uses, Amounts, Counts
<1>. QED
  BY <1>2, <1>4, <1>8, <1>9, <1>10 DEF x

-----------------------------------------------------------------------------
\* A step of p: the set stays, and so does everything of the other processes.
Others(p) ==
  /\ semid' = semid /\ exists' = exists
  /\ \A q \in Processes \ {p} : /\ handle'[q] = handle[q] /\ undo'[q] = undo[q]
                               /\ pc'[q] = pc[q] /\ at'[q] = at[q]

LEMMA OthersSame ==
  ASSUME TypeOK, TypeOK', NEW p \in Processes, Others(p), NEW q \in Processes \ {p}
  PROVE  /\ Of(q)' = Of(q) /\ (q \in Getting' <=> q \in Getting)
         /\ Balanced(q) => Balanced(q)'
<1>1. /\ semid' = semid /\ handle'[q] = handle[q] /\ undo'[q] = undo[q]
      /\ pc'[q] = pc[q] /\ at'[q] = at[q] /\ q \in Processes
  BY DEF Others
<1>2. /\ Of(q)' = Of(q)
      /\ SumFunctionOnSet(Counts, Of(q))' = SumFunctionOnSet(Counts, Of(q))
  BY <1>1, SameRow
<1>3. q \in Getting' <=> q \in Getting
  BY <1>1 DEF Getting, InFunction
<1>4. \A l : q \in Working(l)' <=> q \in Working(l)
  BY <1>1 DEF Working, InFunction
<1>5. Got(q)' = Got(q)
  BY <1>2, <1>3 DEF Got, One
<1>6. Has(q)' = Has(q)
  BY <1>2, <1>4 DEF Has, One
<1>. QED
  BY <1>1, <1>2, <1>3, <1>5, <1>6 DEF Balanced

LEMMA Totals ==
  ASSUME TypeOK, TypeOK', NEW p \in Processes, NEW s \in Sems,
         \A q \in Processes \ {p} : undo'[q][s] = undo[q][s]
  PROVE  /\ Total(s) \in Int
         /\ Total(s)' = Total(s) + (val'[s] - val[s]) + (undo'[p][s] - undo[p][s])
         /\ \A q \in Processes : undo[q][s] \in Int /\ undo'[q][s] \in Int
         /\ val[s] \in Nat /\ val'[s] \in Nat
<1>1. /\ \A q \in Processes : Undos(s)[q] \in Int /\ Undos(s)'[q] \in Int
      /\ val[s] \in Nat /\ val'[s] \in Nat
      /\ \A q \in Processes : undo[q][s] \in Int /\ undo'[q][s] \in Int
  BY DEF Undos, TypeOK
<1>2. \A q \in Processes \ {p} : Undos(s)[q] = Undos(s)'[q]
  BY DEF Undos
<1>3. IsFiniteSet(Processes)
  BY SemAssumption
<1>4. SumFunctionOnSet(Undos(s)', Processes)
        = SumFunctionOnSet(Undos(s), Processes) - Undos(s)[p] + Undos(s)'[p]
  BY <1>1, <1>2, <1>3, SumChanges
<1>5. SumFunctionOnSet(Undos(s), Processes) \in Int
  BY <1>1, <1>3, SumType
<1>6. Undos(s)[p] = undo[p][s] /\ Undos(s)'[p] = undo'[p][s]
  BY DEF Undos
<1>. QED
  BY <1>1, <1>4, <1>5, <1>6 DEF Total

\* Nobody's adjustment has the wrong sign, and who is alive and owes USAGE nothing
\* has no handle and gets none.
LEMMA Signs ==
  ASSUME TypeOK, Placed, NEW p \in Processes, Balanced(p)
  PROVE  /\ undo[p]["USAGE"] \in Int /\ undo[p]["USAGE"] <= 0
         /\ undo[p]["SEM"] \in Int /\ undo[p]["SEM"] >= 0
         /\ pc[p] # "exit" => (undo[p]["USAGE"] = 0 <=> Of(p) = {} /\ p \notin Getting)
<1>1. undo[p]["USAGE"] \in Int /\ undo[p]["SEM"] \in Int
  BY DEF TypeOK, Sems
<1>2. Summed(p)
  BY RowSums
<1>3. CASE pc[p] = "exit"
  BY <1>1, <1>3 DEF Balanced
<1>4. CASE pc[p] # "exit"
  <2>1. undo[p]["USAGE"] + Got(p) = 0 /\ undo[p]["SEM"] = Has(p)
    BY <1>4 DEF Balanced
  <2>2. undo[p]["USAGE"] <= 0 /\ (undo[p]["USAGE"] = 0 <=> Of(p) = {} /\ p \notin Getting)
    BY <1>1, <1>2, <2>1 DEF Summed, Got, One
  <2>3. Has(p) >= 0
    <3>1. CASE p \in Working("released")
      <4> DEFINE x == <<p, at[p]>>
      <4>1. /\ at[p] \in Handles /\ handle[p][at[p]].count >= 1 /\ handle[p][at[p]].semid = semid
            /\ handle[p][at[p]].count \in Int
        BY <3>1 DEF Working, InFunction, Placed, TypeOK
      <4>2. x \in Of(p) /\ Counts[x] >= 1 /\ Counts[x] \in Int
        BY <4>1 DEF Of, InUse, Counts
      <4>3. SumFunctionOnSet(Counts, Of(p)) >= Counts[x]
        BY <1>2, <4>2 DEF Summed
      <4> HIDE DEF x
      <4>. QED
        BY <1>2, <4>2, <4>3 DEF Has, One, Summed
    <3>2. CASE p \notin Working("released")
      BY <1>2, <3>2 DEF Has, One, Summed
    <3>. QED
      BY <3>1, <3>2
  <2>. QED
    BY <1>1, <1>4, <2>1, <2>2, <2>3
<1>. QED
  BY <1>3, <1>4

\* USAGE is the sum of what processes owe it: none of them owes more.
LEMMA UsageBounds ==
  ASSUME TypeOK, Total("USAGE") = 0, \A q \in Processes : undo[q]["USAGE"] <= 0,
         NEW p \in Processes
  PROVE  /\ val["USAGE"] + undo[p]["USAGE"] >= 0
         /\ val["USAGE"] + undo[p]["USAGE"] = 0 =>
              \A q \in Processes \ {p} : undo[q]["USAGE"] = 0
<1> DEFINE u == Undos("USAGE")
           owed == [q \in Processes |-> 0 - undo[q]["USAGE"]]
           zero == [q \in Processes |-> 0]
<1>1. /\ \A q \in Processes : u[q] \in Int /\ u[q] = undo[q]["USAGE"] /\ u[q] <= 0
      /\ val["USAGE"] \in Nat
  BY DEF Undos, TypeOK, Sems
<1>2. \A q \in Processes : owed[q] \in Nat /\ owed[q] = 0 - u[q]
  BY <1>1
<1>3. IsFiniteSet(Processes) /\ IsFiniteSet(Processes \ {p})
  BY SemAssumption, FS_RemoveElement
<1>4. val["USAGE"] + SumFunctionOnSet(u, Processes) = 0
  BY DEF Total
<1> HIDE DEF u, owed
<1>5. SumFunctionOnSet(zero, Processes) = SumFunctionOnSet(u, Processes) + SumFunctionOnSet(owed, Processes)
  <2>1. \A q \in Processes : u[q] \in Int /\ owed[q] \in Int /\ zero[q] = u[q] + owed[q]
    BY <1>1, <1>2
  <2> HIDE DEF zero
  <2>. QED
    BY <1>3, <2>1, SumPlus
<1>6. SumFunctionOnSet(zero, Processes) = 0
  BY <1>3, SumOfZeros
<1>7. SumFunctionOnSet(owed, Processes) = owed[p] + SumFunctionOnSet(owed, Processes \ {p})
  BY <1>2, <1>3, SumTakes
<1>8. /\ SumFunctionOnSet(owed, Processes \ {p}) \in Nat
      /\ \A q \in Processes \ {p} : owed[q] <= SumFunctionOnSet(owed, Processes \ {p})
  BY <1>2, <1>3, SumOfNaturals
<1>9. SumFunctionOnSet(u, Processes) \in Int
  BY <1>1, <1>3, SumType
<1> HIDE DEF zero
<1>10. val["USAGE"] + u[p] = SumFunctionOnSet(owed, Processes \ {p})
  <2>1. val["USAGE"] \in Nat /\ u[p] \in Int /\ owed[p] = 0 - u[p] /\ owed[p] \in Nat
    BY <1>1, <1>2
  <2>. QED
    BY <2>1, <1>4, <1>5, <1>6, <1>7, <1>8, <1>9
<1>11. val["USAGE"] + u[p] >= 0
  BY <1>8, <1>10
<1>12. ASSUME val["USAGE"] + u[p] = 0, NEW q \in Processes \ {p} PROVE u[q] = 0
  <2>1. owed[q] <= 0 /\ owed[q] \in Nat /\ owed[q] = 0 - u[q] /\ u[q] \in Int
    BY <1>1, <1>2, <1>8, <1>10, <1>12
  <2>. QED
    BY <2>1
<1>. QED
  BY <1>1, <1>11, <1>12

-----------------------------------------------------------------------------
\* semop(): what SEM and USAGE move by, the caller owes back.
LEMMA SemopMoves ==
  ASSUME TypeOK, NEW p \in Processes,
         NEW a \in Int, NEW b \in Int, NEW c \in Int, Semop(p, Ops(a, b, c))
  PROVE  /\ val'["SEM"] = val["SEM"] + a /\ undo'[p]["SEM"] = undo[p]["SEM"] - a
         /\ val'["USAGE"] = val["USAGE"] + b /\ undo'[p]["USAGE"] = undo[p]["USAGE"] - b
         /\ \A q \in Processes \ {p} : undo'[q] = undo[q]
<1> DEFINE op == Ops(a, b, c)
<1>1. op["SEM"] = a /\ op["USAGE"] = b /\ "SEM" \in Sems /\ "USAGE" \in Sems
  BY DEF Ops, Sems
<1> HIDE DEF op
<1>2. val' = [s \in Sems |-> val[s] + op[s]]
  BY DEF Semop, op
<1>3. undo' = [undo EXCEPT ![p] = [s \in Sems |-> undo[p][s] - op[s]]]
  BY DEF Semop, op
<1>4. undo'[p] = [s \in Sems |-> undo[p][s] - op[s]] /\ \A q \in Processes \ {p} : undo'[q] = undo[q]
  BY <1>3 DEF TypeOK
<1>. QED
  BY <1>1, <1>2, <1>4

\* A step of p that moves no USAGE: p is neither before nor after it in sem_get().
LEMMA Away ==
  ASSUME TypeOK, TypeOK', Books, NEW p \in Processes, Others(p), Balanced(p)',
         mishap \subseteq mishap', p \notin Getting, p \notin Getting', Of(p)' = Of(p),
         undo'[p]["USAGE"] = undo[p]["USAGE"], val'["USAGE"] = val["USAGE"],
         val'["SEM"] + undo'[p]["SEM"] = val["SEM"] + undo[p]["SEM"]
  PROVE  Books'
<1>1. ASSUME NEW q \in Processes \ {p}
      PROVE  /\ Of(q)' = Of(q) /\ (q \in Getting' <=> q \in Getting)
             /\ Balanced(q) => Balanced(q)'
             /\ pc'[q] = pc[q] /\ undo'[q] = undo[q]
  <2>1. /\ Of(q)' = Of(q) /\ (q \in Getting' <=> q \in Getting)
        /\ Balanced(q) => Balanced(q)'
    BY OthersSame
  <2>. QED
    BY <2>1 DEF Others
<1>2. \A q \in Processes : Balanced(q)'
  BY <1>1 DEF Books
<1>3. \A q \in Processes : undo'[q]["USAGE"] = undo[q]["USAGE"]
  BY <1>1
<1>4. Total("SEM")' = Total("SEM") /\ Total("USAGE")' = Total("USAGE")
  <2>1. "SEM" \in Sems /\ "USAGE" \in Sems
    BY DEF Sems
  <2>2. \A q \in Processes \ {p} : undo'[q] = undo[q]
    BY DEF Others
  <2>3. /\ Total("SEM") \in Int
        /\ Total("SEM")' = Total("SEM") + (val'["SEM"] - val["SEM"])
                                       + (undo'[p]["SEM"] - undo[p]["SEM"])
        /\ undo[p]["SEM"] \in Int /\ undo'[p]["SEM"] \in Int
        /\ val["SEM"] \in Nat /\ val'["SEM"] \in Nat
    BY <2>1, <2>2, Totals
  <2>4. /\ Total("USAGE") \in Int
        /\ Total("USAGE")' = Total("USAGE") + (val'["USAGE"] - val["USAGE"])
                                           + (undo'[p]["USAGE"] - undo[p]["USAGE"])
        /\ undo[p]["USAGE"] \in Int /\ val["USAGE"] \in Nat
    BY <2>1, <2>2, Totals
  <2>5. Total("SEM")' = Total("SEM")
    BY <2>3
  <2>6. Total("USAGE")' = Total("USAGE")
    BY <2>4
  <2>. QED
    BY <2>5, <2>6
<1>5. Alone'
  <2> SUFFICES ASSUME NEW q \in Getting', pc'[q] = "setmax"
               PROVE  Of(q)' = {} /\ \A r \in Processes \ {q} : undo'[r]["USAGE"] = 0
    BY DEF Alone
  <2>1. q \in Processes \ {p}
    BY DEF Getting, InFunction
  <2>. QED
    BY <1>1, <1>3, <2>1 DEF Books, Alone
<1>6. Unset'
  <2> SUFFICES ASSUME mishap' = {}, Total("SEM")' = 0, NEW q \in Processes,
                      undo'[q]["USAGE"] # 0
               PROVE  q \in Getting' /\ pc'[q] \in {"getval", "setmax"} /\ Of(q)' = {}
    BY DEF Unset
  <2>1. q \in Getting /\ pc[q] \in {"getval", "setmax"} /\ Of(q) = {}
    BY <1>3, <1>4 DEF Books, Unset
  <2>. QED
    BY <1>1, <2>1
<1>. QED
  BY <1>2, <1>4, <1>5, <1>6 DEF Books

\* A step of p that changes neither the kernel's set nor a handle.
LEMMA Plain ==
  ASSUME TypeOK, TypeOK', Books, NEW p \in Processes, Others(p), mishap \subseteq mishap',
         val' = val, undo' = undo, handle' = handle, p \notin Getting, p \notin Getting',
         pc[p] \notin {"acquired", "released", "exit"},
         pc'[p] \notin {"acquired", "released", "exit"}
  PROVE  Books'
<1>1. /\ Of(p)' = Of(p)
      /\ SumFunctionOnSet(Counts, Of(p))' = SumFunctionOnSet(Counts, Of(p))
  BY SameRow DEF Others
<1>2. Got(p)' = Got(p)
  BY <1>1 DEF Got, One
<1>3. Has(p)' = Has(p)
  BY <1>1 DEF Has, One, Working, InFunction
<1>4. Balanced(p)'
  BY <1>2, <1>3 DEF Balanced, Books
<1>. QED
  BY <1>1, <1>4, Away

-----------------------------------------------------------------------------
\* The steps of sem_get() that count.
LEMMA NewSet ==
  ASSUME SerialInv, SerialInv', NEW p \in Processes, SemGet(p), ~exists
  PROVE  Books'
<1>1. /\ semid' = semid + 1 /\ val' = Zero /\ undo' = [q \in Processes |-> Zero]
      /\ handle' = handle /\ at' = [at EXCEPT ![p] = semid']
      /\ pc' = [pc EXCEPT ![p] = "enter"]
  BY DEF SemGet, Goto
<1>2. /\ TypeOK' /\ semid \in Nat
      /\ \A q \in Processes, h \in Handles : handle[q][h].semid \in Nat /\ handle[q][h].semid <= semid
  BY DEF SerialInv, HandlesMade, TypeOK
<1>3. InUse' = {}
  BY <1>1, <1>2 DEF InUse
<1>4. Getting' = {}
  BY <1>1 DEF SerialInv, Getting, InFunction, TypeOK, Placed
<1>5. \A l \in {"acquired", "released"} : Working(l)' = {}
  <2> SUFFICES ASSUME NEW l \in {"acquired", "released"}, NEW q \in Working(l)' PROVE FALSE
    OBVIOUS
  <2>1. q \in Processes /\ pc'[q] = l /\ handle'[q][at'[q]].semid = semid'
    BY DEF Working, InFunction
  <2>2. at'[q] \in Handles
    BY <2>1 DEF SerialInv, Placed
  <2>. QED
    BY <1>1, <1>2, <2>1, <2>2
<1>6. ASSUME NEW q \in Processes PROVE Balanced(q)'
  <2>1. Of(q)' = {}
    BY <1>3 DEF Of
  <2>2. Cardinality({}) = 0
    BY FS_EmptySet
  <2>3. Got(q)' = 0
    BY <1>4, <2>1, <2>2 DEF Got, One
  <2>4. SumFunctionOnSet(Counts', {}) = 0
    BY SumEmpty
  <2>5. Has(q)' = 0
    BY <1>5, <2>1, <2>4 DEF Has, One
  <2>6. undo'[q]["USAGE"] = 0 /\ undo'[q]["SEM"] = 0
    BY <1>1 DEF Zero, Sems
  <2>. QED
    BY <2>3, <2>5, <2>6 DEF Balanced
<1>7. ASSUME NEW s \in {"SEM", "USAGE"} PROVE Total(s)' = 0
  <2>1. IsFiniteSet(Processes) /\ \A q \in Processes : Undos(s)'[q] = 0
    BY <1>1, SemAssumption DEF Undos, Zero, Sems
  <2>2. SumFunctionOnSet(Undos(s)', Processes) = 0
    BY <2>1, SumOfZeros
  <2>3. val'[s] = 0
    BY <1>1 DEF Zero, Sems
  <2>. QED
    BY <2>2, <2>3 DEF Total
<1>8. Alone' /\ Unset'
  BY <1>1, <1>4 DEF Alone, Unset, Zero, Sems
<1>. QED
  BY <1>6, <1>7, <1>8 DEF Books

\* Everyone but p.
LEMMA Rest ==
  ASSUME SerialInv, SerialInv', Books, NEW p \in Processes, Others(p)
  PROVE  \A q \in Processes \ {p} :
           /\ Balanced(q)' /\ Of(q)' = Of(q) /\ (q \in Getting' <=> q \in Getting)
           /\ pc'[q] = pc[q] /\ undo'[q] = undo[q]
<1> SUFFICES ASSUME NEW q \in Processes \ {p}
             PROVE  /\ Balanced(q)' /\ Of(q)' = Of(q) /\ (q \in Getting' <=> q \in Getting)
                    /\ pc'[q] = pc[q] /\ undo'[q] = undo[q]
  OBVIOUS
<1>1. TypeOK /\ TypeOK' /\ Balanced(q)
  BY DEF SerialInv, Books
<1>2. /\ Of(q)' = Of(q) /\ (q \in Getting' <=> q \in Getting)
      /\ Balanced(q) => Balanced(q)'
  BY <1>1, OthersSame
<1>. QED
  BY <1>1, <1>2 DEF Others

\* One process at a time.
LEMMA Single ==
  ASSUME SerialInv, exists, NEW p \in Getting, NEW q \in Getting
  PROVE  p = q
  BY DEF SerialInv, OneRaises, Getting, InFunction

\* What p moves, it owes back: the totals stay.
LEMMA TotalsStay ==
  ASSUME SerialInv, SerialInv', NEW p \in Processes, Others(p),
         val'["SEM"] + undo'[p]["SEM"] = val["SEM"] + undo[p]["SEM"],
         val'["USAGE"] + undo'[p]["USAGE"] = val["USAGE"] + undo[p]["USAGE"]
  PROVE  Total("SEM")' = Total("SEM") /\ Total("USAGE")' = Total("USAGE")
<1>1. /\ TypeOK /\ TypeOK' /\ "SEM" \in Sems /\ "USAGE" \in Sems
      /\ \A q \in Processes \ {p} : undo'[q] = undo[q]
  BY DEF SerialInv, Sems, Others
<1>2. /\ Total("SEM") \in Int
      /\ Total("SEM")' = Total("SEM") + (val'["SEM"] - val["SEM"])
                                     + (undo'[p]["SEM"] - undo[p]["SEM"])
      /\ undo[p]["SEM"] \in Int /\ undo'[p]["SEM"] \in Int
      /\ val["SEM"] \in Nat /\ val'["SEM"] \in Nat
  BY <1>1, Totals
<1>3. /\ Total("USAGE") \in Int
      /\ Total("USAGE")' = Total("USAGE") + (val'["USAGE"] - val["USAGE"])
                                         + (undo'[p]["USAGE"] - undo[p]["USAGE"])
      /\ undo[p]["USAGE"] \in Int /\ undo'[p]["USAGE"] \in Int
      /\ val["USAGE"] \in Nat /\ val'["USAGE"] \in Nat
  BY <1>1, Totals
<1>4. Total("SEM")' = Total("SEM")
  BY <1>2
<1>5. Total("USAGE")' = Total("USAGE")
  BY <1>3
<1>. QED
  BY <1>4, <1>5

LEMMA EnterBooks ==
  ASSUME SerialInv, SerialInv', Books, exists, NEW p \in Processes, Enter(p), at[p] = semid
  PROVE  Books'
<1>1. /\ Semop(p, Ops(0, 1, 1)) /\ val["SETVAL"] = 0 /\ pc[p] = "enter"
      /\ pc' = [pc EXCEPT ![p] = "getval"] /\ handle' = handle /\ at' = at /\ mishap' = mishap
      /\ semid' = semid /\ exists' = exists
  BY DEF Enter, Valid, Goto, NoMishap
<1>2. TypeOK /\ TypeOK' /\ Placed
  BY DEF SerialInv
<1>3. /\ val'["SEM"] = val["SEM"] + 0 /\ undo'[p]["SEM"] = undo[p]["SEM"] - 0
      /\ val'["USAGE"] = val["USAGE"] + 1 /\ undo'[p]["USAGE"] = undo[p]["USAGE"] - 1
      /\ \A q \in Processes \ {p} : undo'[q] = undo[q]
  BY <1>1, <1>2, SemopMoves
<1>4. /\ val["SEM"] \in Int /\ undo[p]["SEM"] \in Int
      /\ val["USAGE"] \in Int /\ undo[p]["USAGE"] \in Int
  BY <1>2 DEF TypeOK, Sems
<1>5. Others(p)
  BY <1>1, <1>2, <1>3 DEF Others, TypeOK
<1>6. Getting = {}
  BY <1>1 DEF SerialInv, OneRaises, Getting, InFunction
<1>7. Getting' = {p}
  BY <1>1, <1>2, <1>6 DEF Getting, InFunction, TypeOK
<1>8. /\ Of(p)' = Of(p)
      /\ SumFunctionOnSet(Counts, Of(p))' = SumFunctionOnSet(Counts, Of(p))
  BY <1>1, <1>2, SameRow
<1>9. Balanced(p)'
  <2>1. Summed(p) /\ Balanced(p)
    BY <1>2, RowSums DEF Books
  <2>2. Got(p)' = Got(p) + 1 /\ Got(p) \in Nat
    BY <1>6, <1>7, <1>8, <2>1 DEF Got, One, Summed
  <2>3. Has(p)' = Has(p)
    BY <1>1, <1>2, <1>8 DEF Has, One, Working, InFunction, TypeOK
  <2>4. pc[p] # "exit" /\ pc'[p] # "exit"
    BY <1>1, <1>2 DEF TypeOK
  <2>5. undo[p]["USAGE"] + Got(p) = 0 /\ undo[p]["SEM"] = Has(p)
    BY <2>1, <2>4 DEF Balanced
  <2>6. undo'[p]["USAGE"] + Got(p)' = 0
    <3>1. undo[p]["USAGE"] \in Int /\ Got(p) \in Int /\ undo[p]["USAGE"] + Got(p) = 0
      BY <1>4, <2>2, <2>5
    <3>2. (undo[p]["USAGE"] - 1) + (Got(p) + 1) = 0
      BY <3>1
    <3>. QED
      BY <1>3, <2>2, <3>2
  <2>7. undo'[p]["SEM"] = Has(p)'
    BY <1>3, <1>4, <2>3, <2>5
  <2>. QED
    BY <2>4, <2>6, <2>7 DEF Balanced
<1>10. Total("SEM")' = Total("SEM") /\ Total("USAGE")' = Total("USAGE")
  BY <1>3, <1>4, <1>5, TotalsStay
<1>11. \A q \in Processes : Balanced(q)'
  BY <1>5, <1>9, Rest
<1>12. Alone'
  BY <1>1, <1>2, <1>7 DEF Alone, TypeOK
<1>13. Unset'
  <2> SUFFICES ASSUME mishap' = {}, Total("SEM")' = 0, NEW q \in Processes, undo'[q]["USAGE"] # 0
               PROVE  q \in Getting' /\ pc'[q] \in {"getval", "setmax"} /\ Of(q)' = {}
    BY DEF Unset
  <2>1. \A r \in Processes : undo[r]["USAGE"] = 0
    BY <1>1, <1>6, <1>10 DEF Books, Unset
  <2>2. q = p
    BY <1>3, <2>1
  <2>3. Of(p) = {}
    BY <1>1, <1>2, <2>1, Signs DEF Books
  <2>. QED
    BY <1>1, <1>2, <1>7, <1>8, <2>2, <2>3 DEF TypeOK
<1>. QED
  BY <1>10, <1>11, <1>12, <1>13 DEF Books

LEMMA GetValBooks ==
  ASSUME SerialInv, SerialInv', Books, exists, NEW p \in Processes, GetVal(p), at[p] = semid
  PROVE  Books'
<1>1. /\ pc[p] = "getval" /\ handle' = handle /\ at' = at /\ mishap' = mishap
      /\ semid' = semid /\ exists' = exists /\ val' = val /\ undo' = undo
      /\ pc' = [pc EXCEPT ![p] = IF val["USAGE"] = 1 THEN "setmax" ELSE "leave"]
  BY DEF GetVal, Valid, Goto, NoMishap, kernel
<1>2. TypeOK /\ TypeOK' /\ Placed
  BY DEF SerialInv
<1>3. Others(p)
  BY <1>1, <1>2 DEF Others, TypeOK
<1>4. p \in Getting /\ p \in Getting' /\ pc'[p] = IF val["USAGE"] = 1 THEN "setmax" ELSE "leave"
  BY <1>1, <1>2 DEF Getting, InFunction, TypeOK
<1>5. /\ Of(p)' = Of(p)
      /\ SumFunctionOnSet(Counts, Of(p))' = SumFunctionOnSet(Counts, Of(p))
  BY <1>1, <1>2, SameRow
<1>6. Balanced(p) /\ Balanced(p)'
  <2>1. Got(p)' = Got(p)
    BY <1>4, <1>5 DEF Got, One
  <2>2. Has(p)' = Has(p)
    BY <1>1, <1>4, <1>5 DEF Has, One, Working, InFunction
  <2>. QED
    BY <1>1, <1>4, <2>1, <2>2 DEF Balanced, Books
<1>7. /\ \A q \in Processes : undo[q]["USAGE"] \in Int /\ undo[q]["USAGE"] <= 0
      /\ val["USAGE"] \in Nat /\ val["SEM"] \in Nat /\ undo[p]["SEM"] \in Int
  BY <1>2, Signs DEF Books, TypeOK, Sems
<1>8. Total("SEM")' = Total("SEM") /\ Total("USAGE")' = Total("USAGE")
  BY <1>1, <1>3, TotalsStay
<1>9. \A q \in Processes : Balanced(q)'
  BY <1>3, <1>6, Rest
<1>10. undo[p]["USAGE"] = -1 - Cardinality(Of(p)) /\ Summed(p)
  <2>1. Summed(p)
    BY <1>2, RowSums
  <2>2. Got(p) = Cardinality(Of(p)) + 1 /\ undo[p]["USAGE"] + Got(p) = 0
    BY <1>1, <1>4, <1>6 DEF Got, One, Balanced
  <2>. QED
    BY <1>7, <2>1, <2>2 DEF Summed
<1>11. ASSUME val["USAGE"] = 1
       PROVE  Of(p) = {} /\ \A q \in Processes \ {p} : undo[q]["USAGE"] = 0
  <2>1. /\ val["USAGE"] + undo[p]["USAGE"] >= 0
        /\ val["USAGE"] + undo[p]["USAGE"] = 0 =>
             \A q \in Processes \ {p} : undo[q]["USAGE"] = 0
    BY <1>2, <1>7, UsageBounds DEF Books
  <2>2. Cardinality(Of(p)) = 0
    BY <1>10, <1>11, <2>1 DEF Summed
  <2>3. val["USAGE"] + undo[p]["USAGE"] = 0
    BY <1>10, <1>11, <2>2
  <2>. QED
    BY <1>10, <2>1, <2>2, <2>3 DEF Summed
<1>12. Alone'
  <2> SUFFICES ASSUME NEW q \in Getting', pc'[q] = "setmax"
               PROVE  Of(q)' = {} /\ \A r \in Processes \ {q} : undo'[r]["USAGE"] = 0
    BY DEF Alone
  <2>1. CASE q = p
    BY <1>1, <1>4, <1>5, <1>11, <2>1
  <2>2. CASE q # p
    <3>1. q \in Getting
      BY <1>3, <2>2, Rest DEF Getting, InFunction
    <3>. QED
      BY <1>4, <2>2, <3>1, Single
  <2>. QED
    BY <2>1, <2>2
<1>13. Unset'
  <2> SUFFICES ASSUME mishap' = {}, Total("SEM")' = 0, NEW q \in Processes, undo'[q]["USAGE"] # 0
               PROVE  q \in Getting' /\ pc'[q] \in {"getval", "setmax"} /\ Of(q)' = {}
    BY DEF Unset
  <2>1. \A r \in Processes : undo[r]["USAGE"] # 0 => r \in Getting /\ Of(r) = {}
    BY <1>1, <1>8 DEF Books, Unset
  <2>2. q = p
    BY <1>1, <1>4, <2>1, Single
  <2>3. \A r \in Processes \ {p} : undo[r]["USAGE"] = 0
    BY <1>4, <2>1, Single
  <2>4. Of(p) = {} /\ undo[p]["USAGE"] = -1
    BY <1>1, <1>10, <2>1, <2>2 DEF Summed
  <2>5. val["USAGE"] = 1
    <3>1. Total("USAGE") = val["USAGE"] + SumFunctionOnSet(Undos("USAGE"), Processes)
      BY DEF Total
    <3>2. IsFiniteSet(Processes) /\ IsFiniteSet(Processes \ {p})
      BY SemAssumption, FS_RemoveElement
    <3>3. \A r \in Processes : Undos("USAGE")[r] = undo[r]["USAGE"]
      BY DEF Undos
    <3>4. SumFunctionOnSet(Undos("USAGE"), Processes)
            = Undos("USAGE")[p] + SumFunctionOnSet(Undos("USAGE"), Processes \ {p})
      BY <1>7, <3>2, <3>3, SumTakes
    <3>5. SumFunctionOnSet(Undos("USAGE"), Processes \ {p}) = 0
      BY <2>3, <3>2, <3>3, SumOfZeros
    <3>. QED
      BY <1>7, <2>4, <3>1, <3>3, <3>4, <3>5 DEF Books
  <2>. QED
    BY <1>4, <1>5, <2>2, <2>4, <2>5
<1>. QED
  BY <1>8, <1>9, <1>12, <1>13 DEF Books

LEMMA SetMaxBooks ==
  ASSUME SerialInv, SerialInv', Books, exists, NEW p \in Processes, SetMax(p), at[p] = semid
  PROVE  Books'
<1>1. /\ pc[p] = "setmax" /\ handle' = handle /\ at' = at /\ mishap' = mishap
      /\ semid' = semid /\ exists' = exists /\ val' = [val EXCEPT !["SEM"] = MaxAcquire]
      /\ undo' = [q \in Processes |-> [undo[q] EXCEPT !["SEM"] = 0]]
      /\ pc' = [pc EXCEPT ![p] = "leave"]
  BY DEF SetMax, Valid, Goto, NoMishap
<1>2. TypeOK /\ TypeOK' /\ Placed /\ Placed'
  BY DEF SerialInv
<1>3. /\ \A q \in Processes : undo'[q]["USAGE"] = undo[q]["USAGE"] /\ undo'[q]["SEM"] = 0
      /\ val'["SEM"] = MaxAcquire /\ val'["USAGE"] = val["USAGE"]
  BY <1>1, <1>2 DEF TypeOK, Sems
<1>4. p \in Getting /\ p \in Getting' /\ pc'[p] = "leave"
  BY <1>1, <1>2 DEF Getting, InFunction, TypeOK
<1>5. Of(p) = {} /\ \A q \in Processes \ {p} : undo[q]["USAGE"] = 0
  BY <1>1, <1>4 DEF Books, Alone
<1>6. \A q \in Processes : Of(q)' = Of(q)
  BY <1>1, <1>2, SameRow
<1>7. \A q \in Processes : q \in Getting' <=> q \in Getting
  BY <1>1, <1>2 DEF Getting, InFunction, TypeOK
<1>8. ASSUME NEW q \in Processes PROVE Balanced(q)'
  <2>1. Balanced(q) /\ (pc'[q] = "exit" <=> pc[q] = "exit")
    BY <1>1, <1>2 DEF Books, TypeOK
  <2>2. Got(q)' = Got(q)
    BY <1>6, <1>7 DEF Got, One
  <2>3. CASE pc[q] = "exit"
    BY <1>3, <2>1, <2>3 DEF Balanced
  <2>4. CASE pc[q] # "exit"
    <3>1. Of(q) = {}
      BY <1>2, <1>5, <2>1, <2>4, Signs
    <3>2. SumFunctionOnSet(Counts', Of(q)') = 0
      BY <1>6, <3>1, SumEmpty
    <3>3. q \notin Working("acquired")' /\ q \notin Working("released")'
      <4> SUFFICES ASSUME pc'[q] \in {"acquired", "released"}, handle'[q][at'[q]].semid = semid'
                   PROVE  FALSE
        BY DEF Working, InFunction
      <4>1. at'[q] \in Handles /\ handle'[q][at'[q]].count \in Int /\ handle'[q][at'[q]].count >= 0
        BY <1>2 DEF Placed, TypeOK
      <4>2. <<q, at'[q]>> \in Of(q)'
        BY <4>1 DEF Of, InUse
      <4>. QED
        BY <1>6, <3>1, <4>2
    <3>4. Has(q)' = 0
      BY <3>2, <3>3 DEF Has, One
    <3>. QED
      BY <1>3, <2>1, <2>2, <2>4, <3>4 DEF Balanced
  <2>. QED
    BY <2>3, <2>4
<1>9. Total("SEM")' = MaxAcquire
  <2>1. IsFiniteSet(Processes) /\ \A q \in Processes : Undos("SEM")'[q] = 0
    BY <1>3, SemAssumption DEF Undos
  <2>2. SumFunctionOnSet(Undos("SEM")', Processes) = 0
    BY <2>1, SumOfZeros
  <2>. QED
    BY <1>3, <2>2, SemAssumption DEF Total
<1>10. Total("USAGE")' = Total("USAGE")
  <2>1. Undos("USAGE")' = Undos("USAGE")
    BY <1>3 DEF Undos
  <2>. QED
    BY <1>3, <2>1 DEF Total
<1>11. Alone'
  <2> SUFFICES ASSUME NEW q \in Getting', pc'[q] = "setmax"
               PROVE  FALSE
    BY DEF Alone
  <2>1. q \in Getting /\ q # p
    BY <1>4, <1>7 DEF Getting, InFunction
  <2>. QED
    BY <1>4, <2>1, Single
<1>12. Unset'
  BY <1>9, SemAssumption DEF Unset
<1>. QED
  BY <1>8, <1>9, <1>10, <1>11, <1>12 DEF Books

LEMMA LeaveBooks ==
  ASSUME SerialInv, SerialInv', Books, exists, NEW p \in Processes, Leave(p), at[p] = semid
  PROVE  Books'
<1>1. /\ Semop(p, Ops(0, 0, -1)) /\ -1 \in Int /\ pc[p] = "leave"
      /\ pc' = [pc EXCEPT ![p] = "idle"] /\ mishap' = mishap
      /\ semid' = semid /\ exists' = exists /\ at' = [at EXCEPT ![p] = 0]
  BY DEF Leave, Valid, Goto, NoMishap
<1>2. TypeOK /\ TypeOK' /\ Placed /\ HandlesMade
  BY DEF SerialInv
<1>3. PICK h \in Handles :
        handle[p][h] = NoHandle /\ handle' = [handle EXCEPT ![p][h] = [semid |-> at[p], count |-> 0]]
  BY DEF Leave, Unused, Open
<1>4. /\ val'["SEM"] = val["SEM"] + 0 /\ undo'[p]["SEM"] = undo[p]["SEM"] - 0
      /\ val'["USAGE"] = val["USAGE"] + 0 /\ undo'[p]["USAGE"] = undo[p]["USAGE"] - 0
      /\ \A q \in Processes \ {p} : undo'[q] = undo[q]
  BY <1>1, <1>2, SemopMoves
<1>5. /\ val["SEM"] \in Int /\ undo[p]["SEM"] \in Int
      /\ val["USAGE"] \in Int /\ undo[p]["USAGE"] \in Int
  BY <1>2 DEF TypeOK, Sems
<1>6. Others(p)
  BY <1>1, <1>2, <1>3, <1>4 DEF Others, TypeOK
<1>7. p \in Getting /\ p \notin Getting' /\ pc'[p] = "idle"
  BY <1>1, <1>2 DEF Getting, InFunction, TypeOK
<1>8. /\ handle'[p][h].semid = semid' /\ handle'[p][h].count = 0
      /\ \A g \in Handles \ {h} : handle'[p][g] = handle[p][g]
  BY <1>1, <1>2, <1>3 DEF TypeOK
<1>9. <<p, h>> \notin InUse /\ <<p, h>> \in InUse'
  <2>1. NoHandle.semid = 0 /\ semid >= 1
    BY <1>2 DEF NoHandle, HandlesMade
  <2>2. <<p, h>> \notin InUse
    BY <1>3, <2>1 DEF InUse
  <2>3. <<p, h>> \in InUse'
    BY <1>8 DEF InUse
  <2>. QED
    BY <2>2, <2>3
<1>10. /\ Cardinality(Of(p))' = Cardinality(Of(p)) - 0 + 1
       /\ SumFunctionOnSet(Counts, Of(p))' = SumFunctionOnSet(Counts, Of(p)) - 0 + 0
  BY <1>1, <1>2, <1>8, <1>9, OneHandle DEF One
<1>11. Balanced(p)'
  <2>1. Summed(p) /\ Balanced(p)
    BY <1>2, RowSums DEF Books
  <2>2. Cardinality(Of(p)) \in Int /\ SumFunctionOnSet(Counts, Of(p)) \in Int
    BY <2>1 DEF Summed
  <2>3. Got(p)' = Got(p)
    BY <1>7, <1>10, <2>2 DEF Got, One
  <2>4. Has(p)' = Has(p)
    BY <1>1, <1>7, <1>10, <2>2 DEF Has, One, Working, InFunction
  <2>5. undo'[p]["USAGE"] = undo[p]["USAGE"] /\ undo'[p]["SEM"] = undo[p]["SEM"]
    BY <1>4, <1>5
  <2>. QED
    BY <1>1, <1>7, <2>1, <2>3, <2>4, <2>5 DEF Balanced
<1>12. Total("SEM")' = Total("SEM") /\ Total("USAGE")' = Total("USAGE")
  BY <1>4, <1>5, <1>6, TotalsStay
<1>13. \A q \in Processes : Balanced(q)'
  BY <1>6, <1>11, Rest
<1>14. Alone'
  <2> SUFFICES ASSUME NEW q \in Getting', pc'[q] = "setmax" PROVE FALSE
    BY DEF Alone
  <2>1. q \in Processes \ {p}
    BY <1>7 DEF Getting, InFunction
  <2>2. q \in Getting
    BY <1>6, <2>1, Rest
  <2>. QED
    BY <1>7, <2>1, <2>2, Single
<1>15. Unset'
  <2> SUFFICES ASSUME mishap' = {}, Total("SEM")' = 0 PROVE FALSE
    BY DEF Unset
  <2>1. undo[p]["USAGE"] = 0
    BY <1>1, <1>12 DEF Books, Unset
  <2>2. pc[p] # "exit" /\ Balanced(p)
    BY <1>1 DEF Books
  <2>. QED
    BY <1>2, <1>7, <2>1, <2>2, Signs
<1>. QED
  BY <1>12, <1>13, <1>14, <1>15 DEF Books

\* What the others and Alone, Unset say is about p's USAGE, which is no handle's any more.
LEMMA CleanupBooks ==
  ASSUME SerialInv, SerialInv', Books, exists, NEW p \in Processes, Cleanup(p)
  PROVE  Books'
<1>1. /\ pc[p] = "cleanup" /\ pc' = pc /\ at' = at /\ mishap' = mishap
      /\ semid' = semid /\ exists' = exists
  BY DEF Cleanup, NoMishap
<1>2. TypeOK /\ TypeOK' /\ Placed /\ HandlesMade
  BY DEF SerialInv
<1>3. PICK h \in Handles :
        /\ handle' = [handle EXCEPT ![p][h] = NoHandle]
        /\ IF Valid(handle[p][h].semid) /\ handle[p][h].count # -1
             THEN Semop(p, Ops(handle[p][h].count, -1, 0)) ELSE UNCHANGED <<val, undo>>
  BY DEF Cleanup, Last, Open
<1> DEFINE c == handle[p][h].count
<1>4. c \in Int /\ -1 \in Int /\ 0 \in Int
  BY <1>2 DEF TypeOK
<1>5. /\ handle'[p][h] = NoHandle
      /\ \A g \in Handles \ {h} : handle'[p][g] = handle[p][g]
  BY <1>2, <1>3 DEF TypeOK
<1>6. <<p, h>> \notin InUse'
  <2>1. NoHandle.semid = 0 /\ semid >= 1
    BY <1>2 DEF NoHandle, HandlesMade
  <2>. QED
    BY <1>1, <1>5, <2>1 DEF InUse
<1>7. p \notin Getting /\ p \notin Getting' /\ pc'[p] = "cleanup"
  BY <1>1 DEF Getting, InFunction
<1>8. /\ val["SEM"] \in Int /\ undo[p]["SEM"] \in Int
      /\ val["USAGE"] \in Int /\ undo[p]["USAGE"] \in Int
  BY <1>2 DEF TypeOK, Sems
<1>9. Summed(p) /\ Balanced(p)
  BY <1>2, RowSums DEF Books
<1>10. Cardinality(Of(p)) \in Int /\ SumFunctionOnSet(Counts, Of(p)) \in Int
  BY <1>9 DEF Summed
<1>11. undo[p]["USAGE"] + Cardinality(Of(p)) = 0 /\ undo[p]["SEM"] = SumFunctionOnSet(Counts, Of(p))
  <2>1. Got(p) = Cardinality(Of(p)) /\ Has(p) = SumFunctionOnSet(Counts, Of(p))
    BY <1>1, <1>7, <1>10 DEF Got, Has, One, Working, InFunction
  <2>. QED
    BY <1>1, <1>9, <2>1 DEF Balanced
<1>12. Got(p)' = Cardinality(Of(p))' /\ Has(p)' = SumFunctionOnSet(Counts, Of(p))'
  <2>1. Summed(p)'
    BY <1>2, RowSumsNext
  <2>2. Cardinality(Of(p))' \in Int /\ SumFunctionOnSet(Counts, Of(p))' \in Int
    BY <2>1 DEF Summed
  <2>. QED
    BY <1>1, <1>7, <2>2 DEF Got, Has, One, Working, InFunction
<1>13. CASE <<p, h>> \in InUse
  <2>1. handle[p][h].semid = semid /\ c >= 0
    BY <1>13 DEF InUse
  <2>2. Semop(p, Ops(c, -1, 0))
    BY <1>3, <1>4, <2>1 DEF Valid
  <2> HIDE DEF c
  <2>3. /\ val'["SEM"] = val["SEM"] + c /\ undo'[p]["SEM"] = undo[p]["SEM"] - c
        /\ val'["USAGE"] = val["USAGE"] + -1 /\ undo'[p]["USAGE"] = undo[p]["USAGE"] - -1
        /\ \A q \in Processes \ {p} : undo'[q] = undo[q]
    BY <1>2, <1>4, <2>2, SemopMoves
  <2>4. Others(p)
    BY <1>1, <1>2, <1>3, <2>3 DEF Others, TypeOK
  <2>5. /\ Cardinality(Of(p))' = Cardinality(Of(p)) - 1 + 0
        /\ SumFunctionOnSet(Counts, Of(p))' = SumFunctionOnSet(Counts, Of(p)) - c + 0
    BY <1>1, <1>2, <1>5, <1>6, <1>13, OneHandle DEF One, c
  <2>6. Balanced(p)'
    <3>1. undo'[p]["USAGE"] + Cardinality(Of(p))' = 0
      <4>1. (undo[p]["USAGE"] + 1) + (Cardinality(Of(p)) - 1) = 0
        BY <1>8, <1>10, <1>11
      <4>. QED
        BY <1>8, <1>10, <2>3, <2>5, <4>1
    <3>2. undo'[p]["SEM"] = SumFunctionOnSet(Counts, Of(p))'
      BY <1>4, <1>8, <1>10, <1>11, <2>3, <2>5 DEF c
    <3>. QED
      BY <1>7, <1>12, <3>1, <3>2 DEF Balanced
  <2>7. Total("SEM")' = Total("SEM") /\ Total("USAGE")' = Total("USAGE")
    <3>1. val'["SEM"] + undo'[p]["SEM"] = val["SEM"] + undo[p]["SEM"]
      BY <1>4, <1>8, <2>3 DEF c
    <3>2. val'["USAGE"] + undo'[p]["USAGE"] = val["USAGE"] + undo[p]["USAGE"]
      BY <1>8, <2>3
    <3>. QED
      BY <2>4, <3>1, <3>2, TotalsStay
  <2>8. \A q \in Processes : Balanced(q)'
    BY <2>4, <2>6, Rest
  <2>9. undo[p]["USAGE"] # 0
    <3>1. <<p, h>> \in Of(p)
      BY <1>13 DEF Of
    <3>2. pc[p] # "exit"
      BY <1>1
    <3>. QED
      BY <1>2, <1>9, <3>1, <3>2, Signs
  <2>10. Alone'
    <3> SUFFICES ASSUME NEW q \in Getting', pc'[q] = "setmax" PROVE FALSE
      BY DEF Alone
    <3>1. q \in Processes \ {p}
      BY <1>7 DEF Getting, InFunction
    <3>2. q \in Getting /\ pc[q] = "setmax"
      BY <2>4, <3>1, Rest
    <3>. QED
      BY <2>9, <3>1, <3>2 DEF Books, Alone
  <2>11. Unset'
    <3> SUFFICES ASSUME mishap' = {}, Total("SEM")' = 0 PROVE FALSE
      BY DEF Unset
    <3>. QED
      BY <1>1, <1>7, <2>7, <2>9 DEF Books, Unset
  <2>. QED
    BY <2>7, <2>8, <2>10, <2>11 DEF Books
<1>14. CASE <<p, h>> \notin InUse
  <2>1. ~ (Valid(handle[p][h].semid) /\ c # -1)
    <3>1. Valid(handle[p][h].semid) => c >= 0
      BY <1>2 DEF HandlesMade
    <3>. QED
      BY <1>14, <3>1 DEF Valid, InUse
  <2>2. val' = val /\ undo' = undo
    BY <1>3, <2>1
  <2>3. Others(p)
    BY <1>1, <1>2, <1>3, <2>2 DEF Others, TypeOK
  <2>4. /\ Cardinality(Of(p))' = Cardinality(Of(p)) - 0 + 0
        /\ SumFunctionOnSet(Counts, Of(p))' = SumFunctionOnSet(Counts, Of(p)) - 0 + 0
        /\ Of(p)' = Of(p)
    BY <1>1, <1>2, <1>5, <1>6, <1>14, OneHandle DEF One
  <2>5. Balanced(p)'
    BY <1>7, <1>10, <1>11, <1>12, <2>2, <2>4 DEF Balanced
  <2>. QED
    BY <1>1, <1>2, <1>7, <2>2, <2>3, <2>4, <2>5, Away
<1>. QED
  BY <1>13, <1>14

\* sem_ptr->count catches up with the semop() before it.
LEMMA CountBooks ==
  ASSUME SerialInv, SerialInv', Books, exists, NEW p \in Processes, Count(p)
  PROVE  Books'
<1>1. /\ pc[p] \in {"acquired", "released"} /\ pc' = [pc EXCEPT ![p] = "idle"]
      /\ at' = [at EXCEPT ![p] = 0] /\ mishap' = mishap
      /\ semid' = semid /\ exists' = exists /\ val' = val /\ undo' = undo
  BY DEF Count, Goto, NoMishap, kernel
<1>2. TypeOK /\ TypeOK' /\ Placed
  BY DEF SerialInv
<1> DEFINE h == at[p]
           r == handle[p][h]
           d == IF pc[p] = "acquired" THEN 1 ELSE -1
<1>3. h \in Handles /\ r.count \in Int /\ r.count >= 0 /\ r.count + d >= 0
  <2>1. h \in Handles /\ r.count \in Int
    BY <1>1, <1>2 DEF Placed, TypeOK
  <2>2. CASE pc[p] = "acquired"
    BY <1>2, <2>1, <2>2 DEF Placed
  <2>3. CASE pc[p] = "released"
    <3>1. r.count >= 1 /\ d = -1
      BY <1>2, <2>3 DEF Placed
    <3>. QED
      BY <2>1, <3>1
  <2>. QED
    BY <1>1, <2>2, <2>3
<1>4. /\ handle'[p][h].semid = r.semid /\ handle'[p][h].count = r.count + d
      /\ \A g \in Handles \ {h} : handle'[p][g] = handle[p][g]
      /\ \A q \in Processes \ {p} : handle'[q] = handle[q]
  <2>1. handle' = [handle EXCEPT ![p][h] =
                     [semid |-> @.semid,
                      count |-> IF pc[p] = "acquired" THEN @.count + 1 ELSE @.count - 1]]
    BY DEF Count
  <2>2. r.count + d = IF pc[p] = "acquired" THEN r.count + 1 ELSE r.count - 1
    BY <1>3
  <2>. QED
    BY <1>2, <1>3, <2>1, <2>2 DEF TypeOK
<1>5. Others(p)
  BY <1>1, <1>2, <1>4 DEF Others, TypeOK
<1>6. p \notin Getting /\ p \notin Getting' /\ pc'[p] = "idle"
  BY <1>1, <1>2 DEF Getting, InFunction, TypeOK
<1>7. (<<p, h>> \in InUse' <=> r.semid = semid) /\ (<<p, h>> \in InUse <=> r.semid = semid)
  BY <1>1, <1>3, <1>4 DEF InUse
<1>8. Cardinality(Of(p)) \in Int /\ SumFunctionOnSet(Counts, Of(p)) \in Int
  BY <1>2, RowSums DEF Summed
<1>9. /\ Of(p)' = Of(p)
      /\ SumFunctionOnSet(Counts, Of(p))' =
           SumFunctionOnSet(Counts, Of(p)) + IF r.semid = semid THEN d ELSE 0
  <2>1. Of(p)' = Of(p)
    BY <1>1, <1>2, <1>3, <1>4, <1>7, OneHandle
  <2>2. SumFunctionOnSet(Counts, Of(p))'
           = SumFunctionOnSet(Counts, Of(p))
               - (IF r.semid = semid THEN r.count ELSE 0)
               + (IF r.semid = semid THEN r.count + d ELSE 0)
    BY <1>1, <1>2, <1>3, <1>4, <1>7, OneHandle
  <2>3. d \in Int
    OBVIOUS
  <2> HIDE DEF d, r
  <2>. QED
    BY <1>3, <1>8, <2>1, <2>2, <2>3 DEF r
<1>10. Has(p)' = SumFunctionOnSet(Counts, Of(p))' /\ Got(p)' = Got(p)
  <2>1. SumFunctionOnSet(Counts, Of(p))' \in Int
    BY <1>2, RowSumsNext DEF Summed
  <2>. QED
    BY <1>6, <1>9, <2>1 DEF Has, Got, One, Working, InFunction
<1>11. Has(p) = SumFunctionOnSet(Counts, Of(p)) + IF r.semid = semid THEN d ELSE 0
  <2>1. CASE pc[p] = "acquired"
    BY <1>8, <2>1 DEF Has, One, Working, InFunction
  <2>2. CASE pc[p] = "released"
    BY <1>8, <2>2 DEF Has, One, Working, InFunction
  <2>. QED
    BY <1>1, <2>1, <2>2
<1>12. Balanced(p)'
  <2>1. Balanced(p) /\ pc[p] # "exit"
    BY <1>1 DEF Books
  <2>. QED
    BY <1>1, <1>6, <1>9, <1>10, <1>11, <2>1 DEF Balanced
<1>. QED
  BY <1>1, <1>2, <1>5, <1>6, <1>9, <1>12, Away

LEMMA AcquireBooks ==
  ASSUME SerialInv, SerialInv', Books, exists, NEW p \in Processes, Acquire(p),
         Valid(handle[p][at[p]].semid)
  PROVE  Books'
<1>1. /\ Semop(p, Ops(-1, 0, 0)) /\ -1 \in Int /\ 0 \in Int /\ pc[p] = "acquire"
      /\ pc' = [pc EXCEPT ![p] = "acquired"] /\ at' = at /\ handle' = handle
      /\ semid' = semid /\ exists' = exists /\ mishap' = mishap /\ handle[p][at[p]].semid = semid
  BY DEF Acquire, Goto, NoMishap, Valid
<1>2. TypeOK /\ TypeOK'
  BY DEF SerialInv
<1>3. /\ val'["SEM"] = val["SEM"] + -1 /\ undo'[p]["SEM"] = undo[p]["SEM"] - -1
      /\ val'["USAGE"] = val["USAGE"] + 0 /\ undo'[p]["USAGE"] = undo[p]["USAGE"] - 0
      /\ \A q \in Processes \ {p} : undo'[q] = undo[q]
  BY <1>1, <1>2, SemopMoves
<1>4. /\ val["SEM"] \in Int /\ undo[p]["SEM"] \in Int
      /\ val["USAGE"] \in Int /\ undo[p]["USAGE"] \in Int
  BY <1>2 DEF TypeOK, Sems
<1>5. Others(p)
  BY <1>1, <1>2, <1>3 DEF Others, TypeOK
<1>6. p \notin Getting /\ p \notin Getting' /\ pc'[p] = "acquired"
  BY <1>1, <1>2 DEF Getting, InFunction, TypeOK
<1>7. /\ Of(p)' = Of(p)
      /\ SumFunctionOnSet(Counts, Of(p))' = SumFunctionOnSet(Counts, Of(p))
  BY <1>1, <1>2, SameRow
<1>8. Balanced(p)'
  <2>1. SumFunctionOnSet(Counts, Of(p)) \in Int
    BY <1>2, RowSums DEF Summed
  <2>2. Has(p)' = SumFunctionOnSet(Counts, Of(p)) + 1
    BY <1>1, <1>6, <1>7, <2>1 DEF Has, One, Working, InFunction
  <2>3. Has(p) = SumFunctionOnSet(Counts, Of(p))
    BY <1>1, <2>1 DEF Has, One, Working, InFunction
  <2>4. Got(p)' = Got(p)
    BY <1>6, <1>7 DEF Got, One
  <2>5. Balanced(p) /\ pc[p] # "exit"
    BY <1>1 DEF Books
  <2>6. undo'[p]["SEM"] = undo[p]["SEM"] + 1 /\ undo'[p]["USAGE"] = undo[p]["USAGE"]
    BY <1>3, <1>4
  <2>. QED
    BY <1>6, <2>2, <2>3, <2>4, <2>5, <2>6 DEF Balanced
<1>9. /\ undo'[p]["USAGE"] = undo[p]["USAGE"] /\ val'["USAGE"] = val["USAGE"]
      /\ val'["SEM"] + undo'[p]["SEM"] = val["SEM"] + undo[p]["SEM"]
  BY <1>3, <1>4
<1>. QED
  BY <1>1, <1>2, <1>5, <1>6, <1>7, <1>8, <1>9, Away

LEMMA ReleaseBooks ==
  ASSUME SerialInv, SerialInv', Books, exists,
         NEW p \in Processes, NEW h \in Handles, SemRelease(p, h)
  PROVE  Books'
<1>1. /\ Semop(p, Ops(1, 0, 0)) /\ 1 \in Int /\ 0 \in Int /\ pc[p] = "idle"
      /\ pc' = [pc EXCEPT ![p] = "released"] /\ at' = [at EXCEPT ![p] = h] /\ handle' = handle
      /\ semid' = semid /\ exists' = exists /\ mishap' = mishap /\ handle[p][h].semid = semid
  BY DEF SemRelease, Goto, NoMishap, Valid
<1>2. TypeOK /\ TypeOK'
  BY DEF SerialInv
<1>3. /\ val'["SEM"] = val["SEM"] + 1 /\ undo'[p]["SEM"] = undo[p]["SEM"] - 1
      /\ val'["USAGE"] = val["USAGE"] + 0 /\ undo'[p]["USAGE"] = undo[p]["USAGE"] - 0
      /\ \A q \in Processes \ {p} : undo'[q] = undo[q]
  BY <1>1, <1>2, SemopMoves
<1>4. /\ val["SEM"] \in Int /\ undo[p]["SEM"] \in Int
      /\ val["USAGE"] \in Int /\ undo[p]["USAGE"] \in Int
  BY <1>2 DEF TypeOK, Sems
<1>5. Others(p)
  BY <1>1, <1>2, <1>3 DEF Others, TypeOK
<1>6. p \notin Getting /\ p \notin Getting' /\ pc'[p] = "released" /\ at'[p] = h
  BY <1>1, <1>2 DEF Getting, InFunction, TypeOK
<1>7. /\ Of(p)' = Of(p)
      /\ SumFunctionOnSet(Counts, Of(p))' = SumFunctionOnSet(Counts, Of(p))
  BY <1>1, <1>2, SameRow
<1>8. Balanced(p)'
  <2>1. SumFunctionOnSet(Counts, Of(p)) \in Int
    BY <1>2, RowSums DEF Summed
  <2>2. Has(p)' = SumFunctionOnSet(Counts, Of(p)) - 1
    BY <1>1, <1>6, <1>7, <2>1 DEF Has, One, Working, InFunction
  <2>3. Has(p) = SumFunctionOnSet(Counts, Of(p))
    BY <1>1, <2>1 DEF Has, One, Working, InFunction
  <2>4. Got(p)' = Got(p)
    BY <1>6, <1>7 DEF Got, One
  <2>5. Balanced(p) /\ pc[p] # "exit"
    BY <1>1 DEF Books
  <2>6. undo'[p]["SEM"] = undo[p]["SEM"] - 1 /\ undo'[p]["USAGE"] = undo[p]["USAGE"]
    BY <1>3, <1>4
  <2>. QED
    BY <1>6, <2>2, <2>3, <2>4, <2>5, <2>6 DEF Balanced
<1>9. /\ undo'[p]["USAGE"] = undo[p]["USAGE"] /\ val'["USAGE"] = val["USAGE"]
      /\ val'["SEM"] + undo'[p]["SEM"] = val["SEM"] + undo[p]["SEM"]
  BY <1>3, <1>4
<1>. QED
  BY <1>1, <1>2, <1>5, <1>6, <1>7, <1>8, <1>9, Away

LEMMA ExitBooks ==
  ASSUME SerialInv, SerialInv', Books, exists, NEW p \in Processes, Exit(p)
  PROVE  Books'
<1>1. /\ pc[p] # "exit" /\ pc' = [pc EXCEPT ![p] = "exit"] /\ at' = [at EXCEPT ![p] = 0]
      /\ handle' = [handle EXCEPT ![p] = [h \in Handles |-> NoHandle]]
      /\ semid' = semid /\ exists' = exists /\ val' = val /\ undo' = undo
      /\ mishap \subseteq mishap' /\ (mishap' = {} => pc[p] \notin {"getval", "setmax"})
  BY DEF Exit, Goto, kernel, Suffer
<1>2. TypeOK /\ TypeOK' /\ Placed
  BY DEF SerialInv
<1>3. Others(p)
  BY <1>1, <1>2 DEF Others, TypeOK
<1>4. p \notin Getting' /\ pc'[p] = "exit"
  BY <1>1, <1>2 DEF Getting, InFunction, TypeOK
<1>5. Balanced(p)'
  BY <1>1, <1>2, <1>4, Signs DEF Balanced, Books
<1>6. Total("SEM")' = Total("SEM") /\ Total("USAGE")' = Total("USAGE")
  BY <1>1, <1>3, TotalsStay
<1>7. \A q \in Processes : Balanced(q)'
  BY <1>3, <1>5, Rest
<1>8. Alone'
  <2> SUFFICES ASSUME NEW q \in Getting', pc'[q] = "setmax"
               PROVE  Of(q)' = {} /\ \A r \in Processes \ {q} : undo'[r]["USAGE"] = 0
    BY DEF Alone
  <2>1. q \in Processes \ {p}
    BY <1>4 DEF Getting, InFunction
  <2>2. q \in Getting /\ pc[q] = "setmax" /\ Of(q)' = Of(q)
    BY <1>3, <2>1, Rest
  <2>. QED
    BY <1>1, <2>2 DEF Books, Alone
<1>9. Unset'
  <2> SUFFICES ASSUME mishap' = {}, Total("SEM")' = 0, NEW q \in Processes, undo'[q]["USAGE"] # 0
               PROVE  q \in Getting' /\ pc'[q] \in {"getval", "setmax"} /\ Of(q)' = {}
    BY DEF Unset
  <2>1. q \in Getting /\ pc[q] \in {"getval", "setmax"} /\ Of(q) = {}
    BY <1>1, <1>6 DEF Books, Unset
  <2>2. q # p
    BY <1>1, <2>1
  <2>. QED
    BY <1>3, <2>1, <2>2, Rest
<1>. QED
  BY <1>6, <1>7, <1>8, <1>9 DEF Books

\* The kernel never has to stop at zero: nobody owes more than there is.
LEMMA UndoBooks ==
  ASSUME SerialInv, SerialInv', Books, exists, NEW p \in Processes, Undo(p)
  PROVE  Books'
<1>1. /\ pc[p] = "exit" /\ pc' = pc /\ at' = at /\ handle' = handle /\ mishap' = mishap
      /\ semid' = semid /\ exists' = exists
  BY DEF Undo, NoMishap
<1>2. TypeOK /\ TypeOK' /\ Placed
  BY DEF SerialInv
<1>3. PICK s \in Sems : /\ val'  = [val EXCEPT ![s] = Max({0, @ + undo[p][s]})]
                        /\ undo' = [undo EXCEPT ![p][s] = 0]
  BY DEF Undo
<1>4. /\ \A r \in Sems : r # s => val'[r] = val[r] /\ undo'[p][r] = undo[p][r]
      /\ val'[s] = Max({0, val[s] + undo[p][s]}) /\ undo'[p][s] = 0
      /\ \A q \in Processes \ {p} : undo'[q] = undo[q]
  BY <1>2, <1>3 DEF TypeOK
<1>5. Others(p)
  BY <1>1, <1>4 DEF Others
<1>6. p \notin Getting /\ p \notin Getting'
  BY <1>1 DEF Getting, InFunction
<1>7. /\ \A q \in Processes : undo[q]["USAGE"] \in Int /\ undo[q]["USAGE"] <= 0
      /\ undo[p]["SEM"] \in Int /\ undo[p]["SEM"] >= 0
      /\ val["SEM"] \in Nat /\ val["USAGE"] \in Nat
  BY <1>2, Signs DEF Books, TypeOK, Sems
<1>8. val["USAGE"] + undo[p]["USAGE"] >= 0
  BY <1>2, <1>7, UsageBounds DEF Books
<1>9. "SEM" \in Sems /\ "USAGE" \in Sems
  BY DEF Sems
<1>10. /\ val'["SEM"] + undo'[p]["SEM"] = val["SEM"] + undo[p]["SEM"]
       /\ undo'[p]["SEM"] \in {0, undo[p]["SEM"]}
  <2>1. CASE s = "SEM"
    <3>1. val["SEM"] + undo[p]["SEM"] \in Nat
      BY <1>7
    <3>2. val'["SEM"] = val["SEM"] + undo[p]["SEM"]
      BY <1>4, <2>1, <3>1, MaxOfTwo
    <3>. QED
      BY <1>4, <2>1, <3>1, <3>2
  <2>2. CASE s # "SEM"
    BY <1>4, <1>9, <2>2
  <2>. QED
    BY <2>1, <2>2
<1>11. /\ val'["USAGE"] + undo'[p]["USAGE"] = val["USAGE"] + undo[p]["USAGE"]
       /\ undo'[p]["USAGE"] \in {0, undo[p]["USAGE"]}
  <2>1. CASE s = "USAGE"
    <3>1. val["USAGE"] + undo[p]["USAGE"] \in Nat
      BY <1>7, <1>8
    <3>2. val'["USAGE"] = val["USAGE"] + undo[p]["USAGE"]
      BY <1>4, <2>1, <3>1, MaxOfTwo
    <3>. QED
      BY <1>4, <2>1, <3>1, <3>2
  <2>2. CASE s # "USAGE"
    BY <1>4, <1>9, <2>2
  <2>. QED
    BY <2>1, <2>2
<1>12. Balanced(p)'
  BY <1>1, <1>7, <1>10, <1>11 DEF Balanced
<1>13. Total("SEM")' = Total("SEM") /\ Total("USAGE")' = Total("USAGE")
  BY <1>5, <1>10, <1>11, TotalsStay
<1>14. \A q \in Processes : Balanced(q)'
  BY <1>5, <1>12, Rest
<1>15. \A q \in Processes : undo[q]["USAGE"] = 0 => undo'[q]["USAGE"] = 0
  BY <1>4, <1>11
<1>16. Alone'
  <2> SUFFICES ASSUME NEW q \in Getting', pc'[q] = "setmax"
               PROVE  Of(q)' = {} /\ \A r \in Processes \ {q} : undo'[r]["USAGE"] = 0
    BY DEF Alone
  <2>1. q \in Processes \ {p}
    BY <1>6 DEF Getting, InFunction
  <2>2. q \in Getting /\ pc[q] = "setmax" /\ Of(q)' = Of(q)
    BY <1>5, <2>1, Rest
  <2>. QED
    BY <1>15, <2>2 DEF Books, Alone
<1>17. Unset'
  <2> SUFFICES ASSUME mishap' = {}, Total("SEM")' = 0, NEW q \in Processes, undo'[q]["USAGE"] # 0
               PROVE  q \in Getting' /\ pc'[q] \in {"getval", "setmax"} /\ Of(q)' = {}
    BY DEF Unset
  <2>1. q \in Getting /\ pc[q] \in {"getval", "setmax"} /\ Of(q) = {}
    BY <1>1, <1>13, <1>15 DEF Books, Unset
  <2>2. q # p
    BY <1>6, <2>1
  <2>. QED
    BY <1>5, <2>1, <2>2, Rest
<1>. QED
  BY <1>13, <1>14, <1>16, <1>17 DEF Books

-----------------------------------------------------------------------------
\* Every step keeps the count of permits and handles.
LEMMA Combine ==
  ASSUME PermitInv, NEW p \in Processes, mishap \subseteq mishap', exists' => exists,
         \A q \in Processes \ {p} : handle'[q] = handle[q] /\ pc'[q] = pc[q],
         pc'[p] = "exit" => \A h \in Handles : handle'[p][h] = NoHandle,
         exists' /\ Books => Books' \/ "timeout" \in mishap'
  PROVE  PermitInv'
<1>1. ASSUME NEW q \in Processes, pc'[q] = "exit" PROVE Open(q)' = {}
  <2>1. CASE q = p
    BY <1>1, <2>1 DEF Open
  <2>2. CASE q # p
    BY <1>1, <2>2 DEF PermitInv, Open
  <2>. QED
    BY <2>1, <2>2
<1>2. ASSUME "timeout" \notin mishap', exists' PROVE Books'
  BY <1>2 DEF PermitInv
<1>. QED
  BY <1>1, <1>2 DEF PermitInv

LEMMA PermitStep == SerialInv /\ SerialInv' /\ PermitInv /\ [Next]_vars => PermitInv'
<1> SUFFICES ASSUME SerialInv, SerialInv', PermitInv, [Next]_vars PROVE PermitInv'
  OBVIOUS
<1>0. TypeOK /\ TypeOK' /\ Placed /\ HandlesMade
  BY DEF SerialInv
<1>1. ASSUME NEW p \in Processes, SemGet(p) PROVE PermitInv'
  <2>1. /\ pc[p] = "idle" /\ pc' = [pc EXCEPT ![p] = "enter"] /\ mishap' = mishap /\ handle' = handle
        /\ at' = [at EXCEPT ![p] = semid']
    BY <1>1 DEF SemGet, Goto, NoMishap
  <2>2. CASE exists
    <3>1. semid' = semid /\ exists' = exists /\ val' = val /\ undo' = undo
      BY <1>1, <2>2 DEF SemGet, kernel
    <3>2. Others(p)
      BY <1>0, <2>1, <3>1 DEF Others, TypeOK
    <3>3. p \notin Getting /\ p \notin Getting' /\ pc'[p] = "enter"
      BY <1>0, <2>1 DEF Getting, InFunction, TypeOK
    <3>4. Books => Books'
      BY <1>0, <2>1, <3>1, <3>2, <3>3, Plain
    <3>. QED
      BY <2>1, <3>1, <3>2, <3>3, <3>4, Combine DEF Others
  <2>3. CASE ~exists
    <3>1. Books'
      BY <1>1, <2>3, NewSet
    <3>2. \A q \in Processes : pc'[q] = "exit" => Open(q)' = {}
      BY <1>0, <2>1 DEF PermitInv, Open, TypeOK
    <3>. QED
      BY <3>1, <3>2 DEF PermitInv
  <2>. QED
    BY <2>2, <2>3
<1>2. ASSUME NEW p \in Processes, Enter(p) PROVE PermitInv'
  <2>1. /\ pc[p] = "enter" /\ pc' = [pc EXCEPT ![p] = "getval"] /\ mishap' = mishap /\ handle' = handle
        /\ at' = at /\ semid' = semid /\ exists' = exists
    BY <1>2 DEF Enter, Goto, NoMishap
  <2>2. ASSUME Books, exists, at[p] # semid PROVE Books'
    <3>1. val' = val /\ undo' = undo
      BY <1>2, <2>2 DEF Enter, Valid
    <3>2. Others(p)
      BY <1>0, <2>1, <3>1 DEF Others, TypeOK
    <3>3. p \notin Getting /\ p \notin Getting' /\ pc'[p] = "getval"
      BY <1>0, <2>1, <2>2 DEF Getting, InFunction, TypeOK
    <3>. QED
      BY <1>0, <2>1, <2>2, <3>1, <3>2, <3>3, Plain
  <2>3. Books /\ exists => Books'
    BY <1>2, <2>2, EnterBooks
  <2>4. pc'[p] = "getval" /\ \A q \in Processes \ {p} : pc'[q] = pc[q]
    BY <1>0, <2>1 DEF TypeOK
  <2>. QED
    BY <2>1, <2>3, <2>4, Combine
<1>3. ASSUME NEW p \in Processes, GetVal(p) PROVE PermitInv'
  <2>1. /\ pc[p] = "getval" /\ mishap' = mishap /\ handle' = handle
        /\ at' = at /\ semid' = semid /\ exists' = exists /\ val' = val /\ undo' = undo
        /\ pc' = [pc EXCEPT ![p] = IF Valid(at[p]) /\ val["USAGE"] = 1 THEN "setmax" ELSE "leave"]
    BY <1>3 DEF GetVal, Goto, NoMishap, kernel
  <2>2. pc'[p] \in {"setmax", "leave"} /\ \A q \in Processes \ {p} : pc'[q] = pc[q]
    BY <1>0, <2>1 DEF TypeOK
  <2>3. ASSUME Books, exists, at[p] # semid PROVE Books'
    <3>1. Others(p)
      BY <1>0, <2>1, <2>2 DEF Others, TypeOK
    <3>2. p \notin Getting /\ p \notin Getting'
      BY <2>1, <2>3 DEF Getting, InFunction
    <3>. QED
      BY <1>0, <2>1, <2>2, <2>3, <3>1, <3>2, Plain
  <2>4. Books /\ exists => Books'
    BY <1>3, <2>3, GetValBooks
  <2>. QED
    BY <2>1, <2>2, <2>4, Combine
<1>4. ASSUME NEW p \in Processes, SetMax(p) PROVE PermitInv'
  <2>1. /\ pc[p] = "setmax" /\ mishap' = mishap /\ handle' = handle
        /\ at' = at /\ semid' = semid /\ exists' = exists
        /\ pc' = [pc EXCEPT ![p] = "leave"]
    BY <1>4 DEF SetMax, Goto, NoMishap
  <2>2. pc'[p] = "leave" /\ \A q \in Processes \ {p} : pc'[q] = pc[q]
    BY <1>0, <2>1 DEF TypeOK
  <2>3. ASSUME Books, exists, at[p] # semid PROVE Books'
    <3>1. val' = val /\ undo' = undo
      BY <1>4, <2>3 DEF SetMax, Valid
    <3>2. Others(p)
      BY <1>0, <2>1, <2>2, <3>1 DEF Others, TypeOK
    <3>3. p \notin Getting /\ p \notin Getting'
      BY <2>1, <2>3 DEF Getting, InFunction
    <3>. QED
      BY <1>0, <2>1, <2>2, <2>3, <3>1, <3>2, <3>3, Plain
  <2>4. Books /\ exists => Books'
    BY <1>4, <2>3, SetMaxBooks
  <2>. QED
    BY <2>1, <2>2, <2>4, Combine
<1>5. ASSUME NEW p \in Processes, Leave(p) PROVE PermitInv'
  <2>1. /\ pc[p] = "leave" /\ mishap' = mishap
        /\ at' = [at EXCEPT ![p] = 0] /\ semid' = semid /\ exists' = exists
        /\ pc' = [pc EXCEPT ![p] = "idle"]
    BY <1>5 DEF Leave, Goto, NoMishap
  <2>2. pc'[p] = "idle" /\ \A q \in Processes \ {p} : pc'[q] = pc[q]
    BY <1>0, <2>1 DEF TypeOK
  <2>3. PICK h \in Handles :
          handle[p][h] = NoHandle /\ handle' = [handle EXCEPT ![p][h] = [semid |-> at[p], count |-> 0]]
    BY <1>5 DEF Leave, Unused, Open
  <2>4. \A q \in Processes \ {p} : handle'[q] = handle[q]
    BY <1>0, <2>3 DEF TypeOK
  <2>5. ASSUME Books, exists, at[p] # semid PROVE Books'
    <3>1. val' = val /\ undo' = undo
      BY <1>5, <2>5 DEF Leave, Valid
    <3>2. Others(p)
      BY <1>0, <2>1, <2>2, <2>4, <3>1 DEF Others, TypeOK
    <3>3. p \notin Getting /\ p \notin Getting'
      BY <2>1, <2>2, <2>5 DEF Getting, InFunction
    <3>4. /\ handle'[p][h].semid = at[p]
          /\ \A g \in Handles \ {h} : handle'[p][g] = handle[p][g]
      BY <1>0, <2>3 DEF TypeOK
    <3>5. <<p, h>> \notin InUse /\ <<p, h>> \notin InUse'
      <4>1. NoHandle.semid = 0 /\ semid >= 1
        BY <1>0, <2>5 DEF NoHandle, HandlesMade
      <4>. QED
        BY <2>1, <2>3, <2>5, <3>4, <4>1 DEF InUse
    <3>6. /\ Cardinality(Of(p))' = Cardinality(Of(p)) - 0 + 0
          /\ SumFunctionOnSet(Counts, Of(p))' = SumFunctionOnSet(Counts, Of(p)) - 0 + 0
          /\ Of(p)' = Of(p)
      BY <1>0, <2>1, <3>4, <3>5, OneHandle DEF One
    <3>7. Cardinality(Of(p)) \in Int /\ SumFunctionOnSet(Counts, Of(p)) \in Int
      BY <1>0, RowSums DEF Summed
    <3>8. Got(p)' = Got(p) /\ Has(p)' = Has(p)
      BY <2>1, <2>2, <3>3, <3>6, <3>7 DEF Got, Has, One, Working, InFunction
    <3>9. Balanced(p)'
      BY <2>1, <2>2, <2>5, <3>1, <3>8 DEF Balanced, Books
    <3>. QED
      BY <1>0, <2>1, <2>5, <3>1, <3>2, <3>3, <3>6, <3>9, Away
  <2>6. Books /\ exists => Books'
    BY <1>5, <2>5, LeaveBooks
  <2>. QED
    BY <2>1, <2>2, <2>4, <2>6, Combine
<1>6. ASSUME NEW p \in Processes, NEW h \in Handles, SemAcquire(p, h) PROVE PermitInv'
  <2>1. /\ pc[p] = "idle" /\ mishap' = mishap /\ handle' = handle
        /\ at' = [at EXCEPT ![p] = h] /\ semid' = semid /\ exists' = exists /\ val' = val /\ undo' = undo
        /\ pc' = [pc EXCEPT ![p] = "acquire"]
    BY <1>6 DEF SemAcquire, Goto, NoMishap, kernel
  <2>2. pc'[p] = "acquire" /\ \A q \in Processes \ {p} : pc'[q] = pc[q]
    BY <1>0, <2>1 DEF TypeOK
  <2>3. Others(p)
    BY <1>0, <2>1, <2>2 DEF Others, TypeOK
  <2>4. p \notin Getting /\ p \notin Getting'
    BY <2>1, <2>2 DEF Getting, InFunction
  <2>5. Books => Books'
    BY <1>0, <2>1, <2>2, <2>3, <2>4, Plain
  <2>. QED
    BY <2>1, <2>2, <2>5, Combine
<1>7. ASSUME NEW p \in Processes, Acquire(p) PROVE PermitInv'
  <2>1. /\ pc[p] = "acquire" /\ mishap' = mishap /\ handle' = handle
        /\ semid' = semid /\ exists' = exists
        /\ pc' = [pc EXCEPT ![p] = "acquired"] \/ pc' = [pc EXCEPT ![p] = "idle"]
    BY <1>7 DEF Acquire, Goto, NoMishap
  <2>2. pc'[p] \in {"acquired", "idle"} /\ \A q \in Processes \ {p} : pc'[q] = pc[q]
    BY <1>0, <2>1 DEF TypeOK
  <2>3. ASSUME Books, exists, ~ Valid(handle[p][at[p]].semid) PROVE Books'
    <3>1. /\ val' = val /\ undo' = undo /\ pc' = [pc EXCEPT ![p] = "idle"]
          /\ at' = [at EXCEPT ![p] = 0]
      BY <1>7, <2>3 DEF Acquire, Goto
    <3>2. Others(p) /\ pc'[p] = "idle"
      BY <1>0, <2>1, <2>2, <3>1 DEF Others, TypeOK
    <3>3. p \notin Getting /\ p \notin Getting'
      BY <2>1, <3>2 DEF Getting, InFunction
    <3>. QED
      BY <1>0, <2>1, <2>3, <3>1, <3>2, <3>3, Plain
  <2>4. Books /\ exists => Books'
    BY <1>7, <2>3, AcquireBooks
  <2>. QED
    BY <2>1, <2>2, <2>4, Combine
<1>8. ASSUME NEW p \in Processes, NEW h \in Handles, SemRelease(p, h) PROVE PermitInv'
  <2>1. /\ mishap' = mishap /\ handle' = handle /\ exists' = exists
        /\ pc' = [pc EXCEPT ![p] = "released"]
    BY <1>8 DEF SemRelease, Goto, NoMishap
  <2>2. pc'[p] = "released" /\ \A q \in Processes \ {p} : pc'[q] = pc[q]
    BY <1>0, <2>1 DEF TypeOK
  <2>3. Books /\ exists => Books'
    BY <1>8, ReleaseBooks
  <2>. QED
    BY <2>1, <2>2, <2>3, Combine
<1>9. ASSUME NEW p \in Processes, Count(p) PROVE PermitInv'
  <2>1. /\ mishap' = mishap /\ exists' = exists /\ pc' = [pc EXCEPT ![p] = "idle"]
    BY <1>9 DEF Count, Goto, NoMishap, kernel
  <2>2. pc'[p] = "idle" /\ \A q \in Processes \ {p} : pc'[q] = pc[q] /\ handle'[q] = handle[q]
    BY <1>0, <1>9, <2>1 DEF TypeOK, Count
  <2>3. Books /\ exists => Books'
    BY <1>9, CountBooks
  <2>. QED
    BY <2>1, <2>2, <2>3, Combine
<1>10. ASSUME NEW p \in Processes, NEW h \in Handles, SemRemove(p, h) PROVE PermitInv'
  <2>1. ~exists' /\ pc' = pc /\ mishap' = mishap /\ pc[p] = "idle"
    BY <1>10 DEF SemRemove, NoMishap
  <2>2. \A q \in Processes \ {p} : handle'[q] = handle[q]
    BY <1>0, <1>10 DEF TypeOK, SemRemove
  <2>. QED
    BY <2>1, <2>2, Combine
<1>11. ASSUME NEW p \in Processes, RequestEnd(p) PROVE PermitInv'
  <2>1. /\ pc[p] = "idle" /\ mishap' = mishap /\ handle' = handle
        /\ at' = at /\ semid' = semid /\ exists' = exists /\ val' = val /\ undo' = undo
        /\ pc' = [pc EXCEPT ![p] = "cleanup"]
    BY <1>11 DEF RequestEnd, Goto, NoMishap, kernel
  <2>2. pc'[p] = "cleanup" /\ \A q \in Processes \ {p} : pc'[q] = pc[q]
    BY <1>0, <2>1 DEF TypeOK
  <2>3. Others(p)
    BY <1>0, <2>1, <2>2 DEF Others, TypeOK
  <2>4. p \notin Getting /\ p \notin Getting'
    BY <2>1, <2>2 DEF Getting, InFunction
  <2>5. Books => Books'
    BY <1>0, <2>1, <2>2, <2>3, <2>4, Plain
  <2>. QED
    BY <2>1, <2>2, <2>5, Combine
<1>12. ASSUME NEW p \in Processes, Cleanup(p) PROVE PermitInv'
  <2>1. /\ mishap' = mishap /\ exists' = exists /\ pc' = pc /\ pc[p] = "cleanup"
    BY <1>12 DEF Cleanup, NoMishap
  <2>2. \A q \in Processes \ {p} : handle'[q] = handle[q]
    BY <1>0, <1>12 DEF TypeOK, Cleanup
  <2>3. Books /\ exists => Books'
    BY <1>12, CleanupBooks
  <2>. QED
    BY <2>1, <2>2, <2>3, Combine
<1>13. ASSUME NEW p \in Processes, CleanupDone(p) PROVE PermitInv'
  <2>1. /\ pc[p] = "cleanup" /\ mishap' = mishap /\ handle' = handle
        /\ at' = at /\ semid' = semid /\ exists' = exists /\ val' = val /\ undo' = undo
        /\ pc' = [pc EXCEPT ![p] = "idle"]
    BY <1>13 DEF CleanupDone, Goto, NoMishap, kernel
  <2>2. pc'[p] = "idle" /\ \A q \in Processes \ {p} : pc'[q] = pc[q]
    BY <1>0, <2>1 DEF TypeOK
  <2>3. Others(p)
    BY <1>0, <2>1, <2>2 DEF Others, TypeOK
  <2>4. p \notin Getting /\ p \notin Getting'
    BY <2>1, <2>2 DEF Getting, InFunction
  <2>5. Books => Books'
    BY <1>0, <2>1, <2>2, <2>3, <2>4, Plain
  <2>. QED
    BY <2>1, <2>2, <2>5, Combine
<1>14. ASSUME NEW p \in Processes, Timeout(p) PROVE PermitInv'
  <2>1. /\ pc[p] # "exit" /\ handle' = handle
        /\ at' = [at EXCEPT ![p] = 0] /\ semid' = semid /\ exists' = exists /\ val' = val /\ undo' = undo
        /\ pc' = [pc EXCEPT ![p] = "cleanup"]
        /\ mishap \subseteq mishap' /\ ("timeout" \notin mishap' => pc[p] \in {"enter", "acquire"})
    BY <1>14 DEF Timeout, Goto, kernel, Suffer
  <2>2. pc'[p] = "cleanup" /\ \A q \in Processes \ {p} : pc'[q] = pc[q]
    BY <1>0, <2>1 DEF TypeOK
  <2>3. ASSUME Books, "timeout" \notin mishap' PROVE Books'
    <3>1. Others(p)
      BY <1>0, <2>1, <2>2 DEF Others, TypeOK
    <3>2. pc[p] \in {"enter", "acquire"}
      BY <2>1, <2>3
    <3>3. p \notin Getting /\ p \notin Getting'
      BY <2>2, <3>2 DEF Getting, InFunction
    <3>. QED
      BY <1>0, <2>1, <2>2, <2>3, <3>1, <3>2, <3>3, Plain
  <2>. QED
    BY <2>1, <2>2, <2>3, Combine
<1>15. ASSUME NEW p \in Processes, Exit(p) PROVE PermitInv'
  <2>1. /\ mishap \subseteq mishap' /\ exists' = exists /\ pc' = [pc EXCEPT ![p] = "exit"]
        /\ handle' = [handle EXCEPT ![p] = [h \in Handles |-> NoHandle]]
    BY <1>15 DEF Exit, Goto, Suffer, kernel
  <2>2. /\ \A q \in Processes \ {p} : pc'[q] = pc[q] /\ handle'[q] = handle[q]
        /\ \A h \in Handles : handle'[p][h] = NoHandle
    BY <1>0, <2>1 DEF TypeOK
  <2>3. Books /\ exists => Books'
    BY <1>15, ExitBooks
  <2>. QED
    BY <2>1, <2>2, <2>3, Combine
<1>16. ASSUME NEW p \in Processes, Undo(p) PROVE PermitInv'
  <2>1. /\ mishap' = mishap /\ exists' = exists /\ pc' = pc /\ pc[p] = "exit" /\ handle' = handle
    BY <1>16 DEF Undo, NoMishap
  <2>2. Books /\ exists => Books'
    BY <1>16, UndoBooks
  <2>3. \A h \in Handles : handle'[p][h] = NoHandle
    BY <2>1 DEF PermitInv, Open
  <2>. QED
    BY <2>1, <2>2, <2>3, Combine
<1>17. ASSUME NEW p \in Processes, Fork(p) PROVE PermitInv'
  <2>1. /\ pc[p] = "exit" /\ mishap' = mishap /\ handle' = handle /\ undo[p] = Zero
        /\ at' = at /\ semid' = semid /\ exists' = exists /\ val' = val /\ undo' = undo
        /\ pc' = [pc EXCEPT ![p] = "idle"]
    BY <1>17 DEF Fork, Goto, NoMishap, kernel
  <2>2. pc'[p] = "idle" /\ \A q \in Processes \ {p} : pc'[q] = pc[q]
    BY <1>0, <2>1 DEF TypeOK
  <2>3. ASSUME Books, exists PROVE Books'
    <3>1. Others(p)
      BY <1>0, <2>1, <2>2 DEF Others, TypeOK
    <3>2. p \notin Getting /\ p \notin Getting'
      BY <2>1, <2>2 DEF Getting, InFunction
    <3>3. Of(p) = {}
      <4>1. \A h \in Handles : handle[p][h].semid = 0
        BY <2>1 DEF PermitInv, Open, NoHandle
      <4>2. semid >= 1
        BY <1>0, <2>3 DEF HandlesMade
      <4>. QED
        BY <4>1, <4>2 DEF Of, InUse
    <3>4. /\ Of(p)' = Of(p)
          /\ SumFunctionOnSet(Counts, Of(p))' = SumFunctionOnSet(Counts, Of(p))
      BY <1>0, <2>1, SameRow
    <3>5. Cardinality(Of(p)') = 0 /\ SumFunctionOnSet(Counts', Of(p)') = 0
      BY <3>3, <3>4, SumEmpty, FS_EmptySet
    <3>6. Got(p)' = 0 /\ Has(p)' = 0
      BY <2>2, <3>2, <3>5 DEF Got, Has, One, Working, InFunction
    <3>7. undo'[p]["USAGE"] = 0 /\ undo'[p]["SEM"] = 0
      BY <2>1 DEF Zero, Sems
    <3>8. Balanced(p)'
      BY <3>6, <3>7 DEF Balanced
    <3>. QED
      BY <1>0, <2>1, <2>3, <3>1, <3>2, <3>4, <3>8, Away
  <2>. QED
    BY <2>1, <2>2, <2>3, Combine
<1>18. CASE UNCHANGED vars
  <2>1. /\ semid' = semid /\ exists' = exists /\ val' = val /\ undo' = undo
        /\ handle' = handle /\ pc' = pc /\ at' = at /\ mishap' = mishap
    BY <1>18 DEF vars
  <2>2. InUse' = InUse /\ Counts' = Counts /\ Getting' = Getting
    BY <2>1 DEF InUse, Counts, Getting, InFunction
  <2>3. \A q : Of(q)' = Of(q) /\ Got(q)' = Got(q)
    BY <2>2 DEF Of, Got
  <2>4. \A q : Has(q)' = Has(q)
    BY <2>1, <2>2, <2>3 DEF Has, Working, InFunction
  <2>5. \A s : Total(s)' = Total(s)
    BY <2>1 DEF Total, Undos
  <2>6. \A q : Balanced(q)' <=> Balanced(q)
    BY <2>1, <2>3, <2>4 DEF Balanced
  <2>7. Books' <=> Books
    BY <2>1, <2>2, <2>3, <2>5, <2>6 DEF Books, Alone, Unset
  <2>. QED
    BY <2>1, <2>7 DEF PermitInv, Open
<1>. QED
  BY <1>1, <1>2, <1>3, <1>4, <1>5, <1>6, <1>7, <1>8, <1>9, <1>10, <1>11, <1>12, <1>13, <1>14,
     <1>15, <1>16, <1>17, <1>18 DEF Next, Script, Runs

\* The books are kept throughout: whatever processes do, crash in or remove, each one's
\* adjustments in the kernel are the opposite of what it has.
THEOREM PermitsCorrect == Spec => []PermitInv
<1>1. Init => PermitInv
  BY DEF Init, PermitInv
<1>2. SerialInv /\ PermitInv /\ [Next]_vars => PermitInv'
  BY SerialStep, PermitStep
<1>. QED
  BY <1>1, <1>2, SerialCorrect, PTL DEF Spec

-----------------------------------------------------------------------------
(***************************************************************************)
(* The sums of the properties are those of the books.                      *)
(***************************************************************************)
LEMMA Finite == IsFiniteSet(Processes) /\ IsFiniteSet(InUse)
<1>1. IsFiniteSet(Processes \X Handles)
  BY SemAssumption, FS_Product
<1>2. InUse \in SUBSET (Processes \X Handles)
  BY DEF InUse
<1>. QED
  BY <1>1, <1>2, SemAssumption, FS_Subset

\* What processes that have ended owe, over all processes.
OwedBy(s) == [p \in Processes |-> IF pc[p] = "exit" THEN undo[p][s] ELSE 0]

LEMMA OwedSum ==
  ASSUME TypeOK, NEW s \in Sems
  PROVE  /\ Owed(s) = SumFunctionOnSet(OwedBy(s), Processes)
         /\ \A p \in Processes : OwedBy(s)[p] \in Int /\ Undos(s)[p] \in Int
         /\ SumFunctionOnSet(OwedBy(s), Processes) \in Int
<1> DEFINE E == InFunction({"exit"})
<1>1. \A p \in Processes : OwedBy(s)[p] \in Int /\ Undos(s)[p] \in Int
  BY DEF TypeOK, OwedBy, Undos
<1>2. E \in SUBSET Processes /\ IsFiniteSet(E) /\ IsFiniteSet(Processes \ E)
  <2>1. E \in SUBSET Processes /\ Processes \ E \in SUBSET Processes
    BY DEF InFunction
  <2>. QED
    BY <2>1, SemAssumption, FS_Subset
<1>3. /\ \A p \in E : OwedBy(s)[p] = Undos(s)[p]
      /\ \A p \in Processes \ E : OwedBy(s)[p] = 0
  BY DEF InFunction, OwedBy, Undos
<1> HIDE DEF E
<1>4. SumFunctionOnSet(OwedBy(s), Processes)
        = SumFunctionOnSet(OwedBy(s), E) + SumFunctionOnSet(OwedBy(s), Processes \ E)
  BY <1>1, <1>2, SemAssumption, SumSplits
<1>5. SumFunctionOnSet(OwedBy(s), Processes \ E) = 0
  BY <1>2, <1>3, SumOfZeros
<1>6. SumFunctionOnSet(OwedBy(s), E) = SumFunctionOnSet(Undos(s), E)
  BY <1>1, <1>2, <1>3, SumSame
<1>7. SumFunctionOnSet(OwedBy(s), E) \in Int /\ SumFunctionOnSet(OwedBy(s), Processes) \in Int
  BY <1>1, <1>2, SemAssumption, SumType
<1>. QED
  BY <1>1, <1>4, <1>5, <1>6, <1>7 DEF Owed, E

LEMMA CountedSum ==
  ASSUME TypeOK, NEW S \in SUBSET Processes
  PROVE  /\ Counted(Processes) = Counted(S) + Counted(Processes \ S)
         /\ Counted(S) \in Nat /\ Counted(Processes \ S) \in Nat
<1> DEFINE A == {x \in InUse : x[1] \in Processes}
           B == {x \in InUse : x[1] \in S}
           C == {x \in InUse : x[1] \in Processes \ S}
<1>1. A = InUse /\ B \in SUBSET A /\ C = A \ B /\ C \in SUBSET A
  BY DEF InUse
<1>2. \A x \in A : Counts[x] \in Nat
  BY DEF TypeOK, InUse, Counts
<1> HIDE DEF A, B, C
<1>3. IsFiniteSet(A) /\ IsFiniteSet(B) /\ IsFiniteSet(C)
  BY <1>1, Finite, FS_Subset
<1>4. SumFunctionOnSet(Counts, A) = SumFunctionOnSet(Counts, B) + SumFunctionOnSet(Counts, C)
  BY <1>1, <1>2, <1>3, SumSplits
<1>5. SumFunctionOnSet(Counts, B) \in Nat /\ SumFunctionOnSet(Counts, C) \in Nat
  BY <1>1, <1>2, <1>3, SumOfNaturals
<1>. QED
  BY <1>4, <1>5 DEF Counted, A, B, C

\* SEM: every permit is free, held, about to be given back, or owed for the dead.
LEMMA Account ==
  ASSUME SerialInv, PermitInv, Books, exists
  PROVE  /\ val["SEM"] + Held + Counted(InFunction({"cleanup"})) + Owed("SEM") = Total("SEM")
         /\ val["SEM"] \in Nat /\ Held \in Int /\ Counted(InFunction({"cleanup"})) \in Nat
         /\ Owed("SEM") \in Nat
<1> DEFINE cnt  == [p \in Processes |-> SumFunctionOnSet(Counts, Of(p))]
           acq  == [p \in Processes |-> One(p \in Working("acquired"))]
           rel  == [p \in Processes |-> One(p \in Working("released"))]
           has  == [p \in Processes |-> Has(p)]
           both == [p \in Processes |-> cnt[p] + acq[p]]
           K    == InFunction({"cleanup"})
           ofs  == [p \in Processes |-> Of(p)]
<1>0. /\ \A p \in Processes : ofs[p] \in SUBSET InUse
      /\ \A p, q \in Processes : p # q => ofs[p] \cap ofs[q] = {}
      /\ \A x \in InUse : \E p \in Processes : x \in ofs[p]
  BY DEF Of, InUse
<1>1. /\ TypeOK /\ HandlesMade /\ IsFiniteSet(Processes) /\ IsFiniteSet(InUse) /\ "SEM" \in Sems
      /\ val["SEM"] \in Nat /\ K \in SUBSET Processes
      /\ Working("acquired") \in SUBSET Processes /\ Working("released") \in SUBSET Processes
  BY Finite DEF SerialInv, TypeOK, Sems, InFunction, Working
<1>2. ASSUME NEW p \in Processes
      PROVE  /\ cnt[p] \in Int /\ acq[p] \in Int /\ rel[p] \in Int /\ has[p] \in Int /\ both[p] \in Int
             /\ both[p] = cnt[p] + acq[p] /\ both[p] = has[p] + rel[p]
             /\ acq[p] = IF p \in Working("acquired") THEN 1 ELSE 0
             /\ rel[p] = IF p \in Working("released") THEN 1 ELSE 0
  <2>1. SumFunctionOnSet(Counts, Of(p)) \in Int
    BY <1>1, RowSums DEF Summed
  <2>. QED
    BY <2>1 DEF Has, One
<1>3. ASSUME NEW p \in Processes
      PROVE  Undos("SEM")[p] = has[p] + OwedBy("SEM")[p]
  <2>1. CASE pc[p] # "exit"
    BY <1>2, <2>1 DEF Books, Balanced, Undos, OwedBy
  <2>2. CASE pc[p] = "exit"
    <3>1. Of(p) = {}
      <4>1. \A h \in Handles : handle[p][h].semid = 0
        BY <2>2 DEF PermitInv, Open, NoHandle
      <4>2. semid >= 1
        BY <1>1 DEF HandlesMade
      <4>. QED
        BY <4>1, <4>2 DEF Of, InUse
    <3>2. SumFunctionOnSet(Counts, {}) = 0
      BY SumEmpty
    <3>3. Has(p) = 0
      BY <2>2, <3>1, <3>2 DEF Has, One, Working, InFunction
    <3>4. undo[p]["SEM"] \in Int
      BY <1>1 DEF TypeOK
    <3>. QED
      BY <2>2, <3>3, <3>4 DEF Undos, OwedBy
  <2>. QED
    BY <2>1, <2>2
<1>4. /\ Owed("SEM") = SumFunctionOnSet(OwedBy("SEM"), Processes)
      /\ \A p \in Processes : OwedBy("SEM")[p] \in Int /\ Undos("SEM")[p] \in Int
  BY <1>1, OwedSum
<1>5. Owed("SEM") \in Nat
  <2>1. \A p \in Processes : OwedBy("SEM")[p] \in Nat
    BY <1>4 DEF OwedBy, Books, Balanced
  <2>. QED
    BY <1>1, <1>4, <2>1, SumOfNaturals
<1>6. SumFunctionOnSet(cnt, Processes) = Counted(Processes)
  <2>1. \A x \in InUse : Counts[x] \in Int
    BY <1>1 DEF TypeOK, InUse, Counts
  <2>2. \A p \in Processes : cnt[p] = SumFunctionOnSet(Counts, ofs[p])
    OBVIOUS
  <2> HIDE DEF cnt, ofs
  <2>3. SumFunctionOnSet(Counts, InUse) = SumFunctionOnSet(cnt, Processes)
    BY <1>1, <1>0, <2>1, <2>2, SumByParts
  <2>4. InUse = {x \in InUse : x[1] \in Processes}
    BY DEF InUse
  <2>. QED
    BY <2>3, <2>4 DEF Counted
<1> HIDE DEF cnt, acq, rel, has, both
<1>7. SumFunctionOnSet(both, Processes)
        = SumFunctionOnSet(cnt, Processes) + SumFunctionOnSet(acq, Processes)
  BY <1>1, <1>2, SumPlus
<1>8. SumFunctionOnSet(both, Processes)
        = SumFunctionOnSet(has, Processes) + SumFunctionOnSet(rel, Processes)
  BY <1>1, <1>2, SumPlus
<1>9. SumFunctionOnSet(Undos("SEM"), Processes)
        = SumFunctionOnSet(has, Processes) + SumFunctionOnSet(OwedBy("SEM"), Processes)
  <2>1. \A p \in Processes : /\ has[p] \in Int /\ OwedBy("SEM")[p] \in Int
                             /\ Undos("SEM")[p] = has[p] + OwedBy("SEM")[p]
    BY <1>2, <1>3, <1>4
  <2>. QED
    BY <1>1, <2>1, SumPlus
<1>10. SumFunctionOnSet(acq, Processes) = Cardinality(Working("acquired"))
       /\ Cardinality(Working("acquired")) \in Nat
  BY <1>1, <1>2, SumOfMembers
<1>11. SumFunctionOnSet(rel, Processes) = Cardinality(Working("released"))
       /\ Cardinality(Working("released")) \in Nat
  BY <1>1, <1>2, SumOfMembers
<1>12. /\ Counted(Processes) = Counted(K) + Counted(Processes \ K)
       /\ Counted(K) \in Nat /\ Counted(Processes \ K) \in Nat
  BY <1>1, CountedSum
<1>13. SumFunctionOnSet(has, Processes) \in Int
  BY <1>1, <1>2, SumType
<1>14. /\ Held = Counted(Processes \ K) + Cardinality(Working("acquired"))
                 - Cardinality(Working("released"))
       /\ Total("SEM") = val["SEM"] + SumFunctionOnSet(Undos("SEM"), Processes)
  BY DEF Held, Total
<1>15. Held \in Int
  BY <1>10, <1>11, <1>12, <1>14
<1> HIDE DEF K
<1>16. SumFunctionOnSet(has, Processes) = Held + Counted(K)
  <2>1. SumFunctionOnSet(has, Processes) + Cardinality(Working("released"))
          = (Counted(K) + Counted(Processes \ K)) + Cardinality(Working("acquired"))
    BY <1>6, <1>7, <1>8, <1>10, <1>11, <1>12
  <2>2. /\ Counted(K) \in Int /\ Counted(Processes \ K) \in Int
        /\ Cardinality(Working("acquired")) \in Int /\ Cardinality(Working("released")) \in Int
    BY <1>10, <1>11, <1>12
  <2>3. Held = Counted(Processes \ K) + Cardinality(Working("acquired"))
                 - Cardinality(Working("released"))
    BY <1>14
  <2>4. Held + Counted(K)
          = ((Counted(K) + Counted(Processes \ K)) + Cardinality(Working("acquired")))
              - Cardinality(Working("released"))
    BY <2>2, <2>3
  <2>. QED
    BY <1>13, <2>1, <2>2, <2>4
<1>17. val["SEM"] + Held + Counted(K) + Owed("SEM") = Total("SEM")
  BY <1>1, <1>4, <1>5, <1>9, <1>12, <1>13, <1>14, <1>15, <1>16
<1>. QED
  BY <1>1, <1>5, <1>12, <1>15, <1>17 DEF K

\* USAGE.
LEMMA UsageAccount ==
  ASSUME SerialInv, PermitInv, Books, exists
  PROVE  val["USAGE"] + Owed("USAGE") = Cardinality(InUse) + Cardinality(Getting)
<1> DEFINE card == [p \in Processes |-> Cardinality(Of(p))]
           get  == [p \in Processes |-> One(p \in Getting)]
           got  == [p \in Processes |-> Got(p)]
           one  == [x \in InUse |-> 1]
           ofs  == [p \in Processes |-> Of(p)]
<1>0. /\ \A p \in Processes : ofs[p] \in SUBSET InUse
      /\ \A p, q \in Processes : p # q => ofs[p] \cap ofs[q] = {}
      /\ \A x \in InUse : \E p \in Processes : x \in ofs[p]
  BY DEF Of, InUse
<1>1. /\ TypeOK /\ HandlesMade /\ IsFiniteSet(Processes) /\ IsFiniteSet(InUse) /\ "USAGE" \in Sems
      /\ val["USAGE"] \in Nat /\ Getting \in SUBSET Processes
  BY Finite DEF SerialInv, TypeOK, Sems, InFunction, Getting
<1>2. ASSUME NEW p \in Processes
      PROVE  /\ card[p] \in Int /\ get[p] \in Int /\ got[p] \in Int /\ got[p] = card[p] + get[p]
             /\ get[p] = IF p \in Getting THEN 1 ELSE 0
  <2>1. Cardinality(Of(p)) \in Int
    BY <1>1, RowSums DEF Summed
  <2>. QED
    BY <2>1 DEF Got, One
<1>3. /\ Owed("USAGE") = SumFunctionOnSet(OwedBy("USAGE"), Processes)
      /\ \A p \in Processes : OwedBy("USAGE")[p] \in Int /\ Undos("USAGE")[p] \in Int
      /\ SumFunctionOnSet(OwedBy("USAGE"), Processes) \in Int
  BY <1>1, OwedSum
<1>4. ASSUME NEW p \in Processes
      PROVE  OwedBy("USAGE")[p] = Undos("USAGE")[p] + got[p]
  <2>1. CASE pc[p] # "exit"
    BY <1>2, <2>1 DEF Books, Balanced, Undos, OwedBy
  <2>2. CASE pc[p] = "exit"
    <3>1. Of(p) = {}
      <4>1. \A h \in Handles : handle[p][h].semid = 0
        BY <2>2 DEF PermitInv, Open, NoHandle
      <4>2. semid >= 1
        BY <1>1 DEF HandlesMade
      <4>. QED
        BY <4>1, <4>2 DEF Of, InUse
    <3>2. Got(p) = 0
      BY <2>2, <3>1, FS_EmptySet DEF Got, One, Getting, InFunction
    <3>3. undo[p]["USAGE"] \in Int
      BY <1>1 DEF TypeOK
    <3>. QED
      BY <2>2, <3>2, <3>3 DEF Undos, OwedBy
  <2>. QED
    BY <2>1, <2>2
<1>5. SumFunctionOnSet(card, Processes) = Cardinality(InUse) /\ Cardinality(InUse) \in Nat
  <2>1. \A x \in InUse : one[x] = 1 /\ one[x] \in Int
    OBVIOUS
  <2>2. SumFunctionOnSet(one, InUse) = Cardinality(InUse)
    BY <1>1, <2>1, SumOfOnes
  <2>3. ASSUME NEW p \in Processes PROVE card[p] = SumFunctionOnSet(one, ofs[p])
    <3>1. Of(p) \in SUBSET InUse
      BY DEF Of
    <3>2. IsFiniteSet(Of(p)) /\ \A x \in Of(p) : one[x] = 1
      BY <1>1, <2>1, <3>1, FS_Subset
    <3> HIDE DEF one
    <3>3. SumFunctionOnSet(one, Of(p)) = Cardinality(Of(p))
      BY <3>2, SumOfOnes
    <3>. QED
      BY <3>3
  <2> HIDE DEF one, card, ofs
  <2>4. SumFunctionOnSet(one, InUse) = SumFunctionOnSet(card, Processes)
    BY <1>0, <1>1, <2>1, <2>3, SumByParts
  <2>. QED
    BY <1>1, <2>2, <2>4, FS_CardinalityType
<1> HIDE DEF card, get, got
<1>6. SumFunctionOnSet(got, Processes)
        = SumFunctionOnSet(card, Processes) + SumFunctionOnSet(get, Processes)
  BY <1>1, <1>2, SumPlus
<1>7. SumFunctionOnSet(OwedBy("USAGE"), Processes)
        = SumFunctionOnSet(Undos("USAGE"), Processes) + SumFunctionOnSet(got, Processes)
  <2>1. \A p \in Processes : /\ got[p] \in Int /\ Undos("USAGE")[p] \in Int
                             /\ OwedBy("USAGE")[p] = Undos("USAGE")[p] + got[p]
    BY <1>2, <1>3, <1>4
  <2>. QED
    BY <1>1, <2>1, SumPlus
<1>8. SumFunctionOnSet(get, Processes) = Cardinality(Getting) /\ Cardinality(Getting) \in Nat
  BY <1>1, <1>2, SumOfMembers
<1>9. val["USAGE"] + SumFunctionOnSet(Undos("USAGE"), Processes) = 0
  BY DEF Books, Total
<1>10. SumFunctionOnSet(Undos("USAGE"), Processes) \in Int
  BY <1>1, <1>3, SumType
<1>11. Owed("USAGE") = SumFunctionOnSet(Undos("USAGE"), Processes)
                         + (Cardinality(InUse) + Cardinality(Getting))
  BY <1>3, <1>5, <1>6, <1>7, <1>8
<1>. QED
  BY <1>1, <1>5, <1>8, <1>9, <1>10, <1>11

\* No more permits are held than there are, whatever crashes and whatever is removed,
\* as long as no timeout has come between a semop() and the count of it.
THEOREM PermitsNeverExceeded == Spec => []PermitsBounded
<1>1. SerialInv /\ PermitInv => PermitsBounded
  <2> SUFFICES ASSUME SerialInv, PermitInv, "timeout" \notin mishap, exists PROVE Held <= MaxAcquire
    BY DEF PermitsBounded
  <2>1. Books
    BY DEF PermitInv
  <2>2. /\ val["SEM"] + Held + Counted(InFunction({"cleanup"})) + Owed("SEM") = Total("SEM")
        /\ val["SEM"] \in Nat /\ Held \in Int /\ Counted(InFunction({"cleanup"})) \in Nat
        /\ Owed("SEM") \in Nat
    BY <2>1, Account
  <2>3. Total("SEM") \in {0, MaxAcquire} /\ MaxAcquire \in Nat
    BY <2>1, SemAssumption DEF Books
  <2>. QED
    BY <2>2, <2>3
<1>. QED
  BY <1>1, SerialCorrect, PermitsCorrect, PTL

\* No permit is lost and none is made: USAGE, which decides who gives SEM its first
\* value, counts the handles exactly, and from then on every permit is free, held,
\* about to be given back, or owed by the kernel for a process that has ended.
THEOREM PermitsAccountedFor == Spec => []PermitsExact
<1>1. SerialInv /\ PermitInv => UsageExact
  BY UsageAccount DEF PermitInv, UsageExact
<1>2. ASSUME SerialInv, PermitInv, mishap = {}, exists,
             InUse # {} \/ InFunction({"leave"}) \cap Getting # {}
      PROVE  val["SEM"] + Held + Counted(InFunction({"cleanup"})) + Owed("SEM") = MaxAcquire
  <2>1. Books
    BY <1>2 DEF PermitInv
  <2>2. val["SEM"] + Held + Counted(InFunction({"cleanup"})) + Owed("SEM") = Total("SEM")
    BY <1>2, <2>1, Account
  <2>3. PICK p \in Processes :
          pc[p] # "exit" /\ (Of(p) # {} \/ p \in InFunction({"leave"}) \cap Getting)
    <3>1. CASE InUse # {}
      <4>1. PICK x \in InUse : TRUE
        BY <3>1
      <4>2. x[1] \in Processes /\ x[2] \in Handles /\ x \in Of(x[1])
        BY DEF InUse, Of
      <4>3. pc[x[1]] # "exit"
        <5>1. semid >= 1 /\ handle[x[1]][x[2]].semid = semid
          BY <1>2 DEF SerialInv, HandlesMade, InUse
        <5>. QED
          BY <1>2, <4>2, <5>1 DEF PermitInv, Open, NoHandle
      <4>. QED
        BY <4>2, <4>3
    <3>2. CASE InFunction({"leave"}) \cap Getting # {}
      BY <3>2 DEF InFunction
    <3>. QED
      BY <1>2, <3>1, <3>2
  <2>4. undo[p]["USAGE"] # 0
    BY <1>2, <2>1, <2>3, Signs DEF Books, SerialInv
  <2>5. ~ (p \in Getting /\ pc[p] \in {"getval", "setmax"} /\ Of(p) = {})
    BY <2>3 DEF InFunction
  <2>6. Total("SEM") # 0
    BY <1>2, <2>1, <2>4, <2>5 DEF Books, Unset
  <2>. QED
    BY <2>1, <2>2, <2>6 DEF Books
<1>3. SerialInv /\ PermitInv => PermitsExact
  BY <1>1, <1>2 DEF PermitsExact
<1>. QED
  BY <1>3, SerialCorrect, PermitsCorrect, PTL

-----------------------------------------------------------------------------
(***************************************************************************)
(* Alloc, for every number of blocks, sizes, caches and limits: emalloc()  *)
(* never gives a block to two, whoever has one has room, the "cached" bit  *)
(* is right, a request leaves no memory behind, and allocated_memory is    *)
(* what the blocks take.                                                   *)
(***************************************************************************)
(***************************************************************************)
(* Sizes                                                                   *)
(***************************************************************************)
\* A size rounded up is at least the size.
LEMMA RoundsUp ==
  ASSUME NEW s \in Size
  PROVE  Index(s) \in Nat /\ RealSize(s) \in Nat /\ s <= RealSize(s)
<1>1. Align \in Nat /\ Align > 0 /\ s \in Nat
  BY AllocAssumption DEF Size
<1> DEFINE n == s + Align - 1
<1>2. n \in Nat
  BY <1>1
<1>3. n \div Align \in Nat /\ n < Align * (n \div Align) + Align
  BY <1>1, <1>2
<1>4. (n \div Align) * Align \in Nat /\ Align * (n \div Align) = (n \div Align) * Align
  BY <1>1, <1>3
<1> QED
  BY <1>1, <1>3, <1>4 DEF Index, RealSize

(***************************************************************************)
(* Caches as sequences                                                     *)
(***************************************************************************)
\* A block is pushed.
LEMMA Pushed ==
  ASSUME NEW s \in Seq(Block), NEW p \in Block
  PROVE  /\ Append(s, p) \in Seq(Block) /\ Len(Append(s, p)) = Len(s) + 1
         /\ Members(Append(s, p)) = Members(s) \cup {p}
         /\ Injective(s) /\ p \notin Members(s) => Injective(Append(s, p))
<1>1. Append(s, p) \in Seq(Block) /\ Len(Append(s, p)) = Len(s) + 1
      /\ DOMAIN Append(s, p) = 1 .. Len(s) + 1 /\ DOMAIN s = 1 .. Len(s) /\ Len(s) \in Nat
      /\ (\A i \in 1 .. Len(s) : Append(s, p)[i] = s[i]) /\ Append(s, p)[Len(s) + 1] = p
  OBVIOUS
<1>2. Members(Append(s, p)) = Members(s) \cup {p}
  BY <1>1 DEF Members
<1>3. ASSUME Injective(s), p \notin Members(s) PROVE Injective(Append(s, p))
  BY <1>1, <1>3 DEF Injective, Members
<1> QED
  BY <1>1, <1>2, <1>3

\* The last block is popped.
LEMMA Popped ==
  ASSUME NEW s \in Seq(Block), s # <<>>, Injective(s)
  PROVE  LET p == s[Len(s)]
             t == SubSeq(s, 1, Len(s) - 1) IN
         /\ p \in Members(s) /\ p \in Block
         /\ t \in Seq(Block) /\ Len(t) <= Len(s)
         /\ Members(t) = Members(s) \ {p} /\ Injective(t)
<1> DEFINE p == s[Len(s)]
           t == SubSeq(s, 1, Len(s) - 1)
<1>1. Len(s) \in Nat /\ Len(s) > 0 /\ DOMAIN s = 1 .. Len(s)
  OBVIOUS
<1>2. t \in Seq(Block) /\ Len(t) = Len(s) - 1 /\ DOMAIN t = 1 .. Len(s) - 1
      /\ \A i \in 1 .. Len(s) - 1 : t[i] = s[i]
  BY <1>1
<1>3. p \in Members(s) /\ p \in Block
  BY <1>1 DEF Members
<1>4. Members(t) = Members(s) \ {p}
  <2>1. ASSUME NEW b \in Members(t) PROVE b \in Members(s) /\ b # p
    BY <1>1, <1>2, <2>1 DEF Members, Injective
  <2>2. ASSUME NEW b \in Members(s), b # p PROVE b \in Members(t)
    <3>1. PICK i \in DOMAIN s : b = s[i]
      BY <2>2 DEF Members
    <3>2. i \in 1 .. Len(s) - 1
      BY <1>1, <2>2, <3>1
    <3> QED
      BY <1>2, <3>1, <3>2 DEF Members
  <2> QED
    BY <2>1, <2>2
<1>5. Injective(t)
  BY <1>1, <1>2 DEF Injective
<1> QED
  BY <1>1, <1>2, <1>3, <1>4, <1>5

\* The first block is taken.
LEMMA Taken ==
  ASSUME NEW s \in Seq(Block), s # <<>>, Injective(s)
  PROVE  /\ Head(s) \in Members(s) /\ Head(s) \in Block /\ Tail(s) \in Seq(Block)
         /\ Members(Tail(s)) = Members(s) \ {Head(s)} /\ Injective(Tail(s))
<1> DEFINE t == Tail(s)
<1>1. Len(s) \in Nat /\ Len(s) > 0 /\ DOMAIN s = 1 .. Len(s) /\ Head(s) = s[1]
  OBVIOUS
<1>2. t \in Seq(Block) /\ DOMAIN t = 1 .. Len(s) - 1
      /\ \A i \in 1 .. Len(s) - 1 : t[i] = s[i + 1]
  BY <1>1
<1>3. Head(s) \in Members(s) /\ Head(s) \in Block
  BY <1>1 DEF Members
<1>4. Members(t) = Members(s) \ {Head(s)}
  <2>1. ASSUME NEW b \in Members(t) PROVE b \in Members(s) /\ b # Head(s)
    BY <1>1, <1>2, <2>1 DEF Members, Injective
  <2>2. ASSUME NEW b \in Members(s), b # Head(s) PROVE b \in Members(t)
    <3>1. PICK i \in DOMAIN s : b = s[i]
      BY <2>2 DEF Members
    <3>2. i - 1 \in 1 .. Len(s) - 1 /\ (i - 1) + 1 = i
      BY <1>1, <2>2, <3>1
    <3> QED
      BY <1>2, <3>1, <3>2 DEF Members
  <2> QED
    BY <2>1, <2>2
<1>5. Injective(t)
  BY <1>1, <1>2 DEF Injective
<1> QED
  BY <1>2, <1>3, <1>4, <1>5

\* A block is put in front.
LEMMA Put ==
  ASSUME NEW s \in Seq(Block), NEW p \in Block, Injective(s), p \notin Members(s)
  PROVE  /\ <<p>> \o s \in Seq(Block) /\ Members(<<p>> \o s) = Members(s) \cup {p}
         /\ Injective(<<p>> \o s)
<1> DEFINE t == <<p>> \o s
<1>1. Len(s) \in Nat /\ DOMAIN s = 1 .. Len(s)
  OBVIOUS
<1>2. t \in Seq(Block) /\ DOMAIN t = 1 .. Len(s) + 1 /\ t[1] = p
      /\ \A i \in 2 .. Len(s) + 1 : t[i] = s[i - 1]
  BY <1>1
<1>3. Members(t) = Members(s) \cup {p}
  <2>1. ASSUME NEW b \in Members(t) PROVE b \in Members(s) \cup {p}
    <3>1. PICK i \in 1 .. Len(s) + 1 : b = t[i]
      BY <1>2, <2>1 DEF Members
    <3>2. CASE i = 1
      BY <1>2, <3>1, <3>2
    <3>3. CASE i # 1
      <4>1. i \in 2 .. Len(s) + 1 /\ i - 1 \in DOMAIN s
        BY <1>1, <3>3
      <4> QED
        BY <1>2, <3>1, <4>1 DEF Members
    <3> QED
      BY <3>2, <3>3
  <2>2. p \in Members(t)
    BY <1>1, <1>2 DEF Members
  <2>3. ASSUME NEW b \in Members(s) PROVE b \in Members(t)
    <3>1. PICK i \in 1 .. Len(s) : b = s[i]
      BY <1>1, <2>3 DEF Members
    <3>2. i + 1 \in 2 .. Len(s) + 1 /\ (i + 1) - 1 = i /\ i + 1 \in DOMAIN t
      BY <1>1, <1>2
    <3> QED
      BY <1>2, <3>1, <3>2 DEF Members
  <2> QED
    BY <2>1, <2>2, <2>3
<1>4. Injective(t)
  <2> SUFFICES ASSUME NEW i \in 1 .. Len(s) + 1, NEW j \in 1 .. Len(s) + 1, t[i] = t[j]
               PROVE  i = j
    BY <1>2 DEF Injective
  <2>1. CASE i = 1 /\ j = 1
    BY <2>1
  <2>2. CASE i # 1 /\ j # 1
    <3>1. i \in 2 .. Len(s) + 1 /\ j \in 2 .. Len(s) + 1 /\ i - 1 \in DOMAIN s /\ j - 1 \in DOMAIN s
      BY <1>1, <2>2
    <3>2. s[i - 1] = s[j - 1]
      BY <1>2, <3>1
    <3>3. i - 1 = j - 1
      BY <3>1, <3>2 DEF Injective
    <3> QED
      BY <1>1, <3>3
  <2>3. ASSUME NEW k \in 1 .. Len(s) + 1, k # 1 PROVE t[k] \in Members(s)
    <3>1. k \in 2 .. Len(s) + 1 /\ k - 1 \in DOMAIN s
      BY <1>1, <2>3
    <3> QED
      BY <1>2, <3>1 DEF Members
  <2> QED
    BY <1>2, <2>1, <2>2, <2>3
<1> QED
  BY <1>2, <1>3, <1>4

(***************************************************************************)
(* The steps                                                               *)
(***************************************************************************)
\* Before the first request there are no blocks, nor after exit().
LEMMA Empty ==
  ASSUME mem' = [b \in Block |-> None], cache' = [c \in Class |-> <<>>], fast' = <<>>,
         used' = {}
  PROVE  IInv'
<1>1. BlockTypes'
  BY AllocAssumption DEF BlockTypes
<1>2. InCache' = {} /\ Malloced' = {} /\ Members(fast') = {}
      /\ \A c \in Class : Members(cache'[c]) = {}
  BY DEF InCache, Malloced, Members
<1>3. OnePlace' /\ CachedBit' /\ ClassRoom' /\ NothingLeft'
  BY <1>2 DEF OnePlace, CachedBit, ClassRoom, NothingLeft, Injective
<1> QED
  BY <1>1, <1>3 DEF IInv

\* emalloc() takes a block that is in one cache, and nowhere else.
LEMMA EmallocCachedStep ==
  ASSUME IInv, NEW size \in Size, EmallocCached(size)
  PROVE  IInv'
<1> DEFINE c == Index(size)
           p == cache[c][Len(cache[c])]
<1>1. BlockTypes /\ OnePlace /\ CachedBit /\ ClassRoom /\ stage' = "request"
      /\ c \in Class /\ cache[c] \in Seq(Block) /\ cache[c] # <<>> /\ Injective(cache[c])
      /\ cache' = [cache EXCEPT ![c] = SubSeq(@, 1, Len(@) - 1)]
      /\ mem' = [mem EXCEPT ![p].persistent = FALSE, ![p].cached = FALSE, ![p].size = size]
      /\ used' = used \cup {p} /\ fast' = fast /\ shrunk' = shrunk
  BY DEF IInv, EmallocCached, Running, BlockTypes, OnePlace, ghosts
<1>2. p \in Members(cache[c]) /\ p \in Block /\ cache'[c] \in Seq(Block)
      /\ Len(cache'[c]) <= Len(cache[c])
      /\ Members(cache'[c]) = Members(cache[c]) \ {p} /\ Injective(cache'[c])
  BY <1>1, Popped DEF BlockTypes
<1>3. \A d \in Class : d # c => cache'[d] = cache[d] /\ p \notin Members(cache[d])
  BY <1>1, <1>2 DEF BlockTypes, OnePlace
<1>4. \A d \in Class : Members(cache'[d]) = Members(cache[d]) \ {p}
  BY <1>2, <1>3
<1>5. InCache' = InCache \ {p} /\ p \in InCache
  BY <1>1, <1>2, <1>4 DEF InCache
<1>6. p \in Malloced /\ mem[p] \in Headers /\ Index(mem[p].size) = c
  BY <1>1, <1>2, <1>5 DEF OnePlace, Malloced, BlockTypes, CachedBit
<1>7. /\ mem' \in [Block -> {None} \cup Headers]
      /\ mem'[p] \in Headers /\ mem'[p].size = size /\ mem'[p].cached = FALSE
      /\ mem'[p].room = mem[p].room
      /\ \A b \in Block : b # p => mem'[b] = mem[b]
  BY <1>1, <1>2, <1>6 DEF BlockTypes, Headers
<1>8. Malloced' = Malloced
  BY <1>2, <1>6, <1>7, AllocAssumption DEF Malloced
<1>9. BlockTypes'
  <2>1. cache' \in [Class -> Seq(Block)] /\ \A d \in Class : Len(cache'[d]) <= MaxCachedEntries
    <3>1. Len(cache'[c]) <= MaxCachedEntries
      BY <1>1, <1>2, AllocAssumption DEF BlockTypes
    <3> QED
      BY <1>1, <1>2, <1>3, <3>1 DEF BlockTypes
  <2> QED
    BY <1>1, <1>2, <1>7, <2>1 DEF BlockTypes
<1>10. OnePlace'
  <2>1. used' \cap (InCache' \cup Members(fast')) = {} /\ InCache' \cap Members(fast') = {}
    BY <1>1, <1>5 DEF OnePlace
  <2>2. \A d, e \in Class : d # e => Members(cache'[d]) \cap Members(cache'[e]) = {}
    BY <1>1, <1>4 DEF OnePlace
  <2>3. Injective(fast') /\ \A d \in Class : Injective(cache'[d])
    BY <1>1, <1>2, <1>3 DEF OnePlace
  <2>4. used' \cup InCache' \cup Members(fast') \subseteq Malloced'
    BY <1>1, <1>5, <1>6, <1>8 DEF OnePlace
  <2> QED
    BY <2>1, <2>2, <2>3, <2>4 DEF OnePlace
<1>11. CachedBit'
  <2>1. \A b \in Malloced' : mem'[b].cached <=> b \in InCache'
    BY <1>1, <1>5, <1>7, <1>8 DEF CachedBit, Malloced
  <2>2. ASSUME NEW d \in Class, NEW b \in Members(cache'[d]) PROVE Index(mem'[b].size) = d
    <3>1. b \in Members(cache[d]) /\ b # p
      BY <1>4, <2>2
    <3>2. b \in Block
      BY <1>1, <3>1 DEF Members, BlockTypes
    <3> QED
      BY <1>1, <1>7, <3>1, <3>2 DEF CachedBit
  <2> QED
    BY <2>1, <2>2 DEF CachedBit
<1>12. ClassRoom'
  <2>1. RealSize(mem'[p].size) = RealSize(mem[p].size)
    BY <1>6, <1>7 DEF RealSize
  <2> QED
    BY <1>1, <1>6, <1>7, <1>8, <2>1 DEF ClassRoom, Malloced
<1> QED
  BY <1>1, <1>9, <1>10, <1>11, <1>12 DEF IInv, NothingLeft

\* emalloc() takes a block nobody has; a refused one is just not given out.
LEMMA EmallocNewStep ==
  ASSUME IInv, NEW size \in Size, EmallocNew(size)
  PROVE  IInv'
<1>1. PICK p \in Block \ Malloced :
        LET m == [mem EXCEPT ![p] = Header(size)] IN
        \/ /\ mem' = m /\ Granted(RealSize(size)) /\ used' = used \cup {p}
           /\ UNCHANGED <<stage, cache, fast, limit>>
        \/ /\ mem' = m /\ Refused(RealSize(size))
           /\ UNCHANGED <<stage, cache, fast, used, limit, shrunk>>
        \/ ExitTooFar(RealSize(size), m)
  BY DEF EmallocNew
<1>2. CASE mem' = [mem EXCEPT ![p] = Header(size)] /\ used' \in {used, used \cup {p}}
           /\ cache' = cache /\ fast' = fast /\ shrunk' = shrunk /\ stage' = stage
  <2>1. BlockTypes /\ OnePlace /\ CachedBit /\ ClassRoom /\ stage' = "request" /\ mem[p] = None
    BY <1>1, <1>2 DEF IInv, EmallocNew, Running, Malloced
  <2>2. Header(size) \in Headers /\ Header(size).cached = FALSE
        /\ RealSize(Header(size).size) <= Header(size).room
    BY RoundsUp DEF Header, Headers
  <2>3. mem' \in [Block -> {None} \cup Headers] /\ mem'[p] = Header(size)
        /\ \A b \in Block : b # p => mem'[b] = mem[b]
    BY <1>2, <2>1, <2>2 DEF BlockTypes
  <2>4. Malloced' = Malloced \cup {p} /\ InCache' = InCache
    BY <1>2, <2>2, <2>3, AllocAssumption DEF Malloced, InCache
  <2>5. p \notin used /\ p \notin InCache /\ p \notin Members(fast)
    BY <1>1, <2>1 DEF OnePlace
  <2>6. BlockTypes' /\ OnePlace'
    BY <1>2, <2>1, <2>3, <2>4, <2>5 DEF BlockTypes, OnePlace
  <2>7. CachedBit'
    BY <1>2, <2>1, <2>2, <2>3, <2>4, <2>5 DEF CachedBit, InCache, BlockTypes, Malloced
  <2>8. ClassRoom'
    BY <1>2, <2>1, <2>2, <2>3, <2>4 DEF ClassRoom, Malloced
  <2> QED
    BY <2>1, <2>6, <2>7, <2>8 DEF IInv, NothingLeft
<1>3. CASE ExitTooFar(RealSize(size), [mem EXCEPT ![p] = Header(size)])
  BY <1>3, Empty DEF ExitTooFar
<1> QED
  BY <1>1, <1>2, <1>3 DEF Granted, Refused, ghosts

\* efree() moves a block from the code to the cache of its size.
LEMMA EfreeCachedStep ==
  ASSUME IInv, NEW p \in Block, EfreeCached(p)
  PROVE  IInv'
<1> DEFINE c == Index(mem[p].size)
<1>1. BlockTypes /\ OnePlace /\ CachedBit /\ ClassRoom /\ stage' = "request"
      /\ c \in Class /\ cache[c] \in Seq(Block) /\ Injective(cache[c]) /\ p \in used
      /\ Len(cache[c]) < MaxCachedEntries
      /\ cache' = [cache EXCEPT ![c] = Append(@, p)]
      /\ mem' = [mem EXCEPT ![p].cached = TRUE]
      /\ used' = used \ {p} /\ fast' = fast /\ shrunk' = shrunk
  BY DEF IInv, EfreeCached, Running, BlockTypes, OnePlace, ghosts
<1>2. p \in Malloced /\ mem[p] \in Headers /\ p \notin InCache /\ p \notin Members(fast)
  BY <1>1 DEF OnePlace, Malloced, BlockTypes
<1>3. cache'[c] = Append(cache[c], p) /\ \A d \in Class : d # c => cache'[d] = cache[d]
  BY <1>1 DEF BlockTypes
<1>4. cache'[c] \in Seq(Block) /\ Len(cache'[c]) = Len(cache[c]) + 1
      /\ Members(cache'[c]) = Members(cache[c]) \cup {p} /\ Injective(cache'[c])
  BY <1>1, <1>2, <1>3, Pushed DEF InCache
<1>5. InCache' = InCache \cup {p}
  BY <1>1, <1>3, <1>4 DEF InCache
<1>6. /\ mem' \in [Block -> {None} \cup Headers]
      /\ mem'[p] \in Headers /\ mem'[p].size = mem[p].size /\ mem'[p].cached = TRUE
      /\ mem'[p].room = mem[p].room
      /\ \A b \in Block : b # p => mem'[b] = mem[b]
  BY <1>1, <1>2 DEF BlockTypes, Headers
<1>7. Malloced' = Malloced
  BY <1>2, <1>6, AllocAssumption DEF Malloced
<1>8. BlockTypes'
  <2>1. cache' \in [Class -> Seq(Block)] /\ \A d \in Class : Len(cache'[d]) <= MaxCachedEntries
    <3>1. Len(cache'[c]) <= MaxCachedEntries
      BY <1>1, <1>4, AllocAssumption DEF BlockTypes
    <3> QED
      BY <1>1, <1>3, <1>4, <3>1 DEF BlockTypes
  <2> QED
    BY <1>1, <1>6, <2>1 DEF BlockTypes
<1>9. OnePlace'
  <2>1. \A d \in Class : p \notin Members(cache[d])
    BY <1>2 DEF InCache
  <2>2. \A d, e \in Class : d # e => Members(cache'[d]) \cap Members(cache'[e]) = {}
    BY <1>1, <1>3, <1>4, <2>1 DEF OnePlace
  <2> QED
    <3>1. \A d \in Class : Injective(cache'[d])
      BY <1>1, <1>3, <1>4 DEF OnePlace
    <3>2. used' \cap (InCache' \cup Members(fast')) = {} /\ InCache' \cap Members(fast') = {}
      BY <1>1, <1>2, <1>5 DEF OnePlace
    <3>3. used' \cup InCache' \cup Members(fast') \subseteq Malloced' /\ Injective(fast')
      BY <1>1, <1>2, <1>5, <1>7 DEF OnePlace
    <3> QED
      BY <2>2, <3>1, <3>2, <3>3 DEF OnePlace
<1>10. CachedBit'
  <2>1. \A b \in Malloced' : mem'[b].cached <=> b \in InCache'
    BY <1>1, <1>5, <1>6, <1>7 DEF CachedBit, Malloced
  <2>2. ASSUME NEW d \in Class, NEW b \in Members(cache'[d]) PROVE Index(mem'[b].size) = d
    <3>1. CASE b = p
      BY <1>2, <1>3, <1>4, <1>6, <2>2, <3>1 DEF InCache
    <3>2. CASE b # p
      <4>1. b \in Members(cache[d]) /\ b \in Block
        BY <1>1, <1>3, <1>4, <2>2, <3>2 DEF Members, BlockTypes
      <4> QED
        BY <1>1, <1>6, <3>2, <4>1 DEF CachedBit
    <3> QED
      BY <3>1, <3>2
  <2> QED
    BY <2>1, <2>2 DEF CachedBit
<1>11. ClassRoom'
  BY <1>1, <1>6, <1>7 DEF ClassRoom, Malloced
<1> QED
  BY <1>1, <1>8, <1>9, <1>10, <1>11 DEF IInv, NothingLeft

\* efree() returns a block that is in no cache.
LEMMA EfreeReturnedStep ==
  ASSUME IInv, NEW p \in Block, EfreeReturned(p)
  PROVE  IInv'
<1>1. BlockTypes /\ OnePlace /\ CachedBit /\ ClassRoom /\ stage' = "request" /\ p \in used
      /\ mem' = [mem EXCEPT ![p] = None]
      /\ used' = used \ {p} /\ cache' = cache /\ fast' = fast /\ shrunk' = shrunk
  BY DEF IInv, EfreeReturned, Running, ghosts
<1>2. mem' \in [Block -> {None} \cup Headers] /\ Malloced' = Malloced \ {p}
      /\ (\A b \in Block : b # p => mem'[b] = mem[b]) /\ InCache' = InCache
  BY <1>1 DEF BlockTypes, Malloced, InCache
<1>3. p \notin InCache /\ p \notin Members(fast)
  BY <1>1 DEF OnePlace
<1>4. BlockTypes' /\ OnePlace'
  BY <1>1, <1>2, <1>3 DEF BlockTypes, OnePlace
<1>5. CachedBit'
  <2>1. \A d \in Class : \A b \in Members(cache[d]) : b \in Block /\ b # p
    BY <1>1, <1>3 DEF InCache, Members, BlockTypes
  <2> QED
    BY <1>1, <1>2, <2>1 DEF CachedBit, Malloced
<1>6. ClassRoom'
  BY <1>1, <1>2 DEF ClassRoom, Malloced
<1> QED
  BY <1>1, <1>4, <1>5, <1>6 DEF IInv, NothingLeft

\* erealloc() moves a block nobody else has; a bailout leaves it room for its old size,
\* unless it has become smaller.
LEMMA EreallocStep ==
  ASSUME IInv, NEW p \in Block, NEW size \in Size, Erealloc(p, size)
  PROVE  IInv'
<1> DEFINE more == RealSize(size) - RealSize(mem[p].size)
           moved(q, s) == [[mem EXCEPT ![p] = None]
                             EXCEPT ![q] = [mem[p] EXCEPT !.size = s, !.room = RealSize(size)]]
<1>1. PICK q \in {p} \cup (Block \ Malloced) :
        \/ /\ mem' = moved(q, size) /\ Granted(more) /\ used' = (used \ {p}) \cup {q}
           /\ UNCHANGED <<stage, cache, fast, limit>>
        \/ /\ mem' = moved(q, mem[p].size) /\ Refused(more)
           /\ used' = IF q = p THEN used ELSE used \ {p}
           /\ shrunk' = (shrunk \/ more < 0)
           /\ UNCHANGED <<stage, cache, fast, limit>>
        \/ ExitTooFar(more, moved(q, size))
  BY DEF Erealloc
<1>2. BlockTypes /\ OnePlace /\ CachedBit /\ ClassRoom /\ p \in used /\ q \in Block
      /\ stage = "request"
  BY <1>1 DEF IInv, Erealloc, Running
<1>3. p \in Malloced /\ mem[p] \in Headers /\ mem[p].size \in Size
      /\ p \notin InCache /\ p \notin Members(fast) /\ mem[p].cached = FALSE
  BY <1>2 DEF OnePlace, Malloced, BlockTypes, CachedBit, Headers
<1>4. q \notin InCache /\ q \notin Members(fast) /\ q \notin used \ {p}
  BY <1>1, <1>2, <1>3 DEF OnePlace
<1>5. RealSize(size) \in Nat /\ RealSize(mem[p].size) \in Nat
  BY <1>3, RoundsUp
<1>6. ASSUME NEW s \in {size, mem[p].size}, mem' = moved(q, s),
             used' \subseteq (used \ {p}) \cup {q},
             cache' = cache, fast' = fast, stage' = stage,
             ~shrunk' => ~shrunk /\ RealSize(s) <= RealSize(size)
      PROVE  IInv'
  <2> DEFINE h == [mem[p] EXCEPT !.size = s, !.room = RealSize(size)]
  <2>1. h \in Headers /\ h.size = s /\ h.room = RealSize(size) /\ h.cached = FALSE
    BY <1>3, <1>5 DEF Headers
  <2>2. mem' \in [Block -> {None} \cup Headers] /\ mem'[q] = h
        /\ (\A b \in Block : b # p /\ b # q => mem'[b] = mem[b])
        /\ (q # p => mem'[p] = None)
    BY <1>2, <1>6, <2>1 DEF BlockTypes
  <2>3. Malloced' = (Malloced \ {p}) \cup {q} /\ InCache' = InCache
    BY <1>2, <1>6, <2>1, <2>2, AllocAssumption DEF Malloced, InCache
  <2>4. BlockTypes' /\ OnePlace'
    BY <1>2, <1>3, <1>4, <1>6, <2>2, <2>3 DEF BlockTypes, OnePlace
  <2>5. CachedBit'
    <3>1. \A d \in Class : \A b \in Members(cache[d]) : b \in Block /\ b # p /\ b # q
      BY <1>2, <1>3, <1>4 DEF InCache, Members, BlockTypes
    <3>2. \A b \in Malloced' : mem'[b].cached <=> b \in InCache'
      <4>1. \A b \in Malloced \ {p} : b # q => (mem'[b].cached <=> b \in InCache)
        BY <1>2, <2>2 DEF CachedBit, Malloced
      <4>2. mem'[q].cached = FALSE /\ q \notin InCache
        BY <1>4, <2>1, <2>2
      <4> QED
        BY <2>3, <4>1, <4>2
    <3>3. \A d \in Class : \A b \in Members(cache[d]) : Index(mem'[b].size) = d
      BY <1>2, <2>2, <3>1 DEF CachedBit
    <3> QED
      BY <1>6, <3>2, <3>3 DEF CachedBit
  <2>6. ClassRoom'
    BY <1>2, <1>6, <2>1, <2>2, <2>3 DEF ClassRoom, Malloced
  <2> QED
    BY <1>2, <1>6, <2>4, <2>5, <2>6 DEF IInv, NothingLeft
<1>7. CASE mem' = moved(q, size) /\ Granted(more) /\ used' = (used \ {p}) \cup {q}
           /\ UNCHANGED <<stage, cache, fast, limit>>
  <2>1. shrunk' = shrunk
    BY <1>7 DEF Granted, ghosts
  <2>2. ~shrunk' => ~shrunk /\ RealSize(size) <= RealSize(size)
    BY <1>5, <2>1
  <2> QED
    BY <1>6, <1>7, <2>2
<1>8. CASE mem' = moved(q, mem[p].size) /\ (used' = IF q = p THEN used ELSE used \ {p})
           /\ shrunk' = (shrunk \/ more < 0) /\ UNCHANGED <<stage, cache, fast, limit>>
  <2>1. ~shrunk' => ~shrunk /\ RealSize(mem[p].size) <= RealSize(size)
    <3> SUFFICES ASSUME ~shrunk' PROVE ~shrunk /\ RealSize(mem[p].size) <= RealSize(size)
      OBVIOUS
    <3>1. ~shrunk /\ ~(more < 0)
      <4> HIDE DEF more
      <4> QED
        BY <1>8
    <3> QED
      BY <1>5, <3>1
  <2>2. used' \subseteq (used \ {p}) \cup {q}
    BY <1>8
  <2> QED
    BY <1>6, <1>8, <2>1, <2>2
<1>9. CASE ExitTooFar(more, moved(q, size))
  BY <1>9, Empty DEF ExitTooFar
<1> QED
  BY <1>1, <1>7, <1>8, <1>9

\* persist_alloc() changes one bit of a block in use.
LEMMA PersistStep ==
  ASSUME IInv, NEW p \in Block, PersistAlloc(p)
  PROVE  IInv'
<1>1. BlockTypes /\ OnePlace /\ CachedBit /\ ClassRoom /\ stage' = "request" /\ p \in used
      /\ mem' = [mem EXCEPT ![p].persistent = TRUE]
      /\ used' = used /\ cache' = cache /\ fast' = fast /\ shrunk' = shrunk
  BY DEF IInv, PersistAlloc, Running, ghosts
<1>2. mem[p] \in Headers
  BY <1>1 DEF OnePlace, Malloced, BlockTypes
<1>3. /\ mem' \in [Block -> {None} \cup Headers]
      /\ mem'[p] \in Headers /\ mem'[p].size = mem[p].size /\ mem'[p].room = mem[p].room
      /\ mem'[p].cached = mem[p].cached
      /\ \A b \in Block : b # p => mem'[b] = mem[b]
  BY <1>1, <1>2 DEF BlockTypes, Headers
<1>4. Malloced' = Malloced /\ InCache' = InCache
  BY <1>1, <1>2, <1>3, AllocAssumption DEF Malloced, InCache
<1>5. BlockTypes' /\ OnePlace'
  BY <1>1, <1>3, <1>4 DEF BlockTypes, OnePlace
<1>6. CachedBit'
  <2>1. \A d \in Class : \A b \in Members(cache[d]) : b \in Block
    BY <1>1 DEF Members, BlockTypes
  <2>2. \A b \in Block : mem'[b].size = mem[b].size /\ mem'[b].cached = mem[b].cached
    BY <1>3
  <2> QED
    BY <1>1, <1>4, <2>1, <2>2 DEF CachedBit, Malloced
<1>7. ClassRoom'
  BY <1>1, <1>3, <1>4 DEF ClassRoom, Malloced
<1> QED
  BY <1>1, <1>5, <1>6, <1>7 DEF IInv, NothingLeft

\* The fast cache takes blocks from the code, and gives them back, one by one.
LEMMA FastStep ==
  ASSUME IInv, FastAlloc \/ \E p \in Block : FastFree(p)
  PROVE  IInv'
<1>1. BlockTypes /\ OnePlace /\ CachedBit /\ ClassRoom /\ stage' = "request"
      /\ mem' = mem /\ cache' = cache /\ shrunk' = shrunk
      /\ fast \in Seq(Block) /\ Injective(fast)
  BY DEF IInv, FastAlloc, FastFree, Running, ghosts, BlockTypes, OnePlace
<1>2. Malloced' = Malloced /\ InCache' = InCache
  BY <1>1 DEF Malloced, InCache
<1>3. CachedBit' /\ ClassRoom' /\ NothingLeft'
  BY <1>1, <1>2 DEF CachedBit, ClassRoom, NothingLeft
<1>4. CASE FastAlloc
  <2>1. fast # <<>> /\ fast' = Tail(fast) /\ used' = used \cup {Head(fast)}
    BY <1>4 DEF FastAlloc
  <2>2. Head(fast) \in Members(fast) /\ Head(fast) \in Block /\ fast' \in Seq(Block)
        /\ Members(fast') = Members(fast) \ {Head(fast)} /\ Injective(fast')
    BY <1>1, <2>1, Taken
  <2>3. BlockTypes' /\ OnePlace'
    BY <1>1, <1>2, <2>1, <2>2 DEF BlockTypes, OnePlace
  <2> QED
    BY <1>3, <2>3 DEF IInv
<1>5. CASE \E p \in Block : FastFree(p)
  <2>1. PICK p \in Block : p \in used /\ fast' = <<p>> \o fast /\ used' = used \ {p}
    BY <1>5 DEF FastFree
  <2>2. p \notin Members(fast) /\ p \notin InCache /\ p \in Malloced
    BY <1>1, <2>1 DEF OnePlace
  <2>3. fast' \in Seq(Block) /\ Members(fast') = Members(fast) \cup {p} /\ Injective(fast')
    BY <1>1, <2>1, <2>2, Put
  <2>4. BlockTypes' /\ OnePlace'
    BY <1>1, <1>2, <2>1, <2>2, <2>3 DEF BlockTypes, OnePlace
  <2> QED
    BY <1>3, <2>4 DEF IInv
<1> QED
  BY <1>4, <1>5

\* The end of a request keeps the persistent blocks, and the cached ones of size 0.
LEMMA ShutdownStep ==
  ASSUME IInv, Shutdown
  PROVE  IInv'
<1>1. BlockTypes /\ OnePlace /\ CachedBit /\ ClassRoom /\ fast' = <<>>
      /\ cache' = [c \in Class |-> IF c = 0 THEN cache[c] ELSE <<>>]
      /\ mem' = [b \in Block |-> IF b \in Emptied \cup Leaked THEN None ELSE mem[b]]
      /\ used' = used \ Leaked /\ shrunk' = shrunk
  BY DEF IInv, Shutdown
<1>2. BlockTypes'
  BY <1>1, AllocAssumption DEF BlockTypes
<1>3. Malloced' = Malloced \ (Emptied \cup Leaked)
      /\ \A b \in Malloced' : mem'[b] = mem[b]
  BY <1>1 DEF Malloced
<1>4. /\ \A d \in Class : d = 0 => Members(cache'[d]) = Members(cache[d])
      /\ \A d \in Class : d # 0 => Members(cache'[d]) = {}
      /\ Members(fast') = {}
  BY <1>1 DEF Members
<1>5. ASSUME NEW b \in InCache, b \notin Emptied PROVE 0 \in Class /\ b \in Members(cache[0])
  BY <1>1, <1>5 DEF InCache, Emptied
<1>6. InCache' = InCache \ Emptied
  <2>1. ASSUME NEW b \in InCache' PROVE b \in InCache /\ b \notin Emptied
    <3>1. b \in Block /\ 0 \in Class /\ b \in Members(cache[0])
      BY <1>4, <2>1 DEF InCache
    <3>2. \A d \in Class : d # 0 => b \notin Members(cache[d])
      BY <1>1, <3>1 DEF OnePlace
    <3> QED
      BY <1>1, <3>1, <3>2 DEF InCache, Emptied, OnePlace
  <2>2. ASSUME NEW b \in InCache, b \notin Emptied PROVE b \in InCache'
    BY <1>4, <1>5, <2>2 DEF InCache
  <2> QED
    BY <2>1, <2>2
<1>7. InCache' \cap Leaked = {} /\ used \cap Emptied = {}
  BY <1>1, <1>6 DEF Leaked, CachedBit, OnePlace, Emptied, InCache
<1>8. OnePlace'
  <2>1. used' \cap InCache' = {} /\ used' \cup InCache' \subseteq Malloced'
    BY <1>1, <1>3, <1>6, <1>7 DEF OnePlace
  <2>2. \A c \in Class : Injective(cache'[c])
    BY <1>1 DEF OnePlace, Injective
  <2>3. \A c, d \in Class : c # d => Members(cache'[c]) \cap Members(cache'[d]) = {}
    BY <1>4
  <2> QED
    BY <1>1, <1>4, <2>1, <2>2, <2>3 DEF OnePlace, Injective
<1>9. CachedBit'
  <2>1. \A b \in Malloced' : mem'[b].cached <=> b \in InCache'
    BY <1>1, <1>3, <1>6 DEF CachedBit
  <2>2. ASSUME NEW d \in Class, NEW b \in Members(cache'[d]) PROVE Index(mem'[b].size) = d
    <3>1. d = 0 /\ b \in Members(cache[0])
      BY <1>4, <2>2
    <3>2. b \in Block /\ b \in InCache'
      BY <1>1, <2>2, <3>1 DEF InCache, Members, BlockTypes
    <3>3. mem'[b] = mem[b]
      BY <1>1, <1>6, <1>7, <3>2
    <3> QED
      BY <1>1, <3>1, <3>3 DEF CachedBit
  <2> QED
    BY <2>1, <2>2 DEF CachedBit
<1>10. ClassRoom'
  BY <1>1, <1>3 DEF ClassRoom
<1>11. NothingLeft'
  <2>1. ASSUME NEW b \in Malloced' PROVE mem'[b].persistent \/ b \in Members(cache'[0])
    <3>1. b \in Malloced /\ b \notin Emptied /\ b \notin Leaked /\ mem'[b] = mem[b]
      BY <1>3, <2>1
    <3>2. mem[b].persistent \/ b \in InCache
      BY <1>1, <3>1 DEF Leaked, CachedBit
    <3> QED
      BY <1>4, <1>5, <3>1, <3>2
  <2> QED
    BY <2>1 DEF NothingLeft
<1> QED
  BY <1>2, <1>8, <1>9, <1>10, <1>11 DEF IInv

\* Steps that leave the blocks alone.
LEMMA BlocksUnchanged ==
  ASSUME IInv, UNCHANGED blocks, shrunk' = shrunk, stage' = "request" \/ stage' = stage
  PROVE  IInv'
<1>1. mem' = mem /\ cache' = cache /\ fast' = fast /\ used' = used
  BY DEF blocks
<1>2. Malloced' = Malloced /\ InCache' = InCache
  BY <1>1 DEF Malloced, InCache
<1> QED
  BY <1>1, <1>2 DEF IInv, BlockTypes, OnePlace, CachedBit, ClassRoom, NothingLeft

-----------------------------------------------------------------------------
\* The blocks of the memory manager are where its headers and caches say they are,
\* whatever scripts allocate, whenever memory_limit or exit() strikes.
THEOREM Invariant == AllocSpec => []IInv
<1>1. AllocInit => IInv
  <2> SUFFICES ASSUME AllocInit PROVE IInv
    OBVIOUS
  <2>1. BlockTypes
    BY AllocAssumption DEF AllocInit, BlockTypes
  <2>2. InCache = {} /\ Malloced = {} /\ Members(fast) = {}
        /\ \A c \in Class : Members(cache[c]) = {}
    BY DEF AllocInit, InCache, Malloced, Members
  <2>3. OnePlace /\ CachedBit /\ ClassRoom /\ NothingLeft
    BY <2>2 DEF AllocInit, OnePlace, CachedBit, ClassRoom, NothingLeft, Injective
  <2> QED
    BY <2>1, <2>3 DEF IInv
<1>2. IInv /\ [AllocNext]_vbls => IInv'
  <2> SUFFICES ASSUME IInv, [AllocNext]_vbls PROVE IInv'
    OBVIOUS
  <2>1. CASE Begin
    BY <2>1, BlocksUnchanged DEF Begin
  <2>2. CASE FastAlloc \/ \E p \in Block : FastFree(p)
    BY <2>2, FastStep
  <2>3. CASE Shutdown
    BY <2>3, ShutdownStep
  <2>4. CASE \E size \in Size : EmallocCached(size) \/ EmallocNew(size)
    BY <2>4, EmallocCachedStep, EmallocNewStep
  <2>5. CASE \E p \in Block : EfreeCached(p) \/ EfreeReturned(p)
    BY <2>5, EfreeCachedStep, EfreeReturnedStep
  <2>6. CASE \E p \in Block : PersistAlloc(p)
    BY <2>6, PersistStep
  <2>7. CASE \E p \in Block, size \in Size : Erealloc(p, size)
    BY <2>7, EreallocStep
  <2>8. CASE \E n \in Limits : SetMemoryLimit(n)
    BY <2>8, BlocksUnchanged DEF SetMemoryLimit, ghosts
  <2>9. CASE UNCHANGED vbls
    BY <2>9, BlocksUnchanged DEF vbls, ghosts
  <2> QED
    BY <2>1, <2>2, <2>3, <2>4, <2>5, <2>6, <2>7, <2>8, <2>9 DEF AllocNext
<1> QED
  BY <1>1, <1>2, PTL DEF AllocSpec

\* emalloc() and the fast cache never give a block to two.
THEOREM NoBlockTwice == AllocSpec => []OnePlace
<1>1. IInv => OnePlace
  BY DEF IInv
<1> QED
  BY <1>1, Invariant, PTL

\* Whoever has a block has room for what it asked for.
THEOREM Room == AllocSpec => []RoomEnough
<1>1. IInv => RoomEnough
  <2> SUFFICES ASSUME IInv, ~shrunk, NEW b \in Malloced PROVE mem[b].size <= mem[b].room
    BY DEF RoomEnough
  <2>1. mem[b] \in Headers /\ RealSize(mem[b].size) <= mem[b].room
    BY DEF IInv, BlockTypes, ClassRoom, Malloced
  <2>2. mem[b].size \in Size /\ mem[b].size \in Nat /\ mem[b].room \in Nat
    BY <2>1, AllocAssumption DEF Headers, Size
  <2> QED
    BY <2>1, <2>2, RoundsUp
<1> QED
  BY <1>1, Invariant, PTL

\* A request leaves no memory behind.
THEOREM RequestsEndClean == AllocSpec => []NothingLeft
<1>1. IInv => NothingLeft
  BY DEF IInv
<1> QED
  BY <1>1, Invariant, PTL
-----------------------------------------------------------------------------
(***************************************************************************)
(* Counting modulo 2^32                                                    *)
(***************************************************************************)
LEMMA ModType == ASSUME NEW x \in Int PROVE x % Width \in 0 .. Width - 1 /\ x % Width \in Int
  BY AllocAssumption

LEMMA Mod ==
  ASSUME NEW x \in Int
  PROVE  \E k \in Int : x = (x % Width) + k * Width /\ (x >= 0 => k >= 0)
<1> DEFINE k == x \div Width
<1>1. Width \in Nat /\ Width > 0
  BY AllocAssumption
<1>2. k \in Int /\ x = Width * k + (x % Width) /\ 0 <= x % Width /\ x % Width < Width /\ x % Width \in Int
  BY <1>1
<1> HIDE DEF k
<1>3. Width * k = k * Width /\ k * Width \in Int
  BY <1>1, <1>2
<1>4. ASSUME x >= 0, k < 0 PROVE FALSE
  <2>1. k <= 0 - 1
    BY <1>2, <1>4
  <2>2. k * Width <= 0 - Width
    BY <1>1, <1>2, <2>1
  <2> QED
    BY <1>1, <1>2, <1>3, <1>4, <2>2
<1>5. k >= 0 \/ k < 0
  BY <1>2
<1> QED
  BY <1>2, <1>3, <1>4, <1>5

\* The remainder is the only number below 2^32 that differs by a multiple of it.
LEMMA OneRemainder ==
  ASSUME NEW x \in 0 .. Width - 1, NEW y \in 0 .. Width - 1, NEW k \in Int, x = y + k * Width
  PROVE  x = y
<1>1. Width \in Nat /\ Width > 0 /\ x \in Int /\ y \in Int
  BY AllocAssumption
<1>2. CASE k >= 1
  <2>1. k * Width >= Width
    BY <1>1, <1>2
  <2> QED
    BY <1>1, <2>1
<1>3. CASE k <= 0 - 1
  <2>1. k * Width <= 0 - Width
    BY <1>1, <1>3
  <2> QED
    BY <1>1, <2>1
<1>4. CASE k = 0
  BY <1>1, <1>4
<1> QED
  BY <1>2, <1>3, <1>4

\* A number that needs no more than the width is counted as it is, ...
LEMMA ModSmall ==
  ASSUME NEW x \in 0 .. Width - 1
  PROVE  x % Width = x
<1> DEFINE y == x % Width
<1>1. x \in Int /\ y \in 0 .. Width - 1
  BY AllocAssumption, ModType
<1>2. PICK k \in Int : x = y + k * Width
  BY <1>1, Mod
<1> HIDE DEF y
<1>3. x = y
  BY <1>1, <1>2, OneRemainder
<1> QED
  BY <1>3 DEF y

\* ... one that is not negative as no more than it is, ...
LEMMA ModAtMost ==
  ASSUME NEW x \in Nat
  PROVE  x % Width <= x
<1>1. PICK k \in Int : x = (x % Width) + k * Width /\ k >= 0
  BY Mod
<1>2. Width \in Nat /\ k \in Nat
  BY <1>1, AllocAssumption
<1>3. k * Width >= 0 /\ k * Width \in Int
  BY <1>2
<1>4. x % Width \in Int
  BY ModType
<1> QED
  BY <1>1, <1>3, <1>4

\* ... and what is added to the count is added to what it stands for.
LEMMA ModPlus ==
  ASSUME NEW x \in Int, NEW n \in Int
  PROVE  ((x % Width) + n) % Width = (x + n) % Width
<1> DEFINE a == x % Width
           b == (a + n) % Width
           c == (x + n) % Width
<1>1. Width \in Nat /\ a \in 0 .. Width - 1 /\ a \in Int
  BY AllocAssumption, ModType
<1>2. PICK k \in Int : x = a + k * Width
  BY Mod
<1>3. a + n \in Int /\ x + n \in Int
  BY <1>1
<1>4. PICK l \in Int : a + n = b + l * Width
  BY <1>3, Mod
<1>5. PICK m \in Int : x + n = c + m * Width
  BY <1>3, Mod
<1>6. b \in 0 .. Width - 1 /\ c \in 0 .. Width - 1 /\ b \in Int /\ c \in Int
  BY <1>1, <1>3, ModType
<1> HIDE DEF a, b, c
<1>7. k * Width \in Int /\ l * Width \in Int /\ m * Width \in Int
  BY <1>1
<1>8. c = b + (l * Width + k * Width - m * Width)
  BY <1>1, <1>2, <1>4, <1>5, <1>6, <1>7
<1>9. l * Width + k * Width - m * Width = (l + k - m) * Width
  BY <1>1
<1>10. l + k - m \in Int
  OBVIOUS
<1>11. c = b
  BY <1>6, <1>8, <1>9, <1>10, OneRemainder
<1> QED
  BY <1>11 DEF b, c, a

(***************************************************************************)
(* What the blocks take                                                    *)
(***************************************************************************)
Tables == [Block -> {None} \cup Headers]

LEMMA RoomType ==
  ASSUME NEW m \in Tables, NEW b \in Block
  PROVE  /\ Rooms(m)[b] = (IF m[b] = None THEN 0 ELSE m[b].room)
         /\ Rooms(m)[b] \in Nat /\ Rooms(m)[b] \in Int
<1>1. m[b] = None \/ m[b].room \in Nat
  BY DEF Tables, Headers
<1> QED
  BY <1>1 DEF Rooms

\* The memory is the sum over all addresses.
LEMMA MemoryIs ==
  ASSUME NEW m \in Tables
  PROVE  Memory(m) = SumFunctionOnSet(Rooms(m), Block)
BY DEF Memory, SumFunction, Rooms

LEMMA MemoryType ==
  ASSUME NEW m \in Tables
  PROVE  Memory(m) \in Nat /\ \A b \in Block : Rooms(m)[b] <= Memory(m)
<1>1. IsFiniteSet(Block) /\ \A b \in Block : Rooms(m)[b] \in Nat
  BY AllocAssumption, RoomType
<1> QED
  BY <1>1, MemoryIs, SumOfNaturals

\* It changes by what one block has more, ...
LEMMA OneBlock ==
  ASSUME NEW m \in Tables, NEW n \in Tables, NEW p \in Block,
         \A b \in Block : b # p => n[b] = m[b]
  PROVE  Memory(n) = Memory(m) - Rooms(m)[p] + Rooms(n)[p]
<1>1. IsFiniteSet(Block) /\ \A b \in Block : Rooms(m)[b] \in Int /\ Rooms(n)[b] \in Int
  BY AllocAssumption, RoomType
<1>2. \A b \in Block \ {p} : Rooms(m)[b] = Rooms(n)[b]
  BY RoomType
<1> QED
  BY <1>1, <1>2, MemoryIs, SumChanges

\* ... and not when the blocks and their room are the same.
LEMMA SameMemory ==
  ASSUME NEW m \in Tables, NEW n \in Tables,
         \A b \in Block : n[b] = None <=> m[b] = None,
         \A b \in Block : m[b] # None => n[b].room = m[b].room
  PROVE  Memory(n) = Memory(m)
<1>1. IsFiniteSet(Block) /\ \A b \in Block : Rooms(m)[b] \in Int
  BY AllocAssumption, RoomType
<1>2. \A b \in Block : Rooms(m)[b] = Rooms(n)[b]
  BY RoomType
<1> QED
  BY <1>1, <1>2, MemoryIs, SumSame

\* No limit is beyond the largest, which is one of them.
LEMMA MaxLimit == Max(Limits) \in Limits
<1>1. IsFiniteSet(Limits) /\ Limits # {} /\ Limits \subseteq Nat
  <2>1. Limits \subseteq 0 .. Width
    BY NoWrap, AllocAssumption
  <2>2. IsFiniteSet(0 .. Width)
    BY AllocAssumption, FS_Interval
  <2> QED
    BY <2>1, <2>2, AllocAssumption, FS_Subset
<1> DEFINE Above == [x \in Limits |-> {y \in Limits : y >= x}]
           C == {Above[x] : x \in Limits}
<1>2. IsFiniteSet(Limits) /\ C \subseteq SUBSET Limits /\ C # {}
  BY <1>1
<1>3. \A T \in C : \E x \in Limits : T = Above[x]
  OBVIOUS
<1>4. \A x \in Limits : Above[x] \in C
  OBVIOUS
<1>5. \A x \in Limits : Above[x] = {y \in Limits : y >= x}
  OBVIOUS
<1> HIDE DEF C, Above
<1>6. PICK T \in C : \A U \in C : U \subseteq T => U = T
  BY <1>2, Minimal
<1>7. PICK x \in Limits : T = Above[x]
  BY <1>3
<1>8. ASSUME NEW y \in Limits, ~(x >= y) PROVE FALSE
  <2>1. x \in Nat /\ y \in Nat /\ y >= x /\ x >= x
    BY <1>1, <1>8
  <2>2. \A z \in Limits : z >= y => z >= x
    BY <1>1, <2>1
  <2>3. Above[y] \subseteq Above[x]
    BY <1>5, <2>2, Zenon
  <2>4. x \in Above[x] /\ x \notin Above[y]
    BY <1>5, <1>8, <2>1, Zenon
  <2> QED
    BY <1>4, <1>6, <1>7, <2>3, <2>4
<1> QED
  BY <1>8 DEF Max

(***************************************************************************)
(* What a step does to the count                                           *)
(***************************************************************************)
LEMMA CountTypes ==
  ASSUME CountInv
  PROVE  /\ mem \in Tables /\ Memory(mem) \in Nat /\ allocated \in 0 .. Width - 1 /\ allocated \in Nat
         /\ limit \in Limits /\ limit \in Nat /\ Slack \in Nat /\ limit + Slack \in Nat
         /\ limit + Slack + MaxSize + Align <= Width /\ MaxSize + Align \in Nat
         /\ None \notin Int
<1>1. mem \in Tables
  BY DEF CountInv, CountRight, AllocTypeOK, BlockTypes, Tables
<1> QED
  BY <1>1, MemoryType, AllocAssumption, NoWrap DEF CountInv, CountRight, AllocTypeOK

\* A size rounded up is less than a unit larger.
LEMMA Rounded ==
  ASSUME NEW s \in Size
  PROVE  RealSize(s) \in Nat /\ RealSize(s) \in Int /\ RealSize(s) < MaxSize + Align
<1>1. Align \in Nat /\ Align > 0 /\ s \in Nat /\ s <= MaxSize /\ MaxSize \in Nat
  BY AllocAssumption DEF Size
<1> DEFINE q == (s + Align - 1) \div Align
<1>2. q \in Nat /\ Align * q <= s + Align - 1
  BY <1>1
<1>3. RealSize(s) = Align * q
  BY <1>1, <1>2 DEF RealSize, Index
<1> HIDE DEF q
<1>4. Align * q \in Nat
  BY <1>1, <1>2
<1> QED
  BY <1>1, <1>2, <1>3, <1>4

\* A script that is ended by the count of n bytes has more than the limit x, if the
\* request has been charged for its blocks only.
LEMMA Judging ==
  ASSUME CountInv, stage = "request", NEW m \in Tables, NEW n \in Int, NEW x \in Int,
         start = 0 => Memory(m) = Memory(mem) + n, Plus(n) > x
  PROVE  Judged(m, x) # "wrongly"
<1> SUFFICES ASSUME start = 0 PROVE Memory(m) > x
  BY DEF Judged
<1>1. Memory(mem) \in Nat /\ Memory(m) \in Nat /\ Memory(m) = Memory(mem) + n /\ None # 0
  BY CountTypes, MemoryType
<1>2. allocated = Memory(mem) % Width
  <2>1. allocated = (Memory(mem) + start) % Width
    BY <1>1 DEF CountInv, CountRight, Accounted
  <2>2. Memory(mem) + start = Memory(mem)
    BY <1>1
  <2> QED
    BY <2>1, <2>2
<1>3. Plus(n) = Memory(m) % Width
  BY <1>1, <1>2, ModPlus DEF Plus
<1>4. Plus(n) <= Memory(m) /\ Plus(n) \in Int
  BY <1>1, <1>3, ModAtMost, ModType
<1> QED
  BY <1>1, <1>4

\* A step that counts n bytes more, as long as it has not shrunk a block without saying
\* so, takes no more than these.
LEMMA Recount ==
  ASSUME CountInv, BlockTypes', stage = "request", stage' = "request", limit' = limit,
         NEW n \in Int, n < MaxSize + Align, allocated' = Plus(n),
         n <= 0 \/ Plus(n) <= limit + Slack,
         start' \in {start, None},
         start' # None => /\ Memory(mem') = Memory(mem) + n
                          /\ \A b \in Malloced' : mem'[b].room = RealSize(mem'[b].size),
         shrunk' \in BOOLEAN, ~shrunk' => ~shrunk /\ Memory(mem') <= Memory(mem) + n,
         refused' # "wrongly"
  PROVE  CountInv'
<1>1. mem' \in Tables /\ Memory(mem') \in Nat
  BY MemoryType DEF BlockTypes, Tables
<1>2. Plus(n) \in 0 .. Width - 1
  BY CountTypes, ModType DEF Plus
<1>3. AllocTypeOK'
  BY <1>2, CountTypes DEF AllocTypeOK
<1>4. Accounted'
  <2> SUFFICES ASSUME start' # None PROVE allocated' = (Memory(mem') + start') % Width
    BY DEF Accounted
  <2>1. start' = start /\ start \in Int /\ Memory(mem') = Memory(mem) + n
    BY DEF CountInv
  <2>2. allocated = (Memory(mem) + start) % Width
    BY <2>1 DEF CountInv, CountRight, Accounted
  <2>3. Memory(mem) + start \in Int /\ Memory(mem) + start + n = Memory(mem') + start'
    BY <2>1, CountTypes
  <2>4. Plus(n) = (Memory(mem) + start + n) % Width
    BY <2>2, <2>3, ModPlus DEF Plus
  <2> QED
    BY <2>3, <2>4
<1>5. ASSUME ~shrunk' PROVE allocated' >= Memory(mem') /\ \E l \in Limits : allocated' <= l + Slack
  <2>1. ~shrunk /\ Memory(mem') <= Memory(mem) + n
    BY <1>5
  <2>2. PICK l \in Limits : allocated <= l + Slack
    BY <2>1 DEF CountInv, Bounded
  <2>3. l \in Nat /\ l + Slack + MaxSize + Align <= Width
    BY AllocAssumption, NoWrap
  <2>4. allocated >= Memory(mem)
    BY <2>1 DEF CountInv, CountRight, NeverShort
  <2>5. allocated + n >= Memory(mem')
    BY <1>1, <2>1, <2>4, CountTypes
  <2>6. allocated + n \in 0 .. Width - 1
    BY <1>1, <2>2, <2>3, <2>5, CountTypes, AllocAssumption
  <2>7. allocated' = allocated + n
    BY <2>6, ModSmall DEF Plus
  <2>8. allocated' <= l + Slack \/ allocated' <= limit + Slack
    BY <2>2, <2>3, <2>7, CountTypes
  <2> QED
    BY <2>5, <2>7, <2>8, CountTypes
<1>6. start' \in Int \cup {None} /\ Exact'
  BY DEF CountInv, Exact
<1> QED
  BY <1>3, <1>4, <1>5, <1>6 DEF CountInv, CountRight, NeverShort, LimitIsScripts, Bounded

\* A step that changes neither the count nor the room of any block.
LEMMA Kept ==
  ASSUME CountInv, BlockTypes', limit' \in Limits, UNCHANGED <<stage, allocated, ghosts>>,
         \A b \in Block : mem'[b] = None <=> mem[b] = None,
         \A b \in Malloced : /\ mem'[b].room = mem[b].room
                             /\ RealSize(mem'[b].size) = RealSize(mem[b].size)
  PROVE  CountInv'
<1>1. mem' \in Tables /\ Memory(mem') \in Nat /\ mem \in Tables
  BY MemoryType, CountTypes DEF BlockTypes, Tables
<1>2. Memory(mem') = Memory(mem) /\ Malloced' = Malloced
  BY <1>1, SameMemory DEF Malloced
<1>3. start' = start /\ refused' = refused /\ shrunk' = shrunk
  BY DEF ghosts
<1>4. AllocTypeOK'
  BY DEF CountInv, CountRight, AllocTypeOK
<1>5. Accounted' /\ NeverShort' /\ LimitIsScripts'
  BY <1>2, <1>3 DEF CountInv, CountRight, Accounted, NeverShort, LimitIsScripts
<1>6. Exact' /\ Bounded'
  BY <1>2, <1>3 DEF CountInv, Exact, Bounded
<1> QED
  BY <1>3, <1>4, <1>5, <1>6 DEF CountInv, CountRight

\* exit() leaves an empty process.
LEMMA ExitCounts ==
  ASSUME CountInv, IInv', stage = "request", NEW m \in Tables, NEW n \in Int,
         start = 0 => Memory(m) = Memory(mem) + n, ExitTooFar(n, m)
  PROVE  CountInv'
<1>1. BlockTypes' /\ mem' \in Tables
  BY DEF IInv, BlockTypes, Tables
<1>2. Memory(mem') = 0
  <2>1. \A b \in Block : Rooms(mem')[b] = 0
    BY DEF Rooms, ExitTooFar
  <2> QED
    BY <1>1, <2>1, AllocAssumption, MemoryIs, SumOfZeros
<1>3. refused' # "wrongly"
  BY Judging, CountTypes DEF ExitTooFar
<1>4. AllocTypeOK'
  BY <1>1, MaxLimit, AllocAssumption DEF AllocTypeOK, ExitTooFar
<1>5. Bounded'
  <2>1. PICK l \in Limits : l \in Nat /\ Slack \in Nat
    BY MaxLimit, AllocAssumption
  <2>2. allocated' <= l + Slack
    BY <2>1 DEF ExitTooFar
  <2> QED
    BY <2>2 DEF Bounded
<1>6. Accounted' /\ NeverShort' /\ LimitIsScripts' /\ Exact'
  BY <1>2, <1>3 DEF Accounted, NeverShort, LimitIsScripts, Exact, ExitTooFar
<1> QED
  <2>1. start' = 0 /\ shrunk' = FALSE
    BY DEF ExitTooFar
  <2>2. start' \in Int /\ 0 \in Int
    BY <2>1
  <2>3. shrunk' \in BOOLEAN
    BY <2>1
  <2> QED
    BY <1>4, <1>5, <1>6, <2>2, <2>3 DEF CountInv, CountRight

(***************************************************************************)
(* The steps                                                               *)
(***************************************************************************)
\* A request starts with what is counted, or does not know it.
LEMMA BeginCounts ==
  ASSUME CountInv, IInv', Begin
  PROVE  CountInv'
<1>1. mem' = mem /\ allocated' = allocated /\ limit' = limit /\ shrunk' = shrunk
      /\ stage' = "request" /\ Malloced' = Malloced
  BY DEF Begin, blocks, Malloced
<1>2. AllocTypeOK'
  BY <1>1 DEF IInv, CountInv, CountRight, AllocTypeOK
<1>3. CASE \A b \in Malloced : mem[b].room = RealSize(mem[b].size)
  <2>1. start' = allocated - Memory(mem) /\ start' \in Int
    BY <1>3, CountTypes DEF Begin
  <2>2. Memory(mem) + start' = allocated
    BY <2>1, CountTypes
  <2>3. Accounted'
    BY <1>1, <2>2, CountTypes, ModSmall DEF Accounted
  <2>4. Exact'
    BY <1>1, <1>3 DEF Exact
  <2> QED
    BY <1>1, <1>2, <2>1, <2>3, <2>4
       DEF CountInv, CountRight, NeverShort, LimitIsScripts, Bounded, Begin
<1>4. CASE ~ \A b \in Malloced : mem[b].room = RealSize(mem[b].size)
  <2>1. start' = None
    BY <1>4 DEF Begin
  <2>2. Accounted' /\ Exact'
    BY <2>1 DEF Accounted, Exact
  <2> QED
    BY <1>1, <1>2, <2>1, <2>2 DEF CountInv, CountRight, NeverShort, LimitIsScripts, Bounded, Begin
<1> QED
  BY <1>3, <1>4

\* A cached block serves every size of its class.
LEMMA CachedCounts ==
  ASSUME CountInv, IInv, IInv', NEW size \in Size, EmallocCached(size)
  PROVE  CountInv'
<1> DEFINE c == Index(size)
           p == cache[c][Len(cache[c])]
<1>1. c \in Class /\ cache[c] \in Seq(Block) /\ cache[c] # <<>> /\ Injective(cache[c])
  BY DEF EmallocCached, IInv, BlockTypes, OnePlace
<1>2. p \in Members(cache[c]) /\ p \in Block
  BY <1>1, Popped
<1>3. p \in InCache /\ p \in Malloced /\ Index(mem[p].size) = c
  BY <1>1, <1>2 DEF IInv, OnePlace, CachedBit, InCache
<1>4. mem' = [mem EXCEPT ![p].persistent = FALSE, ![p].cached = FALSE, ![p].size = size]
      /\ UNCHANGED <<stage, fast, allocated, limit, ghosts>>
  BY DEF EmallocCached
<1>5. mem[p] \in Headers /\ mem[p] # None /\ mem \in [Block -> {None} \cup Headers]
  BY <1>3 DEF IInv, BlockTypes, Malloced
<1>6. mem'[p] \in Headers /\ mem'[p].room = mem[p].room /\ mem'[p].size = size
      /\ \A b \in Block : b # p => mem'[b] = mem[b]
  BY <1>2, <1>4, <1>5 DEF Headers
<1> HIDE DEF p
<1>7. RealSize(mem'[p].size) = RealSize(mem[p].size)
  BY <1>3, <1>6 DEF RealSize
<1>8. /\ \A b \in Block : mem'[b] = None <=> mem[b] = None
      /\ \A b \in Malloced : /\ mem'[b].room = mem[b].room
                             /\ RealSize(mem'[b].size) = RealSize(mem[b].size)
  BY <1>5, <1>6, <1>7, AllocAssumption DEF Malloced
<1>9. BlockTypes' /\ limit' \in Limits
  BY <1>4, CountTypes DEF IInv
<1> QED
  BY <1>4, <1>8, <1>9, Kept

\* Steps that change a bit of a header, the caches or the limit.
LEMMA PlacesCount ==
  ASSUME CountInv, IInv, IInv',
         \/ \E p \in Block : EfreeCached(p) \/ PersistAlloc(p) \/ FastFree(p)
         \/ \E n \in Limits : SetMemoryLimit(n)
         \/ FastAlloc \/ UNCHANGED vbls
  PROVE  CountInv'
<1>1. UNCHANGED <<stage, allocated, ghosts>> /\ limit' \in Limits
  BY CountTypes DEF EfreeCached, PersistAlloc, FastFree, FastAlloc, SetMemoryLimit, vbls
<1>2. \/ mem' = mem
      \/ \E p \in used : \/ mem' = [mem EXCEPT ![p].cached = TRUE]
                         \/ mem' = [mem EXCEPT ![p].persistent = TRUE]
  BY DEF EfreeCached, PersistAlloc, FastFree, FastAlloc, SetMemoryLimit, vbls, blocks
<1>3. /\ \A b \in Block : mem'[b] = None <=> mem[b] = None
      /\ \A b \in Malloced : mem'[b].room = mem[b].room /\ mem'[b].size = mem[b].size
  <2>1. CASE mem' = mem
    BY <2>1
  <2>2. ASSUME NEW p \in used, \/ mem' = [mem EXCEPT ![p].cached = TRUE]
                               \/ mem' = [mem EXCEPT ![p].persistent = TRUE]
        PROVE  <1>3!1 /\ <1>3!2
    <3>1. p \in Block /\ p \in Malloced /\ mem[p] \in Headers /\ mem[p] # None
          /\ mem \in [Block -> {None} \cup Headers]
      BY DEF IInv, BlockTypes, OnePlace, Malloced
    <3>2. mem'[p] \in Headers /\ mem'[p].room = mem[p].room /\ mem'[p].size = mem[p].size
          /\ \A b \in Block : b # p => mem'[b] = mem[b]
      BY <2>2, <3>1 DEF Headers
    <3> QED
      BY <3>1, <3>2, AllocAssumption DEF Malloced
  <2> QED
    BY <1>2, <2>1, <2>2
<1>4. BlockTypes'
  BY DEF IInv
<1> QED
  BY <1>1, <1>3, <1>4, Kept

\* malloc() counts what the size is rounded up to.
LEMMA NewCounts ==
  ASSUME CountInv, IInv, IInv', NEW size \in Size, EmallocNew(size)
  PROVE  CountInv'
<1> DEFINE n == RealSize(size)
           made(p) == [mem EXCEPT ![p] = Header(size)]
<1>1. n \in Nat /\ n \in Int /\ n < MaxSize + Align
  BY Rounded
<1>2. PICK p \in Block \ Malloced :
        \/ /\ mem' = made(p) /\ Granted(n) /\ used' = used \cup {p}
           /\ UNCHANGED <<stage, cache, fast, limit>>
        \/ /\ mem' = made(p) /\ Refused(n)
           /\ UNCHANGED <<stage, cache, fast, used, limit, shrunk>>
        \/ ExitTooFar(n, made(p))
  BY DEF EmallocNew
<1>3. stage = "request" /\ BlockTypes' /\ mem \in Tables /\ mem[p] = None
  BY <1>2, CountTypes DEF EmallocNew, Running, IInv, Malloced
<1>4. Header(size) \in Headers /\ Header(size).room = n /\ Header(size).size = size
  BY <1>1 DEF Header, Headers
<1> DEFINE m == made(p)
<1>5. m \in Tables /\ m[p] = Header(size) /\ \A b \in Block : b # p => m[b] = mem[b]
  BY <1>2, <1>3, <1>4 DEF Tables
<1> HIDE DEF m, n
<1>6. Memory(m) = Memory(mem) + n
  <2>1. Rooms(mem)[p] = 0 /\ Rooms(m)[p] = n
    BY <1>2, <1>3, <1>4, <1>5, AllocAssumption, RoomType
  <2> QED
    BY <1>1, <1>2, <1>3, <1>5, <2>1, OneBlock, MemoryType
<1>7. CASE mem' = m /\ Granted(n) /\ UNCHANGED <<stage, limit>>
  <2>1. allocated' = Plus(n) /\ Plus(n) <= limit
        /\ start' = start /\ shrunk' = shrunk /\ refused' = refused
    BY <1>7 DEF Granted, Fits, ghosts
  <2>2. Plus(n) <= limit + Slack
    BY <1>1, <2>1, CountTypes, ModType DEF Plus
  <2>3. ASSUME start' # None, NEW b \in Malloced' PROVE mem'[b].room = RealSize(mem'[b].size)
    <3>1. CASE b = p
      BY <1>4, <1>5, <1>7, <3>1 DEF n
    <3>2. CASE b # p
      <4>1. b \in Malloced /\ mem'[b] = mem[b]
        BY <1>5, <1>7, <2>3, <3>2 DEF Malloced
      <4> QED
        BY <1>3, <2>1, <2>3, <4>1 DEF CountInv, Exact
    <3> QED
      BY <3>1, <3>2
  <2>4. Memory(mem') <= Memory(mem) + n /\ refused' # "wrongly" /\ shrunk' \in BOOLEAN
    BY <1>1, <1>6, <1>7, <2>1, CountTypes DEF CountInv, CountRight, LimitIsScripts
  <2> QED
    BY <1>1, <1>3, <1>6, <1>7, <2>1, <2>2, <2>3, <2>4, Recount
<1>8. CASE mem' = m /\ Refused(n) /\ UNCHANGED <<stage, limit, shrunk>>
  <2>1. allocated' = Plus(n) /\ Plus(n) > limit /\ Plus(n) <= limit + Slack
        /\ start' = None /\ refused' = Judged(m, limit)
    BY <1>8 DEF Refused, Refuses
  <2>2. refused' # "wrongly"
    BY <1>1, <1>3, <1>5, <1>6, <2>1, CountTypes, Judging
  <2>3. Memory(mem') <= Memory(mem) + n /\ shrunk' = shrunk /\ shrunk \in BOOLEAN
    BY <1>1, <1>6, <1>8, CountTypes DEF CountInv
  <2> QED
    BY <1>1, <1>3, <1>8, <2>1, <2>2, <2>3, Recount
<1>9. CASE ExitTooFar(n, m)
  BY <1>1, <1>3, <1>5, <1>6, <1>9, ExitCounts
<1> QED
  BY <1>2, <1>7, <1>8, <1>9 DEF m, n

\* free() uncounts as much.
LEMMA ReturnedCounts ==
  ASSUME CountInv, IInv, IInv', NEW p \in Block, EfreeReturned(p)
  PROVE  CountInv'
<1> DEFINE n == 0 - RealSize(mem[p].size)
<1>1. stage = "request" /\ stage' = "request" /\ limit' = limit /\ BlockTypes' /\ BlockTypes
      /\ mem \in Tables /\ mem' \in Tables /\ p \in Malloced /\ mem[p] # None
      /\ start' = start /\ shrunk' = shrunk /\ refused' = refused
  BY CountTypes DEF EfreeReturned, Running, IInv, OnePlace, Malloced, ghosts, BlockTypes, Tables
<1>2. mem[p] \in Headers /\ mem[p].size \in Size /\ mem[p].room \in Nat
  BY <1>1 DEF Tables, Headers
<1>3. RealSize(mem[p].size) \in Nat
  BY <1>2, RoundsUp
<1>4. n \in Int /\ n <= 0 /\ n < MaxSize + Align /\ allocated' = Plus(n)
  <2>1. allocated - RealSize(mem[p].size) = allocated + n
    BY <1>3, CountTypes
  <2>2. allocated' = Plus(n)
    BY <2>1 DEF EfreeReturned, Plus
  <2>3. MaxSize + Align > 0 /\ MaxSize + Align \in Nat
    BY AllocAssumption
  <2> QED
    BY <1>3, <2>2, <2>3
<1>5. mem'[p] = None /\ \A b \in Block : b # p => mem'[b] = mem[b]
  BY <1>1 DEF EfreeReturned, Tables
<1>6. Memory(mem') = Memory(mem) - mem[p].room /\ Memory(mem') \in Nat
  <2>1. Rooms(mem)[p] = mem[p].room /\ Rooms(mem')[p] = 0
    BY <1>1, <1>5, RoomType
  <2> QED
    BY <1>1, <1>2, <1>5, <2>1, OneBlock, MemoryType
<1>7. start' # None => /\ Memory(mem') = Memory(mem) + n
                       /\ \A b \in Malloced' : mem'[b].room = RealSize(mem'[b].size)
  <2> SUFFICES ASSUME start # None
               PROVE  /\ Memory(mem') = Memory(mem) + n
                      /\ \A b \in Malloced' : mem'[b].room = RealSize(mem'[b].size)
    BY <1>1
  <2>1. \A b \in Malloced : mem[b].room = RealSize(mem[b].size)
    BY <1>1 DEF CountInv, Exact
  <2>2. \A b \in Malloced' : b \in Malloced /\ mem'[b] = mem[b]
    BY <1>5 DEF Malloced
  <2>3. Memory(mem') = Memory(mem) + n
    BY <1>1, <1>3, <1>6, <2>1, CountTypes
  <2> QED
    BY <2>1, <2>2, <2>3
<1>8. ~shrunk' => ~shrunk /\ Memory(mem') <= Memory(mem) + n
  <2> SUFFICES ASSUME ~shrunk PROVE Memory(mem') <= Memory(mem) + n
    BY <1>1
  <2>1. RealSize(mem[p].size) <= mem[p].room
    BY <1>1 DEF IInv, ClassRoom
  <2> QED
    BY <1>2, <1>3, <1>6, <2>1, CountTypes
<1>9. shrunk' \in BOOLEAN /\ start' \in {start, None} /\ refused' # "wrongly"
  BY <1>1 DEF CountInv, CountRight, LimitIsScripts
<1> HIDE DEF n
<1> QED
  BY <1>1, <1>4, <1>7, <1>8, <1>9, Recount

\* erealloc() counts the difference; a block that it cuts off keeps its old size.
LEMMA EreallocCounts ==
  ASSUME CountInv, IInv, IInv', NEW p \in Block, NEW size \in Size, Erealloc(p, size)
  PROVE  CountInv'
<1> DEFINE old  == RealSize(mem[p].size)
           new  == RealSize(size)
           more == new - old
           moved(q, s) == [[mem EXCEPT ![p] = None]
                             EXCEPT ![q] = [mem[p] EXCEPT !.size = s, !.room = new]]
<1>1. PICK q \in {p} \cup (Block \ Malloced) :
        \/ /\ mem' = moved(q, size) /\ Granted(more) /\ used' = (used \ {p}) \cup {q}
           /\ UNCHANGED <<stage, cache, fast, limit>>
        \/ /\ mem' = moved(q, mem[p].size) /\ Refused(more)
           /\ used' = IF q = p THEN used ELSE used \ {p}
           /\ shrunk' = (shrunk \/ more < 0)
           /\ UNCHANGED <<stage, cache, fast, limit>>
        \/ ExitTooFar(more, moved(q, size))
  BY DEF Erealloc
<1>2. stage = "request" /\ BlockTypes' /\ mem \in Tables /\ p \in Malloced /\ mem[p] # None
      /\ q \in Block
  BY <1>1, CountTypes DEF Erealloc, Running, IInv, OnePlace, Malloced
<1>3. mem[p] \in Headers /\ mem[p].size \in Size /\ mem[p].room \in Nat
  BY <1>2 DEF Tables, Headers
<1>4. old \in Nat /\ new \in Nat /\ new < MaxSize + Align /\ more \in Int /\ more < MaxSize + Align
  BY <1>3, Rounded, AllocAssumption
<1>5. ASSUME NEW s \in Size
      PROVE  /\ moved(q, s) \in Tables /\ Memory(moved(q, s)) = Memory(mem) - mem[p].room + new
             /\ moved(q, s)[q].room = new /\ moved(q, s)[q].size = s
             /\ \A b \in Block \ {q} : moved(q, s)[b] # None => b \in Malloced /\ moved(q, s)[b] = mem[b]
  <2> DEFINE h == [mem[p] EXCEPT !.size = s, !.room = new]
             m == [mem EXCEPT ![p] = None]
             k == moved(q, s)
  <2>1. h \in Headers /\ h.size = s /\ h.room = new
    BY <1>3, <1>4 DEF Headers
  <2>2. m \in Tables /\ m[p] = None /\ \A b \in Block : b # p => m[b] = mem[b]
    BY <1>2 DEF Tables
  <2>3. k = [m EXCEPT ![q] = h]
    OBVIOUS
  <2> HIDE DEF h, m, k
  <2>4. k \in Tables /\ k[q] = h /\ \A b \in Block : b # q => k[b] = m[b]
    BY <1>2, <2>1, <2>2, <2>3 DEF Tables
  <2>5. Rooms(mem)[p] = mem[p].room /\ Rooms(m)[p] = 0
    BY <1>2, <2>2, RoomType
  <2>6. Memory(m) = Memory(mem) - mem[p].room
    BY <1>2, <1>3, <2>2, <2>5, OneBlock, MemoryType
  <2>7. m[q] = None
    BY <1>1, <1>2, <2>2 DEF Malloced
  <2>8. Rooms(m)[q] = 0 /\ Rooms(k)[q] = new
    BY <1>2, <2>1, <2>2, <2>4, <2>7, RoomType, AllocAssumption
  <2>9. Memory(k) = Memory(m) + new
    BY <1>2, <1>4, <2>2, <2>4, <2>8, OneBlock, MemoryType
  <2>10. Memory(k) = Memory(mem) - mem[p].room + new
    BY <1>3, <1>4, <2>6, <2>9, CountTypes
  <2>11. \A b \in Block \ {q} : k[b] # None => b \in Malloced /\ k[b] = mem[b]
    BY <2>2, <2>4 DEF Malloced
  <2> QED
    BY <2>1, <2>4, <2>10, <2>11 DEF k
<1> HIDE DEF moved, old, new
<1>6. start # None => mem[p].room = old /\ \A b \in Malloced : mem[b].room = RealSize(mem[b].size)
  BY <1>2 DEF CountInv, Exact, old
<1>7. start = 0 => Memory(moved(q, size)) = Memory(mem) + more
                   /\ Memory(moved(q, mem[p].size)) = Memory(mem) + more
  <2> SUFFICES ASSUME start = 0 PROVE Memory(mem) - mem[p].room + new = Memory(mem) + more
    BY <1>3, <1>5
  <2>1. mem[p].room = old
    BY <1>6, CountTypes
  <2> QED
    BY <1>3, <1>4, <2>1, CountTypes
<1>8. ~shrunk => old <= mem[p].room
  BY <1>2 DEF IInv, ClassRoom, old
<1>9. \A s \in Size : ~shrunk => Memory(moved(q, s)) <= Memory(mem) + more
  <2> SUFFICES ASSUME ~shrunk PROVE Memory(mem) - mem[p].room + new <= Memory(mem) + more
    BY <1>5
  <2> QED
    BY <1>3, <1>4, <1>8, CountTypes
<1>10. CASE mem' = moved(q, size) /\ Granted(more) /\ UNCHANGED <<stage, limit>>
  <2>1. allocated' = Plus(more) /\ Plus(more) <= limit
        /\ start' = start /\ shrunk' = shrunk /\ refused' = refused
    BY <1>10 DEF Granted, Fits, ghosts
  <2>2. Plus(more) <= limit + Slack
    BY <1>4, <2>1, CountTypes, ModType DEF Plus
  <2>3. ASSUME start' # None
        PROVE  /\ Memory(mem') = Memory(mem) + more
               /\ \A b \in Malloced' : mem'[b].room = RealSize(mem'[b].size)
    <3>1. mem[p].room = old /\ \A b \in Malloced : mem[b].room = RealSize(mem[b].size)
      BY <1>6, <2>1, <2>3
    <3>2. Memory(mem') = Memory(mem) + more
      BY <1>3, <1>4, <1>5, <1>10, <3>1, CountTypes
    <3>3. mem'[q].room = RealSize(mem'[q].size)
      BY <1>5, <1>10 DEF new
    <3>4. \A b \in Malloced' : b # q => b \in Malloced /\ mem'[b] = mem[b]
      BY <1>5, <1>10 DEF Malloced
    <3> QED
      BY <3>1, <3>2, <3>3, <3>4
  <2>4. refused' # "wrongly" /\ shrunk' \in BOOLEAN /\ stage' = "request" /\ limit' = limit
        /\ (~shrunk' => ~shrunk /\ Memory(mem') <= Memory(mem) + more)
    BY <1>2, <1>9, <1>10, <2>1 DEF CountInv, CountRight, LimitIsScripts
  <2> HIDE DEF more
  <2> QED
    BY <1>2, <1>4, <2>1, <2>2, <2>3, <2>4, Recount
<1>11. CASE /\ mem' = moved(q, mem[p].size) /\ Refused(more)
            /\ shrunk' = (shrunk \/ more < 0) /\ UNCHANGED <<stage, limit>>
  <2> HIDE DEF more
  <2>1. allocated' = Plus(more) /\ Plus(more) > limit /\ Plus(more) <= limit + Slack
        /\ start' = None /\ refused' = Judged(mem', limit)
    BY <1>11 DEF Refused, Refuses
  <2>2. refused' # "wrongly"
    BY <1>2, <1>3, <1>4, <1>5, <1>7, <1>11, <2>1, CountTypes, Judging
  <2>3. ~shrunk' => ~shrunk /\ Memory(mem') <= Memory(mem) + more
    BY <1>3, <1>9, <1>11
  <2>4. shrunk' \in BOOLEAN
    BY <1>11
  <2> QED
    BY <1>2, <1>4, <1>11, <2>1, <2>2, <2>3, <2>4, Recount
<1>12. CASE ExitTooFar(more, moved(q, size))
  <2> HIDE DEF more
  <2> QED
    BY <1>2, <1>4, <1>5, <1>7, <1>12, ExitCounts
<1> QED
  BY <1>1, <1>10, <1>11, <1>12 DEF moved, new

\* The end of a request subtracts no more than what the blocks had that it frees.
LEMMA ShutdownCounts ==
  ASSUME CountInv, IInv, IInv', Shutdown
  PROVE  CountInv'
<1> DEFINE Freed == Emptied \cup Leaked
           less  == SumFunctionOnSet(Returned, Freed)
           gone  == SumFunctionOnSet(Rooms(mem), Freed)
<1>1. mem \in Tables /\ mem' \in Tables /\ BlockTypes' /\ Memory(mem') \in Nat /\ Memory(mem) \in Nat
  BY CountTypes, MemoryType DEF IInv, BlockTypes, Tables
<1>2. Freed \subseteq Malloced /\ Freed \subseteq Block /\ IsFiniteSet(Freed) /\ IsFiniteSet(Block)
  <2>1. Emptied \subseteq Malloced
    BY DEF IInv, OnePlace, Emptied, InCache
  <2>2. Malloced \subseteq Block /\ Leaked \subseteq Malloced
    BY DEF Malloced, Leaked
  <2> QED
    BY <2>1, <2>2, AllocAssumption, FS_Subset
<1>3. \A b \in Freed : /\ mem[b] \in Headers /\ mem[b].size \in Nat /\ RealSize(mem[b].size) \in Nat
                       /\ mem[b].size <= RealSize(mem[b].size)
                       /\ mem[b].room \in Int /\ Rooms(mem)[b] = mem[b].room
                       /\ Returned[b] \in {mem[b].size, RealSize(mem[b].size)}
  <2> SUFFICES ASSUME NEW b \in Freed
               PROVE  /\ mem[b] \in Headers /\ mem[b].size \in Nat /\ RealSize(mem[b].size) \in Nat
                      /\ mem[b].size <= RealSize(mem[b].size)
                      /\ mem[b].room \in Int /\ Rooms(mem)[b] = mem[b].room
                      /\ Returned[b] \in {mem[b].size, RealSize(mem[b].size)}
    OBVIOUS
  <2>1. b \in Block /\ mem[b] # None /\ mem[b] \in Headers
    BY <1>1, <1>2 DEF Malloced, Tables
  <2>2. mem[b].size \in Size /\ mem[b].size \in Nat /\ mem[b].room \in Int
    BY <2>1, AllocAssumption DEF Headers, Size
  <2>3. Rooms(mem)[b] = mem[b].room
    BY <1>1, <2>1, RoomType
  <2>4. Returned[b] \in {mem[b].size, RealSize(mem[b].size)}
    BY DEF Returned
  <2> QED
    BY <2>1, <2>2, <2>3, <2>4, RoundsUp
<1>4. stage' = "idle" /\ limit' = Max(Limits) /\ start' = 0 /\ refused' = "no" /\ shrunk' = shrunk
      /\ allocated' = (allocated - less) % Width
      /\ mem' = [b \in Block |-> IF b \in Freed THEN None ELSE mem[b]]
  BY DEF Shutdown, SumFunction, Returned
<1> HIDE DEF Freed
<1>5. less \in Int /\ less >= 0 /\ gone \in Int
  <2>1. \A b \in Freed : Returned[b] \in Nat /\ Rooms(mem)[b] \in Int
    BY <1>3
  <2>2. less \in Nat
    BY <1>2, <2>1, SumOfNaturals
  <2> QED
    BY <1>2, <2>1, <2>2, SumType
<1>6. Memory(mem') = Memory(mem) - gone
  <2>1. \A b \in Block : Rooms(mem)[b] \in Int /\ Rooms(mem')[b] \in Int
    BY <1>1, RoomType
  <2>2. Memory(mem) = gone + SumFunctionOnSet(Rooms(mem), Block \ Freed)
    BY <1>1, <1>2, <2>1, MemoryIs, SumSplits
  <2>3. Memory(mem') = SumFunctionOnSet(Rooms(mem'), Freed) + SumFunctionOnSet(Rooms(mem'), Block \ Freed)
    BY <1>1, <1>2, <2>1, MemoryIs, SumSplits
  <2>4. \A b \in Freed : Rooms(mem')[b] = 0
    BY <1>2, <1>4 DEF Rooms
  <2>5. SumFunctionOnSet(Rooms(mem'), Freed) = 0
    BY <1>2, <2>4, SumOfZeros
  <2>6. IsFiniteSet(Block \ Freed)
    BY <1>2, FS_Subset
  <2>7. \A b \in Block \ Freed : Rooms(mem')[b] = Rooms(mem)[b]
    BY <1>4 DEF Rooms
  <2>8. /\ SumFunctionOnSet(Rooms(mem'), Block \ Freed) = SumFunctionOnSet(Rooms(mem), Block \ Freed)
        /\ SumFunctionOnSet(Rooms(mem), Block \ Freed) \in Int
    BY <2>1, <2>6, <2>7, SumSame, SumType
  <2> HIDE DEF gone
  <2> QED
    BY <1>1, <1>5, <2>2, <2>3, <2>5, <2>8
<1>7. ~shrunk => less <= gone
  <2> SUFFICES ASSUME ~shrunk PROVE less <= gone
    OBVIOUS
  <2>1. \A b \in Freed : RealSize(mem[b].size) <= mem[b].room
    BY <1>2 DEF IInv, ClassRoom
  <2>2. \A b \in Freed : Returned[b] \in Int /\ Rooms(mem)[b] \in Int /\ Returned[b] <= Rooms(mem)[b]
    BY <1>3, <2>1
  <2> QED
    BY <1>2, <2>2, SumAtMost
<1> HIDE DEF less, gone
<1>8. allocated' \in 0 .. Width - 1
  BY <1>4, <1>5, CountTypes, ModType
<1>9. AllocTypeOK'
  BY <1>1, <1>4, <1>8, MaxLimit DEF AllocTypeOK
<1>10. ASSUME ~shrunk PROVE allocated' >= Memory(mem') /\ allocated' <= allocated
  <2>1. allocated >= Memory(mem)
    BY <1>10 DEF CountInv, CountRight, NeverShort
  <2>2. allocated - less >= Memory(mem') /\ allocated - less <= allocated
        /\ allocated - less \in 0 .. Width - 1
    BY <1>1, <1>5, <1>6, <1>7, <1>10, <2>1, CountTypes, AllocAssumption
  <2>3. allocated' = allocated - less
    BY <1>4, <2>2, ModSmall
  <2> QED
    BY <2>2, <2>3
<1>11. NeverShort'
  BY <1>4, <1>10 DEF NeverShort
<1>12. Bounded'
  <2> SUFFICES ASSUME ~shrunk PROVE \E l \in Limits : allocated' <= l + Slack
    BY <1>4 DEF Bounded
  <2>1. PICK l \in Limits : allocated <= l + Slack
    BY DEF CountInv, Bounded
  <2>2. l + Slack \in Nat
    BY AllocAssumption
  <2>3. allocated' <= l + Slack
    BY <1>8, <1>10, <2>1, <2>2, CountTypes
  <2> QED
    BY <2>3
<1>13. Accounted' /\ Exact' /\ LimitIsScripts'
  BY <1>4 DEF Accounted, Exact, LimitIsScripts
<1>14. start' \in Int /\ shrunk' \in BOOLEAN
  BY <1>4 DEF CountInv
<1> QED
  BY <1>9, <1>11, <1>12, <1>13, <1>14 DEF CountInv, CountRight

-----------------------------------------------------------------------------
\* The count is the memory that the request has and what earlier ones have left in it,
\* and never less than what there is.
THEOREM CountCorrect == AllocSpec => []CountInv
<1>1. AllocInit => CountInv
  <2> SUFFICES ASSUME AllocInit PROVE CountInv
    OBVIOUS
  <2>1. mem \in Tables /\ BlockTypes
    BY AllocAssumption DEF AllocInit, BlockTypes, Tables
  <2>2. Memory(mem) = 0
    <3>1. \A b \in Block : Rooms(mem)[b] = 0
      BY DEF Rooms, AllocInit
    <3> QED
      BY <2>1, <3>1, AllocAssumption, MemoryIs, SumOfZeros
  <2>3. allocated = 0 /\ stage = "idle" /\ start = 0 /\ shrunk = FALSE /\ refused = "no"
        /\ limit = Max(Limits)
    BY DEF AllocInit
  <2>4. AllocTypeOK
    BY <2>1, <2>3, MaxLimit, AllocAssumption DEF AllocTypeOK
  <2>5. Bounded
    <3>1. PICK l \in Limits : l \in Nat /\ Slack \in Nat
      BY MaxLimit, AllocAssumption
    <3>2. allocated <= l + Slack
      BY <2>3, <3>1
    <3> QED
      BY <3>2 DEF Bounded
  <2>6. start \in Int
    BY <2>3
  <2>7. shrunk \in BOOLEAN
    BY <2>3
  <2>8. Accounted /\ NeverShort /\ LimitIsScripts /\ Exact
    BY <2>2, <2>3 DEF Accounted, NeverShort, LimitIsScripts, Exact
  <2> QED
    BY <2>4, <2>5, <2>6, <2>7, <2>8 DEF CountInv, CountRight
<1>2. IInv /\ IInv' /\ CountInv /\ [AllocNext]_vbls => CountInv'
  <2> SUFFICES ASSUME IInv, IInv', CountInv, [AllocNext]_vbls PROVE CountInv'
    OBVIOUS
  <2>1. CASE Begin
    BY <2>1, BeginCounts
  <2>2. CASE FastAlloc \/ UNCHANGED vbls
    BY <2>2, PlacesCount
  <2>3. CASE Shutdown
    BY <2>3, ShutdownCounts
  <2>4. CASE \E size \in Size : EmallocCached(size) \/ EmallocNew(size)
    BY <2>4, CachedCounts, NewCounts
  <2>5. CASE \E p \in Block : EfreeCached(p) \/ PersistAlloc(p) \/ FastFree(p)
    BY <2>5, PlacesCount
  <2>6. CASE \E p \in Block : EfreeReturned(p)
    BY <2>6, ReturnedCounts
  <2>7. CASE \E p \in Block, size \in Size : Erealloc(p, size)
    BY <2>7, EreallocCounts
  <2>8. CASE \E n \in Limits : SetMemoryLimit(n)
    BY <2>8, PlacesCount
  <2> QED
    BY <2>1, <2>2, <2>3, <2>4, <2>5, <2>6, <2>7, <2>8 DEF AllocNext
<1> QED
  BY <1>1, <1>2, Invariant, PTL DEF AllocSpec

\* memory_limit is compared with what the request really has, and ends no request that
\* has less, unless an earlier one has left the count too high.
THEOREM CountStaysRight == AllocSpec => []CountRight
<1>1. CountInv => CountRight
  BY DEF CountInv
<1> QED
  BY <1>1, CountCorrect, PTL

=============================================================================
