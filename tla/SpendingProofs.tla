--------------------------- MODULE SpendingProofs ---------------------------
(***************************************************************************)
(* Spending for any number of calls, users, allowances and amounts.        *)
(***************************************************************************)
EXTENDS Spending, WalletsProofs, FiniteSetTheorems

-----------------------------------------------------------------------------
(* Sums over finite sets.  The community operator is a recursive function; *)
(* no induction principle with an operator parameter can be used, but that *)
(* strict inclusion is well founded on finite sets can: whatever fails for *)
(* some subset of a finite set fails for a smallest one.                   *)

LEMMA SmallestSet ==
    ASSUME NEW S, IsFiniteSet(S), NEW B \in SUBSET SUBSET S, B # {}
    PROVE  \E T \in B : \A U \in B : U \subseteq T => U = T
<1>1. IsWellFoundedOn(StrictSubsetOrdering(S), SUBSET S)
  BY FS_StrictSubsetOrderingWellFounded, FS_FiniteSubsetsOfFinite
<1>2. PICK T \in B : \A U \in B : ~ (<<U, T>> \in StrictSubsetOrdering(S))
  BY <1>1, WFMin
<1>3. ASSUME NEW U \in B, U \subseteq T, U # T PROVE FALSE
  BY <1>2, <1>3 DEF StrictSubsetOrdering
<1>. QED
  BY <1>2, <1>3

(* What every total over the subsets of S satisfies.                       *)
Some(T) == CHOOSE x \in T : TRUE
Rest(T) == T \ {Some(T)}

IsTotal(g, f, S) ==
    g = [T \in SUBSET S |-> IF T = {} THEN 0 ELSE f[Some(T)] + g[Rest(T)]]

Total(f, S) == CHOOSE g : IsTotal(g, f, S)

LEMMA SumIsTotal ==
    ASSUME NEW f, NEW S
    PROVE  SumFunctionOnSet(f, S) = Total(f, S)[S]
BY DEF SumFunctionOnSet, FoldFunctionOnSet, MapThenFoldSet, IsTotal, Total, Some, Rest

LEMMA RestSmaller ==
    ASSUME NEW T, T # {}
    PROVE  /\ Some(T) \in T
           /\ Rest(T) \in SUBSET T
           /\ Rest(T) # T
           /\ T = Rest(T) \cup {Some(T)}
           /\ Some(T) \notin Rest(T)
<1>1. Some(T) \in T
  BY DEF Some
<1>. QED
  BY <1>1 DEF Rest

LEMMA TotalStep ==
    ASSUME NEW f, NEW S, NEW g, IsTotal(g, f, S), NEW T \in SUBSET S
    PROVE  g[T] = IF T = {} THEN 0 ELSE f[Some(T)] + g[Rest(T)]
BY DEF IsTotal

LEMMA TotalsAgree ==
    ASSUME NEW f, NEW S, NEW R, NEW g, NEW h, IsTotal(g, f, S), IsTotal(h, f, R),
           NEW T \in SUBSET S, T \in SUBSET R, IsFiniteSet(T)
    PROVE  g[T] = h[T]
<1>. DEFINE B == {U \in SUBSET T : g[U] # h[U]}
<1>. SUFFICES ASSUME B # {} PROVE FALSE
  OBVIOUS
<1>1. PICK U \in B : \A V \in B : V \subseteq U => V = U
  <2>. HIDE DEF B
  <2>1. B \in SUBSET SUBSET T
    BY DEF B
  <2>. QED
    BY <2>1, SmallestSet
<1>2. U \in SUBSET S /\ U \in SUBSET R /\ U \in SUBSET T /\ g[U] # h[U]
  OBVIOUS
<1>3. /\ g[U] = IF U = {} THEN 0 ELSE f[Some(U)] + g[Rest(U)]
      /\ h[U] = IF U = {} THEN 0 ELSE f[Some(U)] + h[Rest(U)]
  BY <1>2, TotalStep
<1>4. U # {} /\ g[Rest(U)] # h[Rest(U)]
  BY <1>2, <1>3
<1>. QED
  BY <1>1, <1>2, <1>4, RestSmaller

LEMMA TotalExists ==
    ASSUME NEW f, NEW S, IsFiniteSet(S)
    PROVE  IsTotal(Total(f, S), f, S)
<1>. DEFINE B == {T \in SUBSET S : ~ IsTotal(Total(f, T), f, T)}
<1>. SUFFICES ASSUME B # {} PROVE FALSE
  OBVIOUS
<1>1. PICK T \in B : \A V \in B : V \subseteq T => V = T
  <2>. HIDE DEF B
  <2>1. B \in SUBSET SUBSET S
    BY DEF B
  <2>. QED
    BY <2>1, SmallestSet
<1>2. \A V \in SUBSET T : V # T => IsTotal(Total(f, V), f, V) /\ IsFiniteSet(V)
  BY <1>1, FS_Subset
<1>. DEFINE part(V) == Total(f, V)[V]
            g == [U \in SUBSET T |-> IF U = {} THEN 0 ELSE f[Some(U)] + part(Rest(U))]
<1>3. ASSUME NEW V \in SUBSET T, V # T PROVE g[V] = part(V)
  <2>1. part(V) = IF V = {} THEN 0 ELSE f[Some(V)] + Total(f, V)[Rest(V)]
    <3>1. IsTotal(Total(f, V), f, V) /\ V \in SUBSET V
      BY <1>2, <1>3
    <3>. QED
      BY <3>1, TotalStep
  <2>2. ASSUME V # {} PROVE Total(f, V)[Rest(V)] = part(Rest(V))
    <3>1. /\ Rest(V) \in SUBSET V
          /\ Rest(V) \in SUBSET T
          /\ Rest(V) # T
      BY <1>3, <2>2, RestSmaller
    <3>2. /\ IsTotal(Total(f, V), f, V)
          /\ IsTotal(Total(f, Rest(V)), f, Rest(V))
          /\ IsFiniteSet(Rest(V))
      BY <1>2, <1>3, <3>1
    <3>3. Rest(V) \in SUBSET Rest(V)
      OBVIOUS
    <3>. QED
      BY <3>1, <3>2, <3>3, TotalsAgree
  <2>. QED
    BY <2>1, <2>2
<1>4. IsTotal(g, f, T)
  <2>1. ASSUME NEW U \in SUBSET T, U # {} PROVE part(Rest(U)) = g[Rest(U)]
    <3>1. Rest(U) \in SUBSET T /\ Rest(U) # T
      BY <2>1, RestSmaller
    <3>. HIDE DEF g, part
    <3>. QED
      BY <3>1, <1>3
  <2>. HIDE DEF part
  <2>2. g = [U \in SUBSET T |-> IF U = {} THEN 0 ELSE f[Some(U)] + g[Rest(U)]]
    BY <2>1
  <2>. QED
    BY <2>2 DEF IsTotal
<1>5. IsTotal(Total(f, T), f, T)
  <2>. HIDE DEF g
  <2>. QED
    BY <1>4 DEF Total
<1>. QED
  BY <1>1, <1>5

(* A sum is that of the rest and one element's share.                      *)
LEMMA SumStep ==
    ASSUME NEW f, NEW S, IsFiniteSet(S)
    PROVE  SumFunctionOnSet(f, S) =
               IF S = {} THEN 0 ELSE f[Some(S)] + SumFunctionOnSet(f, Rest(S))
<1>1. Total(f, S)[S] = IF S = {} THEN 0 ELSE f[Some(S)] + Total(f, S)[Rest(S)]
  <2>1. S \in SUBSET S
    OBVIOUS
  <2>. QED
    BY <2>1, TotalExists, TotalStep
<1>2. ASSUME S # {} PROVE Total(f, S)[Rest(S)] = Total(f, Rest(S))[Rest(S)]
  <2>1. Rest(S) \in SUBSET S /\ Rest(S) \in SUBSET Rest(S)
    BY <1>2, RestSmaller
  <2>2. IsFiniteSet(Rest(S))
    BY <2>1, FS_Subset
  <2>. QED
    BY <2>1, <2>2, TotalExists, TotalsAgree
<1>. QED
  BY <1>1, <1>2, SumIsTotal

LEMMA SumEmpty ==
    ASSUME NEW f
    PROVE  SumFunctionOnSet(f, {}) = 0
BY SumStep, FS_EmptySet

LEMMA SumType ==
    ASSUME NEW f, NEW S, IsFiniteSet(S), \A x \in S : f[x] \in Int
    PROVE  SumFunctionOnSet(f, S) \in Int
<1>. DEFINE B == {T \in SUBSET S : SumFunctionOnSet(f, T) \notin Int}
<1>. SUFFICES ASSUME B # {} PROVE FALSE
  OBVIOUS
<1>1. PICK T \in B : \A V \in B : V \subseteq T => V = T
  <2>. HIDE DEF B
  <2>1. B \in SUBSET SUBSET S
    BY DEF B
  <2>. QED
    BY <2>1, SmallestSet
<1>2. T \in SUBSET S /\ IsFiniteSet(T) /\ SumFunctionOnSet(f, T) \notin Int
  BY FS_Subset
<1>3. T # {}
  BY <1>2, SumEmpty
<1>4. SumFunctionOnSet(f, Rest(T)) \in Int
  BY <1>1, <1>2, <1>3, RestSmaller
<1>5. f[Some(T)] \in Int
  BY <1>2, <1>3, RestSmaller
<1>. QED
  BY <1>2, <1>3, <1>4, <1>5, SumStep

(* The order of the summands does not matter.                              *)
LEMMA SumTakeOut ==
    ASSUME NEW f, NEW S, IsFiniteSet(S), \A x \in S : f[x] \in Int, NEW y \in S
    PROVE  SumFunctionOnSet(f, S) = f[y] + SumFunctionOnSet(f, S \ {y})
<1>. DEFINE Splits(T, x) == SumFunctionOnSet(f, T) = f[x] + SumFunctionOnSet(f, T \ {x})
            B == {T \in SUBSET S : \E x \in T : ~ Splits(T, x)}
<1>. SUFFICES ASSUME B # {} PROVE FALSE
  OBVIOUS
<1>1. PICK T \in B : \A V \in B : V \subseteq T => V = T
  <2>. HIDE DEF B
  <2>1. B \in SUBSET SUBSET S
    BY DEF B
  <2>. QED
    BY <2>1, SmallestSet
<1>2. PICK x \in T : ~ Splits(T, x)
  OBVIOUS
<1>. DEFINE z == Some(T)
            R == (T \ {x}) \ {z}
<1>3. /\ T \in SUBSET S
      /\ IsFiniteSet(T)
      /\ z \in T
      /\ SumFunctionOnSet(f, T) = f[z] + SumFunctionOnSet(f, T \ {z})
  BY FS_Subset, SumStep, RestSmaller DEF Rest
<1>4. x # z
  BY <1>2, <1>3
<1>. HIDE DEF z
<1>5. Splits(T \ {z}, x) /\ Splits(T \ {x}, z)
  <2>. HIDE DEF Splits
  <2>1. T \ {z} \in SUBSET T /\ T \ {z} # T /\ x \in T \ {z}
    BY <1>3, <1>4
  <2>2. T \ {x} \in SUBSET T /\ T \ {x} # T /\ z \in T \ {x}
    BY <1>3, <1>4
  <2>. QED
    BY <1>1, <1>3, <2>1, <2>2
<1>6. (T \ {z}) \ {x} = R
  OBVIOUS
<1>. HIDE DEF R
<1>7. SumFunctionOnSet(f, R) \in Int /\ f[x] \in Int /\ f[z] \in Int
  <2>1. R \in SUBSET S /\ x \in S /\ z \in S
    BY <1>3 DEF R
  <2>2. IsFiniteSet(R)
    BY <1>3, FS_RemoveElement DEF R
  <2>. QED
    BY <2>1, <2>2, SumType
<1>8. /\ SumFunctionOnSet(f, T \ {z}) = f[x] + SumFunctionOnSet(f, R)
      /\ SumFunctionOnSet(f, T \ {x}) = f[z] + SumFunctionOnSet(f, R)
  BY <1>5, <1>6 DEF R
<1>. QED
  BY <1>2, <1>3, <1>7, <1>8

(* Only the shares of the elements count.                                  *)
LEMMA SumSame ==
    ASSUME NEW f, NEW g, NEW S, IsFiniteSet(S), \A x \in S : f[x] = g[x]
    PROVE  SumFunctionOnSet(f, S) = SumFunctionOnSet(g, S)
<1>. DEFINE B == {T \in SUBSET S : SumFunctionOnSet(f, T) # SumFunctionOnSet(g, T)}
<1>. SUFFICES ASSUME B # {} PROVE FALSE
  OBVIOUS
<1>1. PICK T \in B : \A V \in B : V \subseteq T => V = T
  <2>. HIDE DEF B
  <2>1. B \in SUBSET SUBSET S
    BY DEF B
  <2>. QED
    BY <2>1, SmallestSet
<1>2. /\ T \in SUBSET S
      /\ IsFiniteSet(T)
      /\ SumFunctionOnSet(f, T) # SumFunctionOnSet(g, T)
  BY FS_Subset
<1>3. T # {}
  BY <1>2, SumEmpty
<1>4. SumFunctionOnSet(f, Rest(T)) = SumFunctionOnSet(g, Rest(T))
  BY <1>1, <1>2, <1>3, RestSmaller
<1>5. f[Some(T)] = g[Some(T)]
  BY <1>2, <1>3, RestSmaller
<1>. QED
  BY <1>2, <1>3, <1>4, <1>5, SumStep

(* T is S, or S with x, and only the share of x may differ.                *)
Extends(f, S, g, T, x) ==
    /\ IsFiniteSet(S)
    /\ x \notin S
    /\ T \ {x} = S
    /\ \A y \in S : f[y] \in Int /\ g[y] = f[y]
    /\ x \in T => g[x] \in Int

(* What a step that touches one element does to a sum.                     *)
LEMMA SumExtended ==
    ASSUME NEW f, NEW g, NEW S, NEW T, NEW x, Extends(f, S, g, T, x)
    PROVE  /\ IsFiniteSet(T)
           /\ SumFunctionOnSet(f, S) \in Int
           /\ SumFunctionOnSet(g, T) \in Int
           /\ SumFunctionOnSet(g, T) =
                  SumFunctionOnSet(f, S) + (IF x \in T THEN g[x] ELSE 0)
<1>. USE DEF Extends
<1>1. SumFunctionOnSet(f, S) = SumFunctionOnSet(g, S) /\ SumFunctionOnSet(f, S) \in Int
  BY SumSame, SumType
<1>2. CASE x \notin T
  <2>1. T = S
    BY <1>2
  <2>. QED
    BY <1>1, <1>2, <2>1
<1>3. CASE x \in T
  <2>1. T = S \cup {x}
    BY <1>3
  <2>2. IsFiniteSet(T)
    BY <2>1, FS_AddElement
  <2>3. \A y \in T : g[y] \in Int
    BY <1>3
  <2>4. SumFunctionOnSet(g, T) = g[x] + SumFunctionOnSet(g, T \ {x})
    BY <1>3, <2>2, <2>3, SumTakeOut
  <2>5. SumFunctionOnSet(g, T) = g[x] + SumFunctionOnSet(f, S) /\ g[x] \in Int
    BY <1>1, <1>3, <2>4
  <2>. QED
    BY <1>1, <1>3, <2>2, <2>5
<1>. QED
  BY <1>2, <1>3

(* Sums of the same elements keep the proportion of the shares.            *)
LEMMA SumScaled ==
    ASSUME NEW f, NEW g, NEW S, IsFiniteSet(S), NEW p \in Int, NEW q \in Int,
           \A x \in S : f[x] \in Int /\ g[x] \in Int /\ f[x] * p <= g[x] * q
    PROVE  SumFunctionOnSet(f, S) * p <= SumFunctionOnSet(g, S) * q
<1>. DEFINE B == {T \in SUBSET S :
                    ~ (SumFunctionOnSet(f, T) * p <= SumFunctionOnSet(g, T) * q)}
<1>. SUFFICES ASSUME B # {} PROVE FALSE
  OBVIOUS
<1>1. PICK T \in B : \A V \in B : V \subseteq T => V = T
  <2>. HIDE DEF B
  <2>1. B \in SUBSET SUBSET S
    BY DEF B
  <2>. QED
    BY <2>1, SmallestSet
<1>2. /\ T \in SUBSET S
      /\ IsFiniteSet(T)
      /\ ~ (SumFunctionOnSet(f, T) * p <= SumFunctionOnSet(g, T) * q)
  BY FS_Subset
<1>3. T # {}
  <2>1. 0 * p <= 0 * q
    OBVIOUS
  <2>. QED
    BY <1>2, <2>1, SumEmpty
<1>. DEFINE F == SumFunctionOnSet(f, Rest(T))
            G == SumFunctionOnSet(g, Rest(T))
<1>4. Rest(T) \in SUBSET S /\ IsFiniteSet(Rest(T)) /\ Some(T) \in S
  BY <1>2, <1>3, RestSmaller, FS_Subset
<1>5. F \in Int /\ G \in Int /\ F * p <= G * q
  BY <1>1, <1>3, <1>4, RestSmaller, SumType
<1>6. /\ SumFunctionOnSet(f, T) = f[Some(T)] + F
      /\ SumFunctionOnSet(g, T) = g[Some(T)] + G
  BY <1>2, <1>3, SumStep
<1>. HIDE DEF F, G
<1>7. /\ f[Some(T)] \in Int
      /\ g[Some(T)] \in Int
      /\ f[Some(T)] * p <= g[Some(T)] * q
  BY <1>4
<1>8. /\ (f[Some(T)] + F) * p = f[Some(T)] * p + F * p
      /\ (g[Some(T)] + G) * q = g[Some(T)] * q + G * q
  BY <1>5, <1>7
<1>. QED
  BY <1>2, <1>5, <1>6, <1>7, <1>8

(* A larger set has no smaller sum.                                        *)
LEMMA SumLarger ==
    ASSUME NEW f, NEW S, IsFiniteSet(S), \A x \in S : f[x] \in Nat,
           NEW T \in SUBSET S
    PROVE  SumFunctionOnSet(f, T) <= SumFunctionOnSet(f, S)
<1>. DEFINE B == {U \in SUBSET S : T \subseteq U
                    /\ ~ (SumFunctionOnSet(f, T) <= SumFunctionOnSet(f, U))}
<1>. SUFFICES ASSUME B # {} PROVE FALSE
  OBVIOUS
<1>1. PICK U \in B : \A V \in B : V \subseteq U => V = U
  <2>. HIDE DEF B
  <2>1. B \in SUBSET SUBSET S
    BY DEF B
  <2>. QED
    BY <2>1, SmallestSet
<1>2. /\ U \in SUBSET S
      /\ T \in SUBSET U
      /\ IsFiniteSet(U)
      /\ IsFiniteSet(T)
      /\ ~ (SumFunctionOnSet(f, T) <= SumFunctionOnSet(f, U))
  BY FS_Subset
<1>3. \A V \in SUBSET S : IsFiniteSet(V) => SumFunctionOnSet(f, V) \in Int
  BY SumType
<1>4. PICK x \in U : x \notin T
  BY <1>2, <1>3
<1>5. SumFunctionOnSet(f, U) = f[x] + SumFunctionOnSet(f, U \ {x})
  <2>1. \A y \in U : f[y] \in Int
    BY <1>2
  <2>. QED
    BY <1>2, <2>1, SumTakeOut
<1>6. U \ {x} \in SUBSET S /\ IsFiniteSet(U \ {x}) /\ T \in SUBSET (U \ {x})
  BY <1>2, <1>4, FS_RemoveElement
<1>7. SumFunctionOnSet(f, T) <= SumFunctionOnSet(f, U \ {x})
  BY <1>1, <1>6
<1>. QED
  BY <1>2, <1>3, <1>5, <1>6, <1>7

-----------------------------------------------------------------------------
(* Decimal arithmetic                                                      *)

LEMMA LeastFacts ==
    ASSUME NEW S \in SUBSET Nat, S # {}
    PROVE  Least(S) \in S /\ \A q \in S : Least(S) <= q
<1>1. PICK p \in S : TRUE
  OBVIOUS
<1>. DEFINE B == {0 .. q : q \in {x \in S : x <= p}}
<1>2. PICK T \in B : \A U \in B : U \subseteq T => U = T
  <2>1. IsFiniteSet(0 .. p)
    BY <1>1, FS_Interval
  <2>2. B \in SUBSET SUBSET (0 .. p)
    BY <1>1
  <2>3. B # {}
    BY <1>1
  <2>. DEFINE Z == 0 .. p
  <2>. HIDE DEF B, Z
  <2>4. IsFiniteSet(Z) /\ B \in SUBSET SUBSET Z
    BY <2>1, <2>2 DEF Z
  <2>. QED
    BY <2>3, <2>4, SmallestSet
<1>3. PICK l \in S : l <= p /\ T = 0 .. l
  OBVIOUS
<1>4. ASSUME NEW q \in S, q < l PROVE FALSE
  <2>1. q \in Nat /\ l \in Nat /\ p \in Nat
    BY <1>1
  <2>2. 0 .. q \in B
    BY <1>3, <1>4, <2>1
  <2>3. 0 .. q \subseteq T /\ l \in T /\ l \notin 0 .. q
    BY <1>3, <1>4, <2>1
  <2>. QED
    BY <1>2, <2>2, <2>3
<1>5. \A q \in S : l <= q
  BY <1>4
<1>. QED
  BY <1>5 DEF Least

(* Rounding moves a quotient by at most one half.                          *)
LEMMA HalfEvenFacts ==
    ASSUME NEW n \in Nat, NEW d \in Nat \ {0}
    PROVE  /\ HalfEven(n, d) \in Nat
           /\ 2 * (HalfEven(n, d) * d) <= 2 * n + d
           /\ 2 * n <= 2 * (HalfEven(n, d) * d) + d
<1>. DEFINE low == n \div d
            rest == n % d
<1>1. low \in Nat /\ rest \in Nat /\ rest < d /\ n = low * d + rest
  OBVIOUS
<1>2. \/ HalfEven(n, d) = low + 1 /\ 2 * rest >= d
      \/ HalfEven(n, d) = low /\ 2 * rest <= d
  <2>1. HalfEven(n, d) = IF 2 * rest > d \/ (2 * rest = d /\ low % 2 = 1)
                         THEN low + 1 ELSE low
    BY DEF HalfEven
  <2>2. rest \in Nat
    BY <1>1
  <2>. HIDE DEF low, rest
  <2>. QED
    BY <2>1, <2>2
<1>3. (low + 1) * d = low * d + d /\ low * d \in Nat
  <2>. HIDE DEF low, rest
  <2>. QED
    BY <1>1
<1>. HIDE DEF low, rest
<1>4. CASE HalfEven(n, d) = low + 1 /\ 2 * rest >= d
  BY <1>1, <1>3, <1>4
<1>5. CASE HalfEven(n, d) = low /\ 2 * rest <= d
  BY <1>1, <1>3, <1>5
<1>. QED
  BY <1>2, <1>4, <1>5

(* The least power of ten of a kind is 1, or a tenth of it is not of it.   *)
LEMMA LeastPower ==
    ASSUME NEW S \in SUBSET Power, S # {}
    PROVE  /\ Least(S) \in S /\ Least(S) \in Nat \ {0}
           /\ \/ Least(S) = 1
              \/ \E p \in Power \ S : Least(S) = 10 * p /\ p \in Nat \ {0}
<1>1. Least(S) \in S /\ \A q \in S : Least(S) <= q
  BY WalletOpsAssumption, LeastFacts
<1>2. Least(S) \in Nat \ {0} /\ Least(S) \in Power
  BY <1>1, WalletOpsAssumption
<1>. QED
  BY <1>1, <1>2, WalletOpsAssumption

(* What is cut off a coefficient: nothing, or so much that 28 digits stay. *)
LEMMA SurplusFacts ==
    ASSUME NEW n \in Nat, NEW p \in Power, n < 10 * Leading * p
    PROVE  /\ Surplus(n) \in Nat \ {0}
           /\ Surplus(n) = 1 \/ Leading * Surplus(n) <= n
           /\ Rounded(n) \in Nat
           /\ 2 * Rounded(n) <= 2 * n + Surplus(n)
           /\ 2 * n <= 2 * Rounded(n) + Surplus(n)
<1>. DEFINE S == {q \in Power : n < 10 * Leading * q}
            u == Surplus(n)
<1>1. u = Least(S) /\ S \in SUBSET Power /\ S # {}
  BY DEF Surplus
<1>2. /\ u \in Nat \ {0}
      /\ u = 1 \/ \E q \in Power \ S : u = 10 * q /\ q \in Nat \ {0}
  <2>. HIDE DEF S, u
  <2>. QED
    BY <1>1, LeastPower
<1>3. u = 1 \/ Leading * u <= n
  <2>1. ASSUME NEW q \in Power \ S, u = 10 * q, q \in Nat \ {0}
        PROVE  Leading * u <= n
    <3>1. ~ (n < 10 * Leading * q)
      OBVIOUS
    <3>2. Leading \in Nat
      BY WalletOpsAssumption
    <3>3. 10 * Leading * q = Leading * u /\ Leading * u \in Nat
      <4>. HIDE DEF u, S
      <4>. QED
        BY <2>1, <3>2
    <3>. HIDE DEF u, S
    <3>. QED
      BY <3>1, <3>3
  <2>. QED
    BY <1>2, <2>1
<1>. HIDE DEF S
<1>4. Rounded(n) = HalfEven(n, u) * u
  BY DEF Rounded
<1>. HIDE DEF u
<1>5. /\ HalfEven(n, u) \in Nat
      /\ 2 * (HalfEven(n, u) * u) <= 2 * n + u
      /\ 2 * n <= 2 * (HalfEven(n, u) * u) + u
  BY <1>2, HalfEvenFacts
<1>6. Rounded(n) \in Nat
  BY <1>2, <1>4, <1>5
<1>. QED
  BY <1>2, <1>3, <1>4, <1>5, <1>6 DEF u

(* A quotient has 28 digits, and is off by half a unit of the last.        *)
LEMMA QuotientFacts ==
    ASSUME NEW a \in Nat, NEW r \in [pts : Nat \ {0}, idr : Nat],
           \E p \in Power : a * p >= r.pts * Leading
    PROVE  LET s == Places(a, r)
               q == Quotient(a, r)
           IN  /\ s \in Nat \ {0} /\ q \in Nat
               /\ r.pts * Leading <= a * s
               /\ a <= Leading => q <= 10 * Leading
               /\ 2 * (q * r.pts) <= 2 * (a * s) + r.pts
               /\ 2 * (a * s) <= 2 * (q * r.pts) + r.pts
<1>. DEFINE b == r.pts
            S == {p \in Power : a * p >= r.pts * Leading}
            s == Places(a, r)
            q == Quotient(a, r)
<1>0. b \in Nat \ {0} /\ Leading \in Nat \ {0}
  BY WalletOpsAssumption
<1>1. s = Least(S) /\ S \in SUBSET Power /\ S # {}
  BY DEF Places
<1>2. /\ s \in S /\ s \in Nat \ {0}
      /\ s = 1 \/ \E p \in Power \ S : s = 10 * p /\ p \in Nat \ {0}
  <2>. HIDE DEF S, s
  <2>. QED
    BY <1>1, LeastPower
<1>3. b * Leading <= a * s
  BY <1>2
<1>4. a <= Leading => a * s <= 10 * (b * Leading)
  <2>. SUFFICES ASSUME a <= Leading PROVE a * s <= 10 * (b * Leading)
    OBVIOUS
  <2>1. CASE s = 1
    <3>1. Leading <= b * Leading
      <4>. HIDE DEF b
      <4>. QED
        BY <1>0
    <3>2. b * Leading \in Nat
      <4>. HIDE DEF b
      <4>. QED
        BY <1>0
    <3>. HIDE DEF b, s, S
    <3>. QED
      BY <1>0, <2>1, <3>1, <3>2
  <2>2. ASSUME NEW p \in Power \ S, s = 10 * p, p \in Nat \ {0}
        PROVE  a * s <= 10 * (b * Leading)
    <3>1. ~ (a * p >= b * Leading)
      OBVIOUS
    <3>2. a * s = 10 * (a * p) /\ a * p \in Nat
      <4>. HIDE DEF b, s, S
      <4>. QED
        BY <2>2
    <3>3. b * Leading \in Nat
      <4>. HIDE DEF b
      <4>. QED
        BY <1>0
    <3>. HIDE DEF b, s, S
    <3>. QED
      BY <3>1, <3>2, <3>3
  <2>. QED
    BY <1>2, <2>1, <2>2
<1>5. q = HalfEven(a * s, b)
  BY DEF Quotient
<1>. HIDE DEF b, s, S, q
<1>6. a * s \in Nat
  BY <1>2
<1>7. /\ q \in Nat
      /\ 2 * (q * b) <= 2 * (a * s) + b
      /\ 2 * (a * s) <= 2 * (q * b) + b
  BY <1>0, <1>5, <1>6, HalfEvenFacts
<1>8. a <= Leading => q <= 10 * Leading
  <2>. SUFFICES ASSUME a <= Leading, q >= 10 * Leading + 1 PROVE FALSE
    BY <1>0, <1>7
  <2>1. q * b >= (10 * Leading + 1) * b
    BY <1>0, <1>7
  <2>2. (10 * Leading + 1) * b = 10 * (b * Leading) + b /\ b * Leading \in Nat
    BY <1>0
  <2>3. q * b \in Nat
    BY <1>0, <1>7
  <2>. QED
    BY <1>0, <1>4, <1>6, <1>7, <2>1, <2>2, <2>3
<1>. QED
  BY <1>2, <1>3, <1>7, <1>8 DEF b, s, q

LEMMA TimesGrows ==
    ASSUME NEW x \in Int, NEW y \in Int, NEW k \in Nat, x <= y
    PROVE  x * k <= y * k
OBVIOUS

LEMMA TimesShrinks ==
    ASSUME NEW x \in Int, NEW y \in Int, NEW k \in Nat \ {0}, x * k < y * k
    PROVE  x < y
<1>. SUFFICES ASSUME y <= x PROVE FALSE
  OBVIOUS
<1>. QED
  BY TimesGrows

(* The unit of the last digit is small beside what is asked: the errors of *)
(* both roundings together are less than one part in r.pts of a cent.      *)
LEMMA ErrorsAreSmall ==
    ASSUME NEW a \in Nat, NEW b \in Nat \ {0}, NEW i \in Nat \ {0},
           NEW s \in Nat \ {0}, NEW u \in Nat \ {0},
           6 * (a * i) <= Leading, b * Leading <= a * s, u <= 10 * i
    PROVE  (i + u) * b < 2 * s
<1>. DEFINE K == (i + u) * b
<1>1. Leading \in Nat \ {0}
  BY WalletOpsAssumption
<1>2. a # 0
  <2>. SUFFICES ASSUME a = 0 PROVE FALSE
    OBVIOUS
  <2>1. a * s = 0
    OBVIOUS
  <2>2. b * Leading \in Nat /\ b * Leading >= 1
    BY <1>1
  <2>3. b * Leading <= a * s
    OBVIOUS
  <2>. QED
    BY <2>1, <2>2, <2>3
<1>3. a * i \in Nat /\ a * i >= 1
  BY <1>2
<1>4. K \in Nat /\ K <= 11 * (i * b)
  <2>1. (i + u) * b <= (11 * i) * b
    BY TimesGrows
  <2>. QED
    BY <2>1
<1>5. K * a <= (11 * (a * i)) * b
  <2>1. K * a <= (11 * (i * b)) * a
    BY <1>4, TimesGrows
  <2>2. (11 * (i * b)) * a = (11 * (a * i)) * b
    OBVIOUS
  <2>. HIDE DEF K
  <2>. QED
    BY <2>1, <2>2
<1>6. (11 * (a * i)) * b < 2 * (b * Leading)
  <2>1. 11 * (a * i) <= 2 * Leading - 1
    BY <1>1, <1>3
  <2>2. (11 * (a * i)) * b <= (2 * Leading - 1) * b
    BY <1>1, <1>3, <2>1, TimesGrows
  <2>3. (2 * Leading - 1) * b = 2 * (b * Leading) - b /\ b * Leading \in Nat
    BY <1>1
  <2>4. (11 * (a * i)) * b \in Nat
    BY <1>3
  <2>. QED
    BY <2>2, <2>3, <2>4
<1>7. K * a < (2 * s) * a
  <2>1. (2 * s) * a = 2 * (a * s) /\ a * s \in Nat /\ b * Leading \in Nat
    BY <1>1
  <2>2. K * a \in Nat /\ (11 * (a * i)) * b \in Nat
    BY <1>3, <1>4
  <2>. HIDE DEF K
  <2>. QED
    BY <1>5, <1>6, <2>1, <2>2
<1>. HIDE DEF K
<1>8. K < 2 * s
  BY <1>2, <1>4, <1>7, TimesShrinks
<1>. QED
  BY <1>8 DEF K

(* With those errors, cutting to cents misses the rate by less than one.   *)
LEMMA CutFacts ==
    ASSUME NEW a \in Nat, NEW b \in Nat \ {0}, NEW i \in Nat, NEW s \in Nat \ {0},
           NEW u \in Nat \ {0}, NEW q \in Nat, NEW R \in Nat, NEW W \in Nat,
           2 * (q * b) <= 2 * (a * s) + b,
           2 * (a * s) <= 2 * (q * b) + b,
           2 * R <= 2 * (q * i) + u,
           2 * (q * i) <= 2 * R + u,
           W * s <= R, R < (W + 1) * s,
           (i + u) * b < 2 * s
    PROVE  W * b <= a * i /\ a * i <= (W + 1) * b
<1>1. /\ a * i \in Nat /\ (i + u) * b \in Nat /\ a * s \in Nat /\ q * b \in Nat
      /\ q * i \in Nat /\ R * b \in Nat /\ (q * i) * b \in Nat /\ u * b \in Nat
      /\ (a * i) * s \in Nat /\ W * s \in Nat /\ (W + 1) * s \in Nat
      /\ (W * b) * s \in Nat /\ ((W + 1) * b) * s \in Nat /\ i * b \in Nat
  OBVIOUS
<1>2. /\ 2 * (R * b) <= 2 * ((q * i) * b) + u * b
      /\ 2 * ((q * i) * b) <= 2 * (R * b) + u * b
  <2>1. /\ (2 * R) * b <= (2 * (q * i) + u) * b
        /\ (2 * (q * i)) * b <= (2 * R + u) * b
    BY <1>1, TimesGrows
  <2>2. /\ (2 * R) * b = 2 * (R * b)
        /\ (2 * (q * i) + u) * b = 2 * ((q * i) * b) + u * b
        /\ (2 * (q * i)) * b = 2 * ((q * i) * b)
        /\ (2 * R + u) * b = 2 * (R * b) + u * b
    BY <1>1
  <2>. QED
    BY <2>1, <2>2
<1>3. /\ 2 * ((q * i) * b) <= 2 * ((a * i) * s) + i * b
      /\ 2 * ((a * i) * s) <= 2 * ((q * i) * b) + i * b
  <2>1. /\ (2 * (q * b)) * i <= (2 * (a * s) + b) * i
        /\ (2 * (a * s)) * i <= (2 * (q * b) + b) * i
    BY <1>1, TimesGrows
  <2>2. /\ (2 * (q * b)) * i = 2 * ((q * i) * b)
        /\ (2 * (a * s) + b) * i = 2 * ((a * i) * s) + i * b
        /\ (2 * (a * s)) * i = 2 * ((a * i) * s)
        /\ (2 * (q * b) + b) * i = 2 * ((q * i) * b) + i * b
    OBVIOUS
  <2>. QED
    BY <2>1, <2>2
<1>4. (i + u) * b = i * b + u * b
  OBVIOUS
<1>5. /\ R * b < (a * i) * s + s
      /\ (a * i) * s < R * b + s
  BY <1>1, <1>2, <1>3, <1>4
<1>6. W * b <= a * i
  <2>1. (W * s) * b <= R * b /\ (W * s) * b = (W * b) * s
    BY <1>1, TimesGrows
  <2>2. (a * i) * s + s = (a * i + 1) * s
    BY <1>1
  <2>3. (W * b) * s < (a * i + 1) * s
    BY <1>1, <1>5, <2>1, <2>2
  <2>4. W * b \in Nat
    OBVIOUS
  <2>5. W * b < a * i + 1
    BY <1>1, <2>3, <2>4, TimesShrinks
  <2>. QED
    BY <1>1, <2>4, <2>5
<1>7. a * i <= (W + 1) * b
  <2>1. R * b <= ((W + 1) * s - 1) * b
    BY <1>1, TimesGrows
  <2>2. /\ ((W + 1) * s - 1) * b = ((W + 1) * b) * s - b
    BY <1>1
  <2>3. (a * i) * s < ((W + 1) * b) * s + s
    BY <1>1, <1>5, <2>1, <2>2
  <2>4. ((W + 1) * b) * s + s = ((W + 1) * b + 1) * s
    BY <1>1
  <2>5. (W + 1) * b \in Nat
    OBVIOUS
  <2>6. a * i < (W + 1) * b + 1
    BY <1>1, <2>3, <2>4, <2>5, TimesShrinks
  <2>. QED
    BY <1>1, <2>5, <2>6
<1>. QED
  BY <1>6, <1>7

(* What exchange_pts gives for a points at rate r, although it divides     *)
(* first: no more than the rate, and less by at most one cent.             *)
LEMMA WorthAtFacts ==
    ASSUME NEW a \in Nat, NEW r \in [pts : Nat \ {0}, idr : Nat],
           6 * (a * r.idr) <= Leading,
           \E p \in Power : a * p >= r.pts * Leading,
           \E p \in Power : r.idr < p
    PROVE  /\ WorthAt(a, r) \in Nat
           /\ WorthAt(a, r) * r.pts <= a * r.idr
           /\ a * r.idr <= (WorthAt(a, r) + 1) * r.pts
<1>. DEFINE b == r.pts
            i == r.idr
            s == Places(a, r)
            q == Quotient(a, r)
            u == Surplus(q * i)
            R == Rounded(q * i)
            W == WorthAt(a, r)
<1>1. b \in Nat \ {0} /\ i \in Nat /\ Leading \in Nat \ {0}
  BY WalletOpsAssumption
<1>2. /\ s \in Nat \ {0} /\ q \in Nat
      /\ b * Leading <= a * s
      /\ a <= Leading => q <= 10 * Leading
      /\ 2 * (q * b) <= 2 * (a * s) + b
      /\ 2 * (a * s) <= 2 * (q * b) + b
  BY QuotientFacts
<1>3. W = R \div s
  BY DEF WorthAt
<1>4. i # 0 => q * i <= 10 * (Leading * i)
  <2>. SUFFICES ASSUME i # 0 PROVE q * i <= 10 * (Leading * i)
    OBVIOUS
  <2>. HIDE DEF b, s, q
  <2>1. a * i \in Nat /\ 6 * (a * i) <= Leading
    BY <1>1
  <2>2. a * 1 <= i * a
    BY <1>1, TimesGrows
  <2>3. a <= Leading
    <3>. HIDE DEF i
    <3>. QED
      BY <1>1, <2>1, <2>2
  <2>4. q <= 10 * Leading
    BY <1>2, <2>3
  <2>5. q * i <= (10 * Leading) * i
    BY <1>1, <1>2, <2>4, TimesGrows
  <2>. HIDE DEF i
  <2>. QED
    BY <1>1, <2>5
<1>5. \E p \in Power : q * i < 10 * Leading * p
  <2>1. CASE i = 0
    <3>1. q * i = 0
      <4>. HIDE DEF i, q
      <4>. QED
        BY <1>2, <2>1
    <3>2. 0 < 10 * Leading * 1 /\ 1 \in Power
      BY <1>1, WalletOpsAssumption
    <3>. QED
      BY <3>1, <3>2
  <2>2. CASE i # 0
    <3>1. PICK p \in Power : i < p
      OBVIOUS
    <3>2. p \in Nat
      BY WalletOpsAssumption
    <3>. HIDE DEF i, q
    <3>3. i * Leading < p * Leading
      BY <1>1, <3>1, <3>2
    <3>4. q * i < 10 * Leading * p
      <4>1. q * i \in Nat /\ Leading * i \in Nat
        BY <1>1, <1>2
      <4>. QED
        BY <1>1, <1>4, <2>2, <3>2, <3>3, <4>1
    <3>. QED
      BY <3>4
  <2>. QED
    BY <2>1, <2>2
<1>. HIDE DEF b, i, s, q, W
<1>6. q * i \in Nat
  BY <1>1, <1>2
<1>7. /\ u \in Nat \ {0}
      /\ u = 1 \/ Leading * u <= q * i
      /\ R \in Nat
      /\ 2 * R <= 2 * (q * i) + u
      /\ 2 * (q * i) <= 2 * R + u
  BY <1>5, <1>6, SurplusFacts
<1>. HIDE DEF u, R
<1>8. W \in Nat /\ W * s <= R /\ R < (W + 1) * s
  BY <1>2, <1>3, <1>7
<1>9. CASE i = 0
  <2>1. q * i = 0 /\ a * i = 0
    BY <1>2, <1>9
  <2>2. u = 1
    <3>. SUFFICES ASSUME Leading * u <= 0 PROVE FALSE
      BY <1>7, <2>1
    <3>1. Leading * u \in Nat /\ Leading * u >= 1
      BY <1>1, <1>7
    <3>. QED
      BY <3>1
  <2>3. R = 0
    BY <1>7, <2>1, <2>2
  <2>4. W = 0
    BY <1>2, <1>3, <2>3
  <2>5. W * b = 0 /\ 0 <= (W + 1) * b
    BY <1>1, <2>4
  <2>. QED
    BY <1>8, <2>1, <2>5 DEF W, b, i
<1>10. CASE i # 0
  <2>1. u <= 10 * i
    <3>. SUFFICES ASSUME Leading * u <= q * i PROVE u <= 10 * i
      BY <1>1, <1>7, <1>10
    <3>1. u * Leading <= (10 * i) * Leading
      BY <1>1, <1>4, <1>6, <1>7, <1>10
    <3>2. u * Leading < (10 * i + 1) * Leading
      BY <1>1, <1>7, <3>1
    <3>3. u < 10 * i + 1
      BY <1>1, <1>7, <3>2, TimesShrinks
    <3>. QED
      BY <1>1, <1>7, <3>3
  <2>2. 6 * (a * i) <= Leading
    BY DEF i
  <2>3. (i + u) * b < 2 * s
    BY <1>1, <1>2, <1>7, <1>10, <2>1, <2>2, ErrorsAreSmall
  <2>4. W * b <= a * i /\ a * i <= (W + 1) * b
    BY <1>1, <1>2, <1>7, <1>8, <2>3, CutFacts
  <2>. QED
    BY <1>8, <2>4 DEF W, b, i
<1>. QED
  BY <1>9, <1>10

-----------------------------------------------------------------------------
(* What the operators of the invariant rest on                             *)

USE WalletsAssumption, MoneyCallsAssumption

(* What a call that has come, and has not failed, can rely on.             *)
LEMMA CallFacts ==
    ASSUME IInv, NEW c \in Call, pc[c] \notin {"idle", "failed"}
    PROVE  /\ asked[c] \in Question
           /\ asked[c].op \in {"topup", "exchange", "allow", "adjust", "transfer",
                               "spend", "unspend"}
           /\ asked[c].user \in User
           /\ asked[c].amount \in Nat
           /\ asked[c].currency \in Currency
           /\ asked[c].flag \in BOOLEAN
           /\ work[c] \in Work
           /\ work[c].amount \in Nat
           /\ work[c].currency \in Currency
           /\ asked[c].op \in {"adjust", "transfer"} => asked[c].about \in Allowance
           /\ asked[c].op = "unspend" => asked[c].about \in Call
<1>1. asked[c] \in Ask
  BY DEF IInv, InStep
<1>2. asked[c] \in Question
  BY <1>1
<1>3. work[c] \in Work
  BY DEF IInv, TypeOK, MoneyTypeOK
<1>. QED
  BY <1>1, <1>2, <1>3 DEF Question, Work, Allowance

LEMMA RowFacts ==
    ASSUME IInv, NEW a \in Allowance
    PROVE  /\ allowance[a] \in AllowanceRow
           /\ allowance[a].amount \in Nat
           /\ allowance[a].currency \in Currency
           /\ allowance[a].active \in BOOLEAN
           /\ allowance[a].status \in {"absent", "open"}
           /\ allowance[a].status = "open" =>
                allowance[a].parent \in User /\ allowance[a].child \in User
<1>1. allowance[a] \in AllowanceRow
  BY DEF IInv, TypeOK
<1>. QED
  BY <1>1 DEF AllowanceRow, IInv, RowsInStep

(* The calls that a sum runs over are finitely many.                       *)
LEMMA FiniteCalls ==
    ASSUME FinitelyMany, NEW S \in SUBSET Call, \A c \in S : pc[c] # "idle"
    PROVE  IsFiniteSet(S)
<1>1. S \in SUBSET {c \in Call : pc[c] # "idle"}
  OBVIOUS
<1>. QED
  BY <1>1, FS_Subset DEF FinitelyMany

LEMMA CountedFacts ==
    ASSUME IInv, NEW c \in Call, NEW d \in counted[c]
    PROVE  /\ d \in Call
           /\ d # c
           /\ asked[d].op = "spend"
           /\ pc[d] = "done"
           /\ pc[c] # "idle"
           /\ expense[d] # "absent"
           /\ asked[d].flag
           /\ pc[c] # "failed" => asked[d].user = asked[c].user
           /\ asked[d].amount \in Nat
<1>1. d \in Call
  BY DEF IInv, TypeOK
<1>2. /\ d # c /\ expense[d] # "absent" /\ pc[c] # "idle"
      /\ asked[d].flag /\ (pc[c] # "failed" => asked[d].user = asked[c].user)
  BY DEF IInv, CountsRight
<1>3. d \in Done("spend")
  BY <1>1, <1>2 DEF IInv, RowsInStep
<1>4. asked[d].op = "spend" /\ pc[d] = "done"
  BY <1>3 DEF Done
<1>. QED
  BY <1>1, <1>2, <1>4, CallFacts

-----------------------------------------------------------------------------
(* What every step of one call has in common                               *)

(* What a step of call c must not touch of the others.                     *)
LeavesOthers(c) ==
    /\ \A d \in Call \ {c} :
        /\ pc'[d] = pc[d] /\ asked'[d] = asked[d] /\ work'[d] = work[d]
        /\ delta'[d] = delta[d] /\ counted'[d] = counted[d]
    /\ pc[c] # "idle" /\ pc'[c] # "failed" => asked'[c] = asked[c]
    /\ rate' = rate

(* What it may only add to.                                                *)
KeepsRows(c) ==
    /\ \A a \in Allowance : allowance[a].status = "open" =>
        /\ allowance'[a].status = "open"
        /\ allowance'[a].parent = allowance[a].parent
        /\ allowance'[a].child = allowance[a].child
    /\ \A d \in Call \ {c} :
        /\ versions[d] \subseteq versions'[d]
        /\ At(d, "transfer", "reading") /\ Terms(Row(d)) \in versions[d] =>
               Terms(allowance'[Target(d)]) \in versions'[d]
    /\ \A d \in Call : expense[d] # "absent" => expense'[d] # "absent"
    /\ \A d \in Call : expense'[d] = "recent" => expense[d] = "recent" \/ d = c

MovesInStep(c) ==
    \A u \in User, cur \in Currency :
        delta[c][u][cur] = Received(c, u, cur) - Given(c, u, cur)

LEMMA OthersInStep ==
    ASSUME IInv, NEW c \in Call, pc[c] \notin Ended, LeavesOthers(c), KeepsRows(c),
           NEW d \in Call \ {c}
    PROVE  InStep(d)'
<1>. USE DEF LeavesOthers, KeepsRows
<1>1. InStep(d)
  BY DEF IInv
<1>. SUFFICES ASSUME pc[d] \notin {"idle", "failed"} PROVE InStep(d)'
  BY DEF InStep, Ended
<1>2. /\ pc'[d] = pc[d] /\ asked'[d] = asked[d] /\ work'[d] = work[d]
      /\ Target(d)' = Target(d)
  BY DEF Target
<1>3. ASSUME asked[d].op \in {"adjust", "transfer"}, Row(d).status = "open"
      PROVE  Row(d)'.status = "open"
  BY <1>2, <1>3, CallFacts DEF Row, Target
<1>4. ASSUME pc[d] \notin Ended, asked[d].op = "transfer", TransferInStep(d)
      PROVE  TransferInStep(d)'
  BY <1>2, <1>3, <1>4 DEF TransferInStep, Row, At
<1>5. ASSUME asked[d].op = "unspend", UnspendInStep(d)
      PROVE  UnspendInStep(d)'
  <2>. SUFFICES ASSUME pc[d] # "reading"
                PROVE  UnspendInStep(d)'
    BY <1>2 DEF UnspendInStep
  <2>. DEFINE x == asked[d].about
  <2>1. x \in Call /\ expense[x] # "absent" /\ ~ asked[x].flag
    BY <1>5, CallFacts DEF UnspendInStep
  <2>2. pc[x] = "done"
    BY <2>1 DEF IInv, RowsInStep, Done
  <2>3. asked'[x] = asked[x] /\ expense'[x] # "absent"
    BY <2>1, <2>2 DEF Ended
  <2>. QED
    BY <1>2, <2>1, <2>3 DEF UnspendInStep
<1>6. ASSUME asked[d].op = "exchange", ExchangeInStep(d) PROVE ExchangeInStep(d)'
  BY <1>2, <1>6 DEF ExchangeInStep, Exchangeable, Worth
<1>7. /\ TopupInStep(d) => TopupInStep(d)'
      /\ SpendInStep(d) => SpendInStep(d)'
      /\ AllowInStep(d) => AllowInStep(d)'
  BY <1>2 DEF TopupInStep, SpendInStep, AllowInStep
<1>8. asked[d].op = "adjust" /\ AdjustInStep(d) => AdjustInStep(d)'
  BY <1>2, <1>3 DEF AdjustInStep
<1>9. Statements' = Statements
  BY DEF Statements
<1>. QED
  BY <1>1, <1>2, <1>4, <1>5, <1>6, <1>7, <1>8, <1>9 DEF InStep

LEMMA OthersMoves ==
    ASSUME IInv, NEW c \in Call, LeavesOthers(c), KeepsRows(c), NEW d \in Call \ {c}
    PROVE  MovesInStep(d)'
<1>. USE DEF LeavesOthers
<1>1. /\ pc'[d] = pc[d] /\ asked'[d] = asked[d] /\ work'[d] = work[d]
      /\ delta'[d] = delta[d]
  OBVIOUS
<1>2. asked[d].op = "transfer" /\ pc[d] = "recording" => Row(d)'.child = Row(d).child
  <2>. SUFFICES ASSUME asked[d].op = "transfer", pc[d] = "recording"
                PROVE  Row(d)'.child = Row(d).child
    OBVIOUS
  <2>1. Row(d).status = "open"
    BY DEF IInv, InStep, TransferInStep, Ended
  <2>. QED
    BY <1>1, <2>1, CallFacts DEF KeepsRows, Row, Target
<1>3. ASSUME NEW u \in User, NEW cur \in Currency
      PROVE  /\ Given(d, u, cur)' = Given(d, u, cur)
             /\ Received(d, u, cur)' = Received(d, u, cur)
  BY <1>1, <1>2 DEF Given, Received, At
<1>4. MovesInStep(d)
  BY DEF IInv, InFlightIsMove, MovesInStep
<1>. QED
  BY <1>1, <1>3, <1>4 DEF MovesInStep

LEMMA CountedKept ==
    ASSUME IInv, NEW c \in Call, pc[c] \notin Ended, LeavesOthers(c), KeepsRows(c),
           NEW d \in Call, counted'[d] = counted[d]
    PROVE  /\ \A y \in counted[d] :
                /\ y # d /\ expense'[y] # "absent"
                /\ asked'[y].flag
                /\ pc[d] # "failed" => asked'[y].user = asked[d].user
                /\ \A e \in counted'[y] : expense'[e] = "recent" => e \in counted[d]
           /\ Spent(counted[d])' = Spent(counted[d])
<1>. USE DEF LeavesOthers, KeepsRows
<1>1. ASSUME NEW x \in Call, NEW y \in counted[x]
      PROVE  /\ y # c /\ y \in Call
             /\ asked'[y] = asked[y]
             /\ counted'[y] = counted[y]
  BY CountedFacts DEF Ended
<1>2. ASSUME NEW y \in counted[d]
      PROVE  /\ y # d /\ expense'[y] # "absent"
             /\ asked'[y].flag
             /\ pc[d] # "failed" => asked'[y].user = asked[d].user
             /\ \A e \in counted'[y] : expense'[e] = "recent" => e \in counted[d]
  <2>1. \A e \in counted[y] : expense[e] = "recent" => e \in counted[d]
    BY DEF IInv, CountsRight
  <2>2. \A e \in counted[y] : e # c /\ e \in Call
    BY <1>1
  <2>. QED
    BY <1>1, <2>1, <2>2, CountedFacts
<1>3. Spent(counted[d])' = Spent(counted[d])
  <2>1. IsFiniteSet(counted[d])
    <3>1. counted[d] \in SUBSET Call /\ \A x \in counted[d] : pc[x] # "idle"
      BY CountedFacts
    <3>. QED
      BY <3>1, FiniteCalls DEF IInv
  <2>. DEFINE f == [x \in Call |-> asked[x].amount]
              g == [x \in Call |-> asked'[x].amount]
  <2>2. \A x \in counted[d] : f[x] = g[x]
    BY <1>1
  <2>3. SumFunctionOnSet(f, counted[d]) = SumFunctionOnSet(g, counted[d])
    <3>. HIDE DEF f, g
    <3>. QED
      BY <2>1, <2>2, SumSame
  <2>. QED
    BY <2>3 DEF Spent
<1>. QED
  BY <1>2, <1>3

LEMMA OthersCount ==
    ASSUME IInv, NEW c \in Call, pc[c] \notin Ended, LeavesOthers(c), KeepsRows(c),
           NEW d \in Call \ {c}
    PROVE  CountsRight(d)'
<1>1. pc'[d] = pc[d] /\ asked'[d] = asked[d] /\ counted'[d] = counted[d]
  BY DEF LeavesOthers
<1>2. CountsRight(d)
  BY DEF IInv
<1>. QED
  BY <1>1, <1>2, CountedKept DEF CountsRight

(* A step of a call that neither counts nor, having counted, must have.    *)
CountsNothing(c) ==
    /\ counted'[c] = counted[c]
    /\ pc'[c] # "idle"
    /\ \/ pc'[c] \notin {"debiting", "inserting", "done"}
       \/ pc[c] \in {"debiting", "inserting"}
       \/ asked'[c].op # "spend"
       \/ ~ asked'[c].flag

LEMMA OwnCount ==
    ASSUME IInv, NEW c \in Call, pc[c] \notin Ended, LeavesOthers(c), KeepsRows(c),
           CountsNothing(c)
    PROVE  CountsRight(c)'
<1>. USE DEF CountsNothing
<1>1. pc[c] = "idle" => counted[c] = {}
  BY CountedFacts
<1>2. pc[c] # "idle" /\ pc'[c] # "failed" => asked'[c] = asked[c]
  BY DEF LeavesOthers
<1>3. CountsRight(c)
  BY DEF IInv
<1>. QED
  BY <1>1, <1>2, <1>3, CountedKept DEF CountsRight, Ended

LEMMA StillFinite ==
    ASSUME FinitelyMany, NEW c \in Call, \A d \in Call \ {c} : pc'[d] = pc[d],
           NEW e, ledger' \subseteq ledger \cup {e}
    PROVE  FinitelyMany'
<1>. DEFINE S == {d \in Call : pc[d] # "idle"}
<1>1. IsFiniteSet(S \cup {c}) /\ IsFiniteSet(ledger \cup {e})
  BY FS_AddElement DEF FinitelyMany
<1>2. {d \in Call : pc'[d] # "idle"} \in SUBSET (S \cup {c})
  OBVIOUS
<1>3. ledger' \in SUBSET (ledger \cup {e})
  OBVIOUS
<1>. HIDE DEF S
<1>. QED
  BY <1>1, <1>2, <1>3, FS_Subset DEF FinitelyMany

(* What is left to see for a step: its own call and the shared parts.      *)
LEMMA StepInv ==
    ASSUME IInv, NEW c \in Call, pc[c] \notin Ended, LeavesOthers(c), KeepsRows(c),
           NEW e, ledger' \subseteq ledger \cup {e},
           TypeOK', InFlightCovered',
           InStep(c)', MovesInStep(c)', CountsRight(c)',
           RowsInStep', Explained', PaidAsAgreed', DeductionsOnRecord'
    PROVE  IInv'
<1>1. \A d \in Call : InStep(d)' /\ MovesInStep(d)' /\ CountsRight(d)'
  BY OthersInStep, OthersMoves, OthersCount
<1>2. FinitelyMany'
  BY StillFinite DEF IInv, LeavesOthers
<1>3. InFlightIsMove'
  BY <1>1 DEF InFlightIsMove, MovesInStep
<1>. QED
  BY <1>1, <1>2, <1>3 DEF IInv

-----------------------------------------------------------------------------
(* What a step does to the sums of Explained                               *)

LEMMA DoneFacts ==
    ASSUME IInv, NEW op
    PROVE  /\ IsFiniteSet(Done(op))
           /\ \A c \in Done(op) : /\ c \in Call
                                  /\ pc[c] = "done"
                                  /\ asked[c].op = op
                                  /\ AskedFor[c] = asked[c].amount
                                  /\ AskedFor[c] \in Nat
<1>1. \A c \in Done(op) : c \in Call /\ pc[c] = "done" /\ asked[c].op = op
  BY DEF Done
<1>2. IsFiniteSet(Done(op))
  BY <1>1, FiniteCalls DEF IInv
<1>. QED
  BY <1>1, <1>2, CallFacts DEF AskedFor

(* Points are never worth more than the rate says, and what they are worth *)
(* falls short of it by at most a cent.                                    *)
LEMMA WorthFacts ==
    ASSUME NEW r \in Rate, NEW q \in Ask, q.op = "exchange", q.amount >= Lot
    PROVE  /\ r.pts \in Nat \ {0}
           /\ r.idr \in Nat
           /\ q.amount \in Nat
           /\ WorthAt(q.amount, r) \in Nat
           /\ WorthAt(q.amount, r) * r.pts <= q.amount * r.idr
           /\ q.amount * r.idr <= (WorthAt(q.amount, r) + 1) * r.pts
<1>1. r \in [pts : Nat \ {0}, idr : Nat] /\ r.pts \in Nat \ {0} /\ r.idr \in Nat
  BY WalletOpsAssumption
<1>2. q.amount \in Nat
  BY DEF Question
<1>3. /\ 6 * q.amount * r.idr <= Leading
      /\ \E p \in Power : q.amount * p >= r.pts * Leading
      /\ \E p \in Power : r.idr < p
  BY PrecisionAssumption
<1>. DEFINE a == q.amount
            i == r.idr
<1>4. 6 * (a * i) <= Leading
  <2>1. 6 * a * i <= Leading /\ a \in Nat /\ i \in Nat
    BY <1>1, <1>2, <1>3
  <2>. HIDE DEF a, i
  <2>. QED
    BY <2>1
<1>. QED
  BY <1>1, <1>2, <1>3, <1>4, WorthAtFacts

(* What an exchange that is past its pricing is worth.                     *)
LEMMA PricedFacts ==
    ASSUME IInv, NEW c \in Call, asked[c].op = "exchange",
           pc[c] \notin {"idle", "failed", "pricing"}
    PROVE  /\ rate \in Rate
           /\ Worth(asked[c].amount) \in Nat
           /\ Worth(asked[c].amount) * rate.pts <= asked[c].amount * rate.idr
           /\ asked[c].amount * rate.idr <= (Worth(asked[c].amount) + 1) * rate.pts
           /\ Worth(asked[c].amount) <= MaxIdrPerPts * asked[c].amount
           /\ work[c].amount = Worth(asked[c].amount)
<1>1. /\ Exchangeable(asked[c].amount)
      /\ work[c].amount = Worth(asked[c].amount)
  BY DEF IInv, InStep, ExchangeInStep
<1>2. rate \in Rate
  BY <1>1 DEF Exchangeable, IInv, TypeOK
<1>3. asked[c] \in Ask
  BY DEF IInv, InStep
<1>. QED
  BY <1>1, <1>2, <1>3, WorthFacts DEF Exchangeable, Worth

LEMMA DoneSums ==
    ASSUME IInv, NEW c \in Call, pc[c] \notin Ended, LeavesOthers(c),
           TypeOK', InStep(c)', NEW u \in User
    PROVE  /\ SumFunctionOnSet(AskedFor, Unrecorded(u)) \in Int
           /\ SumFunctionOnSet(AskedFor, ExchangesOf(u)) \in Int
           /\ SumFunctionOnSet(Bought, ExchangesOf(u)) \in Int
           /\ SumFunctionOnSet(AskedFor, Unrecorded(u))' =
                SumFunctionOnSet(AskedFor, Unrecorded(u))
                    + (IF c \in Unrecorded(u)' THEN asked'[c].amount ELSE 0)
           /\ SumFunctionOnSet(AskedFor, ExchangesOf(u))' =
                SumFunctionOnSet(AskedFor, ExchangesOf(u))
                    + (IF c \in ExchangesOf(u)' THEN asked'[c].amount ELSE 0)
           /\ SumFunctionOnSet(Bought, ExchangesOf(u))' =
                SumFunctionOnSet(Bought, ExchangesOf(u))
                    + (IF c \in ExchangesOf(u)' THEN Worth(asked[c].amount)' ELSE 0)
<1>. USE DEF LeavesOthers, Ended
<1>1. \A op : c \notin Done(op) /\ Done(op)' \ {c} = Done(op)
  BY DEF Done
<1>2. /\ c \notin Unrecorded(u) /\ Unrecorded(u)' \ {c} = Unrecorded(u)
      /\ c \notin ExchangesOf(u) /\ ExchangesOf(u)' \ {c} = ExchangesOf(u)
  BY <1>1, DoneFacts DEF Unrecorded, ExchangesOf
<1>3. IsFiniteSet(Unrecorded(u)) /\ IsFiniteSet(ExchangesOf(u))
  <2>1. /\ Unrecorded(u) \in SUBSET Done("topup")
        /\ ExchangesOf(u) \in SUBSET Done("exchange")
    BY DEF Unrecorded, ExchangesOf
  <2>. QED
    BY <2>1, DoneFacts, FS_Subset
<1>4. \A d \in Unrecorded(u) \cup ExchangesOf(u) :
        AskedFor[d] \in Int /\ AskedFor'[d] = AskedFor[d]
  <2>1. \A d \in Unrecorded(u) \cup ExchangesOf(u) :
          d \in Call \ {c} /\ AskedFor[d] \in Nat
    BY <1>2, DoneFacts DEF Unrecorded, ExchangesOf
  <2>2. \A d \in Call \ {c} : AskedFor'[d] = AskedFor[d]
    BY DEF AskedFor
  <2>. QED
    BY <2>1, <2>2
<1>5. \A d \in ExchangesOf(u) : Bought[d] \in Int /\ Bought'[d] = Bought[d]
  <2>. SUFFICES ASSUME NEW d \in ExchangesOf(u)
                PROVE  Bought[d] \in Int /\ Bought'[d] = Bought[d]
    OBVIOUS
  <2>1. /\ d \in Call \ {c} /\ pc[d] = "done" /\ asked[d].op = "exchange"
        /\ asked[d].amount \in Nat
    BY <1>2, DoneFacts DEF ExchangesOf
  <2>2. Worth(asked[d].amount) \in Nat
    BY <2>1, PricedFacts
  <2>. QED
    BY <2>1, <2>2 DEF Bought, Worth
<1>6. /\ AskedFor'[c] = asked'[c].amount
      /\ Bought'[c] = Worth(asked[c].amount)'
  BY DEF AskedFor, Bought
<1>7. pc'[c] \notin {"idle", "failed"} => asked'[c].amount \in Nat
  BY DEF InStep, Question
<1>8. c \in Unrecorded(u)' \cup ExchangesOf(u)' => AskedFor'[c] \in Int
  BY <1>6, <1>7 DEF Unrecorded, ExchangesOf, Done
<1>9. c \in ExchangesOf(u)' => Bought'[c] \in Int
  <2>. SUFFICES ASSUME c \in ExchangesOf(u)' PROVE Bought'[c] \in Int
    OBVIOUS
  <2>1. asked'[c].op = "exchange" /\ pc'[c] = "done"
    BY DEF ExchangesOf, Done
  <2>2. rate' \in Rate /\ asked'[c] \in Ask /\ asked'[c].amount >= Lot
    BY <2>1 DEF InStep, ExchangeInStep, Exchangeable, TypeOK
  <2>. QED
    BY <1>6, <2>1, <2>2, WorthFacts DEF Worth
<1>. DEFINE f == AskedFor
            g == Bought
            U == Unrecorded(u)
            X == ExchangesOf(u)
            fn == AskedFor'
            gn == Bought'
            Un == Unrecorded(u)'
            Xn == ExchangesOf(u)'
<1>10. /\ SumFunctionOnSet(f, U) \in Int
       /\ SumFunctionOnSet(fn, Un) =
            SumFunctionOnSet(f, U) + (IF c \in Un THEN fn[c] ELSE 0)
  <2>1. Extends(f, U, fn, Un, c)
    BY <1>2, <1>3, <1>4, <1>8 DEF Extends
  <2>. HIDE DEF f, U, fn, Un
  <2>. QED
    BY <2>1, SumExtended
<1>11. /\ SumFunctionOnSet(f, X) \in Int
       /\ SumFunctionOnSet(fn, Xn) =
            SumFunctionOnSet(f, X) + (IF c \in Xn THEN fn[c] ELSE 0)
  <2>1. Extends(f, X, fn, Xn, c)
    BY <1>2, <1>3, <1>4, <1>8 DEF Extends
  <2>. HIDE DEF f, X, fn, Xn
  <2>. QED
    BY <2>1, SumExtended
<1>12. /\ SumFunctionOnSet(g, X) \in Int
       /\ SumFunctionOnSet(gn, Xn) =
            SumFunctionOnSet(g, X) + (IF c \in Xn THEN gn[c] ELSE 0)
  <2>1. Extends(g, X, gn, Xn, c)
    BY <1>2, <1>3, <1>5, <1>9 DEF Extends
  <2>. HIDE DEF g, X, gn, Xn
  <2>. QED
    BY <2>1, SumExtended
<1>. QED
  BY <1>6, <1>10, <1>11, <1>12

LEMMA EntrySumsAreNumbers ==
    ASSUME IInv, NEW u \in User, NEW cur \in Currency
    PROVE  /\ SumOfEntries(Incoming(u, cur)) \in Int
           /\ SumOfEntries(Outgoing(u, cur)) \in Int
<1>. DEFINE f == [x \in ledger |-> x.amount]
            S == Incoming(u, cur)
            V == Outgoing(u, cur)
<1>1. S \in SUBSET ledger /\ V \in SUBSET ledger
  BY DEF Incoming, Outgoing
<1>2. IsFiniteSet(S) /\ IsFiniteSet(V)
  BY <1>1, FS_Subset DEF IInv, FinitelyMany
<1>3. \A x \in S \cup V : f[x] \in Int
  BY <1>1 DEF IInv, TypeOK, MoneyTypeOK, Entry
<1>4. SumFunctionOnSet(f, S) \in Int /\ SumFunctionOnSet(f, V) \in Int
  <2>. HIDE DEF f, S, V
  <2>. QED
    BY <1>2, <1>3, SumType
<1>. QED
  BY <1>4 DEF SumOfEntries

LEMMA EntrySums ==
    ASSUME IInv, NEW e \in Entry, e \notin ledger, ledger' = ledger \cup {e},
           NEW u \in User, NEW cur \in Currency
    PROVE  /\ SumOfEntries(Incoming(u, cur)) \in Int
           /\ SumOfEntries(Outgoing(u, cur)) \in Int
           /\ SumOfEntries(Incoming(u, cur))' = SumOfEntries(Incoming(u, cur))
                + (IF e.currency = cur /\ e.destination = u THEN e.amount ELSE 0)
           /\ SumOfEntries(Outgoing(u, cur))' = SumOfEntries(Outgoing(u, cur))
                + (IF e.currency = cur /\ e.source = u THEN e.amount ELSE 0)
<1>. DEFINE f == [x \in ledger |-> x.amount]
            g == [x \in ledger' |-> x.amount]
            S == Incoming(u, cur)
            T == Incoming(u, cur)'
            V == Outgoing(u, cur)
            W == Outgoing(u, cur)'
<1>1. /\ S \in SUBSET ledger /\ V \in SUBSET ledger
      /\ T \ {e} = S /\ W \ {e} = V
      /\ e \notin S /\ e \notin V
      /\ e \in T <=> e.currency = cur /\ e.destination = u
      /\ e \in W <=> e.currency = cur /\ e.source = u
  BY DEF Incoming, Outgoing
<1>2. IsFiniteSet(S) /\ IsFiniteSet(V)
  BY <1>1, FS_Subset DEF IInv, FinitelyMany
<1>3. /\ \A x \in ledger : f[x] \in Int /\ g[x] = f[x]
      /\ g[e] = e.amount /\ e.amount \in Int
  BY DEF IInv, TypeOK, MoneyTypeOK, Entry
<1>4. /\ SumOfEntries(Incoming(u, cur)) = SumFunctionOnSet(f, S)
      /\ SumOfEntries(Outgoing(u, cur)) = SumFunctionOnSet(f, V)
      /\ SumOfEntries(Incoming(u, cur))' = SumFunctionOnSet(g, T)
      /\ SumOfEntries(Outgoing(u, cur))' = SumFunctionOnSet(g, W)
  BY DEF SumOfEntries
<1>. HIDE DEF f, g, S, T, V, W
<1>7. Extends(f, S, g, T, e) /\ Extends(f, V, g, W, e)
  BY <1>1, <1>2, <1>3 DEF Extends
<1>5. /\ SumFunctionOnSet(f, S) \in Int
      /\ SumFunctionOnSet(g, T) = SumFunctionOnSet(f, S) + (IF e \in T THEN g[e] ELSE 0)
  BY <1>7, SumExtended
<1>6. /\ SumFunctionOnSet(f, V) \in Int
      /\ SumFunctionOnSet(g, W) = SumFunctionOnSet(f, V) + (IF e \in W THEN g[e] ELSE 0)
  BY <1>7, SumExtended
<1>. QED
  BY <1>1, <1>3, <1>4, <1>5, <1>6

-----------------------------------------------------------------------------
(* Steps of a call before its commit: nothing but its own state changes    *)

Quiet(c) ==
    /\ UNCHANGED <<balance, ledger, allowance, expense>>
    /\ \A d \in Call \ {c} : versions'[d] = versions[d]
    /\ pc'[c] \notin {"idle", "done"}

LEMMA QuietKeepsRows ==
    ASSUME NEW c \in Call, LeavesOthers(c), Quiet(c)
    PROVE  KeepsRows(c)
BY DEF KeepsRows, Quiet, Terms, Row

LEMMA QuietInv ==
    ASSUME IInv, NEW c \in Call, pc[c] \notin Ended, LeavesOthers(c), Quiet(c),
           TypeOK', InFlightCovered',
           InStep(c)', MovesInStep(c)', CountsRight(c)'
    PROVE  IInv'
<1>1. KeepsRows(c)
  BY QuietKeepsRows
<1>2. \A d \in Call : pc[d] = "done" => d # c /\ pc'[d] = "done" /\ asked'[d] = asked[d]
  BY DEF LeavesOthers, Ended
<1>3. \A op : Done(op)' = Done(op)
  <2>1. \A d \in Call : pc'[d] = "done" <=> pc[d] = "done"
    BY <1>2 DEF LeavesOthers, Quiet, Ended
  <2>. QED
    BY <1>2, <2>1 DEF Done
<1>4. RowsInStep'
  <2>1. RowsInStep
    BY DEF IInv
  <2>2. \A e \in ledger : e.id \in Call
    BY DEF IInv, TypeOK, MoneyTypeOK, Entry
  <2>. QED
    BY <1>2, <1>3, <2>1, <2>2 DEF RowsInStep, Quiet
<1>5. Explained'
  <2>1. ASSUME NEW u \in User
        PROVE  /\ SumFunctionOnSet(AskedFor, Unrecorded(u))' =
                    SumFunctionOnSet(AskedFor, Unrecorded(u))
               /\ SumFunctionOnSet(AskedFor, ExchangesOf(u))' =
                    SumFunctionOnSet(AskedFor, ExchangesOf(u))
               /\ SumFunctionOnSet(Bought, ExchangesOf(u))' =
                    SumFunctionOnSet(Bought, ExchangesOf(u))
    <3>1. c \notin Unrecorded(u)' /\ c \notin ExchangesOf(u)'
      BY DEF Unrecorded, ExchangesOf, Done, Quiet
    <3>. QED
      BY <3>1, DoneSums
  <2>2. ASSUME NEW u \in User, NEW cur \in Currency
        PROVE  /\ SumOfEntries(Incoming(u, cur))' = SumOfEntries(Incoming(u, cur))
               /\ SumOfEntries(Outgoing(u, cur))' = SumOfEntries(Outgoing(u, cur))
    BY DEF SumOfEntries, Incoming, Outgoing, Quiet
  <2>3. Explained /\ balance' = balance
    BY DEF IInv, Quiet
  <2>. QED
    BY <2>1, <2>2, <2>3 DEF Explained
<1>6. PaidAsAgreed' /\ DeductionsOnRecord'
  <2>1. \A e \in ledger : /\ e.id \in Call \ {c}
                          /\ asked'[e.id] = asked[e.id]
                          /\ versions'[e.id] = versions[e.id]
    BY <1>2 DEF IInv, TypeOK, MoneyTypeOK, Entry, RowsInStep, Quiet
  <2>2. PaidAsAgreed'
    BY <2>1 DEF IInv, PaidAsAgreed, Quiet
  <2>3. \A d \in Call : Noted(d)' = Noted(d) /\ (Noted(d) => asked'[d] = asked[d])
    BY <1>2 DEF Noted, Quiet, IInv, RowsInStep, Done
  <2>4. DeductionsOnRecord'
    BY <2>1, <2>3 DEF IInv, DeductionsOnRecord, Quiet
  <2>. QED
    BY <2>2, <2>4
<1>7. PICK e : ledger' \subseteq ledger \cup {e}
  BY DEF Quiet
<1>. QED
  BY <1>1, <1>4, <1>5, <1>6, <1>7, StepInv

(* How far the wallets and the call's own fields stay typed.               *)
LEMMA QuietTypeOK ==
    ASSUME IInv, NEW c \in Call, WalletsTypeOK', UNCHANGED <<notices, member, rate>>,
           Quiet(c), NEW label \in Label, pc' = [pc EXCEPT ![c] = label],
           asked' \in [Call -> Ask \cup {Unasked}],
           work' \in [Call -> Work],
           versions' \in [Call -> SUBSET [amount : Nat, currency : Currency,
                                          active : BOOLEAN]],
           counted' \in [Call -> SUBSET Call]
    PROVE  TypeOK'
<1>1. pc' \in [Call -> Label]
  BY DEF IInv, TypeOK, MoneyTypeOK
<1>2. MoneyTypeOK'
  BY <1>1 DEF IInv, TypeOK, MoneyTypeOK, Quiet
<1>. QED
  BY <1>2 DEF IInv, TypeOK, Quiet

-----------------------------------------------------------------------------
(* Calls that arrive and calls that end without a commit                   *)

(* The statement that an operation begins with.                            *)
Begins(op, label) ==
    \/ op \in {"topup", "allow", "spend"} /\ label = "vouching"
    \/ op = "exchange" /\ label = "pricing"
    \/ op \in {"adjust", "transfer", "unspend"} /\ label = "reading"

LEMMA ArriveInv ==
    ASSUME IInv, NEW c \in Call, NEW op, NEW label, Arrive(c, op, label),
           Begins(op, label),
           UNCHANGED <<rate, allowance, expenseVars>>,
           \/ op # "transfer" /\ versions' = versions
           \/ /\ op = "transfer"
              /\ versions' = [versions EXCEPT ![c] = {Terms(allowance[asked'[c].about])}]
    PROVE  IInv'
<1>. USE DEF Begins, Arrive, Goto, walletVars, expenseVars
<1>1. PICK q \in Ask : q.op = op /\ asked' = [asked EXCEPT ![c] = q]
  OBVIOUS
<1>2. /\ pc[c] = "idle" /\ pc' = [pc EXCEPT ![c] = label]
      /\ asked'[c] = q /\ pc'[c] = label /\ label \in Label
  BY <1>1 DEF IInv, TypeOK, MoneyTypeOK, Label
<1>3. LeavesOthers(c)
  BY <1>1, <1>2 DEF LeavesOthers, IInv, TypeOK, MoneyTypeOK
<1>4. Quiet(c)
  BY <1>2 DEF Quiet, IInv, TypeOK
<1>5. TypeOK'
  <2>1. op = "transfer" => allowance[asked'[c].about] \in AllowanceRow
    BY <1>1, <1>2 DEF IInv, TypeOK, Allowance
  <2>2. op = "transfer" =>
          Terms(allowance[asked'[c].about])
              \in [amount : Nat, currency : Currency, active : BOOLEAN]
    BY <2>1 DEF AllowanceRow, Terms
  <2>3. versions' \in [Call -> SUBSET [amount : Nat, currency : Currency,
                                       active : BOOLEAN]]
    <3>1. CASE versions' = versions
      BY <3>1 DEF IInv, TypeOK
    <3>2. CASE op = "transfer"
      BY <2>2, <3>2 DEF IInv, TypeOK
    <3>. QED
      BY <3>1, <3>2
  <2>4. asked' \in [Call -> Ask \cup {Unasked}]
    BY <1>1 DEF IInv, TypeOK, MoneyTypeOK
  <2>5. UNCHANGED <<work, notices, member, rate, counted, balance, delta, holder>>
    OBVIOUS
  <2>6. work' \in [Call -> Work] /\ counted' \in [Call -> SUBSET Call]
    BY <2>5 DEF IInv, TypeOK, MoneyTypeOK
  <2>7. WalletsTypeOK'
    BY <2>5 DEF IInv, TypeOK, MoneyTypeOK, WalletsTypeOK
  <2>. QED
    BY <1>2, <1>4, <2>3, <2>4, <2>5, <2>6, <2>7, QuietTypeOK
<1>6. InFlightCovered'
  BY DEF IInv, InFlightCovered, Seen
<1>7. InStep(c)'
  <2>1. pc'[c] \in Statements'[asked'[c].op]
    BY <1>1, <1>2 DEF Statements
  <2>2. op = "transfer" => Terms(Row(c))' \in versions'[c]
    BY DEF IInv, TypeOK, Row, Target, Terms
  <2>. QED
    BY <1>1, <1>2, <2>1, <2>2
    DEF InStep, TopupInStep, ExchangeInStep, SpendInStep, AllowInStep, AdjustInStep,
        TransferInStep, UnspendInStep, Ended
<1>8. MovesInStep(c)'
  <2>1. ASSUME NEW u \in User, NEW cur \in Currency
        PROVE  /\ Given(c, u, cur)' = 0 /\ Received(c, u, cur)' = 0
               /\ Given(c, u, cur) = 0 /\ Received(c, u, cur) = 0
    BY <1>1, <1>2 DEF Given, Received, At
  <2>. QED
    BY <2>1 DEF IInv, InFlightIsMove, MovesInStep
<1>9. CountsRight(c)'
  <2>1. counted'[c] = counted[c] /\ pc[c] \notin Ended /\ KeepsRows(c)
    BY <1>2, <1>3, <1>4, QuietKeepsRows DEF Ended
  <2>2. pc'[c] \notin {"idle", "debiting", "inserting", "done"}
    BY <1>2
  <2>. QED
    BY <1>3, <2>1, <2>2, OwnCount DEF CountsNothing
<1>. QED
  BY <1>2, <1>3, <1>4, <1>5, <1>6, <1>7, <1>8, <1>9, QuietInv DEF Ended

LEMMA StartsInv ==
    ASSUME IInv, NEW c \in Call,
           \/ StartTopup(c) /\ UNCHANGED <<allowanceVars, expenseVars>>
           \/ StartExchange(c) /\ UNCHANGED <<allowanceVars, expenseVars>>
           \/ StartAllow(c) /\ UNCHANGED <<rate, expenseVars>>
           \/ StartAdjust(c) /\ UNCHANGED <<rate, expenseVars>>
           \/ StartTransfer(c) /\ UNCHANGED <<rate, expenseVars>>
           \/ StartSpend(c) /\ UNCHANGED <<rate, allowanceVars>>
           \/ StartUnspend(c) /\ UNCHANGED <<rate, allowanceVars>>
    PROVE  IInv'
<1>. USE DEF allowanceVars
<1>0. /\ Begins("topup", "vouching") /\ Begins("allow", "vouching")
      /\ Begins("spend", "vouching") /\ Begins("exchange", "pricing")
      /\ Begins("adjust", "reading") /\ Begins("transfer", "reading")
      /\ Begins("unspend", "reading")
  BY DEF Begins
<1>1. CASE StartTopup(c) /\ UNCHANGED <<allowanceVars, expenseVars>>
  BY <1>1, <1>0, ArriveInv DEF StartTopup
<1>2. CASE StartExchange(c) /\ UNCHANGED <<allowanceVars, expenseVars>>
  BY <1>2, <1>0, ArriveInv DEF StartExchange
<1>3. CASE StartAllow(c) /\ UNCHANGED <<rate, expenseVars>>
  BY <1>3, <1>0, ArriveInv DEF StartAllow
<1>4. CASE StartAdjust(c) /\ UNCHANGED <<rate, expenseVars>>
  BY <1>4, <1>0, ArriveInv DEF StartAdjust
<1>5. CASE StartTransfer(c) /\ UNCHANGED <<rate, expenseVars>>
  BY <1>5, <1>0, ArriveInv DEF StartTransfer
<1>6. CASE StartSpend(c) /\ UNCHANGED <<rate, allowanceVars>>
  BY <1>6, <1>0, ArriveInv DEF StartSpend
<1>7. CASE StartUnspend(c) /\ UNCHANGED <<rate, allowanceVars>>
  BY <1>7, <1>0, ArriveInv DEF StartUnspend
<1>. QED
  BY <1>1, <1>2, <1>3, <1>4, <1>5, <1>6, <1>7

LEMMA RollbackInv ==
    ASSUME IInv, NEW c \in Call, pc[c] \notin Ended \cup {"idle"}, Rollback(c),
           UNCHANGED <<rate, allowanceVars, expenseVars>>
    PROVE  IInv'
<1>. USE DEF Rollback, Goto, allowanceVars, expenseVars
<1>1. pc' = [pc EXCEPT ![c] = "failed"] /\ pc'[c] = "failed" /\ "failed" \in Label
  BY DEF IInv, TypeOK, MoneyTypeOK, Label, Ended
<1>2. WalletsInv' /\ delta' = [delta EXCEPT ![c] = NoDelta]
  BY RollbackKeepsInv DEF IInv, TypeOK, MoneyTypeOK, WalletsInv, RollbackWallets
<1>3. LeavesOthers(c) /\ Quiet(c)
  <2>1. balance' = balance
    BY DEF RollbackWallets
  <2>. QED
    BY <1>1, <1>2, <2>1 DEF LeavesOthers, Quiet, IInv, TypeOK, MoneyTypeOK, WalletsTypeOK
<1>4. TypeOK' /\ InFlightCovered'
  <2>1. asked' \in [Call -> Ask \cup {Unasked}]
    BY DEF IInv, TypeOK, MoneyTypeOK
  <2>2. NoWork \in Work
    BY DEF NoWork, Work
  <2>3. work' \in [Call -> Work]
    BY <2>2 DEF IInv, TypeOK, MoneyTypeOK
  <2>4. /\ versions' \in [Call -> SUBSET [amount : Nat, currency : Currency,
                                          active : BOOLEAN]]
        /\ counted' \in [Call -> SUBSET Call]
    BY DEF IInv, TypeOK
  <2>5. /\ WalletsTypeOK' /\ InFlightCovered'
        /\ UNCHANGED <<notices, member, rate>>
    BY <1>2 DEF WalletsInv
  <2>. QED
    BY <1>1, <1>3, <2>1, <2>3, <2>4, <2>5, QuietTypeOK
<1>5. InStep(c)'
  BY <1>1 DEF InStep, Ended, IInv
<1>6. MovesInStep(c)'
  <2>1. \A u \in User, cur \in Currency : delta'[c][u][cur] = 0
    BY <1>2 DEF IInv, TypeOK, MoneyTypeOK, WalletsTypeOK, NoDelta
  <2>. QED
    BY <1>1, <2>1 DEF MovesInStep, Given, Received, At
<1>7. CountsRight(c)'
  <2>1. counted'[c] = counted[c] /\ pc[c] \notin Ended /\ KeepsRows(c)
    BY <1>3, QuietKeepsRows
  <2>. QED
    BY <1>1, <1>3, <2>1, OwnCount DEF CountsNothing
<1>. QED
  BY <1>3, <1>4, <1>5, <1>6, <1>7, QuietInv

LEMMA RefusalsInv ==
    ASSUME IInv, NEW c \in Call,
           \/ RefuseTopup(c) /\ UNCHANGED <<allowanceVars, expenseVars>>
           \/ RefuseExchange(c) /\ UNCHANGED <<allowanceVars, expenseVars>>
           \/ TooFewPts(c) /\ UNCHANGED <<allowanceVars, expenseVars>>
           \/ CreditOwnFails(c) /\ UNCHANGED <<allowanceVars, expenseVars>>
           \/ RefuseAllow(c) /\ UNCHANGED <<rate, expenseVars>>
           \/ PairExists(c) /\ UNCHANGED <<rate, expenseVars>>
           \/ InsertClashes(c) /\ UNCHANGED <<rate, expenseVars>>
           \/ RefuseAllowance(c) /\ UNCHANGED <<rate, expenseVars>>
           \/ ParentTooPoor(c) /\ UNCHANGED <<rate, expenseVars>>
           \/ ChildOverflows(c) /\ UNCHANGED <<rate, expenseVars>>
           \/ RefuseSpend(c) /\ UNCHANGED <<rate, allowanceVars>>
           \/ HourExceeded(c) /\ UNCHANGED <<rate, allowanceVars>>
           \/ TooPoorToSpend(c) /\ UNCHANGED <<rate, allowanceVars>>
           \/ RefuseRemoval(c) /\ UNCHANGED <<rate, allowanceVars>>
           \/ CutOff(c)
    PROVE  IInv'
<1>1. /\ pc[c] \notin Ended \cup {"idle"}
      /\ Rollback(c)
      /\ UNCHANGED <<rate, allowanceVars, expenseVars>>
  BY DEF RefuseTopup, RefuseExchange, TooFewPts, CreditOwnFails, Crediting, RefuseAllow,
         PairExists, InsertClashes, RefuseAllowance, ParentTooPoor, ChildOverflows,
         RefuseSpend, HourExceeded, TooPoorToSpend, RefuseRemoval, CutOff, At, Ended
<1>. QED
  BY <1>1, RollbackInv

-----------------------------------------------------------------------------
(* Statements before the last one                                          *)

LEMMA ProceedInv ==
    ASSUME IInv, NEW c \in Call, pc[c] \notin Ended \cup {"idle"},
           NEW label \in Label \ (Ended \cup {"idle"}), Proceed(c, label),
           WalletsInv', balance' = balance,
           \A d \in Call \ {c} : delta'[d] = delta[d],
           work' \in [Call -> Work], \A d \in Call \ {c} : work'[d] = work[d],
           counted' \in [Call -> SUBSET Call],
           \A d \in Call \ {c} : counted'[d] = counted[d],
           UNCHANGED <<rate, allowance, versions, expense>>,
           InStep(c)', MovesInStep(c)', CountsRight(c)'
    PROVE  IInv'
<1>. USE DEF Proceed, Goto
<1>1. /\ pc'[c] = label /\ pc' = [pc EXCEPT ![c] = label]
      /\ pc'[c] \notin {"idle", "done"}
      /\ \A d \in Call \ {c} : pc'[d] = pc[d]
  BY DEF IInv, TypeOK, MoneyTypeOK, Ended
<1>2. Quiet(c) /\ LeavesOthers(c)
  BY <1>1 DEF Quiet, LeavesOthers
<1>3. TypeOK'
  BY <1>1, <1>2, QuietTypeOK DEF WalletsInv, IInv, TypeOK, MoneyTypeOK
<1>. QED
  BY <1>2, <1>3, QuietInv DEF WalletsInv

(* A statement that only reads: nothing is in flight before or after it.   *)
LEMMA ReadInv ==
    ASSUME IInv, NEW c \in Call, pc[c] \notin Ended \cup {"idle"},
           NEW label \in Label \ (Ended \cup {"idle"}), Proceed(c, label),
           UNCHANGED walletVars,
           \A u \in User, cur \in Currency :
                /\ Given(c, u, cur) = 0 /\ Given(c, u, cur)' = 0
                /\ Received(c, u, cur) = 0 /\ Received(c, u, cur)' = 0,
           work' \in [Call -> Work], \A d \in Call \ {c} : work'[d] = work[d],
           counted' \in [Call -> SUBSET Call],
           \A d \in Call \ {c} : counted'[d] = counted[d],
           UNCHANGED <<rate, allowance, versions, expense>>,
           InStep(c)', CountsRight(c)'
    PROVE  IInv'
<1>. USE DEF walletVars
<1>1. WalletsInv'
  <2>1. WalletsTypeOK'
    BY DEF IInv, TypeOK, MoneyTypeOK, WalletsTypeOK
  <2>2. InFlightCovered'
    BY DEF IInv, InFlightCovered, Seen
  <2>. QED
    BY <2>1, <2>2 DEF WalletsInv
<1>2. MovesInStep(c)'
  BY DEF MovesInStep, IInv, InFlightIsMove
<1>. QED
  BY <1>1, <1>2, ProceedInv

(* A statement that counts nothing keeps what the call has counted.        *)
LEMMA ProceedCount ==
    ASSUME IInv, NEW c \in Call, pc[c] \notin Ended \cup {"idle"}, CountsNothing(c),
           \A d \in Call \ {c} :
                /\ pc'[d] = pc[d] /\ work'[d] = work[d]
                /\ delta'[d] = delta[d] /\ counted'[d] = counted[d],
           pc'[c] \notin Ended,
           UNCHANGED <<asked, balance, ledger, rate, allowance, versions, expense>>
    PROVE  CountsRight(c)'
<1>1. LeavesOthers(c)
  BY DEF LeavesOthers
<1>2. Quiet(c)
  BY DEF Quiet, CountsNothing, Ended
<1>. QED
  BY <1>1, <1>2, QuietKeepsRows, OwnCount

(* What a call notes while it works.                                       *)
LEMMA WorkAmount ==
    ASSUME NEW w \in [Call -> Work], NEW c \in Call, NEW n \in Nat
    PROVE  LET v == [w EXCEPT ![c].amount = n]
           IN  /\ v \in [Call -> Work] /\ v[c].amount = n
               /\ \A d \in Call \ {c} : v[d] = w[d]
<1>. DEFINE r == [w[c] EXCEPT !.amount = n]
<1>1. r \in Work /\ r.amount = n
  BY DEF Work
<1>. HIDE DEF r
<1>2. [w EXCEPT ![c] = r] \in [Call -> Work]
  BY <1>1
<1>. QED
  BY <1>1, <1>2 DEF r

LEMMA WorkFamily ==
    ASSUME NEW w \in [Call -> Work], NEW c \in Call, NEW m \in BOOLEAN
    PROVE  LET v == [w EXCEPT ![c].family = m]
           IN  /\ v \in [Call -> Work] /\ v[c].amount = w[c].amount
               /\ \A d \in Call \ {c} : v[d] = w[d]
<1>. DEFINE r == [w[c] EXCEPT !.family = m]
<1>1. r \in Work /\ r.amount = w[c].amount
  BY DEF Work
<1>. HIDE DEF r
<1>2. [w EXCEPT ![c] = r] \in [Call -> Work]
  BY <1>1
<1>. QED
  BY <1>1, <1>2 DEF r

(* topup and exchange_pts *)
LEMMA WalletReadsInv ==
    ASSUME IInv, NEW c \in Call, VouchTopup(c) \/ PriceExchange(c) \/ VouchExchange(c),
           UNCHANGED <<allowanceVars, expenseVars>>
    PROVE  IInv'
<1>. USE DEF At, allowanceVars, expenseVars, Proceed, Goto
<1>. DEFINE label == IF VouchTopup(c) THEN "crediting"
                     ELSE IF PriceExchange(c) THEN "vouching" ELSE "debiting"
<1>0. asked[c].op \in {"topup", "exchange"}
  BY DEF VouchTopup, PriceExchange, VouchExchange
<1>1. /\ pc[c] \notin Ended \cup {"idle"}
      /\ label \in Label \ (Ended \cup {"idle"})
      /\ pc' = [pc EXCEPT ![c] = label]
      /\ pc'[c] = label
      /\ UNCHANGED <<ledger, notices, member, asked, walletVars, rate>>
  BY DEF VouchTopup, PriceExchange, VouchExchange, Ended, Label, IInv, TypeOK, MoneyTypeOK
<1>2. /\ work' \in [Call -> Work]
      /\ \A d \in Call \ {c} : work'[d] = work[d] /\ pc'[d] = pc[d]
      /\ VouchTopup(c) => work'[c].amount = asked[c].amount
      /\ PriceExchange(c) => work'[c].amount = Worth(asked[c].amount)
      /\ VouchExchange(c) => work'[c].amount = work[c].amount
  <2>1. work \in [Call -> Work] /\ work[c] \in Work /\ asked[c].amount \in Nat
    BY <1>1, CallFacts DEF IInv, TypeOK, MoneyTypeOK, Ended
  <2>2. PriceExchange(c) => Worth(asked[c].amount) \in Nat
    <3>1. asked[c] \in Ask
      BY <1>1 DEF IInv, InStep, Ended
    <3>. QED
      BY <3>1, WorthFacts DEF PriceExchange, At, Exchangeable, Worth, IInv, TypeOK
  <2>3. CASE VouchTopup(c)
    <3>. DEFINE m == asked[c].user \in member
    <3>. DEFINE v == [[work EXCEPT ![c].amount = asked[c].amount] EXCEPT ![c].family = m]
    <3>1. work' = v /\ m \in BOOLEAN
      BY <2>3 DEF VouchTopup
    <3>2. ~ PriceExchange(c) /\ ~ VouchExchange(c)
      BY <2>3 DEF VouchTopup, PriceExchange, VouchExchange
    <3>. HIDE DEF m
    <3>3. /\ v \in [Call -> Work] /\ v[c].amount = asked[c].amount
          /\ \A d \in Call \ {c} : v[d] = work[d]
      <4>. DEFINE x == [work EXCEPT ![c].amount = asked[c].amount]
      <4>1. /\ x \in [Call -> Work] /\ x[c].amount = asked[c].amount
            /\ \A d \in Call \ {c} : x[d] = work[d]
        BY <2>1, WorkAmount
      <4>. HIDE DEF x
      <4>2. LET y == [x EXCEPT ![c].family = m]
            IN  /\ y \in [Call -> Work] /\ y[c].amount = x[c].amount
                /\ \A d \in Call \ {c} : y[d] = x[d]
        BY <3>1, <4>1, WorkFamily
      <4>. QED
        BY <4>1, <4>2 DEF x
    <3>. HIDE DEF v
    <3>. QED
      BY <1>1, <3>1, <3>2, <3>3
  <2>4. CASE PriceExchange(c)
    <3>1. work' = [work EXCEPT ![c].amount = Worth(asked[c].amount)]
      BY <2>4 DEF PriceExchange
    <3>2. ~ VouchTopup(c) /\ ~ VouchExchange(c)
      BY <2>4 DEF VouchTopup, PriceExchange, VouchExchange
    <3>. QED
      BY <1>1, <2>1, <2>2, <2>4, <3>1, <3>2, WorkAmount
  <2>5. CASE VouchExchange(c)
    <3>. DEFINE m == asked[c].user \in member
    <3>1. work' = [work EXCEPT ![c].family = m] /\ m \in BOOLEAN
      BY <2>5 DEF VouchExchange
    <3>2. ~ VouchTopup(c) /\ ~ PriceExchange(c)
      BY <2>5 DEF VouchTopup, PriceExchange, VouchExchange
    <3>. HIDE DEF m
    <3>. QED
      BY <1>1, <2>1, <3>1, <3>2, WorkFamily
  <2>. QED
    BY <2>3, <2>4, <2>5
<1>3. InStep(c)'
  <2>1. asked[c] \in Ask /\ InStep(c)
    BY <1>1 DEF IInv, InStep, Ended
  <2>2. CASE VouchTopup(c)
    BY <1>1, <1>2, <2>1, <2>2
    DEF VouchTopup, InStep, TopupInStep, Statements, Ended
  <2>3. CASE PriceExchange(c)
    BY <1>1, <1>2, <2>1, <2>3
    DEF PriceExchange, VouchTopup, InStep, ExchangeInStep, Exchangeable, Worth,
        Statements, Ended
  <2>4. CASE VouchExchange(c)
    BY <1>1, <1>2, <2>1, <2>4
    DEF PriceExchange, VouchTopup, VouchExchange, InStep, ExchangeInStep, Exchangeable,
        Worth, Statements, Ended
  <2>. QED
    BY <2>2, <2>3, <2>4
<1>4. \A u \in User, cur \in Currency :
         /\ Given(c, u, cur) = 0 /\ Given(c, u, cur)' = 0
         /\ Received(c, u, cur) = 0 /\ Received(c, u, cur)' = 0
  BY <1>1, <1>0 DEF VouchTopup, PriceExchange, VouchExchange, Given, Received
<1>5. CountsNothing(c) /\ pc'[c] \notin Ended
  BY <1>0, <1>1 DEF CountsNothing, Label
<1>6. CountsRight(c)'
  BY <1>1, <1>2, <1>5, ProceedCount DEF walletVars
<1>7. Proceed(c, label) /\ counted' \in [Call -> SUBSET Call]
  BY <1>1 DEF IInv, TypeOK
<1>. HIDE DEF label
<1>. QED
  BY <1>1, <1>2, <1>3, <1>4, <1>6, <1>7, ReadInv

(* create_allowance, update_allowance and manual_transfer *)
LEMMA AllowanceReadsInv ==
    ASSUME IInv, NEW c \in Call,
           VouchAllow(c) \/ LookForPair(c) \/ ReadForAdjust(c) \/ ReadForTransfer(c),
           UNCHANGED <<rate, expenseVars>>
    PROVE  IInv'
<1>. USE DEF At, allowanceVars, expenseVars, Proceed, Goto, ReadTerms
<1>. DEFINE label == IF asked[c].op = "transfer" THEN "debiting"
                     ELSE IF asked[c].op = "adjust" THEN "editing"
                     ELSE IF pc[c] = "vouching" THEN "looking" ELSE "inserting"
<1>0. \/ VouchAllow(c) /\ asked[c].op = "allow" /\ pc[c] = "vouching"
      \/ LookForPair(c) /\ asked[c].op = "allow" /\ pc[c] = "looking"
      \/ ReadForAdjust(c) /\ asked[c].op = "adjust" /\ pc[c] = "reading"
      \/ ReadForTransfer(c) /\ asked[c].op = "transfer" /\ pc[c] = "reading"
  BY DEF VouchAllow, LookForPair, ReadForAdjust, ReadForTransfer
<1>1. /\ pc[c] \notin Ended \cup {"idle"}
      /\ label \in Label \ (Ended \cup {"idle"})
      /\ pc' = [pc EXCEPT ![c] = label]
      /\ pc'[c] = label
      /\ UNCHANGED <<ledger, notices, member, asked, walletVars, rate, allowance, versions>>
  BY <1>0 DEF VouchAllow, LookForPair, ReadForAdjust, ReadForTransfer, Ended, Label,
              IInv, TypeOK, MoneyTypeOK
<1>2. /\ work' \in [Call -> Work]
      /\ \A d \in Call \ {c} : work'[d] = work[d] /\ pc'[d] = pc[d]
      /\ asked[c].op = "transfer" =>
            work'[c].amount = Row(c).amount /\ work'[c].currency = Row(c).currency
  <2>1. work \in [Call -> Work]
    BY DEF IInv, TypeOK, MoneyTypeOK
  <2>2. CASE asked[c].op = "allow"
    BY <1>0, <1>1, <2>1, <2>2 DEF VouchAllow, LookForPair
  <2>3. CASE asked[c].op \in {"adjust", "transfer"}
    <3>. DEFINE w == [amount |-> Row(c).amount, currency |-> Row(c).currency,
                      active |-> Row(c).active, family |-> FALSE]
    <3>1. w \in Work
      BY <1>1, <2>3, CallFacts, RowFacts DEF Row, Target, Work, Ended
    <3>2. work' = [work EXCEPT ![c] = w]
      BY <1>0, <2>3 DEF ReadForAdjust, ReadForTransfer
    <3>. QED
      BY <1>1, <2>1, <3>1, <3>2
  <2>. QED
    BY <1>0, <2>2, <2>3
<1>3. InStep(c)'
  <2>1. asked[c] \in Ask /\ InStep(c)
    BY <1>1 DEF IInv, InStep, Ended
  <2>2. CASE asked[c].op = "allow"
    BY <1>0, <1>1, <2>1, <2>2
    DEF VouchAllow, LookForPair, MayAllow, InStep, AllowInStep, Statements, Ended
  <2>3. CASE asked[c].op = "adjust"
    <3>1. Row(c)' = Row(c) /\ Row(c).status = "open"
      BY <1>0, <1>1, <2>3 DEF ReadForAdjust, Found, Row, Target
    <3>. QED
      BY <1>1, <2>1, <2>3, <3>1 DEF InStep, AdjustInStep, Statements, Ended
  <2>4. CASE asked[c].op = "transfer"
    <3>1. Row(c)' = Row(c) /\ Row(c).status = "open" /\ Row(c).active
      BY <1>0, <1>1, <2>4 DEF ReadForTransfer, MayTransfer, Found, Row, Target
    <3>2. Terms(Row(c)) \in versions[c]
      BY <1>0, <2>1, <2>4 DEF InStep, TransferInStep, Ended
    <3>3. Row(c).active = TRUE
      BY <1>1, <2>4, <3>1, CallFacts, RowFacts DEF Row, Target
    <3>4. [amount |-> work'[c].amount, currency |-> work'[c].currency, active |-> TRUE]
              \in versions'[c]
      BY <1>1, <1>2, <2>4, <3>2, <3>3 DEF Terms
    <3>. QED
      BY <1>1, <2>1, <2>4, <3>1, <3>4 DEF InStep, TransferInStep, Statements, Ended
  <2>. QED
    BY <1>0, <2>2, <2>3, <2>4
<1>4. \A u \in User, cur \in Currency :
         /\ Given(c, u, cur) = 0 /\ Given(c, u, cur)' = 0
         /\ Received(c, u, cur) = 0 /\ Received(c, u, cur)' = 0
  BY <1>0, <1>1 DEF Given, Received
<1>5. CountsNothing(c) /\ pc'[c] \notin Ended
  BY <1>0, <1>1 DEF CountsNothing, Label
<1>6. CountsRight(c)'
  BY <1>1, <1>2, <1>5, ProceedCount DEF walletVars
<1>7. Proceed(c, label) /\ counted' \in [Call -> SUBSET Call]
  BY <1>1 DEF IInv, TypeOK
<1>. HIDE DEF label
<1>. QED
  BY <1>1, <1>2, <1>3, <1>4, <1>6, <1>7, ReadInv

(* create_expense and delete_expense *)
LEMMA ExpenseReadsInv ==
    ASSUME IInv, NEW c \in Call, VouchSpend(c) \/ ReadExpense(c),
           UNCHANGED <<rate, allowanceVars>>
    PROVE  IInv'
<1>. USE DEF At, allowanceVars, expenseVars, Proceed, Goto
<1>. DEFINE label == IF asked[c].op = "unspend" THEN "removing"
                     ELSE IF asked[c].flag THEN "summing" ELSE "inserting"
<1>0. \/ VouchSpend(c) /\ asked[c].op = "spend" /\ pc[c] = "vouching"
      \/ ReadExpense(c) /\ asked[c].op = "unspend" /\ pc[c] = "reading"
  BY DEF VouchSpend, ReadExpense
<1>1. /\ pc[c] \notin Ended \cup {"idle"}
      /\ label \in Label \ (Ended \cup {"idle"})
      /\ pc' = [pc EXCEPT ![c] = label]
      /\ pc'[c] = label
      /\ UNCHANGED <<ledger, notices, member, asked, work, walletVars, expenseVars>>
  BY <1>0 DEF VouchSpend, ReadExpense, Ended, Label, IInv, TypeOK, MoneyTypeOK
<1>3. InStep(c)'
  <2>1. asked[c] \in Ask /\ InStep(c)
    BY <1>1 DEF IInv, InStep, Ended
  <2>2. CASE asked[c].op = "spend"
    BY <1>1, <2>1, <2>2 DEF InStep, SpendInStep, Statements, Ended
  <2>3. CASE asked[c].op = "unspend"
    <3>1. expense[asked[c].about] # "absent" /\ ~ asked[asked[c].about].flag
      BY <1>0, <2>3 DEF ReadExpense, MayRemove, Noted
    <3>. QED
      BY <1>1, <2>1, <2>3, <3>1 DEF InStep, UnspendInStep, Statements, Ended
  <2>. QED
    BY <1>0, <2>2, <2>3
<1>4. \A u \in User, cur \in Currency :
         /\ Given(c, u, cur) = 0 /\ Given(c, u, cur)' = 0
         /\ Received(c, u, cur) = 0 /\ Received(c, u, cur)' = 0
  BY <1>0, <1>1 DEF Given, Received
<1>5. CountsNothing(c) /\ pc'[c] \notin Ended
  BY <1>0, <1>1 DEF CountsNothing, Label
<1>2. work' \in [Call -> Work] /\ \A d \in Call \ {c} : pc'[d] = pc[d]
  BY <1>1 DEF IInv, TypeOK, MoneyTypeOK
<1>6. CountsRight(c)'
  BY <1>1, <1>2, <1>5, ProceedCount DEF walletVars
<1>7. Proceed(c, label) /\ counted' \in [Call -> SUBSET Call]
  BY <1>1 DEF IInv, TypeOK
<1>. HIDE DEF label
<1>. QED
  BY <1>1, <1>2, <1>3, <1>4, <1>6, <1>7, ReadInv

(* The sum counts every recent deduction of the user, so also those that   *)
(* an expense among them had counted.                                      *)
LEMMA SumHourInv ==
    ASSUME IInv, NEW c \in Call, SumHour(c), UNCHANGED <<rate, allowanceVars>>
    PROVE  IInv'
<1>. USE DEF SumHour, At, allowanceVars, Proceed, Goto
<1>. DEFINE D == Deducted(asked[c].user)
<1>1. /\ pc[c] = "summing" /\ asked[c].op = "spend"
      /\ "debiting" \in Label \ (Ended \cup {"idle"})
      /\ pc' = [pc EXCEPT ![c] = "debiting"] /\ pc'[c] = "debiting"
      /\ counted'[c] = D
      /\ \A d \in Call \ {c} : counted'[d] = counted[d]
      /\ asked[c] \in Ask /\ asked[c].flag
  BY DEF Ended, Label, IInv, TypeOK, MoneyTypeOK, InStep, SpendInStep
<1>2. counted' \in [Call -> SUBSET Call]
  <2>1. D \in SUBSET Call
    BY DEF Deducted
  <2>. HIDE DEF D
  <2>. QED
    BY <1>1, <2>1 DEF IInv, TypeOK
<1>3. InStep(c)'
  BY <1>1 DEF InStep, SpendInStep, Statements, Ended
<1>4. \A u \in User, cur \in Currency :
         /\ Given(c, u, cur) = 0 /\ Given(c, u, cur)' = 0
         /\ Received(c, u, cur) = 0 /\ Received(c, u, cur)' = 0
  BY <1>1 DEF Given, Received
<1>5. CountsRight(c)'
  <2>1. \A d \in D : /\ d \in Call /\ expense[d] = "recent" /\ asked[d].flag
                     /\ asked[d].user = asked[c].user /\ d # c
    <3>1. \A d \in D : /\ d \in Call /\ expense[d] = "recent" /\ asked[d].flag
                       /\ asked[d].user = asked[c].user
      BY DEF Deducted
    <3>. QED
      BY <1>1, <3>1 DEF IInv, RowsInStep, Done
  <2>2. ASSUME NEW d \in D, NEW e \in counted'[d], expense[e] = "recent"
        PROVE  e \in D
    <3>1. e \in counted[d]
      BY <1>1, <2>1, <2>2
    <3>2. pc[d] = "done"
      BY <2>1 DEF IInv, RowsInStep, Done
    <3>. QED
      BY <2>1, <2>2, <3>1, <3>2, CountedFacts DEF Deducted
  <2>3. Spent(counted[c])' + asked[c].amount <= MaxHourly
    BY <1>1 DEF WithinHour, Spent
  <2>. HIDE DEF D
  <2>. QED
    BY <1>1, <2>1, <2>2, <2>3 DEF CountsRight
<1>6. work' \in [Call -> Work] /\ Proceed(c, "debiting")
  BY DEF IInv, TypeOK, MoneyTypeOK
<1>7. pc[c] \notin Ended \cup {"idle"}
  BY <1>1 DEF Ended
<1>. QED
  BY <1>1, <1>2, <1>3, <1>4, <1>5, <1>6, <1>7, ReadInv

(* The moves of money, none of which is the last statement.                *)
LEMMA MoveInv ==
    ASSUME IInv, NEW c \in Call, pc[c] \notin Ended \cup {"idle"},
           NEW label \in Label \ (Ended \cup {"idle"}), Proceed(c, label),
           NEW u \in User, NEW cur \in Currency, NEW n \in Nat, NEW move \in Int,
           \/ Debit(c, u, cur, n) /\ move = -n
           \/ Credit(c, u, cur, n) /\ move = n,
           UNCHANGED <<work, rate, allowanceVars, expenseVars>>,
           InStep(c)',
           label # "inserting" \/ pc[c] = "debiting",
           label # "debiting",
           \A v \in User, k \in Currency :
              Received(c, v, k)' - Given(c, v, k)' =
                Received(c, v, k) - Given(c, v, k) + (IF v = u /\ k = cur THEN move ELSE 0)
    PROVE  IInv'
<1>. USE DEF Proceed, Goto, allowanceVars, expenseVars
<1>1. WalletsInv
  BY DEF WalletsInv, IInv, TypeOK, MoneyTypeOK
<1>2. WalletsInv' /\ Update(c, u, cur, move)
  <2>1. CASE Debit(c, u, cur, n) /\ move = -n
    BY <1>1, <2>1, DebitKeepsInv DEF Debit
  <2>2. CASE Credit(c, u, cur, n) /\ move = n
    BY <1>1, <2>2, CreditKeepsInv DEF Credit
  <2>. QED
    BY <2>1, <2>2
<1>3. /\ balance' = balance
      /\ \A d \in Call \ {c} : delta'[d] = delta[d]
      /\ \A v \in User, k \in Currency :
            delta'[c][v][k] = delta[c][v][k] + (IF v = u /\ k = cur THEN move ELSE 0)
  BY <1>1, <1>2 DEF Update, WalletsInv, WalletsTypeOK
<1>4. MovesInStep(c)'
  BY <1>3 DEF MovesInStep, IInv, InFlightIsMove
<1>5. pc'[c] = label /\ \A d \in Call \ {c} : pc'[d] = pc[d]
  BY DEF IInv, TypeOK, MoneyTypeOK
<1>6. CountsNothing(c) /\ pc'[c] \notin Ended
  BY <1>5 DEF CountsNothing, Ended
<1>7. CountsRight(c)'
  BY <1>3, <1>5, <1>6, ProceedCount
<1>8. work' \in [Call -> Work] /\ counted' \in [Call -> SUBSET Call]
  BY DEF IInv, TypeOK, MoneyTypeOK
<1>. QED
  BY <1>2, <1>3, <1>4, <1>7, <1>8, ProceedInv

LEMMA DebitPtsInv ==
    ASSUME IInv, NEW c \in Call, DebitPts(c), UNCHANGED <<allowanceVars, expenseVars>>
    PROVE  IInv'
<1>. USE DEF DebitPts, At
<1>. DEFINE u == asked[c].user
            n == asked[c].amount
<1>1. /\ asked[c].op = "exchange" /\ pc[c] = "debiting"
      /\ pc[c] \notin Ended \cup {"idle"}
      /\ "crediting" \in Label \ (Ended \cup {"idle"})
      /\ asked[c] \in Ask /\ InStep(c)
  BY DEF Ended, Label, IInv, InStep
<1>2. u \in User /\ Pts \in Currency /\ n \in Nat /\ -n \in Int
  BY <1>1, CallFacts
<1>3. asked' = asked /\ work' = work /\ rate' = rate /\ pc'[c] = "crediting"
  BY DEF Proceed, Goto, IInv, TypeOK, MoneyTypeOK
<1>4. InStep(c)'
  BY <1>1, <1>3
  DEF InStep, ExchangeInStep, Exchangeable, Worth, Statements, Ended
<1>5. \A v \in User, k \in Currency :
          Received(c, v, k)' - Given(c, v, k)' =
              Received(c, v, k) - Given(c, v, k) + (IF v = u /\ k = Pts THEN -n ELSE 0)
  BY <1>1, <1>2, <1>3 DEF Received, Given
<1>6. /\ Debit(c, u, Pts, n) /\ Proceed(c, "crediting")
      /\ UNCHANGED <<work, rate, allowanceVars, expenseVars>>
  BY <1>3
<1>. HIDE DEF u, n, DebitPts
<1>. QED
  BY <1>1, <1>2, <1>4, <1>5, <1>6, MoveInv

LEMMA CreditOwnInv ==
    ASSUME IInv, NEW c \in Call, CreditOwn(c), UNCHANGED <<allowanceVars, expenseVars>>
    PROVE  IInv'
<1>. USE DEF CreditOwn, Crediting, At
<1>. DEFINE u == asked[c].user
            n == work[c].amount
<1>1. /\ asked[c].op \in {"topup", "exchange"} /\ pc[c] = "crediting"
      /\ pc[c] \notin Ended \cup {"idle"}
      /\ "recording" \in Label \ (Ended \cup {"idle"})
      /\ asked[c] \in Ask /\ InStep(c)
  BY DEF Ended, Label, IInv, InStep
<1>2. u \in User /\ Idr \in Currency /\ n \in Nat /\ n \in Int /\ asked[c].amount \in Nat
  BY <1>1, CallFacts
<1>3. asked' = asked /\ work' = work /\ rate' = rate /\ pc'[c] = "recording"
  BY DEF Proceed, Goto, IInv, TypeOK, MoneyTypeOK
<1>4. InStep(c)'
  <2>1. work[c].amount > 0
    BY DEF Credit
  <2>. QED
    BY <1>1, <1>3, <2>1
    DEF InStep, TopupInStep, ExchangeInStep, Exchangeable, Worth, Statements, Ended
<1>5. \A v \in User, k \in Currency :
          Received(c, v, k)' - Given(c, v, k)' =
              Received(c, v, k) - Given(c, v, k) + (IF v = u /\ k = Idr THEN n ELSE 0)
  BY <1>1, <1>2, <1>3 DEF Received, Given
<1>6. /\ Credit(c, u, Idr, n) /\ Proceed(c, "recording")
      /\ UNCHANGED <<work, rate, allowanceVars, expenseVars>>
  BY <1>3
<1>. HIDE DEF u, n, CreditOwn
<1>. QED
  BY <1>1, <1>2, <1>4, <1>5, <1>6, MoveInv

LEMMA TransferMoveInv ==
    ASSUME IInv, NEW c \in Call, DebitParent(c) \/ CreditChild(c),
           UNCHANGED <<rate, expenseVars>>
    PROVE  IInv'
<1>. USE DEF DebitParent, CreditChild, At, allowanceVars
<1>. DEFINE debits == pc[c] = "debiting"
            label == IF debits THEN "crediting" ELSE "recording"
            u == IF debits THEN asked[c].user ELSE Row(c).child
            cur == work[c].currency
            n == work[c].amount
            move == IF debits THEN -n ELSE n
<1>1. /\ asked[c].op = "transfer" /\ pc[c] \in {"debiting", "crediting"}
      /\ pc[c] \notin Ended \cup {"idle"}
      /\ label \in Label \ (Ended \cup {"idle"})
      /\ asked[c] \in Ask /\ InStep(c) /\ TransferInStep(c)
  BY DEF Ended, Label, IInv, InStep
<1>2. u \in User /\ cur \in Currency /\ n \in Nat /\ move \in Int
  BY <1>1, CallFacts, RowFacts DEF TransferInStep, Row, Target
<1>3. /\ asked' = asked /\ work' = work /\ pc'[c] = label
      /\ versions' = versions /\ Row(c)' = Row(c)
  BY <1>1 DEF Proceed, Goto, IInv, TypeOK, MoneyTypeOK, Row, Target
<1>4. InStep(c)'
  BY <1>1, <1>3 DEF InStep, TransferInStep, Statements, Ended
<1>5. \A v \in User, k \in Currency :
          Received(c, v, k)' - Given(c, v, k)' =
              Received(c, v, k) - Given(c, v, k) + (IF v = u /\ k = cur THEN move ELSE 0)
  BY <1>1, <1>2, <1>3 DEF Received, Given
<1>6. /\ \/ Debit(c, u, cur, n) /\ move = -n
         \/ Credit(c, u, cur, n) /\ move = n
      /\ Proceed(c, label)
      /\ UNCHANGED <<work, rate, allowanceVars, expenseVars>>
  <2>1. CASE debits
    BY <2>1
  <2>2. CASE ~ debits
    BY <2>2
  <2>. QED
    BY <2>1, <2>2
<1>7. label # "inserting" /\ label # "debiting"
  OBVIOUS
<1>. HIDE DEF u, n, cur, move, label, DebitParent, CreditChild, allowanceVars
<1>. QED
  BY <1>1, <1>2, <1>4, <1>5, <1>6, <1>7, MoveInv

LEMMA DebitExpenseInv ==
    ASSUME IInv, NEW c \in Call, DebitExpense(c), UNCHANGED <<rate, allowanceVars>>
    PROVE  IInv'
<1>. USE DEF DebitExpense, At
<1>. DEFINE u == asked[c].user
            cur == asked[c].currency
            n == asked[c].amount
<1>1. /\ asked[c].op = "spend" /\ pc[c] = "debiting"
      /\ pc[c] \notin Ended \cup {"idle"}
      /\ "inserting" \in Label \ (Ended \cup {"idle"})
      /\ asked[c] \in Ask /\ InStep(c) /\ asked[c].flag
  BY DEF Ended, Label, IInv, InStep, SpendInStep
<1>2. u \in User /\ cur \in Currency /\ n \in Nat /\ -n \in Int
  BY <1>1, CallFacts
<1>3. asked' = asked /\ work' = work /\ pc'[c] = "inserting"
  BY DEF Proceed, Goto, IInv, TypeOK, MoneyTypeOK
<1>4. InStep(c)'
  BY <1>1, <1>3 DEF InStep, SpendInStep, Statements, Ended
<1>5. \A v \in User, k \in Currency :
          Received(c, v, k)' - Given(c, v, k)' =
              Received(c, v, k) - Given(c, v, k) + (IF v = u /\ k = cur THEN -n ELSE 0)
  BY <1>1, <1>2, <1>3 DEF Received, Given
<1>6. /\ Debit(c, u, cur, n) /\ Proceed(c, "inserting")
      /\ UNCHANGED <<work, rate, allowanceVars, expenseVars>>
  BY <1>3
<1>. HIDE DEF u, cur, n, DebitExpense
<1>. QED
  BY <1>1, <1>2, <1>4, <1>5, <1>6, MoveInv

-----------------------------------------------------------------------------
(* Last statements and commits                                             *)

LEMMA FinishFacts ==
    ASSUME IInv, NEW c \in Call,
           pc[c] \in {"recording", "inserting", "editing", "removing"},
           Finish(c), UNCHANGED <<rate, counted>>
    PROVE  /\ WalletsInv'
           /\ pc' = [pc EXCEPT ![c] = "done"] /\ pc'[c] = "done"
           /\ pc[c] \notin Ended \cup {"idle"}
           /\ asked' = asked /\ work' = work /\ member' = member
           /\ LeavesOthers(c)
           /\ MovesInStep(c)'
           /\ InStep(c)'
           /\ \A u \in User, cur \in Currency :
                balance'[u][cur] = balance[u][cur] + Received(c, u, cur) - Given(c, u, cur)
<1>. USE DEF Finish, Goto
<1>1. WalletsInv /\ WalletsInv'
  <2>1. WalletsInv
    BY DEF WalletsInv, IInv, TypeOK, MoneyTypeOK
  <2>. QED
    BY <2>1, CommitKeepsInv
<1>2. /\ pc' = [pc EXCEPT ![c] = "done"] /\ pc'[c] = "done"
      /\ pc[c] \notin Ended \cup {"idle"}
      /\ \A d \in Call \ {c} : pc'[d] = pc[d]
  BY DEF IInv, TypeOK, MoneyTypeOK, Ended
<1>3. /\ \A d \in Call \ {c} : delta'[d] = delta[d]
      /\ delta'[c] = NoDelta
  BY <1>1 DEF CommitWallets, WalletsInv, WalletsTypeOK
<1>4. LeavesOthers(c)
  BY <1>2, <1>3 DEF LeavesOthers
<1>5. MovesInStep(c)'
  <2>1. ASSUME NEW u \in User, NEW cur \in Currency
        PROVE  /\ delta'[c][u][cur] = 0
               /\ Given(c, u, cur)' = 0 /\ Received(c, u, cur)' = 0
    BY <1>2, <1>3 DEF NoDelta, Given, Received, At
  <2>. QED
    BY <2>1 DEF MovesInStep
<1>6. InStep(c)'
  <2>1. InStep(c)
    BY DEF IInv
  <2>2. asked[c].op = "exchange" => ExchangeInStep(c)'
    BY <1>2, <2>1 DEF InStep, ExchangeInStep, Exchangeable, Worth, Statements, Ended
  <2>3. asked[c].op = "topup" => TopupInStep(c)'
    BY <1>2, <2>1 DEF InStep, TopupInStep, Ended
  <2>4. SpendInStep(c)'
    BY <1>2 DEF SpendInStep
  <2>. QED
    BY <1>2, <2>1, <2>2, <2>3, <2>4 DEF InStep, Ended
<1>7. ASSUME NEW u \in User, NEW cur \in Currency
      PROVE  balance'[u][cur] = balance[u][cur] + Received(c, u, cur) - Given(c, u, cur)
  <2>1. balance'[u][cur] = balance[u][cur] + delta[c][u][cur]
    BY DEF CommitWallets, Seen
  <2>2. delta[c][u][cur] = Received(c, u, cur) - Given(c, u, cur)
    BY DEF IInv, InFlightIsMove
  <2>3. Received(c, u, cur) \in Int /\ Given(c, u, cur) \in Int
    BY <1>2, CallFacts DEF Received, Given
  <2>4. balance[u][cur] \in Int
    BY <1>1 DEF WalletsInv, WalletsTypeOK, Purses
  <2>. QED
    BY <2>1, <2>2, <2>3, <2>4
<1>. QED
  BY <1>1, <1>2, <1>4, <1>5, <1>6, <1>7

(* What a finished exchange or unrecorded top-up adds to Explained.        *)
Kept(c, u, cur) ==
    IF u # asked[c].user THEN 0
    ELSE IF cur = Idr
         THEN IF asked[c].op = "topup" /\ ~ work[c].family THEN asked[c].amount
              ELSE IF asked[c].op = "exchange" THEN Worth(asked[c].amount)
              ELSE 0
         ELSE IF asked[c].op = "exchange" THEN - asked[c].amount
              ELSE 0

(* The record of a call, if it leaves one, and what it keeps to itself     *)
(* account for the money it moved.                                         *)
Books(c, rec, e) ==
    /\ rec \in BOOLEAN
    /\ e \in Entry
    /\ e.id = c
    /\ ledger' = IF rec THEN ledger \cup {e} ELSE ledger
    /\ \A u \in User, cur \in Currency :
          Received(c, u, cur) - Given(c, u, cur) = Kept(c, u, cur)
             + (IF rec /\ e.currency = cur /\ e.destination = u THEN e.amount ELSE 0)
             - (IF rec /\ e.currency = cur /\ e.source = u THEN e.amount ELSE 0)
    /\ asked[c].op = "transfer" /\ rec =>
          [amount |-> e.amount, currency |-> e.currency, active |-> TRUE]
              \in versions'[c]
    /\ asked[c].op = "spend" => e.reference = c /\ rec = asked[c].flag

LEMMA FinishExplained ==
    ASSUME IInv, NEW c \in Call,
           pc[c] \in {"recording", "inserting", "editing", "removing"},
           Finish(c), UNCHANGED <<rate, counted>>, TypeOK',
           NEW rec, NEW e, Books(c, rec, e)
    PROVE  Explained'
<1>1. /\ pc'[c] = "done" /\ pc[c] \notin Ended \cup {"idle"}
      /\ asked' = asked /\ work' = work /\ rate' = rate
      /\ LeavesOthers(c) /\ InStep(c)'
      /\ \A u \in User, cur \in Currency :
            balance'[u][cur] = balance[u][cur] + Received(c, u, cur) - Given(c, u, cur)
  BY FinishFacts
<1>2. e \notin ledger
  BY <1>1 DEF Books, IInv, RowsInStep, Ended
<1>. SUFFICES ASSUME NEW u \in User, NEW cur \in Currency
              PROVE  balance'[u][cur] = Opening[u][cur]
            + SumOfEntries(Incoming(u, cur))' - SumOfEntries(Outgoing(u, cur))'
            + (IF cur = Idr
               THEN SumFunctionOnSet(AskedFor, Unrecorded(u))'
                        + SumFunctionOnSet(Bought, ExchangesOf(u))'
               ELSE - SumFunctionOnSet(AskedFor, ExchangesOf(u))')
  BY DEF Explained
<1>. DEFINE in == IF rec /\ e.currency = cur /\ e.destination = u THEN e.amount ELSE 0
            out == IF rec /\ e.currency = cur /\ e.source = u THEN e.amount ELSE 0
            move == Received(c, u, cur) - Given(c, u, cur)
<1>3. /\ SumOfEntries(Incoming(u, cur)) \in Int
      /\ SumOfEntries(Outgoing(u, cur)) \in Int
      /\ SumOfEntries(Incoming(u, cur))' = SumOfEntries(Incoming(u, cur)) + in
      /\ SumOfEntries(Outgoing(u, cur))' = SumOfEntries(Outgoing(u, cur)) + out
  <2>1. CASE rec
    <3>1. ledger' = ledger \cup {e} /\ e \in Entry
      BY <2>1 DEF Books
    <3>. QED
      BY <2>1, <3>1, <1>2, EntrySums
  <2>2. CASE ~ rec
    <3>1. ledger' = ledger
      BY <2>2 DEF Books
    <3>2. /\ SumOfEntries(Incoming(u, cur))' = SumOfEntries(Incoming(u, cur))
          /\ SumOfEntries(Outgoing(u, cur))' = SumOfEntries(Outgoing(u, cur))
      BY <3>1 DEF SumOfEntries, Incoming, Outgoing
    <3>3. /\ SumOfEntries(Incoming(u, cur)) \in Int
          /\ SumOfEntries(Outgoing(u, cur)) \in Int
      BY EntrySumsAreNumbers
    <3>. QED
      BY <2>2, <3>2, <3>3
  <2>. QED
    BY <2>1, <2>2
<1>4. /\ SumFunctionOnSet(AskedFor, Unrecorded(u)) \in Int
      /\ SumFunctionOnSet(AskedFor, ExchangesOf(u)) \in Int
      /\ SumFunctionOnSet(Bought, ExchangesOf(u)) \in Int
      /\ SumFunctionOnSet(AskedFor, Unrecorded(u))' =
           SumFunctionOnSet(AskedFor, Unrecorded(u))
               + (IF c \in Unrecorded(u)' THEN asked'[c].amount ELSE 0)
      /\ SumFunctionOnSet(AskedFor, ExchangesOf(u))' =
           SumFunctionOnSet(AskedFor, ExchangesOf(u))
               + (IF c \in ExchangesOf(u)' THEN asked'[c].amount ELSE 0)
      /\ SumFunctionOnSet(Bought, ExchangesOf(u))' =
           SumFunctionOnSet(Bought, ExchangesOf(u))
               + (IF c \in ExchangesOf(u)' THEN Worth(asked[c].amount)' ELSE 0)
  BY <1>1, DoneSums
<1>5. /\ c \in Unrecorded(u)' <=>
            asked[c].op = "topup" /\ asked[c].user = u /\ ~ work[c].family
      /\ c \in ExchangesOf(u)' <=> asked[c].op = "exchange" /\ asked[c].user = u
      /\ Worth(asked[c].amount)' = Worth(asked[c].amount)
  BY <1>1 DEF Unrecorded, ExchangesOf, Done, Worth
<1>6. /\ balance'[u][cur] = balance[u][cur] + move
      /\ balance[u][cur] \in Int /\ Opening[u][cur] \in Int
      /\ move \in Int
  <2>1. Received(c, u, cur) \in Int /\ Given(c, u, cur) \in Int
    BY <1>1, CallFacts DEF Received, Given
  <2>2. balance[u][cur] \in Int /\ Opening[u][cur] \in Int
    BY DEF IInv, TypeOK, MoneyTypeOK, WalletsTypeOK, Purses
  <2>. QED
    BY <1>1, <2>1, <2>2
<1>7. move = Kept(c, u, cur) + in - out /\ in \in Int /\ out \in Int
  BY DEF Books, Entry
<1>8. asked[c].amount \in Int
  BY <1>1, CallFacts
<1>9. asked[c].op = "exchange" => Worth(asked[c].amount) \in Int
  BY <1>1, PricedFacts DEF Ended, IInv, InStep, ExchangeInStep
<1>10. balance[u][cur] = Opening[u][cur]
            + SumOfEntries(Incoming(u, cur)) - SumOfEntries(Outgoing(u, cur))
            + (IF cur = Idr
               THEN SumFunctionOnSet(AskedFor, Unrecorded(u))
                        + SumFunctionOnSet(Bought, ExchangesOf(u))
               ELSE - SumFunctionOnSet(AskedFor, ExchangesOf(u)))
  BY DEF IInv, Explained
<1>11. asked'[c].amount = asked[c].amount
  BY <1>1
<1>. HIDE DEF in, out, move
<1>12. CASE cur = Idr
  <2>1. Kept(c, u, cur) = (IF c \in Unrecorded(u)' THEN asked[c].amount ELSE 0)
                            + (IF c \in ExchangesOf(u)' THEN Worth(asked[c].amount) ELSE 0)
    BY <1>5, <1>8, <1>9, <1>12 DEF Kept
  <2>. QED
    BY <2>1, <1>3, <1>4, <1>5, <1>6, <1>7, <1>8, <1>9, <1>10, <1>11, <1>12
<1>13. CASE cur # Idr
  <2>1. Kept(c, u, cur) = - (IF c \in ExchangesOf(u)' THEN asked[c].amount ELSE 0)
    BY <1>5, <1>8, <1>13 DEF Kept
  <2>. QED
    BY <2>1, <1>3, <1>4, <1>6, <1>7, <1>8, <1>10, <1>11, <1>13
<1>. QED
  BY <1>12, <1>13

(* What a last statement may do to the rows.                               *)
RowsWritten(c) ==
    /\ allowance' \in [Allowance -> AllowanceRow]
    /\ versions' \in [Call -> SUBSET [amount : Nat, currency : Currency,
                                      active : BOOLEAN]]
    /\ expense' \in [Call -> {"absent", "recent", "old", "deleted"}]
    /\ \A a \in Allowance : allowance'[a].status = "open" =>
        /\ allowance'[a].parent \in Parent /\ allowance'[a].child \in Child
        /\ \/ allowance[a].status = "open"
           \/ a = c /\ asked[c].op = "allow"
    /\ \A d \in Call \ {c} :
        \/ expense'[d] = expense[d]
        \/ expense[d] # "absent" /\ expense'[d] # "absent" /\ ~ asked[d].flag
    /\ IF asked[c].op = "spend" THEN expense'[c] = "recent" ELSE expense'[c] = "absent"

LEMMA FinishInv ==
    ASSUME IInv, NEW c \in Call,
           pc[c] \in {"recording", "inserting", "editing", "removing"},
           Finish(c), UNCHANGED <<rate, counted>>,
           notices' \subseteq [call : Call, user : User],
           KeepsRows(c), RowsWritten(c), NEW rec, NEW e, Books(c, rec, e)
    PROVE  IInv'
<1>1. /\ WalletsInv'
      /\ pc' = [pc EXCEPT ![c] = "done"] /\ pc'[c] = "done"
      /\ pc[c] \notin Ended \cup {"idle"}
      /\ asked' = asked /\ work' = work /\ member' = member
      /\ LeavesOthers(c) /\ MovesInStep(c)' /\ InStep(c)'
  BY FinishFacts
<1>2. ledger' \subseteq ledger \cup {e} /\ ledger \subseteq ledger'
      /\ e \in Entry /\ e.id = c
  BY DEF Books
<1>3. TypeOK' /\ InFlightCovered'
  <2>1. pc' \in [Call -> Label] /\ ledger' \subseteq Entry
    BY <1>1, <1>2 DEF IInv, TypeOK, MoneyTypeOK, Label, Ended
  <2>2. MoneyTypeOK'
    BY <1>1, <2>1 DEF IInv, TypeOK, MoneyTypeOK, WalletsInv
  <2>. QED
    BY <1>1, <2>2 DEF IInv, TypeOK, WalletsInv, RowsWritten
<1>4. CountsRight(c)'
  <2>1. asked[c].op = "spend" => pc[c] = "inserting"
    BY <1>1 DEF IInv, InStep, Statements, Ended
  <2>. QED
    BY <1>1, <2>1, OwnCount DEF CountsNothing
<1>5. /\ \A d \in Call \ {c} : pc'[d] = pc[d]
      /\ \A d \in Call : pc[d] = "done" => d # c
      /\ \A x \in ledger : x.id \in Call \ {c}
      /\ expense[c] = "absent"
  BY <1>1 DEF Ended, LeavesOthers, IInv, TypeOK, MoneyTypeOK, Entry, RowsInStep, Done
<1>6. RowsInStep'
  <2>1. ASSUME NEW a \in Allowance, allowance'[a].status = "open"
        PROVE  /\ allowance'[a].parent \in Parent /\ allowance'[a].child \in Child
               /\ a \in Call => asked'[a].op = "allow" /\ pc'[a] = "done"
    <3>1. CASE allowance[a].status = "open"
      BY <1>1, <1>5, <2>1, <3>1 DEF RowsWritten, IInv, RowsInStep
    <3>2. CASE a = c /\ asked[c].op = "allow"
      BY <1>1, <2>1, <3>2 DEF RowsWritten
    <3>. QED
      BY <2>1, <3>1, <3>2 DEF RowsWritten
  <2>2. ASSUME NEW d \in Call
        PROVE  expense'[d] # "absent" <=> d \in Done("spend")'
    <3>1. CASE d = c
      BY <1>1, <3>1 DEF RowsWritten, Done
    <3>2. CASE d # c
      <4>1. expense'[d] # "absent" <=> expense[d] # "absent"
        BY <3>2 DEF RowsWritten
      <4>2. d \in Done("spend")' <=> d \in Done("spend")
        BY <1>1, <1>5, <3>2 DEF Done
      <4>. QED
        BY <4>1, <4>2 DEF IInv, RowsInStep
    <3>. QED
      BY <3>1, <3>2
  <2>3. ASSUME NEW x \in ledger'
        PROVE  /\ pc'[x.id] = "done"
               /\ asked'[x.id].op = "spend" => x.reference = x.id /\ asked'[x.id].flag
    <3>1. CASE x \in ledger
      BY <1>1, <1>5, <3>1 DEF IInv, RowsInStep
    <3>2. CASE x \notin ledger
      BY <1>1, <1>2, <3>2 DEF Books
    <3>. QED
      BY <3>1, <3>2
  <2>. QED
    BY <2>1, <2>2, <2>3 DEF RowsInStep
<1>7. Explained'
  BY <1>3, FinishExplained
<1>8. PaidAsAgreed'
  <2>. SUFFICES ASSUME NEW x \in ledger', asked[x.id].op = "transfer"
                PROVE  [amount |-> x.amount, currency |-> x.currency, active |-> TRUE]
                          \in versions'[x.id]
    BY <1>1 DEF PaidAsAgreed
  <2>1. CASE x \in ledger
    BY <1>5, <2>1 DEF IInv, PaidAsAgreed, KeepsRows
  <2>2. CASE x \notin ledger
    BY <1>2, <2>2 DEF Books
  <2>. QED
    BY <2>1, <2>2
<1>9. DeductionsOnRecord'
  <2>. SUFFICES ASSUME NEW d \in Call
                PROVE  (Noted(d)' /\ asked[d].flag)
                          <=> \E x \in ledger' : x.reference = d /\ asked[x.id].op = "spend"
    BY <1>1 DEF DeductionsOnRecord
  <2>1. CASE d = c
    <3>1. Noted(c)' <=> asked[c].op = "spend"
      BY DEF Noted, RowsWritten
    <3>2. \A x \in ledger : asked[x.id].op = "spend" => x.reference # c
      BY <1>5 DEF IInv, RowsInStep
    <3>3. asked[c].op = "spend" => e.reference = c /\ rec = asked[c].flag
      BY DEF Books
    <3>4. ledger' = IF rec THEN ledger \cup {e} ELSE ledger
      BY DEF Books
    <3>. QED
      BY <1>2, <2>1, <3>1, <3>2, <3>3, <3>4
  <2>2. CASE d # c
    <3>1. (Noted(d)' /\ asked[d].flag) <=> (Noted(d) /\ asked[d].flag)
      BY <2>2 DEF Noted, RowsWritten
    <3>2. asked[e.id].op = "spend" => e.reference # d
      BY <1>2, <2>2 DEF Books
    <3>3. (\E x \in ledger' : x.reference = d /\ asked[x.id].op = "spend")
             <=> (\E x \in ledger : x.reference = d /\ asked[x.id].op = "spend")
      BY <1>2, <3>2
    <3>. QED
      BY <3>1, <3>3 DEF IInv, DeductionsOnRecord
  <2>. QED
    BY <2>1, <2>2
<1>. QED
  BY <1>1, <1>2, <1>3, <1>4, <1>6, <1>7, <1>8, <1>9, StepInv

(* A last statement that leaves the allowances as they are.                *)
LEMMA SameAllowances ==
    ASSUME IInv, NEW c \in Call, UNCHANGED allowanceVars,
           \A d \in Call : expense[d] # "absent" => expense'[d] # "absent",
           \A d \in Call : expense'[d] = "recent" => expense[d] = "recent" \/ d = c
    PROVE  /\ KeepsRows(c)
           /\ allowance' \in [Allowance -> AllowanceRow]
           /\ versions' \in [Call -> SUBSET [amount : Nat, currency : Currency,
                                             active : BOOLEAN]]
           /\ \A a \in Allowance : allowance'[a].status = "open" =>
               /\ allowance'[a].parent \in Parent /\ allowance'[a].child \in Child
               /\ allowance[a].status = "open"
<1>1. KeepsRows(c)
  BY DEF KeepsRows, Terms, Row, allowanceVars
<1>. QED
  BY <1>1 DEF allowanceVars, IInv, TypeOK, RowsInStep

LEMMA NotYetNoted ==
    ASSUME IInv, NEW c \in Call, pc[c] # "done"
    PROVE  expense[c] = "absent"
BY DEF IInv, RowsInStep, Done

LEMMA RecordOwnInv ==
    ASSUME IInv, NEW c \in Call, RecordOwn(c), UNCHANGED <<allowanceVars, expenseVars>>
    PROVE  IInv'
<1>. USE DEF expenseVars
<1>. DEFINE e == IF asked[c].op = "topup" THEN TopupEntry(c) ELSE ExchangeEntry(c)
            rec == work[c].family
<1>1. /\ asked[c].op \in {"topup", "exchange"} /\ pc[c] = "recording"
      /\ Finish(c) /\ UNCHANGED <<rate, counted, notices, expense>>
      /\ asked[c].user \in User /\ asked[c].amount \in Nat
      /\ Idr \in Currency /\ Pts \in Currency
      /\ rec \in BOOLEAN
  BY CallFacts DEF RecordOwn, Work
<1>2. e \in Entry /\ e.id = c
  BY <1>1 DEF Entry, TopupEntry, ExchangeEntry
<1>3. ledger' = IF rec THEN ledger \cup {e} ELSE ledger
  BY <1>1 DEF RecordOwn
<1>4. /\ asked[c].op = "topup" => work[c].amount = asked[c].amount
      /\ asked[c].op = "exchange" => work[c].amount = Worth(asked[c].amount)
      /\ work[c].amount \in Nat
  BY <1>1, CallFacts DEF IInv, InStep, TopupInStep, ExchangeInStep
<1>5. ASSUME NEW u \in User, NEW cur \in Currency
      PROVE  Received(c, u, cur) - Given(c, u, cur) = Kept(c, u, cur)
                + (IF rec /\ e.currency = cur /\ e.destination = u THEN e.amount ELSE 0)
                - (IF rec /\ e.currency = cur /\ e.source = u THEN e.amount ELSE 0)
  <2>1. cur \in {Idr, Pts} /\ Idr # Pts /\ u # Nobody
    OBVIOUS
  <2>2. CASE asked[c].op = "topup"
    <3>1. /\ e.currency = Idr /\ e.destination = asked[c].user /\ e.source = Nobody
          /\ e.amount = asked[c].amount
      BY <2>2 DEF TopupEntry
    <3>2. Given(c, u, cur) = 0
      BY <1>1, <2>2 DEF Given, At
    <3>3. Received(c, u, cur) =
             IF u = asked[c].user /\ cur = Idr THEN asked[c].amount ELSE 0
      BY <1>1, <1>4, <2>2 DEF Received
    <3>4. Kept(c, u, cur) =
             IF u = asked[c].user /\ cur = Idr /\ ~ rec THEN asked[c].amount ELSE 0
      BY <2>2 DEF Kept
    <3>. HIDE DEF e, rec
    <3>. QED
      BY <1>1, <2>1, <3>1, <3>2, <3>3, <3>4
  <2>3. CASE asked[c].op = "exchange"
    <3>1. e.destination = e.source /\ e.amount = asked[c].amount
      BY <2>3 DEF ExchangeEntry
    <3>2. Given(c, u, cur) =
             IF u = asked[c].user /\ cur = Pts THEN asked[c].amount ELSE 0
      BY <1>1, <2>3 DEF Given, At
    <3>3. Received(c, u, cur) =
             IF u = asked[c].user /\ cur = Idr THEN work[c].amount ELSE 0
      BY <1>1, <2>3 DEF Received
    <3>4. Kept(c, u, cur) =
             IF u # asked[c].user THEN 0
             ELSE IF cur = Idr THEN work[c].amount ELSE - asked[c].amount
      BY <1>4, <2>3 DEF Kept
    <3>. HIDE DEF e, rec
    <3>. QED
      BY <1>1, <1>4, <2>1, <3>1, <3>2, <3>3, <3>4
  <2>. QED
    BY <1>1, <2>2, <2>3
<1>6. Books(c, rec, e)
  <2>. HIDE DEF e, rec
  <2>. QED
    BY <1>1, <1>2, <1>3, <1>5 DEF Books
<1>7. KeepsRows(c) /\ RowsWritten(c)
  <2>1. expense[c] = "absent"
    BY <1>1, NotYetNoted
  <2>. QED
    BY <1>1, <2>1, SameAllowances DEF RowsWritten, IInv, TypeOK
<1>8. notices' \subseteq [call : Call, user : User]
  BY <1>1 DEF IInv, TypeOK, MoneyTypeOK
<1>. HIDE DEF e, rec
<1>. QED
  BY <1>1, <1>6, <1>7, <1>8, FinishInv

LEMMA RecordTransferInv ==
    ASSUME IInv, NEW c \in Call, RecordTransfer(c), UNCHANGED <<rate, expenseVars>>
    PROVE  IInv'
<1>. USE DEF expenseVars
<1>. DEFINE e == TransferEntry(c)
<1>1. /\ asked[c].op = "transfer" /\ pc[c] = "recording"
      /\ Finish(c) /\ UNCHANGED <<rate, counted, expense, allowanceVars>>
      /\ ledger' = ledger \cup {e}
      /\ notices' = notices \cup {[call |-> c, user |-> Row(c).child]}
  BY DEF RecordTransfer, At
<1>2. /\ asked[c].user \in User /\ Target(c) \in Allowance
      /\ work[c].amount \in Nat /\ work[c].currency \in Currency
  BY <1>1, CallFacts DEF Target
<1>3. /\ Row(c).child \in User
      /\ [amount |-> work[c].amount, currency |-> work[c].currency, active |-> TRUE]
             \in versions[c]
  <2>1. TransferInStep(c)
    BY <1>1 DEF IInv, InStep, Ended
  <2>. QED
    BY <1>1, <1>2, <2>1, RowFacts DEF TransferInStep, Row
<1>4. e \in Entry /\ e.id = c
  BY <1>2, <1>3 DEF TransferEntry, Entry, Allowance
<1>5. ASSUME NEW u \in User, NEW cur \in Currency
      PROVE  Received(c, u, cur) - Given(c, u, cur) = Kept(c, u, cur)
                + (IF e.currency = cur /\ e.destination = u THEN e.amount ELSE 0)
                - (IF e.currency = cur /\ e.source = u THEN e.amount ELSE 0)
  BY <1>1, <1>2 DEF Received, Given, Kept, TransferEntry, At
<1>6. Books(c, TRUE, e)
  <2>1. [amount |-> e.amount, currency |-> e.currency, active |-> TRUE] \in versions'[c]
    BY <1>1, <1>3 DEF TransferEntry, allowanceVars
  <2>. HIDE DEF e
  <2>. QED
    BY <1>1, <1>4, <1>5, <2>1 DEF Books
<1>7. KeepsRows(c) /\ RowsWritten(c)
  <2>1. expense[c] = "absent"
    BY <1>1, NotYetNoted
  <2>. QED
    BY <1>1, <2>1, SameAllowances DEF RowsWritten, IInv, TypeOK
<1>8. notices' \subseteq [call : Call, user : User]
  BY <1>1, <1>3 DEF IInv, TypeOK, MoneyTypeOK
<1>. HIDE DEF e
<1>. QED
  BY <1>1, <1>6, <1>7, <1>8, FinishInv

LEMMA InsertExpenseInv ==
    ASSUME IInv, NEW c \in Call, InsertExpense(c), UNCHANGED <<rate, allowanceVars>>
    PROVE  IInv'
<1>. DEFINE e == ExpenseEntry(c)
            rec == asked[c].flag
<1>1. /\ asked[c].op = "spend" /\ pc[c] = "inserting"
      /\ Finish(c) /\ UNCHANGED <<rate, counted, notices, allowanceVars>>
      /\ expense' = [expense EXCEPT ![c] = "recent"]
      /\ ledger' = IF rec THEN ledger \cup {e} ELSE ledger
  BY DEF InsertExpense, At
<1>2. /\ asked[c].user \in User /\ asked[c].amount \in Nat
      /\ asked[c].currency \in Currency /\ rec \in BOOLEAN
  BY <1>1, CallFacts
<1>3. e \in Entry /\ e.id = c /\ e.reference = c
  BY <1>2 DEF ExpenseEntry, Entry
<1>4. ASSUME NEW u \in User, NEW cur \in Currency
      PROVE  Received(c, u, cur) - Given(c, u, cur) = Kept(c, u, cur)
                + (IF rec /\ e.currency = cur /\ e.destination = u THEN e.amount ELSE 0)
                - (IF rec /\ e.currency = cur /\ e.source = u THEN e.amount ELSE 0)
  <2>1. u # Nobody
    OBVIOUS
  <2>2. Received(c, u, cur) = 0 /\ Kept(c, u, cur) = 0
    BY <1>1, <1>2 DEF Received, Kept
  <2>3. Given(c, u, cur) =
           IF u = asked[c].user /\ rec /\ cur = asked[c].currency THEN asked[c].amount ELSE 0
    BY <1>1, <1>2 DEF Given, At
  <2>4. /\ e.currency = asked[c].currency /\ e.source = asked[c].user
        /\ e.destination = Nobody /\ e.amount = asked[c].amount
    BY DEF ExpenseEntry
  <2>. HIDE DEF e, rec
  <2>. QED
    BY <1>2, <2>1, <2>2, <2>3, <2>4
<1>5. Books(c, rec, e)
  BY <1>1, <1>2, <1>3, <1>4 DEF Books
<1>6. KeepsRows(c) /\ RowsWritten(c)
  <2>1. expense'[c] = "recent" /\ \A d \in Call \ {c} : expense'[d] = expense[d]
    BY <1>1 DEF IInv, TypeOK
  <2>2. /\ \A d \in Call : expense[d] # "absent" => expense'[d] # "absent"
        /\ \A d \in Call : expense'[d] = "recent" => expense[d] = "recent" \/ d = c
    BY <2>1
  <2>3. expense' \in [Call -> {"absent", "recent", "old", "deleted"}]
    BY <1>1 DEF IInv, TypeOK
  <2>. QED
    BY <1>1, <2>1, <2>2, <2>3, SameAllowances DEF RowsWritten
<1>7. notices' \subseteq [call : Call, user : User]
  BY <1>1 DEF IInv, TypeOK, MoneyTypeOK
<1>. HIDE DEF e, rec
<1>. QED
  BY <1>1, <1>5, <1>6, <1>7, FinishInv

(* A call that moves nothing leaves no record.                             *)
LEMMA BooksNothing ==
    ASSUME IInv, NEW c \in Call, pc[c] \notin Ended \cup {"idle"},
           asked[c].op \in {"allow", "adjust", "unspend"}, ledger' = ledger
    PROVE  \E e : Books(c, FALSE, e)
<1>. DEFINE e == [id |-> c, source |-> Nobody, destination |-> Nobody, amount |-> 0,
                  currency |-> Idr, reference |-> Nobody]
<1>1. e \in Entry /\ e.id = c
  BY DEF Entry
<1>2. pc[c] # "recording"
  BY DEF IInv, InStep, Statements
<1>3. ASSUME NEW u \in User, NEW cur \in Currency
      PROVE  /\ Received(c, u, cur) = 0 /\ Given(c, u, cur) = 0
             /\ Kept(c, u, cur) = 0
  BY <1>2 DEF Received, Given, Kept, At
<1>4. Books(c, FALSE, e)
  <2>. HIDE DEF e
  <2>. QED
    BY <1>1, <1>3 DEF Books
<1>. QED
  BY <1>4

LEMMA RemoveExpenseInv ==
    ASSUME IInv, NEW c \in Call, RemoveExpense(c), UNCHANGED <<rate, allowanceVars>>
    PROVE  IInv'
<1>. DEFINE x == asked[c].about
<1>1. /\ asked[c].op = "unspend" /\ pc[c] = "removing"
      /\ pc[c] \notin Ended \cup {"idle"}
      /\ Finish(c) /\ UNCHANGED <<rate, counted, ledger, notices, allowanceVars>>
      /\ expense' = [expense EXCEPT ![x] = "deleted"]
  BY DEF RemoveExpense, At, Ended
<1>2. x \in Call /\ expense[x] # "absent" /\ ~ asked[x].flag
  BY <1>1, CallFacts DEF IInv, InStep, UnspendInStep
<1>3. expense[c] = "absent"
  BY <1>1, NotYetNoted
<1>4. /\ expense'[x] = "deleted" /\ \A d \in Call \ {x} : expense'[d] = expense[d]
      /\ expense' \in [Call -> {"absent", "recent", "old", "deleted"}]
      /\ x # c
  BY <1>1, <1>2, <1>3 DEF IInv, TypeOK
<1>5. KeepsRows(c) /\ RowsWritten(c)
  <2>1. /\ \A d \in Call : expense[d] # "absent" => expense'[d] # "absent"
        /\ \A d \in Call : expense'[d] = "recent" => expense[d] = "recent" \/ d = c
    BY <1>4
  <2>. QED
    BY <1>1, <1>2, <1>3, <1>4, <2>1, SameAllowances DEF RowsWritten
<1>6. PICK e : Books(c, FALSE, e)
  BY <1>1, BooksNothing
<1>7. notices' \subseteq [call : Call, user : User]
  BY <1>1 DEF IInv, TypeOK, MoneyTypeOK
<1>. HIDE DEF x
<1>. QED
  BY <1>1, <1>5, <1>6, <1>7, FinishInv

(* The commit of an allowance: its terms are there for every transfer of   *)
(* it that is under way.                                                   *)
LEMMA WriteFacts ==
    ASSUME IInv, NEW c \in Call, pc[c] = "inserting" \/ pc[c] = "editing",
           NEW a \in Allowance, NEW row \in AllowanceRow, Write(a, row),
           UNCHANGED expense,
           row.status = "open", row.parent \in Parent, row.child \in Child,
           \/ a = c /\ asked[c].op = "allow"
           \/ allowance[a].status = "open" /\ asked[c].op = "adjust",
           allowance[a].status = "open" =>
              row.parent = allowance[a].parent /\ row.child = allowance[a].child
    PROVE  KeepsRows(c) /\ RowsWritten(c)
<1>1. /\ allowance' = [allowance EXCEPT ![a] = row]
      /\ versions' = [d \in Call |-> IF UnderWay(d, a) THEN versions[d] \cup {Terms(row)}
                                                       ELSE versions[d]]
  BY DEF Write
<1>2. /\ allowance' \in [Allowance -> AllowanceRow]
      /\ allowance'[a] = row
      /\ \A b \in Allowance \ {a} : allowance'[b] = allowance[b]
  BY <1>1 DEF IInv, TypeOK
<1>3. \A d \in Call :
        versions'[d] = IF UnderWay(d, a) THEN versions[d] \cup {Terms(row)}
                                         ELSE versions[d]
  BY <1>1
<1>4. Terms(row) \in [amount : Nat, currency : Currency, active : BOOLEAN]
  BY DEF Terms, AllowanceRow
<1>5. versions' \in [Call -> SUBSET [amount : Nat, currency : Currency,
                                     active : BOOLEAN]]
  BY <1>1, <1>4 DEF IInv, TypeOK
<1>6. ASSUME NEW d \in Call, At(d, "transfer", "reading"), Terms(Row(d)) \in versions[d]
      PROVE  Terms(allowance'[Target(d)]) \in versions'[d]
  <2>1. Target(d) \in Allowance
    BY <1>6, CallFacts DEF At, Target
  <2>2. CASE Target(d) = a
    <3>1. UnderWay(d, a)
      BY <1>6, <2>2 DEF UnderWay, At, Target, Ended
    <3>. QED
      BY <1>2, <1>3, <2>2, <3>1
  <2>3. CASE Target(d) # a
    <3>1. allowance'[Target(d)] = Row(d)
      BY <1>2, <2>1, <2>3 DEF Row
    <3>. QED
      BY <1>3, <1>6, <3>1
  <2>. QED
    BY <2>2, <2>3
<1>7. KeepsRows(c)
  <2>1. ASSUME NEW b \in Allowance, allowance[b].status = "open"
        PROVE  /\ allowance'[b].status = "open"
               /\ allowance'[b].parent = allowance[b].parent
               /\ allowance'[b].child = allowance[b].child
    BY <1>2, <2>1
  <2>. QED
    BY <1>3, <1>6, <2>1 DEF KeepsRows
<1>8. expense[c] = "absent"
  BY NotYetNoted
<1>9. RowsWritten(c)
  <2>1. ASSUME NEW b \in Allowance, allowance'[b].status = "open"
        PROVE  /\ allowance'[b].parent \in Parent /\ allowance'[b].child \in Child
               /\ \/ allowance[b].status = "open"
                  \/ b = c /\ asked[c].op = "allow"
    BY <1>2, <2>1 DEF IInv, RowsInStep
  <2>2. expense' \in [Call -> {"absent", "recent", "old", "deleted"}]
    BY DEF IInv, TypeOK
  <2>. QED
    BY <1>2, <1>5, <1>8, <2>1, <2>2 DEF RowsWritten
<1>. QED
  BY <1>7, <1>9

LEMMA InsertAllowanceInv ==
    ASSUME IInv, NEW c \in Call, InsertAllowance(c), UNCHANGED <<rate, expenseVars>>
    PROVE  IInv'
<1>. USE DEF expenseVars
<1>1. /\ asked[c].op = "allow" /\ pc[c] = "inserting"
      /\ pc[c] \notin Ended \cup {"idle"}
      /\ Finish(c) /\ UNCHANGED <<rate, counted, expense, ledger, notices>>
      /\ Write(c, AllowanceOf(c))
  BY DEF InsertAllowance, At, Ended
<1>2. asked[c].user \in Parent /\ asked[c].about \in Child
  BY <1>1 DEF IInv, InStep, AllowInStep
<1>3. AllowanceOf(c) \in AllowanceRow
  BY <1>1, <1>2, CallFacts DEF AllowanceOf, AllowanceRow
<1>4. KeepsRows(c) /\ RowsWritten(c)
  <2>1. c \in Allowance /\ allowance[c].status # "open"
    BY <1>1 DEF Allowance, IInv, RowsInStep
  <2>2. /\ AllowanceOf(c).status = "open" /\ AllowanceOf(c).parent \in Parent
        /\ AllowanceOf(c).child \in Child
    BY <1>2 DEF AllowanceOf
  <2>. QED
    BY <1>1, <1>3, <2>1, <2>2, WriteFacts
<1>5. PICK e : Books(c, FALSE, e)
  BY <1>1, BooksNothing
<1>6. notices' \subseteq [call : Call, user : User]
  BY <1>1 DEF IInv, TypeOK, MoneyTypeOK
<1>. QED
  BY <1>1, <1>4, <1>5, <1>6, FinishInv

LEMMA EditAllowanceInv ==
    ASSUME IInv, NEW c \in Call, EditAllowance(c), UNCHANGED <<rate, expenseVars>>
    PROVE  IInv'
<1>. USE DEF expenseVars
<1>. DEFINE a == Target(c)
            row == Edited(c)
<1>1. /\ asked[c].op = "adjust" /\ pc[c] = "editing"
      /\ pc[c] \notin Ended \cup {"idle"}
      /\ Finish(c) /\ UNCHANGED <<rate, counted, expense, ledger>>
      /\ Write(a, row)
      /\ notices' = notices \cup {[call |-> c, user |-> Row(c).child]}
  BY DEF EditAllowance, At, Ended
<1>2. a \in Allowance /\ allowance[a].status = "open" /\ Row(c) = allowance[a]
  BY <1>1, CallFacts DEF IInv, InStep, AdjustInStep, Row, Target
<1>3. /\ allowance[a].parent \in Parent /\ allowance[a].child \in Child
      /\ allowance[a].child \in User
      /\ allowance[a] \in AllowanceRow
  BY <1>2, RowFacts DEF IInv, RowsInStep
<1>4. /\ row \in AllowanceRow
      /\ row.status = "open"
      /\ row.parent = allowance[a].parent /\ row.child = allowance[a].child
  <2>1. asked[c].amount \in Nat /\ asked[c].currency \in Currency /\ asked[c].flag \in BOOLEAN
    BY <1>1, CallFacts
  <2>. DEFINE r == allowance[a]
              amt == IF asked[c].amount = work[c].amount THEN r.amount ELSE asked[c].amount
              curr == IF asked[c].currency = work[c].currency THEN r.currency
                                                              ELSE asked[c].currency
              act == IF asked[c].flag = work[c].active THEN r.active ELSE asked[c].flag
  <2>2. row = [r EXCEPT !.amount = amt, !.currency = curr, !.active = act]
    BY <1>2 DEF Edited
  <2>3. amt \in Nat /\ curr \in Currency /\ act \in BOOLEAN
    BY <1>3, <2>1 DEF AllowanceRow
  <2>. HIDE DEF r, amt, curr, act, row
  <2>4. r \in AllowanceRow /\ r.status = "open"
    BY <1>2, <1>3 DEF r
  <2>5. /\ row \in AllowanceRow /\ row.status = "open"
        /\ row.parent = r.parent /\ row.child = r.child
    BY <2>2, <2>3, <2>4 DEF AllowanceRow
  <2>. QED
    BY <2>5 DEF r
<1>5. KeepsRows(c) /\ RowsWritten(c)
  <2>. HIDE DEF a, row
  <2>. QED
    BY <1>1, <1>2, <1>3, <1>4, WriteFacts
<1>6. PICK e : Books(c, FALSE, e)
  BY <1>1, BooksNothing
<1>7. notices' \subseteq [call : Call, user : User]
  BY <1>1, <1>2, <1>3 DEF IInv, TypeOK, MoneyTypeOK
<1>. QED
  BY <1>1, <1>5, <1>6, <1>7, FinishInv

-----------------------------------------------------------------------------
(* The first state, and steps that are not those of a call                 *)

LEMMA InitInv == Init => IInv
<1>. SUFFICES ASSUME Init PROVE IInv
  OBVIOUS
<1>. USE DEF Init, MoneyInit, WalletOpsInit, AllowancesInit, ExpensesInit
<1>1. PICK standing \in Agreed : AllowancesInit(standing)
  OBVIOUS
<1>2. standing \in AllowanceRow /\ NoAllowance \in AllowanceRow
  BY SpendingAssumption DEF AllowanceRow, NoAllowance
<1>3. \A a \in Allowance :
        allowance[a] = IF a \in Standing THEN standing ELSE NoAllowance
  BY <1>1
<1>4. \A c \in Call : /\ pc[c] = "idle" /\ asked[c] = Unasked /\ work[c] = NoWork
                      /\ expense[c] = "absent" /\ counted[c] = {}
  OBVIOUS
<1>5. WalletsInv
  BY WalletsInitInv
<1>6. TypeOK
  <2>1. allowance \in [Allowance -> AllowanceRow]
    BY <1>1, <1>2
  <2>2. versions \in [Call -> SUBSET [amount : Nat, currency : Currency,
                                      active : BOOLEAN]]
    BY <1>1
  <2>3. MoneyTypeOK
    BY <1>5 DEF WalletsInv, MoneyTypeOK, Work, NoWork, Label
  <2>. QED
    BY <2>1, <2>2, <2>3 DEF TypeOK
<1>7. InFlightIsMove
  BY <1>4 DEF InFlightIsMove, Given, Received, At, WalletsInit, NoDelta
<1>8. \A c \in Call : InStep(c) /\ CountsRight(c)
  BY <1>4 DEF InStep, CountsRight
<1>9. \A op : Done(op) = {}
  BY <1>4 DEF Done
<1>10. RowsInStep
  BY <1>3, <1>4, <1>9, SpendingAssumption DEF RowsInStep, NoAllowance
<1>11. FinitelyMany
  <2>1. {c \in Call : pc[c] # "idle"} = {}
    BY <1>4
  <2>. QED
    BY <2>1, FS_EmptySet DEF FinitelyMany
<1>12. Explained
  <2>1. ASSUME NEW u \in User, NEW cur \in Currency
        PROVE  /\ Incoming(u, cur) = {} /\ Outgoing(u, cur) = {}
               /\ Unrecorded(u) = {} /\ ExchangesOf(u) = {}
               /\ balance[u][cur] = Opening[u][cur] /\ Opening[u][cur] \in Int
    BY <1>9 DEF Incoming, Outgoing, Unrecorded, ExchangesOf, WalletsInit, Purses
  <2>2. /\ SumOfEntries({}) = 0
        /\ SumFunctionOnSet(AskedFor, {}) = 0
        /\ SumFunctionOnSet(Bought, {}) = 0
    BY SumEmpty DEF SumOfEntries
  <2>. SUFFICES ASSUME NEW u \in User, NEW cur \in Currency
                PROVE  balance[u][cur] = Opening[u][cur]
            + SumOfEntries(Incoming(u, cur)) - SumOfEntries(Outgoing(u, cur))
            + (IF cur = Idr
               THEN SumFunctionOnSet(AskedFor, Unrecorded(u))
                        + SumFunctionOnSet(Bought, ExchangesOf(u))
               ELSE - SumFunctionOnSet(AskedFor, ExchangesOf(u)))
    BY DEF Explained
  <2>3. /\ Incoming(u, cur) = {} /\ Outgoing(u, cur) = {}
        /\ Unrecorded(u) = {} /\ ExchangesOf(u) = {}
        /\ balance[u][cur] = Opening[u][cur] /\ Opening[u][cur] \in Int
    BY <2>1
  <2>4. /\ SumOfEntries(Incoming(u, cur)) = 0 /\ SumOfEntries(Outgoing(u, cur)) = 0
        /\ SumFunctionOnSet(AskedFor, Unrecorded(u)) = 0
        /\ SumFunctionOnSet(Bought, ExchangesOf(u)) = 0
        /\ SumFunctionOnSet(AskedFor, ExchangesOf(u)) = 0
    BY <2>2, <2>3
  <2>. QED
    BY <2>3, <2>4
<1>13. PaidAsAgreed /\ DeductionsOnRecord
  BY <1>4 DEF PaidAsAgreed, DeductionsOnRecord, Noted
<1>. QED
  BY <1>5, <1>6, <1>7, <1>8, <1>10, <1>11, <1>12, <1>13 DEF IInv, WalletsInv

LEMMA SameExplained ==
    ASSUME Explained, UNCHANGED <<balance, ledger, asked, work, pc, rate>>
    PROVE  Explained'
<1>1. AskedFor' = AskedFor /\ Bought' = Bought
  BY DEF AskedFor, Bought, Worth
<1>2. \A u : Unrecorded(u)' = Unrecorded(u) /\ ExchangesOf(u)' = ExchangesOf(u)
  BY DEF Unrecorded, ExchangesOf, Done
<1>3. \A u, cur : /\ SumOfEntries(Incoming(u, cur))' = SumOfEntries(Incoming(u, cur))
                  /\ SumOfEntries(Outgoing(u, cur))' = SumOfEntries(Outgoing(u, cur))
  BY DEF SumOfEntries, Incoming, Outgoing
<1>. QED
  BY <1>1, <1>2, <1>3 DEF Explained

LEMMA MembersInv ==
    ASSUME IInv, member' \subseteq User,
           UNCHANGED <<walletVars, ledger, notices, asked, work, pc>>,
           UNCHANGED <<rate, allowanceVars, expenseVars>>
    PROVE  IInv'
<1>. USE DEF walletVars, allowanceVars, expenseVars
<1>1. TypeOK' /\ InFlightCovered'
  <2>1. WalletsTypeOK' /\ InFlightCovered'
    <3>1. WalletsTypeOK /\ InFlightCovered
      BY DEF IInv, TypeOK, MoneyTypeOK
    <3>2. WalletsTypeOK'
      BY <3>1 DEF WalletsTypeOK
    <3>3. InFlightCovered'
      BY <3>1 DEF InFlightCovered, Seen
    <3>. QED
      BY <3>2, <3>3
  <2>2. MoneyTypeOK'
    BY <2>1 DEF IInv, TypeOK, MoneyTypeOK
  <2>. QED
    BY <2>1, <2>2 DEF IInv, TypeOK
<1>2. InFlightIsMove'
  BY DEF IInv, InFlightIsMove, Given, Received, At, Row, Target
<1>3. ASSUME NEW c \in Call PROVE InStep(c)' /\ CountsRight(c)'
  <2>1. InStep(c) /\ CountsRight(c)
    BY DEF IInv
  <2>2. InStep(c)'
    BY <2>1
    DEF InStep, TopupInStep, ExchangeInStep, AllowInStep, AdjustInStep, TransferInStep,
        SpendInStep, UnspendInStep, Exchangeable, Worth, Row, Target, Terms, Statements
  <2>3. CountsRight(c)'
    BY <2>1 DEF CountsRight, Spent
  <2>. QED
    BY <2>2, <2>3
<1>4. RowsInStep' /\ FinitelyMany'
  BY DEF IInv, RowsInStep, FinitelyMany, Done
<1>5. Explained'
  BY SameExplained DEF IInv
<1>6. PaidAsAgreed' /\ DeductionsOnRecord'
  BY DEF IInv, PaidAsAgreed, DeductionsOnRecord, Noted
<1>. QED
  BY <1>1, <1>2, <1>3, <1>4, <1>5, <1>6 DEF IInv

LEMMA HourInv ==
    ASSUME IInv, HourPasses, UNCHANGED <<rate, allowanceVars>>
    PROVE  IInv'
<1>. USE DEF HourPasses, moneyVars, walletVars, allowanceVars
<1>1. /\ expense' \in [Call -> {"absent", "recent", "old", "deleted"}]
      /\ \A c \in Call : /\ expense'[c] # "recent"
                         /\ expense'[c] # "absent" <=> expense[c] # "absent"
                         /\ Noted(c)' <=> Noted(c)
  BY DEF IInv, TypeOK, Noted
<1>2. TypeOK' /\ InFlightCovered'
  <2>1. WalletsTypeOK' /\ InFlightCovered'
    <3>1. WalletsTypeOK /\ InFlightCovered
      BY DEF IInv, TypeOK, MoneyTypeOK
    <3>2. WalletsTypeOK'
      BY <3>1 DEF WalletsTypeOK
    <3>3. InFlightCovered'
      BY <3>1 DEF InFlightCovered, Seen
    <3>. QED
      BY <3>2, <3>3
  <2>2. MoneyTypeOK'
    BY <2>1 DEF IInv, TypeOK, MoneyTypeOK
  <2>. QED
    BY <1>1, <2>1, <2>2 DEF IInv, TypeOK
<1>3. InFlightIsMove'
  BY DEF IInv, InFlightIsMove, Given, Received, At, Row, Target
<1>4. ASSUME NEW c \in Call PROVE InStep(c)' /\ CountsRight(c)'
  <2>1. InStep(c) /\ CountsRight(c)
    BY DEF IInv
  <2>2. /\ asked[c].op = "unspend" /\ pc[c] \notin {"idle", "failed"}
        /\ UnspendInStep(c)
        => UnspendInStep(c)'
    BY <1>1, CallFacts DEF UnspendInStep
  <2>3. InStep(c)'
    BY <2>1, <2>2
    DEF InStep, TopupInStep, ExchangeInStep, AllowInStep, AdjustInStep, TransferInStep,
        SpendInStep, Exchangeable, Worth, Row, Target, Terms, Statements
  <2>4. \A d \in counted[c] : d \in Call /\ \A e \in counted[d] : e \in Call
    BY CountedFacts
  <2>5. CountsRight(c)'
    BY <1>1, <2>1, <2>4 DEF CountsRight, Spent
  <2>. QED
    BY <2>3, <2>5
<1>5. RowsInStep' /\ FinitelyMany'
  BY <1>1 DEF IInv, RowsInStep, FinitelyMany, Done
<1>6. Explained'
  BY SameExplained DEF IInv
<1>7. PaidAsAgreed' /\ DeductionsOnRecord'
  <2>1. UNCHANGED <<ledger, asked, versions>>
    OBVIOUS
  <2>2. PaidAsAgreed'
    BY <2>1 DEF IInv, PaidAsAgreed
  <2>3. DeductionsOnRecord'
    BY <1>1, <2>1 DEF IInv, DeductionsOnRecord
  <2>. QED
    BY <2>2, <2>3
<1>. QED
  BY <1>2, <1>3, <1>4, <1>5, <1>6, <1>7 DEF IInv

-----------------------------------------------------------------------------
(* The inductive invariant                                                 *)

LEMMA WalletOpInv ==
    ASSUME IInv, NEW c \in Call, WalletOp(c), UNCHANGED <<allowanceVars, expenseVars>>
    PROVE  IInv'
<1>1. CASE StartTopup(c) \/ StartExchange(c)
  BY <1>1, StartsInv
<1>2. CASE RefuseTopup(c) \/ RefuseExchange(c) \/ TooFewPts(c) \/ CreditOwnFails(c)
  BY <1>2, RefusalsInv
<1>3. CASE VouchTopup(c) \/ PriceExchange(c) \/ VouchExchange(c)
  BY <1>3, WalletReadsInv
<1>4. CASE DebitPts(c)
  BY <1>4, DebitPtsInv
<1>5. CASE CreditOwn(c)
  BY <1>5, CreditOwnInv
<1>6. CASE RecordOwn(c)
  BY <1>6, RecordOwnInv
<1>. QED
  BY <1>1, <1>2, <1>3, <1>4, <1>5, <1>6 DEF WalletOp

LEMMA AllowanceOpInv ==
    ASSUME IInv, NEW c \in Call, AllowanceOp(c), UNCHANGED <<rate, expenseVars>>
    PROVE  IInv'
<1>1. CASE StartAllow(c) \/ StartAdjust(c) \/ StartTransfer(c)
  BY <1>1, StartsInv
<1>2. CASE \/ RefuseAllow(c) \/ PairExists(c) \/ InsertClashes(c)
           \/ RefuseAllowance(c) \/ ParentTooPoor(c) \/ ChildOverflows(c)
  BY <1>2, RefusalsInv
<1>3. CASE \/ VouchAllow(c) \/ LookForPair(c) \/ ReadForAdjust(c) \/ ReadForTransfer(c)
  BY <1>3, AllowanceReadsInv
<1>4. CASE DebitParent(c) \/ CreditChild(c)
  BY <1>4, TransferMoveInv
<1>5. CASE InsertAllowance(c)
  BY <1>5, InsertAllowanceInv
<1>6. CASE EditAllowance(c)
  BY <1>6, EditAllowanceInv
<1>7. CASE RecordTransfer(c)
  BY <1>7, RecordTransferInv
<1>. QED
  BY <1>1, <1>2, <1>3, <1>4, <1>5, <1>6, <1>7 DEF AllowanceOp

LEMMA ExpenseOpInv ==
    ASSUME IInv, NEW c \in Call, ExpenseOp(c), UNCHANGED <<rate, allowanceVars>>
    PROVE  IInv'
<1>1. CASE StartSpend(c) \/ StartUnspend(c)
  BY <1>1, StartsInv
<1>2. CASE RefuseSpend(c) \/ HourExceeded(c) \/ TooPoorToSpend(c) \/ RefuseRemoval(c)
  BY <1>2, RefusalsInv
<1>3. CASE VouchSpend(c) \/ ReadExpense(c)
  BY <1>3, ExpenseReadsInv
<1>4. CASE SumHour(c)
  BY <1>4, SumHourInv
<1>5. CASE DebitExpense(c)
  BY <1>5, DebitExpenseInv
<1>6. CASE InsertExpense(c)
  BY <1>6, InsertExpenseInv
<1>7. CASE RemoveExpense(c)
  BY <1>7, RemoveExpenseInv
<1>. QED
  BY <1>1, <1>2, <1>3, <1>4, <1>5, <1>6, <1>7 DEF ExpenseOp

LEMMA NextInv == IInv /\ [Next]_vars => IInv'
<1>. SUFFICES ASSUME IInv, [Next]_vars PROVE IInv'
  OBVIOUS
<1>1. ASSUME NEW c \in Call, WalletOp(c), UNCHANGED <<allowanceVars, expenseVars>>
      PROVE  IInv'
  BY <1>1, WalletOpInv
<1>2. ASSUME NEW c \in Call, AllowanceOp(c), UNCHANGED <<rate, expenseVars>>
      PROVE  IInv'
  BY <1>2, AllowanceOpInv
<1>3. ASSUME NEW c \in Call, ExpenseOp(c), UNCHANGED <<rate, allowanceVars>>
      PROVE  IInv'
  BY <1>3, ExpenseOpInv
<1>4. CASE HourPasses /\ UNCHANGED <<rate, allowanceVars>>
  BY <1>4, HourInv
<1>5. ASSUME NEW c \in Call, CutOff(c) PROVE IInv'
  BY <1>5, RefusalsInv
<1>6. ASSUME NEW u \in User, RemoveMember(u) PROVE IInv'
  <2>1. member' \subseteq User
    BY <1>6 DEF RemoveMember, IInv, TypeOK, MoneyTypeOK
  <2>. QED
    BY <1>6, <2>1, MembersInv DEF RemoveMember
<1>7. CASE AllEnded \/ UNCHANGED vars
  <2>1. member' \subseteq User
    BY <1>7 DEF AllEnded, vars, moneyVars, IInv, TypeOK, MoneyTypeOK
  <2>. QED
    BY <1>7, <2>1, MembersInv DEF AllEnded, vars, moneyVars
<1>. QED
  BY <1>1, <1>2, <1>3, <1>4, <1>5, <1>6, <1>7 DEF Next

(* IInv holds of every reachable state: what is in flight is covered by    *)
(* row locks and matches the statement its call has reached, calls and     *)
(* rows keep step, hourly sums are kept, and the parts named below.        *)
THEOREM Invariance == Spec => []IInv
<1>1. Init => IInv
  BY InitInv
<1>2. IInv /\ [Next]_vars => IInv'
  BY NextInv
<1>. QED
  BY <1>1, <1>2, PTL DEF Spec

-----------------------------------------------------------------------------
(* What follows from it                                                    *)

(* No interleaving of top-ups, exchanges, transfers and expenses overdraws *)
(* a wallet: changes in flight are covered by row locks.                   *)
THEOREM Covered == Spec => []InFlightCovered
<1>1. IInv => InFlightCovered
  BY DEF IInv
<1>. QED
  BY <1>1, Invariance, PTL

(* The permanent records explain every balance, up to what topup and       *)
(* exchange_pts are known to leave unrecorded.                             *)
THEOREM BalancesExplained == Spec => []Explained
<1>1. IInv => Explained
  BY DEF IInv
<1>. QED
  BY <1>1, Invariance, PTL

(* manual_transfer pays terms that the allowance had, as active, at one    *)
(* moment of the call.                                                     *)
THEOREM TransfersAsAgreed == Spec => []PaidAsAgreed
<1>1. IInv => PaidAsAgreed
  BY DEF IInv
<1>. QED
  BY <1>1, Invariance, PTL

(* An expense took money exactly if there is a record of it: neither a     *)
(* race nor delete_expense parts the two.                                  *)
THEOREM DeductionsRecorded == Spec => []DeductionsOnRecord
<1>1. IInv => DeductionsOnRecord
  BY DEF IInv
<1>. QED
  BY <1>1, Invariance, PTL

LEMMA AtRate == IInv => ExchangedAtRate
<1>. SUFFICES ASSUME IInv, Done("exchange") # {}
              PROVE  /\ SumFunctionOnSet([c \in Call |-> work[c].amount],
                                         Done("exchange")) * rate.pts
                          <= SumFunctionOnSet(AskedFor, Done("exchange")) * rate.idr
                     /\ SumFunctionOnSet([c \in Call |-> work[c].amount],
                                         Done("exchange"))
                          <= MaxIdrPerPts * SumFunctionOnSet(AskedFor, Done("exchange"))
                     /\ \A c \in Done("exchange") :
                           /\ work[c].amount > 0
                           /\ asked[c].amount * rate.idr <= (work[c].amount + 1) * rate.pts
  BY DEF ExchangedAtRate
<1>. DEFINE S == Done("exchange")
            gain == [c \in Call |-> work[c].amount]
            paid == AskedFor
            p == rate.pts
            q == rate.idr
<1>1. ASSUME NEW c \in S
      PROVE  /\ gain[c] \in Int /\ paid[c] \in Int
             /\ gain[c] * p <= paid[c] * q
             /\ gain[c] * 1 <= paid[c] * MaxIdrPerPts
             /\ p \in Int /\ q \in Int
  <2>1. /\ c \in Call /\ pc[c] = "done" /\ asked[c].op = "exchange"
        /\ paid[c] = asked[c].amount /\ paid[c] \in Nat
    BY DoneFacts
  <2>2. /\ rate \in Rate
        /\ Worth(asked[c].amount) \in Nat
        /\ Worth(asked[c].amount) * rate.pts <= asked[c].amount * rate.idr
        /\ Worth(asked[c].amount) <= MaxIdrPerPts * asked[c].amount
        /\ work[c].amount = Worth(asked[c].amount)
    BY <2>1, PricedFacts
  <2>3. gain[c] = work[c].amount /\ gain[c] \in Nat
    BY <2>1, <2>2
  <2>4. p \in Int /\ q \in Int
    BY <2>2, WalletOpsAssumption
  <2>5. MaxIdrPerPts \in Nat
    BY WalletOpsAssumption
  <2>6. gain[c] * p <= paid[c] * q /\ gain[c] <= MaxIdrPerPts * paid[c]
    BY <2>1, <2>2, <2>3
  <2>. HIDE DEF gain, paid, p, q
  <2>. QED
    BY <2>1, <2>3, <2>4, <2>5, <2>6
<1>2. IsFiniteSet(S) /\ p \in Int /\ q \in Int /\ MaxIdrPerPts \in Int
  <2>1. IsFiniteSet(S)
    BY DoneFacts
  <2>2. MaxIdrPerPts \in Int
    BY WalletOpsAssumption
  <2>. HIDE DEF p, q
  <2>. QED
    BY <1>1, <2>1, <2>2
<1>3. SumFunctionOnSet(gain, S) \in Int /\ SumFunctionOnSet(paid, S) \in Int
  <2>1. \A c \in S : gain[c] \in Int /\ paid[c] \in Int
    BY <1>1
  <2>. HIDE DEF S, gain, paid
  <2>. QED
    BY <1>2, <2>1, SumType
<1>4. SumFunctionOnSet(gain, S) * p <= SumFunctionOnSet(paid, S) * q
  <2>1. \A c \in S : gain[c] \in Int /\ paid[c] \in Int /\ gain[c] * p <= paid[c] * q
    BY <1>1
  <2>. HIDE DEF S, gain, paid, p, q
  <2>. QED
    BY <1>2, <2>1, SumScaled
<1>5. SumFunctionOnSet(gain, S) * 1 <= SumFunctionOnSet(paid, S) * MaxIdrPerPts
  <2>1. \A c \in S : /\ gain[c] \in Int /\ paid[c] \in Int
                     /\ gain[c] * 1 <= paid[c] * MaxIdrPerPts
    BY <1>1
  <2>. HIDE DEF S, gain, paid, p, q
  <2>. QED
    BY <1>2, <2>1, SumScaled
<1>6. ASSUME NEW c \in S
      PROVE  /\ work[c].amount > 0
             /\ asked[c].amount * rate.idr <= (work[c].amount + 1) * rate.pts
  <2>1. c \in Call /\ pc[c] = "done" /\ asked[c].op = "exchange"
    BY DoneFacts
  <2>2. work[c].amount > 0
    BY <2>1 DEF IInv, InStep, ExchangeInStep
  <2>. QED
    BY <2>1, <2>2, PricedFacts
<1>7. SumFunctionOnSet(gain, S) <= MaxIdrPerPts * SumFunctionOnSet(paid, S)
  <2>. HIDE DEF S, gain, paid
  <2>. QED
    BY <1>2, <1>3, <1>5
<1>. QED
  BY <1>4, <1>6, <1>7

(* However an amount is split up, exchange_pts never gives more money for  *)
(* points than the rate, nor more than its cap, although the quotient it   *)
(* multiplies is rounded; and each exchange something, at most a cent less.*)
THEOREM NeverAboveRate == Spec => []ExchangedAtRate
BY Invariance, AtRate, PTL

(* Of deductions that each counted, or were counted by, every other, one   *)
(* counted all the rest.                                                   *)
LEMMA OneCountsAll ==
    ASSUME IInv, NEW u \in User, Deducted(u) # {},
           \A c, d \in Deducted(u) : c # d => c \in counted[d] \/ d \in counted[c]
    PROVE  \E d \in Deducted(u) : Deducted(u) \ {d} \subseteq counted[d]
<1>. DEFINE D == Deducted(u)
            Missing(d) == D \ counted[d]
            B == {Missing(d) : d \in D}
<1>1. \A d \in D : d \in Call /\ expense[d] = "recent"
  BY DEF Deducted
<1>2. IsFiniteSet(D)
  <2>1. \A d \in D : d \in Done("spend")
    BY <1>1 DEF IInv, RowsInStep
  <2>2. D \in SUBSET Done("spend")
    BY <2>1
  <2>. QED
    BY <2>2, DoneFacts, FS_Subset
<1>3. PICK d \in D : \A c \in D : Missing(c) \subseteq Missing(d) => Missing(c) = Missing(d)
  <2>1. B \in SUBSET SUBSET D /\ B # {}
    OBVIOUS
  <2>2. PICK T \in B : \A U \in B : U \subseteq T => U = T
    <3>. HIDE DEF B, D
    <3>. QED
      BY <1>2, <2>1, SmallestSet
  <2>3. PICK d \in D : T = Missing(d)
    OBVIOUS
  <2>4. \A c \in D : Missing(c) \in B
    OBVIOUS
  <2>. HIDE DEF B, D, Missing
  <2>. QED
    BY <2>2, <2>3, <2>4
<1>4. ASSUME NEW c \in D, c # d, c \notin counted[d] PROVE FALSE
  <2>1. d \in counted[c]
    BY <1>4
  <2>2. \A e \in counted[d] : expense[e] = "recent" => e \in counted[c]
    BY <1>1, <2>1 DEF IInv, CountsRight
  <2>3. Missing(c) \subseteq Missing(d)
    BY <1>1, <2>2
  <2>4. d \in Missing(d) /\ d \notin Missing(c)
    <3>1. d \notin counted[d]
      BY <1>1, CountedFacts
    <3>. QED
      BY <2>1, <3>1
  <2>. QED
    BY <1>3, <2>3, <2>4
<1>. QED
  BY <1>4

LEMMA WithinLimit == IInv => LimitUnlessOverlapping
<1>. SUFFICES ASSUME IInv, NEW u \in User,
                     \A c, d \in Deducted(u) : c # d => c \in counted[d] \/ d \in counted[c]
              PROVE  ~ (Spent(Deducted(u)) > MaxHourly)
  BY DEF LimitUnlessOverlapping
<1>. DEFINE f == [c \in Call |-> asked[c].amount]
            D == Deducted(u)
<1>1. CASE D = {}
  <2>1. Spent(D) = 0
    BY <1>1, SumEmpty DEF Spent
  <2>. QED
    BY <2>1, ExpensesAssumption
<1>2. CASE D # {}
  <2>1. PICK d \in D : D \ {d} \subseteq counted[d]
    BY <1>2, OneCountsAll
  <2>2. /\ d \in Call /\ expense[d] = "recent" /\ asked[d].flag
        /\ d \in Done("spend") /\ pc[d] = "done" /\ asked[d].op = "spend"
    <3>1. d \in Call /\ expense[d] = "recent" /\ asked[d].flag
      BY DEF Deducted
    <3>2. d \in Done("spend")
      BY <3>1 DEF IInv, RowsInStep
    <3>. QED
      BY <3>1, <3>2 DEF Done
  <2>3. Spent(counted[d]) + asked[d].amount <= MaxHourly
    BY <2>2 DEF IInv, CountsRight
  <2>4. /\ IsFiniteSet(counted[d])
        /\ \A c \in counted[d] : f[c] \in Nat
    <3>1. counted[d] \in SUBSET Call /\ \A c \in counted[d] : pc[c] # "idle"
      BY <2>2, CountedFacts
    <3>2. \A c \in counted[d] : f[c] \in Nat
      BY <2>2, CountedFacts
    <3>. QED
      BY <3>1, <3>2, FiniteCalls DEF IInv
  <2>5. asked[d].amount \in Nat /\ f[d] = asked[d].amount
    BY <2>2, CallFacts
  <2>. HIDE DEF f, D
  <2>6. SumFunctionOnSet(f, D \ {d}) <= SumFunctionOnSet(f, counted[d])
    BY <2>1, <2>4, SumLarger
  <2>7. /\ IsFiniteSet(D \ {d}) /\ IsFiniteSet(D)
        /\ \A c \in D : f[c] \in Int
    <3>1. IsFiniteSet(D \ {d})
      BY <2>1, <2>4, FS_Subset
    <3>2. IsFiniteSet((D \ {d}) \cup {d}) /\ D = (D \ {d}) \cup {d}
      BY <3>1, FS_AddElement
    <3>3. \A c \in D : f[c] \in Int
      BY <2>1, <2>4, <2>5
    <3>. QED
      BY <3>1, <3>2, <3>3
  <2>8. SumFunctionOnSet(f, D) = f[d] + SumFunctionOnSet(f, D \ {d})
    BY <2>7, SumTakeOut
  <2>9. SumFunctionOnSet(f, D \ {d}) \in Int /\ SumFunctionOnSet(f, counted[d]) \in Int
    <3>1. /\ \A c \in D \ {d} : f[c] \in Int
          /\ \A c \in counted[d] : f[c] \in Int
      BY <2>4, <2>7
    <3>. QED
      BY <2>4, <2>7, <3>1, SumType
  <2>10. /\ Spent(Deducted(u)) = SumFunctionOnSet(f, D)
         /\ Spent(counted[d]) = SumFunctionOnSet(f, counted[d])
    BY DEF Spent, f, D
  <2>. QED
    BY <2>3, <2>5, <2>6, <2>8, <2>9, <2>10, ExpensesAssumption
<1>. QED
  BY <1>1, <1>2

(* Only expenses that did not see each other exceed the hourly limit of    *)
(* create_expense together.                                                *)
THEOREM LimitKept == Spec => []LimitUnlessOverlapping
BY Invariance, WithinLimit, PTL
=============================================================================
