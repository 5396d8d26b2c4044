------------------------- MODULE PolicyStoreProofs --------------------------
(***************************************************************************)
(* Theorems about PolicyStore, for any number of requests, tools and       *)
(* parameters, and any costs, limits and times to live.                    *)
(***************************************************************************)
EXTENDS PolicyStoreRefinement, FiniteSetTheorems, SequenceTheorems, WellFoundedInduction, TLAPS

\* An entry that expired reads as its absent value.
DeadIsAbsent ==
  /\ ~Live(spent) => spent = Gone(0)
  /\ ~Live(reserved) => reserved = Gone(0)
  /\ \A r \in Request :
       /\ ~Live(request[r]) => request[r] = Gone(Nil)
       /\ ~Live(est[r]) => est[r] = Gone(0)
       /\ ~Live(exec[r]) => exec[r] = Gone(Nil)
       /\ ~Live(consumed[r]) => consumed[r] = Gone(Nil)

\* Which keys of a request outlive which.
KeysAgree(r) ==
  /\ est[r].ttl \in {0, request[r].ttl}
  /\ Live(exec[r]) => exec[r].ttl >= request[r].ttl
  /\ Live(consumed[r]) =>
       /\ consumed[r].ttl >= request[r].ttl
       /\ ~Live(exec[r]) /\ ~Live(est[r])
  /\ Live(exec[r]) /\ Live(request[r]) => exec[r].val = request[r].val /\ Live(est[r])

\* What the evaluator was told says which keys are there.
AnswersAgree(r) ==
  /\ asking[r] # Nil =>
       /\ ~Live(exec[r]) /\ ~Live(consumed[r])
       /\ answer[r] = "none"
       /\ Live(request[r]) => request[r].val = asking[r]
  /\ answer[r] \in {"HITL", "ALLOW"} => Live(request[r])
  /\ answer[r] = "HITL" => ~Live(exec[r]) /\ ~Live(consumed[r])
  /\ answer[r] = "ALLOW" => Live(exec[r]) \/ Live(consumed[r])
  /\ Live(exec[r]) /\ Live(request[r]) => answer[r] \in {"ALLOW", "ERROR"}
  /\ allows[r] = IF answer[r] = "ALLOW" THEN 1 ELSE 0

IInv ==
  /\ TypeOK /\ DeadIsAbsent /\ RepeatCeiling
  /\ \A r \in Request : KeysAgree(r) /\ AnswersAgree(r)

-----------------------------------------------------------------------------
(***************************************************************************)
(* Sums over a finite set.  Induction over data is out of the provers'     *)
(* reach as a rule, but the least element of a set of naturals is not.     *)
(***************************************************************************)
\* Induction over the naturals, for a set.
LEMMA NatsAreIn ==
  ASSUME NEW T, 0 \in T, \A n \in Nat : n \in T => n + 1 \in T
  PROVE  Nat \subseteq T
<1> DEFINE Rest == Nat \ T
<1> SUFFICES ASSUME Rest # {} PROVE FALSE
  OBVIOUS
<1>1. PICK n \in Rest : \A k \in Rest : <<k, n>> \notin OpToRel(<, Nat)
  BY WFMin, NatLessThanWellFounded, Zenon
<1>2. \A k \in Rest : ~(k < n)
  BY <1>1, Zenon DEF OpToRel
<1>3. QED
  BY <1>2

\* A function on the subsets of S that adds f up, one element after another.
Adds(g, f, S) ==
  g = [s \in SUBSET S |-> IF s = {} THEN 0
                          ELSE f[CHOOSE x \in s : TRUE] + g[s \ {CHOOSE x \in s : TRUE}]]

\* The recursion of SumFunctionOnSet is well founded on a finite set.
LEMMA SumIsDefined ==
  ASSUME NEW S, IsFiniteSet(S), NEW f
  PROVE  \E g : Adds(g, f, S) /\ SumFunctionOnSet(f, S) = g[S]
<1> DEFINE Upto(n) == {s \in SUBSET S : Cardinality(s) <= n}
           First(s) == CHOOSE x \in s : TRUE
           Plus(g, s) == IF s = {} THEN 0 ELSE f[First(s)] + g[s \ {First(s)}]
           OK(g, n) == g = [s \in Upto(n) |-> Plus(g, s)]
           T == {n \in Nat : \E g : OK(g, n)}
<1>0. \A s \in SUBSET S : IsFiniteSet(s) /\ Cardinality(s) \in Nat
  BY FS_Subset, FS_CardinalityType
<1>a. \A s \in SUBSET S : s # {} => /\ First(s) \in s
                                    /\ s \ {First(s)} \in SUBSET S
                                    /\ Cardinality(s \ {First(s)}) = Cardinality(s) - 1
  BY <1>0, FS_RemoveElement
<1> HIDE DEF First
<1>1. 0 \in T
  <2>1. \A s \in Upto(0) : s = {}
    BY <1>0, FS_EmptySet
  <2>2. OK([s \in Upto(0) |-> 0], 0)
    BY <2>1
  <2>3. QED
    BY <2>2
<1>2. ASSUME NEW n \in Nat, n \in T PROVE n + 1 \in T
  <2>1. PICK g : OK(g, n)
    BY <1>2
  <2> DEFINE h == [s \in Upto(n + 1) |-> Plus(g, s)]
  <2>2. \A s \in Upto(n) : h[s] = g[s]
    <3> SUFFICES ASSUME NEW s \in Upto(n) PROVE h[s] = g[s]
      OBVIOUS
    <3>1. s \in Upto(n + 1)
      BY <1>0
    <3>2. h[s] = Plus(g, s)
      BY <3>1
    <3> HIDE DEF h, Plus
    <3>3. g[s] = Plus(g, s)
      BY <2>1
    <3>4. QED
      BY <3>2, <3>3
  <2>3. \A s \in Upto(n + 1) : s # {} => s \ {First(s)} \in Upto(n)
    BY <1>0, <1>a
  <2>4. \A s \in Upto(n + 1) : Plus(h, s) = Plus(g, s)
    <3> HIDE DEF h, Upto
    <3>1. QED
      BY <2>2, <2>3
  <2>5. OK(h, n + 1)
    <3> HIDE DEF Plus, Upto
    <3>1. QED
      BY <2>4
  <2>6. QED
    <3> HIDE DEF OK, h
    <3>1. QED
      BY <2>5
<1>3. Cardinality(S) \in T
  <2> HIDE DEF T
  <2>1. QED
    BY <1>0, <1>1, <1>2, NatsAreIn
<1>4. PICK g : OK(g, Cardinality(S))
  BY <1>3
<1>5. Upto(Cardinality(S)) = SUBSET S
  BY <1>0, FS_Subset
<1>6. Adds(g, f, S)
  BY <1>4, <1>5 DEF Adds, First
<1> DEFINE G == CHOOSE k : Adds(k, f, S)
<1>7. Adds(G, f, S)
  BY <1>6, Zenon
<1>8. SumFunctionOnSet(f, S) = G[S]
  BY DEF SumFunctionOnSet, FoldFunctionOnSet, MapThenFoldSet, Adds
<1>9. QED
  BY <1>7, <1>8

\* What it returns: an integer, which is zero for no terms.
LEMMA SumsAreIntegers ==
  ASSUME NEW S, IsFiniteSet(S), NEW f, \A x \in S : f[x] \in Int,
         NEW g, Adds(g, f, S)
  PROVE  /\ \A s \in SUBSET S : g[s] \in Int
         /\ g[{}] = 0
         /\ \A s \in SUBSET S : s # {} =>
              LET x == CHOOSE y \in s : TRUE IN
              x \in s /\ g[s] = f[x] + g[s \ {x}] /\ Cardinality(s \ {x}) = Cardinality(s) - 1
<1>0. \A s \in SUBSET S : IsFiniteSet(s) /\ Cardinality(s) \in Nat
  BY FS_Subset, FS_CardinalityType
<1>1. g[{}] = 0
  BY DEF Adds
<1>2. ASSUME NEW s \in SUBSET S, s # {}
      PROVE LET x == CHOOSE y \in s : TRUE IN
              x \in s /\ g[s] = f[x] + g[s \ {x}] /\ Cardinality(s \ {x}) = Cardinality(s) - 1
  <2> DEFINE x == CHOOSE y \in s : TRUE
  <2>1. x \in s
    BY <1>2
  <2>2. g[s] = f[x] + g[s \ {x}]
    BY <1>2 DEF Adds
  <2>3. QED
    BY <1>0, <2>1, <2>2, FS_RemoveElement
<1>3. \A s \in SUBSET S : g[s] \in Int
  <2> DEFINE T == {n \in Nat : \A s \in SUBSET S : Cardinality(s) = n => g[s] \in Int}
  <2>1. 0 \in T
    BY <1>0, <1>1, FS_EmptySet
  <2>2. ASSUME NEW n \in Nat, n \in T PROVE n + 1 \in T
    <3> SUFFICES ASSUME NEW s \in SUBSET S, Cardinality(s) = n + 1 PROVE g[s] \in Int
      OBVIOUS
    <3> DEFINE x == CHOOSE y \in s : TRUE
    <3>1. s # {}
      BY FS_EmptySet
    <3>2. x \in s /\ g[s] = f[x] + g[s \ {x}] /\ Cardinality(s \ {x}) = n
      BY <1>2, <3>1
    <3>3. g[s \ {x}] \in Int /\ f[x] \in Int
      BY <2>2, <3>2
    <3>4. QED
      BY <3>2, <3>3
  <2>3. Nat \subseteq T
    <3> HIDE DEF T
    <3>1. QED
      BY <2>1, <2>2, NatsAreIn
  <2>4. QED
    BY <1>0, <2>3
<1>4. QED
  BY <1>1, <1>2, <1>3

\* If no term but that of r is greater in h than in f, the sums differ by at most
\* what the terms of r do.
LEMMA SumGrowsAtOne ==
  ASSUME NEW S, IsFiniteSet(S), NEW r \in S,
         NEW f, NEW h, \A x \in S : f[x] \in Int /\ h[x] \in Int,
         \A x \in S : x # r => h[x] <= f[x]
  PROVE  /\ SumFunctionOnSet(f, S) \in Int /\ SumFunctionOnSet(h, S) \in Int
         /\ SumFunctionOnSet(h, S) - SumFunctionOnSet(f, S) <= h[r] - f[r]
<1>0. \A s \in SUBSET S : IsFiniteSet(s) /\ Cardinality(s) \in Nat
  BY FS_Subset, FS_CardinalityType
<1>1. PICK F : Adds(F, f, S) /\ SumFunctionOnSet(f, S) = F[S]
  BY SumIsDefined
<1>2. PICK H : Adds(H, h, S) /\ SumFunctionOnSet(h, S) = H[S]
  BY SumIsDefined
<1> DEFINE Claim(s) == IF r \in s THEN H[s] - F[s] <= h[r] - f[r] ELSE H[s] <= F[s]
           T == {n \in Nat : \A s \in SUBSET S : Cardinality(s) = n => Claim(s)}
<1>3. /\ F[{}] = 0 /\ H[{}] = 0
      /\ \A s \in SUBSET S : F[s] \in Int /\ H[s] \in Int
  BY <1>1, <1>2, SumsAreIntegers
<1>4. 0 \in T
  <2>1. \A s \in SUBSET S : Cardinality(s) = 0 => s = {}
    BY <1>0, FS_EmptySet
  <2>2. Claim({})
    BY <1>3
  <2>3. QED
    <3> HIDE DEF Claim
    <3>1. QED
      BY <2>1, <2>2
<1>5. ASSUME NEW n \in Nat, n \in T PROVE n + 1 \in T
  <2> SUFFICES ASSUME NEW s \in SUBSET S, Cardinality(s) = n + 1 PROVE Claim(s)
    OBVIOUS
  <2> DEFINE x == CHOOSE y \in s : TRUE
  <2>1. s # {}
    <3>1. Cardinality({}) = 0
      BY FS_EmptySet
    <3>2. n + 1 # 0
      OBVIOUS
    <3>3. QED
      BY <3>1, <3>2, Zenon
  <2>2. x \in s /\ F[s] = f[x] + F[s \ {x}] /\ Cardinality(s \ {x}) = Cardinality(s) - 1
    BY <1>1, <2>1, SumsAreIntegers
  <2>3. H[s] = h[x] + H[s \ {x}]
    BY <1>2, <2>1, SumsAreIntegers
  <2> HIDE DEF x
  <2>4. Claim(s \ {x})
    BY <1>5, <2>2
  <2>5. f[x] \in Int /\ h[x] \in Int /\ (x # r => h[x] <= f[x]) /\ x \in S /\ f[r] \in Int /\ h[r] \in Int
    BY <2>2
  <2>6. F[s \ {x}] \in Int /\ H[s \ {x}] \in Int
    BY <1>3
  <2>7. CASE x = r
    <3>1. H[s \ {x}] <= F[s \ {x}] /\ r \in s
      BY <2>2, <2>4, <2>7
    <3>2. QED
      BY <2>2, <2>3, <2>5, <2>6, <2>7, <3>1
  <2>8. CASE x # r
    <3>1. r \in s <=> r \in s \ {x}
      BY <2>8
    <3>2. QED
      BY <2>2, <2>3, <2>4, <2>5, <2>6, <2>8, <3>1
  <2>9. QED
    BY <2>7, <2>8
<1>6. Nat \subseteq T
  <2> HIDE DEF T
  <2>1. QED
    BY <1>4, <1>5, NatsAreIn
<1>7. Claim(S)
  BY <1>0, <1>6
<1>8. QED
  BY <1>1, <1>2, <1>3, <1>7

\* A sum of naturals is a natural; one of zeros is zero.
LEMMA SumOfNaturals ==
  ASSUME NEW S, IsFiniteSet(S), NEW f, \A x \in S : f[x] \in Nat
  PROVE  /\ SumFunctionOnSet(f, S) \in Nat
         /\ (\A x \in S : f[x] = 0) => SumFunctionOnSet(f, S) = 0
<1>0. \A s \in SUBSET S : IsFiniteSet(s) /\ Cardinality(s) \in Nat
  BY FS_Subset, FS_CardinalityType
<1>1. PICK F : Adds(F, f, S) /\ SumFunctionOnSet(f, S) = F[S]
  BY SumIsDefined
<1> DEFINE Zeros == \A x \in S : f[x] = 0
           Claim(s) == F[s] \in Nat /\ (Zeros => F[s] = 0)
           T == {n \in Nat : \A s \in SUBSET S : Cardinality(s) = n => Claim(s)}
<1>2. 0 \in T
  <2>1. \A s \in SUBSET S : Cardinality(s) = 0 => s = {}
    BY <1>0, FS_EmptySet
  <2>2. F[{}] = 0
    BY <1>1, SumsAreIntegers
  <2>3. QED
    BY <2>1, <2>2
<1>3. ASSUME NEW n \in Nat, n \in T PROVE n + 1 \in T
  <2> SUFFICES ASSUME NEW s \in SUBSET S, Cardinality(s) = n + 1 PROVE Claim(s)
    OBVIOUS
  <2> DEFINE x == CHOOSE y \in s : TRUE
  <2>1. s # {}
    <3> HIDE DEF Claim, T
    <3>1. QED
      BY FS_EmptySet
  <2>2. x \in s /\ F[s] = f[x] + F[s \ {x}] /\ Cardinality(s \ {x}) = Cardinality(s) - 1
    BY <1>1, <2>1, SumsAreIntegers
  <2> HIDE DEF x
  <2>3. Claim(s \ {x}) /\ f[x] \in Nat /\ (Zeros => f[x] = 0)
    BY <1>3, <2>2
  <2>4. QED
    BY <2>2, <2>3
<1>4. Nat \subseteq T
  <2> HIDE DEF T
  <2>1. QED
    BY <1>2, <1>3, NatsAreIn
<1>5. Claim(S)
  BY <1>0, <1>4
<1>6. QED
  BY <1>1, <1>5

-----------------------------------------------------------------------------
(***************************************************************************)
(* What tostring() prints.                                                 *)
(***************************************************************************)
LEMMA TimesKeepsOrder ==
  ASSUME NEW p \in Int, NEW q \in Int, NEW d \in Nat, p <= q
  PROVE  p * d \in Int /\ q * d \in Int /\ p * d <= q * d
<1>1. (q - p) * d >= 0
  OBVIOUS
<1>2. (q - p) * d = q * d - p * d
  OBVIOUS
<1>3. QED
  BY <1>1, <1>2

LEMMA DivFacts ==
  ASSUME NEW a \in Int, NEW d \in Nat \ {0}
  PROVE  a \div d \in Int /\ (a \div d) * d <= a /\ a < (a \div d) * d + d
OBVIOUS

LEMMA DivIsMonotone ==
  ASSUME NEW a \in Int, NEW b \in Int, NEW d \in Nat \ {0}, a <= b
  PROVE  a \div d <= b \div d
<1>1. SUFFICES ASSUME b \div d + 1 <= a \div d PROVE FALSE
  BY DivFacts
<1>2. (b \div d + 1) * d <= (a \div d) * d
  BY <1>1, DivFacts, TimesKeepsOrder
<1>3. (b \div d + 1) * d = (b \div d) * d + d
  BY DivFacts
<1>4. QED
  BY <1>2, <1>3, DivFacts

\* The multiple of Grain nearest to x, as a count.
Rounded(x) == (2 * x + Grain) \div (2 * Grain)

\* At Grain and beyond, what is printed is at Grain and beyond.
LEMMA RoundedFacts ==
  ASSUME NEW x \in Int
  PROVE  /\ Rounded(x) \in Int /\ Rounded(x) * Grain \in Int
         /\ x >= Grain => Rounded(x) >= 1 /\ Rounded(x) * Grain >= Grain
         /\ x <= -Grain => Rounded(x) <= -1 /\ Rounded(x) * Grain <= -Grain
<1> DEFINE d == 2 * Grain
           q == Rounded(x)
<1>1. d \in Nat \ {0} /\ 2 * x + Grain \in Int
  BY StoreAssumption
<1>2. q \in Int /\ q * d <= 2 * x + Grain /\ 2 * x + Grain < q * d + d
  BY <1>1, DivFacts DEF Rounded
<1> HIDE DEF q
<1>3. q * Grain \in Int /\ q * d \in Int
  BY <1>1, <1>2, TimesKeepsOrder, StoreAssumption
<1>4. ASSUME x >= Grain PROVE q >= 1 /\ q * Grain >= Grain
  <2>1. q >= 1
    <3>1. q <= 0 => q * d <= 0 * d
      BY <1>1, <1>2, TimesKeepsOrder
    <3>2. QED
      BY <1>1, <1>2, <1>3, <1>4, <3>1, StoreAssumption
  <2>2. 1 * Grain <= q * Grain
    BY <1>2, <2>1, TimesKeepsOrder, StoreAssumption
  <2>3. QED
    BY <2>1, <2>2, StoreAssumption
<1>5. ASSUME x <= -Grain PROVE q <= -1 /\ q * Grain <= -Grain
  <2>1. q <= -1
    <3>1. 0 <= q => 0 * d <= q * d
      BY <1>1, <1>2, TimesKeepsOrder
    <3>2. QED
      BY <1>1, <1>2, <1>3, <1>5, <3>1, StoreAssumption
  <2>2. q * Grain <= (-1) * Grain
    BY <1>2, <2>1, TimesKeepsOrder, StoreAssumption
  <2>3. QED
    BY <2>1, <2>2, StoreAssumption
<1>6. QED
  BY <1>2, <1>3, <1>4, <1>5 DEF q

\* tostring() swaps no two amounts, and keeps a sign.
LEMMA RoundingIsMonotone ==
  ASSUME NEW x \in Int, NEW y \in Int, x <= y
  PROVE  tostring(x) <= tostring(y)
<1>1. /\ tostring(x) = IF x \in 1-Grain..Grain-1 THEN x ELSE Rounded(x) * Grain
      /\ tostring(y) = IF y \in 1-Grain..Grain-1 THEN y ELSE Rounded(y) * Grain
  BY DEF tostring, Rounded
<1>2. Rounded(x) <= Rounded(y)
  BY DivIsMonotone, StoreAssumption DEF Rounded
<1>3. Rounded(x) * Grain <= Rounded(y) * Grain
  BY <1>2, RoundedFacts, TimesKeepsOrder, StoreAssumption
<1>4. QED
  BY <1>1, <1>3, RoundedFacts, StoreAssumption

LEMMA RoundingKeepsSign ==
  ASSUME NEW x \in Int
  PROVE  /\ tostring(x) \in Int
         /\ tostring(x) <= 0 <=> x <= 0
         /\ x \in Nat => tostring(x) \in Nat
<1>1. tostring(x) = IF x \in 1-Grain..Grain-1 THEN x ELSE Rounded(x) * Grain
  BY DEF tostring, Rounded
<1>2. QED
  BY <1>1, RoundedFacts, StoreAssumption

-----------------------------------------------------------------------------
(***************************************************************************)
(* Entries.                                                                *)
(***************************************************************************)
\* What TTLs do: an entry stays one when it is written, deleted or ages.
LEMMA EntryFacts ==
  ASSUME NEW S, NEW absent, NEW e \in Entry(S, absent)
  PROVE  /\ e.ttl \in 0..HourTtl
         /\ e.val \in S \cup {absent}
         /\ Live(e) => e.val \in S
         /\ Gone(absent) \in Entry(S, absent) /\ ~Live(Gone(absent))
         /\ \A v \in S : /\ Fresh(v) \in Entry(S, absent) /\ Live(Fresh(v))
                         /\ Fresh(v).val = v /\ Fresh(v).ttl = HourTtl
         /\ Aged(e, absent) \in Entry(S, absent)
         /\ Aged(e, absent).ttl = IF Live(e) THEN e.ttl - 1 ELSE 0
         /\ Aged(e, absent).val = IF e.ttl = 1 THEN absent ELSE e.val
         /\ (~Live(e) => e = Gone(absent)) =>
              (~Live(Aged(e, absent)) => Aged(e, absent) = Gone(absent))
BY StoreAssumption DEF Entry, Gone, Fresh, Live, Aged

\* The same for the limit, which may never expire.
LEMMA LimitFacts ==
  ASSUME TypeOK
  PROVE  /\ LimitNow \in Nat
         /\ Aged(limit, 0) \in [val : Limit, ttl : {Persist} \cup (1..DayTtl)] \cup {Gone(0)}
BY StoreAssumption DEF TypeOK, LimitNow, Live, Aged, Gone, Persist

\* The values of the keys have the types of their values.
LEMMA ValueTypes ==
  ASSUME TypeOK
  PROVE  /\ spent.val \in Int /\ reserved.val \in Int
         /\ history.val \in Seq(Call)
         /\ \A r \in Request : /\ est[r].val \in Int
                               /\ Live(request[r]) => request[r].val \in Call
                               /\ Live(exec[r]) => exec[r].val \in Call
                               /\ request[r].ttl \in 0..HourTtl /\ est[r].ttl \in 0..HourTtl
                               /\ exec[r].ttl \in 0..HourTtl /\ consumed[r].ttl \in 0..HourTtl
<1>1. \A S : Entry(S, 0) = [val : S, ttl : 0..HourTtl] \cup {[val |-> 0, ttl |-> 0]}
  BY DEF Entry, Gone
<1>2. spent.val \in Int /\ reserved.val \in Int
  BY <1>1 DEF TypeOK
<1>3. history.val \in Seq(Call)
  <2> DEFINE S == Seq(Call)
  <2>1. <<>> \in S
    OBVIOUS
  <2>2. history \in [val : S, ttl : 0..HourTtl] \cup {[val |-> <<>>, ttl |-> 0]}
    BY DEF TypeOK, Entry, Gone
  <2> HIDE DEF S
  <2>3. history.val \in S
    BY <2>1, <2>2
  <2>4. QED
    BY <2>3 DEF S
<1>4. ASSUME NEW r \in Request
      PROVE  /\ est[r].val \in Int /\ est[r].ttl \in 0..HourTtl
             /\ Live(request[r]) => request[r].val \in Call
             /\ Live(exec[r]) => exec[r].val \in Call
             /\ request[r].ttl \in 0..HourTtl
             /\ exec[r].ttl \in 0..HourTtl /\ consumed[r].ttl \in 0..HourTtl
  <2>1. \A c \in Cost : tostring(c) \in Int
    BY RoundingKeepsSign, StoreAssumption
  <2>2. /\ est[r] \in Entry({tostring(c) : c \in Cost}, 0)
        /\ request[r] \in Entry(Call, Nil) /\ exec[r] \in Entry(Call, Nil)
        /\ consumed[r] \in Entry(Call, Nil)
    BY DEF TypeOK
  <2>3. est[r].val \in Int /\ est[r].ttl \in 0..HourTtl
    BY <2>1, <2>2, StoreAssumption DEF Entry, Gone
  <2>4. \A e \in Entry(Call, Nil) : e.ttl \in 0..HourTtl /\ (Live(e) => e.val \in Call)
    BY StoreAssumption DEF Entry, Gone, Live
  <2>5. QED
    BY <2>2, <2>3, <2>4
<1>5. QED
  BY <1>2, <1>3, <1>4

-----------------------------------------------------------------------------
(***************************************************************************)
(* The history list.                                                       *)
(***************************************************************************)
Matching(h, p) == {i \in DOMAIN h : h[i].params = p}

LEMMA MatchingIsFinite ==
  ASSUME NEW h \in Seq(Call), NEW p
  PROVE  IsFiniteSet(Matching(h, p)) /\ Cardinality(Matching(h, p)) \in Nat
<1>1. Len(h) \in Nat /\ DOMAIN h = 1..Len(h)
  OBVIOUS
<1>2. IsFiniteSet(1..Len(h))
  BY <1>1, FS_Interval
<1>3. QED
  BY <1>1, <1>2, FS_Subset, FS_CardinalityType DEF Matching

\* LPUSH and LTRIM: the new call comes first, the oldest may be dropped.
Recorded(h, call, k) == SubSeq(<<call>> \o h, 1, k)

LEMMA RecordFacts ==
  ASSUME NEW h \in Seq(Call), NEW call \in Call, NEW k \in 1..(Len(h) + 1)
  PROVE  /\ Recorded(h, call, k) \in Seq(Call)
         /\ DOMAIN Recorded(h, call, k) = 1..k
         /\ \A i \in 1..k : Recorded(h, call, k)[i] = IF i = 1 THEN call ELSE h[i - 1]
<1> DEFINE c == <<call>> \o h
<1>1. /\ c \in Seq(Call) /\ Len(c) = Len(h) + 1
      /\ \A i \in 1..Len(c) : c[i] = IF i = 1 THEN call ELSE h[i - 1]
  <2>1. <<call>> \in Seq(Call) /\ Len(<<call>>) = 1 /\ <<call>>[1] = call
    OBVIOUS
  <2>2. QED
    BY <2>1, ConcatProperties
<1> HIDE DEF c
<1>2. /\ SubSeq(c, 1, k) \in Seq(Call) /\ Len(SubSeq(c, 1, k)) = k
      /\ \A i \in 1..k : SubSeq(c, 1, k)[i] = c[i]
  BY <1>1, SubSeqProperties
<1>3. QED
  BY <1>1, <1>2 DEF Recorded, c

\* A recorded call counts once for its own parameters, and not for others.
LEMMA RecordCounts ==
  ASSUME NEW h \in Seq(Call), NEW call \in Call, NEW k \in 1..(Len(h) + 1), NEW p
  PROVE  Cardinality(Matching(Recorded(h, call, k), p)) <=
           Cardinality(Matching(h, p)) + (IF p = call.params THEN 1 ELSE 0)
<1> DEFINE hh == Recorded(h, call, k)
           A == Matching(hh, p) \ {1}
           B == Matching(h, p)
           down == [i \in A |-> i - 1]
<1>1. /\ hh \in Seq(Call) /\ DOMAIN hh = 1..k
      /\ \A i \in 1..k : hh[i] = IF i = 1 THEN call ELSE h[i - 1]
  BY RecordFacts
<1> HIDE DEF hh
<1>2. DOMAIN h = 1..Len(h) /\ Len(h) \in Nat
  OBVIOUS
<1>3. \A i \in A : i \in Int /\ i - 1 \in B
  BY <1>1, <1>2 DEF Matching
<1>4. down \in Injection(A, B)
  BY <1>3 DEF Injection, IsInjective
<1>5. IsFiniteSet(B) /\ IsFiniteSet(Matching(hh, p))
  BY <1>1, MatchingIsFinite
<1> HIDE DEF down, A, B
<1>6. IsFiniteSet(A) /\ Cardinality(A) <= Cardinality(B)
  BY <1>4, <1>5, FS_Injection
<1>7. Cardinality(A) \in Nat /\ Cardinality(B) \in Nat
  BY <1>5, <1>6, FS_CardinalityType
<1>8. CASE p = call.params
  <2>1. Matching(hh, p) = A \cup {1}
    BY <1>1, <1>8 DEF A, Matching
  <2>2. 1 \notin A
    BY DEF A
  <2>3. Cardinality(A \cup {1}) = Cardinality(A) + 1
    BY <1>6, <2>2, FS_AddElement, Zenon
  <2>4. Cardinality(Matching(hh, p)) <= Cardinality(B) + 1
    BY <1>6, <1>7, <2>1, <2>3
  <2>5. QED
    BY <1>8, <2>4 DEF hh, B
<1>9. CASE p # call.params
  <2>1. Matching(hh, p) = A
    BY <1>1, <1>9 DEF A, Matching
  <2>2. QED
    BY <1>6, <1>7, <1>9, <2>1 DEF hh, B
<1>10. QED
  BY <1>8, <1>9

-----------------------------------------------------------------------------
(***************************************************************************)
(* Every step keeps the inductive invariant.                               *)
(***************************************************************************)
\* What the evaluator may be told when the gate admits a call.
LEMMA AdmitTells ==
  ASSUME NEW r \in Request, NEW call \in Call, NEW cost \in Cost, Admit(r, call, cost)
  PROVE  \/ asking' = asking /\ \E what \in {"ERROR", "DIVERGED", "HITL"} : Tell(r, what)
         \/ asking' = [asking EXCEPT ![r] = call] /\ Tell(r, "none")
<1>1. PICK verdict :
        \/ Tell(r, "ERROR") /\ UNCHANGED asking
        \/ verdict = "DENY" /\ Tell(r, "DIVERGED") /\ UNCHANGED asking
        \/ verdict = "HITL" /\ Tell(r, "HITL") /\ UNCHANGED asking
        \/ verdict = "ALLOW" /\ Tell(r, "none") /\ asking' = [asking EXCEPT ![r] = call]
  BY DEF Admit
<1>2. QED
  BY <1>1

\* The history after an admission holds one call more, up to its cap.
LEMMA AdmitRecords ==
  ASSUME TypeOK, NEW r \in Request, NEW call \in Call, NEW cost \in Cost, Admit(r, call, cost)
  PROVE  /\ history' \in Entry(Seq(Call), <<>>)
         /\ history'.val \in Seq(Call)
         /\ \A p : Cardinality(Matching(history'.val, p)) <=
                     Cardinality(Matching(history.val, p)) + (IF p = call.params THEN 1 ELSE 0)
<1> DEFINE h == history.val
           k == IF Len(h) < HistoryCap THEN Len(h) + 1 ELSE HistoryCap
<1>1. h \in Seq(Call)
  BY ValueTypes
<1>2. history' = Fresh(Recorded(h, call, k))
  BY DEF Admit, Recorded
<1> HIDE DEF h
<1>3. k \in 1..(Len(h) + 1)
  BY <1>1, StoreAssumption
<1> HIDE DEF k
<1>4. Recorded(h, call, k) \in Seq(Call)
  BY <1>1, <1>3, RecordFacts
<1>5. history' \in Entry(Seq(Call), <<>>) /\ history'.val = Recorded(h, call, k)
  BY <1>2, <1>4, StoreAssumption DEF Entry, Fresh
<1>6. \A p : Cardinality(Matching(Recorded(h, call, k), p)) <=
               Cardinality(Matching(h, p)) + (IF p = call.params THEN 1 ELSE 0)
  BY <1>1, <1>3, RecordCounts
<1>7. QED
  BY <1>4, <1>5, <1>6 DEF h

\* Prior counts the matching calls of the history.
LEMMA PriorIsNat ==
  ASSUME TypeOK, NEW call \in Call
  PROVE  Prior(call) = Cardinality(Matching(history.val, call.params)) /\ Prior(call) \in Nat
<1>1. history.val \in Seq(Call)
  BY ValueTypes
<1>2. QED
  BY <1>1, MatchingIsFinite DEF Prior, Matching

\* A step that leaves the history alone, or drops it, respects the ceiling.
LEMMA CeilingKept ==
  ASSUME TypeOK, RepeatCeiling, history'.val \in {history.val, <<>>}
  PROVE  RepeatCeiling'
<1> SUFFICES ASSUME MaxRepeat > 0, NEW call \in Call PROVE Prior(call)' <= MaxRepeat - 1
  BY DEF RepeatCeiling
<1>1. CASE history'.val = history.val
  BY <1>1 DEF RepeatCeiling, Prior
<1>2. CASE history'.val = <<>>
  <2>1. {i \in DOMAIN history'.val : history'.val[i].params = call.params} = {}
    BY <1>2
  <2>2. Prior(call)' = 0
    BY <2>1, FS_EmptySet DEF Prior
  <2>3. QED
    BY <2>2, StoreAssumption
<1>3. QED
  BY <1>1, <1>2

LEMMA AdmitInv ==
  ASSUME IInv, NEW r \in Request, NEW call \in Call, NEW cost \in Cost, Admit(r, call, cost)
  PROVE  IInv'
<1> USE DEF IInv
<1>1. /\ FirstSeen(r) /\ Minted(r) /\ asking[r] = Nil /\ ~RepeatDenied(call)
      /\ request' = [request EXCEPT ![r] = Fresh(call)]
      /\ reserved' = Fresh(reserved.val + cost)
      /\ est' = [est EXCEPT ![r] = Fresh(tostring(cost))]
      /\ UNCHANGED <<spent, limit, exec, consumed>>
  BY DEF Admit, Admits, Reserve
<1>2. PICK what \in {"ERROR", "DIVERGED", "HITL", "none"} :
        /\ answer' = [answer EXCEPT ![r] = what]
        /\ allows' = allows
        /\ asking' = [asking EXCEPT ![r] = IF what = "none" THEN call ELSE Nil]
  <2>1. \A what : what # "ALLOW" /\ Tell(r, what) =>
           answer' = [answer EXCEPT ![r] = what] /\ allows' = allows
    BY DEF Tell, TypeOK
  <2>2. asking = [asking EXCEPT ![r] = Nil]
    BY <1>1 DEF TypeOK
  <2>3. QED
    BY <2>1, <2>2, AdmitTells
<1>3. TypeOK'
  <2>1. reserved.val \in Int /\ cost \in Int
    BY ValueTypes, StoreAssumption
  <2>2. reserved' \in Entry(Int, 0)
    BY <1>1, <2>1, StoreAssumption DEF Entry, Fresh
  <2>3. Fresh(call) \in Entry(Call, Nil) /\ Fresh(tostring(cost)) \in Entry({tostring(c) : c \in Cost}, 0)
    BY StoreAssumption DEF Entry, Fresh
  <2>4. QED
    BY <1>1, <1>2, <2>2, <2>3, AdmitRecords DEF TypeOK
<1>4. DeadIsAbsent'
  BY <1>1, StoreAssumption DEF DeadIsAbsent, Live, Fresh, TypeOK
<1>5. RepeatCeiling'
  <2> SUFFICES ASSUME MaxRepeat > 0, NEW c \in Call PROVE Prior(c)' <= MaxRepeat - 1
    BY DEF RepeatCeiling
  <2>1. /\ Prior(c) = Cardinality(Matching(history.val, c.params)) /\ Prior(c) \in Nat
        /\ Prior(call) = Cardinality(Matching(history.val, call.params)) /\ Prior(call) \in Nat
    BY PriorIsNat
  <2>2. Prior(c)' = Cardinality(Matching(history'.val, c.params)) /\ Prior(c)' \in Nat
    BY <1>3, AdmitRecords, MatchingIsFinite DEF Prior, Matching
  <2>3. Prior(call) + 1 < MaxRepeat
    BY <1>1, <2>1, StoreAssumption DEF RepeatDenied
  <2>4. Prior(c) <= MaxRepeat - 1
    BY DEF RepeatCeiling
  <2>5. Prior(c)' <= Prior(c) + (IF c.params = call.params THEN 1 ELSE 0)
    BY <2>1, <2>2, AdmitRecords
  <2>6. QED
    BY <2>1, <2>2, <2>3, <2>4, <2>5, StoreAssumption
<1>6. ASSUME NEW q \in Request PROVE KeysAgree(q)' /\ AnswersAgree(q)'
  <2>1. CASE q # r
    BY <1>1, <1>2, <2>1 DEF KeysAgree, AnswersAgree, TypeOK
  <2>2. CASE q = r
    <3>1. ~Live(request[r]) /\ ~Live(est[r]) /\ ~Live(exec[r]) /\ ~Live(consumed[r])
      BY <1>1 DEF FirstSeen, Minted
    <3>2. answer[r] # "ALLOW"
      BY <3>1 DEF AnswersAgree
    <3>3. /\ request[r]' = Fresh(call) /\ est[r]' = Fresh(tostring(cost))
          /\ exec[r]' = exec[r] /\ consumed[r]' = consumed[r]
          /\ answer[r]' = what /\ asking[r]' = (IF what = "none" THEN call ELSE Nil)
          /\ allows[r]' = allows[r]
      BY <1>1, <1>2 DEF TypeOK
    <3>4. KeysAgree(r)'
      BY <3>1, <3>3 DEF KeysAgree, Fresh, Live
    <3>5. AnswersAgree(r)'
      BY <3>1, <3>2, <3>3, StoreAssumption DEF AnswersAgree, Fresh, Live
    <3>6. QED
      BY <2>2, <3>4, <3>5
  <2>3. QED
    BY <2>1, <2>2
<1>7. QED
  BY <1>3, <1>4, <1>5, <1>6

\* A request none of whose keys, question and answer changes keeps what they say.
LEMMA OthersAgree ==
  ASSUME NEW q \in Request, KeysAgree(q) /\ AnswersAgree(q),
         request[q]' = request[q], est[q]' = est[q], exec[q]' = exec[q],
         consumed[q]' = consumed[q],
         asking[q]' = asking[q], answer[q]' = answer[q], allows[q]' = allows[q]
  PROVE  KeysAgree(q)' /\ AnswersAgree(q)'
BY DEF KeysAgree, AnswersAgree

\* What Tell writes.
LEMMA TellFacts ==
  ASSUME TypeOK, NEW r \in Request, NEW what \in {"none", "ALLOW", "HITL", "DENY", "DIVERGED", "ERROR"},
         Tell(r, what)
  PROVE  /\ answer' \in [Request -> {"none", "ALLOW", "HITL", "DENY", "DIVERGED", "ERROR"}]
         /\ allows' \in [Request -> Nat]
         /\ answer[r]' = what
         /\ allows[r]' = IF what = "ALLOW" THEN allows[r] + 1 ELSE allows[r]
         /\ \A q \in Request : q # r => answer[q]' = answer[q] /\ allows[q]' = allows[q]
BY DEF Tell, TypeOK

LEMMA RefuseInv ==
  ASSUME IInv, NEW r \in Request, NEW call \in Call, NEW cost \in Cost, Refuse(r, call, cost)
  PROVE  IInv'
<1> USE DEF IInv
<1>1. /\ FirstSeen(r) /\ Minted(r) /\ asking[r] = Nil
      /\ request' = [request EXCEPT ![r] = Fresh(call)]
      /\ UNCHANGED <<budgetVars, history, est, exec, consumed, asking>>
  BY DEF Refuse
<1>2. PICK what \in {"DENY", "DIVERGED"} : Tell(r, what)
  BY DEF Refuse
<1>3. TypeOK'
  <2>1. Fresh(call) \in Entry(Call, Nil)
    BY StoreAssumption DEF Entry, Fresh
  <2>2. QED
    BY <1>1, <1>2, <2>1, TellFacts DEF TypeOK, budgetVars
<1>4. DeadIsAbsent'
  BY <1>1, StoreAssumption DEF DeadIsAbsent, Live, Fresh, TypeOK, budgetVars
<1>5. RepeatCeiling'
  BY <1>1, CeilingKept
<1>6. ASSUME NEW q \in Request PROVE KeysAgree(q)' /\ AnswersAgree(q)'
  <2>1. CASE q # r
    BY <1>1, <1>2, <2>1, TellFacts, OthersAgree DEF TypeOK
  <2>2. CASE q = r
    <3>1. ~Live(request[r]) /\ ~Live(est[r]) /\ ~Live(exec[r]) /\ ~Live(consumed[r])
      BY <1>1 DEF FirstSeen, Minted
    <3>2. answer[r] # "ALLOW"
      BY <3>1 DEF AnswersAgree
    <3>3. /\ request[r]' = Fresh(call) /\ est[r]' = est[r]
          /\ exec[r]' = exec[r] /\ consumed[r]' = consumed[r]
          /\ answer[r]' = what /\ asking[r]' = Nil
          /\ allows[r]' = allows[r]
      BY <1>1, <1>2, TellFacts DEF TypeOK
    <3>4. KeysAgree(r)'
      BY <3>1, <3>3 DEF KeysAgree, Fresh, Live
    <3>5. AnswersAgree(r)'
      BY <3>1, <3>2, <3>3, StoreAssumption DEF AnswersAgree, Fresh, Live
    <3>6. QED
      BY <2>2, <3>4, <3>5
  <2>3. QED
    BY <2>1, <2>2
<1>7. QED
  BY <1>3, <1>4, <1>5, <1>6

\* Both ways to a capability: an entry for the call of the request's live keys, and
\* an evaluator who is told or is not.
LEMMA GivenInv ==
  ASSUME IInv, NEW r \in Request,
         Live(request[r]) /\ Live(est[r]) /\ ~Live(exec[r]) /\ ~Live(consumed[r]),
         answer[r] \in {"none", "HITL"},
         exec' = [exec EXCEPT ![r] = Fresh(request[r].val)],
         NEW what \in {"ALLOW", "ERROR"}, Tell(r, what),
         asking' = [asking EXCEPT ![r] = Nil],
         UNCHANGED <<budgetVars, history, request, est, consumed>>
  PROVE  IInv'
<1> USE DEF IInv
<1>1. request[r].val \in Call
  BY ValueTypes
<1>2. TypeOK'
  <2>1. Fresh(request[r].val) \in Entry(Call, Nil)
    BY <1>1, StoreAssumption DEF Entry, Fresh
  <2>2. QED
    BY <2>1, TellFacts DEF TypeOK, budgetVars
<1>3. DeadIsAbsent'
  BY StoreAssumption DEF DeadIsAbsent, Live, Fresh, TypeOK, budgetVars
<1>4. RepeatCeiling'
  BY CeilingKept
<1>5. ASSUME NEW q \in Request PROVE KeysAgree(q)' /\ AnswersAgree(q)'
  <2>1. CASE q # r
    BY <2>1, TellFacts, OthersAgree DEF TypeOK
  <2>2. CASE q = r
    <3>1. /\ request[r]' = request[r] /\ est[r]' = est[r] /\ consumed[r]' = consumed[r]
          /\ exec[r]' = Fresh(request[r].val)
          /\ answer[r]' = what /\ asking[r]' = Nil
          /\ allows[r]' = IF what = "ALLOW" THEN allows[r] + 1 ELSE allows[r]
      BY TellFacts DEF TypeOK
    <3>2. request[r].ttl \in 0..HourTtl
      BY ValueTypes
    <3>3. KeysAgree(r)'
      BY <3>1, <3>2 DEF KeysAgree, Fresh, Live
    <3>4. allows[r] = 0
      BY DEF AnswersAgree
    <3>5. AnswersAgree(r)'
      BY <3>1, <3>4, StoreAssumption DEF AnswersAgree, Fresh, Live
    <3>6. QED
      BY <2>2, <3>3, <3>5
  <2>3. QED
    BY <2>1, <2>2
<1>6. QED
  BY <1>2, <1>3, <1>4, <1>5

\* An evaluation that ends without a capability.
LEMMA DeniedInv ==
  ASSUME IInv, NEW r \in Request,
         ~Live(exec[r]) \/ ~Live(request[r]), answer[r] \in {"none", "HITL"},
         NEW what \in {"DENY", "ERROR"}, Tell(r, what),
         asking' = [asking EXCEPT ![r] = Nil],
         UNCHANGED <<budgetVars, history, keyVars>>
  PROVE  IInv'
<1> USE DEF IInv
<1>1. TypeOK'
  BY TellFacts DEF TypeOK, budgetVars, keyVars
<1>2. DeadIsAbsent'
  BY DEF DeadIsAbsent, budgetVars, keyVars
<1>3. RepeatCeiling'
  BY CeilingKept
<1>4. ASSUME NEW q \in Request PROVE KeysAgree(q)' /\ AnswersAgree(q)'
  <2>1. /\ request[q]' = request[q] /\ est[q]' = est[q]
        /\ exec[q]' = exec[q] /\ consumed[q]' = consumed[q]
    BY DEF keyVars
  <2>2. CASE q # r
    BY <2>1, <2>2, TellFacts, OthersAgree DEF TypeOK
  <2>3. CASE q = r
    <3>1. answer[r]' = what /\ asking[r]' = Nil /\ allows[r]' = allows[r]
      BY TellFacts DEF TypeOK
    <3>2. KeysAgree(r)' /\ AnswersAgree(r)'
      BY <2>1, <2>3, <3>1 DEF KeysAgree, AnswersAgree, Live
    <3>3. QED
      BY <2>3, <3>2
  <2>4. QED
    BY <2>2, <2>3
<1>5. QED
  BY <1>1, <1>2, <1>3, <1>4

LEMMA IssueInv ==
  ASSUME IInv, NEW r \in Request, IssueCapability(r)
  PROVE  IInv'
<1>1. ~Live(exec[r]) /\ ~Live(consumed[r]) /\ answer[r] = "none"
  BY DEF IssueCapability, IInv, AnswersAgree
<1>2. CASE MayIssue(r, asking[r]) /\ exec' = [exec EXCEPT ![r] = Fresh(request[r].val)]
  <2>1. PICK what \in {"ALLOW", "ERROR"} : Tell(r, what)
    <3>1. exec' # exec
      BY <1>1, <1>2, StoreAssumption DEF Live, Fresh, IInv, TypeOK
    <3>2. QED
      BY <3>1 DEF IssueCapability
  <2>2. QED
    BY <1>1, <1>2, <2>1, GivenInv DEF IssueCapability, MayIssue
<1>3. CASE \E what \in {"DENY", "ERROR"} : Tell(r, what) /\ UNCHANGED exec
  BY <1>1, <1>3, DeniedInv DEF IssueCapability, keyVars
<1>4. QED
  BY <1>2, <1>3 DEF IssueCapability

LEMMA GrantInv ==
  ASSUME IInv, NEW r \in Request, GrantHitl(r)
  PROVE  IInv'
<1>1. /\ ~Live(exec[r]) /\ ~Live(consumed[r]) /\ answer[r] = "HITL"
      /\ asking' = [asking EXCEPT ![r] = Nil]
  <2>1. answer[r] = "HITL" /\ asking[r] = Nil
    BY DEF GrantHitl, IInv, AnswersAgree
  <2>2. QED
    BY <2>1 DEF GrantHitl, IInv, AnswersAgree, TypeOK
<1>2. CASE MayGrant(r) /\ exec' = [exec EXCEPT ![r] = Fresh(request[r].val)]
  <2>1. PICK what \in {"ALLOW", "ERROR"} : Tell(r, what)
    BY DEF GrantHitl
  <2>2. QED
    BY <1>1, <1>2, <2>1, GivenInv DEF GrantHitl, MayGrant
<1>3. CASE Tell(r, "ERROR") /\ UNCHANGED exec
  BY <1>1, <1>3, DeniedInv DEF GrantHitl, keyVars
<1>4. QED
  BY <1>2, <1>3 DEF GrantHitl

LEMMA PostExecInv ==
  ASSUME IInv, NEW r \in Request, NEW call \in Call, NEW actual \in Cost, PostExec(r, call, actual)
  PROVE  IInv'
<1> USE DEF IInv
<1>1. /\ MayCharge(r, call)
      /\ consumed' = [consumed EXCEPT ![r] = Fresh(call)]
      /\ spent' = Fresh(spent.val + actual)
      /\ reserved' = Fresh(reserved.val - est[r].val)
      /\ exec' = [exec EXCEPT ![r] = Gone(Nil)]
      /\ est' = [est EXCEPT ![r] = Gone(0)]
      /\ UNCHANGED <<limit, history, request, asking, answer, allows>>
  BY DEF PostExec
<1>2. TypeOK'
  <2>1. spent.val + actual \in Int /\ reserved.val - est[r].val \in Int
    BY ValueTypes, StoreAssumption
  <2>2. spent' \in Entry(Int, 0) /\ reserved' \in Entry(Int, 0)
    BY <1>1, <2>1, StoreAssumption DEF Entry, Fresh
  <2>3. /\ Fresh(call) \in Entry(Call, Nil) /\ Gone(Nil) \in Entry(Call, Nil)
        /\ Gone(0) \in Entry({tostring(c) : c \in Cost}, 0)
    BY StoreAssumption DEF Entry, Fresh
  <2>4. QED
    BY <1>1, <2>2, <2>3 DEF TypeOK
<1>3. DeadIsAbsent'
  BY <1>1, StoreAssumption DEF DeadIsAbsent, Live, Fresh, TypeOK
<1>4. RepeatCeiling'
  BY <1>1, CeilingKept
<1>5. ASSUME NEW q \in Request PROVE KeysAgree(q)' /\ AnswersAgree(q)'
  <2>1. CASE q # r
    BY <1>1, <2>1, OthersAgree DEF TypeOK
  <2>2. CASE q = r
    <3>1. /\ request[r]' = request[r] /\ est[r]' = Gone(0) /\ consumed[r]' = Fresh(call)
          /\ exec[r]' = Gone(Nil) /\ answer[r]' = answer[r] /\ asking[r]' = asking[r]
          /\ allows[r]' = allows[r]
      BY <1>1 DEF TypeOK
    <3>2. request[r].ttl \in 0..HourTtl
      BY ValueTypes
    <3>3. Live(exec[r])
      BY <1>1 DEF MayCharge
    <3>4. KeysAgree(r)'
      BY <3>1, <3>2 DEF KeysAgree, Fresh, Live, Gone
    <3>5. AnswersAgree(r)'
      BY <3>1, <3>3, StoreAssumption DEF AnswersAgree, Fresh, Live, Gone
    <3>6. QED
      BY <2>2, <3>4, <3>5
  <2>3. QED
    BY <2>1, <2>2
<1>6. QED
  BY <1>2, <1>3, <1>4, <1>5

\* The steps of the operator touch no key of a request.
LEMMA OperatorInv ==
  ASSUME IInv, ClearSession \/ \E l \in Limit : SetLimit(l)
  PROVE  IInv'
<1> USE DEF IInv
<1>1. /\ UNCHANGED <<keyVars, asking, answer, allows, reserved>>
      /\ history' \in {history, Gone(<<>>)} /\ spent' \in {spent, Gone(0)}
      /\ \/ limit' = Gone(0)
         \/ \E l \in Limit, ttl \in {DayTtl, Persist} : limit' = [val |-> l, ttl |-> ttl]
  BY DEF ClearSession, SetLimit
<1>2. TypeOK'
  <2>1. Gone(0) \in Entry(Int, 0) /\ Gone(<<>>) \in Entry(Seq(Call), <<>>)
    BY DEF Entry
  <2>2. limit' \in [val : Limit, ttl : {Persist} \cup (1..DayTtl)] \cup {Gone(0)}
    BY <1>1, StoreAssumption DEF Persist
  <2>3. QED
    BY <1>1, <2>1, <2>2 DEF TypeOK, keyVars
<1>3. DeadIsAbsent'
  BY <1>1 DEF DeadIsAbsent, Live, Gone, keyVars
<1>4. RepeatCeiling'
  BY <1>1, CeilingKept DEF Gone
<1>5. ASSUME NEW q \in Request PROVE KeysAgree(q)' /\ AnswersAgree(q)'
  BY <1>1, OthersAgree DEF keyVars
<1>6. QED
  BY <1>2, <1>3, <1>4, <1>5

\* How a key ages.
AgesTo(e, f, absent) ==
  /\ f.ttl = IF Live(e) THEN e.ttl - 1 ELSE 0
  /\ Live(f) => f.val = e.val
  /\ (~Live(e) => e = Gone(absent)) => (~Live(f) => f = Gone(absent))

LEMMA AgedAges ==
  ASSUME NEW S, NEW absent, NEW e \in Entry(S, absent)
  PROVE  Aged(e, absent) \in Entry(S, absent) /\ AgesTo(e, Aged(e, absent), absent)
<1>1. e.ttl \in 0..HourTtl /\ Aged(e, absent).val = IF e.ttl = 1 THEN absent ELSE e.val
  BY EntryFacts
<1>2. /\ Aged(e, absent) \in Entry(S, absent)
      /\ Aged(e, absent).ttl = IF Live(e) THEN e.ttl - 1 ELSE 0
      /\ (~Live(e) => e = Gone(absent)) =>
           (~Live(Aged(e, absent)) => Aged(e, absent) = Gone(absent))
  BY EntryFacts
<1>3. Live(Aged(e, absent)) => e.ttl # 1
  BY <1>1, <1>2 DEF Live
<1>4. QED
  BY <1>1, <1>2, <1>3 DEF AgesTo

LEMMA AgedKeys ==
  ASSUME TypeOK, NEW r \in Request, Tick
  PROVE  /\ AgesTo(request[r], request[r]', Nil) /\ AgesTo(est[r], est[r]', 0)
         /\ AgesTo(exec[r], exec[r]', Nil) /\ AgesTo(consumed[r], consumed[r]', Nil)
<1>1. /\ request[r]' = Aged(request[r], Nil) /\ est[r]' = Aged(est[r], 0)
      /\ exec[r]' = Aged(exec[r], Nil) /\ consumed[r]' = Aged(consumed[r], Nil)
      /\ request[r] \in Entry(Call, Nil) /\ exec[r] \in Entry(Call, Nil)
      /\ consumed[r] \in Entry(Call, Nil)
      /\ est[r] \in Entry({tostring(c) : c \in Cost}, 0)
  BY DEF Tick, TypeOK
<1>2. \A S, absent : \A e \in Entry(S, absent) : AgesTo(e, Aged(e, absent), absent)
  BY AgedAges
<1>3. QED
  BY <1>1, <1>2

LEMMA TickInv ==
  ASSUME IInv, Tick
  PROVE  IInv'
<1> USE DEF IInv
<1>1. TypeOK'
  <2>1. \A S, absent : \A e \in Entry(S, absent) : Aged(e, absent) \in Entry(S, absent)
    BY EntryFacts
  <2>2. spent' \in Entry(Int, 0) /\ reserved' \in Entry(Int, 0)
    BY <2>1 DEF Tick, TypeOK
  <2>3. history' \in Entry(Seq(Call), <<>>)
    BY <2>1, Zenon DEF Tick, TypeOK
  <2>4. limit' \in [val : Limit, ttl : {Persist} \cup (1..DayTtl)] \cup {Gone(0)}
    BY LimitFacts DEF Tick
  <2>5. request' \in [Request -> Entry(Call, Nil)]
    BY <2>1 DEF Tick, TypeOK
  <2>6. est' \in [Request -> Entry({tostring(c) : c \in Cost}, 0)]
    BY <2>1 DEF Tick, TypeOK
  <2>7. exec' \in [Request -> Entry(Call, Nil)] /\ consumed' \in [Request -> Entry(Call, Nil)]
    BY <2>1 DEF Tick, TypeOK
  <2>8. /\ asking' \in [Request -> Call \cup {Nil}] /\ allows' \in [Request -> Nat]
        /\ answer' \in [Request -> {"none", "ALLOW", "HITL", "DENY", "DIVERGED", "ERROR"}]
    BY DEF Tick, TypeOK
  <2>9. QED
    BY <2>2, <2>3, <2>4, <2>5, <2>6, <2>7, <2>8 DEF TypeOK
<1>2. DeadIsAbsent'
  <2>1. /\ ~Live(spent') => spent' = Gone(0)
        /\ ~Live(reserved') => reserved' = Gone(0)
    BY EntryFacts DEF Tick, DeadIsAbsent, TypeOK
  <2>2. ASSUME NEW r \in Request
        PROVE /\ ~Live(request[r]') => request[r]' = Gone(Nil)
              /\ ~Live(est[r]') => est[r]' = Gone(0)
              /\ ~Live(exec[r]') => exec[r]' = Gone(Nil)
              /\ ~Live(consumed[r]') => consumed[r]' = Gone(Nil)
    BY AgedKeys DEF DeadIsAbsent, AgesTo
  <2>3. QED
    BY <2>1, <2>2 DEF DeadIsAbsent
<1>3. RepeatCeiling'
  <2>1. history'.val \in {history.val, <<>>}
    BY DEF Tick, Aged, Gone
  <2>2. QED
    BY <2>1, CeilingKept
<1>4. ASSUME NEW r \in Request PROVE KeysAgree(r)' /\ AnswersAgree(r)'
  <2>1. /\ request[r].ttl \in 0..HourTtl /\ est[r].ttl \in 0..HourTtl
        /\ exec[r].ttl \in 0..HourTtl /\ consumed[r].ttl \in 0..HourTtl
    BY ValueTypes
  <2>2. /\ request[r]'.ttl = (IF Live(request[r]) THEN request[r].ttl - 1 ELSE 0)
        /\ est[r]'.ttl = (IF Live(est[r]) THEN est[r].ttl - 1 ELSE 0)
        /\ exec[r]'.ttl = (IF Live(exec[r]) THEN exec[r].ttl - 1 ELSE 0)
        /\ consumed[r]'.ttl = (IF Live(consumed[r]) THEN consumed[r].ttl - 1 ELSE 0)
        /\ Live(request[r]') => request[r]'.val = request[r].val
        /\ Live(exec[r]') => exec[r]'.val = exec[r].val
    BY AgedKeys DEF AgesTo
  <2>3. /\ asking[r]' = asking[r]
        /\ answer[r]' = (IF Live(request[r]') THEN answer[r] ELSE "none")
        /\ allows[r]' = (IF Live(request[r]') THEN allows[r] ELSE 0)
    BY DEF Tick, TypeOK
  <2>4. KeysAgree(r)'
    BY <2>1, <2>2 DEF KeysAgree, Live
  <2>5. /\ Live(request[r]') => Live(request[r])
        /\ Live(exec[r]') => Live(exec[r])
        /\ Live(consumed[r]') => Live(consumed[r])
    BY <2>2 DEF Live
  <2>6. Live(request[r]') => /\ Live(exec[r]) => Live(exec[r]')
                             /\ Live(consumed[r]) => Live(consumed[r]')
    <3>1. Live(request[r]') => request[r].ttl > 1
      BY <2>1, <2>2 DEF Live
    <3>2. /\ Live(exec[r]) => exec[r].ttl >= request[r].ttl
          /\ Live(consumed[r]) => consumed[r].ttl >= request[r].ttl
      BY DEF KeysAgree
    <3>3. request[r].ttl > 1 => /\ Live(exec[r]) => exec[r]'.ttl # 0
                                /\ Live(consumed[r]) => consumed[r]'.ttl # 0
      BY <2>1, <2>2, <3>2
    <3>4. QED
      BY <3>1, <3>3 DEF Live
  <2>7. AnswersAgree(r)
    OBVIOUS
  <2>8. AnswersAgree(r)'
    <3>1. asking[r]' # Nil => ~Live(exec[r]') /\ ~Live(consumed[r]')
      BY <2>3, <2>5, <2>7 DEF AnswersAgree
    <3>2. asking[r]' # Nil => answer[r]' = "none"
      BY <2>3, <2>7 DEF AnswersAgree
    <3>3. asking[r]' # Nil /\ Live(request[r]') => request[r]'.val = asking[r]'
      BY <2>2, <2>3, <2>5, <2>7 DEF AnswersAgree
    <3>4. answer[r]' \in {"HITL", "ALLOW"} => Live(request[r]')
      BY <2>3
    <3>5. answer[r]' = "HITL" => ~Live(exec[r]') /\ ~Live(consumed[r]')
      BY <2>3, <2>5, <2>7 DEF AnswersAgree
    <3>6. answer[r]' = "ALLOW" => Live(exec[r]') \/ Live(consumed[r]')
      BY <2>3, <2>6, <2>7 DEF AnswersAgree
    <3>7. Live(exec[r]') /\ Live(request[r]') => answer[r]' \in {"ALLOW", "ERROR"}
      BY <2>3, <2>5, <2>7 DEF AnswersAgree
    <3>8. allows[r]' = IF answer[r]' = "ALLOW" THEN 1 ELSE 0
      BY <2>3, <2>7 DEF AnswersAgree
    <3>9. QED
      BY <3>1, <3>2, <3>3, <3>4, <3>5, <3>6, <3>7, <3>8 DEF AnswersAgree
  <2>9. QED
    BY <2>4, <2>8
<1>5. QED
  BY <1>1, <1>2, <1>3, <1>4

LEMMA InitIInv == Init => IInv
<1> SUFFICES ASSUME Init PROVE IInv
  OBVIOUS
<1>1. TypeOK
  BY DEF Init, TypeOK, Entry
<1>2. DeadIsAbsent
  BY DEF Init, DeadIsAbsent
<1>3. RepeatCeiling
  <2> SUFFICES ASSUME MaxRepeat > 0, NEW call \in Call PROVE Prior(call) <= MaxRepeat - 1
    BY DEF RepeatCeiling
  <2>1. {i \in DOMAIN history.val : history.val[i].params = call.params} = {}
    BY DEF Init, Gone
  <2>2. Prior(call) = 0
    BY <2>1, FS_EmptySet DEF Prior
  <2>3. QED
    BY <2>2, StoreAssumption
<1>4. \A r \in Request : KeysAgree(r) /\ AnswersAgree(r)
  BY DEF Init, KeysAgree, AnswersAgree, Gone, Live
<1>5. QED
  BY <1>1, <1>2, <1>3, <1>4 DEF IInv

LEMMA NextIInv == IInv /\ [Next]_vars => IInv'
<1> SUFFICES ASSUME IInv, [Next]_vars PROVE IInv'
  OBVIOUS
<1>1. ASSUME NEW r \in Request, NEW call \in Call, NEW cost \in Cost,
             Admit(r, call, cost) \/ Refuse(r, call, cost) \/ PostExec(r, call, cost)
      PROVE  IInv'
  BY <1>1, AdmitInv, RefuseInv, PostExecInv
<1>2. ASSUME NEW r \in Request, IssueCapability(r) \/ GrantHitl(r) PROVE IInv'
  BY <1>2, IssueInv, GrantInv
<1>3. ASSUME ClearSession \/ \E l \in Limit : SetLimit(l) PROVE IInv'
  BY <1>3, OperatorInv
<1>4. ASSUME Tick PROVE IInv'
  BY <1>4, TickInv
<1>5. CASE UNCHANGED vars
  BY <1>5 DEF vars, budgetVars, keyVars, IInv, TypeOK, DeadIsAbsent, RepeatCeiling, Prior,
              KeysAgree, AnswersAgree
<1>6. QED
  BY <1>1, <1>2, <1>3, <1>4, <1>5 DEF Next

LEMMA SpecIInv == Spec => []IInv
BY InitIInv, NextIInv, PTL DEF Spec

-----------------------------------------------------------------------------
\* The keys of every request have their types, an id is allowed at most once while
\* its key lives, nobody holds a capability whom the gate did not admit, and no
\* call is recorded more often than max_repeat allows: for any number of requests
\* and any interleaving of scripts, expiries, operators and lost replies.
THEOREM StoreSafe == Spec => []StoreInv
<1>1. IInv => StoreInv
  <2> SUFFICES ASSUME IInv PROVE StoreInv
    OBVIOUS
  <2>1. OneAllowPerRequest
    BY DEF IInv, AnswersAgree, OneAllowPerRequest
  <2>2. NoCapabilityUnlessAdmitted
    BY DEF IInv, KeysAgree, AnswersAgree, NoCapabilityUnlessAdmitted
  <2>3. QED
    BY <2>1, <2>2 DEF IInv, StoreInv
<1>2. QED
  BY <1>1, SpecIInv, PTL

\* A call that was allowed can be booked with _POST_EXEC_LUA, or has been, for as
\* long as the request's key lives: no key it needs expires before that one.
THEOREM AllowChargeable == Spec => []AllowIsChargeable
<1>1. IInv => AllowIsChargeable
  BY DEF IInv, AllowIsChargeable, KeysAgree, AnswersAgree, MayCharge
<1>2. QED
  BY <1>1, SpecIInv, PTL

-----------------------------------------------------------------------------
(***************************************************************************)
(* The store implements Capability.                                        *)
(***************************************************************************)
Stages == [r \in Request |-> StageOf(r)]

\* A step that changes the stage of one request is a move of that request.
LEMMA OneMoves ==
  ASSUME NEW r \in Request, NEW to, StageOf(r)' = to,
         \A q \in Request : q # r => StageOf(q)' = StageOf(q)
  PROVE  Stages' = [Stages EXCEPT ![r] = to]
BY DEF Stages

\* A request none of whose keys changes keeps its stage.
LEMMA SameStage ==
  ASSUME NEW q \in Request, request[q]' = request[q], est[q]' = est[q], exec[q]' = exec[q],
         consumed[q]' = consumed[q]
  PROVE  StageOf(q)' = StageOf(q)
BY DEF StageOf

LEMMA ScriptMoves ==
  ASSUME IInv, NEW r \in Request, NEW call \in Call, NEW cost \in Cost,
         Admit(r, call, cost) \/ Refuse(r, call, cost) \/ PostExec(r, call, cost)
  PROVE  Capabilities!Next
<1>1. CASE Admit(r, call, cost)
  <2>1. StageOf(r) = "new" /\ StageOf(r)' = "held"
    BY <1>1, StoreAssumption DEF Admit, FirstSeen, Minted, StageOf, Live, Fresh, IInv, TypeOK
  <2>2. \A q \in Request : q # r => StageOf(q)' = StageOf(q)
    BY <1>1, SameStage DEF Admit, IInv, TypeOK
  <2>3. QED
    BY <2>1, <2>2, OneMoves DEF Capabilities!Next, Capabilities!Admit, Capabilities!Moves, Stages
<1>2. CASE Refuse(r, call, cost)
  <2>1. StageOf(r) = "new" /\ StageOf(r)' = "refused"
    BY <1>2, StoreAssumption DEF Refuse, FirstSeen, Minted, StageOf, Live, Fresh, IInv, TypeOK
  <2>2. \A q \in Request : q # r => StageOf(q)' = StageOf(q)
    BY <1>2, SameStage DEF Refuse, IInv, TypeOK
  <2>3. QED
    BY <2>1, <2>2, OneMoves DEF Capabilities!Next, Capabilities!Refuse, Capabilities!Moves, Stages
<1>3. CASE PostExec(r, call, cost)
  <2>1. StageOf(r) = "allowed" /\ StageOf(r)' = "settled"
    BY <1>3, StoreAssumption DEF PostExec, MayCharge, StageOf, Live, Fresh, IInv, TypeOK
  <2>2. \A q \in Request : q # r => StageOf(q)' = StageOf(q)
    BY <1>3, SameStage DEF PostExec, IInv, TypeOK
  <2>3. QED
    BY <2>1, <2>2, OneMoves DEF Capabilities!Next, Capabilities!Settle, Capabilities!Moves, Stages
<1>4. QED
  BY <1>1, <1>2, <1>3

LEMMA GivingMoves ==
  ASSUME IInv, NEW r \in Request, IssueCapability(r) \/ GrantHitl(r)
  PROVE  Capabilities!Next \/ Stages' = Stages
<1>1. UNCHANGED <<request, est, consumed>>
  BY DEF IssueCapability, GrantHitl
<1>2. CASE UNCHANGED exec
  <2>1. \A q \in Request : StageOf(q)' = StageOf(q)
    BY <1>1, <1>2, SameStage
  <2>2. QED
    BY <2>1 DEF Stages
<1>3. CASE ~UNCHANGED exec
  <2>1. /\ exec' = [exec EXCEPT ![r] = Fresh(request[r].val)]
        /\ Live(request[r]) /\ Live(est[r]) /\ ~Live(exec[r])
    BY <1>3 DEF IssueCapability, GrantHitl, MayIssue, MayGrant
  <2>2. ~Live(consumed[r])
    BY <2>1 DEF IInv, KeysAgree
  <2>3. StageOf(r) = "held" /\ StageOf(r)' = "allowed"
    BY <1>1, <2>1, <2>2, StoreAssumption DEF StageOf, Live, Fresh, IInv, TypeOK
  <2>4. \A q \in Request : q # r => StageOf(q)' = StageOf(q)
    BY <1>1, <2>1, SameStage DEF IInv, TypeOK
  <2>5. QED
    BY <2>3, <2>4, OneMoves DEF Capabilities!Next, Capabilities!Issue, Capabilities!Moves, Stages
<1>4. QED
  BY <1>2, <1>3

LEMMA TickMoves ==
  ASSUME IInv, Tick
  PROVE  Capabilities!Next
<1>1. ASSUME NEW r \in Request PROVE StageOf(r)' \in Capabilities!After(StageOf(r))
  <2>1. /\ request[r].ttl \in 0..HourTtl /\ est[r].ttl \in 0..HourTtl
        /\ exec[r].ttl \in 0..HourTtl /\ consumed[r].ttl \in 0..HourTtl
    BY ValueTypes DEF IInv
  <2>2. /\ request[r]'.ttl = (IF Live(request[r]) THEN request[r].ttl - 1 ELSE 0)
        /\ est[r]'.ttl = (IF Live(est[r]) THEN est[r].ttl - 1 ELSE 0)
        /\ exec[r]'.ttl = (IF Live(exec[r]) THEN exec[r].ttl - 1 ELSE 0)
        /\ consumed[r]'.ttl = (IF Live(consumed[r]) THEN consumed[r].ttl - 1 ELSE 0)
    BY AgedKeys DEF AgesTo, IInv
  <2>3. KeysAgree(r)
    BY DEF IInv
  <2>4. StageOf(r) = "allowed" => StageOf(r)' \in {"allowed", "lapsed", "new"}
    BY <2>1, <2>2, <2>3 DEF StageOf, KeysAgree, Live
  <2>5. StageOf(r) # "allowed" => StageOf(r)' \in {StageOf(r), "new"}
    BY <2>1, <2>2, <2>3 DEF StageOf, KeysAgree, Live
  <2>6. QED
    BY <2>4, <2>5 DEF Capabilities!After
<1>2. Stages' \in [Request -> Capabilities!Stage]
  BY DEF Stages, StageOf, Capabilities!Stage
<1>3. QED
  BY <1>1, <1>2 DEF Capabilities!Next, Capabilities!Expire, Stages

\* PolicyStore implements Capability: through both scripts, lost replies, grants,
\* clear_session and keys that expire on their own, a request is admitted before
\* it is given a capability, and settled at most once.
THEOREM StoreImplementsCapability == Spec => ImplementsCapability
<1>1. Init => Capabilities!Init
  BY DEF Init, Capabilities!Init, StageOf, Live, Gone
<1>2. IInv /\ [Next]_vars => [Capabilities!Next]_Stages
  <2> SUFFICES ASSUME IInv, [Next]_vars PROVE Capabilities!Next \/ Stages' = Stages
    OBVIOUS
  <2>1. ASSUME NEW r \in Request, NEW call \in Call, NEW cost \in Cost,
               Admit(r, call, cost) \/ Refuse(r, call, cost) \/ PostExec(r, call, cost)
        PROVE  Capabilities!Next
    BY <2>1, ScriptMoves
  <2>2. ASSUME NEW r \in Request, IssueCapability(r) \/ GrantHitl(r)
        PROVE  Capabilities!Next \/ Stages' = Stages
    BY <2>2, GivingMoves
  <2>3. CASE UNCHANGED keyVars
    <3>1. \A q \in Request : StageOf(q)' = StageOf(q)
      BY <2>3, SameStage DEF keyVars
    <3>2. QED
      BY <3>1 DEF Stages
  <2>4. CASE Tick
    BY <2>4, TickMoves
  <2>5. QED
    BY <2>1, <2>2, <2>3, <2>4 DEF Next, ClearSession, SetLimit, vars
<1>3. QED
  BY <1>1, <1>2, SpecIInv, PTL DEF Spec, ImplementsCapability, Capabilities!Spec, Stages

-----------------------------------------------------------------------------
(***************************************************************************)
(* Money.  tostring() must not round an estimate up when it is stored: one *)
(* that is rounded up is given back in excess.                             *)
(***************************************************************************)
RoundsDown == \A c \in Cost : tostring(c) <= c

Estimates == [r \in Request |-> est[r].val]

\* Estimates are natural numbers, so they add up to one.
HeldIsNat ==
  /\ \A r \in Request : est[r].val \in Nat
  /\ Held \in Nat
  /\ (\A r \in Request : est[r].val = 0) => Held = 0

LEMMA EstimatesAreNat == TypeOK => HeldIsNat
<1> SUFFICES ASSUME TypeOK PROVE HeldIsNat
  OBVIOUS
<1>1. ASSUME NEW r \in Request PROVE est[r].val \in Nat
  <2>1. est[r] \in Entry({tostring(c) : c \in Cost}, 0)
    BY DEF TypeOK
  <2>2. \A c \in Cost : tostring(c) \in Nat
    BY RoundingKeepsSign, StoreAssumption
  <2>3. QED
    BY <2>1, <2>2 DEF Entry, Gone
<1>2. Held = SumFunctionOnSet(Estimates, Request)
  BY DEF Held, Estimates
<1>3. \A r \in Request : Estimates[r] = est[r].val
  BY DEF Estimates
<1>4. QED
  BY <1>1, <1>2, <1>3, SumOfNaturals, StoreAssumption DEF HeldIsNat

LEMMA EstimatesStayNat == TypeOK' => HeldIsNat'
BY EstimatesAreNat, PTL

\* Held moves by at most what the estimate of one request does, if no other grows.
LEMMA HeldGrowsAtOne ==
  ASSUME TypeOK, TypeOK', NEW r \in Request,
         \A q \in Request : q # r => est[q]'.val <= est[q].val
  PROVE  Held' - Held <= est[r]'.val - est[r].val
<1> DEFINE f == Estimates
           h == Estimates'
<1>1. \A q \in Request : f[q] = est[q].val /\ h[q] = est[q]'.val
  BY DEF Estimates
<1>2. \A q \in Request : f[q] \in Int /\ h[q] \in Int
  <2>1. HeldIsNat /\ HeldIsNat'
    BY EstimatesAreNat, EstimatesStayNat
  <2>2. QED
    BY <1>1, <2>1 DEF HeldIsNat
<1>3. Held = SumFunctionOnSet(f, Request) /\ Held' = SumFunctionOnSet(h, Request)
  BY DEF Held, Estimates
<1> HIDE DEF f, h
<1>4. SumFunctionOnSet(h, Request) - SumFunctionOnSet(f, Request) <= h[r] - f[r]
  BY <1>1, <1>2, SumGrowsAtOne, StoreAssumption
<1>5. QED
  BY <1>1, <1>3, <1>4

\* If no estimate grows, neither does their sum.
LEMMA HeldShrinks ==
  ASSUME TypeOK, TypeOK', \A q \in Request : est[q]'.val <= est[q].val
  PROVE  Held' <= Held
<1>1. HeldIsNat /\ HeldIsNat'
  BY EstimatesAreNat, EstimatesStayNat
<1>2. CASE Request = {}
  BY <1>1, <1>2 DEF HeldIsNat
<1>3. ASSUME NEW r \in Request PROVE Held' <= Held
  <2>1. Held' - Held <= est[r]'.val - est[r].val
    BY HeldGrowsAtOne
  <2>2. QED
    BY <1>1, <2>1 DEF HeldIsNat
<1>4. QED
  BY <1>2, <1>3

\* The counter against the estimates, and against what is spent.
MoneyInv == IInv /\ ReservedCoversHeld /\ spent.val >= 0

LEMMA AdmitMoney ==
  ASSUME RoundsDown, MoneyInv, IInv',
         NEW r \in Request, NEW call \in Call, NEW cost \in Cost, Admit(r, call, cost)
  PROVE  ReservedCoversHeld' /\ spent'.val >= 0
<1>1. /\ TypeOK /\ TypeOK' /\ cost \in Nat /\ tostring(cost) <= cost /\ tostring(cost) \in Nat
  BY RoundingKeepsSign, StoreAssumption DEF MoneyInv, IInv, RoundsDown
<1>2. HeldIsNat /\ HeldIsNat' /\ reserved.val \in Int
  BY <1>1, EstimatesAreNat, EstimatesStayNat, ValueTypes
<1>3. /\ ~Live(est[r])
      /\ est' = [est EXCEPT ![r] = Fresh(tostring(cost))]
      /\ reserved' = Fresh(reserved.val + cost) /\ spent' = spent
  BY DEF Admit, Reserve, FirstSeen, Minted
<1>4. /\ est[r].val = 0
      /\ \A q \in Request : est[q]' = IF q = r THEN Fresh(tostring(cost)) ELSE est[q]
  BY <1>1, <1>3 DEF MoneyInv, IInv, DeadIsAbsent, Gone, TypeOK
<1>5. reserved'.val = reserved.val + cost /\ reserved'.ttl = HourTtl
  BY <1>3 DEF Fresh
<1>6. Held' - Held <= est[r]'.val - est[r].val
  <2>1. \A q \in Request : q # r => est[q]'.val <= est[q].val
    BY <1>2, <1>4 DEF HeldIsNat
  <2>2. QED
    BY <1>1, <2>1, HeldGrowsAtOne
<1>7. est[r]'.val = tostring(cost)
  BY <1>4 DEF Fresh
<1>8. reserved'.val >= Held'
  BY <1>1, <1>2, <1>4, <1>5, <1>6, <1>7 DEF HeldIsNat, MoneyInv, ReservedCoversHeld
<1>9. \A q \in Request : est[q]'.ttl <= reserved'.ttl
  <2>1. \A q \in Request : est[q].ttl \in 0..HourTtl
    BY <1>1, ValueTypes
  <2>2. QED
    BY <1>4, <1>5, <2>1, StoreAssumption DEF Fresh
<1>10. QED
  BY <1>3, <1>8, <1>9 DEF ReservedCoversHeld, MoneyInv

LEMMA PostExecMoney ==
  ASSUME MoneyInv, IInv',
         NEW r \in Request, NEW call \in Call, NEW actual \in Cost, PostExec(r, call, actual)
  PROVE  ReservedCoversHeld' /\ spent'.val >= 0
<1>1. TypeOK /\ TypeOK' /\ actual \in Nat /\ spent.val \in Int
  BY ValueTypes, StoreAssumption DEF MoneyInv, IInv
<1>2. HeldIsNat /\ HeldIsNat' /\ reserved.val \in Int
  BY <1>1, EstimatesAreNat, EstimatesStayNat, ValueTypes
<1>3. /\ est' = [est EXCEPT ![r] = Gone(0)]
      /\ reserved'.val = reserved.val - est[r].val /\ reserved'.ttl = HourTtl
      /\ spent'.val = spent.val + actual
  BY DEF PostExec, Fresh
<1>4. \A q \in Request : est[q]' = IF q = r THEN Gone(0) ELSE est[q]
  BY <1>1, <1>3 DEF TypeOK
<1>5. Held' - Held <= est[r]'.val - est[r].val
  <2>1. \A q \in Request : q # r => est[q]'.val <= est[q].val
    BY <1>2, <1>4 DEF HeldIsNat
  <2>2. QED
    BY <1>1, <2>1, HeldGrowsAtOne
<1>6. est[r]'.val = 0
  BY <1>4 DEF Gone
<1>7. reserved'.val >= Held'
  BY <1>2, <1>3, <1>5, <1>6 DEF HeldIsNat, MoneyInv, ReservedCoversHeld
<1>8. \A q \in Request : est[q]'.ttl <= reserved'.ttl
  <2>1. \A q \in Request : est[q].ttl \in 0..HourTtl
    BY <1>1, ValueTypes
  <2>2. QED
    BY <1>3, <1>4, <2>1, StoreAssumption DEF Gone
<1>9. QED
  BY <1>1, <1>3, <1>7, <1>8 DEF ReservedCoversHeld, MoneyInv

LEMMA TickMoney ==
  ASSUME MoneyInv, IInv', Tick
  PROVE  ReservedCoversHeld' /\ spent'.val >= 0
<1>1. TypeOK /\ TypeOK' /\ DeadIsAbsent /\ DeadIsAbsent'
  BY DEF MoneyInv, IInv
<1>2. HeldIsNat /\ HeldIsNat' /\ reserved.val \in Int /\ spent.val \in Int
  BY <1>1, EstimatesAreNat, EstimatesStayNat, ValueTypes
<1>3. /\ spent' = Aged(spent, 0) /\ reserved' = Aged(reserved, 0)
      /\ spent.ttl \in 0..HourTtl /\ reserved.ttl \in 0..HourTtl
      /\ AgesTo(reserved, reserved', 0)
  <2>1. spent \in Entry(Int, 0) /\ reserved \in Entry(Int, 0)
    BY <1>1 DEF TypeOK
  <2>2. QED
    BY <2>1, EntryFacts, AgedAges DEF Tick
<1>4. ASSUME NEW q \in Request
      PROVE  /\ est[q].ttl \in 0..HourTtl
             /\ est[q]'.ttl = (IF est[q].ttl # 0 THEN est[q].ttl - 1 ELSE 0)
             /\ est[q]'.ttl # 0 => est[q]'.val = est[q].val
             /\ est[q]'.ttl = 0 => est[q]'.val = 0
  BY <1>1, AgedKeys, ValueTypes DEF AgesTo, Live, DeadIsAbsent, Gone
<1>5. \A q \in Request : est[q].ttl <= reserved.ttl
  BY DEF MoneyInv, ReservedCoversHeld
<1>6. \A q \in Request : est[q]'.ttl <= reserved'.ttl
  BY <1>3, <1>4, <1>5 DEF AgesTo, Live
<1>7. reserved'.val >= Held'
  <2>1. CASE reserved.ttl <= 1
    <3>1. \A q \in Request : est[q]'.val = 0
      BY <1>3, <1>4, <1>5, <2>1
    <3>2. Held' = 0
      BY <1>2, <3>1 DEF HeldIsNat
    <3>3. reserved'.val = 0
      BY <1>1, <1>3, <2>1 DEF AgesTo, Live, DeadIsAbsent, Gone
    <3>4. QED
      BY <3>2, <3>3
  <2>2. CASE reserved.ttl > 1
    <3>1. reserved'.val = reserved.val
      BY <1>3, <2>2 DEF AgesTo, Live
    <3>2. \A q \in Request : est[q]'.val <= est[q].val
      BY <1>2, <1>4 DEF HeldIsNat
    <3>3. Held' <= Held
      BY <1>1, <3>2, HeldShrinks
    <3>4. QED
      BY <1>2, <3>1, <3>3 DEF HeldIsNat, MoneyInv, ReservedCoversHeld
  <2>3. QED
    BY <1>3, <2>1, <2>2
<1>8. spent'.val >= 0
  BY <1>3 DEF Aged, Gone, MoneyInv
<1>9. QED
  BY <1>6, <1>7, <1>8 DEF ReservedCoversHeld

\* The steps that touch neither the estimates nor their counter.
LEMMA OtherMoney ==
  ASSUME MoneyInv, UNCHANGED <<est, reserved>>, spent' \in {spent, Gone(0)}
  PROVE  ReservedCoversHeld' /\ spent'.val >= 0
BY DEF MoneyInv, ReservedCoversHeld, Held, Gone

LEMMA NextMoneyInv == RoundsDown /\ MoneyInv /\ [Next]_vars => MoneyInv'
<1> SUFFICES ASSUME RoundsDown, MoneyInv, [Next]_vars PROVE MoneyInv'
  OBVIOUS
<1>1. IInv'
  BY NextIInv DEF MoneyInv
<1>2. ASSUME NEW r \in Request, NEW call \in Call, NEW cost \in Cost,
             Admit(r, call, cost) \/ Refuse(r, call, cost) \/ PostExec(r, call, cost)
      PROVE  ReservedCoversHeld' /\ spent'.val >= 0
  BY <1>1, <1>2, AdmitMoney, PostExecMoney, OtherMoney DEF Refuse, budgetVars
<1>3. ASSUME NEW r \in Request, IssueCapability(r) \/ GrantHitl(r)
      PROVE  ReservedCoversHeld' /\ spent'.val >= 0
  BY <1>3, OtherMoney DEF IssueCapability, GrantHitl, budgetVars
<1>4. ASSUME ClearSession \/ \E l \in Limit : SetLimit(l)
      PROVE  ReservedCoversHeld' /\ spent'.val >= 0
  BY <1>4, OtherMoney DEF ClearSession, SetLimit, keyVars
<1>5. ASSUME Tick PROVE ReservedCoversHeld' /\ spent'.val >= 0
  BY <1>1, <1>5, TickMoney
<1>6. ASSUME UNCHANGED vars PROVE ReservedCoversHeld' /\ spent'.val >= 0
  BY <1>6, OtherMoney DEF vars, budgetVars, keyVars
<1>7. QED
  BY <1>1, <1>2, <1>3, <1>4, <1>5, <1>6 DEF Next, MoneyInv

LEMMA InitMoneyInv == Init => MoneyInv
<1> SUFFICES ASSUME Init PROVE MoneyInv
  OBVIOUS
<1>1. IInv
  BY InitIInv
<1>2. \A r \in Request : est[r] = Gone(0)
  BY DEF Init
<1>3. Held = 0
  <2>1. HeldIsNat
    BY <1>1, EstimatesAreNat DEF IInv
  <2>2. QED
    BY <1>2, <2>1 DEF HeldIsNat, Gone
<1>4. QED
  BY <1>1, <1>2, <1>3 DEF MoneyInv, ReservedCoversHeld, Init, Gone

LEMMA SpecMoneyInv == ASSUME RoundsDown PROVE Spec => []MoneyInv
<1>1. MoneyInv /\ [Next]_vars => MoneyInv'
  BY NextMoneyInv
<1>2. QED
  BY <1>1, InitMoneyInv, PTL DEF Spec

\* The one reservation counter covers the estimates of all the calls that may still
\* run, and outlives each of them, if no estimate is rounded up when it is stored.
THEOREM ReservationCovers == ASSUME RoundsDown PROVE Spec => []ReservedCoversHeld
<1>1. MoneyInv => ReservedCoversHeld
  BY DEF MoneyInv
<1>2. QED
  BY <1>1, SpecMoneyInv, PTL

\* Under the same condition, what the session owes grows only within the limit in
\* force, as exactly as the gate can tell, or because a call cost more than estimated.
THEOREM CommitmentBounded == ASSUME RoundsDown PROVE Spec => CommitmentIsBounded
<1> DEFINE Bounded == Committed' > Committed =>
                        \/ LimitNow' = 0
                        \/ Committed' <= LimitNow' + Slack
                        \/ \E r \in Request : Overrun1(r)
<1>1. MoneyInv /\ MoneyInv' /\ [Next]_vars => [Bounded]_vars
  <2> SUFFICES ASSUME MoneyInv, MoneyInv', [Next]_vars PROVE Bounded
    OBVIOUS
  <2>1. /\ TypeOK /\ spent.val \in Nat /\ reserved.val \in Nat
        /\ LimitNow \in Nat /\ Committed = spent.val + reserved.val
    <3>1. HeldIsNat
      BY EstimatesAreNat DEF MoneyInv, IInv
    <3>2. QED
      BY <3>1, ValueTypes, LimitFacts DEF MoneyInv, IInv, HeldIsNat, ReservedCoversHeld, Committed
  <2>2. ASSUME NEW r \in Request, NEW call \in Call, NEW cost \in Cost, Admit(r, call, cost)
        PROVE  Bounded
    <3>1. /\ LimitNow' = LimitNow
          /\ spent' = spent /\ reserved'.val = reserved.val + cost
      BY <2>2 DEF Admit, Reserve, LimitNow, Fresh
    <3>2. PICK e \in -Slack..Slack : ~BudgetDenied(cost, LimitNow - Committed + e)
      BY <2>2 DEF Admit, Admits, Remainders
    <3>3. LimitNow = 0 \/ Committed' <= LimitNow + Slack
      BY <2>1, <3>1, <3>2, StoreAssumption DEF BudgetDenied, Committed
    <3>4. QED
      BY <3>1, <3>3
  <2>3. ASSUME NEW r \in Request, NEW call \in Call, NEW actual \in Cost, PostExec(r, call, actual)
        PROVE  Bounded
    <3>1. /\ spent'.val = spent.val + actual /\ reserved'.val = reserved.val - est[r].val
          /\ ~Live(consumed[r]) /\ consumed[r]' = Fresh(call)
      BY <2>1, <2>3 DEF PostExec, MayCharge, Fresh, TypeOK
    <3>2. Live(consumed'[r])
      BY <3>1, StoreAssumption DEF Live, Fresh
    <3>3. est[r].val \in Int /\ actual \in Int
      BY <2>1, ValueTypes, StoreAssumption
    <3>4. Committed' > Committed => spent'.val - spent.val > est[r].val
      BY <2>1, <3>1, <3>3 DEF Committed
    <3>5. QED
      BY <3>1, <3>2, <3>4 DEF Overrun1
  <2>4. CASE spent'.val \in {0, spent.val} /\ reserved'.val \in {0, reserved.val}
    <3>1. ~(Committed' > Committed)
      BY <2>1, <2>4 DEF Committed
    <3>2. QED
      BY <3>1
  <2>5. ASSUME NEW r \in Request, NEW call \in Call, NEW cost \in Cost, Refuse(r, call, cost)
        PROVE  Bounded
    BY <2>4, <2>5 DEF Refuse, budgetVars
  <2>6. ASSUME NEW r \in Request, IssueCapability(r) \/ GrantHitl(r) PROVE Bounded
    BY <2>4, <2>6 DEF IssueCapability, GrantHitl, budgetVars
  <2>7. CASE ClearSession \/ (\E l \in Limit : SetLimit(l)) \/ UNCHANGED vars
    BY <2>4, <2>7 DEF ClearSession, SetLimit, vars, budgetVars, Gone
  <2>8. CASE Tick
    <3>1. spent \in Entry(Int, 0) /\ reserved \in Entry(Int, 0)
      BY <2>1 DEF TypeOK
    <3>2. /\ spent'.val = IF spent.ttl = 1 THEN 0 ELSE spent.val
          /\ reserved'.val = IF reserved.ttl = 1 THEN 0 ELSE reserved.val
      BY <2>8, <3>1, EntryFacts DEF Tick
    <3>3. QED
      BY <2>4, <3>2
  <2>9. QED
    BY <2>2, <2>3, <2>5, <2>6, <2>7, <2>8 DEF Next
<1>2. QED
  BY <1>1, SpecMoneyInv, PTL DEF Spec, CommitmentIsBounded

-----------------------------------------------------------------------------
(***************************************************************************)
(* The gate and decide(), when max_repeat is positive, as the daemon's is  *)
(* (daemon.py:280): a ceiling of 0 turns the gate's rule off and makes     *)
(* decide() deny every call.                                               *)
(***************************************************************************)
\* decide() judges what is printed as the gate judges what it has computed.
LEMMA DecideJudgesPrinted ==
  ASSUME MaxRepeat > 0, TypeOK, NEW call \in Call, NEW cost \in Cost, NEW rest \in Int
  PROVE  decide_for_daemon(call, cost, rest)[1] = "DENY" <=>
           RepeatDenied(call) \/ BudgetDenied(cost, tostring(rest))
<1> DEFINE top == tostring(LimitNow)
           left == tostring(rest)
           cf == [budget_usd |-> top, max_repeat_calls |-> MaxRepeat,
                  hitl_mode |-> "never", hitl_budget_threshold |-> Nil]
           st == [budget_initial_usd |-> top, budget_remaining_usd |-> left,
                  circuit_tripped |-> FALSE, seen_nonces |-> {},
                  repeat_count |-> effective_count(call), last_tool_name |-> call.tool,
                  pending_transition |-> Nil]
           cl == [tool_name |-> call.tool, nonce |-> call.params, digest |-> call.params,
                  opaque |-> call.params \in Opaque, estimated_cost_usd |-> cost]
<1>1. decide_for_daemon(call, cost, rest) = decide(cf, st, cl)
  BY Zenon DEF decide_for_daemon
<1>2. /\ top \in Nat /\ (top > 0 <=> LimitNow > 0) /\ left \in Int /\ cost \in Nat
      /\ Prior(call) \in Nat /\ effective_count(call) = Prior(call) + 1
  BY LimitFacts, PriorIsNat, RoundingKeepsSign, StoreAssumption DEF effective_count
<1> HIDE DEF top, left
<1>3. ~decision_input_error(cf, st, cl)
  <2>1. call.tool # Bad /\ call.params # Bad /\ Nil # Bad /\ {} # Bad
    BY StoreAssumption, NilAssumption, BadAssumption DEF Call
  <2>2. \A n \in Int : n # Nil /\ n # Bad
    BY NilAssumption, BadAssumption
  <2>3. Cardinality({}) = 0
    BY FS_EmptySet
  <2>4. QED
    BY <1>2, <2>1, <2>2, <2>3, NonceCapAssumption, StoreAssumption DEF decision_input_error
<1>4. decide(cf, st, cl) = AutomaticRules(cf, st, cl)
  BY <1>3 DEF decide
<1>5. AutomaticRules(cf, st, cl)[1] = "DENY" <=>
        Exhausted(cf, st) \/ Overrun(cf, st, cl) \/ Repeated(cf, st, cl)
  BY DEF AutomaticRules, Allow, Deny, Hitl
<1>6. \A n \in Int : n # Nil
  BY NilAssumption
<1>7. Exhausted(cf, st) \/ Overrun(cf, st, cl) <=> BudgetDenied(cost, left)
  BY <1>2, <1>6 DEF Exhausted, Overrun, estimated, BudgetDenied
<1>8. Repeated(cf, st, cl) <=> RepeatDenied(call)
  BY <1>2, <1>6, StoreAssumption DEF Repeated, RepeatDenied
<1>9. QED
  BY <1>1, <1>4, <1>5, <1>7, <1>8 DEF left

LEMMA RemaindersAreInt == TypeOK => Remainders \subseteq Int
BY ValueTypes, LimitFacts, StoreAssumption DEF Remainders, Committed

\* Where the two part, an amount and its rendering lie on two sides of the cost.
Crossing(cost, rest) ==
  \/ rest < cost /\ cost <= tostring(rest)
  \/ tostring(rest) < cost /\ cost <= rest

LEMMA PartingIsCrossing ==
  ASSUME TypeOK, NEW cost \in Cost, NEW rest \in Int,
         BudgetDenied(cost, rest) <=> ~BudgetDenied(cost, tostring(rest))
  PROVE  Crossing(cost, rest)
<1>1. /\ tostring(rest) \in Int /\ (tostring(rest) <= 0 <=> rest <= 0)
      /\ cost \in Nat /\ LimitNow \in Nat
  BY RoundingKeepsSign, LimitFacts, StoreAssumption
<1>2. QED
  BY <1>1 DEF BudgetDenied, Crossing

LEMMA DivergedCrosses ==
  ASSUME MaxRepeat > 0, IInv, NEW r \in Request, NEW call \in Call, NEW cost \in Cost,
         Admit(r, call, cost) \/ Refuse(r, call, cost), answer[r]' = "DIVERGED"
  PROVE  \E rest \in Remainders : Crossing(cost, rest)
<1>1. PICK rest \in Remainders :
        Admits(call, cost, rest) <=> decide_for_daemon(call, cost, rest)[1] = "DENY"
  <2>1. \A what \in {"none", "HITL", "DENY", "ERROR"} : ~Tell(r, what)
    BY DEF Tell, IInv, TypeOK
  <2>2. CASE Admit(r, call, cost)
    BY <2>1, <2>2 DEF Admit
  <2>3. CASE Refuse(r, call, cost)
    BY <2>1, <2>3 DEF Refuse
  <2>4. QED
    BY <2>2, <2>3
<1>2. rest \in Int /\ TypeOK
  BY RemaindersAreInt DEF IInv
<1>3. BudgetDenied(cost, rest) <=> ~BudgetDenied(cost, tostring(rest))
  BY <1>1, <1>2, DecideJudgesPrinted DEF Admits
<1>4. QED
  BY <1>2, <1>3, PartingIsCrossing

\* An evaluation is refused for state_decision_divergence only where rounding takes
\* what remains of the budget across the cost of the call.
THEOREM DivergesByRounding == ASSUME MaxRepeat > 0 PROVE Spec => DivergenceIsRounding
<1> DEFINE Rounds == \A r \in Request :
                       answer[r] # "DIVERGED" /\ answer'[r] = "DIVERGED" =>
                         \E cost \in Cost, rest \in Remainders :
                           \/ rest < cost /\ cost <= tostring(rest)
                           \/ tostring(rest) < cost /\ cost <= rest
<1>1. IInv /\ [Next]_vars => [Rounds]_vars
  <2> SUFFICES ASSUME IInv, [Next]_vars, NEW q \in Request,
                      answer[q] # "DIVERGED", answer[q]' = "DIVERGED"
               PROVE  \E cost \in Cost, rest \in Remainders : Crossing(cost, rest)
    BY DEF Crossing
  <2>1. ASSUME NEW r \in Request, NEW call \in Call, NEW cost \in Cost,
               Admit(r, call, cost) \/ Refuse(r, call, cost)
        PROVE  \E rest \in Remainders : Crossing(cost, rest)
    <3>1. q = r
      BY <2>1 DEF Admit, Refuse, Tell, IInv, TypeOK
    <3>2. QED
      BY <2>1, <3>1, DivergedCrosses
  <2>2. ASSUME NEW r \in Request, IssueCapability(r) \/ GrantHitl(r) PROVE FALSE
    <3>1. PICK what \in {"ALLOW", "DENY", "ERROR"} : Tell(r, what)
      BY <2>2 DEF IssueCapability, GrantHitl
    <3>2. QED
      BY <3>1, TellFacts DEF IInv
  <2>3. ~Tick /\ ~UNCHANGED answer
    BY DEF Tick
  <2>4. QED
    BY <2>1, <2>2, <2>3 DEF Next, PostExec, SetLimit, ClearSession, vars
<1>2. QED
  BY <1>1, SpecIInv, PTL DEF Spec, DivergenceIsRounding

-----------------------------------------------------------------------------
(***************************************************************************)
(* A denial and the money the gate reserved.                               *)
(***************************************************************************)
PrintsCosts == \A c \in Cost : tostring(c) = c

\* tostring() keeps the order, so what covers a printed cost covers it when printed.
LEMMA GateIsStricter ==
  ASSUME MaxRepeat > 0, PrintsCosts, TypeOK,
         NEW call \in Call, NEW cost \in Cost, NEW rest \in Int, Admits(call, cost, rest)
  PROVE  decide_for_daemon(call, cost, rest)[1] # "DENY"
<1>1. /\ tostring(rest) \in Int /\ (tostring(rest) <= 0 <=> rest <= 0)
      /\ cost \in Nat /\ LimitNow \in Nat
  BY RoundingKeepsSign, LimitFacts, StoreAssumption
<1>2. cost <= rest => cost <= tostring(rest)
  BY <1>1, RoundingIsMonotone DEF PrintsCosts
<1>3. ~BudgetDenied(cost, tostring(rest))
  BY <1>1, <1>2 DEF Admits, BudgetDenied
<1>4. QED
  BY <1>3, DecideJudgesPrinted DEF Admits

DenialInv == IInv /\ DeniedReservesNothing

\* A step that leaves the answers and the estimates of the others alone.
LEMMA DenialKept ==
  ASSUME DenialInv, NEW r \in Request,
         \A q \in Request : q # r => answer[q]' = answer[q] /\ est[q]' = est[q],
         answer[r]' \in {"DENY", "DIVERGED"} => ~Live(est[r]')
  PROVE  DeniedReservesNothing'
BY DEF DenialInv, DeniedReservesNothing

LEMMA NextDenialInv == MaxRepeat > 0 /\ PrintsCosts /\ DenialInv /\ [Next]_vars => DenialInv'
<1> SUFFICES ASSUME MaxRepeat > 0, PrintsCosts, DenialInv, [Next]_vars PROVE DenialInv'
  OBVIOUS
<1>1. IInv' /\ TypeOK' /\ IInv /\ TypeOK
  BY NextIInv DEF DenialInv, IInv
<1>2. ASSUME NEW r \in Request, NEW call \in Call, NEW cost \in Cost, Admit(r, call, cost)
      PROVE  DeniedReservesNothing'
  <2>1. \A rest \in Remainders :
          Admits(call, cost, rest) => decide_for_daemon(call, cost, rest)[1] # "DENY"
    BY <1>1, GateIsStricter, RemaindersAreInt
  <2>2. PICK what \in {"ERROR", "HITL", "none"} : Tell(r, what)
    BY <1>2, <2>1 DEF Admit
  <2>3. \A q \in Request : q # r => est[q]' = est[q]
    BY <1>1, <1>2 DEF Admit, TypeOK
  <2>4. QED
    BY <1>1, <2>2, <2>3, TellFacts, DenialKept
<1>3. ASSUME NEW r \in Request, NEW call \in Call, NEW cost \in Cost, Refuse(r, call, cost)
      PROVE  DeniedReservesNothing'
  <2>1. PICK what \in {"DENY", "DIVERGED"} : Tell(r, what)
    BY <1>3 DEF Refuse
  <2>2. est' = est /\ ~Live(est[r])
    BY <1>3 DEF Refuse, FirstSeen, Minted
  <2>3. QED
    BY <1>1, <2>1, <2>2, TellFacts, DenialKept
<1>4. ASSUME NEW r \in Request, IssueCapability(r) PROVE DeniedReservesNothing'
  <2>1. est' = est
    BY <1>4 DEF IssueCapability
  <2>2. CASE \E what \in {"ALLOW", "ERROR"} : Tell(r, what)
    BY <1>1, <2>1, <2>2, TellFacts, DenialKept
  <2>3. CASE ~MayIssue(r, asking[r]) /\ Tell(r, "DENY")
    <3>1. asking[r] # Nil
      BY <1>4 DEF IssueCapability
    <3>2. ~Live(est[r])
      BY <1>1, <2>3, <3>1 DEF MayIssue, IInv, KeysAgree, AnswersAgree, Live
    <3>3. QED
      BY <1>1, <2>1, <2>3, <3>2, TellFacts, DenialKept
  <2>4. QED
    BY <1>4, <2>2, <2>3 DEF IssueCapability
<1>5. ASSUME NEW r \in Request, GrantHitl(r) PROVE DeniedReservesNothing'
  <2>1. est' = est
    BY <1>5 DEF GrantHitl
  <2>2. PICK what \in {"ALLOW", "ERROR"} : Tell(r, what)
    BY <1>5 DEF GrantHitl
  <2>3. QED
    BY <1>1, <2>1, <2>2, TellFacts, DenialKept
<1>6. ASSUME NEW r \in Request, NEW call \in Call, NEW actual \in Cost, PostExec(r, call, actual)
      PROVE  DeniedReservesNothing'
  <2>1. /\ answer' = answer /\ est[r]' = Gone(0)
        /\ \A q \in Request : q # r => est[q]' = est[q]
    BY <1>1, <1>6 DEF PostExec, TypeOK
  <2>2. QED
    BY <2>1, DenialKept DEF Gone, Live
<1>7. ASSUME Tick PROVE DeniedReservesNothing'
  <2>1. ASSUME NEW q \in Request
        PROVE answer[q]' \in {answer[q], "none"} /\ (Live(est[q]') => Live(est[q]))
    BY <1>1, <1>7, AgedKeys DEF Tick, AgesTo, Live
  <2>2. QED
    BY <2>1 DEF DenialInv, DeniedReservesNothing
<1>8. ASSUME UNCHANGED <<answer, est>> PROVE DeniedReservesNothing'
  BY <1>8 DEF DenialInv, DeniedReservesNothing
<1>9. QED
  BY <1>1, <1>2, <1>3, <1>4, <1>5, <1>6, <1>7, <1>8
     DEF Next, ClearSession, SetLimit, DenialInv, vars, keyVars

\* A call that is denied for good holds no money, whatever the doubles of the gate
\* come to, if every cost is one that tostring() prints exactly.
THEOREM DenialsReserveNothing ==
  ASSUME MaxRepeat > 0, PrintsCosts
  PROVE  Spec => []DeniedReservesNothing
<1>1. Init => DenialInv
  BY InitIInv DEF DenialInv, DeniedReservesNothing, Init
<1>2. DenialInv /\ [Next]_vars => DenialInv'
  BY NextDenialInv
<1>3. DenialInv => DeniedReservesNothing
  BY DEF DenialInv
<1>4. QED
  BY <1>1, <1>2, <1>3, PTL DEF Spec

-----------------------------------------------------------------------------
(***************************************************************************)
(* The end of the money of lost calls.                                     *)
(***************************************************************************)
\* The counter outlives none of the requests that renewed it.
RenewedByCalls ==
  Live(reserved) =>
    \E r \in Request : request[r].ttl >= reserved.ttl \/ consumed[r].ttl >= reserved.ttl

LEMMA NextRenewed == IInv /\ RenewedByCalls /\ [Next]_vars => RenewedByCalls'
<1> SUFFICES ASSUME IInv, RenewedByCalls, [Next]_vars PROVE RenewedByCalls'
  OBVIOUS
<1>1. TypeOK /\ reserved \in Entry(Int, 0) /\ reserved.ttl \in 0..HourTtl
      /\ \A q \in Request : request[q].ttl \in 0..HourTtl /\ consumed[q].ttl \in 0..HourTtl
  BY ValueTypes, EntryFacts DEF IInv, TypeOK
<1>2. ASSUME NEW r \in Request, NEW call \in Call, NEW cost \in Cost, Admit(r, call, cost)
      PROVE  RenewedByCalls'
  <2>1. request[r]'.ttl = HourTtl /\ reserved'.ttl = HourTtl
    BY <1>1, <1>2 DEF Admit, Reserve, Fresh, TypeOK
  <2>2. QED
    BY <2>1, StoreAssumption DEF RenewedByCalls
<1>3. ASSUME NEW r \in Request, NEW call \in Call, NEW cost \in Cost, PostExec(r, call, cost)
      PROVE  RenewedByCalls'
  <2>1. consumed[r]'.ttl = HourTtl /\ reserved'.ttl = HourTtl
    BY <1>1, <1>3 DEF PostExec, Fresh, TypeOK
  <2>2. QED
    BY <2>1, StoreAssumption DEF RenewedByCalls
<1>4. ASSUME NEW r \in Request, NEW call \in Call, NEW cost \in Cost, Refuse(r, call, cost)
      PROVE  RenewedByCalls'
  <2>1. /\ reserved' = reserved /\ consumed' = consumed /\ request[r]'.ttl = HourTtl
        /\ \A q \in Request : q # r => request[q]' = request[q]
    BY <1>1, <1>4 DEF Refuse, Fresh, TypeOK, budgetVars
  <2>2. QED
    BY <1>1, <2>1, StoreAssumption DEF RenewedByCalls
<1>5. ASSUME Tick PROVE RenewedByCalls'
  <2>1. reserved'.ttl = IF Live(reserved) THEN reserved.ttl - 1 ELSE 0
    BY <1>1, <1>5, EntryFacts DEF Tick
  <2>2. ASSUME NEW q \in Request
        PROVE  /\ request[q]'.ttl = (IF Live(request[q]) THEN request[q].ttl - 1 ELSE 0)
               /\ consumed[q]'.ttl = (IF Live(consumed[q]) THEN consumed[q].ttl - 1 ELSE 0)
    BY <1>1, <1>5, AgedKeys DEF AgesTo
  <2>3. QED
    BY <1>1, <2>1, <2>2 DEF RenewedByCalls, Live
<1>6. CASE UNCHANGED <<reserved, request, consumed>>
  BY <1>6 DEF RenewedByCalls, Live
<1>7. QED
  BY <1>2, <1>3, <1>4, <1>5, <1>6
     DEF Next, IssueCapability, GrantHitl, SetLimit, ClearSession, vars, budgetVars, keyVars

\* The reservation counter is gone once no request of the last hour is left, and only
\* then: the money of a lost call has no other way out.
THEOREM QuietReleases == Spec => []QuietReleasesReserved
<1>1. Init => RenewedByCalls
  BY DEF Init, RenewedByCalls, Live, Gone
<1>2. IInv /\ RenewedByCalls /\ [Next]_vars => RenewedByCalls'
  BY NextRenewed
<1>3. IInv /\ RenewedByCalls => QuietReleasesReserved
  <2> SUFFICES ASSUME IInv, RenewedByCalls, Live(reserved)
               PROVE  \E r \in Request : Live(request[r]) \/ Live(consumed[r])
    BY DEF QuietReleasesReserved
  <2>1. reserved.ttl \in 0..HourTtl /\ reserved.ttl # 0
    BY EntryFacts DEF IInv, TypeOK, Live
  <2>2. QED
    BY <2>1 DEF RenewedByCalls, Live
<1>4. QED
  BY <1>1, <1>2, <1>3, SpecIInv, PTL DEF Spec
=============================================================================
